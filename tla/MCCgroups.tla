----------------------------- MODULE MCCgroups -----------------------------
(***************************************************************************)
(* The parts of the cgroup code, one at a time: the tree of cgroups, the   *)
(* tasks in them, the freezer, and the walks over tasks.  A behaviour is   *)
(* one of a single part, chosen at the start, while the others stay in     *)
(* their initial states.  The tree is explored twice: with csses that come *)
(* and go while others hold them, and with tasks and threaded cgroups.     *)
(***************************************************************************)
EXTENDS CgroupTree, CgroupTasks, CgroupFreezer, TaskIter

VARIABLE part

\* constants
MCDependsOn == [s \in Ss |-> {}]
MCParent == 0 :> 9 @@ 1 :> 0 @@ 2 :> 1
MCFParent == 0 :> 9 @@ 1 :> 0 @@ 2 :> 1 @@ 3 :> 1
MCLeader == 1 :> 1 @@ 2 :> 2 @@ 3 :> 2
MCHome == 1 :> "A" @@ 2 :> "A" @@ 3 :> "B"
MCHeld == <<"A", "B">>

CgroupsInit == /\ part \in {"life", "threads", "tasks", "freezer", "iter"}
               /\ TreeInit /\ TasksInit /\ FreezerInit /\ IterInit

\* csses of one controller, at most two cgroups, references held by others
TreeLife ==
  \/ \E c \in DOMAIN cgrp : (Mkdir(c) /\ Cardinality(DOMAIN cgrp) <= 2) \/ Rmdir(c)
  \/ \E w \in Writer :
       \/ WaitEnds(w)
       \/ \E r \in Request : /\ r.func = "control" /\ r.enable \cup r.disable = {"mem"}
                             /\ Writes(w, r)
  \/ Destroys
  \/ \E i \in DOMAIN css : (Hold(i) /\ i[1] # Root) \/ Drop(i)

\* tasks, two controllers and threaded cgroups, with one thing dying at a time,
\* and while it does no write that makes csses: TreeLife has those
Leaving(G, S) ==
  Cardinality({i \in DOMAIN S : Dying(S, i)}) + Cardinality({c \in DOMAIN G : ~G[c].online})
TreeThreads ==
  /\ \/ \E c \in DOMAIN cgrp : Mkdir(c) \/ Rmdir(c) \/ Attach(c) \/ Detach(c)
     \/ Destroys
     \/ \E w \in Writer, r \in Request :
          \/ WriteType(w, r)
          \/ (r.enable # {} => Leaving(cgrp, css) = 0) /\ WriteControl(w, r)
  /\ Leaving(cgrp', css') <= 1

CgroupsNext ==
  /\ UNCHANGED part
  /\ \/ part = "life" /\ TreeLife /\ UNCHANGED <<tasksVars, freezerVars, iterVars>>
     \/ part = "threads" /\ TreeThreads /\ UNCHANGED <<tasksVars, freezerVars, iterVars>>
     \/ part = "tasks" /\ TasksNext /\ UNCHANGED <<treeVars, freezerVars, iterVars>>
     \/ part = "freezer" /\ FreezerNext /\ UNCHANGED <<treeVars, tasksVars, iterVars>>
     \/ part = "iter" /\ IterNexts /\ UNCHANGED <<treeVars, tasksVars, freezerVars>>

CgroupsSpec ==
  CgroupsInit /\ [][CgroupsNext]_<<part, treeVars, tasksVars, freezerVars, iterVars>>
=============================================================================
