--------------------------- MODULE CgroupFreezer ---------------------------
(***************************************************************************)
(* The freezer of the default hierarchy (freezer.c), with the parts of     *)
(* cgroup.c that keep its counters when cgroups are made and removed and   *)
(* when tasks are forked, exit and are migrated.                           *)
(*                                                                         *)
(* cgroup_freeze holds cgroup_mutex throughout, but for each cgroup of the *)
(* subtree it takes css_set_lock anew to set the flag, to reach the tasks, *)
(* and to look at the result.  A task goes into the trap, and leaves it,   *)
(* on its own (the signal code of the kernel, which is not in this         *)
(* repository, calls cgroup_enter_frozen and cgroup_leave_frozen).         *)
(***************************************************************************)
EXTENDS Integers, FiniteSets

CONSTANTS
  FGroup,       \* the cgroups
  FParent,      \* FParent[c], and NoFGroup for the root
  NoFGroup,
  FTask,        \* the tasks
  MayHold,      \* the cgroups that tasks are put into
  MaxFreezes    \* bound: writes to cgroup.freeze, mkdirs and rmdirs

ASSUME FreezerAssumption ==
  /\ FParent \in [FGroup -> FGroup \cup {NoFGroup}] /\ NoFGroup \notin FGroup
  /\ MayHold \subseteq FGroup /\ MaxFreezes \in Nat

VARIABLES
  fz,        \* the freezer state of every cgroup
  ftask,     \* the tasks
  fwriter,   \* the write to cgroup.freeze in progress
  freezes    \* writes, mkdirs and rmdirs so far

freezerVars == <<fz, ftask, fwriter, freezes>>

FTop == CHOOSE c \in FGroup : FParent[c] = NoFGroup

\* freeze: what was written; e: e_freeze; FREEZE, FROZEN: the flags
NoFz == [online |-> FALSE, freeze |-> FALSE, e |-> 0, FREEZE |-> FALSE, FROZEN |-> FALSE,
         frozenTasks |-> 0, frozenDesc |-> 0, desc |-> 0]

\* at: the cgroup, or NoFGroup; trap: JOBCTL_TRAP_FREEZE
NoFTask == [at |-> NoFGroup, trap |-> FALSE, frozen |-> FALSE, stopped |-> FALSE]

IdleFreezer == [pc |-> "idle", todo |-> {}, to |-> FALSE]

FreezerTypeOK ==
  /\ \A c \in FGroup : /\ {fz[c].e, fz[c].frozenTasks, fz[c].frozenDesc, fz[c].desc} \subseteq Nat
                       /\ fz[c].FROZEN \in BOOLEAN /\ fz[c].FREEZE \in BOOLEAN
  /\ \A t \in FTask : ftask[t].at \in FGroup \cup {NoFGroup} /\ ftask[t].frozen \in BOOLEAN
  /\ fwriter.pc \in {"idle", "next", "signal", "revisit"} /\ fwriter.todo \subseteq FGroup

FreezerInit ==
  /\ fz = [c \in FGroup |-> [NoFz EXCEPT !.online = TRUE,
             !.desc = Cardinality({d \in FGroup \ {c} : \E e \in FGroup :
                        FParent[d] = c \/ (FParent[d] = e /\ FParent[e] = c)})]]
  /\ ftask = [t \in FTask |-> IF t = CHOOSE x \in FTask : TRUE
                              THEN [NoFTask EXCEPT !.at = CHOOSE c \in MayHold : TRUE] ELSE NoFTask]
  /\ fwriter = IdleFreezer
  /\ freezes = 0

-----------------------------------------------------------------------------

FPaths ==
  [c \in FGroup |->
     LET up[n \in 0 .. Cardinality(FGroup)] ==
           IF n = 0 THEN c
           ELSE IF up[n - 1] = NoFGroup THEN NoFGroup ELSE FParent[up[n - 1]]
     IN  {up[n] : n \in 0 .. Cardinality(FGroup)} \ {NoFGroup}]
FPath(c) == FPaths[c]
FBelow(c) == {d \in FGroup : c \in FPath(d)}
TasksIn(T, c) == {t \in FTask : T[t].at = c}

\* cgroup_propagate_frozen: for each ancestor, the number of cgroups at and
\* below its child on the path that have changed is added to its counter
PropagateFrozen(F, c, frozen) ==
  LET above == FPath(c) \ {c}
      child(a) == CHOOSE d \in FPath(c) : FParent[d] = a
      state[a \in FPath(c)] ==      \* the counter, the flag, and desc after a
        IF a = c THEN [n |-> F[c].frozenDesc, flag |-> frozen, desc |-> 1]
        ELSE LET below == state[child(a)]
                 n == IF frozen THEN F[a].frozenDesc + below.desc ELSE F[a].frozenDesc - below.desc
                 turns == IF frozen THEN ~F[a].FROZEN /\ F[a].FREEZE /\ n = F[a].desc ELSE F[a].FROZEN
             IN  [n |-> n, flag |-> IF turns THEN frozen ELSE F[a].FROZEN,
                  desc |-> IF turns THEN below.desc + 1 ELSE below.desc]
  IN  [a \in FGroup |-> IF a \in above
                        THEN [F[a] EXCEPT !.frozenDesc = state[a].n, !.FROZEN = state[a].flag]
                        ELSE F[a]]

\* cgroup_update_frozen, with the tasks as in T
UpdateFrozen(F, T, c) ==
  LET frozen == F[c].FREEZE /\ F[c].frozenTasks = Cardinality(TasksIn(T, c)) IN
  IF F[c].FROZEN = frozen THEN F
  ELSE PropagateFrozen([F EXCEPT ![c].FROZEN = frozen], c, frozen)

AddFrozen(F, c, n) == [F EXCEPT ![c].frozenTasks = @ + n]

-----------------------------------------------------------------------------
(* The tasks.                                                              *)

\* cgroup_enter_frozen, from the freezer trap, or in a stop
EnterFrozen(t) ==
  /\ ftask[t].at # NoFGroup /\ ~ftask[t].frozen
  /\ \E stop \in BOOLEAN :
       /\ stop \/ ftask[t].trap
       /\ ftask' = [ftask EXCEPT ![t].frozen = TRUE, ![t].stopped = stop]
  /\ fz' = UpdateFrozen(AddFrozen(fz, ftask[t].at, 1), ftask', ftask[t].at)
  /\ UNCHANGED <<fwriter, freezes>>

\* cgroup_leave_frozen(FALSE) once the trap is cleared, cgroup_leave_frozen
\* (TRUE) after a stop or for a fatal signal
LeaveFrozen(t) ==
  LET c == ftask[t].at IN
  /\ ftask[t].frozen
  /\ \E always \in BOOLEAN :
       /\ ~always => ~ftask[t].trap /\ ~ftask[t].stopped
       /\ IF always \/ ~fz[c].FREEZE
          THEN /\ ftask' = [ftask EXCEPT ![t].frozen = FALSE, ![t].stopped = FALSE]
               /\ fz' = UpdateFrozen(AddFrozen(fz, c, -1), ftask', c)
          ELSE ftask' = [ftask EXCEPT ![t].trap = TRUE] /\ UNCHANGED fz
  /\ UNCHANGED <<fwriter, freezes>>

\* cgroup_post_fork
ForkFrozen(t, u) ==
  /\ ftask[t].at # NoFGroup /\ ~ftask[t].frozen /\ ftask[u].at = NoFGroup
  /\ ftask' = [ftask EXCEPT ![u] = [NoFTask EXCEPT !.at = ftask[t].at, !.trap = fz[ftask[t].at].FREEZE]]
  /\ UNCHANGED <<fz, fwriter, freezes>>

\* cgroup_exit
ExitFrozen(t) ==
  LET c == ftask[t].at IN
  /\ c # NoFGroup /\ ~ftask[t].frozen
  /\ ftask' = [ftask EXCEPT ![t] = NoFTask]
  /\ fz' = IF fz[c].FREEZE THEN UpdateFrozen(fz, ftask', c) ELSE fz
  /\ UNCHANGED <<fwriter, freezes>>

\* cgroup_freezer_migrate_task, for one task of a migration, once nr_tasks of
\* the destination and of the source have changed
MigrateFrozen(t, dst) ==
  LET src == ftask[t].at
      moved == [ftask EXCEPT ![t].at = dst]
      counted == IF ftask[t].frozen THEN AddFrozen(AddFrozen(fz, dst, 1), src, -1) ELSE fz
  IN  /\ fwriter.pc = "idle"
      /\ src \notin {NoFGroup, dst} /\ dst \in MayHold /\ fz[dst].online
      /\ IF ~fz[src].FREEZE /\ ~fz[dst].FREEZE /\ ~ftask[t].frozen
         THEN ftask' = moved /\ UNCHANGED fz
         ELSE /\ fz' = UpdateFrozen(UpdateFrozen(counted, moved, dst), moved, src)
              /\ ftask' = [moved EXCEPT ![t].trap = fz[dst].FREEZE]
      /\ UNCHANGED <<fwriter, freezes>>

-----------------------------------------------------------------------------
(* cgroup.freeze, mkdir and rmdir.                                         *)

\* cgroup_freeze: e_freeze of the subtree, and the cgroups for which that
\* makes a difference are left to be done
FreezeWrite(c) ==
  LET to == ~fz[c].freeze
      sub == {d \in FBelow(c) : fz[d].online}
  IN  /\ freezes < MaxFreezes /\ freezes' = freezes + 1
      /\ fwriter.pc = "idle" /\ c # FTop /\ fz[c].online
      /\ fz' = [d \in FGroup |->
                  [fz[d] EXCEPT !.freeze = IF d = c THEN to ELSE @,
                                !.e = IF d \notin sub THEN @ ELSE IF to THEN @ + 1 ELSE @ - 1]]
      /\ fwriter' = [pc |-> "next", to |-> to,
                     todo |-> {d \in sub : fz[d].e = IF to THEN 0 ELSE 1}]
      /\ UNCHANGED ftask

\* the next cgroup in pre-order
NextGroup == CHOOSE d \in fwriter.todo : FPath(d) \cap fwriter.todo = {d}

\* cgroup_do_freeze: the flag
DoFreeze ==
  /\ fwriter.pc = "next"
  /\ IF fwriter.todo = {}
     THEN fwriter' = IdleFreezer /\ UNCHANGED fz
     ELSE /\ fz' = [fz EXCEPT ![NextGroup].FREEZE = fwriter.to]
          /\ fwriter' = [fwriter EXCEPT !.pc = "signal"]
  /\ UNCHANGED <<ftask, freezes>>

\* cgroup_freeze_task for the tasks of the cgroup
FreezeTasks ==
  /\ fwriter.pc = "signal"
  /\ ftask' = [t \in FTask |-> IF ftask[t].at = NextGroup
                               THEN [ftask[t] EXCEPT !.trap = fwriter.to] ELSE ftask[t]]
  /\ fwriter' = [fwriter EXCEPT !.pc = "revisit"]
  /\ UNCHANGED <<fz, freezes>>

\* the state is revisited
Revisit ==
  LET c == NextGroup IN
  /\ fwriter.pc = "revisit"
  /\ fz' = IF fz[c].desc = fz[c].frozenDesc THEN UpdateFrozen(fz, ftask, c) ELSE fz
  /\ fwriter' = [fwriter EXCEPT !.pc = "next", !.todo = @ \ {c}]
  /\ UNCHANGED <<ftask, freezes>>

\* Mutant of Adjusted: cgroups that come and go frozen are not counted
AdjustedThawed(c, n, frozen) ==
  [d \in FGroup |-> IF d \in FPath(c) \ {c} THEN [fz[d] EXCEPT !.desc = @ + n] ELSE fz[d]]

Adjusted(c, n, frozen) ==
  [d \in FGroup |-> IF d \in FPath(c) \ {c}
                    THEN [fz[d] EXCEPT !.desc = @ + n, !.frozenDesc = IF frozen THEN @ + n ELSE @]
                    ELSE fz[d]]

\* cgroup_create: c inherits e_freeze, and is frozen at once
MakeFrozen(c) ==
  LET e == fz[FParent[c]].e IN
  /\ freezes < MaxFreezes /\ freezes' = freezes + 1
  /\ fwriter.pc = "idle" /\ ~fz[c].online /\ c # FTop /\ fz[FParent[c]].online
  /\ fz' = [Adjusted(c, 1, e > 0) EXCEPT
              ![c] = [NoFz EXCEPT !.online = TRUE, !.e = e, !.FREEZE = e > 0, !.FROZEN = e > 0]]
  /\ UNCHANGED <<ftask, fwriter>>

\* cgroup_destroy_locked
RemoveFrozen(c) ==
  /\ freezes < MaxFreezes /\ freezes' = freezes + 1
  /\ fwriter.pc = "idle" /\ fz[c].online /\ c # FTop
  /\ TasksIn(ftask, c) = {} /\ \A d \in FGroup : FParent[d] = c => ~fz[d].online
  /\ fz' = [Adjusted(c, -1, fz[c].FROZEN) EXCEPT ![c] = NoFz]
  /\ UNCHANGED <<ftask, fwriter>>

-----------------------------------------------------------------------------

FreezerNext ==
  \/ \E t \in FTask : \/ EnterFrozen(t) \/ LeaveFrozen(t) \/ ExitFrozen(t)
                      \/ \E u \in FTask : ForkFrozen(t, u)
                      \/ \E c \in FGroup : MigrateFrozen(t, c)
  \/ \E c \in FGroup : FreezeWrite(c) \/ MakeFrozen(c) \/ RemoveFrozen(c)
  \/ DoFreeze \/ FreezeTasks \/ Revisit

FreezerSpec == FreezerInit /\ [][FreezerNext]_freezerVars

-----------------------------------------------------------------------------
(* Properties.                                                             *)

\* The counters that decide when a cgroup is frozen are kept by six functions
\* and two files: nr_frozen_tasks counts the frozen tasks of the cgroup,
\* nr_frozen_descendants the live cgroups below it with CGRP_FROZEN.
FrozenCounted ==
  \A c \in FGroup : fz[c].online =>
    /\ fz[c].frozenTasks = Cardinality({t \in TasksIn(ftask, c) : ftask[t].frozen})
    /\ fz[c].frozenDesc = Cardinality({d \in FBelow(c) \ {c} : fz[d].online /\ fz[d].FROZEN})
    /\ fz[c].e = Cardinality({d \in FPath(c) : fz[d].freeze})

\* No cgroup that has come to rest misses its change: with no write in
\* progress, one that has to be frozen and whose tasks, and those below it,
\* are all frozen has CGRP_FROZEN, and one that has not to be frozen has not.
FrozenReported ==
  fwriter.pc = "idle" =>
    \A c \in FGroup : fz[c].online =>
      /\ fz[c].FREEZE <=> fz[c].e > 0
      /\ fz[c].FROZEN => fz[c].FREEZE
      /\ fz[c].FREEZE /\ (\A d \in FBelow(c) : \A t \in TasksIn(ftask, d) : ftask[t].frozen)
           => fz[c].FROZEN

\* Nobody is told that a cgroup is frozen while a task in it, or below it,
\* still runs, if only cgroups without children have tasks.
FrozenMeansStopped ==
  \A c \in FGroup : fz[c].online /\ fz[c].FROZEN =>
    \A d \in FBelow(c) : \A t \in TasksIn(ftask, d) : ftask[t].frozen

\* What the freezer counts and reports is what the tasks do, while they enter and
\* leave the trap, fork, exit and are moved during a freeze.
FreezerSound == FreezerTypeOK /\ FrozenCounted /\ FrozenReported /\ FrozenMeansStopped
=============================================================================
