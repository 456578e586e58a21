------------------------------- MODULE Cpuset -------------------------------
(***************************************************************************)
(* The cpuset controller (cpuset.c): the CPUs of a tree of cpusets, the    *)
(* partitions of the default hierarchy, the scheduling domains, and the    *)
(* masks of the tasks, under writes to the files of the cpusets, cpusets   *)
(* that come and go, tasks that are moved and forked, and CPUs that go     *)
(* down and come up.                                                       *)
(*                                                                         *)
(* Every operation holds cpuset_mutex and is one step.  What runs outside  *)
(* it is split: the hotplug work takes the mutex once for every cpuset it  *)
(* visits, and the move of a task is a call before and a call after it.    *)
(* Memory nodes are left out, and the CPUs that are online are the active  *)
(* ones.  A fork is the copy of the mask, the entry in the list of tasks,  *)
(* and the callback.                                                       *)
(***************************************************************************)
EXTENDS Integers, FiniteSets, Sequences

CONSTANTS
  CPU,         \* cpu_possible_mask
  CsOrder,     \* the cpusets in pre-order, the top one first
  CsParent,    \* the parent of every cpuset but the top one
  CsStarts,    \* how it starts: v2, the cpusets already made, and the bound on what follows
  CsMasks,     \* the masks that are written
  Tsk,         \* the tasks
  MaxHotplugs  \* bound: CPU hotplugs; CsStarts bounds them with the writes, moves, mkdirs and rmdirs

Top == CsOrder[1]
Cs == {CsOrder[i] : i \in 1 .. Len(CsOrder)}
NoCs == Len(CsOrder) + 9

ASSUME CpusetAssumption ==
  /\ CsParent \in [Cs \ {Top} -> Cs] /\ NoCs \notin Cs
  /\ CsMasks \subseteq SUBSET CPU
  /\ MaxHotplugs \in Nat /\ \A s \in CsStarts : s.v2 \in BOOLEAN /\ DOMAIN s.cs = Cs /\ s.ops \in Nat

VARIABLES
  cs,        \* the cpusets
  v2,        \* is_in_v2_mode
  active,    \* cpu_active_mask
  tcs,       \* the cpuset a task is in the task list of
  mask,      \* its cpus_allowed
  dom,       \* the scheduling domains
  pending,   \* cpuset_hotplug_work is queued
  hot,       \* the work while it runs
  forced,    \* force_rebuild
  att,       \* the move of tasks that holds cgroup_mutex
  frk,       \* the fork in progress
  loose,     \* history: the tasks moved while its CPUs were changing, and their children
  warned,    \* the cpusets whose tasks could not be moved out: the message of the work
  csOps      \* what may still be done

cpusetVars == <<cs, v2, active, tcs, mask, dom, pending, hot, forced, att, frk, loose, warned, csOps>>

\* on: 0 not made yet, 1 live, 2 killed by rmdir and not yet offline, 3 offline.
\* cpus: cpus_allowed; eff: effective_cpus; sub: subparts_cpus; prs: the
\* partition_root_state; useP: use_parent_ecpus; nE: child_ecpus_count
NewCs == [on |-> 0, cpus |-> {}, eff |-> {}, sub |-> {}, prs |-> 0, excl |-> FALSE, lb |-> TRUE,
          useP |-> FALSE, nE |-> 0, attach |-> 0]
MadeCs(eff, n) == [NewCs EXCEPT !.on = 1, !.eff = eff, !.useP = TRUE, !.nE = n]
TopCs(n) == [NewCs EXCEPT !.on = 1, !.cpus = CPU, !.eff = CPU, !.prs = 1, !.excl = TRUE, !.nE = n]
IdleHot == [pc |-> "idle", at |-> 1, upd |-> FALSE, dst |-> NoCs]
IdleAtt == [by |-> "none", pc |-> "idle", t |-> 0, dst |-> NoCs]
IdleFrk == [pc |-> "idle", parent |-> 0, child |-> 0, m |-> {}]

-----------------------------------------------------------------------------
(***************************************************************************)
(* The tree.  S stands for the cpusets, the masks and the domains while an *)
(* operation computes them.                                                *)
(***************************************************************************)
CsPath == [c \in Cs |->
  LET up[n \in 0 .. Len(CsOrder)] ==
        IF n = 0 THEN c ELSE IF up[n - 1] = Top THEN Top ELSE CsParent[up[n - 1]]
  IN  {up[n] : n \in 0 .. Len(CsOrder)}]

\* an operation on every cpuset of a list, in the order of the list
InTurn(op(_, _), start, list) ==
  LET after[i \in 0 .. Len(list)] == IF i = 0 THEN start ELSE op(after[i - 1], list[i])
  IN  after[Len(list)]

IsOnline(C, c) == C[c].on \in {1, 2}
Kids(C, c) == SelectSeq(CsOrder, LAMBDA d : d # Top /\ IsOnline(C, d) /\ CsParent[d] = c)
KidSet(C, c) == {d \in Cs \ {Top} : IsOnline(C, d) /\ CsParent[d] = c}
PreOrder(C, c) == SelectSeq(CsOrder, LAMBDA d : IsOnline(C, d) /\ c \in CsPath[d])

Now == [cs |-> cs, mask |-> mask, dom |-> dom]
Become(S) == cs' = S.cs /\ mask' = S.mask /\ dom' = S.dom

\* set_cpus_allowed_ptr refuses a mask without an active CPU
SetAllowed(old, m) == IF m \cap active = {} THEN old ELSE m

\* update_tasks_cpumask
UpdateTasks(S, c) ==
  [S EXCEPT !.mask = [t \in Tsk |-> IF tcs[t] = c THEN SetAllowed(@[t], S.cs[c].eff) ELSE @[t]]]

\* validate_change, of the masks of CPUs
Valid(C, c, trial) ==
  /\ \A d \in KidSet(C, c) : C[d].cpus \subseteq trial.cpus /\ (C[d].excl => trial.excl)
  /\ c # Top =>
       LET p == CsParent[c]
           populated == \E t \in Tsk : tcs[t] # NoCs /\ c \in CsPath[tcs[t]]
       IN  /\ v2 \/ (trial.cpus \subseteq C[p].cpus /\ (trial.excl => C[p].excl))
           /\ \A d \in KidSet(C, p) \ {c} :
                trial.excl \/ C[d].excl => trial.cpus \cap C[d].cpus = {}
           /\ populated \/ C[c].attach > 0 => C[c].cpus = {} \/ trial.cpus # {}

-----------------------------------------------------------------------------
(***************************************************************************)
(* The scheduling domains.                                                 *)
(***************************************************************************)

\* the cpusets that generate_sched_domains takes into csa: it does not go
\* below one that is balanced as a whole
Balanced(C) ==
  LET visit(st, c) ==
        IF c = Top \/ CsPath[c] \cap st.skip # {}
             \/ (C[c].cpus # {} /\ ~C[c].lb)
             \/ (C[Top].lb /\ C[c].cpus \subseteq C[Top].eff)
        THEN st
        ELSE [csa |-> IF C[c].lb /\ C[c].eff # {} THEN st.csa \cup {c} ELSE st.csa,
              skip |-> IF C[c].prs # 1 THEN st.skip \cup {c} ELSE st.skip]
  IN  InTurn(visit, [csa |-> IF C[Top].lb THEN {Top} ELSE {}, skip |-> {}], PreOrder(C, Top)).csa

\* cpusets with a CPU in common get one partition number
Merged(blocks, m) ==
  {b \in blocks : b \cap m = {}} \cup {m \cup UNION {b \in blocks : b \cap m # {}}}

MasksOf(C, list) == [i \in DOMAIN list |-> C[list[i]].eff]

GenerateDomains(C) ==
  IF C[Top].lb /\ C[Top].sub = {} THEN {C[Top].eff}
  ELSE InTurn(Merged, {}, MasksOf(C, SelectSeq(CsOrder, LAMBDA c : c \in Balanced(C))))

\* rebuild_sched_domains_locked does nothing while the hotplug work has to run
Raced(C) ==
  IF C[Top].sub = {} THEN C[Top].eff # active
  ELSE \E c \in Cs : /\ IsOnline(C, c) /\ ~(C[c].eff \subseteq active)
                     /\ \A d \in CsPath[c] : C[d].prs = 1
Rebuild(S) == IF Raced(S.cs) THEN S ELSE [S EXCEPT !.dom = GenerateDomains(S.cs)]

-----------------------------------------------------------------------------
(***************************************************************************)
(* Masks and partitions.                                                   *)
(***************************************************************************)
ComputeEffective(C, c) ==
  LET p == C[CsParent[c]] IN
  IF p.sub # {} THEN (p.eff \cup p.sub) \cap C[c].cpus \cap active ELSE C[c].cpus \cap p.eff

\* update_parent_subparts_cpumask: the CPUs to take from the parent and to
\* give back; cmd "to" is partcmd_update with a new mask
Adding(me, par, cmd, to) ==
  CASE cmd = "enable"  -> me.cpus
    [] cmd = "disable" -> {}
    [] cmd = "to"      -> (to \cap par.eff) \ par.sub
    [] cmd = "update"  -> me.cpus \cap par.eff
Deleting(me, par, cmd, to) ==
  CASE cmd \in {"enable", "update"} -> {}
    [] cmd = "disable" -> me.cpus \cap par.sub
    [] cmd = "to"      -> (me.cpus \ to) \cap par.sub

\* the early returns
SubpartsRefused(C, c, me, par, cmd, to) ==
  \/ par.prs # 1 \/ (IF cmd = "to" THEN to ELSE me.cpus) = {}
  \/ cmd \in {"enable", "disable"} /\ KidSet(C, c) # {}
  \/ cmd = "enable" /\ (~(me.cpus \subseteq par.eff) \/ me.cpus = par.eff)
  \/ cmd = "to" /\ LET add == Adding(me, par, cmd, to)
                   IN  add # {} /\ add = par.eff /\ Deleting(me, par, cmd, to) \cap active = {}

\* a partition that would take all is in error until it would not
SubpartsState(me, par, update, takesAll) ==
  CASE update /\ me.prs = 1 /\ takesAll   -> -1
    [] update /\ me.prs = -1 /\ ~takesAll -> 1
    [] OTHER -> me.prs

SetSubparts(C, c, update, prs, added, deleted) ==
  LET C1 == [C EXCEPT ![c].prs = prs] IN
  IF (prs = -1 /\ ~(update /\ C[c].prs = -1)) \/ added \cup deleted = {} THEN [ret |-> 0, C |-> C1]
  ELSE [ret |-> IF update THEN 1 ELSE 0,
        C |-> [C1 EXCEPT ![CsParent[c]].sub = (@ \cup added) \ deleted,
                         ![CsParent[c]].eff = (@ \ added) \cup (deleted \cap active)]]
MoveSubparts(C, c, me, par, update, prs, add, del) ==
  SetSubparts(C, c, update, prs, IF prs = -1 THEN {} ELSE add,
              IF prs = -1 THEN me.cpus \cap par.sub ELSE del)

UpdateSubparts(C, c, cmd, to) ==
  LET par == C[CsParent[c]]
      me == C[c]
      update == cmd \in {"to", "update"}
      takesAll == cmd = "update" /\ me.cpus \cap par.eff = par.eff
  IN  IF SubpartsRefused(C, c, me, par, cmd, to) THEN [ret |-> -1, C |-> C]
      ELSE MoveSubparts(C, c, me, par, update, SubpartsState(me, par, update, takesAll),
                        Adding(me, par, cmd, to), Deleting(me, par, cmd, to))

\* what a cpuset below the written one becomes with the state of its parent
ParentTasks(S, p, u) ==
  IF u.ret # 0 THEN UpdateTasks([S EXCEPT !.cs = u.C], p) ELSE [S EXCEPT !.cs = u.C]
UpdateChildPartition(S, c) ==
  LET p == CsParent[c] IN
  CASE S.cs[p].prs = 0 -> [S EXCEPT !.cs[c].prs = 0, !.cs[c].excl = FALSE]
    [] S.cs[p].prs = 1 -> ParentTasks(S, p, UpdateSubparts(S.cs, c, "update", {}))
    [] S.cs[p].prs = -1 -> [S EXCEPT !.cs[c].prs = -1, !.cs[c].sub = {}]

\* effective_cpus and subparts_cpus are kept apart
SetEffective(me, new) ==
  CASE me.sub = {}  -> [me EXCEPT !.eff = new]
    [] me.sub # {} /\ (me.prs # 1 \/ new \subseteq me.sub) -> [me EXCEPT !.eff = new, !.sub = {}]
    [] OTHER -> [me EXCEPT !.eff = new \ me.sub,
                           !.sub = IF me.sub \subseteq new THEN @ ELSE @ \ new]

\* one cpuset of update_cpumasks_hier, and whether the domains need a rebuild
TakeMask(st, S, c, new) ==
  LET me == SetEffective(S.cs[c], new) IN
  [st EXCEPT !.S = UpdateTasks([S EXCEPT !.cs[c] = me], c),
             !.rebuild = @ \/ (me.cpus # {} /\ me.lb /\ (~v2 \/ me.prs = 1))]
UpdateNext(root, st, S, c, me, new) ==
  IF me.on = 2 THEN [st EXCEPT !.S = IF c # root /\ me.prs # 0 THEN UpdateChildPartition(S, c) ELSE S]
  ELSE TakeMask(st, IF c # root /\ me.prs # 0 THEN UpdateChildPartition(S, c) ELSE S, c, new)
UpdateWith(root, st, c, me, inherits, new) ==
  LET p == CsParent[c]
      S1 == [st.S EXCEPT !.cs[c].useP = inherits,
                         !.cs[p].nE = @ + (IF inherits THEN 1 ELSE 0) - (IF me.useP THEN 1 ELSE 0)]
  IN  IF CsPath[c] \cap st.skip # {} THEN st
      ELSE IF me.prs = 0 /\ new = me.eff THEN [st EXCEPT !.S = S1, !.skip = @ \cup {c}]
      ELSE UpdateNext(root, st, S1, c, me, new)
UpdateOne(root, st, c) ==
  LET own == ComputeEffective(st.S.cs, c)
      inherits == v2 /\ own = {}
  IN  UpdateWith(root, st, c, st.S.cs[c], inherits, IF inherits THEN st.S.cs[CsParent[c]].eff ELSE own)

Finished(st) == IF st.rebuild THEN Rebuild(st.S) ELSE st.S
UpdateHier(S, root) ==
  LET one(st, c) == UpdateOne(root, st, c) IN
  Finished(InTurn(one, [S |-> S, skip |-> {}, rebuild |-> FALSE], PreOrder(S.cs, root)))

\* update_sibling_cpumasks, when the parent has children that use its mask
UpdateSiblings(S, c) ==
  LET one(T, d) == IF d # c /\ T.cs[d].useP THEN UpdateHier(T, d) ELSE T
  IN  IF S.cs[CsParent[c]].nE = 0 THEN S ELSE InTurn(one, S, Kids(S.cs, CsParent[c]))

\* update_flag: S as it was when the change is not valid
UpdateFlag(S, c, trial) ==
  LET S1 == [S EXCEPT !.cs[c] = trial] IN
  IF ~Valid(S.cs, c, trial) THEN S
  ELSE IF trial.cpus # {} /\ trial.lb # S.cs[c].lb THEN Rebuild(S1) ELSE S1

\* update_prstate: on, off, and off from the invalid state
PartitionChanged(S, c) ==
  LET p == CsParent[c] IN Rebuild(UpdateSiblings(IF p = Top THEN S ELSE UpdateTasks(S, p), c))
Enabled(S, c, u) ==
  IF u.ret < 0 THEN UpdateFlag(S, c, [S.cs[c] EXCEPT !.excl = FALSE])
  ELSE PartitionChanged([S EXCEPT !.cs = [u.C EXCEPT ![c].prs = 1]], c)
EnableExclusive(S, c) ==
  IF S.cs[c].cpus = {} \/ ~S.cs[c].excl THEN S
  ELSE Enabled(S, c, UpdateSubparts(S.cs, c, "enable", {}))
EnablePartition(S, c) ==
  EnableExclusive(IF S.cs[c].cpus = {} THEN S ELSE UpdateFlag(S, c, [S.cs[c] EXCEPT !.excl = TRUE]), c)
PartitionOff(S, C, c) ==
  UpdateFlag([S EXCEPT !.cs = [C EXCEPT ![c].prs = 0]], c, [C[c] EXCEPT !.prs = 0, !.excl = FALSE])
Disabled(S, c, u) == IF u.ret < 0 THEN S ELSE PartitionChanged(PartitionOff(S, u.C, c), c)
DisablePartition(S, c) ==
  IF S.cs[c].prs = -1 THEN PartitionOff(S, S.cs, c)
  ELSE Disabled(S, c, UpdateSubparts(S.cs, c, "disable", {}))

-----------------------------------------------------------------------------
(***************************************************************************)
(* The files of a cpuset, and cpusets that come and go.                    *)
(***************************************************************************)
Op == csOps.left > 0 /\ csOps' = [csOps EXCEPT !.left = @ - 1]
Elsewhere == UNCHANGED <<v2, active, tcs, pending, hot, forced, att, frk, loose, warned>>

\* update_cpumask, once the partition has got its CPUs from the parent
WithSiblings(S, c) == IF S.cs[c].prs # 0 THEN UpdateSiblings(S, c) ELSE S
SetCpus(c, m, u) ==
  /\ u.ret >= 0
  /\ Become(WithSiblings(UpdateHier(
       [Now EXCEPT !.cs = [u.C EXCEPT ![c].cpus = m, ![c].sub = @ \ m]], c), c))
WriteCpus(c, m) ==
  /\ c # Top /\ IsOnline(cs, c)
  /\ m \subseteq cs[Top].cpus /\ m # cs[c].cpus /\ Valid(cs, c, [cs[c] EXCEPT !.cpus = m])
  /\ SetCpus(c, m, IF cs[c].prs # 0 THEN UpdateSubparts(cs, c, "to", m) ELSE [ret |-> 0, C |-> cs])
  /\ Op /\ Elsewhere

WritePartition(c, root) ==
  /\ v2 /\ c # Top /\ IsOnline(cs, c)
  /\ root <=> cs[c].prs = 0
  /\ Become(IF root THEN EnablePartition(Now, c) ELSE DisablePartition(Now, c))
  /\ cs' # cs
  /\ Op /\ Elsewhere

WriteFlag(c, trial) ==
  /\ ~v2 /\ IsOnline(cs, c) /\ trial # cs[c] /\ Valid(cs, c, trial)
  /\ Become(UpdateFlag(Now, c, trial))
  /\ Op /\ Elsewhere

CssOnline(c, clone) ==
  LET p == CsParent[c]
      bare == [cs EXCEPT ![c].on = 1, ![c].eff = IF v2 THEN cs[p].eff ELSE {}, ![c].useP = v2,
                         ![p].nE = IF v2 THEN @ + 1 ELSE @]
  IN  /\ c # Top /\ cs[c].on = 0 /\ cs[p].on = 1
      /\ \A i, j \in DOMAIN CsOrder : CsOrder[j] = c /\ i < j => cs[CsOrder[i]].on # 0
      /\ att.by = "none"
      /\ clone => ~v2 /\ \A d \in KidSet(cs, p) : ~cs[d].excl
      /\ cs' = IF clone THEN [bare EXCEPT ![c].cpus = cs[p].cpus, ![c].eff = cs[p].cpus] ELSE bare
      /\ UNCHANGED <<mask, dom>> /\ Op /\ Elsewhere

\* rmdir of a cpuset without tasks and without live children
CssKill(c) ==
  /\ c # Top /\ cs[c].on = 1 /\ att.by = "none"
  /\ \A d \in KidSet(cs, c) : cs[d].on = 2
  /\ \A t \in Tsk : tcs[t] # NoCs => c \notin CsPath[tcs[t]]
  /\ cs' = [cs EXCEPT ![c].on = 2]
  /\ UNCHANGED <<mask, dom>> /\ Op /\ Elsewhere

\* cpuset_css_offline: the partition and the balancing end, then the cpuset
Unbalanced(S, c) ==
  IF ~v2 /\ S.cs[c].lb THEN UpdateFlag(S, c, [S.cs[c] EXCEPT !.lb = FALSE]) ELSE S


GoneOffline(S, c) ==
  [S EXCEPT !.cs[CsParent[c]].nE = IF S.cs[c].useP THEN @ - 1 ELSE @,
            !.cs[c].useP = FALSE, !.cs[c].on = 3]

CssOffline(c) ==
  /\ c # Top /\ cs[c].on = 2 /\ KidSet(cs, c) = {} /\ att.by = "none"
  /\ Become(GoneOffline(Unbalanced(IF cs[c].prs = 1 THEN DisablePartition(Now, c) ELSE Now, c), c))
  /\ UNCHANGED csOps /\ Elsewhere

-----------------------------------------------------------------------------
(***************************************************************************)
(* Tasks.  A move holds cgroup_mutex and keeps forks out from beginning to *)
(* end.                                                                    *)
(***************************************************************************)
CanAttach(c) == v2 \/ cs[c].cpus # {}
CsUntouched == UNCHANGED <<v2, active, pending, forced, dom>>

AttachBegin(t, c) ==
  /\ att.by = "none" /\ frk.pc = "idle"
  /\ tcs[t] \notin {NoCs, c} /\ cs[c].on = 1 /\ CanAttach(c)
  /\ att' = [by |-> "user", pc |-> "can", t |-> t, dst |-> c]
  /\ cs' = [cs EXCEPT ![c].attach = @ + 1]
  /\ Op /\ UNCHANGED <<tcs, mask, hot, frk, loose, warned>> /\ CsUntouched

\* another controller refuses: nobody is woken
AttachCancel ==
  /\ att.pc = "can"
  /\ cs' = [cs EXCEPT ![att.dst].attach = @ - 1]
  /\ att' = IdleAtt
  /\ hot' = IF att.by = "hot" THEN [hot EXCEPT !.pc = "walk"] ELSE hot
  /\ warned' = IF att.by = "hot" THEN warned \cup {CsOrder[hot.at]} ELSE warned
  /\ UNCHANGED <<tcs, mask, frk, loose, csOps>> /\ CsUntouched

AttachCommit ==
  /\ att.pc = "can"
  /\ att' = [att EXCEPT !.pc = "committed"]
  /\ tcs' = [tcs EXCEPT ![att.t] = att.dst]
  /\ UNCHANGED <<cs, mask, hot, frk, loose, warned, csOps>> /\ CsUntouched

\* guarantee_online_cpus
OnlineCpus(c) ==
  LET up == {d \in CsPath[c] : cs[d].eff \cap active # {}}
      nearest == CHOOSE d \in up : \A e \in up : e \in CsPath[d]
  IN  IF up = {} THEN active ELSE cs[nearest].eff \cap active

Attached ==
  LET c == att.dst IN
  /\ att.pc = "committed"
  /\ mask' = [mask EXCEPT ![att.t] = IF c = Top THEN CPU ELSE OnlineCpus(c)]
  /\ loose' = IF c # Top /\ OnlineCpus(c) # cs[c].eff THEN loose \cup {att.t} ELSE loose
  /\ cs' = [cs EXCEPT ![c].attach = @ - 1]
  /\ hot' = IF hot.pc = "asleep" /\ cs[c].attach = 1 THEN [hot EXCEPT !.pc = "visit"] ELSE hot
  /\ att' = IF att.by = "hot" THEN [att EXCEPT !.pc = "next"] ELSE IdleAtt
  /\ UNCHANGED <<tcs, frk, warned, csOps>> /\ CsUntouched

ForkDup(t, child) ==
  /\ frk.pc = "idle" /\ att.by = "none" /\ tcs[t] # NoCs /\ tcs[child] = NoCs
  /\ frk' = [pc |-> "dup", parent |-> t, child |-> child, m |-> mask[t]]
  /\ Op /\ UNCHANGED <<cs, tcs, mask, hot, att, loose, warned>> /\ CsUntouched
ForkLink ==
  /\ frk.pc = "dup"
  /\ frk' = [frk EXCEPT !.pc = "linked"]
  /\ tcs' = [tcs EXCEPT ![frk.child] = tcs[frk.parent]]
  /\ mask' = [mask EXCEPT ![frk.child] = frk.m]
  /\ UNCHANGED <<cs, hot, att, loose, warned, csOps>> /\ CsUntouched

CpusetFork ==
  /\ frk.pc = "linked"
  /\ frk' = IdleFrk
  /\ mask' = IF tcs[frk.child] = Top THEN mask
             ELSE [mask EXCEPT ![frk.child] = SetAllowed(@, mask[frk.parent])]
  /\ loose' = IF frk.parent \in loose THEN loose \cup {frk.child} ELSE loose
  /\ UNCHANGED <<cs, tcs, hot, att, warned, csOps>> /\ CsUntouched

-----------------------------------------------------------------------------
(***************************************************************************)
(* CPU hotplug and the work that follows it.                               *)
(***************************************************************************)
Hotplug(now) ==
  /\ csOps.plug > 0 /\ csOps.left > 0
  /\ csOps' = [left |-> csOps.left - 1, plug |-> csOps.plug - 1]
  /\ active' = now /\ pending' = TRUE
  /\ UNCHANGED <<cs, v2, tcs, mask, dom, hot, forced, att, frk, loose, warned>>
CpuDown(i) == i \in active /\ active # {i} /\ Hotplug(active \ {i})
CpuUp(i) == i \in CPU \ active /\ Hotplug(active \cup {i})

HotOnly == UNCHANGED <<v2, active, tcs, frk, loose, csOps>>

\* the active CPUs that are not given to partitions
TopEffective(sub) == active \ sub

HotplugTop ==
  LET top == cs[Top]
      upd == top.eff # active
      kept == IF active \subseteq top.sub THEN {} ELSE top.sub
  IN  /\ pending /\ hot.pc = "idle"
      /\ pending' = FALSE
      /\ hot' = [IdleHot EXCEPT !.pc = IF upd THEN "walk" ELSE "end", !.upd = upd]
      /\ cs' = IF ~upd THEN cs
               ELSE [cs EXCEPT ![Top].cpus = IF v2 THEN @ ELSE active,
                               ![Top].sub = kept, ![Top].eff = TopEffective(kept)]
      /\ UNCHANGED <<mask, dom, forced, att>> /\ HotOnly /\ UNCHANGED warned

HotplugNext ==
  LET later == {i \in DOMAIN CsOrder : i > hot.at /\ cs[CsOrder[i]].on = 1}
      next == CHOOSE i \in later : \A j \in later : i <= j
  IN  /\ hot.pc = "walk"
      /\ hot' = IF later = {} THEN [hot EXCEPT !.pc = "end"] ELSE [hot EXCEPT !.pc = "visit", !.at = next]
      /\ UNCHANGED <<cs, mask, dom, pending, forced, att>> /\ HotOnly /\ UNCHANGED warned

\* cpuset_attach_wq: a task is on its way into the cpuset
HotplugWaits ==
  /\ hot.pc = "visit" /\ cs[CsOrder[hot.at]].attach > 0
  /\ hot' = [hot EXCEPT !.pc = "asleep"]
  /\ UNCHANGED <<cs, mask, dom, pending, forced, att>> /\ HotOnly /\ UNCHANGED warned

\* the partition state of a cpuset after a hotplug, and its new mask: a
\* partition that has lost its CPUs or its parent gives back what it gave,
\* is invalid if that does not help, and is updated with its parent's CPUs
Reclaimed(C, c, lost) == IF lost THEN [C EXCEPT ![c].sub = {}] ELSE C
Invalidated(C, c, lost, new) ==
  IF lost /\ (C[CsParent[c]].prs = -1 \/ new = {})
  THEN [UpdateSubparts(C, c, "disable", {}).C EXCEPT ![c].prs = -1] ELSE C
WithUpdate(u, lost, new) == [C |-> u.C, new |-> new, force |-> lost \/ u.ret # 0]
Revived(C, c, lost, new) ==
  LET p == CsParent[c] IN
  IF C[p].prs = 1 /\ (C[c].prs = -1 \/ new \cap C[p].sub = {})
  THEN WithUpdate(UpdateSubparts(C, c, "update", {}), lost, new)
  ELSE [C |-> C, new |-> new, force |-> lost]
PartitionAfter(C, c, lost, new) == Revived(Invalidated(C, c, lost, new), c, lost, new)
HotplugPartition(C, c) ==
  LET new == ComputeEffective(C, c) \ C[c].sub
      lost == C[c].prs = 1 /\ (new = {} \/ C[CsParent[c]].prs = -1)
  IN  IF C[c].prs = 0 THEN [C |-> C, new |-> new, force |-> FALSE]
      ELSE PartitionAfter(Reclaimed(C, c, lost), c, lost,
                          IF lost THEN ComputeEffective(Reclaimed(C, c, lost), c) ELSE new)

\* no task is on its way into the cpuset
MayVisit(c) == cs[c].attach = 0

\* a legacy hierarchy forgets the CPUs that have gone
ConfiguredMask(old, new) == IF v2 THEN old ELSE new

HotplugUpdate(c, h, eff) ==
  LET S == [Now EXCEPT !.cs = [h.C EXCEPT ![c].eff = eff, ![c].cpus = ConfiguredMask(@, h.new)]]
  IN  /\ Become(IF h.new # h.C[c].eff /\ eff # {} THEN UpdateTasks(S, c) ELSE S)
      /\ forced' = (forced \/ h.force)
      /\ hot' = [hot EXCEPT !.pc = IF eff = {} THEN "empty" ELSE "walk"]
HotplugTasks(c, h) ==
  HotplugUpdate(c, h, IF v2 /\ h.new = {} THEN h.C[CsParent[c]].eff ELSE h.new)
HotplugVisit ==
  LET c == CsOrder[hot.at] IN
  /\ hot.pc = "visit" /\ MayVisit(c) /\ HotplugTasks(c, HotplugPartition(cs, c))
  /\ UNCHANGED <<pending, att>> /\ HotOnly /\ UNCHANGED warned

\* remove_tasks_in_empty_cpuset: the nearest ancestor with CPUs
TransferBegin ==
  LET up == {d \in CsPath[CsOrder[hot.at]] \ {CsOrder[hot.at]} : cs[d].cpus # {}}
  IN  /\ hot.pc = "empty" /\ att.by = "none" /\ frk.pc = "idle"
      /\ hot' = [hot EXCEPT !.pc = "transfer", !.dst = CHOOSE d \in up : \A e \in up : e \in CsPath[d]]
      /\ att' = [IdleAtt EXCEPT !.by = "hot", !.pc = "next"]
      /\ UNCHANGED <<cs, mask, dom, pending, forced>> /\ HotOnly /\ UNCHANGED warned
TransferNext ==
  LET left == {t \in Tsk : tcs[t] = CsOrder[hot.at]}
      moves == left # {} /\ CanAttach(hot.dst)
  IN  /\ att.by = "hot" /\ att.pc = "next"
      /\ hot' = IF moves THEN hot ELSE [hot EXCEPT !.pc = "walk"]
      /\ att' = IF ~moves THEN IdleAtt
                ELSE [att EXCEPT !.pc = "can", !.t = CHOOSE t \in left : TRUE, !.dst = hot.dst]
      /\ cs' = IF moves THEN [cs EXCEPT ![hot.dst].attach = @ + 1] ELSE cs
      /\ warned' = IF left # {} /\ ~moves THEN warned \cup {CsOrder[hot.at]} ELSE warned
      /\ UNCHANGED <<mask, dom, pending, forced>> /\ HotOnly

HotplugEnd ==
  /\ hot.pc = "end"
  /\ hot' = IdleHot /\ forced' = FALSE
  /\ Become(IF hot.upd \/ forced THEN Rebuild(Now) ELSE Now)
  /\ UNCHANGED <<pending, att>> /\ HotOnly /\ UNCHANGED warned

-----------------------------------------------------------------------------
CpusetInit ==
  /\ \E s \in CsStarts : /\ v2 = s.v2 /\ cs = s.cs /\ dom = GenerateDomains(s.cs)
                        /\ csOps = [left |-> s.ops, plug |-> MaxHotplugs]
  /\ active = CPU
  /\ tcs = [t \in Tsk |-> IF t = 1 THEN Top ELSE NoCs]
  /\ mask = [t \in Tsk |-> CPU]
  /\ pending = FALSE /\ hot = IdleHot /\ forced = FALSE
  /\ att = IdleAtt /\ frk = IdleFrk
  /\ loose = {} /\ warned = {}

CpusetNext ==
  \/ \E c \in Cs, m \in CsMasks : WriteCpus(c, m)
  \/ \E c \in Cs, root \in BOOLEAN : WritePartition(c, root)
  \/ \E c \in Cs, on \in BOOLEAN : \/ WriteFlag(c, [cs[c] EXCEPT !.excl = on])
                                   \/ WriteFlag(c, [cs[c] EXCEPT !.lb = on])
  \/ \E c \in Cs : (\E clone \in BOOLEAN : CssOnline(c, clone)) \/ CssKill(c) \/ CssOffline(c)
  \/ \E t \in Tsk, c \in Cs : AttachBegin(t, c)
  \/ AttachCancel \/ AttachCommit \/ Attached
  \/ \E t, child \in Tsk : ForkDup(t, child)
  \/ ForkLink \/ CpusetFork
  \/ \E i \in CPU : CpuDown(i) \/ CpuUp(i)
  \/ HotplugTop \/ HotplugNext \/ HotplugWaits \/ HotplugVisit
  \/ TransferBegin \/ TransferNext \/ HotplugEnd

CpusetSpec == CpusetInit /\ [][CpusetNext]_cpusetVars

-----------------------------------------------------------------------------
CsQuiet == ~pending /\ hot.pc = "idle" /\ att.by = "none" /\ frk.pc = "idle"

\* The masks are masks of CPUs, a cpuset has tasks on the way into it exactly
\* while a move has passed can_attach, and no live cpuset is below one that
\* is gone.
CpusetTypeOK ==
  /\ \A c \in Cs : /\ cs[c].eff \cup cs[c].cpus \cup cs[c].sub \subseteq CPU
                   /\ cs[c].attach = IF att.pc \in {"can", "committed"} /\ att.dst = c THEN 1 ELSE 0
                   /\ c # Top /\ IsOnline(cs, c) => IsOnline(cs, CsParent[c])
  /\ \A t \in Tsk : mask[t] \subseteq CPU /\ mask[t] # {}

\* effective_cpus and subparts_cpus are mutually exclusive (the comment at
\* struct cpuset), whatever is written, enabled, removed or unplugged.
EffectiveApart == \A c \in Cs : cs[c].eff \cap cs[c].sub = {}

\* child_ecpus_count is the number of children that use their parent's mask:
\* else update_sibling_cpumasks is left out and they keep CPUs given away.
ChildCountExact ==
  \A c \in Cs : cs[c].nE = Cardinality({d \in KidSet(cs, c) : cs[d].useP})

\* The scheduling domains never overlap (generate_sched_domains).
DomainsDisjoint == \A a, b \in dom : a # b => a \cap b = {}

\* In a legacy hierarchy the effective mask of a live cpuset is the one that
\* was written (the WARN_ON in update_cpumasks_hier).
LegacyExact == ~v2 => \A c \in Cs : cs[c].on = 1 => cs[c].eff = cs[c].cpus

\* In a legacy hierarchy no task is left in a cpuset without CPUs once the
\* hotplug work and the moves are over, unless the work has said so.
NoneStranded ==
  CsQuiet /\ ~v2 => \A t \in Tsk : tcs[t] # NoCs /\ cs[tcs[t]].cpus = {} => tcs[t] \in warned

\* When the hotplug work has visited the cpusets and no CPU has come or gone
\* since, every live cpuset has only active CPUs, in the default hierarchy at
\* least one, and its tasks run on exactly those.
HotplugReachesAll ==
  hot.pc = "end" /\ hot.upd /\ ~pending =>
    /\ \A c \in Cs : cs[c].on = 1 => cs[c].eff \subseteq active /\ (v2 => cs[c].eff # {})
    /\ \A t \in Tsk : tcs[t] \in Cs \ (warned \cup {Top}) /\ t \notin loose \cup {att.t, frk.child}
                        => mask[t] = cs[tcs[t]].eff


=============================================================================
