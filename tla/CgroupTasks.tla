---------------------------- MODULE CgroupTasks ----------------------------
(***************************************************************************)
(* Tasks in the cgroups of the default hierarchy: fork, exit, and the      *)
(* migration of processes, threads and whole subtrees (cgroup.c), with the *)
(* pids controller that charges and uncharges for them (pids.c).           *)
(*                                                                         *)
(* A task refers to a css_set, which stands for its cgroup and its         *)
(* effective pids css.  Fork and the start of an exit hold                 *)
(* cgroup_threadgroup_rwsem for reading, a migration holds it for writing; *)
(* everything else interleaves wherever css_set_lock is free.  A css is    *)
(* named <<cgroup, n>>: the one before may still be charged when the       *)
(* controller is enabled again.  What else happens to cgroups and csses is *)
(* in CgroupTree; use_task_css_set_links is set.                           *)
(***************************************************************************)
EXTENDS Integers, FiniteSets

CONSTANTS
  Group,          \* the cgroups
  Parent,         \* Parent[c], and NoGroup for the root
  NoGroup,
  Task,           \* task_structs, which are numbers
  Limits,         \* the values written to pids.max
  MaxCss,         \* bound: pids csses of one cgroup at one time
  MaxWrites       \* bound: writes to the files of the hierarchy

ASSUME TasksAssumption ==
  /\ Parent \in [Group -> Group \cup {NoGroup}] /\ NoGroup \notin Group
  /\ Cardinality({c \in Group : Parent[c] = NoGroup}) = 1
  /\ Task \subseteq Nat /\ Limits \subseteq Nat /\ MaxCss \in Nat /\ MaxWrites \in Nat

Top == CHOOSE c \in Group : Parent[c] = NoGroup
PidsCss == Group \X (1 .. MaxCss)
NoPids == <<>>
Cset == Group \X PidsCss
InitCset == <<Top, <<Top, 1>>>>
PidsMax == Cardinality(Task) + 1

VARIABLES
  online,     \* the cgroups that have not been removed
  control,    \* the cgroups with the pids controller in subtree_control
  own,        \* own[c]: the pids css of cgroup c itself, or NoPids
  pids,       \* the counter, the limit and the parent of every css
  cset,       \* the css_sets that exist
  pop,        \* the populated counters of every cgroup
  task,
  mig,        \* the migration in progress, which holds cgroup_mutex
  writes      \* writes so far

tasksVars == <<online, control, own, pids, cset, pop, task, mig, writes>>

\* "none"; "charge", "revert", "charged": a child in fork, "done": the fork
\* has failed; "run"; "exiting": with PF_EXITING; "dying": after cgroup_exit;
\* "released": after cgroup_release, with the reference on its css_set
TaskRecord ==
  [st : {"none", "charge", "revert", "charged", "run", "exiting", "dying", "released"},
   leader : Task, forker : Task, cset : Cset,
   at : PidsCss]       \* how far pids_try_charge and its revert have come

NoTask == [st |-> "none", leader |-> CHOOSE t \in Task : TRUE,
           forker |-> CHOOSE t \in Task : TRUE, cset |-> InitCset, at |-> <<Top, 1>>]

NoMig == [pc |-> "idle", who |-> {}, src |-> {}, dst |-> <<>>, set |-> {},
          to |-> NoGroup, ret |-> 0, restore |-> {}]

TasksTypeOK ==
  /\ online \subseteq Group /\ control \subseteq Group
  /\ own \in [Group -> PidsCss \cup {NoPids}]
  /\ \A p \in PidsCss : /\ pids[p].counter \in Nat
                        /\ pids[p].limit \in Limits \cup {PidsMax}
                        /\ pids[p].parent \in PidsCss \cup {NoPids}
  /\ \A k \in DOMAIN cset : k \in Cset /\ cset[k] \in [refs : Nat, nr : Nat, dead : BOOLEAN]
  /\ \A c \in Group : pop[c] \in [csets : Nat, children : Nat]
  /\ task \in [Task -> TaskRecord]
  /\ mig.pc \in {"idle", "src", "dst", "tasks", "can", "attach", "finish"}

TasksInit ==
  /\ online = Group /\ control = {}
  /\ own = [c \in Group |-> IF c = Top THEN <<Top, 1>> ELSE NoPids]
  /\ pids = [p \in PidsCss |-> [counter |-> 0, limit |-> PidsMax, parent |-> NoPids]]
  /\ cset = [k \in {InitCset} |-> [refs |-> 2, nr |-> 1, dead |-> FALSE]]
  /\ pop = [c \in Group |-> [csets |-> IF c = Top THEN 1 ELSE 0, children |-> 0]]
  /\ task = [t \in Task |-> IF t = NoTask.leader THEN [NoTask EXCEPT !.st = "run"] ELSE NoTask]
  /\ mig = NoMig
  /\ writes = 0

-----------------------------------------------------------------------------
(* The tree, and the css_sets.  K, P and T are values of cset, pop, task.  *)

Paths ==
  [c \in Group |->
     LET up[n \in 0 .. Cardinality(Group)] ==
           IF n = 0 THEN c
           ELSE IF up[n - 1] = NoGroup THEN NoGroup ELSE Parent[up[n - 1]]
     IN  {up[n] : n \in 0 .. Cardinality(Group)} \ {NoGroup}]
PathOf(c) == Paths[c]
SubtreeOf(c) == {d \in Group : c \in PathOf(d)}

\* cgroup_e_css_by_mask, when ctl is the set of cgroups with the controller
\* in subtree_control
EffectiveCss(ctl, owned, c) ==
  LET has == {d \in PathOf(c) : d = Top \/ Parent[d] \in ctl} IN
  owned[CHOOSE d \in has : \A e \in has : Cardinality(PathOf(e)) <= Cardinality(PathOf(d))]

\* css_set_populated: a task is linked to css_set k
LinkedTo(T, k) == {t \in Task : T[t].cset = k /\ T[t].st \in {"run", "exiting"}}

IsPopulated(P, c) == P[c].csets + P[c].children > 0

\* Mutant of UpdatePopulated: no further than to the parent
UpdatePopulatedParent(P, c, adj) ==
  LET changes == (P[c].csets + adj + P[c].children > 0) # (P[c].csets + P[c].children > 0) IN
  [d \in Group |-> IF d = c THEN [P[d] EXCEPT !.csets = @ + adj]
                   ELSE IF d = Parent[c] /\ changes THEN [P[d] EXCEPT !.children = @ + adj]
                   ELSE P[d]]

\* cgroup_update_populated: the counter of c, then those of its ancestors as
\* long as being populated changes
UpdatePopulated(P, c, adj) ==
  LET bumped[d \in PathOf(c)] ==
        IF d = c THEN [P[d] EXCEPT !.csets = @ + adj]
        ELSE LET e == CHOOSE e \in PathOf(c) : Parent[e] = d
                 sum(q) == q.csets + q.children > 0
             IN  IF sum(bumped[e]) # sum(P[e])
                 THEN [P[d] EXCEPT !.children = @ + adj] ELSE P[d]
  IN  [d \in Group |-> IF d \in PathOf(c) THEN bumped[d] ELSE P[d]]

\* get_css_set and put_css_set: the last reference frees it
GetCset(K, k) == [K EXCEPT ![k].refs = @ + 1]
PutCset(K, k) ==
  IF K[k].refs = 1 THEN [j \in DOMAIN K \ {k} |-> K[j]] ELSE [K EXCEPT ![k].refs = @ - 1]

\* css_set_move_task: into the first empty css_set, and out of the last
MoveIn(T, P, k) == IF LinkedTo(T, k) = {} THEN UpdatePopulated(P, k[1], 1) ELSE P
MoveOut(T, P, t) ==
  IF LinkedTo(T, T[t].cset) = {t} THEN UpdatePopulated(P, T[t].cset[1], -1) ELSE P

\* the css p and those above it, without the one of the root, which is not charged
CssPath(p) ==
  LET up[n \in 0 .. Cardinality(Group)] ==
        IF n = 0 THEN p ELSE IF up[n - 1] = NoPids THEN NoPids ELSE pids[up[n - 1]].parent
  IN  {q \in {up[n] : n \in 0 .. Cardinality(Group)} : q # NoPids /\ q[1] # Top}

\* pids_charge and pids_uncharge
Charge(Q, p, num) ==
  [q \in PidsCss |-> IF q \in CssPath(p) THEN [Q[q] EXCEPT !.counter = @ + num] ELSE Q[q]]

CssOf(t) == task[t].cset[2]

-----------------------------------------------------------------------------
(* Fork.                                                                   *)

Forking == {u \in Task : task[u].st \in {"charge", "revert", "charged"}}
\* cgroup_threadgroup_rwsem is not held for writing
MayRead == mig.pc = "idle"
Running(t) == task[t].st = "run" /\ \A u \in Forking : task[u].forker # t

\* copy_process in t, which makes a thread or a process: cgroup_threadgroup_
\* change_begin, cgroup_fork, and pids_can_fork is called
Fork(t, u, thread) ==
  /\ Running(t) /\ MayRead
  /\ task[u].st = "none" /\ \A v \in Task : v < u => task[v].st # "none"
  /\ task' = [task EXCEPT ![u] = [st |-> "charge", forker |-> t, cset |-> InitCset,
                                  leader |-> IF thread THEN task[t].leader ELSE u,
                                  at |-> CssOf(t)]]
  /\ UNCHANGED <<online, control, own, pids, cset, pop, mig, writes>>

\* pids_try_charge, one level
TryCharge(u) ==
  LET p == task[u].at IN
  /\ task[u].st = "charge"
  /\ IF pids[p].parent = NoPids
     THEN /\ task' = [task EXCEPT ![u].st = "charged"]
          /\ UNCHANGED pids
     ELSE /\ pids' = [pids EXCEPT ![p].counter = @ + 1]
          /\ task' = IF pids[p].counter + 1 > pids[p].limit
                     THEN [task EXCEPT ![u].st = "revert"]
                     ELSE [task EXCEPT ![u].at = pids[p].parent]
  /\ UNCHANGED <<online, control, own, cset, pop, mig, writes>>

\* the levels u has been charged on so far
ChargedLevels(u) ==
  CASE task[u].st = "charge"  -> CssPath(CssOf(task[u].forker)) \ CssPath(task[u].at)
    [] task[u].st = "revert"  -> (CssPath(CssOf(task[u].forker)) \ CssPath(task[u].at)) \cup {task[u].at}
    [] task[u].st = "charged" -> CssPath(CssOf(task[u].forker))
    [] OTHER -> {}

\* the revert of pids_try_charge: up to and with the level that failed
RevertCharge(u) ==
  /\ task[u].st = "revert"
  /\ pids' = [q \in PidsCss |-> IF q \in ChargedLevels(u)
                                THEN [pids[q] EXCEPT !.counter = @ - 1] ELSE pids[q]]
  /\ task' = [task EXCEPT ![u] = NoTask]
  /\ UNCHANGED <<online, control, own, cset, pop, mig, writes>>

\* copy_process fails later: cgroup_cancel_fork
CancelFork(u) ==
  /\ task[u].st = "charged"
  /\ pids' = Charge(pids, CssOf(task[u].forker), -1)
  /\ task' = [task EXCEPT ![u] = NoTask]
  /\ UNCHANGED <<online, control, own, cset, pop, mig, writes>>

\* cgroup_post_fork: the child goes where its parent is now
PostFork(u) ==
  LET k == task[task[u].forker].cset IN
  /\ task[u].st = "charged"
  /\ pop' = MoveIn(task, pop, k)
  /\ cset' = [GetCset(cset, k) EXCEPT ![k].nr = @ + 1]
  /\ task' = [task EXCEPT ![u].st = "run", ![u].cset = k, ![u].at = <<Top, 1>>,
                          ![u].forker = NoTask.forker]
  /\ UNCHANGED <<online, control, own, pids, mig, writes>>

-----------------------------------------------------------------------------
(* Exit.                                                                   *)

\* exit_signals sets PF_EXITING
SetExiting(t) ==
  /\ Running(t) /\ MayRead
  /\ task' = [task EXCEPT ![t].st = "exiting"]
  /\ UNCHANGED <<online, control, own, pids, cset, pop, mig, writes>>

CgroupExit(t) ==
  /\ task[t].st = "exiting"
  /\ pop' = MoveOut(task, pop, t)
  /\ cset' = [cset EXCEPT ![task[t].cset].nr = @ - 1]
  /\ task' = [task EXCEPT ![t].st = "dying"]
  /\ UNCHANGED <<online, control, own, pids, mig, writes>>

\* cgroup_release, with pids_release; a leader goes after its threads
CgroupRelease(t) ==
  /\ task[t].st = "dying"
  /\ task[t].leader = t => \A u \in Task \ {t} : task[u].leader # t \/ task[u].st \in {"none", "released"}
  /\ pids' = Charge(pids, CssOf(t), -1)
  /\ task' = [task EXCEPT ![t].st = "released"]
  /\ UNCHANGED <<online, control, own, cset, pop, mig, writes>>

\* the last reference on the task is gone
CgroupFree(t) ==
  /\ task[t].st = "released"
  /\ cset' = PutCset(cset, task[t].cset)
  /\ task' = [task EXCEPT ![t] = NoTask]
  /\ UNCHANGED <<online, control, own, pids, pop, mig, writes>>

-----------------------------------------------------------------------------
(* Migration.                                                              *)

Write == writes < MaxWrites /\ mig.pc = "idle" /\ writes' = writes + 1

\* the threads that while_each_thread meets
ThreadsOf(l) == {t \in Task : task[t].leader = l /\ task[t].st \notin {"none"} /\ t \notin Forking}

\* cgroup_procs_write: cgroup_procs_write_start takes the rwsem, which waits
\* for the forks, and finds the process
ProcsWrite(l, c) ==
  /\ Write /\ Forking = {} /\ c \in online
  /\ task[l].leader = l /\ task[l].st \in {"run", "exiting", "dying"}
  /\ mig' = [NoMig EXCEPT !.pc = "src", !.who = ThreadsOf(l), !.to = c]
  /\ UNCHANGED <<online, control, own, pids, cset, pop, task>>

\* cgroup_apply_control for a change of pids in the subtree_control of c:
\* csses for the children, then cgroup_update_dfl_csses
FreshCss(d) ==
  {n \in 1 .. MaxCss : /\ \A k \in DOMAIN cset : k[2] # <<d, n>>
                       /\ \A p \in PidsCss : pids[p].parent # <<d, n>>
                       /\ own[d] # <<d, n>>}
WriteControls(c) ==
  LET kids == {d \in online : Parent[d] = c}
      on == c \notin control
      new(d) == <<d, CHOOSE n \in FreshCss(d) : TRUE>>
  IN  /\ Write /\ Forking = {} /\ c \in online
      /\ IF on THEN c = Top \/ Parent[c] \in control
               ELSE \A d \in kids : d \notin control
      /\ on => \A d \in kids : FreshCss(d) # {}
      /\ control' = IF on THEN control \cup {c} ELSE control \ {c}
      /\ own' = [d \in Group |-> IF on /\ d \in kids THEN new(d) ELSE own[d]]
      /\ pids' = [p \in PidsCss |->
                    IF on /\ \E d \in kids : p = new(d)
                    THEN [counter |-> 0, limit |-> PidsMax, parent |-> own[c]] ELSE pids[p]]
      /\ mig' = [NoMig EXCEPT !.pc = "src", !.restore = control,
                              !.who = {t \in Task : task[t].st # "none" /\ task[t].cset[1] \in SubtreeOf(c)}]
      /\ UNCHANGED <<online, cset, pop, task>>

\* a css_set that cgroup_migrate_add_src takes; dead ones are left alone
SrcCsets ==
  LET met == IF mig.to # NoGroup THEN {task[t].cset : t \in mig.who}
             ELSE {k \in DOMAIN cset : k[1] \in online /\ \E t \in Task : k = task[t].cset /\ t \in mig.who}
  IN  {k \in met : ~cset[k].dead}

\* cgroup_migrate_add_src
AddSrc ==
  /\ mig.pc = "src"
  /\ mig' = [mig EXCEPT !.pc = "dst", !.src = SrcCsets]
  /\ cset' = [k \in DOMAIN cset |-> IF k \in SrcCsets
                                    THEN [cset[k] EXCEPT !.refs = @ + 1] ELSE cset[k]]
  /\ UNCHANGED <<online, control, own, pids, pop, task, writes>>

\* the css_set a task in k will have
FindCset(k) == LET c == IF mig.to = NoGroup THEN k[1] ELSE mig.to
               IN  <<c, EffectiveCss(control, own, c)>>

\* cgroup_migrate_prepare_dst: css_sets are found or made for those in some,
\* all of src if memory lasts.  Where nothing changes src is dropped.  Two
\* sources may have one destination, which is pinned once.
PrepareDst ==
  /\ mig.pc = "dst"
  /\ \E some \in SUBSET mig.src :
       LET same == {k \in some : FindCset(k) = k}
           dsts == {FindCset(k) : k \in some \ same}
           refs(k) == (IF k \in dsts THEN 1 ELSE 0) - (IF k \in same THEN 1 ELSE 0)
           old(k) == IF k \in DOMAIN cset THEN cset[k] ELSE [refs |-> 0, nr |-> 0, dead |-> FALSE]
           all == [k \in DOMAIN cset \cup dsts |-> [old(k) EXCEPT !.refs = @ + refs(k)]]
       IN  /\ cset' = [k \in {j \in DOMAIN all : all[j].refs > 0} |-> all[k]]
           /\ mig' = [mig EXCEPT !.pc = IF some = mig.src THEN "tasks" ELSE "finish",
                                 !.src = @ \ same,
                                 !.dst = [k \in some \ same |-> FindCset(k)],
                                 !.ret = IF some = mig.src THEN 0 ELSE -1]
  /\ UNCHANGED <<online, control, own, pids, pop, task, writes>>

\* cgroup_migrate_add_task: not those that exit, nor without a destination
AddTasks ==
  /\ mig.pc = "tasks"
  /\ mig' = [mig EXCEPT !.pc = "can",
                        !.set = {t \in mig.who : task[t].st = "run" /\ task[t].cset \in mig.src}]
  /\ UNCHANGED <<online, control, own, pids, cset, pop, task, writes>>

\* the pids controller is in ss_mask
PidsMoves == mig.set # {} /\ \E k \in mig.src : k[2] # mig.dst[k][2]

\* what the charges of the tasks in the set add to p
MovedCharge(p) ==
  Cardinality({t \in mig.set : p \in CssPath(mig.dst[task[t].cset][2])})
  - Cardinality({t \in mig.set : p \in CssPath(CssOf(t))})
ChargeSet(sign) ==
  [p \in PidsCss |-> [pids[p] EXCEPT !.counter = @ + sign * MovedCharge(p)]]

\* can_attach of the controllers up to pids, one of which may refuse
CanAttach ==
  /\ mig.pc = "can"
  /\ \/ mig.set # {} /\ mig' = [mig EXCEPT !.pc = "finish", !.ret = -1] /\ UNCHANGED pids
     \/ /\ pids' = IF PidsMoves THEN ChargeSet(1) ELSE pids
        /\ mig' = [mig EXCEPT !.pc = "attach"]
  /\ UNCHANGED <<online, control, own, cset, pop, task, writes>>

\* Mutant of CancelAttach: the charges stay
CancelAttachCharged ==
  /\ mig.pc = "attach" /\ mig.set # {}
  /\ mig' = [mig EXCEPT !.pc = "finish", !.ret = -1]
  /\ UNCHANGED <<online, control, own, pids, cset, pop, task, writes>>

\* a controller after pids refuses: pids_cancel_attach
CancelAttach ==
  /\ mig.pc = "attach" /\ mig.set # {}
  /\ pids' = IF PidsMoves THEN ChargeSet(-1) ELSE pids
  /\ mig' = [mig EXCEPT !.pc = "finish", !.ret = -1]
  /\ UNCHANGED <<online, control, own, cset, pop, task, writes>>

\* css_set_move_task, and the references, for one task of the commit
Committed(st, t) ==
  LET from == st.task[t].cset
      to == mig.dst[from]
      in == MoveIn(st.task, st.pop, to)
  IN  [task |-> [st.task EXCEPT ![t].cset = to],
       pop |-> MoveOut(st.task, in, t),
       cset |-> PutCset([GetCset(st.cset, to) EXCEPT ![to].nr = @ + 1, ![from].nr = @ - 1], from)]

\* the commit point of cgroup_migrate_execute
Commit ==
  LET n == Cardinality(mig.set)
      before(t) == Cardinality({u \in mig.set : u < t})
      after[m \in 0 .. n] ==
        IF m = 0 THEN [task |-> task, pop |-> pop, cset |-> cset]
        ELSE Committed(after[m - 1], CHOOSE t \in mig.set : before(t) = m - 1)
  IN  /\ mig.pc = "attach"
      /\ task' = after[n].task /\ pop' = after[n].pop /\ cset' = after[n].cset
      /\ mig' = [mig EXCEPT !.pc = "finish"]
      /\ UNCHANGED <<online, control, own, pids, writes>>

\* cgroup_migrate_finish, and for a change of control cgroup_finalize_control:
\* the masks are restored after a failure, and csses not in them are killed
Finish ==
  LET puts(k) == (IF k \in mig.src THEN 1 ELSE 0)
                 + (IF \E j \in DOMAIN mig.dst : mig.dst[j] = k THEN 1 ELSE 0)
      left == [k \in DOMAIN cset |-> [cset[k] EXCEPT !.refs = @ - puts(k)]]
      ctl == IF mig.to = NoGroup /\ mig.ret # 0 THEN mig.restore ELSE control
  IN  /\ mig.pc = "finish"
      /\ cset' = [k \in {j \in DOMAIN left : left[j].refs > 0} |-> left[k]]
      /\ control' = ctl
      /\ own' = [c \in Group |-> IF c = Top \/ Parent[c] \in ctl THEN own[c] ELSE NoPids]
      /\ mig' = NoMig
      /\ UNCHANGED <<online, pids, pop, task, writes>>

\* cgroup_rmdir of an empty cgroup; its css_sets are dead
RemoveGroup(c) ==
  /\ Write /\ c \in online \ {Top}
  /\ ~IsPopulated(pop, c)
  /\ \A d \in online : Parent[d] # c
  /\ online' = online \ {c}
  /\ cset' = [k \in DOMAIN cset |-> IF k[1] = c THEN [cset[k] EXCEPT !.dead = TRUE] ELSE cset[k]]
  /\ own' = [own EXCEPT ![c] = NoPids]
  /\ control' = control \ {c}
  /\ UNCHANGED <<pids, pop, task, mig>>

\* pids_max_write, at any time
PidsMaxWrite(c, limit) ==
  /\ writes < MaxWrites /\ writes' = writes + 1
  /\ c # Top /\ own[c] # NoPids /\ pids[own[c]].limit # limit
  /\ pids' = [pids EXCEPT ![own[c]].limit = limit]
  /\ UNCHANGED <<online, control, own, cset, pop, task, mig>>

-----------------------------------------------------------------------------

Migrates == AddSrc \/ PrepareDst \/ AddTasks \/ CanAttach \/ CancelAttach \/ Commit \/ Finish

TasksNext ==
  \/ \E t, u \in Task : \E thread \in BOOLEAN : Fork(t, u, thread)
  \/ \E t \in Task : \/ TryCharge(t) \/ RevertCharge(t) \/ CancelFork(t) \/ PostFork(t)
                     \/ SetExiting(t) \/ CgroupExit(t) \/ CgroupRelease(t) \/ CgroupFree(t)
  \/ \E c \in Group : \/ WriteControls(c) \/ RemoveGroup(c)
                      \/ \E t \in Task : ProcsWrite(t, c)
                      \/ \E limit \in Limits : PidsMaxWrite(c, limit)
  \/ Migrates

TasksSpec == TasksInit /\ [][TasksNext]_tasksVars

-----------------------------------------------------------------------------
(* Properties.                                                             *)

\* The css_set of a task, exiting and released ones included, is there until
\* the task is freed; its reference count is the number of those who refer to
\* it, and nr_tasks the number of the tasks linked to it.
CsetsPinned ==
  /\ \A t \in Task : task[t].st \in {"run", "exiting", "dying", "released"} => task[t].cset \in DOMAIN cset
  /\ \A k \in DOMAIN cset :
       /\ cset[k].nr = Cardinality(LinkedTo(task, k))
       /\ cset[k].refs =
            Cardinality({t \in Task : task[t].cset = k /\
                           task[t].st \in {"run", "exiting", "dying", "released"}})
            + (IF k = InitCset THEN 1 ELSE 0)
            + (IF k \in mig.src /\ mig.pc # "src" THEN 1 ELSE 0)
            + (IF \E j \in DOMAIN mig.dst : mig.dst[j] = k THEN 1 ELSE 0)

\* The counters of cgroup_update_populated, which stops at the first cgroup
\* whose state does not change: a cgroup is populated exactly if a task that
\* has not exited is in it or below it; a removed cgroup never is.
PopulatedAgrees ==
  \A c \in Group :
    /\ IsPopulated(pop, c) <=> \E k \in DOMAIN cset : k[1] \in SubtreeOf(c) /\ LinkedTo(task, k) # {}
    /\ c \notin online => ~IsPopulated(pop, c)

\* Every task is charged once to its pids css and each css above it, from
\* before it exists until it is released, across failed forks, migrations that
\* are refused half way and csses that are replaced under it (the WARN_ON_ONCE
\* of pids_cancel).
ChargesExact ==
  LET charged(t) ==
        IF task[t].st \in {"run", "exiting", "dying"}
        THEN IF mig.pc = "attach" /\ t \in mig.set /\ PidsMoves
             THEN CssPath(mig.dst[task[t].cset][2]) ELSE CssPath(CssOf(t))
        ELSE ChargedLevels(t)
  IN  \A p \in PidsCss : p[1] # Top =>
        \/ \A k \in DOMAIN cset : k[2] # p
        \/ pids[p].counter = Cardinality({t \in Task : p \in charged(t)})

\* Threads made and ending while their process is moved do not stay behind:
\* outside of a migration all live threads of a process are in one cgroup, and
\* each has the css that is in effect there.
ProcessTogether ==
  mig.pc = "idle" =>
    \A t, u \in Task :
      task[t].st = "run" /\ task[u].st = "run" =>
        /\ task[t].leader = task[u].leader => task[t].cset = task[u].cset
        /\ CssOf(t) = EffectiveCss(control, own, task[t].cset[1])

\* Tasks, css_sets and the populated state of cgroups agree, while tasks fork,
\* exit and are released around a migration.
TasksKept == TasksTypeOK /\ CsetsPinned /\ PopulatedAgrees

\* A migration moves a process as a whole and its charges with it, or not at
\* all.
MovesWhole == ChargesExact /\ ProcessTogether
=============================================================================
