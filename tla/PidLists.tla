----------------------------- MODULE PidLists ------------------------------
(***************************************************************************)
(* The files "tasks" and "cgroup.procs" of a version 1 cgroup              *)
(* (cgroup-v1.c): the sorted list of the ids in the cgroup, shared by all  *)
(* who read the file, which is destroyed some time after the last read.    *)
(*                                                                         *)
(* A read goes from cgroup_pidlist_start to cgroup_pidlist_stop with the   *)
(* mutex of the lists; tasks come and go meanwhile, and between the count  *)
(* of the tasks and the walk that fills the array.  The css_sets of the    *)
(* cgroup are walked in order, each with its tasks in order.               *)
(***************************************************************************)
EXTENDS Integers, Sequences, FiniteSets, TLC

CONSTANTS
  Pid,         \* the ids of tasks, positive
  TgidOf,      \* the id of a task's process
  Reader,      \* open files, positive
  PStart,      \* the tasks at first: one sequence for each css_set
  MaxChanges   \* bound: tasks that come or go

File == {"procs", "tasks"}

ASSUME PidListsAssumption ==
  /\ Pid \subseteq Nat \ {0} /\ TgidOf \in [Pid -> Pid] /\ Reader \subseteq Nat \ {0}
  /\ MaxChanges \in Nat

VARIABLES
  csets,     \* the tasks of the cgroup, by css_set
  plist,     \* the pid lists, one for each file
  holder,    \* pidlist_mutex
  rd,        \* the readers
  changes    \* tasks that came or went so far

pidVars == <<csets, plist, holder, rd, changes>>

NoList == [there |-> FALSE, arr |-> <<>>, cut |-> FALSE, pend |-> FALSE, run |-> FALSE]
Closed == [pc |-> "closed", file |-> "tasks", priv |-> FALSE, pos |-> 0, idx |-> 0, len |-> 0,
           shown |-> <<>>, must |-> {}, cut |-> FALSE]

PidInit ==
  /\ csets = PStart
  /\ plist = [f \in File |-> NoList]
  /\ holder = 0
  /\ rd = [r \in Reader |-> Closed]
  /\ changes = 0

-----------------------------------------------------------------------------
Walk == csets[1] \o csets[2]
IdOf(f, t) == IF f = "procs" THEN TgidOf[t] ELSE t
IdsIn(f, q) == {IdOf(f, q[i]) : i \in DOMAIN q}

\* cmppid
Sorted(a) == SortSeq(a, LAMBDA x, y : x < y)

\* pidlist_uniq: an entry stays that differs from the one before it
Uniq(a) ==
  LET keep[n \in 0 .. Len(a)] ==
        IF n = 0 THEN <<>>
        ELSE IF n > 1 /\ a[n] = a[n - 1] THEN keep[n - 1] ELSE Append(keep[n - 1], a[n])
  IN  keep[Len(a)]

\* pidlist_array_load: at most as many ids as tasks were counted
Loaded(f, len) ==
  LET ids == [i \in 1 .. (IF Len(Walk) < len THEN Len(Walk) ELSE len) |-> IdOf(f, Walk[i])]
  IN  IF f = "procs" THEN Uniq(Sorted(ids)) ELSE Sorted(ids)

\* the binary search of cgroup_pidlist_start; entries are counted from 1 here
Found(a, pid) ==
  LET at[w \in 0 .. Len(a), lo \in 0 .. Len(a)] ==
        IF w = 0 THEN lo
        ELSE LET m == w \div 2 IN
             IF a[lo + m + 1] = pid THEN lo + m
             ELSE IF a[lo + m + 1] <= pid THEN at[w - m - 1, lo + m + 1] ELSE at[m, lo]
  IN  IF pid = 0 THEN 1 ELSE at[Len(a), 0] + 1

-----------------------------------------------------------------------------
Open(r, f) ==
  /\ rd[r].pc = "closed"
  /\ rd' = [rd EXCEPT ![r] = [Closed EXCEPT !.pc = "open", !.file = f, !.must = IdsIn(f, Walk)]]
  /\ UNCHANGED <<csets, plist, holder, changes>>

\* where the list l says the reader is; past its end there is nothing more
At(x, l) ==
  LET i == Found(l.arr, x.pos) IN
  [x EXCEPT !.priv = TRUE, !.idx = i, !.cut = @ \/ l.cut,
            !.pc = IF i > Len(l.arr) THEN "end" ELSE "show",
            !.pos = IF i > Len(l.arr) THEN @ ELSE l.arr[i]]

\* cgroup_pidlist_start: with the list of an earlier read, if it is around
Start(r) ==
  LET f == rd[r].file IN
  /\ rd[r].pc = "open" /\ holder = 0
  /\ holder' = r
  /\ rd' = [rd EXCEPT ![r] = IF @.priv /\ plist[f].there THEN At(@, plist[f])
                             ELSE [@ EXCEPT !.priv = FALSE, !.pc = "count"]]
  /\ UNCHANGED <<csets, plist, changes>>

\* cgroup_task_count and the array; without memory the read fails
Count(r) ==
  /\ rd[r].pc = "count"
  /\ \E pc \in {"load", "fail"} : rd' = [rd EXCEPT ![r].len = Len(Walk), ![r].pc = pc]
  /\ UNCHANGED <<csets, plist, holder, changes>>

\* the walk, the list found or made, and its new array
Load(r) ==
  LET f == rd[r].file
      l == [plist[f] EXCEPT !.there = TRUE, !.arr = Loaded(f, rd[r].len), !.cut = Len(Walk) > rd[r].len]
  IN  /\ rd[r].pc = "load"
      /\ plist' = [plist EXCEPT ![f] = l]
      /\ rd' = [rd EXCEPT ![r] = At(@, l)]
      /\ UNCHANGED <<csets, holder, changes>>

\* cgroup_pidlist_show and cgroup_pidlist_next; the read may end here, or go on
Show(r) ==
  LET a == plist[rd[r].file].arr
      i == rd[r].idx
  IN  /\ rd[r].pc = "show"
      /\ \E pc \in IF i = Len(a) THEN {"stop"} ELSE {"show", "stop"} :
           rd' = [rd EXCEPT ![r].shown = Append(@, a[i]), ![r].idx = i + 1, ![r].pc = pc,
                            ![r].pos = IF i = Len(a) THEN @ + 1 ELSE a[i + 1]]
      /\ UNCHANGED <<csets, plist, holder, changes>>

\* cgroup_pidlist_stop: the destruction of the list is put off
Stop(r) ==
  LET f == rd[r].file IN
  /\ rd[r].pc \in {"stop", "end", "fail"}
  /\ plist' = [plist EXCEPT ![f].pend = @ \/ rd[r].priv]
  /\ holder' = 0
  /\ rd' = [rd EXCEPT ![r].pc = CASE @ = "stop" -> "open" [] @ = "end" -> "done" [] OTHER -> "failed"]
  /\ UNCHANGED <<csets, changes>>

\* the delay is over; a work that still runs is not started a second time
DestroyDue(f) ==
  /\ plist[f].pend /\ ~plist[f].run
  /\ plist' = [plist EXCEPT ![f].pend = FALSE, ![f].run = TRUE]
  /\ UNCHANGED <<csets, holder, rd, changes>>


\* cgroup_pidlist_destroy_work_fn
DestroyWork(f) ==
  /\ plist[f].run /\ holder = 0
  /\ plist' = [plist EXCEPT ![f] = IF @.pend THEN [@ EXCEPT !.run = FALSE] ELSE NoList]
  /\ UNCHANGED <<csets, holder, rd, changes>>

\* a task comes to the end of a css_set, or goes
Come(c, t) ==
  /\ t \notin {Walk[i] : i \in DOMAIN Walk} /\ changes < MaxChanges
  /\ csets' = [csets EXCEPT ![c] = Append(@, t)]
  /\ changes' = changes + 1
  /\ UNCHANGED <<plist, holder, rd>>
Go(c, t) ==
  LET left == [csets EXCEPT ![c] = SelectSeq(@, LAMBDA x : x # t)] IN
  /\ t \in {csets[c][i] : i \in DOMAIN csets[c]} /\ changes < MaxChanges
  /\ csets' = left
  /\ rd' = [r \in Reader |-> [rd[r] EXCEPT !.must = @ \cap IdsIn(rd[r].file, left[1] \o left[2])]]
  /\ changes' = changes + 1
  /\ UNCHANGED <<plist, holder>>

PidNext ==
  \/ \E r \in Reader : (\E f \in File : Open(r, f)) \/ Start(r) \/ Count(r) \/ Load(r) \/ Show(r) \/ Stop(r)
  \/ \E f \in File : DestroyDue(f) \/ DestroyWork(f)
  \/ \E c \in DOMAIN csets, t \in Pid : Come(c, t) \/ Go(c, t)

PidSpec == PidInit /\ [][PidNext]_pidVars

-----------------------------------------------------------------------------
\* The work that destroys a list is queued or running only while the list is
\* there, since it is part of it; and it is, unless a read is on: a list is
\* neither freed under its own timer nor left behind (the BUG_ON of
\* cgroup1_pidlist_destroy_all).
WorkOwned ==
  \A f \in File :
    /\ plist[f].pend \/ plist[f].run => plist[f].there
    /\ plist[f].there => \/ plist[f].pend \/ plist[f].run
                         \/ holder # 0 /\ rd[holder].file = f

\* A reader gets ids in ascending order and none twice, though the list is
\* replaced or destroyed between two of its reads and its place in it is an id.
Ascending ==
  \A r \in Reader : \A i, j \in DOMAIN rd[r].shown : i < j => rd[r].shown[i] < rd[r].shown[j]

\* A reader that got to the end has seen every id that was there all the
\* time, if no load ran out of room.
SeenAll ==
  \A r \in Reader : rd[r].pc = "done" /\ ~rd[r].cut =>
    rd[r].must \subseteq {rd[r].shown[i] : i \in DOMAIN rd[r].shown}

=============================================================================
