------------------------------ MODULE TaskIter ------------------------------
(***************************************************************************)
(* Walking the tasks of a cgroup (css_task_iter_* of cgroup.c, the reading *)
(* of cgroup.procs and cgroup.threads) while tasks exit and are migrated.  *)
(* css_set_lock is dropped between two tasks of a walk; the iterator keeps *)
(* a pointer into one of the three lists of a css_set.                     *)
(*                                                                         *)
(* The css_sets that a domain css_set has for threads are walked like the  *)
(* others.  A migration moves the tasks to Away, in another cgroup.        *)
(***************************************************************************)
EXTENDS Integers, FiniteSets, Sequences, SequencesExt

CONSTANTS
  Walker,       \* the iterators
  Walked,       \* the tasks, which are numbers
  LeaderOf,     \* the group leader of each
  Held,         \* the css_sets of the cgroup, in the order of cset_links
  Away,         \* the css_set tasks are moved to
  HomeOf        \* the css_set a task is in first

ASSUME IterAssumption ==
  /\ Walked \subseteq Nat /\ LeaderOf \in [Walked -> Walked]
  /\ HomeOf \in [Walked -> {Held[i] : i \in DOMAIN Held}]
  /\ Away \notin {Held[i] : i \in DOMAIN Held}

Lists == {"tasks", "mg_tasks", "dying_tasks"}
WalkSet == {Held[i] : i \in DOMAIN Held} \cup {Away}
Null == <<>>

VARIABLES
  links,    \* cset_links: the css_sets of the cgroup that exist
  list,     \* list[k][l]: the tasks on list l of css_set k
  status,   \* "run"; "exit": signal->live is decremented; "dying"; "gone"
  tset,     \* a migration between its steps, and the css_sets it has pinned
  iter      \* the iterators

iterVars == <<links, list, status, tset, iter>>

\* pos: Null, <<t>> for the cg_list of task t, <<k, l>> for the head of a list.
\* seen and start are for the properties: the tasks returned, and those there
\* at the start; calm is FALSE once a migration is under way.
IdleIter == [st |-> "idle", procs |-> FALSE, pos |-> Null, skipped |-> FALSE, cset |-> Null,
             cur |-> "tasks", seen |-> {}, start |-> {}, calm |-> TRUE]

NoSet == [st |-> "none", src |-> {}]

IterInit ==
  /\ links = Held
  /\ list = [k \in WalkSet |-> [l \in Lists |->
               IF l = "tasks" THEN SetToSortSeq({t \in Walked : HomeOf[t] = k}, <) ELSE <<>>]]
  /\ status = [t \in Walked |-> "run"]
  /\ tset = NoSet
  /\ iter = [w \in Walker |-> IdleIter]

On(L, t) == {p \in WalkSet \X Lists : \E i \in DOMAIN L[p[1]][p[2]] : L[p[1]][p[2]][i] = t}
\* signal->live
Live(t) == \E u \in Walked : LeaderOf[u] = LeaderOf[t] /\ status[u] = "run"

IterTypeOK ==
  /\ \A k \in WalkSet, l \in Lists : \A i \in DOMAIN list[k][l] : list[k][l][i] \in Walked
  /\ status \in [Walked -> {"run", "exit", "dying", "gone"}]
  /\ \A t \in Walked : Cardinality(On(list, t)) = IF status[t] = "gone" THEN 0 ELSE 1
  /\ tset \in [st : {"none", "added", "moved"}, src : SUBSET WalkSet]
  /\ \A w \in Walker : /\ iter[w].st \in {"idle", "on", "end"}
                       /\ iter[w].seen \subseteq Walked

-----------------------------------------------------------------------------
(* The iterator.  it is the record of one.                                 *)

\* pos->next, in the list where pos is now
After(L, pos) ==
  LET p == IF Len(pos) = 2 THEN pos ELSE CHOOSE p \in On(L, pos[1]) : TRUE
      seq == L[p[1]][p[2]]
      i == IF Len(pos) = 2 THEN 0 ELSE CHOOSE j \in DOMAIN seq : seq[j] = pos[1]
  IN  IF i < Len(seq) THEN <<seq[i + 1]>> ELSE p

\* css_task_iter_next_css_set and css_task_iter_advance_css_set: the next
\* css_set that is not empty, and the first of its lists that is not
AdvanceCssSet(it) ==
  LET at == IF it.cset = Null THEN 0 ELSE CHOOSE i \in DOMAIN links : links[i] = it.cset[1]
      nonempty(k) == {l \in Lists : list[k][l] # <<>>}
      more == {i \in DOMAIN links : i > at /\ nonempty(links[i]) # {}}
      k == links[CHOOSE i \in more : \A j \in more : i <= j]
      first == IF "tasks" \in nonempty(k) THEN "tasks"
               ELSE IF "mg_tasks" \in nonempty(k) THEN "mg_tasks" ELSE "dying_tasks"
  IN  IF more = {} THEN [it EXCEPT !.pos = Null]
      ELSE [it EXCEPT !.pos = After(list, <<k, first>>), !.cur = first, !.cset = <<k>>]

\* one round of css_task_iter_advance
AdvanceOnce(it) ==
  LET k == it.cset[1]
      head(l) == <<k, l>>
      move == IF it.skipped THEN it.pos ELSE After(list, it.pos)
      mg == IF move = head("tasks")
            THEN [it EXCEPT !.pos = After(list, head("mg_tasks")), !.cur = "mg_tasks"]
            ELSE [it EXCEPT !.pos = move]
      dying == IF mg.pos = head("mg_tasks")
               THEN [mg EXCEPT !.pos = After(list, head("dying_tasks")), !.cur = "dying_tasks"]
               ELSE mg
      done == [dying EXCEPT !.skipped = FALSE]
  IN  IF it.pos = Null THEN AdvanceCssSet(it)
      ELSE IF done.pos = head("dying_tasks") THEN AdvanceCssSet(done) ELSE done

\* the task is one to return
Wanted(it) ==
  \/ it.pos = Null
  \/ LET t == it.pos[1] IN
     IF it.procs THEN LeaderOf[t] = t /\ (it.cur = "dying_tasks" => Live(t))
                 ELSE it.cur # "dying_tasks"

\* css_task_iter_advance: rounds until a task is wanted
Advance(it) ==
  LET round[n \in 0 .. Cardinality(Walked) + 1] ==
        IF n = 0 THEN AdvanceOnce(it)
        ELSE IF Wanted(round[n - 1]) THEN round[n - 1] ELSE AdvanceOnce(round[n - 1])
  IN  round[Cardinality(Walked) + 1]

\* Mutant of Skipped: iterators are left where they are
SkippedNot(I, t) == I

\* css_task_iter_skip for all iterators on the css_set of t, before t leaves
Skipped(I, t) ==
  [w \in Walker |-> IF I[w].pos = <<t>>
                    THEN [I[w] EXCEPT !.pos = After(list, @), !.skipped = TRUE] ELSE I[w]]

\* the css_sets with references: those of tasks that are not freed, of
\* iterators, and of a migration; the others leave cset_links
Pinned(L, I, src) ==
  {k \in WalkSet : \/ k \in src
                   \/ \E l \in Lists : L[k][l] # <<>>
                   \/ \E w \in Walker : I[w].st # "idle" /\ I[w].cset = <<k>>}
Relink(L, I, src) == links' = SelectSeq(links, LAMBDA k : k \in Pinned(L, I, src))

\* the tasks of the cgroup that a walk is to return
Present(procs) ==
  {t \in Walked : /\ \E p \in On(list, t) : p[1] # Away
                  /\ IF procs THEN LeaderOf[t] = t /\ Live(t) ELSE status[t] \in {"run", "exit"}}

\* css_task_iter_start, from __cgroup_procs_start
IterStart(w, procs) ==
  /\ iter[w].st = "idle"
  /\ iter' = [iter EXCEPT ![w] = Advance([IdleIter EXCEPT !.st = "on", !.procs = procs,
                                                          !.start = Present(procs),
                                                          !.calm = (tset = NoSet)])]
  /\ Relink(list, iter', tset.src)
  /\ UNCHANGED <<list, status, tset>>

\* css_task_iter_next: what skips have left half done, then the task is
\* returned and the iterator is advanced past it
IterNext(w) ==
  LET it == IF iter[w].skipped THEN Advance(iter[w]) ELSE iter[w] IN
  /\ iter[w].st = "on"
  /\ iter' = [iter EXCEPT ![w] = IF it.pos = Null THEN [it EXCEPT !.st = "end"]
                                 ELSE [Advance(it) EXCEPT !.seen = @ \cup {it.pos[1]}]]
  /\ Relink(list, iter', tset.src)
  /\ UNCHANGED <<list, status, tset>>

\* css_task_iter_end, also before the walk is complete
IterEnd(w) ==
  /\ iter[w].st # "idle"
  /\ iter' = [iter EXCEPT ![w] = IdleIter]
  /\ Relink(list, iter', tset.src)
  /\ UNCHANGED <<list, status, tset>>

-----------------------------------------------------------------------------
(* The tasks.                                                              *)

Unlink(L, t) == [k \in WalkSet |-> [l \in Lists |-> SelectSeq(L[k][l], LAMBDA u : u # t)]]
LinkTail(L, k, l, t) == [L EXCEPT ![k][l] = Append(@, t)]
HomeNow(t) == (CHOOSE p \in On(list, t) : TRUE)[1]

\* do_exit, which no migration may cross, and then cgroup_exit
ExitBegins(t) ==
  /\ status[t] = "run" /\ tset = NoSet
  /\ status' = [status EXCEPT ![t] = "exit"]
  /\ UNCHANGED <<links, list, tset, iter>>

ExitTask(t) ==
  /\ status[t] = "exit"
  /\ iter' = Skipped(iter, t)
  /\ list' = LinkTail(Unlink(list, t), HomeNow(t), "dying_tasks", t)
  /\ status' = [status EXCEPT ![t] = "dying"]
  /\ UNCHANGED <<links, tset>>

\* cgroup_release and cgroup_free
ReleaseTask(t) ==
  /\ status[t] = "dying"
  /\ LeaderOf[t] = t => \A u \in Walked \ {t} : LeaderOf[u] # t \/ status[u] = "gone"
  /\ iter' = Skipped(iter, t)
  /\ list' = Unlink(list, t)
  /\ Relink(list', iter', tset.src)
  /\ status' = [status EXCEPT ![t] = "gone"]
  /\ UNCHANGED tset

\* cgroup_migrate_add_task for the threads of l that are not there yet: to the
\* tail of mg_tasks, and no iterator is skipped
MigrateAdd(l) ==
  LET who == SetToSortSeq({t \in Walked : LeaderOf[t] = l /\ status[t] = "run" /\ HomeNow(t) # Away}, <)
      added[n \in 0 .. Len(who)] ==
        IF n = 0 THEN list
        ELSE LinkTail(Unlink(added[n - 1], who[n]), HomeNow(who[n]), "mg_tasks", who[n])
  IN  /\ tset = NoSet /\ who # <<>> /\ LeaderOf[l] = l
      /\ list' = added[Len(who)]
      /\ tset' = [st |-> "added", src |-> {HomeNow(who[i]) : i \in DOMAIN who}]
      /\ iter' = [w \in Walker |-> [iter[w] EXCEPT !.calm = FALSE]]
      /\ UNCHANGED <<links, status>>

\* the commit of cgroup_migrate_execute: css_set_move_task of each
MigrateCommit ==
  LET who == FlattenSeq([i \in DOMAIN links |-> list[links[i]]["mg_tasks"]])
      moved[n \in 0 .. Len(who)] ==
        IF n = 0 THEN [list |-> list, iter |-> iter]
        ELSE LET s == moved[n - 1] IN
             [list |-> LinkTail(Unlink(s.list, who[n]), Away, "mg_tasks", who[n]),
              iter |-> [w \in Walker |->
                          IF s.iter[w].pos = <<who[n]>>
                          THEN [s.iter[w] EXCEPT !.pos = After(s.list, @), !.skipped = TRUE]
                          ELSE s.iter[w]]]
  IN  /\ tset.st = "added"
      /\ list' = moved[Len(who)].list /\ iter' = moved[Len(who)].iter
      /\ tset' = [tset EXCEPT !.st = "moved"]
      /\ UNCHANGED <<links, status>>

\* out_release_tset, after the commit or after a controller has refused: the
\* tasks go to the tail of the list tasks
MigrateRelease ==
  /\ tset # NoSet
  /\ list' = [k \in WalkSet |-> [list[k] EXCEPT !["tasks"] = @ \o list[k]["mg_tasks"],
                                                !["mg_tasks"] = <<>>]]
  /\ Relink(list', iter, {})
  /\ tset' = NoSet
  /\ UNCHANGED <<status, iter>>

-----------------------------------------------------------------------------

IterNexts ==
  \/ \E w \in Walker : IterNext(w) \/ IterEnd(w) \/ \E procs \in BOOLEAN : IterStart(w, procs)
  \/ \E t \in Walked : ExitBegins(t) \/ ExitTask(t) \/ ReleaseTask(t) \/ MigrateAdd(t)
  \/ MigrateCommit \/ MigrateRelease

IterSpec == IterInit /\ [][IterNexts]_iterVars

-----------------------------------------------------------------------------
(* Properties.                                                             *)

\* Where an iterator will go on is memory of the lists it walks: a task that
\* is still on a list, or the head of a list of a css_set that is still in
\* cset_links, whatever exits, is released or moves between two steps.
IteratorValid ==
  \A w \in Walker : iter[w].st # "idle" =>
    LET it == iter[w] IN
    /\ it.cset # Null => \E i \in DOMAIN links : links[i] = it.cset[1]
    /\ Len(it.pos) = 1 => \E p \in On(list, it.pos[1]) : <<p[1]>> = it.cset
    /\ Len(it.pos) = 2 => it.skipped /\ <<it.pos[1]>> = it.cset

\* A complete walk has returned every task, or every process with a live
\* thread, that was in the cgroup from its start to its end, however tasks
\* exit meanwhile; the walks a migration has interfered with are left out.
NoneMissed ==
  \A w \in Walker : iter[w].st = "end" /\ iter[w].calm =>
    iter[w].start \cap Present(iter[w].procs) \subseteq iter[w].seen

\* A walk that drops css_set_lock between two tasks never follows a pointer that
\* is gone and returns whoever stayed, though tasks exit meanwhile.
WalkSound == IterTypeOK /\ IteratorValid /\ NoneMissed
=============================================================================
