--------------------------- MODULE LegacyFreezer ---------------------------
(***************************************************************************)
(* The freezer of the legacy hierarchies (legacy_freezer.c): freezing and  *)
(* frozen cgroups, the count that makes the tasks of the system look at    *)
(* them, and the tasks that go into the refrigerator and out of it.        *)
(*                                                                         *)
(* Every function holds freezer_mutex; the steps of a task, its moves and  *)
(* its forks come in between.  freeze_task, __thaw_task and the            *)
(* refrigerator belong to the kernel around this repository and are        *)
(* modelled by what the freezer needs of them.                             *)
(***************************************************************************)
EXTENDS Integers, FiniteSets

CONSTANTS
  LDepth,     \* the cgroups are 0 .. LDepth, each the parent of the next
  LTask,      \* the tasks
  MaxLWrites  \* bound: writes, moves, forks, mkdirs and rmdirs

ASSUME LegacyFreezerAssumption == LDepth \in Nat /\ MaxLWrites \in Nat

LGroup == 0 .. LDepth
NoLGroup == LDepth + 1

VARIABLES
  lf,        \* the freezers
  cnt,       \* system_freezing_cnt
  lt,        \* the tasks
  lmove,     \* a move that has reached the new cgroup and not yet freezer_attach
  lfork,     \* a fork that has reached the task list and not yet freezer_fork
  lwrites

legacyVars == <<lf, cnt, lt, lmove, lfork, lwrites>>

\* on: 0 not made yet, 1 live, 2 killed and not yet offline, 3 offline;
\* self, parent, frozen: the flags
NewFreezer == [on |-> 0, self |-> FALSE, parent |-> FALSE, frozen |-> FALSE]

\* signalled: freeze_task was called; in: in the refrigerator (PF_FROZEN)
NewLTask == [at |-> NoLGroup, signalled |-> FALSE, in |-> FALSE]

NoFork == [parent |-> 0, child |-> 0]

LegacyInit ==
  /\ lf = [g \in LGroup |-> IF g = 0 THEN [NewFreezer EXCEPT !.on = 1] ELSE NewFreezer]
  /\ cnt = 0
  /\ lt = [t \in LTask |-> IF t = 1 THEN [NewLTask EXCEPT !.at = 0] ELSE NewLTask]
  /\ lmove = 0 /\ lfork = NoFork
  /\ lwrites = 0

-----------------------------------------------------------------------------
IsFreezing(F, g) == F[g].self \/ F[g].parent
HasTask(g) == {t \in LTask : lt[t].at = g}

\* freezing(): the count is looked at first
Freezing(t) == cnt > 0 /\ IsFreezing(lf, lt[t].at)

LWrite == lwrites < MaxLWrites /\ lwrites' = lwrites + 1

\* freezer_css_online; cgroup_mutex keeps moves out
FreezerOnline(g) ==
  /\ g # 0 /\ lf[g].on = 0 /\ lf[g - 1].on = 1 /\ lmove = 0
  /\ lf' = [lf EXCEPT ![g].on = 1, ![g].parent = IsFreezing(lf, g - 1), ![g].frozen = IsFreezing(lf, g - 1)]
  /\ cnt' = IF IsFreezing(lf, g - 1) THEN cnt + 1 ELSE cnt
  /\ LWrite /\ UNCHANGED <<lt, lmove, lfork>>

\* rmdir, and freezer_css_offline
KillFreezer(g) ==
  /\ g # 0 /\ lf[g].on = 1 /\ lmove = 0
  /\ \A h \in LGroup : h > g => lf[h].on # 1 /\ HasTask(h) = {}
  /\ HasTask(g) = {}
  /\ lf' = [lf EXCEPT ![g].on = 2]
  /\ LWrite /\ UNCHANGED <<cnt, lt, lmove, lfork>>
FreezerOffline(g) ==
  /\ lf[g].on = 2 /\ \A h \in LGroup : h > g => lf[h].on \in {0, 3}
  /\ lmove = 0
  /\ cnt' = IF IsFreezing(lf, g) THEN cnt - 1 ELSE cnt
  /\ lf' = [lf EXCEPT ![g] = [NewFreezer EXCEPT !.on = 3]]
  /\ UNCHANGED <<lt, lmove, lfork, lwrites>>

\* freezer_apply_state: the flags of one cgroup
Applied(f, freeze, self) ==
  LET g == [f EXCEPT !.self = IF self THEN freeze ELSE @, !.parent = IF self THEN @ ELSE freeze]
  IN  [g EXCEPT !.frozen = @ /\ (g.self \/ g.parent)]

\* freezer_change_state: down the path from g; a killed cgroup is left out
Changed(g, freeze) ==
  LET after[h \in 0 .. LDepth] ==
        IF h < g \/ lf[h].on # 1 THEN lf[h]
        ELSE IF h = g THEN Applied(lf[h], freeze, TRUE)
        ELSE LET up == after[h - 1] IN Applied(lf[h], up.self \/ up.parent, FALSE)
  IN  after

\* the tasks of a cgroup that is visited are signalled, or woken up when it
\* is no longer freezing
FreezerWrite(g, freeze) ==
  LET F == Changed(g, freeze)
      visited == {h \in LGroup : h >= g /\ lf[h].on = 1}
      more == {h \in visited : IsFreezing(F, h) /\ ~IsFreezing(lf, h)}
      less == {h \in visited : ~IsFreezing(F, h) /\ IsFreezing(lf, h)}
  IN  /\ g # 0 /\ lf[g].on \in {1, 2}
      /\ lf' = F
      /\ cnt' = cnt + Cardinality(more) - Cardinality(less)
      /\ lt' = [t \in LTask |->
                  IF lt[t].at \notin visited THEN lt[t]
                  ELSE IF IsFreezing(F, lt[t].at) THEN [lt[t] EXCEPT !.signalled = TRUE]
                  ELSE [lt[t] EXCEPT !.in = FALSE, !.signalled = FALSE]]
      /\ LWrite /\ UNCHANGED <<lmove, lfork>>

\* update_if_frozen: the children are frozen, and the tasks
MayFreeze(F, g) ==
  /\ IsFreezing(F, g) /\ ~F[g].frozen
  /\ \A h \in LGroup : h = g + 1 /\ F[h].on \in {1, 2} => F[h].frozen
  /\ \A t \in HasTask(g) : ~Freezing(t) \/ lt[t].in

\* freezer_read: from the bottom up to g; cgroups that are killed are left out
FreezerRead(g) ==
  LET state[n \in 0 .. LDepth - g + 1] ==
        IF n = 0 THEN lf
        ELSE LET h == LDepth - n + 1 IN
             IF lf[h].on = 1 /\ MayFreeze(state[n - 1], h) THEN [state[n - 1] EXCEPT ![h].frozen = TRUE]
             ELSE state[n - 1]
  IN  /\ g # 0 /\ lf[g].on \in {1, 2}
      /\ lf' = state[LDepth - g + 1] /\ lf' # lf
      /\ UNCHANGED <<cnt, lt, lmove, lfork, lwrites>>

-----------------------------------------------------------------------------
\* a task is moved: css_set_move_task, then freezer_attach
MoveTask(t, g) ==
  /\ lmove = 0 /\ lfork = NoFork /\ lt[t].at \notin {NoLGroup, g} /\ lf[g].on = 1
  /\ lt' = [lt EXCEPT ![t].at = g]
  /\ lmove' = t
  /\ LWrite /\ UNCHANGED <<lf, cnt, lfork>>

\* Mutant of FreezerAttach: a frozen cgroup stays frozen
FreezerAttachFrozen ==
  /\ lmove # 0
  /\ lt' = IF IsFreezing(lf, lt[lmove].at) THEN [lt EXCEPT ![lmove].signalled = TRUE]
           ELSE [lt EXCEPT ![lmove].in = FALSE, ![lmove].signalled = FALSE]
  /\ lmove' = 0
  /\ UNCHANGED <<lf, cnt, lfork, lwrites>>

\* FROZEN is cleared here and upwards as long as it is set
FreezerAttach ==
  LET g == lt[lmove].at
      clear == {h \in LGroup : h <= g /\ \A k \in h .. g : lf[k].frozen}
  IN  /\ lmove # 0
      /\ IF IsFreezing(lf, g)
         THEN /\ lt' = [lt EXCEPT ![lmove].signalled = TRUE]
              /\ lf' = [h \in LGroup |-> IF h \in clear THEN [lf[h] EXCEPT !.frozen = FALSE] ELSE lf[h]]
         ELSE /\ lt' = [lt EXCEPT ![lmove].in = FALSE, ![lmove].signalled = FALSE]
              /\ UNCHANGED lf
      /\ lmove' = 0
      /\ UNCHANGED <<cnt, lfork, lwrites>>

\* a task that is not in the refrigerator forks; the child is on the list
\* when freezer_fork looks at the cgroup
LinkChild(t, child) ==
  /\ lfork = NoFork /\ lmove = 0 /\ lt[t].at # NoLGroup /\ ~lt[t].in /\ lt[child].at = NoLGroup
  /\ lt' = [lt EXCEPT ![child] = [NewLTask EXCEPT !.at = lt[t].at]]
  /\ lfork' = [parent |-> t, child |-> child]
  /\ LWrite /\ UNCHANGED <<lf, cnt, lmove>>
FreezerFork ==
  /\ lfork # NoFork
  /\ lt' = [lt EXCEPT ![lfork.child].signalled =
              @ \/ (lt[lfork.child].at # 0 /\ IsFreezing(lf, lt[lfork.child].at))]
  /\ lfork' = NoFork
  /\ UNCHANGED <<lf, cnt, lmove, lwrites>>

\* a task with the signal goes into the refrigerator if it is still to freeze;
\* a task that forks has not come to its signals, and a child does not run yet
Refrigerate(t) ==
  /\ lt[t].signalled /\ ~lt[t].in
  /\ t \notin {lfork.parent, lfork.child}
  /\ lt' = [lt EXCEPT ![t].signalled = FALSE, ![t].in = Freezing(t)]
  /\ UNCHANGED <<lf, cnt, lmove, lfork, lwrites>>

LegacyNext ==
  \/ \E g \in LGroup : \/ FreezerOnline(g) \/ KillFreezer(g) \/ FreezerOffline(g) \/ FreezerRead(g)
                       \/ \E freeze \in BOOLEAN : FreezerWrite(g, freeze)
  \/ \E t \in LTask : (\E g \in LGroup : MoveTask(t, g)) \/ Refrigerate(t)
  \/ \E t, child \in LTask : LinkChild(t, child)
  \/ FreezerAttach \/ FreezerFork

LegacySpec == LegacyInit /\ [][LegacyNext]_legacyVars

-----------------------------------------------------------------------------
\* system_freezing_cnt is the number of freezing cgroups that are not offline:
\* were it too small, tasks would run on in a frozen cgroup, were it too
\* large, every task would take the slow path for ever.
FreezingCounted == cnt = Cardinality({g \in LGroup : IsFreezing(lf, g)})

\* A cgroup has FREEZING_PARENT exactly while its parent is freezing, for
\* whatever reason (the comment at freezer_state_flags).
ParentInherited ==
  \A g \in LGroup : g # 0 /\ lf[g].on = 1 => (lf[g].parent <=> IsFreezing(lf, g - 1))

\* A cgroup that says it is frozen is freezing, what is below it is frozen,
\* and its tasks are in the refrigerator, but for one that is just moved in.
FrozenTrue ==
  \A g \in LGroup : lf[g].frozen =>
    /\ IsFreezing(lf, g)
    /\ \A h \in LGroup : h > g /\ lf[h].on \in {1, 2} /\ lmove = 0 => lf[h].frozen
    /\ \A t \in HasTask(g) : t # lmove => lt[t].in

\* No task is left in the refrigerator of a cgroup that is not freezing, and a
\* task that is to freeze has been told: whoever is outside has the signal.
NoneForgotten ==
  \A t \in LTask : lt[t].at # NoLGroup /\ t # lmove /\ t # lfork.child =>
    /\ lt[t].in => IsFreezing(lf, lt[t].at)
    /\ IsFreezing(lf, lt[t].at) => lt[t].in \/ lt[t].signalled

\* The legacy freezer tells the truth about its cgroups and forgets no task,
\* whatever is moved, forked or removed between its steps.
LegacySound == FreezingCounted /\ ParentInherited /\ FrozenTrue /\ NoneForgotten
=============================================================================
