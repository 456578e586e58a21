------------------------------- MODULE Rstat -------------------------------
(***************************************************************************)
(* The statistics of cgroups (cgroup/rstat.c).  A CPU adds to its own      *)
(* counters of a cgroup and puts the cgroup and its ancestors on the       *)
(* lists of what was updated on that CPU; a flush takes the cgroups of a   *)
(* subtree off the lists, children first, and adds what is new to their    *)
(* totals and to what is pending for their parents.                        *)
(*                                                                         *)
(* An update is the addition, the look at the list without the lock, and   *)
(* the entry with the lock of the CPU.  A flush holds that lock while it   *)
(* is at a CPU, and may let go of cgroup_rstat_lock between two CPUs.  One *)
(* counter stands for the three of a cgroup.                               *)
(***************************************************************************)
EXTENDS Integers, FiniteSets, Functions

CONSTANTS
  SGroup,      \* the cgroups; 0 is the root
  SParent,     \* the parents of the others
  SCpu,        \* the CPUs, 1 .. n
  Flusher,     \* those who flush
  MaxUpdates,  \* bound: additions
  MaxFlushes   \* bound: flushes

Null == -1

ASSUME RstatAssumption ==
  /\ 0 \in SGroup /\ Null \notin SGroup /\ SParent \in [SGroup \ {0} -> SGroup]
  /\ SCpu = 1 .. Cardinality(SCpu) /\ MaxUpdates \in Nat /\ MaxFlushes \in Nat

VARIABLES
  pcpu,      \* per cgroup and CPU: the counter, its last value, and the links
  total,     \* cgrp->bstat
  pend,      \* cgrp->pending_bstat
  upd,       \* the update in progress on a CPU
  fl,        \* the flushes
  rlock,     \* cgroup_rstat_lock: who holds it
  gone,      \* the cgroups that cgroup_rstat_exit has freed
  made       \* updates and flushes so far

rstatVars == <<pcpu, total, pend, upd, fl, rlock, gone, made>>

NoFlusher == 0

\* a list of updated children ends with the parent itself
RstatInit ==
  /\ pcpu = [g \in SGroup |-> [i \in SCpu |-> [n |-> 0, last |-> 0, next |-> Null, kids |-> g]]]
  /\ total = [g \in SGroup |-> 0]
  /\ pend = [g \in SGroup |-> 0]
  /\ upd = [i \in SCpu |-> [pc |-> "idle", g |-> 0]]
  /\ fl = [f \in Flusher |-> [pc |-> "idle", root |-> 0, cpu |-> 0, pos |-> Null, exit |-> FALSE]]
  /\ rlock = NoFlusher
  /\ gone = {}
  /\ made = [u |-> 0, f |-> 0]

-----------------------------------------------------------------------------
CpuLocked(i) == \E f \in Flusher : fl[f].pc = "pop" /\ fl[f].cpu = i
Leaving(g) == g \in gone \/ \E f \in Flusher : fl[f].exit /\ fl[f].root = g

\* __cgroup_account_cputime: the counter of this CPU
Account(i, g) ==
  /\ upd[i].pc = "idle" /\ g # 0 /\ ~Leaving(g) /\ made.u < MaxUpdates
  /\ pcpu' = [pcpu EXCEPT ![g][i].n = @ + 1]
  /\ upd' = [upd EXCEPT ![i] = [pc |-> "test", g |-> g]]
  /\ made' = [made EXCEPT !.u = @ + 1]
  /\ UNCHANGED <<total, pend, fl, rlock, gone>>


\* cgroup_rstat_updated: nothing to do for a cgroup that is on its list
UpdatedTest(i) ==
  /\ upd[i].pc = "test"
  /\ upd' = [upd EXCEPT ![i].pc = IF pcpu[upd[i].g][i].next # Null THEN "idle" ELSE "link"]
  /\ UNCHANGED <<pcpu, total, pend, fl, rlock, gone, made>>

SPaths ==
  [g \in SGroup |->
     LET up[n \in 0 .. Cardinality(SGroup)] ==
           IF n = 0 THEN g ELSE IF up[n - 1] = 0 THEN 0 ELSE SParent[up[n - 1]]
     IN  {up[n] : n \in 0 .. Cardinality(SGroup)}]
SPath(g) == SPaths[g]

\* the cgroup and its ancestors up to the first that is on a list already
ToLink(i, g) ==
  {h \in SPath(g) \ {0} : \A k \in SPath(g) : h \in SPath(k) => pcpu[k][i].next = Null}

UpdatedLink(i) ==
  LET new == ToLink(i, upd[i].g)
      child(h) == CHOOSE k \in new : SParent[k] = h
  IN  /\ upd[i].pc = "link" /\ ~CpuLocked(i)
      /\ pcpu' = [h \in SGroup |-> [pcpu[h] EXCEPT
                    ![i].next = IF h \in new THEN pcpu[SParent[h]][i].kids ELSE @,
                    ![i].kids = IF \E k \in new : SParent[k] = h THEN child(h) ELSE @]]
      /\ upd' = [upd EXCEPT ![i].pc = "idle"]
      /\ UNCHANGED <<total, pend, fl, rlock, gone, made>>

-----------------------------------------------------------------------------
\* cgroup_rstat_flush, or the one in cgroup_rstat_exit
FlushBegin(f, g, exit) ==
  /\ fl[f].pc = "idle" /\ rlock = NoFlusher /\ ~Leaving(g) /\ made.f < MaxFlushes
  /\ exit => /\ g # 0 /\ \A h \in SGroup \ {0} : SParent[h] = g => h \in gone
             /\ \A i \in SCpu : upd[i].pc = "idle" \/ upd[i].g # g
             /\ \A e \in Flusher : fl[e].pc = "idle" \/ g \notin SPath(fl[e].root)
  /\ fl' = [fl EXCEPT ![f] = [pc |-> "lock", root |-> g, cpu |-> 1, pos |-> Null, exit |-> exit]]
  /\ rlock' = f
  /\ made' = [made EXCEPT !.f = @ + 1]
  /\ UNCHANGED <<pcpu, total, pend, upd, gone>>

FlushLockCpu(f) ==
  /\ fl[f].pc = "lock" /\ rlock = f /\ ~CpuLocked(fl[f].cpu)
  /\ fl' = [fl EXCEPT ![f].pc = "pop", ![f].pos = Null]
  /\ UNCHANGED <<pcpu, total, pend, upd, rlock, gone, made>>

\* down the first children to one that has none
LeafBelow(i, g) ==
  LET down[n \in 0 .. Cardinality(SGroup)] == IF n = 0 THEN g ELSE pcpu[down[n - 1]][i].kids
  IN  down[Cardinality(SGroup)]

\* off the list of its parent, wherever it is in it
Unlinked(i, g) ==
  [h \in SGroup |-> [pcpu[h] EXCEPT
     ![i].kids = IF h # g /\ @ = g THEN pcpu[g][i].next ELSE @,
     ![i].next = IF h = g THEN Null ELSE IF @ = g THEN pcpu[g][i].next ELSE @]]

\* cgroup_base_stat_flush
BaseFlush(i, g, P) ==
  LET delta == P[g][i].n - P[g][i].last + pend[g] IN
  /\ pcpu' = [P EXCEPT ![g][i].last = P[g][i].n]
  /\ total' = [total EXCEPT ![g] = @ + delta]
  /\ pend' = [h \in SGroup |-> IF h = g THEN 0 ELSE IF g # 0 /\ h = SParent[g] THEN pend[h] + delta ELSE pend[h]]

\* cgroup_rstat_cpu_pop_updated and the flush of what it returns
FlushPop(f) ==
  LET i == fl[f].cpu
      from == IF fl[f].pos = Null THEN fl[f].root ELSE SParent[fl[f].pos]
      leaf == LeafBelow(i, from)
  IN  /\ fl[f].pc = "pop" /\ fl[f].pos # fl[f].root /\ pcpu[leaf][i].next # Null
      /\ BaseFlush(i, leaf, Unlinked(i, leaf))
      /\ fl' = [fl EXCEPT ![f].pos = leaf]
      /\ UNCHANGED <<upd, rlock, gone, made>>

\* the root of the flush was visited, or is the root of the hierarchy
FlushCpuDone(f) ==
  LET i == fl[f].cpu
      from == IF fl[f].pos = Null THEN fl[f].root ELSE SParent[fl[f].pos]
  IN  /\ fl[f].pc = "pop"
      /\ fl[f].pos = fl[f].root \/ pcpu[LeafBelow(i, from)][i].next = Null
      /\ fl' = [fl EXCEPT ![f].pc = IF i = Cardinality(SCpu) THEN "end" ELSE "lock",
                          ![f].cpu = IF i = Cardinality(SCpu) THEN i ELSE i + 1]
      /\ UNCHANGED <<pcpu, total, pend, upd, rlock, gone, made>>

\* after a CPU cgroup_rstat_lock is let go where others want it, and taken again
FlushYield(f) ==
  /\ fl[f].pc = "end" \/ (fl[f].pc = "lock" /\ fl[f].cpu > 1)
  /\ rlock = f /\ \E e \in Flusher : fl[e].pc = "idle"
  /\ rlock' = NoFlusher
  /\ UNCHANGED <<pcpu, total, pend, upd, fl, gone, made>>
FlushResume(f) ==
  /\ fl[f].pc \in {"lock", "end"} /\ rlock = NoFlusher
  /\ rlock' = f
  /\ UNCHANGED <<pcpu, total, pend, upd, fl, gone, made>>

\* the totals are up to date; cgroup_rstat_exit frees the counters
FlushEnd(f) ==
  /\ fl[f].pc = "end" /\ rlock = f
  /\ rlock' = NoFlusher
  /\ fl' = [fl EXCEPT ![f].pc = "idle", ![f].exit = FALSE]
  /\ gone' = IF fl[f].exit THEN gone \cup {fl[f].root} ELSE gone
  /\ UNCHANGED <<pcpu, total, pend, upd, made>>

RstatNext ==
  \/ \E i \in SCpu : (\E g \in SGroup : Account(i, g)) \/ UpdatedTest(i) \/ UpdatedLink(i)
  \/ \E f \in Flusher :
       \/ \E g \in SGroup, exit \in BOOLEAN : FlushBegin(f, g, exit)
       \/ FlushLockCpu(f) \/ FlushPop(f) \/ FlushCpuDone(f) \/ FlushYield(f) \/ FlushResume(f) \/ FlushEnd(f)

RstatSpec == RstatInit /\ [][RstatNext]_rstatVars

-----------------------------------------------------------------------------
\* the cgroups on the list of updated children of g
ListOf(i, g) ==
  LET at[n \in 0 .. Cardinality(SGroup)] ==
        IF n = 0 THEN pcpu[g][i].kids
        ELSE IF at[n - 1] \in {g, Null} THEN g ELSE pcpu[at[n - 1]][i].next
  IN  {at[n] : n \in 0 .. Cardinality(SGroup)} \ {g}

\* The lists are what the code walks without looking: each holds children of
\* its cgroup, those with a next pointer, and a cgroup on a list has its
\* ancestors on theirs.
ListsWhole ==
  \A i \in SCpu, g \in SGroup :
    /\ ListOf(i, g) = {h \in SGroup \ {0} : SParent[h] = g /\ pcpu[h][i].next # Null}
    /\ g # 0 /\ ListOf(i, g) # {} => pcpu[g][i].next # Null

\* Nothing is counted twice and nothing is lost on the way up: what a cgroup
\* has, with what is pending for it, is what its CPUs have handed over and
\* what its children have.
Conserved ==
  \A g \in SGroup :
    total[g] + pend[g] = SumFunctionOnSet([h \in SGroup |-> IF h # 0 /\ SParent[h] = g THEN total[h] ELSE 0], SGroup)
                         + SumFunctionOnSet([i \in SCpu |-> pcpu[g][i].last], SCpu)

\* What a CPU has counted is handed over, or will be: the cgroup is on the
\* list of the CPU, where the next flush finds it, or an update or a flush is
\* at it; the same for what is pending.
WillBeFlushed ==
  /\ \A g \in SGroup, i \in SCpu : pcpu[g][i].n # pcpu[g][i].last =>
       pcpu[g][i].next # Null \/ (upd[i].pc # "idle" /\ upd[i].g = g)
  /\ \A g \in SGroup \ {0} : pend[g] # 0 => \E i \in SCpu : pcpu[g][i].next # Null

\* A cgroup that is freed is on no list and has none (the WARN_ONs of
\* cgroup_rstat_exit).
ExitClean ==
  \A g \in gone, i \in SCpu : pcpu[g][i].next = Null /\ pcpu[g][i].kids = g

=============================================================================
