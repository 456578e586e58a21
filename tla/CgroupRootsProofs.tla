-------------------------- MODULE CgroupRootsProofs --------------------------
(***************************************************************************)
(* TLAPS proofs about the hierarchies of cgroups: a controller is in one   *)
(* hierarchy, and the references of a root are those of its users.         *)
(***************************************************************************)
EXTENDS CgroupRoots, FiniteSetTheorems, TLAPS

MountOption == [mask : SUBSET Ctl, none : BOOLEAN, name : Nat]

Root == [mask : SUBSET Ctl, name : Nat, ref : Int, dead : BOOLEAN,
         kid : {"none", "live", "dying", "unlinked"}]

Mount == [pc : {"idle", "find", "get", "check"}, o : MountOption, ns : Ns,
          r : Hier \cup {0}]

RootsTypeOK ==
  /\ DOMAIN hier \subseteq Hier
  /\ hier \in [DOMAIN hier -> Root]
  /\ home \in [Ctl -> Hier \cup {0}]
  /\ sbs \in [Sb -> [st : {"none", "up", "test", "kill", "put"}, act : Int]]
  /\ mnt \in [Mounter -> Mount]
  /\ killed2 \in BOOLEAN

\* Who holds a reference of r: its super blocks, and the mounts that found it
\* and have no super block yet.
Holders(r) == {n \in Ns : sbs[<<r, n>>].st # "none"}
Getters(r) == {p \in Mounter : mnt[p].pc = "get" /\ mnt[p].r = r}
Due(r) == (IF hier[r].dead THEN 0 ELSE 1)
          + Cardinality(Holders(r)) + Cardinality(Getters(r))
          + (IF hier[r].kid = "none" THEN 0 ELSE 1)

\* The mounts that have super block k and have not looked at its root again.
Checkers(k) == {p \in Mounter : mnt[p].pc = "check" /\ <<mnt[p].r, mnt[p].ns>> = k}

\* Whether a super block, or a mount, is one of them: 1 or 0.
Holds(k) == IF sbs[k].st = "none" THEN 0 ELSE 1
Gets(p, r) == IF mnt[p].pc = "get" /\ mnt[p].r = r THEN 1 ELSE 0
Checks(p, k) == IF mnt[p].pc = "check" /\ <<mnt[p].r, mnt[p].ns>> = k THEN 1 ELSE 0

\* A super block is up as long as somebody uses it, those mounts among others.
\* A root that is destroyed has none, so that no mount still looks at it.
UsersCounted ==
  \A k \in Sb : /\ Cardinality(Checkers(k)) <= sbs[k].act
                /\ sbs[k].act > 0 <=> sbs[k].st = "up"

\* Whoever has or asks for a root finds it there.
RootsThere ==
  /\ \A k \in Sb : sbs[k].st # "none" => k[1] \in DOMAIN hier
  /\ \A p \in Mounter : mnt[p].pc \in {"get", "check"} => mnt[p].r \in DOMAIN hier

RootsInv == /\ RootsTypeOK /\ ControllersBound /\ RefsExact /\ RootsDistinct
            /\ ~killed2 => UsersCounted

-----------------------------------------------------------------------------
(* Counting.                                                               *)

\* Two subsets of a finite set that differ in one element at most.
LEMMA Counts ==
  ASSUME NEW A, IsFiniteSet(A), NEW x \in A, NEW B \in SUBSET A, NEW C \in SUBSET A,
         B \ {x} = C \ {x}
  PROVE  Cardinality(C) = Cardinality(B) + (IF x \in C THEN 1 ELSE 0)
                                         - (IF x \in B THEN 1 ELSE 0)
<1>1. IsFiniteSet(B) /\ IsFiniteSet(C)
  BY FS_Subset
<1>2. Cardinality(B) \in Nat /\ Cardinality(C) \in Nat
  BY <1>1, FS_CardinalityType
<1>3. CASE (x \in B) <=> (x \in C)
  <2>1. B = C
    BY <1>3
  <2> QED BY <1>2, <2>1
<1>4. CASE x \in B /\ x \notin C
  <2>1. C = B \ {x}
    BY <1>4
  <2> QED BY <1>1, <1>2, <1>4, <2>1, FS_RemoveElement
<1>5. CASE x \notin B /\ x \in C
  <2>1. C = B \cup {x}
    BY <1>5
  <2> QED BY <1>1, <1>2, <1>5, <2>1, FS_AddElement
<1> QED BY <1>3, <1>4, <1>5

\* The users of roots and super blocks can be counted.
LEMMA Finite ==
  /\ \A r : Holders(r) \in SUBSET Ns /\ Cardinality(Holders(r)) \in Nat
  /\ \A r : Getters(r) \in SUBSET Mounter /\ Cardinality(Getters(r)) \in Nat
  /\ \A k : Checkers(k) \in SUBSET Mounter /\ Cardinality(Checkers(k)) \in Nat
<1>1. /\ \A r : Holders(r) \in SUBSET Ns /\ Getters(r) \in SUBSET Mounter
      /\ \A k : Checkers(k) \in SUBSET Mounter
  BY DEF Holders, Getters, Checkers
<1>2. IsFiniteSet(Ns) /\ IsFiniteSet(Mounter)
  BY RootsAssumption
<1> QED BY <1>1, <1>2, FS_Subset, FS_CardinalityType

\* A set of users without any.
LEMMA NoUsers ==
  /\ \A r : Cardinality(Holders(r)) = 0 => Holders(r) = {}
  /\ \A r : Cardinality(Getters(r)) = 0 => Getters(r) = {}
  /\ \A k : Cardinality(Checkers(k)) = 0 => Checkers(k) = {}
<1>1. IsFiniteSet(Ns) /\ IsFiniteSet(Mounter)
  BY RootsAssumption
<1> QED BY <1>1, Finite, FS_Subset, FS_EmptySet

\* One super block changes: those that hold a root.
LEMMA HoldersMove ==
  ASSUME NEW k \in Sb, \A j \in Sb : j # k => sbs'[j].st = sbs[j].st
  PROVE  \A r \in Hier : Cardinality(Holders(r)') =
           Cardinality(Holders(r)) + (IF r = k[1] THEN Holds(k)' - Holds(k) ELSE 0)
<1> SUFFICES ASSUME NEW r \in Hier
    PROVE Cardinality(Holders(r)') =
            Cardinality(Holders(r)) + (IF r = k[1] THEN Holds(k)' - Holds(k) ELSE 0)
  OBVIOUS
<1>1. CASE r # k[1]
  <2>1. \A n \in Ns : <<r, n>> \in Sb /\ <<r, n>> # k
    BY <1>1 DEF Sb
  <2>2. Holders(r)' = Holders(r)
    BY <2>1 DEF Holders
  <2> QED BY <1>1, <2>2, Finite
<1>2. CASE r = k[1]
  <2>1. PICK n \in Ns : k = <<r, n>>
    BY <1>2 DEF Sb
  <2>2. \A m \in Ns : m # n => <<r, m>> \in Sb /\ <<r, m>> # k
    BY <2>1 DEF Sb
  <2>3. Holders(r)' \ {n} = Holders(r) \ {n}
    BY <2>2 DEF Holders
  <2>4. Holders(r) \in SUBSET Ns /\ Holders(r)' \in SUBSET Ns
    BY DEF Holders
  <2>5. IsFiniteSet(Ns)
    BY RootsAssumption
  <2>6. Cardinality(Holders(r)') = Cardinality(Holders(r))
          + (IF n \in Holders(r)' THEN 1 ELSE 0) - (IF n \in Holders(r) THEN 1 ELSE 0)
    BY <2>3, <2>4, <2>5, Counts
  <2>7. /\ Holds(k) = IF n \in Holders(r) THEN 1 ELSE 0
        /\ Holds(k)' = IF n \in Holders(r)' THEN 1 ELSE 0
    BY <2>1 DEF Holders, Holds
  <2> QED BY <1>2, <2>6, <2>7, Finite
<1> QED BY <1>1, <1>2

\* One mount changes: those that found a root, those that check a super block.
LEMMA MountsMove ==
  ASSUME NEW p \in Mounter, \A q \in Mounter : q # p => mnt'[q] = mnt[q]
  PROVE  /\ \A r : Cardinality(Getters(r)') =
                      Cardinality(Getters(r)) + Gets(p, r)' - Gets(p, r)
         /\ \A k : Cardinality(Checkers(k)') =
                      Cardinality(Checkers(k)) + Checks(p, k)' - Checks(p, k)
<1>1. IsFiniteSet(Mounter)
  BY RootsAssumption
<1>2. ASSUME NEW r
      PROVE  Cardinality(Getters(r)') = Cardinality(Getters(r)) + Gets(p, r)' - Gets(p, r)
  <2>1. Getters(r)' \ {p} = Getters(r) \ {p}
    BY DEF Getters
  <2>2. Getters(r) \in SUBSET Mounter /\ Getters(r)' \in SUBSET Mounter
    BY DEF Getters
  <2>3. /\ Gets(p, r) = IF p \in Getters(r) THEN 1 ELSE 0
        /\ Gets(p, r)' = IF p \in Getters(r)' THEN 1 ELSE 0
    BY DEF Getters, Gets
  <2> QED BY <1>1, <2>1, <2>2, <2>3, Counts
<1>3. ASSUME NEW k
      PROVE  Cardinality(Checkers(k)') = Cardinality(Checkers(k)) + Checks(p, k)' - Checks(p, k)
  <2>1. Checkers(k)' \ {p} = Checkers(k) \ {p}
    BY DEF Checkers
  <2>2. Checkers(k) \in SUBSET Mounter /\ Checkers(k)' \in SUBSET Mounter
    BY DEF Checkers
  <2>3. /\ Checks(p, k) = IF p \in Checkers(k) THEN 1 ELSE 0
        /\ Checks(p, k)' = IF p \in Checkers(k)' THEN 1 ELSE 0
    BY DEF Checkers, Checks
  <2> QED BY <1>1, <2>1, <2>2, <2>3, Counts
<1> QED BY <1>2, <1>3

\* The references, in terms of what is due.
LEMMA RefsAreDue ==
  RefsExact <=> (~killed2 => RootsThere /\ \A r \in DOMAIN hier : hier[r].ref = Due(r))
BY DEF RefsExact, RootsThere, Due, Holders, Getters

\* The same of the state after a step.
LEMMA NextRefsAreDue ==
  RefsExact' <=> (~killed2' => RootsThere' /\ \A r \in DOMAIN hier' : hier'[r].ref = Due(r)')
BY DEF RefsExact, RootsThere, Due, Holders, Getters

-----------------------------------------------------------------------------
(* What a step may leave as it is.                                         *)

\* Roots that keep their names and controllers.
LEMMA SameShape ==
  ASSUME ControllersBound, RootsDistinct, home' = home, DOMAIN hier' = DOMAIN hier,
         \A r \in DOMAIN hier : hier'[r].mask = hier[r].mask /\ hier'[r].name = hier[r].name
  PROVE  ControllersBound' /\ RootsDistinct'
BY DEF ControllersBound, RootsDistinct

\* A mount that has no root yet holds and checks nothing.
LEMMA SameUsers ==
  ASSUME RootsInv, ~killed2, sbs' = sbs,
         \A p \in Mounter : mnt'[p] = mnt[p] \/ {mnt[p].pc, mnt'[p].pc} \subseteq {"idle", "find"}
  PROVE  /\ \A r : Holders(r)' = Holders(r) /\ Getters(r)' = Getters(r)
         /\ UsersCounted'
<1>1. \A r : Holders(r)' = Holders(r)
  BY DEF Holders
<1>2. \A r : Getters(r)' = Getters(r)
  BY DEF Getters
<1>3. \A k : Checkers(k)' = Checkers(k)
  BY DEF Checkers
<1> QED BY <1>1, <1>2, <1>3 DEF RootsInv, UsersCounted

-----------------------------------------------------------------------------
(* The steps.                                                              *)

\* A request's options are resolved to options.
LEMMA ResolvedOption == ASSUME NEW o \in Options PROVE Resolved(o) \in MountOption
BY RootsAssumption DEF Resolved, MountOption

\* Calls of mount that found no root, and what the default hierarchy uses.
LEMMA MountCallRoots ==
  ASSUME RootsInv, ~killed2, NEW p \in Mounter,
         FindRefused(p) \/ \E o \in Options, n \in Ns : MountCall(p, o, n)
  PROVE  RootsInv'
<1>1. /\ UNCHANGED <<hier, home, sbs, killed2>>
      /\ \E m \in [pc : {"idle", "find"}, o : MountOption, ns : Ns, r : {0}] :
           mnt' = [mnt EXCEPT ![p] = m]
      /\ mnt[p].pc \in {"idle", "find"}
  <2>1. IdleMnt \in [pc : {"idle", "find"}, o : MountOption, ns : Ns, r : {0}]
    BY RootsAssumption DEF IdleMnt, NoOption, MountOption
  <2>2. CASE FindRefused(p)
    BY <2>1, <2>2 DEF FindRefused
  <2>3. ASSUME NEW o \in Options, NEW n \in Ns, MountCall(p, o, n)
        PROVE  /\ UNCHANGED <<hier, home, sbs, killed2>>
               /\ \E m \in [pc : {"idle", "find"}, o : MountOption, ns : Ns, r : {0}] :
                    mnt' = [mnt EXCEPT ![p] = m]
               /\ mnt[p].pc \in {"idle", "find"}
    BY <2>3, ResolvedOption DEF MountCall
  <2> QED BY <2>2, <2>3
<1>2. RootsTypeOK'
  BY <1>1 DEF RootsInv, RootsTypeOK, Sb, Mount
<1>3. \A q \in Mounter : mnt'[q] = mnt[q] \/ {mnt[q].pc, mnt'[q].pc} \subseteq {"idle", "find"}
  BY <1>1 DEF RootsInv, RootsTypeOK
<1>4. /\ \A r : Holders(r)' = Holders(r) /\ Getters(r)' = Getters(r)
      /\ UsersCounted'
  BY <1>1, <1>3, SameUsers
<1>5. RefsExact'
  <2>1. \A r : Due(r)' = Due(r)
    BY <1>1, <1>4 DEF Due
  <2>2. RootsThere'
    BY <1>1, <1>3, RefsAreDue DEF RootsThere, RootsInv
  <2> QED BY <1>1, <2>1, <2>2, RefsAreDue, NextRefsAreDue DEF RootsInv
<1> QED BY <1>1, <1>2, <1>4, <1>5, SameShape DEF RootsInv

\* mount finds a hierarchy that is alive, and takes a reference.
LEMMA FindUseRoots ==
  ASSUME RootsInv, ~killed2, NEW p \in Mounter, FindUse(p) PROVE RootsInv'
<1> DEFINE u == UsedRoot(mnt[p].o)
<1>1. u \in DOMAIN hier
  BY DEF FindUse, RootToUse, UsedRoot, NameMatches
<1> HIDE DEF u
<1>2. /\ UNCHANGED <<home, sbs, killed2>> /\ mnt[p].pc = "find"
      /\ hier' = [hier EXCEPT ![u].ref = @ + 1]
      /\ mnt' = [mnt EXCEPT ![p].pc = "get", ![p].r = u]
  BY DEF FindUse, u
<1>3. RootsTypeOK'
  <2>1. u \in Hier /\ hier[u] \in Root /\ mnt[p] \in Mount
    BY <1>1 DEF RootsInv, RootsTypeOK
  <2>2. /\ [hier[u] EXCEPT !.ref = @ + 1] \in Root
        /\ [mnt[p] EXCEPT !.pc = "get", !.r = u] \in Mount
    <3>1. [hier[u] EXCEPT !.ref = @ + 1] \in Root
      BY <2>1 DEF Root
    <3>2. [mnt[p] EXCEPT !.pc = "get", !.r = u] \in Mount
      BY <2>1 DEF Mount
    <3> QED BY <3>1, <3>2
  <2> QED BY <1>2, <2>2 DEF RootsInv, RootsTypeOK
<1>4. /\ DOMAIN hier' = DOMAIN hier
      /\ \A r \in DOMAIN hier :
           /\ hier'[r].mask = hier[r].mask /\ hier'[r].name = hier[r].name
           /\ hier'[r].dead = hier[r].dead /\ hier'[r].kid = hier[r].kid
           /\ hier'[r].ref = hier[r].ref + (IF r = u THEN 1 ELSE 0)
  BY <1>1, <1>2 DEF RootsInv, RootsTypeOK, Root
<1>5. /\ mnt'[p].pc = "get" /\ mnt'[p].r = u
      /\ \A q \in Mounter : q # p => mnt'[q] = mnt[q]
  BY <1>2 DEF RootsInv, RootsTypeOK, Mount
<1>6. \A r : Holders(r)' = Holders(r)
  BY <1>2 DEF Holders
<1>7. \A r : Cardinality(Getters(r)') = Cardinality(Getters(r)) + (IF r = u THEN 1 ELSE 0)
  <2>1. \A r : Gets(p, r)' - Gets(p, r) = IF r = u THEN 1 ELSE 0
    BY <1>2, <1>5 DEF Gets
  <2>2. \A r : Gets(p, r)' \in Int /\ Gets(p, r) \in Int
    BY DEF Gets
  <2> QED BY <1>5, <2>1, <2>2, MountsMove, Finite
<1>8. UsersCounted'
  <2>1. \A k : Checkers(k)' = Checkers(k)
    BY <1>2, <1>5 DEF Checkers
  <2> QED BY <1>2, <2>1 DEF UsersCounted, RootsInv
<1>9. RefsExact'
  <2>1. \A r \in DOMAIN hier : Due(r)' = Due(r) + (IF r = u THEN 1 ELSE 0)
    BY <1>4, <1>6, <1>7, Finite DEF Due
  <2>2. RootsThere'
    <3>1. RootsThere
      BY RefsAreDue DEF RootsInv
    <3>2. DOMAIN hier' = DOMAIN hier /\ sbs' = sbs
      BY <1>2, <1>4
    <3>3. \A q \in Mounter : mnt'[q].pc \in {"get", "check"} => mnt'[q].r \in DOMAIN hier
      BY <3>1, <1>1, <1>5 DEF RootsThere
    <3> QED BY <3>1, <3>2, <3>3 DEF RootsThere
  <2> QED BY <1>2, <1>4, <2>1, <2>2, RefsAreDue, NextRefsAreDue DEF RootsInv
<1> QED BY <1>2, <1>3, <1>4, <1>8, <1>9, SameShape DEF RootsInv

\* mount makes a new hierarchy, of controllers of the default one.
LEMMA FindCreateRoots ==
  ASSUME RootsInv, ~killed2, NEW p \in Mounter, FindCreate(p) PROVE RootsInv'
<1>1. PICK o \in MountOption, u \in Hier \ DOMAIN hier :
        /\ o = mnt[p].o
        /\ hier' = Rebound([x \in DOMAIN hier \cup {u} |->
                             IF x = u THEN NewRoot(o) ELSE hier[x]], u, o.mask)
        /\ home' = NewHome(u, o.mask)
        /\ mnt' = [mnt EXCEPT ![p].pc = "get", ![p].r = u]
  <2>1. mnt[p].o \in MountOption
    BY DEF RootsInv, RootsTypeOK, Mount
  <2> QED BY <2>1 DEF FindCreate
<1>2. /\ UNCHANGED <<sbs, killed2>> /\ mnt[p].pc = "find"
      /\ OptionsValid(o) /\ MayRebind(1, o.mask)
      /\ o.name # 0 => \A r \in DOMAIN hier : hier[r].name # o.name
  BY <1>1 DEF FindCreate, RootToUse, NameMatches
<1>3. /\ o.mask \subseteq Ctl /\ o.name \in Nat /\ u # 0
      /\ \A s \in o.mask : home[s] = 0
      /\ o.name = 0 => o.mask # {}
  BY <1>2, RootsAssumption DEF MountOption, MayRebind, OptionsValid
<1>4. \A r \in DOMAIN hier : r # 0 /\ hier[r].mask \cap o.mask = {}
  BY <1>3, RootsAssumption DEF RootsInv, RootsTypeOK, ControllersBound
<1>5. /\ DOMAIN hier' = DOMAIN hier \cup {u}
      /\ hier'[u] = [mask |-> o.mask, name |-> o.name, ref |-> 2, dead |-> FALSE, kid |-> "none"]
      /\ \A r \in DOMAIN hier : hier'[r] = [hier[r] EXCEPT !.mask = @ \ o.mask]
  BY <1>1 DEF Rebound, NewRoot
<1>6. \A r \in DOMAIN hier : hier'[r] = hier[r]
  <2> SUFFICES ASSUME NEW r \in DOMAIN hier PROVE hier'[r] = hier[r]
    OBVIOUS
  <2>1. hier[r] \in Root
    BY DEF RootsInv, RootsTypeOK
  <2>2. hier[r].mask \ o.mask = hier[r].mask
    BY <1>4
  <2>3. hier'[r] = [hier[r] EXCEPT !.mask = @ \ o.mask]
    BY <1>5
  <2> QED BY <2>1, <2>2, <2>3 DEF Root
<1>7. /\ mnt'[p].pc = "get" /\ mnt'[p].r = u
      /\ \A q \in Mounter : q # p => mnt'[q] = mnt[q]
  BY <1>1 DEF RootsInv, RootsTypeOK, Mount
<1>8. RootsTypeOK'
  <2>1. hier'[u] \in Root
    BY <1>3, <1>5 DEF Root
  <2>2. hier' \in [DOMAIN hier' -> Root]
    <3>1. \A x \in DOMAIN hier' : hier'[x] \in Root
      BY <1>5, <1>6, <2>1 DEF RootsInv, RootsTypeOK
    <3>2. hier' = [x \in DOMAIN hier' |-> hier'[x]]
      BY <1>1, <1>5 DEF Rebound
    <3> QED BY <3>1, <3>2
  <2>3. home' \in [Ctl -> Hier \cup {0}]
    BY <1>1 DEF NewHome, RootsInv, RootsTypeOK
  <2>4. mnt' \in [Mounter -> Mount]
    <3>1. [mnt[p] EXCEPT !.pc = "get", !.r = u] \in Mount
      BY DEF RootsInv, RootsTypeOK, Mount
    <3> QED BY <1>1, <3>1 DEF RootsInv, RootsTypeOK
  <2> QED BY <1>2, <1>5, <2>2, <2>3, <2>4 DEF RootsInv, RootsTypeOK
<1>9. ControllersBound'
  <2>1. \A s \in Ctl : home'[s] = IF s \in o.mask THEN u ELSE home[s]
    BY <1>1 DEF NewHome
  <2>2. u \notin DOMAIN hier /\ ControllersBound
    BY <1>1 DEF RootsInv
  <2>3. hier'[u].mask = {s \in Ctl : home'[s] = u}
    BY <1>3, <1>5, <2>1, <2>2, RootsAssumption DEF ControllersBound
  <2>4. \A r \in DOMAIN hier : hier'[r].mask = {s \in Ctl : home'[s] = r}
    BY <1>3, <1>4, <1>6, <2>1, <2>2 DEF ControllersBound
  <2>5. \A s \in Ctl : home'[s] # 0 => home'[s] \in DOMAIN hier'
    BY <1>5, <2>1, <2>2 DEF ControllersBound
  <2> QED BY <1>5, <2>3, <2>4, <2>5 DEF ControllersBound
<1>10. RootsDistinct'
  <2>1. u \notin DOMAIN hier /\ RootsDistinct
    BY <1>1 DEF RootsInv
  <2>2. hier'[u].name = o.name /\ hier'[u].mask = o.mask
    BY <1>5
  <2> QED BY <1>2, <1>3, <1>5, <1>6, <2>1, <2>2 DEF RootsDistinct
<1>11. RootsThere
  BY <1>2, RefsAreDue DEF RootsInv
<1>12. RootsThere'
  BY <1>2, <1>5, <1>7, <1>11 DEF RootsThere
<1>13. \A r : Holders(r)' = Holders(r)
  BY <1>2 DEF Holders
<1>14. \A r : Cardinality(Getters(r)') = Cardinality(Getters(r)) + (IF r = u THEN 1 ELSE 0)
  BY <1>2, <1>7, MountsMove, Finite DEF Gets
<1>15. UsersCounted'
  <2>1. \A k : Checkers(k)' = Checkers(k)
    BY <1>2, <1>7 DEF Checkers
  <2> QED BY <1>2, <2>1 DEF UsersCounted, RootsInv
<1>16. RefsExact'
  <2>1. Holders(u) = {} /\ Getters(u) = {}
    BY <1>1, <1>11 DEF RootsThere, Holders, Getters, Sb
  <2>2. Cardinality(Holders(u)) = 0 /\ Cardinality(Getters(u)) = 0
    BY <2>1, FS_EmptySet
  <2>3. hier'[u].ref = Due(u)'
    BY <1>5, <1>13, <1>14, <2>2 DEF Due
  <2>4. \A r \in DOMAIN hier : Due(r)' = Due(r)
    <3>1. u \notin DOMAIN hier
      BY <1>1
    <3>2. \A r \in DOMAIN hier : Cardinality(Getters(r)') = Cardinality(Getters(r))
      BY <1>14, <3>1, Finite
    <3> QED BY <1>6, <1>13, <3>2 DEF Due
  <2> QED BY <1>2, <1>5, <1>6, <1>12, <2>3, <2>4, RefsAreDue, NextRefsAreDue DEF RootsInv
<1> QED BY <1>2, <1>8, <1>9, <1>10, <1>15, <1>16 DEF RootsInv

\* A mount gets its super block: the reference goes with a new one.
LEMMA MountGetRoots ==
  ASSUME RootsInv, ~killed2, NEW p \in Mounter, MountGet(p) PROVE RootsInv'
<1>1. RootsThere /\ mnt[p].pc = "get"
  BY RefsAreDue DEF RootsInv, MountGet
<1>2. PICK r \in DOMAIN hier, n \in Ns : r = mnt[p].r /\ n = mnt[p].ns
  BY <1>1 DEF RootsThere, RootsInv, RootsTypeOK, Mount
<1>3. PICK k \in Sb : k = <<r, n>>
  BY DEF Sb, RootsInv, RootsTypeOK
<1>4. /\ UNCHANGED <<home, killed2>> /\ sbs[k].st \in {"none", "up"}
      /\ sbs' = [sbs EXCEPT ![k] = [st |-> "up", act |-> @.act + 1]]
      /\ hier' = [hier EXCEPT ![r].ref = IF sbs[k].st = "up" THEN @ - 1 ELSE @]
      /\ mnt' = [mnt EXCEPT ![p].pc = "check"]
  BY <1>2, <1>3 DEF MountGet
<1>5. RootsTypeOK'
  <2>1. [hier[r] EXCEPT !.ref = IF sbs[k].st = "up" THEN @ - 1 ELSE @] \in Root
    BY DEF RootsInv, RootsTypeOK, Root
  <2>2. [mnt[p] EXCEPT !.pc = "check"] \in Mount
    BY DEF RootsInv, RootsTypeOK, Mount
  <2> QED BY <1>4, <2>1, <2>2 DEF RootsInv, RootsTypeOK
<1>6. /\ DOMAIN hier' = DOMAIN hier
      /\ \A x \in DOMAIN hier :
           /\ hier'[x].mask = hier[x].mask /\ hier'[x].name = hier[x].name
           /\ hier'[x].dead = hier[x].dead /\ hier'[x].kid = hier[x].kid
           /\ hier'[x].ref = hier[x].ref - (IF x = r /\ sbs[k].st = "up" THEN 1 ELSE 0)
  BY <1>4 DEF RootsInv, RootsTypeOK, Root
<1>7. /\ mnt'[p].pc = "check" /\ mnt'[p].r = r /\ mnt'[p].ns = n
      /\ \A q \in Mounter : q # p => mnt'[q] = mnt[q]
  BY <1>2, <1>4 DEF RootsInv, RootsTypeOK, Mount
<1>8. /\ sbs'[k].st = "up" /\ sbs'[k].act = sbs[k].act + 1 /\ sbs[k].act \in Int
      /\ \A j \in Sb : j # k => sbs'[j] = sbs[j]
  BY <1>4 DEF RootsInv, RootsTypeOK
<1>9. \A x \in DOMAIN hier : Cardinality(Holders(x)') =
         Cardinality(Holders(x)) + (IF x = r /\ sbs[k].st = "none" THEN 1 ELSE 0)
  <2>1. Holds(k)' - Holds(k) = IF sbs[k].st = "none" THEN 1 ELSE 0
    BY <1>8 DEF Holds
  <2>2. \A j \in Sb : j # k => sbs'[j].st = sbs[j].st
    BY <1>8
  <2>3. k[1] = r /\ DOMAIN hier \subseteq Hier
    BY <1>3 DEF RootsInv, RootsTypeOK
  <2> QED BY <2>1, <2>2, <2>3, HoldersMove, Finite
<1>10. \A x : Cardinality(Getters(x)') = Cardinality(Getters(x)) - (IF x = r THEN 1 ELSE 0)
  BY <1>1, <1>2, <1>7, MountsMove, Finite DEF Gets
<1>11. \A j : Cardinality(Checkers(j)') = Cardinality(Checkers(j)) + (IF j = k THEN 1 ELSE 0)
  BY <1>1, <1>3, <1>7, MountsMove, Finite DEF Checks
<1>12. UsersCounted'
  BY <1>8, <1>11, Finite DEF UsersCounted, RootsInv, RootsTypeOK
<1>13. RefsExact'
  <2>1. \A x \in DOMAIN hier : Due(x)' = Due(x) - (IF x = r /\ sbs[k].st = "up" THEN 1 ELSE 0)
    BY <1>4, <1>6, <1>9, <1>10, Finite DEF Due
  <2>2. RootsThere'
    BY <1>1, <1>3, <1>6, <1>7, <1>8 DEF RootsThere
  <2>3. \A x \in DOMAIN hier : hier[x].ref = Due(x)
    BY RefsAreDue DEF RootsInv
  <2> QED BY <1>6, <2>1, <2>2, <2>3, NextRefsAreDue
<1> QED BY <1>4, <1>5, <1>6, <1>12, <1>13, SameShape DEF RootsInv

\* A mount gets no super block, and gives the reference back.
LEMMA MountGetFailsRoots ==
  ASSUME RootsInv, ~killed2, NEW p \in Mounter, MountGetFails(p) PROVE RootsInv'
<1>1. RootsThere /\ mnt[p].pc = "get"
  BY RefsAreDue DEF RootsInv, MountGetFails
<1>2. PICK u \in DOMAIN hier : u = mnt[p].r
  BY <1>1 DEF RootsThere
<1>3. /\ UNCHANGED <<home, sbs, killed2>>
      /\ hier' = [hier EXCEPT ![u].ref = @ - 1]
      /\ mnt' = [mnt EXCEPT ![p] = IdleMnt]
  BY <1>2 DEF MountGetFails
<1>4. RootsTypeOK'
  <2>1. [hier[u] EXCEPT !.ref = @ - 1] \in Root
    BY DEF RootsInv, RootsTypeOK, Root
  <2>2. IdleMnt \in Mount
    BY RootsAssumption DEF IdleMnt, NoOption, Mount, MountOption
  <2> QED BY <1>3, <2>1, <2>2 DEF RootsInv, RootsTypeOK
<1>5. /\ DOMAIN hier' = DOMAIN hier
      /\ \A r \in DOMAIN hier :
           /\ hier'[r].mask = hier[r].mask /\ hier'[r].name = hier[r].name
           /\ hier'[r].dead = hier[r].dead /\ hier'[r].kid = hier[r].kid
           /\ hier'[r].ref = hier[r].ref - (IF r = u THEN 1 ELSE 0)
  BY <1>3 DEF RootsInv, RootsTypeOK, Root
<1>6. /\ mnt'[p].pc = "idle"
      /\ \A q \in Mounter : q # p => mnt'[q] = mnt[q]
  BY <1>3 DEF RootsInv, RootsTypeOK, IdleMnt
<1>7. \A r : Holders(r)' = Holders(r)
  BY <1>3 DEF Holders
<1>8. \A r : Cardinality(Getters(r)') = Cardinality(Getters(r)) - (IF r = u THEN 1 ELSE 0)
  <2>1. \A r : Gets(p, r)' = 0 /\ Gets(p, r) = IF r = u THEN 1 ELSE 0
    BY <1>1, <1>2, <1>6 DEF Gets
  <2> QED BY <1>6, <2>1, MountsMove, Finite
<1>9. UsersCounted'
  <2>1. \A k : Checkers(k)' = Checkers(k)
    BY <1>1, <1>6 DEF Checkers
  <2> QED BY <1>3, <2>1 DEF UsersCounted, RootsInv
<1>10. RefsExact'
  <2>1. \A r \in DOMAIN hier : Due(r)' = Due(r) - (IF r = u THEN 1 ELSE 0)
    BY <1>5, <1>7, <1>8, Finite DEF Due
  <2>2. RootsThere'
    BY <1>1, <1>3, <1>5, <1>6 DEF RootsThere
  <2>3. \A r \in DOMAIN hier : hier[r].ref = Due(r)
    BY RefsAreDue DEF RootsInv
  <2> QED BY <1>5, <2>1, <2>2, <2>3, NextRefsAreDue
<1> QED BY <1>3, <1>4, <1>5, <1>9, <1>10, SameShape DEF RootsInv

\* The last user of a super block starts to take it down.
LEMMA DeactivatedBlock ==
  ASSUME RootsInv, ~killed2, NEW k \in Sb, sbs[k].st = "up",
         sbs' = [sbs EXCEPT ![k] = Deactivated(k)]
  PROVE  /\ sbs' \in [Sb -> [st : {"none", "up", "test", "kill", "put"}, act : Int]]
         /\ \A j \in Sb : sbs'[j].st = "none" <=> sbs[j].st = "none"
         /\ \A j \in Sb : j # k => sbs'[j] = sbs[j]
         /\ sbs'[k].act = sbs[k].act - 1
         /\ sbs'[k].act > 0 <=> sbs'[k].st = "up"
<1>1. /\ sbs[k] \in [st : {"none", "up", "test", "kill", "put"}, act : Int]
      /\ sbs[k].act > 0
  BY DEF RootsInv, RootsTypeOK, UsersCounted
<1>2. CASE sbs[k].act = 1
  <2>1. Deactivated(k) = [st |-> "test", act |-> 0]
    BY <1>2 DEF Deactivated
  <2> QED BY <1>1, <1>2, <2>1 DEF RootsInv, RootsTypeOK
<1>3. CASE sbs[k].act # 1
  <2>1. Deactivated(k) = [sbs[k] EXCEPT !.act = @ - 1]
    BY <1>3 DEF Deactivated
  <2>2. /\ Deactivated(k).st = "up" /\ Deactivated(k).act = sbs[k].act - 1
        /\ Deactivated(k) \in [st : {"none", "up", "test", "kill", "put"}, act : Int]
    BY <1>1, <2>1
  <2> QED BY <1>1, <1>3, <2>2 DEF RootsInv, RootsTypeOK
<1> QED BY <1>2, <1>3

\* What the roots owe when no super block comes or goes, and no mount finds one.
LEMMA SameRefs ==
  ASSUME RootsInv, ~killed2, UNCHANGED <<hier, home, killed2>>, RootsTypeOK', UsersCounted',
         \A j \in Sb : sbs'[j].st = "none" <=> sbs[j].st = "none",
         \A r : Getters(r)' = Getters(r),
         \A p \in Mounter : mnt'[p].pc \in {"get", "check"} => mnt'[p].r \in DOMAIN hier
  PROVE  RootsInv'
<1>1. RootsThere /\ \A r \in DOMAIN hier : hier[r].ref = Due(r)
  BY RefsAreDue DEF RootsInv
<1>2. RootsThere'
  BY <1>1 DEF RootsThere
<1>3. \A r \in DOMAIN hier : Holders(r)' = Holders(r)
  <2>1. \A r \in DOMAIN hier, n \in Ns : <<r, n>> \in Sb
    BY DEF RootsInv, RootsTypeOK, Sb
  <2> QED BY <2>1 DEF Holders
<1>4. \A r \in DOMAIN hier : Due(r)' = Due(r)
  BY <1>3 DEF Due
<1>5. RefsExact'
  BY <1>1, <1>2, <1>4, NextRefsAreDue
<1> QED BY <1>5, SameShape DEF RootsInv

\* A mount looks at its root again; one that died is given back.
LEMMA MountCheckRoots ==
  ASSUME RootsInv, ~killed2, NEW p \in Mounter, MountCheck(p) PROVE RootsInv'
<1>1. RootsThere /\ mnt[p].pc = "check" /\ UNCHANGED <<hier, home, killed2>>
  BY RefsAreDue DEF RootsInv, MountCheck
<1>2. PICK k \in Sb : k = <<mnt[p].r, mnt[p].ns>>
  BY <1>1 DEF RootsThere, RootsInv, RootsTypeOK, Mount, Sb
<1>3. /\ mnt'[p].pc \in {"idle", "find"} /\ mnt' \in [Mounter -> Mount]
      /\ \A q \in Mounter : q # p => mnt'[q] = mnt[q]
  <2>1. IdleMnt \in Mount
    BY RootsAssumption DEF IdleMnt, NoOption, Mount, MountOption
  <2>2. [mnt[p] EXCEPT !.pc = "find", !.r = 0] \in Mount
    BY DEF RootsInv, RootsTypeOK, Mount
  <2>3. \/ mnt' = [mnt EXCEPT ![p] = [mnt[p] EXCEPT !.pc = "find", !.r = 0]]
        \/ mnt' = [mnt EXCEPT ![p] = IdleMnt]
    BY DEF MountCheck, RootsInv, RootsTypeOK
  <2>4. [mnt[p] EXCEPT !.pc = "find", !.r = 0].pc = "find" /\ IdleMnt.pc = "idle"
    BY DEF IdleMnt, RootsInv, RootsTypeOK, Mount
  <2> QED BY <2>1, <2>2, <2>3, <2>4 DEF RootsInv, RootsTypeOK
<1>4. \A j : Cardinality(Checkers(j)') = Cardinality(Checkers(j)) - (IF j = k THEN 1 ELSE 0)
  <2>1. \A j : Checks(p, j)' = 0 /\ Checks(p, j) = IF j = k THEN 1 ELSE 0
    BY <1>1, <1>2, <1>3 DEF Checks
  <2> QED BY <1>3, <2>1, MountsMove, Finite
<1>5. sbs[k].act > 0 /\ sbs[k].st = "up"
  <2>1. Cardinality(Checkers(k)) > 0
    <3>1. Cardinality(Checkers(k)) # 0
      BY <1>1, <1>2, NoUsers DEF Checkers
    <3> QED BY <3>1, Finite
  <2> QED BY <2>1, Finite DEF RootsInv, UsersCounted, RootsTypeOK
<1>6. /\ sbs' \in [Sb -> [st : {"none", "up", "test", "kill", "put"}, act : Int]]
      /\ \A j \in Sb : sbs'[j].st = "none" <=> sbs[j].st = "none"
      /\ UsersCounted'
  <2>1. CASE hier[mnt[p].r].dead
    <3>1. sbs' = [sbs EXCEPT ![k] = Deactivated(k)]
      BY <1>2, <2>1 DEF MountCheck
    <3>2. /\ sbs' \in [Sb -> [st : {"none", "up", "test", "kill", "put"}, act : Int]]
          /\ \A j \in Sb : sbs'[j].st = "none" <=> sbs[j].st = "none"
          /\ \A j \in Sb : j # k => sbs'[j] = sbs[j]
          /\ sbs'[k].act = sbs[k].act - 1
          /\ sbs'[k].act > 0 <=> sbs'[k].st = "up"
      BY <1>5, <3>1, DeactivatedBlock
    <3>3. \A j \in Sb : Cardinality(Checkers(j)') <= sbs'[j].act
      BY <1>4, <3>2, Finite DEF UsersCounted, RootsInv, RootsTypeOK
    <3>4. \A j \in Sb : sbs'[j].act > 0 <=> sbs'[j].st = "up"
      BY <3>2 DEF UsersCounted, RootsInv
    <3> QED BY <3>2, <3>3, <3>4 DEF UsersCounted
  <2>2. CASE ~hier[mnt[p].r].dead
    <3>1. sbs' = sbs
      BY <2>2 DEF MountCheck
    <3> QED BY <1>4, <3>1, Finite DEF UsersCounted, RootsInv, RootsTypeOK
  <2> QED BY <2>1, <2>2
<1>7. RootsTypeOK'
  BY <1>1, <1>3, <1>6 DEF RootsInv, RootsTypeOK
<1>8. \A r : Getters(r)' = Getters(r)
  BY <1>1, <1>3 DEF Getters
<1>9. \A q \in Mounter : mnt'[q].pc \in {"get", "check"} => mnt'[q].r \in DOMAIN hier
  BY <1>1, <1>3 DEF RootsThere
<1> QED BY <1>1, <1>6, <1>7, <1>8, <1>9, SameRefs

\* umount, and the look at the root that follows it.
LEMMA UmountRoots ==
  ASSUME RootsInv, ~killed2, NEW k \in Sb, Umount(k) \/ KillTest(k) PROVE RootsInv'
<1>1. UNCHANGED <<hier, home, mnt, killed2>>
  BY DEF Umount, KillTest
<1>2. \A j : Checkers(j)' = Checkers(j)
  BY <1>1 DEF Checkers
<1>3. /\ sbs' \in [Sb -> [st : {"none", "up", "test", "kill", "put"}, act : Int]]
      /\ \A j \in Sb : sbs'[j].st = "none" <=> sbs[j].st = "none"
      /\ UsersCounted'
  <2>1. CASE Umount(k)
    <3>1. /\ sbs[k].st = "up" /\ sbs[k].act > Cardinality(Checkers(k))
          /\ sbs' = [sbs EXCEPT ![k] = Deactivated(k)]
      BY <2>1 DEF Umount, Mounted, Checkers
    <3>2. /\ sbs' \in [Sb -> [st : {"none", "up", "test", "kill", "put"}, act : Int]]
          /\ \A j \in Sb : sbs'[j].st = "none" <=> sbs[j].st = "none"
          /\ \A j \in Sb : j # k => sbs'[j] = sbs[j]
          /\ sbs'[k].act = sbs[k].act - 1
          /\ sbs'[k].act > 0 <=> sbs'[k].st = "up"
      BY <3>1, DeactivatedBlock
    <3>3. \A j \in Sb : Cardinality(Checkers(j)') <= sbs'[j].act
      BY <1>2, <3>1, <3>2, Finite DEF UsersCounted, RootsInv, RootsTypeOK
    <3>4. \A j \in Sb : sbs'[j].act > 0 <=> sbs'[j].st = "up"
      BY <3>2 DEF UsersCounted, RootsInv
    <3> QED BY <3>2, <3>3, <3>4 DEF UsersCounted
  <2>2. CASE KillTest(k)
    <3>1. PICK s \in {"kill", "put"} : sbs' = [sbs EXCEPT ![k].st = s]
      BY <2>2 DEF KillTest
    <3>2. sbs[k] \in [st : {"none", "up", "test", "kill", "put"}, act : Int] /\ sbs[k].st = "test"
      BY <2>2 DEF KillTest, RootsInv, RootsTypeOK
    <3>3. /\ [sbs[k] EXCEPT !.st = s] \in [st : {"none", "up", "test", "kill", "put"}, act : Int]
          /\ [sbs[k] EXCEPT !.st = s].st = s /\ [sbs[k] EXCEPT !.st = s].act = sbs[k].act
      BY <3>2
    <3>4. /\ sbs' \in [Sb -> [st : {"none", "up", "test", "kill", "put"}, act : Int]]
          /\ sbs'[k].st = s /\ sbs'[k].act = sbs[k].act
          /\ \A j \in Sb : j # k => sbs'[j] = sbs[j]
      BY <3>1, <3>3 DEF RootsInv, RootsTypeOK
    <3> QED BY <1>2, <3>2, <3>4, Finite DEF UsersCounted, RootsInv, RootsTypeOK
  <2> QED BY <2>1, <2>2
<1>4. RootsTypeOK'
  BY <1>1, <1>3 DEF RootsInv, RootsTypeOK
<1>5. \A r : Getters(r)' = Getters(r)
  BY <1>1 DEF Getters
<1>6. \A q \in Mounter : mnt'[q].pc \in {"get", "check"} => mnt'[q].r \in DOMAIN hier
  BY <1>1, RefsAreDue DEF RootsInv, RootsThere
<1> QED BY <1>1, <1>3, <1>4, <1>5, <1>6, SameRefs

\* percpu_ref_kill gives the base reference back; a second time it is one too many.
LEMMA KillRefRoots ==
  ASSUME RootsInv, ~killed2, NEW k \in Sb, KillRef(k) PROVE RootsInv'
<1>1. /\ UNCHANGED <<home, mnt>> /\ sbs[k].st = "kill"
      /\ hier' = [hier EXCEPT ![k[1]].dead = TRUE, ![k[1]].ref = @ - 1]
      /\ sbs' = [sbs EXCEPT ![k].st = "put"]
      /\ killed2' = hier[k[1]].dead
  BY DEF KillRef
<1>2. RootsThere /\ \A r \in DOMAIN hier : hier[r].ref = Due(r)
  BY RefsAreDue DEF RootsInv
<1>3. PICK u \in DOMAIN hier : u = k[1]
  BY <1>1, <1>2 DEF RootsThere
<1>4. sbs[k] \in [st : {"none", "up", "test", "kill", "put"}, act : Int] /\ hier[u] \in Root
  BY DEF RootsInv, RootsTypeOK
<1>5. /\ DOMAIN hier' = DOMAIN hier
      /\ hier'[u].dead /\ hier'[u].kid = hier[u].kid
      /\ hier'[u].ref = hier[u].ref - 1
      /\ \A r \in DOMAIN hier : hier'[r].mask = hier[r].mask /\ hier'[r].name = hier[r].name
      /\ \A r \in DOMAIN hier : r # u => hier'[r] = hier[r]
  BY <1>1, <1>3, <1>4 DEF RootsInv, RootsTypeOK, Root
<1>6. /\ [sbs[k] EXCEPT !.st = "put"] \in [st : {"none", "up", "test", "kill", "put"}, act : Int]
      /\ [sbs[k] EXCEPT !.st = "put"].st = "put" /\ [sbs[k] EXCEPT !.st = "put"].act = sbs[k].act
  BY <1>4
<1>7. /\ sbs' \in [Sb -> [st : {"none", "up", "test", "kill", "put"}, act : Int]]
      /\ sbs'[k].st = "put" /\ sbs'[k].act = sbs[k].act
      /\ \A j \in Sb : j # k => sbs'[j] = sbs[j]
  BY <1>1, <1>6 DEF RootsInv, RootsTypeOK
<1>8. RootsTypeOK'
  <2>1. hier' \in [DOMAIN hier' -> Root]
    <3>1. hier[u].ref - 1 \in Int
      BY <1>4 DEF Root
    <3>2. [hier[u] EXCEPT !.dead = TRUE, !.ref = @ - 1] \in Root
      BY <1>4, <3>1 DEF Root
    <3> QED BY <1>1, <1>3, <3>2 DEF RootsInv, RootsTypeOK
  <2>2. killed2' \in BOOLEAN
    BY <1>1, <1>3, <1>4 DEF Root
  <2> QED BY <1>1, <1>5, <1>7, <2>1, <2>2 DEF RootsInv, RootsTypeOK
<1>9. UsersCounted'
  <2>1. \A j : Checkers(j)' = Checkers(j)
    BY <1>1 DEF Checkers
  <2> QED BY <1>1, <1>7, <2>1 DEF UsersCounted, RootsInv
<1>10. \A j \in Sb : sbs'[j].st = "none" <=> sbs[j].st = "none"
  BY <1>1, <1>7
<1>11. \A r \in DOMAIN hier : Holders(r)' = Holders(r) /\ Getters(r)' = Getters(r)
  <2>1. \A r \in DOMAIN hier, n \in Ns : <<r, n>> \in Sb
    BY DEF RootsInv, RootsTypeOK, Sb
  <2> QED BY <1>1, <1>10, <2>1 DEF Holders, Getters
<1>12. RefsExact'
  <2> SUFFICES ASSUME ~killed2'
      PROVE RootsThere' /\ \A r \in DOMAIN hier' : hier'[r].ref = Due(r)'
    BY NextRefsAreDue
  <2>1. ~hier[u].dead
    BY <1>1, <1>3
  <2>2. RootsThere'
    BY <1>1, <1>2, <1>5, <1>10 DEF RootsThere
  <2>3. Due(u)' = Due(u) - 1
    BY <1>5, <1>11, <2>1, Finite DEF Due
  <2>4. \A r \in DOMAIN hier : r # u => Due(r)' = Due(r)
    BY <1>5, <1>11 DEF Due
  <2> QED BY <1>2, <1>5, <2>2, <2>3, <2>4
<1> QED BY <1>1, <1>5, <1>8, <1>9, <1>12, SameShape DEF RootsInv

\* A super block is gone, and gives its reference back.
LEMMA KillPutRoots ==
  ASSUME RootsInv, ~killed2, NEW k \in Sb, KillPut(k) PROVE RootsInv'
<1>1. /\ UNCHANGED <<home, mnt, killed2>> /\ sbs[k].st = "put"
      /\ hier' = [hier EXCEPT ![k[1]].ref = @ - 1]
      /\ sbs' = [sbs EXCEPT ![k] = NoSb]
  BY DEF KillPut
<1>2. RootsThere /\ \A r \in DOMAIN hier : hier[r].ref = Due(r)
  BY RefsAreDue DEF RootsInv
<1>3. PICK u \in DOMAIN hier : u = k[1]
  BY <1>1, <1>2 DEF RootsThere
<1>4. /\ DOMAIN hier' = DOMAIN hier
      /\ \A r \in DOMAIN hier :
           /\ hier'[r].mask = hier[r].mask /\ hier'[r].name = hier[r].name
           /\ hier'[r].dead = hier[r].dead /\ hier'[r].kid = hier[r].kid
           /\ hier'[r].ref = hier[r].ref - (IF r = u THEN 1 ELSE 0)
  BY <1>1, <1>3 DEF RootsInv, RootsTypeOK, Root
<1>5. /\ sbs' \in [Sb -> [st : {"none", "up", "test", "kill", "put"}, act : Int]]
      /\ sbs'[k].st = "none" /\ sbs'[k].act = 0
      /\ \A j \in Sb : j # k => sbs'[j] = sbs[j]
  BY <1>1 DEF NoSb, RootsInv, RootsTypeOK
<1>6. RootsTypeOK'
  <2>1. [hier[u] EXCEPT !.ref = @ - 1] \in Root
    <3>1. hier[u] \in Root /\ hier[u].ref - 1 \in Int
      BY DEF RootsInv, RootsTypeOK, Root
    <3> QED BY <3>1 DEF Root
  <2> QED BY <1>1, <1>3, <1>5, <2>1 DEF RootsInv, RootsTypeOK
<1>7. UsersCounted'
  <2>1. \A j : Checkers(j)' = Checkers(j)
    BY <1>1 DEF Checkers
  <2>2. sbs[k].act <= 0
    BY <1>1 DEF UsersCounted, RootsInv, RootsTypeOK
  <2> QED BY <1>5, <2>1, <2>2, Finite DEF UsersCounted, RootsInv, RootsTypeOK
<1>8. \A r \in DOMAIN hier : Cardinality(Holders(r)') =
         Cardinality(Holders(r)) - (IF r = u THEN 1 ELSE 0)
  <2>1. Holds(k)' - Holds(k) = -1
    BY <1>1, <1>5 DEF Holds
  <2>2. \A j \in Sb : j # k => sbs'[j].st = sbs[j].st
    BY <1>5
  <2> QED BY <1>3, <2>1, <2>2, HoldersMove, Finite DEF RootsInv, RootsTypeOK
<1>9. \A r : Getters(r)' = Getters(r)
  BY <1>1 DEF Getters
<1>10. RefsExact'
  <2>1. \A r \in DOMAIN hier : Due(r)' = Due(r) - (IF r = u THEN 1 ELSE 0)
    BY <1>4, <1>8, <1>9, Finite DEF Due
  <2>2. RootsThere'
    BY <1>1, <1>2, <1>4, <1>5 DEF RootsThere
  <2> QED BY <1>2, <1>4, <2>1, <2>2, NextRefsAreDue
<1> QED BY <1>1, <1>4, <1>6, <1>7, <1>10, SameShape DEF RootsInv

\* A child of a root holds a reference until it is freed.
LEMMA ChildRoots ==
  ASSUME RootsInv, ~killed2, NEW u \in DOMAIN hier, Child(u) PROVE RootsInv'
<1>1. UNCHANGED <<home, sbs, mnt, killed2>> /\ hier[u] \in Root
  BY DEF Child, RootsInv, RootsTypeOK
<1>2. /\ DOMAIN hier' = DOMAIN hier
      /\ hier'[u] \in Root /\ hier' \in [DOMAIN hier -> Root]
      /\ hier'[u].mask = hier[u].mask /\ hier'[u].name = hier[u].name
      /\ hier'[u].dead = hier[u].dead
      /\ hier'[u].ref - hier[u].ref = (IF hier'[u].kid = "none" THEN 0 ELSE 1)
                                      - (IF hier[u].kid = "none" THEN 0 ELSE 1)
      /\ \A r \in DOMAIN hier : r # u => hier'[r] = hier[r]
  <2>1. CASE hier[u].kid = "none" /\ hier' = [hier EXCEPT ![u].kid = "live", ![u].ref = @ + 1]
    <3>1. hier[u].ref \in Int /\ hier[u].ref + 1 \in Int
      BY <1>1 DEF Root
    <3>2. [hier[u] EXCEPT !.kid = "live", !.ref = @ + 1] \in Root
      BY <1>1, <3>1 DEF Root
    <3>3. /\ hier' \in [DOMAIN hier -> Root] /\ DOMAIN hier' = DOMAIN hier
          /\ \A r \in DOMAIN hier : r # u => hier'[r] = hier[r]
      BY <2>1, <3>2 DEF RootsInv, RootsTypeOK
    <3>4. /\ hier'[u].mask = hier[u].mask /\ hier'[u].name = hier[u].name
          /\ hier'[u].dead = hier[u].dead
          /\ hier'[u].kid = "live" /\ hier'[u].ref = hier[u].ref + 1
      BY <1>1, <2>1 DEF RootsInv, RootsTypeOK, Root
    <3> QED BY <2>1, <3>1, <3>3, <3>4
  <2>2. CASE hier[u].kid = "live" /\ hier' = [hier EXCEPT ![u].kid = "dying"]
    BY <1>1, <2>2 DEF RootsInv, RootsTypeOK, Root
  <2>3. CASE hier[u].kid = "dying" /\ hier' = [hier EXCEPT ![u].kid = "unlinked"]
    BY <1>1, <2>3 DEF RootsInv, RootsTypeOK, Root
  <2>4. CASE hier[u].kid = "unlinked" /\ hier' = [hier EXCEPT ![u].kid = "none", ![u].ref = @ - 1]
    <3>1. hier[u].ref \in Int /\ hier[u].ref - 1 \in Int
      BY <1>1 DEF Root
    <3>2. [hier[u] EXCEPT !.kid = "none", !.ref = @ - 1] \in Root
      BY <1>1, <3>1 DEF Root
    <3>3. /\ hier' \in [DOMAIN hier -> Root] /\ DOMAIN hier' = DOMAIN hier
          /\ \A r \in DOMAIN hier : r # u => hier'[r] = hier[r]
      BY <2>4, <3>2 DEF RootsInv, RootsTypeOK
    <3>4. /\ hier'[u].mask = hier[u].mask /\ hier'[u].name = hier[u].name
          /\ hier'[u].dead = hier[u].dead
          /\ hier'[u].kid = "none" /\ hier'[u].ref = hier[u].ref - 1
      BY <1>1, <2>4 DEF RootsInv, RootsTypeOK, Root
    <3> QED BY <2>4, <3>1, <3>3, <3>4
  <2> QED BY <2>1, <2>2, <2>3, <2>4 DEF Child, ChildSteps
<1>3. RootsTypeOK'
  BY <1>1, <1>2 DEF RootsInv, RootsTypeOK
<1>4. /\ \A r : Holders(r)' = Holders(r) /\ Getters(r)' = Getters(r)
      /\ UsersCounted'
  BY <1>1, SameUsers
<1>5. RefsExact'
  <2>1. RootsThere /\ \A r \in DOMAIN hier : hier[r].ref = Due(r)
    BY RefsAreDue DEF RootsInv
  <2>2. RootsThere'
    BY <1>1, <1>2, <2>1 DEF RootsThere
  <2>3. \A r \in DOMAIN hier : r # u => Due(r)' = Due(r)
    BY <1>2, <1>4 DEF Due
  <2>4. Due(u)' - Due(u) = hier'[u].ref - hier[u].ref
    BY <1>2, <1>4, Finite DEF Due
  <2>5. hier'[u].ref \in Int /\ hier[u].ref \in Int /\ Due(u) \in Int /\ Due(u)' \in Int
    BY <1>1, <1>2, <1>4, Finite DEF Due, Root
  <2>6. hier'[u].ref = Due(u)'
    BY <2>1, <2>4, <2>5
  <2> QED BY <1>2, <2>1, <2>2, <2>3, <2>6, NextRefsAreDue
<1> QED BY <1>1, <1>2, <1>3, <1>4, <1>5, SameShape DEF RootsInv

\* The last reference of a root goes, and the root with it: its controllers
\* are those of the default hierarchy again.
LEMMA DestroyRootRoots ==
  ASSUME RootsInv, ~killed2, NEW u \in DOMAIN hier, DestroyRoot(u) PROVE RootsInv'
<1>1. /\ UNCHANGED <<sbs, mnt, killed2>> /\ hier[u].ref = 0
      /\ home' = NewHome(0, hier[u].mask)
      /\ hier' = [x \in DOMAIN hier \ {u} |-> Rebound(hier, 0, hier[u].mask)[x]]
  BY DEF DestroyRoot
<1>2. /\ RootsThere /\ \A r \in DOMAIN hier : hier[r].ref = Due(r)
      /\ ControllersBound /\ RootsTypeOK /\ UsersCounted /\ RootsDistinct
  BY RefsAreDue DEF RootsInv
<1>3. u \in Hier /\ 0 \notin DOMAIN hier
  BY <1>2, RootsAssumption DEF RootsTypeOK
<1>4. \A r \in DOMAIN hier \ {u} : hier[r].mask \cap hier[u].mask = {}
  BY <1>2 DEF ControllersBound
<1>5. DOMAIN hier' = DOMAIN hier \ {u} /\ \A r \in DOMAIN hier' : hier'[r] = hier[r]
  <2>1. DOMAIN hier' = DOMAIN hier \ {u}
    BY <1>1
  <2>2. ASSUME NEW r \in DOMAIN hier \ {u} PROVE hier'[r] = hier[r]
    <3>1. hier[r] \in Root /\ hier[r].mask \ hier[u].mask = hier[r].mask
      BY <1>2, <1>4 DEF RootsTypeOK
    <3>2. hier'[r] = [hier[r] EXCEPT !.mask = @ \ hier[u].mask]
      BY <1>1, <1>3 DEF Rebound
    <3> QED BY <3>1, <3>2 DEF Root
  <2> QED BY <2>1, <2>2
<1>6. Holders(u) = {} /\ Getters(u) = {}
  <2>1. Due(u) = 0
    BY <1>1, <1>2
  <2>2. Cardinality(Holders(u)) = 0 /\ Cardinality(Getters(u)) = 0
    BY <2>1, Finite DEF Due
  <2> QED BY <2>2, NoUsers
<1>7. \A k \in Sb : k[1] = u => sbs[k].st = "none" /\ Checkers(k) = {}
  <2> SUFFICES ASSUME NEW k \in Sb, k[1] = u PROVE sbs[k].st = "none" /\ Checkers(k) = {}
    OBVIOUS
  <2>1. sbs[k].st = "none"
    BY <1>6 DEF Holders, Sb
  <2>2. Cardinality(Checkers(k)) = 0
    <3>1. sbs[k].act \in Int /\ ~(sbs[k].act > 0) /\ Cardinality(Checkers(k)) <= sbs[k].act
      BY <1>2, <2>1 DEF UsersCounted, RootsTypeOK
    <3> QED BY <3>1, Finite
  <2> QED BY <2>1, <2>2, NoUsers
<1>8. RootsThere'
  <2>1. \A k \in Sb : sbs[k].st # "none" => k[1] \in DOMAIN hier \ {u}
    BY <1>2, <1>7 DEF RootsThere
  <2>2. \A p \in Mounter : mnt[p].pc = "get" => mnt[p].r # u
    BY <1>6 DEF Getters
  <2>3. ASSUME NEW p \in Mounter, mnt[p].pc = "check" PROVE mnt[p].r # u
    <3> SUFFICES ASSUME mnt[p].r = u PROVE FALSE
      OBVIOUS
    <3>1. <<mnt[p].r, mnt[p].ns>> \in Sb
      BY <1>2, <1>3 DEF RootsTypeOK, Mount, Sb
    <3>2. p \in Checkers(<<mnt[p].r, mnt[p].ns>>)
      BY <2>3 DEF Checkers
    <3> QED BY <1>7, <3>1, <3>2
  <2> QED BY <1>1, <1>2, <1>5, <2>1, <2>2, <2>3 DEF RootsThere
<1>9. home' \in [Ctl -> Hier \cup {0}]
      /\ \A s \in Ctl : home'[s] = IF home[s] = u THEN 0 ELSE home[s]
  <2>1. hier[u].mask = {s \in Ctl : home[s] = u}
    BY <1>2 DEF ControllersBound
  <2> QED BY <1>1, <1>2, <2>1 DEF NewHome, RootsTypeOK
<1>10. RootsTypeOK'
  <2>1. \A r \in DOMAIN hier' : hier'[r] \in Root
    BY <1>2, <1>5 DEF RootsTypeOK
  <2>2. hier' = [r \in DOMAIN hier' |-> hier'[r]]
    BY <1>1, <1>5
  <2>3. hier' \in [DOMAIN hier' -> Root]
    BY <2>1, <2>2
  <2> QED BY <1>1, <1>2, <1>5, <1>9, <2>3 DEF RootsTypeOK
<1>11. ControllersBound'
  BY <1>2, <1>3, <1>5, <1>9 DEF ControllersBound
<1>12. RootsDistinct'
  BY <1>2, <1>5 DEF RootsDistinct
<1>13. UsersCounted'
  <2>1. \A k : Checkers(k)' = Checkers(k)
    BY <1>1 DEF Checkers
  <2> QED BY <1>1, <1>2, <2>1 DEF UsersCounted
<1>14. RefsExact'
  <2>1. \A r : Holders(r)' = Holders(r) /\ Getters(r)' = Getters(r)
    BY <1>1 DEF Holders, Getters
  <2>2. \A r \in DOMAIN hier' : Due(r)' = Due(r)
    BY <1>5, <2>1 DEF Due
  <2> QED BY <1>2, <1>5, <1>8, <2>2, NextRefsAreDue
<1> QED BY <1>10, <1>11, <1>12, <1>13, <1>14 DEF RootsInv

\* A mounted hierarchy exchanges its controllers with the default one.
LEMMA RemountRoots ==
  ASSUME RootsInv, ~killed2, NEW k \in Sb, NEW o \in Options, Remount(k, o)
  PROVE  RootsInv'
<1>1. /\ RootsThere /\ \A r \in DOMAIN hier : hier[r].ref = Due(r)
      /\ ControllersBound /\ RootsTypeOK /\ RootsDistinct
  BY RefsAreDue DEF RootsInv
<1>2. PICK u \in DOMAIN hier : u = k[1]
  BY <1>1 DEF Remount, Mounted, RootsThere
<1>3. PICK new \in MountOption : new = Resolved(o)
  BY ResolvedOption
<1>4. PICK added \in SUBSET Ctl, removed \in SUBSET Ctl :
        added = new.mask \ hier[u].mask /\ removed = hier[u].mask \ new.mask
  BY <1>1 DEF MountOption, RootsTypeOK, Root
<1>5. /\ UNCHANGED <<sbs, mnt, killed2>>
      /\ OptionsValid(new) /\ new.name \in {0, hier[u].name} /\ MayRebind(u, added)
      /\ hier' = Rebound(Rebound(hier, u, added), 0, removed)
      /\ home' = [s \in Ctl |-> IF s \in removed THEN 0 ELSE NewHome(u, added)[s]]
  BY <1>2, <1>3, <1>4 DEF Remount
<1>6. u \in Hier /\ u # 0 /\ 0 \notin DOMAIN hier /\ hier[u] \in Root
  BY <1>1, RootsAssumption DEF RootsTypeOK
<1>7. \A s \in added : home[s] = 0
  BY <1>5, <1>6 DEF MayRebind
<1>8. \A r \in DOMAIN hier \ {u} : hier[r].mask \cap added = {} /\ hier[r].mask \cap removed = {}
  BY <1>1, <1>4, <1>6, <1>7 DEF ControllersBound
<1>9. /\ DOMAIN hier' = DOMAIN hier
      /\ hier'[u] = [hier[u] EXCEPT !.mask = (@ \cup added) \ removed]
      /\ \A r \in DOMAIN hier \ {u} : hier'[r] = hier[r]
  <2>1. DOMAIN hier' = DOMAIN hier /\ DOMAIN Rebound(hier, u, added) = DOMAIN hier
    BY <1>5 DEF Rebound
  <2>2. \A r \in DOMAIN hier :
          hier'[r] = [Rebound(hier, u, added)[r] EXCEPT !.mask = @ \ removed]
    BY <1>5, <1>6, <2>1 DEF Rebound
  <2>3. hier'[u] = [hier[u] EXCEPT !.mask = (@ \cup added) \ removed]
    <3>1. Rebound(hier, u, added)[u] = [hier[u] EXCEPT !.mask = @ \cup added]
      BY DEF Rebound
    <3>2. hier'[u] = [[hier[u] EXCEPT !.mask = @ \cup added] EXCEPT !.mask = @ \ removed]
      BY <2>2, <3>1
    <3> QED BY <1>6, <3>2 DEF Root
  <2>4. ASSUME NEW r \in DOMAIN hier \ {u} PROVE hier'[r] = hier[r]
    <3>1. hier[r] \in Root /\ hier[r].mask \ added = hier[r].mask /\ hier[r].mask \ removed = hier[r].mask
      BY <1>1, <1>8 DEF RootsTypeOK
    <3>2. Rebound(hier, u, added)[r] = [hier[r] EXCEPT !.mask = @ \ added]
      BY DEF Rebound
    <3>3. [hier[r] EXCEPT !.mask = @ \ added] = hier[r]
      BY <3>1 DEF Root
    <3>4. hier'[r] = [hier[r] EXCEPT !.mask = @ \ removed]
      BY <2>2, <3>2, <3>3
    <3> QED BY <3>1, <3>4 DEF Root
  <2> QED BY <2>1, <2>3, <2>4
<1>10. /\ hier'[u].mask = new.mask /\ hier'[u] \in Root
       /\ hier'[u].name = hier[u].name /\ hier'[u].ref = hier[u].ref
       /\ hier'[u].dead = hier[u].dead /\ hier'[u].kid = hier[u].kid
  <2>1. (hier[u].mask \cup added) \ removed = new.mask /\ new.mask \in SUBSET Ctl
    BY <1>4 DEF MountOption
  <2>2. hier'[u] = [hier[u] EXCEPT !.mask = new.mask]
    BY <1>6, <1>9, <2>1
  <2> QED BY <1>6, <2>1, <2>2 DEF Root
<1>11. \A s \in Ctl : home'[s] = IF s \in removed THEN 0 ELSE IF s \in added THEN u ELSE home[s]
  BY <1>5 DEF NewHome
<1>12. RootsTypeOK'
  <2>1. hier' \in [DOMAIN hier' -> Root]
    <3>1. \A r \in DOMAIN hier' : hier'[r] \in Root
      BY <1>1, <1>9, <1>10 DEF RootsTypeOK
    <3>2. hier' = [r \in DOMAIN hier' |-> hier'[r]]
      BY <1>5 DEF Rebound
    <3> QED BY <3>1, <3>2
  <2>2. home' \in [Ctl -> Hier \cup {0}]
    <3>1. home' = [s \in Ctl |-> IF s \in removed THEN 0 ELSE IF s \in added THEN u ELSE home[s]]
      BY <1>5 DEF NewHome
    <3> QED BY <1>1, <1>6, <3>1 DEF RootsTypeOK
  <2> QED BY <1>1, <1>5, <1>9, <2>1, <2>2 DEF RootsTypeOK
<1>13. ControllersBound'
  <2>1. \A s \in Ctl : home'[s] # 0 => home'[s] \in DOMAIN hier'
    BY <1>1, <1>9, <1>11 DEF ControllersBound
  <2>2. hier'[u].mask = {s \in Ctl : home'[s] = u}
    <3>1. hier[u].mask = {s \in Ctl : home[s] = u}
      BY <1>1 DEF ControllersBound
    <3> QED BY <1>4, <1>6, <1>10, <1>11, <3>1 DEF MountOption
  <2>3. \A r \in DOMAIN hier \ {u} : hier'[r].mask = {s \in Ctl : home'[s] = r}
    BY <1>1, <1>6, <1>7, <1>8, <1>9, <1>11 DEF ControllersBound
  <2> QED BY <1>9, <2>1, <2>2, <2>3 DEF ControllersBound
<1>14. RootsDistinct'
  <2>1. hier'[u].name = 0 => hier'[u].mask # {}
    <3>1. new.mask # {} \/ new.name # 0
      BY <1>5 DEF OptionsValid
    <3> QED BY <1>5, <1>10, <3>1
  <2>2. /\ DOMAIN hier' = DOMAIN hier
        /\ \A r \in DOMAIN hier : hier'[r].name = hier[r].name
        /\ \A r \in DOMAIN hier \ {u} : hier'[r].mask = hier[r].mask
    BY <1>9, <1>10
  <2> QED BY <1>1, <2>1, <2>2 DEF RootsDistinct
<1>15. /\ \A r : Holders(r)' = Holders(r) /\ Getters(r)' = Getters(r)
       /\ UsersCounted'
  BY <1>5, SameUsers
<1>16. RefsExact'
  <2>1. RootsThere'
    BY <1>1, <1>5, <1>9 DEF RootsThere
  <2>2. \A r \in DOMAIN hier : Due(r)' = Due(r)
    BY <1>9, <1>10, <1>15 DEF Due
  <2> QED BY <1>1, <1>9, <1>10, <2>1, <2>2, NextRefsAreDue
<1> QED BY <1>12, <1>13, <1>14, <1>15, <1>16 DEF RootsInv

\* What the default hierarchy uses below its root is its own affair.
LEMMA UnusedRoots ==
  ASSUME RootsInv, UNCHANGED <<hier, home, sbs, mnt, killed2>> PROVE RootsInv'
<1>1. RootsTypeOK' /\ ControllersBound' /\ RootsDistinct'
  BY SameShape DEF RootsInv, RootsTypeOK
<1>2. /\ \A r : Holders(r)' = Holders(r) /\ Getters(r)' = Getters(r)
      /\ \A k : Checkers(k)' = Checkers(k)
  BY DEF Holders, Getters, Checkers
<1>3. ~killed2' => UsersCounted'
  BY <1>2 DEF RootsInv, UsersCounted
<1>4. RefsExact'
  <2>1. \A r : Due(r)' = Due(r)
    BY <1>2 DEF Due
  <2>2. RootsThere => RootsThere'
    BY DEF RootsThere
  <2> QED BY <2>1, <2>2, RefsAreDue, NextRefsAreDue DEF RootsInv
<1> QED BY <1>1, <1>3, <1>4 DEF RootsInv

-----------------------------------------------------------------------------
(* The theorem.                                                            *)

\* No hierarchy, no super block, no mount at the start.
LEMMA InitRoots == ASSUME RootsInit PROVE RootsInv
<1>1. DOMAIN hier = {} /\ \A k \in Sb : sbs[k] = NoSb
  BY DEF RootsInit
<1>2. RootsTypeOK
  <2>1. IdleMnt \in Mount
    BY RootsAssumption DEF IdleMnt, NoOption, Mount, MountOption
  <2>2. NoSb \in [st : {"none", "up", "test", "kill", "put"}, act : Int]
    BY DEF NoSb
  <2> QED BY <2>1, <2>2 DEF RootsInit, RootsTypeOK
<1>3. ControllersBound /\ RootsDistinct
  BY <1>1 DEF RootsInit, ControllersBound, RootsDistinct
<1>4. RefsExact
  BY <1>1 DEF RootsInit, RefsExact, NoSb, IdleMnt
<1>5. UsersCounted
  <2>1. \A k : Checkers(k) = {}
    BY DEF RootsInit, Checkers, IdleMnt
  <2>2. \A k \in Sb : sbs[k].st = "none" /\ sbs[k].act = 0
    BY <1>1 DEF NoSb
  <2>3. \A k : Cardinality(Checkers(k)) = 0
    BY <2>1, FS_EmptySet
  <2> QED BY <2>2, <2>3 DEF UsersCounted
<1> QED BY <1>2, <1>3, <1>4, <1>5 DEF RootsInv

\* Every step keeps the invariant.
LEMMA NextRoots == ASSUME RootsInv, [RootsNext]_rootsVars PROVE RootsInv'
<1>1. CASE UNCHANGED rootsVars
  BY <1>1, UnusedRoots DEF rootsVars
<1>2. CASE RootsNext
  <2>1. ~killed2
    BY <1>2 DEF RootsNext
  <2>2. ASSUME NEW p \in Mounter,
               \/ \E o \in Options, n \in Ns : MountCall(p, o, n)
               \/ FindUse(p) \/ FindCreate(p) \/ FindRefused(p)
               \/ MountGet(p) \/ MountGetFails(p) \/ MountCheck(p)
        PROVE  RootsInv'
    BY <2>1, <2>2, MountCallRoots, FindUseRoots, FindCreateRoots, MountGetRoots,
       MountGetFailsRoots, MountCheckRoots
  <2>3. ASSUME NEW k \in Sb,
               Umount(k) \/ KillTest(k) \/ KillRef(k) \/ KillPut(k) \/ (\E o \in Options : Remount(k, o))
        PROVE  RootsInv'
    BY <2>1, <2>3, UmountRoots, KillRefRoots, KillPutRoots, RemountRoots
  <2>4. ASSUME NEW r \in DOMAIN hier, DestroyRoot(r) \/ Child(r) PROVE RootsInv'
    BY <2>1, <2>4, DestroyRootRoots, ChildRoots
  <2>5. ASSUME NEW s \in Ctl, DflUse(s) PROVE RootsInv'
    BY <2>5, UnusedRoots DEF DflUse
  <2> QED BY <1>2, <2>2, <2>3, <2>4, <2>5 DEF RootsNext
<1> QED BY <1>1, <1>2

\* However mounts, remounts, unmounts and the release of roots overlap
\* (cgroup1_get_tree, cgroup1_reconfigure, cgroup_kill_sb, cgroup_destroy_root):
\* every controller is in the one hierarchy that has it in its mask; a root
\* that was not killed twice has exactly the references of its users, so that
\* it is there as long as one of them is; and no two hierarchies answer the
\* same request.
THEOREM RootsStaySound == RootsSpec => []RootsSound
<1>1. RootsInit => RootsInv
  BY InitRoots
<1>2. RootsInv /\ [RootsNext]_rootsVars => RootsInv'
  BY NextRoots
<1>3. RootsInv => RootsSound
  BY DEF RootsInv, RootsSound
<1> QED BY <1>1, <1>2, <1>3, PTL DEF RootsSpec
=============================================================================
