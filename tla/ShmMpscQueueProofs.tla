------------------------- MODULE ShmMpscQueueProofs -------------------------
(***************************************************************************)
(* TLAPS proofs about ShmMpscQueue, for an array of any size, any set of   *)
(* clients, any number of requests, and whichever processes are killed,    *)
(* where they stand.                                                       *)
(***************************************************************************)
EXTENDS ShmMpscQueue, SequenceTheorems, FiniteSetTheorems, TLAPS

ClientPc == {"new", "build", "await", "out", "dead", "alloc", "take", "fill", "push",
             "link", "publish"}
ServerPc == {"new", "build", "await", "out", "dead", "pop", "head", "release", "end",
             "read", "recycle", "join", "return"}
Starting == {"new", "build", "await", "dead"}

\* While the array has not been built everybody is in the constructor, one
\* process at most is building, and the lists are empty.
StartInv ==
  /\ \A c \in Client : qpc[c] \in ClientPc
  /\ qpc[Server] \in ServerPc
  /\ initState = 0 => \A p \in Process : qpc[p] \in {"new", "dead"}
  /\ initState # 2 => /\ \A p \in Process : qpc[p] \in Starting
                      /\ free = <<>> /\ pending = <<>> /\ batch = <<>>
                      /\ pushed = <<>> /\ got = <<>>
  /\ \A p \in Process : qpc[p] = "build" => initState = 1
  /\ \A p, q \in Process : qpc[p] = "build" /\ qpc[q] = "build" => p = q

-----------------------------------------------------------------------------
(* The locks.                                                              *)

\* What the index of a list is when it is not locked.
EmptyFirst  == IF free = <<>> THEN SIZE ELSE free[1]
PendingLast == IF pending = <<>> THEN 0 ELSE pending[Len(pending)]

InEmpty(p)   == qpc[p] \in {"take", "join", "return"}
InPending(p) == qpc[p] \in {"link", "publish", "head", "release"}

\* One process at a time works on a list, and it knows the index it locked.
EmptyInv ==
  /\ initState = 2 => emptyTop \in {EmptyLock, EmptyFirst}
  /\ \A p \in Process : InEmpty(p) => emptyTop = EmptyLock /\ val[p] = EmptyFirst
  /\ \A p, q \in Process : InEmpty(p) /\ InEmpty(q) => p = q

PendingInv ==
  /\ initState = 2 => pendingTail \in {PendingLock, PendingLast}
  /\ \A p \in Process : InPending(p) => pendingTail = PendingLock /\ val[p] = PendingLast
  /\ \A p, q \in Process : InPending(p) /\ InPending(q) => p = q
  /\ \A c \in Client : qpc[c] = "publish" => link[val[c]] = ent[c]

-----------------------------------------------------------------------------
(* The lists.                                                              *)

\* The next fields lead from every entry of s to the next one.
Chained(s) == \A i \in 1 .. Len(s) - 1 : link[s[i]] = s[i + 1]

ChainInv ==
  /\ Chained(free)
  /\ free # <<>> => link[free[Len(free)]] = SIZE
  /\ Chained(pending)
  /\ pending # <<>> => link[0] = pending[1]

Distinct(s) == \A i, j \in 1 .. Len(s) : s[i] = s[j] => i = j
Apart(s, t) == \A i \in 1 .. Len(s), j \in 1 .. Len(t) : s[i] # t[j]
In(e, s)    == \E i \in 1 .. Len(s) : s[i] = e

\* No entry is in two places.
OwnerInv ==
  /\ Distinct(free) /\ Distinct(pending) /\ Distinct(batch)
  /\ Apart(free, pending) /\ Apart(free, batch) /\ Apart(pending, batch)
  /\ \A c \in Holding : /\ ent[c] \in QueueEntry
                        /\ ~In(ent[c], free) /\ ~In(ent[c], pending) /\ ~In(ent[c], batch)
  /\ \A c, d \in Holding : ent[c] = ent[d] => c = d

\* No entry is in none, as long as nobody was killed.
CoverInv ==
  initState = 2 /\ ~Dead =>
    \A e \in QueueEntry : \/ In(e, free) \/ In(e, pending) \/ In(e, batch)
                          \/ \E c \in Holding : ent[c] = e

-----------------------------------------------------------------------------
(* The server and the requests.                                            *)

Popped == {"end", "read", "recycle", "join", "return"}

\* What the server's local variables are in each part of PopAll and Recycle.
ServerInv ==
  LET at == qpc[Server] IN
  /\ at \notin Popped \cup {"dead"} => batch = <<>>
  /\ at = "pop" => pending # <<>> \/ pendingTail = PendingLock
  /\ at \in {"head", "release"} => pending # <<>>
  /\ at = "release" => first = pending[1] /\ ent[Server] = pending[1]
  /\ at \in Popped => batch # <<>> /\ first = batch[1] /\ Chained(batch)
  /\ at = "end" => ent[Server] = batch[1] /\ val[Server] = batch[Len(batch)]
  /\ at = "read" => link[batch[Len(batch)]] = SIZE
  /\ at \in {"recycle", "join", "return"} => ent[Server] = batch[Len(batch)]
  /\ at = "return" => link[batch[Len(batch)]] = val[Server]

\* The requests pushed and not popped, and those popped with them.
Behind == Len(pushed) - Len(pending)

OrderInv ==
  LET at == qpc[Server] IN
  /\ Len(batch) + Len(pending) <= Len(pushed)
  /\ Len(got) <= Len(pushed)
  /\ \A i \in 1 .. Len(got) : got[i] = pushed[i]
  /\ \A i \in 1 .. Len(batch) : data[batch[i]] = pushed[Behind - Len(batch) + i]
  /\ \A i \in 1 .. Len(pending) : data[pending[i]] = pushed[Behind + i]
  /\ at \notin {"end", "read", "dead"} => Len(got) = Behind
  /\ at = "end" => Len(got) = Behind - Len(batch)
  /\ at = "read" => \E k \in 1 .. Len(batch) : /\ ent[Server] = batch[k]
                                               /\ Len(got) = Behind - Len(batch) + k - 1

\* What a client writes is a request.
RequestInv ==
  \A c \in Client : /\ qpc[c] \in {"alloc", "take", "fill"} => sent[c] < MaxPush
                    /\ qpc[c] \in {"push", "link", "publish"} => data[ent[c]] \in QueueRequest

\* The inductive invariant.
QueueInv ==
  /\ QueueTypeOK /\ StartInv /\ EmptyInv /\ PendingInv /\ ChainInv /\ OwnerInv /\ CoverInv
  /\ ServerInv /\ OrderInv /\ RequestInv

-----------------------------------------------------------------------------
(* Facts used by several steps.                                            *)

\* What the type invariant says of the lists, element by element.
LEMMA ListTypes ==
  ASSUME QueueTypeOK
  PROVE  /\ free \in Seq(QueueEntry) /\ pending \in Seq(QueueEntry) /\ batch \in Seq(QueueEntry)
         /\ Len(free) \in Nat /\ Len(pending) \in Nat /\ Len(batch) \in Nat
         /\ \A i \in 1 .. Len(free) : free[i] \in QueueEntry
         /\ \A i \in 1 .. Len(pending) : pending[i] \in QueueEntry
         /\ \A i \in 1 .. Len(batch) : batch[i] \in QueueEntry
         /\ free # <<>> => Len(free) >= 1
         /\ pending # <<>> => Len(pending) >= 1
         /\ batch # <<>> => Len(batch) >= 1
         /\ pushed \in Seq(QueueRequest) /\ got \in Seq(QueueRequest)
         /\ Len(pushed) \in Nat /\ Len(got) \in Nat
<1>1. /\ free \in Seq(QueueEntry) /\ pending \in Seq(QueueEntry) /\ batch \in Seq(QueueEntry)
      /\ pushed \in Seq(QueueRequest) /\ got \in Seq(QueueRequest)
  BY DEF QueueTypeOK
<1> HIDE DEF QueueEntry, QueueRequest
<1>2. ASSUME NEW S, NEW s \in Seq(S)
      PROVE  /\ Len(s) \in Nat
             /\ \A i \in 1 .. Len(s) : s[i] \in S
             /\ s # <<>> => Len(s) >= 1
  BY LenProperties, ElementOfSeq, EmptySeq
<1> QED BY <1>1, <1>2

\* The sequence without its first element.
LEMMA TailElements ==
  ASSUME NEW S, NEW s \in Seq(S), s # <<>>
  PROVE  /\ Tail(s) \in Seq(S) /\ Len(Tail(s)) = Len(s) - 1
         /\ \A i \in 1 .. Len(s) - 1 : Tail(s)[i] = s[i + 1]
         /\ Tail(s) # <<>> => Len(s) >= 2
         /\ Tail(s) = <<>> => Len(s) = 1
<1>1. /\ Tail(s) \in Seq(S) /\ Len(Tail(s)) = Len(s) - 1
      /\ \A i \in 1 .. Len(Tail(s)) : Tail(s)[i] = s[i + 1]
  BY HeadTailProperties
<1>2. Len(s) \in Nat /\ Len(<<>>) = 0
  BY LenProperties, EmptySeq
<1>3. Tail(s) # <<>> => Len(Tail(s)) \in Nat \ {0}
  BY <1>1, EmptySeq
<1>4. Tail(s) # <<>> => Len(s) >= 2
  BY <1>1, <1>2, <1>3
<1>5. Tail(s) = <<>> => Len(s) = 1
  <2>1. Tail(s) = <<>> => Len(Tail(s)) = 0
    BY <1>2
  <2> QED BY <1>1, <1>2, <2>1
<1> QED BY <1>1, <1>4, <1>5

LEMMA TailOwns ==
  ASSUME NEW S, NEW s \in Seq(S), s # <<>>, Distinct(s)
  PROVE  /\ Distinct(Tail(s)) /\ ~In(s[1], Tail(s))
         /\ \A e : In(e, Tail(s)) => In(e, s)
         /\ \A e : In(e, s) => In(e, Tail(s)) \/ e = s[1]
         /\ \A t : Apart(s, t) => Apart(Tail(s), t)
<1>1. Len(s) \in Nat /\ Len(s) >= 1
  BY LenProperties, EmptySeq
<1>2. \A i \in 1 .. Len(s) - 1 : Tail(s)[i] = s[i + 1] /\ i + 1 \in 1 .. Len(s) /\ i + 1 # 1
  BY <1>1, TailElements
<1>3. Len(Tail(s)) = Len(s) - 1
  BY TailElements
<1>4. \A i \in 1 .. Len(s) : i = 1 \/ (i - 1 \in 1 .. Len(s) - 1 /\ i = (i - 1) + 1)
  BY <1>1
<1>5. Distinct(Tail(s))
  BY <1>1, <1>2, <1>3 DEF Distinct
<1>6. ~In(s[1], Tail(s))
  BY <1>1, <1>2, <1>3 DEF Distinct, In
<1>7. \A e : In(e, Tail(s)) => In(e, s)
  BY <1>2, <1>3 DEF In
<1>8. \A e : In(e, s) => In(e, Tail(s)) \/ e = s[1]
  BY <1>2, <1>3, <1>4 DEF In
<1>9. \A t : Apart(s, t) => Apart(Tail(s), t)
  BY <1>2, <1>3 DEF Apart
<1> QED BY <1>5, <1>6, <1>7, <1>8, <1>9

LEMMA AppendOwns ==
  ASSUME NEW S, NEW s \in Seq(S), NEW e \in S, Distinct(s), ~In(e, s)
  PROVE  /\ Distinct(Append(s, e))
         /\ \A t : Apart(t, s) /\ ~In(e, t) => Apart(t, Append(s, e))
         /\ \A t : Apart(s, t) /\ ~In(e, t) => Apart(Append(s, e), t)
<1> DEFINE a == Append(s, e)
<1>1. /\ Len(s) \in Nat /\ Len(a) = Len(s) + 1 /\ a[Len(s) + 1] = e
      /\ \A i \in 1 .. Len(s) : a[i] = s[i]
  BY LenProperties, AppendProperties
<1> HIDE DEF a
<1>2. \A i \in 1 .. Len(a) : i \in 1 .. Len(s) \/ i = Len(s) + 1
  BY <1>1
<1>3. Distinct(a)
  BY <1>1, <1>2 DEF Distinct, In
<1>4. \A t : Apart(t, s) /\ ~In(e, t) => Apart(t, a)
  BY <1>1, <1>2 DEF Apart, In
<1>5. \A t : Apart(s, t) /\ ~In(e, t) => Apart(a, t)
  BY <1>1, <1>2 DEF Apart, In
<1> QED BY <1>3, <1>4, <1>5 DEF a

LEMMA ConcatOwns ==
  ASSUME NEW S, NEW s \in Seq(S), NEW t \in Seq(S), Distinct(s), Distinct(t), Apart(t, s)
  PROVE  /\ Distinct(s \o t)
         /\ \A u : Apart(s, u) /\ Apart(t, u) => Apart(s \o t, u)
         /\ \A u : Apart(u, s) /\ Apart(t, u) => Apart(s \o t, u)
<1> DEFINE c == s \o t
<1>1. /\ Len(s) \in Nat /\ Len(t) \in Nat /\ Len(c) = Len(s) + Len(t)
      /\ \A i \in 1 .. Len(s) + Len(t) : c[i] = IF i <= Len(s) THEN s[i] ELSE t[i - Len(s)]
  BY LenProperties, ConcatProperties
<1> HIDE DEF c
<1>2. \A i \in 1 .. Len(c) : \/ i \in 1 .. Len(s) /\ c[i] = s[i]
                             \/ i - Len(s) \in 1 .. Len(t) /\ i > Len(s) /\ c[i] = t[i - Len(s)]
  BY <1>1
<1>3. ASSUME NEW i \in 1 .. Len(c), NEW j \in 1 .. Len(c), c[i] = c[j]
      PROVE  i = j
  <2>1. CASE i \in 1 .. Len(s) /\ j \in 1 .. Len(s)
    BY <1>1, <1>3, <2>1 DEF Distinct
  <2>2. CASE i > Len(s) /\ j > Len(s)
    <3>1. /\ i - Len(s) \in 1 .. Len(t) /\ j - Len(s) \in 1 .. Len(t)
          /\ t[i - Len(s)] = t[j - Len(s)]
      BY <1>1, <1>2, <1>3, <2>2
    <3>2. i - Len(s) = j - Len(s)
      BY <3>1 DEF Distinct
    <3> QED BY <1>1, <3>2
  <2>3. CASE i \in 1 .. Len(s) /\ j > Len(s)
    BY <1>1, <1>2, <1>3, <2>3 DEF Apart
  <2>4. CASE i > Len(s) /\ j \in 1 .. Len(s)
    BY <1>1, <1>2, <1>3, <2>4 DEF Apart
  <2> QED BY <1>1, <2>1, <2>2, <2>3, <2>4
<1>4. \A u : Apart(s, u) /\ Apart(t, u) => Apart(c, u)
  BY <1>2 DEF Apart
<1>5. \A u : Apart(u, s) /\ Apart(t, u) => Apart(c, u)
  BY <1>2 DEF Apart
<1> QED BY <1>3, <1>4, <1>5 DEF Distinct, c

\* A step that leaves the lists and what clients hold alone keeps the owners.
LEMMA OwnerFrame ==
  ASSUME OwnerInv, free' = free, pending' = pending, batch' = batch,
         \A c \in Holding' : c \in Holding /\ ent'[c] = ent[c]
  PROVE  OwnerInv'
BY DEF OwnerInv

\* A step that leaves the lists alone and makes no client let go of an entry
\* loses none.
LEMMA CoverFrame ==
  ASSUME CoverInv, free' = free, pending' = pending, batch' = batch,
         initState' = 2 /\ ~Dead' =>
           /\ initState = 2 /\ ~Dead
           /\ \A c \in Holding : c \in Holding' /\ ent'[c] = ent[c]
  PROVE  CoverInv'
BY DEF CoverInv

\* A step of a client or of the server finds the array built.
LEMMA Built ==
  ASSUME QueueInv, NEW p \in Process, qpc[p] \notin Starting
  PROVE  initState = 2
BY DEF QueueInv, StartInv

\* The word behind the last pending entry is in no chain.
LEMMA LastPending ==
  ASSUME QueueInv
  PROVE  /\ PendingLast \in 0 .. SIZE - 1
         /\ \A i \in 1 .. Len(free) : free[i] # PendingLast /\ free[i] \in 0 .. SIZE - 1
         /\ \A i \in 1 .. Len(batch) : batch[i] # PendingLast /\ batch[i] \in 0 .. SIZE - 1
         /\ \A i \in 1 .. Len(pending) - 1 : pending[i] # PendingLast /\ pending[i] \in 0 .. SIZE - 1
<1> USE QueueAssumption DEF QueueInv
<1>1. QueueEntry \subseteq 0 .. SIZE - 1 /\ 0 \notin QueueEntry /\ 0 \in 0 .. SIZE - 1
  BY DEF QueueEntry
<1>2. CASE pending = <<>>
  <2>1. PendingLast = 0 /\ Len(pending) = 0
    BY <1>2, EmptySeq DEF PendingLast
  <2>2. \A i \in 1 .. Len(pending) - 1 : FALSE
    BY <2>1
  <2>3. /\ \A i \in 1 .. Len(free) : free[i] \in QueueEntry
        /\ \A i \in 1 .. Len(batch) : batch[i] \in QueueEntry
    BY ListTypes
  <2> QED BY <1>1, <2>1, <2>2, <2>3
<1>3. CASE pending # <<>>
  <2>1. PendingLast = pending[Len(pending)] /\ Len(pending) \in 1 .. Len(pending)
    BY <1>3, ListTypes DEF PendingLast
  <2>2. \A i \in 1 .. Len(pending) - 1 : i \in 1 .. Len(pending) /\ i # Len(pending)
    BY ListTypes
  <2> QED BY <1>1, <2>1, <2>2, ListTypes DEF OwnerInv, Apart, Distinct
<1> QED BY <1>2, <1>3

\* The word behind the last popped entry is in no chain.
LEMMA LastPopped ==
  ASSUME QueueInv, batch # <<>>
  PROVE  /\ batch[Len(batch)] \in QueueEntry /\ batch[Len(batch)] \in 0 .. SIZE - 1
         /\ \A i \in 1 .. Len(free) : free[i] # batch[Len(batch)] /\ free[i] \in 0 .. SIZE - 1
         /\ \A i \in 1 .. Len(pending) : pending[i] # batch[Len(batch)] /\ pending[i] \in 0 .. SIZE - 1
         /\ \A i \in 1 .. Len(batch) - 1 : batch[i] # batch[Len(batch)] /\ batch[i] \in 0 .. SIZE - 1
<1> USE QueueAssumption DEF QueueInv
<1>1. QueueEntry \subseteq 0 .. SIZE - 1
  BY DEF QueueEntry
<1>2. Len(batch) \in 1 .. Len(batch)
  BY ListTypes
<1>3. \A i \in 1 .. Len(batch) - 1 : i \in 1 .. Len(batch) /\ i # Len(batch)
  BY ListTypes
<1> QED BY <1>1, <1>2, <1>3, ListTypes DEF OwnerInv, Apart, Distinct

\* Construct: one process builds.
LEMMA ConstructKeeps ==
  ASSUME QueueInv, NEW p \in Process, Construct(p)
  PROVE  QueueInv'
<1> USE QueueAssumption DEF QueueInv, Construct, QGoto, Process, words, history
<1>a. PICK at \in {"build", "await"} :
        /\ qpc' = [qpc EXCEPT ![p] = at] /\ qpc[p] = "new"
        /\ at = "build" => initState = 0 /\ initState' = 1
        /\ at = "await" => initState # 0 /\ initState' = initState
  BY DEF QueueTypeOK
<1>b. \A q \in Process : qpc'[q] = IF q = p THEN at ELSE qpc[q]
  BY <1>a DEF QueueTypeOK
<1>1. QueueTypeOK'
  <2>1. qpc' \in [Process -> QPc] /\ initState' \in 0 .. 2
    BY <1>a DEF QueueTypeOK, QPc
  <2> QED BY <2>1 DEF QueueTypeOK
<1>2. StartInv'
  BY <1>a, <1>b DEF StartInv, ClientPc, ServerPc, Starting
<1>3. EmptyInv'
  BY <1>a, <1>b DEF EmptyInv, InEmpty, EmptyFirst
<1>4. PendingInv'
  BY <1>a, <1>b DEF PendingInv, InPending, PendingLast
<1>5. ChainInv'
  BY DEF ChainInv, Chained
<1>6. OwnerInv'
  BY <1>b, OwnerFrame DEF Holding
<1>7. CoverInv'
  BY <1>a, <1>b, CoverFrame DEF Holding, Dead
<1>8. ServerInv'
  BY <1>a, <1>b DEF ServerInv, Popped, Chained
<1>9. OrderInv'
  BY <1>a, <1>b DEF OrderInv, Behind
<1>10. RequestInv'
  BY <1>b DEF RequestInv
<1> QED BY <1>1, <1>2, <1>3, <1>4, <1>5, <1>6, <1>7, <1>8, <1>9, <1>10 DEF QueueInv

\* Await.
LEMMA AwaitKeeps ==
  ASSUME QueueInv, NEW p \in Process, Await(p)
  PROVE  QueueInv'
<1> USE QueueAssumption DEF QueueInv, Await, QGoto, Process, words, history
<1>1. QueueTypeOK'
  BY DEF QueueTypeOK, QPc
<1>2. StartInv'
  BY DEF QueueTypeOK, StartInv, ClientPc, ServerPc, Starting
<1>3. EmptyInv'
  BY DEF QueueTypeOK, StartInv, ClientPc, ServerPc, Starting, EmptyInv, InEmpty, EmptyFirst, EmptyLock
<1>4. PendingInv'
  BY DEF QueueTypeOK, StartInv, ClientPc, ServerPc, Starting, PendingInv, InPending, PendingLast, PendingLock
<1>5. ChainInv'
  BY DEF ChainInv, Chained
<1>6. OwnerInv'
  BY OwnerFrame DEF Holding, QueueTypeOK, StartInv, ClientPc, ServerPc, Starting
<1>7. CoverInv'
  BY CoverFrame DEF Holding, Dead, QueueTypeOK, StartInv, ClientPc, ServerPc, Starting
<1>8. ServerInv'
  BY DEF QueueTypeOK, StartInv, ClientPc, ServerPc, Starting, ServerInv, Popped, Chained
<1>9. OrderInv'
  BY DEF QueueTypeOK, StartInv, ClientPc, ServerPc, Starting, OrderInv, Behind
<1>10. RequestInv'
  BY DEF QueueTypeOK, StartInv, ClientPc, ServerPc, Starting, RequestInv
<1> QED BY <1>1, <1>2, <1>3, <1>4, <1>5, <1>6, <1>7, <1>8, <1>9, <1>10 DEF QueueInv

\* A process is killed: what it holds stays where it is.
LEMMA QueueDieKeeps ==
  ASSUME QueueInv, NEW p \in Process, QueueDie(p)
  PROVE  QueueInv'
<1> USE QueueAssumption DEF QueueInv, QueueDie, QGoto, Process, words, history
<1>1. QueueTypeOK'
  BY DEF QueueTypeOK, QPc
<1>2. StartInv'
  BY DEF QueueTypeOK, StartInv, ClientPc, ServerPc, Starting
<1>3. EmptyInv'
  BY DEF QueueTypeOK, StartInv, ClientPc, ServerPc, Starting, EmptyInv, InEmpty, EmptyFirst, EmptyLock
<1>4. PendingInv'
  BY DEF QueueTypeOK, StartInv, ClientPc, ServerPc, Starting, PendingInv, InPending, PendingLast, PendingLock
<1>5. ChainInv'
  BY DEF ChainInv, Chained
<1>6. OwnerInv'
  BY OwnerFrame DEF Holding, QueueTypeOK, StartInv, ClientPc, ServerPc, Starting
<1>7. CoverInv'
  BY CoverFrame DEF Holding, Dead, QueueTypeOK, StartInv, ClientPc, ServerPc, Starting
<1>8. ServerInv'
  BY DEF QueueTypeOK, StartInv, ClientPc, ServerPc, Starting, ServerInv, Popped, Chained
<1>9. OrderInv'
  BY DEF QueueTypeOK, StartInv, ClientPc, ServerPc, Starting, OrderInv, Behind
<1>10. RequestInv'
  BY DEF QueueTypeOK, StartInv, ClientPc, ServerPc, Starting, RequestInv
<1> QED BY <1>1, <1>2, <1>3, <1>4, <1>5, <1>6, <1>7, <1>8, <1>9, <1>10 DEF QueueInv

\* Begin.
LEMMA BeginKeeps ==
  ASSUME QueueInv, NEW c \in Client, Begin(c)
  PROVE  QueueInv'
<1> USE QueueAssumption DEF QueueInv, Begin, QGoto, Process, words, history
<1>1. QueueTypeOK'
  BY DEF QueueTypeOK, QPc
<1>2. StartInv'
  BY DEF QueueTypeOK, StartInv, ClientPc, ServerPc, Starting
<1>3. EmptyInv'
  BY DEF QueueTypeOK, StartInv, ClientPc, ServerPc, Starting, EmptyInv, InEmpty, EmptyFirst, EmptyLock
<1>4. PendingInv'
  BY DEF QueueTypeOK, StartInv, ClientPc, ServerPc, Starting, PendingInv, InPending, PendingLast, PendingLock
<1>5. ChainInv'
  BY DEF ChainInv, Chained
<1>6. OwnerInv'
  BY OwnerFrame DEF Holding, QueueTypeOK, StartInv, ClientPc, ServerPc, Starting
<1>7. CoverInv'
  BY CoverFrame DEF Holding, Dead, QueueTypeOK, StartInv, ClientPc, ServerPc, Starting
<1>8. ServerInv'
  BY DEF QueueTypeOK, StartInv, ClientPc, ServerPc, Starting, ServerInv, Popped, Chained
<1>9. OrderInv'
  BY DEF QueueTypeOK, StartInv, ClientPc, ServerPc, Starting, OrderInv, Behind
<1>10. RequestInv'
  BY DEF QueueTypeOK, StartInv, ClientPc, ServerPc, Starting, RequestInv
<1> QED BY <1>1, <1>2, <1>3, <1>4, <1>5, <1>6, <1>7, <1>8, <1>9, <1>10 DEF QueueInv

\* AllocLock: nobody else has the empty list.
LEMMA AllocLockKeeps ==
  ASSUME QueueInv, NEW c \in Client, AllocLock(c)
  PROVE  QueueInv'
<1> USE QueueAssumption DEF QueueInv, AllocLock, QGoto, Process, words, history, LockEmpty
<1>1. QueueTypeOK'
  BY DEF QueueTypeOK, QPc
<1>2. StartInv'
  BY DEF QueueTypeOK, StartInv, ClientPc, ServerPc, Starting
<1>3. EmptyInv'
  BY DEF QueueTypeOK, StartInv, ClientPc, ServerPc, Starting, EmptyInv, InEmpty, EmptyFirst, EmptyLock
<1>4. PendingInv'
  BY DEF QueueTypeOK, StartInv, ClientPc, ServerPc, Starting, PendingInv, InPending, PendingLast, PendingLock
<1>5. ChainInv'
  BY DEF ChainInv, Chained
<1>6. OwnerInv'
  BY OwnerFrame DEF Holding, QueueTypeOK, StartInv, ClientPc, ServerPc, Starting
<1>7. CoverInv'
  BY CoverFrame DEF Holding, Dead, QueueTypeOK, StartInv, ClientPc, ServerPc, Starting
<1>8. ServerInv'
  BY DEF QueueTypeOK, StartInv, ClientPc, ServerPc, Starting, ServerInv, Popped, Chained
<1>9. OrderInv'
  BY DEF QueueTypeOK, StartInv, ClientPc, ServerPc, Starting, OrderInv, Behind
<1>10. RequestInv'
  BY DEF QueueTypeOK, StartInv, ClientPc, ServerPc, Starting, RequestInv
<1> QED BY <1>1, <1>2, <1>3, <1>4, <1>5, <1>6, <1>7, <1>8, <1>9, <1>10 DEF QueueInv

\* AllocFails: the list was empty and still is.
LEMMA AllocFailsKeeps ==
  ASSUME QueueInv, NEW c \in Client, AllocFails(c)
  PROVE  QueueInv'
<1> USE QueueAssumption DEF QueueInv, AllocFails, QGoto, Process, words, history
<1>1. QueueTypeOK'
  BY DEF QueueTypeOK, QPc
<1>2. StartInv'
  BY DEF QueueTypeOK, StartInv, ClientPc, ServerPc, Starting
<1>3. EmptyInv'
  BY DEF QueueTypeOK, StartInv, ClientPc, ServerPc, Starting, EmptyInv, InEmpty, EmptyFirst, EmptyLock
<1>4. PendingInv'
  BY DEF QueueTypeOK, StartInv, ClientPc, ServerPc, Starting, PendingInv, InPending, PendingLast, PendingLock
<1>5. ChainInv'
  BY DEF ChainInv, Chained
<1>6. OwnerInv'
  BY OwnerFrame DEF Holding, QueueTypeOK, StartInv, ClientPc, ServerPc, Starting
<1>7. CoverInv'
  BY CoverFrame DEF Holding, Dead, QueueTypeOK, StartInv, ClientPc, ServerPc, Starting
<1>8. ServerInv'
  BY DEF QueueTypeOK, StartInv, ClientPc, ServerPc, Starting, ServerInv, Popped, Chained
<1>9. OrderInv'
  BY DEF QueueTypeOK, StartInv, ClientPc, ServerPc, Starting, OrderInv, Behind
<1>10. RequestInv'
  BY DEF QueueTypeOK, StartInv, ClientPc, ServerPc, Starting, RequestInv
<1> QED BY <1>1, <1>2, <1>3, <1>4, <1>5, <1>6, <1>7, <1>8, <1>9, <1>10 DEF QueueInv

\* PushLock: nobody else has the pending list.
LEMMA PushLockKeeps ==
  ASSUME QueueInv, NEW c \in Client, PushLock(c)
  PROVE  QueueInv'
<1> USE QueueAssumption DEF QueueInv, PushLock, QGoto, Process, words, history, LockPending
<1>1. QueueTypeOK'
  <2>1. pendingTail \in 0 .. SIZE
    BY DEF QueueTypeOK
  <2> QED BY <2>1 DEF QueueTypeOK, QPc
<1>2. StartInv'
  BY DEF QueueTypeOK, StartInv, ClientPc, ServerPc, Starting
<1>3. EmptyInv'
  BY DEF QueueTypeOK, StartInv, ClientPc, ServerPc, Starting, EmptyInv, InEmpty, EmptyFirst, EmptyLock
<1>4. PendingInv'
  BY DEF QueueTypeOK, StartInv, ClientPc, ServerPc, Starting, PendingInv, InPending, PendingLast, PendingLock
<1>5. ChainInv'
  BY DEF ChainInv, Chained
<1>6. OwnerInv'
  BY OwnerFrame DEF Holding, QueueTypeOK, StartInv, ClientPc, ServerPc, Starting
<1>7. CoverInv'
  BY CoverFrame DEF Holding, Dead, QueueTypeOK, StartInv, ClientPc, ServerPc, Starting
<1>8. ServerInv'
  BY DEF QueueTypeOK, StartInv, ClientPc, ServerPc, Starting, ServerInv, Popped, Chained
<1>9. OrderInv'
  BY DEF QueueTypeOK, StartInv, ClientPc, ServerPc, Starting, OrderInv, Behind
<1>10. RequestInv'
  BY DEF QueueTypeOK, StartInv, ClientPc, ServerPc, Starting, RequestInv
<1> QED BY <1>1, <1>2, <1>3, <1>4, <1>5, <1>6, <1>7, <1>8, <1>9, <1>10 DEF QueueInv

\* PopCheck: what is not 0 is a tail or a lock.
LEMMA PopCheckKeeps ==
  ASSUME QueueInv, PopCheck
  PROVE  QueueInv'
<1> USE QueueAssumption DEF QueueInv, PopCheck, QGoto, Process, words, history
<1>1. QueueTypeOK'
  BY DEF QueueTypeOK, QPc
<1>2. StartInv'
  BY DEF QueueTypeOK, StartInv, ClientPc, ServerPc, Starting
<1>3. EmptyInv'
  BY DEF QueueTypeOK, StartInv, ClientPc, ServerPc, Starting, EmptyInv, InEmpty, EmptyFirst, EmptyLock
<1>4. PendingInv'
  BY DEF QueueTypeOK, StartInv, ClientPc, ServerPc, Starting, PendingInv, InPending, PendingLast, PendingLock
<1>5. ChainInv'
  BY DEF ChainInv, Chained
<1>6. OwnerInv'
  BY OwnerFrame DEF Holding, QueueTypeOK, StartInv, ClientPc, ServerPc, Starting
<1>7. CoverInv'
  BY CoverFrame DEF Holding, Dead, QueueTypeOK, StartInv, ClientPc, ServerPc, Starting
<1>8. ServerInv'
  <2>1. pending # <<>> \/ pendingTail = PendingLock
    BY DEF PendingInv, PendingLast, StartInv, Starting
  <2>2. qpc'[Server] = "pop"
    BY DEF QueueTypeOK
  <2> QED BY <2>1, <2>2 DEF ServerInv, Popped, Chained
<1>9. OrderInv'
  BY DEF QueueTypeOK, StartInv, ClientPc, ServerPc, Starting, OrderInv, Behind
<1>10. RequestInv'
  BY DEF QueueTypeOK, StartInv, ClientPc, ServerPc, Starting, RequestInv
<1> QED BY <1>1, <1>2, <1>3, <1>4, <1>5, <1>6, <1>7, <1>8, <1>9, <1>10 DEF QueueInv

\* PopLock: the list has not been emptied since PopCheck.
LEMMA PopLockKeeps ==
  ASSUME QueueInv, PopLock
  PROVE  QueueInv'
<1> USE QueueAssumption DEF QueueInv, PopLock, QGoto, Process, words, history, LockPending
<1>1. QueueTypeOK'
  <2>1. pendingTail \in 0 .. SIZE
    BY DEF QueueTypeOK
  <2> QED BY <2>1 DEF QueueTypeOK, QPc
<1>2. StartInv'
  BY DEF QueueTypeOK, StartInv, ClientPc, ServerPc, Starting
<1>3. EmptyInv'
  BY DEF QueueTypeOK, StartInv, ClientPc, ServerPc, Starting, EmptyInv, InEmpty, EmptyFirst, EmptyLock
<1>4. PendingInv'
  BY DEF QueueTypeOK, StartInv, ClientPc, ServerPc, Starting, PendingInv, InPending, PendingLast, PendingLock
<1>5. ChainInv'
  BY DEF ChainInv, Chained
<1>6. OwnerInv'
  BY OwnerFrame DEF Holding, QueueTypeOK, StartInv, ClientPc, ServerPc, Starting
<1>7. CoverInv'
  BY CoverFrame DEF Holding, Dead, QueueTypeOK, StartInv, ClientPc, ServerPc, Starting
<1>8. ServerInv'
  BY DEF QueueTypeOK, StartInv, ClientPc, ServerPc, Starting, ServerInv, Popped, Chained
<1>9. OrderInv'
  BY DEF QueueTypeOK, StartInv, ClientPc, ServerPc, Starting, OrderInv, Behind
<1>10. RequestInv'
  BY DEF QueueTypeOK, StartInv, ClientPc, ServerPc, Starting, RequestInv
<1> QED BY <1>1, <1>2, <1>3, <1>4, <1>5, <1>6, <1>7, <1>8, <1>9, <1>10 DEF QueueInv

\* PopHead: entries[0].next is the first pending entry.
LEMMA PopHeadKeeps ==
  ASSUME QueueInv, PopHead
  PROVE  QueueInv'
<1> USE QueueAssumption DEF QueueInv, PopHead, QGoto, Process, words, history
<1>1. QueueTypeOK'
  <2>1. link[0] \in 0 .. SIZE
    BY DEF QueueTypeOK
  <2> QED BY <2>1 DEF QueueTypeOK, QPc
<1>2. StartInv'
  BY DEF QueueTypeOK, StartInv, ClientPc, ServerPc, Starting
<1>3. EmptyInv'
  BY DEF QueueTypeOK, StartInv, ClientPc, ServerPc, Starting, EmptyInv, InEmpty, EmptyFirst, EmptyLock
<1>4. PendingInv'
  BY DEF QueueTypeOK, StartInv, ClientPc, ServerPc, Starting, PendingInv, InPending, PendingLast, PendingLock
<1>5. ChainInv'
  BY DEF ChainInv, Chained
<1>6. OwnerInv'
  BY OwnerFrame DEF Holding, QueueTypeOK, StartInv, ClientPc, ServerPc, Starting
<1>7. CoverInv'
  BY CoverFrame DEF Holding, Dead, QueueTypeOK, StartInv, ClientPc, ServerPc, Starting
<1>8. ServerInv'
  <2>1. pending # <<>> /\ link[0] = pending[1] /\ batch = <<>>
    BY DEF ServerInv, Popped, ChainInv
  <2>2. qpc'[Server] = "release" /\ ent'[Server] = link[0]
    BY DEF QueueTypeOK
  <2> QED BY <2>1, <2>2 DEF ServerInv, Popped, Chained
<1>9. OrderInv'
  BY DEF QueueTypeOK, StartInv, ClientPc, ServerPc, Starting, OrderInv, Behind
<1>10. RequestInv'
  BY DEF QueueTypeOK, StartInv, ClientPc, ServerPc, Starting, RequestInv
<1> QED BY <1>1, <1>2, <1>3, <1>4, <1>5, <1>6, <1>7, <1>8, <1>9, <1>10 DEF QueueInv

\* RecycleLock.
LEMMA RecycleLockKeeps ==
  ASSUME QueueInv, RecycleLock
  PROVE  QueueInv'
<1> USE QueueAssumption DEF QueueInv, RecycleLock, QGoto, Process, words, history, LockEmpty
<1>1. QueueTypeOK'
  BY DEF QueueTypeOK, QPc
<1>2. StartInv'
  BY DEF QueueTypeOK, StartInv, ClientPc, ServerPc, Starting
<1>3. EmptyInv'
  BY DEF QueueTypeOK, StartInv, ClientPc, ServerPc, Starting, EmptyInv, InEmpty, EmptyFirst, EmptyLock
<1>4. PendingInv'
  BY DEF QueueTypeOK, StartInv, ClientPc, ServerPc, Starting, PendingInv, InPending, PendingLast, PendingLock
<1>5. ChainInv'
  BY DEF ChainInv, Chained
<1>6. OwnerInv'
  BY OwnerFrame DEF Holding, QueueTypeOK, StartInv, ClientPc, ServerPc, Starting
<1>7. CoverInv'
  BY CoverFrame DEF Holding, Dead, QueueTypeOK, StartInv, ClientPc, ServerPc, Starting
<1>8. ServerInv'
  BY DEF QueueTypeOK, StartInv, ClientPc, ServerPc, Starting, ServerInv, Popped, Chained
<1>9. OrderInv'
  BY DEF QueueTypeOK, StartInv, ClientPc, ServerPc, Starting, OrderInv, Behind
<1>10. RequestInv'
  BY DEF QueueTypeOK, StartInv, ClientPc, ServerPc, Starting, RequestInv
<1> QED BY <1>1, <1>2, <1>3, <1>4, <1>5, <1>6, <1>7, <1>8, <1>9, <1>10 DEF QueueInv

\* AllocTakes: the first empty entry goes to the client.
LEMMA AllocTakesKeeps ==
  ASSUME QueueInv, NEW c \in Client, AllocTakes(c)
  PROVE  QueueInv'
<1> USE QueueAssumption DEF QueueInv, AllocTakes, QGoto, Process, words, history
<1>a. /\ val[c] = free[1] /\ free # <<>> /\ initState = 2
      /\ \A p \in Process : InEmpty(p) => p = c
  BY DEF EmptyInv, InEmpty, EmptyFirst, StartInv, Starting
<1>b. /\ Tail(free) \in Seq(QueueEntry) /\ Len(Tail(free)) = Len(free) - 1
      /\ \A i \in 1 .. Len(free) - 1 : Tail(free)[i] = free[i + 1]
      /\ Tail(free) # <<>> => Len(free) >= 2
      /\ Tail(free) = <<>> => Len(free) = 1
  BY <1>a, ListTypes, TailElements
<1>c. Holding' = Holding \cup {c} /\ c \notin Holding /\ c # Server
  <2>1. \A d \in Client : qpc'[d] = IF d = c THEN "fill" ELSE qpc[d]
    BY DEF QueueTypeOK
  <2> QED BY <2>1 DEF Holding
<1>d. ent' = [ent EXCEPT ![c] = free[1]] /\ free[1] \in QueueEntry
  BY <1>a, ListTypes
<1>1. QueueTypeOK'
  <2>1. emptyTop' \in 0 .. SIZE
    <3>1. free[1] \in 0 .. SIZE - 1
      BY <1>d DEF QueueEntry
    <3> QED BY <1>a, <3>1 DEF QueueTypeOK
  <2>2. free[1] \in 0 .. SIZE
    BY <1>d DEF QueueEntry
  <2>3. ent' \in [Process -> 0 .. SIZE] /\ qpc' \in [Process -> QPc]
    BY <1>d, <2>2 DEF QueueTypeOK, QPc
  <2> QED BY <1>b, <2>1, <2>3 DEF QueueTypeOK
<1>2. StartInv'
  BY DEF QueueTypeOK, StartInv, ClientPc, ServerPc, Starting
<1>3. EmptyInv'
  <2>1. link[free[1]] = IF Tail(free) = <<>> THEN SIZE ELSE Tail(free)[1]
    <3>1. CASE Tail(free) = <<>>
      BY <1>a, <1>b, <3>1 DEF ChainInv
    <3>2. CASE Tail(free) # <<>>
      <4>1. 1 \in 1 .. Len(free) - 1 /\ Tail(free)[1] = free[1 + 1]
        BY <1>b, <3>2, ListTypes
      <4> QED BY <3>2, <4>1 DEF ChainInv, Chained
    <3> QED BY <3>1, <3>2
  <2>2. emptyTop' = EmptyFirst'
    BY <1>a, <2>1 DEF EmptyFirst
  <2>3. \A p \in Process : ~InEmpty(p)'
    BY <1>a DEF InEmpty, QueueTypeOK
  <2> QED BY <2>2, <2>3 DEF EmptyInv
<1>4. PendingInv'
  BY DEF QueueTypeOK, StartInv, ClientPc, ServerPc, Starting, PendingInv, InPending, PendingLast, PendingLock
<1>5. ChainInv'
  <2>1. Chained(free)'
    <3>1. ASSUME NEW i \in 1 .. Len(free') - 1
          PROVE  link[free'[i]] = free'[i + 1]
      <4>1. Len(free) \in Nat
        BY ListTypes
      <4>2. i \in 1 .. Len(free) - 1 /\ i + 1 \in 1 .. Len(free) - 1
        BY <1>b, <3>1, <4>1
      <4>3. free'[i] = free[i + 1] /\ free'[i + 1] = free[(i + 1) + 1]
        BY <1>b, <4>2
      <4>4. link[free[i + 1]] = free[(i + 1) + 1]
        BY <4>2 DEF ChainInv, Chained
      <4> QED BY <4>3, <4>4
    <3>2. link' = link
      OBVIOUS
    <3> QED BY <3>1, <3>2 DEF Chained
  <2>2. free' # <<>> => link'[free'[Len(free')]] = SIZE
    BY <1>b, ListTypes DEF ChainInv
  <2> QED BY <2>1, <2>2 DEF ChainInv, Chained
<1>6. OwnerInv'
  <2>1. 1 \in 1 .. Len(free)
    BY <1>a, ListTypes
  <2>2. /\ Distinct(free)' /\ Apart(free, pending)' /\ Apart(free, batch)' /\ ~In(free[1], free')
        /\ \A e : In(e, free') => In(e, free)
    BY <1>a, ListTypes, TailOwns DEF OwnerInv
  <2>3. ~In(free[1], pending) /\ ~In(free[1], batch)
    BY <2>1 DEF OwnerInv, Apart, In
  <2>4. \A d \in Holding : ent[d] # free[1] /\ ent'[d] = ent[d]
    <3>1. \A d \in Holding : ent[d] # free[1] /\ d # c
      BY <1>c, <2>1 DEF OwnerInv, In
    <3> QED BY <1>d, <3>1 DEF QueueTypeOK
  <2>5. ent'[c] = free[1]
    BY <1>d DEF QueueTypeOK
  <2> QED BY <1>c, <1>d, <2>2, <2>4, <2>5, <2>3 DEF OwnerInv
<1>7. CoverInv'
  <2>1. \A e : In(e, free) => In(e, free') \/ e = free[1]
    BY <1>a, ListTypes, TailOwns DEF OwnerInv
  <2>2. ent'[c] = free[1] /\ \A d \in Holding : ent'[d] = ent[d]
    BY <1>c, <1>d DEF QueueTypeOK
  <2>3. Dead => Dead'
    BY DEF Dead, QueueTypeOK
  <2> QED BY <1>a, <1>c, <2>1, <2>2, <2>3 DEF CoverInv
<1>8. ServerInv'
  BY DEF QueueTypeOK, StartInv, ClientPc, ServerPc, Starting, ServerInv, Popped, Chained
<1>9. OrderInv'
  BY DEF QueueTypeOK, StartInv, ClientPc, ServerPc, Starting, OrderInv, Behind
<1>10. RequestInv'
  BY DEF QueueTypeOK, StartInv, ClientPc, ServerPc, Starting, RequestInv
<1> QED BY <1>1, <1>2, <1>3, <1>4, <1>5, <1>6, <1>7, <1>8, <1>9, <1>10 DEF QueueInv

\* The place of the i-th of a entries, in front of which c - b - a are.
LEMMA Within ==
  ASSUME NEW a \in Nat, NEW b \in Nat, NEW c \in Nat, a + b <= c
  PROVE  \A i \in 1 .. a : (c - b) - a + i \in 1 .. c
OBVIOUS

\* Fill: the entry written is in no list.
LEMMA FillKeeps ==
  ASSUME QueueInv, NEW c \in Client, Fill(c)
  PROVE  QueueInv'
<1> USE QueueAssumption DEF QueueInv, Fill, QGoto, Process, words, history
<1>a. c \in Holding /\ ent[c] \in QueueEntry /\ c # Server
  BY DEF Holding, OwnerInv
<1>b. /\ data'[ent[c]] = <<c, sent[c] + 1>> /\ data'[ent[c]] \in QueueRequest
      /\ sent[c] + 1 \in 1 .. MaxPush
  <2>1. sent[c] + 1 \in 1 .. MaxPush
    <3>1. sent[c] < MaxPush /\ sent[c] \in 0 .. MaxPush
      BY DEF RequestInv, QueueTypeOK
    <3> QED BY <3>1
  <2>2. data'[ent[c]] = <<c, sent[c] + 1>>
    BY <1>a DEF QueueTypeOK
  <2> QED BY <2>1, <2>2 DEF QueueRequest
<1>c. \A e \in QueueEntry : e # ent[c] => data'[e] = data[e]
  BY DEF QueueTypeOK
<1>1. QueueTypeOK'
  <2>1. data' \in [QueueEntry -> QueueRequest \cup {NoRequest}]
    BY <1>a, <1>b DEF QueueTypeOK
  <2>2. sent' \in [Client -> 0 .. MaxPush]
    <3>1. sent[c] + 1 \in 0 .. MaxPush
      BY <1>b
    <3> QED BY <3>1 DEF QueueTypeOK
  <2>3. qpc' \in [Process -> QPc]
    BY DEF QueueTypeOK, QPc
  <2> QED BY <2>1, <2>2, <2>3 DEF QueueTypeOK
<1>2. StartInv'
  BY DEF QueueTypeOK, StartInv, ClientPc, ServerPc, Starting
<1>3. EmptyInv'
  BY DEF QueueTypeOK, StartInv, ClientPc, ServerPc, Starting, EmptyInv, InEmpty, EmptyFirst, EmptyLock
<1>4. PendingInv'
  BY DEF QueueTypeOK, StartInv, ClientPc, ServerPc, Starting, PendingInv, InPending, PendingLast, PendingLock
<1>5. ChainInv'
  BY DEF ChainInv, Chained
<1>6. OwnerInv'
  BY OwnerFrame DEF Holding, QueueTypeOK, StartInv, ClientPc, ServerPc, Starting
<1>7. CoverInv'
  BY CoverFrame DEF Holding, Dead, QueueTypeOK, StartInv, ClientPc, ServerPc, Starting
<1>8. ServerInv'
  BY DEF QueueTypeOK, StartInv, ClientPc, ServerPc, Starting, ServerInv, Popped, Chained
<1>9. OrderInv'
  <2>1. /\ \A i \in 1 .. Len(batch) : data'[batch[i]] = data[batch[i]]
        /\ \A i \in 1 .. Len(pending) : data'[pending[i]] = data[pending[i]]
    BY <1>a, <1>c, ListTypes DEF OwnerInv, In
  <2>2. qpc'[Server] = qpc[Server]
    BY <1>a DEF QueueTypeOK
  <2>3. Behind' = Behind /\ UNCHANGED <<batch, pending, pushed, got, ent>>
    BY DEF Behind
  <2>4. OrderInv
    OBVIOUS
  <2> HIDE DEF QueueInv, Fill, QGoto, Process, words, history
  <2> QED BY <2>1, <2>2, <2>3, <2>4 DEF OrderInv
<1>10. RequestInv'
  <2>1. \A d \in Client : qpc[d] \in {"push", "link", "publish"} => d \in Holding /\ ent[d] # ent[c]
    BY <1>a DEF Holding, OwnerInv
  <2>2. ASSUME NEW d \in Client, d # c
        PROVE  /\ qpc'[d] \in {"alloc", "take", "fill"} => sent'[d] < MaxPush
               /\ qpc'[d] \in {"push", "link", "publish"} => data'[ent'[d]] \in QueueRequest
    BY <1>c, <2>1, <2>2 DEF RequestInv, OwnerInv, QueueTypeOK
  <2>3. qpc'[c] = "push"
    BY DEF QueueTypeOK
  <2> QED BY <1>b, <2>2, <2>3 DEF RequestInv
<1> QED BY <1>1, <1>2, <1>3, <1>4, <1>5, <1>6, <1>7, <1>8, <1>9, <1>10 DEF QueueInv

\* PushLink: the word written is the head or the last pending entry's.
LEMMA PushLinkKeeps ==
  ASSUME QueueInv, NEW c \in Client, PushLink(c)
  PROVE  QueueInv'
<1> USE QueueAssumption DEF QueueInv, PushLink, QGoto, Process, words, history
<1>a. /\ c \in Holding /\ ent[c] \in QueueEntry /\ c # Server
      /\ val[c] = PendingLast /\ pendingTail = PendingLock
      /\ \A p \in Process : InPending(p) => p = c
  BY DEF Holding, OwnerInv, PendingInv, InPending
<1>b. /\ \A e \in 0 .. SIZE - 1 : e # val[c] => link'[e] = link[e]
      /\ link'[val[c]] = ent[c] /\ val[c] \in 0 .. SIZE - 1
  <2>1. val[c] \in 0 .. SIZE - 1
    BY <1>a, LastPending
  <2> QED BY <2>1 DEF QueueTypeOK
<1>c. /\ \A i \in 1 .. Len(free) : free[i] # val[c] /\ free[i] \in 0 .. SIZE - 1
      /\ \A i \in 1 .. Len(batch) : batch[i] # val[c] /\ batch[i] \in 0 .. SIZE - 1
      /\ \A i \in 1 .. Len(pending) - 1 : pending[i] # val[c] /\ pending[i] \in 0 .. SIZE - 1
  BY <1>a, LastPending
<1>1. QueueTypeOK'
  BY <1>a DEF QueueTypeOK, QPc, QueueEntry
<1>2. StartInv'
  BY DEF QueueTypeOK, StartInv, ClientPc, ServerPc, Starting
<1>3. EmptyInv'
  BY DEF QueueTypeOK, StartInv, ClientPc, ServerPc, Starting, EmptyInv, InEmpty, EmptyFirst, EmptyLock
<1>4. PendingInv'
  <2>1. \A p \in Process : qpc'[p] = IF p = c THEN "publish" ELSE qpc[p]
    BY DEF QueueTypeOK
  <2> QED BY <1>a, <1>b, <2>1 DEF PendingInv, InPending, PendingLast
<1>5. ChainInv'
  <2>1. Len(free) \in Nat /\ Len(pending) \in Nat
    BY ListTypes
  <2>2. Chained(free)'
    BY <1>b, <1>c, <2>1 DEF ChainInv, Chained
  <2>3. Chained(pending)'
    BY <1>b, <1>c, <2>1 DEF ChainInv, Chained
  <2>4. free # <<>> => link'[free[Len(free)]] = SIZE
    BY <1>b, <1>c, ListTypes DEF ChainInv
  <2>5. pending # <<>> => link'[0] = pending[1]
    BY <1>a, <1>b, ListTypes DEF ChainInv, PendingLast, QueueEntry
  <2> QED BY <2>2, <2>4, <2>5, <2>3 DEF ChainInv
<1>6. OwnerInv'
  BY OwnerFrame DEF Holding, QueueTypeOK, StartInv, ClientPc, ServerPc, Starting
<1>7. CoverInv'
  BY CoverFrame DEF Holding, Dead, QueueTypeOK, StartInv, ClientPc, ServerPc, Starting
<1>8. ServerInv'
  <2>1. Chained(batch) => Chained(batch)'
    <3>1. \A i \in 1 .. Len(batch) - 1 : i \in 1 .. Len(batch)
      BY ListTypes
    <3> QED BY <1>b, <1>c, <3>1 DEF Chained
  <2>2. batch # <<>> => link'[batch[Len(batch)]] = link[batch[Len(batch)]]
    BY <1>b, <1>c, ListTypes
  <2>3. qpc'[Server] = qpc[Server]
    BY <1>a DEF QueueTypeOK
  <2> QED BY <2>1, <2>2, <2>3 DEF ServerInv, Popped
<1>9. OrderInv'
  BY DEF QueueTypeOK, StartInv, ClientPc, ServerPc, Starting, OrderInv, Behind
<1>10. RequestInv'
  BY DEF QueueTypeOK, StartInv, ClientPc, ServerPc, Starting, RequestInv
<1> QED BY <1>1, <1>2, <1>3, <1>4, <1>5, <1>6, <1>7, <1>8, <1>9, <1>10 DEF QueueInv

\* PushPublish: the entry is the last of the pending list.
LEMMA PushPublishKeeps ==
  ASSUME QueueInv, NEW c \in Client, PushPublish(c)
  PROVE  QueueInv'
<1> USE QueueAssumption DEF QueueInv, PushPublish, QGoto, Process, words, history
<1>a. /\ c \in Holding /\ ent[c] \in QueueEntry /\ c # Server
      /\ val[c] = PendingLast /\ link[PendingLast] = ent[c] /\ initState = 2
      /\ \A p \in Process : InPending(p) => p = c
      /\ data[ent[c]] \in QueueRequest
  BY DEF Holding, OwnerInv, PendingInv, InPending, StartInv, Starting, RequestInv
<1>b. /\ pending' \in Seq(QueueEntry) /\ pending' # <<>> /\ Len(pending') = Len(pending) + 1
      /\ \A i \in 1 .. Len(pending) : pending'[i] = pending[i]
      /\ pending'[Len(pending) + 1] = ent[c]
  <2>1. pending \in Seq(QueueEntry) /\ pending' = Append(pending, ent[c])
    BY ListTypes
  <2> QED BY <1>a, <2>1, AppendProperties
<1>c. /\ pushed' \in Seq(QueueRequest) /\ Len(pushed') = Len(pushed) + 1
      /\ \A i \in 1 .. Len(pushed) : pushed'[i] = pushed[i]
      /\ pushed'[Len(pushed) + 1] = data[ent[c]]
  BY <1>a, ListTypes, AppendProperties
<1>d. Holding' = Holding \ {c}
  BY DEF Holding, QueueTypeOK
<1>e. \A p \in Process : qpc'[p] = IF p = c THEN "out" ELSE qpc[p]
  BY DEF QueueTypeOK
<1>f. PendingLast' = ent[c]
  BY <1>b, ListTypes DEF PendingLast
<1>1. QueueTypeOK'
  <2>1. pendingTail' \in 0 .. SIZE - 1
    BY <1>a DEF QueueEntry
  <2>2. {pending', batch', free'} \subseteq Seq(QueueEntry)
    BY <1>b, ListTypes
  <2>3. {pushed', got'} \subseteq Seq(QueueRequest)
    BY <1>c, ListTypes
  <2>4. qpc' \in [Process -> QPc]
    BY DEF QueueTypeOK, QPc
  <2> QED BY <2>1, <2>2, <2>3, <2>4 DEF QueueTypeOK
<1>2. StartInv'
  BY DEF QueueTypeOK, StartInv, ClientPc, ServerPc, Starting
<1>3. EmptyInv'
  BY DEF QueueTypeOK, StartInv, ClientPc, ServerPc, Starting, EmptyInv, InEmpty, EmptyFirst, EmptyLock
<1>4. PendingInv'
  BY <1>a, <1>e, <1>f DEF PendingInv, InPending
<1>5. ChainInv'
  <2>1. ASSUME NEW i \in 1 .. Len(pending') - 1
        PROVE  link[pending'[i]] = pending'[i + 1]
    <3>1. CASE i = Len(pending)
      <4>1. PendingLast = pending[i] /\ pending'[i] = pending[i]
        BY <1>b, <2>1, <3>1, ListTypes, EmptySeq DEF PendingLast
      <4> QED BY <1>a, <1>b, <3>1, <4>1
    <3>2. CASE i # Len(pending)
      <4>1. /\ i \in 1 .. Len(pending) - 1
            /\ pending'[i] = pending[i] /\ pending'[i + 1] = pending[i + 1]
        BY <1>b, <2>1, <3>2, ListTypes
      <4> QED BY <4>1 DEF ChainInv, Chained
    <3> QED BY <3>1, <3>2
  <2>2. link[0] = pending'[1]
    BY <1>a, <1>b, ListTypes, EmptySeq DEF ChainInv, PendingLast
  <2>3. link' = link
    OBVIOUS
  <2> QED BY <2>1, <2>2, <2>3 DEF ChainInv, Chained
<1>6. OwnerInv'
  <2>1. /\ Distinct(pending)' /\ Apart(free, pending)' /\ Apart(pending, batch)'
    BY <1>a, ListTypes, AppendOwns DEF OwnerInv
  <2>2. \A d \in Holding' : d \in Holding /\ ent[d] # ent[c]
    BY <1>a, <1>d DEF OwnerInv
  <2>3. \A d \in Holding' : ~In(ent[d], pending')
    BY <1>b, <2>2, ListTypes DEF OwnerInv, In
  <2> QED BY <2>1, <2>2, <2>3 DEF OwnerInv
<1>7. CoverInv'
  <2>1. \A e : In(e, pending) => In(e, pending')
    BY <1>b, ListTypes DEF In
  <2>2. In(ent[c], pending')
    <3>1. Len(pending) + 1 \in 1 .. Len(pending')
      BY <1>b, ListTypes
    <3> QED BY <1>b, <3>1 DEF In
  <2>3. Dead => Dead'
    BY <1>e DEF Dead
  <2> QED BY <1>a, <1>d, <2>1, <2>2, <2>3 DEF CoverInv
<1>8. ServerInv'
  <2>1. qpc'[Server] = qpc[Server] /\ ~InPending(Server)
    BY <1>a, <1>e
  <2> QED BY <1>b, <2>1 DEF ServerInv, Popped, Chained, InPending
<1>9. OrderInv'
  <2>1. Behind' = Behind /\ Behind \in Int
    BY <1>b, <1>c, ListTypes DEF Behind
  <2>2. \A i \in 1 .. Len(pending') : data[pending'[i]] = pushed'[Behind + i]
    <3>1. \A i \in 1 .. Len(pending) : Behind + i \in 1 .. Len(pushed) /\ data[pending[i]] = pushed[Behind + i]
      <4>1. Len(pending) <= Len(pushed)
        BY ListTypes DEF OrderInv
      <4>2. \A i \in 1 .. Len(pending) : Behind + i \in 1 .. Len(pushed)
        BY <4>1, ListTypes DEF Behind
      <4> QED BY <4>2 DEF OrderInv
    <3>2. Behind + (Len(pending) + 1) = Len(pushed) + 1
      BY ListTypes DEF Behind
    <3>3. \A i \in 1 .. Len(pending') : i \in 1 .. Len(pending) \/ i = Len(pending) + 1
      BY <1>b, ListTypes
    <3> QED BY <1>b, <1>c, <3>1, <3>2, <3>3
  <2>3. \A i \in 1 .. Len(batch) : data[batch[i]] = pushed'[Behind - Len(batch) + i]
    <3>1. \A i \in 1 .. Len(batch) : Behind - Len(batch) + i \in 1 .. Len(pushed)
      <4>1. Len(batch) + Len(pending) <= Len(pushed)
        BY DEF OrderInv
      <4>2. Len(batch) \in Nat /\ Len(pending) \in Nat /\ Len(pushed) \in Nat
        BY ListTypes
      <4> QED BY <4>1, <4>2, Within DEF Behind
    <3> QED BY <1>c, <3>1 DEF OrderInv
  <2>4. \A i \in 1 .. Len(got) : got[i] = pushed'[i]
    BY <1>c, ListTypes DEF OrderInv
  <2>5. qpc'[Server] = qpc[Server]
    BY <1>a, <1>e
  <2>6. Len(batch) + Len(pending') <= Len(pushed') /\ Len(got) <= Len(pushed')
    <3>1. /\ Len(batch) \in Nat /\ Len(pending) \in Nat
          /\ Len(pushed) \in Nat /\ Len(got) \in Nat
      BY ListTypes
    <3>2. Len(batch) + Len(pending) <= Len(pushed) /\ Len(got) <= Len(pushed)
      BY DEF OrderInv
    <3> HIDE DEF QueueInv, PushPublish, QGoto, Process, words, history
    <3> QED BY <1>b, <1>c, <3>1, <3>2
  <2> QED BY <2>1, <2>2, <2>3, <2>4, <2>5, <2>6 DEF OrderInv
<1>10. RequestInv'
  BY <1>e DEF RequestInv
<1> QED BY <1>1, <1>2, <1>3, <1>4, <1>5, <1>6, <1>7, <1>8, <1>9, <1>10 DEF QueueInv

\* PopRelease: the pending list becomes the batch.
LEMMA PopReleaseKeeps ==
  ASSUME QueueInv, PopRelease
  PROVE  QueueInv'
<1> USE QueueAssumption DEF QueueInv, PopRelease, QGoto, Process, words, history
<1>a. /\ batch = <<>> /\ pending # <<>> /\ first = pending[1] /\ ent[Server] = pending[1]
      /\ val[Server] = PendingLast /\ initState = 2
      /\ \A p \in Process : InPending(p) => p = Server
  BY DEF ServerInv, Popped, PendingInv, InPending, StartInv, Starting
<1>b. \A p \in Process : qpc'[p] = IF p = Server THEN "end" ELSE qpc[p]
  BY DEF QueueTypeOK
<1>c. Holding' = Holding /\ ent' = ent
  BY <1>b DEF Holding
<1>d. Len(<<>>) = 0 /\ <<>> \in Seq(QueueEntry) /\ Len(batch) = 0
  BY <1>a, EmptySeq
<1>1. QueueTypeOK'
  <2>1. pendingTail' \in 0 .. SIZE - 1 /\ qpc' \in [Process -> QPc]
    BY DEF QueueTypeOK, QPc
  <2> QED BY <1>d, <2>1 DEF QueueTypeOK
<1>2. StartInv'
  BY DEF QueueTypeOK, StartInv, ClientPc, ServerPc, Starting
<1>3. EmptyInv'
  BY DEF QueueTypeOK, StartInv, ClientPc, ServerPc, Starting, EmptyInv, InEmpty, EmptyFirst, EmptyLock
<1>4. PendingInv'
  BY <1>a, <1>b DEF PendingInv, InPending, PendingLast
<1>5. ChainInv'
  BY <1>d DEF ChainInv, Chained
<1>6. OwnerInv'
  BY <1>c, <1>d DEF OwnerInv, Distinct, Apart, In
<1>7. CoverInv'
  <2>1. Dead => Dead'
    BY <1>b DEF Dead
  <2>2. \A e : ~In(e, batch)
    BY <1>d DEF In
  <2> QED BY <1>a, <1>c, <2>1, <2>2 DEF CoverInv
<1>8. ServerInv'
  BY <1>a, <1>b DEF ServerInv, Popped, PendingLast, ChainInv, Chained
<1>9. OrderInv'
  BY <1>a, <1>b, <1>d, ListTypes DEF OrderInv, Behind
<1>10. RequestInv'
  BY <1>b DEF RequestInv
<1> QED BY <1>1, <1>2, <1>3, <1>4, <1>5, <1>6, <1>7, <1>8, <1>9, <1>10 DEF QueueInv

\* PopEnd: the last popped entry gets its end, whatever was pushed since.
LEMMA PopEndKeeps ==
  ASSUME QueueInv, PopEnd
  PROVE  QueueInv'
<1> USE QueueAssumption DEF QueueInv, PopEnd, QGoto, Process, words, history
<1>a. /\ batch # <<>> /\ val[Server] = batch[Len(batch)] /\ ent[Server] = batch[1]
      /\ Chained(batch) /\ first = batch[1]
  BY DEF ServerInv, Popped
<1>b. \A p \in Process : qpc'[p] = IF p = Server THEN "read" ELSE qpc[p]
  BY DEF QueueTypeOK
<1>c. /\ \A e \in 0 .. SIZE - 1 : e # val[Server] => link'[e] = link[e]
      /\ link'[val[Server]] = SIZE /\ val[Server] \in QueueEntry
  <2>1. val[Server] \in QueueEntry /\ val[Server] \in 0 .. SIZE - 1
    BY <1>a, LastPopped
  <2> QED BY <2>1 DEF QueueTypeOK
<1>d. /\ \A i \in 1 .. Len(free) : free[i] # val[Server] /\ free[i] \in 0 .. SIZE - 1
      /\ \A i \in 1 .. Len(pending) : pending[i] # val[Server] /\ pending[i] \in 0 .. SIZE - 1
      /\ \A i \in 1 .. Len(batch) - 1 : batch[i] # val[Server] /\ batch[i] \in 0 .. SIZE - 1
  BY <1>a, LastPopped
<1>1. QueueTypeOK'
  <2>1. link' \in [0 .. SIZE - 1 -> 0 .. SIZE]
    <3>1. SIZE \in 0 .. SIZE
      OBVIOUS
    <3> QED BY <3>1 DEF QueueTypeOK
  <2> QED BY <2>1 DEF QueueTypeOK, QPc
<1>2. StartInv'
  BY <1>b DEF StartInv, ServerPc, Starting
<1>3. EmptyInv'
  BY <1>b DEF EmptyInv, InEmpty, EmptyFirst
<1>4. PendingInv'
  <2>1. \A d \in Client : qpc[d] = "publish" => link'[val[d]] = link[val[d]]
    <3>1. PendingLast # val[Server] /\ PendingLast \in 0 .. SIZE - 1
      BY <1>c, <1>d, ListTypes DEF PendingLast, QueueEntry
    <3> QED BY <1>c, <3>1 DEF PendingInv, InPending
  <2> QED BY <1>b, <2>1 DEF PendingInv, InPending, PendingLast
<1>5. ChainInv'
  <2>1. Chained(free)' /\ Chained(pending)'
    BY <1>c, <1>d, ListTypes DEF ChainInv, Chained
  <2>2. free # <<>> => link'[free[Len(free)]] = SIZE
    BY <1>c, <1>d, ListTypes DEF ChainInv
  <2>3. link'[0] = link[0]
    BY <1>c DEF QueueEntry
  <2> QED BY <2>1, <2>2, <2>3 DEF ChainInv
<1>6. OwnerInv'
  BY <1>b, OwnerFrame DEF Holding
<1>7. CoverInv'
  BY <1>b, CoverFrame DEF Holding, Dead
<1>8. ServerInv'
  <2>1. Chained(batch)'
    BY <1>a, <1>c, <1>d, ListTypes DEF Chained
  <2> QED BY <1>a, <1>b, <1>c, <2>1 DEF ServerInv, Popped
<1>9. OrderInv'
  <2>1. Len(got) = Behind - Len(batch) + 1 - 1 /\ 1 \in 1 .. Len(batch)
    BY <1>a, ListTypes DEF OrderInv, Behind
  <2> QED BY <1>a, <1>b, <2>1 DEF OrderInv, Behind
<1>10. RequestInv'
  BY <1>b DEF RequestInv
<1> QED BY <1>1, <1>2, <1>3, <1>4, <1>5, <1>6, <1>7, <1>8, <1>9, <1>10 DEF QueueInv

\* Read: the next request in the order of the pushes, and the next entry.
LEMMA ReadKeeps ==
  ASSUME QueueInv, Read
  PROVE  QueueInv'
<1> USE QueueAssumption DEF QueueInv, Read, QGoto, Process, words, history
<1>a. /\ batch # <<>> /\ first = batch[1] /\ Chained(batch) /\ link[batch[Len(batch)]] = SIZE
  BY DEF ServerInv, Popped
<1>b. PICK k \in 1 .. Len(batch) : ent[Server] = batch[k] /\ Len(got) = Behind - Len(batch) + k - 1
  BY DEF OrderInv
<1>c. link[ent[Server]] = IF k = Len(batch) THEN SIZE ELSE batch[k + 1]
  <2>1. k # Len(batch) => k \in 1 .. Len(batch) - 1
    BY <1>b, ListTypes
  <2> QED BY <1>a, <1>b, <2>1 DEF Chained
<1>d. link[ent[Server]] = SIZE <=> k = Len(batch)
  <2>1. k # Len(batch) => k + 1 \in 1 .. Len(batch)
    BY <1>b, ListTypes
  <2>2. SIZE \notin QueueEntry
    BY DEF QueueEntry
  <2> QED BY <1>c, <2>1, <2>2, ListTypes
<1>e. /\ data[ent[Server]] = pushed[Len(got) + 1] /\ Len(got) + 1 <= Len(pushed)
      /\ data[ent[Server]] \in QueueRequest
  <2>1. Len(got) + 1 = Behind - Len(batch) + k /\ Len(got) + 1 \in 1 .. Len(pushed)
    BY <1>b, ListTypes DEF OrderInv, Behind
  <2>2. pushed[Len(got) + 1] \in QueueRequest
    BY <2>1, ListTypes, ElementOfSeq
  <2> QED BY <1>b, <2>1, <2>2 DEF OrderInv
<1>f. /\ got' \in Seq(QueueRequest) /\ Len(got') = Len(got) + 1
      /\ \A i \in 1 .. Len(got) : got'[i] = got[i]
      /\ got'[Len(got) + 1] = data[ent[Server]]
  BY <1>e, ListTypes, AppendProperties
<1>g. \A p \in Process : qpc'[p] = IF p = Server THEN (IF k = Len(batch) THEN "recycle" ELSE "read") ELSE qpc[p]
  BY <1>d DEF QueueTypeOK
<1>h. /\ ent'[Server] = IF k = Len(batch) THEN batch[k] ELSE batch[k + 1]
      /\ \A d \in Client : ent'[d] = ent[d]
      /\ ent' \in [Process -> 0 .. SIZE]
  <2>1. batch[k] \in QueueEntry /\ (k # Len(batch) => batch[k + 1] \in 0 .. SIZE)
    <3>1. k # Len(batch) => k + 1 \in 1 .. Len(batch)
      BY <1>b, ListTypes
    <3>2. QueueEntry \subseteq 0 .. SIZE
      BY DEF QueueEntry
    <3> QED BY <1>b, <3>1, <3>2, ListTypes
  <2> QED BY <1>b, <1>c, <1>d, <2>1 DEF QueueTypeOK
<1>1. QueueTypeOK'
  BY <1>f, <1>h DEF QueueTypeOK, QPc
<1>2. StartInv'
  BY <1>g DEF StartInv, ServerPc, Starting
<1>3. EmptyInv'
  BY <1>g DEF EmptyInv, InEmpty, EmptyFirst
<1>4. PendingInv'
  BY <1>g, <1>h DEF PendingInv, InPending, PendingLast
<1>5. ChainInv'
  BY DEF ChainInv, Chained
<1>6. OwnerInv'
  BY <1>g, <1>h, OwnerFrame DEF Holding
<1>7. CoverInv'
  BY <1>g, <1>h, CoverFrame DEF Holding, Dead
<1>8. ServerInv'
  <2>1. qpc'[Server] = "recycle" => ent'[Server] = batch[Len(batch)]
    BY <1>g, <1>h
  <2>2. qpc'[Server] \in {"recycle", "read"}
    BY <1>g
  <2> QED BY <1>a, <2>1, <2>2 DEF ServerInv, Popped, Chained
<1>9. OrderInv'
  <2>1. Behind' = Behind /\ Behind \in Int
    BY ListTypes DEF Behind
  <2>2. \A i \in 1 .. Len(got') : got'[i] = pushed[i]
    <3>1. \A i \in 1 .. Len(got') : i \in 1 .. Len(got) \/ i = Len(got) + 1
      BY <1>f, ListTypes
    <3> QED BY <1>e, <1>f, <3>1 DEF OrderInv
  <2>3. k = Len(batch) => Len(got') = Behind
    BY <1>b, <1>f, <2>1, ListTypes
  <2>4. k # Len(batch) => k + 1 \in 1 .. Len(batch) /\ Len(got') = Behind - Len(batch) + (k + 1) - 1
    BY <1>b, <1>f, <2>1, ListTypes
  <2>5. Len(got') <= Len(pushed)
    BY <1>e, <1>f, ListTypes
  <2>6. k = Len(batch) => qpc'[Server] = "recycle"
    BY <1>g
  <2>7. k # Len(batch) => qpc'[Server] = "read" /\ ent'[Server] = batch[k + 1]
    BY <1>g, <1>h
  <2> QED BY <2>1, <2>2, <2>3, <2>4, <2>5, <2>6, <2>7 DEF OrderInv
<1>10. RequestInv'
  BY <1>g, <1>h DEF RequestInv
<1> QED BY <1>1, <1>2, <1>3, <1>4, <1>5, <1>6, <1>7, <1>8, <1>9, <1>10 DEF QueueInv

\* RecycleJoin: the batch is joined to the empty list.
LEMMA RecycleJoinKeeps ==
  ASSUME QueueInv, RecycleJoin
  PROVE  QueueInv'
<1> USE QueueAssumption DEF QueueInv, RecycleJoin, QGoto, Process, words, history
<1>a. /\ batch # <<>> /\ ent[Server] = batch[Len(batch)] /\ Chained(batch) /\ first = batch[1]
      /\ val[Server] = EmptyFirst /\ emptyTop = EmptyLock
  BY DEF ServerInv, Popped, EmptyInv, InEmpty
<1>b. \A p \in Process : qpc'[p] = IF p = Server THEN "return" ELSE qpc[p]
  BY DEF QueueTypeOK
<1>c. /\ \A e \in 0 .. SIZE - 1 : e # ent[Server] => link'[e] = link[e]
      /\ link'[ent[Server]] = val[Server] /\ ent[Server] \in QueueEntry
  <2>1. ent[Server] \in QueueEntry /\ ent[Server] \in 0 .. SIZE - 1
    BY <1>a, LastPopped
  <2> QED BY <2>1 DEF QueueTypeOK
<1>d. /\ \A i \in 1 .. Len(free) : free[i] # ent[Server] /\ free[i] \in 0 .. SIZE - 1
      /\ \A i \in 1 .. Len(pending) : pending[i] # ent[Server] /\ pending[i] \in 0 .. SIZE - 1
      /\ \A i \in 1 .. Len(batch) - 1 : batch[i] # ent[Server] /\ batch[i] \in 0 .. SIZE - 1
  BY <1>a, LastPopped
<1>1. QueueTypeOK'
  <2>1. link' \in [0 .. SIZE - 1 -> 0 .. SIZE]
    <3>1. SIZE \in 0 .. SIZE
      OBVIOUS
    <3> QED BY <3>1 DEF QueueTypeOK
  <2> QED BY <2>1 DEF QueueTypeOK, QPc
<1>2. StartInv'
  BY <1>b DEF StartInv, ServerPc, Starting
<1>3. EmptyInv'
  BY <1>a, <1>b DEF EmptyInv, InEmpty, EmptyFirst
<1>4. PendingInv'
  <2>1. \A d \in Client : qpc[d] = "publish" => link'[val[d]] = link[val[d]]
    <3>1. PendingLast # ent[Server] /\ PendingLast \in 0 .. SIZE - 1
      BY <1>c, <1>d, ListTypes DEF PendingLast, QueueEntry
    <3> QED BY <1>c, <3>1 DEF PendingInv, InPending
  <2> QED BY <1>b, <2>1 DEF PendingInv, InPending, PendingLast
<1>5. ChainInv'
  <2>1. Chained(free)' /\ Chained(pending)'
    BY <1>c, <1>d, ListTypes DEF ChainInv, Chained
  <2>2. free # <<>> => link'[free[Len(free)]] = SIZE
    BY <1>c, <1>d, ListTypes DEF ChainInv
  <2>3. link'[0] = link[0]
    BY <1>c DEF QueueEntry
  <2> QED BY <2>1, <2>2, <2>3 DEF ChainInv
<1>6. OwnerInv'
  BY <1>b, OwnerFrame DEF Holding
<1>7. CoverInv'
  BY <1>b, CoverFrame DEF Holding, Dead
<1>8. ServerInv'
  <2>1. Chained(batch)'
    BY <1>a, <1>c, <1>d, ListTypes DEF Chained
  <2> QED BY <1>a, <1>b, <1>c, <2>1 DEF ServerInv, Popped
<1>9. OrderInv'
  BY <1>b DEF OrderInv, Behind
<1>10. RequestInv'
  BY <1>b DEF RequestInv
<1> QED BY <1>1, <1>2, <1>3, <1>4, <1>5, <1>6, <1>7, <1>8, <1>9, <1>10 DEF QueueInv

\* RecycleReturn: the batch is the start of the empty list.
LEMMA RecycleReturnKeeps ==
  ASSUME QueueInv, RecycleReturn
  PROVE  QueueInv'
<1> USE QueueAssumption DEF QueueInv, RecycleReturn, QGoto, Process, words, history
<1>a. /\ batch # <<>> /\ first = batch[1] /\ Chained(batch) /\ link[batch[Len(batch)]] = EmptyFirst
      /\ initState = 2 /\ \A p \in Process : InEmpty(p) => p = Server
  BY DEF ServerInv, Popped, EmptyInv, InEmpty, StartInv, Starting
<1>b. \A p \in Process : qpc'[p] = IF p = Server THEN "out" ELSE qpc[p]
  BY DEF QueueTypeOK
<1>c. /\ free' \in Seq(QueueEntry) /\ Len(free') = Len(batch) + Len(free)
      /\ \A i \in 1 .. Len(batch) + Len(free) : free'[i] = IF i <= Len(batch) THEN batch[i] ELSE free[i - Len(batch)]
      /\ free' # <<>> /\ free'[1] = batch[1]
  <2>1. /\ free' \in Seq(QueueEntry) /\ Len(free') = Len(batch) + Len(free)
        /\ \A i \in 1 .. Len(batch) + Len(free) : free'[i] = IF i <= Len(batch) THEN batch[i] ELSE free[i - Len(batch)]
    BY ListTypes, ConcatProperties
  <2> QED BY <1>a, <2>1, ListTypes, EmptySeq
<1>d. Len(batch') = 0 /\ batch' \in Seq(QueueEntry)
  BY EmptySeq
<1>e. Holding' = Holding /\ ent' = ent
  BY <1>b DEF Holding
<1>1. QueueTypeOK'
  <2>1. emptyTop' \in 0 .. SIZE
    BY DEF QueueTypeOK
  <2> QED BY <1>c, <1>d, <2>1 DEF QueueTypeOK, QPc
<1>2. StartInv'
  BY <1>a, <1>b DEF StartInv, ServerPc, Starting
<1>3. EmptyInv'
  BY <1>a, <1>b, <1>c DEF EmptyInv, InEmpty, EmptyFirst
<1>4. PendingInv'
  BY <1>b DEF PendingInv, InPending, PendingLast
<1>5. ChainInv'
  <2>1. ASSUME NEW i \in 1 .. Len(free') - 1
        PROVE  link[free'[i]] = free'[i + 1]
    <3>1. CASE i < Len(batch)
      <4>0. Len(batch) \in Nat /\ Len(free) \in Nat
        BY ListTypes
      <4>2. /\ i \in 1 .. Len(batch) - 1
            /\ i \in 1 .. Len(batch) + Len(free) /\ i + 1 \in 1 .. Len(batch) + Len(free)
            /\ i + 1 <= Len(batch)
        BY <1>c, <2>1, <3>1, <4>0
      <4>1. i \in 1 .. Len(batch) - 1 /\ free'[i] = batch[i] /\ free'[i + 1] = batch[i + 1]
        BY <1>c, <4>2
      <4> QED BY <1>a, <4>1 DEF Chained
    <3>2. CASE i = Len(batch)
      BY <1>a, <1>c, <2>1, <3>2, ListTypes, EmptySeq DEF EmptyFirst
    <3>3. CASE i > Len(batch)
      <4> DEFINE j == i - Len(batch)
      <4>1. /\ j \in 1 .. Len(free) - 1 /\ (i + 1) - Len(batch) = j + 1
            /\ i \in 1 .. Len(batch) + Len(free) /\ i + 1 \in 1 .. Len(batch) + Len(free)
            /\ ~(i <= Len(batch)) /\ ~(i + 1 <= Len(batch))
        <5>1. i \in 1 .. Len(batch) + Len(free) - 1 /\ Len(batch) \in Nat /\ Len(free) \in Nat
          BY <1>c, <2>1, ListTypes
        <5> HIDE DEF QueueInv, RecycleReturn
        <5> QED BY <3>3, <5>1
      <4>2. free'[i] = free[j] /\ free'[i + 1] = free[(i + 1) - Len(batch)]
        BY <1>c, <4>1
      <4> QED BY <4>1, <4>2 DEF ChainInv, Chained
    <3>4. i < Len(batch) \/ i = Len(batch) \/ i > Len(batch)
      BY <1>c, <2>1, ListTypes
    <3> QED BY <3>1, <3>2, <3>3, <3>4
  <2>2. link[free'[Len(free')]] = SIZE
    <3>1. CASE free = <<>>
      BY <1>a, <1>c, <3>1, ListTypes, EmptySeq DEF EmptyFirst
    <3>2. CASE free # <<>>
      BY <1>c, <3>2, ListTypes DEF ChainInv
    <3> QED BY <3>1, <3>2
  <2> QED BY <2>1, <2>2 DEF ChainInv, Chained
<1>6. OwnerInv'
  <2>1. Distinct(free)' /\ Apart(free, pending)'
    BY ListTypes, ConcatOwns DEF OwnerInv
  <2>2. \A e : In(e, free') => In(e, free) \/ In(e, batch)
    BY <1>c, ListTypes DEF In
  <2>3. Distinct(batch)' /\ Apart(free, batch)' /\ Apart(pending, batch)' /\ \A e : ~In(e, batch')
    BY <1>d DEF Distinct, Apart, In
  <2> QED BY <1>e, <2>1, <2>2, <2>3 DEF OwnerInv
<1>7. CoverInv'
  <2>1. \A e : In(e, batch) => In(e, free')
    BY <1>c, ListTypes DEF In
  <2>2. ASSUME NEW i \in 1 .. Len(free)
        PROVE  In(free[i], free')
    <3>1. Len(batch) + i \in 1 .. Len(free') /\ free'[Len(batch) + i] = free[i]
      BY <1>c, <2>2, ListTypes
    <3> QED BY <3>1 DEF In
  <2>3. \A e : In(e, free) => In(e, free')
    BY <2>2 DEF In
  <2>4. Dead => Dead'
    BY <1>b DEF Dead
  <2> QED BY <1>a, <1>e, <2>1, <2>3, <2>4 DEF CoverInv
<1>8. ServerInv'
  BY <1>b DEF ServerInv, Popped
<1>9. OrderInv'
  BY <1>b, <1>d, ListTypes DEF OrderInv, Behind
<1>10. RequestInv'
  BY <1>b DEF RequestInv
<1> QED BY <1>1, <1>2, <1>3, <1>4, <1>5, <1>6, <1>7, <1>8, <1>9, <1>10 DEF QueueInv

\* Build: the lists are made.
LEMMA BuildKeeps ==
  ASSUME QueueInv, NEW p \in Process, Build(p)
  PROVE  QueueInv'
<1> USE QueueAssumption DEF QueueInv, Build, QGoto, Process, words, history
<1>a. /\ initState = 1 /\ pending = <<>> /\ batch = <<>>
      /\ pushed = <<>> /\ got = <<>>
      /\ \A q \in Process : qpc[q] \in Starting /\ (q # p => qpc[q] # "build")
  BY DEF StartInv
<1>b. \A q \in Process : qpc'[q] = IF q = p THEN "out" ELSE qpc[q]
  BY DEF QueueTypeOK
<1>c. /\ free' \in Seq(QueueEntry) /\ Len(free') = SIZE - 1
      /\ \A i \in 1 .. SIZE - 1 : free'[i] = i
      /\ free' # <<>>
  <2>1. free' \in [1 .. SIZE - 1 -> QueueEntry] /\ SIZE - 1 \in Nat
    BY DEF QueueEntry
  <2>2. free' \in Seq(QueueEntry)
    BY <2>1, SeqDef
  <2>3. Len(free') = SIZE - 1
    BY <2>1, <2>2, LenProperties
  <2>4. free' # <<>>
    BY <2>3, EmptySeq
  <2> QED BY <2>2, <2>3, <2>4
<1>d. \A i \in QueueEntry : link'[i] = i + 1
  BY DEF QueueEntry
<1>e. Len(pending) = 0 /\ Len(batch) = 0 /\ Len(pushed) = 0 /\ Len(got) = 0
  BY <1>a, EmptySeq
<1>f. Holding' = {} /\ Client \subseteq Process
  BY <1>a, <1>b DEF Holding, Starting
<1>1. QueueTypeOK'
  <2>1. link' \in [0 .. SIZE - 1 -> 0 .. SIZE]
    BY DEF QueueTypeOK, QueueEntry
  <2>2. qpc' \in [Process -> QPc] /\ pendingTail' \in 0 .. SIZE - 1 /\ emptyTop' \in 0 .. SIZE
    BY DEF QueueTypeOK, QPc
  <2>3. {free', pending', batch'} \subseteq Seq(QueueEntry)
    BY <1>c, ListTypes
  <2>4. initState' \in 0 .. 2 /\ first' \in 0 .. SIZE
    BY DEF QueueTypeOK
  <2>6. val' \in [Process -> 0 .. SIZE]
    BY DEF QueueTypeOK
  <2>7. ent' \in [Process -> 0 .. SIZE]
    BY DEF QueueTypeOK
  <2>5. /\ data' \in [QueueEntry -> QueueRequest \cup {NoRequest}]
        /\ sent' \in [Client -> 0 .. MaxPush]
        /\ {pushed', got'} \subseteq Seq(QueueRequest)
    BY DEF QueueTypeOK
  <2> QED BY <2>1, <2>2, <2>3, <2>4, <2>5, <2>6, <2>7 DEF QueueTypeOK
<1>2. StartInv'
  BY <1>a, <1>b DEF StartInv, ClientPc, ServerPc, Starting
<1>3. EmptyInv'
  <2>1. EmptyFirst' = 1
    BY <1>c DEF EmptyFirst
  <2>2. \A q \in Process : ~InEmpty(q)'
    BY <1>a, <1>b DEF InEmpty, Starting
  <2> QED BY <2>1, <2>2 DEF EmptyInv
<1>4. PendingInv'
  BY <1>a, <1>b DEF PendingInv, InPending, PendingLast, Starting
<1>5. ChainInv'
  <2>1. Chained(free)' /\ link'[free'[Len(free')]] = SIZE
    BY <1>c, <1>d DEF Chained, QueueEntry
  <2>2. Chained(pending)' /\ pending' = <<>>
    BY <1>a, <1>e DEF Chained
  <2> QED BY <2>1, <2>2 DEF ChainInv
<1>6. OwnerInv'
  BY <1>c, <1>e, <1>f DEF OwnerInv, Distinct, Apart, In
<1>7. CoverInv'
  BY <1>c DEF CoverInv, In, QueueEntry
<1>8. ServerInv'
  <2>1. qpc'[Server] \in {"new", "await", "dead", "out"}
    BY <1>a, <1>b DEF Starting
  <2>2. batch' = <<>>
    BY <1>a
  <2> QED BY <2>1, <2>2 DEF ServerInv, Popped
<1>9. OrderInv'
  BY <1>a, <1>b, <1>e DEF OrderInv, Behind, Starting
<1>10. RequestInv'
  BY <1>a, <1>b, <1>f DEF RequestInv, Starting
<1> QED BY <1>1, <1>2, <1>3, <1>4, <1>5, <1>6, <1>7, <1>8, <1>9, <1>10 DEF QueueInv

-----------------------------------------------------------------------------
(* The invariant.                                                          *)

LEMMA QueueInitInv ==
  ASSUME QueueInit
  PROVE  QueueInv
<1> USE QueueAssumption DEF QueueInit, Process
<1>1. Len(<<>>) = 0 /\ <<>> \in Seq(QueueEntry) /\ <<>> \in Seq(QueueRequest)
  BY EmptySeq
<1>2. QueueTypeOK
  BY <1>1 DEF QueueTypeOK, QPc, PendingLock, EmptyLock
<1>3. StartInv /\ EmptyInv /\ PendingInv
  BY DEF StartInv, ClientPc, ServerPc, Starting, EmptyInv, InEmpty, PendingInv, InPending
<1>4. ChainInv /\ OwnerInv /\ CoverInv
  <2>1. Holding = {}
    BY DEF Holding
  <2> QED BY <1>1, <2>1 DEF ChainInv, Chained, OwnerInv, Distinct, Apart, In, CoverInv
<1>5. ServerInv /\ OrderInv /\ RequestInv
  BY <1>1 DEF ServerInv, Popped, OrderInv, Behind, RequestInv
<1> QED BY <1>2, <1>3, <1>4, <1>5 DEF QueueInv

LEMMA QueueNextInv ==
  ASSUME QueueInv, [QueueNext]_queueVars
  PROVE  QueueInv'
<1>1. ASSUME NEW p \in Process, Constructs(p) \/ QueueDie(p)
      PROVE  QueueInv'
  BY <1>1, ConstructKeeps, BuildKeeps, AwaitKeeps, QueueDieKeeps DEF Constructs
<1>2. ASSUME NEW c \in Client, Begin(c) \/ Pushes(c)
      PROVE  QueueInv'
  BY <1>2, BeginKeeps, AllocLockKeeps, AllocFailsKeeps, AllocTakesKeeps, FillKeeps,
     PushLockKeeps, PushLinkKeeps, PushPublishKeeps DEF Pushes
<1>3. ASSUME Serves
      PROVE  QueueInv'
  BY <1>3, PopCheckKeeps, PopLockKeeps, PopHeadKeeps, PopReleaseKeeps, PopEndKeeps, ReadKeeps,
     RecycleLockKeeps, RecycleJoinKeeps, RecycleReturnKeeps DEF Serves
<1>4. ASSUME UNCHANGED queueVars
      PROVE  QueueInv'
  <2> USE <1>4 DEF QueueInv, queueVars, words, locals, history
  <2>1. QueueTypeOK' /\ StartInv'
    BY DEF QueueTypeOK, StartInv
  <2>2. EmptyInv' /\ PendingInv' /\ ChainInv'
    BY DEF EmptyInv, InEmpty, EmptyFirst, PendingInv, InPending, PendingLast, ChainInv, Chained
  <2>3. OwnerInv' /\ CoverInv'
    BY OwnerFrame, CoverFrame DEF Holding, Dead
  <2>4. ServerInv' /\ OrderInv' /\ RequestInv'
    BY DEF ServerInv, Chained, OrderInv, Behind, RequestInv
  <2> QED BY <2>1, <2>2, <2>3, <2>4
<1> QED BY <1>1, <1>2, <1>3, <1>4 DEF QueueNext

LEMMA QueueInvariant == QueueSpec => []QueueInv
BY QueueInitInv, QueueNextInv, PTL DEF QueueSpec

-----------------------------------------------------------------------------
(* What follows from it.                                                   *)

\* A list without repetition has as many members as its length.
LEMMA RangeCount ==
  ASSUME NEW s \in Seq(QueueEntry), Distinct(s)
  PROVE  /\ IsFiniteSet(SeqRange(s)) /\ Cardinality(SeqRange(s)) = Len(s)
         /\ \A e : e \in SeqRange(s) <=> In(e, s)
<1> HIDE DEF QueueEntry
<1>1. /\ Len(s) \in Nat /\ DOMAIN s = 1 .. Len(s) /\ s \in [1 .. Len(s) -> QueueEntry]
  BY LenProperties
<1>2. \A e : e \in SeqRange(s) <=> In(e, s)
  BY <1>1 DEF SeqRange, In
<1>3. s \in [1 .. Len(s) -> SeqRange(s)]
  BY <1>1 DEF SeqRange
<1>4. s \in Bijection(1 .. Len(s), SeqRange(s))
  <2>1. \A e \in SeqRange(s) : \E i \in 1 .. Len(s) : s[i] = e
    BY <1>2 DEF In
  <2>2. \A i, j \in 1 .. Len(s) : s[i] = s[j] => i = j
    BY DEF Distinct
  <2> QED BY <1>3, <2>1, <2>2 DEF Bijection, Injection, IsInjective, Surjection
<1>5. ExistsBijection(1 .. Len(s), SeqRange(s))
  BY <1>4 DEF ExistsBijection
<1> QED BY <1>1, <1>2, <1>5, FS_CountingElements, FS_NatBijection

\* Clients that hold entries hold one each.
LEMMA HeldCount ==
  ASSUME OwnerInv
  PROVE  IsFiniteSet(Held) /\ Cardinality(Held) = Cardinality(Holding)
<1> DEFINE f == [c \in Holding |-> ent[c]]
<1>1. IsFiniteSet(QueueEntry)
  BY QueueAssumption, FS_Interval DEF QueueEntry
<1>2. IsFiniteSet(Held)
  <2>1. Held \subseteq QueueEntry
    BY DEF OwnerInv, Held
  <2> QED BY <1>1, <2>1, FS_Subset
<1>3. f \in Bijection(Holding, Held)
  <2>1. f \in [Holding -> Held]
    BY DEF Held
  <2>2. \A c, d \in Holding : f[c] = f[d] => c = d
    BY DEF OwnerInv
  <2>3. \A e \in Held : \E c \in Holding : f[c] = e
    BY DEF Held
  <2> HIDE DEF f
  <2> QED BY <2>1, <2>2, <2>3 DEF Bijection, Injection, IsInjective, Surjection
<1>4. IsFiniteSet(Holding) /\ ExistsBijection(Holding, Held)
  <2>1. f \in Injection(Holding, Held)
    BY <1>3 DEF Bijection
  <2> HIDE DEF f
  <2> QED BY <1>2, <1>3, <2>1, FS_Injection DEF ExistsBijection
<1> QED BY <1>2, <1>4, FS_Bijection

LEMMA DisjointUnion ==
  ASSUME NEW A, NEW B, IsFiniteSet(A), IsFiniteSet(B), \A e : ~(e \in A /\ e \in B)
  PROVE  /\ IsFiniteSet(A \cup B) /\ Cardinality(A \cup B) = Cardinality(A) + Cardinality(B)
         /\ Cardinality(A) \in Nat /\ Cardinality(B) \in Nat
<1>1. A \cap B = {}
  OBVIOUS
<1>2. /\ IsFiniteSet(A \cup B)
      /\ Cardinality(A \cup B) = Cardinality(A) + Cardinality(B) - Cardinality(A \cap B)
  BY FS_Union
<1>3. Cardinality(A) \in Nat /\ Cardinality(B) \in Nat /\ Cardinality(A \cap B) = 0
  BY <1>1, FS_EmptySet, FS_CardinalityType
<1> QED BY <1>2, <1>3

\* The invariant accounts for every entry.
LEMMA OwnersCounted ==
  ASSUME QueueInv
  PROVE  OneOwner
<1> DEFINE F == SeqRange(free)
           P == SeqRange(pending)
           B == SeqRange(batch)
<1> USE DEF QueueInv
<1>1. /\ IsFiniteSet(F) /\ Cardinality(F) = Len(free) /\ \A e : e \in F <=> In(e, free)
      /\ IsFiniteSet(P) /\ Cardinality(P) = Len(pending) /\ \A e : e \in P <=> In(e, pending)
      /\ IsFiniteSet(B) /\ Cardinality(B) = Len(batch) /\ \A e : e \in B <=> In(e, batch)
  BY ListTypes, RangeCount DEF OwnerInv
<1>2. IsFiniteSet(Held) /\ Cardinality(Held) = Cardinality(Holding)
  BY HeldCount
<1>3. \A e : /\ ~(e \in F /\ e \in P) /\ ~(e \in F /\ e \in B) /\ ~(e \in P /\ e \in B)
             /\ e \in Held => e \notin F /\ e \notin P /\ e \notin B
  BY <1>1 DEF OwnerInv, Apart, In, Held
<1>4. F \subseteq QueueEntry /\ P \subseteq QueueEntry /\ B \subseteq QueueEntry /\ Held \subseteq QueueEntry
  BY <1>1, ListTypes DEF In, OwnerInv, Held
<1>5. initState = 2 /\ ~Dead => F \cup P \cup B \cup Held = QueueEntry
  BY <1>1, <1>4 DEF CoverInv, Held
<1> HIDE DEF F, P, B
<1>6. IsFiniteSet(F \cup P) /\ Cardinality(F \cup P) = Len(free) + Len(pending)
  <2>1. \A e : ~(e \in F /\ e \in P)
    BY <1>3
  <2>2. IsFiniteSet(F \cup P) /\ Cardinality(F \cup P) = Cardinality(F) + Cardinality(P)
    BY <1>1, <2>1, DisjointUnion
  <2> QED BY <1>1, <2>2
<1>7. IsFiniteSet(F \cup P \cup B) /\ Cardinality(F \cup P \cup B) = Len(free) + Len(pending) + Len(batch)
  <2>1. \A e : ~(e \in F \cup P /\ e \in B)
    BY <1>3
  <2>2. /\ IsFiniteSet(F \cup P \cup B)
        /\ Cardinality(F \cup P \cup B) = Cardinality(F \cup P) + Cardinality(B)
    BY <1>1, <1>6, <2>1, DisjointUnion
  <2> QED BY <1>1, <1>6, <2>2
<1>8. Cardinality(F \cup P \cup B \cup Held)
        = Len(free) + Len(pending) + Len(batch) + Cardinality(Holding)
  <2>1. \A e : ~(e \in F \cup P \cup B /\ e \in Held)
    BY <1>3
  <2>2. Cardinality(F \cup P \cup B \cup Held) = Cardinality(F \cup P \cup B) + Cardinality(Held)
    BY <1>2, <1>7, <2>1, DisjointUnion
  <2> QED BY <1>2, <1>7, <2>2
<1> QED BY <1>5, <1>8 DEF OneOwner, F, P, B

\* The invariant spells the lists.
LEMMA ListsSpelt ==
  ASSUME QueueInv
  PROVE  ListsLinked
<1> USE DEF QueueInv
<1>0. SIZE \in 0 .. SIZE /\ 0 \in 0 .. SIZE /\ QueueEntry \subseteq 0 .. SIZE
  BY QueueAssumption DEF QueueEntry
<1>1. /\ <<SIZE>> \in Seq(0 .. SIZE) /\ Len(<<SIZE>>) = 1 /\ <<SIZE>>[1] = SIZE
      /\ <<0>> \in Seq(0 .. SIZE) /\ Len(<<0>>) = 1 /\ <<0>>[1] = 0
  BY <1>0
<1>2. free \in Seq(0 .. SIZE) /\ pending \in Seq(0 .. SIZE)
  BY <1>0, ListTypes, SeqMonotonic
<1>3. /\ Len(EmptyList) = Len(free) + 1
      /\ \A i \in 1 .. Len(free) + 1 : EmptyList[i] = IF i <= Len(free) THEN free[i] ELSE SIZE
  <2>1. /\ Len(EmptyList) = Len(free) + 1
        /\ \A i \in 1 .. Len(free) + 1 : EmptyList[i] = IF i <= Len(free) THEN free[i] ELSE <<SIZE>>[i - Len(free)]
    BY <1>1, <1>2, ConcatProperties DEF EmptyList
  <2> QED BY <1>1, <2>1, ListTypes
<1>4. /\ Len(PendingList) = Len(pending) + 1
      /\ \A i \in 1 .. Len(pending) + 1 : PendingList[i] = IF i = 1 THEN 0 ELSE pending[i - 1]
  <2>1. /\ Len(PendingList) = 1 + Len(pending)
        /\ \A i \in 1 .. 1 + Len(pending) : PendingList[i] = IF i <= 1 THEN <<0>>[i] ELSE pending[i - 1]
    BY <1>1, <1>2, ConcatProperties DEF PendingList
  <2> QED BY <1>1, <2>1, ListTypes
<1>5. EmptyList[1] = EmptyFirst
  BY <1>3, ListTypes, EmptySeq DEF EmptyFirst
<1>6. PendingList[Len(PendingList)] = PendingLast
  BY <1>4, ListTypes, EmptySeq DEF PendingLast
<1>7. DOMAIN free = 1 .. Len(free) /\ DOMAIN pending = 1 .. Len(pending)
  BY ListTypes, LenProperties
<1>8. \A i \in 1 .. Len(free) : link[free[i]] = EmptyList[i + 1]
  <2>1. ASSUME NEW i \in 1 .. Len(free)
        PROVE  link[free[i]] = EmptyList[i + 1]
    <3>1. CASE i = Len(free)
      <4>1. EmptyList[i + 1] = SIZE
        BY <1>3, <3>1, ListTypes
      <4>2. free # <<>>
        BY <2>1, EmptySeq
      <4> QED BY <3>1, <4>1, <4>2 DEF ChainInv
    <3>2. CASE i # Len(free)
      <4>1. i \in 1 .. Len(free) - 1 /\ EmptyList[i + 1] = free[i + 1]
        BY <1>3, <3>2, ListTypes
      <4> QED BY <4>1 DEF ChainInv, Chained
    <3> QED BY <3>1, <3>2
  <2> QED BY <2>1
<1>9. \A i \in 1 .. Len(pending) : link[PendingList[i]] = pending[i]
  <2>1. ASSUME NEW i \in 1 .. Len(pending)
        PROVE  link[PendingList[i]] = pending[i]
    <3>1. CASE i = 1
      BY <1>4, <3>1, ListTypes, EmptySeq DEF ChainInv
    <3>2. CASE i # 1
      <4>1. i - 1 \in 1 .. Len(pending) - 1 /\ PendingList[i] = pending[i - 1]
        BY <1>4, <3>2, ListTypes
      <4>2. link[pending[i - 1]] = pending[(i - 1) + 1]
        BY <4>1 DEF ChainInv, Chained
      <4> QED BY <4>1, <4>2, ListTypes
    <3> QED BY <3>1, <3>2
  <2> QED BY <2>1
<1> QED BY <1>5, <1>6, <1>7, <1>8, <1>9 DEF ListsLinked, EmptyInv, PendingInv

\* The requests read are the first of those pushed.
LEMMA ReadInOrder ==
  ASSUME QueueInv
  PROVE  InOrder
<1> USE DEF QueueInv
<1>1. Len(got) <= Len(pushed) /\ got = SubSeq(pushed, 1, Len(got))
  <2>1. Len(got) <= Len(pushed)
    BY DEF OrderInv
  <2>2. /\ SubSeq(pushed, 1, Len(got)) \in Seq(QueueRequest)
        /\ Len(SubSeq(pushed, 1, Len(got))) = Len(got)
        /\ \A i \in 1 .. Len(got) : SubSeq(pushed, 1, Len(got))[i] = pushed[i]
    BY <2>1, ListTypes
  <2> HIDE DEF QueueRequest
  <2>3. got = SubSeq(pushed, 1, Len(got))
    BY <2>2, ListTypes, SeqEqual DEF OrderInv
  <2> QED BY <2>1, <2>3
<1> DEFINE rest == batch \o pending
<1>2. /\ Len(rest) = Len(batch) + Len(pending) /\ DOMAIN rest = 1 .. Len(batch) + Len(pending)
      /\ \A i \in 1 .. Len(batch) + Len(pending) :
           rest[i] = IF i <= Len(batch) THEN batch[i] ELSE pending[i - Len(batch)]
  BY ListTypes, ConcatProperties, LenProperties
<1>3. ASSUME NEW i \in 1 .. Len(batch) + Len(pending)
      PROVE  data[rest[i]] = pushed[Len(pushed) - Len(rest) + i]
  <2> HIDE DEF rest
  <2>1. CASE i <= Len(batch)
    BY <1>2, <2>1, ListTypes DEF OrderInv, Behind
  <2>2. CASE i > Len(batch)
    <3> DEFINE j == i - Len(batch)
    <3>1. j \in 1 .. Len(pending) /\ rest[i] = pending[j] /\ Behind + j = Len(pushed) - Len(rest) + i
      BY <1>2, <2>2, ListTypes DEF Behind
    <3> QED BY <3>1 DEF OrderInv
  <2> QED BY <2>1, <2>2, ListTypes
<1> QED BY <1>1, <1>2, <1>3 DEF InOrder

\* QueueSound: whatever the size of the array, the number of clients and the
\* places where processes are killed, the next fields and the two indices of
\* shm_mpsc_queue.h spell two lists that share no entry, an entry that Alloc
\* has given out is nobody else's, and none is lost while nobody is killed.
THEOREM QueueStaysSound == QueueSpec => []QueueSound
<1>1. QueueInv => QueueSound
  BY OwnersCounted, ListsSpelt DEF QueueInv, QueueSound
<1> QED BY <1>1, QueueInvariant, PTL

\* InOrder: the server reads every request once, in the order of the pushes,
\* and no client writes into an entry the server has yet to read.
THEOREM QueueInOrder == QueueSpec => []InOrder
<1>1. QueueInv => InOrder
  BY ReadInOrder
<1> QED BY <1>1, QueueInvariant, PTL
=============================================================================
