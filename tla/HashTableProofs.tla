-------------------------- MODULE HashTableProofs --------------------------
(***************************************************************************)
(* Proofs about HashTable: the table is the map it stands for, and a       *)
(* lookup beside insertions is linearizable unless the table is rebuilt,   *)
(* for any keys, hash function, capacities and load factor.                *)
(*                                                                         *)
(* A chain is the least set that next pointers do not leave, so that what  *)
(* a step does to it follows from closed sets; no induction is needed.     *)
(***************************************************************************)
EXTENDS HashTable, FiniteSetTheorems, TLAPS

\* The keys that have a binding.
Bound == {k \in Key : map[k] # None}

\* The first cap chains of an array hold the keys of B, each in the chain of
\* its index and in no other.
Placed(arr, cap, nx, B) ==
  /\ \A i \in 0 .. cap - 1 : arr[i] \in Key \cup {None}
  /\ \A i \in 0 .. cap - 1 : \A k \in ChainOf(nx, arr[i]) : Index(k, cap) = i
  /\ \A k \in Key : k \in B <=> k \in ChainOf(nx, arr[Index(k, cap)])

\* The chain of the old array in which a key still is while it is rehashed.
Left(k) ==
  IF Index(k, newCap) = chain THEN Chain(node)
  ELSE IF Index(k, newCap) > chain THEN Chain(old[Index(k, newCap)]) ELSE {}

\* While it is rehashed a bound key is in its new chain or still in its old
\* one, and not in both.
Moving ==
  /\ chain \in 0 .. newCap - 1
  /\ node \in Key \cup {None}
  /\ \A i \in 0 .. capacity - 1 : nodes[i] \in Key \cup {None}
  /\ \A i \in 0 .. newCap - 1 : old[i] \in Key \cup {None}
  /\ \A i \in 0 .. capacity - 1 : \A k \in Chain(nodes[i]) : Index(k, capacity) = i
  /\ \A k \in Chain(node) : Index(k, newCap) = chain
  /\ \A i \in chain + 1 .. newCap - 1 : \A k \in Chain(old[i]) : Index(k, newCap) = i
  /\ \A k \in Key : k \in Bound <=> k \in Chain(nodes[Index(k, capacity)]) \/ k \in Left(k)
  /\ \A k \in Key : ~(k \in Chain(nodes[Index(k, capacity)]) /\ k \in Left(k))

\* Where the nodes are; no chain comes back to a node it has left.
ArrayInv ==
  /\ wpc \in {"idle", "malloc", "find", "link", "size"} => Placed(nodes, capacity, next, Bound)
  /\ wpc \in {"memset", "capacity"} => Placed(old, capacity, next, Bound)
  /\ wpc = "capacity" => nodes = Empty
  /\ wpc = "rehash" => Moving
  /\ \A k \in Bound : k \notin Chain(next[k])

\* What is in the nodes, and in the one that is about to be linked.
NodeInv ==
  /\ \A k \in Bound : value[k] = map[k]
  /\ wpc = "link" => /\ op.key \notin Bound /\ value[op.key] = op.value
                     /\ next[op.key] = nodes[Index(op.key, capacity)]

\* The count of the nodes, and the room an insertion needs.
SizeInv ==
  /\ Cardinality(Bound) = IF wpc = "size" THEN size + 1 ELSE size
  /\ wpc \in {"find", "link", "size"} => size < capacity
  /\ wpc \in {"malloc", "memset", "capacity"} =>
       newCap \in MinCapacity .. MaxIndex /\ size <= newCap /\ (op.func = "insert" => size < newCap)
  /\ wpc = "rehash" => newCap \in MinCapacity .. MaxIndex /\ (op.func = "insert" => size < capacity)

\* The operation of the writer.
OpInv ==
  /\ wpc = "idle" => op = Idle
  /\ wpc \in {"find", "link", "size"} => op.func = "insert"
  /\ op.func = "insert" => op.key \in Key /\ op.value \in Value

\* The reader: outside a rebuilding it is at a bound node, and the key it
\* looks for, if it was bound all the time, is still ahead.
LookupInv ==
  /\ rpc # "idle" => rkey \in Key /\ map[rkey] \in seen
  /\ rpc # "idle" /\ ~resized => wpc \notin {"memset", "capacity", "rehash"}
  /\ rpc = "head" /\ ~resized => rindex = Index(rkey, capacity)
  /\ rpc = "walk" /\ ~resized => /\ rnode \in Bound \cup {None}
                                 /\ None \notin seen => rkey \in Chain(rnode)
  /\ LookupLinear

\* The inductive invariant.
TableInv == TableTypeOK /\ ArrayInv /\ NodeInv /\ SizeInv /\ OpInv /\ LookupInv

-----------------------------------------------------------------------------
(* Chains.                                                                 *)

Follows(nx, S) == \A j \in S : nx[j] \in S \cup {None}

LEMMA NoneIsNoKey == None \notin Key /\ None \notin Value /\ Garbage \notin Key /\ Garbage # None
BY TableAssumption

LEMMA ChainKeys == ASSUME NEW nx, NEW n PROVE ChainOf(nx, n) \subseteq Key
BY DEF ChainOf

LEMMA ChainLeast ==
  ASSUME NEW nx, NEW n, NEW S, S \subseteq Key, n \in Key => n \in S, Follows(nx, S)
  PROVE  ChainOf(nx, n) \subseteq S
BY DEF ChainOf, Follows

LEMMA ChainStarts == ASSUME NEW nx, NEW n \in Key PROVE n \in ChainOf(nx, n)
BY DEF ChainOf

LEMMA ChainFollows ==
  ASSUME NEW nx \in [Key -> Key \cup {None}], NEW n PROVE Follows(nx, ChainOf(nx, n))
<1> SUFFICES ASSUME NEW j \in ChainOf(nx, n), nx[j] # None PROVE nx[j] \in ChainOf(nx, n)
  BY DEF Follows
<1>1. j \in Key /\ nx[j] \in Key
  BY ChainKeys
<1> SUFFICES ASSUME NEW S \in SUBSET Key, n \in Key => n \in S, \A i \in S : nx[i] \in S \cup {None}
             PROVE  nx[j] \in S
  BY <1>1 DEF ChainOf
<1>2. j \in S
  BY DEF ChainOf
<1> QED BY <1>2

LEMMA ChainOfNone == ASSUME NEW nx, NEW n, n \notin Key PROVE ChainOf(nx, n) = {}
<1>1. Follows(nx, {})
  BY DEF Follows
<1>2. {} \subseteq Key /\ (n \in Key => n \in {})
  OBVIOUS
<1> QED BY <1>1, <1>2, ChainLeast

LEMMA ChainUnfolds ==
  ASSUME NEW nx \in [Key -> Key \cup {None}], NEW n \in Key
  PROVE  ChainOf(nx, n) = {n} \cup ChainOf(nx, nx[n])
<1> DEFINE C == ChainOf(nx, n)
           D == ChainOf(nx, nx[n])
<1>1. C \subseteq {n} \cup D
  <2>1. {n} \cup D \subseteq Key
    BY ChainKeys
  <2>2. Follows(nx, D)
    BY ChainFollows
  <2>3. nx[n] \in D \cup {None}
    BY ChainStarts
  <2>4. Follows(nx, {n} \cup D)
    BY <2>2, <2>3 DEF Follows
  <2> QED BY <2>1, <2>4, ChainLeast
<1>2. D \subseteq C
  <2>1. C \subseteq Key /\ n \in C /\ Follows(nx, C)
    BY ChainKeys, ChainStarts, ChainFollows
  <2>2. nx[n] \in Key => nx[n] \in C
    BY <2>1, NoneIsNoKey DEF Follows
  <2> HIDE DEF C
  <2> QED BY <2>1, <2>2, ChainLeast
<1> QED BY <1>1, <1>2, ChainStarts

LEMMA ChainWithin ==
  ASSUME NEW nx \in [Key -> Key \cup {None}], NEW n, NEW k \in ChainOf(nx, n)
  PROVE  ChainOf(nx, k) \subseteq ChainOf(nx, n)
BY ChainLeast, ChainFollows, ChainKeys

\* The next pointers off a chain do not matter to it.
LEMMA ChainFrame ==
  ASSUME NEW nx \in [Key -> Key \cup {None}], NEW ny \in [Key -> Key \cup {None}], NEW n,
         \A k \in ChainOf(nx, n) : ny[k] = nx[k]
  PROVE  ChainOf(ny, n) = ChainOf(nx, n)
<1> DEFINE C == ChainOf(nx, n)
           D == ChainOf(ny, n)
<1>1. C \subseteq Key /\ D \subseteq Key /\ (n \in Key => n \in C /\ n \in D)
  BY ChainKeys, ChainStarts
<1>2. Follows(nx, C) /\ Follows(ny, D)
  BY ChainFollows
<1>3. Follows(ny, C)
  BY <1>2 DEF Follows
<1>4. D \subseteq C
  <2> HIDE DEF C
  <2> QED BY <1>1, <1>3, ChainLeast
<1>5. Follows(nx, D)
  BY <1>2, <1>4 DEF Follows
<1>6. C \subseteq D
  <2> HIDE DEF D
  <2> QED BY <1>1, <1>5, ChainLeast
<1> QED BY <1>4, <1>6

\* A node taken out of a chain: the others stay.
LEMMA ChainSkips ==
  ASSUME NEW nx \in [Key -> Key \cup {None}], NEW ny \in [Key -> Key \cup {None}],
         NEW k \in Key, NEW n, n # k, nx[k] # k,
         \A j \in Key : j # k => ny[j] = IF nx[j] = k THEN nx[k] ELSE nx[j]
  PROVE  ChainOf(ny, n) = ChainOf(nx, n) \ {k}
<1> DEFINE C == ChainOf(nx, n)
           D == ChainOf(ny, n)
<1>1. C \subseteq Key /\ D \subseteq Key /\ (n \in Key => n \in C /\ n \in D)
  BY ChainKeys, ChainStarts
<1>2. Follows(nx, C) /\ Follows(ny, D)
  BY ChainFollows
<1>3. Follows(ny, C \ {k})
  <2> SUFFICES ASSUME NEW j \in C \ {k} PROVE ny[j] \in (C \ {k}) \cup {None}
    BY DEF Follows
  <2>1. nx[j] \in C \cup {None}
    BY <1>2 DEF Follows
  <2>2. CASE nx[j] = k
    <3>1. k \in C
      BY <2>1, <2>2, NoneIsNoKey
    <3>2. nx[k] \in C \cup {None}
      BY <3>1, <1>2 DEF Follows
    <3>3. ny[j] = nx[k]
      BY <2>2, <1>1
    <3> QED BY <3>2, <3>3
  <2>3. CASE nx[j] # k
    <3>1. ny[j] = nx[j]
      BY <2>3, <1>1
    <3> QED BY <3>1, <2>1, <2>3
  <2> QED BY <2>2, <2>3
<1>4. D \subseteq C \ {k}
  <2>1. C \ {k} \subseteq Key /\ (n \in Key => n \in C \ {k})
    BY <1>1
  <2> HIDE DEF C
  <2> QED BY <2>1, <1>3, ChainLeast
<1>5. C \subseteq D \cup {k}
  <2> DEFINE E == D \cup (IF \E j \in D : nx[j] = k THEN {k} ELSE {})
  <2>1. E \subseteq Key /\ (n \in Key => n \in E)
    BY <1>1
  <2>2. Follows(nx, E)
    <3> SUFFICES ASSUME NEW j \in E PROVE nx[j] \in E \cup {None}
      BY DEF Follows
    <3>1. CASE j \in D
      <4>1. ny[j] \in D \cup {None} /\ j # k
        BY <3>1, <1>2, <1>4 DEF Follows
      <4>2. CASE nx[j] = k
        BY <4>2, <3>1
      <4>3. CASE nx[j] # k
        <5>1. ny[j] = nx[j]
          BY <4>1, <4>3, <3>1, <1>1
        <5> QED BY <5>1, <4>1
      <4> QED BY <4>2, <4>3
    <3>2. CASE j \notin D
      <4>1. j = k
        BY <3>2
      <4>2. PICK p \in D : nx[p] = k
        BY <3>2
      <4>3. p # k /\ p \in Key
        BY <1>1, <1>4
      <4>4. ny[p] = nx[k]
        BY <4>2, <4>3
      <4>5. ny[p] \in D \cup {None}
        BY <1>2 DEF Follows
      <4> QED BY <4>1, <4>4, <4>5
    <3> QED BY <3>1, <3>2
  <2>3. C \subseteq E
    <3> HIDE DEF E
    <3> QED BY <2>1, <2>2, ChainLeast
  <2> QED BY <2>3
<1> QED BY <1>4, <1>5

-----------------------------------------------------------------------------
(* Numbers.                                                                *)

LEMMA IndexType ==
  ASSUME NEW k \in Key, NEW cap \in Nat, cap > 0 PROVE Index(k, cap) \in 0 .. cap - 1
<1>1. Hash[k] \in Nat
  BY TableAssumption
<1> QED BY <1>1 DEF Index

LEMMA MaxIndexType == MaxIndex \in Nat /\ MinCapacity \in 1 .. MaxIndex /\ MaxCapacity <= MaxIndex
<1>1. Cardinality(Key) \in Nat
  BY TableAssumption, FS_CardinalityType
<1> QED BY <1>1, TableAssumption DEF MaxIndex

\* A capacity that ht_reserve asks for.
LEMMA ReserveCapacity ==
  ASSUME NEW n \in 0 .. LoadFactor * MaxCapacity, NEW cap \in Nat, n > LoadFactor * cap
  PROVE  n \div LoadFactor \in Nat /\ n \div LoadFactor >= cap /\ n \div LoadFactor <= MaxCapacity
<1>1. LoadFactor \in Nat /\ LoadFactor > 0 /\ MaxCapacity \in Nat
  BY TableAssumption
<1>2. LoadFactor * MaxCapacity \in Nat /\ LoadFactor * cap \in Nat /\ n \in Nat
  BY <1>1
<1>3. n \div LoadFactor \in Nat
  BY <1>1, <1>2
<1>4. PICK q \in Nat : q = n \div LoadFactor
  BY <1>3
<1>5. LoadFactor * q <= n /\ n < LoadFactor * q + LoadFactor
  BY <1>1, <1>2, <1>4
<1>6. q >= cap
  <2> SUFFICES ASSUME q + 1 <= cap PROVE FALSE
    BY <1>4
  <2>1. LoadFactor * (q + 1) <= LoadFactor * cap
    BY <1>1, <1>4
  <2>2. LoadFactor * (q + 1) = LoadFactor * q + LoadFactor
    BY <1>1, <1>4
  <2> QED BY <2>1, <2>2, <1>1, <1>2, <1>5
<1>7. q <= MaxCapacity
  <2> SUFFICES ASSUME MaxCapacity + 1 <= q PROVE FALSE
    BY <1>1, <1>4
  <2>1. LoadFactor * (MaxCapacity + 1) <= LoadFactor * q
    BY <1>1, <1>4
  <2>2. LoadFactor * (MaxCapacity + 1) = LoadFactor * MaxCapacity + LoadFactor
    BY <1>1
  <2>3. n <= LoadFactor * MaxCapacity
    BY <1>2
  <2> QED BY <2>1, <2>2, <2>3, <1>1, <1>2, <1>4, <1>5
<1> QED BY <1>4, <1>6, <1>7

-----------------------------------------------------------------------------
(* The invariant.                                                          *)

LEMMA BoundFinite == IsFiniteSet(Bound) /\ Cardinality(Bound) \in Nat
<1>1. Bound \subseteq Key
  BY DEF Bound
<1> QED BY <1>1, TableAssumption, FS_Subset, FS_CardinalityType

LEMMA TypeInit == TableInit => TableTypeOK
<1>1. Empty \in Array
  BY DEF Empty, Array
<1>2. capacity = MinCapacity => capacity \in MinCapacity .. MaxIndex /\ 0 \in 0 .. capacity
  BY MaxIndexType
<1>3. 0 \in 0 .. MaxIndex /\ 0 \in 0 .. MaxIndex + 1
  BY MaxIndexType
<1>4. [k \in Key |-> None] \in [Key -> Key \cup {None}] /\ [k \in Key |-> None] \in [Key -> Value \cup {None}]
  OBVIOUS
<1>5. Idle \in Op
  BY DEF Idle, Op
<1> QED BY <1>1, <1>2, <1>3, <1>4, <1>5 DEF TableInit, TableTypeOK

LEMMA InvInit == TableInit => TableInv
<1> SUFFICES ASSUME TableInit PROVE TableInv
  OBVIOUS
<1>1. TableTypeOK
  BY TypeInit
<1>2. Bound = {}
  BY DEF TableInit, Bound
<1>3. ArrayInv
  <2>1. wpc = "idle"
    BY DEF TableInit
  <2>2. \A i \in 0 .. capacity - 1 : nodes[i] = None
    BY MaxIndexType DEF TableInit, Empty
  <2>3. \A k \in Key : Index(k, capacity) \in 0 .. capacity - 1
    BY IndexType, MaxIndexType DEF TableInit
  <2>4. ChainOf(next, None) = {}
    BY ChainOfNone, NoneIsNoKey
  <2>5. Placed(nodes, capacity, next, Bound)
    BY <1>2, <2>2, <2>3, <2>4 DEF Placed
  <2> QED BY <2>1, <2>5, <1>2 DEF ArrayInv
<1>4. NodeInv
  BY <1>2 DEF NodeInv, TableInit
<1>5. SizeInv
  BY <1>2, FS_EmptySet DEF SizeInv, TableInit
<1>6. OpInv
  BY DEF OpInv, TableInit, Idle
<1>7. LookupInv
  BY DEF LookupInv, LookupLinear, TableInit
<1> QED BY <1>1, <1>3, <1>4, <1>5, <1>6, <1>7 DEF TableInv

\* Facts of every state.
LEMMA TypeFacts ==
  ASSUME TableInv
  PROVE  /\ capacity \in Nat /\ capacity > 0 /\ capacity <= MaxIndex /\ size \in Nat
         /\ next \in [Key -> Key \cup {None}]
         /\ Bound \subseteq Key
         /\ \A k \in Key : Index(k, capacity) \in 0 .. capacity - 1
<1>1. capacity \in Nat /\ capacity > 0 /\ capacity <= MaxIndex /\ size \in Nat
  BY MaxIndexType DEF TableInv, TableTypeOK
<1> QED BY <1>1, IndexType DEF TableInv, TableTypeOK, Bound

\* The chain of a bound key, when the nodes are all in one array.
LEMMA BoundChain ==
  ASSUME NEW arr, NEW cap \in Nat, cap > 0, NEW nx \in [Key -> Key \cup {None}], NEW B \in SUBSET Key,
         Placed(arr, cap, nx, B)
  PROVE  /\ \A k \in B : ChainOf(nx, k) \subseteq B /\ nx[k] \in B \cup {None}
         /\ \A i \in 0 .. cap - 1 : ChainOf(nx, arr[i]) \subseteq B /\ arr[i] \in B \cup {None}
<1>1. \A i \in 0 .. cap - 1 : ChainOf(nx, arr[i]) \subseteq B
  <2> SUFFICES ASSUME NEW i \in 0 .. cap - 1, NEW k \in ChainOf(nx, arr[i]) PROVE k \in B
    OBVIOUS
  <2>1. k \in Key /\ Index(k, cap) = i
    BY ChainKeys DEF Placed
  <2> QED BY <2>1 DEF Placed
<1>2. \A i \in 0 .. cap - 1 : arr[i] \in B \cup {None}
  BY <1>1, ChainStarts DEF Placed
<1>3. ASSUME NEW k \in B PROVE ChainOf(nx, k) \subseteq B /\ nx[k] \in B \cup {None}
  <2> DEFINE i == Index(k, cap)
  <2>1. i \in 0 .. cap - 1
    BY IndexType
  <2>2. k \in ChainOf(nx, arr[i])
    BY DEF Placed
  <2> HIDE DEF i
  <2>3. ChainOf(nx, k) \subseteq ChainOf(nx, arr[i])
    BY <2>2, ChainWithin
  <2>4. nx[k] \in ChainOf(nx, arr[i]) \cup {None}
    BY <2>2, ChainFollows DEF Follows
  <2> QED BY <2>1, <2>3, <2>4, <1>1
<1> QED BY <1>1, <1>2, <1>3

-----------------------------------------------------------------------------
(* What a lookup under way needs of the steps of the writer.               *)

Rebuilding == {"memset", "capacity", "rehash"}

LEMMA LookupKept ==
  ASSUME TableInv, UNCHANGED <<reader, map, seen, next, capacity, resized>>,
         wpc' \in Rebuilding => wpc \in Rebuilding
  PROVE  LookupInv'
<1>1. Bound' = Bound
  BY DEF Bound
<1>2. Chain(rnode)' = Chain(rnode)
  BY DEF Chain, reader
<1>3. rkey \in Key => Index(rkey, capacity)' = Index(rkey, capacity)
  BY DEF reader, Index
<1> QED BY <1>1, <1>2, <1>3 DEF TableInv, LookupInv, LookupLinear, Rebuilding, reader

LEMMA LookupBlind ==
  ASSUME TableInv, UNCHANGED <<reader, map, seen>>, rpc # "idle" => resized', resized' \in BOOLEAN
  PROVE  LookupInv'
BY DEF TableInv, LookupInv, LookupLinear, reader

\* A lookup of bound keys while the table is not rebuilt.
LEMMA LookupSees ==
  ASSUME TableInv, rpc = "walk", ~resized
  PROVE  /\ Placed(nodes, capacity, next, Bound)
         /\ rnode \in Bound => ChainOf(next, rnode) \subseteq Bound /\ next[rnode] \in Bound \cup {None}
<1>1. wpc \in {"idle", "malloc", "find", "link", "size"}
  BY DEF TableInv, LookupInv, TableTypeOK
<1>2. Placed(nodes, capacity, next, Bound)
  BY <1>1 DEF TableInv, ArrayInv
<1> QED BY <1>2, BoundChain, TypeFacts

-----------------------------------------------------------------------------
(* The steps.                                                              *)

LEMMA StepInsert == ASSUME TableInv, NEW k \in Key, NEW v \in Value, Insert(k, v) PROVE TableInv'
<1>a. /\ wpc = "idle" /\ (size = capacity => 2 * size <= MaxIndex)
      /\ op' = [func |-> "insert", key |-> k, value |-> v]
      /\ UNCHANGED <<nodes, old, capacity, size, next, value, chain, node, map, reader, seen, resized>>
      /\ \/ wpc' = "find" /\ newCap' = newCap /\ size < capacity
         \/ wpc' = "malloc" /\ newCap' = 2 * size /\ size = capacity
  <2>1. size = capacity \/ size < capacity
    BY TypeFacts DEF TableInv, TableTypeOK
  <2>2. size = capacity => 2 * size >= MinCapacity /\ Resizes(2 * size)
    BY TypeFacts, MaxIndexType DEF Resizes, TableInv, TableTypeOK
  <2>3. size = capacity => ~(2 * size < MinCapacity)
    BY <2>2, TypeFacts, MaxIndexType
  <2> QED BY <2>1, <2>2, <2>3, TypeFacts DEF Insert, Resize, table
<1>b. Bound' = Bound
  BY <1>a DEF Bound
<1>1. TableTypeOK'
  <2>1. op' \in Op
    BY <1>a DEF Op
  <2>2. newCap' \in 0 .. MaxIndex
    BY <1>a, TypeFacts, MaxIndexType DEF TableInv, TableTypeOK
  <2> QED BY <1>a, <2>1, <2>2 DEF TableInv, TableTypeOK, reader
<1>2. ArrayInv'
  <2>1. Placed(nodes, capacity, next, Bound)
    BY <1>a DEF TableInv, ArrayInv
  <2>2. Placed(nodes, capacity, next, Bound)'
    BY <2>1, <1>a, <1>b DEF Placed, Index
  <2> QED BY <1>a, <1>b, <2>2 DEF TableInv, ArrayInv, Chain
<1>3. NodeInv'
  BY <1>a, <1>b DEF TableInv, NodeInv
<1>4. SizeInv'
  <2>1. 2 * size >= MinCapacity \/ size # capacity
    BY TypeFacts, MaxIndexType DEF TableInv, TableTypeOK
  <2>2. Cardinality(Bound)' = Cardinality(Bound)
    BY <1>b
  <2> QED BY <1>a, <2>1, <2>2, TypeFacts, MaxIndexType DEF TableInv, SizeInv
<1>5. OpInv'
  BY <1>a DEF TableInv, OpInv
<1>6. LookupInv'
  BY <1>a, LookupKept DEF Rebuilding
<1> QED BY <1>1, <1>2, <1>3, <1>4, <1>5, <1>6 DEF TableInv

LEMMA StepInsertUpdates == ASSUME TableInv, InsertUpdates PROVE TableInv'
<1>a. /\ wpc = "find" /\ wpc' = "idle" /\ op' = Idle
      /\ op.key \in Chain(nodes[Index(op.key, capacity)])
      /\ value' = [value EXCEPT ![op.key] = op.value] /\ map' = [map EXCEPT ![op.key] = op.value]
      /\ seen' = IF rkey = op.key THEN seen \cup {op.value} ELSE seen
      /\ UNCHANGED <<nodes, old, capacity, size, next, newCap, chain, node, reader, resized>>
  BY DEF InsertUpdates, Bind
<1>b. op.key \in Key /\ op.value \in Value
  BY <1>a DEF TableInv, OpInv
<1>c. Placed(nodes, capacity, next, Bound) /\ op.key \in Bound
  <2>1. Placed(nodes, capacity, next, Bound)
    BY <1>a DEF TableInv, ArrayInv
  <2> QED BY <2>1, <1>a, <1>b DEF Placed, Chain
<1>d. /\ \A j \in Key : map'[j] = IF j = op.key THEN op.value ELSE map[j]
      /\ \A j \in Key : value'[j] = IF j = op.key THEN op.value ELSE value[j]
  BY <1>a, <1>b DEF TableInv, TableTypeOK
<1>e. Bound' = Bound
  BY <1>b, <1>c, <1>d, NoneIsNoKey DEF Bound
<1>1. TableTypeOK'
  <2>1. map' \in [Key -> Value \cup {None}] /\ value' \in [Key -> Value \cup {None}]
    BY <1>a, <1>b DEF TableInv, TableTypeOK
  <2>2. op' \in Op /\ seen' \subseteq Value \cup {None}
    BY <1>a, <1>b DEF TableInv, TableTypeOK, Op, Idle
  <2> QED BY <1>a, <2>1, <2>2 DEF TableInv, TableTypeOK, reader
<1>2. ArrayInv'
  <2>1. Placed(nodes, capacity, next, Bound)'
    BY <1>a, <1>c, <1>e DEF Placed, Index
  <2> QED BY <1>a, <1>e, <2>1 DEF TableInv, ArrayInv, Chain
<1>3. NodeInv'
  BY <1>a, <1>d, <1>e, TypeFacts DEF TableInv, NodeInv
<1>4. SizeInv'
  <2>1. Cardinality(Bound)' = Cardinality(Bound)
    BY <1>e
  <2> QED BY <1>a, <2>1 DEF TableInv, SizeInv, Idle
<1>5. OpInv'
  BY <1>a DEF TableInv, OpInv, Idle
<1>6. LookupInv'
  <2>1. Chain(rnode)' = Chain(rnode) /\ (rkey \in Key => Index(rkey, capacity)' = Index(rkey, capacity))
    BY <1>a DEF Chain, reader, Index
  <2>2. rpc # "idle" => rkey \in Key /\ map'[rkey] \in seen'
    BY <1>a, <1>d DEF TableInv, LookupInv
  <2>3. seen \subseteq seen'
    BY <1>a
  <2> QED BY <1>a, <1>e, <2>1, <2>2, <2>3 DEF TableInv, LookupInv, LookupLinear, reader
<1> QED BY <1>1, <1>2, <1>3, <1>4, <1>5, <1>6 DEF TableInv

LEMMA StepCreateNode == ASSUME TableInv, CreateNode PROVE TableInv'
<1> DEFINE i == Index(op.key, capacity)
<1>a. /\ wpc = "find" /\ wpc' = "link"
      /\ op.key \notin ChainOf(next, nodes[i])
      /\ value' = [value EXCEPT ![op.key] = op.value] /\ next' = [next EXCEPT ![op.key] = nodes[i]]
      /\ UNCHANGED <<nodes, old, capacity, size, op, newCap, chain, node, map, reader, seen, resized>>
  BY DEF CreateNode, Chain
<1>b. op.key \in Key /\ op.value \in Value
  BY <1>a DEF TableInv, OpInv
<1>c. Placed(nodes, capacity, next, Bound) /\ op.key \notin Bound
  <2>1. Placed(nodes, capacity, next, Bound)
    BY <1>a DEF TableInv, ArrayInv
  <2> QED BY <2>1, <1>a, <1>b DEF Placed
<1>d. i \in 0 .. capacity - 1 /\ nodes[i] \in Key \cup {None}
  BY <1>b, <1>c, TypeFacts DEF Placed
<1> HIDE DEF i
<1>e. Bound' = Bound
  BY <1>a DEF Bound
<1>f. /\ next' \in [Key -> Key \cup {None}]
      /\ \A j \in Key : next'[j] = IF j = op.key THEN nodes[i] ELSE next[j]
      /\ \A j \in Key : value'[j] = IF j = op.key THEN op.value ELSE value[j]
  BY <1>a, <1>b, <1>d DEF TableInv, TableTypeOK
\* the chains of bound keys are as before
<1>g. ASSUME NEW n, ChainOf(next, n) \subseteq Bound PROVE ChainOf(next', n) = ChainOf(next, n)
  <2>1. \A j \in ChainOf(next, n) : next'[j] = next[j]
    BY <1>c, <1>f, <1>g, ChainKeys
  <2> QED BY <2>1, <1>f, TypeFacts, ChainFrame
<1>h. /\ \A j \in 0 .. capacity - 1 : ChainOf(next, nodes[j]) \subseteq Bound
      /\ \A j \in Bound : ChainOf(next, j) \subseteq Bound /\ next[j] \in Bound \cup {None}
  BY <1>c, BoundChain, TypeFacts
<1>1. TableTypeOK'
  <2>1. value' \in [Key -> Value \cup {None}]
    BY <1>a, <1>b DEF TableInv, TableTypeOK
  <2> QED BY <1>a, <1>f, <2>1 DEF TableInv, TableTypeOK, reader
<1>2. ArrayInv'
  <2>1. \A j \in 0 .. capacity - 1 : ChainOf(next', nodes[j]) = ChainOf(next, nodes[j])
    BY <1>g, <1>h
  <2>2. Placed(nodes, capacity, next', Bound)
    <3>1. \A k \in Key : Index(k, capacity) \in 0 .. capacity - 1
      BY TypeFacts
    <3> QED BY <2>1, <3>1, <1>c DEF Placed
  <2>3. ASSUME NEW k \in Bound PROVE k \notin ChainOf(next', next'[k])
    <3>1. next'[k] = next[k] /\ next[k] \in Bound \cup {None}
      BY <1>c, <1>f, <1>h, TypeFacts
    <3>2. ChainOf(next, next[k]) \subseteq Bound
      BY <3>1, <1>h, ChainOfNone, NoneIsNoKey
    <3>3. k \notin ChainOf(next, next[k])
      BY DEF TableInv, ArrayInv, Chain
    <3> QED BY <3>1, <3>2, <3>3, <1>g
  <2> QED BY <1>a, <1>e, <2>2, <2>3 DEF ArrayInv, Chain, Placed, Index
<1>3. NodeInv'
  <2>1. \A k \in Bound : value'[k] = map[k]
    BY <1>c, <1>f, TypeFacts DEF TableInv, NodeInv
  <2>2. value'[op.key] = op.value /\ next'[op.key] = nodes[i]
    BY <1>b, <1>f
  <2> QED BY <1>a, <1>c, <1>e, <2>1, <2>2 DEF NodeInv, Index, i
<1>4. SizeInv'
  <2>1. Cardinality(Bound)' = Cardinality(Bound)
    BY <1>e
  <2> QED BY <1>a, <2>1 DEF TableInv, SizeInv
<1>5. OpInv'
  BY <1>a DEF TableInv, OpInv
<1>6. LookupInv'
  <2>1. rpc = "walk" /\ ~resized => ChainOf(next', rnode) = ChainOf(next, rnode)
    <3> SUFFICES ASSUME rpc = "walk", ~resized PROVE ChainOf(next', rnode) = ChainOf(next, rnode)
      OBVIOUS
    <3>1. rnode \in Bound \cup {None}
      BY DEF TableInv, LookupInv
    <3>2. ChainOf(next, rnode) \subseteq Bound
      BY <3>1, <1>h, ChainOfNone, NoneIsNoKey
    <3> QED BY <3>2, <1>g
  <2> QED BY <1>a, <1>e, <2>1 DEF TableInv, LookupInv, LookupLinear, reader, Chain, Index
<1> QED BY <1>1, <1>2, <1>3, <1>4, <1>5, <1>6 DEF TableInv

LEMMA StepPushFront == ASSUME TableInv, PushFront PROVE TableInv'
<1> DEFINE i == Index(op.key, capacity)
<1>a. /\ wpc = "link" /\ wpc' = "size"
      /\ nodes' = [nodes EXCEPT ![i] = op.key] /\ map' = [map EXCEPT ![op.key] = op.value]
      /\ seen' = IF rkey = op.key THEN seen \cup {op.value} ELSE seen
      /\ UNCHANGED <<old, capacity, size, next, value, op, newCap, chain, node, reader, resized>>
  BY DEF PushFront, Bind
<1>b. /\ op.key \in Key /\ op.value \in Value
      /\ op.key \notin Bound /\ value[op.key] = op.value /\ next[op.key] = nodes[i]
  BY <1>a DEF TableInv, OpInv, NodeInv
<1>c. Placed(nodes, capacity, next, Bound)
  BY <1>a DEF TableInv, ArrayInv
<1>d. i \in 0 .. capacity - 1 /\ i \in 0 .. MaxIndex
  BY <1>b, TypeFacts, MaxIndexType
<1>e. i = Index(op.key, capacity)
  OBVIOUS
<1> HIDE DEF i
<1>f. /\ nodes' \in Array
      /\ \A j \in 0 .. MaxIndex : nodes'[j] = IF j = i THEN op.key ELSE nodes[j]
      /\ \A j \in Key : map'[j] = IF j = op.key THEN op.value ELSE map[j]
  BY <1>a, <1>b, <1>d DEF TableInv, TableTypeOK, Array
<1>g. Bound' = Bound \cup {op.key}
  BY <1>b, <1>f, NoneIsNoKey DEF Bound
<1>h. ChainOf(next, op.key) = {op.key} \cup ChainOf(next, nodes[i])
  BY <1>b, ChainUnfolds, TypeFacts
<1>k. ChainOf(next, nodes[i]) \subseteq Bound
  BY <1>c, <1>d, BoundChain, TypeFacts
<1>1. TableTypeOK'
  <2>1. map' \in [Key -> Value \cup {None}] /\ seen' \subseteq Value \cup {None}
    BY <1>a, <1>b DEF TableInv, TableTypeOK
  <2> QED BY <1>a, <1>f, <2>1 DEF TableInv, TableTypeOK, reader
<1>2. ArrayInv'
  <2>1. Placed(nodes', capacity, next, Bound')
    <3>1. \A j \in 0 .. capacity - 1 : j \in 0 .. MaxIndex
      BY TypeFacts, MaxIndexType
    <3>2. \A j \in 0 .. capacity - 1 : nodes'[j] \in Key \cup {None}
      BY <3>1, <1>b, <1>c, <1>f DEF Placed
    <3>3. ASSUME NEW j \in 0 .. capacity - 1, NEW k \in ChainOf(next, nodes'[j]) PROVE Index(k, capacity) = j
      <4>1. CASE j = i
        BY <4>1, <3>1, <1>c, <1>d, <1>e, <1>f, <1>h DEF Placed
      <4>2. CASE j # i
        BY <4>2, <3>1, <1>c, <1>f DEF Placed
      <4> QED BY <4>1, <4>2
    <3>4. ASSUME NEW k \in Key PROVE k \in Bound' <=> k \in ChainOf(next, nodes'[Index(k, capacity)])
      <4>j. PICK j : j = Index(k, capacity)
        OBVIOUS
      <4>0. j \in 0 .. capacity - 1 /\ j \in 0 .. MaxIndex
        BY <3>1, <4>j, TypeFacts
      <4>1. k \in Bound <=> k \in ChainOf(next, nodes[j])
        BY <4>j, <1>c DEF Placed
      <4>2. k = op.key => j = i
        BY <4>j, <1>e
      <4>3. CASE j = i
        <5>1. nodes'[j] = op.key
          BY <4>3, <4>0, <1>f
        <5> QED BY <5>1, <4>j, <4>1, <4>3, <1>g, <1>h
      <4>4. CASE j # i
        <5>1. nodes'[j] = nodes[j]
          BY <4>4, <4>0, <1>f
        <5> QED BY <5>1, <4>j, <4>1, <4>2, <4>4, <1>g
      <4> QED BY <4>3, <4>4
    <3> QED BY <3>2, <3>3, <3>4 DEF Placed
  <2>2. ASSUME NEW k \in Bound' PROVE k \notin ChainOf(next, next[k])
    <3>1. CASE k \in Bound
      BY <3>1 DEF TableInv, ArrayInv, Chain
    <3>2. CASE k = op.key
      BY <3>2, <1>b, <1>k
    <3> QED BY <3>1, <3>2, <1>g
  <2> QED BY <1>a, <2>1, <2>2 DEF ArrayInv, Chain, Placed, Index
<1>3. NodeInv'
  <2>1. \A k \in Bound' : value[k] = map'[k]
    BY <1>b, <1>f, <1>g, TypeFacts DEF TableInv, NodeInv
  <2> QED BY <1>a, <2>1 DEF NodeInv
<1>4. SizeInv'
  <2>1. Cardinality(Bound \cup {op.key}) = Cardinality(Bound) + 1
    BY <1>b, BoundFinite, FS_AddElement
  <2>2. Cardinality(Bound)' = Cardinality(Bound) + 1
    BY <1>g, <2>1
  <2> QED BY <1>a, <2>2 DEF TableInv, SizeInv
<1>5. OpInv'
  BY <1>a DEF TableInv, OpInv
<1>6. LookupInv'
  <2>1. Chain(rnode)' = Chain(rnode) /\ (rkey \in Key => Index(rkey, capacity)' = Index(rkey, capacity))
    BY <1>a DEF Chain, reader, Index
  <2>2. rpc # "idle" => rkey \in Key /\ map'[rkey] \in seen'
    BY <1>a, <1>f DEF TableInv, LookupInv
  <2>3. seen \subseteq seen' /\ Bound \subseteq Bound'
    BY <1>a, <1>g
  <2> QED BY <1>a, <2>1, <2>2, <2>3 DEF TableInv, LookupInv, LookupLinear, reader
<1> QED BY <1>1, <1>2, <1>3, <1>4, <1>5, <1>6 DEF TableInv

LEMMA StepInserted == ASSUME TableInv, Inserted PROVE TableInv'
<1>a. /\ wpc = "size" /\ wpc' = "idle" /\ size' = size + 1 /\ op' = Idle
      /\ UNCHANGED <<nodes, old, capacity, next, value, newCap, chain, node, map, reader, seen, resized>>
  BY DEF Inserted
<1>b. Bound' = Bound
  BY <1>a DEF Bound
<1>1. TableTypeOK'
  <2>1. size' \in 0 .. capacity'
    BY <1>a, TypeFacts DEF TableInv, SizeInv
  <2>2. op' \in Op
    BY <1>a DEF Idle, Op
  <2> QED BY <1>a, <2>1, <2>2 DEF TableInv, TableTypeOK, reader
<1>2. ArrayInv'
  <2>1. Placed(nodes, capacity, next, Bound)'
    BY <1>a, <1>b DEF TableInv, ArrayInv, Placed, Index
  <2> QED BY <1>a, <1>b, <2>1 DEF TableInv, ArrayInv, Chain
<1>3. NodeInv'
  BY <1>a, <1>b DEF TableInv, NodeInv
<1>4. SizeInv'
  <2>1. Cardinality(Bound)' = Cardinality(Bound)
    BY <1>b
  <2> QED BY <1>a, <2>1 DEF TableInv, SizeInv, Idle
<1>5. OpInv'
  BY <1>a DEF TableInv, OpInv, Idle
<1>6. LookupInv'
  BY <1>a, LookupKept DEF Rebuilding
<1> QED BY <1>1, <1>2, <1>3, <1>4, <1>5, <1>6 DEF TableInv

LEMMA StepMalloc == ASSUME TableInv, Malloc PROVE TableInv'
<1>a. /\ wpc = "malloc" /\ wpc' = "memset" /\ old' = nodes
      /\ nodes' = [i \in 0 .. MaxIndex |-> Garbage] /\ resized' = (rpc # "idle")
      /\ UNCHANGED <<capacity, size, next, value, op, newCap, chain, node, map, reader, seen>>
  BY DEF Malloc
<1>b. Bound' = Bound
  BY <1>a DEF Bound
<1>1. TableTypeOK'
  <2>1. nodes' \in Array
    BY <1>a DEF Array
  <2> QED BY <1>a, <2>1 DEF TableInv, TableTypeOK, reader
<1>2. ArrayInv'
  <2>1. Placed(old, capacity, next, Bound)'
    BY <1>a, <1>b DEF TableInv, ArrayInv, Placed, Index
  <2> QED BY <1>a, <1>b, <2>1 DEF TableInv, ArrayInv, Chain
<1>3. NodeInv'
  BY <1>a, <1>b DEF TableInv, NodeInv
<1>4. SizeInv'
  <2>1. Cardinality(Bound)' = Cardinality(Bound)
    BY <1>b
  <2> QED BY <1>a, <2>1 DEF TableInv, SizeInv
<1>5. OpInv'
  BY <1>a DEF TableInv, OpInv
<1>6. LookupInv'
  BY <1>a, LookupBlind
<1> QED BY <1>1, <1>2, <1>3, <1>4, <1>5, <1>6 DEF TableInv

LEMMA StepMemset == ASSUME TableInv, Memset PROVE TableInv'
<1>a. /\ wpc = "memset" /\ wpc' = "capacity" /\ nodes' = Empty
      /\ UNCHANGED <<old, capacity, size, next, value, op, newCap, chain, node, map, reader, seen, resized>>
  BY DEF Memset
<1>b. Bound' = Bound
  BY <1>a DEF Bound
<1>1. TableTypeOK'
  <2>1. nodes' \in Array
    BY <1>a DEF Array, Empty
  <2> QED BY <1>a, <2>1 DEF TableInv, TableTypeOK, reader
<1>2. ArrayInv'
  <2>1. Placed(old, capacity, next, Bound)'
    BY <1>a, <1>b DEF TableInv, ArrayInv, Placed, Index
  <2> QED BY <1>a, <1>b, <2>1 DEF TableInv, ArrayInv, Chain, Empty
<1>3. NodeInv'
  BY <1>a, <1>b DEF TableInv, NodeInv
<1>4. SizeInv'
  <2>1. Cardinality(Bound)' = Cardinality(Bound)
    BY <1>b
  <2> QED BY <1>a, <2>1 DEF TableInv, SizeInv
<1>5. OpInv'
  BY <1>a DEF TableInv, OpInv
<1>6. LookupInv'
  BY <1>a, LookupKept DEF Rebuilding
<1> QED BY <1>1, <1>2, <1>3, <1>4, <1>5, <1>6 DEF TableInv

LEMMA StepSetCapacity == ASSUME TableInv, SetCapacity PROVE TableInv'
<1>a. /\ wpc = "capacity" /\ wpc' = "rehash" /\ capacity' = newCap /\ newCap' = capacity
      /\ chain' = 0 /\ node' = old[0]
      /\ UNCHANGED <<nodes, old, size, next, value, op, map, reader, seen, resized>>
  BY DEF SetCapacity
<1>b. Bound' = Bound
  BY <1>a DEF Bound
<1>c. newCap \in MinCapacity .. MaxIndex /\ size <= newCap /\ newCap \in Nat /\ newCap > 0
  BY <1>a, MaxIndexType DEF TableInv, SizeInv
<1>d. Placed(old, capacity, next, Bound) /\ nodes = Empty
  BY <1>a DEF TableInv, ArrayInv
<1>1. TableTypeOK'
  <2>1. node' \in Key \cup {None, Garbage} /\ chain' \in 0 .. MaxIndex + 1
    BY <1>a, <1>d, TypeFacts, MaxIndexType DEF Placed
  <2>2. newCap' \in 0 .. MaxIndex /\ size' \in 0 .. capacity' /\ capacity' \in MinCapacity .. MaxIndex
    BY <1>a, <1>c, TypeFacts, MaxIndexType
  <2> QED BY <1>a, <2>1, <2>2 DEF TableInv, TableTypeOK, reader
<1>2. ArrayInv'
  <2>1. \A j \in 0 .. newCap - 1 : nodes[j] = None
    BY <1>c, <1>d, MaxIndexType DEF Empty
  <2>2. ChainOf(next, None) = {}
    BY ChainOfNone, NoneIsNoKey
  <2>3. \A k \in Key : Index(k, newCap) \in 0 .. newCap - 1 /\ Index(k, capacity) \in 0 .. capacity - 1
    BY <1>c, IndexType, TypeFacts
  <2>4. \A k \in Key : Left(k)' = ChainOf(next, old[Index(k, capacity)])
    <3> SUFFICES ASSUME NEW k \in Key PROVE Left(k)' = ChainOf(next, old[Index(k, capacity)])
      OBVIOUS
    <3>1. Left(k)' = IF Index(k, capacity) = 0 THEN ChainOf(next, old[0])
                     ELSE IF Index(k, capacity) > 0 THEN ChainOf(next, old[Index(k, capacity)]) ELSE {}
      BY <1>a DEF Left, Chain, Index
    <3>2. Index(k, capacity) = 0 \/ Index(k, capacity) > 0
      BY <2>3
    <3> QED BY <3>1, <3>2
  <2>5. Moving'
    <3>1. chain' \in 0 .. newCap' - 1 /\ node' \in Key \cup {None}
      BY <1>a, <1>d, TypeFacts DEF Placed
    <3>2. /\ \A j \in 0 .. newCap - 1 : nodes[j] \in Key \cup {None}
          /\ \A j \in 0 .. capacity - 1 : old[j] \in Key \cup {None}
          /\ \A j \in 0 .. newCap - 1 : \A k \in ChainOf(next, nodes[j]) : Index(k, newCap) = j
      BY <2>1, <2>2, <1>d DEF Placed
    <3>3. /\ \A k \in ChainOf(next, old[0]) : Index(k, capacity) = 0
          /\ \A j \in 1 .. capacity - 1 : \A k \in ChainOf(next, old[j]) : Index(k, capacity) = j
      BY <1>d, TypeFacts DEF Placed
    <3>4. /\ \A k \in Key : k \in Bound <=> k \in ChainOf(next, nodes[Index(k, newCap)]) \/ k \in Left(k)'
          /\ \A k \in Key : ~(k \in ChainOf(next, nodes[Index(k, newCap)]) /\ k \in Left(k)')
      BY <2>1, <2>2, <2>3, <2>4, <1>d DEF Placed
    <3>5. \A j \in chain' + 1 .. newCap' - 1 : j \in 1 .. capacity - 1
      BY <1>a
    <3> HIDE DEF Left
    <3> QED BY <1>a, <1>b, <3>1, <3>2, <3>3, <3>4, <3>5 DEF Moving, Chain, Index
  <2> QED BY <1>a, <1>b, <2>5 DEF TableInv, ArrayInv, Chain
<1>3. NodeInv'
  BY <1>a, <1>b DEF TableInv, NodeInv
<1>4. SizeInv'
  <2>1. Cardinality(Bound)' = Cardinality(Bound)
    BY <1>b
  <2>2. capacity \in MinCapacity .. MaxIndex
    BY DEF TableInv, TableTypeOK
  <2> QED BY <1>a, <2>1, <2>2 DEF TableInv, SizeInv
<1>5. OpInv'
  BY <1>a DEF TableInv, OpInv
<1>6. LookupInv'
  BY <1>a, LookupBlind DEF TableInv, LookupInv, TableTypeOK
<1> QED BY <1>1, <1>2, <1>3, <1>4, <1>5, <1>6 DEF TableInv

LEMMA StepRehashChain == ASSUME TableInv, RehashChain PROVE TableInv'
<1>a. /\ wpc = "rehash" /\ node = None /\ chain + 1 < newCap
      /\ chain' = chain + 1 /\ node' = old[chain + 1]
      /\ UNCHANGED <<nodes, old, capacity, size, next, value, op, wpc, newCap, map, reader, seen, resized>>
  BY DEF RehashChain, table
<1>b. Bound' = Bound
  BY <1>a DEF Bound
<1>c. Moving
  BY <1>a DEF TableInv, ArrayInv
<1>d. newCap \in MinCapacity .. MaxIndex /\ newCap \in Nat /\ newCap > 0
  BY <1>a, MaxIndexType DEF TableInv, SizeInv
<1>e. chain \in 0 .. newCap - 1 /\ chain + 1 \in 0 .. newCap - 1 /\ chain \in Nat
  BY <1>a, <1>c, <1>d DEF Moving
<1>1. TableTypeOK'
  <2>1. node' \in Key \cup {None, Garbage} /\ chain' \in 0 .. MaxIndex + 1
    BY <1>a, <1>c, <1>d, <1>e, MaxIndexType DEF Moving
  <2> QED BY <1>a, <2>1 DEF TableInv, TableTypeOK, reader
<1>2. ArrayInv'
  <2>1. Chain(node) = {}
    BY <1>a, ChainOfNone, NoneIsNoKey DEF Chain
  <2>2. \A k \in Key : Left(k)' = Left(k)
    <3> SUFFICES ASSUME NEW k \in Key PROVE Left(k)' = Left(k)
      OBVIOUS
    <3>1. Index(k, newCap) \in Nat
      BY <1>d, IndexType
    <3>2. Left(k)' = IF Index(k, newCap) = chain + 1 THEN Chain(old[chain + 1])
                     ELSE IF Index(k, newCap) > chain + 1 THEN Chain(old[Index(k, newCap)]) ELSE {}
      BY <1>a DEF Left, Chain, Index
    <3> QED BY <2>1, <3>1, <3>2, <1>e DEF Left
  <2>3. Moving'
    <3>1. chain' \in 0 .. newCap' - 1 /\ node' \in Key \cup {None}
      BY <1>a, <1>c, <1>e DEF Moving
    <3>2. \A k \in Chain(old[chain + 1]) : Index(k, newCap) = chain + 1
      BY <1>c, <1>e DEF Moving
    <3>3. \A j \in chain + 2 .. newCap - 1 : \A k \in Chain(old[j]) : Index(k, newCap) = j
      BY <1>c, <1>d, <1>e DEF Moving
    <3>4. \A k \in Chain(node)' : Index(k, newCap)' = chain'
      BY <3>2, <1>a DEF Chain, Index
    <3>5. \A j \in chain' + 1 .. newCap' - 1 : \A k \in Chain(old[j])' : Index(k, newCap)' = j
      <4>1. \A j \in chain' + 1 .. newCap' - 1 : j \in chain + 2 .. newCap - 1
        BY <1>a, <1>d, <1>e
      <4> QED BY <4>1, <3>3, <1>a DEF Chain, Index
    <3> HIDE DEF Left
    <3> QED BY <1>a, <1>b, <1>c, <2>2, <3>1, <3>4, <3>5 DEF Moving, Chain, Index
  <2> QED BY <1>a, <1>b, <2>3 DEF TableInv, ArrayInv, Chain
<1>3. NodeInv'
  BY <1>a, <1>b DEF TableInv, NodeInv
<1>4. SizeInv'
  <2>1. Cardinality(Bound)' = Cardinality(Bound)
    BY <1>b
  <2> QED BY <1>a, <2>1 DEF TableInv, SizeInv
<1>5. OpInv'
  BY <1>a DEF TableInv, OpInv
<1>6. LookupInv'
  BY <1>a, LookupKept
<1> QED BY <1>1, <1>2, <1>3, <1>4, <1>5, <1>6 DEF TableInv

LEMMA StepRehashDone == ASSUME TableInv, RehashDone PROVE TableInv'
<1>a. /\ wpc = "rehash" /\ node = None /\ chain + 1 >= newCap
      /\ wpc' = (IF op.func = "insert" THEN "find" ELSE "idle")
      /\ op' = (IF op.func = "insert" THEN op ELSE Idle)
      /\ old' = Empty /\ chain' = 0 /\ newCap' = 0
      /\ UNCHANGED <<nodes, capacity, size, next, value, node, map, reader, seen, resized>>
  BY DEF RehashDone
<1>b. Bound' = Bound
  BY <1>a DEF Bound
<1>c. Moving
  BY <1>a DEF TableInv, ArrayInv
<1>d. newCap \in MinCapacity .. MaxIndex /\ newCap \in Nat /\ newCap > 0
  BY <1>a, MaxIndexType DEF TableInv, SizeInv
<1>e. chain = newCap - 1
  BY <1>a, <1>c, <1>d DEF Moving
<1>1. TableTypeOK'
  <2>1. old' \in Array
    BY <1>a DEF Array, Empty
  <2>2. op' \in Op
    BY <1>a DEF TableInv, TableTypeOK, Idle, Op
  <2>3. chain' \in 0 .. MaxIndex + 1 /\ newCap' \in 0 .. MaxIndex
    BY <1>a, MaxIndexType
  <2> QED BY <1>a, <2>1, <2>2, <2>3 DEF TableInv, TableTypeOK, reader
<1>2. ArrayInv'
  <2>1. \A k \in Key : Left(k) = {}
    <3> SUFFICES ASSUME NEW k \in Key PROVE Left(k) = {}
      OBVIOUS
    <3>1. Index(k, newCap) \in 0 .. newCap - 1
      BY <1>d, IndexType
    <3>2. Chain(node) = {}
      BY <1>a, ChainOfNone, NoneIsNoKey DEF Chain
    <3> QED BY <3>1, <3>2, <1>d, <1>e DEF Left
  <2>2. Placed(nodes, capacity, next, Bound)
    <3> HIDE DEF Left
    <3> QED BY <2>1, <1>c DEF Moving, Placed, Chain
  <2>3. Placed(nodes, capacity, next, Bound)'
    BY <2>2, <1>a, <1>b DEF Placed, Index
  <2> QED BY <1>a, <1>b, <2>3 DEF TableInv, ArrayInv, Chain
<1>3. NodeInv'
  BY <1>a, <1>b DEF TableInv, NodeInv
<1>4. SizeInv'
  <2>1. Cardinality(Bound)' = Cardinality(Bound)
    BY <1>b
  <2> QED BY <1>a, <2>1 DEF TableInv, SizeInv
<1>5. OpInv'
  BY <1>a DEF TableInv, OpInv, Idle
<1>6. LookupInv'
  BY <1>a, LookupKept DEF Rebuilding
<1> QED BY <1>1, <1>2, <1>3, <1>4, <1>5, <1>6 DEF TableInv

\* A node goes from the front of what is left of its chain to its new one.
LEMMA StepRehash == ASSUME TableInv, Rehash PROVE TableInv'
<1>i. PICK i : i = Index(node, capacity)
  OBVIOUS
<1>a. /\ wpc = "rehash" /\ node \in Key
      /\ next' = [next EXCEPT ![node] = nodes[i]] /\ nodes' = [nodes EXCEPT ![i] = node]
      /\ node' = next[node]
      /\ UNCHANGED <<old, capacity, size, value, op, wpc, newCap, chain, map, reader, seen, resized>>
  BY <1>i DEF Rehash
<1>b. Bound' = Bound
  BY <1>a DEF Bound
<1>c. Moving
  BY <1>a DEF TableInv, ArrayInv
<1>d. newCap \in MinCapacity .. MaxIndex /\ newCap \in Nat /\ newCap > 0 /\ chain \in 0 .. newCap - 1
  BY <1>a, <1>c, MaxIndexType DEF TableInv, SizeInv, Moving
<1>e. i \in 0 .. capacity - 1 /\ i \in 0 .. MaxIndex /\ nodes[i] \in Key \cup {None}
  BY <1>a, <1>c, <1>i, TypeFacts, MaxIndexType DEF Moving
<1>f. /\ next' \in [Key -> Key \cup {None}] /\ nodes' \in Array
      /\ \A j \in Key : next'[j] = IF j = node THEN nodes[i] ELSE next[j]
      /\ \A j \in 0 .. MaxIndex : nodes'[j] = IF j = i THEN node ELSE nodes[j]
      /\ \A j \in 0 .. capacity - 1 : j \in 0 .. MaxIndex
  BY <1>a, <1>e, TypeFacts, MaxIndexType DEF TableInv, TableTypeOK, Array
<1>g. next \in [Key -> Key \cup {None}] /\ next[node] \in Key \cup {None}
  BY <1>a, TypeFacts
\* where node is, and where it is not
<1>h. /\ node \in ChainOf(next, node) /\ Index(node, newCap) = chain
      /\ ChainOf(next, node) = {node} \cup ChainOf(next, next[node])
  <2>1. node \in ChainOf(next, node)
    BY <1>a, ChainStarts
  <2>2. Index(node, newCap) = chain
    BY <2>1, <1>c DEF Moving, Chain
  <2> QED BY <2>1, <2>2, <1>a, <1>g, ChainUnfolds
<1>k. node \in Left(node) /\ node \in Bound
  BY <1>a, <1>c, <1>h DEF Left, Chain, Moving
<1>l. \A j \in 0 .. capacity - 1 : node \notin ChainOf(next, nodes[j])
  <2> SUFFICES ASSUME NEW j \in 0 .. capacity - 1, node \in ChainOf(next, nodes[j]) PROVE FALSE
    OBVIOUS
  <2>1. Index(node, capacity) = j
    BY <1>c DEF Moving, Chain
  <2> QED BY <2>1, <1>a, <1>c, <1>k DEF Moving, Chain
<1>m. node \notin ChainOf(next, next[node])
  BY <1>k DEF TableInv, ArrayInv, Chain
<1>n. \A j \in chain + 1 .. newCap - 1 : node \notin ChainOf(next, old[j])
  <2> SUFFICES ASSUME NEW j \in chain + 1 .. newCap - 1, node \in ChainOf(next, old[j]) PROVE FALSE
    OBVIOUS
  <2>1. Index(node, newCap) = j
    BY <1>c DEF Moving, Chain
  <2> QED BY <2>1, <1>d, <1>h
<1>o. ASSUME NEW n, node \notin ChainOf(next, n) PROVE ChainOf(next', n) = ChainOf(next, n)
  <2>1. \A j \in ChainOf(next, n) : next'[j] = next[j]
    BY <1>f, <1>o, ChainKeys
  <2> QED BY <2>1, <1>f, <1>g, ChainFrame
\* the chains afterwards
<1>p. /\ \A j \in 0 .. capacity - 1 :
           ChainOf(next', nodes'[j]) = (IF j = i THEN {node} ELSE {}) \cup ChainOf(next, nodes[j])
      /\ ChainOf(next', next[node]) = ChainOf(next, node) \ {node}
      /\ \A j \in chain + 1 .. newCap - 1 : ChainOf(next', old[j]) = ChainOf(next, old[j])
  <2>1. ASSUME NEW j \in 0 .. capacity - 1
        PROVE  ChainOf(next', nodes'[j]) = (IF j = i THEN {node} ELSE {}) \cup ChainOf(next, nodes[j])
    <3>1. CASE j = i
      <4>1. nodes'[j] = node /\ next'[node] = nodes[i]
        BY <3>1, <1>a, <1>f
      <4>2. ChainOf(next', node) = {node} \cup ChainOf(next', nodes[i])
        BY <4>1, <1>a, <1>f, ChainUnfolds
      <4>3. ChainOf(next', nodes[i]) = ChainOf(next, nodes[i])
        BY <1>e, <1>l, <1>o
      <4> QED BY <3>1, <4>1, <4>2, <4>3
    <3>2. CASE j # i
      <4>1. nodes'[j] = nodes[j]
        BY <3>2, <1>f
      <4>2. ChainOf(next', nodes[j]) = ChainOf(next, nodes[j])
        BY <1>l, <1>o
      <4> QED BY <3>2, <4>1, <4>2
    <3> QED BY <3>1, <3>2
  <2>2. ChainOf(next', next[node]) = ChainOf(next, next[node])
    BY <1>m, <1>o
  <2>3. \A j \in chain + 1 .. newCap - 1 : ChainOf(next', old[j]) = ChainOf(next, old[j])
    BY <1>n, <1>o
  <2> QED BY <2>1, <2>2, <2>3, <1>h, <1>m
<1>1. TableTypeOK'
  <2>1. node' \in Key \cup {None, Garbage}
    BY <1>a, <1>g
  <2> QED BY <1>a, <1>f, <2>1 DEF TableInv, TableTypeOK, reader
<1>2. Moving'
  <2>1. \A k \in Key : Left(k)' = Left(k) \ {node}
    <3> SUFFICES ASSUME NEW k \in Key PROVE Left(k)' = Left(k) \ {node}
      OBVIOUS
    <3>1. PICK c : c = Index(k, newCap)
      OBVIOUS
    <3>2. c \in 0 .. newCap - 1
      BY <3>1, <1>d, IndexType
    <3>3. Left(k)' = IF c = chain THEN ChainOf(next', next[node])
                     ELSE IF c > chain THEN ChainOf(next', old[c]) ELSE {}
      BY <3>1, <1>a DEF Left, Chain, Index
    <3>4. Left(k) = IF c = chain THEN ChainOf(next, node)
                    ELSE IF c > chain THEN ChainOf(next, old[c]) ELSE {}
      BY <3>1 DEF Left, Chain
    <3>5. CASE c = chain
      BY <3>3, <3>4, <3>5, <1>p
    <3>6. CASE c > chain
      <4>1. c \in chain + 1 .. newCap - 1
        BY <3>2, <3>6, <1>d
      <4>2. ChainOf(next', old[c]) = ChainOf(next, old[c]) /\ node \notin ChainOf(next, old[c])
        BY <4>1, <1>n, <1>p
      <4> QED BY <3>3, <3>4, <3>6, <4>2, <1>d
    <3>7. CASE c < chain
      BY <3>2, <3>3, <3>4, <3>7, <1>d
    <3> QED BY <3>2, <3>5, <3>6, <3>7, <1>d
  <2>2. \A j \in 0 .. capacity - 1 : nodes'[j] \in Key \cup {None}
    BY <1>a, <1>c, <1>f DEF Moving
  <2>3. \A j \in 0 .. capacity - 1 : \A k \in ChainOf(next', nodes'[j]) : Index(k, capacity) = j
    BY <1>c, <1>i, <1>p DEF Moving, Chain
  <2>4. \A k \in ChainOf(next', next[node]) : Index(k, newCap) = chain
    BY <1>c, <1>p DEF Moving, Chain
  <2>5. \A j \in chain + 1 .. newCap - 1 : \A k \in ChainOf(next', old[j]) : Index(k, newCap) = j
    BY <1>c, <1>p DEF Moving, Chain
  <2>6. ASSUME NEW k \in Key
        PROVE  /\ k \in Bound <=> k \in ChainOf(next', nodes'[Index(k, capacity)]) \/ k \in Left(k)'
               /\ ~(k \in ChainOf(next', nodes'[Index(k, capacity)]) /\ k \in Left(k)')
    <3>1. PICK j : j = Index(k, capacity)
      OBVIOUS
    <3>2. j \in 0 .. capacity - 1 /\ (k = node => j = i)
      BY <3>1, <1>i, TypeFacts
    <3>3. k \in ChainOf(next', nodes'[j]) <=> k = node \/ k \in ChainOf(next, nodes[j])
      BY <3>2, <1>p
    <3>4. k \in Left(k)' <=> k \in Left(k) /\ k # node
      BY <2>1
    <3>5. /\ k \in Bound <=> k \in ChainOf(next, nodes[j]) \/ k \in Left(k)
          /\ ~(k \in ChainOf(next, nodes[j]) /\ k \in Left(k))
      BY <3>1, <1>c DEF Moving, Chain
    <3> QED BY <3>1, <3>3, <3>4, <3>5, <1>k
  <2>7. /\ chain \in 0 .. newCap - 1 /\ \A j \in 0 .. newCap - 1 : old[j] \in Key \cup {None}
    BY <1>c DEF Moving
  <2> HIDE DEF Left
  <2> QED BY <1>a, <1>b, <1>g, <2>2, <2>3, <2>4, <2>5, <2>6, <2>7 DEF Moving, Chain, Index
<1>3. \A k \in Bound : k \notin ChainOf(next', next'[k])
  <2>1. ASSUME NEW k \in Bound, k # node PROVE k \notin ChainOf(next', next'[k])
    <3>1. next'[k] = next[k] /\ k \in Key /\ k \notin ChainOf(next, next[k])
      BY <2>1, <1>f, TypeFacts DEF TableInv, ArrayInv, Chain
    <3>2. CASE node \notin ChainOf(next, next[k])
      BY <3>1, <3>2, <1>o
    <3>3. CASE node \in ChainOf(next, next[k])
      <4>1. ChainOf(next, k) = {k} \cup ChainOf(next, next[k])
        BY <3>1, <1>g, ChainUnfolds
      <4>2. node \in ChainOf(next, k)
        BY <3>3, <4>1
      <4>3. PICK j : j = Index(k, capacity)
        OBVIOUS
      <4>4. PICK c : c = Index(k, newCap)
        OBVIOUS
      <4>5. j \in 0 .. capacity - 1 /\ c \in 0 .. newCap - 1
        BY <3>1, <4>3, <4>4, <1>d, IndexType, TypeFacts
      <4>6. k \notin ChainOf(next, nodes[j])
        BY <4>2, <4>5, <1>g, <1>l, ChainWithin
      <4>7. k \in Left(k)
        BY <4>3, <4>6, <3>1, <2>1, <1>c DEF Moving, Chain
      <4>8. CASE c = chain
        <5>1. k \in ChainOf(next, next[node])
          BY <4>4, <4>7, <4>8, <2>1, <1>h DEF Left, Chain
        <5>2. node \in ChainOf(next, next[node])
          BY <5>1, <4>2, <1>g, ChainWithin
        <5> QED BY <5>2, <1>m
      <4>9. CASE c # chain
        <5>1. c > chain /\ k \in ChainOf(next, old[c])
          BY <4>4, <4>7, <4>9 DEF Left, Chain
        <5>2. c \in chain + 1 .. newCap - 1
          BY <5>1, <4>5, <1>d
        <5>3. node \in ChainOf(next, old[c])
          BY <5>1, <4>2, <1>g, ChainWithin
        <5> QED BY <5>2, <5>3, <1>n
      <4> QED BY <4>8, <4>9
    <3> QED BY <3>2, <3>3
  <2>2. node \notin ChainOf(next', next'[node])
    <3>1. next'[node] = nodes[i]
      BY <1>a, <1>f
    <3>2. node \notin ChainOf(next, nodes[i])
      BY <1>e, <1>l
    <3> QED BY <3>1, <3>2, <1>o
  <2> QED BY <2>1, <2>2
<1>4. ArrayInv'
  BY <1>a, <1>b, <1>2, <1>3 DEF ArrayInv, Chain
<1>5. NodeInv'
  BY <1>a, <1>b DEF TableInv, NodeInv
<1>6. SizeInv'
  <2>1. Cardinality(Bound)' = Cardinality(Bound)
    BY <1>b
  <2> QED BY <1>a, <2>1 DEF TableInv, SizeInv
<1>7. OpInv'
  BY <1>a DEF TableInv, OpInv
<1>8. LookupInv'
  BY <1>a, LookupBlind DEF TableInv, LookupInv, TableTypeOK
<1> QED BY <1>1, <1>4, <1>5, <1>6, <1>7, <1>8 DEF TableInv

LEMMA StepErase == ASSUME TableInv, NEW k \in Key, Erase(k) PROVE TableInv'
<1>i. PICK i : i = Index(k, capacity)
  OBVIOUS
<1>a. /\ wpc = "idle" /\ rpc = "idle" /\ k \in ChainOf(next, nodes[i])
      /\ nodes' = IF nodes[i] = k THEN [nodes EXCEPT ![i] = next[k]] ELSE nodes
      /\ next' = [n \in Key |-> IF n = k THEN None ELSE IF next[n] = k THEN next[k] ELSE next[n]]
      /\ value' = [value EXCEPT ![k] = None] /\ map' = [map EXCEPT ![k] = None]
      /\ size' = size - 1
      /\ seen' = IF rkey = k THEN seen \cup {None} ELSE seen
      /\ UNCHANGED <<old, capacity, chain, node, reader, resized>>
  BY <1>i DEF Erase, Bind, Chain
<1>z. \/ wpc' = "malloc" /\ newCap' = MinCapacity /\ op' = [Idle EXCEPT !.func = "erase"] /\ size = 1
      \/ wpc' = "idle" /\ newCap' \in {newCap, MinCapacity} /\ op' = Idle
  <2>1. op = Idle
    BY <1>a DEF TableInv, OpInv
  <2>2. size = 1 => /\ newCap' = MinCapacity
                    /\ wpc' = IF Resizes(0) THEN "malloc" ELSE "idle"
                    /\ op' = IF Resizes(0) THEN [Idle EXCEPT !.func = "erase"] ELSE Idle
    <3>1. 0 < MinCapacity
      BY TableAssumption
    <3> QED BY <3>1 DEF Erase, Resize
  <2>3. size # 1 => UNCHANGED <<op, wpc, newCap>>
    BY DEF Erase
  <2> HIDE DEF Resizes
  <2> QED BY <2>1, <2>2, <2>3, <1>a
<1>b. Placed(nodes, capacity, next, Bound)
  BY <1>a DEF TableInv, ArrayInv
<1>c. i \in 0 .. capacity - 1 /\ i \in 0 .. MaxIndex /\ \A j \in 0 .. capacity - 1 : j \in 0 .. MaxIndex
  BY <1>i, TypeFacts, MaxIndexType
<1>d. k \in Bound /\ next[k] \in Key \cup {None} /\ k \notin ChainOf(next, next[k]) /\ next[k] # k
  <2>1. k \in Bound
    BY <1>a, <1>b, <1>i DEF Placed
  <2>2. k \notin ChainOf(next, next[k])
    BY <2>1 DEF TableInv, ArrayInv, Chain
  <2>3. next[k] # k
    BY <2>2, ChainStarts
  <2> QED BY <2>1, <2>2, <2>3, TypeFacts
<1>e. next \in [Key -> Key \cup {None}] /\ next' \in [Key -> Key \cup {None}]
  BY <1>a, <1>d, TypeFacts
<1>f. /\ \A j \in Key : j # k => next'[j] = IF next[j] = k THEN next[k] ELSE next[j]
      /\ \A j \in Key : map'[j] = IF j = k THEN None ELSE map[j]
      /\ \A j \in Key : value'[j] = IF j = k THEN None ELSE value[j]
      /\ nodes' \in Array
      /\ \A j \in 0 .. MaxIndex : nodes'[j] = IF j = i /\ nodes[i] = k THEN next[k] ELSE nodes[j]
  BY <1>a, <1>c, <1>d DEF TableInv, TableTypeOK, Array
<1>g. Bound' = Bound \ {k}
  BY <1>f DEF Bound
\* every chain but the one that starts with k loses k
<1>h. \A n : n # k => ChainOf(next', n) = ChainOf(next, n) \ {k}
  BY <1>d, <1>e, <1>f, ChainSkips
<1>k. \A j \in 0 .. capacity - 1 : ChainOf(next', nodes'[j]) = ChainOf(next, nodes[j]) \ {k}
  <2> SUFFICES ASSUME NEW j \in 0 .. capacity - 1
               PROVE  ChainOf(next', nodes'[j]) = ChainOf(next, nodes[j]) \ {k}
    OBVIOUS
  <2>1. CASE nodes[j] # k
    <3>1. nodes'[j] = nodes[j]
      BY <2>1, <1>c, <1>f
    <3> QED BY <3>1, <2>1, <1>h
  <2>2. CASE nodes[j] = k
    <3>1. j = i
      BY <2>2, <1>b, <1>i, ChainStarts DEF Placed
    <3>2. nodes'[j] = next[k]
      BY <3>1, <2>2, <1>c, <1>f
    <3>3. ChainOf(next, k) = {k} \cup ChainOf(next, next[k])
      BY <1>e, ChainUnfolds
    <3>4. ChainOf(next', next[k]) = ChainOf(next, next[k]) \ {k}
      BY <1>d, <1>h
    <3> QED BY <3>2, <3>3, <3>4, <2>2
  <2> QED BY <2>1, <2>2
<1>l. size \in Nat /\ size > 0 /\ Cardinality(Bound) = size
  <2>1. Cardinality(Bound) = size
    BY <1>a DEF TableInv, SizeInv
  <2>2. Cardinality(Bound) # 0
    BY <1>d, BoundFinite, FS_EmptySet
  <2> QED BY <2>1, <2>2, TypeFacts
<1>1. TableTypeOK'
  <2>1. map' \in [Key -> Value \cup {None}] /\ value' \in [Key -> Value \cup {None}]
    BY <1>a DEF TableInv, TableTypeOK
  <2>2. op' \in Op
    BY <1>z DEF Op, Idle
  <2>3. newCap' \in 0 .. MaxIndex /\ size' \in 0 .. capacity
    BY <1>a, <1>l, <1>z, MaxIndexType, TypeFacts DEF TableInv, TableTypeOK
  <2>4. seen' \subseteq Value \cup {None}
    BY <1>a DEF TableInv, TableTypeOK
  <2> QED BY <1>a, <1>e, <1>f, <1>z, <2>1, <2>2, <2>3, <2>4 DEF TableInv, TableTypeOK, reader
<1>2. ArrayInv'
  <2>1. Placed(nodes', capacity, next', Bound')
    <3>1. \A j \in 0 .. capacity - 1 : nodes'[j] \in Key \cup {None}
      BY <1>b, <1>c, <1>d, <1>f DEF Placed
    <3>2. \A j \in 0 .. capacity - 1 : \A m \in ChainOf(next', nodes'[j]) : Index(m, capacity) = j
      BY <1>b, <1>k DEF Placed
    <3>3. \A m \in Key : Index(m, capacity) \in 0 .. capacity - 1
      BY TypeFacts
    <3>4. \A m \in Key : m \in Bound' <=> m \in ChainOf(next', nodes'[Index(m, capacity)])
      BY <1>b, <1>g, <1>k, <3>3 DEF Placed
    <3> QED BY <3>1, <3>2, <3>4 DEF Placed
  <2>2. ASSUME NEW m \in Bound' PROVE m \notin ChainOf(next', next'[m])
    <3>1. m \in Bound /\ m # k /\ m \in Key
      BY <1>g, TypeFacts
    <3>2. m \notin ChainOf(next, next[m])
      BY <3>1 DEF TableInv, ArrayInv, Chain
    <3>3. CASE next[m] = k
      <4>1. next'[m] = next[k]
        BY <3>1, <3>3, <1>f
      <4>2. ChainOf(next, k) = {k} \cup ChainOf(next, next[k])
        BY <1>e, ChainUnfolds
      <4>3. ChainOf(next', next[k]) \subseteq ChainOf(next, next[k])
        BY <1>d, <1>h
      <4> QED BY <3>2, <3>3, <4>1, <4>2, <4>3
    <3>4. CASE next[m] # k
      <4>1. next'[m] = next[m]
        BY <3>1, <3>4, <1>f
      <4>2. ChainOf(next', next[m]) \subseteq ChainOf(next, next[m])
        BY <3>4, <1>h
      <4> QED BY <3>2, <4>1, <4>2
    <3> QED BY <3>3, <3>4
  <2> QED BY <1>a, <1>z, <2>1, <2>2 DEF ArrayInv, Chain, Placed, Index
<1>3. NodeInv'
  <2>1. \A m \in Bound' : value'[m] = map'[m]
    BY <1>f, <1>g, TypeFacts DEF TableInv, NodeInv
  <2> QED BY <1>z, <2>1 DEF NodeInv
<1>4. SizeInv'
  <2>1. Cardinality(Bound \ {k}) = Cardinality(Bound) - 1
    BY <1>d, BoundFinite, FS_RemoveElement
  <2>2. Cardinality(Bound)' = size - 1
    BY <1>g, <1>l, <2>1
  <2> QED BY <1>a, <1>l, <1>z, <2>2, MaxIndexType DEF SizeInv, Idle
<1>5. OpInv'
  BY <1>z DEF OpInv, Idle
<1>6. LookupInv'
  BY <1>a DEF LookupInv, LookupLinear, reader
<1> QED BY <1>1, <1>2, <1>3, <1>4, <1>5, <1>6 DEF TableInv

LEMMA StepReserve ==
  ASSUME TableInv, NEW n \in 0 .. LoadFactor * MaxCapacity, Reserve(n) PROVE TableInv'
<1>q. PICK q : q = n \div LoadFactor
  OBVIOUS
<1>a. /\ wpc = "idle" /\ rpc = "idle" /\ n > LoadFactor * capacity
      /\ newCap' = (IF q < MinCapacity THEN MinCapacity ELSE q)
      /\ wpc' = (IF Resizes(q) THEN "malloc" ELSE "idle")
      /\ op' = (IF Resizes(q) THEN [Idle EXCEPT !.func = "reserve"] ELSE Idle)
      /\ UNCHANGED <<nodes, old, capacity, size, next, value, chain, node, map, reader, seen, resized>>
  BY <1>q DEF Reserve, Resize, table
<1>b. Bound' = Bound
  BY <1>a DEF Bound
<1>c. q \in Nat /\ q >= capacity /\ q <= MaxCapacity
  BY <1>a, <1>q, ReserveCapacity, TypeFacts
<1>d. newCap' \in MinCapacity .. MaxIndex /\ newCap' >= capacity /\ newCap' \in 0 .. MaxIndex
  <2>1. MaxCapacity \in Nat /\ MaxIndex \in Nat /\ MinCapacity \in Nat /\ MinCapacity > 0 /\ capacity \in Nat
    BY TableAssumption, MaxIndexType, TypeFacts
  <2>2. capacity >= MinCapacity
    BY <2>1 DEF TableInv, TableTypeOK
  <2>3. newCap' = q /\ q <= MaxIndex /\ q >= MinCapacity
    <3>1. q <= MaxIndex
      BY <1>c, <2>1, MaxIndexType
    <3>2. q >= MinCapacity
      BY <1>c, <2>1, <2>2
    <3>3. ~(q < MinCapacity)
      BY <3>2, <1>c, <2>1
    <3> QED BY <3>1, <3>2, <3>3, <1>a
  <2> QED BY <2>1, <2>3, <1>c
<1>1. TableTypeOK'
  <2>1. op' \in Op
    BY <1>a DEF Op, Idle
  <2> QED BY <1>a, <1>d, <2>1 DEF TableInv, TableTypeOK, reader
<1>2. ArrayInv'
  <2>1. Placed(nodes, capacity, next, Bound)'
    BY <1>a, <1>b DEF TableInv, ArrayInv, Placed, Index
  <2> QED BY <1>a, <1>b, <2>1 DEF TableInv, ArrayInv, Chain
<1>3. NodeInv'
  BY <1>a, <1>b DEF TableInv, NodeInv
<1>4. SizeInv'
  <2>1. Cardinality(Bound)' = size
    BY <1>a, <1>b DEF TableInv, SizeInv
  <2>2. size <= capacity
    BY TypeFacts DEF TableInv, TableTypeOK
  <2>3. op'.func # "insert"
    BY <1>a DEF Idle
  <2>4. size <= newCap'
    BY <1>d, <2>2, TypeFacts, MaxIndexType
  <2> QED BY <1>a, <1>d, <2>1, <2>3, <2>4 DEF SizeInv
<1>5. OpInv'
  BY <1>a DEF OpInv, Idle
<1>6. LookupInv'
  BY <1>a DEF LookupInv, LookupLinear, reader
<1> QED BY <1>1, <1>2, <1>3, <1>4, <1>5, <1>6 DEF TableInv

LEMMA StepClear == ASSUME TableInv, Clear PROVE TableInv'
<1>a. /\ wpc = "idle" /\ rpc = "idle" /\ nodes' = Empty /\ capacity' = MinCapacity /\ size' = 0
      /\ next' = [k \in Key |-> None] /\ value' = [k \in Key |-> None] /\ map' = [k \in Key |-> None]
      /\ UNCHANGED <<old, op, wpc, newCap, chain, node, reader, seen, resized>>
  BY DEF Clear, writer
<1>b. Bound' = {}
  BY <1>a DEF Bound
<1>1. TableTypeOK'
  <2>1. nodes' \in Array
    BY <1>a DEF Array, Empty
  <2>2. capacity' \in MinCapacity .. MaxIndex /\ size' \in 0 .. capacity'
    BY <1>a, MaxIndexType
  <2>3. next' \in [Key -> Key \cup {None}] /\ value' \in [Key -> Value \cup {None}]
        /\ map' \in [Key -> Value \cup {None}]
    BY <1>a
  <2> QED BY <1>a, <2>1, <2>2, <2>3 DEF TableInv, TableTypeOK, reader
<1>2. ArrayInv'
  <2>1. \A i \in 0 .. MinCapacity - 1 : nodes'[i] = None
    BY <1>a, MaxIndexType DEF Empty
  <2>2. \A k \in Key : Index(k, MinCapacity) \in 0 .. MinCapacity - 1
    BY IndexType, MaxIndexType
  <2>3. ChainOf(next', None) = {}
    BY ChainOfNone, NoneIsNoKey
  <2>4. Placed(nodes', MinCapacity, next', {})
    BY <2>1, <2>2, <2>3 DEF Placed
  <2> QED BY <1>a, <1>b, <2>4 DEF ArrayInv
<1>3. NodeInv'
  BY <1>a, <1>b DEF NodeInv
<1>4. SizeInv'
  <2>1. Cardinality(Bound)' = 0
    BY <1>b, FS_EmptySet
  <2> QED BY <1>a, <2>1 DEF SizeInv
<1>5. OpInv'
  BY <1>a DEF TableInv, OpInv
<1>6. LookupInv'
  BY <1>a DEF LookupInv, LookupLinear, reader
<1> QED BY <1>1, <1>2, <1>3, <1>4, <1>5, <1>6 DEF TableInv

\* The steps of the reader leave the table and the writer alone.
LEMMA WriterKept ==
  ASSUME TableInv, UNCHANGED <<table, writer, map>>
  PROVE  ArrayInv' /\ NodeInv' /\ SizeInv' /\ OpInv'
<1>a. UNCHANGED <<nodes, old, capacity, size, next, value, op, wpc, newCap, chain, node, map>>
  BY DEF table, writer
<1>b. Bound' = Bound
  BY <1>a DEF Bound
<1>1. ArrayInv'
  <2>1. Placed(nodes, capacity, next, Bound)' = Placed(nodes, capacity, next, Bound)
        /\ Placed(old, capacity, next, Bound)' = Placed(old, capacity, next, Bound)
    BY <1>a, <1>b DEF Placed, Index
  <2>2. Moving' = Moving
    BY <1>a, <1>b DEF Moving, Chain, Left, Index
  <2> QED BY <1>a, <1>b, <2>1, <2>2 DEF TableInv, ArrayInv, Chain, Empty
<1>2. SizeInv'
  <2>1. Cardinality(Bound)' = Cardinality(Bound)
    BY <1>b
  <2> QED BY <1>a, <2>1 DEF TableInv, SizeInv
<1> QED BY <1>a, <1>b, <1>1, <1>2 DEF TableInv, NodeInv, OpInv, Index

LEMMA StepLookup == ASSUME TableInv, NEW k \in Key, Lookup(k) PROVE TableInv'
<1>a. /\ rpc' = "head" /\ rkey' = k /\ rindex' = Index(k, capacity) /\ seen' = {map[k]}
      /\ resized' = (wpc \in Rebuilding) /\ UNCHANGED <<table, writer, map, rnode, rval>>
  BY DEF Lookup, Rebuilding
<1>1. TableTypeOK'
  <2>1. rindex' \in 0 .. MaxIndex /\ seen' \subseteq Value \cup {None}
    BY <1>a, TypeFacts, MaxIndexType DEF TableInv, TableTypeOK
  <2> QED BY <1>a, <2>1 DEF TableInv, TableTypeOK, table, writer
<1>2. LookupInv'
  BY <1>a DEF LookupInv, LookupLinear, Rebuilding, table, writer, Index
<1> QED BY <1>a, <1>1, <1>2, WriterKept DEF TableInv

LEMMA StepLookupHead == ASSUME TableInv, LookupHead PROVE TableInv'
<1>a. /\ rpc = "head" /\ rpc' = "walk" /\ rnode' = nodes[rindex]
      /\ UNCHANGED <<table, writer, map, rkey, rindex, rval, seen, resized>>
  BY DEF LookupHead
<1>1. TableTypeOK'
  <2>1. rnode' \in Key \cup {None, Garbage}
    BY <1>a DEF TableInv, TableTypeOK, Array
  <2> QED BY <1>a, <2>1 DEF TableInv, TableTypeOK, table, writer
<1>2. LookupInv'
  <2>1. Bound' = Bound /\ Chain(rnode)' = ChainOf(next, rnode')
    BY <1>a DEF Bound, Chain, table
  <2>2. rkey \in Key /\ map[rkey] \in seen
    BY <1>a DEF TableInv, LookupInv
  <2>3. ASSUME ~resized
        PROVE  /\ wpc \notin Rebuilding
               /\ nodes[rindex] \in Bound \cup {None}
               /\ None \notin seen => rkey \in ChainOf(next, nodes[rindex])
    <3>1. wpc \notin Rebuilding /\ rindex = Index(rkey, capacity)
      BY <1>a, <2>3 DEF TableInv, LookupInv, Rebuilding
    <3>2. Placed(nodes, capacity, next, Bound)
      BY <3>1 DEF TableInv, ArrayInv, TableTypeOK, Rebuilding
    <3>3. rindex \in 0 .. capacity - 1
      BY <2>2, <3>1, TypeFacts
    <3>4. nodes[rindex] \in Bound \cup {None}
      BY <3>2, <3>3, BoundChain, TypeFacts
    <3>5. None \notin seen => rkey \in Bound
      BY <2>2 DEF Bound
    <3> QED BY <3>1, <3>2, <3>4, <3>5, <2>2 DEF Placed
  <2> QED BY <1>a, <2>1, <2>2, <2>3 DEF LookupInv, LookupLinear, Rebuilding, table, writer
<1> QED BY <1>a, <1>1, <1>2, WriterKept DEF TableInv

LEMMA StepLookupEnds == ASSUME TableInv, LookupEnds PROVE TableInv'
<1>a. /\ rpc = "walk" /\ rnode \in {rkey, None, Garbage} /\ rpc' = "done"
      /\ rval' = (IF rnode = rkey THEN value[rkey] ELSE rnode)
      /\ UNCHANGED <<table, writer, map, rkey, rindex, rnode, seen, resized>>
  BY DEF LookupEnds
<1>b. rkey \in Key /\ map[rkey] \in seen
  BY <1>a DEF TableInv, LookupInv
<1>1. TableTypeOK'
  <2>1. rval' \in Value \cup {None, Garbage}
    BY <1>a, <1>b DEF TableInv, TableTypeOK
  <2> QED BY <1>a, <2>1 DEF TableInv, TableTypeOK, table, writer
<1>2. LookupInv'
  <2>1. ASSUME ~resized PROVE rval' \in seen
    <3>1. rnode \in Bound \cup {None} /\ (None \notin seen => rkey \in Chain(rnode))
      BY <1>a, <2>1 DEF TableInv, LookupInv
    <3>2. CASE rnode = rkey
      <4>1. rkey \in Bound
        BY <3>1, <3>2, <1>b, NoneIsNoKey
      <4> QED BY <4>1, <3>2, <1>a, <1>b DEF TableInv, NodeInv
    <3>3. CASE rnode # rkey
      <4>1. rnode = None
        BY <3>1, <3>3, <1>a, NoneIsNoKey, TypeFacts
      <4>2. Chain(rnode) = {}
        BY <4>1, ChainOfNone, NoneIsNoKey DEF Chain
      <4> QED BY <3>1, <3>3, <4>1, <4>2, <1>a
    <3> QED BY <3>2, <3>3
  <2>2. rpc # "idle" /\ ~resized => wpc \notin Rebuilding
    BY DEF TableInv, LookupInv, Rebuilding
  <2> QED BY <1>a, <1>b, <2>1, <2>2 DEF LookupInv, LookupLinear, Rebuilding, table, writer
<1> QED BY <1>a, <1>1, <1>2, WriterKept DEF TableInv

LEMMA StepLookupNext == ASSUME TableInv, LookupNext PROVE TableInv'
<1>a. /\ rpc = "walk" /\ rnode \in Key \ {rkey} /\ rnode' = next[rnode]
      /\ UNCHANGED <<table, writer, map, rpc, rkey, rindex, rval, seen, resized>>
  BY DEF LookupNext
<1>1. TableTypeOK'
  <2>1. rnode' \in Key \cup {None, Garbage}
    BY <1>a, TypeFacts
  <2> QED BY <1>a, <2>1 DEF TableInv, TableTypeOK, table, writer
<1>2. LookupInv'
  <2>1. Bound' = Bound /\ Chain(rnode)' = ChainOf(next, rnode')
    BY <1>a DEF Bound, Chain, table
  <2>2. ASSUME ~resized
        PROVE  /\ wpc \notin Rebuilding /\ next[rnode] \in Bound \cup {None}
               /\ None \notin seen => rkey \in ChainOf(next, next[rnode])
    <3>1. rnode \in Bound /\ wpc \notin Rebuilding /\ (None \notin seen => rkey \in ChainOf(next, rnode))
      BY <1>a, <2>2, NoneIsNoKey DEF TableInv, LookupInv, Rebuilding, Chain
    <3>2. next[rnode] \in Bound \cup {None}
      BY <3>1, <1>a, <2>2, LookupSees
    <3>3. ChainOf(next, rnode) = {rnode} \cup ChainOf(next, next[rnode])
      BY <1>a, ChainUnfolds, TypeFacts
    <3> QED BY <3>1, <3>2, <3>3, <1>a
  <2> QED BY <1>a, <2>1, <2>2 DEF TableInv, LookupInv, LookupLinear, Rebuilding, table, writer
<1> QED BY <1>a, <1>1, <1>2, WriterKept DEF TableInv

LEMMA StepLookupUsed == ASSUME TableInv, LookupUsed PROVE TableInv'
<1>a. /\ rpc' = "idle" /\ rkey' = None /\ rindex' = 0 /\ rnode' = None /\ rval' = None
      /\ seen' = {} /\ resized' = FALSE /\ UNCHANGED <<table, writer, map>>
  BY DEF LookupUsed
<1>1. TableTypeOK'
  <2>1. rindex' \in 0 .. MaxIndex /\ seen' \subseteq Value \cup {None}
    BY <1>a, MaxIndexType
  <2> QED BY <1>a, <2>1 DEF TableInv, TableTypeOK, table, writer
<1>2. LookupInv'
  BY <1>a DEF LookupInv, LookupLinear
<1> QED BY <1>a, <1>1, <1>2, WriterKept DEF TableInv

-----------------------------------------------------------------------------
(* The theorem.                                                            *)

LEMMA InvNext == TableInv /\ [TableNext]_tableVars => TableInv'
<1> SUFFICES ASSUME TableInv, [TableNext]_tableVars PROVE TableInv'
  OBVIOUS
<1>1. CASE \E k \in Key, v \in Value : Insert(k, v)
  BY <1>1, StepInsert
<1>2. CASE Inserting
  BY <1>2, StepInsertUpdates, StepCreateNode, StepPushFront, StepInserted DEF Inserting
<1>3. CASE Resizing
  BY <1>3, StepMalloc, StepMemset, StepSetCapacity, StepRehash, StepRehashChain, StepRehashDone DEF Resizing
<1>4. CASE Looking
  BY <1>4, StepLookupHead, StepLookupEnds, StepLookupNext, StepLookupUsed DEF Looking
<1>5. CASE Clear
  BY <1>5, StepClear
<1>6. CASE \E k \in Key : Erase(k) \/ Lookup(k)
  BY <1>6, StepErase, StepLookup
<1>7. CASE \E n \in 0 .. LoadFactor * MaxCapacity : Reserve(n)
  BY <1>7, StepReserve
<1>8. CASE UNCHANGED tableVars
  <2>1. UNCHANGED <<table, writer, map, reader, seen, resized>>
    BY <1>8 DEF tableVars
  <2>2. TableTypeOK'
    BY <2>1 DEF TableInv, TableTypeOK, table, writer, reader
  <2>3. LookupInv'
    BY <2>1, LookupKept DEF table, writer
  <2> QED BY <2>1, <2>2, <2>3, WriterKept DEF TableInv
<1> QED BY <1>1, <1>2, <1>3, <1>4, <1>5, <1>6, <1>7, <1>8 DEF TableNext

LEMMA InvSound == TableInv => TableSound
<1> SUFFICES ASSUME TableInv PROVE TableSound
  OBVIOUS
<1>1. ASSUME wpc = "idle"
      PROVE  /\ \A k \in Key, i \in 0 .. capacity - 1 :
                  k \in Chain(nodes[i]) <=> map[k] # None /\ i = Index(k, capacity)
             /\ \A k \in Key : map[k] # None => value[k] = map[k]
             /\ size = Cardinality({k \in Key : map[k] # None})
  <2>1. Placed(nodes, capacity, next, Bound)
    BY <1>1 DEF TableInv, ArrayInv
  <2>2. \A k \in Key : k \in Bound <=> map[k] # None
    BY DEF Bound
  <2>3. \A k \in Key, i \in 0 .. capacity - 1 :
          k \in Chain(nodes[i]) <=> map[k] # None /\ i = Index(k, capacity)
    BY <2>1, <2>2 DEF Placed, Chain
  <2>4. size = Cardinality(Bound)
    BY <1>1 DEF TableInv, SizeInv
  <2> QED BY <2>2, <2>3, <2>4 DEF TableInv, NodeInv, Bound
<1> QED BY <1>1 DEF TableSound, TableIsMap, TableInv

\* Between operations the table is the map it stands for, at any size and
\* after any growing, shrinking and erasing (ht_insert, ht_erase, _ht_rehash).
THEOREM TableStaysSound == TableSpec => []TableSound
<1>1. TableInit => TableInv
  BY InvInit
<1>2. TableInv /\ [TableNext]_tableVars => TableInv'
  BY InvNext
<1>3. TableInv => TableSound
  BY InvSound
<1> QED BY <1>1, <1>2, <1>3, PTL DEF TableSpec

\* A lookup beside insertions returns a value the key had meanwhile, unless
\* the table was being rebuilt (ht_lookup without a lock).
THEOREM LookupsLinear == TableSpec => []LookupLinear
<1>1. TableInv => LookupLinear
  BY DEF TableInv, LookupInv
<1> QED BY <1>1, InvInit, InvNext, PTL DEF TableSpec
=============================================================================
