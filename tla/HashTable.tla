----------------------------- MODULE HashTable -----------------------------
(***************************************************************************)
(* The hash table of util/hashtable.c, which globalOS uses as              *)
(* fifo_guuid_table: one thread inserts, and the other may be in ht_lookup *)
(* at the same time without a lock.                                        *)
(*                                                                         *)
(* A table has at most one node for a key, so the key names the node and   *)
(* None is NULL.  ht_insert and the resizing it may start are taken store  *)
(* by store; the walk of ht_lookup node by node.  The operations that      *)
(* globalOS does not use run only while nobody looks up.  malloc succeeds. *)
(***************************************************************************)
EXTENDS Integers, FiniteSets

CONSTANTS
  Key, Value,
  None,         \* NULL, and the value of a key that is not bound
  Garbage,      \* what malloc leaves in the new array
  Hash,         \* table->hash
  MinCapacity,  \* HT_MINIMUM_CAPACITY
  LoadFactor,   \* HT_LOAD_FACTOR
  MaxCapacity   \* bound: ht_reserve is not asked for more

ASSUME TableAssumption ==
  /\ None \notin Key \cup Value
  /\ Garbage \notin Key \cup Value \cup {None}
  /\ IsFiniteSet(Key)
  /\ Hash \in [Key -> Nat]
  /\ MinCapacity \in Nat \ {0}
  /\ LoadFactor \in Nat \ {0}
  /\ MaxCapacity \in Nat /\ MaxCapacity >= MinCapacity

VARIABLES
  nodes,      \* table->nodes; MaxIndex long, of which capacity are allocated
  old,        \* the array that _ht_resize takes the nodes from
  capacity,   \* table->capacity; table->threshold is LoadFactor times that
  size,       \* table->size
  next,       \* node->next
  value,      \* node->value
  op,         \* what the writer is doing: an operation and its arguments
  wpc,        \* where it is
  newCap,     \* the new_capacity of _ht_resize; from _ht_rehash on, old_capacity
  chain,      \* the chain that _ht_rehash has come to
  node,       \* and the node
  map,        \* history: the binding of every key
  rpc, rkey,  \* the reader: where it is and what it looks up
  rindex, rnode, rval, \*  its index and node, and what ht_lookup returned
  seen,       \* history: the values of rkey since the lookup began
  resized     \* history: the table was being resized during the lookup

table == <<nodes, old, capacity, size, next, value>>
writer == <<op, wpc, newCap, chain, node>>
reader == <<rpc, rkey, rindex, rnode, rval>>
tableVars == <<table, writer, map, reader, seen, resized>>

MaxIndex == 2 * (MaxCapacity + Cardinality(Key))
Array == [0 .. MaxIndex -> Key \cup {None, Garbage}]
Empty == [i \in 0 .. MaxIndex |-> None]

Idle == [func |-> "none", key |-> None, value |-> None]
Op == [func : {"none", "insert", "erase", "reserve"}, key : Key \cup {None},
       value : Value \cup {None}]

TableTypeOK ==
  /\ nodes \in Array /\ old \in Array
  /\ capacity \in MinCapacity .. MaxIndex
  /\ size \in 0 .. capacity
  /\ next \in [Key -> Key \cup {None}]
  /\ value \in [Key -> Value \cup {None}]
  /\ op \in Op
  /\ wpc \in {"idle", "malloc", "memset", "capacity", "rehash", "find", "link", "size"}
  /\ newCap \in 0 .. MaxIndex
  /\ chain \in 0 .. MaxIndex + 1
  /\ node \in Key \cup {None, Garbage}
  /\ map \in [Key -> Value \cup {None}]
  /\ rpc \in {"idle", "head", "walk", "done"}
  /\ rkey \in Key \cup {None}
  /\ rindex \in 0 .. MaxIndex
  /\ rnode \in Key \cup {None, Garbage}
  /\ rval \in Value \cup {None, Garbage}
  /\ seen \subseteq Value \cup {None}
  /\ resized \in BOOLEAN

\* ht_setup with a capacity of at most HT_MINIMUM_CAPACITY
TableInit ==
  /\ nodes = Empty /\ old = Empty /\ capacity = MinCapacity /\ size = 0
  /\ next = [k \in Key |-> None] /\ value = [k \in Key |-> None]
  /\ op = Idle /\ wpc = "idle" /\ newCap = 0 /\ chain = 0 /\ node = None
  /\ map = [k \in Key |-> None]
  /\ rpc = "idle" /\ rkey = None /\ rindex = 0 /\ rnode = None /\ rval = None
  /\ seen = {} /\ resized = FALSE

\* _ht_hash
Index(k, cap) == Hash[k] % cap

\* the nodes of the chain that starts with n, by the next pointers nx: the
\* least set with n that the pointers do not leave
ChainOf(nx, n) ==
  {k \in Key : \A S \in SUBSET Key :
     (n \in Key => n \in S) /\ (\A j \in S : nx[j] \in S \cup {None}) => k \in S}
Chain(n) == ChainOf(next, n)

\* The abstract value of key k becomes v; a lookup under way may see it.
Bind(k, v) ==
  /\ map' = [map EXCEPT ![k] = v]
  /\ seen' = IF rkey = k THEN seen \cup {v} ELSE seen

-----------------------------------------------------------------------------
(* Resizing.                                                               *)

\* _ht_resize: a small capacity is raised to the minimum, or nothing is done
Resizes(cap) == cap >= MinCapacity \/ capacity > MinCapacity
Resize(cap, else) ==
  /\ newCap' = IF cap < MinCapacity THEN MinCapacity ELSE cap
  /\ wpc' = IF Resizes(cap) THEN "malloc" ELSE else

\* _ht_allocate: table->nodes points to memory that has not been cleared,
Malloc ==
  /\ wpc = "malloc" /\ wpc' = "memset"
  /\ old' = nodes
  /\ nodes' = [i \in 0 .. MaxIndex |-> Garbage]
  /\ resized' = (rpc # "idle")
  /\ UNCHANGED <<capacity, size, next, value, op, newCap, chain, node, map, reader, seen>>

\* then it is cleared,
Memset ==
  /\ wpc = "memset" /\ wpc' = "capacity"
  /\ nodes' = Empty
  /\ UNCHANGED <<old, capacity, size, next, value, op, newCap, chain, node, map,
                 reader, seen, resized>>

\* and the capacity follows; _ht_rehash begins
SetCapacity ==
  /\ wpc = "capacity" /\ wpc' = "rehash"
  /\ capacity' = newCap
  /\ chain' = 0 /\ node' = old[0]
  /\ newCap' = capacity
  /\ UNCHANGED <<nodes, old, size, next, value, op, map, reader, seen, resized>>

\* Mutant of Rehash: the nodes keep their place
RehashKeeps ==
  /\ wpc = "rehash" /\ node \in Key
  /\ next' = [next EXCEPT ![node] = nodes[chain]]
  /\ nodes' = [nodes EXCEPT ![chain] = node]
  /\ node' = next[node]
  /\ UNCHANGED <<old, capacity, size, value, op, wpc, newCap, chain, map,
                 reader, seen, resized>>

\* _ht_rehash moves one node to the front of its new chain,
Rehash ==
  LET i == Index(node, capacity) IN
  /\ wpc = "rehash" /\ node \in Key
  /\ next' = [next EXCEPT ![node] = nodes[i]]
  /\ nodes' = [nodes EXCEPT ![i] = node]
  /\ node' = next[node]
  /\ UNCHANGED <<old, capacity, size, value, op, wpc, newCap, chain, map,
                 reader, seen, resized>>

\* Mutant of RehashChain: the same chain again
RehashChainAgain ==
  /\ wpc = "rehash" /\ node = None /\ chain + 1 < newCap
  /\ node' = old[chain]
  /\ UNCHANGED <<table, op, wpc, newCap, chain, map, reader, seen, resized>>

\* goes on to the next chain of the old array,
RehashChain ==
  /\ wpc = "rehash" /\ node = None /\ chain + 1 < newCap
  /\ chain' = chain + 1 /\ node' = old[chain + 1]
  /\ UNCHANGED <<table, op, wpc, newCap, map, reader, seen, resized>>

\* and at the end the old array is freed.
RehashDone ==
  /\ wpc = "rehash" /\ node = None /\ chain + 1 >= newCap
  /\ wpc' = IF op.func = "insert" THEN "find" ELSE "idle"
  /\ op' = IF op.func = "insert" THEN op ELSE Idle
  /\ old' = Empty /\ chain' = 0 /\ newCap' = 0
  /\ UNCHANGED <<nodes, capacity, size, next, value, node, map, reader, seen, resized>>

-----------------------------------------------------------------------------
(* The operations.                                                         *)

\* ht_insert begins; a full table grows first (_ht_adjust_capacity)
Insert(k, v) ==
  /\ wpc = "idle"
  /\ size = capacity => 2 * size <= MaxIndex
  /\ op' = [func |-> "insert", key |-> k, value |-> v]
  /\ IF size = capacity THEN Resize(2 * size, "find")
                        ELSE wpc' = "find" /\ UNCHANGED newCap
  /\ UNCHANGED <<table, chain, node, map, reader, seen, resized>>

\* the key is in its chain: its value is replaced
InsertUpdates ==
  /\ wpc = "find" /\ wpc' = "idle"
  /\ op.key \in Chain(nodes[Index(op.key, capacity)])
  /\ value' = [value EXCEPT ![op.key] = op.value]
  /\ Bind(op.key, op.value)
  /\ op' = Idle
  /\ UNCHANGED <<nodes, old, capacity, size, next, newCap, chain, node, reader, resized>>

\* it is not: _ht_create_node fills a new node
CreateNode ==
  LET i == Index(op.key, capacity) IN
  /\ wpc = "find" /\ wpc' = "link"
  /\ op.key \notin Chain(nodes[i])
  /\ value' = [value EXCEPT ![op.key] = op.value]
  /\ next' = [next EXCEPT ![op.key] = nodes[i]]
  /\ UNCHANGED <<nodes, old, capacity, size, op, newCap, chain, node, map,
                 reader, seen, resized>>

\* Mutant of PushFront: the chain loses the nodes it had
PushFrontAlone ==
  /\ wpc = "link" /\ wpc' = "size"
  /\ nodes' = [nodes EXCEPT ![Index(op.key, capacity)] = op.key]
  /\ next' = [next EXCEPT ![op.key] = None]
  /\ Bind(op.key, op.value)
  /\ UNCHANGED <<old, capacity, size, value, op, newCap, chain, node, reader, resized>>

\* _ht_push_front puts it at the front of its chain
PushFront ==
  /\ wpc = "link" /\ wpc' = "size"
  /\ nodes' = [nodes EXCEPT ![Index(op.key, capacity)] = op.key]
  /\ Bind(op.key, op.value)
  /\ UNCHANGED <<old, capacity, size, next, value, op, newCap, chain, node, reader, resized>>

\* ++table->size
Inserted ==
  /\ wpc = "size" /\ wpc' = "idle"
  /\ size' = size + 1
  /\ op' = Idle
  /\ UNCHANGED <<nodes, old, capacity, next, value, newCap, chain, node, map,
                 reader, seen, resized>>

\* ht_erase: the node is unlinked; HT_SHRINK_THRESHOLD is 1 / 4, which is 0 in
\* C, so that only a table that has become empty is shrunk
Erase(k) ==
  LET i == Index(k, capacity) IN
  /\ wpc = "idle" /\ rpc = "idle"
  /\ k \in Chain(nodes[i])
  /\ nodes' = IF nodes[i] = k THEN [nodes EXCEPT ![i] = next[k]] ELSE nodes
  /\ next' = [n \in Key |-> IF n = k THEN None
                            ELSE IF next[n] = k THEN next[k] ELSE next[n]]
  /\ value' = [value EXCEPT ![k] = None]
  /\ size' = size - 1
  /\ IF size = 1 THEN /\ Resize(0, "idle")
                      /\ op' = IF Resizes(0) THEN [Idle EXCEPT !.func = "erase"] ELSE Idle
                 ELSE UNCHANGED <<op, wpc, newCap>>
  /\ Bind(k, None)
  /\ UNCHANGED <<old, capacity, chain, node, reader, resized>>

\* ht_reserve: n is a number of elements, compared with the threshold
Reserve(n) ==
  /\ wpc = "idle" /\ rpc = "idle"
  /\ n > LoadFactor * capacity
  /\ Resize(n \div LoadFactor, "idle")
  /\ op' = IF Resizes(n \div LoadFactor) THEN [Idle EXCEPT !.func = "reserve"] ELSE Idle
  /\ UNCHANGED <<table, chain, node, map, reader, seen, resized>>

\* ht_clear: the nodes are destroyed, the array has the minimum capacity
Clear ==
  /\ wpc = "idle" /\ rpc = "idle"
  /\ nodes' = Empty /\ capacity' = MinCapacity /\ size' = 0
  /\ next' = [k \in Key |-> None] /\ value' = [k \in Key |-> None]
  /\ map' = [k \in Key |-> None]
  /\ UNCHANGED <<old, writer, reader, seen, resized>>

-----------------------------------------------------------------------------
(* ht_lookup in the other thread.                                          *)

\* _ht_hash reads the capacity
Lookup(k) ==
  /\ rpc = "idle" /\ rpc' = "head"
  /\ op.func \in {"none", "insert"}
  /\ rkey' = k
  /\ rindex' = Index(k, capacity)
  /\ seen' = {map[k]}
  /\ resized' = (wpc \in {"memset", "capacity", "rehash"})
  /\ UNCHANGED <<table, writer, map, rnode, rval>>

\* table->nodes[index], with the array that table->nodes points to
LookupHead ==
  /\ rpc = "head" /\ rpc' = "walk"
  /\ rnode' = nodes[rindex]
  /\ UNCHANGED <<table, writer, map, rkey, rindex, rval, seen, resized>>

\* ht_lookup ends with the value, with NULL, or in memory never written
LookupEnds ==
  /\ rpc = "walk" /\ rnode \in {rkey, None, Garbage} /\ rpc' = "done"
  /\ rval' = IF rnode = rkey THEN value[rkey] ELSE rnode
  /\ UNCHANGED <<table, writer, map, rkey, rindex, rnode, seen, resized>>

\* node = node->next
LookupNext ==
  /\ rpc = "walk" /\ rnode \in Key \ {rkey}
  /\ rnode' = next[rnode]
  /\ UNCHANGED <<table, writer, map, rpc, rkey, rindex, rval, seen, resized>>

\* the caller has used the result
LookupUsed ==
  /\ rpc = "done" /\ rpc' = "idle"
  /\ rkey' = None /\ rindex' = 0 /\ rnode' = None /\ rval' = None
  /\ seen' = {} /\ resized' = FALSE
  /\ UNCHANGED <<table, writer, map>>

Resizing == Malloc \/ Memset \/ SetCapacity \/ Rehash \/ RehashChain \/ RehashDone

Inserting == InsertUpdates \/ CreateNode \/ PushFront \/ Inserted

Looking == LookupHead \/ LookupEnds \/ LookupNext \/ LookupUsed

TableNext == \/ \E k \in Key, v \in Value : Insert(k, v)
             \/ Inserting \/ Resizing \/ Looking \/ Clear
             \/ \E k \in Key : Erase(k) \/ Lookup(k)
             \/ \E n \in 0 .. LoadFactor * MaxCapacity : Reserve(n)

TableSpec == TableInit /\ [][TableNext]_tableVars

\* both threads run
TableFairness == WF_tableVars(Inserting \/ Resizing) /\ WF_tableVars(Looking)

TableFairSpec == TableSpec /\ TableFairness

-----------------------------------------------------------------------------
(* Properties.                                                             *)

\* Between operations the table is the map it stands for: a key is in the
\* chain of its index and in no other exactly when it is bound, its node has
\* its value, and size counts the keys, after any growing and shrinking.
TableIsMap ==
  wpc = "idle" =>
    /\ \A k \in Key, i \in 0 .. capacity - 1 :
         k \in Chain(nodes[i]) <=> map[k] # None /\ i = Index(k, capacity)
    /\ \A k \in Key : map[k] # None => value[k] = map[k]
    /\ size = Cardinality({k \in Key : map[k] # None})

\* ht_lookup returns a value that the key had at some moment since the lookup
\* began, although the other thread inserts meanwhile, unless the table was
\* being resized.
LookupLinear == rpc = "done" => rval \in seen \/ resized

\* An insertion ends, and so does the walk of a lookup, although _ht_rehash
\* turns next pointers round under it.
OperationsEnd == []<>(op.func # "insert") /\ []<>(rpc # "walk")

\* The table is well formed and the map it stands for.
TableSound == TableTypeOK /\ TableIsMap
=============================================================================
