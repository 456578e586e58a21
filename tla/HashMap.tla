------------------------------ MODULE HashMap ------------------------------
(***************************************************************************)
(* The open addressed hash map of util/hashmap.c.  A bucket holds an item  *)
(* and dib, its distance from the item's initial bucket plus one, 0 if the *)
(* bucket is empty.  An item that is further from home than the one it     *)
(* meets takes its place (Robin Hood), and a deletion shifts the items     *)
(* behind it back.  An allocation may fail at any call.                    *)
(*                                                                         *)
(* An operation is one step: the map has no locks and one user.  held is   *)
(* history, the mapping the calls stand for.                               *)
(***************************************************************************)
EXTENDS Integers, FiniteSets

CONSTANTS
  HmKey, HmValue,
  HmHash,     \* the 48 bits of a key's hash
  MinBuckets, \* 16 in the code
  ShrinkDiv   \* 10 in the code: a map shrinks below a tenth

ASSUME HashMapAssumption ==
  /\ HmHash \in [HmKey -> Nat] /\ 0 \notin HmValue
  /\ MinBuckets \in Nat \ {0} /\ ShrinkDiv \in Nat \ {0}

VARIABLES
  hm,      \* nbuckets, cap, count and the buckets
  oom,
  held,    \* history: the value of each key, NoValue if it has none
  faithful \* history: every call has returned the value its key had

hashMapVars == <<hm, oom, held, faithful>>

NoValue == 0
NoItem == [dib |-> 0, key |-> 0, value |-> NoValue]
Item(d, k, v) == [dib |-> d, key |-> k, value |-> v]

\* growat and shrinkat, and the next power of two
GrowAt(n) == (n * 3) \div 4
ShrinkAt(n) == n \div ShrinkDiv
RECURSIVE Doubled(_, _)
Doubled(n, cap) == IF n < cap THEN Doubled(2 * n, cap) ELSE n

\* hashmap_new
NewMap(cap) ==
  LET n == Doubled(MinBuckets, cap) IN
  [n |-> n, cap |-> n, count |-> 0, bs |-> [i \in 0 .. n - 1 |-> NoItem]]

HashMapInit ==
  /\ hm = NewMap(0) /\ oom = FALSE
  /\ held = [k \in HmKey |-> NoValue] /\ faithful = TRUE

Home(k, n) == HmHash[k] % n
\* the item that is carried on, one bucket further
Further(e) == [e EXCEPT !.dib = @ + 1]

\* the item carried takes the bucket
Takes(e, b) == b.dib < e.dib

\* resize puts an entry into the new buckets
RECURSIVE Place(_, _, _, _)
Place(bs, n, i, e) ==
  CASE bs[i].dib = 0    -> [bs EXCEPT ![i] = e]
    [] bs[i].dib # 0 /\ Takes(e, bs[i])
                        -> Place([bs EXCEPT ![i] = e], n, (i + 1) % n, Further(bs[i]))
    [] OTHER            -> Place(bs, n, (i + 1) % n, Further(e))

\* the buckets from i on go into the new ones
RECURSIVE Moved(_, _, _, _)
Moved(m, i, bs, n) ==
  IF i = m.n THEN bs
  ELSE Moved(m, i + 1, IF m.bs[i].dib = 0 THEN bs
                       ELSE Place(bs, n, Home(m.bs[i].key, n), [m.bs[i] EXCEPT !.dib = 1]), n)

\* resize; the capacity of the map stays
Resized(m, cap) ==
  LET m2 == NewMap(cap) IN
  [m EXCEPT !.n = m2.n, !.bs = Moved(m, 0, m2.bs, m2.n)]

-----------------------------------------------------------------------------
\* the item is in the bucket: the hash and compare
Found(e, b) == HmHash[e.key] = HmHash[b.key] /\ e.key = b.key

\* the loop of hashmap_set: the map, and the value replaced
RECURSIVE SetFrom(_, _, _)
SetFrom(m, i, e) ==
  LET b == m.bs[i]
      next == (i + 1) % m.n IN
  CASE b.dib = 0 ->
         [map |-> [m EXCEPT !.bs[i] = e, !.count = @ + 1], old |-> NoValue]
    [] b.dib # 0 /\ Found(e, b) ->
         [map |-> [m EXCEPT !.bs[i].value = e.value], old |-> b.value]
    [] b.dib # 0 /\ ~Found(e, b) /\ Takes(e, b) ->
         SetFrom([m EXCEPT !.bs[i] = e], next, Further(b))
    [] OTHER -> SetFrom(m, next, Further(e))

\* the map is full and cannot grow
SetFails(m) == m.count = GrowAt(m.n)

\* hashmap_set
HashMapSet(k, v) ==
  \E memory \in BOOLEAN :
    IF ~memory /\ SetFails(hm)
    THEN oom' = TRUE /\ UNCHANGED <<hm, held, faithful>>
    ELSE LET m == IF memory /\ hm.count = GrowAt(hm.n) THEN Resized(hm, 2 * hm.n) ELSE hm
             r == SetFrom(m, Home(k, m.n), Item(1, k, v)) IN
         /\ hm' = r.map /\ oom' = FALSE
         /\ held' = [held EXCEPT ![k] = v]
         /\ faithful' = (faithful /\ r.old = held[k])

\* hashmap_get, as the index of the bucket; -1 for NULL
RECURSIVE Find(_, _, _)
Find(m, i, k) ==
  CASE m.bs[i].dib = 0 -> -1
    [] m.bs[i].dib # 0 /\ Found(Item(1, k, NoValue), m.bs[i]) -> i
    [] OTHER -> Find(m, (i + 1) % m.n, k)
Get(m, k) == LET i == Find(m, Home(k, m.n), k) IN IF i = -1 THEN NoValue ELSE m.bs[i].value

\* Mutant of Stops: an item that is at home is shifted as well
StopsEmpty(b) == b.dib = 0

\* the shift ends before an item that is at home
Stops(b) == b.dib <= 1

\* hashmap_delete: the items behind bucket i move back by one
RECURSIVE Shifted(_, _, _)
Shifted(bs, n, i) ==
  LET b == bs[(i + 1) % n] IN
  IF Stops(b) THEN [bs EXCEPT ![i] = NoItem]
  ELSE Shifted([bs EXCEPT ![i] = [b EXCEPT !.dib = @ - 1]], n, (i + 1) % n)

Shrinks(m) == m.n > m.cap /\ m.count <= ShrinkAt(m.n)

HashMapDelete(k) ==
  LET i == Find(hm, Home(k, hm.n), k)
      m == [hm EXCEPT !.bs = Shifted(@, hm.n, i), !.count = @ - 1] IN
  /\ oom' = FALSE
  /\ IF i = -1 THEN faithful' = (faithful /\ held[k] = NoValue) /\ UNCHANGED <<hm, held>>
     ELSE /\ \/ hm' = m  \* nor is it an error that the smaller buckets cannot be allocated
             \/ Shrinks(m) /\ hm' = Resized(m, m.n \div 2)
          /\ held' = [held EXCEPT ![k] = NoValue]
          /\ faithful' = (faithful /\ held[k] = hm.bs[i].value)

\* hashmap_clear; when the allocation fails the old buckets are large enough
HashMapClear(updateCap) ==
  LET n == IF updateCap THEN hm.n ELSE hm.cap IN
  /\ hm' = [n |-> n, cap |-> n, count |-> 0, bs |-> [i \in 0 .. n - 1 |-> NoItem]]
  /\ held' = [k \in HmKey |-> NoValue]
  /\ UNCHANGED <<oom, faithful>>

HashMapNext ==
  \/ \E k \in HmKey, v \in HmValue : HashMapSet(k, v)
  \/ \E k \in HmKey : HashMapDelete(k)
  \/ \E u \in BOOLEAN : HashMapClear(u)

HashMapSpec == HashMapInit /\ [][HashMapNext]_hashMapVars

-----------------------------------------------------------------------------
\* Types; there is always an empty bucket, so that a search ends.
HashMapTypeOK ==
  /\ hm.n \in Nat \ {0} /\ DOMAIN hm.bs = 0 .. hm.n - 1
  /\ hm.count = Cardinality({i \in DOMAIN hm.bs : hm.bs[i].dib # 0})
  /\ hm.count <= GrowAt(hm.n) /\ oom \in BOOLEAN

\* The map is a map: hashmap_get finds for every key what was set last and
\* not deleted, hashmap_count counts the keys, and every call has returned the
\* value its key had, whatever was displaced, shifted or moved in between.
MapExact ==
  /\ \A k \in HmKey : Get(hm, k) = held[k]
  /\ hm.count = Cardinality({k \in HmKey : held[k] # NoValue})
  /\ faithful

\* Robin Hood: dib is the distance from home, and an item away from home
\* comes after one that is at most one bucket nearer to its own.  Only then
\* does hashmap_set meet an item before it displaces another.
RobinHood ==
  \A i \in DOMAIN hm.bs :
    LET b == hm.bs[i]
        p == hm.bs[(i - 1) % hm.n] IN
    b.dib # 0 => /\ (Home(b.key, hm.n) + b.dib - 1) % hm.n = i
                 /\ b.dib > 1 => p.dib >= b.dib - 1

\* However it grows and shrinks, and whatever allocation fails, a map keeps
\* the buckets of its capacity, also of one that hashmap_clear has raised.
CapacityKept == MinBuckets <= hm.cap /\ hm.cap <= hm.n

\* The hash map is a map at any size, and its buckets are as the next operation
\* needs them.
MapSound == HashMapTypeOK /\ MapExact /\ RobinHood /\ CapacityKept
=============================================================================
