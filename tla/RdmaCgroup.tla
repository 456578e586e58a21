----------------------------- MODULE RdmaCgroup -----------------------------
(***************************************************************************)
(* The rdma controller (cgroup/rdma.c): the resource pools of cgroups and  *)
(* devices, charged by the users of a device at a cgroup and at all its    *)
(* ancestors.  A pool is made when it is first needed and freed when it is *)
(* neither charged nor limited.                                            *)
(*                                                                         *)
(* Every function holds rdmacg_mutex, but a charge that fails half way up  *)
(* lets it go before it takes back what it has charged.  The cgroups are a *)
(* path from the root, 0, downwards.                                       *)
(***************************************************************************)
EXTENDS Integers, FiniteSets

CONSTANTS
  RDepth,      \* the cgroups are 0 .. RDepth, each the parent of the next
  RDevice,     \* the devices
  RResource,   \* the kinds of resources
  RUser,       \* users, each with at most one resource at a time
  RLimits,     \* the limits that are written, S32_MAX among them
  MaxRWrites   \* bound: limits written, devices and cgroups removed

S32Max == 2147483647

ASSUME RdmaAssumption ==
  RDepth \in Nat /\ RLimits \subseteq Nat /\ S32Max \in RLimits /\ MaxRWrites \in Nat

RGroup == 0 .. RDepth

VARIABLES
  pool,      \* the pools: a function of the pairs of a cgroup and a device that have one
  devices,   \* rdmacg_devices
  user,      \* what the users hold, or are taking back
  rgroup,    \* the cgroups: online, offline, or freed
  rwrites

rdmaVars == <<pool, devices, user, rgroup, rwrites>>

\* num_max_cnt is nmax, usage_sum is sum
NewPool == [max |-> [r \in RResource |-> S32Max], usage |-> [r \in RResource |-> 0],
            sum |-> 0, nmax |-> Cardinality(RResource)]

\* pc: idle, holds, undo.  from .. to: the cgroups that are charged
IdleUser == [pc |-> "idle", dev |-> CHOOSE d \in RDevice : TRUE, res |-> CHOOSE r \in RResource : TRUE,
             from |-> 0, to |-> 0]

RdmaInit ==
  /\ pool = [p \in {} |-> NewPool]
  /\ devices = RDevice
  /\ user = [u \in RUser |-> IdleUser]
  /\ rgroup = [g \in RGroup |-> "online"]
  /\ rwrites = 0

-----------------------------------------------------------------------------
RMax(a, b) == IF a > b THEN a ELSE b

\* get_cg_rpool_locked
GetPool(P, g, d) ==
  IF <<g, d>> \in DOMAIN P THEN P ELSE [p \in DOMAIN P \cup {<<g, d>>} |-> IF p \in DOMAIN P THEN P[p] ELSE NewPool]

\* Mutant of Spare: a pool with a limit is freed as well
SpareIdle(q) == q.sum = 0

\* neither used nor limited
Spare(q) == q.sum = 0 /\ q.nmax = Cardinality(RResource)
FreeIfSpare(P, g, d) ==
  IF Spare(P[<<g, d>>]) THEN [p \in DOMAIN P \ {<<g, d>>} |-> P[p]] ELSE P

\* set_resource_limit
SetLimit(q, r, max) ==
  [q EXCEPT !.max[r] = max,
            !.nmax = @ + (IF max = S32Max THEN 1 ELSE 0) - (IF q.max[r] = S32Max THEN 1 ELSE 0)]
SetAllMax(q) == [q EXCEPT !.max = [r \in RResource |-> S32Max], !.nmax = Cardinality(RResource)]

\* one cgroup of a charge that has gone well so far
ChargeOne(P, g, d, r) ==
  [GetPool(P, g, d) EXCEPT ![<<g, d>>].usage[r] = @ + 1, ![<<g, d>>].sum = @ + 1]
Charged(g, low, d, r) ==
  LET up[n \in 0 .. g - low + 1] == IF n = 0 THEN pool ELSE ChargeOne(up[n - 1], g - n + 1, d, r)
  IN  up[g - low + 1]

\* uncharge_cg_locked, of the cgroups from g up to below stop
UnchargeOne(P, g, d, r) ==
  IF <<g, d>> \notin DOMAIN P THEN P
  ELSE FreeIfSpare([P EXCEPT ![<<g, d>>].usage[r] = @ - 1, ![<<g, d>>].sum = @ - 1], g, d)
Uncharged(g, low, d, r) ==
  LET up[n \in 0 .. g - low + 1] == IF n = 0 THEN pool ELSE UnchargeOne(up[n - 1], g - n + 1, d, r)
  IN  up[g - low + 1]

AtLimit(g, d, r) == <<g, d>> \in DOMAIN pool /\ pool[<<g, d>>].usage[r] + 1 > pool[<<g, d>>].max[r]

-----------------------------------------------------------------------------
\* rdmacg_try_charge: all the way up, or up to a cgroup that is at its limit
\* or whose pool cannot be allocated
TryCharge(u, g, d, r) ==
  LET full == {h \in 0 .. g : AtLimit(h, d, r)}
      stop == CHOOSE h \in full : \A k \in full : k <= h
  IN  /\ user[u].pc = "idle" /\ rgroup[g] = "online" /\ d \in devices
      /\ \/ /\ full = {}
            /\ pool' = Charged(g, 0, d, r)
            /\ user' = [user EXCEPT ![u] = [pc |-> "holds", dev |-> d, res |-> r, from |-> g, to |-> 0]]
         \/ /\ full # {}
            /\ pool' = Charged(g, stop + 1, d, r)
            /\ user' = [user EXCEPT ![u] = [pc |-> "undo", dev |-> d, res |-> r, from |-> g, to |-> stop + 1]]
         \/ \E h \in 0 .. g :      \* no memory for the pool of h
              /\ <<h, d>> \notin DOMAIN pool /\ \A k \in full : k < h
              /\ pool' = Charged(g, h + 1, d, r)
              /\ user' = [user EXCEPT ![u] = [pc |-> "undo", dev |-> d, res |-> r, from |-> g, to |-> h + 1]]
      /\ UNCHANGED <<devices, rgroup, rwrites>>

\* rdmacg_uncharge_hierarchy, of a resource given up or of a failed charge
Uncharge(u) ==
  /\ user[u].pc \in {"holds", "undo"}
  /\ pool' = Uncharged(user[u].from, user[u].to, user[u].dev, user[u].res)
  /\ user' = [user EXCEPT ![u] = IdleUser]
  /\ UNCHANGED <<devices, rgroup, rwrites>>

RWrite == rwrites < MaxRWrites /\ rwrites' = rwrites + 1

\* rdmacg_resource_set_max; the root has no such file
SetMax(g, d, r, max) ==
  LET P == GetPool(pool, g, d) IN
  /\ g # 0 /\ rgroup[g] = "online" /\ d \in devices
  /\ pool' = FreeIfSpare([P EXCEPT ![<<g, d>>] = SetLimit(@, r, max)], g, d)
  /\ RWrite /\ UNCHANGED <<devices, user, rgroup>>

\* rdmacg_unregister_device, when the users of the device are gone, and
\* rdmacg_register_device
UnregisterDevice(d) ==
  /\ d \in devices /\ \A u \in RUser : user[u].pc = "idle" \/ user[u].dev # d
  /\ devices' = devices \ {d}
  /\ pool' = [p \in {q \in DOMAIN pool : q[2] # d} |-> pool[p]]
  /\ RWrite /\ UNCHANGED <<user, rgroup>>
RegisterDevice(d) ==
  /\ d \notin devices
  /\ devices' = devices \cup {d}
  /\ UNCHANGED <<pool, user, rgroup, rwrites>>

\* rdmacg_css_offline
CssOfflined(g) ==
  /\ g # 0 /\ rgroup[g] = "online" /\ \A h \in RGroup : h > g => rgroup[h] # "online"
  /\ rgroup' = [rgroup EXCEPT ![g] = "offline"]
  /\ pool' = [p \in DOMAIN pool |-> IF p[1] = g THEN SetAllMax(pool[p]) ELSE pool[p]]
  /\ RWrite /\ UNCHANGED <<devices, user>>

\* rdmacg_css_free: every charge holds the css of the cgroup it is made at
CssFreed(g) ==
  /\ rgroup[g] = "offline" /\ \A h \in RGroup : h > g => rgroup[h] = "freed"
  /\ \A u \in RUser : user[u].pc = "idle" \/ user[u].from # g
  /\ rgroup' = [rgroup EXCEPT ![g] = "freed"]
  /\ UNCHANGED <<pool, devices, user, rwrites>>

RdmaNext ==
  \/ \E u \in RUser, g \in RGroup, d \in RDevice, r \in RResource : TryCharge(u, g, d, r)
  \/ \E u \in RUser : Uncharge(u)
  \/ \E g \in RGroup, d \in RDevice, r \in RResource, max \in RLimits : SetMax(g, d, r, max)
  \/ \E d \in RDevice : UnregisterDevice(d) \/ RegisterDevice(d)
  \/ \E g \in RGroup : CssOfflined(g) \/ CssFreed(g)

RdmaSpec == RdmaInit /\ [][RdmaNext]_rdmaVars

-----------------------------------------------------------------------------
\* the users that count at a cgroup
ChargedAt(g, d, r) ==
  {u \in RUser : /\ user[u].pc # "idle" /\ user[u].dev = d /\ user[u].res = r
                 /\ g \in user[u].to .. user[u].from}
Usage(g, d, r) == IF <<g, d>> \in DOMAIN pool THEN pool[<<g, d>>].usage[r] ELSE 0

\* The usage of every cgroup is the number of resources held at it and below
\* it, those a failed charge has still to take back included.
UsageExact ==
  \A g \in RGroup, d \in RDevice, r \in RResource : Usage(g, d, r) = Cardinality(ChargedAt(g, d, r))

\* A cgroup that is online has a pool exactly while it is charged or limited,
\* with counters that say so; one that is offline keeps no limit, so that its
\* pool goes with its last charge.
PoolsNeeded ==
  \A p \in DOMAIN pool :
    /\ pool[p].nmax = Cardinality({r \in RResource : pool[p].max[r] = S32Max})
    /\ rgroup[p[1]] = "online" =>
         (\E r \in RResource : pool[p].max[r] # S32Max \/ pool[p].usage[r] > 0)
    /\ rgroup[p[1]] # "online" => pool[p].nmax = Cardinality(RResource)

\* A limit that was written is there until the cgroup or the device goes: the
\* pool is not freed under it, however the resources come and go.
LimitsStay ==
  [][\A p \in DOMAIN pool : pool[p].nmax < Cardinality(RResource) =>
       \/ p \in DOMAIN pool' /\ pool'[p].max = pool[p].max
       \/ rwrites' # rwrites]_rdmaVars

\* Usage, limits and pools agree while charges that fail take back what they have
\* charged after others have come in between.
PoolsSound == [](UsageExact /\ PoolsNeeded) /\ LimitsStay
=============================================================================
