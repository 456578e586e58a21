--------------------------- MODULE MCControllers ---------------------------
(***************************************************************************)
(* The controllers and files around the cgroup core, one at a time: the    *)
(* cpusets, the limits on RDMA resources, the legacy freezer, the          *)
(* statistics, the hierarchies and their mounts, and the lists of pids.  A *)
(* behaviour is one of a single part, chosen at the start, while the       *)
(* others stay in their initial states.                                    *)
(***************************************************************************)
EXTENDS Cpuset, RdmaCgroup, LegacyFreezer, Rstat, CgroupRoots, PidLists

VARIABLE part

\* constants of Cpuset: an empty tree on each hierarchy, and partitions in place
MCOrder == <<0, 1, 3, 2>>
MCCsParent == 1 :> 0 @@ 2 :> 0 @@ 3 :> 1
MCMasks == SUBSET CPU
CpuSymmetry == Permutations(CPU)
Plain == [v2 |-> TRUE, ops |-> 3,
          cs |-> 0 :> TopCs(1) @@ 1 :> MadeCs(CPU, 0) @@ 2 :> NewCs @@ 3 :> NewCs]
Legacy == [v2 |-> FALSE, ops |-> 4,
           cs |-> 0 :> TopCs(0) @@ 1 :> [NewCs EXCEPT !.on = 1] @@ 2 :> NewCs @@ 3 :> NewCs]
Nested(x, y) ==
  [v2 |-> TRUE, ops |-> 3,
   cs |-> 0 :> [TopCs(1) EXCEPT !.eff = CPU \ {x, y}, !.sub = {x, y}]
       @@ 1 :> [MadeCs({x, y}, 1) EXCEPT !.cpus = {x, y}, !.prs = 1, !.excl = TRUE, !.useP = FALSE]
       @@ 2 :> MadeCs(CPU \ {x, y}, 0) @@ 3 :> MadeCs({x, y}, 0)]
MCStarts == {Plain, Legacy} \cup {Nested(p[1], p[2]) : p \in {q \in CPU \X CPU : q[1] # q[2]}}

\* constants of the others
MCSParent == 1 :> 0 @@ 2 :> 1 @@ 3 :> 1
Option(m, n, x) == [mask |-> m, none |-> n, name |-> x]
MCOptions == {Option({"cpu"}, FALSE, 0), Option({}, FALSE, 0), Option({}, TRUE, 7), Option({}, FALSE, 7),
              Option({"mem"}, FALSE, 7), Option({"cpu"}, TRUE, 0)}
MCTgidOf == 1 :> 1 @@ 2 :> 2 @@ 3 :> 2 @@ 4 :> 4
MCPStart == <<<<2>>, <<3, 1>>>>

AllVars == <<cpusetVars, rdmaVars, legacyVars, rstatVars, rootsVars, pidVars>>

ControllersInit ==
  /\ part \in {"cpuset", "rdma", "legacy", "rstat", "roots", "pids"}
  /\ CpusetInit /\ RdmaInit /\ LegacyInit /\ RstatInit /\ RootsInit /\ PidInit
  /\ part # "cpuset" => v2 /\ cs[1].prs = 0

\* flushers, siblings with counters and readers that are alike are named in
\* the order in which they come
FlusherOrder == /\ fl'[2].cpu > 0 => fl'[1].cpu > 0
                /\ (\E i \in SCpu : pcpu'[3][i].n > 0) => (\E i \in SCpu : pcpu'[2][i].n > 0)
ReaderOrder == rd'[2].pc # "closed" => rd'[1].pc # "closed"

ControllersNext ==
  /\ UNCHANGED part
  /\ \/ part = "cpuset" /\ CpusetNext /\ UNCHANGED <<rdmaVars, legacyVars, rstatVars, rootsVars, pidVars>>
     \/ part = "rdma" /\ RdmaNext /\ UNCHANGED <<cpusetVars, legacyVars, rstatVars, rootsVars, pidVars>>
     \/ part = "legacy" /\ LegacyNext /\ UNCHANGED <<cpusetVars, rdmaVars, rstatVars, rootsVars, pidVars>>
     \/ part = "rstat" /\ RstatNext /\ FlusherOrder /\ UNCHANGED <<cpusetVars, rdmaVars, legacyVars, rootsVars, pidVars>>
     \/ part = "roots" /\ RootsNext /\ UNCHANGED <<cpusetVars, rdmaVars, legacyVars, rstatVars, pidVars>>
     \/ part = "pids" /\ PidNext /\ ReaderOrder /\ UNCHANGED <<cpusetVars, rdmaVars, legacyVars, rstatVars, rootsVars>>

ControllersSpec == ControllersInit /\ [][ControllersNext]_<<part, AllVars>>
=============================================================================
