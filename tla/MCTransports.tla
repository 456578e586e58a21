---------------------------- MODULE MCTransports ----------------------------
(***************************************************************************)
(* The ways of exchanging requests and messages beside the fifos, one at a *)
(* time: the queue in shared memory, the RDMA demo and its latency test,   *)
(* and the RDMA connection manager.  A behaviour is one of a single part,  *)
(* chosen at the start, while the others stay in their initial states.     *)
(***************************************************************************)
EXTENDS ShmMpscQueue, RdmaSetup, RdmaCm

VARIABLE part

\* constant of RdmaSetup: what the client and the server are started with
Plain == [nox |-> FALSE, cyc |-> 1, line |-> 1, mtu |-> 1, gid |-> "none", eth |-> FALSE,
          conn |-> "RC", size |-> 1, prog |-> "lat"]
Demo == [Plain EXCEPT !.prog = "ipc"]
Both(o, p) == [s \in Side |-> IF s = "client" THEN o ELSE p]
MCRuns ==
  {Both([Plain EXCEPT !.cyc = 2, !.mtu = 2], [Plain EXCEPT !.line = 2]),
   Both([Plain EXCEPT !.eth = TRUE], [Plain EXCEPT !.gid = "v4", !.eth = TRUE]),
   Both([Plain EXCEPT !.gid = "v6"], Plain),
   Both([Plain EXCEPT !.gid = "v6"], [Plain EXCEPT !.eth = TRUE]),
   Both([Plain EXCEPT !.nox = TRUE], Plain),
   Both(Plain, [Plain EXCEPT !.nox = TRUE])}
  \cup {Both([Plain EXCEPT !.conn = c], [Plain EXCEPT !.conn = c, !.mtu = 2, !.cyc = 2]) : c \in {"XRC", "DC"}}
  \cup {Both([Demo EXCEPT !.conn = c], [Demo EXCEPT !.conn = c]) : c \in {"RC", "DC"}}
  \cup {Both([Demo EXCEPT !.size = z], [Demo EXCEPT !.gid = g]) : z \in 1 .. 2, g \in {"none", "v4"}}

TransportsInit ==
  /\ part \in {"queue", "setup", "cm"}
  /\ QueueInit /\ RdmaSetupInit /\ RdmaCmInit
  /\ part # "setup" => opt = Both(Demo, Demo)
  /\ part # "cm" => ~ud

TransportsNext ==
  /\ UNCHANGED part
  /\ \/ part = "queue" /\ QueueNext /\ UNCHANGED <<rdmaSetupVars, rdmaCmVars>>
     \/ part = "setup" /\ RdmaSetupNext /\ UNCHANGED <<queueVars, rdmaCmVars>>
     \/ part = "cm" /\ RdmaCmNext /\ UNCHANGED <<queueVars, rdmaSetupVars>>

\* the fairness of every part, asked of the one that runs
QueueRuns ==
  /\ \A p \in Process : WF_queueVars(part = "queue" /\ Constructs(p))
  /\ \A c \in Client : /\ WF_queueVars(part = "queue" /\ Pushes(c))
                       /\ SF_queueVars(part = "queue" /\ (AllocLock(c) \/ PushLock(c)))
  /\ WF_queueVars(part = "queue" /\ Serves)
  /\ SF_queueVars(part = "queue" /\ (PopLock \/ RecycleLock))
SetupRuns ==
  \A s \in Side : /\ WF_rdmaSetupVars(part = "setup" /\ ProcessStep(s))
                  /\ WF_rdmaSetupVars(part = "setup" /\ DeviceStep(s))
CmRuns ==
  /\ \A s \in CmSide : WF_rdmaCmVars(part = "cm" /\ CmProcess(s))
  /\ WF_rdmaCmVars(part = "cm" /\ CmNetwork)

TransportsSpec ==
  /\ TransportsInit /\ [][TransportsNext]_<<part, queueVars, rdmaSetupVars, rdmaCmVars>>
  /\ QueueRuns /\ SetupRuns /\ CmRuns
=============================================================================
