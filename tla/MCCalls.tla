------------------------------ MODULE MCCalls ------------------------------
(***************************************************************************)
(* The two forms in which a call of one PU is answered by another, one at  *)
(* a time: the system calls of the globalOS, and the UCP version of the    *)
(* DSM.  A behaviour is one of a single part, chosen at the start, while   *)
(* the other stays in its initial state.                                   *)
(***************************************************************************)
EXTENDS MCGlobalSyscall, UcpDsm

VARIABLE part

CallsInit == part \in {"globalos", "ucp"} /\ Init /\ UcpInit

CallsNext ==
  /\ UNCHANGED part
  /\ \/ part = "globalos" /\ Next /\ UNCHANGED ucpVars
     \/ part = "ucp" /\ UcpNext /\ UNCHANGED vars

CallsSpec == CallsInit /\ [][CallsNext]_<<part, vars, ucpVars>>

\* the fairness of each part, asked of the one that runs
GlobalOsRuns ==
  /\ \A s \in PU : /\ WF_vars(part = "globalos" /\ SysHandler(s))
                   /\ WF_vars(part = "globalos" /\ DsmNext(s))
  /\ \A p \in Proc : /\ SF_vars(part = "globalos" /\ Receive(Home[p], p))
                     /\ WF_vars(part = "globalos" /\ Return(p))
                     /\ WF_vars(part = "globalos" /\ FifoRead(p))
                     /\ WF_vars(part = "globalos" /\ GlobalFifoRead(p))
UcpRuns ==
  \A p \in UcpPU : /\ WF_ucpVars(part = "ucp" /\ UcpServer(p))
                   /\ WF_ucpVars(part = "ucp" /\ UcpClient(p))
                   /\ WF_ucpVars(part = "ucp" /\ CallRecv(p))

FairCallsSpec == CallsSpec /\ GlobalOsRuns /\ UcpRuns
=============================================================================
