------------------------------ MODULE MCParts ------------------------------
(***************************************************************************)
(* Four parts that share no state: the start-up of the DSM link, the       *)
(* channel it gives, the hash table and the hash map.  A behaviour is one  *)
(* of a single part, chosen at the start, while the others stay in their   *)
(* initial states.                                                         *)
(***************************************************************************)
EXTENDS DsmStartup, UctChannel, HashTable, HashMap

VARIABLE part

\* keys 1 and 3 collide until the table has grown
MCHash == [k \in Key |-> k]

\* keys of the hash map: 1 and 2 collide, and 3 and 4, all four of them until it
\* has grown; their runs go round to the home of 5
MCHmHash == <<3, 3, 7, 15, 0>>

PartsInit == /\ part \in {"startup", "channel", "table", "map"}
             /\ StartupInit /\ Init /\ TableInit /\ HashMapInit

PartsNext ==
  /\ UNCHANGED part
  /\ \/ part = "startup" /\ StartupNext /\ UNCHANGED <<vars, tableVars, hashMapVars>>
     \/ part = "channel" /\ Next /\ UNCHANGED <<startupVars, tableVars, hashMapVars>>
     \/ part = "table" /\ TableNext /\ UNCHANGED <<startupVars, vars, hashMapVars>>
     \/ part = "map" /\ HashMapNext /\ UNCHANGED <<startupVars, vars, tableVars>>

\* the fairness of every part, asked of the one that runs
PartsFairness ==
  /\ \A s \in PU : /\ WF_startupVars(part = "startup" /\ Starts(s))
                   /\ WF_startupVars(part = "startup" /\ Serve(s))
                   /\ WF_startupVars(part = "startup" /\ DsmReturn(s))
  /\ \A d \in Side :
       /\ WF_vars(part = "channel" /\ Steps(d))
       /\ WF_vars(part = "channel" /\ Completed(d)) /\ WF_vars(part = "channel" /\ Arrived(d))
       /\ SF_vars(part = "channel" /\ pc[d] = "post" /\ Post(d) /\ pc'[d] # "retry")
  /\ WF_vars(part = "channel" /\ Handled)
  /\ WF_tableVars(part = "table" /\ (Inserting \/ Resizing))
  /\ WF_tableVars(part = "table" /\ Looking)

PartsSpec ==
  PartsInit /\ [][PartsNext]_<<part, startupVars, vars, tableVars, hashMapVars>> /\ PartsFairness
=============================================================================
