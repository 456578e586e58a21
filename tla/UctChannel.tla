----------------------------- MODULE UctChannel -----------------------------
(***************************************************************************)
(* One direction of the DSM link (uct_molecule_dsm.c): dsm_call in the     *)
(* SYSCALL thread of one PU and run_two_way_server in the DSM thread of    *)
(* the other, over UCT active messages.  Each side keeps one pointer,      *)
(* client_desc_holder or server_desc_holder, in which the receive callback *)
(* leaves a descriptor and the completion callback of a zero-copy send the *)
(* value 0xDEADBEEF.                                                       *)
(*                                                                         *)
(* A message is the number of the call it belongs to.  UCT is external: it *)
(* delivers every posted message once and in order, and runs callbacks     *)
(* only inside uct_worker_progress.                                        *)
(***************************************************************************)
EXTENDS Integers, Sequences

CONSTANTS
  Statuses,     \* what uct_ep_am_zcopy returns: "OK", "INPROGRESS", "NO_RESOURCE"
                \* and "ERROR" for any other status
  MaxCalls      \* bound: dsm_calls made

ASSUME ChannelAssumption ==
  /\ Statuses \subseteq {"OK", "INPROGRESS", "NO_RESOURCE", "ERROR"}
  /\ MaxCalls \in Nat

Side == {"client", "server"}
Peer(d) == IF d = "client" THEN "server" ELSE "client"

Null     == 0
DeadBeef == -1

VARIABLES
  pc,       \* of the thread at each side
  holder,   \* client_desc_holder, server_desc_holder
  comps,    \* zero-copy sends whose completion has not been reported
  wire,     \* wire[d]: messages on their way to d
  buf,      \* the message copied out last: dsm_resp_buf, dsm_call_buf
  calls,    \* dsm_calls made
  upset     \* history: a send failed, or a message arrived during a send

vars == <<pc, holder, comps, wire, buf, calls, upset>>

\* "out": the client is in no dsm_call; "post": about to call uct_ep_am_zcopy;
\* "retry", "sent": in the progress call behind it, with NO_RESOURCE or OK;
\* "wait": in the loop for the completion; "recv": in molecule_recv_msg;
\* "handle": the server is in dsm_handlers; "fault": 0xDEADBEEF was followed
Pc == {"out", "post", "retry", "sent", "wait", "recv", "handle", "fault"}

TypeOK ==
  /\ pc \in [Side -> Pc]
  /\ holder \in [Side -> {Null, DeadBeef} \cup 1 .. MaxCalls]
  /\ comps \in [Side -> Nat]
  /\ wire \in [Side -> Seq(1 .. MaxCalls)]
  /\ buf \in [Side -> 0 .. MaxCalls]
  /\ calls \in 0 .. MaxCalls
  /\ upset \in BOOLEAN

Init ==
  /\ pc = [d \in Side |-> IF d = "client" THEN "out" ELSE "recv"]
  /\ holder = [d \in Side |-> Null]
  /\ comps = [d \in Side |-> 0]
  /\ wire = [d \in Side |-> <<>>]
  /\ buf = [d \in Side |-> 0]
  /\ calls = 0
  /\ upset = FALSE

Goto(d, l) == pc' = [pc EXCEPT ![d] = l]

\* dsm_call enters molecule_send_msg
DsmCall ==
  /\ pc["client"] = "out"
  /\ calls < MaxCalls
  /\ calls' = calls + 1
  /\ Goto("client", "post")
  /\ UNCHANGED <<holder, comps, wire, buf, upset>>

\* What side d sends: the request, or the answer to the request in dsm_call_buf
Outgoing(d) == IF d = "client" THEN calls ELSE buf["server"]

\* Mutant of Posted: a send that found no resource went out all the same
PostedAlways(d, status) == wire' = [wire EXCEPT ![Peer(d)] = Append(@, Outgoing(d))]

\* the message goes out, unless the send failed
Posted(d, status) ==
  wire' = IF status \in {"OK", "INPROGRESS"}
          THEN [wire EXCEPT ![Peer(d)] = Append(@, Outgoing(d))] ELSE wire

\* uct_ep_am_zcopy.  After an error the function goes on as after success.
Post(d) ==
  /\ pc[d] = "post"
  /\ \E status \in Statuses :
       /\ Posted(d, status)
       /\ comps' = [comps EXCEPT ![d] = IF status = "INPROGRESS" THEN @ + 1 ELSE @]
       /\ Goto(d, IF status = "NO_RESOURCE" THEN "retry"
                  ELSE IF status = "INPROGRESS" THEN "wait" ELSE "sent")
       /\ upset' = (upset \/ status = "ERROR")
  /\ UNCHANGED <<holder, buf, calls>>

\* uct_worker_progress returned and the send is tried again
Retry(d) == pc[d] = "retry" /\ Goto(d, "post")
            /\ UNCHANGED <<holder, comps, wire, buf, calls, upset>>

\* In uct_worker_progress: client_/server_zcopy_completion_cb
Completed(d) ==
  /\ pc[d] \in {"retry", "sent", "wait", "recv"}
  /\ comps[d] > 0
  /\ comps' = [comps EXCEPT ![d] = @ - 1]
  /\ holder' = [holder EXCEPT ![d] = DeadBeef]
  /\ UNCHANGED <<pc, wire, buf, calls, upset>>

\* In uct_worker_progress: client_/server_hello_world
Arrived(d) ==
  /\ pc[d] \in {"retry", "sent", "wait", "recv"}
  /\ wire[d] # <<>>
  /\ wire' = [wire EXCEPT ![d] = Tail(@)]
  /\ holder' = [holder EXCEPT ![d] = Head(wire[d])]
  /\ upset' = (upset \/ pc[d] # "recv")
  /\ UNCHANGED <<pc, comps, buf, calls>>

\* Mutant of SendDone: the holder keeps what the completion left in it
SendDoneKeeps(d) ==
  /\ pc[d] = "sent" \/ (pc[d] = "wait" /\ holder[d] # Null)
  /\ Goto(d, "recv")
  /\ UNCHANGED <<holder, comps, wire, buf, calls, upset>>

\* the end of client_/server_molecule_do_am_zcopy: the holder is set to NULL
\* and the side goes on to molecule_recv_msg
SendDone(d) ==
  /\ pc[d] = "sent" \/ (pc[d] = "wait" /\ holder[d] # Null)
  /\ holder' = [holder EXCEPT ![d] = Null]
  /\ Goto(d, "recv")
  /\ UNCHANGED <<comps, wire, buf, calls, upset>>

\* client_/server_molecule_recv_msg: copy the message out, release it, and
\* set the holder to NULL
RecvMsg(d) ==
  /\ pc[d] = "recv"
  /\ holder[d] \notin {Null, DeadBeef}
  /\ buf' = [buf EXCEPT ![d] = holder[d]]
  /\ holder' = [holder EXCEPT ![d] = Null]
  /\ Goto(d, IF d = "client" THEN "out" ELSE "handle")
  /\ UNCHANGED <<comps, wire, calls, upset>>

\* ... which follows whatever pointer it finds
RecvFault(d) ==
  /\ pc[d] = "recv"
  /\ holder[d] = DeadBeef
  /\ Goto(d, "fault")
  /\ UNCHANGED <<holder, comps, wire, buf, calls, upset>>

\* dsm_handlers has returned (module GlobalSyscall says what it did)
Handled ==
  /\ pc["server"] = "handle"
  /\ Goto("server", "post")
  /\ UNCHANGED <<holder, comps, wire, buf, calls, upset>>

Steps(d) == \/ Post(d) \/ Retry(d) \/ Completed(d) \/ Arrived(d)
            \/ SendDone(d) \/ RecvMsg(d) \/ RecvFault(d)

Next == DsmCall \/ Handled \/ \E d \in Side : Steps(d)

Spec == Init /\ [][Next]_vars

\* Both threads spin on uct_worker_progress, which reports a message that has
\* arrived and a completion; the transport frees its resources in the end;
\* dsm_handlers returns.  Nothing forces a program to make another call.
Fairness == /\ \A d \in Side : /\ WF_vars(Steps(d))
                               /\ WF_vars(Completed(d)) /\ WF_vars(Arrived(d))
                               /\ SF_vars(pc[d] = "post" /\ Post(d) /\ pc'[d] # "retry")
            /\ WF_vars(Handled)

FairSpec == Spec /\ Fairness

-----------------------------------------------------------------------------
(* The link that GlobalSyscall assumes.                                    *)

\* The server has taken the request of the current call.
Taken == buf["server"] = calls

Link == IF pc["client"] = "out" THEN "idle"
        ELSE IF ~Taken THEN "request"
        ELSE IF pc["server"] \in {"handle", "post", "retry"} THEN "handling"
        ELSE "response"

DL == INSTANCE DsmLink WITH link <- Link, no <- calls, ans <- buf["client"]

\* A dsm_call that returns is the link GlobalSyscall assumes: its request was
\* taken once and it returns with its own answer, although callbacks and
\* senders share one pointer, messages overtake sends and sends are retried.
ImplementsLink == DL!LinkSpec

\* dsm_call returns, unless a send failed or a message arrived while its
\* receiver was still in a send: completions are awaited and cleared from the
\* holder, so that the receive function never takes one for a message.
DsmCallReturns == []<>(pc["client"] = "out" \/ upset)

\* "Hold descriptor to release later": a descriptor in the holder leaves it
\* only by molecule_recv_msg, which copies the message and releases it.
HeldUntilReleased ==
  [][\A d \in Side :
       holder[d] \in 1 .. MaxCalls =>
         \/ holder'[d] = holder[d]
         \/ pc[d] = "recv" /\ buf'[d] = holder[d]]_vars
=============================================================================
