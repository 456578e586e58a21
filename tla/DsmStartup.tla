----------------------------- MODULE DsmStartup -----------------------------
(***************************************************************************)
(* How the two globalOS set up the DSM link (uct_molecule_dsm_init).  The  *)
(* DSM thread of each PU prepares a server context, whose worker takes the *)
(* requests of the other PU, and a client context, for dsm_call: PU 0 the  *)
(* server first, PU 1 the client first.  A context is prepared over a TCP  *)
(* connection on which both sides exchange addresses.  Meanwhile the       *)
(* SYSCALL thread already serves the processes.                            *)
(*                                                                         *)
(* A connection is named by the PU that accepts it: there is one for each. *)
(* UCT is external: it can attach an endpoint to the address of another,   *)
(* keeps a message until the receiver's worker makes progress, and any of  *)
(* its functions may fail.                                                 *)
(***************************************************************************)
EXTENDS Integers, Sequences

CONSTANTS
  Caps,       \* how the transport connects: {"IFACE"}, {"EP"} or both
  MayFail,    \* the PUs on which a library or system call may fail
  StartupCalls    \* bound: dsm_calls made by a PU

PU == {0, 1}
Other(s) == 1 - s

ASSUME StartupAssumption ==
  /\ Caps \subseteq {"IFACE", "EP"} /\ Caps # {}
  /\ MayFail \subseteq PU
  /\ StartupCalls \in Nat

Role == {"server", "client"}
Opposite(r) == IF r = "server" THEN "client" ELSE "server"

\* Mutant of Stages: every PU is server first
StagesSame(s) == <<"server", "client">>

\* the contexts in the order in which PU s prepares them
Stages(s) == IF s = 0 THEN <<"server", "client">> ELSE <<"client", "server">>

\* what the two sides of a connection send each other
Exchanges == <<"dev">> \o (IF "IFACE" \in Caps THEN <<"iface">> ELSE <<>>)
                       \o (IF "EP" \in Caps THEN <<"ep", "barrier">> ELSE <<>>)

VARIABLES
  dpc,        \* of the DSM thread of each PU
  stage,     \* 1 or 2: which context it prepares
  done,      \* done[s][r]: exchanges completed for context r
  ctx,       \* ctx[s][r]: server_/client_molecule_if_info and _ep are set
  attached,  \* attached[s][r]: its endpoint is attached to the other side's
  listening, \* listening[c]: PU c listens on port 13337
  sock,      \* sock[c][r]: the r end of connection c: "none", "open", "closed"
  inbox,     \* inbox[c][r]: what has been sent to that end and not received
  call,      \* the dsm_call of the SYSCALL thread: "none", "sent", "answered"
  made,     \* dsm_calls made
  failures,  \* history: PUs on which a call failed
  early      \* history: PUs with a dsm_call while client_molecule_if_info was NULL

startupVars == <<dpc, stage, done, ctx, attached, listening, sock, inbox, call, made,
          failures, early>>
net == <<listening, sock, inbox>>
syscalls == <<call, made, early>>

DPc == {"setup", "lookup", "oob", "accept", "send", "recv", "publish", "serve", "dead"}

StartupTypeOK ==
  /\ dpc \in [PU -> DPc]
  /\ stage \in [PU -> {1, 2}]
  /\ done \in [PU -> [Role -> 0 .. Len(Exchanges)]]
  /\ ctx \in [PU -> [Role -> BOOLEAN]]
  /\ attached \in [PU -> [Role -> BOOLEAN]]
  /\ listening \in [PU -> BOOLEAN]
  /\ sock \in [PU -> [Role -> {"none", "open", "closed"}]]
  /\ inbox \in [PU -> [Role -> Seq({"dev", "iface", "ep", "barrier"})]]
  /\ call \in [PU -> {"none", "sent", "answered"}]
  /\ made \in [PU -> 0 .. StartupCalls]
  /\ failures \subseteq PU
  /\ early \subseteq PU

StartupInit ==
  /\ dpc = [s \in PU |-> "setup"]
  /\ stage = [s \in PU |-> 1]
  /\ done = [s \in PU |-> [r \in Role |-> 0]]
  /\ ctx = [s \in PU |-> [r \in Role |-> FALSE]]
  /\ attached = [s \in PU |-> [r \in Role |-> FALSE]]
  /\ listening = [s \in PU |-> FALSE]
  /\ sock = [s \in PU |-> [r \in Role |-> "none"]]
  /\ inbox = [s \in PU |-> [r \in Role |-> <<>>]]
  /\ call = [s \in PU |-> "none"]
  /\ made = [s \in PU |-> 0]
  /\ failures = {}
  /\ early = {}

\* the context that PU s prepares now, and its connection
Doing(s) == Stages(s)[stage[s]]
Conn(s, r) == IF r = "server" THEN s ELSE Other(s)

DGoto(s, l1, l2) == dpc[s] = l1 /\ dpc' = [dpc EXCEPT ![s] = l2]

\* Mutant of Advance: one context too many
AdvanceOver(s) ==
  IF stage[s] <= 2
  THEN /\ dpc' = [dpc EXCEPT ![s] = "setup"]
       /\ stage' = [stage EXCEPT ![s] = @ + 1]
  ELSE /\ dpc' = [dpc EXCEPT ![s] = "serve"]
       /\ UNCHANGED stage

\* molecule_prepare_dsm_ctx returns: the next context, or run_two_way_server,
\* which follows server_molecule_if_info
Advance(s) ==
  IF stage[s] = 1
  THEN /\ dpc' = [dpc EXCEPT ![s] = "setup"]
       /\ stage' = [stage EXCEPT ![s] = 2]
  ELSE /\ dpc' = [dpc EXCEPT ![s] = "serve"]
       /\ UNCHANGED stage

\* the end of globalOS: its sockets are closed, and a connection that waits
\* to be accepted is reset
Crash(s) ==
  /\ dpc' = [dpc EXCEPT ![s] = "dead"]
  /\ listening' = [listening EXCEPT ![s] = FALSE]
  /\ sock' = [c \in PU |-> [r \in Role |->
                IF c = Conn(s, r) /\ (sock[c][r] = "open" \/ (r = "server" /\ listening[c]))
                THEN "closed" ELSE sock[c][r]]]

-----------------------------------------------------------------------------
(* molecule_prepare_dsm_ctx.                                               *)

\* the async context and the worker have been created
Setup(s) == DGoto(s, "setup", "lookup")
            /\ UNCHANGED <<stage, done, ctx, attached, net, syscalls, failures>>

\* dev_tl_lookup has opened the interface of the device and transport named
DevTlLookup(s) == DGoto(s, "lookup", "oob")
                  /\ UNCHANGED <<stage, done, ctx, attached, net, syscalls, failures>>

\* server_connect up to listen
Listen(s) ==
  /\ Doing(s) = "server"
  /\ DGoto(s, "oob", "accept")
  /\ listening' = [listening EXCEPT ![s] = TRUE]
  /\ UNCHANGED <<stage, done, ctx, attached, sock, inbox, syscalls, failures>>

\* client_connect, which tries until the other PU listens
ClientConnect(s) ==
  /\ Doing(s) = "client"
  /\ listening[Other(s)] /\ sock[Other(s)]["client"] = "none"
  /\ DGoto(s, "oob", "send")
  /\ sock' = [sock EXCEPT ![Other(s)]["client"] = "open"]
  /\ UNCHANGED <<stage, done, ctx, attached, listening, inbox, syscalls, failures>>

\* accept; nobody else can connect
Accept(s) ==
  /\ sock[s]["client"] # "none"
  /\ DGoto(s, "accept", "send")
  /\ sock' = [sock EXCEPT ![s]["server"] = "open"]
  /\ listening' = [listening EXCEPT ![s] = FALSE]
  /\ UNCHANGED <<stage, done, ctx, attached, inbox, syscalls, failures>>

\* the first half of sendrecv and of barrier.  What is sent to an end that
\* has been closed is lost.
Send(s) ==
  LET r == Doing(s)  c == Conn(s, r) IN
  /\ DGoto(s, "send", "recv")
  /\ inbox' = IF sock[c][Opposite(r)] = "closed" THEN inbox
              ELSE [inbox EXCEPT ![c][Opposite(r)] =
                      Append(@, Exchanges[done[s][r] + 1])]
  /\ UNCHANGED <<stage, done, ctx, attached, listening, sock, syscalls, failures>>

\* ... or it raises SIGPIPE, as the second send of sendrecv does
SendToClosed(s) ==
  LET r == Doing(s)  c == Conn(s, r) IN
  /\ dpc[s] = "send" /\ sock[c][Opposite(r)] = "closed"
  /\ Crash(s)
  /\ UNCHANGED <<stage, done, ctx, attached, inbox, syscalls, failures>>

\* Mutant of Received: the addresses and the barrier are not waited for
ReceivedNot(c, r) == inbox' = [inbox EXCEPT ![c][r] = IF @ = <<>> THEN @ ELSE Tail(@)]

Received(c, r) == inbox[c][r] # <<>> /\ inbox' = [inbox EXCEPT ![c][r] = Tail(@)]

\* Mutant of Attaches: only the client attaches its endpoint
AttachesClient(r, x) == r = "client" /\ x = IF "EP" \in Caps THEN "ep" ELSE "iface"

\* with which address the endpoint can be attached
Attaches(r, x) == x = IF "EP" \in Caps THEN "ep" ELSE "iface"

\* the second half.  The endpoint is attached when the addresses are there;
\* the status of uct_ep_connect_to_ep is not looked at.
Recv(s) ==
  LET r == Doing(s)  n == done[s][r] + 1 IN
  /\ Received(Conn(s, r), r)
  /\ done' = [done EXCEPT ![s][r] = n]
  /\ DGoto(s, "recv", IF n = Len(Exchanges) THEN "publish" ELSE "send")
  /\ \/ /\ attached' = [attached EXCEPT ![s][r] =
                          @ \/ Attaches(r, Exchanges[n])]
        /\ UNCHANGED failures
     \/ /\ Exchanges[n] = "ep" /\ s \in MayFail
        /\ failures' = failures \cup {s}
        /\ UNCHANGED attached
  /\ UNCHANGED <<stage, ctx, listening, sock, syscalls>>

\* set_am_handler, and the three stores that make the context visible
Publish(s) ==
  /\ dpc[s] = "publish"
  /\ ctx' = [ctx EXCEPT ![s][Doing(s)] = TRUE]
  /\ Advance(s)
  /\ UNCHANGED <<done, attached, net, syscalls, failures>>

\* the clean-up at the end of the function; it has no result, so that the
\* caller goes on
CleanUp(s) ==
  LET r == Doing(s)  c == Conn(s, r) IN
  /\ sock' = IF dpc[s] = "accept" \/ sock[c][r] = "open"
             THEN [sock EXCEPT ![c][r] = "closed"] ELSE sock
  /\ listening' = IF r = "server" THEN [listening EXCEPT ![s] = FALSE] ELSE listening
  /\ Advance(s)

\* a call of the system or of UCT fails
Fail(s) ==
  /\ s \in MayFail
  /\ dpc[s] \in {"setup", "lookup", "oob", "accept", "send", "recv", "publish"}
  /\ CleanUp(s)
  /\ failures' = failures \cup {s}
  /\ UNCHANGED <<done, ctx, attached, inbox, syscalls>>

\* the other side has closed the connection
RecvEof(s) ==
  LET r == Doing(s)  c == Conn(s, r) IN
  /\ dpc[s] = "recv"
  /\ inbox[c][r] = <<>> /\ sock[c][Opposite(r)] = "closed"
  /\ CleanUp(s)
  /\ UNCHANGED <<done, ctx, attached, inbox, syscalls, failures>>

-----------------------------------------------------------------------------
(* run_two_way_server and dsm_call.                                        *)

\* there is no server context
ServeNothing(s) ==
  /\ dpc[s] = "serve" /\ ~ctx[s]["server"]
  /\ Crash(s)
  /\ UNCHANGED <<stage, done, ctx, attached, inbox, syscalls, failures>>

\* a request of the other PU is taken and answered
Serve(s) ==
  /\ dpc[s] = "serve" /\ ctx[s]["server"]
  /\ call[Other(s)] = "sent"
  /\ attached[Other(s)]["client"] /\ attached[s]["server"]
  /\ call' = [call EXCEPT ![Other(s)] = "answered"]
  /\ UNCHANGED <<dpc, stage, done, ctx, attached, net, made, early, failures>>

\* a global system call needs the other PU
CallDsm(s) ==
  /\ dpc[s] # "dead" /\ call[s] = "none" /\ made[s] < StartupCalls
  /\ made' = [made EXCEPT ![s] = @ + 1]
  /\ \/ /\ ctx[s]["client"]
        /\ call' = [call EXCEPT ![s] = "sent"]
        /\ UNCHANGED <<dpc, net, early>>
     \/ /\ ~ctx[s]["client"]
        /\ early' = early \cup {s}
        /\ Crash(s)
        /\ UNCHANGED <<inbox, call>>
  /\ UNCHANGED <<stage, done, ctx, attached, failures>>

DsmReturn(s) ==
  /\ dpc[s] # "dead" /\ call[s] = "answered"
  /\ call' = [call EXCEPT ![s] = "none"]
  /\ UNCHANGED <<dpc, stage, done, ctx, attached, net, made, early, failures>>

Starts(s) == \/ Setup(s) \/ DevTlLookup(s) \/ Listen(s) \/ ClientConnect(s)
             \/ Accept(s) \/ Send(s) \/ SendToClosed(s) \/ Recv(s) \/ Publish(s)
             \/ RecvEof(s) \/ ServeNothing(s)

StartupNext == \E s \in PU : Starts(s) \/ Fail(s) \/ Serve(s) \/ CallDsm(s) \/ DsmReturn(s)

StartupSpec == StartupInit /\ [][StartupNext]_startupVars

\* both threads of a globalOS run
StartupFairness == \A s \in PU :
  WF_startupVars(Starts(s)) /\ WF_startupVars(Serve(s)) /\ WF_startupVars(DsmReturn(s))

StartupFairSpec == StartupSpec /\ StartupFairness

-----------------------------------------------------------------------------
(* Properties.                                                             *)

\* The two sides of a connection prepare it in step: neither is more than one
\* exchange ahead, also when the other fails or goes on to its next context.
InStep ==
  \A s \in PU : LET d == done[s]["client"] - done[Other(s)]["server"] IN d \in -1 .. 1

\* barrier: a context with endpoints becomes visible only when the endpoint
\* of the other side is attached too, so that no message comes before that.
AttachedFirst ==
  "EP" \in Caps /\ failures = {} =>
    \A s \in PU, r \in Role :
      ctx[s][r] => attached[s][r] /\ attached[Other(s)][Opposite(r)]

Trouble == failures # {} \/ early # {}

\* Once a DSM thread has begun: server first on one PU and client first on the
\* other gets both contexts of both PUs ready, unless a call fails or a
\* dsm_call comes too early.
LinkUp ==
  (\E s \in PU : dpc[s] # "setup") ~>
    (\/ \A s \in PU : dpc[s] = "serve" /\ ctx[s]["server"] /\ ctx[s]["client"]
     \/ Trouble)

\* A dsm_call that is made as soon as the client context is there is answered,
\* although the other PU may still have its second context to prepare.
EarlyCallAnswered == \A s \in PU : []<>(call[s] # "sent" \/ Trouble)

\* The link comes up and serves, also while one side is still starting.
LinkServes == LinkUp /\ EarlyCallAnswered
=============================================================================
