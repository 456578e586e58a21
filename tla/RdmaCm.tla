------------------------------ MODULE RdmaCm ------------------------------
(***************************************************************************)
(* The RDMA library over the RDMA connection manager (option -R).          *)
(*                                                                         *)
(* A control connection comes first (rdma_client_connect and               *)
(* rdma_server_connect).  Its only buffer buf[0] holds what is sent and    *)
(* what is received; a handshake over it is a message each way.  Between   *)
(* two handshakes create_rdma_cm_connection makes one connection per QP:   *)
(* the client resolves and connects all of them at once, and on both sides *)
(* a loop handles the events of the connection manager as they come.       *)
(*                                                                         *)
(* A message is the number of its handshake, negative if it is from the    *)
(* server.  The connection manager and the network are external: they      *)
(* resolve, deliver and refuse in any order, and MaxCmFaults bounds the    *)
(* calls and the events that fail.                                         *)
(***************************************************************************)
EXTENDS Integers, Sequences, FiniteSets

CONSTANTS
  CmQps,        \* num_of_qps
  NumRetries,   \* NUM_OF_RETRIES
  Shakes,       \* handshakes after create_rdma_cm_connection
  UdModes,      \* whether the connections are UD
  MaxCmFaults   \* bound: calls and events that fail

ASSUME RdmaCmAssumption ==
  /\ CmQps \in Nat \ {0} /\ NumRetries \in Nat \ {0} /\ Shakes \in Nat
  /\ UdModes \subseteq BOOLEAN /\ MaxCmFaults \in Nat

CmSide == {"client", "server"}
CmPeer(s) == IF s = "client" THEN "server" ELSE "client"
Node == 0 .. CmQps - 1
NoNode == -1

VARIABLES
  ud,         \* connection_type is UD, and both sides send
  cmst,       \* of a process: "ctl", "sync1", "cm", "spin", "sync2", "over", "failed", "crashed", "down"
  hs,         \* a handshake: how many are done, and how far the one is that is going on
  retries,    \* num_of_retry of the client
  ctl,        \* the control connection: "none", "listening", "asked", "up"
  cbuf,       \* buf[0]: the message in it
  posted,     \* receives posted
  wire,       \* the message on its way from a side, 0 if there is none
  cmGot,      \* history: what a side took for the message of the n-th handshake
  ids,        \* the connections, as the connection manager sees them
  chan,       \* the events of a side, in the order they came
  listening,  \* the server listens for the connections
  cidx,       \* connection_index
  left,       \* connects_left
  dleft,      \* disconnects_left
  qps,        \* ctx->qp[i]: the connection QP i belongs to
  conn,       \* nodes[i].connected
  rem,        \* nodes[i].remote_qpn: the QP of the other side, for UD
  imm,        \* the number of a client's QP, on its way to a QP of the server
  ooo,        \* history: routes were resolved out of order
  cfaults

cmCtl == <<retries, ctl, cbuf, posted, wire, cmGot>>
cmData == <<ids, chan, listening, cidx, left, dleft, qps, conn, rem, imm, ooo>>
rdmaCmVars == <<ud, cmst, hs, cmCtl, cmData, cfaults>>

NoQps == [i \in Node |-> NoNode]
RdmaCmInit ==
  /\ ud \in UdModes
  /\ cmst = [s \in CmSide |-> "ctl"]
  /\ hs = [s \in CmSide |-> [n |-> 0, at |-> 0]]
  /\ retries = NumRetries /\ ctl = "none"
  /\ cbuf = [s \in CmSide |-> 0] /\ posted = cbuf /\ wire = cbuf
  /\ cmGot = [s \in CmSide |-> <<>>]
  /\ ids = [i \in Node |-> "idle"] /\ chan = [s \in CmSide |-> <<>>]
  /\ listening = FALSE
  /\ cidx = [s \in CmSide |-> 0] /\ left = [s \in CmSide |-> CmQps] /\ dleft = 0
  /\ qps = [s \in CmSide |-> NoQps] /\ rem = qps
  /\ conn = [s \in CmSide |-> [i \in Node |-> FALSE]]
  /\ imm = [i \in Node |-> NoNode] /\ ooo = FALSE
  /\ cfaults = 0

CmFault == cfaults < MaxCmFaults /\ cfaults' = cfaults + 1
Goes(s, to) == cmst' = [cmst EXCEPT ![s] = to]
CmGone(s) == cmst[s] \in {"failed", "crashed"}

-----------------------------------------------------------------------------
(***************************************************************************)
(* The control connection.                                                 *)
(***************************************************************************)
\* rdma_server_connect: bind and listen, then accept with a receive posted
ServerListens ==
  /\ cmst["server"] = "ctl" /\ ctl = "none" /\ ctl' = "listening"
  /\ UNCHANGED <<ud, cmst, hs, retries, cbuf, posted, wire, cmGot, cmData, cfaults>>
ServerAccepts ==
  /\ cmst["server"] = "ctl" /\ ctl = "asked" /\ ~CmGone("client")
  /\ ctl' = "up" /\ Goes("server", "sync1")
  /\ posted' = [posted EXCEPT !["server"] = 1]
  /\ UNCHANGED <<ud, hs, retries, cbuf, wire, cmGot, cmData, cfaults>>

\* an ADDR_ERROR or a ROUTE_ERROR costs a try, and both loops share them
Resolving == retries' = retries - 1
ClientResolves ==
  /\ cmst["client"] = "ctl" /\ retries > 0 /\ ctl \notin {"asked", "up"}
  /\ CmFault /\ Resolving
  /\ Goes("client", IF retries' = 0 THEN "failed" ELSE "ctl")
  /\ UNCHANGED <<ud, hs, ctl, cbuf, posted, wire, cmGot, cmData>>
\* ... and then the client asks, with a receive posted; nobody listens and it fails
ClientAsks ==
  /\ cmst["client"] = "ctl" /\ ctl \notin {"asked", "up"}
  /\ IF ctl = "listening" /\ ~CmGone("server")
     THEN ctl' = "asked" /\ posted' = [posted EXCEPT !["client"] = 1] /\ UNCHANGED cmst
     ELSE Goes("client", "failed") /\ UNCHANGED <<ctl, posted>>
  /\ UNCHANGED <<ud, hs, retries, cbuf, wire, cmGot, cmData, cfaults>>
ClientUp ==
  /\ cmst["client"] = "ctl" /\ ctl = "up" /\ Goes("client", "sync1")
  /\ UNCHANGED <<ud, hs, cmCtl, cmData, cfaults>>
\* a call of a side fails, or the other is not there to answer
CtlFails(s) ==
  /\ cmst[s] = "ctl"
  /\ \/ CmFault
     \/ ctl = "asked" /\ CmGone(CmPeer(s)) /\ UNCHANGED cfaults
  /\ Goes(s, "failed")
  /\ UNCHANGED <<ud, hs, cmCtl, cmData>>

-----------------------------------------------------------------------------
(***************************************************************************)
(* A handshake: the client writes and reads, the server reads and writes.  *)
(* at = 0 .. 1 of a write: copy into the buffer and post, then wait for    *)
(* the completion; at = 2 .. 3 of a read: take the message out of the      *)
(* buffer, then post the next receive.                                     *)
(***************************************************************************)
Shaking(s) == cmst[s] \in {"sync1", "sync2"} \/ (cmst[s] = "over" /\ hs[s].n < Shakes + 2)

\* Mutant of Order: both sides read first
OrderSame(s) == <<"take", "post", "put", "sent">>

\* the steps of a handshake, for each side
Order(s) == IF s = "client" THEN <<"put", "sent", "take", "post">> ELSE <<"take", "post", "put", "sent">>

\* Mutant of Do: the receive is posted last
DoLate(s, what) ==
  LET posting == IF s = "client" THEN <<"put", "sent", "take", "post">> ELSE <<"take", "put", "sent", "post">>
  IN  Shaking(s) /\ posting[hs[s].at + 1] = what

Do(s, what) == Shaking(s) /\ Order(s)[hs[s].at + 1] = what
After(s) == CASE cmst[s] = "sync1" -> "cm" [] cmst[s] = "sync2" -> "over" [] OTHER -> cmst[s]
Onward(s) ==
  IF hs[s].at < 3 THEN hs' = [hs EXCEPT ![s].at = @ + 1] /\ UNCHANGED cmst
  ELSE hs' = [hs EXCEPT ![s] = [n |-> @.n + 1, at |-> 0]] /\ Goes(s, After(s))

\* the message of a side in the n-th handshake
Msg(s, n) == IF s = "client" THEN n ELSE -n

\* rdma_write_keys
PutKeys(s) ==
  /\ Do(s, "put") /\ Onward(s)
  /\ cbuf' = [cbuf EXCEPT ![s] = Msg(s, hs[s].n + 1)]
  /\ wire' = [wire EXCEPT ![s] = Msg(s, hs[s].n + 1)]
  /\ UNCHANGED <<ud, retries, ctl, posted, cmGot, cmData, cfaults>>
\* its completion: the message was received, or the other side is gone
KeysSent(s) ==
  /\ Do(s, "sent")
  /\ IF wire[s] = 0 THEN Onward(s) ELSE CmGone(CmPeer(s)) /\ Goes(s, "failed") /\ UNCHANGED hs
  /\ UNCHANGED <<ud, cmCtl, cmData, cfaults>>
\* external: the device puts a message into the buffer of the receive posted
Arrive(s) ==
  LET p == CmPeer(s) IN
  /\ wire[s] # 0 /\ posted[p] > 0 /\ ~CmGone(p)
  /\ cbuf' = [cbuf EXCEPT ![p] = wire[s]]
  /\ posted' = [posted EXCEPT ![p] = @ - 1]
  /\ wire' = [wire EXCEPT ![s] = 0]
  /\ UNCHANGED <<ud, cmst, hs, retries, ctl, cmGot, cmData, cfaults>>
\* rdma_read_keys: the receive is complete when none is posted any more;
\* nothing tells it that the other side is gone
TakeKeys(s) ==
  /\ Do(s, "take") /\ posted[s] = 0 /\ Onward(s)
  /\ cmGot' = [cmGot EXCEPT ![s] = Append(@, cbuf[s])]
  /\ UNCHANGED <<ud, retries, ctl, cbuf, posted, wire, cmData, cfaults>>

\* post_one_recv_wqe
PostRecv(s) ==
  /\ Do(s, "post") /\ Onward(s)
  /\ posted' = [posted EXCEPT ![s] = @ + 1]
  /\ UNCHANGED <<ud, retries, ctl, cbuf, wire, cmGot, cmData, cfaults>>

-----------------------------------------------------------------------------
(***************************************************************************)
(* The connections.  External: what the connection manager does.           *)
(***************************************************************************)
cmKept == <<ud, hs, cmCtl, listening, cidx, left, dleft, qps, conn, rem, imm, ooo>>
Event(s, kind, i) == chan' = [chan EXCEPT ![s] = Append(@, [kind |-> kind, id |-> i])]
IdTo(i, to) == ids' = [ids EXCEPT ![i] = to]

\* an address or a route is resolved or not
Resolved(i) ==
  /\ ids[i] \in {"addr", "route"} /\ ~CmGone("client")
  /\ \/ /\ IdTo(i, IF ids[i] = "addr" THEN "addrOk" ELSE "routeOk")
        /\ Event("client", IF ids[i] = "addr" THEN "ADDR_RESOLVED" ELSE "ROUTE_RESOLVED", i)
        /\ UNCHANGED cfaults
     \/ CmFault /\ IdTo(i, "error") /\ Event("client", "ERROR", i)
  /\ UNCHANGED <<cmKept, cmst>>
\* a request comes to the server if it listens, and is refused if not
RequestComes(i) ==
  /\ ids[i] = "asked" /\ ~CmGone("client")
  /\ IF listening /\ ~CmGone("server")
     THEN IdTo(i, "requested") /\ Event("server", "CONNECT_REQUEST", i)
     ELSE IdTo(i, "error") /\ Event("client", "REJECTED", i)
  /\ UNCHANGED <<cmKept, cmst, cfaults>>
\* the client learns that it is connected, or that the server is gone
EstablishedComes(i) ==
  /\ ids[i] \in {"accepted", "requested", "rejected"} /\ ~CmGone("client")
  /\ \/ ids[i] = "accepted" /\ IdTo(i, "up") /\ Event("client", "ESTABLISHED", i)
     \/ (ids[i] = "rejected" \/ CmGone("server")) /\ IdTo(i, "error") /\ Event("client", "REJECTED", i)
  /\ UNCHANGED <<cmKept, cmst, cfaults>>
\* a connection ends: the server is gone, or the client has disconnected
DisconnectComes(i) ==
  /\ \/ ids[i] = "up" /\ CmGone("server") /\ ~CmGone("client")
     \/ ids[i] = "closing"
  /\ IdTo(i, "closed") /\ Event("client", "DISCONNECTED", i)
  /\ UNCHANGED <<cmKept, cmst, cfaults>>

-----------------------------------------------------------------------------
(***************************************************************************)
(* The client: rdma_cm_client_connection and its handlers.                 *)
(***************************************************************************)
\* an error in the loop: the nodes and the channel are destroyed and freed, and
\* the next try works with them, which is undefined
Retry == Goes("client", "crashed")
Rest(s) == chan' = [chan EXCEPT ![s] = Tail(@)]
Head1(s) == IF chan[s] = <<>> THEN [kind |-> "none", id |-> NoNode] ELSE Head(chan[s])
InLoop(s) == cmst[s] = "cm" /\ left[s] # 0
cmLoop == <<ud, hs, cmCtl, listening>>

\* rdma_resolve_addr for all
ResolveAll ==
  /\ InLoop("client") /\ \A i \in Node : ids[i] = "idle"
  /\ ids' = [i \in Node |-> "addr"]
  /\ UNCHANGED <<cmLoop, cmst, chan, cidx, left, dleft, qps, conn, rem, imm, ooo, cfaults>>

\* rdma_cm_address_handler
AddressHandler(i) ==
  /\ InLoop("client") /\ Head1("client") = [kind |-> "ADDR_RESOLVED", id |-> i] /\ Rest("client")
  /\ \/ IdTo(i, "route") /\ UNCHANGED <<cmst, left, cfaults>>
     \/ /\ CmFault /\ Retry /\ UNCHANGED ids
        /\ left' = [left EXCEPT !["client"] = @ - 1]
  /\ UNCHANGED <<cmLoop, cidx, dleft, qps, conn, rem, imm, ooo>>

\* the place of the QP of a connection: the next one, whichever node it is
ClientQp(i) == cidx["client"]

\* rdma_cm_route_handler
RouteHandler(i) ==
  /\ InLoop("client") /\ Head1("client") = [kind |-> "ROUTE_RESOLVED", id |-> i] /\ Rest("client")
  /\ \/ /\ qps' = [qps EXCEPT !["client"][ClientQp(i)] = i]
        /\ conn' = [conn EXCEPT !["client"][cidx["client"]] = TRUE]
        /\ cidx' = [cidx EXCEPT !["client"] = @ + 1]
        /\ ooo' = (ooo \/ i # cidx["client"])
        /\ IdTo(i, "asked") /\ UNCHANGED <<cmst, left, cfaults>>
     \/ /\ CmFault /\ Retry /\ left' = [left EXCEPT !["client"] = @ - 1]
        /\ UNCHANGED <<ids, qps, conn, cidx, ooo>>
  /\ UNCHANGED <<cmLoop, dleft, rem, imm>>

\* the QP of node i
HasQp(i) == \E j \in Node : qps["client"][j] = i
\* the place of the server's QP of a connection
ServerQp(i) == CHOOSE j \in Node : qps["server"][j] = i

\* rdma_cm_establish_ud_connection: the events are counted, not looked up
UdPlace == dleft

\* rdma_cm_connection_established_handler: for UD the client tells the server
\* the number of the QP of that node, which may not be there yet
EstablishedHandler(i) ==
  /\ InLoop("client") /\ Head1("client") = [kind |-> "ESTABLISHED", id |-> i] /\ Rest("client")
  /\ IF ud /\ ~HasQp(UdPlace)
     THEN Goes("client", "crashed") /\ UNCHANGED <<left, dleft, rem, imm>>
     ELSE /\ left' = [left EXCEPT !["client"] = @ - 1] /\ dleft' = dleft + 1
          /\ IF ud THEN /\ rem' = [rem EXCEPT !["client"][UdPlace] = ServerQp(i)]
                        /\ imm' = [imm EXCEPT ![ServerQp(i)] = UdPlace]
             ELSE UNCHANGED <<rem, imm>>
          /\ UNCHANGED cmst
  /\ UNCHANGED <<cmLoop, ids, cidx, qps, conn, ooo, cfaults>>

\* rdma_cm_event_error_handler, rdma_cm_disconnect_handler
ErrorHandler(i) ==
  /\ InLoop("client") /\ Head1("client").kind \in {"ERROR", "REJECTED"} /\ Head1("client").id = i
  /\ Rest("client") /\ Retry
  /\ left' = [left EXCEPT !["client"] = @ - 1]
  /\ UNCHANGED <<cmLoop, ids, cidx, dleft, qps, conn, rem, imm, ooo, cfaults>>
DisconnectHandler(i) ==
  /\ InLoop("client") \/ cmst["client"] = "down"
  /\ Head1("client") = [kind |-> "DISCONNECTED", id |-> i] /\ Rest("client")
  /\ dleft' = dleft - 1
  /\ UNCHANGED <<cmLoop, cmst, ids, cidx, left, qps, conn, rem, imm, ooo, cfaults>>

\* a node that is connected
Closes(i) == ids[i] = "up" /\ conn["client"][i]

\* rdma_cm_disconnect_nodes: all that are connected, and then their events
DisconnectNodes ==
  /\ cmst["client"] = "over" /\ ~Shaking("client") /\ dleft # 0 /\ ~ud
  /\ Goes("client", "down")
  /\ ids' = [i \in Node |-> IF Closes(i) THEN "closing" ELSE ids[i]]
  /\ conn' = [conn EXCEPT !["client"] = [i \in Node |-> FALSE]]
  /\ UNCHANGED <<cmLoop, chan, cidx, left, dleft, qps, rem, imm, ooo, cfaults>>

-----------------------------------------------------------------------------
(***************************************************************************)
(* The server: rdma_cm_server_connection and its handler.                  *)
(***************************************************************************)
\* after the first handshake the server begins to listen
ListenAll ==
  /\ InLoop("server") /\ ~listening /\ listening' = TRUE
  /\ UNCHANGED <<ud, hs, cmCtl, cmst, ids, chan, cidx, left, dleft, qps, conn, rem, imm, ooo, cfaults>>

\* one more connection
Accepted ==
  /\ conn' = [conn EXCEPT !["server"][cidx["server"]] = TRUE]
  /\ cidx' = [cidx EXCEPT !["server"] = @ + 1]
  /\ left' = [left EXCEPT !["server"] = @ - 1]

\* rdma_cm_connection_request_handler; a UD server then waits for the number of the QP
RequestHandler(i) ==
  /\ InLoop("server") /\ Head1("server") = [kind |-> "CONNECT_REQUEST", id |-> i] /\ Rest("server")
  /\ \/ /\ qps' = [qps EXCEPT !["server"][cidx["server"]] = i]
        /\ IdTo(i, "accepted") /\ UNCHANGED cfaults
        /\ IF ud THEN Goes("server", "spin") /\ UNCHANGED <<conn, cidx, left>>
           ELSE Accepted /\ UNCHANGED cmst
     \* the first failure, in ctx_init, rejects by an id that is not set
     \/ /\ CmFault /\ Goes("server", IF cidx["server"] = 0 THEN "crashed" ELSE "failed")
        /\ IdTo(i, "rejected")
        /\ left' = [left EXCEPT !["server"] = @ - 1]
        /\ UNCHANGED <<qps, conn, cidx>>
  /\ UNCHANGED <<cmLoop, dleft, rem, imm, ooo>>
\* rdma_cm_initialize_ud_connection_parameters
UdNumberComes ==
  /\ cmst["server"] = "spin" /\ imm[cidx["server"]] # NoNode
  /\ rem' = [rem EXCEPT !["server"][cidx["server"]] = imm[cidx["server"]]]
  /\ Accepted /\ Goes("server", "cm")
  /\ UNCHANGED <<cmLoop, ids, chan, dleft, qps, imm, ooo, cfaults>>

\* all are connected: the second handshake
AllMade(s) ==
  /\ cmst[s] = "cm" /\ left[s] = 0 /\ Goes(s, "sync2")
  /\ listening' = (IF s = "server" THEN FALSE ELSE listening)
  /\ UNCHANGED <<ud, hs, cmCtl, ids, chan, cidx, left, dleft, qps, conn, rem, imm, ooo, cfaults>>

-----------------------------------------------------------------------------
CmProcess(s) ==
  \/ s = "server" /\ (ServerListens \/ ServerAccepts \/ ListenAll \/ UdNumberComes
                      \/ \E i \in Node : RequestHandler(i))
  \/ s = "client" /\ (ClientResolves \/ ClientAsks \/ ClientUp \/ ResolveAll \/ DisconnectNodes)
  \/ s = "client" /\ \E i \in Node : \/ AddressHandler(i) \/ RouteHandler(i) \/ EstablishedHandler(i)
                                     \/ ErrorHandler(i) \/ DisconnectHandler(i)
  \/ CtlFails(s) \/ PutKeys(s) \/ KeysSent(s) \/ TakeKeys(s) \/ PostRecv(s) \/ AllMade(s)
CmNetwork ==
  \/ \E s \in CmSide : Arrive(s)
  \/ \E i \in Node : Resolved(i) \/ RequestComes(i) \/ EstablishedComes(i) \/ DisconnectComes(i)

RdmaCmNext == (\E s \in CmSide : CmProcess(s)) \/ CmNetwork
RdmaCmFair == (\A s \in CmSide : WF_rdmaCmVars(CmProcess(s))) /\ WF_rdmaCmVars(CmNetwork)
RdmaCmSpec == RdmaCmInit /\ [][RdmaCmNext]_rdmaCmVars /\ RdmaCmFair

-----------------------------------------------------------------------------
\* Types.
RdmaCmTypeOK ==
  /\ \A s \in CmSide :
       /\ cmst[s] \in {"ctl", "sync1", "cm", "spin", "sync2", "over", "failed", "crashed", "down"}
       /\ posted[s] \in 0 .. 1 /\ cidx[s] \in 0 .. CmQps /\ left[s] \in 0 .. CmQps
       /\ hs[s] \in [n : 0 .. Shakes + 2, at : 0 .. 3]
  /\ retries \in 0 .. NumRetries /\ dleft \in 0 .. CmQps

\* The one buffer of a side never mixes up what it sends and what it receives:
\* the message taken in the n-th handshake is the n-th of the other side.
OneBuffer == \A s \in CmSide : \A n \in DOMAIN cmGot[s] : cmGot[s][n] = Msg(CmPeer(s), n)

\* A message never waits for a receive: the next one is posted before the
\* answer that lets the other side go on.
ReceivePosted == \A s \in CmSide : wire[s] # 0 /\ ~CmGone(CmPeer(s)) => posted[CmPeer(s)] = 1

\* The counters of the client tell the truth: connects_left counts the
\* connections not yet established, and a side that leaves the loop has a QP of
\* its own for each connection.
Counted ==
  /\ cmst["client"] \notin {"crashed", "failed"} =>
       left["client"] = CmQps - Cardinality({i \in Node : ids[i] \in {"up", "closing", "closed"}})
                        + Cardinality({e \in DOMAIN chan["client"] : chan["client"][e].kind = "ESTABLISHED"})
  /\ \A s \in CmSide : cmst[s] \in {"sync2", "over", "down"} =>
       {qps[s][j] : j \in Node} = Node

\* For UD no two QPs of a side send to the same QP of the other.
UdPairs ==
  ud => \A s \in CmSide : \A j, k \in Node :
          rem[s][j] # NoNode /\ rem[s][j] = rem[s][k] => j = k

\* The client runs into undefined behaviour only when something went wrong: a
\* connection failed and it tries again with what it has freed, or a UD
\* connection is established before a node in front of it has its QP.
DefinedUnless ==
  cmst["client"] = "crashed" =>
    \/ cfaults > 0
    \/ \E i \in Node : ids[i] = "error"
    \/ ud /\ ooo

\* With the control connection up and nothing failing the two sides connect
\* all QPs and finish the handshakes, unless a request comes before the server
\* listens: the first handshake does not wait for that.
CmConnects ==
  (ctl = "up") ~>
    \/ \A s \in CmSide : cmst[s] \in {"over", "down"} /\ ~Shaking(s)
    \/ cfaults > 0 \/ cmst["client"] = "crashed"
\* Disconnecting comes to an end.
CmDisconnects == (cmst["client"] = "down") ~> (dleft = 0)

\* One buffer and one receive carry the handshakes, and the events of all
\* connections, in whatever order they come, end in QPs that are paired.
CmSound == RdmaCmTypeOK /\ OneBuffer /\ ReceivePosted /\ Counted /\ UdPairs /\ DefinedUnless

\* Connecting and disconnecting come to an end.
CmEnds == CmConnects /\ CmDisconnects
=============================================================================
