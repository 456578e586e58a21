---------------------------- MODULE RdmaCmProofs ----------------------------
(***************************************************************************)
(* TLAPS proofs about the RDMA connection manager: the handshakes over the *)
(* control connection with its one buffer, and the connections of all QPs. *)
(***************************************************************************)
EXTENDS RdmaCm, SequenceTheorems, FiniteSetTheorems, TLAPS

CmState == {"ctl", "sync1", "cm", "spin", "sync2", "over", "failed", "crashed", "down"}
IdState == {"idle", "addr", "addrOk", "route", "routeOk", "asked", "requested", "accepted",
            "rejected", "up", "closing", "closed", "error"}
EventKind == {"ADDR_RESOLVED", "ROUTE_RESOLVED", "ERROR", "REJECTED", "ESTABLISHED",
              "DISCONNECTED", "CONNECT_REQUEST"}
CmEvent == [kind : EventKind, id : Node]
Place == Node \cup {NoNode}

CtlTypes ==
  /\ ud \in BOOLEAN /\ cmst \in [CmSide -> CmState]
  /\ hs \in [CmSide -> [n : Nat, at : 0 .. 3]]
  /\ retries \in 0 .. NumRetries /\ ctl \in {"none", "listening", "asked", "up"}
  /\ cbuf \in [CmSide -> Int] /\ wire \in [CmSide -> Int] /\ posted \in [CmSide -> 0 .. 1]
  /\ cmGot \in [CmSide -> Seq(Int)] /\ cfaults \in Nat

DataTypes ==
  /\ ids \in [Node -> IdState] /\ chan \in [CmSide -> Seq(CmEvent)] /\ listening \in BOOLEAN
  /\ cidx \in [CmSide -> 0 .. CmQps] /\ left \in [CmSide -> 0 .. CmQps] /\ dleft \in 0 .. CmQps
  /\ qps \in [CmSide -> [Node -> Place]] /\ rem \in [CmSide -> [Node -> Place]]
  /\ conn \in [CmSide -> [Node -> BOOLEAN]] /\ imm \in [Node -> Place] /\ ooo \in BOOLEAN

-----------------------------------------------------------------------------
(* The handshakes.                                                         *)

\* How many handshakes a side has done when it is where it is.
Stage(s) ==
  /\ hs[s].n <= Shakes + 2
  /\ cmst[s] = "ctl" => hs[s].n = 0 /\ hs[s].at = 0
  /\ cmst[s] = "sync1" => hs[s].n = 0
  /\ cmst[s] \in {"cm", "spin", "sync2"} => hs[s].n = 1
  /\ cmst[s] = "spin" => s = "server"
  /\ cmst[s] = "down" => s = "client"

\* Before the control connection is up there is nothing.
Unconnected ==
  ctl # "up" =>
    /\ \A s \in CmSide : /\ cmst[s] \in {"ctl", "failed"} /\ hs[s].n = 0 /\ hs[s].at = 0
                         /\ wire[s] = 0 /\ cmGot[s] = <<>>
    /\ posted["server"] = 0 /\ (ctl = "asked" <=> posted["client"] = 1)

\* How far the server is in the handshake of the client: negative if it has
\* yet to learn that its last message has arrived.
Ahead == 4 * (hs["server"].n - hs["client"].n) + hs["server"].at

\* The client is in the middle of a handshake: its message is written, and it
\* has not taken the answer.
Asking == hs["client"].at \in {1, 2}

Handshake ==
  ctl = "up" =>
    LET n == hs["client"].n  at == hs["client"].at IN
    /\ Ahead \in -1 .. 4
    /\ at = 0 => Ahead <= 0
    /\ at = 3 => Ahead >= 3
    /\ wire["client"] = IF at = 1 /\ Ahead <= 0 /\ posted["server"] = 1 THEN n + 1 ELSE 0
    /\ wire["server"] = IF Asking /\ Ahead = 3 /\ posted["client"] = 1 THEN -(n + 1) ELSE 0
    /\ posted["server"] = 0 <=> Ahead = 1 \/ (Asking /\ Ahead <= 0 /\ wire["client"] = 0)
    /\ posted["client"] = 0 <=> at = 3 \/ (Asking /\ Ahead >= 3 /\ wire["server"] = 0)
    /\ Asking /\ Ahead <= 0 /\ wire["client"] = 0 => cbuf["server"] = n + 1
    /\ Asking /\ Ahead >= 3 /\ wire["server"] = 0 => cbuf["client"] = -(n + 1)
    /\ Len(cmGot["client"]) = n + (IF at = 3 THEN 1 ELSE 0)
    /\ Len(cmGot["server"]) = hs["server"].n + (IF hs["server"].at = 0 THEN 0 ELSE 1)

CtlInv == CtlTypes /\ (\A s \in CmSide : Stage(s)) /\ Unconnected /\ Handshake /\ OneBuffer

-----------------------------------------------------------------------------
(* The connections.                                                        *)

Pends(s, kind, i) == \E k \in DOMAIN chan[s] : chan[s][k] = [kind |-> kind, id |-> i]

\* What the connection manager's view of a connection is while an event of it waits.
Seen(kind) == CASE kind = "ADDR_RESOLVED"  -> {"addrOk"}
                [] kind = "ROUTE_RESOLVED" -> {"routeOk"}
                [] kind \in {"ERROR", "REJECTED"} -> {"error"}
                [] kind = "ESTABLISHED"    -> {"up", "closing", "closed"}
                [] kind = "DISCONNECTED"   -> {"closed"}
                [] OTHER -> {}

\* Events are true, come once, and a DISCONNECTED comes after its ESTABLISHED.
Events ==
  /\ \A s \in CmSide : \A j, k \in DOMAIN chan[s] : chan[s][j] = chan[s][k] => j = k
  /\ \A k \in DOMAIN chan["client"] : ids[chan["client"][k].id] \in Seen(chan["client"][k].kind)
  /\ \A k \in DOMAIN chan["server"] :
       /\ chan["server"][k].kind = "CONNECT_REQUEST"
       /\ ~CmGone("server") => ids[chan["server"][k].id] = "requested"
  /\ \A i \in Node : \A j \in DOMAIN chan["client"] :
       chan["client"][j] = [kind |-> "ESTABLISHED", id |-> i] /\ ids[i] = "closed" =>
         \E k \in DOMAIN chan["client"] : k > j /\ chan["client"][k] = [kind |-> "DISCONNECTED", id |-> i]

\* The connections the client has been told of, and told of that they ended.
Made   == {i \in Node : ids[i] \in {"up", "closing", "closed"} /\ ~Pends("client", "ESTABLISHED", i)}
Ended  == {i \in Node : ids[i] = "closed" /\ ~Pends("client", "DISCONNECTED", i)}

Counters ==
  ~CmGone("client") => /\ left["client"] = CmQps - Cardinality(Made)
                       /\ dleft = Cardinality(Made) - Cardinality(Ended)

\* The QPs of a side are taken from the front, each for one connection.
Taken(s) == {i \in Node : \E j \in Node : qps[s][j] = i}
Used(s) == cidx[s] + (IF cmst[s] = "spin" THEN 1 ELSE 0)
QpsFilled ==
  \A s \in CmSide : /\ \A j \in Node : qps[s][j] # NoNode <=> j < Used(s)
                    /\ Cardinality(Taken(s)) = Used(s)

\* A connection has its QPs when the connection manager has it.
QpsOwned ==
  \A i \in Node :
    /\ ids[i] \in {"asked", "requested", "accepted", "rejected", "up", "closing", "closed"} =>
         i \in Taken("client")
    /\ i \in Taken("client") => ids[i] \notin {"idle", "addr", "addrOk", "route", "routeOk"}
    /\ ids[i] \in {"accepted", "up", "closing", "closed"} => i \in Taken("server")
    /\ i \in Taken("server") /\ ~CmGone("server") => ids[i] \in {"accepted", "up", "closing", "closed"}

QpsLeft ==
  /\ ~CmGone("server") => left["server"] = CmQps - cidx["server"]
  /\ cmst["server"] = "spin" => left["server"] # 0
  /\ \A s \in CmSide : cmst[s] \in {"sync2", "over", "down"} => left[s] = 0

RoutesInOrder == ~ooo => \A j \in Node : qps["client"][j] # NoNode => qps["client"][j] = j

\* The QP numbers that a UD client is told: of connections that are made.
NumbersTold ==
  /\ \A j \in Node : rem["client"][j] # NoNode => qps["server"][rem["client"][j]] \in Made
  /\ \A s \in CmSide : \A j, k \in Node : rem[s][j] # NoNode /\ rem[s][j] = rem[s][k] => j = k

\* ... and those it tells the server, as long as the server listens to them.
NumbersSent ==
  ~CmGone("server") =>
    /\ \A j \in Node : imm[j] # NoNode => qps["server"][j] \in Made /\ imm[j] < dleft
    /\ \A j, k \in Node : imm[j] # NoNode /\ imm[j] = imm[k] => j = k
    /\ \A j \in Node : rem["server"][j] # NoNode => rem["server"][j] = imm[j]

\* Only UD has such numbers, and it does not disconnect.
UdOnly == /\ ~ud => \A j \in Node : imm[j] = NoNode
          /\ ud => \A i \in Node : ids[i] \in {"closing", "closed"} => CmGone("server")

DataInv ==
  /\ DataTypes /\ Events /\ Counters /\ QpsFilled /\ QpsOwned /\ QpsLeft /\ RoutesInOrder
  /\ NumbersTold /\ NumbersSent /\ UdOnly /\ DefinedUnless

CmInv == CtlInv /\ DataInv

-----------------------------------------------------------------------------
(* Facts used by several steps.                                            *)

LEMMA Sides == /\ CmSide = {"client", "server"} /\ "client" # "server"
               /\ CmPeer("client") = "server" /\ CmPeer("server") = "client"
               /\ \A s \in CmSide : CmPeer(s) \in CmSide
BY DEF CmSide, CmPeer

-----------------------------------------------------------------------------
(* The handshakes, step by step.                                           *)

LEMMA CtlInit == RdmaCmInit => CtlInv
<1> SUFFICES ASSUME RdmaCmInit PROVE CtlInv
  OBVIOUS
<1>1. CtlTypes
  BY RdmaCmAssumption, Sides DEF RdmaCmInit, CtlTypes, CmState
<1>2. (\A s \in CmSide : Stage(s)) /\ Unconnected /\ Handshake /\ OneBuffer
  BY RdmaCmAssumption, Sides DEF RdmaCmInit, Stage, Unconnected, Handshake, OneBuffer
<1> QED BY <1>1, <1>2 DEF CtlInv

\* What the control connection knows stays as it is, and a process moves on in
\* what it does with the others.
LEMMA CtlKept ==
  ASSUME CtlInv, UNCHANGED <<ud, hs, cmCtl>>, cfaults' \in Nat,
         cmst' \in [CmSide -> CmState],
         \A s \in CmSide :
           \/ cmst'[s] = cmst[s]
           \/ /\ cmst[s] \in {"cm", "spin"} /\ cmst'[s] \in {"cm", "spin", "sync2", "failed", "crashed"}
              /\ cmst'[s] = "spin" => s = "server"
           \/ cmst[s] = "ctl" /\ cmst'[s] = "failed"
           \/ s = "client" /\ cmst[s] = "over" /\ cmst'[s] = "down"
  PROVE  CtlInv'
<1>1. CtlTypes'
  BY DEF CtlInv, CtlTypes, cmCtl
<1>2. \A s \in CmSide : Stage(s)'
  BY DEF CtlInv, Stage, cmCtl
<1>3. Unconnected'
  BY DEF CtlInv, Unconnected, cmCtl
<1>4. Handshake' /\ OneBuffer'
  BY DEF CtlInv, Handshake, OneBuffer, Ahead, Asking, cmCtl
<1> QED BY <1>1, <1>2, <1>3, <1>4 DEF CtlInv

\* Setting the control connection up.
LEMMA CtlConnects ==
  ASSUME CtlInv,
         \/ ServerListens \/ ServerAccepts \/ ClientResolves \/ ClientAsks \/ ClientUp
  PROVE  CtlInv'
<1> USE RdmaCmAssumption, Sides
<1>1. CASE ServerListens
  BY <1>1 DEF ServerListens, CtlInv, CtlTypes, Stage, Unconnected, Handshake, OneBuffer
<1>2. CASE ServerAccepts
  <2> USE <1>2 DEF ServerAccepts, Goes, CtlInv
  <2>1. CtlTypes'
    BY DEF CtlTypes, CmState
  <2>2. (\A s \in CmSide : Stage(s)') /\ Unconnected' /\ OneBuffer'
    BY DEF CtlTypes, Stage, Unconnected, OneBuffer
  <2>3. Handshake'
    BY DEF CtlTypes, Stage, Unconnected, Handshake, Ahead, Asking
  <2> QED BY <2>1, <2>2, <2>3
<1>3. CASE ClientResolves
  BY <1>3 DEF ClientResolves, CmFault, Resolving, Goes, CtlInv, CtlTypes, CmState, Stage, Unconnected,
              Handshake, OneBuffer
<1>4. CASE ClientAsks
  <2> USE <1>4 DEF ClientAsks, Goes, CtlInv
  <2>1. CtlTypes'
    BY DEF CtlTypes, CmState
  <2>2. (\A s \in CmSide : Stage(s)') /\ Unconnected' /\ OneBuffer' /\ Handshake'
    BY DEF CtlTypes, Stage, Unconnected, OneBuffer, Handshake
  <2> QED BY <2>1, <2>2
<1>5. CASE ClientUp
  BY <1>5 DEF ClientUp, Goes, cmCtl, CtlInv, CtlTypes, CmState, Stage, Unconnected, Handshake,
              OneBuffer, Ahead, Asking
<1> QED BY <1>1, <1>2, <1>3, <1>4, <1>5

\* Where a side is when it shakes hands.
LEMMA ShakingUp ==
  ASSUME CtlInv, NEW s \in CmSide, Shaking(s)
  PROVE  /\ ctl = "up" /\ hs[s].n < Shakes + 2
         /\ cmst[s] \in {"sync1", "sync2", "over"}
BY RdmaCmAssumption, Sides DEF CtlInv, CtlTypes, Shaking, Stage, Unconnected

LEMMA OnwardStage ==
  ASSUME CtlInv, NEW s \in CmSide, Shaking(s), Onward(s)
  PROVE  /\ hs' \in [CmSide -> [n : Nat, at : 0 .. 3]] /\ cmst' \in [CmSide -> CmState]
         /\ hs' = [hs EXCEPT ![s] = IF hs[s].at < 3 THEN [n |-> hs[s].n, at |-> hs[s].at + 1]
                                    ELSE [n |-> hs[s].n + 1, at |-> 0]]
         /\ \A t \in CmSide : Stage(t)'
<1> USE RdmaCmAssumption, Sides, ShakingUp
<1> DEFINE next == IF hs[s].at < 3 THEN [n |-> hs[s].n, at |-> hs[s].at + 1]
                   ELSE [n |-> hs[s].n + 1, at |-> 0]
<1>1. hs[s] \in [n : Nat, at : 0 .. 3] /\ hs[s] = [n |-> hs[s].n, at |-> hs[s].at]
  BY DEF CtlInv, CtlTypes
<1>2. next \in [n : Nat, at : 0 .. 3]
  BY <1>1
<1>3. hs' = [hs EXCEPT ![s] = next]
  <2>1. CASE hs[s].at < 3
    <3>1. [hs[s] EXCEPT !.at = hs[s].at + 1] = next
      BY <1>1, <2>1
    <3> QED BY <2>1, <3>1 DEF Onward
  <2>2. CASE ~(hs[s].at < 3)
    BY <2>2 DEF Onward
  <2> QED BY <2>1, <2>2
<1>4. hs' \in [CmSide -> [n : Nat, at : 0 .. 3]]
  BY <1>2, <1>3 DEF CtlInv, CtlTypes
<1>5. /\ cmst' \in [CmSide -> CmState]
      /\ \A t \in CmSide : t # s => cmst'[t] = cmst[t]
      /\ cmst'[s] = IF hs[s].at < 3 THEN cmst[s] ELSE After(s)
  <2>1. cmst \in [CmSide -> CmState] /\ After(s) \in CmState
    BY DEF After, CtlInv, CtlTypes, CmState
  <2>2. CASE hs[s].at < 3
    BY <2>1, <2>2 DEF Onward
  <2>3. CASE ~(hs[s].at < 3)
    <3>1. cmst' = [cmst EXCEPT ![s] = After(s)]
      BY <2>3 DEF Onward, Goes
    <3> QED BY <2>1, <2>3, <3>1
  <2> QED BY <2>2, <2>3
<1>6. \A t \in CmSide : hs'[t] = IF t = s THEN next ELSE hs[t]
  BY <1>3 DEF CtlInv, CtlTypes
<1>7. ASSUME NEW t \in CmSide PROVE Stage(t)'
  <2>1. CASE t # s
    BY <1>5, <1>6, <2>1 DEF CtlInv, Stage
  <2>2. CASE t = s
    BY <1>1, <1>5, <1>6, <2>2 DEF CtlInv, Stage, After
  <2> QED BY <2>1, <2>2
<1> QED BY <1>3, <1>4, <1>5, <1>7

\* Where the two sides are, as numbers, when one of them does a step.
LEMMA Doing ==
  ASSUME CtlInv, NEW s \in CmSide, NEW what \in {"put", "sent", "take", "post"}, Do(s, what)
  PROVE  /\ Shaking(s) /\ ctl = "up"
         /\ s = "client" => hs[s].at = CASE what = "put" -> 0 [] what = "sent" -> 1
                                         [] what = "take" -> 2 [] OTHER -> 3
         /\ s = "server" => hs[s].at = CASE what = "take" -> 0 [] what = "post" -> 1
                                         [] what = "put" -> 2 [] OTHER -> 3
<1>1. hs[s].at \in 0 .. 3
  BY DEF CtlInv, CtlTypes
<1>2. Shaking(s) /\ ctl = "up"
  BY ShakingUp DEF Do
<1>3. CASE s = "client"
  BY <1>1, <1>2, <1>3, Sides DEF Do, Order
<1>4. CASE s = "server"
  BY <1>1, <1>2, <1>4, Sides DEF Do, Order
<1> QED BY <1>2, <1>3, <1>4, Sides

\* The numbers of both sides, and after a step of the handshake.
LEMMA Where ==
  ASSUME CtlInv, ctl = "up"
  PROVE  /\ hs["client"].n \in Nat /\ hs["server"].n \in Nat /\ Ahead \in -1 .. 4
         /\ hs["client"].at \in 0 .. 3 /\ hs["server"].at \in 0 .. 3
         /\ posted["client"] \in 0 .. 1 /\ posted["server"] \in 0 .. 1
         /\ wire["client"] \in Int /\ wire["server"] \in Int
         /\ hs["server"].at = 0 => Ahead = 0 \/ Ahead = 4
         /\ hs["server"].at = 1 => Ahead = 1
         /\ hs["server"].at = 2 => Ahead = 2
         /\ hs["server"].at = 3 => Ahead = -1 \/ Ahead = 3
         /\ Ahead \in 0 .. 3 => hs["server"].n = hs["client"].n
<1>1. /\ hs["client"].n \in Nat /\ hs["server"].n \in Nat /\ Ahead \in -1 .. 4
      /\ hs["client"].at \in 0 .. 3 /\ hs["server"].at \in 0 .. 3
      /\ posted["client"] \in 0 .. 1 /\ posted["server"] \in 0 .. 1
      /\ wire["client"] \in Int /\ wire["server"] \in Int
  BY Sides DEF CtlInv, CtlTypes, Handshake
<1>2. Ahead = 4 * (hs["server"].n - hs["client"].n) + hs["server"].at
  BY DEF Ahead
<1> QED BY <1>1, <1>2

LEMMA ClientAdvances ==
  ASSUME CtlInv, Shaking("client"), Onward("client")
  PROVE  /\ hs'["server"] = hs["server"]
         /\ hs'["client"].n = hs["client"].n + (IF hs["client"].at = 3 THEN 1 ELSE 0)
         /\ hs'["client"].at = IF hs["client"].at = 3 THEN 0 ELSE hs["client"].at + 1
         /\ Ahead' = IF hs["client"].at = 3 THEN Ahead - 4 ELSE Ahead
<1>1. /\ hs["client"].n \in Nat /\ hs["server"].n \in Nat
      /\ hs["client"].at \in 0 .. 3 /\ hs["server"].at \in 0 .. 3
  BY Sides DEF CtlInv, CtlTypes
<1> DEFINE next == IF hs["client"].at < 3 THEN [n |-> hs["client"].n, at |-> hs["client"].at + 1]
                   ELSE [n |-> hs["client"].n + 1, at |-> 0]
<1>2. \A t \in CmSide : hs'[t] = IF t = "client" THEN next ELSE hs[t]
  BY OnwardStage, Sides DEF CtlInv, CtlTypes
<1> QED BY <1>1, <1>2, Sides DEF Ahead

LEMMA ServerAdvances ==
  ASSUME CtlInv, Shaking("server"), Onward("server")
  PROVE  /\ hs'["client"] = hs["client"]
         /\ hs'["server"].n = hs["server"].n + (IF hs["server"].at = 3 THEN 1 ELSE 0)
         /\ hs'["server"].at = IF hs["server"].at = 3 THEN 0 ELSE hs["server"].at + 1
         /\ Ahead' = Ahead + 1
<1>1. /\ hs["client"].n \in Nat /\ hs["server"].n \in Nat
      /\ hs["client"].at \in 0 .. 3 /\ hs["server"].at \in 0 .. 3
  BY Sides DEF CtlInv, CtlTypes
<1> DEFINE next == IF hs["server"].at < 3 THEN [n |-> hs["server"].n, at |-> hs["server"].at + 1]
                   ELSE [n |-> hs["server"].n + 1, at |-> 0]
<1>2. \A t \in CmSide : hs'[t] = IF t = "server" THEN next ELSE hs[t]
  BY OnwardStage, Sides DEF CtlInv, CtlTypes
<1> QED BY <1>1, <1>2, Sides DEF Ahead

LEMMA Unconnected1 == ASSUME ctl = "up", ctl' = ctl PROVE Unconnected'
BY DEF Unconnected

LEMMA PutKeysCtl == ASSUME CtlInv, NEW s \in CmSide, PutKeys(s) PROVE CtlInv'
<1> USE RdmaCmAssumption, Sides DEF PutKeys
<1>1. Do(s, "put") /\ Onward(s)
  OBVIOUS
<1>2. Shaking(s) /\ ctl = "up"
  BY <1>1, Doing
<1>3. /\ hs[s].n \in Nat /\ Msg(s, hs[s].n + 1) \in Int
      /\ cbuf \in [CmSide -> Int] /\ wire \in [CmSide -> Int] /\ posted \in [CmSide -> 0 .. 1]
  BY DEF CtlInv, CtlTypes, Msg
<1>4. CtlTypes'
  BY <1>1, <1>2, <1>3, OnwardStage DEF CtlInv, CtlTypes
<1>5. OneBuffer'
  BY DEF CtlInv, OneBuffer
<1>6. Handshake'
  <2>1. CASE s = "client"
    <3>1. hs["client"].at = 0
      BY <1>1, <2>1, Doing
    <3>2. /\ wire'["client"] = hs["client"].n + 1 /\ wire'["server"] = wire["server"]
          /\ UNCHANGED <<posted, cmGot, cbuf["server"], hs["server"]>>
          /\ hs'["client"].n = hs["client"].n /\ hs'["client"].at = 1 /\ Ahead' = Ahead
      BY <1>1, <1>2, <1>3, <2>1, <3>1, ClientAdvances DEF Msg
    <3> QED BY <1>2, <3>1, <3>2, Where DEF CtlInv, Handshake, Asking
  <2>2. CASE s = "server"
    <3>1. hs["server"].at = 2
      BY <1>1, <2>2, Doing
    <3>2. Ahead = 2 /\ hs["server"].n = hs["client"].n
      BY <1>2, <3>1, Where
    <3>3. /\ wire'["server"] = -(hs["client"].n + 1) /\ wire'["client"] = wire["client"]
          /\ UNCHANGED <<posted, cmGot, cbuf["client"], hs["client"]>>
          /\ hs'["server"].n = hs["server"].n /\ hs'["server"].at = 3 /\ Ahead' = 3
      BY <1>1, <1>2, <1>3, <2>2, <3>1, <3>2, ServerAdvances DEF Msg
    <3> QED BY <1>2, <3>1, <3>2, <3>3, Where DEF CtlInv, Handshake, Asking
  <2> QED BY <2>1, <2>2
<1> QED BY <1>1, <1>2, <1>4, <1>5, <1>6, OnwardStage, Unconnected1 DEF CtlInv

LEMMA KeysSentCtl == ASSUME CtlInv, NEW s \in CmSide, KeysSent(s) PROVE CtlInv'
<1> USE RdmaCmAssumption, Sides DEF KeysSent
<1>1. Do(s, "sent") /\ Shaking(s) /\ ctl = "up"
  BY Doing
<1>2. CASE wire[s] = 0
  <2>1. Onward(s) /\ UNCHANGED <<ud, cmCtl, cfaults>>
    BY <1>2
  <2>2. CtlTypes'
    BY <1>1, <2>1, OnwardStage DEF CtlInv, CtlTypes, cmCtl
  <2>3. OneBuffer'
    BY <2>1 DEF CtlInv, OneBuffer, cmCtl
  <2>4. Handshake'
    <3>1. CASE s = "client"
      <4>1. hs["client"].at = 1
        BY <1>1, <3>1, Doing
      <4>2. /\ UNCHANGED cmCtl /\ hs'["server"] = hs["server"]
            /\ hs'["client"].n = hs["client"].n /\ hs'["client"].at = 2 /\ Ahead' = Ahead
        BY <1>1, <2>1, <3>1, <4>1, ClientAdvances, Where
      <4> QED BY <1>1, <1>2, <3>1, <4>1, <4>2, Where DEF CtlInv, Handshake, Asking, cmCtl
    <3>2. CASE s = "server"
      <4>1. hs["server"].at = 3
        BY <1>1, <3>2, Doing
      <4>2. Ahead = -1 \/ Ahead = 3
        BY <1>1, <4>1, Where
      <4>3. /\ UNCHANGED cmCtl /\ hs'["client"] = hs["client"]
            /\ hs'["server"].n = hs["server"].n + 1 /\ hs'["server"].at = 0 /\ Ahead' = Ahead + 1
        BY <1>1, <2>1, <3>2, <4>1, ServerAdvances
      <4> QED BY <1>1, <1>2, <3>2, <4>1, <4>2, <4>3, Where DEF CtlInv, Handshake, Asking, cmCtl
    <3> QED BY <3>1, <3>2
  <2> QED BY <1>1, <2>1, <2>2, <2>3, <2>4, OnwardStage, Unconnected1 DEF CtlInv, cmCtl
<1>3. CASE ~(wire[s] = 0)
  <2>1. cmst' = [cmst EXCEPT ![s] = "failed"] /\ UNCHANGED <<ud, hs, cmCtl, cfaults>>
    BY <1>3 DEF Goes
  <2>2. CtlTypes'
    BY <2>1 DEF CtlInv, CtlTypes, CmState, cmCtl
  <2>3. (\A t \in CmSide : Stage(t)') /\ OneBuffer' /\ Handshake'
    BY <2>1 DEF CtlInv, CtlTypes, Stage, OneBuffer, Handshake, Ahead, Asking, cmCtl
  <2> QED BY <1>1, <2>1, <2>2, <2>3, Unconnected1 DEF CtlInv, cmCtl
<1> QED BY <1>2, <1>3

LEMMA TakeKeysCtl == ASSUME CtlInv, NEW s \in CmSide, TakeKeys(s) PROVE CtlInv'
<1> USE RdmaCmAssumption, Sides DEF TakeKeys
<1>1. Do(s, "take") /\ Shaking(s) /\ ctl = "up" /\ Onward(s)
  BY Doing
<1>2. /\ cmGot \in [CmSide -> Seq(Int)] /\ cbuf[s] \in Int
      /\ cmGot' = [cmGot EXCEPT ![s] = Append(cmGot[s], cbuf[s])]
  BY DEF CtlInv, CtlTypes
<1>3. /\ cmGot' \in [CmSide -> Seq(Int)] /\ Len(cmGot'[s]) = Len(cmGot[s]) + 1
      /\ \A t \in CmSide : t # s => cmGot'[t] = cmGot[t]
  BY <1>2
<1>4. CtlTypes'
  BY <1>1, <1>3, OnwardStage DEF CtlInv, CtlTypes
<1>5. /\ Handshake' /\ cbuf[s] = Msg(CmPeer(s), Len(cmGot[s]) + 1)
  <2>1. CASE s = "client"
    <3>1. hs["client"].at = 2
      BY <1>1, <2>1, Doing
    <3>2. /\ UNCHANGED <<wire, posted, cbuf>> /\ hs'["server"] = hs["server"]
          /\ cmGot'["server"] = cmGot["server"]
          /\ Len(cmGot'["client"]) = Len(cmGot["client"]) + 1
          /\ hs'["client"].n = hs["client"].n /\ hs'["client"].at = 3 /\ Ahead' = Ahead
      BY <1>1, <1>3, <2>1, <3>1, ClientAdvances, Where
    <3>3. posted["client"] = 0 /\ Len(cmGot["client"]) \in Nat
      BY <1>2, <2>1 DEF CtlInv, CtlTypes
    <3>4. wire["server"] = 0 /\ Ahead >= 3 /\ Len(cmGot["client"]) = hs["client"].n
      BY <1>1, <3>1, <3>3, Where DEF CtlInv, Handshake, Asking
    <3>5. cbuf["client"] = -(hs["client"].n + 1)
      BY <1>1, <3>1, <3>4 DEF CtlInv, Handshake, Asking
    <3>6. Handshake'
      BY <1>1, <3>1, <3>2, <3>3, <3>4, Where DEF CtlInv, Handshake, Asking
    <3> QED BY <2>1, <3>4, <3>5, <3>6 DEF Msg
  <2>2. CASE s = "server"
    <3>1. hs["server"].at = 0 /\ posted["server"] = 0
      BY <1>1, <2>2, Doing
    <3>2. Ahead = 0 /\ hs["server"].n = hs["client"].n
      BY <1>1, <3>1, Where DEF CtlInv, Handshake, Asking
    <3>3. /\ UNCHANGED <<wire, posted, cbuf>> /\ hs'["client"] = hs["client"]
          /\ cmGot'["client"] = cmGot["client"]
          /\ Len(cmGot'["server"]) = Len(cmGot["server"]) + 1
          /\ hs'["server"].n = hs["server"].n /\ hs'["server"].at = 1 /\ Ahead' = 1
      BY <1>1, <1>3, <2>2, <3>1, <3>2, ServerAdvances, Where
    <3> QED BY <1>1, <2>2, <3>1, <3>2, <3>3, Where DEF CtlInv, Handshake, Asking, Msg
  <2> QED BY <2>1, <2>2
<1>6. OneBuffer'
  <2> SUFFICES ASSUME NEW t \in CmSide, NEW n \in DOMAIN cmGot'[t]
               PROVE  cmGot'[t][n] = Msg(CmPeer(t), n)
    BY DEF OneBuffer
  <2>1. CASE t # s
    BY <1>3, <2>1 DEF CtlInv, OneBuffer
  <2>2. CASE t = s /\ n \in DOMAIN cmGot[s]
    <3>1. cmGot'[t][n] = cmGot[s][n]
      BY <1>2, <2>2
    <3> QED BY <2>2, <3>1 DEF CtlInv, OneBuffer
  <2>3. CASE t = s /\ n \notin DOMAIN cmGot[s]
    <3>1. n = Len(cmGot[s]) + 1 /\ cmGot'[t][n] = cbuf[s]
      BY <1>2, <1>3, <2>3
    <3> QED BY <1>5, <2>3, <3>1
  <2> QED BY <2>1, <2>2, <2>3
<1> QED BY <1>1, <1>4, <1>5, <1>6, OnwardStage, Unconnected1 DEF CtlInv

LEMMA PostRecvCtl == ASSUME CtlInv, NEW s \in CmSide, PostRecv(s) PROVE CtlInv'
<1> USE RdmaCmAssumption, Sides DEF PostRecv
<1>1. Do(s, "post") /\ Shaking(s) /\ ctl = "up" /\ Onward(s)
  BY Doing
<1>2. posted \in [CmSide -> 0 .. 1] /\ posted' = [posted EXCEPT ![s] = posted[s] + 1]
  BY DEF CtlInv, CtlTypes
<1>3. posted[s] = 0 /\ Handshake'
  <2>1. CASE s = "client"
    <3>1. hs["client"].at = 3 /\ posted["client"] = 0
      BY <1>1, <2>1, Doing DEF CtlInv, Handshake
    <3>2. /\ UNCHANGED <<wire, cmGot, cbuf, hs["server"], posted["server"]>> /\ posted'["client"] = 1
          /\ hs'["client"].n = hs["client"].n + 1 /\ hs'["client"].at = 0 /\ Ahead' = Ahead - 4
      BY <1>1, <1>2, <2>1, <3>1, ClientAdvances, Where
    <3> QED BY <1>1, <2>1, <3>1, <3>2, Where DEF CtlInv, Handshake, Asking
  <2>2. CASE s = "server"
    <3>1. hs["server"].at = 1
      BY <1>1, <2>2, Doing
    <3>2. Ahead = 1
      BY <1>1, <3>1, Where
    <3>3. posted["server"] = 0
      BY <1>1, <3>2 DEF CtlInv, Handshake
    <3>4. /\ UNCHANGED <<wire, cmGot, cbuf>> /\ hs'["client"] = hs["client"]
          /\ posted'["client"] = posted["client"] /\ posted'["server"] = 1
          /\ hs'["server"].n = hs["server"].n /\ hs'["server"].at = 2 /\ Ahead' = 2
      BY <1>1, <1>2, <2>2, <3>1, <3>2, <3>3, ServerAdvances, Where
    <3> QED BY <1>1, <2>2, <3>1, <3>2, <3>3, <3>4, Where DEF CtlInv, Handshake, Asking
  <2> QED BY <2>1, <2>2
<1>4. posted' \in [CmSide -> 0 .. 1]
  BY <1>2, <1>3
<1>5. CtlTypes'
  BY <1>1, <1>4, OnwardStage DEF CtlInv, CtlTypes
<1>6. OneBuffer'
  BY DEF CtlInv, OneBuffer
<1> QED BY <1>1, <1>3, <1>5, <1>6, OnwardStage, Unconnected1 DEF CtlInv

LEMMA ArriveCtl == ASSUME CtlInv, NEW s \in CmSide, Arrive(s) PROVE CtlInv'
<1> USE RdmaCmAssumption, Sides
<1> DEFINE p == CmPeer(s)
<1>1. /\ wire[s] # 0 /\ posted[p] > 0
      /\ cbuf' = [cbuf EXCEPT ![p] = wire[s]]
      /\ posted' = [posted EXCEPT ![p] = posted[p] - 1]
      /\ wire' = [wire EXCEPT ![s] = 0]
      /\ UNCHANGED <<ud, cmst, hs, retries, ctl, cmGot, cfaults>>
  BY DEF Arrive
<1>2. CtlTypes /\ ctl = "up"
  BY <1>1 DEF CtlInv, Unconnected
<1>3. /\ posted[p] = 1 /\ posted'[p] = 0 /\ wire'[s] = 0 /\ cbuf'[p] = wire[s]
      /\ posted'[s] = posted[s] /\ wire'[p] = wire[p] /\ cbuf'[s] = cbuf[s]
  BY <1>1, <1>2 DEF CtlTypes, CmSide, CmPeer
<1>4. CtlTypes'
  BY <1>1, <1>2, <1>3 DEF CtlTypes
<1>5. (\A t \in CmSide : Stage(t)') /\ OneBuffer' /\ Unconnected'
  BY <1>1, <1>2 DEF CtlInv, Stage, OneBuffer, Unconnected
<1>6. Ahead' = Ahead /\ Asking' = Asking /\ Ahead \in Int
  BY <1>1, <1>2 DEF Ahead, Asking, CtlTypes
<1>7. Handshake'
  <2>0. /\ hs["client"].n \in Nat /\ hs["server"].n \in Nat
        /\ hs["client"].at \in 0 .. 3 /\ hs["server"].at \in 0 .. 3
        /\ posted["client"] \in 0 .. 1 /\ posted["server"] \in 0 .. 1
    BY <1>2 DEF CtlTypes
  <2>1. CASE s = "client"
    BY <1>1, <1>2, <1>3, <1>6, <2>0, <2>1 DEF CtlInv, Handshake, Asking
  <2>2. CASE s = "server"
    BY <1>1, <1>2, <1>3, <1>6, <2>0, <2>2 DEF CtlInv, Handshake, Asking
  <2> QED BY <2>1, <2>2
<1> QED BY <1>4, <1>5, <1>7 DEF CtlInv

\* A receive is posted whenever a message is on its way.
LEMMA PostedInTime == CtlInv => ReceivePosted
<1> SUFFICES ASSUME CtlInv, NEW s \in CmSide, wire[s] # 0 PROVE posted[CmPeer(s)] = 1
  BY DEF ReceivePosted
<1>1. ctl = "up"
  BY DEF CtlInv, Unconnected
<1>2. CASE s = "client"
  BY <1>1, <1>2, Sides DEF CtlInv, Handshake
<1>3. CASE s = "server"
  BY <1>1, <1>3, Sides DEF CtlInv, Handshake
<1> QED BY <1>2, <1>3, Sides

-----------------------------------------------------------------------------
(* Counting connections, and queues of events.                             *)

LEMMA NodeSets ==
  /\ IsFiniteSet(Node) /\ Cardinality(Node) = CmQps /\ NoNode \notin Node
  /\ \A S \in SUBSET Node : /\ IsFiniteSet(S) /\ Cardinality(S) \in Nat
                            /\ Cardinality(S) <= CmQps /\ (Cardinality(S) = CmQps => S = Node)
<1>1. IsFiniteSet(Node) /\ Cardinality(Node) = CmQps
  BY FS_Interval, RdmaCmAssumption DEF Node
<1>2. ASSUME NEW S \in SUBSET Node
      PROVE  /\ IsFiniteSet(S) /\ Cardinality(S) \in Nat
             /\ Cardinality(S) <= CmQps /\ (Cardinality(S) = CmQps => S = Node)
  BY <1>1, FS_Subset, FS_CardinalityType
<1> QED BY <1>1, <1>2, RdmaCmAssumption DEF Node, NoNode

LEMMA OneMore ==
  ASSUME NEW S \in SUBSET Node, NEW i \in Node, i \notin S
  PROVE  Cardinality(S \cup {i}) = Cardinality(S) + 1 /\ Cardinality(S) < CmQps
<1>1. Cardinality(S \cup {i}) = Cardinality(S) + 1
  BY NodeSets, FS_AddElement
<1>2. S \cup {i} \in SUBSET Node
  OBVIOUS
<1> QED BY <1>1, <1>2, NodeSets, RdmaCmAssumption

LEMMA Fewer ==
  ASSUME NEW T \in SUBSET Node, NEW S \in SUBSET T
  PROVE  /\ Cardinality(S) <= Cardinality(T) /\ Cardinality(S) \in Nat /\ Cardinality(T) \in Nat
         /\ \A i \in T : i \notin S => Cardinality(S) < Cardinality(T)
<1>1. Cardinality(S) <= Cardinality(T) /\ Cardinality(S) \in Nat /\ Cardinality(T) \in Nat
      /\ (Cardinality(S) = Cardinality(T) => S = T)
  BY NodeSets, FS_Subset
<1> QED BY <1>1

LEMMA Queued ==
  ASSUME DataTypes, NEW s \in CmSide, NEW e \in CmEvent,
         chan' = [chan EXCEPT ![s] = Append(chan[s], e)]
  PROVE  /\ chan' \in [CmSide -> Seq(CmEvent)]
         /\ \A t \in CmSide : t # s => chan'[t] = chan[t]
         /\ \A k \in DOMAIN chan[s] : k \in DOMAIN chan'[s] /\ chan'[s][k] = chan[s][k]
                                      /\ k < Len(chan[s]) + 1
         /\ Len(chan[s]) + 1 \in DOMAIN chan'[s] /\ chan'[s][Len(chan[s]) + 1] = e
         /\ \A k \in DOMAIN chan'[s] : k \in DOMAIN chan[s] \/ k = Len(chan[s]) + 1
<1>1. chan \in [CmSide -> Seq(CmEvent)] /\ chan[s] \in Seq(CmEvent)
  BY DEF DataTypes
<1>2. chan'[s] = Append(chan[s], e) /\ \A t \in CmSide : t # s => chan'[t] = chan[t]
  BY <1>1
<1>3. Append(chan[s], e) \in Seq(CmEvent)
  BY <1>1
<1>4. chan' \in [CmSide -> Seq(CmEvent)]
  BY <1>1, <1>3
<1> QED BY <1>1, <1>2, <1>4

LEMMA Handled ==
  ASSUME DataTypes, NEW s \in CmSide, chan[s] # <<>>, chan' = [chan EXCEPT ![s] = Tail(chan[s])]
  PROVE  /\ chan' \in [CmSide -> Seq(CmEvent)]
         /\ \A t \in CmSide : t # s => chan'[t] = chan[t]
         /\ 1 \in DOMAIN chan[s] /\ chan[s][1] = Head(chan[s])
         /\ \A k \in DOMAIN chan[s] : k # 1 => k - 1 \in DOMAIN chan'[s] /\ chan'[s][k - 1] = chan[s][k]
         /\ \A k \in DOMAIN chan'[s] : k \in Nat /\ k + 1 \in DOMAIN chan[s] /\ k + 1 # 1
                                       /\ chan'[s][k] = chan[s][k + 1]
<1>1. chan \in [CmSide -> Seq(CmEvent)] /\ chan[s] \in Seq(CmEvent) /\ chan[s] # <<>>
  BY DEF DataTypes
<1>2. chan'[s] = Tail(chan[s]) /\ \A t \in CmSide : t # s => chan'[t] = chan[t]
  BY <1>1
<1>3. /\ Tail(chan[s]) \in Seq(CmEvent) /\ Len(Tail(chan[s])) = Len(chan[s]) - 1 /\ Len(chan[s]) \in Nat \ {0}
      /\ \A k \in 1 .. Len(Tail(chan[s])) : Tail(chan[s])[k] = chan[s][k + 1]
  BY <1>1
<1>4. chan' \in [CmSide -> Seq(CmEvent)]
  BY <1>1, <1>3
<1>5. DOMAIN chan[s] = 1 .. Len(chan[s]) /\ DOMAIN chan'[s] = 1 .. Len(chan[s]) - 1
  BY <1>1, <1>2, <1>3
<1>6. chan[s][1] = Head(chan[s])
  BY <1>1
<1> QED BY <1>2, <1>3, <1>4, <1>5, <1>6

\* What waits after an event has come, and after one has been handled.
LEMMA PendsQueued ==
  ASSUME DataTypes, NEW s \in CmSide, NEW e \in CmEvent,
         chan' = [chan EXCEPT ![s] = Append(chan[s], e)],
         NEW t \in CmSide, NEW kind, NEW i
  PROVE  Pends(t, kind, i)' <=> Pends(t, kind, i) \/ (t = s /\ e = [kind |-> kind, id |-> i])
<1> DEFINE n == Len(chan[s]) + 1
<1>q. /\ \A k \in DOMAIN chan[s] : k \in DOMAIN chan'[s] /\ chan'[s][k] = chan[s][k]
      /\ n \in DOMAIN chan'[s] /\ chan'[s][n] = e
      /\ \A k \in DOMAIN chan'[s] : k \in DOMAIN chan[s] \/ k = n
  BY Queued
<1> HIDE DEF n
<1>1. CASE t = s
  BY <1>1, <1>q DEF Pends
<1>2. CASE t # s
  BY <1>2, Queued DEF Pends
<1> QED BY <1>1, <1>2

LEMMA PendsHandled ==
  ASSUME DataTypes, Events, NEW s \in CmSide, chan[s] # <<>>, chan' = [chan EXCEPT ![s] = Tail(chan[s])],
         NEW t \in CmSide, NEW kind, NEW i
  PROVE  Pends(t, kind, i)' <=> Pends(t, kind, i) /\ ~(t = s /\ Head(chan[s]) = [kind |-> kind, id |-> i])
<1> DEFINE e == [kind |-> kind, id |-> i]
<1>1. CASE t = s
  <2>1. ASSUME Pends(t, kind, i)' PROVE Pends(t, kind, i) /\ Head(chan[s]) # e
    <3>1. PICK k \in DOMAIN chan'[s] : chan'[s][k] = e
      BY <1>1, <2>1 DEF Pends
    <3>2. /\ k + 1 \in DOMAIN chan[s] /\ k + 1 # 1 /\ chan[s][k + 1] = e
          /\ 1 \in DOMAIN chan[s] /\ chan[s][1] = Head(chan[s])
      BY <3>1, Handled
    <3>3. chan[s][1] # e
      BY <3>2 DEF Events
    <3> QED BY <1>1, <3>2, <3>3 DEF Pends
  <2>2. ASSUME Pends(t, kind, i), Head(chan[s]) # e PROVE Pends(t, kind, i)'
    <3>1. PICK k \in DOMAIN chan[s] : chan[s][k] = e
      BY <1>1, <2>2 DEF Pends
    <3>2. k # 1
      BY <2>2, <3>1, Handled
    <3>3. k - 1 \in DOMAIN chan'[s] /\ chan'[s][k - 1] = e
      BY <3>1, <3>2, Handled
    <3> QED BY <1>1, <3>3 DEF Pends
  <2> QED BY <1>1, <2>1, <2>2
<1>2. CASE t # s
  BY <1>2, Handled DEF Pends
<1> QED BY <1>1, <1>2

LEMMA EventsHandled ==
  ASSUME DataTypes, Events, NEW s \in CmSide, chan[s] # <<>>, chan' = [chan EXCEPT ![s] = Tail(chan[s])],
         CmGone("server") => CmGone("server")',
         \A k \in DOMAIN chan'["client"] : ids'[chan'["client"][k].id] = ids[chan'["client"][k].id],
         ~CmGone("server")' =>
           \A k \in DOMAIN chan'["server"] : ids'[chan'["server"][k].id] = ids[chan'["server"][k].id],
         \A i \in Node : ids'[i] = "closed" => ids[i] = "closed"
  PROVE  Events'
<1>h. /\ \A t \in CmSide : t # s => chan'[t] = chan[t]
      /\ \A k \in DOMAIN chan[s] : k # 1 => k - 1 \in DOMAIN chan'[s] /\ chan'[s][k - 1] = chan[s][k]
      /\ \A k \in DOMAIN chan'[s] : k \in Nat /\ k + 1 \in DOMAIN chan[s] /\ k + 1 # 1
                                    /\ chan'[s][k] = chan[s][k + 1]
  BY Handled, Zenon
<1> USE Sides
<1>0. \A t \in CmSide : \A k \in DOMAIN chan'[t] : \E j \in DOMAIN chan[t] : chan'[t][k] = chan[t][j]
  <2>1. \A k \in DOMAIN chan'[s] : k + 1 \in DOMAIN chan[s] /\ chan'[s][k] = chan[s][k + 1]
    BY <1>h
  <2>2. \A t \in CmSide : t # s => chan'[t] = chan[t]
    BY <1>h
  <2> QED BY <2>1, <2>2
<1>1. \A t \in CmSide : \A j, k \in DOMAIN chan'[t] : chan'[t][j] = chan'[t][k] => j = k
  <2> SUFFICES ASSUME NEW t \in CmSide, NEW j \in DOMAIN chan'[t], NEW k \in DOMAIN chan'[t],
                      chan'[t][j] = chan'[t][k]
               PROVE  j = k
    OBVIOUS
  <2>1. CASE t = s
    <3>1. /\ j \in Nat /\ k \in Nat /\ j + 1 \in DOMAIN chan[s] /\ k + 1 \in DOMAIN chan[s]
          /\ chan[s][j + 1] = chan[s][k + 1]
      BY <2>1, <1>h
    <3>2. j + 1 = k + 1
      BY <3>1 DEF Events
    <3> QED BY <3>1, <3>2
  <2>2. CASE t # s
    BY <2>2, <1>h DEF Events
  <2> QED BY <2>1, <2>2
<1>2. \A k \in DOMAIN chan'["client"] : ids'[chan'["client"][k].id] \in Seen(chan'["client"][k].kind)
  BY <1>0 DEF Events
<1>3. \A k \in DOMAIN chan'["server"] :
        /\ chan'["server"][k].kind = "CONNECT_REQUEST"
        /\ ~CmGone("server")' => ids'[chan'["server"][k].id] = "requested"
  BY <1>0 DEF Events
<1>4. ASSUME NEW i \in Node, NEW j \in DOMAIN chan'["client"],
             chan'["client"][j] = [kind |-> "ESTABLISHED", id |-> i], ids'[i] = "closed"
      PROVE  \E k \in DOMAIN chan'["client"] : k > j /\ chan'["client"][k] = [kind |-> "DISCONNECTED", id |-> i]
  <2>1. CASE s = "client"
    <3>1. /\ j \in Nat /\ j + 1 \in DOMAIN chan["client"]
          /\ chan["client"][j + 1] = [kind |-> "ESTABLISHED", id |-> i]
      BY <1>4, <2>1, <1>h
    <3>2. ids[i] = "closed"
      BY <1>4
    <3>3. PICK k \in DOMAIN chan["client"] :
             k > j + 1 /\ chan["client"][k] = [kind |-> "DISCONNECTED", id |-> i]
      BY <3>1, <3>2 DEF Events
    <3>4. k \in Nat
      BY <3>3 DEF DataTypes
    <3>5. k # 1 /\ k - 1 > j
      BY <3>1, <3>3, <3>4
    <3>6. k - 1 \in DOMAIN chan'["client"] /\ chan'["client"][k - 1] = [kind |-> "DISCONNECTED", id |-> i]
      BY <2>1, <3>3, <3>5, <1>h
    <3> QED BY <3>5, <3>6
  <2>2. CASE s # "client"
    <3>1. chan'["client"] = chan["client"]
      BY <2>2, <1>h
    <3>2. ids[i] = "closed" /\ j \in DOMAIN chan["client"]
          /\ chan["client"][j] = [kind |-> "ESTABLISHED", id |-> i]
      BY <1>4, <3>1
    <3>3. PICK k \in DOMAIN chan["client"] :
             k > j /\ chan["client"][k] = [kind |-> "DISCONNECTED", id |-> i]
      BY <3>2 DEF Events
    <3> QED BY <3>1, <3>3
  <2> QED BY <2>1, <2>2
<1> QED BY <1>1, <1>2, <1>3, <1>4 DEF Events

LEMMA EventTypes ==
  ASSUME DataTypes
  PROVE  \A t \in CmSide : \A k \in DOMAIN chan[t] :
           /\ chan[t][k] \in CmEvent /\ chan[t][k].id \in Node /\ chan[t][k].kind \in EventKind
           /\ chan[t][k] = [kind |-> chan[t][k].kind, id |-> chan[t][k].id]
<1>1. \A t \in CmSide : chan[t] \in Seq(CmEvent)
  BY DEF DataTypes
<1>2. \A t \in CmSide : \A k \in DOMAIN chan[t] : chan[t][k] \in CmEvent
  BY <1>1
<1> QED BY <1>2 DEF CmEvent

\* A side in the loop still has a connection to come.
LEMMA Waiting ==
  ASSUME CtlTypes, DataTypes, NEW s \in CmSide, InLoop(s)
  PROVE  /\ left[s] \in 1 .. CmQps /\ cmst[s] = "cm" /\ CmQps \in Nat /\ ~CmGone(s)
         /\ cfaults \in Nat /\ MaxCmFaults \in Nat
<1>1. left[s] \in 0 .. CmQps /\ left[s] # 0 /\ cmst[s] = "cm"
  BY DEF DataTypes, InLoop
<1> QED BY <1>1, RdmaCmAssumption DEF CtlTypes, CmGone

-----------------------------------------------------------------------------
(* The parts of the invariant that a step leaves alone.                    *)

LEMMA CountersKept ==
  ASSUME Counters, Made' = Made, Ended' = Ended, left'["client"] = left["client"], dleft' = dleft,
         CmGone("client") => CmGone("client")'
  PROVE  Counters'
BY DEF Counters

LEMMA NumbersKept ==
  ASSUME DataTypes, NumbersTold, NumbersSent, UdOnly, Made \subseteq Made',
         qps'["server"] = qps["server"], UNCHANGED <<ud, rem, imm, dleft>>,
         CmGone("server") => CmGone("server")',
         ud => \A i \in Node : ids'[i] \in {"closing", "closed"} =>
                 ids[i] \in {"closing", "closed"} \/ CmGone("server")'
  PROVE  NumbersTold' /\ NumbersSent' /\ UdOnly'
<1>1. NumbersTold'
  BY DEF NumbersTold
<1>2. NumbersSent'
  BY DEF NumbersSent
<1>3. UdOnly'
  BY DEF UdOnly
<1> QED BY <1>1, <1>2, <1>3

LEMMA DefinedKept ==
  ASSUME DefinedUnless, cfaults \in Nat, cfaults' \in Nat, cfaults' >= cfaults, ud' = ud, ooo => ooo',
         \A i \in Node : ids[i] = "error" => ids'[i] = "error",
         cmst'["client"] = "crashed" => \/ cmst["client"] = "crashed" \/ cfaults' > 0
                                        \/ \E i \in Node : ids'[i] = "error"
                                        \/ ud /\ ooo'
  PROVE  DefinedUnless'
BY DEF DefinedUnless

LEMMA FilledKept ==
  ASSUME QpsFilled, qps' = qps, \A s \in CmSide : Used(s)' = Used(s)
  PROVE  QpsFilled'
BY DEF QpsFilled, Taken

LEMMA DataInit == RdmaCmInit => DataInv
<1> SUFFICES ASSUME RdmaCmInit PROVE DataInv
  OBVIOUS
<1> USE RdmaCmAssumption, Sides, NodeSets
<1>0. /\ CmQps \in Nat \ {0} /\ \A j \in Node : j \in Nat
      /\ NoQps \in [Node -> Place] /\ \A j \in Node : NoQps[j] = NoNode
  BY DEF NoQps, Place, Node
<1>1. DataTypes
  <2>1. /\ ids \in [Node -> IdState] /\ chan \in [CmSide -> Seq(CmEvent)] /\ listening \in BOOLEAN
        /\ cidx \in [CmSide -> 0 .. CmQps] /\ left \in [CmSide -> 0 .. CmQps] /\ dleft \in 0 .. CmQps
    <3>1. 0 \in 0 .. CmQps /\ CmQps \in 0 .. CmQps /\ "idle" \in IdState
      BY <1>0 DEF IdState
    <3>2. chan \in [CmSide -> Seq(CmEvent)]
      BY DEF RdmaCmInit
    <3>3. cidx \in [CmSide -> 0 .. CmQps] /\ left \in [CmSide -> 0 .. CmQps]
      BY <3>1 DEF RdmaCmInit
    <3>4. ids \in [Node -> IdState] /\ dleft \in 0 .. CmQps
      BY <3>1 DEF RdmaCmInit
    <3> QED BY <3>2, <3>3, <3>4 DEF RdmaCmInit
  <2>2. /\ qps \in [CmSide -> [Node -> Place]] /\ rem \in [CmSide -> [Node -> Place]]
        /\ conn \in [CmSide -> [Node -> BOOLEAN]] /\ imm \in [Node -> Place] /\ ooo \in BOOLEAN
    BY <1>0 DEF RdmaCmInit, Place
  <2> QED BY <2>1, <2>2 DEF DataTypes
<1>2. Events
  BY DEF RdmaCmInit, Events
<1>3. Made = {} /\ Ended = {}
  BY DEF RdmaCmInit, Made, Ended
<1>4. Counters
  BY <1>3, FS_EmptySet DEF RdmaCmInit, Counters
<1>5. \A s \in CmSide : Taken(s) = {} /\ Used(s) = 0
  BY DEF RdmaCmInit, Taken, NoQps, Used
<1>6. QpsFilled
  <2>1. \A s \in CmSide, j \in Node : qps[s][j] = NoNode /\ ~(j < 0)
    BY <1>0 DEF RdmaCmInit
  <2> QED BY <1>5, <2>1, FS_EmptySet DEF QpsFilled
<1>7. QpsOwned
  BY <1>5 DEF RdmaCmInit, QpsOwned
<1>8. QpsLeft /\ RoutesInOrder
  BY DEF RdmaCmInit, QpsLeft, RoutesInOrder, NoQps
<1>9. NumbersTold /\ NumbersSent /\ UdOnly /\ DefinedUnless
  BY DEF RdmaCmInit, NumbersTold, NumbersSent, UdOnly, DefinedUnless, NoQps
<1> QED BY <1>1, <1>2, <1>4, <1>6, <1>7, <1>8, <1>9 DEF DataInv

\* The steps of the control connection.
LEMMA DataKept ==
  ASSUME CtlTypes, DataInv, UNCHANGED <<ud, cmData>>, cfaults' \in Nat, cfaults' >= cfaults,
         cmst' \in [CmSide -> CmState],
         \A s \in CmSide :
           \/ cmst'[s] = cmst[s]
           \/ cmst[s] \in {"ctl", "sync1"} /\ cmst'[s] \in {"sync1", "cm"}
           \/ cmst[s] = "sync2" /\ cmst'[s] = "over"
           \/ cmst[s] \in {"ctl", "sync1", "sync2", "over"} /\ cmst'[s] = "failed"
  PROVE  DataInv'
<1> USE Sides DEF cmData
<1>0. /\ \A s \in CmSide : CmGone(s) => CmGone(s)'
      /\ \A s \in CmSide : Used(s)' = Used(s)
  BY DEF CmGone, Used
<1>1. DataTypes'
  BY DEF DataInv, DataTypes
<1>2. Events'
  BY <1>0 DEF DataInv, Events
<1>3. Made' = Made /\ Ended' = Ended
  BY DEF Made, Ended, Pends
<1>4. Counters'
  BY <1>0, <1>3, CountersKept DEF DataInv
<1>5. QpsFilled'
  BY <1>0, FilledKept DEF DataInv
<1>6. QpsOwned'
  <2>1. \A s \in CmSide : Taken(s)' = Taken(s)
    BY DEF Taken
  <2> QED BY <1>0, <2>1 DEF DataInv, QpsOwned
<1>7. QpsLeft' /\ RoutesInOrder'
  BY <1>0 DEF DataInv, QpsLeft, RoutesInOrder
<1>8. NumbersTold' /\ NumbersSent' /\ UdOnly'
  BY <1>0, <1>3, NumbersKept DEF DataInv
<1>9. DefinedUnless'
  BY DefinedKept DEF DataInv, CtlTypes
<1> QED BY <1>1, <1>2, <1>4, <1>5, <1>6, <1>7, <1>8, <1>9 DEF DataInv

-----------------------------------------------------------------------------
(* What the connection manager does.                                       *)

\* It moves connection i on to a state and tells a side of it.
Comes(i, s, kind, to) ==
  \/ ids[i] = "addr" /\ to = "addrOk" /\ s = "client" /\ kind = "ADDR_RESOLVED"
  \/ ids[i] = "route" /\ to = "routeOk" /\ s = "client" /\ kind = "ROUTE_RESOLVED"
  \/ ids[i] \in {"addr", "route"} /\ to = "error" /\ s = "client" /\ kind = "ERROR"
  \/ ids[i] = "asked" /\ to = "requested" /\ s = "server" /\ kind = "CONNECT_REQUEST" /\ ~CmGone("server")
  \/ ids[i] = "asked" /\ to = "error" /\ s = "client" /\ kind = "REJECTED"
  \/ ids[i] = "accepted" /\ to = "up" /\ s = "client" /\ kind = "ESTABLISHED"
  \/ /\ ids[i] \in {"accepted", "requested", "rejected"} /\ to = "error"
     /\ s = "client" /\ kind = "REJECTED" /\ (ids[i] = "rejected" \/ CmGone("server"))
  \/ /\ ids[i] \in {"up", "closing"} /\ to = "closed" /\ s = "client" /\ kind = "DISCONNECTED"
     /\ ids[i] = "up" => CmGone("server")

LEMMA EventComes ==
  ASSUME CtlTypes, DataInv, NEW i \in Node, NEW s \in CmSide, NEW kind \in EventKind, NEW to \in IdState,
         Comes(i, s, kind, to), IdTo(i, to), Event(s, kind, i), UNCHANGED <<cmKept, cmst>>,
         cfaults' \in Nat, cfaults' >= cfaults
  PROVE  DataInv'
<1> USE Sides DEF cmKept
<1> DEFINE e == [kind |-> kind, id |-> i]
           n == Len(chan[s]) + 1
<1>0. /\ DataTypes /\ e \in CmEvent /\ chan' = [chan EXCEPT ![s] = Append(chan[s], e)]
      /\ ids' = [ids EXCEPT ![i] = to] /\ \A t \in CmSide : CmGone(t)' = CmGone(t) /\ Used(t)' = Used(t)
  BY DEF DataInv, IdTo, Event, CmEvent, CmGone, Used
<1> HIDE DEF e
<1>q. /\ chan' \in [CmSide -> Seq(CmEvent)]
      /\ \A t \in CmSide : t # s => chan'[t] = chan[t]
      /\ \A k \in DOMAIN chan[s] : k \in DOMAIN chan'[s] /\ chan'[s][k] = chan[s][k] /\ k < n
      /\ n \in DOMAIN chan'[s] /\ chan'[s][n] = e
      /\ \A k \in DOMAIN chan'[s] : k \in DOMAIN chan[s] \/ k = n
  BY <1>0, Queued
<1> HIDE DEF n
<1>i. /\ ids \in [Node -> IdState] /\ ids' \in [Node -> IdState] /\ ids'[i] = to
      /\ \A j \in Node : j # i => ids'[j] = ids[j]
  BY <1>0 DEF DataTypes
<1>1. DataTypes'
  BY <1>0, <1>i, <1>q DEF DataTypes
<1>p. \A t \in CmSide : \A k \in DOMAIN chan[t] : chan[t][k] \in CmEvent /\ chan[t][k].id \in Node
  BY <1>0, EventTypes
<1>e. e.kind = kind /\ e.id = i
  BY DEF e
<1>old. \A k \in DOMAIN chan["client"] : chan["client"][k].id = i =>
          /\ ids[i] \in {"up", "closing"} /\ chan["client"][k].kind = "ESTABLISHED"
  <2> SUFFICES ASSUME NEW k \in DOMAIN chan["client"], chan["client"][k].id = i
               PROVE  ids[i] \in {"up", "closing"} /\ chan["client"][k].kind = "ESTABLISHED"
    OBVIOUS
  <2>1. ids[i] \in Seen(chan["client"][k].kind)
    BY DEF DataInv, Events
  <2> QED BY <2>1 DEF Comes, Seen
<1>2. Events'
  <2>1. \A k \in DOMAIN chan[s] : chan[s][k] # e
    <3> SUFFICES ASSUME NEW k \in DOMAIN chan[s], chan[s][k] = e PROVE FALSE
      OBVIOUS
    <3>1. CASE s = "client"
      BY <1>old, <1>e, <3>1 DEF Comes
    <3>2. CASE s = "server"
      <4>1. ids[i] = "requested"
        BY <1>e, <3>2 DEF DataInv, Events, Comes
      <4> QED BY <3>2, <4>1 DEF Comes
    <3> QED BY <3>1, <3>2
  <2>2. \A t \in CmSide : \A j, k \in DOMAIN chan'[t] : chan'[t][j] = chan'[t][k] => j = k
    <3> SUFFICES ASSUME NEW t \in CmSide, NEW j \in DOMAIN chan'[t], NEW k \in DOMAIN chan'[t],
                        chan'[t][j] = chan'[t][k]
                 PROVE  j = k
      OBVIOUS
    <3>1. CASE t # s
      BY <1>q, <3>1 DEF DataInv, Events
    <3>2. CASE t = s /\ j # n /\ k # n
      <4>1. j \in DOMAIN chan[s] /\ k \in DOMAIN chan[s] /\ chan[s][j] = chan[s][k]
        BY <1>q, <3>2
      <4> QED BY <4>1 DEF DataInv, Events
    <3>3. CASE t = s /\ (j = n \/ k = n)
      BY <1>q, <2>1, <3>3
    <3> QED BY <3>1, <3>2, <3>3
  <2>3. ASSUME NEW k \in DOMAIN chan'["client"]
        PROVE  ids'[chan'["client"][k].id] \in Seen(chan'["client"][k].kind)
    <3>1. CASE s = "client" /\ k = n
      BY <1>e, <1>i, <1>q, <3>1 DEF Comes, Seen
    <3>2. CASE ~(s = "client" /\ k = n)
      <4>1. k \in DOMAIN chan["client"] /\ chan'["client"][k] = chan["client"][k]
        BY <1>q, <3>2
      <4>2. ids[chan["client"][k].id] \in Seen(chan["client"][k].kind)
        BY <4>1 DEF DataInv, Events
      <4>3. CASE chan["client"][k].id # i
        BY <1>i, <1>p, <4>1, <4>2, <4>3
      <4>4. CASE chan["client"][k].id = i
        BY <1>i, <1>old, <4>1, <4>4 DEF Comes, Seen
      <4> QED BY <4>3, <4>4
    <3> QED BY <3>1, <3>2
  <2>4. ASSUME NEW k \in DOMAIN chan'["server"]
        PROVE  /\ chan'["server"][k].kind = "CONNECT_REQUEST"
               /\ ~CmGone("server")' => ids'[chan'["server"][k].id] = "requested"
    <3>1. CASE s = "server" /\ k = n
      BY <1>e, <1>i, <1>q, <3>1 DEF Comes
    <3>2. CASE ~(s = "server" /\ k = n)
      <4>1. k \in DOMAIN chan["server"] /\ chan'["server"][k] = chan["server"][k]
        BY <1>q, <3>2
      <4>2. /\ chan["server"][k].kind = "CONNECT_REQUEST"
            /\ ~CmGone("server") => ids[chan["server"][k].id] = "requested"
        BY <4>1 DEF DataInv, Events
      <4>3. CASE chan["server"][k].id # i
        BY <1>0, <1>i, <1>p, <4>1, <4>2, <4>3
      <4>4. CASE chan["server"][k].id = i
        BY <1>0, <4>1, <4>2, <4>4 DEF Comes
      <4> QED BY <4>3, <4>4
    <3> QED BY <3>1, <3>2
  <2>5. ASSUME NEW j \in Node, NEW k \in DOMAIN chan'["client"],
               chan'["client"][k] = [kind |-> "ESTABLISHED", id |-> j], ids'[j] = "closed"
        PROVE  \E l \in DOMAIN chan'["client"] :
                 l > k /\ chan'["client"][l] = [kind |-> "DISCONNECTED", id |-> j]
    <3>1. CASE j # i
      <4>1. ids[j] = "closed" /\ ~(s = "client" /\ k = n)
        BY <1>e, <1>i, <1>q, <2>5, <3>1
      <4>2. k \in DOMAIN chan["client"] /\ chan["client"][k] = [kind |-> "ESTABLISHED", id |-> j]
        BY <1>q, <2>5, <4>1
      <4>3. PICK l \in DOMAIN chan["client"] :
               l > k /\ chan["client"][l] = [kind |-> "DISCONNECTED", id |-> j]
        BY <4>1, <4>2 DEF DataInv, Events
      <4> QED BY <1>q, <4>3
    <3>2. CASE j = i
      <4>1. to = "closed" /\ s = "client" /\ kind = "DISCONNECTED"
        BY <1>i, <2>5, <3>2 DEF Comes
      <4>2. e = [kind |-> "DISCONNECTED", id |-> j] /\ k # n
        BY <1>q, <2>5, <3>2, <4>1 DEF e
      <4>3. k < n /\ n \in DOMAIN chan'["client"] /\ chan'["client"][n] = e
        BY <1>q, <4>1, <4>2
      <4>4. n > k
        BY <1>0, <1>q, <4>1, <4>2, <4>3 DEF n, DataTypes
      <4> QED BY <4>2, <4>3, <4>4
    <3> QED BY <3>1, <3>2
  <2> QED BY <2>2, <2>3, <2>4, <2>5 DEF Events
<1>3. \A k \in {"ESTABLISHED", "DISCONNECTED"}, j \in Node :
        Pends("client", k, j)' <=> Pends("client", k, j) \/ (s = "client" /\ k = kind /\ j = i)
  <2> SUFFICES ASSUME NEW k \in {"ESTABLISHED", "DISCONNECTED"}, NEW j \in Node
               PROVE  Pends("client", k, j)' <=> Pends("client", k, j) \/ (s = "client" /\ k = kind /\ j = i)
    OBVIOUS
  <2>1. e = [kind |-> k, id |-> j] <=> k = kind /\ j = i
    BY DEF e
  <2> QED BY <1>0, <2>1, PendsQueued
<1>4. Made' = Made /\ Ended' = Ended
  <2>1. ASSUME NEW j \in Node PROVE (j \in Made' <=> j \in Made) /\ (j \in Ended' <=> j \in Ended)
    BY <1>3, <1>i DEF Made, Ended, Comes
  <2> QED BY <2>1 DEF Made, Ended
<1>5. Counters'
  BY <1>0, <1>4, CountersKept DEF DataInv
<1>6. QpsFilled'
  BY <1>0, FilledKept DEF DataInv
<1>7. QpsOwned'
  <2>1. \A t \in CmSide : Taken(t)' = Taken(t)
    BY DEF Taken
  <2> QED BY <1>0, <1>i, <2>1 DEF DataInv, QpsOwned, Comes
<1>8. QpsLeft' /\ RoutesInOrder'
  BY <1>0 DEF DataInv, QpsLeft, RoutesInOrder
<1>9. NumbersTold' /\ NumbersSent' /\ UdOnly'
  <2>1. ud => \A j \in Node : ids'[j] \in {"closing", "closed"} =>
                 ids[j] \in {"closing", "closed"} \/ CmGone("server")'
    BY <1>0, <1>i DEF DataInv, UdOnly, Comes
  <2> QED BY <1>0, <1>4, <2>1, NumbersKept DEF DataInv
<1>10. DefinedUnless'
  <2>1. \A j \in Node : ids[j] = "error" => ids'[j] = "error"
    BY <1>i DEF Comes
  <2> QED BY <2>1, DefinedKept DEF DataInv, CtlTypes
<1> QED BY <1>1, <1>2, <1>5, <1>6, <1>7, <1>8, <1>9, <1>10 DEF DataInv

-----------------------------------------------------------------------------
(* The client.                                                             *)

\* The event that a handler finds is the first one, and it is true.
LEMMA FirstEvent ==
  ASSUME DataInv, NEW s \in CmSide, NEW kind \in EventKind, NEW i \in Node,
         Head1(s) = [kind |-> kind, id |-> i], Rest(s)
  PROVE  /\ chan[s] # <<>> /\ chan' = [chan EXCEPT ![s] = Tail(chan[s])]
         /\ Head(chan[s]) = [kind |-> kind, id |-> i]
         /\ 1 \in DOMAIN chan[s] /\ chan[s][1] = [kind |-> kind, id |-> i]
         /\ s = "client" => ids[i] \in Seen(kind)
         /\ s = "server" /\ ~CmGone("server") => ids[i] = "requested"
<1>1. chan[s] # <<>>
  BY DEF Head1, EventKind
<1>2. chan' = [chan EXCEPT ![s] = Tail(chan[s])] /\ Head(chan[s]) = [kind |-> kind, id |-> i]
  BY <1>1 DEF Head1, Rest
<1>3. 1 \in DOMAIN chan[s] /\ chan[s][1] = Head(chan[s])
  BY <1>1, <1>2, Handled DEF DataInv
<1>4. s = "client" => ids[i] \in Seen(kind)
  BY <1>2, <1>3 DEF DataInv, Events
<1>5. s = "server" /\ ~CmGone("server") => ids[i] = "requested"
  BY <1>2, <1>3 DEF DataInv, Events
<1> QED BY <1>1, <1>2, <1>3, <1>4, <1>5

\* What is left after it.
LEMMA Rests ==
  ASSUME DataInv, NEW s \in CmSide, NEW e, chan[s] # <<>>, Head(chan[s]) = e,
         chan' = [chan EXCEPT ![s] = Tail(chan[s])]
  PROVE  \A t \in CmSide : \A k \in DOMAIN chan'[t] :
           \E j \in DOMAIN chan[t] : chan[t][j] = chan'[t][k] /\ (t = s => chan[t][j] # e)
<1>1. /\ \A t \in CmSide : t # s => chan'[t] = chan[t]
      /\ 1 \in DOMAIN chan[s] /\ chan[s][1] = e
      /\ \A k \in DOMAIN chan'[s] : k + 1 \in DOMAIN chan[s] /\ k + 1 # 1 /\ chan'[s][k] = chan[s][k + 1]
  BY Handled DEF DataInv
<1>2. \A k \in DOMAIN chan'[s] : chan[s][k + 1] # e
  BY <1>1 DEF DataInv, Events
<1> QED BY <1>1, <1>2

LEMMA ClientCrash ==
  ASSUME CtlTypes, DataInv, InLoop("client"), chan["client"] # <<>>, Rest("client"),
         Goes("client", "crashed"), left' \in [CmSide -> 0 .. CmQps], left'["server"] = left["server"],
         UNCHANGED <<ud, listening, ids, cidx, dleft, qps, rem, imm, conn, ooo>>,
         cfaults' \in Nat, cfaults' >= cfaults,
         cfaults' > 0 \/ (\E i \in Node : ids[i] = "error") \/ (ud /\ ooo)
  PROVE  DataInv'
<1> USE Sides
<1>0. /\ chan' = [chan EXCEPT !["client"] = Tail(chan["client"])]
      /\ cmst' = [cmst EXCEPT !["client"] = "crashed"] /\ cmst \in [CmSide -> CmState]
      /\ cmst["client"] = "cm" /\ DataTypes /\ Events
  BY DEF Rest, Goes, InLoop, CtlTypes, DataInv
<1>g. /\ cmst'["client"] = "crashed" /\ cmst'["server"] = cmst["server"]
      /\ CmGone("client")' /\ CmGone("server")' = CmGone("server")
      /\ \A s \in CmSide : Used(s)' = Used(s)
  BY <1>0 DEF CmGone, Used
<1>1. DataTypes'
  BY <1>0, Handled DEF DataTypes
<1>2. Events'
  BY <1>0, <1>g, EventsHandled DEF DataInv
<1>3. Made \subseteq Made'
  <2>1. \A i \in Node : Pends("client", "ESTABLISHED", i)' => Pends("client", "ESTABLISHED", i)
    BY <1>0, PendsHandled
  <2> QED BY <2>1 DEF Made
<1>4. Counters'
  BY <1>g DEF Counters
<1>5. QpsFilled'
  BY <1>g, FilledKept DEF DataInv
<1>6. QpsOwned'
  <2>1. \A t \in CmSide : Taken(t)' = Taken(t)
    BY DEF Taken
  <2> QED BY <1>g, <2>1 DEF DataInv, QpsOwned
<1>7. QpsLeft' /\ RoutesInOrder'
  BY <1>g DEF DataInv, QpsLeft, RoutesInOrder
<1>8. NumbersTold' /\ NumbersSent' /\ UdOnly'
  BY <1>0, <1>g, <1>3, NumbersKept DEF DataInv
<1>9. DefinedUnless'
  BY DefinedKept DEF DataInv, CtlTypes
<1> QED BY <1>1, <1>2, <1>4, <1>5, <1>6, <1>7, <1>8, <1>9 DEF DataInv

LEMMA ResolveAllData == ASSUME CtlTypes, DataInv, ResolveAll PROVE DataInv'
<1> USE Sides DEF ResolveAll, cmLoop
<1>0. /\ \A t \in CmSide : CmGone(t)' = CmGone(t) /\ Used(t)' = Used(t) /\ Taken(t)' = Taken(t)
      /\ \A i \in Node : ids[i] = "idle" /\ ids'[i] = "addr"
      /\ DataTypes
  BY DEF CmGone, Used, Taken, DataInv
<1>1. DataTypes'
  BY <1>0 DEF DataTypes, IdState
<1>p. \A t \in CmSide : \A k \in DOMAIN chan[t] : chan[t][k].id \in Node
  BY <1>0, EventTypes
<1>2. Events'
  <2>1. DOMAIN chan["client"] = {} /\ (~CmGone("server") => DOMAIN chan["server"] = {})
    BY <1>0, <1>p DEF DataInv, Events, Seen
  <2> QED BY <1>0, <2>1 DEF DataInv, Events
<1>3. Made' = Made /\ Ended' = Ended
  BY <1>0 DEF Made, Ended
<1>4. Counters'
  BY <1>0, <1>3, CountersKept DEF DataInv
<1>5. QpsFilled'
  BY <1>0, FilledKept DEF DataInv
<1>6. QpsOwned'
  BY <1>0 DEF DataInv, QpsOwned
<1>7. QpsLeft' /\ RoutesInOrder'
  BY <1>0 DEF DataInv, QpsLeft, RoutesInOrder
<1>8. NumbersTold' /\ NumbersSent' /\ UdOnly'
  BY <1>0, <1>3, NumbersKept DEF DataInv
<1>9. DefinedUnless'
  BY <1>0, DefinedKept DEF DataInv, CtlTypes
<1> QED BY <1>1, <1>2, <1>4, <1>5, <1>6, <1>7, <1>8, <1>9 DEF DataInv

\* An address or a route: its event is the only one of that connection.
LEMMA LastEvent ==
  ASSUME DataInv, NEW kind \in {"ADDR_RESOLVED", "ROUTE_RESOLVED"}, NEW i \in Node,
         Head1("client") = [kind |-> kind, id |-> i], Rest("client"),
         UNCHANGED cmst, ids' \in [Node -> IdState], \A j \in Node : j # i => ids'[j] = ids[j],
         ids'[i] \in {"route", "asked"}
  PROVE  Events' /\ Made' = Made /\ Ended' = Ended
<1> USE Sides
<1>0. /\ chan["client"] # <<>> /\ chan' = [chan EXCEPT !["client"] = Tail(chan["client"])]
      /\ Head(chan["client"]) = [kind |-> kind, id |-> i] /\ ids[i] \in Seen(kind)
      /\ DataTypes /\ Events /\ CmGone("server")' = CmGone("server")
  BY FirstEvent DEF DataInv, EventKind, CmGone
<1>p. \A t \in CmSide : \A k \in DOMAIN chan[t] :
        /\ chan[t][k].id \in Node /\ chan[t][k].kind \in EventKind
        /\ chan[t][k] = [kind |-> chan[t][k].kind, id |-> chan[t][k].id]
  BY <1>0, EventTypes
<1>1. ASSUME NEW k \in DOMAIN chan'["client"] PROVE ids'[chan'["client"][k].id] = ids[chan'["client"][k].id]
  <2>1. PICK j \in DOMAIN chan["client"] :
           chan["client"][j] = chan'["client"][k] /\ chan["client"][j] # [kind |-> kind, id |-> i]
    BY <1>0, Rests
  <2>2. ids[chan["client"][j].id] \in Seen(chan["client"][j].kind)
    BY <1>0 DEF Events
  <2>3. chan["client"][j].id # i
    <3>1. chan["client"][j].kind = kind => chan["client"][j].id # i
      BY <1>p, <2>1
    <3>2. chan["client"][j].id = i => chan["client"][j].kind = kind
      BY <1>0, <2>2 DEF Seen
    <3> QED BY <3>1, <3>2
  <2> QED BY <1>p, <2>1, <2>3
<1>2. ASSUME ~CmGone("server")', NEW k \in DOMAIN chan'["server"]
      PROVE  ids'[chan'["server"][k].id] = ids[chan'["server"][k].id]
  <2>1. PICK j \in DOMAIN chan["server"] : chan["server"][j] = chan'["server"][k]
    BY <1>0, Rests
  <2>2. ids[chan["server"][j].id] = "requested"
    BY <1>0, <1>2 DEF Events
  <2> QED BY <1>0, <1>p, <2>1, <2>2 DEF Seen
<1>3. Events'
  BY <1>0, <1>1, <1>2, EventsHandled
<1>4. ASSUME NEW j \in Node
      PROVE  /\ Pends("client", "ESTABLISHED", j)' <=> Pends("client", "ESTABLISHED", j)
             /\ Pends("client", "DISCONNECTED", j)' <=> Pends("client", "DISCONNECTED", j)
  <2>1. /\ Head(chan["client"]) # [kind |-> "ESTABLISHED", id |-> j]
        /\ Head(chan["client"]) # [kind |-> "DISCONNECTED", id |-> j]
    BY <1>0
  <2> QED BY <1>0, <2>1, PendsHandled
<1>5. ids[i] \notin {"up", "closing", "closed"}
  BY <1>0 DEF Seen
<1>6. Made' = Made /\ Ended' = Ended
  <2>1. ASSUME NEW j \in Node PROVE (j \in Made' <=> j \in Made) /\ (j \in Ended' <=> j \in Ended)
    BY <1>4, <1>5 DEF Made, Ended
  <2> QED BY <2>1 DEF Made, Ended
<1> QED BY <1>3, <1>6

LEMMA AddressHandlerData == ASSUME CtlTypes, DataInv, NEW i \in Node, AddressHandler(i) PROVE DataInv'
<1> USE Sides DEF cmLoop
<1>a. /\ InLoop("client") /\ Head1("client") = [kind |-> "ADDR_RESOLVED", id |-> i] /\ Rest("client")
      /\ UNCHANGED <<cmLoop, cidx, dleft, qps, conn, rem, imm, ooo>>
  BY DEF AddressHandler
<1>0. /\ DataTypes /\ chan["client"] # <<>> /\ ids[i] = "addrOk"
      /\ chan' = [chan EXCEPT !["client"] = Tail(chan["client"])]
      /\ left["client"] \in 1 .. CmQps /\ cmst["client"] = "cm" /\ cfaults \in Nat
      /\ MaxCmFaults \in Nat /\ CmQps \in Nat
  <2>1. DataTypes /\ "ADDR_RESOLVED" \in EventKind /\ Seen("ADDR_RESOLVED") = {"addrOk"}
    BY DEF DataInv, EventKind, Seen
  <2>2. /\ chan["client"] # <<>> /\ ids[i] = "addrOk"
        /\ chan' = [chan EXCEPT !["client"] = Tail(chan["client"])]
    BY <1>a, <2>1, FirstEvent
  <2> QED BY <1>a, <2>1, <2>2, Waiting
<1>1. CASE IdTo(i, "route") /\ UNCHANGED <<cmst, left, cfaults>>
  <2> USE <1>a, <1>1
  <2>0. /\ \A t \in CmSide : CmGone(t)' = CmGone(t) /\ Used(t)' = Used(t) /\ Taken(t)' = Taken(t)
        /\ ids' \in [Node -> IdState] /\ ids'[i] = "route" /\ \A j \in Node : j # i => ids'[j] = ids[j]
    BY <1>0 DEF CmGone, Used, Taken, IdTo, DataTypes, IdState
  <2>1. DataTypes'
    BY <1>0, <2>0, Handled DEF DataTypes
  <2>2. Events' /\ Made' = Made /\ Ended' = Ended
    BY <2>0, LastEvent
  <2>3. Counters'
    BY <2>0, <2>2, CountersKept DEF DataInv
  <2>4. QpsFilled'
    BY <2>0, FilledKept DEF DataInv
  <2>5. QpsOwned'
    BY <1>0, <2>0 DEF DataInv, QpsOwned
  <2>6. QpsLeft' /\ RoutesInOrder'
    BY <2>0 DEF DataInv, QpsLeft, RoutesInOrder
  <2>7. NumbersTold' /\ NumbersSent' /\ UdOnly'
    BY <1>0, <2>0, <2>2, NumbersKept DEF DataInv
  <2>8. DefinedUnless'
    BY <1>0, <2>0, DefinedKept DEF DataInv, CtlTypes
  <2> QED BY <2>1, <2>2, <2>3, <2>4, <2>5, <2>6, <2>7, <2>8 DEF DataInv
<1>2. CASE CmFault /\ Retry /\ UNCHANGED ids /\ left' = [left EXCEPT !["client"] = @ - 1]
  <2>1. cfaults' \in Nat /\ cfaults' > 0 /\ cfaults' >= cfaults
    BY <1>0, <1>2 DEF CmFault
  <2>2. left' \in [CmSide -> 0 .. CmQps] /\ left'["server"] = left["server"]
    BY <1>0, <1>2 DEF DataTypes
  <2> QED BY <1>a, <1>0, <1>2, <2>1, <2>2, ClientCrash DEF Retry
<1> QED BY <1>1, <1>2 DEF AddressHandler

LEMMA ErrorHandlerData == ASSUME CtlTypes, DataInv, NEW i \in Node, ErrorHandler(i) PROVE DataInv'
<1> USE Sides DEF ErrorHandler, cmLoop
<1>0. /\ DataTypes /\ chan["client"] # <<>>
      /\ chan' = [chan EXCEPT !["client"] = Tail(chan["client"])]
      /\ left["client"] \in 1 .. CmQps /\ cmst["client"] = "cm" /\ cfaults \in Nat /\ CmQps \in Nat
  BY Waiting DEF DataInv, Head1, Rest
<1>1. ids[i] = "error"
  <2>1. Head1("client") = Head(chan["client"]) /\ chan["client"] \in Seq(CmEvent)
    BY <1>0 DEF Head1, DataTypes
  <2>2. 1 \in DOMAIN chan["client"] /\ chan["client"][1] = Head1("client")
    BY <1>0, <2>1
  <2> QED BY <2>2 DEF DataInv, Events, Seen
<1>2. left' \in [CmSide -> 0 .. CmQps] /\ left'["server"] = left["server"]
  BY <1>0 DEF DataTypes
<1> QED BY <1>0, <1>1, <1>2, ClientCrash DEF Retry

LEMMA RouteHandlerData == ASSUME CtlTypes, DataInv, NEW i \in Node, RouteHandler(i) PROVE DataInv'
<1> USE Sides DEF cmLoop
<1> DEFINE c == cidx["client"]
<1>a. /\ InLoop("client") /\ Head1("client") = [kind |-> "ROUTE_RESOLVED", id |-> i] /\ Rest("client")
      /\ UNCHANGED <<cmLoop, dleft, rem, imm>>
  BY DEF RouteHandler
<1>0. /\ DataTypes /\ chan["client"] # <<>> /\ ids[i] = "routeOk"
      /\ chan' = [chan EXCEPT !["client"] = Tail(chan["client"])]
      /\ left["client"] \in 1 .. CmQps /\ cmst["client"] = "cm" /\ cfaults \in Nat
      /\ MaxCmFaults \in Nat /\ CmQps \in Nat
  <2>1. DataTypes /\ "ROUTE_RESOLVED" \in EventKind /\ Seen("ROUTE_RESOLVED") = {"routeOk"}
    BY DEF DataInv, EventKind, Seen
  <2>2. /\ chan["client"] # <<>> /\ ids[i] = "routeOk"
        /\ chan' = [chan EXCEPT !["client"] = Tail(chan["client"])]
    BY <1>a, <2>1, FirstEvent
  <2> QED BY <1>a, <2>1, <2>2, Waiting
<1>1. CASE /\ qps' = [qps EXCEPT !["client"][ClientQp(i)] = i]
           /\ conn' = [conn EXCEPT !["client"][cidx["client"]] = TRUE]
           /\ cidx' = [cidx EXCEPT !["client"] = @ + 1]
           /\ ooo' = (ooo \/ i # cidx["client"])
           /\ IdTo(i, "asked") /\ UNCHANGED <<cmst, left, cfaults>>
  <2> USE <1>a, <1>1
  <2>0. /\ \A t \in CmSide : CmGone(t)' = CmGone(t)
        /\ ids' \in [Node -> IdState] /\ ids'[i] = "asked" /\ \A j \in Node : j # i => ids'[j] = ids[j]
    BY <1>0 DEF CmGone, IdTo, DataTypes, IdState
  <2>1. /\ Used("client") = c /\ c \in Nat /\ Cardinality(Taken("client")) = c
        /\ i \notin Taken("client") /\ Taken("client") \in SUBSET Node
    BY <1>0 DEF DataInv, QpsFilled, QpsOwned, Used, DataTypes, Taken
  <2>2. c < CmQps /\ Cardinality(Taken("client") \cup {i}) = c + 1
    BY <2>1, OneMore
  <2>3. c \in Node /\ qps["client"][c] = NoNode
    BY <1>0, <2>1, <2>2 DEF DataInv, QpsFilled, Node
  <2>4. /\ qps' \in [CmSide -> [Node -> Place]] /\ conn' \in [CmSide -> [Node -> BOOLEAN]]
        /\ cidx' \in [CmSide -> 0 .. CmQps]
        /\ qps'["server"] = qps["server"] /\ cidx'["server"] = cidx["server"] /\ cidx'["client"] = c + 1
        /\ qps'["client"][c] = i /\ \A j \in Node : j # c => qps'["client"][j] = qps["client"][j]
    BY <1>0, <2>1, <2>2, <2>3 DEF DataTypes, ClientQp, Place
  <2>5. Taken("client")' = Taken("client") \cup {i} /\ Taken("server")' = Taken("server")
    BY <2>3, <2>4, NodeSets DEF Taken
  <2>6. Used("client")' = c + 1 /\ Used("server")' = Used("server")
    BY <1>0, <2>4 DEF Used
  <2>7. DataTypes'
    BY <1>0, <2>0, <2>4, Handled DEF DataTypes
  <2>8. Events' /\ Made' = Made /\ Ended' = Ended
    BY <2>0, LastEvent
  <2>9. Counters'
    BY <2>0, <2>8, CountersKept DEF DataInv
  <2>10. QpsFilled'
    <3>1. \A j \in Node : qps'["client"][j] # NoNode <=> j < c + 1
      <4> SUFFICES ASSUME NEW j \in Node PROVE qps'["client"][j] # NoNode <=> j < c + 1
        OBVIOUS
      <4>1. CASE j = c
        BY <2>1, <2>4, <4>1, NodeSets
      <4>2. CASE j # c
        <5>1. qps["client"][j] # NoNode <=> j < c
          BY <2>1 DEF DataInv, QpsFilled
        <5> QED BY <2>1, <2>4, <4>2, <5>1 DEF Node
      <4> QED BY <4>1, <4>2
    <3>2. \A j \in Node : qps'["server"][j] # NoNode <=> j < Used("server")'
      BY <2>4, <2>6 DEF DataInv, QpsFilled
    <3>3. /\ Cardinality(Taken("client"))' = Used("client")'
          /\ Cardinality(Taken("server"))' = Used("server")'
      BY <2>2, <2>5, <2>6 DEF DataInv, QpsFilled
    <3> QED BY <2>6, <3>1, <3>2, <3>3 DEF QpsFilled
  <2>11. QpsOwned'
    BY <1>0, <2>0, <2>5 DEF DataInv, QpsOwned
  <2>12. QpsLeft'
    BY <2>0, <2>4 DEF DataInv, QpsLeft
  <2>13. RoutesInOrder'
    BY <2>3, <2>4 DEF DataInv, RoutesInOrder
  <2>14. NumbersTold' /\ NumbersSent' /\ UdOnly'
    BY <1>0, <2>0, <2>4, <2>8, NumbersKept DEF DataInv
  <2>15. DefinedUnless'
    <3>1. ooo => ooo'
      BY <1>1
    <3>2. \A j \in Node : ids[j] = "error" => ids'[j] = "error"
      BY <1>0, <2>0
    <3>3. ud' = ud /\ cfaults' = cfaults /\ cmst'["client"] # "crashed"
      BY <1>a, <1>0, <1>1
    <3> QED BY <1>0, <3>1, <3>2, <3>3, DefinedKept DEF DataInv
  <2> QED BY <2>7, <2>8, <2>9, <2>10, <2>11, <2>12, <2>13, <2>14, <2>15 DEF DataInv
<1>2. CASE /\ CmFault /\ Retry /\ left' = [left EXCEPT !["client"] = @ - 1]
           /\ UNCHANGED <<ids, qps, conn, cidx, ooo>>
  <2>1. cfaults' \in Nat /\ cfaults' > 0 /\ cfaults' >= cfaults
    BY <1>0, <1>2 DEF CmFault
  <2>2. left' \in [CmSide -> 0 .. CmQps] /\ left'["server"] = left["server"]
    BY <1>0, <1>2 DEF DataTypes
  <2> QED BY <1>a, <1>0, <1>2, <2>1, <2>2, ClientCrash DEF Retry
<1> QED BY <1>1, <1>2 DEF RouteHandler

\* An event that changes nothing but what the client has been told.
LEMMA ToldEvents ==
  ASSUME DataInv, NEW kind \in {"ESTABLISHED", "DISCONNECTED"}, NEW i \in Node,
         Head1("client") = [kind |-> kind, id |-> i], Rest("client"), UNCHANGED <<cmst, ids>>
  PROVE  /\ Events' /\ chan' \in [CmSide -> Seq(CmEvent)] /\ ids[i] \in Seen(kind)
         /\ \A t \in CmSide : CmGone(t)' = CmGone(t)
         /\ kind = "ESTABLISHED" => i \notin Made /\ Made' = Made \cup {i} /\ Ended' = Ended
         /\ kind = "DISCONNECTED" => i \notin Ended /\ Ended' = Ended \cup {i} /\ Made' = Made
<1> USE Sides
<1>0. /\ chan["client"] # <<>> /\ chan' = [chan EXCEPT !["client"] = Tail(chan["client"])]
      /\ Head(chan["client"]) = [kind |-> kind, id |-> i] /\ ids[i] \in Seen(kind)
      /\ 1 \in DOMAIN chan["client"] /\ chan["client"][1] = [kind |-> kind, id |-> i]
      /\ DataTypes /\ Events /\ \A t \in CmSide : CmGone(t)' = CmGone(t)
  BY FirstEvent DEF DataInv, EventKind, CmGone
<1>1. Events' /\ chan' \in [CmSide -> Seq(CmEvent)]
  BY <1>0, EventsHandled, Handled
<1>2. ASSUME NEW j \in Node, NEW k \in {"ESTABLISHED", "DISCONNECTED"}
      PROVE  Pends("client", k, j)' <=> Pends("client", k, j) /\ ~(k = kind /\ j = i)
  <2>1. Head(chan["client"]) = [kind |-> k, id |-> j] <=> k = kind /\ j = i
    BY <1>0
  <2> QED BY <1>0, <2>1, PendsHandled
<1>3. Pends("client", kind, i)
  BY <1>0 DEF Pends
<1>4. CASE kind = "ESTABLISHED"
  <2>1. i \notin Made
    BY <1>3, <1>4 DEF Made
  <2>2. ASSUME NEW j \in Node PROVE (j \in Made' <=> j \in Made \cup {i}) /\ (j \in Ended' <=> j \in Ended)
    BY <1>0, <1>2, <1>4 DEF Made, Ended, Seen
  <2>3. Made' = Made \cup {i} /\ Ended' = Ended
    BY <2>2 DEF Made, Ended
  <2> QED BY <1>0, <1>1, <1>4, <2>1, <2>3
<1>5. CASE kind = "DISCONNECTED"
  <2>1. i \notin Ended
    BY <1>3, <1>5 DEF Ended
  <2>2. ASSUME NEW j \in Node PROVE (j \in Ended' <=> j \in Ended \cup {i}) /\ (j \in Made' <=> j \in Made)
    BY <1>0, <1>2, <1>5 DEF Made, Ended, Seen
  <2>3. Ended' = Ended \cup {i} /\ Made' = Made
    BY <2>2 DEF Made, Ended
  <2> QED BY <1>0, <1>1, <1>5, <2>1, <2>3
<1> QED BY <1>4, <1>5

\* What has ended was made.
LEMMA EndedMade == ASSUME DataInv PROVE Ended \subseteq Made
<1> SUFFICES ASSUME NEW i \in Ended PROVE i \in Made
  OBVIOUS
<1>1. i \in Node /\ ids[i] = "closed" /\ ~Pends("client", "DISCONNECTED", i)
  BY DEF Ended
<1>2. ~Pends("client", "ESTABLISHED", i)
  BY <1>1 DEF Pends, DataInv, Events
<1> QED BY <1>1, <1>2 DEF Made

\* The places that the client counts, and the QPs it has by then.
LEMMA PlacesCounted ==
  ASSUME DataInv, ~CmGone("client")
  PROVE  /\ Made \in SUBSET Node /\ Ended \in SUBSET Node
         /\ Cardinality(Made) \in Nat /\ Cardinality(Ended) \in Nat /\ Cardinality(Made) <= CmQps
         /\ dleft = Cardinality(Made) - Cardinality(Ended)
         /\ left["client"] = CmQps - Cardinality(Made)
         /\ left["client"] \in Nat /\ dleft \in Nat
<1>1. Made \in SUBSET Node /\ Ended \in SUBSET Node
  BY DEF Made, Ended
<1>2. left["client"] \in Nat /\ dleft \in Nat
  BY Sides, RdmaCmAssumption DEF DataInv, DataTypes
<1> QED BY <1>1, <1>2, NodeSets DEF DataInv, Counters

LEMMA EstablishedHandlerData == ASSUME CtlTypes, DataInv, NEW i \in Node, EstablishedHandler(i) PROVE DataInv'
<1> USE Sides DEF cmLoop
<1>a. /\ InLoop("client") /\ Head1("client") = [kind |-> "ESTABLISHED", id |-> i] /\ Rest("client")
      /\ UNCHANGED <<cmLoop, ids, cidx, qps, conn, ooo, cfaults>>
  BY DEF EstablishedHandler
<1>0. /\ DataTypes /\ left["client"] \in 1 .. CmQps /\ cmst["client"] = "cm" /\ cfaults \in Nat
      /\ CmQps \in Nat /\ ~CmGone("client")
  BY <1>a, Waiting DEF DataInv
<1>1. CASE ud /\ ~HasQp(UdPlace)
  <2>0. Goes("client", "crashed") /\ UNCHANGED <<left, dleft, rem, imm>>
    BY <1>1 DEF EstablishedHandler
  <2>1. /\ chan["client"] # <<>> /\ ids[i] \in {"up", "closing", "closed"}
        /\ 1 \in DOMAIN chan["client"] /\ chan["client"][1] = [kind |-> "ESTABLISHED", id |-> i]
    BY <1>a, FirstEvent DEF EventKind, Seen
  <2>2. ASSUME ~ooo PROVE FALSE
    <3>1. i \in Taken("client") /\ i \notin Made /\ Made \subseteq Taken("client")
      BY <2>1 DEF DataInv, QpsOwned, Made, Pends
    <3>2. Cardinality(Made) < Cardinality(Taken("client")) /\ Taken("client") \in SUBSET Node
      BY <3>1, Fewer DEF Taken
    <3>3. Cardinality(Taken("client")) = cidx["client"] /\ Used("client") = cidx["client"]
          /\ cidx["client"] \in 0 .. CmQps
      BY <1>0 DEF DataInv, QpsFilled, Used, DataTypes
    <3>4. dleft \in Node /\ dleft < Used("client")
      BY <1>0, <3>2, <3>3, PlacesCounted DEF Node
    <3>5. qps["client"][dleft] = dleft
      BY <2>2, <3>4 DEF DataInv, QpsFilled, RoutesInOrder
    <3> QED BY <1>1, <3>4, <3>5 DEF HasQp, UdPlace
  <2>3. left \in [CmSide -> 0 .. CmQps]
    BY <1>0 DEF DataTypes
  <2> QED BY <1>a, <1>0, <1>1, <2>0, <2>1, <2>2, <2>3, ClientCrash
<1>2. CASE ~(ud /\ ~HasQp(UdPlace))
  <2>0. /\ left' = [left EXCEPT !["client"] = left["client"] - 1] /\ dleft' = dleft + 1 /\ UNCHANGED cmst
        /\ IF ud THEN /\ rem' = [rem EXCEPT !["client"][UdPlace] = ServerQp(i)]
                      /\ imm' = [imm EXCEPT ![ServerQp(i)] = UdPlace]
                 ELSE UNCHANGED <<rem, imm>>
    BY <1>2 DEF EstablishedHandler
  <2>1. /\ Events' /\ chan' \in [CmSide -> Seq(CmEvent)] /\ ids[i] \in {"up", "closing", "closed"}
        /\ \A t \in CmSide : CmGone(t)' = CmGone(t)
        /\ i \notin Made /\ Made' = Made \cup {i} /\ Ended' = Ended
    BY <1>a, <2>0, ToldEvents DEF Seen
  <2>2. /\ Made \in SUBSET Node /\ Cardinality(Made') = Cardinality(Made) + 1
        /\ Cardinality(Made) < CmQps
    BY <1>0, <2>1, OneMore, PlacesCounted
  <2>3. left' \in [CmSide -> 0 .. CmQps] /\ left'["client"] = left["client"] - 1 /\ left'["server"] = left["server"]
    BY <1>0, <2>0 DEF DataTypes
  <2>4. Counters' /\ dleft' \in 0 .. CmQps
    <3>1. /\ Cardinality(Made) \in Nat /\ Cardinality(Ended) \in Nat
          /\ dleft = Cardinality(Made) - Cardinality(Ended) /\ dleft \in Nat
          /\ left["client"] = CmQps - Cardinality(Made)
      BY <1>0, PlacesCounted
    <3>2. dleft' = dleft + 1 /\ dleft' \in 0 .. CmQps
      BY <1>0, <2>0, <2>2, <3>1
    <3>3. Cardinality(Made)' = Cardinality(Made) + 1 /\ Cardinality(Ended)' = Cardinality(Ended)
      BY <2>1, <2>2
    <3>4. left'["client"] = CmQps - Cardinality(Made)' /\ dleft' = Cardinality(Made)' - Cardinality(Ended)'
      BY <1>0, <2>3, <3>1, <3>2, <3>3
    <3> QED BY <3>2, <3>4 DEF Counters
  <2> DEFINE q == ServerQp(i)
  <2>5. ud => dleft \in Node
    <3>1. ASSUME ud PROVE \E j \in Node : qps["client"][j] = dleft
      BY <1>2, <3>1 DEF HasQp, UdPlace
    <3> QED BY <1>0, <3>1, PlacesCounted DEF DataTypes, Place, NoNode
  <2>6. q \in Node /\ qps["server"][q] = i
    BY <2>1 DEF DataInv, QpsOwned, Taken, ServerQp
  <2> HIDE DEF q
  <2>7. /\ rem' \in [CmSide -> [Node -> Place]] /\ imm' \in [Node -> Place]
        /\ rem'["server"] = rem["server"]
        /\ ud => /\ rem'["client"][dleft] = q /\ imm'[q] = dleft
                 /\ \A j \in Node : j # dleft => rem'["client"][j] = rem["client"][j]
                 /\ \A j \in Node : j # q => imm'[j] = imm[j]
    <3>1. CASE ud
      <4>1. rem' = [rem EXCEPT !["client"][dleft] = q] /\ imm' = [imm EXCEPT ![q] = dleft]
        BY <2>0, <3>1 DEF UdPlace, q
      <4> QED BY <1>0, <2>5, <2>6, <3>1, <4>1 DEF DataTypes, Place
    <3>2. CASE ~ud
      BY <1>0, <2>0, <3>2 DEF DataTypes
    <3> QED BY <3>1, <3>2
  <2>8. DataTypes'
    BY <1>a, <1>0, <2>1, <2>3, <2>4, <2>7 DEF DataTypes
  <2>9. \A t \in CmSide : Used(t)' = Used(t) /\ Taken(t)' = Taken(t)
    BY <1>a, <2>0 DEF Used, Taken
  <2>10. QpsFilled'
    BY <1>a, <2>9, FilledKept DEF DataInv
  <2>11. QpsOwned' /\ RoutesInOrder'
    BY <1>a, <2>1, <2>9 DEF DataInv, QpsOwned, RoutesInOrder
  <2>12. QpsLeft'
    BY <1>a, <1>0, <2>0, <2>1, <2>3 DEF DataInv, QpsLeft
  <2>13. NumbersTold'
    <3>1. CASE ~ud
      BY <1>a, <2>0, <2>1, <3>1 DEF DataInv, NumbersTold
    <3>2. CASE ud
      <4>1. \A j \in Node : rem["client"][j] # q
        BY <2>1, <2>6, NodeSets DEF DataInv, NumbersTold
      <4>2. \A j \in Node : rem'["client"][j] # NoNode => qps["server"][rem'["client"][j]] \in Made'
        BY <2>1, <2>5, <2>6, <2>7, <3>2 DEF DataInv, NumbersTold
      <4>3. \A j, k \in Node : rem'["client"][j] # NoNode /\ rem'["client"][j] = rem'["client"][k] => j = k
        BY <2>5, <2>7, <3>2, <4>1 DEF DataInv, NumbersTold
      <4>4. \A j, k \in Node : rem'["server"][j] # NoNode /\ rem'["server"][j] = rem'["server"][k] => j = k
        BY <2>7 DEF DataInv, NumbersTold
      <4> QED BY <1>a, <4>2, <4>3, <4>4 DEF NumbersTold
    <3> QED BY <3>1, <3>2
  <2>14. UdOnly'
    BY <1>a, <2>0, <2>1 DEF DataInv, UdOnly
  <2>15. NumbersSent'
    <3> SUFFICES ASSUME ~CmGone("server")
                 PROVE  /\ \A j \in Node : imm'[j] # NoNode => qps["server"][j] \in Made' /\ imm'[j] < dleft'
                        /\ \A j, k \in Node : imm'[j] # NoNode /\ imm'[j] = imm'[k] => j = k
                        /\ \A j \in Node : rem'["server"][j] # NoNode => rem'["server"][j] = imm'[j]
      BY <1>a, <2>1 DEF NumbersSent
    <3>1. /\ \A j \in Node : imm[j] # NoNode => qps["server"][j] \in Made /\ imm[j] < dleft /\ imm[j] \in Nat
          /\ \A j, k \in Node : imm[j] # NoNode /\ imm[j] = imm[k] => j = k
          /\ \A j \in Node : rem["server"][j] # NoNode => rem["server"][j] = imm[j]
      BY <1>0 DEF DataInv, NumbersSent, DataTypes, Place, Node
    <3>2. CASE ~ud
      <4>1. \A j \in Node : imm'[j] = NoNode /\ imm[j] = NoNode
        BY <2>0, <3>2 DEF DataInv, UdOnly
      <4> QED BY <2>0, <3>1, <3>2, <4>1
    <3>3. CASE ud
      <4>1. dleft \in Nat /\ dleft \in Node /\ imm[q] = NoNode /\ rem["server"][q] = NoNode
        BY <1>0, <2>1, <2>5, <2>6, <3>1, <3>3, PlacesCounted
      <4>2. \A j \in Node : imm'[j] # NoNode => qps["server"][j] \in Made' /\ imm'[j] < dleft'
        <5> SUFFICES ASSUME NEW j \in Node, imm'[j] # NoNode
                     PROVE  qps["server"][j] \in Made' /\ imm'[j] < dleft'
          OBVIOUS
        <5>1. CASE j = q
          BY <2>0, <2>1, <2>6, <2>7, <3>3, <4>1, <5>1
        <5>2. CASE j # q
          BY <2>0, <2>1, <2>7, <3>1, <3>3, <4>1, <5>2
        <5> QED BY <5>1, <5>2
      <4>3. \A j \in Node : imm[j] # dleft
        BY <3>1, <4>1, NodeSets
      <4>4. \A j, k \in Node : imm'[j] # NoNode /\ imm'[j] = imm'[k] => j = k
        BY <2>7, <3>1, <3>3, <4>3
      <4>5. \A j \in Node : rem'["server"][j] # NoNode => rem'["server"][j] = imm'[j]
        BY <2>7, <3>1, <3>3, <4>1
      <4> QED BY <4>2, <4>4, <4>5
    <3> QED BY <3>2, <3>3
  <2>16. DefinedUnless'
    BY <1>a, <1>0, <2>0, DefinedKept DEF DataInv, CtlTypes
  <2> QED BY <2>1, <2>4, <2>8, <2>10, <2>11, <2>12, <2>13, <2>14, <2>15, <2>16 DEF DataInv
<1> QED BY <1>1, <1>2

LEMMA DisconnectHandlerData == ASSUME CtlTypes, DataInv, NEW i \in Node, DisconnectHandler(i) PROVE DataInv'
<1> USE Sides DEF cmLoop
<1>a. /\ InLoop("client") \/ cmst["client"] = "down"
      /\ Head1("client") = [kind |-> "DISCONNECTED", id |-> i] /\ Rest("client")
      /\ dleft' = dleft - 1
      /\ UNCHANGED <<ud, listening, cmst, ids, cidx, left, qps, conn, rem, imm, ooo, cfaults>>
  BY DEF DisconnectHandler
<1>0. DataTypes /\ cfaults \in Nat /\ CmQps \in Nat /\ ~CmGone("client") /\ cmst["client"] # "crashed"
  BY <1>a, RdmaCmAssumption DEF DataInv, CtlTypes, InLoop, CmGone
<1>1. /\ Events' /\ chan' \in [CmSide -> Seq(CmEvent)] /\ ids[i] = "closed"
      /\ \A t \in CmSide : CmGone(t)' = CmGone(t)
      /\ i \notin Ended /\ Ended' = Ended \cup {i} /\ Made' = Made
  BY <1>a, ToldEvents DEF Seen
<1>2. i \in Made
  <2>1. 1 \in DOMAIN chan["client"] /\ chan["client"][1] = [kind |-> "DISCONNECTED", id |-> i]
    BY <1>a, FirstEvent DEF EventKind
  <2>2. ASSUME NEW j \in DOMAIN chan["client"], chan["client"][j] = [kind |-> "ESTABLISHED", id |-> i]
        PROVE  FALSE
    <3>1. PICK k \in DOMAIN chan["client"] : k > j /\ chan["client"][k] = [kind |-> "DISCONNECTED", id |-> i]
      BY <1>1, <2>2 DEF DataInv, Events
    <3>2. k = 1
      BY <2>1, <3>1 DEF DataInv, Events
    <3>3. j \in Nat \ {0}
      BY <1>0 DEF DataTypes
    <3> QED BY <3>1, <3>2, <3>3
  <2> QED BY <1>1, <2>2 DEF Made, Pends
<1>3. /\ Cardinality(Made) \in Nat /\ Cardinality(Ended) \in Nat
      /\ dleft = Cardinality(Made) - Cardinality(Ended) /\ dleft \in Nat
      /\ left["client"] = CmQps - Cardinality(Made) /\ Made \in SUBSET Node /\ Ended \in SUBSET Node
  BY <1>0, PlacesCounted
<1>4. Cardinality(Ended) < Cardinality(Made)
  <2>1. Ended \in SUBSET Made
    BY EndedMade
  <2> QED BY <1>1, <1>2, <1>3, <2>1, Fewer
<1>5. dleft' \in 0 .. CmQps
  <2>1. dleft \in 0 .. CmQps
    BY <1>0 DEF DataTypes
  <2>2. dleft \in Nat /\ dleft >= 1 /\ dleft <= CmQps /\ dleft' = dleft - 1
    BY <1>a, <1>0, <1>3, <1>4, <2>1
  <2> QED BY <1>0, <2>2
<1>6. Counters'
  <2>1. Cardinality(Ended \cup {i}) = Cardinality(Ended) + 1
    BY <1>1, <1>3, OneMore
  <2>2. Cardinality(Made)' = Cardinality(Made) /\ Cardinality(Ended)' = Cardinality(Ended) + 1
    BY <1>1, <2>1
  <2>3. left'["client"] = CmQps - Cardinality(Made)' /\ dleft' = Cardinality(Made)' - Cardinality(Ended)'
    BY <1>a, <1>3, <2>2
  <2> QED BY <2>3 DEF Counters
<1>7. DataTypes'
  BY <1>a, <1>0, <1>1, <1>5 DEF DataTypes
<1>8. \A t \in CmSide : Used(t)' = Used(t) /\ Taken(t)' = Taken(t)
  BY <1>a DEF Used, Taken
<1>9. QpsFilled'
  BY <1>a, <1>8, FilledKept DEF DataInv
<1>10. QpsOwned' /\ QpsLeft' /\ RoutesInOrder'
  BY <1>a, <1>1, <1>8 DEF DataInv, QpsOwned, QpsLeft, RoutesInOrder
<1>11. NumbersTold'
  BY <1>a, <1>1 DEF DataInv, NumbersTold
<1>12. NumbersSent'
  <2>1. CASE ud
    BY <1>1, <2>1 DEF DataInv, UdOnly, NumbersSent
  <2>2. CASE ~ud
    <3>1. \A j \in Node : imm[j] = NoNode
      BY <2>2 DEF DataInv, UdOnly
    <3> QED BY <1>a, <1>1, <3>1 DEF DataInv, NumbersSent
  <2> QED BY <2>1, <2>2
<1>13. UdOnly' /\ DefinedUnless'
  BY <1>a, <1>0, <1>1 DEF DataInv, UdOnly, DefinedUnless
<1> QED BY <1>1, <1>6, <1>7, <1>9, <1>10, <1>11, <1>12, <1>13 DEF DataInv

LEMMA DisconnectNodesData == ASSUME CtlTypes, DataInv, DisconnectNodes PROVE DataInv'
<1> USE Sides DEF cmLoop
<1>a. /\ cmst["client"] = "over" /\ ~ud /\ cmst' = [cmst EXCEPT !["client"] = "down"]
      /\ ids' = [i \in Node |-> IF Closes(i) THEN "closing" ELSE ids[i]]
      /\ conn' = [conn EXCEPT !["client"] = [i \in Node |-> FALSE]]
      /\ UNCHANGED <<ud, listening, chan, cidx, left, dleft, qps, rem, imm, ooo, cfaults>>
  BY DEF DisconnectNodes, Goes
<1>0. /\ DataTypes /\ cmst \in [CmSide -> CmState]
      /\ \A j \in Node : \/ ids'[j] = ids[j]
                         \/ ids[j] = "up" /\ ids'[j] = "closing"
      /\ ids' \in [Node -> IdState]
  BY <1>a DEF DataInv, CtlTypes, Closes, DataTypes, IdState
<1>1. cmst'["client"] = "down" /\ cmst'["server"] = cmst["server"]
  BY <1>a, <1>0
<1>2. /\ \A t \in CmSide : CmGone(t)' = CmGone(t) /\ Used(t)' = Used(t) /\ Taken(t)' = Taken(t)
      /\ \A j \in Node : \A k \in {"ESTABLISHED", "DISCONNECTED"} :
           Pends("client", k, j)' = Pends("client", k, j)
  BY <1>a, <1>1 DEF CmGone, Used, Taken, Pends
<1>3. DataTypes'
  BY <1>a, <1>0 DEF DataTypes
<1>p. \A t \in CmSide : \A k \in DOMAIN chan[t] : chan[t][k].id \in Node
  BY <1>0, EventTypes
<1>4. Events'
  <2>1. \A k \in DOMAIN chan["client"] : ids'[chan["client"][k].id] \in Seen(chan["client"][k].kind)
    <3> SUFFICES ASSUME NEW k \in DOMAIN chan["client"]
                 PROVE  ids'[chan["client"][k].id] \in Seen(chan["client"][k].kind)
      OBVIOUS
    <3>1. ids[chan["client"][k].id] \in Seen(chan["client"][k].kind)
      BY DEF DataInv, Events
    <3> QED BY <1>0, <1>p, <3>1 DEF Seen
  <2>2. \A k \in DOMAIN chan["server"] :
          /\ chan["server"][k].kind = "CONNECT_REQUEST"
          /\ ~CmGone("server") => ids'[chan["server"][k].id] = "requested"
    BY <1>0, <1>p DEF DataInv, Events
  <2>3. \A j \in Node : ids'[j] = "closed" => ids[j] = "closed"
    BY <1>0
  <2> QED BY <1>a, <1>2, <2>1, <2>2, <2>3 DEF DataInv, Events
<1>5. Made' = Made /\ Ended' = Ended
  <2>1. ASSUME NEW j \in Node PROVE (j \in Made' <=> j \in Made) /\ (j \in Ended' <=> j \in Ended)
    BY <1>0, <1>2 DEF Made, Ended
  <2> QED BY <2>1 DEF Made, Ended
<1>6. Counters'
  BY <1>a, <1>2, <1>5, CountersKept DEF DataInv
<1>7. QpsFilled'
  BY <1>a, <1>2, FilledKept DEF DataInv
<1>8. QpsOwned'
  BY <1>0, <1>2 DEF DataInv, QpsOwned
<1>9. QpsLeft' /\ RoutesInOrder'
  BY <1>a, <1>1, <1>2 DEF DataInv, QpsLeft, RoutesInOrder
<1>10. NumbersTold' /\ NumbersSent' /\ UdOnly'
  BY <1>a, <1>0, <1>2, <1>5, NumbersKept DEF DataInv
<1>11. DefinedUnless'
  BY <1>1 DEF DefinedUnless
<1> QED BY <1>3, <1>4, <1>6, <1>7, <1>8, <1>9, <1>10, <1>11 DEF DataInv

\* Beginning to listen, and leaving the loop with all connections made.
LEMMA LoopKept ==
  ASSUME CtlTypes, DataInv, listening' \in BOOLEAN, cmst' \in [CmSide -> CmState],
         UNCHANGED <<ud, ids, chan, cidx, left, dleft, qps, conn, rem, imm, ooo, cfaults>>,
         \A s \in CmSide : \/ cmst'[s] = cmst[s]
                           \/ cmst[s] = "cm" /\ left[s] = 0 /\ cmst'[s] = "sync2"
  PROVE  DataInv'
<1> USE Sides
<1>0. \A t \in CmSide : CmGone(t)' = CmGone(t) /\ Used(t)' = Used(t) /\ Taken(t)' = Taken(t)
  BY DEF CmGone, Used, Taken
<1>1. DataTypes' /\ Events'
  BY <1>0 DEF DataInv, DataTypes, Events
<1>2. Made' = Made /\ Ended' = Ended
  BY DEF Made, Ended, Pends
<1>3. Counters'
  BY <1>0, <1>2, CountersKept DEF DataInv
<1>4. QpsFilled'
  BY <1>0, FilledKept DEF DataInv
<1>5. QpsOwned'
  BY <1>0 DEF DataInv, QpsOwned
<1>6. QpsLeft' /\ RoutesInOrder'
  BY <1>0 DEF DataInv, QpsLeft, RoutesInOrder
<1>7. NumbersTold' /\ NumbersSent' /\ UdOnly'
  BY <1>0, <1>2, NumbersKept DEF DataInv
<1>8. DefinedUnless'
  BY DEF DataInv, DefinedUnless
<1> QED BY <1>1, <1>3, <1>4, <1>5, <1>6, <1>7, <1>8 DEF DataInv

-----------------------------------------------------------------------------
(* The server.                                                             *)

\* A request: its event is the only one of that connection.
LEMMA Requested ==
  ASSUME DataInv, ~CmGone("server"), NEW i \in Node, NEW to \in {"accepted", "rejected"},
         Head1("server") = [kind |-> "CONNECT_REQUEST", id |-> i], Rest("server"), IdTo(i, to)
  PROVE  /\ Events' /\ chan' \in [CmSide -> Seq(CmEvent)] /\ Made' = Made /\ Ended' = Ended
         /\ ids[i] = "requested" /\ ids' \in [Node -> IdState] /\ ids'[i] = to
         /\ \A j \in Node : j # i => ids'[j] = ids[j]
<1> USE Sides
<1>0. /\ chan["server"] # <<>> /\ chan' = [chan EXCEPT !["server"] = Tail(chan["server"])]
      /\ Head(chan["server"]) = [kind |-> "CONNECT_REQUEST", id |-> i] /\ ids[i] = "requested"
      /\ DataTypes /\ Events
  BY FirstEvent DEF DataInv, EventKind
<1>1. /\ ids' \in [Node -> IdState] /\ ids'[i] = to /\ \A j \in Node : j # i => ids'[j] = ids[j]
  BY <1>0 DEF IdTo, DataTypes, IdState
<1>p. \A t \in CmSide : \A k \in DOMAIN chan[t] :
        /\ chan[t][k].id \in Node
        /\ chan[t][k] = [kind |-> chan[t][k].kind, id |-> chan[t][k].id]
  BY <1>0, EventTypes
<1>2. ASSUME NEW k \in DOMAIN chan'["client"] PROVE ids'[chan'["client"][k].id] = ids[chan'["client"][k].id]
  <2>1. PICK j \in DOMAIN chan["client"] : chan["client"][j] = chan'["client"][k]
    BY <1>0, Rests
  <2>2. ids[chan["client"][j].id] \in Seen(chan["client"][j].kind)
    BY <1>0 DEF Events
  <2>3. chan["client"][j].id # i
    BY <1>0, <2>2 DEF Seen
  <2> QED BY <1>1, <1>p, <2>1, <2>3
<1>3. ASSUME NEW k \in DOMAIN chan'["server"] PROVE ids'[chan'["server"][k].id] = ids[chan'["server"][k].id]
  <2>1. PICK j \in DOMAIN chan["server"] :
           chan["server"][j] = chan'["server"][k] /\ chan["server"][j] # [kind |-> "CONNECT_REQUEST", id |-> i]
    BY <1>0, Rests
  <2>2. chan["server"][j].kind = "CONNECT_REQUEST"
    BY <1>0 DEF Events
  <2>3. chan["server"][j].id # i
    BY <1>p, <2>1, <2>2
  <2> QED BY <1>1, <1>p, <2>1, <2>3
<1>4. \A j \in Node : ids'[j] = "closed" => ids[j] = "closed"
  BY <1>1
<1>5. Events' /\ chan' \in [CmSide -> Seq(CmEvent)]
  BY <1>0, <1>2, <1>3, <1>4, EventsHandled, Handled
<1>6. \A j \in Node : \A k \in {"ESTABLISHED", "DISCONNECTED"} :
        Pends("client", k, j)' <=> Pends("client", k, j)
  <2>1. chan'["client"] = chan["client"]
    BY <1>0, Handled
  <2> QED BY <2>1 DEF Pends
<1>7. Made' = Made /\ Ended' = Ended
  <2>1. ASSUME NEW j \in Node PROVE (j \in Made' <=> j \in Made) /\ (j \in Ended' <=> j \in Ended)
    BY <1>0, <1>1, <1>6 DEF Made, Ended
  <2> QED BY <2>1 DEF Made, Ended
<1> QED BY <1>0, <1>1, <1>5, <1>7

\* What has been told goes by QPs that are there, and one more does not disturb it.
LEMMA NumbersOnward ==
  ASSUME DataTypes, NumbersTold, NumbersSent, UdOnly, Made' = Made, NEW c \in Node,
         qps["server"][c] = NoNode, \A j \in Node : j # c => qps'["server"][j] = qps["server"][j],
         UNCHANGED <<ud, rem, imm, dleft>>, CmGone("server")' = CmGone("server"),
         \A i \in Node : ids'[i] \in {"closing", "closed"} => ids[i] \in {"closing", "closed"}
  PROVE  NumbersTold' /\ NumbersSent' /\ UdOnly'
<1> USE Sides
<1>0. NoNode \notin Made
  BY NodeSets DEF Made
<1>1. NumbersTold'
  <2>1. ASSUME NEW j \in Node, rem["client"][j] # NoNode PROVE qps'["server"][rem["client"][j]] \in Made
    <3>1. rem["client"][j] \in Node /\ qps["server"][rem["client"][j]] \in Made
      BY <2>1 DEF NumbersTold, DataTypes, Place
    <3> QED BY <1>0, <3>1
  <2> QED BY <2>1 DEF NumbersTold
<1>2. NumbersSent'
  BY <1>0 DEF NumbersSent
<1>3. UdOnly'
  BY DEF UdOnly
<1> QED BY <1>1, <1>2, <1>3

\* The next place of the server.
LEMMA NextPlace ==
  ASSUME DataInv, ~CmGone("server"), left["server"] # 0
  PROVE  /\ cidx["server"] \in Node /\ left["server"] = CmQps - cidx["server"]
         /\ cidx["server"] + 1 \in 0 .. CmQps /\ left["server"] - 1 \in 0 .. CmQps
         /\ left["server"] - 1 = CmQps - (cidx["server"] + 1)
<1>1. /\ cidx["server"] \in 0 .. CmQps /\ left["server"] \in 0 .. CmQps
      /\ left["server"] = CmQps - cidx["server"] /\ CmQps \in Nat
  BY Sides, RdmaCmAssumption DEF DataInv, DataTypes, QpsLeft
<1> QED BY <1>1 DEF Node

LEMMA RequestHandlerData == ASSUME CtlTypes, DataInv, NEW i \in Node, RequestHandler(i) PROVE DataInv'
<1> USE Sides DEF cmLoop
<1> DEFINE c == cidx["server"]
<1>a. /\ InLoop("server") /\ Head1("server") = [kind |-> "CONNECT_REQUEST", id |-> i] /\ Rest("server")
      /\ UNCHANGED <<ud, listening, dleft, rem, imm, ooo>>
  BY DEF RequestHandler
<1>0. /\ DataTypes /\ left["server"] \in 1 .. CmQps /\ cmst["server"] = "cm" /\ cfaults \in Nat
      /\ CmQps \in Nat /\ ~CmGone("server") /\ MaxCmFaults \in Nat /\ cmst \in [CmSide -> CmState]
  BY <1>a, Waiting DEF DataInv, CtlTypes
<1>c. c \in Node /\ c \in Nat /\ c + 1 \in 0 .. CmQps /\ left["server"] - 1 \in 0 .. CmQps
      /\ left["server"] - 1 = CmQps - (c + 1) /\ left["server"] = CmQps - c
  BY <1>0, NextPlace DEF Node
<1>1. CASE /\ qps' = [qps EXCEPT !["server"][cidx["server"]] = i]
           /\ IdTo(i, "accepted") /\ UNCHANGED cfaults
           /\ IF ud THEN Goes("server", "spin") /\ UNCHANGED <<conn, cidx, left>>
              ELSE Accepted /\ UNCHANGED cmst
  <2>1. /\ Events' /\ chan' \in [CmSide -> Seq(CmEvent)] /\ Made' = Made /\ Ended' = Ended
        /\ ids[i] = "requested" /\ ids' \in [Node -> IdState] /\ ids'[i] = "accepted"
        /\ \A j \in Node : j # i => ids'[j] = ids[j]
    BY <1>a, <1>0, <1>1, Requested
  <2>2. /\ cmst'["client"] = cmst["client"] /\ cmst'["server"] \in {"cm", "spin"}
        /\ CmGone("client")' = CmGone("client") /\ CmGone("server")' = CmGone("server")
    BY <1>0, <1>1 DEF Goes, CmGone
  <2>3. /\ conn' \in [CmSide -> [Node -> BOOLEAN]] /\ cidx' \in [CmSide -> 0 .. CmQps]
        /\ left' \in [CmSide -> 0 .. CmQps]
        /\ cidx'["client"] = cidx["client"] /\ left'["client"] = left["client"]
        /\ left'["server"] = CmQps - cidx'["server"] /\ (cmst'["server"] = "spin" => left'["server"] # 0)
        /\ Used("server")' = c + 1
    <3>1. CASE ud
      <4>1. cmst'["server"] = "spin" /\ UNCHANGED <<conn, cidx, left>>
        BY <1>0, <1>1, <3>1 DEF Goes
      <4> QED BY <1>0, <1>c, <4>1 DEF DataTypes, Used
    <3>2. CASE ~ud
      <4>1. /\ conn' = [conn EXCEPT !["server"][c] = TRUE] /\ UNCHANGED cmst
            /\ cidx' = [cidx EXCEPT !["server"] = c + 1]
            /\ left' = [left EXCEPT !["server"] = left["server"] - 1]
        BY <1>1, <3>2 DEF Accepted
      <4>2. /\ conn' \in [CmSide -> [Node -> BOOLEAN]]
            /\ cidx' \in [CmSide -> 0 .. CmQps] /\ left' \in [CmSide -> 0 .. CmQps]
        BY <1>0, <1>c, <4>1 DEF DataTypes
      <4>3. /\ cidx'["client"] = cidx["client"] /\ left'["client"] = left["client"]
            /\ cidx'["server"] = c + 1 /\ left'["server"] = left["server"] - 1
        BY <1>0, <4>1 DEF DataTypes
      <4> QED BY <1>0, <1>c, <4>1, <4>2, <4>3 DEF Used
    <3> QED BY <3>1, <3>2
  <2>4. /\ Used("server") = c /\ Cardinality(Taken("server")) = c
        /\ i \notin Taken("server") /\ Taken("server") \in SUBSET Node
        /\ qps["server"][c] = NoNode
    <3>1. Used("server") = c
      BY <1>0, <1>c DEF Used
    <3>2. Cardinality(Taken("server")) = c /\ qps["server"][c] = NoNode
      BY <1>c, <3>1 DEF DataInv, QpsFilled
    <3>3. i \notin Taken("server") /\ Taken("server") \in SUBSET Node
      BY <1>0, <2>1 DEF DataInv, QpsOwned, Taken
    <3> QED BY <3>1, <3>2, <3>3
  <2>5. Cardinality(Taken("server") \cup {i}) = c + 1
    BY <2>4, OneMore
  <2>6. /\ qps' \in [CmSide -> [Node -> Place]] /\ qps'["client"] = qps["client"]
        /\ qps'["server"][c] = i /\ \A j \in Node : j # c => qps'["server"][j] = qps["server"][j]
    BY <1>0, <1>1, <1>c DEF DataTypes, Place
  <2>7. Taken("server")' = Taken("server") \cup {i} /\ Taken("client")' = Taken("client")
    BY <1>c, <2>4, <2>6, NodeSets DEF Taken
  <2>8. Used("client")' = Used("client")
    BY <2>2, <2>3 DEF Used
  <2>9. DataTypes'
    BY <1>a, <1>0, <2>1, <2>3, <2>6 DEF DataTypes
  <2>10. Counters'
    BY <1>a, <2>1, <2>2, <2>3, CountersKept DEF DataInv
  <2>11. QpsFilled'
    <3>1. \A j \in Node : qps'["server"][j] # NoNode <=> j < c + 1
      <4> SUFFICES ASSUME NEW j \in Node PROVE qps'["server"][j] # NoNode <=> j < c + 1
        OBVIOUS
      <4>1. CASE j = c
        BY <1>c, <2>6, <4>1, NodeSets
      <4>2. CASE j # c
        <5>1. qps["server"][j] # NoNode <=> j < c
          BY <2>4 DEF DataInv, QpsFilled
        <5> QED BY <1>c, <2>6, <4>2, <5>1 DEF Node
      <4> QED BY <4>1, <4>2
    <3>2. \A j \in Node : qps'["client"][j] # NoNode <=> j < Used("client")'
      BY <2>6, <2>8 DEF DataInv, QpsFilled
    <3>3. /\ Cardinality(Taken("server"))' = Used("server")'
          /\ Cardinality(Taken("client"))' = Used("client")'
      BY <2>3, <2>5, <2>7, <2>8 DEF DataInv, QpsFilled
    <3> QED BY <2>3, <3>1, <3>2, <3>3 DEF QpsFilled
  <2>12. QpsOwned'
    BY <1>0, <2>1, <2>2, <2>7 DEF DataInv, QpsOwned
  <2>13. QpsLeft'
    BY <2>2, <2>3 DEF DataInv, QpsLeft
  <2>14. RoutesInOrder'
    BY <1>a, <2>6 DEF DataInv, RoutesInOrder
  <2>15. NumbersTold' /\ NumbersSent' /\ UdOnly'
    <3>1. \A j \in Node : ids'[j] \in {"closing", "closed"} => ids[j] \in {"closing", "closed"}
      BY <2>1
    <3> QED BY <1>a, <1>0, <1>c, <2>1, <2>2, <2>4, <2>6, <3>1, NumbersOnward DEF DataInv
  <2>16. DefinedUnless'
    <3>1. \A j \in Node : ids[j] = "error" => ids'[j] = "error"
      BY <2>1
    <3> QED BY <1>a, <1>0, <1>1, <2>2, <3>1, DefinedKept DEF DataInv
  <2> QED BY <2>1, <2>9, <2>10, <2>11, <2>12, <2>13, <2>14, <2>15, <2>16 DEF DataInv
<1>2. CASE /\ CmFault /\ Goes("server", IF cidx["server"] = 0 THEN "crashed" ELSE "failed")
           /\ IdTo(i, "rejected")
           /\ left' = [left EXCEPT !["server"] = @ - 1]
           /\ UNCHANGED <<qps, conn, cidx>>
  <2>1. /\ Events' /\ chan' \in [CmSide -> Seq(CmEvent)] /\ Made' = Made /\ Ended' = Ended
        /\ ids[i] = "requested" /\ ids' \in [Node -> IdState] /\ ids'[i] = "rejected"
        /\ \A j \in Node : j # i => ids'[j] = ids[j]
    BY <1>a, <1>0, <1>2, Requested
  <2>2. /\ cmst'["client"] = cmst["client"] /\ cmst'["server"] \in {"crashed", "failed"}
        /\ CmGone("client")' = CmGone("client") /\ CmGone("server")'
    BY <1>0, <1>2 DEF Goes, CmGone
  <2>3. /\ left' \in [CmSide -> 0 .. CmQps] /\ left'["client"] = left["client"]
    BY <1>0, <1>2, <1>c DEF DataTypes
  <2>4. cfaults' \in Nat /\ cfaults' >= cfaults
    BY <1>0, <1>2 DEF CmFault
  <2>5. \A t \in CmSide : Used(t)' = Used(t) /\ Taken(t)' = Taken(t)
    BY <1>0, <1>2, <2>2 DEF Used, Taken
  <2>6. DataTypes'
    BY <1>a, <1>0, <1>2, <2>1, <2>3 DEF DataTypes
  <2>7. Counters'
    BY <1>a, <2>1, <2>2, <2>3, CountersKept DEF DataInv
  <2>8. QpsFilled'
    BY <1>2, <2>5, FilledKept DEF DataInv
  <2>9. QpsOwned'
    BY <2>1, <2>2, <2>5 DEF DataInv, QpsOwned
  <2>10. QpsLeft' /\ RoutesInOrder'
    BY <1>a, <1>2, <2>2, <2>3 DEF DataInv, QpsLeft, RoutesInOrder
  <2>11. NumbersTold' /\ NumbersSent' /\ UdOnly'
    <3>1. Made \subseteq Made'
      BY <2>1
    <3> QED BY <1>a, <1>0, <1>2, <2>2, <3>1, NumbersKept DEF DataInv
  <2>12. DefinedUnless'
    <3>1. \A j \in Node : ids[j] = "error" => ids'[j] = "error"
      BY <2>1
    <3> QED BY <1>a, <1>0, <2>2, <2>4, <3>1, DefinedKept DEF DataInv
  <2> QED BY <2>1, <2>6, <2>7, <2>8, <2>9, <2>10, <2>11, <2>12 DEF DataInv
<1> QED BY <1>1, <1>2 DEF RequestHandler

LEMMA UdNumberData == ASSUME CtlTypes, DataInv, UdNumberComes PROVE DataInv'
<1> USE Sides DEF cmLoop
<1> DEFINE c == cidx["server"]
<1>a. /\ cmst["server"] = "spin" /\ imm[c] # NoNode
      /\ rem' = [rem EXCEPT !["server"][c] = imm[c]]
      /\ conn' = [conn EXCEPT !["server"][c] = TRUE]
      /\ cidx' = [cidx EXCEPT !["server"] = c + 1]
      /\ left' = [left EXCEPT !["server"] = left["server"] - 1]
      /\ cmst' = [cmst EXCEPT !["server"] = "cm"]
      /\ UNCHANGED <<ud, listening, ids, chan, dleft, qps, imm, ooo, cfaults>>
  BY DEF UdNumberComes, Accepted, Goes
<1>0. /\ DataTypes /\ cmst \in [CmSide -> CmState] /\ ~CmGone("server") /\ left["server"] # 0
  BY <1>a DEF DataInv, CtlTypes, CmGone, QpsLeft
<1>c. c \in Node /\ c \in Nat /\ c + 1 \in 0 .. CmQps /\ left["server"] - 1 \in 0 .. CmQps
      /\ left["server"] - 1 = CmQps - (c + 1)
  BY <1>0, NextPlace DEF Node
<1>1. /\ cmst'["server"] = "cm" /\ cmst'["client"] = cmst["client"]
      /\ \A t \in CmSide : CmGone(t)' = CmGone(t) /\ Taken(t)' = Taken(t)
  BY <1>a, <1>0 DEF CmGone, Taken
<1>2. /\ cidx' \in [CmSide -> 0 .. CmQps] /\ left' \in [CmSide -> 0 .. CmQps]
      /\ conn' \in [CmSide -> [Node -> BOOLEAN]] /\ rem' \in [CmSide -> [Node -> Place]]
  BY <1>a, <1>0, <1>c DEF DataTypes
<1>3. /\ cidx'["server"] = c + 1 /\ cidx'["client"] = cidx["client"]
      /\ left'["server"] = left["server"] - 1 /\ left'["client"] = left["client"]
      /\ rem'["client"] = rem["client"] /\ rem'["server"][c] = imm[c]
      /\ \A j \in Node : j # c => rem'["server"][j] = rem["server"][j]
  BY <1>a, <1>0, <1>c DEF DataTypes
<1>4. \A t \in CmSide : Used(t)' = Used(t)
  BY <1>a, <1>0, <1>c, <1>1, <1>3 DEF Used, DataTypes
<1>5. DataTypes' /\ Events'
  <2>1. DataTypes'
    BY <1>a, <1>0, <1>2 DEF DataTypes
  <2>2. Events'
    BY <1>a, <1>1 DEF DataInv, Events
  <2> QED BY <2>1, <2>2
<1>6. Made' = Made /\ Ended' = Ended
  BY <1>a DEF Made, Ended, Pends
<1>7. Counters'
  BY <1>a, <1>1, <1>3, <1>6, CountersKept DEF DataInv
<1>8. QpsFilled'
  BY <1>a, <1>4, FilledKept DEF DataInv
<1>9. QpsOwned'
  BY <1>a, <1>1 DEF DataInv, QpsOwned
<1>10. QpsLeft' /\ RoutesInOrder'
  BY <1>a, <1>c, <1>1, <1>3 DEF DataInv, QpsLeft, RoutesInOrder
<1>11. \A j \in Node : rem'["server"][j] # NoNode => rem'["server"][j] = imm[j]
  BY <1>0, <1>3 DEF DataInv, NumbersSent
<1>12. NumbersSent'
  BY <1>a, <1>0, <1>6, <1>11 DEF DataInv, NumbersSent
<1>13. NumbersTold'
  <2>1. \A j, k \in Node : imm[j] # NoNode /\ imm[j] = imm[k] => j = k
    BY <1>0 DEF DataInv, NumbersSent
  <2>2. \A j, k \in Node : rem'["server"][j] # NoNode /\ rem'["server"][j] = rem'["server"][k] => j = k
    BY <1>11, <2>1
  <2>3. \A j, k \in Node : rem'["client"][j] # NoNode /\ rem'["client"][j] = rem'["client"][k] => j = k
    BY <1>3 DEF DataInv, NumbersTold
  <2>4. \A j \in Node : rem'["client"][j] # NoNode => qps'["server"][rem'["client"][j]] \in Made'
    BY <1>a, <1>3, <1>6 DEF DataInv, NumbersTold
  <2> QED BY <2>2, <2>3, <2>4 DEF NumbersTold
<1>14. UdOnly' /\ DefinedUnless'
  BY <1>a, <1>1 DEF DataInv, UdOnly, DefinedUnless
<1> QED BY <1>5, <1>7, <1>8, <1>9, <1>10, <1>12, <1>13, <1>14 DEF DataInv

-----------------------------------------------------------------------------
(* Every step.                                                             *)

LEMMA NetworkStep == ASSUME CmInv, CmNetwork PROVE CmInv'
<1> USE Sides DEF CmInv
<1>0. CtlTypes /\ DataInv /\ cfaults \in Nat /\ cmst \in [CmSide -> CmState] /\ MaxCmFaults \in Nat
      /\ "client" \in CmSide /\ "server" \in CmSide
  BY RdmaCmAssumption DEF CtlInv, CtlTypes
<1>1. ASSUME NEW s \in CmSide, Arrive(s) PROVE CmInv'
  <2>1. CtlInv'
    BY <1>1, ArriveCtl
  <2>2. UNCHANGED <<ud, cmst, cmData, cfaults>>
    BY <1>1 DEF Arrive
  <2> QED BY <1>0, <2>1, <2>2, DataKept
<1>2. ASSUME NEW i \in Node, NEW s \in CmSide, NEW kind \in EventKind, NEW to \in IdState,
             Comes(i, s, kind, to), IdTo(i, to), Event(s, kind, i), UNCHANGED <<cmKept, cmst>>,
             cfaults' \in Nat, cfaults' >= cfaults
      PROVE  CmInv'
  <2>1. DataInv'
    BY <1>0, <1>2, EventComes
  <2>2. UNCHANGED <<ud, hs, cmCtl>>
    BY <1>2 DEF cmKept
  <2> QED BY <1>0, <1>2, <2>1, <2>2, CtlKept
<1> USE DEF EventKind, IdState
<1>3. ASSUME NEW i \in Node, Resolved(i) PROVE CmInv'
  <2>0. /\ ids[i] \in {"addr", "route"} /\ UNCHANGED <<cmKept, cmst>>
        /\ \/ /\ IdTo(i, IF ids[i] = "addr" THEN "addrOk" ELSE "routeOk")
              /\ Event("client", IF ids[i] = "addr" THEN "ADDR_RESOLVED" ELSE "ROUTE_RESOLVED", i)
              /\ UNCHANGED cfaults
           \/ CmFault /\ IdTo(i, "error") /\ Event("client", "ERROR", i)
    BY <1>3 DEF Resolved
  <2>1. CASE CmFault /\ IdTo(i, "error") /\ Event("client", "ERROR", i)
    <3>1. cfaults' \in Nat /\ cfaults' >= cfaults
      BY <1>0, <2>1 DEF CmFault
    <3>2. Comes(i, "client", "ERROR", "error")
      BY <2>0 DEF Comes
    <3> QED BY <1>0, <1>2, <2>0, <2>1, <3>1, <3>2
  <2>2. CASE ids[i] = "addr" /\ IdTo(i, "addrOk") /\ Event("client", "ADDR_RESOLVED", i) /\ UNCHANGED cfaults
    <3>1. Comes(i, "client", "ADDR_RESOLVED", "addrOk")
      BY <2>2 DEF Comes
    <3> QED BY <1>0, <1>2, <2>0, <2>2, <3>1
  <2>3. CASE ids[i] = "route" /\ IdTo(i, "routeOk") /\ Event("client", "ROUTE_RESOLVED", i) /\ UNCHANGED cfaults
    <3>1. Comes(i, "client", "ROUTE_RESOLVED", "routeOk")
      BY <2>3 DEF Comes
    <3> QED BY <1>0, <1>2, <2>0, <2>3, <3>1
  <2> QED BY <2>0, <2>1, <2>2, <2>3
<1>4. ASSUME NEW i \in Node, RequestComes(i) PROVE CmInv'
  <2>0. /\ ids[i] = "asked" /\ UNCHANGED <<cmKept, cmst>> /\ cfaults' \in Nat /\ cfaults' >= cfaults
        /\ \/ ~CmGone("server") /\ IdTo(i, "requested") /\ Event("server", "CONNECT_REQUEST", i)
           \/ IdTo(i, "error") /\ Event("client", "REJECTED", i)
    BY <1>0, <1>4 DEF RequestComes
  <2>1. CASE ~CmGone("server") /\ IdTo(i, "requested") /\ Event("server", "CONNECT_REQUEST", i)
    <3>1. Comes(i, "server", "CONNECT_REQUEST", "requested")
      BY <2>0, <2>1 DEF Comes
    <3> QED BY <1>0, <1>2, <2>0, <2>1, <3>1
  <2>2. CASE IdTo(i, "error") /\ Event("client", "REJECTED", i)
    <3>1. Comes(i, "client", "REJECTED", "error")
      BY <2>0 DEF Comes
    <3> QED BY <1>0, <1>2, <2>0, <2>2, <3>1
  <2> QED BY <2>0, <2>1, <2>2
<1>5. ASSUME NEW i \in Node, EstablishedComes(i) PROVE CmInv'
  <2>0. /\ ids[i] \in {"accepted", "requested", "rejected"} /\ UNCHANGED <<cmKept, cmst>>
        /\ cfaults' \in Nat /\ cfaults' >= cfaults
        /\ \/ ids[i] = "accepted" /\ IdTo(i, "up") /\ Event("client", "ESTABLISHED", i)
           \/ /\ ids[i] = "rejected" \/ CmGone("server")
              /\ IdTo(i, "error") /\ Event("client", "REJECTED", i)
    BY <1>0, <1>5 DEF EstablishedComes
  <2>1. CASE ids[i] = "accepted" /\ IdTo(i, "up") /\ Event("client", "ESTABLISHED", i)
    <3>1. Comes(i, "client", "ESTABLISHED", "up")
      BY <2>1 DEF Comes
    <3> QED BY <1>0, <1>2, <2>0, <2>1, <3>1
  <2>2. CASE /\ ids[i] = "rejected" \/ CmGone("server")
             /\ IdTo(i, "error") /\ Event("client", "REJECTED", i)
    <3>1. Comes(i, "client", "REJECTED", "error")
      BY <2>0, <2>2 DEF Comes
    <3> QED BY <1>0, <1>2, <2>0, <2>2, <3>1
  <2> QED BY <2>0, <2>1, <2>2
<1>6. ASSUME NEW i \in Node, DisconnectComes(i) PROVE CmInv'
  <2>0. /\ \/ ids[i] = "up" /\ CmGone("server")
           \/ ids[i] = "closing"
        /\ UNCHANGED <<cmKept, cmst>> /\ cfaults' \in Nat /\ cfaults' >= cfaults
        /\ IdTo(i, "closed") /\ Event("client", "DISCONNECTED", i)
    BY <1>0, <1>6 DEF DisconnectComes
  <2>1. Comes(i, "client", "DISCONNECTED", "closed")
    BY <2>0 DEF Comes
  <2> QED BY <1>0, <1>2, <2>0, <2>1
<1> QED BY <1>1, <1>3, <1>4, <1>5, <1>6 DEF CmNetwork

\* The steps of the control connection and of the handshakes.
LEMMA ControlStep ==
  ASSUME CmInv, NEW s \in CmSide,
         \/ ServerListens \/ ServerAccepts \/ ClientResolves \/ ClientAsks \/ ClientUp
         \/ CtlFails(s) \/ PutKeys(s) \/ KeysSent(s) \/ TakeKeys(s) \/ PostRecv(s)
  PROVE  CmInv'
<1> USE Sides DEF CmInv
<1>0. /\ CtlTypes /\ DataInv /\ cfaults \in Nat /\ cmst \in [CmSide -> CmState] /\ MaxCmFaults \in Nat
      /\ CtlInv
  BY RdmaCmAssumption DEF CtlInv, CtlTypes
<1>1. CASE ServerListens \/ ServerAccepts \/ ClientResolves \/ ClientAsks \/ ClientUp
  <2>1. CtlInv'
    BY <1>1, CtlConnects
  <2>2. /\ UNCHANGED <<ud, cmData>> /\ cfaults' \in Nat /\ cfaults' >= cfaults
        /\ \A t \in CmSide : \/ cmst'[t] = cmst[t]
                             \/ cmst[t] \in {"ctl", "sync1"} /\ cmst'[t] \in {"sync1", "cm"}
                             \/ cmst[t] \in {"ctl", "sync1", "sync2", "over"} /\ cmst'[t] = "failed"
    BY <1>0, <1>1 DEF ServerListens, ServerAccepts, ClientResolves, ClientAsks, ClientUp, Goes, CmFault
  <2>3. cmst' \in [CmSide -> CmState]
    BY <2>1 DEF CtlInv, CtlTypes
  <2> QED BY <1>0, <2>1, <2>2, <2>3, DataKept
<1>2. CASE CtlFails(s)
  <2>1. /\ UNCHANGED <<ud, hs, cmCtl, cmData>> /\ cfaults' \in Nat /\ cfaults' >= cfaults
        /\ cmst[s] = "ctl" /\ cmst' = [cmst EXCEPT ![s] = "failed"]
    BY <1>0, <1>2 DEF CtlFails, CmFault, Goes
  <2>2. /\ cmst' \in [CmSide -> CmState]
        /\ \A t \in CmSide : \/ cmst'[t] = cmst[t]
                             \/ cmst[t] = "ctl" /\ cmst'[t] = "failed"
    BY <1>0, <2>1 DEF CmState
  <2>3. CtlInv'
    BY <1>0, <2>1, <2>2, CtlKept
  <2>4. DataInv'
    BY <1>0, <2>1, <2>2, DataKept
  <2> QED BY <2>3, <2>4
<1>3. CASE PutKeys(s) \/ KeysSent(s) \/ TakeKeys(s) \/ PostRecv(s)
  <2>1. CtlInv'
    BY <1>0, <1>3, PutKeysCtl, KeysSentCtl, TakeKeysCtl, PostRecvCtl
  <2>2. /\ Shaking(s) /\ UNCHANGED <<ud, cmData, cfaults>>
        /\ (Onward(s) \/ Goes(s, "failed"))
    BY <1>3 DEF PutKeys, KeysSent, TakeKeys, PostRecv, Do
  <2>3. /\ cmst[s] \in {"sync1", "sync2", "over"}
        /\ cmst' = cmst \/ cmst' = [cmst EXCEPT ![s] = After(s)] \/ cmst' = [cmst EXCEPT ![s] = "failed"]
    <3>1. cmst[s] \in {"sync1", "sync2", "over"}
      BY <2>2 DEF Shaking
    <3> QED BY <2>2, <3>1 DEF Onward, Goes
  <2>4. \A t \in CmSide : \/ cmst'[t] = cmst[t]
                          \/ cmst[t] \in {"ctl", "sync1"} /\ cmst'[t] \in {"sync1", "cm"}
                          \/ cmst[t] = "sync2" /\ cmst'[t] = "over"
                          \/ cmst[t] \in {"ctl", "sync1", "sync2", "over"} /\ cmst'[t] = "failed"
    BY <1>0, <2>3 DEF After
  <2>5. cmst' \in [CmSide -> CmState] /\ cfaults' \in Nat /\ cfaults' >= cfaults
    BY <1>0, <2>1, <2>2 DEF CtlInv, CtlTypes
  <2> QED BY <1>0, <2>1, <2>2, <2>4, <2>5, DataKept
<1> QED BY <1>1, <1>2, <1>3

\* The steps of the two loops.
LEMMA LoopStep ==
  ASSUME CmInv, NEW s \in CmSide,
         \/ ListenAll \/ UdNumberComes \/ ResolveAll \/ DisconnectNodes \/ AllMade(s)
         \/ \E i \in Node : \/ RequestHandler(i) \/ AddressHandler(i) \/ RouteHandler(i)
                            \/ EstablishedHandler(i) \/ ErrorHandler(i) \/ DisconnectHandler(i)
  PROVE  CmInv'
<1> USE Sides DEF CmInv
<1>0. /\ CtlTypes /\ DataInv /\ cfaults \in Nat /\ cmst \in [CmSide -> CmState] /\ MaxCmFaults \in Nat
      /\ CtlInv /\ listening \in BOOLEAN
  BY RdmaCmAssumption DEF CtlInv, CtlTypes, DataInv, DataTypes
<1> DEFINE Moves ==
      \A t \in CmSide :
        \/ cmst'[t] = cmst[t]
        \/ /\ cmst[t] \in {"cm", "spin"} /\ cmst'[t] \in {"cm", "spin", "sync2", "failed", "crashed"}
           /\ cmst'[t] = "spin" => t = "server"
        \/ cmst[t] = "ctl" /\ cmst'[t] = "failed"
        \/ t = "client" /\ cmst[t] = "over" /\ cmst'[t] = "down"
<1>c. ASSUME UNCHANGED <<ud, hs, cmCtl>>, cfaults' \in Nat, cmst' \in [CmSide -> CmState], Moves
      PROVE  CtlInv'
  BY <1>0, <1>c, CtlKept
<1>1. CASE ListenAll
  <2>1. /\ UNCHANGED <<ud, hs, cmCtl, cmst, ids, chan, cidx, left, dleft, qps, conn, rem, imm, ooo, cfaults>>
        /\ listening' \in BOOLEAN
    BY <1>1 DEF ListenAll
  <2> QED BY <1>0, <1>c, <2>1, LoopKept
<1>2. CASE AllMade(s)
  <2>1. /\ UNCHANGED <<ud, hs, cmCtl, ids, chan, cidx, left, dleft, qps, conn, rem, imm, ooo, cfaults>>
        /\ listening' \in BOOLEAN /\ cmst[s] = "cm" /\ left[s] = 0 /\ cmst' = [cmst EXCEPT ![s] = "sync2"]
    BY <1>0, <1>2 DEF AllMade, Goes
  <2>2. cmst' \in [CmSide -> CmState] /\ \A t \in CmSide : \/ cmst'[t] = cmst[t]
                                                           \/ cmst[t] = "cm" /\ left[t] = 0 /\ cmst'[t] = "sync2"
    BY <1>0, <2>1 DEF CmState
  <2>3. DataInv'
    BY <1>0, <2>1, <2>2, LoopKept
  <2>4. Moves
    BY <2>2
  <2> QED BY <1>0, <1>c, <2>1, <2>2, <2>3, <2>4
<1>3. CASE UdNumberComes
  <2>1. DataInv'
    BY <1>0, <1>3, UdNumberData
  <2>2. /\ UNCHANGED <<ud, hs, cmCtl, cfaults>> /\ cmst["server"] = "spin"
        /\ cmst' = [cmst EXCEPT !["server"] = "cm"]
    BY <1>3 DEF UdNumberComes, Goes, cmLoop
  <2>3. cmst' \in [CmSide -> CmState] /\ Moves
    BY <1>0, <2>2 DEF CmState
  <2> QED BY <1>0, <1>c, <2>1, <2>2, <2>3
<1>4. CASE ResolveAll
  <2>1. DataInv'
    BY <1>0, <1>4, ResolveAllData
  <2>2. UNCHANGED <<ud, hs, cmCtl, cmst, cfaults>>
    BY <1>4 DEF ResolveAll, cmLoop
  <2> QED BY <1>0, <1>c, <2>1, <2>2
<1>5. CASE DisconnectNodes
  <2>1. DataInv'
    BY <1>0, <1>5, DisconnectNodesData
  <2>2. /\ UNCHANGED <<ud, hs, cmCtl, cfaults>> /\ cmst["client"] = "over"
        /\ cmst' = [cmst EXCEPT !["client"] = "down"]
    BY <1>5 DEF DisconnectNodes, Goes, cmLoop
  <2>3. cmst' \in [CmSide -> CmState] /\ Moves
    BY <1>0, <2>2 DEF CmState
  <2> QED BY <1>0, <1>c, <2>1, <2>2, <2>3
<1>6. ASSUME NEW i \in Node,
             \/ RequestHandler(i) \/ AddressHandler(i) \/ RouteHandler(i)
             \/ EstablishedHandler(i) \/ ErrorHandler(i) \/ DisconnectHandler(i)
      PROVE  CmInv'
  <2>1. DataInv'
    BY <1>0, <1>6, RequestHandlerData, AddressHandlerData, RouteHandlerData, EstablishedHandlerData,
       ErrorHandlerData, DisconnectHandlerData
  <2>2. /\ UNCHANGED <<ud, hs, cmCtl>> /\ cfaults' \in Nat
    BY <1>0, <1>6 DEF RequestHandler, AddressHandler, RouteHandler, EstablishedHandler, ErrorHandler,
                      DisconnectHandler, cmLoop, CmFault
  <2>3. \/ cmst' = cmst
        \/ cmst["client"] = "cm" /\ cmst' = [cmst EXCEPT !["client"] = "crashed"]
        \/ cmst["server"] = "cm" /\ \E to \in {"spin", "failed", "crashed"} : cmst' = [cmst EXCEPT !["server"] = to]
    BY <1>6 DEF RequestHandler, AddressHandler, RouteHandler, EstablishedHandler, ErrorHandler,
                DisconnectHandler, InLoop, Retry, Goes
  <2>4. cmst' \in [CmSide -> CmState] /\ Moves
    BY <1>0, <2>3 DEF CmState
  <2> QED BY <1>c, <2>1, <2>2, <2>4
<1> QED BY <1>1, <1>2, <1>3, <1>4, <1>5, <1>6

LEMMA CmStep == CmInv /\ [RdmaCmNext]_rdmaCmVars => CmInv'
<1> SUFFICES ASSUME CmInv, [RdmaCmNext]_rdmaCmVars PROVE CmInv'
  OBVIOUS
<1>1. CASE CmNetwork
  BY <1>1, NetworkStep
<1>2. ASSUME NEW s \in CmSide, CmProcess(s) PROVE CmInv'
  <2>1. \/ ServerListens \/ ServerAccepts \/ ClientResolves \/ ClientAsks \/ ClientUp
        \/ CtlFails(s) \/ PutKeys(s) \/ KeysSent(s) \/ TakeKeys(s) \/ PostRecv(s)
        \/ ListenAll \/ UdNumberComes \/ ResolveAll \/ DisconnectNodes \/ AllMade(s)
        \/ \E i \in Node : \/ RequestHandler(i) \/ AddressHandler(i) \/ RouteHandler(i)
                           \/ EstablishedHandler(i) \/ ErrorHandler(i) \/ DisconnectHandler(i)
    BY <1>2 DEF CmProcess
  <2> QED BY <2>1, ControlStep, LoopStep
<1>3. CASE UNCHANGED rdmaCmVars
  <2>1. UNCHANGED <<ud, hs, cmCtl, cmst, cmData, cfaults>> /\ CtlTypes
    BY <1>3 DEF rdmaCmVars, CmInv, CtlInv
  <2>2. cfaults' \in Nat /\ cfaults' >= cfaults /\ cmst' \in [CmSide -> CmState]
    BY <2>1 DEF CtlTypes
  <2>3. CtlInv'
    BY <2>1, <2>2, CtlKept DEF CmInv
  <2>4. DataInv'
    BY <2>1, <2>2, DataKept DEF CmInv
  <2> QED BY <2>3, <2>4 DEF CmInv
<1> QED BY <1>1, <1>2, <1>3 DEF RdmaCmNext

-----------------------------------------------------------------------------
(* What the invariant says of a side.                                      *)

\* The established connections: those the client knows of, and those it is yet to hear of.
LEMMA EstablishedCounted ==
  ASSUME DataInv, ~CmGone("client")
  PROVE  left["client"] = CmQps - Cardinality({i \in Node : ids[i] \in {"up", "closing", "closed"}})
             + Cardinality({e \in DOMAIN chan["client"] : chan["client"][e].kind = "ESTABLISHED"})
<1> DEFINE U == {i \in Node : ids[i] \in {"up", "closing", "closed"}}
           P == {i \in Node : Pends("client", "ESTABLISHED", i)}
           E == {e \in DOMAIN chan["client"] : chan["client"][e].kind = "ESTABLISHED"}
<1> USE Sides
<1>1. P \subseteq U /\ U = Made \cup P /\ Made \cap P = {}
  <2>1. ASSUME NEW i \in P PROVE i \in U
    <3>1. PICK k \in DOMAIN chan["client"] : chan["client"][k] = [kind |-> "ESTABLISHED", id |-> i]
      BY DEF Pends
    <3>2. ids[chan["client"][k].id] \in Seen(chan["client"][k].kind)
      BY DEF DataInv, Events
    <3> QED BY <3>1, <3>2 DEF Seen
  <2> QED BY <2>1 DEF Made
<1>2. /\ IsFiniteSet(P) /\ IsFiniteSet(Made) /\ Cardinality(P) \in Nat /\ Cardinality(Made) \in Nat
      /\ Cardinality(U) \in Nat
  <2>1. P \in SUBSET Node /\ Made \in SUBSET Node /\ U \in SUBSET Node
    BY DEF Made
  <2> QED BY <2>1, NodeSets
<1>3. Cardinality(U) = Cardinality(Made) + Cardinality(P)
  <2>1. Cardinality(Made \cup P) = Cardinality(Made) + Cardinality(P) - Cardinality(Made \cap P)
    BY <1>2, FS_Union
  <2>2. Cardinality(Made \cap P) = 0
    BY <1>1, FS_EmptySet
  <2>3. Cardinality(U) = Cardinality(Made \cup P)
    <3> HIDE DEF U, P
    <3> QED BY <1>1
  <2> HIDE DEF U, P
  <2> QED BY <1>2, <2>1, <2>2, <2>3
<1>4. Cardinality(P) = Cardinality(E)
  <2> DEFINE f == [e \in E |-> chan["client"][e].id]
  <2>1. chan["client"] \in Seq(CmEvent) /\ DOMAIN chan["client"] = 1 .. Len(chan["client"])
        /\ Len(chan["client"]) \in Nat
    BY DEF DataInv, DataTypes
  <2>2. IsFiniteSet(E)
    <3>1. IsFiniteSet(1 .. Len(chan["client"])) /\ E \subseteq 1 .. Len(chan["client"])
      BY <2>1, FS_Interval
    <3> QED BY <3>1, FS_Subset
  <2>3. \A e \in E : /\ chan["client"][e] = [kind |-> "ESTABLISHED", id |-> f[e]]
                     /\ f[e] \in Node /\ f[e] \in P
    <3> SUFFICES ASSUME NEW e \in E
                 PROVE  /\ chan["client"][e] = [kind |-> "ESTABLISHED", id |-> f[e]]
                        /\ f[e] \in Node /\ f[e] \in P
      OBVIOUS
    <3>1. chan["client"][e] = [kind |-> "ESTABLISHED", id |-> f[e]] /\ f[e] \in Node
      BY EventTypes DEF DataInv
    <3> QED BY <3>1 DEF Pends
  <2>4. \A e, d \in E : f[e] = f[d] => e = d
    <3>1. \A e, d \in DOMAIN chan["client"] : chan["client"][e] = chan["client"][d] => e = d
      BY DEF DataInv, Events
    <3>2. ASSUME NEW e \in E, NEW d \in E, f[e] = f[d] PROVE e = d
      <4>1. chan["client"][e] = chan["client"][d]
        BY <2>3, <3>2
      <4> QED BY <3>1, <4>1
    <3> QED BY <3>2
  <2>5. \A i \in P : \E e \in E : f[e] = i
    BY DEF Pends
  <2>6. f \in Bijection(E, P)
    BY <2>3, <2>4, <2>5 DEF Bijection, Injection, Surjection, IsInjective
  <2>7. ExistsBijection(E, P)
    BY <2>6 DEF ExistsBijection
  <2> QED BY <2>2, <2>7, FS_Bijection
<1> HIDE DEF U, P, E
<1>5. left["client"] = CmQps - Cardinality(Made) /\ CmQps \in Nat
  BY RdmaCmAssumption DEF DataInv, Counters
<1>6. left["client"] = CmQps - Cardinality(U) + Cardinality(E)
  BY <1>2, <1>3, <1>4, <1>5
<1> QED BY <1>6 DEF U, E

\* A side that has left the loop has a QP for each connection.
LEMMA AllPlaced ==
  ASSUME CtlInv, DataInv, NEW s \in CmSide, cmst[s] \in {"sync2", "over", "down"}
  PROVE  {qps[s][j] : j \in Node} = Node
<1> USE Sides
<1>0. /\ left[s] = 0 /\ ~CmGone(s) /\ DataTypes /\ CmQps \in Nat /\ Taken(s) \in SUBSET Node
      /\ Used(s) = cidx[s] /\ cidx[s] \in 0 .. CmQps
  BY RdmaCmAssumption DEF DataInv, QpsLeft, CmGone, DataTypes, Taken, Used
<1>1. Taken(s) = Node
  <2>1. CASE s = "server"
    <3>1. Cardinality(Taken(s)) = CmQps
      BY <1>0, <2>1 DEF DataInv, QpsLeft, QpsFilled
    <3> QED BY <1>0, <3>1, NodeSets
  <2>2. CASE s = "client"
    <3>1. Cardinality(Made) = CmQps /\ Made \in SUBSET Node
      BY <1>0, <2>2, PlacesCounted
    <3>2. Made = Node
      BY <3>1, NodeSets
    <3> QED BY <2>2, <3>2 DEF Made, DataInv, QpsOwned, Taken
  <2> QED BY <2>1, <2>2
<1>2. \A j \in Node : qps[s][j] \in Node
  <2>1. Cardinality(Taken(s)) = CmQps
    BY <1>1, NodeSets
  <2>2. Used(s) = CmQps
    BY <2>1 DEF DataInv, QpsFilled
  <2>3. \A j \in Node : qps[s][j] # NoNode
    BY <2>2, <1>0 DEF DataInv, QpsFilled, Node
  <2> QED BY <1>0, <2>3 DEF DataTypes, Place
<1> QED BY <1>1, <1>2 DEF Taken

LEMMA CmInvSound == CmInv => CmSound
<1> SUFFICES ASSUME CmInv PROVE CmSound
  OBVIOUS
<1> USE Sides
<1>0. CtlInv /\ DataInv /\ CtlTypes /\ DataTypes
  BY DEF CmInv, CtlInv, DataInv
<1>1. RdmaCmTypeOK
  <2>1. ASSUME NEW s \in CmSide
        PROVE  /\ cmst[s] \in CmState /\ posted[s] \in 0 .. 1 /\ cidx[s] \in 0 .. CmQps
               /\ left[s] \in 0 .. CmQps /\ hs[s] \in [n : 0 .. Shakes + 2, at : 0 .. 3]
    <3>1. hs[s] \in [n : Nat, at : 0 .. 3] /\ hs[s].n <= Shakes + 2
      BY <1>0 DEF CtlInv, CtlTypes, Stage
    <3>2. hs[s] = [n |-> hs[s].n, at |-> hs[s].at] /\ hs[s].n \in 0 .. Shakes + 2 /\ hs[s].at \in 0 .. 3
      BY <3>1, RdmaCmAssumption
    <3> QED BY <1>0, <3>2 DEF CtlTypes, DataTypes
  <2> QED BY <1>0, <2>1 DEF RdmaCmTypeOK, CmState, CtlTypes, DataTypes
<1>2. OneBuffer /\ ReceivePosted
  BY <1>0, PostedInTime DEF CtlInv
<1>3. Counted
  <2>1. cmst["client"] \notin {"crashed", "failed"} => ~CmGone("client")
    BY DEF CmGone
  <2> QED BY <1>0, <2>1, EstablishedCounted, AllPlaced DEF Counted
<1>4. UdPairs /\ DefinedUnless
  BY <1>0 DEF DataInv, NumbersTold, UdPairs
<1> QED BY <1>1, <1>2, <1>3, <1>4 DEF CmSound

-----------------------------------------------------------------------------
\* The two sides never mix up a message of a handshake, a receive is posted
\* whenever one is on its way, connects_left and the QPs say what has been
\* connected, no two UD QPs send to the same one, and the client runs into
\* undefined behaviour only after a failure or out of order.
THEOREM CmStaysSound == RdmaCmSpec => []CmSound
<1>1. RdmaCmInit => CmInv
  BY CtlInit, DataInit DEF CmInv
<1> QED BY <1>1, CmStep, CmInvSound, PTL DEF RdmaCmSpec
=============================================================================
