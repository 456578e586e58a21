----------------------------- MODULE RdmaSetup -----------------------------
(***************************************************************************)
(* The client and the server of the RDMA demo, from the options to the     *)
(* last message: molecule_common_setup with everything it calls, then the  *)
(* message of molecule_ipc_send and molecule_ipc_recv, or the ping-pong of *)
(* run_iter_lat_write in write_lat.                                        *)
(*                                                                         *)
(* The two processes run the same steps and speak in turn over a TCP       *)
(* socket.  The stream is a sequence of pieces: a message is one piece,    *)
(* and the keys of a side that uses a GID are two, because they are longer *)
(* and the reader assumes the length of its own.  A step that calls the    *)
(* device may fail; MaxRFaults bounds those failures.  The buffer of a     *)
(* side is counted in units of BUFF_SIZE, the first NumQps for sending and *)
(* the others for receiving; a byte that counts is counted modulo CharMod. *)
(***************************************************************************)
EXTENDS Integers, Sequences, FiniteSets

CONSTANTS
  RdmaRuns,   \* the pairs of options the two are started with
  LatIters,   \* user_param->iters
  CharMod,    \* values of a char
  MaxRFaults  \* bound: calls that fail

Side == {"client", "server"}
Peer(s) == IF s = "client" THEN "server" ELSE "client"

\* what a process is started with: sizes, MTU, GID, Ethernet, dont_xchg_versions,
\* connection and program
Options ==
  [cyc : Nat, line : Nat, mtu : Nat, size : Nat, gid : {"none", "v4", "v6"}, eth : BOOLEAN, nox : BOOLEAN,
   conn : {"RC", "XRC", "DC"}, prog : {"lat", "ipc"}]

ASSUME RdmaSetupAssumption ==
  /\ LatIters \in Nat \ {0} /\ CharMod \in Nat \ {0, 1} /\ MaxRFaults \in Nat
  /\ RdmaRuns \subseteq [Side -> Options]

VARIABLES
  opt,      \* user_param: as parsed, and as agreed afterwards
  rs,       \* where a process is: whether it runs, its step, the QP of the step, half of an exchange, the value read
  sock,     \* of a side: its state, and what was sent through it and is not yet read
  mine,     \* my_dest
  theirs,   \* rem_dest
  rqp,      \* the QPs
  wr,       \* the send work request
  flight,   \* the number of a write that is not yet delivered, 0 if there is none
  scq,      \* completions of the writes that were delivered or lost
  poll,     \* the byte a side polls: the number of the write it comes from, -1 before there is a buffer
  lat,      \* scnt, rcnt and ccnt
  rfaults

rdmaSetupVars == <<opt, rs, sock, mine, theirs, rqp, wr, flight, scq, poll, lat, rfaults>>

\* Mutant of Steps: nobody waits for the other to be connected
StepsHasty ==
  <<"device", "establish", "version", "cycle", "line", "mtu", "alloc", "init", "qp", "dest", "hello",
    "shake", "gid", "connect", "dest2", "wqes", "run">>

\* the steps, in order; "qp", "shake", "connect" and "shake2" are loops over the QPs
Steps ==
  <<"device", "establish", "version", "cycle", "line", "mtu", "alloc", "init", "qp", "dest", "hello",
    "shake", "gid", "connect", "dest2", "shake2", "ready", "wqes", "run">>
StepNo(step) == CHOOSE n \in DOMAIN Steps : Steps[n] = step
StepOf(s) == Steps[rs[s].pc]
At(s, step) == rs[s].st = "run" /\ StepOf(s) = step

\* XRC and DC have a QP to send and one to receive, and num_of_qps is doubled for them
Paired(o) == o.conn \in {"XRC", "DC"}
NumQps(o) == IF Paired(o) THEN 2 ELSE 1
\* the QP of the peer that QP i is connected to
Other(o, i) == IF Paired(o) THEN 1 - i ELSE i
\* a QP of DC that only receives
Dct(o, i) == o.conn = "DC" /\ i = 1

NoQp == <<"none", 0>>
NoDest == [qpn |-> NoQp, psn |-> 0, slot |-> 0, v4 |-> FALSE]
NewQp == [st |-> "none", to |-> NoQp, rq |-> 0, sq |-> 0]
NoWr == [to |-> NoQp, slot |-> 0]

RdmaSetupInit ==
  /\ opt \in RdmaRuns
  /\ rs = [s \in Side |-> [st |-> "run", pc |-> 1, i |-> 0, half |-> 0, rem |-> 0]]
  /\ sock = [s \in Side |-> [state |-> "none", sent |-> <<>>]]
  /\ mine = [s \in Side |-> [i \in 0 .. 1 |-> NoDest]]
  /\ theirs = mine
  /\ rqp = [s \in Side |-> [i \in 0 .. 1 |-> NewQp]]
  /\ wr = [s \in Side |-> NoWr]
  /\ flight = [s \in Side |-> 0] /\ scq = [s \in Side |-> <<>>]
  /\ poll = [s \in Side |-> -1]
  /\ lat = [s \in Side |-> [scnt |-> 0, rcnt |-> 0, ccnt |-> 0]]
  /\ rfaults = 0

-----------------------------------------------------------------------------
\* what the steps before the run leave alone
run0 == <<wr, flight, scq, poll, lat>>

Step(s) == rs' = [rs EXCEPT ![s].pc = @ + 1, ![s].i = 0, ![s].half = 0, ![s].rem = 0]
\* the next QP of a loop, or the next step
NextQp(s) ==
  IF StepOf(s) \in {"qp", "shake", "connect", "shake2"} /\ rs[s].i + 1 < NumQps(opt[s])
  THEN rs' = [rs EXCEPT ![s].i = @ + 1, ![s].half = 0]
  ELSE Step(s)
Fault == rfaults < MaxRFaults /\ rfaults' = rfaults + 1

Ends(s, how) == rs' = [rs EXCEPT ![s].st = how]
\* the process is gone and its socket and QPs with it
Gone(s) == rs[s].st \in {"exited", "crashed", "done", "error"}

\* main of write_lat returns
LatFails == {"exited"}

\* main of the demo ignores the failure and goes on with the work requests:
\* there are none before alloc_ctx, and after it they are not initialized
DemoFails(s) == IF rs[s].pc <= StepNo("alloc") THEN {"crashed"} ELSE {"crashed", "stray"}
Failed(s) == \E how \in IF opt[s].prog = "lat" THEN LatFails ELSE DemoFails(s) : Ends(s, how)

\* a call that fails
CallFails(s) ==
  /\ rs[s].st = "run" /\ StepOf(s) \in {"device", "establish", "init", "qp", "dest", "connect", "dest2"}
  /\ Fault /\ Failed(s)
  /\ UNCHANGED <<opt, sock, mine, theirs, rqp, run0>>

\* ctx_find_dev to create_comm_struct: Ethernet needs a GID
Device(s) ==
  /\ At(s, "device") /\ Step(s)
  /\ opt' = [opt EXCEPT ![s].gid = IF opt[s].eth /\ @ = "none" THEN "v4" ELSE @]
  /\ UNCHANGED <<sock, mine, theirs, rqp, run0, rfaults>>

\* ethernet_server_connect: listen, then accept
Listen ==
  /\ At("server", "establish") /\ sock["server"].state = "none"
  /\ sock' = [sock EXCEPT !["server"].state = "listening"]
  /\ UNCHANGED <<opt, rs, mine, theirs, rqp, run0, rfaults>>
Accept ==
  /\ At("server", "establish") /\ sock["client"].state = "connected"
  /\ sock' = [sock EXCEPT !["server"].state = "connected"]
  /\ Step("server")
  /\ UNCHANGED <<opt, mine, theirs, rqp, run0, rfaults>>
\* ethernet_client_connect: the client gives up when nobody listens
ClientConnect ==
  /\ At("client", "establish")
  /\ IF sock["server"].state = "listening" /\ ~Gone("server")
     THEN sock' = [sock EXCEPT !["client"].state = "connected"] /\ Step("client")
     ELSE Failed("client") /\ UNCHANGED sock
  /\ UNCHANGED <<opt, mine, theirs, rqp, run0, rfaults>>

-----------------------------------------------------------------------------
(***************************************************************************)
(* Exchanges.  The client writes and then reads, the server reads and then *)
(* writes (ctx_hand_shake, ctx_xchg_data_ethernet).  The keys of QP 0 are  *)
(* exchanged once more before and after the others.                        *)
(***************************************************************************)
Keys == {"hello", "shake", "shake2", "ready"}
Data == {"version", "cycle", "line", "mtu"}
InExchange(s) == rs[s].st = "run" /\ StepOf(s) \in Keys \cup Data

KeyOf(s) == IF StepOf(s) \in {"shake", "shake2"} THEN rs[s].i ELSE 0

\* with dont_xchg_versions there is no version and check_version_compatibility exits
NoVersion(s) ==
  /\ At(s, "version") /\ opt[s].nox
  /\ Ends(s, "exited")
  /\ UNCHANGED <<opt, sock, mine, theirs, rqp, run0, rfaults>>

\* a message, as pieces
Value(s) == CASE StepOf(s) = "version" -> 570 [] StepOf(s) = "cycle" -> opt[s].cyc
              [] StepOf(s) = "line" -> opt[s].line [] OTHER -> opt[s].mtu

Long(s) == StepOf(s) \in Keys /\ opt[s].gid # "none"
Message(s) ==
  IF StepOf(s) \in Data THEN <<[kind |-> "data", v |-> Value(s)]>>
  ELSE <<[kind |-> "key", v |-> mine[s][KeyOf(s)]]>>
       \o (IF Long(s) THEN <<[kind |-> "gid", v |-> mine[s][KeyOf(s)].v4]>> ELSE <<>>)

Writes(s) == rs[s].half = (IF s = "client" THEN 0 ELSE 1)
Reads(s) == rs[s].half = (IF s = "client" THEN 1 ELSE 0)
\* after the first half the value read is kept, v if this half read it
HalfDone(s, v) == IF rs[s].half = 0 THEN rs' = [rs EXCEPT ![s].half = 1, ![s].rem = v] ELSE NextQp(s)

\* an exchange that fails: of data the process exits, of keys it returns FAILURE
Broken(s) == IF StepOf(s) \in Data THEN Ends(s, "exited") ELSE Failed(s)

\* the terms after an exchange: the larger of two sizes, the smaller of two MTUs
Larger(a, b) == IF b > a THEN b ELSE a

AgreedMtu(m, v) == IF m > v THEN v ELSE m
Agreed(o, step, v) ==
  CASE step = "cycle" -> [o EXCEPT !.cyc = Larger(@, v)]
    [] step = "line"  -> [o EXCEPT !.line = Larger(@, v)]
    [] step = "mtu"   -> [o EXCEPT !.mtu = AgreedMtu(@, v)]
    [] OTHER -> o

\* both halves of an exchange of data are done
Terms(s, v) ==
  IF rs[s].half = 1 /\ StepOf(s) \in Data THEN opt' = [opt EXCEPT ![s] = Agreed(@, StepOf(s), v)]
  ELSE UNCHANGED opt

\* write: that the peer is gone it notices, dies of, or does not notice
Write(s) ==
  /\ InExchange(s) /\ Writes(s) /\ (StepOf(s) = "version" => ~opt[s].nox)
  /\ \/ /\ HalfDone(s, 0) /\ Terms(s, rs[s].rem)
        /\ sock' = [sock EXCEPT ![s].sent = @ \o Message(s)]
     \/ Gone(Peer(s)) /\ (Broken(s) \/ Ends(s, "crashed")) /\ UNCHANGED <<opt, sock>>
  /\ UNCHANGED <<mine, theirs, rqp, run0, rfaults>>

\* read: as many pieces as it needs and no fewer, or the exchange fails
ReadMsg(s) ==
  LET in == sock[Peer(s)].sent
      n == IF Long(s) THEN 2 ELSE 1
      whole == Len(in) >= n /\ in[1].kind = (IF StepOf(s) \in Data THEN "data" ELSE "key") IN
  /\ InExchange(s) /\ Reads(s) /\ (StepOf(s) = "version" => ~opt[s].nox)
  /\ in # <<>> \/ Gone(Peer(s))
  /\ \/ /\ whole /\ HalfDone(s, IF StepOf(s) \in Data THEN in[1].v ELSE 0)
        /\ sock' = [sock EXCEPT ![Peer(s)].sent = SubSeq(in, n + 1, Len(in))]
        /\ Terms(s, in[1].v)
        /\ theirs' = IF StepOf(s) \in Data THEN theirs
                     ELSE [theirs EXCEPT ![s][KeyOf(s)] =
                             IF n = 2 THEN in[1].v ELSE [in[1].v EXCEPT !.v4 = FALSE]]
        /\ UNCHANGED rfaults
     \/ /\ ~whole /\ Broken(s)
        /\ sock' = [sock EXCEPT ![Peer(s)].sent = <<>>]
        /\ UNCHANGED <<opt, theirs, rfaults>>
     \* the message comes in two segments
     \/ /\ in # <<>> /\ Fault /\ Broken(s)
        /\ sock' = [sock EXCEPT ![Peer(s)].sent = <<>>]
        /\ UNCHANGED <<opt, theirs>>
  /\ UNCHANGED <<mine, rqp, run0>>

-----------------------------------------------------------------------------
(***************************************************************************)
(* The resources of a side.                                                *)
(***************************************************************************)
\* alloc_ctx: the size of a buffer depends on the terms agreed
Alloc(s) ==
  /\ At(s, "alloc") /\ Step(s)
  /\ UNCHANGED <<opt, sock, mine, theirs, rqp, run0, rfaults>>

\* create_single_mr clears the buffer once it is registered
Cleared(s) == [poll EXCEPT ![s] = 0]
\* ctx_init up to the SRQ
InitCtx(s) ==
  /\ At(s, "init") /\ Step(s)
  /\ poll' = Cleared(s)
  /\ UNCHANGED <<opt, sock, mine, theirs, rqp, wr, flight, scq, lat, rfaults>>

\* ctx_modify_qp_to_init
ToInit(q) == [q EXCEPT !.st = "init"]
\* create_qp_main and modify_qp_to_init, whose failure ctx_init does not look at
CreateQp(s) ==
  /\ At(s, "qp") /\ NextQp(s)
  /\ LET q == [NewQp EXCEPT !.st = "reset"] IN
     \/ rqp' = [rqp EXCEPT ![s][rs[s].i] = ToInit(q)] /\ UNCHANGED rfaults
     \/ rqp' = [rqp EXCEPT ![s][rs[s].i] = q] /\ Fault
  /\ UNCHANGED <<opt, sock, mine, theirs, run0>>

\* where QP i receives (mr_per_qp is off)
Slot(o, i) == NumQps(o) + i

\* a receive QP of DC has its number from the device when it is RTR
QpNum(s, i) == IF Dct(opt[s], i) /\ rqp[s][i].st # "rtr" THEN NoQp ELSE <<s, i>>

\* set_up_connection: new PSNs each time; without a GID the bytes of temp_gid
\* are not initialized and may look like an IPv4 one
Dest(s) ==
  /\ At(s, "dest") \/ At(s, "dest2")
  /\ Step(s)
  /\ IF At(s, "dest2") /\ opt[s].conn # "DC" THEN UNCHANGED <<mine, rfaults>>
     ELSE \E v4 \in IF opt[s].gid = "none" THEN BOOLEAN ELSE {opt[s].gid = "v4"} :
            /\ IF v4 /\ opt[s].gid = "none" THEN Fault ELSE UNCHANGED rfaults
            /\ mine' = [mine EXCEPT ![s] = [i \in 0 .. 1 |->
                          IF i >= NumQps(opt[s]) THEN NoDest
                          ELSE [qpn |-> QpNum(s, i), psn |-> @[i].psn + 1, slot |-> Slot(opt[s], i),
                                v4 |-> v4]]]
  /\ UNCHANGED <<opt, sock, theirs, rqp, run0>>

\* ctx_check_gid_compatibility
GidCheck(s) ==
  /\ At(s, "gid")
  /\ IF mine[s][0].v4 = theirs[s][0].v4 THEN Step(s) ELSE Failed(s)
  /\ UNCHANGED <<opt, sock, mine, theirs, rqp, run0, rfaults>>

\* Mutant of DestOf: the keys of the QP with the same number
DestOfSame(s, i) == theirs[s][i]

\* dest[xrc_offset + i]
DestOf(s, i) == theirs[s][Other(opt[s], i)]

\* ctx_modify_qp_to_rtr; DC takes no destination
Rtr(s, q, d) ==
  IF opt[s].conn = "DC" THEN [q EXCEPT !.st = "rtr"]
  ELSE [q EXCEPT !.st = "rtr", !.to = d.qpn, !.rq = d.psn]
\* ctx_modify_qp_to_rts
Rts(q, me) == [q EXCEPT !.st = "rts", !.sq = me.psn]

\* ctx_connect, one QP
ConnectQp(s) ==
  LET i == rs[s].i
      q == Rtr(s, rqp[s][i], DestOf(s, i)) IN
  /\ At(s, "connect")
  /\ IF rqp[s][i].st # "init" THEN Failed(s) /\ UNCHANGED <<rqp, rfaults>>
     ELSE \/ /\ rqp' = [rqp EXCEPT ![s][i] = IF Dct(opt[s], i) THEN q ELSE Rts(q, mine[s][i])]
             /\ NextQp(s) /\ UNCHANGED rfaults
          \/ ~Dct(opt[s], i) /\ rqp' = [rqp EXCEPT ![s][i] = q] /\ Fault /\ Failed(s)
  /\ UNCHANGED <<opt, sock, mine, theirs, run0>>

\* ctx_set_send_wqes: what the first QP writes to
SetWqes(s) ==
  LET d == DestOf(s, 0) IN
  /\ At(s, "wqes") /\ Step(s)
  /\ wr' = [wr EXCEPT ![s] = [to |-> IF opt[s].conn = "DC" THEN d.qpn ELSE rqp[s][0].to, slot |-> d.slot]]
  /\ UNCHANGED <<opt, sock, mine, theirs, rqp, flight, scq, poll, lat, rfaults>>

-----------------------------------------------------------------------------
(***************************************************************************)
(* The run.  A write that is posted is delivered and then acknowledged; if *)
(* the other process ends in between the acknowledgement is lost and the   *)
(* completion is an error.                                                 *)
(***************************************************************************)
setup == <<opt, sock, mine, theirs, rqp, wr, rfaults>>

\* iterations of the ping-pong; the demo sends one message, from the client
Iters(s) == IF opt[s].prog = "lat" THEN LatIters ELSE 1
Sends(s) == opt[s].prog = "lat" \/ s = "client"
Receives(s) == opt[s].prog = "lat" \/ s = "server"

\* the server sends first
MustPoll(s) == lat[s].rcnt < Iters(s) /\ ~(lat[s].scnt < 1 /\ s = "server" /\ Sends(s))

\* the part of an iteration a side is in: poll, post, then the completion
Part(s) == rs[s].half
IterDone(s) == [rs EXCEPT ![s].half = 0]

\* the loop is over
Over(s) ==
  /\ Sends(s) => lat[s].scnt = Iters(s) /\ lat[s].ccnt = Iters(s)
  /\ Receives(s) => lat[s].rcnt = Iters(s)

Polled(o) == Slot(o, IF Paired(o) THEN 1 ELSE 0)
\* the byte a side polls was written by write n
Sees(s, n) == poll[s] % CharMod = n % CharMod /\ opt["client"].size = opt["server"].size

PollByte(s) ==
  /\ At(s, "run") /\ Part(s) = 0 /\ ~Over(s)
  /\ IF Receives(s) /\ MustPoll(s)
     THEN Sees(s, lat[s].rcnt + 1) /\ lat' = [lat EXCEPT ![s].rcnt = @ + 1]
     ELSE UNCHANGED lat
  /\ rs' = [rs EXCEPT ![s].half = 1]
  /\ UNCHANGED <<setup, flight, scq, poll>>

Post(s) ==
  /\ At(s, "run") /\ Part(s) = 1
  /\ \/ /\ Sends(s) /\ lat[s].scnt < Iters(s)
        /\ lat' = [lat EXCEPT ![s].scnt = @ + 1]
        /\ \/ flight' = [flight EXCEPT ![s] = lat[s].scnt + 1] /\ rs' = [rs EXCEPT ![s].half = 2]
              /\ UNCHANGED rfaults
           \/ Fault /\ Ends(s, "error") /\ UNCHANGED flight
     \/ /\ ~(Sends(s) /\ lat[s].scnt < Iters(s))
        /\ rs' = [rs EXCEPT ![s].half = 2] /\ UNCHANGED <<lat, flight, rfaults>>
  /\ UNCHANGED <<opt, sock, mine, theirs, rqp, wr, scq, poll>>

\* the device writes into the memory of the peer, or gives up
Deliver(s) ==
  LET p == Peer(s) IN
  /\ flight[s] # 0 /\ ~Gone(s)
  /\ flight' = [flight EXCEPT ![s] = 0]
  /\ IF Gone(p) \/ wr[s].to[1] # p \/ rqp[p][wr[s].to[2]].st \notin {"rtr", "rts"}
     THEN scq' = [scq EXCEPT ![s] = Append(@, "error")] /\ UNCHANGED poll
     ELSE /\ poll' = [poll EXCEPT ![p] = IF wr[s].slot = Polled(opt[p]) THEN flight[s] ELSE @]
          /\ scq' = [scq EXCEPT ![s] = Append(@, "unacked")]
  /\ UNCHANGED <<setup, rs, lat>>
Acknowledge(s) ==
  /\ ~Gone(s) /\ scq[s] # <<>> /\ scq[s][1] = "unacked"
  /\ scq' = [scq EXCEPT ![s][1] = IF Gone(Peer(s)) THEN "error" ELSE "ok"]
  /\ UNCHANGED <<setup, rs, lat, flight, poll>>

\* ibv_poll_cq, and the end of the loop
Complete(s) ==
  /\ At(s, "run") /\ Part(s) = 2
  /\ IF Sends(s) /\ lat[s].ccnt < Iters(s)
     THEN /\ scq[s] # <<>> /\ scq[s][1] # "unacked"
          /\ scq' = [scq EXCEPT ![s] = Tail(@)]
          /\ IF scq[s][1] = "error" THEN Ends(s, "error") /\ UNCHANGED lat
             ELSE lat' = [lat EXCEPT ![s].ccnt = @ + 1] /\ rs' = IterDone(s)
     ELSE UNCHANGED <<lat, scq>> /\ rs' = IterDone(s)
  /\ UNCHANGED <<setup, flight, poll>>
Finish(s) ==
  /\ At(s, "run") /\ Part(s) = 0 /\ Over(s) /\ Ends(s, "done")
  /\ UNCHANGED <<setup, lat, flight, scq, poll>>

-----------------------------------------------------------------------------
ProcessStep(s) ==
  \/ s = "server" /\ (Listen \/ Accept)
  \/ s = "client" /\ ClientConnect
  \/ CallFails(s) \/ Device(s) \/ NoVersion(s) \/ Write(s) \/ ReadMsg(s)
  \/ Alloc(s) \/ InitCtx(s) \/ CreateQp(s) \/ Dest(s) \/ GidCheck(s) \/ ConnectQp(s) \/ SetWqes(s)
  \/ PollByte(s) \/ Post(s) \/ Complete(s) \/ Finish(s)
DeviceStep(s) == Deliver(s) \/ Acknowledge(s)

RdmaSetupNext == \E s \in Side : ProcessStep(s) \/ DeviceStep(s)
\* a process that can go on does, and the device works
RdmaSetupFair == \A s \in Side : WF_rdmaSetupVars(ProcessStep(s)) /\ WF_rdmaSetupVars(DeviceStep(s))
RdmaSetupSpec == RdmaSetupInit /\ [][RdmaSetupNext]_rdmaSetupVars /\ RdmaSetupFair

-----------------------------------------------------------------------------
\* Types.
RdmaSetupTypeOK ==
  /\ \A s \in Side :
       /\ rs[s].st \in {"run", "exited", "crashed", "stray", "error", "done"}
       /\ rs[s].pc \in DOMAIN Steps /\ rs[s].i \in 0 .. 1 /\ rs[s].half \in 0 .. 2
       /\ sock[s].state \in {"none", "listening", "connected"}
       /\ \A i \in 0 .. 1 : rqp[s][i].st \in {"none", "reset", "init", "rtr", "rts"}
       /\ flight[s] \in 0 .. LatIters /\ poll[s] \in -1 .. LatIters
       /\ lat[s] \in [scnt : 0 .. LatIters, rcnt : 0 .. LatIters, ccnt : 0 .. LatIters]
  /\ rfaults \in 0 .. MaxRFaults

\* A write is posted only when the QP of the other process that it goes to can
\* receive (the last handshakes of molecule_common_setup are for that), and it
\* names the place the other process polls.
WritesArrive ==
  \A s \in Side : flight[s] # 0 /\ rs[Peer(s)].st = "run" =>
    /\ wr[s].to = <<Peer(s), Other(opt[s], 0)>>
    /\ rqp[Peer(s)][wr[s].to[2]].st \in {"rtr", "rts"}
    /\ wr[s].slot = Polled(opt[Peer(s)])

\* Two connected QPs expect what the other sends: ctx_connect pairs the send
\* QPs of a side with the receive QPs of the other, and the PSNs are those of
\* one and the same set_up_connection.
QpsMatch ==
  \A s \in Side, i \in 0 .. 1 :
    LET q == rqp[s][i]
        p == rqp[Peer(s)][Other(opt[s], i)] IN
    q.st = "rts" /\ opt[s].conn # "DC" =>
      q.to = <<Peer(s), Other(opt[s], i)>> /\ (p.st = "rts" => p.to = <<s, i>> /\ q.rq = p.sq)

\* After the exchanges the two sides work with the same buffer and cache line
\* sizes and the same MTU, whatever they were started with.
SameTerms ==
  (\A s \in Side : rs[s].pc > StepNo("mtu")) =>
    \A f \in {"cyc", "line", "mtu"} : opt["client"][f] = opt["server"][f]

\* Sides that disagree on GIDs are not connected: the keys of one are longer
\* than those of the other, and the addresses of different kinds.
DisagreementFound ==
  opt["client"].gid # opt["server"].gid /\ (\A s \in Side : rs[s].pc > 1) =>
    \A s \in Side : rs[s].pc <= StepNo("gid")

\* The ping-pong loses no count: when a side has seen the n-th byte it was
\* the n-th write, and the one after it is not overwritten unread, although
\* a char counts only to CharMod.
NoCountLost == \A s \in Side : Receives(s) /\ rs[s].pc > StepNo("init") => poll[s] - lat[s].rcnt \in {0, 1}

\* Without failed calls a completion is an error only for the last write of a
\* side, and the other has seen all of them: it has ended without waiting for
\* the acknowledgement to reach the sender, which then reports an error.
OnlyLastUnacked ==
  \A s \in Side : rs[s].st = "error" /\ rfaults = 0 =>
    rs[Peer(s)].st = "done" /\ lat[s].scnt = Iters(s) /\ lat[Peer(s)].rcnt = Iters(s)

\* Two latency tests that are connected both end, whatever call fails before
\* the last handshake; if one fails later the other polls its byte forever.
Ended(s) == rs[s].st # "run"
LatEnds ==
  (sock["client"].state = "connected" /\ opt["client"].prog = "lat")
     ~> \/ \A s \in Side : Ended(s)
        \/ rfaults > 0 /\ \E s \in Side : Ended(s) /\ rs[s].pc >= StepNo("ready")

\* The demo delivers its message when no call fails and the two were started
\* with compatible options; nothing tells them that their sizes differ.
Compatible ==
  /\ opt["client"].size = opt["server"].size
  /\ \A s \in Side : ~opt[s].nox
DemoDelivers ==
  (sock["client"].state = "connected" /\ opt["client"].prog = "ipc" /\ Compatible)
     ~> (rs["server"].st = "done" \/ rfaults > 0 \/ opt["client"].gid # opt["server"].gid)

\* The handshakes give two processes that agree and are connected to each other
\* before the first write, and no count of the ping-pong is lost after it.
ConnectionSound ==
  /\ RdmaSetupTypeOK
  /\ WritesArrive
  /\ QpsMatch
  /\ SameTerms
  /\ DisagreementFound
  /\ NoCountLost
  /\ OnlyLastUnacked

\* Both programs come to their end.
SetupEnds == LatEnds /\ DemoDelivers
=============================================================================
