-------------------------- MODULE RdmaSetupProofs --------------------------
(***************************************************************************)
(* TLAPS proofs about the set-up of the RDMA demo and of write_lat: the    *)
(* conversation over the socket, the QPs that come of it, and the run.     *)
(*                                                                         *)
(* The sides speak in turn, so that the exchange a side is in (Pos, Half)  *)
(* says what is in the stream, what the other has told, and what both have *)
(* agreed on: TalkInv.  The keys told make the QPs, and these the writes;  *)
(* from there on it is about the counts of the two.                        *)
(***************************************************************************)
EXTENDS RdmaSetup, SequenceTheorems, TLAPS

\* The two are started as one program with one connection: these two options
\* are not exchanged, and each side takes its own for that of the other.
Matched ==
  /\ opt["client"].conn = opt["server"].conn
  /\ opt["client"].prog = opt["server"].prog

N == NumQps(opt["client"])

QpRef == (Side \cup {"none"}) \X (0 .. 1)
DestRec == [qpn : QpRef, psn : Nat, slot : Nat, v4 : BOOLEAN]
QpRec == [st : {"none", "reset", "init", "rtr", "rts"}, to : QpRef, rq : Nat, sq : Nat]
Piece == [kind : {"data"}, v : Nat] \cup [kind : {"key"}, v : DestRec] \cup [kind : {"gid"}, v : BOOLEAN]
Counts == [scnt : 0 .. LatIters, rcnt : 0 .. LatIters, ccnt : 0 .. LatIters]

Proc == [st : {"run", "exited", "crashed", "stray", "error", "done"}, pc : 1 .. 19, i : 0 .. 1,
         half : 0 .. 2, rem : Nat]
Sock == [state : {"none", "listening", "connected"}, sent : Seq(Piece)]

SetupTypes ==
  /\ opt \in [Side -> Options]
  /\ rs \in [Side -> Proc]
  /\ sock \in [Side -> Sock]
  /\ mine \in [Side -> [0 .. 1 -> DestRec]]
  /\ theirs \in [Side -> [0 .. 1 -> DestRec]]
  /\ rqp \in [Side -> [0 .. 1 -> QpRec]]
  /\ wr \in [Side -> [to : QpRef, slot : Nat]]
  /\ flight \in [Side -> 0 .. LatIters]
  /\ scq \in [Side -> Seq({"unacked", "ok", "error"})]
  /\ poll \in [Side -> -1 .. LatIters]
  /\ lat \in [Side -> Counts]
  /\ rfaults \in 0 .. MaxRFaults

\* The QP of a step belongs to a loop, and a half to an exchange or to the run.
Places ==
  \A s \in Side :
    /\ rs[s].i < N /\ (rs[s].i > 0 => rs[s].pc \in {9, 12, 14, 16})
    /\ rs[s].half > 0 => rs[s].pc \in {3, 4, 5, 6, 11, 12, 16, 17, 19}
    /\ rs[s].half = 2 => rs[s].pc = 19
    /\ rs[s].pc = 3 /\ opt[s].nox => rs[s].half = 0

\* The exchanges that a side has behind it, and the half of the next one.
PosOf(pc, i) ==
  CASE pc <= 3 -> 0
    [] pc > 3 /\ pc <= 6 -> pc - 3
    [] pc > 6 /\ pc <= 11 -> 4
    [] pc = 12 -> 5 + i
    [] pc > 12 /\ pc <= 15 -> 5 + N
    [] pc = 16 -> 5 + N + i
    [] pc = 17 -> 5 + 2 * N
    [] OTHER -> 6 + 2 * N
Pos(s) == PosOf(rs[s].pc, rs[s].i)
Half(s) == IF rs[s].pc = 19 THEN 0 ELSE rs[s].half

\* The server is ahead while the client waits for its half.
Replied == Pos("server") = Pos("client") + 1 /\ Half("client") = 1 /\ Half("server") = 0
Asked == Pos("server") = Pos("client") /\ Half("client") = 1 /\ Half("server") = 0
LockStep ==
  \/ Replied
  \/ /\ Pos("server") = Pos("client")
     /\ Half("server") = 1 => Half("client") = 1

\* A client that is gone in the middle has left a server that is gone.
Stuck == Pos("server") = Pos("client") /\ Half("client") = 1 /\ rs["client"].st # "run" => rs["server"].st # "run"

\* What a side tells of its QP i: with DC the receiving QP has its number late.
GoodKey(s, i, late, d) ==
  /\ d.slot = N + i
  /\ opt["client"].conn # "DC" \/ i = 0 \/ late => d.qpn = <<s, i>>
  /\ opt["client"].conn # "DC" => d.psn = 1
  /\ opt["client"].gid # "none" /\ opt["server"].gid # "none" => d.v4 = (opt[s].gid = "v4")

Told(s) ==
  /\ rs[s].pc > 10 => \A i \in 0 .. N - 1 : GoodKey(s, i, FALSE, mine[s][i])
  /\ rs[s].pc > 15 => \A i \in 0 .. N - 1 : GoodKey(s, i, TRUE, mine[s][i])

\* The exchanges a side has read.
Heard(s) == Pos(s) + (IF s = "server" THEN Half(s) ELSE 0)
Known(s) ==
  \A i \in 0 .. N - 1 :
    /\ Heard(s) > 5 + i => GoodKey(Peer(s), i, FALSE, theirs[s][i])
    /\ Heard(s) > 5 + N + i => GoodKey(Peer(s), i, TRUE, theirs[s][i])
KeysKnown == \A s \in Side : Told(s) /\ Known(s)

\* What is on its way to a side that runs.
ToServer ==
  rs["server"].st = "run" =>
    IF Asked THEN sock["client"].sent = Message("client")
    ELSE \/ sock["client"].sent = <<>>
         \/ /\ opt["client"].gid # "none" /\ opt["server"].gid = "none"
            /\ rs["server"].pc = 12 \/ (rs["server"].pc = 11 /\ rs["server"].half = 1)
            /\ \E v \in BOOLEAN : sock["client"].sent = <<[kind |-> "gid", v |-> v]>>

\* The terms of an exchange, when the client has read v.
TermsMet(pc, v) ==
  /\ pc = 4 => opt["server"].cyc = Larger(opt["client"].cyc, v)
  /\ pc = 5 => opt["server"].line = Larger(opt["client"].line, v)
  /\ pc = 6 => opt["server"].mtu = AgreedMtu(opt["client"].mtu, v)
Answer ==
  LET sent == sock["server"].sent
      v == sent[1].v IN
  IF rs["client"].pc <= 6
  THEN v \in Nat /\ sent = <<[kind |-> "data", v |-> v]>> /\ TermsMet(rs["client"].pc, v)
  ELSE /\ v \in DestRec /\ GoodKey("server", rs["client"].i, rs["client"].pc > 15, v)
       /\ sent = <<[kind |-> "key", v |-> v]>>
                   \o (IF opt["server"].gid # "none" THEN <<[kind |-> "gid", v |-> v.v4]>> ELSE <<>>)
ToClient == rs["client"].st = "run" => IF Replied THEN Answer ELSE sock["server"].sent = <<>>

TermsKept ==
  /\ rs["client"].pc > 4 => opt["server"].cyc = opt["client"].cyc
  /\ rs["client"].pc > 5 => opt["server"].line = opt["client"].line
  /\ rs["client"].pc > 6 => opt["server"].mtu = opt["client"].mtu
  /\ rs["server"].half = 1 =>
       /\ rs["server"].pc = 4 => rs["server"].rem = opt["client"].cyc
       /\ rs["server"].pc = 5 => rs["server"].rem = opt["client"].line
       /\ rs["server"].pc = 6 => rs["server"].rem = opt["client"].mtu

\* Where sides stop that disagree on GIDs.
Mixed == opt["client"].gid # opt["server"].gid
Disagree ==
  Mixed /\ (\A s \in Side : rs[s].pc > 1) =>
    /\ \A s \in Side : rs[s].pc <= 13
    /\ opt["client"].gid = "none" => Pos("server") <= 4 /\ (Pos("server") = 4 => Half("server") = 0)
    /\ opt["server"].gid = "none" =>
         rs["client"].pc <= 11 /\ Pos("server") <= 5 /\ (Pos("server") = 5 => Half("server") = 0)

\* The PSNs that set_up_connection counts from.
Fresh == \A s \in Side : rs[s].pc <= 10 => \A i \in 0 .. 1 : mine[s][i].psn = 0

\* The QPs: made one after the other, and connected one after the other.
Connected(s, i) == rs[s].pc > 14 \/ (rs[s].pc = 14 /\ i < rs[s].i)
QpIs(s, i) ==
  LET q == rqp[s][i] IN
  /\ (i >= N \/ rs[s].pc < 9 \/ (rs[s].pc = 9 /\ i >= rs[s].i)) => q.st = "none"
  /\ q.st \in {"rtr", "rts"} => rs[s].pc > 14 \/ (rs[s].pc = 14 /\ i <= rs[s].i)
  /\ q.st = "rts" /\ opt["client"].conn # "DC" => q.to = <<Peer(s), Other(opt["client"], i)>> /\ q.rq = 1 /\ q.sq = 1
  /\ i < N /\ Connected(s, i) => q.st = (IF Dct(opt["client"], i) THEN "rtr" ELSE "rts")
QpsShape == \A s \in Side, i \in 0 .. 1 : QpIs(s, i)

\* The work request names what the other side polls.
Aimed ==
  \A s \in Side : rs[s].pc = 19 =>
    wr[s].to = <<Peer(s), Other(opt["client"], 0)>> /\ wr[s].slot = N + Other(opt["client"], 0)

\* The counts of the run.
Quiet == \A s \in Side : rs[s].pc < 19 =>
  /\ flight[s] = 0 /\ scq[s] = <<>> /\ lat[s] = [scnt |-> 0, rcnt |-> 0, ccnt |-> 0]
Counted ==
  \A s \in Side :
    /\ IF rs[s].pc > 8 THEN lat[s].rcnt <= poll[s] ELSE poll[s] = -1
    /\ poll[s] <= lat[Peer(s)].scnt
    /\ flight[s] \in {0, lat[s].scnt}
    /\ lat[s].scnt <= Iters(s) /\ lat[s].rcnt <= Iters(s)
    /\ ~Sends(s) => lat[s].scnt = 0
    /\ ~Receives(s) => lat[s].rcnt = 0
    /\ opt["client"].prog = "lat" =>
         /\ lat[s].scnt <= lat[s].rcnt + (IF s = "server" THEN 1 ELSE 0)
         /\ rs[s].pc = 19 /\ rs[s].st = "run" /\ rs[s].half = 1 =>
              lat[s].rcnt = Iters(s) \/ lat[s].scnt < lat[s].rcnt + (IF s = "server" THEN 1 ELSE 0)

\* A side posts when its last write is completed, and then waits for the new one.
InFlight ==
  \A s \in Side : rs[s].pc = 19 /\ rs[s].st = "run" =>
    /\ rs[s].half < 2 => flight[s] = 0 /\ scq[s] = <<>> /\ lat[s].ccnt = lat[s].scnt
    /\ rs[s].half = 2 => flight[s] = 0 \/ scq[s] = <<>>
    /\ rs[s].half = 2 /\ (flight[s] # 0 \/ scq[s] # <<>>) =>
         Len(scq[s]) <= 1 /\ lat[s].scnt = lat[s].ccnt + 1
    /\ rs[s].half = 2 /\ flight[s] = 0 /\ scq[s] = <<>> =>
         lat[s].ccnt = lat[s].scnt /\ ~(Sends(s) /\ lat[s].ccnt < Iters(s))

\* Without failed calls nobody is lost after the last handshake, and only a
\* side that is done leaves a write without its acknowledgement.
Losses ==
  /\ Pos("server") = 6 + 2 * N /\ rfaults = 0 => \A s \in Side : rs[s].st \in {"run", "done", "error"}
  /\ \A s \in Side : \A j \in DOMAIN scq[s] : scq[s][j] = "error" => Gone(Peer(s))
  /\ \A s \in Side : rs[s].st \in {"done", "error"} => rs[s].pc = 19
  /\ \A s \in Side : rs[s].pc = 19 => rs[s].st \in {"run", "done", "error"}
  /\ \A s \in Side : rs[s].st = "done" => Over(s)
  /\ OnlyLastUnacked

TalkInv ==
  /\ Matched /\ SetupTypes /\ Places /\ LockStep /\ Stuck /\ KeysKnown /\ ToServer /\ ToClient /\ TermsKept
  /\ Disagree
SetupInv ==
  /\ TalkInv /\ Fresh /\ QpsShape /\ Aimed /\ Quiet /\ Counted /\ InFlight /\ Losses
-----------------------------------------------------------------------------
(* The steps.                                                              *)

LEMMA StepNames ==
  /\ DOMAIN Steps = 1 .. 19
  /\ Steps[1] = "device" /\ Steps[2] = "establish" /\ Steps[3] = "version" /\ Steps[4] = "cycle"
  /\ Steps[5] = "line" /\ Steps[6] = "mtu" /\ Steps[7] = "alloc" /\ Steps[8] = "init" /\ Steps[9] = "qp"
  /\ Steps[10] = "dest" /\ Steps[11] = "hello" /\ Steps[12] = "shake" /\ Steps[13] = "gid"
  /\ Steps[14] = "connect" /\ Steps[15] = "dest2" /\ Steps[16] = "shake2" /\ Steps[17] = "ready"
  /\ Steps[18] = "wqes" /\ Steps[19] = "run"
BY DEF Steps

LEMMA StepNumbers ==
  ASSUME NEW k \in 1 .. 19
  PROVE  /\ (Steps[k] = "device" <=> k = 1) /\ (Steps[k] = "establish" <=> k = 2)
         /\ (Steps[k] = "version" <=> k = 3) /\ (Steps[k] = "cycle" <=> k = 4)
         /\ (Steps[k] = "line" <=> k = 5) /\ (Steps[k] = "mtu" <=> k = 6)
         /\ (Steps[k] = "alloc" <=> k = 7) /\ (Steps[k] = "init" <=> k = 8)
         /\ (Steps[k] = "qp" <=> k = 9) /\ (Steps[k] = "dest" <=> k = 10)
         /\ (Steps[k] = "hello" <=> k = 11) /\ (Steps[k] = "shake" <=> k = 12)
         /\ (Steps[k] = "gid" <=> k = 13) /\ (Steps[k] = "connect" <=> k = 14)
         /\ (Steps[k] = "dest2" <=> k = 15) /\ (Steps[k] = "shake2" <=> k = 16)
         /\ (Steps[k] = "ready" <=> k = 17) /\ (Steps[k] = "wqes" <=> k = 18)
         /\ (Steps[k] = "run" <=> k = 19)
<1>1. k = 1 \/ k = 2 \/ k = 3 \/ k = 4 \/ k = 5 \/ k = 6 \/ k = 7 \/ k = 8 \/ k = 9 \/ k = 10
      \/ k = 11 \/ k = 12 \/ k = 13 \/ k = 14 \/ k = 15 \/ k = 16 \/ k = 17 \/ k = 18 \/ k = 19
  OBVIOUS
<1> QED BY <1>1, StepNames

LEMMA StepNos ==
  StepNo("mtu") = 6 /\ StepNo("alloc") = 7 /\ StepNo("init") = 8 /\ StepNo("gid") = 13
<1>1. PICK a \in 1 .. 19 : a = StepNo("mtu") /\ Steps[a] = "mtu"
  BY StepNames DEF StepNo
<1>2. PICK b \in 1 .. 19 : b = StepNo("alloc") /\ Steps[b] = "alloc"
  BY StepNames DEF StepNo
<1>3. PICK c \in 1 .. 19 : c = StepNo("init") /\ Steps[c] = "init"
  BY StepNames DEF StepNo
<1>4. PICK d \in 1 .. 19 : d = StepNo("gid") /\ Steps[d] = "gid"
  BY StepNames DEF StepNo
<1> QED BY <1>1, <1>2, <1>3, <1>4, StepNumbers

LEMMA StepIs ==
  ASSUME SetupTypes, NEW s \in Side
  PROVE  /\ rs[s].pc \in 1 .. 19
         /\ (StepOf(s) = "device" <=> rs[s].pc = 1) /\ (StepOf(s) = "establish" <=> rs[s].pc = 2)
         /\ (StepOf(s) = "version" <=> rs[s].pc = 3) /\ (StepOf(s) = "cycle" <=> rs[s].pc = 4)
         /\ (StepOf(s) = "line" <=> rs[s].pc = 5) /\ (StepOf(s) = "mtu" <=> rs[s].pc = 6)
         /\ (StepOf(s) = "alloc" <=> rs[s].pc = 7) /\ (StepOf(s) = "init" <=> rs[s].pc = 8)
         /\ (StepOf(s) = "qp" <=> rs[s].pc = 9) /\ (StepOf(s) = "dest" <=> rs[s].pc = 10)
         /\ (StepOf(s) = "hello" <=> rs[s].pc = 11) /\ (StepOf(s) = "shake" <=> rs[s].pc = 12)
         /\ (StepOf(s) = "gid" <=> rs[s].pc = 13) /\ (StepOf(s) = "connect" <=> rs[s].pc = 14)
         /\ (StepOf(s) = "dest2" <=> rs[s].pc = 15) /\ (StepOf(s) = "shake2" <=> rs[s].pc = 16)
         /\ (StepOf(s) = "ready" <=> rs[s].pc = 17) /\ (StepOf(s) = "wqes" <=> rs[s].pc = 18)
         /\ (StepOf(s) = "run" <=> rs[s].pc = 19)
         /\ (StepOf(s) \in Data <=> rs[s].pc \in 3 .. 6) /\ (StepOf(s) \in Keys <=> rs[s].pc \in {11, 12, 16, 17})
<1>1. rs[s].pc \in 1 .. 19
  BY DEF SetupTypes, Proc
<1>2. StepOf(s) = Steps[rs[s].pc]
  BY DEF StepOf
<1> QED BY <1>1, <1>2, StepNumbers DEF Data, Keys

LEMMA Setting ==
  ASSUME Matched, SetupTypes, NEW s \in Side
  PROVE  /\ N \in {1, 2} /\ NumQps(opt[s]) = N /\ (Paired(opt[s]) <=> N = 2)
         /\ opt[s].conn = opt["client"].conn
         /\ \A i : Other(opt[s], i) = (IF N = 2 THEN 1 - i ELSE i)
         /\ \A i : Other(opt["client"], i) = (IF N = 2 THEN 1 - i ELSE i)
         /\ \A i : Dct(opt[s], i) <=> Dct(opt["client"], i)
         /\ \A i : Slot(opt[s], i) = N + i
         /\ Peer(s) \in Side /\ Peer(s) # s /\ Peer(Peer(s)) = s
<1>1. opt[s].conn = opt["client"].conn
  BY DEF Matched, Side
<1> QED BY <1>1 DEF N, NumQps, Paired, Other, Dct, Slot, Peer, Side

\* What a process does to its place: it moves on, ends, or stays.
Moved(s) ==
  /\ rs' \in [Side -> Proc]
  /\ rs'[Peer(s)] = rs[Peer(s)]
  /\ rs'[s].st = rs[s].st /\ rs'[s].half = 0
  /\ \/ /\ rs[s].pc \in {9, 12, 14, 16} /\ rs[s].i + 1 < N
        /\ rs'[s].pc = rs[s].pc /\ rs'[s].i = rs[s].i + 1
     \/ /\ rs[s].pc \in {9, 12, 14, 16} => rs[s].i + 1 >= N
        /\ rs'[s].pc = rs[s].pc + 1 /\ rs'[s].i = 0
Died(s) ==
  /\ rs' \in [Side -> Proc]
  /\ rs'[Peer(s)] = rs[Peer(s)]
  /\ rs[s].st = "run" /\ rs'[s].st \in {"exited", "crashed", "stray", "error", "done"}
  /\ rs'[s].pc = rs[s].pc /\ rs'[s].i = rs[s].i /\ rs'[s].half = rs[s].half /\ rs'[s].rem = rs[s].rem

LEMMA StepMoves ==
  ASSUME SetupTypes, NEW s \in Side, rs[s].pc < 19, rs[s].pc \notin {9, 12, 14, 16}, Step(s)
  PROVE  Moved(s)
<1>1. rs[s] \in Proc /\ rs \in [Side -> Proc] /\ Peer(s) \in Side /\ Peer(s) # s
  BY DEF SetupTypes, Peer, Side
<1>2. rs'[Peer(s)] = rs[Peer(s)]
  BY <1>1 DEF Step
<1>3. rs'[s] = [[[[rs[s] EXCEPT !.pc = @ + 1] EXCEPT !.i = 0] EXCEPT !.half = 0] EXCEPT !.rem = 0]
  BY <1>1 DEF Step
<1>4. rs'[s] = [st |-> rs[s].st, pc |-> rs[s].pc + 1, i |-> 0, half |-> 0, rem |-> 0]
  BY <1>1, <1>3 DEF Proc
<1>5. rs[s].st \in {"run", "exited", "crashed", "stray", "error", "done"} /\ rs[s].pc + 1 \in 1 .. 19
  BY <1>1 DEF Proc
<1>6. rs'[s] \in Proc
  BY <1>4, <1>5 DEF Proc
<1>7. rs' \in [Side -> Proc]
  BY <1>1, <1>2, <1>6 DEF Step, Side, Peer
<1> QED BY <1>2, <1>4, <1>7 DEF Moved

LEMMA NextMoves ==
  ASSUME SetupTypes, Matched, NEW s \in Side, rs[s].pc < 19, NextQp(s)
  PROVE  Moved(s)
<1>1. rs[s] \in Proc /\ rs \in [Side -> Proc] /\ Peer(s) \in Side /\ Peer(s) # s
  BY DEF SetupTypes, Peer, Side
<1>2. StepOf(s) \in {"qp", "shake", "connect", "shake2"} <=> rs[s].pc \in {9, 12, 14, 16}
  BY StepIs
<1>3. NumQps(opt[s]) = N /\ N \in {1, 2} /\ rs[s].i \in 0 .. 1
  BY <1>1, Setting DEF Proc
<1>4. CASE rs[s].pc \in {9, 12, 14, 16} /\ rs[s].i + 1 < N
  <2>1. rs' = [rs EXCEPT ![s].i = @ + 1, ![s].half = 0] /\ rs[s].i + 1 \in 0 .. 1
    BY <1>2, <1>3, <1>4 DEF NextQp
  <2>2. rs'[Peer(s)] = rs[Peer(s)]
    BY <1>1, <2>1
  <2>3. rs'[s] = [[rs[s] EXCEPT !.i = @ + 1] EXCEPT !.half = 0]
    BY <1>1, <2>1
  <2>4. rs'[s] = [st |-> rs[s].st, pc |-> rs[s].pc, i |-> rs[s].i + 1, half |-> 0, rem |-> rs[s].rem]
    BY <1>1, <2>3 DEF Proc
  <2>5. /\ rs[s].st \in {"run", "exited", "crashed", "stray", "error", "done"}
        /\ rs[s].pc \in 1 .. 19 /\ rs[s].rem \in Nat
    BY <1>1 DEF Proc
  <2>8. rs[s].i + 1 \in 0 .. 1
    BY <2>1
  <2>6. rs'[s] \in Proc
    BY <2>4, <2>5, <2>8 DEF Proc
  <2>7. rs' \in [Side -> Proc]
    BY <1>1, <2>1, <2>2, <2>6 DEF Side, Peer
  <2> QED BY <1>4, <2>2, <2>4, <2>7 DEF Moved
<1>5. CASE ~(rs[s].pc \in {9, 12, 14, 16} /\ rs[s].i + 1 < N)
  <2>1. Step(s) /\ (rs[s].pc \in {9, 12, 14, 16} => rs[s].i + 1 >= N)
    BY <1>2, <1>3, <1>5 DEF NextQp
  <2>2. rs'[Peer(s)] = rs[Peer(s)]
    BY <1>1, <2>1 DEF Step
  <2>3. rs'[s] = [[[[rs[s] EXCEPT !.pc = @ + 1] EXCEPT !.i = 0] EXCEPT !.half = 0] EXCEPT !.rem = 0]
    BY <1>1, <2>1 DEF Step
  <2>4. rs'[s] = [st |-> rs[s].st, pc |-> rs[s].pc + 1, i |-> 0, half |-> 0, rem |-> 0]
    BY <1>1, <2>3 DEF Proc
  <2>5. rs[s].st \in {"run", "exited", "crashed", "stray", "error", "done"} /\ rs[s].pc + 1 \in 1 .. 19
    BY <1>1 DEF Proc
  <2>6. rs'[s] \in Proc
    BY <2>4, <2>5 DEF Proc
  <2>7. rs' \in [Side -> Proc]
    BY <1>1, <2>1, <2>2, <2>6 DEF Step, Side, Peer
  <2> QED BY <2>1, <2>2, <2>4, <2>7 DEF Moved
<1> QED BY <1>4, <1>5

LEMMA EndsDies ==
  ASSUME SetupTypes, NEW s \in Side, rs[s].st = "run",
         NEW how \in {"exited", "crashed", "stray", "error", "done"}, Ends(s, how)
  PROVE  Died(s)
<1>1. rs[s] \in Proc /\ rs \in [Side -> Proc] /\ Peer(s) \in Side /\ Peer(s) # s
  BY DEF SetupTypes, Peer, Side
<1>2. rs' = [rs EXCEPT ![s] = [@ EXCEPT !.st = how]]
  BY <1>1 DEF Ends
<1>3. [rs[s] EXCEPT !.st = how] \in Proc
  BY <1>1 DEF Proc
<1> QED BY <1>1, <1>2, <1>3 DEF Died, Proc

LEMMA FailedDies ==
  ASSUME SetupTypes, NEW s \in Side, rs[s].st = "run", Failed(s)
  PROVE  Died(s) /\ rs'[s].st \in {"exited", "crashed", "stray"}
<1>1. PICK how \in {"exited", "crashed", "stray"} : Ends(s, how)
  BY DEF Failed, LatFails, DemoFails
<1>2. rs'[s].st = how
  BY <1>1 DEF Ends, SetupTypes, Proc
<1> QED BY <1>1, <1>2, EndsDies

\* The first half of an exchange, and a change of the part of the run.
Halved(s, v) ==
  /\ rs' \in [Side -> Proc]
  /\ rs'[Peer(s)] = rs[Peer(s)]
  /\ rs'[s].st = rs[s].st /\ rs'[s].pc = rs[s].pc /\ rs'[s].i = rs[s].i
  /\ rs'[s].half = 1 /\ rs'[s].rem = v

LEMMA HalfHalves ==
  ASSUME SetupTypes, NEW s \in Side, NEW v \in Nat, rs[s].half = 0, HalfDone(s, v)
  PROVE  Halved(s, v)
<1>1. rs[s] \in Proc /\ rs \in [Side -> Proc] /\ Peer(s) \in Side /\ Peer(s) # s
  BY DEF SetupTypes, Peer, Side
<1>2. rs' = [rs EXCEPT ![s].half = 1, ![s].rem = v]
  BY DEF HalfDone
<1>3. rs'[s] = [[rs[s] EXCEPT !.half = 1] EXCEPT !.rem = v] /\ rs'[Peer(s)] = rs[Peer(s)]
  BY <1>1, <1>2
<1>4. rs'[s] = [st |-> rs[s].st, pc |-> rs[s].pc, i |-> rs[s].i, half |-> 1, rem |-> v]
  BY <1>1, <1>3 DEF Proc
<1>5. /\ rs[s].st \in {"run", "exited", "crashed", "stray", "error", "done"}
      /\ rs[s].pc \in 1 .. 19 /\ rs[s].i \in 0 .. 1
  BY <1>1 DEF Proc
<1>6. rs'[s] \in Proc
  BY <1>4, <1>5 DEF Proc
<1>7. rs' \in [Side -> Proc]
  BY <1>1, <1>2, <1>3, <1>6 DEF Side, Peer
<1> QED BY <1>3, <1>4, <1>7 DEF Halved

Turned(s) ==
  /\ rs' \in [Side -> Proc]
  /\ rs'[Peer(s)] = rs[Peer(s)]
  /\ rs[s].st = "run" /\ rs'[s].st = "run" /\ rs[s].pc = 19 /\ rs'[s].pc = 19
  /\ rs'[s].i = rs[s].i /\ rs'[s].rem = rs[s].rem

LEMMA RunTurns ==
  ASSUME SetupTypes, NEW s \in Side, At(s, "run"), NEW h \in 0 .. 2, rs' = [rs EXCEPT ![s].half = h]
  PROVE  Turned(s) /\ rs'[s].half = h
<1>1. rs[s] \in Proc /\ rs \in [Side -> Proc] /\ Peer(s) \in Side /\ Peer(s) # s
  BY DEF SetupTypes, Peer, Side
<1>2. rs[s].st = "run" /\ rs[s].pc = 19
  BY StepIs DEF At
<1>3. rs'[s] = [rs[s] EXCEPT !.half = h] /\ rs'[Peer(s)] = rs[Peer(s)]
  BY <1>1
<1>4. rs'[s] = [st |-> rs[s].st, pc |-> rs[s].pc, i |-> rs[s].i, half |-> h, rem |-> rs[s].rem]
  BY <1>1, <1>3 DEF Proc
<1>5. rs[s].i \in 0 .. 1 /\ rs[s].rem \in Nat
  BY <1>1 DEF Proc
<1>6. rs'[s] \in Proc
  BY <1>2, <1>4, <1>5 DEF Proc
<1>7. rs' \in [Side -> Proc]
  BY <1>1, <1>3, <1>6 DEF Side, Peer
<1> QED BY <1>2, <1>3, <1>4, <1>7 DEF Turned

-----------------------------------------------------------------------------
(* Types.                                                                  *)

LEMMA DeviceTypes ==
  ASSUME SetupTypes, NEW s \in Side, Device(s)
  PROVE  /\ SetupTypes' /\ Moved(s) /\ rs[s].pc = 1 /\ rs[s].st = "run"
         /\ \E g \in {"none", "v4", "v6"} : opt' = [opt EXCEPT ![s].gid = g]
<1>1. PICK g \in {"none", "v4", "v6"} : opt' = [opt EXCEPT ![s].gid = g]
  BY DEF Device, SetupTypes, Options
<1>2. rs[s].pc = 1 /\ rs[s].st = "run" /\ Step(s)
  BY StepIs DEF Device, At
<1>3. Moved(s)
  BY <1>2, StepMoves
<1>4. opt' \in [Side -> Options]
  <2>1. opt[s] \in Options /\ opt \in [Side -> Options]
    BY DEF SetupTypes
  <2>2. [opt[s] EXCEPT !.gid = g] \in Options
    BY <2>1 DEF Options
  <2>3. opt' = [opt EXCEPT ![s] = [opt[s] EXCEPT !.gid = g]]
    BY <1>1, <2>1
  <2> QED BY <2>1, <2>2, <2>3
<1> QED BY <1>1, <1>2, <1>3, <1>4 DEF Device, SetupTypes, run0, Moved

LEMMA ConnectTypes ==
  ASSUME SetupTypes, Listen \/ Accept \/ ClientConnect
  PROVE  SetupTypes'
<1>1. CASE Listen
  BY <1>1 DEF Listen, SetupTypes, run0, Sock, Side
<1>2. CASE Accept
  <2>1. rs["server"].pc = 2 /\ Step("server")
    BY <1>2, StepIs DEF Accept, At, Side
  <2>2. rs' \in [Side -> Proc]
    BY <2>1, StepMoves DEF Moved, Side
  <2> QED BY <1>2, <2>2 DEF Accept, SetupTypes, run0, Sock, Side
<1>3. CASE ClientConnect
  <2>1. rs["client"].pc = 2 /\ rs["client"].st = "run"
    BY <1>3, StepIs DEF ClientConnect, At, Side
  <2>2. Step("client") \/ Failed("client")
    BY <1>3 DEF ClientConnect
  <2>3. rs' \in [Side -> Proc]
    BY <2>1, <2>2, StepMoves, FailedDies DEF Moved, Died, Side
  <2>4. sock' \in [Side -> Sock]
    <3>1. sock \in [Side -> Sock] /\ sock["client"] \in Sock /\ "client" \in Side
      BY DEF SetupTypes, Side
    <3>2. [sock["client"] EXCEPT !.state = "connected"] \in Sock
      BY <3>1 DEF Sock
    <3>3. sock' = sock \/ sock' = [sock EXCEPT !["client"] = [sock["client"] EXCEPT !.state = "connected"]]
      BY <1>3, <3>1 DEF ClientConnect
    <3> QED BY <3>1, <3>2, <3>3
  <2> QED BY <1>3, <2>3, <2>4 DEF ClientConnect, SetupTypes, run0
<1> QED BY <1>1, <1>2, <1>3

LEMMA FaultTypes ==
  ASSUME rfaults \in 0 .. MaxRFaults, Fault
  PROVE  rfaults' \in 0 .. MaxRFaults /\ rfaults' # 0
BY RdmaSetupAssumption DEF Fault

LEMMA FailTypes ==
  ASSUME SetupTypes, NEW s \in Side, CallFails(s) \/ NoVersion(s)
  PROVE  SetupTypes' /\ Died(s)
<1>1. rs[s].st = "run" /\ (Failed(s) \/ Ends(s, "exited"))
  BY DEF CallFails, NoVersion, At
<1>2. Died(s)
  BY <1>1, FailedDies, EndsDies
<1>3. rfaults' \in 0 .. MaxRFaults
  BY FaultTypes DEF CallFails, NoVersion, SetupTypes
<1> QED BY <1>2, <1>3 DEF CallFails, NoVersion, SetupTypes, run0, Died

LEMMA SetupAllocTypes ==
  ASSUME SetupTypes, NEW s \in Side, Alloc(s) \/ InitCtx(s) \/ GidCheck(s)
  PROVE  SetupTypes'
<1>1. rs[s].st = "run" /\ rs[s].pc \in {7, 8, 13} /\ (Step(s) \/ Failed(s))
  BY StepIs DEF Alloc, InitCtx, GidCheck, At
<1>2. rs' \in [Side -> Proc]
  BY <1>1, StepMoves, FailedDies DEF Moved, Died
<1>3. poll' \in [Side -> -1 .. LatIters]
  <2>1. 0 \in -1 .. LatIters
    BY RdmaSetupAssumption
  <2>2. poll' = poll \/ poll' = [poll EXCEPT ![s] = 0]
    BY DEF Alloc, InitCtx, GidCheck, Cleared, run0
  <2> QED BY <2>1, <2>2 DEF SetupTypes
<1> QED BY <1>2, <1>3 DEF Alloc, InitCtx, GidCheck, SetupTypes, run0

LEMMA CreateQpTypes ==
  ASSUME SetupTypes, Matched, NEW s \in Side, CreateQp(s)
  PROVE  /\ SetupTypes' /\ Moved(s)
         /\ \E q \in QpRec : /\ rqp' = [rqp EXCEPT ![s][rs[s].i] = q]
                            /\ q.st \in {"reset", "init"}
<1>1. rs[s].st = "run" /\ rs[s].pc = 9 /\ NextQp(s)
  BY StepIs DEF CreateQp, At
<1>2. Moved(s)
  BY <1>1, NextMoves
<1>3. PICK q : rqp' = [rqp EXCEPT ![s][rs[s].i] = q] /\ q \in QpRec /\ q.st \in {"reset", "init"}
  <2>1. [NewQp EXCEPT !.st = "reset"] = [st |-> "reset", to |-> NoQp, rq |-> 0, sq |-> 0]
    BY DEF NewQp
  <2>2. \A q \in QpRec : ToInit(q) \in QpRec /\ ToInit(q).st = "init"
    BY DEF ToInit, QpRec
  <2>4. [NewQp EXCEPT !.st = "reset"] \in QpRec /\ [NewQp EXCEPT !.st = "reset"].st = "reset"
    BY <2>1 DEF QpRec, QpRef, NoQp
  <2>3. \E q : /\ q = [NewQp EXCEPT !.st = "reset"] \/ q = ToInit([NewQp EXCEPT !.st = "reset"])
              /\ rqp' = [rqp EXCEPT ![s][rs[s].i] = q]
    BY DEF CreateQp
  <2> QED BY <2>2, <2>3, <2>4
<1>4. rqp' \in [Side -> [0 .. 1 -> QpRec]]
  BY <1>3 DEF SetupTypes
<1>5. rfaults' \in 0 .. MaxRFaults
  BY FaultTypes DEF CreateQp, SetupTypes
<1> QED BY <1>2, <1>3, <1>4, <1>5 DEF CreateQp, SetupTypes, run0, Moved

LEMMA DestTypes ==
  ASSUME SetupTypes, Matched, NEW s \in Side, Dest(s)
  PROVE  SetupTypes' /\ Moved(s) /\ rs[s].pc \in {10, 15} /\ rs[s].st = "run"
<1>1. rs[s].st = "run" /\ rs[s].pc \in {10, 15} /\ Step(s)
  BY StepIs DEF Dest, At
<1>2. Moved(s)
  BY <1>1, StepMoves
<1>3. mine' \in [Side -> [0 .. 1 -> DestRec]]
  <2>1. CASE mine' = mine
    BY <2>1 DEF SetupTypes
  <2>2. CASE \E v4 \in BOOLEAN :
               mine' = [mine EXCEPT ![s] = [i \in 0 .. 1 |->
                 IF i >= NumQps(opt[s]) THEN NoDest
                 ELSE [qpn |-> QpNum(s, i), psn |-> @[i].psn + 1, slot |-> Slot(opt[s], i), v4 |-> v4]]]
    <3>1. PICK v4 \in BOOLEAN :
               mine' = [mine EXCEPT ![s] = [i \in 0 .. 1 |->
                 IF i >= NumQps(opt[s]) THEN NoDest
                 ELSE [qpn |-> QpNum(s, i), psn |-> @[i].psn + 1, slot |-> Slot(opt[s], i), v4 |-> v4]]]
      BY <2>2
    <3>2. ASSUME NEW i \in 0 .. 1
          PROVE  (IF i >= NumQps(opt[s]) THEN NoDest
                  ELSE [qpn |-> QpNum(s, i), psn |-> mine[s][i].psn + 1, slot |-> Slot(opt[s], i), v4 |-> v4])
                 \in DestRec
      <4>1. NoDest \in DestRec
        BY DEF NoDest, DestRec, QpRef, NoQp
      <4>2. QpNum(s, i) \in QpRef
        BY DEF QpNum, QpRef, NoQp
      <4>3. Slot(opt[s], i) \in Nat
        BY DEF Slot, NumQps
      <4>4. mine[s][i].psn + 1 \in Nat
        BY DEF SetupTypes, DestRec
      <4> QED BY <4>1, <4>2, <4>3, <4>4 DEF DestRec
    <3> QED BY <3>1, <3>2 DEF SetupTypes
  <2> QED BY <2>1, <2>2 DEF Dest
<1>4. rfaults' \in 0 .. MaxRFaults
  BY FaultTypes DEF Dest, SetupTypes
<1> QED BY <1>1, <1>2, <1>3, <1>4 DEF Dest, SetupTypes, run0, Moved

LEMMA ConnectQpTypes ==
  ASSUME SetupTypes, Matched, NEW s \in Side, ConnectQp(s)
  PROVE  SetupTypes'
<1>1. rs[s].st = "run" /\ rs[s].pc = 14 /\ (NextQp(s) \/ Failed(s))
  BY StepIs DEF ConnectQp, At
<1>2. rs' \in [Side -> Proc]
  BY <1>1, NextMoves, FailedDies DEF Moved, Died
<1>3. rs[s].i \in 0 .. 1 /\ (N = 2 => 1 - rs[s].i \in 0 .. 1)
  BY DEF SetupTypes, Proc
<1>4. DestOf(s, rs[s].i) \in DestRec /\ mine[s][rs[s].i] \in DestRec /\ rqp[s][rs[s].i] \in QpRec
  BY <1>3, Setting DEF DestOf, SetupTypes
<1>5. Rtr(s, rqp[s][rs[s].i], DestOf(s, rs[s].i)) \in QpRec
  BY <1>4 DEF Rtr, QpRec, DestRec
<1>6. Rts(Rtr(s, rqp[s][rs[s].i], DestOf(s, rs[s].i)), mine[s][rs[s].i]) \in QpRec
  BY <1>4, <1>5 DEF Rts, QpRec, DestRec
<1>7. rqp' \in [Side -> [0 .. 1 -> QpRec]]
  <2>1. rqp' = rqp \/ \E q \in QpRec : rqp' = [rqp EXCEPT ![s][rs[s].i] = q]
    BY <1>5, <1>6 DEF ConnectQp
  <2>2. CASE \E q \in QpRec : rqp' = [rqp EXCEPT ![s][rs[s].i] = q]
    <3>1. PICK q \in QpRec : rqp' = [rqp EXCEPT ![s][rs[s].i] = q]
      BY <2>2
    <3> QED BY <3>1 DEF SetupTypes
  <2> QED BY <2>1, <2>2 DEF SetupTypes
<1>8. rfaults' \in 0 .. MaxRFaults
  BY FaultTypes DEF ConnectQp, SetupTypes
<1> QED BY <1>2, <1>7, <1>8 DEF ConnectQp, SetupTypes, run0

LEMMA SetWqesTypes ==
  ASSUME SetupTypes, Matched, NEW s \in Side, SetWqes(s)
  PROVE  SetupTypes' /\ Moved(s)
<1>1. rs[s].st = "run" /\ rs[s].pc = 18 /\ Step(s)
  BY StepIs DEF SetWqes, At
<1>2. Moved(s)
  BY <1>1, StepMoves
<1>3. DestOf(s, 0) \in DestRec /\ rqp[s][0] \in QpRec
  BY Setting DEF DestOf, SetupTypes
<1>4. wr' \in [Side -> [to : QpRef, slot : Nat]]
  BY <1>3 DEF SetWqes, SetupTypes, DestRec, QpRec
<1> QED BY <1>2, <1>4 DEF SetWqes, SetupTypes, Moved

LEMMA AgreedIs ==
  ASSUME NEW o \in Options, NEW step, NEW v \in Nat
  PROVE  /\ Agreed(o, step, v) \in Options
         /\ Agreed(o, step, v).cyc = (IF step = "cycle" THEN Larger(o.cyc, v) ELSE o.cyc)
         /\ Agreed(o, step, v).line = (IF step = "line" THEN Larger(o.line, v) ELSE o.line)
         /\ Agreed(o, step, v).mtu = (IF step = "mtu" THEN AgreedMtu(o.mtu, v) ELSE o.mtu)
         /\ Agreed(o, step, v).gid = o.gid /\ Agreed(o, step, v).conn = o.conn
         /\ Agreed(o, step, v).prog = o.prog /\ Agreed(o, step, v).nox = o.nox
<1>1. Larger(o.cyc, v) \in Nat /\ Larger(o.line, v) \in Nat /\ AgreedMtu(o.mtu, v) \in Nat
  BY DEF Larger, AgreedMtu, Options
<1>2. CASE step = "cycle"
  <2>1. Agreed(o, step, v) = [o EXCEPT !.cyc = Larger(o.cyc, v)]
    BY <1>2 DEF Agreed
  <2> QED BY <1>1, <1>2, <2>1 DEF Options
<1>3. CASE step = "line"
  <2>1. Agreed(o, step, v) = [o EXCEPT !.line = Larger(o.line, v)]
    BY <1>3 DEF Agreed
  <2> QED BY <1>1, <1>3, <2>1 DEF Options
<1>4. CASE step = "mtu"
  <2>1. Agreed(o, step, v) = [o EXCEPT !.mtu = AgreedMtu(o.mtu, v)]
    BY <1>4 DEF Agreed
  <2> QED BY <1>1, <1>4, <2>1 DEF Options
<1>5. CASE step \notin {"cycle", "line", "mtu"}
  <2>1. Agreed(o, step, v) = o
    BY <1>5 DEF Agreed
  <2> QED BY <1>5, <2>1
<1> QED BY <1>2, <1>3, <1>4, <1>5

LEMMA MessageTypes ==
  ASSUME SetupTypes, NEW s \in Side
  PROVE  Message(s) \in Seq(Piece) /\ (StepOf(s) \in Data => Value(s) \in Nat)
<1>1. StepOf(s) \in Data => Value(s) \in Nat
  BY DEF Value, SetupTypes, Options
<1>2. KeyOf(s) \in 0 .. 1
  BY DEF KeyOf, SetupTypes, Proc
<1>3. mine[s][KeyOf(s)] \in DestRec
  BY <1>2 DEF SetupTypes
<1>4. CASE StepOf(s) \in Data
  <2>1. Message(s) = <<[kind |-> "data", v |-> Value(s)]>>
    BY <1>4 DEF Message
  <2>2. [kind |-> "data", v |-> Value(s)] \in Piece
    BY <1>1, <1>4 DEF Piece
  <2> QED BY <1>1, <2>1, <2>2
<1>5. CASE StepOf(s) \notin Data
  <2>1. [kind |-> "key", v |-> mine[s][KeyOf(s)]] \in Piece
    BY <1>3 DEF Piece
  <2>2. [kind |-> "gid", v |-> mine[s][KeyOf(s)].v4] \in Piece
    BY <1>3 DEF Piece, DestRec
  <2>3. <<[kind |-> "key", v |-> mine[s][KeyOf(s)]]>> \in Seq(Piece)
    BY <2>1
  <2>4. (IF Long(s) THEN <<[kind |-> "gid", v |-> mine[s][KeyOf(s)].v4]>> ELSE <<>>) \in Seq(Piece)
    BY <2>2
  <2> HIDE DEF Piece
  <2> QED BY <1>5, <2>3, <2>4 DEF Message
<1> QED BY <1>1, <1>4, <1>5

Exchanging == {3, 4, 5, 6, 11, 12, 16, 17}

\* What a write does.
Wrote(s) ==
  /\ rs[s].st = "run" /\ rs[s].pc \in Exchanging /\ (rs[s].pc = 3 => ~opt[s].nox)
  /\ sock' = [sock EXCEPT ![s].sent = @ \o Message(s)]
  /\ s = "client" => rs[s].half = 0 /\ Halved(s, 0) /\ opt' = opt
  /\ s = "server" => /\ rs[s].half = 1 /\ Moved(s)
                     /\ opt' = [opt EXCEPT ![s] = IF StepOf(s) \in Data THEN Agreed(@, StepOf(s), rs[s].rem) ELSE @]
NotWritten(s) ==
  /\ Gone(Peer(s)) /\ Died(s) /\ rs'[s].st \in {"exited", "crashed", "stray"}
  /\ rs[s].pc \in Exchanging /\ rs[s].half = (IF s = "client" THEN 0 ELSE 1)
  /\ opt' = opt /\ sock' = sock

LEMMA WriteTypes ==
  ASSUME SetupTypes, Matched, NEW s \in Side, Write(s)
  PROVE  SetupTypes' /\ (Wrote(s) \/ NotWritten(s))
<1>1. /\ rs[s].st = "run" /\ rs[s].pc \in Exchanging /\ (rs[s].pc = 3 => ~opt[s].nox)
      /\ rs[s].half = (IF s = "client" THEN 0 ELSE 1)
  BY StepIs DEF Write, InExchange, Exchanging, Writes
<1>2. CASE /\ HalfDone(s, 0) /\ Terms(s, rs[s].rem)
           /\ sock' = [sock EXCEPT ![s].sent = @ \o Message(s)]
  <2>1. rs[s] \in Proc /\ opt[s] \in Options /\ sock[s] \in Sock /\ Message(s) \in Seq(Piece)
    BY MessageTypes DEF SetupTypes
  <2>2. s = "client" => Halved(s, 0) /\ opt' = opt
    BY <1>1, <1>2, HalfHalves DEF Terms
  <2>3. s = "server" => Moved(s)
    BY <1>1, <1>2, NextMoves DEF HalfDone, Side, Exchanging
  <2>4. s = "server" =>
          opt' = [opt EXCEPT ![s] = IF StepOf(s) \in Data THEN Agreed(@, StepOf(s), rs[s].rem) ELSE @]
    BY <1>1, <1>2 DEF Terms, SetupTypes, Side
  <2>5. Wrote(s)
    BY <1>1, <1>2, <2>2, <2>3, <2>4 DEF Wrote
  <2>6. opt' \in [Side -> Options]
    <3>1. rs[s].rem \in Nat
      BY <2>1 DEF Proc
    <3>2. Agreed(opt[s], StepOf(s), rs[s].rem) \in Options
      BY <2>1, <3>1, AgreedIs
    <3> QED BY <2>1, <2>2, <2>4, <3>2 DEF SetupTypes, Side
  <2>7. sock[s].sent \o Message(s) \in Seq(Piece) /\ sock[s].state \in {"none", "listening", "connected"}
    <3> HIDE DEF Piece
    <3> QED BY <2>1 DEF Sock
  <2>8. ASSUME NEW q \in Seq(Piece) PROVE [sock EXCEPT ![s].sent = q] \in [Side -> Sock]
    <3>1. [sock[s] EXCEPT !.sent = q] = [state |-> sock[s].state, sent |-> q]
      BY <2>1 DEF Sock
    <3>2. [state |-> sock[s].state, sent |-> q] \in Sock
      BY <2>7 DEF Sock
    <3> QED BY <3>1, <3>2 DEF SetupTypes
  <2>9. sock' \in [Side -> Sock]
    BY <1>2, <2>7, <2>8 DEF SetupTypes
  <2> QED BY <2>2, <2>3, <2>5, <2>6, <2>9 DEF Write, SetupTypes, run0, Halved, Moved, Side
<1>3. CASE Gone(Peer(s)) /\ (Broken(s) \/ Ends(s, "crashed")) /\ UNCHANGED <<opt, sock>>
  <2>1. Died(s) /\ rs'[s].st \in {"exited", "crashed", "stray"}
    <3>1. Failed(s) \/ Ends(s, "exited") \/ Ends(s, "crashed")
      BY <1>3 DEF Broken
    <3>2. \A how \in {"exited", "crashed"} : Ends(s, how) => rs'[s].st = how
      BY DEF Ends, SetupTypes, Proc
    <3> QED BY <1>1, <3>1, <3>2, FailedDies, EndsDies
  <2> QED BY <1>1, <1>3, <2>1 DEF Write, SetupTypes, run0, NotWritten, Died
<1> QED BY <1>2, <1>3 DEF Write

\* What a read does.
Size(s) == IF Long(s) THEN 2 ELSE 1
Whole(s) ==
  LET in == sock[Peer(s)].sent IN
  Len(in) >= Size(s) /\ in[1].kind = (IF StepOf(s) \in Data THEN "data" ELSE "key")
Got(s) == sock[Peer(s)].sent[1].v
Received(s) ==
  /\ rs[s].st = "run" /\ rs[s].pc \in Exchanging /\ (rs[s].pc = 3 => ~opt[s].nox) /\ Whole(s)
  /\ sock' = [sock EXCEPT ![Peer(s)].sent = SubSeq(@, Size(s) + 1, Len(@))]
  /\ StepOf(s) \in Data => Got(s) \in Nat /\ theirs' = theirs
  /\ StepOf(s) \in Keys =>
       /\ Got(s) \in DestRec
       /\ theirs' = [theirs EXCEPT ![s][KeyOf(s)] = IF Long(s) THEN Got(s) ELSE [Got(s) EXCEPT !.v4 = FALSE]]
  /\ s = "server" => /\ rs[s].half = 0 /\ Halved(s, IF StepOf(s) \in Data THEN Got(s) ELSE 0)
                     /\ opt' = opt
  /\ s = "client" => /\ rs[s].half = 1 /\ Moved(s)
                     /\ opt' = [opt EXCEPT ![s] = IF StepOf(s) \in Data THEN Agreed(@, StepOf(s), Got(s)) ELSE @]
  /\ rfaults' = rfaults
NotReceived(s) ==
  /\ Died(s) /\ rs'[s].st \in {"exited", "crashed", "stray"}
  /\ rs[s].pc \in Exchanging /\ rs[s].half = (IF s = "client" THEN 1 ELSE 0)
  /\ sock' = [sock EXCEPT ![Peer(s)].sent = <<>>]
  /\ \/ ~Whole(s) /\ (sock[Peer(s)].sent # <<>> \/ Gone(Peer(s)))
     \/ sock[Peer(s)].sent # <<>> /\ rfaults' # 0
  /\ opt' = opt /\ theirs' = theirs

LEMMA ReadTypes ==
  ASSUME SetupTypes, Matched, NEW s \in Side, ReadMsg(s)
  PROVE  SetupTypes' /\ (Received(s) \/ NotReceived(s))
<1>1. /\ rs[s].st = "run" /\ rs[s].pc \in Exchanging /\ (rs[s].pc = 3 => ~opt[s].nox)
      /\ rs[s].half = (IF s = "client" THEN 1 ELSE 0)
      /\ StepOf(s) \in Data \/ StepOf(s) \in Keys
      /\ ~(StepOf(s) \in Data /\ StepOf(s) \in Keys)
      /\ sock[Peer(s)].sent # <<>> \/ Gone(Peer(s))
  BY StepIs DEF ReadMsg, InExchange, Exchanging, Reads
<1>2. /\ rs[s] \in Proc /\ opt[s] \in Options /\ Peer(s) \in Side /\ sock[Peer(s)] \in Sock
      /\ sock[Peer(s)].sent \in Seq(Piece) /\ sock \in [Side -> Sock] /\ KeyOf(s) \in 0 .. 1
  BY DEF SetupTypes, Peer, Side, Sock, KeyOf, Proc
<1>3. ASSUME NEW q \in Seq(Piece) PROVE [sock EXCEPT ![Peer(s)].sent = q] \in [Side -> Sock]
  <2>1. [sock[Peer(s)] EXCEPT !.sent = q] = [state |-> sock[Peer(s)].state, sent |-> q]
    BY <1>2 DEF Sock
  <2>2. [state |-> sock[Peer(s)].state, sent |-> q] \in Sock
    BY <1>2 DEF Sock
  <2> QED BY <1>2, <2>1, <2>2
<1>4. CASE /\ Whole(s) /\ HalfDone(s, IF StepOf(s) \in Data THEN Got(s) ELSE 0)
           /\ sock' = [sock EXCEPT ![Peer(s)].sent = SubSeq(sock[Peer(s)].sent, Size(s) + 1, Len(sock[Peer(s)].sent))]
           /\ Terms(s, Got(s))
           /\ theirs' = IF StepOf(s) \in Data THEN theirs
                        ELSE [theirs EXCEPT ![s][KeyOf(s)] =
                                IF Size(s) = 2 THEN Got(s) ELSE [Got(s) EXCEPT !.v4 = FALSE]]
           /\ UNCHANGED rfaults
  <2>1. sock[Peer(s)].sent[1] \in Piece
    BY <1>2, <1>4 DEF Whole, Size
  <2>2. (StepOf(s) \in Data => Got(s) \in Nat) /\ (StepOf(s) \in Keys => Got(s) \in DestRec)
    BY <1>1, <1>4, <2>1 DEF Piece, Whole, Got
  <2>3. s = "server" => Halved(s, IF StepOf(s) \in Data THEN Got(s) ELSE 0) /\ opt' = opt
    <3>1. (IF StepOf(s) \in Data THEN Got(s) ELSE 0) \in Nat
      BY <2>2
    <3> QED BY <1>1, <1>4, <3>1, HalfHalves DEF Terms
  <2>4. s = "client" => Moved(s)
    BY <1>1, <1>4, NextMoves DEF HalfDone, Exchanging
  <2>5. s = "client" =>
          opt' = [opt EXCEPT ![s] = IF StepOf(s) \in Data THEN Agreed(@, StepOf(s), Got(s)) ELSE @]
    BY <1>1, <1>4 DEF Terms, SetupTypes
  <2>6. Size(s) = 2 <=> Long(s)
    BY DEF Size
  <2>7. Received(s)
    BY <1>1, <1>4, <2>2, <2>3, <2>4, <2>5, <2>6 DEF Received
  <2>8. opt' \in [Side -> Options]
    BY <1>2, <2>2, <2>3, <2>5, AgreedIs DEF SetupTypes, Side
  <2>9. theirs' \in [Side -> [0 .. 1 -> DestRec]]
    <3>1. CASE StepOf(s) \in Data
      BY <1>4, <3>1 DEF SetupTypes
    <3>2. CASE StepOf(s) \notin Data
      <4>1. Got(s) \in DestRec
        BY <1>1, <2>2, <3>2
      <4>2. [Got(s) EXCEPT !.v4 = FALSE] \in DestRec
        BY <4>1 DEF DestRec
      <4> QED BY <1>2, <1>4, <3>2, <4>1, <4>2 DEF SetupTypes
    <3> QED BY <3>1, <3>2
  <2>10. sock' \in [Side -> Sock]
    <3> HIDE DEF Piece
    <3>1. SubSeq(sock[Peer(s)].sent, Size(s) + 1, Len(sock[Peer(s)].sent)) \in Seq(Piece)
      BY <1>2 DEF Size
    <3> QED BY <1>3, <1>4, <3>1
  <2> QED BY <1>4, <2>3, <2>4, <2>7, <2>8, <2>9, <2>10 DEF ReadMsg, SetupTypes, run0, Halved, Moved, Side
<1>5. CASE /\ Broken(s) /\ sock' = [sock EXCEPT ![Peer(s)].sent = <<>>] /\ UNCHANGED <<opt, theirs>>
           /\ \/ ~Whole(s) /\ UNCHANGED rfaults
              \/ sock[Peer(s)].sent # <<>> /\ Fault
  <2>1. Died(s) /\ rs'[s].st \in {"exited", "crashed", "stray"}
    <3>1. Failed(s) \/ Ends(s, "exited")
      BY <1>5 DEF Broken
    <3>2. \A how \in {"exited", "crashed"} : Ends(s, how) => rs'[s].st = how
      BY DEF Ends, SetupTypes, Proc
    <3> QED BY <1>1, <3>1, <3>2, FailedDies, EndsDies
  <2>2. rfaults' \in 0 .. MaxRFaults /\ (Fault => rfaults' # 0)
    BY <1>5, FaultTypes DEF SetupTypes
  <2>4. <<>> \in Seq(Piece)
    OBVIOUS
  <2>3. sock' \in [Side -> Sock]
    BY <1>3, <1>5, <2>4
  <2> QED BY <1>1, <1>5, <2>1, <2>2, <2>3 DEF ReadMsg, SetupTypes, run0, NotReceived, Died
<1> QED BY <1>4, <1>5 DEF ReadMsg, Whole, Got, Size

LEMMA ItersAre ==
  ASSUME NEW s PROVE Iters(s) \in 1 .. LatIters
BY RdmaSetupAssumption DEF Iters

LEMMA PollByteTypes ==
  ASSUME SetupTypes, NEW s \in Side, PollByte(s)
  PROVE  /\ SetupTypes' /\ Turned(s) /\ rs[s].half = 0 /\ rs'[s].half = 1
         /\ IF Receives(s) /\ MustPoll(s)
            THEN /\ Sees(s, lat[s].rcnt + 1) /\ lat'[Peer(s)] = lat[Peer(s)]
                 /\ lat'[s] = [scnt |-> lat[s].scnt, rcnt |-> lat[s].rcnt + 1, ccnt |-> lat[s].ccnt]
            ELSE lat' = lat
<1>1. Turned(s) /\ rs[s].half = 0 /\ rs'[s].half = 1
  <2>1. At(s, "run") /\ rs[s].half = 0 /\ rs' = [rs EXCEPT ![s].half = 1] /\ 1 \in 0 .. 2
    BY DEF PollByte, Part
  <2> QED BY <2>1, RunTurns, Zenon
<1>2. lat[s] \in Counts /\ lat \in [Side -> Counts] /\ Peer(s) # s /\ Peer(s) \in Side
  BY DEF SetupTypes, Peer, Side
<1>3. CASE Receives(s) /\ MustPoll(s)
  <2>1. Sees(s, lat[s].rcnt + 1) /\ lat' = [lat EXCEPT ![s].rcnt = @ + 1] /\ lat[s].rcnt < Iters(s)
    BY <1>3 DEF PollByte, MustPoll
  <2>2. lat'[s] = [lat[s] EXCEPT !.rcnt = @ + 1] /\ lat'[Peer(s)] = lat[Peer(s)]
    BY <1>2, <2>1
  <2>3. lat'[s] = [scnt |-> lat[s].scnt, rcnt |-> lat[s].rcnt + 1, ccnt |-> lat[s].ccnt]
    BY <1>2, <2>2 DEF Counts
  <2>4. /\ lat[s].rcnt + 1 \in 0 .. LatIters /\ lat[s].scnt \in 0 .. LatIters
        /\ lat[s].ccnt \in 0 .. LatIters
    BY <1>2, <2>1, ItersAre, RdmaSetupAssumption DEF Counts
  <2>5. lat'[s] \in Counts
    BY <2>3, <2>4 DEF Counts
  <2>6. lat' \in [Side -> Counts]
    BY <1>2, <2>1, <2>2, <2>5 DEF Side, Peer
  <2> QED BY <1>1, <1>3, <2>1, <2>2, <2>3, <2>6 DEF PollByte, SetupTypes, setup, Turned
<1>4. CASE ~(Receives(s) /\ MustPoll(s))
  BY <1>1, <1>4 DEF PollByte, SetupTypes, setup, Turned
<1> QED BY <1>3, <1>4

\* What a post does.
Posted(s) ==
  /\ Sends(s) /\ lat[s].scnt < Iters(s) /\ lat'[Peer(s)] = lat[Peer(s)]
  /\ lat'[s] = [scnt |-> lat[s].scnt + 1, rcnt |-> lat[s].rcnt, ccnt |-> lat[s].ccnt]
  /\ \/ /\ flight' = [flight EXCEPT ![s] = lat[s].scnt + 1] /\ rfaults' = rfaults
        /\ Turned(s) /\ rs'[s].half = 2
     \/ flight' = flight /\ rfaults' # 0 /\ Died(s) /\ rs'[s].st = "error"

LEMMA PostTypes ==
  ASSUME SetupTypes, NEW s \in Side, Post(s)
  PROVE  /\ SetupTypes' /\ rs[s].st = "run" /\ rs[s].pc = 19 /\ rs[s].half = 1
         /\ \/ Posted(s)
            \/ /\ Turned(s) /\ rs'[s].half = 2 /\ lat' = lat /\ flight' = flight /\ rfaults' = rfaults
               /\ ~(Sends(s) /\ lat[s].scnt < Iters(s))
<1>1. rs[s].st = "run" /\ rs[s].pc = 19 /\ rs[s].half = 1
  BY StepIs DEF Post, At, Part
<1>2. lat[s] \in Counts /\ lat \in [Side -> Counts] /\ Peer(s) # s /\ Peer(s) \in Side
  BY DEF SetupTypes, Peer, Side
<1>3. CASE Sends(s) /\ lat[s].scnt < Iters(s)
  <2>1. lat' = [lat EXCEPT ![s].scnt = @ + 1] /\ lat[s].scnt < Iters(s)
    BY <1>3 DEF Post
  <2>2. lat'[s] = [lat[s] EXCEPT !.scnt = @ + 1] /\ lat'[Peer(s)] = lat[Peer(s)]
    BY <1>2, <2>1
  <2>3. lat'[s] = [scnt |-> lat[s].scnt + 1, rcnt |-> lat[s].rcnt, ccnt |-> lat[s].ccnt]
    BY <1>2, <2>2 DEF Counts
  <2>4. /\ lat[s].scnt + 1 \in 0 .. LatIters /\ lat[s].rcnt \in 0 .. LatIters
        /\ lat[s].ccnt \in 0 .. LatIters
    BY <1>2, <2>1, ItersAre, RdmaSetupAssumption DEF Counts
  <2>5. lat'[s] \in Counts
    BY <2>3, <2>4 DEF Counts
  <2>6. lat' \in [Side -> Counts]
    BY <1>2, <2>1, <2>2, <2>5 DEF Side, Peer
  <2>7. CASE /\ flight' = [flight EXCEPT ![s] = lat[s].scnt + 1] /\ rs' = [rs EXCEPT ![s].half = 2]
             /\ UNCHANGED rfaults
    <3>1. Turned(s) /\ rs'[s].half = 2
      <4>1. At(s, "run") /\ rs' = [rs EXCEPT ![s].half = 2] /\ 2 \in 0 .. 2
        BY <2>7 DEF Post
      <4> QED BY <4>1, RunTurns, Zenon
    <3>2. flight' \in [Side -> 0 .. LatIters]
      BY <2>4, <2>7 DEF SetupTypes
    <3> QED BY <1>1, <1>3, <2>1, <2>2, <2>3, <2>6, <2>7, <3>1, <3>2 DEF Post, SetupTypes, Turned, Posted
  <2>8. CASE Fault /\ Ends(s, "error") /\ UNCHANGED flight
    <3>1. Died(s) /\ rs'[s].st = "error"
      BY <1>1, <2>8, EndsDies DEF Ends, SetupTypes, Proc
    <3>2. rfaults' \in 0 .. MaxRFaults /\ rfaults' # 0
      BY <2>8, FaultTypes DEF SetupTypes
    <3> QED BY <1>1, <1>3, <2>1, <2>2, <2>3, <2>6, <2>8, <3>1, <3>2 DEF Post, SetupTypes, Died, Posted
  <2> QED BY <1>3, <2>7, <2>8 DEF Post
<1>4. CASE ~(Sends(s) /\ lat[s].scnt < Iters(s))
  <2>1. Turned(s) /\ rs'[s].half = 2
    <3>1. At(s, "run") /\ rs' = [rs EXCEPT ![s].half = 2] /\ 2 \in 0 .. 2
      BY <1>4 DEF Post
    <3> QED BY <3>1, RunTurns, Zenon
  <2> QED BY <1>1, <1>4, <2>1 DEF Post, SetupTypes, Turned
<1> QED BY <1>3, <1>4

\* What the end of an iteration does.
Completed(s) ==
  /\ scq[s] # <<>> /\ scq[s][1] # "unacked" /\ scq' = [scq EXCEPT ![s] = Tail(@)]
  /\ lat'[Peer(s)] = lat[Peer(s)]
  /\ \/ scq[s][1] = "error" /\ Died(s) /\ rs'[s].st = "error" /\ lat' = lat
     \/ /\ Turned(s) /\ rs'[s].half = 0 /\ lat[s].ccnt < Iters(s)
        /\ lat'[s] = [scnt |-> lat[s].scnt, rcnt |-> lat[s].rcnt, ccnt |-> lat[s].ccnt + 1]

LEMMA CompleteTypes ==
  ASSUME SetupTypes, NEW s \in Side, Complete(s)
  PROVE  /\ SetupTypes' /\ rs[s].st = "run" /\ rs[s].pc = 19 /\ rs[s].half = 2
         /\ \/ Completed(s) /\ Sends(s)
            \/ /\ Turned(s) /\ rs'[s].half = 0 /\ lat' = lat /\ scq' = scq
               /\ ~(Sends(s) /\ lat[s].ccnt < Iters(s))
<1>1. rs[s].st = "run" /\ rs[s].pc = 19 /\ rs[s].half = 2
  BY StepIs DEF Complete, At, Part
<1>2. lat[s] \in Counts /\ lat \in [Side -> Counts] /\ Peer(s) # s /\ Peer(s) \in Side
  BY DEF SetupTypes, Peer, Side
<1>3. IterDone(s) = [rs EXCEPT ![s].half = 0]
  BY DEF IterDone
<1>4. CASE Sends(s) /\ lat[s].ccnt < Iters(s)
  <2>1. scq[s] # <<>> /\ scq[s][1] # "unacked" /\ scq' = [scq EXCEPT ![s] = Tail(@)]
    BY <1>4 DEF Complete
  <2>2. scq' \in [Side -> Seq({"unacked", "ok", "error"})]
    BY <2>1 DEF SetupTypes
  <2>3. CASE scq[s][1] = "error"
    <3>1. Ends(s, "error") /\ UNCHANGED lat
      BY <1>4, <2>3 DEF Complete
    <3>2. Died(s) /\ rs'[s].st = "error"
      BY <1>1, <3>1, EndsDies DEF Ends, SetupTypes, Proc
    <3> QED BY <1>1, <1>4, <2>1, <2>2, <2>3, <3>1, <3>2 DEF Complete, SetupTypes, setup, Died, Completed
  <2>4. CASE scq[s][1] # "error"
    <3>1. lat' = [lat EXCEPT ![s].ccnt = @ + 1] /\ rs' = [rs EXCEPT ![s].half = 0]
      BY <1>3, <1>4, <2>4 DEF Complete
    <3>2. Turned(s) /\ rs'[s].half = 0
      <4>1. At(s, "run") /\ 0 \in 0 .. 2
        BY DEF Complete
      <4> QED BY <3>1, <4>1, RunTurns, Zenon
    <3>3. lat'[s] = [lat[s] EXCEPT !.ccnt = @ + 1] /\ lat'[Peer(s)] = lat[Peer(s)]
      BY <1>2, <3>1
    <3>4. lat'[s] = [scnt |-> lat[s].scnt, rcnt |-> lat[s].rcnt, ccnt |-> lat[s].ccnt + 1]
      BY <1>2, <3>3 DEF Counts
    <3>5. /\ lat[s].ccnt + 1 \in 0 .. LatIters /\ lat[s].scnt \in 0 .. LatIters
          /\ lat[s].rcnt \in 0 .. LatIters
      BY <1>2, <1>4, ItersAre, RdmaSetupAssumption DEF Counts
    <3>6. lat'[s] \in Counts
      BY <3>4, <3>5 DEF Counts
    <3>7. lat' \in [Side -> Counts]
      BY <1>2, <3>1, <3>3, <3>6 DEF Side, Peer
    <3> QED BY <1>1, <1>4, <2>1, <2>2, <3>2, <3>3, <3>4, <3>7 DEF Complete, SetupTypes, setup, Turned, Completed
  <2> QED BY <2>3, <2>4
<1>5. CASE ~(Sends(s) /\ lat[s].ccnt < Iters(s))
  <2>1. rs' = [rs EXCEPT ![s].half = 0] /\ UNCHANGED <<lat, scq>>
    BY <1>3, <1>5 DEF Complete
  <2>2. Turned(s) /\ rs'[s].half = 0
    <3>1. At(s, "run") /\ 0 \in 0 .. 2
      BY DEF Complete
    <3> QED BY <2>1, <3>1, RunTurns, Zenon
  <2> QED BY <1>1, <1>5, <2>1, <2>2 DEF Complete, SetupTypes, setup, Turned
<1> QED BY <1>4, <1>5

LEMMA FinishTypes ==
  ASSUME SetupTypes, NEW s \in Side, Finish(s)
  PROVE  SetupTypes' /\ Died(s) /\ rs'[s].st = "done" /\ rs[s].pc = 19 /\ Over(s)
<1>1. rs[s].st = "run" /\ rs[s].pc = 19 /\ Ends(s, "done") /\ Over(s)
  BY StepIs DEF Finish, At
<1>2. Died(s) /\ rs'[s].st = "done"
  BY <1>1, EndsDies DEF Ends, SetupTypes, Proc
<1> QED BY <1>1, <1>2 DEF Finish, SetupTypes, setup, Died

LEMMA DeviceStepTypes ==
  ASSUME SetupTypes, NEW s \in Side, Deliver(s) \/ Acknowledge(s)
  PROVE  SetupTypes'
<1>1. CASE Deliver(s)
  <2>1. flight' \in [Side -> 0 .. LatIters]
    BY <1>1, RdmaSetupAssumption DEF Deliver, SetupTypes
  <2>2. scq' \in [Side -> Seq({"unacked", "ok", "error"})]
    <3>1. \A a \in {"unacked", "error"} : Append(scq[s], a) \in Seq({"unacked", "ok", "error"})
      BY DEF SetupTypes
    <3>2. \E a \in {"unacked", "error"} : scq' = [scq EXCEPT ![s] = Append(scq[s], a)]
      BY <1>1 DEF Deliver, SetupTypes
    <3> QED BY <3>1, <3>2 DEF SetupTypes
  <2>3. flight[s] \in -1 .. LatIters
    BY RdmaSetupAssumption DEF SetupTypes
  <2>4. poll' \in [Side -> -1 .. LatIters]
    BY <1>1, <2>3 DEF Deliver, SetupTypes
  <2> QED BY <1>1, <2>1, <2>2, <2>4 DEF Deliver, SetupTypes, setup
<1>2. CASE Acknowledge(s)
  <2>1. scq[s] \in Seq({"unacked", "ok", "error"}) /\ scq[s] # <<>>
    BY <1>2 DEF Acknowledge, SetupTypes
  <2>2. \A a \in {"ok", "error"} : [scq[s] EXCEPT ![1] = a] \in Seq({"unacked", "ok", "error"})
    BY <2>1
  <2>3. scq' = [scq EXCEPT ![s] = [scq[s] EXCEPT ![1] = IF Gone(Peer(s)) THEN "error" ELSE "ok"]]
    BY <1>2 DEF Acknowledge, SetupTypes
  <2>4. scq' \in [Side -> Seq({"unacked", "ok", "error"})]
    BY <2>2, <2>3 DEF SetupTypes
  <2> QED BY <1>2, <2>4 DEF Acknowledge, SetupTypes, setup
<1> QED BY <1>1, <1>2

-----------------------------------------------------------------------------
(* Places and positions.                                                   *)

LEMMA PlaceIs ==
  ASSUME SetupTypes, Matched, Places, NEW s \in Side
  PROVE  /\ N \in {1, 2} /\ rs[s].pc \in 1 .. 19 /\ rs[s].i \in 0 .. 1 /\ rs[s].i < N /\ rs[s].half \in 0 .. 2
         /\ rs[s].i > 0 => rs[s].pc \in {9, 12, 14, 16}
         /\ rs[s].half > 0 => rs[s].pc \in Exchanging \cup {19}
         /\ rs[s].half = 2 => rs[s].pc = 19
BY Setting DEF SetupTypes, Proc, Places, Exchanging

LEMMA MovedPos ==
  ASSUME SetupTypes, Matched, Places, NEW s \in Side, Moved(s), N' = N
  PROVE  /\ rs[s].pc \in Exchanging => Pos(s)' = Pos(s) + 1
         /\ rs[s].pc \notin Exchanging => Pos(s)' = Pos(s) /\ Half(s) = 0
         /\ Half(s)' = 0 /\ Pos(Peer(s))' = Pos(Peer(s)) /\ Half(Peer(s))' = Half(Peer(s))
<1>1. /\ N \in {1, 2} /\ rs[s].pc \in 1 .. 19 /\ rs[s].i \in 0 .. 1 /\ rs[s].i < N
      /\ rs[s].i > 0 => rs[s].pc \in {9, 12, 14, 16}
      /\ rs[s].half > 0 => rs[s].pc \in Exchanging \cup {19}
      /\ rs[s].half \in 0 .. 2
  BY PlaceIs
<1>2. rs[s].pc \notin Exchanging => Half(s) = 0
  BY <1>1 DEF Half
<1>3. Half(s)' = 0
  BY DEF Half, Moved
<1>4. Pos(Peer(s))' = Pos(Peer(s)) /\ Half(Peer(s))' = Half(Peer(s))
  BY DEF Pos, PosOf, Half, Moved
<1>5. rs[s].pc \in Exchanging => Pos(s)' = Pos(s) + 1
  BY <1>1 DEF Pos, PosOf, Moved, Exchanging
<1>6. rs[s].pc \notin Exchanging => Pos(s)' = Pos(s)
  BY <1>1 DEF Pos, PosOf, Moved, Exchanging
<1> QED BY <1>2, <1>3, <1>4, <1>5, <1>6

LEMMA SamePos ==
  ASSUME NEW s \in Side, N' = N, rs'[s].pc = rs[s].pc, rs'[s].i = rs[s].i
  PROVE  Pos(s)' = Pos(s) /\ (rs'[s].half = rs[s].half \/ rs[s].pc = 19 => Half(s)' = Half(s))
BY DEF Pos, PosOf, Half

LEMMA PosBound ==
  ASSUME SetupTypes, Matched, Places, NEW s \in Side
  PROVE  /\ Pos(s) \in 0 .. 6 + 2 * N /\ Half(s) \in 0 .. 1
         /\ Half(s) = 1 => rs[s].pc \in Exchanging /\ rs[s].half = 1
         /\ rs[s].pc \in Exchanging => Half(s) = rs[s].half
         /\ (Pos(s) = 6 + 2 * N <=> rs[s].pc \in {18, 19}) /\ (Pos(s) = 0 <=> rs[s].pc \in 1 .. 3)
<1>1. /\ N \in {1, 2} /\ rs[s].pc \in 1 .. 19 /\ rs[s].i \in 0 .. 1 /\ rs[s].i < N /\ rs[s].half \in 0 .. 2
      /\ rs[s].i > 0 => rs[s].pc \in {9, 12, 14, 16}
      /\ rs[s].half > 0 => rs[s].pc \in Exchanging \cup {19}
      /\ rs[s].half = 2 => rs[s].pc = 19
  BY PlaceIs
<1>2. Pos(s) \in 0 .. 6 + 2 * N
  BY <1>1 DEF Pos, PosOf
<1>3. Half(s) \in 0 .. 1 /\ (Half(s) = 1 => rs[s].pc \in Exchanging /\ rs[s].half = 1)
  BY <1>1 DEF Half
<1>4. rs[s].pc \in Exchanging => Half(s) = rs[s].half
  BY DEF Half, Exchanging
<1>5. Pos(s) = 6 + 2 * N <=> rs[s].pc \in {18, 19}
  BY <1>1 DEF Pos, PosOf
<1>6. Pos(s) = 0 <=> rs[s].pc \in 1 .. 3
  BY <1>1 DEF Pos, PosOf
<1> QED BY <1>2, <1>3, <1>4, <1>5, <1>6

\* Two sides at exchanges of the same position are at the same exchange.
LEMMA SameExchange ==
  ASSUME SetupTypes, Matched, Places, Pos("client") = Pos("server"),
         rs["client"].pc \in Exchanging, rs["server"].pc \in Exchanging
  PROVE  rs["client"].pc = rs["server"].pc /\ rs["client"].i = rs["server"].i
<1>1. \A s \in Side :
         /\ N \in {1, 2} /\ rs[s].pc \in 1 .. 19 /\ rs[s].i \in 0 .. 1 /\ rs[s].i < N
         /\ rs[s].i > 0 => rs[s].pc \in {9, 12, 14, 16}
  BY PlaceIs
<1>2. "client" \in Side /\ "server" \in Side
  BY DEF Side
<1> QED BY <1>1, <1>2 DEF Pos, PosOf, Exchanging

LEMMA MovedPlaces ==
  ASSUME SetupTypes, Matched, Places, NEW s \in Side, Moved(s), N' = N, SetupTypes',
         \A t \in Side : opt'[t].nox = opt[t].nox
  PROVE  Places'
<1>1. /\ N \in {1, 2} /\ rs[s].pc \in 1 .. 19 /\ rs[s].i \in 0 .. 1 /\ rs[s].i < N
      /\ rs[s].i > 0 => rs[s].pc \in {9, 12, 14, 16}
  BY PlaceIs
<1>2. /\ rs'[s].i < N /\ (rs'[s].i > 0 => rs'[s].pc \in {9, 12, 14, 16}) /\ rs'[s].half = 0
      /\ rs'[Peer(s)] = rs[Peer(s)]
  BY <1>1 DEF Moved
<1>3. \A t \in Side : t = s \/ t = Peer(s)
  BY DEF Side, Peer
<1> QED BY <1>1, <1>2, <1>3 DEF Places

LEMMA MessageKept ==
  ASSUME NEW s \in Side, rs'[s].pc = rs[s].pc, rs'[s].i = rs[s].i, opt'[s] = opt[s], mine'[s] = mine[s]
  PROVE  Message(s)' = Message(s)
BY DEF Message, Value, Long, KeyOf, StepOf

\* Nothing that the conversation is about changes but the place of one side.
LEMMA TalkMoves ==
  ASSUME TalkInv, NEW s \in Side, Moved(s), rs[s].pc \notin Exchanging, rs[s].pc # 1, rs[s].st = "run",
         SetupTypes', opt' = opt, theirs' = theirs, \A t \in Side : sock'[t].sent = sock[t].sent,
         Told(s)', mine'[Peer(s)] = mine[Peer(s)],
         rs[s].pc = 13 => mine[s][0].v4 = theirs[s][0].v4
  PROVE  TalkInv'
<1> USE DEF TalkInv
<1>1. N' = N /\ Matched'
  BY DEF Matched, N
<1>2. Places'
  BY <1>1, MovedPlaces
<1>3. /\ Pos(s)' = Pos(s) /\ Half(s)' = 0 /\ Half(s) = 0
      /\ Pos(Peer(s))' = Pos(Peer(s)) /\ Half(Peer(s))' = Half(Peer(s))
  BY <1>1, MovedPos
<1>4. /\ Pos("client")' = Pos("client") /\ Half("client")' = Half("client")
      /\ Pos("server")' = Pos("server") /\ Half("server")' = Half("server")
  BY <1>3 DEF Side, Peer
<1>5. LockStep' /\ (Replied' <=> Replied) /\ (Asked' <=> Asked)
  BY <1>4 DEF LockStep, Replied, Asked
<1>6. \A t \in Side : rs'[t].st = rs[t].st
  BY DEF Moved, Side, Peer
<1>7. Stuck'
  BY <1>4, <1>6 DEF Stuck, Side
<1>8. KeysKnown'
  <2>1. Peer(s) \in Side /\ \A t \in Side : t = s \/ t = Peer(s)
    BY DEF Side, Peer
  <2>2. Told(Peer(s))'
    BY <1>1, <2>1 DEF KeysKnown, Told, GoodKey, Moved
  <2>3. ASSUME NEW t \in Side PROVE Known(t)'
    <3>1. Heard(t)' = Heard(t)
      BY <1>4 DEF Heard, Side
    <3> QED BY <1>1, <3>1 DEF KeysKnown, Known, GoodKey
  <2> QED BY <2>1, <2>2, <2>3 DEF KeysKnown
<1>11. Disagree'
  <2> SUFFICES ASSUME Mixed, \A t \in Side : rs'[t].pc > 1
               PROVE  /\ \A t \in Side : rs'[t].pc <= 13
                      /\ opt["client"].gid = "none" =>
                           Pos("server")' <= 4 /\ (Pos("server")' = 4 => Half("server")' = 0)
                      /\ opt["server"].gid = "none" =>
                           /\ rs'["client"].pc <= 11
                           /\ Pos("server")' <= 5 /\ (Pos("server")' = 5 => Half("server")' = 0)
    BY DEF Disagree, Mixed
  <2>1. /\ Peer(s) \in Side /\ (\A t \in Side : t = s \/ t = Peer(s)) /\ "client" \in Side /\ "server" \in Side
        /\ \A t \in Side : rs[t].pc \in 1 .. 19
    BY PlaceIs DEF Side, Peer
  <2>2. \A t \in Side : rs[t].pc > 1
    BY <2>1 DEF Moved
  <2>3. /\ \A t \in Side : rs[t].pc <= 13
        /\ opt["client"].gid = "none" => Pos("server") <= 4 /\ (Pos("server") = 4 => Half("server") = 0)
        /\ opt["server"].gid = "none" =>
             rs["client"].pc <= 11 /\ Pos("server") <= 5 /\ (Pos("server") = 5 => Half("server") = 0)
    BY <2>2 DEF Disagree
  <2>4. rs[s].pc # 13
    <3> SUFFICES ASSUME rs[s].pc = 13 PROVE FALSE
      OBVIOUS
    <3>1. N \in {1, 2} /\ Pos(s) = 5 + N /\ 0 \in 0 .. N - 1
      BY Setting DEF Pos, PosOf
    <3>2. Pos("server") >= 6
      BY <2>1, <3>1, PosBound DEF LockStep, Replied, Side
    <3>3. opt["client"].gid # "none" /\ opt["server"].gid # "none"
      BY <2>1, <2>3, <3>2, PosBound
    <3>4. GoodKey(s, 0, FALSE, mine[s][0])
      <4>1. \A i \in 0 .. N - 1 : GoodKey(s, i, FALSE, mine[s][i])
        <5>1. rs[s].pc > 10
          OBVIOUS
        <5> QED BY <5>1, Zenon DEF KeysKnown, Told
      <4> QED BY <3>1, <4>1, Zenon
    <3>5. Half(s) \in 0 .. 1
      BY PosBound
    <3>6. Heard(s) > 5
      BY <3>1, <3>5 DEF Heard
    <3>7. GoodKey(Peer(s), 0, FALSE, theirs[s][0])
      <4>1. \A i \in 0 .. N - 1 : Heard(s) > 5 + i => GoodKey(Peer(s), i, FALSE, theirs[s][i])
        BY DEF KeysKnown, Known
      <4>2. Heard(s) > 5 + 0 => GoodKey(Peer(s), 0, FALSE, theirs[s][0])
        BY <3>1, <4>1, Zenon
      <4>3. Heard(s) > 5 + 0
        BY <3>6
      <4> QED BY <4>2, <4>3, Zenon
    <3>8. mine[s][0].v4 = (opt[s].gid = "v4") /\ theirs[s][0].v4 = (opt[Peer(s)].gid = "v4")
      BY <3>3, <3>4, <3>7 DEF GoodKey
    <3>9. opt["client"].gid \in {"v4", "v6"} /\ opt["server"].gid \in {"v4", "v6"}
      BY <2>1, <3>3 DEF SetupTypes, Options
    <3>10. (opt[s].gid = "v4") <=> (opt[Peer(s)].gid = "v4")
      BY <3>8
    <3> QED BY <2>1, <3>9, <3>10 DEF Mixed, Side, Peer
  <2>5. rs'[s].pc <= 11
    BY <2>1, <2>3, <2>4 DEF Moved, Exchanging
  <2> QED BY <1>4, <2>1, <2>3, <2>5 DEF Moved
<1>9. CASE s = "client"
  <2>1. ~Asked /\ ~Replied /\ rs'["server"] = rs["server"]
    BY <1>3, <1>9 DEF Asked, Replied, Moved, Peer
  <2>2. ToServer'
    BY <1>5, <2>1 DEF ToServer, Side
  <2>3. ToClient'
    BY <1>5, <1>6, <2>1 DEF ToClient, Side
  <2>4. TermsKept'
    <3>1. rs["client"].pc \in 1 .. 19 /\ rs'["client"].pc \in 1 .. 19
      BY PlaceIs DEF SetupTypes, Proc, Side
    <3>2. /\ rs'["client"].pc > 4 => rs["client"].pc > 4
          /\ rs'["client"].pc > 5 => rs["client"].pc > 5
          /\ rs'["client"].pc > 6 => rs["client"].pc > 6
      BY <1>9, <3>1 DEF Moved, Exchanging
    <3> QED BY <2>1, <3>2 DEF TermsKept
  <2> QED BY <1>1, <1>2, <1>5, <1>7, <1>8, <1>11, <2>2, <2>3, <2>4
<1>10. CASE s = "server"
  <2>1. rs'["client"] = rs["client"] /\ rs'["server"].half = 0 /\ mine'["client"] = mine["client"]
    BY <1>10 DEF Moved, Peer
  <2>2. ToServer'
    <3>1. Message("client")' = Message("client")
      BY <2>1, MessageKept DEF Side
    <3>2. ~(rs["server"].pc = 12 \/ (rs["server"].pc = 11 /\ rs["server"].half = 1))
      BY <1>10 DEF Exchanging
    <3> QED BY <1>5, <1>6, <3>1, <3>2 DEF ToServer, Side
  <2>3. ToClient'
    <3>1. Answer' <=> Answer
      BY <1>1, <2>1 DEF Answer, GoodKey, TermsMet, Side
    <3> QED BY <1>5, <2>1, <3>1 DEF ToClient, Side
  <2>4. TermsKept'
    BY <2>1 DEF TermsKept
  <2> QED BY <1>1, <1>2, <1>5, <1>7, <1>8, <1>11, <2>2, <2>3, <2>4
<1> QED BY <1>9, <1>10 DEF Side

\* Nothing that the conversation is about changes.
LEMMA TalkStays ==
  ASSUME TalkInv, SetupTypes', opt' = opt, theirs' = theirs, mine' = mine,
         \A t \in Side : sock'[t].sent = sock[t].sent,
         rs' = rs \/ \E s \in Side : Turned(s)
  PROVE  TalkInv'
<1> USE DEF TalkInv
<1>1. N' = N /\ Matched'
  BY DEF Matched, N
<1>2. \A t \in Side : /\ rs'[t].pc = rs[t].pc /\ rs'[t].i = rs[t].i /\ rs'[t].rem = rs[t].rem
                      /\ rs'[t].st = rs[t].st
                      /\ rs[t].pc # 19 => rs'[t].half = rs[t].half
  BY DEF Turned, Side, Peer
<1>3. Places'
  <2>1. \A t \in Side : rs'[t].half \in 0 .. 2
    BY DEF SetupTypes, Proc
  <2> QED BY <1>1, <1>2, <2>1 DEF Places
<1>4. \A t \in Side : Pos(t)' = Pos(t) /\ Half(t)' = Half(t) /\ Heard(t)' = Heard(t)
  <2>1. \A t \in Side : Pos(t)' = Pos(t)
    BY <1>1, <1>2, SamePos
  <2>2. \A t \in Side : Half(t)' = Half(t)
    BY <1>1, <1>2 DEF Half
  <2> QED BY <2>1, <2>2 DEF Heard
<1>5. "client" \in Side /\ "server" \in Side
  BY DEF Side
<1>6. LockStep' /\ (Replied' <=> Replied) /\ (Asked' <=> Asked)
  BY <1>4, <1>5 DEF LockStep, Replied, Asked
<1>7. Stuck'
  BY <1>2, <1>4, <1>5 DEF Stuck
<1>8. KeysKnown'
  BY <1>1, <1>2, <1>4 DEF KeysKnown, Told, Known, GoodKey
<1>9. ToServer'
  <2>1. Message("client")' = Message("client")
    BY <1>2, <1>5, MessageKept
  <2>2. sock'["client"].sent = sock["client"].sent
    BY <1>5
  <2>3. /\ rs'["server"].pc = rs["server"].pc /\ rs'["server"].st = rs["server"].st
        /\ rs["server"].pc = 11 => rs'["server"].half = rs["server"].half
    BY <1>2, <1>5
  <2> QED BY <1>6, <2>1, <2>2, <2>3 DEF ToServer
<1>10. ToClient'
  <2>1. Answer' <=> Answer
    BY <1>1, <1>2, <1>5 DEF Answer, GoodKey, TermsMet
  <2> QED BY <1>2, <1>5, <1>6, <2>1 DEF ToClient
<1>11. TermsKept'
  BY <1>2, <1>5 DEF TermsKept
<1>12. Disagree'
  BY <1>2, <1>4, <1>5 DEF Disagree, Mixed
<1> QED BY <1>1, <1>3, <1>6, <1>7, <1>8, <1>9, <1>10, <1>11, <1>12

\* A process ends; what it did not read is lost.
LEMMA TalkEnds ==
  ASSUME TalkInv, SetupTypes', opt' = opt, theirs' = theirs, mine' = mine, NEW s \in Side, Died(s),
         sock' = sock \/ sock' = [sock EXCEPT ![Peer(s)].sent = <<>>],
         s = "client" /\ Pos("server") = Pos("client") /\ Half("client") = 1 => rs["server"].st # "run"
  PROVE  TalkInv'
<1> USE DEF TalkInv
<1>1. N' = N /\ Matched'
  BY DEF Matched, N
<1>2. \A t \in Side : /\ rs'[t].pc = rs[t].pc /\ rs'[t].i = rs[t].i /\ rs'[t].rem = rs[t].rem
                      /\ rs'[t].half = rs[t].half /\ (rs'[t].st = "run" => rs[t].st = "run" /\ t # s)
  BY DEF Died, Side, Peer
<1>3. Places'
  BY <1>1, <1>2 DEF Places
<1>4. \A t \in Side : Pos(t)' = Pos(t) /\ Half(t)' = Half(t) /\ Heard(t)' = Heard(t)
  <2>1. \A t \in Side : Pos(t)' = Pos(t)
    BY <1>1, <1>2, SamePos
  <2>2. \A t \in Side : Half(t)' = Half(t)
    BY <1>1, <1>2 DEF Half
  <2> QED BY <2>1, <2>2 DEF Heard
<1>5. "client" \in Side /\ "server" \in Side /\ Peer("client") = "server" /\ Peer("server") = "client"
  BY DEF Side, Peer
<1>6. LockStep' /\ (Replied' <=> Replied) /\ (Asked' <=> Asked)
  BY <1>4, <1>5 DEF LockStep, Replied, Asked
<1>7. Stuck'
  <2>1. s = "client" \/ rs'["client"] = rs["client"]
    BY DEF Died, Side, Peer
  <2> QED BY <1>2, <1>4, <1>5, <2>1 DEF Stuck
<1>8. KeysKnown'
  BY <1>1, <1>2, <1>4 DEF KeysKnown, Told, Known, GoodKey
<1>9. ToServer'
  <2> SUFFICES ASSUME rs'["server"].st = "run" PROVE ToServer'
    BY DEF ToServer
  <2>1. s = "client" /\ rs["server"].st = "run"
    BY <1>2, <1>5 DEF Side
  <2>2. Message("client")' = Message("client")
    BY <1>2, <1>5, MessageKept
  <2>3. sock'["client"].sent = sock["client"].sent
    BY <1>5, <2>1 DEF SetupTypes, Sock
  <2> QED BY <1>2, <1>5, <1>6, <2>1, <2>2, <2>3 DEF ToServer
<1>10. ToClient'
  <2> SUFFICES ASSUME rs'["client"].st = "run" PROVE ToClient'
    BY DEF ToClient
  <2>1. s = "server" /\ rs["client"].st = "run"
    BY <1>2, <1>5 DEF Side
  <2>2. sock'["server"].sent = sock["server"].sent
    BY <1>5, <2>1 DEF SetupTypes, Sock
  <2>3. Answer' <=> Answer
    BY <1>1, <1>2, <1>5, <2>2 DEF Answer, GoodKey, TermsMet
  <2> QED BY <1>2, <1>5, <1>6, <2>1, <2>2, <2>3 DEF ToClient
<1>11. TermsKept'
  BY <1>2, <1>5 DEF TermsKept
<1>12. Disagree'
  BY <1>2, <1>4, <1>5 DEF Disagree, Mixed
<1> QED BY <1>1, <1>3, <1>6, <1>7, <1>8, <1>9, <1>10, <1>11, <1>12

\* A side that finds its device has spoken to nobody yet.
LEMMA TalkDevice ==
  ASSUME TalkInv, NEW s \in Side, Device(s)
  PROVE  TalkInv'
<1> USE DEF TalkInv
<1>1. /\ SetupTypes' /\ Moved(s) /\ rs[s].pc = 1 /\ rs[s].st = "run"
      /\ sock' = sock /\ mine' = mine /\ theirs' = theirs
  BY DeviceTypes DEF Device
<1>2. PICK g \in {"none", "v4", "v6"} : opt' = [opt EXCEPT ![s].gid = g]
  BY DeviceTypes
<1>3. \A t \in Side : /\ opt'[t].conn = opt[t].conn /\ opt'[t].prog = opt[t].prog /\ opt'[t].nox = opt[t].nox
                      /\ opt'[t].cyc = opt[t].cyc /\ opt'[t].line = opt[t].line /\ opt'[t].mtu = opt[t].mtu
                      /\ t # s => opt'[t] = opt[t]
  <2>1. opt'[s] = [opt[s] EXCEPT !.gid = g] /\ opt[s] \in Options /\ \A t \in Side : t # s => opt'[t] = opt[t]
    BY <1>2 DEF SetupTypes
  <2>2. /\ opt'[s].conn = opt[s].conn /\ opt'[s].prog = opt[s].prog /\ opt'[s].nox = opt[s].nox
        /\ opt'[s].cyc = opt[s].cyc /\ opt'[s].line = opt[s].line /\ opt'[s].mtu = opt[s].mtu
    BY <2>1 DEF Options
  <2> QED BY <2>1, <2>2
<1>4. "client" \in Side /\ "server" \in Side /\ Peer("client") = "server" /\ Peer("server") = "client"
  BY DEF Side, Peer
<1>5. N' = N /\ Matched'
  BY <1>3, <1>4 DEF Matched, N, NumQps, Paired
<1>6. Places'
  BY <1>1, <1>3, <1>5, MovedPlaces
<1>7. \A t \in Side : rs[t].pc \in 1 .. 19 /\ (Pos(t) = 0 <=> rs[t].pc \in 1 .. 3) /\ Pos(t) \in 0 .. 10 /\ Half(t) \in 0 .. 1
  BY PosBound, PlaceIs
<1>8. /\ Pos(s)' = 0 /\ Half(s)' = 0 /\ Pos(s) = 0 /\ Half(s) = 0
      /\ Pos(Peer(s))' = Pos(Peer(s)) /\ Half(Peer(s))' = Half(Peer(s))
  BY <1>1, <1>5, <1>7, MovedPos DEF Exchanging
<1>9. /\ Pos("client")' = Pos("client") /\ Half("client")' = Half("client")
      /\ Pos("server")' = Pos("server") /\ Half("server")' = Half("server")
  BY <1>4, <1>8 DEF Side
<1>10. LockStep' /\ (Replied' <=> Replied) /\ (Asked' <=> Asked)
  BY <1>9 DEF LockStep, Replied, Asked
<1>11. ~Replied /\ Pos("client") = 0 /\ Pos("server") = 0
  BY <1>4, <1>7, <1>8 DEF LockStep, Replied, Side
<1>12. \A t \in Side : rs[t].pc \in 1 .. 3 /\ rs'[t].pc \in 1 .. 3 /\ rs'[t].st = rs[t].st
  BY <1>1, <1>4, <1>7, <1>11 DEF Moved, Side
<1>13. \A t \in Side : Heard(t)' \in 0 .. 1
  BY <1>4, <1>7, <1>9, <1>11 DEF Heard, Side
<1>14. KeysKnown'
  <2>1. ASSUME NEW t \in Side PROVE Told(t)'
    <3>1. ~(rs'[t].pc > 10) /\ ~(rs'[t].pc > 15)
      BY <1>12
    <3> QED BY <3>1 DEF Told
  <2>2. N \in {1, 2}
    BY Setting
  <2>3. \A t \in Side, i \in 0 .. N - 1 : ~(Heard(t)' > 5 + i) /\ ~(Heard(t)' > 5 + N + i)
    BY <1>13, <2>2
  <2>4. \A t \in Side : Known(t)'
    BY <1>5, <2>3 DEF Known
  <2> QED BY <2>1, <2>4 DEF KeysKnown
<1>15. Stuck'
  BY <1>4, <1>9, <1>12 DEF Stuck
<1>16. ToServer'
  <2>1. Asked => s = "server" /\ rs'["client"] = rs["client"]
    BY <1>1, <1>4, <1>8 DEF Asked, Side, Moved
  <2>2. Asked => Message("client")' = Message("client")
    BY <1>1, <1>3, <1>4, <2>1, MessageKept
  <2> QED BY <1>1, <1>4, <1>10, <1>12, <2>2 DEF ToServer
<1>17. ToClient'
  BY <1>1, <1>4, <1>10, <1>11, <1>12 DEF ToClient
<1>18. TermsKept'
  BY <1>4, <1>12 DEF TermsKept
<1>19. Disagree'
  BY <1>4, <1>9, <1>11, <1>12 DEF Disagree
<1> QED BY <1>1, <1>5, <1>6, <1>10, <1>14, <1>15, <1>16, <1>17, <1>18, <1>19

\* A side that reads a key knows one more.
LEMMA KnownMore ==
  ASSUME SetupTypes, Matched, Places, NEW s \in Side, rs[s].pc \in Exchanging, Known(s),
         Heard(s) = Pos(s), Heard(s)' = Pos(s) + 1, N' = N,
         \A t \in Side : opt'[t].gid = opt[t].gid /\ opt'[t].conn = opt[t].conn,
         rs[s].pc <= 6 => theirs' = theirs,
         NEW d, rs[s].pc > 6 => /\ theirs' = [theirs EXCEPT ![s][rs[s].i] = d]
                               /\ GoodKey(Peer(s), rs[s].i, rs[s].pc > 15, d)
  PROVE  Known(s)'
<1>1. /\ N \in {1, 2} /\ rs[s].pc \in 1 .. 19 /\ rs[s].i \in 0 .. 1 /\ rs[s].i < N
      /\ rs[s].i > 0 => rs[s].pc \in {9, 12, 14, 16}
  BY PlaceIs
<1>2. /\ rs[s].pc <= 6 => Pos(s) < 4
      /\ rs[s].pc = 11 => Pos(s) = 4
      /\ rs[s].pc = 12 => Pos(s) = 5 + rs[s].i
      /\ rs[s].pc = 16 => Pos(s) = 5 + N + rs[s].i
      /\ rs[s].pc = 17 => Pos(s) = 5 + N + N /\ rs[s].i = 0
      /\ rs[s].pc \in Exchanging /\ rs[s].pc > 6 => rs[s].pc \in {11, 12, 16, 17}
  BY <1>1 DEF Pos, PosOf, Exchanging
<1>3. /\ "client" \in Side /\ "server" \in Side /\ Peer(s) \in Side
      /\ Pos(s) \in Nat /\ theirs \in [Side -> [0 .. 1 -> DestRec]]
  BY PosBound DEF Side, Peer, SetupTypes
<1> SUFFICES ASSUME NEW k \in 0 .. N - 1
             PROVE  /\ Pos(s) + 1 > 5 + k => GoodKey(Peer(s), k, FALSE, theirs[s][k])'
                    /\ Pos(s) + 1 > 5 + N + k => GoodKey(Peer(s), k, TRUE, theirs[s][k])'
  BY <1>1 DEF Known
<1>4. /\ Pos(s) > 5 + k => GoodKey(Peer(s), k, FALSE, theirs[s][k])
      /\ Pos(s) > 5 + N + k => GoodKey(Peer(s), k, TRUE, theirs[s][k])
  BY DEF Known
<1>5. CASE theirs'[s][k] = theirs[s][k] /\ ~(rs[s].pc > 6 /\ rs[s].i = k)
  <2>1. (Pos(s) + 1 > 5 + k => Pos(s) > 5 + k) /\ (Pos(s) + 1 > 5 + N + k => Pos(s) > 5 + N + k)
    BY <1>1, <1>2, <1>3, <1>5
  <2> QED BY <1>3, <1>4, <1>5, <2>1 DEF GoodKey
<1>6. CASE rs[s].pc > 6 /\ rs[s].i = k
  <2>1. theirs'[s][k] = d
    BY <1>1, <1>3, <1>6
  <2>2. Pos(s) + 1 > 5 + N + k => rs[s].pc > 15
    BY <1>1, <1>2, <1>6
  <2>3. Pos(s) + 1 > 5 + N + k => GoodKey(Peer(s), k, TRUE, d)
    BY <1>6, <2>2 DEF GoodKey
  <2>4. GoodKey(Peer(s), k, FALSE, d)
    BY <1>6 DEF GoodKey
  <2> QED BY <1>3, <2>1, <2>3, <2>4 DEF GoodKey
<1>7. ASSUME rs[s].pc <= 6 \/ rs[s].i # k PROVE theirs'[s][k] = theirs[s][k]
  <2>1. rs[s].pc <= 6 \/ rs[s].pc > 6
    BY <1>1
  <2>2. CASE rs[s].pc <= 6
    BY <2>2
  <2>3. CASE rs[s].pc > 6 /\ rs[s].i # k
    <3>1. theirs' = [theirs EXCEPT ![s][rs[s].i] = d]
      BY <2>3
    <3>2. theirs'[s] = [theirs[s] EXCEPT ![rs[s].i] = d]
      BY <1>3, <3>1
    <3>3. k \in 0 .. 1 /\ theirs[s] \in [0 .. 1 -> DestRec]
      BY <1>1, <1>3
    <3> QED BY <2>3, <3>2, <3>3
  <2> QED BY <1>7, <2>1, <2>2, <2>3
<1>8. rs[s].pc <= 6 <=> ~(rs[s].pc > 6)
  BY <1>1
<1> QED BY <1>5, <1>6, <1>7, <1>8, Zenon

LEMMA TwoSides ==
  /\ "client" \in Side /\ "server" \in Side /\ Peer("client") = "server" /\ Peer("server") = "client"
  /\ "client" # "server"
  /\ \A s \in Side : s = "client" \/ s = "server"
BY DEF Side, Peer

\* The client asks.
LEMMA TalkAsk ==
  ASSUME TalkInv, SetupTypes', Wrote("client"), mine' = mine, theirs' = theirs
  PROVE  TalkInv'
<1> USE DEF TalkInv
<1>1. /\ rs["client"].st = "run" /\ rs["client"].pc \in Exchanging /\ (rs["client"].pc = 3 => ~opt["client"].nox)
      /\ sock' = [sock EXCEPT !["client"].sent = @ \o Message("client")] /\ rs["client"].half = 0
      /\ Halved("client", 0) /\ opt' = opt
  BY DEF Wrote
<1>2. N' = N /\ Matched'
  BY <1>1 DEF Matched, N
<1>3. /\ rs'["server"] = rs["server"] /\ rs'["client"].pc = rs["client"].pc /\ rs'["client"].i = rs["client"].i
      /\ rs'["client"].half = 1 /\ rs'["client"].st = "run"
  BY <1>1, TwoSides DEF Halved
<1>4. \A t \in Side : rs'[t].pc = rs[t].pc /\ rs'[t].i = rs[t].i /\ rs'[t].st = rs[t].st
  BY <1>1, <1>3, TwoSides
<1>5. Places'
  BY <1>1, <1>2, <1>3, <1>4, TwoSides DEF Places, Exchanging
<1>6. /\ Pos("client")' = Pos("client") /\ Pos("server")' = Pos("server")
      /\ Half("client")' = 1 /\ Half("client") = 0 /\ Half("server")' = Half("server")
  <2>1. Pos("client")' = Pos("client") /\ Pos("server")' = Pos("server")
    BY <1>2, <1>4, SamePos, TwoSides
  <2>2. Half("client")' = 1 /\ Half("client") = 0 /\ Half("server")' = Half("server")
    BY <1>1, <1>3 DEF Half, Exchanging
  <2> QED BY <2>1, <2>2
<1>7. Pos("client") = Pos("server") /\ Half("server") = 0 /\ ~Replied /\ ~Asked
  BY <1>6, PosBound, TwoSides DEF LockStep, Replied, Asked
<1>8. LockStep' /\ Asked' /\ ~Replied'
  <2>1. Pos("client") \in Nat
    BY PosBound, TwoSides
  <2> QED BY <1>6, <1>7, <2>1 DEF LockStep, Replied, Asked
<1>9. Stuck'
  BY <1>3 DEF Stuck
<1>10. KeysKnown'
  <2>1. \A t \in Side : Heard(t)' = Heard(t)
    BY <1>6, TwoSides DEF Heard
  <2> QED BY <1>1, <1>2, <1>4, <2>1 DEF KeysKnown, Told, Known, GoodKey
<1>11. ToServer'
  <2> SUFFICES ASSUME rs["server"].st = "run" PROVE sock'["client"].sent = Message("client")'
    BY <1>3, <1>8 DEF ToServer
  <2>1. Message("client")' = Message("client")
    BY <1>1, <1>4, TwoSides, MessageKept
  <2>2. sock["client"].sent = <<>>
    <3>1. CASE ~(opt["client"].gid # "none" /\ opt["server"].gid = "none")
      BY <1>7, <3>1 DEF ToServer
    <3>2. CASE opt["client"].gid # "none" /\ opt["server"].gid = "none"
      <4>1. \A t \in Side : rs[t].pc \in 1 .. 19
        BY PlaceIs
      <4>2. rs["server"].pc = 12 => Pos("server") >= 5
        <5>1. rs["server"].i \in 0 .. 1
          BY PlaceIs, TwoSides
        <5> QED BY <5>1 DEF Pos, PosOf
      <4>3. rs["server"].pc = 12 => FALSE
        <5> SUFFICES ASSUME rs["server"].pc = 12 PROVE FALSE
          OBVIOUS
        <5>1. rs["client"].pc <= 11
          BY <1>1, <3>2, <4>1, TwoSides DEF Disagree, Mixed, Exchanging
        <5>2. Pos("client") <= 4
          BY <4>1, <5>1, TwoSides DEF Pos, PosOf
        <5> QED BY <1>7, <4>2, <5>2, PosBound, TwoSides
      <4>4. ~(rs["server"].pc = 11 /\ rs["server"].half = 1)
        BY <1>7 DEF Half
      <4> QED BY <1>7, <4>3, <4>4 DEF ToServer
    <3> QED BY <3>1, <3>2
  <2>3. sock'["client"].sent = sock["client"].sent \o Message("client")
    <3>1. PICK q : q = sock["client"].sent \o Message("client")
      OBVIOUS
    <3>2. sock' = [sock EXCEPT !["client"].sent = q]
      BY <1>1, <3>1
    <3>3. sock'["client"].sent = q
      BY <3>2, TwoSides DEF SetupTypes, Sock
    <3> QED BY <3>1, <3>3
  <2>4. Message("client") \in Seq(Piece)
    BY MessageTypes, TwoSides
  <2> HIDE DEF Piece
  <2> QED BY <2>1, <2>2, <2>3, <2>4
<1>12. ToClient'
  <2>1. sock'["server"].sent = sock["server"].sent
    BY <1>1, TwoSides DEF SetupTypes
  <2> QED BY <1>1, <1>7, <1>8, <2>1 DEF ToClient
<1>13. TermsKept'
  BY <1>1, <1>3 DEF TermsKept
<1>14. Disagree'
  BY <1>1, <1>4, <1>6, TwoSides DEF Disagree, Mixed
<1> QED BY <1>2, <1>5, <1>8, <1>9, <1>10, <1>11, <1>12, <1>13, <1>14

LEMMA OnePiece ==
  ASSUME NEW a
  PROVE  Len(<<a>>) = 1 /\ <<a>>[1] = a /\ SubSeq(<<a>>, 1 + 1, 1) = <<>> /\ <<a>> \o <<>> = <<a>> /\ <<a>> # <<>>
OBVIOUS

LEMMA TwoPieces ==
  ASSUME NEW a, NEW b
  PROVE  /\ Len(<<a>> \o <<b>>) = 2 /\ (<<a>> \o <<b>>)[1] = a /\ <<a>> \o <<b>> # <<>>
         /\ SubSeq(<<a>> \o <<b>>, 1 + 1, 2) = <<b>> /\ SubSeq(<<a>> \o <<b>>, 2 + 1, 2) = <<>>
<1> DEFINE m == <<a>> \o <<b>>
<1>1. <<a>> \in Seq({a, b}) /\ <<b>> \in Seq({a, b})
  OBVIOUS
<1>2. /\ m \in Seq({a, b}) /\ Len(m) = 2 /\ m[1] = a /\ m[2] = b
  BY <1>1, ConcatProperties
<1> HIDE DEF m
<1>3. m # <<>>
  BY <1>2
<1>4. SubSeq(m, 1 + 1, 2) = <<b>>
  <2>1. PICK q : q = SubSeq(m, 2, 2)
    OBVIOUS
  <2>2. q \in Seq({a, b}) /\ Len(q) = 1 /\ q[1] = b
    BY <1>2, <2>1
  <2>3. <<b>> \in Seq({a, b}) /\ Len(<<b>>) = 1 /\ <<b>>[1] = b
    OBVIOUS
  <2>4. PICK r : r = <<b>>
    OBVIOUS
  <2>5. \A i \in 1 .. Len(q) : q[i] = r[i]
    BY <2>2, <2>3, <2>4
  <2>6. q = r
    BY <1>1, <2>2, <2>3, <2>4, <2>5, SeqEqual
  <2>7. 1 + 1 = 2
    OBVIOUS
  <2> QED BY <2>1, <2>4, <2>6, <2>7
<1>5. SubSeq(m, 2 + 1, 2) = <<>>
  BY SubSeqEmpty
<1> QED BY <1>2, <1>3, <1>4, <1>5 DEF m

\* The parts of a message.
LEMMA MessageParts ==
  ASSUME SetupTypes, Matched, Places, NEW s \in Side, rs[s].pc \in Exchanging
  PROVE  /\ rs[s].pc <= 6 => StepOf(s) \in Data /\ Message(s) = <<[kind |-> "data", v |-> Value(s)]>>
                             /\ ~Long(s) /\ Value(s) \in Nat
         /\ rs[s].pc > 6 => /\ StepOf(s) \in Keys /\ StepOf(s) \notin Data
                            /\ KeyOf(s) = rs[s].i /\ mine[s][rs[s].i] \in DestRec
                            /\ Long(s) <=> opt[s].gid # "none"
                            /\ Message(s) = <<[kind |-> "key", v |-> mine[s][rs[s].i]]>>
                                 \o (IF opt[s].gid # "none" THEN <<[kind |-> "gid", v |-> mine[s][rs[s].i].v4]>> ELSE <<>>)
         /\ rs[s].pc = 4 => Value(s) = opt[s].cyc
         /\ rs[s].pc = 5 => Value(s) = opt[s].line
         /\ rs[s].pc = 6 => Value(s) = opt[s].mtu
<1>1. /\ rs[s].pc \in 1 .. 19 /\ rs[s].i \in 0 .. 1
      /\ rs[s].i > 0 => rs[s].pc \in {9, 12, 14, 16}
  BY PlaceIs
<1>2. /\ rs[s].pc <= 6 => StepOf(s) \in Data /\ StepOf(s) \notin Keys
      /\ rs[s].pc > 6 => StepOf(s) \in Keys /\ StepOf(s) \notin Data
  BY <1>1, StepIs DEF Exchanging
<1>3. rs[s].pc > 6 => KeyOf(s) = rs[s].i
  BY <1>1, StepIs DEF KeyOf, Exchanging
<1>4. mine[s][rs[s].i] \in DestRec
  BY <1>1 DEF SetupTypes
<1>5. /\ rs[s].pc = 4 => Value(s) = opt[s].cyc
      /\ rs[s].pc = 5 => Value(s) = opt[s].line
      /\ rs[s].pc = 6 => Value(s) = opt[s].mtu
  BY StepIs DEF Value
<1>6. StepOf(s) \in Data => Value(s) \in Nat
  BY MessageTypes
<1>7. Long(s) <=> StepOf(s) \in Keys /\ opt[s].gid # "none"
  BY DEF Long
<1>8. StepOf(s) \in Data => Message(s) = <<[kind |-> "data", v |-> Value(s)]>>
  BY DEF Message
<1>9. rs[s].pc > 6 => Message(s) = <<[kind |-> "key", v |-> mine[s][rs[s].i]]>>
                        \o (IF opt[s].gid # "none" THEN <<[kind |-> "gid", v |-> mine[s][rs[s].i].v4]>> ELSE <<>>)
  BY <1>2, <1>3, <1>7 DEF Message
<1> QED BY <1>2, <1>3, <1>4, <1>5, <1>6, <1>7, <1>8, <1>9

\* The server hears the question.
LEMMA TalkHear ==
  ASSUME TalkInv, SetupTypes', Received("server"), mine' = mine
  PROVE  TalkInv'
<1> USE DEF TalkInv
<1>1. /\ rs["server"].st = "run" /\ rs["server"].pc \in Exchanging /\ (rs["server"].pc = 3 => ~opt["server"].nox)
      /\ rs["server"].half = 0 /\ opt' = opt
      /\ Whole("server") /\ Halved("server", IF StepOf("server") \in Data THEN Got("server") ELSE 0)
  BY DEF Received
<1>2. N' = N /\ Matched' /\ N \in {1, 2}
  BY <1>1, Setting, TwoSides DEF Matched, N
<1>3. /\ rs'["client"] = rs["client"] /\ rs'["server"].pc = rs["server"].pc /\ rs'["server"].i = rs["server"].i
      /\ rs'["server"].half = 1 /\ rs'["server"].st = "run"
      /\ StepOf("server") \in Data => rs'["server"].rem = Got("server")
  BY <1>1, TwoSides DEF Halved
<1>4. \A t \in Side : rs'[t].pc = rs[t].pc /\ rs'[t].i = rs[t].i /\ rs'[t].st = rs[t].st
  BY <1>1, <1>3, TwoSides
<1>5. Places'
  BY <1>1, <1>2, <1>3, <1>4, TwoSides DEF Places, Exchanging
<1>6. /\ Pos("client")' = Pos("client") /\ Pos("server")' = Pos("server")
      /\ Half("server")' = 1 /\ Half("server") = 0 /\ Half("client")' = Half("client")
  <2>1. Pos("client")' = Pos("client") /\ Pos("server")' = Pos("server")
    BY <1>2, <1>4, SamePos, TwoSides
  <2>2. Half("server")' = 1 /\ Half("server") = 0 /\ Half("client")' = Half("client")
    BY <1>1, <1>3 DEF Half, Exchanging
  <2> QED BY <2>1, <2>2
\* it is the question of the client
<1>7. Asked /\ sock["client"].sent = Message("client")
  <2>1. sock["client"].sent # <<>> /\ sock["client"].sent[1].kind # "gid"
    BY <1>1, TwoSides DEF Whole, Size
  <2>2. Asked
    <3> SUFFICES ASSUME ~Asked PROVE FALSE
      OBVIOUS
    <3>1. PICK v : sock["client"].sent = <<[kind |-> "gid", v |-> v]>>
      BY <1>1, <2>1 DEF ToServer
    <3> QED BY <2>1, <3>1
  <2> QED BY <1>1, <2>2 DEF ToServer
<1>8. /\ Pos("client") = Pos("server") /\ Half("client") = 1 /\ ~Replied
      /\ rs["client"].pc = rs["server"].pc /\ rs["client"].i = rs["server"].i
  <2>1. Pos("client") = Pos("server") /\ Half("client") = 1
    BY <1>7 DEF Asked
  <2>2. rs["client"].pc \in Exchanging
    BY <2>1, PosBound, TwoSides
  <2>3. Pos("client") \in Nat
    BY PosBound, TwoSides
  <2> QED BY <1>1, <2>1, <2>2, <2>3, SameExchange DEF Replied
<1>9. LockStep' /\ ~Asked' /\ ~Replied'
  <2>1. Pos("client") \in Nat
    BY PosBound, TwoSides
  <2> QED BY <1>6, <1>8, <2>1 DEF LockStep, Replied, Asked
<1>10. rs["client"].st = "run" /\ Stuck'
  BY <1>1, <1>3, <1>8 DEF Stuck
<1>11. /\ rs["server"].pc \in 1 .. 19 /\ (rs["server"].pc <= 6 \/ rs["server"].pc > 6)
       /\ rs["server"].i \in 0 .. N - 1
  BY PlaceIs, TwoSides DEF Exchanging
\* data
<1>12. rs["server"].pc <= 6 =>
         /\ StepOf("server") \in Data /\ Size("server") = 1 /\ theirs' = theirs /\ Got("server") = Value("client")
         /\ sock'["client"].sent = <<>>
  <2> SUFFICES ASSUME rs["server"].pc <= 6
               PROVE  /\ StepOf("server") \in Data /\ Size("server") = 1 /\ theirs' = theirs
                      /\ Got("server") = Value("client") /\ sock'["client"].sent = <<>>
    OBVIOUS
  <2>1. StepOf("server") \in Data /\ ~Long("server")
    BY <1>1, MessageParts, TwoSides
  <2>2. Message("client") = <<[kind |-> "data", v |-> Value("client")]>>
    BY <1>1, <1>8, MessageParts, TwoSides
  <2>3. Size("server") = 1 /\ theirs' = theirs
    BY <2>1 DEF Size, Received
  <2>4. Got("server") = Value("client")
    BY <1>7, <2>2, TwoSides DEF Got
  <2>5. PICK q : q = SubSeq(sock["client"].sent, Size("server") + 1, Len(sock["client"].sent))
    OBVIOUS
  <2>6. sock' = [sock EXCEPT !["client"].sent = q]
    BY <2>5, TwoSides DEF Received
  <2>7. sock'["client"].sent = q
    BY <2>6, TwoSides DEF SetupTypes, Sock
  <2>8. q = <<>>
    BY <1>7, <2>2, <2>3, <2>5, OnePiece
  <2> QED BY <2>1, <2>3, <2>4, <2>7, <2>8
\* keys
<1>13. rs["server"].pc > 6 =>
         /\ StepOf("server") \notin Data
         /\ \E d : /\ theirs' = [theirs EXCEPT !["server"][rs["server"].i] = d]
                   /\ GoodKey("client", rs["server"].i, rs["server"].pc > 15, d)
         /\ opt["server"].gid # "none" => opt["client"].gid # "none"
         /\ \/ sock'["client"].sent = <<>>
            \/ /\ opt["client"].gid # "none" /\ opt["server"].gid = "none"
               /\ \E v \in BOOLEAN : sock'["client"].sent = <<[kind |-> "gid", v |-> v]>>
  <2> SUFFICES ASSUME rs["server"].pc > 6
               PROVE  /\ StepOf("server") \notin Data
                      /\ \E d : /\ theirs' = [theirs EXCEPT !["server"][rs["server"].i] = d]
                                /\ GoodKey("client", rs["server"].i, rs["server"].pc > 15, d)
                      /\ opt["server"].gid # "none" => opt["client"].gid # "none"
                      /\ \/ sock'["client"].sent = <<>>
                         \/ /\ opt["client"].gid # "none" /\ opt["server"].gid = "none"
                            /\ \E v \in BOOLEAN : sock'["client"].sent = <<[kind |-> "gid", v |-> v]>>
    OBVIOUS
  <2>1. PICK i \in 0 .. N - 1 : i = rs["server"].i
    BY <1>11
  <2>2. PICK m : m = mine["client"][i]
    OBVIOUS
  <2>3. /\ StepOf("server") \in Keys /\ StepOf("server") \notin Data /\ KeyOf("server") = i
        /\ Long("server") <=> opt["server"].gid # "none"
    BY <1>1, <2>1, MessageParts, TwoSides
  <2>4. /\ m \in DestRec
        /\ Message("client") = <<[kind |-> "key", v |-> m]>>
             \o (IF opt["client"].gid # "none" THEN <<[kind |-> "gid", v |-> m.v4]>> ELSE <<>>)
    BY <1>1, <1>8, <2>1, <2>2, MessageParts, TwoSides
  <2>5. GoodKey("client", i, rs["server"].pc > 15, m)
    <3>1. rs["client"].pc > 10 /\ (rs["client"].pc > 15 <=> rs["server"].pc > 15)
      BY <1>1, <1>8 DEF Exchanging
    <3>2. Told("client")
      BY TwoSides DEF KeysKnown
    <3>3. GoodKey("client", i, FALSE, m)
      BY <2>2, <3>1, <3>2, Zenon DEF Told
    <3>4. rs["client"].pc > 15 => GoodKey("client", i, TRUE, m)
      BY <2>2, <3>2, Zenon DEF Told
    <3> QED BY <3>1, <3>3, <3>4 DEF GoodKey
  <2>6. PICK k : k = [kind |-> "key", v |-> m]
    OBVIOUS
  <2>7. PICK g : g = [kind |-> "gid", v |-> m.v4]
    OBVIOUS
  <2>8. PICK q : q = SubSeq(sock["client"].sent, Size("server") + 1, Len(sock["client"].sent))
    OBVIOUS
  <2>9. sock'["client"].sent = q
    <3>1. sock' = [sock EXCEPT !["client"].sent = q]
      BY <2>8, TwoSides DEF Received
    <3> QED BY <3>1, TwoSides DEF SetupTypes, Sock
  <2>10. opt["client"].gid # "none" => sock["client"].sent = <<k>> \o <<g>>
    BY <1>7, <2>4, <2>6, <2>7
  <2>11. opt["client"].gid = "none" => sock["client"].sent = <<k>>
    BY <1>7, <2>4, <2>6, OnePiece
  <2>12. /\ Size("server") = (IF opt["server"].gid # "none" THEN 2 ELSE 1)
         /\ Len(sock["client"].sent) >= Size("server")
    BY <1>1, <2>3, TwoSides DEF Size, Whole
  <2>13. opt["server"].gid # "none" => opt["client"].gid # "none"
    <3> SUFFICES ASSUME opt["server"].gid # "none", opt["client"].gid = "none" PROVE FALSE
      OBVIOUS
    <3>1. Len(sock["client"].sent) = 1
      BY <2>11, OnePiece
    <3> QED BY <2>12, <3>1
  <2>14. \/ q = <<>>
         \/ /\ opt["client"].gid # "none" /\ opt["server"].gid = "none" /\ q = <<g>>
    <3>1. CASE opt["client"].gid = "none"
      <4>1. Size("server") = 1 /\ Len(sock["client"].sent) = 1
        BY <2>11, <2>12, <2>13, <3>1, OnePiece
      <4>2. q = SubSeq(<<k>>, 1 + 1, 1)
        BY <2>8, <2>11, <3>1, <4>1
      <4> QED BY <4>2, OnePiece
    <3>2. CASE opt["client"].gid # "none" /\ opt["server"].gid # "none"
      <4>0. Len(<<k>> \o <<g>>) = 2
        BY TwoPieces
      <4>1. Size("server") = 2 /\ Len(sock["client"].sent) = 2
        BY <2>10, <2>12, <3>2, <4>0
      <4>2. q = SubSeq(<<k>> \o <<g>>, 2 + 1, 2)
        BY <2>8, <2>10, <3>2, <4>1
      <4> QED BY <4>2, TwoPieces
    <3>3. CASE opt["client"].gid # "none" /\ opt["server"].gid = "none"
      <4>0. Len(<<k>> \o <<g>>) = 2
        BY TwoPieces
      <4>1. Size("server") = 1 /\ Len(sock["client"].sent) = 2
        BY <2>10, <2>12, <3>3, <4>0
      <4>2. q = SubSeq(<<k>> \o <<g>>, 1 + 1, 2)
        BY <2>8, <2>10, <3>3, <4>1
      <4> QED BY <3>3, <4>2, TwoPieces
    <3> QED BY <3>1, <3>2, <3>3
  <2>15. Got("server") = m
    <3>1. sock["client"].sent[1] = k
      BY <2>10, <2>11, OnePiece, TwoPieces
    <3> QED BY <2>6, <3>1, TwoSides DEF Got
  <2>16. \E d : /\ theirs' = [theirs EXCEPT !["server"][rs["server"].i] = d]
                /\ GoodKey("client", rs["server"].i, rs["server"].pc > 15, d)
    <3>1. PICK d : d = IF Long("server") THEN m ELSE [m EXCEPT !.v4 = FALSE]
      OBVIOUS
    <3>2. theirs' = [theirs EXCEPT !["server"][i] = d]
      BY <2>3, <2>15, <3>1 DEF Received
    <3>3. GoodKey("client", i, rs["server"].pc > 15, d)
      BY <2>3, <2>4, <2>5, <3>1 DEF GoodKey, DestRec
    <3> QED BY <2>1, <3>2, <3>3
  <2>17. m.v4 \in BOOLEAN
    BY <2>4 DEF DestRec
  <2> QED BY <2>3, <2>7, <2>9, <2>13, <2>14, <2>16, <2>17
<1>14. Disagree'
  <2> SUFFICES ASSUME Mixed, \A t \in Side : rs[t].pc > 1
               PROVE  /\ \A t \in Side : rs[t].pc <= 13
                      /\ opt["client"].gid = "none" => Pos("server") <= 4 /\ Pos("server") # 4
                      /\ opt["server"].gid = "none" =>
                           rs["client"].pc <= 11 /\ Pos("server") <= 5 /\ Pos("server") # 5
    <3>1. Mixed' <=> Mixed
      BY <1>1 DEF Mixed
    <3>2. \A t \in Side : rs'[t].pc = rs[t].pc
      BY <1>4
    <3>3. rs'["client"].pc = rs["client"].pc /\ opt'["client"] = opt["client"] /\ opt'["server"] = opt["server"]
      BY <1>1, <3>2, TwoSides
    <3> QED BY <1>6, <3>1, <3>2, <3>3 DEF Disagree
  <2>1. /\ \A t \in Side : rs[t].pc <= 13
        /\ opt["client"].gid = "none" => Pos("server") <= 4
        /\ opt["server"].gid = "none" => rs["client"].pc <= 11 /\ Pos("server") <= 5
    BY DEF Disagree
  <2>2. opt["client"].gid = "none" => Pos("server") # 4
    <3> SUFFICES ASSUME opt["client"].gid = "none", Pos("server") = 4 PROVE FALSE
      OBVIOUS
    <3>1. rs["server"].pc > 6
      <4>1. rs["server"].pc <= 6 => Pos("server") <= 3
        BY <1>11 DEF Pos, PosOf
      <4> QED BY <1>11, <4>1
    <3> QED BY <1>13, <3>1 DEF Mixed
  <2>3. opt["server"].gid = "none" => Pos("server") # 5
    <3> SUFFICES ASSUME opt["server"].gid = "none", Pos("server") = 5 PROVE FALSE
      OBVIOUS
    <3>1. rs["client"].pc <= 11 => Pos("client") <= 4
      BY <1>8, <1>11 DEF Pos, PosOf
    <3> QED BY <1>8, <2>1, <3>1
  <2> QED BY <2>1, <2>2, <2>3
<1>15. KeysKnown'
  <2>1. Told("client")' /\ Told("server")'
    <3>1. \A t \in Side : Told(t)
      BY DEF KeysKnown
    <3> QED BY <1>1, <1>2, <1>4, <3>1, TwoSides DEF Told, GoodKey
  <2>2. Known("client")'
    <3>1. Heard("client")' = Heard("client")
      BY <1>6, TwoSides DEF Heard
    <3>2. Known("client") /\ theirs'["client"] = theirs["client"]
      <4>1. theirs'["client"] = theirs["client"]
        BY <1>11, <1>12, <1>13, TwoSides DEF SetupTypes
      <4> QED BY <4>1, TwoSides DEF KeysKnown
    <3> QED BY <1>1, <1>2, <3>1, <3>2, TwoSides DEF Known, GoodKey
  <2>3. Known("server")'
    <3>1. Heard("server") = Pos("server") /\ Heard("server")' = Pos("server") + 1
      <4>1. Pos("server") \in Nat
        BY PosBound, TwoSides
      <4> QED BY <1>6, <4>1 DEF Heard
    <3>2. Known("server")
      BY TwoSides DEF KeysKnown
    <3>3. \A t \in Side : opt'[t].gid = opt[t].gid /\ opt'[t].conn = opt[t].conn
      BY <1>1
    <3>4. \E d : rs["server"].pc > 6 => /\ theirs' = [theirs EXCEPT !["server"][rs["server"].i] = d]
                                        /\ GoodKey(Peer("server"), rs["server"].i, rs["server"].pc > 15, d)
      BY <1>13, TwoSides
    <3>5. PICK d : rs["server"].pc > 6 => /\ theirs' = [theirs EXCEPT !["server"][rs["server"].i] = d]
                                          /\ GoodKey(Peer("server"), rs["server"].i, rs["server"].pc > 15, d)
      BY <3>4
    <3>6. rs["server"].pc <= 6 => theirs' = theirs
      BY <1>12
    <3> QED BY <1>1, <1>2, <3>1, <3>2, <3>3, <3>5, <3>6, KnownMore, TwoSides
  <2> QED BY <2>1, <2>2, <2>3, TwoSides DEF KeysKnown
<1>16. ToServer'
  <2>1. CASE sock'["client"].sent = <<>>
    BY <1>9, <2>1 DEF ToServer
  <2>2. CASE sock'["client"].sent # <<>>
    <3>1. rs["server"].pc > 6
      BY <1>11, <1>12, <2>2
    <3>2. /\ opt["client"].gid # "none" /\ opt["server"].gid = "none"
          /\ \E v \in BOOLEAN : sock'["client"].sent = <<[kind |-> "gid", v |-> v]>>
      BY <1>13, <2>2, <3>1
    <3>3. rs["server"].pc = 11 \/ rs["server"].pc = 12
      <4>1. \A t \in Side : rs[t].pc > 1
        BY <1>8, <1>11, <3>1, TwoSides
      <4>2. rs["client"].pc <= 11
        BY <3>2, <4>1 DEF Disagree, Mixed
      <4> QED BY <1>1, <1>8, <1>11, <3>1, <4>2 DEF Exchanging
    <3> QED BY <1>1, <1>3, <1>9, <3>2, <3>3 DEF ToServer
  <2> QED BY <2>1, <2>2
<1>17. ToClient'
  <2>1. sock'["server"] = sock["server"]
    <3>1. PICK q : q = SubSeq(sock["client"].sent, Size("server") + 1, Len(sock["client"].sent))
      OBVIOUS
    <3>2. sock' = [sock EXCEPT !["client"].sent = q]
      BY <3>1, TwoSides DEF Received
    <3> QED BY <3>2, TwoSides DEF SetupTypes
  <2> QED BY <1>3, <1>8, <1>9, <2>1 DEF ToClient
<1>18. TermsKept'
  <2>1. /\ rs["server"].pc = 4 => rs'["server"].rem = opt["client"].cyc
        /\ rs["server"].pc = 5 => rs'["server"].rem = opt["client"].line
        /\ rs["server"].pc = 6 => rs'["server"].rem = opt["client"].mtu
    <3>1. rs["server"].pc <= 6 => rs'["server"].rem = Value("client")
      BY <1>3, <1>12
    <3>2. /\ rs["client"].pc = 4 => Value("client") = opt["client"].cyc
          /\ rs["client"].pc = 5 => Value("client") = opt["client"].line
          /\ rs["client"].pc = 6 => Value("client") = opt["client"].mtu
      BY <1>1, <1>8, MessageParts, TwoSides
    <3> QED BY <1>8, <3>1, <3>2
  <2>2. rs'["client"].pc = rs["client"].pc /\ rs'["server"].pc = rs["server"].pc /\ opt' = opt
    BY <1>1, <1>4, TwoSides
  <2>3. /\ rs["client"].pc > 4 => opt["server"].cyc = opt["client"].cyc
        /\ rs["client"].pc > 5 => opt["server"].line = opt["client"].line
        /\ rs["client"].pc > 6 => opt["server"].mtu = opt["client"].mtu
    BY DEF TermsKept
  <2> QED BY <2>1, <2>2, <2>3 DEF TermsKept
<1> QED BY <1>2, <1>5, <1>9, <1>10, <1>14, <1>15, <1>16, <1>17, <1>18

\* What an exchange of data changes of the terms.
TermsMoved(s, v) ==
  /\ opt'[s].cyc = (IF rs[s].pc = 4 THEN Larger(opt[s].cyc, v) ELSE opt[s].cyc)
  /\ opt'[s].line = (IF rs[s].pc = 5 THEN Larger(opt[s].line, v) ELSE opt[s].line)
  /\ opt'[s].mtu = (IF rs[s].pc = 6 THEN AgreedMtu(opt[s].mtu, v) ELSE opt[s].mtu)

LEMMA TermsMove ==
  ASSUME SetupTypes, Matched, NEW s \in Side, NEW v, StepOf(s) \in Data => v \in Nat,
         opt' = [opt EXCEPT ![s] = IF StepOf(s) \in Data THEN Agreed(@, StepOf(s), v) ELSE @]
  PROVE  /\ opt'[Peer(s)] = opt[Peer(s)]
         /\ \A t \in Side : /\ opt'[t].gid = opt[t].gid /\ opt'[t].conn = opt[t].conn
                            /\ opt'[t].prog = opt[t].prog /\ opt'[t].nox = opt[t].nox
         /\ N' = N /\ Matched' /\ TermsMoved(s, v)
<1>1. opt \in [Side -> Options] /\ Peer(s) \in Side /\ Peer(s) # s /\ \A t \in Side : t = s \/ t = Peer(s)
  BY DEF SetupTypes, Peer, Side
<1>2. opt'[Peer(s)] = opt[Peer(s)]
  BY <1>1
<1>3. /\ StepOf(s) = "cycle" <=> rs[s].pc = 4
      /\ StepOf(s) = "line" <=> rs[s].pc = 5
      /\ StepOf(s) = "mtu" <=> rs[s].pc = 6
      /\ StepOf(s) \in Data <=> rs[s].pc \in 3 .. 6
  BY StepIs
<1>4. PICK o \in Options : o = opt[s]
  BY <1>1
<1>5. PICK step : step = StepOf(s)
  OBVIOUS
<1>6. CASE StepOf(s) \in Data
  <2>1. opt'[s] = Agreed(o, step, v)
    BY <1>1, <1>4, <1>5, <1>6
  <2>2. /\ Agreed(o, step, v).cyc = (IF step = "cycle" THEN Larger(o.cyc, v) ELSE o.cyc)
        /\ Agreed(o, step, v).line = (IF step = "line" THEN Larger(o.line, v) ELSE o.line)
        /\ Agreed(o, step, v).mtu = (IF step = "mtu" THEN AgreedMtu(o.mtu, v) ELSE o.mtu)
        /\ Agreed(o, step, v).gid = o.gid /\ Agreed(o, step, v).conn = o.conn
        /\ Agreed(o, step, v).prog = o.prog /\ Agreed(o, step, v).nox = o.nox
    BY <1>6, AgreedIs
  <2>3. \A t \in Side : /\ opt'[t].gid = opt[t].gid /\ opt'[t].conn = opt[t].conn
                        /\ opt'[t].prog = opt[t].prog /\ opt'[t].nox = opt[t].nox
    BY <1>1, <1>2, <1>4, <2>1, <2>2
  <2>4. N' = N /\ Matched'
    BY <2>3 DEF N, NumQps, Paired, Matched, Side
  <2>5. TermsMoved(s, v)
    BY <1>3, <1>4, <1>5, <2>1, <2>2 DEF TermsMoved
  <2> QED BY <1>2, <2>3, <2>4, <2>5
<1>7. CASE StepOf(s) \notin Data
  <2>1. opt'[s] = opt[s]
    BY <1>1, <1>7
  <2>2. opt' = opt
    BY <1>1, <1>2, <1>7, <2>1
  <2>3. N' = N /\ Matched'
    BY <2>2 DEF N, Matched
  <2>4. rs[s].pc # 4 /\ rs[s].pc # 5 /\ rs[s].pc # 6
    BY <1>3, <1>7
  <2> QED BY <2>2, <2>3, <2>4 DEF TermsMoved
<1> QED BY <1>6, <1>7

\* The server answers.
LEMMA TalkReply ==
  ASSUME TalkInv, SetupTypes', Wrote("server"), mine' = mine, theirs' = theirs
  PROVE  TalkInv'
<1> USE DEF TalkInv
<1>1. /\ rs["server"].st = "run" /\ rs["server"].pc \in Exchanging /\ (rs["server"].pc = 3 => ~opt["server"].nox)
      /\ sock' = [sock EXCEPT !["server"].sent = @ \o Message("server")] /\ rs["server"].half = 1
      /\ Moved("server")
  BY TwoSides DEF Wrote
<1>2. PICK v : /\ v = rs["server"].rem /\ v \in Nat
               /\ opt' = [opt EXCEPT !["server"] = IF StepOf("server") \in Data THEN Agreed(@, StepOf("server"), v) ELSE @]
  BY TwoSides DEF Wrote, SetupTypes, Proc
<1>3. /\ opt'["client"] = opt["client"] /\ N' = N /\ Matched' /\ N \in {1, 2}
      /\ \A t \in Side : /\ opt'[t].gid = opt[t].gid /\ opt'[t].conn = opt[t].conn
                         /\ opt'[t].prog = opt[t].prog /\ opt'[t].nox = opt[t].nox
      /\ TermsMoved("server", v)
  <2>1. N \in {1, 2}
    BY Setting, TwoSides
  <2>2. "server" \in Side /\ (StepOf("server") \in Data => v \in Nat) /\ Peer("server") = "client"
    BY <1>2, TwoSides
  <2>3. opt'[Peer("server")] = opt["client"] /\ N' = N /\ Matched'
    BY <1>2, <2>2, TermsMove, Zenon
  <2>4. \A t \in Side : /\ opt'[t].gid = opt[t].gid /\ opt'[t].conn = opt[t].conn
                        /\ opt'[t].prog = opt[t].prog /\ opt'[t].nox = opt[t].nox
    BY <1>2, <2>2, TermsMove, Zenon
  <2>5. TermsMoved("server", v)
    BY <1>2, <2>2, TermsMove, Zenon
  <2> QED BY <2>1, <2>2, <2>3, <2>4, <2>5
<1>4. /\ rs'["client"] = rs["client"] /\ rs'["server"].st = "run" /\ rs'["server"].half = 0
  BY <1>1, TwoSides DEF Moved
<1>5. Places'
  <2>1. \A t \in Side : opt'[t].nox = opt[t].nox
    BY <1>3
  <2> QED BY <1>1, <1>3, <2>1, MovedPlaces, TwoSides
<1>6. /\ Pos("server")' = Pos("server") + 1 /\ Pos("client")' = Pos("client")
      /\ Half("server")' = 0 /\ Half("server") = 1 /\ Half("client")' = Half("client")
      /\ Pos("server") \in Nat
  <2>1. Half("server") = 1 /\ Pos("server") \in Nat
    BY <1>1, PosBound, TwoSides
  <2>2. /\ Pos("server")' = Pos("server") + 1 /\ Pos("client")' = Pos("client")
        /\ Half("server")' = 0 /\ Half("client")' = Half("client")
    BY <1>1, <1>3, MovedPos, TwoSides
  <2> QED BY <2>1, <2>2
<1>7. /\ Pos("client") = Pos("server") /\ Half("client") = 1 /\ ~Replied /\ ~Asked
      /\ rs["client"].pc = rs["server"].pc /\ rs["client"].i = rs["server"].i /\ rs["client"].st = "run"
  <2>1. Pos("client") = Pos("server") /\ Half("client") = 1 /\ ~Replied /\ ~Asked
    BY <1>6 DEF LockStep, Replied, Asked
  <2>2. rs["client"].pc \in Exchanging
    BY <2>1, PosBound, TwoSides
  <2>3. rs["client"].st = "run"
    BY <1>1, <2>1 DEF Stuck
  <2> QED BY <1>1, <2>1, <2>2, <2>3, SameExchange
<1>8. LockStep' /\ Replied' /\ ~Asked'
  BY <1>6, <1>7 DEF LockStep, Replied, Asked
<1>9. Stuck'
  BY <1>6, <1>7 DEF Stuck
<1>10. /\ rs["server"].pc \in 1 .. 19 /\ (rs["server"].pc <= 6 \/ rs["server"].pc > 6)
       /\ rs["server"].i \in 0 .. N - 1 /\ (rs["server"].i > 0 => rs["server"].pc \in {9, 12, 14, 16})
  BY PlaceIs, TwoSides
<1>11. KeysKnown'
  <2>1. Told("client")'
    BY <1>3, <1>4, TwoSides DEF KeysKnown, Told, GoodKey
  <2>2. Told("server")'
    <3>1. (rs'["server"].pc > 10 => rs["server"].pc > 10) /\ (rs'["server"].pc > 15 => rs["server"].pc > 15)
      BY <1>1, <1>10 DEF Moved, Exchanging
    <3> QED BY <1>3, <3>1, TwoSides DEF KeysKnown, Told, GoodKey
  <2>3. ASSUME NEW t \in Side PROVE Known(t)'
    <3>1. Heard(t)' = Heard(t)
      BY <1>6, TwoSides DEF Heard
    <3>2. Known(t) /\ Peer(t) \in Side
      BY TwoSides DEF KeysKnown
    <3> QED BY <1>3, <3>1, <3>2, TwoSides DEF Known, GoodKey
  <2> QED BY <2>1, <2>2, <2>3, TwoSides DEF KeysKnown
<1>12. ToServer'
  <2>1. sock'["client"].sent = sock["client"].sent
    BY <1>1, TwoSides DEF SetupTypes
  <2>2. CASE sock["client"].sent = <<>>
    BY <1>8, <2>1, <2>2 DEF ToServer
  <2>3. CASE sock["client"].sent # <<>>
    <3>1. /\ opt["client"].gid # "none" /\ opt["server"].gid = "none"
          /\ rs["server"].pc = 12 \/ rs["server"].pc = 11
          /\ \E u \in BOOLEAN : sock["client"].sent = <<[kind |-> "gid", v |-> u]>>
      BY <1>1, <1>7, <2>3 DEF ToServer
    <3>2. rs["server"].pc = 11
      <4>1. \A t \in Side : rs[t].pc > 1
        BY <1>7, <1>10, <3>1, TwoSides
      <4>2. rs["client"].pc <= 11
        BY <3>1, <4>1 DEF Disagree, Mixed
      <4> QED BY <1>7, <3>1, <4>2
    <3>3. rs'["server"].pc = 12
      BY <1>1, <3>2 DEF Moved
    <3> QED BY <1>3, <1>8, <2>1, <3>1, <3>3, TwoSides DEF ToServer
  <2> QED BY <2>2, <2>3
<1>13. sock'["server"].sent = Message("server")
  <2>1. sock["server"].sent = <<>>
    BY <1>7 DEF ToClient
  <2>2. PICK q : q = sock["server"].sent \o Message("server")
    OBVIOUS
  <2>3. sock' = [sock EXCEPT !["server"].sent = q]
    BY <1>1, <2>2
  <2>4. sock'["server"].sent = q
    BY <2>3, TwoSides DEF SetupTypes, Sock
  <2>5. Message("server") \in Seq(Piece)
    BY MessageTypes, TwoSides
  <2> HIDE DEF Piece
  <2> QED BY <2>1, <2>2, <2>4, <2>5
<1>14. Answer'
  <2>1. CASE rs["client"].pc <= 6
    <3>1. /\ Message("server") = <<[kind |-> "data", v |-> Value("server")]>> /\ Value("server") \in Nat
          /\ rs["server"].pc = 4 => Value("server") = opt["server"].cyc
          /\ rs["server"].pc = 5 => Value("server") = opt["server"].line
          /\ rs["server"].pc = 6 => Value("server") = opt["server"].mtu
      BY <1>1, <1>7, <2>1, MessageParts, TwoSides
    <3>2. PICK u : u = Value("server")
      OBVIOUS
    <3>3. PICK sent : sent = sock'["server"].sent
      OBVIOUS
    <3>4. sent = <<[kind |-> "data", v |-> u]>> /\ u \in Nat
      BY <1>13, <3>1, <3>2, <3>3
    <3>5. sent[1].v = u
      BY <3>4
    <3>6. /\ rs["server"].pc = 4 => v = opt["client"].cyc
          /\ rs["server"].pc = 5 => v = opt["client"].line
          /\ rs["server"].pc = 6 => v = opt["client"].mtu
      BY <1>1, <1>2 DEF TermsKept
    <3>7. /\ opt["server"].cyc \in Nat /\ opt["server"].line \in Nat /\ opt["server"].mtu \in Nat
      BY TwoSides DEF SetupTypes, Options
    <3>8. TermsMet(rs["client"].pc, u)'
      <4>1. rs["server"].pc = 4 => opt'["server"].cyc = Larger(opt["client"].cyc, u)
        BY <1>2, <1>3, <3>1, <3>2, <3>6, <3>7 DEF Larger, TermsMoved
      <4>2. rs["server"].pc = 5 => opt'["server"].line = Larger(opt["client"].line, u)
        BY <1>2, <1>3, <3>1, <3>2, <3>6, <3>7 DEF Larger, TermsMoved
      <4>3. rs["server"].pc = 6 => opt'["server"].mtu = AgreedMtu(opt["client"].mtu, u)
        BY <1>2, <1>3, <3>1, <3>2, <3>6, <3>7 DEF AgreedMtu, TermsMoved
      <4> QED BY <1>3, <1>4, <1>7, <4>1, <4>2, <4>3 DEF TermsMet
    <3> QED BY <1>4, <2>1, <3>3, <3>4, <3>5, <3>8 DEF Answer
  <2>2. CASE rs["client"].pc > 6
    <3>1. PICK i \in 0 .. N - 1 : i = rs["server"].i
      BY <1>10
    <3>2. PICK m : m = mine["server"][i]
      OBVIOUS
    <3>3. /\ m \in DestRec
          /\ Message("server") = <<[kind |-> "key", v |-> m]>>
               \o (IF opt["server"].gid # "none" THEN <<[kind |-> "gid", v |-> m.v4]>> ELSE <<>>)
      BY <1>1, <1>7, <2>2, <3>1, <3>2, MessageParts, TwoSides
    <3>4. GoodKey("server", i, rs["client"].pc > 15, m)
      <4>1. rs["server"].pc > 10 /\ (rs["client"].pc > 15 <=> rs["server"].pc > 15)
        BY <1>1, <1>7, <2>2 DEF Exchanging
      <4>2. Told("server")
        BY TwoSides DEF KeysKnown
      <4>3. GoodKey("server", i, FALSE, m)
        BY <3>2, <4>1, <4>2, Zenon DEF Told
      <4>4. rs["server"].pc > 15 => GoodKey("server", i, TRUE, m)
        BY <3>2, <4>2, Zenon DEF Told
      <4> QED BY <4>1, <4>3, <4>4 DEF GoodKey
    <3>5. GoodKey("server", i, rs["client"].pc > 15, m)'
      BY <1>3, <1>4, <3>4, TwoSides DEF GoodKey
    <3>6. PICK sent : sent = sock'["server"].sent
      OBVIOUS
    <3>7. PICK k : k = [kind |-> "key", v |-> m]
      OBVIOUS
    <3>8. PICK g : g = [kind |-> "gid", v |-> m.v4]
      OBVIOUS
    <3>9. sent = <<k>> \o (IF opt["server"].gid # "none" THEN <<g>> ELSE <<>>)
      BY <1>13, <3>3, <3>6, <3>7, <3>8
    <3>10. sent[1] = k
      BY <3>9, OnePiece, TwoPieces
    <3>11. sent[1].v = m
      BY <3>7, <3>10
    <3>12. ~(rs'["client"].pc <= 6) /\ rs'["client"].i = i /\ opt'["server"].gid = opt["server"].gid
      BY <1>3, <1>4, <1>7, <1>10, <2>2, <3>1, TwoSides
    <3> QED BY <3>3, <3>5, <3>6, <3>7, <3>8, <3>9, <3>11, <3>12 DEF Answer
  <2> QED BY <1>7, <1>10, <2>1, <2>2
<1>15. ToClient'
  BY <1>8, <1>14 DEF ToClient
<1>16. TermsKept'
  <2>1. rs["client"].pc \in 1 .. 19
    BY <1>7, <1>10
  <2> QED BY <1>3, <1>4, <1>7, <2>1 DEF TermsKept, TermsMoved
<1>17. Disagree'
  <2>1. rs'["server"].pc <= 13 \/ rs["server"].pc > 13
    BY <1>1, <1>7, <1>10, TwoSides DEF Moved, Exchanging
  <2>2. Mixed' <=> Mixed
    BY <1>3, TwoSides DEF Mixed
  <2>3. \A t \in Side : rs[t].pc > 1
    BY <1>1, <1>7, TwoSides DEF Exchanging
  <2>4. Mixed => /\ \A t \in Side : rs[t].pc <= 13
                 /\ opt["client"].gid = "none" => Pos("server") <= 4 /\ (Pos("server") = 4 => Half("server") = 0)
                 /\ opt["server"].gid = "none" =>
                      rs["client"].pc <= 11 /\ Pos("server") <= 5 /\ (Pos("server") = 5 => Half("server") = 0)
    BY <2>3 DEF Disagree
  <2>5. Mixed => /\ \A t \in Side : rs'[t].pc <= 13
                 /\ opt["client"].gid = "none" => Pos("server")' <= 4
                 /\ opt["server"].gid = "none" => rs'["client"].pc <= 11 /\ Pos("server")' <= 5
    BY <1>4, <1>6, <1>10, <2>1, <2>4, TwoSides
  <2> QED BY <1>3, <1>6, <2>2, <2>5, TwoSides DEF Disagree
<1> QED BY <1>3, <1>5, <1>8, <1>9, <1>11, <1>12, <1>15, <1>16, <1>17

\* The client reads the answer.
LEMMA TalkLearn ==
  ASSUME TalkInv, SetupTypes', Received("client"), mine' = mine
  PROVE  TalkInv'
<1> USE DEF TalkInv
<1>1. /\ rs["client"].st = "run" /\ rs["client"].pc \in Exchanging /\ (rs["client"].pc = 3 => ~opt["client"].nox)
      /\ rs["client"].half = 1 /\ Whole("client") /\ Moved("client")
  BY TwoSides DEF Received
<1>2. PICK v : /\ v = Got("client") /\ (StepOf("client") \in Data => v \in Nat)
               /\ opt' = [opt EXCEPT !["client"] = IF StepOf("client") \in Data THEN Agreed(@, StepOf("client"), v) ELSE @]
  BY TwoSides DEF Received
<1>3. /\ opt'["server"] = opt["server"] /\ N' = N /\ Matched' /\ N \in {1, 2}
      /\ \A t \in Side : /\ opt'[t].gid = opt[t].gid /\ opt'[t].conn = opt[t].conn
                         /\ opt'[t].prog = opt[t].prog /\ opt'[t].nox = opt[t].nox
      /\ TermsMoved("client", v)
  <2>1. N \in {1, 2}
    BY Setting, TwoSides
  <2>2. "client" \in Side /\ Peer("client") = "server"
    BY TwoSides
  <2>3. opt'[Peer("client")] = opt["server"] /\ N' = N /\ Matched'
    BY <1>2, <2>2, TermsMove, Zenon
  <2>4. \A t \in Side : /\ opt'[t].gid = opt[t].gid /\ opt'[t].conn = opt[t].conn
                        /\ opt'[t].prog = opt[t].prog /\ opt'[t].nox = opt[t].nox
    BY <1>2, <2>2, TermsMove, Zenon
  <2>5. TermsMoved("client", v)
    BY <1>2, <2>2, TermsMove, Zenon
  <2> QED BY <2>1, <2>2, <2>3, <2>4, <2>5
<1>4. /\ rs'["server"] = rs["server"] /\ rs'["client"].st = "run" /\ rs'["client"].half = 0
  BY <1>1, TwoSides DEF Moved
<1>5. Places'
  <2>1. \A t \in Side : opt'[t].nox = opt[t].nox
    BY <1>3
  <2> QED BY <1>1, <1>3, <2>1, MovedPlaces, TwoSides
<1>6. /\ Pos("client")' = Pos("client") + 1 /\ Pos("server")' = Pos("server")
      /\ Half("client")' = 0 /\ Half("client") = 1 /\ Half("server")' = Half("server")
      /\ Pos("client") \in Nat
  <2>1. Half("client") = 1 /\ Pos("client") \in Nat
    BY <1>1, PosBound, TwoSides
  <2>2. /\ Pos("client")' = Pos("client") + 1 /\ Pos("server")' = Pos("server")
        /\ Half("client")' = 0 /\ Half("server")' = Half("server")
    BY <1>1, <1>3, MovedPos, TwoSides
  <2> QED BY <2>1, <2>2
\* it is the answer of the server
<1>7. Replied /\ Answer /\ Pos("server") = Pos("client") + 1 /\ Half("server") = 0 /\ ~Asked
  <2>1. Replied
    <3> SUFFICES ASSUME ~Replied PROVE FALSE
      OBVIOUS
    <3>1. sock["server"].sent = <<>>
      BY <1>1 DEF ToClient
    <3> QED BY <1>1, <3>1, TwoSides DEF Whole, Size
  <2> QED BY <1>1, <1>6, <2>1 DEF ToClient, Replied, Asked
<1>8. LockStep' /\ ~Replied' /\ ~Asked'
  BY <1>6, <1>7 DEF LockStep, Replied, Asked
<1>9. Stuck'
  BY <1>6 DEF Stuck
<1>10. /\ rs["client"].pc \in 1 .. 19 /\ (rs["client"].pc <= 6 \/ rs["client"].pc > 6)
       /\ rs["client"].i \in 0 .. N - 1 /\ (rs["client"].i > 0 => rs["client"].pc \in {9, 12, 14, 16})
       /\ rs["server"].pc \in 1 .. 19
  BY PlaceIs, TwoSides
<1>11. rs["server"].half = 1 => ~(rs["server"].pc \in 4 .. 6)
  BY <1>7 DEF Half
\* data
<1>12. rs["client"].pc <= 6 =>
         theirs' = theirs /\ sock'["server"].sent = <<>> /\ TermsMet(rs["client"].pc, v)
  <2> SUFFICES ASSUME rs["client"].pc <= 6
               PROVE  theirs' = theirs /\ sock'["server"].sent = <<>> /\ TermsMet(rs["client"].pc, v)
    OBVIOUS
  <2>1. StepOf("client") \in Data /\ ~Long("client")
    BY <1>1, MessageParts, TwoSides
  <2>2. PICK u : sock["server"].sent = <<[kind |-> "data", v |-> u]>> /\ TermsMet(rs["client"].pc, u)
    BY <1>7 DEF Answer
  <2>3. Size("client") = 1 /\ theirs' = theirs
    BY <2>1 DEF Size, Received
  <2>4. u = v
    BY <1>2, <2>2, TwoSides DEF Got
  <2>5. PICK q : q = SubSeq(sock["server"].sent, Size("client") + 1, Len(sock["server"].sent))
    OBVIOUS
  <2>6. sock' = [sock EXCEPT !["server"].sent = q]
    BY <2>5, TwoSides DEF Received
  <2>7. sock'["server"].sent = q
    BY <2>6, TwoSides DEF SetupTypes, Sock
  <2>8. q = <<>>
    BY <2>2, <2>3, <2>5, OnePiece
  <2> QED BY <2>2, <2>3, <2>4, <2>7, <2>8
\* keys
<1>13. rs["client"].pc > 6 =>
         /\ \E d : /\ theirs' = [theirs EXCEPT !["client"][rs["client"].i] = d]
                   /\ GoodKey("server", rs["client"].i, rs["client"].pc > 15, d)
         /\ opt["client"].gid # "none" => opt["server"].gid # "none"
         /\ sock'["server"].sent = <<>>
  <2> SUFFICES ASSUME rs["client"].pc > 6
               PROVE  /\ \E d : /\ theirs' = [theirs EXCEPT !["client"][rs["client"].i] = d]
                                /\ GoodKey("server", rs["client"].i, rs["client"].pc > 15, d)
                      /\ opt["client"].gid # "none" => opt["server"].gid # "none"
                      /\ sock'["server"].sent = <<>>
    OBVIOUS
  <2>1. PICK i \in 0 .. N - 1 : i = rs["client"].i
    BY <1>10
  <2>2. PICK m \in DestRec :
          /\ GoodKey("server", i, rs["client"].pc > 15, m)
          /\ sock["server"].sent = <<[kind |-> "key", v |-> m]>>
               \o (IF opt["server"].gid # "none" THEN <<[kind |-> "gid", v |-> m.v4]>> ELSE <<>>)
    <3>1. PICK u : u = sock["server"].sent[1].v
      OBVIOUS
    <3>2. ~(rs["client"].pc <= 6)
      BY <1>10
    <3>3. u \in DestRec /\ GoodKey("server", i, rs["client"].pc > 15, u)
      BY <1>7, <2>1, <3>1, <3>2 DEF Answer
    <3>4. sock["server"].sent = <<[kind |-> "key", v |-> u]>>
            \o (IF opt["server"].gid # "none" THEN <<[kind |-> "gid", v |-> u.v4]>> ELSE <<>>)
      BY <1>7, <3>1, <3>2 DEF Answer
    <3> QED BY <3>3, <3>4
  <2>3. /\ StepOf("client") \in Keys /\ KeyOf("client") = i
        /\ Long("client") <=> opt["client"].gid # "none"
    BY <1>1, <2>1, MessageParts, TwoSides
  <2>6. PICK k : k = [kind |-> "key", v |-> m]
    OBVIOUS
  <2>7. PICK g : g = [kind |-> "gid", v |-> m.v4]
    OBVIOUS
  <2>8. PICK q : q = SubSeq(sock["server"].sent, Size("client") + 1, Len(sock["server"].sent))
    OBVIOUS
  <2>9. sock'["server"].sent = q
    <3>1. sock' = [sock EXCEPT !["server"].sent = q]
      BY <2>8, TwoSides DEF Received
    <3> QED BY <3>1, TwoSides DEF SetupTypes, Sock
  <2>10. opt["server"].gid # "none" => sock["server"].sent = <<k>> \o <<g>>
    BY <2>2, <2>6, <2>7
  <2>11. opt["server"].gid = "none" => sock["server"].sent = <<k>>
    BY <2>2, <2>6, OnePiece
  <2>12. /\ Size("client") = (IF opt["client"].gid # "none" THEN 2 ELSE 1)
         /\ Len(sock["server"].sent) >= Size("client")
    BY <1>1, <2>3, TwoSides DEF Size, Whole
  <2>13. opt["client"].gid # "none" => opt["server"].gid # "none"
    <3> SUFFICES ASSUME opt["client"].gid # "none", opt["server"].gid = "none" PROVE FALSE
      OBVIOUS
    <3>1. Len(sock["server"].sent) = 1
      BY <2>11, OnePiece
    <3> QED BY <2>12, <3>1
  \* the server has read the key of the client, which was as long as its own
  <2>14. opt["server"].gid # "none" => opt["client"].gid # "none"
    <3> SUFFICES ASSUME opt["server"].gid # "none", opt["client"].gid = "none" PROVE FALSE
      OBVIOUS
    <3>1. Pos("client") >= 4
      BY <1>1, <1>3, <1>10 DEF Pos, PosOf, Exchanging
    <3>2. Pos("server") >= 5
      BY <1>6, <1>7, <3>1
    <3>3. rs["server"].pc > 1
      BY <1>10, <3>2 DEF Pos, PosOf
    <3>4. \A t \in Side : rs[t].pc > 1
      BY <1>10, <3>3, TwoSides
    <3>5. Pos("server") <= 4
      BY <3>4 DEF Disagree, Mixed
    <3> QED BY <1>6, <1>7, <3>2, <3>5
  <2>15. q = <<>>
    <3>1. CASE opt["server"].gid = "none"
      <4>1. Size("client") = 1 /\ Len(sock["server"].sent) = 1
        BY <2>11, <2>12, <2>13, <3>1, OnePiece
      <4>2. q = SubSeq(<<k>>, 1 + 1, 1)
        BY <2>8, <2>11, <3>1, <4>1
      <4> QED BY <4>2, OnePiece
    <3>2. CASE opt["server"].gid # "none"
      <4>0. Len(<<k>> \o <<g>>) = 2
        BY TwoPieces
      <4>1. Size("client") = 2 /\ Len(sock["server"].sent) = 2
        BY <2>10, <2>12, <2>14, <3>2, <4>0
      <4>2. q = SubSeq(<<k>> \o <<g>>, 2 + 1, 2)
        BY <2>8, <2>10, <3>2, <4>1
      <4> QED BY <4>2, TwoPieces
    <3> QED BY <3>1, <3>2
  <2>16. Got("client") = m
    <3>1. sock["server"].sent[1] = k
      BY <2>10, <2>11, OnePiece, TwoPieces
    <3> QED BY <2>6, <3>1, TwoSides DEF Got
  <2>17. \E d : /\ theirs' = [theirs EXCEPT !["client"][rs["client"].i] = d]
                /\ GoodKey("server", rs["client"].i, rs["client"].pc > 15, d)
    <3>1. PICK d : d = IF Long("client") THEN m ELSE [m EXCEPT !.v4 = FALSE]
      OBVIOUS
    <3>2. theirs' = [theirs EXCEPT !["client"][i] = d]
      BY <2>3, <2>16, <3>1 DEF Received
    <3>3. GoodKey("server", i, rs["client"].pc > 15, d)
      BY <2>2, <2>3, <3>1 DEF GoodKey, DestRec
    <3> QED BY <2>1, <3>2, <3>3
  <2> QED BY <2>9, <2>13, <2>15, <2>17
<1>14. Disagree'
  <2>1. Mixed' <=> Mixed
    BY <1>3, TwoSides DEF Mixed
  <2>2. Mixed /\ rs["server"].pc > 1 =>
          /\ \A t \in Side : rs[t].pc <= 13
          /\ opt["client"].gid = "none" => Pos("server") <= 4 /\ (Pos("server") = 4 => Half("server") = 0)
          /\ opt["server"].gid = "none" =>
               rs["client"].pc <= 11 /\ Pos("server") <= 5 /\ (Pos("server") = 5 => Half("server") = 0)
    <3>1. rs["client"].pc > 1
      BY <1>1 DEF Exchanging
    <3> QED BY <3>1, TwoSides DEF Disagree
  <2>3. opt["server"].gid = "none" /\ Mixed => rs["client"].pc <= 6
    BY <1>10, <1>13 DEF Mixed
  <2>4. /\ rs["client"].pc <= 13 => rs'["client"].pc <= 13
        /\ rs["client"].pc <= 6 => rs'["client"].pc <= 11
    BY <1>1, <1>10 DEF Moved, Exchanging
  <2>5. Mixed /\ rs["server"].pc > 1 =>
          /\ \A t \in Side : rs'[t].pc <= 13
          /\ opt["server"].gid = "none" => rs'["client"].pc <= 11
    BY <1>4, <2>2, <2>3, <2>4, TwoSides
  <2> QED BY <1>3, <1>4, <1>6, <2>1, <2>2, <2>5, TwoSides DEF Disagree
<1>15. KeysKnown'
  <2>1. Told("server")'
    BY <1>3, <1>4, TwoSides DEF KeysKnown, Told, GoodKey
  <2>2. Told("client")'
    <3>1. (rs'["client"].pc > 10 => rs["client"].pc > 10) /\ (rs'["client"].pc > 15 => rs["client"].pc > 15)
      BY <1>1, <1>10 DEF Moved, Exchanging
    <3> QED BY <1>3, <3>1, TwoSides DEF KeysKnown, Told, GoodKey
  <2>3. Known("server")'
    <3>1. Heard("server")' = Heard("server")
      BY <1>6, TwoSides DEF Heard
    <3>2. Known("server") /\ theirs'["server"] = theirs["server"]
      <4>1. theirs'["server"] = theirs["server"]
        BY <1>10, <1>12, <1>13, TwoSides DEF SetupTypes
      <4> QED BY <4>1, TwoSides DEF KeysKnown
    <3> QED BY <1>3, <3>1, <3>2, TwoSides DEF Known, GoodKey
  <2>4. Known("client")'
    <3>1. Heard("client") = Pos("client") /\ Heard("client")' = Pos("client") + 1
      BY <1>6, TwoSides DEF Heard
    <3>2. Known("client")
      BY TwoSides DEF KeysKnown
    <3>3. \A t \in Side : opt'[t].gid = opt[t].gid /\ opt'[t].conn = opt[t].conn
      BY <1>3
    <3>4. \E d : rs["client"].pc > 6 => /\ theirs' = [theirs EXCEPT !["client"][rs["client"].i] = d]
                                        /\ GoodKey(Peer("client"), rs["client"].i, rs["client"].pc > 15, d)
      BY <1>13, TwoSides
    <3>5. PICK d : rs["client"].pc > 6 => /\ theirs' = [theirs EXCEPT !["client"][rs["client"].i] = d]
                                          /\ GoodKey(Peer("client"), rs["client"].i, rs["client"].pc > 15, d)
      BY <3>4
    <3>6. rs["client"].pc <= 6 => theirs' = theirs
      BY <1>12
    <3> QED BY <1>1, <1>3, <3>1, <3>2, <3>3, <3>5, <3>6, KnownMore, TwoSides
  <2> QED BY <2>1, <2>2, <2>3, <2>4, TwoSides DEF KeysKnown
<1>16. ToServer'
  <2>1. sock'["client"] = sock["client"]
    <3>1. PICK q : q = SubSeq(sock["server"].sent, Size("client") + 1, Len(sock["server"].sent))
      OBVIOUS
    <3>2. sock' = [sock EXCEPT !["server"].sent = q]
      BY <3>1, TwoSides DEF Received
    <3> QED BY <3>2, TwoSides DEF SetupTypes
  <2> QED BY <1>3, <1>4, <1>7, <1>8, <2>1, TwoSides DEF ToServer
<1>17. ToClient'
  BY <1>8, <1>10, <1>12, <1>13 DEF ToClient
<1>18. TermsKept'
  <2>1. /\ rs'["client"].pc > 4 => rs["client"].pc >= 4
        /\ rs'["client"].pc > 5 => rs["client"].pc >= 5
        /\ rs'["client"].pc > 6 => rs["client"].pc >= 6
    BY <1>1, <1>10 DEF Moved, Exchanging
  <2>2. /\ rs["client"].pc = 4 => opt["server"].cyc = opt'["client"].cyc
        /\ rs["client"].pc = 5 => opt["server"].line = opt'["client"].line
        /\ rs["client"].pc = 6 => opt["server"].mtu = opt'["client"].mtu
    BY <1>3, <1>12 DEF TermsMet, TermsMoved
  <2>3. /\ rs["client"].pc > 4 => opt["server"].cyc = opt'["client"].cyc
        /\ rs["client"].pc > 5 => opt["server"].line = opt'["client"].line
        /\ rs["client"].pc > 6 => opt["server"].mtu = opt'["client"].mtu
    BY <1>3, <1>10 DEF TermsKept, TermsMoved
  <2>4. /\ rs'["client"].pc > 4 => opt'["server"].cyc = opt'["client"].cyc
        /\ rs'["client"].pc > 5 => opt'["server"].line = opt'["client"].line
        /\ rs'["client"].pc > 6 => opt'["server"].mtu = opt'["client"].mtu
    BY <1>3, <1>10, <2>1, <2>2, <2>3
  <2> QED BY <1>4, <1>11, <2>4 DEF TermsKept
<1> QED BY <1>3, <1>5, <1>8, <1>9, <1>14, <1>15, <1>16, <1>17, <1>18

-----------------------------------------------------------------------------
(* The steps of a side before its run.                                     *)

\* What such a step does at most.
Early(s) ==
  /\ flight' = flight /\ scq' = scq /\ lat' = lat
  /\ N' = N /\ \A t \in Side : opt'[t].conn = opt[t].conn /\ opt'[t].prog = opt[t].prog
  /\ rs[s].st = "run" /\ rs[s].pc < 19
  /\ \/ rs' = rs
     \/ Moved(s)
     \/ Died(s) /\ rs'[s].st \in {"exited", "crashed", "stray"}
     \/ \E v \in Nat : Halved(s, v)
  /\ rfaults' = rfaults \/ rfaults' # 0
  /\ Died(s) /\ Pos("server") = 6 + 2 * N => rfaults' # 0
  /\ IF rs[s].pc = 8 /\ Moved(s) THEN poll' = [poll EXCEPT ![s] = 0] ELSE poll' = poll

\* Most leave keys, QPs and work requests alone.
Plain(s) ==
  /\ Early(s) /\ mine' = mine /\ rqp' = rqp /\ wr' = wr
  /\ Moved(s) => rs[s].pc \notin {9, 14, 18}

LEMMA NotLate ==
  ASSUME TalkInv, NEW s \in Side, rs[s].pc < 17
  PROVE  Pos("server") # 6 + 2 * N
<1> USE DEF TalkInv
<1>1. /\ N \in {1, 2} /\ rs[s].pc \in 1 .. 19 /\ rs[s].i \in 0 .. 1 /\ rs[s].i < N
  BY PlaceIs
<1>2. Pos(s) < 5 + 2 * N
  BY <1>1 DEF Pos, PosOf
<1>3. Pos("client") \in Nat /\ Pos("server") \in Nat
  BY PosBound, TwoSides
<1> QED BY <1>1, <1>2, <1>3, TwoSides DEF LockStep, Replied

LEMMA Idle ==
  ASSUME TalkInv, NEW s \in Side, rs[s].pc \notin Exchanging
  PROVE  Half(s) = 0
BY PosBound DEF TalkInv

LEMMA MovedOrDied ==
  ASSUME SetupTypes, NEW s \in Side, rs[s].st = "run"
  PROVE  /\ ~(Moved(s) /\ Died(s)) /\ (rs' = rs => ~Moved(s) /\ ~Died(s))
         /\ \A v : Halved(s, v) => ~Died(s) /\ ~Moved(s)
<1>1. rs[s].pc \in 1 .. 19 /\ rs[s].i \in 0 .. 1
  BY DEF SetupTypes, Proc
<1>2. ~(Moved(s) /\ Died(s)) /\ (rs' = rs => ~Died(s)) /\ \A v : Halved(s, v) => ~Died(s) /\ ~Moved(s)
  BY DEF Moved, Died, Halved
<1>3. rs' = rs => ~Moved(s)
  BY <1>1 DEF Moved
<1> QED BY <1>2, <1>3

\* A call that fails.
LEMMA FailStep ==
  ASSUME TalkInv, NEW s \in Side, CallFails(s) \/ NoVersion(s)
  PROVE  TalkInv' /\ Plain(s)
<1>1. SetupTypes' /\ Died(s)
  BY FailTypes DEF TalkInv
<1>2. /\ opt' = opt /\ theirs' = theirs /\ mine' = mine /\ sock' = sock /\ rqp' = rqp /\ wr' = wr
      /\ flight' = flight /\ scq' = scq /\ poll' = poll /\ lat' = lat
  BY DEF CallFails, NoVersion, run0
<1>3. rs[s].pc \in 1 .. 19 /\ rs[s].pc < 17 /\ rs[s].st = "run"
  <2>1. CASE CallFails(s)
    <3>1. rs[s].pc \in {1, 2, 8, 9, 10, 14, 15} /\ rs[s].st = "run"
      BY <2>1, StepIs DEF CallFails, TalkInv
    <3> QED BY <3>1
  <2>2. CASE NoVersion(s)
    BY <2>2, StepIs DEF NoVersion, At, TalkInv
  <2> QED BY <2>1, <2>2
<1>4. Half(s) = 0
  <2>1. CASE CallFails(s)
    <3>1. rs[s].pc \in {1, 2, 8, 9, 10, 14, 15}
      BY <2>1, StepIs DEF CallFails, TalkInv
    <3> QED BY <3>1, Idle DEF Exchanging
  <2>2. CASE NoVersion(s)
    <3>1. rs[s].pc = 3 /\ opt[s].nox
      BY <2>2, StepIs DEF NoVersion, At, TalkInv
    <3> QED BY <3>1 DEF Half, TalkInv, Places
  <2> QED BY <2>1, <2>2
<1>5. TalkInv'
  <2>1. s = "client" /\ Pos("server") = Pos("client") /\ Half("client") = 1 => rs["server"].st # "run"
    BY <1>4
  <2> QED BY <1>1, <1>2, <2>1, TalkEnds
<1>6. rs'[s].st \in {"exited", "crashed", "stray"}
  <2>1. CASE CallFails(s)
    BY <1>3, <2>1, FailedDies DEF CallFails, TalkInv
  <2>2. CASE NoVersion(s)
    <3>1. rs' = [rs EXCEPT ![s].st = "exited"]
      BY <2>2 DEF NoVersion, Ends
    <3>2. rs'[s].st = "exited"
      BY <3>1 DEF TalkInv, SetupTypes, Proc
    <3> QED BY <3>2
  <2> QED BY <2>1, <2>2
<1>7. rfaults' = rfaults \/ rfaults' # 0
  BY FaultTypes DEF CallFails, NoVersion, TalkInv, SetupTypes
<1>8. Pos("server") # 6 + 2 * N
  BY <1>3, NotLate
<1>9. N' = N
  BY <1>2 DEF N
<1> QED BY <1>1, <1>2, <1>3, <1>5, <1>6, <1>7, <1>8, <1>9, MovedOrDied DEF Plain, Early, TalkInv

\* What is read or written only when the other process is gone, or not read.
LEMMA LostStep ==
  ASSUME TalkInv, NEW s \in Side, SetupTypes', NotWritten(s) \/ NotReceived(s),
         mine' = mine, theirs' = theirs, rqp' = rqp, wr' = wr, flight' = flight, scq' = scq, poll' = poll, lat' = lat,
         rfaults' = rfaults \/ rfaults' # 0
  PROVE  TalkInv' /\ Plain(s)
<1> USE DEF TalkInv
<1>1. /\ Died(s) /\ rs'[s].st \in {"exited", "crashed", "stray"} /\ opt' = opt /\ rs[s].pc \in Exchanging
      /\ sock' = sock \/ sock' = [sock EXCEPT ![Peer(s)].sent = <<>>]
  BY DEF NotWritten, NotReceived
<1>2. rs[s].st = "run" /\ rs[s].pc \in 1 .. 19 /\ rs[s].pc < 19
  BY <1>1, PlaceIs DEF Died, Exchanging
<1>3. /\ N \in {1, 2} /\ Pos(s) \in 0 .. 6 + 2 * N /\ Half(s) = rs[s].half /\ Pos(s) # 6 + 2 * N
      /\ Pos("server") \in Nat /\ Pos("client") \in Nat
  <2>1. N \in {1, 2} /\ Pos(s) \in 0 .. 6 + 2 * N /\ Half(s) = rs[s].half
    BY <1>1, PosBound, PlaceIs
  <2>2. Pos(s) # 6 + 2 * N
    <3>1. Pos(s) = 6 + 2 * N <=> rs[s].pc \in {18, 19}
      BY PosBound
    <3> QED BY <1>1, <3>1 DEF Exchanging
  <2>3. Pos("server") \in Nat /\ Pos("client") \in Nat
    BY PosBound, TwoSides
  <2> QED BY <2>1, <2>2, <2>3
<1>4. s = "client" /\ Pos("server") = Pos("client") /\ Half("client") = 1 => rs["server"].st # "run"
  <2> SUFFICES ASSUME s = "client", Pos("server") = Pos("client"), Half("client") = 1
               PROVE  rs["server"].st # "run"
    OBVIOUS
  <2>1. sock["server"].sent = <<>>
    BY <1>2, <1>3 DEF ToClient, Replied
  <2>2. Gone("server")
    BY <1>3, <2>1, TwoSides DEF NotWritten, NotReceived
  <2> QED BY <2>2 DEF Gone
<1>5. TalkInv'
  BY <1>1, <1>4, TalkEnds
<1>6. Pos("server") = 6 + 2 * N => rfaults' # 0
  <2> SUFFICES ASSUME Pos("server") = 6 + 2 * N PROVE rfaults' # 0
    OBVIOUS
  <2>1. s = "client" /\ Replied
    BY <1>3, TwoSides DEF LockStep, Replied
  <2>2. Half("client") = 1 /\ Pos("client") = 5 + 2 * N /\ Answer
    BY <1>2, <1>3, <2>1 DEF Replied, ToClient
  <2>3. NotReceived("client")
    BY <1>3, <2>1, <2>2 DEF NotWritten
  <2>4. rs["client"].pc > 6
    BY <1>2, <1>3, <2>1, <2>2 DEF Pos, PosOf
  <2>5. Whole("client")
    <3>1. StepOf("client") \notin Data /\ (Long("client") <=> opt["client"].gid # "none")
      BY <1>1, <2>1, <2>4, MessageParts, TwoSides
    <3>2. PICK k, g : /\ k.kind = "key"
                      /\ sock["server"].sent = <<k>> \o (IF opt["server"].gid # "none" THEN <<g>> ELSE <<>>)
      <4>1. PICK u : u = sock["server"].sent[1].v
        OBVIOUS
      <4>2. sock["server"].sent = <<[kind |-> "key", v |-> u]>>
              \o (IF opt["server"].gid # "none" THEN <<[kind |-> "gid", v |-> u.v4]>> ELSE <<>>)
        BY <1>2, <2>1, <2>2, <2>4, <4>1 DEF Answer
      <4>3. PICK k : k = [kind |-> "key", v |-> u]
        OBVIOUS
      <4>4. k.kind = "key"
        BY <4>3
      <4> QED BY <4>2, <4>3, <4>4
    <3>3. opt["client"].gid # "none" => opt["server"].gid # "none"
      <4>1. rs["server"].pc \in 1 .. 19 /\ rs["server"].pc > 1
        <5>1. rs["server"].pc \in 1 .. 19
          BY PlaceIs, TwoSides
        <5> QED BY <1>3, <5>1 DEF Pos, PosOf
      <4>2. \A t \in Side : rs[t].pc > 1
        BY <1>2, <2>1, <2>4, <4>1, TwoSides
      <4>3. Mixed /\ opt["server"].gid = "none" => Pos("server") <= 5
        BY <4>2 DEF Disagree
      <4> QED BY <1>3, <4>3 DEF Mixed
    <3>4. /\ opt["server"].gid # "none" => Len(sock["server"].sent) = 2
          /\ opt["server"].gid = "none" => Len(sock["server"].sent) = 1
          /\ sock["server"].sent[1] = k
      BY <3>2, OnePiece, TwoPieces
    <3>5. Size("client") = (IF opt["client"].gid # "none" THEN 2 ELSE 1)
      BY <3>1 DEF Size
    <3>6. Len(sock["server"].sent) >= Size("client")
      <4>1. CASE opt["server"].gid = "none"
        BY <3>3, <3>4, <3>5, <4>1
      <4>2. CASE opt["server"].gid # "none"
        <5>1. Len(sock["server"].sent) = 2 /\ (Size("client") = 1 \/ Size("client") = 2)
          BY <3>4, <3>5, <4>2
        <5> QED BY <5>1
      <4> QED BY <4>1, <4>2
    <3> QED BY <3>1, <3>2, <3>4, <3>6, TwoSides DEF Whole
  <2> QED BY <2>3, <2>5 DEF NotReceived
<1>7. N' = N
  BY <1>1 DEF N
<1> QED BY <1>1, <1>2, <1>5, <1>6, <1>7, MovedOrDied DEF Plain, Early, TalkInv

\* The two find each other.
LEMMA ConnectStep ==
  ASSUME TalkInv, NEW s \in Side,
         (s = "server" /\ (Listen \/ Accept)) \/ (s = "client" /\ ClientConnect)
  PROVE  TalkInv' /\ Plain(s)
<1> USE DEF TalkInv
<1>1. /\ SetupTypes' /\ opt' = opt /\ theirs' = theirs /\ mine' = mine /\ rqp' = rqp /\ wr' = wr
      /\ flight' = flight /\ scq' = scq /\ poll' = poll /\ lat' = lat /\ rfaults' = rfaults
  BY ConnectTypes DEF Listen, Accept, ClientConnect, run0
<1>2. rs[s].pc = 2 /\ rs[s].st = "run"
  BY StepIs DEF Listen, Accept, ClientConnect, At
<1>3. \A t \in Side : sock'[t].sent = sock[t].sent
  <2>1. sock' = sock \/ \E u \in Side, w \in {"listening", "connected"} : sock' = [sock EXCEPT ![u].state = w]
    BY TwoSides DEF Listen, Accept, ClientConnect
  <2>2. CASE \E u \in Side, w \in {"listening", "connected"} : sock' = [sock EXCEPT ![u].state = w]
    <3>1. PICK u \in Side, w \in {"listening", "connected"} : sock' = [sock EXCEPT ![u].state = w]
      BY <2>2
    <3>2. sock'[u].sent = sock[u].sent /\ \A t \in Side : t # u => sock'[t] = sock[t]
      BY <3>1 DEF SetupTypes, Sock
    <3> QED BY <3>2
  <2> QED BY <2>1, <2>2
<1>4. rs' = rs \/ Step(s) \/ (Failed(s) /\ sock' = sock)
  BY DEF Listen, Accept, ClientConnect
<1>5. N' = N /\ Pos("server") # 6 + 2 * N /\ Half(s) = 0
  BY <1>1, <1>2, NotLate, Idle DEF N, Exchanging
<1>6. CASE rs' = rs
  <2>1. TalkInv'
    BY <1>1, <1>3, <1>6, TalkStays
  <2> QED BY <1>1, <1>2, <1>5, <1>6, <2>1, MovedOrDied DEF Plain, Early
<1>7. CASE Step(s)
  <2>1. Moved(s)
    BY <1>2, <1>7, StepMoves
  <2>2. Told(s)'
    <3>1. rs'[s].pc = 3
      BY <1>2, <2>1 DEF Moved
    <3> QED BY <3>1 DEF Told
  <2>3. TalkInv'
    BY <1>1, <1>2, <1>3, <2>1, <2>2, TalkMoves DEF Exchanging
  <2> QED BY <1>1, <1>2, <1>5, <2>1, <2>3, MovedOrDied DEF Plain, Early
<1>8. CASE Failed(s) /\ sock' = sock
  <2>1. Died(s) /\ rs'[s].st \in {"exited", "crashed", "stray"}
    BY <1>2, <1>8, FailedDies
  <2>2. s = "client" /\ Pos("server") = Pos("client") /\ Half("client") = 1 => rs["server"].st # "run"
    BY <1>5
  <2>3. TalkInv'
    BY <1>1, <1>8, <2>1, <2>2, TalkEnds
  <2> QED BY <1>1, <1>2, <1>5, <2>1, <2>3, MovedOrDied DEF Plain, Early
<1> QED BY <1>4, <1>6, <1>7, <1>8

\* It finds its device, allocates, registers its buffer and compares addresses.
LEMMA LocalStep ==
  ASSUME TalkInv, NEW s \in Side, Device(s) \/ Alloc(s) \/ InitCtx(s) \/ GidCheck(s)
  PROVE  TalkInv' /\ Plain(s)
<1> USE DEF TalkInv
<1>1. /\ SetupTypes' /\ theirs' = theirs /\ mine' = mine /\ rqp' = rqp /\ wr' = wr /\ sock' = sock
      /\ flight' = flight /\ scq' = scq /\ lat' = lat /\ rfaults' = rfaults
  BY DeviceTypes, SetupAllocTypes DEF Device, Alloc, InitCtx, GidCheck, run0
<1>2. /\ Device(s) => rs[s].pc = 1 /\ Step(s) /\ poll' = poll
      /\ Alloc(s) => rs[s].pc = 7 /\ Step(s) /\ poll' = poll /\ opt' = opt
      /\ InitCtx(s) => rs[s].pc = 8 /\ Step(s) /\ poll' = [poll EXCEPT ![s] = 0] /\ opt' = opt
      /\ GidCheck(s) => /\ rs[s].pc = 13 /\ poll' = poll /\ opt' = opt
                        /\ (Step(s) /\ mine[s][0].v4 = theirs[s][0].v4) \/ Failed(s)
  BY StepIs DEF Device, Alloc, InitCtx, GidCheck, run0, At, Cleared
<1>3. rs[s].st = "run"
  BY DEF Device, Alloc, InitCtx, GidCheck, At
<1>4. rs[s].pc \in {1, 7, 8, 13}
  BY <1>2
<1>5. Pos("server") # 6 + 2 * N /\ Half(s) = 0
  BY <1>4, NotLate, Idle DEF Exchanging
<1>6. CASE Device(s)
  <2>1. TalkInv'
    BY <1>6, TalkDevice
  <2>2. Moved(s)
    BY <1>6, DeviceTypes
  <2>3. PICK g \in {"none", "v4", "v6"} : opt' = [opt EXCEPT ![s].gid = g]
    BY <1>6, DeviceTypes
  <2>4. \A t \in Side : opt'[t].conn = opt[t].conn /\ opt'[t].prog = opt[t].prog
    <3>1. opt'[s].conn = opt[s].conn /\ opt'[s].prog = opt[s].prog /\ \A t \in Side : t # s => opt'[t] = opt[t]
      BY <2>3 DEF SetupTypes, Options
    <3> QED BY <3>1
  <2>5. N' = N
    BY <2>4, TwoSides DEF N, NumQps, Paired
  <2> QED BY <1>1, <1>2, <1>3, <1>5, <1>6, <2>1, <2>2, <2>4, <2>5, MovedOrDied DEF Plain, Early
<1>7. CASE ~Device(s) /\ Step(s)
  <2>1. Moved(s)
    BY <1>4, <1>7, StepMoves
  <2>2. opt' = opt /\ N' = N
    BY <1>2, <1>7 DEF N
  <2>3. Told(s)'
    <3>1. rs[s].pc = 13 => rs'[s].pc = 14 /\ rs[s].pc > 10
      BY <2>1 DEF Moved
    <3>2. rs[s].pc # 13 => rs'[s].pc \in {2, 8, 9}
      BY <1>4, <2>1 DEF Moved
    <3>3. CASE rs[s].pc = 13
      <4>1. rs[s].pc > 10 /\ ~(rs'[s].pc > 15)
        BY <3>1, <3>3
      <4>2. \A i \in 0 .. N - 1 : GoodKey(s, i, FALSE, mine[s][i])
        BY <4>1, Zenon DEF Told, KeysKnown
      <4>3. \A i \in 0 .. N' - 1 : GoodKey(s, i, FALSE, mine[s][i])'
        BY <1>1, <2>2, <4>2 DEF GoodKey
      <4> QED BY <4>1, <4>3 DEF Told
    <3>4. CASE rs[s].pc # 13
      <4>1. ~(rs'[s].pc > 10) /\ ~(rs'[s].pc > 15)
        BY <3>2, <3>4
      <4> QED BY <4>1 DEF Told
    <3> QED BY <3>3, <3>4
  <2>4. rs[s].pc = 13 => mine[s][0].v4 = theirs[s][0].v4
    <3> SUFFICES ASSUME rs[s].pc = 13 PROVE mine[s][0].v4 = theirs[s][0].v4
      OBVIOUS
    <3>1. GidCheck(s)
      BY <1>2, <1>7
    <3>2. mine[s][0].v4 # theirs[s][0].v4 => Died(s)
      BY <1>3, <3>1, FailedDies DEF GidCheck
    <3> QED BY <1>3, <2>1, <3>2, MovedOrDied
  <2>5. TalkInv'
    <3>1. rs[s].pc # 1
      BY <1>2, <1>7
    <3> QED BY <1>1, <1>3, <1>4, <2>1, <2>2, <2>3, <2>4, <3>1, TalkMoves DEF Exchanging
  <2>6. IF rs[s].pc = 8 /\ Moved(s) THEN poll' = [poll EXCEPT ![s] = 0] ELSE poll' = poll
    BY <1>2, <1>7, <2>1
  <2> QED BY <1>1, <1>3, <1>4, <1>5, <2>1, <2>2, <2>5, <2>6, MovedOrDied DEF Plain, Early
<1>8. CASE ~Device(s) /\ ~Step(s)
  <2>1. GidCheck(s) /\ Failed(s) /\ opt' = opt /\ poll' = poll
    BY <1>2, <1>8
  <2>2. Died(s) /\ rs'[s].st \in {"exited", "crashed", "stray"}
    BY <1>3, <2>1, FailedDies
  <2>3. s = "client" /\ Pos("server") = Pos("client") /\ Half("client") = 1 => rs["server"].st # "run"
    BY <1>5
  <2>4. TalkInv'
    BY <1>1, <2>1, <2>2, <2>3, TalkEnds
  <2>5. N' = N
    BY <2>1 DEF N
  <2> QED BY <1>1, <1>2, <1>3, <1>5, <2>1, <2>2, <2>4, <2>5, MovedOrDied DEF Plain, Early
<1> QED BY <1>6, <1>7, <1>8

\* The two speak.
LEMMA SpeakStep ==
  ASSUME TalkInv, NEW s \in Side, Write(s) \/ ReadMsg(s)
  PROVE  TalkInv' /\ Plain(s)
<1> USE DEF TalkInv
<1>1. /\ SetupTypes' /\ mine' = mine /\ rqp' = rqp /\ wr' = wr
      /\ flight' = flight /\ scq' = scq /\ poll' = poll /\ lat' = lat
  BY WriteTypes, ReadTypes DEF Write, ReadMsg, run0
<1>2. (Write(s) => theirs' = theirs /\ rfaults' = rfaults) /\ (NotReceived(s) => theirs' = theirs)
  BY DEF Write, NotReceived
<1>3. rfaults' = rfaults \/ rfaults' # 0
  BY FaultTypes DEF Write, ReadMsg, SetupTypes
<1>4. CASE (NotWritten(s) /\ Write(s)) \/ NotReceived(s)
  BY <1>1, <1>2, <1>3, <1>4, LostStep
<1>5. CASE (Wrote(s) /\ Write(s)) \/ Received(s)
  <2>1. TalkInv'
    <3>1. CASE Wrote(s) /\ Write(s)
      BY <1>1, <1>2, <3>1, TalkAsk, TalkReply, TwoSides
    <3>2. CASE Received(s)
      BY <1>1, <3>2, TalkHear, TalkLearn, TwoSides
    <3> QED BY <1>5, <3>1, <3>2
  <2>2. rs[s].st = "run" /\ rs[s].pc \in Exchanging /\ (Moved(s) \/ \E v \in Nat : Halved(s, v))
    <3>1. rs[s].st = "run" /\ rs[s].pc \in Exchanging
      BY <1>5 DEF Wrote, Received
    <3>2. Wrote(s) => Moved(s) \/ Halved(s, 0)
      BY TwoSides DEF Wrote
    <3>3. Received(s) => Moved(s) \/ \E v \in Nat : Halved(s, v)
      <4> SUFFICES ASSUME Received(s), s = "server" PROVE \E v \in Nat : Halved(s, v)
        BY TwoSides DEF Received
      <4>1. PICK v : v = IF StepOf(s) \in Data THEN Got(s) ELSE 0
        OBVIOUS
      <4>2. v \in Nat /\ Halved(s, v)
        BY <4>1 DEF Received
      <4> QED BY <4>2
    <3> QED BY <1>5, <3>1, <3>2, <3>3
  <2>3. ~Died(s)
    BY <2>2, MovedOrDied
  <2>4. N' = N /\ \A t \in Side : opt'[t].conn = opt[t].conn /\ opt'[t].prog = opt[t].prog
    <3>1. CASE opt' = opt
      BY <3>1 DEF N
    <3>2. CASE \E v : /\ StepOf(s) \in Data => v \in Nat
                      /\ opt' = [opt EXCEPT ![s] = IF StepOf(s) \in Data THEN Agreed(@, StepOf(s), v) ELSE @]
      <4>1. PICK v : /\ StepOf(s) \in Data => v \in Nat
                     /\ opt' = [opt EXCEPT ![s] = IF StepOf(s) \in Data THEN Agreed(@, StepOf(s), v) ELSE @]
        BY <3>2
      <4>2. N' = N
        BY <4>1, TermsMove, Zenon
      <4>3. \A t \in Side : /\ opt'[t].gid = opt[t].gid /\ opt'[t].conn = opt[t].conn
                            /\ opt'[t].prog = opt[t].prog /\ opt'[t].nox = opt[t].nox
        BY <4>1, TermsMove, Zenon
      <4> QED BY <4>2, <4>3
    <3>3. opt' = opt \/ \E v : /\ StepOf(s) \in Data => v \in Nat
                               /\ opt' = [opt EXCEPT ![s] = IF StepOf(s) \in Data THEN Agreed(@, StepOf(s), v) ELSE @]
      <4>1. rs[s].rem \in Nat
        BY DEF SetupTypes, Proc
      <4>2. StepOf(s) \in Data /\ Received(s) => Got(s) \in Nat
        BY DEF Received
      <4> QED BY <1>5, <4>1, <4>2, TwoSides DEF Wrote, Received
    <3> QED BY <3>1, <3>2, <3>3
  <2> QED BY <1>1, <1>3, <2>1, <2>2, <2>3, <2>4 DEF Plain, Early, Exchanging
<1> QED BY <1>4, <1>5, WriteTypes, ReadTypes

\* The keys that a side makes.
LEMMA DestKeys ==
  ASSUME TalkInv, Fresh, QpsShape, NEW s \in Side, Dest(s), NEW i \in 0 .. N - 1,
         rs[s].pc = 10 \/ opt[s].conn = "DC"
  PROVE  GoodKey(s, i, rs[s].pc > 10, mine'[s][i])
<1> USE DEF TalkInv
<1>1. rs[s].pc \in {10, 15} /\ N \in {1, 2} /\ i \in 0 .. 1 /\ rs[s].i \in 0 .. 1
  BY DestTypes, Setting, PlaceIs
<1>2. NumQps(opt[s]) = N /\ opt[s].conn = opt["client"].conn /\ Slot(opt[s], i) = N + i
  BY Setting
<1>3. ~(At(s, "dest2") /\ opt[s].conn # "DC")
  BY StepIs DEF At
<1>4. PICK v4 \in BOOLEAN :
        /\ opt[s].gid # "none" => v4 = (opt[s].gid = "v4")
        /\ mine' = [mine EXCEPT ![s] = [j \in 0 .. 1 |->
             IF j >= NumQps(opt[s]) THEN NoDest
             ELSE [qpn |-> QpNum(s, j), psn |-> @[j].psn + 1, slot |-> Slot(opt[s], j), v4 |-> v4]]]
  BY <1>3 DEF Dest
<1>5. mine'[s] = [j \in 0 .. 1 |->
             IF j >= NumQps(opt[s]) THEN NoDest
             ELSE [qpn |-> QpNum(s, j), psn |-> mine[s][j].psn + 1, slot |-> Slot(opt[s], j), v4 |-> v4]]
  BY <1>4 DEF SetupTypes
<1>6. ~(i >= NumQps(opt[s]))
  BY <1>1, <1>2
<1>7. mine'[s][i] = [qpn |-> QpNum(s, i), psn |-> mine[s][i].psn + 1, slot |-> Slot(opt[s], i), v4 |-> v4]
  BY <1>1, <1>5, <1>6
<1>8. PICK d : d = mine'[s][i]
  OBVIOUS
<1>9. d.qpn = QpNum(s, i) /\ d.psn = mine[s][i].psn + 1 /\ d.slot = N + i /\ d.v4 = v4
  BY <1>2, <1>7, <1>8
<1>10. opt["client"].conn # "DC" => d.psn = 1
  <2> SUFFICES ASSUME opt["client"].conn # "DC" PROVE mine[s][i].psn = 0
    BY <1>9
  <2>1. rs[s].pc = 10 /\ rs[s].pc <= 10
    BY <1>2
  <2> QED BY <1>1, <2>1 DEF Fresh
<1>11. opt["client"].conn # "DC" \/ i = 0 \/ rs[s].pc > 10 => d.qpn = <<s, i>>
  <2> SUFFICES ASSUME opt["client"].conn # "DC" \/ i = 0 \/ rs[s].pc > 10
               PROVE  ~Dct(opt[s], i) \/ rqp[s][i].st = "rtr"
    BY <1>9 DEF QpNum
  <2>1. CASE opt["client"].conn # "DC" \/ i = 0
    BY <1>2, <2>1 DEF Dct
  <2>2. CASE rs[s].pc > 10 /\ Dct(opt[s], i)
    <3>1. rs[s].pc = 15 /\ Connected(s, i) /\ Dct(opt["client"], i) /\ i < N
      BY <1>1, <1>2, <2>2 DEF Connected, Dct
    <3> QED BY <1>1, <3>1 DEF QpsShape, QpIs
  <2> QED BY <2>1, <2>2
<1>12. opt["client"].gid # "none" /\ opt["server"].gid # "none" => d.v4 = (opt[s].gid = "v4")
  BY <1>4, <1>9, TwoSides
<1> QED BY <1>8, <1>9, <1>10, <1>11, <1>12 DEF GoodKey

LEMMA DestStep ==
  ASSUME TalkInv, Fresh, QpsShape, NEW s \in Side, Dest(s)
  PROVE  /\ TalkInv' /\ Early(s) /\ Fresh' /\ Moved(s) /\ rs[s].pc \in {10, 15}
         /\ rqp' = rqp /\ wr' = wr
<1> USE DEF TalkInv
<1>1. /\ SetupTypes' /\ Moved(s) /\ rs[s].pc \in {10, 15} /\ rs[s].st = "run"
      /\ opt' = opt /\ theirs' = theirs /\ rqp' = rqp /\ wr' = wr /\ sock' = sock
      /\ flight' = flight /\ scq' = scq /\ lat' = lat /\ poll' = poll
  BY DestTypes DEF Dest, run0
<1>2. N' = N /\ N \in {1, 2} /\ opt[s].conn = opt["client"].conn
  BY <1>1, Setting DEF N
<1>3. rs'[s].pc = rs[s].pc + 1 /\ Peer(s) \in Side /\ Peer(s) # s
  BY <1>1, TwoSides DEF Moved
<1>4. mine'[Peer(s)] = mine[Peer(s)]
  BY <1>3 DEF Dest, SetupTypes
<1>5. ASSUME rs[s].pc = 10 \/ opt[s].conn = "DC" PROVE Told(s)'
  <2>1. ASSUME NEW i \in 0 .. N - 1 PROVE GoodKey(s, i, rs[s].pc > 10, mine'[s][i])
    BY <1>5, DestKeys
  <2>2. /\ rs'[s].pc > 10 => \A i \in 0 .. N - 1 : GoodKey(s, i, FALSE, mine'[s][i])
        /\ rs'[s].pc > 15 => \A i \in 0 .. N - 1 : GoodKey(s, i, TRUE, mine'[s][i])
    <3>1. \A i \in 0 .. N - 1 : GoodKey(s, i, FALSE, mine'[s][i])
      BY <2>1 DEF GoodKey
    <3>2. rs'[s].pc > 15 => rs[s].pc > 10
      BY <1>1, <1>3
    <3>3. rs[s].pc > 10 => \A i \in 0 .. N - 1 : GoodKey(s, i, TRUE, mine'[s][i])
      BY <2>1 DEF GoodKey
    <3> QED BY <3>1, <3>2, <3>3
  <2> QED BY <1>1, <1>2, <2>2 DEF Told, GoodKey
<1>6. ASSUME rs[s].pc = 15, opt[s].conn # "DC" PROVE Told(s)'
  <2>1. mine' = mine
    BY <1>6, StepIs DEF Dest, At
  <2>2. \A i \in 0 .. N - 1 : GoodKey(s, i, FALSE, mine[s][i])
    <3>1. rs[s].pc > 10
      BY <1>6
    <3> QED BY <3>1, Zenon DEF Told, KeysKnown
  <2>3. \A i \in 0 .. N - 1 : GoodKey(s, i, TRUE, mine[s][i])
    BY <1>2, <1>6, <2>2 DEF GoodKey
  <2> QED BY <1>1, <1>2, <2>1, <2>2, <2>3 DEF Told, GoodKey
<1>7. Told(s)'
  BY <1>1, <1>5, <1>6
<1>8. TalkInv'
  BY <1>1, <1>4, <1>7, TalkMoves DEF Exchanging
<1>9. Fresh'
  <2>1. ~(rs'[s].pc <= 10) /\ rs'[Peer(s)] = rs[Peer(s)] /\ \A t \in Side : t = s \/ t = Peer(s)
    BY <1>1, <1>3, TwoSides DEF Moved
  <2> QED BY <1>4, <2>1 DEF Fresh
<1>10. rfaults' = rfaults \/ rfaults' # 0
  BY FaultTypes DEF Dest, SetupTypes
<1> QED BY <1>1, <1>2, <1>8, <1>9, <1>10, MovedOrDied DEF Early

\* A QP is as it was.
LEMMA QpStays ==
  ASSUME NEW s \in Side, NEW i \in 0 .. 1, QpIs(s, i), N' = N, opt'["client"].conn = opt["client"].conn,
         rqp'[s][i] = rqp[s][i], rs'[s].pc = rs[s].pc, rs'[s].i = rs[s].i
  PROVE  QpIs(s, i)'
<1>1. Dct(opt["client"], i)' <=> Dct(opt["client"], i)
  BY DEF Dct
<1>2. Other(opt["client"], i)' = Other(opt["client"], i)
  BY DEF Other, Paired
<1> QED BY <1>1, <1>2 DEF QpIs, Connected

\* The QPs are made.
LEMMA CreateQpStep ==
  ASSUME TalkInv, Fresh, QpsShape, NEW s \in Side, CreateQp(s)
  PROVE  TalkInv' /\ Early(s) /\ Fresh' /\ QpsShape' /\ wr' = wr /\ Moved(s) /\ rs[s].pc = 9
<1> USE DEF TalkInv
<1>1. /\ SetupTypes' /\ Moved(s) /\ rs[s].pc = 9 /\ rs[s].st = "run"
      /\ opt' = opt /\ theirs' = theirs /\ mine' = mine /\ wr' = wr /\ sock' = sock
      /\ flight' = flight /\ scq' = scq /\ lat' = lat /\ poll' = poll
  BY CreateQpTypes, StepIs DEF CreateQp, run0, At
<1>2. N' = N /\ N \in {1, 2} /\ rs[s].i \in 0 .. 1 /\ rs[s].i < N
  BY <1>1, PlaceIs DEF N
<1>3. rs'[s].pc \in {9, 10} /\ rs'[Peer(s)] = rs[Peer(s)] /\ \A t \in Side : t = s \/ t = Peer(s)
  BY <1>1, TwoSides DEF Moved
<1>4. Told(s)'
  <2>1. ~(rs'[s].pc > 10) /\ ~(rs'[s].pc > 15)
    BY <1>3
  <2> QED BY <2>1 DEF Told
<1>5. TalkInv'
  BY <1>1, <1>4, TalkMoves DEF Exchanging
<1>6. Fresh'
  <2>1. rs[s].pc <= 10
    BY <1>1
  <2> QED BY <1>1, <1>3, <2>1 DEF Fresh
<1>7. rfaults' = rfaults \/ rfaults' # 0
  BY FaultTypes DEF CreateQp, SetupTypes
<1>8. QpsShape'
  <2>1. PICK q \in QpRec : rqp' = [rqp EXCEPT ![s][rs[s].i] = q] /\ q.st \in {"reset", "init"}
    BY CreateQpTypes
  <2>2. rqp'[s] = [rqp[s] EXCEPT ![rs[s].i] = q] /\ rqp'[Peer(s)] = rqp[Peer(s)]
    BY <2>1, TwoSides DEF SetupTypes
  <2>3. rqp'[s][rs[s].i] = q /\ \A i \in 0 .. 1 : i # rs[s].i => rqp'[s][i] = rqp[s][i]
    BY <1>2, <2>2 DEF SetupTypes
  <2>4. ASSUME NEW i \in 0 .. 1
        PROVE  /\ rqp'[s][i].st \notin {"rtr", "rts"} /\ ~Connected(s, i)'
               /\ (i >= N \/ rs'[s].pc < 9 \/ (rs'[s].pc = 9 /\ i >= rs'[s].i)) => rqp'[s][i].st = "none"
    <3>1. ~Connected(s, i)'
      BY <1>3 DEF Connected
    <3>2. CASE i = rs[s].i
      BY <1>1, <1>2, <1>3, <2>1, <2>3, <3>1, <3>2 DEF Moved
    <3>3. CASE i # rs[s].i
      <4>1. rqp[s][i].st \notin {"rtr", "rts"}
        BY <1>1 DEF QpsShape, QpIs
      <4>2. i >= N \/ i >= rs[s].i => rqp[s][i].st = "none"
        BY <1>1 DEF QpsShape, QpIs
      <4>3. i >= N \/ rs'[s].pc < 9 \/ (rs'[s].pc = 9 /\ i >= rs'[s].i) => i >= N \/ i >= rs[s].i
        BY <1>1, <1>2, <1>3 DEF Moved
      <4> QED BY <2>3, <3>1, <3>3, <4>1, <4>2, <4>3
    <3> QED BY <3>2, <3>3
  <2>5. ASSUME NEW i \in 0 .. 1
        PROVE  QpIs(Peer(s), i)'
    BY <1>1, <1>2, <1>3, <2>2, TwoSides, QpStays DEF QpsShape
  <2>6. ASSUME NEW i \in 0 .. 1 PROVE QpIs(s, i)'
    BY <1>1, <1>2, <2>4 DEF QpIs
  <2> QED BY <1>3, <2>5, <2>6 DEF QpsShape
<1> QED BY <1>1, <1>2, <1>5, <1>6, <1>7, <1>8, MovedOrDied DEF Early

\* A QP that is connected: what it is told of the other side.
LEMMA QpTold ==
  ASSUME TalkInv, NEW s \in Side, rs[s].pc \in {14, 18}, NEW i \in 0 .. N - 1
  PROVE  GoodKey(Peer(s), i, rs[s].pc = 18, theirs[s][i])
<1> USE DEF TalkInv
<1>1. N \in {1, 2} /\ rs[s].i \in 0 .. 1 /\ Half(s) = 0
  BY PlaceIs, Idle DEF Exchanging
<1>2. Heard(s) = (IF rs[s].pc = 14 THEN 5 + N ELSE 6 + 2 * N)
  BY <1>1 DEF Heard, Pos, PosOf
<1>3. Known(s)
  BY DEF KeysKnown
<1>4. Heard(s) > 5 + i /\ (rs[s].pc = 18 => Heard(s) > 5 + N + i)
  BY <1>1, <1>2
<1>5. GoodKey(Peer(s), i, FALSE, theirs[s][i])
  BY <1>3, <1>4, Zenon DEF Known
<1>6. rs[s].pc = 18 => GoodKey(Peer(s), i, TRUE, theirs[s][i])
  BY <1>3, <1>4, Zenon DEF Known
<1> QED BY <1>5, <1>6 DEF GoodKey

LEMMA ConnectQpStep ==
  ASSUME TalkInv, Fresh, QpsShape, NEW s \in Side, ConnectQp(s)
  PROVE  TalkInv' /\ Early(s) /\ Fresh' /\ QpsShape' /\ wr' = wr /\ rs[s].pc = 14
<1> USE DEF TalkInv
<1>1. /\ SetupTypes' /\ rs[s].pc = 14 /\ rs[s].st = "run"
      /\ opt' = opt /\ theirs' = theirs /\ mine' = mine /\ wr' = wr /\ sock' = sock
      /\ flight' = flight /\ scq' = scq /\ lat' = lat /\ poll' = poll
  BY ConnectQpTypes, StepIs DEF ConnectQp, run0, At
<1>2. /\ N' = N /\ N \in {1, 2} /\ rs[s].i \in 0 .. 1 /\ rs[s].i < N /\ opt[s].conn = opt["client"].conn
      /\ Pos("server") # 6 + 2 * N /\ Half(s) = 0
  BY <1>1, PlaceIs, Setting, NotLate, Idle DEF N, Exchanging
<1>3. PICK i \in 0 .. 1 : i = rs[s].i
  BY <1>2
<1>4. PICK q : q = Rtr(s, rqp[s][i], DestOf(s, i))
  OBVIOUS
<1>5. PICK r : r = Rts(q, mine[s][i])
  OBVIOUS
<1>14. PICK w : w = IF Dct(opt[s], i) THEN q ELSE r
  OBVIOUS
<1>6. /\ Moved(s) \/ (Died(s) /\ rs'[s].st \in {"exited", "crashed", "stray"})
      /\ \/ rqp' = rqp /\ Died(s)
         \/ Moved(s) /\ rqp' = [rqp EXCEPT ![s][i] = w]
         \/ Died(s) /\ rqp' = [rqp EXCEPT ![s][i] = q] /\ ~Dct(opt[s], i)
  <2>1. Failed(s) => Died(s) /\ rs'[s].st \in {"exited", "crashed", "stray"}
    BY <1>1, FailedDies
  <2>2. NextQp(s) => Moved(s)
    BY <1>1, NextMoves
  <2>3. \/ rqp' = rqp /\ Failed(s)
        \/ NextQp(s) /\ rqp' = [rqp EXCEPT ![s][i] = w]
        \/ Failed(s) /\ rqp' = [rqp EXCEPT ![s][i] = q] /\ ~Dct(opt[s], i)
    <3>1. \/ Failed(s) /\ rqp' = rqp
          \/ /\ rqp' = [rqp EXCEPT ![s][i] = IF Dct(opt[s], i) THEN Rtr(s, rqp[s][i], DestOf(s, i))
                                              ELSE Rts(Rtr(s, rqp[s][i], DestOf(s, i)), mine[s][i])]
             /\ NextQp(s)
          \/ /\ rqp' = [rqp EXCEPT ![s][i] = Rtr(s, rqp[s][i], DestOf(s, i))]
             /\ Failed(s) /\ ~Dct(opt[s], i)
      BY <1>3, Zenon DEF ConnectQp
    <3>2. Rtr(s, rqp[s][i], DestOf(s, i)) = q /\ Rts(Rtr(s, rqp[s][i], DestOf(s, i)), mine[s][i]) = r
      BY <1>4, <1>5
    <3>3. CASE NextQp(s) /\ rqp' = [rqp EXCEPT ![s][i] = IF Dct(opt[s], i) THEN Rtr(s, rqp[s][i], DestOf(s, i))
                                              ELSE Rts(Rtr(s, rqp[s][i], DestOf(s, i)), mine[s][i])]
      BY <1>14, <3>2, <3>3
    <3>4. CASE /\ rqp' = [rqp EXCEPT ![s][i] = Rtr(s, rqp[s][i], DestOf(s, i))]
               /\ Failed(s) /\ ~Dct(opt[s], i)
      BY <3>2, <3>4
    <3> QED BY <3>1, <3>3, <3>4
  <2>4. CASE Failed(s) /\ rqp' = rqp
    BY <2>1, <2>4
  <2>5. CASE NextQp(s) /\ rqp' = [rqp EXCEPT ![s][i] = w]
    BY <2>2, <2>5
  <2>6. CASE Failed(s) /\ rqp' = [rqp EXCEPT ![s][i] = q] /\ ~Dct(opt[s], i)
    BY <2>1, <2>6
  <2> QED BY <2>3, <2>4, <2>5, <2>6
<1>7. /\ rs'[Peer(s)] = rs[Peer(s)] /\ (\A t \in Side : t = s \/ t = Peer(s)) /\ rs'[s].pc \in {14, 15}
      /\ Peer(s) \in Side /\ Peer(s) # s
  BY <1>1, <1>6, TwoSides DEF Moved, Died
<1>8. Told(s)'
  <2>1. \A j \in 0 .. N - 1 : GoodKey(s, j, FALSE, mine[s][j])
    <3>1. rs[s].pc > 10
      BY <1>1
    <3> QED BY <3>1, Zenon DEF Told, KeysKnown
  <2>2. \A j \in 0 .. N - 1 : GoodKey(s, j, FALSE, mine[s][j])'
    BY <1>1, <1>2, <2>1 DEF GoodKey
  <2>3. ~(rs'[s].pc > 15)
    BY <1>7
  <2> QED BY <1>2, <2>2, <2>3 DEF Told
<1>9. TalkInv'
  <2>1. CASE Moved(s)
    BY <1>1, <1>8, <2>1, TalkMoves DEF Exchanging
  <2>2. CASE Died(s)
    <3>1. s = "client" /\ Pos("server") = Pos("client") /\ Half("client") = 1 => rs["server"].st # "run"
      BY <1>2
    <3> QED BY <1>1, <2>2, <3>1, TalkEnds
  <2> QED BY <1>6, <2>1, <2>2
<1>10. Fresh'
  <2>1. ~(rs'[s].pc <= 10)
    BY <1>7
  <2> QED BY <1>1, <1>7, <2>1 DEF Fresh
<1>11. rfaults' = rfaults \/ rfaults' # 0
  BY FaultTypes DEF ConnectQp, SetupTypes
<1>12. /\ q.st = "rtr" /\ r.st = "rts"
       /\ opt["client"].conn # "DC" => r.to = <<Peer(s), Other(opt["client"], i)>> /\ r.rq = 1 /\ r.sq = 1
  <2>1. PICK p \in QpRec : p = rqp[s][i]
    BY DEF SetupTypes
  <2>2. PICK o \in 0 .. N - 1 : o = Other(opt[s], i) /\ o = Other(opt["client"], i)
    BY <1>2, <1>3, Setting
  <2>3. o \in 0 .. 1
    BY <1>2
  <2>4. PICK d \in DestRec : d = theirs[s][o] /\ d = DestOf(s, i)
    BY <2>2, <2>3 DEF DestOf, SetupTypes
  <2>5. PICK m \in DestRec : m = mine[s][i]
    BY DEF SetupTypes
  <2>6. q = (IF opt[s].conn = "DC" THEN [p EXCEPT !.st = "rtr"]
             ELSE [p EXCEPT !.st = "rtr", !.to = d.qpn, !.rq = d.psn])
    BY <1>4, <2>1, <2>4 DEF Rtr
  <2>7. r = [q EXCEPT !.st = "rts", !.sq = m.psn]
    BY <1>5, <2>5 DEF Rts
  <2>8. q \in [st : {"rtr"}, to : QpRef, rq : Nat, sq : Nat] /\ (opt[s].conn # "DC" => q.to = d.qpn /\ q.rq = d.psn)
    <3>1. CASE opt[s].conn = "DC"
      BY <2>6, <3>1 DEF QpRec
    <3>2. CASE opt[s].conn # "DC"
      <4>1. q = [st |-> "rtr", to |-> d.qpn, rq |-> d.psn, sq |-> p.sq]
        BY <2>6, <3>2 DEF QpRec
      <4>2. d.qpn \in QpRef /\ d.psn \in Nat /\ p.sq \in Nat
        BY DEF DestRec, QpRec
      <4> QED BY <4>1, <4>2
    <3> QED BY <3>1, <3>2
  <2>9. r.st = "rts" /\ r.to = q.to /\ r.rq = q.rq /\ r.sq = m.psn /\ q.st = "rtr"
    BY <2>7, <2>8
  <2>10. GoodKey(Peer(s), o, FALSE, d)
    <3>1. GoodKey(Peer(s), o, rs[s].pc = 18, theirs[s][o])
      BY <1>1, QpTold
    <3> QED BY <2>4, <3>1 DEF GoodKey
  <2>11. GoodKey(s, i, FALSE, m)
    <3>1. rs[s].pc > 10 /\ i \in 0 .. N - 1
      BY <1>1, <1>2, <1>3
    <3> QED BY <2>5, <3>1, Zenon DEF Told, KeysKnown
  <2>12. opt["client"].conn # "DC" => d.qpn = <<Peer(s), o>> /\ d.psn = 1 /\ m.psn = 1
    BY <2>10, <2>11 DEF GoodKey
  <2> QED BY <1>2, <2>2, <2>8, <2>9, <2>12
<1>13. QpsShape'
  <2>1. /\ rqp'[Peer(s)] = rqp[Peer(s)] /\ \A j \in 0 .. 1 : j # i => rqp'[s][j] = rqp[s][j]
        /\ rqp'[s][i] \in {rqp[s][i], q, r}
        /\ rqp'[s][i] = rqp[s][i] => Died(s) \/ rqp' = [rqp EXCEPT ![s][i] = w]
    <3>1. CASE rqp' = rqp
      BY <1>6, <3>1
    <3>0. w \in {q, r}
      BY <1>14
    <3>2. CASE \E u \in {q, r} : rqp' = [rqp EXCEPT ![s][i] = u]
      <4>1. PICK u \in {q, r} : rqp' = [rqp EXCEPT ![s][i] = u]
        BY <3>2
      <4>2. rqp'[s] = [rqp[s] EXCEPT ![i] = u] /\ rqp'[Peer(s)] = rqp[Peer(s)]
        BY <1>7, <4>1 DEF SetupTypes
      <4>3. rqp'[s][i] = u /\ \A j \in 0 .. 1 : j # i => rqp'[s][j] = rqp[s][j]
        BY <4>2 DEF SetupTypes
      <4> QED BY <1>6, <4>2, <4>3
    <3> QED BY <1>6, <3>0, <3>1, <3>2
  <2>2. ASSUME NEW j \in 0 .. 1 PROVE QpIs(Peer(s), j)'
    BY <1>1, <1>2, <1>7, <2>1, QpStays DEF QpsShape
  <2>3. \A j : (Dct(opt["client"], j)' <=> Dct(opt["client"], j)) /\ Other(opt["client"], j)' = Other(opt["client"], j)
    BY <1>1
  <2>4. CASE Died(s)
    <3>1. rs'[s].pc = rs[s].pc /\ rs'[s].i = rs[s].i /\ rqp'[s][i] \in {rqp[s][i], q}
      <4>1. rs'[s].pc = rs[s].pc /\ rs'[s].i = rs[s].i
        BY <2>4 DEF Died
      <4>2. rqp' = rqp \/ rqp' = [rqp EXCEPT ![s][i] = q]
        BY <1>1, <1>6, <2>4, MovedOrDied
      <4>3. CASE rqp' = [rqp EXCEPT ![s][i] = q]
        <5>1. rqp'[s] = [rqp[s] EXCEPT ![i] = q]
          BY <4>3 DEF SetupTypes
        <5>2. rqp'[s][i] = q
          BY <5>1 DEF SetupTypes
        <5> QED BY <4>1, <5>2
      <4> QED BY <4>1, <4>2, <4>3
    <3>2. ASSUME NEW j \in 0 .. 1, j # i PROVE QpIs(s, j)'
      BY <1>1, <1>2, <2>1, <3>1, <3>2, QpStays DEF QpsShape
    <3>3. QpIs(s, i)'
      <4>1. CASE rqp'[s][i] = rqp[s][i]
        BY <1>1, <1>2, <3>1, <4>1, QpStays DEF QpsShape
      <4>2. CASE rqp'[s][i] = q
        BY <1>1, <1>2, <1>3, <1>12, <3>1, <4>2 DEF QpIs, Connected
      <4> QED BY <3>1, <4>1, <4>2
    <3> QED BY <1>7, <2>2, <3>2, <3>3 DEF QpsShape
  <2>5. CASE Moved(s)
    <3>1. rqp'[s][i] = (IF Dct(opt["client"], i) THEN q ELSE r)
      <4>1. PICK u : u = IF Dct(opt[s], i) THEN q ELSE r
        OBVIOUS
      <4>2. rqp' = [rqp EXCEPT ![s][i] = u]
        BY <1>1, <1>6, <1>14, <2>5, <4>1, MovedOrDied
      <4>3. rqp'[s] = [rqp[s] EXCEPT ![i] = u]
        BY <4>2 DEF SetupTypes
      <4>4. rqp'[s][i] = u
        BY <4>3 DEF SetupTypes
      <4> QED BY <1>2, <4>1, <4>4 DEF Dct
    <3>2. \/ rs'[s].pc = 14 /\ rs'[s].i = i + 1 /\ i + 1 < N
          \/ rs'[s].pc = 15 /\ rs'[s].i = 0 /\ i + 1 >= N
      BY <1>1, <1>3, <2>5 DEF Moved
    <3>3. QpIs(s, i)'
      BY <1>1, <1>2, <1>3, <1>12, <2>3, <3>1, <3>2 DEF QpIs, Connected
    <3>4. ASSUME NEW j \in 0 .. 1, j # i PROVE QpIs(s, j)'
      <4>1. QpIs(s, j)
        BY DEF QpsShape
      <4>2. (j < N /\ Connected(s, j)') => Connected(s, j)
        BY <1>1, <1>2, <1>3, <3>2, <3>4 DEF Connected
      <4> QED BY <1>1, <1>2, <1>3, <2>1, <2>3, <3>2, <3>4, <4>1, <4>2 DEF QpIs
    <3> QED BY <1>7, <2>2, <3>3, <3>4 DEF QpsShape
  <2> QED BY <1>6, <2>4, <2>5
<1> QED BY <1>1, <1>2, <1>6, <1>9, <1>10, <1>11, <1>13, MovedOrDied DEF Early

\* What the steps before the run leave of the rest.
LEMMA EarlyIs ==
  ASSUME TalkInv, NEW s \in Side, Early(s)
  PROVE  /\ \A t \in Side : t = s \/ t = Peer(s)
         /\ Peer(s) \in Side /\ Peer(s) # s /\ rs'[Peer(s)] = rs[Peer(s)] /\ rs[s].st = "run" /\ rs[s].pc < 19
         /\ rs'[s].st \in {"run", "exited", "crashed", "stray"}
         /\ rs'[s].pc = 19 => Moved(s) /\ rs[s].pc = 18 /\ rs'[s].half = 0 /\ rs'[s].st = "run"
         /\ rs'[s].pc > 8 <=> rs[s].pc > 8 \/ (rs[s].pc = 8 /\ Moved(s))
         /\ \A t \in Side : Iters(t)' = Iters(t) /\ (Sends(t)' <=> Sends(t)) /\ (Receives(t)' <=> Receives(t))
         /\ \A t \in Side : Gone(t) => Gone(t)' /\ t # s
<1> USE DEF TalkInv
<1>1. (\A t \in Side : t = s \/ t = Peer(s)) /\ Peer(s) \in Side /\ Peer(s) # s
  BY TwoSides
<1>2. rs'[Peer(s)] = rs[Peer(s)]
  BY DEF Early, Moved, Died, Halved
<1>3. rs[s].st = "run" /\ rs[s].pc < 19 /\ rs[s].pc \in 1 .. 19
  BY PlaceIs DEF Early
<1>4. rs'[s].st \in {"run", "exited", "crashed", "stray"}
  BY <1>3 DEF Early, Moved, Died, Halved
<1>5. rs'[s].pc = 19 => Moved(s) /\ rs[s].pc = 18 /\ rs'[s].half = 0 /\ rs'[s].st = "run"
  BY <1>3 DEF Early, Moved, Died, Halved
<1>6. rs'[s].pc > 8 <=> rs[s].pc > 8 \/ (rs[s].pc = 8 /\ Moved(s))
  <2>1. CASE Moved(s)
    BY <1>3, <2>1 DEF Moved
  <2>2. CASE rs'[s].pc = rs[s].pc
    BY <1>3, <2>2 DEF Moved
  <2> QED BY <2>1, <2>2 DEF Early, Died, Halved
<1>7. \A t \in Side : Iters(t)' = Iters(t) /\ (Sends(t)' <=> Sends(t)) /\ (Receives(t)' <=> Receives(t))
  BY DEF Early, Iters, Sends, Receives
<1>8. \A t \in Side : Gone(t) => Gone(t)' /\ t # s
  BY <1>1, <1>2, <1>3 DEF Gone
<1> QED BY <1>1, <1>2, <1>3, <1>4, <1>5, <1>6, <1>7, <1>8

LEMMA QpsKept ==
  ASSUME TalkInv, QpsShape, NEW s \in Side, Early(s), rqp' = rqp, Moved(s) => rs[s].pc \notin {9, 14}
  PROVE  QpsShape'
<1>1. /\ \A t \in Side : t = s \/ t = Peer(s)
      /\ Peer(s) \in Side /\ Peer(s) # s /\ rs'[Peer(s)] = rs[Peer(s)] /\ rs[s].st = "run" /\ rs[s].pc < 19
  BY EarlyIs
<1>2. N' = N /\ opt'["client"].conn = opt["client"].conn
  BY TwoSides DEF Early
<1>3. rs[s].pc \in 1 .. 19 /\ rs[s].i \in 0 .. 1
  BY PlaceIs DEF TalkInv
<1>4. ASSUME NEW i \in 0 .. 1 PROVE QpIs(Peer(s), i)'
  BY <1>1, <1>2, QpStays DEF QpsShape
<1>5. ASSUME NEW i \in 0 .. 1 PROVE QpIs(s, i)'
  <2>1. CASE rs'[s].pc = rs[s].pc /\ rs'[s].i = rs[s].i
    BY <1>2, <2>1, QpStays DEF QpsShape
  <2>2. CASE Moved(s)
    <3>1. (Dct(opt["client"], i)' <=> Dct(opt["client"], i)) /\ Other(opt["client"], i)' = Other(opt["client"], i)
      BY <1>2 DEF Dct, Other, Paired
    <3>2. /\ rs'[s].pc < 9 => rs[s].pc < 9
          /\ rs'[s].pc = 9 => rs[s].pc < 9
          /\ rs[s].pc > 14 => rs'[s].pc > 14
          /\ rs[s].pc # 14
      BY <1>3, <2>2 DEF Moved
    <3>3. Connected(s, i)' => Connected(s, i)
      BY <1>3, <2>2 DEF Moved, Connected
    <3>4. QpIs(s, i)
      BY DEF QpsShape
    <3> QED BY <1>2, <3>1, <3>2, <3>3, <3>4 DEF QpIs
  <2> QED BY <2>1, <2>2 DEF Early, Died, Halved
<1> QED BY <1>1, <1>4, <1>5 DEF QpsShape

LEMMA FreshKept ==
  ASSUME TalkInv, Fresh, NEW s \in Side, Early(s), mine' = mine
  PROVE  Fresh'
<1>1. (\A t \in Side : t = s \/ t = Peer(s)) /\ rs'[Peer(s)] = rs[Peer(s)]
  BY EarlyIs
<1>2. rs[s].pc \in 1 .. 19
  BY PlaceIs DEF TalkInv
<1>3. rs'[s].pc <= 10 => rs[s].pc <= 10
  BY <1>2 DEF Early, Moved, Died, Halved
<1> QED BY <1>1, <1>3 DEF Fresh

LEMMA AimedKept ==
  ASSUME TalkInv, Aimed, NEW s \in Side, Early(s), wr' = wr, Moved(s) => rs[s].pc # 18
  PROVE  Aimed'
<1>1. (\A t \in Side : t = s \/ t = Peer(s)) /\ rs'[Peer(s)] = rs[Peer(s)] /\ rs'[s].pc # 19
  BY EarlyIs
<1>2. N' = N /\ Other(opt["client"], 0)' = Other(opt["client"], 0)
  BY TwoSides DEF Early, Other, Paired
<1> QED BY <1>1, <1>2 DEF Aimed

\* The work request is set.
LEMMA SetWqesStep ==
  ASSUME TalkInv, Fresh, QpsShape, Aimed, NEW s \in Side, SetWqes(s)
  PROVE  TalkInv' /\ Early(s) /\ Fresh' /\ QpsShape' /\ Aimed'
<1> USE DEF TalkInv
<1>1. /\ SetupTypes' /\ Moved(s) /\ rs[s].pc = 18 /\ rs[s].st = "run"
      /\ opt' = opt /\ theirs' = theirs /\ mine' = mine /\ rqp' = rqp /\ sock' = sock
      /\ flight' = flight /\ scq' = scq /\ lat' = lat /\ poll' = poll /\ rfaults' = rfaults
  BY SetWqesTypes, StepIs DEF SetWqes, At
<1>2. N' = N /\ N \in {1, 2} /\ opt[s].conn = opt["client"].conn
  BY <1>1, Setting DEF N
<1>3. Told(s)'
  <2>1. \A i \in 0 .. N - 1 : GoodKey(s, i, FALSE, mine[s][i]) /\ GoodKey(s, i, TRUE, mine[s][i])
    <3>1. rs[s].pc > 10 /\ rs[s].pc > 15
      BY <1>1
    <3> QED BY <3>1, Zenon DEF Told, KeysKnown
  <2>2. \A i \in 0 .. N' - 1 : GoodKey(s, i, FALSE, mine[s][i])' /\ GoodKey(s, i, TRUE, mine[s][i])'
    BY <1>1, <1>2, <2>1 DEF GoodKey
  <2> QED BY <2>2 DEF Told
<1>4. TalkInv'
  BY <1>1, <1>3, TalkMoves DEF Exchanging
<1>5. Early(s)
  BY <1>1, <1>2, MovedOrDied DEF Early
<1>6. Fresh' /\ QpsShape'
  BY <1>1, <1>5, FreshKept, QpsKept
<1>7. Aimed'
  <2>1. /\ \A t \in Side : t = s \/ t = Peer(s)
        /\ rs'[Peer(s)] = rs[Peer(s)] /\ Peer(s) # s /\ Peer(s) \in Side
    BY <1>5, EarlyIs
  <2>2. PICK o \in 0 .. N - 1 : o = Other(opt[s], 0) /\ o = Other(opt["client"], 0)
    BY <1>2, Setting
  <2>3. GoodKey(Peer(s), o, TRUE, theirs[s][o])
    BY <1>1, QpTold
  <2>4. theirs[s][o].slot = N + o /\ theirs[s][o].qpn = <<Peer(s), o>>
    BY <2>3 DEF GoodKey
  <2>5. opt[s].conn # "DC" => rqp[s][0].to = <<Peer(s), o>>
    <3>1. QpIs(s, 0)
      BY DEF QpsShape
    <3>2. Connected(s, 0) /\ ~Dct(opt["client"], 0)
      BY <1>1 DEF Connected, Dct
    <3> QED BY <1>2, <2>2, <3>1, <3>2 DEF QpIs
  <2>6. wr'[s] = [to |-> IF opt[s].conn = "DC" THEN theirs[s][o].qpn ELSE rqp[s][0].to, slot |-> theirs[s][o].slot]
    BY <2>2 DEF SetWqes, DestOf, SetupTypes
  <2>7. wr'[s].to = <<Peer(s), o>> /\ wr'[s].slot = N + o
    BY <2>4, <2>5, <2>6
  <2>8. wr'[Peer(s)] = wr[Peer(s)]
    BY <2>1 DEF SetWqes, SetupTypes
  <2> QED BY <1>1, <1>2, <2>1, <2>2, <2>7, <2>8 DEF Aimed
<1> QED BY <1>4, <1>5, <1>6, <1>7

\* All steps before the run.
LEMMA SetupSteps ==
  ASSUME TalkInv, Fresh, QpsShape, Aimed, NEW s \in Side,
         \/ s = "server" /\ (Listen \/ Accept)
         \/ s = "client" /\ ClientConnect
         \/ CallFails(s) \/ Device(s) \/ NoVersion(s) \/ Write(s) \/ ReadMsg(s)
         \/ Alloc(s) \/ InitCtx(s) \/ CreateQp(s) \/ Dest(s) \/ GidCheck(s) \/ ConnectQp(s) \/ SetWqes(s)
  PROVE  TalkInv' /\ Early(s) /\ Fresh' /\ QpsShape' /\ Aimed'
<1>1. CASE Plain(s) /\ TalkInv'
  <2>1. Early(s) /\ mine' = mine /\ rqp' = rqp /\ wr' = wr /\ (Moved(s) => rs[s].pc \notin {9, 14, 18})
    BY <1>1 DEF Plain
  <2> QED BY <1>1, <2>1, QpsKept, FreshKept, AimedKept
<1>2. CASE CallFails(s) \/ NoVersion(s)
  BY <1>1, <1>2, FailStep
<1>3. CASE (s = "server" /\ (Listen \/ Accept)) \/ (s = "client" /\ ClientConnect)
  BY <1>1, <1>3, ConnectStep
<1>4. CASE Device(s) \/ Alloc(s) \/ InitCtx(s) \/ GidCheck(s)
  BY <1>1, <1>4, LocalStep
<1>5. CASE Write(s) \/ ReadMsg(s)
  BY <1>1, <1>5, SpeakStep
<1>6. CASE Dest(s)
  <2>1. /\ TalkInv' /\ Early(s) /\ Fresh' /\ Moved(s) /\ rs[s].pc \in {10, 15}
        /\ rqp' = rqp /\ wr' = wr
    BY <1>6, DestStep
  <2>2. rs[s].pc \notin {9, 14} /\ rs[s].pc # 18
    BY <2>1
  <2> QED BY <2>1, <2>2, QpsKept, AimedKept
<1>7. CASE CreateQp(s)
  <2>1. TalkInv' /\ Early(s) /\ Fresh' /\ QpsShape' /\ wr' = wr /\ rs[s].pc = 9
    BY <1>7, CreateQpStep
  <2>2. rs[s].pc # 18
    BY <2>1
  <2> QED BY <2>1, <2>2, AimedKept
<1>8. CASE ConnectQp(s)
  <2>1. TalkInv' /\ Early(s) /\ Fresh' /\ QpsShape' /\ wr' = wr /\ rs[s].pc = 14
    BY <1>8, ConnectQpStep
  <2>2. rs[s].pc # 18
    BY <2>1
  <2> QED BY <2>1, <2>2, AimedKept
<1>9. CASE SetWqes(s)
  BY <1>9, SetWqesStep
<1> QED BY <1>2, <1>3, <1>4, <1>5, <1>6, <1>7, <1>8, <1>9
\* What such a step does to the counts: nothing has been sent before the run.
LEMMA EarlyRest ==
  ASSUME SetupInv, TalkInv', NEW s \in Side, Early(s)
  PROVE  Quiet' /\ Counted' /\ InFlight' /\ Losses'
<1> USE DEF SetupInv
<1>1. /\ \A t \in Side : t = s \/ t = Peer(s)
      /\ Peer(s) \in Side /\ Peer(s) # s /\ rs'[Peer(s)] = rs[Peer(s)] /\ rs[s].st = "run" /\ rs[s].pc < 19
      /\ rs'[s].st \in {"run", "exited", "crashed", "stray"}
      /\ rs'[s].pc = 19 => Moved(s) /\ rs[s].pc = 18 /\ rs'[s].half = 0 /\ rs'[s].st = "run"
      /\ rs'[s].pc > 8 <=> rs[s].pc > 8 \/ (rs[s].pc = 8 /\ Moved(s))
      /\ \A t \in Side : Iters(t)' = Iters(t) /\ (Sends(t)' <=> Sends(t)) /\ (Receives(t)' <=> Receives(t))
      /\ \A t \in Side : Gone(t) => Gone(t)' /\ t # s
  BY EarlyIs
<1>2. flight' = flight /\ scq' = scq /\ lat' = lat
  BY DEF Early
<1>3. flight[s] = 0 /\ scq[s] = <<>> /\ lat[s] = [scnt |-> 0, rcnt |-> 0, ccnt |-> 0]
  BY <1>1 DEF Quiet
<1>4. Quiet'
  <2>1. \A t \in Side : rs'[t].pc < 19 => rs[t].pc < 19
    BY <1>1
  <2> QED BY <1>2, <2>1 DEF Quiet
<1>5. Counted'
  <2>1. opt'["client"].prog = opt["client"].prog
    BY TwoSides DEF Early
  <2>2. ASSUME NEW t \in Side
        PROVE /\ IF rs'[t].pc > 8 THEN lat[t].rcnt <= poll'[t] ELSE poll'[t] = -1
              /\ poll'[t] <= lat[Peer(t)].scnt
    <3>1. poll \in [Side -> -1 .. LatIters] /\ lat[Peer(t)].scnt \in Nat /\ lat[t].rcnt \in Nat
      <4>1. lat[t] \in Counts /\ lat[Peer(t)] \in Counts
        BY <1>1, TwoSides DEF TalkInv, SetupTypes
      <4>2. lat[Peer(t)].scnt \in 0 .. LatIters /\ lat[t].rcnt \in 0 .. LatIters
        BY <4>1 DEF Counts
      <4>3. poll \in [Side -> -1 .. LatIters]
        BY DEF TalkInv, SetupTypes
      <4> QED BY <4>2, <4>3, RdmaSetupAssumption
    <3>2. /\ IF rs[t].pc > 8 THEN lat[t].rcnt <= poll[t] ELSE poll[t] = -1
          /\ poll[t] <= lat[Peer(t)].scnt
      BY DEF Counted
    <3>3. CASE rs[s].pc = 8 /\ Moved(s)
      <4>1. poll' = [poll EXCEPT ![s] = 0]
        BY <3>3 DEF Early
      <4>2. CASE t = s
        BY <1>1, <1>3, <3>1, <3>2, <3>3, <4>1, <4>2
      <4>3. CASE t # s
        BY <1>1, <3>1, <3>2, <4>1, <4>3
      <4> QED BY <4>2, <4>3
    <3>4. CASE ~(rs[s].pc = 8 /\ Moved(s))
      <4>1. poll' = poll
        BY <3>4 DEF Early
      <4>2. rs'[t].pc > 8 <=> rs[t].pc > 8
        BY <1>1, <3>4
      <4> QED BY <3>2, <4>1, <4>2
    <3> QED BY <3>3, <3>4
  <2>3. ASSUME NEW t \in Side, rs'[t].pc = 19, rs'[t].half = 1 PROVE rs'[t] = rs[t]
    BY <1>1, <2>3
  <2> QED BY <1>1, <1>2, <2>1, <2>2, <2>3 DEF Counted
<1>6. InFlight'
  <2>1. ASSUME NEW t \in Side, rs'[t].pc = 19, t = s
        PROVE rs'[t].half = 0 /\ flight[t] = 0 /\ scq[t] = <<>> /\ lat[t].ccnt = lat[t].scnt
    BY <1>1, <1>3, <2>1
  <2> QED BY <1>1, <1>2, <2>1 DEF InFlight
<1>7. Losses'
  <2>1. N' = N /\ N \in {1, 2} /\ rs[s].pc \in 1 .. 19
    BY PlaceIs DEF Early, TalkInv
  <2>2. ASSUME Pos("server")' = 6 + 2 * N', rfaults' = 0
        PROVE  \A t \in Side : rs'[t].st \in {"run", "done", "error"}
    <3>1. rfaults = 0
      BY <2>2 DEF Early
    <3>2. CASE Pos("server") = 6 + 2 * N
      <4>1. ~Died(s)
        BY <2>2, <3>2 DEF Early
      <4>2. rs'[s].st = "run"
        BY <1>1, <4>1 DEF Early, Moved, Halved
      <4>3. rs[Peer(s)].st \in {"run", "done", "error"}
        BY <1>1, <3>1, <3>2 DEF Losses
      <4> QED BY <1>1, <4>2, <4>3
    <3>3. CASE Pos("server") # 6 + 2 * N
      <4>1. s = "server" /\ Moved(s) /\ rs[s].pc = 17
        <5>1. rs["server"].pc \notin {18, 19} /\ rs'["server"].pc \in {18, 19}
          <6>1. Pos("server")' = 6 + 2 * N' <=> rs'["server"].pc \in {18, 19}
            <7>1. rs' \in [Side -> Proc] /\ N' \in {1, 2} /\ rs'["server"].i < N'
              BY <2>1, TwoSides DEF TalkInv, SetupTypes, Places
            <7>2. rs'["server"].pc \in 1 .. 19 /\ rs'["server"].i \in 0 .. 1
              BY <7>1, TwoSides DEF Proc
            <7>3. rs'["server"].i > 0 => rs'["server"].pc \in {9, 12, 14, 16}
              BY TwoSides DEF TalkInv, Places
            <7> QED BY <7>1, <7>2, <7>3 DEF Pos, PosOf
          <6>2. Pos("server") = 6 + 2 * N <=> rs["server"].pc \in {18, 19}
            BY TwoSides, PosBound DEF TalkInv
          <6> QED BY <2>2, <3>3, <6>1, <6>2
        <5>2. s = "server" /\ rs'[s].pc # rs[s].pc
          BY <1>1, <5>1, TwoSides
        <5>3. Moved(s)
          BY <5>2 DEF Early, Died, Halved
        <5> QED BY <2>1, <5>1, <5>2, <5>3 DEF Moved
      <4>2. Pos("server") = 5 + 2 * N /\ Pos("server")' = 6 + 2 * N
        BY <2>1, <2>2, <4>1 DEF Pos, PosOf
      <4>3. Pos("client")' = Pos("client") /\ Half("client")' = Half("client") /\ Half("server")' = 0
        <5>1. rs'["client"] = rs["client"]
          BY <1>1, <4>1, TwoSides
        <5> QED BY <2>1, <4>1, <5>1 DEF Pos, Half, PosOf, Moved
      <4>4. Pos("client") = Pos("server") /\ Half("client") = 1
        <5>1. LockStep /\ LockStep'
          BY DEF TalkInv
        <5>2. Pos("client") \in Nat
          BY <2>1, PosBound, TwoSides DEF TalkInv
        <5> QED BY <2>1, <4>2, <4>3, <5>1, <5>2 DEF LockStep, Replied
      <4>5. rs["client"].st = "run" /\ rs["server"].st = "run"
        BY <1>1, <4>1, <4>4 DEF Stuck, TalkInv
      <4> QED BY <1>1, <4>1, <4>5, TwoSides DEF Moved
    <3> QED BY <3>2, <3>3
  <2>3. \A t \in Side : \A j \in DOMAIN scq'[t] : scq'[t][j] = "error" => Gone(Peer(t))'
    <3>1. \A t \in Side : Peer(t) \in Side
      BY TwoSides
    <3> QED BY <1>1, <1>2, <3>1 DEF Losses
  <2>4. \A t \in Side : rs'[t].st \in {"done", "error"} => rs'[t].pc = 19
    BY <1>1 DEF Losses
  <2>5. \A t \in Side : rs'[t].pc = 19 => rs'[t].st \in {"run", "done", "error"}
    BY <1>1 DEF Losses
  <2>6. \A t \in Side : rs'[t].st = "done" => Over(t)'
    <3>1. \A t \in Side : Over(t)' <=> Over(t)
      BY <1>1, <1>2 DEF Over
    <3> QED BY <1>1, <3>1 DEF Losses
  <2>7. OnlyLastUnacked'
    <3> SUFFICES ASSUME NEW t \in Side, rs'[t].st = "error", rfaults' = 0
                 PROVE  FALSE
      BY DEF OnlyLastUnacked
    <3>1. t = Peer(s) /\ rs[t].st = "error" /\ rfaults = 0
      BY <1>1 DEF Early
    <3>2. rs[Peer(t)].st = "done" /\ Peer(t) = s
      BY <3>1, TwoSides DEF Losses, OnlyLastUnacked
    <3> QED BY <1>1, <3>2
  <2> QED BY <2>2, <2>3, <2>4, <2>5, <2>6, <2>7 DEF Losses
<1> QED BY <1>4, <1>5, <1>6, <1>7

-----------------------------------------------------------------------------
(* The run.                                                                *)

\* What a step of the run does at most.
Ran(s) ==
  /\ opt' = opt /\ sock' = sock /\ mine' = mine /\ theirs' = theirs /\ rqp' = rqp /\ wr' = wr
  /\ rs[s].st = "run" /\ rs[s].pc = 19
  /\ \/ rs' = rs /\ lat' = lat
     \/ Turned(s)
     \/ Died(s) /\ rs'[s].st \in {"done", "error"}
  /\ rfaults' = rfaults \/ rfaults' # 0
  /\ flight'[Peer(s)] = flight[Peer(s)] /\ scq'[Peer(s)] = scq[Peer(s)] /\ lat'[Peer(s)] = lat[Peer(s)]

LEMMA RanIs ==
  ASSUME TalkInv, NEW s \in Side, Ran(s)
  PROVE  /\ N' = N
         /\ \A t \in Side : rs'[t].pc = rs[t].pc /\ rs'[t].i = rs[t].i /\ (t # s => rs'[t] = rs[t])
         /\ rs'[s].st \in {"run", "done", "error"}
         /\ \A t \in Side : Iters(t)' = Iters(t) /\ (Sends(t)' <=> Sends(t)) /\ (Receives(t)' <=> Receives(t))
         /\ \A t \in Side : Gone(t) => Gone(t)' /\ t # s
<1>1. (\A t \in Side : t = s \/ t = Peer(s)) /\ Peer(s) \in Side /\ Peer(s) # s
  BY TwoSides
<1>2. /\ rs'[s].pc = rs[s].pc /\ rs'[s].i = rs[s].i /\ rs'[Peer(s)] = rs[Peer(s)]
      /\ rs'[s].st \in {"run", "done", "error"}
  BY DEF Ran, Turned, Died
<1>3. N' = N /\ \A t \in Side : Iters(t)' = Iters(t) /\ (Sends(t)' <=> Sends(t)) /\ (Receives(t)' <=> Receives(t))
  BY DEF Ran, N, Iters, Sends, Receives
<1>4. \A t \in Side : Gone(t) => Gone(t)' /\ t # s
  BY <1>1, <1>2 DEF Gone, Ran
<1> QED BY <1>1, <1>2, <1>3, <1>4

LEMMA RanKeeps ==
  ASSUME SetupInv, NEW s \in Side, SetupTypes', Ran(s)
  PROVE  TalkInv' /\ Fresh' /\ QpsShape' /\ Aimed' /\ Quiet'
<1> USE DEF SetupInv
<1>1. /\ N' = N
      /\ \A t \in Side : rs'[t].pc = rs[t].pc /\ rs'[t].i = rs[t].i /\ (t # s => rs'[t] = rs[t])
  BY RanIs
<1>2. /\ opt' = opt /\ sock' = sock /\ mine' = mine /\ theirs' = theirs /\ rqp' = rqp /\ wr' = wr
      /\ rs[s].st = "run" /\ rs[s].pc = 19
  BY DEF Ran
<1>3. TalkInv'
  <2>1. CASE rs' = rs \/ Turned(s)
    BY <1>2, <2>1, TalkStays
  <2>2. CASE Died(s)
    <3>1. Half(s) = 0
      BY <1>2, Idle DEF Exchanging
    <3>2. s = "client" /\ Pos("server") = Pos("client") /\ Half("client") = 1 => rs["server"].st # "run"
      BY <3>1
    <3> QED BY <1>2, <2>2, <3>2, TalkEnds
  <2> QED BY <2>1, <2>2 DEF Ran
<1>4. Fresh'
  BY <1>1, <1>2 DEF Fresh
<1>5. QpsShape'
  BY <1>1, <1>2, QpStays DEF QpsShape
<1>6. Aimed'
  BY <1>1, <1>2 DEF Aimed
<1>7. Quiet'
  <2>1. \A t \in Side : t = s \/ t = Peer(s)
    BY TwoSides
  <2>2. \A t \in Side : rs'[t].pc < 19 => /\ rs[t].pc < 19 /\ t # s
                                          /\ flight'[t] = flight[t] /\ scq'[t] = scq[t] /\ lat'[t] = lat[t]
    BY <1>1, <1>2, <2>1 DEF Ran
  <2> QED BY <2>2 DEF Quiet
<1> QED BY <1>3, <1>4, <1>5, <1>6, <1>7

\* The last handshake is behind both sides when one of them runs.
LEMMA BothReady ==
  ASSUME TalkInv, NEW s \in Side, rs[s].pc = 19
  PROVE  Pos("server") = 6 + 2 * N /\ rs[Peer(s)].pc \in {17, 18, 19}
<1> USE DEF TalkInv
<1>1. \A t \in Side : /\ N \in {1, 2} /\ rs[t].pc \in 1 .. 19 /\ rs[t].i \in 0 .. 1 /\ rs[t].i < N
                      /\ rs[t].i > 0 => rs[t].pc \in {9, 12, 14, 16}
                      /\ Pos(t) \in 0 .. 6 + 2 * N
  BY PlaceIs, PosBound
<1>2. Pos(s) = 6 + 2 * N
  BY PosBound
<1>3. Pos("server") = 6 + 2 * N /\ Pos("client") \in {5 + 2 * N, 6 + 2 * N}
  <2>1. N \in {1, 2} /\ Pos("server") \in 0 .. 6 + 2 * N /\ Pos("client") \in 0 .. 6 + 2 * N
    BY <1>1, TwoSides
  <2>2. (s = "client" /\ Pos("client") = 6 + 2 * N) \/ (s = "server" /\ Pos("server") = 6 + 2 * N)
    BY <1>2, TwoSides
  <2> QED BY <2>1, <2>2 DEF LockStep, Replied
<1>4. ASSUME NEW t \in Side, Pos(t) \in {5 + 2 * N, 6 + 2 * N} PROVE rs[t].pc \in {17, 18, 19}
  BY <1>1, <1>4 DEF Pos, PosOf
<1> QED BY <1>3, <1>4, TwoSides

\* Losses, when the step gives nobody a reason to lose.
LEMMA RanLosses ==
  ASSUME SetupInv, TalkInv', NEW s \in Side, Ran(s),
         \A t \in Side : \A j \in DOMAIN scq'[t] : scq'[t][j] = "error" => Gone(Peer(t))',
         Died(s) /\ rs'[s].st = "done" => Over(s) /\ lat' = lat,
         Died(s) /\ rs'[s].st = "error" /\ rfaults' = 0 =>
           rs[Peer(s)].st = "done" /\ lat'[s].scnt = Iters(s) /\ lat[Peer(s)].rcnt = Iters(s)
  PROVE  Losses'
<1> USE DEF SetupInv
<1>1. /\ \A t \in Side : rs'[t].pc = rs[t].pc /\ rs'[t].i = rs[t].i /\ (t # s => rs'[t] = rs[t])
      /\ rs'[s].st \in {"run", "done", "error"}
      /\ \A t \in Side : Iters(t)' = Iters(t) /\ (Sends(t)' <=> Sends(t)) /\ (Receives(t)' <=> Receives(t))
      /\ N' = N
  BY RanIs
<1>2. rs[s].st = "run" /\ rs[s].pc = 19 /\ lat'[Peer(s)] = lat[Peer(s)] /\ (rfaults' = 0 => rfaults = 0)
  BY DEF Ran
<1>3. (\A t \in Side : t = s \/ t = Peer(s)) /\ Peer(s) \in Side /\ Peer(s) # s /\ Peer(Peer(s)) = s
  BY TwoSides
<1>4. rs'[s].st # "run" => Died(s)
  BY <1>2 DEF Ran, Turned
<1>5. Pos("server")' = 6 + 2 * N' /\ rfaults' = 0 => \A t \in Side : rs'[t].st \in {"run", "done", "error"}
  <2>1. Pos("server")' = Pos("server")
    BY <1>1, TwoSides, SamePos
  <2> QED BY <1>1, <1>2, <2>1 DEF Losses
<1>6. \A t \in Side : rs'[t].st \in {"done", "error"} => rs'[t].pc = 19
  BY <1>1, <1>2 DEF Losses
<1>7. \A t \in Side : rs'[t].pc = 19 => rs'[t].st \in {"run", "done", "error"}
  BY <1>1 DEF Losses
<1>8. ASSUME NEW t \in Side, rs'[t].st = "done" PROVE Over(t)'
  <2>1. Over(t) /\ lat'[t] = lat[t]
    BY <1>1, <1>2, <1>3, <1>4, <1>8 DEF Losses
  <2> QED BY <1>1, <2>1 DEF Over
<1>9. OnlyLastUnacked'
  <2> SUFFICES ASSUME NEW t \in Side, rs'[t].st = "error", rfaults' = 0
               PROVE  rs'[Peer(t)].st = "done" /\ lat'[t].scnt = Iters(t)' /\ lat'[Peer(t)].rcnt = Iters(t)'
    BY DEF OnlyLastUnacked
  <2>1. CASE t = s
    BY <1>1, <1>2, <1>3, <1>4, <2>1
  <2>2. CASE t # s
    <3>1. rs[t].st = "error" /\ Peer(t) = s /\ rfaults = 0
      BY <1>1, <1>2, <1>3, <2>2
    <3>2. rs[s].st = "done"
      BY <3>1 DEF Losses, OnlyLastUnacked
    <3> QED BY <1>2, <3>2
  <2> QED BY <2>1, <2>2
<1> QED BY <1>5, <1>6, <1>7, <1>8, <1>9 DEF Losses
\* The counts of a side, as numbers.
LEMMA CountsAre ==
  ASSUME SetupTypes, NEW s \in Side
  PROVE  /\ lat[s].scnt \in Nat /\ lat[s].rcnt \in Nat /\ lat[s].ccnt \in Nat
         /\ poll[s] \in Int /\ flight[s] \in Nat /\ Iters(s) \in Nat \ {0}
         /\ scq[s] \in Seq({"unacked", "ok", "error"})
<1>1. lat[s] \in Counts /\ poll[s] \in -1 .. LatIters /\ flight[s] \in 0 .. LatIters
  BY RdmaSetupAssumption DEF SetupTypes
<1>2. lat[s].scnt \in 0 .. LatIters /\ lat[s].rcnt \in 0 .. LatIters /\ lat[s].ccnt \in 0 .. LatIters
  BY <1>1 DEF Counts
<1>3. scq[s] \in Seq({"unacked", "ok", "error"})
  BY DEF SetupTypes
<1> QED BY <1>1, <1>2, <1>3, ItersAre, RdmaSetupAssumption

\* Who sends and who receives, and how often.
LEMMA PartsAre ==
  ASSUME Matched, NEW s \in Side
  PROVE  /\ Iters(Peer(s)) = Iters(s) /\ (Sends(s) => Receives(Peer(s))) /\ (Receives(s) => Sends(Peer(s)))
         /\ opt["client"].prog = "lat" => Sends(s) /\ Receives(s)
         /\ opt["client"].prog # "lat" => Iters(s) = 1
<1>1. opt[s].prog = opt["client"].prog /\ opt[Peer(s)].prog = opt["client"].prog
  BY TwoSides DEF Matched
<1> QED BY <1>1, TwoSides DEF Iters, Sends, Receives

\* What Counted says of one side.
SideCounts(s) ==
  /\ IF rs[s].pc > 8 THEN lat[s].rcnt <= poll[s] ELSE poll[s] = -1
  /\ poll[s] <= lat[Peer(s)].scnt
  /\ flight[s] \in {0, lat[s].scnt}
  /\ lat[s].scnt <= Iters(s) /\ lat[s].rcnt <= Iters(s)
  /\ ~Sends(s) => lat[s].scnt = 0
  /\ ~Receives(s) => lat[s].rcnt = 0
  /\ opt["client"].prog = "lat" =>
       /\ lat[s].scnt <= lat[s].rcnt + (IF s = "server" THEN 1 ELSE 0)
       /\ rs[s].pc = 19 /\ rs[s].st = "run" /\ rs[s].half = 1 =>
            lat[s].rcnt = Iters(s) \/ lat[s].scnt < lat[s].rcnt + (IF s = "server" THEN 1 ELSE 0)

\* The other side of a step of the run: at most a byte of it is written.
LEMMA OtherSide ==
  ASSUME SetupInv, NEW s \in Side, SetupTypes', Ran(s), lat[s].scnt <= lat'[s].scnt,
         poll'[Peer(s)] = poll[Peer(s)] \/ (poll[Peer(s)] <= poll'[Peer(s)] /\ poll'[Peer(s)] <= lat[s].scnt)
  PROVE  SideCounts(Peer(s))'
<1> USE DEF SetupInv
<1>1. /\ \A t \in Side : rs'[t].pc = rs[t].pc /\ rs'[t].i = rs[t].i /\ (t # s => rs'[t] = rs[t])
      /\ \A t \in Side : Iters(t)' = Iters(t) /\ (Sends(t)' <=> Sends(t)) /\ (Receives(t)' <=> Receives(t))
  BY RanIs
<1>2. Peer(s) \in Side /\ Peer(s) # s /\ Peer(Peer(s)) = s
  BY TwoSides
<1>3. flight'[Peer(s)] = flight[Peer(s)] /\ lat'[Peer(s)] = lat[Peer(s)] /\ opt' = opt
  BY DEF Ran
<1>4. SideCounts(Peer(s))
  BY <1>2, Zenon DEF Counted, SideCounts
<1>5. rs[Peer(s)].pc > 8
  <2>1. rs[Peer(s)].pc \in {17, 18, 19}
    BY BothReady DEF Ran
  <2> QED BY <2>1
<1>6. /\ lat[Peer(s)].rcnt \in Nat /\ poll[Peer(s)] \in Int /\ poll'[Peer(s)] \in Int
      /\ lat[s].scnt \in Nat /\ lat'[s].scnt \in Nat
  <2>1. lat'[s] \in Counts /\ poll'[Peer(s)] \in -1 .. LatIters
    BY <1>2 DEF SetupTypes
  <2>2. lat'[s].scnt \in 0 .. LatIters
    BY <2>1 DEF Counts
  <2> QED BY <1>2, <2>1, <2>2, CountsAre, RdmaSetupAssumption DEF TalkInv
<1>7. lat[Peer(s)].rcnt <= poll'[Peer(s)] /\ poll'[Peer(s)] <= lat'[s].scnt
  <2>1. lat[Peer(s)].rcnt <= poll[Peer(s)] /\ poll[Peer(s)] <= lat[s].scnt
    BY <1>2, <1>4, <1>5 DEF SideCounts
  <2> QED BY <1>6, <2>1
<1>8. (rs[Peer(s)].pc > 8)' /\ rs'[Peer(s)] = rs[Peer(s)]
  BY <1>1, <1>2, <1>5
<1> QED BY <1>1, <1>2, <1>3, <1>4, <1>7, <1>8 DEF SideCounts

\* What InFlight says of one side.
SideFlight(s) ==
  rs[s].pc = 19 /\ rs[s].st = "run" =>
    /\ rs[s].half < 2 => flight[s] = 0 /\ scq[s] = <<>> /\ lat[s].ccnt = lat[s].scnt
    /\ rs[s].half = 2 => flight[s] = 0 \/ scq[s] = <<>>
    /\ rs[s].half = 2 /\ (flight[s] # 0 \/ scq[s] # <<>>) =>
         Len(scq[s]) <= 1 /\ lat[s].scnt = lat[s].ccnt + 1
    /\ rs[s].half = 2 /\ flight[s] = 0 /\ scq[s] = <<>> =>
         lat[s].ccnt = lat[s].scnt /\ ~(Sends(s) /\ lat[s].ccnt < Iters(s))

\* A step of the run keeps the invariant when it keeps the counts of its side.
LEMMA RanStep ==
  ASSUME SetupInv, NEW s \in Side, SetupTypes', Ran(s), lat[s].scnt <= lat'[s].scnt,
         poll'[Peer(s)] = poll[Peer(s)] \/ (poll[Peer(s)] <= poll'[Peer(s)] /\ poll'[Peer(s)] <= lat[s].scnt),
         SideCounts(s)', SideFlight(s)',
         \A t \in Side : \A j \in DOMAIN scq'[t] : scq'[t][j] = "error" => Gone(Peer(t))',
         Died(s) /\ rs'[s].st = "done" => Over(s) /\ lat' = lat,
         Died(s) /\ rs'[s].st = "error" /\ rfaults' = 0 =>
           rs[Peer(s)].st = "done" /\ lat'[s].scnt = Iters(s) /\ lat[Peer(s)].rcnt = Iters(s)
  PROVE  SetupInv'
<1>1. TalkInv' /\ Fresh' /\ QpsShape' /\ Aimed' /\ Quiet'
  BY RanKeeps
<1>2. Losses'
  BY <1>1, RanLosses
<1>3. \A t \in Side : t = s \/ t = Peer(s)
  BY TwoSides
<1>4. Counted'
  <2>1. SideCounts(Peer(s))'
    BY OtherSide
  <2>2. \A t \in Side : SideCounts(t)'
    BY <1>3, <2>1
  <2> QED BY <2>2, Zenon DEF Counted, SideCounts
<1>5. InFlight'
  <2>1. /\ Peer(s) \in Side /\ Peer(s) # s
        /\ flight'[Peer(s)] = flight[Peer(s)] /\ scq'[Peer(s)] = scq[Peer(s)] /\ lat'[Peer(s)] = lat[Peer(s)]
    BY TwoSides DEF Ran
  <2>2. /\ rs'[Peer(s)] = rs[Peer(s)] /\ Iters(Peer(s))' = Iters(Peer(s)) /\ (Sends(Peer(s))' <=> Sends(Peer(s)))
    BY <2>1, RanIs DEF SetupInv
  <2>3. SideFlight(Peer(s))
    BY <2>1, Zenon DEF SetupInv, InFlight, SideFlight
  <2>4. SideFlight(Peer(s))'
    BY <2>1, <2>2, <2>3 DEF SideFlight
  <2>5. \A t \in Side : SideFlight(t)'
    BY <1>3, <2>4
  <2> QED BY <2>5, Zenon DEF InFlight, SideFlight
<1> QED BY <1>1, <1>2, <1>4, <1>5 DEF SetupInv

LEMMA NextModulus ==
  ASSUME NEW a \in Nat, NEW m \in Nat \ {0, 1}
  PROVE  a % m # (a + 1) % m
<1>1. ASSUME NEW b \in Nat PROVE \E q \in Int, r \in 0 .. m - 1 : b = q * m + r /\ b % m = r
  OBVIOUS
<1>2. a + 1 \in Nat
  OBVIOUS
<1>3. PICK q \in Int, r \in 0 .. m - 1 : a = q * m + r /\ a % m = r
  BY <1>1, Zenon
<1>4. PICK p \in Int, t \in 0 .. m - 1 : a + 1 = p * m + t /\ (a + 1) % m = t
  BY <1>1, <1>2, Zenon
<1>5. SUFFICES ASSUME r = t PROVE FALSE
  BY <1>3, <1>4
<1>6. (p - q) * m = 1
  BY <1>3, <1>4, <1>5
<1>7. p - q \in Int /\ m > 1
  OBVIOUS
<1>8. p - q <= 0 => (p - q) * m <= 0
  BY <1>7
<1>9. p - q >= 1 => (p - q) * m >= m
  BY <1>7
<1> QED BY <1>6, <1>7, <1>8, <1>9

\* A side polls its byte.
LEMMA PollByteStep ==
  ASSUME SetupInv, NEW s \in Side, PollByte(s)
  PROVE  SetupInv'
<1> USE DEF SetupInv
<1>1. /\ SetupTypes' /\ Turned(s) /\ rs[s].half = 0 /\ rs'[s].half = 1
      /\ IF Receives(s) /\ MustPoll(s)
         THEN /\ Sees(s, lat[s].rcnt + 1) /\ lat'[Peer(s)] = lat[Peer(s)]
              /\ lat'[s] = [scnt |-> lat[s].scnt, rcnt |-> lat[s].rcnt + 1, ccnt |-> lat[s].ccnt]
         ELSE lat' = lat
  BY PollByteTypes DEF TalkInv
<1>2. /\ rs[s].st = "run" /\ rs[s].pc = 19 /\ rs'[s].st = "run" /\ rs'[s].pc = 19
      /\ flight' = flight /\ scq' = scq /\ poll' = poll /\ opt' = opt /\ rfaults' = rfaults
  BY <1>1 DEF PollByte, Turned, setup
<1>3. Ran(s)
  BY <1>1, <1>2 DEF Ran, PollByte, setup
<1>4. /\ \A t \in Side : Iters(t)' = Iters(t) /\ (Sends(t)' <=> Sends(t)) /\ (Receives(t)' <=> Receives(t))
      /\ \A t \in Side : Gone(t) => Gone(t)' /\ t # s
  BY <1>3, RanIs
<1>5. /\ lat[s].scnt \in Nat /\ lat[s].rcnt \in Nat /\ lat[s].ccnt \in Nat
      /\ poll[s] \in Int /\ flight[s] \in Nat /\ Iters(s) \in Nat \ {0}
  BY CountsAre DEF TalkInv
<1>6. SideCounts(s)
  BY Zenon DEF Counted, SideCounts
<1>7. /\ Peer(s) \in Side /\ Peer(s) # s /\ lat'[Peer(s)] = lat[Peer(s)]
      /\ lat'[s].scnt = lat[s].scnt /\ lat'[s].ccnt = lat[s].ccnt
  BY <1>1, TwoSides
<1>8. Receives(s) /\ MustPoll(s) => lat'[s].rcnt = lat[s].rcnt + 1 /\ lat[s].rcnt < Iters(s) /\ lat[s].rcnt < poll[s]
  <2> SUFFICES ASSUME Receives(s), MustPoll(s)
               PROVE  lat'[s].rcnt = lat[s].rcnt + 1 /\ lat[s].rcnt < Iters(s) /\ lat[s].rcnt < poll[s]
    OBVIOUS
  <2>1. lat'[s].rcnt = lat[s].rcnt + 1 /\ lat[s].rcnt < Iters(s)
    BY <1>1 DEF MustPoll
  <2>2. poll[s] % CharMod = (lat[s].rcnt + 1) % CharMod
    BY <1>1 DEF Sees
  <2>3. lat[s].rcnt % CharMod # (lat[s].rcnt + 1) % CharMod
    BY <1>5, NextModulus, RdmaSetupAssumption
  <2>4. lat[s].rcnt <= poll[s]
    BY <1>2, <1>6 DEF SideCounts
  <2>5. poll[s] # lat[s].rcnt
    BY <2>2, <2>3
  <2> QED BY <1>5, <2>1, <2>4, <2>5
<1>9. ~(Receives(s) /\ MustPoll(s)) => lat'[s].rcnt = lat[s].rcnt
  BY <1>1
<1>10. SideCounts(s)'
  <2>1. /\ poll[s] <= lat[Peer(s)].scnt /\ flight[s] \in {0, lat[s].scnt} /\ lat[s].scnt <= Iters(s)
        /\ ~Sends(s) => lat[s].scnt = 0
    BY <1>6 DEF SideCounts
  <2>2. lat'[s].rcnt <= poll[s] /\ lat'[s].rcnt <= Iters(s) /\ (~Receives(s) => lat'[s].rcnt = 0)
    BY <1>2, <1>5, <1>6, <1>8, <1>9 DEF SideCounts
  <2>3. ASSUME opt["client"].prog = "lat"
        PROVE  /\ lat[s].scnt <= lat'[s].rcnt + (IF s = "server" THEN 1 ELSE 0)
               /\ lat'[s].rcnt = Iters(s) \/ lat[s].scnt < lat'[s].rcnt + (IF s = "server" THEN 1 ELSE 0)
    <3>1. Sends(s) /\ Receives(s)
      BY <2>3, PartsAre DEF TalkInv
    <3>2. lat[s].scnt <= lat[s].rcnt + (IF s = "server" THEN 1 ELSE 0) /\ lat[s].rcnt <= Iters(s)
      BY <1>6, <2>3 DEF SideCounts
    <3>3. CASE MustPoll(s)
      BY <1>5, <1>8, <3>1, <3>2, <3>3
    <3>4. CASE ~MustPoll(s)
      <4>1. lat[s].rcnt = Iters(s) \/ (lat[s].scnt = 0 /\ s = "server")
        BY <1>5, <3>1, <3>2, <3>4 DEF MustPoll
      <4> QED BY <1>5, <1>9, <3>2, <3>4, <4>1
    <3> QED BY <3>3, <3>4
  <2> QED BY <1>2, <1>4, <1>7, <2>1, <2>2, <2>3 DEF SideCounts
<1>11. SideFlight(s)'
  <2>1. flight[s] = 0 /\ scq[s] = <<>> /\ lat[s].ccnt = lat[s].scnt
    BY <1>1, <1>2 DEF InFlight
  <2> QED BY <1>1, <1>2, <1>7, <2>1 DEF SideFlight
<1>12. \A t \in Side : \A j \in DOMAIN scq'[t] : scq'[t][j] = "error" => Gone(Peer(t))'
  <2>1. \A t \in Side : Peer(t) \in Side
    BY TwoSides
  <2> QED BY <1>2, <1>4, <2>1 DEF Losses
<1>13. ~Died(s)
  BY <1>2 DEF Died
<1> QED BY <1>1, <1>2, <1>3, <1>5, <1>7, <1>10, <1>11, <1>12, <1>13, RanStep

\* A write is posted, or the side has no more to post.
LEMMA PostStep ==
  ASSUME SetupInv, NEW s \in Side, Post(s)
  PROVE  SetupInv'
<1> USE DEF SetupInv
<1>1. /\ SetupTypes' /\ rs[s].st = "run" /\ rs[s].pc = 19 /\ rs[s].half = 1
      /\ \/ Posted(s)
         \/ /\ Turned(s) /\ rs'[s].half = 2 /\ lat' = lat /\ flight' = flight /\ rfaults' = rfaults
            /\ ~(Sends(s) /\ lat[s].scnt < Iters(s))
  BY PostTypes DEF TalkInv
<1>2. scq' = scq /\ poll' = poll /\ opt' = opt
  BY DEF Post
<1>3. Peer(s) \in Side /\ Peer(s) # s /\ lat'[Peer(s)] = lat[Peer(s)] /\ flight'[Peer(s)] = flight[Peer(s)]
  <2>1. Peer(s) \in Side /\ Peer(s) # s
    BY TwoSides
  <2>2. lat'[Peer(s)] = lat[Peer(s)] /\ (flight' = flight \/ flight' = [flight EXCEPT ![s] = lat[s].scnt + 1])
    BY <1>1 DEF Posted
  <2>3. flight \in [Side -> 0 .. LatIters]
    BY DEF TalkInv, SetupTypes
  <2> QED BY <2>1, <2>2, <2>3
<1>4. Ran(s)
  BY <1>1, <1>2, <1>3 DEF Ran, Post, Posted
<1>5. /\ \A t \in Side : Iters(t)' = Iters(t) /\ (Sends(t)' <=> Sends(t)) /\ (Receives(t)' <=> Receives(t))
      /\ \A t \in Side : Gone(t) => Gone(t)' /\ t # s
      /\ rs'[s].pc = 19
  BY <1>1, <1>4, RanIs
<1>6. /\ lat[s].scnt \in Nat /\ lat[s].rcnt \in Nat /\ lat[s].ccnt \in Nat
      /\ poll[s] \in Int /\ flight[s] \in Nat /\ Iters(s) \in Nat \ {0}
  BY CountsAre DEF TalkInv
<1>7. SideCounts(s)
  BY Zenon DEF Counted, SideCounts
<1>8. flight[s] = 0 /\ scq[s] = <<>> /\ lat[s].ccnt = lat[s].scnt
  BY <1>1 DEF InFlight
<1>9. /\ poll[s] <= lat[Peer(s)].scnt /\ lat[s].scnt <= Iters(s) /\ lat[s].rcnt <= Iters(s) /\ lat[s].rcnt <= poll[s]
      /\ (~Sends(s) => lat[s].scnt = 0) /\ (~Receives(s) => lat[s].rcnt = 0)
  BY <1>1, <1>7 DEF SideCounts
<1>10. \A t \in Side : \A j \in DOMAIN scq'[t] : scq'[t][j] = "error" => Gone(Peer(t))'
  <2>1. \A t \in Side : Peer(t) \in Side
    BY TwoSides
  <2> QED BY <1>2, <1>5, <2>1 DEF Losses
<1>11. CASE Posted(s)
  <2>1. /\ Sends(s) /\ lat[s].scnt < Iters(s)
        /\ lat'[s].scnt = lat[s].scnt + 1 /\ lat'[s].rcnt = lat[s].rcnt /\ lat'[s].ccnt = lat[s].ccnt
    BY <1>11 DEF Posted
  <2>2. \/ flight'[s] = lat[s].scnt + 1 /\ rs'[s].half = 2 /\ Turned(s)
        \/ flight'[s] = 0 /\ rfaults' # 0 /\ Died(s) /\ rs'[s].st = "error"
    BY <1>8, <1>11 DEF Posted, TalkInv, SetupTypes
  <2>3. SideCounts(s)'
    <3>1. rs'[s].half = 1 => rs'[s].st # "run"
      BY <2>2
    <3>2. opt["client"].prog = "lat" => lat[s].scnt + 1 <= lat[s].rcnt + (IF s = "server" THEN 1 ELSE 0)
      <4>1. opt["client"].prog = "lat" =>
              lat[s].rcnt = Iters(s) \/ lat[s].scnt < lat[s].rcnt + (IF s = "server" THEN 1 ELSE 0)
        BY <1>1, <1>7 DEF SideCounts
      <4> QED BY <1>6, <2>1, <4>1
    <3>3. lat[s].scnt + 1 <= Iters(s) /\ flight'[s] \in {0, lat[s].scnt + 1}
      BY <1>6, <2>1, <2>2
    <3> QED BY <1>2, <1>3, <1>5, <1>9, <2>1, <3>1, <3>2, <3>3 DEF SideCounts
  <2>4. SideFlight(s)'
    <3>1. CASE flight'[s] = lat[s].scnt + 1 /\ rs'[s].half = 2 /\ Turned(s)
      <4>1. lat'[s].scnt = lat'[s].ccnt + 1 /\ scq'[s] = <<>> /\ Len(scq'[s]) <= 1 /\ flight'[s] # 0
        BY <1>2, <1>6, <1>8, <2>1, <3>1
      <4> QED BY <3>1, <4>1 DEF SideFlight
    <3>2. CASE rs'[s].st = "error"
      BY <3>2 DEF SideFlight
    <3> QED BY <2>2, <3>1, <3>2
  <2>5. (Died(s) => rs'[s].st # "done" /\ rfaults' # 0) /\ lat[s].scnt <= lat'[s].scnt
    BY <1>6, <2>1, <2>2 DEF Died, Turned
  <2> QED BY <1>1, <1>2, <1>4, <1>10, <2>3, <2>4, <2>5, RanStep
<1>12. CASE /\ Turned(s) /\ rs'[s].half = 2 /\ lat' = lat /\ flight' = flight /\ rfaults' = rfaults
            /\ ~(Sends(s) /\ lat[s].scnt < Iters(s))
  <2>1. SideCounts(s)'
    BY <1>2, <1>5, <1>7, <1>1, <1>12 DEF SideCounts
  <2>2. SideFlight(s)'
    BY <1>2, <1>5, <1>8, <1>12 DEF SideFlight
  <2>3. ~Died(s) /\ lat[s].scnt <= lat'[s].scnt
    BY <1>6, <1>12 DEF Died, Turned
  <2> QED BY <1>1, <1>2, <1>4, <1>10, <2>1, <2>2, <2>3, RanStep
<1> QED BY <1>1, <1>11, <1>12

\* A queue of at most one completion.
LEMMA ShortQueue ==
  ASSUME NEW E, NEW q \in Seq(E), q # <<>>, Len(q) <= 1
  PROVE  Tail(q) = <<>> /\ DOMAIN q = {1}
<1>1. \A p \in Seq(E) : p = <<>> <=> Len(p) = 0
  BY EmptySeq, Zenon
<1>2. Len(q) \in Nat /\ DOMAIN q = 1 .. Len(q)
  BY LenProperties, Zenon
<1>3. Len(q) # 0
  BY <1>1
<1>4. Len(q) = 1 /\ DOMAIN q = {1}
  BY <1>2, <1>3
<1>5. Tail(q) \in Seq(E) /\ Len(Tail(q)) = 0
  BY <1>4, HeadTailProperties
<1> QED BY <1>1, <1>4, <1>5

\* A side takes its completion.
LEMMA CompleteStep ==
  ASSUME SetupInv, NEW s \in Side, Complete(s)
  PROVE  SetupInv'
<1> USE DEF SetupInv
<1>1. /\ SetupTypes' /\ rs[s].st = "run" /\ rs[s].pc = 19 /\ rs[s].half = 2
      /\ \/ Completed(s) /\ Sends(s)
         \/ /\ Turned(s) /\ rs'[s].half = 0 /\ lat' = lat /\ scq' = scq
            /\ ~(Sends(s) /\ lat[s].ccnt < Iters(s))
  BY CompleteTypes DEF TalkInv
<1>2. flight' = flight /\ poll' = poll /\ opt' = opt /\ rfaults' = rfaults
  BY DEF Complete, setup
<1>3. Peer(s) \in Side /\ Peer(s) # s /\ Peer(Peer(s)) = s /\ \A t \in Side : t = s \/ t = Peer(s)
  BY TwoSides
<1>4. lat'[Peer(s)] = lat[Peer(s)] /\ scq'[Peer(s)] = scq[Peer(s)]
  <2>1. lat'[Peer(s)] = lat[Peer(s)] /\ (scq' = scq \/ scq' = [scq EXCEPT ![s] = Tail(scq[s])])
    BY <1>1 DEF Completed
  <2>2. scq \in [Side -> Seq({"unacked", "ok", "error"})]
    BY DEF TalkInv, SetupTypes
  <2> QED BY <1>3, <2>1, <2>2
<1>5. Ran(s)
  BY <1>1, <1>2, <1>4 DEF Ran, Complete, setup, Completed
<1>6. /\ \A t \in Side : Iters(t)' = Iters(t) /\ (Sends(t)' <=> Sends(t)) /\ (Receives(t)' <=> Receives(t))
      /\ \A t \in Side : Gone(t) => Gone(t)' /\ t # s
      /\ rs'[s].pc = 19
  BY <1>1, <1>5, RanIs
<1>7. /\ lat[s].scnt \in Nat /\ lat[s].rcnt \in Nat /\ lat[s].ccnt \in Nat
      /\ poll[s] \in Int /\ flight[s] \in Nat /\ Iters(s) \in Nat \ {0}
      /\ scq[s] \in Seq({"unacked", "ok", "error"})
  BY CountsAre DEF TalkInv
<1>8. SideCounts(s) /\ SideFlight(s)
  BY Zenon DEF Counted, SideCounts, InFlight, SideFlight
<1>9. lat[s].scnt <= Iters(s) /\ (~Sends(s) => lat[s].scnt = 0)
  BY <1>8 DEF SideCounts
<1>10. \A t \in Side : Peer(t) \in Side
  BY TwoSides
<1>11. CASE Completed(s) /\ Sends(s)
  <2>1. flight[s] = 0 /\ lat[s].scnt = lat[s].ccnt + 1 /\ scq[s] # <<>> /\ Len(scq[s]) <= 1
    BY <1>1, <1>8, <1>11 DEF SideFlight, Completed
  <2>2. Tail(scq[s]) = <<>> /\ DOMAIN scq[s] = {1}
    BY <1>7, <2>1, ShortQueue, Zenon
  <2>3. scq'[s] = <<>>
    BY <1>11, <2>2 DEF Completed, TalkInv, SetupTypes
  <2>4. \A t \in Side : \A j \in DOMAIN scq'[t] : scq'[t][j] = "error" => Gone(Peer(t))'
    <3>1. DOMAIN scq'[s] = {}
      BY <2>3
    <3>2. \A j \in DOMAIN scq'[Peer(s)] : scq'[Peer(s)][j] = "error" => Gone(s)'
      BY <1>3, <1>4, <1>6 DEF Losses
    <3> QED BY <1>3, <3>1, <3>2
  <2>5. /\ lat'[s].scnt = lat[s].scnt /\ lat'[s].rcnt = lat[s].rcnt
        /\ rs'[s].st = "run" => rs'[s].half = 0 /\ lat'[s].ccnt = lat[s].ccnt + 1
        /\ rs'[s].st \in {"run", "error"} /\ (Died(s) => rs'[s].st = "error" /\ scq[s][1] = "error")
    BY <1>11 DEF Completed, Turned, Died
  <2>6. SideCounts(s)'
    <3>1. rs'[s].pc = 19 /\ rs'[s].st = "run" => rs'[s].half = 0
      BY <2>5
    <3> QED BY <1>1, <1>2, <1>4, <1>6, <1>8, <2>5, <3>1 DEF SideCounts
  <2>7. SideFlight(s)'
    BY <1>2, <2>1, <2>3, <2>5 DEF SideFlight
  <2>8. ASSUME Died(s), rfaults' = 0
        PROVE  rs[Peer(s)].st = "done" /\ lat'[s].scnt = Iters(s) /\ lat[Peer(s)].rcnt = Iters(s)
    <3>1. Gone(Peer(s))
      <4>1. scq[s][1] = "error" /\ 1 \in DOMAIN scq[s]
        BY <2>2, <2>5, <2>8
      <4> QED BY <4>1 DEF Losses
    <3>2. Pos("server") = 6 + 2 * N /\ rs[Peer(s)].pc \in {17, 18, 19}
      BY <1>1, BothReady
    <3>3. rs[Peer(s)].st \in {"done", "error"}
      <4>1. rs[Peer(s)].st \in {"run", "done", "error"}
        BY <1>2, <1>3, <2>8, <3>2 DEF Losses
      <4> QED BY <3>1, <4>1 DEF Gone
    <3>4. rs[Peer(s)].st = "done"
      <4>1. rs[Peer(s)].st = "error" => rs[s].st = "done"
        BY <1>2, <1>3, <2>8 DEF Losses, OnlyLastUnacked
      <4> QED BY <1>1, <3>3, <4>1
    <3>5. lat[Peer(s)].rcnt = Iters(s)
      <4>1. Over(Peer(s))
        BY <1>3, <3>4 DEF Losses
      <4> QED BY <1>11, <4>1, PartsAre DEF Over, TalkInv
    <3>6. lat[Peer(s)].rcnt <= poll[Peer(s)] /\ poll[Peer(s)] <= lat[s].scnt
      <4>1. SideCounts(Peer(s))
        BY <1>3, Zenon DEF Counted, SideCounts
      <4>2. rs[Peer(s)].pc > 8
        BY <3>2
      <4> QED BY <1>3, <4>1, <4>2 DEF SideCounts
    <3>7. poll[Peer(s)] \in Int
      BY <1>3, CountsAre DEF TalkInv
    <3> QED BY <1>7, <1>9, <2>5, <3>4, <3>5, <3>6, <3>7
  <2>9. lat[s].scnt <= lat'[s].scnt /\ (Died(s) => rs'[s].st # "done")
    BY <1>7, <2>5
  <2> QED BY <1>1, <1>2, <1>5, <2>4, <2>6, <2>7, <2>8, <2>9, RanStep
<1>12. CASE /\ Turned(s) /\ rs'[s].half = 0 /\ lat' = lat /\ scq' = scq
            /\ ~(Sends(s) /\ lat[s].ccnt < Iters(s))
  <2>1. flight[s] = 0 /\ scq[s] = <<>> /\ lat[s].ccnt = lat[s].scnt
    <3>1. SUFFICES ASSUME flight[s] # 0 \/ scq[s] # <<>> PROVE FALSE
      BY <1>1, <1>8 DEF SideFlight
    <3>2. lat[s].scnt = lat[s].ccnt + 1
      BY <1>1, <1>8, <3>1 DEF SideFlight
    <3> QED BY <1>7, <1>9, <1>12, <3>2
  <2>2. SideCounts(s)'
    BY <1>1, <1>2, <1>6, <1>8, <1>12 DEF SideCounts
  <2>3. SideFlight(s)'
    BY <1>2, <1>12, <2>1 DEF SideFlight
  <2>4. ~Died(s) /\ lat[s].scnt <= lat'[s].scnt
    BY <1>7, <1>12 DEF Died, Turned
  <2>5. \A t \in Side : \A j \in DOMAIN scq'[t] : scq'[t][j] = "error" => Gone(Peer(t))'
    BY <1>6, <1>10, <1>12 DEF Losses
  <2> QED BY <1>1, <1>2, <1>5, <2>2, <2>3, <2>4, <2>5, RanStep
<1> QED BY <1>1, <1>11, <1>12

\* The loop of a side is over.
LEMMA FinishStep ==
  ASSUME SetupInv, NEW s \in Side, Finish(s)
  PROVE  SetupInv'
<1> USE DEF SetupInv
<1>1. SetupTypes' /\ Died(s) /\ rs'[s].st = "done" /\ rs[s].pc = 19 /\ Over(s)
  BY FinishTypes DEF TalkInv
<1>2. /\ lat' = lat /\ flight' = flight /\ scq' = scq /\ poll' = poll /\ opt' = opt /\ rfaults' = rfaults
  BY DEF Finish, setup
<1>3. Ran(s)
  BY <1>1, <1>2 DEF Ran, Finish, setup, Died
<1>4. /\ \A t \in Side : Iters(t)' = Iters(t) /\ (Sends(t)' <=> Sends(t)) /\ (Receives(t)' <=> Receives(t))
      /\ \A t \in Side : Gone(t) => Gone(t)' /\ t # s
      /\ rs'[s].pc = rs[s].pc
  BY <1>3, RanIs
<1>5. SideCounts(s)
  BY Zenon DEF Counted, SideCounts
<1>6. SideCounts(s)'
  BY <1>1, <1>2, <1>4, <1>5 DEF SideCounts
<1>7. SideFlight(s)'
  BY <1>1 DEF SideFlight
<1>8. \A t \in Side : \A j \in DOMAIN scq'[t] : scq'[t][j] = "error" => Gone(Peer(t))'
  <2>1. \A t \in Side : Peer(t) \in Side
    BY TwoSides
  <2> QED BY <1>2, <1>4, <2>1 DEF Losses
<1>9. lat[s].scnt <= lat'[s].scnt
  BY <1>2, CountsAre DEF TalkInv
<1> QED BY <1>1, <1>2, <1>3, <1>6, <1>7, <1>8, <1>9, RanStep

\* The device has something to do only for a side that runs.
LEMMA DeviceRuns ==
  ASSUME SetupInv, NEW s \in Side, ~Gone(s), flight[s] # 0 \/ scq[s] # <<>>
  PROVE  rs[s].st = "run" /\ rs[s].pc = 19 /\ rs[s].half = 2
<1> USE DEF SetupInv
<1>1. rs[s].pc \in 1 .. 19 /\ rs[s].half \in 0 .. 2
  BY PlaceIs DEF TalkInv
<1>2. rs[s].pc = 19
  BY <1>1 DEF Quiet
<1>3. rs[s].st = "run"
  BY <1>2 DEF Losses, Gone
<1>4. ~(rs[s].half < 2)
  BY <1>2, <1>3 DEF InFlight
<1> QED BY <1>1, <1>2, <1>3, <1>4

\* What a side that runs writes to is ready.
LEMMA AimReady ==
  ASSUME SetupInv, NEW s \in Side, rs[s].pc = 19
  PROVE  wr[s].to[1] = Peer(s) /\ rqp[Peer(s)][wr[s].to[2]].st \in {"rtr", "rts"}
<1> USE DEF SetupInv
<1>1. PICK o : o = Other(opt["client"], 0)
  OBVIOUS
<1>2. o \in 0 .. 1 /\ o < N
  <2>1. N \in {1, 2} /\ o = (IF N = 2 THEN 1 - 0 ELSE 0)
    BY <1>1, Setting DEF TalkInv
  <2> QED BY <2>1
<1>3. wr[s].to = <<Peer(s), o>>
  BY <1>1 DEF Aimed
<1>4. rqp[Peer(s)][o].st \in {"rtr", "rts"}
  <2>1. QpIs(Peer(s), o)
    BY <1>2, TwoSides DEF QpsShape
  <2>2. Connected(Peer(s), o)
    <3>1. rs[Peer(s)].pc \in {17, 18, 19}
      BY BothReady
    <3> QED BY <3>1 DEF Connected
  <2> QED BY <1>2, <2>1, <2>2 DEF QpIs
<1> QED BY <1>3, <1>4

\* A write reaches the memory of the other side, or that is gone.
LEMMA DeliverStep ==
  ASSUME SetupInv, NEW s \in Side, Deliver(s)
  PROVE  SetupInv'
<1> USE DEF SetupInv
<1>1. /\ flight[s] # 0 /\ ~Gone(s) /\ flight' = [flight EXCEPT ![s] = 0]
      /\ opt' = opt /\ rs' = rs /\ lat' = lat /\ rfaults' = rfaults /\ rqp' = rqp /\ wr' = wr
  BY DEF Deliver, setup
<1>2. rs[s].st = "run" /\ rs[s].pc = 19 /\ rs[s].half = 2
  BY <1>1, DeviceRuns
<1>3. /\ \A t \in Side : t = s \/ t = Peer(s)
      /\ Peer(s) \in Side /\ Peer(s) # s /\ Peer(Peer(s)) = s
  BY TwoSides
<1>4. SetupTypes'
  BY DeviceStepTypes DEF TalkInv
<1>5. SideCounts(s) /\ SideFlight(s) /\ SideCounts(Peer(s))
  BY <1>3, Zenon DEF Counted, SideCounts, InFlight, SideFlight
<1>6. rs[Peer(s)].pc \in {17, 18, 19}
  BY <1>2, BothReady
<1>7. flight[s] = lat[s].scnt /\ scq[s] = <<>> /\ lat[s].scnt = lat[s].ccnt + 1
  BY <1>1, <1>2, <1>5 DEF SideCounts, SideFlight
<1>8. wr[s].to[1] = Peer(s) /\ rqp[Peer(s)][wr[s].to[2]].st \in {"rtr", "rts"}
  BY <1>2, AimReady
<1>9. \/ Gone(Peer(s)) /\ scq' = [scq EXCEPT ![s] = Append(@, "error")] /\ poll' = poll
      \/ /\ scq' = [scq EXCEPT ![s] = Append(@, "unacked")]
         /\ \E v \in {flight[s], poll[Peer(s)]} : poll' = [poll EXCEPT ![Peer(s)] = v]
  BY <1>8, Zenon DEF Deliver
<1>10. /\ scq \in [Side -> Seq({"unacked", "ok", "error"})] /\ poll \in [Side -> -1 .. LatIters]
       /\ flight \in [Side -> 0 .. LatIters]
  BY DEF TalkInv, SetupTypes
<1>11. PICK a \in {"unacked", "error"} : scq' = [scq EXCEPT ![s] = Append(@, a)] /\ (a = "error" => Gone(Peer(s)))
  BY <1>9
<1>12. scq'[s] = <<a>> /\ scq'[Peer(s)] = scq[Peer(s)]
  BY <1>3, <1>7, <1>10, <1>11
<1>13. poll'[s] = poll[s] /\ poll'[Peer(s)] \in {flight[s], poll[Peer(s)]}
  BY <1>3, <1>9, <1>10
<1>14. flight'[s] = 0 /\ flight'[Peer(s)] = flight[Peer(s)]
  BY <1>1, <1>3, <1>10
<1>15. Ran(s)
  BY <1>1, <1>2, <1>12, <1>14 DEF Ran, Deliver, setup
<1>16. /\ poll[Peer(s)] \in Int /\ lat[s].scnt \in Nat /\ poll[Peer(s)] <= lat[s].scnt
  BY <1>3, <1>5, CountsAre DEF SideCounts, TalkInv
<1>17. poll'[Peer(s)] = poll[Peer(s)] \/ (poll[Peer(s)] <= poll'[Peer(s)] /\ poll'[Peer(s)] <= lat[s].scnt)
  BY <1>7, <1>13, <1>16
<1>18. \A t \in Side : Iters(t)' = Iters(t) /\ (Sends(t)' <=> Sends(t)) /\ (Receives(t)' <=> Receives(t))
  BY <1>15, RanIs
<1>19. SideCounts(s)'
  BY <1>1, <1>5, <1>13, <1>14, <1>18 DEF SideCounts
<1>20. SideFlight(s)'
  <2>1. scq'[s] # <<>> /\ Len(scq'[s]) <= 1
    BY <1>12
  <2> QED BY <1>1, <1>2, <1>7, <1>14, <2>1 DEF SideFlight
<1>21. \A t \in Side : \A j \in DOMAIN scq'[t] : scq'[t][j] = "error" => Gone(Peer(t))'
  <2>1. \A t \in Side : Gone(t)' <=> Gone(t)
    BY <1>1 DEF Gone
  <2>2. \A j \in DOMAIN scq'[s] : scq'[s][j] = a
    BY <1>12
  <2>3. \A j \in DOMAIN scq'[Peer(s)] : scq'[Peer(s)][j] = "error" => Gone(s)
    BY <1>3, <1>12 DEF Losses
  <2> QED BY <1>3, <1>11, <2>1, <2>2, <2>3
<1>22. ~Died(s) /\ lat[s].scnt <= lat'[s].scnt
  BY <1>1, <1>16, MovedOrDied, <1>2 DEF TalkInv
<1> QED BY <1>4, <1>15, <1>17, <1>19, <1>20, <1>21, <1>22, RanStep

\* A write is acknowledged, if the other side still is there.
LEMMA AcknowledgeStep ==
  ASSUME SetupInv, NEW s \in Side, Acknowledge(s)
  PROVE  SetupInv'
<1> USE DEF SetupInv
<1>1. /\ scq[s] # <<>> /\ ~Gone(s) /\ flight' = flight /\ poll' = poll
      /\ opt' = opt /\ rs' = rs /\ lat' = lat /\ rfaults' = rfaults
  BY DEF Acknowledge, setup
<1>2. rs[s].st = "run" /\ rs[s].pc = 19 /\ rs[s].half = 2
  BY <1>1, DeviceRuns
<1>3. /\ \A t \in Side : t = s \/ t = Peer(s)
      /\ Peer(s) \in Side /\ Peer(s) # s /\ Peer(Peer(s)) = s
  BY TwoSides
<1>4. SetupTypes'
  BY DeviceStepTypes DEF TalkInv
<1>5. SideCounts(s) /\ SideFlight(s)
  BY <1>3, Zenon DEF Counted, SideCounts, InFlight, SideFlight
<1>6. PICK a \in {"ok", "error"} :
        scq' = [scq EXCEPT ![s][1] = a] /\ (a = "error" => Gone(Peer(s)))
  BY DEF Acknowledge
<1>7. scq \in [Side -> Seq({"unacked", "ok", "error"})] /\ scq[s] \in Seq({"unacked", "ok", "error"})
  BY DEF TalkInv, SetupTypes
<1>8. scq'[s] = [scq[s] EXCEPT ![1] = a] /\ scq'[Peer(s)] = scq[Peer(s)]
  BY <1>3, <1>6, <1>7
<1>9. /\ DOMAIN scq'[s] = DOMAIN scq[s] /\ Len(scq'[s]) = Len(scq[s]) /\ scq'[s] # <<>>
      /\ \A j \in DOMAIN scq'[s] : scq'[s][j] = (IF j = 1 THEN a ELSE scq[s][j])
  <2>1. PICK q : q = scq[s]
    OBVIOUS
  <2>2. q \in Seq({"unacked", "ok", "error"}) /\ q # <<>> /\ scq'[s] = [q EXCEPT ![1] = a]
    BY <1>1, <1>7, <1>8, <2>1
  <2>3. [q EXCEPT ![1] = a] \in Seq({"unacked", "ok", "error"}) /\ Len([q EXCEPT ![1] = a]) = Len(q)
    BY <2>2
  <2>4. Len(q) # 0
    <3>1. \A p \in Seq({"unacked", "ok", "error"}) : p = <<>> <=> Len(p) = 0
      BY EmptySeq, Zenon
    <3> QED BY <2>2, <3>1
  <2>5. [q EXCEPT ![1] = a] # <<>>
    BY <2>3, <2>4
  <2>6. DOMAIN [q EXCEPT ![1] = a] = DOMAIN q
    OBVIOUS
  <2>7. \A j \in DOMAIN q : [q EXCEPT ![1] = a][j] = (IF j = 1 THEN a ELSE q[j])
    OBVIOUS
  <2> QED BY <2>1, <2>2, <2>3, <2>5, <2>6, <2>7
<1>10. Ran(s)
  BY <1>1, <1>2, <1>8 DEF Ran, Acknowledge, setup
<1>11. \A t \in Side : Iters(t)' = Iters(t) /\ (Sends(t)' <=> Sends(t)) /\ (Receives(t)' <=> Receives(t))
  BY <1>10, RanIs
<1>12. SideCounts(s)'
  BY <1>1, <1>5, <1>11 DEF SideCounts
<1>13. SideFlight(s)'
  BY <1>1, <1>2, <1>5, <1>9 DEF SideFlight
<1>14. \A t \in Side : \A j \in DOMAIN scq'[t] : scq'[t][j] = "error" => Gone(Peer(t))'
  <2>1. \A t \in Side : Gone(t)' <=> Gone(t)
    BY <1>1 DEF Gone
  <2>2. \A j \in DOMAIN scq'[s] : scq'[s][j] = "error" => Gone(Peer(s))
    BY <1>6, <1>9 DEF Losses
  <2>3. \A j \in DOMAIN scq'[Peer(s)] : scq'[Peer(s)][j] = "error" => Gone(s)
    BY <1>3, <1>8 DEF Losses
  <2> QED BY <1>3, <2>1, <2>2, <2>3
<1>15. ~Died(s) /\ lat[s].scnt <= lat'[s].scnt
  BY <1>1, <1>2, MovedOrDied, CountsAre DEF TalkInv
<1> QED BY <1>1, <1>4, <1>10, <1>12, <1>13, <1>14, <1>15, RanStep

-----------------------------------------------------------------------------
(* The invariant.                                                          *)

LEMMA SetupStart ==
  ASSUME RdmaSetupInit, Matched
  PROVE  SetupInv
<1>1. opt \in [Side -> Options]
  BY RdmaSetupAssumption DEF RdmaSetupInit
<1>2. \A s \in Side :
        /\ rs[s] = [st |-> "run", pc |-> 1, i |-> 0, half |-> 0, rem |-> 0]
        /\ sock[s] = [state |-> "none", sent |-> <<>>]
        /\ flight[s] = 0 /\ scq[s] = <<>> /\ poll[s] = -1 /\ lat[s] = [scnt |-> 0, rcnt |-> 0, ccnt |-> 0]
        /\ \A i \in 0 .. 1 : mine[s][i] = NoDest /\ rqp[s][i] = NewQp
  BY DEF RdmaSetupInit
<1>3. SetupTypes
  <2>1. rs \in [Side -> Proc]
    BY DEF RdmaSetupInit, Proc
  <2>2. sock \in [Side -> Sock]
    <3>1. <<>> \in Seq(Piece)
      BY EmptySeq
    <3> HIDE DEF Piece
    <3> QED BY <3>1 DEF RdmaSetupInit, Sock
  <2>3. NoQp \in QpRef
    BY DEF NoQp, QpRef
  <2>4. NoDest \in DestRec /\ NewQp \in QpRec /\ NoWr \in [to : QpRef, slot : Nat]
    BY <2>3 DEF NoDest, DestRec, NewQp, QpRec, NoWr
  <2>5. mine \in [Side -> [0 .. 1 -> DestRec]] /\ theirs \in [Side -> [0 .. 1 -> DestRec]]
    BY <2>4 DEF RdmaSetupInit
  <2>6. rqp \in [Side -> [0 .. 1 -> QpRec]] /\ wr \in [Side -> [to : QpRef, slot : Nat]]
    BY <2>4 DEF RdmaSetupInit
  <2>7. scq \in [Side -> Seq({"unacked", "ok", "error"})]
    BY DEF RdmaSetupInit
  <2>8. [scnt |-> 0, rcnt |-> 0, ccnt |-> 0] \in Counts /\ 0 \in 0 .. LatIters /\ -1 \in -1 .. LatIters
    BY RdmaSetupAssumption DEF Counts
  <2>9. flight \in [Side -> 0 .. LatIters] /\ poll \in [Side -> -1 .. LatIters] /\ lat \in [Side -> Counts]
    BY <2>8 DEF RdmaSetupInit
  <2>10. rfaults \in 0 .. MaxRFaults
    BY RdmaSetupAssumption DEF RdmaSetupInit
  <2> QED BY <1>1, <2>1, <2>2, <2>5, <2>6, <2>7, <2>9, <2>10 DEF SetupTypes
<1>4. N \in {1, 2}
  BY DEF N, NumQps
<1>5. \A s \in Side : Pos(s) = 0 /\ Half(s) = 0 /\ Heard(s) = 0
  BY <1>2 DEF Pos, PosOf, Half, Heard
<1>6. ~Replied /\ ~Asked
  BY <1>5, TwoSides DEF Replied, Asked
<1>7. Places /\ LockStep /\ Stuck /\ TermsKept /\ Disagree
  <2>1. Places
    BY <1>2, <1>4 DEF Places
  <2>2. LockStep /\ Stuck
    BY <1>5, TwoSides DEF LockStep, Stuck
  <2>3. TermsKept
    BY <1>2, TwoSides DEF TermsKept
  <2>4. Disagree
    BY <1>2, TwoSides DEF Disagree
  <2> QED BY <2>1, <2>2, <2>3, <2>4
<1>8. KeysKnown
  <2>1. ASSUME NEW s \in Side PROVE Told(s)
    <3>1. ~(rs[s].pc > 10) /\ ~(rs[s].pc > 15)
      BY <1>2
    <3> QED BY <3>1, Zenon DEF Told
  <2>2. ASSUME NEW s \in Side PROVE Known(s)
    <3>1. \A i \in 0 .. N - 1 : ~(Heard(s) > 5 + i) /\ ~(Heard(s) > 5 + N + i)
      BY <1>4, <1>5
    <3> QED BY <3>1 DEF Known
  <2> QED BY <2>1, <2>2 DEF KeysKnown
<1>9. ToServer /\ ToClient
  BY <1>2, <1>6, TwoSides DEF ToServer, ToClient
<1>10. Fresh /\ Aimed
  BY <1>2 DEF Fresh, NoDest, Aimed
<1>11. QpsShape
  BY <1>2 DEF QpsShape, QpIs, NewQp, Connected
<1>12. Quiet
  BY <1>2 DEF Quiet
<1>13. Counted
  <2>1. \A s \in Side : Iters(s) \in Nat \ {0} /\ Peer(s) \in Side
    BY <1>3, CountsAre, TwoSides
  <2> QED BY <1>2, <2>1 DEF Counted
<1>14. InFlight
  BY <1>2 DEF InFlight
<1>15. Losses
  BY <1>2, <1>4, <1>5, TwoSides DEF Losses, OnlyLastUnacked
<1> QED BY <1>3, <1>7, <1>8, <1>9, <1>10, <1>11, <1>12, <1>13, <1>14, <1>15 DEF SetupInv, TalkInv

LEMMA SetupStutters ==
  ASSUME SetupInv, UNCHANGED rdmaSetupVars
  PROVE  SetupInv'
<1> USE DEF SetupInv
<1>1. /\ opt' = opt /\ rs' = rs /\ sock' = sock /\ mine' = mine /\ theirs' = theirs /\ rqp' = rqp /\ wr' = wr
      /\ flight' = flight /\ scq' = scq /\ poll' = poll /\ lat' = lat /\ rfaults' = rfaults
  BY DEF rdmaSetupVars
<1>2. TalkInv'
  <2>1. SetupTypes'
    BY <1>1 DEF TalkInv, SetupTypes
  <2> QED BY <1>1, <2>1, TalkStays
<1>3. N' = N
  BY <1>1 DEF N
<1>4. Fresh' /\ QpsShape' /\ Aimed' /\ Quiet'
  <2>1. QpsShape'
    BY <1>1, <1>3, QpStays DEF QpsShape
  <2> QED BY <1>1, <1>3, <2>1 DEF Fresh, Aimed, Quiet
<1>5. Counted' /\ InFlight'
  BY <1>1 DEF Counted, InFlight, Iters, Sends, Receives
<1>6. Losses'
  <2>1. Pos("server")' = Pos("server")
    BY <1>1, <1>3 DEF Pos, PosOf
  <2> QED BY <1>1, <1>3, <2>1 DEF Losses, Gone, Over, Iters, Sends, Receives, OnlyLastUnacked
<1> QED BY <1>2, <1>4, <1>5, <1>6

LEMMA SetupKeeps ==
  ASSUME SetupInv, [RdmaSetupNext]_rdmaSetupVars
  PROVE  SetupInv'
<1>1. CASE UNCHANGED rdmaSetupVars
  BY <1>1, SetupStutters
<1>2. CASE RdmaSetupNext
  <2>1. PICK s \in Side : ProcessStep(s) \/ DeviceStep(s)
    BY <1>2 DEF RdmaSetupNext
  <2>2. CASE DeviceStep(s)
    BY <2>2, DeliverStep, AcknowledgeStep DEF DeviceStep
  <2>3. CASE PollByte(s) \/ Post(s) \/ Complete(s) \/ Finish(s)
    BY <2>3, PollByteStep, PostStep, CompleteStep, FinishStep
  <2>4. CASE \/ s = "server" /\ (Listen \/ Accept)
             \/ s = "client" /\ ClientConnect
             \/ CallFails(s) \/ Device(s) \/ NoVersion(s) \/ Write(s) \/ ReadMsg(s)
             \/ Alloc(s) \/ InitCtx(s) \/ CreateQp(s) \/ Dest(s) \/ GidCheck(s) \/ ConnectQp(s) \/ SetWqes(s)
    <3>1. TalkInv /\ Fresh /\ QpsShape /\ Aimed
      BY DEF SetupInv
    <3>2. TalkInv' /\ Early(s) /\ Fresh' /\ QpsShape' /\ Aimed'
      BY <2>4, <3>1, SetupSteps
    <3>3. Quiet' /\ Counted' /\ InFlight' /\ Losses'
      BY <3>2, EarlyRest
    <3> QED BY <3>2, <3>3 DEF SetupInv
  <2> QED BY <2>1, <2>2, <2>3, <2>4 DEF ProcessStep
<1> QED BY <1>1, <1>2

-----------------------------------------------------------------------------
(* What the invariant says.                                                *)

LEMMA TypesHold ==
  ASSUME SetupInv
  PROVE  RdmaSetupTypeOK
<1> USE DEF SetupInv, TalkInv
<1>1. ASSUME NEW s \in Side
      PROVE  /\ rs[s].st \in {"run", "exited", "crashed", "stray", "error", "done"}
             /\ rs[s].pc \in DOMAIN Steps /\ rs[s].i \in 0 .. 1 /\ rs[s].half \in 0 .. 2
             /\ sock[s].state \in {"none", "listening", "connected"}
  BY StepNames DEF SetupTypes, Proc, Sock
<1>2. ASSUME NEW s \in Side, NEW i \in 0 .. 1 PROVE rqp[s][i].st \in {"none", "reset", "init", "rtr", "rts"}
  BY DEF SetupTypes, QpRec
<1>3. ASSUME NEW s \in Side
      PROVE  /\ flight[s] \in 0 .. LatIters /\ poll[s] \in -1 .. LatIters
             /\ lat[s] \in [scnt : 0 .. LatIters, rcnt : 0 .. LatIters, ccnt : 0 .. LatIters]
  BY DEF SetupTypes, Counts
<1>4. rfaults \in 0 .. MaxRFaults
  BY DEF SetupTypes
<1> QED BY <1>1, <1>2, <1>3, <1>4 DEF RdmaSetupTypeOK

LEMMA WritesDo ==
  ASSUME SetupInv
  PROVE  WritesArrive
<1> USE DEF SetupInv
<1> SUFFICES ASSUME NEW s \in Side, flight[s] # 0
             PROVE  /\ wr[s].to = <<Peer(s), Other(opt[s], 0)>>
                    /\ rqp[Peer(s)][wr[s].to[2]].st \in {"rtr", "rts"}
                    /\ wr[s].slot = Polled(opt[Peer(s)])
  BY DEF WritesArrive
<1>1. rs[s].pc = 19
  <2>1. rs[s].pc \in 1 .. 19
    BY PlaceIs DEF TalkInv
  <2> QED BY <2>1 DEF Quiet
<1>2. rqp[Peer(s)][wr[s].to[2]].st \in {"rtr", "rts"}
  BY <1>1, AimReady
<1>3. wr[s].to = <<Peer(s), Other(opt["client"], 0)>> /\ wr[s].slot = N + Other(opt["client"], 0)
  BY <1>1 DEF Aimed
<1>4. N \in {1, 2} /\ Other(opt[s], 0) = Other(opt["client"], 0) /\ Other(opt["client"], 0) = (IF N = 2 THEN 1 ELSE 0)
  <2>1. /\ N \in {1, 2} /\ Other(opt[s], 0) = (IF N = 2 THEN 1 - 0 ELSE 0)
        /\ Other(opt["client"], 0) = (IF N = 2 THEN 1 - 0 ELSE 0)
    BY Setting DEF TalkInv
  <2> QED BY <2>1
<1>5. Polled(opt[Peer(s)]) = N + (IF N = 2 THEN 1 ELSE 0)
  <2>1. /\ Peer(s) \in Side /\ (Paired(opt[Peer(s)]) <=> N = 2)
        /\ \A i : Slot(opt[Peer(s)], i) = N + i
    BY TwoSides, Setting DEF TalkInv
  <2> QED BY <2>1 DEF Polled
<1> QED BY <1>2, <1>3, <1>4, <1>5

LEMMA QpsDo ==
  ASSUME SetupInv
  PROVE  QpsMatch
<1> USE DEF SetupInv
<1> SUFFICES ASSUME NEW s \in Side, NEW i \in 0 .. 1, rqp[s][i].st = "rts", opt[s].conn # "DC"
             PROVE  /\ rqp[s][i].to = <<Peer(s), Other(opt[s], i)>>
                    /\ rqp[Peer(s)][Other(opt[s], i)].st = "rts" =>
                         /\ rqp[Peer(s)][Other(opt[s], i)].to = <<s, i>>
                         /\ rqp[s][i].rq = rqp[Peer(s)][Other(opt[s], i)].sq
  BY DEF QpsMatch
<1>1. PICK o : o = Other(opt[s], i)
  OBVIOUS
<1>2. /\ N \in {1, 2} /\ o = (IF N = 2 THEN 1 - i ELSE i) /\ o = Other(opt["client"], i)
      /\ Other(opt["client"], o) = (IF N = 2 THEN 1 - o ELSE o)
      /\ opt["client"].conn # "DC" /\ Peer(s) \in Side /\ Peer(Peer(s)) = s
  BY <1>1, Setting DEF TalkInv
<1>3. o \in 0 .. 1 /\ Other(opt["client"], o) = i
  BY <1>2
<1>4. QpIs(s, i) /\ QpIs(Peer(s), o)
  BY <1>2, <1>3 DEF QpsShape
<1>5. rqp[s][i].to = <<Peer(s), o>> /\ rqp[s][i].rq = 1
  BY <1>2, <1>4 DEF QpIs
<1>6. rqp[Peer(s)][o].st = "rts" => rqp[Peer(s)][o].to = <<s, i>> /\ rqp[Peer(s)][o].sq = 1
  BY <1>2, <1>3, <1>4 DEF QpIs
<1> QED BY <1>1, <1>5, <1>6

LEMMA CountsDo ==
  ASSUME SetupInv
  PROVE  NoCountLost
<1> USE DEF SetupInv
<1> SUFFICES ASSUME NEW s \in Side, Receives(s), rs[s].pc > 8 PROVE poll[s] - lat[s].rcnt \in {0, 1}
  BY StepNos DEF NoCountLost
<1>1. Peer(s) \in Side /\ Peer(Peer(s)) = s /\ Peer(s) # s
  BY TwoSides
<1>2. SideCounts(s) /\ SideCounts(Peer(s))
  BY <1>1, Zenon DEF Counted, SideCounts
<1>3. /\ lat[s].scnt \in Nat /\ lat[s].rcnt \in Nat /\ poll[s] \in Int
      /\ lat[Peer(s)].scnt \in Nat /\ lat[Peer(s)].rcnt \in Nat /\ poll[Peer(s)] \in Int
  BY <1>1, CountsAre DEF TalkInv
<1>4. lat[s].rcnt <= poll[s] /\ poll[s] <= lat[Peer(s)].scnt /\ lat[Peer(s)].scnt <= Iters(Peer(s))
      /\ poll[Peer(s)] <= lat[s].scnt
  BY <1>1, <1>2 DEF SideCounts
<1>5. CASE opt["client"].prog = "lat"
  <2>1. /\ lat[s].scnt <= lat[s].rcnt + (IF s = "server" THEN 1 ELSE 0)
        /\ lat[Peer(s)].scnt <= lat[Peer(s)].rcnt + (IF s = "server" THEN 0 ELSE 1)
    BY <1>2, <1>5, TwoSides DEF SideCounts
  <2>2. CASE rs[Peer(s)].pc > 8
    <3>1. lat[Peer(s)].rcnt <= poll[Peer(s)]
      BY <1>2, <2>2 DEF SideCounts
    <3> QED BY <1>3, <1>4, <2>1, <3>1
  <2>3. CASE ~(rs[Peer(s)].pc > 8)
    <3>1. lat[Peer(s)].scnt = 0
      <4>1. rs[Peer(s)].pc \in 1 .. 19
        BY <1>1, PlaceIs DEF TalkInv
      <4>2. rs[Peer(s)].pc < 19
        BY <2>3, <4>1
      <4> QED BY <1>1, <4>2 DEF Quiet
    <3> QED BY <1>3, <1>4, <3>1
  <2> QED BY <2>2, <2>3
<1>6. CASE opt["client"].prog # "lat"
  <2>1. Iters(Peer(s)) = 1
    BY <1>1, <1>6, PartsAre DEF TalkInv
  <2> QED BY <1>3, <1>4, <2>1
<1> QED BY <1>5, <1>6

LEMMA SetupIsSound ==
  ASSUME SetupInv
  PROVE  ConnectionSound
<1>1. RdmaSetupTypeOK /\ WritesArrive /\ QpsMatch /\ NoCountLost
  BY TypesHold, WritesDo, QpsDo, CountsDo
<1>2. SameTerms
  <2> SUFFICES ASSUME \A s \in Side : rs[s].pc > 6
               PROVE  \A f \in {"cyc", "line", "mtu"} : opt["client"][f] = opt["server"][f]
    BY StepNos DEF SameTerms
  <2>1. rs["client"].pc > 6 /\ rs["client"].pc \in 1 .. 19
    BY TwoSides, PlaceIs DEF SetupInv, TalkInv
  <2>2. rs["client"].pc > 4 /\ rs["client"].pc > 5
    BY <2>1
  <2>3. /\ opt["server"].cyc = opt["client"].cyc /\ opt["server"].line = opt["client"].line
        /\ opt["server"].mtu = opt["client"].mtu
    BY <2>1, <2>2 DEF SetupInv, TalkInv, TermsKept
  <2> QED BY <2>3
<1>3. DisagreementFound
  BY StepNos DEF DisagreementFound, SetupInv, TalkInv, Disagree, Mixed
<1>4. OnlyLastUnacked
  BY DEF SetupInv, Losses
<1> QED BY <1>1, <1>2, <1>3, <1>4 DEF ConnectionSound

\* Two sides that name the same connection and the same program, whatever the
\* rest of their options, agree on the terms in molecule_common_setup or stop
\* where they disagree; the QPs of ctx_connect are each other's, a write goes
\* to a QP that can receive and to the place that is polled, no count of
\* run_iter_lat_write is lost, and without a failed call only the last write
\* can miss its completion: for any number of iterations, any width of a char
\* above one value, and any number of failed calls.
THEOREM ConnectionIsSound ==
  RdmaSetupSpec /\ Matched => []ConnectionSound
<1>1. RdmaSetupInit /\ Matched => SetupInv
  BY SetupStart
<1>2. SetupInv /\ [RdmaSetupNext]_rdmaSetupVars => SetupInv'
  BY SetupKeeps
<1>3. SetupInv => ConnectionSound
  BY SetupIsSound
<1> QED BY <1>1, <1>2, <1>3, PTL DEF RdmaSetupSpec
=============================================================================
