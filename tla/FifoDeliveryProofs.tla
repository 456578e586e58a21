------------------------- MODULE FifoDeliveryProofs -------------------------
(***************************************************************************)
(* TLAPS proofs about the segments of the processes and about the messages *)
(* that go through them into the named pipes.                              *)
(***************************************************************************)
EXTENDS GlobalSyscallProofs, SequenceTheorems

\* No process died with an answer unread in its socket: the case in which
\* global_syscall_loop takes the error of read for a request.
NoReset == \A p \in Proc : conn[p] # "reset"

-----------------------------------------------------------------------------
(* The global pids.                                                        *)

\* The global pids that p has or is about to get: its own, the one in its
\* socket and the one that the SYSCALL thread is about to send to it.
Numbers(p) ==
  {g \in Pid :
     \/ gid[p] = g
     \/ conn[p] = "answer" /\ req[p].func = "RegisterSelfGlobal" /\ ret[p] = g
     \/ /\ conn[p] = "busy" /\ req[p].func = "RegisterSelfGlobal"
        /\ sysPc[Home[p]] = "reply" /\ sysRet[Home[p]] = g}

\* They are taken in global_process_list, and no process of the PU shares one.
NumbersTaken ==
  \A p \in Proc : \A g \in Numbers(p) :
    /\ registered[Home[p]][g]
    /\ \A q \in Proc : q # p /\ Home[q] = Home[p] => g \notin Numbers(q)

-----------------------------------------------------------------------------
(* A message on its way.                                                   *)

\* The SYSCALL thread at work serves a process that waits for it.
Serving ==
  \A s \in PU : sysPc[s] # "epoll" => /\ sysConn[s] \in Proc
                                      /\ Home[sysConn[s]] = s
                                      /\ conn[sysConn[s]] = "busy"

\* The DSM thread of a PU is at work while the other PU's thread is in dsm_call.
Coupled == \A s \in PU : dsmPc[s] # "idle" <=> sysPc[Other(s)] = "dsm_call"

\* The message of a write is in the segment that the request names, until the
\* process has its answer; it is the process's last one, for a uuid of the fd.
Carried ==
  \A p \in Proc : req[p].func = "FIFO_WRITE" =>
    LET m == shm[Home[p]][gid[p]]
    IN  /\ req[p].shmid = gid[p]
        /\ m.src = p
        /\ m.n = writes[p]
        /\ m.blank \in Blanks
        /\ <<m.dst, req[p].id>> \in fds[p]

\* Behind a WRITEFIFO request travels the message of that segment.
Travelling ==
  \A s \in PU : dsmPc[s] # "idle" /\ dsmReq[s].func = "FIFO_WRITE" =>
    dsmMsg[s] \in {Outgoing(Other(s)), Parsed(Outgoing(Other(s)))}

\* The last write of p has not reached a pipe yet.
Pending(p) ==
  /\ req[p].func = "FIFO_WRITE"
  /\ \/ conn[p] = "request"
     \/ /\ conn[p] = "busy"
        /\ sysPc[Home[p]] # "reply"
        /\ sysPc[Home[p]] = "dsm_call" => dsmPc[Other(Home[p])] # "response"

\* What has come through the pipe of l.
Stream(l) == rcvd[l] \o pipe[l]

\* No message comes before it was written, nor a second time.
InTime ==
  \A l \in Proc : \A k \in DOMAIN Stream(l) :
    LET m == Stream(l)[k]
    IN  /\ m.src \in Proc
        /\ m.n <= writes[m.src]
        /\ Pending(m.src) => m.n < writes[m.src]

FlightInv == Serving /\ Coupled /\ Carried /\ Travelling /\ InTime /\ OrderedDelivery

-----------------------------------------------------------------------------
(* Where a message goes.                                                   *)

\* A thread writes to a fifo of its own PU, and hands on a write to another.
Directed ==
  \A s \in PU :
    /\ sysPc[s] \in {"open", "write"} =>
         sysReq[s].id \in FifoId /\ IsGlobalFifoLocal(s, sysReq[s].id)
    /\ sysPc[s] = "dsm_call" /\ sysReq[s].func = "FIFO_WRITE" =>
         sysReq[s].id \in FifoId /\ ~IsGlobalFifoLocal(s, sysReq[s].id)

-----------------------------------------------------------------------------
(* That it arrives.                                                        *)

\* m has come through some pipe.
Arrived(m) == \E l \in Proc : \E k \in DOMAIN Stream(l) : Stream(l)[k] = m

\* An entry that was never taken names no fifo.
Fresh == \A s \in PU, i \in FifoId : fifo[s][i].pu_id = -1 => fifo[s][i].local_uuid = NoProc

\* A thread that is about to write has a pipe of its PU open.
Opened ==
  \A s \in PU :
    /\ sysPc[s] = "write" => /\ sysReq[s].id \in FifoId
                             /\ HasPath(s, fifo[s][sysReq[s].id].local_uuid)
    /\ dsmPc[s] = "write" => /\ dsmReq[s].id \in FifoId
                             /\ HasPath(s, fifo[s][dsmReq[s].id].local_uuid)

\* The message of a write that is not pending any more has arrived.
WritesArrived ==
  \A p \in Proc : req[p].func = "FIFO_WRITE" /\ ~Pending(p) =>
    Arrived(shm[Home[p]][gid[p]])

-----------------------------------------------------------------------------
(* The global pids: only SyscallRegisterGlobal gives one out.              *)

\* Nobody loses a number's protection while no number is given out.
LEMMA FewerNumbers ==
  ASSUME NumbersTaken, registered' = registered,
         \A p \in Proc : Numbers(p)' \subseteq Numbers(p)
  PROVE  NumbersTaken'
BY DEF NumbersTaken

\* A step of a process gives out no number: Return moves one from the socket.
LEMMA ProcNumbers ==
  ASSUME LinkInv, NumbersTaken, NEW p \in Proc, ProcNext(p) PROVE NumbersTaken'
<1>1. /\ conn \in [Proc -> ConnSt] /\ req \in [Proc -> Request]
      /\ gid \in [Proc -> Pid \cup {-1}] /\ ret \in [Proc -> Int]
  BY DEF LinkInv, TypeOK, ProcTypeOK
<1>2. ASSUME NEW r, Send(p, r), UNCHANGED <<sysVars, gid, ret, registered>>
      PROVE  NumbersTaken'
  <2>1. \A q \in Proc : Numbers(q)' \subseteq Numbers(q)
    BY <1>1, <1>2 DEF Send, Numbers, sysVars
  <2> QED BY <1>2, <2>1, FewerNumbers
<1>3. CASE \/ RegisterSelfGlobal(p) \/ GlobalFifoInit(p) \/ GlobalFifoConnect(p)
           \/ GlobalFifoWrite(p) \/ GlobalFifoRead(p) \/ GlobalFifoClose(p)
           \/ GlobalSpawn(p)
  BY <1>2, <1>3 DEF RegisterSelfGlobal, GlobalFifoInit, GlobalFifoConnect,
     GlobalFifoWrite, GlobalFifoRead, GlobalFifoClose, GlobalSpawn, osVars
<1>4. CASE Return(p)
  <2>1. ASSUME NEW q \in Proc PROVE Numbers(q)' \subseteq Numbers(q)
    <3>1. CASE q = p
      <4>1. conn'[p] = "idle" /\ conn[p] = "answer"
        BY <1>1, <1>4 DEF Return
      <4>2. gid'[p] = IF req[p].func = "RegisterSelfGlobal" THEN ret[p] ELSE gid[p]
        BY <1>1, <1>4 DEF Return
      <4> QED BY <3>1, <4>1, <4>2 DEF Numbers
    <3>2. CASE q # p
      BY <1>1, <1>4, <3>2 DEF Return, Numbers, sysVars
    <3> QED BY <3>1, <3>2
  <2> QED BY <1>4, <2>1, FewerNumbers DEF Return, osVars
<1>5. CASE FifoRead(p) \/ AnswerLost(p)
  <2>1. \A q \in Proc : Numbers(q)' = Numbers(q)
    BY <1>5 DEF FifoRead, AnswerLost, Numbers, sysVars
  <2> QED BY <1>5, <2>1, FewerNumbers DEF FifoRead, AnswerLost, osVars
<1>6. CASE Die(p)
  <2>1. \A q \in Proc : Numbers(q)' \subseteq Numbers(q)
    BY <1>1, <1>6 DEF Die, Numbers, sysVars
  <2> QED BY <1>6, <2>1, FewerNumbers DEF Die, osVars
<1> QED BY <1>3, <1>4, <1>5, <1>6 DEF ProcNext

\* syscall_register_global gives out a free entry.
LEMMA RegisterNumbers ==
  ASSUME LinkInv, NumbersTaken, NEW s \in PU, SyscallRegisterGlobal(s)
  PROVE  NumbersTaken'
<1> DEFINE g == NextPid(s)
           c == sysConn[s]
<1>1. /\ registered \in [PU -> [Pid -> BOOLEAN]] /\ sysPc \in [PU -> SysPc]
      /\ sysRet \in [PU -> Int] /\ procNow \in [PU -> Pid]
  BY DEF LinkInv, TypeOK, OsTypeOK, ThreadTypeOK
<1>2. g \in Pid
  BY <1>1, Cursors, Ids DEF NextPid
<1>3. /\ UNCHANGED <<conn, req, gid, ret, sysConn>>
      /\ sysPc[s] = "dispatch" /\ sysPc' = [sysPc EXCEPT ![s] = "reply"]
  BY DEF SyscallRegisterGlobal, Result, Handling, At, procVars
<1>4. \A q \in Proc : conn[q] = "busy" /\ Home[q] = s => q = c
  BY DEF LinkInv, Sessions
<1>5. CASE /\ ~registered[s][g] /\ registered' = [registered EXCEPT ![s][g] = TRUE]
           /\ sysRet' = [sysRet EXCEPT ![s] = g]
  <2>1. \A q \in Proc : g \in Numbers(q) => Home[q] # s
    BY <1>5 DEF NumbersTaken
  <2>2. \A q \in Proc : Numbers(q)' \subseteq Numbers(q) \cup
                          (IF q = c /\ Home[q] = s THEN {g} ELSE {})
    BY <1>1, <1>3, <1>4, <1>5 DEF Numbers
  <2>3. /\ registered'[s][g]
        /\ \A t \in PU, h \in Pid : registered[t][h] => registered'[t][h]
    BY <1>1, <1>2, <1>5
  <2>4. \A q \in Proc : Home[q] \in PU /\ Numbers(q) \subseteq Pid
    BY ProcAssumption DEF Numbers
  <2> HIDE DEF g, c
  <2> QED BY <2>1, <2>2, <2>3, <2>4 DEF NumbersTaken
<1>6. CASE registered' = registered /\ sysRet' = [sysRet EXCEPT ![s] = -1]
  <2>1. \A q \in Proc : Numbers(q)' \subseteq Numbers(q)
    BY <1>1, <1>3, <1>6, Ids DEF Numbers
  <2> QED BY <1>6, <2>1, FewerNumbers
<1> QED BY <1>5, <1>6 DEF SyscallRegisterGlobal, Result, PidFree

\* A step of a globalOS keeps the numbers apart.
LEMMA OsNumbers ==
  ASSUME LinkInv, NumbersTaken, NEW s \in PU, OsNext(s) PROVE NumbersTaken'
<1>1. /\ conn \in [Proc -> ConnSt] /\ ret \in [Proc -> Int]
      /\ sysPc \in [PU -> SysPc] /\ sysRet \in [PU -> Int]
  BY DEF LinkInv, TypeOK, ProcTypeOK, ThreadTypeOK
<1>2. CASE \E p \in Proc : Receive(s, p) \/ ReceiveEof(s, p) \/ ReceiveError(s, p)
  <2>3. PICK p \in Proc : Receive(s, p) \/ ReceiveEof(s, p) \/ ReceiveError(s, p)
    BY <1>2
  <2>4. /\ Home[p] = s /\ UNCHANGED <<gid, req, ret, sysRet>>
        /\ conn'[p] # "answer" /\ \A q \in Proc : q # p => conn'[q] = conn[q]
        /\ conn'[p] = "busy" => sysPc'[s] = "dispatch"
        /\ \A t \in PU : sysPc'[t] = sysPc[t] \/ sysPc'[t] = "dispatch"
    BY <1>1, <2>3 DEF Receive, ReceiveEof, ReceiveError, procVars, sysVars
  <2>1. \A q \in Proc : Numbers(q)' \subseteq Numbers(q)
    BY <2>4, ProcAssumption DEF Numbers
  <2>2. registered' = registered
    BY <1>2 DEF Receive, ReceiveEof, ReceiveError, osVars
  <2> QED BY <2>1, <2>2, FewerNumbers
<1>3. CASE \/ ReplyToBroken(s) \/ UnknownSyscall(s) \/ RegisterNoSegment(s)
           \/ BoundPanic(s) \/ WriteTooLong(s) \/ OpenPanic(s) \/ WritePanic(s)
  <2>1. Panic(s)
    BY <1>3, PanicSteps
  <2>2. \A q \in Proc : Numbers(q)' = Numbers(q)
    BY <2>1 DEF Panic, Numbers, procVars, sysVars
  <2> QED BY <2>1, <2>2, FewerNumbers DEF Panic
<1>4. CASE Reply(s)
  <2>1. ASSUME NEW q \in Proc PROVE Numbers(q)' \subseteq Numbers(q)
    <3>1. CASE q = sysConn[s]
      <4>1. /\ conn[q] = "busy" /\ conn'[q] # "busy" /\ ret'[q] = sysRet[s]
            /\ sysPc[s] = "reply" /\ Home[q] = s /\ gid' = gid /\ req' = req
        BY <1>1, <1>4, <3>1, ProcAssumption DEF Reply, At, LinkInv, Threads, procVars
      <4> QED BY <4>1 DEF Numbers
    <3>2. CASE q # sysConn[s]
      <4>1. conn'[q] = conn[q] /\ ret'[q] = ret[q] /\ gid' = gid /\ req' = req
        BY <1>1, <1>4, <3>2 DEF Reply, procVars
      <4>2. conn[q] = "busy" => Home[q] # s
        BY <3>2 DEF LinkInv, Sessions
      <4>3. \A t \in PU : t # s => sysPc'[t] = sysPc[t] /\ sysRet'[t] = sysRet[t]
        BY <1>1, <1>4 DEF Reply
      <4> QED BY <4>1, <4>2, <4>3, ProcAssumption DEF Numbers
    <3> QED BY <3>1, <3>2
  <2> QED BY <1>4, <2>1, FewerNumbers DEF Reply, osVars
<1>5. CASE SyscallRegisterGlobal(s)
  BY <1>5, RegisterNumbers
<1>6. ASSUME UNCHANGED <<conn, ret, req, gid, sysReq, registered>>,
             sysReq[s].func # "RegisterSelfGlobal" \/ sysPc'[s] # "reply",
             \A t \in PU : t # s => sysPc'[t] = sysPc[t] /\ sysRet'[t] = sysRet[t]
      PROVE  NumbersTaken'
  <2>1. \A q \in Proc : conn[q] = "busy" => req[q] = sysReq[Home[q]] /\ Home[q] \in PU
    BY ProcAssumption DEF LinkInv, Sessions
  <2>2. ASSUME NEW q \in Proc PROVE Numbers(q)' \subseteq Numbers(q)
    <3>1. CASE Home[q] = s
      BY <1>6, <2>1, <3>1 DEF Numbers
    <3>2. CASE Home[q] # s
      BY <1>6, <2>1, <3>2 DEF Numbers
    <3> QED BY <3>1, <3>2
  <2> QED BY <1>6, <2>2, FewerNumbers
<1>7. CASE \/ SyscallFifoInit(s) \/ FifoInitInsert(s) \/ SyscallFifoRead(s)
           \/ SyscallGspawn(s) \/ SyscallFifoConnect(s) \/ FifoConnectAnswer(s)
  <2>1. UNCHANGED <<conn, ret, req, gid, sysReq, registered>>
    BY <1>7 DEF SyscallFifoInit, FifoInitInsert, SyscallFifoRead, SyscallGspawn,
       SyscallFifoConnect, FifoConnectAnswer, Result, Goto, DsmCall, procVars, osVars
  <2>2. sysReq[s].func # "RegisterSelfGlobal"
    BY <1>7 DEF SyscallFifoInit, FifoInitInsert, SyscallFifoRead, SyscallGspawn,
       SyscallFifoConnect, FifoConnectAnswer, Handling, At, LinkInv, Threads
  <2>3. \A t \in PU : t # s => sysPc'[t] = sysPc[t] /\ sysRet'[t] = sysRet[t]
    BY <1>1, <1>7 DEF SyscallFifoInit, FifoInitInsert, SyscallFifoRead, SyscallGspawn,
       SyscallFifoConnect, FifoConnectAnswer, Result, Goto, DsmCall
  <2> QED BY <1>6, <2>1, <2>2, <2>3
<1>8. CASE \/ SyscallFifoWrite(s) \/ FifoWriteAnswer(s) \/ SysOpenFifo(s)
           \/ SysWriteFifo(s)
  <2>1. UNCHANGED <<conn, ret, req, gid, sysReq, registered>>
    BY <1>8 DEF SyscallFifoWrite, FifoWriteAnswer, SysOpenFifo, SysWriteFifo,
       Result, Goto, DsmCall, procVars, osVars
  <2>2. sysReq[s].func # "RegisterSelfGlobal"
    BY <1>8 DEF SyscallFifoWrite, FifoWriteAnswer, SysOpenFifo, SysWriteFifo, Handling,
       At, LinkInv, Threads
  <2>3. \A t \in PU : t # s => sysPc'[t] = sysPc[t] /\ sysRet'[t] = sysRet[t]
    BY <1>1, <1>8 DEF SyscallFifoWrite, FifoWriteAnswer, SysOpenFifo, SysWriteFifo,
       Result, Goto, DsmCall
  <2> QED BY <1>6, <2>1, <2>2, <2>3
<1>9. CASE DsmNext(s)
  <2>1. \A q \in Proc : Numbers(q)' = Numbers(q)
    BY <1>9 DEF DsmNext, DsmHandlers, DsmOpenFifo, DsmWriteFifo, Numbers, procVars,
       sysVars
  <2>2. registered' = registered
    BY <1>9 DEF DsmNext, DsmHandlers, DsmOpenFifo, DsmWriteFifo, osVars
  <2> QED BY <2>1, <2>2, FewerNumbers
<1> QED BY <1>2, <1>3, <1>4, <1>5, <1>7, <1>8, <1>9 DEF OsNext, SysHandler

\* Every step keeps the numbers apart.
LEMMA NumbersStep == ASSUME LinkInv, NumbersTaken, [Next]_vars PROVE NumbersTaken'
<1>1. CASE UNCHANGED vars
  BY <1>1 DEF NumbersTaken, Numbers, vars, osVars, sysVars, procVars
<1> QED BY <1>1, ProcNumbers, OsNumbers DEF Next

\* The numbers that processes have or are about to get are taken and distinct.
LEMMA NumbersInvariant == Spec => []NumbersTaken
<1>1. Init => NumbersTaken
  BY Ids DEF Init, NumbersTaken, Numbers
<1>2. LinkInv /\ NumbersTaken /\ [Next]_vars => NumbersTaken'
  BY NumbersStep
<1> QED BY <1>1, <1>2, LinkInvariant, PTL DEF Spec

\* No two processes of a PU share a segment, also after processes were killed,
\* and whatever handler ran again for a socket that was reset.
THEOREM PrivateSegments == Spec => []SegmentsPrivate
<1>1. LinkInv /\ NumbersTaken => SegmentsPrivate
  BY DEF LinkInv, TypeOK, ProcTypeOK, NumbersTaken, Numbers, SegmentsPrivate
<1> QED BY <1>1, LinkInvariant, NumbersInvariant, PTL

-----------------------------------------------------------------------------
(* Streams: what fifo_read, the threads and the death of a reader do to    *)
(* the messages that have come through a pipe.                             *)

\* fifo_read moves the head of the pipe behind what was read before.
LEMMA MoveHead ==
  ASSUME NEW S, NEW a \in Seq(S), NEW b \in Seq(S), b # <<>>
  PROVE  Append(a, Head(b)) \o Tail(b) = a \o b
<1> DEFINE x == Append(a, Head(b))
<1>1. /\ x \in Seq(S) /\ Len(x) = Len(a) + 1 /\ Len(a) \in Nat
      /\ \A i \in 1 .. Len(a) : x[i] = a[i]
      /\ x[Len(a) + 1] = b[1]
  <2>1. Head(b) \in S /\ Head(b) = b[1]
    BY HeadTailProperties
  <2> QED BY <2>1, AppendProperties
<1>2. /\ Tail(b) \in Seq(S) /\ Len(Tail(b)) = Len(b) - 1
      /\ Len(b) \in Nat \ {0}
      /\ \A i \in 1 .. Len(b) - 1 : Tail(b)[i] = b[i + 1]
  BY HeadTailProperties, EmptySeq
<1> HIDE DEF x
<1>3. /\ x \o Tail(b) \in Seq(S) /\ Len(x \o Tail(b)) = Len(a) + Len(b)
      /\ \A i \in 1 .. Len(a) + Len(b) :
           (x \o Tail(b))[i] = IF i <= Len(a) + 1 THEN x[i] ELSE Tail(b)[i - (Len(a) + 1)]
  <2>1. Len(x) + Len(Tail(b)) = Len(a) + Len(b)
    BY <1>1, <1>2
  <2>2. /\ x \o Tail(b) \in Seq(S) /\ Len(x \o Tail(b)) = Len(x) + Len(Tail(b))
        /\ \A i \in 1 .. Len(x) + Len(Tail(b)) :
             (x \o Tail(b))[i] = IF i <= Len(x) THEN x[i] ELSE Tail(b)[i - Len(x)]
    BY <1>1, <1>2, ConcatProperties
  <2> QED BY <1>1, <2>1, <2>2
<1>4. /\ a \o b \in Seq(S) /\ Len(a \o b) = Len(a) + Len(b)
      /\ \A i \in 1 .. Len(a) + Len(b) :
           (a \o b)[i] = IF i <= Len(a) THEN a[i] ELSE b[i - Len(a)]
  BY ConcatProperties
<1>5. ASSUME NEW i \in 1 .. Len(a) + Len(b) PROVE (x \o Tail(b))[i] = (a \o b)[i]
  <2>1. CASE i <= Len(a)
    BY <1>1, <1>2, <1>3, <1>4, <2>1
  <2>2. CASE i = Len(a) + 1
    BY <1>1, <1>2, <1>3, <1>4, <2>2
  <2>3. CASE i > Len(a) + 1
    <3>1. /\ i - (Len(a) + 1) \in 1 .. Len(b) - 1
          /\ (i - (Len(a) + 1)) + 1 = i - Len(a)
      BY <1>1, <1>2, <2>3
    <3> QED BY <1>1, <1>2, <1>3, <1>4, <2>3, <3>1
  <2> QED BY <1>1, <1>2, <2>1, <2>2, <2>3
<1>6. x \o Tail(b) = a \o b
  BY <1>3, <1>4, <1>5, SeqEqual
<1> QED BY <1>6 DEF x

\* What is appended to the pipe comes last.
LEMMA AppendBehind ==
  ASSUME NEW S, NEW a \in Seq(S), NEW b \in Seq(S), NEW m \in S
  PROVE  a \o Append(b, m) = Append(a \o b, m)
<1>1. <<m>> \in Seq(S) /\ a \o b \in Seq(S)
  BY ConcatProperties
<1>2. Append(b, m) = b \o <<m>> /\ Append(a \o b, m) = (a \o b) \o <<m>>
  BY <1>1, AppendIsConcat
<1> QED BY <1>1, <1>2, ConcatAssociative

\* A sequence is the front of what is made by appending to it.
LEMMA FrontStays ==
  ASSUME NEW S, NEW a \in Seq(S), NEW b \in Seq(S), NEW i \in DOMAIN a
  PROVE  i \in DOMAIN (a \o b) /\ (a \o b)[i] = a[i]
<1>1. DOMAIN a = 1 .. Len(a) /\ Len(a) \in Nat /\ Len(b) \in Nat
  BY LenProperties
<1>2. /\ a \o b \in Seq(S) /\ Len(a \o b) = Len(a) + Len(b)
      /\ \A k \in 1 .. Len(a) + Len(b) :
           (a \o b)[k] = IF k <= Len(a) THEN a[k] ELSE b[k - Len(a)]
  BY ConcatProperties
<1>3. DOMAIN (a \o b) = 1 .. Len(a) + Len(b)
  BY <1>2, LenProperties
<1>4. i \in 1 .. Len(a) + Len(b) /\ i <= Len(a)
  BY <1>1
<1> QED BY <1>2, <1>3, <1>4

\* Streams hold messages.
LEMMA StreamTypes ==
  ASSUME LinkInv
  PROVE  \A l \in Proc :
           /\ rcvd[l] \in Seq(Message) /\ pipe[l] \in Seq(Message)
           /\ Stream(l) \in Seq(Message) /\ Len(Stream(l)) \in Nat
           /\ DOMAIN Stream(l) = 1 .. Len(Stream(l))
           /\ \A k \in DOMAIN Stream(l) : Stream(l)[k] \in Message
<1> SUFFICES ASSUME NEW l \in Proc
             PROVE  /\ rcvd[l] \in Seq(Message) /\ pipe[l] \in Seq(Message)
                    /\ Stream(l) \in Seq(Message) /\ Len(Stream(l)) \in Nat
                    /\ DOMAIN Stream(l) = 1 .. Len(Stream(l))
                    /\ \A k \in DOMAIN Stream(l) : Stream(l)[k] \in Message
  OBVIOUS
<1>1. rcvd[l] \in Seq(Message) /\ pipe[l] \in Seq(Message)
  BY DEF LinkInv, TypeOK, ProcTypeOK
<1>2. Stream(l) \in Seq(Message)
  BY <1>1, ConcatProperties DEF Stream
<1> QED BY <1>1, <1>2, LenProperties

\* A message's number is one.
LEMMA MessageNumbers == \A m \in Message : m.n \in Nat
<1>1. NoMsg.n \in Nat /\ 1 .. MaxWrites \subseteq Nat
  BY DEF NoMsg
<1> QED BY <1>1 DEF Message

\* Order, in terms of the streams.
LEMMA OrderOfStreams ==
  OrderedDelivery <=> \A l \in Proc : \A j, k \in DOMAIN Stream(l) :
    j < k /\ Stream(l)[j].src = Stream(l)[k].src => Stream(l)[j].n < Stream(l)[k].n
BY DEF OrderedDelivery, Stream

\* The same of the state after a step.
LEMMA OrderOfNextStreams ==
  OrderedDelivery' <=> \A l \in Proc : \A j, k \in DOMAIN Stream(l)' :
    j < k /\ Stream(l)'[j].src = Stream(l)'[k].src => Stream(l)'[j].n < Stream(l)'[k].n
BY DEF OrderedDelivery, Stream

\* The same streams are in time and in order, when no write becomes pending
\* but the next one of its process.
LEMMA SameStreams ==
  ASSUME LinkInv, InTime, OrderedDelivery,
         \A l \in Proc : Stream(l)' = Stream(l),
         \A p \in Proc : /\ writes'[p] >= writes[p] /\ writes'[p] \in Nat
                         /\ Pending(p)' => Pending(p) \/ writes'[p] > writes[p]
  PROVE  InTime' /\ OrderedDelivery'
<1>1. ASSUME NEW l \in Proc, NEW k \in DOMAIN Stream(l)
      PROVE  \E p \in Proc : /\ Stream(l)[k].src = p
                             /\ Stream(l)[k].n <= writes'[p]
                             /\ Pending(p)' => Stream(l)[k].n < writes'[p]
  <2>1. PICK m \in Message : m = Stream(l)[k]
    BY StreamTypes
  <2>2. PICK p \in Proc : /\ m.src = p
                          /\ m.n <= writes[p]
                          /\ Pending(p) => m.n < writes[p]
    BY <2>1 DEF InTime
  <2>3. writes[p] \in Nat /\ m.n \in Nat
    BY MessageNumbers DEF LinkInv, TypeOK, ProcTypeOK
  <2>4. m.n <= writes'[p] /\ (Pending(p)' => m.n < writes'[p])
    BY <2>2, <2>3
  <2> QED BY <2>1, <2>2, <2>4
<1>2. InTime'
  BY <1>1 DEF InTime
<1>3. OrderedDelivery'
  BY DEF OrderedDelivery, Stream
<1> QED BY <1>2, <1>3

\* A message that is appended to a pipe while its write is pending, and that
\* is the last its process wrote, is in time and in order.
LEMMA StreamGrows ==
  ASSUME LinkInv, InTime, OrderedDelivery,
         NEW l, NEW p \in Proc, NEW m \in Message, m.src = p, m.n = writes[p],
         Pending(p), ~Pending(p)',
         pipe' = [pipe EXCEPT ![l] = Append(@, m)],
         rcvd' = rcvd, writes' = writes,
         \A q \in Proc : Pending(q)' => Pending(q)
  PROVE  /\ InTime' /\ OrderedDelivery'
         /\ l \in Proc => Stream(l)' = Append(Stream(l), m)
         /\ \A o \in Proc : o # l => Stream(o)' = Stream(o)
<1>1. pipe \in [Proc -> Seq(Message)]
  BY DEF LinkInv, TypeOK, ProcTypeOK
<1>2. \A o \in Proc : o # l => Stream(o)' = Stream(o)
  BY <1>1 DEF Stream
<1>3. ASSUME l \in Proc PROVE Stream(l)' = Append(Stream(l), m)
  <2>1. rcvd[l] \in Seq(Message) /\ pipe[l] \in Seq(Message)
    BY <1>3, StreamTypes
  <2>2. rcvd[l] \o Append(pipe[l], m) = Append(rcvd[l] \o pipe[l], m)
    <3>1. \A a, b \in Seq(Message) : a \o Append(b, m) = Append(a \o b, m)
      BY AppendBehind
    <3> QED BY <2>1, <3>1
  <2> QED BY <1>1, <1>3, <2>2 DEF Stream
<1>4. ASSUME l \in Proc
      PROVE  /\ Len(Stream(l)) \in Nat
             /\ DOMAIN Stream(l) = 1 .. Len(Stream(l))
             /\ DOMAIN Stream(l)' = 1 .. Len(Stream(l)) + 1
             /\ \A k \in 1 .. Len(Stream(l)) : Stream(l)'[k] = Stream(l)[k]
             /\ Stream(l)'[Len(Stream(l)) + 1] = m
  <2>1. /\ Stream(l) \in Seq(Message) /\ Len(Stream(l)) \in Nat
        /\ DOMAIN Stream(l) = 1 .. Len(Stream(l))
    BY <1>4, StreamTypes
  <2>2. /\ Append(Stream(l), m) \in Seq(Message)
        /\ Len(Append(Stream(l), m)) = Len(Stream(l)) + 1
        /\ \A k \in 1 .. Len(Stream(l)) : Append(Stream(l), m)[k] = Stream(l)[k]
        /\ Append(Stream(l), m)[Len(Stream(l)) + 1] = m
    BY <2>1, AppendProperties
  <2>3. DOMAIN Append(Stream(l), m) = 1 .. Len(Stream(l)) + 1
    BY <2>2, LenProperties
  <2> QED BY <1>3, <1>4, <2>1, <2>2, <2>3
<1>5. ASSUME NEW o \in Proc, NEW k \in DOMAIN Stream(o)'
      PROVE  \/ k \in DOMAIN Stream(o) /\ Stream(o)'[k] = Stream(o)[k]
             \/ o = l /\ k = Len(Stream(o)) + 1 /\ Stream(o)'[k] = m
  <2>1. CASE o = l
    BY <1>4, <1>5, <2>1
  <2>2. CASE o # l
    BY <1>2, <1>5, <2>2
  <2> QED BY <2>1, <2>2
<1>6. ASSUME NEW o \in Proc, NEW k \in DOMAIN Stream(o)
      PROVE  LET x == Stream(o)[k]
             IN  /\ x \in Message /\ x.n \in Nat
                 /\ x.src \in Proc /\ x.n <= writes[x.src]
                 /\ Pending(x.src) => x.n < writes[x.src]
  BY <1>6, StreamTypes, MessageNumbers DEF InTime
<1>7. InTime'
  <2>1. ASSUME NEW o \in Proc, NEW k \in DOMAIN Stream(o)'
        PROVE  \E q \in Proc : /\ Stream(o)'[k].src = q
                               /\ Stream(o)'[k].n <= writes'[q]
                               /\ Pending(q)' => Stream(o)'[k].n < writes'[q]
    <3>1. CASE k \in DOMAIN Stream(o) /\ Stream(o)'[k] = Stream(o)[k]
      <4>1. PICK q \in Proc : /\ Stream(o)[k].src = q
                              /\ Stream(o)[k].n <= writes[q]
                              /\ Pending(q) => Stream(o)[k].n < writes[q]
        BY <1>6, <3>1
      <4> QED BY <3>1, <4>1
    <3>2. CASE Stream(o)'[k] = m
      BY <3>2, MessageNumbers
    <3> QED BY <1>5, <2>1, <3>1, <3>2
  <2> QED BY <2>1 DEF InTime
<1>8. OrderedDelivery'
  <2> SUFFICES ASSUME NEW o \in Proc, NEW j \in DOMAIN Stream(o)',
                      NEW k \in DOMAIN Stream(o)', j < k,
                      Stream(o)'[j].src = Stream(o)'[k].src
               PROVE  Stream(o)'[j].n < Stream(o)'[k].n
    BY OrderOfNextStreams
  <2>1. CASE /\ k \in DOMAIN Stream(o) /\ Stream(o)'[k] = Stream(o)[k]
             /\ j \in DOMAIN Stream(o) /\ Stream(o)'[j] = Stream(o)[j]
    BY <2>1, OrderOfStreams
  <2>2. CASE /\ k = Len(Stream(o)) + 1 /\ Stream(o)'[k] = m
             /\ j \in DOMAIN Stream(o) /\ Stream(o)'[j] = Stream(o)[j]
    BY <1>6, <2>2
  <2>3. CASE j = Len(Stream(o)) + 1 /\ o = l
    <3>1. k <= j
      BY <1>4, <2>3
    <3> QED BY <1>4, <2>3, <3>1
  <2> QED BY <1>5, <2>1, <2>2, <2>3
<1> QED BY <1>2, <1>3, <1>7, <1>8

\* The death of a reader takes what is in its pipe away, and nothing else.
LEMMA DieStream ==
  ASSUME LinkInv, NEW p \in Proc, Die(p), NEW l \in Proc, NEW k \in DOMAIN Stream(l)'
  PROVE  k \in DOMAIN Stream(l) /\ Stream(l)'[k] = Stream(l)[k]
<1>1. /\ pipe \in [Proc -> Seq(Message)] /\ pipe' = [pipe EXCEPT ![p] = <<>>]
      /\ rcvd' = rcvd
  BY DEF LinkInv, TypeOK, ProcTypeOK, Die
<1>2. CASE l # p
  BY <1>1, <1>2 DEF Stream
<1>3. CASE l = p
  <2>1. Stream(l)' = rcvd[l]
    BY <1>1, <1>3, StreamTypes, ConcatEmptySeq DEF Stream
  <2>2. /\ rcvd[l] \in Seq(Message) /\ pipe[l] \in Seq(Message)
        /\ k \in DOMAIN rcvd[l]
    BY <2>1, StreamTypes
  <2>3. \A a, b \in Seq(Message) : \A i \in DOMAIN a :
          i \in DOMAIN (a \o b) /\ (a \o b)[i] = a[i]
    BY FrontStays
  <2>4. k \in DOMAIN Stream(l) /\ Stream(l)[k] = rcvd[l][k]
    BY <2>2, <2>3 DEF Stream
  <2> QED BY <2>1, <2>4
<1> QED BY <1>2, <1>3

\* fifo_read moves a message along its stream.
LEMMA FifoReadStream ==
  ASSUME LinkInv, NEW p \in Proc, FifoRead(p), NEW l \in Proc
  PROVE  Stream(l)' = Stream(l)
<1>1. pipe \in [Proc -> Seq(Message)] /\ rcvd \in [Proc -> Seq(Message)]
  BY DEF LinkInv, TypeOK, ProcTypeOK
<1>2. CASE l = p
  <2>1. \A a, b \in Seq(Message) : b # <<>> => Append(a, Head(b)) \o Tail(b) = a \o b
    BY MoveHead
  <2>2. Append(rcvd[p], Head(pipe[p])) \o Tail(pipe[p]) = rcvd[p] \o pipe[p]
    BY <1>1, <2>1 DEF FifoRead
  <2>3. rcvd'[p] = Append(rcvd[p], Head(pipe[p])) /\ pipe'[p] = Tail(pipe[p])
    BY <1>1 DEF FifoRead
  <2> QED BY <1>2, <2>2, <2>3 DEF Stream
<1>3. CASE l # p
  BY <1>1, <1>3 DEF FifoRead, Stream
<1> QED BY <1>2, <1>3

-----------------------------------------------------------------------------
(* A message on its way: one lemma per step, or per kind of step.          *)

\* The thread that works on a write has the last message of the process it
\* serves in the segment.
LEMMA OutgoingOf ==
  ASSUME LinkInv, Serving, Carried, NEW s \in PU, sysPc[s] # "epoll",
         sysReq[s].func = "FIFO_WRITE"
  PROVE  \E p \in Proc :
           /\ p = sysConn[s] /\ Home[p] = s /\ conn[p] = "busy" /\ req[p] = sysReq[s]
           /\ sysReq[s].shmid = gid[p] /\ gid[p] \in Pid
           /\ Outgoing(s) = shm[Home[p]][gid[p]] /\ Outgoing(s) \in Message
           /\ Outgoing(s).src = p /\ Outgoing(s).n = writes[p]
           /\ Outgoing(s).blank \in Blanks
           /\ <<Outgoing(s).dst, sysReq[s].id>> \in fds[p]
<1>1. PICK p \in Proc : p = sysConn[s] /\ Home[p] = s /\ conn[p] = "busy"
  BY DEF Serving
<1>2. req[p] = sysReq[s]
  BY <1>1 DEF LinkInv, Sessions
<1>3. gid[p] \in Pid
  BY <1>2 DEF LinkInv, Requests
<1>4. shm[Home[p]][gid[p]] \in Message
  BY <1>1, <1>3 DEF LinkInv, TypeOK, OsTypeOK
<1>5. /\ sysReq[s].shmid = gid[p]
      /\ shm[Home[p]][gid[p]].src = p /\ shm[Home[p]][gid[p]].n = writes[p]
      /\ shm[Home[p]][gid[p]].blank \in Blanks
      /\ <<shm[Home[p]][gid[p]].dst, sysReq[s].id>> \in fds[p]
  BY <1>2 DEF Carried
<1>6. Outgoing(s) = shm[Home[p]][gid[p]]
  BY <1>1, <1>5 DEF Outgoing
<1> QED BY <1>1, <1>2, <1>3, <1>4, <1>5, <1>6

\* The DSM thread that works on a write has that message of the other PU.
LEMMA IncomingOf ==
  ASSUME LinkInv, Serving, Coupled, Carried, Travelling, NEW s \in PU,
         dsmPc[s] # "idle", dsmReq[s].func = "FIFO_WRITE"
  PROVE  /\ sysPc[Other(s)] = "dsm_call" /\ sysReq[Other(s)] = dsmReq[s]
         /\ \E p \in Proc :
              /\ p = sysConn[Other(s)] /\ Home[p] = Other(s) /\ conn[p] = "busy"
              /\ req[p] = dsmReq[s]
              /\ dsmMsg[s].src = p /\ dsmMsg[s].n = writes[p]
              /\ <<dsmMsg[s].dst, dsmReq[s].id>> \in fds[p]
              /\ dsmMsg[s] \in {shm[Home[p]][gid[p]], Parsed(shm[Home[p]][gid[p]])}
              /\ shm[Home[p]][gid[p]].blank \in Blanks
<1>1. Other(s) \in PU /\ Other(Other(s)) = s
  BY OtherPU
<1>2. sysPc[Other(s)] = "dsm_call" /\ sysReq[Other(s)] = dsmReq[s]
  BY <1>1 DEF Coupled, LinkInv, Threads
<1>3. PICK p \in Proc :
        /\ p = sysConn[Other(s)] /\ Home[p] = Other(s) /\ conn[p] = "busy"
        /\ req[p] = sysReq[Other(s)]
        /\ Outgoing(Other(s)) = shm[Home[p]][gid[p]]
        /\ Outgoing(Other(s)).src = p /\ Outgoing(Other(s)).n = writes[p]
        /\ Outgoing(Other(s)).blank \in Blanks
        /\ <<Outgoing(Other(s)).dst, sysReq[Other(s)].id>> \in fds[p]
  BY <1>1, <1>2, OutgoingOf
<1>4. dsmMsg[s] \in {Outgoing(Other(s)), Parsed(Outgoing(Other(s)))}
  BY DEF Travelling
<1>5. /\ dsmMsg[s].src = Outgoing(Other(s)).src
      /\ dsmMsg[s].n = Outgoing(Other(s)).n
      /\ dsmMsg[s].dst = Outgoing(Other(s)).dst
  BY <1>4 DEF Parsed
<1> QED BY <1>2, <1>3, <1>4, <1>5

\* What the invariant is about.
flight == <<sysPc, sysConn, sysReq, conn, dsmPc, dsmReq, dsmMsg, req, shm, gid, writes,
            fds, rcvd, pipe>>

\* A step that touches none of it.
LEMMA FlightFrame == ASSUME FlightInv, UNCHANGED flight PROVE FlightInv'
<1> USE DEF FlightInv, flight
<1>1. Serving' /\ Coupled' /\ Carried' /\ Travelling'
  BY DEF Serving, Coupled, Carried, Travelling, Outgoing
<1>2. \A p \in Proc : Stream(p)' = Stream(p) /\ Pending(p)' = Pending(p)
  BY DEF Stream, Pending
<1>3. InTime'
  BY <1>2 DEF InTime
<1>4. OrderedDelivery'
  BY <1>2, OrderOfStreams, OrderOfNextStreams
<1> QED BY <1>1, <1>3, <1>4

\* A process sends a request that is not a write.
LEMMA SendFlight ==
  ASSUME LinkInv, FlightInv, NEW p \in Proc, NEW r, Send(p, r), r.func # "FIFO_WRITE",
         UNCHANGED <<sysVars, dsmVars, gid, shm, fds, writes, rcvd, pipe>>
  PROVE  FlightInv'
<1> USE DEF FlightInv, Send, sysVars, dsmVars
<1>1. /\ conn \in [Proc -> ConnSt] /\ req \in [Proc -> Request]
      /\ writes \in [Proc -> 0 .. MaxWrites]
  BY DEF LinkInv, TypeOK, ProcTypeOK
<1>2. /\ conn[p] # "busy" /\ \A q \in Proc : q # p => conn'[q] = conn[q]
      /\ req'[p] = r /\ \A q \in Proc : q # p => req'[q] = req[q]
  BY <1>1 DEF LinkInv, Sessions
<1>3. Serving'
  BY <1>2 DEF Serving
<1>4. Coupled' /\ Travelling'
  BY DEF Coupled, Travelling, Outgoing
<1>5. Carried'
  BY <1>2 DEF Carried
<1>6. ASSUME NEW q \in Proc, Pending(q)' PROVE Pending(q)
  BY <1>2, <1>6 DEF Pending
<1>7. InTime' /\ OrderedDelivery'
  BY <1>1, <1>6, SameStreams DEF Stream
<1> QED BY <1>3, <1>4, <1>5, <1>7

\* global_fifo_write: the segment gets the next message, which no one else's
\* request names.
LEMMA GlobalFifoWriteFlight ==
  ASSUME LinkInv, NumbersTaken, FlightInv, NEW p \in Proc, GlobalFifoWrite(p)
  PROVE  FlightInv'
<1> USE DEF FlightInv
<1>1. PICK f \in fds[p], l \in Lens, b \in Blanks :
        /\ shm' = [shm EXCEPT ![Home[p]][gid[p]] =
                     [src |-> p, dst |-> f[1], n |-> writes[p] + 1, len |-> l,
                      blank |-> b]]
        /\ Send(p, Args("FIFO_WRITE", f[2], -1, NoProc, gid[p]))
  BY DEF GlobalFifoWrite
<1>2. /\ conn \in [Proc -> ConnSt] /\ req \in [Proc -> Request]
      /\ writes \in [Proc -> 0 .. MaxWrites] /\ shm \in [PU -> [Pid -> Message]]
      /\ gid \in [Proc -> Pid \cup {-1}] /\ gid[p] \in Pid /\ Home[p] \in PU
      /\ fds[p] \subseteq Uuid \X Int
  BY ProcAssumption DEF LinkInv, TypeOK, ProcTypeOK, OsTypeOK, GlobalFifoWrite
<1>3. /\ UNCHANGED <<sysPc, sysConn, sysReq, dsmPc, dsmReq, dsmMsg, gid, fds, rcvd, pipe>>
      /\ writes' = [writes EXCEPT ![p] = @ + 1]
  BY DEF GlobalFifoWrite, sysVars, dsmVars
<1>4. /\ conn[p] # "busy" /\ conn'[p] = "request"
      /\ \A q \in Proc : q # p => conn'[q] = conn[q]
      /\ req'[p] = Args("FIFO_WRITE", f[2], -1, NoProc, gid[p])
      /\ \A q \in Proc : q # p => req'[q] = req[q]
  BY <1>1, <1>2 DEF Send, LinkInv, Sessions
<1>5. ASSUME NEW q \in Proc, q # p, req[q].func = "FIFO_WRITE"
      PROVE  shm'[Home[q]][gid[q]] = shm[Home[q]][gid[q]]
  <2>1. gid[q] \in Pid /\ Home[q] \in PU
    BY <1>5, ProcAssumption DEF LinkInv, Requests
  <2>2. Home[q] # Home[p] \/ gid[q] # gid[p]
    BY <1>2, <1>5, <2>1 DEF NumbersTaken, Numbers
  <2> QED BY <1>1, <1>2, <2>1, <2>2
<1>6. shm'[Home[p]][gid[p]] = [src |-> p, dst |-> f[1], n |-> writes[p] + 1, len |-> l,
                               blank |-> b]
  BY <1>1, <1>2
<1>7. Serving'
  BY <1>3, <1>4 DEF Serving
<1>8. Coupled'
  BY <1>3 DEF Coupled
<1>9. Carried'
  <2>1. ASSUME NEW q \in Proc, q # p, req'[q].func = "FIFO_WRITE"
        PROVE  LET m == shm'[Home[q]][gid'[q]]
               IN  /\ req'[q].shmid = gid'[q]
                   /\ m.src = q
                   /\ m.n = writes'[q]
                   /\ m.blank \in Blanks
                   /\ <<m.dst, req'[q].id>> \in fds'[q]
    <3>1. req'[q] = req[q] /\ gid' = gid /\ fds' = fds /\ writes'[q] = writes[q]
      BY <1>2, <1>3, <1>4, <2>1
    <3>2. shm'[Home[q]][gid[q]] = shm[Home[q]][gid[q]]
      BY <1>5, <2>1, <3>1
    <3> QED BY <2>1, <3>1, <3>2 DEF Carried
  <2>2. LET m == shm'[Home[p]][gid'[p]]
        IN  /\ req'[p].shmid = gid'[p]
            /\ m.src = p
            /\ m.n = writes'[p]
            /\ m.blank \in Blanks
            /\ <<m.dst, req'[p].id>> \in fds'[p]
    <3>1. f = <<f[1], f[2]>>
      BY <1>2
    <3> QED BY <1>2, <1>3, <1>4, <1>6, <3>1 DEF Args
  <2> QED BY <2>1, <2>2 DEF Carried
<1>10. Travelling'
  <2>1. ASSUME NEW s \in PU, dsmPc[s] # "idle", dsmReq[s].func = "FIFO_WRITE"
        PROVE  Outgoing(Other(s))' = Outgoing(Other(s))
    <3>1. sysPc[Other(s)] = "dsm_call" /\ sysReq[Other(s)] = dsmReq[s] /\ Other(s) \in PU
      BY <2>1, OtherPU, IncomingOf
    <3>2. PICK q \in Proc :
            /\ conn[q] = "busy" /\ req[q] = sysReq[Other(s)] /\ Home[q] = Other(s)
            /\ sysReq[Other(s)].shmid = gid[q]
      <4>1. PICK t \in PU : /\ t = Other(s)
                            /\ sysPc[t] # "epoll" /\ sysReq[t].func = "FIFO_WRITE"
        BY <2>1, <3>1
      <4>2. Serving /\ Carried
        OBVIOUS
      <4>3. \E q \in Proc :
              /\ conn[q] = "busy" /\ req[q] = sysReq[t] /\ Home[q] = t
              /\ sysReq[t].shmid = gid[q]
        BY <4>1, <4>2, OutgoingOf
      <4> QED BY <4>1, <4>3
    <3> QED BY <1>3, <1>4, <1>5, <2>1, <3>1, <3>2 DEF Outgoing
  <2> QED BY <1>3, <2>1 DEF Travelling
<1>11. InTime' /\ OrderedDelivery'
  <2>1. ASSUME NEW q \in Proc
        PROVE  /\ writes'[q] >= writes[q] /\ writes'[q] \in Nat
               /\ Pending(q)' => Pending(q) \/ writes'[q] > writes[q]
    <3>1. CASE q = p
      BY <1>2, <1>3, <3>1, UseAssumption
    <3>2. CASE q # p
      <4>1. writes'[q] = writes[q] /\ writes[q] \in Nat
        BY <1>2, <1>3, <3>2, UseAssumption
      <4>2. Pending(q)' => Pending(q)
        BY <1>3, <1>4, <3>2 DEF Pending
      <4> QED BY <4>1, <4>2
    <3> QED BY <3>1, <3>2
  <2>2. \A l1 \in Proc : Stream(l1)' = Stream(l1)
    BY <1>3 DEF Stream
  <2> QED BY <2>1, <2>2, SameStreams
<1> QED BY <1>7, <1>8, <1>9, <1>10, <1>11

\* The process takes its answer.
LEMMA ReturnFlight ==
  ASSUME LinkInv, FlightInv, NEW p \in Proc, Return(p)
  PROVE  FlightInv'
<1> USE DEF FlightInv
<1>1. /\ conn \in [Proc -> ConnSt] /\ req \in [Proc -> Request]
      /\ writes \in [Proc -> 0 .. MaxWrites]
      /\ gid \in [Proc -> Pid \cup {-1}] /\ fds \in [Proc -> SUBSET (Uuid \X Int)]
  BY DEF LinkInv, TypeOK, ProcTypeOK
<1>2. UNCHANGED <<sysPc, sysConn, sysReq, dsmPc, dsmReq, dsmMsg, shm, writes, rcvd, pipe>>
  BY DEF Return, sysVars, dsmVars, osVars
<1>3. /\ conn[p] = "answer" /\ conn'[p] = "idle" /\ req'[p] = Unused
      /\ \A q \in Proc : q # p => /\ conn'[q] = conn[q] /\ req'[q] = req[q]
                                  /\ gid'[q] = gid[q] /\ fds'[q] = fds[q]
  BY <1>1 DEF Return
<1>4. Serving'
  BY <1>2, <1>3 DEF Serving
<1>5. Coupled' /\ Travelling'
  BY <1>2 DEF Coupled, Travelling, Outgoing
<1>6. Carried'
  BY <1>2, <1>3, UnusedRequest DEF Carried
<1>7. ASSUME NEW q \in Proc, Pending(q)' PROVE Pending(q)
  BY <1>2, <1>3, <1>7 DEF Pending
<1>8. InTime' /\ OrderedDelivery'
  BY <1>1, <1>2, <1>7, SameStreams DEF Stream
<1> QED BY <1>4, <1>5, <1>6, <1>8

\* fifo_read: from the pipe to the program.
LEMMA FifoReadFlight ==
  ASSUME LinkInv, FlightInv, NEW p \in Proc, FifoRead(p)
  PROVE  FlightInv'
<1> USE DEF FlightInv
<1>1. writes \in [Proc -> 0 .. MaxWrites]
  BY DEF LinkInv, TypeOK, ProcTypeOK
<1>2. UNCHANGED <<sysPc, sysConn, sysReq, conn, dsmPc, dsmReq, dsmMsg, req, shm, gid,
                  writes, fds>>
  BY DEF FifoRead, sysVars, dsmVars, osVars
<1>3. Serving' /\ Coupled' /\ Carried' /\ Travelling'
  BY <1>2 DEF Serving, Coupled, Carried, Travelling, Outgoing
<1>4. \A q \in Proc : Pending(q)' = Pending(q)
  BY <1>2 DEF Pending
<1>5. \A l \in Proc : Stream(l)' = Stream(l)
  BY FifoReadStream
<1>6. InTime' /\ OrderedDelivery'
  BY <1>1, <1>2, <1>4, <1>5, SameStreams
<1> QED BY <1>3, <1>6

\* A process is killed; its pipe is emptied.
LEMMA DieFlight ==
  ASSUME LinkInv, FlightInv, NEW p \in Proc, Die(p)
  PROVE  FlightInv'
<1> USE DEF FlightInv
<1>1. conn \in [Proc -> ConnSt]
  BY DEF LinkInv, TypeOK, ProcTypeOK
<1>2. UNCHANGED <<sysPc, sysConn, sysReq, dsmPc, dsmReq, dsmMsg, req, shm, gid, writes,
                  fds, rcvd>>
  BY DEF Die, sysVars, dsmVars, osVars
<1>3. /\ \A q \in Proc : q # p => conn'[q] = conn[q]
      /\ conn'[p] = IF conn[p] = "answer" THEN "reset" ELSE conn[p]
  BY <1>1 DEF Die
<1>4. Serving' /\ Coupled' /\ Carried' /\ Travelling'
  BY <1>2, <1>3 DEF Serving, Coupled, Carried, Travelling, Outgoing
<1>5. ASSUME NEW q \in Proc, Pending(q)' PROVE Pending(q)
  BY <1>2, <1>3, <1>5 DEF Pending
<1>6. InTime'
  <2>1. \A l \in Proc : \A k \in DOMAIN Stream(l)' :
          k \in DOMAIN Stream(l) /\ Stream(l)'[k] = Stream(l)[k]
    BY DieStream
  <2> QED BY <1>2, <1>5, <2>1 DEF InTime
<1>7. OrderedDelivery'
  BY DieStream, OrderOfStreams, OrderOfNextStreams
<1> QED BY <1>4, <1>6, <1>7

\* epoll_wait reports a socket with a request, or one that was closed.
LEMMA ReceiveFlight ==
  ASSUME LinkInv, FlightInv, NoReset, NEW s \in PU, NEW p \in Proc,
         Receive(s, p) \/ ReceiveEof(s, p) \/ ReceiveError(s, p)
  PROVE  FlightInv'
<1> USE DEF FlightInv
<1>1. /\ conn \in [Proc -> ConnSt] /\ writes \in [Proc -> 0 .. MaxWrites]
      /\ sysPc \in [PU -> SysPc] /\ sysConn \in [PU -> Proc \cup {NoProc}]
      /\ sysReq \in [PU -> Request]
  BY DEF LinkInv, TypeOK, ProcTypeOK, ThreadTypeOK
<1>2. ~ReceiveError(s, p)
  BY DEF NoReset, ReceiveError
<1>3. UNCHANGED <<dsmPc, dsmReq, dsmMsg, req, shm, gid, writes, fds, rcvd, pipe>>
  BY <1>2 DEF Receive, ReceiveEof, dsmVars, osVars, procVars
<1>4. \A l \in Proc : Stream(l)' = Stream(l)
  BY <1>3 DEF Stream
<1>5. CASE Receive(s, p)
  <2>1. /\ sysPc[s] = "epoll" /\ conn[p] = "request" /\ Home[p] = s
        /\ conn'[p] = "busy" /\ \A q \in Proc : q # p => conn'[q] = conn[q]
        /\ sysPc'[s] = "dispatch" /\ sysConn'[s] = p /\ sysReq'[s] = req[p]
        /\ \A t \in PU : t # s => /\ sysPc'[t] = sysPc[t] /\ sysConn'[t] = sysConn[t]
                                  /\ sysReq'[t] = sysReq[t]
    BY <1>1, <1>5 DEF Receive, At
  <2>2. Serving'
    BY <2>1 DEF Serving
  <2>3. \A t \in PU : sysPc'[t] = "dsm_call" <=> sysPc[t] = "dsm_call"
    BY <2>1
  <2>4. Coupled'
    BY <1>3, <2>3, OtherPU DEF Coupled
  <2>5. Carried'
    BY <1>3 DEF Carried
  <2>6. ASSUME NEW t \in PU, dsmPc[t] # "idle"
        PROVE  Outgoing(Other(t))' = Outgoing(Other(t))
    BY <1>3, <2>1, <2>6, OtherPU DEF Coupled, Outgoing
  <2>7. Travelling'
    BY <1>3, <2>6 DEF Travelling
  <2>8. ASSUME NEW q \in Proc, Pending(q)' PROVE Pending(q)
    <3>1. q # p => (conn[q] = "busy" => Home[q] # s /\ Home[q] \in PU)
      BY <2>1, ProcAssumption DEF LinkInv, Sessions
    <3> QED BY <1>3, <2>1, <2>8, <3>1 DEF Pending
  <2>9. InTime' /\ OrderedDelivery'
    BY <1>1, <1>3, <1>4, <2>8, SameStreams
  <2> QED BY <2>2, <2>4, <2>5, <2>7, <2>9
<1>6. CASE ReceiveEof(s, p)
  <2>1. /\ UNCHANGED <<sysPc, sysConn, sysReq>>
        /\ conn[p] = "idle" /\ conn'[p] = "closed"
        /\ \A q \in Proc : q # p => conn'[q] = conn[q]
    BY <1>1, <1>6 DEF ReceiveEof, sysVars
  <2>2. Serving' /\ Coupled' /\ Carried' /\ Travelling'
    BY <1>3, <2>1 DEF Serving, Coupled, Carried, Travelling, Outgoing
  <2>3. ASSUME NEW q \in Proc, Pending(q)' PROVE Pending(q)
    BY <1>3, <2>1, <2>3 DEF Pending
  <2>4. InTime' /\ OrderedDelivery'
    BY <1>1, <1>3, <1>4, <2>3, SameStreams
  <2> QED BY <2>2, <2>4
<1> QED BY <1>2, <1>5, <1>6

\* The answer is written.
LEMMA ReplyFlight ==
  ASSUME LinkInv, FlightInv, NEW s \in PU, Reply(s)
  PROVE  FlightInv'
<1> USE DEF FlightInv
<1>1. /\ conn \in [Proc -> ConnSt] /\ writes \in [Proc -> 0 .. MaxWrites]
      /\ sysPc \in [PU -> SysPc] /\ sysConn \in [PU -> Proc \cup {NoProc}]
  BY DEF LinkInv, TypeOK, ProcTypeOK, ThreadTypeOK
<1>2. UNCHANGED <<sysReq, dsmPc, dsmReq, dsmMsg, req, shm, gid, writes, fds, rcvd, pipe>>
  BY DEF Reply, dsmVars, osVars, procVars
<1>3. PICK p \in Proc : p = sysConn[s] /\ Home[p] = s /\ conn[p] = "busy"
  BY DEF Reply, At, Serving
<1>4. /\ sysPc[s] = "reply" /\ sysPc'[s] = "epoll"
      /\ conn'[p] # "busy" /\ conn'[p] # "request"
      /\ \A q \in Proc : q # p => conn'[q] = conn[q]
      /\ \A t \in PU : t # s => sysPc'[t] = sysPc[t] /\ sysConn'[t] = sysConn[t]
  BY <1>1, <1>3 DEF Reply, At
<1>5. Serving'
  BY <1>3, <1>4 DEF Serving
<1>6. Coupled'
  <2>1. \A t \in PU : sysPc'[t] = "dsm_call" <=> sysPc[t] = "dsm_call"
    BY <1>4
  <2> QED BY <1>2, <2>1, OtherPU DEF Coupled
<1>7. Carried' /\ Travelling'
  BY <1>2 DEF Carried, Travelling, Outgoing
<1>8. ASSUME NEW q \in Proc, Pending(q)' PROVE Pending(q)
  <2>1. q # p => (conn[q] = "busy" => Home[q] # s /\ Home[q] \in PU)
    BY <1>3, ProcAssumption DEF LinkInv, Sessions
  <2> QED BY <1>2, <1>4, <1>8, <2>1 DEF Pending
<1>9. InTime' /\ OrderedDelivery'
  BY <1>1, <1>2, <1>8, SameStreams DEF Stream
<1> QED BY <1>5, <1>6, <1>7, <1>9

\* The SYSCALL thread goes on, inside its own PU; a write is not done with.
LEMMA LocalFlight ==
  ASSUME LinkInv, FlightInv, NEW s \in PU, sysPc[s] \in {"dispatch", "insert", "open"},
         \A t \in PU : t # s => sysPc'[t] = sysPc[t],
         sysPc'[s] \in {"insert", "open", "write", "reply"},
         sysReq[s].func = "FIFO_WRITE" => sysPc'[s] # "reply",
         UNCHANGED <<sysConn, sysReq, conn, dsmPc, dsmReq, dsmMsg, req, shm, gid,
                     writes, fds, rcvd, pipe>>
  PROVE  FlightInv'
<1> USE DEF FlightInv
<1>1. writes \in [Proc -> 0 .. MaxWrites]
  BY DEF LinkInv, TypeOK, ProcTypeOK
<1>2. Serving'
  BY DEF Serving
<1>3. Coupled'
  <2>1. \A t \in PU : sysPc'[t] = "dsm_call" <=> sysPc[t] = "dsm_call"
    OBVIOUS
  <2> QED BY <2>1, OtherPU DEF Coupled
<1>4. Carried' /\ Travelling'
  BY DEF Carried, Travelling, Outgoing
<1>5. ASSUME NEW q \in Proc, Pending(q)' PROVE Pending(q)
  <2>1. conn[q] = "busy" => req[q] = sysReq[Home[q]] /\ Home[q] \in PU
    BY ProcAssumption DEF LinkInv, Sessions
  <2>2. CASE conn[q] = "busy" /\ Home[q] = s
    BY <1>5, <2>1, <2>2 DEF Pending
  <2>3. CASE conn[q] = "busy" /\ Home[q] # s
    BY <1>5, <2>1, <2>3 DEF Pending
  <2>4. CASE conn[q] # "busy"
    BY <1>5, <2>4 DEF Pending
  <2> QED BY <2>2, <2>3, <2>4
<1>6. InTime' /\ OrderedDelivery'
  BY <1>1, <1>5, SameStreams DEF Stream
<1> QED BY <1>2, <1>3, <1>4, <1>6

\* dsm_call: a write takes the outgoing message along.
LEMMA DsmCallFlight ==
  ASSUME LinkInv, FlightInv, NEW s \in PU, NEW m, sysPc[s] = "dispatch",
         DsmCall(s, m), sysReq[s].func = "FIFO_WRITE" => m = Outgoing(s),
         UNCHANGED <<conn, req, shm, gid, writes, fds, rcvd, pipe>>
  PROVE  FlightInv'
<1> USE DEF FlightInv
<1>1. /\ writes \in [Proc -> 0 .. MaxWrites] /\ sysPc \in [PU -> SysPc]
      /\ dsmPc \in [PU -> DsmPc] /\ dsmReq \in [PU -> Request]
      /\ dsmMsg \in [PU -> Message]
  BY DEF LinkInv, TypeOK, ProcTypeOK, ThreadTypeOK
<1> DEFINE o == Other(s)
<1>2. /\ o \in PU /\ o # s /\ Other(o) = s
      /\ \A t \in PU : t = s \/ t = o
  BY OtherPU
<1>3. /\ sysPc'[s] = "dsm_call" /\ sysPc'[o] = sysPc[o]
      /\ dsmPc'[o] = "request" /\ dsmPc'[s] = dsmPc[s]
      /\ dsmReq'[o] = sysReq[s] /\ dsmReq'[s] = dsmReq[s]
      /\ dsmMsg'[o] = m /\ dsmMsg'[s] = dsmMsg[s]
      /\ sysConn' = sysConn /\ sysReq' = sysReq
  BY <1>1, <1>2 DEF DsmCall, Goto
<1> HIDE DEF o
<1>4. Serving'
  BY <1>2, <1>3 DEF Serving
<1>5. Coupled'
  <2>1. (dsmPc'[o] # "idle") <=> (sysPc'[Other(o)] = "dsm_call")
    BY <1>2, <1>3
  <2>2. (dsmPc'[s] # "idle") <=> (sysPc'[Other(s)] = "dsm_call")
    BY <1>3 DEF Coupled, o
  <2> QED BY <1>2, <2>1, <2>2 DEF Coupled
<1>6. Carried'
  BY DEF Carried
<1>7. \A t \in PU : Outgoing(t)' = Outgoing(t)
  BY <1>3 DEF Outgoing
<1>8. Travelling'
  <2>1. Other(s) \in PU
    BY <1>2 DEF o
  <2>2. dsmReq'[o].func = "FIFO_WRITE" => dsmMsg'[o] = Outgoing(Other(o))'
    BY <1>2, <1>3, <1>7
  <2>3. /\ dsmPc'[s] # "idle" /\ dsmReq'[s].func = "FIFO_WRITE"
        => dsmMsg'[s] \in {Outgoing(Other(s))', Parsed(Outgoing(Other(s))')}
    BY <1>3, <1>7, <2>1 DEF Travelling
  <2> QED BY <1>2, <2>2, <2>3 DEF Travelling
<1>9. ASSUME NEW q \in Proc, Pending(q)' PROVE Pending(q)
  <2>1. Home[q] \in PU
    BY ProcAssumption
  <2>2. CASE Home[q] = s
    BY <1>9, <2>2 DEF Pending
  <2>3. CASE Home[q] = o
    BY <1>2, <1>3, <1>9, <2>3 DEF Pending
  <2> QED BY <1>2, <2>1, <2>2, <2>3
<1>10. InTime' /\ OrderedDelivery'
  BY <1>1, <1>9, SameStreams DEF Stream
<1> QED BY <1>4, <1>5, <1>6, <1>8, <1>10

\* dsm_call returns.
LEMMA AnswerFlight ==
  ASSUME LinkInv, FlightInv, NEW s \in PU, sysPc[s] = "dsm_call", DsmReturn(s),
         sysPc' = [sysPc EXCEPT ![s] = "reply"],
         UNCHANGED <<sysConn, sysReq, conn, req, shm, gid, writes, fds, rcvd, pipe>>
  PROVE  FlightInv'
<1> USE DEF FlightInv
<1>1. /\ writes \in [Proc -> 0 .. MaxWrites] /\ sysPc \in [PU -> SysPc]
      /\ dsmPc \in [PU -> DsmPc] /\ dsmReq \in [PU -> Request]
      /\ dsmMsg \in [PU -> Message]
  BY DEF LinkInv, TypeOK, ProcTypeOK, ThreadTypeOK
<1> DEFINE o == Other(s)
<1>2. /\ o \in PU /\ o # s /\ Other(o) = s
      /\ \A t \in PU : t = s \/ t = o
  BY OtherPU
<1>3. /\ sysPc'[s] = "reply" /\ sysPc'[o] = sysPc[o]
      /\ dsmPc[o] = "response" /\ dsmPc'[o] = "idle" /\ dsmPc'[s] = dsmPc[s]
      /\ dsmReq'[s] = dsmReq[s] /\ dsmMsg'[s] = dsmMsg[s]
  BY <1>1, <1>2 DEF DsmReturn
<1> HIDE DEF o
<1>4. Serving'
  BY <1>2, <1>3 DEF Serving
<1>5. Coupled'
  <2>1. (dsmPc'[o] # "idle") <=> (sysPc'[Other(o)] = "dsm_call")
    BY <1>2, <1>3
  <2>2. (dsmPc'[s] # "idle") <=> (sysPc'[Other(s)] = "dsm_call")
    BY <1>3 DEF Coupled, o
  <2> QED BY <1>2, <2>1, <2>2 DEF Coupled
<1>6. Carried'
  BY DEF Carried
<1>7. \A t \in PU : Outgoing(t)' = Outgoing(t)
  BY DEF Outgoing
<1>8. Travelling'
  <2>1. Other(s) \in PU
    BY <1>2 DEF o
  <2>2. /\ dsmPc'[s] # "idle" /\ dsmReq'[s].func = "FIFO_WRITE"
        => dsmMsg'[s] \in {Outgoing(Other(s))', Parsed(Outgoing(Other(s))')}
    BY <1>3, <1>7, <2>1 DEF Travelling
  <2> QED BY <1>2, <1>3, <2>2 DEF Travelling
<1>9. ASSUME NEW q \in Proc, Pending(q)' PROVE Pending(q)
  <2>1. Home[q] \in PU
    BY ProcAssumption
  <2>2. CASE Home[q] = s
    <3>1. conn[q] # "busy"
      BY <1>3, <1>9, <2>2 DEF Pending
    <3> QED BY <1>9, <3>1 DEF Pending
  <2>3. CASE Home[q] = o
    BY <1>2, <1>3, <1>9, <2>3 DEF Pending
  <2> QED BY <1>2, <2>1, <2>2, <2>3
<1>10. InTime' /\ OrderedDelivery'
  BY <1>1, <1>9, SameStreams DEF Stream
<1> QED BY <1>4, <1>5, <1>6, <1>8, <1>10

\* What SysWriteFifo does: the outgoing message, whose write was pending, comes
\* to the end of a pipe, and the write is done with.
LEMMA SysWriteEffect ==
  ASSUME LinkInv, FlightInv, NEW s \in PU, SysWriteFifo(s)
  PROVE  \E p \in Proc, m \in Message, l \in Proc \cup {NoProc} :
           /\ p = sysConn[s] /\ Home[p] = s /\ req[p].func = "FIFO_WRITE"
           /\ m = Outgoing(s) /\ m = shm[Home[p]][gid[p]]
           /\ m.src = p /\ m.n = writes[p] /\ <<m.dst, sysReq[s].id>> \in fds[p]
           /\ Pending(p) /\ ~Pending(p)'
           /\ pipe' = [pipe EXCEPT ![l] = Append(@, m)]
           /\ sysReq[s].id \in FifoId => l = fifo[s][sysReq[s].id].local_uuid
           /\ \A q \in Proc : q # p => (Pending(q)' <=> Pending(q))
<1>1. /\ sysPc[s] = "write" /\ sysReq[s].func = "FIFO_WRITE"
      /\ pipe' = [pipe EXCEPT ![fifo[s][sysReq[s].id].local_uuid] = Append(@, Outgoing(s))]
      /\ sysPc' = [sysPc EXCEPT ![s] = "reply"]
      /\ UNCHANGED <<sysReq, dsmPc, conn, req>>
  BY DEF SysWriteFifo, At, PipeAppend, Result, dsmVars, procVars, LinkInv, Threads
<1>2. PICK p \in Proc :
        /\ p = sysConn[s] /\ Home[p] = s /\ conn[p] = "busy" /\ req[p] = sysReq[s]
        /\ Outgoing(s) = shm[Home[p]][gid[p]] /\ Outgoing(s) \in Message
        /\ Outgoing(s).src = p /\ Outgoing(s).n = writes[p]
        /\ <<Outgoing(s).dst, sysReq[s].id>> \in fds[p]
  BY <1>1, OutgoingOf DEF FlightInv
<1>3. PICK m \in Message : m = Outgoing(s)
  BY <1>2
<1>4. /\ sysPc \in [PU -> SysPc] /\ pipe \in [Proc -> Seq(Message)]
      /\ fifo \in [PU -> [FifoId -> Entry]]
  BY DEF LinkInv, TypeOK, OsTypeOK, ThreadTypeOK, ProcTypeOK
<1>5. Pending(p) /\ ~Pending(p)'
  BY <1>1, <1>2, <1>4 DEF Pending
<1>6. ASSUME NEW q \in Proc, q # p PROVE Pending(q)' <=> Pending(q)
  <2>1. conn[q] = "busy" => Home[q] # s /\ Home[q] \in PU
    BY <1>2, <1>6, ProcAssumption DEF LinkInv, Sessions
  <2> QED BY <1>1, <1>4, <2>1 DEF Pending
<1>7. \E l \in Proc \cup {NoProc} :
        /\ pipe' = [pipe EXCEPT ![l] = Append(@, m)]
        /\ sysReq[s].id \in FifoId => l = fifo[s][sysReq[s].id].local_uuid
  <2>1. CASE fifo[s][sysReq[s].id].local_uuid \in Proc
    BY <1>1, <1>3, <2>1
  <2>2. CASE fifo[s][sysReq[s].id].local_uuid \notin Proc
    <3>1. pipe' = pipe /\ [pipe EXCEPT ![NoProc] = Append(@, m)] = pipe
      BY <1>1, <1>4, <2>2, ProcAssumption
    <3>2. sysReq[s].id \in FifoId => fifo[s][sysReq[s].id].local_uuid = NoProc
      BY <1>4, <2>2 DEF Entry
    <3> QED BY <3>1, <3>2
  <2> QED BY <2>1, <2>2
<1> QED BY <1>1, <1>2, <1>3, <1>5, <1>6, <1>7

\* The SYSCALL thread writes into the pipe.
LEMMA SysWriteFifoFlight ==
  ASSUME LinkInv, FlightInv, NEW s \in PU, SysWriteFifo(s)
  PROVE  FlightInv'
<1> USE DEF FlightInv
<1> HIDE DEF FlightInv
<1>1. PICK p \in Proc, m \in Message, l \in Proc \cup {NoProc} :
        /\ p = sysConn[s] /\ Home[p] = s /\ req[p].func = "FIFO_WRITE"
        /\ m = Outgoing(s) /\ m = shm[Home[p]][gid[p]]
        /\ m.src = p /\ m.n = writes[p] /\ <<m.dst, sysReq[s].id>> \in fds[p]
        /\ Pending(p) /\ ~Pending(p)'
        /\ pipe' = [pipe EXCEPT ![l] = Append(@, m)]
        /\ sysReq[s].id \in FifoId => l = fifo[s][sysReq[s].id].local_uuid
        /\ \A q \in Proc : q # p => (Pending(q)' <=> Pending(q))
  BY SysWriteEffect
<1> USE DEF FlightInv
<1>2. UNCHANGED <<sysConn, sysReq, conn, dsmPc, dsmReq, dsmMsg, req, shm, gid,
                  writes, fds, rcvd>>
  BY DEF SysWriteFifo, Result, dsmVars, osVars, procVars
<1>3. /\ sysPc[s] = "write" /\ sysPc'[s] = "reply"
      /\ \A t \in PU : t # s => sysPc'[t] = sysPc[t]
  BY DEF SysWriteFifo, At, Result, LinkInv, TypeOK, ThreadTypeOK
<1>4. Serving'
  BY <1>2, <1>3 DEF Serving
<1>5. Coupled'
  <2>1. \A t \in PU : sysPc'[t] = "dsm_call" <=> sysPc[t] = "dsm_call"
    BY <1>3
  <2> QED BY <1>2, <2>1, OtherPU DEF Coupled
<1>6. Carried' /\ Travelling'
  BY <1>2 DEF Carried, Travelling, Outgoing
<1>7. \A q \in Proc : Pending(q)' => Pending(q)
  BY <1>1
<1>8. InTime' /\ OrderedDelivery'
  BY <1>1, <1>2, <1>7, StreamGrows
<1> QED BY <1>4, <1>5, <1>6, <1>8

\* dsm_handlers parses a request; a write keeps its message but for white space.
LEMMA DsmHandlersFlight ==
  ASSUME LinkInv, FlightInv, NEW s \in PU, DsmHandlers(s)
  PROVE  FlightInv'
<1> USE DEF FlightInv
<1>1. /\ writes \in [Proc -> 0 .. MaxWrites]
      /\ dsmPc \in [PU -> DsmPc] /\ dsmMsg \in [PU -> Message]
  BY DEF LinkInv, TypeOK, ProcTypeOK, ThreadTypeOK
<1>2. UNCHANGED <<sysPc, sysConn, sysReq, conn, dsmReq, req, shm, gid, writes, fds, rcvd,
                  pipe>>
  BY DEF DsmHandlers, sysVars, osVars, procVars
<1>3. /\ dsmPc[s] = "request"
      /\ \/ dsmReq[s].func = "FIFO_WRITE" /\ dsmPc'[s] = "open"
         \/ dsmReq[s].func = "FIFO_CONNECT" /\ dsmPc'[s] = "response"
      /\ dsmReq[s].func = "FIFO_WRITE" => dsmMsg'[s] = Parsed(dsmMsg[s])
      /\ \A t \in PU : t # s => dsmPc'[t] = dsmPc[t] /\ dsmMsg'[t] = dsmMsg[t]
  BY <1>1 DEF DsmHandlers, DsmAt
<1>4. Serving' /\ Carried'
  BY <1>2 DEF Serving, Carried
<1>5. Coupled'
  BY <1>2, <1>3 DEF Coupled
<1>6. Travelling'
  <2>1. \A x \in Message : Parsed(Parsed(x)) = Parsed(x)
    BY DEF Parsed
  <2>2. \A t \in PU : Outgoing(Other(t))' = Outgoing(Other(t))
    BY <1>2 DEF Outgoing
  <2>3. dsmReq[s].func = "FIFO_WRITE"
          => dsmMsg'[s] \in {Outgoing(Other(s)), Parsed(Outgoing(Other(s)))}
    BY <1>3, <2>1 DEF Travelling, Parsed
  <2> QED BY <1>2, <1>3, <2>2, <2>3 DEF Travelling
<1>7. ASSUME NEW q \in Proc, Pending(q)' PROVE Pending(q)
  <2>1. Home[q] \in PU /\ Other(Home[q]) \in PU
    BY ProcAssumption, OtherPU
  <2> QED BY <1>2, <1>3, <1>7, <2>1 DEF Pending
<1>8. InTime' /\ OrderedDelivery'
  BY <1>1, <1>2, <1>7, SameStreams DEF Stream
<1> QED BY <1>4, <1>5, <1>6, <1>8

\* The DSM thread opens the pipe.
LEMMA DsmOpenFifoFlight ==
  ASSUME LinkInv, FlightInv, NEW s \in PU, DsmOpenFifo(s)
  PROVE  FlightInv'
<1> USE DEF FlightInv
<1>1. /\ writes \in [Proc -> 0 .. MaxWrites] /\ dsmPc \in [PU -> DsmPc]
  BY DEF LinkInv, TypeOK, ProcTypeOK, ThreadTypeOK
<1>2. UNCHANGED <<sysPc, sysConn, sysReq, conn, dsmReq, dsmMsg, req, shm, gid, writes,
                  fds, rcvd, pipe>>
  BY DEF DsmOpenFifo, sysVars, osVars, procVars
<1>3. /\ dsmPc[s] = "open" /\ dsmPc'[s] = "write"
      /\ \A t \in PU : t # s => dsmPc'[t] = dsmPc[t]
  BY <1>1 DEF DsmOpenFifo, DsmAt
<1>4. Serving' /\ Carried'
  BY <1>2 DEF Serving, Carried
<1>5. Coupled' /\ Travelling'
  BY <1>2, <1>3 DEF Coupled, Travelling, Outgoing
<1>6. ASSUME NEW q \in Proc, Pending(q)' PROVE Pending(q)
  <2>1. Home[q] \in PU /\ Other(Home[q]) \in PU
    BY ProcAssumption, OtherPU
  <2> QED BY <1>2, <1>3, <1>6, <2>1 DEF Pending
<1>7. InTime' /\ OrderedDelivery'
  BY <1>1, <1>2, <1>6, SameStreams DEF Stream
<1> QED BY <1>4, <1>5, <1>7

\* What DsmWriteFifo does: the message of the other PU, whose write was
\* pending, comes to the end of a pipe, and the write is done with.
LEMMA DsmWriteEffect ==
  ASSUME LinkInv, FlightInv, NEW s \in PU, DsmWriteFifo(s)
  PROVE  \E p \in Proc, m \in Message, l \in Proc \cup {NoProc} :
           /\ p = sysConn[Other(s)] /\ Home[p] = Other(s)
           /\ req[p].func = "FIFO_WRITE"
           /\ m \in {shm[Home[p]][gid[p]], Parsed(shm[Home[p]][gid[p]])}
           /\ shm[Home[p]][gid[p]].blank \in Blanks
           /\ m.src = p /\ m.n = writes[p] /\ <<m.dst, dsmReq[s].id>> \in fds[p]
           /\ Pending(p) /\ ~Pending(p)'
           /\ pipe' = [pipe EXCEPT ![l] = Append(@, m)]
           /\ dsmReq[s].id \in FifoId => l = fifo[s][dsmReq[s].id].local_uuid
           /\ \A q \in Proc : q # p => (Pending(q)' <=> Pending(q))
<1>1. /\ dsmPc[s] = "write" /\ dsmReq[s].func = "FIFO_WRITE"
      /\ pipe' = [pipe EXCEPT ![fifo[s][dsmReq[s].id].local_uuid] = Append(@, dsmMsg[s])]
      /\ dsmPc' = [dsmPc EXCEPT ![s] = "response"]
      /\ UNCHANGED <<dsmReq, sysPc, conn, req>>
  BY DEF DsmWriteFifo, DsmAt, PipeAppend, sysVars, procVars, LinkInv, Threads
<1>2. PICK p \in Proc :
        /\ p = sysConn[Other(s)] /\ Home[p] = Other(s) /\ conn[p] = "busy"
        /\ req[p] = dsmReq[s]
        /\ dsmMsg[s].src = p /\ dsmMsg[s].n = writes[p]
        /\ <<dsmMsg[s].dst, dsmReq[s].id>> \in fds[p]
        /\ dsmMsg[s] \in {shm[Home[p]][gid[p]], Parsed(shm[Home[p]][gid[p]])}
        /\ shm[Home[p]][gid[p]].blank \in Blanks
  BY <1>1, IncomingOf DEF FlightInv
<1>3. /\ dsmPc \in [PU -> DsmPc] /\ pipe \in [Proc -> Seq(Message)]
      /\ fifo \in [PU -> [FifoId -> Entry]] /\ dsmMsg[s] \in Message
  BY DEF LinkInv, TypeOK, OsTypeOK, ThreadTypeOK, ProcTypeOK
<1>4. PICK m \in Message : m = dsmMsg[s]
  BY <1>3
<1>5. sysPc[Other(s)] = "dsm_call" /\ Other(Other(s)) = s /\ Other(s) \in PU
  BY <1>1, IncomingOf, OtherPU DEF FlightInv
<1>6. Pending(p) /\ ~Pending(p)'
  BY <1>1, <1>2, <1>3, <1>5 DEF Pending
<1>7. ASSUME NEW q \in Proc, q # p PROVE Pending(q)' <=> Pending(q)
  <2>1. conn[q] = "busy" => Home[q] # Other(s) /\ Home[q] \in PU
    BY <1>2, <1>7, ProcAssumption DEF LinkInv, Sessions
  <2>2. conn[q] = "busy" => Other(Home[q]) # s /\ Other(Home[q]) \in PU
    BY <1>5, <2>1, OtherPU
  <2> QED BY <1>1, <1>3, <2>2 DEF Pending
<1>8. \E l \in Proc \cup {NoProc} :
        /\ pipe' = [pipe EXCEPT ![l] = Append(@, m)]
        /\ dsmReq[s].id \in FifoId => l = fifo[s][dsmReq[s].id].local_uuid
  <2>1. CASE fifo[s][dsmReq[s].id].local_uuid \in Proc
    BY <1>1, <1>4, <2>1
  <2>2. CASE fifo[s][dsmReq[s].id].local_uuid \notin Proc
    <3>1. pipe' = pipe /\ [pipe EXCEPT ![NoProc] = Append(@, m)] = pipe
      BY <1>1, <1>3, <2>2, ProcAssumption
    <3>2. dsmReq[s].id \in FifoId => fifo[s][dsmReq[s].id].local_uuid = NoProc
      BY <1>3, <2>2 DEF Entry
    <3> QED BY <3>1, <3>2
  <2> QED BY <2>1, <2>2
<1>9. /\ req[p].func = "FIFO_WRITE"
      /\ m \in {shm[Home[p]][gid[p]], Parsed(shm[Home[p]][gid[p]])}
      /\ m.src = p /\ m.n = writes[p] /\ <<m.dst, dsmReq[s].id>> \in fds[p]
  BY <1>1, <1>2, <1>4
<1> QED BY <1>2, <1>6, <1>7, <1>8, <1>9

\* The DSM thread writes into the pipe.
LEMMA DsmWriteFifoFlight ==
  ASSUME LinkInv, FlightInv, NEW s \in PU, DsmWriteFifo(s)
  PROVE  FlightInv'
<1> USE DEF FlightInv
<1>1. PICK p \in Proc, m \in Message, l \in Proc \cup {NoProc} :
        /\ m.src = p /\ m.n = writes[p] /\ Pending(p) /\ ~Pending(p)'
        /\ pipe' = [pipe EXCEPT ![l] = Append(@, m)]
        /\ \A q \in Proc : q # p => (Pending(q)' <=> Pending(q))
  BY DsmWriteEffect
<1>2. UNCHANGED <<sysPc, sysConn, sysReq, conn, dsmReq, dsmMsg, req, shm, gid, writes,
                  fds, rcvd>>
  BY DEF DsmWriteFifo, sysVars, osVars, procVars
<1>3. /\ dsmPc[s] = "write" /\ dsmPc'[s] = "response"
      /\ \A t \in PU : t # s => dsmPc'[t] = dsmPc[t]
  BY DEF DsmWriteFifo, DsmAt, LinkInv, TypeOK, ThreadTypeOK
<1>4. Serving' /\ Carried'
  BY <1>2 DEF Serving, Carried
<1>5. Coupled' /\ Travelling'
  BY <1>2, <1>3 DEF Coupled, Travelling, Outgoing
<1>6. \A q \in Proc : Pending(q)' => Pending(q)
  BY <1>1
<1>7. InTime' /\ OrderedDelivery'
  BY <1>1, <1>2, <1>6, StreamGrows
<1> QED BY <1>4, <1>5, <1>7

\* The steps of a process.
LEMMA ProcFlight ==
  ASSUME LinkInv, NumbersTaken, FlightInv, NEW p \in Proc, ProcNext(p)
  PROVE  FlightInv'
<1>1. ASSUME NEW r, Send(p, r), r.func # "FIFO_WRITE",
             UNCHANGED <<osVars, sysVars, dsmVars, gid, fds, writes, pipe, rcvd>>
      PROVE  FlightInv'
  BY <1>1, SendFlight DEF osVars
<1>2. CASE RegisterSelfGlobal(p)
  BY <1>1, <1>2 DEF RegisterSelfGlobal, Args
<1>3. CASE GlobalFifoInit(p)
  BY <1>1, <1>3 DEF GlobalFifoInit, Args
<1>4. CASE GlobalFifoConnect(p)
  BY <1>1, <1>4 DEF GlobalFifoConnect, Args
<1>5. CASE GlobalFifoRead(p)
  BY <1>1, <1>5 DEF GlobalFifoRead, Args
<1>6. CASE GlobalFifoClose(p)
  BY <1>1, <1>6 DEF GlobalFifoClose, Args
<1>7. CASE GlobalSpawn(p)
  BY <1>1, <1>7 DEF GlobalSpawn, Args
<1>8. CASE GlobalFifoWrite(p)
  BY <1>8, GlobalFifoWriteFlight
<1>9. CASE Return(p)
  BY <1>9, ReturnFlight
<1>10. CASE FifoRead(p)
  BY <1>10, FifoReadFlight
<1>11. CASE AnswerLost(p)
  BY <1>11, FlightFrame DEF AnswerLost, flight, osVars, sysVars, dsmVars
<1>12. CASE Die(p)
  BY <1>12, DieFlight
<1> QED BY <1>2, <1>3, <1>4, <1>5, <1>6, <1>7, <1>8, <1>9, <1>10, <1>11, <1>12
        DEF ProcNext

\* The steps that the SYSCALL thread takes inside its PU.
LEMMA HandlerFlight ==
  ASSUME LinkInv, FlightInv, NEW s \in PU,
         \/ SyscallRegisterGlobal(s) \/ SyscallFifoInit(s) \/ FifoInitInsert(s)
         \/ SyscallFifoRead(s) \/ SyscallGspawn(s) \/ SysOpenFifo(s)
  PROVE  FlightInv'
<1> USE DEF At, Handling, Goto, Result
<1>1. sysPc \in [PU -> SysPc]
  BY DEF LinkInv, TypeOK, ThreadTypeOK
<1>2. UNCHANGED <<sysConn, sysReq, conn, dsmPc, dsmReq, dsmMsg, req, shm, gid, writes,
                  fds, rcvd, pipe>>
  BY DEF SyscallRegisterGlobal, SyscallFifoInit, FifoInitInsert, SyscallFifoRead,
     SyscallGspawn, SysOpenFifo, dsmVars, osVars, procVars
<1>3. sysPc[s] \in {"dispatch", "insert", "open"}
  BY DEF SyscallRegisterGlobal, SyscallFifoInit, FifoInitInsert, SyscallFifoRead,
     SyscallGspawn, SysOpenFifo
<1>4. \E x \in {"insert", "write", "reply"} : sysPc' = [sysPc EXCEPT ![s] = x]
  BY DEF SyscallRegisterGlobal, SyscallFifoInit, FifoInitInsert, SyscallFifoRead,
     SyscallGspawn, SysOpenFifo
<1>5. sysReq[s].func = "FIFO_WRITE" => SysOpenFifo(s)
  BY DEF SyscallRegisterGlobal, SyscallFifoInit, FifoInitInsert, SyscallFifoRead,
     SyscallGspawn, LinkInv, Threads
<1>6. sysReq[s].func = "FIFO_WRITE" => sysPc'[s] # "reply"
  BY <1>1, <1>5 DEF SysOpenFifo
<1> QED BY <1>1, <1>2, <1>3, <1>4, <1>6, LocalFlight

\* FIFO_CONNECT, answered here or by the other PU.
LEMMA ConnectFlight ==
  ASSUME LinkInv, FlightInv, NEW s \in PU, SyscallFifoConnect(s) \/ FifoConnectAnswer(s)
  PROVE  FlightInv'
<1> USE DEF At, Handling
<1>1. sysPc \in [PU -> SysPc]
  BY DEF LinkInv, TypeOK, ThreadTypeOK
<1>2. UNCHANGED <<conn, req, shm, gid, writes, fds, rcvd, pipe>>
  BY DEF SyscallFifoConnect, FifoConnectAnswer, osVars, procVars
<1>3. sysReq[s].func = "FIFO_CONNECT"
  BY DEF SyscallFifoConnect, FifoConnectAnswer
<1>4. CASE SyscallFifoConnect(s)
  <2>1. sysPc[s] = "dispatch"
    BY <1>4 DEF SyscallFifoConnect
  <2>2. CASE DsmCall(s, NoMsg)
    BY <1>2, <1>3, <2>1, <2>2, DsmCallFlight
  <2>3. CASE UNCHANGED dsmVars /\ Result(s, guuid[s][sysReq[s].uuid])
    BY <1>1, <1>2, <1>3, <2>1, <2>3, LocalFlight DEF Result, dsmVars
  <2> QED BY <1>4, <2>2, <2>3 DEF SyscallFifoConnect
<1>5. CASE FifoConnectAnswer(s)
  BY <1>2, <1>5, AnswerFlight DEF FifoConnectAnswer, Result
<1> QED BY <1>4, <1>5

\* FIFO_WRITE: to a pipe of this PU, or through the DSM link.
LEMMA WriteFlight ==
  ASSUME LinkInv, FlightInv, NEW s \in PU, SyscallFifoWrite(s) \/ FifoWriteAnswer(s)
  PROVE  FlightInv'
<1> USE DEF At, Handling
<1>1. sysPc \in [PU -> SysPc]
  BY DEF LinkInv, TypeOK, ThreadTypeOK
<1>2. UNCHANGED <<conn, req, shm, gid, writes, fds, rcvd, pipe>>
  BY DEF SyscallFifoWrite, FifoWriteAnswer, osVars, procVars
<1>3. CASE SyscallFifoWrite(s)
  <2>1. sysPc[s] = "dispatch"
    BY <1>3 DEF SyscallFifoWrite
  <2>2. CASE DsmCall(s, Outgoing(s))
    <3>1. PICK m : m = Outgoing(s)
      OBVIOUS
    <3> QED BY <1>2, <2>1, <2>2, <3>1, DsmCallFlight
  <2>3. CASE UNCHANGED dsmVars /\ Goto(s, "open")
    BY <1>1, <1>2, <2>1, <2>3, LocalFlight DEF Goto, dsmVars
  <2> QED BY <1>3, <2>2, <2>3 DEF SyscallFifoWrite
<1>4. CASE FifoWriteAnswer(s)
  BY <1>2, <1>4, AnswerFlight DEF FifoWriteAnswer, Result
<1> QED BY <1>3, <1>4

\* The steps of a globalOS.
LEMMA OsFlight ==
  ASSUME LinkInv, FlightInv, NoReset, NEW s \in PU, OsNext(s) PROVE FlightInv'
<1>1. CASE \E p \in Proc : Receive(s, p) \/ ReceiveEof(s, p) \/ ReceiveError(s, p)
  BY <1>1, ReceiveFlight
<1>2. CASE \/ ReplyToBroken(s) \/ UnknownSyscall(s) \/ RegisterNoSegment(s)
           \/ BoundPanic(s) \/ WriteTooLong(s) \/ OpenPanic(s) \/ WritePanic(s)
  <2>1. Panic(s)
    BY <1>2, PanicSteps
  <2> QED BY <2>1, FlightFrame DEF Panic, flight, sysVars, dsmVars, procVars
<1>3. CASE Reply(s)
  BY <1>3, ReplyFlight
<1>4. CASE \/ SyscallRegisterGlobal(s) \/ SyscallFifoInit(s) \/ FifoInitInsert(s)
           \/ SyscallFifoRead(s) \/ SyscallGspawn(s) \/ SysOpenFifo(s)
  BY <1>4, HandlerFlight
<1>5. CASE SyscallFifoConnect(s) \/ FifoConnectAnswer(s)
  BY <1>5, ConnectFlight
<1>6. CASE SyscallFifoWrite(s) \/ FifoWriteAnswer(s)
  BY <1>6, WriteFlight
<1>7. CASE SysWriteFifo(s)
  BY <1>7, SysWriteFifoFlight
<1>8. CASE DsmNext(s)
  BY <1>8, DsmHandlersFlight, DsmOpenFifoFlight, DsmWriteFifoFlight DEF DsmNext
<1> QED BY <1>1, <1>2, <1>3, <1>4, <1>5, <1>6, <1>7, <1>8 DEF OsNext, SysHandler

\* Every step keeps what is known of the messages on their way.
LEMMA FlightStep ==
  ASSUME LinkInv, NumbersTaken, FlightInv, NoReset, [Next]_vars PROVE FlightInv'
<1>1. CASE UNCHANGED vars
  BY <1>1, FlightFrame DEF vars, flight, osVars, sysVars, dsmVars, procVars
<1> QED BY <1>1, ProcFlight, OsFlight DEF Next

\* It holds initially.
LEMMA FlightInit == Init => FlightInv
<1> SUFFICES ASSUME Init PROVE FlightInv
  OBVIOUS
<1>1. Serving /\ Coupled /\ Carried /\ Travelling
  BY UnusedRequest, OtherPU DEF Init, Serving, Coupled, Carried, Travelling
<1>2. \A l \in Proc : Stream(l) = <<>>
  BY ConcatEmptySeq DEF Init, Stream
<1>3. \A l \in Proc : DOMAIN Stream(l) = {}
  BY <1>2
<1>4. InTime /\ OrderedDelivery
  BY <1>3, OrderOfStreams DEF InTime
<1> QED BY <1>1, <1>4 DEF FlightInv

\* Where no socket is reset, messages on their way are as FlightInv says.
LEMMA FlightInvariant == Spec /\ []NoReset => []FlightInv
<1>1. LinkInv /\ NumbersTaken /\ FlightInv /\ NoReset /\ [Next]_vars => FlightInv'
  BY FlightStep
<1> QED BY <1>1, FlightInit, LinkInvariant, NumbersInvariant, PTL DEF Spec

\* As long as no socket is reset, a reader gets the messages of one writer in
\* the order of their writes, each at most once, whichever way they came.
THEOREM Order == Spec /\ []NoReset => []OrderedDelivery
<1>1. FlightInv => OrderedDelivery
  BY DEF FlightInv
<1> QED BY <1>1, FlightInvariant, PTL

\* Where no process is killed, no socket is reset.
LEMMA NoKillNoReset == ASSUME Mortal = {} PROVE Spec => []NoReset
<1>1. Init => NoReset
  BY DEF Init, NoReset
<1>2. ASSUME LinkInv, NoReset, [Next]_vars PROVE NoReset'
  <2>1. conn \in [Proc -> ConnSt]
    BY <1>2 DEF LinkInv, TypeOK, ProcTypeOK
  <2>2. ASSUME NEW p \in Proc, ProcNext(p) PROVE NoReset'
    BY <1>2, <2>1, <2>2 DEF NoReset, ProcNext, RegisterSelfGlobal, GlobalFifoInit,
       GlobalFifoConnect, GlobalFifoWrite, GlobalFifoRead, GlobalFifoClose, GlobalSpawn,
       Send, Return, FifoRead, AnswerLost, Die
  <2>3. ASSUME NEW s \in PU, OsNext(s) PROVE NoReset'
    <3>1. CASE \E p \in Proc : Receive(s, p) \/ ReceiveEof(s, p) \/ ReceiveError(s, p)
      BY <1>2, <2>1, <3>1 DEF NoReset, Receive, ReceiveEof, ReceiveError
    <3>2. CASE Reply(s)
      BY <1>2, <2>1, <3>2 DEF NoReset, Reply
    <3>3. CASE \/ ReplyToBroken(s) \/ UnknownSyscall(s) \/ RegisterNoSegment(s)
               \/ BoundPanic(s) \/ WriteTooLong(s) \/ OpenPanic(s) \/ WritePanic(s)
      BY <1>2, <3>3, PanicSteps DEF NoReset, Panic
    <3>4. CASE SysHandler(s) \/ DsmNext(s)
      BY <1>2, <3>2, <3>3, <3>4 DEF NoReset, SysHandler, DsmNext, SyscallRegisterGlobal,
         SyscallFifoInit, FifoInitInsert, SyscallFifoConnect, FifoConnectAnswer,
         SyscallFifoRead, SyscallFifoWrite, FifoWriteAnswer, SyscallGspawn,
         SysOpenFifo, SysWriteFifo, DsmHandlers, DsmOpenFifo, DsmWriteFifo
    <3> QED BY <2>3, <3>1, <3>3, <3>4 DEF OsNext
  <2> QED BY <1>2, <2>2, <2>3 DEF Next, NoReset, vars
<1>3. LinkInv /\ NoReset /\ [Next]_vars => NoReset'
  BY <1>2
<1> QED BY <1>1, <1>3, LinkInvariant, PTL DEF Spec

-----------------------------------------------------------------------------
(* Where a message goes: to the fifo that its request names.               *)

\* Threads that start no write and change no entry leave the others directed.
LEMMA DirectedFrame ==
  ASSUME Directed, fifo' = fifo,
         \A t \in PU :
           /\ sysPc'[t] \in {"open", "write"} =>
                sysPc[t] \in {"open", "write"} /\ sysReq'[t] = sysReq[t]
           /\ sysPc'[t] = "dsm_call" /\ sysReq'[t].func = "FIFO_WRITE" =>
                sysPc[t] = "dsm_call" /\ sysReq'[t] = sysReq[t]
  PROVE  Directed'
BY DEF Directed, IsGlobalFifoLocal

\* Every step keeps the threads directed: syscall_fifo_write looks at the entry
\* once, and only the same thread could change it.
LEMMA DirectedStep == ASSUME LinkInv, Directed, [Next]_vars PROVE Directed'
<1>1. /\ sysPc \in [PU -> SysPc] /\ sysReq \in [PU -> Request]
      /\ fifo \in [PU -> [FifoId -> Entry]]
  BY DEF LinkInv, TypeOK, ThreadTypeOK, OsTypeOK
<1>2. ASSUME UNCHANGED <<fifo, sysPc, sysReq>> PROVE Directed'
  BY <1>2, DirectedFrame
<1>3. ASSUME NEW p \in Proc, ProcNext(p) PROVE Directed'
  <2>1. UNCHANGED <<fifo, sysPc, sysReq>>
    BY <1>3 DEF ProcNext, RegisterSelfGlobal, GlobalFifoInit, GlobalFifoConnect,
       GlobalFifoWrite, GlobalFifoRead, GlobalFifoClose, GlobalSpawn, Return, FifoRead,
       AnswerLost, Die, osVars, sysVars
  <2> QED BY <1>2, <2>1
<1>4. ASSUME NEW s \in PU, OsNext(s) PROVE Directed'
  <2>1. CASE \E p \in Proc : Receive(s, p) \/ ReceiveEof(s, p) \/ ReceiveError(s, p)
    <3>1. /\ fifo' = fifo
          /\ \A t \in PU : \/ sysPc'[t] = sysPc[t] /\ sysReq'[t] = sysReq[t]
                           \/ sysPc'[t] = "dispatch"
      BY <1>1, <2>1 DEF Receive, ReceiveEof, ReceiveError, osVars, sysVars
    <3> QED BY <3>1, DirectedFrame
  <2>2. CASE \/ ReplyToBroken(s) \/ UnknownSyscall(s) \/ RegisterNoSegment(s)
             \/ BoundPanic(s) \/ WriteTooLong(s) \/ OpenPanic(s) \/ WritePanic(s)
    BY <1>2, <2>2, PanicSteps DEF Panic, sysVars
  <2>3. CASE DsmNext(s)
    BY <1>2, <2>3 DEF DsmNext, DsmHandlers, DsmOpenFifo, DsmWriteFifo, osVars, sysVars
  <2>4. CASE \/ SyscallRegisterGlobal(s) \/ FifoInitInsert(s) \/ SyscallFifoRead(s)
             \/ SyscallGspawn(s) \/ FifoConnectAnswer(s) \/ FifoWriteAnswer(s)
             \/ SysWriteFifo(s) \/ Reply(s)
    <3>1. /\ fifo' = fifo /\ sysReq' = sysReq
          /\ \A t \in PU : sysPc'[t] = sysPc[t] \/ sysPc'[t] \in {"reply", "epoll"}
      BY <1>1, <2>4 DEF SyscallRegisterGlobal, FifoInitInsert, SyscallFifoRead,
         SyscallGspawn, FifoConnectAnswer, FifoWriteAnswer, SysWriteFifo, Reply, Result,
         osVars
    <3> QED BY <3>1, DirectedFrame
  <2>5. CASE SyscallFifoConnect(s)
    <3>1. /\ fifo' = fifo /\ sysReq' = sysReq /\ sysReq[s].func = "FIFO_CONNECT"
          /\ \A t \in PU : \/ sysPc'[t] = sysPc[t]
                           \/ t = s /\ sysPc'[t] \in {"reply", "dsm_call"}
      BY <1>1, <2>5 DEF SyscallFifoConnect, Handling, Result, DsmCall, Goto, osVars
    <3> QED BY <3>1, DirectedFrame
  <2>6. CASE SysOpenFifo(s)
    <3>1. /\ fifo' = fifo /\ sysReq' = sysReq /\ sysPc[s] = "open"
          /\ \A t \in PU : \/ sysPc'[t] = sysPc[t]
                           \/ t = s /\ sysPc'[t] = "write"
      BY <1>1, <2>6 DEF SysOpenFifo, At, Goto, osVars
    <3> QED BY <3>1, DirectedFrame
  <2>7. CASE SyscallFifoInit(s)
    <3>1. /\ sysReq' = sysReq /\ sysPc'[s] \in {"insert", "reply"}
          /\ \A t \in PU : t # s => sysPc'[t] = sysPc[t] /\ fifo'[t] = fifo[t]
      BY <1>1, <2>7 DEF SyscallFifoInit, Goto, Result
    <3> QED BY <3>1 DEF Directed, IsGlobalFifoLocal
  <2>8. CASE SyscallFifoWrite(s)
    <3>1. /\ fifo' = fifo /\ sysReq' = sysReq /\ sysReq[s].id \in FifoId
          /\ \A t \in PU : t # s => sysPc'[t] = sysPc[t]
          /\ IF IsGlobalFifoLocal(s, sysReq[s].id) THEN sysPc'[s] = "open"
             ELSE sysPc'[s] = "dsm_call"
      BY <1>1, <2>8 DEF SyscallFifoWrite, Goto, DsmCall, osVars
    <3> QED BY <3>1 DEF Directed, IsGlobalFifoLocal
  <2> QED BY <1>4, <2>1, <2>2, <2>3, <2>4, <2>5, <2>6, <2>7, <2>8 DEF OsNext, SysHandler
<1> QED BY <1>2, <1>3, <1>4 DEF Next, vars, osVars, sysVars

\* The threads are directed in every reachable state.
LEMMA DirectedInvariant == Spec => []Directed
<1>1. Init => Directed
  BY DEF Init, Directed
<1>2. LinkInv /\ Directed /\ [Next]_vars => Directed'
  BY DirectedStep
<1> QED BY <1>1, <1>2, LinkInvariant, PTL DEF Spec

\* Message m was written to a fifo id that leads to the pipe of l.
Addressed(m, l) ==
  \E p \in Proc, i \in FifoId :
    /\ <<m.dst, i>> \in fds[p]
    /\ fifo[Route(Home[p], i)][i].local_uuid = l

\* Only fifo_read, the two writes and the death of a reader change a stream.
LEMMA StreamFrame ==
  ASSUME [Next]_vars
  PROVE  \/ UNCHANGED <<pipe, rcvd>>
         \/ \E p \in Proc : FifoRead(p) \/ Die(p)
         \/ \E s \in PU : SysWriteFifo(s) \/ DsmWriteFifo(s)
<1>1. ASSUME NEW p \in Proc, ProcNext(p), ~FifoRead(p), ~Die(p)
      PROVE  UNCHANGED <<pipe, rcvd>>
  BY <1>1 DEF ProcNext, RegisterSelfGlobal, GlobalFifoInit, GlobalFifoConnect,
     GlobalFifoWrite, GlobalFifoRead, GlobalFifoClose, GlobalSpawn, Return, AnswerLost
<1>2. ASSUME NEW s \in PU, OsNext(s), ~SysWriteFifo(s), ~DsmWriteFifo(s)
      PROVE  UNCHANGED <<pipe, rcvd>>
  <2>1. CASE \E p \in Proc : Receive(s, p) \/ ReceiveEof(s, p) \/ ReceiveError(s, p)
    BY <2>1 DEF Receive, ReceiveEof, ReceiveError, procVars
  <2>2. CASE \/ ReplyToBroken(s) \/ UnknownSyscall(s) \/ RegisterNoSegment(s)
             \/ BoundPanic(s) \/ WriteTooLong(s) \/ OpenPanic(s) \/ WritePanic(s)
    BY <2>2, PanicSteps DEF Panic, procVars
  <2>3. CASE SysHandler(s) \/ DsmNext(s)
    BY <1>2, <2>2, <2>3 DEF SysHandler, DsmNext, Reply, SyscallRegisterGlobal,
       SyscallFifoInit, FifoInitInsert, SyscallFifoConnect, FifoConnectAnswer,
       SyscallFifoRead, SyscallFifoWrite, FifoWriteAnswer, SyscallGspawn, SysOpenFifo,
       DsmHandlers, DsmOpenFifo, procVars
  <2> QED BY <1>2, <2>1, <2>2, <2>3 DEF OsNext
<1> QED BY <1>1, <1>2 DEF Next, vars, procVars

\* Only the two writes bring a message to a stream, an addressed one.
LEMMA StreamStep ==
  ASSUME LinkInv, FlightInv, Directed, [Next]_vars,
         NEW l \in Proc, NEW k \in DOMAIN Stream(l)'
  PROVE  \/ k \in DOMAIN Stream(l) /\ Stream(l)'[k] = Stream(l)[k]
         \/ \E m \in Message : Stream(l)'[k] = m /\ Addressed(m, l)
<1>1. ASSUME NEW o \in Proc \cup {NoProc}, NEW m \in Message, Addressed(m, o), rcvd' = rcvd,
             pipe' = [pipe EXCEPT ![o] = Append(@, m)]
      PROVE  \/ k \in DOMAIN Stream(l) /\ Stream(l)'[k] = Stream(l)[k]
             \/ \E x \in Message : Stream(l)'[k] = x /\ Addressed(x, l)
  <2>1. pipe \in [Proc -> Seq(Message)]
    BY DEF LinkInv, TypeOK, ProcTypeOK
  <2>2. CASE o # l
    BY <1>1, <2>1, <2>2 DEF Stream
  <2>3. CASE o = l
    <3>1. \A a, b \in Seq(Message) : a \o Append(b, m) = Append(a \o b, m)
      BY AppendBehind
    <3>2. Stream(l)' = Append(Stream(l), m)
      BY <1>1, <2>1, <2>3, <3>1, StreamTypes DEF Stream
    <3>3. \A a \in Seq(Message) : \A j \in DOMAIN Append(a, m) :
            \/ j \in DOMAIN a /\ Append(a, m)[j] = a[j]
            \/ Append(a, m)[j] = m
      BY AppendProperties, LenProperties
    <3>4. Stream(l) \in Seq(Message)
      BY StreamTypes
    <3> QED BY <1>1, <2>3, <3>2, <3>3, <3>4
  <2> QED BY <2>2, <2>3
<1>2. ASSUME UNCHANGED <<pipe, rcvd>>
      PROVE  k \in DOMAIN Stream(l) /\ Stream(l)'[k] = Stream(l)[k]
  BY <1>2 DEF Stream
<1>3. ASSUME NEW p \in Proc, FifoRead(p) \/ Die(p)
      PROVE  k \in DOMAIN Stream(l) /\ Stream(l)'[k] = Stream(l)[k]
  BY <1>3, FifoReadStream, DieStream
<1>4. ASSUME NEW s \in PU, SysWriteFifo(s)
      PROVE  \E m \in Message, o \in Proc \cup {NoProc} :
               /\ Addressed(m, o) /\ rcvd' = rcvd
               /\ pipe' = [pipe EXCEPT ![o] = Append(@, m)]
  <2>1. sysReq[s].id \in FifoId /\ IsGlobalFifoLocal(s, sysReq[s].id)
    BY <1>4 DEF SysWriteFifo, At, Directed
  <2>2. PICK p \in Proc, m \in Message, o \in Proc \cup {NoProc} :
          /\ p = sysConn[s] /\ Home[p] = s /\ req[p].func = "FIFO_WRITE"
          /\ m = Outgoing(s) /\ m = shm[Home[p]][gid[p]]
          /\ m.src = p /\ m.n = writes[p] /\ <<m.dst, sysReq[s].id>> \in fds[p]
          /\ Pending(p) /\ ~Pending(p)'
          /\ pipe' = [pipe EXCEPT ![o] = Append(@, m)]
          /\ sysReq[s].id \in FifoId => o = fifo[s][sysReq[s].id].local_uuid
          /\ \A q \in Proc : q # p => (Pending(q)' <=> Pending(q))
    BY <1>4, SysWriteEffect
  <2>3. Addressed(m, o)
    BY <2>1, <2>2 DEF Addressed, Route
  <2> QED BY <1>4, <2>2, <2>3 DEF SysWriteFifo, procVars
<1>5. ASSUME NEW s \in PU, DsmWriteFifo(s)
      PROVE  \E m \in Message, o \in Proc \cup {NoProc} :
               /\ Addressed(m, o) /\ rcvd' = rcvd
               /\ pipe' = [pipe EXCEPT ![o] = Append(@, m)]
  <2>1. dsmPc[s] # "idle" /\ dsmReq[s].func = "FIFO_WRITE"
    BY <1>5 DEF DsmWriteFifo, DsmAt, LinkInv, Threads
  <2>2. /\ sysPc[Other(s)] = "dsm_call" /\ sysReq[Other(s)] = dsmReq[s]
        /\ Other(s) \in PU /\ Other(Other(s)) = s
    BY <2>1, IncomingOf, OtherPU DEF FlightInv
  <2>3. dsmReq[s].id \in FifoId /\ ~IsGlobalFifoLocal(Other(s), dsmReq[s].id)
    BY <2>1, <2>2 DEF Directed
  <2>4. PICK p \in Proc, m \in Message, o \in Proc \cup {NoProc} :
          /\ p = sysConn[Other(s)] /\ Home[p] = Other(s)
          /\ req[p].func = "FIFO_WRITE"
          /\ m \in {shm[Home[p]][gid[p]], Parsed(shm[Home[p]][gid[p]])}
          /\ shm[Home[p]][gid[p]].blank \in Blanks
          /\ m.src = p /\ m.n = writes[p] /\ <<m.dst, dsmReq[s].id>> \in fds[p]
          /\ Pending(p) /\ ~Pending(p)'
          /\ pipe' = [pipe EXCEPT ![o] = Append(@, m)]
          /\ dsmReq[s].id \in FifoId => o = fifo[s][dsmReq[s].id].local_uuid
          /\ \A q \in Proc : q # p => (Pending(q)' <=> Pending(q))
    BY <1>5, DsmWriteEffect
  <2>5. Addressed(m, o)
    BY <2>2, <2>3, <2>4 DEF Addressed, Route
  <2> QED BY <1>5, <2>4, <2>5 DEF DsmWriteFifo, procVars
<1> QED BY <1>1, <1>2, <1>3, <1>4, <1>5, StreamFrame

\* What was addressed to l keeps its entry in l's PU.
LEMMA NamedStep ==
  ASSUME LinkInv, FlightInv, Directed, FdsRouted, DeliveredToNamed, [Next]_vars
  PROVE  DeliveredToNamed'
<1> DEFINE ToName(l, u) == \E i \in FifoId : /\ Filled(Home[l], i, u)
                                             /\ fifo[Home[l]][i].local_uuid = l
<1>1. ASSUME NEW l \in Proc, NEW u, ToName(l, u)
      PROVE  \E i \in FifoId : Filled(Home[l], i, u)' /\ fifo'[Home[l]][i].local_uuid = l
  <2>1. PICK i \in FifoId : Filled(Home[l], i, u) /\ fifo[Home[l]][i].local_uuid = l
    BY <1>1
  <2>2. Home[l] \in PU /\ Home[l] # -1
    BY ProcAssumption DEF PU
  <2>3. fifo'[Home[l]][i] = fifo[Home[l]][i]
    BY <2>1, <2>2, EntriesStay DEF Filled
  <2>4. Filled(Home[l], i, u)'
    BY <2>1, <2>2, FilledStays
  <2> QED BY <2>1, <2>3, <2>4
<1>2. ASSUME NEW l \in Proc, NEW m \in Message, Addressed(m, l) PROVE ToName(l, m.dst)
  <2>1. PICK p \in Proc, i \in FifoId :
          <<m.dst, i>> \in fds[p] /\ fifo[Route(Home[p], i)][i].local_uuid = l
    BY <1>2 DEF Addressed
  <2>2. Filled(Route(Home[p], i), i, m.dst)
    <3>1. <<m.dst, i>>[2] # -1
      BY Ids
    <3> QED BY <2>1, <3>1 DEF FdsRouted
  <2>3. Route(Home[p], i) = Home[l]
    BY <2>1, <2>2 DEF Filled, HasPath
  <2> QED BY <2>1, <2>2, <2>3
<1> HIDE DEF ToName
<1>3. \A l \in Proc : \A k \in DOMAIN Stream(l) : ToName(l, Stream(l)[k].dst)
  BY DEF DeliveredToNamed, Stream, ToName
<1>4. ASSUME NEW l \in Proc, NEW k \in DOMAIN Stream(l)'
      PROVE  \E i \in FifoId : /\ Filled(Home[l], i, Stream(l)[k].dst)'
                               /\ fifo'[Home[l]][i].local_uuid = l
  <2>1. PICK u : u = Stream(l)'[k].dst
    OBVIOUS
  <2>2. ToName(l, u)
    BY <1>2, <1>3, <2>1, StreamStep
  <2>3. PICK i \in FifoId : Filled(Home[l], i, u)' /\ fifo'[Home[l]][i].local_uuid = l
    BY <1>1, <2>2
  <2>4. Filled(Home[l], i, Stream(l)[k].dst)'
    BY <2>1, <2>3 DEF Filled
  <2> QED BY <2>3, <2>4
<1> QED BY <1>4 DEF DeliveredToNamed, Stream

\* While the cursors stay in their partitions and no socket is reset, what
\* comes through a process's pipe was written for a uuid under which that
\* process registered its fifo.
THEOREM Delivery == Spec /\ []CursorInPartition /\ []NoReset => []DeliveredToNamed
<1>1. Init => DeliveredToNamed
  <2> SUFFICES ASSUME Init PROVE DeliveredToNamed
    OBVIOUS
  <2>1. \A l \in Proc : Stream(l) = <<>>
    BY ConcatEmptySeq DEF Init, Stream
  <2>2. \A l \in Proc : DOMAIN Stream(l) = {}
    BY <2>1
  <2> QED BY <2>2 DEF DeliveredToNamed, Stream
<1>2. LinkInv /\ FlightInv /\ Directed /\ FdsRouted /\ DeliveredToNamed /\ [Next]_vars
        => DeliveredToNamed'
  BY NamedStep
<1> QED BY <1>1, <1>2, LinkInvariant, FlightInvariant, DirectedInvariant, Routing, PTL
        DEF Spec

-----------------------------------------------------------------------------
(* That a message arrives, before its writer has the answer.               *)

\* Only SyscallFifoInit changes global_fifo_list, and what it fills in is taken.
LEMMA FreshStep == ASSUME LinkInv, Fresh, [Next]_vars PROVE Fresh'
<1>1. ASSUME fifo' = fifo PROVE Fresh'
  BY <1>1 DEF Fresh
<1>2. ASSUME NEW p \in Proc, ProcNext(p) PROVE fifo' = fifo
  BY <1>2 DEF ProcNext, RegisterSelfGlobal, GlobalFifoInit, GlobalFifoConnect,
     GlobalFifoWrite, GlobalFifoRead, GlobalFifoClose, GlobalSpawn, Return, FifoRead,
     AnswerLost, Die, osVars
<1>3. ASSUME NEW s \in PU, OsNext(s) PROVE fifo' = fifo \/ SyscallFifoInit(s)
  <2>1. CASE \E p \in Proc : Receive(s, p) \/ ReceiveEof(s, p) \/ ReceiveError(s, p)
    BY <2>1 DEF Receive, ReceiveEof, ReceiveError, osVars
  <2>2. CASE \/ ReplyToBroken(s) \/ UnknownSyscall(s) \/ RegisterNoSegment(s)
             \/ BoundPanic(s) \/ WriteTooLong(s) \/ OpenPanic(s) \/ WritePanic(s)
    BY <2>2, PanicSteps DEF Panic
  <2>3. CASE SysHandler(s) \/ DsmNext(s)
    BY <2>2, <2>3 DEF SysHandler, DsmNext, Reply, SyscallRegisterGlobal,
       FifoInitInsert, SyscallFifoConnect, FifoConnectAnswer, SyscallFifoRead,
       SyscallFifoWrite, FifoWriteAnswer, SyscallGspawn, SysOpenFifo, SysWriteFifo,
       DsmHandlers, DsmOpenFifo, DsmWriteFifo, osVars
  <2> QED BY <1>3, <2>1, <2>2, <2>3 DEF OsNext
<1>4. ASSUME NEW s \in PU, SyscallFifoInit(s) PROVE Fresh'
  <2>1. fifo \in [PU -> [FifoId -> Entry]]
    BY DEF LinkInv, TypeOK, OsTypeOK
  <2>2. CASE fifo' = fifo
    BY <1>1, <2>2
  <2>3. CASE fifo' # fifo
    <3>1. PICK e : /\ e = [pu_id |-> s, local_uuid |-> sysReq[s].local,
                             global_uuid |-> sysReq[s].uuid]
                   /\ fifo' = [fifo EXCEPT ![s][NextFifo(s)] = e]
      BY <1>4, <2>3 DEF SyscallFifoInit
    <3>2. e.pu_id # -1
      BY <3>1 DEF PU
    <3>3. \A t \in PU, i \in FifoId : fifo'[t][i] = fifo[t][i] \/ fifo'[t][i] = e
      BY <2>1, <3>1
    <3> QED BY <3>2, <3>3 DEF Fresh
  <2> QED BY <2>2, <2>3
<1> QED BY <1>1, <1>2, <1>3, <1>4 DEF Next, vars, osVars

\* A pipe that an entry names exists from then on, and the entry keeps it.
LEMMA PathStays ==
  ASSUME LinkInv, Fresh, [Next]_vars, NEW s \in PU, NEW i \in FifoId,
         HasPath(s, fifo[s][i].local_uuid)
  PROVE  HasPath(s, fifo[s][i].local_uuid)'
<1>1. made \subseteq made' /\ made \subseteq Proc
  BY PipesStay DEF LinkInv, TypeOK, ProcTypeOK
<1>2. fifo[s][i].pu_id # -1
  BY <1>1, ProcAssumption DEF Fresh, HasPath
<1>3. fifo'[s][i] = fifo[s][i]
  BY <1>2, EntriesStay
<1> QED BY <1>1, <1>3 DEF HasPath

\* A thread comes to its write from there or from the open before it.
LEMMA WhoWrites ==
  ASSUME LinkInv, [Next]_vars, NEW t \in PU
  PROVE  /\ sysPc'[t] = "write" => /\ sysReq'[t] = sysReq[t]
                                   /\ sysPc[t] = "write" \/ SysOpenFifo(t)
         /\ dsmPc'[t] = "write" => /\ dsmReq'[t] = dsmReq[t]
                                   /\ dsmPc[t] = "write" \/ DsmOpenFifo(t)
<1>1. /\ sysPc \in [PU -> SysPc] /\ sysReq \in [PU -> Request]
      /\ dsmPc \in [PU -> DsmPc] /\ dsmReq \in [PU -> Request]
  BY DEF LinkInv, TypeOK, ThreadTypeOK
<1>2. CASE UNCHANGED <<sysVars, dsmVars>>
  BY <1>2 DEF sysVars, dsmVars
<1>3. ASSUME NEW p \in Proc, ProcNext(p) PROVE UNCHANGED <<sysVars, dsmVars>>
  BY <1>3 DEF ProcNext, RegisterSelfGlobal, GlobalFifoInit, GlobalFifoConnect,
     GlobalFifoWrite, GlobalFifoRead, GlobalFifoClose, GlobalSpawn, Return, FifoRead,
     AnswerLost, Die
<1>4. ASSUME NEW s \in PU, OsNext(s)
      PROVE  /\ sysPc'[t] = "write" => /\ sysReq'[t] = sysReq[t]
                                       /\ sysPc[t] = "write" \/ SysOpenFifo(t)
             /\ dsmPc'[t] = "write" => /\ dsmReq'[t] = dsmReq[t]
                                       /\ dsmPc[t] = "write" \/ DsmOpenFifo(t)
  <2>1. CASE \E p \in Proc : Receive(s, p) \/ ReceiveEof(s, p) \/ ReceiveError(s, p)
    BY <1>1, <2>1 DEF Receive, ReceiveEof, ReceiveError, sysVars, dsmVars
  <2>2. CASE \/ ReplyToBroken(s) \/ UnknownSyscall(s) \/ RegisterNoSegment(s)
             \/ BoundPanic(s) \/ WriteTooLong(s) \/ OpenPanic(s) \/ WritePanic(s)
    BY <1>2, <2>2, PanicSteps DEF Panic
  <2>3. CASE DsmNext(s)
    BY <1>1, <2>3 DEF DsmNext, DsmHandlers, DsmOpenFifo, DsmWriteFifo, sysVars
  <2>4. CASE \/ SyscallRegisterGlobal(s) \/ SyscallFifoInit(s) \/ FifoInitInsert(s)
             \/ SyscallFifoRead(s) \/ SyscallGspawn(s) \/ SysWriteFifo(s) \/ Reply(s)
    <3>1. sysReq' = sysReq /\ UNCHANGED dsmVars
      BY <2>4 DEF SyscallRegisterGlobal, SyscallFifoInit, FifoInitInsert,
         SyscallFifoRead, SyscallGspawn, SysWriteFifo, Reply, Result, Goto
    <3>2. sysPc'[t] = sysPc[t] \/ sysPc'[t] # "write"
      BY <1>1, <2>4 DEF SyscallRegisterGlobal, SyscallFifoInit, FifoInitInsert,
         SyscallFifoRead, SyscallGspawn, SysWriteFifo, Reply, Result, Goto
    <3> QED BY <3>1, <3>2 DEF dsmVars
  <2>5. CASE SysOpenFifo(s)
    BY <1>1, <2>5 DEF SysOpenFifo, Goto, dsmVars
  <2>6. CASE SyscallFifoConnect(s) \/ SyscallFifoWrite(s)
    <3>1. \/ sysReq' = sysReq /\ UNCHANGED <<dsmPc, dsmReq>>
          \/ DsmCall(s, NoMsg) \/ DsmCall(s, Outgoing(s))
      BY <2>6 DEF SyscallFifoConnect, SyscallFifoWrite, Result, Goto, dsmVars
    <3>2. sysPc'[t] = sysPc[t] \/ sysPc'[t] # "write"
      BY <1>1, <2>6 DEF SyscallFifoConnect, SyscallFifoWrite, Result, Goto, DsmCall
    <3>3. ASSUME NEW m, DsmCall(s, m)
          PROVE  /\ sysReq' = sysReq
                 /\ dsmPc'[t] = "write" => dsmPc[t] = "write" /\ dsmReq'[t] = dsmReq[t]
      BY <1>1, <3>3, OtherPU DEF DsmCall, Goto
    <3> QED BY <3>1, <3>2, <3>3
  <2>7. CASE FifoConnectAnswer(s) \/ FifoWriteAnswer(s)
    <3>1. sysReq' = sysReq /\ DsmReturn(s)
      BY <2>7 DEF FifoConnectAnswer, FifoWriteAnswer, Result
    <3>2. sysPc'[t] = sysPc[t] \/ sysPc'[t] # "write"
      BY <1>1, <2>7 DEF FifoConnectAnswer, FifoWriteAnswer, Result
    <3>3. dsmPc'[t] = "write" => dsmPc[t] = "write" /\ dsmReq'[t] = dsmReq[t]
      BY <1>1, <3>1, OtherPU DEF DsmReturn
    <3> QED BY <3>1, <3>2, <3>3
  <2> QED BY <1>4, <2>1, <2>2, <2>3, <2>4, <2>5, <2>6, <2>7 DEF OsNext, SysHandler
<1> QED BY <1>2, <1>3, <1>4 DEF Next, vars, sysVars, dsmVars

\* Every step keeps the pipes open: fifo_connect has seen the path.
LEMMA OpenedStep ==
  ASSUME LinkInv, FlightInv, Directed, Fresh, Opened, [Next]_vars PROVE Opened'
<1> SUFFICES ASSUME NEW s \in PU
             PROVE  /\ sysPc'[s] = "write" =>
                         /\ sysReq'[s].id \in FifoId
                         /\ HasPath(s, fifo[s][sysReq[s].id].local_uuid)'
                    /\ dsmPc'[s] = "write" =>
                         /\ dsmReq'[s].id \in FifoId
                         /\ HasPath(s, fifo[s][dsmReq[s].id].local_uuid)'
  BY DEF Opened
<1>1. ASSUME NEW i \in FifoId, HasPath(s, fifo[s][i].local_uuid)
      PROVE  HasPath(s, fifo[s][i].local_uuid)'
  BY <1>1, PathStays
<1>2. ASSUME sysPc'[s] = "write"
      PROVE  /\ sysReq'[s].id \in FifoId
             /\ HasPath(s, fifo[s][sysReq[s].id].local_uuid)'
  <2>1. sysReq'[s] = sysReq[s] /\ (sysPc[s] = "write" \/ SysOpenFifo(s))
    BY <1>2, WhoWrites
  <2>2. PICK i \in FifoId : i = sysReq[s].id /\ HasPath(s, fifo[s][i].local_uuid)
    BY <2>1 DEF Opened, Directed, SysOpenFifo, At, CanOpen
  <2>3. HasPath(s, fifo[s][i].local_uuid)'
    BY <1>1, <2>2
  <2> QED BY <2>1, <2>2, <2>3 DEF HasPath
<1>3. ASSUME dsmPc'[s] = "write"
      PROVE  /\ dsmReq'[s].id \in FifoId
             /\ HasPath(s, fifo[s][dsmReq[s].id].local_uuid)'
  <2>1. dsmReq'[s] = dsmReq[s] /\ (dsmPc[s] = "write" \/ DsmOpenFifo(s))
    BY <1>3, WhoWrites
  <2>2. PICK i \in FifoId : i = dsmReq[s].id /\ HasPath(s, fifo[s][i].local_uuid)
    <3>1. CASE dsmPc[s] = "write"
      BY <3>1 DEF Opened
    <3>2. CASE DsmOpenFifo(s)
      <4>1. dsmPc[s] = "open" /\ dsmReq[s].func = "FIFO_WRITE"
        BY <3>2 DEF DsmOpenFifo, DsmAt, LinkInv, Threads
      <4>2. Other(s) \in PU /\ Other(Other(s)) = s
        BY OtherPU
      <4>3. sysPc[Other(s)] = "dsm_call" /\ sysReq[Other(s)] = dsmReq[s]
        BY <4>1, <4>2 DEF FlightInv, Coupled, LinkInv, Threads
      <4>4. dsmReq[s].id \in FifoId
        BY <4>1, <4>2, <4>3 DEF Directed
      <4> QED BY <3>2, <4>4 DEF DsmOpenFifo, CanOpen
    <3> QED BY <2>1, <3>1, <3>2
  <2>3. HasPath(s, fifo[s][i].local_uuid)'
    BY <1>1, <2>2
  <2> QED BY <2>1, <2>2, <2>3 DEF HasPath
<1> QED BY <1>2, <1>3

\* Only the two writes end a write: it stays pending through every other step.
LEMMA PendingStays ==
  ASSUME LinkInv, FlightInv, NoReset, [Next]_vars, NEW p \in Proc, Pending(p),
         ~SysWriteFifo(Home[p]), ~DsmWriteFifo(Other(Home[p]))
  PROVE  Pending(p)'
<1>1. /\ conn \in [Proc -> ConnSt] /\ req \in [Proc -> Request]
      /\ sysPc \in [PU -> SysPc] /\ dsmPc \in [PU -> DsmPc]
  BY DEF LinkInv, TypeOK, ProcTypeOK, ThreadTypeOK
<1> DEFINE h == Home[p]
           o == Other(h)
<1>2. /\ h \in PU /\ o \in PU /\ o # h /\ Other(o) = h
      /\ \A t \in PU : t = h \/ t = o
  BY ProcAssumption, OtherPU
<1>3. conn[p] \in {"request", "busy"} /\ req[p].func = "FIFO_WRITE"
  BY DEF Pending
<1>4. /\ st[p] \notin {"run", "read", "absent"}
      /\ conn[p] = "busy" => /\ sysConn[h] = p /\ sysPc[h] # "epoll"
                             /\ sysReq[h].func = "FIFO_WRITE"
  BY <1>3 DEF LinkInv, Sessions
<1>5. dsmPc[o] # "idle" /\ sysReq[h].func = "FIFO_WRITE" => dsmReq[o].func = "FIFO_WRITE"
  BY <1>2 DEF FlightInv, Coupled, LinkInv, Threads
<1> HIDE DEF h, o
<1>6. ASSUME req'[p] = req[p], conn'[p] = conn[p],
             conn[p] = "busy" => /\ sysPc'[h] # "reply"
                                 /\ sysPc'[h] = "dsm_call" => dsmPc'[o] # "response"
      PROVE  Pending(p)'
  BY <1>3, <1>6 DEF Pending, h, o
<1>7. /\ sysPc[h] # "reply" \/ conn[p] # "busy"
      /\ conn[p] = "busy" /\ sysPc[h] = "dsm_call" => dsmPc[o] # "response"
  BY DEF Pending, h, o
<1>8. CASE UNCHANGED <<req, conn, sysPc, dsmPc>>
  BY <1>6, <1>7, <1>8
<1>9. ASSUME NEW q \in Proc, ProcNext(q) PROVE Pending(p)'
  <2>1. UNCHANGED <<sysPc, dsmPc>>
    BY <1>9 DEF ProcNext, RegisterSelfGlobal, GlobalFifoInit, GlobalFifoConnect,
       GlobalFifoWrite, GlobalFifoRead, GlobalFifoClose, GlobalSpawn, Return, FifoRead,
       AnswerLost, Die, sysVars, dsmVars
  <2>2. req'[p] = req[p] /\ conn'[p] = conn[p]
    BY <1>1, <1>3, <1>4, <1>9 DEF ProcNext, RegisterSelfGlobal, GlobalFifoInit,
       GlobalFifoConnect, GlobalFifoWrite, GlobalFifoRead, GlobalFifoClose, GlobalSpawn,
       Send, Return, FifoRead, AnswerLost, Die
  <2> QED BY <1>6, <1>7, <2>1, <2>2
<1>10. ASSUME NEW s \in PU, OsNext(s) PROVE Pending(p)'
  <2> USE DEF At, Handling
  <2>1. CASE \E q \in Proc : Receive(s, q) \/ ReceiveEof(s, q) \/ ReceiveError(s, q)
    <3>1. PICK q \in Proc : Receive(s, q) \/ ReceiveEof(s, q) \/ ReceiveError(s, q)
      BY <2>1
    <3>2. ~ReceiveError(s, q)
      BY DEF NoReset, ReceiveError
    <3>3. UNCHANGED <<req, dsmPc>>
      BY <3>1 DEF Receive, ReceiveEof, ReceiveError, procVars, dsmVars
    <3>4. CASE ReceiveEof(s, q)
      BY <1>1, <1>3, <1>6, <1>7, <3>3, <3>4 DEF ReceiveEof, sysVars
    <3>5. CASE Receive(s, q) /\ q = p
      <4>1. conn'[p] = "busy" /\ sysPc'[h] = "dispatch"
        BY <1>1, <1>2, <3>5 DEF Receive, h
      <4> QED BY <1>3, <3>3, <4>1 DEF Pending, h
    <3>6. CASE Receive(s, q) /\ q # p
      <4>1. conn'[p] = conn[p] /\ (conn[p] = "busy" => sysPc'[h] = sysPc[h])
        BY <1>1, <1>2, <1>4, <3>6 DEF Receive
      <4> QED BY <1>6, <1>7, <3>3, <4>1
    <3> QED BY <3>1, <3>2, <3>4, <3>5, <3>6
  <2>2. CASE \/ ReplyToBroken(s) \/ UnknownSyscall(s) \/ RegisterNoSegment(s)
             \/ BoundPanic(s) \/ WriteTooLong(s) \/ OpenPanic(s) \/ WritePanic(s)
    BY <1>8, <2>2, PanicSteps DEF Panic, sysVars, dsmVars, procVars
  <2>3. CASE Reply(s)
    <3>1. /\ UNCHANGED <<req, dsmPc>> /\ sysPc[s] = "reply"
          /\ \A t \in PU : t # s => sysPc'[t] = sysPc[t]
          /\ \A q \in Proc : q # sysConn[s] => conn'[q] = conn[q]
      BY <1>1, <2>3 DEF Reply, procVars, dsmVars
    <3>2. CASE sysConn[s] # p
      <4>1. conn[p] = "busy" => h # s
        BY <1>4, <3>2
      <4> QED BY <1>2, <1>6, <1>7, <3>1, <3>2, <4>1
    <3>3. CASE sysConn[s] = p
      <4>1. conn[p] = "busy" /\ h = s
        BY <2>3, <3>1, <3>3 DEF Reply, FlightInv, Serving, h
      <4> QED BY <1>7, <3>1, <4>1
    <3> QED BY <3>2, <3>3
  <2>4. CASE \/ SyscallRegisterGlobal(s) \/ SyscallFifoInit(s) \/ FifoInitInsert(s)
             \/ SyscallFifoRead(s) \/ SyscallGspawn(s) \/ SysOpenFifo(s)
    <3>1. /\ UNCHANGED <<req, conn, dsmPc>>
          /\ \A t \in PU : t # s => sysPc'[t] = sysPc[t]
      BY <1>1, <2>4 DEF SyscallRegisterGlobal, SyscallFifoInit, FifoInitInsert,
         SyscallFifoRead, SyscallGspawn, SysOpenFifo, Goto, Result, procVars, dsmVars
    <3>2. CASE s # h
      BY <1>2, <1>6, <1>7, <3>1, <3>2
    <3>3. CASE s = h
      <4>1. conn[p] = "busy" => SysOpenFifo(s)
        BY <1>4, <2>4, <3>3 DEF SyscallRegisterGlobal, SyscallFifoInit, FifoInitInsert,
           SyscallFifoRead, SyscallGspawn, LinkInv, Threads
      <4>2. conn[p] = "busy" => sysPc'[h] = "write"
        BY <1>1, <1>2, <3>3, <4>1 DEF SysOpenFifo, Goto
      <4> QED BY <1>6, <3>1, <4>2
    <3> QED BY <3>2, <3>3
  <2>5. CASE SyscallFifoConnect(s) \/ SyscallFifoWrite(s)
    <3>1. /\ UNCHANGED <<req, conn>> /\ sysPc[s] = "dispatch"
          /\ \A t \in PU : t # s => sysPc'[t] = sysPc[t]
      BY <1>1, <2>5 DEF SyscallFifoConnect, SyscallFifoWrite, Goto, Result, DsmCall,
         procVars
    <3>2. CASE s # h
      <4>1. s = o /\ Other(s) = h
        BY <1>2, <3>2
      <4>2. dsmPc'[o] = dsmPc[o]
        BY <1>1, <1>2, <2>5, <4>1 DEF SyscallFifoConnect, SyscallFifoWrite, DsmCall, dsmVars
      <4> QED BY <1>2, <1>6, <1>7, <3>1, <3>2, <4>2
    <3>3. CASE s = h
      <4>1. conn[p] = "busy" => SyscallFifoWrite(s)
        BY <1>4, <2>5, <3>3 DEF SyscallFifoConnect
      <4>2. conn[p] = "busy" => \/ sysPc'[h] = "open"
                                \/ dsmPc'[o] = "request" /\ sysPc'[h] = "dsm_call"
        BY <1>1, <1>2, <3>3, <4>1 DEF SyscallFifoWrite, Goto, DsmCall, o
      <4> QED BY <1>6, <3>1, <4>2
    <3> QED BY <3>2, <3>3
  <2>6. CASE FifoConnectAnswer(s) \/ FifoWriteAnswer(s)
    <3>1. /\ UNCHANGED <<req, conn>> /\ DsmReturn(s) /\ sysPc[s] = "dsm_call"
          /\ \A t \in PU : t # s => sysPc'[t] = sysPc[t]
      BY <1>1, <2>6 DEF FifoConnectAnswer, FifoWriteAnswer, Result, procVars
    <3>2. CASE s # h
      <4>1. s = o /\ Other(s) = h
        BY <1>2, <3>2
      <4>2. dsmPc'[o] = dsmPc[o]
        BY <1>1, <1>2, <3>1, <4>1 DEF DsmReturn
      <4> QED BY <1>2, <1>6, <1>7, <3>1, <3>2, <4>2
    <3>3. CASE s = h
      <4>1. conn[p] # "busy"
        BY <1>7, <3>1, <3>3 DEF DsmReturn, o
      <4> QED BY <1>6, <3>1, <4>1
    <3> QED BY <3>2, <3>3
  <2>7. CASE SysWriteFifo(s)
    <3>1. s # h
      BY <2>7 DEF h
    <3>2. /\ UNCHANGED <<req, conn, dsmPc>>
          /\ \A t \in PU : t # s => sysPc'[t] = sysPc[t]
      BY <2>7 DEF SysWriteFifo, Result, procVars, dsmVars
    <3> QED BY <1>2, <1>6, <1>7, <3>1, <3>2
  <2>8. CASE DsmHandlers(s) \/ DsmOpenFifo(s)
    <3>1. UNCHANGED <<req, conn, sysPc>> /\ dsmPc[s] # "idle"
      BY <2>8 DEF DsmHandlers, DsmOpenFifo, DsmAt, procVars, sysVars
    <3>2. CASE s # o
      BY <1>1, <1>2, <1>6, <1>7, <2>8, <3>1, <3>2 DEF DsmHandlers, DsmOpenFifo
    <3>3. CASE s = o
      <4>1. conn[p] = "busy" => dsmPc'[o] # "response"
        BY <1>1, <1>2, <1>4, <1>5, <2>8, <3>1, <3>3 DEF DsmHandlers, DsmOpenFifo
      <4> QED BY <1>6, <1>7, <3>1, <4>1
    <3> QED BY <3>2, <3>3
  <2>9. CASE DsmWriteFifo(s)
    <3>1. s # o
      BY <2>9 DEF h, o
    <3>2. UNCHANGED <<req, conn, sysPc>> /\ dsmPc'[o] = dsmPc[o]
      BY <1>1, <1>2, <2>9, <3>1 DEF DsmWriteFifo, procVars, sysVars
    <3> QED BY <1>6, <1>7, <3>2
  <2> QED BY <1>10, <2>1, <2>2, <2>3, <2>4, <2>5, <2>6, <2>7, <2>8, <2>9
          DEF OsNext, SysHandler, DsmNext
<1> QED BY <1>8, <1>9, <1>10 DEF Next, vars, sysVars, dsmVars, procVars

\* Nobody but p writes to p's segment: syscall_register_global shared it out once.
LEMMA SegmentStays ==
  ASSUME LinkInv, NumbersTaken, [Next]_vars, NEW p \in Proc, gid[p] \in Pid,
         ~GlobalFifoWrite(p)
  PROVE  shm'[Home[p]][gid[p]] = shm[Home[p]][gid[p]]
<1>1. CASE shm' = shm
  BY <1>1
<1>2. ASSUME NEW q \in Proc, ProcNext(q)
      PROVE  shm'[Home[p]][gid[p]] = shm[Home[p]][gid[p]]
  <2>1. CASE GlobalFifoWrite(q)
    <3>1. q # p
      BY <2>1
    <3>2. gid[q] \in Pid
      BY <2>1 DEF GlobalFifoWrite, LinkInv, TypeOK, ProcTypeOK
    <3>3. Home[q] # Home[p] \/ gid[q] # gid[p]
      BY <3>1, <3>2 DEF NumbersTaken, Numbers
    <3>4. PICK m : shm' = [shm EXCEPT ![Home[q]][gid[q]] = m]
      BY <2>1 DEF GlobalFifoWrite
    <3>5. shm \in [PU -> [Pid -> Message]] /\ Home[p] \in PU
      BY ProcAssumption DEF LinkInv, TypeOK, OsTypeOK
    <3> QED BY <3>3, <3>4, <3>5
  <2>2. CASE ~GlobalFifoWrite(q)
    BY <1>1, <1>2, <2>2 DEF ProcNext, RegisterSelfGlobal, GlobalFifoInit,
       GlobalFifoConnect, GlobalFifoRead, GlobalFifoClose, GlobalSpawn, Return, FifoRead,
       AnswerLost, Die, osVars
  <2> QED BY <2>1, <2>2
<1>3. ASSUME NEW s \in PU, OsNext(s) PROVE shm' = shm
  <2>1. CASE \E q \in Proc : Receive(s, q) \/ ReceiveEof(s, q) \/ ReceiveError(s, q)
    BY <2>1 DEF Receive, ReceiveEof, ReceiveError, osVars
  <2>2. CASE \/ ReplyToBroken(s) \/ UnknownSyscall(s) \/ RegisterNoSegment(s)
             \/ BoundPanic(s) \/ WriteTooLong(s) \/ OpenPanic(s) \/ WritePanic(s)
    BY <2>2, PanicSteps DEF Panic
  <2>3. CASE SysHandler(s) \/ DsmNext(s)
    BY <2>2, <2>3 DEF SysHandler, DsmNext, Reply, SyscallRegisterGlobal, SyscallFifoInit,
       FifoInitInsert, SyscallFifoConnect, FifoConnectAnswer, SyscallFifoRead,
       SyscallFifoWrite, FifoWriteAnswer, SyscallGspawn, SysOpenFifo, SysWriteFifo,
       DsmHandlers, DsmOpenFifo, DsmWriteFifo, osVars
  <2> QED BY <1>3, <2>1, <2>2, <2>3 DEF OsNext
<1> QED BY <1>1, <1>2, <1>3 DEF Next, vars, osVars

\* A write starts with GlobalFifoWrite and ends with Return.
LEMMA WritesFrame ==
  ASSUME LinkInv, [Next]_vars, NEW p \in Proc
  PROVE  /\ \/ GlobalFifoWrite(p)
            \/ req'[p].func = "FIFO_WRITE" => req'[p] = req[p] /\ gid'[p] = gid[p]
         /\ acked'[p] = acked[p] \/ Return(p)
<1>1. /\ req \in [Proc -> Request] /\ gid \in [Proc -> Pid \cup {-1}]
      /\ acked \in [Proc -> SUBSET Message]
  BY DEF LinkInv, TypeOK, ProcTypeOK
<1>2. CASE UNCHANGED <<req, gid, acked>>
  BY <1>2
<1>3. ASSUME NEW q \in Proc, ProcNext(q), q # p
      PROVE  req'[p] = req[p] /\ gid'[p] = gid[p] /\ acked'[p] = acked[p]
  BY <1>1, <1>3 DEF ProcNext, RegisterSelfGlobal, GlobalFifoInit, GlobalFifoConnect,
     GlobalFifoWrite, GlobalFifoRead, GlobalFifoClose, GlobalSpawn, Send, Return,
     FifoRead, AnswerLost, Die
<1>4. ASSUME ProcNext(p)
      PROVE  /\ \/ GlobalFifoWrite(p)
                \/ req'[p].func = "FIFO_WRITE" => req'[p] = req[p] /\ gid'[p] = gid[p]
             /\ acked'[p] = acked[p] \/ Return(p)
  <2>1. CASE \/ RegisterSelfGlobal(p) \/ GlobalFifoInit(p) \/ GlobalFifoConnect(p)
             \/ GlobalFifoRead(p) \/ GlobalFifoClose(p) \/ GlobalSpawn(p)
    BY <1>1, <2>1 DEF RegisterSelfGlobal, GlobalFifoInit, GlobalFifoConnect,
       GlobalFifoRead, GlobalFifoClose, GlobalSpawn, Send, Args
  <2>2. CASE Return(p)
    BY <1>1, <2>2, UnusedRequest DEF Return
  <2>3. CASE FifoRead(p) \/ AnswerLost(p) \/ Die(p)
    BY <2>3 DEF FifoRead, AnswerLost, Die
  <2>4. CASE GlobalFifoWrite(p)
    BY <2>4 DEF GlobalFifoWrite
  <2> QED BY <1>4, <2>1, <2>2, <2>3, <2>4 DEF ProcNext
<1>5. ASSUME NEW s \in PU, OsNext(s) PROVE UNCHANGED <<req, gid, acked>>
  <2>1. CASE \E q \in Proc : Receive(s, q) \/ ReceiveEof(s, q) \/ ReceiveError(s, q)
    BY <2>1 DEF Receive, ReceiveEof, ReceiveError, procVars
  <2>2. CASE \/ ReplyToBroken(s) \/ UnknownSyscall(s) \/ RegisterNoSegment(s)
             \/ BoundPanic(s) \/ WriteTooLong(s) \/ OpenPanic(s) \/ WritePanic(s)
    BY <2>2, PanicSteps DEF Panic, procVars
  <2>3. CASE SysHandler(s) \/ DsmNext(s)
    BY <2>2, <2>3 DEF SysHandler, DsmNext, Reply, SyscallRegisterGlobal, SyscallFifoInit,
       FifoInitInsert, SyscallFifoConnect, FifoConnectAnswer, SyscallFifoRead,
       SyscallFifoWrite, FifoWriteAnswer, SyscallGspawn, SysOpenFifo, SysWriteFifo,
       DsmHandlers, DsmOpenFifo, DsmWriteFifo, procVars
  <2> QED BY <1>5, <2>1, <2>2, <2>3 DEF OsNext
<1> QED BY <1>2, <1>3, <1>4, <1>5 DEF Next, vars, procVars

\* A message without white space in front passes dsm_handlers as it is.
LEMMA ParsedSame == ASSUME NEW m \in Message, m.blank = FALSE PROVE Parsed(m) = m
<1>1. CASE m = NoMsg
  BY <1>1 DEF Parsed, NoMsg
<1>2. CASE m # NoMsg
  BY <1>2 DEF Parsed, Message
<1> QED BY <1>1, <1>2

\* What is appended to a pipe of this PU is in a stream then.
LEMMA AppendArrives ==
  ASSUME LinkInv, NEW l \in Proc, NEW m \in Message, rcvd' = rcvd,
         pipe' = [pipe EXCEPT ![l] = Append(@, m)]
  PROVE  Arrived(m)'
<1>1. pipe \in [Proc -> Seq(Message)]
  BY DEF LinkInv, TypeOK, ProcTypeOK
<1>2. Stream(l)' = Append(Stream(l), m)
  <2>1. \A a, b \in Seq(Message) : a \o Append(b, m) = Append(a \o b, m)
    BY AppendBehind
  <2> QED BY <1>1, <2>1, StreamTypes DEF Stream
<1>3. /\ Len(Stream(l)) + 1 \in DOMAIN Append(Stream(l), m)
      /\ Append(Stream(l), m)[Len(Stream(l)) + 1] = m
  <2>1. Stream(l) \in Seq(Message) /\ Len(Stream(l)) \in Nat
    BY StreamTypes
  <2>2. /\ Append(Stream(l), m) \in Seq(Message)
        /\ Len(Append(Stream(l), m)) = Len(Stream(l)) + 1
        /\ Append(Stream(l), m)[Len(Stream(l)) + 1] = m
    BY <2>1, AppendProperties
  <2> QED BY <2>1, <2>2, LenProperties
<1> QED BY <1>2, <1>3 DEF Arrived

\* While no process is killed, nothing leaves a stream.
LEMMA ArrivedStays ==
  ASSUME LinkInv, FlightInv, Opened, Mortal = {}, [Next]_vars, NEW m, Arrived(m)
  PROVE  Arrived(m)'
<1> PICK l \in Proc : \E k \in DOMAIN Stream(l) : Stream(l)[k] = m
  BY DEF Arrived
<1>1. PICK k \in DOMAIN Stream(l) : Stream(l)[k] = m
  OBVIOUS
<1>2. CASE UNCHANGED <<pipe, rcvd>>
  BY <1>1, <1>2 DEF Arrived, Stream
<1>3. ASSUME NEW p \in Proc, FifoRead(p) PROVE Arrived(m)'
  <2>1. Stream(l)' = Stream(l)
    BY <1>3, FifoReadStream
  <2> QED BY <1>1, <2>1 DEF Arrived
<1>4. ASSUME NEW o \in Proc \cup {NoProc}, NEW x \in Message, rcvd' = rcvd,
             pipe' = [pipe EXCEPT ![o] = Append(@, x)]
      PROVE  Arrived(m)'
  <2>1. pipe \in [Proc -> Seq(Message)]
    BY DEF LinkInv, TypeOK, ProcTypeOK
  <2>2. CASE o # l
    BY <1>1, <1>4, <2>1, <2>2 DEF Arrived, Stream
  <2>3. CASE o = l
    <3>1. Stream(l)' = Append(Stream(l), x)
      <4>1. \A a, b \in Seq(Message) : a \o Append(b, x) = Append(a \o b, x)
        BY AppendBehind
      <4> QED BY <1>4, <2>1, <2>3, <4>1, StreamTypes DEF Stream
    <3>2. k \in DOMAIN Append(Stream(l), x) /\ Append(Stream(l), x)[k] = Stream(l)[k]
      <4>1. /\ Stream(l) \in Seq(Message) /\ Len(Stream(l)) \in Nat
            /\ k \in 1 .. Len(Stream(l))
        BY <1>1, StreamTypes
      <4>2. /\ Append(Stream(l), x) \in Seq(Message)
            /\ Len(Append(Stream(l), x)) = Len(Stream(l)) + 1
            /\ Append(Stream(l), x)[k] = Stream(l)[k]
        BY <4>1, AppendProperties
      <4> QED BY <4>1, <4>2, LenProperties
    <3> QED BY <1>1, <3>1, <3>2 DEF Arrived
  <2> QED BY <2>2, <2>3
<1>5. ASSUME NEW s \in PU, SysWriteFifo(s) PROVE Arrived(m)'
  <2>1. PICK p \in Proc, x \in Message, o \in Proc \cup {NoProc} :
          /\ p = sysConn[s] /\ Home[p] = s /\ req[p].func = "FIFO_WRITE"
          /\ x = Outgoing(s) /\ x = shm[Home[p]][gid[p]]
          /\ x.src = p /\ x.n = writes[p] /\ <<x.dst, sysReq[s].id>> \in fds[p]
          /\ Pending(p) /\ ~Pending(p)'
          /\ pipe' = [pipe EXCEPT ![o] = Append(@, x)]
          /\ sysReq[s].id \in FifoId => o = fifo[s][sysReq[s].id].local_uuid
          /\ \A q \in Proc : q # p => (Pending(q)' <=> Pending(q))
    BY <1>5, SysWriteEffect
  <2> QED BY <1>4, <1>5, <2>1 DEF SysWriteFifo, procVars
<1>6. ASSUME NEW s \in PU, DsmWriteFifo(s) PROVE Arrived(m)'
  <2>1. PICK p \in Proc, x \in Message, o \in Proc \cup {NoProc} :
          /\ p = sysConn[Other(s)] /\ Home[p] = Other(s)
          /\ req[p].func = "FIFO_WRITE"
          /\ x \in {shm[Home[p]][gid[p]], Parsed(shm[Home[p]][gid[p]])}
          /\ shm[Home[p]][gid[p]].blank \in Blanks
          /\ x.src = p /\ x.n = writes[p] /\ <<x.dst, dsmReq[s].id>> \in fds[p]
          /\ Pending(p) /\ ~Pending(p)'
          /\ pipe' = [pipe EXCEPT ![o] = Append(@, x)]
          /\ dsmReq[s].id \in FifoId => o = fifo[s][dsmReq[s].id].local_uuid
          /\ \A q \in Proc : q # p => (Pending(q)' <=> Pending(q))
    BY <1>6, DsmWriteEffect
  <2> QED BY <1>4, <1>6, <2>1 DEF DsmWriteFifo, procVars
<1>7. ~\E p \in Proc : Die(p)
  BY DEF Die
<1> QED BY <1>2, <1>3, <1>5, <1>6, <1>7, StreamFrame

\* The step that ends a write puts its message into a pipe.
LEMMA WriteArrives ==
  ASSUME LinkInv, FlightInv, NoReset, Opened, Blanks \subseteq {FALSE}, [Next]_vars,
         NEW p \in Proc, Pending(p), ~Pending(p)',
         NEW m, m = shm[Home[p]][gid[p]]
  PROVE  Arrived(m)'
<1>1. ASSUME NEW s \in PU, SysWriteFifo(s) PROVE Arrived(m)'
  <2>1. PICK q \in Proc, x \in Message, o \in Proc \cup {NoProc} :
          /\ q = sysConn[s] /\ Home[q] = s /\ req[q].func = "FIFO_WRITE"
          /\ x = Outgoing(s) /\ x = shm[Home[q]][gid[q]]
          /\ x.src = q /\ x.n = writes[q] /\ <<x.dst, sysReq[s].id>> \in fds[q]
          /\ Pending(q) /\ ~Pending(q)'
          /\ pipe' = [pipe EXCEPT ![o] = Append(@, x)]
          /\ sysReq[s].id \in FifoId => o = fifo[s][sysReq[s].id].local_uuid
          /\ \A r \in Proc : r # q => (Pending(r)' <=> Pending(r))
    BY <1>1, SysWriteEffect
  <2>2. x = m
    BY <2>1
  <2>3. o \in Proc
    BY <1>1, <2>1 DEF SysWriteFifo, At, Opened, HasPath, LinkInv, TypeOK, ProcTypeOK
  <2> QED BY <1>1, <2>1, <2>2, <2>3, AppendArrives DEF SysWriteFifo, procVars
<1>2. ASSUME NEW s \in PU, DsmWriteFifo(s) PROVE Arrived(m)'
  <2>1. PICK q \in Proc, x \in Message, o \in Proc \cup {NoProc} :
          /\ q = sysConn[Other(s)] /\ Home[q] = Other(s)
          /\ req[q].func = "FIFO_WRITE"
          /\ x \in {shm[Home[q]][gid[q]], Parsed(shm[Home[q]][gid[q]])}
          /\ shm[Home[q]][gid[q]].blank \in Blanks
          /\ x.src = q /\ x.n = writes[q] /\ <<x.dst, dsmReq[s].id>> \in fds[q]
          /\ Pending(q) /\ ~Pending(q)'
          /\ pipe' = [pipe EXCEPT ![o] = Append(@, x)]
          /\ dsmReq[s].id \in FifoId => o = fifo[s][dsmReq[s].id].local_uuid
          /\ \A r \in Proc : r # q => (Pending(r)' <=> Pending(r))
    BY <1>2, DsmWriteEffect
  <2>2. x = m
    <3>1. q = p /\ m.blank = FALSE
      BY <2>1
    <3>2. m \in Message
      BY <2>1, <3>1, ProcAssumption DEF LinkInv, Requests, TypeOK, OsTypeOK
    <3> QED BY <2>1, <3>1, <3>2, ParsedSame
  <2>3. o \in Proc
    BY <1>2, <2>1 DEF DsmWriteFifo, DsmAt, Opened, HasPath, LinkInv, TypeOK, ProcTypeOK
  <2> QED BY <1>2, <2>1, <2>2, <2>3, AppendArrives DEF DsmWriteFifo, procVars
<1>3. Home[p] \in PU /\ Other(Home[p]) \in PU
  BY ProcAssumption, OtherPU
<1> QED BY <1>1, <1>2, <1>3, PendingStays

\* Every step keeps it so that the writes done with have arrived.
LEMMA WritesArrivedStep ==
  ASSUME LinkInv, NumbersTaken, FlightInv, NoReset, Opened, WritesArrived,
         Mortal = {}, Blanks \subseteq {FALSE}, [Next]_vars
  PROVE  WritesArrived'
<1> SUFFICES ASSUME NEW p \in Proc, req'[p].func = "FIFO_WRITE", ~Pending(p)'
             PROVE  Arrived(shm[Home[p]][gid[p]])'
  BY DEF WritesArrived
<1>1. ~GlobalFifoWrite(p)
  <2>1. req \in [Proc -> Request] /\ conn \in [Proc -> ConnSt]
    BY DEF LinkInv, TypeOK, ProcTypeOK
  <2>2. GlobalFifoWrite(p) => conn'[p] = "request"
    BY <2>1 DEF GlobalFifoWrite, Send
  <2> QED BY <2>2 DEF Pending
<1>2. req'[p] = req[p] /\ gid'[p] = gid[p]
  BY <1>1, WritesFrame
<1>3. gid[p] \in Pid
  BY <1>2 DEF LinkInv, Requests
<1>4. PICK m : m = shm[Home[p]][gid[p]]
  OBVIOUS
<1>5. m = shm'[Home[p]][gid'[p]]
  BY <1>1, <1>2, <1>3, <1>4, SegmentStays
<1>6. Arrived(m)'
  <2>1. CASE Pending(p)
    BY <1>4, <2>1, WriteArrives
  <2>2. CASE ~Pending(p)
    <3>1. Arrived(m)
      BY <1>2, <1>4, <2>2 DEF WritesArrived
    <3> QED BY <3>1, ArrivedStays
  <2> QED BY <2>1, <2>2
<1> QED BY <1>5, <1>6 DEF Arrived

\* Every step keeps it so that the messages of the writes that returned are in
\* a pipe or have been read.
LEMMA AckedStep ==
  ASSUME LinkInv, FlightInv, Opened, WritesArrived, AckedDelivered, Mortal = {}, [Next]_vars
  PROVE  AckedDelivered'
<1>1. ASSUME NEW p \in Proc, NEW m \in acked'[p] PROVE Arrived(m)'
  <2>1. CASE m \in acked[p]
    <3>1. Arrived(m)
      BY <2>1 DEF AckedDelivered, Arrived, Stream
    <3> QED BY <3>1, ArrivedStays
  <2>2. CASE m \notin acked[p]
    <3>1. Return(p)
      BY <1>1, <2>2, WritesFrame
    <3>2. /\ conn[p] = "answer" /\ req[p].func = "FIFO_WRITE"
          /\ m = shm[Home[p]][gid[p]]
      <4>1. acked \in [Proc -> SUBSET Message]
        BY DEF LinkInv, TypeOK, ProcTypeOK
      <4> QED BY <1>1, <2>2, <3>1, <4>1 DEF Return
    <3>3. Arrived(m)
      BY <3>2 DEF WritesArrived, Pending
    <3> QED BY <3>3, ArrivedStays
  <2> QED BY <2>1, <2>2
<1> QED BY <1>1 DEF AckedDelivered, Arrived, Stream

\* Where no process is killed and no message starts with white space, the
\* message of every global_fifo_write that has returned is in a pipe or was
\* read, although the results of dsm_call and of write are ignored on the way.
THEOREM Acked ==
  ASSUME Mortal = {}, Blanks \subseteq {FALSE}
  PROVE  Spec => []AckedDelivered
<1> DEFINE Inv == Fresh /\ Opened /\ WritesArrived /\ AckedDelivered
<1>1. Init => Inv
  <2> SUFFICES ASSUME Init PROVE Inv
    OBVIOUS
  <2>1. Fresh /\ Opened
    BY DEF Init, Fresh, Opened
  <2>2. WritesArrived /\ AckedDelivered
    BY UnusedRequest DEF Init, WritesArrived, AckedDelivered
  <2> QED BY <2>1, <2>2
<1>2. /\ LinkInv /\ NumbersTaken /\ FlightInv /\ Directed /\ NoReset
      /\ Inv /\ [Next]_vars
      => Inv'
  BY FreshStep, OpenedStep, WritesArrivedStep, AckedStep
<1>3. Inv => AckedDelivered
  OBVIOUS
<1>4. Spec => []NoReset
  BY NoKillNoReset
<1> HIDE DEF Inv
<1> QED BY <1>1, <1>2, <1>3, <1>4, LinkInvariant, NumbersInvariant, FlightInvariant,
           DirectedInvariant, PTL DEF Spec
=============================================================================
