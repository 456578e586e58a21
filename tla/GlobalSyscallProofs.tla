------------------------- MODULE GlobalSyscallProofs -------------------------
(***************************************************************************)
(* TLAPS proofs about GlobalSyscall, for every value of the constants.     *)
(***************************************************************************)
EXTENDS GlobalSyscall, TLAPS

(***************************************************************************)
(* The inductive invariant.  TypeOK alone is not inductive: the value that *)
(* a process stores as its global pid has travelled through the thread,    *)
(* its socket and the DSM link, so the invariant follows requests and      *)
(* answers along that way.                                                 *)
(***************************************************************************)

\* A request carries the arguments its handler on PU s will rely on.
GoodRequest(r, s) ==
  /\ r.func = "FIFO_WRITE" => r.shmid \in Pid
  /\ r.func = "FIFO_CONNECT" => r.uuid \in Uuid
  /\ r.func = "FIFO_INIT" => HasPath(s, r.local)

Requests ==
  /\ \A p \in Proc : /\ GoodRequest(req[p], Home[p])
                     /\ req[p].func = "FIFO_WRITE" => gid[p] \in Pid
  /\ \A s \in PU : /\ GoodRequest(sysReq[s], s)
                   /\ GoodRequest(dsmReq[s], Other(s))

\* A process that is not in a call has nothing outstanding on its socket.
Sessions ==
  \A p \in Proc :
    /\ st[p] \in {"run", "read", "absent"} => conn[p] \in {"none", "idle"}
    /\ conn[p] = "busy" => /\ sysConn[Home[p]] = p
                           /\ sysReq[Home[p]] = req[p]
                           /\ sysPc[Home[p]] # "epoll"

\* Where a thread stands agrees with the request it works on.
Threads ==
  \A s \in PU :
    /\ sysConn[s] # NoProc => Home[sysConn[s]] = s
    /\ sysPc[s] \in {"open", "write"} => sysReq[s].func = "FIFO_WRITE"
    /\ sysPc[s] = "insert" => /\ sysReq[s].func = "FIFO_INIT"
                               /\ sysReq[s].uuid \in Uuid
    /\ sysPc[s] = "dsm_call" => dsmReq[Other(s)] = sysReq[s]
    /\ dsmPc[s] \in {"open", "write"} => dsmReq[s].func = "FIFO_WRITE"

\* An answer is one its request can have.
Answers ==
  /\ \A s \in PU :
       /\ dsmPc[s] = "response" /\ dsmReq[s].func = "FIFO_CONNECT"
            => dsmRet[s] \in FifoId \cup {-1}
       /\ sysPc[s] = "reply" /\ sysReq[s].func = "RegisterSelfGlobal"
            => sysRet[s] \in Pid \cup {-1}
  /\ \A p \in Proc :
       conn[p] = "answer" /\ req[p].func = "RegisterSelfGlobal"
         => ret[p] \in Pid \cup {-1}

LinkInv == TypeOK /\ Requests /\ Sessions /\ Threads /\ Answers

-----------------------------------------------------------------------------
(* Facts about the constants that the proofs below use as they are, so     *)
(* that the sets themselves stay unexpanded.                               *)

\* There are two PUs, and each is the other of the other.
LEMMA OtherPU == ASSUME NEW s \in PU
                 PROVE  /\ Other(s) \in PU
                        /\ Other(s) # s
                        /\ Other(Other(s)) = s
                        /\ \A t \in PU : t = s \/ t = Other(s)
BY DEF PU, Other

\* The program points and states that the actions assign are in their sets.
LEMMA Names ==
  /\ {"epoll", "dispatch", "insert", "dsm_call", "open", "write", "reply"} \subseteq SysPc
  /\ {"idle", "request", "open", "write", "response"} \subseteq DsmPc
  /\ {"absent", "run", "call", "read", "dead"} \subseteq ProcSt
  /\ {"idle", "request", "busy", "answer", "reset", "broken", "closed"} \subseteq ConnSt
BY DEF SysPc, DsmPc, ProcSt, ConnSt

\* The cursors of both tables stay inside them.
LEMMA Cursors == ASSUME NEW n \in Nat
                 PROVE  /\ (n + 1) % ProcessListSize \in Pid
                        /\ (n + 1) % GlobalFifoListSize \in FifoId
<1>1. ASSUME NEW k \in Nat \ {0} PROVE (n + 1) % k \in 0 .. k - 1
  BY <1>1
<1> QED BY <1>1, SizeAssumption DEF Pid, FifoId

\* Table indices are natural numbers, and -1 is none of them.
LEMMA Ids == /\ Pid \subseteq Nat /\ FifoId \subseteq Nat
             /\ Pid \subseteq Int /\ FifoId \subseteq Int
             /\ -1 \notin Pid /\ -1 \notin FifoId
BY SizeAssumption DEF Pid, FifoId

\* The fields of a request.
LEMMA RequestFields ==
  ASSUME NEW r \in Request
  PROVE  /\ r.func \in Func
         /\ r.id \in Int
         /\ r.uuid \in Uuid \cup {-1}
         /\ r.local \in Proc \cup {NoProc}
         /\ r.shmid \in Pid \cup {-1}
BY DEF Request

\* The empty request is a request.
LEMMA UnusedRequest == Unused \in Request /\ Unused.func = "GSPAWN"
BY DEF Unused, Func, Args, Request

\* Messages: the empty one, a parsed one, and a length that is an integer.
LEMMA Messages ==
  /\ NoMsg \in Message
  /\ \A m \in Message : Parsed(m) \in Message /\ m.len \in Int
<1>1. NoMsg \in Message
  BY DEF Message
<1>2. ASSUME NEW m \in Message PROVE Parsed(m) \in Message /\ m.len \in Int
  <2>1. CASE m = NoMsg
    BY <2>1 DEF Message, NoMsg, Parsed
  <2>2. CASE m # NoMsg
    <3>1. /\ m.src \in Proc /\ m.dst \in Uuid /\ m.n \in 1 .. MaxWrites
          /\ m.len \in Lens
      BY <2>2 DEF Message
    <3>2. Parsed(m) \in Message
      BY <3>1 DEF Message, Parsed
    <3>3. Lens \subseteq Int
      BY UseAssumption, SizeAssumption
    <3> QED BY <3>1, <3>2, <3>3
  <2> QED BY <2>1, <2>2
<1> QED BY <1>1, <1>2

-----------------------------------------------------------------------------
(* The steps of the processes.                                             *)

\* Sending a request that is fit for its handler keeps the invariant's parts.
LEMMA SendLink ==
  ASSUME LinkInv, NEW p \in Proc, NEW r \in Request, Send(p, r),
         UNCHANGED <<sysVars, dsmVars, gid, ret>>,
         made \subseteq made',
         r.func = "FIFO_WRITE" => r.shmid \in Pid /\ gid[p] \in Pid,
         r.func = "FIFO_CONNECT" => r.uuid \in Uuid,
         r.func = "FIFO_INIT" => r.local \in made' /\ Home[r.local] = Home[p]
  PROVE  /\ st' \in [Proc -> ProcSt] /\ conn' \in [Proc -> ConnSt]
         /\ req' \in [Proc -> Request]
         /\ Requests' /\ Sessions' /\ Threads' /\ Answers'
<1> USE DEF LinkInv, Send, sysVars, dsmVars
<1>1. /\ st \in [Proc -> ProcSt] /\ conn \in [Proc -> ConnSt]
      /\ req \in [Proc -> Request]
  BY DEF TypeOK, ProcTypeOK
<1>2. /\ st' \in [Proc -> ProcSt] /\ conn' \in [Proc -> ConnSt]
      /\ req' \in [Proc -> Request]
  BY <1>1, Names
<1>3. Requests'
  BY <1>1 DEF Requests, GoodRequest, HasPath
<1>4. conn[p] \in {"none", "idle"}
  BY DEF Sessions
<1>5. Sessions'
  BY <1>1, <1>4 DEF Sessions
<1>6. Threads'
  BY DEF Threads
<1>7. Answers'
  BY <1>1, <1>4 DEF Answers
<1> QED BY <1>2, <1>3, <1>5, <1>6, <1>7

\* The step RegisterSelfGlobal keeps the invariant.
LEMMA RegisterSelfGlobalLink ==
  ASSUME LinkInv, NEW p \in Proc, RegisterSelfGlobal(p) PROVE LinkInv'
<1> DEFINE r == Args("RegisterSelfGlobal", -1, -1, NoProc, -1)
<1>1. r \in Request /\ r.func = "RegisterSelfGlobal"
  BY DEF Args, Request, Func
<1>2. Send(p, r) /\ UNCHANGED <<sysVars, dsmVars, gid, ret>> /\ made' = made
  BY DEF RegisterSelfGlobal
<1> HIDE DEF r
<1>3. /\ st' \in [Proc -> ProcSt] /\ conn' \in [Proc -> ConnSt]
      /\ req' \in [Proc -> Request]
      /\ Requests' /\ Sessions' /\ Threads' /\ Answers'
  BY <1>1, <1>2, SendLink
<1>4. TypeOK'
  BY <1>3 DEF LinkInv, TypeOK, OsTypeOK, ThreadTypeOK, ProcTypeOK, RegisterSelfGlobal,
     osVars, sysVars, dsmVars
<1> QED BY <1>3, <1>4 DEF LinkInv

\* The step GlobalFifoInit keeps the invariant.
LEMMA GlobalFifoInitLink ==
  ASSUME LinkInv, NEW p \in Proc, GlobalFifoInit(p) PROVE LinkInv'
<1>1. PICK u \in Uuid \cup {-1} : Send(p, Args("FIFO_INIT", -1, u, p, -1))
  BY DEF GlobalFifoInit
<1> DEFINE r == Args("FIFO_INIT", -1, u, p, -1)
<1>2. r \in Request /\ r.func = "FIFO_INIT" /\ r.local = p
  BY DEF Args, Request, Func
<1>3. Send(p, r) /\ UNCHANGED <<sysVars, dsmVars, gid, ret>> /\ made' = made \cup {p}
  BY <1>1 DEF GlobalFifoInit
<1> HIDE DEF r
<1>4. /\ st' \in [Proc -> ProcSt] /\ conn' \in [Proc -> ConnSt]
      /\ req' \in [Proc -> Request]
      /\ Requests' /\ Sessions' /\ Threads' /\ Answers'
  BY <1>2, <1>3, SendLink
<1>5. inits' \in [Proc -> 0 .. MaxInits]
  BY UseAssumption DEF GlobalFifoInit, LinkInv, TypeOK, ProcTypeOK
<1>6. TypeOK'
  BY <1>4, <1>5 DEF LinkInv, TypeOK, OsTypeOK, ThreadTypeOK, ProcTypeOK, GlobalFifoInit,
     osVars, sysVars, dsmVars
<1> QED BY <1>4, <1>6 DEF LinkInv

\* The step GlobalFifoConnect keeps the invariant.
LEMMA GlobalFifoConnectLink ==
  ASSUME LinkInv, NEW p \in Proc, GlobalFifoConnect(p) PROVE LinkInv'
<1>1. PICK u \in Uuid : Send(p, Args("FIFO_CONNECT", -1, u, NoProc, -1))
  BY DEF GlobalFifoConnect
<1> DEFINE r == Args("FIFO_CONNECT", -1, u, NoProc, -1)
<1>2. r \in Request /\ r.func = "FIFO_CONNECT" /\ r.uuid = u
  BY DEF Args, Request, Func
<1>3. Send(p, r) /\ UNCHANGED <<sysVars, dsmVars, gid, ret>> /\ made' = made
  BY <1>1 DEF GlobalFifoConnect
<1> HIDE DEF r
<1>4. /\ st' \in [Proc -> ProcSt] /\ conn' \in [Proc -> ConnSt]
      /\ req' \in [Proc -> Request]
      /\ Requests' /\ Sessions' /\ Threads' /\ Answers'
  BY <1>2, <1>3, SendLink
<1>5. TypeOK'
  BY <1>4 DEF LinkInv, TypeOK, OsTypeOK, ThreadTypeOK, ProcTypeOK, GlobalFifoConnect,
     osVars, sysVars, dsmVars
<1> QED BY <1>4, <1>5 DEF LinkInv

\* The step GlobalFifoWrite keeps the invariant.
LEMMA GlobalFifoWriteLink ==
  ASSUME LinkInv, NEW p \in Proc, GlobalFifoWrite(p) PROVE LinkInv'
<1>1. PICK f \in fds[p], l \in Lens, b \in Blanks :
        /\ shm' = [shm EXCEPT ![Home[p]][gid[p]] =
                     [src |-> p, dst |-> f[1], n |-> writes[p] + 1, len |-> l,
                      blank |-> b]]
        /\ Send(p, Args("FIFO_WRITE", f[2], -1, NoProc, gid[p]))
  BY DEF GlobalFifoWrite
<1> DEFINE r == Args("FIFO_WRITE", f[2], -1, NoProc, gid[p])
           m == [src |-> p, dst |-> f[1], n |-> writes[p] + 1, len |-> l, blank |-> b]
<1>2. f[1] \in Uuid /\ f[2] \in Int /\ gid[p] \in Pid /\ writes[p] \in 0 .. MaxWrites
  BY DEF LinkInv, TypeOK, ProcTypeOK, GlobalFifoWrite
<1>3. r \in Request /\ r.func = "FIFO_WRITE" /\ r.shmid = gid[p]
  BY <1>2 DEF Args, Request, Func
<1>4. writes[p] + 1 \in 1 .. MaxWrites
  BY <1>2, UseAssumption DEF GlobalFifoWrite
<1>5. m \in Message
  BY <1>2, <1>4, UseAssumption DEF Message
<1>6. /\ Send(p, r) /\ UNCHANGED <<sysVars, dsmVars, gid, ret>> /\ made' = made
      /\ shm' = [shm EXCEPT ![Home[p]][gid[p]] = m]
  BY <1>1 DEF GlobalFifoWrite
<1> HIDE DEF r, m
<1>7. /\ st' \in [Proc -> ProcSt] /\ conn' \in [Proc -> ConnSt]
      /\ req' \in [Proc -> Request]
      /\ Requests' /\ Sessions' /\ Threads' /\ Answers'
  BY <1>2, <1>3, <1>6, SendLink
<1>8. shm' \in [PU -> [Pid -> Message]]
  BY <1>5, <1>6 DEF LinkInv, TypeOK, OsTypeOK
<1>9. writes' \in [Proc -> 0 .. MaxWrites]
  BY <1>4, UseAssumption DEF GlobalFifoWrite, LinkInv, TypeOK, ProcTypeOK
<1>10. TypeOK'
  BY <1>7, <1>8, <1>9 DEF LinkInv, TypeOK, OsTypeOK, ThreadTypeOK, ProcTypeOK,
     GlobalFifoWrite, osVars, sysVars, dsmVars
<1> QED BY <1>7, <1>10 DEF LinkInv

\* The step GlobalFifoRead keeps the invariant.
LEMMA GlobalFifoReadLink ==
  ASSUME LinkInv, NEW p \in Proc, GlobalFifoRead(p) PROVE LinkInv'
<1>1. PICK i \in own[p] : Send(p, Args("FIFO_READ", i, -1, NoProc, gid[p]))
  BY DEF GlobalFifoRead
<1> DEFINE r == Args("FIFO_READ", i, -1, NoProc, gid[p])
<1>2. i \in Int /\ gid[p] \in Pid
  BY DEF LinkInv, TypeOK, ProcTypeOK, GlobalFifoRead
<1>3. r \in Request /\ r.func = "FIFO_READ"
  BY <1>2 DEF Args, Request, Func
<1>4. Send(p, r) /\ UNCHANGED <<sysVars, dsmVars, gid, ret>> /\ made' = made
  BY <1>1 DEF GlobalFifoRead
<1> HIDE DEF r
<1>5. /\ st' \in [Proc -> ProcSt] /\ conn' \in [Proc -> ConnSt]
      /\ req' \in [Proc -> Request]
      /\ Requests' /\ Sessions' /\ Threads' /\ Answers'
  BY <1>3, <1>4, SendLink
<1>6. TypeOK'
  BY <1>5 DEF LinkInv, TypeOK, OsTypeOK, ThreadTypeOK, ProcTypeOK, GlobalFifoRead,
     osVars, sysVars, dsmVars
<1> QED BY <1>5, <1>6 DEF LinkInv

\* The step GlobalFifoClose keeps the invariant.
LEMMA GlobalFifoCloseLink ==
  ASSUME LinkInv, NEW p \in Proc, GlobalFifoClose(p) PROVE LinkInv'
<1>1. PICK i \in own[p] : Send(p, Args("FIFO_CLOSE", i, -1, NoProc, -1))
  BY DEF GlobalFifoClose
<1> DEFINE r == Args("FIFO_CLOSE", i, -1, NoProc, -1)
<1>2. i \in Int
  BY DEF LinkInv, TypeOK, ProcTypeOK
<1>3. r \in Request /\ r.func = "FIFO_CLOSE"
  BY <1>2 DEF Args, Request, Func
<1>4. Send(p, r) /\ UNCHANGED <<sysVars, dsmVars, gid, ret>> /\ made' = made
  BY <1>1 DEF GlobalFifoClose
<1> HIDE DEF r
<1>5. /\ st' \in [Proc -> ProcSt] /\ conn' \in [Proc -> ConnSt]
      /\ req' \in [Proc -> Request]
      /\ Requests' /\ Sessions' /\ Threads' /\ Answers'
  BY <1>3, <1>4, SendLink
<1>6. TypeOK'
  BY <1>5 DEF LinkInv, TypeOK, OsTypeOK, ThreadTypeOK, ProcTypeOK, GlobalFifoClose,
     osVars, sysVars, dsmVars
<1> QED BY <1>5, <1>6 DEF LinkInv

\* The step GlobalSpawn keeps the invariant.
LEMMA GlobalSpawnLink ==
  ASSUME LinkInv, NEW p \in Proc, GlobalSpawn(p) PROVE LinkInv'
<1>1. PICK s \in PU : Send(p, Args("GSPAWN", s, -1, NoProc, gid[p]))
  BY DEF GlobalSpawn
<1> DEFINE r == Args("GSPAWN", s, -1, NoProc, gid[p])
<1>2. s \in Int /\ gid[p] \in Pid
  BY DEF LinkInv, TypeOK, ProcTypeOK, GlobalSpawn, PU
<1>3. r \in Request /\ r.func = "GSPAWN"
  BY <1>2 DEF Args, Request, Func
<1>4. Send(p, r) /\ UNCHANGED <<sysVars, dsmVars, gid, ret>> /\ made' = made
  BY <1>1 DEF GlobalSpawn
<1> HIDE DEF r
<1>5. /\ st' \in [Proc -> ProcSt] /\ conn' \in [Proc -> ConnSt]
      /\ req' \in [Proc -> Request]
      /\ Requests' /\ Sessions' /\ Threads' /\ Answers'
  BY <1>3, <1>4, SendLink
<1>6. TypeOK'
  BY <1>5 DEF LinkInv, TypeOK, OsTypeOK, ThreadTypeOK, ProcTypeOK, GlobalSpawn,
     osVars, sysVars, dsmVars
<1> QED BY <1>5, <1>6 DEF LinkInv

\* Invoke_global_syscall returning keeps the invariant.
LEMMA ReturnLink ==
  ASSUME LinkInv, NEW p \in Proc, Return(p) PROVE LinkInv'
<1> USE DEF LinkInv, Return, osVars, sysVars, dsmVars, procVars
<1>1. OsTypeOK'
  BY DEF TypeOK, OsTypeOK
<1>2. ThreadTypeOK'
  BY DEF TypeOK, ThreadTypeOK
<1>3. ProcTypeOK'
  <2>1. /\ st' \in [Proc -> ProcSt] /\ conn' \in [Proc -> ConnSt]
        /\ req' \in [Proc -> Request] /\ ret' \in [Proc -> Int]
    BY Names, UnusedRequest DEF TypeOK, ProcTypeOK
  <2>2. gid' \in [Proc -> Pid \cup {-1}]
    BY DEF TypeOK, ProcTypeOK, Answers
  <2>3. own' \in [Proc -> SUBSET Int]
    BY DEF TypeOK, ProcTypeOK
  <2>4. fds' \in [Proc -> SUBSET (Uuid \X Int)]
    <3>1. req[p].func = "FIFO_CONNECT" => <<req[p].uuid, ret[p]>> \in Uuid \X Int
      BY DEF TypeOK, ProcTypeOK, Requests, GoodRequest
    <3> QED BY <3>1 DEF TypeOK, ProcTypeOK
  <2>5. acked' \in [Proc -> SUBSET Message]
    <3>1. req[p].func = "FIFO_WRITE" => shm[Home[p]][gid[p]] \in Message
      BY ProcAssumption DEF TypeOK, OsTypeOK, Requests
    <3> QED BY <3>1 DEF TypeOK, ProcTypeOK
  <2> QED BY <2>1, <2>2, <2>3, <2>4, <2>5 DEF TypeOK, ProcTypeOK
<1>4. Requests'
  BY OtherPU, UnusedRequest DEF TypeOK, ThreadTypeOK, ProcTypeOK, Requests,
     GoodRequest, HasPath
<1>5. Sessions'
  BY DEF TypeOK, ThreadTypeOK, ProcTypeOK, Sessions
<1>6. Threads'
  BY DEF Threads
<1>7. Answers'
  BY DEF TypeOK, ThreadTypeOK, ProcTypeOK, Answers
<1> QED BY <1>1, <1>2, <1>3, <1>4, <1>5, <1>6, <1>7 DEF TypeOK

\* A local fifo_read keeps the invariant.
LEMMA FifoReadLink ==
  ASSUME LinkInv, NEW p \in Proc, FifoRead(p) PROVE LinkInv'
<1> USE DEF LinkInv, FifoRead, osVars, sysVars, dsmVars, procVars
<1>1. OsTypeOK'
  BY DEF TypeOK, OsTypeOK
<1>2. ThreadTypeOK'
  BY DEF TypeOK, ThreadTypeOK
<1>3. ProcTypeOK'
  BY Names DEF TypeOK, ProcTypeOK
<1>4. Requests'
  BY DEF Requests, GoodRequest, HasPath
<1>5. Sessions'
  BY DEF Sessions
<1>6. Threads'
  BY DEF Threads
<1>7. Answers'
  BY DEF Answers
<1> QED BY <1>1, <1>2, <1>3, <1>4, <1>5, <1>6, <1>7 DEF TypeOK

\* A process losing its globalOS keeps the invariant.
LEMMA AnswerLostLink ==
  ASSUME LinkInv, NEW p \in Proc, AnswerLost(p) PROVE LinkInv'
<1> USE DEF LinkInv, AnswerLost, osVars, sysVars, dsmVars, procVars
<1>1. OsTypeOK'
  BY DEF TypeOK, OsTypeOK
<1>2. ThreadTypeOK'
  BY DEF TypeOK, ThreadTypeOK
<1>3. ProcTypeOK'
  BY Names DEF TypeOK, ProcTypeOK
<1>4. Requests'
  BY DEF Requests, GoodRequest, HasPath
<1>5. Sessions'
  BY DEF Sessions
<1>6. Threads'
  BY DEF Threads
<1>7. Answers'
  BY DEF Answers
<1> QED BY <1>1, <1>2, <1>3, <1>4, <1>5, <1>6, <1>7 DEF TypeOK

\* The death of a process keeps the invariant.
LEMMA DieLink ==
  ASSUME LinkInv, NEW p \in Proc, Die(p) PROVE LinkInv'
<1> USE DEF LinkInv, Die, osVars, sysVars, dsmVars, procVars
<1>1. OsTypeOK'
  BY DEF TypeOK, OsTypeOK
<1>2. ThreadTypeOK'
  BY DEF TypeOK, ThreadTypeOK
<1>3. ProcTypeOK'
  BY Names DEF TypeOK, ProcTypeOK
<1>4. Requests'
  BY DEF Requests, GoodRequest, HasPath
<1>5. Sessions'
  BY DEF Sessions
<1>6. Threads'
  BY DEF Threads
<1>7. Answers'
  BY DEF Answers
<1> QED BY <1>1, <1>2, <1>3, <1>4, <1>5, <1>6, <1>7 DEF TypeOK

-----------------------------------------------------------------------------
(* The steps of the threads of a globalOS.                                 *)

\* The step Reply keeps the invariant.
LEMMA ReplyLink ==
  ASSUME LinkInv, NEW s \in PU, Reply(s) PROVE LinkInv'
<1> USE DEF LinkInv, Reply, At, osVars, sysVars, dsmVars, procVars
<1>1. OsTypeOK'
  BY DEF TypeOK, OsTypeOK
<1>2. ThreadTypeOK'
  BY Names DEF TypeOK, ThreadTypeOK
<1>3. ProcTypeOK'
  BY Names, Messages, UnusedRequest DEF TypeOK, OsTypeOK, ThreadTypeOK, ProcTypeOK
<1>4. Requests'
  BY DEF Requests, GoodRequest, HasPath
<1>5. Sessions'
  BY DEF TypeOK, ThreadTypeOK, ProcTypeOK, Sessions
<1>6. Threads'
  BY DEF Threads
<1>7. Answers'
  <2>1. sysConn[s] \in Proc => /\ Home[sysConn[s]] = s
                              /\ sysReq[s] = req[sysConn[s]]
    BY ProcAssumption DEF Threads, Sessions
  <2>2. sysConn[s] \in Proc /\ req[sysConn[s]].func = "RegisterSelfGlobal"
          => sysRet[s] \in Pid \cup {-1}
    BY <2>1 DEF Answers
  <2> QED BY <2>2 DEF TypeOK, ThreadTypeOK, ProcTypeOK, Answers
<1> QED BY <1>1, <1>2, <1>3, <1>4, <1>5, <1>6, <1>7 DEF TypeOK

\* The step SyscallRegisterGlobal keeps the invariant.
LEMMA SyscallRegisterGlobalLink ==
  ASSUME LinkInv, NEW s \in PU, SyscallRegisterGlobal(s) PROVE LinkInv'
<1> USE DEF LinkInv, SyscallRegisterGlobal, At, Handling, Goto, Result, PidFree,
     osVars, sysVars, dsmVars, procVars
<1>0. NextPid(s) \in Pid
  BY Cursors, Ids DEF NextPid, TypeOK, OsTypeOK
<1>1. OsTypeOK'
  <2>1. registered' \in [PU -> [Pid -> BOOLEAN]]
    <3>1. [registered EXCEPT ![s][NextPid(s)] = TRUE] \in [PU -> [Pid -> BOOLEAN]]
      <4>1. [registered[s] EXCEPT ![NextPid(s)] = TRUE] \in [Pid -> BOOLEAN]
        BY <1>0 DEF TypeOK, OsTypeOK
      <4> QED BY <4>1 DEF TypeOK, OsTypeOK
    <3>2. registered' = registered \/ registered' = [registered EXCEPT ![s][NextPid(s)] = TRUE]
      OBVIOUS
    <3> QED BY <3>1, <3>2 DEF TypeOK, OsTypeOK
  <2>2. procNow' \in [PU -> Pid]
    BY <1>0 DEF TypeOK, OsTypeOK
  <2> QED BY <2>1, <2>2 DEF TypeOK, OsTypeOK
<1>2. ThreadTypeOK'
  BY <1>0, Names, Ids DEF TypeOK, ThreadTypeOK
<1>3. ProcTypeOK'
  BY DEF TypeOK, ProcTypeOK
<1>4. Requests'
  BY DEF Requests, GoodRequest, HasPath
<1>5. Sessions'
  BY ProcAssumption DEF TypeOK, ThreadTypeOK, ProcTypeOK, Sessions, Threads
<1>6. Threads'
  BY DEF TypeOK, ThreadTypeOK, Threads
<1>7. Answers'
  BY <1>0 DEF TypeOK, ThreadTypeOK, Answers
<1> QED BY <1>1, <1>2, <1>3, <1>4, <1>5, <1>6, <1>7 DEF TypeOK

\* The step SyscallFifoInit keeps the invariant.
LEMMA SyscallFifoInitLink ==
  ASSUME LinkInv, NEW s \in PU, SyscallFifoInit(s) PROVE LinkInv'
<1> USE DEF LinkInv, SyscallFifoInit, At, Handling, Goto, Result, SlotFree,
     osVars, sysVars, dsmVars, procVars
<1>0. NextFifo(s) \in FifoId
  BY Cursors, Ids DEF NextFifo, TypeOK, OsTypeOK
<1>1. OsTypeOK'
  <2>1. [pu_id |-> s, local_uuid |-> sysReq[s].local, global_uuid |-> sysReq[s].uuid]
          \in Entry
    BY RequestFields DEF Entry, TypeOK, ThreadTypeOK
  <2>2. fifo' \in [PU -> [FifoId -> Entry]]
    <3>1. CASE SlotFree(s, NextFifo(s))
      <4> DEFINE e == [pu_id |-> s, local_uuid |-> sysReq[s].local,
                       global_uuid |-> sysReq[s].uuid]
      <4>1. fifo' = [fifo EXCEPT ![s][NextFifo(s)] = e]
        BY <3>1
      <4>2. e \in Entry
        BY <2>1
      <4> HIDE DEF e
      <4>3. [fifo[s] EXCEPT ![NextFifo(s)] = e] \in [FifoId -> Entry]
        BY <1>0, <4>2 DEF TypeOK, OsTypeOK
      <4> QED BY <4>1, <4>3 DEF TypeOK, OsTypeOK
    <3>2. CASE ~SlotFree(s, NextFifo(s))
      BY <3>2 DEF TypeOK, OsTypeOK
    <3> QED BY <3>1, <3>2
  <2>3. fifoNow' \in [PU -> FifoId]
    BY <1>0 DEF TypeOK, OsTypeOK
  <2> QED BY <2>2, <2>3 DEF TypeOK, OsTypeOK
<1>2. ThreadTypeOK'
  BY <1>0, Names, Ids DEF TypeOK, ThreadTypeOK
<1>3. ProcTypeOK'
  BY DEF TypeOK, ProcTypeOK
<1>4. Requests'
  BY DEF Requests, GoodRequest, HasPath
<1>5. Sessions'
  BY ProcAssumption DEF TypeOK, ThreadTypeOK, ProcTypeOK, Sessions, Threads
<1>6. Threads'
  <2>1. sysReq[s].uuid # -1 => sysReq[s].uuid \in Uuid
    BY RequestFields DEF TypeOK, ThreadTypeOK
  <2> QED BY <2>1, OtherPU DEF TypeOK, ThreadTypeOK, Threads
<1>7. Answers'
  BY DEF TypeOK, ThreadTypeOK, ProcTypeOK, Answers
<1> QED BY <1>1, <1>2, <1>3, <1>4, <1>5, <1>6, <1>7 DEF TypeOK

\* The step FifoInitInsert keeps the invariant.
LEMMA FifoInitInsertLink ==
  ASSUME LinkInv, NEW s \in PU, FifoInitInsert(s) PROVE LinkInv'
<1> USE DEF LinkInv, FifoInitInsert, At, Handling, Goto, Result, osVars,
     sysVars, dsmVars, procVars
<1>1. OsTypeOK'
  BY DEF TypeOK, OsTypeOK
<1>2. ThreadTypeOK'
  BY Names, Ids DEF TypeOK, OsTypeOK, ThreadTypeOK
<1>3. ProcTypeOK'
  BY DEF TypeOK, ProcTypeOK
<1>4. Requests'
  BY DEF Requests, GoodRequest, HasPath
<1>5. Sessions'
  BY DEF Sessions
<1>6. Threads'
  BY DEF Threads
<1>7. Answers'
  BY OtherPU DEF TypeOK, ThreadTypeOK, ProcTypeOK, Answers, Threads, Sessions
<1> QED BY <1>1, <1>2, <1>3, <1>4, <1>5, <1>6, <1>7 DEF TypeOK

\* The step SyscallFifoConnect keeps the invariant.
LEMMA SyscallFifoConnectLink ==
  ASSUME LinkInv, NEW s \in PU, SyscallFifoConnect(s) PROVE LinkInv'
<1> USE DEF LinkInv, SyscallFifoConnect, At, Handling, Goto, Result, DsmCall,
     osVars, sysVars, dsmVars, procVars
<1>1. OsTypeOK'
  BY DEF TypeOK, OsTypeOK
<1>0. Other(s) \in PU
  BY OtherPU
<1>2. ThreadTypeOK'
  <2>1. guuid[s][sysReq[s].uuid] \in Int
    <3>1. guuid[s][sysReq[s].uuid] \in FifoId \cup {-1}
      BY DEF TypeOK, OsTypeOK, Requests, GoodRequest
    <3>2. -1 \in Int
      OBVIOUS
    <3> QED BY <3>1, <3>2, Ids
  <2> QED BY <1>0, <2>1, Names, Messages DEF TypeOK, ThreadTypeOK
<1>3. ProcTypeOK'
  BY DEF TypeOK, ProcTypeOK
<1>4. Requests'
  BY <1>0, OtherPU DEF TypeOK, ThreadTypeOK, Requests, GoodRequest, HasPath
<1>5. Sessions'
  BY ProcAssumption DEF TypeOK, ThreadTypeOK, ProcTypeOK, Sessions, Threads
<1>6. Threads'
  BY OtherPU DEF TypeOK, ThreadTypeOK, Threads
<1>7. Answers'
  BY <1>0 DEF TypeOK, ThreadTypeOK, Answers
<1> QED BY <1>1, <1>2, <1>3, <1>4, <1>5, <1>6, <1>7 DEF TypeOK

\* The step FifoConnectAnswer keeps the invariant.
LEMMA FifoConnectAnswerLink ==
  ASSUME LinkInv, NEW s \in PU, FifoConnectAnswer(s) PROVE LinkInv'
<1> USE DEF LinkInv, FifoConnectAnswer, At, Handling, Goto, Result, DsmReturn,
     osVars, sysVars, dsmVars, procVars
<1>1. OsTypeOK'
  <2>1. dsmRet[Other(s)] \in FifoId \cup {-1}
    BY OtherPU DEF Threads, Answers
  <2>2. dsmRet[Other(s)] > 0 => dsmRet[Other(s)] \in FifoId
    BY <2>1
  <2> QED BY <2>2 DEF TypeOK, OsTypeOK
<1>2. ThreadTypeOK'
  BY Names, OtherPU, UnusedRequest, Messages DEF TypeOK, ThreadTypeOK
<1>3. ProcTypeOK'
  BY DEF TypeOK, ProcTypeOK
<1>4. Requests'
  BY OtherPU, UnusedRequest DEF TypeOK, ThreadTypeOK, ProcTypeOK, Requests,
     GoodRequest, HasPath
<1>5. Sessions'
  BY DEF Sessions
<1>6. Threads'
  BY OtherPU DEF TypeOK, ThreadTypeOK, Threads
<1>7. Answers'
  BY DEF TypeOK, ThreadTypeOK, ProcTypeOK, Answers
<1> QED BY <1>1, <1>2, <1>3, <1>4, <1>5, <1>6, <1>7 DEF TypeOK

\* The step SyscallFifoRead keeps the invariant.
LEMMA SyscallFifoReadLink ==
  ASSUME LinkInv, NEW s \in PU, SyscallFifoRead(s) PROVE LinkInv'
<1> USE DEF LinkInv, SyscallFifoRead, At, Handling, Goto, Result, osVars,
     sysVars, dsmVars, procVars
<1>1. OsTypeOK'
  BY DEF TypeOK, OsTypeOK
<1>2. ThreadTypeOK'
  <2>1. -EFIFOLOCAL \in Int /\ -1 \in Int
    BY DEF EFIFOLOCAL
  <2> QED BY <2>1, Names DEF TypeOK, ThreadTypeOK
<1>3. ProcTypeOK'
  BY DEF TypeOK, ProcTypeOK
<1>4. Requests'
  BY DEF Requests, GoodRequest, HasPath
<1>5. Sessions'
  BY DEF Sessions
<1>6. Threads'
  BY DEF Threads
<1>7. Answers'
  BY DEF Answers
<1> QED BY <1>1, <1>2, <1>3, <1>4, <1>5, <1>6, <1>7 DEF TypeOK

\* The step SyscallFifoWrite keeps the invariant.
LEMMA SyscallFifoWriteLink ==
  ASSUME LinkInv, NEW s \in PU, SyscallFifoWrite(s) PROVE LinkInv'
<1> USE DEF LinkInv, SyscallFifoWrite, At, Handling, Goto, Result, DsmCall,
     osVars, sysVars, dsmVars, procVars
<1>1. OsTypeOK'
  BY DEF TypeOK, OsTypeOK
<1>0. Other(s) \in PU
  BY OtherPU
<1>2. ThreadTypeOK'
  <2>1. Outgoing(s) \in Message
    BY DEF Outgoing, TypeOK, OsTypeOK, Requests, GoodRequest
  <2> QED BY <1>0, <2>1, Names DEF TypeOK, ThreadTypeOK
<1>3. ProcTypeOK'
  BY DEF TypeOK, ProcTypeOK
<1>4. Requests'
  BY <1>0, OtherPU DEF TypeOK, ThreadTypeOK, Requests, GoodRequest, HasPath
<1>5. Sessions'
  BY ProcAssumption DEF TypeOK, ThreadTypeOK, ProcTypeOK, Sessions, Threads
<1>6. Threads'
  BY OtherPU DEF TypeOK, ThreadTypeOK, Threads
<1>7. Answers'
  BY <1>0 DEF TypeOK, ThreadTypeOK, Answers
<1> QED BY <1>1, <1>2, <1>3, <1>4, <1>5, <1>6, <1>7 DEF TypeOK

\* The step FifoWriteAnswer keeps the invariant.
LEMMA FifoWriteAnswerLink ==
  ASSUME LinkInv, NEW s \in PU, FifoWriteAnswer(s) PROVE LinkInv'
<1> USE DEF LinkInv, FifoWriteAnswer, At, Handling, Goto, Result, DsmReturn,
     osVars, sysVars, dsmVars, procVars
<1>1. OsTypeOK'
  BY DEF TypeOK, OsTypeOK
<1>2. ThreadTypeOK'
  BY Names, OtherPU, UnusedRequest, Messages DEF TypeOK, ThreadTypeOK
<1>3. ProcTypeOK'
  BY DEF TypeOK, ProcTypeOK
<1>4. Requests'
  BY OtherPU, UnusedRequest DEF TypeOK, ThreadTypeOK, ProcTypeOK, Requests,
     GoodRequest, HasPath
<1>5. Sessions'
  BY DEF Sessions
<1>6. Threads'
  BY OtherPU DEF TypeOK, ThreadTypeOK, Threads
<1>7. Answers'
  BY DEF TypeOK, ThreadTypeOK, ProcTypeOK, Answers
<1> QED BY <1>1, <1>2, <1>3, <1>4, <1>5, <1>6, <1>7 DEF TypeOK

\* The step SyscallGspawn keeps the invariant.
LEMMA SyscallGspawnLink ==
  ASSUME LinkInv, NEW s \in PU, SyscallGspawn(s) PROVE LinkInv'
<1> USE DEF LinkInv, SyscallGspawn, At, Handling, Goto, Result, osVars, sysVars,
     dsmVars, procVars
<1>1. OsTypeOK'
  BY DEF TypeOK, OsTypeOK
<1>2. ThreadTypeOK'
  BY Names DEF TypeOK, ThreadTypeOK
<1>3. ProcTypeOK'
  <2>1. st' \in [Proc -> ProcSt]
    BY Names DEF TypeOK, ProcTypeOK
  <2> QED BY <2>1 DEF TypeOK, ProcTypeOK
<1>4. Requests'
  BY DEF Requests, GoodRequest, HasPath
<1>5. Sessions'
  BY ProcAssumption DEF TypeOK, ThreadTypeOK, ProcTypeOK, Sessions, Threads
<1>6. Threads'
  BY DEF TypeOK, ThreadTypeOK, Threads
<1>7. Answers'
  BY DEF TypeOK, ThreadTypeOK, Answers
<1> QED BY <1>1, <1>2, <1>3, <1>4, <1>5, <1>6, <1>7 DEF TypeOK

\* The step SysOpenFifo keeps the invariant.
LEMMA SysOpenFifoLink ==
  ASSUME LinkInv, NEW s \in PU, SysOpenFifo(s) PROVE LinkInv'
<1> USE DEF LinkInv, SysOpenFifo, At, Handling, Goto, Result, osVars, sysVars,
     dsmVars, procVars
<1>1. OsTypeOK'
  BY DEF TypeOK, OsTypeOK
<1>2. ThreadTypeOK'
  BY Names DEF TypeOK, ThreadTypeOK
<1>3. ProcTypeOK'
  BY DEF TypeOK, ProcTypeOK
<1>4. Requests'
  BY DEF Requests, GoodRequest, HasPath
<1>5. Sessions'
  BY DEF Sessions
<1>6. Threads'
  BY DEF Threads
<1>7. Answers'
  BY DEF Answers
<1> QED BY <1>1, <1>2, <1>3, <1>4, <1>5, <1>6, <1>7 DEF TypeOK

\* The step SysWriteFifo keeps the invariant.
LEMMA SysWriteFifoLink ==
  ASSUME LinkInv, NEW s \in PU, SysWriteFifo(s) PROVE LinkInv'
<1> USE DEF LinkInv, SysWriteFifo, At, Handling, Goto, Result, PipeAppend,
     osVars, sysVars, dsmVars, procVars
<1>1. OsTypeOK'
  BY DEF TypeOK, OsTypeOK
<1>0. Outgoing(s) \in Message
  BY DEF Outgoing, TypeOK, OsTypeOK, Requests, GoodRequest, Threads
<1>2. ThreadTypeOK'
  <2>1. Outgoing(s).len \in Int
    BY <1>0, Messages
  <2> QED BY <2>1, Names DEF TypeOK, ThreadTypeOK
<1>3. ProcTypeOK'
  <2>1. pipe' \in [Proc -> Seq(Message)]
    <3>1. CASE fifo[s][sysReq[s].id].local_uuid \in Proc
      BY <1>0, <3>1 DEF TypeOK, ProcTypeOK
    <3>2. CASE fifo[s][sysReq[s].id].local_uuid \notin Proc
      BY <3>2 DEF TypeOK, ProcTypeOK
    <3> QED BY <3>1, <3>2
  <2> QED BY <2>1 DEF TypeOK, ProcTypeOK
<1>4. Requests'
  BY DEF Requests, GoodRequest, HasPath
<1>5. Sessions'
  BY DEF Sessions
<1>6. Threads'
  BY DEF Threads
<1>7. Answers'
  BY OtherPU DEF TypeOK, ThreadTypeOK, ProcTypeOK, Answers, Threads, Sessions
<1> QED BY <1>1, <1>2, <1>3, <1>4, <1>5, <1>6, <1>7 DEF TypeOK

\* The step DsmHandlers keeps the invariant.
LEMMA DsmHandlersLink ==
  ASSUME LinkInv, NEW s \in PU, DsmHandlers(s) PROVE LinkInv'
<1> USE DEF LinkInv, DsmHandlers, DsmAt, osVars, sysVars, dsmVars, procVars
<1>1. OsTypeOK'
  BY DEF TypeOK, OsTypeOK
<1>2. ThreadTypeOK'
  <2>1. dsmReq[s].func = "FIFO_CONNECT" => guuid[s][dsmReq[s].uuid] \in FifoId \cup {-1}
    BY DEF TypeOK, OsTypeOK, Requests, GoodRequest
  <2>2. Parsed(dsmMsg[s]) \in Message
    BY Messages DEF TypeOK, ThreadTypeOK
  <2>3. CASE dsmReq[s].func = "FIFO_WRITE"
    BY <2>2, <2>3, Names DEF TypeOK, ThreadTypeOK
  <2>4. CASE dsmReq[s].func = "FIFO_CONNECT"
    <3>1. guuid[s][dsmReq[s].uuid] \in Int
      <4>1. -1 \in Int
        OBVIOUS
      <4> QED BY <2>1, <2>4, <4>1, Ids
    <3> QED BY <3>1, <2>4, Names DEF TypeOK, ThreadTypeOK
  <2> QED BY <2>3, <2>4
<1>3. ProcTypeOK'
  BY DEF TypeOK, ProcTypeOK
<1>4. Requests'
  BY DEF Requests, GoodRequest, HasPath
<1>5. Sessions'
  BY DEF Sessions
<1>6. Threads'
  BY DEF TypeOK, ThreadTypeOK, Threads
<1>7. Answers'
  <2>1. dsmReq[s].func = "FIFO_CONNECT" => guuid[s][dsmReq[s].uuid] \in FifoId \cup {-1}
    BY DEF TypeOK, OsTypeOK, Requests, GoodRequest
  <2> QED BY <2>1 DEF TypeOK, ThreadTypeOK, Answers
<1> QED BY <1>1, <1>2, <1>3, <1>4, <1>5, <1>6, <1>7 DEF TypeOK

\* The step DsmOpenFifo keeps the invariant.
LEMMA DsmOpenFifoLink ==
  ASSUME LinkInv, NEW s \in PU, DsmOpenFifo(s) PROVE LinkInv'
<1> USE DEF LinkInv, DsmOpenFifo, DsmAt, osVars, sysVars, dsmVars, procVars
<1>1. OsTypeOK'
  BY DEF TypeOK, OsTypeOK
<1>2. ThreadTypeOK'
  BY Names DEF TypeOK, ThreadTypeOK
<1>3. ProcTypeOK'
  BY DEF TypeOK, ProcTypeOK
<1>4. Requests'
  BY DEF Requests, GoodRequest, HasPath
<1>5. Sessions'
  BY DEF Sessions
<1>6. Threads'
  BY DEF Threads
<1>7. Answers'
  BY DEF Answers
<1> QED BY <1>1, <1>2, <1>3, <1>4, <1>5, <1>6, <1>7 DEF TypeOK

\* The step DsmWriteFifo keeps the invariant.
LEMMA DsmWriteFifoLink ==
  ASSUME LinkInv, NEW s \in PU, DsmWriteFifo(s) PROVE LinkInv'
<1> USE DEF LinkInv, DsmWriteFifo, DsmAt, PipeAppend, osVars, sysVars, dsmVars,
     procVars
<1>1. OsTypeOK'
  BY DEF TypeOK, OsTypeOK
<1>2. ThreadTypeOK'
  BY Names, OtherPU, UnusedRequest, Messages DEF TypeOK, ThreadTypeOK
<1>3. ProcTypeOK'
  <2>1. pipe' \in [Proc -> Seq(Message)]
    <3>1. dsmMsg[s] \in Message
      BY DEF TypeOK, ThreadTypeOK
    <3>2. CASE fifo[s][dsmReq[s].id].local_uuid \in Proc
      BY <3>1, <3>2 DEF TypeOK, ProcTypeOK
    <3>3. CASE fifo[s][dsmReq[s].id].local_uuid \notin Proc
      BY <3>3 DEF TypeOK, ProcTypeOK
    <3> QED BY <3>2, <3>3
  <2> QED BY <2>1 DEF TypeOK, ProcTypeOK
<1>4. Requests'
  BY DEF Requests, GoodRequest, HasPath
<1>5. Sessions'
  BY DEF Sessions
<1>6. Threads'
  BY DEF Threads
<1>7. Answers'
  BY DEF TypeOK, ThreadTypeOK, Answers, Threads
<1> QED BY <1>1, <1>2, <1>3, <1>4, <1>5, <1>6, <1>7 DEF TypeOK

\* The end of a globalOS keeps the invariant.
LEMMA PanicLink ==
  ASSUME LinkInv, NEW s \in PU, Panic(s) PROVE LinkInv'
<1> USE DEF LinkInv, Panic, osVars, sysVars, dsmVars, procVars
<1>1. OsTypeOK'
  BY DEF TypeOK, OsTypeOK
<1>2. ThreadTypeOK'
  BY DEF TypeOK, ThreadTypeOK
<1>3. ProcTypeOK'
  BY DEF TypeOK, ProcTypeOK
<1>4. Requests'
  BY DEF Requests, GoodRequest, HasPath
<1>5. Sessions'
  BY DEF Sessions
<1>6. Threads'
  BY DEF Threads
<1>7. Answers'
  BY DEF Answers
<1> QED BY <1>1, <1>2, <1>3, <1>4, <1>5, <1>6, <1>7 DEF TypeOK

\* The step Receive keeps the invariant.
LEMMA ReceiveLink ==
  ASSUME LinkInv, NEW s \in PU, NEW p \in Proc, Receive(s, p) PROVE LinkInv'
<1> USE DEF LinkInv, Receive, At, osVars, sysVars, dsmVars, procVars
<1>1. OsTypeOK'
  BY DEF TypeOK, OsTypeOK
<1>2. ThreadTypeOK'
  BY Names, Ids, Messages, UnusedRequest, OtherPU DEF TypeOK, OsTypeOK,
     ThreadTypeOK, ProcTypeOK
<1>3. ProcTypeOK'
  BY Names DEF TypeOK, ProcTypeOK
<1>4. Requests'
  BY DEF Requests, GoodRequest, HasPath
<1>5. Sessions'
  BY DEF TypeOK, ThreadTypeOK, ProcTypeOK, Sessions
<1>6. Threads'
  BY DEF Threads
<1>7. Answers'
  BY DEF Answers
<1> QED BY <1>1, <1>2, <1>3, <1>4, <1>5, <1>6, <1>7 DEF TypeOK

\* The step ReceiveEof keeps the invariant.
LEMMA ReceiveEofLink ==
  ASSUME LinkInv, NEW s \in PU, NEW p \in Proc, ReceiveEof(s, p) PROVE LinkInv'
<1> USE DEF LinkInv, ReceiveEof, At, osVars, sysVars, dsmVars, procVars
<1>1. OsTypeOK'
  BY DEF TypeOK, OsTypeOK
<1>2. ThreadTypeOK'
  BY DEF TypeOK, ThreadTypeOK
<1>3. ProcTypeOK'
  BY Names DEF TypeOK, ProcTypeOK
<1>4. Requests'
  BY DEF Requests, GoodRequest, HasPath
<1>5. Sessions'
  BY DEF Sessions
<1>6. Threads'
  BY DEF Threads
<1>7. Answers'
  BY DEF Answers
<1> QED BY <1>1, <1>2, <1>3, <1>4, <1>5, <1>6, <1>7 DEF TypeOK

\* The step ReceiveError keeps the invariant.
LEMMA ReceiveErrorLink ==
  ASSUME LinkInv, NEW s \in PU, NEW p \in Proc, ReceiveError(s, p) PROVE LinkInv'
<1> USE DEF LinkInv, ReceiveError, At, osVars, sysVars, dsmVars, procVars
<1>1. OsTypeOK'
  BY DEF TypeOK, OsTypeOK
<1>2. ThreadTypeOK'
  BY Names DEF TypeOK, ThreadTypeOK
<1>3. ProcTypeOK'
  BY Names DEF TypeOK, ProcTypeOK
<1>4. Requests'
  BY DEF Requests, GoodRequest, HasPath
<1>5. Sessions'
  BY DEF Sessions
<1>6. Threads'
  BY DEF Threads
<1>7. Answers'
  BY DEF Answers
<1> QED BY <1>1, <1>2, <1>3, <1>4, <1>5, <1>6, <1>7 DEF TypeOK

-----------------------------------------------------------------------------
(* The invariant holds initially, and every step keeps it.                 *)

\* The invariant holds when both globalOS have started.
LEMMA InitLink == ASSUME Init PROVE LinkInv
<1> USE DEF Init
<1>1. OsTypeOK
  <2>1. 0 \in Pid /\ \A s \in PU : FirstFifo(s) \in FifoId
    BY SizeAssumption DEF Pid, FifoId, PU, FirstFifo
  <2>2. [pu_id |-> -1, local_uuid |-> NoProc, global_uuid |-> -1] \in Entry
    BY DEF Entry
  <2>3. fifo \in [PU -> [FifoId -> Entry]]
    BY <2>2
  <2>4. /\ alive \in [PU -> BOOLEAN]
        /\ registered \in [PU -> [Pid -> BOOLEAN]]
        /\ guuid \in [PU -> [Uuid -> FifoId \cup {-1}]]
    OBVIOUS
  <2>5. shm \in [PU -> [Pid -> Message]]
    BY Messages
  <2> QED BY <2>1, <2>3, <2>4, <2>5 DEF OsTypeOK
<1>2. ThreadTypeOK
  BY Names, Messages, UnusedRequest DEF ThreadTypeOK
<1>3. ProcTypeOK
  <2>1. st \in [Proc -> ProcSt] /\ conn \in [Proc -> ConnSt]
    BY DEF ProcSt, ConnSt
  <2>2. inits \in [Proc -> 0 .. MaxInits] /\ writes \in [Proc -> 0 .. MaxWrites]
    BY UseAssumption
  <2>3. pipe \in [Proc -> Seq(Message)] /\ rcvd \in [Proc -> Seq(Message)]
    OBVIOUS
  <2> QED BY <2>1, <2>2, <2>3, UnusedRequest DEF ProcTypeOK
<1>4. Requests
  BY OtherPU, ProcAssumption, UnusedRequest DEF Requests, GoodRequest
<1>5. Sessions /\ Threads /\ Answers
  BY DEF Sessions, Threads, Answers
<1> QED BY <1>1, <1>2, <1>3, <1>4, <1>5 DEF LinkInv, TypeOK

\* A step that changes nothing keeps the invariant.
LEMMA StutterLink == ASSUME LinkInv, UNCHANGED vars PROVE LinkInv'
BY DEF LinkInv, TypeOK, OsTypeOK, ThreadTypeOK, ProcTypeOK, Requests, GoodRequest,
   HasPath, Sessions, Threads, Answers, vars, osVars, sysVars, dsmVars, procVars

\* Every step of a process keeps the invariant.
LEMMA ProcStepLink == ASSUME LinkInv, NEW p \in Proc, ProcNext(p) PROVE LinkInv'
<1>1. CASE RegisterSelfGlobal(p)
  BY <1>1, RegisterSelfGlobalLink
<1>2. CASE GlobalFifoInit(p)
  BY <1>2, GlobalFifoInitLink
<1>3. CASE GlobalFifoConnect(p)
  BY <1>3, GlobalFifoConnectLink
<1>4. CASE GlobalFifoWrite(p)
  BY <1>4, GlobalFifoWriteLink
<1>5. CASE GlobalFifoRead(p)
  BY <1>5, GlobalFifoReadLink
<1>6. CASE GlobalFifoClose(p)
  BY <1>6, GlobalFifoCloseLink
<1>7. CASE GlobalSpawn(p)
  BY <1>7, GlobalSpawnLink
<1>8. CASE Return(p)
  BY <1>8, ReturnLink
<1>9. CASE FifoRead(p)
  BY <1>9, FifoReadLink
<1>10. CASE AnswerLost(p)
  BY <1>10, AnswerLostLink
<1>11. CASE Die(p)
  BY <1>11, DieLink
<1> QED BY <1>1, <1>2, <1>3, <1>4, <1>5, <1>6, <1>7, <1>8, <1>9, <1>10, <1>11
        DEF ProcNext

\* Every way in which the globalOS process ends is a Panic.
LEMMA PanicSteps ==
  ASSUME NEW s \in PU,
         \/ ReplyToBroken(s) \/ UnknownSyscall(s) \/ RegisterNoSegment(s)
         \/ BoundPanic(s) \/ WriteTooLong(s) \/ OpenPanic(s) \/ WritePanic(s)
  PROVE  Panic(s)
BY DEF ReplyToBroken, UnknownSyscall, RegisterNoSegment, BoundPanic, WriteTooLong,
   OpenPanic, WritePanic

\* Every step of a globalOS keeps the invariant.
LEMMA OsStepLink == ASSUME LinkInv, NEW s \in PU, OsNext(s) PROVE LinkInv'
<1>1. CASE \E p \in Proc : Receive(s, p) \/ ReceiveEof(s, p) \/ ReceiveError(s, p)
  BY <1>1, ReceiveLink, ReceiveEofLink, ReceiveErrorLink
<1>2. CASE \/ ReplyToBroken(s) \/ UnknownSyscall(s) \/ RegisterNoSegment(s)
           \/ BoundPanic(s) \/ WriteTooLong(s) \/ OpenPanic(s) \/ WritePanic(s)
  BY <1>2, PanicSteps, PanicLink
<1>3. CASE Reply(s)
  BY <1>3, ReplyLink
<1>4. CASE SyscallRegisterGlobal(s)
  BY <1>4, SyscallRegisterGlobalLink
<1>5. CASE SyscallFifoInit(s) \/ FifoInitInsert(s)
  BY <1>5, SyscallFifoInitLink, FifoInitInsertLink
<1>6. CASE SyscallFifoConnect(s) \/ FifoConnectAnswer(s)
  BY <1>6, SyscallFifoConnectLink, FifoConnectAnswerLink
<1>7. CASE SyscallFifoRead(s)
  BY <1>7, SyscallFifoReadLink
<1>8. CASE SyscallFifoWrite(s) \/ FifoWriteAnswer(s)
  BY <1>8, SyscallFifoWriteLink, FifoWriteAnswerLink
<1>9. CASE SyscallGspawn(s)
  BY <1>9, SyscallGspawnLink
<1>10. CASE SysOpenFifo(s) \/ SysWriteFifo(s)
  BY <1>10, SysOpenFifoLink, SysWriteFifoLink
<1>11. CASE DsmNext(s)
  BY <1>11, DsmHandlersLink, DsmOpenFifoLink, DsmWriteFifoLink DEF DsmNext
<1> QED BY <1>1, <1>2, <1>3, <1>4, <1>5, <1>6, <1>7, <1>8, <1>9, <1>10, <1>11
        DEF OsNext, SysHandler

\* Every step of the system keeps the invariant.
LEMMA StepLink == ASSUME LinkInv, [Next]_vars PROVE LinkInv'
BY ProcStepLink, OsStepLink, StutterLink DEF Next

\* The inductive invariant holds in every reachable state.
THEOREM LinkInvariant == Spec => []LinkInv
<1>1. Init => LinkInv
  BY InitLink
<1>2. LinkInv /\ [Next]_vars => LinkInv'
  BY StepLink
<1> QED BY <1>1, <1>2, PTL DEF Spec

\* Type correctness: every index into global_process_list, global_fifo_list
\* and the segments stays inside its table, and every value that a process,
\* a thread or the DSM link holds is of its type.
THEOREM TypeCorrect == Spec => []TypeOK
<1>1. LinkInv => TypeOK
  BY DEF LinkInv
<1> QED BY <1>1, LinkInvariant, PTL

-----------------------------------------------------------------------------
(***************************************************************************)
(* The global fifo ids: entries of global_fifo_list are written once, and  *)
(* an id leads to the fifo of its uuid as long as the cursors stay in the  *)
(* static partitions.                                                      *)
(***************************************************************************)

\* The condition that syscall_fifo_init does not enforce: no PU has handed
\* out more ids than its partition holds.
CursorInPartition == \A s \in PU : fifoNow[s] \in Partition(s)

\* Some PU has a completely filled entry i for uuid u.
Named(i, u) == \E s \in PU : Filled(s, i, u)

\* A taken entry lies in its PU's partition and names a pipe of that PU.
EntriesOwn ==
  \A s \in PU, i \in FifoId :
    fifo[s][i].pu_id # -1 => /\ fifo[s][i].pu_id = s
                             /\ i \in Partition(s)
                             /\ HasPath(s, fifo[s][i].local_uuid)

\* Between the entry and ht_insert, the cursor is at the filled entry.
Inserting ==
  \A s \in PU : sysPc[s] = "insert" => Filled(s, fifoNow[s], sysReq[s].uuid)

\* What fifo_guuid_table holds, also as a cache of the other PU's table.
TablesNamed ==
  \A s \in PU, u \in Uuid : guuid[s][u] # -1 => Named(guuid[s][u], u)

\* Answers to FIFO_CONNECT on their way: in the DSM link, in the SYSCALL
\* thread, in the socket of the process and in the process.
DsmAnswers ==
  \A s \in PU : /\ dsmPc[s] = "response"
                /\ dsmReq[s].func = "FIFO_CONNECT"
                /\ dsmRet[s] # -1
                => Named(dsmRet[s], dsmReq[s].uuid)
SysAnswers ==
  \A s \in PU : /\ sysPc[s] = "reply"
                /\ sysReq[s].func = "FIFO_CONNECT"
                /\ sysRet[s] # -1
                => Named(sysRet[s], sysReq[s].uuid)
ProcAnswers ==
  \A p \in Proc :
    /\ /\ conn[p] = "answer"
       /\ req[p].func = "FIFO_CONNECT"
       /\ ret[p] # -1
       => Named(ret[p], req[p].uuid)
    /\ \A f \in fds[p] : f[2] # -1 => Named(f[2], f[1])

RouteInv == /\ EntriesOwn /\ Inserting /\ TablesNamed
            /\ DsmAnswers /\ SysAnswers /\ ProcAnswers

-----------------------------------------------------------------------------
(* What every step leaves alone.                                           *)

\* Only GlobalFifoInit creates a pipe, and nothing removes one.
LEMMA PipesStay == ASSUME [Next]_vars PROVE made \subseteq made'
<1>1. ASSUME NEW p \in Proc, ProcNext(p) PROVE made \subseteq made'
  BY <1>1 DEF ProcNext, RegisterSelfGlobal, GlobalFifoInit, GlobalFifoConnect,
     GlobalFifoWrite, GlobalFifoRead, GlobalFifoClose, GlobalSpawn, Return, FifoRead,
     AnswerLost, Die
<1>2. ASSUME NEW s \in PU, OsNext(s) PROVE made \subseteq made'
  <2>1. CASE \E p \in Proc : Receive(s, p) \/ ReceiveEof(s, p) \/ ReceiveError(s, p)
    BY <2>1 DEF Receive, ReceiveEof, ReceiveError, procVars
  <2>2. CASE \/ ReplyToBroken(s) \/ UnknownSyscall(s) \/ RegisterNoSegment(s)
             \/ BoundPanic(s) \/ WriteTooLong(s) \/ OpenPanic(s) \/ WritePanic(s)
    BY <2>2, PanicSteps DEF Panic, procVars
  <2>3. CASE SysHandler(s) \/ DsmNext(s)
    BY <2>2, <2>3 DEF SysHandler, DsmNext, Reply, SyscallRegisterGlobal, SyscallFifoInit,
       FifoInitInsert, SyscallFifoConnect, FifoConnectAnswer, SyscallFifoRead,
       SyscallFifoWrite, FifoWriteAnswer, SyscallGspawn, SysOpenFifo, SysWriteFifo,
       DsmHandlers, DsmOpenFifo, DsmWriteFifo, procVars
  <2> QED BY <1>2, <2>1, <2>2, <2>3 DEF OsNext
<1> QED BY <1>1, <1>2 DEF Next, vars, procVars

\* Only SyscallFifoInit changes global_fifo_list, and only a free entry.
LEMMA EntriesStay ==
  ASSUME LinkInv, [Next]_vars, NEW t \in PU, NEW i \in FifoId, fifo[t][i].pu_id # -1
  PROVE  fifo'[t][i] = fifo[t][i]
<1>1. ASSUME NEW p \in Proc, ProcNext(p) PROVE fifo' = fifo
  BY <1>1 DEF ProcNext, RegisterSelfGlobal, GlobalFifoInit, GlobalFifoConnect,
     GlobalFifoWrite, GlobalFifoRead, GlobalFifoClose, GlobalSpawn, Return, FifoRead,
     AnswerLost, Die, osVars
<1>2. ASSUME NEW s \in PU, OsNext(s) PROVE fifo' = fifo \/ SyscallFifoInit(s)
  <2>1. CASE \E p \in Proc : Receive(s, p) \/ ReceiveEof(s, p) \/ ReceiveError(s, p)
    BY <2>1 DEF Receive, ReceiveEof, ReceiveError, osVars
  <2>2. CASE \/ ReplyToBroken(s) \/ UnknownSyscall(s) \/ RegisterNoSegment(s)
             \/ BoundPanic(s) \/ WriteTooLong(s) \/ OpenPanic(s) \/ WritePanic(s)
    BY <2>2, PanicSteps DEF Panic
  <2>3. CASE SysHandler(s) \/ DsmNext(s)
    BY <2>2, <2>3 DEF SysHandler, DsmNext, Reply, SyscallRegisterGlobal,
       FifoInitInsert, SyscallFifoConnect, FifoConnectAnswer, SyscallFifoRead,
       SyscallFifoWrite, FifoWriteAnswer, SyscallGspawn, SysOpenFifo, SysWriteFifo,
       DsmHandlers, DsmOpenFifo, DsmWriteFifo, osVars
  <2> QED BY <1>2, <2>1, <2>2, <2>3 DEF OsNext
<1>3. ASSUME NEW s \in PU, SyscallFifoInit(s) PROVE fifo'[t][i] = fifo[t][i]
  <2>1. fifo \in [PU -> [FifoId -> Entry]]
    BY DEF LinkInv, TypeOK, OsTypeOK
  <2>2. CASE SlotFree(s, NextFifo(s))
    <3>1. t # s \/ i # NextFifo(s)
      BY <2>2 DEF SlotFree
    <3>2. PICK e : fifo' = [fifo EXCEPT ![s][NextFifo(s)] = e]
      BY <1>3, <2>2 DEF SyscallFifoInit
    <3> QED BY <2>1, <3>1, <3>2
  <2>3. CASE ~SlotFree(s, NextFifo(s))
    BY <1>3, <2>3 DEF SyscallFifoInit
  <2> QED BY <2>2, <2>3
<1> QED BY <1>1, <1>2, <1>3 DEF Next, vars, osVars

\* A filled entry stays filled.
LEMMA FilledStays ==
  ASSUME LinkInv, [Next]_vars, NEW t \in PU, NEW i, NEW u, Filled(t, i, u)
  PROVE  Filled(t, i, u)'
<1>1. t # -1
  BY DEF PU
<1>2. fifo'[t][i] = fifo[t][i]
  BY <1>1, EntriesStay DEF Filled
<1>3. made \subseteq made'
  BY PipesStay
<1> QED BY <1>2, <1>3 DEF Filled, HasPath

\* A name that FIFO_CONNECT may give out stays one.
LEMMA NamedStays ==
  ASSUME LinkInv, [Next]_vars PROVE \A i, u : Named(i, u) => Named(i, u)'
BY FilledStays DEF Named

\* The partitions of the two PUs are disjoint.
LEMMA PartitionsDisjoint ==
  ASSUME NEW s \in PU, NEW t \in PU, NEW i \in Partition(s), i \in Partition(t)
  PROVE  s = t
BY SizeAssumption DEF PU, Partition

-----------------------------------------------------------------------------
(* One lemma per step.  Named(i, u) is carried over by NamedStays.          *)

\* RegisterSelfGlobal keeps what the answers name.
LEMMA RegisterSelfGlobalRoute ==
  ASSUME LinkInv, RouteInv, CursorInPartition', [Next]_vars, NEW p \in Proc, RegisterSelfGlobal(p)
  PROVE  RouteInv'
<1> USE NamedStays DEF RouteInv, RegisterSelfGlobal, Send, Args, osVars, sysVars,
   dsmVars, procVars
<1>1. EntriesOwn'
  BY DEF EntriesOwn, HasPath
<1>2. Inserting'
  BY DEF Inserting, Filled, HasPath
<1>3. TablesNamed'
  BY DEF TablesNamed
<1>4. DsmAnswers'
  BY DEF DsmAnswers
<1>5. SysAnswers'
  BY DEF SysAnswers
<1>6. ProcAnswers'
  BY DEF ProcAnswers
<1> QED BY <1>1, <1>2, <1>3, <1>4, <1>5, <1>6

\* GlobalFifoInit keeps what the answers name.
LEMMA GlobalFifoInitRoute ==
  ASSUME LinkInv, RouteInv, CursorInPartition', [Next]_vars, NEW p \in Proc, GlobalFifoInit(p)
  PROVE  RouteInv'
<1> USE NamedStays DEF RouteInv, GlobalFifoInit, Send, Args, osVars, sysVars,
   dsmVars, procVars
<1>1. EntriesOwn'
  BY DEF EntriesOwn, HasPath
<1>2. Inserting'
  BY DEF Inserting, Filled, HasPath
<1>3. TablesNamed'
  BY DEF TablesNamed
<1>4. DsmAnswers'
  BY DEF DsmAnswers
<1>5. SysAnswers'
  BY DEF SysAnswers
<1>6. ProcAnswers'
  BY DEF ProcAnswers
<1> QED BY <1>1, <1>2, <1>3, <1>4, <1>5, <1>6

\* GlobalFifoConnect keeps what the answers name.
LEMMA GlobalFifoConnectRoute ==
  ASSUME LinkInv, RouteInv, CursorInPartition', [Next]_vars, NEW p \in Proc, GlobalFifoConnect(p)
  PROVE  RouteInv'
<1> USE NamedStays DEF RouteInv, GlobalFifoConnect, Send, Args, osVars, sysVars,
   dsmVars, procVars
<1>1. EntriesOwn'
  BY DEF EntriesOwn, HasPath
<1>2. Inserting'
  BY DEF Inserting, Filled, HasPath
<1>3. TablesNamed'
  BY DEF TablesNamed
<1>4. DsmAnswers'
  BY DEF DsmAnswers
<1>5. SysAnswers'
  BY DEF SysAnswers
<1>6. ProcAnswers'
  BY UnusedRequest DEF LinkInv, TypeOK, ProcTypeOK, ProcAnswers
<1> QED BY <1>1, <1>2, <1>3, <1>4, <1>5, <1>6

\* GlobalFifoWrite keeps what the answers name.
LEMMA GlobalFifoWriteRoute ==
  ASSUME LinkInv, RouteInv, CursorInPartition', [Next]_vars, NEW p \in Proc, GlobalFifoWrite(p)
  PROVE  RouteInv'
<1> USE NamedStays DEF RouteInv, GlobalFifoWrite, Send, Args, osVars, sysVars,
   dsmVars, procVars
<1>1. EntriesOwn'
  BY DEF EntriesOwn, HasPath
<1>2. Inserting'
  BY DEF Inserting, Filled, HasPath
<1>3. TablesNamed'
  BY DEF TablesNamed
<1>4. DsmAnswers'
  BY DEF DsmAnswers
<1>5. SysAnswers'
  BY DEF SysAnswers
<1>6. ProcAnswers'
  BY DEF ProcAnswers
<1> QED BY <1>1, <1>2, <1>3, <1>4, <1>5, <1>6

\* GlobalFifoRead keeps what the answers name.
LEMMA GlobalFifoReadRoute ==
  ASSUME LinkInv, RouteInv, CursorInPartition', [Next]_vars, NEW p \in Proc, GlobalFifoRead(p)
  PROVE  RouteInv'
<1> USE NamedStays DEF RouteInv, GlobalFifoRead, Send, Args, osVars, sysVars,
   dsmVars, procVars
<1>1. EntriesOwn'
  BY DEF EntriesOwn, HasPath
<1>2. Inserting'
  BY DEF Inserting, Filled, HasPath
<1>3. TablesNamed'
  BY DEF TablesNamed
<1>4. DsmAnswers'
  BY DEF DsmAnswers
<1>5. SysAnswers'
  BY DEF SysAnswers
<1>6. ProcAnswers'
  BY DEF ProcAnswers
<1> QED BY <1>1, <1>2, <1>3, <1>4, <1>5, <1>6

\* GlobalFifoClose keeps what the answers name.
LEMMA GlobalFifoCloseRoute ==
  ASSUME LinkInv, RouteInv, CursorInPartition', [Next]_vars, NEW p \in Proc, GlobalFifoClose(p)
  PROVE  RouteInv'
<1> USE NamedStays DEF RouteInv, GlobalFifoClose, Send, Args, osVars, sysVars,
   dsmVars, procVars
<1>1. EntriesOwn'
  BY DEF EntriesOwn, HasPath
<1>2. Inserting'
  BY DEF Inserting, Filled, HasPath
<1>3. TablesNamed'
  BY DEF TablesNamed
<1>4. DsmAnswers'
  BY DEF DsmAnswers
<1>5. SysAnswers'
  BY DEF SysAnswers
<1>6. ProcAnswers'
  BY DEF ProcAnswers
<1> QED BY <1>1, <1>2, <1>3, <1>4, <1>5, <1>6

\* GlobalSpawn keeps what the answers name.
LEMMA GlobalSpawnRoute ==
  ASSUME LinkInv, RouteInv, CursorInPartition', [Next]_vars, NEW p \in Proc, GlobalSpawn(p)
  PROVE  RouteInv'
<1> USE NamedStays DEF RouteInv, GlobalSpawn, Send, Args, osVars, sysVars,
   dsmVars, procVars
<1>1. EntriesOwn'
  BY DEF EntriesOwn, HasPath
<1>2. Inserting'
  BY DEF Inserting, Filled, HasPath
<1>3. TablesNamed'
  BY DEF TablesNamed
<1>4. DsmAnswers'
  BY DEF DsmAnswers
<1>5. SysAnswers'
  BY DEF SysAnswers
<1>6. ProcAnswers'
  BY DEF ProcAnswers
<1> QED BY <1>1, <1>2, <1>3, <1>4, <1>5, <1>6

\* Return keeps what the answers name.
LEMMA ReturnRoute ==
  ASSUME LinkInv, RouteInv, CursorInPartition', [Next]_vars, NEW p \in Proc, Return(p)
  PROVE  RouteInv'
<1> USE NamedStays DEF RouteInv, Return, osVars, sysVars, dsmVars, procVars
<1>1. EntriesOwn'
  BY DEF EntriesOwn, HasPath
<1>2. Inserting'
  BY DEF Inserting, Filled, HasPath
<1>3. TablesNamed'
  BY DEF TablesNamed
<1>4. DsmAnswers'
  BY DEF DsmAnswers
<1>5. SysAnswers'
  BY DEF SysAnswers
<1>6. ProcAnswers'
  BY UnusedRequest DEF LinkInv, TypeOK, ProcTypeOK, ProcAnswers
<1> QED BY <1>1, <1>2, <1>3, <1>4, <1>5, <1>6

\* FifoRead keeps what the answers name.
LEMMA FifoReadRoute ==
  ASSUME LinkInv, RouteInv, CursorInPartition', [Next]_vars, NEW p \in Proc, FifoRead(p)
  PROVE  RouteInv'
<1> USE NamedStays DEF RouteInv, FifoRead, osVars, sysVars, dsmVars, procVars
<1>1. EntriesOwn'
  BY DEF EntriesOwn, HasPath
<1>2. Inserting'
  BY DEF Inserting, Filled, HasPath
<1>3. TablesNamed'
  BY DEF TablesNamed
<1>4. DsmAnswers'
  BY DEF DsmAnswers
<1>5. SysAnswers'
  BY DEF SysAnswers
<1>6. ProcAnswers'
  BY DEF ProcAnswers
<1> QED BY <1>1, <1>2, <1>3, <1>4, <1>5, <1>6

\* AnswerLost keeps what the answers name.
LEMMA AnswerLostRoute ==
  ASSUME LinkInv, RouteInv, CursorInPartition', [Next]_vars, NEW p \in Proc, AnswerLost(p)
  PROVE  RouteInv'
<1> USE NamedStays DEF RouteInv, AnswerLost, osVars, sysVars, dsmVars, procVars
<1>1. EntriesOwn'
  BY DEF EntriesOwn, HasPath
<1>2. Inserting'
  BY DEF Inserting, Filled, HasPath
<1>3. TablesNamed'
  BY DEF TablesNamed
<1>4. DsmAnswers'
  BY DEF DsmAnswers
<1>5. SysAnswers'
  BY DEF SysAnswers
<1>6. ProcAnswers'
  BY DEF ProcAnswers
<1> QED BY <1>1, <1>2, <1>3, <1>4, <1>5, <1>6

\* Die keeps what the answers name.
LEMMA DieRoute ==
  ASSUME LinkInv, RouteInv, CursorInPartition', [Next]_vars, NEW p \in Proc, Die(p)
  PROVE  RouteInv'
<1> USE NamedStays DEF RouteInv, Die, osVars, sysVars, dsmVars, procVars
<1>1. EntriesOwn'
  BY DEF EntriesOwn, HasPath
<1>2. Inserting'
  BY DEF Inserting, Filled, HasPath
<1>3. TablesNamed'
  BY DEF TablesNamed
<1>4. DsmAnswers'
  BY DEF DsmAnswers
<1>5. SysAnswers'
  BY DEF SysAnswers
<1>6. ProcAnswers'
  BY DEF ProcAnswers
<1> QED BY <1>1, <1>2, <1>3, <1>4, <1>5, <1>6

\* Reply keeps what the answers name.
LEMMA ReplyRoute ==
  ASSUME LinkInv, RouteInv, CursorInPartition', [Next]_vars, NEW s \in PU, Reply(s)
  PROVE  RouteInv'
<1> USE NamedStays DEF RouteInv, Reply, At, osVars, sysVars, dsmVars, procVars
<1>1. EntriesOwn'
  BY DEF EntriesOwn, HasPath
<1>2. Inserting'
  BY DEF Inserting, Filled, HasPath
<1>3. TablesNamed'
  BY DEF TablesNamed
<1>4. DsmAnswers'
  BY DEF DsmAnswers
<1>5. SysAnswers'
  BY DEF LinkInv, TypeOK, ThreadTypeOK, SysAnswers
<1>6. ProcAnswers'
  <2> DEFINE p == sysConn[s]
  <2>1. p \in Proc => sysReq[s] = req[p]
    BY ProcAssumption DEF LinkInv, Sessions, Threads
  <2>2. ASSUME p \in Proc, req[p].func = "FIFO_CONNECT", sysRet[s] # -1
        PROVE  Named(sysRet[s], req[p].uuid)
    BY <2>1, <2>2 DEF SysAnswers
  <2> QED BY <2>2 DEF LinkInv, TypeOK, ThreadTypeOK, ProcTypeOK, ProcAnswers
<1> QED BY <1>1, <1>2, <1>3, <1>4, <1>5, <1>6

\* SyscallRegisterGlobal keeps what the answers name.
LEMMA SyscallRegisterGlobalRoute ==
  ASSUME LinkInv, RouteInv, CursorInPartition', [Next]_vars, NEW s \in PU, SyscallRegisterGlobal(s)
  PROVE  RouteInv'
<1> USE NamedStays DEF RouteInv, SyscallRegisterGlobal, At, Handling, Goto,
   Result, osVars, sysVars, dsmVars, procVars
<1>1. EntriesOwn'
  BY DEF EntriesOwn, HasPath
<1>2. Inserting'
  BY DEF LinkInv, TypeOK, ThreadTypeOK, Inserting, Filled, HasPath
<1>3. TablesNamed'
  BY DEF TablesNamed
<1>4. DsmAnswers'
  BY DEF DsmAnswers
<1>5. SysAnswers'
  BY DEF LinkInv, TypeOK, ThreadTypeOK, SysAnswers
<1>6. ProcAnswers'
  BY DEF ProcAnswers
<1> QED BY <1>1, <1>2, <1>3, <1>4, <1>5, <1>6

\* SyscallFifoInit keeps what the answers name.
LEMMA SyscallFifoInitRoute ==
  ASSUME LinkInv, RouteInv, CursorInPartition', [Next]_vars, NEW s \in PU, SyscallFifoInit(s)
  PROVE  RouteInv'
<1> USE NamedStays DEF RouteInv, SyscallFifoInit, At, Handling, Goto, Result,
   SlotFree, osVars, sysVars, dsmVars, procVars
<1> DEFINE i == NextFifo(s)
           e == [pu_id |-> s, local_uuid |-> sysReq[s].local,
                 global_uuid |-> sysReq[s].uuid]
<1>a. i \in FifoId
  BY Cursors, Ids DEF NextFifo, LinkInv, TypeOK, OsTypeOK
<1>b. fifo \in [PU -> [FifoId -> Entry]] /\ fifoNow \in [PU -> FifoId]
  BY DEF LinkInv, TypeOK, OsTypeOK
<1>c. sysReq \in [PU -> Request] /\ sysPc \in [PU -> SysPc]
  BY DEF LinkInv, TypeOK, ThreadTypeOK
<1>d. fifoNow'[s] = i /\ i \in Partition(s)
  BY <1>a, <1>b DEF CursorInPartition, Partition
<1>e. HasPath(s, e.local_uuid)
  BY DEF LinkInv, Requests, GoodRequest
<1>f. /\ SlotFree(s, i) => fifo' = [fifo EXCEPT ![s][i] = e]
      /\ ~SlotFree(s, i) => fifo' = fifo
  OBVIOUS
<1>g. e.pu_id = s /\ e.global_uuid = sysReq[s].uuid
  OBVIOUS
<1> HIDE DEF i, e
<1>1. EntriesOwn'
  <2> SUFFICES ASSUME NEW t \in PU, NEW k \in FifoId, fifo'[t][k].pu_id # -1
               PROVE  /\ fifo'[t][k].pu_id = t
                      /\ k \in Partition(t)
                      /\ HasPath(t, fifo[t][k].local_uuid)'
    BY DEF EntriesOwn, Partition, HasPath
  <2>1. CASE fifo'[t][k] = fifo[t][k]
    BY <2>1 DEF EntriesOwn, HasPath
  <2>2. CASE fifo'[t][k] # fifo[t][k]
    <3>1. t = s /\ k = i /\ fifo'[t][k] = e
      BY <1>b, <1>f, <2>2
    <3> QED BY <3>1, <1>d, <1>e, <1>g DEF HasPath
  <2> QED BY <2>1, <2>2
<1>2. Inserting'
  <2> SUFFICES ASSUME NEW t \in PU, sysPc'[t] = "insert"
               PROVE  Filled(t, fifoNow[t], sysReq[t].uuid)'
    BY DEF Inserting
  <2>1. CASE t = s
    <3>1. SlotFree(s, i)
      BY <1>c, <2>1 DEF i
    <3>2. fifo'[s][i] = e
      BY <1>a, <1>b, <1>f, <3>1
    <3> QED BY <1>a, <1>d, <1>e, <1>g, <2>1, <3>2 DEF Filled, HasPath
  <2>2. CASE t # s
    <3>1. Filled(t, fifoNow[t], sysReq[t].uuid)
      BY <1>c, <2>2 DEF Inserting
    <3>2. fifoNow'[t] = fifoNow[t] /\ sysReq' = sysReq
      BY <1>b, <2>2
    <3> QED BY <3>1, <3>2, FilledStays DEF Filled, HasPath
  <2> QED BY <2>1, <2>2
<1>3. TablesNamed'
  BY DEF TablesNamed
<1>4. DsmAnswers'
  BY DEF DsmAnswers
<1>5. SysAnswers'
  BY DEF LinkInv, TypeOK, ThreadTypeOK, SysAnswers
<1>6. ProcAnswers'
  BY DEF ProcAnswers
<1> QED BY <1>1, <1>2, <1>3, <1>4, <1>5, <1>6

\* FifoInitInsert keeps what the answers name.
LEMMA FifoInitInsertRoute ==
  ASSUME LinkInv, RouteInv, CursorInPartition', [Next]_vars, NEW s \in PU, FifoInitInsert(s)
  PROVE  RouteInv'
<1> USE NamedStays DEF RouteInv, FifoInitInsert, At, Handling, Goto, Result,
   osVars, sysVars, dsmVars, procVars
<1>1. EntriesOwn'
  BY DEF EntriesOwn, HasPath
<1>2. Inserting'
  BY DEF Inserting, Filled, HasPath
<1>3. TablesNamed'
  <2>2. Named(fifoNow[s], sysReq[s].uuid)'
    <3>1. Filled(s, fifoNow[s], sysReq[s].uuid)
      BY DEF Inserting
    <3> QED BY <3>1, FilledStays DEF Named, Filled, HasPath
  <2> SUFFICES ASSUME NEW t \in PU, NEW u \in Uuid, guuid'[t][u] # -1
               PROVE  Named(guuid[t][u], u)'
    BY DEF TablesNamed
  <2>3. CASE t = s /\ u = sysReq[s].uuid
    <3>1. guuid'[t][u] = fifoNow[s] /\ fifoNow' = fifoNow /\ sysReq' = sysReq
      BY <2>3 DEF LinkInv, TypeOK, OsTypeOK
    <3> QED BY <2>2, <2>3, <3>1 DEF Named, Filled, HasPath
  <2>4. CASE ~(t = s /\ u = sysReq[s].uuid)
    <3>1. guuid'[t][u] = guuid[t][u]
      BY <2>4 DEF LinkInv, TypeOK, OsTypeOK
    <3>2. Named(guuid[t][u], u)
      BY <3>1 DEF TablesNamed
    <3> QED BY <3>1, <3>2, FilledStays DEF Named, Filled, HasPath
  <2> QED BY <2>3, <2>4
<1>4. DsmAnswers'
  BY DEF DsmAnswers
<1>5. SysAnswers'
  BY DEF LinkInv, TypeOK, ThreadTypeOK, SysAnswers, Threads
<1>6. ProcAnswers'
  BY DEF ProcAnswers
<1> QED BY <1>1, <1>2, <1>3, <1>4, <1>5, <1>6

\* SyscallFifoConnect keeps what the answers name.
LEMMA SyscallFifoConnectRoute ==
  ASSUME LinkInv, RouteInv, CursorInPartition', [Next]_vars, NEW s \in PU, SyscallFifoConnect(s)
  PROVE  RouteInv'
<1> USE NamedStays DEF RouteInv, SyscallFifoConnect, At, Handling, Goto, Result,
   DsmCall, osVars, sysVars, dsmVars, procVars
<1>1. EntriesOwn'
  BY DEF EntriesOwn, HasPath
<1>2. Inserting'
  BY DEF LinkInv, TypeOK, ThreadTypeOK, Inserting, Filled, HasPath
<1>3. TablesNamed'
  BY DEF TablesNamed
<1>4. DsmAnswers'
  BY DEF LinkInv, TypeOK, ThreadTypeOK, DsmAnswers
<1>5. SysAnswers'
  <2>1. ASSUME guuid[s][sysReq[s].uuid] # -1
        PROVE  Named(guuid[s][sysReq[s].uuid], sysReq[s].uuid)
    BY <2>1 DEF TablesNamed, LinkInv, Requests, GoodRequest
  <2>2. CASE guuid[s][sysReq[s].uuid] # -1
    BY <2>1, <2>2 DEF LinkInv, TypeOK, ThreadTypeOK, SysAnswers
  <2>3. CASE guuid[s][sysReq[s].uuid] = -1
    BY <2>3 DEF LinkInv, TypeOK, ThreadTypeOK, SysAnswers
  <2> QED BY <2>2, <2>3
<1>6. ProcAnswers'
  BY DEF ProcAnswers
<1> QED BY <1>1, <1>2, <1>3, <1>4, <1>5, <1>6

\* FifoConnectAnswer keeps what the answers name.
LEMMA FifoConnectAnswerRoute ==
  ASSUME LinkInv, RouteInv, CursorInPartition', [Next]_vars, NEW s \in PU, FifoConnectAnswer(s)
  PROVE  RouteInv'
<1> USE NamedStays DEF RouteInv, FifoConnectAnswer, At, Handling, Goto, Result,
   DsmReturn, osVars, sysVars, dsmVars, procVars
<1>a. PICK r, u : r = dsmRet[Other(s)] /\ u = sysReq[s].uuid
  OBVIOUS
<1>0. r # -1 => Named(r, u)
  BY <1>a, OtherPU DEF LinkInv, Threads, DsmAnswers
<1>1. EntriesOwn'
  BY DEF EntriesOwn, HasPath
<1>2. Inserting'
  BY DEF Inserting, Filled, HasPath
<1>3. TablesNamed'
  <2>1. CASE ~(r > 0)
    BY <1>a, <2>1 DEF TablesNamed
  <2>2. CASE r > 0
    <3>1. r # -1
      BY <2>2
    <3>2. Named(r, u)'
      BY <1>0, <3>1
    <3> SUFFICES ASSUME NEW t \in PU, NEW v \in Uuid, guuid'[t][v] # -1
                 PROVE  Named(guuid[t][v], v)'
      BY DEF TablesNamed, Named, Filled, HasPath
    <3>3. CASE t = s /\ v = u
      BY <1>a, <2>2, <3>2, <3>3 DEF LinkInv, TypeOK, OsTypeOK
    <3>4. CASE ~(t = s /\ v = u)
      <4>1. guuid'[t][v] = guuid[t][v]
        BY <1>a, <2>2, <3>4 DEF LinkInv, TypeOK, OsTypeOK
      <4> QED BY <4>1 DEF TablesNamed, Named, Filled, HasPath
    <3> QED BY <3>3, <3>4
  <2> QED BY <2>1, <2>2
<1>4. DsmAnswers'
  BY DEF LinkInv, TypeOK, ThreadTypeOK, DsmAnswers
<1>5. SysAnswers'
  BY <1>a, <1>0 DEF LinkInv, TypeOK, ThreadTypeOK, SysAnswers
<1>6. ProcAnswers'
  BY DEF ProcAnswers
<1> QED BY <1>1, <1>2, <1>3, <1>4, <1>5, <1>6

\* SyscallFifoRead keeps what the answers name.
LEMMA SyscallFifoReadRoute ==
  ASSUME LinkInv, RouteInv, CursorInPartition', [Next]_vars, NEW s \in PU, SyscallFifoRead(s)
  PROVE  RouteInv'
<1> USE NamedStays DEF RouteInv, SyscallFifoRead, At, Handling, Goto, Result,
   osVars, sysVars, dsmVars, procVars
<1>1. EntriesOwn'
  BY DEF EntriesOwn, HasPath
<1>2. Inserting'
  BY DEF Inserting, Filled, HasPath
<1>3. TablesNamed'
  BY DEF TablesNamed
<1>4. DsmAnswers'
  BY DEF DsmAnswers
<1>5. SysAnswers'
  BY DEF SysAnswers
<1>6. ProcAnswers'
  BY DEF ProcAnswers
<1> QED BY <1>1, <1>2, <1>3, <1>4, <1>5, <1>6

\* SyscallFifoWrite keeps what the answers name.
LEMMA SyscallFifoWriteRoute ==
  ASSUME LinkInv, RouteInv, CursorInPartition', [Next]_vars, NEW s \in PU, SyscallFifoWrite(s)
  PROVE  RouteInv'
<1> USE NamedStays DEF RouteInv, SyscallFifoWrite, At, Handling, Goto, Result,
   DsmCall, osVars, sysVars, dsmVars, procVars
<1>1. EntriesOwn'
  BY DEF EntriesOwn, HasPath
<1>2. Inserting'
  BY DEF LinkInv, TypeOK, ThreadTypeOK, Inserting, Filled, HasPath
<1>3. TablesNamed'
  BY DEF TablesNamed
<1>4. DsmAnswers'
  BY DEF LinkInv, TypeOK, ThreadTypeOK, DsmAnswers
<1>5. SysAnswers'
  BY DEF LinkInv, TypeOK, ThreadTypeOK, SysAnswers
<1>6. ProcAnswers'
  BY DEF ProcAnswers
<1> QED BY <1>1, <1>2, <1>3, <1>4, <1>5, <1>6

\* FifoWriteAnswer keeps what the answers name.
LEMMA FifoWriteAnswerRoute ==
  ASSUME LinkInv, RouteInv, CursorInPartition', [Next]_vars, NEW s \in PU, FifoWriteAnswer(s)
  PROVE  RouteInv'
<1> USE NamedStays DEF RouteInv, FifoWriteAnswer, At, Handling, Goto, Result,
   DsmReturn, osVars, sysVars, dsmVars, procVars
<1>1. EntriesOwn'
  BY DEF EntriesOwn, HasPath
<1>2. Inserting'
  BY DEF Inserting, Filled, HasPath
<1>3. TablesNamed'
  BY DEF TablesNamed
<1>4. DsmAnswers'
  BY DEF LinkInv, TypeOK, ThreadTypeOK, DsmAnswers
<1>5. SysAnswers'
  BY DEF SysAnswers
<1>6. ProcAnswers'
  BY DEF ProcAnswers
<1> QED BY <1>1, <1>2, <1>3, <1>4, <1>5, <1>6

\* SyscallGspawn keeps what the answers name.
LEMMA SyscallGspawnRoute ==
  ASSUME LinkInv, RouteInv, CursorInPartition', [Next]_vars, NEW s \in PU, SyscallGspawn(s)
  PROVE  RouteInv'
<1> USE NamedStays DEF RouteInv, SyscallGspawn, At, Handling, Goto, Result,
   osVars, sysVars, dsmVars, procVars
<1>1. EntriesOwn'
  BY DEF EntriesOwn, HasPath
<1>2. Inserting'
  BY DEF LinkInv, TypeOK, ThreadTypeOK, Inserting, Filled, HasPath
<1>3. TablesNamed'
  BY DEF TablesNamed
<1>4. DsmAnswers'
  BY DEF DsmAnswers
<1>5. SysAnswers'
  BY DEF LinkInv, TypeOK, ThreadTypeOK, SysAnswers
<1>6. ProcAnswers'
  BY DEF ProcAnswers
<1> QED BY <1>1, <1>2, <1>3, <1>4, <1>5, <1>6

\* SysOpenFifo keeps what the answers name.
LEMMA SysOpenFifoRoute ==
  ASSUME LinkInv, RouteInv, CursorInPartition', [Next]_vars, NEW s \in PU, SysOpenFifo(s)
  PROVE  RouteInv'
<1> USE NamedStays DEF RouteInv, SysOpenFifo, At, Handling, Goto, Result, osVars,
   sysVars, dsmVars, procVars
<1>1. EntriesOwn'
  BY DEF EntriesOwn, HasPath
<1>2. Inserting'
  BY DEF Inserting, Filled, HasPath
<1>3. TablesNamed'
  BY DEF TablesNamed
<1>4. DsmAnswers'
  BY DEF DsmAnswers
<1>5. SysAnswers'
  BY DEF SysAnswers
<1>6. ProcAnswers'
  BY DEF ProcAnswers
<1> QED BY <1>1, <1>2, <1>3, <1>4, <1>5, <1>6

\* SysWriteFifo keeps what the answers name.
LEMMA SysWriteFifoRoute ==
  ASSUME LinkInv, RouteInv, CursorInPartition', [Next]_vars, NEW s \in PU, SysWriteFifo(s)
  PROVE  RouteInv'
<1> USE NamedStays DEF RouteInv, SysWriteFifo, At, Handling, Goto, Result, osVars,
   sysVars, dsmVars, procVars
<1>1. EntriesOwn'
  BY DEF EntriesOwn, HasPath
<1>2. Inserting'
  BY DEF Inserting, Filled, HasPath
<1>3. TablesNamed'
  BY DEF TablesNamed
<1>4. DsmAnswers'
  BY DEF DsmAnswers
<1>5. SysAnswers'
  BY DEF LinkInv, TypeOK, ThreadTypeOK, SysAnswers, Threads
<1>6. ProcAnswers'
  BY DEF ProcAnswers
<1> QED BY <1>1, <1>2, <1>3, <1>4, <1>5, <1>6

\* DsmHandlers keeps what the answers name.
LEMMA DsmHandlersRoute ==
  ASSUME LinkInv, RouteInv, CursorInPartition', [Next]_vars, NEW s \in PU, DsmHandlers(s)
  PROVE  RouteInv'
<1> USE NamedStays DEF RouteInv, DsmHandlers, DsmAt, osVars, sysVars, dsmVars,
   procVars
<1>1. EntriesOwn'
  BY DEF EntriesOwn, HasPath
<1>2. Inserting'
  BY DEF Inserting, Filled, HasPath
<1>3. TablesNamed'
  BY DEF TablesNamed
<1>4. DsmAnswers'
  <2>1. ASSUME dsmReq[s].func = "FIFO_CONNECT", guuid[s][dsmReq[s].uuid] # -1
        PROVE  Named(guuid[s][dsmReq[s].uuid], dsmReq[s].uuid)
    BY <2>1 DEF TablesNamed, LinkInv, Requests, GoodRequest
  <2>2. CASE dsmReq[s].func = "FIFO_CONNECT"
    BY <2>1, <2>2 DEF LinkInv, TypeOK, ThreadTypeOK, DsmAnswers
  <2>3. CASE dsmReq[s].func = "FIFO_WRITE"
    BY <2>3 DEF LinkInv, TypeOK, ThreadTypeOK, DsmAnswers
  <2> QED BY <2>2, <2>3
<1>5. SysAnswers'
  BY DEF SysAnswers
<1>6. ProcAnswers'
  BY DEF ProcAnswers
<1> QED BY <1>1, <1>2, <1>3, <1>4, <1>5, <1>6

\* DsmOpenFifo keeps what the answers name.
LEMMA DsmOpenFifoRoute ==
  ASSUME LinkInv, RouteInv, CursorInPartition', [Next]_vars, NEW s \in PU, DsmOpenFifo(s)
  PROVE  RouteInv'
<1> USE NamedStays DEF RouteInv, DsmOpenFifo, DsmAt, osVars, sysVars, dsmVars,
   procVars
<1>1. EntriesOwn'
  BY DEF EntriesOwn, HasPath
<1>2. Inserting'
  BY DEF Inserting, Filled, HasPath
<1>3. TablesNamed'
  BY DEF TablesNamed
<1>4. DsmAnswers'
  BY DEF DsmAnswers
<1>5. SysAnswers'
  BY DEF SysAnswers
<1>6. ProcAnswers'
  BY DEF ProcAnswers
<1> QED BY <1>1, <1>2, <1>3, <1>4, <1>5, <1>6

\* DsmWriteFifo keeps what the answers name.
LEMMA DsmWriteFifoRoute ==
  ASSUME LinkInv, RouteInv, CursorInPartition', [Next]_vars, NEW s \in PU, DsmWriteFifo(s)
  PROVE  RouteInv'
<1> USE NamedStays DEF RouteInv, DsmWriteFifo, DsmAt, osVars, sysVars, dsmVars,
   procVars
<1>1. EntriesOwn'
  BY DEF EntriesOwn, HasPath
<1>2. Inserting'
  BY DEF Inserting, Filled, HasPath
<1>3. TablesNamed'
  BY DEF TablesNamed
<1>4. DsmAnswers'
  BY DEF LinkInv, TypeOK, ThreadTypeOK, DsmAnswers, Threads
<1>5. SysAnswers'
  BY DEF SysAnswers
<1>6. ProcAnswers'
  BY DEF ProcAnswers
<1> QED BY <1>1, <1>2, <1>3, <1>4, <1>5, <1>6

\* Panic keeps what the answers name.
LEMMA PanicRoute ==
  ASSUME LinkInv, RouteInv, CursorInPartition', [Next]_vars, NEW s \in PU, Panic(s)
  PROVE  RouteInv'
<1> USE NamedStays DEF RouteInv, Panic, osVars, sysVars, dsmVars, procVars
<1>1. EntriesOwn'
  BY DEF EntriesOwn, HasPath
<1>2. Inserting'
  BY DEF Inserting, Filled, HasPath
<1>3. TablesNamed'
  BY DEF TablesNamed
<1>4. DsmAnswers'
  BY DEF DsmAnswers
<1>5. SysAnswers'
  BY DEF SysAnswers
<1>6. ProcAnswers'
  BY DEF ProcAnswers
<1> QED BY <1>1, <1>2, <1>3, <1>4, <1>5, <1>6

\* Receive keeps what the answers name.
LEMMA ReceiveRoute ==
  ASSUME LinkInv, RouteInv, CursorInPartition', [Next]_vars, NEW s \in PU, NEW p \in Proc, Receive(s, p)
  PROVE  RouteInv'
<1> USE NamedStays DEF RouteInv, Receive, At, osVars, sysVars, dsmVars, procVars
<1>1. EntriesOwn'
  BY DEF EntriesOwn, HasPath
<1>2. Inserting'
  BY DEF Inserting, Filled, HasPath
<1>3. TablesNamed'
  BY DEF TablesNamed
<1>4. DsmAnswers'
  BY DEF DsmAnswers
<1>5. SysAnswers'
  BY DEF SysAnswers
<1>6. ProcAnswers'
  BY DEF ProcAnswers
<1> QED BY <1>1, <1>2, <1>3, <1>4, <1>5, <1>6

\* ReceiveEof keeps what the answers name.
LEMMA ReceiveEofRoute ==
  ASSUME LinkInv, RouteInv, CursorInPartition', [Next]_vars, NEW s \in PU, NEW p \in Proc, ReceiveEof(s, p)
  PROVE  RouteInv'
<1> USE NamedStays DEF RouteInv, ReceiveEof, At, osVars, sysVars, dsmVars,
   procVars
<1>1. EntriesOwn'
  BY DEF EntriesOwn, HasPath
<1>2. Inserting'
  BY DEF Inserting, Filled, HasPath
<1>3. TablesNamed'
  BY DEF TablesNamed
<1>4. DsmAnswers'
  BY DEF DsmAnswers
<1>5. SysAnswers'
  BY DEF SysAnswers
<1>6. ProcAnswers'
  BY DEF ProcAnswers
<1> QED BY <1>1, <1>2, <1>3, <1>4, <1>5, <1>6

\* ReceiveError keeps what the answers name.
LEMMA ReceiveErrorRoute ==
  ASSUME LinkInv, RouteInv, CursorInPartition', [Next]_vars, NEW s \in PU, NEW p \in Proc, ReceiveError(s, p)
  PROVE  RouteInv'
<1> USE NamedStays DEF RouteInv, ReceiveError, At, osVars, sysVars, dsmVars,
   procVars
<1>1. EntriesOwn'
  BY DEF EntriesOwn, HasPath
<1>2. Inserting'
  BY DEF Inserting, Filled, HasPath
<1>3. TablesNamed'
  BY DEF TablesNamed
<1>4. DsmAnswers'
  BY DEF DsmAnswers
<1>5. SysAnswers'
  BY DEF SysAnswers
<1>6. ProcAnswers'
  BY DEF ProcAnswers
<1> QED BY <1>1, <1>2, <1>3, <1>4, <1>5, <1>6

\* A step that changes nothing.
LEMMA StutterRoute == ASSUME LinkInv, RouteInv, UNCHANGED vars PROVE RouteInv'
BY DEF RouteInv, EntriesOwn, Inserting, TablesNamed, DsmAnswers, SysAnswers, ProcAnswers,
   Named, Filled, HasPath, vars, osVars, sysVars, dsmVars, procVars

\* Every step keeps what the answers name.
LEMMA RouteStep ==
  ASSUME LinkInv, RouteInv, CursorInPartition', [Next]_vars PROVE RouteInv'
<1>1. ASSUME NEW p \in Proc, ProcNext(p) PROVE RouteInv'
  BY <1>1, RegisterSelfGlobalRoute, GlobalFifoInitRoute, GlobalFifoConnectRoute,
     GlobalFifoWriteRoute, GlobalFifoReadRoute, GlobalFifoCloseRoute,
     GlobalSpawnRoute, ReturnRoute, FifoReadRoute, AnswerLostRoute, DieRoute DEF
     ProcNext
<1>2. ASSUME NEW s \in PU, OsNext(s) PROVE RouteInv'
  <2>1. CASE \E p \in Proc : Receive(s, p) \/ ReceiveEof(s, p) \/ ReceiveError(s, p)
    BY <2>1, ReceiveRoute, ReceiveEofRoute, ReceiveErrorRoute
  <2>2. CASE \/ ReplyToBroken(s) \/ UnknownSyscall(s) \/ RegisterNoSegment(s)
             \/ BoundPanic(s) \/ WriteTooLong(s) \/ OpenPanic(s) \/ WritePanic(s)
    BY <2>2, PanicSteps, PanicRoute
  <2>3. CASE SysHandler(s)
    BY <2>2, <2>3, ReplyRoute, SyscallRegisterGlobalRoute, SyscallFifoInitRoute,
       FifoInitInsertRoute, SyscallFifoConnectRoute, FifoConnectAnswerRoute,
       SyscallFifoReadRoute, SyscallFifoWriteRoute, FifoWriteAnswerRoute,
       SyscallGspawnRoute, SysOpenFifoRoute, SysWriteFifoRoute DEF SysHandler
  <2>4. CASE DsmNext(s)
    BY <2>4, DsmHandlersRoute, DsmOpenFifoRoute, DsmWriteFifoRoute DEF DsmNext
  <2> QED BY <1>2, <2>1, <2>2, <2>3, <2>4 DEF OsNext
<1> QED BY <1>1, <1>2, StutterRoute DEF Next

-----------------------------------------------------------------------------
(* The theorems.                                                           *)

\* No entry of global_fifo_list that has been taken ever changes, so that the
\* DSM thread may read the list without a lock.
THEOREM WriteOnce == Spec => EntriesWriteOnce
<1>1. LinkInv /\ [Next]_vars
        => [\A s \in PU, i \in FifoId :
              fifo[s][i].pu_id # -1 => fifo'[s][i] = fifo[s][i]]_vars
  BY EntriesStay
<1> QED BY <1>1, LinkInvariant, PTL DEF Spec, EntriesWriteOnce

\* While the cursors stay in their partitions, every id that a process got
\* for a uuid leads syscall_fifo_write to a filled entry of that uuid.
THEOREM Routing == Spec /\ []CursorInPartition => []FdsRouted
<1>1. Init => RouteInv
  BY DEF Init, RouteInv, EntriesOwn, Inserting, TablesNamed, DsmAnswers, SysAnswers,
     ProcAnswers
<1>2. LinkInv /\ RouteInv /\ CursorInPartition' /\ [Next]_vars => RouteInv'
  BY RouteStep
<1>3. LinkInv /\ RouteInv => FdsRouted
  <2> SUFFICES ASSUME LinkInv, RouteInv, NEW p \in Proc, NEW f \in fds[p], f[2] # -1
               PROVE  Filled(Route(Home[p], f[2]), f[2], f[1])
    BY DEF FdsRouted
  <2>1. PICK t \in PU : Filled(t, f[2], f[1])
    BY DEF RouteInv, ProcAnswers, Named
  <2>2. Home[p] \in PU
    BY ProcAssumption
  <2>3. IsGlobalFifoLocal(t, f[2])
    <3>1. t # -1
      BY DEF PU
    <3> QED BY <2>1, <3>1 DEF RouteInv, EntriesOwn, Filled, IsGlobalFifoLocal
  <2>4. CASE t = Home[p]
    BY <2>1, <2>3, <2>4 DEF Route
  <2>5. CASE t = Other(Home[p])
    <3>1. ~IsGlobalFifoLocal(Home[p], f[2])
      BY <2>2, <2>3, <2>5, OtherPU, PartitionsDisjoint DEF IsGlobalFifoLocal
    <3> QED BY <2>1, <2>5, <3>1 DEF Route
  <2> QED BY <2>2, <2>4, <2>5, OtherPU
<1> QED BY <1>1, <1>2, <1>3, LinkInvariant, PTL DEF Spec
=============================================================================
