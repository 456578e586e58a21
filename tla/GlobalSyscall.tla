---------------------------- MODULE GlobalSyscall ----------------------------
(***************************************************************************)
(* The globalOS of MoleculeOS and the processes that call it.              *)
(*                                                                         *)
(* One globalOS runs on every PU (host CPU, DPU).  It is a Unix process of *)
(* two threads without a lock between them: the SYSCALL thread runs the    *)
(* epoll loop of global_syscall.c and serves the processes of its PU; the  *)
(* DSM thread runs dsm_handlers and serves the globalOS of the other PU.   *)
(* A process makes one blocking global syscall at a time over its socket   *)
(* (global_syscall_runtime.c) and passes bulk data through the shared      *)
(* memory segment that globalOS created for it.                            *)
(*                                                                         *)
(* The DSM link is abstracted to one outstanding call per direction that   *)
(* arrives once and is answered once: module DsmLink states this, and      *)
(* UctChannel models the code that has to implement it.                   *)
(***************************************************************************)
EXTENDS Integers, Sequences, FiniteSets

CONSTANTS
  Proc,             \* the processes that use the global syscalls
  NoProc,           \* not a process: the local_uuid of an entry never filled
  Home,             \* Home[p] is the PU process p runs on
  Boot,             \* the processes started by hand; the others wait for a gspawn
  Uuid,             \* the global uuids that the programs have agreed upon
  LocalFifoListSize,   \* LOCAL_FIFO_LIST_SIZE, the static partition of a PU
  GlobalFifoListSize,  \* GLOBAL_FIFO_LIST_SIZE
  ProcessListSize,     \* GLOBAL_PROCESS_LIST_SIZE
  PipeCap,          \* messages a named pipe holds before a writer blocks
  Lens,             \* the message lengths the programs use
  Blanks,           \* may a message start with white space?  {FALSE} or BOOLEAN
  MaxMsgLen,        \* 4096: size of the shm segment and of the DSM buffer
  DsmHeader,        \* length of the DSM_REQ_FORMAT text in front of a message
  Readers,          \* the processes whose program makes its fifo global
  Writers,          \* the processes whose program connects and writes
  Calls,            \* the global syscalls the programs make
  Careless,         \* do programs use a global fifo id of -1 that they got?
  Mortal,           \* the processes that may be killed
  ShmMayFail,       \* may fopen/shmget fail in syscall_register_global?
  MaxInits,         \* bound: FIFO_INIT calls of one process
  MaxWrites         \* bound: FIFO_WRITE calls of one process

PU == {0, 1}          \* uct_molecule_dsm.c connects exactly two of them
Other(s) == 1 - s

Pid    == 0 .. ProcessListSize - 1
FifoId == 0 .. GlobalFifoListSize - 1

Func == {"RegisterSelfGlobal", "FIFO_INIT", "FIFO_CONNECT", "FIFO_READ",
         "FIFO_WRITE", "FIFO_CLOSE", "GSPAWN"}

EFIFOLOCAL == 205

NoMsg == [src |-> NoProc, dst |-> -1, n |-> 0, len |-> 0, blank |-> FALSE]

\* What a program writes: who wrote it, for which uuid, its n-th write, its
\* length and whether its first character is white space.
Message == [src : Proc, dst : Uuid, n : 1 .. MaxWrites, len : Lens, blank : BOOLEAN]
           \cup {NoMsg}

\* SYSCALL_REQ_FORMAT: the arguments a request carries (0 or -1 when unused).
Request == [func : Func, id : Int, uuid : Uuid \cup {-1},
            local : Proc \cup {NoProc}, shmid : Pid \cup {-1}]

Entry == [pu_id : PU \cup {-1}, local_uuid : Proc \cup {NoProc},
          global_uuid : Uuid \cup {-1}]

ASSUME ProcAssumption == /\ NoProc \notin Proc
                         /\ Home \in [Proc -> PU]
                         /\ Boot \subseteq Proc
                         /\ Mortal \subseteq Proc
                         /\ Readers \subseteq Proc
                         /\ Writers \subseteq Proc
ASSUME SizeAssumption == /\ LocalFifoListSize \in Nat \ {0}
                         /\ GlobalFifoListSize \in Nat \ {0}
                         /\ 2 * LocalFifoListSize <= GlobalFifoListSize
                         /\ ProcessListSize \in Nat \ {0}
                         /\ PipeCap \in Nat \ {0}
                         /\ MaxMsgLen \in Nat \ {0}
                         /\ DsmHeader \in Nat
ASSUME UseAssumption == /\ Uuid \subseteq Nat
                        /\ Lens \subseteq 1 .. MaxMsgLen
                        /\ Blanks \subseteq BOOLEAN
                        /\ Calls \subseteq Func
                        /\ Careless \in BOOLEAN
                        /\ ShmMayFail \in BOOLEAN
                        /\ MaxInits \in Nat
                        /\ MaxWrites \in Nat

VARIABLES
  \* of the globalOS of each PU
  alive,       \* is the globalOS process running?
  registered,  \* global_process_list[g].local_pid >= 0
  shm,         \* the first message in the segment global_process_list[g].shm
  procNow,     \* global_process_now
  fifo,        \* global_fifo_list
  fifoNow,     \* global_fifo_now
  guuid,       \* fifo_guuid_table, -1 where the table holds no binding
  sysPc,       \* the SYSCALL thread: program point,
  sysConn,     \*   process whose socket it serves,
  sysReq,      \*   request in its buffer, also after it has been answered,
  sysRet,      \*   result of the handler
  dsmPc,       \* the DSM thread, and the call of the other PU on its way to it,
  dsmReq,      \*   in its hands or on its way back: the request,
  dsmMsg,      \*   the message behind it,
  dsmRet,      \*   the answer
  \* of each process
  st,          \* absent, run, call (blocked in a syscall), read, dead
  gid,         \* self_global_id
  conn,        \* its socket to globalOS
  req,         \* the request it sent last
  ret,         \* the answer in its socket
  fds,         \* <<uuid, global fifo id>> pairs that FIFO_CONNECT returned
  own,         \* global ids of its own fifo that FIFO_INIT returned
  inits, writes, \* FIFO_INIT and FIFO_WRITE calls made
  made,        \* the processes that have created and opened their local fifo
  pipe,        \* contents of that local fifo
  acked,       \* history: the messages whose global_fifo_write has returned
  rcvd         \* history: the messages fifo_read has returned

osVars   == <<alive, registered, shm, procNow, fifo, fifoNow, guuid>>
procVars == <<st, gid, req, fds, own, inits, writes, made, acked, rcvd>>
sysVars  == <<sysPc, sysConn, sysReq, sysRet>>
dsmVars  == <<dsmPc, dsmReq, dsmMsg, dsmRet>>
vars == <<osVars, sysVars, dsmVars, procVars, conn, ret, pipe>>

SysPc  == {"epoll", "dispatch", "insert", "dsm_call", "open", "write", "reply"}
DsmPc  == {"idle", "request", "open", "write", "response"}
ProcSt == {"absent", "run", "call", "read", "dead"}
ConnSt == {"none", "idle", "request", "busy", "answer", "reset", "broken",
           "closed"}

OsTypeOK ==
  /\ alive \in [PU -> BOOLEAN]
  /\ registered \in [PU -> [Pid -> BOOLEAN]]
  /\ shm \in [PU -> [Pid -> Message]]
  /\ procNow \in [PU -> Pid]
  /\ fifo \in [PU -> [FifoId -> Entry]]
  /\ fifoNow \in [PU -> FifoId]
  /\ guuid \in [PU -> [Uuid -> FifoId \cup {-1}]]

ThreadTypeOK ==
  /\ sysPc \in [PU -> SysPc]
  /\ sysConn \in [PU -> Proc \cup {NoProc}]
  /\ sysReq \in [PU -> Request]
  /\ sysRet \in [PU -> Int]
  /\ dsmPc \in [PU -> DsmPc]
  /\ dsmReq \in [PU -> Request]
  /\ dsmMsg \in [PU -> Message]
  /\ dsmRet \in [PU -> Int]

ProcTypeOK ==
  /\ st \in [Proc -> ProcSt]
  /\ gid \in [Proc -> Pid \cup {-1}]
  /\ conn \in [Proc -> ConnSt]
  /\ req \in [Proc -> Request]
  /\ ret \in [Proc -> Int]
  /\ fds \in [Proc -> SUBSET (Uuid \X Int)]
  /\ own \in [Proc -> SUBSET Int]
  /\ inits \in [Proc -> 0 .. MaxInits]
  /\ writes \in [Proc -> 0 .. MaxWrites]
  /\ made \subseteq Proc
  /\ pipe \in [Proc -> Seq(Message)]
  /\ acked \in [Proc -> SUBSET Message]
  /\ rcvd \in [Proc -> Seq(Message)]

TypeOK == OsTypeOK /\ ThreadTypeOK /\ ProcTypeOK

\* A request for function f on fifo (or PU) i, uuid u, local fifo l, segment g
Args(f, i, u, l, g) ==
  [func |-> f, id |-> i, uuid |-> u, local |-> l, shmid |-> g]

Unused == Args("GSPAWN", -1, -1, NoProc, -1)

\* Mutants of FirstFifo: the cursor of every PU starts at 0; PUs counted from 1
FirstFifoZero(s) == 0
FirstFifoNext(s) == (s + 1) * LocalFifoListSize

\* global_fifo_now starts at the PU's partition
FirstFifo(s) == s * LocalFifoListSize

\* global_os_init on both PUs; the DSM link is up.
Init ==
  /\ alive = [s \in PU |-> TRUE]
  /\ registered = [s \in PU |-> [g \in Pid |-> FALSE]]
  /\ shm = [s \in PU |-> [g \in Pid |-> NoMsg]]
  /\ procNow = [s \in PU |-> 0]
  /\ fifo = [s \in PU |-> [i \in FifoId |->
               [pu_id |-> -1, local_uuid |-> NoProc, global_uuid |-> -1]]]
  /\ fifoNow = [s \in PU |-> FirstFifo(s)]
  /\ guuid = [s \in PU |-> [u \in Uuid |-> -1]]
  /\ sysPc = [s \in PU |-> "epoll"]
  /\ sysConn = [s \in PU |-> NoProc]
  /\ sysReq = [s \in PU |-> Unused]
  /\ sysRet = [s \in PU |-> 0]
  /\ dsmPc = [s \in PU |-> "idle"]
  /\ dsmReq = [s \in PU |-> Unused]
  /\ dsmMsg = [s \in PU |-> NoMsg]
  /\ dsmRet = [s \in PU |-> 0]
  /\ st = [p \in Proc |-> IF p \in Boot THEN "run" ELSE "absent"]
  /\ gid = [p \in Proc |-> -1]
  /\ conn = [p \in Proc |-> "none"]
  /\ req = [p \in Proc |-> Unused]
  /\ ret = [p \in Proc |-> 0]
  /\ fds = [p \in Proc |-> {}]
  /\ own = [p \in Proc |-> {}]
  /\ inits = [p \in Proc |-> 0]
  /\ writes = [p \in Proc |-> 0]
  /\ made = {}
  /\ pipe = [p \in Proc |-> <<>>]
  /\ acked = [p \in Proc |-> {}]
  /\ rcvd = [p \in Proc |-> <<>>]

-----------------------------------------------------------------------------
(* The processes: global_syscall_interfaces.c over invoke_global_syscall.  *)

\* The write half of invoke_global_syscall; the process then blocks in read.
Send(p, r) ==
  /\ st[p] = "run"
  /\ r.func \in Calls
  /\ st' = [st EXCEPT ![p] = "call"]
  /\ conn' = [conn EXCEPT ![p] = "request"]
  /\ req' = [req EXCEPT ![p] = r]

\* register_self_global, which a program calls once, before anything else
RegisterSelfGlobal(p) ==
  /\ conn[p] = "none"
  /\ Send(p, Args("RegisterSelfGlobal", -1, -1, NoProc, -1))
  /\ UNCHANGED <<osVars, sysVars, dsmVars, gid, ret, fds, own, inits, writes, made,
                 pipe, acked, rcvd>>

\* fifo_init (named by the pid), then global_fifo_init (-1) or _init_uuid
GlobalFifoInit(p) ==
  /\ gid[p] # -1
  /\ p \in Readers
  /\ inits[p] < MaxInits
  /\ \E u \in Uuid \cup {-1} :
       Send(p, Args("FIFO_INIT", -1, u, p, -1))
  /\ made' = made \cup {p}
  /\ inits' = [inits EXCEPT ![p] = @ + 1]
  /\ UNCHANGED <<osVars, sysVars, dsmVars, gid, ret, fds, own, writes, pipe, acked,
                 rcvd>>

GlobalFifoConnect(p) ==
  /\ gid[p] # -1
  /\ p \in Writers
  /\ \E u \in Uuid : Send(p, Args("FIFO_CONNECT", -1, u, NoProc, -1))
  /\ UNCHANGED <<osVars, sysVars, dsmVars, gid, ret, fds, own, inits, writes, made,
                 pipe, acked, rcvd>>

\* global_fifo_write: memcpy into the segment, then the syscall
GlobalFifoWrite(p) ==
  /\ gid[p] # -1
  /\ writes[p] < MaxWrites
  /\ \E f \in fds[p], l \in Lens, b \in Blanks :
       /\ shm' = [shm EXCEPT ![Home[p]][gid[p]] =
                    [src |-> p, dst |-> f[1], n |-> writes[p] + 1, len |-> l,
                     blank |-> b]]
       /\ Send(p, Args("FIFO_WRITE", f[2], -1, NoProc, gid[p]))
  /\ writes' = [writes EXCEPT ![p] = @ + 1]
  /\ UNCHANGED <<alive, registered, procNow, fifo, fifoNow, guuid, sysVars, dsmVars,
                 gid, ret, fds, own, inits, made, pipe, acked, rcvd>>

GlobalFifoRead(p) ==
  /\ gid[p] # -1
  /\ \E i \in own[p] :
       Send(p, Args("FIFO_READ", i, -1, NoProc, gid[p]))
  /\ UNCHANGED <<osVars, sysVars, dsmVars, gid, ret, fds, own, inits, writes, made,
                 pipe, acked, rcvd>>

GlobalFifoClose(p) ==
  /\ gid[p] # -1
  /\ \E i \in own[p] : Send(p, Args("FIFO_CLOSE", i, -1, NoProc, -1))
  /\ UNCHANGED <<osVars, sysVars, dsmVars, gid, ret, fds, own, inits, writes, made,
                 pipe, acked, rcvd>>

\* global_spawn with the packed arguments in the segment
GlobalSpawn(p) ==
  /\ gid[p] # -1
  /\ \E s \in PU : Send(p, Args("GSPAWN", s, -1, NoProc, gid[p]))
  /\ UNCHANGED <<osVars, sysVars, dsmVars, gid, ret, fds, own, inits, writes, made,
                 pipe, acked, rcvd>>

\* May the program use a fifo id it was given?
Usable(i) == i # -1 \/ Careless

\* The read half of invoke_global_syscall and what each wrapper does with it.
\* register_self_global exits when it got no id; global_fifo_read leads to a
\* local fifo_read when the answer is -EFIFOLOCAL.
Return(p) ==
  LET f == req[p].func
      r == ret[p]
  IN /\ st[p] = "call"
     /\ conn[p] = "answer"
     /\ conn' = [conn EXCEPT ![p] = "idle"]
     /\ ret' = [ret EXCEPT ![p] = 0]
     /\ req' = [req EXCEPT ![p] = Unused]
     /\ st' = [st EXCEPT ![p] =
                 IF f = "RegisterSelfGlobal" /\ r = -1 THEN "dead"
                 ELSE IF f = "FIFO_READ" /\ r = -EFIFOLOCAL THEN "read" ELSE "run"]
     /\ gid' = [gid EXCEPT ![p] = IF f = "RegisterSelfGlobal" THEN r ELSE @]
     /\ own' = [own EXCEPT ![p] =
                  IF f = "FIFO_INIT" /\ Usable(r) THEN @ \cup {r} ELSE @]
     /\ fds' = [fds EXCEPT ![p] =
                  IF f = "FIFO_CONNECT" /\ Usable(r) THEN @ \cup {<<req[p].uuid, r>>}
                  ELSE @]
     /\ acked' = [acked EXCEPT ![p] =
                    IF f = "FIFO_WRITE" THEN @ \cup {shm[Home[p]][gid[p]]} ELSE @]
     /\ UNCHANGED <<osVars, sysVars, dsmVars, inits, writes, made, pipe, rcvd>>

\* fifo_read of the process's own pipe, blocking while it is empty
FifoRead(p) ==
  /\ st[p] = "read"
  /\ pipe[p] # <<>>
  /\ rcvd' = [rcvd EXCEPT ![p] = Append(@, Head(pipe[p]))]
  /\ pipe' = [pipe EXCEPT ![p] = Tail(@)]
  /\ st' = [st EXCEPT ![p] = "run"]
  /\ UNCHANGED <<osVars, sysVars, dsmVars, gid, conn, req, ret, fds, own, inits,
                 writes, made, acked>>

\* assert(n>0) in invoke_global_syscall fails: globalOS is gone
AnswerLost(p) ==
  /\ st[p] = "call"
  /\ conn[p] # "answer"
  /\ ~alive[Home[p]]
  /\ st' = [st EXCEPT ![p] = "dead"]
  /\ UNCHANGED <<osVars, sysVars, dsmVars, gid, conn, req, ret, fds, own, inits,
                 writes, made, pipe, acked, rcvd>>

\* A process is killed.  Its pipe loses its only reader and with it the
\* contents; a socket closed with an unread answer in it is reset.
Die(p) ==
  /\ p \in Mortal
  /\ st[p] \in {"run", "call", "read"}
  /\ st' = [st EXCEPT ![p] = "dead"]
  /\ conn' = [conn EXCEPT ![p] = IF @ = "answer" THEN "reset" ELSE @]
  /\ pipe' = [pipe EXCEPT ![p] = <<>>]
  /\ UNCHANGED <<osVars, sysVars, dsmVars, gid, req, ret, fds, own, inits, writes,
                 made, acked, rcvd>>

-----------------------------------------------------------------------------
(* The SYSCALL thread of PU s: global_syscall_loop and its handlers.       *)

At(s, pc) == alive[s] /\ sysPc[s] = pc

\* The handler is at its first statement, with a request for f in the buffer.
Handling(s, f) == At(s, "dispatch") /\ sysReq[s].func = f

Goto(s, pc) == /\ sysPc' = [sysPc EXCEPT ![s] = pc]
               /\ UNCHANGED <<sysConn, sysReq, sysRet>>

Result(s, r) == /\ sysPc' = [sysPc EXCEPT ![s] = "reply"]
                /\ sysRet' = [sysRet EXCEPT ![s] = r]
                /\ UNCHANGED <<sysConn, sysReq>>

\* exit, throw, a failed assert or a fatal signal ends both threads
Panic(s) ==
  /\ alive' = [alive EXCEPT ![s] = FALSE]
  /\ UNCHANGED <<registered, shm, procNow, fifo, fifoNow, guuid, sysVars, dsmVars,
                 procVars, conn, ret, pipe>>

\* epoll_wait reports p's socket and read fills the buffer
Receive(s, p) ==
  /\ At(s, "epoll")
  /\ Home[p] = s
  /\ conn[p] = "request"
  /\ sysPc' = [sysPc EXCEPT ![s] = "dispatch"]
  /\ sysConn' = [sysConn EXCEPT ![s] = p]
  /\ sysReq' = [sysReq EXCEPT ![s] = req[p]]
  /\ conn' = [conn EXCEPT ![p] = "busy"]
  /\ UNCHANGED <<sysRet, osVars, dsmVars, procVars, ret, pipe>>

\* read returns 0: the socket is closed; the tables keep what p put there
ReceiveEof(s, p) ==
  /\ At(s, "epoll")
  /\ Home[p] = s
  /\ conn[p] = "idle"
  /\ st[p] = "dead"
  /\ conn' = [conn EXCEPT ![p] = "closed"]
  /\ UNCHANGED <<osVars, sysVars, dsmVars, procVars, ret, pipe>>

\* read returns -1, which the loop takes for a request: the handler of the
\* request that is still in the buffer runs once more
ReceiveError(s, p) ==
  /\ At(s, "epoll")
  /\ Home[p] = s
  /\ conn[p] = "reset"
  /\ sysPc' = [sysPc EXCEPT ![s] = "dispatch"]
  /\ sysConn' = [sysConn EXCEPT ![s] = p]
  /\ conn' = [conn EXCEPT ![p] = "broken"]
  /\ UNCHANGED <<sysReq, sysRet, osVars, dsmVars, procVars, ret, pipe>>

\* the write of the answer; a peer that has gone discards it
Reply(s) ==
  LET p == sysConn[s]
  IN /\ At(s, "reply")
     /\ conn[p] = "busy"
     /\ sysPc' = [sysPc EXCEPT ![s] = "epoll"]
     /\ sysConn' = [sysConn EXCEPT ![s] = NoProc]
     /\ sysRet' = [sysRet EXCEPT ![s] = 0]
     /\ conn' = [conn EXCEPT ![p] = IF st[p] = "dead" THEN "idle" ELSE "answer"]
     /\ ret' = [ret EXCEPT ![p] = sysRet[s]]
     /\ UNCHANGED <<sysReq, osVars, dsmVars, procVars, pipe>>

\* SIGPIPE: the answer is written to a socket that has been reset
ReplyToBroken(s) ==
  /\ At(s, "reply")
  /\ conn[sysConn[s]] = "broken"
  /\ Panic(s)

\* Default branch of the dispatch: FIFO_CLOSE is not among the handlers
UnknownSyscall(s) == Handling(s, "FIFO_CLOSE") /\ Panic(s)

\* Mutant of PidFree: the check for an entry in use is dropped
PidFreeAlways(s, g) == g \in Pid

PidFree(s, g) == ~registered[s][g]

NextPid(s) == (procNow[s] + 1) % ProcessListSize

\* syscall_register_global: the next entry of the list, if it is free
SyscallRegisterGlobal(s) ==
  LET g == NextPid(s)
  IN /\ Handling(s, "RegisterSelfGlobal")
     /\ procNow' = [procNow EXCEPT ![s] = g]
     /\ \/ /\ PidFree(s, g)
           /\ registered' = [registered EXCEPT ![s][g] = TRUE]
           /\ Result(s, g)
        \/ /\ PidFree(s, g) /\ ShmMayFail    \* fopen of the shm file failed
           /\ Result(s, -1)
           /\ UNCHANGED registered
        \/ /\ ~PidFree(s, g)                     \* "global process full"
           /\ Result(s, -1)
           /\ UNCHANGED registered
     /\ UNCHANGED <<alive, shm, fifo, fifoNow, guuid, dsmVars, procVars, conn, ret,
                    pipe>>

\* ... and shmget failed: throw
RegisterNoSegment(s) ==
  /\ Handling(s, "RegisterSelfGlobal")
  /\ PidFree(s, NextPid(s))
  /\ ShmMayFail
  /\ Panic(s)

\* Mutant of SlotFree: an entry in use is taken again
SlotFreeAlways(s, i) == i \in FifoId

SlotFree(s, i) == fifo[s][i].pu_id = -1

NextFifo(s) == (fifoNow[s] + 1) % GlobalFifoListSize

\* syscall_fifo_init up to ht_insert: the entry is filled in
SyscallFifoInit(s) ==
  LET i == NextFifo(s)
      r == sysReq[s]
  IN /\ Handling(s, "FIFO_INIT")
     /\ fifoNow' = [fifoNow EXCEPT ![s] = i]
     /\ \/ /\ SlotFree(s, i)
           /\ fifo' = [fifo EXCEPT ![s][i] =
                         [pu_id |-> s, local_uuid |-> r.local, global_uuid |-> r.uuid]]
           /\ IF r.uuid # -1 THEN Goto(s, "insert") ELSE Result(s, i)
        \/ /\ ~SlotFree(s, i)                    \* "global fifo full"
           /\ Result(s, -1)
           /\ UNCHANGED fifo
     /\ UNCHANGED <<alive, registered, shm, procNow, guuid, dsmVars, procVars, conn,
                    ret, pipe>>

\* ht_insert: from here on the DSM thread finds the uuid too
FifoInitInsert(s) ==
  /\ At(s, "insert")
  /\ guuid' = [guuid EXCEPT ![s][sysReq[s].uuid] = fifoNow[s]]
  /\ Result(s, fifoNow[s])
  /\ UNCHANGED <<alive, registered, shm, procNow, fifo, fifoNow, dsmVars, procVars,
                 conn, ret, pipe>>

\* dsm_call: the request travels to the DSM thread of the other PU
DsmCall(s, m) ==
  /\ Goto(s, "dsm_call")
  /\ dsmPc' = [dsmPc EXCEPT ![Other(s)] = "request"]
  /\ dsmReq' = [dsmReq EXCEPT ![Other(s)] = sysReq[s]]
  /\ dsmMsg' = [dsmMsg EXCEPT ![Other(s)] = m]
  /\ UNCHANGED dsmRet

\* Mutant of DsmReturn: a negative answer is taken for none
DsmReturnPositive(s) ==
  /\ dsmPc[Other(s)] = "response"
  /\ dsmRet[Other(s)] # -1
  /\ dsmPc' = [dsmPc EXCEPT ![Other(s)] = "idle"]
  /\ UNCHANGED <<dsmReq, dsmMsg, dsmRet>>

\* dsm_call returns with the answer
DsmReturn(s) ==
  /\ dsmPc[Other(s)] = "response"
  /\ dsmPc' = [dsmPc EXCEPT ![Other(s)] = "idle"]
  /\ dsmReq' = [dsmReq EXCEPT ![Other(s)] = Unused]
  /\ dsmMsg' = [dsmMsg EXCEPT ![Other(s)] = NoMsg]
  /\ dsmRet' = [dsmRet EXCEPT ![Other(s)] = 0]

\* syscall_fifo_connect: look the uuid up here, else ask the other PU
SyscallFifoConnect(s) ==
  LET u == sysReq[s].uuid
  IN /\ Handling(s, "FIFO_CONNECT")
     /\ \/ /\ guuid[s][u] # -1
           /\ Result(s, guuid[s][u])
           /\ UNCHANGED dsmVars
        \/ /\ guuid[s][u] = -1
           /\ DsmCall(s, NoMsg)
     /\ UNCHANGED <<osVars, procVars, conn, ret, pipe>>

\* the answer of the other PU: cache it if it is positive
FifoConnectAnswer(s) ==
  LET r == dsmRet[Other(s)]
  IN /\ At(s, "dsm_call")
     /\ sysReq[s].func = "FIFO_CONNECT"
     /\ DsmReturn(s)
     /\ guuid' = IF r > 0 THEN [guuid EXCEPT ![s][sysReq[s].uuid] = r] ELSE guuid
     /\ Result(s, r)
     /\ UNCHANGED <<alive, registered, shm, procNow, fifo, fifoNow, procVars, conn,
                    ret, pipe>>

Partition(s) == s * LocalFifoListSize .. (s + 1) * LocalFifoListSize - 1

IsGlobalFifoLocal(s, i) == i \in Partition(s) /\ fifo[s][i].pu_id = s

\* check_global_fifo_bound: "Just Panic"
BoundPanic(s) ==
  /\ Handling(s, "FIFO_READ") \/ Handling(s, "FIFO_WRITE")
  /\ sysReq[s].id \notin FifoId
  /\ Panic(s)

SyscallFifoRead(s) ==
  /\ Handling(s, "FIFO_READ")
  /\ sysReq[s].id \in FifoId
  /\ Result(s, IF IsGlobalFifoLocal(s, sysReq[s].id) THEN -EFIFOLOCAL ELSE -1)
  /\ UNCHANGED <<osVars, dsmVars, procVars, conn, ret, pipe>>

\* Mutant of Outgoing: the segment of the process that registered last
OutgoingLast(s) == shm[s][procNow[s]]

\* syscall_fifo_write: the message is in the caller's segment
Outgoing(s) == shm[s][sysReq[s].shmid]

SyscallFifoWrite(s) ==
  LET i == sysReq[s].id
  IN /\ Handling(s, "FIFO_WRITE")
     /\ i \in FifoId
     /\ \/ /\ IsGlobalFifoLocal(s, i)
           /\ Goto(s, "open")
           /\ UNCHANGED dsmVars
        \/ /\ ~IsGlobalFifoLocal(s, i)
           /\ DsmHeader + Outgoing(s).len < MaxMsgLen
           /\ DsmCall(s, Outgoing(s))
     /\ UNCHANGED <<osVars, procVars, conn, ret, pipe>>

\* assert(ret+length<4096) in write_remote_fifo, or the terminating '\0' that
\* syscall_fifo_write stores behind a segment it fills (it may also go unnoticed)
WriteTooLong(s) ==
  LET len == Outgoing(s).len
  IN /\ Handling(s, "FIFO_WRITE")
     /\ \/ len = MaxMsgLen
        \/ /\ sysReq[s].id \in FifoId
           /\ ~IsGlobalFifoLocal(s, sysReq[s].id)
           /\ DsmHeader + len >= MaxMsgLen
     /\ Panic(s)

\* Mutant of FifoWriteAnswer: the answer of the other PU is not awaited
FifoWriteNoWait(s) ==
  /\ At(s, "dsm_call")
  /\ sysReq[s].func = "FIFO_WRITE"
  /\ Result(s, 0)
  /\ UNCHANGED <<osVars, dsmVars, procVars, conn, ret, pipe>>

\* write_remote_fifo ignores what dsm_call returned
FifoWriteAnswer(s) ==
  /\ At(s, "dsm_call")
  /\ sysReq[s].func = "FIFO_WRITE"
  /\ DsmReturn(s)
  /\ Result(s, 0)
  /\ UNCHANGED <<osVars, procVars, conn, ret, pipe>>

\* syscall_gspawn: only here; posix_spawn starts a process or reports an error
SyscallGspawn(s) ==
  /\ Handling(s, "GSPAWN")
  /\ \/ /\ sysReq[s].id # s
        /\ Result(s, -1)
        /\ UNCHANGED st
     \/ /\ sysReq[s].id = s
        /\ \/ /\ \E p \in Proc : /\ st[p] = "absent" /\ Home[p] = s
                                 /\ st' = [st EXCEPT ![p] = "run"]
              /\ Result(s, 0)
           \/ /\ Result(s, 2)                     \* ENOENT
              /\ UNCHANGED st
  /\ UNCHANGED <<osVars, dsmVars, gid, req, fds, own, inits, writes, made, acked,
                 rcvd, conn, ret, pipe>>

-----------------------------------------------------------------------------
(* write_local_fifo, run by the SYSCALL thread for a local writer and by   *)
(* the DSM thread for a remote one, and the DSM thread's dsm_handlers.     *)

DsmAt(s, pc) == alive[s] /\ dsmPc[s] = pc

\* The global fifo that the threads of PU s are about to open or to write.
OpenIds(s)  == {i \in FifoId : \/ sysPc[s] = "open" /\ sysReq[s].id = i
                               \/ dsmPc[s] = "open" /\ dsmReq[s].id = i}
WriteIds(s) == {i \in FifoId : \/ sysPc[s] = "write" /\ sysReq[s].id = i
                               \/ dsmPc[s] = "write" /\ dsmReq[s].id = i}

\* The path of the named pipe exists on PU s.
HasPath(s, l) == l \in made /\ Home[l] = s

\* fifo_connect: open with O_WRONLY blocks until the owner has it open
CanOpen(s, i) ==
  LET l == fifo[s][i].local_uuid IN HasPath(s, l) /\ st[l] # "dead"

\* fifo_write: write blocks while the pipe is full
CanWrite(s, i) ==
  LET l == fifo[s][i].local_uuid IN st[l] # "dead" /\ Len(pipe[l]) < PipeCap

PipeAppend(s, i, m) ==
  pipe' = [pipe EXCEPT ![fifo[s][i].local_uuid] = Append(@, m)]

SysOpenFifo(s) ==
  /\ At(s, "open")
  /\ CanOpen(s, sysReq[s].id)
  /\ Goto(s, "write")
  /\ UNCHANGED <<osVars, dsmVars, procVars, conn, ret, pipe>>

\* syscall_fifo_write returns the length, whatever write returned
SysWriteFifo(s) ==
  /\ At(s, "write")
  /\ CanWrite(s, sysReq[s].id)
  /\ PipeAppend(s, sysReq[s].id, Outgoing(s))
  /\ Result(s, Outgoing(s).len)
  /\ UNCHANGED <<osVars, dsmVars, procVars, conn, ret>>

\* sscanf with DSM_REQ_FORMAT_CALLEE: the white space in front of %n also
\* swallows that of the message, which then starts at its first other character
Parsed(m) ==
  [src |-> m.src, dst |-> m.dst, n |-> m.n, len |-> m.len, blank |-> FALSE]

\* dsm_handlers: WRITEFIFO and FIFOCONNECT (local_fifo_connect)
DsmHandlers(s) ==
  /\ DsmAt(s, "request")
  /\ \/ /\ dsmReq[s].func = "FIFO_WRITE"
        /\ dsmPc' = [dsmPc EXCEPT ![s] = "open"]
        /\ dsmMsg' = [dsmMsg EXCEPT ![s] = Parsed(@)]
        /\ UNCHANGED dsmRet
     \/ /\ dsmReq[s].func = "FIFO_CONNECT"
        /\ dsmPc' = [dsmPc EXCEPT ![s] = "response"]
        /\ dsmRet' = [dsmRet EXCEPT ![s] = guuid[s][dsmReq[s].uuid]]
        /\ UNCHANGED dsmMsg
  /\ UNCHANGED <<dsmReq, osVars, sysVars, procVars, conn, ret, pipe>>

DsmOpenFifo(s) ==
  /\ DsmAt(s, "open")
  /\ CanOpen(s, dsmReq[s].id)
  /\ dsmPc' = [dsmPc EXCEPT ![s] = "write"]
  /\ UNCHANGED <<dsmReq, dsmMsg, dsmRet, osVars, sysVars, procVars, conn, ret, pipe>>

\* Mutant of DsmWriteFifo: the handler may start over after the write
DsmWriteAgain(s) ==
  /\ DsmAt(s, "write")
  /\ CanWrite(s, dsmReq[s].id)
  /\ PipeAppend(s, dsmReq[s].id, dsmMsg[s])
  /\ \E pc \in {"request", "response"} : dsmPc' = [dsmPc EXCEPT ![s] = pc]
  /\ UNCHANGED <<dsmReq, dsmMsg, dsmRet>>
  /\ UNCHANGED <<osVars, sysVars, procVars, conn, ret>>

DsmWriteFifo(s) ==
  /\ DsmAt(s, "write")
  /\ CanWrite(s, dsmReq[s].id)
  /\ PipeAppend(s, dsmReq[s].id, dsmMsg[s])
  /\ dsmPc' = [dsmPc EXCEPT ![s] = "response"]
  /\ dsmRet' = [dsmRet EXCEPT ![s] = dsmMsg[s].len]
  /\ UNCHANGED <<dsmReq, dsmMsg, osVars, sysVars, procVars, conn, ret>>

\* fifo_connect throws: there is no such named pipe on this PU
OpenPanic(s) ==
  /\ alive[s]
  /\ \E i \in OpenIds(s) : ~HasPath(s, fifo[s][i].local_uuid)
  /\ Panic(s)

\* SIGPIPE: the owner of the pipe died between the open and the write
WritePanic(s) ==
  /\ alive[s]
  /\ \E i \in WriteIds(s) : st[fifo[s][i].local_uuid] = "dead"
  /\ Panic(s)

-----------------------------------------------------------------------------
ProcNext(p) ==
  \/ RegisterSelfGlobal(p) \/ GlobalFifoInit(p) \/ GlobalFifoConnect(p)
  \/ GlobalFifoWrite(p) \/ GlobalFifoRead(p) \/ GlobalFifoClose(p)
  \/ GlobalSpawn(p) \/ Return(p) \/ FifoRead(p) \/ AnswerLost(p) \/ Die(p)

SysHandler(s) ==
  \/ Reply(s) \/ ReplyToBroken(s) \/ UnknownSyscall(s)
  \/ SyscallRegisterGlobal(s) \/ RegisterNoSegment(s)
  \/ SyscallFifoInit(s) \/ FifoInitInsert(s)
  \/ SyscallFifoConnect(s) \/ FifoConnectAnswer(s)
  \/ BoundPanic(s) \/ SyscallFifoRead(s)
  \/ SyscallFifoWrite(s) \/ WriteTooLong(s) \/ FifoWriteAnswer(s)
  \/ SyscallGspawn(s) \/ SysOpenFifo(s) \/ SysWriteFifo(s)

DsmNext(s) == DsmHandlers(s) \/ DsmOpenFifo(s) \/ DsmWriteFifo(s)

OsNext(s) ==
  \/ \E p \in Proc : Receive(s, p) \/ ReceiveEof(s, p) \/ ReceiveError(s, p)
  \/ SysHandler(s) \/ DsmNext(s) \/ OpenPanic(s) \/ WritePanic(s)

Next == (\E p \in Proc : ProcNext(p)) \/ (\E s \in PU : OsNext(s))

Spec == Init /\ [][Next]_vars

\* Both threads are scheduled; epoll_wait hands out every ready socket; a
\* blocked process takes its answer and what is in its pipe; a program that
\* made its fifo global reads it again and again (the loop of the servers in
\* tests/fifo-lat).  Nothing forces a program to make any other call.
Fairness ==
  /\ \A s \in PU : WF_vars(SysHandler(s)) /\ WF_vars(DsmNext(s))
  /\ \A p \in Proc : /\ SF_vars(Receive(Home[p], p))
                     /\ WF_vars(Return(p)) /\ WF_vars(FifoRead(p))
                     /\ WF_vars(GlobalFifoRead(p))

FairSpec == Spec /\ Fairness

-----------------------------------------------------------------------------
(* Correctness properties.                                                 *)

\* Entry i of PU s names, under uuid u, a pipe that exists on s.
Filled(s, i, u) == /\ i \in FifoId
                   /\ fifo[s][i].pu_id = s
                   /\ fifo[s][i].global_uuid = u
                   /\ HasPath(s, fifo[s][i].local_uuid)

\* The PU whose table a write from PU s to global fifo i is looked up in.
Route(s, i) == IF IsGlobalFifoLocal(s, i) THEN s ELSE Other(s)

\* A global fifo id that FIFO_CONNECT returned for a uuid, from this PU's
\* table, the other PU's or the cache, leads syscall_fifo_write to a completely
\* filled entry of that very uuid: is_global_fifo_local picks the right PU,
\* and no lookup sees an entry that syscall_fifo_init is still filling.
FdsRouted ==
  \A p \in Proc : \A f \in fds[p] :
    f[2] # -1 => Filled(Route(Home[p], f[2]), f[2], f[1])

\* What lies in a process's pipe, or was read from it, was written for a uuid
\* under which that process registered its fifo.
DeliveredToNamed ==
  \A l \in Proc : \A k \in DOMAIN (rcvd[l] \o pipe[l]) :
    \E i \in FifoId : /\ Filled(Home[l], i, (rcvd[l] \o pipe[l])[k].dst)
                      /\ fifo[Home[l]][i].local_uuid = l

\* A reader gets the messages of one writer in the order they were written,
\* each at most once, through the local path and through the DSM path.
OrderedDelivery ==
  \A l \in Proc : LET q == rcvd[l] \o pipe[l] IN
    \A j, k \in DOMAIN q : j < k /\ q[j].src = q[k].src => q[j].n < q[k].n

\* When global_fifo_write has returned, the message is in a pipe or was read,
\* although the result of dsm_call and of write is ignored on the way.
AckedDelivered ==
  \A p \in Proc : \A m \in acked[p] : \E l \in Proc :
    \E k \in DOMAIN (rcvd[l] \o pipe[l]) : (rcvd[l] \o pipe[l])[k] = m

\* No two processes of a PU share a shared-memory segment (global pid), also
\* after syscall_register_global has gone round the process list.
SegmentsPrivate ==
  \A p, q \in Proc : /\ p # q /\ Home[p] = Home[q]
                     /\ gid[p] # -1
                     => gid[p] # gid[q]

\* An entry of global_fifo_list that has been taken never changes: what the
\* DSM thread reads without a lock cannot be replaced under it.
EntriesWriteOnce ==
  [][\A s \in PU, i \in FifoId :
       fifo[s][i].pu_id # -1 => fifo'[s][i] = fifo[s][i]]_vars

\* Every global syscall returns to its caller: none is under way forever.
CallsReturn == \A p \in Proc : []<>(st[p] # "call")

\* "Static partition global_fifo_id": the ids a PU hands out are its own.
StaticPartition ==
  \A s \in PU, i \in FifoId : fifo[s][i].pu_id = s => i \in Partition(s)

\* assert(n>0) in invoke_global_syscall: the read of an answer gets one.
AnswerArrives ==
  \A p \in Proc : st[p] = "call" /\ conn[p] # "answer" => alive[Home[p]]
=============================================================================
