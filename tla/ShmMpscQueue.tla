---------------------------- MODULE ShmMpscQueue ----------------------------
(***************************************************************************)
(* The queue of shm_mpsc_queue.h, through which clients hand requests to   *)
(* gSyscallServer.  It lies in shared memory; entries[1 .. SIZE-1] are     *)
(* linked by their next fields into a list of empty entries that starts at *)
(* empty_top and a list of pending ones that starts at entries[0].next and *)
(* ends at pending_tail.  Each of the two indices is also the lock of its  *)
(* list: a process that works on the list leaves EmptyLock or PendingLock  *)
(* in it.                                                                  *)
(*                                                                         *)
(* Every load and store of a shared word is a step of its own, except that *)
(* FetchAndLock is one step (its other iterations change nothing) and so   *)
(* are the stores of the constructor, behind which everybody waits.  Steps *)
(* are seen in program order: the fences of the code stop the compiler,    *)
(* and x86 keeps stores in order.                                          *)
(*                                                                         *)
(* The lists free, pending and batch are history: what the code's comments *)
(* and names mean by the linked words.  ListsLinked says that the words    *)
(* spell them.                                                             *)
(***************************************************************************)
EXTENDS Integers, Sequences, FiniteSets

CONSTANTS
  SIZE,       \* of the array; entries[0] is only the head of the pending list
  Client,     \* the processes that push requests
  Server,     \* the process that runs gSyscallServer
  QueueMortal,     \* the processes that may be killed
  MaxPush     \* bound: requests of one client

Process == Client \cup {Server}

ASSUME QueueAssumption ==
  /\ SIZE \in Nat \ {0, 1}
  /\ Server \notin Client
  /\ QueueMortal \subseteq Process
  /\ MaxPush \in Nat

PendingLock == SIZE + 1
EmptyLock   == SIZE + 2

QueueEntry == 1 .. SIZE - 1

VARIABLES
  initState,    \* init_state
  pendingTail,  \* pending_tail
  emptyTop,     \* empty_top
  link,         \* entries[i].next
  data,         \* entries[i].data, <<client, number>>
  qpc,           \* of each process
  val,          \* what FetchAndLock returned to it
  ent,          \* a client's entry; the server's cur
  first,        \* the server's list
  sent,         \* requests a client has made
  free, pending, batch,  \* history: the empty, the pending, the popped entries
  pushed, got   \* history: the requests pushed, and those the server has read

words == <<initState, pendingTail, emptyTop, link, data>>
locals == <<qpc, val, ent, first, sent>>
history == <<free, pending, batch, pushed, got>>
queueVars == <<words, locals, history>>

\* "dead": killed.  A client goes from "out" through Alloc ("alloc", "take"),
\* "fill" and Push ("push", "link", "publish"); the server from "out" through
\* PopAll ("pop", "head", "release", "end"), "read", and Recycle ("recycle",
\* "join", "return").
QPc == {"new", "build", "await", "out", "dead", "alloc", "take", "fill", "push", "link",
       "publish", "pop", "head", "release", "end", "read", "recycle", "join",
       "return"}

QueueRequest == Client \X (1 .. MaxPush)
NoRequest == <<>>

QueueTypeOK ==
  /\ initState \in 0 .. 2
  /\ pendingTail \in 0 .. SIZE - 1 \cup {PendingLock}
  /\ emptyTop \in 0 .. SIZE \cup {EmptyLock}
  /\ link \in [0 .. SIZE - 1 -> 0 .. SIZE]
  /\ data \in [QueueEntry -> QueueRequest \cup {NoRequest}]
  /\ qpc \in [Process -> QPc]
  /\ val \in [Process -> 0 .. SIZE]
  /\ ent \in [Process -> 0 .. SIZE]
  /\ first \in 0 .. SIZE
  /\ sent \in [Client -> 0 .. MaxPush]
  /\ {free, pending, batch} \subseteq Seq(QueueEntry)
  /\ {pushed, got} \subseteq Seq(QueueRequest)

\* shmmap gives memory that is zero, whoever comes first.
QueueInit ==
  /\ initState = 0 /\ pendingTail = 0 /\ emptyTop = 0
  /\ link = [i \in 0 .. SIZE - 1 |-> 0]
  /\ data = [i \in QueueEntry |-> NoRequest]
  /\ qpc = [p \in Process |-> "new"]
  /\ val = [p \in Process |-> 0]
  /\ ent = [p \in Process |-> 0]
  /\ first = 0
  /\ sent = [c \in Client |-> 0]
  /\ free = <<>> /\ pending = <<>> /\ batch = <<>>
  /\ pushed = <<>> /\ got = <<>>

QGoto(p, l1, l2) == qpc[p] = l1 /\ qpc' = [qpc EXCEPT ![p] = l2]

-----------------------------------------------------------------------------
(* The constructor.                                                        *)

\* compare-and-swap of init_state: one process builds, the others wait
Construct(p) ==
  /\ QGoto(p, "new", IF initState = 0 THEN "build" ELSE "await")
  /\ initState' = IF initState = 0 THEN 1 ELSE initState
  /\ UNCHANGED <<pendingTail, emptyTop, link, data, val, ent, first, sent, history>>

\* the stores of the constructor, up to init_state = 2
Build(p) ==
  /\ QGoto(p, "build", "out")
  /\ pendingTail' = 0 /\ emptyTop' = 1
  /\ link' = [i \in 0 .. SIZE - 1 |-> IF i \in QueueEntry THEN i + 1 ELSE link[i]]
  /\ initState' = 2
  /\ free' = [i \in 1 .. SIZE - 1 |-> i]
  /\ UNCHANGED <<data, val, ent, first, sent, pending, batch, pushed, got>>

Await(p) ==
  /\ initState = 2
  /\ QGoto(p, "await", "out")
  /\ UNCHANGED <<words, val, ent, first, sent, history>>

-----------------------------------------------------------------------------
(* The two locked indices.                                                 *)

\* Mutant of LockEmpty: the index is read and not locked
LockEmptyNot(p) ==
  /\ emptyTop # EmptyLock
  /\ val' = [val EXCEPT ![p] = emptyTop]
  /\ emptyTop' = emptyTop

\* FetchAndLock(empty_top, EmptyLock)
LockEmpty(p) ==
  /\ emptyTop # EmptyLock
  /\ val' = [val EXCEPT ![p] = emptyTop]
  /\ emptyTop' = EmptyLock

\* FetchAndLock(pending_tail, PendingLock)
LockPending(p) ==
  /\ pendingTail # PendingLock
  /\ val' = [val EXCEPT ![p] = pendingTail]
  /\ pendingTail' = PendingLock

-----------------------------------------------------------------------------
(* A client.                                                               *)

\* a client has another request, and calls Alloc
Begin(c) ==
  /\ sent[c] < MaxPush
  /\ QGoto(c, "out", "alloc")
  /\ UNCHANGED <<words, val, ent, first, sent, history>>

AllocLock(c) ==
  /\ QGoto(c, "alloc", "take")
  /\ LockEmpty(c)
  /\ UNCHANGED <<initState, pendingTail, link, data, ent, first, sent, history>>

\* Mutant of AllocFails: the index stays locked
AllocFailsLocked(c) ==
  /\ val[c] = SIZE
  /\ QGoto(c, "take", "alloc")
  /\ UNCHANGED <<words, val, ent, first, sent, history>>

\* no empty entry: the index is unlocked, and the client tries again
AllocFails(c) ==
  /\ val[c] = SIZE
  /\ QGoto(c, "take", "alloc")
  /\ emptyTop' = SIZE
  /\ UNCHANGED <<initState, pendingTail, link, data, val, ent, first, sent, history>>

AllocTakes(c) ==
  /\ val[c] # SIZE
  /\ QGoto(c, "take", "fill")
  /\ emptyTop' = link[val[c]]
  /\ ent' = [ent EXCEPT ![c] = val[c]]
  /\ free' = Tail(free)
  /\ UNCHANGED <<initState, pendingTail, link, data, val, first, sent,
                 pending, batch, pushed, got>>

\* the client writes its request into the entry
Fill(c) ==
  /\ QGoto(c, "fill", "push")
  /\ sent' = [sent EXCEPT ![c] = @ + 1]
  /\ data' = [data EXCEPT ![ent[c]] = <<c, sent[c] + 1>>]
  /\ UNCHANGED <<initState, pendingTail, emptyTop, link, val, ent, first, history>>

PushLock(c) ==
  /\ QGoto(c, "push", "link")
  /\ LockPending(c)
  /\ UNCHANGED <<initState, emptyTop, link, data, ent, first, sent, history>>

PushLink(c) ==
  /\ QGoto(c, "link", "publish")
  /\ link' = [link EXCEPT ![val[c]] = ent[c]]
  /\ UNCHANGED <<initState, pendingTail, emptyTop, data, val, ent, first, sent, history>>

PushPublish(c) ==
  /\ QGoto(c, "publish", "out")
  /\ pendingTail' = ent[c]
  /\ pending' = Append(pending, ent[c])
  /\ pushed' = Append(pushed, data[ent[c]])
  /\ UNCHANGED <<initState, emptyTop, link, data, val, ent, first, sent, free, batch, got>>

-----------------------------------------------------------------------------
(* The server.                                                             *)

\* PopAll returns at once when pending_tail is 0
PopCheck ==
  /\ pendingTail # 0
  /\ QGoto(Server, "out", "pop")
  /\ UNCHANGED <<words, val, ent, first, sent, history>>

PopLock ==
  /\ QGoto(Server, "pop", "head")
  /\ LockPending(Server)
  /\ UNCHANGED <<initState, emptyTop, link, data, ent, first, sent, history>>

\* Mutant of PopHead: the list returned starts at its tail
PopHeadTail ==
  /\ QGoto(Server, "head", "release")
  /\ first' = val[Server]
  /\ ent' = [ent EXCEPT ![Server] = val[Server]]
  /\ UNCHANGED <<words, val, sent, history>>

PopHead ==
  /\ QGoto(Server, "head", "release")
  /\ first' = link[0]
  /\ ent' = [ent EXCEPT ![Server] = link[0]]
  /\ UNCHANGED <<words, val, sent, history>>

\* pending_tail = 0: clients may push again, before the list has an end
PopRelease ==
  /\ QGoto(Server, "release", "end")
  /\ pendingTail' = 0
  /\ batch' = pending /\ pending' = <<>>
  /\ UNCHANGED <<initState, emptyTop, link, data, val, ent, first, sent, free, pushed, got>>

PopEnd ==
  /\ QGoto(Server, "end", "read")
  /\ link' = [link EXCEPT ![val[Server]] = SIZE]
  /\ UNCHANGED <<initState, pendingTail, emptyTop, data, val, ent, first, sent, history>>

\* the server uses the request in cur, and NextEntry
Read ==
  LET cur == ent[Server] IN
  /\ QGoto(Server, "read", IF link[cur] = SIZE THEN "recycle" ELSE "read")
  /\ got' = Append(got, data[cur])
  /\ ent' = IF link[cur] = SIZE THEN ent ELSE [ent EXCEPT ![Server] = link[cur]]
  /\ UNCHANGED <<words, val, first, sent, free, pending, batch, pushed>>

RecycleLock ==
  /\ QGoto(Server, "recycle", "join")
  /\ LockEmpty(Server)
  /\ UNCHANGED <<initState, pendingTail, link, data, ent, first, sent, history>>

RecycleJoin ==
  /\ QGoto(Server, "join", "return")
  /\ link' = [link EXCEPT ![ent[Server]] = val[Server]]
  /\ UNCHANGED <<initState, pendingTail, emptyTop, data, val, ent, first, sent, history>>

RecycleReturn ==
  /\ QGoto(Server, "return", "out")
  /\ emptyTop' = first
  /\ free' = batch \o free /\ batch' = <<>>
  /\ UNCHANGED <<initState, pendingTail, link, data, val, ent, first, sent,
                 pending, pushed, got>>

-----------------------------------------------------------------------------

\* a process is killed: whatever it holds stays locked or lost
QueueDie(p) ==
  /\ p \in QueueMortal
  /\ qpc[p] # "dead"
  /\ qpc' = [qpc EXCEPT ![p] = "dead"]
  /\ UNCHANGED <<words, val, ent, first, sent, history>>

Constructs(p) == Construct(p) \/ Build(p) \/ Await(p)

Pushes(c) == \/ AllocLock(c) \/ AllocFails(c) \/ AllocTakes(c) \/ Fill(c)
             \/ PushLock(c) \/ PushLink(c) \/ PushPublish(c)

Serves == \/ PopCheck \/ PopLock \/ PopHead \/ PopRelease \/ PopEnd \/ Read
          \/ RecycleLock \/ RecycleJoin \/ RecycleReturn

QueueNext == \/ \E p \in Process : Constructs(p) \/ QueueDie(p)
             \/ \E c \in Client : Begin(c) \/ Pushes(c)
             \/ Serves

QueueSpec == QueueInit /\ [][QueueNext]_queueVars

\* Every process runs.  A compare-and-swap that competes for ever also wins
\* in the end, which the hardware does not promise but the spinning relies on.
QueueFairness ==
  /\ \A p \in Process : WF_queueVars(Constructs(p))
  /\ \A c \in Client : /\ WF_queueVars(Pushes(c))
                       /\ SF_queueVars(AllocLock(c) \/ PushLock(c))
  /\ WF_queueVars(Serves) /\ SF_queueVars(PopLock \/ RecycleLock)

QueueFairSpec == QueueSpec /\ QueueFairness

-----------------------------------------------------------------------------
(* Properties.                                                             *)

\* The entries from the head of a list on, and what the last next field is.
EmptyList   == free \o <<SIZE>>
PendingList == <<0>> \o pending

\* The words in memory spell the lists: empty_top and the next fields lead
\* through the empty entries to SIZE, and entries[0].next through the pending
\* ones to pending_tail, also while one list is locked and while PopAll has
\* unlocked a list that has no end yet.
ListsLinked ==
  initState = 2 =>
    /\ emptyTop \in {EmptyLock, EmptyList[1]}
    /\ \A i \in DOMAIN free : link[free[i]] = EmptyList[i + 1]
    /\ pendingTail \in {PendingLock, PendingList[Len(PendingList)]}
    /\ \A i \in DOMAIN pending : link[PendingList[i]] = pending[i]

\* The clients that have got an entry from Alloc and not yet pushed it.
Holding == {c \in Client : qpc[c] \in {"fill", "push", "link", "publish"}}

SeqRange(s) == {s[i] : i \in DOMAIN s}
Held == {ent[c] : c \in Holding}
Dead == \E p \in Process : qpc[p] = "dead"

\* An entry is in one place only, in a list or in the hands of one client,
\* and no entry is lost while nobody has been killed.
OneOwner ==
  LET all == SeqRange(free) \cup SeqRange(pending) \cup SeqRange(batch) \cup Held IN
  /\ Cardinality(all) = Len(free) + Len(pending) + Len(batch) + Cardinality(Holding)
  /\ initState = 2 /\ ~Dead => all = QueueEntry

\* The server reads the requests in the order in which they were pushed, each
\* once, and an entry keeps its request until the server has recycled it.
InOrder ==
  LET rest == batch \o pending IN
  /\ Len(got) <= Len(pushed) /\ got = SubSeq(pushed, 1, Len(got))
  /\ \A i \in DOMAIN rest : data[rest[i]] = pushed[Len(pushed) - Len(rest) + i]

\* Every request is read in the end, however small the queue, unless some
\* participant is killed ("not crash safe").
Served ==
  \A c \in Client, n \in 1 .. MaxPush :
    sent[c] = n - 1 /\ qpc[c] = "alloc" ~> <<c, n>> \in SeqRange(got) \/ Dead

\* The two lists of the queue are whole and share no entry, at every load and
\* store of the participants, some of which die.
QueueSound == QueueTypeOK /\ ListsLinked /\ OneOwner
=============================================================================
