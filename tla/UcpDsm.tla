------------------------------- MODULE UcpDsm -------------------------------
(***************************************************************************)
(* The UCP version of the DSM (inter-device/molecule_dsm.c), which the     *)
(* build leaves out in favour of UCT.  In each of the two globalOS a       *)
(* server thread takes the requests of the other PU and a client thread    *)
(* connects to the server of the other (globalOS_DSM_server and _client);  *)
(* both run molecule_dsm_init, with a UCP worker each, and exchange UCP    *)
(* addresses first over TCP and then over UCP.  Afterwards the SYSCALL     *)
(* thread makes dsm_calls through the client's worker.                     *)
(*                                                                         *)
(* local_addr and peer_addr are static: the two threads of a PU share      *)
(* them.  An address is the worker it is of.  UCP is external: a message   *)
(* reaches the worker of the endpoint it is sent to, in order, and any     *)
(* operation may fail.  All messages have the same tag, so that a worker   *)
(* takes the next one whatever it is.                                      *)
(***************************************************************************)
EXTENDS Integers, Sequences

CONSTANTS
  MaxUcpCalls,  \* bound: dsm_calls of a PU
  MaxUcpServed, \* bound: requests a server takes; one that answers itself takes any number
  MaxUcpFaults  \* bound: operations that fail

ASSUME UcpAssumption == MaxUcpCalls \in Nat /\ MaxUcpFaults \in Nat /\ MaxUcpServed \in Nat

UcpPU == {0, 1}
Far(p) == 1 - p
UcpThread == UcpPU \X {"server", "client"}
NoWorker == <<-1, "none">>
Dangling == <<-1, "freed">>  \* an address that has been freed

VARIABLES
  upc,      \* of each DSM thread
  laddr,    \* local_addr of a PU
  paddr,    \* peer_addr of a PU
  stored,   \* history: what a thread has put into peer_addr itself
  tcp,      \* the connection that the server of a PU accepts, and the address sent over it
  uep,      \* the worker that the endpoint of a thread leads to
  tagged,   \* messages that have come to a worker
  globals,  \* which of molecule_client_ucp_worker and _remote_ep are set
  ucall,    \* a dsm_call of the SYSCALL thread waits for its answer
  usent,    \* dsm_calls made
  ureq,     \* the number of the request in dsm_call_buf, 0 for garbage
  ran,      \* history: the requests a server has run, in order
  rets,     \* history: whose answer each dsm_call has returned, 0 for garbage
  hit,      \* history: <<PU, number>> of the calls that a failure has hit
  crossed,  \* history: a thread has used an address that the other has put in place or freed
  down,     \* the globalOS of a PU has crashed
  ufaults

ucpSetup == <<laddr, paddr, stored, tcp, uep, globals, crossed>>
ucpCalls == <<ucall, usent, ureq, ran, rets, hit>>
ucpVars == <<upc, ucpSetup, tagged, ucpCalls, down, ufaults>>

ClientPc == {"worker", "connect", "address", "endpoint", "introduce", "hello", "publish", "publish2", "asleep"}
ServerPc == {"worker", "listen", "accept", "address", "introduce", "endpoint", "hello", "serve", "handle", "answer"}

UcpInit ==
  /\ upc = [t \in UcpThread |-> "worker"]
  /\ laddr = [p \in UcpPU |-> NoWorker] /\ paddr = laddr
  /\ stored = [t \in UcpThread |-> NoWorker]
  /\ tcp = [p \in UcpPU |-> [state |-> "none", addr |-> NoWorker]]
  /\ uep = [t \in UcpThread |-> NoWorker]
  /\ tagged = [t \in UcpThread |-> <<>>]
  /\ globals = [p \in UcpPU |-> 0]
  /\ ucall = [p \in UcpPU |-> FALSE]
  /\ usent = [p \in UcpPU |-> 0] /\ ureq = usent
  /\ ran = [p \in UcpPU |-> <<>>] /\ rets = ran
  /\ hit = {} /\ crossed = FALSE /\ down = {} /\ ufaults = 0

UcpFault == ufaults < MaxUcpFaults /\ ufaults' = ufaults + 1
UGo(t, l1, l2) == t[1] \notin down /\ upc[t] = l1 /\ upc' = [upc EXCEPT ![t] = l2]
UMsg(kind, w, n) == [kind |-> kind, w |-> w, n |-> n]
\* ucp_tag_send_nbx and ucx_wait; a message to no worker goes nowhere
Sent(w, m) == IF w \in UcpThread THEN [tagged EXCEPT ![w] = Append(@, m)] ELSE tagged
\* ucp_tag_probe_nb takes the next message off the worker
Took(w) == [tagged EXCEPT ![w] = Tail(@)]

-----------------------------------------------------------------------------
(***************************************************************************)
(* molecule_dsm_init.                                                      *)
(***************************************************************************)
\* ucp_worker_create and ucp_worker_get_address, into local_addr
MakeWorker(t) ==
  /\ UGo(t, "worker", IF t[2] = "server" THEN "listen" ELSE "connect")
  /\ laddr' = [laddr EXCEPT ![t[1]] = t]
  /\ UNCHANGED <<paddr, stored, tcp, uep, globals, crossed, tagged, ucpCalls, down, ufaults>>

\* server_connect
ListenTcp(p) ==
  /\ UGo(<<p, "server">>, "listen", "accept")
  /\ tcp' = [tcp EXCEPT ![p].state = "listening"]
  /\ UNCHANGED <<laddr, paddr, stored, uep, globals, crossed, tagged, ucpCalls, down, ufaults>>
AcceptTcp(p) ==
  /\ tcp[p].state = "connected"
  /\ UGo(<<p, "server">>, "accept", "address")
  /\ UNCHANGED <<ucpSetup, tagged, ucpCalls, down, ufaults>>
\* client_connect tries until somebody listens
ConnectTcp(p) ==
  /\ tcp[Far(p)].state = "listening" /\ Far(p) \notin down
  /\ UGo(<<p, "client">>, "connect", "address")
  /\ tcp' = [tcp EXCEPT ![Far(p)].state = "connected"]
  /\ UNCHANGED <<laddr, paddr, stored, uep, globals, crossed, tagged, ucpCalls, down, ufaults>>

\* Mutant of LocalAddr: the address of the other thread
LocalAddrSwapped(t) == IF t[2] = "server" THEN <<t[1], "client">> ELSE laddr[t[1]]

\* the address a thread takes for its own
LocalAddr(t) == laddr[t[1]]

\* the server sends its address over TCP, the client takes it
SendAddress(p) ==
  LET t == <<p, "server">> IN
  /\ UGo(t, "address", "introduce")
  /\ tcp' = [tcp EXCEPT ![p].addr = LocalAddr(t)]
  /\ crossed' = (crossed \/ laddr[p] # t)
  /\ UNCHANGED <<laddr, paddr, stored, uep, globals, tagged, ucpCalls, down, ufaults>>
RecvAddress(p) ==
  /\ tcp[Far(p)].addr # NoWorker
  /\ UGo(<<p, "client">>, "address", "endpoint")
  /\ paddr' = [paddr EXCEPT ![p] = tcp[Far(p)].addr]
  /\ stored' = [stored EXCEPT ![<<p, "client">>] = tcp[Far(p)].addr]
  /\ UNCHANGED <<laddr, tcp, uep, globals, crossed, tagged, ucpCalls, down, ufaults>>

\* ucp_ep_create with peer_addr, which the other thread may have replaced or freed
MakeEndpoint(t, to) ==
  /\ UGo(t, "endpoint", to)
  /\ uep' = [uep EXCEPT ![t] = paddr[t[1]]]
  /\ crossed' = (crossed \/ paddr[t[1]] # stored[t])
  /\ UNCHANGED <<laddr, paddr, stored, tcp, globals, tagged, ucpCalls, down, ufaults>>

-----------------------------------------------------------------------------
(***************************************************************************)
(* run_ucx_client.                                                         *)
(***************************************************************************)
ClientEndpoint(p) == MakeEndpoint(<<p, "client">>, "introduce")
\* the client sends local_addr to the server
Introduce(p) ==
  LET t == <<p, "client">> IN
  /\ UGo(t, "introduce", "hello")
  /\ tagged' = Sent(uep[t], UMsg("addr", LocalAddr(t), 0))
  /\ crossed' = (crossed \/ laddr[p] # t)
  /\ UNCHANGED <<laddr, paddr, stored, tcp, uep, globals, ucpCalls, down, ufaults>>
RecvHello(p) ==
  LET t == <<p, "client">> IN
  /\ tagged[t] # <<>>
  /\ UGo(t, "hello", "publish") /\ tagged' = Took(t)
  /\ UNCHANGED <<ucpSetup, ucpCalls, down, ufaults>>
\* the two globals, and then the client thread sleeps for ever
PublishGlobal(p) ==
  LET t == <<p, "client">> IN
  /\ UGo(t, "publish", "publish2") \/ UGo(t, "publish2", "asleep")
  /\ globals' = [globals EXCEPT ![p] = @ + 1]
  /\ UNCHANGED <<laddr, paddr, stored, tcp, uep, crossed, tagged, ucpCalls, down, ufaults>>

-----------------------------------------------------------------------------
(***************************************************************************)
(* run_ucx_server.                                                         *)
(***************************************************************************)
\* the address of the client, into peer_addr
RecvIntroduction(p) ==
  LET t == <<p, "server">> IN
  /\ tagged[t] # <<>>
  /\ UGo(t, "introduce", "endpoint") /\ tagged' = Took(t)
  /\ paddr' = [paddr EXCEPT ![p] = Head(tagged[t]).w]
  /\ stored' = [stored EXCEPT ![t] = Head(tagged[t]).w]
  /\ UNCHANGED <<laddr, tcp, uep, globals, crossed, ucpCalls, down, ufaults>>
ServerEndpoint(p) == MakeEndpoint(<<p, "server">>, "hello")

\* the test string, which tells the client that the server is ready
SendHello(p) ==
  LET t == <<p, "server">> IN
  /\ UGo(t, "hello", "serve") /\ tagged' = Sent(uep[t], UMsg("hello", NoWorker, 0))
  /\ UNCHANGED <<ucpSetup, ucpCalls, down, ufaults>>

\* molecule_recv_msg into dsm_call_buf; when it fails the buffer is as it was,
\* and the server goes on all the same
RecvRequest(p) ==
  LET t == <<p, "server">> IN
  /\ Len(ran[p]) < MaxUcpServed
  /\ tagged[t] # <<>> /\ UGo(t, "serve", "handle") /\ tagged' = Took(t)
  /\ \/ ureq' = [ureq EXCEPT ![p] = Head(tagged[t]).n] /\ UNCHANGED <<hit, ufaults>>
     \/ UcpFault /\ hit' = hit \cup {<<Far(p), Head(tagged[t]).n>>} /\ UNCHANGED ureq
  /\ UNCHANGED <<ucpSetup, ucall, usent, ran, rets, down>>
\* dsm_handlers
Handle(p) ==
  /\ UGo(<<p, "server">>, "handle", "answer")
  /\ ran' = [ran EXCEPT ![p] = Append(@, ureq[p])]
  /\ UNCHANGED <<ucpSetup, tagged, ucall, usent, ureq, rets, hit, down, ufaults>>

\* Mutant of Answer: a request is only run
AnswerNot(p) ==
  /\ UGo(<<p, "server">>, "answer", "serve")
  /\ UNCHANGED <<ucpSetup, tagged, ucpCalls, down, ufaults>>

\* the answer; nobody looks at whether it was sent
Answer(p) ==
  LET t == <<p, "server">> IN
  /\ UGo(t, "answer", "serve")
  /\ \/ tagged' = Sent(uep[t], UMsg("resp", NoWorker, ureq[p])) /\ UNCHANGED ufaults
     \/ UcpFault /\ UNCHANGED tagged
  /\ UNCHANGED <<ucpSetup, ucpCalls, down>>

\* where a thread that fails has a local_addr, and where peer_addr to free;
\* the client has one once it has allocated it for the address
HasLocal(t) == upc[t] # "worker"
Fresh(t) == upc[t] = "address" /\ t[2] = "client"
FreesPeer(t) ==
  CASE ~HasLocal(t) \/ upc[t] = "connect"       -> {FALSE}
    [] Fresh(t)                                  -> BOOLEAN
    [] OTHER                                     -> {TRUE}
\* the client finds its TCP connection closed before the address has come
PeerLost(t) == Fresh(t) /\ Far(t[1]) \in down /\ tcp[Far(t[1])].addr = NoWorker
\* the error path of molecule_dsm_init frees both pointers, also when the other
\* thread has set them since; what is freed twice ends the process
UcpFails(t) ==
  LET p == t[1] IN
  /\ p \notin down /\ (UcpFault \/ (PeerLost(t) /\ UNCHANGED ufaults))
  /\ upc[t] \notin {"serve", "handle", "answer", "publish", "publish2", "asleep", "failed"}
  /\ upc' = [upc EXCEPT ![t] = "failed"]
  /\ laddr' = [laddr EXCEPT ![p] = IF HasLocal(t) THEN Dangling ELSE @]
  /\ \E frees \in FreesPeer(t) :
       /\ paddr' = [paddr EXCEPT ![p] = IF frees /\ (Fresh(t) \/ @ # NoWorker) THEN Dangling ELSE @]
       /\ down' = IF \/ HasLocal(t) /\ laddr[p] = Dangling
                     \/ frees /\ ~Fresh(t) /\ paddr[p] = Dangling
                  THEN down \cup {p} ELSE down
  /\ UNCHANGED <<stored, tcp, uep, globals, crossed, tagged, ucpCalls>>
\* when the test string cannot be sent the server waits for a change of
\* ep_status that nothing makes
HelloFails(p) ==
  /\ UcpFault /\ UGo(<<p, "server">>, "hello", "failed")
  /\ UNCHANGED <<ucpSetup, tagged, ucpCalls, down>>

-----------------------------------------------------------------------------
(***************************************************************************)
(* dsm_call, in the SYSCALL thread.  Before the globals are set it ends    *)
(* the process.                                                            *)
(***************************************************************************)
CallSend(p) ==
  /\ p \notin down /\ ~ucall[p] /\ usent[p] < MaxUcpCalls
  /\ IF globals[p] < 2
     THEN down' = down \cup {p} /\ UNCHANGED <<ucall, usent, tagged, hit, ufaults>>
     ELSE /\ ucall' = [ucall EXCEPT ![p] = TRUE] /\ usent' = [usent EXCEPT ![p] = @ + 1]
          /\ \/ tagged' = Sent(uep[<<p, "client">>], UMsg("call", NoWorker, usent[p] + 1))
                /\ UNCHANGED <<hit, ufaults>>
             \/ UcpFault /\ hit' = hit \cup {<<p, usent[p] + 1>>} /\ UNCHANGED tagged
          /\ UNCHANGED down
  /\ UNCHANGED <<upc, ucpSetup, ureq, ran, rets>>

\* ... waits for a message; when the receive fails the answer is not set
CallRecv(p) ==
  LET t == <<p, "client">> IN
  /\ p \notin down /\ ucall[p] /\ tagged[t] # <<>> /\ tagged' = Took(t)
  /\ ucall' = [ucall EXCEPT ![p] = FALSE]
  /\ \/ rets' = [rets EXCEPT ![p] = Append(@, Head(tagged[t]).n)] /\ UNCHANGED <<hit, ufaults>>
     \/ UcpFault /\ hit' = hit \cup {<<p, usent[p]>>} /\ rets' = [rets EXCEPT ![p] = Append(@, 0)]
  /\ UNCHANGED <<upc, ucpSetup, usent, ureq, ran, down>>

-----------------------------------------------------------------------------
UcpServer(p) ==
  \/ MakeWorker(<<p, "server">>) \/ ListenTcp(p) \/ AcceptTcp(p) \/ SendAddress(p)
  \/ RecvIntroduction(p) \/ ServerEndpoint(p) \/ SendHello(p)
  \/ RecvRequest(p) \/ Handle(p) \/ Answer(p)
UcpClient(p) ==
  \/ MakeWorker(<<p, "client">>) \/ ConnectTcp(p) \/ RecvAddress(p) \/ ClientEndpoint(p)
  \/ Introduce(p) \/ RecvHello(p) \/ PublishGlobal(p)

UcpNext ==
  \/ \E p \in UcpPU : UcpServer(p) \/ UcpClient(p) \/ CallSend(p) \/ CallRecv(p) \/ HelloFails(p)
  \/ \E t \in UcpThread : UcpFails(t)

\* both threads of a PU run, and a dsm_call takes the answer that has come
UcpFair == \A p \in UcpPU : WF_ucpVars(UcpServer(p)) /\ WF_ucpVars(UcpClient(p)) /\ WF_ucpVars(CallRecv(p))
UcpSpec == UcpInit /\ [][UcpNext]_ucpVars /\ UcpFair

-----------------------------------------------------------------------------
\* Types; a worker never holds more than one message that it has not taken.
UcpTypeOK ==
  /\ \A p \in UcpPU : /\ upc[<<p, "client">>] \in ClientPc \cup {"failed"}
                      /\ upc[<<p, "server">>] \in ServerPc \cup {"failed"}
                      /\ {laddr[p], paddr[p], tcp[p].addr} \subseteq UcpThread \cup {NoWorker, Dangling}
                      /\ usent[p] \in 0 .. MaxUcpCalls /\ globals[p] \in 0 .. 2
  /\ ~crossed => \A t \in UcpThread : Len(tagged[t]) <= 1

\* A client ends up connected to the server of the other PU and a server to
\* the client, unless the two threads of a PU have got into each other's
\* static addresses.
WorkersPaired ==
  ~crossed => \A p \in UcpPU : /\ uep[<<p, "client">>] \in {NoWorker, <<Far(p), "server">>}
                               /\ uep[<<p, "server">>] \in {NoWorker, <<Far(p), "client">>}

\* A dsm_call returns the answer to its own request, also after calls that
\* failed: a failure hits one call and shifts none of the later ones, and the
\* messages of the start-up are not taken for answers.
AnswersOwn ==
  ~crossed => \A p \in UcpPU : \A n \in DOMAIN rets[p] : rets[p][n] = n \/ <<p, n>> \in hit

\* A server runs every request once and in order, except that a request it
\* could not receive makes it run the one before once more.
RunsEach ==
  ~crossed => \A p \in UcpPU : \A n \in DOMAIN ran[p] :
                ran[p][n] = n \/ (<<Far(p), n>> \in hit /\ ran[p][n] < n)

Wrong == crossed \/ down # {} \/ ufaults > 0
\* Unless something has failed, the threads of a PU have got into each other's
\* addresses or a PU has called too early, a client that has its
\* worker does not stay without the globals forever: no exchange of the
\* start-up waits for another that waits for it.
UcpReady == \A p \in UcpPU : []<>(upc[<<p, "client">>] = "worker" \/ globals[p] = 2 \/ Wrong)

\* Under the same conditions no dsm_call waits for its answer forever.
UcpReturns == \A p \in UcpPU : []<>(~ucall[p] \/ Wrong)

\* Unless the threads of a PU get into each other's addresses, calls and answers
\* belong together, also after operations that failed.
UcpSound == UcpTypeOK /\ WorkersPaired /\ AnswersOwn /\ RunsEach

\* The start-up comes to its end and so does every call.
UcpEnds == UcpReady /\ UcpReturns
=============================================================================
