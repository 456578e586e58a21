----------------------------- MODULE DsmProofs ------------------------------
(***************************************************************************)
(* Proofs about the DSM link.  DsmStartup: TypeOK, InStep and              *)
(* AttachedFirst are invariants, whatever the transport's way to connect,  *)
(* whichever calls fail and however many dsm_calls come meanwhile.         *)
(* UctChannel implements DsmLink, for any number of calls and whatever     *)
(* overtakes a send.  UcpDsm: its clients and servers get what they asked  *)
(* for, whatever operations fail.                                          *)
(***************************************************************************)
EXTENDS DsmStartup, UctChannel, UcpDsm, SequenceTheorems, TLAPS

Word == {"dev", "iface", "ep", "barrier"}
Last == Len(Exchanges)

\* Both sides exchange at least two things, and with endpoints the endpoint
\* address is the last but one, before the barrier (molecule_prepare_dsm_ctx).
LEMMA ExchangesShape ==
  /\ Exchanges \in Seq(Word)
  /\ Last \in Nat /\ Last >= 2
  /\ \A i \in 1 .. Last : Exchanges[i] \in Word
  /\ "EP" \in Caps => \A i \in 1 .. Last : Exchanges[i] = "ep" <=> i = Last - 1
<1> DEFINE I == IF "IFACE" \in Caps THEN <<"iface">> ELSE <<>>
           E == IF "EP" \in Caps THEN <<"ep", "barrier">> ELSE <<>>
           D == <<"dev">> \o I
<1>1. /\ I \in Seq(Word)
      /\ "IFACE" \in Caps => Len(I) = 1 /\ I[1] = "iface"
      /\ "IFACE" \notin Caps => Len(I) = 0
  <2>1. CASE "IFACE" \in Caps
    <3> I = <<"iface">>
      BY <2>1
    <3> HIDE DEF I
    <3> QED
      BY <2>1 DEF Word
  <2>2. CASE "IFACE" \notin Caps
    <3> I = <<>>
      BY <2>2
    <3> HIDE DEF I
    <3> QED
      BY <2>2
  <2> QED
    BY <2>1, <2>2
<1>2. /\ E \in Seq(Word)
      /\ "EP" \in Caps => Len(E) = 2 /\ E[1] = "ep" /\ E[2] = "barrier"
      /\ "EP" \notin Caps => Len(E) = 0
  <2>1. CASE "EP" \in Caps
    <3> E = <<"ep", "barrier">>
      BY <2>1
    <3> HIDE DEF E
    <3> QED
      BY <2>1 DEF Word
  <2>2. CASE "EP" \notin Caps
    <3> E = <<>>
      BY <2>2
    <3> HIDE DEF E
    <3> QED
      BY <2>2
  <2> QED
    BY <2>1, <2>2
<1>3. /\ <<"dev">> \in Seq(Word) /\ Len(<<"dev">>) = 1 /\ <<"dev">>[1] = "dev"
  BY DEF Word
<1> HIDE DEF I, E
<1>4. /\ D \in Seq(Word) /\ Len(D) = 1 + Len(I)
      /\ D[1] = "dev"
      /\ "IFACE" \in Caps => D[2] = "iface"
  BY <1>1, <1>3
<1> HIDE DEF D
<1>5. Exchanges = D \o E
  BY DEF Exchanges, D, I, E
<1>6. /\ Exchanges \in Seq(Word) /\ Last = Len(D) + Len(E)
      /\ \A i \in 1 .. Len(D) : Exchanges[i] = D[i]
      /\ \A i \in 1 .. Len(E) : Exchanges[Len(D) + i] = E[i]
  <2>0. D \in Seq(Word) /\ E \in Seq(Word)
    BY <1>2, <1>4
  <2>1. Exchanges \in Seq(Word) /\ Last = Len(D) + Len(E)
    <3>1. D \o E \in Seq(Word) /\ Len(D \o E) = Len(D) + Len(E)
      BY <2>0
    <3> QED
      BY <3>1, <1>5, Zenon DEF Last
  <2>2. \A i \in 1 .. Len(D) : Exchanges[i] = D[i]
    BY <1>2, <1>4, <1>5
  <2>3. \A i \in 1 .. Len(E) : Exchanges[Len(D) + i] = E[i]
    BY <1>2, <1>4, <1>5
  <2> QED
    BY <2>1, <2>2, <2>3
<1>7. /\ Len(D) = IF "IFACE" \in Caps THEN 2 ELSE 1
      /\ Len(E) = IF "EP" \in Caps THEN 2 ELSE 0
      /\ "IFACE" \in Caps \/ "EP" \in Caps
  <2>1. "IFACE" \in Caps \/ "EP" \in Caps
    BY StartupAssumption
  <2>2. Len(D) = 1 + Len(I)
    BY <1>4
  <2>3. Len(D) = IF "IFACE" \in Caps THEN 2 ELSE 1
    <3>1. CASE "IFACE" \in Caps
      <4> Len(I) = 1
        BY <3>1, <1>1, Zenon
      <4> QED
        BY <3>1, <2>2
    <3>2. CASE "IFACE" \notin Caps
      BY <3>2, <2>2, <1>1
    <3> QED
      BY <3>1, <3>2
  <2>4. Len(E) = IF "EP" \in Caps THEN 2 ELSE 0
    BY <1>2
  <2> QED
    BY <2>1, <2>3, <2>4
<1>8. \A i \in 1 .. Last : Exchanges[i] \in Word
  BY <1>6 DEF Last
<1>9. ASSUME "EP" \in Caps, NEW i \in 1 .. Last
      PROVE  Exchanges[i] = "ep" <=> i = Last - 1
  <2>1. CASE "IFACE" \in Caps
    <3>1. /\ Last = 4 /\ Exchanges[1] = "dev" /\ Exchanges[2] = "iface"
          /\ Exchanges[3] = "ep" /\ Exchanges[4] = "barrier"
      <4>1. Len(D) = 2 /\ Len(E) = 2
        BY <2>1, <1>7, <1>9
      <4>2. D[1] = "dev" /\ D[2] = "iface" /\ E[1] = "ep" /\ E[2] = "barrier"
        BY <2>1, <1>2, <1>4, <1>9
      <4> QED
        BY <4>1, <4>2, <1>6
    <3> QED
      BY <3>1
  <2>2. CASE "IFACE" \notin Caps
    <3>1. /\ Last = 3 /\ Exchanges[1] = "dev"
          /\ Exchanges[2] = "ep" /\ Exchanges[3] = "barrier"
      <4>1. Len(D) = 1 /\ Len(E) = 2
        BY <2>2, <1>7, <1>9
      <4>2. D[1] = "dev" /\ E[1] = "ep" /\ E[2] = "barrier"
        BY <1>2, <1>4, <1>9
      <4> QED
        BY <4>1, <4>2, <1>6
    <3> QED
      BY <3>1
  <2> QED
    BY <2>1, <2>2
<1> QED
  BY <1>6, <1>7, <1>8, <1>9

-----------------------------------------------------------------------------
(* The inductive invariant.                                                *)

Before == {"setup", "lookup", "oob", "accept"}
During == {"send", "recv", "publish"}

\* a live PU has not begun with context r, or is not past accept
NotBegun(s, r) ==
  /\ dpc[s] # "dead"
  /\ \/ stage[s] = 1 /\ Doing(s) # r
     \/ Doing(s) = r /\ dpc[s] \in Before

\* no exchange and no socket before the connection is made
Unmet == \A s \in PU, r \in Role :
  NotBegun(s, r) => done[s][r] = 0 /\ sock[Conn(s, r)][r] = "none"

\* in the exchanges the socket is open, and publish comes after the last one
Busy == \A s \in PU : dpc[s] \in During =>
  /\ sock[Conn(s, Doing(s))][Doing(s)] = "open"
  /\ done[s][Doing(s)] = Last <=> dpc[s] = "publish"

\* only the server end waits in accept
Accepting == \A s \in PU : dpc[s] = "accept" => Doing(s) = "server"

\* 1 when PU s may have sent more than it has received on context r: it waits
\* in recv, or has gone away in between
Ahead(s, r) ==
  IF sock[Conn(s, r)][r] = "closed" \/ (dpc[s] = "recv" /\ Doing(s) = r) THEN 1 ELSE 0

\* what an end has received or will find was sent by the other end
Flow == \A s \in PU, r \in Role :
  done[Other(s)][Opposite(r)] + Len(inbox[Conn(s, r)][Opposite(r)])
    <= done[s][r] + Ahead(s, r)

\* a visible context has had all its exchanges
Complete == \A s \in PU, r \in Role : ctx[s][r] => done[s][r] = Last

\* an end that has the endpoint address has attached it
Linked == "EP" \in Caps /\ failures = {} =>
  \A s \in PU, r \in Role : done[s][r] >= Last - 1 => attached[s][r]

StartupInv == StartupTypeOK /\ Unmet /\ Busy /\ Accepting /\ Flow /\ Complete /\ Linked

-----------------------------------------------------------------------------
(* Facts about the two PUs, the two ends and the two stages.               *)

\* the ends of the two PUs pair up
LEMMA Ends ==
  /\ \A s \in PU : Other(s) \in PU /\ Other(s) # s /\ Other(Other(s)) = s
  /\ \A s, t \in PU : t # s => t = Other(s)
  /\ \A r \in Role : Opposite(r) \in Role /\ Opposite(r) # r /\ Opposite(Opposite(r)) = r
  /\ \A q, r \in Role : q # r => q = Opposite(r)
  /\ \A s \in PU, r \in Role : /\ Conn(s, r) \in PU
                               /\ Conn(Other(s), Opposite(r)) = Conn(s, r)
  /\ \A s, t \in PU, r \in Role : Conn(s, r) = Conn(t, r) => s = t
BY DEF PU, Role, Other, Opposite, Conn

\* each PU prepares both contexts, one after the other
LEMMA StageRoles ==
  \A s \in PU : /\ Stages(s)[1] \in Role /\ Stages(s)[2] \in Role
                /\ Stages(s)[1] # Stages(s)[2]
BY DEF Stages, Role, PU

\* the context of a stage is one of the two
LEMMA DoingRole ==
  ASSUME StartupTypeOK, NEW s \in PU
  PROVE  Doing(s) \in Role
BY StageRoles DEF StartupTypeOK, Doing

-----------------------------------------------------------------------------
(* The kinds of steps, by what they change.                                *)

\* what the SYSCALL threads may do to their own variables
CallsTyped ==
  /\ call' \in [PU -> {"none", "sent", "answered"}]
  /\ made' \in [PU -> 0 .. StartupCalls]
  /\ early' \subseteq PU

\* A step of the SYSCALL threads alone, or none at all, keeps the invariant.
LEMMA CallStep ==
  ASSUME StartupInv, CallsTyped,
         UNCHANGED <<dpc, stage, done, ctx, attached, net, failures>>
  PROVE  StartupInv'
<1>1. StartupTypeOK'
  BY DEF StartupInv, StartupTypeOK, CallsTyped, net
<1>2. Unmet' /\ Busy' /\ Accepting'
  BY DEF StartupInv, net, Unmet, NotBegun, Busy, Accepting, Doing
<1>3. Flow' /\ Complete' /\ Linked'
  BY DEF StartupInv, net, Flow, Ahead, Doing, Complete, Linked
<1> QED
  BY <1>1, <1>2, <1>3 DEF StartupInv

\* A step from one place before the connection to another keeps the invariant.
LEMMA QuietStep ==
  ASSUME StartupInv, NEW s \in PU, NEW l \in Before,
         dpc[s] \in Before, dpc' = [dpc EXCEPT ![s] = l],
         l = "accept" => Doing(s) = "server",
         listening' \in [PU -> BOOLEAN],
         UNCHANGED <<stage, done, ctx, attached, sock, inbox, syscalls, failures>>
  PROVE  StartupInv'
<1> USE DEF StartupInv
<1>0. \A t \in PU : Doing(t)' = Doing(t) /\ Doing(t) \in Role
  BY DoingRole DEF Doing
<1>1. StartupTypeOK'
  BY DEF StartupTypeOK, DPc, Before, syscalls
<1>2. Unmet'
  <2>1. ASSUME NEW t \in PU, NEW r \in Role, NotBegun(t, r)'
        PROVE  (done[t][r] = 0 /\ sock[Conn(t, r)][r] = "none")'
    <3>1. NotBegun(t, r)
      BY <1>0, <2>1 DEF NotBegun, Before, StartupTypeOK
    <3> QED
      BY <3>1 DEF Unmet
  <2> QED
    BY <2>1 DEF Unmet
<1>3. Busy'
  BY <1>0 DEF Busy, During, Before, StartupTypeOK
<1>4. Accepting'
  BY <1>0 DEF Accepting, StartupTypeOK
<1>5. Flow'
  <2>1. \A t \in PU, r \in Role : Ahead(t, r)' = Ahead(t, r)
    BY <1>0 DEF Ahead, Before, StartupTypeOK
  <2> QED
    BY <2>1 DEF Flow
<1>6. Complete' /\ Linked'
  BY DEF Complete, Linked
<1> QED
  BY <1>1, <1>2, <1>3, <1>4, <1>5, <1>6

\* Opening an end of a connection keeps the invariant.
LEMMA OpenStep ==
  ASSUME StartupInv, NEW s \in PU,
         dpc[s] \in Before, dpc' = [dpc EXCEPT ![s] = "send"],
         sock' = [sock EXCEPT ![Conn(s, Doing(s))][Doing(s)] = "open"],
         listening' \in [PU -> BOOLEAN],
         UNCHANGED <<stage, done, ctx, attached, inbox, syscalls, failures>>
  PROVE  StartupInv'
<1> USE DEF StartupInv
<1>0. \A t \in PU : Doing(t)' = Doing(t) /\ Doing(t) \in Role
  BY DoingRole DEF Doing
<1>a. \A t \in PU, r \in Role : Conn(t, r) \in PU
  BY Ends
<1>b. ASSUME NEW t \in PU, NEW r \in Role, t # s \/ r # Doing(s)
      PROVE  sock'[Conn(t, r)][r] = sock[Conn(t, r)][r]
  <2>1. CASE r # Doing(s)
    BY <2>1, <1>0, <1>a DEF StartupTypeOK
  <2>2. CASE r = Doing(s) /\ t # s
    <3>1. Conn(t, r) # Conn(s, Doing(s))
      BY <2>2, <1>0, Ends
    <3> QED
      BY <3>1, <1>0, <1>a DEF StartupTypeOK
  <2> QED
    BY <2>1, <2>2, <1>b
<1>c. sock'[Conn(s, Doing(s))][Doing(s)] = "open"
  BY <1>0, <1>a DEF StartupTypeOK
<1>d. done[s][Doing(s)] = 0 /\ sock[Conn(s, Doing(s))][Doing(s)] = "none"
  BY <1>0 DEF Unmet, NotBegun, Before
<1>1. StartupTypeOK'
  BY <1>0, <1>a DEF StartupTypeOK, DPc, syscalls
<1>2. Unmet'
  <2>1. ASSUME NEW t \in PU, NEW r \in Role, NotBegun(t, r)'
        PROVE  (done[t][r] = 0 /\ sock[Conn(t, r)][r] = "none")'
    <3>1. NotBegun(t, r) /\ (t # s \/ r # Doing(s))
      BY <1>0, <2>1 DEF NotBegun, Before, StartupTypeOK
    <3> QED
      BY <3>1, <1>b DEF Unmet
  <2> QED
    BY <2>1 DEF Unmet
<1>3. Busy'
  <2>1. ASSUME NEW t \in PU, dpc'[t] \in During
        PROVE  /\ sock'[Conn(t, Doing(t))][Doing(t)] = "open"
               /\ done'[t][Doing(t)] = Last <=> dpc'[t] = "publish"
    <3>1. CASE t = s
      BY <3>1, <1>c, <1>d, ExchangesShape DEF StartupTypeOK
    <3>2. CASE t # s
      BY <3>2, <2>1, <1>0, <1>b DEF Busy, StartupTypeOK
    <3> QED
      BY <3>1, <3>2
  <2> QED
    BY <2>1, <1>0 DEF Busy
<1>4. Accepting'
  BY <1>0 DEF Accepting, StartupTypeOK
<1>5. Flow'
  <2>1. ASSUME NEW t \in PU, NEW r \in Role
        PROVE  Ahead(t, r)' = Ahead(t, r)
    <3>1. CASE t = s /\ r = Doing(s)
      BY <3>1, <1>0, <1>c, <1>d DEF Ahead, Before, StartupTypeOK
    <3>2. CASE t # s \/ r # Doing(s)
      BY <3>2, <1>0, <1>b DEF Ahead, StartupTypeOK
    <3> QED
      BY <3>1, <3>2
  <2> QED
    BY <2>1 DEF Flow
<1>6. Complete' /\ Linked'
  BY DEF Complete, Linked
<1> QED
  BY <1>1, <1>2, <1>3, <1>4, <1>5, <1>6

\* Sending keeps the invariant: the sender is ahead until it has received.
LEMMA SendStep ==
  ASSUME StartupInv, NEW s \in PU, Send(s)
  PROVE  StartupInv'
<1> DEFINE d == Doing(s)
           o == Opposite(d)
           c == Conn(s, d)
           x == Exchanges[done[s][d] + 1]
<1> USE DEF StartupInv
<1>0. \A t \in PU : Doing(t)' = Doing(t) /\ Doing(t) \in Role
  BY DoingRole DEF Doing, Send
<1>a. d \in Role /\ o \in Role /\ o # d /\ c \in PU
  BY <1>0, Ends
<1>b. /\ dpc[s] = "send" /\ dpc' = [dpc EXCEPT ![s] = "recv"]
      /\ UNCHANGED <<stage, done, ctx, attached, listening, sock, syscalls, failures>>
      /\ \/ inbox' = inbox
         \/ inbox' = [inbox EXCEPT ![c][o] = Append(@, x)]
  BY DEF Send, DGoto
<1>c. sock[c][d] = "open" /\ done[s][d] # Last
  BY <1>b DEF Busy, During
<1>d. x \in Word
  <2>1. done[s][d] \in 0 .. Last
    BY <1>a DEF StartupTypeOK, Last
  <2>2. done[s][d] + 1 \in 1 .. Last
    BY <2>1, <1>c, ExchangesShape
  <2> QED
    BY <2>2, ExchangesShape
<1> HIDE DEF d, o, c, x
<1>e. inbox \in [PU -> [Role -> Seq(Word)]]
  BY DEF StartupTypeOK, Word
<1>1. StartupTypeOK'
  <2>1. inbox' \in [PU -> [Role -> Seq(Word)]]
    <3> DEFINE y == Append(inbox[c][o], x)
    <3>1. y \in Seq(Word)
      <4>1. inbox[c][o] \in Seq(Word)
        BY <1>a, <1>e
      <4> QED
        BY <4>1, <1>d
    <3>2. inbox' = inbox \/ inbox' = [inbox EXCEPT ![c][o] = y]
      BY <1>b, Zenon
    <3> HIDE DEF y
    <3> QED
      <4>1. [inbox[c] EXCEPT ![o] = y] \in [Role -> Seq(Word)]
        BY <3>1, <1>a, <1>e, Zenon
      <4>2. inbox' = inbox \/ inbox' = [inbox EXCEPT ![c] = [inbox[c] EXCEPT ![o] = y]]
        BY <3>2
      <4> QED
        BY <4>1, <4>2, <1>e, Zenon
  <2> QED
    BY <2>1, <1>b DEF StartupTypeOK, DPc, Word, syscalls
<1>2. Unmet'
  <2>1. ASSUME NEW t \in PU, NEW r \in Role, NotBegun(t, r)'
        PROVE  NotBegun(t, r)
    BY <1>0, <1>b, <2>1 DEF NotBegun, Before, StartupTypeOK
  <2> QED
    BY <2>1, <1>b DEF Unmet
<1>3. Busy' /\ Accepting'
  <2>1. ASSUME NEW t \in PU
        PROVE  /\ dpc'[t] \in During => dpc[t] \in During
               /\ dpc'[t] = "publish" <=> dpc[t] = "publish"
               /\ dpc'[t] = "accept" <=> dpc[t] = "accept"
    BY <1>b DEF During, StartupTypeOK
  <2> QED
    BY <2>1, <1>0, <1>b DEF Busy, Accepting
<1>4. Flow'
  <2> SUFFICES ASSUME NEW t \in PU, NEW r \in Role
               PROVE  done[Other(t)][Opposite(r)] + Len(inbox'[Conn(t, r)][Opposite(r)])
                        <= done[t][r] + Ahead(t, r)'
    BY <1>b DEF Flow
  <2>0. /\ Other(t) \in PU /\ Opposite(r) \in Role /\ Conn(t, r) \in PU
        /\ done[Other(t)][Opposite(r)] + Len(inbox[Conn(t, r)][Opposite(r)])
             <= done[t][r] + Ahead(t, r)
    BY Ends DEF Flow
  <2>1. CASE t = s /\ r = d
    <3>1. Ahead(t, r) = 0 /\ Ahead(t, r)' = 1
      BY <2>1, <1>0, <1>b, <1>c DEF Ahead, StartupTypeOK, c, d
    <3>2. Len(inbox'[c][o]) <= Len(inbox[c][o]) + 1
      BY <1>a, <1>b, <1>d, <1>e
    <3>3. Len(inbox[c][o]) \in Nat /\ Len(inbox'[c][o]) \in Nat
      BY <1>a, <1>b, <1>d, <1>e
    <3>4. done[Other(t)][Opposite(r)] \in Nat /\ done[t][r] \in Nat
      BY <2>0 DEF StartupTypeOK
    <3>5. c = Conn(t, r) /\ o = Opposite(r)
      BY <2>1 DEF c, o
    <3> QED
      <4>1. done[Other(t)][o] + Len(inbox[c][o]) <= done[t][r] + 0
        BY <3>1, <3>5, <2>0
      <4>2. done[Other(t)][o] + Len(inbox'[c][o]) <= done[t][r] + 1
        <5>1. done[Other(t)][o] \in Nat
          BY <3>4, <3>5
        <5> QED
          <6> \A i, j, k, m \in Nat : i + j <= m + 0 /\ k <= j + 1 => i + k <= m + 1
            OBVIOUS
          <6> QED
            BY <5>1, <4>1, <3>2, <3>3, <3>4
      <4> QED
        BY <4>2, <3>1, <3>5
  <2>2. CASE t # s \/ r # d
    <3>1. Ahead(t, r)' = Ahead(t, r)
      BY <2>2, <1>0, <1>b DEF Ahead, StartupTypeOK, d
    <3>2. Opposite(r) # o \/ Conn(t, r) # c
      BY <2>2, <1>a, Ends DEF o, c
    <3>3. inbox'[Conn(t, r)][Opposite(r)] = inbox[Conn(t, r)][Opposite(r)]
      BY <3>2, <2>0, <1>a, <1>b, <1>e
    <3> QED
      BY <3>1, <3>3, <2>0
  <2> QED
    BY <2>1, <2>2
<1>5. Complete' /\ Linked'
  BY <1>b DEF Complete, Linked
<1> QED
  BY <1>1, <1>2, <1>3, <1>4, <1>5

\* Receiving keeps the invariant: what is taken out of the inbox is counted,
\* and with the endpoint address the endpoint is attached.
LEMMA RecvStep ==
  ASSUME StartupInv, NEW s \in PU, Recv(s)
  PROVE  StartupInv'
<1> DEFINE d == Doing(s)
           o == Opposite(d)
           c == Conn(s, d)
           n == done[s][d] + 1
<1> USE DEF StartupInv
<1>0. \A t \in PU : Doing(t)' = Doing(t) /\ Doing(t) \in Role
  BY DoingRole DEF Doing, Recv
<1>a. d \in Role /\ o \in Role /\ o # d /\ c \in PU
  BY <1>0, Ends
<1>b. /\ dpc[s] = "recv" /\ dpc' = [dpc EXCEPT ![s] = IF n = Last THEN "publish" ELSE "send"]
      /\ done' = [done EXCEPT ![s][d] = n]
      /\ inbox[c][d] # <<>> /\ inbox' = [inbox EXCEPT ![c][d] = Tail(@)]
      /\ UNCHANGED <<stage, ctx, listening, sock, syscalls>>
  BY DEF Recv, Received, DGoto, Last
<1>e. \/ /\ attached' = [attached EXCEPT ![s][d] = @ \/ Attaches(d, Exchanges[n])]
         /\ UNCHANGED failures
      \/ UNCHANGED attached /\ failures' = failures \cup {s}
  BY DEF Recv
<1>c. sock[c][d] = "open" /\ done[s][d] # Last
  BY <1>b DEF Busy, During
<1>d. n \in 1 .. Last
  <2>1. done[s][d] \in 0 .. Last
    BY <1>a DEF StartupTypeOK, Last
  <2> QED
    BY <2>1, <1>c, ExchangesShape
<1> HIDE DEF d, o, c
<1>f. done'[s][d] = n /\ dpc'[s] = IF n = Last THEN "publish" ELSE "send"
  BY <1>a, <1>b DEF StartupTypeOK
<1>g. \A t \in PU, r \in Role : t # s \/ r # d => done'[t][r] = done[t][r]
  BY <1>a, <1>b DEF StartupTypeOK
<1>h. n \in Nat /\ done[s][d] \in Nat /\ n = done[s][d] + 1
  BY <1>a DEF StartupTypeOK
<1> HIDE DEF n
<1>1. StartupTypeOK'
  <2>1. dpc' \in [PU -> DPc]
    BY <1>b DEF StartupTypeOK, DPc
  <2>2. done' \in [PU -> [Role -> 0 .. Len(Exchanges)]]
    BY <1>a, <1>b, <1>d, ExchangesShape DEF StartupTypeOK, Last
  <2>3. inbox' \in [PU -> [Role -> Seq(Word)]]
    BY <1>a, <1>b DEF StartupTypeOK, Word
  <2>4. attached' \in [PU -> [Role -> BOOLEAN]]
    <3> DEFINE b == attached[s][d] \/ Attaches(d, Exchanges[n])
    <3>1. \/ attached' = [attached EXCEPT ![s][d] = b]
          \/ attached' = attached
      BY <1>a, <1>e DEF StartupTypeOK
    <3>2. b \in BOOLEAN
      BY Zenon
    <3> HIDE DEF b
    <3> QED
      <4>1. attached \in [PU -> [Role -> BOOLEAN]]
        BY DEF StartupTypeOK
      <4>2. [attached[s] EXCEPT ![d] = b] \in [Role -> BOOLEAN]
        BY <4>1, <3>2, <1>a, Zenon
      <4>3. attached' = attached \/ attached' = [attached EXCEPT ![s] = [attached[s] EXCEPT ![d] = b]]
        BY <3>1
      <4> QED
        BY <4>1, <4>2, <4>3, Zenon
  <2>5. failures' \subseteq PU
    BY <1>e DEF StartupTypeOK
  <2> QED
    BY <2>1, <2>2, <2>3, <2>4, <2>5, <1>b DEF StartupTypeOK, Word, syscalls
<1>2. Unmet'
  <2>1. ASSUME NEW t \in PU, NEW r \in Role, NotBegun(t, r)'
        PROVE  (done[t][r] = 0 /\ sock[Conn(t, r)][r] = "none")'
    <3>1. NotBegun(t, r) /\ (t # s \/ r # d)
      BY <1>0, <1>b, <2>1 DEF NotBegun, Before, StartupTypeOK, d
    <3> QED
      BY <3>1, <1>b, <1>g DEF Unmet
  <2> QED
    BY <2>1 DEF Unmet
<1>3. Busy'
  <2>1. ASSUME NEW t \in PU, dpc'[t] \in During
        PROVE  /\ sock'[Conn(t, Doing(t))][Doing(t)] = "open"
               /\ done'[t][Doing(t)] = Last <=> dpc'[t] = "publish"
    <3>1. CASE t = s
      BY <3>1, <1>b, <1>c, <1>f DEF c, d
    <3>2. CASE t # s
      <4>1. dpc'[t] = dpc[t] /\ done'[t][Doing(t)] = done[t][Doing(t)]
        BY <3>2, <1>0, <1>b, <1>g DEF StartupTypeOK
      <4> QED
        BY <4>1, <2>1, <1>b DEF Busy
    <3> QED
      BY <3>1, <3>2
  <2> QED
    BY <2>1, <1>0 DEF Busy
<1>4. Accepting'
  BY <1>0, <1>b DEF Accepting, StartupTypeOK
<1>5. Flow'
  <2> SUFFICES ASSUME NEW t \in PU, NEW r \in Role
               PROVE  done'[Other(t)][Opposite(r)] + Len(inbox'[Conn(t, r)][Opposite(r)])
                        <= done'[t][r] + Ahead(t, r)'
    BY DEF Flow
  <2>0. /\ Other(t) \in PU /\ Opposite(r) \in Role /\ Conn(t, r) \in PU
        /\ done[Other(t)][Opposite(r)] + Len(inbox[Conn(t, r)][Opposite(r)])
             <= done[t][r] + Ahead(t, r)
        /\ done[Other(t)][Opposite(r)] \in Nat
    BY Ends DEF Flow, StartupTypeOK
  <2>1. done'[t][r] + Ahead(t, r)' = done[t][r] + Ahead(t, r)
    <3>1. CASE t = s /\ r = d
      <4>1. Ahead(t, r) = 1 /\ Ahead(t, r)' = 0
        BY <3>1, <1>0, <1>b, <1>c, <1>f DEF Ahead, c, d
      <4> QED
        BY <3>1, <4>1, <1>f, <1>h
    <3>2. CASE t # s \/ r # d
      <4>1. Ahead(t, r)' = Ahead(t, r)
        BY <3>2, <1>0, <1>b DEF Ahead, StartupTypeOK, d
      <4> QED
        BY <3>2, <4>1, <1>g
    <3> QED
      BY <3>1, <3>2
  <2>2. done'[Other(t)][Opposite(r)] + Len(inbox'[Conn(t, r)][Opposite(r)])
          = done[Other(t)][Opposite(r)] + Len(inbox[Conn(t, r)][Opposite(r)])
    <3>1. CASE Other(t) = s /\ Opposite(r) = d
      <4>1. Conn(t, r) = c
        BY <3>1, Ends DEF c
      <4>2. inbox[c][d] \in Seq(Word) /\ inbox'[c][d] = Tail(inbox[c][d])
        BY <1>a, <1>b DEF StartupTypeOK, Word
      <4>3. Len(inbox'[c][d]) + 1 = Len(inbox[c][d]) /\ Len(inbox[c][d]) \in Nat
        BY <4>2, <1>b
      <4>4. Len(inbox'[c][d]) \in Nat
        BY <1>a, <1>1 DEF StartupTypeOK
      <4> QED
        <5>1. n + Len(inbox'[c][d]) = done[s][d] + Len(inbox[c][d])
          BY <4>3, <4>4, <1>h
        <5> QED
          BY <3>1, <4>1, <5>1, <1>f
    <3>2. CASE Other(t) # s \/ Opposite(r) # d
      <4>1. Opposite(r) # d \/ Conn(t, r) # c
        BY <3>2, <1>a, Ends DEF c
      <4>2. inbox'[Conn(t, r)][Opposite(r)] = inbox[Conn(t, r)][Opposite(r)]
        BY <4>1, <2>0, <1>a, <1>b DEF StartupTypeOK
      <4> QED
        BY <3>2, <4>2, <2>0, <1>g
    <3> QED
      BY <3>1, <3>2
  <2> QED
    BY <2>0, <2>1, <2>2
<1>6. Complete'
  BY <1>b, <1>c, <1>g DEF Complete
<1>7. Linked'
  <2> SUFFICES ASSUME "EP" \in Caps, failures' = {}, NEW t \in PU, NEW r \in Role,
                      done'[t][r] >= Last - 1
               PROVE  attached'[t][r]
    BY DEF Linked
  <2>1. /\ failures = {}
        /\ attached' = [attached EXCEPT ![s][d] = @ \/ Attaches(d, Exchanges[n])]
    BY <1>e
  <2>2. CASE t = s /\ r = d
    <3>1. attached'[s][d] = (attached[s][d] \/ Attaches(d, Exchanges[n]))
      BY <2>1, <1>a DEF StartupTypeOK
    <3>2. CASE n = Last - 1
      BY <3>1, <3>2, <2>2, <1>d, ExchangesShape DEF Attaches
    <3>3. CASE n = Last
      <4>1. done[s][d] >= Last - 1
        BY <3>3, <1>h, ExchangesShape
      <4> QED
        BY <3>1, <4>1, <2>1, <2>2, <1>a DEF Linked
    <3> QED
      BY <3>2, <3>3, <2>2, <1>d, <1>f, ExchangesShape
  <2>3. CASE t # s \/ r # d
    <3>1. attached'[t][r] = attached[t][r]
      BY <2>1, <2>3, <1>a DEF StartupTypeOK
    <3> QED
      BY <3>1, <2>1, <2>3, <1>g DEF Linked
  <2> QED
    BY <2>2, <2>3
<1> QED
  BY <1>1, <1>2, <1>3, <1>4, <1>5, <1>6, <1>7

\* Flow stays true while nothing is sent or received and nobody falls back.
LEMMA FlowKept ==
  ASSUME StartupInv, UNCHANGED <<done, inbox>>,
         \A t \in PU, r \in Role : Ahead(t, r) <= Ahead(t, r)'
  PROVE  Flow'
<1>1. \A i, j, k, m, n \in Nat : i + j <= k + m /\ m <= n => i + j <= k + n
  OBVIOUS
<1>2. ASSUME NEW t \in PU, NEW r \in Role
      PROVE  done[Other(t)][Opposite(r)] + Len(inbox[Conn(t, r)][Opposite(r)])
               <= done[t][r] + Ahead(t, r)'
  <2>1. done[t][r] \in Nat /\ done[Other(t)][Opposite(r)] \in Nat
    BY Ends DEF StartupInv, StartupTypeOK
  <2>2. Len(inbox[Conn(t, r)][Opposite(r)]) \in Nat
    BY Ends DEF StartupInv, StartupTypeOK
  <2>3. done[Other(t)][Opposite(r)] + Len(inbox[Conn(t, r)][Opposite(r)])
          <= done[t][r] + Ahead(t, r)
    BY DEF StartupInv, Flow
  <2>4. Ahead(t, r) \in Nat /\ Ahead(t, r)' \in Nat
    BY DEF Ahead
  <2> QED
    BY <1>1, <2>1, <2>2, <2>3, <2>4
<1> QED
  BY <1>2 DEF Flow

\* Advance leaves the other PU alone and begins the next context, if any.
LEMMA AdvanceFacts ==
  ASSUME StartupInv, NEW s \in PU, Advance(s), dpc[s] \in Before \cup During
  PROVE  /\ dpc' \in [PU -> DPc] /\ stage' \in [PU -> {1, 2}]
         /\ \A t \in PU : t # s => dpc'[t] = dpc[t] /\ Doing(t)' = Doing(t)
         /\ dpc'[s] \in {"setup", "serve"}
         /\ \A t \in PU, r \in Role :
              NotBegun(t, r)' => NotBegun(t, r) /\ (t # s \/ r # Doing(s))
<1> USE DEF StartupInv
<1>1. dpc' \in [PU -> DPc] /\ stage' \in [PU -> {1, 2}]
  BY DEF StartupTypeOK, Advance, DPc
<1>2. /\ \A t \in PU : t # s => dpc'[t] = dpc[t] /\ stage'[t] = stage[t]
      /\ dpc'[s] \in {"setup", "serve"}
  BY DEF StartupTypeOK, Advance
<1>3. \A t \in PU : t # s => Doing(t)' = Doing(t)
  BY <1>2 DEF Doing
<1>4. ASSUME NEW t \in PU, NEW r \in Role, NotBegun(t, r)'
      PROVE  NotBegun(t, r) /\ (t # s \/ r # Doing(s))
  <2>1. CASE t # s
    BY <2>1, <1>2, <1>3, <1>4 DEF NotBegun
  <2>2. CASE t = s
    <3>1. stage[s] \in {1, 2} /\ dpc[s] # "dead"
      BY DEF StartupTypeOK, Before, During
    <3>2. CASE stage[s] = 1
      <4>1. stage'[s] = 2
        BY <3>2 DEF Advance, StartupTypeOK
      <4>2. Doing(s) = Stages(s)[1] /\ Doing(s)' = Stages(s)[2]
        BY <3>2, <4>1 DEF Doing
      <4>3. r = Doing(s)'
        BY <2>2, <4>1, <1>4 DEF NotBegun
      <4> QED
        BY <2>2, <3>1, <3>2, <4>2, <4>3, StageRoles DEF NotBegun
    <3>3. CASE stage[s] = 2
      <4>1. stage'[s] = 2 /\ dpc'[s] = "serve"
        BY <3>3 DEF Advance, StartupTypeOK
      <4> QED
        BY <2>2, <4>1, <1>4 DEF NotBegun, Before
    <3> QED
      BY <3>1, <3>2, <3>3
  <2> QED
    BY <2>1, <2>2
<1> QED
  BY <1>1, <1>2, <1>3, <1>4

\* Going on to the next context, with this one made visible or given up,
\* keeps the invariant.
LEMMA LeaveStep ==
  ASSUME StartupInv, NEW s \in PU, Advance(s), dpc[s] \in Before \cup During,
         sock' \in [PU -> [Role -> {"none", "open", "closed"}]],
         \A t \in PU, r \in Role :
           t # s \/ r # Doing(s) => sock'[Conn(t, r)][r] = sock[Conn(t, r)][r],
         dpc[s] = "recv" \/ sock[Conn(s, Doing(s))][Doing(s)] = "closed" =>
           sock'[Conn(s, Doing(s))][Doing(s)] = "closed",
         listening' \in [PU -> BOOLEAN],
         ctx' \in [PU -> [Role -> BOOLEAN]],
         \A t \in PU, r \in Role : ctx'[t][r] => ctx[t][r] \/ done[t][r] = Last,
         failures \subseteq failures', failures' \subseteq PU,
         UNCHANGED <<done, attached, inbox, syscalls>>
  PROVE  StartupInv'
<1> USE DEF StartupInv
<1>0. Doing(s) \in Role
  BY DoingRole
<1>a. /\ \A t \in PU : t # s => dpc'[t] = dpc[t] /\ Doing(t)' = Doing(t) /\ Doing(t) \in Role
      /\ dpc'[s] \in {"setup", "serve"}
  BY AdvanceFacts, DoingRole
<1>1. StartupTypeOK'
  BY AdvanceFacts DEF StartupTypeOK, syscalls
<1>2. Unmet'
  <2>1. ASSUME NEW t \in PU, NEW r \in Role, NotBegun(t, r)'
        PROVE  (done[t][r] = 0 /\ sock[Conn(t, r)][r] = "none")'
    <3>1. NotBegun(t, r) /\ (t # s \/ r # Doing(s))
      BY <2>1, AdvanceFacts
    <3> QED
      BY <3>1 DEF Unmet
  <2> QED
    BY <2>1 DEF Unmet
<1>3. Busy'
  <2>1. ASSUME NEW t \in PU, dpc'[t] \in During
        PROVE  /\ t # s
               /\ sock'[Conn(t, Doing(t))][Doing(t)] = "open"
               /\ done'[t][Doing(t)] = Last <=> dpc'[t] = "publish"
    <3>1. t # s
      BY <2>1, <1>a DEF During
    <3> QED
      BY <3>1, <2>1, <1>a DEF Busy
  <2> QED
    BY <2>1, <1>a DEF Busy
<1>4. Accepting'
  BY <1>a DEF Accepting
<1>5. Flow'
  <2>1. ASSUME NEW t \in PU, NEW r \in Role
        PROVE  Ahead(t, r) <= Ahead(t, r)'
    <3>1. CASE t # s
      BY <3>1, <1>a DEF Ahead
    <3>2. CASE t = s /\ r = Doing(s)
      BY <3>2, <1>a DEF Ahead
    <3>3. CASE t = s /\ r # Doing(s)
      BY <3>3, <1>a DEF Ahead
    <3> QED
      BY <3>1, <3>2, <3>3
  <2> QED
    BY <2>1, FlowKept
<1>6. Complete' /\ Linked'
  BY DEF Complete, Linked
<1> QED
  BY <1>1, <1>2, <1>3, <1>4, <1>5, <1>6

\* The end of a globalOS keeps the invariant.
LEMMA CrashStep ==
  ASSUME StartupInv, NEW s \in PU, Crash(s), CallsTyped,
         UNCHANGED <<stage, done, ctx, attached, inbox, failures>>
  PROVE  StartupInv'
<1> USE DEF StartupInv
<1>0. \A t \in PU : Doing(t)' = Doing(t) /\ Doing(t) \in Role
  BY DoingRole DEF Doing
<1>a. \A t \in PU : IF t = s THEN dpc'[t] = "dead" ELSE dpc'[t] = dpc[t]
  BY DEF Crash, StartupTypeOK
<1>b. ASSUME NEW t \in PU, NEW r \in Role, t # s
      PROVE  sock'[Conn(t, r)][r] = sock[Conn(t, r)][r]
  <2>1. Conn(t, r) \in PU /\ Conn(t, r) # Conn(s, r)
    BY <1>b, Ends
  <2> QED
    BY <2>1 DEF Crash
<1>c. ASSUME NEW r \in Role, sock[Conn(s, r)][r] \in {"open", "closed"}
      PROVE  sock'[Conn(s, r)][r] = "closed"
  <2>1. Conn(s, r) \in PU
    BY Ends
  <2> QED
    BY <1>c, <2>1 DEF Crash
<1>1. StartupTypeOK'
  <2>1. sock' \in [PU -> [Role -> {"none", "open", "closed"}]]
    BY DEF Crash, StartupTypeOK
  <2>2. dpc' \in [PU -> DPc] /\ listening' \in [PU -> BOOLEAN]
    BY DEF Crash, StartupTypeOK, DPc
  <2> QED
    BY <2>1, <2>2 DEF StartupTypeOK, CallsTyped
<1>2. Unmet'
  <2>1. ASSUME NEW t \in PU, NEW r \in Role, NotBegun(t, r)'
        PROVE  (done[t][r] = 0 /\ sock[Conn(t, r)][r] = "none")'
    <3>1. t # s /\ NotBegun(t, r)
      BY <2>1, <1>0, <1>a DEF NotBegun
    <3> QED
      BY <3>1, <1>b DEF Unmet
  <2> QED
    BY <2>1 DEF Unmet
<1>3. Busy'
  <2>1. ASSUME NEW t \in PU, dpc'[t] \in During
        PROVE  /\ sock'[Conn(t, Doing(t))][Doing(t)] = "open"
               /\ done[t][Doing(t)] = Last <=> dpc'[t] = "publish"
    <3>1. t # s
      BY <2>1, <1>a DEF During
    <3> QED
      BY <3>1, <2>1, <1>0, <1>a, <1>b DEF Busy
  <2> QED
    BY <2>1, <1>0 DEF Busy
<1>4. Accepting'
  BY <1>0, <1>a DEF Accepting
<1>5. Flow'
  <2>1. ASSUME NEW t \in PU, NEW r \in Role
        PROVE  Ahead(t, r) <= Ahead(t, r)'
    <3>1. CASE t # s
      BY <3>1, <1>0, <1>a, <1>b DEF Ahead
    <3>2. CASE t = s
      <4>1. dpc[s] = "recv" /\ Doing(s) = r => sock[Conn(s, r)][r] = "open"
        BY DEF Busy, During
      <4> QED
        BY <3>2, <4>1, <1>c DEF Ahead
    <3> QED
      BY <3>1, <3>2
  <2> QED
    BY <2>1, FlowKept
<1>6. Complete' /\ Linked'
  BY DEF Complete, Linked
<1> QED
  BY <1>1, <1>2, <1>3, <1>4, <1>5, <1>6

-----------------------------------------------------------------------------
(* Every action is a step of one of these kinds.                           *)

\* The syscall variables are typed when they do not change.
LEMMA CallsKept ==
  ASSUME StartupInv, UNCHANGED syscalls
  PROVE  CallsTyped
BY DEF StartupInv, StartupTypeOK, CallsTyped, syscalls

\* Setup, DevTlLookup and Listen are quiet; ClientConnect and Accept open an end.
LEMMA ConnectingStep ==
  ASSUME StartupInv, NEW s \in PU,
         Setup(s) \/ DevTlLookup(s) \/ Listen(s) \/ ClientConnect(s) \/ Accept(s)
  PROVE  StartupInv'
<1>0. StartupTypeOK /\ listening \in [PU -> BOOLEAN]
  BY DEF StartupInv, StartupTypeOK
<1>1. CASE Setup(s)
  BY <1>0, <1>1, QuietStep DEF Setup, DGoto, Before, net
<1>2. CASE DevTlLookup(s)
  BY <1>0, <1>2, QuietStep DEF DevTlLookup, DGoto, Before, net
<1>3. CASE Listen(s)
  <2>1. listening' \in [PU -> BOOLEAN]
    BY <1>0, <1>3 DEF Listen
  <2> QED
    BY <2>1, <1>3, QuietStep DEF Listen, DGoto, Before
<1>4. CASE ClientConnect(s)
  <2>1. Doing(s) = "client" /\ Conn(s, "client") = Other(s)
    BY <1>4 DEF ClientConnect, Conn
  <2> QED
    BY <2>1, <1>0, <1>4, OpenStep DEF ClientConnect, DGoto, Before
<1>5. CASE Accept(s)
  <2>1. dpc[s] = "accept"
    BY <1>5 DEF Accept, DGoto
  <2>2. Doing(s) = "server" /\ Conn(s, "server") = s
    BY <2>1 DEF StartupInv, Accepting, Conn
  <2>3. listening' \in [PU -> BOOLEAN]
    BY <1>0, <1>5 DEF Accept
  <2> QED
    BY <2>1, <2>2, <2>3, <1>5, OpenStep DEF Accept, DGoto, Before
<1> QED
  BY <1>1, <1>2, <1>3, <1>4, <1>5

\* Publish makes a context visible whose exchanges are complete.
LEMMA PublishStep ==
  ASSUME StartupInv, NEW s \in PU, Publish(s)
  PROVE  StartupInv'
<1>0. Doing(s) \in Role
  BY DoingRole DEF StartupInv
<1>1. dpc[s] = "publish" /\ done[s][Doing(s)] = Last
  BY DEF Publish, StartupInv, Busy, During
<1>2. ctx' \in [PU -> [Role -> BOOLEAN]]
  BY <1>0 DEF Publish, StartupInv, StartupTypeOK
<1>3. \A t \in PU, r \in Role : ctx'[t][r] => ctx[t][r] \/ done[t][r] = Last
  BY <1>0, <1>1 DEF Publish, StartupInv, StartupTypeOK
<1>4. /\ UNCHANGED <<done, attached, inbox, syscalls, sock, listening, failures>>
      /\ Advance(s)
  BY DEF Publish, net
<1>5. sock[Conn(s, Doing(s))][Doing(s)] = "open"
  BY <1>1 DEF StartupInv, Busy, During
<1>6. /\ sock' \in [PU -> [Role -> {"none", "open", "closed"}]]
      /\ listening' \in [PU -> BOOLEAN] /\ failures' \subseteq PU
  BY <1>4 DEF StartupInv, StartupTypeOK
<1> QED
  BY <1>1, <1>2, <1>3, <1>4, <1>5, <1>6, LeaveStep DEF During

\* A context that is given up leaves its end closed or never opened.
LEMMA CleanUpStep ==
  ASSUME StartupInv, NEW s \in PU, CleanUp(s), dpc[s] \in Before \cup During,
         failures \subseteq failures', failures' \subseteq PU,
         UNCHANGED <<done, ctx, attached, inbox, syscalls>>
  PROVE  StartupInv'
<1> DEFINE d == Doing(s)
           c == Conn(s, d)
<1>0. d \in Role
  BY DoingRole DEF StartupInv
<1>1. \A t \in PU, r \in Role : Conn(t, r) \in PU
  BY Ends
<1>2. /\ sock' = IF dpc[s] = "accept" \/ sock[c][d] = "open"
                 THEN [sock EXCEPT ![c][d] = "closed"] ELSE sock
      /\ listening' = IF d = "server" THEN [listening EXCEPT ![s] = FALSE] ELSE listening
      /\ Advance(s)
  BY DEF CleanUp
<1>3. dpc[s] = "recv" => sock[c][d] = "open"
  BY DEF StartupInv, Busy, During
<1>a. sock \in [PU -> [Role -> {"none", "open", "closed"}]] /\ listening \in [PU -> BOOLEAN]
  BY DEF StartupInv, StartupTypeOK
<1> HIDE DEF d
<1>4. /\ sock' \in [PU -> [Role -> {"none", "open", "closed"}]]
      /\ listening' \in [PU -> BOOLEAN]
  BY <1>0, <1>1, <1>2, <1>a
<1>5. ASSUME NEW t \in PU, NEW r \in Role, t # s \/ r # d
      PROVE  sock'[Conn(t, r)][r] = sock[Conn(t, r)][r]
  <2>1. r # d \/ Conn(t, r) # c
    BY <1>0, <1>5, Ends
  <2> QED
    BY <2>1, <1>0, <1>1, <1>2, <1>a
<1>6. dpc[s] = "recv" \/ sock[c][d] = "closed" => sock'[c][d] = "closed"
  BY <1>0, <1>1, <1>2, <1>3, <1>a
<1>7. /\ ctx' \in [PU -> [Role -> BOOLEAN]]
      /\ \A t \in PU, r \in Role : ctx'[t][r] => ctx[t][r] \/ done[t][r] = Last
  BY DEF StartupInv, StartupTypeOK
<1> QED
  BY <1>2, <1>4, <1>5, <1>6, <1>7, LeaveStep DEF d

\* Fail and RecvEof give a context up.
LEMMA FailStep ==
  ASSUME StartupInv, NEW s \in PU, Fail(s) \/ RecvEof(s)
  PROVE  StartupInv'
<1>1. CASE Fail(s)
  <2>1. failures \subseteq failures' /\ failures' \subseteq PU
    BY <1>1 DEF Fail, StartupInv, StartupTypeOK
  <2> QED
    BY <2>1, <1>1, CleanUpStep DEF Fail, Before, During
<1>2. CASE RecvEof(s)
  <2>1. failures \subseteq failures' /\ failures' \subseteq PU
    BY <1>2 DEF RecvEof, StartupInv, StartupTypeOK
  <2> QED
    BY <2>1, <1>2, CleanUpStep DEF RecvEof, Before, During
<1> QED
  BY <1>1, <1>2

\* SendToClosed and ServeNothing end globalOS.
LEMMA EndStep ==
  ASSUME StartupInv, NEW s \in PU, SendToClosed(s) \/ ServeNothing(s)
  PROVE  StartupInv'
BY CallsKept, CrashStep DEF SendToClosed, ServeNothing

\* Serve, CallDsm and DsmReturn change the calls, or end globalOS.
LEMMA DsmCallStep ==
  ASSUME StartupInv, NEW s \in PU, Serve(s) \/ CallDsm(s) \/ DsmReturn(s)
  PROVE  StartupInv'
<1>0. StartupTypeOK /\ Other(s) \in PU
  BY Ends DEF StartupInv
<1>1. CASE Serve(s)
  <2>1. CallsTyped
    BY <1>0, <1>1 DEF Serve, StartupTypeOK, CallsTyped
  <2> QED
    BY <2>1, <1>1, CallStep DEF Serve
<1>2. CASE CallDsm(s)
  <2>1. made' \in [PU -> 0 .. StartupCalls]
    <3>1. made[s] \in 0 .. StartupCalls /\ made[s] < StartupCalls /\ StartupCalls \in Nat
      BY <1>0, <1>2, StartupAssumption DEF CallDsm, StartupTypeOK
    <3>2. made[s] + 1 \in 0 .. StartupCalls
      BY <3>1
    <3> QED
      BY <1>0, <1>2, <3>2 DEF CallDsm, StartupTypeOK
  <2>2. call' \in [PU -> {"none", "sent", "answered"}] /\ early' \subseteq PU
    BY <1>0, <1>2 DEF CallDsm, StartupTypeOK
  <2>3. CallsTyped
    BY <2>1, <2>2 DEF CallsTyped
  <2> QED
    BY <2>3, <1>2, CallStep, CrashStep DEF CallDsm
<1>3. CASE DsmReturn(s)
  <2>1. CallsTyped
    BY <1>0, <1>3 DEF DsmReturn, StartupTypeOK, CallsTyped
  <2> QED
    BY <2>1, <1>3, CallStep DEF DsmReturn
<1> QED
  BY <1>1, <1>2, <1>3

-----------------------------------------------------------------------------
(* The theorems.                                                           *)

\* The start of both globalOS satisfies the invariant.
LEMMA InvInit == StartupInit => StartupInv
<1> SUFFICES ASSUME StartupInit PROVE StartupInv
  OBVIOUS
<1>1. StartupTypeOK
  BY ExchangesShape, StartupAssumption DEF StartupInit, StartupTypeOK, DPc, Last
<1>2. Unmet
  BY Ends DEF StartupInit, Unmet
<1>3. Busy /\ Accepting
  BY DEF StartupInit, Busy, Accepting, During
<1>4. Flow
  <2>1. \A t \in PU, r \in Role : Ahead(t, r) = 0
    BY Ends DEF StartupInit, Ahead
  <2> QED
    BY <2>1, Ends DEF StartupInit, Flow
<1>5. Complete /\ Linked
  BY ExchangesShape DEF StartupInit, Complete, Linked
<1> QED
  BY <1>1, <1>2, <1>3, <1>4, <1>5 DEF StartupInv

\* Every step of molecule_prepare_dsm_ctx, run_two_way_server and dsm_call
\* keeps the invariant.
LEMMA InvNext == StartupInv /\ [StartupNext]_startupVars => StartupInv'
<1> SUFFICES ASSUME StartupInv, [StartupNext]_startupVars PROVE StartupInv'
  OBVIOUS
<1>1. CASE UNCHANGED startupVars
  BY <1>1, CallsKept, CallStep DEF startupVars, syscalls, net
<1>2. ASSUME NEW s \in PU,
             Starts(s) \/ Fail(s) \/ Serve(s) \/ CallDsm(s) \/ DsmReturn(s)
      PROVE  StartupInv'
  BY <1>2, ConnectingStep, SendStep, EndStep, RecvStep, PublishStep, FailStep, DsmCallStep
     DEF Starts
<1> QED
  BY <1>1, <1>2 DEF StartupNext

\* The ends are one exchange apart at most (from Flow in both directions).
LEMMA FlowInStep == StartupInv => InStep
<1> SUFFICES ASSUME StartupInv, NEW s \in PU
             PROVE  done[s]["client"] - done[Other(s)]["server"] \in -1 .. 1
  BY DEF InStep
<1>1. Other(s) \in PU /\ Other(Other(s)) = s /\ "client" \in Role /\ "server" \in Role
  BY Ends DEF Role
<1>2. Opposite("client") = "server" /\ Opposite("server") = "client"
  BY DEF Opposite
<1>3. done[s]["client"] \in Nat /\ done[Other(s)]["server"] \in Nat
  BY <1>1 DEF StartupInv, StartupTypeOK
<1>4. ASSUME NEW t \in PU, NEW r \in Role
      PROVE  done[Other(t)][Opposite(r)] <= done[t][r] + 1
  <2>1. \A i, j, k, m \in Nat : i + j <= k + m /\ m <= 1 => i <= k + 1
    OBVIOUS
  <2>2. done[t][r] \in Nat /\ done[Other(t)][Opposite(r)] \in Nat
    BY Ends DEF StartupInv, StartupTypeOK
  <2>3. Len(inbox[Conn(t, r)][Opposite(r)]) \in Nat
    BY Ends DEF StartupInv, StartupTypeOK
  <2>4. done[Other(t)][Opposite(r)] + Len(inbox[Conn(t, r)][Opposite(r)])
          <= done[t][r] + Ahead(t, r)
    BY DEF StartupInv, Flow
  <2>5. Ahead(t, r) \in Nat /\ Ahead(t, r) <= 1
    BY DEF Ahead
  <2> QED
    BY <2>1, <2>2, <2>3, <2>4, <2>5
<1>5. done[Other(s)]["server"] <= done[s]["client"] + 1
  BY <1>1, <1>2, <1>4
<1>6. done[s]["client"] <= done[Other(s)]["server"] + 1
  BY <1>1, <1>2, <1>4
<1> QED
  BY <1>3, <1>5, <1>6

\* A context is visible after its barrier, which the other end reaches only
\* with the endpoint address; so both ends are attached.
LEMMA BarrierAttached == StartupInv /\ InStep => AttachedFirst
<1> SUFFICES ASSUME StartupInv, InStep, "EP" \in Caps, failures = {},
                    NEW s \in PU, NEW r \in Role, ctx[s][r]
             PROVE  attached[s][r] /\ attached[Other(s)][Opposite(r)]
  BY DEF AttachedFirst
<1>1. Other(s) \in PU /\ Other(Other(s)) = s /\ Opposite(r) \in Role
  BY Ends
<1>2. done[s][r] = Last
  BY DEF StartupInv, Complete
<1>3. done[s][r] \in Nat /\ done[Other(s)][Opposite(r)] \in Nat
  BY <1>1 DEF StartupInv, StartupTypeOK
<1>4. done[Other(s)][Opposite(r)] >= Last - 1
  <2>1. CASE r = "client"
    <3>1. Opposite(r) = "server"
      BY <2>1 DEF Opposite
    <3>2. done[s]["client"] - done[Other(s)]["server"] \in -1 .. 1
      BY DEF InStep
    <3> QED
      BY <2>1, <3>1, <3>2, <1>2, <1>3
  <2>2. CASE r = "server"
    <3>1. Opposite(r) = "client"
      BY <2>2 DEF Opposite
    <3>2. done[Other(s)]["client"] - done[s]["server"] \in -1 .. 1
      BY <1>1 DEF InStep
    <3> QED
      BY <2>2, <3>1, <3>2, <1>2, <1>3
  <2> QED
    BY <2>1, <2>2 DEF Role
<1>5. done[s][r] >= Last - 1
  BY <1>2, ExchangesShape
<1> QED
  BY <1>1, <1>4, <1>5 DEF StartupInv, Linked

\* The variables of the start-up keep their types.
THEOREM StartupTypeCorrect == StartupSpec => []StartupTypeOK
<1>1. StartupInv => StartupTypeOK
  BY DEF StartupInv
<1> QED
  BY <1>1, InvInit, InvNext, PTL DEF StartupSpec

\* The two sides of a connection are never more than one exchange apart,
\* whichever calls fail on either PU and whenever a globalOS ends
\* (sendrecv and barrier of molecule_prepare_dsm_ctx).
THEOREM ExchangesInStep == StartupSpec => []InStep
BY InvInit, InvNext, FlowInStep, PTL DEF StartupSpec

\* With endpoints, no context is visible to dsm_call or run_two_way_server
\* before both ends are attached, unless a call has failed.
THEOREM BarrierWorks == StartupSpec => []AttachedFirst
BY InvInit, InvNext, FlowInStep, BarrierAttached, PTL DEF StartupSpec

-----------------------------------------------------------------------------
(* The channel: one call at a time, and one message.                       *)

\* No message for side d is on the wire or in its holder.
Quiet(d) == wire[d] = <<>> /\ holder[d] \in {Null, DeadBeef}

\* Message k for side d is on the wire, or in its holder, or lost.
InFlight(d, k) == \/ wire[d] = <<k>> /\ holder[d] \in {Null, DeadBeef}
                  \/ wire[d] = <<>> /\ holder[d] \in {k, Null, DeadBeef}

Waiting == {"sent", "wait", "recv", "fault"}

\* The five phases of a call, from one to the next.
Idle == /\ pc["client"] = "out" /\ pc["server"] \in Waiting
        /\ buf["client"] = calls /\ buf["server"] = calls
        /\ Quiet("client") /\ Quiet("server")
Sending == /\ pc["client"] \in {"post", "retry"} /\ pc["server"] \in Waiting
           /\ buf["client"] = calls - 1 /\ buf["server"] = calls - 1
           /\ Quiet("client") /\ Quiet("server")
Requesting == /\ pc["client"] \in Waiting /\ pc["server"] \in Waiting
              /\ buf["client"] = calls - 1 /\ buf["server"] = calls - 1
              /\ Quiet("client") /\ InFlight("server", calls)
Handling == /\ pc["client"] \in Waiting /\ pc["server"] \in {"handle", "post", "retry"}
            /\ buf["client"] = calls - 1 /\ buf["server"] = calls
            /\ Quiet("client") /\ Quiet("server")
Responding == /\ pc["client"] \in Waiting /\ pc["server"] \in Waiting
              /\ buf["client"] = calls - 1 /\ buf["server"] = calls
              /\ InFlight("client", calls) /\ Quiet("server")

Phases == Idle \/ Sending \/ Requesting \/ Handling \/ Responding

\* The inductive invariant: a call is in one of its phases, and at most one
\* message is under way.
ChannelInv == TypeOK /\ Phases

-----------------------------------------------------------------------------
\* The two sides.
LEMMA Sides == /\ Side = {"client", "server"}
               /\ Peer("client") = "server" /\ Peer("server") = "client"
BY DEF Side, Peer

\* dsm_call: a call of the link.
LEMMA DsmCallLink ==
  ASSUME ChannelInv, DsmCall
  PROVE  ChannelInv' /\ [DL!LinkNext]_(DL!linkVars)
<1> USE Sides DEF ChannelInv, DsmCall, Goto, Null, DeadBeef, Waiting, Quiet, InFlight,
       Link, Taken, DL!linkVars
<1>1. TypeOK'
  BY ChannelAssumption DEF TypeOK, Pc
<1>2. CASE Idle
  <2>1. Phases'
    BY <1>2 DEF TypeOK, Phases, Idle, Sending, Requesting, Handling, Responding
  <2>2. [DL!LinkNext]_(DL!linkVars)
    BY <1>2 DEF TypeOK, Idle, DL!LinkNext, DL!Call
  <2> QED BY <1>1, <2>1, <2>2
<1>3. CASE Sending
  <2>1. Phases'
    BY <1>3 DEF TypeOK, Phases, Idle, Sending, Requesting, Handling, Responding
  <2>2. [DL!LinkNext]_(DL!linkVars)
    BY <1>3 DEF TypeOK, Sending
  <2> QED BY <1>1, <2>1, <2>2
<1>4. CASE Requesting
  <2>1. Phases'
    BY <1>4 DEF TypeOK, Phases, Idle, Sending, Requesting, Handling, Responding
  <2>2. [DL!LinkNext]_(DL!linkVars)
    BY <1>4 DEF TypeOK, Requesting
  <2> QED BY <1>1, <2>1, <2>2
<1>5. CASE Handling
  <2>1. Phases'
    BY <1>5 DEF TypeOK, Phases, Idle, Sending, Requesting, Handling, Responding
  <2>2. [DL!LinkNext]_(DL!linkVars)
    BY <1>5 DEF TypeOK, Handling
  <2> QED BY <1>1, <2>1, <2>2
<1>6. CASE Responding
  <2>1. Phases'
    BY <1>6 DEF TypeOK, Phases, Idle, Sending, Requesting, Handling, Responding
  <2>2. [DL!LinkNext]_(DL!linkVars)
    BY <1>6 DEF TypeOK, Responding
  <2> QED BY <1>1, <2>1, <2>2
<1> QED BY <1>2, <1>3, <1>4, <1>5, <1>6 DEF Phases

\* The handler's return is no step of the link.
LEMMA HandledLink ==
  ASSUME ChannelInv, Handled
  PROVE  ChannelInv' /\ [DL!LinkNext]_(DL!linkVars)
<1> USE Sides DEF ChannelInv, Handled, Goto, Null, DeadBeef, Waiting, Quiet, InFlight,
       Link, Taken, DL!linkVars
<1>1. TypeOK'
  BY DEF TypeOK, Pc
<1>2. CASE Idle
  <2>1. Phases'
    BY <1>2 DEF TypeOK, Phases, Idle, Sending, Requesting, Handling, Responding
  <2>2. [DL!LinkNext]_(DL!linkVars)
    BY <1>2 DEF TypeOK, Idle
  <2> QED BY <1>1, <2>1, <2>2
<1>3. CASE Sending
  <2>1. Phases'
    BY <1>3 DEF TypeOK, Phases, Idle, Sending, Requesting, Handling, Responding
  <2>2. [DL!LinkNext]_(DL!linkVars)
    BY <1>3 DEF TypeOK, Sending
  <2> QED BY <1>1, <2>1, <2>2
<1>4. CASE Requesting
  <2>1. Phases'
    BY <1>4 DEF TypeOK, Phases, Idle, Sending, Requesting, Handling, Responding
  <2>2. [DL!LinkNext]_(DL!linkVars)
    BY <1>4 DEF TypeOK, Requesting
  <2> QED BY <1>1, <2>1, <2>2
<1>5. CASE Handling
  <2>1. Phases'
    BY <1>5 DEF TypeOK, Phases, Idle, Sending, Requesting, Handling, Responding
  <2>2. [DL!LinkNext]_(DL!linkVars)
    BY <1>5 DEF TypeOK, Handling
  <2> QED BY <1>1, <2>1, <2>2
<1>6. CASE Responding
  <2>1. Phases'
    BY <1>6 DEF TypeOK, Phases, Idle, Sending, Requesting, Handling, Responding
  <2>2. [DL!LinkNext]_(DL!linkVars)
    BY <1>6 DEF TypeOK, Responding
  <2> QED BY <1>1, <2>1, <2>2
<1> QED BY <1>2, <1>3, <1>4, <1>5, <1>6 DEF Phases

\* A post by the server is the link's answer, one by the client no step of it.
LEMMA PostLink ==
  ASSUME ChannelInv, NEW d \in Side, Post(d)
  PROVE  ChannelInv' /\ [DL!LinkNext]_(DL!linkVars)
<1> USE Sides DEF ChannelInv, Post, Posted, Outgoing, Goto, Null, DeadBeef, Waiting, Quiet, InFlight,
       Link, Taken, DL!linkVars
<1>0. PICK status \in Statuses :
        /\ Posted(d, status)
        /\ comps' = [comps EXCEPT ![d] = IF status = "INPROGRESS" THEN @ + 1 ELSE @]
        /\ Goto(d, IF status = "NO_RESOURCE" THEN "retry"
                   ELSE IF status = "INPROGRESS" THEN "wait" ELSE "sent")
  BY DEF Goto
<1>1. TypeOK'
  <2>1. Outgoing(d) \in 1 .. MaxCalls
    BY ChannelAssumption DEF TypeOK, Phases, Idle, Sending, Requesting, Handling,
       Responding
  <2> HIDE DEF Outgoing, Post
  <2>2. wire' \in [Side -> Seq(1 .. MaxCalls)]
    BY <1>0, <2>1 DEF TypeOK
  <2>3. comps' \in [Side -> Nat] /\ pc' \in [Side -> Pc]
    BY <1>0 DEF TypeOK, Pc
  <2> QED BY <2>2, <2>3 DEF TypeOK, Post
<1>2. CASE Idle
  <2>1. Phases'
    BY <1>2 DEF TypeOK, Phases, Idle, Sending, Requesting, Handling, Responding
  <2>2. [DL!LinkNext]_(DL!linkVars)
    BY <1>2 DEF TypeOK, Idle
  <2> QED BY <1>1, <2>1, <2>2
<1>3. CASE Sending
  <2>1. Phases'
    <3>1. d = "client" /\ wire = [wire EXCEPT !["server"] = <<>>]
      BY <1>3 DEF TypeOK, Sending
    <3>2. CASE status \in {"OK", "INPROGRESS"}
      <4>1. wire' = [wire EXCEPT !["server"] = <<calls>>]
        <5>1. wire["server"] = <<>> /\ Outgoing(d) = calls
          BY <1>3, <3>1 DEF TypeOK, Sending
        <5>2. Append(<<>>, calls) = <<calls>>
          OBVIOUS
        <5>3. wire' = [wire EXCEPT !["server"] = Append(wire["server"], Outgoing(d))]
          BY <1>0, <3>1, <3>2 DEF TypeOK
        <5> HIDE DEF Outgoing
        <5> QED BY <5>1, <5>2, <5>3
      <4>2. Requesting'
        BY <1>0, <1>3, <3>1, <3>2, <4>1 DEF TypeOK, Sending, Requesting
      <4> QED BY <4>2 DEF Phases
    <3>3. CASE status \notin {"OK", "INPROGRESS"}
      BY <1>0, <1>3, <3>1, <3>3 DEF TypeOK, Phases, Sending, Requesting
    <3> QED BY <3>2, <3>3
  <2>2. [DL!LinkNext]_(DL!linkVars)
    BY <1>3 DEF TypeOK, Sending
  <2> QED BY <1>1, <2>1, <2>2
<1>4. CASE Requesting
  <2>1. Phases'
    BY <1>4 DEF TypeOK, Phases, Idle, Sending, Requesting, Handling, Responding
  <2>2. [DL!LinkNext]_(DL!linkVars)
    BY <1>4 DEF TypeOK, Requesting
  <2> QED BY <1>1, <2>1, <2>2
<1>5. CASE Handling
  <2>1. Phases'
    <3>1. d = "server" /\ wire = [wire EXCEPT !["client"] = <<>>]
      BY <1>5 DEF TypeOK, Handling
    <3>2. CASE status \in {"OK", "INPROGRESS"}
      <4>1. wire' = [wire EXCEPT !["client"] = <<calls>>]
        <5>1. wire["client"] = <<>> /\ Outgoing(d) = calls
          BY <1>5, <3>1 DEF TypeOK, Handling
        <5>2. Append(<<>>, calls) = <<calls>>
          OBVIOUS
        <5>3. wire' = [wire EXCEPT !["client"] = Append(wire["client"], Outgoing(d))]
          BY <1>0, <3>1, <3>2 DEF TypeOK
        <5> HIDE DEF Outgoing
        <5> QED BY <5>1, <5>2, <5>3
      <4>2. Responding'
        BY <1>0, <1>5, <3>1, <3>2, <4>1 DEF TypeOK, Handling, Responding
      <4> QED BY <4>2 DEF Phases
    <3>3. CASE status \notin {"OK", "INPROGRESS"}
      BY <1>0, <1>5, <3>1, <3>3 DEF TypeOK, Phases, Handling, Responding
    <3> QED BY <3>2, <3>3
  <2>2. [DL!LinkNext]_(DL!linkVars)
    BY <1>5 DEF TypeOK, Handling, DL!LinkNext, DL!Answer
  <2> QED BY <1>1, <2>1, <2>2
<1>6. CASE Responding
  <2>1. Phases'
    BY <1>6 DEF TypeOK, Phases, Idle, Sending, Requesting, Handling, Responding
  <2>2. [DL!LinkNext]_(DL!linkVars)
    BY <1>6 DEF TypeOK, Responding
  <2> QED BY <1>1, <2>1, <2>2
<1> QED BY <1>2, <1>3, <1>4, <1>5, <1>6 DEF Phases

\* A retry is no step of the link.
LEMMA RetryLink ==
  ASSUME ChannelInv, NEW d \in Side, Retry(d)
  PROVE  ChannelInv' /\ [DL!LinkNext]_(DL!linkVars)
<1> USE Sides DEF ChannelInv, Retry, Goto, Null, DeadBeef, Waiting, Quiet, InFlight,
       Link, Taken, DL!linkVars
<1>1. TypeOK'
  BY DEF TypeOK, Pc
<1>2. CASE Idle
  <2>1. Phases'
    BY <1>2 DEF TypeOK, Phases, Idle, Sending, Requesting, Handling, Responding
  <2>2. [DL!LinkNext]_(DL!linkVars)
    BY <1>2 DEF TypeOK, Idle
  <2> QED BY <1>1, <2>1, <2>2
<1>3. CASE Sending
  <2>1. Phases'
    BY <1>3 DEF TypeOK, Phases, Idle, Sending, Requesting, Handling, Responding
  <2>2. [DL!LinkNext]_(DL!linkVars)
    BY <1>3 DEF TypeOK, Sending
  <2> QED BY <1>1, <2>1, <2>2
<1>4. CASE Requesting
  <2>1. Phases'
    BY <1>4 DEF TypeOK, Phases, Idle, Sending, Requesting, Handling, Responding
  <2>2. [DL!LinkNext]_(DL!linkVars)
    BY <1>4 DEF TypeOK, Requesting
  <2> QED BY <1>1, <2>1, <2>2
<1>5. CASE Handling
  <2>1. Phases'
    BY <1>5 DEF TypeOK, Phases, Idle, Sending, Requesting, Handling, Responding
  <2>2. [DL!LinkNext]_(DL!linkVars)
    BY <1>5 DEF TypeOK, Handling
  <2> QED BY <1>1, <2>1, <2>2
<1>6. CASE Responding
  <2>1. Phases'
    BY <1>6 DEF TypeOK, Phases, Idle, Sending, Requesting, Handling, Responding
  <2>2. [DL!LinkNext]_(DL!linkVars)
    BY <1>6 DEF TypeOK, Responding
  <2> QED BY <1>1, <2>1, <2>2
<1> QED BY <1>2, <1>3, <1>4, <1>5, <1>6 DEF Phases

\* A completion is no step of the link, whatever it overwrites.
LEMMA CompletedLink ==
  ASSUME ChannelInv, NEW d \in Side, Completed(d)
  PROVE  ChannelInv' /\ [DL!LinkNext]_(DL!linkVars)
<1> USE Sides DEF ChannelInv, Completed, Goto, Null, DeadBeef, Waiting, Quiet, InFlight,
       Link, Taken, DL!linkVars
<1>1. TypeOK'
  BY DEF TypeOK, Pc
<1>2. CASE Idle
  <2>1. Phases'
    BY <1>2 DEF TypeOK, Phases, Idle, Sending, Requesting, Handling, Responding
  <2>2. [DL!LinkNext]_(DL!linkVars)
    BY <1>2 DEF TypeOK, Idle
  <2> QED BY <1>1, <2>1, <2>2
<1>3. CASE Sending
  <2>1. Phases'
    BY <1>3 DEF TypeOK, Phases, Idle, Sending, Requesting, Handling, Responding
  <2>2. [DL!LinkNext]_(DL!linkVars)
    BY <1>3 DEF TypeOK, Sending
  <2> QED BY <1>1, <2>1, <2>2
<1>4. CASE Requesting
  <2>1. Phases'
    BY <1>4 DEF TypeOK, Phases, Idle, Sending, Requesting, Handling, Responding
  <2>2. [DL!LinkNext]_(DL!linkVars)
    BY <1>4 DEF TypeOK, Requesting
  <2> QED BY <1>1, <2>1, <2>2
<1>5. CASE Handling
  <2>1. Phases'
    BY <1>5 DEF TypeOK, Phases, Idle, Sending, Requesting, Handling, Responding
  <2>2. [DL!LinkNext]_(DL!linkVars)
    BY <1>5 DEF TypeOK, Handling
  <2> QED BY <1>1, <2>1, <2>2
<1>6. CASE Responding
  <2>1. Phases'
    BY <1>6 DEF TypeOK, Phases, Idle, Sending, Requesting, Handling, Responding
  <2>2. [DL!LinkNext]_(DL!linkVars)
    BY <1>6 DEF TypeOK, Responding
  <2> QED BY <1>1, <2>1, <2>2
<1> QED BY <1>2, <1>3, <1>4, <1>5, <1>6 DEF Phases

\* An arrival is no step of the link.
LEMMA ArrivedLink ==
  ASSUME ChannelInv, NEW d \in Side, Arrived(d)
  PROVE  ChannelInv' /\ [DL!LinkNext]_(DL!linkVars)
<1> USE Sides DEF ChannelInv, Arrived, Goto, Null, DeadBeef, Waiting, Quiet, InFlight,
       Link, Taken, DL!linkVars
<1>1. TypeOK'
  <2>1. /\ Head(wire[d]) \in 1 .. MaxCalls
        /\ Tail(wire[d]) \in Seq(1 .. MaxCalls)
    <3>1. wire[d] \in Seq(1 .. MaxCalls) /\ wire[d] # <<>>
      BY DEF TypeOK
    <3>2. ASSUME NEW S, NEW q \in Seq(S), q # <<>>
          PROVE  Head(q) \in S /\ Tail(q) \in Seq(S)
      BY <3>2
    <3> QED BY <3>1, <3>2
  <2> QED BY <2>1 DEF TypeOK
<1>2. CASE Idle
  <2>1. Phases'
    BY <1>2 DEF TypeOK, Phases, Idle, Sending, Requesting, Handling, Responding
  <2>2. [DL!LinkNext]_(DL!linkVars)
    BY <1>2 DEF TypeOK, Idle
  <2> QED BY <1>1, <2>1, <2>2
<1>3. CASE Sending
  <2>1. Phases'
    BY <1>3 DEF TypeOK, Phases, Idle, Sending, Requesting, Handling, Responding
  <2>2. [DL!LinkNext]_(DL!linkVars)
    BY <1>3 DEF TypeOK, Sending
  <2> QED BY <1>1, <2>1, <2>2
<1>4. CASE Requesting
  <2>1. Phases'
    BY <1>4 DEF TypeOK, Phases, Idle, Sending, Requesting, Handling, Responding
  <2>2. [DL!LinkNext]_(DL!linkVars)
    BY <1>4 DEF TypeOK, Requesting
  <2> QED BY <1>1, <2>1, <2>2
<1>5. CASE Handling
  <2>1. Phases'
    BY <1>5 DEF TypeOK, Phases, Idle, Sending, Requesting, Handling, Responding
  <2>2. [DL!LinkNext]_(DL!linkVars)
    BY <1>5 DEF TypeOK, Handling
  <2> QED BY <1>1, <2>1, <2>2
<1>6. CASE Responding
  <2>1. Phases'
    <3>1. d = "client" /\ wire["client"] = <<calls>>
      BY <1>6 DEF Responding
    <3>2. wire'["client"] = <<>> /\ holder'["client"] = calls
      BY <3>1 DEF TypeOK
    <3>3. Responding'
      BY <1>6, <3>1, <3>2 DEF TypeOK, Responding
    <3> QED BY <3>3 DEF Phases
  <2>2. [DL!LinkNext]_(DL!linkVars)
    BY <1>6 DEF TypeOK, Responding
  <2> QED BY <1>1, <2>1, <2>2
<1> QED BY <1>2, <1>3, <1>4, <1>5, <1>6 DEF Phases

\* The end of a send is no step of the link, even if it drops a message.
LEMMA SendDoneLink ==
  ASSUME ChannelInv, NEW d \in Side, SendDone(d)
  PROVE  ChannelInv' /\ [DL!LinkNext]_(DL!linkVars)
<1> USE Sides DEF ChannelInv, SendDone, Goto, Null, DeadBeef, Waiting, Quiet, InFlight,
       Link, Taken, DL!linkVars
<1>1. TypeOK'
  BY DEF TypeOK, Pc
<1>2. CASE Idle
  <2>1. Phases'
    BY <1>2 DEF TypeOK, Phases, Idle, Sending, Requesting, Handling, Responding
  <2>2. [DL!LinkNext]_(DL!linkVars)
    BY <1>2 DEF TypeOK, Idle
  <2> QED BY <1>1, <2>1, <2>2
<1>3. CASE Sending
  <2>1. Phases'
    BY <1>3 DEF TypeOK, Phases, Idle, Sending, Requesting, Handling, Responding
  <2>2. [DL!LinkNext]_(DL!linkVars)
    BY <1>3 DEF TypeOK, Sending
  <2> QED BY <1>1, <2>1, <2>2
<1>4. CASE Requesting
  <2>1. Phases'
    BY <1>4 DEF TypeOK, Phases, Idle, Sending, Requesting, Handling, Responding
  <2>2. [DL!LinkNext]_(DL!linkVars)
    BY <1>4 DEF TypeOK, Requesting
  <2> QED BY <1>1, <2>1, <2>2
<1>5. CASE Handling
  <2>1. Phases'
    BY <1>5 DEF TypeOK, Phases, Idle, Sending, Requesting, Handling, Responding
  <2>2. [DL!LinkNext]_(DL!linkVars)
    BY <1>5 DEF TypeOK, Handling
  <2> QED BY <1>1, <2>1, <2>2
<1>6. CASE Responding
  <2>1. Phases'
    BY <1>6 DEF TypeOK, Phases, Idle, Sending, Requesting, Handling, Responding
  <2>2. [DL!LinkNext]_(DL!linkVars)
    BY <1>6 DEF TypeOK, Responding
  <2> QED BY <1>1, <2>1, <2>2
<1> QED BY <1>2, <1>3, <1>4, <1>5, <1>6 DEF Phases

\* The server takes a request, the client returns with its answer.
LEMMA RecvMsgLink ==
  ASSUME ChannelInv, NEW d \in Side, RecvMsg(d)
  PROVE  ChannelInv' /\ [DL!LinkNext]_(DL!linkVars)
<1> USE Sides DEF ChannelInv, RecvMsg, Goto, Null, DeadBeef, Waiting, Quiet, InFlight,
       Link, Taken, DL!linkVars
<1>1. TypeOK'
  BY DEF TypeOK, Pc
<1>2. CASE Idle
  <2>1. Phases'
    BY <1>2 DEF TypeOK, Phases, Idle, Sending, Requesting, Handling, Responding
  <2>2. [DL!LinkNext]_(DL!linkVars)
    BY <1>2 DEF TypeOK, Idle
  <2> QED BY <1>1, <2>1, <2>2
<1>3. CASE Sending
  <2>1. Phases'
    BY <1>3 DEF TypeOK, Phases, Idle, Sending, Requesting, Handling, Responding
  <2>2. [DL!LinkNext]_(DL!linkVars)
    BY <1>3 DEF TypeOK, Sending
  <2> QED BY <1>1, <2>1, <2>2
<1>4. CASE Requesting
  <2>1. Phases'
    BY <1>4 DEF TypeOK, Phases, Idle, Sending, Requesting, Handling, Responding
  <2>2. [DL!LinkNext]_(DL!linkVars)
    BY <1>4 DEF TypeOK, Requesting, DL!LinkNext, DL!Take
  <2> QED BY <1>1, <2>1, <2>2
<1>5. CASE Handling
  <2>1. Phases'
    BY <1>5 DEF TypeOK, Phases, Idle, Sending, Requesting, Handling, Responding
  <2>2. [DL!LinkNext]_(DL!linkVars)
    BY <1>5 DEF TypeOK, Handling
  <2> QED BY <1>1, <2>1, <2>2
<1>6. CASE Responding
  <2>1. Phases'
    BY <1>6 DEF TypeOK, Phases, Idle, Sending, Requesting, Handling, Responding
  <2>2. [DL!LinkNext]_(DL!linkVars)
    BY <1>6 DEF TypeOK, Responding, DL!LinkNext, DL!Return
  <2> QED BY <1>1, <2>1, <2>2
<1> QED BY <1>2, <1>3, <1>4, <1>5, <1>6 DEF Phases

\* A fault is no step of the link.
LEMMA RecvFaultLink ==
  ASSUME ChannelInv, NEW d \in Side, RecvFault(d)
  PROVE  ChannelInv' /\ [DL!LinkNext]_(DL!linkVars)
<1> USE Sides DEF ChannelInv, RecvFault, Goto, Null, DeadBeef, Waiting, Quiet, InFlight,
       Link, Taken, DL!linkVars
<1>1. TypeOK'
  BY DEF TypeOK, Pc
<1>2. CASE Idle
  <2>1. Phases'
    BY <1>2 DEF TypeOK, Phases, Idle, Sending, Requesting, Handling, Responding
  <2>2. [DL!LinkNext]_(DL!linkVars)
    BY <1>2 DEF TypeOK, Idle
  <2> QED BY <1>1, <2>1, <2>2
<1>3. CASE Sending
  <2>1. Phases'
    BY <1>3 DEF TypeOK, Phases, Idle, Sending, Requesting, Handling, Responding
  <2>2. [DL!LinkNext]_(DL!linkVars)
    BY <1>3 DEF TypeOK, Sending
  <2> QED BY <1>1, <2>1, <2>2
<1>4. CASE Requesting
  <2>1. Phases'
    BY <1>4 DEF TypeOK, Phases, Idle, Sending, Requesting, Handling, Responding
  <2>2. [DL!LinkNext]_(DL!linkVars)
    BY <1>4 DEF TypeOK, Requesting
  <2> QED BY <1>1, <2>1, <2>2
<1>5. CASE Handling
  <2>1. Phases'
    BY <1>5 DEF TypeOK, Phases, Idle, Sending, Requesting, Handling, Responding
  <2>2. [DL!LinkNext]_(DL!linkVars)
    BY <1>5 DEF TypeOK, Handling
  <2> QED BY <1>1, <2>1, <2>2
<1>6. CASE Responding
  <2>1. Phases'
    BY <1>6 DEF TypeOK, Phases, Idle, Sending, Requesting, Handling, Responding
  <2>2. [DL!LinkNext]_(DL!linkVars)
    BY <1>6 DEF TypeOK, Responding
  <2> QED BY <1>1, <2>1, <2>2
<1> QED BY <1>2, <1>3, <1>4, <1>5, <1>6 DEF Phases

\* Every step of the channel keeps the invariant and is a step of the link.
LEMMA ChannelStep ==
  ASSUME ChannelInv, [Next]_vars
  PROVE  ChannelInv' /\ [DL!LinkNext]_(DL!linkVars)
<1>1. CASE UNCHANGED vars
  BY <1>1 DEF ChannelInv, vars, TypeOK, Phases, Idle, Sending, Requesting, Handling,
     Responding, Quiet, InFlight, DL!linkVars, Link, Taken
<1>2. CASE Next
  BY <1>2, DsmCallLink, HandledLink, PostLink, RetryLink, CompletedLink, ArrivedLink,
     SendDoneLink, RecvMsgLink, RecvFaultLink DEF Next, Steps
<1> QED BY <1>1, <1>2

\* Initially nothing is under way.
LEMMA ChannelInit == ASSUME Init PROVE ChannelInv /\ DL!LinkInit
<1>1. upset \in BOOLEAN
  BY Zenon DEF Init
<1>2. TypeOK
  BY <1>1, ChannelAssumption, Sides DEF Init, TypeOK, Pc, Null, DeadBeef
<1>3. Idle
  BY Sides DEF Init, Idle, Waiting, Quiet, Null, DeadBeef
<1>4. DL!LinkInit
  BY DEF Init, DL!LinkInit, Link, Side
<1> QED BY <1>2, <1>3, <1>4 DEF ChannelInv, Phases

\* The refinement: whatever the transport returns and in whatever order its
\* callbacks run, a dsm_call that returns has been taken once by the other PU
\* and returns with the answer to this call; what can go wrong is that it
\* does not return.
THEOREM ChannelImplementsLink == Spec => ImplementsLink
<1>1. Init => ChannelInv /\ DL!LinkInit
  BY ChannelInit
<1>2. ChannelInv /\ [Next]_vars => ChannelInv' /\ [DL!LinkNext]_(DL!linkVars)
  BY ChannelStep
<1> QED BY <1>1, <1>2, PTL DEF Spec, ImplementsLink, DL!LinkSpec

-----------------------------------------------------------------------------
(***************************************************************************)
(* The UCP version: what a client and the server of the other PU say to    *)
(* each other, from the exchange of addresses to the last dsm_call,        *)
(* whatever operations fail.                                               *)
(*                                                                         *)
(* Link q is the client of PU q with the server of the other PU.  The two  *)
(* links meet only in local_addr and peer_addr, so that the invariant is   *)
(* about one link at a time, as long as crossed is FALSE.                  *)
(***************************************************************************)
Cl(q) == <<q, "client">>
Sv(q) == <<Far(q), "server">>

Address == UcpThread \cup {NoWorker, Dangling}
Message == [kind : {"addr", "hello", "call", "resp"}, w : Address, n : Nat]

PcTypes ==
  /\ upc \in [UcpThread -> ClientPc \cup ServerPc \cup {"failed"}]
  /\ \A q \in UcpPU : /\ upc[Cl(q)] \in ClientPc \cup {"failed"}
                      /\ upc[Sv(q)] \in ServerPc \cup {"failed"}

SetupTypes ==
  /\ laddr \in [UcpPU -> Address] /\ paddr \in [UcpPU -> Address]
  /\ stored \in [UcpThread -> Address] /\ uep \in [UcpThread -> Address]
  /\ tcp \in [UcpPU -> [state : {"none", "listening", "connected"}, addr : Address]]
  /\ globals \in [UcpPU -> 0 .. 2]

CallTypes ==
  /\ tagged \in [UcpThread -> Seq(Message)]
  /\ ucall \in [UcpPU -> BOOLEAN]
  /\ usent \in [UcpPU -> 0 .. MaxUcpCalls] /\ ureq \in [UcpPU -> Nat]
  /\ ran \in [UcpPU -> Seq(Nat)] /\ rets \in [UcpPU -> Seq(Nat)]

UcpTypes == PcTypes /\ SetupTypes /\ CallTypes

\* The globals are set by the last two steps of the client.
GlobalsSet(q) == globals[q] = CASE upc[Cl(q)] = "publish2" -> 1
                                [] upc[Cl(q)] = "asleep"   -> 2
                                [] OTHER                   -> 0

\* Each end gets the address of the other and makes its endpoint with it.
Addressed(q) ==
  /\ tcp[Far(q)].addr \in {NoWorker, Sv(q)}
  /\ upc[Cl(q)] = "endpoint" => stored[Cl(q)] = Sv(q)
  /\ upc[Sv(q)] = "endpoint" => stored[Sv(q)] = Cl(q)
  /\ uep[Cl(q)] \in {NoWorker, Sv(q)} /\ uep[Sv(q)] \in {NoWorker, Cl(q)}
  /\ upc[Cl(q)] \in {"introduce", "hello", "publish", "publish2", "asleep"} => uep[Cl(q)] = Sv(q)
  /\ upc[Sv(q)] \in {"hello", "serve", "handle", "answer"} => uep[Sv(q)] = Cl(q)

\* Nothing is on its way, or one message to one end.
QuietLink(q) == tagged[Cl(q)] = <<>> /\ tagged[Sv(q)] = <<>>
ToServer(q, m) == tagged[Cl(q)] = <<>> /\ tagged[Sv(q)] = <<m>>
ToClient(q, m) == tagged[Cl(q)] = <<m>> /\ tagged[Sv(q)] = <<>>

Unserved == ServerPc \ {"endpoint", "hello", "serve", "handle", "answer"}

\* The start-up is a conversation: the client introduces itself, the server
\* greets it.  A thread that has failed says nothing more.
StartedUp(q) ==
  /\ upc[Cl(q)] \in {"worker", "connect", "address", "endpoint", "introduce"} =>
       QuietLink(q) /\ upc[Sv(q)] \in Unserved \cup {"failed"}
  /\ upc[Cl(q)] \in {"hello", "failed"} =>
       \/ upc[Sv(q)] \in Unserved \cup {"failed"} /\ ToServer(q, UMsg("addr", Cl(q), 0))
       \/ upc[Sv(q)] \in Unserved \cup {"endpoint", "hello", "failed"} /\ QuietLink(q)
       \/ upc[Sv(q)] = "serve" /\ ToClient(q, UMsg("hello", NoWorker, 0))
  /\ upc[Cl(q)] \in {"publish", "publish2"} => QuietLink(q) /\ upc[Sv(q)] = "serve"
  /\ upc[Cl(q)] # "asleep" =>
       /\ ~ucall[q] /\ usent[q] = 0
       /\ ran[Far(q)] = <<>> /\ rets[q] = <<>> /\ ureq[Far(q)] = 0

\* The request in dsm_call_buf is that of the call, or an earlier one that a
\* failure has left there.
Buffered(q) ==
  ureq[Far(q)] = usent[q] \/ (<<q, usent[q]>> \in hit /\ ureq[Far(q)] < usent[q])

\* Afterwards there is one dsm_call at a time: its request, then the server at
\* work, then the answer.  After a failure there may be none of the three.
CallUnderWay(q) ==
  LET n == usent[q]  r == Far(q) IN
  \/ /\ upc[Sv(q)] = "serve" /\ ToServer(q, UMsg("call", NoWorker, n))
     /\ Len(ran[r]) = n - 1 /\ ureq[r] < n
  \/ upc[Sv(q)] = "handle" /\ QuietLink(q) /\ Len(ran[r]) = n - 1 /\ Buffered(q)
  \/ upc[Sv(q)] = "answer" /\ QuietLink(q) /\ Len(ran[r]) = n /\ Buffered(q)
  \/ /\ upc[Sv(q)] = "serve" /\ ToClient(q, UMsg("resp", NoWorker, ureq[r]))
     /\ Len(ran[r]) = n /\ Buffered(q)
  \/ upc[Sv(q)] = "serve" /\ QuietLink(q)

Conversation(q) ==
  upc[Cl(q)] = "asleep" =>
    \/ /\ ~ucall[q] /\ QuietLink(q) /\ upc[Sv(q)] = "serve"
       /\ Len(ran[Far(q)]) = usent[q] /\ Len(rets[q]) = usent[q] /\ ureq[Far(q)] <= usent[q]
    \/ /\ ucall[q] /\ usent[q] > 0 /\ Len(rets[q]) = usent[q] - 1 /\ CallUnderWay(q)

\* What has been answered and run.
Answered(q) == \A n \in DOMAIN rets[q] : rets[q][n] = n \/ <<q, n>> \in hit
RanOnce(q) == \A n \in DOMAIN ran[Far(q)] :
  ran[Far(q)][n] = n \/ (<<q, n>> \in hit /\ ran[Far(q)][n] < n)

UcpLink(q) == Addressed(q) /\ StartedUp(q) /\ Conversation(q) /\ Answered(q) /\ RanOnce(q)

UcpInv == /\ UcpTypes /\ \A q \in UcpPU : GlobalsSet(q)
          /\ ~crossed => \A q \in UcpPU : UcpLink(q)

\* What link q is about.
LinkVars(q) ==
  <<upc[Cl(q)], upc[Sv(q)], stored[Cl(q)], stored[Sv(q)], uep[Cl(q)], uep[Sv(q)],
    tcp[Far(q)].addr, tagged[Cl(q)], tagged[Sv(q)], globals[q], ucall[q], usent[q],
    ureq[Far(q)], ran[Far(q)], rets[q]>>

-----------------------------------------------------------------------------
(* The threads and the links.                                              *)

\* There are two links, and each thread is an end of one of them.
LEMMA LinkEnds ==
  /\ \A q \in UcpPU : /\ Far(q) \in UcpPU /\ Far(q) # q /\ Far(Far(q)) = q
                      /\ Cl(q) \in UcpThread /\ Sv(q) \in UcpThread
                      /\ Cl(q)[1] = q /\ Sv(q)[1] = Far(q)
                      /\ Cl(q)[2] = "client" /\ Sv(q)[2] = "server"
                      /\ Cl(q) # Cl(Far(q)) /\ Sv(q) # Sv(Far(q))
                      /\ Cl(q) # NoWorker /\ Sv(q) # NoWorker
  /\ \A q, p \in UcpPU : Cl(q) # Sv(p) /\ (p = q \/ p = Far(q))
  /\ \A t \in UcpThread : \E q \in UcpPU : t = Cl(q) \/ t = Sv(q)
  /\ UcpThread \subseteq Address /\ NoWorker \in Address /\ Dangling \in Address
BY DEF UcpPU, UcpThread, Far, Cl, Sv, NoWorker, Dangling, Address

\* One message and none.
LEMMA OneMessage ==
  ASSUME NEW m
  PROVE  /\ Append(<<>>, m) = <<m>> /\ <<m>> # <<>>
         /\ Head(<<m>>) = m /\ Tail(<<m>>) = <<>> /\ Len(<<m>>) = 1
OBVIOUS

LEMMA NoMessage == Len(<<>>) = 0
OBVIOUS

\* What is appended comes last.
LEMMA Appended ==
  ASSUME NEW S, NEW s \in Seq(S), NEW e \in S
  PROVE  /\ Append(s, e) \in Seq(S) /\ Len(Append(s, e)) = Len(s) + 1
         /\ Append(s, e)[Len(s) + 1] = e
         /\ \A n \in DOMAIN s : Append(s, e)[n] = s[n]
         /\ DOMAIN Append(s, e) = DOMAIN s \cup {Len(s) + 1}
         /\ Len(s) \in Nat /\ DOMAIN s = 1 .. Len(s)
OBVIOUS

\* A step that leaves the variables of a link leaves the link sound.
LEMMA LinkFrame ==
  ASSUME NEW q \in UcpPU, UNCHANGED LinkVars(q), hit \subseteq hit', UcpLink(q)
  PROVE  UcpLink(q)'
<1>1. Addressed(q)'
  BY DEF LinkVars, UcpLink, Addressed
<1>2. /\ QuietLink(q)' <=> QuietLink(q)
      /\ \A m : ToServer(q, m)' <=> ToServer(q, m)
      /\ \A m : ToClient(q, m)' <=> ToClient(q, m)
  BY DEF LinkVars, QuietLink, ToServer, ToClient
<1>3. StartedUp(q)'
  BY <1>2 DEF LinkVars, UcpLink, StartedUp
<1>4. Conversation(q)'
  <2>1. Buffered(q) => Buffered(q)'
    BY DEF LinkVars, Buffered
  <2>2. CallUnderWay(q) => CallUnderWay(q)'
    BY <1>2, <2>1 DEF LinkVars, CallUnderWay
  <2> QED BY <1>2, <2>2 DEF LinkVars, UcpLink, Conversation
<1>5. Answered(q)' /\ RanOnce(q)'
  BY DEF LinkVars, UcpLink, Answered, RanOnce
<1> QED BY <1>1, <1>3, <1>4, <1>5 DEF UcpLink

\* The client of link q takes a step: the other threads stay where they are.
LEMMA ClientGoes ==
  ASSUME PcTypes, NEW q \in UcpPU, NEW l \in ClientPc \cup {"failed"},
         upc' = [upc EXCEPT ![Cl(q)] = l]
  PROVE  /\ PcTypes'
         /\ upc'[Cl(q)] = l /\ upc'[Sv(q)] = upc[Sv(q)]
         /\ upc'[Cl(Far(q))] = upc[Cl(Far(q))] /\ upc'[Sv(Far(q))] = upc[Sv(Far(q))]
<1>1. /\ upc' \in [UcpThread -> ClientPc \cup ServerPc \cup {"failed"}]
      /\ upc'[Cl(q)] = l
      /\ \A t \in UcpThread : t # Cl(q) => upc'[t] = upc[t]
  BY LinkEnds DEF PcTypes
<1> QED BY <1>1, LinkEnds DEF PcTypes

\* The same of the server.
LEMMA ServerGoes ==
  ASSUME PcTypes, NEW q \in UcpPU, NEW l \in ServerPc \cup {"failed"},
         upc' = [upc EXCEPT ![Sv(q)] = l]
  PROVE  /\ PcTypes'
         /\ upc'[Sv(q)] = l /\ upc'[Cl(q)] = upc[Cl(q)]
         /\ upc'[Cl(Far(q))] = upc[Cl(Far(q))] /\ upc'[Sv(Far(q))] = upc[Sv(Far(q))]
<1>1. /\ upc' \in [UcpThread -> ClientPc \cup ServerPc \cup {"failed"}]
      /\ upc'[Sv(q)] = l
      /\ \A t \in UcpThread : t # Sv(q) => upc'[t] = upc[t]
  BY LinkEnds DEF PcTypes
<1> QED BY <1>1, LinkEnds DEF PcTypes

\* A step of one link keeps the invariant if it keeps that link sound and,
\* unless the threads have crossed, leaves the other link alone.
LEMMA LinkStepUncrossed ==
  ASSUME UcpInv, NEW q \in UcpPU, UcpTypes', GlobalsSet(q)', crossed => crossed',
         UNCHANGED <<upc[Cl(Far(q))], globals[Far(q)]>>,
         ~crossed' => UcpLink(q)' /\ UNCHANGED LinkVars(Far(q)) /\ hit \subseteq hit'
  PROVE  UcpInv'
<1>1. GlobalsSet(Far(q))'
  BY LinkEnds DEF UcpInv, GlobalsSet
<1>2. ~crossed' => UcpLink(Far(q))'
  BY LinkEnds, LinkFrame DEF UcpInv
<1> QED BY <1>1, <1>2, LinkEnds DEF UcpInv

\* The same of a step that always does.
LEMMA LinkStep ==
  ASSUME UcpInv, NEW q \in UcpPU, UcpTypes', GlobalsSet(q)', crossed => crossed',
         ~crossed' => UcpLink(q)', UNCHANGED LinkVars(Far(q)), hit \subseteq hit'
  PROVE  UcpInv'
<1>1. UNCHANGED <<upc[Cl(Far(q))], globals[Far(q)]>>
  BY DEF LinkVars
<1> QED BY <1>1, LinkStepUncrossed

-----------------------------------------------------------------------------
(* The start-up.                                                           *)

\* The state of a TCP connection is not its address.
LEMMA TcpState ==
  ASSUME SetupTypes, NEW p \in UcpPU, NEW s \in {"none", "listening", "connected"},
         tcp' = [tcp EXCEPT ![p].state = s]
  PROVE  /\ tcp' \in [UcpPU -> [state : {"none", "listening", "connected"}, addr : Address]]
         /\ \A r \in UcpPU : tcp'[r].addr = tcp[r].addr
<1>1. tcp[p] \in [state : {"none", "listening", "connected"}, addr : Address]
  BY DEF SetupTypes
<1>2. /\ [tcp[p] EXCEPT !.state = s]
           \in [state : {"none", "listening", "connected"}, addr : Address]
      /\ [tcp[p] EXCEPT !.state = s].addr = tcp[p].addr
  BY <1>1
<1>3. \A r \in UcpPU :
        tcp'[r] = IF r = p THEN [tcp[p] EXCEPT !.state = s] ELSE tcp[r]
  BY DEF SetupTypes
<1> QED BY <1>2, <1>3 DEF SetupTypes

\* A thread gets its worker, listens or accepts: nothing is said yet.
LEMMA ServerOpens ==
  ASSUME UcpInv, NEW q \in UcpPU,
         MakeWorker(Sv(q)) \/ ListenTcp(Far(q)) \/ AcceptTcp(Far(q))
  PROVE  UcpInv'
<1>1. PICK l \in {"listen", "accept", "address"} : upc' = [upc EXCEPT ![Sv(q)] = l]
  BY LinkEnds DEF MakeWorker, ListenTcp, AcceptTcp, UGo, Sv
<1>2. /\ upc[Sv(q)] \in {"worker", "listen", "accept"}
      /\ UNCHANGED <<paddr, stored, uep, globals, crossed, tagged, ucpCalls>>
      /\ \A p \in UcpPU : tcp'[p].addr = tcp[p].addr
      /\ SetupTypes'
  <2>1. CASE MakeWorker(Sv(q))
    BY <2>1, LinkEnds DEF MakeWorker, UGo, UcpInv, UcpTypes, SetupTypes
  <2>2. CASE ListenTcp(Far(q))
    <3>1. /\ tcp' = [tcp EXCEPT ![Far(q)].state = "listening"]
          /\ UNCHANGED <<laddr, paddr, stored, uep, globals, crossed, tagged, ucpCalls>>
          /\ upc[Sv(q)] = "listen"
      BY <2>2 DEF ListenTcp, UGo, Sv
    <3> QED BY <3>1, TcpState, LinkEnds DEF UcpInv, UcpTypes, SetupTypes
  <2>3. CASE AcceptTcp(Far(q))
    BY <2>3, LinkEnds DEF AcceptTcp, UGo, UcpInv, UcpTypes, SetupTypes, Sv, ucpSetup
  <2> QED BY <2>1, <2>2, <2>3
<1>3. /\ PcTypes'
      /\ upc'[Sv(q)] = l /\ upc'[Cl(q)] = upc[Cl(q)]
      /\ upc'[Cl(Far(q))] = upc[Cl(Far(q))] /\ upc'[Sv(Far(q))] = upc[Sv(Far(q))]
  BY <1>1, ServerGoes DEF UcpInv, UcpTypes, ServerPc
<1>4. UcpTypes'
  BY <1>2, <1>3 DEF UcpInv, UcpTypes, CallTypes, ucpCalls
<1>5. UNCHANGED LinkVars(Far(q))
  BY <1>2, <1>3, LinkEnds DEF LinkVars, ucpCalls
<1>6. GlobalsSet(q)'
  BY <1>2, <1>3 DEF UcpInv, GlobalsSet
<1>7. ASSUME ~crossed' PROVE UcpLink(q)'
  <2>1. UcpLink(q)
    BY <1>2, <1>7 DEF UcpInv
  <2>2. Addressed(q)'
    BY <1>2, <1>3, <2>1, LinkEnds DEF UcpLink, Addressed
  <2>3. StartedUp(q)'
    BY <1>2, <1>3, <2>1 DEF UcpLink, StartedUp, Unserved, ServerPc, QuietLink, ToServer, ToClient, ucpCalls
  <2>4. Conversation(q)'
    BY <1>2, <1>3, <2>1 DEF UcpLink, Conversation, CallUnderWay
  <2>5. Answered(q)' /\ RanOnce(q)'
    BY <1>2, <2>1 DEF UcpLink, Answered, RanOnce, ucpCalls
  <2> QED BY <2>2, <2>3, <2>4, <2>5 DEF UcpLink
<1> QED BY <1>2, <1>4, <1>5, <1>6, <1>7, LinkStep DEF ucpCalls

\* The client gets its worker and connects.
LEMMA ClientOpens ==
  ASSUME UcpInv, NEW q \in UcpPU, MakeWorker(Cl(q)) \/ ConnectTcp(q)
  PROVE  UcpInv'
<1>1. PICK l \in {"connect", "address"} : upc' = [upc EXCEPT ![Cl(q)] = l]
  BY LinkEnds DEF MakeWorker, ConnectTcp, UGo, Cl
<1>2. /\ upc[Cl(q)] \in {"worker", "connect"}
      /\ UNCHANGED <<paddr, stored, uep, globals, crossed, tagged, ucpCalls>>
      /\ \A p \in UcpPU : tcp'[p].addr = tcp[p].addr
      /\ SetupTypes'
  <2>1. CASE MakeWorker(Cl(q))
    BY <2>1, LinkEnds DEF MakeWorker, UGo, UcpInv, UcpTypes, SetupTypes
  <2>2. CASE ConnectTcp(q)
    <3>1. /\ tcp' = [tcp EXCEPT ![Far(q)].state = "connected"]
          /\ UNCHANGED <<laddr, paddr, stored, uep, globals, crossed, tagged, ucpCalls>>
          /\ upc[Cl(q)] = "connect"
      BY <2>2 DEF ConnectTcp, UGo, Cl
    <3> QED BY <3>1, TcpState, LinkEnds DEF UcpInv, UcpTypes, SetupTypes
  <2> QED BY <2>1, <2>2
<1>3. /\ PcTypes'
      /\ upc'[Cl(q)] = l /\ upc'[Sv(q)] = upc[Sv(q)]
      /\ upc'[Cl(Far(q))] = upc[Cl(Far(q))] /\ upc'[Sv(Far(q))] = upc[Sv(Far(q))]
  BY <1>1, ClientGoes DEF UcpInv, UcpTypes, ClientPc
<1>4. UcpTypes'
  BY <1>2, <1>3 DEF UcpInv, UcpTypes, CallTypes, ucpCalls
<1>5. UNCHANGED LinkVars(Far(q))
  BY <1>2, <1>3, LinkEnds DEF LinkVars, ucpCalls
<1>6. GlobalsSet(q)'
  BY <1>2, <1>3 DEF UcpInv, GlobalsSet
<1>7. ASSUME ~crossed' PROVE UcpLink(q)'
  <2>1. UcpLink(q)
    BY <1>2, <1>7 DEF UcpInv
  <2>2. Addressed(q)'
    BY <1>2, <1>3, <2>1, LinkEnds DEF UcpLink, Addressed
  <2>3. StartedUp(q)'
    BY <1>2, <1>3, <2>1 DEF UcpLink, StartedUp, QuietLink, ToServer, ToClient, ucpCalls
  <2>4. Conversation(q)'
    BY <1>3 DEF Conversation
  <2>5. Answered(q)' /\ RanOnce(q)'
    BY <1>2, <2>1 DEF UcpLink, Answered, RanOnce, ucpCalls
  <2> QED BY <2>2, <2>3, <2>4, <2>5 DEF UcpLink
<1> QED BY <1>2, <1>4, <1>5, <1>6, <1>7, LinkStep DEF ucpCalls

\* The server sends the address that local_addr has: its own, or it has crossed.
LEMMA SendAddressStep ==
  ASSUME UcpInv, NEW q \in UcpPU, SendAddress(Far(q)) PROVE UcpInv'
<1>1. /\ upc[Sv(q)] = "address" /\ upc' = [upc EXCEPT ![Sv(q)] = "introduce"]
      /\ tcp' = [tcp EXCEPT ![Far(q)].addr = laddr[Far(q)]]
      /\ crossed' = (crossed \/ laddr[Far(q)] # Sv(q))
      /\ UNCHANGED <<laddr, paddr, stored, uep, globals, tagged, ucpCalls>>
  BY LinkEnds DEF SendAddress, UGo, LocalAddr, Sv
<1>2. /\ PcTypes'
      /\ upc'[Sv(q)] = "introduce" /\ upc'[Cl(q)] = upc[Cl(q)]
      /\ upc'[Cl(Far(q))] = upc[Cl(Far(q))] /\ upc'[Sv(Far(q))] = upc[Sv(Far(q))]
  BY <1>1, ServerGoes DEF UcpInv, UcpTypes, ServerPc
<1>3. SetupTypes' /\ tcp'[Far(q)].addr = laddr[Far(q)] /\ tcp'[q] = tcp[q]
  <2>1. /\ SetupTypes /\ laddr[Far(q)] \in Address
        /\ tcp[Far(q)] \in [state : {"none", "listening", "connected"}, addr : Address]
    BY LinkEnds DEF UcpInv, UcpTypes, SetupTypes
  <2>2. /\ [tcp[Far(q)] EXCEPT !.addr = laddr[Far(q)]]
             \in [state : {"none", "listening", "connected"}, addr : Address]
        /\ [tcp[Far(q)] EXCEPT !.addr = laddr[Far(q)]].addr = laddr[Far(q)]
    BY <2>1
  <2>3. /\ tcp' \in [UcpPU -> [state : {"none", "listening", "connected"}, addr : Address]]
        /\ tcp'[Far(q)] = [tcp[Far(q)] EXCEPT !.addr = laddr[Far(q)]] /\ tcp'[q] = tcp[q]
    <3>1. /\ tcp \in [UcpPU -> [state : {"none", "listening", "connected"}, addr : Address]]
          /\ Far(q) \in UcpPU /\ Far(q) # q
      BY <2>1, LinkEnds DEF SetupTypes
    <3>2. tcp' = [tcp EXCEPT ![Far(q)] = [tcp[Far(q)] EXCEPT !.addr = laddr[Far(q)]]]
      BY <1>1
    <3> QED BY <2>2, <3>1, <3>2
  <2> QED BY <1>1, <2>1, <2>2, <2>3 DEF SetupTypes
<1>4. UcpTypes'
  BY <1>1, <1>2, <1>3 DEF UcpInv, UcpTypes, CallTypes, ucpCalls
<1>5. UNCHANGED LinkVars(Far(q))
  BY <1>1, <1>2, <1>3, LinkEnds DEF LinkVars, ucpCalls
<1>6. GlobalsSet(q)'
  BY <1>1, <1>2 DEF UcpInv, GlobalsSet
<1>7. ASSUME ~crossed' PROVE UcpLink(q)'
  <2>1. UcpLink(q) /\ tcp'[Far(q)].addr = Sv(q)
    BY <1>1, <1>3, <1>7 DEF UcpInv
  <2>2. Addressed(q)'
    BY <1>1, <1>2, <2>1 DEF UcpLink, Addressed
  <2>3. StartedUp(q)'
    BY <1>1, <1>2, <2>1 DEF UcpLink, StartedUp, Unserved, ServerPc, QuietLink, ToServer, ToClient, ucpCalls
  <2>4. Conversation(q)'
    BY <1>1, <1>2, <2>1 DEF UcpLink, Conversation, CallUnderWay
  <2>5. Answered(q)' /\ RanOnce(q)'
    BY <1>1, <2>1 DEF UcpLink, Answered, RanOnce, ucpCalls
  <2> QED BY <2>2, <2>3, <2>4, <2>5 DEF UcpLink
<1> QED BY <1>1, <1>4, <1>5, <1>6, <1>7, LinkStep DEF ucpCalls

\* The client takes the address.
LEMMA RecvAddressStep ==
  ASSUME UcpInv, NEW q \in UcpPU, RecvAddress(q) PROVE UcpInv'
<1>1. /\ upc[Cl(q)] = "address" /\ upc' = [upc EXCEPT ![Cl(q)] = "endpoint"]
      /\ tcp[Far(q)].addr # NoWorker
      /\ paddr' = [paddr EXCEPT ![q] = tcp[Far(q)].addr]
      /\ stored' = [stored EXCEPT ![Cl(q)] = tcp[Far(q)].addr]
      /\ UNCHANGED <<laddr, tcp, uep, globals, crossed, tagged, ucpCalls>>
  BY LinkEnds DEF RecvAddress, UGo, Cl
<1>2. /\ PcTypes'
      /\ upc'[Cl(q)] = "endpoint" /\ upc'[Sv(q)] = upc[Sv(q)]
      /\ upc'[Cl(Far(q))] = upc[Cl(Far(q))] /\ upc'[Sv(Far(q))] = upc[Sv(Far(q))]
  BY <1>1, ClientGoes DEF UcpInv, UcpTypes, ClientPc
<1>3. /\ SetupTypes' /\ stored'[Cl(q)] = tcp[Far(q)].addr
      /\ \A t \in UcpThread : t # Cl(q) => stored'[t] = stored[t]
  BY <1>1, LinkEnds DEF UcpInv, UcpTypes, SetupTypes
<1>4. UcpTypes'
  BY <1>1, <1>2, <1>3 DEF UcpInv, UcpTypes, CallTypes, ucpCalls
<1>5. UNCHANGED LinkVars(Far(q))
  BY <1>1, <1>2, <1>3, LinkEnds DEF LinkVars, ucpCalls
<1>6. GlobalsSet(q)'
  BY <1>1, <1>2 DEF UcpInv, GlobalsSet
<1>7. ASSUME ~crossed' PROVE UcpLink(q)'
  <2>1. UcpLink(q)
    BY <1>1, <1>7 DEF UcpInv
  <2>2. Addressed(q)'
    BY <1>1, <1>2, <1>3, <2>1, LinkEnds DEF UcpLink, Addressed
  <2>3. StartedUp(q)'
    BY <1>1, <1>2, <2>1 DEF UcpLink, StartedUp, QuietLink, ToServer, ToClient, ucpCalls
  <2>4. Conversation(q)'
    BY <1>2 DEF Conversation
  <2>5. Answered(q)' /\ RanOnce(q)'
    BY <1>1, <2>1 DEF UcpLink, Answered, RanOnce, ucpCalls
  <2> QED BY <2>2, <2>3, <2>4, <2>5 DEF UcpLink
<1> QED BY <1>1, <1>4, <1>5, <1>6, <1>7, LinkStep DEF ucpCalls

\* An endpoint is made with the address that peer_addr has: the one that the
\* thread has put there, or it has crossed.
LEMMA EndpointStep ==
  ASSUME UcpInv, NEW q \in UcpPU, ClientEndpoint(q) \/ ServerEndpoint(Far(q)) PROVE UcpInv'
<1>1. CASE ClientEndpoint(q)
  <2>1. /\ upc[Cl(q)] = "endpoint" /\ upc' = [upc EXCEPT ![Cl(q)] = "introduce"]
        /\ uep' = [uep EXCEPT ![Cl(q)] = paddr[q]]
        /\ crossed' = (crossed \/ paddr[q] # stored[Cl(q)])
        /\ UNCHANGED <<laddr, paddr, stored, tcp, globals, tagged, ucpCalls>>
    BY <1>1, LinkEnds DEF ClientEndpoint, MakeEndpoint, UGo, Cl
  <2>2. /\ PcTypes'
        /\ upc'[Cl(q)] = "introduce" /\ upc'[Sv(q)] = upc[Sv(q)]
        /\ upc'[Cl(Far(q))] = upc[Cl(Far(q))] /\ upc'[Sv(Far(q))] = upc[Sv(Far(q))]
    BY <2>1, ClientGoes DEF UcpInv, UcpTypes, ClientPc
  <2>3. /\ SetupTypes' /\ uep'[Cl(q)] = paddr[q]
        /\ \A t \in UcpThread : t # Cl(q) => uep'[t] = uep[t]
    BY <2>1, LinkEnds DEF UcpInv, UcpTypes, SetupTypes
  <2>4. UcpTypes'
    BY <2>1, <2>2, <2>3 DEF UcpInv, UcpTypes, CallTypes, ucpCalls
  <2>5. UNCHANGED LinkVars(Far(q))
    BY <2>1, <2>2, <2>3, LinkEnds DEF LinkVars, ucpCalls
  <2>6. GlobalsSet(q)'
    BY <2>1, <2>2 DEF UcpInv, GlobalsSet
  <2>7. ASSUME ~crossed' PROVE UcpLink(q)'
    <3>1. UcpLink(q) /\ uep'[Cl(q)] = stored[Cl(q)]
      BY <2>1, <2>3, <2>7 DEF UcpInv
    <3>2. Addressed(q)'
      BY <2>1, <2>2, <2>3, <3>1, LinkEnds DEF UcpLink, Addressed
    <3>3. StartedUp(q)'
      BY <2>1, <2>2, <3>1 DEF UcpLink, StartedUp, QuietLink, ToServer, ToClient, ucpCalls
    <3>4. Conversation(q)'
      BY <2>2 DEF Conversation
    <3>5. Answered(q)' /\ RanOnce(q)'
      BY <2>1, <3>1 DEF UcpLink, Answered, RanOnce, ucpCalls
    <3> QED BY <3>2, <3>3, <3>4, <3>5 DEF UcpLink
  <2> QED BY <2>1, <2>4, <2>5, <2>6, <2>7, LinkStep DEF ucpCalls
<1>2. CASE ServerEndpoint(Far(q))
  <2>1. /\ upc[Sv(q)] = "endpoint" /\ upc' = [upc EXCEPT ![Sv(q)] = "hello"]
        /\ uep' = [uep EXCEPT ![Sv(q)] = paddr[Far(q)]]
        /\ crossed' = (crossed \/ paddr[Far(q)] # stored[Sv(q)])
        /\ UNCHANGED <<laddr, paddr, stored, tcp, globals, tagged, ucpCalls>>
    BY <1>2, LinkEnds DEF ServerEndpoint, MakeEndpoint, UGo, Sv
  <2>2. /\ PcTypes'
        /\ upc'[Sv(q)] = "hello" /\ upc'[Cl(q)] = upc[Cl(q)]
        /\ upc'[Cl(Far(q))] = upc[Cl(Far(q))] /\ upc'[Sv(Far(q))] = upc[Sv(Far(q))]
    BY <2>1, ServerGoes DEF UcpInv, UcpTypes, ServerPc
  <2>3. /\ SetupTypes' /\ uep'[Sv(q)] = paddr[Far(q)]
        /\ \A t \in UcpThread : t # Sv(q) => uep'[t] = uep[t]
    BY <2>1, LinkEnds DEF UcpInv, UcpTypes, SetupTypes
  <2>4. UcpTypes'
    BY <2>1, <2>2, <2>3 DEF UcpInv, UcpTypes, CallTypes, ucpCalls
  <2>5. UNCHANGED LinkVars(Far(q))
    BY <2>1, <2>2, <2>3, LinkEnds DEF LinkVars, ucpCalls
  <2>6. GlobalsSet(q)'
    BY <2>1, <2>2 DEF UcpInv, GlobalsSet
  <2>7. ASSUME ~crossed' PROVE UcpLink(q)'
    <3>1. UcpLink(q) /\ uep'[Sv(q)] = stored[Sv(q)]
      BY <2>1, <2>3, <2>7 DEF UcpInv
    <3>2. Addressed(q)'
      BY <2>1, <2>2, <2>3, <3>1, LinkEnds DEF UcpLink, Addressed
    <3>3. StartedUp(q)'
      BY <2>1, <2>2, <3>1 DEF UcpLink, StartedUp, Unserved, ServerPc, QuietLink, ToServer, ToClient, ucpCalls
    <3>4. Conversation(q)'
      BY <2>1, <2>2, <3>1 DEF UcpLink, Conversation, CallUnderWay
    <3>5. Answered(q)' /\ RanOnce(q)'
      BY <2>1, <3>1 DEF UcpLink, Answered, RanOnce, ucpCalls
    <3> QED BY <3>2, <3>3, <3>4, <3>5 DEF UcpLink
  <2> QED BY <2>1, <2>4, <2>5, <2>6, <2>7, LinkStep DEF ucpCalls
<1> QED BY <1>1, <1>2

-----------------------------------------------------------------------------
(* Messages.                                                               *)

\* A message to an end of link q comes behind what that end has.
LEMMA UcpSending ==
  ASSUME UcpTypes, NEW q \in UcpPU, NEW t \in {Cl(q), Sv(q)}, NEW m \in Message,
         tagged' = Sent(t, m)
  PROVE  /\ tagged' \in [UcpThread -> Seq(Message)]
         /\ tagged'[t] = Append(tagged[t], m)
         /\ \A o \in UcpThread : o # t => tagged'[o] = tagged[o]
<1>1. t \in UcpThread /\ tagged \in [UcpThread -> Seq(Message)]
  <2>1. t = Cl(q) \/ t = Sv(q)
    OBVIOUS
  <2>2. t \in UcpThread
    BY <2>1, LinkEnds
  <2> QED BY <2>2 DEF UcpTypes, CallTypes
<1>2. tagged' = [tagged EXCEPT ![t] = Append(tagged[t], m)]
  BY <1>1 DEF Sent
<1>3. Append(tagged[t], m) \in Seq(Message)
  BY <1>1
<1> QED BY <1>1, <1>2, <1>3

\* Whatever endpoint it goes through, a message is received where a thread is.
LEMMA SentTypes ==
  ASSUME UcpTypes, NEW w \in Address, NEW m \in Message
  PROVE  Sent(w, m) \in [UcpThread -> Seq(Message)]
<1>1. tagged \in [UcpThread -> Seq(Message)]
  BY DEF UcpTypes, CallTypes
<1>2. \A t \in UcpThread : Append(tagged[t], m) \in Seq(Message)
  BY <1>1
<1> QED BY <1>1, <1>2 DEF Sent

\* An end of link q takes the next message.
LEMMA Taking ==
  ASSUME UcpTypes, NEW q \in UcpPU, NEW t \in {Cl(q), Sv(q)},
         tagged[t] # <<>>, tagged' = Took(t)
  PROVE  /\ tagged' \in [UcpThread -> Seq(Message)] /\ Head(tagged[t]) \in Message
         /\ tagged'[t] = Tail(tagged[t])
         /\ \A o \in UcpThread : o # t => tagged'[o] = tagged[o]
<1>1. t \in UcpThread /\ tagged \in [UcpThread -> Seq(Message)]
  <2>1. t = Cl(q) \/ t = Sv(q)
    OBVIOUS
  <2>2. t \in UcpThread
    BY <2>1, LinkEnds
  <2> QED BY <2>2 DEF UcpTypes, CallTypes
<1>2. tagged[t] \in Seq(Message) /\ tagged[t] # <<>>
  BY <1>1
<1>3. Tail(tagged[t]) \in Seq(Message) /\ Head(tagged[t]) \in Message
  BY <1>2
<1> QED BY <1>1, <1>3 DEF Took

\* The client introduces itself, with the address that local_addr has.
LEMMA IntroduceStep ==
  ASSUME UcpInv, NEW q \in UcpPU, Introduce(q) PROVE UcpInv'
<1>1. /\ upc[Cl(q)] = "introduce" /\ upc' = [upc EXCEPT ![Cl(q)] = "hello"]
      /\ tagged' = Sent(uep[Cl(q)], UMsg("addr", laddr[q], 0))
      /\ crossed' = (crossed \/ laddr[q] # Cl(q))
      /\ UNCHANGED <<laddr, paddr, stored, tcp, uep, globals, ucpCalls>>
  BY LinkEnds DEF Introduce, UGo, LocalAddr, Cl
<1>2. /\ PcTypes'
      /\ upc'[Cl(q)] = "hello" /\ upc'[Sv(q)] = upc[Sv(q)]
      /\ upc'[Cl(Far(q))] = upc[Cl(Far(q))] /\ upc'[Sv(Far(q))] = upc[Sv(Far(q))]
  BY <1>1, ClientGoes DEF UcpInv, UcpTypes, ClientPc
<1>3. UMsg("addr", laddr[q], 0) \in Message /\ uep[Cl(q)] \in Address
  BY LinkEnds DEF UcpInv, UcpTypes, SetupTypes, UMsg, Message
<1>4. UcpTypes'
  <2>1. tagged' \in [UcpThread -> Seq(Message)]
    BY <1>1, <1>3, SentTypes DEF UcpInv
  <2> QED BY <1>1, <1>2, <2>1 DEF UcpInv, UcpTypes, CallTypes, SetupTypes, ucpCalls
<1>5. GlobalsSet(q)'
  BY <1>1, <1>2 DEF UcpInv, GlobalsSet
<1>6. ASSUME ~crossed' PROVE UcpLink(q)' /\ UNCHANGED LinkVars(Far(q))
  <2>1. UcpLink(q) /\ laddr[q] = Cl(q) /\ uep[Cl(q)] = Sv(q)
    BY <1>1, <1>6 DEF UcpInv, UcpLink, Addressed
  <2>2. /\ tagged'[Sv(q)] = Append(tagged[Sv(q)], UMsg("addr", Cl(q), 0))
        /\ \A o \in UcpThread : o # Sv(q) => tagged'[o] = tagged[o]
    BY <1>1, <1>3, <2>1, UcpSending DEF UcpInv
  <2>3. QuietLink(q) /\ upc[Sv(q)] \in Unserved \cup {"failed"}
    BY <1>1, <2>1 DEF UcpLink, StartedUp
  <2>4. ToServer(q, UMsg("addr", Cl(q), 0))'
    <3>1. tagged'[Cl(q)] = tagged[Cl(q)]
      BY <2>2, LinkEnds
    <3> QED BY <2>2, <2>3, <3>1, OneMessage DEF QuietLink, ToServer, UMsg
  <2>5. Addressed(q)'
    BY <1>1, <1>2, <2>1 DEF UcpLink, Addressed
  <2>6. StartedUp(q)'
    BY <1>1, <1>2, <2>1, <2>3, <2>4 DEF UcpLink, StartedUp, ucpCalls
  <2>7. Conversation(q)'
    BY <1>2 DEF Conversation
  <2>8. Answered(q)' /\ RanOnce(q)'
    BY <1>1, <2>1 DEF UcpLink, Answered, RanOnce, ucpCalls
  <2>9. UNCHANGED LinkVars(Far(q))
    BY <1>1, <1>2, <2>2, LinkEnds DEF LinkVars, ucpCalls
  <2> QED BY <2>5, <2>6, <2>7, <2>8, <2>9 DEF UcpLink
<1> QED BY <1>1, <1>2, <1>4, <1>5, <1>6, LinkStepUncrossed DEF ucpCalls

\* The server takes the introduction, and the address that is in it.
LEMMA RecvIntroductionStep ==
  ASSUME UcpInv, NEW q \in UcpPU, RecvIntroduction(Far(q)) PROVE UcpInv'
<1>1. /\ upc[Sv(q)] = "introduce" /\ upc' = [upc EXCEPT ![Sv(q)] = "endpoint"]
      /\ tagged[Sv(q)] # <<>> /\ tagged' = Took(Sv(q))
      /\ paddr' = [paddr EXCEPT ![Far(q)] = Head(tagged[Sv(q)]).w]
      /\ stored' = [stored EXCEPT ![Sv(q)] = Head(tagged[Sv(q)]).w]
      /\ UNCHANGED <<laddr, tcp, uep, globals, crossed, ucpCalls>>
  BY LinkEnds DEF RecvIntroduction, UGo, Sv
<1>2. /\ PcTypes'
      /\ upc'[Sv(q)] = "endpoint" /\ upc'[Cl(q)] = upc[Cl(q)]
      /\ upc'[Cl(Far(q))] = upc[Cl(Far(q))] /\ upc'[Sv(Far(q))] = upc[Sv(Far(q))]
  BY <1>1, ServerGoes DEF UcpInv, UcpTypes, ServerPc
<1>3. /\ tagged' \in [UcpThread -> Seq(Message)] /\ Head(tagged[Sv(q)]) \in Message
      /\ tagged'[Sv(q)] = Tail(tagged[Sv(q)])
      /\ \A o \in UcpThread : o # Sv(q) => tagged'[o] = tagged[o]
  BY <1>1, Taking DEF UcpInv
<1>4. /\ SetupTypes' /\ stored'[Sv(q)] = Head(tagged[Sv(q)]).w
      /\ \A o \in UcpThread : o # Sv(q) => stored'[o] = stored[o]
  <2>1. Head(tagged[Sv(q)]).w \in Address
    BY <1>3 DEF Message
  <2> QED BY <1>1, <2>1, LinkEnds DEF UcpInv, UcpTypes, SetupTypes
<1>5. UcpTypes'
  BY <1>1, <1>2, <1>3, <1>4 DEF UcpInv, UcpTypes, CallTypes, ucpCalls
<1>6. UNCHANGED LinkVars(Far(q))
  <2>1. \A o \in {Cl(Far(q)), Sv(Far(q))} :
          upc'[o] = upc[o] /\ stored'[o] = stored[o] /\ tagged'[o] = tagged[o]
    <3>1. \A o \in {Cl(Far(q)), Sv(Far(q))} : o \in UcpThread /\ o # Sv(q)
      BY LinkEnds
    <3> QED BY <1>2, <1>3, <1>4, <3>1
  <2> QED BY <1>1, <2>1 DEF LinkVars, ucpCalls
<1>7. GlobalsSet(q)'
  BY <1>1, <1>2 DEF UcpInv, GlobalsSet
<1>8. ASSUME ~crossed' PROVE UcpLink(q)'
  <2>1. UcpLink(q) /\ PcTypes
    BY <1>1, <1>8 DEF UcpInv, UcpTypes
  <2>2. upc[Cl(q)] \in {"hello", "failed"} /\ ToServer(q, UMsg("addr", Cl(q), 0))
    BY <1>1, <2>1 DEF UcpLink, StartedUp, Conversation, CallUnderWay, QuietLink, ToServer, ToClient,
       PcTypes, ClientPc
  <2>3. stored'[Sv(q)] = Cl(q) /\ QuietLink(q)'
    <3>1. tagged'[Cl(q)] = tagged[Cl(q)]
      BY <1>3, LinkEnds
    <3> QED BY <1>3, <1>4, <2>2, <3>1, OneMessage DEF QuietLink, ToServer, UMsg
  <2>4. Addressed(q)'
    <3>1. stored'[Cl(q)] = stored[Cl(q)]
      BY <1>4, LinkEnds
    <3> QED BY <1>1, <1>2, <2>1, <2>3, <3>1 DEF UcpLink, Addressed
  <2>5. StartedUp(q)'
    BY <1>1, <1>2, <2>1, <2>2, <2>3 DEF UcpLink, StartedUp, ucpCalls
  <2>6. Conversation(q)'
    BY <1>2, <2>2 DEF Conversation
  <2>7. Answered(q)' /\ RanOnce(q)'
    BY <1>1, <2>1 DEF UcpLink, Answered, RanOnce, ucpCalls
  <2> QED BY <2>4, <2>5, <2>6, <2>7 DEF UcpLink
<1> QED BY <1>1, <1>5, <1>6, <1>7, <1>8, LinkStep DEF ucpCalls

\* The server greets the client.
LEMMA SendHelloStep ==
  ASSUME UcpInv, NEW q \in UcpPU, SendHello(Far(q)) PROVE UcpInv'
<1>1. /\ upc[Sv(q)] = "hello" /\ upc' = [upc EXCEPT ![Sv(q)] = "serve"]
      /\ tagged' = Sent(uep[Sv(q)], UMsg("hello", NoWorker, 0))
      /\ UNCHANGED <<laddr, paddr, stored, tcp, uep, globals, crossed, ucpCalls>>
  BY LinkEnds DEF SendHello, UGo, Sv, ucpSetup
<1>2. /\ PcTypes'
      /\ upc'[Sv(q)] = "serve" /\ upc'[Cl(q)] = upc[Cl(q)]
      /\ upc'[Cl(Far(q))] = upc[Cl(Far(q))] /\ upc'[Sv(Far(q))] = upc[Sv(Far(q))]
  BY <1>1, ServerGoes DEF UcpInv, UcpTypes, ServerPc
<1>3. UMsg("hello", NoWorker, 0) \in Message /\ uep[Sv(q)] \in Address
  BY LinkEnds DEF UcpInv, UcpTypes, SetupTypes, UMsg, Message
<1>4. UcpTypes'
  <2>1. tagged' \in [UcpThread -> Seq(Message)]
    BY <1>1, <1>3, SentTypes DEF UcpInv
  <2> QED BY <1>1, <1>2, <2>1 DEF UcpInv, UcpTypes, CallTypes, SetupTypes, ucpCalls
<1>5. GlobalsSet(q)'
  BY <1>1, <1>2 DEF UcpInv, GlobalsSet
<1>6. ASSUME ~crossed' PROVE UcpLink(q)' /\ UNCHANGED LinkVars(Far(q))
  <2>1. UcpLink(q) /\ uep[Sv(q)] = Cl(q) /\ PcTypes
    BY <1>1, <1>6 DEF UcpInv, UcpTypes, UcpLink, Addressed
  <2>2. /\ tagged'[Cl(q)] = Append(tagged[Cl(q)], UMsg("hello", NoWorker, 0))
        /\ \A o \in UcpThread : o # Cl(q) => tagged'[o] = tagged[o]
    BY <1>1, <1>3, <2>1, UcpSending DEF UcpInv
  <2>3. upc[Cl(q)] \in {"hello", "failed"} /\ QuietLink(q)
    BY <1>1, <2>1 DEF UcpLink, StartedUp, Conversation, CallUnderWay, PcTypes, ClientPc,
       Unserved, ServerPc
  <2>4. ToClient(q, UMsg("hello", NoWorker, 0))'
    <3>1. tagged'[Sv(q)] = tagged[Sv(q)]
      BY <2>2, LinkEnds
    <3> QED BY <2>2, <2>3, <3>1, OneMessage DEF QuietLink, ToClient, UMsg
  <2>5. Addressed(q)'
    BY <1>1, <1>2, <2>1 DEF UcpLink, Addressed
  <2>6. StartedUp(q)'
    BY <1>1, <1>2, <2>1, <2>3, <2>4 DEF UcpLink, StartedUp, ucpCalls
  <2>7. Conversation(q)'
    BY <1>2, <2>3 DEF Conversation
  <2>8. Answered(q)' /\ RanOnce(q)'
    BY <1>1, <2>1 DEF UcpLink, Answered, RanOnce, ucpCalls
  <2>9. UNCHANGED LinkVars(Far(q))
    BY <1>1, <1>2, <2>2, LinkEnds DEF LinkVars, ucpCalls
  <2> QED BY <2>5, <2>6, <2>7, <2>8, <2>9 DEF UcpLink
<1> QED BY <1>1, <1>2, <1>4, <1>5, <1>6, LinkStepUncrossed DEF ucpCalls

\* The client takes the greeting.
LEMMA RecvHelloStep ==
  ASSUME UcpInv, NEW q \in UcpPU, RecvHello(q) PROVE UcpInv'
<1>1. /\ upc[Cl(q)] = "hello" /\ upc' = [upc EXCEPT ![Cl(q)] = "publish"]
      /\ tagged[Cl(q)] # <<>> /\ tagged' = Took(Cl(q))
      /\ UNCHANGED <<laddr, paddr, stored, tcp, uep, globals, crossed, ucpCalls>>
  BY LinkEnds DEF RecvHello, UGo, Cl, ucpSetup
<1>2. /\ PcTypes'
      /\ upc'[Cl(q)] = "publish" /\ upc'[Sv(q)] = upc[Sv(q)]
      /\ upc'[Cl(Far(q))] = upc[Cl(Far(q))] /\ upc'[Sv(Far(q))] = upc[Sv(Far(q))]
  BY <1>1, ClientGoes DEF UcpInv, UcpTypes, ClientPc
<1>3. /\ tagged' \in [UcpThread -> Seq(Message)]
      /\ tagged'[Cl(q)] = Tail(tagged[Cl(q)])
      /\ \A o \in UcpThread : o # Cl(q) => tagged'[o] = tagged[o]
  BY <1>1, Taking DEF UcpInv
<1>4. UcpTypes'
  BY <1>1, <1>2, <1>3 DEF UcpInv, UcpTypes, CallTypes, SetupTypes, ucpCalls
<1>5. UNCHANGED LinkVars(Far(q))
  BY <1>1, <1>2, <1>3, LinkEnds DEF LinkVars, ucpCalls
<1>6. GlobalsSet(q)'
  BY <1>1, <1>2 DEF UcpInv, GlobalsSet
<1>7. ASSUME ~crossed' PROVE UcpLink(q)'
  <2>1. UcpLink(q)
    BY <1>1, <1>7 DEF UcpInv
  <2>2. upc[Sv(q)] = "serve" /\ ToClient(q, UMsg("hello", NoWorker, 0))
    BY <1>1, <2>1 DEF UcpLink, StartedUp, QuietLink, ToServer
  <2>3. QuietLink(q)'
    <3>1. tagged'[Sv(q)] = tagged[Sv(q)]
      BY <1>3, LinkEnds
    <3> QED BY <1>3, <2>2, <3>1, OneMessage DEF QuietLink, ToClient
  <2>4. Addressed(q)'
    BY <1>1, <1>2, <2>1 DEF UcpLink, Addressed
  <2>5. StartedUp(q)'
    BY <1>1, <1>2, <2>1, <2>2, <2>3 DEF UcpLink, StartedUp, ucpCalls
  <2>6. Conversation(q)'
    BY <1>2 DEF Conversation
  <2>7. Answered(q)' /\ RanOnce(q)'
    BY <1>1, <2>1 DEF UcpLink, Answered, RanOnce, ucpCalls
  <2> QED BY <2>4, <2>5, <2>6, <2>7 DEF UcpLink
<1> QED BY <1>1, <1>4, <1>5, <1>6, <1>7, LinkStep DEF ucpCalls

\* The client sets the globals and sleeps.
LEMMA UcpPublishStep ==
  ASSUME UcpInv, NEW q \in UcpPU, PublishGlobal(q) PROVE UcpInv'
<1>1. PICK l \in {"publish2", "asleep"} :
        /\ upc[Cl(q)] = (IF l = "publish2" THEN "publish" ELSE "publish2")
        /\ upc' = [upc EXCEPT ![Cl(q)] = l]
        /\ globals' = [globals EXCEPT ![q] = @ + 1]
        /\ UNCHANGED <<laddr, paddr, stored, tcp, uep, crossed, tagged, ucpCalls>>
  BY DEF PublishGlobal, UGo, Cl
<1>2. /\ PcTypes'
      /\ upc'[Cl(q)] = l /\ upc'[Sv(q)] = upc[Sv(q)]
      /\ upc'[Cl(Far(q))] = upc[Cl(Far(q))] /\ upc'[Sv(Far(q))] = upc[Sv(Far(q))]
  BY <1>1, ClientGoes DEF UcpInv, UcpTypes, ClientPc
<1>3. /\ globals[q] = (IF l = "publish2" THEN 0 ELSE 1)
      /\ globals' \in [UcpPU -> 0 .. 2] /\ globals'[Far(q)] = globals[Far(q)]
      /\ globals'[q] = (IF l = "publish2" THEN 1 ELSE 2)
  <2>1. globals[q] = (IF l = "publish2" THEN 0 ELSE 1)
    BY <1>1 DEF UcpInv, GlobalsSet
  <2> QED BY <1>1, <2>1, LinkEnds DEF UcpInv, UcpTypes, SetupTypes
<1>4. UcpTypes'
  BY <1>1, <1>2, <1>3 DEF UcpInv, UcpTypes, CallTypes, SetupTypes, ucpCalls
<1>5. UNCHANGED LinkVars(Far(q))
  BY <1>1, <1>2, <1>3, LinkEnds DEF LinkVars, ucpCalls
<1>6. GlobalsSet(q)'
  BY <1>1, <1>2, <1>3 DEF GlobalsSet
<1>7. ASSUME ~crossed' PROVE UcpLink(q)'
  <2>1. UcpLink(q)
    BY <1>1, <1>7 DEF UcpInv
  <2>2. /\ QuietLink(q) /\ upc[Sv(q)] = "serve" /\ ~ucall[q] /\ usent[q] = 0
        /\ ran[Far(q)] = <<>> /\ rets[q] = <<>> /\ ureq[Far(q)] = 0
    BY <1>1, <2>1 DEF UcpLink, StartedUp
  <2>3. QuietLink(q)'
    BY <1>1, <2>2 DEF QuietLink
  <2>4. Addressed(q)'
    BY <1>1, <1>2, <2>1 DEF UcpLink, Addressed
  <2>5. StartedUp(q)'
    BY <1>1, <1>2, <2>2, <2>3 DEF StartedUp, ucpCalls
  <2>6. Conversation(q)'
    BY <1>1, <1>2, <2>2, <2>3, NoMessage DEF Conversation, ucpCalls
  <2>7. Answered(q)' /\ RanOnce(q)'
    BY <1>1, <2>1 DEF UcpLink, Answered, RanOnce, ucpCalls
  <2> QED BY <2>4, <2>5, <2>6, <2>7 DEF UcpLink
<1> QED BY <1>1, <1>4, <1>5, <1>6, <1>7, LinkStep DEF ucpCalls

-----------------------------------------------------------------------------
(* Failures of the start-up.                                               *)

\* A thread that fails says nothing more, and nobody greets or introduces
\* itself in its place.
LEMMA FailureStep ==
  ASSUME UcpInv, NEW q \in UcpPU,
         UcpFails(Cl(q)) \/ UcpFails(Sv(q)) \/ HelloFails(Far(q))
  PROVE  UcpInv'
<1>1. /\ \/ /\ upc' = [upc EXCEPT ![Cl(q)] = "failed"]
            /\ upc[Cl(q)] \notin {"publish", "publish2", "asleep"}
         \/ /\ upc' = [upc EXCEPT ![Sv(q)] = "failed"]
            /\ upc[Sv(q)] \notin {"serve", "handle", "answer"}
      /\ UNCHANGED <<stored, tcp, uep, globals, crossed, tagged, ucpCalls>>
      /\ laddr' \in [UcpPU -> Address] /\ paddr' \in [UcpPU -> Address]
  <2>1. laddr \in [UcpPU -> Address] /\ paddr \in [UcpPU -> Address]
    BY DEF UcpInv, UcpTypes, SetupTypes
  <2>2. CASE UcpFails(Cl(q))
    BY <2>1, <2>2, LinkEnds DEF UcpFails
  <2>3. CASE UcpFails(Sv(q))
    BY <2>1, <2>3, LinkEnds DEF UcpFails
  <2>4. CASE HelloFails(Far(q))
    BY <2>1, <2>4 DEF HelloFails, UGo, Sv, ucpSetup
  <2> QED BY <2>2, <2>3, <2>4
<1>2. /\ PcTypes'
      /\ \/ /\ upc'[Cl(q)] = "failed" /\ upc'[Sv(q)] = upc[Sv(q)]
            /\ upc[Cl(q)] \notin {"publish", "publish2", "asleep"}
         \/ /\ upc'[Sv(q)] = "failed" /\ upc'[Cl(q)] = upc[Cl(q)]
            /\ upc[Sv(q)] \notin {"serve", "handle", "answer"}
      /\ upc'[Cl(Far(q))] = upc[Cl(Far(q))] /\ upc'[Sv(Far(q))] = upc[Sv(Far(q))]
  <2>1. CASE upc' = [upc EXCEPT ![Cl(q)] = "failed"]
             /\ upc[Cl(q)] \notin {"publish", "publish2", "asleep"}
    BY <2>1, ClientGoes DEF UcpInv, UcpTypes
  <2>2. CASE upc' = [upc EXCEPT ![Sv(q)] = "failed"]
             /\ upc[Sv(q)] \notin {"serve", "handle", "answer"}
    BY <2>2, ServerGoes DEF UcpInv, UcpTypes
  <2> QED BY <1>1, <2>1, <2>2
<1>3. UcpTypes'
  BY <1>1, <1>2 DEF UcpInv, UcpTypes, CallTypes, SetupTypes, ucpCalls
<1>4. UNCHANGED LinkVars(Far(q))
  BY <1>1, <1>2 DEF LinkVars, ucpCalls
<1>5. GlobalsSet(q)'
  BY <1>1, <1>2 DEF UcpInv, GlobalsSet
<1>6. ASSUME ~crossed' PROVE UcpLink(q)'
  <2>1. UcpLink(q) /\ PcTypes
    BY <1>1, <1>6 DEF UcpInv, UcpTypes
  <2>2. Addressed(q)'
    BY <1>1, <1>2, <2>1 DEF UcpLink, Addressed
  <2>3. QuietLink(q)' <=> QuietLink(q)
    BY <1>1 DEF QuietLink
  <2>4. /\ \A m : ToServer(q, m)' <=> ToServer(q, m)
        /\ \A m : ToClient(q, m)' <=> ToClient(q, m)
    BY <1>1 DEF ToServer, ToClient
  <2>5. StartedUp(q)'
    BY <1>1, <1>2, <2>1, <2>3, <2>4
       DEF UcpLink, StartedUp, Unserved, PcTypes, ClientPc, ServerPc, ucpCalls
  <2>6. Conversation(q)'
    BY <1>1, <1>2, <2>1 DEF UcpLink, Conversation, CallUnderWay
  <2>7. Answered(q)' /\ RanOnce(q)'
    BY <1>1, <2>1 DEF UcpLink, Answered, RanOnce, ucpCalls
  <2> QED BY <2>2, <2>5, <2>6, <2>7 DEF UcpLink
<1> QED BY <1>1, <1>3, <1>4, <1>5, <1>6, LinkStep DEF ucpCalls

-----------------------------------------------------------------------------
(* The calls.                                                              *)

\* What a step of a call leaves alone.
ExceptCalls == <<laddr, paddr, stored, tcp, uep, globals, crossed>>

\* The server takes a request, or loses it and keeps the one it had.
LEMMA RecvRequestStep ==
  ASSUME UcpInv, NEW q \in UcpPU, RecvRequest(Far(q)) PROVE UcpInv'
<1>1. PICK n \in Nat :
        /\ n = Head(tagged[Sv(q)]).n
        /\ upc[Sv(q)] = "serve" /\ upc' = [upc EXCEPT ![Sv(q)] = "handle"]
        /\ tagged[Sv(q)] # <<>> /\ tagged' = Took(Sv(q))
        /\ \/ ureq' = [ureq EXCEPT ![Far(q)] = n] /\ hit' = hit
           \/ ureq' = ureq /\ hit' = hit \cup {<<q, n>>}
        /\ UNCHANGED <<ExceptCalls, ucall, usent, ran, rets>>
  <2>1. tagged[Sv(q)] # <<>> /\ tagged' = Took(Sv(q))
    BY DEF RecvRequest, Sv
  <2>2. Head(tagged[Sv(q)]).n \in Nat
    BY <2>1, Taking DEF UcpInv, Message
  <2> QED BY <2>1, <2>2, LinkEnds DEF RecvRequest, UGo, Sv, ucpSetup, ExceptCalls
<1>2. /\ PcTypes'
      /\ upc'[Sv(q)] = "handle" /\ upc'[Cl(q)] = upc[Cl(q)]
      /\ upc'[Cl(Far(q))] = upc[Cl(Far(q))] /\ upc'[Sv(Far(q))] = upc[Sv(Far(q))]
  BY <1>1, ServerGoes DEF UcpInv, UcpTypes, ServerPc
<1>3. /\ tagged' \in [UcpThread -> Seq(Message)]
      /\ tagged'[Sv(q)] = Tail(tagged[Sv(q)])
      /\ \A o \in UcpThread : o # Sv(q) => tagged'[o] = tagged[o]
  BY <1>1, Taking DEF UcpInv
<1>4. /\ ureq' \in [UcpPU -> Nat] /\ ureq'[q] = ureq[q]
      /\ \/ ureq'[Far(q)] = n
         \/ ureq'[Far(q)] = ureq[Far(q)] /\ <<q, n>> \in hit'
      /\ hit \subseteq hit'
  <2>1. ureq \in [UcpPU -> Nat]
    BY DEF UcpInv, UcpTypes, CallTypes
  <2>2. CASE ureq' = [ureq EXCEPT ![Far(q)] = n] /\ hit' = hit
    BY <2>1, <2>2, LinkEnds
  <2>3. CASE ureq' = ureq /\ hit' = hit \cup {<<q, n>>}
    BY <2>1, <2>3
  <2> QED BY <1>1, <2>2, <2>3
<1>5. UcpTypes'
  BY <1>1, <1>2, <1>3, <1>4 DEF UcpInv, UcpTypes, CallTypes, SetupTypes, ExceptCalls
<1>6. UNCHANGED LinkVars(Far(q))
  BY <1>1, <1>2, <1>3, <1>4, LinkEnds DEF LinkVars, ExceptCalls
<1>7. GlobalsSet(q)'
  BY <1>1, <1>2 DEF UcpInv, GlobalsSet, ExceptCalls
<1>8. ASSUME ~crossed' PROVE UcpLink(q)'
  <2>1. UcpLink(q) /\ PcTypes
    BY <1>1, <1>8 DEF UcpInv, UcpTypes, ExceptCalls
  <2>2. /\ upc[Cl(q)] = "asleep" /\ ucall[q] /\ usent[q] > 0 /\ Len(rets[q]) = usent[q] - 1
        /\ ToServer(q, UMsg("call", NoWorker, usent[q]))
        /\ Len(ran[Far(q)]) = usent[q] - 1 /\ ureq[Far(q)] < usent[q]
    BY <1>1, <2>1 DEF UcpLink, StartedUp, Conversation, CallUnderWay, QuietLink, ToServer, ToClient,
       PcTypes, ClientPc, Unserved, ServerPc
  <2>3. n = usent[q] /\ QuietLink(q)'
    <3>1. tagged'[Cl(q)] = tagged[Cl(q)]
      BY <1>3, LinkEnds
    <3> QED BY <1>1, <1>3, <2>2, <3>1, OneMessage DEF QuietLink, ToServer, UMsg
  <2>4. Buffered(q)'
    BY <1>1, <1>4, <2>2, <2>3 DEF Buffered
  <2>5. Addressed(q)'
    BY <1>1, <1>2, <2>1 DEF UcpLink, Addressed, ExceptCalls
  <2>6. StartedUp(q)'
    BY <1>2, <2>2 DEF StartedUp
  <2>7. Conversation(q)'
    BY <1>1, <1>2, <2>2, <2>3, <2>4 DEF Conversation, CallUnderWay
  <2>8. Answered(q)' /\ RanOnce(q)'
    BY <1>1, <1>4, <2>1 DEF UcpLink, Answered, RanOnce
  <2> QED BY <2>5, <2>6, <2>7, <2>8 DEF UcpLink
<1> QED BY <1>1, <1>4, <1>5, <1>6, <1>7, <1>8, LinkStep DEF ExceptCalls

\* The server runs what is in dsm_call_buf.
LEMMA HandleStep ==
  ASSUME UcpInv, NEW q \in UcpPU, Handle(Far(q)) PROVE UcpInv'
<1>1. /\ upc[Sv(q)] = "handle" /\ upc' = [upc EXCEPT ![Sv(q)] = "answer"]
      /\ ran' = [ran EXCEPT ![Far(q)] = Append(ran[Far(q)], ureq[Far(q)])]
      /\ UNCHANGED <<ExceptCalls, tagged, ucall, usent, ureq, rets, hit>>
  BY DEF Handle, UGo, Sv, ucpSetup, ExceptCalls
<1>2. /\ PcTypes'
      /\ upc'[Sv(q)] = "answer" /\ upc'[Cl(q)] = upc[Cl(q)]
      /\ upc'[Cl(Far(q))] = upc[Cl(Far(q))] /\ upc'[Sv(Far(q))] = upc[Sv(Far(q))]
  BY <1>1, ServerGoes DEF UcpInv, UcpTypes, ServerPc
<1>3. ran[Far(q)] \in Seq(Nat) /\ ureq[Far(q)] \in Nat
  BY LinkEnds DEF UcpInv, UcpTypes, CallTypes
<1>4. /\ ran' \in [UcpPU -> Seq(Nat)] /\ ran'[q] = ran[q]
      /\ ran'[Far(q)] = Append(ran[Far(q)], ureq[Far(q)])
  <2>1. Append(ran[Far(q)], ureq[Far(q)]) \in Seq(Nat)
    BY <1>3
  <2>2. ran \in [UcpPU -> Seq(Nat)] /\ Far(q) \in UcpPU /\ Far(q) # q
    BY LinkEnds DEF UcpInv, UcpTypes, CallTypes
  <2> QED BY <1>1, <2>1, <2>2
<1>5. UcpTypes'
  BY <1>1, <1>2, <1>4 DEF UcpInv, UcpTypes, CallTypes, SetupTypes, ExceptCalls
<1>6. UNCHANGED LinkVars(Far(q))
  BY <1>1, <1>2, <1>4, LinkEnds DEF LinkVars, ExceptCalls
<1>7. GlobalsSet(q)'
  BY <1>1, <1>2 DEF UcpInv, GlobalsSet, ExceptCalls
<1>8. ASSUME ~crossed' PROVE UcpLink(q)'
  <2>1. UcpLink(q) /\ PcTypes
    BY <1>1, <1>8 DEF UcpInv, UcpTypes, ExceptCalls
  <2>2. /\ upc[Cl(q)] = "asleep" /\ ucall[q] /\ usent[q] > 0 /\ Len(rets[q]) = usent[q] - 1
        /\ QuietLink(q) /\ Len(ran[Far(q)]) = usent[q] - 1 /\ Buffered(q)
    BY <1>1, <2>1 DEF UcpLink, StartedUp, Conversation, CallUnderWay, PcTypes, ClientPc, Unserved,
       ServerPc
  <2>3. Len(ran'[Far(q)]) = usent[q]
    <3>1. usent[q] \in Nat
      BY DEF UcpInv, UcpTypes, CallTypes
    <3> QED BY <1>3, <1>4, <2>2, <3>1, Appended
  <2>4. QuietLink(q)' /\ Buffered(q)'
    BY <1>1, <2>2 DEF QuietLink, Buffered
  <2>5. Addressed(q)'
    BY <1>1, <1>2, <2>1 DEF UcpLink, Addressed, ExceptCalls
  <2>6. StartedUp(q)'
    BY <1>2, <2>2 DEF StartedUp
  <2>7. Conversation(q)'
    BY <1>1, <1>2, <2>2, <2>3, <2>4 DEF Conversation, CallUnderWay
  <2>8. Answered(q)'
    BY <1>1, <2>1 DEF UcpLink, Answered
  <2>9. RanOnce(q)'
    <3>1. Len(ran[Far(q)]) + 1 = usent[q]
      BY <2>2 DEF UcpInv, UcpTypes, CallTypes
    <3>2. /\ \A n \in DOMAIN ran[Far(q)] : ran'[Far(q)][n] = ran[Far(q)][n]
          /\ DOMAIN ran'[Far(q)] = DOMAIN ran[Far(q)] \cup {usent[q]}
          /\ ran'[Far(q)][usent[q]] = ureq[Far(q)]
      BY <1>3, <1>4, <3>1, Appended
    <3> QED BY <1>1, <2>1, <2>2, <3>2 DEF UcpLink, RanOnce, Buffered
  <2> QED BY <2>5, <2>6, <2>7, <2>8, <2>9 DEF UcpLink
<1> QED BY <1>1, <1>5, <1>6, <1>7, <1>8, LinkStep DEF ExceptCalls

\* The server answers with the number of what it has run, or the answer is lost.
LEMMA AnswerStep ==
  ASSUME UcpInv, NEW q \in UcpPU, Answer(Far(q)) PROVE UcpInv'
<1>1. /\ upc[Sv(q)] = "answer" /\ upc' = [upc EXCEPT ![Sv(q)] = "serve"]
      /\ \/ tagged' = Sent(uep[Sv(q)], UMsg("resp", NoWorker, ureq[Far(q)]))
         \/ tagged' = tagged
      /\ UNCHANGED <<ExceptCalls, ucall, usent, ureq, ran, rets, hit>>
  BY DEF Answer, UGo, Sv, ucpSetup, ucpCalls, ExceptCalls
<1>2. /\ PcTypes'
      /\ upc'[Sv(q)] = "serve" /\ upc'[Cl(q)] = upc[Cl(q)]
      /\ upc'[Cl(Far(q))] = upc[Cl(Far(q))] /\ upc'[Sv(Far(q))] = upc[Sv(Far(q))]
  BY <1>1, ServerGoes DEF UcpInv, UcpTypes, ServerPc
<1>3. UMsg("resp", NoWorker, ureq[Far(q)]) \in Message /\ uep[Sv(q)] \in Address
  BY LinkEnds DEF UcpInv, UcpTypes, SetupTypes, CallTypes, UMsg, Message
<1>4. UcpTypes'
  <2>1. tagged' \in [UcpThread -> Seq(Message)]
    BY <1>1, <1>3, SentTypes DEF UcpInv, UcpTypes, CallTypes
  <2> QED BY <1>1, <1>2, <2>1 DEF UcpInv, UcpTypes, CallTypes, SetupTypes, ExceptCalls
<1>5. GlobalsSet(q)'
  BY <1>1, <1>2 DEF UcpInv, GlobalsSet, ExceptCalls
<1>6. ASSUME ~crossed' PROVE UcpLink(q)' /\ UNCHANGED LinkVars(Far(q))
  <2>1. UcpLink(q) /\ uep[Sv(q)] = Cl(q) /\ PcTypes
    BY <1>1, <1>6 DEF UcpInv, UcpTypes, UcpLink, Addressed, ExceptCalls
  <2>2. PICK n \in Nat : n = ureq[Far(q)]
    BY LinkEnds DEF UcpInv, UcpTypes, CallTypes
  <2>3. /\ \/ tagged'[Cl(q)] = Append(tagged[Cl(q)], UMsg("resp", NoWorker, n))
           \/ tagged'[Cl(q)] = tagged[Cl(q)]
        /\ \A o \in UcpThread : o # Cl(q) => tagged'[o] = tagged[o]
    <3>1. UMsg("resp", NoWorker, n) \in Message
      BY <1>3, <2>2
    <3>2. CASE tagged' = Sent(Cl(q), UMsg("resp", NoWorker, n))
      BY <3>1, <3>2, UcpSending DEF UcpInv
    <3>3. CASE tagged' = tagged
      BY <3>3
    <3> QED BY <1>1, <2>1, <2>2, <3>2, <3>3
  <2>4. /\ upc[Cl(q)] = "asleep" /\ ucall[q] /\ usent[q] > 0 /\ Len(rets[q]) = usent[q] - 1
        /\ QuietLink(q) /\ Len(ran[Far(q)]) = usent[q] /\ Buffered(q)
    BY <1>1, <2>1 DEF UcpLink, StartedUp, Conversation, CallUnderWay, PcTypes, ClientPc, Unserved,
       ServerPc
  <2>5. ToClient(q, UMsg("resp", NoWorker, n))' \/ QuietLink(q)'
    <3>1. tagged'[Sv(q)] = tagged[Sv(q)]
      BY <2>3, LinkEnds
    <3> QED BY <2>3, <2>4, <3>1, OneMessage DEF QuietLink, ToClient, UMsg
  <2>6. Buffered(q)' /\ ureq'[Far(q)] = n
    BY <1>1, <2>2, <2>4 DEF Buffered
  <2>7. Addressed(q)'
    BY <1>1, <1>2, <2>1 DEF UcpLink, Addressed, ExceptCalls
  <2>8. StartedUp(q)'
    BY <1>2, <2>4 DEF StartedUp
  <2>9. Conversation(q)'
    BY <1>1, <1>2, <2>4, <2>5, <2>6 DEF Conversation, CallUnderWay
  <2>10. Answered(q)' /\ RanOnce(q)'
    BY <1>1, <2>1 DEF UcpLink, Answered, RanOnce
  <2>11. UNCHANGED LinkVars(Far(q))
    BY <1>1, <1>2, <2>3, LinkEnds DEF LinkVars, ExceptCalls
  <2> QED BY <2>7, <2>8, <2>9, <2>10, <2>11 DEF UcpLink
<1> QED BY <1>1, <1>2, <1>4, <1>5, <1>6, LinkStepUncrossed DEF ExceptCalls

\* A dsm_call sends its request, or the request is lost.
LEMMA CallSendStep ==
  ASSUME UcpInv, NEW q \in UcpPU, CallSend(q), globals[q] = 2 PROVE UcpInv'
<1>1. PICK n \in 1 .. MaxUcpCalls :
        /\ n = usent[q] + 1 /\ ~ucall[q]
        /\ ucall' = [ucall EXCEPT ![q] = TRUE] /\ usent' = [usent EXCEPT ![q] = n]
        /\ \/ tagged' = Sent(uep[Cl(q)], UMsg("call", NoWorker, n)) /\ hit' = hit
           \/ tagged' = tagged /\ hit' = hit \cup {<<q, n>>}
        /\ UNCHANGED <<ExceptCalls, upc, ureq, ran, rets>>
  <2>1. usent[q] \in 0 .. MaxUcpCalls /\ usent[q] < MaxUcpCalls /\ MaxUcpCalls \in Nat
    BY UcpAssumption DEF CallSend, UcpInv, UcpTypes, CallTypes
  <2>2. usent[q] + 1 \in 1 .. MaxUcpCalls
    BY <2>1
  <2> QED BY <2>2 DEF CallSend, Cl, ucpSetup, ExceptCalls
<1>2. UMsg("call", NoWorker, n) \in Message /\ uep[Cl(q)] \in Address
  BY LinkEnds DEF UcpInv, UcpTypes, SetupTypes, CallTypes, UMsg, Message
<1>3. /\ ucall' \in [UcpPU -> BOOLEAN] /\ ucall'[q] = TRUE /\ ucall'[Far(q)] = ucall[Far(q)]
      /\ usent' \in [UcpPU -> 0 .. MaxUcpCalls] /\ usent'[q] = n
      /\ usent'[Far(q)] = usent[Far(q)] /\ hit \subseteq hit'
      /\ n \in 0 .. MaxUcpCalls /\ n > 0
  <2>1. ucall \in [UcpPU -> BOOLEAN] /\ usent \in [UcpPU -> 0 .. MaxUcpCalls]
    BY DEF UcpInv, UcpTypes, CallTypes
  <2>2. n \in 0 .. MaxUcpCalls /\ n > 0
    BY UcpAssumption
  <2>3. hit \subseteq hit'
    BY <1>1
  <2> QED BY <1>1, <2>1, <2>2, <2>3, LinkEnds
<1>4. UcpTypes'
  <2>1. tagged' \in [UcpThread -> Seq(Message)]
    BY <1>1, <1>2, SentTypes DEF UcpInv, UcpTypes, CallTypes
  <2> QED BY <1>1, <1>3, <2>1 DEF UcpInv, UcpTypes, PcTypes, CallTypes, SetupTypes, ExceptCalls
<1>5. GlobalsSet(q)' /\ upc[Cl(q)] = "asleep"
  BY <1>1 DEF UcpInv, GlobalsSet, ExceptCalls
<1>6. ASSUME ~crossed' PROVE UcpLink(q)' /\ UNCHANGED LinkVars(Far(q))
  <2>1. UcpLink(q) /\ uep[Cl(q)] = Sv(q)
    BY <1>1, <1>5, <1>6 DEF UcpInv, UcpLink, Addressed, ExceptCalls
  <2>2. /\ QuietLink(q) /\ upc[Sv(q)] = "serve"
        /\ Len(ran[Far(q)]) = usent[q] /\ Len(rets[q]) = usent[q] /\ ureq[Far(q)] <= usent[q]
    BY <1>1, <1>5, <2>1 DEF UcpLink, Conversation
  <2>3. /\ \/ tagged'[Sv(q)] = Append(tagged[Sv(q)], UMsg("call", NoWorker, n))
           \/ tagged'[Sv(q)] = tagged[Sv(q)]
        /\ \A o \in UcpThread : o # Sv(q) => tagged'[o] = tagged[o]
    <3>1. CASE tagged' = Sent(Sv(q), UMsg("call", NoWorker, n))
      BY <1>2, <3>1, UcpSending DEF UcpInv
    <3>2. CASE tagged' = tagged
      BY <3>2
    <3> QED BY <1>1, <2>1, <3>1, <3>2
  <2>4. ToServer(q, UMsg("call", NoWorker, n))' \/ QuietLink(q)'
    <3>1. tagged'[Cl(q)] = tagged[Cl(q)]
      BY <2>3, LinkEnds
    <3> QED BY <2>2, <2>3, <3>1, OneMessage DEF QuietLink, ToServer, UMsg
  <2>5. Addressed(q)'
    BY <1>1, <2>1 DEF UcpLink, Addressed, ExceptCalls
  <2>6. StartedUp(q)'
    BY <1>1, <1>5 DEF StartedUp
  <2>7. Conversation(q)'
    <3>1. usent[q] \in Nat /\ ureq[Far(q)] \in Nat
      BY LinkEnds DEF UcpInv, UcpTypes, CallTypes
    <3>2. /\ upc'[Sv(q)] = "serve" /\ usent'[q] = n /\ n > 0 /\ ucall'[q]
          /\ Len(ran'[Far(q)]) = n - 1 /\ Len(rets'[q]) = n - 1 /\ ureq'[Far(q)] < n
      BY <1>1, <1>3, <2>2, <3>1
    <3> QED BY <2>4, <3>2 DEF Conversation, CallUnderWay
  <2>8. Answered(q)' /\ RanOnce(q)'
    BY <1>1, <1>3, <2>1 DEF UcpLink, Answered, RanOnce
  <2>9. UNCHANGED LinkVars(Far(q))
    <3>1. /\ tagged'[Cl(Far(q))] = tagged[Cl(Far(q))]
          /\ tagged'[Sv(Far(q))] = tagged[Sv(Far(q))]
      <4>1. \A o \in {Cl(Far(q)), Sv(Far(q))} : o \in UcpThread /\ o # Sv(q)
        BY LinkEnds
      <4> QED BY <2>3, <4>1
    <3> QED BY <1>1, <1>3, <3>1 DEF LinkVars, ExceptCalls
  <2> QED BY <1>3, <2>5, <2>6, <2>7, <2>8, <2>9 DEF UcpLink
<1> QED BY <1>1, <1>3, <1>4, <1>5, <1>6, LinkStepUncrossed DEF ExceptCalls

\* A dsm_call returns what has come for it, or garbage when a failure has hit it.
LEMMA CallRecvStep ==
  ASSUME UcpInv, NEW q \in UcpPU, CallRecv(q) PROVE UcpInv'
<1>1. PICK n \in Nat :
        /\ n = Head(tagged[Cl(q)]).n /\ ucall[q]
        /\ tagged[Cl(q)] # <<>> /\ tagged' = Took(Cl(q))
        /\ ucall' = [ucall EXCEPT ![q] = FALSE]
        /\ \/ rets' = [rets EXCEPT ![q] = Append(rets[q], n)] /\ hit' = hit
           \/ /\ rets' = [rets EXCEPT ![q] = Append(rets[q], 0)]
              /\ hit' = hit \cup {<<q, usent[q]>>}
        /\ UNCHANGED <<ExceptCalls, upc, usent, ureq, ran>>
  <2>1. tagged[Cl(q)] # <<>> /\ tagged' = Took(Cl(q))
    BY DEF CallRecv, Cl
  <2>2. Head(tagged[Cl(q)]).n \in Nat
    BY <2>1, Taking DEF UcpInv, Message
  <2> QED BY <2>1, <2>2 DEF CallRecv, Cl, ucpSetup, ExceptCalls
<1>2. /\ tagged' \in [UcpThread -> Seq(Message)]
      /\ tagged'[Cl(q)] = Tail(tagged[Cl(q)])
      /\ \A o \in UcpThread : o # Cl(q) => tagged'[o] = tagged[o]
  BY <1>1, Taking DEF UcpInv
<1>3. PICK x \in Nat :
        /\ rets' = [rets EXCEPT ![q] = Append(rets[q], x)]
        /\ x = n \/ <<q, usent[q]>> \in hit'
        /\ hit \subseteq hit'
  BY <1>1
<1>4. rets[q] \in Seq(Nat) /\ Append(rets[q], x) \in Seq(Nat)
  BY DEF UcpInv, UcpTypes, CallTypes
<1>5. /\ ucall' \in [UcpPU -> BOOLEAN] /\ ~ucall'[q] /\ ucall'[Far(q)] = ucall[Far(q)]
      /\ rets' \in [UcpPU -> Seq(Nat)] /\ rets'[q] = Append(rets[q], x)
      /\ rets'[Far(q)] = rets[Far(q)]
  <2>1. ucall \in [UcpPU -> BOOLEAN] /\ rets \in [UcpPU -> Seq(Nat)] /\ Far(q) # q
    BY LinkEnds DEF UcpInv, UcpTypes, CallTypes
  <2>2. ucall' \in [UcpPU -> BOOLEAN] /\ ~ucall'[q] /\ ucall'[Far(q)] = ucall[Far(q)]
    BY <1>1, <2>1, LinkEnds
  <2>3. rets' \in [UcpPU -> Seq(Nat)] /\ rets'[Far(q)] = rets[Far(q)]
    BY <1>3, <1>4, <2>1, LinkEnds
  <2>4. rets'[q] = Append(rets[q], x)
    BY <1>3, <2>1
  <2> QED BY <2>2, <2>3, <2>4
<1>6. UcpTypes'
  BY <1>1, <1>2, <1>5 DEF UcpInv, UcpTypes, PcTypes, CallTypes, SetupTypes, ExceptCalls
<1>7. UNCHANGED LinkVars(Far(q))
  <2>1. /\ tagged'[Cl(Far(q))] = tagged[Cl(Far(q))]
        /\ tagged'[Sv(Far(q))] = tagged[Sv(Far(q))]
    <3>1. \A o \in {Cl(Far(q)), Sv(Far(q))} : o \in UcpThread /\ o # Cl(q)
      BY LinkEnds
    <3> QED BY <1>2, <3>1
  <2> QED BY <1>1, <1>5, <2>1 DEF LinkVars, ExceptCalls
<1>8. GlobalsSet(q)'
  BY <1>1 DEF UcpInv, GlobalsSet, ExceptCalls
<1>9. ASSUME ~crossed' PROVE UcpLink(q)'
  <2>1. UcpLink(q)
    BY <1>1, <1>9 DEF UcpInv, ExceptCalls
  <2>2. upc[Cl(q)] = "asleep"
    BY <1>1, <2>1 DEF UcpLink, StartedUp
  <2>3. /\ usent[q] > 0 /\ Len(rets[q]) = usent[q] - 1 /\ upc[Sv(q)] = "serve"
        /\ ToClient(q, UMsg("resp", NoWorker, ureq[Far(q)]))
        /\ Len(ran[Far(q)]) = usent[q] /\ Buffered(q)
    BY <1>1, <2>1, <2>2 DEF UcpLink, Conversation, CallUnderWay, QuietLink, ToServer, ToClient
  <2>4. n = ureq[Far(q)] /\ QuietLink(q)'
    <3>1. tagged'[Sv(q)] = tagged[Sv(q)]
      BY <1>2, LinkEnds
    <3> QED BY <1>1, <1>2, <2>3, <3>1, OneMessage DEF QuietLink, ToClient, UMsg
  <2>5. usent[q] \in Nat /\ ureq[Far(q)] \in Nat /\ Len(rets[q]) + 1 = usent[q]
    BY <2>3, LinkEnds DEF UcpInv, UcpTypes, CallTypes
  <2>6. /\ Len(rets'[q]) = usent[q]
        /\ \A m \in DOMAIN rets[q] : rets'[q][m] = rets[q][m]
        /\ DOMAIN rets'[q] = DOMAIN rets[q] \cup {usent[q]}
        /\ rets'[q][usent[q]] = x
    BY <1>4, <1>5, <2>5, Appended
  <2>7. Addressed(q)'
    BY <1>1, <2>1 DEF UcpLink, Addressed, ExceptCalls
  <2>8. StartedUp(q)'
    BY <1>1, <2>2 DEF StartedUp
  <2>9. Conversation(q)'
    <3>1. ureq[Far(q)] <= usent[q]
      BY <2>3, <2>5 DEF Buffered
    <3> QED BY <1>1, <1>5, <2>3, <2>4, <2>6, <3>1 DEF Conversation
  <2>10. RanOnce(q)'
    BY <1>1, <1>3, <2>1 DEF UcpLink, RanOnce
  <2>11. Answered(q)'
    <3>1. x = usent[q] \/ <<q, usent[q]>> \in hit'
      BY <1>3, <2>3, <2>4 DEF Buffered
    <3> QED BY <1>3, <2>1, <2>6, <3>1 DEF UcpLink, Answered
  <2> QED BY <2>7, <2>8, <2>9, <2>10, <2>11 DEF UcpLink
<1> QED BY <1>1, <1>3, <1>6, <1>7, <1>8, <1>9, LinkStep DEF ExceptCalls

-----------------------------------------------------------------------------
(* The theorem.                                                            *)

\* Nothing has been said at the start.
LEMMA InitUcp == ASSUME UcpInit PROVE UcpInv
<1>1. /\ \A q \in UcpPU : upc[Cl(q)] = "worker" /\ upc[Sv(q)] = "worker"
      /\ \A q \in UcpPU : tagged[Cl(q)] = <<>> /\ tagged[Sv(q)] = <<>>
      /\ \A q \in UcpPU : uep[Cl(q)] = NoWorker /\ uep[Sv(q)] = NoWorker
      /\ \A q \in UcpPU : tcp[Far(q)].addr = NoWorker /\ ran[Far(q)] = <<>> /\ ureq[Far(q)] = 0
      /\ \A q \in UcpPU : ~ucall[q] /\ usent[q] = 0 /\ rets[q] = <<>> /\ globals[q] = 0
  BY LinkEnds DEF UcpInit
<1>2. PcTypes
  BY <1>1 DEF UcpInit, PcTypes, ClientPc, ServerPc
<1>3. SetupTypes
  BY LinkEnds DEF UcpInit, SetupTypes
<1>4. CallTypes
  <2>1. <<>> \in Seq(Message) /\ <<>> \in Seq(Nat) /\ 0 \in 0 .. MaxUcpCalls
    BY UcpAssumption
  <2> QED BY <2>1 DEF UcpInit, CallTypes
<1>5. \A q \in UcpPU : GlobalsSet(q)
  BY <1>1 DEF GlobalsSet
<1>6. \A q \in UcpPU : Addressed(q) /\ StartedUp(q) /\ Conversation(q)
  BY <1>1 DEF Addressed, StartedUp, Conversation, QuietLink, Unserved, ServerPc
<1>7. \A q \in UcpPU : Answered(q) /\ RanOnce(q)
  BY <1>1 DEF Answered, RanOnce
<1> QED BY <1>2, <1>3, <1>4, <1>5, <1>6, <1>7 DEF UcpInv, UcpTypes, UcpLink

\* A step that changes nothing, or ends a process that calls too early.
LEMMA IdleStep ==
  ASSUME UcpInv, UNCHANGED <<upc, ucpSetup, tagged, ucpCalls>> PROVE UcpInv'
<1>1. UcpTypes'
  BY DEF UcpInv, UcpTypes, PcTypes, SetupTypes, CallTypes, ucpSetup, ucpCalls
<1>2. \A q \in UcpPU : GlobalsSet(q)'
  BY DEF UcpInv, GlobalsSet, ucpSetup
<1>3. \A q \in UcpPU : UNCHANGED LinkVars(q) /\ hit \subseteq hit'
  BY DEF LinkVars, ucpSetup, ucpCalls
<1>4. crossed' = crossed
  BY DEF ucpSetup
<1> QED BY <1>1, <1>2, <1>3, <1>4, LinkFrame DEF UcpInv

\* Every step is a step of one link.
LEMMA NextUcp == ASSUME UcpInv, [UcpNext]_ucpVars PROVE UcpInv'
<1>1. CASE UNCHANGED ucpVars
  BY <1>1, IdleStep DEF ucpVars
<1>2. ASSUME NEW p \in UcpPU, UcpServer(p) \/ HelloFails(p) PROVE UcpInv'
  <2>1. PICK q \in UcpPU : p = Far(q) /\ <<p, "server">> = Sv(q)
    BY LinkEnds DEF Sv
  <2> QED BY <1>2, <2>1, ServerOpens, SendAddressStep, RecvIntroductionStep, EndpointStep,
             SendHelloStep, RecvRequestStep, HandleStep, AnswerStep, FailureStep
          DEF UcpServer
<1>3. ASSUME NEW q \in UcpPU, UcpClient(q) PROVE UcpInv'
  <2>1. <<q, "client">> = Cl(q)
    BY DEF Cl
  <2> QED BY <1>3, <2>1, ClientOpens, RecvAddressStep, EndpointStep, IntroduceStep,
             RecvHelloStep, UcpPublishStep
          DEF UcpClient
<1>4. ASSUME NEW q \in UcpPU, CallSend(q) PROVE UcpInv'
  <2>1. CASE globals[q] < 2
    BY <1>4, <2>1, IdleStep DEF CallSend, ucpCalls
  <2>2. CASE ~(globals[q] < 2)
    <3>1. globals[q] = 2
      BY <2>2 DEF UcpInv, UcpTypes, SetupTypes
    <3> QED BY <1>4, <3>1, CallSendStep
  <2> QED BY <2>1, <2>2
<1>5. ASSUME NEW t \in UcpThread, UcpFails(t) PROVE UcpInv'
  <2>1. PICK q \in UcpPU : t = Cl(q) \/ t = Sv(q)
    BY LinkEnds
  <2> QED BY <1>5, <2>1, FailureStep
<1> QED BY <1>1, <1>2, <1>3, <1>4, <1>5, CallRecvStep DEF UcpNext

\* What the invariant says about workers, answers and requests.
LEMMA InvIsSound == ASSUME UcpInv PROVE UcpSound
<1>1. UcpTypeOK
  <2>1. \A p \in UcpPU : /\ upc[<<p, "client">>] \in ClientPc \cup {"failed"}
                         /\ upc[<<p, "server">>] \in ServerPc \cup {"failed"}
    <3>1. \A p \in UcpPU : <<p, "client">> = Cl(p) /\ \E q \in UcpPU : <<p, "server">> = Sv(q)
      BY LinkEnds DEF Cl, Sv
    <3> QED BY <3>1 DEF UcpInv, UcpTypes, PcTypes
  <2>2. \A p \in UcpPU : /\ {laddr[p], paddr[p], tcp[p].addr} \subseteq Address
                         /\ usent[p] \in 0 .. MaxUcpCalls /\ globals[p] \in 0 .. 2
    BY DEF UcpInv, UcpTypes, SetupTypes, CallTypes
  <2>3. ASSUME ~crossed, NEW t \in UcpThread PROVE Len(tagged[t]) <= 1
    <3>1. PICK q \in UcpPU : t = Cl(q) \/ t = Sv(q)
      BY LinkEnds
    <3>2. \/ QuietLink(q) \/ (\E m : ToServer(q, m)) \/ (\E m : ToClient(q, m))
      BY <2>3 DEF UcpInv, UcpTypes, PcTypes, UcpLink, StartedUp, Conversation, CallUnderWay, ClientPc
    <3>3. tagged[t] = <<>> \/ \E m : tagged[t] = <<m>>
      BY <3>1, <3>2 DEF QuietLink, ToServer, ToClient
    <3>4. CASE tagged[t] = <<>>
      BY <3>4, NoMessage
    <3>5. CASE \E m : tagged[t] = <<m>>
      <4>1. PICK m : tagged[t] = <<m>>
        BY <3>5
      <4>2. Len(<<m>>) = 1
        BY OneMessage
      <4> QED BY <4>1, <4>2
    <3> QED BY <3>3, <3>4, <3>5
  <2> QED BY <2>1, <2>2, <2>3 DEF UcpTypeOK, Address
<1>2. WorkersPaired
  <2>1. ASSUME ~crossed, NEW p \in UcpPU
        PROVE  /\ uep[<<p, "client">>] \in {NoWorker, <<Far(p), "server">>}
               /\ uep[<<p, "server">>] \in {NoWorker, <<Far(p), "client">>}
    <3>1. /\ <<p, "client">> = Cl(p) /\ <<Far(p), "server">> = Sv(p)
          /\ <<p, "server">> = Sv(Far(p)) /\ <<Far(p), "client">> = Cl(Far(p))
      BY LinkEnds DEF Cl, Sv
    <3> QED BY <2>1, <3>1, LinkEnds DEF UcpInv, UcpLink, Addressed
  <2> QED BY <2>1 DEF WorkersPaired
<1>3. AnswersOwn
  BY DEF UcpInv, UcpLink, Answered, AnswersOwn
<1>4. RunsEach
  <2>1. ASSUME ~crossed, NEW p \in UcpPU, NEW n \in DOMAIN ran[p]
        PROVE  ran[p][n] = n \/ (<<Far(p), n>> \in hit /\ ran[p][n] < n)
    <3>1. RanOnce(Far(p)) /\ Far(Far(p)) = p
      BY <2>1, LinkEnds DEF UcpInv, UcpLink
    <3> QED BY <2>1, <3>1 DEF RanOnce
  <2> QED BY <2>1 DEF RunsEach
<1> QED BY <1>1, <1>2, <1>3, <1>4 DEF UcpSound

\* Unless the two threads of a PU get into each other's local_addr and peer_addr,
\* each client is connected to the server of the other PU, a worker has at most
\* one message that it has not taken, a dsm_call returns the answer to its own
\* request unless a failure has hit that call, and a server runs every request
\* once and in order, or the one before once more where it could not receive.
THEOREM UcpStaysSound == UcpSpec => []UcpSound
<1>1. UcpInit => UcpInv
  BY InitUcp
<1>2. UcpInv /\ [UcpNext]_ucpVars => UcpInv'
  BY NextUcp
<1>3. UcpInv => UcpSound
  BY InvIsSound
<1> QED BY <1>1, <1>2, <1>3, PTL DEF UcpSpec
=============================================================================
