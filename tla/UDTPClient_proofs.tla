--------------------------- MODULE UDTPClient_proofs ---------------------------
(***************************************************************************)
(* Theorems about UDTPClient for every number of start() calls.  The bits  *)
(* of _initProcess survive the unlocked loads and stores because a listen  *)
(* thread passes its first loop test only after the first start() is over: *)
(* that is the inductive part.  An application that lets the old listen    *)
(* threads end before it starts the instance again loses no bit at all.    *)
(***************************************************************************)
EXTENDS UDTPClient, TLAPS

--------------------------------------------------------------------------------
\* Places of start() after its self peer was added, and places of a listen
\* thread that has passed a loop test.
Registered == {"framework", "socket", "queue", "listen", "alive"}
Busy == {"poll", "read", "recv", "handle", "mark"}

\* The first start() that got as far as adding a self peer has stored all bits.
FirstDone == selves # <<>> /\ (Len(selves) = 1 => app \notin DOMAIN BitOf)

\* The bits the first self peer has by now.
Stage == [framework |-> {"MUTEX_SELF_INIT"},
          socket |-> {"MUTEX_SELF_INIT", "MUTEX_FRAMEWORK_INIT"},
          queue |-> {"MUTEX_SELF_INIT", "MUTEX_FRAMEWORK_INIT", "LISTEN_SOCKET"},
          listen |-> {"MUTEX_SELF_INIT", "MUTEX_FRAMEWORK_INIT",
                      "LISTEN_SOCKET", "QUEUE_THREADS"}]
Due == IF FirstDone THEN StartupBits ELSE Stage[app]

\* Where start() is, and what that says of the socket and the self peers.
Control ==
  /\ alive => app = "idle" /\ selves # <<>> /\ selves[Len(selves)].sock = sock
  /\ app # "idle" => starts # 0
  /\ app \in {"connect", "register"} => sock = starts
  /\ app \in Registered => selves # <<>> /\ selves[Len(selves)].sock = sock
  /\ appLoad # NotLoaded => app \in DOMAIN BitOf
  /\ selves # <<>> => sock \in Start
  /\ Len(selves) <= starts
  /\ app \in {"open", "connect", "register"} => Len(selves) < starts

\* What a listen thread at l may rely on.
Relies(l) ==
  /\ l.pc # "none" => selves # <<>>
  /\ l.pc \in Busy => FirstDone
  /\ l.pc = "mark" => /\ l.load # NotLoaded
                      /\ l.pos \in DOMAIN selves
                      /\ l.pos = 1 => StartupBits \subseteq l.load

\* No store loses a bit that is due, and HANDSHAKE comes after all of them.
BitsKept ==
  /\ selves # <<>> => Due \subseteq self.bits
  /\ appLoad # NotLoaded => Due \subseteq appLoad
  /\ selves # <<>> /\ ~FirstDone => "HANDSHAKE" \notin self.bits
  /\ appLoad # NotLoaded /\ ~FirstDone => "HANDSHAKE" \notin appLoad
  /\ \A t \in Start : Relies(listen[t])

ClientInv == TypeOK /\ Control /\ BitsKept

--------------------------------------------------------------------------------
\* The data the steps are built from.

LEMMA ThreadsAfterNat ==
  ASSUME NEW threads \in Nat, NEW n \in ThreadsAfter(threads)
  PROVE  n \in Nat
<1>1. PICK type \in AnyAcknowledge, code \in Codes, ratio \in Ratios :
        n \in RespondThreads(type, code, ratio, threads)
  BY DEF ThreadsAfter
<1> QED
  BY <1>1 DEF RespondThreads, AddThread, RemoveThread

LEMMA Marks == DOMAIN BitOf = {"framework", "socket", "queue", "listen"}
BY DEF BitOf

LEMMA LoadIsBits ==
  ASSUME NEW load \in Loads, load # NotLoaded
  PROVE  load \subseteq Event
BY DEF Loads

\* The self peer of the first start, where there is one.
LEMMA SelfIsPeer ==
  ASSUME TypeOK, selves # <<>>
  PROVE  1 \in DOMAIN selves /\ self \in SelfPeer /\ Len(selves) \in Nat \ {0}
         /\ Len(selves) \in DOMAIN selves
BY DEF TypeOK, self

\* One entry of the list of self peers is replaced by another of its socket.
LEMMA SelfUpdate ==
  ASSUME TypeOK, NEW pos \in DOMAIN selves, NEW p \in SelfPeer,
         p.sock = selves[pos].sock,
         selves' = [selves EXCEPT ![pos] = p]
  PROVE  /\ selves' \in Seq(SelfPeer)
         /\ Len(selves') = Len(selves)
         /\ \A i \in DOMAIN selves : selves'[i].sock = selves[i].sock
         /\ \A i \in DOMAIN selves : i # pos => selves'[i] = selves[i]
         /\ selves'[pos] = p
BY DEF TypeOK

--------------------------------------------------------------------------------
\* What one step of listen thread t changes.
ListenEffect(t) ==
  /\ alive' \in {alive, FALSE}
  /\ inbox' \in [Start -> Nat]
  /\ crashed' \in BOOLEAN
  /\ selves' \in Seq(SelfPeer)
  /\ Len(selves') = Len(selves)
  /\ \A i \in DOMAIN selves : selves'[i].sock = selves[i].sock
  /\ \/ selves'[1].bits = self.bits
     \/ /\ FirstDone
        /\ StartupBits \union {"HANDSHAKE"} \subseteq selves'[1].bits
  /\ \E l \in Listener : listen' = [listen EXCEPT ![t] = l] /\ Relies(l)

\* A thread that only moves on, past a loop test or to one.
LEMMA MovesOn ==
  ASSUME ClientInv, NEW t \in Start, NEW pc \in ListenPC \ {"mark"},
         Goto(t, pc), listen[t].pc # "none",
         pc \in Busy => alive \/ listen[t].pc \in Busy
  PROVE  \E l \in Listener : listen' = [listen EXCEPT ![t] = l] /\ Relies(l)
<1> DEFINE l == [listen[t] EXCEPT !.pc = pc]
<1>1. l \in Listener /\ l.pc = pc
  <2>1. listen[t] \in Listener
    BY DEF ClientInv, TypeOK
  <2> QED
    BY <2>1 DEF Listener
<1>2. listen' = [listen EXCEPT ![t] = l]
  BY DEF Goto
<1>3. pc \in Busy => FirstDone
  BY Marks DEF ClientInv, Control, BitsKept, Relies, FirstDone
<1>4. selves # <<>>
  BY DEF ClientInv, BitsKept, Relies
<1>5. Relies(l)
  BY <1>1, <1>3, <1>4 DEF Relies
<1> QED
  BY <1>1, <1>2, <1>5

LEMMA SendingCrashes ==
  ASSUME crashed \in BOOLEAN,
         SendFrom \/ UNCHANGED crashed \/ MayCrash
  PROVE  crashed' \in BOOLEAN
<1>1. CASE SendFrom
  <2>1. (link[self.sock] = "closed") \in BOOLEAN
    OBVIOUS
  <2> QED
    BY <1>1, <2>1, Zenon DEF SendFrom
<1> QED
  BY <1>1 DEF MayCrash

LEMMA HandshakeListens ==
  ASSUME ClientInv, NEW t \in Start, listen[t].pc = "handle", Handshake(t),
         UNCHANGED <<alive, inbox>>
  PROVE  ListenEffect(t)
<1>0. FirstDone /\ selves # <<>> /\ listen[t] \in Listener
  BY DEF ClientInv, BitsKept, Relies, TypeOK, Busy
<1>1. PICK code \in Codes, version \in Versions, chunk \in ChunkSizes :
        LET accept == CompareSettings(version, chunk) IN
        /\ \/ /\ Completes(code, accept) \/ code = "Approved"
              /\ \E pos \in DOMAIN selves :
                   /\ code = "Approved" => pos = 1
                   /\ listen' = [listen EXCEPT ![t].pc = "mark", ![t].pos = pos,
                                               ![t].load = selves[pos].bits]
              /\ UNCHANGED selves
           \/ /\ Kicks(code, accept)
              /\ \E pos \in DOMAIN selves :
                   selves' = [selves EXCEPT ![pos].online = FALSE]
              /\ Goto(t, "top")
           \/ /\ code \notin {"None", "Approved"}
              /\ Goto(t, "top")
              /\ UNCHANGED selves
        /\ \/ HandshakeResends(code, accept) /\ SendFrom
           \/ ~HandshakeResends(code, accept) /\ UNCHANGED crashed
           \/ MayCrash
  BY DEF Handshake
<1>2. crashed' \in BOOLEAN
  BY <1>1, SendingCrashes DEF ClientInv, TypeOK
<1>3. CASE /\ UNCHANGED selves
           /\ \E pos \in DOMAIN selves :
                listen' = [listen EXCEPT ![t].pc = "mark", ![t].pos = pos,
                                         ![t].load = selves[pos].bits]
  <2>1. PICK pos \in DOMAIN selves :
          listen' = [listen EXCEPT ![t].pc = "mark", ![t].pos = pos,
                                   ![t].load = selves[pos].bits]
    BY <1>3
  <2> DEFINE l == [listen[t] EXCEPT !.pc = "mark", !.pos = pos,
                                    !.load = selves[pos].bits]
  <2>2. selves[pos] \in SelfPeer
    BY DEF ClientInv, TypeOK
  <2>3. pos \in Start
    <3>1. Len(selves) \in Nat /\ pos \in 1 .. Len(selves)
      BY DEF ClientInv, TypeOK
    <3>2. Len(selves) <= starts /\ starts \in 0 .. MaxStart
      BY DEF ClientInv, TypeOK, Control
    <3> QED
      BY <3>1, <3>2, ClientAssumption DEF Start
  <2>4. selves[pos].bits \in SUBSET Event /\ selves[pos].bits # NotLoaded
    BY <2>2 DEF SelfPeer, NotLoaded, Event
  <2>5. l \in Listener /\ l.pc = "mark" /\ l.pos = pos /\ l.load = selves[pos].bits
    BY <1>0, <2>3, <2>4 DEF Listener, ListenPC, Loads
  <2>6. pos = 1 => StartupBits \subseteq selves[pos].bits
    BY <1>0 DEF ClientInv, BitsKept, Due, self
  <2>7. Relies(l)
    BY <1>0, <2>4, <2>5, <2>6 DEF Relies
  <2>8. listen' = [listen EXCEPT ![t] = l]
    BY <2>1
  <2> QED
    BY <1>2, <1>3, <2>5, <2>7, <2>8 DEF ListenEffect, self, ClientInv, TypeOK
<1>4. CASE /\ Goto(t, "top")
           /\ \E pos \in DOMAIN selves :
                selves' = [selves EXCEPT ![pos].online = FALSE]
  <2>1. \E l \in Listener : listen' = [listen EXCEPT ![t] = l] /\ Relies(l)
    BY <1>4, MovesOn DEF ListenPC, Busy
  <2>2. PICK pos \in DOMAIN selves :
          selves' = [selves EXCEPT ![pos].online = FALSE]
    BY <1>4
  <2> DEFINE p == [selves[pos] EXCEPT !.online = FALSE]
  <2>3. /\ p \in SelfPeer /\ p.sock = selves[pos].sock
        /\ p.bits = selves[pos].bits
        /\ selves' = [selves EXCEPT ![pos] = p]
    <3>1. selves[pos] \in SelfPeer
      BY DEF ClientInv, TypeOK
    <3> QED
      BY <2>2, <3>1 DEF SelfPeer
  <2> HIDE DEF p
  <2>4. selves'[1].bits = self.bits
    BY <1>0, <2>3, SelfUpdate, SelfIsPeer DEF ClientInv, self
  <2> QED
    BY <1>2, <2>1, <2>3, <2>4, SelfUpdate DEF ListenEffect, ClientInv, TypeOK
<1>5. CASE Goto(t, "top") /\ UNCHANGED selves
  <2>1. \E l \in Listener : listen' = [listen EXCEPT ![t] = l] /\ Relies(l)
    BY <1>5, MovesOn DEF ListenPC, Busy
  <2> QED
    BY <1>2, <1>5, <2>1 DEF ListenEffect, self, ClientInv, TypeOK
<1> QED
  BY <1>1, <1>3, <1>4, <1>5

LEMMA AcknowledgeListens ==
  ASSUME ClientInv, NEW t \in Start, listen[t].pc = "handle", Acknowledge(t),
         UNCHANGED <<alive, inbox>>
  PROVE  ListenEffect(t)
<1>0. selves # <<>>
  BY DEF ClientInv, BitsKept, Relies, TypeOK
<1>1. crashed' \in BOOLEAN
  BY SendingCrashes DEF Acknowledge, ClientInv, TypeOK
<1>2. \E l \in Listener : listen' = [listen EXCEPT ![t] = l] /\ Relies(l)
  BY MovesOn DEF Acknowledge, ListenPC, Busy
<1>3. PICK n \in ThreadsAfter(self.threads) :
        selves' = [selves EXCEPT ![1].threads = n]
  BY DEF Acknowledge
<1>4. 1 \in DOMAIN selves /\ self \in SelfPeer
  BY <1>0, SelfIsPeer DEF ClientInv
<1>5. n \in Nat
  BY <1>4, ThreadsAfterNat DEF SelfPeer
<1> DEFINE p == [selves[1] EXCEPT !.threads = n]
<1>6. /\ p \in SelfPeer /\ p.sock = selves[1].sock /\ p.bits = self.bits
      /\ selves' = [selves EXCEPT ![1] = p]
  BY <1>3, <1>4, <1>5 DEF SelfPeer, self
<1> HIDE DEF p
<1> QED
  BY <1>1, <1>2, <1>4, <1>6, SelfUpdate DEF ListenEffect, ClientInv, TypeOK

LEMMA MarkListens ==
  ASSUME ClientInv, NEW t \in Start, Mark(t)
  PROVE  ListenEffect(t)
<1>1. /\ listen[t] \in Listener /\ listen[t].pc = "mark"
      /\ Relies(listen[t]) /\ FirstDone /\ selves # <<>>
  BY DEF Mark, ClientInv, TypeOK, BitsKept, Relies, Busy
<1> DEFINE pos == listen[t].pos
           bits == listen[t].load \union {"HANDSHAKE"}
           p == [selves[pos] EXCEPT !.bits = bits]
           l == [listen[t] EXCEPT !.pc = "top", !.load = NotLoaded]
<1>2. pos \in DOMAIN selves /\ (pos = 1 => StartupBits \subseteq listen[t].load)
  BY <1>1 DEF Relies
<1>3. bits \in SUBSET Event
  <2>1. listen[t].load \in Loads /\ listen[t].load # NotLoaded
    BY <1>1 DEF Relies, Listener
  <2> QED
    BY <2>1, LoadIsBits DEF Event
<1>4. /\ p \in SelfPeer /\ p.sock = selves[pos].sock /\ p.bits = bits
      /\ selves' = [selves EXCEPT ![pos] = p]
  <2>1. selves[pos] \in SelfPeer
    BY <1>2 DEF ClientInv, TypeOK
  <2>2. selves' = [selves EXCEPT ![pos] = p]
    BY DEF Mark
  <2> QED
    BY <1>3, <2>1, <2>2 DEF SelfPeer
<1>5. l \in Listener /\ l.pc = "top" /\ listen' = [listen EXCEPT ![t] = l]
  BY <1>1 DEF Mark, Listener, ListenPC, Loads
<1>6. Relies(l)
  BY <1>1, <1>5 DEF Relies, Busy
<1> HIDE DEF p, l
<1>7. /\ selves' \in Seq(SelfPeer)
      /\ Len(selves') = Len(selves)
      /\ \A i \in DOMAIN selves : selves'[i].sock = selves[i].sock
      /\ \A i \in DOMAIN selves : i # pos => selves'[i] = selves[i]
      /\ selves'[pos] = p
  BY <1>2, <1>4, SelfUpdate DEF ClientInv
<1>8. \/ selves'[1].bits = self.bits
      \/ StartupBits \union {"HANDSHAKE"} \subseteq selves'[1].bits
  BY <1>1, <1>2, <1>4, <1>7, SelfIsPeer DEF ClientInv, self
<1> QED
  BY <1>1, <1>5, <1>6, <1>7, <1>8 DEF Mark, ListenEffect, ClientInv, TypeOK

LEMMA Listening ==
  ASSUME ClientInv, NEW t \in Start, ListenThread(t)
  PROVE  ListenEffect(t) /\ UNCHANGED <<app, appLoad, starts, sock, link, queue>>
<1>0. listen[t] \in Listener
  BY DEF ClientInv, TypeOK
<1>1. CASE ThreadBegin(t)
  <2> DEFINE l == [listen[t] EXCEPT !.pc = "top", !.fd = sock]
  <2>1. l \in Listener /\ l.pc = "top" /\ listen' = [listen EXCEPT ![t] = l]
    BY <1>0, <1>1 DEF ThreadBegin, Listener, ListenPC, ClientInv, TypeOK
  <2>2. Relies(l)
    BY <1>1, <2>1 DEF ThreadBegin, ClientInv, BitsKept, Relies, Busy
  <2> HIDE DEF l
  <2> QED
    BY <1>1, <2>1, <2>2
    DEF ListenThread, ThreadBegin, ListenEffect, self, ClientInv, TypeOK
<1>2. CASE CheckAlive(t)
  <2>1. \E l \in Listener : listen' = [listen EXCEPT ![t] = l] /\ Relies(l)
    <3>1. CASE alive
      BY <1>2, <3>1, MovesOn DEF CheckAlive, ListenPC, Busy
    <3>2. CASE ~alive
      BY <1>2, <3>2, MovesOn DEF CheckAlive, ListenPC, Busy
    <3> QED
      BY <3>1, <3>2
  <2> QED
    BY <1>2, <2>1
    DEF ListenThread, CheckAlive, ListenEffect, self, ClientInv, TypeOK
<1>3. CASE Poll(t)
  <2>1. \E l \in Listener : listen' = [listen EXCEPT ![t] = l] /\ Relies(l)
    BY <1>3, MovesOn DEF Poll, ListenPC, Busy
  <2> QED
    BY <1>3, <2>1
    DEF ListenThread, Poll, ListenEffect, self, ClientInv, TypeOK
<1>4. CASE Read(t)
  <2>1. \E l \in Listener : listen' = [listen EXCEPT ![t] = l] /\ Relies(l)
    BY <1>4, MovesOn DEF Read, ListenPC, Busy
  <2>2. sock \in Start
    BY <1>4 DEF Read, ClientInv, BitsKept, Relies, Control
  <2>3. inbox' \in [Start -> Nat]
    BY <1>4, <2>2 DEF Read, HasHeader, Unconnected, ClientInv, TypeOK
  <2>4. alive' \in {alive, FALSE}
    BY <1>4 DEF Read, StopAtEnd
  <2> QED
    BY <1>4, <2>1, <2>3, <2>4
    DEF ListenThread, Read, ListenEffect, self, ClientInv, TypeOK
<1>5. CASE Recv(t)
  <2>1. \E l \in Listener : listen' = [listen EXCEPT ![t] = l] /\ Relies(l)
    BY <1>5, MovesOn DEF Recv, ListenPC, Busy
  <2> QED
    BY <1>5, <2>1
    DEF ListenThread, Recv, ListenEffect, self, ClientInv, TypeOK
<1>6. CASE Handle(t)
  <2>1. CASE HeaderOrPath(t)
    <3>1. \E l \in Listener : listen' = [listen EXCEPT ![t] = l] /\ Relies(l)
      BY <1>6, <2>1, MovesOn DEF Handle, HeaderOrPath, ListenPC, Busy
    <3>2. crashed' \in BOOLEAN
      BY <2>1, SendingCrashes DEF HeaderOrPath, ClientInv, TypeOK
    <3> QED
      BY <1>6, <2>1, <3>1, <3>2
      DEF ListenThread, Handle, HeaderOrPath, ListenEffect, self, ClientInv, TypeOK
  <2> QED
    BY <1>6, <2>1, HandshakeListens, AcknowledgeListens DEF Handle, ListenThread
<1>7. CASE Mark(t)
  BY <1>7, MarkListens DEF ListenThread
<1> QED
  BY <1>1, <1>2, <1>3, <1>4, <1>5, <1>6, <1>7 DEF ListenThread

--------------------------------------------------------------------------------
\* The invariant holds at first and is kept by every step.

LEMMA ClientInit == Init => ClientInv
<1> SUFFICES ASSUME Init PROVE ClientInv
  OBVIOUS
<1>1. \A t \in Start : listen[t] \in Listener
  BY ClientAssumption DEF Init, Listener, ListenPC, Loads, Start
<1>2. TypeOK
  <2>1. alive \in BOOLEAN /\ crashed \in BOOLEAN
    BY DEF Init
  <2>2. listen \in [Start -> Listener]
    BY <1>1 DEF Init
  <2>3. app \in AppPC /\ appLoad \in Loads /\ selves \in Seq(SelfPeer)
    BY DEF Init, AppPC, Loads
  <2>4. starts \in 0 .. MaxStart /\ sock \in Start \union {0}
    BY ClientAssumption DEF Init
  <2>5. /\ link \in [Start -> LinkState]
        /\ inbox \in [Start -> Nat]
        /\ queue \in [Start -> {"none", "new", "waiting", "ended"}]
    BY DEF Init, LinkState
  <2> QED
    BY <2>1, <2>2, <2>3, <2>4, <2>5 DEF TypeOK
<1>3. Control
  BY DEF Init, Control, Registered
<1>4. BitsKept
  BY DEF Init, BitsKept, Relies, Busy
<1> QED
  BY <1>2, <1>3, <1>4 DEF ClientInv

\* A listen thread may rely on the same after steps of others that let the first
\* start() go on and remove no self peer.
LEMMA ReliesKept ==
  ASSUME BitsKept, FirstDone => FirstDone', selves # <<>> => selves' # <<>>,
         DOMAIN selves \subseteq DOMAIN selves', UNCHANGED listen
  PROVE  \A t \in Start : Relies(listen[t])'
BY DEF BitsKept, Relies

LEMMA ListenKeeps ==
  ASSUME ClientInv, NEW t \in Start, ListenThread(t)
  PROVE  ClientInv'
<1>1. ListenEffect(t) /\ UNCHANGED <<app, appLoad, starts, sock, link, queue>>
  BY Listening
<1>2. PICK l \in Listener : listen' = [listen EXCEPT ![t] = l] /\ Relies(l)
  BY <1>1 DEF ListenEffect
<1>3. /\ selves' \in Seq(SelfPeer) /\ Len(selves') = Len(selves)
      /\ selves \in Seq(SelfPeer)
      /\ \A i \in DOMAIN selves : selves'[i].sock = selves[i].sock
      /\ alive' => alive
  <2>1. alive' => alive
    BY <1>1, Zenon DEF ListenEffect
  <2> QED
    BY <1>1, <2>1 DEF ListenEffect, ClientInv, TypeOK
<1>4. DOMAIN selves' = DOMAIN selves /\ (selves' = <<>> <=> selves = <<>>)
      /\ (FirstDone' <=> FirstDone) /\ Due' = Due
  BY <1>1, <1>3 DEF FirstDone, Due
<1>5. TypeOK'
  BY <1>1, <1>2 DEF ListenEffect, ClientInv, TypeOK
<1>6. Control'
  BY <1>1, <1>3, <1>4 DEF ClientInv, Control
<1>7. \A u \in Start : Relies(listen[u])'
  <2> SUFFICES ASSUME NEW u \in Start PROVE Relies(listen[u])'
    OBVIOUS
  <2>1. listen'[u] = IF u = t THEN l ELSE listen[u]
    BY <1>2 DEF ClientInv, TypeOK
  <2> QED
    BY <1>2, <1>4, <2>1 DEF Relies, ClientInv, BitsKept
<1>8. BitsKept'
  <2>1. \/ self'.bits = self.bits
        \/ FirstDone /\ StartupBits \subseteq self'.bits
    BY <1>1 DEF ListenEffect, self
  <2> QED
    BY <1>1, <1>4, <1>7, <2>1 DEF ClientInv, BitsKept, Due
<1> QED
  BY <1>5, <1>6, <1>8 DEF ClientInv

LEMMA BeginKeeps == ClientInv /\ Begin => ClientInv'
<1> SUFFICES ASSUME ClientInv, Begin PROVE ClientInv'
  OBVIOUS
<1>0. /\ app = "idle" /\ app' = "open" /\ ~alive
      /\ starts' = starts + 1 /\ starts \in Nat /\ starts' \in 0 .. MaxStart
      /\ Len(selves) \in Nat
  BY ClientAssumption DEF Begin, Running, ClientInv, TypeOK
<1>1. TypeOK'
  BY <1>0 DEF Begin, ClientInv, TypeOK, AppPC
<1>2. Control'
  BY <1>0, Marks DEF Begin, ClientInv, Control, Registered
<1>3. BitsKept'
  <2>1. ((FirstDone' <=> FirstDone) /\ Due' = Due) \/ selves = <<>>
    BY Marks DEF Begin, FirstDone, Due
  <2>2. FirstDone' <=> FirstDone
    BY <2>1 DEF Begin, FirstDone
  <2>3. \A t \in Start : Relies(listen[t])'
    BY <2>2, ReliesKept DEF Begin, ClientInv
  <2>4. appLoad = NotLoaded
    BY Marks DEF Begin, ClientInv, Control
  <2> QED
    BY <2>1, <2>2, <2>3, <2>4 DEF Begin, ClientInv, BitsKept, self
<1> QED
  BY <1>1, <1>2, <1>3 DEF ClientInv

LEMMA OpenKeeps == ClientInv /\ (OpenSocket \/ ConnectSocket) => ClientInv'
<1> SUFFICES ASSUME ClientInv, OpenSocket \/ ConnectSocket PROVE ClientInv'
  OBVIOUS
<1>0. starts \in Start /\ ~alive /\ appLoad = NotLoaded
  BY Marks DEF OpenSocket, ConnectSocket, ClientInv, TypeOK, Control, Start
<1>1. TypeOK'
  BY <1>0 DEF OpenSocket, ConnectSocket, ClientInv, TypeOK, AppPC, LinkState
<1>2. Control'
  BY <1>0 DEF OpenSocket, ConnectSocket, ClientInv, TypeOK, Control, Registered
<1>3. BitsKept'
  <2>1. ((FirstDone' <=> FirstDone) /\ Due' = Due) \/ selves = <<>>
    BY Marks DEF OpenSocket, ConnectSocket, FirstDone, Due
  <2>2. FirstDone' <=> FirstDone
    BY <2>1 DEF OpenSocket, ConnectSocket, FirstDone
  <2>3. \A t \in Start : Relies(listen[t])'
    BY <2>2, ReliesKept DEF OpenSocket, ConnectSocket, ClientInv
  <2> QED
    BY <1>0, <2>1, <2>2, <2>3 DEF OpenSocket, ConnectSocket, ClientInv, BitsKept, self
<1> QED
  BY <1>1, <1>2, <1>3 DEF ClientInv

LEMMA AddSelfKeeps == ClientInv /\ AddSelf => ClientInv'
<1> SUFFICES ASSUME ClientInv, AddSelf PROVE ClientInv'
  OBVIOUS
<1> DEFINE p == [sock |-> sock, online |-> TRUE,
                 bits |-> {"MUTEX_SELF_INIT"}, threads |-> 0]
<1>0. sock \in Start /\ ~alive /\ appLoad = NotLoaded
  BY Marks DEF AddSelf, ClientInv, TypeOK, Control, Start
<1>1. p \in SelfPeer /\ p.sock = sock /\ p.bits = {"MUTEX_SELF_INIT"}
      /\ selves' = Append(selves, p)
  BY <1>0 DEF AddSelf, SelfPeer, Event
<1> HIDE DEF p
<1>2. /\ selves' \in Seq(SelfPeer) /\ Len(selves') = Len(selves) + 1
      /\ Len(selves) \in Nat
      /\ DOMAIN selves \subseteq DOMAIN selves'
      /\ selves'[Len(selves')] = p
      /\ selves # <<>> => selves'[1] = selves[1]
      /\ selves' # <<>>
  BY <1>1 DEF ClientInv, TypeOK
<1>3. TypeOK'
  BY <1>2 DEF AddSelf, ClientInv, TypeOK, AppPC
<1>4. Control'
  BY <1>0, <1>1, <1>2 DEF AddSelf, ClientInv, TypeOK, Control
<1>5. CASE selves = <<>>
  <2>1. ~FirstDone' /\ Due' = {"MUTEX_SELF_INIT"}
    BY <1>2, <1>5, Marks DEF AddSelf, FirstDone, Due, Stage
  <2>2. self'.bits = {"MUTEX_SELF_INIT"}
    BY <1>1, <1>2, <1>5 DEF self
  <2>3. ~FirstDone
    BY <1>5 DEF FirstDone
  <2>4. \A t \in Start : Relies(listen[t])'
    BY <1>2, <2>3, ReliesKept DEF AddSelf, ClientInv
  <2>5. BitsKept'
    BY <1>0, <2>1, <2>2, <2>4 DEF AddSelf, BitsKept
  <2> QED
    BY <1>3, <1>4, <2>5 DEF ClientInv
<1>6. CASE selves # <<>>
  <2>1. FirstDone /\ FirstDone'
    BY <1>2, <1>6, Marks DEF AddSelf, FirstDone, ClientInv, TypeOK
  <2>2. Due = StartupBits /\ Due' = StartupBits /\ self' = self
    BY <1>2, <1>6, <2>1 DEF Due, self
  <2>3. \A t \in Start : Relies(listen[t])'
    BY <1>2, <2>1, ReliesKept DEF AddSelf, ClientInv
  <2>4. BitsKept'
    BY <1>0, <1>6, <2>1, <2>2, <2>3 DEF AddSelf, ClientInv, BitsKept
  <2> QED
    BY <1>3, <1>4, <2>4 DEF ClientInv
<1> QED
  BY <1>5, <1>6

LEMMA LoadKeeps == ClientInv /\ LoadBits => ClientInv'
<1> SUFFICES ASSUME ClientInv, LoadBits PROVE ClientInv'
  OBVIOUS
<1>0. /\ app \in Registered /\ starts \in Start /\ selves # <<>>
      /\ self \in SelfPeer
  BY Marks, SelfIsPeer
  DEF LoadBits, ClientInv, TypeOK, Control, Start, Registered
<1>1. self.bits \in Loads
  BY <1>0 DEF SelfPeer, Loads
<1>2. \A t \in Start : listen'[t] = listen[t]
                       \/ listen'[t] = [listen[t] EXCEPT !.pc = "new"]
  BY DEF LoadBits, ClientInv, TypeOK
<1>3. \A t \in Start : listen[t] \in Listener
  BY DEF ClientInv, TypeOK
<1>4. listen' \in [Start -> Listener]
  <2>1. \A t \in Start : listen'[t] \in Listener
    BY <1>2, <1>3 DEF Listener, ListenPC
  <2>2. listen' = [t \in Start |-> listen'[t]]
    BY DEF LoadBits, ClientInv, TypeOK
  <2> QED
    BY <2>1, <2>2
<1>5. TypeOK'
  BY <1>0, <1>1, <1>4 DEF LoadBits, ClientInv, TypeOK
<1>6. Control'
  BY DEF LoadBits, ClientInv, Control
<1>7. /\ FirstDone' <=> FirstDone
      /\ Due' = Due
  BY DEF LoadBits, FirstDone, Due
<1>8. \A t \in Start : Relies(listen[t])'
  <2> SUFFICES ASSUME NEW t \in Start PROVE Relies(listen[t])'
    OBVIOUS
  <2>1. CASE listen'[t] = listen[t]
    BY <1>7, <2>1 DEF LoadBits, ClientInv, BitsKept, Relies
  <2>2. CASE listen'[t] = [listen[t] EXCEPT !.pc = "new"]
    <3>1. listen'[t].pc = "new"
      BY <1>3, <2>2 DEF Listener
    <3> QED
      BY <1>0, <3>1 DEF LoadBits, Relies, Busy
  <2> QED
    BY <1>2, <2>1, <2>2
<1>9. BitsKept'
  BY <1>0, <1>7, <1>8 DEF LoadBits, ClientInv, BitsKept, self
<1> QED
  BY <1>5, <1>6, <1>9 DEF ClientInv

LEMMA StoreKeeps == ClientInv /\ StoreBits => ClientInv'
<1> SUFFICES ASSUME ClientInv, StoreBits PROVE ClientInv'
  OBVIOUS
<1>0. /\ app \in Registered /\ selves # <<>>
      /\ 1 \in DOMAIN selves /\ self \in SelfPeer
  BY Marks, SelfIsPeer DEF StoreBits, ClientInv, Control, Registered
<1> DEFINE bits == appLoad \union {BitOf[app]}
           p == [selves[1] EXCEPT !.bits = bits]
<1>1. bits \subseteq Event
  <2>1. appLoad \subseteq Event
    BY LoadIsBits DEF StoreBits, ClientInv, TypeOK
  <2>2. BitOf[app] \in Event
    BY Marks DEF StoreBits, BitOf, Event
  <2> QED
    BY <2>1, <2>2
<1>2. /\ p \in SelfPeer /\ p.sock = selves[1].sock /\ p.bits = bits
      /\ selves' = [selves EXCEPT ![1] = p]
  BY <1>0, <1>1 DEF StoreBits, SelfPeer, self
<1> HIDE DEF p
<1>3. /\ selves' \in Seq(SelfPeer) /\ Len(selves') = Len(selves)
      /\ selves \in Seq(SelfPeer)
      /\ \A i \in DOMAIN selves : selves'[i].sock = selves[i].sock
      /\ selves'[1] = p
  BY <1>0, <1>2, SelfUpdate DEF ClientInv, TypeOK
<1>4. DOMAIN selves' = DOMAIN selves /\ selves' # <<>>
  BY <1>0, <1>3
<1>5. /\ app' \in Registered /\ app' \in AppPC
      /\ app = "framework" => app' = "socket"
      /\ app = "socket" => app' = "queue"
      /\ app = "queue" => app' = "listen"
      /\ app = "listen" => app' = "alive"
  BY Marks DEF StoreBits, After, Registered, AppPC
<1>6. TypeOK'
  BY <1>3, <1>5 DEF StoreBits, ClientInv, TypeOK, Loads
<1>7. Control'
  <2>1. ~alive /\ starts # 0 /\ selves[Len(selves)].sock = sock
    BY <1>0, Marks DEF StoreBits, ClientInv, Control
  <2>2. Len(selves) \in DOMAIN selves
    BY <1>0, SelfIsPeer DEF ClientInv
  <2> QED
    BY <1>3, <1>4, <1>5, <2>1, <2>2
    DEF StoreBits, ClientInv, Control, Registered
<1>8. FirstDone => FirstDone'
  BY <1>3, <1>4 DEF FirstDone, StoreBits
<1>9. \A t \in Start : Relies(listen[t])'
  BY <1>4, <1>8, ReliesKept DEF StoreBits, ClientInv
<1>10. Due' \subseteq bits
  <2>0. Due \subseteq appLoad
    BY DEF StoreBits, ClientInv, BitsKept
  <2>1. CASE FirstDone
    BY <1>8, <2>0, <2>1 DEF Due
  <2>2. CASE ~FirstDone /\ FirstDone'
    <3>1. app = "listen"
      BY <1>3, <1>5, <2>2, Marks DEF StoreBits, FirstDone
    <3> QED
      BY <2>0, <2>2, <3>1 DEF Due, Stage, BitOf, StartupBits
  <2>3. CASE ~FirstDone /\ ~FirstDone'
    <3>1. Stage[app] \subseteq appLoad /\ Due' = Stage[app']
      BY <2>0, <2>3 DEF Due
    <3>2. app' \in DOMAIN BitOf
      BY <1>4, <2>3 DEF FirstDone
    <3>3. Stage[app'] \subseteq Stage[app] \union {BitOf[app]}
      BY <1>5, <3>2, Marks DEF StoreBits, Stage, BitOf
    <3> QED
      BY <3>1, <3>3
  <2> QED
    BY <2>1, <2>2, <2>3
<1>11. ~FirstDone' => "HANDSHAKE" \notin bits
  <2>1. BitOf[app] # "HANDSHAKE"
    BY Marks DEF StoreBits, BitOf
  <2> QED
    BY <1>8, <2>1 DEF StoreBits, ClientInv, BitsKept
<1>12. BitsKept'
  BY <1>2, <1>3, <1>9, <1>10, <1>11 DEF StoreBits, BitsKept, self
<1> QED
  BY <1>6, <1>7, <1>12 DEF ClientInv

LEMMA AliveKeeps == ClientInv /\ (SetAlive \/ Stop) => ClientInv'
<1> SUFFICES ASSUME ClientInv, SetAlive \/ Stop PROVE ClientInv'
  OBVIOUS
<1>0. app \in {"alive", "idle"} /\ app' = "idle" /\ appLoad = NotLoaded
      /\ UNCHANGED <<appLoad, starts, sock, link, inbox, selves, listen, queue,
                     crashed>>
  BY Marks DEF SetAlive, Stop, ClientInv, Control
<1>1. TypeOK'
  BY <1>0 DEF SetAlive, Stop, ClientInv, TypeOK, AppPC
<1>2. Control'
  BY <1>0 DEF SetAlive, Stop, ClientInv, Control, Registered
<1>3. (FirstDone' <=> FirstDone) /\ (Due' = Due \/ selves = <<>>)
  BY <1>0, Marks DEF FirstDone, Due
<1>4. \A t \in Start : Relies(listen[t])'
  BY <1>0, <1>3, ReliesKept DEF ClientInv
<1>5. BitsKept'
  BY <1>0, <1>3, <1>4 DEF ClientInv, BitsKept, self
<1> QED
  BY <1>1, <1>2, <1>5 DEF ClientInv

\* Steps of the queue threads, of the HOST, and stuttering.
LEMMA OthersKeep ==
  ASSUME ClientInv, TypeOK',
         UNCHANGED <<app, appLoad, starts, alive, sock, selves, listen>>
  PROVE  ClientInv'
<1>1. (FirstDone' <=> FirstDone) /\ Due' = Due
  BY DEF FirstDone, Due
<1>2. \A t \in Start : Relies(listen[t])'
  BY <1>1, ReliesKept DEF ClientInv
<1> QED
  BY <1>1, <1>2 DEF ClientInv, Control, BitsKept, self

LEMMA ClientNext == ClientInv /\ [Next]_vars => ClientInv'
<1> SUFFICES ASSUME ClientInv, [Next]_vars PROVE ClientInv'
  OBVIOUS
<1>1. CASE Begin
  BY <1>1, BeginKeeps
<1>2. CASE StartSteps
  BY <1>2, OpenKeeps, AddSelfKeeps, LoadKeeps, StoreKeeps, AliveKeeps
  DEF StartSteps
<1>3. CASE Stop
  BY <1>3, AliveKeeps
<1>4. ASSUME NEW t \in Start, QueueThread(t) PROVE ClientInv'
  <2>1. TypeOK'
    BY <1>4 DEF QueueThread, ClientInv, TypeOK
  <2> QED
    BY <1>4, <2>1, OthersKeep DEF QueueThread
<1>5. ASSUME NEW t \in Start, ListenThread(t) PROVE ClientInv'
  BY <1>5, ListenKeeps
<1>6. ASSUME NEW s \in Start, Host(s) PROVE ClientInv'
  <2>1. TypeOK'
    <3>1. /\ link' \in [Start -> LinkState]
          /\ inbox' \in [Start -> Nat]
      <4>1. CASE HostSend(s)
        BY <4>1 DEF HostSend, ClientInv, TypeOK
      <4>2. CASE HostClose(s)
        <5>1. link' \in [Start -> LinkState]
          BY <4>2 DEF HostClose, ClientInv, TypeOK, LinkState
        <5>2. 1 \in Nat /\ inbox \in [Start -> Nat]
          BY DEF ClientInv, TypeOK
        <5>3. inbox' \in [Start -> Nat]
          BY <4>2, <5>2, Zenon DEF HostClose
        <5> QED
          BY <5>1, <5>3
      <4> QED
        BY <1>6, <4>1, <4>2 DEF Host
    <3> QED
      BY <1>6, <3>1 DEF Host, ClientInv, TypeOK
  <2> QED
    BY <1>6, <2>1, OthersKeep DEF Host
<1>7. CASE UNCHANGED vars
  <2>1. TypeOK'
    BY <1>7 DEF vars, ClientInv, TypeOK
  <2> QED
    BY <1>7, <2>1, OthersKeep DEF vars
<1> QED
  BY <1>1, <1>2, <1>3, <1>4, <1>5, <1>6, <1>7 DEF Next

LEMMA ClientInvariant == Spec => []ClientInv
BY ClientInit, ClientNext, PTL DEF Spec

--------------------------------------------------------------------------------
\* start(), its threads and the list of self peers keep their types, restarts
\* and old threads included.
THEOREM ClientTypes == Spec => []TypeOK
<1>1. ClientInv => TypeOK
  BY DEF ClientInv
<1> QED
  BY <1>1, ClientInvariant, PTL

\* No unlocked store to _initProcess loses an event of the start-up: an instance
\* that runs, or has completed its handshake, has recorded all of them.
THEOREM StartupIsComplete == Spec => []StartupComplete
<1>1. ClientInv => StartupComplete
  <2> SUFFICES ASSUME ClientInv, selves # <<>>,
                      alive \/ "HANDSHAKE" \in self.bits
               PROVE  StartupBits \subseteq self.bits
    BY DEF StartupComplete
  <2>1. FirstDone
    BY Marks DEF ClientInv, Control, BitsKept, FirstDone
  <2> QED
    BY <2>1 DEF ClientInv, BitsKept, Due
<1> QED
  BY <1>1, ClientInvariant, PTL

\* A start() that fails or is refused never moves the socket under an instance
\* that runs.
THEOREM NewestSelfOwnsSocket == Spec => []NewestSelfHasSocket
<1>1. ClientInv => NewestSelfHasSocket
  BY DEF ClientInv, Control, NewestSelfHasSocket
<1> QED
  BY <1>1, ClientInvariant, PTL

--------------------------------------------------------------------------------
\* Patient applications.  One listen thread lives at a time, the newest start's,
\* and it handles packets only while no start() is under way: so whatever was
\* loaded of an _initProcess is still there when it is stored.
PatientInv ==
  /\ \A t \in Start :
       /\ listen[t].pc \notin {"none", "ended"} => t = starts
       /\ listen[t].pc \in Busy => app = "idle"
       /\ listen[t].pc = "mark" => listen[t].load = selves[listen[t].pos].bits
  /\ appLoad # NotLoaded => appLoad = self.bits

\* The self peers have gained entries and bits, and lost none.
Grown == \A i \in DOMAIN selves : i \in DOMAIN selves'
                                  /\ selves[i].bits \subseteq selves'[i].bits

\* What one step of the listen thread does to the bits, where it goes next.
PatientEffect(t) ==
  /\ Grown
  /\ selves' = selves \/ listen[t].pc \in Busy
  /\ \E l \in Listener :
       /\ listen' = [listen EXCEPT ![t] = l]
       /\ l.pc \in Busy => alive \/ listen[t].pc \in Busy
       /\ l.pc = "mark" => l.load = selves'[l.pos].bits

\* A thread that only moves on stores nothing.
LEMMA MovingKeepsBits ==
  ASSUME ClientInv, NEW t \in Start, NEW pc \in ListenPC \ {"mark"},
         Goto(t, pc), pc \in Busy => alive \/ listen[t].pc \in Busy,
         selves' = selves \/ (Grown /\ listen[t].pc \in Busy)
  PROVE  PatientEffect(t)
<1> DEFINE l == [listen[t] EXCEPT !.pc = pc]
<1>1. l \in Listener /\ l.pc = pc
  <2>1. listen[t] \in Listener
    BY DEF ClientInv, TypeOK
  <2> QED
    BY <2>1 DEF Listener
<1>2. listen' = [listen EXCEPT ![t] = l]
  BY DEF Goto
<1> HIDE DEF l
<1>3. Grown
  BY DEF Grown
<1> QED
  BY <1>1, <1>2, <1>3 DEF PatientEffect

\* One self peer is replaced by one that has all of its bits.
LEMMA UpdateGrows ==
  ASSUME TypeOK, NEW pos \in DOMAIN selves, NEW p \in SelfPeer,
         p.sock = selves[pos].sock, selves[pos].bits \subseteq p.bits,
         selves' = [selves EXCEPT ![pos] = p]
  PROVE  Grown
<1>1. /\ selves' \in Seq(SelfPeer) /\ selves \in Seq(SelfPeer)
      /\ Len(selves') = Len(selves)
      /\ \A i \in DOMAIN selves : i # pos => selves'[i] = selves[i]
      /\ selves'[pos] = p
  BY SelfUpdate DEF TypeOK
<1> QED
  BY <1>1 DEF Grown

LEMMA HandshakeGrows ==
  ASSUME ClientInv, NEW t \in Start, listen[t].pc = "handle", Handshake(t)
  PROVE  PatientEffect(t)
<1>0. listen[t] \in Listener /\ "handle" \in Busy
  BY DEF ClientInv, TypeOK, Busy
<1>1. CASE /\ UNCHANGED selves
           /\ \E pos \in DOMAIN selves :
                listen' = [listen EXCEPT ![t].pc = "mark", ![t].pos = pos,
                                         ![t].load = selves[pos].bits]
  <2>1. PICK pos \in DOMAIN selves :
          listen' = [listen EXCEPT ![t].pc = "mark", ![t].pos = pos,
                                   ![t].load = selves[pos].bits]
    BY <1>1
  <2> DEFINE l == [listen[t] EXCEPT !.pc = "mark", !.pos = pos,
                                    !.load = selves[pos].bits]
  <2>2. selves[pos] \in SelfPeer
    BY DEF ClientInv, TypeOK
  <2>3. pos \in Start
    <3>1. Len(selves) \in Nat /\ pos \in 1 .. Len(selves)
      BY DEF ClientInv, TypeOK
    <3>2. Len(selves) <= starts /\ starts \in 0 .. MaxStart
      BY DEF ClientInv, TypeOK, Control
    <3> QED
      BY <3>1, <3>2, ClientAssumption DEF Start
  <2>4. l \in Listener /\ l.pos = pos /\ l.load = selves[pos].bits
    BY <1>0, <2>2, <2>3 DEF Listener, ListenPC, Loads, SelfPeer
  <2>5. listen' = [listen EXCEPT ![t] = l]
    BY <2>1
  <2> HIDE DEF l
  <2> QED
    BY <1>0, <1>1, <2>4, <2>5 DEF PatientEffect, Grown
<1>2. CASE /\ Goto(t, "top")
           /\ \E pos \in DOMAIN selves :
                selves' = [selves EXCEPT ![pos].online = FALSE]
  <2>1. PICK pos \in DOMAIN selves :
          selves' = [selves EXCEPT ![pos].online = FALSE]
    BY <1>2
  <2> DEFINE p == [selves[pos] EXCEPT !.online = FALSE]
  <2>2. /\ p \in SelfPeer /\ p.sock = selves[pos].sock
        /\ p.bits = selves[pos].bits
        /\ selves' = [selves EXCEPT ![pos] = p]
    <3>1. selves[pos] \in SelfPeer
      BY DEF ClientInv, TypeOK
    <3> QED
      BY <2>1, <3>1 DEF SelfPeer
  <2> HIDE DEF p
  <2>3. Grown
    BY <2>2, UpdateGrows DEF ClientInv
  <2> QED
    BY <1>0, <1>2, <2>3, MovingKeepsBits DEF ListenPC, Busy
<1>3. CASE Goto(t, "top") /\ UNCHANGED selves
  BY <1>3, MovingKeepsBits DEF ListenPC, Busy
<1> QED
  BY <1>1, <1>2, <1>3 DEF Handshake

LEMMA AcknowledgeGrows ==
  ASSUME ClientInv, NEW t \in Start, listen[t].pc = "handle", Acknowledge(t)
  PROVE  PatientEffect(t)
<1>0. selves # <<>> /\ "handle" \in Busy
  BY DEF ClientInv, BitsKept, Relies, Busy
<1>1. PICK n \in ThreadsAfter(self.threads) :
        selves' = [selves EXCEPT ![1].threads = n]
  BY DEF Acknowledge
<1>2. 1 \in DOMAIN selves /\ self \in SelfPeer
  BY <1>0, SelfIsPeer DEF ClientInv
<1>3. n \in Nat
  BY <1>2, ThreadsAfterNat DEF SelfPeer
<1> DEFINE p == [selves[1] EXCEPT !.threads = n]
<1>4. /\ p \in SelfPeer /\ p.sock = selves[1].sock /\ p.bits = selves[1].bits
      /\ selves' = [selves EXCEPT ![1] = p]
  BY <1>1, <1>2, <1>3 DEF SelfPeer, self
<1> HIDE DEF p
<1>5. Grown
  BY <1>2, <1>4, UpdateGrows DEF ClientInv
<1> QED
  BY <1>0, <1>5, MovingKeepsBits DEF Acknowledge, ListenPC, Busy

LEMMA MarkGrows ==
  ASSUME ClientInv, PatientInv, NEW t \in Start, Mark(t)
  PROVE  PatientEffect(t)
<1>1. /\ listen[t] \in Listener /\ listen[t].pc = "mark" /\ "mark" \in Busy
      /\ Relies(listen[t])
  BY DEF Mark, ClientInv, TypeOK, BitsKept, Busy
<1> DEFINE pos == listen[t].pos
           bits == listen[t].load \union {"HANDSHAKE"}
           p == [selves[pos] EXCEPT !.bits = bits]
           l == [listen[t] EXCEPT !.pc = "top", !.load = NotLoaded]
<1>2. pos \in DOMAIN selves /\ selves[pos] \in SelfPeer
      /\ listen[t].load = selves[pos].bits
  BY <1>1 DEF Relies, PatientInv, ClientInv, TypeOK
<1>3. /\ p \in SelfPeer /\ p.sock = selves[pos].sock
      /\ selves[pos].bits \subseteq p.bits
      /\ selves' = [selves EXCEPT ![pos] = p]
  <2>1. selves' = [selves EXCEPT ![pos] = p]
    BY DEF Mark
  <2>2. bits \in SUBSET Event
    BY <1>2 DEF SelfPeer, Event
  <2> QED
    BY <1>2, <2>1, <2>2 DEF SelfPeer
<1>4. l \in Listener /\ l.pc = "top" /\ listen' = [listen EXCEPT ![t] = l]
  BY <1>1 DEF Mark, Listener, ListenPC, Loads
<1> HIDE DEF p, l
<1>5. Grown
  BY <1>2, <1>3, UpdateGrows DEF ClientInv
<1> QED
  BY <1>1, <1>4, <1>5 DEF PatientEffect, Busy

LEMMA ListenGrows ==
  ASSUME ClientInv, PatientInv, NEW t \in Start, ListenThread(t)
  PROVE  PatientEffect(t)
<1>1. CASE ThreadBegin(t)
  <2> DEFINE l == [listen[t] EXCEPT !.pc = "top", !.fd = sock]
  <2>1. l \in Listener /\ l.pc = "top" /\ listen' = [listen EXCEPT ![t] = l]
    BY <1>1 DEF ThreadBegin, Listener, ListenPC, ClientInv, TypeOK
  <2> HIDE DEF l
  <2> QED
    BY <1>1, <2>1 DEF ThreadBegin, PatientEffect, Grown, Busy
<1>2. CASE CheckAlive(t)
  <2>1. CASE alive
    BY <1>2, <2>1, MovingKeepsBits DEF CheckAlive, ListenPC, Busy
  <2>2. CASE ~alive
    BY <1>2, <2>2, MovingKeepsBits DEF CheckAlive, ListenPC, Busy
  <2> QED
    BY <2>1, <2>2
<1>3. CASE Poll(t)
  BY <1>3, MovingKeepsBits DEF Poll, ListenPC, Busy
<1>4. CASE Read(t)
  BY <1>4, MovingKeepsBits DEF Read, ListenPC, Busy
<1>5. CASE Recv(t)
  BY <1>5, MovingKeepsBits DEF Recv, ListenPC, Busy
<1>6. CASE Handle(t)
  <2>1. CASE HeaderOrPath(t)
    BY <1>6, <2>1, MovingKeepsBits DEF Handle, HeaderOrPath, ListenPC, Busy
  <2> QED
    BY <1>6, <2>1, HandshakeGrows, AcknowledgeGrows DEF Handle
<1>7. CASE Mark(t)
  BY <1>7, MarkGrows
<1> QED
  BY <1>1, <1>2, <1>3, <1>4, <1>5, <1>6, <1>7 DEF ListenThread

\* Only a thread that was created and has not ended takes a step.
LEMMA ListenLives ==
  ASSUME NEW t \in Start, ListenThread(t)
  PROVE  listen[t].pc \notin {"none", "ended"}
BY DEF ListenThread, ThreadBegin, CheckAlive, Poll, Read, Recv, Handle, Mark

LEMMA PatientListenKeeps ==
  ASSUME ClientInv, PatientInv, NEW t \in Start, ListenThread(t)
  PROVE  PatientInv' /\ Grown
<1>1. PatientEffect(t) /\ t = starts /\ UNCHANGED <<app, appLoad, starts>>
  BY ListenGrows, ListenLives DEF PatientInv, ListenThread
<1>2. PICK l \in Listener :
        /\ listen' = [listen EXCEPT ![t] = l]
        /\ l.pc \in Busy => alive \/ listen[t].pc \in Busy
        /\ l.pc = "mark" => l.load = selves'[l.pos].bits
  BY <1>1 DEF PatientEffect
<1>3. \A u \in Start : listen'[u] = IF u = t THEN l ELSE listen[u]
  BY <1>2 DEF ClientInv, TypeOK
<1>4. l.pc \in Busy => app = "idle"
  BY <1>2 DEF PatientInv, ClientInv, Control
<1>5. \A u \in Start :
        /\ listen'[u].pc \notin {"none", "ended"} => u = starts
        /\ listen'[u].pc \in Busy => app = "idle"
        /\ listen'[u].pc = "mark" => listen'[u].load = selves'[listen'[u].pos].bits
  <2> SUFFICES ASSUME NEW u \in Start, u # t, listen'[u] = listen[u]
               PROVE  listen[u].pc \in {"none", "ended"}
    BY <1>1, <1>2, <1>3, <1>4 DEF Busy
  <2> QED
    BY <1>1 DEF PatientInv
<1>6. appLoad # NotLoaded => selves' = selves
  BY <1>1, Marks DEF PatientEffect, PatientInv, ClientInv, Control
<1> QED
  BY <1>1, <1>5, <1>6 DEF PatientInv, PatientEffect, self

\* A step of start(): no listen thread handles a packet meanwhile.
LEMMA NoneBusy ==
  ASSUME PatientInv, app # "idle", NEW t \in Start
  PROVE  listen[t].pc \notin Busy
BY DEF PatientInv

\* Steps that move no listen thread, other than to create one, of a start().
LEMMA StartingKeeps ==
  ASSUME ClientInv, PatientInv, StartSteps
  PROVE  PatientInv' /\ Grown
<1>1. app # "idle" /\ starts' = starts
  BY Marks
  DEF StartSteps, OpenSocket, ConnectSocket, AddSelf, LoadBits, StoreBits, SetAlive
<1>2. \A t \in Start : listen[t].pc \notin Busy /\ listen[t] \in Listener
  BY <1>1, NoneBusy DEF ClientInv, TypeOK
<1>3. \A t \in Start :
        \/ listen'[t] = listen[t]
        \/ listen'[t].pc = "new" /\ t = starts
  <2>1. CASE UNCHANGED listen
    BY <2>1
  <2>2. CASE LoadBits
    BY <1>2, <2>2 DEF LoadBits, ClientInv, TypeOK, Listener
  <2> QED
    BY <2>1, <2>2 DEF StartSteps, OpenSocket, ConnectSocket, AddSelf, StoreBits, SetAlive
<1>4. \A t \in Start :
        /\ listen'[t].pc \notin Busy
        /\ listen'[t].pc \notin {"none", "ended"} => t = starts'
  BY <1>1, <1>2, <1>3 DEF PatientInv, Busy
<1>5. Grown /\ (appLoad' # NotLoaded => appLoad' = self'.bits)
  <2>1. CASE OpenSocket \/ ConnectSocket \/ SetAlive
    BY <2>1 DEF OpenSocket, ConnectSocket, SetAlive, PatientInv, Grown, self
  <2>2. CASE LoadBits
    BY <2>2 DEF LoadBits, Grown, self
  <2>3. CASE AddSelf
    <3>1. appLoad' = NotLoaded
      BY <2>3, Marks DEF AddSelf, ClientInv, Control
    <3>2. Grown
      BY <2>3 DEF AddSelf, Grown, ClientInv, TypeOK
    <3> QED
      BY <3>1, <3>2
  <2>4. CASE StoreBits
    <3>1. selves # <<>>
      BY <2>4, Marks DEF StoreBits, ClientInv, Control, Registered
    <3>2. 1 \in DOMAIN selves /\ self \in SelfPeer /\ appLoad = self.bits
      BY <2>4, <3>1, SelfIsPeer DEF StoreBits, ClientInv, PatientInv
    <3> DEFINE p == [selves[1] EXCEPT !.bits = appLoad \union {BitOf[app]}]
    <3>3. BitOf[app] \in Event
      BY <2>4, Marks DEF StoreBits, BitOf, Event
    <3>4. /\ p \in SelfPeer /\ p.sock = selves[1].sock
          /\ selves[1].bits \subseteq p.bits
          /\ selves' = [selves EXCEPT ![1] = p]
      BY <2>4, <3>2, <3>3 DEF StoreBits, SelfPeer, self
    <3> HIDE DEF p
    <3>5. Grown
      BY <3>2, <3>4, UpdateGrows DEF ClientInv
    <3> QED
      BY <2>4, <3>5 DEF StoreBits
  <2> QED
    BY <2>1, <2>2, <2>3, <2>4 DEF StartSteps
<1> QED
  BY <1>4, <1>5 DEF PatientInv, Busy

LEMMA PatientInit == Init => ClientInv /\ PatientInv
BY ClientInit DEF Init, PatientInv, Busy

LEMMA PatientSteps ==
  ASSUME ClientInv, PatientInv, [PatientNext]_vars
  PROVE  PatientInv' /\ Grown
<1>1. CASE Begin
  <2>1. ThreadsEnded
    <3>1. starts' = starts + 1 /\ starts \in Nat
      BY <1>1, ClientAssumption DEF Begin, ClientInv, TypeOK
    <3>2. starts' > starts
      BY <3>1
    <3>3. PatientNext
      BY <3>1 DEF vars
    <3> QED
      BY <3>2, <3>3 DEF PatientNext
  <2>2. \A t \in Start : listen[t].pc \in {"none", "ended"}
    BY <2>1 DEF ThreadsEnded
  <2>3. UNCHANGED <<appLoad, selves, listen>>
    BY <1>1 DEF Begin
  <2> QED
    BY <2>2, <2>3 DEF PatientInv, Grown, Busy, self
<1>2. CASE StartSteps
  BY <1>2, StartingKeeps
<1>3. ASSUME NEW t \in Start, ListenThread(t) PROVE PatientInv' /\ Grown
  BY <1>3, PatientListenKeeps
<1>4. CASE UNCHANGED <<app, appLoad, starts, selves, listen>>
  BY <1>4 DEF PatientInv, Grown, self
<1> QED
  BY <1>1, <1>2, <1>3, <1>4
  DEF PatientNext, Next, Stop, QueueThread, Host, vars

LEMMA PatientInvariant == PatientSpec => [](ClientInv /\ PatientInv)
<1>1. [PatientNext]_vars => [Next]_vars
  BY DEF PatientNext
<1>2. ClientInv /\ PatientInv /\ [PatientNext]_vars => (ClientInv /\ PatientInv)'
  BY <1>1, ClientNext, PatientSteps
<1> QED
  BY <1>2, PatientInit, PTL DEF PatientSpec

\* An application that restarts the instance only when no listen thread is left
\* loses no event of any self peer, although nothing locks _initProcess.
THEOREM EventsStay == PatientSpec => EventsKept
<1>1. ClientInv /\ PatientInv /\ [PatientNext]_vars
        => [\A i \in DOMAIN selves : selves[i].bits \subseteq selves'[i].bits]_vars
  BY PatientSteps DEF Grown
<1> QED
  BY <1>1, PatientInvariant, PTL DEF PatientSpec, EventsKept

\* An application that starts the instance once is patient.
LEMMA OneStartIsPatient == MaxStart = 1 => (Spec => PatientSpec)
<1> SUFFICES ASSUME MaxStart = 1 PROVE Spec => PatientSpec
  OBVIOUS
<1>2. ClientInv /\ PatientInv /\ [Next]_vars => [PatientNext]_vars
  <2> SUFFICES ASSUME ClientInv, PatientInv, Next, starts' > starts
               PROVE  ThreadsEnded
    BY DEF PatientNext
  <2>1. Begin
    BY DEF Next, Begin, StartSteps, OpenSocket, ConnectSocket, AddSelf, LoadBits, StoreBits,
           SetAlive, Stop, QueueThread, ListenThread, Host, ClientInv, TypeOK
  <2>2. starts = 0
    BY <2>1 DEF Begin, ClientInv, TypeOK
  <2> QED
    BY <2>2 DEF PatientInv, ThreadsEnded, Start
<1>3. ClientInv /\ PatientInv /\ [Next]_vars => ClientInv' /\ PatientInv'
  BY <1>2, ClientNext, PatientSteps
<1> QED
  BY <1>2, <1>3, PatientInit, PTL DEF Spec, PatientSpec

\* With one start() nothing is lost, whatever the application does.
COROLLARY OneStartKeeps == MaxStart = 1 => (Spec => EventsKept)
BY OneStartIsPatient, EventsStay, PTL

================================================================================
