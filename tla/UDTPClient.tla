------------------------------ MODULE UDTPClient ------------------------------
(***************************************************************************)
(* A UDTP object used as PEER: start() and stop() on the application's     *)
(* thread, and the threads start() creates: listenThread (client half) and *)
(* listenQueueThread.  Each start() has an index of its own, which also    *)
(* names the socket, the self peer and the threads it creates.             *)
(*                                                                         *)
(* As on the HOST, no payload is ever received (recv() is given no valid   *)
(* buffer), so the type a read() yields and the payload are any; recv()    *)
(* does wait for bytes to be there.                                        *)
(*                                                                         *)
(* Definitions named after another one with a suffix are mistakes the code *)
(* might have made; no specification uses them.                            *)
(***************************************************************************)
EXTENDS UDTPHandshake, UDTPAcknowledge, Sequences, FiniteSets

CONSTANTS
  MaxStart,     \* bound: calls of start()
  MaxInbox,     \* bound: unread headers on one socket
  MaxThreads    \* bound: flow threads of a self peer

ASSUME ClientAssumption ==
  /\ MaxStart \in Nat \ {0}
  /\ MaxInbox \in Nat \ {0}
  /\ MaxThreads \in Nat

VARIABLES
  app,        \* where start() is on the application's thread
  appLoad,    \* the _initProcess it has loaded to set a bit in, or NotLoaded
  starts,     \* calls of start() that passed its first test
  alive,      \* _isAlive
  sock,       \* _listenSocket
  link,       \* link[s]: the connection of socket s
  inbox,      \* inbox[s]: headers read() can still return on s
  selves,     \* _listPeers: one self peer per completed start()
  listen,     \* listen[t]: the listen threads
  queue,      \* queue[t]: the queue threads
  crashed     \* the process died

vars == <<app, appLoad, starts, alive, sock, link, inbox, selves, listen, queue,
          crashed>>

Start == 1..MaxStart
Event == {"LISTEN_SOCKET", "LISTEN_THREAD", "MUTEX_FRAMEWORK_INIT",
          "MUTEX_SELF_INIT", "QUEUE_THREADS", "HANDSHAKE", "COMPLETE"}
NotLoaded == {"NotLoaded"}
Loads == (SUBSET Event) \union {NotLoaded}
SelfPeer == [sock : Start, online : BOOLEAN, bits : SUBSET Event, threads : Nat]
ListenPC == {"none", "new", "top", "poll", "read", "recv", "handle", "mark",
             "ended"}
Listener == [pc : ListenPC, fd : Start \union {0}, load : Loads, pos : Start]
LinkState == {"none", "opened", "up", "refused", "closed"}
AppPC == {"idle", "open", "connect", "register", "framework", "socket", "queue",
          "listen", "alive"}

self == selves[1]

--------------------------------------------------------------------------------
Init ==
  /\ app = "idle"
  /\ appLoad = NotLoaded
  /\ starts = 0
  /\ alive = FALSE
  /\ sock = 0
  /\ link = [s \in Start |-> "none"]
  /\ inbox = [s \in Start |-> 0]
  /\ selves = <<>>
  /\ listen = [t \in Start |->
                 [pc |-> "none", fd |-> 0, load |-> NotLoaded, pos |-> 1]]
  /\ queue = [t \in Start |-> "none"]
  /\ crashed = FALSE

--------------------------------------------------------------------------------
\* start(PEER), statement by statement: the threads it creates run meanwhile.

RunningUnchecked == FALSE
Running == alive

\* ALREADY_RUNNING if it is, which changes nothing modelled here.
Begin ==
  /\ app = "idle"
  /\ starts < MaxStart
  /\ ~Running
  /\ starts' = starts + 1
  /\ app' = "open"
  /\ UNCHANGED <<appLoad, alive, sock, link, inbox, selves, listen, queue,
                 crashed>>

\* _listenSocket is replaced before connect() is called: a listen thread that is
\* left from an earlier start() may use a socket that is not connected yet.
OpenSocket ==
  /\ app = "open"
  /\ sock' = starts
  /\ link' = [link EXCEPT ![starts] = "opened"]
  /\ app' = "connect"
  /\ UNCHANGED <<appLoad, starts, alive, inbox, selves, listen, queue,
                 crashed>>

ConnectSocket ==
  /\ app = "connect"
  /\ \/ link' = [link EXCEPT ![starts] = "up"] /\ app' = "register"
     \/ link' = [link EXCEPT ![starts] = "refused"] /\ app' = "idle"
  /\ UNCHANGED <<appLoad, starts, alive, sock, inbox, selves, listen, queue,
                 crashed>>

\* add_peer appends; self_peer() stays the entry of the first start().
AddSelf ==
  /\ app = "register"
  /\ selves' = Append(selves, [sock |-> sock, online |-> TRUE,
                               bits |-> {"MUTEX_SELF_INIT"}, threads |-> 0])
  /\ app' = "framework"
  /\ UNCHANGED <<appLoad, starts, alive, sock, link, inbox, listen, queue,
                 crashed>>

BitOf == [framework |-> "MUTEX_FRAMEWORK_INIT", socket |-> "LISTEN_SOCKET",
          queue |-> "QUEUE_THREADS", listen |-> "LISTEN_THREAD"]
After == [framework |-> "socket", socket |-> "queue", queue |-> "listen",
          listen |-> "alive"]
LoadBitsWhenAlive ==
  /\ app \in DOMAIN BitOf
  /\ appLoad = NotLoaded
  /\ appLoad' = self.bits
  /\ queue' = IF app = "queue" THEN [queue EXCEPT ![starts] = "new"] ELSE queue
  /\ listen' = IF app = "listen" THEN [listen EXCEPT ![starts].pc = "new"]
                                 ELSE listen
  /\ alive' = (alive \/ app = "listen")
  /\ UNCHANGED <<app, starts, sock, link, inbox, selves, crashed>>

\* pthread_create, then the load half of _initProcess |= bit.
LoadBits ==
  /\ app \in DOMAIN BitOf
  /\ appLoad = NotLoaded
  /\ appLoad' = self.bits
  /\ queue' = IF app = "queue" THEN [queue EXCEPT ![starts] = "new"] ELSE queue
  /\ listen' = IF app = "listen" THEN [listen EXCEPT ![starts].pc = "new"]
                                 ELSE listen
  /\ UNCHANGED <<app, starts, alive, sock, link, inbox, selves, crashed>>

StoreBits ==
  /\ app \in DOMAIN BitOf
  /\ appLoad # NotLoaded
  /\ selves' = [selves EXCEPT ![1].bits = appLoad \union {BitOf[app]}]
  /\ appLoad' = NotLoaded
  /\ app' = After[app]
  /\ UNCHANGED <<starts, alive, sock, link, inbox, listen, queue, crashed>>

\* _isAlive is set last; start() returns SUCCESS.
SetAlive ==
  /\ app = "alive"
  /\ alive' = TRUE
  /\ app' = "idle"
  /\ UNCHANGED <<appLoad, starts, sock, link, inbox, selves, listen, queue,
                 crashed>>

\* stop() does nothing else.
Stop ==
  /\ app = "idle"
  /\ alive
  /\ alive' = FALSE
  /\ UNCHANGED <<app, appLoad, starts, sock, link, inbox, selves, listen, queue,
                 crashed>>

StartSteps == \/ OpenSocket \/ ConnectSocket \/ AddSelf
              \/ LoadBits \/ StoreBits \/ SetAlive

--------------------------------------------------------------------------------
\* listenQueueThread: nothing posts the semaphore it waits on.
QueueThread(t) ==
  /\ queue[t] = "new"
  /\ queue' = [queue EXCEPT ![t] = IF alive THEN "waiting" ELSE "ended"]
  /\ UNCHANGED <<app, appLoad, starts, alive, sock, link, inbox, selves, listen,
                 crashed>>

--------------------------------------------------------------------------------
\* The HOST's end of the connections.
HostSend(s) ==
  /\ link[s] = "up"
  /\ inbox[s] < MaxInbox
  /\ inbox' = [inbox EXCEPT ![s] = @ + 1]
  /\ UNCHANGED link

\* With a reset unread data is lost and one read() fails before the end.
HostClose(s) ==
  /\ link[s] = "up"
  /\ link' = [link EXCEPT ![s] = "closed"]
  /\ \/ UNCHANGED inbox
     \/ inbox' = [inbox EXCEPT ![s] = 1]

Host(s) ==
  /\ HostSend(s) \/ HostClose(s)
  /\ UNCHANGED <<app, appLoad, starts, alive, sock, selves, listen, queue,
                 crashed>>

--------------------------------------------------------------------------------
\* listenThread, client half.  The polled socket is the _listenSocket of the
\* moment the thread began, the one read is that of the moment of the read().

Goto(t, pc) == listen' = [listen EXCEPT ![t].pc = pc]

ThreadBegin(t) ==
  /\ listen[t].pc = "new"
  /\ listen' = [listen EXCEPT ![t].pc = "top", ![t].fd = sock]
  /\ UNCHANGED <<alive, inbox, selves, crashed>>

CheckAlive(t) ==
  /\ listen[t].pc = "top"
  /\ Goto(t, IF alive THEN "poll" ELSE "ended")
  /\ UNCHANGED <<alive, inbox, selves, crashed>>

Unconnected(s) == link[s] \in {"opened", "refused"}

\* A socket that is not connected polls at once, without POLLIN.
Poll(t) ==
  /\ listen[t].pc = "poll"
  /\ LET fd == listen[t].fd IN
     \/ (inbox[fd] > 0 \/ link[fd] = "closed") /\ Goto(t, "read")
     \/ Unconnected(fd) /\ Goto(t, "top")
  /\ UNCHANGED <<alive, inbox, selves, crashed>>

\* The peer is stopped by its own end of stream.
KeepRunning == alive' = alive
StopAtEnd == alive' = FALSE

HasHeader(t) == inbox[sock] > 0 \/ Unconnected(sock)

\* A header, an error taken for one, or the end of the stream; else it blocks.
Read(t) ==
  /\ listen[t].pc = "read"
  /\ \/ /\ HasHeader(t)
        /\ inbox' = IF Unconnected(sock) THEN inbox
                    ELSE [inbox EXCEPT ![sock] = @ - 1]
        /\ Goto(t, "recv") \/ Goto(t, "top")
        /\ UNCHANGED alive
     \/ /\ inbox[sock] = 0
        /\ link[sock] = "closed"
        /\ StopAtEnd
        /\ Goto(t, "top")
        /\ UNCHANGED inbox
  /\ UNCHANGED <<selves, crashed>>

\* recv() into no buffer: fails once there is something to receive.
Recv(t) ==
  /\ listen[t].pc = "recv"
  /\ inbox[sock] > 0 \/ link[sock] # "up"
  /\ Goto(t, "handle")
  /\ UNCHANGED <<alive, inbox, selves, crashed>>

--------------------------------------------------------------------------------
\* The handlers.

\* UDTPPeer::send_from, on the self peer's socket: SIGPIPE if it is closed.
SendFrom == crashed' \in {FALSE, link[self.sock] = "closed"}
MayCrash == crashed' = TRUE

\* get_peer(get_peer_id()): the client half never sets a packet's peer ID.
\* What the handshake marks HANDSHAKE is loaded here and stored in Mark.
Handshake(t) ==
  \E code \in Codes, version \in Versions, chunk \in ChunkSizes :
    LET accept == CompareSettings(version, chunk) IN
    /\ \/ /\ Completes(code, accept) \/ code = "Approved"
          /\ \E pos \in DOMAIN selves :
               /\ code = "Approved" => pos = 1
               /\ listen' = [listen EXCEPT ![t].pc = "mark", ![t].pos = pos,
                                           ![t].load = selves[pos].bits]
          /\ UNCHANGED selves
       \/ /\ Kicks(code, accept)
          /\ \E pos \in DOMAIN selves :
               selves' = [selves EXCEPT ![pos].online = FALSE]
          /\ Goto(t, "top")
       \/ /\ code \notin {"None", "Approved"}
          /\ Goto(t, "top")
          /\ UNCHANGED selves
    /\ \/ HandshakeResends(code, accept) /\ SendFrom
       \/ ~HandshakeResends(code, accept) /\ UNCHANGED crashed
       \/ MayCrash

MarkOnly(t) ==
  /\ listen[t].pc = "mark"
  /\ selves' = [selves EXCEPT ![listen[t].pos].bits = {"HANDSHAKE"}]
  /\ listen' = [listen EXCEPT ![t].pc = "top", ![t].load = NotLoaded]
  /\ UNCHANGED <<alive, inbox, crashed>>

\* The store half of _initProcess |= HANDSHAKE.
Mark(t) ==
  /\ listen[t].pc = "mark"
  /\ selves' = [selves EXCEPT
                  ![listen[t].pos].bits = listen[t].load \union {"HANDSHAKE"}]
  /\ listen' = [listen EXCEPT ![t].pc = "top", ![t].load = NotLoaded]
  /\ UNCHANGED <<alive, inbox, crashed>>

\* add_thread of a peer that is not online returns early.
Acknowledge(t) ==
  /\ \E n \in ThreadsAfter(self.threads) :
       /\ n <= MaxThreads
       /\ n > self.threads => self.online
       /\ selves' = [selves EXCEPT ![1].threads = n]
  /\ Goto(t, "top")
  /\ SendFrom \/ UNCHANGED crashed \/ MayCrash

\* Header and Path packets: the file negotiation is not part of this module.
HeaderOrPath(t) ==
  /\ Goto(t, "top")
  /\ SendFrom \/ UNCHANGED crashed \/ MayCrash
  /\ UNCHANGED selves

Handle(t) ==
  /\ listen[t].pc = "handle"
  /\ Handshake(t) \/ Acknowledge(t) \/ HeaderOrPath(t)
  /\ UNCHANGED <<alive, inbox>>

ListenThread(t) ==
  /\ \/ ThreadBegin(t) \/ CheckAlive(t) \/ Poll(t)
     \/ Read(t) \/ Recv(t) \/ Handle(t) \/ Mark(t)
  /\ UNCHANGED <<app, appLoad, starts, sock, link, queue>>

--------------------------------------------------------------------------------
Next ==
  /\ ~crashed
  /\ \/ Begin
     \/ StartSteps
     \/ Stop
     \/ \E t \in Start : QueueThread(t) \/ ListenThread(t)
     \/ \E s \in Start : Host(s)

Spec == Init /\ [][Next]_vars

\* stop() joins no thread.  An application that itself waits, before it starts
\* the instance again, until no listen thread is left is a patient one.
ThreadsEnded == \A t \in Start : listen[t].pc \in {"none", "ended"}
PatientNext == Next /\ (starts' > starts => ThreadsEnded)
PatientSpec == Init /\ [][PatientNext]_vars

\* Every thread that can take a step does; the application and the HOST need not
\* do anything, except that a start() once begun goes on.
Fairness ==
  /\ WF_vars(~crashed /\ StartSteps)
  /\ \A t \in Start : /\ WF_vars(~crashed /\ QueueThread(t))
                      /\ WF_vars(~crashed /\ ListenThread(t))

PatientFairSpec == PatientSpec /\ Fairness

--------------------------------------------------------------------------------
\* Safety.

\* Every variable has its type.
TypeOK ==
  /\ app \in AppPC
  /\ appLoad \in Loads
  /\ starts \in 0..MaxStart
  /\ alive \in BOOLEAN
  /\ sock \in Start \union {0}
  /\ link \in [Start -> LinkState]
  /\ inbox \in [Start -> Nat]
  /\ selves \in Seq(SelfPeer)
  /\ listen \in [Start -> Listener]
  /\ queue \in [Start -> {"none", "new", "waiting", "ended"}]
  /\ crashed \in BOOLEAN

StartupBits == {"MUTEX_SELF_INIT", "MUTEX_FRAMEWORK_INIT", "LISTEN_SOCKET",
                "QUEUE_THREADS", "LISTEN_THREAD"}

\* Whenever the instance says it is running, and whenever the self peer says the
\* handshake is done, the self peer has recorded every earlier event of its
\* start: neither restarts nor the listen thread's own stores lose one.
StartupComplete ==
  selves # <<>> /\ (alive \/ "HANDSHAKE" \in self.bits)
    => StartupBits \subseteq self.bits

\* While the instance runs, the newest self peer is the one of _listenSocket:
\* no failed or repeated start() moves _listenSocket under a running instance.
NewestSelfHasSocket ==
  alive => selves # <<>> /\ selves[Len(selves)].sock = sock

\* No event any self peer has recorded is lost again: between the load and the
\* store of each unlocked _initProcess |= nobody else stores.  Holds of patient
\* applications; with an old listen thread left, start() and the thread overwrite
\* each other.
EventsKept ==
  [][\A i \in DOMAIN selves : selves[i].bits \subseteq selves'[i].bits]_vars

--------------------------------------------------------------------------------
\* Liveness.

\* "server has disconnected client" (UDTP.cpp:383): when the HOST closes the
\* connection, the listen thread ends, whatever is still unread.
DisconnectEnds ==
  \A t \in Start :
    (listen[t].pc # "none" /\ link[t] = "closed")
      ~> (listen[t].pc = "ended" \/ crashed)

--------------------------------------------------------------------------------
\* What the repository says of this code and the code does not keep.

\* "There will be only one primary listen thread" (UDTP.h:145).
OneListenThread ==
  \A t, u \in Start :
    {listen[t].pc, listen[u].pc} \intersect {"none", "ended"} = {} => t = u

================================================================================
