------------------------------- MODULE UDTPHost -------------------------------
(***************************************************************************)
(* The HOST's listen thread (UDTP::listenThread, server half) with the     *)
(* peer list it keeps, the sockets it reads and the application calls that *)
(* reach the same state.                                                   *)
(*                                                                         *)
(* Entry 0 of the two parallel vectors, the listening socket and the self  *)
(* peer, is left out, so position i here is position i of the code.        *)
(*                                                                         *)
(* The thread never fills a packet's payload: it calls recv() on the       *)
(* listening socket, and the unread bytes come back as the next header.    *)
(* So the type a read() yields and the payload a handler sees are any.     *)
(*                                                                         *)
(* Definitions named after another one with a suffix (RemovePeerShort) are *)
(* mistakes the code might have made; no specification uses them.          *)
(***************************************************************************)
EXTENDS UDTPHandshake, UDTPAcknowledge, Sequences, SequencesExt, FiniteSets

CONSTANTS
  Client,       \* the TCP connections that will be attempted, each once
  NoSocket,     \* what accept() returns when the process is out of sockets
  FdLimit,      \* how many sockets the process may hold (none is ever closed)
  MaxPending,   \* bound: unread headers on one connection
  MaxUid,       \* bound: values of _uniqueIDCount
  MaxThreads,   \* bound: flow threads of one peer
  MaxStart      \* bound: further start() calls of the application

ASSUME HostAssumption ==
  /\ NoSocket \notin Client
  /\ FdLimit \in Nat
  /\ MaxPending \in Nat \ {0}
  /\ MaxUid \in Nat
  /\ MaxThreads \in Nat
  /\ MaxStart \in Nat

VARIABLES
  conn,           \* conn[c]: "none", "up" or "closed", as the client left it
  pending,        \* pending[c]: headers read() can still return on c
  mail,           \* clients with unread bytes from the HOST
  accepted,       \* connections accept() has returned
  polls,          \* activeListenSockets without entry 0: the sockets
  peers,          \* _listPeers without entry 0: the UDTPPeer objects
  todo,           \* positions with POLLIN in revents, not yet scanned
  removals,       \* removePeerAndSocketSafely
  pc,             \* where the listen thread is
  uidCount,       \* _uniqueIDCount
  selfHandshake,  \* HANDSHAKE bit of the self peer
  alive,          \* _isAlive
  starts          \* further start() calls so far

netVars  == <<conn, pending, mail, accepted>>
listVars == <<polls, peers, removals>>
appVars  == <<uidCount, alive, starts>>
vars == <<conn, pending, mail, accepted, polls, peers, todo, removals, pc,
          uidCount, selfHandshake, alive, starts>>

Socket == Client \union {NoSocket}
Peer == [sock : Socket, uid : Nat, online : BOOLEAN, handshake : BOOLEAN,
         threads : Nat]
PC == {"top", "poll", "accept", "assign", "greet", "scan", "remove", "exited",
       "crashed"}

--------------------------------------------------------------------------------
\* The kernel's view of the sockets.

Backlog == {c \in Client : conn[c] # "none" /\ c \notin accepted}

\* What poll() reports: data or end of stream; a negative fd is never reported.
Ready(s) == s # NoSocket /\ (pending[s] > 0 \/ conn[s] = "closed")

\* read() returns nonzero: a header, or -1 (not told apart from a header).
HasHeader(s) == s = NoSocket \/ (s \in Client /\ pending[s] > 0)

AtEnd(s) == s # NoSocket /\ pending[s] = 0 /\ conn[s] = "closed"

ReadHeader(s) ==
  /\ HasHeader(s)
  /\ pending' = IF s = NoSocket THEN pending ELSE [pending EXCEPT ![s] = @ - 1]

\* UDTPPeer::send_to: the packet's unique ID must be the peer's.  Bytes reach a
\* connection that is up; on a closed one SIGPIPE may end the process.
SendTo(peer, uid, next) ==
  IF peer.uid # uid
  THEN pc' = next /\ UNCHANGED mail
  ELSE /\ mail' = IF peer.sock # NoSocket /\ conn[peer.sock] = "up"
                  THEN mail \union {peer.sock} ELSE mail
       /\ \/ pc' = next
          \/ /\ peer.sock # NoSocket
             /\ conn[peer.sock] = "closed"
             /\ pc' = "crashed"

--------------------------------------------------------------------------------
Init ==
  /\ conn = [c \in Client |-> "none"]
  /\ pending = [c \in Client |-> 0]
  /\ mail = {}
  /\ accepted = {}
  /\ polls = <<>>
  /\ peers = <<>>
  /\ todo = {}
  /\ removals = <<>>
  /\ pc = "top"
  /\ uidCount = 0
  /\ selfHandshake = FALSE
  /\ alive = TRUE
  /\ starts = 0

--------------------------------------------------------------------------------
\* The clients.

Connect(c) ==
  /\ conn[c] = "none"
  /\ conn' = [conn EXCEPT ![c] = "up"]
  /\ UNCHANGED <<pending, mail>>

Send(c) ==
  /\ conn[c] = "up"
  /\ pending[c] < MaxPending
  /\ pending' = [pending EXCEPT ![c] = @ + 1]
  /\ UNCHANGED <<conn, mail>>

Fetch(c) ==
  /\ c \in mail
  /\ mail' = mail \ {c}
  /\ UNCHANGED <<conn, pending>>

Close(c) ==
  /\ conn[c] = "up"
  /\ conn' = [conn EXCEPT ![c] = "closed"]
  /\ UNCHANGED <<pending, mail>>

\* An abortive close: unread data is lost, one read() fails, then end of stream.
Reset(c) ==
  /\ conn[c] = "up"
  /\ conn' = [conn EXCEPT ![c] = "closed"]
  /\ pending' = [pending EXCEPT ![c] = 1]
  /\ UNCHANGED mail

ClientStep(c) ==
  /\ Connect(c) \/ Send(c) \/ Fetch(c) \/ Close(c) \/ Reset(c)
  /\ UNCHANGED <<accepted, listVars, todo, pc, selfHandshake, appVars>>

--------------------------------------------------------------------------------
\* The application's thread.

\* start() on a running instance: the counter is zeroed before the check.  On a
\* stopped one bind() fails, since the first listening socket is never closed.
\* A zero that fell between the load and the store of an increment is lost.
StartAgain ==
  /\ starts < MaxStart
  /\ starts' = starts + 1
  /\ \/ uidCount' = 0
     \/ pc = "assign" /\ UNCHANGED uidCount
  /\ UNCHANGED <<netVars, listVars, todo, pc, selfHandshake, alive>>

Stop ==
  /\ alive
  /\ alive' = FALSE
  /\ UNCHANGED <<netVars, listVars, todo, pc, selfHandshake, uidCount, starts>>

--------------------------------------------------------------------------------
\* The listen thread: the head of the loop and the new connection.

CheckAlive ==
  /\ pc = "top"
  /\ pc' = IF alive THEN "poll" ELSE "exited"
  /\ UNCHANGED <<netVars, listVars, todo, selfHandshake, appVars>>

ReadyPositionsAll == {i \in DOMAIN polls : polls[i] # NoSocket}
ReadyPositions == {i \in DOMAIN polls : Ready(polls[i])}

MasterReadyWhenQuiet ==
  Backlog # {} /\ uidCount < MaxUid /\ ReadyPositions = {}
MasterReady == Backlog # {} /\ uidCount < MaxUid

\* poll() returns a snapshot of what is readable; it waits when nothing is.
Poll ==
  /\ pc = "poll"
  /\ MasterReady \/ ReadyPositions # {}
  /\ todo' = ReadyPositions
  /\ pc' = IF MasterReady THEN "accept" ELSE "scan"
  /\ UNCHANGED <<netVars, listVars, selfHandshake, appVars>>

\* The constructor leaves the ID unset; nothing reads it before AssignId.
NewPeer(s) == [sock |-> s, uid |-> 0, online |-> TRUE, handshake |-> FALSE,
               threads |-> 0]

\* The error test on accept() compares an unsigned value with < 0, so a failed
\* accept is registered like a connection.  The new pollfd's revents is never
\* set: the scan of this very round may or may not find POLLIN in it.
Accept ==
  /\ pc = "accept"
  /\ uidCount < MaxUid
  /\ \E s \in Socket :
       /\ IF Cardinality(accepted) < FdLimit
          THEN s \in Backlog /\ accepted' = accepted \union {s}
          ELSE s = NoSocket /\ UNCHANGED accepted
       /\ polls' = Append(polls, s)
       /\ peers' = Append(peers, NewPeer(s))
  /\ uidCount' = uidCount + 1
  /\ todo' \in {todo, todo \union {Len(polls) + 1}}
  /\ pc' = "assign"
  /\ UNCHANGED <<conn, pending, mail, removals, selfHandshake, alive, starts>>

AssignIdByPosition ==
  /\ pc = "assign"
  /\ peers' = [peers EXCEPT ![Len(peers)].uid = Len(peers)]
  /\ pc' = "greet"
  /\ UNCHANGED <<netVars, polls, removals, todo, selfHandshake, appVars>>

\* The peer's ID is what the counter holds now, not what the increment gave.
AssignId ==
  /\ pc = "assign"
  /\ peers' = [peers EXCEPT ![Len(peers)].uid = uidCount]
  /\ pc' = "greet"
  /\ UNCHANGED <<netVars, polls, removals, todo, selfHandshake, appVars>>

\* The handshake start packet takes its unique ID from the counter again.
Greet ==
  /\ pc = "greet"
  /\ SendTo(peers[Len(peers)], uidCount, "scan")
  /\ UNCHANGED <<conn, pending, accepted, listVars, todo, selfHandshake,
                 appVars>>

--------------------------------------------------------------------------------
\* The scan over the sockets with POLLIN: one read() each, in list order.

IsOnlineUnchecked(i) == TRUE
IsOnline(i) == peers[i].online
AnswerShifted(i) ==
  LET p == peers[IF i = 1 THEN 1 ELSE i - 1] IN SendTo(p, p.uid, "scan")
Answer(i) == SendTo(peers[i], peers[i].uid, "scan")

\* An unset pointer or size is used: the process may end.
MayCrash == pc' = "crashed" /\ UNCHANGED mail

\* No known packet type, or a packet of a peer that is offline.
Discard(i) ==
  /\ ReadHeader(polls[i])
  /\ UNCHANGED <<peers, removals, mail, pc, selfHandshake>>

HandleHandshake(i) ==
  /\ ReadHeader(polls[i])
  /\ IsOnline(i)
  /\ \E code \in Codes, version \in Versions, chunk \in ChunkSizes :
       LET accept == CompareSettings(version, chunk) IN
       /\ peers' = [peers EXCEPT
                      ![i].online = @ /\ ~Kicks(code, accept),
                      ![i].handshake = @ \/ Completes(code, accept)]
       /\ selfHandshake' = (selfHandshake \/ code = "Approved")
       /\ \/ HandshakeResends(code, accept) /\ Answer(i)
          \/ ~HandshakeResends(code, accept) /\ UNCHANGED <<pc, mail>>
          \/ MayCrash
  /\ UNCHANGED removals

\* The file negotiation behind a header does not touch the two lists.  Whether
\* respond() asks for an answer depends on fields the packet leaves unset.
HandleHeader(i) ==
  /\ ReadHeader(polls[i])
  /\ IsOnline(i)
  /\ Answer(i) \/ UNCHANGED <<pc, mail>> \/ MayCrash
  /\ UNCHANGED <<peers, removals, selfHandshake>>

\* pack() returns true, so the packet is sent back, from a buffer never set.
HandlePath(i) ==
  /\ ReadHeader(polls[i])
  /\ IsOnline(i)
  /\ Answer(i) \/ UNCHANGED <<pc, mail>> \/ MayCrash
  /\ UNCHANGED <<peers, removals, selfHandshake>>

HandleAcknowledge(i) ==
  /\ ReadHeader(polls[i])
  /\ IsOnline(i)
  /\ \E n \in ThreadsAfter(peers[i].threads) :
       /\ n <= MaxThreads
       /\ peers' = [peers EXCEPT ![i].threads = n]
  /\ Answer(i) \/ UNCHANGED <<pc, mail>> \/ MayCrash
  /\ UNCHANGED <<removals, selfHandshake>>

HangupOnline(i) ==
  /\ AtEnd(polls[i])
  /\ removals' = Append(removals, i)
  /\ UNCHANGED <<pending, peers, mail, pc, selfHandshake>>

HangupErased(i) ==
  /\ AtEnd(polls[i])
  /\ peers' = RemoveAt(peers, i)
  /\ removals' = Append(removals, i)
  /\ UNCHANGED <<pending, mail, pc, selfHandshake>>

HangupUnqueued(i) ==
  /\ AtEnd(polls[i])
  /\ peers' = [peers EXCEPT ![i].online = FALSE]
  /\ UNCHANGED <<pending, removals, mail, pc, selfHandshake>>

HangupShifted(i) ==
  /\ AtEnd(polls[i])
  /\ peers' = [peers EXCEPT ![i].online = FALSE]
  /\ removals' = Append(removals, i - 1)
  /\ UNCHANGED <<pending, mail, pc, selfHandshake>>

\* read() returned 0: the connection is at its end.
Hangup(i) ==
  /\ AtEnd(polls[i])
  /\ peers' = [peers EXCEPT ![i].online = FALSE]
  /\ removals' = Append(removals, i)
  /\ UNCHANGED <<pending, mail, pc, selfHandshake>>

Serve(i) ==
  \/ Discard(i)
  \/ HandleHandshake(i)
  \/ HandleHeader(i)
  \/ HandlePath(i)
  \/ HandleAcknowledge(i)
  \/ Hangup(i)

\* The read() of an entry that is not ready blocks the thread: no step.
Scan ==
  /\ pc = "scan"
  /\ \E i \in todo :
       /\ \A j \in todo : i <= j
       /\ Serve(i)
       /\ todo' = todo \ {i}
  /\ UNCHANGED <<conn, accepted, polls, appVars>>

--------------------------------------------------------------------------------
\* The removal loop, after the scan.

\* UDTP::remove_peer, with its bounds test.
RemovePeerShort(posID) ==
  peers' = IF posID + 1 \in DOMAIN peers THEN RemoveAt(peers, posID) ELSE peers
RemovePeer(posID) ==
  peers' = IF posID \in DOMAIN peers THEN RemoveAt(peers, posID) ELSE peers

\* Erasing past the end of the vector is undefined: where the process goes on,
\* the vector has lost its last entry, whichever position was meant.
ErasePolledUnpopped(posID) ==
  polls' = IF posID \in DOMAIN polls \ {Len(polls)}
           THEN [polls EXCEPT ![posID] = Last(polls)] ELSE Front(polls)
ErasePolled(posID) ==
  polls' = IF posID \in DOMAIN polls THEN RemoveAt(polls, posID)
                                     ELSE Front(polls)

\* The entry at the queued position is erased from both vectors.  The process
\* may end on an erase past the end or on deleting a peer with flow threads.
RemoveOne ==
  /\ pc \in {"scan", "remove"}
  /\ todo = {}
  /\ removals # <<>>
  /\ removals' = Tail(removals)
  /\ LET posID == Head(removals) IN
     /\ ErasePolled(posID)
     /\ RemovePeer(posID)
     /\ \/ pc' = "remove"
        \/ posID \notin DOMAIN polls /\ pc' = "crashed"
        \/ posID \in DOMAIN peers /\ peers[posID].threads > 0 /\ pc' = "crashed"
  /\ UNCHANGED <<netVars, todo, selfHandshake, appVars>>

EndRound ==
  /\ pc \in {"scan", "remove"}
  /\ todo = {}
  /\ removals = <<>>
  /\ pc' = "top"
  /\ UNCHANGED <<netVars, listVars, todo, selfHandshake, appVars>>

--------------------------------------------------------------------------------
ListenThread ==
  \/ CheckAlive \/ Poll \/ Accept \/ AssignId \/ Greet
  \/ Scan \/ RemoveOne \/ EndRound

Next ==
  \/ \E c \in Client : ClientStep(c)
  \/ StartAgain
  \/ Stop
  \/ ListenThread

Spec == Init /\ [][Next]_vars

\* The kernel keeps running a thread that can take a step.
FairSpec == Spec /\ WF_vars(ListenThread)

--------------------------------------------------------------------------------
\* Safety.

\* Every variable has its type; todo holds positions of the current lists.
TypeOK ==
  /\ conn \in [Client -> {"none", "up", "closed"}]
  /\ pending \in [Client -> Nat]
  /\ mail \subseteq Client
  /\ accepted \subseteq Client
  /\ polls \in Seq(Socket)
  /\ peers \in Seq(Peer)
  /\ todo \subseteq DOMAIN polls
  /\ removals \in Seq(Nat)
  /\ pc \in PC
  /\ uidCount \in Nat
  /\ selfHandshake \in BOOLEAN
  /\ alive \in BOOLEAN
  /\ starts \in Nat

\* "Both Pollfd and _listPeer are Parallel" (UDTP.cpp:222): the socket polled
\* at a position and the peer kept there belong to the same connection.
ParallelArrays ==
  /\ Len(peers) = Len(polls)
  /\ \A i \in DOMAIN polls : polls[i] = peers[i].sock

\* They are not always: what parts them is an erase past the end of the polled
\* sockets (UDTP.cpp:313), for which a round must have queued two disconnects or
\* more, and nothing else does: not a first removal, not a failed accept().
VectorsPartPastTheEnd ==
  [][ParallelArrays /\ ~ParallelArrays' =>
       pc = "remove" /\ Head(removals) \notin DOMAIN polls]_vars

\* Even when they have parted, get_peer(i) of a polled position is not NULL, so
\* is_online() and set_offline() are called on a peer (UDTP.cpp:244, 303), and
\* the erase past the end finds an entry to lose.
PolledHavePeers ==
  /\ Len(polls) <= Len(peers)
  /\ Len(removals) <= Len(polls)

\* A connection is polled at one position at most, and only once accept() has
\* returned it, whatever was removed and re-added around it.
PolledOnce ==
  /\ \A i \in DOMAIN polls : polls[i] \in accepted \union {NoSocket}
  /\ \A i, j \in DOMAIN polls :
       polls[i] = polls[j] /\ polls[i] # NoSocket => i = j

\* The positions whose peer's ID does not exceed that of the entry before it.
Falls(list) == {i \in 2..Len(list) : list[i].uid <= list[i - 1].uid}

\* "To detect disconnects" (UDTPPeer.h:170): a further start() makes the IDs of
\* the listed peers fall at one place at most, wherever in an accept its zero
\* lands and whatever is removed later; without one they are in strict order, so
\* none is given twice.  The greeting has the ID of its peer, or a zero came in.
UidsFallOncePerStart ==
  /\ Cardinality(Falls(IF pc = "assign" THEN Front(peers) ELSE peers)) <= starts
  /\ pc = "greet" =>
       peers[Len(peers)].uid = uidCount \/ (uidCount = 0 /\ starts > 0)

\* While the scan runs, the queue of positions to remove is in list order, and
\* each names an entry already scanned whose peer is offline and whose
\* connection is at its end; between rounds the queue is empty.
QueuedAreGone ==
  /\ pc = "scan" =>
       /\ \A k \in DOMAIN removals :
            LET r == removals[k] IN
            /\ r \in DOMAIN polls
            /\ ~peers[r].online
            /\ AtEnd(polls[r])
            /\ \A i \in todo : r < i
       /\ \A k, l \in DOMAIN removals : k < l => removals[k] < removals[l]
  /\ pc \in {"top", "poll", "accept", "assign", "greet", "exited"} =>
       removals = <<>>

\* Of the entries still to be scanned, only the newest one may be read without
\* being readable (its revents was never set): the read() of any other entry
\* returns, although other clients and earlier handlers ran since poll().
BlocksOnlyOnNewest ==
  \A i \in todo : i < Len(polls) => Ready(polls[i])

\* An offline peer stays as it is: never online again, no handshake, no thread,
\* and nothing is sent to its connection, while it waits in the list for its
\* end of stream, however its position shifts.
OfflineIsFinal ==
  [][\A i \in DOMAIN peers, j \in DOMAIN peers' :
       /\ peers[i].sock = peers'[j].sock
       /\ peers[i].sock # NoSocket
       /\ ~peers[i].online
       => /\ peers'[j] = peers[i]
          /\ peers[i].sock \notin mail' \ mail]_vars

\* While the vectors are parallel, bytes go out only to the connection whose
\* header this step consumed, or to the newest entry as its greeting.  Once they
\* have parted, the answer of get_peer(i) may go to another client's connection.
ReplyReachesRequester ==
  [][ParallelArrays =>
       \A c \in mail' \ mail :
         \/ pending'[c] < pending[c]
         \/ pc = "greet" /\ polls[Len(polls)] = c]_vars

Listed(c) == \E i \in DOMAIN polls : polls[i] = c

\* How far the removal loop may go wrong (UDTP.cpp:313): the first entry a round
\* erases is one whose connection ended, however many disconnects it queued, and
\* the oldest connection is never erased by a position that went stale.
VictimsAreLater ==
  [][\A c \in Client :
       Listed(c) /\ ~Listed(c)' => AtEnd(c) \/ (pc = "remove" /\ polls[1] # c)]_vars

--------------------------------------------------------------------------------
\* Liveness.

Stopped == pc \in {"exited", "crashed"}

\* The thread is in a read() with nothing to return.
Blocked ==
  /\ pc = "scan"
  /\ \E i \in todo : /\ \A j \in todo : i <= j
                     /\ ~HasHeader(polls[i])
                     /\ ~AtEnd(polls[i])

\* A client's disconnect is noticed and its entry removed, however busy the
\* other connections are, unless the thread ends or blocks for ever.
ClosedLeaves ==
  \/ <>[]Blocked
  \/ \A c \in Client :
       (Listed(c) /\ conn[c] = "closed") ~> (~Listed(c) \/ Stopped)

\* A connection attempt is accepted, however busy the peers are, unless the
\* thread ends or blocks for ever.
BacklogServed ==
  \/ <>[]Blocked
  \/ \A c \in Client : (c \in Backlog) ~> (c \in accepted \/ Stopped)

--------------------------------------------------------------------------------
\* What the repository says of this code and the code does not keep.

\* "HOST has detected PEER disconnect and queue them up to be removed."
\* (UDTP.cpp:304): an entry leaves the lists only when its connection ended.
OnlyDisconnectedLeave ==
  [][\A c \in Client : Listed(c) /\ ~Listed(c)' => AtEnd(c)]_vars

================================================================================
