------------------------------- MODULE UDTPFlow -------------------------------
(***************************************************************************)
(* One UDTPPeer of a HOST, its flow threads and the chunk queue they share *)
(* without a lock, next to the listen thread that adds and removes threads *)
(* and in the end deletes the peer.                                        *)
(*                                                                         *)
(* add_thread starts flowThread twice: on a UDTPThreadFlow, and on a       *)
(* UDTPThreadProcess whose _alive is false (a stray, which ends at once).  *)
(* processThread is started by nothing, so no thread takes chunks.         *)
(*                                                                         *)
(* Definitions named after another one with a suffix (PostOnce) are        *)
(* mistakes the code might have made; no specification uses them.          *)
(***************************************************************************)
EXTENDS UDTPAcknowledge, FiniteSets

CONSTANTS
  Flow,         \* the UDTPThreadFlow objects add_thread may create, each once
  CountSpace,   \* how many values _packetsCount has
  MaxChunks     \* bound: chunks the flow threads receive

ASSUME FlowAssumption ==
  /\ IsFiniteSet(Flow)
  /\ CountSpace \in Nat \ {0}
  /\ MaxChunks \in Nat

VARIABLES
  pc,         \* pc[t]: where flow thread t is
  loaded,     \* loaded[t]: what t has read of the member it is about to write
  strays,     \* threads started on a UDTPThreadProcess that have not ended
  queued,     \* size of _processChunks
  packets,    \* _packetsCount
  tickets,    \* _semProcessChunkThread
  threads,    \* _threadCount
  online,     \* _connectionStatus
  deleted,    \* remove_peer has deleted the peer
  crashed,    \* the process ended
  received    \* chunks received so far

threadVars == <<pc, loaded, strays, received>>
peerVars   == <<queued, packets, tickets, threads, online>>
vars == <<pc, loaded, strays, queued, packets, tickets, threads, online,
          deleted, crashed, received>>

PC == {"none", "start", "recv", "push", "store", "count", "add", "post", "gone"}

Init ==
  /\ pc = [t \in Flow |-> "none"]
  /\ loaded = [t \in Flow |-> 0]
  /\ strays = {}
  /\ queued = 0
  /\ packets = 0
  /\ tickets = 0
  /\ threads = 0
  /\ online = TRUE
  /\ deleted = FALSE
  /\ crashed = FALSE
  /\ received = 0

--------------------------------------------------------------------------------
\* The listen thread.

AddOneCountingBoth ==
  /\ online
  /\ \E t \in Flow : /\ pc[t] = "none"
                     /\ pc' = [pc EXCEPT ![t] = "start"]
                     /\ strays' = strays \union {t}
  /\ threads' = threads + 2
  /\ UNCHANGED <<loaded, received, queued, packets, tickets, online, crashed>>

\* add_thread of an online peer; where the socket, its option or the bind fails
\* nothing changes.
AddOne ==
  /\ online
  /\ \E t \in Flow : /\ pc[t] = "none"
                     /\ pc' = [pc EXCEPT ![t] = "start"]
                     /\ strays' = strays \union {t}
  /\ threads' = threads + 1
  /\ UNCHANGED <<loaded, received, queued, packets, tickets, online, crashed>>

\* remove_thread: front() of an empty queue is no thread, so none is stopped;
\* the process ends, or it goes on with a thread less in the count and a ticket
\* more.
RemoveOne ==
  /\ threads' \in RemoveThread(threads)
  /\ tickets' = tickets + (threads - threads')
  /\ crashed' \in {FALSE, threads > 0}
  /\ UNCHANGED <<threadVars, queued, packets, online>>

\* get_packets_count() / get_packets_count() with nothing counted.
DivideByZero ==
  /\ packets = 0
  /\ crashed' = TRUE
  /\ UNCHANGED <<threadVars, peerVars>>

Acknowledge ==
  /\ ~crashed /\ ~deleted /\ online
  /\ \E type \in AnyAcknowledge, code \in Codes, ratio \in Ratios :
       \/ type = "PacketCount" /\ code = "None" /\ DivideByZero
       \/ /\ type = "PacketCount" => packets > 0
          /\ Removes(type, code, ratio)
          /\ RemoveOne
       \/ Adds(type, code) /\ AddOne
  /\ UNCHANGED deleted

\* A rejected handshake or the end of the connection.
GoOffline ==
  /\ ~crashed /\ ~deleted /\ online
  /\ online' = FALSE
  /\ UNCHANGED <<threadVars, queued, packets, tickets, threads, deleted,
                 crashed>>

\* remove_peer deletes the peer, whose destructor calls remove_thread until the
\* count is zero.  A stale position (UDTP.cpp:313) may name an online peer.
Delete ==
  /\ ~crashed /\ ~deleted
  /\ deleted' = TRUE
  /\ tickets' = tickets + threads
  /\ threads' = 0
  /\ crashed' \in {FALSE, threads > 0}
  /\ UNCHANGED <<threadVars, queued, packets, online>>

--------------------------------------------------------------------------------
\* A flow thread.

\* A thread's use of its peer.  A deleted peer has no members any more: the
\* process ends, or the thread goes on.
UsesPeer(change) ==
  IF deleted THEN crashed' \in BOOLEAN /\ UNCHANGED peerVars
             ELSE change /\ UNCHANGED <<crashed, threads, online>>

Moves(t, from, to) ==
  /\ ~crashed
  /\ pc[t] = from
  /\ pc' = [pc EXCEPT ![t] = to]
  /\ UNCHANGED <<strays, deleted>>

\* host_local(), then the loop test, on a thread type that was never set.
Begin(t) ==
  /\ Moves(t, "start", "recv") \/ Moves(t, "start", "gone")
  /\ UsesPeer(UNCHANGED <<queued, packets, tickets>>)
  /\ UNCHANGED <<loaded, received>>

\* The second thread of add_thread: host_local(), the loop test fails, and the
\* UDTPThreadProcess is deleted as what it is not.
EndStray(t) ==
  /\ ~crashed
  /\ t \in strays
  /\ strays' = strays \ {t}
  /\ crashed' \in BOOLEAN
  /\ UNCHANGED <<pc, loaded, received, peerVars, deleted>>

TakeChunkCounted(t) ==
  /\ received < MaxChunks
  /\ Moves(t, "recv", "push")
  /\ received' = received + 1
  /\ packets' = packets + 1
  /\ crashed' \in BOOLEAN
  /\ UNCHANGED <<loaded, queued, tickets, threads, online>>

\* recvfrom() fills the header and fails, which counts as received; the second
\* recv() takes a pointer from a buffer that was never set.  Any other packet
\* type leads back to the loop.
TakeChunk(t) ==
  /\ received < MaxChunks
  /\ Moves(t, "recv", "push")
  /\ received' = received + 1
  /\ crashed' \in BOOLEAN
  /\ UNCHANGED <<loaded, peerVars>>

PushLoad(t) ==
  /\ Moves(t, "push", "store")
  /\ UsesPeer(UNCHANGED <<queued, packets, tickets>>)
  /\ loaded' = [loaded EXCEPT ![t] = queued]
  /\ UNCHANGED received

PushStoreOnCopy(t) ==
  /\ Moves(t, "store", "count")
  /\ UsesPeer(UNCHANGED <<queued, packets, tickets>>)
  /\ UNCHANGED <<loaded, received>>

\* The end of the queue is written over what another thread pushed since, or
\* advanced with it; two pushes at once may also break the queue.
PushStore(t) ==
  /\ Moves(t, "store", "count")
  /\ \/ UsesPeer(/\ queued' \in {loaded[t] + 1, queued + 1}
                 /\ UNCHANGED <<packets, tickets>>)
     \/ /\ loaded[t] # queued
        /\ crashed' = TRUE
        /\ UNCHANGED peerVars
  /\ UNCHANGED <<loaded, received>>

CountLoad(t) ==
  /\ Moves(t, "count", "add")
  /\ UsesPeer(UNCHANGED <<queued, packets, tickets>>)
  /\ loaded' = [loaded EXCEPT ![t] = packets]
  /\ UNCHANGED received

CountStoreNarrow(t) ==
  /\ Moves(t, "add", "post")
  /\ UsesPeer(/\ packets' = (loaded[t] + 1) % (CountSpace \div 2)
              /\ UNCHANGED <<queued, tickets>>)
  /\ UNCHANGED <<loaded, received>>

CountStore(t) ==
  /\ Moves(t, "add", "post")
  /\ UsesPeer(/\ packets' = (loaded[t] + 1) % CountSpace
              /\ UNCHANGED <<queued, tickets>>)
  /\ UNCHANGED <<loaded, received>>

PostOnce(t) ==
  /\ Moves(t, "post", "recv")
  /\ UsesPeer(tickets' = 1 /\ UNCHANGED <<queued, packets>>)
  /\ UNCHANGED <<loaded, received>>

\* sem_post, the pause, and the loop test, which nothing can make fail now.
Post(t) ==
  /\ Moves(t, "post", "recv")
  /\ UsesPeer(tickets' = tickets + 1 /\ UNCHANGED <<queued, packets>>)
  /\ UNCHANGED <<loaded, received>>

FlowThread(t) ==
  \/ Begin(t) \/ EndStray(t) \/ TakeChunk(t)
  \/ PushLoad(t) \/ PushStore(t) \/ CountLoad(t) \/ CountStore(t) \/ Post(t)

--------------------------------------------------------------------------------
Next ==
  \/ Acknowledge \/ GoOffline \/ Delete
  \/ \E t \in Flow : FlowThread(t)

Spec == Init /\ [][Next]_vars

--------------------------------------------------------------------------------
TypeOK ==
  /\ pc \in [Flow -> PC]
  /\ loaded \in [Flow -> Nat]
  /\ strays \subseteq Flow
  /\ queued \in Nat
  /\ packets \in Nat
  /\ tickets \in Nat
  /\ threads \in Nat
  /\ online \in BOOLEAN
  /\ deleted \in BOOLEAN
  /\ crashed \in BOOLEAN
  /\ received \in Nat

\* Threads that have pushed their chunk and not yet posted for it.
Pushed == {t \in Flow : pc[t] \in {"count", "add", "post"}}

\* Threads whose chunk is received and not yet counted.
Uncounted == {t \in Flow : pc[t] \in {"push", "store", "count", "add"}}

\* "Have to post one!" (UDTPPeer.cpp:84): a waiting thread would be woken for
\* every chunk in the queue.  However the pushes of several threads overlap, each
\* queued chunk has a ticket or a thread that is about to post it.
TicketPerChunk == ~deleted => queued <= tickets + Cardinality(Pushed)

\* The packet count, stored without a lock, is never ahead of the chunks that
\* have arrived and been handled: it may lose some, it invents none.
CountNeverAhead == packets + Cardinality(Uncounted) <= received

\* Threads whose chunk is received and not yet in the queue.
Unpushed == {t \in Flow : pc[t] \in {"push", "store"}}

\* No second thread has ever reached the loop.
Alone == \A t, u \in Flow :
  pc[t] \notin {"none", "start", "gone"} /\ pc[u] \notin {"none", "start", "gone"}
  => t = u

\* With one flow thread in the loop the missing locks cost nothing: however its
\* steps and the listen thread's fall, every chunk received is queued and counted
\* or still in the thread's hands, until the counter wraps or the peer is deleted.
\* So what add_chunk_to_process and increment_packet_count lose, they lose by a
\* second thread only.
AloneLosesNothing ==
  Alone /\ ~deleted /\ received < CountSpace =>
    /\ queued + Cardinality(Unpushed) = received
    /\ packets + Cardinality(Uncounted) = received

\* The divisor of UDTPAcknowledge.cpp:34: once a chunk is counted the count does
\* not return to zero, although a thread may store a value it loaded long ago,
\* until as many chunks as the counter has values have arrived.
CountedStays ==
  [][packets > 0 /\ received' < CountSpace => packets' > 0]_vars

\* The peer as UDTPHost sees it: the entry of one connection.
Entry == INSTANCE PeerEntry WITH
  Entry <- {"peer"},
  status <- [e \in {"peer"} |-> IF deleted THEN "gone"
                                ELSE IF online THEN "online" ELSE "offline"],
  threads <- [e \in {"peer"} |-> threads]

\* Seen from the list of peers, all that the flow threads, the acknowledgements and
\* the destructor do is the life of one entry: the threads counted change by an
\* acknowledgement while it is online, and all of them go with the peer.
EntryKept == Entry!Spec

--------------------------------------------------------------------------------
\* What the repository says of this code and the code does not keep.

\* "Removes all flow threads!" (UDTPPeer.cpp:12): into a peer that was disconnected
\* and deleted no flow thread pushes a chunk.
Pushes(t) == pc[t] = "push" /\ pc'[t] = "store"
NoPushIntoDeleted ==
  [][deleted /\ ~online => \A t \in Flow : ~Pushes(t)]_vars

================================================================================
