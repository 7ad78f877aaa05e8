# UDTP in TLA+

TLA+ models of UDTP (*UDP Data Transfer Protocol*), a C++ library in which one
HOST serves several PEERs: a TCP connection per PEER carries control packets, and
UDP "flow" sockets are meant to carry file chunks. The modules follow the source
files at the top of the repository; `PROJECT.json` maps each definition to the
lines it stands for.

## 1. The system

### Components

| Component | State | Operations | Talks to |
|---|---|---|---|
| HOST listen thread, `UDTP::listenThread` 198-317 | `activeListenSockets`, `_listPeers` (parallel vectors), `removePeerAndSocketSafely`, `_uniqueIDCount`, `_isAlive` | poll, accept and greet, scan (read, handle, answer), removal loop | kernel sockets, packet handlers, application (`start`, `stop`) |
| PEER listen thread, 320-386 | `_listenSocket`, self peer (`_listPeers[0]`), `_initProcess` bits | poll, read, recv, handle, answer; stops the instance at end of stream | the same |
| Life cycle: `start`, `stop`, `start_queue_threads`, `start_listen_thread`, `listenQueueThread` | `_isAlive`, `_listenSocket`, thread handles, `_semListenPacketQueue` | create socket, self peer and threads; clear the flag | both listen threads, through unlocked members |
| Handshake, `UDTPHandshake` | response code, version, chunk size agreement | `unpack`, `respond`, `pack` | the peer's online flag and `HANDSHAKE` bit |
| Acknowledge, `UDTPAcknowledge` | acknowledge type, packet count | `respond` adds or removes threads of a peer | `UDTPPeer::add_thread`, `remove_thread` |
| Peer, `UDTPPeer` | socket, unique ID, online, thread count, thread and chunk queues, files | `send_to`, `send_from`, `add_thread`, `remove_thread`, flow and process threads | listen thread, files |
| Header, `UDTPHeader` | transfer type, code, file ID, chunks | push and pull negotiation | `UDTPFile`, `_overallFiles` |
| File, `UDTPFile` | chunk status, chunk queues, file threads, `_active` | begin, end, chunk status, `fileThread` | peer's process threads |
| Path, Chunk, Thread classes, Setup, Address, `main.cpp` | stubs, plain data, console menu | | |

### What makes it hard

* **Positions that go stale.** A peer is known by its position in two parallel
  vectors; disconnects of one scan are queued as positions and erased afterwards.
* **No locks around shared members.** `start()`, `stop()`, two listen threads (after
  a restart) and the queue thread read and write `_isAlive`, `_listenSocket`,
  `_uniqueIDCount` and `_initProcess` without synchronisation. `_mutexPeer` only
  guards the peer vector's own operations.
* **One thread for all sockets.** Any `read()` that is not ready blocks everybody.
* **Unset data.** A handler's payload is never received: on both sides `recv()` gets
  `(char*)incomingData->write_to_buffer()`, a character converted to a pointer,
  and the HOST calls it on the listening socket. The unread bytes are the next
  "header". So the type and the payload of a packet are *any* in the models, and
  a use of an unset pointer or size may also end the process.
* **Ends of things.** A failed `accept()` (its `unsigned` result is compared with
  `< 0`), resets, end of stream, a rejected client, `stop()` on blocked threads.

### What should be true

* HOST: the two vectors stay parallel, and every polled socket has a peer; a socket is
  polled once; only peers whose connection ended leave; unique IDs tell peers
  apart; an offline peer is not served; an answer goes to the client that asked;
  a disconnected client leaves and a connecting one is accepted, eventually.
* PEER and life cycle: a running instance has recorded all start-up events, has one
  listen thread, and talks on the socket it listens on; no event recorded without a
  lock, a completed handshake among them, is lost; a disconnect ends the thread;
  `stop()` ends everything.
* Handshake: who is approved satisfies version and chunk size limits.
* Acknowledge: the thread counts of the two sides follow each other, at most the
  maximum.
* Header: a file starts where this side approved its header or asked to pull it, and
  nowhere else; the log of files never changes; no file has two workers; file IDs are
  fresh; a pushed file has the ID that was announced for it.
* Flow threads: every queued chunk has a semaphore ticket; the packet count, written
  without a lock, is neither ahead of the chunks that arrived nor reset to zero; no
  thread outlives its peer.
* File: the number of chunks fits its type; the scan for chunks to ask for and the scan
  for completion agree; a file ends once, with every chunk; no work is queued without
  a ticket.

## 2. The modules

```
UDTPPacket
  |-- UDTPHandshake --+
  |-- UDTPAcknowledge +--> UDTPHost ----> UDTPHostRegistry ----> MCUDTPHost (for TLC)
  |         |         |        |                |    `--- INSTANCE PeerRegistry, PeerEntry
  |         |         |        `-> UDTPHost_proofs -> UDTPHostRegistry_proofs
  |         |         +--> UDTPClient ---> UDTPClient_proofs
  |         `------------> UDTPFlow ----> MCUDTPFlow, UDTPFlow_proofs
  |                           `--- INSTANCE PeerEntry
  `-- UDTPTransfer ---> UDTPTransfer_proofs
          `--- INSTANCE FileLedger
UDTPFile ---> UDTPFile_proofs
   `--- INSTANCE Download
```

**UDTPPacket** holds the response codes and the test for an answer: the listen
threads send a packet back when *any* of `unpack()`, `respond()`, `pack()` returned
true (`resendCheck & 0x07`).

**UDTPHandshake** gives, as operators on the response code, what the three calls
return and leave. `AnyCode` includes `"Unknown"`, since the code field is copied
from a buffer that was never filled. Comparing the settings is the only use of
version and chunk size.

**UDTPAcknowledge** gives the set of thread counts `respond()` may leave.
`set_response_code` of this class assigns its own parameter, so the code of the
packet never changes and the later branches see the code that arrived;
`set_acknowledge_type` changes nothing the models observe, because the new type
is tested again with the same code (`PacketCount` with code `None` and a high
loss removes one thread and returns). `Removes` and `Adds` say which packets call
`remove_thread` and `add_thread`; UDTPFlow uses them too.

**UDTPHost** is the HOST's listen thread.

| Variable | Code |
|---|---|
| `polls`, `peers` | `activeListenSockets`, `_listPeers`, both without entry 0 (the listening socket, the self peer), so positions are those of the code |
| `todo` | positions whose `revents` has `POLLIN` and that the scan has not reached |
| `removals` | `removePeerAndSocketSafely` |
| `pc` | the place of the thread in its loop |
| `uidCount`, `alive` | `_uniqueIDCount`, `_isAlive` |
| `selfHandshake` | the `HANDSHAKE` bit of `_listPeers[0]` |
| `conn`, `pending`, `mail`, `accepted` | the kernel's side: connections, unread headers, unread answers, accepted sockets |

One action per step another actor can observe: `CheckAlive`, `Poll` (a snapshot of
readiness), `Accept` (register in both vectors, increment the ID counter), `AssignId`
(the peer gets the ID the counter holds by then), `Greet` (the greeting takes it from
the counter once more), `Scan` (one entry: one `read()` and the whole handler with its
answer), `RemoveOne` (one round of the removal loop), `EndRound`. `StartAgain` and `Stop` are calls of the application at
any moment; `Connect`, `Send`, `Fetch`, `Close`, `Reset` are clients.

* A `read()` of an entry that has nothing is no step: the thread is blocked.
* `Accept` adds the new position to `todo` or not: the new `pollfd`'s `revents` is
  never initialised.
* Undefined behaviour (popping an empty queue, unset pointers, deleting a peer with
  threads) is a choice between going on and `pc = "crashed"`, and so is a send to
  a closed connection (`SIGPIPE`).
* An erase past the end of the polled sockets (UDTP.cpp:313) either ends the process or
  goes on. The library's `erase` then moves nothing and drops the last element, so
  `polls` loses its last entry, whichever was meant (`ErasePolled`). `remove_peer`, called
  with the same position, tests its bound and changes nothing (`RemovePeer`): from then on
  the vectors are apart.
* `start()` may zero the counter between any two of `Accept`, `AssignId` and `Greet`. A zero
  between the load and the store of the increment is lost: the model keeps the counter,
  while `pc = "assign"`.
* `HandleHeader` stands for the file negotiation, which does not touch the two
  vectors: whether an answer is sent is left open.
* `start()` on a HOST that was stopped fails in `bind()`, since no socket is ever
  closed; so a further `start()` only zeroes the counter.

**PeerRegistry** is what a HOST promises, without lists, positions or rounds: each
connection has one session, `absent`, `online`, `offline` or `gone`; a session is registered
once, bytes are delivered to online sessions only, an expelled session is never
served again, and it leaves only after the client closed its connection.
**UDTPHostRegistry** maps a HOST to it: a connection that was accepted and has no entry is
`gone`, one with an online entry of `peers` `online` (`SessionIn`). It adds `SingleSpec`, in which a
round queues one disconnect at most. The HOST implements the registry under that
condition only: with two disconnects the removal loop uses a stale position (section
3), and an online session may vanish.

**PeerEntry** is the life of one entry of the list, without the connection: it enters online
and without threads, acknowledgements change its thread count while it is online, it may be
expelled, and it leaves for good. UDTPHost has an entry per connection and UDTPFlow is one entry
seen from inside, with the threads themselves; both implement PeerEntry (`EntriesKept`, `EntryKept`), which
is why `UDTPHost` may keep a count where UDTPFlow has threads. Unlike PeerRegistry it says
nothing of why an entry leaves, so it holds with any number of disconnects in a round.

**UDTPClient** is an instance used as PEER, with restarts. `start()` is split
where another thread can look: replace `_listenSocket` (`OpenSocket`), connect it
(`ConnectSocket`; until then an old listen thread may already use the unconnected
socket), append the self peer, create each thread, and the load and the store of every `_initProcess |= bit`.
Each start has an index naming its socket, self peer and threads. `listen[t]` is a
listen thread with its polled descriptor (fixed when it begins), while `read()`,
`recv()` and the handlers use the current `_listenSocket` and `self_peer()`, as
in the code. `Read` takes an error for a header (`!= 0`), and `Recv` waits for
bytes although it can receive none.

`stop()` joins no thread, so an application that starts the instance again may meet the old listen
thread. `PatientSpec` is the same instance under an application that waits, by whatever means, until
none is left.

The self peer of a restarted instance is still the one of the first start, with its
socket (`self`), and `stop()` ends no thread that waits in `poll()`, `recv()` or
`sem_wait()`: the model has both, and no property says so, since nothing in the
code could make it otherwise.

**UDTPTransfer** is one side of the negotiation of files, `UDTPHeader::respond()`, with
what it calls in `UDTP`, `UDTPPeer` and `UDTPFile`.

| Variable | Code |
|---|---|
| `disk` | what `check_file_exist` can see of each path |
| `fileIDCount` | `_fileIDCount`, 32 bits; `NextFileId` is what `get_next_file_id` returns of it |
| `overallFiles` | `_overallFiles`; a file has its ID, type, role, approval, `_active` flag and the tickets of its semaphore |
| `started` | `_activeFiles` of each peer, as positions in the log |
| `announced` | IDs that answers to pushes gave; a history variable |
| `crashed` | the process ended in undefined behaviour |

There is one action per transfer type and response code; all other headers
change nothing (`FileNotFound`, `FileExistsAlready`, a pull of an absent file).

* No byte of a header is received and its fields are never initialised, so any
  header may arrive at any time, from any peer, any number of times.
* `UDTPFile`'s constructor leaves ID, chunk count, type and role unset: `NewFile` is
  the set of files it may construct. The ID field of a file is wider than an ID,
  so an unset one may be none (`IdSpace`). `get_thread_type` returns nothing for an
  unset type, and `begin_file_processing` initialises no semaphore then: that is the file of
  every pull's approver.
* An `Approved` answer to a push never sets the approval flag, so the side that pushes
  runs `begin_file_processing` on a file that stays inactive.
* A path that cannot be opened "exists", an empty file does not (`Exists`).
* `PullRequest` takes an ID and loses it: `pack_to_header` then writes the unset ID of
  the local file.
* `begin_file_processing` creates no file thread, because `add_file_thread` tests
  `_active` before it is set. The program itself writes no file (`write_mmap` is a
  stub), so `disk` is changed by others only.
* The path pointer, the chunk size and the file's `UDTP` pointer are never set:
  `Crash` is possible at any header.

**FileLedger** is what the log and the peers' lists are for: a file is listed once, with the peer
that works on it, its entry stays, and the peer takes its work along when it leaves. `LedgerOf`
reads both registries as one ledger.

**UDTPFlow** is one peer of a HOST with its flow threads.

| Variable | Code |
|---|---|
| `pc[t]`, `loaded[t]` | place of `flowThread` of a `UDTPThreadFlow` object, and what it has read of the member it is about to write |
| `strays` | threads `add_thread` started with `flowThread` on a `UDTPThreadProcess` (UDTPPeer.cpp:59) |
| `queued`, `packets`, `tickets` | size of `_processChunks`, `_packetsCount`, `_semProcessChunkThread` |
| `threads`, `online` | `_threadCount`, `_connectionStatus` |
| `deleted`, `crashed`, `received` | `remove_peer` has deleted the peer; the process ended; chunks so far (bound) |

The listen thread's actions are `Acknowledge` (add a thread, remove one, or divide by a
packet count of zero), `GoOffline`, and `Delete` with the destructor's loop. A flow thread
has an action per access to a shared member: a push and an increment are a load and a
store each, `sem_post` is atomic.

* Two pushes that overlap lose a chunk, keep both, or break the queue.
* `add_thread` pushes its thread objects on no queue: `remove_thread` takes the front of an
  empty one, so no thread is ever killed; the process ends or the count goes down.
* The type of a flow thread is never set, so whether its loop begins is open
  (`Begin`). A stray ends at its first loop test, because its object was
  zero-initialised, and is then deleted as an object of another class.
* `processThread` is started by nothing: no action takes chunks or tickets. Only `Chunk`
  packets matter, and their bytes never arrive.
* After `Delete`, every use of a member by a thread may end the process (`UsesPeer`).

**UDTPFile** is the bookkeeping of one file: `numberOfChunks` as `retrieve_info_from_local_file`
computes it or as a header gives it, `status` (the bits of `_chunksCompleted`; the bit `EMPTY` is
never set), the completed count, `_active`, the sizes of the two queues and the
tickets of `_semFileThread`. A file is a sender's, a receiver's or of unset type (`ThreadType`); for an
unset type `Begin` initialises no semaphore, so it holds whatever was in its memory
(`UnsetTickets`, any naturals). `Begin`, `WhineAll`, `SetDone`, `Verify` (with
`end_file_processing`), `AddIncoming` and `AddMissing` are the operations, called one at a time by any
thread on a file that was begun with a chunk ID of the file; a call on a
file that was not begun would use an empty vector. No file
thread runs, since `add_file_thread` tests `active()` before it is set, and if one ran it would
never set a chunk `DONE` (UDTPFile.cpp:197 reads the bit instead). The length is cut to 16
bits, and `NumberOfChunks` tests the number of whole chunks for a remainder, as the code
does (UDTPFile.cpp:230), so a partial last chunk may be missing from the count.

**Download** is what the status words achieve, in sets of chunks: wanted, there, asked for. It
ends once, with every chunk.

**MCUDTPHost** and **MCUDTPFlow** hold the instances: sets of clients and of flow threads, and
their symmetry. Operators named after another one with a suffix (`HangupOnline`,
`RemovePeerShort`, ...) are plausible mistakes in that operator; `PROJECT.json`
lists, for each property, one that violates it.

## 3. Runs

| Run | Bounds | States | Shows |
|---|---|---|---|
| `host_safety` | 3 clients, 3 descriptors, counter to 2, 1 unread header each, no flow threads, 1 further `start()` | 0.85 M (symmetry) | `TypeOK`, `PolledHavePeers`, `PolledOnce`, `UidsFallOncePerStart`, `QueuedAreGone`, `BlocksOnlyOnNewest`, `VectorsPartPastTheEnd`, `OfflineIsFinal`, `ReplyReachesRequester`, `VictimsAreLater` |
| `host_liveness` | 2 clients, 2 descriptors, 1 flow thread | 0.15 M | `ClosedLeaves`, `BacklogServed`, `EntriesKept` (refinement of PeerEntry) |
| `host_registry` | 3 clients, 2 descriptors, one disconnect per round, 1 flow thread, no further `start()` | 0.5 M (symmetry) | `RegistryKept` (refinement of PeerRegistry), `VectorsPartPastTheEnd`, `OnlyDisconnectedLeave` |
| `client_restart` | 2 starts, 1 unread header per socket | 0.5 M | `TypeOK`, `StartupComplete`, `NewestSelfHasSocket` |
| `client_patient` | 2 starts, 2 unread headers, 1 flow thread, all codes | 0.26 M | `EventsKept`, `DisconnectEnds`, of a patient application |
| `transfer` | 2 peers, 1 path, 2 log entries, IDs of 3 values, counter to 4 | 0.15 M | `TypeOK`, `OnlyPullsStartAtTheAsker`, `StartedOnce`, `LogOnlyGrows`, `IdsAreFresh`, `LedgerKept` (refinement of FileLedger) |
| `flow` | 3 flow threads, 4 chunks, counter of 4 values | 0.8 M (symmetry) | `TypeOK`, `TicketPerChunk`, `CountNeverAhead`, `CountedStays`, `AloneLosesNothing`, `EntryKept` (refinement of PeerEntry) |
| `file` | lengths 0 to 17 with shorts of 8 values, chunks of 2 or 3 bytes, 3 chunks from a header, 5 `DONE` calls, 2 queued items, 0 or 5 tickets in a semaphore never initialised | 0.11 M | `TypeOK`, `WhinesFirstMissing`, `DoneAreCounted`, `TicketPerItem`, `DownloadKept` (refinement of Download) |

Three clients are the least with which two disconnects of one scan can displace
a third entry; in `host_safety` each of them can be accepted, three at once only after a
further `start()`, since the counter, not the list, bounds `Accept` (`MaxUid`). Two descriptors
fewer than clients make `accept()` fail: `host_registry` has entries without a connection.
`host_liveness` has as many descriptors as clients, so running out of them is outside its
`BacklogServed`; the stale removal of an online entry, which takes three clients, is a `Leave`
of PeerEntry by the theorem, and `host_batch_removal` shows that it happens. Once the vectors are apart
an answer may go to the wrong client, for which two more clients have to be accepted into the
shifted lists: four clients, out of reach here, so `ReplyReachesRequester` speaks of parallel vectors.
One unread header per connection is enough because a scan reads one header per
entry and `Send` refills it at any moment. Three flow threads are the least with
which a thread stores a value that two others have both outrun. In `file`, 17 is longer than
a short can say and 7 is no multiple of a chunk; repeated `DONE` calls outnumber the
chunks. `MaxUid`, `MaxStart`, `MaxThreads`, `MaxPending`,
`MaxInbox`, `MaxFiles`, `MaxIds`, `MaxChunks`, `MaxQueue` and `MaxDone` are bounds of the models, not of
the code. `IdSpace` and `ShortSpace` are 2^16 in the code and `CountSpace` 2^32; with the small
values, IDs and lengths wrap within a run. `UnsetTickets` has the value of cleared memory and one that exceeds every
queue. Two log entries and two peers are the
least with which one file can be confused with another. `Codes` lists the response
codes a run tries; `host_safety` and `host_registry` need only the code that kicks (`"None"`, with a
chunk size under the minimum), as a header of no known type is discarded anyway, and the threads
that acknowledgements add are in `host_liveness` and `host_registry`.

**Deadlock** is not checked: the thread legitimately stops (`exited`, `crashed`,
waiting in `poll()` or `read()`), clients act once, and the bounded inputs of
UDTPFlow, UDTPFile and UDTPTransfer run out.

**Fairness.** `WF(ListenThread)` (and each thread of a PEER, and a `start()` that has
begun): the kernel goes on running a thread that can take a step. Clients, the HOST
as seen by a PEER, and the application are under no obligation. `ClosedLeaves` and
`BacklogServed` except behaviours that end blocked in `read()`, which is what the
uninitialised `revents` makes possible, and threads that ended or crashed.

### Disagreements between code and its own words

Each run below checks one sentence of the repository and TLC finds it violated.

| Run | Sentence | What happens |
|---|---|---|
| `host_batch_removal` | "HOST has detected PEER disconnect and queue them up to be removed." (UDTP.cpp:304) | with two disconnects in one scan, the second queued position is stale: a connected client is erased |
| `client_two_listeners` | "There will be only one primary listen thread" (UDTP.h:145) | `stop()` and `start()` leave the old thread running |
| `transfer_push_id` | "Approves a pending file and gives it a new ID from HOST" (UDTP.h:105) | the file copies the header before the header is given the ID, and keeps 0 |
| `flow_thread_outlives_peer` | "Removes all flow threads!" (UDTPPeer.cpp:12) | the destructor's calls stop no thread: a flow thread receives a chunk and pushes it into the deleted peer |

More of what the models show about the code, by design of the code rather than
against a sentence of it:

* A failed `accept()` becomes a peer without a connection, with descriptor -1, that
  nothing removes (UDTP.cpp:211); the vectors stay parallel around it (`host_registry`).
* The vectors are parallel (UDTP.cpp:222) until an erase past the end of the polled sockets
  (UDTP.cpp:313) that does not end the process; nothing else parts them (`VectorsPartPastTheEnd`). It
  takes the last entry of the list and an earlier one disconnecting in one scan. From then on an answer may go to another
  client, although every polled socket still has a peer (`PolledHavePeers`).
* `start()` on a running HOST zeroes the ID counter before it returns `ALREADY_RUNNING`
  (UDTP.cpp:22), so two listed peers may share an ID, and a peer accepted at that moment may get
  the ID 0. The IDs then fall at one place of the list, not more (`UidsFallOncePerStart`).
* `_isAlive` is set after the threads are created (UDTP.cpp:43): a listen thread that tests it
  first ends, and `start()` still succeeds.
* Two flow threads that push at once may lose a chunk (UDTPPeer.cpp:142); a single one loses none
  (`AloneLosesNothing`).
* A stale position errs towards later entries: the oldest entry is never erased while it is
  connected (`VictimsAreLater`).
* After a restart with the old listen thread still there, `start()` stores bits it loaded before
  that thread set `HANDSHAKE`, and the bit is gone; an application that waits for the
  thread loses none (`EventsKept`).
* The number of chunks misses a partial last chunk (UDTPFile.cpp:230), and a file longer than
  65535 bytes is cut (227).
* An active file is not always one whose header was approved (UDTPFile.h:135): an approved push
  never becomes active at the side that pushes, while a pull is active at both
  (`OnlyPullsStartAtTheAsker`).
* The semaphore of a pull's approver is never initialised (UDTPFile.cpp:117): it may hold more
  tickets than work, never less if its memory was a count (`TicketPerItem`).
* Nothing takes tickets of either semaphore, and nothing creates file threads.

## 4. Proofs

`tlapm` checks every leaf of the six proof modules. The theorems hold for every value of
the constants under the named assumptions of the modules (`HostAssumption`, `ClientAssumption`,
`SettingsAssumption`, `LossAssumption`, `CodesAssumption`, `TransferAssumption`, `FlowAssumption`,
`FileAssumption`): any sets of clients, peers, paths, sizes, any finite set of flow threads, any
width of IDs, counts and shorts, any number of restarts.

| Theorem | Property |
|---|---|
| *UDTPHost_proofs* | |
| `HostTypes` | `TypeOK` |
| `VectorsPart` | `VectorsPartPastTheEnd` |
| `SocketsHavePeers` | `PolledHavePeers` |
| `PolledOnceInvariant` | `PolledOnce` |
| `OfflineStaysFinal` | `OfflineIsFinal` |
| `RepliesReachRequester` | `ReplyReachesRequester` |
| `IdsFallOncePerStart` | `UidsFallOncePerStart` |
| `ScanBlocksOnlyOnNewest` | `BlocksOnlyOnNewest` |
| `QueueNamesTheGone` | `QueuedAreGone` |
| `OldestIsSpared` | `VictimsAreLater` |
| *UDTPHostRegistry_proofs* | |
| `HostImplementsRegistry` | `RegistryKept`: `SingleSpec` implements PeerRegistry |
| `HostImplementsEntries` | `EntriesKept`: every HOST implements PeerEntry |
| *UDTPClient_proofs* | |
| `ClientTypes` | `TypeOK` |
| `StartupIsComplete` | `StartupComplete` |
| `NewestSelfOwnsSocket` | `NewestSelfHasSocket` |
| `EventsStay` | `EventsKept`, for patient applications |
| `OneStartKeeps` | `EventsKept`, for every application that starts the instance once |
| *UDTPTransfer_proofs* | |
| `TransferTypes` | `TypeOK` |
| `FilesStartedOnce` | `StartedOnce` |
| `PushesNeverStartAtTheAsker` | `OnlyPullsStartAtTheAsker` |
| `LogIsAppendOnly` | `LogOnlyGrows` |
| `IdsStayFresh` | `IdsAreFresh` |
| `TransferImplementsLedger` | `LedgerKept`: the negotiation implements FileLedger |
| *UDTPFlow_proofs* | |
| `FlowTypes` | `TypeOK` |
| `QueuedHaveTickets` | `TicketPerChunk` |
| `CountIsNeverAhead` | `CountNeverAhead` |
| `CountIsNeverReset` | `CountedStays` |
| `NothingLostAlone` | `AloneLosesNothing` |
| `FlowImplementsEntry` | `EntryKept`: the peer with its threads implements PeerEntry |
| *UDTPFile_proofs* | |
| `FileTypes` | `TypeOK` |
| `FirstMissingIsWhined` | `WhinesFirstMissing` |
| `CountCoversDone` | `DoneAreCounted` |
| `TicketsCoverItems` | `TicketPerItem` |
| `FileImplementsDownload` | `DownloadKept`: the chunk bookkeeping implements Download |

*The argument, HOST.* `Shape` is the inductive core: types, a peer at every polled position as far
as erasing needs it, and, at `pc = "assign"` and `"greet"`, a last peer to number and greet. It
does not say that the vectors are parallel, which is not an invariant. Every handler is
summed up by one lemma (`Serving`): it changes at most the online flag, handshake and thread
count of entry `i`, the queue by `i` at most, and the unread headers of entry `i`'s socket.
`Removing` does the same for one round of the removal loop: each vector loses one
entry or is left alone, and `Drops` says what losing one does to positions, whether it was
erased where it stood or lost at the end. The other invariants then follow
action by action from these summaries and from what `Append` does (`Accepting`).

* `PolledOnce` needs that `accept()` only returns what it has not returned before.
* `PolledHavePeers`, after the vectors have parted, compares lengths: the polled vector loses an
  entry on every erase, the other on some. That an erase past the end finds an entry to
  lose is a pigeonhole (`QueueFits`): the queued positions increase strictly (`Positions`), so there are
  no more of them than polled sockets, and each erase takes one of both.
* `VectorsPartPastTheEnd` follows from `QueuedAreGone`: the first position a round erases is one of the
  list (`PartingStep`), and erasing one position of the list from both vectors keeps them parallel.
* `OfflineIsFinal` needs that a connection has one peer at most, also in vectors that
  have parted (`PeersOnce`; an entry keeps its identity when positions shift), and that the
  entry about to be greeted is online (`NewestOnline`).
* `UidsFallOncePerStart` needs what the next ID will do (`FallsBounded`): if it does not exceed the last
  one given, a `start()` zeroed the counter whose fall is not in the list yet, so there are fewer falls
  than calls. Losing an entry joins two neighbours, which adds no fall (`FallsDropped`).
* `BlocksOnlyOnNewest` needs that at `pc = "accept"` *all* of `todo` is still ready
  (`FreshReady`): readiness is only ever consumed by the scan itself.
* `QueuedAreGone` needs that an end of stream is final (`EndIsFinal`).
* `VictimsAreLater` needs that the queue is increasing and that, once a round has erased an entry, only
  positions above 1 are left in it (`LaterQueued`): the first erase hits what it was queued
  for, and no later one hits the oldest entry.

*The argument, refinement.* Every step of `SingleNext` is one registry step or a stutter: a client's
step is the client's, `Accept` registers, `Greet` and answers deliver, a rejection or an end of
stream expels, `RemoveOne` lets a session leave, everything else changes no session. The
argument needs `PeersOnce`, so that a connection has one peer and the mapping reads one value;
that the vectors are parallel, which one disconnect per round keeps;
`QueuedAreGone` strengthened to the moment of removal (with one disconnect per round the
head of the queue is not shifted yet), so that the erased entry is offline and its connection
closed; and that a delivery goes to an online entry.

Entries are simpler and more general. At most one peer has a given connection (`UniqueEntries`), so the
mapping reads the same of every connection whose peer a step leaves as it is (`Alike`,
`AgreeThreads`): all but one. `Accept` enters, handlers acknowledge or expel, and `RemoveOne` lets *some* entry
leave or none, the right one or not; no disconnect has to be alone in its round, and the vectors
may have parted.

*The argument, PEER.* `ClientInv` is types, `Control` (where `start()` is fixes the socket, the
newest self peer and `_isAlive`) and `BitsKept`. `StartupComplete` alone is not inductive: a bit
already in memory may be missing from a value some thread has loaded. The
invariant therefore bounds every loaded value from below like the member itself (`Due`),
and says that a listen thread gets past its first loop test only when the first
`start()` has stored all its bits (`FirstDone`), because `_isAlive` is set last. After a
restart that leaves a listen thread, `start()` and the old thread write the same member and a bit
can be lost, so `EventsKept` is about patient applications.

For patient applications nothing is lost of any self peer. `PatientInv` says that only the newest
start's listen thread is alive, that it is past a loop test only while no `start()` is under way, and hence
that a loaded value still *equals* the member when it is stored. An application that starts the
instance once is patient (`OneStartIsPatient`), so for it that holds without more (`OneStartKeeps`).

*The argument, transfers.* The invariant is `Inv`: types, `StartedOnce`, and `BegunFiles`,
which says of each entry what `begin_file_processing` leaves (`Begun`). One lemma
(`Responding`) reduces the five handlers to two outcomes: the log and the lists are
unchanged, or one begun file is appended to the log and its position to one
peer's list. `StartedOnce` is kept because the new position is larger than every
position in use, and that is where it needs the lists to point into the log.
`OnlyPullsStartAtTheAsker` is about who asked and what, which no flag of the file records: `Role`
says for each way a handler begins a file which type, role and flag meet, and `Begun` carries it.
`IdsAreFresh` needs that announced IDs are values the counter has had. The ledger takes a listing as
one step because the new position is in no list before, and a leave because a list names only
its peer's work.

*The argument, flow threads.* What a thread has loaded is bounded like the member it was
loaded from: a store of `loaded + 1` is then no worse than an increment, since tickets and
received chunks only grow. Counting the threads at a place (`EnterCounts`, `LeaveCounts`) gives the
rest: a thread that pushed moves one unit from "about to post" to a ticket. For
`CountedStays`, a load of the count is below the number of chunks received, which is below the
width of the counter, so the store does not wrap. `AloneLosesNothing` becomes inductive with what a
thread has loaded: alone, it is the member's value.

*The argument, files.* `WhinesFirstMissing` becomes inductive when strengthened from the first
missing chunk to all of them: once a chunk is whined, every missing chunk is. `DoneAreCounted` is a
count of a set that grows by one element at most per call. For `Download` the
invariant also needs that no status word is set before `Begin`, which clears them, and that `DONE`
bits are never cleared after it.

*Only model-checked*: the liveness properties `ClosedLeaves`, `BacklogServed` and `DisconnectEnds`, which
are out of the prover's reach, and `OnlyDisconnectedLeave` in `host_registry`: with more than one
disconnect in a round it is false (`host_batch_removal`), and nothing in the code keeps disconnects
apart, so that run shows only where the rule's limit is. Every other property of a passing
run is proved; `VectorsPartPastTheEnd` is proved of `Spec`, which `SingleSpec` restricts.

## 5. Not modelled

* The two sides of a transfer, or of the acknowledgements, together. Neither side ever receives
  a payload, so what one side packs says nothing about what the other unpacks; a
  composition would be of a program in which payloads arrive. Each side is modelled under
  any input instead.
* `processThread` and `fileThread`: nothing starts them. `send_file` and `get_file`: they return
  `SELF_NOT_READY` in every execution, since nothing sets the `COMPLETE` bit.
* The lookup helpers nobody calls; `UDTPPath` and `UDTPChunk` beyond their stubs; `UDTPSetup` and
  `UDTPAddress` (getters and setters); `main.cpp` (a console menu).
* Byte layout, since no payload arrives. The file negotiation inside UDTPHost and UDTPClient is one
  handler that leaves the peer lists alone.

Hazards without a property are listed in `PROJECT.json` with the reason.

## 6. Plan

1. **Session**: `UDTPHost` and one PEER composed over the connection, to relate the two
   sides' handshake bits.
2. **UDTPHost with its files**: `HandleHeader` refined by the handlers of UDTPTransfer, with
   `remove_peer` of a peer that has active files.
3. When the library receives payloads: the two-sided transfer and acknowledge exchanges,
   with an abstract transfer both sides agree on.
