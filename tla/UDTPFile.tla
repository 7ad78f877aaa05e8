------------------------------- MODULE UDTPFile -------------------------------
(***************************************************************************)
(* The chunk bookkeeping of one UDTPFile: how many chunks a file on the    *)
(* disk or in a header has, the status word of each chunk, the semaphore   *)
(* of the file threads and the queues they are to take from.  The callers  *)
(* are any threads that call the operations one at a time, with chunk IDs  *)
(* of the file, after begin_file_processing.                               *)
(*                                                                         *)
(* No file thread runs: begin_file_processing calls add_file_thread, which *)
(* tests active(), before it sets _active.  So nothing takes a ticket.     *)
(*                                                                         *)
(* The file of a pull that this side approved has no transfer type: its    *)
(* get_thread_type returns no value and its semaphore is never initialised *)
(* (UDTPTransfer's PullConfirm).  Here that is the type "Unset".           *)
(*                                                                         *)
(* Definitions named after another one with a suffix (VerifyByCount) are   *)
(* mistakes the code might have made; no specification uses them.          *)
(***************************************************************************)
EXTENDS Integers, FiniteSetsExt

CONSTANTS
  FileSizes,    \* lengths of files on the disk
  ChunkSizes,   \* what _chunkSize may hold: set_chunk_size_from_setup has no caller
  ShortSpace,   \* how many values an unsigned short has
  HeaderChunks, \* numbers of chunks a header may give
  UnsetTickets, \* what memory may hold for a semaphore that is not initialised
  MaxQueue,     \* bound: chunks and requests queued
  MaxDone       \* bound: set_chunk_status calls with DONE

ASSUME FileAssumption ==
  /\ FileSizes \subseteq Nat
  /\ ChunkSizes \subseteq Nat \ {0}
  /\ ShortSpace \in Nat \ {0}
  /\ HeaderChunks \subseteq 0 .. ShortSpace - 1
  /\ UnsetTickets \subseteq Nat
  /\ MaxQueue \in Nat
  /\ MaxDone \in Nat

VARIABLES
  fileSize,             \* what tellg() returns of the local file
  chunkSize,            \* _chunkSize
  numberOfChunks,       \* _numberOfChunks
  status,               \* _chunksCompleted: the codes set for each chunk
  chunksCompletedCount, \* _chunksCompletedCount
  active,               \* _active
  threadType,           \* get_thread_type() at begin_file_processing, "none" before
  incoming,             \* size of _incomingChunks
  missing,              \* size of _missingOutgoingChunks
  tickets               \* _semFileThread

info   == <<fileSize, chunkSize, numberOfChunks>>
queues == <<incoming, missing, tickets>>
vars == <<info, status, chunksCompletedCount, active, threadType, queues>>

ChunkCode == {"WHINE", "DONE"}
Chunk == 0 .. numberOfChunks - 1

\* tellg() of a file that cannot be opened is -1.
Lengths == FileSizes \union {-1}

\* Without the cut, the count would not fit an unsigned short.
NumberOfChunksWide(length, bytes) ==
  LET whole == length \div bytes
  IN  whole + (IF whole % bytes > 0 THEN 1 ELSE 0)

\* retrieve_info_from_local_file: the length is cut to 16 bits, and the number of
\* whole chunks, not the length, is tested for a remainder.
NumberOfChunks(length, bytes) ==
  LET whole == (length % ShortSpace) \div bytes
  IN  whole + (IF whole % bytes > 0 THEN 1 ELSE 0)

Done    == {c \in Chunk : "DONE" \in status[c]}
Missing == Chunk \ Done
Whining == {c \in Missing : "WHINE" \in status[c]}

\* The loops that return the first chunk of a kind, or -1.
FirstOf(chunks) == IF chunks = {} THEN -1 ELSE Min(chunks)

--------------------------------------------------------------------------------
\* A new UDTPFile takes its numbers from the disk or from a header.
Init ==
  /\ fileSize \in Lengths
  /\ chunkSize \in ChunkSizes
  /\ numberOfChunks \in HeaderChunks \union {NumberOfChunks(fileSize, chunkSize)}
  /\ status = [c \in Chunk |-> {}]
  /\ chunksCompletedCount = 0
  /\ active = FALSE
  /\ threadType = "none"
  /\ incoming = 0
  /\ missing = 0
  /\ tickets = 0

ThreadType == {"INCOMING", "OUTGOING", "Unset"}

\* sem_init is called for a sender and for a receiver only.
FirstTickets(type) == CASE type = "OUTGOING" -> {numberOfChunks}
                        [] type = "INCOMING" -> {0}
                        [] type = "Unset"    -> UnsetTickets

Begin(type) ==
  /\ threadType = "none"
  /\ threadType' = type
  /\ tickets' \in FirstTickets(type)
  /\ status' = [c \in Chunk |-> {}]
  /\ chunksCompletedCount' = 0
  /\ active' = TRUE
  /\ UNCHANGED <<info, incoming, missing>>

--------------------------------------------------------------------------------
\* The calls on a file that was begun.
Begun == threadType # "none"

WhineAllButFirst ==
  /\ Begun
  /\ status' = [c \in Chunk |-> IF c \in Done \union {0} THEN status[c]
                                ELSE status[c] \union {"WHINE"}]
  /\ UNCHANGED <<info, chunksCompletedCount, active, threadType, queues>>

WhineAll ==
  /\ Begun
  /\ status' = [c \in Chunk |-> IF c \in Done THEN status[c]
                                ELSE status[c] \union {"WHINE"}]
  /\ UNCHANGED <<info, chunksCompletedCount, active, threadType, queues>>

\* A whined chunk that arrives would not be counted.
SetDoneUnlessWhined(c) ==
  /\ Begun /\ chunksCompletedCount < MaxDone
  /\ status' = [status EXCEPT ![c] = @ \union {"DONE"}]
  /\ chunksCompletedCount' = IF "WHINE" \in status[c]
                             THEN chunksCompletedCount
                             ELSE chunksCompletedCount + 1
  /\ UNCHANGED <<info, active, threadType, queues>>

\* A chunk that is set DONE again is counted again.
SetDone(c) ==
  /\ Begun /\ chunksCompletedCount < MaxDone
  /\ status' = [status EXCEPT ![c] = @ \union {"DONE"}]
  /\ chunksCompletedCount' = chunksCompletedCount + 1
  /\ UNCHANGED <<info, active, threadType, queues>>

VerifyByCount ==
  /\ Begun
  /\ active' = (active /\ chunksCompletedCount < numberOfChunks)
  /\ UNCHANGED <<info, status, chunksCompletedCount, threadType, queues>>

\* verify_completion: with no chunk missing it ends the processing, for which
\* remove_file_thread finds no thread to cancel.
Verify ==
  /\ Begun
  /\ active' = (active /\ Missing # {})
  /\ UNCHANGED <<info, status, chunksCompletedCount, threadType, queues>>

AddIncomingPosted ==
  /\ Begun /\ incoming < MaxQueue /\ tickets < ShortSpace
  /\ incoming' = IF active THEN incoming + 1 ELSE incoming
  /\ tickets' = tickets + 1
  /\ UNCHANGED <<info, status, chunksCompletedCount, active, threadType,
                 missing>>

\* A file that is not active refuses the chunk.
AddIncoming ==
  /\ Begun /\ active /\ incoming < MaxQueue
  /\ incoming' = incoming + 1
  /\ tickets' = tickets + 1
  /\ UNCHANGED <<info, status, chunksCompletedCount, active, threadType,
                 missing>>

AddMissing ==
  /\ Begun /\ missing < MaxQueue
  /\ missing' = missing + 1
  /\ tickets' = tickets + 1
  /\ UNCHANGED <<info, status, chunksCompletedCount, active, threadType,
                 incoming>>

Next ==
  \/ \E type \in ThreadType : Begin(type)
  \/ WhineAll \/ Verify \/ AddIncoming \/ AddMissing
  \/ \E c \in Chunk : SetDone(c)

Spec == Init /\ [][Next]_vars

--------------------------------------------------------------------------------
TypeOK ==
  /\ fileSize \in Lengths
  /\ chunkSize \in ChunkSizes
  /\ numberOfChunks \in 0 .. ShortSpace - 1
  /\ status \in [Chunk -> SUBSET ChunkCode]
  /\ chunksCompletedCount \in Nat
  /\ active \in BOOLEAN
  /\ threadType \in ThreadType \union {"none"}
  /\ incoming \in Nat
  /\ missing \in Nat
  /\ tickets \in Nat

\* get_chunks_whine and verify_completion are two scans with different tests.
\* Once the missing chunks were asked for, they name the same first chunk, also
\* after later chunks arrived out of order: nothing missing goes unasked.
WhinesFirstMissing ==
  (\E c \in Chunk : "WHINE" \in status[c]) => FirstOf(Whining) = FirstOf(Missing)

\* _chunksCompletedCount counts calls, not chunks: it may run ahead of the
\* chunks that are DONE, it never falls behind them.
DoneAreCounted == Cardinality(Done) <= chunksCompletedCount

\* What the file threads are to do: chunks to write, missing chunks to repeat and,
\* for a sender, every chunk of the file.
Items == incoming + missing + (IF threadType = "OUTGOING" THEN numberOfChunks ELSE 0)

\* Every item has its ticket, so no file thread would sleep on one, and a sender or
\* receiver has no ticket besides, so none would wake for nothing.  The file of a
\* pull that this side approved (UDTPHeader.cpp:99) has only the first half, and
\* none of its chunks counted: its semaphore starts with whatever memory held.
TicketPerItem ==
  Begun => /\ tickets >= Items
           /\ threadType # "Unset" => tickets = Items

--------------------------------------------------------------------------------
\* Refinement.
Phase == CASE ~Begun         -> "new"
           [] Begun /\ active  -> "running"
           [] Begun /\ ~active -> "ended"
Chunks == INSTANCE Download
            WITH wanted <- Chunk, have <- Done, asked <- Whining, phase <- Phase

\* The scans and counts over the status words work like sets of chunks: what is
\* asked for is exactly what is missing, no call undoes the arrival of a chunk,
\* and the processing ends once, with all chunks, in whatever order
\* acknowledgements, repeated chunks and verifications come.
DownloadKept == Chunks!Spec

================================================================================
