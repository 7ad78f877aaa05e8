---------------------------- MODULE UDTPFile_proofs ----------------------------
(***************************************************************************)
(* Theorems about UDTPFile for files of every length, every chunk size and *)
(* every width of the number of chunks.                                    *)
(***************************************************************************)
EXTENDS UDTPFile, FiniteSetTheorems, TLAPS

--------------------------------------------------------------------------------
\* What either source of the number gives fits an unsigned short.
LEMMA ChunksFit ==
  ASSUME NEW length \in Int, NEW bytes \in Nat \ {0}
  PROVE  NumberOfChunks(length, bytes) \in 0 .. ShortSpace - 1
<1> DEFINE size == length % ShortSpace
           whole == size \div bytes
<1>1. size \in 0 .. ShortSpace - 1
  BY FileAssumption
<1>2. whole \in Nat /\ whole <= size
  BY <1>1, FileAssumption, SMTT(30)
<1>3. CASE bytes = 1
  <2>1. whole % bytes = 0
    BY <1>2, <1>3, SMTT(30)
  <2> QED
    BY <1>1, <1>2, <2>1, FileAssumption DEF NumberOfChunks
<1>4. CASE bytes > 1
  <2>1. CASE whole = 0
    <3>1. whole % bytes = 0
      BY <1>4, <2>1
    <3> QED
      BY <1>1, <2>1, <3>1, FileAssumption DEF NumberOfChunks
  <2>2. CASE whole > 0
    <3>1. whole + 1 <= size
      BY <1>1, <1>2, <1>4, <2>2, FileAssumption, SMTT(30)
    <3> QED
      BY <1>1, <1>2, <3>1, FileAssumption DEF NumberOfChunks
  <2> QED
    BY <1>2, <2>1, <2>2
<1> QED
  BY <1>3, <1>4

--------------------------------------------------------------------------------
\* WHINE is set on every missing chunk at once, and DONE is never cleared.
WhineInv ==
  (\E c \in Chunk : "WHINE" \in status[c])
    => \A c \in Chunk : status[c] # {}
NewInv == ~Begun => /\ incoming = 0 /\ missing = 0
                    /\ \A c \in Chunk : status[c] = {}
FileInv ==
  /\ TypeOK /\ WhineInv /\ NewInv
  /\ DoneAreCounted /\ TicketPerItem

LEMMA ChunksFinite ==
  ASSUME TypeOK PROVE IsFiniteSet(Chunk) /\ IsFiniteSet(Done)
<1>1. IsFiniteSet(Chunk)
  BY FS_Interval DEF Chunk, TypeOK
<1> QED
  BY <1>1, FS_Subset DEF Done

LEMMA NothingDone ==
  ASSUME status = [c \in Chunk |-> {}], chunksCompletedCount = 0
  PROVE  WhineInv /\ DoneAreCounted
<1>1. Done = {} /\ ~\E c \in Chunk : "WHINE" \in status[c]
  BY DEF Done
<1> QED
  BY <1>1, FS_EmptySet DEF WhineInv, DoneAreCounted

LEMMA InitFileInv == Init => FileInv
<1> SUFFICES ASSUME Init PROVE FileInv
  OBVIOUS
<1>1. numberOfChunks \in 0 .. ShortSpace - 1
  BY ChunksFit, FileAssumption DEF Init, Lengths
<1>2. status \in [Chunk -> SUBSET ChunkCode]
  BY DEF Init
<1>3. TypeOK
  BY <1>1, <1>2 DEF Init, TypeOK
<1> QED
  BY <1>3, NothingDone DEF Init, FileInv, NewInv, TicketPerItem, Items, Begun

--------------------------------------------------------------------------------
LEMMA BeginFileInv ==
  ASSUME FileInv, NEW type \in ThreadType, Begin(type)
  PROVE  FileInv'
<1>1. Chunk' = Chunk /\ status' = [c \in Chunk |-> {}]
  BY DEF Begin, info, Chunk
<1>2. TypeOK'
  <2>1. tickets' \in Nat
    BY FileAssumption DEF FileInv, TypeOK, Begin, FirstTickets, ThreadType
  <2> QED
    BY <1>1, <2>1 DEF FileInv, TypeOK, Begin, info
<1>3. Done' = {} /\ (\A c \in Chunk' : status'[c] = {})
  BY <1>1 DEF Done
<1>4. WhineInv' /\ DoneAreCounted'
  BY <1>3, FS_EmptySet DEF WhineInv, DoneAreCounted, Begin
<1>5. incoming' = 0 /\ missing' = 0
  BY DEF FileInv, NewInv, Begun, Begin, ThreadType
<1>6. TicketPerItem'
  <2>1. numberOfChunks' = numberOfChunks /\ numberOfChunks \in Nat
    BY DEF FileInv, TypeOK, Begin, info
  <2>2. tickets' \in FirstTickets(type) /\ threadType' = type
    BY DEF Begin
  <2>3. CASE type = "Unset"
    BY <1>5, <2>1, <2>2, <2>3, FileAssumption
       DEF TicketPerItem, Items, Begun, FirstTickets
  <2>4. CASE type # "Unset"
    BY <1>5, <2>1, <2>2, <2>4 DEF TicketPerItem, Items, ThreadType, FirstTickets
  <2> QED
    BY <2>3, <2>4
<1> QED
  BY <1>2, <1>4, <1>5, <1>6 DEF FileInv, NewInv, Begun, Begin, ThreadType

LEMMA WhineFileInv == ASSUME FileInv, WhineAll PROVE FileInv'
<1>1. /\ Chunk' = Chunk
      /\ status \in [Chunk -> SUBSET ChunkCode]
      /\ status' = [c \in Chunk |-> IF c \in Done THEN status[c]
                                    ELSE status[c] \union {"WHINE"}]
  BY DEF FileInv, TypeOK, WhineAll, info, Chunk
<1>2. status' \in [Chunk' -> SUBSET ChunkCode]
  BY <1>1 DEF ChunkCode
<1>3. TypeOK'
  BY <1>1, <1>2 DEF FileInv, TypeOK, WhineAll, info, queues
<1>4. Done' = Done
  BY <1>1 DEF Done
<1>5. WhineInv'
  BY <1>1 DEF WhineInv, Done
<1> QED
  BY <1>1, <1>3, <1>4, <1>5
     DEF FileInv, NewInv, DoneAreCounted, TicketPerItem, Items, Missing,
         Begun, WhineAll, info, queues

LEMMA DoneFileInv == ASSUME FileInv, NEW c \in Chunk, SetDone(c) PROVE FileInv'
<1>1. /\ Chunk' = Chunk
      /\ status \in [Chunk -> SUBSET ChunkCode]
      /\ status' = [status EXCEPT ![c] = @ \union {"DONE"}]
      /\ chunksCompletedCount \in Nat
      /\ chunksCompletedCount' = chunksCompletedCount + 1
  BY DEF FileInv, TypeOK, SetDone, info, Chunk
<1>2. status' \in [Chunk' -> SUBSET ChunkCode]
  BY <1>1 DEF ChunkCode
<1>3. TypeOK'
  BY <1>1, <1>2 DEF FileInv, TypeOK, SetDone, info, queues
<1>4. Done' = Done \union {c}
  BY <1>1 DEF Done
<1>5. Cardinality(Done') <= Cardinality(Done) + 1
  <2>1. IsFiniteSet(Done) /\ Cardinality(Done) \in Nat
    BY ChunksFinite, FS_CardinalityType DEF FileInv
  <2> QED
    BY <1>4, <2>1, FS_AddElement
<1>6. DoneAreCounted'
  <2>1. IsFiniteSet(Done) /\ IsFiniteSet(Done')
    BY <1>4, ChunksFinite, FS_AddElement DEF FileInv
  <2>2. Cardinality(Done) \in Nat /\ Cardinality(Done') \in Nat
    BY <2>1, FS_CardinalityType
  <2> QED
    BY <1>1, <1>5, <2>2 DEF FileInv, DoneAreCounted
<1>7. WhineInv'
  BY <1>1 DEF FileInv, WhineInv
<1> QED
  BY <1>1, <1>3, <1>4, <1>6, <1>7
     DEF FileInv, NewInv, TicketPerItem, Items, Missing, Begun, SetDone, info,
         queues

LEMMA VerifyFileInv == ASSUME FileInv, Verify PROVE FileInv'
<1>1. Chunk' = Chunk /\ Done' = Done /\ Missing' = Missing
  BY DEF Verify, info, Chunk, Done, Missing
<1>2. TypeOK'
  BY <1>1 DEF FileInv, TypeOK, Verify, info, queues
<1> QED
  BY <1>1, <1>2
     DEF FileInv, NewInv, WhineInv, DoneAreCounted, TicketPerItem, Items, Begun, Verify,
         info, queues

\* The queues and the semaphore are posted together.
LEMMA QueueFileInv ==
  ASSUME FileInv, AddIncoming \/ AddMissing \/ UNCHANGED vars PROVE FileInv'
<1>1. /\ UNCHANGED <<info, status, chunksCompletedCount, active, threadType>>
      /\ incoming' \in Nat /\ missing' \in Nat /\ tickets' \in Nat
      /\ ~Begun => incoming' = incoming /\ missing' = missing
  BY DEF FileInv, TypeOK, AddIncoming, AddMissing, Begun, vars, queues
<1>2. Chunk' = Chunk /\ Done' = Done /\ Missing' = Missing
  BY <1>1 DEF info, Chunk, Done, Missing
<1>3. TypeOK'
  BY <1>1, <1>2 DEF FileInv, TypeOK, info
<1>4. TicketPerItem'
  <2>1. /\ incoming \in Nat /\ missing \in Nat /\ numberOfChunks \in Nat
        /\ tickets \in Nat /\ Begun' = Begun
        /\ threadType' = threadType /\ numberOfChunks' = numberOfChunks
    BY <1>1 DEF FileInv, TypeOK, Begun, info
  <2> DEFINE sends == IF threadType = "OUTGOING" THEN numberOfChunks ELSE 0
  <2>5. sends \in Nat /\ sends' = sends
    BY <2>1
  <2>6. Items = incoming + missing + sends /\ Items' = incoming' + missing' + sends'
    BY DEF Items
  <2> HIDE DEF sends
  <2>2. CASE AddIncoming
    BY <2>1, <2>2, <2>5, <2>6 DEF FileInv, TicketPerItem, AddIncoming
  <2>3. CASE AddMissing
    BY <2>1, <2>3, <2>5, <2>6 DEF FileInv, TicketPerItem, AddMissing
  <2>4. CASE UNCHANGED vars
    BY <2>1, <2>4, <2>5, <2>6 DEF FileInv, TicketPerItem, vars, queues
  <2> QED
    BY <2>2, <2>3, <2>4
<1> QED
  BY <1>1, <1>2, <1>3, <1>4
     DEF FileInv, WhineInv, NewInv, DoneAreCounted, Begun

LEMMA NextFileInv == FileInv /\ [Next]_vars => FileInv'
BY BeginFileInv, WhineFileInv, DoneFileInv, VerifyFileInv, QueueFileInv DEF Next

LEMMA FileInvariant == Spec => []FileInv
BY InitFileInv, NextFileInv, PTL DEF Spec

--------------------------------------------------------------------------------
\* The number of chunks fits its field and the status words match it.
THEOREM FileTypes == Spec => []TypeOK
<1>1. FileInv => TypeOK
  BY DEF FileInv
<1> QED
  BY <1>1, FileInvariant, PTL

\* What is asked for first is what is missing first, in every order of arrivals.
THEOREM FirstMissingIsWhined == Spec => []WhinesFirstMissing
<1>1. ASSUME FileInv PROVE WhinesFirstMissing
  <2>1. ASSUME \E c \in Chunk : "WHINE" \in status[c] PROVE Whining = Missing
    <3>1. \A c \in Chunk : status[c] # {} /\ status[c] \subseteq ChunkCode
      BY <1>1, <2>1 DEF FileInv, WhineInv, TypeOK
    <3>2. \A c \in Missing : "WHINE" \in status[c]
      BY <3>1 DEF Missing, Done, ChunkCode
    <3> QED
      BY <3>2 DEF Whining
  <2> QED
    BY <2>1 DEF WhinesFirstMissing
<1> QED
  BY <1>1, FileInvariant, PTL

\* The completion count never falls behind the chunks that are done.
THEOREM CountCoversDone == Spec => []DoneAreCounted
<1>1. FileInv => DoneAreCounted
  BY DEF FileInv
<1> QED
  BY <1>1, FileInvariant, PTL

\* Every chunk and every request the file threads are to handle has its ticket, also
\* in the file whose semaphore is never initialised; only that one may have more.
THEOREM TicketsCoverItems == Spec => []TicketPerItem
<1>1. FileInv => TicketPerItem
  BY DEF FileInv
<1> QED
  BY <1>1, FileInvariant, PTL

--------------------------------------------------------------------------------
\* The refinement of Download, one lemma per operation.

LEMMA BeginDownloads ==
  ASSUME FileInv, NEW type \in ThreadType, Begin(type)
  PROVE  Chunks!Begin
<1>1. Chunk' = Chunk /\ status' = [c \in Chunk |-> {}]
  BY DEF Begin, info, Chunk
<1>2. \A c \in Chunk : status[c] = {}
  BY DEF FileInv, NewInv, Begun, Begin, ThreadType
<1>3. Done = {} /\ Done' = {} /\ Whining = {} /\ Whining' = {}
  BY <1>1, <1>2 DEF Done, Whining, Missing
<1>4. Phase = "new" /\ Phase' = "running"
  BY DEF Phase, Begun, Begin, ThreadType
<1> QED
  BY <1>1, <1>3, <1>4 DEF Chunks!Begin

LEMMA WhineAsks ==
  ASSUME FileInv, WhineAll
  PROVE  Chunks!Ask
<1>1. /\ Chunk' = Chunk
      /\ status' = [c \in Chunk |-> IF c \in Done THEN status[c]
                                    ELSE status[c] \union {"WHINE"}]
  BY DEF WhineAll, info, Chunk
<1>2. Done' = Done
  BY <1>1 DEF Done
<1>3. Whining' = Chunk \ Done
  BY <1>1, <1>2 DEF Whining, Missing
<1>4. Phase' = Phase /\ Phase # "new"
  BY DEF Phase, Begun, WhineAll
<1> QED
  BY <1>1, <1>2, <1>3, <1>4 DEF Chunks!Ask

LEMMA DoneReceives ==
  ASSUME FileInv, NEW c \in Chunk, SetDone(c)
  PROVE  Chunks!Receive(c)
<1>1. /\ Chunk' = Chunk
      /\ status \in [Chunk -> SUBSET ChunkCode]
      /\ status' = [status EXCEPT ![c] = @ \union {"DONE"}]
  BY DEF FileInv, TypeOK, SetDone, info, Chunk
<1>2. Done' = Done \union {c}
  BY <1>1 DEF Done
<1>3. Whining' = Whining \ {c}
  BY <1>1, <1>2 DEF Whining, Missing
<1>4. Phase' = Phase /\ Phase # "new"
  BY DEF Phase, Begun, SetDone
<1> QED
  BY <1>1, <1>2, <1>3, <1>4 DEF Chunks!Receive

\* Verification ends the processing of a complete file, or leaves all as it is.
LEMMA VerifyFinishes ==
  ASSUME FileInv, Verify
  PROVE  Chunks!Finish \/ UNCHANGED <<Chunk, Done, Whining, Phase>>
<1>1. Chunk' = Chunk /\ Done' = Done /\ Whining' = Whining
  BY DEF Verify, info, Chunk, Done, Whining, Missing
<1>2. CASE active /\ Missing = {}
  <2>1. Phase = "running" /\ Phase' = "ended"
    BY <1>2 DEF Phase, Begun, Verify
  <2>2. Done = Chunk
    BY <1>2 DEF Missing, Done
  <2> QED
    BY <1>1, <2>1, <2>2 DEF Chunks!Finish
<1>3. CASE ~(active /\ Missing = {})
  <2>1. Phase' = Phase
    BY <1>3 DEF Phase, Begun, Verify
  <2> QED
    BY <1>1, <2>1
<1> QED
  BY <1>2, <1>3

\* Every sequence of calls on a file's chunks is one of Download's.
THEOREM FileImplementsDownload == Spec => DownloadKept
<1>1. Init => Chunks!Init
  <2> SUFFICES ASSUME Init PROVE Chunks!Init
    OBVIOUS
  <2>1. Chunk \in SUBSET Nat
    BY InitFileInv DEF FileInv, TypeOK, Chunk
  <2>2. Done = {} /\ Whining = {}
    BY DEF Init, Done, Whining, Missing
  <2>3. Phase = "new"
    BY DEF Init, Phase, Begun
  <2> QED
    BY <2>1, <2>2, <2>3 DEF Chunks!Init
<1>2. FileInv /\ [Next]_vars => [Chunks!Next]_(Chunks!vars)
  <2> SUFFICES ASSUME FileInv, [Next]_vars
               PROVE  Chunks!Next \/ UNCHANGED <<Chunk, Done, Whining, Phase>>
    BY DEF Chunks!vars
  <2>1. CASE AddIncoming \/ AddMissing \/ UNCHANGED vars
    BY <2>1 DEF AddIncoming, AddMissing, vars, info, Chunk, Done, Whining,
                Missing, Phase, Begun
  <2>2. CASE WhineAll \/ Verify
    BY <2>2, WhineAsks, VerifyFinishes DEF Chunks!Next
  <2>3. ASSUME NEW type \in ThreadType, Begin(type)
        PROVE  Chunks!Next
    BY <2>3, BeginDownloads DEF Chunks!Next
  <2>4. ASSUME NEW c \in Chunk, SetDone(c) PROVE Chunks!Next
    BY <2>4, DoneReceives DEF Chunks!Next
  <2> QED
    BY <2>1, <2>2, <2>3, <2>4 DEF Next
<1> QED
  BY <1>1, <1>2, FileInvariant, PTL DEF Spec, DownloadKept, Chunks!Spec

================================================================================
