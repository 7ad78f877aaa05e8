----------------------------- MODULE UDTPTransfer -----------------------------
(***************************************************************************)
(* One side of the negotiation of a file: UDTPHeader::respond(), executed  *)
(* by the listen thread, with the log of files it fills, the peers that    *)
(* start them and the local file system.                                   *)
(*                                                                         *)
(* A UDTPHeader's fields are never filled from the packet, so a header may *)
(* be any.  A UDTPFile's constructor leaves its ID, its chunk count, its   *)
(* transfer type and its approver flag unset, so a new file may hold any.  *)
(*                                                                         *)
(* Definitions named after another one with a suffix are mistakes the code *)
(* might have made; no specification uses them.                            *)
(***************************************************************************)
EXTENDS UDTPPacket, Integers, Sequences

CONSTANTS
  Peer,          \* the peers of this instance
  Path,          \* the paths a header may name
  IdSpace,       \* how many values an unsigned short file ID has
  ChunkCounts,   \* the numbers of chunks a header or a file may hold
  MaxFiles,      \* bound: files in the log
  MaxIds         \* bound: values of _fileIDCount

ASSUME TransferAssumption ==
  /\ IdSpace \in Nat \ {0}
  /\ ChunkCounts \subseteq Nat
  /\ MaxFiles \in Nat
  /\ MaxIds \in Nat

VARIABLES
  disk,           \* disk[path]: "absent", "empty" or "data"
  fileIDCount,    \* _fileIDCount
  overallFiles,   \* _overallFiles, the log of all files
  started,        \* started[p]: positions in the log of p's _activeFiles
  announced,      \* IDs this side gave to pushes that asked for one
  crashed         \* the process died

vars == <<disk, fileIDCount, overallFiles, started, announced, crashed>>

TransferType == {"Pull", "Push", "Unknown"}
FileId == 0..(IdSpace - 1)
FileIdField == 0..IdSpace   \* an unsigned int: IdSpace stands for what is no ID
Header == [type : TransferType, code : Codes, path : Path, id : FileId,
           chunks : ChunkCounts]
File == [path : Path, id : FileIdField, type : TransferType, chunks : ChunkCounts,
         approver : BOOLEAN, approved : BOOLEAN, active : BOOLEAN, tickets : Nat]

Init ==
  /\ disk \in [Path -> {"absent", "empty", "data"}]
  /\ fileIDCount = 0
  /\ overallFiles = <<>>
  /\ started = [p \in Peer |-> <<>>]
  /\ announced = {}
  /\ crashed = FALSE

--------------------------------------------------------------------------------
\* UDTPFile.

\* check_file_exist: tellg() is -1 for a file that cannot be opened.
Exists(path) == disk[path] # "empty"

NewFile(path) ==
  [path : {path}, id : FileIdField, type : TransferType, chunks : ChunkCounts,
   approver : BOOLEAN, approved : {FALSE}, active : {FALSE}, tickets : {0}]

UnpackFromHeader(file, h) ==
  [file EXCEPT !.chunks = h.chunks, !.id = h.id, !.type = h.type]

\* get_thread_type: a type that is neither Pull nor Push returns no value.
ThreadTypes(file) ==
  CASE file.type = "Unknown"                   -> {"INCOMING", "OUTGOING", "Unset"}
    [] file.approver = (file.type = "Pull")    -> {"OUTGOING"}
    [] OTHER                                   -> {"INCOMING"}

\* The value sem_init gives the file's semaphore, or what memory held.
Tickets(file, threadType) ==
  CASE threadType = "OUTGOING" -> {file.chunks}
    [] threadType = "INCOMING" -> {0}
    [] threadType = "Unset"    -> ChunkCounts

BeginForSender(file) ==
  IF file.approved
  THEN {[file EXCEPT !.active = TRUE, !.tickets = file.chunks]}
  ELSE {file}

\* begin_file_processing.  No file thread is created: add_file_thread tests
\* _active, which is set after the loop that calls it.
Begin(file) ==
  IF file.approved
  THEN {[file EXCEPT !.active = TRUE, !.tickets = n] :
          n \in UNION {Tickets(file, t) : t \in ThreadTypes(file)}}
  ELSE {file}

--------------------------------------------------------------------------------
\* The registries.

NextFileIdWide == fileIDCount + 1
NextFileIdPost == fileIDCount % IdSpace
NextFileId == (fileIDCount + 1) % IdSpace

\* A header that carries no ID takes the next one.
TakeId(h) ==
  /\ h.id = 0 => fileIDCount < MaxIds
  /\ fileIDCount' = IF h.id = 0 THEN fileIDCount + 1 ELSE fileIDCount

AddAndStartUnbegun(p, file) ==
  /\ Len(overallFiles) < MaxFiles
  /\ overallFiles' = Append(overallFiles, file)
  /\ started' = [started EXCEPT ![p] = Append(@, Len(overallFiles'))]
AddAndStartById(p, file) ==
  /\ Len(overallFiles) < MaxFiles
  /\ \E g \in Begin(file) :
       overallFiles' = Append([i \in DOMAIN overallFiles |->
                                 IF overallFiles[i].id = file.id
                                 THEN [overallFiles[i] EXCEPT !.active = g.active]
                                 ELSE overallFiles[i]], g)
  /\ started' = [started EXCEPT ![p] = Append(@, Len(overallFiles'))]
AddAndStartLast(p, file) ==
  /\ Len(overallFiles) < MaxFiles
  /\ \E g \in Begin(file) : overallFiles' = Append(overallFiles, g)
  /\ started' = [started EXCEPT ![p] = Append(@, Len(overallFiles))]

\* add_file_to_list, then start_file of the peer the header came from.
AddAndStart(p, file) ==
  /\ Len(overallFiles) < MaxFiles
  /\ \E g \in Begin(file) : overallFiles' = Append(overallFiles, g)
  /\ started' = [started EXCEPT ![p] = Append(@, Len(overallFiles'))]

--------------------------------------------------------------------------------
\* UDTPHeader::respond(), one action per transfer type and response code; any
\* other header changes nothing.

\* The ID is taken and then overwritten with the unset one of the local file.
PullRequest(h) ==
  /\ h.type = "Pull" /\ h.code = "None"
  /\ Exists(h.path)
  /\ TakeId(h)
  /\ UNCHANGED <<overallFiles, started, announced>>

PullApproved(p, h) ==
  /\ h.type = "Pull" /\ h.code = "Approved"
  /\ \E file \in NewFile(h.path) :
       AddAndStart(p, [UnpackFromHeader(file, h) EXCEPT
                         !.approved = TRUE, !.approver = FALSE])
  /\ UNCHANGED <<fileIDCount, announced>>

\* The chunk count is computed with an unset chunk size; ID and type stay unset.
PullConfirm(p, h) ==
  /\ h.type = "Pull" /\ h.code = "Confirm"
  /\ \E file \in NewFile(h.path) :
       AddAndStart(p, [file EXCEPT !.approved = TRUE, !.approver = TRUE])
  /\ UNCHANGED <<fileIDCount, announced>>

\* The file takes its ID from the header before the header is given one.
PushRequest(p, h) ==
  /\ h.type = "Push" /\ h.code = "None"
  /\ ~Exists(h.path)
  /\ \E file \in NewFile(h.path) :
       AddAndStart(p, [UnpackFromHeader(file, h) EXCEPT
                         !.approver = TRUE, !.approved = TRUE])
  /\ TakeId(h)
  /\ announced' = IF h.id = 0 THEN announced \union {NextFileId} ELSE announced

PushApproved(p, h) ==
  /\ h.type = "Push" /\ h.code = "Approved"
  /\ \E file \in NewFile(h.path) :
       AddAndStart(p, [UnpackFromHeader(file, h) EXCEPT !.approver = FALSE])
  /\ UNCHANGED <<fileIDCount, announced>>

Respond(p, h) ==
  /\ ~crashed
  /\ \/ PullRequest(h)
     \/ PullApproved(p, h)
     \/ PullConfirm(p, h)
     \/ PushRequest(p, h)
     \/ PushApproved(p, h)
  /\ UNCHANGED <<disk, crashed>>

\* The header's path, a chunk size of zero or the file's unset UDTP is used.
Crash ==
  /\ ~crashed
  /\ crashed' = TRUE
  /\ UNCHANGED <<disk, fileIDCount, overallFiles, started, announced>>

\* The peer is deleted with its lists; the log keeps its files.
PeerLeaves(p) ==
  /\ ~crashed
  /\ started[p] # <<>>
  /\ started' = [started EXCEPT ![p] = <<>>]
  /\ UNCHANGED <<disk, fileIDCount, overallFiles, announced, crashed>>

\* Other programs; this one writes no file.
DiskChanges(path) ==
  /\ disk' \in {[disk EXCEPT ![path] = s] : s \in {"absent", "empty", "data"}}
  /\ UNCHANGED <<fileIDCount, overallFiles, started, announced, crashed>>

Next ==
  \/ \E p \in Peer, h \in Header : Respond(p, h)
  \/ Crash
  \/ \E p \in Peer : PeerLeaves(p)
  \/ \E path \in Path : DiskChanges(path)

Spec == Init /\ [][Next]_vars

--------------------------------------------------------------------------------
\* Safety.

\* Every variable has its type; an ID on the wire has 16 bits.
TypeOK ==
  /\ disk \in [Path -> {"absent", "empty", "data"}]
  /\ fileIDCount \in Nat
  /\ overallFiles \in Seq(File)
  /\ started \in [Peer -> Seq(Nat)]
  /\ announced \subseteq FileId
  /\ crashed \in BOOLEAN

\* "This adds a file to the log! No deleting or nothing!" (UDTP.cpp:443): starting
\* a file never changes one that is in the log already, whatever IDs they share.
LogOnlyGrows ==
  [][/\ Len(overallFiles) <= Len(overallFiles')
     /\ \A i \in DOMAIN overallFiles : overallFiles'[i] = overallFiles[i]]_vars

\* What role lets a file do, whatever its unset fields hold: it is active where this
\* side approved it or asked to pull it, and no side that asked has a ticket to send
\* with.  So no push ever starts at the side that pushes: for that side an approved
\* header arrives, but the flag that "waits until it receives an approved header"
\* (UDTPFile.h:135) is not set (UDTPHeader.cpp:138).
OnlyPullsStartAtTheAsker ==
  \A i \in DOMAIN overallFiles :
    LET file == overallFiles[i] IN
    /\ file.active <=> file.approver \/ file.type = "Pull"
    /\ file.active /\ ~file.approver => file.tickets = 0

\* A file that a peer works on is in the log, and no two peers work on one file.
StartedOnce ==
  /\ \A p \in Peer : \A k \in DOMAIN started[p] :
       started[p][k] \in DOMAIN overallFiles
  /\ \A p, q \in Peer : \A k \in DOMAIN started[p], l \in DOMAIN started[q] :
       started[p][k] = started[q][l] => p = q /\ k = l

\* An ID given to a push is new and is not the zero that means "no ID", as long
\* as the 32-bit counter has not outgrown the 16 bits it is returned in, however
\* many IDs the pulls in between used up.
IdsAreFresh ==
  [][/\ fileIDCount' > fileIDCount
     /\ overallFiles' # overallFiles
     /\ fileIDCount' < IdSpace
     => announced' # announced /\ 0 \notin announced']_vars

--------------------------------------------------------------------------------
\* Refinement.

\* The peers that have the file at position i of the log in their _activeFiles.
Workers(i) == {p \in Peer : \E k \in DOMAIN started[p] : started[p][k] = i}
LedgerOf == [i \in DOMAIN overallFiles |->
               [path |-> overallFiles[i].path,
                active |-> overallFiles[i].active,
                workers |-> Workers(i)]]
Ledger == INSTANCE FileLedger WITH ledger <- LedgerOf

\* add_file_to_list and start_file, two registries filled one after the other,
\* act as one: every header that lists a file puts the peer it came from, and
\* only that peer, to work on that file and on no other, and until the peer is
\* deleted nothing takes the file from it or changes its entry.
LedgerKept == Ledger!Spec

--------------------------------------------------------------------------------
\* What the repository says of this code and the code does not keep.

\* "Approves a pending file and gives it a new ID from HOST" (UDTP.h:105): a file
\* listed for an approved push has the ID that was announced for it.
PushedFileHasItsId ==
  [][\A id \in announced' \ announced :
       overallFiles'[Len(overallFiles')].id = id]_vars

================================================================================
