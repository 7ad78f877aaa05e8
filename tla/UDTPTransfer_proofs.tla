-------------------------- MODULE UDTPTransfer_proofs --------------------------
(***************************************************************************)
(* Proofs about UDTPTransfer, for every set of peers and paths and every   *)
(* width of a file ID.                                                     *)
(***************************************************************************)
EXTENDS UDTPTransfer, SequenceTheorems, TLAPS

\* The flags each handler gives a file before it starts it.
Role(file) == file.approved <=> file.approver \/ file.type = "Pull"

\* What holds of a file once begin_file_processing has returned.
Begun(file) ==
  /\ Role(file)
  /\ file.active <=> file.approved
  /\ file.active /\ file.type # "Unknown" =>
       file.tickets = IF file.approver = (file.type = "Pull") THEN file.chunks
                                                             ELSE 0

\* A step that adds the file to the log and to one peer's list.
Adds(p, file) ==
  /\ overallFiles' = Append(overallFiles, file)
  /\ started' = [started EXCEPT ![p] = Append(@, Len(overallFiles) + 1)]

\* begin_file_processing leaves active, approved and tickets consistent.
LEMMA BeginEffect ==
  ASSUME NEW file \in File, ~file.active, Role(file)
  PROVE  \A g \in Begin(file) : g \in File /\ Begun(g)
<1> SUFFICES ASSUME NEW g \in Begin(file) PROVE g \in File /\ Begun(g)
  OBVIOUS
<1>1. CASE ~file.approved
  BY <1>1 DEF Begin, Begun, Role
<1>2. CASE file.approved
  <2>1. PICK m \in UNION {Tickets(file, t) : t \in ThreadTypes(file)} :
          g = [file EXCEPT !.active = TRUE, !.tickets = m]
    BY <1>2, Zenon DEF Begin
  <2>2. PICK t \in ThreadTypes(file) : \E n \in Tickets(file, t) :
          g = [file EXCEPT !.active = TRUE, !.tickets = n]
    BY <2>1, Zenon
  <2>3. PICK n \in Tickets(file, t) :
          g = [file EXCEPT !.active = TRUE, !.tickets = n]
    BY <2>2
  <2>4. t \in {"INCOMING", "OUTGOING", "Unset"}
    BY DEF ThreadTypes
  <2>5. n \in Nat
    <3>1. CASE t = "OUTGOING"
      BY <3>1, TransferAssumption DEF Tickets, File
    <3>2. CASE t = "INCOMING"
      BY <3>2 DEF Tickets
    <3>3. CASE t = "Unset"
      BY <3>3, TransferAssumption DEF Tickets
    <3> QED  BY <2>4, <3>1, <3>2, <3>3
  <2>6. g \in File
    BY <2>3, <2>5 DEF File
  <2>7. g.active /\ g.approved /\ g.type = file.type /\ g.tickets = n
        /\ g.approver = file.approver /\ g.chunks = file.chunks
    BY <1>2, <2>3 DEF File
  <2>8. ASSUME file.type # "Unknown"
        PROVE  n = IF file.approver = (file.type = "Pull") THEN file.chunks
                                                           ELSE 0
    <3>1. CASE file.approver = (file.type = "Pull")
      <4>1. t = "OUTGOING"
        BY <2>8, <3>1 DEF ThreadTypes
      <4> QED  BY <3>1, <4>1 DEF Tickets
    <3>2. CASE file.approver # (file.type = "Pull")
      <4>1. t = "INCOMING"
        BY <2>8, <3>2 DEF ThreadTypes
      <4> QED  BY <3>2, <4>1 DEF Tickets
    <3> QED  BY <3>1, <3>2
  <2>9. Role(g)
    BY <1>2, <2>7 DEF Role
  <2> QED  BY <2>6, <2>7, <2>8, <2>9 DEF Begun
<1> QED  BY <1>1, <1>2

\* add_file_to_list and start_file add one begun file.
LEMMA AddAndStartEffect ==
  ASSUME TypeOK, NEW p \in Peer, NEW file \in File, ~file.active,
         Role(file), AddAndStart(p, file)
  PROVE  \E g \in File : Begun(g) /\ Adds(p, g)
<1>1. PICK g \in Begin(file) : overallFiles' = Append(overallFiles, g)
  BY DEF AddAndStart
<1>2. g \in File /\ Begun(g)
  BY BeginEffect
<1>3. Len(overallFiles') = Len(overallFiles) + 1
  BY <1>1, <1>2, AppendProperties DEF TypeOK
<1> QED  BY <1>1, <1>2, <1>3 DEF AddAndStart, Adds

\* What a header's handler does to the log and to the peers' lists.
LEMMA Responding ==
  ASSUME TypeOK, NEW p \in Peer, NEW h \in Header, Respond(p, h)
  PROVE  \/ UNCHANGED <<overallFiles, started>>
         \/ \E g \in File : Begun(g) /\ Adds(p, g)
<1> h.path \in Path /\ h.id \in FileIdField /\ h.type \in TransferType
    /\ h.chunks \in ChunkCounts
  BY TransferAssumption DEF Header, FileId, FileIdField
<1>0. ASSUME NEW file \in NewFile(h.path)
      PROVE  file \in File /\ ~file.active /\ ~file.approved
  <2>1. file.active = FALSE /\ file.approved = FALSE
    BY DEF NewFile
  <2>2. 0 \in Nat
    OBVIOUS
  <2>3. file \in File
    BY <2>1, <2>2 DEF NewFile, File
  <2> QED  BY <2>1, <2>3
<1>1. CASE PullRequest(h)
  BY <1>1 DEF PullRequest
<1>2. CASE PullApproved(p, h)
  <2>1. PICK file \in NewFile(h.path) :
          AddAndStart(p, [UnpackFromHeader(file, h) EXCEPT
                            !.approved = TRUE, !.approver = FALSE])
    BY <1>2 DEF PullApproved
  <2>2. /\ [UnpackFromHeader(file, h) EXCEPT
              !.approved = TRUE, !.approver = FALSE] \in File
        /\ ~[UnpackFromHeader(file, h) EXCEPT
              !.approved = TRUE, !.approver = FALSE].active
        /\ Role([UnpackFromHeader(file, h) EXCEPT
              !.approved = TRUE, !.approver = FALSE])
    BY <1>0, <1>2 DEF PullApproved, UnpackFromHeader, File, FileId, FileIdField, Role
  <2> QED  BY <2>1, <2>2, AddAndStartEffect
<1>3. CASE PullConfirm(p, h)
  <2>1. PICK file \in NewFile(h.path) :
          AddAndStart(p, [file EXCEPT !.approved = TRUE, !.approver = TRUE])
    BY <1>3 DEF PullConfirm
  <2>2. /\ [file EXCEPT !.approved = TRUE, !.approver = TRUE] \in File
        /\ ~[file EXCEPT !.approved = TRUE, !.approver = TRUE].active
        /\ Role([file EXCEPT !.approved = TRUE, !.approver = TRUE])
    BY <1>0 DEF File, Role
  <2> QED  BY <2>1, <2>2, AddAndStartEffect
<1>4. CASE PushRequest(p, h)
  <2>1. PICK file \in NewFile(h.path) :
          AddAndStart(p, [UnpackFromHeader(file, h) EXCEPT
                            !.approver = TRUE, !.approved = TRUE])
    BY <1>4 DEF PushRequest
  <2>2. /\ [UnpackFromHeader(file, h) EXCEPT
              !.approver = TRUE, !.approved = TRUE] \in File
        /\ ~[UnpackFromHeader(file, h) EXCEPT
              !.approver = TRUE, !.approved = TRUE].active
        /\ Role([UnpackFromHeader(file, h) EXCEPT
              !.approver = TRUE, !.approved = TRUE])
    BY <1>0, <1>4 DEF PushRequest, UnpackFromHeader, File, FileId, FileIdField, Role
  <2> QED  BY <2>1, <2>2, AddAndStartEffect
<1>5. CASE PushApproved(p, h)
  <2>1. PICK file \in NewFile(h.path) :
          AddAndStart(p, [UnpackFromHeader(file, h) EXCEPT !.approver = FALSE])
    BY <1>5 DEF PushApproved
  <2>2. /\ [UnpackFromHeader(file, h) EXCEPT !.approver = FALSE] \in File
        /\ ~[UnpackFromHeader(file, h) EXCEPT !.approver = FALSE].active
        /\ Role([UnpackFromHeader(file, h) EXCEPT !.approver = FALSE])
    BY <1>0, <1>5 DEF PushApproved, UnpackFromHeader, File, FileId, FileIdField, Role
  <2> QED  BY <2>1, <2>2, AddAndStartEffect
<1> QED  BY <1>1, <1>2, <1>3, <1>4, <1>5 DEF Respond

\* The counter and the announced IDs keep their types.
LEMMA RespondingIds ==
  ASSUME TypeOK, NEW p \in Peer, NEW h \in Header, Respond(p, h)
  PROVE  /\ fileIDCount' \in Nat
         /\ announced' \subseteq FileId
         /\ UNCHANGED <<disk, crashed>>
<1>1. NextFileId \in FileId
  BY TransferAssumption DEF TypeOK, NextFileId, FileId
<1>2. TakeId(h) => fileIDCount' \in Nat
  BY DEF TakeId, TypeOK
<1> QED
  BY <1>1, <1>2 DEF Respond, PullRequest, PullApproved, PullConfirm,
                    PushRequest, PushApproved, TypeOK

--------------------------------------------------------------------------------
BegunFiles == \A i \in DOMAIN overallFiles : Begun(overallFiles[i])

Inv == TypeOK /\ BegunFiles /\ StartedOnce

\* The invariant holds initially.
LEMMA InitInv == Init => Inv
<1> SUFFICES ASSUME Init PROVE Inv
  OBVIOUS
<1>1. TypeOK
  BY EmptySeq DEF Init, TypeOK
<1>2. BegunFiles /\ StartedOnce
  BY DEF Init, BegunFiles, StartedOnce
<1> QED  BY <1>1, <1>2 DEF Inv

\* Adding a begun file keeps what is known of the log and of the lists.
LEMMA AddingKeeps ==
  ASSUME Inv, NEW p \in Peer, NEW g \in File, Begun(g), Adds(p, g)
  PROVE  /\ overallFiles' \in Seq(File)
         /\ started' \in [Peer -> Seq(Nat)]
         /\ BegunFiles'
         /\ StartedOnce'
<1> DEFINE n == Len(overallFiles)
<1>1. /\ overallFiles \in Seq(File)
      /\ n \in Nat
      /\ DOMAIN overallFiles = 1..n
  BY LenProperties DEF Inv, TypeOK
<1>2. /\ overallFiles' \in Seq(File)
      /\ DOMAIN overallFiles' = 1..(n + 1)
      /\ overallFiles'[n + 1] = g
      /\ \A i \in 1..n : overallFiles'[i] = overallFiles[i]
  BY <1>1, AppendProperties, LenProperties DEF Adds
<1>3. \A q \in Peer : started[q] \in Seq(Nat)
  BY DEF Inv, TypeOK
<1>4. /\ started' \in [Peer -> Seq(Nat)]
      /\ \A q \in Peer : q # p => started'[q] = started[q]
      /\ started'[p] = Append(started[p], n + 1)
  BY <1>1, <1>3, AppendProperties DEF Adds, Inv, TypeOK
<1>5. /\ DOMAIN started'[p] = 1..(Len(started[p]) + 1)
      /\ DOMAIN started[p] = 1..Len(started[p])
      /\ Len(started[p]) \in Nat
      /\ started'[p][Len(started[p]) + 1] = n + 1
      /\ \A k \in DOMAIN started[p] : started'[p][k] = started[p][k]
  BY <1>1, <1>3, <1>4, AppendProperties, LenProperties
<1>6. BegunFiles'
  BY <1>1, <1>2 DEF Inv, BegunFiles
<1>7. \A q \in Peer : \A k \in DOMAIN started'[q] :
        \/ k \in DOMAIN started[q] /\ started'[q][k] = started[q][k]
        \/ q = p /\ k = Len(started[p]) + 1 /\ started'[q][k] = n + 1
  <2> SUFFICES ASSUME NEW q \in Peer, NEW k \in DOMAIN started'[q]
               PROVE  \/ k \in DOMAIN started[q] /\ started'[q][k] = started[q][k]
                      \/ q = p /\ k = Len(started[p]) + 1 /\ started'[q][k] = n + 1
    OBVIOUS
  <2>1. CASE q # p
    BY <1>4, <2>1, Zenon
  <2>2. CASE q = p
    <3>1. k \in 1..(Len(started[p]) + 1)
      BY <1>5, <2>2, Zenon
    <3>2. k \in DOMAIN started[p] \/ k = Len(started[p]) + 1
      BY <1>5, <3>1
    <3> QED  BY <1>5, <2>2, <3>2, Zenon
  <2> QED  BY <2>1, <2>2
<1>8. \A q \in Peer : \A k \in DOMAIN started[q] : started[q][k] \in 1..n
  BY <1>1 DEF Inv, StartedOnce
<1>9. \A q, r \in Peer : \A k \in DOMAIN started[q], l \in DOMAIN started[r] :
        started[q][k] = started[r][l] => q = r /\ k = l
  BY DEF Inv, StartedOnce
<1>10. StartedOnce'
  <2>1. \A q \in Peer : \A k \in DOMAIN started'[q] :
          started'[q][k] \in DOMAIN overallFiles'
    BY <1>1, <1>2, <1>7, <1>8
  <2>2. ASSUME NEW q \in Peer, NEW r \in Peer, NEW k \in DOMAIN started'[q],
               NEW l \in DOMAIN started'[r], started'[q][k] = started'[r][l]
        PROVE  q = r /\ k = l
    <3>1. CASE k \in DOMAIN started[q] /\ started'[q][k] = started[q][k]
      <4>1. started'[r][l] \in 1..n
        BY <1>8, <2>2, <3>1
      <4>2. l \in DOMAIN started[r] /\ started'[r][l] = started[r][l]
        BY <1>1, <1>7, <4>1
      <4>3. started[q][k] = started[r][l]
        BY <2>2, <3>1, <4>2
      <4> QED  BY <1>9, <3>1, <4>2, <4>3
    <3>2. CASE q = p /\ k = Len(started[p]) + 1 /\ started'[q][k] = n + 1
      <4>1. started'[r][l] = n + 1
        BY <2>2, <3>2
      <4>2. ~(started'[r][l] \in 1..n)
        BY <1>1, <4>1
      <4>3. r = p /\ l = Len(started[p]) + 1
        BY <1>7, <1>8, <4>2
      <4> QED  BY <3>2, <4>3
    <3> QED  BY <1>7, <3>1, <3>2
  <2> QED  BY <2>1, <2>2 DEF StartedOnce
<1> QED  BY <1>2, <1>4, <1>6, <1>10

\* Every step keeps the invariant.
LEMMA NextInv == Inv /\ [Next]_vars => Inv'
<1> SUFFICES ASSUME Inv, [Next]_vars PROVE Inv'
  OBVIOUS
<1> USE DEF Inv
<1>1. CASE \E p \in Peer, h \in Header : Respond(p, h)
  <2>1. PICK p \in Peer, h \in Header : Respond(p, h)
    BY <1>1
  <2>2. /\ fileIDCount' \in Nat
        /\ announced' \subseteq FileId
        /\ UNCHANGED <<disk, crashed>>
    BY <2>1, RespondingIds
  <2>3. CASE UNCHANGED <<overallFiles, started>>
    BY <2>2, <2>3 DEF TypeOK, BegunFiles, StartedOnce
  <2>4. CASE \E g \in File : Begun(g) /\ Adds(p, g)
    BY <2>2, <2>4, AddingKeeps DEF TypeOK
  <2> QED  BY <2>1, <2>3, <2>4, Responding
<1>2. CASE Crash
  BY <1>2 DEF Crash, TypeOK, BegunFiles, StartedOnce
<1>3. CASE \E p \in Peer : PeerLeaves(p)
  <2>1. PICK p \in Peer : PeerLeaves(p)
    BY <1>3
  <2>2. /\ started' = [started EXCEPT ![p] = <<>>]
        /\ UNCHANGED <<disk, fileIDCount, overallFiles, announced, crashed>>
    BY <2>1 DEF PeerLeaves
  <2>3. <<>> \in Seq(Nat) /\ DOMAIN <<>> = {}
    BY EmptySeq, LenProperties
  <2>4. /\ started' \in [Peer -> Seq(Nat)]
        /\ started'[p] = <<>>
        /\ \A q \in Peer : q # p => started'[q] = started[q]
    BY <2>2, <2>3 DEF TypeOK
  <2>5. \A q \in Peer : \A k \in DOMAIN started'[q] :
          q # p /\ k \in DOMAIN started[q] /\ started'[q][k] = started[q][k]
    BY <2>3, <2>4
  <2>6. StartedOnce'
    BY <2>2, <2>5 DEF StartedOnce
  <2> QED  BY <2>2, <2>4, <2>6 DEF TypeOK, BegunFiles
<1>4. CASE \E path \in Path : DiskChanges(path)
  <2>1. PICK path \in Path, s \in {"absent", "empty", "data"} :
          disk' = [disk EXCEPT ![path] = s]
    BY <1>4 DEF DiskChanges
  <2>2. disk' \in [Path -> {"absent", "empty", "data"}]
    BY <2>1 DEF TypeOK
  <2>3. UNCHANGED <<fileIDCount, overallFiles, started, announced, crashed>>
    BY <1>4 DEF DiskChanges
  <2> QED  BY <2>2, <2>3 DEF TypeOK, BegunFiles, StartedOnce
<1>5. CASE UNCHANGED vars
  BY <1>5 DEF vars, TypeOK, BegunFiles, StartedOnce
<1> QED  BY <1>1, <1>2, <1>3, <1>4, <1>5 DEF Next

--------------------------------------------------------------------------------
\* Every header leaves files, IDs and registries of their types, whatever the
\* fields the constructor never sets hold.
THEOREM TransferTypes == Spec => []TypeOK
<1>1. Inv => TypeOK
  BY DEF Inv
<1> QED  BY <1>1, InitInv, NextInv, PTL DEF Spec

\* No file is started twice or by two peers, in every behaviour.
THEOREM FilesStartedOnce == Spec => []StartedOnce
<1>1. Inv => StartedOnce
  BY DEF Inv
<1> QED  BY <1>1, InitInv, NextInv, PTL DEF Spec

\* UDTPHeader.cpp:82-145: a file runs where this side approved it or asked to pull
\* it, so an approved push never runs at the side that pushes.
THEOREM PushesNeverStartAtTheAsker == Spec => []OnlyPullsStartAtTheAsker
<1>1. Inv => OnlyPullsStartAtTheAsker
  BY DEF Inv, BegunFiles, Begun, Role, OnlyPullsStartAtTheAsker
<1> QED  BY <1>1, InitInv, NextInv, PTL DEF Spec

\* UDTP.cpp:443: the log of files only grows, and its entries never change.
THEOREM LogIsAppendOnly == Spec => LogOnlyGrows
<1> DEFINE Grows == /\ Len(overallFiles) <= Len(overallFiles')
                    /\ \A i \in DOMAIN overallFiles :
                         overallFiles'[i] = overallFiles[i]
<1>1. ASSUME Inv, [Next]_vars
      PROVE  [Grows]_vars
  <2>0. Len(overallFiles) \in Nat
    BY <1>1, LenProperties DEF Inv, TypeOK
  <2>1. CASE UNCHANGED overallFiles
    BY <2>0, <2>1
  <2>2. CASE \E p \in Peer, g \in File : Adds(p, g)
    BY <1>1, <2>0, <2>2, AppendProperties, LenProperties
       DEF Inv, TypeOK, Adds
  <2>3. CASE \E p \in Peer, h \in Header : Respond(p, h)
    BY <1>1, <2>1, <2>2, <2>3, Responding DEF Inv
  <2> QED
    BY <1>1, <2>1, <2>3 DEF Next, Crash, PeerLeaves, DiskChanges, vars
<1> QED  BY <1>1, InitInv, NextInv, PTL DEF Spec, LogOnlyGrows

--------------------------------------------------------------------------------
\* Until the counter outgrows an ID, the announced IDs are among the first it
\* gave out.
IdInv ==
  fileIDCount < IdSpace => \A id \in announced : 0 < id /\ id <= fileIDCount

\* What a step does to the counter and the announced IDs.
IdsStay == fileIDCount' = fileIDCount /\ announced' = announced
IdTaken == fileIDCount' = fileIDCount + 1 /\ announced' = announced
IdGiven == /\ fileIDCount' = fileIDCount + 1
           /\ announced' = announced \union {NextFileId}

LEMMA IdSteps ==
  ASSUME TypeOK, [Next]_vars
  PROVE  IdsStay \/ (IdTaken /\ overallFiles' = overallFiles) \/ IdGiven
<1>1. ASSUME NEW p \in Peer, NEW h \in Header, Respond(p, h)
      PROVE  IdsStay \/ (IdTaken /\ overallFiles' = overallFiles) \/ IdGiven
  BY <1>1 DEF Respond, PullRequest, PullApproved, PullConfirm, PushRequest,
              PushApproved, TakeId, IdsStay, IdTaken, IdGiven
<1> QED
  BY <1>1 DEF Next, Crash, PeerLeaves, DiskChanges, vars, IdsStay

LEMMA NextIdInv ==
  ASSUME TypeOK, IdInv, [Next]_vars
  PROVE  /\ IdInv'
         /\ IdGiven /\ fileIDCount' < IdSpace
              => announced' # announced /\ 0 \notin announced'
<1>0. fileIDCount \in Nat /\ IdSpace \in Nat /\ \A id \in announced : id \in Nat
  BY TransferAssumption DEF TypeOK, FileId
<1>1. CASE IdsStay
  BY <1>0, <1>1 DEF IdsStay, IdGiven, IdInv
<1>2. CASE IdTaken /\ ~IdGiven
  BY <1>0, <1>2 DEF IdTaken, IdInv
<1>3. CASE IdGiven
  <2>1. ASSUME fileIDCount' < IdSpace
        PROVE  NextFileId = fileIDCount + 1
    BY <1>0, <1>3, <2>1 DEF IdGiven, NextFileId
  <2> QED
    BY <1>0, <1>3, <2>1 DEF IdGiven, IdInv
<1> QED
  BY <1>1, <1>2, <1>3, IdSteps

\* A push that asks for an ID is given one that no earlier push has, however many
\* pulls used the counter in between, until the counter outgrows an ID.
THEOREM IdsStayFresh == Spec => IdsAreFresh
<1>1. Init => IdInv
  BY DEF Init, IdInv
<1>2. Inv /\ IdInv /\ [Next]_vars => IdInv'
  BY NextIdInv DEF Inv
<1>3. ASSUME Inv, IdInv, [Next]_vars, fileIDCount' > fileIDCount,
             overallFiles' # overallFiles, fileIDCount' < IdSpace
      PROVE  announced' # announced /\ 0 \notin announced'
  <2>1. fileIDCount \in Nat
    BY <1>3 DEF Inv, TypeOK
  <2>2. IdGiven
    BY <1>3, <2>1, IdSteps DEF Inv, IdsStay
  <2> QED
    BY <1>3, <2>2, NextIdInv DEF Inv
<1>4. Inv /\ IdInv /\ [Next]_vars
        => [/\ fileIDCount' > fileIDCount
            /\ overallFiles' # overallFiles
            /\ fileIDCount' < IdSpace
            => announced' # announced /\ 0 \notin announced']_vars
  BY <1>3
<1> QED  BY <1>1, <1>2, <1>4, InitInv, NextInv, PTL DEF Spec, IdsAreFresh

--------------------------------------------------------------------------------
\* The refinement of FileLedger.

\* The ledger has an entry for each position of the log.
LEMMA LedgerEntries ==
  ASSUME TypeOK
  PROVE  /\ LedgerOf \in Seq(Ledger!Entry)
         /\ Len(LedgerOf) = Len(overallFiles)
<1>1. overallFiles \in Seq(File) /\ Len(overallFiles) \in Nat
      /\ DOMAIN overallFiles = 1 .. Len(overallFiles)
  BY LenProperties DEF TypeOK
<1>2. \A i \in 1 .. Len(overallFiles) :
        /\ overallFiles[i].path \in Path
        /\ overallFiles[i].active \in BOOLEAN
        /\ Workers(i) \in SUBSET Peer
  <2>1. \A i \in 1 .. Len(overallFiles) : overallFiles[i] \in File
    BY <1>1
  <2> QED
    BY <2>1 DEF File, Workers
<1>3. LedgerOf \in [1 .. Len(overallFiles) -> Ledger!Entry]
  BY <1>1, <1>2 DEF LedgerOf, Ledger!Entry
<1> QED
  BY <1>1, <1>3

\* Listing a file is one List step of the peer it came from: the new position is
\* in no peer's list yet, and the lists of the others stay.
LEMMA AddingLists ==
  ASSUME Inv, NEW p \in Peer, NEW g \in File, Adds(p, g), TypeOK'
  PROVE  Ledger!List(p)
<1> DEFINE n == Len(overallFiles)
           e == [path |-> g.path, active |-> g.active, workers |-> {p}]
<1>1. /\ overallFiles \in Seq(File) /\ n \in Nat
      /\ DOMAIN overallFiles = 1 .. n
      /\ DOMAIN overallFiles' = 1 .. (n + 1)
      /\ overallFiles'[n + 1] = g
      /\ \A i \in 1 .. n : overallFiles'[i] = overallFiles[i]
  BY AppendProperties, LenProperties DEF Adds, Inv, TypeOK
<1>2. /\ \A q \in Peer : q # p => started'[q] = started[q]
      /\ started'[p] = Append(started[p], n + 1)
      /\ \A q \in Peer : started[q] \in Seq(Nat)
  BY <1>1 DEF Adds, Inv, TypeOK
<1>3. /\ DOMAIN started'[p] = 1 .. (Len(started[p]) + 1)
      /\ DOMAIN started[p] = 1 .. Len(started[p])
      /\ Len(started[p]) \in Nat
      /\ started'[p][Len(started[p]) + 1] = n + 1
      /\ \A k \in DOMAIN started[p] : started'[p][k] = started[p][k]
  BY <1>1, <1>2, AppendProperties, LenProperties
<1>4. \A q \in Peer : \A k \in DOMAIN started[q] : started[q][k] \in 1 .. n
  BY <1>1 DEF Inv, StartedOnce
<1>5. \A i \in 1 .. n : Workers(i)' = Workers(i)
  <2> SUFFICES ASSUME NEW i \in 1 .. n, NEW q \in Peer
               PROVE  (\E k \in DOMAIN started'[q] : started'[q][k] = i)
                        <=> (\E k \in DOMAIN started[q] : started[q][k] = i)
    BY DEF Workers
  <2>1. CASE q # p
    BY <1>2, <2>1
  <2>2. CASE q = p
    <3>1. \A k \in DOMAIN started'[p] :
            k \in DOMAIN started[p] \/ started'[p][k] = n + 1
      BY <1>3
    <3>2. i # n + 1
      BY <1>1
    <3>3. DOMAIN started[p] \subseteq DOMAIN started'[p]
      BY <1>3
    <3> QED
      BY <1>3, <2>2, <3>1, <3>2, <3>3
  <2> QED
    BY <2>1, <2>2
<1>6. \A i \in {n + 1} : Workers(i)' = {p}
  <2> SUFFICES ASSUME NEW i \in {n + 1} PROVE Workers(i)' = {p}
    OBVIOUS
  <2>1. p \in Workers(i)'
    <3>1. Len(started[p]) + 1 \in DOMAIN started'[p]
      BY <1>3
    <3>2. \E k \in DOMAIN started'[p] : started'[p][k] = i
      BY <1>3, <3>1, Zenon
    <3> QED
      BY <3>2 DEF Workers
  <2>2. ASSUME NEW q \in Peer, q # p PROVE q \notin Workers(i)'
    BY <1>1, <1>2, <1>4, <2>2 DEF Workers
  <2> QED
    BY <2>1, <2>2 DEF Workers
<1>7. /\ g.path \in Path /\ g.active \in BOOLEAN
  BY DEF File
<1>8. /\ LedgerOf \in Seq(Ledger!Entry) /\ Len(LedgerOf) = n
      /\ e \in Ledger!Entry
  BY <1>7, LedgerEntries DEF Inv, Ledger!Entry
<1>9. /\ Append(LedgerOf, e) \in Seq(Ledger!Entry)
      /\ Len(Append(LedgerOf, e)) = n + 1
      /\ \A i \in 1 .. n : Append(LedgerOf, e)[i] = LedgerOf[i]
      /\ Append(LedgerOf, e)[n + 1] = e
  BY <1>8, AppendProperties
<1>10. /\ \A i \in 1 .. n : LedgerOf'[i] = LedgerOf[i]
       /\ LedgerOf'[n + 1] = e
       /\ DOMAIN LedgerOf' = 1 .. (n + 1)
  <2>1. LedgerOf' = [i \in 1 .. (n + 1) |->
                       [path |-> overallFiles'[i].path,
                        active |-> overallFiles'[i].active,
                        workers |-> Workers(i)']]
    BY <1>1 DEF LedgerOf
  <2>2. LedgerOf = [i \in 1 .. n |->
                      [path |-> overallFiles[i].path,
                       active |-> overallFiles[i].active,
                       workers |-> Workers(i)]]
    BY <1>1 DEF LedgerOf
  <2>3. n + 1 \in 1 .. (n + 1) /\ 1 .. n \subseteq 1 .. (n + 1)
    BY <1>1
  <2>4. LedgerOf'[n + 1] = e
    <3>1. \A i \in 1 .. (n + 1) :
            i = n + 1 => LedgerOf'[i] = [path |-> g.path, active |-> g.active,
                                         workers |-> {p}]
      BY <1>1, <1>6, <2>1
    <3> QED
      BY <2>3, <3>1
  <2>5. \A i \in 1 .. n : LedgerOf'[i] = LedgerOf[i]
    BY <1>1, <1>5, <2>1, <2>2, <2>3
  <2> QED
    BY <2>1, <2>4, <2>5
<1>11. LedgerOf' = Append(LedgerOf, e)
  <2>1. LedgerOf' = [i \in 1 .. (n + 1) |-> LedgerOf'[i]]
    BY <1>10 DEF LedgerOf
  <2>2. Append(LedgerOf, e) = [i \in 1 .. (n + 1) |-> Append(LedgerOf, e)[i]]
    BY <1>9
  <2>3. \A i \in 1 .. (n + 1) : LedgerOf'[i] = Append(LedgerOf, e)[i]
    BY <1>1, <1>9, <1>10
  <2> QED
    BY <2>1, <2>2, <2>3
<1> QED
  BY <1>7, <1>11 DEF Ledger!List

\* A peer that is deleted takes only its own work along.
LEMMA LeavingDrops ==
  ASSUME Inv, NEW p \in Peer, PeerLeaves(p)
  PROVE  Ledger!Leave(p)
<1>1. /\ started' = [started EXCEPT ![p] = <<>>]
      /\ overallFiles' = overallFiles
  BY DEF PeerLeaves
<1>2. started'[p] = <<>> /\ \A q \in Peer : q # p => started'[q] = started[q]
  BY <1>1 DEF Inv, TypeOK
<1>3. \A i \in DOMAIN overallFiles : Workers(i)' = Workers(i) \ {p}
  BY <1>2 DEF Workers
<1>4. LedgerOf' = [i \in DOMAIN LedgerOf |->
                     [LedgerOf[i] EXCEPT !.workers = @ \ {p}]]
  BY <1>1, <1>3 DEF LedgerOf
<1> QED
  BY <1>4 DEF Ledger!Leave

\* The log and the peers' lists are a ledger: every behaviour in which headers of
\* any kind arrive from any peer in any order, peers leave and other programs
\* change the disk is one of FileLedger.
THEOREM TransferImplementsLedger == Spec => LedgerKept
<1>1. Init => Ledger!Init
  <2> SUFFICES ASSUME Init PROVE LedgerOf = <<>>
    BY DEF Ledger!Init
  <2>1. LedgerOf \in Seq(Ledger!Entry) /\ Len(LedgerOf) = 0
    BY InitInv, LedgerEntries, EmptySeq DEF Inv, Init
  <2> QED
    BY <2>1, EmptySeq
<1>2. Inv /\ [Next]_vars => [Ledger!Next]_LedgerOf
  <2> SUFFICES ASSUME Inv, [Next]_vars PROVE Ledger!Next \/ LedgerOf' = LedgerOf
    OBVIOUS
  <2>1. CASE UNCHANGED <<overallFiles, started>>
    BY <2>1 DEF LedgerOf, Workers
  <2>2. ASSUME NEW p \in Peer, NEW g \in File, Adds(p, g) PROVE Ledger!Next
    <3>1. Ledger!List(p)
      BY <2>2, AddingLists, NextInv DEF Inv
    <3> QED
      BY <3>1 DEF Ledger!Next
  <2>3. ASSUME NEW p \in Peer, PeerLeaves(p) PROVE Ledger!Next
    BY <2>3, LeavingDrops DEF Ledger!Next
  <2>4. CASE \E p \in Peer, h \in Header : Respond(p, h)
    BY <2>1, <2>2, <2>4, Responding DEF Inv
  <2> QED
    BY <2>1, <2>3, <2>4 DEF Next, Crash, DiskChanges, vars
<1> QED
  BY <1>1, <1>2, InitInv, NextInv, PTL DEF Spec, LedgerKept, Ledger!Spec

================================================================================
