---------------------------- MODULE UDTPFlow_proofs ----------------------------
(***************************************************************************)
(* Theorems about UDTPFlow for every finite set of flow threads and every  *)
(* width of the packet count.  A value loaded long ago is harmless, since  *)
(* what it was bounded by has only grown: that is the inductive part.      *)
(***************************************************************************)
EXTENDS UDTPFlow, FiniteSetTheorems, TLAPS

--------------------------------------------------------------------------------
\* The number of threads at one of a set of places.
At(S) == {t \in Flow : pc[t] \in S}
PushedAt    == {"count", "add", "post"}
UncountedAt == {"push", "store", "count", "add"}

LEMMA Places == Pushed = At(PushedAt) /\ Uncounted = At(UncountedAt)
BY DEF Pushed, Uncounted, At, PushedAt, UncountedAt

LEMMA AtFinite ==
  ASSUME NEW S
  PROVE  /\ IsFiniteSet(At(S))
         /\ Cardinality(At(S)) \in Nat /\ Cardinality(At(S))' \in Nat
<1>1. At(S) \subseteq Flow /\ At(S)' \subseteq Flow
  BY DEF At
<1> QED
  BY <1>1, FlowAssumption, FS_Subset, FS_CardinalityType

\* A thread that moves enters a place, leaves it, or does neither.
LEMMA EnterCounts ==
  ASSUME TypeOK, NEW t \in Flow, NEW to, NEW S, pc[t] \notin S, to \in S,
         pc' = [pc EXCEPT ![t] = to]
  PROVE  Cardinality(At(S)') = Cardinality(At(S)) + 1
<1>1. At(S)' = At(S) \union {t} /\ t \notin At(S)
  BY DEF At, TypeOK
<1> QED
  BY <1>1, AtFinite, FS_AddElement

LEMMA LeaveCounts ==
  ASSUME TypeOK, NEW t \in Flow, NEW to, NEW S, pc[t] \in S, to \notin S,
         pc' = [pc EXCEPT ![t] = to]
  PROVE  Cardinality(At(S)') = Cardinality(At(S)) - 1
<1>1. At(S)' = At(S) \ {t} /\ t \in At(S)
  BY DEF At, TypeOK
<1> QED
  BY <1>1, AtFinite, FS_RemoveElement

LEMMA StayCounts ==
  ASSUME TypeOK, NEW t \in Flow, NEW to, NEW S, pc[t] \in S <=> to \in S,
         pc' = [pc EXCEPT ![t] = to]
  PROVE  At(S)' = At(S)
BY DEF At, TypeOK

--------------------------------------------------------------------------------
LEMMA InitTypeOK == Init => TypeOK
<1> SUFFICES ASSUME Init PROVE TypeOK
  OBVIOUS
<1>1. online \in BOOLEAN /\ deleted \in BOOLEAN /\ crashed \in BOOLEAN
  BY DEF Init
<1>2. /\ queued \in Nat /\ packets \in Nat /\ tickets \in Nat
      /\ threads \in Nat /\ received \in Nat
  BY DEF Init
<1>3. pc \in [Flow -> PC]
  BY DEF Init, PC
<1>4. loaded \in [Flow -> Nat]
  BY DEF Init
<1>5. strays \subseteq Flow
  BY DEF Init
<1> QED
  BY <1>1, <1>2, <1>3, <1>4, <1>5 DEF TypeOK

LEMMA NextTypeOK == TypeOK /\ [Next]_vars => TypeOK'
<1> SUFFICES ASSUME TypeOK, [Next]_vars PROVE TypeOK'
  OBVIOUS
<1>1. CASE Acknowledge
  <2>1. CASE AddOne
    BY <1>1, <2>1 DEF Acknowledge, AddOne, TypeOK, PC
  <2>2. CASE RemoveOne
    <3>0. /\ threads \in Nat /\ tickets \in Nat
          /\ threads' = IF threads = 0 THEN 0 ELSE threads - 1
          /\ tickets' = tickets + (threads - threads')
      BY <2>2 DEF RemoveOne, RemoveThread, TypeOK
    <3>1. threads' \in Nat /\ threads - threads' \in Nat
      BY <3>0
    <3>2. tickets' \in Nat
      BY <3>0, <3>1
    <3>3. crashed' \in BOOLEAN
      <4>1. (threads > 0) \in BOOLEAN
        OBVIOUS
      <4> QED
        BY <4>1, <2>2, Zenon DEF RemoveOne
    <3> QED
      BY <1>1, <2>2, <3>1, <3>2, <3>3 DEF Acknowledge, RemoveOne, TypeOK, threadVars
  <2>3. CASE DivideByZero
    BY <1>1, <2>3 DEF Acknowledge, DivideByZero, TypeOK, threadVars, peerVars
  <2> QED
    BY <1>1, <2>1, <2>2, <2>3 DEF Acknowledge
<1>2. CASE GoOffline
  BY <1>2 DEF GoOffline, TypeOK, threadVars
<1>3. CASE Delete
  <2>1. tickets' \in Nat /\ threads' \in Nat
    BY <1>3 DEF Delete, TypeOK
  <2>2. crashed' \in BOOLEAN
    <3>1. (threads > 0) \in BOOLEAN
      OBVIOUS
    <3> QED
      BY <3>1, <1>3, Zenon DEF Delete
  <2> QED
    BY <1>3, <2>1, <2>2 DEF Delete, TypeOK, threadVars
<1>4. ASSUME NEW t \in Flow, FlowThread(t) PROVE TypeOK'
  <2>1. CASE Begin(t)
    <3>1. /\ queued' \in Nat /\ packets' \in Nat /\ tickets' \in Nat
          /\ threads' = threads /\ online' = online /\ crashed' \in BOOLEAN
      BY <2>1 DEF Begin, UsesPeer, TypeOK, peerVars
    <3> QED
      BY <2>1, <3>1 DEF Begin, Moves, TypeOK, PC
  <2>2. CASE EndStray(t)
    BY <2>2 DEF EndStray, TypeOK, peerVars
  <2>3. CASE TakeChunk(t)
    BY <2>3 DEF TakeChunk, Moves, TypeOK, PC, peerVars
  <2>4. CASE PushLoad(t)
    <3>1. /\ queued' \in Nat /\ packets' \in Nat /\ tickets' \in Nat
          /\ threads' = threads /\ online' = online /\ crashed' \in BOOLEAN
      BY <2>4 DEF PushLoad, UsesPeer, TypeOK, peerVars
    <3> QED
      BY <2>4, <3>1 DEF PushLoad, Moves, TypeOK, PC
  <2>5. CASE PushStore(t)
    <3>0. loaded[t] + 1 \in Nat /\ queued + 1 \in Nat
      BY DEF TypeOK
    <3>1. /\ queued' \in Nat /\ packets' \in Nat /\ tickets' \in Nat
          /\ threads' = threads /\ online' = online
      BY <2>5, <3>0, Zenon DEF PushStore, UsesPeer, TypeOK, peerVars
    <3>2. crashed' \in BOOLEAN
      BY <2>5, Zenon DEF PushStore, UsesPeer, TypeOK
    <3> QED
      BY <2>5, <3>1, <3>2 DEF PushStore, Moves, TypeOK, PC
  <2>6. CASE CountLoad(t)
    <3>1. /\ queued' \in Nat /\ packets' \in Nat /\ tickets' \in Nat
          /\ threads' = threads /\ online' = online /\ crashed' \in BOOLEAN
      BY <2>6 DEF CountLoad, UsesPeer, TypeOK, peerVars
    <3> QED
      BY <2>6, <3>1 DEF CountLoad, Moves, TypeOK, PC
  <2>7. CASE CountStore(t)
    <3>0. (loaded[t] + 1) % CountSpace \in Nat
      BY FlowAssumption DEF TypeOK
    <3>1. /\ queued' \in Nat /\ packets' \in Nat /\ tickets' \in Nat
          /\ threads' = threads /\ online' = online /\ crashed' \in BOOLEAN
      BY <2>7, <3>0 DEF CountStore, UsesPeer, TypeOK, peerVars
    <3> QED
      BY <2>7, <3>1 DEF CountStore, Moves, TypeOK, PC
  <2>8. CASE Post(t)
    <3>1. /\ queued' \in Nat /\ packets' \in Nat /\ tickets' \in Nat
          /\ threads' = threads /\ online' = online /\ crashed' \in BOOLEAN
      BY <2>8 DEF Post, UsesPeer, TypeOK, peerVars
    <3> QED
      BY <2>8, <3>1 DEF Post, Moves, TypeOK, PC
  <2> QED
    BY <1>4, <2>1, <2>2, <2>3, <2>4, <2>5, <2>6, <2>7, <2>8 DEF FlowThread
<1>5. CASE UNCHANGED vars
  BY <1>5 DEF vars, TypeOK
<1> QED
  BY <1>1, <1>2, <1>3, <1>4, <1>5 DEF Next

\* The members keep their types in every interleaving, whatever is removed from
\* empty queues or done to a deleted peer.
THEOREM FlowTypes == Spec => []TypeOK
BY InitTypeOK, NextTypeOK, PTL DEF Spec

--------------------------------------------------------------------------------
\* The inductive invariant: what a thread has loaded is bounded like the member
\* it was loaded from.
Backing == tickets + Cardinality(At(PushedAt))
Handled == received - Cardinality(At(UncountedAt))

TicketInv ==
  ~deleted => /\ queued <= Backing
              /\ \A t \in Flow : pc[t] = "store" => loaded[t] <= Backing
CountInv ==
  /\ packets <= Handled
  /\ \A t \in Flow : pc[t] = "add" => loaded[t] <= Handled
FlowInv == TypeOK /\ TicketInv /\ CountInv

LEMMA BoundsTyped == ASSUME TypeOK PROVE Backing \in Int /\ Handled \in Int
BY AtFinite DEF Backing, Handled, TypeOK

LEMMA InitFlowInv == Init => FlowInv
<1> SUFFICES ASSUME Init PROVE FlowInv
  OBVIOUS
<1>1. TypeOK
  BY InitTypeOK
<1>2. At(PushedAt) = {} /\ At(UncountedAt) = {}
  BY DEF Init, At, PushedAt, UncountedAt
<1>3. Cardinality(At(PushedAt)) = 0 /\ Cardinality(At(UncountedAt)) = 0
  BY <1>2, FS_EmptySet
<1>4. \A t \in Flow : pc[t] = "none"
  BY DEF Init
<1>5. queued = 0 /\ packets = 0 /\ tickets = 0 /\ received = 0
  BY DEF Init
<1>6. queued <= Backing /\ packets <= Handled
  BY <1>3, <1>5 DEF Backing, Handled
<1>7. TicketInv /\ CountInv
  BY <1>4, <1>6, Zenon DEF TicketInv, CountInv
<1> QED
  BY <1>1, <1>7 DEF FlowInv

--------------------------------------------------------------------------------
\* The steps of the listen thread touch no place that is counted.
LEMMA QuietPlaces ==
  ASSUME TypeOK, NEW S,
         S \subseteq {"recv", "push", "store", "count", "add", "post"},
         Acknowledge \/ GoOffline \/ Delete \/ UNCHANGED vars
         \/ \E t \in Flow : EndStray(t)
  PROVE  /\ At(S)' = At(S)
         /\ \A u \in Flow : pc'[u] \in S => pc'[u] = pc[u]
         /\ loaded' = loaded /\ received' = received
<1>1. CASE Acknowledge /\ AddOne
  <2>1. PICK t \in Flow : pc[t] = "none" /\ pc' = [pc EXCEPT ![t] = "start"]
    BY <1>1 DEF AddOne
  <2>2. "none" \notin S /\ "start" \notin S
    OBVIOUS
  <2>3. At(S)' = At(S)
    BY <2>1, <2>2, StayCounts
  <2>4. \A u \in Flow : pc'[u] = IF u = t THEN "start" ELSE pc[u]
    BY <2>1 DEF TypeOK
  <2> QED
    BY <1>1, <2>2, <2>3, <2>4 DEF AddOne
<1>2. CASE pc' = pc /\ loaded' = loaded /\ received' = received
  BY <1>2 DEF At
<1>3. (Acknowledge /\ ~AddOne) \/ GoOffline \/ Delete \/ UNCHANGED vars
        \/ (\E t \in Flow : EndStray(t))
      => pc' = pc /\ loaded' = loaded /\ received' = received
  BY Zenon DEF Acknowledge, GoOffline, Delete, EndStray, RemoveOne, DivideByZero,
               threadVars, vars
<1> QED
  BY <1>1, <1>2, <1>3, Zenon

\* Their tickets only grow, and they count and queue nothing.
LEMMA QuietMembers ==
  ASSUME TypeOK,
         Acknowledge \/ GoOffline \/ Delete \/ UNCHANGED vars
         \/ \E t \in Flow : EndStray(t)
  PROVE  queued' = queued /\ packets' = packets /\ tickets' >= tickets
         /\ (deleted => deleted')
<1>1. CASE Acknowledge
  <2>1. CASE RemoveOne
    <3>1. /\ threads \in Nat /\ tickets \in Nat
          /\ threads' = IF threads = 0 THEN 0 ELSE threads - 1
          /\ tickets' = tickets + (threads - threads')
      BY <2>1 DEF RemoveOne, RemoveThread, TypeOK
    <3>2. tickets' >= tickets
      BY <3>1
    <3> QED
      BY <1>1, <2>1, <3>2 DEF Acknowledge, RemoveOne
  <2>2. CASE AddOne \/ DivideByZero
    <3>1. tickets' = tickets /\ queued' = queued /\ packets' = packets
      BY <2>2, Zenon DEF AddOne, DivideByZero, peerVars
    <3>2. tickets \in Nat
      BY DEF TypeOK
    <3> QED
      BY <1>1, <3>1, <3>2 DEF Acknowledge
  <2> QED
    BY <1>1, <2>1, <2>2 DEF Acknowledge
<1>2. CASE Delete
  BY <1>2 DEF Delete, TypeOK
<1>3. CASE GoOffline \/ UNCHANGED vars \/ \E t \in Flow : EndStray(t)
  <2>1. /\ tickets' = tickets /\ queued' = queued /\ packets' = packets
        /\ deleted' = deleted
    BY <1>3, Zenon DEF GoOffline, EndStray, vars, peerVars
  <2>2. tickets \in Nat
    BY DEF TypeOK
  <2> QED
    BY <2>1, <2>2
<1> QED
  BY <1>1, <1>2, <1>3

LEMMA QuietFlowInv ==
  ASSUME FlowInv, TypeOK',
         Acknowledge \/ GoOffline \/ Delete \/ UNCHANGED vars
         \/ \E t \in Flow : EndStray(t)
  PROVE  FlowInv'
<1> USE DEF FlowInv
<1>1. /\ At(PushedAt)' = At(PushedAt) /\ At(UncountedAt)' = At(UncountedAt)
      /\ loaded' = loaded /\ received' = received
      /\ \A u \in Flow : /\ pc'[u] = "store" => pc[u] = "store"
                         /\ pc'[u] = "add" => pc[u] = "add"
  BY QuietPlaces DEF PushedAt, UncountedAt
<1>2. /\ queued' = queued /\ packets' = packets /\ tickets' >= tickets
      /\ deleted => deleted'
  BY QuietMembers
<1>3. /\ Backing \in Int /\ Handled \in Int /\ queued \in Nat
      /\ loaded \in [Flow -> Nat] /\ Handled' = Handled
  BY <1>1, BoundsTyped DEF TypeOK, Handled
<1>4. Backing' \in Int /\ Backing' >= Backing
  BY <1>1, <1>2, AtFinite DEF Backing, TypeOK
<1>5. ASSUME ~deleted' PROVE TicketInv'
  <2>1. queued <= Backing /\ \A u \in Flow : pc[u] = "store" => loaded[u] <= Backing
    BY <1>2, <1>5 DEF TicketInv
  <2>2. queued' <= Backing'
    BY <1>2, <1>3, <1>4, <2>1
  <2>3. ASSUME NEW u \in Flow, pc'[u] = "store" PROVE loaded'[u] <= Backing'
    BY <1>1, <1>3, <1>4, <2>1, <2>3
  <2> QED
    BY <2>2, <2>3 DEF TicketInv
<1>6. CountInv'
  BY <1>1, <1>2, <1>3 DEF CountInv
<1> QED
  BY <1>5, <1>6 DEF TicketInv

--------------------------------------------------------------------------------
\* What a step of a flow thread does to its place and to what it has loaded.
LEMMA ThreadMoves ==
  ASSUME TypeOK, NEW t \in Flow, NEW from, NEW to, Moves(t, from, to)
  PROVE  /\ pc[t] = from /\ pc' = [pc EXCEPT ![t] = to] /\ deleted' = deleted
         /\ \A u \in Flow : pc'[u] = IF u = t THEN to ELSE pc[u]
BY DEF Moves, TypeOK

\* Each received chunk that a thread stops handling is counted or lost, and each
\* queued chunk is posted or still to be posted.
LEMMA ThreadBounds ==
  ASSUME TypeOK, NEW t \in Flow
  PROVE  /\ Begin(t) \/ CountLoad(t) => Backing' = Backing /\ Handled' = Handled
         /\ PushLoad(t) => Backing' = Backing /\ Handled' = Handled
         /\ TakeChunk(t) => Backing' = Backing /\ Handled' = Handled
         /\ PushStore(t) => Backing' = Backing + 1 /\ Handled' = Handled
         /\ CountStore(t) => Backing' = Backing /\ Handled' = Handled + 1
         /\ Post(t) /\ ~deleted => Backing' = Backing
         /\ Post(t) => Handled' = Handled
<1> DEFINE P == Cardinality(At(PushedAt))
           U == Cardinality(At(UncountedAt))
<1>0. tickets \in Nat /\ received \in Nat /\ P \in Nat /\ U \in Nat
  BY AtFinite DEF TypeOK
<1>1. ASSUME Begin(t) PROVE Backing' = Backing /\ Handled' = Handled
  <2>1. PICK to \in {"recv", "gone"} : Moves(t, "start", to)
    BY <1>1 DEF Begin
  <2>2. pc[t] = "start" /\ pc' = [pc EXCEPT ![t] = to]
    BY <2>1, ThreadMoves
  <2>3. At(PushedAt)' = At(PushedAt) /\ At(UncountedAt)' = At(UncountedAt)
    BY <2>2, StayCounts DEF PushedAt, UncountedAt
  <2>4. tickets' = tickets /\ received' = received
    BY <1>1 DEF Begin, UsesPeer, peerVars
  <2> QED
    BY <2>3, <2>4 DEF Backing, Handled
<1>2. ASSUME TakeChunk(t) PROVE Backing' = Backing /\ Handled' = Handled
  <2>1. pc[t] = "recv" /\ pc' = [pc EXCEPT ![t] = "push"]
    BY <1>2, ThreadMoves DEF TakeChunk
  <2>2. At(PushedAt)' = At(PushedAt)
    BY <2>1, StayCounts DEF PushedAt
  <2>3. Cardinality(At(UncountedAt)') = Cardinality(At(UncountedAt)) + 1
    BY <2>1, EnterCounts DEF UncountedAt
  <2>4. tickets' = tickets /\ received' = received + 1
    BY <1>2 DEF TakeChunk, peerVars
  <2> QED
    BY <1>0, <2>2, <2>3, <2>4 DEF Backing, Handled
<1>3. ASSUME PushLoad(t) PROVE Backing' = Backing /\ Handled' = Handled
  <2>1. pc[t] = "push" /\ pc' = [pc EXCEPT ![t] = "store"]
    BY <1>3, ThreadMoves DEF PushLoad
  <2>2. At(PushedAt)' = At(PushedAt) /\ At(UncountedAt)' = At(UncountedAt)
    BY <2>1, StayCounts DEF PushedAt, UncountedAt
  <2>3. tickets' = tickets /\ received' = received
    BY <1>3 DEF PushLoad, UsesPeer, peerVars
  <2> QED
    BY <2>2, <2>3 DEF Backing, Handled
<1>4. ASSUME PushStore(t) PROVE Backing' = Backing + 1 /\ Handled' = Handled
  <2>1. pc[t] = "store" /\ pc' = [pc EXCEPT ![t] = "count"]
    BY <1>4, ThreadMoves DEF PushStore
  <2>2. At(UncountedAt)' = At(UncountedAt)
    BY <2>1, StayCounts DEF UncountedAt
  <2>3. Cardinality(At(PushedAt)') = Cardinality(At(PushedAt)) + 1
    BY <2>1, EnterCounts DEF PushedAt
  <2>4. tickets' = tickets /\ received' = received
    BY <1>4, Zenon DEF PushStore, UsesPeer, peerVars
  <2> QED
    BY <1>0, <2>2, <2>3, <2>4 DEF Backing, Handled
<1>5. ASSUME CountLoad(t) PROVE Backing' = Backing /\ Handled' = Handled
  <2>1. pc[t] = "count" /\ pc' = [pc EXCEPT ![t] = "add"]
    BY <1>5, ThreadMoves DEF CountLoad
  <2>2. At(PushedAt)' = At(PushedAt) /\ At(UncountedAt)' = At(UncountedAt)
    BY <2>1, StayCounts DEF PushedAt, UncountedAt
  <2>3. tickets' = tickets /\ received' = received
    BY <1>5 DEF CountLoad, UsesPeer, peerVars
  <2> QED
    BY <2>2, <2>3 DEF Backing, Handled
<1>6. ASSUME CountStore(t) PROVE Backing' = Backing /\ Handled' = Handled + 1
  <2>1. pc[t] = "add" /\ pc' = [pc EXCEPT ![t] = "post"]
    BY <1>6, ThreadMoves DEF CountStore
  <2>2. At(PushedAt)' = At(PushedAt)
    BY <2>1, StayCounts DEF PushedAt
  <2>3. Cardinality(At(UncountedAt)') = Cardinality(At(UncountedAt)) - 1
    BY <2>1, LeaveCounts DEF UncountedAt
  <2>4. tickets' = tickets /\ received' = received
    BY <1>6, Zenon DEF CountStore, UsesPeer, peerVars
  <2> QED
    BY <1>0, <2>2, <2>3, <2>4 DEF Backing, Handled
<1>7. ASSUME Post(t)
      PROVE  Handled' = Handled /\ (~deleted => Backing' = Backing)
  <2>1. pc[t] = "post" /\ pc' = [pc EXCEPT ![t] = "recv"]
    BY <1>7, ThreadMoves DEF Post
  <2>2. At(UncountedAt)' = At(UncountedAt)
    BY <2>1, StayCounts DEF UncountedAt
  <2>3. Cardinality(At(PushedAt)') = Cardinality(At(PushedAt)) - 1
    BY <2>1, LeaveCounts DEF PushedAt
  <2>4. received' = received /\ (~deleted => tickets' = tickets + 1)
    BY <1>7, Zenon DEF Post, UsesPeer
  <2> QED
    BY <1>0, <2>2, <2>3, <2>4 DEF Backing, Handled
<1> QED
  BY <1>1, <1>2, <1>3, <1>4, <1>5, <1>6, <1>7

--------------------------------------------------------------------------------
\* A flow thread keeps the bound of the queue: what it stores is one more than
\* a size the queue had, and it then has a chunk to post.
LEMMA ThreadTicketInv ==
  ASSUME FlowInv, NEW t \in Flow, FlowThread(t), ~EndStray(t)
  PROVE  TicketInv'
<1> USE DEF FlowInv
<1> SUFFICES ASSUME ~deleted'
             PROVE  /\ queued' <= Backing'
                    /\ \A u \in Flow : pc'[u] = "store" => loaded'[u] <= Backing'
  BY DEF TicketInv
<1>0. ~deleted
  BY ThreadMoves DEF FlowThread, Begin, TakeChunk, PushLoad, PushStore,
                     CountLoad, CountStore, Post, Moves
<1>1. /\ Backing \in Int /\ queued \in Nat /\ loaded \in [Flow -> Nat]
      /\ queued <= Backing
      /\ \A u \in Flow : pc[u] = "store" => loaded[u] <= Backing
  BY <1>0, BoundsTyped DEF TicketInv, TypeOK
<1>2. CASE PushLoad(t)
  <2>1. Backing' = Backing /\ queued' = queued
    BY <1>0, <1>2, ThreadBounds DEF PushLoad, UsesPeer
  <2>2. /\ \A u \in Flow : pc'[u] = IF u = t THEN "store" ELSE pc[u]
        /\ loaded' = [loaded EXCEPT ![t] = queued]
    BY <1>2, ThreadMoves DEF PushLoad
  <2> QED
    BY <1>1, <2>1, <2>2
<1>3. CASE PushStore(t)
  <2>1. Backing' = Backing + 1 /\ loaded' = loaded
    BY <1>3, ThreadBounds DEF PushStore
  <2>2. /\ pc[t] = "store"
        /\ \A u \in Flow : pc'[u] = IF u = t THEN "count" ELSE pc[u]
    BY <1>3, ThreadMoves DEF PushStore
  <2>3. queued' \in {loaded[t] + 1, queued + 1, queued}
    BY <1>0, <1>3, Zenon DEF PushStore, UsesPeer, peerVars
  <2>4. loaded[t] <= Backing /\ loaded[t] \in Nat
    BY <1>1, <2>2
  <2>5. queued' <= Backing'
    BY <1>1, <2>1, <2>3, <2>4
  <2> QED
    BY <1>1, <2>1, <2>2, <2>5
<1>4. CASE CountLoad(t)
  <2>1. Backing' = Backing /\ queued' = queued
    BY <1>0, <1>4, ThreadBounds DEF CountLoad, UsesPeer
  <2>2. /\ \A u \in Flow : pc'[u] = IF u = t THEN "add" ELSE pc[u]
        /\ loaded' = [loaded EXCEPT ![t] = packets]
    BY <1>4, ThreadMoves DEF CountLoad
  <2> QED
    BY <1>1, <2>1, <2>2
<1>5. CASE Begin(t) \/ TakeChunk(t) \/ CountStore(t) \/ Post(t)
  <2>1. Backing' = Backing
    BY <1>0, <1>5, ThreadBounds
  <2>2. queued' = queued /\ loaded' = loaded
    BY <1>0, <1>5, Zenon DEF Begin, TakeChunk, CountStore, Post, UsesPeer, peerVars
  <2>3. \/ Moves(t, "start", "recv") \/ Moves(t, "start", "gone")
        \/ Moves(t, "recv", "push") \/ Moves(t, "add", "post")
        \/ Moves(t, "post", "recv")
    BY <1>5, Zenon DEF Begin, TakeChunk, CountStore, Post
  <2>4. \A u \in Flow : pc'[u] = "store" => pc[u] = "store"
    BY <2>3, ThreadMoves
  <2> QED
    BY <1>1, <2>1, <2>2, <2>4
<1> QED
  BY <1>2, <1>3, <1>4, <1>5 DEF FlowThread

\* A flow thread keeps the bound of the packet count, deleted peer or not.
LEMMA ThreadCountInv ==
  ASSUME FlowInv, NEW t \in Flow, FlowThread(t), ~EndStray(t)
  PROVE  CountInv'
<1> USE DEF FlowInv
<1> SUFFICES /\ packets' <= Handled'
             /\ \A u \in Flow : pc'[u] = "add" => loaded'[u] <= Handled'
  BY DEF CountInv
<1>1. /\ Handled \in Int /\ packets \in Nat /\ loaded \in [Flow -> Nat]
      /\ packets <= Handled
      /\ \A u \in Flow : pc[u] = "add" => loaded[u] <= Handled
  BY BoundsTyped DEF CountInv, TypeOK
<1>2. CASE CountLoad(t)
  <2>1. Handled' = Handled
    BY <1>2, ThreadBounds
  <2>2. packets' = packets
    BY <1>2, Zenon DEF CountLoad, UsesPeer, peerVars
  <2>3. /\ \A u \in Flow : pc'[u] = IF u = t THEN "add" ELSE pc[u]
        /\ loaded' = [loaded EXCEPT ![t] = packets]
    BY <1>2, ThreadMoves DEF CountLoad
  <2> QED
    BY <1>1, <2>1, <2>2, <2>3
<1>3. CASE CountStore(t)
  <2>1. Handled' = Handled + 1 /\ loaded' = loaded
    BY <1>3, ThreadBounds DEF CountStore
  <2>2. /\ pc[t] = "add"
        /\ \A u \in Flow : pc'[u] = IF u = t THEN "post" ELSE pc[u]
    BY <1>3, ThreadMoves DEF CountStore
  <2>3. packets' \in {(loaded[t] + 1) % CountSpace, packets}
    BY <1>3, Zenon DEF CountStore, UsesPeer, peerVars
  <2>4. loaded[t] \in Nat /\ loaded[t] <= Handled
    BY <1>1, <2>2
  <2>5. (loaded[t] + 1) % CountSpace <= loaded[t] + 1
    BY <2>4, FlowAssumption
  <2>6. packets' <= Handled'
    BY <1>1, <2>1, <2>3, <2>4, <2>5, FlowAssumption
  <2> QED
    BY <1>1, <2>1, <2>2, <2>6
<1>4. CASE PushLoad(t)
  <2>1. Handled' = Handled
    BY <1>4, ThreadBounds
  <2>2. packets' = packets
    BY <1>4, Zenon DEF PushLoad, UsesPeer, peerVars
  <2>3. /\ \A u \in Flow : pc'[u] = IF u = t THEN "store" ELSE pc[u]
        /\ loaded' = [loaded EXCEPT ![t] = queued]
    BY <1>4, ThreadMoves DEF PushLoad
  <2> QED
    BY <1>1, <2>1, <2>2, <2>3
<1>5. CASE Begin(t) \/ TakeChunk(t) \/ PushStore(t) \/ Post(t)
  <2>1. Handled' = Handled
    BY <1>5, ThreadBounds
  <2>2. packets' = packets /\ loaded' = loaded
    BY <1>5, Zenon DEF Begin, TakeChunk, PushStore, Post, UsesPeer, peerVars
  <2>3. \/ Moves(t, "start", "recv") \/ Moves(t, "start", "gone")
        \/ Moves(t, "recv", "push") \/ Moves(t, "store", "count")
        \/ Moves(t, "post", "recv")
    BY <1>5, Zenon DEF Begin, TakeChunk, PushStore, Post
  <2>4. \A u \in Flow : pc'[u] = "add" => pc[u] = "add"
    BY <2>3, ThreadMoves
  <2> QED
    BY <1>1, <2>1, <2>2, <2>4
<1> QED
  BY <1>2, <1>3, <1>4, <1>5 DEF FlowThread

LEMMA NextFlowInv == FlowInv /\ [Next]_vars => FlowInv'
<1> SUFFICES ASSUME FlowInv, [Next]_vars PROVE FlowInv'
  OBVIOUS
<1>1. TypeOK'
  BY NextTypeOK DEF FlowInv
<1>2. CASE Acknowledge \/ GoOffline \/ Delete \/ UNCHANGED vars
           \/ \E t \in Flow : EndStray(t)
  BY <1>1, <1>2, QuietFlowInv
<1>3. ASSUME NEW t \in Flow, FlowThread(t), ~EndStray(t) PROVE FlowInv'
  BY <1>1, <1>3, ThreadTicketInv, ThreadCountInv DEF FlowInv
<1> QED
  BY <1>2, <1>3 DEF Next

LEMMA FlowInvariant == Spec => []FlowInv
BY InitFlowInv, NextFlowInv, PTL DEF Spec

--------------------------------------------------------------------------------
\* However many flow threads push at once, a queued chunk has a ticket or a
\* thread about to post one, while the peer exists.
THEOREM QueuedHaveTickets == Spec => []TicketPerChunk
<1>1. FlowInv => TicketPerChunk
  BY Places DEF FlowInv, TicketInv, TicketPerChunk, Backing
<1> QED
  BY <1>1, FlowInvariant, PTL

\* The unlocked packet count never exceeds the chunks that were handled.
THEOREM CountIsNeverAhead == Spec => []CountNeverAhead
<1>1. ASSUME FlowInv PROVE CountNeverAhead
  <2>1. packets \in Nat /\ received \in Nat /\ Cardinality(At(UncountedAt)) \in Nat
    BY <1>1, AtFinite DEF FlowInv, TypeOK
  <2> QED
    BY <1>1, <2>1, Places DEF FlowInv, CountInv, CountNeverAhead, Handled
<1> QED
  BY <1>1, FlowInvariant, PTL

\* No store of a stale count takes the divisor of the loss ratio back to zero
\* before the counter wraps.
THEOREM CountIsNeverReset == Spec => CountedStays
<1>1. ASSUME FlowInv, [Next]_vars, packets > 0, received' < CountSpace
      PROVE  packets' > 0
  <2>1. CASE \E t \in Flow : CountStore(t)
    <3>1. PICK t \in Flow : CountStore(t)
      BY <2>1
    <3>2. pc[t] = "add" /\ received' = received
      BY <3>1 DEF CountStore, Moves
    <3>3. /\ loaded[t] \in Nat /\ received \in Nat
          /\ Cardinality(At(UncountedAt)) \in Nat /\ loaded[t] <= Handled
      BY <1>1, <3>2, AtFinite DEF FlowInv, TypeOK, CountInv
    <3>4. Cardinality(At(UncountedAt)) # 0
      <4>1. t \in At(UncountedAt)
        BY <3>2 DEF At, UncountedAt
      <4> QED
        BY <4>1, AtFinite, FS_EmptySet
    <3>5. loaded[t] + 1 <= received
      BY <3>3, <3>4 DEF Handled
    <3>6. (loaded[t] + 1) % CountSpace = loaded[t] + 1
      BY <1>1, <3>2, <3>3, <3>5, FlowAssumption
    <3>7. packets' \in {(loaded[t] + 1) % CountSpace, packets}
      BY <3>1, Zenon DEF CountStore, UsesPeer, peerVars
    <3> QED
      BY <1>1, <3>3, <3>6, <3>7
  <2>2. CASE ~\E t \in Flow : CountStore(t)
    <3>1. CASE Acknowledge \/ GoOffline \/ Delete \/ UNCHANGED vars
               \/ \E t \in Flow : EndStray(t)
      BY <1>1, <3>1, QuietMembers DEF FlowInv
    <3>2. CASE \E t \in Flow : FlowThread(t) /\ ~EndStray(t)
      <4>1. packets' = packets
        BY <2>2, <3>2, Zenon DEF FlowThread, Begin, TakeChunk, PushLoad,
             PushStore, CountLoad, Post, UsesPeer, peerVars
      <4> QED
        BY <1>1, <4>1
    <3> QED
      BY <1>1, <3>1, <3>2 DEF Next
  <2> QED
    BY <2>1, <2>2
<1>2. FlowInv /\ [Next]_vars => [packets > 0 /\ received' < CountSpace => packets' > 0]_vars
  BY <1>1
<1> QED
  BY <1>2, FlowInvariant, PTL DEF Spec, CountedStays

--------------------------------------------------------------------------------
\* What one thread alone in the loop keeps: no chunk is lost, since nothing has
\* changed between its load and its store.
InHandAt == {"push", "store"}
LoopAt   == {"recv", "push", "store", "count", "add", "post"}

AloneInv ==
  Alone /\ ~deleted /\ received < CountSpace =>
    /\ queued + Cardinality(At(InHandAt)) = received
    /\ packets + Cardinality(At(UncountedAt)) = received
    /\ \A t \in Flow : pc[t] = "store" => loaded[t] = queued
    /\ \A t \in Flow : pc[t] = "add" => loaded[t] = packets

LEMMA AlonePlaces ==
  ASSUME TypeOK, TypeOK'
  PROVE  /\ Alone <=> \A t, u \in At(LoopAt) : t = u
         /\ Alone' <=> \A t, u \in At(LoopAt)' : t = u
BY DEF TypeOK, PC, Alone, At, LoopAt

LEMMA InitAloneInv == Init => AloneInv
<1> SUFFICES ASSUME Init PROVE AloneInv
  OBVIOUS
<1>1. At(InHandAt) = {} /\ At(UncountedAt) = {}
  BY DEF Init, At, InHandAt, UncountedAt
<1>2. Cardinality(At(InHandAt)) = 0 /\ Cardinality(At(UncountedAt)) = 0
  BY <1>1, FS_EmptySet
<1> QED
  BY <1>2 DEF Init, AloneInv

\* The steps of the listen thread change nothing of it.
LEMMA QuietAloneInv ==
  ASSUME TypeOK, TypeOK', AloneInv,
         Acknowledge \/ GoOffline \/ Delete \/ UNCHANGED vars
         \/ \E t \in Flow : EndStray(t)
  PROVE  AloneInv'
<1>1. /\ At(InHandAt)' = At(InHandAt) /\ At(UncountedAt)' = At(UncountedAt)
      /\ At(LoopAt)' = At(LoopAt)
      /\ loaded' = loaded /\ received' = received
      /\ \A u \in Flow : /\ pc'[u] = "store" => pc[u] = "store"
                         /\ pc'[u] = "add" => pc[u] = "add"
  BY QuietPlaces DEF InHandAt, UncountedAt, LoopAt
<1>2. queued' = queued /\ packets' = packets /\ (deleted => deleted')
  BY QuietMembers
<1>3. Alone' => Alone
  BY <1>1, AlonePlaces
<1> QED
  BY <1>1, <1>2, <1>3 DEF AloneInv

\* A flow thread that is alone stores what it has loaded over what it loaded.
LEMMA ThreadAloneInv ==
  ASSUME TypeOK, TypeOK', AloneInv, NEW t \in Flow, FlowThread(t), ~EndStray(t)
  PROVE  AloneInv'
<1> SUFFICES ASSUME Alone', ~deleted', received' < CountSpace
             PROVE  /\ queued' + Cardinality(At(InHandAt)') = received'
                    /\ packets' + Cardinality(At(UncountedAt)') = received'
                    /\ \A u \in Flow : pc'[u] = "store" => loaded'[u] = queued'
                    /\ \A u \in Flow : pc'[u] = "add" => loaded'[u] = packets'
  BY DEF AloneInv
<1> DEFINE H == Cardinality(At(InHandAt))
           U == Cardinality(At(UncountedAt))
<1>1. PICK from \in {"start"} \union LoopAt, to \in LoopAt \union {"gone"} :
        /\ Moves(t, from, to)
        /\ from \in LoopAt => to \in LoopAt
  <2>1. \/ Moves(t, "start", "recv") \/ Moves(t, "start", "gone")
        \/ Moves(t, "recv", "push") \/ Moves(t, "push", "store")
        \/ Moves(t, "store", "count") \/ Moves(t, "count", "add")
        \/ Moves(t, "add", "post") \/ Moves(t, "post", "recv")
    BY Zenon DEF FlowThread, Begin, TakeChunk, PushLoad, PushStore, CountLoad,
                 CountStore, Post
  <2> QED
    BY <2>1 DEF LoopAt
<1>2. /\ pc[t] = from /\ deleted' = deleted
      /\ \A u \in Flow : pc'[u] = IF u = t THEN to ELSE pc[u]
  BY <1>1, ThreadMoves
<1>3. received' \in {received, received + 1} /\ received \in Nat
  BY Zenon DEF FlowThread, Begin, TakeChunk, PushLoad, PushStore, CountLoad,
               CountStore, Post, TypeOK
<1>4. ~deleted /\ received < CountSpace
  BY <1>2, <1>3, FlowAssumption
<1>5. Alone
  <2>1. At(LoopAt) \subseteq At(LoopAt)'
    BY <1>1, <1>2 DEF At
  <2> QED
    BY <2>1, AlonePlaces
<1>6. /\ queued + H = received /\ packets + U = received
      /\ \A u \in Flow : pc[u] = "store" => loaded[u] = queued
      /\ \A u \in Flow : pc[u] = "add" => loaded[u] = packets
  BY <1>4, <1>5 DEF AloneInv
<1>7. /\ queued \in Nat /\ packets \in Nat /\ H \in Nat /\ U \in Nat
      /\ loaded \in [Flow -> Nat]
  BY AtFinite DEF TypeOK
<1>8. from \in LoopAt => \A u \in Flow : pc[u] \in LoopAt => u = t
  BY <1>2, <1>5 DEF Alone, LoopAt
<1> HIDE DEF H, U
<1>9. CASE Begin(t)
  <2>1. PICK dest \in {"recv", "gone"} :
          pc[t] = "start" /\ pc' = [pc EXCEPT ![t] = dest]
    BY <1>9, ThreadMoves DEF Begin
  <2>2. At(InHandAt)' = At(InHandAt) /\ At(UncountedAt)' = At(UncountedAt)
    BY <2>1, StayCounts DEF InHandAt, UncountedAt
  <2>3. UNCHANGED <<queued, packets, loaded, received>>
    BY <1>4, <1>9 DEF Begin, UsesPeer
  <2>4. \A u \in Flow : /\ pc'[u] = "store" => pc[u] = "store"
                        /\ pc'[u] = "add" => pc[u] = "add"
    BY <2>1 DEF TypeOK
  <2> QED
    BY <1>6, <2>2, <2>3, <2>4 DEF H, U
<1>10. CASE TakeChunk(t)
  <2>1. pc[t] = "recv" /\ pc' = [pc EXCEPT ![t] = "push"]
    BY <1>10, ThreadMoves DEF TakeChunk
  <2>2. Cardinality(At(InHandAt)') = H + 1
    BY <2>1, EnterCounts DEF InHandAt, H
  <2>3. Cardinality(At(UncountedAt)') = U + 1
    BY <2>1, EnterCounts DEF UncountedAt, U
  <2>4. UNCHANGED <<queued, packets, loaded>> /\ received' = received + 1
    BY <1>10 DEF TakeChunk, peerVars
  <2>5. \A u \in Flow : /\ pc'[u] = "store" => pc[u] = "store"
                        /\ pc'[u] = "add" => pc[u] = "add"
    BY <2>1 DEF TypeOK
  <2> QED
    BY <1>6, <1>7, <2>2, <2>3, <2>4, <2>5
<1>11. CASE PushLoad(t)
  <2>1. pc[t] = "push" /\ pc' = [pc EXCEPT ![t] = "store"]
    BY <1>11, ThreadMoves DEF PushLoad
  <2>2. At(InHandAt)' = At(InHandAt) /\ At(UncountedAt)' = At(UncountedAt)
    BY <2>1, StayCounts DEF InHandAt, UncountedAt
  <2>3. /\ UNCHANGED <<queued, packets, received>>
        /\ loaded' = [loaded EXCEPT ![t] = queued]
    BY <1>4, <1>11 DEF PushLoad, UsesPeer
  <2>4. \A u \in Flow : pc'[u] \in {"store", "add"} => u = t /\ pc'[u] = "store"
    BY <1>2, <1>8, <2>1 DEF LoopAt, TypeOK
  <2> QED
    BY <1>6, <1>7, <2>2, <2>3, <2>4 DEF H, U
<1>12. CASE PushStore(t)
  <2>1. pc[t] = "store" /\ pc' = [pc EXCEPT ![t] = "count"]
    BY <1>12, ThreadMoves DEF PushStore
  <2>2. Cardinality(At(InHandAt)') = H - 1
    BY <2>1, LeaveCounts DEF InHandAt, H
  <2>3. At(UncountedAt)' = At(UncountedAt)
    BY <2>1, StayCounts DEF UncountedAt
  <2>4. UNCHANGED <<packets, received, loaded>> /\ queued' = queued + 1
    <3>1. loaded[t] = queued
      BY <1>6, <2>1
    <3> QED
      BY <1>4, <1>12, <3>1, Zenon DEF PushStore, UsesPeer
  <2>5. \A u \in Flow : pc'[u] \notin {"store", "add"}
    BY <1>2, <1>8, <2>1 DEF LoopAt, TypeOK
  <2> QED
    BY <1>6, <1>7, <2>2, <2>3, <2>4, <2>5 DEF U
<1>13. CASE CountLoad(t)
  <2>1. pc[t] = "count" /\ pc' = [pc EXCEPT ![t] = "add"]
    BY <1>13, ThreadMoves DEF CountLoad
  <2>2. At(InHandAt)' = At(InHandAt) /\ At(UncountedAt)' = At(UncountedAt)
    BY <2>1, StayCounts DEF InHandAt, UncountedAt
  <2>3. /\ UNCHANGED <<queued, packets, received>>
        /\ loaded' = [loaded EXCEPT ![t] = packets]
    BY <1>4, <1>13 DEF CountLoad, UsesPeer
  <2>4. \A u \in Flow : pc'[u] \in {"store", "add"} => u = t /\ pc'[u] = "add"
    BY <1>2, <1>8, <2>1 DEF LoopAt, TypeOK
  <2> QED
    BY <1>6, <1>7, <2>2, <2>3, <2>4 DEF H, U
<1>14. CASE CountStore(t)
  <2>1. pc[t] = "add" /\ pc' = [pc EXCEPT ![t] = "post"]
    BY <1>14, ThreadMoves DEF CountStore
  <2>2. Cardinality(At(UncountedAt)') = U - 1
    BY <2>1, LeaveCounts DEF UncountedAt, U
  <2>3. At(InHandAt)' = At(InHandAt)
    BY <2>1, StayCounts DEF InHandAt
  <2>4. UNCHANGED <<queued, received, loaded>> /\ packets' = (packets + 1) % CountSpace
    <3>1. loaded[t] = packets
      BY <1>6, <2>1
    <3> QED
      BY <1>4, <1>14, <3>1 DEF CountStore, UsesPeer
  <2>5. packets' = packets + 1
    <3>1. U # 0
      <4>1. t \in At(UncountedAt)
        BY <2>1 DEF At, UncountedAt
      <4> QED
        BY <4>1, AtFinite, FS_EmptySet DEF U
    <3>2. packets + 1 < CountSpace
      BY <1>3, <1>4, <1>6, <1>7, <3>1, FlowAssumption
    <3> QED
      BY <1>7, <2>4, <3>2, FlowAssumption
  <2>6. \A u \in Flow : pc'[u] \notin {"store", "add"}
    BY <1>2, <1>8, <2>1 DEF LoopAt, TypeOK
  <2> QED
    BY <1>6, <1>7, <2>2, <2>3, <2>4, <2>5, <2>6 DEF H
<1>15. CASE Post(t)
  <2>1. pc[t] = "post" /\ pc' = [pc EXCEPT ![t] = "recv"]
    BY <1>15, ThreadMoves DEF Post
  <2>2. At(InHandAt)' = At(InHandAt) /\ At(UncountedAt)' = At(UncountedAt)
    BY <2>1, StayCounts DEF InHandAt, UncountedAt
  <2>3. UNCHANGED <<queued, packets, loaded, received>>
    BY <1>4, <1>15 DEF Post, UsesPeer
  <2>4. \A u \in Flow : pc'[u] \notin {"store", "add"}
    BY <1>2, <1>8, <2>1 DEF LoopAt, TypeOK
  <2> QED
    BY <1>6, <2>2, <2>3, <2>4 DEF H, U
<1> QED
  BY <1>9, <1>10, <1>11, <1>12, <1>13, <1>14, <1>15 DEF FlowThread

\* Whatever the listen thread does next to it, a flow thread that has the loop to
\* itself queues and counts every chunk it receives: for any number of threads
\* that were created and never reached the loop, and any width of the count.
THEOREM NothingLostAlone == Spec => []AloneLosesNothing
<1>1. TypeOK /\ AloneInv /\ [Next]_vars => AloneInv'
  <2> SUFFICES ASSUME TypeOK, AloneInv, [Next]_vars PROVE AloneInv'
    OBVIOUS
  <2>1. TypeOK'
    BY NextTypeOK
  <2>2. CASE Acknowledge \/ GoOffline \/ Delete \/ UNCHANGED vars
             \/ \E t \in Flow : EndStray(t)
    BY <2>1, <2>2, QuietAloneInv
  <2>3. ASSUME NEW t \in Flow, FlowThread(t), ~EndStray(t) PROVE AloneInv'
    BY <2>1, <2>3, ThreadAloneInv
  <2> QED
    BY <2>2, <2>3 DEF Next
<1>2. AloneInv => AloneLosesNothing
  BY Places DEF AloneInv, AloneLosesNothing, Unpushed, At, InHandAt
<1> QED
  BY <1>1, <1>2, InitAloneInv, FlowTypes, PTL DEF Spec

--------------------------------------------------------------------------------
\* What the list of peers sees of a step: an acknowledgement's thread, the end of
\* the connection, the deletion, or nothing.
LEMMA FlowSteps ==
  ASSUME [Next]_vars
  PROVE  \/ /\ online /\ ~deleted /\ UNCHANGED <<online, deleted>>
            /\ threads' \in ThreadsAfter(threads)
         \/ ~deleted /\ online /\ ~online' /\ UNCHANGED <<deleted, threads>>
         \/ ~deleted /\ deleted' /\ threads' = 0
         \/ UNCHANGED <<online, deleted, threads>>
<1>1. CASE Acknowledge
  <2>1. PICK type \in AnyAcknowledge, code \in Codes, ratio \in Ratios :
          \/ UNCHANGED <<threads, online>>
          \/ Removes(type, code, ratio) /\ RemoveOne
          \/ Adds(type, code) /\ AddOne
    BY <1>1 DEF Acknowledge, DivideByZero, peerVars
  <2>2. /\ ~deleted /\ online /\ deleted' = deleted
        /\ online' = online
    BY <1>1, Zenon DEF Acknowledge, AddOne, RemoveOne, DivideByZero, peerVars
  <2>3. CASE Removes(type, code, ratio) /\ RemoveOne
    <3>1. threads' \in RespondThreads(type, code, ratio, threads)
      BY <2>3 DEF RespondThreads, RemoveOne
    <3> QED
      BY <2>2, <3>1 DEF ThreadsAfter
  <2>4. CASE Adds(type, code) /\ AddOne
    <3>1. ~Removes(type, code, ratio)
      BY <2>4 DEF Adds, Removes
    <3>2. threads' \in RespondThreads(type, code, ratio, threads)
      BY <2>4, <3>1 DEF RespondThreads, AddThread, AddOne
    <3> QED
      BY <2>2, <3>2 DEF ThreadsAfter
  <2> QED
    BY <2>1, <2>2, <2>3, <2>4
<1>2. CASE GoOffline
  BY <1>2 DEF GoOffline
<1>3. CASE Delete
  BY <1>3 DEF Delete
<1>4. CASE (\E t \in Flow : FlowThread(t)) \/ UNCHANGED vars
  BY <1>4, Zenon DEF FlowThread, Begin, EndStray, TakeChunk, PushLoad, PushStore,
       CountLoad, CountStore, Post, UsesPeer, Moves, peerVars, vars
<1> QED
  BY <1>1, <1>2, <1>3, <1>4 DEF Next

\* A peer with any number of flow threads is an entry of the HOST's list: its
\* count of threads changes only by acknowledgements while it is online.
THEOREM FlowImplementsEntry == Spec => EntryKept
<1> DEFINE stat == [e \in {"peer"} |-> IF deleted THEN "gone"
                                       ELSE IF online THEN "online" ELSE "offline"]
           count == [e \in {"peer"} |-> threads]
<1>1. Init => Entry!Init
  BY DEF Init, Entry!Init
<1>2. ASSUME [Next]_vars PROVE [Entry!Next]_(Entry!vars)
  <2>1. CASE /\ online /\ ~deleted /\ UNCHANGED <<online, deleted>>
             /\ threads' \in ThreadsAfter(threads)
    <3>1. stat' = stat /\ stat["peer"] = "online"
      BY <2>1
    <3>2. count["peer"] = threads /\ count' = [count EXCEPT !["peer"] = threads']
      OBVIOUS
    <3>3. Entry!Acknowledge("peer")
      BY <2>1, <3>1, <3>2 DEF Entry!Acknowledge
    <3> QED
      BY <3>3 DEF Entry!Next
  <2>2. CASE ~deleted /\ online /\ ~online' /\ UNCHANGED <<deleted, threads>>
    <3>1. /\ stat["peer"] = "online" /\ count' = count
          /\ stat' = [stat EXCEPT !["peer"] = "offline"]
      BY <2>2
    <3>2. Entry!Expel("peer")
      BY <3>1 DEF Entry!Expel
    <3> QED
      BY <3>2 DEF Entry!Next
  <2>3. CASE ~deleted /\ deleted' /\ threads' = 0
    <3>1. /\ stat["peer"] \in {"online", "offline"}
          /\ stat' = [stat EXCEPT !["peer"] = "gone"]
          /\ count' = [count EXCEPT !["peer"] = 0]
      BY <2>3
    <3>2. Entry!Leave("peer")
      BY <3>1 DEF Entry!Leave
    <3> QED
      BY <3>2 DEF Entry!Next
  <2>4. CASE UNCHANGED <<online, deleted, threads>>
    BY <2>4 DEF Entry!vars
  <2> QED
    BY <1>2, <2>1, <2>2, <2>3, <2>4, FlowSteps
<1> QED
  BY <1>1, <1>2, PTL DEF Spec, EntryKept, Entry!Spec

================================================================================
