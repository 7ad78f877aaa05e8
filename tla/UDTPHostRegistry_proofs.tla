------------------------ MODULE UDTPHostRegistry_proofs ------------------------
(***************************************************************************)
(* UDTPHost implements PeerRegistry while no round queues two disconnects, *)
(* and PeerEntry in every round, for every set of clients and every bound: *)
(* the initial states map to initial states, and every step to a step of   *)
(* the abstract module or to none.                                         *)
(***************************************************************************)
EXTENDS UDTPHostRegistry, UDTPHost_proofs

--------------------------------------------------------------------------------
\* The session read off a list of peers, in the three cases a step looks at.
LEMMA SessionCases ==
  ASSUME NEW c, NEW taken, NEW list
  PROVE  /\ c \notin taken => SessionIn(c, taken, list) = "absent"
         /\ c \in taken /\ (\A i \in DOMAIN list : list[i].sock # c)
              => SessionIn(c, taken, list) = "gone"
         /\ \A i \in DOMAIN list :
              /\ c \in taken
              /\ list[i].sock = c
              /\ \A j \in DOMAIN list : list[j].sock = c => j = i
              => SessionIn(c, taken, list) =
                   IF list[i].online THEN "online" ELSE "offline"
<1>1. c \notin taken => SessionIn(c, taken, list) = "absent"
  BY DEF SessionIn
<1>2. ASSUME c \in taken, \A i \in DOMAIN list : list[i].sock # c
      PROVE  SessionIn(c, taken, list) = "gone"
  BY <1>2 DEF SessionIn
<1>3. ASSUME NEW i \in DOMAIN list, c \in taken, list[i].sock = c,
             \A j \in DOMAIN list : list[j].sock = c => j = i
      PROVE  SessionIn(c, taken, list) =
               IF list[i].online THEN "online" ELSE "offline"
  <2>1. (\E j \in DOMAIN list : list[j].sock = c /\ list[j].online)
          <=> list[i].online
    BY <1>3
  <2> QED
    BY <1>3, <2>1 DEF SessionIn
<1> QED
  BY <1>1, <1>2, <1>3

\* What the two refinements see of an entry: the ID it gets later is not in it.
Alike(p, q) == p.sock = q.sock /\ p.online = q.online /\ p.threads = q.threads

\* Two lists that agree on a connection give it the same session.
LEMMA SameSession ==
  ASSUME NEW c, NEW taken1, NEW list1, NEW taken2, NEW list2,
         c \in taken1 <=> c \in taken2,
         \A i \in DOMAIN list1 : list1[i].sock = c =>
           \E j \in DOMAIN list2 : Alike(list2[j], list1[i]),
         \A j \in DOMAIN list2 : list2[j].sock = c =>
           \E i \in DOMAIN list1 : Alike(list1[i], list2[j])
  PROVE  SessionIn(c, taken1, list1) = SessionIn(c, taken2, list2)
<1>1. (\E i \in DOMAIN list1 : list1[i].sock = c)
        <=> (\E j \in DOMAIN list2 : list2[j].sock = c)
  BY DEF Alike
<1>2. (\E i \in DOMAIN list1 : list1[i].sock = c /\ list1[i].online)
        <=> (\E j \in DOMAIN list2 : list2[j].sock = c /\ list2[j].online)
  BY DEF Alike
<1> QED
  BY <1>1, <1>2 DEF SessionIn

\* Sessions change at one connection if all the others read the same.
LEMMA OneSession ==
  ASSUME NEW s \in Client, NEW value,
         SessionIn(s, accepted', peers') = value,
         \A c \in Client : c # s =>
           SessionIn(c, accepted', peers') = SessionIn(c, accepted, peers)
  PROVE  Sessions' = [Sessions EXCEPT ![s] = value]
BY DEF Sessions

--------------------------------------------------------------------------------
\* What the list of peers says of a connection: it has one entry at most.
LEMMA EntryFacts ==
  ASSUME Shape, PeersOnce
  PROVE  /\ Shape /\ PeersOnce
         /\ DOMAIN peers = 1..Len(peers)
         /\ Len(peers) \in Nat
         /\ \A i \in 1..Len(peers) :
              /\ peers[i] \in Peer
              /\ peers[i].sock \in Socket
              /\ peers[i].online \in BOOLEAN
              /\ peers[i].sock # NoSocket => /\ peers[i].sock \in Client
                                             /\ peers[i].sock \in accepted
         /\ \A i, j \in 1..Len(peers) :
              peers[i].sock = peers[j].sock /\ peers[i].sock # NoSocket => i = j
         /\ NoSocket \notin Client
BY ShapeFacts, HostAssumption DEF PeersOnce, Peer, Socket

LEMMA UniqueEntries ==
  ASSUME Shape, PeersOnce, [Next]_vars
  PROVE  /\ \A i, j \in DOMAIN peers :
              peers[i].sock = peers[j].sock /\ peers[i].sock # NoSocket => i = j
         /\ \A i, j \in DOMAIN peers' :
              peers'[i].sock = peers'[j].sock /\ peers'[i].sock # NoSocket => i = j
BY NextPeersOnce DEF PeersOnce

\* A step that moves the entry of a connection, or none, and does not change what
\* the refinements see of it.
Agree(c) ==
  /\ c \in accepted <=> c \in accepted'
  /\ \A i \in DOMAIN peers : peers[i].sock = c =>
       \E j \in DOMAIN peers' : Alike(peers'[j], peers[i])
  /\ \A j \in DOMAIN peers' : peers'[j].sock = c =>
       \E i \in DOMAIN peers : Alike(peers[i], peers'[j])

LEMMA AgreeSession ==
  ASSUME NEW c, Agree(c)
  PROVE  SessionIn(c, accepted', peers') = SessionIn(c, accepted, peers)
BY SameSession DEF Agree

\* A new connection changes no other's entry.
LEMMA AcceptAgrees ==
  ASSUME Shape, Accept
  PROVE  \E s \in Socket :
           /\ \/ s \in Backlog /\ accepted' = accepted \union {s}
              \/ s = NoSocket /\ UNCHANGED accepted
           /\ DOMAIN peers' = 1..(Len(peers) + 1)
           /\ \A j \in 1..Len(peers) : peers'[j] = peers[j]
           /\ peers'[Len(peers) + 1] = NewPeer(s)
           /\ \A c \in Client : c # s => Agree(c)
<1>1. PICK s \in Socket :
        /\ \/ s \in Backlog /\ accepted' = accepted \union {s}
           \/ s = NoSocket /\ UNCHANGED accepted
        /\ peers' \in Seq(Peer)
        /\ Len(peers') = Len(peers) + 1
        /\ \A j \in 1..Len(peers) : peers'[j] = peers[j]
        /\ peers'[Len(peers) + 1] = NewPeer(s)
  BY Accepting
<1>2. /\ DOMAIN peers' = 1..(Len(peers) + 1)
      /\ DOMAIN peers = 1..Len(peers) /\ Len(peers) \in Nat
      /\ NewPeer(s).sock = s
  BY <1>1, LenProperties, ShapeFacts DEF NewPeer
<1>3. ASSUME NEW c \in Client, c # s PROVE Agree(c)
  <2>1. c \in accepted <=> c \in accepted'
    BY <1>1, <1>3
  <2>2. \A i \in DOMAIN peers : i \in DOMAIN peers' /\ Alike(peers'[i], peers[i])
    BY <1>1, <1>2 DEF Alike
  <2>3. ASSUME NEW j \in DOMAIN peers', peers'[j].sock = c
        PROVE  j \in DOMAIN peers /\ Alike(peers[j], peers'[j])
    <3>1. j # Len(peers) + 1
      BY <1>1, <1>2, <1>3, <2>3
    <3> QED
      BY <1>1, <1>2, <3>1 DEF Alike
  <2> QED
    BY <2>1, <2>2, <2>3 DEF Agree
<1> QED
  BY <1>1, <1>2, <1>3

\* The ID the newest entry gets is in neither refinement.
LEMMA AssignAgrees ==
  ASSUME Shape, AssignId
  PROVE  \A c \in Client : Agree(c)
<1>1. /\ accepted' = accepted /\ peers' \in Seq(Peer) /\ Len(peers') = Len(peers)
      /\ \A j \in 1..Len(peers) : /\ peers'[j].sock = peers[j].sock
                                  /\ peers'[j].online = peers[j].online
                                  /\ peers'[j].threads = peers[j].threads
  BY Assigning DEF netVars
<1>2. DOMAIN peers = 1..Len(peers) /\ DOMAIN peers' = 1..Len(peers)
  BY <1>1, ShapeFacts, LenProperties
<1>3. \A j \in DOMAIN peers : Alike(peers'[j], peers[j]) /\ Alike(peers[j], peers'[j])
  BY <1>1, <1>2 DEF Alike
<1> QED
  BY <1>1, <1>2, <1>3 DEF Agree

\* Serving an entry changes no other connection's.
LEMMA ScanAgrees ==
  ASSUME Shape, accepted' = accepted, NEW i \in todo, ServeEffect(i)
  PROVE  \A c \in Client : c # peers[i].sock => Agree(c)
<1>1. /\ DOMAIN peers' = DOMAIN peers
      /\ \A j \in DOMAIN peers : /\ peers'[j].sock = peers[j].sock
                                 /\ j # i => peers'[j] = peers[j]
      /\ i \in DOMAIN peers
  BY ShapeFacts, LenProperties DEF ServeEffect
<1>2. ASSUME NEW c \in Client, c # peers[i].sock PROVE Agree(c)
  <2>1. \A j \in DOMAIN peers : peers[j].sock = c \/ peers'[j].sock = c =>
          Alike(peers'[j], peers[j]) /\ Alike(peers[j], peers'[j])
    BY <1>1, <1>2 DEF Alike
  <2> QED
    BY <1>1, <2>1 DEF Agree
<1> QED
  BY <1>2

\* The removal loop erases one peer, whatever position it takes, or none; the
\* entries of the other connections move, if at all.
LEMMA RemovalAgrees ==
  ASSUME Shape, RemoveOne, peers' # peers
  PROVE  LET r == Head(removals) IN
         /\ r \in 1..Len(peers)
         /\ \A j \in DOMAIN peers' :
              \E k \in DOMAIN peers : k # r /\ peers'[j] = peers[k]
         /\ \A c \in Client : c # peers[r].sock => Agree(c)
<1> DEFINE r == Head(removals)
<1>1. /\ r \in 1..Len(peers) /\ Drops(peers', peers, r)
      /\ peers' \in Seq(Peer) /\ peers \in Seq(Peer) /\ accepted' = accepted
  BY Removing, ShapeFacts DEF netVars
<1> HIDE DEF r
<1>2. /\ DOMAIN peers' = 1..Len(peers') /\ DOMAIN peers = 1..Len(peers)
      /\ \A j \in 1..Len(peers') :
           \E k \in 1..Len(peers) : k # r /\ peers'[j] = peers[k]
      /\ \A k \in 1..Len(peers) :
           k # r => \E j \in 1..Len(peers') : peers'[j] = peers[k]
  <2>1. DOMAIN peers' = 1..Len(peers') /\ DOMAIN peers = 1..Len(peers)
    BY <1>1, LenProperties
  <2>2. /\ \A j \in 1..Len(peers') :
             LET k == IF j < r THEN j ELSE j + 1 IN
             k \in 1..Len(peers) /\ k # r /\ peers'[j] = peers[k]
        /\ \A k \in 1..Len(peers) :
             k # r => \E j \in 1..Len(peers') : peers'[j] = peers[k]
    BY <1>1, DropFacts
  <2>3. \A j \in 1..Len(peers') :
          \E k \in 1..Len(peers) : k # r /\ peers'[j] = peers[k]
    BY <2>2
  <2> QED
    BY <2>1, <2>2, <2>3
<1>3. ASSUME NEW c \in Client, c # peers[r].sock PROVE Agree(c)
  <2>1. \A j \in DOMAIN peers' : \E i \in DOMAIN peers : Alike(peers[i], peers'[j])
    BY <1>2 DEF Alike
  <2>2. \A i \in DOMAIN peers : peers[i].sock = c =>
          \E j \in DOMAIN peers' : Alike(peers'[j], peers[i])
    BY <1>2, <1>3 DEF Alike
  <2> QED
    BY <1>1, <2>1, <2>2 DEF Agree
<1> QED
  BY <1>1, <1>2, <1>3 DEF r

--------------------------------------------------------------------------------
\* At most one position is queued, and none once the removals began.
Single ==
  /\ Len(removals) <= 1
  /\ pc = "remove" => removals = <<>>

LEMMA SingleIsNext == [SingleNext]_vars => [Next]_vars
BY DEF SingleNext, Next

LEMMA NextSingle ==
  ASSUME Shape, Single, [SingleNext]_vars
  PROVE  Single'
<1>0. Len(removals') <= 1
  <2>1. CASE ListenThread /\ Len(removals') <= 1
    BY <2>1
  <2>2. CASE ~(ListenThread /\ Len(removals') <= 1)
    <3>1. removals' = removals
      BY <2>2 DEF SingleNext, vars, ClientStep, StartAgain, Stop, listVars
    <3> QED
      BY <3>1 DEF Single
  <2> QED
    BY <2>1, <2>2
<1>1. CASE RemoveOne
  <2>1. removals # <<>> /\ removals' = Tail(removals)
    BY <1>1, Removing
  <2>2. removals \in Seq(Nat) /\ Len(removals) \in Nat \ {0}
    BY <2>1, ShapeFacts, EmptySeq
  <2>3. Tail(removals) \in Seq(Nat) /\ Len(Tail(removals)) = Len(removals) - 1
    BY <2>1, <2>2, HeadTailProperties
  <2>4. Len(Tail(removals)) = 0
    BY <2>2, <2>3 DEF Single
  <2>5. removals' = <<>>
    BY <2>1, <2>3, <2>4, EmptySeq
  <2> QED
    BY <1>0, <2>5 DEF Single
<1>2. CASE ~RemoveOne
  <2>1. pc' = "remove" => pc = "remove" /\ removals' = removals
    <3>1. CASE Scan
      BY <3>1, ScanServes DEF ServeEffect
    <3>2. CASE Greet
      BY <3>2 DEF Greet, SendTo
    <3>3. CASE ~Scan /\ ~Greet
      BY <1>2, <3>3 DEF SingleNext, Next, ListenThread, vars, ClientStep,
         StartAgain, Stop, CheckAlive, Poll, Accept, AssignId, EndRound, listVars
    <3> QED
      BY <3>1, <3>2, <3>3
  <2> QED
    BY <1>0, <2>1 DEF Single
<1> QED
  BY <1>1, <1>2

Inv ==
  /\ Shape /\ PeersOnce /\ NewestOnline
  /\ QueuedAreGone /\ ParallelArrays /\ Single

LEMMA InvFacts ==
  ASSUME Inv
  PROVE  /\ Shape /\ PeersOnce
         /\ DOMAIN peers = 1..Len(peers)
         /\ Len(peers) \in Nat
         /\ \A i \in 1..Len(peers) :
              /\ peers[i] \in Peer
              /\ peers[i].sock \in Socket
              /\ peers[i].online \in BOOLEAN
              /\ peers[i].sock # NoSocket => /\ peers[i].sock \in Client
                                             /\ peers[i].sock \in accepted
         /\ \A i, j \in 1..Len(peers) :
              peers[i].sock = peers[j].sock /\ peers[i].sock # NoSocket => i = j
         /\ NoSocket \notin Client
         /\ Len(polls) = Len(peers)
         /\ \A i \in 1..Len(peers) : polls[i] = peers[i].sock
BY EntryFacts, ShapeFacts DEF Inv, ParallelArrays

LEMMA InitInv == Init => Inv
<1> SUFFICES ASSUME Init PROVE Inv
  OBVIOUS
<1>1. /\ polls = <<>> /\ peers = <<>> /\ removals = <<>> /\ pc = "top"
      /\ Len(<<>>) = 0 /\ DOMAIN <<>> = {}
  BY EmptySeq DEF Init
<1> QED
  BY <1>1, InitShape
  DEF Inv, PeersOnce, NewestOnline, QueuedAreGone, ParallelArrays, Single

LEMMA NextInv == Inv /\ [SingleNext]_vars => Inv'
<1> SUFFICES ASSUME Inv, [SingleNext]_vars PROVE Inv'
  OBVIOUS
<1>1. [Next]_vars /\ Single'
  BY SingleIsNext, NextSingle DEF Inv
<1>2. ParallelArrays'
  BY <1>1, PartingStep DEF Inv, Single
<1> QED
  BY <1>1, <1>2, NextShape, NextPeersOnce, NextNewestOnline, NextQueuedAreGone
  DEF Inv

--------------------------------------------------------------------------------
\* What the removal loop erases under the assumption: one entry, offline, whose
\* connection is at its end.
LEMMA RemovingTheGone ==
  ASSUME Inv, RemoveOne
  PROVE  LET r == Head(removals) IN
         /\ UNCHANGED <<conn, mail, accepted>>
         /\ r \in 1..Len(peers)
         /\ ~peers[r].online
         /\ AtEnd(peers[r].sock)
<1>1. /\ pc \in {"scan", "remove"} /\ todo = {} /\ removals # <<>>
      /\ UNCHANGED <<conn, mail, accepted>>
  BY Removing DEF Inv, netVars
<1>2. removals \in Seq(Nat) /\ DOMAIN removals = {1}
  <2>1. removals \in Seq(Nat) /\ Len(removals) \in Nat \ {0}
    BY <1>1, ShapeFacts, EmptySeq DEF Inv
  <2>0. Len(removals) <= 1
    BY DEF Inv, Single
  <2>2. Len(removals) = 1
    <3>1. ASSUME NEW n \in Nat \ {0}, n <= 1 PROVE n = 1
      BY <3>1
    <3> QED
      BY <2>0, <2>1, <3>1
  <2>3. DOMAIN removals = 1..1
    BY <2>1, <2>2, LenProperties
  <2> QED
    BY <2>1, <2>3
<1>3. pc = "scan"
  BY <1>1 DEF Inv, Single
<1>4. Head(removals) = removals[1]
  BY <1>1, <1>2
<1>5. /\ Head(removals) \in DOMAIN polls
      /\ ~peers[Head(removals)].online
      /\ AtEnd(polls[Head(removals)])
  BY <1>2, <1>3, <1>4 DEF Inv, QueuedAreGone
<1>6. DOMAIN polls = 1..Len(peers)
  BY InvFacts, ShapeFacts
<1> QED
  BY <1>1, <1>5, <1>6, InvFacts

--------------------------------------------------------------------------------
\* Each step of the HOST is one of the registry's or leaves its state alone.
LEMMA AcceptRegisters ==
  ASSUME Inv, Accept
  PROVE  [Registry!Next]_(Registry!vars)
<1>1. PICK s \in Socket :
        /\ \/ s \in Backlog /\ accepted' = accepted \union {s}
           \/ s = NoSocket /\ UNCHANGED accepted
        /\ DOMAIN peers' = 1..(Len(peers) + 1)
        /\ \A j \in 1..Len(peers) : peers'[j] = peers[j]
        /\ peers'[Len(peers) + 1] = NewPeer(s)
        /\ \A c \in Client : c # s => Agree(c)
  BY AcceptAgrees DEF Inv
<1>2. UNCHANGED <<conn, mail>>
  BY Accepting DEF Inv
<1>3. /\ DOMAIN peers = 1..Len(peers) /\ Len(peers) \in Nat
      /\ NewPeer(s).sock = s /\ NewPeer(s).online = TRUE
  BY InvFacts DEF NewPeer
<1>4. \A c \in Client : c # s =>
        SessionIn(c, accepted', peers') = SessionIn(c, accepted, peers)
  BY <1>1, AgreeSession
<1>5. CASE s = NoSocket
  <2>1. Sessions' = Sessions
    BY <1>4, <1>5, InvFacts DEF Sessions
  <2> QED
    BY <1>2, <2>1 DEF Registry!vars
<1>6. CASE s \in Backlog /\ accepted' = accepted \union {s}
  <2>1. s \in Client /\ conn[s] # "none" /\ s \notin accepted
    BY <1>6 DEF Backlog
  <2>2. Sessions[s] = "absent"
    BY <2>1, SessionCases DEF Sessions
  <2>3. SessionIn(s, accepted', peers') = "online"
    <3>1. \A j \in DOMAIN peers' : peers'[j].sock = s => j = Len(peers) + 1
      <4>1. \A j \in 1..Len(peers) : peers[j].sock # s
        BY <2>1, InvFacts
      <4> QED
        BY <1>1, <1>3, <4>1
    <3>2. /\ Len(peers) + 1 \in DOMAIN peers'
          /\ peers'[Len(peers) + 1].sock = s
          /\ peers'[Len(peers) + 1].online = TRUE
          /\ s \in accepted'
      BY <1>1, <1>3, <1>6
    <3> QED
      BY <3>1, <3>2, SessionCases
  <2>4. Sessions' = [Sessions EXCEPT ![s] = "online"]
    BY <1>4, <2>1, <2>3, OneSession
  <2>5. Registry!Register(s)
    BY <1>2, <2>1, <2>2, <2>4 DEF Registry!Register
  <2> QED
    BY <2>1, <2>5 DEF Registry!Next
<1> QED
  BY <1>1, <1>5, <1>6

\* Bytes go to an entry that is online.
LEMMA GreetDelivers ==
  ASSUME Inv, Greet
  PROVE  [Registry!Next]_(Registry!vars)
<1> DEFINE n == Len(peers)
<1>1. /\ n \in 1..Len(peers)
      /\ peers[n].online
      /\ peers[n] \in Peer
  BY EmptySeq, InvFacts DEF Greet, Inv, Shape, NewestOnline
<1>2. UNCHANGED <<conn, accepted, peers>> /\ Sessions' = Sessions
  BY DEF Greet, listVars, Sessions
<1>3. /\ mail \subseteq mail'
      /\ mail' \subseteq mail \union ({peers[n].sock} \ {NoSocket})
  BY <1>1, SendToEffect, ShapeFacts DEF Greet, Inv
<1>4. CASE mail' = mail
  BY <1>2, <1>4 DEF Registry!vars
<1>5. CASE mail' # mail
  <2>1. mail' = mail \union {peers[n].sock} /\ peers[n].sock # NoSocket
    BY <1>3, <1>5
  <2>2. peers[n].sock \in Client /\ Sessions[peers[n].sock] = "online"
    <3>1. \A j \in DOMAIN peers : peers[j].sock = peers[n].sock => j = n
      BY <1>1, <2>1, InvFacts
    <3> QED
      BY <1>1, <2>1, <3>1, InvFacts, SessionCases DEF Sessions
  <2>3. Registry!Deliver(peers[n].sock)
    BY <1>2, <2>1, <2>2 DEF Registry!Deliver
  <2> QED
    BY <2>2, <2>3 DEF Registry!Next
<1> QED
  BY <1>4, <1>5

\* Serving an entry delivers to it, expels it or both, and only if it is online.
LEMMA ScanSimulates ==
  ASSUME Inv, Scan
  PROVE  [Registry!Next]_(Registry!vars)
<1>1. PICK i \in todo : ServeEffect(i)
  BY ScanServes DEF Inv
<1>2. UNCHANGED <<conn, accepted>>
  BY ScanServes DEF Inv
<1>3. /\ i \in 1..Len(peers)
      /\ DOMAIN peers' = DOMAIN peers
      /\ \A j \in DOMAIN peers : /\ peers'[j].sock = peers[j].sock
                                 /\ j # i => peers'[j] = peers[j]
                                 /\ peers'[j].online \in BOOLEAN
      /\ ~peers[i].online => peers'[i] = peers[i] /\ mail' = mail
      /\ mail \subseteq mail' /\ mail' \subseteq mail \union {peers[i].sock}
      /\ mail \subseteq Client /\ mail' \subseteq Client
  <2>1. i \in 1..Len(peers) /\ mail \subseteq Client
    BY ShapeFacts DEF Inv
  <2>2. DOMAIN peers' = 1..Len(peers)
    BY <1>1, InvFacts, LenProperties DEF ServeEffect
  <2>3. \A j \in 1..Len(peers) : peers'[j].online \in BOOLEAN
    <3>1. peers' \in Seq(Peer) /\ Len(peers') = Len(peers)
      BY <1>1, InvFacts DEF ServeEffect
    <3>2. \A j \in 1..Len(peers) : peers'[j] \in Peer
      BY <3>1, ElementOfSeq
    <3> QED
      BY <3>2 DEF Peer
  <2> QED
    BY <1>1, <2>1, <2>2, <2>3, InvFacts DEF ServeEffect
<1>4. \A c \in Client : c # peers[i].sock =>
        SessionIn(c, accepted', peers') = SessionIn(c, accepted, peers)
  BY <1>1, <1>2, ScanAgrees, AgreeSession DEF Inv
<1>5. CASE peers[i].sock = NoSocket
  <2>1. Sessions' = Sessions
    BY <1>4, <1>5, InvFacts DEF Sessions
  <2>2. mail' = mail
    BY <1>3, <1>5, InvFacts
  <2> QED
    BY <1>2, <2>1, <2>2 DEF Registry!vars
<1>6. CASE peers[i].sock # NoSocket
  <2> DEFINE s == peers[i].sock
  <2>1. s \in Client /\ s \in accepted /\ peers[i].sock = s
    BY <1>3, <1>6, InvFacts
  <2>2. \A j \in DOMAIN peers : peers[j].sock = s => j = i
    BY <1>3, <1>6, InvFacts
  <2>3. Sessions[s] = IF peers[i].online THEN "online" ELSE "offline"
    BY <1>3, <2>1, <2>2, InvFacts, SessionCases DEF Sessions
  <2>4. SessionIn(s, accepted', peers')
          = IF peers'[i].online THEN "online" ELSE "offline"
    BY <1>2, <1>3, <2>1, <2>2, InvFacts, SessionCases
  <2>5. Sessions' = [Sessions EXCEPT ![s] = IF peers'[i].online THEN "online"
                                                                ELSE "offline"]
    BY <1>4, <2>1, <2>4, OneSession
  <2>6. mail' \in {mail, mail \union {s}}
    BY <1>3
  <2> HIDE DEF s
  <2>7. CASE peers'[i].online = peers[i].online
    <3>1. Sessions' = Sessions
      BY <2>1, <2>3, <2>5, <2>7 DEF Sessions
    <3>2. CASE mail' = mail
      BY <1>2, <3>1, <3>2 DEF Registry!vars
    <3>3. CASE mail' # mail
      <4>1. Sessions[s] = "online"
        BY <1>3, <2>3, <3>3
      <4>2. Registry!Deliver(s)
        BY <1>2, <2>6, <3>1, <3>3, <4>1 DEF Registry!Deliver
      <4> QED
        BY <2>1, <4>2 DEF Registry!Next
    <3> QED
      BY <3>2, <3>3
  <2>8. CASE peers'[i].online # peers[i].online
    <3>1. peers[i].online /\ ~peers'[i].online
      BY <1>3, <2>8, InvFacts
    <3>2. Registry!Expel(s)
      BY <1>2, <2>3, <2>5, <2>6, <3>1 DEF Registry!Expel
    <3> QED
      BY <2>1, <3>2 DEF Registry!Next
  <2> QED
    BY <2>7, <2>8
<1> QED
  BY <1>5, <1>6

\* The one queued entry leaves; all the others read as before.
LEMMA RemovalLeaves ==
  ASSUME Inv, RemoveOne
  PROVE  [Registry!Next]_(Registry!vars)
<1>1. UNCHANGED <<conn, mail, accepted>>
  BY RemovingTheGone
<1>2. CASE peers' = peers
  BY <1>1, <1>2 DEF Registry!vars, Sessions
<1>3. CASE peers' # peers
  <2> DEFINE r == Head(removals)
             s == peers[r].sock
  <2>1. /\ r \in 1..Len(peers) /\ ~peers[r].online /\ AtEnd(peers[r].sock)
        /\ \A j \in DOMAIN peers' :
             \E k \in DOMAIN peers : k # r /\ peers'[j] = peers[k]
        /\ \A c \in Client : c # s => Agree(c)
    BY <1>3, RemovingTheGone, RemovalAgrees, InvFacts DEF Inv
  <2> HIDE DEF r
  <2>2. /\ s \in Client /\ s \in accepted /\ peers[r].sock = s
        /\ conn[s] = "closed"
    BY <2>1, InvFacts DEF AtEnd
  <2>3. \A j \in DOMAIN peers : peers[j].sock = s => j = r
    BY <2>1, <2>2, InvFacts
  <2>4. Sessions[s] = "offline"
    BY <2>1, <2>2, <2>3, InvFacts, SessionCases DEF Sessions
  <2>5. SessionIn(s, accepted', peers') = "gone"
    <3>1. ASSUME NEW j \in DOMAIN peers' PROVE peers'[j].sock # s
      <4>1. PICK k \in DOMAIN peers : k # r /\ peers'[j] = peers[k]
        BY <2>1
      <4> QED
        BY <2>3, <4>1, InvFacts
    <3> QED
      BY <1>1, <2>2, <3>1, SessionCases
  <2>6. \A c \in Client : c # s =>
          SessionIn(c, accepted', peers') = SessionIn(c, accepted, peers)
    BY <2>1, AgreeSession
  <2>7. Sessions' = [Sessions EXCEPT ![s] = "gone"]
    BY <2>2, <2>5, <2>6, OneSession
  <2>8. Registry!Leave(s)
    BY <1>1, <2>2, <2>4, <2>7 DEF Registry!Leave
  <2> QED
    BY <2>2, <2>8 DEF Registry!Next
<1> QED
  BY <1>2, <1>3

LEMMA ClientSimulates ==
  ASSUME NEW c \in Client, ClientStep(c)
  PROVE  [Registry!Next]_(Registry!vars)
<1>1. Sessions' = Sessions
  BY DEF ClientStep, listVars, Sessions
<1>2. CASE Connect(c)
  BY <1>1, <1>2 DEF Connect, Registry!Connect, Registry!Next
<1>3. CASE Send(c)
  BY <1>1, <1>3 DEF Send, Registry!vars
<1>4. CASE Fetch(c)
  BY <1>1, <1>4 DEF Fetch, Registry!Fetch, Registry!Next
<1>5. CASE Close(c)
  BY <1>1, <1>5 DEF Close, Registry!Close, Registry!Next
<1>6. CASE Reset(c)
  BY <1>1, <1>6 DEF Reset, Registry!Close, Registry!Next
<1> QED
  BY <1>2, <1>3, <1>4, <1>5, <1>6 DEF ClientStep

LEMMA StepSimulation ==
  ASSUME Inv, [SingleNext]_vars
  PROVE  [Registry!Next]_(Registry!vars)
<1>1. CASE \E c \in Client : ClientStep(c)
  BY <1>1, ClientSimulates
<1>2. CASE Accept
  BY <1>2, AcceptRegisters
<1>3. CASE Greet
  BY <1>3, GreetDelivers
<1>4. CASE Scan
  BY <1>4, ScanSimulates
<1>5. CASE RemoveOne
  BY <1>5, RemovalLeaves
<1>6. CASE UNCHANGED <<conn, mail, accepted, peers>>
  BY <1>6 DEF Registry!vars, Sessions
<1>7. CASE AssignId
  <2>1. UNCHANGED <<conn, mail>> /\ \A c \in Client : Agree(c)
    BY <1>7, AssignAgrees DEF AssignId, netVars, Inv
  <2> QED
    BY <2>1, AgreeSession DEF Registry!vars, Sessions
<1> QED
  BY <1>1, <1>2, <1>3, <1>4, <1>5, <1>6, <1>7
  DEF SingleNext, Next, ListenThread, vars, StartAgain, Stop, CheckAlive, Poll,
      EndRound, netVars, listVars

--------------------------------------------------------------------------------
\* The HOST implements the registry, for every number of clients, descriptors,
\* unique IDs and start() calls, if no round queues two disconnects.
THEOREM HostImplementsRegistry == SingleSpec => RegistryKept
<1>1. Init => Registry!Init
  <2>1. Init => accepted = {} /\ peers = <<>> /\ DOMAIN peers = {}
    BY EmptySeq DEF Init
  <2> QED
    BY <2>1, SessionCases DEF Init, Registry!Init, Sessions
<1>2. Init => Inv
  BY InitInv
<1>3. Inv /\ [SingleNext]_vars => Inv' /\ [Registry!Next]_(Registry!vars)
  BY NextInv, StepSimulation
<1> QED
  BY <1>1, <1>2, <1>3, PTL DEF SingleSpec, RegistryKept, Registry!Spec

--------------------------------------------------------------------------------
\* The HOST implements PeerEntry, in every round.  First, what a list says of the
\* threads of a connection that has one entry at most.
LEMMA ThreadsCases ==
  ASSUME NEW c, NEW list
  PROVE  /\ (\A i \in DOMAIN list : list[i].sock # c) => ThreadsIn(c, list) = 0
         /\ \A i \in DOMAIN list :
              /\ list[i].sock = c
              /\ \A j \in DOMAIN list : list[j].sock = c => j = i
              => ThreadsIn(c, list) = list[i].threads
<1>1. ASSUME \A i \in DOMAIN list : list[i].sock # c PROVE ThreadsIn(c, list) = 0
  <2>1. {i \in DOMAIN list : list[i].sock = c} = {}
    BY <1>1
  <2> QED
    BY <2>1 DEF ThreadsIn
<1>2. ASSUME NEW i \in DOMAIN list, list[i].sock = c,
             \A j \in DOMAIN list : list[j].sock = c => j = i
      PROVE  ThreadsIn(c, list) = list[i].threads
  <2>1. {j \in DOMAIN list : list[j].sock = c} = {i}
    BY <1>2
  <2>2. (CHOOSE j \in {i} : TRUE) = i
    OBVIOUS
  <2> QED
    BY <2>1, <2>2, Zenon DEF ThreadsIn
<1> QED
  BY <1>1, <1>2

LEMMA AgreeThreads ==
  ASSUME Shape, PeersOnce, [Next]_vars, NEW c \in Client, Agree(c)
  PROVE  ThreadsIn(c, peers') = ThreadsIn(c, peers)
<1>0. c # NoSocket
  BY HostAssumption
<1>1. CASE \E i \in DOMAIN peers : peers[i].sock = c
  <2>1. PICK i \in DOMAIN peers : peers[i].sock = c
    BY <1>1
  <2>2. PICK j \in DOMAIN peers' : Alike(peers'[j], peers[i])
    BY <2>1 DEF Agree
  <2>3. \A k \in DOMAIN peers : peers[k].sock = c => k = i
    BY <1>0, <2>1, UniqueEntries
  <2>4. \A k \in DOMAIN peers' : peers'[k].sock = c => k = j
    BY <1>0, <2>1, <2>2, UniqueEntries DEF Alike
  <2>5. ThreadsIn(c, peers) = peers[i].threads
    BY <2>1, <2>3, ThreadsCases
  <2>6. ThreadsIn(c, peers') = peers'[j].threads
    BY <2>1, <2>2, <2>4, ThreadsCases DEF Alike
  <2> QED
    BY <2>2, <2>5, <2>6 DEF Alike
<1>2. CASE \A i \in DOMAIN peers : peers[i].sock # c
  <2>1. \A j \in DOMAIN peers' : peers'[j].sock # c
    BY <1>2 DEF Agree, Alike
  <2> QED
    BY <1>2, <2>1, ThreadsCases
<1> QED
  BY <1>1, <1>2

\* A step that agrees on all connections but one, and sets its session and threads.
LEMMA OneEntry ==
  ASSUME Shape, PeersOnce, [Next]_vars, NEW s \in Client,
         \A c \in Client : c # s => Agree(c)
  PROVE  /\ Sessions' = [Sessions EXCEPT ![s] = SessionIn(s, accepted', peers')]
         /\ EntryThreads' = [EntryThreads EXCEPT ![s] = ThreadsIn(s, peers')]
<1>1. \A c \in Client : c # s =>
        /\ SessionIn(c, accepted', peers') = SessionIn(c, accepted, peers)
        /\ ThreadsIn(c, peers') = ThreadsIn(c, peers)
  BY AgreeSession, AgreeThreads
<1> QED
  BY <1>1 DEF Sessions, EntryThreads

\* A step that agrees on all connections is none of their entries'.
LEMMA NoEntry ==
  ASSUME Shape, PeersOnce, [Next]_vars, \A c \in Client : Agree(c)
  PROVE  UNCHANGED Entries!vars
<1>1. \A c \in Client :
        /\ SessionIn(c, accepted', peers') = SessionIn(c, accepted, peers)
        /\ ThreadsIn(c, peers') = ThreadsIn(c, peers)
  BY AgreeSession, AgreeThreads
<1> QED
  BY <1>1 DEF Sessions, EntryThreads, Entries!vars

\* The scan changes the threads of an entry by an acknowledgement only, and only
\* if it is online and stays so.
LEMMA ServeThreads ==
  ASSUME Shape, NEW i \in todo, Serve(i)
  PROVE  \/ peers'[i].threads = peers[i].threads
         \/ /\ peers[i].online /\ peers'[i].online
            /\ peers'[i].threads \in ThreadsAfter(peers[i].threads)
<1>1. /\ i \in DOMAIN peers /\ peers[i] \in Peer /\ peers \in Seq(Peer)
      /\ \A p : [peers EXCEPT ![i] = p][i] = p
  BY ShapeFacts, ExceptSeq
<1>2. CASE HandleHandshake(i)
  <2>1. PICK code \in Codes, version \in Versions, chunk \in ChunkSizes :
          LET accept == CompareSettings(version, chunk) IN
          peers' = [peers EXCEPT
                      ![i].online = @ /\ ~Kicks(code, accept),
                      ![i].handshake = @ \/ Completes(code, accept)]
    BY <1>2 DEF HandleHandshake
  <2> DEFINE accept == CompareSettings(version, chunk)
             p == [peers[i] EXCEPT !.online = @ /\ ~Kicks(code, accept),
                                   !.handshake = @ \/ Completes(code, accept)]
  <2>2. peers' = [peers EXCEPT ![i] = p] /\ p.threads = peers[i].threads
    BY <1>1, <2>1, Zenon DEF Peer
  <2> HIDE DEF p
  <2> QED
    BY <1>1, <2>2
<1>3. CASE HandleAcknowledge(i)
  <2>1. PICK n \in ThreadsAfter(peers[i].threads) :
          peers' = [peers EXCEPT ![i].threads = n]
    BY <1>3 DEF HandleAcknowledge
  <2> DEFINE p == [peers[i] EXCEPT !.threads = n]
  <2>2. /\ peers' = [peers EXCEPT ![i] = p]
        /\ p.threads = n /\ p.online = peers[i].online
    BY <1>1, <2>1 DEF Peer
  <2>3. peers[i].online
    BY <1>3 DEF HandleAcknowledge, IsOnline
  <2> HIDE DEF p
  <2> QED
    BY <1>1, <2>1, <2>2, <2>3
<1>4. CASE Hangup(i)
  <2> DEFINE p == [peers[i] EXCEPT !.online = FALSE]
  <2>1. peers' = [peers EXCEPT ![i] = p] /\ p.threads = peers[i].threads
    BY <1>1, <1>4 DEF Hangup, Peer
  <2> HIDE DEF p
  <2> QED
    BY <1>1, <2>1
<1>5. CASE peers' = peers
  BY <1>5
<1> QED
  BY <1>2, <1>3, <1>4, <1>5 DEF Serve, Discard, HandleHeader, HandlePath

LEMMA ScanEntries ==
  ASSUME Shape, PeersOnce, Scan
  PROVE  [Entries!Next]_(Entries!vars)
<1>0. [Next]_vars
  BY DEF Next, ListenThread
<1>1. PICK i \in todo : Serve(i)
  BY DEF Scan
<1>2. ServeEffect(i) /\ accepted' = accepted
  BY <1>1, Serving DEF Scan
<1>3. \A c \in Client : c # peers[i].sock => Agree(c)
  BY <1>2, ScanAgrees
<1>4. /\ i \in DOMAIN peers /\ DOMAIN peers' = DOMAIN peers
      /\ peers'[i].sock = peers[i].sock /\ peers[i].sock = peers[i].sock
      /\ peers[i].online \in BOOLEAN /\ peers'[i].online \in BOOLEAN
      /\ ~peers[i].online => peers'[i] = peers[i]
  <2>1. /\ i \in 1..Len(peers) /\ DOMAIN peers = 1..Len(peers)
        /\ peers' \in Seq(Peer)
        /\ Len(peers') = Len(peers)
    BY <1>2, ShapeFacts DEF ServeEffect
  <2>2. DOMAIN peers' = 1..Len(peers) /\ peers'[i] \in Peer
    BY <2>1, LenProperties, ElementOfSeq
  <2> QED
    BY <1>2, <2>1, <2>2, EntryFacts DEF ServeEffect, Peer
<1>5. CASE peers[i].sock = NoSocket
  <2>1. \A c \in Client : Agree(c)
    BY <1>3, <1>5, HostAssumption
  <2> QED
    BY <1>0, <2>1, NoEntry
<1>6. CASE peers[i].sock # NoSocket
  <2> DEFINE s == peers[i].sock
  <2>1. s \in Client /\ s \in accepted /\ s \in accepted'
    BY <1>2, <1>4, <1>6, EntryFacts
  <2>2. /\ \A j \in DOMAIN peers : peers[j].sock = s => j = i
        /\ \A j \in DOMAIN peers' : peers'[j].sock = s => j = i
    BY <1>0, <1>4, <1>6, UniqueEntries
  <2>3. /\ Sessions[s] = IF peers[i].online THEN "online" ELSE "offline"
        /\ EntryThreads[s] = peers[i].threads
    BY <1>4, <2>1, <2>2, SessionCases, ThreadsCases DEF Sessions, EntryThreads
  <2>4. /\ SessionIn(s, accepted', peers')
             = IF peers'[i].online THEN "online" ELSE "offline"
        /\ ThreadsIn(s, peers') = peers'[i].threads
    BY <1>4, <2>1, <2>2, SessionCases, ThreadsCases
  <2>5. /\ Sessions' = [Sessions EXCEPT ![s] =
                          IF peers'[i].online THEN "online" ELSE "offline"]
        /\ EntryThreads' = [EntryThreads EXCEPT ![s] = peers'[i].threads]
    BY <1>0, <1>3, <2>1, <2>4, OneEntry
  <2> HIDE DEF s
  <2>6. CASE /\ peers[i].online /\ peers'[i].online
             /\ peers'[i].threads \in ThreadsAfter(peers[i].threads)
    <3>1. Sessions' = Sessions /\ Sessions[s] = "online"
      BY <2>1, <2>3, <2>5, <2>6 DEF Sessions
    <3>2. Entries!Acknowledge(s)
      BY <2>3, <2>5, <2>6, <3>1 DEF Entries!Acknowledge
    <3> QED
      BY <2>1, <3>2 DEF Entries!Next
  <2>7. CASE peers'[i].threads = peers[i].threads
    <3>1. EntryThreads' = EntryThreads
      BY <2>1, <2>3, <2>5, <2>7 DEF EntryThreads
    <3>2. CASE peers'[i].online = peers[i].online
      <4>1. Sessions' = Sessions
        BY <2>1, <2>3, <2>5, <3>2 DEF Sessions
      <4> QED
        BY <3>1, <4>1 DEF Entries!vars
    <3>3. CASE peers'[i].online # peers[i].online
      <4>1. peers[i].online /\ ~peers'[i].online
        BY <1>4, <3>3
      <4>2. Entries!Expel(s)
        BY <2>3, <2>5, <3>1, <4>1 DEF Entries!Expel
      <4> QED
        BY <2>1, <4>2 DEF Entries!Next
    <3> QED
      BY <3>2, <3>3
  <2> QED
    BY <1>1, <2>6, <2>7, ServeThreads
<1> QED
  BY <1>5, <1>6

LEMMA AcceptEntries ==
  ASSUME Shape, PeersOnce, Accept
  PROVE  [Entries!Next]_(Entries!vars)
<1>0. [Next]_vars
  BY DEF Next, ListenThread
<1>1. PICK s \in Socket :
        /\ \/ s \in Backlog /\ accepted' = accepted \union {s}
           \/ s = NoSocket /\ UNCHANGED accepted
        /\ DOMAIN peers' = 1..(Len(peers) + 1)
        /\ \A j \in 1..Len(peers) : peers'[j] = peers[j]
        /\ peers'[Len(peers) + 1] = NewPeer(s)
        /\ \A c \in Client : c # s => Agree(c)
  BY AcceptAgrees
<1>2. /\ DOMAIN peers = 1..Len(peers) /\ Len(peers) \in Nat
      /\ NewPeer(s).sock = s /\ NewPeer(s).online = TRUE
      /\ NewPeer(s).threads = 0
  BY EntryFacts DEF NewPeer
<1>3. CASE s = NoSocket
  <2>1. \A c \in Client : Agree(c)
    BY <1>1, <1>3, HostAssumption
  <2> QED
    BY <1>0, <2>1, NoEntry
<1>4. CASE s \in Backlog /\ accepted' = accepted \union {s}
  <2>1. s \in Client /\ s \notin accepted /\ s \in accepted'
    BY <1>4 DEF Backlog
  <2>2. \A j \in DOMAIN peers : peers[j].sock # s
    BY <2>1, EntryFacts, HostAssumption
  <2>3. Sessions[s] = "absent" /\ EntryThreads[s] = 0
    BY <2>1, <2>2, SessionCases, ThreadsCases DEF Sessions, EntryThreads
  <2>4. /\ Len(peers) + 1 \in DOMAIN peers'
        /\ peers'[Len(peers) + 1].sock = s
        /\ \A j \in DOMAIN peers' : peers'[j].sock = s => j = Len(peers) + 1
    BY <1>1, <1>2, <2>2
  <2>5. SessionIn(s, accepted', peers') = "online" /\ ThreadsIn(s, peers') = 0
    BY <1>1, <1>2, <2>1, <2>4, SessionCases, ThreadsCases
  <2>6. /\ Sessions' = [Sessions EXCEPT ![s] = "online"]
        /\ EntryThreads' = [EntryThreads EXCEPT ![s] = 0]
    BY <1>0, <1>1, <2>1, <2>5, OneEntry
  <2>7. Entries!Enter(s)
    BY <2>1, <2>3, <2>6 DEF Entries!Enter, EntryThreads
  <2> QED
    BY <2>1, <2>7 DEF Entries!Next
<1> QED
  BY <1>1, <1>3, <1>4

LEMMA RemovalEntries ==
  ASSUME Shape, PeersOnce, RemoveOne
  PROVE  [Entries!Next]_(Entries!vars)
<1>0. [Next]_vars /\ accepted' = accepted
  BY Removing DEF Next, ListenThread, netVars
<1>1. CASE peers' = peers
  BY <1>0, <1>1 DEF Entries!vars, Sessions, EntryThreads
<1>2. CASE peers' # peers
  <2> DEFINE r == Head(removals)
             s == peers[r].sock
  <2>1. /\ r \in 1..Len(peers)
        /\ \A j \in DOMAIN peers' :
             \E k \in DOMAIN peers : k # r /\ peers'[j] = peers[k]
        /\ \A c \in Client : c # s => Agree(c)
    BY <1>2, RemovalAgrees
  <2> HIDE DEF r
  <2>2. CASE s = NoSocket
    <3>1. \A c \in Client : Agree(c)
      BY <2>1, <2>2, HostAssumption
    <3> QED
      BY <1>0, <3>1, NoEntry
  <2>3. CASE s # NoSocket
    <3>1. /\ s \in Client /\ s \in accepted /\ peers[r].sock = s
          /\ r \in DOMAIN peers /\ DOMAIN peers = 1..Len(peers)
      BY <2>1, <2>3, EntryFacts
    <3>2. \A j \in DOMAIN peers : peers[j].sock = s => j = r
      BY <1>0, <2>3, <3>1, UniqueEntries
    <3>3. \A j \in DOMAIN peers' : peers'[j].sock # s
      <4> SUFFICES ASSUME NEW j \in DOMAIN peers' PROVE peers'[j].sock # s
        OBVIOUS
      <4>1. PICK k \in DOMAIN peers : k # r /\ peers'[j] = peers[k]
        BY <2>1
      <4> QED
        BY <3>1, <3>2, <4>1
    <3>4. Sessions[s] \in {"online", "offline"}
      BY <3>1, <3>2, SessionCases DEF Sessions
    <3>5. SessionIn(s, accepted', peers') = "gone" /\ ThreadsIn(s, peers') = 0
      BY <1>0, <3>1, <3>3, SessionCases, ThreadsCases
    <3>6. /\ Sessions' = [Sessions EXCEPT ![s] = "gone"]
          /\ EntryThreads' = [EntryThreads EXCEPT ![s] = 0]
      BY <1>0, <2>1, <3>1, <3>5, OneEntry
    <3>7. Entries!Leave(s)
      BY <3>4, <3>6 DEF Entries!Leave
    <3> QED
      BY <3>1, <3>7 DEF Entries!Next
  <2> QED
    BY <2>2, <2>3
<1> QED
  BY <1>1, <1>2

\* Each connection's entry lives one life, with any number of disconnects in a
\* round: what the removal loop does wrong is to end a life early.
THEOREM HostImplementsEntries == Spec => EntriesKept
<1>1. Init => Entries!Init
  <2> SUFFICES ASSUME Init PROVE Entries!Init
    OBVIOUS
  <2>1. accepted = {} /\ DOMAIN peers = {}
    BY EmptySeq DEF Init
  <2>2. /\ Sessions = [c \in Client |-> "absent"]
        /\ EntryThreads = [c \in Client |-> 0]
    BY <2>1, SessionCases, ThreadsCases DEF Sessions, EntryThreads
  <2> QED
    BY <2>2 DEF Entries!Init
<1>2. Init => Shape /\ PeersOnce
  BY InitShape, EmptySeq DEF Init, PeersOnce
<1>3. Shape /\ PeersOnce /\ [Next]_vars
        => Shape' /\ PeersOnce' /\ [Entries!Next]_(Entries!vars)
  <2> SUFFICES ASSUME Shape, PeersOnce, [Next]_vars
               PROVE  [Entries!Next]_(Entries!vars)
    BY NextShape, NextPeersOnce
  <2>1. CASE UNCHANGED <<accepted, peers>>
    BY <2>1 DEF Entries!vars, Sessions, EntryThreads
  <2>2. CASE AssignId
    BY <2>2, AssignAgrees, NoEntry
  <2> QED
    BY <2>1, <2>2, PeerSteps, ScanEntries, AcceptEntries, RemovalEntries
<1> QED
  BY <1>1, <1>2, <1>3, PTL DEF Spec, EntriesKept, Entries!Spec

================================================================================
