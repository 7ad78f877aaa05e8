--------------------------- MODULE UDTPHost_proofs ---------------------------
(***************************************************************************)
(* Theorems about UDTPHost for every set of clients and every bound.  The  *)
(* six handlers of the scan are summarised once, by ServeEffect; each      *)
(* invariant is then proved from that summary and the other actions.       *)
(***************************************************************************)
EXTENDS UDTPHost, SequenceTheorems, FiniteSetTheorems, TLAPS

--------------------------------------------------------------------------------
\* Erasing position i shifts the entries behind it by one.
LEMMA RemoveAtProperties ==
  ASSUME NEW S, NEW s \in Seq(S), NEW i \in 1..Len(s)
  PROVE  /\ RemoveAt(s, i) \in Seq(S)
         /\ Len(RemoveAt(s, i)) = Len(s) - 1
         /\ \A j \in 1..(Len(s) - 1) :
              RemoveAt(s, i)[j] = IF j < i THEN s[j] ELSE s[j + 1]
<1> DEFINE front == SubSeq(s, 1, i - 1)
           back  == SubSeq(s, i + 1, Len(s))
<1>1. Len(s) \in Nat /\ \A j \in 1..Len(s) : s[j] \in S
  BY LenProperties, ElementOfSeq
<1>2. /\ front \in Seq(S)
      /\ Len(front) = i - 1
      /\ \A j \in 1..(i - 1) : front[j] = s[j]
  <2>1. \A j \in 1..(i - 1) : s[j] \in S
    BY <1>1
  <2> QED
    BY <1>1, <2>1, SubSeqProperties
<1>3. /\ back \in Seq(S)
      /\ Len(back) = Len(s) - i
      /\ \A j \in 1..(Len(s) - i) : back[j] = s[i + j]
  <2>1. \A j \in (i + 1)..Len(s) : s[j] \in S
    BY <1>1
  <2> QED
    BY <1>1, <2>1, SubSeqProperties
<1>4. RemoveAt(s, i) = front \o back
  BY DEF RemoveAt
<1> HIDE DEF front, back
<1>5. /\ front \o back \in Seq(S)
      /\ Len(front \o back) = Len(s) - 1
      /\ \A j \in 1..(Len(s) - 1) :
           (front \o back)[j] = IF j <= i - 1 THEN front[j]
                                ELSE back[j - (i - 1)]
  <2>1. Len(front) + Len(back) = Len(s) - 1
    BY <1>1, <1>2, <1>3
  <2>2. /\ front \o back \in Seq(S)
        /\ Len(front \o back) = Len(front) + Len(back)
        /\ \A j \in 1..Len(front) + Len(back) :
             (front \o back)[j] = IF j <= Len(front) THEN front[j]
                                  ELSE back[j - Len(front)]
    BY <1>2, <1>3, ConcatProperties
  <2> QED
    BY <1>2, <2>1, <2>2
<1>6. ASSUME NEW j \in 1..(Len(s) - 1)
      PROVE  (front \o back)[j] = IF j < i THEN s[j] ELSE s[j + 1]
  <2>1. CASE j < i
    BY <1>1, <1>2, <1>5, <2>1
  <2>2. CASE ~(j < i)
    <3>1. j - (i - 1) \in 1..(Len(s) - i) /\ i + (j - (i - 1)) = j + 1
      BY <1>1, <2>2
    <3>2. (front \o back)[j] = back[j - (i - 1)]
      BY <1>1, <1>5, <2>2
    <3> QED
      BY <1>3, <2>2, <3>1, <3>2
  <2> QED
    BY <2>1, <2>2
<1> QED
  BY <1>4, <1>5, <1>6

\* An acknowledgement leaves a natural number of threads.
LEMMA ThreadsAfterNat ==
  ASSUME NEW threads \in Nat, NEW n \in ThreadsAfter(threads)
  PROVE  n \in Nat
<1>1. PICK type \in AnyAcknowledge, code \in Codes, ratio \in Ratios :
        n \in RespondThreads(type, code, ratio, threads)
  BY DEF ThreadsAfter
<1> QED
  BY <1>1 DEF RespondThreads, AddThread, RemoveThread

--------------------------------------------------------------------------------
\* The invariant everything else rests on: types, a peer behind every polled
\* socket, and a peer to number and greet.
Shape ==
  /\ TypeOK
  /\ Len(polls) <= Len(peers)
  /\ pc \in {"assign", "greet"} => peers # <<>>

\* What sending changes, whoever it is sent to.
LEMMA SendToEffect ==
  ASSUME mail \subseteq Client, NEW peer \in Peer, NEW uid, NEW next,
         SendTo(peer, uid, next)
  PROVE  /\ mail \subseteq mail'
         /\ mail' \subseteq mail \union ({peer.sock} \ {NoSocket})
         /\ mail' \subseteq Client
         /\ pc' \in {next, "crashed"}
BY HostAssumption DEF SendTo, Peer, Socket

\* What serving position i may change: its own peer, its own connection's unread
\* bytes and mail, and the queue of removals if the connection ended.
ServeEffect(i) ==
  /\ peers' \in Seq(Peer)
  /\ Len(peers') = Len(peers)
  /\ \A j \in 1..Len(peers) :
       /\ peers'[j].sock = peers[j].sock
       /\ peers'[j].uid = peers[j].uid
       /\ ~peers[j].online => ~peers'[j].online
       /\ j # i => peers'[j] = peers[j]
  /\ ~peers[i].online => peers'[i] = peers[i] /\ mail' = mail
  /\ \/ /\ HasHeader(polls[i])
        /\ ReadHeader(polls[i])
        /\ removals' = removals
     \/ /\ AtEnd(polls[i])
        /\ pending' = pending
        /\ mail' = mail
        /\ removals' = Append(removals, i)
        /\ ~peers'[i].online
  /\ pending' \in [Client -> Nat]
  /\ mail \subseteq mail'
  /\ mail' \subseteq mail \union {peers[i].sock}
  /\ mail' \subseteq Client
  /\ pc' \in {"scan", "crashed"}
  /\ selfHandshake' \in BOOLEAN

\* Replacing the flags of one peer keeps every socket and unique ID.
LEMMA PeerUpdate ==
  ASSUME Shape, NEW i \in 1..Len(peers), NEW p \in Peer,
         p.sock = peers[i].sock, p.uid = peers[i].uid,
         ~peers[i].online => ~p.online,
         peers' = [peers EXCEPT ![i] = p]
  PROVE  /\ peers' \in Seq(Peer)
         /\ Len(peers') = Len(peers)
         /\ peers'[i] = p
         /\ \A j \in 1..Len(peers) :
              /\ peers'[j].sock = peers[j].sock
              /\ peers'[j].uid = peers[j].uid
              /\ ~peers[j].online => ~peers'[j].online
              /\ j # i => peers'[j] = peers[j]
BY ExceptSeq DEF Shape, TypeOK

\* read() of a header takes one from the connection it is read on.
LEMMA ReadHeaderEffect ==
  ASSUME TypeOK, NEW s \in Socket, ReadHeader(s)
  PROVE  /\ HasHeader(s)
         /\ pending' \in [Client -> Nat]
         /\ \A c \in Client : /\ c # s => pending'[c] = pending[c]
                              /\ c = s => pending'[c] < pending[c]
BY HostAssumption DEF ReadHeader, HasHeader, TypeOK, Socket

LEMMA Serving ==
  ASSUME Shape, pc = "scan", NEW i \in todo, Serve(i)
  PROVE  ServeEffect(i)
<1>1. /\ i \in 1..Len(peers)
      /\ peers \in Seq(Peer)
      /\ polls[i] \in Socket
      /\ peers[i] \in Peer
      /\ mail \subseteq Client
      /\ selfHandshake \in BOOLEAN
      /\ pending \in [Client -> Nat]
  <2>1. /\ polls \in Seq(Socket) /\ peers \in Seq(Peer)
        /\ Len(polls) \in Nat /\ Len(peers) \in Nat /\ Len(polls) <= Len(peers)
        /\ DOMAIN polls = 1..Len(polls)
        /\ i \in DOMAIN polls
    BY LenProperties DEF Shape, TypeOK
  <2>2. i \in 1..Len(polls) /\ i \in 1..Len(peers)
    BY <2>1
  <2> QED
    BY <2>1, <2>2, ElementOfSeq DEF Shape, TypeOK
<1>2. ASSUME Answer(i)
      PROVE  /\ mail \subseteq mail'
             /\ mail' \subseteq mail \union {peers[i].sock}
             /\ mail' \subseteq Client
             /\ pc' \in {"scan", "crashed"}
  BY <1>1, <1>2, SendToEffect DEF Answer
<1>3. ASSUME \/ Answer(i)
             \/ UNCHANGED <<pc, mail>>
             \/ MayCrash
      PROVE  /\ mail \subseteq mail'
             /\ mail' \subseteq mail \union {peers[i].sock}
             /\ mail' \subseteq Client
             /\ pc' \in {"scan", "crashed"}
  BY <1>1, <1>2, <1>3 DEF MayCrash
<1>4. CASE Discard(i)
  BY <1>1, <1>4, ReadHeaderEffect DEF Discard, ServeEffect, Shape
<1>5. CASE HandleHandshake(i)
  <2>1. PICK code \in Codes, version \in Versions, chunk \in ChunkSizes :
          LET accept == CompareSettings(version, chunk) IN
          /\ peers' = [peers EXCEPT
                         ![i].online = @ /\ ~Kicks(code, accept),
                         ![i].handshake = @ \/ Completes(code, accept)]
          /\ selfHandshake' = (selfHandshake \/ code = "Approved")
          /\ \/ HandshakeResends(code, accept) /\ Answer(i)
             \/ ~HandshakeResends(code, accept) /\ UNCHANGED <<pc, mail>>
             \/ MayCrash
    BY <1>5 DEF HandleHandshake
  <2> DEFINE accept == CompareSettings(version, chunk)
             p == [peers[i] EXCEPT !.online = @ /\ ~Kicks(code, accept),
                                   !.handshake = @ \/ Completes(code, accept)]
  <2>2. /\ peers' = [peers EXCEPT ![i] = p]
        /\ p \in Peer
        /\ p.sock = peers[i].sock
        /\ p.uid = peers[i].uid
        /\ ~peers[i].online => ~p.online
    BY <1>1, <2>1, Zenon DEF Peer, Kicks, Completes
  <2>3. IsOnline(i) /\ ReadHeader(polls[i]) /\ removals' = removals
    BY <1>5 DEF HandleHandshake
  <2>4. selfHandshake' \in BOOLEAN
    BY <2>1, Zenon
  <2>5. /\ mail \subseteq mail'
        /\ mail' \subseteq mail \union {peers[i].sock}
        /\ mail' \subseteq Client
        /\ pc' \in {"scan", "crashed"}
    BY <1>3, <2>1
  <2> HIDE DEF p
  <2> QED
    BY <1>1, <2>2, <2>3, <2>4, <2>5, PeerUpdate, ReadHeaderEffect
    DEF ServeEffect, Shape, IsOnline
<1>6. CASE HandleHeader(i)
  BY <1>1, <1>3, <1>6, ReadHeaderEffect
  DEF HandleHeader, ServeEffect, Shape, IsOnline
<1>7. CASE HandlePath(i)
  BY <1>1, <1>3, <1>7, ReadHeaderEffect
  DEF HandlePath, ServeEffect, Shape, IsOnline
<1>8. CASE HandleAcknowledge(i)
  <2>1. PICK n \in ThreadsAfter(peers[i].threads) :
          peers' = [peers EXCEPT ![i].threads = n]
    BY <1>8 DEF HandleAcknowledge
  <2> DEFINE p == [peers[i] EXCEPT !.threads = n]
  <2>2. n \in Nat
    BY <1>1, ThreadsAfterNat DEF Peer
  <2>3. /\ peers' = [peers EXCEPT ![i] = p]
        /\ p \in Peer
        /\ p.sock = peers[i].sock
        /\ p.uid = peers[i].uid
        /\ p.online = peers[i].online
    BY <1>1, <2>1, <2>2 DEF Peer
  <2> HIDE DEF p
  <2>4. /\ IsOnline(i) /\ ReadHeader(polls[i])
        /\ removals' = removals /\ selfHandshake' = selfHandshake
    BY <1>8 DEF HandleAcknowledge
  <2> QED
    BY <1>1, <1>3, <1>8, <2>3, <2>4, PeerUpdate, ReadHeaderEffect
    DEF HandleAcknowledge, ServeEffect, Shape, IsOnline
<1>9. CASE Hangup(i)
  <2> DEFINE p == [peers[i] EXCEPT !.online = FALSE]
  <2>1. /\ peers' = [peers EXCEPT ![i] = p]
        /\ p \in Peer
        /\ p.sock = peers[i].sock
        /\ p.uid = peers[i].uid
        /\ ~p.online
        /\ ~peers[i].online => p = peers[i]
    BY <1>1, <1>9 DEF Hangup, Peer
  <2> HIDE DEF p
  <2> QED
    BY <1>1, <1>9, <2>1, PeerUpdate DEF Hangup, ServeEffect
<1> QED
  BY <1>4, <1>5, <1>6, <1>7, <1>8, <1>9 DEF Serve

--------------------------------------------------------------------------------
\* new is old without its entry at r.
Drops(new, old, r) ==
  /\ Len(new) = Len(old) - 1
  /\ \A j \in 1..Len(new) : new[j] = old[IF j < r THEN j ELSE j + 1]

LEMMA RemoveAtDrops ==
  ASSUME NEW S, NEW s \in Seq(S), NEW i \in 1..Len(s)
  PROVE  RemoveAt(s, i) \in Seq(S) /\ Drops(RemoveAt(s, i), s, i)
<1>1. Len(s) \in Nat
  BY LenProperties
<1> QED
  BY <1>1, RemoveAtProperties DEF Drops

\* Losing the last entry; an empty sequence stays as it is.
LEMMA FrontDrops ==
  ASSUME NEW S, NEW s \in Seq(S)
  PROVE  /\ Front(s) \in Seq(S)
         /\ s = <<>> => Front(s) = s
         /\ s # <<>> => Len(s) \in 1..Len(s) /\ Drops(Front(s), s, Len(s))
<1>1. Len(s) \in Nat /\ \A j \in 1..Len(s) : s[j] \in S
  BY LenProperties, ElementOfSeq
<1>2. /\ Front(s) \in Seq(S)
      /\ Len(s) = 0 => Len(Front(s)) = 0
      /\ Len(s) > 0 => Len(Front(s)) = Len(s) - 1
      /\ \A j \in 1..(Len(s) - 1) : Front(s)[j] = s[j]
  <2> DEFINE n == Len(s) - 1
  <2>1. 1 \in Int /\ n \in Int /\ \A j \in 1..n : s[j] \in S
    BY <1>1
  <2>2. /\ SubSeq(s, 1, n) \in Seq(S)
        /\ Len(SubSeq(s, 1, n)) = IF 1 <= n THEN n - 1 + 1 ELSE 0
        /\ \A i \in 1..(n - 1 + 1) : SubSeq(s, 1, n)[i] = s[1 + i - 1]
    BY <2>1, SubSeqProperties
  <2>3. ASSUME NEW j \in 1..n PROVE SubSeq(s, 1, n)[j] = s[j]
    <3>1. j \in 1..(n - 1 + 1) /\ 1 + j - 1 = j
      BY <2>1
    <3> QED
      BY <2>2, <3>1
  <2>4. Front(s) = SubSeq(s, 1, n)
    BY DEF Front
  <2> HIDE DEF n
  <2>5. /\ Front(s) \in Seq(S)
        /\ Len(Front(s)) = IF 1 <= n THEN n - 1 + 1 ELSE 0
        /\ \A j \in 1..n : Front(s)[j] = s[j]
    BY <2>2, <2>3, <2>4, Zenon
  <2>6. n \in Int /\ n = Len(s) - 1 /\ Len(s) \in Nat
    BY <1>1 DEF n
  <2>7. /\ Len(s) = 0 => Len(Front(s)) = 0
        /\ Len(s) > 0 => Len(Front(s)) = Len(s) - 1
    BY <2>5, <2>6
  <2> QED
    BY <2>5, <2>6, <2>7
<1>3. s = <<>> <=> Len(s) = 0
  BY EmptySeq
<1>4. Len(Front(s)) = 0 => Front(s) = <<>>
  BY <1>2, EmptySeq
<1> QED
  BY <1>1, <1>2, <1>3, <1>4 DEF Drops

\* Every entry that remains was one before, and every other one remains.
LEMMA DropFacts ==
  ASSUME NEW S, NEW old \in Seq(S), NEW new \in Seq(S), NEW r \in 1..Len(old),
         Drops(new, old, r)
  PROVE  /\ Len(old) \in Nat /\ Len(new) \in Nat /\ Len(new) = Len(old) - 1
         /\ \A j \in 1..Len(new) :
              LET k == IF j < r THEN j ELSE j + 1 IN
              k \in 1..Len(old) /\ k # r /\ new[j] = old[k]
         /\ \A j \in 1..Len(new) : \E k \in 1..Len(old) : new[j] = old[k]
         /\ \A k \in 1..Len(old) :
              k # r => \E j \in 1..Len(new) : new[j] = old[k]
<1>1. Len(old) \in Nat /\ Len(new) \in Nat /\ Len(new) = Len(old) - 1
  BY LenProperties DEF Drops
<1>2. ASSUME NEW k \in 1..Len(old), k # r
      PROVE  \E j \in 1..Len(new) : new[j] = old[k]
  <2>1. CASE k < r
    BY <1>1, <2>1 DEF Drops
  <2>2. CASE k > r
    <3>1. k - 1 \in 1..Len(new) /\ ~(k - 1 < r) /\ (k - 1) + 1 = k
      BY <1>1, <2>2
    <3> QED
      BY <3>1 DEF Drops
  <2> QED
    BY <1>2, <2>1, <2>2
<1>3. ASSUME NEW j \in 1..Len(new)
      PROVE  /\ LET k == IF j < r THEN j ELSE j + 1 IN
                k \in 1..Len(old) /\ k # r /\ new[j] = old[k]
             /\ \E k \in 1..Len(old) : new[j] = old[k]
  <2>1. new[j] = old[IF j < r THEN j ELSE j + 1]
    BY DEF Drops
  <2>2. /\ (IF j < r THEN j ELSE j + 1) \in 1..Len(old)
        /\ (IF j < r THEN j ELSE j + 1) # r
    BY <1>1
  <2> QED
    BY <2>1, <2>2
<1> QED
  BY <1>1, <1>2, <1>3

\* The removal of one queued position.  The sockets lose an entry, the one queued
\* or past the end the last; the peers lose the one queued, if they have it.
LEMMA Removing ==
  ASSUME Shape, RemoveOne
  PROVE  /\ pc \in {"scan", "remove"} /\ todo = {} /\ todo' = {}
         /\ removals # <<>> /\ removals' = Tail(removals)
         /\ Head(removals) \in Nat
         /\ UNCHANGED <<netVars, selfHandshake, appVars>>
         /\ pc' \in {"remove", "crashed"}
         /\ polls' \in Seq(Socket) /\ peers' \in Seq(Peer)
         /\ \/ polls = <<>> /\ polls' = polls
            \/ \E r \in 1..Len(polls) :
                 /\ Drops(polls', polls, r)
                 /\ r = IF Head(removals) \in 1..Len(polls)
                        THEN Head(removals) ELSE Len(polls)
         /\ \/ /\ Head(removals) \in 1..Len(peers)
               /\ Drops(peers', peers, Head(removals))
            \/ /\ Head(removals) \notin 1..Len(peers)
               /\ peers' = peers
<1>1. /\ polls \in Seq(Socket) /\ peers \in Seq(Peer) /\ removals \in Seq(Nat)
      /\ DOMAIN polls = 1..Len(polls) /\ DOMAIN peers = 1..Len(peers)
  BY LenProperties DEF Shape, TypeOK
<1>2. /\ pc \in {"scan", "remove"} /\ todo = {} /\ todo' = {}
      /\ removals # <<>> /\ removals' = Tail(removals)
      /\ UNCHANGED <<netVars, selfHandshake, appVars>>
      /\ pc' \in {"remove", "crashed"}
      /\ ErasePolled(Head(removals))
      /\ RemovePeer(Head(removals))
  BY DEF RemoveOne
<1>3. Head(removals) \in Nat
  BY <1>1, <1>2, HeadTailProperties
<1>4. /\ polls' \in Seq(Socket)
      /\ \/ polls = <<>> /\ polls' = polls
         \/ \E r \in 1..Len(polls) :
              /\ Drops(polls', polls, r)
              /\ r = IF Head(removals) \in 1..Len(polls)
                     THEN Head(removals) ELSE Len(polls)
  <2>1. CASE Head(removals) \in 1..Len(polls)
    <3>1. polls' = RemoveAt(polls, Head(removals))
      BY <1>1, <1>2, <2>1 DEF ErasePolled
    <3> QED
      BY <1>1, <2>1, <3>1, RemoveAtDrops
  <2>2. CASE Head(removals) \notin 1..Len(polls)
    <3>1. polls' = Front(polls)
      BY <1>1, <1>2, <2>2 DEF ErasePolled
    <3> QED
      BY <1>1, <2>2, <3>1, FrontDrops
  <2> QED
    BY <2>1, <2>2
<1>5. /\ peers' \in Seq(Peer)
      /\ \/ /\ Head(removals) \in 1..Len(peers)
            /\ Drops(peers', peers, Head(removals))
         \/ /\ Head(removals) \notin 1..Len(peers)
            /\ peers' = peers
  <2>1. CASE Head(removals) \in 1..Len(peers)
    <3>1. peers' = RemoveAt(peers, Head(removals))
      BY <1>1, <1>2, <2>1 DEF RemovePeer
    <3> QED
      BY <1>1, <2>1, <3>1, RemoveAtDrops
  <2>2. CASE Head(removals) \notin 1..Len(peers)
    BY <1>1, <1>2, <2>2 DEF RemovePeer
  <2> QED
    BY <2>1, <2>2
<1> QED
  BY <1>2, <1>3, <1>4, <1>5

\* A new connection, or a failed accept(), goes to the end of both vectors.
LEMMA Accepting ==
  ASSUME Shape, Accept
  PROVE  /\ pc = "accept" /\ pc' = "assign"
         /\ uidCount \in Nat /\ uidCount' = uidCount + 1
         /\ UNCHANGED <<conn, pending, mail, removals, selfHandshake, alive,
                        starts>>
         /\ todo' \in {todo, todo \union {Len(polls) + 1}}
         /\ \E s \in Socket :
              /\ \/ s \in Backlog /\ accepted' = accepted \union {s}
                 \/ s = NoSocket /\ UNCHANGED accepted
              /\ polls' \in Seq(Socket)
              /\ peers' \in Seq(Peer)
              /\ Len(polls') = Len(polls) + 1
              /\ Len(peers') = Len(peers) + 1
              /\ \A j \in 1..Len(polls) : polls'[j] = polls[j]
              /\ \A j \in 1..Len(peers) : peers'[j] = peers[j]
              /\ polls'[Len(polls) + 1] = s
              /\ peers'[Len(peers) + 1] = NewPeer(s)
<1>1. PICK s \in Socket :
        /\ \/ s \in Backlog /\ accepted' = accepted \union {s}
           \/ s = NoSocket /\ UNCHANGED accepted
        /\ polls' = Append(polls, s)
        /\ peers' = Append(peers, NewPeer(s))
  BY DEF Accept
<1>2. /\ polls \in Seq(Socket) /\ peers \in Seq(Peer)
      /\ Len(polls) \in Nat
      /\ uidCount \in Nat
  BY LenProperties DEF Shape, TypeOK
<1>3. NewPeer(s) \in Peer
  BY DEF NewPeer, Peer
<1>4. /\ polls' \in Seq(Socket)
      /\ Len(polls') = Len(polls) + 1
      /\ \A j \in 1..Len(polls) : polls'[j] = polls[j]
      /\ polls'[Len(polls) + 1] = s
  BY <1>1, <1>2, AppendProperties
<1>5. /\ peers' \in Seq(Peer)
      /\ Len(peers') = Len(peers) + 1
      /\ \A j \in 1..Len(peers) : peers'[j] = peers[j]
      /\ peers'[Len(peers) + 1] = NewPeer(s)
  BY <1>1, <1>2, <1>3, AppendProperties
<1>6. /\ pc = "accept" /\ pc' = "assign"
      /\ uidCount' = uidCount + 1
      /\ UNCHANGED <<conn, pending, mail, removals, selfHandshake, alive,
                     starts>>
      /\ todo' \in {todo, todo \union {Len(polls) + 1}}
  BY DEF Accept
<1> QED
  BY <1>1, <1>2, <1>4, <1>5, <1>6

\* The newest peer gets its ID; nothing else of the lists changes.
LEMMA Assigning ==
  ASSUME Shape, AssignId
  PROVE  /\ pc = "assign" /\ pc' = "greet"
         /\ UNCHANGED <<netVars, polls, removals, todo, selfHandshake, appVars>>
         /\ uidCount \in Nat
         /\ Len(peers) \in 1..Len(peers)
         /\ peers' \in Seq(Peer)
         /\ Len(peers') = Len(peers)
         /\ \A j \in 1..Len(peers) :
              /\ peers'[j].sock = peers[j].sock
              /\ peers'[j].online = peers[j].online
              /\ peers'[j].threads = peers[j].threads
              /\ j # Len(peers) => peers'[j] = peers[j]
         /\ peers'[Len(peers)].uid = uidCount
<1>1. /\ peers \in Seq(Peer) /\ uidCount \in Nat /\ Len(peers) \in 1..Len(peers)
  BY EmptySeq, LenProperties DEF Shape, TypeOK, AssignId
<1> DEFINE p == [peers[Len(peers)] EXCEPT !.uid = uidCount]
<1>2. peers[Len(peers)] \in Peer
  BY <1>1, ElementOfSeq
<1>3. /\ p \in Peer
      /\ p.sock = peers[Len(peers)].sock
      /\ p.online = peers[Len(peers)].online
      /\ p.threads = peers[Len(peers)].threads
      /\ p.uid = uidCount
      /\ peers' = [peers EXCEPT ![Len(peers)] = p]
  BY <1>1, <1>2 DEF Peer, AssignId
<1> HIDE DEF p
<1>4. /\ peers' \in Seq(Peer)
      /\ Len(peers') = Len(peers)
      /\ \A j \in 1..Len(peers) :
           peers'[j] = IF j = Len(peers) THEN p ELSE peers[j]
  BY <1>1, <1>3, ExceptSeq
<1> QED
  BY <1>1, <1>3, <1>4 DEF AssignId

--------------------------------------------------------------------------------
LEMMA InitShape == Init => Shape
<1> SUFFICES ASSUME Init PROVE Shape
  OBVIOUS
<1>1. /\ <<>> \in Seq(Socket) /\ <<>> \in Seq(Peer) /\ <<>> \in Seq(Nat)
      /\ Len(<<>>) = 0 /\ DOMAIN <<>> = {}
  BY EmptySeq, LenProperties
<1>2. TypeOK
  BY <1>1 DEF Init, TypeOK, PC
<1>3. Len(polls) <= Len(peers) /\ pc = "top"
  BY <1>1 DEF Init
<1> QED
  BY <1>2, <1>3 DEF Shape

LEMMA NextShape == Shape /\ [Next]_vars => Shape'
<1> SUFFICES ASSUME Shape, [Next]_vars PROVE Shape'
  OBVIOUS
<1>0. /\ polls \in Seq(Socket) /\ peers \in Seq(Peer)
      /\ Len(polls) \in Nat /\ Len(peers) \in Nat
      /\ Len(polls) <= Len(peers)
      /\ DOMAIN polls = 1..Len(polls)
      /\ removals \in Seq(Nat)
      /\ todo \subseteq 1..Len(polls)
  BY LenProperties DEF Shape, TypeOK
<1>1. CASE UNCHANGED vars
  BY <1>1 DEF vars, Shape, TypeOK
<1>2. ASSUME NEW c \in Client, ClientStep(c) PROVE Shape'
  <2>1. /\ conn' \in [Client -> {"none", "up", "closed"}]
        /\ pending' \in [Client -> Nat]
        /\ mail' \subseteq Client
    <3>1. /\ conn \in [Client -> {"none", "up", "closed"}]
          /\ pending \in [Client -> Nat]
          /\ mail \subseteq Client
      BY DEF Shape, TypeOK
    <3>2. CASE Connect(c)
      BY <3>1, <3>2 DEF Connect
    <3>3. CASE Send(c)
      BY <3>1, <3>3 DEF Send
    <3>4. CASE Fetch(c)
      BY <3>1, <3>4 DEF Fetch
    <3>5. CASE Close(c)
      BY <3>1, <3>5 DEF Close
    <3>6. CASE Reset(c)
      BY <3>1, <3>6 DEF Reset
    <3> QED
      BY <1>2, <3>2, <3>3, <3>4, <3>5, <3>6 DEF ClientStep
  <2> QED
    BY <1>2, <2>1
    DEF ClientStep, Shape, TypeOK, listVars, appVars
<1>3. CASE StartAgain
  BY <1>3 DEF StartAgain, Shape, TypeOK, netVars, listVars
<1>4. CASE Stop
  BY <1>4 DEF Stop, Shape, TypeOK, netVars, listVars
<1>5. CASE CheckAlive
  BY <1>5 DEF CheckAlive, Shape, TypeOK, netVars, listVars,
              appVars, PC
<1>6. CASE Poll
  BY <1>6 DEF Poll, Shape, TypeOK, netVars, listVars, appVars,
              PC, ReadyPositions
<1>7. CASE Accept
  <2>1. PICK s \in Socket :
          /\ \/ s \in Backlog /\ accepted' = accepted \union {s}
             \/ s = NoSocket /\ UNCHANGED accepted
          /\ polls' \in Seq(Socket)
          /\ peers' \in Seq(Peer)
          /\ Len(polls') = Len(polls) + 1
          /\ Len(peers') = Len(peers) + 1
    BY <1>7, Accepting
  <2>2. Len(polls') <= Len(peers')
    BY <1>0, <2>1
  <2>3. todo' \subseteq DOMAIN polls'
    <3>0. todo' \in {todo, todo \union {Len(polls) + 1}}
      BY <1>7, Accepting
    <3>1. todo' \subseteq 1..(Len(polls) + 1)
      BY <1>0, <3>0
    <3>2. DOMAIN polls' = 1..(Len(polls) + 1)
      BY <2>1, LenProperties
    <3> QED
      BY <3>1, <3>2
  <2>4. accepted' \subseteq Client
    BY <2>1 DEF Backlog, Shape, TypeOK
  <2>5. TypeOK'
    BY <1>7, <2>1, <2>3, <2>4, Accepting DEF Shape, TypeOK, PC
  <2>6. peers' # <<>>
    BY <1>0, <2>1, EmptySeq
  <2> QED
    BY <2>2, <2>5, <2>6 DEF Shape
<1>12. CASE AssignId
  <2>1. /\ pc' = "greet" /\ peers' \in Seq(Peer) /\ Len(peers') = Len(peers)
        /\ Len(peers) \in 1..Len(peers)
        /\ UNCHANGED <<netVars, polls, removals, todo, selfHandshake, appVars>>
    BY <1>12, Assigning
  <2>2. peers' # <<>>
    BY <1>0, <2>1, EmptySeq
  <2> QED
    BY <2>1, <2>2 DEF Shape, TypeOK, netVars, appVars, PC
<1>8. CASE Greet
  <2>1. pc = "greet" /\ peers[Len(peers)] \in Peer
    BY <1>0, <1>8, EmptySeq, ElementOfSeq DEF Greet, Shape
  <2>2. mail' \subseteq Client /\ pc' \in {"scan", "crashed"}
    BY <1>8, <2>1, SendToEffect DEF Greet, Shape, TypeOK
  <2> QED
    BY <1>8, <2>2
    DEF Greet, Shape, TypeOK, listVars, appVars, PC
<1>9. CASE Scan
  <2>1. PICK i \in todo : Serve(i) /\ todo' = todo \ {i}
    BY <1>9 DEF Scan
  <2>2. pc = "scan" /\ UNCHANGED <<conn, accepted, polls, appVars>>
    BY <1>9 DEF Scan
  <2>3. ServeEffect(i)
    BY <2>1, <2>2, Serving
  <2>4. removals' \in Seq(Nat)
    <3>1. removals' \in {removals, Append(removals, i)}
      BY <2>3 DEF ServeEffect
    <3>2. i \in Nat
      BY <1>0, <2>1
    <3>3. Append(removals, i) \in Seq(Nat)
      BY <1>0, <3>2, AppendProperties
    <3> QED
      BY <1>0, <3>1, <3>3
  <2>5. Len(polls') <= Len(peers')
    BY <1>0, <2>2, <2>3 DEF ServeEffect
  <2>6. TypeOK'
    BY <2>1, <2>2, <2>3, <2>4 DEF ServeEffect, Shape, TypeOK, appVars, PC
  <2> QED
    BY <2>3, <2>5, <2>6 DEF Shape, ServeEffect
<1>10. CASE RemoveOne
  <2>1. /\ removals' \in Seq(Nat) /\ pc' \in {"remove", "crashed"}
        /\ polls' \in Seq(Socket) /\ peers' \in Seq(Peer)
    <3>1. /\ removals # <<>> /\ removals' = Tail(removals)
          /\ pc' \in {"remove", "crashed"}
          /\ polls' \in Seq(Socket) /\ peers' \in Seq(Peer)
      BY <1>10, Removing
    <3> QED
      BY <1>0, <3>1, HeadTailProperties
  <2>2. Len(polls') <= Len(peers')
    <3>1. CASE polls = <<>> /\ polls' = polls
      BY <1>0, <2>1, <3>1, EmptySeq, LenProperties
    <3>2. ASSUME NEW r \in 1..Len(polls), Drops(polls', polls, r)
          PROVE  Len(polls') <= Len(peers')
      <4>1. peers' = peers \/ Len(peers') = Len(peers) - 1
        BY <1>10, Removing DEF Drops
      <4>2. Len(polls') = Len(polls) - 1
        BY <3>2 DEF Drops
      <4> QED
        BY <1>0, <4>1, <4>2
    <3> QED
      BY <1>10, <3>1, <3>2, Removing
  <2>3. todo' = {} /\ UNCHANGED <<netVars, selfHandshake, appVars>>
    BY <1>10, Removing
  <2> QED
    BY <2>1, <2>2, <2>3 DEF Shape, TypeOK, netVars, appVars, PC
<1>11. CASE EndRound
  BY <1>11 DEF EndRound, Shape, TypeOK, netVars, listVars,
               appVars, PC
<1> QED
  BY <1>1, <1>2, <1>3, <1>4, <1>5, <1>6, <1>7, <1>8, <1>9, <1>10, <1>11,
     <1>12
  DEF Next, ListenThread

\* Types, a peer behind every socket and a peer to greet, in every behaviour.
THEOREM ShapeInvariant == Spec => []Shape
BY InitShape, NextShape, PTL DEF Spec

\* No step takes a variable out of its type, the removals of positions that went
\* stale and past the end included.
THEOREM HostTypes == Spec => []TypeOK
<1>1. Shape => TypeOK
  BY DEF Shape
<1> QED
  BY <1>1, ShapeInvariant, PTL

--------------------------------------------------------------------------------
\* Facts of Shape in the form the steps below use them.
LEMMA ShapeFacts ==
  ASSUME Shape
  PROVE  /\ polls \in Seq(Socket) /\ peers \in Seq(Peer)
         /\ Len(polls) \in Nat /\ Len(peers) \in Nat
         /\ Len(polls) <= Len(peers)
         /\ DOMAIN polls = 1..Len(polls) /\ DOMAIN peers = 1..Len(peers)
         /\ \A i \in 1..Len(polls) : polls[i] \in Socket
         /\ \A i \in 1..Len(peers) : peers[i] \in Peer /\ peers[i].sock \in Socket
         /\ removals \in Seq(Nat)
         /\ todo \subseteq 1..Len(polls) /\ todo \subseteq 1..Len(peers)
         /\ uidCount \in Nat /\ starts \in Nat
         /\ mail \subseteq Client /\ accepted \subseteq Client
         /\ conn \in [Client -> {"none", "up", "closed"}]
         /\ pending \in [Client -> Nat]
<1>1. /\ polls \in Seq(Socket) /\ peers \in Seq(Peer)
      /\ Len(polls) \in Nat /\ Len(peers) \in Nat
      /\ Len(polls) <= Len(peers)
      /\ DOMAIN polls = 1..Len(polls) /\ DOMAIN peers = 1..Len(peers)
  BY LenProperties DEF Shape, TypeOK
<1>2. /\ \A i \in 1..Len(polls) : polls[i] \in Socket
      /\ \A i \in 1..Len(peers) : peers[i] \in Peer
  BY <1>1, ElementOfSeq
<1>3. todo \subseteq 1..Len(polls) /\ todo \subseteq 1..Len(peers)
  BY <1>1 DEF Shape, TypeOK
<1> QED
  BY <1>1, <1>2, <1>3 DEF Shape, TypeOK, Peer

\* Which steps touch the list of sockets.
LEMMA ListSteps ==
  ASSUME [Next]_vars
  PROVE  \/ Accept
         \/ RemoveOne
         \/ UNCHANGED <<polls, accepted>>
BY DEF Next, ListenThread, vars, ClientStep, StartAgain, Stop, CheckAlive, Poll,
       AssignId, Greet, Scan, EndRound, netVars, listVars, appVars

LEMMA NextPolledOnce ==
  ASSUME Shape, PolledOnce, [Next]_vars
  PROVE  PolledOnce'
<1>0. Shape' /\ DOMAIN polls' = 1..Len(polls')
  BY NextShape, LenProperties DEF Shape, TypeOK
<1>1. CASE Accept
  <2>1. PICK s \in Socket :
          /\ \/ s \in Backlog /\ accepted' = accepted \union {s}
             \/ s = NoSocket /\ UNCHANGED accepted
          /\ Len(polls') = Len(polls) + 1
          /\ \A j \in 1..Len(polls) : polls'[j] = polls[j]
          /\ polls'[Len(polls) + 1] = s
    BY <1>1, Accepting
  <2>2. s # NoSocket => s \notin accepted /\ s \in accepted'
    BY <2>1 DEF Backlog
  <2>3. accepted \subseteq accepted'
    BY <2>1
  <2>4. ASSUME NEW i \in 1..Len(polls')
        PROVE  \/ i \in 1..Len(polls) /\ polls'[i] = polls[i]
                                      /\ polls[i] \in accepted \union {NoSocket}
               \/ i = Len(polls) + 1 /\ polls'[i] = s
    <3>1. i \in 1..Len(polls) \/ i = Len(polls) + 1
      BY <2>1, ShapeFacts
    <3> QED
      BY <2>1, <3>1, ShapeFacts DEF PolledOnce
  <2>5. \A i \in 1..Len(polls') : polls'[i] \in accepted' \union {NoSocket}
    BY <2>1, <2>2, <2>3, <2>4
  <2>6. ASSUME NEW i \in 1..Len(polls'), NEW j \in 1..Len(polls'),
               polls'[i] = polls'[j], polls'[i] # NoSocket
        PROVE  i = j
    BY <2>2, <2>4, <2>6, ShapeFacts DEF PolledOnce
  <2> QED
    BY <1>0, <2>5, <2>6 DEF PolledOnce
<1>2. CASE RemoveOne
  <2>1. accepted' = accepted
    BY <1>2, Removing DEF netVars
  <2>2. CASE polls' = polls
    BY <2>1, <2>2 DEF PolledOnce
  <2>3. ASSUME NEW r \in 1..Len(polls), Drops(polls', polls, r)
        PROVE  PolledOnce'
    <3> DEFINE k(j) == IF j < r THEN j ELSE j + 1
    <3>1. \A j \in 1..Len(polls') : /\ k(j) \in 1..Len(polls)
                                    /\ polls'[j] = polls[k(j)]
      BY <1>0, <2>3, DropFacts, ShapeFacts DEF Shape, TypeOK
    <3>2. \A i, j \in 1..Len(polls') : k(i) = k(j) => i = j
      BY <2>3, ShapeFacts
    <3> HIDE DEF k
    <3> QED
      BY <1>0, <2>1, <3>1, <3>2, ShapeFacts DEF PolledOnce
  <2> QED
    BY <1>2, <2>2, <2>3, Removing
<1>3. CASE UNCHANGED <<polls, accepted>>
  BY <1>3 DEF PolledOnce
<1> QED
  BY <1>1, <1>2, <1>3, ListSteps

\* A connection is polled at one position only, for any number of clients.
THEOREM PolledOnceInvariant == Spec => [](Shape /\ PolledOnce)
<1>1. Init => PolledOnce
  BY EmptySeq DEF Init, PolledOnce
<1> QED
  BY <1>1, InitShape, NextShape, NextPolledOnce, PTL DEF Spec

--------------------------------------------------------------------------------
\* Which steps touch the peers.
LEMMA PeerSteps ==
  ASSUME [Next]_vars
  PROVE  \/ Accept
         \/ AssignId
         \/ RemoveOne
         \/ Scan
         \/ UNCHANGED <<peers, accepted>>
BY DEF Next, ListenThread, vars, ClientStep, StartAgain, Stop, CheckAlive, Poll,
       Greet, EndRound, netVars, listVars, appVars

LEMMA ScanServes ==
  ASSUME Shape, Scan
  PROVE  /\ pc = "scan"
         /\ UNCHANGED <<conn, accepted, polls, uidCount, alive, starts>>
         /\ \E i \in todo : /\ \A j \in todo : i <= j
                            /\ ServeEffect(i)
                            /\ todo' = todo \ {i}
BY Serving DEF Scan, appVars

\* A connection has one peer at most, whatever the sockets at its position.
PeersOnce ==
  /\ \A i \in DOMAIN peers : peers[i].sock \in accepted \union {NoSocket}
  /\ \A i, j \in DOMAIN peers :
       peers[i].sock = peers[j].sock /\ peers[i].sock # NoSocket => i = j

LEMMA NextPeersOnce ==
  ASSUME Shape, PeersOnce, [Next]_vars
  PROVE  PeersOnce'
<1>0. /\ Shape' /\ DOMAIN peers' = 1..Len(peers')
      /\ \A i \in 1..Len(peers) : peers[i].sock \in accepted \union {NoSocket}
      /\ \A i, j \in 1..Len(peers) :
           peers[i].sock = peers[j].sock /\ peers[i].sock # NoSocket => i = j
  BY NextShape, LenProperties, ShapeFacts DEF Shape, TypeOK, PeersOnce
<1>1. CASE Accept
  <2>1. PICK s \in Socket :
          /\ \/ s \in Backlog /\ accepted' = accepted \union {s}
             \/ s = NoSocket /\ UNCHANGED accepted
          /\ Len(peers') = Len(peers) + 1
          /\ \A j \in 1..Len(peers) : peers'[j] = peers[j]
          /\ peers'[Len(peers) + 1] = NewPeer(s)
    BY <1>1, Accepting
  <2>2. s # NoSocket => s \notin accepted /\ s \in accepted'
    BY <2>1 DEF Backlog
  <2>3. accepted \subseteq accepted' /\ NewPeer(s).sock = s
    BY <2>1 DEF NewPeer
  <2>4. ASSUME NEW i \in 1..Len(peers')
        PROVE  \/ i \in 1..Len(peers) /\ peers'[i].sock = peers[i].sock
                                      /\ peers[i].sock \in accepted \union {NoSocket}
               \/ i = Len(peers) + 1 /\ peers'[i].sock = s
    <3>1. i \in 1..Len(peers) \/ i = Len(peers) + 1
      <4>1. Len(peers) \in Nat /\ Len(peers') = Len(peers) + 1
        BY <2>1, ShapeFacts
      <4> QED
        BY <4>1
    <3> QED
      BY <1>0, <2>1, <2>3, <3>1
  <2>5. \A i \in 1..Len(peers') : peers'[i].sock \in accepted' \union {NoSocket}
    BY <2>1, <2>2, <2>3, <2>4
  <2>6. ASSUME NEW i \in 1..Len(peers'), NEW j \in 1..Len(peers'),
               peers'[i].sock = peers'[j].sock, peers'[i].sock # NoSocket
        PROVE  i = j
    BY <1>0, <2>2, <2>4, <2>6
  <2> QED
    BY <1>0, <2>5, <2>6 DEF PeersOnce
<1>2. CASE AssignId
  <2>1. /\ Len(peers') = Len(peers) /\ accepted' = accepted
        /\ \A j \in 1..Len(peers) : peers'[j].sock = peers[j].sock
    BY <1>2, Assigning DEF netVars
  <2> QED
    BY <1>0, <2>1 DEF PeersOnce
<1>3. CASE RemoveOne
  <2>1. accepted' = accepted
    BY <1>3, Removing DEF netVars
  <2>2. CASE peers' = peers
    BY <2>1, <2>2 DEF PeersOnce
  <2>3. ASSUME NEW r \in 1..Len(peers), Drops(peers', peers, r)
        PROVE  PeersOnce'
    <3> DEFINE k(j) == IF j < r THEN j ELSE j + 1
    <3>1. \A j \in 1..Len(peers') : /\ k(j) \in 1..Len(peers)
                                    /\ peers'[j] = peers[k(j)]
      BY <1>0, <2>3, DropFacts, ShapeFacts DEF Shape, TypeOK
    <3>2. \A i, j \in 1..Len(peers') : k(i) = k(j) => i = j
      BY <2>3, ShapeFacts
    <3> HIDE DEF k
    <3>3. \A j \in 1..Len(peers') : peers'[j].sock \in accepted' \union {NoSocket}
      BY <1>0, <2>1, <3>1
    <3>4. ASSUME NEW i \in 1..Len(peers'), NEW j \in 1..Len(peers'),
                 peers'[i].sock = peers'[j].sock, peers'[i].sock # NoSocket
          PROVE  i = j
      <4>1. k(i) = k(j)
        BY <1>0, <3>1, <3>4
      <4> QED
        BY <3>2, <4>1
    <3> QED
      BY <1>0, <3>3, <3>4 DEF PeersOnce
  <2> QED
    BY <1>3, <2>2, <2>3, Removing
<1>4. CASE Scan
  <2>1. PICK i \in todo : ServeEffect(i)
    BY <1>4, ScanServes
  <2>2. accepted' = accepted
    BY <1>4, ScanServes
  <2> QED
    BY <1>0, <2>1, <2>2 DEF ServeEffect, PeersOnce
<1>5. CASE UNCHANGED <<peers, accepted>>
  BY <1>5 DEF PeersOnce
<1> QED
  BY <1>1, <1>2, <1>3, <1>4, <1>5, PeerSteps

\* The peer about to be numbered or greeted is online: it has just been created.
NewestOnline == pc \in {"assign", "greet"} => peers[Len(peers)].online

LEMMA NextNewestOnline ==
  ASSUME Shape, NewestOnline, [Next]_vars
  PROVE  NewestOnline'
<1>1. CASE Accept
  <2>1. PICK s \in Socket : /\ Len(peers') = Len(peers) + 1
                            /\ peers'[Len(peers) + 1] = NewPeer(s)
    BY <1>1, Accepting
  <2> QED
    BY <2>1 DEF NewestOnline, NewPeer
<1>2. CASE AssignId
  BY <1>2, Assigning DEF NewestOnline
<1>3. CASE RemoveOne
  BY <1>3, Removing DEF NewestOnline
<1>4. CASE Scan
  <2>1. pc' \in {"scan", "crashed"}
    BY <1>4, ScanServes DEF ServeEffect
  <2> QED
    BY <2>1 DEF NewestOnline
<1>5. CASE UNCHANGED peers /\ ~Accept /\ ~AssignId /\ ~Scan /\ ~RemoveOne
  <2>1. pc' \in {"assign", "greet"} => pc' = pc
    BY <1>5 DEF Next, ListenThread, vars, ClientStep, StartAgain, Stop,
       CheckAlive, Poll, Greet, SendTo, EndRound
  <2> QED
    BY <1>5, <2>1 DEF NewestOnline
<1> QED
  BY <1>1, <1>2, <1>3, <1>4, <1>5, PeerSteps

\* An offline peer is not answered, and its entry is not changed again.
LEMMA OfflineStep ==
  ASSUME Shape, PeersOnce, NewestOnline, [Next]_vars,
         NEW i \in DOMAIN peers, NEW j \in DOMAIN peers',
         peers[i].sock = peers'[j].sock,
         peers[i].sock # NoSocket,
         ~peers[i].online
  PROVE  peers'[j] = peers[i] /\ peers[i].sock \notin mail' \ mail
<1>0. /\ Shape'
      /\ i \in 1..Len(peers)
      /\ j \in 1..Len(peers')
      /\ peers[i].sock \in accepted
      /\ \A k \in 1..Len(peers) : peers[k].sock = peers[i].sock => k = i
  BY NextShape, LenProperties, ShapeFacts DEF Shape, TypeOK, PeersOnce
<1>1. CASE Accept
  <2>1. mail' = mail
    BY <1>1, Accepting
  <2>2. PICK s \in Socket :
          /\ \/ s \in Backlog
             \/ s = NoSocket
          /\ Len(peers') = Len(peers) + 1
          /\ \A k \in 1..Len(peers) : peers'[k] = peers[k]
          /\ peers'[Len(peers) + 1] = NewPeer(s)
    BY <1>1, Accepting
  <2>3. j # Len(peers) + 1
    <3>1. NewPeer(s).sock = s
      BY DEF NewPeer
    <3>2. s \in Backlog => s \notin accepted
      BY DEF Backlog
    <3>3. s # peers[i].sock
      BY <1>0, <2>2, <3>2
    <3> QED
      BY <1>0, <2>2, <3>1, <3>3
  <2>4. j \in 1..Len(peers)
    BY <1>0, <2>2, <2>3, ShapeFacts
  <2> QED
    BY <1>0, <2>1, <2>2, <2>4
<1>2. CASE AssignId
  <2>1. /\ pc = "assign" /\ mail' = mail
        /\ Len(peers') = Len(peers)
        /\ \A k \in 1..Len(peers) :
             /\ peers'[k].sock = peers[k].sock
             /\ k # Len(peers) => peers'[k] = peers[k]
    BY <1>2, Assigning DEF netVars
  <2>2. j = i
    BY <1>0, <2>1
  <2>3. i # Len(peers)
    BY <2>1 DEF NewestOnline
  <2> QED
    BY <1>0, <2>1, <2>2, <2>3
<1>3. CASE RemoveOne
  <2>1. mail' = mail
    BY <1>3, Removing DEF netVars
  <2>2. CASE peers' = peers
    BY <1>0, <2>1, <2>2
  <2>3. ASSUME NEW r \in 1..Len(peers), Drops(peers', peers, r)
        PROVE  peers'[j] = peers[i]
    <3>1. PICK k \in 1..Len(peers) : peers'[j] = peers[k]
      <4>1. peers \in Seq(Peer) /\ peers' \in Seq(Peer)
        BY <1>3, Removing, ShapeFacts
      <4>2. \A l \in 1..Len(peers') : \E m \in 1..Len(peers) : peers'[l] = peers[m]
        BY <2>3, <4>1, DropFacts
      <4> QED
        BY <1>0, <4>2
    <3> QED
      BY <1>0, <3>1
  <2> QED
    BY <1>3, <2>1, <2>2, <2>3, Removing
<1>4. CASE Scan
  <2>1. PICK n \in todo : ServeEffect(n)
    BY <1>4, ScanServes
  <2>2. /\ Len(peers') = Len(peers)
        /\ \A k \in 1..Len(peers) : /\ peers'[k].sock = peers[k].sock
                                    /\ k # n => peers'[k] = peers[k]
        /\ ~peers[n].online => peers'[n] = peers[n] /\ mail' = mail
        /\ mail' \subseteq mail \union {peers[n].sock}
    BY <2>1 DEF ServeEffect
  <2>3. n \in 1..Len(peers)
    BY ShapeFacts
  <2>4. j = i
    BY <1>0, <2>2
  <2> QED
    BY <1>0, <2>2, <2>3, <2>4
<1>5. CASE UNCHANGED peers /\ ~Scan
  <2>1. j = i
    BY <1>0, <1>5
  <2>2. CASE Greet
    <3>1. /\ Len(peers) \in 1..Len(peers)
          /\ peers[Len(peers)].online
      BY <2>2, EmptySeq, ShapeFacts DEF Greet, Shape, NewestOnline
    <3>2. mail' \subseteq mail \union {peers[Len(peers)].sock}
      BY <2>2, <3>1, SendToEffect, ShapeFacts DEF Greet
    <3>3. peers[Len(peers)].sock # peers[i].sock
      BY <1>0, <3>1
    <3> QED
      BY <1>0, <1>5, <2>1, <3>2, <3>3
  <2>3. CASE ~Greet
    <3>1. mail' \subseteq mail
      BY <1>5, <2>3 DEF Next, ListenThread, vars, ClientStep, Connect, Send,
         Fetch, Close, Reset, StartAgain, Stop, CheckAlive, Poll, Accept,
         AssignId, RemoveOne, EndRound, netVars
    <3> QED
      BY <1>0, <1>5, <2>1, <3>1
  <2> QED
    BY <2>2, <2>3
<1> QED
  BY <1>1, <1>2, <1>3, <1>4, <1>5, PeerSteps

\* An offline peer stays offline, unanswered and unchanged until it is removed,
\* whatever is accepted or removed around it, the vectors apart or not.
THEOREM OfflineStaysFinal == Spec => OfflineIsFinal
<1> DEFINE Inv == Shape /\ PeersOnce /\ NewestOnline
           Step == \A i \in DOMAIN peers, j \in DOMAIN peers' :
                     /\ peers[i].sock = peers'[j].sock
                     /\ peers[i].sock # NoSocket
                     /\ ~peers[i].online
                     => /\ peers'[j] = peers[i]
                        /\ peers[i].sock \notin mail' \ mail
<1>1. Init => Inv
  BY InitShape, EmptySeq DEF Init, PeersOnce, NewestOnline
<1>2. Inv /\ [Next]_vars => Inv'
  BY NextShape, NextPeersOnce, NextNewestOnline
<1>3. Inv /\ [Next]_vars => Step
  BY OfflineStep
<1> HIDE DEF Inv, Step
<1>4. Spec => [][Step]_vars
  BY <1>1, <1>2, <1>3, PTL DEF Spec
<1> QED
  BY <1>4 DEF OfflineIsFinal, Step

--------------------------------------------------------------------------------
\* Unread mail grows by the newest entry's connection in Greet, and in Scan by
\* the connection of the peer at the position whose header was read.
LEMMA MailStep ==
  ASSUME Shape, ParallelArrays, [Next]_vars, NEW c \in mail' \ mail
  PROVE  \/ pending'[c] < pending[c]
         \/ pc = "greet" /\ polls[Len(polls)] = c
<1>0. /\ Len(peers) = Len(polls)
      /\ \A i \in 1..Len(polls) : polls[i] = peers[i].sock
  BY ShapeFacts DEF ParallelArrays
<1>1. CASE Greet
  <2>1. /\ pc = "greet"
        /\ Len(peers) \in 1..Len(polls)
        /\ peers[Len(peers)].sock = polls[Len(polls)]
    BY <1>0, <1>1, EmptySeq, ShapeFacts DEF Greet, Shape
  <2>2. mail' \subseteq mail \union {peers[Len(peers)].sock}
    BY <1>0, <1>1, <2>1, SendToEffect, ShapeFacts DEF Greet
  <2> QED
    BY <2>1, <2>2
<1>2. CASE Scan
  <2>1. PICK i \in todo : ServeEffect(i)
    BY <1>2, ScanServes
  <2>2. c = polls[i] /\ c \in Client /\ mail' # mail
    BY <1>0, <2>1, ShapeFacts DEF ServeEffect
  <2>3. ReadHeader(polls[i])
    BY <2>1, <2>2 DEF ServeEffect
  <2> QED
    BY <2>2, <2>3, ReadHeaderEffect, ShapeFacts DEF Shape
<1>3. CASE ~Greet /\ ~Scan
  <2>1. mail' \subseteq mail
    BY <1>3 DEF Next, ListenThread, vars, ClientStep, Connect, Send, Fetch,
       Close, Reset, StartAgain, Stop, CheckAlive, Poll, Accept, AssignId,
       RemoveOne, EndRound, netVars
  <2> QED
    BY <2>1
<1> QED
  BY <1>1, <1>2, <1>3

\* While the vectors are parallel no answer goes to another connection than the
\* one whose header was read; only an erase past the end (VectorsPart) ends that.
THEOREM RepliesReachRequester == Spec => ReplyReachesRequester
<1> DEFINE Step == ParallelArrays =>
                     \A c \in mail' \ mail :
                       \/ pending'[c] < pending[c]
                       \/ pc = "greet" /\ polls[Len(polls)] = c
<1>1. Shape /\ [Next]_vars => Step
  BY MailStep
<1> HIDE DEF Step
<1>2. Spec => [][Step]_vars
  BY <1>1, ShapeInvariant, PTL DEF Spec
<1> QED
  BY <1>2 DEF ReplyReachesRequester, Step

--------------------------------------------------------------------------------
\* The falls among the first n entries of a list.
FallsTo(list, n) == {i \in 2..n : list[i].uid <= list[i - 1].uid}

LEMMA FallsFinite ==
  ASSUME NEW list, NEW n \in Nat
  PROVE  /\ IsFiniteSet(FallsTo(list, n))
         /\ Cardinality(FallsTo(list, n)) \in Nat
<1>1. IsFiniteSet(2..n) /\ FallsTo(list, n) \subseteq 2..n
  BY FS_Interval DEF FallsTo
<1>2. IsFiniteSet(FallsTo(list, n))
  BY <1>1, FS_Subset
<1> QED
  BY <1>2, FS_CardinalityType

\* Lists with the same IDs have the same falls.
LEMMA SameFalls ==
  ASSUME NEW n \in Nat, NEW old, NEW new,
         \A i \in 1..n : new[i].uid = old[i].uid
  PROVE  FallsTo(new, n) = FallsTo(old, n)
<1>1. \A i \in 2..n : i \in 1..n /\ i - 1 \in 1..n
  OBVIOUS
<1> QED
  BY <1>1 DEF FallsTo

\* One more entry adds one fall at most, and none if its ID is above the last.
LEMMA FallsAppended ==
  ASSUME NEW n \in Nat, NEW list
  PROVE  LET before == Cardinality(FallsTo(list, n))
             after  == Cardinality(FallsTo(list, n + 1)) IN
         /\ after <= before + 1
         /\ (n >= 1 => ~(list[n + 1].uid <= list[n].uid)) => after = before
<1>1. /\ IsFiniteSet(FallsTo(list, n))
      /\ Cardinality(FallsTo(list, n)) \in Nat
  BY FallsFinite
<1>2. CASE n >= 1 /\ list[n + 1].uid <= list[n].uid
  <2>1. FallsTo(list, n + 1) = FallsTo(list, n) \union {n + 1}
    <3>1. 2..(n + 1) = 2..n \union {n + 1} /\ (n + 1) - 1 = n
      BY <1>2
    <3> QED
      BY <1>2, <3>1 DEF FallsTo
  <2>2. n + 1 \notin FallsTo(list, n)
    BY DEF FallsTo
  <2>3. Cardinality(FallsTo(list, n + 1)) = Cardinality(FallsTo(list, n)) + 1
    BY <1>1, <2>1, <2>2, FS_AddElement
  <2> QED
    BY <1>1, <1>2, <2>3
<1>3. CASE ~(n >= 1 /\ list[n + 1].uid <= list[n].uid)
  <2>1. FallsTo(list, n + 1) = FallsTo(list, n)
    <3>1. \A i \in 2..(n + 1) : i \in 2..n \/ (i = n + 1 /\ i - 1 = n /\ n >= 1)
      OBVIOUS
    <3>2. \A i \in 2..n : i \in 2..(n + 1)
      OBVIOUS
    <3> QED
      BY <1>3, <3>1, <3>2 DEF FallsTo
  <2> QED
    BY <1>1, <1>3, <2>1
<1> QED
  BY <1>2, <1>3

\* Removing an entry adds no fall, and takes away the one that ends the list.
LEMMA FallsDropped ==
  ASSUME NEW old \in Seq(Peer), NEW new \in Seq(Peer), NEW r \in 1..Len(old),
         Drops(new, old, r)
  PROVE  LET before == Cardinality(FallsTo(old, Len(old)))
             after  == Cardinality(FallsTo(new, Len(new))) IN
         /\ after <= before
         /\ r = Len(old) /\ Len(old) >= 2 /\ old[r].uid <= old[r - 1].uid
              => after < before
<1>0. /\ Len(old) \in Nat /\ Len(new) \in Nat /\ Len(new) = Len(old) - 1
      /\ \A j \in 1..Len(new) : new[j] = old[IF j < r THEN j ELSE j + 1]
      /\ \A j \in 1..Len(old) : old[j].uid \in Nat
  <2>1. \A j \in 1..Len(old) : old[j] \in Peer
    BY ElementOfSeq
  <2> QED
    BY <2>1, DropFacts DEF Drops, Peer
<1>1. /\ IsFiniteSet(FallsTo(old, Len(old)))
      /\ Cardinality(FallsTo(old, Len(old))) \in Nat
      /\ Cardinality(FallsTo(new, Len(new))) \in Nat
  BY <1>0, FallsFinite
<1> DEFINE To(i) == IF i < r THEN i
                    ELSE IF i = r /\ old[r].uid <= old[r - 1].uid THEN r
                    ELSE i + 1
           f == [i \in FallsTo(new, Len(new)) |-> To(i)]
<1>2. ASSUME NEW i \in FallsTo(new, Len(new))
      PROVE  To(i) \in FallsTo(old, Len(old))
  <2>1. /\ i \in 2..Len(new) /\ i - 1 \in 1..Len(new) /\ i \in 1..Len(new)
        /\ new[i].uid <= new[i - 1].uid
    BY <1>0 DEF FallsTo
  <2>2. CASE i < r
    BY <1>0, <2>1, <2>2 DEF FallsTo
  <2>3. CASE i > r
    <3>1. new[i] = old[i + 1] /\ new[i - 1] = old[i]
      <4>1. ~(i < r) /\ ~(i - 1 < r) /\ (i - 1) + 1 = i
        BY <1>0, <2>1, <2>3
      <4> QED
        BY <1>0, <2>1, <4>1
    <3>2. i + 1 \in 2..Len(old) /\ (i + 1) - 1 = i
      BY <1>0, <2>1
    <3> QED
      BY <1>0, <2>1, <2>3, <3>1, <3>2 DEF FallsTo
  <2>4. CASE i = r
    <3>1. new[i] = old[r + 1] /\ new[i - 1] = old[r - 1]
      BY <1>0, <2>1, <2>4
    <3>2. /\ r + 1 \in 2..Len(old) /\ (r + 1) - 1 = r /\ r \in 2..Len(old)
          /\ r - 1 \in 1..Len(old) /\ r + 1 \in 1..Len(old)
      BY <1>0, <2>1, <2>4
    <3>3. old[r].uid <= old[r - 1].uid \/ old[r + 1].uid <= old[r].uid
      <4>1. /\ old[r].uid \in Nat /\ old[r - 1].uid \in Nat
            /\ old[r + 1].uid \in Nat
        BY <1>0, <3>2
      <4>2. old[r + 1].uid <= old[r - 1].uid
        BY <2>1, <3>1
      <4> QED
        BY <4>1, <4>2
    <3> QED
      BY <2>4, <3>2, <3>3 DEF FallsTo
  <2> QED
    BY <1>0, <2>1, <2>2, <2>3, <2>4
<1>3. ASSUME NEW i \in FallsTo(new, Len(new)), NEW j \in FallsTo(new, Len(new)),
             To(i) = To(j)
      PROVE  i = j
  <2>1. i \in Int /\ j \in Int /\ r \in Int
    BY <1>0 DEF FallsTo
  <2> QED
    BY <1>3, <2>1
<1>4. Cardinality(FallsTo(new, Len(new))) <= Cardinality(FallsTo(old, Len(old)))
  <2>1. f \in Injection(FallsTo(new, Len(new)), FallsTo(old, Len(old)))
    BY <1>2, <1>3 DEF Injection, IsInjective
  <2> QED
    BY <1>1, <2>1, FS_Injection
<1>5. ASSUME r = Len(old), Len(old) >= 2, old[r].uid <= old[r - 1].uid
      PROVE  Cardinality(FallsTo(new, Len(new)))
               < Cardinality(FallsTo(old, Len(old)))
  <2>1. r \in FallsTo(old, Len(old))
    BY <1>0, <1>5 DEF FallsTo
  <2>2. FallsTo(new, Len(new)) \subseteq FallsTo(old, Len(old)) \ {r}
    <3> SUFFICES ASSUME NEW i \in FallsTo(new, Len(new))
                 PROVE  i \in FallsTo(old, Len(old)) /\ i # r
      OBVIOUS
    <3>1. i \in 2..Len(new) /\ i < r
      BY <1>0, <1>5 DEF FallsTo
    <3> QED
      BY <1>2, <3>1
  <2>3. /\ IsFiniteSet(FallsTo(old, Len(old)) \ {r})
        /\ Cardinality(FallsTo(old, Len(old)) \ {r})
             = Cardinality(FallsTo(old, Len(old))) - 1
    BY <1>1, <2>1, FS_RemoveElement
  <2>4. Cardinality(FallsTo(new, Len(new)))
          <= Cardinality(FallsTo(old, Len(old)) \ {r})
    BY <2>2, <2>3, FS_Subset
  <2> QED
    BY <1>1, <2>3, <2>4
<1> QED
  BY <1>4, <1>5

\* The entries that have an ID, and the ID the next one would get.
Assigned == IF pc = "assign" THEN Len(peers) - 1 ELSE Len(peers)
NextUid == IF pc = "assign" THEN uidCount ELSE uidCount + 1

\* A fall that is still to come has its start() already, as has a zero greeting.
FallsBounded ==
  /\ Cardinality(FallsTo(peers, Assigned)) <= starts
  /\ Assigned >= 1 /\ NextUid <= peers[Assigned].uid
       => Cardinality(FallsTo(peers, Assigned)) < starts
  /\ pc = "greet" =>
       peers[Len(peers)].uid = uidCount \/ (uidCount = 0 /\ starts > 0)

LEMMA FallsBoundedSuffices ==
  ASSUME Shape, FallsBounded
  PROVE  UidsFallOncePerStart
<1>1. CASE pc = "assign"
  <2>1. /\ Front(peers) \in Seq(Peer) /\ Len(peers) \in 1..Len(peers)
        /\ Drops(Front(peers), peers, Len(peers)) /\ peers \in Seq(Peer)
    BY <1>1, FrontDrops, ShapeFacts DEF Shape
  <2>2. /\ Len(Front(peers)) = Len(peers) - 1 /\ Len(peers) - 1 \in Nat
        /\ \A i \in 1..(Len(peers) - 1) : Front(peers)[i] = peers[i]
    <3>1. Len(peers) \in Nat /\ Len(peers) \in 1..Len(peers)
      BY <2>1, ShapeFacts
    <3>2. /\ Len(Front(peers)) = Len(peers) - 1
          /\ \A i \in 1..Len(Front(peers)) :
               Front(peers)[i] = peers[IF i < Len(peers) THEN i ELSE i + 1]
      BY <2>1 DEF Drops
    <3> QED
      BY <3>1, <3>2
  <2>3. Falls(Front(peers)) = FallsTo(peers, Len(peers) - 1)
    <3>1. Falls(Front(peers)) = FallsTo(Front(peers), Len(peers) - 1)
      BY <2>2 DEF Falls, FallsTo
    <3> QED
      BY <2>2, <3>1, SameFalls
  <2> QED
    BY <1>1, <2>3 DEF FallsBounded, UidsFallOncePerStart, Assigned
<1>2. CASE pc # "assign"
  BY <1>2 DEF FallsBounded, UidsFallOncePerStart, Assigned, Falls, FallsTo
<1> QED
  BY <1>1, <1>2

LEMMA NextFallsBounded ==
  ASSUME Shape, FallsBounded, [Next]_vars
  PROVE  FallsBounded'
<1>0. /\ uidCount \in Nat /\ starts \in Nat /\ Len(peers) \in Nat
      /\ \A i \in 1..Len(peers) : peers[i].uid \in Nat
      /\ Assigned \in Nat
      /\ Cardinality(FallsTo(peers, Assigned)) \in Nat
  <2>1. /\ uidCount \in Nat /\ starts \in Nat /\ Len(peers) \in Nat
        /\ \A i \in 1..Len(peers) : peers[i].uid \in Nat
    BY ShapeFacts DEF Peer
  <2>2. Assigned \in Nat
    BY <2>1, EmptySeq, ShapeFacts DEF Shape, Assigned
  <2> QED
    BY <2>1, <2>2, FallsFinite
<1>1. CASE Accept
  <2>1. /\ pc = "accept" /\ pc' = "assign"
        /\ uidCount' = uidCount + 1 /\ starts' = starts
        /\ Len(peers') = Len(peers) + 1
        /\ \A j \in 1..Len(peers) : peers'[j] = peers[j]
    BY <1>1, Accepting
  <2>2. Assigned' = Len(peers) /\ Assigned = Len(peers) /\ NextUid' = NextUid
    BY <1>0, <2>1 DEF Assigned, NextUid
  <2>3. FallsTo(peers', Len(peers)) = FallsTo(peers, Len(peers))
    BY <1>0, <2>1, SameFalls
  <2>4. Len(peers) >= 1 => peers'[Len(peers)] = peers[Len(peers)]
    BY <1>0, <2>1
  <2> QED
    BY <2>1, <2>2, <2>3, <2>4 DEF FallsBounded
<1>2. CASE AssignId
  <2>1. /\ pc = "assign" /\ pc' = "greet"
        /\ uidCount' = uidCount /\ starts' = starts
        /\ Len(peers) \in 1..Len(peers)
        /\ Len(peers') = Len(peers)
        /\ \A j \in 1..Len(peers) : j # Len(peers) => peers'[j] = peers[j]
        /\ peers'[Len(peers)].uid = uidCount
    BY <1>2, Assigning DEF appVars
  <2> DEFINE n == Len(peers) - 1
  <2>2. /\ n \in Nat /\ n + 1 = Len(peers)
        /\ Assigned = n /\ Assigned' = n + 1
        /\ NextUid = uidCount /\ NextUid' = uidCount + 1
    BY <1>0, <2>1 DEF Assigned, NextUid
  <2> HIDE DEF n
  <2>3. \A j \in 1..n : peers'[j] = peers[j]
    BY <1>0, <2>1, <2>2
  <2>4. FallsTo(peers', n) = FallsTo(peers, n)
    BY <2>2, <2>3, SameFalls
  <2>5. /\ Cardinality(FallsTo(peers', n + 1)) <= Cardinality(FallsTo(peers, n)) + 1
        /\ (n >= 1 => ~(uidCount <= peers[n].uid))
             => Cardinality(FallsTo(peers', n + 1)) = Cardinality(FallsTo(peers, n))
    <3>1. n >= 1 => peers'[n] = peers[n]
      BY <2>2, <2>3
    <3>2. peers'[n + 1].uid = uidCount
      BY <2>1, <2>2
    <3>3. LET before == Cardinality(FallsTo(peers', n))
              after  == Cardinality(FallsTo(peers', n + 1)) IN
          /\ after <= before + 1
          /\ (n >= 1 => ~(peers'[n + 1].uid <= peers'[n].uid)) => after = before
      BY <2>2, FallsAppended
    <3> QED
      BY <2>4, <3>1, <3>2, <3>3
  <2>6. Cardinality(FallsTo(peers, n)) \in Nat
        /\ Cardinality(FallsTo(peers', n + 1)) \in Nat
    BY <2>2, FallsFinite
  <2>7. Cardinality(FallsTo(peers', n + 1)) <= starts
    <3>1. CASE n >= 1 /\ uidCount <= peers[n].uid
      BY <1>0, <2>2, <2>5, <2>6, <3>1 DEF FallsBounded
    <3>2. CASE ~(n >= 1 /\ uidCount <= peers[n].uid)
      BY <1>0, <2>2, <2>5, <2>6, <3>2 DEF FallsBounded
    <3> QED
      BY <3>1, <3>2
  <2>8. ~(NextUid' <= peers'[Assigned'].uid)
    BY <1>0, <2>1, <2>2
  <2> QED
    BY <2>1, <2>2, <2>7, <2>8 DEF FallsBounded
<1>3. CASE RemoveOne
  <2>1. /\ pc \in {"scan", "remove"} /\ pc' \in {"remove", "crashed"}
        /\ uidCount' = uidCount /\ starts' = starts
        /\ Assigned = Len(peers) /\ Assigned' = Len(peers')
        /\ NextUid = uidCount + 1 /\ NextUid' = uidCount + 1
    <3>1. /\ pc \in {"scan", "remove"} /\ pc' \in {"remove", "crashed"}
          /\ uidCount' = uidCount /\ starts' = starts
      BY <1>3, Removing DEF appVars
    <3> QED
      BY <3>1 DEF Assigned, NextUid
  <2>2. CASE peers' = peers
    BY <2>1, <2>2 DEF FallsBounded
  <2>3. ASSUME NEW r \in 1..Len(peers), Drops(peers', peers, r)
        PROVE  FallsBounded'
    <3>1. peers \in Seq(Peer) /\ peers' \in Seq(Peer)
      BY <1>3, Removing, ShapeFacts
    <3>2. /\ Len(peers') \in Nat /\ Len(peers') = Len(peers) - 1
          /\ \A j \in 1..Len(peers') : peers'[j] = peers[IF j < r THEN j ELSE j + 1]
      BY <2>3, <3>1, DropFacts
    <3>3. LET before == Cardinality(FallsTo(peers, Len(peers)))
              after  == Cardinality(FallsTo(peers', Len(peers'))) IN
          /\ after <= before
          /\ r = Len(peers) /\ Len(peers) >= 2 /\ peers[r].uid <= peers[r - 1].uid
               => after < before
      BY <2>3, <3>1, FallsDropped
    <3>4. /\ Cardinality(FallsTo(peers, Len(peers))) \in Nat
          /\ Cardinality(FallsTo(peers', Len(peers'))) \in Nat
      BY <1>0, <3>2, FallsFinite
    <3>5. /\ Cardinality(FallsTo(peers, Len(peers))) <= starts
          /\ Len(peers) >= 1 /\ uidCount + 1 <= peers[Len(peers)].uid
               => Cardinality(FallsTo(peers, Len(peers))) < starts
      BY <2>1 DEF FallsBounded
    <3>6. ASSUME Len(peers') >= 1, uidCount + 1 <= peers'[Len(peers')].uid
          PROVE  Cardinality(FallsTo(peers', Len(peers'))) < starts
      <4>1. CASE r # Len(peers)
        <5>1. peers'[Len(peers')] = peers[Len(peers)]
          <6>1. Len(peers') \in 1..Len(peers') /\ ~(Len(peers') < r)
                /\ Len(peers') + 1 = Len(peers)
            BY <1>0, <3>2, <3>6, <4>1
          <6> QED
            BY <3>2, <6>1
        <5> QED
          BY <1>0, <3>2, <3>3, <3>4, <3>5, <3>6, <5>1
      <4>2. CASE r = Len(peers)
        <5>1. /\ peers'[Len(peers')] = peers[r - 1] /\ Len(peers) >= 2
              /\ r \in 1..Len(peers) /\ r - 1 \in 1..Len(peers)
          <6>1. Len(peers') \in 1..Len(peers') /\ Len(peers') < r
                /\ Len(peers') = r - 1
            BY <1>0, <3>2, <3>6, <4>2
          <6> QED
            BY <1>0, <3>2, <6>1
        <5>2. CASE peers[r].uid <= peers[r - 1].uid
          BY <1>0, <3>3, <3>4, <3>5, <4>2, <5>1, <5>2
        <5>3. CASE ~(peers[r].uid <= peers[r - 1].uid)
          <6>1. uidCount + 1 <= peers[r].uid
            BY <1>0, <3>6, <5>1, <5>3
          <6> QED
            BY <1>0, <3>3, <3>4, <3>5, <4>2, <5>1, <6>1
        <5> QED
          BY <5>2, <5>3
      <4> QED
        BY <4>1, <4>2
    <3>7. Cardinality(FallsTo(peers', Len(peers'))) <= starts
      BY <1>0, <3>3, <3>4, <3>5
    <3> QED
      BY <2>1, <3>6, <3>7 DEF FallsBounded
  <2> QED
    BY <1>3, <2>2, <2>3, Removing
<1>4. CASE Scan
  <2>1. PICK i \in todo : ServeEffect(i)
    BY <1>4, ScanServes
  <2>2. /\ Len(peers') = Len(peers)
        /\ \A j \in 1..Len(peers) : peers'[j].uid = peers[j].uid
        /\ pc = "scan" /\ pc' \in {"scan", "crashed"}
        /\ uidCount' = uidCount /\ starts' = starts
    BY <1>4, <2>1, ScanServes DEF ServeEffect
  <2>3. /\ Assigned = Len(peers) /\ Assigned' = Len(peers)
        /\ NextUid' = NextUid
    BY <2>2 DEF Assigned, NextUid
  <2>4. FallsTo(peers', Len(peers)) = FallsTo(peers, Len(peers))
    BY <1>0, <2>2, SameFalls
  <2>5. Len(peers) >= 1 => peers'[Len(peers)].uid = peers[Len(peers)].uid
    BY <1>0, <2>2
  <2> QED
    BY <2>2, <2>3, <2>4, <2>5 DEF FallsBounded
<1>5. CASE StartAgain
  <2>1. /\ UNCHANGED <<peers, pc>> /\ starts' = starts + 1
        /\ uidCount' = uidCount \/ uidCount' = 0
    BY <1>5 DEF StartAgain, listVars
  <2>2. Assigned' = Assigned
    BY <2>1 DEF Assigned
  <2>3. Cardinality(FallsTo(peers, Assigned)) < starts'
    BY <1>0, <2>1 DEF FallsBounded
  <2>4. pc = "greet" =>
          peers[Len(peers)].uid = uidCount' \/ (uidCount' = 0 /\ starts' > 0)
    BY <1>0, <2>1 DEF FallsBounded
  <2> QED
    BY <1>0, <2>1, <2>2, <2>3, <2>4 DEF FallsBounded
<1>6. CASE /\ UNCHANGED peers
           /\ ~Accept /\ ~AssignId /\ ~RemoveOne /\ ~Scan /\ ~StartAgain
  <2>1. /\ UNCHANGED <<uidCount, starts>>
        /\ pc' \in {"assign", "greet"} => pc' = pc
        /\ pc' # "assign" => pc # "assign"
    BY <1>6 DEF Next, ListenThread, vars, ClientStep, Stop, CheckAlive, Poll,
       Greet, SendTo, EndRound, appVars
  <2>2. Assigned' = Assigned /\ NextUid' = NextUid
    BY <1>6, <2>1 DEF Assigned, NextUid
  <2> QED
    BY <1>6, <2>1, <2>2 DEF FallsBounded
<1> QED
  BY <1>1, <1>2, <1>3, <1>4, <1>5, <1>6, PeerSteps

\* Each further start() makes the IDs fall at one place at most, wherever in an
\* accept it comes and however many peers come and go; with none, the IDs are in
\* the order of connection.
THEOREM IdsFallOncePerStart == Spec => []UidsFallOncePerStart
<1>1. Init => FallsBounded
  <2> SUFFICES ASSUME Init PROVE FallsBounded
    OBVIOUS
  <2>1. peers = <<>> /\ Len(peers) = 0 /\ pc = "top" /\ starts = 0
    BY EmptySeq DEF Init
  <2>2. FallsTo(peers, 0) = {}
    BY DEF FallsTo
  <2> QED
    BY <2>1, <2>2, FS_EmptySet DEF FallsBounded, Assigned
<1>2. Shape /\ FallsBounded /\ [Next]_vars => Shape' /\ FallsBounded'
  BY NextShape, NextFallsBounded
<1>3. Shape /\ FallsBounded => UidsFallOncePerStart
  BY FallsBoundedSuffices
<1> QED
  BY <1>1, <1>2, <1>3, InitShape, PTL DEF Spec

--------------------------------------------------------------------------------
\* What poll() reported is still readable while the new connection is accepted.
FreshReady == pc = "accept" => \A i \in todo : Ready(polls[i])

\* A connection that is readable stays so in every step but its own read().
LEMMA StaysReady ==
  ASSUME Shape, [Next]_vars, NEW s \in Socket, Ready(s)
  PROVE  \/ Ready(s)'
         \/ Scan /\ \E i \in todo : polls[i] = s /\ ServeEffect(i)
                                    /\ todo' = todo \ {i}
<1>0. /\ conn \in [Client -> {"none", "up", "closed"}]
      /\ pending \in [Client -> Nat]
      /\ s \in Client
      /\ s # NoSocket
  BY ShapeFacts DEF Ready, Socket
<1>1. ASSUME NEW c \in Client, ClientStep(c) PROVE Ready(s)'
  <2>1. CASE Connect(c)
    BY <1>0, <2>1 DEF Connect, Ready
  <2>2. CASE Send(c)
    BY <1>0, <2>2 DEF Send, Ready
  <2>3. CASE Fetch(c)
    BY <1>0, <2>3 DEF Fetch, Ready
  <2>4. CASE Close(c)
    BY <1>0, <2>4 DEF Close, Ready
  <2>5. CASE Reset(c)
    BY <1>0, <2>5 DEF Reset, Ready
  <2> QED
    BY <1>1, <2>1, <2>2, <2>3, <2>4, <2>5 DEF ClientStep
<1>2. CASE Scan
  <2>1. PICK i \in todo : ServeEffect(i) /\ todo' = todo \ {i}
    BY <1>2, ScanServes
  <2>2. conn' = conn
    BY <1>2, ScanServes
  <2>3. CASE polls[i] = s
    BY <1>2, <2>1, <2>3
  <2>4. CASE polls[i] # s
    <3>1. pending'[s] = pending[s]
      <4>1. CASE ReadHeader(polls[i])
        BY <1>0, <2>4, <4>1, ReadHeaderEffect, ShapeFacts DEF Shape
      <4>2. CASE pending' = pending
        BY <4>2
      <4> QED
        BY <2>1, <4>1, <4>2 DEF ServeEffect
    <3> QED
      BY <2>2, <3>1 DEF Ready
  <2> QED
    BY <2>3, <2>4
<1>3. CASE UNCHANGED <<conn, pending>>
  BY <1>3 DEF Ready
<1> QED
  BY <1>1, <1>2, <1>3
  DEF Next, ListenThread, vars, StartAgain, Stop, CheckAlive, Poll, Accept,
      AssignId, Greet, RemoveOne, EndRound, netVars

LEMMA NextBlocks ==
  ASSUME Shape, PolledOnce, FreshReady, BlocksOnlyOnNewest, [Next]_vars
  PROVE  FreshReady' /\ BlocksOnlyOnNewest'
<1>1. CASE Poll
  <2>1. /\ polls' = polls /\ conn' = conn /\ pending' = pending
        /\ \A i \in todo' : Ready(polls[i])
    BY <1>1 DEF Poll, ReadyPositions, netVars, listVars
  <2> QED
    BY <2>1 DEF FreshReady, BlocksOnlyOnNewest, Ready
<1>2. CASE Accept
  <2>1. /\ pc' = "assign"
        /\ todo' \in {todo, todo \union {Len(polls) + 1}}
        /\ UNCHANGED <<conn, pending>>
        /\ \A i \in todo : Ready(polls[i])
    BY <1>2, Accepting DEF FreshReady
  <2>2. /\ Len(polls') = Len(polls) + 1
        /\ \A j \in 1..Len(polls) : polls'[j] = polls[j]
    BY <1>2, Accepting
  <2>3. ASSUME NEW i \in todo', i < Len(polls') PROVE Ready(polls[i])'
    <3>1. i \in todo
      BY <2>1, <2>2, <2>3, ShapeFacts
    <3> QED
      BY <2>1, <2>2, <3>1, ShapeFacts DEF Ready
  <2> QED
    BY <2>1, <2>3 DEF FreshReady, BlocksOnlyOnNewest, Ready
<1>3. CASE RemoveOne
  BY <1>3, Removing DEF FreshReady, BlocksOnlyOnNewest
<1>4. CASE Scan
  <2>1. PICK n \in todo : ServeEffect(n) /\ todo' = todo \ {n}
    BY <1>4, ScanServes
  <2>2. UNCHANGED <<polls, conn>> /\ pc' # "accept"
    BY <1>4, <2>1, ScanServes DEF ServeEffect
  <2>3. ASSUME NEW i \in todo', i < Len(polls) PROVE Ready(polls[i])'
    <3>1. i \in todo /\ i # n /\ Ready(polls[i])
      BY <2>1, <2>3 DEF BlocksOnlyOnNewest
    <3>2. polls[i] # polls[n] /\ polls[i] \in Socket
      BY <3>1, ShapeFacts DEF PolledOnce, Ready
    <3>3. pending'[polls[i]] = pending[polls[i]]
      <4>1. CASE ReadHeader(polls[n])
        <5>1. polls[i] \in Client /\ polls[n] \in Socket
          BY <3>1, <3>2, ShapeFacts DEF Ready, Socket
        <5> QED
          BY <3>2, <4>1, <5>1, ReadHeaderEffect DEF Shape
      <4>2. CASE pending' = pending
        BY <4>2
      <4> QED
        BY <2>1, <4>1, <4>2 DEF ServeEffect
    <3> QED
      BY <2>2, <3>1, <3>3 DEF Ready
  <2> QED
    BY <2>2, <2>3 DEF FreshReady, BlocksOnlyOnNewest, Ready
<1>5. CASE ~Poll /\ ~Accept /\ ~RemoveOne /\ ~Scan
  <2>1. /\ polls' = polls /\ todo' = todo
        /\ pc' = "accept" => pc = "accept"
    BY <1>5 DEF Next, ListenThread, vars, ClientStep, StartAgain, Stop,
       CheckAlive, AssignId, Greet, SendTo, EndRound, listVars
  <2>2. ASSUME NEW i \in todo, Ready(polls[i]) PROVE Ready(polls[i])'
    BY <1>5, <2>1, <2>2, StaysReady, ShapeFacts
  <2> QED
    BY <2>1, <2>2 DEF FreshReady, BlocksOnlyOnNewest, Ready
<1> QED
  BY <1>1, <1>2, <1>3, <1>4, <1>5

\* Only the newest entry can make the scan wait in read(), for every number of
\* clients and whatever they do between poll() and the read().
THEOREM ScanBlocksOnlyOnNewest == Spec => []BlocksOnlyOnNewest
<1>1. Init => PolledOnce /\ FreshReady /\ BlocksOnlyOnNewest
  BY EmptySeq DEF Init, PolledOnce, FreshReady, BlocksOnlyOnNewest
<1>2. Init => Shape
  BY InitShape
<1>3. Shape /\ PolledOnce /\ FreshReady /\ BlocksOnlyOnNewest /\ [Next]_vars
        => Shape' /\ PolledOnce' /\ FreshReady' /\ BlocksOnlyOnNewest'
  BY NextShape, NextPolledOnce, NextBlocks
<1> QED
  BY <1>1, <1>2, <1>3, PTL DEF Spec

--------------------------------------------------------------------------------
\* A connection at its end stays at its end.
LEMMA EndIsFinal ==
  ASSUME Shape, [Next]_vars, NEW s \in Socket, AtEnd(s)
  PROVE  AtEnd(s)'
<1>0. /\ conn \in [Client -> {"none", "up", "closed"}]
      /\ pending \in [Client -> Nat]
      /\ s \in Client /\ s # NoSocket
      /\ conn[s] = "closed" /\ pending[s] = 0
  BY ShapeFacts DEF AtEnd, Socket
<1>1. ASSUME NEW c \in Client, ClientStep(c) PROVE AtEnd(s)'
  <2>1. CASE Connect(c)
    BY <1>0, <2>1 DEF Connect, AtEnd
  <2>2. CASE Send(c)
    BY <1>0, <2>2 DEF Send, AtEnd
  <2>3. CASE Fetch(c)
    BY <1>0, <2>3 DEF Fetch, AtEnd
  <2>4. CASE Close(c)
    BY <1>0, <2>4 DEF Close, AtEnd
  <2>5. CASE Reset(c)
    BY <1>0, <2>5 DEF Reset, AtEnd
  <2> QED
    BY <1>1, <2>1, <2>2, <2>3, <2>4, <2>5 DEF ClientStep
<1>2. CASE Scan
  <2>1. PICK i \in todo : ServeEffect(i)
    BY <1>2, ScanServes
  <2>2. conn' = conn
    BY <1>2, ScanServes
  <2>3. pending'[s] = pending[s]
    <3>1. CASE HasHeader(polls[i]) /\ ReadHeader(polls[i])
      <4>1. polls[i] # s
        BY <1>0, <3>1 DEF HasHeader
      <4> QED
        BY <1>0, <3>1, <4>1, ReadHeaderEffect, ShapeFacts DEF Shape
    <3>2. CASE pending' = pending
      BY <3>2
    <3> QED
      BY <2>1, <3>1, <3>2 DEF ServeEffect
  <2> QED
    BY <1>0, <2>2, <2>3 DEF AtEnd
<1>3. CASE UNCHANGED <<conn, pending>>
  BY <1>3 DEF AtEnd
<1> QED
  BY <1>1, <1>2, <1>3
  DEF Next, ListenThread, vars, StartAgain, Stop, CheckAlive, Poll, Accept,
      AssignId, Greet, RemoveOne, EndRound, netVars

\* The queue during the scan, without the empty queue between rounds.
Queued ==
  /\ \A k \in DOMAIN removals :
       /\ removals[k] \in DOMAIN polls
       /\ ~peers[removals[k]].online
       /\ AtEnd(polls[removals[k]])
       /\ \A i \in todo : removals[k] < i
  /\ \A k, l \in DOMAIN removals : k < l => removals[k] < removals[l]

Idle == {"top", "poll", "accept", "assign", "greet", "exited"}

LEMMA QueueParts ==
  QueuedAreGone <=> (pc = "scan" => Queued) /\ (pc \in Idle => removals = <<>>)
BY DEF QueuedAreGone, Queued, Idle

\* The same after the step, for a connection named before it.
EndAfter(s) == s # NoSocket /\ pending'[s] = 0 /\ conn'[s] = "closed"

LEMMA EndsStay ==
  ASSUME Shape, [Next]_vars
  PROVE  \A s \in Socket : AtEnd(s) => EndAfter(s)
BY EndIsFinal DEF AtEnd, EndAfter

LEMMA QueuedNext ==
  ASSUME \A k \in DOMAIN removals' :
           /\ removals'[k] \in DOMAIN polls'
           /\ ~peers'[removals'[k]].online
           /\ EndAfter(polls'[removals'[k]])
           /\ \A i \in todo' : removals'[k] < i,
         \A k, l \in DOMAIN removals' : k < l => removals'[k] < removals'[l]
  PROVE  Queued'
BY DEF Queued, AtEnd, EndAfter

\* Serving the first position left to scan keeps the queue in order.
LEMMA ScanQueued ==
  ASSUME Shape, Queued, [Next]_vars, Scan
  PROVE  Queued'
<1>0. /\ removals \in Seq(Nat) /\ Len(removals) \in Nat
      /\ DOMAIN removals = 1..Len(removals)
      /\ DOMAIN polls = 1..Len(polls)
      /\ \A j \in 1..Len(polls) : j \in 1..Len(peers)
      /\ todo \subseteq 1..Len(polls)
      /\ Len(polls) \in Nat
      /\ \A j \in 1..Len(polls) : polls[j] \in Socket
  BY LenProperties, ShapeFacts
<1>1. PICK i \in todo : /\ \A j \in todo : i <= j
                        /\ ServeEffect(i)
                        /\ todo' = todo \ {i}
  BY ScanServes
<1>2. polls' = polls
  BY ScanServes
<1>3. /\ peers' \in Seq(Peer)
      /\ Len(peers') = Len(peers)
      /\ \A j \in 1..Len(peers) : ~peers[j].online => ~peers'[j].online
      /\ \/ removals' = removals
         \/ AtEnd(polls[i]) /\ removals' = Append(removals, i)
                            /\ ~peers'[i].online
  BY <1>1 DEF ServeEffect
<1>4. DOMAIN polls' = 1..Len(polls)
  BY <1>0, <1>2
<1>5. ASSUME NEW k \in 1..Len(removals)
      PROVE  /\ removals[k] \in 1..Len(polls)
             /\ ~peers'[removals[k]].online
             /\ EndAfter(polls[removals[k]])
             /\ \A j \in todo : removals[k] < j
  <2>1. /\ removals[k] \in 1..Len(polls)
        /\ ~peers[removals[k]].online
        /\ AtEnd(polls[removals[k]])
        /\ \A j \in todo : removals[k] < j
    BY <1>0 DEF Queued
  <2> QED
    BY <1>0, <1>3, <2>1, EndsStay
<1>6. \A k, l \in 1..Len(removals) : k < l => removals[k] < removals[l]
  BY <1>0 DEF Queued
<1>7. CASE removals' = removals
  BY <1>0, <1>1, <1>2, <1>4, <1>5, <1>6, <1>7, QueuedNext
<1>8. CASE AtEnd(polls[i]) /\ removals' = Append(removals, i)
                           /\ ~peers'[i].online
  <2>1. i \in Nat /\ i \in 1..Len(polls)
    BY <1>0
  <2>2. /\ Append(removals, i) \in Seq(Nat)
        /\ Len(Append(removals, i)) = Len(removals) + 1
        /\ \A k \in 1..Len(removals) : Append(removals, i)[k] = removals[k]
        /\ Append(removals, i)[Len(removals) + 1] = i
    BY <1>0, <2>1, AppendProperties
  <2>3. DOMAIN removals' = 1..(Len(removals) + 1)
    BY <1>8, <2>2, LenProperties
  <2>4. EndAfter(polls[i])
    BY <1>0, <1>8, <2>1, EndsStay
  <2>5. ASSUME NEW k \in DOMAIN removals'
        PROVE  \/ k \in 1..Len(removals) /\ removals'[k] = removals[k]
               \/ k = Len(removals) + 1 /\ removals'[k] = i
    BY <1>0, <1>8, <2>2, <2>3
  <2>6. ASSUME NEW k \in DOMAIN removals'
        PROVE  /\ removals'[k] \in DOMAIN polls'
               /\ ~peers'[removals'[k]].online
               /\ EndAfter(polls'[removals'[k]])
               /\ \A j \in todo' : removals'[k] < j
    <3>1. CASE k \in 1..Len(removals) /\ removals'[k] = removals[k]
      BY <1>1, <1>2, <1>4, <1>5, <3>1
    <3>2. CASE removals'[k] = i
      <4>1. \A j \in todo' : i < j
        BY <1>0, <1>1
      <4> QED
        BY <1>2, <1>4, <1>8, <2>1, <2>4, <3>2, <4>1
    <3> QED
      BY <2>5, <3>1, <3>2
  <2>7. ASSUME NEW k \in DOMAIN removals', NEW l \in DOMAIN removals', k < l
        PROVE  removals'[k] < removals'[l]
    <3>1. k \in 1..Len(removals) /\ removals'[k] = removals[k]
      BY <1>0, <2>3, <2>5, <2>7
    <3>2. CASE l \in 1..Len(removals) /\ removals'[l] = removals[l]
      BY <1>6, <2>7, <3>1, <3>2
    <3>3. CASE removals'[l] = i
      BY <1>5, <3>1, <3>3
    <3> QED
      BY <2>5, <3>2, <3>3
  <2> QED
    BY <2>6, <2>7, QueuedNext
<1> QED
  BY <1>3, <1>7, <1>8

LEMMA NextQueuedAreGone ==
  ASSUME Shape, QueuedAreGone, [Next]_vars
  PROVE  QueuedAreGone'
<1>0. /\ pc = "scan" => Queued
      /\ pc \in Idle => removals = <<>>
  BY QueueParts
<1> SUFFICES /\ pc' = "scan" => Queued'
             /\ pc' \in Idle => removals' = <<>>
  BY DEF QueuedAreGone, Queued, Idle
<1>1. CASE Scan
  <2>1. pc = "scan" /\ pc' \in {"scan", "crashed"}
    BY <1>1, ScanServes DEF ServeEffect
  <2> QED
    BY <1>0, <1>1, <2>1, ScanQueued DEF Idle
<1>2. CASE RemoveOne
  BY <1>2, Removing DEF Idle
<1>3. CASE EndRound
  BY <1>3 DEF EndRound, Idle, listVars
<1>4. CASE Poll \/ CheckAlive \/ Accept \/ AssignId \/ Greet
  <2>1. pc \in Idle /\ removals' = removals
    BY <1>4 DEF Poll, CheckAlive, Accept, AssignId, Greet, Idle, listVars
  <2>2. removals' = <<>>
    BY <1>0, <2>1
  <2>3. Queued'
    BY <2>2, EmptySeq DEF Queued
  <2> QED
    BY <2>2, <2>3
<1>5. CASE /\ ~Scan /\ ~RemoveOne /\ ~EndRound
           /\ ~Poll /\ ~CheckAlive /\ ~Accept /\ ~AssignId /\ ~Greet
  <2>1. UNCHANGED <<pc, removals, peers, polls, todo>>
    BY <1>5 DEF Next, ListenThread, vars, ClientStep, StartAgain, Stop, listVars
  <2>2. pc = "scan" => Queued'
    <3> SUFFICES ASSUME pc = "scan" PROVE Queued'
      OBVIOUS
    <3>1. \A k \in DOMAIN removals :
            /\ removals[k] \in DOMAIN polls
            /\ ~peers[removals[k]].online
            /\ EndAfter(polls[removals[k]])
            /\ \A i \in todo : removals[k] < i
      BY <1>0, EndsStay, ShapeFacts DEF Queued
    <3>2. \A k, l \in DOMAIN removals : k < l => removals[k] < removals[l]
      BY <1>0 DEF Queued
    <3> QED
      BY <2>1, <3>1, <3>2, QueuedNext
  <2> QED
    BY <1>0, <2>1, <2>2
<1> QED
  BY <1>1, <1>2, <1>3, <1>4, <1>5

\* While the scan runs, the queue names only disconnected peers, in list order:
\* what the first removal of a round erases is what was queued.
THEOREM QueueNamesTheGone == Spec => []QueuedAreGone
<1>1. Init => QueuedAreGone
  BY EmptySeq DEF Init, QueuedAreGone
<1>2. Shape /\ QueuedAreGone /\ [Next]_vars => Shape' /\ QueuedAreGone'
  BY NextShape, NextQueuedAreGone
<1> QED
  BY <1>1, <1>2, InitShape, PTL DEF Spec

--------------------------------------------------------------------------------
\* Strictly increasing positions of a list of n are n at most; n of them are all.
LEMMA Positions ==
  ASSUME NEW n \in Nat, NEW q \in Seq(Nat),
         \A k \in DOMAIN q : q[k] \in 1..n,
         \A k, l \in DOMAIN q : k < l => q[k] < q[l]
  PROVE  /\ Len(q) <= n
         /\ Len(q) = n => \A j \in 1..n : \E k \in DOMAIN q : q[k] = j
<1>1. /\ Len(q) \in Nat /\ DOMAIN q = 1..Len(q)
      /\ \A k \in 1..Len(q) : q[k] \in Nat
      /\ q \in [1..Len(q) -> Nat]
  BY LenProperties, ElementOfSeq
<1>2. q \in [1..Len(q) -> 1..n]
  BY <1>1
<1>3. ASSUME NEW k \in 1..Len(q), NEW l \in 1..Len(q), q[k] = q[l]
      PROVE  k = l
  <2>1. k < l => q[k] < q[l]
    BY <1>1
  <2>2. l < k => q[l] < q[k]
    BY <1>1
  <2> QED
    BY <1>1, <1>3, <2>1, <2>2
<1>4. q \in Injection(1..Len(q), 1..n)
  BY <1>2, <1>3 DEF Injection, IsInjective
<1>5. /\ IsFiniteSet(1..n)
      /\ Cardinality(1..n) = n /\ Cardinality(1..Len(q)) = Len(q)
  <2>1. \A m \in Nat : IsFiniteSet(1..m) /\ Cardinality(1..m) = m
    <3> TAKE m \in Nat
    <3>1. /\ IsFiniteSet(1..m)
          /\ Cardinality(1..m) = IF 1 > m THEN 0 ELSE m - 1 + 1
      BY FS_Interval
    <3> QED
      BY <3>1
  <2> QED
    BY <1>1, <2>1
<1>6. /\ Cardinality(1..Len(q)) <= Cardinality(1..n)
      /\ Cardinality(1..Len(q)) = Cardinality(1..n)
           => q \in Surjection(1..Len(q), 1..n)
  BY <1>4, <1>5, FS_Injection
<1> QED
  BY <1>1, <1>5, <1>6 DEF Surjection

\* What is queued fits into what is polled; where it is as much, every
\* connection still polled has ended.
QueueFits ==
  /\ Len(removals) <= Len(polls)
  /\ Len(removals) = Len(polls) => \A j \in 1..Len(polls) : AtEnd(polls[j])

LEMMA NextQueueFits ==
  ASSUME Shape, QueuedAreGone, QueueFits, [Next]_vars
  PROVE  QueueFits'
<1>0. /\ Shape' /\ QueuedAreGone'
      /\ Len(polls) \in Nat /\ Len(removals) \in Nat
      /\ removals \in Seq(Nat) /\ removals' \in Seq(Nat)
      /\ Len(polls') \in Nat /\ DOMAIN polls' = 1..Len(polls')
      /\ \A j \in 1..Len(polls) : AtEnd(polls[j]) => EndAfter(polls[j])
  BY NextShape, NextQueuedAreGone, ShapeFacts, EndsStay, LenProperties
  DEF Shape, TypeOK
<1>1. CASE pc' = "scan"
  <2>1. Queued'
    BY <1>0, <1>1 DEF QueuedAreGone, Queued
  <2>2. /\ \A k \in DOMAIN removals' : /\ removals'[k] \in 1..Len(polls')
                                       /\ EndAfter(polls'[removals'[k]])
        /\ \A k, l \in DOMAIN removals' : k < l => removals'[k] < removals'[l]
    BY <1>0, <2>1 DEF Queued, AtEnd, EndAfter
  <2>3. /\ Len(removals') <= Len(polls')
        /\ Len(removals') = Len(polls') =>
             \A j \in 1..Len(polls') : \E k \in DOMAIN removals' : removals'[k] = j
    BY <1>0, <2>2, Positions
  <2> QED
    BY <2>2, <2>3 DEF QueueFits, AtEnd, EndAfter
<1>2. CASE RemoveOne
  <2>1. /\ removals # <<>> /\ removals' = Tail(removals)
        /\ UNCHANGED <<conn, pending>>
    BY <1>2, Removing DEF netVars
  <2>2. Len(removals') = Len(removals) - 1 /\ Len(removals) > 0
    BY <1>0, <2>1, EmptySeq, HeadTailProperties
  <2>3. polls # <<>>
    BY <1>0, <2>2, EmptySeq DEF QueueFits
  <2>4. PICK r \in 1..Len(polls) : Drops(polls', polls, r)
    BY <1>2, <2>3, Removing
  <2>5. /\ Len(polls') = Len(polls) - 1
        /\ \A j \in 1..Len(polls') : \E k \in 1..Len(polls) : polls'[j] = polls[k]
    <3>1. polls \in Seq(Socket) /\ polls' \in Seq(Socket)
      BY <1>2, Removing, ShapeFacts
    <3> QED
      BY <2>4, <3>1, DropFacts
  <2>6. Len(removals') <= Len(polls')
    BY <1>0, <2>2, <2>5 DEF QueueFits
  <2>7. ASSUME Len(removals') = Len(polls'), NEW j \in 1..Len(polls')
        PROVE  EndAfter(polls'[j])
    <3>1. Len(removals) = Len(polls)
      <4>1. Len(removals) \in Nat /\ Len(polls) \in Nat
        BY <1>0
      <4>2. Len(removals) - 1 = Len(polls) - 1
        BY <2>2, <2>5, <2>7
      <4> QED
        BY <4>1, <4>2
    <3>2. PICK k \in 1..Len(polls) : polls'[j] = polls[k]
      BY <2>5
    <3> QED
      BY <1>0, <3>1, <3>2 DEF QueueFits
  <2> QED
    BY <2>6, <2>7 DEF QueueFits, AtEnd, EndAfter
<1>3. CASE Accept
  <2>1. removals = <<>> /\ removals' = removals /\ Len(polls') = Len(polls) + 1
    BY <1>3, Accepting DEF QueuedAreGone
  <2> QED
    BY <1>0, <2>1, EmptySeq DEF QueueFits
<1>4. CASE ~Accept /\ ~RemoveOne /\ pc' # "scan"
  <2>1. UNCHANGED <<polls, removals>> \/ Scan
    BY <1>4 DEF Next, ListenThread, vars, ClientStep, StartAgain, Stop,
       CheckAlive, Poll, AssignId, Greet, EndRound, listVars
  <2>2. CASE UNCHANGED <<polls, removals>>
    BY <1>0, <2>2 DEF QueueFits, AtEnd, EndAfter
  <2>3. CASE Scan
    <3>1. pc = "scan" /\ polls' = polls
      BY <2>3, ScanServes
    <3>2. Queued
      BY <3>1 DEF QueuedAreGone, Queued
    <3>3. Queued'
      BY <2>3, <3>2, ScanQueued
    <3>4. /\ \A k \in DOMAIN removals' : /\ removals'[k] \in 1..Len(polls')
                                         /\ EndAfter(polls'[removals'[k]])
          /\ \A k, l \in DOMAIN removals' : k < l => removals'[k] < removals'[l]
      BY <1>0, <3>3 DEF Queued, AtEnd, EndAfter
    <3>5. /\ Len(removals') <= Len(polls')
          /\ Len(removals') = Len(polls') =>
               \A j \in 1..Len(polls') : \E k \in DOMAIN removals' : removals'[k] = j
      BY <1>0, <3>4, Positions
    <3> QED
      BY <3>4, <3>5 DEF QueueFits, AtEnd, EndAfter
  <2> QED
    BY <2>1, <2>2, <2>3
<1> QED
  BY <1>1, <1>2, <1>3, <1>4

\* get_peer() of a polled position is never NULL, and an erase past the end finds
\* an entry to lose, however far the two vectors have come apart.
THEOREM SocketsHavePeers == Spec => []PolledHavePeers
<1> DEFINE Inv == Shape /\ QueuedAreGone /\ QueueFits
<1>1. Init => Inv
  <2> SUFFICES ASSUME Init PROVE Inv
    OBVIOUS
  <2>1. /\ polls = <<>> /\ removals = <<>> /\ Len(polls) = 0
        /\ DOMAIN removals = {}
    BY EmptySeq DEF Init
  <2> QED
    BY <2>1, InitShape DEF QueuedAreGone, QueueFits
<1>2. Inv /\ [Next]_vars => Inv'
  BY NextShape, NextQueuedAreGone, NextQueueFits
<1>3. Inv => PolledHavePeers
  BY DEF Shape, QueueFits, PolledHavePeers
<1> HIDE DEF Inv
<1> QED
  BY <1>1, <1>2, <1>3, PTL DEF Spec

--------------------------------------------------------------------------------
\* The two lists keep corresponding entries through every step but an erase past
\* the end of the sockets.
LEMMA PartingStep ==
  ASSUME Shape, QueuedAreGone, ParallelArrays, [Next]_vars
  PROVE  \/ ParallelArrays'
         \/ /\ pc = "remove" /\ removals # <<>>
            /\ Head(removals) \notin DOMAIN polls
<1>0. /\ Shape'
      /\ Len(peers) = Len(polls) /\ Len(polls) \in Nat
      /\ DOMAIN polls = 1..Len(polls) /\ DOMAIN polls' = 1..Len(polls')
      /\ \A i \in 1..Len(polls) : polls[i] = peers[i].sock
  BY NextShape, ShapeFacts, LenProperties DEF ParallelArrays, Shape, TypeOK
<1>1. CASE Accept
  <2>1. PICK s \in Socket :
          /\ Len(polls') = Len(polls) + 1
          /\ Len(peers') = Len(peers) + 1
          /\ \A j \in 1..Len(polls) : polls'[j] = polls[j]
          /\ \A j \in 1..Len(peers) : peers'[j] = peers[j]
          /\ polls'[Len(polls) + 1] = s
          /\ peers'[Len(peers) + 1] = NewPeer(s)
    BY <1>1, Accepting
  <2>2. NewPeer(s).sock = s
    BY DEF NewPeer
  <2>3. ASSUME NEW i \in 1..(Len(polls) + 1)
        PROVE  polls'[i] = peers'[i].sock
    <3>1. i = Len(polls) + 1 \/ i \in 1..Len(polls)
      BY <1>0
    <3> QED
      BY <1>0, <2>1, <2>2, <3>1
  <2> QED
    BY <1>0, <2>1, <2>3 DEF ParallelArrays
<1>2. CASE AssignId
  BY <1>0, <1>2, Assigning DEF ParallelArrays
<1>3. CASE RemoveOne /\ Head(removals) \in 1..Len(polls)
  <2>1. /\ Drops(polls', polls, Head(removals))
        /\ Drops(peers', peers, Head(removals))
    BY <1>0, <1>3, Removing, EmptySeq
  <2>2. /\ Len(polls') = Len(polls) - 1 /\ Len(peers') = Len(polls')
        /\ \A j \in 1..Len(polls') :
             LET k == IF j < Head(removals) THEN j ELSE j + 1 IN
             k \in 1..Len(polls) /\ polls'[j] = polls[k] /\ peers'[j] = peers[k]
    BY <1>0, <1>3, <2>1 DEF Drops
  <2> QED
    BY <1>0, <2>2 DEF ParallelArrays
<1>4. CASE RemoveOne /\ Head(removals) \notin 1..Len(polls)
  <2>1. /\ pc \in {"scan", "remove"} /\ removals # <<>> /\ removals \in Seq(Nat)
    BY <1>4, Removing, ShapeFacts
  <2>2. 1 \in DOMAIN removals /\ Head(removals) = removals[1]
    BY <2>1, EmptySeq, LenProperties
  <2>3. pc # "scan"
    BY <1>0, <1>4, <2>2 DEF QueuedAreGone
  <2> QED
    BY <1>0, <1>4, <2>1, <2>3
<1>5. CASE Scan
  <2>1. PICK i \in todo : ServeEffect(i)
    BY <1>5, ScanServes
  <2>2. polls' = polls
    BY <1>5, ScanServes
  <2> QED
    BY <1>0, <2>1, <2>2 DEF ServeEffect, ParallelArrays
<1>6. CASE UNCHANGED <<peers, polls>>
  BY <1>6 DEF ParallelArrays
<1> QED
  BY <1>1, <1>2, <1>3, <1>4, <1>5, <1>6, PeerSteps, ListSteps

\* UDTP.cpp:222 and 313: for every number of clients, of sockets and of start()
\* calls, what parts the two vectors is an erase past the end of the sockets, at
\* a second or later position of one round, and nothing else.
THEOREM VectorsPart == Spec => VectorsPartPastTheEnd
<1> DEFINE Inv == Shape /\ QueuedAreGone
           Step == ParallelArrays /\ ~ParallelArrays' =>
                     pc = "remove" /\ Head(removals) \notin DOMAIN polls
<1>1. Init => Inv
  BY InitShape, EmptySeq DEF Init, QueuedAreGone
<1>2. Inv /\ [Next]_vars => Inv'
  BY NextShape, NextQueuedAreGone
<1>3. Inv /\ [Next]_vars => Step
  BY PartingStep
<1> HIDE DEF Inv, Step
<1>4. Spec => [][Step]_vars
  BY <1>1, <1>2, <1>3, PTL DEF Spec
<1> QED
  BY <1>4 DEF VectorsPartPastTheEnd, Step

--------------------------------------------------------------------------------
\* A connection leaves the sockets only as the entry an erase takes: the queued
\* one, or past the end the last.
LEMMA LeavingIsErased ==
  ASSUME Shape, [Next]_vars, NEW c \in Client, Listed(c), ~Listed(c)'
  PROVE  /\ RemoveOne
         /\ \E r \in 1..Len(polls) :
              /\ polls[r] = c
              /\ r = IF Head(removals) \in 1..Len(polls)
                     THEN Head(removals) ELSE Len(polls)
<1>0. PICK i \in 1..Len(polls) : polls[i] = c
  BY ShapeFacts DEF Listed
<1>1. CASE Accept
  <2>1. /\ Len(polls') = Len(polls) + 1 /\ Len(polls) \in Nat
        /\ DOMAIN polls' = 1..Len(polls')
        /\ \A j \in 1..Len(polls) : polls'[j] = polls[j]
    BY <1>1, Accepting, ShapeFacts, LenProperties
  <2>2. i \in DOMAIN polls' /\ polls'[i] = c
    BY <1>0, <2>1
  <2> QED
    BY <2>2 DEF Listed
<1>2. CASE polls' = polls
  BY <1>2 DEF Listed
<1>3. CASE RemoveOne /\ polls' # polls
  <2>1. PICK r \in 1..Len(polls) :
          /\ Drops(polls', polls, r)
          /\ r = IF Head(removals) \in 1..Len(polls)
                 THEN Head(removals) ELSE Len(polls)
    BY <1>3, Removing
  <2>2. /\ polls' \in Seq(Socket) /\ DOMAIN polls' = 1..Len(polls')
    BY <1>3, Removing, LenProperties
  <2>3. i # r => \E j \in 1..Len(polls') : polls'[j] = polls[i]
    <3>1. polls \in Seq(Socket)
      BY ShapeFacts
    <3> QED
      BY <2>1, <2>2, <3>1, DropFacts
  <2>4. i = r
    BY <1>0, <2>2, <2>3 DEF Listed
  <2> QED
    BY <1>0, <1>3, <2>1, <2>4
<1> QED
  BY <1>1, <1>2, <1>3, ListSteps

\* Once the removals of a round have begun, what is still queued is in list order
\* and behind the first position: the one erased first was before all of it.
LaterQueued ==
  pc = "remove" =>
    /\ \A k \in DOMAIN removals : removals[k] > 1
    /\ \A k, l \in DOMAIN removals : k < l => removals[k] < removals[l]

LEMMA NextLaterQueued ==
  ASSUME Shape, QueuedAreGone, LaterQueued, [Next]_vars
  PROVE  LaterQueued'
<1>1. CASE RemoveOne
  <2>1. /\ removals # <<>> /\ removals' = Tail(removals)
        /\ pc \in {"scan", "remove"}
        /\ removals \in Seq(Nat)
    BY <1>1, Removing, ShapeFacts
  <2>2. /\ Len(removals) \in Nat \ {0} /\ DOMAIN removals = 1..Len(removals)
        /\ \A k \in 1..Len(removals) : removals[k] \in Nat
    BY <2>1, EmptySeq, LenProperties, ElementOfSeq
  <2>3. /\ DOMAIN removals' = 1..(Len(removals) - 1)
        /\ \A k \in 1..(Len(removals) - 1) : removals'[k] = removals[k + 1]
    BY <2>1, <2>2, HeadTailProperties, LenProperties
  <2>4. \A k, l \in 1..Len(removals) : k < l => removals[k] < removals[l]
    BY <2>1, <2>2, QueueParts DEF Queued, LaterQueued
  <2>5. removals[1] >= 1
    <3>1. CASE pc = "scan"
      <4>1. 1 \in DOMAIN removals /\ removals[1] \in Nat
        BY <2>2
      <4>2. removals[1] \in 1..Len(polls) /\ Len(polls) \in Nat
        BY <3>1, <4>1, QueueParts, ShapeFacts DEF Queued
      <4> QED
        BY <4>1, <4>2
    <3>2. CASE pc = "remove"
      BY <2>2, <3>2 DEF LaterQueued
    <3> QED
      BY <2>1, <3>1, <3>2
  <2>6. \A k \in DOMAIN removals' : removals'[k] > 1
    <3> SUFFICES ASSUME NEW k \in 1..(Len(removals) - 1) PROVE removals[k + 1] > 1
      BY <2>3
    <3>1. k + 1 \in 1..Len(removals) /\ 1 \in 1..Len(removals) /\ 1 < k + 1
      BY <2>2
    <3>2. removals[1] < removals[k + 1]
      BY <2>4, <3>1
    <3> QED
      BY <2>2, <2>5, <3>1, <3>2
  <2>7. \A k, l \in DOMAIN removals' : k < l => removals'[k] < removals'[l]
    <3> SUFFICES ASSUME NEW k \in 1..(Len(removals) - 1),
                        NEW l \in 1..(Len(removals) - 1), k < l
                 PROVE  removals[k + 1] < removals[l + 1]
      BY <2>3
    <3>1. k + 1 \in 1..Len(removals) /\ l + 1 \in 1..Len(removals) /\ k + 1 < l + 1
      BY <2>2
    <3> QED
      BY <2>4, <3>1
  <2> QED
    BY <2>6, <2>7 DEF LaterQueued
<1>2. CASE Scan
  BY <1>2, ScanServes DEF ServeEffect, LaterQueued
<1>3. CASE Greet
  BY <1>3 DEF Greet, SendTo, LaterQueued
<1>4. CASE ~RemoveOne /\ ~Scan /\ ~Greet
  <2>1. pc' = "remove" => pc = "remove" /\ removals' = removals
    BY <1>4 DEF Next, ListenThread, vars, ClientStep, StartAgain, Stop,
       CheckAlive, Poll, Accept, AssignId, EndRound, listVars
  <2> QED
    BY <2>1 DEF LaterQueued
<1> QED
  BY <1>1, <1>2, <1>3, <1>4

\* However many disconnects a round queues, its first removal is right, and the
\* oldest connection leaves only when it has ended, past the end included.
THEOREM OldestIsSpared == Spec => VictimsAreLater
<1> DEFINE Inv == /\ Shape /\ PolledOnce /\ QueuedAreGone /\ QueueFits
                  /\ LaterQueued
           Step == \A c \in Client :
                     Listed(c) /\ ~Listed(c)'
                       => AtEnd(c) \/ (pc = "remove" /\ polls[1] # c)
<1>1. Init => Inv
  <2> SUFFICES ASSUME Init PROVE Inv
    OBVIOUS
  <2>1. /\ polls = <<>> /\ removals = <<>> /\ Len(polls) = 0
        /\ DOMAIN removals = {} /\ DOMAIN polls = {} /\ pc = "top"
    BY EmptySeq DEF Init
  <2> QED
    BY <2>1, InitShape DEF PolledOnce, QueuedAreGone, QueueFits, LaterQueued
<1>2. Inv /\ [Next]_vars => Inv'
  BY NextShape, NextPolledOnce, NextQueuedAreGone, NextQueueFits,
     NextLaterQueued
<1>3. ASSUME Inv, [Next]_vars, NEW c \in Client, Listed(c), ~Listed(c)'
      PROVE  AtEnd(c) \/ (pc = "remove" /\ polls[1] # c)
  <2>1. PICK r \in 1..Len(polls) :
          /\ polls[r] = c
          /\ r = IF Head(removals) \in 1..Len(polls)
                 THEN Head(removals) ELSE Len(polls)
    BY <1>3, LeavingIsErased
  <2>2. /\ pc \in {"scan", "remove"} /\ removals # <<>>
        /\ removals \in Seq(Nat) /\ Len(polls) \in Nat
        /\ DOMAIN polls = 1..Len(polls)
    BY <1>3, LeavingIsErased, Removing, ShapeFacts
  <2>3. /\ 1 \in DOMAIN removals /\ Head(removals) = removals[1]
        /\ Len(removals) \in Nat /\ Len(removals) >= 1
    BY <2>2, EmptySeq, LenProperties
  <2>4. CASE pc = "scan"
    BY <1>3, <2>1, <2>2, <2>3, <2>4 DEF QueuedAreGone
  <2>5. CASE pc = "remove" /\ r > 1
    <3>0. c # NoSocket
      BY HostAssumption
    <3>1. r \in DOMAIN polls /\ 1 \in DOMAIN polls /\ r # 1
      BY <2>2, <2>5
    <3>2. polls[1] # c
      BY <1>3, <2>1, <3>0, <3>1 DEF PolledOnce
    <3> QED
      BY <2>5, <3>2
  <2>6. CASE pc = "remove" /\ r = 1
    <3>1. removals[1] > 1
      BY <1>3, <2>3, <2>6 DEF LaterQueued
    <3>2. Len(polls) = 1
      BY <2>1, <2>2, <2>3, <2>6, <3>1
    <3>3. Len(removals) = Len(polls)
      BY <1>3, <2>3, <3>2 DEF QueueFits
    <3> QED
      BY <1>3, <2>1, <3>3 DEF QueueFits
  <2>7. pc = "scan" \/ (pc = "remove" /\ (r > 1 \/ r = 1))
    BY <2>2
  <2> QED
    BY <2>4, <2>5, <2>6, <2>7
<1>4. Inv /\ [Next]_vars => Step
  BY <1>3
<1> HIDE DEF Inv, Step
<1>5. Spec => [][Step]_vars
  BY <1>1, <1>2, <1>4, PTL DEF Spec
<1> QED
  BY <1>5 DEF VictimsAreLater, Step

================================================================================
