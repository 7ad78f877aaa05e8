--------------------------- MODULE UDTPHostRegistry ---------------------------
(***************************************************************************)
(* UDTPHost implements PeerRegistry as long as no round of the listen      *)
(* thread queues a second disconnect.  With two, the second erase of the   *)
(* removal loop uses a position that is stale (UDTP.cpp:313), and an       *)
(* online session may be erased.  That each entry lives one life, as       *)
(* PeerEntry has it, holds of all rounds.                                  *)
(***************************************************************************)
EXTENDS UDTPHost

\* Next with at most one disconnect per round; only the thread queues them.
SingleNext ==
  \/ \E c \in Client : ClientStep(c)
  \/ StartAgain
  \/ Stop
  \/ ListenThread /\ Len(removals') <= 1
SingleSpec == Init /\ [][SingleNext]_vars

\* The session of a connection, as accept() and the list of peers show it.
SessionIn(c, taken, list) ==
  IF c \notin taken THEN "absent"
  ELSE IF \E i \in DOMAIN list : list[i].sock = c /\ list[i].online THEN "online"
  ELSE IF \E i \in DOMAIN list : list[i].sock = c THEN "offline"
  ELSE "gone"
Sessions == [c \in Client |-> SessionIn(c, accepted, peers)]

Registry == INSTANCE PeerRegistry WITH session <- Sessions

\* The HOST keeps the registry's promise: registered once, served only while
\* online, erased only when the client has closed its connection and it has been
\* taken offline, whatever entries move around it.
RegistryKept == Registry!Spec

--------------------------------------------------------------------------------
\* The count of threads of a connection's entry; none without an entry.
ThreadsIn(c, list) ==
  LET mine == {i \in DOMAIN list : list[i].sock = c} IN
  IF mine = {} THEN 0 ELSE list[CHOOSE i \in mine : TRUE].threads
EntryThreads == [c \in Client |-> ThreadsIn(c, peers)]

Entries == INSTANCE PeerEntry WITH
  Entry <- Client, status <- Sessions, threads <- EntryThreads

\* However positions shift and whatever is removed by mistake, each connection's
\* entry lives one life: it enters once, its threads change only by an
\* acknowledgement while it is online, an offline one is frozen, and one that
\* left, rightly or not, never returns.
EntriesKept == Entries!Spec

================================================================================
