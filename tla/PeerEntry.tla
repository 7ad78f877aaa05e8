------------------------------ MODULE PeerEntry ------------------------------
(***************************************************************************)
(* What becomes of the entry of one connection in the HOST's list of       *)
(* peers, without positions, rounds, sockets or flow threads: it enters    *)
(* once, online and without threads; acknowledgements change its count of  *)
(* threads while it is online; it may be expelled, and then stays as it    *)
(* is; it may leave at any time, with its threads, and does not return.    *)
(*                                                                         *)
(* UDTPHost has an entry per connection, UDTPFlow is one entry seen from   *)
(* inside; that both implement this module is what joins the two.          *)
(***************************************************************************)
CONSTANTS
  Entry,            \* the entries
  ThreadsAfter(_)   \* the counts of threads an acknowledgement may leave

VARIABLES
  status,    \* status[e]: "absent", "online", "offline" or "gone"
  threads    \* threads[e]: its count of threads

vars == <<status, threads>>

\* An entry may be watched from its first moment online.
Init ==
  /\ status \in [Entry -> {"absent", "online"}]
  /\ threads = [e \in Entry |-> 0]

Enter(e) ==
  /\ status[e] = "absent"
  /\ status' = [status EXCEPT ![e] = "online"]
  /\ UNCHANGED threads

Acknowledge(e) ==
  /\ status[e] = "online"
  /\ \E n \in ThreadsAfter(threads[e]) : threads' = [threads EXCEPT ![e] = n]
  /\ UNCHANGED status

Expel(e) ==
  /\ status[e] = "online"
  /\ status' = [status EXCEPT ![e] = "offline"]
  /\ UNCHANGED threads

Leave(e) ==
  /\ status[e] \in {"online", "offline"}
  /\ status' = [status EXCEPT ![e] = "gone"]
  /\ threads' = [threads EXCEPT ![e] = 0]

Next == \E e \in Entry : Enter(e) \/ Acknowledge(e) \/ Expel(e) \/ Leave(e)

Spec == Init /\ [][Next]_vars

================================================================================
