--------------------------- MODULE UDTPAcknowledge ---------------------------
(***************************************************************************)
(* UDTPAcknowledge::respond() and the thread operations of UDTPPeer it     *)
(* calls, as the set of thread counts they may leave in the peer.          *)
(* UDTPAcknowledge::set_response_code assigns its own parameter, so a      *)
(* packet keeps the response code it arrived with.                         *)
(*                                                                         *)
(* RemoveThreadUnchecked is a mistake the code might have made; no         *)
(* specification uses it.                                                  *)
(***************************************************************************)
EXTENDS UDTPPacket, Integers

CONSTANTS
  CriticalLoss,   \* setup()->get_critical_loss_packet_percentage()
  Ratios          \* the quotients packets / packets a report may give

ASSUME LossAssumption ==
  /\ CriticalLoss \in Nat
  /\ Ratios \subseteq Nat

AcknowledgeType == {"PacketCount", "Missing", "MissingSent", "AddThread",
                    "RemoveThread", "Complete"}
AnyAcknowledge == AcknowledgeType \union {"Unknown"}

\* add_thread of an online peer: the socket, its option or the bind may fail.
AddThread(threads) == {threads, threads + 1}

\* remove_thread: nothing ever pushes on _flowThreads or _processThreads, so
\* with a positive count front() and pop() act on empty queues; where the
\* process survives that, the count has gone down.
RemoveThreadUnchecked(threads) == {threads - 1}
RemoveThread(threads) == {IF threads = 0 THEN 0 ELSE threads - 1}

\* When respond() calls remove_thread and when add_thread.  An approved removal
\* adds a thread, and no branch but the requester's tests the maximum.
Removes(type, code, ratio) ==
  \/ type = "PacketCount" /\ code = "None" /\ ratio <= CriticalLoss
  \/ type = "RemoveThread" /\ code = "None"

Adds(type, code) ==
  \/ type = "AddThread" /\ code \in {"None", "Approved"}
  \/ type = "RemoveThread" /\ code = "Approved"

\* The thread counts respond() may leave.
RespondThreads(type, code, ratio, threads) ==
  IF Removes(type, code, ratio) THEN RemoveThread(threads)
  ELSE IF Adds(type, code) THEN AddThread(threads)
  ELSE {threads}

\* The thread counts any acknowledgement may leave.
ThreadsAfter(threads) ==
  UNION {RespondThreads(type, code, ratio, threads) :
           type \in AnyAcknowledge, code \in Codes, ratio \in Ratios}

================================================================================
