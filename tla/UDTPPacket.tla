------------------------------ MODULE UDTPPacket ------------------------------
(***************************************************************************)
(* The response codes a UDTP packet carries, and the test for an answer.   *)
(* The numeric values play no role: the code only compares them.           *)
(***************************************************************************)

CONSTANT Codes   \* the response codes a packet may carry

ResponseCode == {"Start", "None", "Approved", "Rejected", "Retry",
                 "CriticalError", "Confirm", "FileNotFound",
                 "FileExistsAlready", "ListingFound", "InvalidPath"}

\* What a response-code field may hold: the receiving code copies it from a
\* buffer it never fills, so it may also be no enumerator at all.
AnyCode == ResponseCode \union {"Unknown"}

ASSUME CodesAssumption == Codes \subseteq AnyCode

\* The listen threads send the processed packet back when any of the three
\* calls returned true: resendCheck & 0x07 tests for "some bit", not "all".
Resends(unpacked, responded, packed) == unpacked \/ responded \/ packed

================================================================================
