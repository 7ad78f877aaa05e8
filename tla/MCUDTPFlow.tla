------------------------------ MODULE MCUDTPFlow ------------------------------
(***************************************************************************)
(* UDTPFlow for TLC, with three flow threads that are interchangeable.     *)
(***************************************************************************)
EXTENDS UDTPFlow, TLC

CONSTANTS t1, t2, t3

ThreeThreads == {t1, t2, t3}
Symmetry == Permutations(Flow)

================================================================================
