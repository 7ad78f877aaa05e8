------------------------------ MODULE MCUDTPHost ------------------------------
(***************************************************************************)
(* Instances of UDTPHost for TLC.  Two settings are enough to be accepted  *)
(* or rejected by a handshake: the HOST's own, and one with a chunk size   *)
(* under the minimum.  Ratios has a value on each side of CriticalLoss.    *)
(***************************************************************************)
EXTENDS UDTPHostRegistry

CONSTANTS c1, c2, c3

OneClient    == {c1}
TwoClients   == {c1, c2}
ThreeClients == {c1, c2, c3}

\* Clients are interchangeable; no liveness property is checked with this.
Symmetry == Permutations(Client)

================================================================================
