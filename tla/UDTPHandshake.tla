---------------------------- MODULE UDTPHandshake ----------------------------
(***************************************************************************)
(* UDTPHandshake: what unpack(), respond() and pack() return and change,   *)
(* as functions of the response code and of the settings read from the     *)
(* packet (a version and a chunk size agreement).                          *)
(***************************************************************************)
EXTENDS UDTPPacket, Integers

CONSTANTS
  VersionNumber,   \* setup()->get_version() of the receiving side
  MinChunkSize,    \* setup()->get_min_chunk_size()
  MaxChunkSize,    \* setup()->get_max_chunk_size()
  Versions,        \* the versions a packet may carry
  ChunkSizes       \* the chunk size agreements a packet may carry

\* Both sizes are 16-bit in the code and never computed with.
ASSUME SettingsAssumption ==
  /\ MinChunkSize \in Nat
  /\ MaxChunkSize \in Nat
  /\ ChunkSizes \subseteq Nat

CompareSettings(version, chunk) ==
  /\ version = VersionNumber
  /\ MinChunkSize <= chunk
  /\ chunk <= MaxChunkSize

Unpack(code) == code \in {"Start", "None"}

\* The response code respond() leaves in the packet.
RespondCode(code, accepted) ==
  CASE code = "Start" -> "None"
    [] code = "None" /\ accepted -> "Approved"
    [] code = "None" /\ ~accepted -> "CriticalError"
    [] OTHER -> code

RespondReturn(code) == code \in {"Start", "None"}

Pack(code) == code \in {"Start", "None", "Approved", "CriticalError"}

\* Whether the listen thread sends the packet back.
HandshakeResends(code, accepted) ==
  Resends(Unpack(code), RespondReturn(code), Pack(RespondCode(code, accepted)))

\* respond() on the HOST's side of a request: what happens to the peer's entry.
Kicks(code, accepted) == code = "None" /\ ~accepted
Completes(code, accepted) == code = "None" /\ accepted

================================================================================
