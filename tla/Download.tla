------------------------------- MODULE Download -------------------------------
(***************************************************************************)
(* What the status words of a file's chunks are to achieve, without words, *)
(* counts, queues or tickets: chunks arrive in any order and as often as   *)
(* they like, what is asked for is all that is missing, a chunk that has   *)
(* arrived stays and is asked for no more, and the processing ends, once   *)
(* and for ever, only with every chunk there.                              *)
(***************************************************************************)
EXTENDS Naturals

VARIABLES
  wanted,   \* the chunks of the file
  have,     \* those that have arrived
  asked,    \* those asked for and not there yet
  phase     \* "new", "running" or "ended"

vars == <<wanted, have, asked, phase>>

Init ==
  /\ wanted \in SUBSET Nat
  /\ have = {}
  /\ asked = {}
  /\ phase = "new"

Begin ==
  /\ phase = "new"
  /\ phase' = "running"
  /\ UNCHANGED <<wanted, have, asked>>

Ask ==
  /\ phase # "new"
  /\ asked' = wanted \ have
  /\ UNCHANGED <<wanted, have, phase>>

Receive(c) ==
  /\ phase # "new"
  /\ have' = have \union {c}
  /\ asked' = asked \ {c}
  /\ UNCHANGED <<wanted, phase>>

Finish ==
  /\ phase = "running"
  /\ have = wanted
  /\ phase' = "ended"
  /\ UNCHANGED <<wanted, have, asked>>

Next == Begin \/ Ask \/ Finish \/ \E c \in wanted : Receive(c)

Spec == Init /\ [][Next]_vars

================================================================================
