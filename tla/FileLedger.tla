------------------------------ MODULE FileLedger ------------------------------
(***************************************************************************)
(* What the log of files and the peers' lists of started files are for,    *)
(* without headers, IDs, semaphores or the disk: a file is listed once,    *)
(* with the peer that works on it, and its entry stays; the peer takes its *)
(* work along when it leaves, and no other peer takes it over.             *)
(***************************************************************************)
EXTENDS Sequences

CONSTANTS
  Peer,   \* the peers of this instance
  Path    \* the paths a file may have

VARIABLE ledger   \* ledger[i]: the i-th file and the peers that work on it

Entry == [path : Path, active : BOOLEAN, workers : SUBSET Peer]

Init == ledger = <<>>

List(p) ==
  \E path \in Path, active \in BOOLEAN :
    ledger' = Append(ledger, [path |-> path, active |-> active,
                              workers |-> {p}])

Leave(p) ==
  ledger' = [i \in DOMAIN ledger |->
               [ledger[i] EXCEPT !.workers = @ \ {p}]]

Next == \E p \in Peer : List(p) \/ Leave(p)

Spec == Init /\ [][Next]_ledger

================================================================================
