---------------------------- MODULE ReadingLedger ----------------------------
(***************************************************************************)
(* What the fuel ledger promises, without devices, rules or crashes: a row *)
(* is recorded once per submission key and never changes or disappears,    *)
(* and a submission that is told "stored", now or earlier, is told so of a *)
(* row that is there.                                                      *)
(***************************************************************************)
CONSTANTS Row,      \* what can be stored: a record with a field key
          Clients,
          NoRow

VARIABLES ledger,   \* the rows stored
          reply     \* reply[c]: the row the last answer to c named, or NoRow

vars == <<ledger, reply>>

TypeOK ==
  /\ ledger \subseteq Row
  /\ reply \in [Clients -> Row \union {NoRow}]

Init ==
  /\ ledger = {}
  /\ reply = [c \in Clients |-> NoRow]

Record(row) ==
  /\ \A e \in ledger : e.key # row.key
  /\ ledger' = ledger \union {row}
  /\ UNCHANGED reply

Accept(c, row) ==
  /\ row \in ledger
  /\ reply' = [reply EXCEPT ![c] = row]
  /\ UNCHANGED ledger

\* No answer, an error, or a submission under way.
Silence(c) ==
  /\ reply' = [reply EXCEPT ![c] = NoRow]
  /\ UNCHANGED ledger

Next ==
  \/ \E row \in Row : Record(row)
  \/ \E c \in Clients : Silence(c) \/ \E row \in Row : Accept(c, row)

Spec == Init /\ [][Next]_vars
=============================================================================
