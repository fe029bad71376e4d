----------------------------- MODULE BankLedger -----------------------------
(***************************************************************************)
(* What the household ledger promises about a linked bank: its rows always *)
(* show the bank as it was at one moment, never a mixture of two, and that *)
(* moment only moves forward.                                              *)
(***************************************************************************)
EXTENDS Naturals, Sequences

CONSTANTS
    Txn,           \* the transaction ids the bank can report
    Account,       \* its accounts
    MaxVersion     \* how often one transaction is changed

VARIABLES
    log,           \* the states the bank has been in, oldest first
    cursor,        \* the moment of the log the ledger shows; 0 before any sync
    rows           \* rows[t]: the version the ledger shows, 0 for none

vars == <<log, cursor, rows>>

\* 0 is a transaction the bank does not list (not yet, or not any more).
View == [Txn -> 0..MaxVersion]
BankState == [txns: View, open: SUBSET Account]
NoTxns == [t \in Txn |-> 0]

\* What the bank listed at a moment.
At(k) == IF k = 0 THEN NoTxns ELSE log[k].txns

Init ==
    /\ \E first \in BankState : log = <<first>>
    /\ cursor = 0
    /\ rows = NoTxns

\* The bank posts, changes or drops something.
Move ==
    /\ \E state \in BankState : log' = Append(log, state)
    /\ UNCHANGED <<cursor, rows>>

\* The ledger catches up with a later moment, in one step.
CatchUp ==
    /\ cursor' \in cursor .. Len(log)
    /\ rows' = At(cursor')
    /\ UNCHANGED log

Next == Move \/ CatchUp

Spec == Init /\ [][Next]_vars
=============================================================================
