----------------------------- MODULE MCBankSync -----------------------------
(* Small instances of BankSync for TLC. *)
EXTENDS BankSync, TLC

CONSTANTS t1, t2, a1, a2

Owner == t1 :> a1 @@ t2 :> a2

=============================================================================
