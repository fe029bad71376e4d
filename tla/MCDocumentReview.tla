-------------------------- MODULE MCDocumentReview --------------------------
(***************************************************************************)
(* Small instances of DocumentReview for TLC.                              *)
(***************************************************************************)
EXTENDS DocumentReview, TLC

(* Workers are only ever compared: any two of them may be exchanged.       *)
WorkerSymmetry == Permutations(Worker)

Both == {"approve", "reject"}
ApproveOnly == {"approve"}
=============================================================================
