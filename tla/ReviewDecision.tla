--------------------------- MODULE ReviewDecision ---------------------------
(***************************************************************************)
(* What the household is promised about one uploaded document, whatever    *)
(* threads, crashes and retries lie underneath: every review of it is      *)
(* either trusted, and its values recorded as it is published, or held,    *)
(* and then decided at most once; a rejected review never records a value, *)
(* an approved one records its values exactly once, before it is reported  *)
(* as applied.                                                             *)
(***************************************************************************)
EXTENDS Naturals

CONSTANT Review            \* the reviews the document may ever get

VARIABLES outcome,         \* outcome[r]: where review r stands
          recorded         \* recorded[r]: how often r's values were recorded

absVars == <<outcome, recorded>>

Outcome == {"absent", "trusted", "held", "rejected", "approving", "applied",
            "deleted"}

AbsTypeOK ==
  /\ outcome \in [Review -> Outcome]
  /\ recorded \in [Review -> Nat]

AbsInit ==
  /\ outcome = [r \in Review |-> "absent"]
  /\ recorded = [r \in Review |-> 0]

(* A review the model trusts is published together with its values.        *)
Trust(r) ==
  /\ outcome[r] = "absent"
  /\ outcome' = [outcome EXCEPT ![r] = "trusted"]
  /\ recorded' = [recorded EXCEPT ![r] = 1]

Move(r, from, to) ==
  /\ outcome[r] = from
  /\ outcome' = [outcome EXCEPT ![r] = to]
  /\ UNCHANGED recorded

Hold(r)   == Move(r, "absent", "held")
Reject(r) == Move(r, "held", "rejected")
Accept(r) == Move(r, "held", "approving")

Record(r) ==
  /\ outcome[r] = "approving"
  /\ recorded[r] = 0
  /\ recorded' = [recorded EXCEPT ![r] = 1]
  /\ UNCHANGED outcome

Finish(r) == recorded[r] = 1 /\ Move(r, "approving", "applied")

(* Deleting the document takes its reviews with it.                        *)
Discard ==
  /\ outcome' = [r \in Review |-> "deleted"]
  /\ UNCHANGED recorded

AbsNext ==
  \/ \E r \in Review : \/ Trust(r) \/ Hold(r) \/ Reject(r)
                       \/ Accept(r) \/ Record(r) \/ Finish(r)
  \/ Discard

AbsSpec == AbsInit /\ [][AbsNext]_absVars
=============================================================================
