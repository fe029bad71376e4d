------------------------- MODULE MCAutomationOwner -------------------------
(* Instances of AutomationOwner for TLC.                                   *)
EXTENDS AutomationOwner, TLC

Symmetry == Permutations(Run) \cup Permutations(Request) \cup Permutations(Slot)
=============================================================================
