------------------------ MODULE MCPreviewCoordinator ------------------------
(* Small instances of PreviewCoordinator for TLC. *)
EXTENDS PreviewCoordinator, TLC

Symmetry == Permutations(Request) \cup Permutations(Writer)
=============================================================================
