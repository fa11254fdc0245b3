--------------------------- MODULE MCClickTracker ---------------------------
(***************************************************************************)
(* ClickTracker for TLC. All its constant sets are symmetric. The liveness  *)
(* run does not use the symmetry.                                           *)
(***************************************************************************)
EXTENDS ClickTracker, TLC

Symmetry == Permutations(Codes) \cup Permutations(Links)
              \cup Permutations(Clicks) \cup Permutations(Flushes)

=============================================================================
