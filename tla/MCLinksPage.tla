---------------------------- MODULE MCLinksPage -----------------------------
(***************************************************************************)
(* LinksPage for TLC: links are interchangeable.                           *)
(***************************************************************************)
EXTENDS LinksPage, TLC

Symmetry == Permutations(Links)

=============================================================================
