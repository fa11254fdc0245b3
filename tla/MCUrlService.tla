---------------------------- MODULE MCUrlService ----------------------------
(***************************************************************************)
(* UrlService for TLC. Requests, and codes, are interchangeable: Init, Next *)
(* and the safety properties name none of them. A run that also checks     *)
(* liveness does not use the symmetry.                                      *)
(***************************************************************************)
EXTENDS UrlServiceDirectory, TLC

Symmetry == Permutations(Reqs) \cup Permutations(Codes)

=============================================================================
