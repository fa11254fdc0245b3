--------------------------- MODULE MCRateLimiter ----------------------------
(***************************************************************************)
(* RateLimiter for TLC: requests are interchangeable.                       *)
(***************************************************************************)
EXTENDS RateLimiter, TLC

Symmetry == Permutations(Reqs)

=============================================================================
