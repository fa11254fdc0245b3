----------------------------- MODULE MCAccounts -----------------------------
(***************************************************************************)
(* Accounts and Quota for TLC, over one users table. Ids, passwords,        *)
(* browsers and request slots are interchangeable; CurrentHolder, a mutant, *)
(* is the only CHOOSE, and at most one user has an email.                   *)
(***************************************************************************)
EXTENDS Quota, TLC

Symmetry == Permutations(Ids) \cup Permutations(Passwords)
              \cup Permutations(Browsers) \cup Permutations(Reqs)

=============================================================================
