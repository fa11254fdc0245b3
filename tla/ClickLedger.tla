----------------------------- MODULE ClickLedger -----------------------------
(***************************************************************************)
(* What happens to clicks, seen from outside: each one is recorded once,    *)
(* waits, and meets one fate for good. Where it waits (a Redis counter, the *)
(* hands of a flush, a counter again) and how often it is tried are nobody's *)
(* business.                                                                *)
(***************************************************************************)
CONSTANTS
  Clicks,
  Lossy      \* clicks that wait may be lost

VARIABLE fate
vars == fate

Fates == {"none",      \* not recorded
          "pending",   \* recorded, in no link's count yet
          "counted",   \* in the click_count of a link
          "dropped",   \* given up: Redis was down, or the link is gone
          "lost"}      \* a fault took it, or the exit of the process

Become(S, outcome) == fate' = [k \in Clicks |-> IF k \in S THEN outcome ELSE fate[k]]

Init == fate = [k \in Clicks |-> "none"]

Record(k) ==
  /\ fate[k] = "none"
  /\ Become({k}, "pending") \/ Become({k}, "dropped")

(* A batch is settled as a whole. *)
Settle(S) ==
  /\ \A k \in S : fate[k] = "pending"
  /\ \/ Become(S, "counted") \/ Become(S, "dropped")
     \/ Lossy /\ Become(S, "lost")

Next == (\E k \in Clicks : Record(k)) \/ (\E S \in SUBSET Clicks : Settle(S))

Spec == Init /\ [][Next]_vars

=============================================================================
