------------------------- MODULE UrlServiceDirectory -------------------------
(***************************************************************************)
(* UrlService implements LinkDirectory: its table is the directory, and     *)
(* where a request is tells how far its caller may take it to be. Cache,    *)
(* lock and redirects have no counterpart: their steps are stutters.        *)
(***************************************************************************)
EXTENDS UrlService

Writer(r) == op[r] # Null /\ op[r].kind # "redirect"

(* What a request asks for. The code of a generated link is not asked for:  *)
(* it is the program's choice at each attempt.                              *)
Asked(r) ==
  IF ~Writer(r) THEN Null
  ELSE IF op[r].kind = "generate" THEN [op[r] EXCEPT !.code = Null] ELSE op[r]

Phase(r) ==
  CASE ~Writer(r) -> "new"
    [] Writer(r) /\ pc[r] \in {"insert", "find", "taken", "write"} -> "open"
    [] Writer(r) /\ pc[r] = "invalidate" -> "applied"
    [] Writer(r) /\ pc[r] \in {"200", "201", "204"} -> "done"
    [] Writer(r) /\ pc[r] \in {"404", "409"} -> "refused"
    [] OTHER -> "unknown"

Directory == INSTANCE LinkDirectory WITH
  dir <- urls,
  ask <- [r \in Reqs |-> Asked(r)],
  phase <- [r \in Reqs |-> Phase(r)]

(* However requests interleave, fail half-way or die, callers see a map      *)
(* changed by whole requests: each at most once, as asked, before any        *)
(* success is answered, and not at all when it is refused with 404 or 409    *)
(* (createShortUrl, updateUrl, deleteShortUrl over several awaits).          *)
ImplementsDirectory == Directory!Spec

=============================================================================
