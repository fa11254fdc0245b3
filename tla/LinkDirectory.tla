---------------------------- MODULE LinkDirectory ----------------------------
(***************************************************************************)
(* What the callers of POST, PATCH and DELETE on links are promised, with   *)
(* no cache, no lock, no retries and no steps inside a request: the links   *)
(* are one map from codes to rows, and a request changes it in one instant  *)
(* between its arrival and its answer, once, exactly as it asked, or not at *)
(* all.                                                                     *)
(***************************************************************************)
EXTENDS Naturals

CONSTANTS
  Codes, Reqs, Null,
  MaxTime        \* bound on the expiries

VARIABLES
  dir,      \* the row of each code, or Null
  ask,      \* what each request asks for
  phase     \* how far its caller may take it to be

vars == <<dir, ask, phase>>

Phases ==
  {"new",       \* not accepted yet
   "open",      \* accepted, without effect so far
   "applied",   \* it has had its effect, its caller does not know
   "done",      \* answered with success
   "refused",   \* answered 404 or 409: it had no effect
   "unknown"}   \* answered 500 or never: it may have had its effect

(* The rows a link service starts with are as long-lived as those it makes. *)
Row == [url : Reqs \cup Codes, exp : 0 .. MaxTime]

(* The code the row of an update is at afterwards. *)
Target(q) == IF q.alias = Null THEN q.code ELSE q.alias

Moved(q) ==
  LET row == [dir[q.code] EXCEPT !.exp = IF q.exp = Null THEN @ ELSE q.exp]
  IN  [c \in Codes |-> IF c = Target(q) THEN row
                       ELSE IF c = q.code THEN Null ELSE dir[c]]

(* The maps a request may turn the present one into: none when it has to be *)
(* refused, several when a code is generated for it.                        *)
Outcomes(r) ==
  LET q == ask[r]
      free == {c \in Codes : dir[c] = Null}
  IN
  CASE q.kind \in {"create", "generate"} ->
         {[dir EXCEPT ![c] = [url |-> r, exp |-> q.exp]] :
            c \in {d \in free : q.code \in {d, Null}}}
    [] q.kind = "update" ->
         IF q.code \notin free /\ Target(q) \in free \cup {q.code}
         THEN {Moved(q)} ELSE {}
    [] q.kind = "delete" ->
         IF q.code \notin free THEN {[dir EXCEPT ![q.code] = Null]} ELSE {}

-----------------------------------------------------------------------------
Proceed(r, from, to) == phase[r] = from /\ phase' = [phase EXCEPT ![r] = to]

Requests ==
  [kind : {"create", "generate", "update", "delete"}, code : Codes \cup {Null},
   alias : Codes \cup {Null}, exp : (0 .. MaxTime) \cup {Null}]

Accept(r) ==
  /\ Proceed(r, "new", "open")
  /\ ask'[r] \in Requests /\ ask' = [ask EXCEPT ![r] = ask'[r]]
  /\ UNCHANGED dir

(* The effect, and with it possibly the failure that hides it. *)
Apply(r) ==
  /\ Proceed(r, "open", "applied") \/ Proceed(r, "open", "unknown")
  /\ dir' \in Outcomes(r)
  /\ UNCHANGED ask

Acknowledge(r) == Proceed(r, "applied", "done") /\ UNCHANGED <<dir, ask>>

(* A refusal is true at the moment it is made; a generated code is never    *)
(* refused.                                                                 *)
Refuse(r) ==
  /\ Proceed(r, "open", "refused")
  /\ ask[r].kind # "generate" /\ Outcomes(r) = {}
  /\ UNCHANGED <<dir, ask>>

Fail(r) ==
  /\ Proceed(r, "open", "unknown") \/ Proceed(r, "applied", "unknown")
  /\ UNCHANGED <<dir, ask>>

Init ==
  /\ dir \in [Codes -> Row \cup {Null}]
  /\ ask = [r \in Reqs |-> Null]
  /\ phase = [r \in Reqs |-> "new"]

Next == \E r \in Reqs : Accept(r) \/ Apply(r) \/ Acknowledge(r) \/ Refuse(r) \/ Fail(r)

Spec == Init /\ [][Next]_vars

=============================================================================
