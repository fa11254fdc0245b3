---------------------- MODULE UrlServiceDirectoryProofs ----------------------
(***************************************************************************)
(* UrlService implements LinkDirectory: initial states are mapped to        *)
(* initial states, and every step to a step or a stutter.                   *)
(***************************************************************************)
EXTENDS UrlServiceDirectory, UrlServiceProofs

USE NullAssumption, CodesAssumption, BoundsAssumption, SwitchAssumption

RedirectSteps ==
  {"lookup", "acquire", "wait", "load", "fill", "release", "decide", "record"}

(* Where a request is tells what kind it is; only updates name an alias,    *)
(* and the check of the alias is only reached by those that change theirs.  *)
Role(r) ==
  /\ pc[r] = "idle" => op[r] = Null
  /\ pc[r] \in RedirectSteps => op[r].kind = "redirect"
  /\ pc[r] = "insert" => op[r].kind \in {"create", "generate"}
  /\ pc[r] \in {"find", "taken", "write"} =>
       /\ op[r].kind \in {"update", "delete"}
       /\ op[r].kind = "delete" => op[r].alias = Null
  /\ pc[r] = "taken" => Renaming(op[r])
  /\ pc[r] = "invalidate" => op[r].kind # "redirect"

RolesOK == \A r \in Reqs : Role(r)

-----------------------------------------------------------------------------
(* What a step of a request looks like from outside *)

(* Only r moves. *)
Alone(r) == \A x \in Reqs \ {r} : pc'[x] = pc[x] /\ op'[x] = op[x]

(* Only r's part of the mapped state moves with it. *)
LEMMA MappedAlone ==
  ASSUME NEW r \in Reqs, Alone(r)
  PROVE  /\ [x \in Reqs |-> Asked(x)]' = [[x \in Reqs |-> Asked(x)] EXCEPT ![r] = Asked(r)']
         /\ [x \in Reqs |-> Phase(x)]' = [[x \in Reqs |-> Phase(x)] EXCEPT ![r] = Phase(r)']
  <1>1. ASSUME NEW x \in Reqs \ {r}
        PROVE  Asked(x)' = Asked(x) /\ Phase(x)' = Phase(x)
    BY <1>1 DEF Alone, Asked, Phase, Writer
  <1> QED
    BY <1>1

(* A step that nobody sees. *)
LEMMA Stutter ==
  ASSUME NEW r \in Reqs, Alone(r), UNCHANGED urls,
         Asked(r)' = Asked(r), Phase(r)' = Phase(r)
  PROVE  UNCHANGED Directory!vars
  BY MappedAlone DEF Directory!vars

(* The steps of the directory, told by what the mapping makes of r. *)
LEMMA Accepted ==
  ASSUME NEW r \in Reqs, Alone(r), UNCHANGED urls, Phase(r) = "new",
         Phase(r)' = "open", Asked(r)' \in Directory!Requests
  PROVE  Directory!Next
  <1>1. Directory!Accept(r)
    BY MappedAlone DEF Directory!Accept, Directory!Proceed
  <1> QED
    BY <1>1 DEF Directory!Next

LEMMA Applied ==
  ASSUME NEW r \in Reqs, Alone(r), Phase(r) = "open",
         Phase(r)' \in {"applied", "unknown"}, Asked(r)' = Asked(r),
         urls' \in Directory!Outcomes(r)
  PROVE  Directory!Next
  <1>1. Directory!Apply(r)
    BY MappedAlone DEF Directory!Apply, Directory!Proceed
  <1> QED
    BY <1>1 DEF Directory!Next

LEMMA Acknowledged ==
  ASSUME NEW r \in Reqs, Alone(r), Phase(r) = "applied", Phase(r)' = "done",
         Asked(r)' = Asked(r), UNCHANGED urls
  PROVE  Directory!Next
  <1>1. Directory!Acknowledge(r)
    BY MappedAlone DEF Directory!Acknowledge, Directory!Proceed
  <1> QED
    BY <1>1 DEF Directory!Next

LEMMA Refused ==
  ASSUME NEW r \in Reqs, Alone(r), Phase(r) = "open", Phase(r)' = "refused",
         Asked(r)' = Asked(r), UNCHANGED urls,
         Asked(r).kind # "generate", Directory!Outcomes(r) = {}
  PROVE  Directory!Next
  <1>1. Directory!Refuse(r)
    BY MappedAlone DEF Directory!Refuse, Directory!Proceed
  <1> QED
    BY <1>1 DEF Directory!Next

LEMMA Failed ==
  ASSUME NEW r \in Reqs, Alone(r), Phase(r) \in {"open", "applied"},
         Phase(r)' = "unknown", Asked(r)' = Asked(r), UNCHANGED urls
  PROVE  Directory!Next
  <1>1. Directory!Fail(r)
    BY MappedAlone DEF Directory!Fail, Directory!Proceed
  <1> QED
    BY <1>1 DEF Directory!Next

-----------------------------------------------------------------------------
(* The roles *)

(* A request is a record of four fields, and not Null. *)
LEMMA RequestsAreRecords ==
  ASSUME NEW q \in AnyRequest, NEW c \in Codes, NEW p, p = [q EXCEPT !.code = c]
  PROVE  /\ p \in AnyRequest /\ p.kind = q.kind
         /\ [p EXCEPT !.code = Null] = [q EXCEPT !.code = Null]
         /\ q.code = c => p = q
         /\ q # Null /\ p # Null
  <1>1. p \in AnyRequest /\ p.kind = q.kind
    BY DEF AnyRequest, Request
  <1>2. \A x \in AnyRequest : x # Null
    BY DEF AnyRequest, Request
  <1>3. /\ [p EXCEPT !.code = Null] = [q EXCEPT !.code = Null]
        /\ q.code = c => p = q
    BY DEF AnyRequest, Request
  <1> QED
    BY <1>1, <1>2, <1>3

(* How a query of a writer ends, seen from outside. *)
LEMMA InsertMoves ==
  ASSUME TypeOK, ControlOK, RolesOK, NEW r \in Reqs, Insert(r)
  PROVE  /\ Alone(r) /\ pc[r] = "insert"
         /\ op[r] \in AnyRequest /\ op[r].kind \in {"create", "generate"}
         /\ op'[r] \in AnyRequest /\ op'[r].kind = op[r].kind
         /\ Asked(r)' = Asked(r)
         /\ pc'[r] \in {"invalidate", "500", "409", "insert"}
  <1> PICK c \in (IF op[r].kind = "create" THEN {op[r].code} ELSE Codes) :
        Insert(r)!2!(c)
    BY DEF Insert
  <1>1. /\ pc[r] = "insert" /\ op[r] \in AnyRequest
        /\ op[r].kind \in {"create", "generate"}
        /\ op[r].kind = "create" => op[r].code \in Codes
    BY DEF Insert, ControlOK, Control, RolesOK, Role, Steps
  <1>2. /\ op'[r] = [op[r] EXCEPT !.code = c] /\ c \in Codes
        /\ \A x \in Reqs \ {r} : op'[x] = op[x]
    BY <1>1 DEF TypeOK
  <1>3. /\ op'[r] \in AnyRequest /\ op'[r].kind = op[r].kind
        /\ [op'[r] EXCEPT !.code = Null] = [op[r] EXCEPT !.code = Null]
        /\ op[r].kind = "create" => op'[r] = op[r]
        /\ op'[r] # Null /\ op[r] # Null
    BY <1>1, <1>2, RequestsAreRecords
  <1>4. Asked(r)' = Asked(r)
    BY <1>1, <1>3 DEF Asked, Writer
  <1>5. \E s \in {"invalidate", "500", "409", "insert"} : Goto(r, s)
    BY DEF CommitThenInvalidate
  <1>6. Alone(r) /\ pc'[r] \in {"invalidate", "500", "409", "insert"}
    BY <1>2, <1>5 DEF Alone, Goto, TypeOK
  <1> QED
    BY <1>1, <1>3, <1>4, <1>6

LEMMA WriteMoves ==
  ASSUME TypeOK, ControlOK, RolesOK, NEW r \in Reqs, Write(r)
  PROVE  /\ Alone(r) /\ op' = op /\ pc[r] = "write"
         /\ op[r] \in AnyRequest /\ op[r].code \in Codes
         /\ op[r].kind \in {"update", "delete"}
         /\ op[r].kind = "delete" => op[r].alias = Null
         /\ pc'[r] \in {"invalidate", "500", "409"}
  <1>1. \E s \in {"invalidate", "500", "409"} : Goto(r, s)
    BY DEF Write, CommitThenInvalidate
  <1>2. op' = op /\ pc[r] = "write"
    BY DEF Write
  <1>3. Alone(r) /\ pc'[r] \in {"invalidate", "500", "409"}
    BY <1>1, <1>2 DEF Alone, Goto, TypeOK
  <1> QED
    BY <1>2, <1>3 DEF ControlOK, Control, RolesOK, Role, Steps

(* Every request keeps to the steps of its kind. *)
LEMMA RolesStep ==
  TypeOK /\ ControlOK /\ RolesOK /\ [Next]_vars => RolesOK'
  <1> SUFFICES ASSUME TypeOK, ControlOK, RolesOK, [Next]_vars PROVE RolesOK'
    OBVIOUS
  <1>1. ASSUME NEW r \in Reqs, Alone(r), Role(r)' PROVE RolesOK'
    BY <1>1 DEF Alone, RolesOK, Role, Renaming
  <1> USE DEF Goto, TypeOK, RolesOK, Role, RedirectSteps
  <1>2. ASSUME NEW r \in Reqs, Start(r) PROVE RolesOK'
    <2>1. PICK q \in ValidRequests : /\ op' = [op EXCEPT ![r] = q]
                                     /\ pc' = [pc EXCEPT ![r] = FirstStep(q.kind)]
      BY <1>2 DEF Start
    <2>2. /\ op'[r] = q /\ pc'[r] = FirstStep(q.kind)
          /\ q.kind = "delete" => q.alias = Null
          /\ q.kind \in {"redirect", "create", "generate", "update", "delete"}
      BY <2>1 DEF ValidRequests, Request
    <2>3. Alone(r)
      BY <2>1 DEF Alone
    <2>4. Role(r)'
      BY <2>2 DEF FirstStep
    <2> QED
      BY <1>1, <2>3, <2>4
  <1>3. ASSUME NEW r \in Reqs,
               Lookup(r) \/ Acquire(r) \/ Wait(r) \/ Load(r) \/ Fill(r)
        PROVE  RolesOK'
    BY <1>3 DEF Lookup, Acquire, Wait, Load, AfterThrow, Fill, Renaming
  <1>4. ASSUME NEW r \in Reqs, Release(r) \/ Decide(r) \/ RecordClick(r) \/ Crash(r)
        PROVE  RolesOK'
    BY <1>4 DEF Release, Decide, RecordClick, Crash, Renaming
  <1>5. ASSUME NEW r \in Reqs, Find(r) \/ Taken(r)
        PROVE  RolesOK'
    BY <1>5 DEF Find, Taken, Renaming
  <1>6. ASSUME NEW r \in Reqs, Insert(r) PROVE RolesOK'
    <2>1. Alone(r) /\ Role(r)'
      BY <1>6, InsertMoves
    <2> QED
      BY <1>1, <2>1
  <1>7. ASSUME NEW r \in Reqs, Write(r) PROVE RolesOK'
    <2>1. Alone(r) /\ Role(r)'
      BY <1>7, WriteMoves
    <2> QED
      BY <1>1, <2>1
  <1>8. ASSUME NEW r \in Reqs, Invalidate(r) PROVE RolesOK'
    <2>1. Alone(r) /\ Role(r)'
      BY <1>8 DEF Invalidate, Success, Alone
    <2> QED
      BY <1>1, <2>1
  <1>9. ASSUME \/ \E c \in Codes : EntryExpires(c) \/ LockExpires(c)
               \/ Tick \/ UNCHANGED vars
        PROVE  RolesOK'
    BY <1>9 DEF EntryExpires, LockExpires, Tick, vars, Renaming
  <1> QED
    BY <1>2, <1>3, <1>4, <1>5, <1>6, <1>7, <1>8, <1>9 DEF Next, Serve

-----------------------------------------------------------------------------
(* Every step maps to a step or a stutter *)

LEMMA PhaseIs ==
  ASSUME NEW r \in Reqs
  PROVE  /\ ~Writer(r) => Phase(r) = "new" /\ Asked(r) = Null
         /\ Writer(r) =>
              /\ pc[r] \in {"insert", "find", "taken", "write"} => Phase(r) = "open"
              /\ pc[r] = "invalidate" => Phase(r) = "applied"
              /\ pc[r] \in {"200", "201", "204"} => Phase(r) = "done"
              /\ pc[r] \in {"404", "409"} => Phase(r) = "refused"
              /\ pc[r] \in {"500", "crashed"} => Phase(r) = "unknown"
              /\ op[r].kind # "generate" => Asked(r) = op[r]
              /\ op[r].kind = "generate" => Asked(r) = [op[r] EXCEPT !.code = Null]
  BY DEF Phase, Asked, Writer

(* The table after updateUrlRecord is the directory's. *)
LEMMA UpdatedIsMoved ==
  ASSUME TypeOK, NEW q \in AnyRequest, q.code \in Codes, urls[q.code] # Null
  PROVE  Updated(q) = Directory!Moved(q)
  <1> DEFINE row == [urls[q.code] EXCEPT !.exp = IF q.exp = Null THEN @ ELSE q.exp]
  <1>1. Directory!Moved(q) = [c \in Codes |-> IF c = Directory!Target(q) THEN row
                                              ELSE IF c = q.code THEN Null ELSE urls[c]]
    BY DEF Directory!Moved
  <1>2. urls = [c \in Codes |-> urls[c]] /\ q.alias \in Codes \cup {Null}
    BY DEF TypeOK, AnyRequest, Request
  <1>3. CASE Renaming(q)
    <2>1. Updated(q) = [urls EXCEPT ![q.code] = Null, ![q.alias] = row]
      BY <1>3 DEF Updated
    <2>2. Directory!Target(q) = q.alias /\ q.alias # q.code
      BY <1>3 DEF Directory!Target, Renaming
    <2> HIDE DEF row
    <2> QED
      BY <1>1, <1>2, <2>1, <2>2
  <1>4. CASE ~Renaming(q)
    <2>1. Updated(q) = [urls EXCEPT ![q.code] = row]
      BY <1>4 DEF Updated
    <2>2. Directory!Target(q) = q.code
      BY <1>4 DEF Directory!Target, Renaming
    <2> HIDE DEF row
    <2> QED
      BY <1>1, <1>2, <2>1, <2>2
  <1> QED
    BY <1>3, <1>4

(* What the directory may become by the request of r, kind by kind. *)
LEMMA OutcomesAre ==
  ASSUME NEW r \in Reqs, NEW q, Asked(r) = q
  PROVE  /\ q.kind \in {"create", "generate"} =>
              Directory!Outcomes(r) =
                {[urls EXCEPT ![c] = [url |-> r, exp |-> q.exp]] :
                   c \in {d \in Codes : urls[d] = Null /\ q.code \in {d, Null}}}
         /\ q.kind = "update" =>
              Directory!Outcomes(r) =
                IF /\ q.code \notin {d \in Codes : urls[d] = Null}
                   /\ Directory!Target(q) \in {d \in Codes : urls[d] = Null} \cup {q.code}
                THEN {Directory!Moved(q)} ELSE {}
         /\ q.kind = "delete" =>
              Directory!Outcomes(r) =
                IF q.code \notin {d \in Codes : urls[d] = Null}
                THEN {[urls EXCEPT ![q.code] = Null]} ELSE {}
  <1>1. [x \in Reqs |-> Asked(x)][r] = q
    OBVIOUS
  <1>2. CASE q.kind \in {"create", "generate"}
    BY <1>1, <1>2 DEF Directory!Outcomes
  <1>3. CASE q.kind = "update"
    BY <1>1, <1>3 DEF Directory!Outcomes
  <1>4. CASE q.kind = "delete"
    BY <1>1, <1>4 DEF Directory!Outcomes
  <1> QED
    BY <1>2, <1>3, <1>4

Matched == Directory!Next \/ UNCHANGED Directory!vars

(* The server's choice of code, or the caller's, is one of the outcomes. *)
LEMMA InsertMatches ==
  ASSUME TypeOK, ControlOK, RolesOK, NEW r \in Reqs, Insert(r)
  PROVE  Matched
  <1> PICK c \in (IF op[r].kind = "create" THEN {op[r].code} ELSE Codes) :
        Insert(r)!2!(c)
    BY DEF Insert
  <1> DEFINE q == Asked(r)
             newUrls == [urls EXCEPT ![c] = [url |-> r, exp |-> op[r].exp]]
  <1>1. /\ Alone(r) /\ pc[r] = "insert"
        /\ op[r] \in AnyRequest /\ op[r].kind \in {"create", "generate"}
        /\ op'[r] \in AnyRequest /\ op'[r].kind = op[r].kind
        /\ Asked(r)' = Asked(r)
    BY InsertMoves
  <1>2. op[r] # Null /\ op'[r] # Null
    BY <1>1 DEF AnyRequest, Request
  <1>3. Writer(r) /\ Writer(r)' /\ Phase(r) = "open"
    BY <1>1, <1>2, PhaseIs DEF Writer
  <1>4. /\ pc'[r] \in {"insert"} => Phase(r)' = "open"
        /\ pc'[r] = "invalidate" => Phase(r)' = "applied"
        /\ pc'[r] = "409" => Phase(r)' = "refused"
        /\ pc'[r] = "500" => Phase(r)' = "unknown"
    BY <1>3 DEF Phase
  <1>5. /\ op[r].kind = "create" => q = op[r] /\ c = q.code
        /\ op[r].kind = "generate" => q = [op[r] EXCEPT !.code = Null]
    BY <1>1, <1>3 DEF Asked
  <1>6. /\ c \in Codes /\ q.kind = op[r].kind /\ q.exp = op[r].exp
        /\ q.code \in {c, Null}
        /\ q.kind = "create" => q.code = c /\ q.code # Null
    BY <1>1, <1>5 DEF ControlOK, Control, Steps, AnyRequest, Request
  <1>7. Directory!Outcomes(r) =
          {[urls EXCEPT ![d] = [url |-> r, exp |-> op[r].exp]] :
             d \in {e \in Codes : urls[e] = Null /\ q.code \in {e, Null}}}
    <2> HIDE DEF q
    <2>1. q.kind \in {"create", "generate"} /\ Asked(r) = q
      BY <1>1, <1>6 DEF q
    <2> QED
      BY <1>6, <2>1, OutcomesAre
  <1> HIDE DEF q
  <1>8. CASE ~CodeTaken(c) /\ CommitThenInvalidate(r, newUrls, {c})
    <2>1. urls' \in Directory!Outcomes(r)
      BY <1>6, <1>7, <1>8 DEF CodeTaken, CommitThenInvalidate, Commit
    <2>2. pc'[r] \in {"invalidate", "500"}
      BY <1>8 DEF CommitThenInvalidate, Goto, TypeOK
    <2> QED
      BY <1>1, <1>3, <1>4, <2>1, <2>2, Applied DEF Matched
  <1>9. CASE /\ CodeTaken(c) /\ TableUnchanged
             /\ Goto(r, IF op[r].kind = "create" THEN "409"
                        ELSE IF tries[r] + 1 = MAX_ATTEMPTS THEN "500"
                        ELSE "insert")
    <2>1. UNCHANGED urls /\ pc'[r] = IF op[r].kind = "create" THEN "409"
                        ELSE IF tries[r] + 1 = MAX_ATTEMPTS THEN "500"
                        ELSE "insert"
      BY <1>9 DEF TableUnchanged, Goto, TypeOK
    <2>2. CASE op[r].kind = "create"
      <3>1. Directory!Outcomes(r) = {}
        BY <1>6, <1>7, <1>9, <2>2 DEF CodeTaken
      <3> QED
        BY <1>1, <1>3, <1>4, <1>6, <2>1, <2>2, <3>1, Refused DEF Matched, q
    <2>3. CASE pc'[r] = "500"
      BY <1>1, <1>3, <1>4, <2>1, <2>3, Failed DEF Matched
    <2>4. CASE pc'[r] = "insert"
      BY <1>1, <1>3, <1>4, <2>1, <2>4, Stutter DEF Matched
    <2> QED
      BY <1>1, <2>1, <2>2, <2>3, <2>4
  <1>10. CASE Goto(r, "500") /\ TableUnchanged
    <2>1. UNCHANGED urls /\ pc'[r] = "500"
      BY <1>10 DEF TableUnchanged, Goto, TypeOK
    <2> QED
      BY <1>1, <1>3, <1>4, <2>1, Failed DEF Matched
  <1> QED
    BY <1>8, <1>9, <1>10

(* An update or a delete happens in its write, or is refused or fails there. *)
LEMMA WriteMatches ==
  ASSUME TypeOK, ControlOK, RolesOK, NEW r \in Reqs, Write(r)
  PROVE  Matched
  <1> DEFINE q == op[r]
             newUrls == IF q.kind = "update" THEN Updated(q)
                        ELSE [urls EXCEPT ![q.code] = Null]
             free == {d \in Codes : urls[d] = Null}
  <1>1. /\ Alone(r) /\ op' = op /\ pc[r] = "write"
        /\ q \in AnyRequest /\ q.code \in Codes
        /\ q.kind \in {"update", "delete"}
        /\ q.kind = "delete" => q.alias = Null
    BY WriteMoves
  <1>2. q # Null
    BY <1>1 DEF AnyRequest, Request
  <1>3. /\ Writer(r) /\ Writer(r)' /\ Phase(r) = "open"
        /\ Asked(r) = q /\ Asked(r)' = Asked(r)
    BY <1>1, <1>2 DEF Writer, Phase, Asked
  <1>4. /\ pc'[r] = "invalidate" => Phase(r)' = "applied"
        /\ pc'[r] = "409" => Phase(r)' = "refused"
        /\ pc'[r] = "500" => Phase(r)' = "unknown"
    BY <1>3 DEF Phase
  <1>5. CASE /\ urls[q.code] # Null /\ ~(Renaming(q) /\ CodeTaken(q.alias))
             /\ CommitThenInvalidate(r, newUrls, Touched(q))
    <2>1. urls' = newUrls /\ pc'[r] \in {"invalidate", "500"}
      BY <1>5 DEF CommitThenInvalidate, Commit, Goto, TypeOK
    <2>2. CASE q.kind = "update"
      <3>1. urls' = Directory!Moved(q)
        BY <1>1, <1>5, <2>1, <2>2, UpdatedIsMoved
      <3>2. q.code \notin free /\ Directory!Target(q) \in free \cup {q.code}
        BY <1>1, <1>5 DEF Renaming, CodeTaken, Directory!Target, AnyRequest, Request
      <3>3. Directory!Outcomes(r) = {Directory!Moved(q)}
        BY <1>3, <2>2, <3>2, OutcomesAre
      <3> QED
        BY <1>1, <1>3, <1>4, <2>1, <3>1, <3>3, Applied DEF Matched
    <2>3. CASE q.kind = "delete"
      <3>1. Directory!Outcomes(r) = {[urls EXCEPT ![q.code] = Null]}
        BY <1>1, <1>3, <1>5, <2>3, OutcomesAre
      <3>2. urls' = [urls EXCEPT ![q.code] = Null]
        BY <2>1, <2>3
      <3> QED
        BY <1>1, <1>3, <1>4, <2>1, <3>1, <3>2, Applied DEF Matched
    <2> QED
      BY <1>1, <2>2, <2>3
  <1>6. CASE Goto(r, "500") /\ TableUnchanged
    <2>1. UNCHANGED urls /\ pc'[r] = "500"
      BY <1>6 DEF TableUnchanged, Goto, TypeOK
    <2> QED
      BY <1>1, <1>3, <1>4, <2>1, Failed DEF Matched
  <1>7. CASE /\ urls[q.code] # Null /\ Renaming(q) /\ CodeTaken(q.alias)
             /\ Goto(r, "409") /\ TableUnchanged
    <2>1. UNCHANGED urls /\ pc'[r] = "409"
      BY <1>7 DEF TableUnchanged, Goto, TypeOK
    <2>2. q.kind = "update" /\ Directory!Target(q) = q.alias /\ q.alias # q.code
      BY <1>1, <1>7 DEF Renaming, Directory!Target
    <2>3. Directory!Outcomes(r) = {}
      BY <1>3, <1>7, <2>2, OutcomesAre DEF CodeTaken
    <2> QED
      BY <1>1, <1>3, <1>4, <2>1, <2>2, <2>3, Refused DEF Matched
  <1> QED
    BY <1>5, <1>6, <1>7 DEF Write

(* A request arrives: a writer is accepted, a redirect is not seen. *)
LEMMA StartMatches ==
  ASSUME TypeOK, RolesOK, NEW r \in Reqs, Start(r)
  PROVE  Matched
  <1>1. PICK q \in ValidRequests : /\ op' = [op EXCEPT ![r] = q]
                                   /\ pc' = [pc EXCEPT ![r] = FirstStep(q.kind)]
    BY DEF Start, Goto
  <1>2. /\ Alone(r) /\ UNCHANGED urls /\ op[r] = Null
        /\ op'[r] = q /\ pc'[r] = FirstStep(q.kind)
    BY <1>1 DEF Start, store, Alone, TypeOK, RolesOK, Role
  <1>3. q \in AnyRequest
    BY RequestsAreTyped DEF TypeOK
  <1>4. q # Null
    BY <1>3 DEF AnyRequest, Request
  <1>5. ~Writer(r) /\ Phase(r) = "new" /\ Asked(r) = Null
    BY <1>2 DEF Writer, Phase, Asked
  <1>6. CASE q.kind = "redirect"
    <2>1. ~Writer(r)'
      BY <1>2, <1>6 DEF Writer
    <2>2. Phase(r)' = "new" /\ Asked(r)' = Null
      BY <2>1 DEF Phase, Asked
    <2> QED
      BY <1>2, <1>5, <2>2, Stutter DEF Matched
  <1>7. CASE q.kind # "redirect"
    <2>1. Writer(r)' /\ pc'[r] \in {"insert", "find"}
      BY <1>2, <1>4, <1>7 DEF Writer, FirstStep
    <2>2. Phase(r)' = "open"
      BY <2>1 DEF Phase
    <2>3. Asked(r)' = IF q.kind = "generate" THEN [q EXCEPT !.code = Null] ELSE q
      BY <1>2, <2>1 DEF Asked
    <2>4. Asked(r)' \in Directory!Requests
      BY <1>3, <1>7, <2>3 DEF AnyRequest, Request, Directory!Requests
    <2> QED
      BY <1>2, <1>5, <2>2, <2>4, Accepted DEF Matched
  <1> QED
    BY <1>6, <1>7

(* What the checks of a writer find is a refusal, or not seen. *)
LEMMA ChecksMatch ==
  ASSUME TypeOK, ControlOK, RolesOK, NEW r \in Reqs, Find(r) \/ Taken(r)
  PROVE  Matched
  <1> DEFINE q == op[r]
  <1>1. /\ pc[r] \in {"find", "taken"} /\ op' = op /\ UNCHANGED urls
        /\ q \in AnyRequest /\ q.code \in Codes
        /\ q.kind \in {"update", "delete"}
        /\ q.kind = "delete" => q.alias = Null
        /\ pc[r] = "taken" => Renaming(q)
    BY DEF Find, Taken, store, ControlOK, Control, RolesOK, Role, Steps
  <1>2. q # Null
    BY <1>1 DEF AnyRequest, Request
  <1>3. /\ Alone(r)
        /\ pc'[r] \in {"404", "409", "500", "taken", "write"}
        /\ pc'[r] = "404" => urls[q.code] = Null
        /\ pc'[r] = "409" => pc[r] = "taken" /\ urls[q.alias] # Null
    BY DEF Find, Taken, Goto, Alone, TypeOK
  <1>4. /\ Writer(r) /\ Writer(r)' /\ Phase(r) = "open"
        /\ Asked(r) = q /\ Asked(r)' = Asked(r)
    BY <1>1, <1>2 DEF Writer, Phase, Asked
  <1>5. CASE pc'[r] \in {"404", "409"}
    <2>1. Phase(r)' = "refused"
      BY <1>4, <1>5 DEF Phase
    <2>2. CASE pc'[r] = "404"
      <3>1. Directory!Outcomes(r) = {}
        BY <1>1, <1>3, <1>4, <2>2, OutcomesAre
      <3> QED
        BY <1>1, <1>3, <1>4, <2>1, <3>1, Refused DEF Matched
    <2>3. CASE pc'[r] = "409"
      <3>1. q.kind = "update" /\ Directory!Target(q) = q.alias /\ q.alias # q.code
        BY <1>1, <1>3, <2>3 DEF Renaming, Directory!Target
      <3>2. Directory!Outcomes(r) = {}
        BY <1>1, <1>3, <1>4, <2>3, <3>1, OutcomesAre
      <3> QED
        BY <1>1, <1>3, <1>4, <2>1, <3>2, Refused DEF Matched
    <2> QED
      BY <1>5, <2>2, <2>3
  <1>6. CASE pc'[r] = "500"
    <2>1. Phase(r)' = "unknown"
      BY <1>4, <1>6 DEF Phase
    <2> QED
      BY <1>1, <1>3, <1>4, <2>1, Failed DEF Matched
  <1>7. CASE pc'[r] \in {"taken", "write"}
    <2>1. Phase(r)' = "open"
      BY <1>4, <1>7 DEF Phase
    <2> QED
      BY <1>1, <1>3, <1>4, <2>1, Stutter DEF Matched
  <1> QED
    BY <1>3, <1>5, <1>6, <1>7

(* The last invalidation acknowledges the change, the others are not seen. *)
LEMMA InvalidateMatches ==
  ASSUME TypeOK, ControlOK, RolesOK, NEW r \in Reqs, Invalidate(r)
  PROVE  Matched
  <1>1. /\ pc[r] = "invalidate" /\ op' = op /\ UNCHANGED urls
        /\ op[r] \in AnyRequest /\ op[r].kind # "redirect"
    BY DEF Invalidate, ControlOK, Control, RolesOK, Role, Steps
  <1>2. op[r] # Null
    BY <1>1 DEF AnyRequest, Request
  <1>3. Alone(r) /\ pc'[r] \in {"200", "201", "204", "invalidate"}
    BY DEF Invalidate, Success, Goto, Alone, TypeOK
  <1>4. /\ Writer(r) /\ Writer(r)' /\ Phase(r) = "applied"
        /\ Asked(r)' = Asked(r)
    BY <1>1, <1>2 DEF Writer, Phase, Asked
  <1>5. /\ pc'[r] = "invalidate" => Phase(r)' = "applied"
        /\ pc'[r] \in {"200", "201", "204"} => Phase(r)' = "done"
    BY <1>4 DEF Phase
  <1> QED
    BY <1>1, <1>3, <1>4, <1>5, Stutter, Acknowledged DEF Matched

(* A crash leaves the caller of a writer in the dark. *)
LEMMA CrashMatches ==
  ASSUME TypeOK, ControlOK, RolesOK, NEW r \in Reqs, Crash(r)
  PROVE  Matched
  <1>1. /\ pc[r] \in Steps /\ pc'[r] = "crashed" /\ Alone(r)
        /\ op' = op /\ UNCHANGED urls
    BY DEF Crash, Active, store, Goto, Alone, TypeOK
  <1>2. CASE Writer(r)
    <2>1. Writer(r)' /\ Asked(r)' = Asked(r)
      BY <1>1, <1>2 DEF Writer, Asked
    <2>2. Phase(r)' = "unknown"
      BY <1>1, <2>1 DEF Phase
    <2>3. pc[r] \in {"insert", "find", "taken", "write", "invalidate"}
      BY <1>1, <1>2 DEF Writer, Steps, RolesOK, Role, RedirectSteps
    <2>4. Phase(r) \in {"open", "applied"}
      BY <1>2, <2>3 DEF Phase
    <2> QED
      BY <1>1, <2>1, <2>2, <2>4, Failed DEF Matched
  <1>3. CASE ~Writer(r)
    <2>1. ~Writer(r)'
      BY <1>1, <1>3 DEF Writer
    <2>2. Phase(r) = "new" /\ Phase(r)' = "new" /\ Asked(r) = Null /\ Asked(r)' = Null
      BY <1>3, <2>1 DEF Phase, Asked
    <2> QED
      BY <1>1, <2>2, Stutter DEF Matched
  <1> QED
    BY <1>2, <1>3

(* Cache, lock and clicks have no counterpart. *)
LEMMA RedirectMatches ==
  ASSUME TypeOK, RolesOK, NEW r \in Reqs,
         \/ Lookup(r) \/ Acquire(r) \/ Wait(r) \/ Load(r) \/ Fill(r)
         \/ Release(r) \/ Decide(r) \/ RecordClick(r)
  PROVE  Matched
  <1>1. pc[r] \in RedirectSteps /\ op' = op /\ UNCHANGED urls
    BY DEF Lookup, Acquire, Wait, Load, Fill, Release, Decide, RecordClick, store,
           RedirectSteps
  <1>2. \A x \in Reqs \ {r} : pc'[x] = pc[x]
    BY DEF Lookup, Acquire, Wait, Load, Fill, Release, Decide, RecordClick, Goto,
           TypeOK
  <1>3. ~Writer(r) /\ ~Writer(r)'
    BY <1>1 DEF Writer, RolesOK, Role
  <1>4. Phase(r) = "new" /\ Phase(r)' = "new" /\ Asked(r) = Null /\ Asked(r)' = Null
    BY <1>3 DEF Phase, Asked
  <1>5. Alone(r)
    BY <1>1, <1>2 DEF Alone
  <1> QED
    BY <1>1, <1>4, <1>5, Stutter DEF Matched

LEMMA EnvironmentMatches ==
  ASSUME \/ \E c \in Codes : EntryExpires(c) \/ LockExpires(c)
         \/ Tick \/ UNCHANGED vars
  PROVE  Matched
  <1>1. op' = op /\ pc' = pc /\ urls' = urls
    BY DEF EntryExpires, LockExpires, Tick, store, vars
  <1>2. \A r \in Reqs : Asked(r)' = Asked(r) /\ Phase(r)' = Phase(r)
    BY <1>1 DEF Asked, Phase, Writer
  <1> QED
    BY <1>1, <1>2 DEF Matched, Directory!vars

LEMMA StepMatches ==
  TypeOK /\ ControlOK /\ RolesOK /\ [Next]_vars => Matched
  BY StartMatches, RedirectMatches, InsertMatches, ChecksMatch, WriteMatches,
     InvalidateMatches, CrashMatches, EnvironmentMatches DEF Next, Serve

(* Callers see a map changed by whole requests: each at most once, as       *)
(* asked, before any success is answered, and not at all when it is refused *)
(* with 404 or 409; whatever interleaves, fails half-way or dies.           *)
THEOREM DirectoryImplemented == Spec => ImplementsDirectory
  <1>1. Init => Directory!Init
    <2> SUFFICES ASSUME Init PROVE Directory!Init
      OBVIOUS
    <2>1. \A r \in Reqs : ~Writer(r)
      BY DEF Init, Writer
    <2>2. \A r \in Reqs : Asked(r) = Null /\ Phase(r) = "new"
      BY <2>1 DEF Asked, Phase
    <2> QED
      BY <2>2 DEF Init, Directory!Init, Row, Directory!Row
  <1>2. Init => RolesOK
    BY DEF Init, RolesOK, Role, RedirectSteps
  <1>3. Spec => [](TypeOK /\ ControlOK /\ RolesOK)
    BY InitControl, TypeStep, RolesStep, <1>2, PTL DEF Spec
  <1>4. TypeOK /\ ControlOK /\ RolesOK /\ [Next]_vars => [Directory!Next]_Directory!vars
    BY StepMatches DEF Matched
  <1> QED
    BY <1>1, <1>3, <1>4, PTL DEF Spec, ImplementsDirectory, Directory!Spec

=============================================================================
