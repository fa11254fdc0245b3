-------------------------- MODULE UrlServiceProofs --------------------------
(***************************************************************************)
(* Proofs about UrlService, for every set of codes and requests, every     *)
(* bound and every combination of the fault switches.                      *)
(***************************************************************************)
EXTENDS UrlService, TLAPS

(* Where a request is says what is known of it: which fields it has, how    *)
(* often it has retried, and whether it owes an invalidation.               *)
Control(r) ==
  /\ pc[r] \in Steps => op[r] \in AnyRequest
  /\ pc[r] \in Steps \ {"insert"} => op[r].code \in Codes
  /\ pc[r] = "taken" => op[r].alias \in Codes
  /\ pc[r] = "insert" =>
       /\ op[r].kind = "create" => op[r].code \in Codes
       /\ op[r].exp \in 0 .. MaxTime
       /\ tries[r] < MAX_ATTEMPTS
  /\ pc[r] \in {"idle", "lookup", "acquire"} => tries[r] = 0
  /\ pc[r] = "wait" => tries[r] < STAMPEDE_MAX_RETRIES
  /\ pc[r] # "invalidate" => owed[r] = {}

ControlOK == \A r \in Reqs : Control(r)

USE NullAssumption, CodesAssumption, BoundsAssumption, SwitchAssumption

-----------------------------------------------------------------------------
(* Types *)

(* The requests the schemas let through name a code, unless it is to be     *)
(* generated, and a create has an expiry within the clock's bound.          *)
LEMMA RequestsAreTyped ==
  ASSUME now \in 0 .. MaxTime
  PROVE  /\ ValidRequests \subseteq AnyRequest
         /\ \A q \in ValidRequests :
              /\ q.kind # "generate" => q.code \in Codes
              /\ q.kind \in {"create", "generate"} => q.exp \in 0 .. MaxTime
  BY DEF ValidRequests, AnyRequest, Request, Future

(* The invariant holds before any request was served. *)
LEMMA InitControl == Init => TypeOK /\ ControlOK
  BY DEF Init, TypeOK, ControlOK, Control, Row, CachedUrl, View, Limit, Steps

(* A commit keeps the types; it leads to the invalidation of codes or to a  *)
(* 500, and touches what no other request owes.                             *)
LEMMA CommitControl ==
  ASSUME TypeOK, NEW r \in Reqs, pc[r] \in {"insert", "write"}, owed[r] = {},
         NEW newUrls \in [Codes -> Row \cup {Null}], NEW codes \in SUBSET Codes,
         CommitThenInvalidate(r, newUrls, codes)
  PROVE  /\ urls' \in [Codes -> Row \cup {Null}]
         /\ bound' \in SUBSET (Codes \X (Row \cup {NotFound}))
         /\ overtaken' \in SUBSET Reqs
         /\ excused' \in SUBSET Codes
         /\ owed' \in [Reqs -> SUBSET Codes]
         /\ \/ pc' = [pc EXCEPT ![r] = "500"] /\ owed' = owed
            \/ /\ pc' = [pc EXCEPT ![r] = "invalidate"]
               /\ \A x \in Reqs \ {r} : owed'[x] = owed[x]
  BY DEF CommitThenInvalidate, Commit, View, TypeOK, Goto, Cached

(* updateUrlRecord leaves a well-formed table. *)
LEMMA UpdatedTyped ==
  ASSUME TypeOK, NEW q \in AnyRequest, q.code \in Codes, urls[q.code] # Null
  PROVE  Updated(q) \in [Codes -> Row \cup {Null}]
  <1> DEFINE row == [urls[q.code] EXCEPT !.exp = IF q.exp = Null THEN @ ELSE q.exp]
  <1>1. urls[q.code] \in Row
    BY DEF TypeOK
  <1>2. q.exp \in 0 .. MaxTime \/ q.exp = Null
    BY DEF AnyRequest, Request
  <1>3. row \in Row
    BY <1>1, <1>2 DEF Row
  <1> QED
    BY <1>3 DEF TypeOK, Updated

(* Every step of every request, and of the environment, keeps the types and *)
(* what is known of each request from where it is.                          *)
LEMMA TypeStep == TypeOK /\ ControlOK /\ [Next]_vars => TypeOK' /\ ControlOK'
  <1> SUFFICES ASSUME TypeOK, ControlOK, [Next]_vars
               PROVE  TypeOK' /\ ControlOK'
      OBVIOUS
  <1> USE DEF TypeOK, ControlOK, Control, Steps, store, Goto
  <1>1. ASSUME NEW r \in Reqs, Start(r) PROVE TypeOK' /\ ControlOK'
      BY <1>1, RequestsAreTyped DEF Start, FirstStep
  <1>2. ASSUME NEW r \in Reqs, Lookup(r) PROVE TypeOK' /\ ControlOK'
      BY <1>2 DEF Lookup, lookupCache
  <1>3. ASSUME NEW r \in Reqs, Acquire(r) PROVE TypeOK' /\ ControlOK'
      BY <1>3 DEF Acquire, acquireRebuildLock
  <1>4. ASSUME NEW r \in Reqs, Wait(r) PROVE TypeOK' /\ ControlOK'
      BY <1>4 DEF Wait, lookupCache, LastTurn, Limit
  <1>5. ASSUME NEW r \in Reqs, Load(r) PROVE TypeOK' /\ ControlOK'
      BY <1>5 DEF Load, AfterThrow, View, CachedUrl, Statuses
  <1>6. ASSUME NEW r \in Reqs, Fill(r) PROVE TypeOK' /\ ControlOK'
      BY <1>6 DEF Fill, cacheValue
  <1>7. ASSUME NEW r \in Reqs, Release(r) PROVE TypeOK' /\ ControlOK'
      BY <1>7 DEF Release, releaseRebuildLock, Statuses
  <1>8. ASSUME NEW r \in Reqs, Decide(r) PROVE TypeOK' /\ ControlOK'
      BY <1>8 DEF Decide, Statuses
  <1>9. ASSUME NEW r \in Reqs, RecordClick(r) PROVE TypeOK' /\ ControlOK'
      BY <1>9 DEF RecordClick, Statuses
  <1>10. ASSUME NEW r \in Reqs, Insert(r) PROVE TypeOK' /\ ControlOK'
    <2> PICK c \in (IF op[r].kind = "create" THEN {op[r].code} ELSE Codes) :
          Insert(r)!2!(c)
      BY <1>10 DEF Insert
    <2>1. op[r] \in AnyRequest /\ c \in Codes /\ op[r].exp \in 0 .. MaxTime
          /\ tries[r] < MAX_ATTEMPTS /\ owed[r] = {} /\ pc[r] = "insert"
      BY <1>10 DEF Insert
    <2>2. op' \in [Reqs -> AnyRequest \cup {Null}] /\ op'[r] \in AnyRequest
          /\ op'[r].code = c /\ op'[r].exp = op[r].exp
          /\ \A x \in Reqs \ {r} : op'[x] = op[x]
      BY <2>1 DEF AnyRequest, Request
    <2>3. UNCHANGED <<cache, lock, clicks, now, val, token>>
      BY <1>10 DEF Insert
    <2> DEFINE newUrls == [urls EXCEPT ![c] = [url |-> r, exp |-> op[r].exp]]
    <2>4. newUrls \in [Codes -> Row \cup {Null}]
      BY <2>1 DEF Row
    <2>5. CASE CommitThenInvalidate(r, newUrls, {c}) /\ UNCHANGED tries
      <3> HIDE DEF newUrls
      <3>0. {c} \in SUBSET Codes
        BY <2>1
      <3>1. /\ urls' \in [Codes -> Row \cup {Null}]
            /\ bound' \in SUBSET (Codes \X (Row \cup {NotFound}))
            /\ overtaken' \in SUBSET Reqs
            /\ excused' \in SUBSET Codes
            /\ owed' \in [Reqs -> SUBSET Codes]
            /\ \/ pc' = [pc EXCEPT ![r] = "500"] /\ owed' = owed
               \/ /\ pc' = [pc EXCEPT ![r] = "invalidate"]
                  /\ \A x \in Reqs \ {r} : owed'[x] = owed[x]
        BY <2>1, <2>4, <2>5, <3>0, CommitControl
      <3>2. TypeOK'
        BY <2>2, <2>3, <2>5, <3>1 DEF Statuses
      <3>3. \A x \in Reqs \ {r} : Control(x)'
        BY <2>2, <2>5, <3>1
      <3>4. Control(r)'
        BY <2>1, <2>2, <3>1
      <3> QED
        BY <3>2, <3>3, <3>4
    <2>6. CASE /\ tries' = [tries EXCEPT ![r] = @ + 1]
               /\ Goto(r, IF op[r].kind = "create" THEN "409"
                          ELSE IF tries[r] + 1 = MAX_ATTEMPTS THEN "500"
                          ELSE "insert")
               /\ TableUnchanged
      BY <2>1, <2>2, <2>3, <2>6 DEF TableUnchanged, Statuses, Limit
    <2>7. CASE Goto(r, "500") /\ TableUnchanged /\ UNCHANGED tries
      BY <2>1, <2>2, <2>3, <2>7 DEF TableUnchanged, Statuses
    <2> QED
      BY <2>5, <2>6, <2>7
  <1>11. ASSUME NEW r \in Reqs, Find(r) PROVE TypeOK' /\ ControlOK'
      BY <1>11 DEF Find, Statuses, Renaming, AnyRequest, Request
  <1>12. ASSUME NEW r \in Reqs, Taken(r) PROVE TypeOK' /\ ControlOK'
      BY <1>12 DEF Taken, Statuses, CodeTaken
  <1>13. ASSUME NEW r \in Reqs, Write(r) PROVE TypeOK' /\ ControlOK'
    <2> DEFINE q == op[r]
               newUrls == IF q.kind = "update" THEN Updated(q)
                          ELSE [urls EXCEPT ![q.code] = Null]
    <2>1. q \in AnyRequest /\ q.code \in Codes /\ owed[r] = {} /\ pc[r] = "write"
      BY <1>13 DEF Write
    <2>2. UNCHANGED <<cache, lock, clicks, now, op, val, token, tries>>
      BY <1>13 DEF Write
    <2>3. CASE urls[q.code] # Null /\ CommitThenInvalidate(r, newUrls, Touched(q))
      <3>1. newUrls \in [Codes -> Row \cup {Null}]
        BY <2>1, <2>3, UpdatedTyped
      <3>2. Touched(q) \in SUBSET Codes
        BY <2>1 DEF Touched, Renaming, AnyRequest, Request
      <3>3. /\ urls' \in [Codes -> Row \cup {Null}]
            /\ bound' \in SUBSET (Codes \X (Row \cup {NotFound}))
            /\ overtaken' \in SUBSET Reqs
            /\ excused' \in SUBSET Codes
            /\ owed' \in [Reqs -> SUBSET Codes]
            /\ \/ pc' = [pc EXCEPT ![r] = "500"] /\ owed' = owed
               \/ /\ pc' = [pc EXCEPT ![r] = "invalidate"]
                  /\ \A x \in Reqs \ {r} : owed'[x] = owed[x]
        BY <2>1, <2>3, <3>1, <3>2, CommitControl
      <3> QED
        BY <2>1, <2>2, <3>3 DEF Statuses
    <2>4. CASE (Goto(r, "500") \/ Goto(r, "409")) /\ TableUnchanged
      BY <2>1, <2>2, <2>4 DEF TableUnchanged, Statuses
    <2> QED
      BY <1>13, <2>3, <2>4 DEF Write
  <1>14. ASSUME NEW r \in Reqs, Invalidate(r) PROVE TypeOK' /\ ControlOK'
    <2> DEFINE c == IF op[r].code \in owed[r] THEN op[r].code ELSE op[r].alias
    <2>1. UNCHANGED <<urls, lock, clicks, now, op, val, token, tries, bound,
                      overtaken>>
      BY <1>14 DEF Invalidate
    <2>2. pc[r] = "invalidate" /\ op[r] \in AnyRequest /\ op[r].code \in Codes
      BY <1>14 DEF Invalidate
    <2>3. invalidateUrl(c)
      BY <1>14 DEF Invalidate
    <2>4. cache' \in [Codes -> CachedUrl \cup {NotFound, Null}]
          /\ excused' \in SUBSET Codes
      BY <2>3 DEF invalidateUrl, Cached
    <2>5. /\ owed' = [owed EXCEPT ![r] = @ \ {c}]
          /\ \/ owed[r] = {c} /\ pc' = [pc EXCEPT ![r] = Success(op[r].kind)]
             \/ pc' = [pc EXCEPT ![r] = "invalidate"]
      BY <1>14 DEF Invalidate
    <2>6. Success(op[r].kind) \in Statuses
      BY DEF Success, Statuses
    <2>7. TypeOK'
      BY <2>1, <2>4, <2>5, <2>6
    <2> QED
      BY <2>1, <2>2, <2>5, <2>6, <2>7 DEF Statuses
  <1>15. ASSUME NEW r \in Reqs, Crash(r) PROVE TypeOK' /\ ControlOK'
      BY <1>15 DEF Crash, Cached
  <1>16. ASSUME NEW c \in Codes, EntryExpires(c) PROVE TypeOK' /\ ControlOK'
      BY <1>16 DEF EntryExpires
  <1>17. ASSUME NEW c \in Codes, LockExpires(c) PROVE TypeOK' /\ ControlOK'
      BY <1>17 DEF LockExpires
  <1>18. CASE Tick
      BY <1>18 DEF Tick
  <1>19. CASE UNCHANGED vars
      BY <1>19 DEF vars
  <1> QED
      BY <1>1, <1>2, <1>3, <1>4, <1>5, <1>6, <1>7, <1>8, <1>9, <1>10, <1>11, <1>12, <1>13, <1>14, <1>15, <1>16, <1>17, <1>18, <1>19 DEF Next, Serve

(* No loop passes its limit, and every variable keeps its shape: the loops  *)
(* of resolveCachedUrl and createShortUrl, for every number of requests.    *)
THEOREM TypeCorrect == Spec => []TypeOK
  <1>1. Spec => [](TypeOK /\ ControlOK)
    BY InitControl, TypeStep, PTL DEF Spec
  <1> QED
    BY <1>1, PTL

-----------------------------------------------------------------------------
(* Staleness *)

Fresh == StalenessIsExplained /\ LoadersAreCurrent

(* A commit makes stale only what it owes an invalidation of or has an      *)
(* excuse for, provided the codes it owes include those it changed.         *)
LEMMA CommitFresh ==
  ASSUME TypeOK, ControlOK, Fresh,
         NEW r \in Reqs, pc[r] \in {"insert", "write"},
         NEW newUrls \in [Codes -> Row \cup {Null}], NEW codes \in SUBSET Codes,
         \A c \in Codes \ codes : newUrls[c] = urls[c],
         CommitThenInvalidate(r, newUrls, codes),
         UNCHANGED <<cache, val>>, \A x \in Reqs \ {r} : op'[x] = op[x]
  PROVE  Fresh'
  <1>1. StalenessIsExplained'
    BY DEF StalenessIsExplained, Stale, Fresh, CommitThenInvalidate, Commit,
           Goto, TypeOK, ControlOK, Control, Cached
  <1>2. LoadersAreCurrent'
    <2> SUFFICES ASSUME NEW x \in Reqs, pc'[x] = "fill", x \notin overtaken'
                 PROVE  val'[x] = View(urls'[op'[x].code])
      BY DEF LoadersAreCurrent
    <2>1. x # r /\ pc[x] = "fill"
      BY DEF CommitThenInvalidate, Goto, TypeOK
    <2>2. op[x].code \in Codes /\ op'[x] = op[x] /\ val'[x] = val[x]
      BY <2>1 DEF ControlOK, Control, Steps
    <2>3. urls' = newUrls
      BY DEF CommitThenInvalidate, Commit
    <2>4. overtaken' = overtaken \cup
                         {y \in Reqs : pc[y] = "fill" /\ op[y].code \in
                            {c \in Codes : newUrls[c] # urls[c]}}
      BY DEF CommitThenInvalidate, Commit
    <2>5. x \notin overtaken /\ newUrls[op[x].code] = urls[op[x].code]
      BY <2>1, <2>2, <2>4
    <2> QED
      BY <2>1, <2>2, <2>3, <2>5 DEF Fresh, LoadersAreCurrent
  <1> QED
    BY <1>1, <1>2 DEF Fresh

(* A crash excuses the entries whose invalidation dies with the request. *)
LEMMA CrashFresh ==
  ASSUME TypeOK, Fresh, NEW r \in Reqs, Crash(r) PROVE Fresh'
  <1>1. /\ UNCHANGED <<cache, urls, val, op, overtaken>>
        /\ owed' = [owed EXCEPT ![r] = {}] /\ pc' = [pc EXCEPT ![r] = "crashed"]
    BY DEF Crash, store, Goto
  <1>2. \A d \in Codes : /\ d \in excused => d \in excused'
                         /\ d \in owed[r] /\ cache[d] # Null => d \in excused'
    BY DEF Crash, Cached
  <1>3. LoadersAreCurrent'
    BY <1>1 DEF Fresh, LoadersAreCurrent, TypeOK
  <1>4. ASSUME NEW d \in Codes, Stale(d)'
        PROVE  d \in excused' \/ \E w \in Reqs : d \in owed'[w]
    <2>1. Stale(d) /\ cache[d] # Null
      BY <1>1, <1>4 DEF Stale, View
    <2>2. d \in excused \/ \E w \in Reqs : d \in owed[w]
      BY <2>1 DEF Fresh, StalenessIsExplained
    <2>3. CASE d \in excused
      BY <1>2, <2>3
    <2>4. CASE d \in owed[r]
      BY <1>2, <2>1, <2>4
    <2>5. ASSUME NEW w \in Reqs \ {r}, d \in owed[w] PROVE d \in owed'[w]
      BY <1>1, <2>5 DEF TypeOK
    <2> QED
      BY <2>2, <2>3, <2>4, <2>5
  <1> QED
    BY <1>3, <1>4 DEF Fresh, StalenessIsExplained

(* No step makes an entry stale without an explanation, or a loader's value *)
(* out of date without marking the loader overtaken.                        *)
LEMMA FreshStep ==
  TypeOK /\ ControlOK /\ Fresh /\ [Next]_vars => Fresh'
  <1> SUFFICES ASSUME TypeOK, ControlOK, Fresh, [Next]_vars
               PROVE  Fresh'
      OBVIOUS
  <1> USE DEF TypeOK, ControlOK, Control, Steps, store, Goto, Fresh,
              StalenessIsExplained, LoadersAreCurrent, Stale
  <1>1. ASSUME NEW r \in Reqs, Start(r) PROVE Fresh'
      BY <1>1 DEF Start, FirstStep
  <1>2. ASSUME NEW r \in Reqs, Lookup(r) PROVE Fresh'
      BY <1>2 DEF Lookup
  <1>3. ASSUME NEW r \in Reqs, Acquire(r) PROVE Fresh'
      BY <1>3 DEF Acquire
  <1>4. ASSUME NEW r \in Reqs, Wait(r) PROVE Fresh'
      BY <1>4 DEF Wait
  <1>5. ASSUME NEW r \in Reqs, Load(r) PROVE Fresh'
      BY <1>5 DEF Load, AfterThrow
  <1>6. ASSUME NEW r \in Reqs, Fill(r) PROVE Fresh'
      BY <1>6 DEF Fill, cacheValue
  <1>7. ASSUME NEW r \in Reqs, Release(r) PROVE Fresh'
      BY <1>7 DEF Release
  <1>8. ASSUME NEW r \in Reqs, Decide(r) PROVE Fresh'
      BY <1>8 DEF Decide
  <1>9. ASSUME NEW r \in Reqs, RecordClick(r) PROVE Fresh'
      BY <1>9 DEF RecordClick
  <1>10. ASSUME NEW r \in Reqs, Insert(r) PROVE Fresh'
    <2> PICK c \in (IF op[r].kind = "create" THEN {op[r].code} ELSE Codes) :
          Insert(r)!2!(c)
      BY <1>10 DEF Insert
    <2> DEFINE newUrls == [urls EXCEPT ![c] = [url |-> r, exp |-> op[r].exp]]
    <2>1. c \in Codes /\ op[r].exp \in 0 .. MaxTime /\ pc[r] = "insert"
      BY <1>10 DEF Insert
    <2>2. UNCHANGED <<cache, val>> /\ \A x \in Reqs \ {r} : op'[x] = op[x]
      BY <1>10 DEF Insert
    <2>3. CASE CommitThenInvalidate(r, newUrls, {c})
      <3>1. newUrls \in [Codes -> Row \cup {Null}]
            /\ \A d \in Codes \ {c} : newUrls[d] = urls[d]
        BY <2>1 DEF Row
      <3>2. {c} \in SUBSET Codes
        BY <2>1
      <3> HIDE DEF newUrls
      <3> QED
        BY <2>1, <2>2, <2>3, <3>1, <3>2, CommitFresh
    <2>4. CASE /\ TableUnchanged
               /\ \E step \in {"insert", "409", "500"} : Goto(r, step)
      BY <2>1, <2>2, <2>4 DEF TableUnchanged
    <2> QED
      BY <2>3, <2>4
  <1>11. ASSUME NEW r \in Reqs, Find(r) PROVE Fresh'
      BY <1>11 DEF Find
  <1>12. ASSUME NEW r \in Reqs, Taken(r) PROVE Fresh'
      BY <1>12 DEF Taken
  <1>13. ASSUME NEW r \in Reqs, Write(r) PROVE Fresh'
    <2> DEFINE q == op[r]
               newUrls == IF q.kind = "update" THEN Updated(q)
                          ELSE [urls EXCEPT ![q.code] = Null]
    <2>1. q \in AnyRequest /\ q.code \in Codes /\ pc[r] = "write"
      BY <1>13 DEF Write
    <2>2. UNCHANGED <<cache, val, op>>
      BY <1>13 DEF Write
    <2>3. CASE urls[q.code] # Null /\ CommitThenInvalidate(r, newUrls, Touched(q))
      <3>1. newUrls \in [Codes -> Row \cup {Null}]
        BY <2>1, <2>3, UpdatedTyped
      <3>2. Touched(q) \in SUBSET Codes
        BY <2>1 DEF Touched, Renaming, AnyRequest, Request
      <3>3. \A d \in Codes \ Touched(q) : newUrls[d] = urls[d]
        BY <2>1 DEF Touched, Updated
      <3> HIDE DEF newUrls
      <3> QED
        BY <2>1, <2>2, <2>3, <3>1, <3>2, <3>3, CommitFresh
    <2>4. CASE (Goto(r, "500") \/ Goto(r, "409")) /\ TableUnchanged
      BY <2>1, <2>2, <2>4 DEF TableUnchanged
    <2> QED
      BY <1>13, <2>3, <2>4 DEF Write
  <1>14. ASSUME NEW r \in Reqs, Invalidate(r) PROVE Fresh'
    <2> DEFINE c == IF op[r].code \in owed[r] THEN op[r].code ELSE op[r].alias
    <2>1. UNCHANGED <<urls, val, op, overtaken>>
      BY <1>14 DEF Invalidate
    <2>2. owed' = [owed EXCEPT ![r] = @ \ {c}]
      BY <1>14 DEF Invalidate
    <2>3. /\ c \in Codes => \/ cache'[c] = Null
                            \/ cache'[c] = cache[c] /\ (cache[c] # Null => c \in excused')
          /\ \A d \in Codes \ {c} :
               cache'[d] = cache[d] /\ (d \in excused => d \in excused')
      BY <1>14 DEF Invalidate, invalidateUrl, Cached
    <2>4. pc'[r] # "fill" /\ \A x \in Reqs \ {r} : pc'[x] = pc[x]
      BY <1>14 DEF Invalidate, Success
    <2>5. LoadersAreCurrent'
      BY <2>1, <2>4
    <2>6. ASSUME NEW d \in Codes, Stale(d)'
          PROVE  d \in excused' \/ \E w \in Reqs : d \in owed'[w]
      BY <2>1, <2>2, <2>3, <2>6
    <2> QED
      BY <2>5, <2>6
  <1>15. ASSUME NEW r \in Reqs, Crash(r) PROVE Fresh'
      BY <1>15, CrashFresh
  <1>16. ASSUME NEW c \in Codes, EntryExpires(c) PROVE Fresh'
      BY <1>16 DEF EntryExpires
  <1>17. ASSUME NEW c \in Codes, LockExpires(c) PROVE Fresh'
      BY <1>17 DEF LockExpires
  <1>18. CASE Tick
      BY <1>18 DEF Tick
  <1>19. CASE UNCHANGED vars
      BY <1>19 DEF vars
  <1> QED
      BY <1>1, <1>2, <1>3, <1>4, <1>5, <1>6, <1>7, <1>8, <1>9, <1>10, <1>11,
         <1>12, <1>13, <1>14, <1>15, <1>16, <1>17, <1>18, <1>19 DEF Next, Serve

(* In every order of the service's calls, with any number of requests and   *)
(* any faults, a cached entry that disagrees with the table is still to be  *)
(* invalidated, or escaped an invalidation through a failure, or comes from *)
(* a loader that a commit overtook.                                         *)
THEOREM StalenessExplained == Spec => []StalenessIsExplained
  <1>1. Init => Fresh
    BY DEF Init, Fresh, StalenessIsExplained, LoadersAreCurrent, Stale
  <1>2. Spec => [](TypeOK /\ ControlOK /\ Fresh)
    BY InitControl, TypeStep, FreshStep, <1>1, PTL DEF Spec
  <1>3. Fresh => StalenessIsExplained
    BY DEF Fresh
  <1> QED
    BY <1>2, <1>3, PTL

=============================================================================
