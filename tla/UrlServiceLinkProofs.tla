------------------------ MODULE UrlServiceLinkProofs ------------------------
(***************************************************************************)
(* The links of UrlService: none is overwritten or doubled, and redirects   *)
(* answer with them; and the rebuild lock.                                  *)
(***************************************************************************)
EXTENDS UrlServiceProofs

USE NullAssumption, CodesAssumption, BoundsAssumption, SwitchAssumption

-----------------------------------------------------------------------------
(* Links *)

(* A row that a request inserted is the trace of a request that has left    *)
(* its insert for good.                                                     *)
InsertersAreDone ==
  \A c \in Codes : urls[c] # Null /\ urls[c].url \in Reqs
                     => pc[urls[c].url] \notin {"idle", "insert"}

LinksOK == InsertersAreDone /\ OneCodePerLink

(* An update gives one code a row with the link of the row that was at the  *)
(* old code, which it empties.                                              *)
LEMMA UpdatedLinks ==
  ASSUME TypeOK, NEW q \in AnyRequest, q.code \in Codes, urls[q.code] # Null
  PROVE  \E d \in Codes :
           /\ d \in {q.code, q.alias}
           /\ d # q.code => Updated(q)[q.code] = Null /\ Renaming(q)
           /\ Updated(q)[d] # Null /\ Updated(q)[d].url = urls[q.code].url
           /\ \A c \in Codes \ {d, q.code} : Updated(q)[c] = urls[c]
  <1> DEFINE row == [urls[q.code] EXCEPT !.exp = IF q.exp = Null THEN @ ELSE q.exp]
  <1>1. row \in Row /\ row.url = urls[q.code].url /\ row # Null
    BY DEF TypeOK, Row, AnyRequest, Request
  <1>2. q.alias \in Codes \cup {Null} /\ Codes = DOMAIN urls
    BY DEF AnyRequest, Request, TypeOK
  <1>3. CASE Renaming(q)
    <2>1. Updated(q) = [urls EXCEPT ![q.code] = Null, ![q.alias] = row]
      BY <1>3 DEF Updated
    <2>2. q.alias \in Codes /\ q.alias # q.code
      BY <1>2, <1>3 DEF Renaming
    <2> HIDE DEF row
    <2> QED
      BY <1>1, <1>2, <1>3, <2>1, <2>2 DEF TypeOK
  <1>4. CASE ~Renaming(q)
    <2>1. Updated(q) = [urls EXCEPT ![q.code] = row]
      BY <1>4 DEF Updated
    <2> HIDE DEF row
    <2> QED
      BY <1>1, <1>2, <2>1 DEF TypeOK
  <1> QED
    BY <1>3, <1>4

(* A step changes the table only by inserting the row of a request that was *)
(* at its insert, by moving a row to a code that was free or its own, or by *)
(* removing a row.                                                          *)
Inserts(r) ==
  \E c \in Codes :
    /\ pc[r] = "insert" /\ pc'[r] \in {"invalidate", "500"}
    /\ urls[c] = Null /\ urls'[c] # Null /\ urls'[c].url = r
    /\ \A d \in Codes \ {c} : urls'[d] = urls[d]

Moves ==
  \E c, d \in Codes :
    /\ urls[c] # Null /\ (d = c \/ (urls[d] = Null /\ urls'[c] = Null))
    /\ urls'[d] # Null /\ urls'[d].url = urls[c].url
    /\ \A e \in Codes \ {c, d} : urls'[e] = urls[e]

Removes ==
  \E c \in Codes : urls'[c] = Null /\ \A d \in Codes \ {c} : urls'[d] = urls[d]

TableStep(r) == Inserts(r) \/ Moves \/ Removes \/ UNCHANGED urls

LEMMA CommitTable ==
  ASSUME NEW r, NEW newUrls, NEW codes, CommitThenInvalidate(r, newUrls, codes),
         TypeOK, r \in Reqs
  PROVE  urls' = newUrls /\ pc'[r] \in {"invalidate", "500"}
         /\ \A x \in Reqs \ {r} : pc'[x] = pc[x]
  BY DEF CommitThenInvalidate, Commit, Goto, TypeOK

LEMMA ServeTable ==
  ASSUME TypeOK, ControlOK, [Next]_vars
  PROVE  /\ UNCHANGED urls \/ \E r \in Reqs : TableStep(r)
         /\ \A x \in Reqs : pc[x] \notin {"idle", "insert"}
                              => pc'[x] \notin {"idle", "insert"}
  <1> DEFINE G == /\ UNCHANGED urls \/ \E r \in Reqs : TableStep(r)
                  /\ \A x \in Reqs : pc[x] \notin {"idle", "insert"}
                                       => pc'[x] \notin {"idle", "insert"}
  <1> SUFFICES G
    OBVIOUS
  <1>1. ASSUME NEW r \in Reqs, Insert(r) PROVE G
    <2> PICK c \in (IF op[r].kind = "create" THEN {op[r].code} ELSE Codes) :
          Insert(r)!2!(c)
      BY <1>1 DEF Insert
    <2> DEFINE newUrls == [urls EXCEPT ![c] = [url |-> r, exp |-> op[r].exp]]
    <2>1. c \in Codes /\ pc[r] = "insert"
      BY <1>1 DEF Insert, ControlOK, Control, Steps
    <2>2. CASE /\ ~CodeTaken(c)
               /\ CommitThenInvalidate(r, newUrls, {c})
      <3>1. /\ urls' = newUrls /\ pc'[r] \in {"invalidate", "500"}
            /\ \A x \in Reqs \ {r} : pc'[x] = pc[x]
        BY <2>2, CommitTable
      <3>2. urls[c] = Null /\ newUrls[c] = [url |-> r, exp |-> op[r].exp]
            /\ \A d \in Codes \ {c} : newUrls[d] = urls[d]
        BY <2>1, <2>2 DEF CodeTaken, TypeOK
      <3>3. newUrls[c] # Null /\ newUrls[c].url = r
        BY <1>1, <2>1, <3>2 DEF ControlOK, Control, Steps
      <3> HIDE DEF newUrls
      <3>4. Inserts(r)
        BY <2>1, <3>1, <3>2, <3>3 DEF Inserts
      <3> QED
        BY <2>1, <3>1, <3>4 DEF TableStep
    <2>3. CASE UNCHANGED urls /\ \E s \in {"409", "500", "insert"} : Goto(r, s)
      BY <2>1, <2>3 DEF TypeOK, Goto
    <2> QED
      BY <2>2, <2>3 DEF TableUnchanged
  <1>2. ASSUME NEW r \in Reqs, Write(r) PROVE G
    <2> DEFINE q == op[r]
               newUrls == IF q.kind = "update" THEN Updated(q)
                          ELSE [urls EXCEPT ![q.code] = Null]
    <2>1. q \in AnyRequest /\ q.code \in Codes /\ pc[r] = "write"
      BY <1>2 DEF Write, ControlOK, Control, Steps
    <2>2. CASE /\ urls[q.code] # Null /\ ~(Renaming(q) /\ CodeTaken(q.alias))
               /\ CommitThenInvalidate(r, newUrls, Touched(q))
      <3>1. /\ urls' = newUrls /\ pc'[r] \in {"invalidate", "500"}
            /\ \A x \in Reqs \ {r} : pc'[x] = pc[x]
        BY <2>2, CommitTable
      <3>2. CASE q.kind = "update"
        <4>1. PICK d \in Codes :
                /\ d \in {q.code, q.alias}
                /\ d # q.code => Updated(q)[q.code] = Null /\ Renaming(q)
                /\ Updated(q)[d] # Null /\ Updated(q)[d].url = urls[q.code].url
                /\ \A c \in Codes \ {d, q.code} : Updated(q)[c] = urls[c]
          BY <2>1, <2>2, UpdatedLinks
        <4>2. Moves
          BY <2>1, <2>2, <3>1, <3>2, <4>1 DEF Moves, CodeTaken
        <4> QED
          BY <3>1, <4>2 DEF TableStep
      <3>3. CASE q.kind # "update"
        BY <2>1, <3>1, <3>3 DEF TypeOK, TableStep, Removes
      <3> QED
        BY <3>2, <3>3
    <2>3. CASE UNCHANGED urls /\ \E s \in {"409", "500"} : Goto(r, s)
      BY <2>1, <2>3 DEF TypeOK, Goto
    <2> QED
      BY <1>2, <2>2, <2>3 DEF Write, TableUnchanged
  <1>3. ASSUME NEW r \in Reqs, Start(r) \/ Crash(r) PROVE G
    BY <1>3 DEF Start, Crash, store, Goto, TypeOK
  <1>4. ASSUME NEW r \in Reqs,
               Serve(r), ~Insert(r), ~Write(r)
        PROVE  G
    BY <1>4 DEF Serve, Lookup, Acquire, Wait, Load, AfterThrow, Fill, Release,
       Decide, RecordClick, Find, Taken, Invalidate, Success, store, Goto, TypeOK
  <1>5. CASE \/ \E c \in Codes : EntryExpires(c) \/ LockExpires(c)
             \/ Tick \/ UNCHANGED vars
    BY <1>5 DEF EntryExpires, LockExpires, Tick, store, vars
  <1> QED
    BY <1>1, <1>2, <1>3, <1>4, <1>5 DEF Next

(* The invariant of the links: inserters are done, and links are at one     *)
(* code.                                                                    *)
LEMMA LinksStep ==
  TypeOK /\ ControlOK /\ LinksOK /\ [Next]_vars => LinksOK'
  <1> SUFFICES ASSUME TypeOK, ControlOK, LinksOK, [Next]_vars
               PROVE  LinksOK'
    OBVIOUS
  <1>1. \A x \in Reqs : pc[x] \notin {"idle", "insert"}
                          => pc'[x] \notin {"idle", "insert"}
    BY ServeTable
  <1> USE DEF LinksOK, InsertersAreDone, OneCodePerLink
  <1>2. ASSUME NEW r \in Reqs, Inserts(r) PROVE LinksOK'
    BY <1>1, <1>2 DEF Inserts
  <1>3. CASE Moves
    BY <1>1, <1>3 DEF Moves
  <1>4. CASE Removes
    BY <1>1, <1>4 DEF Removes
  <1>5. CASE UNCHANGED urls
    BY <1>1, <1>5
  <1> QED
    BY <1>2, <1>3, <1>4, <1>5, ServeTable DEF TableStep

(* A rename moves a link, and no retry inserts one twice, whatever requests *)
(* interleave: a link lives under one code.                                 *)
THEOREM OneCode == Spec => []OneCodePerLink
  <1>1. Init => LinksOK
    BY DEF Init, LinksOK, InsertersAreDone, OneCodePerLink
  <1>2. Spec => [](TypeOK /\ ControlOK /\ LinksOK)
    BY InitControl, TypeStep, LinksStep, <1>1, PTL DEF Spec
  <1>3. LinksOK => OneCodePerLink
    BY DEF LinksOK
  <1> QED
    BY <1>2, <1>3, PTL

(* The unique constraint is enough: although existence checks and writes    *)
(* are steps apart, no create and no rename replaces a link by another.     *)
THEOREM LinksAreNotOverwritten == Spec => NoLinkOverwritten
  <1> DEFINE Kept == \A c \in Codes : urls[c] # Null /\ urls'[c] # Null
                                        => urls'[c].url = urls[c].url
  <1>1. TypeOK /\ ControlOK /\ [Next]_vars => Kept
    <2> SUFFICES ASSUME TypeOK, ControlOK, [Next]_vars PROVE Kept
      OBVIOUS
    <2>1. ASSUME NEW r \in Reqs, TableStep(r) PROVE Kept
      BY <2>1 DEF TableStep, Inserts, Moves, Removes
    <2> QED
      BY <2>1, ServeTable
  <1>2. Spec => [](TypeOK /\ ControlOK)
    BY InitControl, TypeStep, PTL DEF Spec
  <1>3. NoLinkOverwritten <=> [][Kept]_vars
    BY DEF NoLinkOverwritten
  <1> HIDE DEF Kept
  <1> QED
    BY <1>1, <1>2, <1>3, PTL DEF Spec

-----------------------------------------------------------------------------
(* Answers *)

(* What the table holds has been recorded, and a request that has not asked *)
(* for a value yet, and may still change its code, has none.                *)
AnswersOK ==
  /\ AnswersComeFromTheTable
  /\ \A c \in Codes : <<c, View(urls[c])>> \in bound
  /\ \A r \in Reqs : pc[r] \in {"idle", "insert"} => val[r] = Null

LEMMA CommitAnswers ==
  ASSUME TypeOK, AnswersOK, NEW r \in Reqs, pc[r] \in {"insert", "write"},
         NEW newUrls, NEW codes, CommitThenInvalidate(r, newUrls, codes),
         UNCHANGED <<cache, val>>, \A x \in Reqs : op'[x] = op[x] \/ val[x] = Null
  PROVE  AnswersOK'
  <1>1. /\ urls' = newUrls /\ bound \subseteq bound'
        /\ \A c \in Codes : <<c, View(newUrls[c])>> \in bound'
    BY DEF CommitThenInvalidate, Commit
  <1>2. \A x \in Reqs : pc'[x] = pc[x] \/ pc'[x] \in {"invalidate", "500"}
    BY DEF CommitThenInvalidate, Goto, TypeOK
  <1> QED
    BY <1>1, <1>2 DEF AnswersOK, AnswersComeFromTheTable

LEMMA AnswersStep ==
  TypeOK /\ ControlOK /\ AnswersOK /\ [Next]_vars => AnswersOK'
  <1> SUFFICES ASSUME TypeOK, ControlOK, AnswersOK, [Next]_vars
               PROVE  AnswersOK'
    OBVIOUS
  <1> USE DEF TypeOK, ControlOK, Control, Steps, store, Goto
  <1>1. ASSUME NEW r \in Reqs, Start(r) PROVE AnswersOK'
    BY <1>1 DEF Start, FirstStep, AnswersOK, AnswersComeFromTheTable
  <1>2. ASSUME NEW r \in Reqs, Lookup(r) \/ Wait(r) PROVE AnswersOK'
    BY <1>2 DEF Lookup, Wait, lookupCache, AnswersOK, AnswersComeFromTheTable
  <1>3. ASSUME NEW r \in Reqs, Load(r) PROVE AnswersOK'
    BY <1>3 DEF Load, AfterThrow, AnswersOK, AnswersComeFromTheTable
  <1>4. ASSUME NEW r \in Reqs, Fill(r) PROVE AnswersOK'
    BY <1>4 DEF Fill, cacheValue, AnswersOK, AnswersComeFromTheTable
  <1>5. ASSUME NEW r \in Reqs,
               Acquire(r) \/ Release(r) \/ Decide(r) \/ RecordClick(r)
                 \/ Find(r) \/ Taken(r) \/ Crash(r)
        PROVE  AnswersOK'
    BY <1>5 DEF Acquire, Release, Decide, RecordClick, Find, Taken, Crash,
                AnswersOK, AnswersComeFromTheTable
  <1>6. ASSUME NEW r \in Reqs, Insert(r) PROVE AnswersOK'
    <2> PICK c \in (IF op[r].kind = "create" THEN {op[r].code} ELSE Codes) :
          Insert(r)!2!(c)
      BY <1>6 DEF Insert
    <2>1. /\ UNCHANGED <<cache, val>> /\ pc[r] = "insert" /\ val[r] = Null
          /\ \A x \in Reqs \ {r} : op'[x] = op[x]
      BY <1>6 DEF Insert, AnswersOK
    <2>2. CASE CommitThenInvalidate(
                 r, [urls EXCEPT ![c] = [url |-> r, exp |-> op[r].exp]], {c})
      BY <2>1, <2>2, CommitAnswers
    <2>3. CASE TableUnchanged /\ \E s \in {"409", "500", "insert"} : Goto(r, s)
      BY <2>1, <2>3 DEF TableUnchanged, AnswersOK, AnswersComeFromTheTable
    <2> QED
      BY <2>2, <2>3
  <1>7. ASSUME NEW r \in Reqs, Write(r) PROVE AnswersOK'
    <2> DEFINE newUrls == IF op[r].kind = "update" THEN Updated(op[r])
                          ELSE [urls EXCEPT ![op[r].code] = Null]
    <2>1. UNCHANGED <<cache, val, op>> /\ pc[r] = "write"
      BY <1>7 DEF Write
    <2>2. CASE CommitThenInvalidate(r, newUrls, Touched(op[r]))
      BY <2>1, <2>2, CommitAnswers
    <2>3. CASE TableUnchanged /\ (Goto(r, "500") \/ Goto(r, "409"))
      BY <2>1, <2>3 DEF TableUnchanged, AnswersOK, AnswersComeFromTheTable
    <2> QED
      BY <1>7, <2>2, <2>3 DEF Write
  <1>8. ASSUME NEW r \in Reqs, Invalidate(r) PROVE AnswersOK'
    <2>1. UNCHANGED <<urls, op, val, bound>>
          /\ \A c \in Codes : cache'[c] \in {cache[c], Null}
      BY <1>8 DEF Invalidate, invalidateUrl
    <2>2. pc'[r] \notin {"idle", "insert"} /\ \A x \in Reqs \ {r} : pc'[x] = pc[x]
      BY <1>8 DEF Invalidate, Success
    <2> QED
      BY <2>1, <2>2 DEF AnswersOK, AnswersComeFromTheTable
  <1>9. ASSUME NEW c \in Codes, EntryExpires(c) \/ LockExpires(c)
        PROVE  AnswersOK'
    BY <1>9 DEF EntryExpires, LockExpires, AnswersOK, AnswersComeFromTheTable
  <1>10. CASE Tick \/ UNCHANGED vars
    BY <1>10 DEF Tick, vars, AnswersOK, AnswersComeFromTheTable
  <1> QED
    BY <1>1, <1>2, <1>3, <1>4, <1>5, <1>6, <1>7, <1>8, <1>9, <1>10
    DEF Next, Serve

(* Redis never holds, and a redirect never sees, anything for a code that   *)
(* the table has not held for this code, whatever interleaves or fails.     *)
THEOREM AnswersAreTheTables == Spec => []AnswersComeFromTheTable
  <1>1. Init => AnswersOK
    BY DEF Init, AnswersOK, AnswersComeFromTheTable
  <1>2. Spec => [](TypeOK /\ ControlOK /\ AnswersOK)
    BY InitControl, TypeStep, AnswersStep, <1>1, PTL DEF Spec
  <1>3. AnswersOK => AnswersComeFromTheTable
    BY DEF AnswersOK
  <1> QED
    BY <1>2, <1>3, PTL

-----------------------------------------------------------------------------
(* The lock *)

(* Who waits for another's value got no lock of its own, who loads without   *)
(* one has waited to the end, and only a holder has a lock to release.       *)
LosersWaitFirst ==
  \A r \in Reqs :
    /\ pc[r] = "wait" => ~token[r]
    /\ pc[r] \in {"load", "fill"} /\ ~token[r] => GaveUpWaiting(r)
    /\ pc[r] = "release" => token[r]

(* While Redis answers and rebuilds end in time, who rebuilds has the lock. *)
RebuildersHoldTheLock ==
  ~RedisFaults /\ ~SlowRebuilds =>
    \A r \in Reqs : Rebuilding(r) => lock[op[r].code] = r

(* A query of a writer leaves the lock and every rebuild alone. *)
LEMMA WriterStep ==
  ASSUME TypeOK, NEW s \in Reqs, Insert(s) \/ Write(s)
  PROVE  /\ UNCHANGED <<lock, token>>
         /\ pc[s] \in {"insert", "write"}
         /\ pc'[s] \in {"invalidate", "500", "409", "insert"}
         /\ \A x \in Reqs \ {s} :
              pc'[x] = pc[x] /\ op'[x] = op[x] /\ tries'[x] = tries[x]
  <1>1. CASE Insert(s)
    <2>1. /\ UNCHANGED <<lock, token>> /\ pc[s] = "insert"
          /\ \A x \in Reqs \ {s} : op'[x] = op[x]
      BY <1>1 DEF Insert
    <2>3. UNCHANGED tries \/ tries' = [tries EXCEPT ![s] = @ + 1]
      BY <1>1 DEF Insert
    <2>2. \E step \in {"invalidate", "500", "409", "insert"} : Goto(s, step)
      BY <1>1 DEF Insert, CommitThenInvalidate
    <2> QED
      BY <2>1, <2>2, <2>3 DEF Goto, TypeOK
  <1>2. CASE Write(s)
    <2>1. UNCHANGED <<lock, token, op, tries>> /\ pc[s] = "write"
      BY <1>2 DEF Write
    <2>2. \E step \in {"invalidate", "500", "409"} : Goto(s, step)
      BY <1>2 DEF Write, CommitThenInvalidate
    <2> QED
      BY <2>1, <2>2 DEF Goto, TypeOK
  <1> QED
    BY <1>1, <1>2

LEMMA LosersStep ==
  TypeOK /\ ControlOK /\ LosersWaitFirst /\ [Next]_vars => LosersWaitFirst'
  <1> SUFFICES ASSUME TypeOK, ControlOK, LosersWaitFirst, [Next]_vars, NEW r \in Reqs
               PROVE  /\ pc'[r] = "wait" => ~token'[r]
                      /\ pc'[r] \in {"load", "fill"} /\ ~token'[r]
                           => tries'[r] = STAMPEDE_MAX_RETRIES
                      /\ pc'[r] = "release" => token'[r]
    BY DEF LosersWaitFirst, GaveUpWaiting
  <1> DEFINE Goal == /\ pc'[r] = "wait" => ~token'[r]
                     /\ pc'[r] \in {"load", "fill"} /\ ~token'[r]
                          => tries'[r] = STAMPEDE_MAX_RETRIES
                     /\ pc'[r] = "release" => token'[r]
  <1> USE DEF TypeOK, LosersWaitFirst, GaveUpWaiting, Goto
  <1>1. ASSUME NEW s \in Reqs, Acquire(s) PROVE Goal
    BY <1>1 DEF Acquire
  <1>2. ASSUME NEW s \in Reqs, Start(s) \/ Crash(s) PROVE Goal
    BY <1>2 DEF Start, FirstStep, Crash
  <1>3. ASSUME NEW s \in Reqs, Wait(s) PROVE Goal
    <2>1. tries[s] < STAMPEDE_MAX_RETRIES /\ tries[s] \in Nat
      BY <1>3 DEF Wait, ControlOK, Control, Limit
    <2> QED
      BY <1>3, <2>1 DEF Wait, LastTurn
  <1>4. ASSUME NEW s \in Reqs, Load(s) \/ Fill(s) PROVE Goal
    BY <1>4 DEF Load, AfterThrow, Fill
  <1>5. ASSUME NEW s \in Reqs,
               Lookup(s) \/ Release(s) \/ Decide(s) \/ RecordClick(s)
        PROVE  Goal
    BY <1>5 DEF Lookup, Release, Decide, RecordClick
  <1>6. ASSUME NEW s \in Reqs, Find(s) \/ Taken(s) \/ Invalidate(s)
        PROVE  Goal
    BY <1>6 DEF Find, Taken, Invalidate, Success
  <1>7. ASSUME NEW s \in Reqs, Insert(s) \/ Write(s) PROVE Goal
    BY <1>7, WriterStep
  <1>8. ASSUME \/ \E c \in Codes : EntryExpires(c) \/ LockExpires(c)
               \/ Tick \/ UNCHANGED vars
        PROVE  Goal
    BY <1>8 DEF EntryExpires, LockExpires, Tick, vars
  <1> QED
    BY <1>1, <1>2, <1>3, <1>4, <1>5, <1>6, <1>7, <1>8 DEF Next, Serve

LEMMA LockStep ==
  TypeOK /\ ControlOK /\ LosersWaitFirst /\ RebuildersHoldTheLock /\ [Next]_vars
    => RebuildersHoldTheLock'
  <1> SUFFICES ASSUME TypeOK, ControlOK, LosersWaitFirst,
                      RebuildersHoldTheLock, [Next]_vars,
                      ~RedisFaults, ~SlowRebuilds, NEW r \in Reqs, Rebuilding(r)'
               PROVE  lock'[op'[r].code] = r
    BY DEF RebuildersHoldTheLock
  <1> USE DEF TypeOK, ControlOK, Control, Steps, store, Goto,
              RebuildersHoldTheLock, Rebuilding
  <1>1. ASSUME NEW s \in Reqs, Acquire(s) PROVE lock'[op'[r].code] = r
    BY <1>1 DEF Acquire, acquireRebuildLock
  <1>2. ASSUME NEW s \in Reqs, Release(s) PROVE lock'[op'[r].code] = r
    BY <1>2 DEF Release, releaseRebuildLock
  <1>3. ASSUME NEW s \in Reqs, Load(s) \/ Fill(s) PROVE lock'[op'[r].code] = r
    BY <1>3 DEF Load, AfterThrow, Fill
  <1>4. ASSUME NEW s \in Reqs, Start(s) \/ Lookup(s) \/ Wait(s)
        PROVE  lock'[op'[r].code] = r
    BY <1>4 DEF Start, FirstStep, Lookup, Wait, LosersWaitFirst
  <1>5. ASSUME NEW s \in Reqs,
               Decide(s) \/ RecordClick(s) \/ Find(s) \/ Taken(s)
                 \/ Invalidate(s) \/ Crash(s)
        PROVE  lock'[op'[r].code] = r
    <2>1. lock' = lock /\ token' = token /\ op' = op /\ Rebuilding(r)
      BY <1>5 DEF Decide, RecordClick, Find, Taken, Invalidate, Success, Crash
    <2> QED
      BY <2>1
  <1>6. ASSUME NEW s \in Reqs, Insert(s) \/ Write(s)
        PROVE  lock'[op'[r].code] = r
    <2>1. /\ lock' = lock /\ token' = token /\ r # s
          /\ pc'[r] = pc[r] /\ op'[r] = op[r]
      BY <1>6, WriterStep
    <2> QED
      BY <2>1
  <1>7. ASSUME NEW c \in Codes, EntryExpires(c) \/ LockExpires(c)
        PROVE  lock'[op'[r].code] = r
    BY <1>7 DEF EntryExpires, LockExpires
  <1>8. CASE Tick \/ UNCHANGED vars
    BY <1>8 DEF Tick, vars
  <1> QED
    BY <1>1, <1>2, <1>3, <1>4, <1>5, <1>6, <1>7, <1>8 DEF Next, Serve

(* As long as Redis answers and the lock outlives the rebuild, a request     *)
(* loads a code beside another one only after it lost the lock and waited    *)
(* all its turns: SET NX, the compare-and-delete and the loop see to it.     *)
THEOREM OneRebuilds == Spec => []SingleRebuild
  <1>1. Init => LosersWaitFirst /\ RebuildersHoldTheLock
    BY DEF Init, LosersWaitFirst, RebuildersHoldTheLock, Rebuilding
  <1>2. Spec => [](TypeOK /\ ControlOK /\ LosersWaitFirst /\ RebuildersHoldTheLock)
    BY InitControl, TypeStep, LosersStep, LockStep, <1>1, PTL DEF Spec
  <1>3. LosersWaitFirst /\ RebuildersHoldTheLock => SingleRebuild
    BY DEF LosersWaitFirst, RebuildersHoldTheLock, SingleRebuild, Rebuilding
  <1> QED
    BY <1>2, <1>3, PTL

(* Nobody but its owner or its TTL ends a lock, even when rebuilds outlast  *)
(* their locks and commands fail or are sent twice.                         *)
THEOREM LocksEndByOwnerOrTTL == Spec => LockEndsByOwnerOrTTL
  <1> DEFINE Ends == \A c \in Codes :
               lock[c] # Null /\ lock'[c] # lock[c] =>
                 \/ LockExpires(c)
                 \/ pc[lock[c]] = "release" /\ pc'[lock[c]] # "release"
  <1>1. TypeOK /\ ControlOK /\ [Next]_vars => Ends
    <2> SUFFICES ASSUME TypeOK, ControlOK, [Next]_vars,
                        NEW c \in Codes, lock[c] # Null, lock'[c] # lock[c],
                        ~LockExpires(c)
                 PROVE  pc[lock[c]] = "release" /\ pc'[lock[c]] # "release"
      OBVIOUS
    <2> USE DEF TypeOK, ControlOK, Control, Steps, store
    <2>1. ASSUME NEW r \in Reqs, Acquire(r) PROVE FALSE
      BY <2>1 DEF Acquire, acquireRebuildLock
    <2>2. ASSUME NEW r \in Reqs, Release(r)
          PROVE  pc[lock[c]] = "release" /\ pc'[lock[c]] # "release"
      BY <2>2 DEF Release, releaseRebuildLock, Goto
    <2>3. ASSUME NEW r \in Reqs,
                 Start(r) \/ Crash(r) \/ (Serve(r) /\ ~Acquire(r) /\ ~Release(r))
          PROVE  UNCHANGED lock
      BY <2>3 DEF Start, Crash, Serve, Lookup, Wait, Load, Fill, Decide,
         RecordClick, Insert, Find, Taken, Write, Invalidate
    <2>4. ASSUME NEW d \in Codes, LockExpires(d) PROVE FALSE
      BY <2>4 DEF LockExpires
    <2>5. ASSUME (\E d \in Codes : EntryExpires(d)) \/ Tick \/ UNCHANGED vars
          PROVE  UNCHANGED lock
      BY <2>5 DEF EntryExpires, Tick, vars
    <2> QED
      BY <2>1, <2>2, <2>3, <2>4, <2>5 DEF Next, Serve
  <1>2. Spec => [](TypeOK /\ ControlOK)
    BY InitControl, TypeStep, PTL DEF Spec
  <1>3. LockEndsByOwnerOrTTL <=> [][Ends]_vars
    BY DEF LockEndsByOwnerOrTTL
  <1> HIDE DEF Ends
  <1> QED
    BY <1>1, <1>2, <1>3, PTL DEF Spec

(* The finally of the rebuild is reached in every way out of it: a request  *)
(* that stops rebuilding has released its lock, has died, or was refused by *)
(* Redis.                                                                   *)
THEOREM LocksAreNotLeaked == Spec => LockNotLeaked
  <1> DEFINE Released == \A r \in Reqs :
               Rebuilding(r) /\ ~Rebuilding(r)' =>
                 \/ lock'[op[r].code] # r
                 \/ pc'[r] = "crashed"
                 \/ RedisFaults /\ pc[r] = "release"
  <1>1. TypeOK /\ ControlOK /\ [Next]_vars => Released
    <2> SUFFICES ASSUME TypeOK, ControlOK, [Next]_vars,
                        NEW r \in Reqs, Rebuilding(r), ~Rebuilding(r)'
                 PROVE  \/ lock'[op[r].code] # r
                        \/ pc'[r] = "crashed"
                        \/ RedisFaults /\ pc[r] = "release"
      OBVIOUS
    <2> USE DEF TypeOK, ControlOK, Control, Steps, store, Goto, Rebuilding
    <2>1. ASSUME NEW s \in Reqs, Release(s)
          PROVE  lock'[op[r].code] # r \/ (RedisFaults /\ pc[r] = "release")
      BY <2>1 DEF Release, releaseRebuildLock
    <2>2. ASSUME NEW s \in Reqs, Crash(s) PROVE pc'[r] = "crashed"
      BY <2>2 DEF Crash
    <2>3. ASSUME NEW s \in Reqs, Load(s) \/ Fill(s) PROVE FALSE
      BY <2>3 DEF Load, AfterThrow, Fill
    <2>4. ASSUME NEW s \in Reqs,
                 Start(s) \/ Lookup(s) \/ Acquire(s) \/ Wait(s) \/ Decide(s)
                   \/ RecordClick(s) \/ Find(s) \/ Taken(s) \/ Invalidate(s)
          PROVE  FALSE
      BY <2>4 DEF Start, Lookup, Acquire, Wait, Decide, RecordClick, Find, Taken,
         Invalidate
    <2>5. ASSUME NEW s \in Reqs, Insert(s) \/ Write(s) PROVE FALSE
      BY <2>5, WriterStep
    <2>6. ASSUME \/ \E c \in Codes : EntryExpires(c) \/ LockExpires(c)
                 \/ Tick \/ UNCHANGED vars
          PROVE  FALSE
      BY <2>6 DEF EntryExpires, LockExpires, Tick, vars
    <2> QED
      BY <2>1, <2>2, <2>3, <2>4, <2>5, <2>6 DEF Next, Serve
  <1>2. Spec => [](TypeOK /\ ControlOK)
    BY InitControl, TypeStep, PTL DEF Spec
  <1>3. LockNotLeaked <=> [][Released]_vars
    BY DEF LockNotLeaked
  <1> HIDE DEF Released
  <1> QED
    BY <1>1, <1>2, <1>3, PTL DEF Spec

=============================================================================
