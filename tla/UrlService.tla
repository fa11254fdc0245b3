----------------------------- MODULE UrlService -----------------------------
(***************************************************************************)
(* The link service: src/services/url.service.ts over the Postgres table   *)
(* of src/repositories/url.repository.ts and the Redis keys url:<code> and *)
(* lock:<code> of src/services/cache.service.ts.                           *)
(*                                                                         *)
(* A process is one HTTP request. It takes one step per awaited call, so   *)
(* every interleaving the event loop (or several instances of the program  *)
(* on the same two datastores) can produce between two awaits is explored. *)
(***************************************************************************)
EXTENDS Naturals, FiniteSets

CONSTANTS
  Codes,                 \* short codes: generated ones and aliases alike
  Reqs,                  \* the HTTP requests of a behaviour; one request each
  Null,                  \* SQL null, Redis nil, an absent field
  NotFound,              \* the "not_found" result and the negative sentinel
  STAMPEDE_MAX_RETRIES,  \* cache re-reads of a request that lost the lock
  MAX_ATTEMPTS,          \* tries at generating a free code
  MaxTime,               \* bound on the clock
  OwnerRequired,         \* the urls table has its NOT NULL user_id column
  RedisFaults,           \* a Redis command may fail
  DbFaults,              \* a Postgres query may fail
  SlowRebuilds,          \* a rebuild may outlast LOCK_TTL_MS
  Crashes                \* the instance serving a request may die

ASSUME NullAssumption ==
  /\ Null # NotFound
  /\ Null \notin Reqs /\ Null \notin Codes /\ Null \notin Nat
  /\ Null \notin [url : Reqs \cup Codes, exp : Nat]
  /\ NotFound \notin [url : Reqs \cup Codes, exp : Nat]
  /\ Null \notin [kind : {"redirect", "create", "generate", "update", "delete"},
                  code : Codes \cup {Null}, alias : Codes \cup {Null},
                  exp : Nat \cup {Null}]

ASSUME CodesAssumption == Reqs \cap Codes = {}

ASSUME BoundsAssumption ==
  /\ STAMPEDE_MAX_RETRIES \in Nat \ {0}
  /\ MAX_ATTEMPTS \in Nat \ {0}
  /\ MaxTime \in Nat

ASSUME SwitchAssumption ==
  {OwnerRequired, RedisFaults, DbFaults, SlowRebuilds, Crashes}
    \subseteq BOOLEAN

VARIABLES
  urls,      \* Postgres: code -> row, or Null
  cache,     \* Redis url:<code>: a CachedUrl, NotFound (negative) or Null
  lock,      \* Redis lock:<code>: the request whose token is stored, or Null
  clicks,    \* Redis clicks:<code>: the requests counted there
  now,       \* Date.now()
  pc,        \* where each request is; once answered, its HTTP status
  op,        \* the validated request being served
  val,       \* the CachedUrl or NotFound it resolved; Null: none
  token,     \* acquireRebuildLock returned a token
  tries,     \* loop counter: stampede retries, or generation attempts
  owed,      \* codes it has committed a change to and not invalidated yet
  bound,     \* history: every view each code has ever had in the table
  overtaken, \* history: the requests whose loaded value a commit overtook
  excused    \* history: the codes whose cached entry escaped an invalidation

store == <<urls, cache, lock, clicks>>
vars == <<urls, cache, lock, clicks, now, pc, op, val, token, tries, owed,
          bound, overtaken, excused>>

-----------------------------------------------------------------------------
(* Rows, cached values and requests *)

(* A row's url stands for its originalUrl, fixed at the insert: it is named *)
(* after the request that inserted it, or after the code of an initial row. *)
(* An expiry of 0 is null.                                                  *)
Row == [url : Reqs \cup Codes, exp : 0 .. MaxTime]
CachedUrl == Row

(* What loadFromDbAndCache makes of the row of a code. *)
View(row) == IF row = Null THEN NotFound ELSE row

Expired(v) == v.exp # 0 /\ v.exp <= now

Future == {t \in 1 .. MaxTime : t > now}

(* The requests the schemas of src/types/url.schema.ts let through. An      *)
(* alias of Null is an absent field; so is an exp of Null in an update.     *)
Request(kinds, codes, aliases, exps) ==
  [kind : kinds, code : codes, alias : aliases, exp : exps]

ValidRequests ==
  Request({"redirect", "delete"}, Codes, {Null}, {Null})
    \cup Request({"create"}, Codes, {Null}, {0} \cup Future)
    \cup Request({"generate"}, {Null}, {Null}, {0} \cup Future)
    \cup {q \in Request({"update"}, Codes, Codes \cup {Null},
                        {Null, 0} \cup Future) :
            q.alias # Null \/ q.exp # Null}

Renaming(q) == q.alias # Null /\ q.alias # q.code

FirstStep(kind) ==
  IF kind = "redirect" THEN "lookup"
  ELSE IF kind \in {"create", "generate"} THEN "insert" ELSE "find"

Success(kind) ==
  IF kind = "update" THEN "200" ELSE IF kind = "delete" THEN "204" ELSE "201"

Statuses == {"200", "201", "204", "302", "404", "409", "410", "500"}
Steps == {"lookup", "acquire", "wait", "load", "fill", "release", "decide",
          "record", "insert", "find", "taken", "write", "invalidate"}
Active(r) == pc[r] \in Steps
Rebuilding(r) == token[r] /\ pc[r] \in {"load", "fill", "release"}

Goto(r, step) == pc' = [pc EXCEPT ![r] = step]

-----------------------------------------------------------------------------
(* The cache service. redisSafe turns a failed command into its fallback.   *)
(* A command that took effect although its reply was lost has the result    *)
(* of one that succeeded: each fallback equals the value success returns,   *)
(* so only the failure without effect is a case of its own.                 *)

Cached == {c \in Codes : cache[c] # Null}

(* The results of lookupCache; Null is a miss. *)
lookupCache(c) == {cache[c]} \cup (IF RedisFaults THEN {Null} ELSE {})

(* SET url:<code> by cacheUrl or cacheNegative. *)
cacheValue(c, v, late) ==
  \/ /\ cache' = [cache EXCEPT ![c] = v]
     /\ excused' = IF late THEN excused \cup {c} ELSE excused \ {c}
  \/ RedisFaults /\ UNCHANGED <<cache, excused>>

(* Mutant: the code is marked absent instead of forgotten. *)
markAbsent(c) ==
  /\ cache' = [cache EXCEPT ![c] = NotFound]
  /\ excused' = excused \ {c}

(* DEL url:<code>. *)
invalidateUrl(c) ==
  \/ /\ cache' = [cache EXCEPT ![c] = Null]
     /\ excused' = excused \ {c}
  \/ /\ RedisFaults
     /\ excused' = excused \cup ({c} \cap Cached)
     /\ UNCHANGED cache

(* Mutant: SET without NX. *)
acquireWithoutNX(r, c, got) == got /\ lock' = [lock EXCEPT ![c] = r]

(* SET lock:<code> <token> PX NX; got is whether a token is returned. The   *)
(* client resends a command whose reply was lost, and the second SET NX     *)
(* finds the first one's lock.                                              *)
acquireRebuildLock(r, c, got) ==
  \/ /\ lock[c] = Null
     /\ got \/ RedisFaults
     /\ lock' = [lock EXCEPT ![c] = r]
  \/ lock[c] # Null /\ ~got /\ UNCHANGED lock
  \/ RedisFaults /\ got /\ UNCHANGED lock

(* Mutant: a plain DEL, whoever holds the lock. *)
releaseAnyLock(r, c) ==
  \/ lock' = [lock EXCEPT ![c] = Null]
  \/ RedisFaults /\ UNCHANGED lock

(* The Lua script: delete the lock only if it still holds our token. *)
releaseRebuildLock(r, c) ==
  \/ lock' = [lock EXCEPT ![c] = IF @ = r THEN Null ELSE @]
  \/ RedisFaults /\ UNCHANGED lock

-----------------------------------------------------------------------------
(* The table. Commit installs new rows and keeps the history variables.     *)

Commit(newUrls) ==
  LET changed == {c \in Codes : newUrls[c] # urls[c]} IN
  /\ urls' = newUrls
  /\ bound' = bound \cup {<<c, View(newUrls[c])>> : c \in Codes}
  /\ overtaken' = overtaken \cup
                    {x \in Reqs : pc[x] = "fill" /\ op[x].code \in changed}

(* The commit of request r, which then owes the invalidation of codes; or   *)
(* the query took effect but failed for the program, which invalidates      *)
(* nothing and answers 500.                                                 *)
CommitThenInvalidate(r, newUrls, codes) ==
  /\ Commit(newUrls)
  /\ \/ /\ owed' = [owed EXCEPT ![r] = codes]
        /\ Goto(r, "invalidate")
        /\ UNCHANGED excused
     \/ /\ DbFaults
        /\ excused' = excused \cup (codes \cap Cached)
        /\ Goto(r, "500")
        /\ UNCHANGED owed

TableUnchanged == UNCHANGED <<urls, bound, overtaken, excused, owed>>

-----------------------------------------------------------------------------
(* GET /:code -- resolveForRedirect, resolveCachedUrl, loadFromDbAndCache   *)

(* A validated request reaches its controller. *)
Start(r) ==
  /\ pc[r] = "idle"
  /\ \E q \in ValidRequests :
       /\ op' = [op EXCEPT ![r] = q]
       /\ Goto(r, FirstStep(q.kind))
  /\ UNCHANGED <<store, now, val, token, tries, owed, bound, overtaken, excused>>

Lookup(r) ==
  /\ pc[r] = "lookup"
  /\ \E found \in lookupCache(op[r].code) :
       /\ val' = [val EXCEPT ![r] = found]
       /\ Goto(r, IF found = Null THEN "acquire" ELSE "decide")
  /\ UNCHANGED <<store, now, op, token, tries, owed, bound, overtaken, excused>>

Acquire(r) ==
  /\ pc[r] = "acquire"
  /\ \E got \in BOOLEAN :
       /\ acquireRebuildLock(r, op[r].code, got)
       /\ token' = [token EXCEPT ![r] = got]
       /\ Goto(r, IF got THEN "load" ELSE "wait")
  /\ UNCHANGED <<urls, cache, clicks, now, op, val, tries, owed, bound,
                 overtaken, excused>>

(* Mutant: an off-by-one in the loop's bound. *)
OneTurnTooMany(turn) == turn > STAMPEDE_MAX_RETRIES

(* The loop of the request that lost the lock ends after this turn. *)
LastTurn(turn) == turn >= STAMPEDE_MAX_RETRIES

(* Mutant: wait for the winner's value, however long it takes. *)
WaitForWinner(r) ==
  /\ pc[r] = "wait"
  /\ cache[op[r].code] # Null
  /\ val' = [val EXCEPT ![r] = cache[op[r].code]]
  /\ Goto(r, "decide")
  /\ UNCHANGED <<store, now, op, token, tries, owed, bound, overtaken, excused>>

(* One turn of the stampede loop: sleep, then look again. *)
Wait(r) ==
  /\ pc[r] = "wait"
  /\ \E found \in lookupCache(op[r].code) :
       /\ val' = [val EXCEPT ![r] = found]
       /\ tries' = [tries EXCEPT ![r] = @ + 1]
       /\ Goto(r, IF found # Null THEN "decide"
                  ELSE IF LastTurn(tries[r] + 1) THEN "load" ELSE "wait")
  /\ UNCHANGED <<store, now, op, token, owed, bound, overtaken, excused>>

(* Mutant: no finally around the rebuild. *)
AfterLoadError(r) == "500"

(* When findByCode throws, only the lock holder has a finally to run. *)
AfterThrow(r) == IF token[r] THEN "release" ELSE "500"

Load(r) ==
  /\ pc[r] = "load"
  /\ \/ /\ val' = [val EXCEPT ![r] = View(urls[op[r].code])]
        /\ Goto(r, "fill")
     \/ /\ DbFaults
        /\ val' = [val EXCEPT ![r] = Null]
        /\ Goto(r, AfterThrow(r))
  /\ overtaken' = overtaken \ {r}
  /\ UNCHANGED <<store, now, op, token, tries, owed, bound, excused>>

(* A SET whose reply was lost may be sent, and take effect, again. *)
Fill(r) ==
  /\ pc[r] = "fill"
  /\ cacheValue(op[r].code, val[r], r \in overtaken)
  /\ \/ Goto(r, IF token[r] THEN "release" ELSE "decide")
     \/ RedisFaults /\ UNCHANGED pc
  /\ UNCHANGED <<urls, lock, clicks, now, op, val, token, tries, owed, bound,
                 overtaken>>

Release(r) ==
  /\ pc[r] = "release"
  /\ releaseRebuildLock(r, op[r].code)
  /\ Goto(r, IF val[r] = Null THEN "500" ELSE "decide")
  /\ UNCHANGED <<urls, cache, clicks, now, op, val, token, tries, owed, bound,
                 overtaken, excused>>

Decide(r) ==
  /\ pc[r] = "decide"
  /\ Goto(r, IF val[r] = NotFound THEN "404"
             ELSE IF Expired(val[r]) THEN "410"
             ELSE "record")
  /\ UNCHANGED <<store, now, op, val, token, tries, owed, bound, overtaken,
                 excused>>

(* recordClick, then the 302. *)
RecordClick(r) ==
  /\ pc[r] = "record"
  /\ \/ clicks' = [clicks EXCEPT ![op[r].code] = @ \cup {r}]
     \/ RedisFaults /\ UNCHANGED clicks
  /\ Goto(r, "302")
  /\ UNCHANGED <<urls, cache, lock, now, op, val, token, tries, owed, bound,
                 overtaken, excused>>

-----------------------------------------------------------------------------
(* POST /urls -- createShortUrl; PATCH -- updateUrl; DELETE -- deleteShortUrl *)

(* Mutant: an upsert that a taken code does not stop. *)
NeverTaken(c) == FALSE

(* The unique constraint of urls.code. *)
CodeTaken(c) == urls[c] # Null

(* insertUrl of the alias, or of a freshly generated code. *)
Insert(r) ==
  /\ pc[r] = "insert"
  /\ \E c \in (IF op[r].kind = "create" THEN {op[r].code} ELSE Codes) :
       /\ op' = [op EXCEPT ![r].code = c]
       /\ \/ /\ ~OwnerRequired /\ ~CodeTaken(c)
             /\ CommitThenInvalidate(
                  r, [urls EXCEPT ![c] = [url |-> r, exp |-> op[r].exp]], {c})
             /\ UNCHANGED tries
          \/ /\ ~OwnerRequired /\ CodeTaken(c)     \* P2002
             /\ tries' = [tries EXCEPT ![r] = @ + 1]
             /\ Goto(r, IF op[r].kind = "create" THEN "409"
                        ELSE IF tries[r] + 1 = MAX_ATTEMPTS THEN "500"
                        ELSE "insert")
             /\ TableUnchanged
          \/ /\ OwnerRequired \/ DbFaults          \* user_id missing, or down
             /\ Goto(r, "500")
             /\ TableUnchanged /\ UNCHANGED tries
  /\ UNCHANGED <<cache, lock, clicks, now, val, token>>

(* The first findByCode of updateUrl and deleteShortUrl. *)
Find(r) ==
  /\ pc[r] = "find"
  /\ \/ Goto(r, IF urls[op[r].code] = Null THEN "404"
                ELSE IF Renaming(op[r]) THEN "taken" ELSE "write")
     \/ DbFaults /\ Goto(r, "500")
  /\ UNCHANGED <<store, now, op, val, token, tries, owed, bound, overtaken,
                 excused>>

(* updateUrl's check that the new alias is free. *)
Taken(r) ==
  /\ pc[r] = "taken"
  /\ \/ Goto(r, IF urls[op[r].alias] # Null THEN "409" ELSE "write")
     \/ DbFaults /\ Goto(r, "500")
  /\ UNCHANGED <<store, now, op, val, token, tries, owed, bound, overtaken,
                 excused>>

(* Mutant: the rename leaves the old row behind. *)
UpdatedCopy(q) ==
  LET c == IF Renaming(q) THEN q.alias ELSE q.code
  IN  [urls EXCEPT ![c] =
         [urls[q.code] EXCEPT !.exp = IF q.exp = Null THEN @ ELSE q.exp]]

(* The table after updateUrlRecord: absent fields stay as they are. *)
Updated(q) ==
  LET row == [urls[q.code] EXCEPT !.exp = IF q.exp = Null THEN @ ELSE q.exp]
  IN  IF Renaming(q)
      THEN [urls EXCEPT ![q.code] = Null, ![q.alias] = row]
      ELSE [urls EXCEPT ![q.code] = row]

(* Mutant: only the old code is invalidated. *)
OldCode(q) == {q.code}

(* The codes updateUrl and deleteShortUrl invalidate. *)
Touched(q) == IF Renaming(q) THEN {q.code, q.alias} ELSE {q.code}

(* updateUrlRecord or deleteUrlRecord. A row that went away in the meantime *)
(* is a P2025, which neither caller catches.                                *)
Write(r) ==
  LET q == op[r]
      conflict == Renaming(q) /\ CodeTaken(q.alias)
  IN
  /\ pc[r] = "write"
  /\ \/ /\ urls[q.code] # Null /\ ~conflict
        /\ CommitThenInvalidate(r,
             IF q.kind = "update" THEN Updated(q)
             ELSE [urls EXCEPT ![q.code] = Null], Touched(q))
     \/ /\ urls[q.code] = Null
        /\ Goto(r, "500")
        /\ TableUnchanged
     \/ /\ urls[q.code] # Null /\ conflict         \* P2002
        /\ Goto(r, "409")
        /\ TableUnchanged
     \/ /\ DbFaults
        /\ Goto(r, "500")
        /\ TableUnchanged
  /\ UNCHANGED <<cache, lock, clicks, now, op, val, token, tries>>

(* invalidateUrl of the code, then of the new alias. *)
Invalidate(r) ==
  LET c == IF op[r].code \in owed[r] THEN op[r].code ELSE op[r].alias IN
  /\ pc[r] = "invalidate"
  /\ invalidateUrl(c)
  /\ owed' = [owed EXCEPT ![r] = @ \ {c}]
  /\ Goto(r, IF owed[r] = {c} THEN Success(op[r].kind) ELSE "invalidate")
  /\ UNCHANGED <<urls, lock, clicks, now, op, val, token, tries, bound,
                 overtaken>>

-----------------------------------------------------------------------------
(* The environment *)

Tick ==
  /\ now < MaxTime
  /\ now' = now + 1
  /\ UNCHANGED <<store, pc, op, val, token, tries, owed, bound, overtaken,
                 excused>>

(* Mutant: links are cached without an expiry. *)
OnlyNegativeExpires(c) ==
  /\ cache[c] = NotFound
  /\ cache' = [cache EXCEPT ![c] = Null]
  /\ excused' = excused \ {c}
  /\ UNCHANGED <<urls, lock, clicks, now, pc, op, val, token, tries, owed,
                 bound, overtaken>>

(* CACHE_TTL_SECONDS or NEGATIVE_CACHE_TTL_SECONDS have passed. *)
EntryExpires(c) ==
  /\ cache[c] # Null
  /\ cache' = [cache EXCEPT ![c] = Null]
  /\ excused' = excused \ {c}
  /\ UNCHANGED <<urls, lock, clicks, now, pc, op, val, token, tries, owed,
                 bound, overtaken>>

(* LOCK_TTL_MS have passed. *)
LockExpires(c) ==
  /\ lock[c] # Null
  /\ SlowRebuilds \/ ~Rebuilding(lock[c])
  /\ lock' = [lock EXCEPT ![c] = Null]
  /\ UNCHANGED <<urls, cache, clicks, now, pc, op, val, token, tries, owed,
                 bound, overtaken, excused>>

(* The instance serving r dies; what r still owed is never done. *)
Crash(r) ==
  /\ Crashes
  /\ Active(r)
  /\ Goto(r, "crashed")
  /\ excused' = excused \cup (owed[r] \cap Cached)
  /\ owed' = [owed EXCEPT ![r] = {}]
  /\ UNCHANGED <<store, now, op, val, token, tries, bound, overtaken>>

-----------------------------------------------------------------------------
Init ==
  /\ urls \in [Codes -> Row \cup {Null}]
  /\ \A c \in Codes : urls[c] # Null => urls[c].url = c
  /\ cache = [c \in Codes |-> Null]
  /\ lock = [c \in Codes |-> Null]
  /\ clicks = [c \in Codes |-> {}]
  /\ now = 0
  /\ pc = [r \in Reqs |-> "idle"]
  /\ op = [r \in Reqs |-> Null]
  /\ val = [r \in Reqs |-> Null]
  /\ token = [r \in Reqs |-> FALSE]
  /\ tries = [r \in Reqs |-> 0]
  /\ owed = [r \in Reqs |-> {}]
  /\ bound = {<<c, View(urls[c])>> : c \in Codes}
  /\ overtaken = {}
  /\ excused = {}

(* What the program does for a request it has accepted. *)
Serve(r) ==
  \/ Lookup(r) \/ Acquire(r) \/ Wait(r) \/ Load(r) \/ Fill(r) \/ Release(r)
  \/ Decide(r) \/ RecordClick(r)
  \/ Insert(r) \/ Find(r) \/ Taken(r) \/ Write(r) \/ Invalidate(r)

Next ==
  \/ \E r \in Reqs : Start(r) \/ Serve(r) \/ Crash(r)
  \/ \E c \in Codes : EntryExpires(c) \/ LockExpires(c)
  \/ Tick

Spec == Init /\ [][Next]_vars

(* A step that gets further: a command sent again is not one, and is sent   *)
(* again maxRetriesPerRequest times at most.                                *)
Advance(r) ==
  Serve(r) /\ <<pc[r], tries[r], owed[r]>>' # <<pc[r], tries[r], owed[r]>>

(* An accepted request goes on being served (the event loop runs, and every *)
(* Redis and Postgres call returns or fails), and Redis expires its keys.   *)
FairSpec ==
  /\ Spec
  /\ \A r \in Reqs : WF_vars(Advance(r))
  /\ \A c \in Codes : WF_vars(EntryExpires(c))

-----------------------------------------------------------------------------
(* Properties *)

Limit == IF STAMPEDE_MAX_RETRIES > MAX_ATTEMPTS THEN STAMPEDE_MAX_RETRIES
         ELSE MAX_ATTEMPTS

AnyRequest == Request({"redirect", "create", "generate", "update", "delete"},
                      Codes \cup {Null}, Codes \cup {Null},
                      (0 .. MaxTime) \cup {Null})

(* Every variable keeps its shape; in particular no loop of the service runs *)
(* past its limit (STAMPEDE_MAX_RETRIES, MAX_ATTEMPTS).                      *)
TypeOK ==
  /\ urls \in [Codes -> Row \cup {Null}]
  /\ cache \in [Codes -> CachedUrl \cup {NotFound, Null}]
  /\ lock \in [Codes -> Reqs \cup {Null}]
  /\ clicks \in [Codes -> SUBSET Reqs]
  /\ now \in 0 .. MaxTime
  /\ pc \in [Reqs -> Steps \cup Statuses \cup {"idle", "crashed"}]
  /\ op \in [Reqs -> AnyRequest \cup {Null}]
  /\ val \in [Reqs -> CachedUrl \cup {NotFound, Null}]
  /\ token \in [Reqs -> BOOLEAN]
  /\ tries \in [Reqs -> 0 .. Limit]
  /\ owed \in [Reqs -> SUBSET Codes]
  /\ bound \in SUBSET (Codes \X (Row \cup {NotFound}))
  /\ overtaken \in SUBSET Reqs
  /\ excused \in SUBSET Codes

(* What Redis holds for a code, and what a redirect of it is answered from,  *)
(* is something the table has held for that same code at some time: never a  *)
(* value of another code, of another link's expiry, or an invented absence.  *)
AnswersComeFromTheTable ==
  /\ \A c \in Codes : cache[c] # Null => <<c, cache[c]>> \in bound
  /\ \A r \in Reqs : val[r] # Null => <<op[r].code, val[r]>> \in bound

(* A cached entry that disagrees with the table is on its way out (a request *)
(* that has committed a change to the code still owes its invalidation), or  *)
(* it has one of the known excuses: an invalidation failed or died, or the   *)
(* entry was written by a loader that a commit overtook. No order of the     *)
(* service's calls makes any other stale entry.                              *)
Stale(c) == cache[c] # Null /\ cache[c] # View(urls[c])
StalenessIsExplained ==
  \A c \in Codes : Stale(c) => c \in excused \/ \E w \in Reqs : c \in owed[w]

(* The strengthening that makes it inductive: what a loader is about to      *)
(* write is current unless a commit has overtaken it.                        *)
LoadersAreCurrent ==
  \A r \in Reqs : pc[r] = "fill" /\ r \notin overtaken => val[r] = View(urls[op[r].code])

(* A lock ends by its TTL, or by the release of the very request that took   *)
(* it: a request whose own lock expired does not free its successor's        *)
(* (releaseRebuildLock compares the token).                                  *)
LockEndsByOwnerOrTTL ==
  [][\A c \in Codes :
       lock[c] # Null /\ lock'[c] # lock[c] =>
         \/ LockExpires(c)
         \/ pc[lock[c]] = "release" /\ pc'[lock[c]] # "release"]_vars

(* A request that stops rebuilding a code does not leave its lock behind,    *)
(* whatever Postgres did to it (the finally), unless its instance died or    *)
(* Redis refused the release.                                                *)
LockNotLeaked ==
  [][\A r \in Reqs :
       Rebuilding(r) /\ ~Rebuilding(r)' =>
         \/ lock'[op[r].code] # r
         \/ pc'[r] = "crashed"
         \/ RedisFaults /\ pc[r] = "release"]_vars

(* Lost the lock, and missed the cache at each of its turns since.           *)
GaveUpWaiting(r) == ~token[r] /\ tries[r] = STAMPEDE_MAX_RETRIES

(* While Redis answers and rebuilds end within LOCK_TTL_MS, two requests load *)
(* a code side by side only if one of them lost the lock and waited all its  *)
(* turns in vain (the last line of resolveCachedUrl): nobody who holds the   *)
(* lock, or could still wait, loads beside another.                          *)
SingleRebuild ==
  ~RedisFaults /\ ~SlowRebuilds =>
    \A r, s \in Reqs :
      /\ r # s /\ {pc[r], pc[s]} \subseteq {"load", "fill", "release"}
      /\ op[r].code = op[s].code
      => GaveUpWaiting(r) \/ GaveUpWaiting(s)

(* No create and no rename puts a link in the place of another one, however  *)
(* the existence checks and the writes of several requests interleave.       *)
NoLinkOverwritten ==
  [][\A c \in Codes : urls[c] # Null /\ urls'[c] # Null =>
                        urls'[c].url = urls[c].url]_vars

(* A link lives under one code: a rename moves it, and no retry inserts it   *)
(* twice.                                                                    *)
OneCodePerLink ==
  \A c, d \in Codes : /\ urls[c] # Null /\ urls[d] # Null
                      /\ urls[c].url = urls[d].url
                      => c = d

(* Every accepted request is answered, unless its instance dies: no loop and *)
(* no lock holds it for ever.                                                *)
EveryRequestIsAnswered ==
  \A r \in Reqs : Active(r) ~> pc[r] \in Statuses \cup {"crashed"}

(* Once requests stop, the cache comes to agree with the table for good,     *)
(* whatever failed before (CACHE_TTL_SECONDS, NEGATIVE_CACHE_TTL_SECONDS).   *)
SelfHeals == <>[](\A c \in Codes : ~Stale(c))

-----------------------------------------------------------------------------
(* What comments, docs and tests say that the code does not do *)

Answered(r, kind, status, c) ==
  pc[r] = status /\ op[r].kind = kind /\ op[r].code = c

(* "clears the cache so a just-deleted link is never served from Redis":     *)
(* a lookup of a code that has no row, after its deletion was answered, does *)
(* not hit a link.                                                           *)
DeletedNeverServed ==
  [][\A s, d \in Reqs :
       /\ pc[s] = "lookup" /\ pc'[s] # "lookup"
       /\ Answered(d, "delete", "204", op[s].code)
       /\ urls[op[s].code] = Null
       => val'[s] \in {NotFound, Null}]_vars

(* The create test expects 201: while Postgres answers, a create does not    *)
(* end in 500 unless every generated code was taken.                         *)
CreateSucceeds ==
  ~DbFaults =>
    \A r \in Reqs : pc[r] = "500" /\ op[r].kind \in {"create", "generate"}
                      => tries[r] = MAX_ATTEMPTS

=============================================================================
