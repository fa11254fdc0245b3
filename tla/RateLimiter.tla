---------------------------- MODULE RateLimiter -----------------------------
(***************************************************************************)
(* The fixed-window limiter of src/middlewares/rateLimiter.middleware.ts.   *)
(* Each request runs the script at Redis, in one step, and is judged by the *)
(* program later, from the reply. Time is in ticks, SECOND of them a second.*)
(***************************************************************************)
EXTENDS Naturals, FiniteSets

CONSTANTS
  Reqs,       \* requests, each handled once
  Anon,       \* the addresses of callers without an API key
  ApiKeys,    \* the callers' API keys
  ANON_MAX,   \* RATE_LIMIT_ANON_MAX
  APIKEY_MAX, \* RATE_LIMIT_APIKEY_MAX
  SECOND,
  WINDOW,     \* windowMs
  MaxTime,    \* bound on the clock
  MaxHits,    \* bound: a script is only sent again while fewer have run
  RedisFaults

ASSUME LimiterAssumption ==
  /\ IsFiniteSet(Reqs) /\ Anon \cap ApiKeys = {}
  /\ {ANON_MAX, APIKEY_MAX, SECOND, WINDOW} \subseteq Nat \ {0}
  /\ {MaxTime, MaxHits} \subseteq Nat
  /\ RedisFaults \in BOOLEAN

VARIABLES
  now,
  current,  \* Redis ratelimit:<tier>:<id>; 0 when the key is absent
  expires,  \* when that key expires
  pc,       \* eval, reply, and then next, failopen or 429
  id,       \* the caller of each request
  count, ttl, \* the script's last reply to it
  retryAt,  \* the end of the wait a 429 asks for
  hits      \* history: the runs of the script

vars == <<now, current, expires, pc, id, count, ttl, retryAt, hits>>

Ids == Anon \cup ApiKeys

(* resolveTier *)
TierMax(i) == IF i \in ApiKeys THEN APIKEY_MAX ELSE ANON_MAX

(* Redis removes a key once its time is past. *)
Live(i) == current[i] > 0 /\ now <= expires[i]

Goto(r, step) == pc' = [pc EXCEPT ![r] = step]

(* Mutant: every hit of the window renews its expiry. *)
Renewed(i, n) == now + WINDOW

(* Mutant: every further hit adds a window. *)
Extended(i, n) == IF n = 1 THEN now + WINDOW ELSE expires[i] + WINDOW

(* Only the first hit of a window sets its expiry. *)
Expiry(i, n) == IF n = 1 THEN now + WINDOW ELSE expires[i]

(* RATE_LIMIT_SCRIPT: INCR, PEXPIRE, PTTL. *)
Script(r) ==
  LET i == id[r]
      n == IF Live(i) THEN current[i] + 1 ELSE 1
  IN  /\ current' = [current EXCEPT ![i] = n]
      /\ expires' = [expires EXCEPT ![i] = Expiry(i, n)]
      /\ count' = [count EXCEPT ![r] = n]
      /\ ttl' = [ttl EXCEPT ![r] = Expiry(i, n) - now]
      /\ hits' = hits \cup {[by |-> r, at |-> now, n |-> n,
                              ends |-> Expiry(i, n)]}

(* redis.eval. When it fails, with or without its effect, the request goes  *)
(* on unlimited; when only the reply is lost, the client sends it again.    *)
Eval(r) ==
  /\ pc[r] = "eval"
  /\ \/ Script(r) /\ Goto(r, "reply")
     \/ RedisFaults /\ Script(r) /\ Goto(r, "failopen")
     \/ RedisFaults /\ Cardinality(hits) < MaxHits /\ Script(r) /\ UNCHANGED pc
     \/ /\ RedisFaults /\ Goto(r, "failopen")
        /\ UNCHANGED <<current, expires, count, ttl, hits>>
  /\ UNCHANGED <<now, id, retryAt>>

(* Mutant: Math.floor. *)
FloorSeconds(t) == IF t < SECOND THEN 1 ELSE t \div SECOND

(* Math.max(1, Math.ceil(ttlMs / 1000)) *)
ResetSec(t) == IF t = 0 THEN 1 ELSE (t + SECOND - 1) \div SECOND

(* Mutant: an off-by-one in the comparison. *)
OverByOne(r) == count[r] > TierMax(id[r]) + 1

(* Mutant: >= in the comparison. *)
AtLimit(r) == count[r] >= TierMax(id[r])

OverLimit(r) == count[r] > TierMax(id[r])

Judge(r) ==
  /\ pc[r] = "reply"
  /\ IF OverLimit(r)
     THEN /\ Goto(r, "429")
          /\ retryAt' = [retryAt EXCEPT ![r] = now + ResetSec(ttl[r]) * SECOND]
     ELSE Goto(r, "next") /\ UNCHANGED retryAt
  /\ UNCHANGED <<now, current, expires, id, count, ttl, hits>>

Tick ==
  /\ now < MaxTime
  /\ now' = now + 1
  /\ UNCHANGED <<current, expires, pc, id, count, ttl, retryAt, hits>>

Init ==
  /\ now = 0
  /\ current = [i \in Ids |-> 0] /\ expires = [i \in Ids |-> 0]
  /\ pc = [r \in Reqs |-> "eval"]
  /\ id \in [Reqs -> Ids]
  /\ count = [r \in Reqs |-> 0] /\ ttl = [r \in Reqs |-> 0]
  /\ retryAt = [r \in Reqs |-> 0]
  /\ hits = {}

Next == Tick \/ \E r \in Reqs : Eval(r) \/ Judge(r)

Spec == Init /\ [][Next]_vars

-----------------------------------------------------------------------------
(* In any span of WINDOW ticks a caller gets less than twice its limit      *)
(* through while Redis answers, however requests, replies and windows       *)
(* interleave: the price of fixed windows, and no more than it.              *)
LessThanTwiceTheLimit ==
  \A i \in Ids, t \in 0 .. MaxTime :
    Cardinality({r \in Reqs :
        /\ pc[r] = "next" /\ id[r] = i
        /\ \E h \in hits : /\ h.by = r /\ h.n = count[r]
                           /\ h.at \in t .. t + WINDOW - 1})
      < 2 * TierMax(i)

(* Who waits for longer than a 429 asks is not counted in the window that    *)
(* refused it again, whatever the rounding, the age of the reply and the     *)
(* scripts of others. At the very tick the wait ends the window may still    *)
(* be there: a PTTL of 0 is that of a live key.                              *)
WaitingEndsTheWindow ==
  \A r \in Reqs : pc[r] = "429" =>
    \A h, g \in hits :
      h.by = r /\ id[g.by] = id[r] /\ g.at > retryAt[r] => g.ends # h.ends

(* No hit prolongs a window: who is refused was first counted less than a    *)
(* window before, and is not locked out by its own attempts.                 *)
WindowsEnd == \A i \in Ids : Live(i) =>
  \E h \in hits : id[h.by] = i /\ h.n = 1 /\ h.at + WINDOW = expires[i]

(* The runs of its own window that came before a run, and those of them      *)
(* that the same request ran again.                                          *)
Before(h) == {g \in hits : id[g.by] = id[h.by] /\ g.ends = h.ends /\ g.n < h.n}
RunAgain(h) ==
  {g \in Before(h) : \E f \in Before(h) \cup {h} : f.by = g.by /\ g.n < f.n}

(* A caller is refused only for what it sent itself in the window: as many   *)
(* other requests of its own as the limit were counted before. Only scripts  *)
(* that were sent again, its own or those of these requests, make them       *)
(* fewer, and by no more than one each.                                      *)
RefusedForItsOwnRequests ==
  \A r \in Reqs : pc[r] = "429" =>
    \E h \in hits :
      /\ h.by = r /\ h.n = count[r]
      /\ Cardinality({g.by : g \in Before(h)} \ {r}) + Cardinality(RunAgain(h))
           >= TierMax(id[r])

Hit == [by : Reqs, at : 0 .. MaxTime, n : 1 .. MaxHits + Cardinality(Reqs),
        ends : 0 .. MaxTime + WINDOW]

(* Every variable keeps its shape; in particular the reply's PTTL is never   *)
(* longer than the window.                                                   *)
TypeOK ==
  /\ now \in 0 .. MaxTime
  /\ current \in [Ids -> 0 .. MaxHits + Cardinality(Reqs)]
  /\ expires \in [Ids -> 0 .. MaxTime + WINDOW]
  /\ pc \in [Reqs -> {"eval", "reply", "next", "failopen", "429"}]
  /\ id \in [Reqs -> Ids]
  /\ count \in [Reqs -> 0 .. MaxHits + Cardinality(Reqs)]
  /\ ttl \in [Reqs -> 0 .. WINDOW]
  /\ retryAt \in [Reqs -> Nat]
  /\ hits \in SUBSET Hit

=============================================================================
