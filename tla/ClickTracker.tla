---------------------------- MODULE ClickTracker ----------------------------
(***************************************************************************)
(* The write-behind click counters: src/services/clickTracker.service.ts,   *)
(* addClicks of the repository, getUrlStats, and the shutdown of            *)
(* src/index.ts, for one instance of the program.                           *)
(*                                                                         *)
(* Every click has an identity and a counter is the set of the clicks it    *)
(* counts: INCR adds one, INCRBY and the SQL increment add a batch. Where a *)
(* click is, and whether it is there twice, can then be told.               *)
(***************************************************************************)
EXTENDS Naturals, FiniteSets

CONSTANTS
  Codes, Links, Clicks,
  Flushes,     \* the calls of flushClicks that may be in progress together
  Readers,     \* the stats requests
  Null,
  Faults,      \* the kinds of fault that may happen
  MaxFaults,   \* bound on their number
  OwnerRequired, \* the urls table has its NOT NULL user_id column
  Shutdowns    \* the instance may be told to stop

FaultKinds == {"redis",    \* a Redis command fails, with or without effect
               "db",       \* addClicks fails without effect
               "dbreply",  \* addClicks takes effect and fails
               "crash",    \* the process dies, and is started again
               "timeout"}  \* the shutdown takes longer than 10 seconds

ASSUME FaultsAssumption ==
  /\ Faults \subseteq FaultKinds
  /\ MaxFaults \in Nat
  /\ {OwnerRequired, Shutdowns} \subseteq BOOLEAN

ASSUME NullAssumption ==
  /\ Null \notin Codes /\ Null \notin Links /\ Null \notin Flushes
  /\ Null \notin [link : Links, code : Codes]

VARIABLES
  row,       \* Postgres: code -> the link that has it, or Null
  made,      \* history: the links that were ever created
  counted,   \* Postgres: link -> its click_count
  buffer,    \* Redis clicks:<code>; {} when the key is absent
  pending,   \* Redis clicks:pending
  click,     \* the link and code a redirect resolved, Null before
  recorded,  \* the clicks whose recordClick is done
  fpc,       \* where each call of flushClicks is
  todo,      \* the members of clicks:pending it has still to visit
  cur,       \* the code it is visiting
  batch,     \* the count it took out of Redis
  final,     \* the flush of stopClickFlush; Null while the timer runs
  exited,    \* the process has exited
  stats,     \* the stats requests
  faults,    \* how many faults there have been
  dropped,   \* history: clicks given up on purpose
  gone,      \* history: clicks that a fault took
  unsaved,   \* history: clicks a flush held when the process exited in order
  doubled,   \* history: clicks that addClicks counted although it failed
  again      \* history: clicks whose increment Redis ran more than once

tables == <<row, made, counted>>
redis == <<buffer, pending>>
traffic == <<click, recorded>>
flushes == <<fpc, todo, cur, batch>>
process == <<final, exited>>
losses == <<dropped, gone, unsaved, doubled, again>>
vars == <<row, made, counted, buffer, pending, click, recorded, fpc, todo, cur,
          batch, final, exited, stats, faults, dropped, gone, unsaved, doubled,
          again>>

Fault(kind) == kind \in Faults /\ faults < MaxFaults /\ faults' = faults + 1
NoFault == UNCHANGED faults

-----------------------------------------------------------------------------
(* Links: what POST, PATCH and DELETE do to the rows *)

(* insertUrl, which fails as long as it does not give the owner. *)
Create(c, l) ==
  /\ ~OwnerRequired /\ row[c] = Null /\ l \notin made
  /\ row' = [row EXCEPT ![c] = l]
  /\ made' = made \cup {l}
  /\ UNCHANGED <<counted, redis, traffic, flushes, process, stats, faults, losses>>

Rename(c, d) ==
  /\ row[c] # Null /\ row[d] = Null
  /\ row' = [row EXCEPT ![c] = Null, ![d] = row[c]]
  /\ UNCHANGED <<made, counted, redis, traffic, flushes, process, stats, faults,
                 losses>>

Delete(c) ==
  /\ row[c] # Null
  /\ row' = [row EXCEPT ![c] = Null]
  /\ UNCHANGED <<made, counted, redis, traffic, flushes, process, stats, faults,
                 losses>>

-----------------------------------------------------------------------------
(* Redirects and stats *)

(* A redirect has resolved its code; the server accepts no more of them     *)
(* once it is closing.                                                      *)
Resolve(k, c) ==
  /\ final = Null /\ click[k] = Null /\ row[c] # Null
  /\ click' = [click EXCEPT ![k] = [link |-> row[c], code |-> c]]
  /\ UNCHANGED <<tables, redis, recorded, flushes, process, stats, faults, losses>>

(* MULTI INCR SADD EXEC; without Redis the click is dropped. When its reply *)
(* is lost, the client sends it again, and the click is counted again.      *)
recordClick(k) ==
  LET c == click[k].code IN
  /\ ~exited /\ click[k] # Null /\ k \notin recorded
  /\ recorded' = recorded \cup {k}
  /\ \/ /\ NoFault
        /\ buffer' = [buffer EXCEPT ![c] = @ \cup {k}]
        /\ pending' = pending \cup {c}
        /\ UNCHANGED losses
     \/ /\ Fault("redis")
        /\ dropped' = dropped \cup {k}
        /\ UNCHANGED <<redis, gone, unsaved, doubled, again>>
     \/ /\ Fault("redis")
        /\ buffer' = [buffer EXCEPT ![c] = @ \cup {k}]
        /\ pending' = pending \cup {c}
        /\ again' = again \cup {k}
        /\ UNCHANGED <<dropped, gone, unsaved, doubled>>
  /\ UNCHANGED <<tables, click, flushes, process, stats>>

(* getUrlStats: the row with its click_count, then the buffered clicks. *)
StatsRow(s, c) ==
  /\ ~exited /\ stats[s].at = "idle" /\ row[c] # Null
  /\ stats' = [stats EXCEPT ![s] =
                 [at |-> "pending", code |-> c, db |-> counted[row[c]],
                  redis |-> {}]]
  /\ UNCHANGED <<tables, redis, traffic, flushes, process, faults, losses>>

StatsPending(s) ==
  /\ ~exited /\ stats[s].at = "pending"
  /\ \E n \in {buffer[stats[s].code], {}} :
       /\ stats' = [stats EXCEPT ![s].at = "done", ![s].redis = n]
       /\ IF n = buffer[stats[s].code] THEN NoFault ELSE Fault("redis")
  /\ UNCHANGED <<tables, redis, traffic, flushes, process, losses>>

-----------------------------------------------------------------------------
(* flushClicks *)

(* A rejected flush only logs; when it is the final one, the process exits. *)
Reject(f) == fpc' = [fpc EXCEPT ![f] = "idle"]
Continue(f) == fpc' = [fpc EXCEPT ![f] = "next"]

(* SMEMBERS clicks:pending. *)
flushClicks(f) ==
  \/ /\ NoFault
     /\ todo' = [todo EXCEPT ![f] = pending]
     /\ Continue(f)
  \/ Fault("redis") /\ Reject(f) /\ UNCHANGED todo

(* A turn of the timer, which does not wait for the flush before. *)
Interval(f) ==
  /\ final = Null /\ fpc[f] = "idle"
  /\ flushClicks(f)
  /\ UNCHANGED <<tables, redis, traffic, cur, batch, process, stats, losses>>

(* The loop takes the next code, or ends. *)
SRem(f) ==
  /\ ~exited /\ fpc[f] = "next"
  /\ \/ /\ todo[f] = {} /\ NoFault
        /\ fpc' = [fpc EXCEPT ![f] = "idle"]
        /\ UNCHANGED <<todo, cur, pending>>
     \/ \E c \in todo[f] :
          /\ todo' = [todo EXCEPT ![f] = @ \ {c}]
          /\ cur' = [cur EXCEPT ![f] = c]
          /\ \/ /\ NoFault
                /\ pending' = pending \ {c}
                /\ fpc' = [fpc EXCEPT ![f] = "getdel"]
             \/ /\ Fault("redis") /\ pending' \in {pending, pending \ {c}}
                /\ Reject(f)
  /\ UNCHANGED <<tables, buffer, traffic, batch, process, stats, losses>>

(* Mutant: GET, the key being left for later. *)
GetOnly(f) ==
  /\ ~exited /\ fpc[f] = "getdel" /\ NoFault
  /\ batch' = [batch EXCEPT ![f] = buffer[cur[f]]]
  /\ fpc' = [fpc EXCEPT ![f] = IF buffer[cur[f]] = {} THEN "next" ELSE "add"]
  /\ UNCHANGED <<tables, redis, traffic, todo, cur, process, stats, losses>>

(* GETDEL. When its reply is lost, the call fails, or the client sends it   *)
(* again and gets nil: the count is gone.                                   *)
GetDel(f) ==
  LET c == cur[f] IN
  /\ ~exited /\ fpc[f] = "getdel"
  /\ \/ /\ NoFault
        /\ batch' = [batch EXCEPT ![f] = buffer[c]]
        /\ buffer' = [buffer EXCEPT ![c] = {}]
        /\ fpc' = [fpc EXCEPT ![f] = IF buffer[c] = {} THEN "next" ELSE "add"]
        /\ UNCHANGED gone
     \/ /\ Fault("redis") /\ Reject(f)
        /\ UNCHANGED <<batch, buffer, gone>>
     \/ /\ Fault("redis") /\ (Reject(f) \/ Continue(f))
        /\ buffer' = [buffer EXCEPT ![c] = {}]
        /\ gone' = gone \cup buffer[c]
        /\ UNCHANGED batch
  /\ UNCHANGED <<tables, pending, traffic, todo, cur, process, stats, dropped,
                 unsaved, doubled, again>>

Credit(f) == [counted EXCEPT ![row[cur[f]]] = @ \cup batch[f]]

(* Mutant: what was counted is kept at hand. *)
KeptBatch(f) == batch

Emptied(f) == [batch EXCEPT ![f] = {}]

(* Mutant: a code without a row is treated like any other error. *)
AddOrRebuffer(f) ==
  /\ ~exited /\ fpc[f] = "add" /\ NoFault
  /\ \/ /\ row[cur[f]] # Null
        /\ counted' = Credit(f) /\ batch' = Emptied(f)
        /\ Continue(f)
     \/ /\ row[cur[f]] = Null
        /\ fpc' = [fpc EXCEPT ![f] = "rebuffer"]
        /\ UNCHANGED <<counted, batch>>
  /\ UNCHANGED <<row, made, redis, traffic, todo, cur, process, stats, losses>>

(* addClicks: count the batch, drop it when the code has no row (P2025), or *)
(* put it back after any other error.                                       *)
AddClicks(f) ==
  /\ ~exited /\ fpc[f] = "add"
  /\ \/ /\ NoFault /\ row[cur[f]] # Null
        /\ counted' = Credit(f) /\ batch' = Emptied(f)
        /\ Continue(f)
        /\ UNCHANGED <<dropped, doubled>>
     \/ /\ NoFault /\ row[cur[f]] = Null
        /\ dropped' = dropped \cup batch[f] /\ batch' = Emptied(f)
        /\ Continue(f)
        /\ UNCHANGED <<counted, doubled>>
     \/ /\ \/ Fault("db") /\ UNCHANGED <<counted, doubled>>
           \/ /\ Fault("dbreply") /\ row[cur[f]] # Null
              /\ counted' = Credit(f) /\ doubled' = doubled \cup batch[f]
        /\ fpc' = [fpc EXCEPT ![f] = "rebuffer"]
        /\ UNCHANGED <<batch, dropped>>
  /\ UNCHANGED <<row, made, redis, traffic, todo, cur, process, stats, gone, unsaved,
                 again>>

(* Mutant: SET, over the clicks that arrived since the GETDEL. *)
Overwritten(f) == [buffer EXCEPT ![cur[f]] = batch[f]]

(* INCRBY. *)
PutBack(f) == [buffer EXCEPT ![cur[f]] = @ \cup batch[f]]

(* Mutant: the code is not marked again. *)
NotMarked(f) == pending

(* SADD. *)
Marked(f) == pending \cup {cur[f]}

(* What the flushes have in their hands and nowhere else. *)
InHands == (UNION {batch[f] : f \in Flushes}) \ (UNION {counted[l] : l \in Links})

(* MULTI INCRBY SADD EXEC; if it fails, so does the flush. Sent again after  *)
(* a lost reply, it adds the batch again.                                    *)
Rebuffer(f) ==
  /\ ~exited /\ fpc[f] = "rebuffer"
  /\ batch' = Emptied(f)
  /\ \/ /\ buffer' = PutBack(f) /\ pending' = Marked(f)
        /\ \/ NoFault /\ Continue(f) /\ UNCHANGED again
           \/ Fault("redis") /\ Reject(f) /\ UNCHANGED again
           \/ /\ Fault("redis") /\ (Continue(f) \/ Reject(f))
              /\ again' = again \cup batch[f]
        /\ UNCHANGED gone
     \/ /\ Fault("redis") /\ Reject(f)
        /\ gone' = gone \cup (batch[f] \ UNION {counted[l] : l \in Links})
        /\ UNCHANGED <<redis, again>>
  /\ UNCHANGED <<tables, traffic, todo, cur, process, stats, dropped, unsaved,
                 doubled>>

-----------------------------------------------------------------------------
(* The process *)

(* stopClickFlush, once the server has closed: no redirect is in progress.  *)
Stop(f) ==
  /\ Shutdowns /\ final = Null /\ fpc[f] = "idle"
  /\ \A k \in Clicks : click[k] # Null => k \in recorded
  /\ final' = f
  /\ flushClicks(f)
  /\ UNCHANGED <<tables, redis, traffic, cur, batch, exited, stats, losses>>

(* The final flush is over, or the shutdown timed out. What a flush of the   *)
(* timer still holds is lost with the process.                               *)
Exit ==
  /\ final # Null /\ ~exited
  /\ exited' = TRUE
  /\ \/ /\ fpc[final] = "idle" /\ NoFault
        /\ unsaved' = unsaved \cup InHands
        /\ UNCHANGED gone
     \/ /\ fpc[final] # "idle" /\ Fault("timeout")
        /\ gone' = gone \cup InHands
        /\ UNCHANGED unsaved
  /\ UNCHANGED <<tables, redis, traffic, flushes, final, stats, dropped, doubled, again>>

(* The instance dies, with the redirects it was serving, and is started     *)
(* again.                                                                   *)
Crash ==
  /\ ~exited /\ Fault("crash")
  /\ fpc' = [f \in Flushes |-> "idle"]
  /\ batch' = [f \in Flushes |-> {}]
  /\ final' = Null
  /\ click' = [k \in Clicks |-> IF k \in recorded THEN click[k] ELSE Null]
  /\ gone' = gone \cup InHands
  /\ UNCHANGED <<tables, redis, recorded, todo, cur, exited, stats, dropped, unsaved,
                 doubled, again>>

-----------------------------------------------------------------------------
Init ==
  /\ row \in [Codes -> Links \cup {Null}]
  /\ \A c, d \in Codes : row[c] = row[d] /\ row[c] # Null => c = d
  /\ made = {row[c] : c \in Codes} \ {Null}
  /\ counted = [l \in Links |-> {}]
  /\ buffer = [c \in Codes |-> {}] /\ pending = {}
  /\ click = [k \in Clicks |-> Null] /\ recorded = {}
  /\ fpc = [f \in Flushes |-> "idle"]
  /\ todo = [f \in Flushes |-> {}]
  /\ cur = [f \in Flushes |-> Null]
  /\ batch = [f \in Flushes |-> {}]
  /\ final = Null /\ exited = FALSE
  /\ stats = [s \in Readers |-> [at |-> "idle", code |-> Null, db |-> {},
                                 redis |-> {}]]
  /\ faults = 0
  /\ dropped = {} /\ gone = {} /\ unsaved = {} /\ doubled = {} /\ again = {}

Flush(f) == SRem(f) \/ GetDel(f) \/ AddClicks(f) \/ Rebuffer(f)

Next ==
  \/ \E c \in Codes : \/ \E l \in Links : Create(c, l)
                      \/ \E d \in Codes : Rename(c, d)
                      \/ Delete(c)
                      \/ \E k \in Clicks : Resolve(k, c)
                      \/ \E s \in Readers : StatsRow(s, c)
  \/ \E k \in Clicks : recordClick(k)
  \/ \E s \in Readers : StatsPending(s)
  \/ \E f \in Flushes : Interval(f) \/ Flush(f) \/ Stop(f)
  \/ Exit \/ Crash

Spec == Init /\ [][Next]_vars

(* The timer keeps firing, and a flush that runs goes on. *)
FairSpec ==
  Spec /\ \A f \in Flushes : WF_vars(Interval(f)) /\ WF_vars(Flush(f))

-----------------------------------------------------------------------------
(* Properties *)

StatsState == [at : {"idle", "pending", "done"}, code : Codes \cup {Null},
               db : SUBSET Clicks, redis : SUBSET Clicks]

(* Every variable keeps its shape; a flush holds a batch only between the   *)
(* GETDEL and the end of addClicks or of the re-buffering.                  *)
TypeOK ==
  /\ row \in [Codes -> Links \cup {Null}]
  /\ made \in SUBSET Links
  /\ counted \in [Links -> SUBSET Clicks]
  /\ buffer \in [Codes -> SUBSET Clicks]
  /\ pending \in SUBSET Codes
  /\ click \in [Clicks -> [link : Links, code : Codes] \cup {Null}]
  /\ recorded \in SUBSET Clicks
  /\ fpc \in [Flushes -> {"idle", "next", "getdel", "add", "rebuffer"}]
  /\ todo \in [Flushes -> SUBSET Codes]
  /\ cur \in [Flushes -> Codes \cup {Null}]
  /\ batch \in [Flushes -> SUBSET Clicks]
  /\ final \in Flushes \cup {Null}
  /\ exited \in BOOLEAN
  /\ stats \in [Readers -> StatsState]
  /\ faults \in 0 .. MaxFaults
  /\ {dropped, gone, unsaved, doubled, again} \subseteq SUBSET Clicks
  /\ \A f \in Flushes : batch[f] # {} => fpc[f] \in {"add", "rebuffer"}

Places(k) ==
  {<<"counted", l>> : l \in {m \in Links : k \in counted[m]}}
    \cup {<<"buffer", c>> : c \in {d \in Codes : k \in buffer[d]}}
    \cup {<<"batch", f>> : f \in {g \in Flushes : k \in batch[g] /\ ~exited}}
    \cup {<<"dropped", j>> : j \in dropped \cap {k}}

Lost == gone \cup unsaved

(* Every recorded click is in exactly one place: one link's count, one       *)
(* buffered counter, one flush's hands, or dropped on purpose. However many  *)
(* flushes overlap, with clicks arriving at any moment, none is in two       *)
(* places, and none disappears but through a fault (gone) or with a process  *)
(* that has exited (unsaved). Excepted are the clicks of a batch that        *)
(* addClicks counted and was told it had not. A click of again is in one     *)
(* place too, with the increments of it that Redis ran; as long as nothing   *)
(* has failed, there are none of either, and nothing is gone.                *)
EveryClickInOnePlace ==
  /\ \A k \in Clicks \ doubled :
       Cardinality(Places(k)) = IF k \in recorded \ Lost THEN 1 ELSE 0
  /\ faults = 0 => gone \cup doubled \cup again = {}
  /\ ~exited => unsaved = {}

(* While Redis answers and the process lives, a buffered counter is marked  *)
(* pending, or a flush that has unmarked it is about to take it: no         *)
(* interleaving of clicks and flushes leaves clicks no flush will visit.    *)
BufferedIsPending ==
  Faults \cap {"redis", "crash", "timeout"} = {} /\ ~exited =>
    \A c \in Codes : buffer[c] # {} =>
      \/ c \in pending
      \/ \E f \in Flushes : fpc[f] = "getdel" /\ cur[f] = c

(* A stats answer never counts a click in both of its halves, although it   *)
(* reads the two stores one after the other while flushes move clicks       *)
(* between them; a batch whose update failed after its effect excepted.     *)
StatsNeverOvercount ==
  \A s \in Readers : stats[s].db \cap stats[s].redis \subseteq doubled

(* In the end every recorded click is counted, or dropped with its link:    *)
(* failing flushes are retried.                                             *)
EveryClickIsSettled ==
  \A k \in Clicks :
    k \in recorded ~> k \in dropped \cup UNION {counted[l] : l \in Links}

(* What has become of a click: a count in the table is final. *)
Fate(k) ==
  IF k \in UNION {counted[l] : l \in Links} THEN "counted"
  ELSE IF k \in dropped THEN "dropped"
  ELSE IF k \in Lost THEN "lost"
  ELSE IF k \in UNION ({buffer[c] : c \in Codes} \cup {batch[f] : f \in Flushes})
  THEN "pending" ELSE "none"

Ledger == INSTANCE ClickLedger WITH
  Lossy <- Shutdowns \/ Faults \cap {"redis", "crash"} # {},
  fate <- [k \in Clicks |-> Fate(k)]

(* Seen from outside, clicks are settled once and for all, batch by batch,   *)
(* whatever fails and is retried: this implements ClickLedger, where one     *)
(* that was counted is not given up later, and one that was recorded does    *)
(* not go back to never having happened. Only a failing Redis, a crash, or   *)
(* a shutdown loses any.                                                     *)
ImplementsLedger == Ledger!Spec

-----------------------------------------------------------------------------
(* What comments and docs say that the code does not do *)

(* "mark the code as pending so the flush job knows to persist it": a       *)
(* buffered counter is marked, or a flush in progress still has it at hand. *)
FlushJobKnows ==
  ~exited =>
    \A c \in Codes : buffer[c] # {} =>
      \/ c \in pending
      \/ \E f \in Flushes : fpc[f] # "idle" /\ cur[f] = c

(* "no clicks are lost": when the process has exited, and nothing has        *)
(* failed, every recorded click is counted, dropped with its link, or still  *)
(* in Redis for the next start.                                              *)
NoClicksLost ==
  exited /\ faults = 0 =>
    recorded \subseteq UNION ({dropped} \cup {counted[l] : l \in Links}
                               \cup {buffer[c] : c \in Codes})

(* "any clicks still buffered for a now-deleted code are safely dropped at  *)
(* the next flush": they are not credited to another link.                  *)
CreditedToTheirLink ==
  \A l \in Links : \A k \in counted[l] : click[k].link = l

=============================================================================
