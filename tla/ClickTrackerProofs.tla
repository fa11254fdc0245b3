------------------------- MODULE ClickTrackerProofs -------------------------
(***************************************************************************)
(* Proofs about ClickTracker, for every set of links, clicks, flushes and   *)
(* stats requests, and any number of faults of any kinds.                   *)
(*                                                                         *)
(* The inductive invariant is TrackerOK. Where a click is, is told by       *)
(* Somewhere and Apart, for the clicks that are not doubled; that is what   *)
(* EveryClickInOnePlace counts, and what the steps of ClickLedger rest on.  *)
(***************************************************************************)
EXTENDS ClickTracker, FiniteSetTheorems, TLAPS

USE FaultsAssumption, NullAssumption

Counted(k) == \E l \in Links : k \in counted[l]
Buffered(k) == \E c \in Codes : k \in buffer[c]
Held(k) == ~exited /\ \E f \in Flushes : k \in batch[f]

Somewhere(k) == Counted(k) \/ Buffered(k) \/ Held(k) \/ k \in dropped \/ k \in Lost

Apart(k) ==
  /\ \A l, m \in Links : k \in counted[l] /\ k \in counted[m] => l = m
  /\ \A c, d \in Codes : k \in buffer[c] /\ k \in buffer[d] => c = d
  /\ \A f, g \in Flushes : ~exited /\ k \in batch[f] /\ k \in batch[g] => f = g
  /\ Counted(k) => ~Buffered(k) /\ ~Held(k) /\ k \notin dropped /\ k \notin Lost
  /\ Buffered(k) => ~Held(k) /\ k \notin dropped /\ k \notin Lost
  /\ Held(k) => k \notin dropped /\ k \notin Lost
  /\ k \in dropped => k \notin Lost

PlaceOK(k) == k \notin doubled => Apart(k) /\ (k \in recorded => Somewhere(k))

(* What was not recorded is nowhere, and what is doubled is counted.        *)
RecordedOK(k) ==
  /\ k \notin recorded => /\ ~Counted(k) /\ ~Buffered(k)
                          /\ \A f \in Flushes : k \notin batch[f]
                          /\ k \notin dropped /\ k \notin Lost
  /\ k \in doubled => Counted(k)

PlacesOK == \A k \in Clicks : PlaceOK(k) /\ RecordedOK(k)

(* A flush that visits a code knows it, and so does a stats request.        *)
ControlOK ==
  /\ \A f \in Flushes : fpc[f] \in {"getdel", "add", "rebuffer"} => cur[f] \in Codes
  /\ \A s \in Readers : stats[s].at # "idle" => stats[s].code \in Codes
  /\ final # Null => Shutdowns

(* The count of a stats request was in the table when it was read, and the  *)
(* counts of the table only grow.                                           *)
StatsOK ==
  \A s \in Readers :
    /\ stats[s].at = "idle" => stats[s].redis = {}
    /\ \A k \in stats[s].db : Counted(k)
    /\ stats[s].at = "pending" => stats[s].redis = {}

(* What the history calls a fault's was a fault's.                          *)
HistoryOK ==
  /\ faults = 0 => gone \cup doubled \cup again = {}
  /\ ~exited => unsaved = {}

TrackerOK ==
  TypeOK /\ ControlOK /\ PlacesOK /\ HistoryOK /\ StatsOK /\ StatsNeverOvercount

-----------------------------------------------------------------------------
(* Types *)

LEMMA FaultStep ==
  ASSUME TypeOK, NoFault \/ \E kind \in FaultKinds : Fault(kind)
  PROVE  faults' \in 0 .. MaxFaults
  BY DEF TypeOK, NoFault, Fault

LEMMA FlushBegins ==
  ASSUME TypeOK, ControlOK, NEW f \in Flushes, fpc[f] = "idle", flushClicks(f),
         UNCHANGED <<batch, cur>>
  PROVE  /\ fpc' \in [Flushes -> {"idle", "next", "getdel", "add", "rebuffer"}]
         /\ fpc'[f] \in {"idle", "next"} /\ \A g \in Flushes \ {f} : fpc'[g] = fpc[g]
         /\ todo' \in [Flushes -> SUBSET Codes]
         /\ faults' \in 0 .. MaxFaults
         /\ \A g \in Flushes : batch'[g] # {} => fpc'[g] \in {"add", "rebuffer"}
  <1>1. faults' \in 0 .. MaxFaults
    BY FaultStep DEF flushClicks, FaultKinds
  <1>2. /\ fpc' \in [Flushes -> {"idle", "next", "getdel", "add", "rebuffer"}]
        /\ fpc'[f] \in {"idle", "next"} /\ \A g \in Flushes \ {f} : fpc'[g] = fpc[g]
    BY DEF flushClicks, TypeOK, Continue, Reject
  <1>3. todo' \in [Flushes -> SUBSET Codes]
    BY DEF flushClicks, TypeOK
  <1> QED
    BY <1>1, <1>2, <1>3 DEF TypeOK

LEMMA LinkTypes ==
  ASSUME TypeOK, NEW c \in Codes,
         \/ \E l \in Links : Create(c, l)
         \/ \E d \in Codes : Rename(c, d)
         \/ Delete(c)
  PROVE  TypeOK'
  <1>1. ASSUME NEW l \in Links, Create(c, l)
        PROVE  TypeOK'
    BY <1>1 DEF TypeOK, Create, redis, traffic, flushes, process, losses
  <1>2. ASSUME NEW d \in Codes, Rename(c, d)
        PROVE  TypeOK'
    <2>1. row[c] \in Links /\ row \in [Codes -> Links \cup {Null}]
      BY <1>2 DEF TypeOK, Rename
    <2>2. row' \in [Codes -> Links \cup {Null}]
      BY <1>2, <2>1 DEF Rename
    <2> QED
      BY <1>2, <2>2 DEF TypeOK, Rename, redis, traffic, flushes, process, losses
  <1>3. CASE Delete(c)
    BY <1>3 DEF TypeOK, Delete, redis, traffic, flushes, process, losses
  <1> QED
    BY <1>1, <1>2, <1>3

LEMMA TrafficTypes ==
  ASSUME TypeOK, ControlOK, NEW k \in Clicks,
         recordClick(k) \/ \E c \in Codes : Resolve(k, c)
  PROVE  TypeOK'
  <1>1. ASSUME NEW c \in Codes, Resolve(k, c)
        PROVE  TypeOK'
    <2>1. [link |-> row[c], code |-> c] \in [link : Links, code : Codes]
      BY <1>1 DEF TypeOK, Resolve
    <2>2. click' \in [Clicks -> [link : Links, code : Codes] \cup {Null}]
      BY <1>1, <2>1 DEF TypeOK, Resolve
    <2> QED
      BY <1>1, <2>2 DEF TypeOK, Resolve, tables, redis, flushes, process, losses
  <1>2. CASE recordClick(k)
    <2>1. click[k].code \in Codes
      BY <1>2 DEF TypeOK, recordClick
    <2>2. faults' \in 0 .. MaxFaults
      BY <1>2, FaultStep DEF recordClick, FaultKinds
    <2>3. buffer' \in [Codes -> SUBSET Clicks] /\ pending' \in SUBSET Codes
      BY <1>2, <2>1 DEF TypeOK, recordClick, redis
    <2>4. recorded' \in SUBSET Clicks
          /\ dropped' \in SUBSET Clicks /\ gone' \in SUBSET Clicks
          /\ unsaved' \in SUBSET Clicks
          /\ doubled' \in SUBSET Clicks /\ again' \in SUBSET Clicks
      BY <1>2 DEF TypeOK, recordClick, losses
    <2> QED
      BY <1>2, <2>2, <2>3, <2>4 DEF TypeOK, recordClick, tables, flushes, process
  <1> QED
    BY <1>1, <1>2

LEMMA StatsTypes ==
  ASSUME TypeOK, ControlOK, NEW s \in Readers,
         StatsPending(s) \/ \E c \in Codes : StatsRow(s, c)
  PROVE  TypeOK'
  <1>1. ASSUME NEW c \in Codes, StatsRow(s, c)
        PROVE  TypeOK'
    <2>1. [at |-> "pending", code |-> c, db |-> counted[row[c]], redis |-> {}]
            \in StatsState
      BY <1>1 DEF TypeOK, StatsRow, StatsState
    <2>2. stats' \in [Readers -> StatsState]
      BY <1>1, <2>1 DEF TypeOK, StatsRow
    <2> QED
      BY <1>1, <2>2 DEF TypeOK, StatsRow, tables, redis, traffic, flushes, process,
                        losses
  <1>2. CASE StatsPending(s)
    <2>1. PICK n \in {buffer[stats[s].code], {}} :
            /\ stats' = [stats EXCEPT ![s].at = "done", ![s].redis = n]
            /\ NoFault \/ Fault("redis")
      BY <1>2 DEF StatsPending
    <2>2. stats[s] \in StatsState /\ n \in SUBSET Clicks
      BY <1>2, <2>1 DEF TypeOK, ControlOK, StatsPending
    <2>3. stats' \in [Readers -> StatsState]
      BY <2>1, <2>2 DEF TypeOK, StatsState
    <2>4. faults' \in 0 .. MaxFaults
      BY <2>1, FaultStep DEF FaultKinds
    <2> QED
      BY <1>2, <2>3, <2>4 DEF TypeOK, StatsPending, tables, redis, traffic, flushes,
                              process, losses
  <1> QED
    BY <1>1, <1>2

LEMMA FlushTypes ==
  ASSUME TypeOK, ControlOK, NEW f \in Flushes,
         Interval(f) \/ Flush(f) \/ Stop(f)
  PROVE  TypeOK'
  <1>1. CASE Interval(f) \/ Stop(f)
    <2>1. fpc[f] = "idle" /\ flushClicks(f) /\ UNCHANGED <<cur, batch>>
      BY <1>1 DEF Interval, Stop
    <2>2. final' \in Flushes \cup {Null} /\ exited' \in BOOLEAN
      BY <1>1 DEF TypeOK, Interval, Stop, process
    <2> QED
      BY <1>1, <2>1, <2>2, FlushBegins
         DEF TypeOK, Interval, Stop, tables, redis, traffic, losses
  <1>2. CASE SRem(f)
    <2>1. faults' \in 0 .. MaxFaults
      BY <1>2, FaultStep DEF SRem, FaultKinds
    <2>2. /\ fpc' \in [Flushes -> {"idle", "next", "getdel", "add", "rebuffer"}]
          /\ \A g \in Flushes \ {f} : fpc'[g] = fpc[g]
          /\ fpc[f] = "next"
      BY <1>2 DEF SRem, TypeOK, Reject
    <2>3. /\ todo' \in [Flushes -> SUBSET Codes]
          /\ cur' \in [Flushes -> Codes \cup {Null}]
          /\ pending' \in SUBSET Codes
      BY <1>2 DEF SRem, TypeOK
    <2> QED
      BY <1>2, <2>1, <2>2, <2>3 DEF TypeOK, SRem, tables, traffic, process, losses
  <1>3. CASE GetDel(f)
    <2>1. faults' \in 0 .. MaxFaults
      BY <1>3, FaultStep DEF GetDel, FaultKinds
    <2>2. cur[f] \in Codes /\ fpc[f] = "getdel"
      BY <1>3 DEF ControlOK, GetDel
    <2>3. /\ fpc' \in [Flushes -> {"idle", "next", "getdel", "add", "rebuffer"}]
          /\ \A g \in Flushes \ {f} : fpc'[g] = fpc[g]
          /\ buffer' \in [Codes -> SUBSET Clicks] /\ gone' \in SUBSET Clicks
      BY <1>3, <2>2 DEF GetDel, TypeOK, Reject, Continue
    <2>4. /\ batch' \in [Flushes -> SUBSET Clicks]
          /\ \A g \in Flushes \ {f} : batch'[g] = batch[g]
          /\ batch'[f] # {} => fpc'[f] = "add"
      BY <1>3, <2>2 DEF GetDel, TypeOK, Reject, Continue
    <2> QED
      BY <1>3, <2>1, <2>3, <2>4 DEF TypeOK, GetDel, tables, traffic, process
  <1>4. CASE AddClicks(f)
    <2>1. faults' \in 0 .. MaxFaults
      BY <1>4, FaultStep DEF AddClicks, FaultKinds
    <2>2. cur[f] \in Codes /\ fpc[f] = "add"
      BY <1>4 DEF ControlOK, AddClicks
    <2>3. counted' \in [Links -> SUBSET Clicks]
      BY <1>4, <2>2 DEF AddClicks, TypeOK, Credit
    <2>4. /\ fpc' \in [Flushes -> {"idle", "next", "getdel", "add", "rebuffer"}]
          /\ \A g \in Flushes \ {f} : fpc'[g] = fpc[g] /\ batch'[g] = batch[g]
          /\ batch' \in [Flushes -> SUBSET Clicks]
          /\ batch'[f] # {} => fpc'[f] = "rebuffer"
      BY <1>4, <2>2 DEF AddClicks, TypeOK, Emptied, Continue
    <2>5. dropped' \in SUBSET Clicks /\ doubled' \in SUBSET Clicks
      BY <1>4 DEF AddClicks, TypeOK
    <2> QED
      BY <1>4, <2>1, <2>3, <2>4, <2>5 DEF TypeOK, AddClicks, redis, traffic, process
  <1>5. CASE Rebuffer(f)
    <2>1. faults' \in 0 .. MaxFaults
      BY <1>5, FaultStep DEF Rebuffer, FaultKinds
    <2>2. cur[f] \in Codes /\ fpc[f] = "rebuffer"
      BY <1>5 DEF ControlOK, Rebuffer
    <2>3. /\ buffer' \in [Codes -> SUBSET Clicks] /\ pending' \in SUBSET Codes
      BY <1>5, <2>2 DEF Rebuffer, TypeOK, PutBack, Marked, redis
    <2>4. /\ fpc' \in [Flushes -> {"idle", "next", "getdel", "add", "rebuffer"}]
          /\ \A g \in Flushes \ {f} : fpc'[g] = fpc[g] /\ batch'[g] = batch[g]
          /\ batch' \in [Flushes -> SUBSET Clicks] /\ batch'[f] = {}
      BY <1>5 DEF Rebuffer, TypeOK, Emptied, Continue, Reject
    <2>5. gone' \in SUBSET Clicks /\ again' \in SUBSET Clicks
      BY <1>5 DEF Rebuffer, TypeOK
    <2> QED
      BY <1>5, <2>1, <2>3, <2>4, <2>5 DEF TypeOK, Rebuffer, tables, traffic, process
  <1> QED
    BY <1>1, <1>2, <1>3, <1>4, <1>5 DEF Flush

LEMMA ProcessTypes ==
  ASSUME TypeOK, Exit \/ Crash
  PROVE  TypeOK'
  <1>1. gone' \in SUBSET Clicks /\ unsaved' \in SUBSET Clicks
    BY DEF TypeOK, Exit, Crash, InHands
  <1>2. faults' \in 0 .. MaxFaults
    BY FaultStep DEF Exit, Crash, FaultKinds
  <1>3. CASE Exit
    BY <1>1, <1>2, <1>3 DEF TypeOK, Exit, tables, redis, traffic, flushes
  <1>4. CASE Crash
    <2>1. click' \in [Clicks -> [link : Links, code : Codes] \cup {Null}]
      BY <1>4 DEF TypeOK, Crash
    <2> QED
      BY <1>1, <1>2, <1>4, <2>1 DEF TypeOK, Crash, tables, redis
  <1> QED
    BY <1>3, <1>4

-----------------------------------------------------------------------------
(* Control *)

(* The links, the redirects and the stats leave the flushes alone.          *)
LEMMA ControlKept ==
  ASSUME ControlOK, UNCHANGED <<fpc, cur, final, stats>>
  PROVE  ControlOK'
  BY DEF ControlOK

LEMMA StatsControl ==
  ASSUME TypeOK, ControlOK, NEW s \in Readers,
         StatsPending(s) \/ \E c \in Codes : StatsRow(s, c)
  PROVE  ControlOK'
  <1>1. UNCHANGED <<fpc, cur, final>>
    BY DEF StatsPending, StatsRow, flushes, process
  <1>2. ASSUME NEW r \in Readers, stats'[r].at # "idle"
        PROVE  stats'[r].code \in Codes
    <2>1. ASSUME NEW c \in Codes, StatsRow(s, c)
          PROVE  stats'[r].code \in Codes
      BY <1>2, <2>1 DEF ControlOK, TypeOK, StatsRow
    <2>2. CASE StatsPending(s)
      <3>1. stats[s] \in StatsState
        BY DEF TypeOK
      <3>2. stats'[r].code = stats[r].code /\ stats[r].at # "idle"
        BY <1>2, <2>2, <3>1 DEF TypeOK, StatsPending, StatsState
      <3> QED
        BY <3>2 DEF ControlOK
    <2> QED
      BY <2>1, <2>2
  <1> QED
    BY <1>1, <1>2 DEF ControlOK

LEMMA FlushControl ==
  ASSUME TypeOK, ControlOK, NEW f \in Flushes,
         Interval(f) \/ Flush(f) \/ Stop(f)
  PROVE  ControlOK'
  <1>1. UNCHANGED stats
    BY DEF Interval, Stop, Flush, SRem, GetDel, AddClicks, Rebuffer
  <1>2. final' # Null => Shutdowns
    BY DEF ControlOK, Interval, Stop, Flush, SRem, GetDel, AddClicks, Rebuffer,
           process
  <1>3. CASE Interval(f) \/ Stop(f)
    BY <1>1, <1>2, <1>3, FlushBegins DEF ControlOK, Interval, Stop
  <1>4. CASE SRem(f)
    <2>1. \A g \in Flushes \ {f} : fpc'[g] = fpc[g] /\ cur'[g] = cur[g]
      BY <1>4 DEF SRem, Reject, TypeOK
    <2>2. fpc'[f] = "idle" \/ cur'[f] \in Codes
      BY <1>4 DEF SRem, Reject, TypeOK
    <2> QED
      BY <1>1, <1>2, <2>1, <2>2 DEF ControlOK
  <1>5. CASE GetDel(f) \/ AddClicks(f) \/ Rebuffer(f)
    <2>1. cur[f] \in Codes /\ cur' = cur
      BY <1>5 DEF ControlOK, GetDel, AddClicks, Rebuffer
    <2>2. \A g \in Flushes \ {f} : fpc'[g] = fpc[g]
      BY <1>5 DEF GetDel, AddClicks, Rebuffer, Reject, Continue, TypeOK
    <2> QED
      BY <1>1, <1>2, <2>1, <2>2 DEF ControlOK
  <1> QED
    BY <1>3, <1>4, <1>5 DEF Flush

LEMMA ProcessControl ==
  ASSUME TypeOK, ControlOK, Exit \/ Crash
  PROVE  ControlOK'
  BY DEF TypeOK, ControlOK, Exit, Crash, flushes

-----------------------------------------------------------------------------
(* Places *)

clickPlaces == <<counted, buffer, batch, recorded, losses, exited>>

(* Most steps move no click.                                                *)
LEMMA PlacesKept ==
  ASSUME PlacesOK, UNCHANGED clickPlaces
  PROVE  PlacesOK'
  BY DEF PlacesOK, PlaceOK, RecordedOK, Apart, Somewhere, Counted, Buffered, Held,
         clickPlaces, losses, Lost

(* A click that a step does not touch stays where it is.                    *)
LEMMA StaysPut ==
  ASSUME NEW j, PlaceOK(j), RecordedOK(j), exited' = exited,
         \A l \in Links : j \in counted'[l] <=> j \in counted[l],
         \A c \in Codes : j \in buffer'[c] <=> j \in buffer[c],
         \A f \in Flushes : j \in batch'[f] <=> j \in batch[f],
         j \in recorded' <=> j \in recorded,
         j \in dropped' <=> j \in dropped,
         j \in Lost' <=> j \in Lost,
         j \in doubled' <=> j \in doubled
  PROVE  (PlaceOK(j) /\ RecordedOK(j))'
  BY DEF PlaceOK, RecordedOK, Apart, Somewhere, Counted, Buffered, Held

LEMMA ClickRecorded ==
  ASSUME TypeOK, PlacesOK, NEW k \in Clicks, recordClick(k)
  PROVE  PlacesOK'
  <1>1. PICK c \in Codes : c = click[k].code
    BY DEF TypeOK, recordClick
  <1>2. /\ UNCHANGED <<counted, batch, Lost, doubled, exited>>
        /\ recorded' = recorded \cup {k} /\ k \notin recorded
    BY DEF recordClick, tables, flushes, process, losses, Lost
  <1>3. \/ /\ \A d \in Codes : buffer'[d] = IF d = c THEN buffer[d] \cup {k} ELSE buffer[d]
           /\ dropped' = dropped
        \/ buffer' = buffer /\ dropped' = dropped \cup {k}
    BY <1>1 DEF recordClick, TypeOK, redis, losses
  <1>4. ASSUME NEW j \in Clicks
        PROVE  (PlaceOK(j) /\ RecordedOK(j))'
    <2>1. CASE j # k
      BY <1>2, <1>3, <2>1, StaysPut DEF PlacesOK
    <2>2. CASE j = k
      BY <1>1, <1>2, <1>3, <2>2 DEF PlacesOK, PlaceOK, RecordedOK, Apart, Somewhere, Counted,
                              Buffered, Held
    <2> QED
      BY <2>1, <2>2
  <1> QED
    BY <1>4 DEF PlacesOK

LEMMA BatchTaken ==
  ASSUME TypeOK, ControlOK, PlacesOK, NEW f \in Flushes, GetDel(f)
  PROVE  PlacesOK'
  <1>1. PICK c \in Codes : c = cur[f]
    BY DEF ControlOK, GetDel
  <1>2. /\ UNCHANGED <<counted, recorded, dropped, doubled, exited>> /\ ~exited
        /\ batch[f] = {}
    BY DEF GetDel, tables, traffic, process, TypeOK
  <1>3. \/ /\ \A d \in Codes : buffer'[d] = IF d = c THEN {} ELSE buffer[d]
           /\ \A g \in Flushes : batch'[g] = IF g = f THEN buffer[c] ELSE batch[g]
           /\ Lost' = Lost
        \/ UNCHANGED <<batch, buffer, Lost>>
        \/ /\ \A d \in Codes : buffer'[d] = IF d = c THEN {} ELSE buffer[d]
           /\ batch' = batch /\ Lost' = Lost \cup buffer[c]
    BY <1>1 DEF GetDel, TypeOK, Lost
  <1>4. ASSUME NEW j \in Clicks
        PROVE  (PlaceOK(j) /\ RecordedOK(j))'
    <2>1. CASE j \in buffer[c]
      BY <1>2, <1>3, <2>1 DEF PlacesOK, PlaceOK, RecordedOK, Apart, Somewhere, Counted,
                              Buffered, Held
    <2>2. CASE j \notin buffer[c]
      BY <1>2, <1>3, <2>2, StaysPut DEF PlacesOK
    <2> QED
      BY <2>1, <2>2
  <1> QED
    BY <1>4 DEF PlacesOK

LEMMA BatchCounted ==
  ASSUME TypeOK, ControlOK, PlacesOK, NEW f \in Flushes, AddClicks(f)
  PROVE  PlacesOK'
  <1>1. PICK c \in Codes : c = cur[f]
    BY DEF ControlOK, AddClicks
  <1>2. /\ UNCHANGED <<recorded, buffer, Lost, exited>> /\ ~exited
    BY DEF AddClicks, redis, traffic, process, Lost
  <1>3. ASSUME row[c] \in Links
        PROVE  \A l \in Links : Credit(f)[l] =
                 IF l = row[c] THEN counted[l] \cup batch[f] ELSE counted[l]
    BY <1>1, <1>3 DEF Credit, TypeOK
  <1>4. \A g \in Flushes : Emptied(f)[g] = IF g = f THEN {} ELSE batch[g]
    BY DEF Emptied, TypeOK
  <1>5. row[c] # Null => row[c] \in Links
    BY DEF TypeOK
  <1>6. \/ /\ row[c] \in Links /\ counted' = Credit(f) /\ batch' = Emptied(f)
           /\ UNCHANGED <<dropped, doubled>>
        \/ /\ dropped' = dropped \cup batch[f] /\ batch' = Emptied(f)
           /\ UNCHANGED <<counted, doubled>>
        \/ /\ row[c] \in Links /\ counted' = Credit(f)
           /\ doubled' = doubled \cup batch[f]
           /\ UNCHANGED <<batch, dropped>>
        \/ UNCHANGED <<counted, batch, dropped, doubled>>
    BY <1>1, <1>5 DEF AddClicks
  <1>7. ASSUME NEW j \in Clicks
        PROVE  (PlaceOK(j) /\ RecordedOK(j))'
    <2>1. CASE j \in batch[f]
      <3>1. PlaceOK(j) /\ RecordedOK(j)
        BY DEF PlacesOK
      <3>2. CASE /\ row[c] \in Links /\ counted' = Credit(f) /\ batch' = Emptied(f)
                 /\ UNCHANGED <<dropped, doubled>>
        BY <1>2, <1>3, <1>4, <2>1, <3>1, <3>2
           DEF PlaceOK, RecordedOK, Apart, Somewhere, Counted, Buffered, Held
      <3>3. CASE /\ dropped' = dropped \cup batch[f] /\ batch' = Emptied(f)
                 /\ UNCHANGED <<counted, doubled>>
        BY <1>2, <1>4, <2>1, <3>1, <3>3
           DEF PlaceOK, RecordedOK, Apart, Somewhere, Counted, Buffered, Held
      <3>4. CASE /\ row[c] \in Links /\ counted' = Credit(f)
                 /\ doubled' = doubled \cup batch[f]
                 /\ UNCHANGED <<batch, dropped>>
        BY <1>2, <1>3, <2>1, <3>1, <3>4 DEF PlaceOK, RecordedOK, Counted
      <3>5. CASE UNCHANGED <<counted, batch, dropped, doubled>>
        BY <1>2, <3>1, <3>5, StaysPut
      <3> QED
        BY <1>6, <3>2, <3>3, <3>4, <3>5
    <2>2. CASE j \notin batch[f]
      BY <1>2, <1>3, <1>4, <1>6, <2>2, StaysPut DEF PlacesOK
    <2> QED
      BY <2>1, <2>2
  <1> QED
    BY <1>7 DEF PlacesOK

LEMMA BatchReturned ==
  ASSUME TypeOK, ControlOK, PlacesOK, NEW f \in Flushes, Rebuffer(f)
  PROVE  PlacesOK'
  <1>1. PICK c \in Codes : c = cur[f]
    BY DEF ControlOK, Rebuffer
  <1>2. /\ UNCHANGED <<counted, recorded, dropped, doubled, exited>> /\ ~exited
    BY DEF Rebuffer, tables, traffic, process
  <1>3. \A g \in Flushes : batch'[g] = IF g = f THEN {} ELSE batch[g]
    BY DEF Rebuffer, Emptied, TypeOK
  <1>4. \/ /\ \A d \in Codes :
                buffer'[d] = IF d = c THEN buffer[d] \cup batch[f] ELSE buffer[d]
           /\ Lost' = Lost
        \/ /\ buffer' = buffer
           /\ \A j \in Clicks :
                j \in Lost' <=> j \in Lost \/ (j \in batch[f] /\ ~Counted(j))
    <2>1. CASE /\ buffer' = PutBack(f)
               /\ Lost' = Lost
      BY <1>1, <2>1 DEF PutBack, TypeOK
    <2>2. CASE /\ Lost' = Lost \cup (batch[f] \ UNION {counted[l] : l \in Links})
               /\ buffer' = buffer
      <3>1. ASSUME NEW j \in Clicks
            PROVE  j \in UNION {counted[l] : l \in Links} <=> Counted(j)
        BY DEF Counted
      <3> QED
        BY <2>2, <3>1
    <2> QED
      BY <2>1, <2>2 DEF Rebuffer, redis, Lost
  <1>5. ASSUME NEW j \in Clicks
        PROVE  (PlaceOK(j) /\ RecordedOK(j))'
    <2>1. CASE j \in batch[f]
      BY <1>2, <1>3, <1>4, <2>1
         DEF PlacesOK, PlaceOK, RecordedOK, Apart, Somewhere, Counted, Buffered, Held
    <2>2. CASE j \notin batch[f]
      BY <1>2, <1>3, <1>4, <2>2, StaysPut DEF PlacesOK
    <2> QED
      BY <2>1, <2>2
  <1> QED
    BY <1>5 DEF PlacesOK

(* When the process ends, what its flushes held is lost.                    *)
LEMMA BatchesLost ==
  ASSUME TypeOK, PlacesOK, Exit \/ Crash
  PROVE  PlacesOK'
  <1>1. /\ UNCHANGED <<counted, buffer, recorded, dropped, doubled>> /\ ~exited
        /\ \/ batch' = batch /\ exited'
           \/ \A f \in Flushes : batch'[f] = {}
    BY DEF Exit, Crash, tables, redis, traffic, flushes
  <1>2. ASSUME NEW j \in Clicks
        PROVE  j \in Lost' <=> j \in Lost \/ (Held(j) /\ ~Counted(j))
    <2> DEFINE lost == (UNION {batch[f] : f \in Flushes})
               kept == UNION {counted[l] : l \in Links}
    <2>1. Lost' = Lost \cup InHands
      BY DEF Exit, Crash, Lost
    <2>2. j \in lost <=> Held(j)
      BY <1>1 DEF Held
    <2>3. j \in kept <=> Counted(j)
      BY DEF Counted
    <2>4. Lost' = Lost \cup (lost \ kept)
      BY <2>1 DEF InHands
    <2> HIDE DEF lost, kept
    <2> QED
      BY <2>2, <2>3, <2>4
  <1>3. ASSUME NEW j \in Clicks
        PROVE  (PlaceOK(j) /\ RecordedOK(j))'
    BY <1>1, <1>2
       DEF PlacesOK, PlaceOK, RecordedOK, Apart, Somewhere, Counted, Buffered, Held
  <1> QED
    BY <1>3 DEF PlacesOK

-----------------------------------------------------------------------------
(* History *)

LEMMA FaultsAreCounted ==
  ASSUME TypeOK, NEW kind, Fault(kind)
  PROVE  faults' # 0
  BY DEF TypeOK, Fault

LEMMA HistoryKept ==
  ASSUME TypeOK, HistoryOK, Next
  PROVE  HistoryOK'
  <1>1. CASE NoFault /\ UNCHANGED <<gone, doubled, again, unsaved, exited>>
    BY <1>1 DEF HistoryOK, NoFault
  <1>2. ASSUME NEW kind, Fault(kind), UNCHANGED <<unsaved, exited>>
        PROVE  HistoryOK'
    BY <1>2, FaultsAreCounted DEF HistoryOK
  <1>3. CASE Exit
    <2>1. exited'
      BY <1>3 DEF Exit
    <2>2. CASE NoFault /\ UNCHANGED gone
      BY <1>3, <2>1, <2>2 DEF Exit, HistoryOK, NoFault
    <2>3. CASE Fault("timeout")
      BY <2>1, <2>3, FaultsAreCounted DEF HistoryOK
    <2> QED
      BY <1>3, <2>2, <2>3 DEF Exit
  <1> QED
    BY <1>1, <1>2, <1>3 DEF Next, Create, Rename, Delete, Resolve, StatsRow,
      recordClick, StatsPending, Interval, Stop, Flush, flushClicks, SRem, GetDel,
      AddClicks, Rebuffer, Crash, process, losses, NoFault

-----------------------------------------------------------------------------
(* Stats *)

LEMMA CountsGrow ==
  ASSUME TypeOK, ControlOK, Next
  PROVE  /\ \A l \in Links : counted[l] \subseteq counted'[l]
         /\ doubled \subseteq doubled'
  <1>1. CASE UNCHANGED <<counted, doubled>>
    BY <1>1
  <1>2. ASSUME NEW f \in Flushes, AddClicks(f)
        PROVE  /\ \A l \in Links : counted[l] \subseteq counted'[l]
               /\ doubled \subseteq doubled'
    BY <1>2 DEF AddClicks, Credit, TypeOK
  <1> QED
    BY <1>1, <1>2 DEF Next, Create, Rename, Delete, Resolve, StatsRow, recordClick,
      StatsPending, Interval, Stop, Flush, SRem, GetDel, Rebuffer, Exit, Crash,
      tables, losses

(* The answers that were given stay right. *)
LEMMA StatsKept ==
  ASSUME TypeOK, ControlOK, StatsOK, StatsNeverOvercount, Next, UNCHANGED stats
  PROVE  StatsOK' /\ StatsNeverOvercount'
  <1>1. \A k : Counted(k) => Counted(k)'
    BY CountsGrow DEF Counted
  <1>2. doubled \subseteq doubled'
    BY CountsGrow
  <1> QED
    BY <1>1, <1>2 DEF StatsOK, StatsNeverOvercount

LEMMA StatsRead ==
  ASSUME TypeOK, ControlOK, PlacesOK, StatsOK, StatsNeverOvercount,
         NEW s \in Readers, StatsPending(s) \/ \E c \in Codes : StatsRow(s, c)
  PROVE  StatsOK' /\ StatsNeverOvercount'
  <1>1. UNCHANGED <<counted, doubled, buffer>>
    BY DEF StatsRow, StatsPending, tables, redis, losses
  <1>2. ASSUME NEW c \in Codes, StatsRow(s, c)
        PROVE  StatsOK' /\ StatsNeverOvercount'
    <2>1. row[c] \in Links
      BY <1>2 DEF StatsRow, TypeOK
    <2>2. /\ \A r \in Readers \ {s} : stats'[r] = stats[r]
          /\ stats'[s] = [at |-> "pending", code |-> c, db |-> counted[row[c]],
                          redis |-> {}]
      BY <1>2 DEF StatsRow, TypeOK
    <2> QED
      BY <1>1, <2>1, <2>2 DEF StatsOK, StatsNeverOvercount, Counted
  <1>3. CASE StatsPending(s)
    <2>1. PICK n \in {buffer[stats[s].code], {}} :
            stats' = [stats EXCEPT ![s].at = "done", ![s].redis = n]
      BY <1>3 DEF StatsPending
    <2>2. stats[s] \in StatsState /\ stats[s].code \in Codes
      BY <1>3 DEF TypeOK, ControlOK, StatsPending
    <2>3. /\ \A r \in Readers \ {s} : stats'[r] = stats[r]
          /\ stats'[s].at = "done" /\ stats'[s].redis = n
          /\ stats'[s].db = stats[s].db
      BY <2>1, <2>2 DEF TypeOK, StatsState
    <2>4. ASSUME NEW k \in stats[s].db, k \in n
          PROVE  k \in doubled
      <3>1. k \in Clicks /\ Counted(k) /\ Buffered(k)
        BY <2>2, <2>4 DEF StatsOK, StatsState, Buffered
      <3> QED
        BY <3>1 DEF PlacesOK, PlaceOK, Apart
    <2> QED
      BY <1>1, <2>3, <2>4 DEF StatsOK, StatsNeverOvercount, Counted
  <1> QED
    BY <1>2, <1>3

-----------------------------------------------------------------------------
(* The invariant *)

LEMMA InitTracker == Init => TrackerOK
  <1> SUFFICES ASSUME Init PROVE TrackerOK
    OBVIOUS
  <1>1. TypeOK
    <2>1. made \in SUBSET Links
      BY DEF Init
    <2>2. stats \in [Readers -> StatsState]
      BY DEF Init, StatsState
    <2>3. faults \in 0 .. MaxFaults
      BY DEF Init
    <2> QED
      BY <2>1, <2>2, <2>3 DEF Init, TypeOK
  <1>2. ControlOK /\ HistoryOK /\ StatsOK /\ StatsNeverOvercount
    BY DEF Init, ControlOK, HistoryOK, StatsOK, StatsNeverOvercount
  <1>3. PlacesOK
    BY DEF Init, PlacesOK, PlaceOK, RecordedOK, Apart, Somewhere, Counted, Buffered, Held,
           Lost
  <1> QED
    BY <1>1, <1>2, <1>3 DEF TrackerOK

LEMMA NextTracker == TrackerOK /\ [Next]_vars => TrackerOK'
  <1> SUFFICES ASSUME TrackerOK, [Next]_vars PROVE TrackerOK'
    OBVIOUS
  <1> USE DEF TrackerOK
  <1>0. Next => HistoryOK'
    BY HistoryKept
  <1>1. ASSUME NEW c \in Codes,
               \/ \E l \in Links : Create(c, l)
               \/ \E d \in Codes : Rename(c, d)
               \/ Delete(c)
        PROVE  TrackerOK'
    <2>1. UNCHANGED <<fpc, cur, final, stats, clickPlaces>> /\ Next
      BY <1>1 DEF Create, Rename, Delete, flushes, process, redis, traffic, losses,
                  clickPlaces, Next
    <2> QED
      BY <1>0, <1>1, <2>1, LinkTypes, ControlKept, PlacesKept, StatsKept
  <1>2. ASSUME NEW k \in Clicks, NEW c \in Codes, Resolve(k, c)
        PROVE  TrackerOK'
    <2>1. UNCHANGED <<fpc, cur, final, stats, clickPlaces>> /\ Next
      BY <1>2 DEF Resolve, flushes, process, redis, tables, losses, clickPlaces, Next
    <2> QED
      BY <1>0, <1>2, <2>1, TrafficTypes, ControlKept, PlacesKept, StatsKept
  <1>3. ASSUME NEW k \in Clicks, recordClick(k)
        PROVE  TrackerOK'
    <2>1. UNCHANGED <<fpc, cur, final, stats>> /\ Next
      BY <1>3 DEF recordClick, flushes, process, Next
    <2> QED
      BY <1>0, <1>3, <2>1, TrafficTypes, ControlKept, ClickRecorded, StatsKept
  <1>4. ASSUME NEW s \in Readers,
               StatsPending(s) \/ \E c \in Codes : StatsRow(s, c)
        PROVE  TrackerOK'
    <2>1. UNCHANGED clickPlaces
      BY <1>4 DEF StatsPending, StatsRow, flushes, process, redis, tables, traffic,
                  losses, clickPlaces
    <2> QED
      BY <1>0, <1>4, <2>1, StatsTypes, StatsControl, PlacesKept, StatsRead DEF Next
  <1>5. ASSUME NEW f \in Flushes, Interval(f) \/ Flush(f) \/ Stop(f)
        PROVE  TrackerOK'
    <2>1. UNCHANGED stats /\ Next
      BY <1>5 DEF Interval, Stop, Flush, SRem, GetDel, AddClicks, Rebuffer, Next
    <2>2. PlacesOK'
      <3>1. CASE Interval(f) \/ Stop(f) \/ SRem(f)
        <4>1. UNCHANGED clickPlaces
          BY <3>1 DEF Interval, Stop, SRem, process, redis, tables, traffic,
                      losses, clickPlaces
        <4> QED
          BY <4>1, PlacesKept
      <3> QED
        BY <1>5, <3>1, BatchTaken, BatchCounted, BatchReturned DEF Flush
    <2> QED
      BY <1>0, <1>5, <2>1, <2>2, FlushTypes, FlushControl, StatsKept
  <1>6. CASE Exit \/ Crash
    <2>1. UNCHANGED stats /\ Next
      BY <1>6 DEF Exit, Crash, Next
    <2> QED
      BY <1>0, <1>6, <2>1, ProcessTypes, ProcessControl, BatchesLost, StatsKept
  <1>7. CASE UNCHANGED vars
    BY <1>7 DEF vars, TypeOK, ControlOK, PlacesOK, PlaceOK, RecordedOK, Apart, Somewhere,
                Counted, Buffered, Held, HistoryOK, StatsOK, StatsNeverOvercount, Lost
  <1> QED
    BY <1>1, <1>2, <1>3, <1>4, <1>5, <1>6, <1>7 DEF Next

(* At every moment the flushes, the redirects and the shutdown, failing or  *)
(* not, leave every click where it can be found.                            *)
THEOREM TrackerInvariant == Spec => []TrackerOK
  BY InitTracker, NextTracker, PTL DEF Spec

(* A flush only has a batch in hand between the GETDEL and the end of       *)
(* addClicks or of the re-buffering, and every variable keeps its shape.    *)
THEOREM TrackerTypes == Spec => []TypeOK
  <1>1. TrackerOK => TypeOK
    BY DEF TrackerOK
  <1> QED
    BY <1>1, TrackerInvariant, PTL

(* A stats answer, read from two stores while flushes move clicks from one  *)
(* to the other, counts no click twice, but for a batch whose update failed *)
(* after its effect.                                                        *)
THEOREM StatsAreNotOvercounted == Spec => []StatsNeverOvercount
  <1>1. TrackerOK => StatsNeverOvercount
    BY DEF TrackerOK
  <1> QED
    BY <1>1, TrackerInvariant, PTL

-----------------------------------------------------------------------------
(* Every click in one place *)

LEMMA PlacesAre ==
  ASSUME NEW k, NEW p
  PROVE  p \in Places(k) <=>
           \/ \E l \in Links : k \in counted[l] /\ p = <<"counted", l>>
           \/ \E c \in Codes : k \in buffer[c] /\ p = <<"buffer", c>>
           \/ ~exited /\ \E f \in Flushes : k \in batch[f] /\ p = <<"batch", f>>
           \/ k \in dropped /\ p = <<"dropped", k>>
  BY DEF Places

LEMMA OnePlace ==
  ASSUME NEW k, Apart(k), NEW p \in Places(k), NEW q \in Places(k)
  PROVE  p = q
  <1>1. CASE \E l \in Links : k \in counted[l] /\ p = <<"counted", l>>
    BY <1>1, PlacesAre DEF Apart, Counted, Buffered, Held
  <1>2. CASE \E c \in Codes : k \in buffer[c] /\ p = <<"buffer", c>>
    BY <1>2, PlacesAre DEF Apart, Counted, Buffered, Held
  <1>3. CASE ~exited /\ \E f \in Flushes : k \in batch[f] /\ p = <<"batch", f>>
    BY <1>3, PlacesAre DEF Apart, Counted, Buffered, Held
  <1>4. CASE k \in dropped /\ p = <<"dropped", k>>
    BY <1>4, PlacesAre DEF Apart, Counted, Buffered, Held
  <1> QED
    BY <1>1, <1>2, <1>3, <1>4, PlacesAre

LEMMA TrackerPlaces == TrackerOK => EveryClickInOnePlace
  <1>1. ASSUME TrackerOK, NEW k \in Clicks \ doubled
        PROVE  Cardinality(Places(k)) = IF k \in recorded \ Lost THEN 1 ELSE 0
    <2>1. CASE k \in recorded \ Lost
      <3>1. Apart(k) /\ Somewhere(k)
        BY <1>1, <2>1 DEF TrackerOK, PlacesOK, PlaceOK
      <3>2. PICK p : p \in Places(k)
        BY <2>1, <3>1, PlacesAre DEF Somewhere, Counted, Buffered, Held
      <3>3. Places(k) = {p}
        BY <3>1, <3>2, OnePlace
      <3> QED
        BY <2>1, <3>3, FS_Singleton
    <2>2. CASE k \notin recorded \ Lost
      <3>1. Apart(k) /\ RecordedOK(k)
        BY <1>1 DEF TrackerOK, PlacesOK, PlaceOK
      <3>2. ASSUME NEW p \in Places(k)
            PROVE  FALSE
        <4>1. CASE k \in Lost
          BY <3>1, <3>2, <4>1, PlacesAre DEF Apart, Counted, Buffered, Held
        <4>2. CASE k \notin recorded
          BY <3>1, <3>2, <4>2, PlacesAre DEF RecordedOK, Counted, Buffered
        <4> QED
          BY <2>2, <4>1, <4>2
      <3>3. Places(k) = {}
        BY <3>2
      <3> QED
        BY <2>2, <3>3, FS_EmptySet
    <2> QED
      BY <2>1, <2>2
  <1> QED
    BY <1>1 DEF EveryClickInOnePlace, TrackerOK, HistoryOK

(* However flushes overlap with each other and with clicks that arrive, each *)
(* recorded click is in exactly one count, counter or flush, or was dropped  *)
(* on purpose: none is in two places, and only a fault, or the exit beside a *)
(* flush that still ran, takes one away.                                     *)
THEOREM ClicksAreConserved == Spec => []EveryClickInOnePlace
  BY TrackerInvariant, TrackerPlaces, PTL

-----------------------------------------------------------------------------
(* Nothing is left unmarked *)

LEMMA NextMarked ==
  TrackerOK /\ BufferedIsPending /\ [Next]_vars => BufferedIsPending'
  <1> SUFFICES ASSUME TrackerOK, BufferedIsPending, [Next]_vars,
                      Faults \cap {"redis", "crash", "timeout"} = {}, ~exited',
                      NEW c \in Codes, buffer'[c] # {}
               PROVE  \/ c \in pending'
                      \/ \E f \in Flushes : fpc'[f] = "getdel" /\ cur'[f] = c
    BY DEF BufferedIsPending
  <1> USE DEF TrackerOK
  <1>1. ~Fault("redis") /\ ~Fault("crash")
    BY DEF Fault
  <1>2. ~exited
    BY DEF Next, Create, Rename, Delete, Resolve, StatsRow, recordClick, StatsPending,
           Interval, Stop, Flush, SRem, GetDel, AddClicks, Rebuffer, Exit, Crash,
           process, vars
  <1>3. \/ buffer[c] = {} \/ c \in pending
        \/ \E f \in Flushes : fpc[f] = "getdel" /\ cur[f] = c
    BY <1>2 DEF BufferedIsPending
  <1>4. CASE UNCHANGED <<buffer, pending, fpc, cur>>
    BY <1>3, <1>4
  <1>5. ASSUME NEW k \in Clicks, recordClick(k)
        PROVE  \/ c \in pending'
               \/ \E f \in Flushes : fpc'[f] = "getdel" /\ cur'[f] = c
    <2>1. /\ UNCHANGED <<fpc, cur>>
          /\ pending' = pending \cup {click[k].code}
          /\ buffer' = [buffer EXCEPT ![click[k].code] = @ \cup {k}]
      BY <1>1, <1>5 DEF recordClick, flushes
    <2> QED
      BY <1>3, <2>1 DEF TypeOK
  <1>6. ASSUME NEW f \in Flushes, Interval(f) \/ Stop(f)
        PROVE  \/ c \in pending'
               \/ \E g \in Flushes : fpc'[g] = "getdel" /\ cur'[g] = c
    <2>1. fpc[f] = "idle" /\ flushClicks(f)
          /\ UNCHANGED <<buffer, pending, cur>>
      BY <1>6 DEF Interval, Stop, redis
    <2>2. \A g \in Flushes \ {f} : fpc'[g] = fpc[g]
      BY <2>1 DEF flushClicks, Reject, Continue, TypeOK
    <2> QED
      BY <1>3, <2>1, <2>2
  <1>7. ASSUME NEW f \in Flushes, SRem(f)
        PROVE  \/ c \in pending'
               \/ \E g \in Flushes : fpc'[g] = "getdel" /\ cur'[g] = c
    <2>1. fpc[f] = "next" /\ UNCHANGED buffer
      BY <1>7 DEF SRem
    <2>2. \A g \in Flushes \ {f} : fpc'[g] = fpc[g] /\ cur'[g] = cur[g]
      BY <1>7 DEF SRem, Reject, TypeOK
    <2>3. pending' = pending \/ \E d \in Codes : /\ pending' = pending \ {d}
                                                 /\ fpc'[f] = "getdel" /\ cur'[f] = d
      BY <1>1, <1>7 DEF SRem, TypeOK
    <2> QED
      BY <1>3, <2>1, <2>2, <2>3
  <1>8. ASSUME NEW f \in Flushes, GetDel(f)
        PROVE  \/ c \in pending'
               \/ \E g \in Flushes : fpc'[g] = "getdel" /\ cur'[g] = c
    <2>1. /\ UNCHANGED <<pending, cur>>
          /\ buffer' = [buffer EXCEPT ![cur[f]] = {}]
          /\ \A g \in Flushes \ {f} : fpc'[g] = fpc[g]
      BY <1>1, <1>8 DEF GetDel, TypeOK
    <2>2. c # cur[f] /\ buffer[c] # {}
      BY <2>1 DEF TypeOK
    <2> QED
      BY <1>3, <2>1, <2>2
  <1>9. ASSUME NEW f \in Flushes, AddClicks(f)
        PROVE  \/ c \in pending'
               \/ \E g \in Flushes : fpc'[g] = "getdel" /\ cur'[g] = c
    <2>1. /\ UNCHANGED <<buffer, pending, cur>> /\ fpc[f] = "add"
          /\ \A g \in Flushes \ {f} : fpc'[g] = fpc[g]
      BY <1>9 DEF AddClicks, Continue, TypeOK, redis
    <2> QED
      BY <1>3, <2>1
  <1>10. ASSUME NEW f \in Flushes, Rebuffer(f)
         PROVE  \/ c \in pending'
                \/ \E g \in Flushes : fpc'[g] = "getdel" /\ cur'[g] = c
    <2>1. /\ buffer' = PutBack(f) /\ pending' = pending \cup {cur[f]}
          /\ UNCHANGED cur /\ fpc[f] = "rebuffer"
          /\ \A g \in Flushes \ {f} : fpc'[g] = fpc[g]
      BY <1>1, <1>10 DEF Rebuffer, Marked, Continue, Reject, TypeOK
    <2>2. c = cur[f] \/ buffer'[c] = buffer[c]
      BY <2>1 DEF PutBack, TypeOK
    <2> QED
      BY <1>3, <2>1, <2>2
  <1> QED
    BY <1>1, <1>4, <1>5, <1>6, <1>7, <1>8, <1>9, <1>10 DEF Next, Flush, Create,
      Rename, Delete, Resolve, StatsRow, StatsPending, Exit, Crash, redis, flushes, vars

(* While Redis answers and the process lives, no interleaving of clicks and  *)
(* flushes leaves a buffered click that no flush will visit.                 *)
THEOREM BufferedClicksArePending == Spec => []BufferedIsPending
  <1>1. Init => BufferedIsPending
    BY DEF Init, BufferedIsPending
  <1> QED
    BY <1>1, NextMarked, TrackerInvariant, PTL DEF Spec

-----------------------------------------------------------------------------
(* The ledger *)

InBatch(k) == \E f \in Flushes : k \in batch[f]

LEMMA FateIs ==
  \A k : Fate(k) = IF Counted(k) THEN "counted"
                   ELSE IF k \in dropped THEN "dropped"
                   ELSE IF k \in Lost THEN "lost"
                   ELSE IF Buffered(k) \/ InBatch(k) THEN "pending" ELSE "none"
  <1> SUFFICES ASSUME NEW k
               PROVE  Fate(k) = IF Counted(k) THEN "counted"
                                ELSE IF k \in dropped THEN "dropped"
                                ELSE IF k \in Lost THEN "lost"
                                ELSE IF Buffered(k) \/ InBatch(k) THEN "pending"
                                ELSE "none"
    OBVIOUS
  <1> DEFINE counts == UNION {counted[l] : l \in Links}
             waiting == UNION ({buffer[c] : c \in Codes} \cup {batch[f] : f \in Flushes})
  <1>1. k \in counts <=> Counted(k)
    BY DEF Counted
  <1>2. k \in waiting <=> Buffered(k) \/ InBatch(k)
    BY DEF Buffered, InBatch
  <1>3. Fate(k) = IF k \in counts THEN "counted"
                  ELSE IF k \in dropped THEN "dropped"
                  ELSE IF k \in Lost THEN "lost"
                  ELSE IF k \in waiting THEN "pending" ELSE "none"
    BY DEF Fate
  <1> HIDE DEF counts, waiting
  <1> QED
    BY <1>1, <1>2, <1>3

LEMMA FateBecomes ==
  \A k : Fate(k)' = IF Counted(k)' THEN "counted"
                    ELSE IF k \in dropped' THEN "dropped"
                    ELSE IF k \in Lost' THEN "lost"
                    ELSE IF Buffered(k)' \/ InBatch(k)' THEN "pending" ELSE "none"
  <1> SUFFICES ASSUME NEW k
               PROVE  Fate(k)' = IF Counted(k)' THEN "counted"
                                 ELSE IF k \in dropped' THEN "dropped"
                                 ELSE IF k \in Lost' THEN "lost"
                                 ELSE IF Buffered(k)' \/ InBatch(k)' THEN "pending"
                                 ELSE "none"
    OBVIOUS
  <1> DEFINE counts == UNION {counted'[l] : l \in Links}
             waiting == UNION ({buffer'[c] : c \in Codes}
                                 \cup {batch'[f] : f \in Flushes})
  <1>1. k \in counts <=> Counted(k)'
    BY DEF Counted
  <1>2. k \in waiting <=> Buffered(k)' \/ InBatch(k)'
    BY DEF Buffered, InBatch
  <1>3. Fate(k)' = IF k \in counts THEN "counted"
                   ELSE IF k \in dropped' THEN "dropped"
                   ELSE IF k \in Lost' THEN "lost"
                   ELSE IF k \in waiting THEN "pending" ELSE "none"
    BY DEF Fate
  <1> HIDE DEF counts, waiting
  <1> QED
    BY <1>1, <1>2, <1>3

(* A step that settles the clicks of S, and leaves the others as they were. *)
LEMMA Settled ==
  ASSUME NEW S \in SUBSET Clicks, NEW outcome \in {"counted", "dropped", "lost"},
         outcome = "lost" => Shutdowns \/ Faults \cap {"redis", "crash"} # {},
         \A k \in S : Fate(k) = "pending" /\ Fate(k)' = outcome,
         \A k \in Clicks \ S : Fate(k)' = Fate(k)
  PROVE  Ledger!Next
  <1>1. Ledger!Become(S, outcome)
    BY DEF Ledger!Become
  <1>2. Ledger!Settle(S)
    BY <1>1 DEF Ledger!Settle
  <1> QED
    BY <1>2 DEF Ledger!Next

LEMMA FatesKept ==
  ASSUME \A k \in Clicks : Fate(k)' = Fate(k)
  PROVE  UNCHANGED Ledger!vars
  BY DEF Ledger!vars

LEMMA RecordIsRecord ==
  ASSUME TrackerOK, NEW k \in Clicks, recordClick(k)
  PROVE  Ledger!Next
  <1> USE DEF TrackerOK
  <1>1. PICK c \in Codes : c = click[k].code
    BY DEF TypeOK, recordClick
  <1>2. UNCHANGED <<counted, batch, Lost>> /\ k \notin recorded
    BY DEF recordClick, tables, flushes, losses, Lost
  <1>3. \/ /\ \A d \in Codes : buffer'[d] = IF d = c THEN buffer[d] \cup {k} ELSE buffer[d]
           /\ dropped' = dropped
        \/ buffer' = buffer /\ dropped' = dropped \cup {k}
    BY <1>1 DEF recordClick, TypeOK, redis, losses
  <1>4. ~Counted(k) /\ ~Buffered(k) /\ ~InBatch(k) /\ k \notin dropped /\ k \notin Lost
    BY <1>2 DEF PlacesOK, RecordedOK, InBatch
  <1>5. Fate(k) = "none"
    BY <1>4, FateIs
  <1>6. \A j \in Clicks \ {k} : Fate(j)' = Fate(j)
    <2> TAKE j \in Clicks \ {k}
    <2>1. Counted(j)' = Counted(j) /\ InBatch(j)' = InBatch(j)
      BY <1>2 DEF Counted, InBatch
    <2>2. (Buffered(j)' <=> Buffered(j)) /\ (j \in dropped' <=> j \in dropped)
      BY <1>3 DEF Buffered
    <2> QED
      BY <1>2, <2>1, <2>2, FateIs, FateBecomes
  <1>7. Fate(k)' \in {"pending", "dropped"}
    <2>1. ~Counted(k)' /\ k \notin Lost'
      BY <1>2, <1>4 DEF Counted
    <2>2. Buffered(k)' \/ k \in dropped'
      BY <1>1, <1>3 DEF Buffered
    <2> QED
      BY <2>1, <2>2, FateBecomes
  <1>8. Ledger!Become({k}, "pending") \/ Ledger!Become({k}, "dropped")
    BY <1>6, <1>7 DEF Ledger!Become
  <1> QED
    BY <1>5, <1>8 DEF Ledger!Next, Ledger!Record

(* Clicks that wait, in a counter or in the hands of a flush.               *)
LEMMA Waits ==
  ASSUME TrackerOK, NEW k \in Clicks, Buffered(k) \/ Held(k), ~Counted(k)
  PROVE  Fate(k) = "pending"
  <1>1. k \notin doubled
    BY DEF TrackerOK, PlacesOK, RecordedOK
  <1>2. k \notin dropped /\ k \notin Lost
    BY <1>1 DEF TrackerOK, PlacesOK, PlaceOK, Apart
  <1> QED
    BY <1>2, FateIs DEF Held, InBatch

LEMMA TakenIsNothing ==
  ASSUME TrackerOK, NEW f \in Flushes, GetDel(f)
  PROVE  Ledger!Next \/ UNCHANGED Ledger!vars
  <1> USE DEF TrackerOK
  <1>1. PICK c \in Codes : c = cur[f]
    BY DEF ControlOK, GetDel
  <1>2. UNCHANGED <<counted, dropped>> /\ batch[f] = {}
    BY DEF GetDel, tables, TypeOK
  <1>3. \A k : Counted(k)' = Counted(k)
    BY <1>2 DEF Counted
  <1>4. CASE /\ \A d \in Codes : buffer'[d] = IF d = c THEN {} ELSE buffer[d]
             /\ \A g \in Flushes : batch'[g] = IF g = f THEN buffer[c] ELSE batch[g]
             /\ Lost' = Lost
    <2>1. ASSUME NEW k \in Clicks
          PROVE  Fate(k)' = Fate(k)
      <3>1. Buffered(k)' \/ InBatch(k)' <=> Buffered(k) \/ InBatch(k)
        BY <1>1, <1>2, <1>4 DEF Buffered, InBatch
      <3> QED
        BY <1>2, <1>3, <1>4, <3>1, FateIs, FateBecomes
    <2> QED
      BY <2>1, FatesKept
  <1>5. CASE UNCHANGED <<batch, buffer, Lost>>
    <2>1. ASSUME NEW k \in Clicks
          PROVE  Fate(k)' = Fate(k)
      BY <1>2, <1>3, <1>5, FateIs, FateBecomes DEF Buffered, InBatch
    <2> QED
      BY <2>1, FatesKept
  <1>6. CASE /\ \A d \in Codes : buffer'[d] = IF d = c THEN {} ELSE buffer[d]
             /\ batch' = batch /\ Lost' = Lost \cup buffer[c] /\ "redis" \in Faults
    <2> DEFINE S == {k \in buffer[c] : ~Counted(k)}
    <2>1. S \in SUBSET Clicks
      BY DEF TypeOK
    <2>2. ASSUME NEW k \in S
          PROVE  Fate(k) = "pending" /\ Fate(k)' = "lost"
      <3>1. k \in Clicks /\ Buffered(k) /\ ~Counted(k)
        BY <2>1, <2>2 DEF Buffered
      <3>2. Fate(k) = "pending"
        BY <3>1, Waits
      <3>3. k \notin dropped'
        BY <1>2, <3>1, <3>2, FateIs
      <3> QED
        BY <1>3, <1>6, <3>1, <3>2, <3>3, FateBecomes
    <2>3. ASSUME NEW k \in Clicks \ S
          PROVE  Fate(k)' = Fate(k)
      <3>1. CASE Counted(k)
        BY <1>3, <3>1, FateIs, FateBecomes
      <3>2. CASE k \notin buffer[c]
        <4>1. Buffered(k)' <=> Buffered(k)
          BY <1>6, <3>2 DEF Buffered
        <4>2. (k \in Lost' <=> k \in Lost) /\ InBatch(k)' = InBatch(k)
          BY <1>6, <3>2 DEF InBatch
        <4> QED
          BY <1>2, <1>3, <4>1, <4>2, FateIs, FateBecomes
      <3> QED
        BY <3>1, <3>2
    <2> HIDE DEF S
    <2> QED
      BY <1>6, <2>1, <2>2, <2>3, Settled
  <1>7. \/ /\ \A d \in Codes : buffer'[d] = IF d = c THEN {} ELSE buffer[d]
           /\ \A g \in Flushes : batch'[g] = IF g = f THEN buffer[c] ELSE batch[g]
           /\ Lost' = Lost
        \/ UNCHANGED <<batch, buffer, Lost>>
        \/ /\ \A d \in Codes : buffer'[d] = IF d = c THEN {} ELSE buffer[d]
           /\ batch' = batch /\ Lost' = Lost \cup buffer[c] /\ "redis" \in Faults
    BY <1>1 DEF GetDel, TypeOK, Fault, Lost
  <1> QED
    BY <1>4, <1>5, <1>6, <1>7

(* A click keeps its fate when it is counted for good, or nothing around it *)
(* moves but from one place where it waits to another.                      *)
LEMMA FateKept ==
  ASSUME NEW k, Counted(k)' <=> Counted(k),
         \/ Counted(k)
         \/ /\ k \in dropped' <=> k \in dropped
            /\ k \in Lost' <=> k \in Lost
            /\ Buffered(k)' \/ InBatch(k)' <=> Buffered(k) \/ InBatch(k)
  PROVE  Fate(k)' = Fate(k)
  BY FateIs, FateBecomes

LEMMA AddedIsSettled ==
  ASSUME TrackerOK, NEW f \in Flushes, AddClicks(f)
  PROVE  Ledger!Next \/ UNCHANGED Ledger!vars
  <1> USE DEF TrackerOK
  <1>1. PICK c \in Codes : c = cur[f]
    BY DEF ControlOK, AddClicks
  <1>2. UNCHANGED <<buffer, Lost>> /\ ~exited
    BY DEF AddClicks, redis, Lost
  <1>3. ASSUME row[c] \in Links
        PROVE  \A l \in Links : Credit(f)[l] =
                 IF l = row[c] THEN counted[l] \cup batch[f] ELSE counted[l]
    BY <1>1, <1>3 DEF Credit, TypeOK
  <1>4. \A g \in Flushes : Emptied(f)[g] = IF g = f THEN {} ELSE batch[g]
    BY DEF Emptied, TypeOK
  <1>5. row[c] # Null => row[c] \in Links
    BY DEF TypeOK
  <1>6. \/ /\ row[c] \in Links /\ counted' = Credit(f) /\ dropped' = dropped
           /\ batch' = Emptied(f) \/ batch' = batch
        \/ /\ dropped' = dropped \cup batch[f] /\ batch' = Emptied(f)
           /\ counted' = counted
        \/ UNCHANGED <<counted, batch, dropped>>
    BY <1>1, <1>5 DEF AddClicks
  <1> DEFINE S == {k \in batch[f] : ~Counted(k)}
  <1>7. S \in SUBSET Clicks
    BY DEF TypeOK
  <1>8. ASSUME NEW k \in S
        PROVE  Fate(k) = "pending"
    <2>1. k \in Clicks /\ Held(k) /\ ~Counted(k)
      BY <1>2, <1>7, <1>8 DEF Held
    <2> QED
      BY <2>1, Waits
  <1>9. \A k : Buffered(k)' = Buffered(k)
    BY <1>2 DEF Buffered
  <1>10. CASE /\ row[c] \in Links /\ counted' = Credit(f) /\ dropped' = dropped
              /\ batch' = Emptied(f) \/ batch' = batch
    <2>1. \A k : Counted(k)' <=> Counted(k) \/ k \in batch[f]
      BY <1>3, <1>10 DEF Counted
    <2>2. \A k \in S : Fate(k)' = "counted"
      BY <2>1, FateBecomes
    <2>3. ASSUME NEW k \in Clicks \ S
          PROVE  Fate(k)' = Fate(k)
      <3>1. CASE Counted(k)
        BY <2>1, <3>1, FateKept
      <3>2. CASE k \notin batch[f]
        <4>1. InBatch(k)' <=> InBatch(k)
          BY <1>4, <1>10, <3>2 DEF InBatch
        <4> QED
          BY <1>2, <1>9, <1>10, <2>1, <3>2, <4>1, FateKept
      <3> QED
        BY <3>1, <3>2
    <2> HIDE DEF S
    <2> QED
      BY <1>7, <1>8, <2>2, <2>3, Settled
  <1>11. CASE /\ dropped' = dropped \cup batch[f] /\ batch' = Emptied(f)
              /\ counted' = counted
    <2>1. \A k : Counted(k)' <=> Counted(k)
      BY <1>11 DEF Counted
    <2>2. \A k \in S : Fate(k)' = "dropped"
      BY <1>11, <2>1, FateBecomes
    <2>3. ASSUME NEW k \in Clicks \ S
          PROVE  Fate(k)' = Fate(k)
      <3>1. CASE Counted(k)
        BY <2>1, <3>1, FateKept
      <3>2. CASE k \notin batch[f]
        <4>1. InBatch(k)' <=> InBatch(k)
          BY <1>4, <1>11, <3>2 DEF InBatch
        <4> QED
          BY <1>2, <1>9, <1>11, <2>1, <3>2, <4>1, FateKept
      <3> QED
        BY <3>1, <3>2
    <2> HIDE DEF S
    <2> QED
      BY <1>7, <1>8, <2>2, <2>3, Settled
  <1>12. CASE UNCHANGED <<counted, batch, dropped>>
    <2>1. ASSUME NEW k \in Clicks
          PROVE  Fate(k)' = Fate(k)
      BY <1>2, <1>9, <1>12, FateKept DEF Counted, InBatch
    <2> QED
      BY <2>1, FatesKept
  <1> QED
    BY <1>6, <1>10, <1>11, <1>12

LEMMA ReturnedIsNothing ==
  ASSUME TrackerOK, NEW f \in Flushes, Rebuffer(f)
  PROVE  Ledger!Next \/ UNCHANGED Ledger!vars
  <1> USE DEF TrackerOK
  <1>1. PICK c \in Codes : c = cur[f]
    BY DEF ControlOK, Rebuffer
  <1>2. UNCHANGED <<counted, dropped>> /\ ~exited
    BY DEF Rebuffer, tables
  <1>3. \A k : Counted(k)' = Counted(k)
    BY <1>2 DEF Counted
  <1>4. \A g \in Flushes : batch'[g] = IF g = f THEN {} ELSE batch[g]
    BY DEF Rebuffer, Emptied, TypeOK
  <1>5. CASE buffer' = PutBack(f) /\ Lost' = Lost
    <2>1. \A d \in Codes :
            buffer'[d] = IF d = c THEN buffer[d] \cup batch[f] ELSE buffer[d]
      BY <1>1, <1>5 DEF PutBack, TypeOK
    <2>2. ASSUME NEW k \in Clicks
          PROVE  Fate(k)' = Fate(k)
      <3>1. Buffered(k)' \/ InBatch(k)' <=> Buffered(k) \/ InBatch(k)
        BY <1>1, <1>4, <2>1 DEF Buffered, InBatch
      <3> QED
        BY <1>2, <1>3, <1>5, <3>1, FateKept
    <2> QED
      BY <2>2, FatesKept
  <1>6. CASE /\ Lost' = Lost \cup (batch[f] \ UNION {counted[l] : l \in Links})
             /\ buffer' = buffer /\ "redis" \in Faults
    <2> DEFINE S == {k \in batch[f] : ~Counted(k)}
    <2>1. S \in SUBSET Clicks
      BY DEF TypeOK
    <2>2. ASSUME NEW k
          PROVE  k \in Lost' <=> k \in Lost \/ k \in S
      <3>1. k \in UNION {counted[l] : l \in Links} <=> Counted(k)
        BY DEF Counted
      <3> QED
        BY <1>6, <3>1
    <2>3. ASSUME NEW k \in S
          PROVE  Fate(k) = "pending" /\ Fate(k)' = "lost"
      <3>1. k \in Clicks /\ Held(k) /\ ~Counted(k)
        BY <1>2, <2>1, <2>3 DEF Held
      <3>2. Fate(k) = "pending"
        BY <3>1, Waits
      <3>3. k \notin dropped'
        BY <1>2, <3>1, <3>2, FateIs
      <3> QED
        BY <1>3, <2>2, <3>1, <3>2, <3>3, FateBecomes
    <2>4. ASSUME NEW k \in Clicks \ S
          PROVE  Fate(k)' = Fate(k)
      <3>1. CASE Counted(k)
        BY <1>3, <3>1, FateKept
      <3>2. CASE k \notin batch[f]
        <4>1. Buffered(k)' = Buffered(k) /\ (InBatch(k)' <=> InBatch(k))
          BY <1>4, <1>6, <3>2 DEF Buffered, InBatch
        <4>2. k \in Lost' <=> k \in Lost
          BY <2>2, <2>4
        <4> QED
          BY <1>2, <1>3, <4>1, <4>2, FateKept
      <3> QED
        BY <3>1, <3>2
    <2> HIDE DEF S
    <2> QED
      BY <1>6, <2>1, <2>3, <2>4, Settled
  <1> QED
    BY <1>5, <1>6 DEF Rebuffer, redis, Fault, Lost

LEMMA EndIsALoss ==
  ASSUME TrackerOK, Exit \/ Crash
  PROVE  Ledger!Next
  <1> USE DEF TrackerOK
  <1>1. /\ UNCHANGED <<counted, buffer, dropped>> /\ ~exited
        /\ batch' = batch \/ \A f \in Flushes : batch'[f] = {}
    BY DEF Exit, Crash, tables, redis, flushes
  <1>2. Shutdowns \/ Faults \cap {"redis", "crash"} # {}
    BY DEF ControlOK, Exit, Crash, Fault
  <1> DEFINE S == {k \in Clicks : InBatch(k) /\ ~Counted(k)}
  <1>3. ASSUME NEW k \in Clicks
        PROVE  k \in Lost' <=> k \in Lost \/ k \in S
    <2> DEFINE lost == UNION {batch[f] : f \in Flushes}
               kept == UNION {counted[l] : l \in Links}
    <2>1. Lost' = Lost \cup InHands
      BY DEF Exit, Crash, Lost
    <2>2. k \in lost <=> InBatch(k)
      BY DEF InBatch
    <2>3. k \in kept <=> Counted(k)
      BY DEF Counted
    <2>4. Lost' = Lost \cup (lost \ kept)
      BY <2>1 DEF InHands
    <2> HIDE DEF lost, kept
    <2> QED
      BY <2>2, <2>3, <2>4
  <1>4. \A k : Counted(k)' = Counted(k) /\ Buffered(k)' = Buffered(k)
    BY <1>1 DEF Counted, Buffered
  <1>5. ASSUME NEW k \in S
        PROVE  Fate(k) = "pending" /\ Fate(k)' = "lost"
    <2>1. k \in Clicks /\ Held(k) /\ ~Counted(k)
      BY <1>1, <1>5 DEF Held, InBatch
    <2>2. Fate(k) = "pending"
      BY <2>1, Waits
    <2>3. k \notin dropped'
      BY <1>1, <2>1, <2>2, FateIs
    <2> QED
      BY <1>3, <1>4, <2>1, <2>2, <2>3, FateBecomes
  <1>6. ASSUME NEW k \in Clicks \ S
        PROVE  Fate(k)' = Fate(k)
    <2>1. CASE Counted(k)
      BY <1>4, <2>1, FateKept
    <2>2. CASE ~InBatch(k)
      <3>1. ~InBatch(k)'
        BY <1>1, <2>2 DEF InBatch
      <3>2. k \in Lost' <=> k \in Lost
        BY <1>3, <1>6
      <3> QED
        BY <1>1, <1>4, <2>2, <3>1, <3>2, FateKept
    <2> QED
      BY <2>1, <2>2
  <1>7. S \in SUBSET Clicks
    OBVIOUS
  <1> HIDE DEF S
  <1> QED
    BY <1>2, <1>5, <1>6, <1>7, Settled

LEMMA LedgerSteps ==
  TrackerOK /\ [Next]_vars => [Ledger!Next]_(Ledger!vars)
  <1> SUFFICES ASSUME TrackerOK, [Next]_vars
               PROVE  Ledger!Next \/ UNCHANGED Ledger!vars
    OBVIOUS
  <1>1. CASE UNCHANGED <<counted, buffer, batch, dropped, Lost>>
    <2>1. ASSUME NEW k \in Clicks
          PROVE  Fate(k)' = Fate(k)
      BY <1>1, FateKept DEF Counted, Buffered, InBatch
    <2> QED
      BY <2>1, FatesKept
  <1> QED
    BY <1>1, RecordIsRecord, TakenIsNothing, AddedIsSettled, ReturnedIsNothing,
       EndIsALoss
    DEF Next, Flush, Create, Rename, Delete, Resolve, StatsRow, StatsPending,
        Interval, Stop, SRem, redis, flushes, tables, losses, vars, Lost

(* The counters implement ClickLedger: seen from outside a click waits, then *)
(* is settled once and for all, whatever is retried, and only a failing      *)
(* Redis, a crash or a shutdown loses any.                                   *)
THEOREM LedgerImplemented == Spec => ImplementsLedger
  <1>1. Init => Ledger!Init
    <2> SUFFICES ASSUME Init, NEW k \in Clicks
                 PROVE  Fate(k) = "none"
      BY DEF Ledger!Init
    <2>1. ~Counted(k) /\ ~Buffered(k) /\ ~InBatch(k)
      BY DEF Init, Counted, Buffered, InBatch
    <2> QED
      BY <2>1, FateIs DEF Init, Lost
  <1> QED
    BY <1>1, LedgerSteps, TrackerInvariant, PTL DEF Spec, ImplementsLedger, Ledger!Spec

=============================================================================
