------------------------- MODULE RateLimiterProofs --------------------------
(***************************************************************************)
(* Proofs about RateLimiter, for every set of callers and requests, every   *)
(* limit and window, and with a failing Redis or without.                   *)
(*                                                                         *)
(* The inductive invariant relates the two variables at Redis to the        *)
(* history of the script's runs (WindowsOK, HitsOK), and what the program   *)
(* knows of a request to the run that was its own (RepliesOK).              *)
(***************************************************************************)
EXTENDS RateLimiter, FiniteSetTheorems, TLAPS

USE LimiterAssumption

Of(i) == {h \in hits : id[h.by] = i}
Window(i, e) == {h \in Of(i) : h.ends = e}

(* The key counts the runs of the window that began last. *)
WindowOK(i) ==
  /\ current[i] = 0 => Of(i) = {}
  /\ current[i] > 0 => \E h \in Of(i) : h.n = 1 /\ h.at + WINDOW = expires[i]
  /\ \A h \in Of(i) : h.ends <= expires[i] /\ (h.ends = expires[i] => h.n <= current[i])
  /\ current[i] <= Cardinality(Window(i, expires[i]))

WindowsOK == \A i \in Ids : WindowOK(i)

HitOK(h) ==
  /\ h.at <= now /\ h.at <= h.ends /\ h.ends <= h.at + WINDOW
  /\ h.n = 1 => h.ends = h.at + WINDOW
  /\ Cardinality(Before(h)) >= h.n - 1

(* Runs of one window are numbered apart; windows are a window apart. *)
PairOK(g, h) ==
  id[g.by] = id[h.by] =>
    /\ g.ends = h.ends /\ g.n = h.n => g = h
    /\ g.ends < h.ends => g.ends + WINDOW < h.ends

HitsOK ==
  /\ \A h \in hits : HitOK(h)
  /\ \A g, h \in hits : PairOK(g, h)

(* The run a request was judged by, or will be, is its last. *)
ReplyOK(r) ==
  /\ pc[r] \in {"reply", "next", "429"} =>
       \E h \in hits : /\ h.by = r /\ h.n = count[r]
                       /\ \A g \in hits : g.by = r => g.ends <= h.ends
                       /\ pc[r] = "reply" => h.ends = h.at + ttl[r]
                       /\ pc[r] = "429" => h.ends <= retryAt[r]
  /\ pc[r] = "next" => count[r] <= TierMax(id[r])
  /\ pc[r] = "429" => count[r] > TierMax(id[r])

RepliesOK == \A r \in Reqs : ReplyOK(r)

(* A script that is not sent again is the last of its request. *)
Sent == {r \in Reqs : pc[r] # "eval"}
BoundOK ==
  /\ IsFiniteSet(hits)
  /\ Cardinality(hits) <= MaxHits + Cardinality(Sent)

LimiterOK == TypeOK /\ WindowsOK /\ HitsOK /\ RepliesOK /\ BoundOK
-----------------------------------------------------------------------------
LEMMA Limits ==
  /\ ANON_MAX \in Nat \ {0} /\ APIKEY_MAX \in Nat \ {0}
  /\ SECOND \in Nat \ {0} /\ WINDOW \in Nat \ {0}
  /\ MaxTime \in Nat /\ MaxHits \in Nat
  /\ \A i : TierMax(i) \in Nat \ {0}
  <1>1. /\ {ANON_MAX, APIKEY_MAX, SECOND, WINDOW} \subseteq Nat \ {0}
        /\ {MaxTime, MaxHits} \subseteq Nat
    OBVIOUS
  <1>2. /\ ANON_MAX \in Nat \ {0} /\ APIKEY_MAX \in Nat \ {0}
        /\ SECOND \in Nat \ {0} /\ WINDOW \in Nat \ {0}
        /\ MaxTime \in Nat /\ MaxHits \in Nat
    BY <1>1
  <1> QED
    BY <1>2 DEF TierMax

LEMMA SentIsFinite ==
  /\ IsFiniteSet(Reqs) /\ Cardinality(Reqs) \in Nat
  /\ IsFiniteSet(Sent) /\ Cardinality(Sent) \in Nat
  /\ Cardinality(Sent) <= Cardinality(Reqs)
  <1>1. IsFiniteSet(Reqs) /\ Sent \subseteq Reqs
    BY DEF Sent
  <1> QED
    BY <1>1, FS_CardinalityType, FS_Subset

(* ceil rounds up: the client waits at least as long as the key lives. *)
LEMMA ResetSecRoundsUp ==
  ASSUME NEW t \in Nat
  PROVE  ResetSec(t) \in Nat /\ ResetSec(t) * SECOND >= t
  <1>1. SECOND \in Nat /\ SECOND > 0
    BY Limits
  <1>2. CASE t = 0
    BY <1>1, <1>2 DEF ResetSec
  <1>3. CASE t # 0
    <2> DEFINE q == (t + SECOND - 1) \div SECOND
    <2>1. q \in Nat /\ q * SECOND + SECOND > t + SECOND - 1
      <3>1. t + SECOND - 1 \in Nat
        BY <1>1
      <3>2. /\ q \in Int /\ 0 <= q
            /\ t + SECOND - 1 < (q + 1) * SECOND
        BY <1>1, <3>1, Z3
      <3> QED
        BY <1>1, <3>1, <3>2
    <2> HIDE DEF q
    <2>2. q \in Nat /\ q * SECOND \in Nat /\ q * SECOND >= t
      BY <1>1, <2>1
    <2> QED
      BY <1>3, <2>2 DEF ResetSec, q
  <1> QED
    BY <1>2, <1>3

-----------------------------------------------------------------------------
(* The script *)

LEMMA HitTypes ==
  ASSUME LimiterOK
  PROVE  /\ now \in Nat /\ IsFiniteSet(hits)
         /\ \A i \in Ids : current[i] \in Nat /\ expires[i] \in Nat
         /\ \A h \in hits : /\ h.by \in Reqs /\ id[h.by] \in Ids /\ h.at \in Nat
                            /\ h.n \in Nat /\ h.n > 0 /\ h.ends \in Nat
  <1>1. Cardinality(Reqs) \in Nat /\ MaxHits \in Nat /\ WINDOW \in Nat /\ MaxTime \in Nat
    BY Limits, SentIsFinite
  <1>2. hits \subseteq Hit
    BY DEF LimiterOK, TypeOK
  <1>3. \A h \in hits : /\ h.by \in Reqs /\ h.at \in Nat
                        /\ h.n \in Nat /\ h.n > 0 /\ h.ends \in Nat
    BY <1>1, <1>2 DEF Hit
  <1> QED
    BY <1>1, <1>3 DEF LimiterOK, TypeOK, BoundOK

(* What the script finds: the number and the end that it gives to its run.  *)
Number(i) == IF Live(i) THEN current[i] + 1 ELSE 1
End(i) == Expiry(i, Number(i))

LEMMA RunIsNext ==
  ASSUME LimiterOK, NEW i \in Ids
  PROVE  /\ Number(i) \in Nat /\ Number(i) > 0
         /\ End(i) \in Nat /\ now <= End(i) /\ End(i) <= now + WINDOW
         /\ Number(i) = 1 => End(i) = now + WINDOW
         /\ \A g \in Of(i) : \/ g.ends = End(i) /\ g.n < Number(i)
                             \/ g.ends + WINDOW < End(i)
         /\ Cardinality(Window(i, End(i))) >= Number(i) - 1
  <1>1. /\ now \in Nat /\ current[i] \in Nat /\ expires[i] \in Nat
        /\ WINDOW \in Nat /\ WINDOW > 0
        /\ \A h \in hits : /\ h.at \in Nat /\ h.n \in Nat /\ h.ends \in Nat
    BY HitTypes, Limits
  <1>2. WindowOK(i) /\ HitsOK
    BY DEF LimiterOK, WindowsOK
  <1>3. CASE Live(i)
    <2>1. /\ Number(i) = current[i] + 1 /\ current[i] > 0 /\ now <= expires[i]
          /\ End(i) = expires[i]
      BY <1>1, <1>3 DEF Number, End, Expiry, Live
    <2>2. PICK f \in Of(i) : f.n = 1 /\ f.at + WINDOW = expires[i]
      BY <1>2, <2>1 DEF WindowOK
    <2>3. f \in hits /\ id[f.by] = i /\ f.at <= now /\ f.ends = expires[i]
      BY <1>2, <2>2 DEF Of, HitsOK, HitOK
    <2>4. ASSUME NEW g \in Of(i)
          PROVE  \/ g.ends = End(i) /\ g.n < Number(i)
                 \/ g.ends + WINDOW < End(i)
      <3>1. g \in hits /\ id[g.by] = i /\ PairOK(g, f)
        BY <1>2, <2>3 DEF Of, HitsOK
      <3>2. g.ends <= expires[i] /\ (g.ends = expires[i] => g.n <= current[i])
        BY <1>2 DEF WindowOK
      <3> QED
        BY <1>1, <2>1, <2>3, <3>1, <3>2 DEF PairOK
    <2>5. Cardinality(Window(i, End(i))) >= Number(i) - 1
      BY <1>1, <1>2, <2>1 DEF WindowOK
    <2> QED
      BY <1>1, <2>1, <2>2, <2>3, <2>4, <2>5
  <1>4. CASE ~Live(i)
    <2>1. Number(i) = 1 /\ End(i) = now + WINDOW
      BY <1>4 DEF Number, End, Expiry
    <2>2. ASSUME NEW g \in Of(i)
          PROVE  g.ends + WINDOW < End(i)
      <3>1. current[i] > 0 /\ expires[i] < now
        BY <1>1, <1>2, <1>4 DEF Live, WindowOK
      <3> QED
        BY <1>1, <1>2, <2>1, <3>1 DEF WindowOK, Of
    <2>3. Cardinality(Window(i, End(i))) \in Nat
      <3>1. Window(i, End(i)) \subseteq hits
        BY DEF Window, Of
      <3> QED
        BY <3>1, HitTypes, FS_Subset, FS_CardinalityType
    <2> QED
      BY <1>1, <2>1, <2>2, <2>3
  <1> QED
    BY <1>3, <1>4

(* The run the script leaves behind. *)
Run(r) == [by |-> r, at |-> now, n |-> Number(id[r]), ends |-> End(id[r])]

LEMMA ScriptRuns ==
  ASSUME LimiterOK, NEW r \in Reqs, Script(r), UNCHANGED <<now, id>>
  PROVE  /\ id[r] \in Ids /\ hits' = hits \cup {Run(r)} /\ Run(r) \notin hits
         /\ current' = [current EXCEPT ![id[r]] = Number(id[r])]
         /\ expires' = [expires EXCEPT ![id[r]] = End(id[r])]
         /\ count' = [count EXCEPT ![r] = Number(id[r])]
         /\ ttl' = [ttl EXCEPT ![r] = End(id[r]) - now]
         /\ IsFiniteSet(hits') /\ Cardinality(hits) \in Nat
         /\ Cardinality(hits') = Cardinality(hits) + 1
  <1>1. id[r] \in Ids
    BY DEF LimiterOK, TypeOK
  <1>2. /\ hits' = hits \cup {Run(r)}
        /\ current' = [current EXCEPT ![id[r]] = Number(id[r])]
        /\ expires' = [expires EXCEPT ![id[r]] = End(id[r])]
        /\ count' = [count EXCEPT ![r] = Number(id[r])]
        /\ ttl' = [ttl EXCEPT ![r] = End(id[r]) - now]
    BY DEF Script, Run, Number, End
  <1>3. Run(r) \notin hits
    <2> SUFFICES ASSUME Run(r) \in hits PROVE FALSE
      OBVIOUS
    <2>1. Run(r).by = r /\ Run(r).ends = End(id[r]) /\ Run(r).n = Number(id[r])
      BY DEF Run
    <2>2. Run(r) \in Of(id[r])
      BY <2>1 DEF Of
    <2>3. /\ End(id[r]) \in Nat /\ Number(id[r]) \in Nat /\ WINDOW \in Nat
      BY <1>1, RunIsNext, Limits
    <2>4. \/ Run(r).ends = End(id[r]) /\ Run(r).n < Number(id[r])
          \/ Run(r).ends + WINDOW < End(id[r])
      BY <1>1, <2>2, RunIsNext
    <2> QED
      BY <2>1, <2>3, <2>4
  <1>4. /\ IsFiniteSet(hits') /\ Cardinality(hits) \in Nat
        /\ Cardinality(hits') = Cardinality(hits) + 1
    BY <1>2, <1>3, HitTypes, FS_AddElement, FS_CardinalityType
  <1> QED
    BY <1>1, <1>2, <1>3, <1>4

LEMMA ScriptKeepsHits ==
  ASSUME LimiterOK, NEW r \in Reqs, Script(r), UNCHANGED <<now, id>>
  PROVE  HitsOK'
  <1>0. PICK i, h, n, e :
          i = id[r] /\ h = Run(r) /\ n = Number(id[r]) /\ e = End(id[r])
    OBVIOUS
  <1>1. /\ i \in Ids /\ hits' = hits \cup {h} /\ id' = id /\ now' = now
        /\ h.by = r /\ h.at = now /\ h.n = n /\ h.ends = e /\ id[r] = i
    BY <1>0, ScriptRuns DEF Run
  <1>2. /\ n \in Nat /\ n > 0
        /\ e \in Nat /\ now <= e /\ e <= now + WINDOW
        /\ n = 1 => e = now + WINDOW
        /\ Cardinality(Window(i, e)) >= n - 1
    BY <1>0, <1>1, RunIsNext
  <1>3. \A g \in Of(i) : \/ g.ends = e /\ g.n < n
                         \/ g.ends + WINDOW < e
    BY <1>0, <1>1, RunIsNext
  <1>4. /\ WINDOW \in Nat /\ WINDOW > 0 /\ now \in Nat
        /\ \A g \in hits : g.at \in Nat /\ g.n \in Nat /\ g.ends \in Nat
    BY HitTypes, Limits
  <1>5. IsFiniteSet(hits')
    BY ScriptRuns
  <1>6. ASSUME NEW g \in hits
        PROVE  HitOK(g)'
    <2>1. Cardinality(Before(g)') >= Cardinality(Before(g))
          /\ Cardinality(Before(g)') \in Nat /\ Cardinality(Before(g)) \in Nat
      <3>1. Before(g) \subseteq Before(g)' /\ Before(g)' \subseteq hits'
        BY <1>1 DEF Before
      <3> QED
        BY <1>5, <3>1, FS_Subset, FS_CardinalityType
    <2> QED
      BY <1>1, <1>4, <2>1 DEF LimiterOK, HitsOK, HitOK
  <1>7. HitOK(h)'
    <2>1. Window(i, e) \subseteq Before(h)'
      <3> SUFFICES ASSUME NEW g \in Window(i, e) PROVE g \in Before(h)'
        OBVIOUS
      <3>1. g \in hits /\ id[g.by] = i /\ g.ends = e /\ g \in Of(i)
        BY DEF Window, Of
      <3>2. g.n < n
        BY <1>2, <1>3, <1>4, <3>1
      <3> QED
        BY <1>1, <3>1, <3>2 DEF Before
    <2>2. Before(h)' \subseteq hits'
      BY DEF Before
    <2>3. Cardinality(Before(h)') >= Cardinality(Window(i, e))
          /\ Cardinality(Before(h)') \in Nat /\ Cardinality(Window(i, e)) \in Nat
      BY <1>5, <2>1, <2>2, FS_Subset, FS_CardinalityType
    <2> QED
      BY <1>1, <1>2, <1>4, <2>3 DEF HitOK
  <1>8. ASSUME NEW g \in hits, NEW f \in hits
        PROVE  PairOK(g, f)'
    BY <1>1 DEF LimiterOK, HitsOK, PairOK
  <1>9. ASSUME NEW g \in hits
        PROVE  PairOK(g, h)' /\ PairOK(h, g)'
    <2> SUFFICES ASSUME id[g.by] = i
                 PROVE  /\ g.ends = e => g.n # n
                        /\ g.ends < e => g.ends + WINDOW < e
                        /\ ~(e < g.ends)
      BY <1>1 DEF PairOK
    <2>1. g \in Of(i)
      BY DEF Of
    <2> QED
      BY <1>2, <1>3, <1>4, <2>1
  <1>10. PairOK(h, h)'
    BY <1>1, <1>2, <1>4 DEF PairOK
  <1> QED
    BY <1>1, <1>6, <1>7, <1>8, <1>9, <1>10 DEF HitsOK

LEMMA ScriptKeepsWindows ==
  ASSUME LimiterOK, NEW r \in Reqs, Script(r), UNCHANGED <<now, id>>
  PROVE  WindowsOK'
  <1>0. PICK i, h, n, e :
          i = id[r] /\ h = Run(r) /\ n = Number(id[r]) /\ e = End(id[r])
    OBVIOUS
  <1>1. /\ i \in Ids /\ hits' = hits \cup {h} /\ id' = id /\ now' = now /\ h \notin hits
        /\ h.by = r /\ h.at = now /\ h.n = n /\ h.ends = e /\ id[r] = i
        /\ current' = [current EXCEPT ![i] = n] /\ expires' = [expires EXCEPT ![i] = e]
    BY <1>0, ScriptRuns DEF Run
  <1>2. /\ current'[i] = n /\ expires'[i] = e
        /\ \A j \in Ids \ {i} : current'[j] = current[j] /\ expires'[j] = expires[j]
    BY <1>1 DEF LimiterOK, TypeOK
  <1>3. /\ n \in Nat /\ n > 0
        /\ e \in Nat /\ now <= e /\ e <= now + WINDOW
        /\ n = 1 => e = now + WINDOW
        /\ Cardinality(Window(i, e)) >= n - 1
    BY <1>0, <1>1, RunIsNext
  <1>4. \A g \in Of(i) : \/ g.ends = e /\ g.n < n
                         \/ g.ends + WINDOW < e
    BY <1>0, <1>1, RunIsNext
  <1>5. /\ WINDOW \in Nat /\ WINDOW > 0 /\ now \in Nat /\ IsFiniteSet(hits)
        /\ \A g \in hits : g.at \in Nat /\ g.n \in Nat /\ g.ends \in Nat
    BY HitTypes, Limits
  <1>6. Of(i)' = Of(i) \cup {h} /\ \A j \in Ids \ {i} : Of(j)' = Of(j)
    <2>1. Of(i)' = Of(i) \cup {h}
      BY <1>1 DEF Of
    <2>2. ASSUME NEW j \in Ids \ {i} PROVE Of(j)' = Of(j)
      BY <1>1 DEF Of
    <2> QED
      BY <2>1, <2>2
  <1>7. ASSUME NEW j \in Ids \ {i}
        PROVE  WindowOK(j)'
    <2>1. Window(j, expires[j])' = Window(j, expires[j])
      BY <1>2, <1>6 DEF Window
    <2> QED
      BY <1>2, <1>6, <2>1 DEF LimiterOK, WindowsOK, WindowOK
  <1>8. WindowOK(i)'
    <2>1. \E g \in Of(i)' : g.n = 1 /\ g.at + WINDOW = e
      <3>1. CASE n = 1
        BY <1>1, <1>3, <1>6, <3>1
      <3>2. CASE n # 1
        <4>1. current[i] > 0 /\ e = expires[i]
          BY <1>0, <1>1, <3>2, HitTypes DEF Number, End, Expiry, Live
        <4> QED
          BY <1>1, <1>6, <4>1, HitTypes DEF LimiterOK, WindowsOK, WindowOK
      <3> QED
        BY <3>1, <3>2
    <2>2. \A g \in Of(i)' : g.ends <= e /\ (g.ends = e => g.n <= n)
      BY <1>1, <1>3, <1>4, <1>5, <1>6 DEF Of
    <2>3. n <= Cardinality(Window(i, e)')
      <3>1. Window(i, e)' = Window(i, e) \cup {h} /\ h \notin Window(i, e)
            /\ Window(i, e) \subseteq hits
        BY <1>1, <1>6 DEF Window, Of
      <3>2. IsFiniteSet(Window(i, e)) /\ Cardinality(Window(i, e)) \in Nat
        BY <1>5, <3>1, FS_Subset, FS_CardinalityType
      <3>3. Cardinality(Window(i, e)') = Cardinality(Window(i, e)) + 1
        BY <3>1, <3>2, FS_AddElement
      <3> QED
        BY <1>3, <3>2, <3>3
    <2>4. Window(i, expires[i])' = Window(i, e)'
      BY <1>2 DEF Window
    <2> QED
      BY <1>2, <1>3, <2>1, <2>2, <2>3, <2>4 DEF WindowOK
  <1> QED
    BY <1>7, <1>8 DEF WindowsOK

LEMMA ScriptKeepsTypes ==
  ASSUME LimiterOK, NEW r \in Reqs, Script(r), UNCHANGED <<now, id, retryAt>>,
         BoundOK', pc' \in [Reqs -> {"eval", "reply", "next", "failopen", "429"}]
  PROVE  TypeOK'
  <1>0. PICK i, h, n, e :
          i = id[r] /\ h = Run(r) /\ n = Number(id[r]) /\ e = End(id[r])
    OBVIOUS
  <1>1. /\ i \in Ids /\ hits' = hits \cup {h} /\ h = Run(r)
        /\ current' = [current EXCEPT ![i] = n] /\ expires' = [expires EXCEPT ![i] = e]
        /\ count' = [count EXCEPT ![r] = n] /\ ttl' = [ttl EXCEPT ![r] = e - now]
    BY <1>0, ScriptRuns
  <1>2. /\ n \in Nat /\ n > 0 /\ e \in Nat /\ now <= e /\ e <= now + WINDOW
    BY <1>0, <1>1, RunIsNext
  <1>3. n <= MaxHits + Cardinality(Reqs)
    <2>1. WindowOK(i)' /\ current'[i] = n
      BY <1>1, ScriptKeepsWindows DEF WindowsOK, LimiterOK, TypeOK
    <2>2. n <= Cardinality(Window(i, expires[i])')
      BY <2>1 DEF WindowOK
    <2>3. Window(i, expires[i])' \subseteq hits' /\ IsFiniteSet(hits')
      BY DEF Window, Of, BoundOK
    <2>4. /\ Cardinality(Window(i, expires[i])') <= Cardinality(hits')
          /\ Cardinality(hits') \in Nat /\ Cardinality(Window(i, expires[i])') \in Nat
      BY <2>3, FS_Subset, FS_CardinalityType
    <2>5. Sent' \subseteq Reqs /\ IsFiniteSet(Reqs)
      BY DEF Sent
    <2>6. Cardinality(Sent') <= Cardinality(Reqs)
          /\ Cardinality(Sent') \in Nat /\ Cardinality(Reqs) \in Nat
      BY <2>5, FS_Subset, FS_CardinalityType
    <2>7. Cardinality(hits') <= MaxHits + Cardinality(Sent') /\ MaxHits \in Nat
      BY Limits DEF BoundOK
    <2> QED
      BY <1>2, <2>2, <2>4, <2>6, <2>7
  <1>4. /\ MaxHits + Cardinality(Reqs) \in Nat /\ MaxTime \in Nat /\ WINDOW \in Nat
    BY SentIsFinite, Limits
  <1>5. now \in 0 .. MaxTime
    BY DEF LimiterOK, TypeOK
  <1>6. h \in Hit
    BY <1>0, <1>2, <1>3, <1>4, <1>5 DEF Hit, Run
  <1>7. current' \in [Ids -> 0 .. MaxHits + Cardinality(Reqs)]
    BY <1>1, <1>2, <1>3, <1>4 DEF LimiterOK, TypeOK
  <1>8. expires' \in [Ids -> 0 .. MaxTime + WINDOW]
    BY <1>1, <1>2, <1>4, <1>5 DEF LimiterOK, TypeOK
  <1>9. count' \in [Reqs -> 0 .. MaxHits + Cardinality(Reqs)]
    BY <1>1, <1>2, <1>3, <1>4 DEF LimiterOK, TypeOK
  <1>10. ttl' \in [Reqs -> 0 .. WINDOW]
    BY <1>1, <1>2, <1>4, <1>5 DEF LimiterOK, TypeOK
  <1> QED
    BY <1>1, <1>6, <1>7, <1>8, <1>9, <1>10 DEF LimiterOK, TypeOK

-----------------------------------------------------------------------------
(* The steps *)

LEMMA SameHits ==
  ASSUME WindowsOK, HitsOK, UNCHANGED <<now, current, expires, id, hits>>
  PROVE  WindowsOK' /\ HitsOK'
  <1>1. WindowsOK'
    BY DEF WindowsOK, WindowOK, Of, Window
  <1>2. HitsOK'
    BY DEF HitsOK, HitOK, PairOK, Before
  <1> QED
    BY <1>1, <1>2

LEMMA EvalStep ==
  ASSUME LimiterOK, NEW r \in Reqs, Eval(r)
  PROVE  LimiterOK'
  <1>1. UNCHANGED <<now, id, retryAt>> /\ pc[r] = "eval"
        /\ pc \in [Reqs -> {"eval", "reply", "next", "failopen", "429"}]
    BY DEF Eval, LimiterOK, TypeOK
  <1>2. ASSUME NEW step \in {"reply", "failopen", "eval"}, Script(r),
               pc' = [pc EXCEPT ![r] = step],
               step = "eval" => Cardinality(hits) < MaxHits
        PROVE  LimiterOK'
    <2>1. /\ pc' \in [Reqs -> {"eval", "reply", "next", "failopen", "429"}]
          /\ pc'[r] = step /\ \A x \in Reqs \ {r} : pc'[x] = pc[x]
      BY <1>1, <1>2
    <2>2. /\ IsFiniteSet(hits') /\ Cardinality(hits) \in Nat
          /\ Cardinality(hits') = Cardinality(hits) + 1
      BY <1>1, <1>2, ScriptRuns
    <2>3. /\ Cardinality(Sent) \in Nat /\ IsFiniteSet(Sent) /\ MaxHits \in Nat
      BY SentIsFinite, Limits
    <2>4. BoundOK'
      <3>1. CASE step = "eval"
        <4>1. Sent' = Sent
          BY <1>1, <2>1, <3>1 DEF Sent
        <4> QED
          BY <1>2, <2>2, <2>3, <3>1, <4>1 DEF BoundOK
      <3>2. CASE step # "eval"
        <4>1. Sent' = Sent \cup {r} /\ r \notin Sent
          BY <1>1, <2>1, <3>2 DEF Sent
        <4>2. Cardinality(Sent') = Cardinality(Sent) + 1
          BY <2>3, <4>1, FS_AddElement
        <4> QED
          BY <2>2, <2>3, <4>2 DEF LimiterOK, BoundOK
      <3> QED
        BY <3>1, <3>2
    <2>5. TypeOK' /\ HitsOK' /\ WindowsOK'
      BY <1>1, <1>2, <2>1, <2>4, ScriptKeepsTypes, ScriptKeepsHits, ScriptKeepsWindows
    <2>6. RepliesOK'
      <3>0. PICK i, h, n, e :
              i = id[r] /\ h = Run(r) /\ n = Number(id[r]) /\ e = End(id[r])
        OBVIOUS
      <3>1. /\ i \in Ids /\ hits' = hits \cup {h}
            /\ h.by = r /\ h.at = now /\ h.n = n /\ h.ends = e
            /\ count' = [count EXCEPT ![r] = n] /\ ttl' = [ttl EXCEPT ![r] = e - now]
        BY <1>1, <1>2, <3>0, ScriptRuns DEF Run
      <3>2. /\ count'[r] = n /\ ttl'[r] = e - now
            /\ \A x \in Reqs \ {r} : count'[x] = count[x] /\ ttl'[x] = ttl[x]
        BY <3>1 DEF LimiterOK, TypeOK
      <3>3. now \in Nat /\ e \in Nat
        BY <3>0, <3>1, RunIsNext, HitTypes
      <3>4. ReplyOK(r)'
        <4>1. h \in hits' /\ h.ends = h.at + ttl'[r] /\ h.n = count'[r]
          BY <3>1, <3>2, <3>3
        <4>2. ASSUME NEW g \in hits', g.by = r
              PROVE  g.ends <= h.ends
          <5>1. CASE g = h
            BY <3>1, <3>3, <5>1
          <5>2. CASE g # h
            <6>1. g \in Of(i)
              BY <3>0, <3>1, <4>2, <5>2 DEF Of
            <6>2. g.ends = e \/ g.ends + WINDOW < e
              BY <3>0, <3>1, <6>1, RunIsNext
            <6> QED
              BY <3>1, <3>3, <6>1, <6>2, HitTypes, Limits DEF Of
          <5> QED
            BY <5>1, <5>2
        <4> QED
          BY <1>2, <2>1, <3>1, <4>1, <4>2 DEF ReplyOK
      <3>5. ASSUME NEW x \in Reqs \ {r}
            PROVE  ReplyOK(x)'
        <4>1. ReplyOK(x) /\ hits \subseteq hits'
              /\ \A g \in hits' : g.by = x => g \in hits
          BY <3>1 DEF LimiterOK, RepliesOK
        <4> QED
          BY <1>1, <2>1, <3>2, <4>1 DEF ReplyOK
      <3> QED
        BY <3>4, <3>5 DEF RepliesOK
    <2> QED
      BY <2>4, <2>5, <2>6 DEF LimiterOK
  <1>3. CASE Goto(r, "failopen") /\ UNCHANGED <<current, expires, count, ttl, hits>>
    <2>1. /\ pc' \in [Reqs -> {"eval", "reply", "next", "failopen", "429"}]
          /\ pc'[r] = "failopen" /\ \A x \in Reqs \ {r} : pc'[x] = pc[x]
      BY <1>1, <1>3 DEF Goto
    <2>2. TypeOK'
      BY <1>1, <1>3, <2>1 DEF LimiterOK, TypeOK
    <2>3. WindowsOK' /\ HitsOK'
      BY <1>1, <1>3, SameHits DEF LimiterOK
    <2>4. RepliesOK'
      BY <1>1, <1>3, <2>1 DEF LimiterOK, RepliesOK, ReplyOK
    <2>5. BoundOK'
      <3>1. Sent' = Sent \cup {r} /\ r \notin Sent
        BY <1>1, <2>1 DEF Sent
      <3>2. Cardinality(Sent') = Cardinality(Sent) + 1
        BY <3>1, SentIsFinite, FS_AddElement
      <3>3. Cardinality(hits) \in Nat /\ Cardinality(Sent) \in Nat /\ MaxHits \in Nat
        BY HitTypes, FS_CardinalityType, SentIsFinite, Limits
      <3> QED
        BY <1>3, <3>2, <3>3 DEF LimiterOK, BoundOK
    <2> QED
      BY <2>2, <2>3, <2>4, <2>5 DEF LimiterOK
  <1>4. pc' = [pc EXCEPT ![r] = "eval"] \/ ~UNCHANGED pc
    BY <1>1
  <1> QED
    BY <1>2, <1>3, <1>4 DEF Eval, Goto

LEMMA JudgeStep ==
  ASSUME LimiterOK, NEW r \in Reqs, Judge(r)
  PROVE  LimiterOK'
  <1>1. /\ UNCHANGED <<now, current, expires, id, count, ttl, hits>> /\ pc[r] = "reply"
        /\ pc \in [Reqs -> {"eval", "reply", "next", "failopen", "429"}]
        /\ retryAt \in [Reqs -> Nat]
    BY DEF Judge, LimiterOK, TypeOK
  <1>2. PICK h \in hits : /\ h.by = r /\ h.n = count[r] /\ h.ends = h.at + ttl[r]
                          /\ \A g \in hits : g.by = r => g.ends <= h.ends
    BY <1>1 DEF LimiterOK, RepliesOK, ReplyOK
  <1>3. /\ h.at \in Nat /\ h.ends \in Nat /\ h.at <= now /\ now \in Nat
        /\ ttl[r] \in Nat /\ count[r] \in Nat
    BY <1>2, HitTypes, Limits, SentIsFinite DEF LimiterOK, HitsOK, HitOK, TypeOK
  <1>4. WindowsOK' /\ HitsOK'
    BY <1>1, SameHits DEF LimiterOK
  <1>5. ASSUME NEW step \in {"next", "429"}, pc' = [pc EXCEPT ![r] = step],
               retryAt' \in [Reqs -> Nat], \A x \in Reqs \ {r} : retryAt'[x] = retryAt[x],
               step = "next" => count[r] <= TierMax(id[r]),
               step = "429" => count[r] > TierMax(id[r]) /\ h.ends <= retryAt'[r]
        PROVE  LimiterOK'
    <2>1. /\ pc' \in [Reqs -> {"eval", "reply", "next", "failopen", "429"}]
          /\ pc'[r] = step /\ \A x \in Reqs \ {r} : pc'[x] = pc[x]
      BY <1>1, <1>5
    <2>2. TypeOK'
      BY <1>1, <1>5, <2>1 DEF LimiterOK, TypeOK
    <2>3. ReplyOK(r)'
      BY <1>1, <1>2, <1>5, <2>1 DEF ReplyOK
    <2>4. ASSUME NEW x \in Reqs \ {r}
          PROVE  ReplyOK(x)'
      BY <1>1, <1>5, <2>1 DEF LimiterOK, RepliesOK, ReplyOK
    <2>5. BoundOK'
      <3>1. Sent' = Sent
        BY <1>1, <2>1 DEF Sent
      <3> QED
        BY <1>1, <3>1 DEF LimiterOK, BoundOK
    <2> QED
      BY <1>4, <2>2, <2>3, <2>4, <2>5 DEF LimiterOK, RepliesOK
  <1>6. CASE OverLimit(r)
    <2>1. pc' = [pc EXCEPT ![r] = "429"]
          /\ retryAt' = [retryAt EXCEPT ![r] = now + ResetSec(ttl[r]) * SECOND]
      BY <1>6 DEF Judge, Goto
    <2>2. PICK w : w = ResetSec(ttl[r]) * SECOND
      OBVIOUS
    <2>3. w \in Nat /\ w >= ttl[r]
      <3>1. ResetSec(ttl[r]) \in Nat /\ SECOND \in Nat
        BY <1>3, ResetSecRoundsUp, Limits
      <3>2. ResetSec(ttl[r]) * SECOND >= ttl[r]
        BY <1>3, ResetSecRoundsUp
      <3> QED
        BY <2>2, <3>1, <3>2
    <2>4. /\ retryAt' = [retryAt EXCEPT ![r] = now + w]
          /\ now + w \in Nat /\ h.ends <= now + w
      BY <1>2, <1>3, <2>1, <2>2, <2>3
    <2>5. /\ retryAt' \in [Reqs -> Nat] /\ retryAt'[r] = now + w
          /\ \A x \in Reqs \ {r} : retryAt'[x] = retryAt[x]
      BY <1>1, <2>4
    <2> QED
      BY <1>5, <1>6, <2>1, <2>4, <2>5 DEF OverLimit
  <1>7. CASE ~OverLimit(r)
    <2>1. pc' = [pc EXCEPT ![r] = "next"] /\ UNCHANGED retryAt
      BY <1>7 DEF Judge, Goto
    <2>2. count[r] <= TierMax(id[r])
      BY <1>3, <1>7, Limits DEF OverLimit
    <2> QED
      BY <1>1, <1>5, <2>1, <2>2
  <1> QED
    BY <1>6, <1>7

LEMMA TickStep ==
  ASSUME LimiterOK, UNCHANGED <<current, expires, pc, id, count, ttl, retryAt, hits>>,
         now' \in 0 .. MaxTime, now' >= now
  PROVE  LimiterOK'
  <1>1. TypeOK'
    BY DEF LimiterOK, TypeOK
  <1>2. WindowsOK' /\ RepliesOK' /\ BoundOK'
    BY DEF LimiterOK, WindowsOK, WindowOK, Of, Window, RepliesOK, ReplyOK, BoundOK, Sent
  <1>3. HitsOK'
    <2>1. ASSUME NEW h \in hits
          PROVE  HitOK(h)'
      <3>1. h.at \in Nat /\ h.at <= now /\ now \in Nat /\ now' \in Nat
        BY HitTypes, Limits DEF LimiterOK, HitsOK, HitOK
      <3>2. h.at <= now'
        BY <3>1
      <3> QED
        BY <3>2 DEF LimiterOK, HitsOK, HitOK, Before
    <2> QED
      BY <2>1 DEF LimiterOK, HitsOK, PairOK
  <1> QED
    BY <1>1, <1>2, <1>3 DEF LimiterOK

LEMMA LimiterBegins == Init => LimiterOK
  <1> SUFFICES ASSUME Init PROVE LimiterOK
    OBVIOUS
  <1>1. MaxHits + Cardinality(Reqs) \in Nat /\ MaxTime \in Nat /\ WINDOW \in Nat
    BY Limits, SentIsFinite
  <1>2. TypeOK
    BY <1>1 DEF Init, TypeOK
  <1>3. HitsOK /\ RepliesOK
    BY DEF Init, HitsOK, RepliesOK, ReplyOK
  <1>4. WindowsOK
    <2>1. ASSUME NEW i \in Ids
          PROVE  WindowOK(i)
      <3>1. Of(i) = {} /\ Window(i, expires[i]) = {}
        BY DEF Init, Of, Window
      <3> QED
        BY <3>1, FS_EmptySet DEF Init, WindowOK
    <2> QED
      BY <2>1 DEF WindowsOK
  <1>5. BoundOK
    BY <1>1, FS_EmptySet, SentIsFinite, Limits DEF Init, BoundOK
  <1> QED
    BY <1>2, <1>3, <1>4, <1>5 DEF LimiterOK

THEOREM LimiterInvariant == Spec => []LimiterOK
  <1>1. LimiterOK /\ [Next]_vars => LimiterOK'
    <2> SUFFICES ASSUME LimiterOK, [Next]_vars PROVE LimiterOK'
      OBVIOUS
    <2>1. now \in 0 .. MaxTime /\ MaxTime \in Nat
      BY Limits DEF LimiterOK, TypeOK
    <2>2. CASE Tick
      BY <2>1, <2>2, TickStep DEF Tick
    <2>3. CASE UNCHANGED vars
      BY <2>1, <2>3, TickStep DEF vars
    <2> QED
      BY <2>2, <2>3, EvalStep, JudgeStep DEF Next
  <1> QED
    BY <1>1, LimiterBegins, PTL DEF Spec

-----------------------------------------------------------------------------
(* The theorems *)

(* Types, and the clock of the reply: PTTL is never longer than the window, *)
(* and the counter never runs ahead of the scripts that ran.                *)
THEOREM LimiterTypes == Spec => []TypeOK
  <1>1. LimiterOK => TypeOK
    BY DEF LimiterOK
  <1> QED
    BY <1>1, LimiterInvariant, PTL

(* The key's expiry is set by the first hit of its window and by no other   *)
(* (rateLimiter.middleware.ts, RATE_LIMIT_SCRIPT), whatever scripts race.   *)
THEOREM NoHitProlongsAWindow == Spec => []WindowsEnd
  <1>1. LimiterOK => WindowsEnd
    BY HitTypes DEF LimiterOK, WindowsOK, WindowOK, WindowsEnd, Live, Of
  <1> QED
    BY <1>1, LimiterInvariant, PTL

(* Retry-After is rounded up from a PTTL that is older than the answer: who *)
(* waits for longer is never counted in a window that refused it again, for *)
(* every window, resolution of the clock, and delay of the reply.           *)
THEOREM RetryAfterIsEnough == Spec => []WaitingEndsTheWindow
  <1>1. LimiterOK => WaitingEndsTheWindow
    <2> SUFFICES ASSUME LimiterOK, NEW r \in Reqs, pc[r] = "429",
                        NEW h \in hits, NEW g \in hits,
                        h.by = r, g.at > retryAt[r]
                 PROVE  g.ends # h.ends
      BY DEF WaitingEndsTheWindow
    <2>1. PICK f \in hits : f.ends <= retryAt[r] /\ h.ends <= f.ends
      BY DEF LimiterOK, RepliesOK, ReplyOK
    <2>2. g.at <= g.ends
      BY DEF LimiterOK, HitsOK, HitOK
    <2>3. retryAt[r] \in Nat
      BY DEF LimiterOK, TypeOK
    <2> QED
      BY <2>1, <2>2, <2>3, HitTypes
  <1> QED
    BY <1>1, LimiterInvariant, PTL

(* The runs before a run are as many as the requests they were made for,    *)
(* and those that were made again.                                          *)
LEMMA RunsAreOfRequests ==
  ASSUME LimiterOK, NEW h \in hits
  PROVE  Cardinality(Before(h)) <=
           Cardinality({g.by : g \in Before(h)} \ {h.by}) + Cardinality(RunAgain(h))
  <1> DEFINE B == Before(h)
             A == RunAgain(h)
             last == B \ A
             others == {g.by : g \in B} \ {h.by}
             by == [g \in last |-> g.by]
  <1>1. /\ B \subseteq hits /\ A \subseteq B /\ others \subseteq Reqs
        /\ \A g \in B : /\ id[g.by] = id[h.by] /\ g.ends = h.ends
                        /\ g.n \in Nat /\ g.n < h.n
    BY HitTypes DEF Before, RunAgain
  <1>2. \A g \in B : g \in A <=> \E f \in B \cup {h} : f.by = g.by /\ g.n < f.n
    BY DEF RunAgain
  <1>3. /\ IsFiniteSet(B) /\ IsFiniteSet(A) /\ IsFiniteSet(others)
        /\ Cardinality(B) \in Nat /\ Cardinality(A) \in Nat
        /\ Cardinality(others) \in Nat
    BY <1>1, HitTypes, SentIsFinite, FS_Subset, FS_CardinalityType
  <1>4. \A f, g \in B : f.by = g.by /\ f.n = g.n => f = g
    BY <1>1 DEF LimiterOK, HitsOK, PairOK
  <1> HIDE DEF B, A
  <1>5. by \in Injection(last, others)
    <2>1. ASSUME NEW g \in last
          PROVE  g.by \in others
      BY <1>1, <1>2
    <2>2. ASSUME NEW f \in last, NEW g \in last, f.by = g.by
          PROVE  f = g
      <3>1. ~(f.n < g.n) /\ ~(g.n < f.n)
        BY <1>2, <2>2
      <3> QED
        BY <1>1, <1>4, <2>2, <3>1
    <2> QED
      BY <2>1, <2>2 DEF Injection, IsInjective
  <1>6. Cardinality(last) <= Cardinality(others)
    BY <1>3, <1>5, FS_Injection
  <1>7. Cardinality(last) = Cardinality(B) - Cardinality(A)
    <2>1. B \cap A = A
      BY <1>1
    <2> QED
      BY <1>3, <2>1, FS_Difference
  <1>8. Cardinality(B) <= Cardinality(others) + Cardinality(A)
    BY <1>3, <1>6, <1>7
  <1> QED
    BY <1>8 DEF A, B

(* Nobody is refused for another caller's requests, or for those of an      *)
(* earlier window: as many other requests of its own as the limit were      *)
(* counted before in the window that refuses it, but for one fewer per      *)
(* script that ran again.                                                   *)
THEOREM OnlyOwnRequestsCount == Spec => []RefusedForItsOwnRequests
  <1>1. LimiterOK => RefusedForItsOwnRequests
    <2> SUFFICES ASSUME LimiterOK, NEW r \in Reqs, pc[r] = "429"
                 PROVE  \E h \in hits :
                          /\ h.by = r /\ h.n = count[r]
                          /\ Cardinality({g.by : g \in Before(h)} \ {r})
                               + Cardinality(RunAgain(h)) >= TierMax(id[r])
      BY DEF RefusedForItsOwnRequests
    <2>1. PICK h \in hits : h.by = r /\ h.n = count[r]
      BY DEF LimiterOK, RepliesOK, ReplyOK
    <2>2. count[r] > TierMax(id[r]) /\ Cardinality(Before(h)) >= h.n - 1
      BY DEF LimiterOK, RepliesOK, ReplyOK, HitsOK, HitOK
    <2>3. PICK others, repeats :
            /\ others = Cardinality({g.by : g \in Before(h)} \ {r})
            /\ repeats = Cardinality(RunAgain(h))
      OBVIOUS
    <2>4. /\ h.n \in Nat /\ TierMax(id[r]) \in Nat /\ Cardinality(Before(h)) \in Nat
          /\ others \in Nat /\ repeats \in Nat
      <3>1. /\ Before(h) \subseteq hits /\ RunAgain(h) \subseteq hits
            /\ {g.by : g \in Before(h)} \ {r} \subseteq Reqs
        BY HitTypes DEF Before, RunAgain
      <3> QED
        BY <2>3, <3>1, HitTypes, Limits, SentIsFinite, FS_Subset, FS_CardinalityType
    <2>5. Cardinality(Before(h)) <= others + repeats
      BY <2>1, <2>3, RunsAreOfRequests
    <2>6. others + repeats >= TierMax(id[r])
      BY <2>1, <2>2, <2>4, <2>5
    <2> QED
      BY <2>1, <2>3, <2>6
  <1> QED
    BY <1>1, LimiterInvariant, PTL

(* A span of WINDOW ticks meets at most two windows of a caller, and when   *)
(* it meets two, the hit that began the first one was before it. So the     *)
(* runs in the span that let a request through have different places among  *)
(* the less than twice as many that there are.                              *)
Spanned(i, t) ==
  {r \in Reqs : /\ pc[r] = "next" /\ id[r] = i
                /\ \E h \in hits : /\ h.by = r /\ h.n = count[r]
                                   /\ h.at \in t .. t + WINDOW - 1}

Spans(h, r, t) == h.by = r /\ h.n = count[r] /\ h.at \in t .. t + WINDOW - 1

Place(h, t, max) == IF h.ends < t + WINDOW THEN h.n - 1 ELSE max - 1 + h.n

LEMMA PlacesDiffer ==
  ASSUME LimiterOK, NEW t \in Nat, NEW max \in Nat, NEW g \in hits, NEW h \in hits,
         id[g.by] = id[h.by], g.n <= max, h.n <= max,
         g.at \in t .. t + WINDOW - 1, h.at \in t .. t + WINDOW - 1
  PROVE  /\ Place(h, t, max) \in 1 .. (2 * max - 1)
         /\ Place(g, t, max) = Place(h, t, max) => g = h
  <1>1. /\ WINDOW \in Nat /\ WINDOW > 0
        /\ g.at \in Nat /\ g.n \in Nat /\ g.n > 0 /\ g.ends \in Nat
        /\ h.at \in Nat /\ h.n \in Nat /\ h.n > 0 /\ h.ends \in Nat
    BY HitTypes, Limits
  <1>2. HitOK(g) /\ HitOK(h) /\ PairOK(g, h) /\ PairOK(h, g)
    BY DEF LimiterOK, HitsOK
  <1>3. Place(h, t, max) \in 1 .. (2 * max - 1)
    <2>1. CASE h.ends < t + WINDOW
      <3>1. h.n # 1
        BY <1>1, <1>2, <2>1 DEF HitOK
      <3> QED
        BY <1>1, <2>1, <3>1 DEF Place
    <2>2. CASE ~(h.ends < t + WINDOW)
      BY <1>1, <2>2 DEF Place
    <2> QED
      BY <2>1, <2>2
  <1>4. ASSUME Place(g, t, max) = Place(h, t, max)
        PROVE  g = h
    <2>1. (g.ends < t + WINDOW) = (h.ends < t + WINDOW)
      BY <1>1, <1>4 DEF Place
    <2>2. g.n = h.n
      BY <1>1, <1>4, <2>1 DEF Place
    <2>3. g.ends = h.ends
      <3>1. /\ g.at <= g.ends /\ g.ends <= g.at + WINDOW
            /\ h.at <= h.ends /\ h.ends <= h.at + WINDOW
            /\ g.ends < h.ends => g.ends + WINDOW < h.ends
            /\ h.ends < g.ends => h.ends + WINDOW < g.ends
        BY <1>2 DEF HitOK, PairOK
      <3> QED
        BY <1>1, <2>1, <3>1
    <2> QED
      BY <1>2, <2>2, <2>3 DEF PairOK
  <1> QED
    BY <1>3, <1>4

(* The price of fixed windows: for every caller, limit and window, and any  *)
(* interleaving of requests and replies, less than twice the limit gets     *)
(* through in the time of a window, and no more.                            *)
THEOREM LessThanTwice == Spec => []LessThanTwiceTheLimit
  <1>1. LimiterOK => LessThanTwiceTheLimit
    <2> SUFFICES ASSUME LimiterOK, NEW i \in Ids, NEW t \in 0 .. MaxTime
                 PROVE  Cardinality(Spanned(i, t)) < 2 * TierMax(i)
      BY DEF LessThanTwiceTheLimit, Spanned
    <2>1. PICK max : max = TierMax(i)
      OBVIOUS
    <2>2. max \in Nat /\ max > 0 /\ t \in Nat
      BY <2>1, Limits
    <2>3. ASSUME NEW r \in Spanned(i, t)
          PROVE  \E h \in hits : Spans(h, r, t)
      BY DEF Spanned, Spans
    <2> DEFINE own(r) == CHOOSE h \in hits : Spans(h, r, t)
               place == [r \in Spanned(i, t) |-> Place(own(r), t, max)]
    <2>4. ASSUME NEW r \in Spanned(i, t)
          PROVE  own(r) \in hits /\ Spans(own(r), r, t)
      BY <2>3
    <2> HIDE DEF own
    <2>5. ASSUME NEW r \in Spanned(i, t)
          PROVE  /\ own(r) \in hits /\ own(r).by = r /\ id[own(r).by] = i
                 /\ own(r).n <= max /\ own(r).at \in t .. t + WINDOW - 1
      <3>1. r \in Reqs /\ pc[r] = "next" /\ id[r] = i
        BY DEF Spanned
      <3>2. count[r] <= max
        BY <2>1, <3>1 DEF LimiterOK, RepliesOK, ReplyOK
      <3> QED
        BY <2>4, <3>1, <3>2 DEF Spans
    <2>6. ASSUME NEW r \in Spanned(i, t), NEW x \in Spanned(i, t)
          PROVE  /\ place[r] \in 1 .. (2 * max - 1)
                 /\ place[r] = place[x] => r = x
      <3>1. /\ Place(own(r), t, max) \in 1 .. (2 * max - 1)
            /\ Place(own(x), t, max) = Place(own(r), t, max) => own(x) = own(r)
        BY <2>2, <2>5, PlacesDiffer
      <3> QED
        BY <2>5, <3>1
    <2>7. IsFiniteSet(Spanned(i, t)) /\ Cardinality(Spanned(i, t)) \in Nat
      <3>1. Spanned(i, t) \subseteq Reqs /\ IsFiniteSet(Reqs)
        BY DEF Spanned
      <3> QED
        BY <3>1, FS_Subset, FS_CardinalityType
    <2>8. PICK T : T = 1 .. (2 * max - 1)
      OBVIOUS
    <2>9. IsFiniteSet(T) /\ Cardinality(T) = 2 * max - 1
      <3>1. PICK top \in Int : top = 2 * max - 1 /\ top > 0
        BY <2>2
      <3>2. IsFiniteSet(1 .. top) /\ Cardinality(1 .. top) = top
        BY <3>1, FS_Interval
      <3> QED
        BY <2>8, <3>1, <3>2
    <2>10. place \in [Spanned(i, t) -> T]
      BY <2>6, <2>8
    <2> HIDE DEF place
    <2>11. ~(Cardinality(T) < Cardinality(Spanned(i, t)))
      <3> SUFFICES ASSUME Cardinality(T) < Cardinality(Spanned(i, t))
                   PROVE  FALSE
        OBVIOUS
      <3>1. PICK S : S = Spanned(i, t)
        OBVIOUS
      <3>2. \E x, y \in S : x # y /\ place[x] = place[y]
        BY <2>7, <2>9, <2>10, <3>1, FS_PigeonHole
      <3> QED
        BY <2>6, <3>1, <3>2
    <2> QED
      BY <2>1, <2>2, <2>7, <2>9, <2>11
  <1> QED
    BY <1>1, LimiterInvariant, PTL

=============================================================================
