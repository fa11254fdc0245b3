--------------------------- MODULE LinksPageProofs ---------------------------
(***************************************************************************)
(* Proofs about LinksPage, for every finite set of links, every page size   *)
(* and any number of changes and failures.                                  *)
(*                                                                         *)
(* TypeOK is inductive: that no page beyond the last one comes on the       *)
(* screen rests on the total of a page being at most the number of links.   *)
(* FreshPagesAreCurrent is not: PagesOK says in addition what a fetch under *)
(* way has read.                                                            *)
(***************************************************************************)
EXTENDS LinksPage, FiniteSetTheorems, SequenceTheorems, TLAPS

USE PageAssumption

-----------------------------------------------------------------------------
(* The sequences of the table *)

IsListing(s) ==
  s \in Seq(Links) /\ \A i, j \in 1 .. Len(s) : s[i] = s[j] => i = j

(* No more links fit in the table than there are.                           *)
LEMMA NewestIs == \A s : s \in Newest <=> IsListing(s)
  <1>1. ASSUME NEW s, IsListing(s)
        PROVE  s \in Newest
    <2>1. s \in [1 .. Len(s) -> Links] /\ Len(s) \in Nat
      BY <1>1 DEF IsListing
    <2>2. s \in Injection(1 .. Len(s), Links)
      BY <1>1, <2>1 DEF IsListing, Injection, IsInjective
    <2>3. Cardinality(1 .. Len(s)) <= Cardinality(Links)
      BY <2>2, FS_Injection
    <2>4. Cardinality(1 .. Len(s)) = Len(s)
      <3>1. 1 \in Int /\ Len(s) \in Int
        BY <2>1
      <3>2. Cardinality(1 .. Len(s)) = IF 1 > Len(s) THEN 0 ELSE Len(s) - 1 + 1
        BY <3>1, FS_Interval, Zenon
      <3> QED
        BY <2>1, <3>2
    <2>5. Cardinality(Links) \in Nat
      BY FS_CardinalityType
    <2>6. Len(s) \in 0 .. Cardinality(Links)
      BY <2>1, <2>3, <2>4, <2>5
    <2> QED
      BY <1>1, <2>1, <2>6 DEF Newest, IsListing
  <1>2. ASSUME NEW s, s \in Newest
        PROVE  IsListing(s)
    <2>1. PICK n \in 0 .. Cardinality(Links) : s \in [1 .. n -> Links]
      BY <1>2 DEF Newest
    <2>2. n \in Nat
      BY <2>1, FS_CardinalityType
    <2>3. s \in Seq(Links) /\ Len(s) = n
      BY <2>1, <2>2
    <2> QED
      BY <1>2, <2>1, <2>3 DEF Newest, IsListing
  <1> QED
    BY <1>1, <1>2

LEMMA ListingLength ==
  ASSUME NEW s \in Newest
  PROVE  Len(s) \in 0 .. Cardinality(Links)
  <1>1. PICK n \in 0 .. Cardinality(Links) : s \in [1 .. n -> Links]
    BY DEF Newest
  <1>2. n \in Nat
    BY <1>1, FS_CardinalityType
  <1> QED
    BY <1>1, <1>2

LEMMA EmptyListing == <<>> \in Newest
  <1>1. <<>> \in Seq(Links) /\ Len(<<>>) = 0
    OBVIOUS
  <1>2. IsListing(<<>>)
    BY <1>1 DEF IsListing
  <1> QED
    BY <1>2, NewestIs

LEMMA SliceIsListing ==
  ASSUME urls \in Newest, NEW p \in Pages
  PROVE  Slice(p) \in Newest
  <1>1. IsListing(urls)
    BY NewestIs
  <1> DEFINE from == (p - 1) * PAGE_SIZE + 1
             to == IF p * PAGE_SIZE < Len(urls) THEN p * PAGE_SIZE ELSE Len(urls)
  <1>2. from \in Nat \ {0} /\ to \in Nat /\ to <= Len(urls)
    <2>1. p \in Nat \ {0}
      BY FS_CardinalityType DEF Pages
    <2> QED
      BY <1>1, <2>1 DEF IsListing
  <1>3. Slice(p) = SubSeq(urls, from, to)
    BY DEF Slice
  <1> HIDE DEF from, to
  <1>4. IsListing(SubSeq(urls, from, to))
    BY <1>1, <1>2 DEF IsListing
  <1> QED
    BY <1>3, <1>4, NewestIs

LEMMA InsertedIsListing ==
  ASSUME urls \in Newest, NEW l \in Links, l \notin Members(urls)
  PROVE  Inserted(l) \in Newest
  <1>1. IsListing(urls)
    BY NewestIs
  <1>2. \A i \in 1 .. Len(urls) : urls[i] # l
    BY <1>1 DEF Members, IsListing
  <1>3. IsListing(<<l>> \o urls)
    BY <1>1, <1>2 DEF IsListing
  <1> QED
    BY <1>3, NewestIs DEF Inserted

LEMMA RemovedIsListing ==
  ASSUME urls \in Newest, NEW l \in Members(urls)
  PROVE  Removed(l) \in Newest
  <1>1. IsListing(urls)
    BY NewestIs
  <1>2. PICK i \in 1 .. Len(urls) : urls[i] = l
    BY <1>1 DEF Members, IsListing
  <1> DEFINE at == SelectInSeq(urls, LAMBDA v : v = l)
  <1>3. {j \in 1 .. Len(urls) : urls[j] = l} = {i}
    BY <1>1, <1>2 DEF IsListing
  <1>4. Min({i}) = i
    BY DEF Min
  <1>5. at = i
    BY <1>3, <1>4 DEF SelectInSeq
  <1>6. RemoveFirst(urls, l) = RemoveAt(urls, at)
    BY <1>2 DEF RemoveFirst
  <1> HIDE DEF at
  <1>7. Removed(l) = SubSeq(urls, 1, i - 1) \o SubSeq(urls, i + 1, Len(urls))
    BY <1>5, <1>6 DEF Removed, RemoveAt
  <1>8. IsListing(SubSeq(urls, 1, i - 1) \o SubSeq(urls, i + 1, Len(urls)))
    <2> DEFINE n == Len(urls)
               before == SubSeq(urls, 1, i - 1)
               after == SubSeq(urls, i + 1, n)
    <2>1. n \in Nat /\ i \in 1 .. n /\ urls \in Seq(Links)
      BY <1>1 DEF IsListing
    <2>2. /\ before \in Seq(Links) /\ Len(before) = i - 1
          /\ \A j \in 1 .. i - 1 : before[j] = urls[j]
      BY <2>1
    <2>3. /\ after \in Seq(Links) /\ Len(after) = n - i
          /\ \A j \in 1 .. n - i : after[j] = urls[i + j]
      BY <2>1
    <2> HIDE DEF before, after
    <2>4. /\ before \o after \in Seq(Links) /\ Len(before \o after) = n - 1
      <3>1. before \in Seq(Links) /\ after \in Seq(Links)
        BY <2>2, <2>3
      <3>2. /\ before \o after \in Seq(Links)
            /\ Len(before \o after) = Len(before) + Len(after)
        BY <3>1, ConcatProperties
      <3> QED
        BY <2>1, <2>2, <2>3, <3>2
    <2>5. ASSUME NEW j \in 1 .. n - 1
          PROVE  (before \o after)[j] = urls[IF j < i THEN j ELSE j + 1]
      <3>1. CASE j < i
        <4>1. j \in 1 .. i - 1
          BY <2>1, <3>1
        <4> QED
          BY <2>2, <2>3, <3>1, <4>1
      <3>2. CASE ~(j < i)
        <4>1. j - (i - 1) \in 1 .. n - i /\ i + (j - (i - 1)) = j + 1
          BY <2>1, <3>2
        <4>2. (before \o after)[j] = after[j - (i - 1)]
          BY <2>1, <2>2, <2>3, <3>2
        <4>3. after[j - (i - 1)] = urls[i + (j - (i - 1))]
          BY <2>3, <4>1
        <4> QED
          BY <3>2, <4>1, <4>2, <4>3
      <3> QED
        BY <3>1, <3>2
    <2>6. ASSUME NEW j \in 1 .. n - 1, NEW k \in 1 .. n - 1,
                 (before \o after)[j] = (before \o after)[k]
          PROVE  j = k
      <3> DEFINE skip(x) == IF x < i THEN x ELSE x + 1
      <3>1. skip(j) \in 1 .. n /\ skip(k) \in 1 .. n
        BY <2>1
      <3>2. urls[skip(j)] = urls[skip(k)]
        BY <2>5, <2>6
      <3>3. skip(j) = skip(k)
        BY <1>1, <3>1, <3>2 DEF IsListing
      <3> QED
        BY <2>1, <3>3
    <2>7. IsListing(before \o after)
      BY <2>4, <2>6 DEF IsListing
    <2> QED
      BY <2>7 DEF before, after
  <1> QED
    BY <1>7, <1>8, NewestIs

-----------------------------------------------------------------------------
(* The number of pages *)

LEMMA DivGrows ==
  ASSUME NEW a \in Nat, NEW c \in Nat, NEW b \in Nat \ {0}, a <= c
  PROVE  a \div b \in Nat /\ a \div b <= c \div b
  OBVIOUS

LEMMA FirstPage == 1 \in Pages
  <1>1. Cardinality(Links) \in Nat \ {0}
    BY FS_CardinalityType, FS_EmptySet
  <1>2. PAGE_SIZE <= Cardinality(Links) + PAGE_SIZE - 1
    BY <1>1
  <1>3. PAGE_SIZE \div PAGE_SIZE = 1
    OBVIOUS
  <1> QED
    BY <1>1, <1>2, <1>3, DivGrows DEF Pages

(* Next leads to no page that no number of links could fill.                *)
LEMMA NextPage ==
  ASSUME NEW d \in Data, NEW n \in Pages, n < TotalPages(d)
  PROVE  n + 1 \in Pages
  <1>1. Cardinality(Links) \in Nat /\ d.total \in 0 .. Cardinality(Links)
    BY FS_CardinalityType DEF Data
  <1>2. n \in Nat \ {0}
    BY <1>1 DEF Pages
  <1>3. d.total # 0
    BY <1>2 DEF TotalPages
  <1>4. TotalPages(d) <= (Cardinality(Links) + PAGE_SIZE - 1) \div PAGE_SIZE
    <2>1. /\ d.total + PAGE_SIZE - 1 \in Nat
          /\ Cardinality(Links) + PAGE_SIZE - 1 \in Nat
          /\ d.total + PAGE_SIZE - 1 <= Cardinality(Links) + PAGE_SIZE - 1
      BY <1>1
    <2>2. TotalPages(d) = (d.total + PAGE_SIZE - 1) \div PAGE_SIZE
      BY <1>3 DEF TotalPages
    <2> QED
      BY <2>1, <2>2, DivGrows
  <1>5. TotalPages(d) \in Nat
    BY <1>1, <1>3, DivGrows DEF TotalPages
  <1>6. (Cardinality(Links) + PAGE_SIZE - 1) \div PAGE_SIZE \in Nat
    BY <1>1, DivGrows
  <1> QED
    BY <1>2, <1>4, <1>5, <1>6 DEF Pages

-----------------------------------------------------------------------------
(* The queries of the cache *)

Query == [data : Data \cup {Null}, fresh : BOOLEAN, failed : BOOLEAN, rows : Newest,
          at : {"idle", "rows", "count", "reply"}, count : 0 .. Cardinality(Links)]

LEMMA NoFetchIs == NoFetch \in Query /\ ~NoFetch.fresh /\ NoFetch.at = "idle"
  <1>1. 0 \in 0 .. Cardinality(Links)
    BY FS_CardinalityType
  <1> QED
    BY <1>1, EmptyListing DEF NoFetch, Query

LEMMA BegunIs ==
  ASSUME NEW q \in Query
  PROVE  /\ Begun(q) \in Query
         /\ Begun(q).at = "rows" /\ Begun(q).fresh = q.fresh /\ Begun(q).data = q.data
  <1>1. 0 \in 0 .. Cardinality(Links)
    BY FS_CardinalityType
  <1> QED
    BY <1>1, EmptyListing DEF Begun, Query

LEMMA ObservedIs ==
  ASSUME NEW q \in Query
  PROVE  /\ Observed(q) \in Query
         /\ Observed(q) = q \/ /\ q.at = "idle" /\ ~q.fresh
                               /\ Observed(q).at = "rows" /\ ~Observed(q).fresh
  BY BegunIs DEF Observed

(* What an invalidation makes of a query. *)
LEMMA InvalidatedIs ==
  ASSUME query \in [Pages -> Query]
  PROVE  /\ Invalidated(query) \in [Pages -> Query]
         /\ \A p \in Pages :
              /\ ~Invalidated(query)[p].fresh
              /\ \/ Invalidated(query)[p].at = "rows"
                 \/ /\ Invalidated(query)[p].at = query[p].at
                    /\ OnScreen(p) => /\ query[p].data = Null
                                      /\ query[p].at # "idle"
  <1> DEFINE Stale(p) == [query[p] EXCEPT !.fresh = FALSE]
  <1>1. ASSUME NEW p \in Pages
        PROVE  /\ Stale(p) \in Query /\ ~Stale(p).fresh
               /\ Stale(p).at = query[p].at /\ Stale(p).data = query[p].data
    BY DEF Query
  <1>2. Invalidated(query) =
          [p \in Pages |-> IF OnScreen(p) THEN Refetched(Stale(p)) ELSE Stale(p)]
    BY DEF Invalidated
  <1> HIDE DEF Stale
  <1>3. ASSUME NEW p \in Pages
        PROVE  /\ Refetched(Stale(p)) \in Query /\ ~Refetched(Stale(p)).fresh
               /\ \/ Refetched(Stale(p)).at = "rows"
                  \/ /\ Refetched(Stale(p)).at = query[p].at
                     /\ query[p].data = Null /\ query[p].at # "idle"
    BY <1>1, BegunIs DEF Refetched
  <1> QED
    BY <1>1, <1>2, <1>3

-----------------------------------------------------------------------------
(* Types *)

LEMMA TypesAre == TypeOK => query \in [Pages -> Query]
  BY DEF TypeOK, Query

LEMMA ShownIs ==
  ASSUME TypeOK
  PROVE  Shown \in Data \cup {Null}
  BY TypesAre DEF TypeOK, Shown, Query

LEMMA EventIs ==
  ASSUME TypeOK, Event
  PROVE  events' \in 0 .. MaxEvents
  BY DEF TypeOK, Event

LEMMA FetchTypes ==
  ASSUME TypeOK, NEW p \in Pages,
         FindMany(p) \/ Count(p) \/ Receive(p) \/ Fail(p) \/ Age(p) \/ Collect(p)
  PROVE  TypeOK'
  <1>1. query \in [Pages -> Query]
    BY TypesAre
  <1>2. UNCHANGED <<urls, route, page, prev, mutation>>
    BY DEF FindMany, Count, Receive, Fail, Age, Collect
  <1>3. overlooked' \subseteq Pages
    BY DEF TypeOK, FindMany, Count, Receive, Fail, Age, Collect
  <1>4. events' \in 0 .. MaxEvents
    BY EventIs DEF TypeOK, FindMany, Count, Receive, Fail, Age, Collect
  <1>5. \E q \in Query : query' = [query EXCEPT ![p] = q]
    <2>1. 0 \in 0 .. Cardinality(Links)
      BY FS_CardinalityType
    <2>2. CASE FindMany(p)
      <3>1. Slice(p) \in Newest
        BY SliceIsListing DEF TypeOK
      <3>2. [query[p] EXCEPT !.at = "count", !.rows = Slice(p)] \in Query
        BY <1>1, <3>1 DEF Query
      <3> QED
        BY <2>2, <3>2 DEF FindMany
    <2>3. CASE Count(p)
      <3>1. Len(urls) \in 0 .. Cardinality(Links)
        BY ListingLength DEF TypeOK
      <3>2. [query[p] EXCEPT !.at = "reply", !.count = Len(urls)] \in Query
        BY <1>1, <3>1 DEF Query
      <3> QED
        BY <2>3, <3>2 DEF Count
    <2>4. CASE Receive(p)
      <3>1. [data |-> [items |-> query[p].rows, total |-> query[p].count],
             fresh |-> TRUE, failed |-> FALSE, at |-> "idle", rows |-> <<>>,
             count |-> 0] \in Query
        BY <1>1, <2>1, EmptyListing DEF Query, Data
      <3> QED
        BY <2>4, <3>1 DEF Receive
    <2>5. CASE Fail(p)
      <3>1. [Begun(query[p]) EXCEPT !.failed = query[p].failed] \in Query
        <4>1. query[p] \in Query /\ Begun(query[p]) \in Query
          BY <1>1, BegunIs
        <4>2. query[p].failed \in BOOLEAN
          BY <4>1 DEF Query
        <4> QED
          BY <4>1, <4>2 DEF Query
      <3>2. [query[p] EXCEPT !.at = "idle", !.failed = TRUE, !.rows = <<>>,
                             !.count = 0] \in Query
        BY <1>1, <2>1, EmptyListing DEF Query
      <3> QED
        BY <2>5, <3>1, <3>2 DEF Fail
    <2>6. CASE Age(p)
      <3>1. [query[p] EXCEPT !.fresh = FALSE] \in Query
        BY <1>1 DEF Query
      <3> QED
        BY <2>6, <3>1 DEF Age
    <2>7. CASE Collect(p)
      BY <2>7, NoFetchIs DEF Collect
    <2> QED
      BY <2>2, <2>3, <2>4, <2>5, <2>6, <2>7
  <1>6. query' \in [Pages -> Query]
    BY <1>1, <1>5
  <1> QED
    BY <1>2, <1>3, <1>4, <1>6 DEF TypeOK, Query

LEMMA LinkTypes ==
  ASSUME TypeOK, NEW l \in Links,
         \/ handleDelete(l) \/ handleCreate(l) \/ Serve(l) \/ Lose(l)
         \/ onSuccess(l) \/ onError(l) \/ Other(l)
  PROVE  TypeOK'
  <1>1. UNCHANGED <<route, page, prev>>
    BY DEF handleDelete, handleCreate, Serve, Lose, onSuccess, onError, Other
  <1>2. mutation' \in [Links -> {"idle", "create", "delete", "success", "error"}]
    BY DEF TypeOK, handleDelete, handleCreate, Serve, Lose, onSuccess, onError, Other
  <1>3. events' \in 0 .. MaxEvents
    BY EventIs
       DEF TypeOK, handleDelete, handleCreate, Serve, Lose, onSuccess, onError, Other
  <1>4. overlooked' \subseteq Pages
    BY DEF TypeOK, handleDelete, handleCreate, Serve, Lose, onSuccess, onError, Other,
           invalidateQueries
  <1>5. query' \in [Pages -> Query]
    BY TypesAre, InvalidatedIs
       DEF handleDelete, handleCreate, Serve, Lose, onSuccess, onError, Other,
           invalidateQueries
  <1>6. urls' \in Newest
    <2>1. urls \in Newest
      BY DEF TypeOK
    <2>2. CASE Serve(l)
      BY <2>1, <2>2, InsertedIsListing, RemovedIsListing DEF Serve, Changed
    <2>3. CASE Other(l)
      BY <2>1, <2>3, InsertedIsListing, RemovedIsListing DEF Other
    <2> QED
      BY <2>1, <2>2, <2>3 DEF handleDelete, handleCreate, Lose, onSuccess, onError
  <1> QED
    BY <1>1, <1>2, <1>3, <1>4, <1>5, <1>6 DEF TypeOK, Query

LEMMA PageTypes ==
  ASSUME TypeOK, \/ \E p \in {page - 1, page + 1} : setPage(p)
                 \/ Refocus \/ OpenList \/ OpenCreate
  PROVE  TypeOK'
  <1>1. UNCHANGED <<urls, mutation, events, overlooked>>
    BY DEF setPage, Refocus, OpenList, OpenCreate
  <1>2. query \in [Pages -> Query]
    BY TypesAre
  <1>3. ASSUME NEW p \in {page - 1, page + 1}, setPage(p)
        PROVE  page' \in Pages /\ prev' \in Data \cup {Null}
    <2>1. page \in Pages /\ Shown \in Data
      BY <1>3, ShownIs DEF TypeOK, setPage, TableShown
    <2>2. page \in Nat /\ page <= (Cardinality(Links) + PAGE_SIZE - 1) \div PAGE_SIZE
      BY <2>1, FS_CardinalityType DEF Pages
    <2>3. CASE page > 1 /\ p = page - 1
      BY <1>3, <2>1, <2>2, <2>3, FS_CardinalityType DEF Pages, setPage
    <2>4. CASE page < TotalPages(Shown) /\ p = page + 1
      BY <1>3, <2>1, <2>4, NextPage DEF setPage
    <2> QED
      BY <1>3, <2>3, <2>4 DEF setPage
  <1>4. route' \in {"list", "create"} /\ page' \in Pages /\ prev' \in Data \cup {Null}
    BY <1>3, FirstPage DEF TypeOK, setPage, Refocus, OpenList, OpenCreate
  <1>5. query' \in [Pages -> Query]
    <2>1. ASSUME NEW p
          PROVE  [query EXCEPT ![p] = Observed(@)] \in [Pages -> Query]
      BY <1>2, ObservedIs
    <2> QED
      BY <1>2, <2>1 DEF setPage, Refocus, OpenList, OpenCreate
  <1> QED
    BY <1>1, <1>4, <1>5 DEF TypeOK, Query

LEMMA NextTypes == TypeOK /\ [Next]_vars => TypeOK'
  <1> SUFFICES ASSUME TypeOK, [Next]_vars PROVE TypeOK'
    OBVIOUS
  <1>1. CASE UNCHANGED vars
    BY <1>1 DEF TypeOK, vars
  <1> QED
    BY <1>1, FetchTypes, LinkTypes, PageTypes DEF Next

LEMMA InitTypes == Init => TypeOK
  <1> SUFFICES ASSUME Init PROVE TypeOK
    OBVIOUS
  <1>1. query \in [Pages -> Query]
    BY NoFetchIs DEF Init
  <1> QED
    BY <1>1, FirstPage DEF Init, TypeOK, Query

(* The list and its pages keep their shape, and Next never leads to a page   *)
(* that no number of links could fill.                                       *)
THEOREM PagesExist == Spec => []TypeOK
  BY InitTypes, NextTypes, PTL DEF Spec

-----------------------------------------------------------------------------
(* Freshness *)

(* What a fetch has read so far, and what is fresh, is what the table has.  *)
Current(p) ==
  /\ query[p].at \in {"count", "reply"} => query[p].rows = Slice(p)
  /\ query[p].at = "reply" => query[p].count = Len(urls)
  /\ query[p].fresh => query[p].data = [items |-> Slice(p), total |-> Len(urls)]

Answered == \A l \in Links : mutation[l] # "success"

(* Only a query that nobody fetches is fresh.                               *)
PagesOK ==
  /\ \A p \in Pages : query[p].fresh => query[p].at = "idle"
  /\ Answered => \A p \in Pages \ overlooked : Current(p)

(* The table and the changes in progress stay, and each query is as good as *)
(* it was.                                                                  *)
LEMMA PagesKept ==
  ASSUME PagesOK, UNCHANGED urls, Answered' => Answered, overlooked \subseteq overlooked',
         \A p \in Pages : \/ query'[p] = query[p]
                          \/ query'[p].at \in {"idle", "rows"} /\ ~query'[p].fresh
  PROVE  PagesOK'
  <1>1. \A p : Slice(p)' = Slice(p)
    BY DEF Slice
  <1> QED
    BY <1>1 DEF PagesOK, Current

LEMMA FetchCurrent ==
  ASSUME TypeOK, PagesOK, NEW p \in Pages,
         FindMany(p) \/ Count(p) \/ Receive(p) \/ Fail(p) \/ Age(p) \/ Collect(p)
  PROVE  PagesOK'
  <1>1. query \in [Pages -> Query]
    BY TypesAre
  <1>2. /\ UNCHANGED <<urls, mutation>>
        /\ \A o \in Pages \ {p} : query'[o] = query[o]
    BY <1>1 DEF FindMany, Count, Receive, Fail, Age, Collect
  <1>3. \A o : Slice(o)' = Slice(o)
    BY <1>2 DEF Slice
  <1>4. Answered' = Answered
    BY <1>2 DEF Answered
  <1>5. CASE FindMany(p)
    <2>1. /\ query'[p].at = "count" /\ query'[p].rows = Slice(p)
          /\ query'[p].fresh = query[p].fresh
          /\ query[p].at = "rows" /\ overlooked' = overlooked \ {p}
      BY <1>1, <1>5 DEF FindMany, Query
    <2> QED
      BY <1>2, <1>3, <1>4, <2>1 DEF PagesOK, Current
  <1>6. CASE Count(p)
    <2>1. /\ query'[p].at = "reply" /\ query'[p].rows = query[p].rows
          /\ query'[p].count = Len(urls) /\ query'[p].fresh = query[p].fresh
          /\ query[p].at = "count" /\ overlooked' = overlooked
      BY <1>1, <1>6 DEF Count, Query
    <2> QED
      BY <1>2, <1>3, <1>4, <2>1 DEF PagesOK, Current
  <1>7. CASE Receive(p)
    <2>1. /\ query'[p].at = "idle" /\ query[p].at = "reply"
          /\ query'[p].data = [items |-> query[p].rows, total |-> query[p].count]
          /\ overlooked' = overlooked
      BY <1>1, <1>7 DEF Receive
    <2> QED
      BY <1>2, <1>3, <1>4, <2>1 DEF PagesOK, Current
  <1>8. CASE Fail(p)
    <2>1. query[p] \in Query /\ Begun(query[p]) \in Query /\ ~query[p].fresh
      BY <1>1, <1>8, BegunIs DEF Fail, PagesOK
    <2>2. ASSUME query' = [query EXCEPT ![p] =
                             [Begun(@) EXCEPT !.failed = query[p].failed]]
          PROVE  query'[p].at = "rows" /\ ~query'[p].fresh
      <3>1. query'[p] = [Begun(query[p]) EXCEPT !.failed = query[p].failed]
        BY <1>1, <2>2
      <3>2. query'[p].at = Begun(query[p]).at /\ query'[p].fresh = Begun(query[p]).fresh
        BY <2>1, <3>1 DEF Query
      <3> QED
        BY <2>1, <3>2, BegunIs
    <2>3. ASSUME query' = [query EXCEPT ![p] = [@ EXCEPT !.at = "idle", !.failed = TRUE,
                                                  !.rows = <<>>, !.count = 0]]
          PROVE  query'[p].at = "idle" /\ ~query'[p].fresh
      BY <1>1, <2>1, <2>3 DEF Query
    <2>4. query'[p].at \in {"idle", "rows"} /\ ~query'[p].fresh
      BY <1>8, <2>2, <2>3 DEF Fail
    <2> QED
      BY <1>2, <1>4, <1>8, <2>4, PagesKept DEF Fail
  <1>9. CASE Age(p)
    <2>1. /\ query'[p].at = query[p].at /\ ~query'[p].fresh /\ query[p].fresh
          /\ overlooked' = overlooked
      BY <1>1, <1>9 DEF Age, Query
    <2>2. query'[p].at = "idle"
      BY <2>1 DEF PagesOK
    <2> QED
      BY <1>2, <1>4, <2>1, <2>2, PagesKept
  <1>10. CASE Collect(p)
    <2>1. query'[p] = NoFetch /\ overlooked' = overlooked
      BY <1>1, <1>10 DEF Collect
    <2> QED
      BY <1>2, <1>4, <2>1, NoFetchIs, PagesKept
  <1> QED
    BY <1>5, <1>6, <1>7, <1>8, <1>9, <1>10

LEMMA LinkCurrent ==
  ASSUME TypeOK, PagesOK, NEW l \in Links,
         \/ handleDelete(l) \/ handleCreate(l) \/ Serve(l) \/ Lose(l)
         \/ onSuccess(l) \/ onError(l) \/ Other(l)
  PROVE  PagesOK'
  <1>1. mutation \in [Links -> {"idle", "create", "delete", "success", "error"}]
    BY DEF TypeOK
  <1>2. CASE handleDelete(l) \/ handleCreate(l) \/ onError(l)
    <2>1. /\ UNCHANGED <<urls, query, overlooked>>
          /\ \A k \in Links : mutation'[k] = "success" <=> mutation[k] = "success"
      BY <1>1, <1>2 DEF handleDelete, handleCreate, onError
    <2> QED
      BY <2>1, PagesKept DEF Answered
  <1>3. CASE Serve(l)
    <2>1. CASE mutation' = [mutation EXCEPT ![l] = "error"] /\ UNCHANGED urls
      <3>1. \A k \in Links : mutation'[k] = "success" <=> mutation[k] = "success"
        BY <1>1, <1>3, <2>1 DEF Serve
      <3> QED
        BY <1>3, <2>1, <3>1, PagesKept DEF Serve, Answered
    <2>2. CASE mutation' = [mutation EXCEPT ![l] = "success"]
      <3>1. ~Answered'
        BY <1>1, <2>2 DEF Answered
      <3> QED
        BY <1>3, <3>1 DEF Serve, PagesOK
    <2> QED
      BY <1>3, <2>1, <2>2 DEF Serve
  <1>4. CASE Lose(l)
    <2>1. CASE mutation[l] = "success"
      BY <1>4, <2>1 DEF Lose, PagesOK
    <2>2. CASE mutation[l] # "success"
      <3>1. /\ UNCHANGED <<urls, query, overlooked>>
            /\ \A k \in Links : mutation'[k] = "success" <=> mutation[k] = "success"
        BY <1>1, <1>4, <2>2 DEF Lose
      <3> QED
        BY <3>1, PagesKept DEF Answered
    <2> QED
      BY <2>1, <2>2
  <1>5. CASE onSuccess(l)
    <2>1. query \in [Pages -> Query]
      BY TypesAre
    <2>2. query' = Invalidated(query)
          /\ overlooked' = {p \in Pages : /\ query[p].at \in {"count", "reply"}
                                          /\ OnScreen(p) => query[p].data = Null}
      BY <1>5 DEF onSuccess, invalidateQueries
    <2>3. \A p \in Pages :
            /\ ~query'[p].fresh
            /\ \/ query'[p].at = "rows"
               \/ query'[p].at = query[p].at
                  /\ (OnScreen(p) => query[p].data = Null)
      BY <2>1, <2>2, InvalidatedIs
    <2>4. ASSUME NEW p \in Pages, p \notin overlooked'
          PROVE  query'[p].at \notin {"count", "reply"}
      BY <2>2, <2>3, <2>4
    <2> QED
      BY <2>3, <2>4 DEF PagesOK, Current
  <1>6. CASE Other(l)
    BY <1>6 DEF Other, PagesOK
  <1> QED
    BY <1>2, <1>3, <1>4, <1>5, <1>6

LEMMA PageCurrent ==
  ASSUME TypeOK, PagesOK, \/ \E p \in {page - 1, page + 1} : setPage(p)
                          \/ Refocus \/ OpenList \/ OpenCreate
  PROVE  PagesOK'
  <1>1. UNCHANGED <<urls, mutation, overlooked>>
    BY DEF setPage, Refocus, OpenList, OpenCreate
  <1>2. query \in [Pages -> Query]
    BY TypesAre
  <1>3. query' = query \/ \E o : query' = [query EXCEPT ![o] = Observed(@)]
    BY DEF setPage, Refocus, OpenList, OpenCreate
  <1>4. ASSUME NEW p \in Pages
        PROVE  \/ query'[p] = query[p]
               \/ query'[p].at \in {"idle", "rows"} /\ ~query'[p].fresh
    BY <1>2, <1>3, ObservedIs
  <1> QED
    BY <1>1, <1>4, PagesKept DEF Answered

LEMMA NextPages == TypeOK /\ PagesOK /\ [Next]_vars => PagesOK'
  <1> SUFFICES ASSUME TypeOK, PagesOK, [Next]_vars PROVE PagesOK'
    OBVIOUS
  <1>1. CASE UNCHANGED vars
    BY <1>1, PagesKept DEF vars, Answered
  <1> QED
    BY <1>1, FetchCurrent, LinkCurrent, PageCurrent DEF Next

(* Once this browser's own changes have been answered, a page that its cache *)
(* takes for fresh is the table's page and total, but for the queries and    *)
(* changes that no invalidation reaches.                                     *)
THEOREM FreshIsCurrent == Spec => []FreshPagesAreCurrent
  <1>1. Init => PagesOK
    BY NoFetchIs DEF Init, PagesOK, Current
  <1>2. PagesOK => FreshPagesAreCurrent
    BY DEF PagesOK, FreshPagesAreCurrent, Answered, Current
  <1> QED
    BY <1>1, <1>2, NextPages, PagesExist, PTL DEF Spec

=============================================================================
