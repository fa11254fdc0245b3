----------------------------- MODULE LinksPage ------------------------------
(***************************************************************************)
(* The links list: the listing of src/repositories/url.repository.ts, two   *)
(* statements each of which sees what is committed then, and the pages of   *)
(* one browser over it (LinkListPage.tsx, useLinks.ts, CreateLinkPage.tsx   *)
(* of link-shortener-web/src), with the query cache they share.             *)
(***************************************************************************)
EXTENDS Naturals, FiniteSets, SequencesExt

CONSTANTS
  Links,
  PAGE_SIZE,
  Null,       \* no data
  Others,     \* other clients create and delete links
  MaxEvents   \* bound on changes and failures

ASSUME PageAssumption ==
  /\ IsFiniteSet(Links) /\ Links # {}
  /\ PAGE_SIZE \in Nat \ {0}
  /\ Others \in BOOLEAN /\ MaxEvents \in Nat
  /\ Null \notin [items : Seq(Links), total : Nat]

VARIABLES
  urls,      \* the links in the table, newest first
  route,     \* the page of the browser: "list" or "create"
  page,      \* LinkListPage's state
  prev,      \* what keepPreviousData has kept
  query,     \* the query cache: the query ["links", p, PAGE_SIZE] of each p
  mutation,  \* where the create or delete of each link is
  events,    \* changes asked for here, by others, and failures, so far
  overlooked \* history: the queries that have read their rows before a change
             \* that no invalidation fetches them again for

vars == <<urls, route, page, prev, query, mutation, events, overlooked>>

Pages == 1 .. (Cardinality(Links) + PAGE_SIZE - 1) \div PAGE_SIZE
Newest == {s \in UNION {[1 .. n -> Links] : n \in 0 .. Cardinality(Links)} :
             \A i, j \in DOMAIN s : s[i] = s[j] => i = j}
Members(s) == {s[i] : i \in DOMAIN s}

-----------------------------------------------------------------------------
(* The server *)

(* findMany: orderBy createdAt desc, skip, take. *)
Slice(p) == SubSeq(urls, (p - 1) * PAGE_SIZE + 1,
                   IF p * PAGE_SIZE < Len(urls) THEN p * PAGE_SIZE ELSE Len(urls))

Inserted(l) == <<l>> \o urls
Removed(l) == RemoveFirst(urls, l)

-----------------------------------------------------------------------------
(* The query cache. Its rules are those of the library under the options of *)
(* main.tsx and useLinks.ts.                                                *)

NoFetch == [data |-> Null, fresh |-> FALSE, failed |-> FALSE,
            at |-> "idle", rows |-> <<>>, count |-> 0]

(* listUrls begins. The error of a query without data is forgotten. *)
Begun(q) == [q EXCEPT !.at = "rows", !.failed = @ /\ q.data # Null,
                      !.rows = <<>>, !.count = 0]

(* A page that comes on the screen is fetched unless it is fresh or already *)
(* being fetched.                                                           *)
Observed(q) == IF q.at = "idle" /\ ~q.fresh THEN Begun(q) ELSE q

(* What an invalidation fetches: the query on the screen. A fetch under way *)
(* is given up for a new one, unless it is the first one of its query.      *)
Refetched(q) == IF q.data = Null /\ q.at # "idle" THEN q ELSE Begun(q)

Event == events < MaxEvents /\ events' = events + 1

OnScreen(p) == route = "list" /\ page = p

(* Mutant: a fetch under way is not given up. *)
InvalidatedLate(qs) ==
  [p \in Pages |->
     LET q == [qs[p] EXCEPT !.fresh = FALSE]
     IN  IF OnScreen(p) /\ q.at = "idle" THEN Begun(q) ELSE q]

(* invalidateQueries({ queryKey: ["links"] }) *)
Invalidated(qs) ==
  [p \in Pages |->
     LET q == [qs[p] EXCEPT !.fresh = FALSE]
     IN  IF OnScreen(p) THEN Refetched(q) ELSE q]

invalidateQueries ==
  /\ query' = Invalidated(query)
  /\ overlooked' = {p \in Pages : /\ query[p].at \in {"count", "reply"}
                                  /\ OnScreen(p) => query[p].data = Null}

(* listUrlRecords: findMany, then count. *)
FindMany(p) ==
  /\ query[p].at = "rows"
  /\ query' = [query EXCEPT ![p].at = "count", ![p].rows = Slice(p)]
  /\ overlooked' = overlooked \ {p}
  /\ UNCHANGED <<urls, route, page, prev, mutation, events>>

Count(p) ==
  /\ query[p].at = "count"
  /\ query' = [query EXCEPT ![p].at = "reply", ![p].count = Len(urls)]
  /\ UNCHANGED <<urls, route, page, prev, mutation, events, overlooked>>

Receive(p) ==
  /\ query[p].at = "reply"
  /\ query' = [query EXCEPT ![p] =
       [data |-> [items |-> @.rows, total |-> @.count], fresh |-> TRUE,
        failed |-> FALSE, at |-> "idle", rows |-> <<>>, count |-> 0]]
  /\ UNCHANGED <<urls, route, page, prev, mutation, events, overlooked>>

(* The fetch fails: its one retry is still to come, or has failed as well. *)
Fail(p) ==
  /\ Event /\ query[p].at # "idle"
  /\ \/ query' = [query EXCEPT ![p] = [Begun(@) EXCEPT !.failed = query[p].failed]]
     \/ query' = [query EXCEPT ![p] = [@ EXCEPT !.at = "idle", !.failed = TRUE,
                                                !.rows = <<>>, !.count = 0]]
  /\ UNCHANGED <<urls, route, page, prev, mutation, overlooked>>

(* staleTime has passed. *)
Age(p) ==
  /\ query[p].fresh
  /\ query' = [query EXCEPT ![p].fresh = FALSE]
  /\ UNCHANGED <<urls, route, page, prev, mutation, events, overlooked>>

(* A query that is on no screen is forgotten after some minutes. *)
Collect(p) ==
  /\ ~OnScreen(p) /\ query[p].at = "idle" /\ query[p] # NoFetch
  /\ query' = [query EXCEPT ![p] = NoFetch]
  /\ UNCHANGED <<urls, route, page, prev, mutation, events, overlooked>>

(* The window gets the focus, or the network comes back. *)
Refocus ==
  /\ route = "list"
  /\ query' = [query EXCEPT ![page] = Observed(@)]
  /\ UNCHANGED <<urls, route, page, prev, mutation, events, overlooked>>

-----------------------------------------------------------------------------
(* LinkListPage and CreateLinkPage *)

(* useLinks: the page's data, or the previous page's while it loads. *)
Shown == IF query[page].data # Null THEN query[page].data ELSE prev

(* The table and its buttons are there: no spinner, error or empty state. *)
TableShown == /\ route = "list" /\ ~query[page].failed
              /\ Shown # Null /\ Shown.items # <<>>

(* Mutant: rounded up once too often. *)
OnePageMore(d) == d.total \div PAGE_SIZE + 1

TotalPages(d) ==
  IF d.total = 0 THEN 1 ELSE (d.total + PAGE_SIZE - 1) \div PAGE_SIZE

(* A mount of LinkListPage starts at page 1. *)
OpenList ==
  /\ route = "create"
  /\ route' = "list" /\ page' = 1 /\ prev' = Null
  /\ query' = [query EXCEPT ![1] = Observed(@)]
  /\ UNCHANGED <<urls, mutation, events, overlooked>>

OpenCreate ==
  /\ route = "list"
  /\ route' = "create"
  /\ UNCHANGED <<urls, page, prev, query, mutation, events, overlooked>>

(* Prev and Next. *)
setPage(p) ==
  /\ TableShown
  /\ \/ page > 1 /\ p = page - 1
     \/ page < TotalPages(Shown) /\ p = page + 1
  /\ page' = p /\ prev' = Shown
  /\ query' = [query EXCEPT ![p] = Observed(@)]
  /\ UNCHANGED <<urls, route, mutation, events, overlooked>>

(* A click on the row's button, with the confirmation, or on Shorten. *)
handleDelete(l) ==
  /\ Event /\ TableShown /\ l \in Members(Shown.items) /\ mutation[l] = "idle"
  /\ mutation' = [mutation EXCEPT ![l] = "delete"]
  /\ UNCHANGED <<urls, route, page, prev, query, overlooked>>

handleCreate(l) ==
  /\ Event /\ route = "create" /\ l \notin Members(urls) /\ mutation[l] = "idle"
  /\ mutation' = [mutation EXCEPT ![l] = "create"]
  /\ UNCHANGED <<urls, route, page, prev, query, overlooked>>

Changed(l) == IF mutation[l] = "create" THEN Inserted(l) ELSE Removed(l)

(* The server does what the mutation asks for, or refuses: the link is there *)
(* already, or gone already. *)
Serve(l) ==
  /\ mutation[l] \in {"create", "delete"}
  /\ IF (mutation[l] = "create") = (l \in Members(urls))
     THEN /\ mutation' = [mutation EXCEPT ![l] = "error"] /\ UNCHANGED urls
     ELSE /\ mutation' = [mutation EXCEPT ![l] = "success"]
          /\ urls' = Changed(l)
  /\ UNCHANGED <<route, page, prev, query, events, overlooked>>

(* The request or its reply is lost: the browser sees an error. *)
Lose(l) ==
  /\ Event /\ mutation[l] \in {"create", "delete", "success"}
  /\ mutation' = [mutation EXCEPT ![l] = "error"]
  /\ overlooked' = IF mutation[l] = "success" THEN Pages ELSE overlooked
  /\ UNCHANGED <<urls, route, page, prev, query>>

(* onSuccess. The block after the await of handleDelete is empty: the page  *)
(* stays what it is, however few rows it has left.                          *)
onSuccess(l) ==
  /\ mutation[l] = "success"
  /\ mutation' = [mutation EXCEPT ![l] = "idle"]
  /\ invalidateQueries
  /\ UNCHANGED <<urls, route, page, prev, events>>

(* An error is shown, and nothing is fetched. *)
onError(l) ==
  /\ mutation[l] = "error"
  /\ mutation' = [mutation EXCEPT ![l] = "idle"]
  /\ UNCHANGED <<urls, route, page, prev, query, events, overlooked>>

(* Another client creates or deletes a link. *)
Other(l) ==
  /\ Others /\ Event
  /\ urls' = IF l \in Members(urls) THEN Removed(l) ELSE Inserted(l)
  /\ overlooked' = Pages
  /\ UNCHANGED <<route, page, prev, query, mutation>>

-----------------------------------------------------------------------------
Init ==
  /\ urls \in Newest
  /\ route = "create" /\ page = 1 /\ prev = Null
  /\ query = [p \in Pages |-> NoFetch]
  /\ mutation = [l \in Links |-> "idle"]
  /\ events = 0
  /\ overlooked = {}

Next ==
  \/ \E p \in Pages : \/ FindMany(p) \/ Count(p) \/ Receive(p) \/ Fail(p)
                      \/ Age(p) \/ Collect(p)
  \/ \E l \in Links : \/ handleDelete(l) \/ handleCreate(l) \/ Serve(l) \/ Lose(l)
                      \/ onSuccess(l) \/ onError(l) \/ Other(l)
  \/ \E p \in {page - 1, page + 1} : setPage(p)
  \/ Refocus \/ OpenList \/ OpenCreate

Spec == Init /\ [][Next]_vars

-----------------------------------------------------------------------------
(* Properties *)

Data == [items : Newest, total : 0 .. Cardinality(Links)]

(* Every variable keeps its shape; in particular no page of the list comes   *)
(* on the screen that no number of links could fill.                         *)
TypeOK ==
  /\ urls \in Newest
  /\ route \in {"list", "create"}
  /\ page \in Pages
  /\ prev \in Data \cup {Null}
  /\ query \in [Pages -> [data : Data \cup {Null}, fresh : BOOLEAN,
                          failed : BOOLEAN, rows : Newest,
                          at : {"idle", "rows", "count", "reply"},
                          count : 0 .. Cardinality(Links)]]
  /\ mutation \in [Links -> {"idle", "create", "delete", "success", "error"}]
  /\ events \in 0 .. MaxEvents
  /\ overlooked \subseteq Pages

(* A page that the cache takes for fresh is the table's page, and its total  *)
(* the table's, once every change this browser made has been answered. What  *)
(* is excepted is what the invalidation of CreateLinkPage and LinkListPage   *)
(* does not reach: queries on no screen, or fetched for the first time, that *)
(* are under way, changes of other clients, and changes whose reply is lost. *)
FreshPagesAreCurrent ==
  (\A l \in Links : mutation[l] # "success")
    => \A p \in Pages : query[p].fresh /\ p \notin overlooked
         => query[p].data = [items |-> Slice(p), total |-> Len(urls)]

=============================================================================
