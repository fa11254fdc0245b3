# Formal models of the link shortener

TLA+ models of the service in this repository, checked with TLC, and proofs
about them, checked with TLAPS. Paths below are relative to the repository's
root.

## The system

An Express server (`src/`) over Postgres (Prisma) and Redis (ioredis), and a
React client (`link-shortener-web/`). Any number of instances of the server may
share the two datastores.

| Component | State | Operations | Correct when |
| --- | --- | --- | --- |
| Link service, `src/services/url.service.ts`, `src/repositories/url.repository.ts` | table `urls`: code, URL, expiry | redirect, create with an alias or a generated code, update (rename, expiry), delete, stats, list | no link is lost, doubled or overwritten; a redirect answers what the table holds or held for the code |
| Redirect cache, `src/services/cache.service.ts` | `url:<code>`: link or negative sentinel, with a TTL; `lock:<code>`: token, with a TTL | lookup, fill, invalidate, acquire, release | a stale entry has a known cause and goes away; who loads beside the holder of the lock has waited for it; the lock is freed by its owner or its TTL |
| Click tracker, `src/services/clickTracker.service.ts` | `clicks:<code>`, `clicks:pending`, `click_count`, counts held by a running flush | record, flush every 10 s, stats, final flush | every click is in one place, and settled in the end, as long as no command and no process fails |
| Process, `src/index.ts` | timer, shutdown flag | start, graceful shutdown with a 10 s limit | what the buffer and the flushes hold is in the table, or still in Redis, at the exit |
| Rate limiter, `src/middlewares/rateLimiter.middleware.ts` | `ratelimit:<tier>:<id>` with an expiry | count and judge a request | bounded traffic per caller, windows that end, a Retry-After after which the window is over |
| Error handler, validation, controllers | none | status of an answer | the thrown error decides the status |
| Listing, `listUrlRecords` | none | a page and a total | the two agree |
| Quota, `src/services/quota.service.ts` | `users.quota`, refill time | refill, spend, refund | it pays for every generation that was granted; who is refused is told a time to come |
| Accounts, `src/services/auth.service.ts` | table `users`, JWT cookie | signup, login, logout, me | one account per email; a session is of the account whose password was given |
| Web client, `link-shortener-web/src/` | query cache, page number, forms | list, create, delete, stats | what it takes for fresh is what the table holds; no page is a dead end |
| Configuration, logging, health, access grants | environment, request context | parsing, probes | outside the models |

### How the parts interact

- A redirect looks in the cache, on a miss takes the lock, reads the table, fills
  the cache, releases the lock, and records a click. Requests that lost the lock
  re-read the cache and in the end read the table themselves.
- Create, update and delete commit to the table and *then* delete the cache
  entry. Nothing ties the two together: this is where staleness comes from.
- The flush moves counts from Redis to the table by *code*, while updates and
  deletes change which link has the code, and stats add the two stores.
- Signup, login and "who am I" tie a browser to a row of `users` by the token in
  its cookie, which outlives the row and is checked without it (`requireAuth`).
  The quota is a column of the same row.
- The browser lists pages of the table, caches them, and marks its cache stale
  after each change of its own; it learns of nobody else's.
- All Redis calls but those of the flush and the limiter go through
  `redisSafe`, which turns a failure into a fallback.

### What is hard here

Interleavings at every `await`, of requests, of instances and of flushes (the
timer does not wait for the previous flush); changes that are committed but not
yet, or never, invalidated; lost replies, which ioredis answers by sending the
command again after it reconnected; lock and cache expiry at any moment; crashes
between two commands; window boundaries of the limiter; fetches of the browser
that are under way when it changes something; a password that is being compared while
the account is deleted; a refill date computed before another request's refill.
`hazards` in
`PROJECT.json` lists them by line.

## The modules

| Module | What it is |
| --- | --- |
| `UrlService` | redirect, create, update, delete over table, cache and lock |
| `UrlServiceProofs`, `UrlServiceLinkProofs` | theorems about `UrlService`: types and staleness; links, answers and the lock |
| `LinkDirectory` | abstract: a map from codes to links, changed by whole requests |
| `UrlServiceDirectory` | the mapping by which `UrlService` implements it |
| `UrlServiceDirectoryProofs` | the proof that it does |
| `ClickTracker` | click counters, flushes, stats, shutdown, crash and restart |
| `ClickLedger` | abstract: what may become of a click; `ClickTracker` implements it |
| `RateLimiter` | the limiter over a discrete clock |
| `LinksPage` | the listing, and the browser's list and create pages over it |
| `Accounts` | signup, login, logout, me, and the browsers' cookies, over the table `users` |
| `Quota` | refill, spend and refund of generations, over `Accounts` |
| `ClickTrackerProofs`, `RateLimiterProofs`, `LinksPageProofs`, `AccountsProofs`, `QuotaProofs` | theorems about the module each is named after |
| `MCUrlService`, `MCClickTracker`, `MCRateLimiter`, `MCLinksPage`, `MCAccounts` | symmetry sets for TLC |

Operators marked `Mutant` in a comment are not part of a specification: each is
a plausible bug in the operator that follows it, kept to show that the property
it belongs to can fail.

### UrlService

A process is one HTTP request and a step is what the program does between two
awaits. `pc` is the await a request is at, and at the end its HTTP status; `op`
is the validated request.

| Action | Code |
| --- | --- |
| `Start` | `validate`, then the controller; `ValidRequests` is what the schemas accept |
| `Lookup`, `Acquire`, `Wait`, `Load`, `Fill`, `Release` | `resolveCachedUrl` and `loadFromDbAndCache`, one await each; `Wait` is one turn of the stampede loop, `Release` the `finally` |
| `Decide`, `RecordClick` | the rest of `resolveForRedirect` |
| `Insert` | one attempt of `createShortUrl` |
| `Find`, `Taken`, `Write`, `Invalidate` | the queries and invalidations of `updateUrl` and `deleteShortUrl` |
| `EntryExpires`, `LockExpires`, `Tick`, `Crash` | TTLs, the clock, the death of the instance that serves a request |

Data: a row is the identity of its link (its URL never changes) and its expiry.
A token is the identity of its request (`randomUUID`). `EntryExpires` may happen
at any time, which also stands for eviction and for a `DEL` that was sent twice.
A Redis command that took effect although its reply was lost gives the program
the value of a success, because each fallback of `redisSafe` is that value, so
it needs no case of its own; a repeated `SET` and a repeated `SET NX` have one.
`OwnerRequired` is the mandatory `user_id` column: with it no create succeeds,
which is the code at this commit (`CreateSucceeds`). The passing runs switch it
off: they include every behaviour of the code as it is, and those of a create
that gives the owner, which is what the rest of the service is written for.

History variables: `bound` (what each code has ever been bound to), `overtaken`
(requests between `Load` and `Fill` whose code was changed meanwhile), `excused`
(codes whose entry escaped an invalidation) and `owed` (what a request has
committed and not yet invalidated; it also drives `Invalidate`).

`LinkDirectory` is what the callers of POST, PATCH and DELETE are promised: a
request changes the map from codes to rows in one instant between its arrival
and its answer, once, as it asked, or not at all. `Accept`, `Apply` and then
`Acknowledge`, or `Refuse` (404, 409: true at that moment, and without effect),
or `Fail` (500 or no answer: with or without effect). The mapping of
`UrlServiceDirectory` takes the table for the map and reads the phase of a
request off its `pc`: until `Insert` or `Write` it is open, while it owes
invalidations it is applied. Cache, lock and redirects stutter. A generated code
is not asked for, so each attempt of the loop is one of the outcomes.

### ClickTracker

A click has an identity and a counter is the set of the clicks it counts, so a
click can be located: in a link's count, a buffered counter, a flush's hands, or
among those given up (`dropped`, deliberately by the code). What is nowhere any
more is in one of two history variables, by cause: `gone`, which only a fault adds
to, and `unsaved`, what a flush held when the process exited in order. An
`addClicks` that commits and fails puts its batch in two places, and its clicks in
`doubled`: `EveryClickInOnePlace` and `StatsNeverOvercount` except these clicks
and no others. A `MULTI` of `recordClick` or of the re-buffering that took effect,
and whose reply was lost, is sent again and counts again: that increment cannot
be seen in a set, so the clicks it counts twice are in `again`, and where a
property speaks of a counter it speaks of the clicks in it, not of its number.

A redirect is resolved from the table here (`Resolve`); that it may be resolved
from a stale entry is the subject of `UrlService`. `Interval` starts a flush
whether or not another is running. `Stop` needs every redirect to be done
(`server.close`). After it, `Exit` comes with the end of the final flush, even if
a flush of the timer is still running, or after 10 seconds (`timeout`).
`$disconnect` and `redis.quit` between the two are not steps: neither waits for
the program to do what it has not asked of them yet. A flush whose `SREM` was done
when the final one looked, and whose `GETDEL` is answered when that one has ended,
only then calls `addClicks`, on a client that is being closed by a process about
to exit.

`ClickLedger` says it from outside: a click is recorded once, waits, and is
counted, dropped or lost for good, a batch at a time. `Fate` maps the places to
these; a click counted by a failed `addClicks` is counted, whatever is still
done with the copy that was put back. `Lossy` allows losses only where Redis
fails, the process dies, or it is shut down.

### RateLimiter

The script is one atomic step, the verdict a later one. A key is live up to and
including the tick of its expiry, when `PTTL` is 0, so a window is one tick longer
than `WINDOW`. `hits` is the log of the runs of the script, each with its request:
a script whose reply was lost is run again for the same request.

A `Retry-After` is in whole seconds and may name the very tick in which the key
expires; who comes back in that tick is still counted in the old window. What
`WaitingEndsTheWindow` says is that whoever comes back later than that is not.
`RefusedForItsOwnRequests` counts the requests of the caller, and apart from them
the runs that repeat one: a request below the limit can be refused, but only by
repeated scripts of its own caller.

### LinksPage

The server is its table, newest link first, and a listing is two steps,
`FindMany` and `Count`. The comment at `url.repository.ts:62-66` says that the
transaction makes the two consistent; at Postgres' default isolation each
statement sees what is committed when it begins, so the model lets the table
change between them. A create or a delete is one step here (`Serve`): what
happens inside is the subject of `UrlService`, and that the insert gives no owner
is left out in the same way.

The browser has one query per page (`["links", p, PAGE_SIZE]`). `at` is where its
fetch is, `data` what it has, `fresh` that it is younger than `staleTime` and not
invalidated, `failed` that its error is shown. The rules of the query cache are
those of TanStack Query under the options in `main.tsx` and `useLinks.ts`: a
stale page is fetched when it comes on the screen or the window gets the focus;
an invalidation makes every page stale and fetches the one on the screen; a
fetch under way is then given up for a new one, unless it is the query's first;
a reply makes its page fresh. Queries on no screen are not fetched again, which
is more modest than "every cached page refetches itself"
(`LinkListPage.tsx:17-18`). `overlooked` is a history variable: the queries whose
rows were read before a change that no later fetch is due for. `events` counts
the changes and failures of a behaviour, to bound it.

| Action | Code |
| --- | --- |
| `FindMany`, `Count`, `Receive`, `Fail` | `listUrls` down to `listUrlRecords`; `request` of `api/client.ts`, with one retry |
| `Age`, `Collect`, `Refocus` | staleness, garbage collection and focus of the query cache |
| `OpenList`, `OpenCreate`, `setPage` | the router and the Prev and Next buttons |
| `handleDelete`, `handleCreate`, `Serve`, `Lose`, `onSuccess`, `onError` | the two mutations, from the click to what follows their answer |
| `Other` | another client of the API |

### Accounts and Quota

A process is a request slot. A browser sends a request with the cookie it has,
the server takes a step per awaited call, and the answer reaches the browser
(`Receive`), in any order with its other answers, or never (`Lose`).

| Action | Code |
| --- | --- |
| `Send` | a browser's request: a form that `signupSchema` or `loginSchema` accepts (`Form`), or `me` or `logout` with its cookie (`Requests`) |
| `createUser` | the insert of `signup`, with its unique constraint (409) |
| `findByEmail`, `verifyPassword` | the two awaits of `login` |
| `requireAuth`, `findUserById` | `auth.middleware.ts`, and `me` |
| `spendOneGeneration` | the call begins, and computes its dates |
| `refillQuotaIfDue`, `trySpendQuota`, `refundQuota` | the statements of `url.repository.ts` |
| `findUser`, `Finish` | the refill time in the refusal; the end of the request |
| `DeleteUser` | an operator; no route deletes an account |

A hash matches only its password and a token is its content, so nobody makes one
up. The cookie has the lifetime of the token in it (`auth.controller.ts` keeps
the two in step), so the token's own expiry is the one that binds. `proven` is a
history variable: which browser gave the password of which account.

No route calls `quota.service.ts` at this commit, and it imports from a module
that does not have them the functions that `url.repository.ts` has. `Quota` is a
model of the service over those statements, called as its comments say: a
granted generation is handed back when the create fails. Slots are shared with
the requests of `Accounts`. Dates are those of the beginning of a call (`start`),
conditions and increments those of the statement. The history variables `full`
and `net` keep the account: what the quota was filled to, and what has been
granted less what has been handed back since. A refund that comes after a refill
leaves a user with more than `QUOTA_MAX`; `GenerationsArePaidFor` then has a
negative `net` on the other side.

## What is checked

| Run | Question | Result |
| --- | --- | --- |
| `url_races` | three requests of any kind on two codes: `AnswersComeFromTheTable`, `StalenessIsExplained`, `SingleRebuild`, `OneCodePerLink`, `NoLinkOverwritten` | hold |
| `url_faults` | two requests, two codes, all faults: `TypeOK`, `StalenessIsExplained`, `LockNotLeaked`, `LockEndsByOwnerOrTTL`, `EveryRequestIsAnswered`, `SelfHeals`, `ImplementsDirectory` | hold |
| `clicks_faults` | two overlapping flushes, two clicks, two codes, a stats reader, shutdown, up to two faults of any kind: `TypeOK`, `EveryClickInOnePlace`, `StatsNeverOvercount`, `ImplementsLedger` | hold |
| `clicks_liveness` | failing updates, no losses allowed: `BufferedIsPending`, `EveryClickInOnePlace`, `EveryClickIsSettled`, `ImplementsLedger` | hold |
| `limiter` | three requests of two callers, a Redis that fails or repeats: `TypeOK`, `LessThanTwiceTheLimit`, `WaitingEndsTheWindow`, `WindowsEnd`, `RefusedForItsOwnRequests` | hold |
| `accounts` | two accounts and two browsers for one email, failing queries, lost answers, deletions; refills and refunds: `QuotaTypeOK`, `MeAnswersItsOwner`, `GenerationsArePaidFor`, `RefusedUntilLater` | hold |
| `links_page` | two links on two pages, changes here and elsewhere, lost requests and replies: `TypeOK`, `FreshPagesAreCurrent` | hold |
| `url_deleted` | "a just-deleted link is never served from Redis" (`url.service.ts:239`) | violated: a loader that read before the delete fills the cache after it |
| `url_owner` | a create answers 201 (`tests/url.test.ts:27-31`) | violated: the insert gives no owner |
| `clicks_stranded` | a buffered counter is marked for the flush job (`clickTracker.service.ts:12-13`) | violated: `SREM` done, `GETDEL` failed |
| `clicks_reuse` | clicks of a deleted code are dropped (`BACKEND_DOCUMENTATION.md:494`) | violated: another link has taken the code |
| `clicks_shutdown` | the shutdown loses no clicks (`README.md:124`, `src/index.ts:32-33`) | violated: a flush of the timer still holds a batch when the final flush, which did not find it, ends |

`StalenessIsExplained` is the counterpart of `url_deleted`: the code has stale
entries, and this says exactly which. The same loader also keeps an old expiry
after an update (`url.service.ts:184`, "so redirects aren't stale").
`SelfHeals` says that they go away, as `env.ts:37-38` hopes ("short enough to
self-heal if a cache invalidation is ever missed").

`ImplementsDirectory` covers what is spread over several awaits: a 500 may hide
a change, but no request is made twice, in part, or behind a 404 or 409, and
what a refusal says was true when it was found.

`MeAnswersItsOwner` matters where an account goes while something still refers
to it: a comparison of its password, a token in a cookie, a request in flight.
Its email may by then belong to somebody else, who must not be the answer.

`FreshPagesAreCurrent` compares what the browser takes for fresh, page and
total, with the table. What it excepts is what the code really misses: changes
of others, changes whose reply was lost, and queries whose first fetch, or whose
fetch for a page that has left the screen, was under way at the invalidation.

More sentences of the comments and docs are not what the code does, seen while
modelling and not listed as runs: a row that goes away between the two queries of
a delete or an update is a 500 where `url.service.ts:238` says `NotFoundError`;
stats asked for while a flush holds a batch miss it, where
`docs/CACHING_STRATEGY.md:91-92` says "always current"; a page and a total may
disagree, where `url.repository.ts:62-66` says they are consistent; and "step back
a page" (`LinkListPage.tsx:35`) is an empty block, so the empty page stays on the
screen, without buttons.

`SingleRebuild` is what is left of "one request rebuilds": a request that lost the
lock loads too in the end (`url.service.ts:137`), beside its holder or beside
others like it, but not before its last turn.

`EveryClickInOnePlace` has three parts. A recorded click is in exactly one place,
those of `gone` and `unsaved` excepted. As long as no fault has happened, `gone`,
`doubled` and `again` are empty. As long as the process has not exited, `unsaved`
is. So no interleaving of flushes, clicks and stats whose commands all work loses
a click or has it twice, except at the shutdown, and there it does:
`clicks_shutdown`.

### Bounds

`STAMPEDE_MAX_RETRIES` and `MAX_ATTEMPTS` are 2 instead of 5: enough for a turn
that is not the last, the last turn, and the fall-through. `MaxTime` 1 lets an
expiry be in the future and then pass; in `url_faults`, whose questions are not
about expiry of links, it is 0. Two codes are needed for a rename; with
three requests a writer, a loader and a competitor of either meet. The lock
needs two requests: one whose lock expired and its successor. Two overlapping
flushes with two clicks on two codes give every way a click can arrive between
two commands of a flush; `MaxFaults` 2 lets a failed update be followed by a
failed re-buffering or a crash. The limiter's `WINDOW` of 3 ticks and `SECOND`
of 2 make `Math.ceil` round; `MaxTime` 4 reaches the second window, and
`MaxHits` bounds the scripts that are sent again. In `accounts`, two accounts
that want one email, two passwords and two browsers make an owner, a successor
and a stranger; `MaxTime` 1 lets a token expire and a quota be refilled once, and
`QUOTA_MAX` 2 over a `DefaultQuota` of 1 tells a refill from an addition. Two links with `PAGE_SIZE` 1
make a first and a last page, and `MaxEvents` 3 lets a change by this browser, a
change by another and a failure meet. Symmetry is used for safety
only; codes, requests, clicks, flushes and links occur in no
definition by name.

`CHECK_DEADLOCK FALSE` where each request is served once, and the behaviours end
when all are answered.

### Fairness

`UrlService!FairSpec`: an accepted request goes on being served (`WF(Advance(r))`:
the event loop runs, and every datastore call returns or fails). `Advance` is
`Serve` without the step that sends a Redis command again and changes nothing of
the request: `maxRetriesPerRequest: 3` of `src/config/redis.ts` bounds these.
Redis expires cached entries (each `SET` of the cache has an `EX`). No fairness
of lock expiry, arrivals or the clock is assumed. `ClickTracker!FairSpec`: the
interval fires again and a running flush goes on; the number of faults is
bounded, as nothing settles if the database never comes back.

## What is proved

Every safety invariant and action property of the passing runs, and both
refinements, are also theorems: for every set of codes, links, requests, users,
browsers and callers, every value of the limits and bounds, and every
combination of the fault switches. What TLC shows on the instances above does
not depend on their size.

| Theorem | Property |
| --- | --- |
| `UrlServiceProofs`: `TypeCorrect`, `StalenessExplained` | `TypeOK`, `StalenessIsExplained` |
| `UrlServiceLinkProofs`: `OneCode`, `LinksAreNotOverwritten`, `AnswersAreTheTables`, `OneRebuilds`, `LocksEndByOwnerOrTTL`, `LocksAreNotLeaked` | `OneCodePerLink`, `NoLinkOverwritten`, `AnswersComeFromTheTable`, `SingleRebuild`, `LockEndsByOwnerOrTTL`, `LockNotLeaked` |
| `UrlServiceDirectoryProofs`: `DirectoryImplemented` | `ImplementsDirectory` |
| `ClickTrackerProofs`: `TrackerTypes`, `ClicksAreConserved`, `StatsAreNotOvercounted`, `BufferedClicksArePending`, `LedgerImplemented` | `TypeOK`, `EveryClickInOnePlace`, `StatsNeverOvercount`, `BufferedIsPending`, `ImplementsLedger` |
| `RateLimiterProofs`: `LimiterTypes`, `LessThanTwice`, `RetryAfterIsEnough`, `NoHitProlongsAWindow`, `OnlyOwnRequestsCount` | `TypeOK`, `LessThanTwiceTheLimit`, `WaitingEndsTheWindow`, `WindowsEnd`, `RefusedForItsOwnRequests` |
| `AccountsProofs`: `MeIsTheOwner` | `MeAnswersItsOwner` |
| `QuotaProofs`: `QuotaIsBounded`, `GenerationsAreCounted`, `RefusalsAreForLater`, `AccountsUnderQuota` | `QuotaTypeOK`, `GenerationsArePaidFor`, `RefusedUntilLater`, `MeAnswersItsOwner` |
| `LinksPageProofs`: `PagesExist`, `FreshIsCurrent` | `TypeOK`, `FreshPagesAreCurrent` |

### Assumptions

Those of the constants, each a named `ASSUME` in the module that declares them,
which TLC evaluates on every run: `Null` and `NotFound` are not values of the
data they stand beside, limits, windows and lifetimes are positive, switches are
Booleans, and the sets whose members are counted (`Reqs` of `RateLimiter` and of
`Quota`, `Links` of `LinksPage`) are finite. `LinksPage` needs at least one link
for its first page to exist in the bounded model.

### The arguments

**Types and staleness of `UrlService`.** `TypeOK` is not inductive: the bound on
`tries`, for instance, depends on where a request is. `ControlOK` says for each
request what its `pc` tells of it: which fields its request has, how often it may
have retried, and that it owes invalidations only while it is at `invalidate`.
`TypeOK /\ ControlOK` is inductive (`TypeStep`). `StalenessIsExplained` alone is
not either: a `Fill` writes a value that was read earlier. `LoadersAreCurrent`
adds that what a loader holds is the row, unless the loader is in `overtaken`.
`FreshStep` proves `Fresh == StalenessIsExplained /\ LoadersAreCurrent` step by
step, with the commits in a lemma of their own (`CommitFresh`): a commit changes
only codes it owes the invalidation of.

**Links, answers, lock.** A link is named by the request that creates it, so two
codes could only share one if a request inserted twice. `InsertersAreDone` says
that a request whose row is in the table has left its insert for good, and is
the invariant behind `OneCodePerLink`; that a create and a rename put a link
only where none was follows from the shape of a step of the table.
`AnswersComeFromTheTable` needs that what a request carries to the cache was
bound to the code at the time it was read, and that `bound` only grows. For
`SingleRebuild`, whoever waits for another's rebuild has no token, and who loads
without one has had all its turns (`LosersWaitFirst`); without faults whoever
rebuilds with a token still holds the lock (`RebuildersHoldTheLock`): of two that
load one code, one has no token, and so has waited. The
two action properties follow step by step from the types and `ControlOK`.

**The directory.** `RolesOK` says what kind of request is at which `pc`, so that
the mapping tells the phase of each request. A lemma per action of
`LinkDirectory` (`Accepted` and its neighbours) says when a step is that action;
then each await of the code is one of them, or a stutter.

**Clicks.** `TrackerOK` adds to the types where each flush is (`ControlOK`), and
for each click that it is somewhere and that its places are apart (`PlacesOK`),
as relations instead of the cardinality of a set: a step that moves a batch is
then shown click by click, and `StaysPut` deals with all the clicks it does not
move. What is counted stays counted (`CountsGrow`), which makes a stats request,
whose count of the table is older than its count of the buffer, find nothing
twice. `EveryClickInOnePlace` follows by counting a set that has one member, or
none, and from `HistoryOK`: what is gone, doubled or repeated has a fault behind it,
and what is unsaved the exit. `BufferedIsPending` is inductive on top of `TrackerOK`. For the ledger
each step settles a set of clicks (`Settled`) or leaves all fates alone
(`FateKept`); a batch that was already counted by a failed `addClicks` keeps its
fate when its copy is put back or lost.

**The limiter.** The two numbers in Redis are tied to the log of the script's
runs: the key counts the runs of the window that began last and expires a
`WINDOW` after the first of them (`WindowOK`), a run with number `n` has `n - 1`
before it in its window (`HitOK`), runs of one window are numbered apart, and
windows are more than a window apart (`PairOK`). Then a span of `WINDOW` ticks
meets at most two windows of a caller. The run numbered 1 of the one that ends
in the span came before the span, so the requests let through in it have the
numbers from 2 to the limit in that window and from 1 to the limit in the next:
`2 * limit - 1` places, all different (`PlacesDiffer`), and the pigeonhole
principle bounds the requests. `ResetSecRoundsUp` is the arithmetic of
`Retry-After`: it does not come before the expiry, and runs of a window do not
come after it, which gives `WaitingEndsTheWindow`. For
`RefusedForItsOwnRequests` the numbers below that of the refusal are counted: each
is a run of the window, and a run is the first of its request or a repeat.

**Accounts.** `SessionsOK` carries, with every token there is, in a cookie, in a
request or in an answer, that its browser gave the password of its account; ids
are not used again, and no two rows have one email (`RowsOK`), so the account is still the same when its email
has been taken again. The lemmas are about single actions over `users` and `req`,
so that `Quota` reuses them.

**Quota.** `Bill` is the account of one user: quota, generations out and what
the quota was filled to, and how far it may go wrong, which is by one per request
that was granted before a refill. `RefillsOK` says that once a call is past its
refill the date in the row is beyond its own beginning, also when another call
or a new account made it so.

**The list.** `TypeOK` is inductive, with lemmas about the sequences of the
table: a page of it, an insertion and a removal keep its links different, and so
no more than there are (an injection); Next stays within the pages because
rounding up grows with the total. `PagesOK` adds to `FreshPagesAreCurrent` what a
fetch under way has read, and that a query being fetched is not fresh.

The inductive invariants `TrackerOK`, `LimiterOK` and `PagesOK` were checked as
invariants of a run before they were proved.

### Only model-checked

The liveness properties `EveryRequestIsAnswered`, `SelfHeals` and
`EveryClickIsSettled`: they rest on fairness, hence on `ENABLED`, which the
provers do not handle. The runs that expect a violation are counterexamples and
need no proof.

## What is not modelled

Formatting of answers, logging, CORS, configuration parsing, health routes and
password and token primitives: no state, or library calls. Access grants: a
table that nothing uses. Stylesheets, lock files and containers. Prisma, Redis
and Postgres are modelled as the code uses them: single queries and scripts are
atomic.

The statistics page of the client is one read of one link, cached like the
others; its data are those of `ClickTracker`'s readers. `useFetch.ts` is a hook
that nothing imports any more. Form validation and rendering keep nothing beyond
a call.

## Plan

1. Done: the components above, the two abstract specifications with their
   refinements, and the first theorems.
2. Done: every safety property of a passing run, and the two refinements, as
   theorems.
3. Left: that the refinement carries promises down, stated as theorems of
   `LinkDirectory` and `ClickLedger` themselves (a request takes effect once, a
   settled click stays settled) and inherited by the detailed modules; the safety
   half of `SelfHeals`, that an excused entry goes with its TTL and nothing but a
   fill brings another; a bound on what a shutdown can lose, which is what the
   flushes of the timer hold at that moment.
