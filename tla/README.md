# A formal model of redirectr

redirectr answers requests for retired domains with redirects to their
successors.  It is one Go process over one MongoDB database, with two HTTP
servers: a management API that maintains redirects, and a handler that serves
them from an LRU cache.  This directory holds TLA+ modules translated from the
Go sources, TLC configurations that check them on small instances, and proofs of
the most important properties for instances of every size.

All paths below are relative to the repository; `redirect.go` and `lookup.go`
are in `internal/domain/redirect/`, `async.go`, `scheduler.go` and
`statistics.go` in `internal/domain/statistics/`.

    tlc -config MCLookup.cfg MCLookup      # one run
    tlapm RedirectsProofs.tla              # one module of proofs

Contents: 1 the system; 2 modules and how they correspond to the code; 3 what
the runs show; 4 fairness; 5 what is proved; 6 what is only model-checked;
7 what is not modelled; 8 observations; 9 plan.

## 1. The system

| part | state | operations | what makes it correct |
|---|---|---|---|
| LRU cache (`internal/util/cache/lru.go`) | a map and a doubly linked list, one mutex | Get, Put, Delete, Clear | never above capacity; the last *Capacity* keys used are there; list and map agree |
| redirect store and its writers (`redirect.go`, `internal/uc/redirects.go`, `internal/api/redirects.go`) | the `redirects` collection, its unique index; per request a position in the code | Create, Update, Delete: check, write, invalidate, audit | no stored loop; one live redirect per source; every request is answered |
| lookup service (`lookup.go`) | the cache; per lookup the result of its query | FindActive..., WarmCache, InvalidateCache, ClearCache | what is served is the active redirect, or at most one TTL old |
| redirect handler (`internal/handler/main.go`) | none of its own | validate host and path, look up, build the URL, queue a hit, answer | whatever the API accepts is served, at the right URL, with the right status code |
| rate limiter (same file) | a map of counters, one mutex | Allow, cleanup | no client gets more than its share, none is refused for others |
| asynchronous statistics (`async.go`) | two channels, worker goroutines, two collections | queue a hit or a job, record, aggregate, Start, Stop | no hit counted twice; aggregates are true; stopping ends |
| aggregation scheduler (`scheduler.go`) | position of its run | on start and on ticks: fetch redirects, find missing aggregates, queue jobs | aggregates become complete |
| process lifecycle (`main.go`, `internal/shell/main.go`) | phase of start or shutdown | Configure, serve, Shutdown, Teardown | what is in use is not disconnected; the process ends |
| users, sessions, bootstrap (`internal/domain/iam`, `internal/uc/bootstrap.go`, `internal/api/auth.go`, `internal/api/middleware.go`) | two collections, a unique index | bootstrap, login, logout, session check | users are not made without bound; who was told that a user exists can log in; a session that has ended opens nothing |
| audit log (`internal/infra/audit`) | the events collection | Create | the newest event describes the redirect |
| health (`internal/infra/health`), configuration, utilities | none | pure functions and I/O | - |

How they interact.  Writers and lookups share the collection and the cache:
a writer deletes the cache entry of the source it has stored, and a lookup that
misses fills it.  The handler queues a hit without blocking; workers take hits
and aggregation jobs from two buffered channels; the scheduler queues jobs for
them.  `main` stops the API server, then the handler server, then (`Teardown`)
the statistics, and then disconnects the database.

What is hard.  There is no lock or transaction around more than one call to
MongoDB, so every check is separate from the write that relies on it, and every
answer read from the store may be old when it is cached.  Calls fail, and a write
that fails may have been applied.  A process may die at any point and find its
collections as it left them.  `select` in the workers chooses at random.
`PROJECT.json` lists each hazard at the line where it bites, with the properties
that would catch it.

## 2. Modules

| module | models | checked by | proved in |
|---|---|---|---|
| `LRUOps` | the cache's methods as functions on a cache value | through the others | `LRUOpsProofs` (lemmas) |
| `LRUCache` | abstract: a cache used through `LRUOps` | | |
| `LRUList` | the map and the linked list of `lru.go` | `MCGuarded`, implements `LRUCache` | `LRUListProofs` |
| `Redirects` | the writers of the API over the collection | `MCRedirects` | `RedirectsProofs` |
| `Lookup` | `Redirects` composed with the lookup service | `MCLookup` | `LookupProofs` |
| `Statistics` | handler hits, workers, scheduler, shutdown | `MCStatistics` | `StatisticsProofs` |
| `RateLimiter` | Allow and cleanup | `MCGuarded` | `RateLimiterProofs` |
| `Access` | abstract: sessions that open, let callers in and end | | |
| `Iam` | bootstrap, login, logout, the session check | `MCServers`, implements `Access` | `IamProofs` |
| `Handler` | one request through the redirect handler, and the validation a redirect passed | `MCServers` | `HandlerProofs` |

The unit of interleaving is what the code makes atomic: the body of a method
under the cache's or the limiter's mutex, a channel operation, or one call to
MongoDB with the local computation after it.  Definitions that begin with the
comment "Mutant of" are plausible mistakes, used by nothing; `PROJECT.json` says
which property each of them breaks.

**LRUOps, LRUCache, LRUList.**  A cache value in `LRUOps` is a place in the
recency order and an entry for each key.  `LRUList` has the pointers: `nodes`
are the keys of the Go map, `links.next` and `links.prev` the fields of the
nodes with the two sentinels, and `RemoveNode`, `AddToFront`, `MoveToFront` are
the methods of those names.  Each exported method that changes state is an
action for each of its paths (GetHit, GetMiss, PutExisting, PutNew, DeleteHit,
DeleteMiss, Clear).  Auxiliary variables `pos`, `held`, `since` give the
refinement mapping and the history that `KeepsRecent` needs.  `Lookup` uses
`LRUOps` for its cache, which `LRUList`'s refinement justifies.

**Redirects.**  A writer is a goroutine that serves one request at a time; its
`pc` is the call it makes next.

| code | actions |
|---|---|
| handler and command (`api/redirects.go`, `uc/redirects.go`) | Post, Put, Delete |
| count of live redirects with the source, direct self-reference | CountSources, CountFails |
| `checkCircularChain` | WalkMeets, WalkOn, WalkEnds, WalkCut (a read error ends the walk and lets the redirect pass) |
| `UTMTags.Validate` after the checks | in Accept |
| reading the document to be deleted | DeleteFinds, DeleteFails |
| InsertOne; Save's UpdateOne | Write, WriteRefused (unique index), WriteFails, WriteUnacknowledged |
| cache invalidation | Invalidate |
| audit event | Audit, AuditFails |
| process restart, with one more attempt at the unique index | Restart |

A domain is a name, with or without capitals and with or without surrounding
blanks, so that `strings.ToLower`, `TrimSpace` and `EqualFold` are what they are
in the code.  `Written` has the rule by which Save omits `utmTags` that are nil.
`stale`, `unchecked`, `behind` and `crossed` are auxiliary: no guard reads them.
`stale[w]` says that another writer has written a live redirect since *w* began to
check, or that a read of *w*'s walk failed; `unchecked` that such a writer has
written.  They state the exact exception under which loop protection holds.

**Lookup** extends `Redirects`, so that writers and lookups interleave call by
call.  A lookup is LookupHit, or LookupExpired and DropExpired, or LookupMiss,
then FindHit and Fill, or FindMiss.  WarmCache is WarmQuery or WarmFails, then
WarmPut for each result, then WarmEnds.  Tick is the clock; an entry's age
saturates at the TTL, beyond which nothing is told apart.  `off` and `mark`
(auxiliary) count for how long a cached answer has been wrong, and why.

**Statistics.**  Accept and QueueRedirectHit are the handler; TakeHit, RecordHit,
RecordFails, TakeJob, CountRedirectHits, GetUniqueIPsForPeriod,
CreateAggregatedStats, AggregationFails and StopWorker the workers' loop, one
action per call; FetchActive, FetchFails, FindExisting, FindMissing,
QueueAggregationJob and StopScheduler the scheduler; Shutdown the steps of `main`
and `Teardown`; Exit the end of the process after them; Restart a process that
dies, or has exited, and is started again with the collections alone.  With the
process goes what it had in memory (`MemoryGone`): requests, both channels, and
what its workers hold; the hits among them are lost (`lost`, auxiliary).  A calendar says when periods begin
(`calculatePeriodTimestamp`) and how long they are taken to be
(`calculatePeriodBounds`), which differs on a day of 23 or 25 hours; the end bound
is included, as in `statistics.go:117`.  A job carries, as auxiliary fields, the hits
known when it was queued and whether one was stored between its two queries.

**RateLimiter.**  FirstRequest, NewWindow, CountRequest and Refuse are the four
paths of Allow, Cleanup is one sweep.  A limit of 0 lets one request through per
window, as the first request of a client is never counted against the limit;
`Quota` says so.

**Iam, Access.**  A caller is a request to the management API; its `pc` is the
call to MongoDB it makes next.

| code | actions |
|---|---|
| `handleBootstrap`, `Bootstrap` (`uc/bootstrap.go`) | Bootstrap, then CountSome or CountNone |
| `CreateUser` | CreateUser, EmailNotAvailable (unique index), CreateUnacknowledged |
| `handleLogin`, `AuthenticateUser` | Login, then InvalidCredentials or Authenticated |
| `CreateSession` | CreateSession |
| `authenticated`, `authenticatedSession` (middleware) | Request, then SessionRefused or SessionFound, then PrincipalFound |
| the handler behind the middleware; `handleLogout` | OtherHandler; DeleteSession, DeleteUnacknowledged |
| a call that fails; process restart, with one more attempt at the index | ReadFails, WriteFails; Restart |

An address is a mailbox with or without capitals; passwords are compared, their
hash is not modelled.  `issued`, `ended` and `owners` are auxiliary: sessions ever
stored, sessions whose logout was answered with success, and what the client was
told of users.  `Access` has no store and no clock: a session is unused, open or
closed, and a caller is inside with one or not.  `Status` and `Inside` are the
refinement mapping: a session is open while it is stored and has not expired,
and a caller is inside from the check of its session to its answer.

**Handler.**  The steps are those of `handleRedirectWithConfig` in their order:
TooManyRequests, Preflight, RefuseRequest (method, host, length, path:
`Refusal`), LookupFails, LookupMisses or LookupFinds, InvalidRedirectURL or
PerformRedirect.  `Location` and `BuildFails` are `buildAndValidateRedirectURL`;
CreateRedirect is what the API's `Validate` and `Create` make of a redirect.  A
path is a sequence of a few characters that stand for the classes the code
tells apart; query parameters and UTM tags are a name and one of four kinds of
value; lengths are counted in units.  The limiter, the cache and the queue that
requests share are `RateLimiter`, `Lookup` and `Statistics`; here TooManyRequests may
happen to any request, and a cached result may have lost its type.

**MCServers** puts `Iam` and `Handler` side by side in one run, **MCGuarded** does so
with `LRUList` and `RateLimiter`, the two structures that a mutex guards.  They share
no variable, so each is explored while the other has not begun.

## 3. Runs

Every run was also tried with a mutant of the code for each property, which TLC
finds violated under the same configuration: the bounds are large enough for
the mistake to show.

| run | instance | states | shows |
|---|---|---|---|
| `guarded` | cache of 3 with 4 keys, 2 values; 6 requests, 2 clients, limit 2, window 3, entries dropped after 4, clock to 6 | 88 thousand | the list is a correct LRU cache; the limiter's shares are kept |
| `redirects` | 2 writers on 2 domains with 2 redirects, or one at a time on 3 with 3; typed in capitals, statuses active and inactive, good and bad tags; checks and writes may fail | 394 thousand | loops, duplicates and a wrong audit trail only where writers raced or calls failed |
| `redirects_walk` | 2 writers, 3 names, targets of 2 of them, 2 ids; no unique index | 408 thousand | each request is answered, whatever changes during its walk |
| `lookup` | 1 writer, 1 reader, WarmCache, 2 source hosts, 1 redirect, cache of 1, TTL 1; queries and writes may fail | 500 thousand | when a cached answer can be wrong and for how long |
| `statistics` | 2 workers, 2 hits, 2 addresses, periods of 2 ticks or of 3 that are taken for 1; buffers of 1; calls may fail, the process may die | 1.5 million | hits, aggregates and the order of shutdown |
| `statistics_live` | 1 worker, 2 hits, buffers of 1; calls may fail | 12 thousand | shutdown ends, hits are not starved |
| `servers` | 2 callers, 1 mailbox, 2 passwords, 3 user ids, 2 sessions, TTL 1, clock to 2; 284 requests and 88 redirects asked for; calls may fail | 190 thousand | what lets requests into the API, and what its redirects do to requests |
| `loop_race`, `moved_source`, `warmed_type`, `frozen_aggregate`, `undrained` | as small as shows it | | what the README or a comment says and the code does not do, see below |

Properties of the passing runs, by hazard:

* `LinksFollowRecency`, `SizeBounded`, `KeepsRecent`, `Refinement` (LRUList): both
  directions of the list enumerate exactly the mapped keys in the order of last
  use; a key is evicted only after *Capacity* others were used since.
* `NoLoopUnlessUnchecked`: active redirects form no loop unless a writer's checks
  were overtaken or cut short.  `LiveSourcesDistinct`: with the unique index no two
  live redirects share a source, whatever races or fails; without it, as its
  creation may have failed, the same exception holds as for loops.
* `AuditTellsStore`: the newest audit event of a redirect describes it, unless the
  client of its last change got an error or no answer, or two requests for it
  crossed.
* `Answered` (liveness): each request ends, even if its walk enters a loop that is
  stored, and while another writer stores, moves and deletes the redirects it
  follows.
* `BoundedStaleness`: whatever raced, was lost or restarted, an answer still served
  from the cache was right at most a TTL and one query-to-Put delay ago.
* `CoherentUnlessRaced`: a wrong answer in the cache has one of four reasons: its
  writer is about to invalidate it, a write overtook the query it came from, its
  redirect took another source, or its write was applied and reported as failed.
* `HitInOnePlace`: a hit is in a request, in the channel, with one worker, in the
  collection, or lost, never in two of these, and in none of them twice.
* `NoHitForgotten` (of steps): from its request on a hit is always in one of them,
  and once recorded or lost it stays so.  It is lost to a full channel, a failed
  insertion or the end of the process; a worker that is stopped has none.
* `AggregateBounded`: an aggregate has at least the hits known when its job was
  queued and at most those of its period and the instant after it.
  `UniqueWithinCount`: it has more addresses than hits only if a hit was stored
  between its two queries.
* `StoppedBeforeDisconnect`, `ShutdownEnds`, `QueuedHitsLeave`: the order and the end
  of a shutdown, and no starvation of hits by jobs.
* `TwiceTheLimit`, `RefusedOnlyWhenFull`: no stretch of a window's length sees more
  than twice the limit of one client; a client is refused only for its own
  requests.

* `UsersBounded`: bootstraps that run together may each create a user, but there are
  never more than callers.  `OwnersCanLogIn`: with the unique index, who was told
  that a user was created can log in, in whatever case the address is typed.
* `EndedSessionsGone`, `AccessRefined`: after a logout answered with success the
  session is gone for good; a request is let in only with a session that is open at
  that moment, and none that has ended opens again.
* `AcceptedIsServed`: between a redirect that the API accepted and a request for
  it comes nothing but the listed reasons: a refusal of the request itself, blanks
  around a domain, tags that the handler refuses as parameters, the length of
  both together.
* `LocationKeepsRequest`: the client comes to the target with the segments of its
  path, its parameters and the tags.  `MethodKept`: methods with a body get 307 or
  308 and no others do, even if the cache has lost the type.
* `HandlerTypeOK`: besides types, a hit is queued for exactly the requests that are
  redirected.

What the violations show:

* `loop_race` (`redirect.go:292`): creates of a->b and b->a that run together are
  both accepted, although `README.md:16` says circular redirects are rejected.
* `moved_source` (`redirect.go:352`): an update that changes the source, or a delete
  that races one, leaves the old source in the cache, so that it is served although
  no active redirect has it.
* `warmed_type` (`lookup.go:174`): entries put by WarmCache have no redirect type;
  a 302 redirect is answered 301 until its entry expires.
* `frozen_aggregate` (`scheduler.go:159`): the aggregate of the period that is
  running is computed once and then skipped, so that later hits are missing.
* `undrained` (`async.go:212`): a worker that is told to stop may choose that case
  while hits are in the channel.  When all have returned, Stop does, and the hits
  are lost with the process, although `README.md:18` says that a "graceful shutdown
  [...] drains in-flight work" and `main.go:61` logs "draining".

Why the bounds suffice. Two writers are enough for each race on record, as a race is
between the check of one and the write of another; a loop of three domains is the
shortest that is neither direct nor mutual. The run `redirects` has both: two
writers while there are no more than two redirects and two domains (`Two`), and one
at a time while there are up to three of them and no failed call or crossing of
writers has left a mark (`Three`); steps that leave both are not taken
(`WithinTwoOrThree`, an action constraint). Requests type domains in capitals, so
that a source or a target that is not lowered is seen as another domain. In
`redirects_walk` one writer walks while the other changes what it walks on. The
unique index, which could only refuse writes, and restarts, which end every request,
are left out (`WalkSpec`), and so are failing calls, which end a request sooner. Two
ids make a loop of two, and a third source leads into it: that is a walk that must
come back to a domain other than its source to end. The state is viewed without the
auxiliary variables, which no guard reads and `Answered` does not mention
(`WithoutAuxiliary`), and without the cache, which stays empty. Two writers with
three redirects are too many for TLC; loops of any length beside any number of
writers are the theorem `LoopProtection`. The run `lookup` has one writer, so that a
delete that undoes the update of another occurs only in the theorem `CacheCoherent`.
One redirect and two hosts are enough for a redirect that moves and comes back; a
cache of one entry evicts on every second domain. Two workers are enough for two
jobs under one key. Buffers of one are full at once. Six requests fill the windows
of a client twice and leave two for another. Two callers are enough for two
bootstraps, or for a logout beside another request with its session; three user ids
are one more than they could create, so that `UsersBounded` can fail. A TTL of one
and a clock to two let a session be stored, used on its last instant and expire. The
requests of `servers` vary a plain GET in method and host, in the path (all paths of
up to three characters from slash, dot and letter, and of two from all classes), and
in the query (all pairs of parameters); the redirects vary in how their domains are
typed, in status and type, and in tags. A query of 3 units and a URL of 7 can be too
long for the tags alone, for the request alone and for both together. Bounds that
are not of the code: `IdsLeft` (ids do not run out), `Delay` (ticks between a query
and the Put of its result), `MaxTime` (the clock stops), and that each hit or
request happens once.

Symmetry is used only in runs with safety properties and over sets whose members
the specification and the configuration treat alike (writers, ids, names, keys,
hits, addresses, workers, clients, callers, users, sessions, passwords).  The requests
of `guarded` differ by name only; there they are made in the order of their numbers,
which does the same at less cost.  In `statistics` the clock stops and a process that has
exited stutters (`Exited`), so that a deadlock is checked in every run.

## 4. Fairness

* `Iam`, `Handler`, `Lookup`, `LRUList` and `RateLimiter` have safety properties only and
  assume no fairness.
* `Redirects`: weak fairness of each writer's Proceed (`WritersFair`).  A goroutine
  that serves a request is scheduled, and the driver's calls end, by their result
  or their timeout, 30 seconds (`config/mongo.go:18`).  Nothing makes clients send
  requests, and nothing keeps the other writer from taking any number of them
  while one walks.
* `Statistics`: weak fairness of each worker and of the scheduler's run, for the same
  reason.  Strong fairness of TakeHit and StopScheduler: Go's `select` chooses
  uniformly among the ready cases, so that one that is ready again and again is
  taken.  Weak fairness of Shutdown once the signal has arrived; the signal itself
  need not come.  Weak fairness of Exit, when every worker has returned.  The two
  servers' Shutdown shares a deadline of 15 seconds, after
  which it goes on, so that it waits for no request.  The run with these properties
  has no crashes (`Crashing` is FALSE): a process that dies answers no shutdown.

## 5. Proofs

`tlapm` proves these for all values of the constants that satisfy the modules'
assumptions; the runs above check the same definitions on their instances.

| theorem | establishes |
|---|---|
| `ListTypeCorrect` | TypeOK of LRUList |
| `LinkedInRecency` | LinksFollowRecency, for any keys and any capacity |
| `CapacityKept` | SizeBounded, a capacity of 0 included |
| `RecentKept` | KeepsRecent |
| `ListImplementsCache` | Refinement: every method of the linked list is a step of LRUCache |
| `LookupTypeCorrect` | LookupTypeOK, with what each goroutine holds at each step |
| `StalenessBounded` | BoundedStaleness, for any TTL and delay and any number of readers and writers |
| `CacheCoherent` | CoherentUnlessRaced |
| `StatsTypeCorrect` | StatsTypeOK |
| `DisconnectLast` | StoppedBeforeDisconnect, for any number of workers |
| `HitNeverDoubled` | HitInOnePlace |
| `HitsAccounted` | NoHitForgotten: no step forgets a hit |
| `AggregateHoldsItsHits` | AggregateBounded, for any calendars and periods |
| `AddressesCounted` | UniqueWithinCount |
| `RedirectsTypeCorrect` | TypeOK, with what each step uses: no nil redirect, no unknown id |
| `LoopProtection` | NoLoopUnlessUnchecked, for loops of any length and any number of writers |
| `SourcesDistinct` | LiveSourcesDistinct, with the unique index and without it |
| `AuditTrail` | AuditTellsStore |
| `RateTypeCorrect` | RateTypeOK |
| `RateBounded` | TwiceTheLimit |
| `RefusalsJustified` | RefusedOnlyWhenFull |
| `IamTypeCorrect` | IamTypeOK, with what each request holds at each step |
| `BootstrapBounded` | UsersBounded, for any number of callers |
| `OwnersKept` | OwnersCanLogIn |
| `LogoutFinal` | EndedSessionsGone |
| `AccessImplemented` | AccessRefined: every step of Iam is one of Access, or none |
| `HandlerTypeCorrect` | HandlerTypeOK |
| `ServedUnlessRefused` | AcceptedIsServed, for paths and queries of any length and any limits |
| `MethodPreserved` | MethodKept |
| `RequestKept` | LocationKeepsRequest, for paths of any length |

**Assumptions.**  Constants are as free as the code leaves them.  `Capacity` is any
natural number (1000 in `redirect/main.go:22`), and the keys in use are finitely
many; the dummies are no keys.  `Periods` is a sequence of periods that is not empty,
the four of `scheduler.go:145` in the program; buffers, clock, TTL and delay are any
numbers; in a calendar every period begins at 0.  The others say that `None` is none
of the values it stands beside (`NoResultAssumption`, `NoEntryAssumption` and the
like): the code tells nil from a value.  TLC evaluates all of them in the runs, and
has found each inductive invariant below to hold there.

**The linked list.**  `ListInv` is inductive: `Ranks` says that `pos` has a rank for
exactly the mapped keys, `Chained` that the links are a chain from Head to Tail in
which the place of each node is its rank.  A chain is stated locally (`Chain`: next
and prev undo each other, and the place goes up by one) and not by walking the
list, which would be a recursion; `LinksFollowRecency` follows because places are
distinct numbers.  The steps are a few facts about chains: a node is taken out
(`RemoveChain`) or put in front (`AddChain`), and the same on the links of the code
with the ranks of `LRUOps` (`MoveChained`, `RemoveChained`, `AddChained`).  What makes
PutNew right is that the node before Tail is the one with the highest rank
(`AddedList`).  KeepsRecent needs history: `RecencyInv` says that every key ahead of a
node has been used since that node was, and that a key put and no longer in the list
has been overtaken by *Capacity* others.  The refinement is proved method by
method: `HitOps` and `NewOps` say what LRUOps computes in a state of the list.

**Lookups.**  Cache values keep `Sound` (`LRUOpsProofs`: distinct ranks up to the
capacity, an entry under cached keys only).  What a writer does to the state it shares
is one lemma, `WriterEffect`: it writes one redirect and is then about to invalidate or
has answered with an error, or drops the source it wrote, or does neither.
`StaleInv` is what bounds staleness: a result has not been wrong for longer than it
has been carried, and a fresh entry not for longer than its age and one delay.
BoundedStaleness alone is not inductive, because it says nothing of the results
that goroutines are about to put.  `CoherentInv` adds the same: such a result is right
unless a write overtook it.  Sources are kept in lower case (`LowerCase`), so that
the key a writer invalidates is the one under which lookups cached it.

**Statistics.**  `TypeInv` says what a worker holds at each step (`Fits`) and that a
scheduler at work has periods left, a suffix of all of them.  HitInOnePlace
counts places and is not inductive: `Apart` adds that each of the five sets of hits
(in a request, queued, held by a worker, stored, lost) meets no other, and that
a channel, the workers and the collection each have a hit once.  NoHitForgotten
follows step by step: what leaves one set enters another (`WorkerKeeps`,
`HandlerKeeps`), and the end of a process moves the first three sets to the fifth.
For aggregates,
`AggInv` says what a job knows at each of its steps (`Worked`): once counted, its count
lies between the hits known when it was queued (`Least`) and those stored by now
(`Most`).  As hits are only added, the upper bound holds on when another worker stores
more; a job that was queued earlier and writes last satisfies the same bounds,
so nothing need be said of the order of writes.  `StopInv` orders the shutdown: the phase
that waits for workers begins with the scheduler stopped.

**Loop protection.**  That the store is free of loops is not inductive: one must
know that an accepted redirect closes none, and the walk that made sure took
many steps, during which the store may have changed.  The inductive invariant
`IInv` is TypeOK, CheckedDistinct (what LiveSourcesDistinct says of a store without
the index), LoopFree (no set of domains, stored or not, in
which each has an active redirect into the set), and for each writer `Safe(w)`:

* Prepared: the source of its redirect is in lower case, and a create has no id yet;
* Counted: from the walk on, unless the writer is stale, no other live redirect has
  its source;
* Walked: call a set of domains closed if each of its members is the source or has
  an active redirect into the set (`Closed`).  While the writer walks, unless stale,
  each closed set that holds the target holds the domain the walk has come to;
* Accepted: when it may write, no closed set holds the target: such a set would be
  a loop together with the redirect, or is one already.

A loop that the write would close is a closed set of the old store that holds
the target.  The walk never leaves such a set, because sources are distinct and
the redirect it follows is the only one; when it ends, it has come to a domain
that is not the source and has no active redirect, which no closed set holds.
The walk relies on distinct sources, so both facts are proved together.  That the
index keeps sources distinct is a fact of each write (`SourcesIndexed`).  Another writer's write of a live redirect makes the
writer stale; the write of a deleted one only removes edges.  The argument counts
nothing and does not depend on `visited`, which is needed for termination only.

**Audit trail.**  `AuditInv` adds `Described`: a writer between its write and its event
holds what the store has, unless another request crossed it.

**Rate limiter.**  `RateInv` says of each entry that its counter is the number of
requests let through since its window started (`Counted`), that a client without
an entry has had none for a window's length (`Quiet`), and that no more than the quota
were let through in the window's length before its window started.  Quiet is where
the cleanup matters: it needs 2 * CleanupInterval >= Window (`WindowAssumption`, one
minute and five in the code).  An interval of a window's length meets at most
two windows, hence the bound.  Lemmas on cardinalities rest on the theorems of
`FiniteSetTheorems`.

**Users.**  UsersBounded is not inductive: a caller that has counted no user may
still create one.  `CountInv` adds those callers: users and callers about to create
together are at most as many as callers.  A caller joins the second
only when there are no users, and moves from the second to the first.  It needs a finite
set of callers (`CallerAssumption`) and the library's facts on cardinalities.
OwnersCanLogIn rests on two facts: what a caller was told of is stored
(`OwnersStored`), and while the index exists no two users have one address
(`IndexKept`).  Restart builds the index only if that is so.

**Sessions.**  A session is deleted by a logout and never stored again, because
every insert takes an id that was not issued; this is in IamTypeOK.  The
refinement is proved action by action: CreateSession is Open, SessionFound is
Enter, both outcomes of a deletion that was applied are LogOut, Tick is Expire of the sessions that
reach their end, Restart is Leave of all callers, and every other step leaves
`Status` and `Inside` alone or is a Leave.

**Handler.**  `HandlerInv` carries from the lookup to the answer what the API made of the
redirect: domains in lower case (`StoredValid`), and the result being what the
store has.  The heart is `BuildSplits`: a URL that is not built fails for a reason
that the request has with a plain redirect, that the redirect has with a plain
request, or for the length of both, since each parameter comes from one of
the two (`TagsApart`).  A lookup that misses is for a padded source (`KeyFits`).

**Paths.**  LocationKeepsRequest says that normalizing a path leaves its segments.
Both `ReplaceSlashes` and `Segments` are defined by the places of a path whose
characters stay (`ItemsAt`), not by folds, so that no induction is needed: if the
places that two paths keep correspond in order and have the same characters, what
they keep is the same (`SameItems`, by counting).  Halving a run of slashes moves the
place of each character to the left by the slashes dropped before it, and a slash that
is dropped follows one that stays (`HalvedBefore`), so that the last slash of each run,
the one that Segments looks at, has its counterpart (`ReplacedSegments`).  The slash in
front and the one at the end are the easy cases (`RootedSegments`, `TrimmedSegments`).

## 6. Only model-checked

Liveness (`Answered`, `ShutdownEnds`, `QueuedHitsLeave`): fairness and ENABLED are beyond
the proof system.  That a walk ends for every number of domains would also need an
induction along the walk; TLC checks it as part of `Answered`.  All other properties of
the passing runs are proved.  Those of the violation runs are false of the code, so
that there is nothing to prove.

## 7. Not modelled

* Health: the worst of the statuses of its indicators, of which there is one, a
  ping of MongoDB.  It keeps no state.
* The escaping of URLs beyond what `EscapedLength` and `QueryLength` count, and the
  errors of `url.Parse`: InvalidRedirectURL may happen to any path with a percent sign.
* Which client address the handler takes from the headers; security and CORS
  headers, which are the same for every answer; HEAD is taken as GET, and methods
  with a body as POST.
* `cacheNegativeResult`: `findOne` has already mapped the driver's error when the
  lookup compares it with `mongo.ErrNoDocuments`, so that nothing is ever cached for
  an unknown host (`FindMiss`).
* The hashing of passwords and the generation of ids: a password matches or does
  not, and an id is new.
* Configuration, the database client, logging and Sentry: I/O.
* Reads of the API (lists, statistics, audit events): they change nothing.
* Replica sets.  `config/mongo.go:19` selects `readpref.Nearest()`, so that with a
  replica set in the connection string, which `README.md:133` allows, a read may be
  answered by a secondary that lags behind.  Every module reads the current store:
  the database stands alone, or the member that answers is up to date.  This matters
  where a read decides: the walk and the duplicate check (`Redirects`), the fill of the
  cache and its warming (`Lookup`), the count of users and the session check
  (`Iam`), the figures of an aggregate and the test for an existing one (`Statistics`).
* Indexes other than the two unique ones, and a limiter that is off.
* The start of the process before both servers listen.  A server that failed to
  listen is one that takes no request, which every model allows.

## 8. Observations

Facts about the code met while modelling that have no run of their own.  Where a line
of the repository says otherwise, it is quoted.

* A host without an active redirect is answered 500, although `handler/main.go:202`
  says "If no redirect found, return 404": `findOne` has mapped the driver's error
  before `lookup.go:88` compares it, so that the branch for it is dead (`LookupMisses`).
* Hits of requests that outlive the deadline of the shutdown are queued for workers
  that may have returned (`main.go:65`); they are lost with the process, as those of
  `undrained` are.
* Two jobs for one aggregate may be under way at once, and the one that counted
  earlier may write last (`async.go:303`); `AggregateBounded` is what remains true.
* A hit on the boundary of two periods is counted in both (`statistics.go:117`).
* Days last 24 hours in `calculatePeriodBounds`, also when the clocks change
  (`async.go:330`): of a day of 25 hours the last one is in no aggregate, and that of
  23 shares an hour with the next.  `AggregateBounded` says what is left.
* `BurstSize` is configured (`handler/main.go:72`) and read nowhere; the scheduler's
  lookback is only logged.
* The domain that is validated is trimmed, the one that is stored is not
  (`uc/validators.go:41`): a source with blanks around it can never be matched, and
  with a target that has them every request is answered 400.
* UTM tags are validated by other rules than the handler's: it refuses values
  that look like an attack, and queries of more than 1000 characters, which five
  long tags exceed once escaped.  Such a redirect answers 400 to every request.
* Cache-Control is set after WriteHeader (`handler/main.go:627`) and never sent.
* The decoded path is put into the Location as it is (`handler/main.go:350`): an
  escaped `?`, `#` or `%` of the request means something else to the client.
  LocationKeepsRequest excepts such paths.
* One pass of `ReplaceAll` halves a run of slashes and does not remove it
  (`handler/main.go:406`; the comment says "remove double slashes"); the segments of
  the path stay what they are.
* Bootstraps that run together may create a user each (`uc/bootstrap.go:23`), as many
  as callers; only one can have a given address if the index exists.
* A server that fails to listen is noticed only after the shutdown signal.

## 9. Plan

The order was: the cache and its abstraction; the writers; lookups composed with
the writers; statistics and shutdown; the rate limiter; proofs about writers and
limiter; users and sessions with their abstraction; the handler's pipeline and
what it shares with validation; proofs about both; crashes and calendars in
`Statistics`; proofs about the linked list and its refinement, about lookups and
about statistics; the proof that paths keep their segments.  What is left:

1. To shorten the longest proofs, above all the refinement steps of `LRUList` and the
   steps of the writers in `LookupProofs`, where one lemma per operation would do.
2. To state further what a step may never do, where a property of states does not
   say it, and to prove it from the invariants that are there.
