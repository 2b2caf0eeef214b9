------------------------------- MODULE Lookup -------------------------------
(***************************************************************************)
(* The lookup service (domain/redirect/lookup.go) beside the writers of    *)
(* module Redirects, with which it shares the collection and the cache.    *)
(*                                                                         *)
(* A lookup is up to four steps: the cache's Get, the Delete of an expired *)
(* entry, the query, the Put.  Each takes the cache's mutex or calls       *)
(* MongoDB, and nothing holds between them.  WarmCache is one more         *)
(* goroutine that queries once and then Puts, domain by domain.            *)
(***************************************************************************)
EXTENDS Redirects

CONSTANTS
  Reader,     \* goroutines that serve lookups
  Host,       \* the Host headers they are asked for, as domains
  TTL,        \* cacheTTL in ticks of the clock
  Delay,      \* bound: ticks between a query and the Put of its result
  WarmLimit   \* WarmCache's limit, 100 in shell.Configure

ASSUME HostAssumption == Host \subseteq Domain
ASSUME TimeAssumption == TTL \in Nat /\ Delay \in Nat /\ WarmLimit \in Nat

VARIABLES
  rpc,   \* what each reader does next
  key,   \* the normalized domain it looks up
  found, \* what the query returned to it
  warm,  \* WarmCache: what is still to be put, with what the query returned
  wpc,   \* WarmCache: "query", "put" or "done"
  \* Auxiliary, read by no guard:
  off,   \* ticks for which a cached answer has not been the right one
  mark   \* why the entry of a domain may be wrong without a write under way

lookupVars == <<rpc, key, found, warm, wpc, off, mark>>
vars == <<redirectVars, lookupVars>>

Normalized(d) == TrimSpace(ToLower(d))

\* The part of a redirect that an answer carries.
Carried(doc) == [target |-> doc.target, type |-> doc.type, tags |-> doc.tags]

\* The answers that are right for domain d, at most one if sources are unique.
Answers(d) == {Carried(docs[i]) : i \in ActiveIds(d)}

\* A cached answer; age is time.Since(CachedAt), as far as the TTL tells apart.
Entry(answer) == [answer |-> answer, age |-> 0]

\* Mutant of Fresh: the age of an entry is not looked at.
FreshAlways(e) == TRUE

Fresh(e) == e.age < TTL

\* What a goroutine carries from its query to its Put: the answer and,
\* auxiliary, the ticks since, those during which the answer was wrong, and
\* whether a write has changed the right answer meanwhile.
Fetched(d, answer) ==
  [domain |-> d, answer |-> answer, wait |-> 0, off |-> 0, overtaken |-> FALSE]

LookupInit ==
  /\ RedirectsInit
  /\ rpc = [r \in Reader |-> "idle"]
  /\ key = [r \in Reader |-> None]
  /\ found = [r \in Reader |-> None]
  /\ warm = [i \in Id |-> None]
  /\ wpc = "query"
  /\ off = [d \in CacheKey |-> 0]
  /\ mark = [d \in CacheKey |-> "none"]

-----------------------------------------------------------------------------
\* A step of the cache; what is no longer cached has nothing to explain.
SetCache(c, d, ticks, why) ==
  /\ cache' = c
  /\ off' = [x \in CacheKey |-> IF x \notin LRU!Cached(c) THEN 0
                              ELSE IF x = d THEN ticks ELSE off[x]]
  /\ mark' = [x \in CacheKey |-> IF x \notin LRU!Cached(c) THEN "none"
                               ELSE IF x = d THEN why ELSE mark[x]]
  /\ UNCHANGED <<docs, indexed, writers>>

GotoR(r, label, d, f) ==
  /\ rpc' = [rpc EXCEPT ![r] = label]
  /\ key' = [key EXCEPT ![r] = d]
  /\ found' = [found EXCEPT ![r] = f]
  /\ UNCHANGED <<warm, wpc>>

Touch(d) == SetCache(LRU!CacheGet(cache, d), d, off[d], mark[d])

PutFetched(f, answer) ==
  SetCache(LRU!CachePut(cache, f.domain, Entry(answer)), f.domain, f.off,
           IF f.overtaken THEN "raced" ELSE "none")

LookupHit(r, d) ==
  /\ rpc[r] = "idle"
  /\ d \in LRU!Cached(cache)
  /\ Fresh(LRU!Hit(cache, d))
  /\ Touch(d)
  /\ UNCHANGED <<rpc, key, found, warm, wpc>>

LookupExpired(r, d) ==
  /\ rpc[r] = "idle"
  /\ d \in LRU!Cached(cache)
  /\ ~Fresh(LRU!Hit(cache, d))
  /\ Touch(d)
  /\ GotoR(r, "drop", d, None)

LookupMiss(r, d) ==
  /\ rpc[r] = "idle"
  /\ d \notin LRU!Cached(cache)
  /\ GotoR(r, "find", d, None)
  /\ UNCHANGED <<redirectVars, off, mark>>

\* Deletes whatever is cached by now, expired or not.
DropExpired(r) ==
  /\ rpc[r] = "drop"
  /\ SetCache(LRU!CacheDelete(cache, key[r]), key[r], 0, "none")
  /\ GotoR(r, "find", key[r], None)

FindHit(r) ==
  /\ rpc[r] = "find"
  /\ \E answer \in Answers(key[r]) : GotoR(r, "fill", key[r], Fetched(key[r], answer))
  /\ UNCHANGED <<redirectVars, off, mark>>

\* findOne never returns mongo.ErrNoDocuments, so that an unknown domain is
\* an error like any other and nothing is cached for it.
FindMiss(r) ==
  /\ rpc[r] = "find"
  /\ Answers(key[r]) = {} \/ "query" \in Faults
  /\ GotoR(r, "idle", None, None)
  /\ UNCHANGED <<redirectVars, off, mark>>

Fill(r) ==
  /\ rpc[r] = "fill"
  /\ PutFetched(found[r], found[r].answer)
  /\ GotoR(r, "idle", None, None)

-----------------------------------------------------------------------------
ActiveDocs == {i \in StoredIds : docs[i].status = "active"}

\* Which redirects are the newest is left open.
WarmQuery ==
  /\ wpc = "query"
  /\ \E K \in SUBSET ActiveDocs :
       /\ Cardinality(K) <= WarmLimit
       /\ Cardinality(K) = WarmLimit \/ K = ActiveDocs
       /\ warm' = [i \in Id |-> IF i \in K
                                THEN Fetched(docs[i].source, Carried(docs[i]))
                                ELSE None]
  /\ wpc' = "put"
  /\ UNCHANGED <<redirectVars, rpc, key, found, off, mark>>

WarmFails ==
  /\ wpc = "query"
  /\ "query" \in Faults
  /\ wpc' = "done"
  /\ UNCHANGED <<redirectVars, rpc, key, found, warm, off, mark>>

\* The entry is put under the stored source as it is, without a RedirectType.
WarmPut ==
  /\ wpc = "put"
  /\ \E i \in Id :
       /\ warm[i] # None
       /\ PutFetched(warm[i], [warm[i].answer EXCEPT !.type = None])
       /\ warm' = [warm EXCEPT ![i] = None]
  /\ UNCHANGED <<rpc, key, found, wpc>>

WarmEnds ==
  /\ wpc = "put"
  /\ \A i \in Id : warm[i] = None
  /\ wpc' = "done"
  /\ UNCHANGED <<redirectVars, rpc, key, found, warm, off, mark>>

\* POST /api/v1/cache/clear.
ClearCache ==
  /\ SetCache(LRU!CacheClear, None, 0, "none")
  /\ UNCHANGED <<rpc, key, found, warm, wpc>>

-----------------------------------------------------------------------------
(* Time.  A goroutine holds a query's result for Delay ticks at most.      *)

Smaller(m, n) == IF m < n THEN m ELSE n

Right(d, answer) ==
  \E a \in Answers(d) : answer = a \/ answer = [a EXCEPT !.type = None]

\* Saturating counts: beyond TTL + Delay nothing is told apart.
Later(d, answer, ticks) ==
  IF Right(d, answer) THEN 0 ELSE Smaller(ticks + 1, TTL + Delay + 1)

Aged(f) == [f EXCEPT !.wait = @ + 1, !.off = Later(f.domain, f.answer, @)]

Tick ==
  /\ \A r \in Reader : found[r] # None => found[r].wait < Delay
  /\ \A i \in Id : warm[i] # None => warm[i].wait < Delay
  /\ cache' = [cache EXCEPT !.entry = [d \in CacheKey |->
                 IF d \in LRU!Cached(cache)
                 THEN [cache.entry[d] EXCEPT !.age = Smaller(@ + 1, TTL)] ELSE @[d]]]
  /\ off' = [d \in CacheKey |-> IF d \in LRU!Cached(cache)
                              THEN Later(d, cache.entry[d].answer, off[d]) ELSE 0]
  /\ found' = [r \in Reader |-> IF found[r] = None THEN None ELSE Aged(found[r])]
  /\ warm' = [i \in Id |-> IF warm[i] = None THEN None ELSE Aged(warm[i])]
  /\ UNCHANGED <<docs, indexed, writers, rpc, key, wpc, mark>>

-----------------------------------------------------------------------------
(* A writer's step, and what it means for answers cached or under way.     *)

Changed == {d \in CacheKey : Answers(d) # Answers(d)'}

Overtake(f) == [f EXCEPT !.overtaken = @ \/ f.domain \in Changed]

\* Save and Create invalidate the source they stored and no other, and none
\* when the write is not acknowledged.
Explain(w, d) ==
  IF d \notin LRU!Cached(cache') THEN "none"
  ELSE IF d \notin Changed THEN mark[d]
  ELSE IF pc'[w] = "idle" THEN "lost"
  ELSE IF d # Normalized(req[w].doc.source) THEN "moved"
  ELSE mark[d]

WriterStep(w) ==
  /\ Arrive(w) \/ Proceed(w)
  /\ off' = [d \in CacheKey |-> IF d \in LRU!Cached(cache') THEN off[d] ELSE 0]
  /\ mark' = [d \in CacheKey |-> Explain(w, d)]
  /\ found' = [r \in Reader |-> IF found[r] = None THEN None ELSE Overtake(found[r])]
  /\ warm' = [i \in Id |-> IF warm[i] = None THEN None ELSE Overtake(warm[i])]
  /\ UNCHANGED <<rpc, key, wpc>>

RestartAll ==
  /\ Restart
  /\ rpc' = [r \in Reader |-> "idle"]
  /\ key' = [r \in Reader |-> None]
  /\ found' = [r \in Reader |-> None]
  /\ warm' = [i \in Id |-> None]
  /\ wpc' = "query"
  /\ off' = [d \in CacheKey |-> 0]
  /\ mark' = [d \in CacheKey |-> "none"]

-----------------------------------------------------------------------------
LookupStep(r) ==
  \/ \E h \in Host : \/ LookupHit(r, Normalized(h))
                     \/ LookupExpired(r, Normalized(h))
                     \/ LookupMiss(r, Normalized(h))
  \/ DropExpired(r)
  \/ FindHit(r) \/ FindMiss(r)
  \/ Fill(r)

Next ==
  \/ \E w \in Writer : WriterStep(w)
  \/ \E r \in Reader : LookupStep(r)
  \/ WarmQuery \/ WarmFails \/ WarmPut \/ WarmEnds
  \/ ClearCache
  \/ Tick
  \/ RestartAll

Spec == LookupInit /\ [][Next]_vars

-----------------------------------------------------------------------------
FetchedType == [domain : CacheKey,
                answer : [target : Domain, type : Type, tags : Tags \cup {None}],
                wait : 0..Delay, off : 0..TTL + Delay + 1, overtaken : BOOLEAN]

ASSUME NoResultAssumption == None \notin FetchedType

(* Every variable keeps its type, and a goroutine holds a result exactly    *)
(* when it is about to put it.                                              *)
LookupTypeOK ==
  /\ TypeOK
  /\ rpc \in [Reader -> {"idle", "drop", "find", "fill"}]
  /\ \A r \in Reader : /\ key[r] \in CacheKey <=> rpc[r] # "idle"
                       /\ found[r] \in FetchedType <=> rpc[r] = "fill"
  /\ \A d \in LRU!Cached(cache) :
       /\ cache.rank[d] \in 1..Capacity
       /\ cache.entry[d].age \in 0..TTL
  /\ wpc \in {"query", "put", "done"}
  /\ off \in [CacheKey -> 0..TTL + Delay + 1]
  /\ mark \in [CacheKey -> {"none", "raced", "moved", "lost"}]

Asked == {Normalized(h) : h \in Host}

(* cacheTTL bounds how long an old answer is served: whatever races, lost   *)
(* invalidations or restarts there were, an answer the cache still serves   *)
(* was the right one at most TTL ticks and one query-to-Put ago.            *)
BoundedStaleness ==
  \A d \in Asked \cap LRU!Cached(cache) :
     Fresh(cache.entry[d]) => off[d] <= TTL + Delay

BeingInvalidated(d) ==
  \E w \in Writer : pc[w] = "invalidate" /\ Normalized(req[w].doc.source) = d

Coherent(excuses) ==
  \A d \in Asked \cap LRU!Cached(cache) :
     \/ Right(d, cache.entry[d].answer)
     \/ BeingInvalidated(d)
     \/ mark[d] \in excuses

(* Invalidation on write (README, "invalidated on write"): a wrong answer   *)
(* in the cache, fresh or not, is one whose writer is about to invalidate   *)
(* it, or came from a query that a write overtook before the Put, from a    *)
(* redirect that took another source, or from a write that was applied but  *)
(* reported as failed.  There is no fifth way.                              *)
CoherentUnlessRaced == Coherent({"raced", "moved", "lost"})

(* "Only active redirects are served" (README, redirect object), leaving    *)
(* out the races and faults: an answer served from the cache is right       *)
(* unless its invalidation is under way, was lost or was overtaken.         *)
ServedIsActive == Coherent({"raced", "lost"})

\* The status line for a GET: determineRedirectTypeFromString falls back to
\* the default, a permanent redirect, for an unknown type.
ServedType(type) == IF type = "302" THEN "302" ELSE "301"

(* "301 or 302 per redirect" (README): a cached answer to the right target  *)
(* is served with the type of the active redirect.                          *)
ServedAsConfigured ==
  \A d \in Asked \cap LRU!Cached(cache) :
     LET e == cache.entry[d] IN
     Right(d, e.answer) =>
       \E a \in Answers(d) : a.target = e.answer.target /\ ServedType(e.answer.type) = a.type
=============================================================================
