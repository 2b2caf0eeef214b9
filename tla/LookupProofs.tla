---------------------------- MODULE LookupProofs ----------------------------
(***************************************************************************)
(* The safety of module Lookup for any number of readers, writers, domains *)
(* and redirects, any capacity of the cache and any TTL, whatever calls    *)
(* fail and whenever the process restarts.                                 *)
(***************************************************************************)
EXTENDS Lookup, RedirectsProofs, TLAPS

Ops == INSTANCE LRUOpsProofs WITH Key <- CacheKey, NoEntry <- None

-----------------------------------------------------------------------------
(* Domains and the cache's operations.                                     *)

\* The keys of the cache are domains, and looking one up normalizes to a key.
LEMMA KeyType ==
  /\ CacheKey \subseteq Domain
  /\ None \notin CacheKey
  /\ \A d \in Domain : Normalized(d) \in CacheKey /\ ToLower(d) \in CacheKey
  /\ \A d \in CacheKey : ToLower(d) = d
  /\ \A h \in Host : Normalized(h) \in CacheKey
  <1>1. CacheKey \subseteq Domain
    BY LowerType DEF CacheKey
  <1>2. \A d \in CacheKey : ToLower(d) = d
    BY LowerType DEF CacheKey
  <1>3. ASSUME NEW d \in Domain PROVE Normalized(d) \in CacheKey
    <2>1. Normalized(d) \in Domain /\ ToLower(Normalized(d)) = Normalized(d)
      BY DEF Normalized, TrimSpace, ToLower, Domain
    <2> QED
      BY <2>1 DEF CacheKey
  <1>4. \A d \in Domain : ToLower(d) \in CacheKey
    BY DEF CacheKey
  <1> QED
    BY <1>1, <1>2, <1>3, <1>4, NoneAssumption, HostAssumption

\* The operations that Redirects and Lookup use are those the lemmas of
\* LRUOpsProofs are about.
LEMMA SameOps ==
  /\ Ops!CapacityAssumption
  /\ \A c : Ops!Cached(c) = LRU!Cached(c)
  /\ \A c, k : Ops!CacheGet(c, k) = LRU!CacheGet(c, k)
  /\ \A c, k, e : Ops!CachePut(c, k, e) = LRU!CachePut(c, k, e)
  /\ \A c, k : Ops!CacheDelete(c, k) = LRU!CacheDelete(c, k)
  /\ Ops!EmptyCache = LRU!EmptyCache
  <1>1. Ops!CapacityAssumption
    BY CapacityAssumption DEF Ops!CapacityAssumption
  <1>2. \A c : Ops!Cached(c) = LRU!Cached(c)
    BY DEF Ops!Cached, LRU!Cached
  <1>3. \A c, k : Ops!RankToFront(c, k) = LRU!RankToFront(c, k)
    BY <1>2 DEF Ops!RankToFront, LRU!RankToFront, Ops!Overtaken, LRU!Overtaken
  <1>4. \A c, k : Ops!CacheGet(c, k) = LRU!CacheGet(c, k)
    BY <1>2, <1>3 DEF Ops!CacheGet, LRU!CacheGet
  <1>5. \A c, k, e : Ops!CachePut(c, k, e) = LRU!CachePut(c, k, e)
    BY <1>3 DEF Ops!CachePut, LRU!CachePut
  <1>6. \A c, k : Ops!CacheDelete(c, k) = LRU!CacheDelete(c, k)
    BY <1>2 DEF Ops!CacheDelete, LRU!CacheDelete
  <1> QED
    BY <1>1, <1>2, <1>4, <1>5, <1>6 DEF Ops!EmptyCache, LRU!EmptyCache

ServedAnswer == [target : Domain, type : Type \cup {None}, tags : Tags \cup {None}]

\* A cache value whose entries are answers of some age.
Sound(c) ==
  /\ Ops!Ranked(c)
  /\ \A d \in LRU!Cached(c) : c.entry[d] \in [answer : ServedAnswer, age : 0..TTL]

\* An empty cache.
LEMMA EmptySound == Sound(LRU!EmptyCache) /\ LRU!Cached(LRU!EmptyCache) = {}
  BY SameOps, Ops!EmptyRanked DEF Sound

\* A Get changes no entry.
LEMMA GetSound ==
  ASSUME NEW c, Sound(c), NEW k \in CacheKey
  PROVE  /\ Sound(LRU!CacheGet(c, k))
         /\ LRU!Cached(LRU!CacheGet(c, k)) = LRU!Cached(c)
         /\ LRU!CacheGet(c, k).entry = c.entry
  BY SameOps, Ops!GetRanked DEF Sound

\* A Put changes the entry of its key only.
LEMMA PutSound ==
  ASSUME NEW c, Sound(c), NEW k \in CacheKey, NEW a \in ServedAnswer
  PROVE  /\ Sound(LRU!CachePut(c, k, Entry(a)))
         /\ LRU!Cached(LRU!CachePut(c, k, Entry(a))) \subseteq LRU!Cached(c) \cup {k}
         /\ \A d \in LRU!Cached(LRU!CachePut(c, k, Entry(a))) :
              LRU!CachePut(c, k, Entry(a)).entry[d] = IF d = k THEN Entry(a) ELSE c.entry[d]
  <1>1. /\ Ops!Ranked(LRU!CachePut(c, k, Entry(a)))
        /\ LRU!Cached(LRU!CachePut(c, k, Entry(a))) \subseteq LRU!Cached(c) \cup {k}
        /\ \A d \in LRU!Cached(LRU!CachePut(c, k, Entry(a))) :
             LRU!CachePut(c, k, Entry(a)).entry[d] = IF d = k THEN Entry(a) ELSE c.entry[d]
    BY SameOps, Ops!PutRanked DEF Sound
  <1>2. Entry(a) \in [answer : ServedAnswer, age : 0..TTL]
    BY TimeAssumption DEF Entry
  <1> QED
    BY <1>1, <1>2 DEF Sound

\* A Delete leaves the entries of the other keys.
LEMMA DeleteSound ==
  ASSUME NEW c, Sound(c), NEW k \in CacheKey
  PROVE  /\ Sound(LRU!CacheDelete(c, k))
         /\ LRU!Cached(LRU!CacheDelete(c, k)) = LRU!Cached(c) \ {k}
         /\ \A d \in LRU!Cached(LRU!CacheDelete(c, k)) :
              LRU!CacheDelete(c, k).entry[d] = c.entry[d]
  <1>1. LRU!Cached(c) \subseteq CacheKey
    BY DEF LRU!Cached
  <1>2. /\ Ops!Ranked(LRU!CacheDelete(c, k))
        /\ LRU!Cached(LRU!CacheDelete(c, k)) = LRU!Cached(c) \ {k}
        /\ \A d \in CacheKey \ {k} : LRU!CacheDelete(c, k).entry[d] = c.entry[d]
    BY SameOps, Ops!DeleteRanked DEF Sound
  <1> QED
    BY <1>1, <1>2 DEF Sound

-----------------------------------------------------------------------------
(* What a writer's step does to what it shares with the lookups.           *)

OthersStay(w) == \A v \in Writer \ {w} : pc'[v] = pc[v] /\ req'[v] = req[v]

\* It writes one redirect, and is then about to invalidate, or has answered
\* with an error.
Stores(w) ==
  /\ pc[w] = "write"
  /\ req[w].doc \in Redirect
  /\ \E i \in Id : docs' = [docs EXCEPT ![i] = Written(i, req[w].doc)]
  /\ \/ pc'[w] = "idle" /\ req'[w].doc = None
     \/ pc'[w] = "invalidate" /\ req'[w].doc = req[w].doc

\* It has the cache drop the source that it wrote.
Drops(w) ==
  /\ pc[w] = "invalidate"
  /\ req[w].doc \in Redirect
  /\ cache' = LRU!CacheDelete(cache, Normalized(req[w].doc.source))

\* The redirect it holds is new, or a stored one to be marked as deleted.
Holds(w) ==
  \/ req'[w].doc = None
  \/ req'[w].doc = req[w].doc
  \/ \E c \in Command : req'[w].doc = Lowered(c)
  \/ \E i \in StoredIds : req'[w].doc = [docs[i] EXCEPT !.status = "deleted"]

\* One step writes, or drops, or does neither.
LEMMA WriterEffect ==
  ASSUME TypeOK, NEW w \in Writer, Arrive(w) \/ Proceed(w)
  PROVE  /\ OthersStay(w)
         /\ Holds(w)
         /\ docs' = docs \/ Stores(w)
         /\ (cache' = cache /\ pc[w] # "invalidate") \/ Drops(w)
  <1>1. ASSUME Answer(w)
        PROVE  OthersStay(w) /\ pc'[w] = "idle" /\ req'[w].doc = None
    BY <1>1 DEF Answer, Goto, OthersStay, TypeOK, NoReq
  <1>2. CASE Refuse(w) /\ pc[w] # "invalidate"
    BY <1>1, <1>2 DEF Refuse, store, Holds
  <1>3. CASE Arrive(w)
    <2>1. ASSUME NEW op, NEW i, NEW doc, NEW label, Begin(w, op, i, doc, label)
          PROVE  /\ OthersStay(w) /\ req'[w].doc = doc
                 /\ docs' = docs /\ cache' = cache /\ pc[w] # "invalidate"
      BY <2>1 DEF Begin, Goto, store, OthersStay, TypeOK
    <2>2. CASE Post(w)
      BY <2>1, <2>2 DEF Post, Holds
    <2>3. CASE Put(w)
      BY <2>1, <2>3 DEF Put, Holds
    <2>4. CASE Delete(w)
      BY <2>1, <2>4 DEF Delete, Holds
    <2> QED
      BY <1>3, <2>2, <2>3, <2>4 DEF Arrive
  <1>4. CASE (CountSources(w) \/ WalkEnds(w) \/ WalkCut(w)) /\ ~Refuse(w)
    <2>1. \E label : pc' = [pc EXCEPT ![w] = label]
      BY <1>4 DEF CountSources, WalkEnds, WalkCut, Accept, Goto
    <2>2. /\ UNCHANGED <<docs, cache, req>>
          /\ pc[w] # "invalidate"
      BY <1>4 DEF CountSources, WalkEnds, WalkCut, Accept, Goto, store
    <2> QED
      BY <2>1, <2>2 DEF OthersStay, Holds, TypeOK
  <1>5. CASE WalkOn(w)
    BY <1>5 DEF WalkOn, store, OthersStay, Holds
  <1>6. CASE DeleteFinds(w)
    <2>1. /\ pc[w] = "find" /\ pc' = [pc EXCEPT ![w] = "write"]
          /\ req' = [req EXCEPT ![w].doc = [docs[req[w].id] EXCEPT !.status = "deleted"]]
          /\ UNCHANGED <<docs, cache>>
      BY <1>6 DEF DeleteFinds, Goto, store
    <2>2. req[w].id \in StoredIds
      BY <2>1 DEF TypeOK, Equipped
    <2>3. OthersStay(w) /\ req'[w].doc = [docs[req[w].id] EXCEPT !.status = "deleted"]
      BY <2>1 DEF OthersStay, TypeOK
    <2> QED
      BY <2>1, <2>2, <2>3 DEF Holds
  <1>7. CASE Write(w)
    <2>1. PICK i \in Target(w) : Apply(w, i) /\ req' = [req EXCEPT ![w].id = i]
      BY <1>7 DEF Write
    <2>2. pc[w] = "write" /\ pc' = [pc EXCEPT ![w] = "invalidate"]
      BY <1>7 DEF Write, Goto
    <2>3. i \in Id /\ req[w].doc \in Redirect
      BY <2>1, <2>2, AppliedType
    <2>4. docs' = [docs EXCEPT ![i] = Written(i, req[w].doc)] /\ cache' = cache
      BY <2>1 DEF Apply
    <2>5. OthersStay(w) /\ req'[w].doc = req[w].doc /\ pc'[w] = "invalidate"
      BY <2>1, <2>2 DEF OthersStay, TypeOK
    <2> QED
      BY <2>2, <2>3, <2>4, <2>5 DEF Stores, Holds
  <1>8. CASE WriteUnacknowledged(w)
    <2>1. PICK i \in Target(w) : Apply(w, i)
      BY <1>8 DEF WriteUnacknowledged
    <2>2. pc[w] = "write" /\ Answer(w)
      BY <1>8 DEF WriteUnacknowledged
    <2>3. i \in Id /\ req[w].doc \in Redirect
      BY <2>1, <2>2, AppliedType
    <2>4. docs' = [docs EXCEPT ![i] = Written(i, req[w].doc)] /\ cache' = cache
      BY <2>1 DEF Apply
    <2> QED
      BY <1>1, <2>2, <2>3, <2>4 DEF Stores, Holds
  <1>9. CASE Invalidate(w)
    <2>1. /\ pc[w] = "invalidate" /\ pc' = [pc EXCEPT ![w] = "audit"]
          /\ UNCHANGED <<docs, req>>
          /\ cache' = LRU!CacheDelete(cache, Normalized(req[w].doc.source))
      BY <1>9 DEF Invalidate, Goto, Normalized
    <2>2. req[w].doc \in Redirect
      BY <2>1 DEF TypeOK, Equipped
    <2> QED
      BY <2>1, <2>2 DEF Drops, OthersStay, Holds, TypeOK
  <1>10. CASE Audit(w) \/ AuditFails(w)
    BY <1>1, <1>10 DEF Audit, AuditFails, store, Holds
  <1>11. CASE CountFails(w) \/ WalkMeets(w) \/ DeleteFails(w) \/ WriteRefused(w) \/ WriteFails(w)
    BY <1>2, <1>11 DEF CountFails, WalkMeets, DeleteFails, WriteRefused, WriteFails
  <1>12. CASE (CountSources(w) \/ WalkEnds(w) \/ WalkCut(w)) /\ Refuse(w)
    BY <1>2, <1>12 DEF CountSources, WalkEnds, WalkCut
  <1> QED
    BY <1>3, <1>4, <1>5, <1>6, <1>7, <1>8, <1>9, <1>10, <1>11, <1>12 DEF Proceed

\* Sources are stored, and held by writers, in lower case.
LowerCase ==
  /\ \A i \in StoredIds : ToLower(docs[i].source) = docs[i].source
  /\ \A w \in Writer : req[w].doc # None => ToLower(req[w].doc.source) = req[w].doc.source

LEMMA WriterLowerCase ==
  ASSUME TypeOK, LowerCase, NEW w \in Writer, Arrive(w) \/ Proceed(w)
  PROVE  LowerCase'
  <1>1. OthersStay(w) /\ Holds(w) /\ (docs' = docs \/ Stores(w))
    BY WriterEffect
  <1>2. req'[w].doc # None => ToLower(req'[w].doc.source) = req'[w].doc.source
    <2>1. ASSUME NEW c \in Command PROVE ToLower(Lowered(c).source) = Lowered(c).source
      BY LoweredType
    <2>2. ASSUME NEW i \in StoredIds
          PROVE  ToLower([docs[i] EXCEPT !.status = "deleted"].source)
                   = [docs[i] EXCEPT !.status = "deleted"].source
      <3>1. docs[i] \in Redirect
        BY DEF TypeOK, StoredIds
      <3>2. [docs[i] EXCEPT !.status = "deleted"].source = docs[i].source
        BY <3>1 DEF Redirect
      <3> QED
        BY <3>2 DEF LowerCase
    <2> QED
      BY <1>1, <2>1, <2>2 DEF Holds, LowerCase
  <1>3. \A i \in StoredIds' : ToLower(docs'[i].source) = docs'[i].source
    <2>1. CASE docs' = docs
      BY <2>1 DEF LowerCase, StoredIds
    <2>2. CASE Stores(w)
      <3>1. PICK i \in Id : docs' = [docs EXCEPT ![i] = Written(i, req[w].doc)]
        BY <2>2 DEF Stores
      <3>2. req[w].doc \in Redirect /\ req[w].doc # None
        BY <2>2, NoRedirectAssumption DEF Stores
      <3>3. Written(i, req[w].doc).source = req[w].doc.source
        BY <3>2, WrittenType
      <3>4. ToLower(req[w].doc.source) = req[w].doc.source
        BY <3>2 DEF LowerCase
      <3> QED
        BY <3>1, <3>3, <3>4 DEF LowerCase, StoredIds, TypeOK
    <2> QED
      BY <1>1, <2>1, <2>2
  <1> QED
    BY <1>1, <1>2, <1>3 DEF LowerCase, OthersStay

-----------------------------------------------------------------------------
(* Type correctness.                                                       *)

SharedType ==
  /\ TypeOK
  /\ LowerCase
  /\ Sound(cache)
  /\ off \in [CacheKey -> 0..TTL + Delay + 1]
  /\ mark \in [CacheKey -> {"none", "raced", "moved", "lost"}]

ReadersType ==
  /\ rpc \in [Reader -> {"idle", "drop", "find", "fill"}]
  /\ key \in [Reader -> CacheKey \cup {None}]
  /\ found \in [Reader -> FetchedType \cup {None}]
  /\ \A r \in Reader : /\ key[r] \in CacheKey <=> rpc[r] # "idle"
                       /\ found[r] \in FetchedType <=> rpc[r] = "fill"

WarmType ==
  /\ wpc \in {"query", "put", "done"}
  /\ warm \in [Id -> FetchedType \cup {None}]

TypeInv == SharedType /\ ReadersType /\ WarmType

\* The invariant says all that the checked one says.
LEMMA TypeInvOK == TypeInv => LookupTypeOK
  <1> SUFFICES ASSUME TypeInv PROVE LookupTypeOK
    OBVIOUS
  <1>1. ASSUME NEW d \in LRU!Cached(cache)
        PROVE  cache.rank[d] \in 1..Capacity /\ cache.entry[d].age \in 0..TTL
    <2>1. d \in CacheKey /\ cache.rank[d] > 0
      BY DEF LRU!Cached
    <2>2. PICK p \in [CacheKey -> 0..Capacity] : p = cache.rank
      BY DEF TypeInv, SharedType, Sound, Ops!Ranked
    <2>3. cache.entry[d] \in [answer : ServedAnswer, age : 0..TTL]
      BY DEF TypeInv, SharedType, Sound
    <2>4. p[d] \in 1..Capacity
      BY <2>1, <2>2, CapacityAssumption
    <2> QED
      BY <2>2, <2>3, <2>4
  <1> QED
    BY <1>1 DEF TypeInv, SharedType, ReadersType, WarmType, LookupTypeOK

\* What a query returns can be carried to a Put.
LEMMA AnswersType ==
  ASSUME TypeOK, NEW d \in CacheKey
  PROVE  /\ \A a \in Answers(d) : Fetched(d, a) \in FetchedType
         /\ \A i \in StoredIds : docs[i].source \in CacheKey =>
              Fetched(docs[i].source, Carried(docs[i])) \in FetchedType
  <1>1. \A i \in StoredIds :
          Carried(docs[i]) \in [target : Domain, type : Type, tags : Tags \cup {None}]
    BY DEF Carried, TypeOK, StoredIds, Redirect
  <1>2. ASSUME NEW k \in CacheKey,
               NEW a \in [target : Domain, type : Type, tags : Tags \cup {None}]
        PROVE  Fetched(k, a) \in FetchedType
    BY TimeAssumption DEF Fetched, FetchedType
  <1> QED
    BY <1>1, <1>2 DEF Answers, ActiveIds

\* The count of ticks with a wrong answer saturates.
LEMMA LaterType ==
  ASSUME NEW d, NEW a, NEW n \in 0..TTL + Delay + 1
  PROVE  Later(d, a, n) \in 0..TTL + Delay + 1 /\ Later(d, a, n) <= n + 1
  BY TimeAssumption DEF Later, Smaller

\* A result that is carried on for a tick, or past a write.
LEMMA CarriedType ==
  ASSUME NEW f \in FetchedType
  PROVE  /\ f.wait < Delay => Aged(f) \in FetchedType
         /\ Aged(f).wait = f.wait + 1 /\ Aged(f).off <= f.off + 1
         /\ Aged(f).domain = f.domain /\ Aged(f).answer = f.answer
         /\ Aged(f).overtaken = f.overtaken
         /\ Overtake(f) \in FetchedType
         /\ Overtake(f).wait = f.wait /\ Overtake(f).off = f.off
         /\ Overtake(f).domain = f.domain /\ Overtake(f).answer = f.answer
         /\ Overtake(f).overtaken = (f.overtaken \/ f.domain \in Changed)
  <1>1. /\ f.off \in 0..TTL + Delay + 1 /\ f.wait \in 0..Delay
        /\ f.domain \in CacheKey /\ f.overtaken \in BOOLEAN
        /\ f.answer \in [target : Domain, type : Type, tags : Tags \cup {None}]
        /\ f = [domain |-> f.domain, answer |-> f.answer, wait |-> f.wait,
                off |-> f.off, overtaken |-> f.overtaken]
    BY DEF FetchedType
  <1>2. Later(f.domain, f.answer, f.off) \in 0..TTL + Delay + 1
        /\ Later(f.domain, f.answer, f.off) <= f.off + 1
    BY <1>1, LaterType
  <1>3. Aged(f) = [domain |-> f.domain, answer |-> f.answer, wait |-> f.wait + 1,
                   off |-> Later(f.domain, f.answer, f.off), overtaken |-> f.overtaken]
    <2>1. PICK d, a, n, m, o :
            f = [domain |-> d, answer |-> a, wait |-> n, off |-> m, overtaken |-> o]
      BY <1>1
    <2>2. /\ f.domain = d /\ f.answer = a /\ f.wait = n /\ f.off = m /\ f.overtaken = o
          /\ DOMAIN f = {"domain", "answer", "wait", "off", "overtaken"}
      BY <2>1
    <2>3. Aged(f) = [x \in DOMAIN f |-> IF x = "wait" THEN f.wait + 1
                                        ELSE IF x = "off" THEN Later(f.domain, f.answer, f.off)
                                        ELSE f[x]]
      BY <2>1 DEF Aged
    <2> QED
      BY <2>2, <2>3
  <1>4. f.wait < Delay => f.wait + 1 \in 0..Delay
    BY <1>1, TimeAssumption
  <1>5. Overtake(f) = [domain |-> f.domain, answer |-> f.answer, wait |-> f.wait,
                       off |-> f.off, overtaken |-> (f.overtaken \/ f.domain \in Changed)]
    BY DEF Overtake, FetchedType
  <1>6. (f.overtaken \/ f.domain \in Changed) \in BOOLEAN
    OBVIOUS
  <1>7. f.wait < Delay => Aged(f) \in FetchedType
    BY <1>1, <1>2, <1>3, <1>4 DEF FetchedType
  <1>8. Overtake(f) \in FetchedType
    BY <1>1, <1>5, <1>6 DEF FetchedType
  <1> QED
    BY <1>2, <1>3, <1>5, <1>7, <1>8

\* The initial state is type correct.
LEMMA InitTypeInv == LookupInit => TypeInv
  <1> SUFFICES ASSUME LookupInit PROVE TypeInv
    OBVIOUS
  <1>1. TypeOK
    BY InitType DEF LookupInit
  <1>2. LowerCase
    BY DEF LookupInit, RedirectsInit, LowerCase, StoredIds, NoReq
  <1>3. Sound(cache)
    BY EmptySound DEF LookupInit, RedirectsInit
  <1>4. /\ off \in [CacheKey -> 0..TTL + Delay + 1]
        /\ mark \in [CacheKey -> {"none", "raced", "moved", "lost"}]
    BY TimeAssumption DEF LookupInit
  <1>5. ReadersType /\ WarmType
    BY KeyType, NoResultAssumption DEF LookupInit, ReadersType, WarmType
  <1> QED
    BY <1>1, <1>2, <1>3, <1>4, <1>5 DEF TypeInv, SharedType

\* A step of the cache to a sound value.
LEMMA SetCacheType ==
  ASSUME SharedType, NEW c, Sound(c), NEW d, NEW ticks, NEW why,
         SetCache(c, d, ticks, why),
         d \in LRU!Cached(c) => /\ ticks \in 0..TTL + Delay + 1
                                /\ why \in {"none", "raced", "moved", "lost"}
  PROVE  SharedType'
  <1>1. TypeOK' /\ LowerCase'
    BY DEF SetCache, SharedType, writers, trail, TypeOK, LowerCase, Equipped, StoredIds
  <1>2. off' \in [CacheKey -> 0..TTL + Delay + 1]
    <2>1. \A x \in CacheKey : off[x] \in 0..TTL + Delay + 1
      BY DEF SharedType
    <2> QED
      BY <2>1, TimeAssumption DEF SetCache
  <1>3. mark' \in [CacheKey -> {"none", "raced", "moved", "lost"}]
    <2>1. \A x \in CacheKey : mark[x] \in {"none", "raced", "moved", "lost"}
      BY DEF SharedType
    <2> QED
      BY <2>1 DEF SetCache
  <1> QED
    BY <1>1, <1>2, <1>3 DEF SetCache, SharedType, Sound

\* A step of a reader to where it holds what it then uses.
LEMMA GotoRType ==
  ASSUME ReadersType, WarmType, NEW r \in Reader,
         NEW label \in {"idle", "drop", "find", "fill"},
         NEW d \in CacheKey \cup {None}, NEW f \in FetchedType \cup {None},
         d \in CacheKey <=> label # "idle", f \in FetchedType <=> label = "fill",
         GotoR(r, label, d, f)
  PROVE  ReadersType' /\ WarmType'
  BY DEF GotoR, ReadersType, WarmType

\* The Put of a result.
LEMMA PutFetchedType ==
  ASSUME SharedType, NEW f \in FetchedType, NEW a \in ServedAnswer, PutFetched(f, a)
  PROVE  SharedType'
  <1>1. f.domain \in CacheKey /\ f.off \in 0..TTL + Delay + 1
    BY DEF FetchedType
  <1>2. Sound(LRU!CachePut(cache, f.domain, Entry(a)))
    BY <1>1, PutSound DEF SharedType
  <1> QED
    BY <1>1, <1>2, SetCacheType DEF PutFetched

\* A step that leaves the collection, the cache and the writers alone.
LEMMA SharedSame ==
  ASSUME SharedType, UNCHANGED <<redirectVars, off, mark>>
  PROVE  SharedType'
  BY DEF SharedType, redirectVars, store, writers, trail, TypeOK, LowerCase, Equipped,
         StoredIds, Sound

\* A lookup's steps.
LEMMA LookupStepType ==
  ASSUME TypeInv, NEW r \in Reader, LookupStep(r)
  PROVE  TypeInv'
  <1> USE DEF TypeInv
  <1>1. ASSUME NEW d \in CacheKey, Touch(d) PROVE SharedType'
    <2>1. /\ off[d] \in 0..TTL + Delay + 1
          /\ mark[d] \in {"none", "raced", "moved", "lost"}
      BY DEF SharedType
    <2>2. Sound(LRU!CacheGet(cache, d))
      BY GetSound DEF SharedType
    <2> QED
      BY <1>1, <2>1, <2>2, SetCacheType DEF Touch
  <1>2. ASSUME NEW h \in Host, LookupHit(r, Normalized(h)) PROVE TypeInv'
    <2>1. SharedType'
      BY <1>1, <1>2, KeyType DEF LookupHit
    <2> QED
      BY <1>2, <2>1 DEF LookupHit, ReadersType, WarmType
  <1>3. ASSUME NEW h \in Host, LookupExpired(r, Normalized(h)) PROVE TypeInv'
    <2>1. SharedType'
      BY <1>1, <1>3, KeyType DEF LookupExpired
    <2>2. GotoR(r, "drop", Normalized(h), None)
      BY <1>3 DEF LookupExpired
    <2> QED
      BY <2>1, <2>2, GotoRType, KeyType, NoResultAssumption
  <1>4. ASSUME NEW h \in Host, LookupMiss(r, Normalized(h)) PROVE TypeInv'
    <2>1. SharedType'
      BY <1>4, SharedSame DEF LookupMiss
    <2>2. GotoR(r, "find", Normalized(h), None)
      BY <1>4 DEF LookupMiss
    <2> QED
      BY <2>1, <2>2, GotoRType, KeyType, NoResultAssumption
  <1>5. CASE DropExpired(r)
    <2>1. key[r] \in CacheKey
      BY <1>5 DEF DropExpired, ReadersType
    <2>2. /\ Sound(LRU!CacheDelete(cache, key[r]))
          /\ key[r] \notin LRU!Cached(LRU!CacheDelete(cache, key[r]))
      BY <2>1, DeleteSound DEF SharedType
    <2>3. SharedType'
      BY <1>5, <2>2, SetCacheType DEF DropExpired
    <2>4. GotoR(r, "find", key[r], None)
      BY <1>5 DEF DropExpired
    <2> QED
      BY <2>1, <2>3, <2>4, GotoRType, NoResultAssumption
  <1>6. CASE FindHit(r)
    <2>1. key[r] \in CacheKey
      BY <1>6 DEF FindHit, ReadersType
    <2>2. PICK a \in Answers(key[r]) : GotoR(r, "fill", key[r], Fetched(key[r], a))
      BY <1>6 DEF FindHit
    <2>3. Fetched(key[r], a) \in FetchedType
      BY <2>1, AnswersType DEF SharedType
    <2>4. SharedType'
      BY <1>6, SharedSame DEF FindHit
    <2> QED
      BY <2>1, <2>2, <2>3, <2>4, GotoRType
  <1>7. CASE FindMiss(r)
    <2>1. SharedType' /\ GotoR(r, "idle", None, None)
      BY <1>7, SharedSame DEF FindMiss
    <2> QED
      BY <2>1, GotoRType, KeyType, NoResultAssumption
  <1>8. CASE Fill(r)
    <2>1. found[r] \in FetchedType
      BY <1>8 DEF Fill, ReadersType
    <2>2. found[r].answer \in ServedAnswer
      BY <2>1 DEF FetchedType, ServedAnswer
    <2>3. SharedType' /\ GotoR(r, "idle", None, None)
      BY <1>8, <2>1, <2>2, PutFetchedType DEF Fill
    <2> QED
      BY <2>3, GotoRType, KeyType, NoResultAssumption
  <1> QED
    BY <1>2, <1>3, <1>4, <1>5, <1>6, <1>7, <1>8 DEF LookupStep

\* The steps of WarmCache.
LEMMA WarmStepType ==
  ASSUME TypeInv, WarmQuery \/ WarmFails \/ WarmPut \/ WarmEnds
  PROVE  TypeInv'
  <1> USE DEF TypeInv
  <1>1. CASE WarmQuery
    <2>1. PICK K \in SUBSET ActiveDocs :
            warm' = [i \in Id |-> IF i \in K THEN Fetched(docs[i].source, Carried(docs[i]))
                                  ELSE None]
      BY <1>1 DEF WarmQuery
    <2>2. \A i \in K : Fetched(docs[i].source, Carried(docs[i])) \in FetchedType
      <3> SUFFICES ASSUME NEW i \in K
                   PROVE  Fetched(docs[i].source, Carried(docs[i])) \in FetchedType
        OBVIOUS
      <3>1. i \in StoredIds /\ docs[i] \in Redirect
        BY DEF ActiveDocs, StoredIds, SharedType, TypeOK
      <3>2. docs[i].source \in Domain /\ ToLower(docs[i].source) = docs[i].source
        BY <3>1 DEF Redirect, SharedType, LowerCase
      <3>3. docs[i].source \in CacheKey
        BY <3>2, KeyType
      <3> QED
        BY <3>1, <3>3, AnswersType DEF SharedType
    <2>3. wpc' = "put" /\ UNCHANGED <<rpc, key, found>>
      BY <1>1 DEF WarmQuery
    <2>4. SharedType'
      BY <1>1, SharedSame DEF WarmQuery
    <2> QED
      BY <2>1, <2>2, <2>3, <2>4 DEF ReadersType, WarmType
  <1>2. CASE WarmFails \/ WarmEnds
    <2>1. SharedType'
      BY <1>2, SharedSame DEF WarmFails, WarmEnds
    <2> QED
      BY <1>2, <2>1 DEF WarmFails, WarmEnds, ReadersType, WarmType
  <1>3. CASE WarmPut
    <2>1. PICK i \in Id : /\ warm[i] # None
                          /\ PutFetched(warm[i], [warm[i].answer EXCEPT !.type = None])
                          /\ warm' = [warm EXCEPT ![i] = None]
      BY <1>3 DEF WarmPut
    <2>2. warm[i] \in FetchedType
      BY <2>1 DEF WarmType
    <2>3. [warm[i].answer EXCEPT !.type = None] \in ServedAnswer
      <3>1. warm[i].answer \in [target : Domain, type : Type, tags : Tags \cup {None}]
        BY <2>2 DEF FetchedType
      <3> QED
        BY <3>1 DEF ServedAnswer
    <2>4. SharedType'
      BY <2>1, <2>2, <2>3, PutFetchedType
    <2> QED
      BY <1>3, <2>1, <2>4 DEF WarmPut, ReadersType, WarmType
  <1> QED
    BY <1>1, <1>2, <1>3

\* The cache after a tick: the same keys and answers, each of a greater age.
LEMMA TickCache ==
  ASSUME Sound(cache), Tick
  PROVE  /\ Sound(cache')
         /\ LRU!Cached(cache') = LRU!Cached(cache)
         /\ \A d \in LRU!Cached(cache) :
              /\ cache'.entry[d].answer = cache.entry[d].answer
              /\ cache'.entry[d].age = Smaller(cache.entry[d].age + 1, TTL)
  <1> DEFINE m == [d \in CacheKey |->
                     IF d \in LRU!Cached(cache)
                     THEN [cache.entry[d] EXCEPT !.age = Smaller(@ + 1, TTL)]
                     ELSE cache.entry[d]]
  <1>1. cache' = [cache EXCEPT !.entry = m]
    BY DEF Tick
  <1>2. cache = [rank |-> cache.rank, entry |-> cache.entry]
    BY DEF Sound, Ops!Ranked
  <1>3. cache'.rank = cache.rank /\ cache'.entry = m
        /\ cache' = [rank |-> cache'.rank, entry |-> cache'.entry]
    <2> HIDE DEF m
    <2> QED
      BY <1>1, <1>2
  <1>4. LRU!Cached(cache') = LRU!Cached(cache) /\ LRU!Cached(cache) \subseteq CacheKey
    BY <1>3 DEF LRU!Cached
  <1>5. ASSUME NEW d \in LRU!Cached(cache)
        PROVE  /\ m[d] \in [answer : ServedAnswer, age : 0..TTL]
               /\ m[d].answer = cache.entry[d].answer
               /\ m[d].age = Smaller(cache.entry[d].age + 1, TTL)
    <2>1. PICK e \in [answer : ServedAnswer, age : 0..TTL] : e = cache.entry[d]
      BY DEF Sound
    <2>2. m[d] = [e EXCEPT !.age = Smaller(@ + 1, TTL)]
      BY <1>4, <2>1
    <2>3. Smaller(e.age + 1, TTL) \in 0..TTL
      BY TimeAssumption DEF Smaller
    <2> QED
      BY <2>1, <2>2, <2>3
  <1>6. Ops!Ranked(cache')
    <2>1. \A k \in CacheKey : cache.rank[k] = 0 => m[k] = cache.entry[k]
      BY DEF LRU!Cached
    <2>2. m = [k \in CacheKey |-> m[k]]
      OBVIOUS
    <2> HIDE DEF m
    <2>3. /\ cache.rank \in [CacheKey -> 0..Capacity]
          /\ \A k \in CacheKey : cache.rank[k] = 0 => cache.entry[k] = None
          /\ \A j, k \in LRU!Cached(cache) : cache.rank[j] = cache.rank[k] => j = k
      BY SameOps DEF Sound, Ops!Ranked
    <2>4. /\ \A k \in CacheKey : cache'.rank[k] = 0 => cache'.entry[k] = None
          /\ cache'.entry = [k \in CacheKey |-> cache'.entry[k]]
          /\ \A j, k \in Ops!Cached(cache') : cache'.rank[j] = cache'.rank[k] => j = k
          /\ cache'.rank \in [CacheKey -> 0..Capacity]
      BY <1>3, <1>4, <2>1, <2>2, <2>3, SameOps
    <2> QED
      BY <1>3, <2>4 DEF Ops!Ranked
  <1>7. Sound(cache')
    BY <1>3, <1>4, <1>5, <1>6 DEF Sound
  <1> QED
    BY <1>3, <1>4, <1>5, <1>7

\* A tick.
LEMMA TickType ==
  ASSUME TypeInv, Tick
  PROVE  TypeInv'
  <1> USE DEF TypeInv
  <1>1. Sound(cache')
    BY TickCache DEF SharedType
  <1>2. off' \in [CacheKey -> 0..TTL + Delay + 1]
    <2>1. \A d \in CacheKey : off[d] \in 0..TTL + Delay + 1
      BY DEF SharedType
    <2>2. \A d \in CacheKey : Later(d, cache.entry[d].answer, off[d]) \in 0..TTL + Delay + 1
      BY <2>1, LaterType
    <2> QED
      BY <2>2, TimeAssumption DEF Tick
  <1>3. SharedType'
    BY <1>1, <1>2 DEF Tick, SharedType, Sound, writers, trail, TypeOK, LowerCase, Equipped, StoredIds
  <1>4. \A r \in Reader : /\ found[r] = None => found'[r] = None
                          /\ found[r] # None => found'[r] \in FetchedType
    <2> SUFFICES ASSUME NEW r \in Reader, found[r] # None
                 PROVE  found'[r] \in FetchedType
      BY DEF Tick
    <2>1. found[r] \in FetchedType /\ found[r].wait < Delay /\ found'[r] = Aged(found[r])
      BY DEF Tick, ReadersType
    <2> QED
      BY <2>1, CarriedType
  <1>5. \A i \in Id : /\ warm[i] = None => warm'[i] = None
                      /\ warm[i] # None => warm'[i] \in FetchedType
    <2> SUFFICES ASSUME NEW i \in Id, warm[i] # None
                 PROVE  warm'[i] \in FetchedType
      BY DEF Tick
    <2>1. warm[i] \in FetchedType /\ warm[i].wait < Delay /\ warm'[i] = Aged(warm[i])
      BY DEF Tick, WarmType
    <2> QED
      BY <2>1, CarriedType
  <1>6. DOMAIN found' = Reader /\ DOMAIN warm' = Id
        /\ found' = [r \in Reader |-> found'[r]] /\ warm' = [i \in Id |-> warm'[i]]
    BY DEF Tick
  <1>7. /\ found' \in [Reader -> FetchedType \cup {None}]
        /\ warm' \in [Id -> FetchedType \cup {None}]
    BY <1>4, <1>5, <1>6
  <1>8. ReadersType'
    BY <1>4, <1>7, NoResultAssumption DEF Tick, ReadersType
  <1> QED
    BY <1>3, <1>7, <1>8 DEF Tick, WarmType

\* The cache after a writer's step: what is still cached has its entry.
LEMMA WriterCache ==
  ASSUME TypeOK, Sound(cache), NEW w \in Writer, Arrive(w) \/ Proceed(w)
  PROVE  /\ Sound(cache')
         /\ LRU!Cached(cache') \subseteq LRU!Cached(cache)
         /\ \A d \in LRU!Cached(cache') : cache'.entry[d] = cache.entry[d]
         /\ pc[w] = "invalidate" => Normalized(req[w].doc.source) \notin LRU!Cached(cache')
  <1>1. CASE cache' = cache /\ pc[w] # "invalidate"
    BY <1>1
  <1>2. CASE Drops(w)
    <2>1. req[w].doc.source \in Domain
      BY <1>2 DEF Drops, Redirect
    <2>2. Normalized(req[w].doc.source) \in CacheKey
      BY <2>1, KeyType
    <2> QED
      BY <1>2, <2>2, DeleteSound DEF Drops
  <1> QED
    BY <1>1, <1>2, WriterEffect

\* A writer's step.
LEMMA WriterStepType ==
  ASSUME TypeInv, NEW w \in Writer, WriterStep(w)
  PROVE  TypeInv'
  <1> USE DEF TypeInv
  <1>1. Arrive(w) \/ Proceed(w)
    BY DEF WriterStep
  <1>2. TypeOK' /\ LowerCase'
    BY <1>1, ArriveType, ProceedType, WriterLowerCase DEF SharedType
  <1>3. Sound(cache')
    BY <1>1, WriterCache DEF SharedType
  <1>4. off' \in [CacheKey -> 0..TTL + Delay + 1]
    <2>1. \A d \in CacheKey : off[d] \in 0..TTL + Delay + 1
      BY DEF SharedType
    <2> QED
      BY <2>1, TimeAssumption DEF WriterStep
  <1>5. mark' \in [CacheKey -> {"none", "raced", "moved", "lost"}]
    <2>1. \A d \in CacheKey : mark[d] \in {"none", "raced", "moved", "lost"}
      BY DEF SharedType
    <2> QED
      BY <2>1 DEF WriterStep, Explain
  <1>6. \A r \in Reader : /\ found[r] = None => found'[r] = None
                          /\ found[r] # None => found'[r] \in FetchedType
    <2> SUFFICES ASSUME NEW r \in Reader, found[r] # None
                 PROVE  found'[r] \in FetchedType
      BY DEF WriterStep
    <2>1. found[r] \in FetchedType /\ found'[r] = Overtake(found[r])
      BY DEF WriterStep, ReadersType
    <2> QED
      BY <2>1, CarriedType
  <1>7. \A i \in Id : /\ warm[i] = None => warm'[i] = None
                      /\ warm[i] # None => warm'[i] \in FetchedType
    <2> SUFFICES ASSUME NEW i \in Id, warm[i] # None
                 PROVE  warm'[i] \in FetchedType
      BY DEF WriterStep
    <2>1. warm[i] \in FetchedType /\ warm'[i] = Overtake(warm[i])
      BY DEF WriterStep, WarmType
    <2> QED
      BY <2>1, CarriedType
  <1>8. found' = [r \in Reader |-> found'[r]] /\ warm' = [i \in Id |-> warm'[i]]
    BY DEF WriterStep
  <1>9. /\ found' \in [Reader -> FetchedType \cup {None}]
        /\ warm' \in [Id -> FetchedType \cup {None}]
    BY <1>6, <1>7, <1>8
  <1>10. ReadersType'
    BY <1>6, <1>9, NoResultAssumption DEF WriterStep, ReadersType
  <1> QED
    BY <1>2, <1>3, <1>4, <1>5, <1>9, <1>10 DEF WriterStep, WarmType, SharedType

\* A cleared cache, and a restart.
LEMMA ClearType ==
  ASSUME TypeInv, ClearCache
  PROVE  TypeInv'
  <1>1. LRU!CacheClear = LRU!EmptyCache
    BY DEF LRU!CacheClear
  <1>2. SharedType'
    BY <1>1, EmptySound, SetCacheType DEF ClearCache, TypeInv
  <1> QED
    BY <1>2 DEF ClearCache, TypeInv, ReadersType, WarmType

LEMMA RestartAllType ==
  ASSUME TypeInv, RestartAll
  PROVE  TypeInv'
  <1>1. TypeOK'
    BY RestartType DEF RestartAll, TypeInv, SharedType
  <1>2. LowerCase'
    BY DEF RestartAll, Restart, TypeInv, SharedType, LowerCase, StoredIds, NoReq
  <1>3. Sound(cache')
    BY EmptySound DEF RestartAll, Restart
  <1>4. /\ off' \in [CacheKey -> 0..TTL + Delay + 1]
        /\ mark' \in [CacheKey -> {"none", "raced", "moved", "lost"}]
    BY TimeAssumption DEF RestartAll
  <1>5. ReadersType' /\ WarmType'
    BY KeyType, NoResultAssumption DEF RestartAll, ReadersType, WarmType
  <1> QED
    BY <1>1, <1>2, <1>3, <1>4, <1>5 DEF TypeInv, SharedType

\* The types are inductive.
LEMMA NextTypeInv == TypeInv /\ [Next]_vars => TypeInv'
  <1> SUFFICES ASSUME TypeInv, [Next]_vars PROVE TypeInv'
    OBVIOUS
  <1>1. CASE UNCHANGED vars
    <2>1. UNCHANGED <<redirectVars, off, mark, rpc, key, found, warm, wpc>>
      BY <1>1 DEF vars, lookupVars
    <2>2. SharedType'
      BY <2>1, SharedSame DEF TypeInv
    <2> QED
      BY <2>1, <2>2 DEF TypeInv, ReadersType, WarmType
  <1> QED
    BY <1>1, WriterStepType, LookupStepType, WarmStepType, ClearType, TickType, RestartAllType
    DEF Next

LEMMA TypeInvariant == Spec => []TypeInv
  BY InitTypeInv, NextTypeInv, PTL DEF Spec

(* Every variable of the lookups keeps its type: ranks stay within the      *)
(* capacity, and a goroutine holds a result exactly when it is about to put *)
(* it, so that no lookup fills the cache with nothing.                      *)
THEOREM LookupTypeCorrect == Spec => []LookupTypeOK
  BY TypeInvariant, TypeInvOK, PTL

-----------------------------------------------------------------------------
(* What the steps do to cached entries and to results under way.           *)

\* The results that goroutines hold between a query and its Put.
Results == ({found[r] : r \in Reader} \cup {warm[i] : i \in Id}) \ {None}

Kept(d) ==
  /\ d \in LRU!Cached(cache)
  /\ cache'.entry[d] = cache.entry[d]
  /\ off'[d] = off[d]
  /\ mark'[d] = mark[d]

\* The entry of d has just been put, with the type of the redirect or without.
Filled(d, f) ==
  /\ d = f.domain
  /\ cache'.entry[d].age = 0
  /\ cache'.entry[d].answer \in {f.answer, [f.answer EXCEPT !.type = None]}
  /\ off'[d] = f.off
  /\ mark'[d] = IF f.overtaken THEN "raced" ELSE "none"

\* A query has just returned the answer of an active redirect.
Queried(f) ==
  f.off = 0 /\ f.wait = 0 /\ f.overtaken = FALSE /\ f.answer \in Answers(f.domain)

LEMMA ResultsType == TypeInv => Results \subseteq FetchedType
  BY DEF TypeInv, ReadersType, WarmType, Results

\* A SetCache that keeps the entries of the keys that stay, d included.
LEMMA SetCacheKeeps ==
  ASSUME TypeInv, NEW c, NEW d, NEW ticks, NEW why, SetCache(c, d, ticks, why),
         LRU!Cached(c) \subseteq LRU!Cached(cache),
         \A x \in LRU!Cached(c) : c.entry[x] = cache.entry[x],
         d \in LRU!Cached(c) => ticks = off[d] /\ why = mark[d]
  PROVE  \A x \in LRU!Cached(cache') : Kept(x)
  BY DEF SetCache, Kept, LRU!Cached

\* A SetCache that puts a result.
LEMMA PutFetchedFills ==
  ASSUME TypeInv, NEW f \in FetchedType, NEW a \in ServedAnswer,
         a \in {f.answer, [f.answer EXCEPT !.type = None]}, PutFetched(f, a)
  PROVE  \A x \in LRU!Cached(cache') : Kept(x) \/ Filled(x, f)
  <1>1. f.domain \in CacheKey
    BY DEF FetchedType
  <1> DEFINE c == LRU!CachePut(cache, f.domain, Entry(a))
  <1>2. /\ LRU!Cached(c) \subseteq LRU!Cached(cache) \cup {f.domain}
        /\ \A x \in LRU!Cached(c) :
             c.entry[x] = IF x = f.domain THEN Entry(a) ELSE cache.entry[x]
    BY <1>1, PutSound DEF TypeInv, SharedType
  <1>3. cache' = c /\ LRU!Cached(c) \subseteq CacheKey
    BY DEF PutFetched, SetCache, LRU!Cached
  <1>4. \A x \in LRU!Cached(c) :
          /\ off'[x] = IF x = f.domain THEN f.off ELSE off[x]
          /\ mark'[x] = IF x = f.domain THEN IF f.overtaken THEN "raced" ELSE "none"
                        ELSE mark[x]
    BY <1>3 DEF PutFetched, SetCache
  <1>5. Entry(a).age = 0 /\ Entry(a).answer = a
    BY DEF Entry
  <1> HIDE DEF c
  <1> QED
    BY <1>2, <1>3, <1>4, <1>5 DEF Kept, Filled

\* The steps of readers and of WarmCache.
LEMMA ReaderEffect ==
  ASSUME TypeInv,
         \/ \E r \in Reader : LookupStep(r)
         \/ WarmQuery \/ WarmFails \/ WarmPut \/ WarmEnds \/ ClearCache
  PROVE  /\ UNCHANGED <<docs, indexed, writers>>
         /\ \A d \in LRU!Cached(cache') : Kept(d) \/ \E f \in Results : Filled(d, f)
         /\ \A f \in Results' : f \in Results \/ Queried(f)
  <1> DEFINE Goal == /\ UNCHANGED <<docs, indexed, writers>>
                     /\ \A d \in LRU!Cached(cache') : Kept(d) \/ \E f \in Results : Filled(d, f)
                     /\ \A f \in Results' : f \in Results \/ Queried(f)
  <1>1. ASSUME UNCHANGED <<redirectVars, off, mark>>
        PROVE  /\ UNCHANGED <<docs, indexed, writers>>
               /\ \A d \in LRU!Cached(cache') : Kept(d)
    BY <1>1 DEF redirectVars, store, Kept
  <1>2. ASSUME NEW r \in Reader, NEW label, NEW d, NEW f, GotoR(r, label, d, f)
        PROVE  Results' \subseteq Results \cup ({f} \ {None})
    <2>1. found' = [found EXCEPT ![r] = f] /\ warm' = warm
      BY <1>2 DEF GotoR
    <2>2. \A s \in Reader : found'[s] = IF s = r THEN f ELSE found[s]
      BY <2>1 DEF TypeInv, ReadersType
    <2> QED
      BY <2>1, <2>2 DEF Results
  <1>3. ASSUME NEW d \in CacheKey, Touch(d)
        PROVE  /\ UNCHANGED <<docs, indexed, writers>>
               /\ \A x \in LRU!Cached(cache') : Kept(x)
    <2>1. /\ LRU!Cached(LRU!CacheGet(cache, d)) = LRU!Cached(cache)
          /\ LRU!CacheGet(cache, d).entry = cache.entry
      BY GetSound DEF TypeInv, SharedType
    <2>2. SetCache(LRU!CacheGet(cache, d), d, off[d], mark[d])
      BY <1>3 DEF Touch
    <2>3. \A x \in LRU!Cached(cache') : Kept(x)
      BY <2>1, <2>2, SetCacheKeeps
    <2> QED
      BY <2>2, <2>3 DEF SetCache
  <1>4. ASSUME NEW r \in Reader, NEW h \in Host, LookupHit(r, Normalized(h)) PROVE Goal
    <2>1. Results' = Results
      BY <1>4 DEF LookupHit, Results
    <2> QED
      BY <1>3, <1>4, <2>1, KeyType DEF LookupHit
  <1>5. ASSUME NEW r \in Reader, NEW h \in Host, LookupExpired(r, Normalized(h)) PROVE Goal
    <2>1. Results' \subseteq Results
      BY <1>2, <1>5 DEF LookupExpired
    <2> QED
      BY <1>3, <1>5, <2>1, KeyType DEF LookupExpired
  <1>6. ASSUME NEW r \in Reader, NEW h \in Host, LookupMiss(r, Normalized(h)) PROVE Goal
    <2>1. Results' \subseteq Results
      BY <1>2, <1>6 DEF LookupMiss
    <2> QED
      BY <1>1, <1>6, <2>1 DEF LookupMiss
  <1>7. ASSUME NEW r \in Reader, DropExpired(r) PROVE Goal
    <2>1. key[r] \in CacheKey
      BY <1>7 DEF DropExpired, TypeInv, ReadersType
    <2>2. /\ LRU!Cached(LRU!CacheDelete(cache, key[r])) = LRU!Cached(cache) \ {key[r]}
          /\ \A x \in LRU!Cached(LRU!CacheDelete(cache, key[r])) :
               LRU!CacheDelete(cache, key[r]).entry[x] = cache.entry[x]
      BY <2>1, DeleteSound DEF TypeInv, SharedType
    <2>3. SetCache(LRU!CacheDelete(cache, key[r]), key[r], 0, "none")
      BY <1>7 DEF DropExpired
    <2>4. \A x \in LRU!Cached(cache') : Kept(x)
      BY <2>2, <2>3, SetCacheKeeps
    <2>5. Results' \subseteq Results
      BY <1>2, <1>7 DEF DropExpired
    <2> QED
      BY <2>3, <2>4, <2>5 DEF SetCache
  <1>8. ASSUME NEW r \in Reader, FindHit(r) PROVE Goal
    <2>1. key[r] \in CacheKey
      BY <1>8 DEF FindHit, TypeInv, ReadersType
    <2>2. PICK a \in Answers(key[r]) : GotoR(r, "fill", key[r], Fetched(key[r], a))
      BY <1>8 DEF FindHit
    <2>3. Queried(Fetched(key[r], a))
      BY DEF Queried, Fetched
    <2>4. Results' \subseteq Results \cup {Fetched(key[r], a)}
      BY <1>2, <2>2
    <2> QED
      BY <1>1, <1>8, <2>3, <2>4 DEF FindHit
  <1>9. ASSUME NEW r \in Reader, FindMiss(r) PROVE Goal
    <2>1. Results' \subseteq Results
      BY <1>2, <1>9 DEF FindMiss
    <2> QED
      BY <1>1, <1>9, <2>1 DEF FindMiss
  <1>10. ASSUME NEW r \in Reader, Fill(r) PROVE Goal
    <2>1. found[r] \in FetchedType
      BY <1>10 DEF Fill, TypeInv, ReadersType
    <2>2. found[r].answer \in ServedAnswer /\ found[r] \in Results
      BY <2>1, NoResultAssumption DEF FetchedType, ServedAnswer, Results
    <2>3. \A d \in LRU!Cached(cache') : Kept(d) \/ Filled(d, found[r])
      BY <1>10, <2>1, <2>2, PutFetchedFills DEF Fill
    <2>4. Results' \subseteq Results
      BY <1>2, <1>10 DEF Fill
    <2> QED
      BY <1>10, <2>2, <2>3, <2>4 DEF Fill, PutFetched, SetCache
  <1>11. CASE WarmQuery
    <2>1. PICK K \in SUBSET ActiveDocs :
            warm' = [i \in Id |-> IF i \in K THEN Fetched(docs[i].source, Carried(docs[i]))
                                  ELSE None]
      BY <1>11 DEF WarmQuery
    <2>2. ASSUME NEW i \in K PROVE Queried(Fetched(docs[i].source, Carried(docs[i])))
      <3>1. i \in ActiveIds(docs[i].source)
        BY DEF ActiveDocs, ActiveIds, TypeInv, SharedType, LowerCase
      <3> QED
        BY <3>1 DEF Queried, Fetched, Answers
    <2>3. \A f \in Results' : f \in Results \/ Queried(f)
      BY <1>11, <2>1, <2>2 DEF WarmQuery, Results
    <2> QED
      BY <1>1, <1>11, <2>3 DEF WarmQuery
  <1>12. CASE WarmFails \/ WarmEnds
    BY <1>1, <1>12 DEF WarmFails, WarmEnds, Results
  <1>13. CASE WarmPut
    <2>1. PICK i \in Id : /\ warm[i] # None
                          /\ PutFetched(warm[i], [warm[i].answer EXCEPT !.type = None])
                          /\ warm' = [warm EXCEPT ![i] = None]
      BY <1>13 DEF WarmPut
    <2>2. warm[i] \in FetchedType /\ warm[i] \in Results
      BY <2>1 DEF TypeInv, WarmType, Results
    <2>3. [warm[i].answer EXCEPT !.type = None] \in ServedAnswer
      <3>1. warm[i].answer \in [target : Domain, type : Type, tags : Tags \cup {None}]
        BY <2>2 DEF FetchedType
      <3> QED
        BY <3>1 DEF ServedAnswer
    <2>4. \A d \in LRU!Cached(cache') : Kept(d) \/ Filled(d, warm[i])
      BY <2>1, <2>2, <2>3, PutFetchedFills
    <2>5. Results' \subseteq Results
      BY <1>13, <2>1 DEF WarmPut, Results
    <2> QED
      BY <2>1, <2>2, <2>4, <2>5 DEF PutFetched, SetCache
  <1>14. CASE ClearCache
    <2>1. LRU!Cached(cache') = {}
      BY <1>14, EmptySound DEF ClearCache, SetCache, LRU!CacheClear
    <2> QED
      BY <1>14, <2>1 DEF ClearCache, SetCache, Results
  <1> QED
    BY <1>4, <1>5, <1>6, <1>7, <1>8, <1>9, <1>10, <1>11, <1>12, <1>13, <1>14 DEF LookupStep

\* A tick ages what is under way, a writer may overtake it, and a restart
\* forgets it.
LEMMA TickResults ==
  ASSUME TypeInv, Tick
  PROVE  \A g \in Results' : \E f \in Results : g = Aged(f)
  BY DEF Tick, Results

LEMMA WriterResults ==
  ASSUME TypeInv, NEW w \in Writer, WriterStep(w)
  PROVE  \A g \in Results' : \E f \in Results : g = Overtake(f)
  BY DEF WriterStep, Results

LEMMA RestartResults ==
  ASSUME RestartAll
  PROVE  Results' = {} /\ LRU!Cached(cache') = {}
  BY EmptySound DEF RestartAll, Restart, Results

LEMMA InitResults ==
  ASSUME LookupInit
  PROVE  Results = {} /\ LRU!Cached(cache) = {}
  BY EmptySound DEF LookupInit, RedirectsInit, Results

-----------------------------------------------------------------------------
(* Staleness.  A result has been wrong no longer than it has been carried, *)
(* and a fresh entry no longer than that and its own age.                  *)

StaleInv ==
  /\ \A f \in Results : f.off <= f.wait
  /\ \A d \in LRU!Cached(cache) :
       Fresh(cache.entry[d]) => off[d] <= cache.entry[d].age + Delay

LEMMA NextStale == TypeInv /\ StaleInv /\ [Next]_vars => StaleInv'
  <1> SUFFICES ASSUME TypeInv, StaleInv, [Next]_vars PROVE StaleInv'
    OBVIOUS
  <1>1. \A f \in FetchedType : f.off \in Nat /\ f.wait \in 0..Delay
    BY TimeAssumption DEF FetchedType
  <1>2. Results \subseteq FetchedType
    BY ResultsType
  <1>3. CASE UNCHANGED vars
    BY <1>3 DEF vars, redirectVars, store, lookupVars, StaleInv, Results
  <1>4. CASE \/ \E r \in Reader : LookupStep(r)
             \/ WarmQuery \/ WarmFails \/ WarmPut \/ WarmEnds \/ ClearCache
    <2>1. /\ \A d \in LRU!Cached(cache') : Kept(d) \/ \E f \in Results : Filled(d, f)
          /\ \A f \in Results' : f \in Results \/ Queried(f)
      BY <1>4, ReaderEffect
    <2>2. \A f \in Results' : f.off <= f.wait
      BY <2>1 DEF StaleInv, Queried
    <2>3. ASSUME NEW d \in LRU!Cached(cache'), Fresh(cache'.entry[d])
          PROVE  off'[d] <= cache'.entry[d].age + Delay
      <3>1. CASE Kept(d)
        BY <2>3, <3>1 DEF Kept, StaleInv
      <3>2. ASSUME NEW f \in Results, Filled(d, f) PROVE off'[d] <= cache'.entry[d].age + Delay
        <4>1. off'[d] = f.off /\ cache'.entry[d].age = 0
          BY <3>2 DEF Filled
        <4>2. f.off <= f.wait /\ f.off \in Nat /\ f.wait \in 0..Delay
          BY <1>1, <1>2 DEF StaleInv
        <4> QED
          BY <4>1, <4>2, TimeAssumption
      <3> QED
        BY <2>1, <3>1, <3>2
    <2> QED
      BY <2>2, <2>3 DEF StaleInv
  <1>5. CASE Tick
    <2>1. \A g \in Results' : g.off <= g.wait
      <3> SUFFICES ASSUME NEW g \in Results' PROVE g.off <= g.wait
        OBVIOUS
      <3>1. PICK f \in Results : g = Aged(f)
        BY <1>5, TickResults
      <3>2. f \in FetchedType /\ f.off \in Nat /\ f.wait \in 0..Delay /\ f.off <= f.wait
        BY <1>1, <1>2 DEF StaleInv
      <3>3. g.wait = f.wait + 1 /\ g.off <= f.off + 1
        BY <3>1, <3>2, CarriedType
      <3>4. g.off \in Nat
        <4>1. g.off = Later(f.domain, f.answer, f.off)
          BY <3>1, <3>2 DEF Aged, FetchedType
        <4>2. f.off \in 0..TTL + Delay + 1
          BY <3>2 DEF FetchedType
        <4> QED
          BY <4>1, <4>2, LaterType, TimeAssumption
      <3> QED
        BY <3>2, <3>3, <3>4, TimeAssumption
    <2>2. ASSUME NEW d \in LRU!Cached(cache'), Fresh(cache'.entry[d])
          PROVE  off'[d] <= cache'.entry[d].age + Delay
      <3> DEFINE n == cache.entry[d].age
                 m == off[d]
      <3>1. d \in LRU!Cached(cache) /\ cache'.entry[d].age = Smaller(n + 1, TTL)
        BY <1>5, TickCache DEF TypeInv, SharedType
      <3>2. n \in 0..TTL
        <4>1. cache.entry[d] \in [answer : ServedAnswer, age : 0..TTL]
          BY <3>1 DEF TypeInv, SharedType, Sound
        <4> QED
          BY <4>1
      <3>3. n + 1 < TTL /\ cache'.entry[d].age = n + 1
        BY <2>2, <3>1, <3>2, TimeAssumption DEF Fresh, Smaller
      <3>4. d \in CacheKey /\ m \in 0..TTL + Delay + 1
        BY <3>1 DEF LRU!Cached, TypeInv, SharedType
      <3>5. m <= n + Delay
        BY <3>1, <3>2, <3>3, TimeAssumption DEF StaleInv, Fresh
      <3>6. off'[d] = Later(d, cache.entry[d].answer, m)
        BY <1>5, <3>1, <3>4 DEF Tick
      <3>7. off'[d] \in 0..TTL + Delay + 1 /\ off'[d] <= m + 1
        BY <3>4, <3>6, LaterType
      <3> HIDE DEF n, m
      <3> QED
        BY <3>2, <3>3, <3>4, <3>5, <3>7, TimeAssumption
    <2> QED
      BY <2>1, <2>2 DEF StaleInv
  <1>6. CASE \E w \in Writer : WriterStep(w)
    <2>1. PICK w \in Writer : WriterStep(w)
      BY <1>6
    <2>2. \A g \in Results' : g.off <= g.wait
      <3> SUFFICES ASSUME NEW g \in Results' PROVE g.off <= g.wait
        OBVIOUS
      <3>1. PICK f \in Results : g = Overtake(f)
        BY <2>1, WriterResults
      <3> QED
        BY <1>2, <3>1, CarriedType DEF StaleInv
    <2>3. ASSUME NEW d \in LRU!Cached(cache'), Fresh(cache'.entry[d])
          PROVE  off'[d] <= cache'.entry[d].age + Delay
      <3>1. d \in LRU!Cached(cache) /\ cache'.entry[d] = cache.entry[d]
        BY <2>1, <2>3, WriterCache DEF WriterStep, TypeInv, SharedType
      <3>2. off'[d] = off[d]
        BY <2>1, <2>3 DEF WriterStep, LRU!Cached
      <3> QED
        BY <2>3, <3>1, <3>2 DEF StaleInv
    <2> QED
      BY <2>2, <2>3 DEF StaleInv
  <1>7. CASE RestartAll
    BY <1>7, RestartResults DEF StaleInv
  <1> QED
    BY <1>3, <1>4, <1>5, <1>6, <1>7 DEF Next

(* cacheTTL bounds how long an old answer is served, for any number of      *)
(* readers, writers and domains, any TTL and any delay between a query and  *)
(* its Put: an answer the cache still serves was the right one at most TTL  *)
(* ticks and one such delay ago.                                            *)
THEOREM StalenessBounded == Spec => []BoundedStaleness
  <1>1. LookupInit => StaleInv
    BY InitResults DEF StaleInv
  <1>2. TypeInv /\ StaleInv => BoundedStaleness
    <2> SUFFICES ASSUME TypeInv, StaleInv, NEW d \in LRU!Cached(cache), Fresh(cache.entry[d])
                 PROVE  off[d] <= TTL + Delay
      BY DEF BoundedStaleness
    <2>1. cache.entry[d] \in [answer : ServedAnswer, age : 0..TTL]
      BY DEF TypeInv, SharedType, Sound
    <2>2. cache.entry[d].age \in 0..TTL
      BY <2>1
    <2>3. off[d] \in 0..TTL + Delay + 1
      BY DEF TypeInv, SharedType, LRU!Cached
    <2>4. off[d] <= cache.entry[d].age + Delay
      BY DEF StaleInv
    <2> QED
      BY <2>2, <2>3, <2>4, TimeAssumption
  <1> QED
    BY <1>1, <1>2, NextStale, TypeInvariant, PTL DEF Spec

-----------------------------------------------------------------------------
(* Coherence.  A result is right until a write overtakes it, and the entry *)
(* of a normalized domain until a write changes the answer; that write is  *)
(* about to invalidate it, has failed, or was of a redirect that took over *)
(* a domain from another source.                                           *)

Excused(d) == mark[d] \in {"raced", "moved", "lost"}

CoherentInv ==
  /\ \A f \in Results : f.overtaken \/ Right(f.domain, f.answer)
  /\ \A d \in LRU!Cached(cache) : Normalized(d) = d =>
       Right(d, cache.entry[d].answer) \/ BeingInvalidated(d) \/ Excused(d)

\* Normalizing twice is normalizing once.
LEMMA NormalizedTwice == \A d \in Domain : Normalized(Normalized(d)) = Normalized(d)
  BY DEF Normalized, TrimSpace, ToLower, Domain

\* What is right of a redirect is right without its type.
LEMMA RightUntyped ==
  ASSUME NEW d, NEW a \in ServedAnswer, Right(d, a)
  PROVE  Right(d, [a EXCEPT !.type = None])
  <1>1. PICK x \in Answers(d) : a = x \/ a = [x EXCEPT !.type = None]
    BY DEF Right
  <1>2. x = [target |-> x.target, type |-> x.type, tags |-> x.tags]
    BY DEF Answers, Carried
  <1>3. [a EXCEPT !.type = None] = [x EXCEPT !.type = None]
    BY <1>1, <1>2
  <1> QED
    BY <1>3 DEF Right

\* Answers depend on the documents only.
LEMMA AnswersSame ==
  ASSUME docs' = docs
  PROVE  /\ \A d : Answers(d)' = Answers(d)
         /\ \A d, a : Right(d, a)' <=> Right(d, a)
         /\ Changed = {}
  BY DEF Answers, ActiveIds, StoredIds, Right, Changed

\* A domain whose answer a step does not change.
LEMMA RightUnchanged ==
  ASSUME NEW d \in CacheKey, d \notin Changed, NEW a
  PROVE  Right(d, a)' <=> Right(d, a)
  BY DEF Changed, Right

\* Reader steps leave what is being invalidated alone.
LEMMA ReaderCoherent ==
  ASSUME TypeInv, CoherentInv,
         \/ \E r \in Reader : LookupStep(r)
         \/ WarmQuery \/ WarmFails \/ WarmPut \/ WarmEnds \/ ClearCache
  PROVE  CoherentInv'
  <1>1. /\ UNCHANGED <<docs, indexed, writers>>
        /\ \A d \in LRU!Cached(cache') : Kept(d) \/ \E f \in Results : Filled(d, f)
        /\ \A f \in Results' : f \in Results \/ Queried(f)
    BY ReaderEffect
  <1>2. docs' = docs /\ pc' = pc /\ req' = req
    BY <1>1 DEF writers
  <1>3. ASSUME NEW f \in Results' PROVE f.overtaken \/ Right(f.domain, f.answer)'
    <2>1. CASE f \in Results
      BY <1>2, <2>1, AnswersSame DEF CoherentInv
    <2>2. CASE Queried(f)
      <3>1. Right(f.domain, f.answer)
        BY <2>2 DEF Queried, Right
      <3> QED
        BY <1>2, <3>1, AnswersSame
    <2> QED
      BY <1>1, <2>1, <2>2
  <1>4. ASSUME NEW d \in LRU!Cached(cache'), Normalized(d) = d
        PROVE  Right(d, cache.entry[d].answer)' \/ BeingInvalidated(d)' \/ Excused(d)'
    <2>1. CASE Kept(d)
      <3>1. Right(d, cache.entry[d].answer) \/ BeingInvalidated(d) \/ Excused(d)
        BY <1>4, <2>1 DEF Kept, CoherentInv
      <3> QED
        BY <1>2, <2>1, <3>1, AnswersSame DEF Kept, BeingInvalidated, Excused
    <2>2. ASSUME NEW f \in Results, Filled(d, f)
          PROVE  Right(d, cache.entry[d].answer)' \/ Excused(d)'
      <3>1. CASE f.overtaken
        BY <2>2, <3>1 DEF Filled, Excused
      <3>2. CASE ~f.overtaken
        <4>1. Right(d, f.answer) /\ f \in FetchedType
          BY <2>2, <3>2, ResultsType DEF Filled, CoherentInv
        <4>2. f.answer \in ServedAnswer
          BY <4>1 DEF FetchedType, ServedAnswer
        <4>3. Right(d, cache'.entry[d].answer)
          BY <2>2, <4>1, <4>2, RightUntyped DEF Filled
        <4> QED
          BY <1>2, <4>3, AnswersSame
      <3> QED
        BY <3>1, <3>2
    <2> QED
      BY <1>1, <2>1, <2>2
  <1> QED
    BY <1>3, <1>4 DEF CoherentInv

\* A write that changes the answer for a domain overtakes what is under way
\* for it, and leaves an entry for it to be invalidated, or excused.
LEMMA WriterCoherent ==
  ASSUME TypeInv, CoherentInv, NEW w \in Writer, WriterStep(w)
  PROVE  CoherentInv'
  <1>1. Arrive(w) \/ Proceed(w)
    BY DEF WriterStep
  <1>2. OthersStay(w) /\ (docs' = docs \/ Stores(w))
    BY <1>1, WriterEffect DEF TypeInv, SharedType
  <1>3. /\ LRU!Cached(cache') \subseteq LRU!Cached(cache)
        /\ \A d \in LRU!Cached(cache') : cache'.entry[d] = cache.entry[d]
        /\ pc[w] = "invalidate" => Normalized(req[w].doc.source) \notin LRU!Cached(cache')
    BY <1>1, WriterCache DEF TypeInv, SharedType
  <1>4. ASSUME NEW g \in Results' PROVE g.overtaken \/ Right(g.domain, g.answer)'
    <2>1. PICK f \in Results : g = Overtake(f)
      BY WriterResults
    <2>2. f \in FetchedType /\ (f.overtaken \/ Right(f.domain, f.answer))
      BY ResultsType DEF CoherentInv
    <2>3. /\ g.overtaken = (f.overtaken \/ f.domain \in Changed)
          /\ g.domain = f.domain /\ g.answer = f.answer
      BY <2>1, <2>2, CarriedType
    <2>4. f.domain \in CacheKey
      BY <2>2 DEF FetchedType
    <2> QED
      BY <2>2, <2>3, <2>4, RightUnchanged
  <1>5. ASSUME NEW d \in LRU!Cached(cache'), Normalized(d) = d
        PROVE  Right(d, cache.entry[d].answer)' \/ BeingInvalidated(d)' \/ Excused(d)'
    <2>1. d \in CacheKey /\ d \in LRU!Cached(cache) /\ cache'.entry[d] = cache.entry[d]
      BY <1>3 DEF LRU!Cached
    <2>2. mark'[d] = Explain(w, d)
      BY <2>1 DEF WriterStep
    <2>3. BeingInvalidated(d) => BeingInvalidated(d)'
      <3> SUFFICES ASSUME NEW v \in Writer, pc[v] = "invalidate",
                          Normalized(req[v].doc.source) = d
                   PROVE  pc'[v] = "invalidate" /\ Normalized(req'[v].doc.source) = d
        BY DEF BeingInvalidated
      <3>1. v # w
        BY <1>3
      <3> QED
        BY <1>2, <3>1 DEF OthersStay
    <2>4. CASE d \notin Changed
      <3>1. mark'[d] = mark[d]
        BY <2>2, <2>4 DEF Explain
      <3>2. Right(d, cache.entry[d].answer) \/ BeingInvalidated(d) \/ Excused(d)
        BY <1>5, <2>1 DEF CoherentInv
      <3> QED
        BY <2>1, <2>3, <2>4, <3>1, <3>2, RightUnchanged DEF Excused
    <2>5. CASE d \in Changed
      <3>1. Stores(w)
        BY <1>2, <2>5, AnswersSame
      <3>2. CASE pc'[w] = "idle" \/ d # Normalized(req[w].doc.source)
        BY <2>2, <2>5, <3>2 DEF Explain, Excused
      <3>3. CASE pc'[w] # "idle" /\ d = Normalized(req[w].doc.source)
        BY <3>1, <3>3 DEF Stores, BeingInvalidated
      <3> QED
        BY <3>2, <3>3
    <2> QED
      BY <2>4, <2>5
  <1> QED
    BY <1>4, <1>5 DEF CoherentInv

\* A tick changes no answer and no entry's.
LEMMA TickCoherent ==
  ASSUME TypeInv, CoherentInv, Tick
  PROVE  CoherentInv'
  <1>1. docs' = docs /\ pc' = pc /\ req' = req /\ mark' = mark
    BY DEF Tick, writers
  <1>2. ASSUME NEW g \in Results' PROVE g.overtaken \/ Right(g.domain, g.answer)'
    <2>1. PICK f \in Results : g = Aged(f)
      BY TickResults
    <2>2. f \in FetchedType /\ (f.overtaken \/ Right(f.domain, f.answer))
      BY ResultsType DEF CoherentInv
    <2>3. g.overtaken = f.overtaken /\ g.domain = f.domain /\ g.answer = f.answer
      BY <2>1, <2>2, CarriedType
    <2> QED
      BY <1>1, <2>2, <2>3, AnswersSame
  <1>3. ASSUME NEW d \in LRU!Cached(cache'), Normalized(d) = d
        PROVE  Right(d, cache.entry[d].answer)' \/ BeingInvalidated(d)' \/ Excused(d)'
    <2>1. d \in LRU!Cached(cache) /\ cache'.entry[d].answer = cache.entry[d].answer
      BY TickCache DEF TypeInv, SharedType
    <2>2. Right(d, cache.entry[d].answer) \/ BeingInvalidated(d) \/ Excused(d)
      BY <1>3, <2>1 DEF CoherentInv
    <2> QED
      BY <1>1, <2>1, <2>2, AnswersSame DEF BeingInvalidated, Excused
  <1> QED
    BY <1>2, <1>3 DEF CoherentInv

\* Coherence is inductive.
LEMMA NextCoherent == TypeInv /\ CoherentInv /\ [Next]_vars => CoherentInv'
  <1> SUFFICES ASSUME TypeInv, CoherentInv, [Next]_vars PROVE CoherentInv'
    OBVIOUS
  <1>1. CASE UNCHANGED vars
    <2>1. UNCHANGED <<docs, cache, pc, req, mark, found, warm>>
      BY <1>1 DEF vars, redirectVars, store, writers, lookupVars
    <2>2. Results' = Results
      BY <2>1 DEF Results
    <2> QED
      BY <2>1, <2>2, AnswersSame DEF CoherentInv, BeingInvalidated, Excused
  <1>2. CASE RestartAll
    BY <1>2, RestartResults DEF CoherentInv
  <1> QED
    BY <1>1, <1>2, ReaderCoherent, WriterCoherent, TickCoherent DEF Next

(* Invalidation on write, for any number of readers, writers and domains: a *)
(* wrong answer in the cache is one whose writer is about to invalidate it, *)
(* or came from a query that a write overtook, from a redirect that took    *)
(* another source, or from a write reported as failed.                      *)
THEOREM CacheCoherent == Spec => []CoherentUnlessRaced
  <1>1. LookupInit => CoherentInv
    BY InitResults DEF CoherentInv
  <1>2. CoherentInv => CoherentUnlessRaced
    <2>1. \A d \in Asked : Normalized(d) = d
      BY HostAssumption, NormalizedTwice DEF Asked
    <2> QED
      BY <2>1 DEF CoherentUnlessRaced, Coherent, CoherentInv, Excused
  <1> QED
    BY <1>1, <1>2, NextCoherent, TypeInvariant, PTL DEF Spec
=============================================================================
