----------------------------- MODULE Redirects ------------------------------
(***************************************************************************)
(* The management API's writers (api/redirects.go, uc/redirects.go,        *)
(* domain/redirect/redirect.go) over the redirects collection.             *)
(*                                                                         *)
(* Each request runs in its own goroutine, takes no lock, and is a series  *)
(* of calls to MongoDB: between two of them anything may happen.  One call *)
(* is one action, together with the local computation that follows it.     *)
(* Any call may fail where Faults says so; a write that fails may have     *)
(* been applied all the same.  Requests that fail validation change        *)
(* nothing and are not modelled; sessions are checked before any of this.  *)
(***************************************************************************)
EXTENDS Naturals, FiniteSets

CONSTANTS
  Writer,         \* goroutines that serve write requests, reused in turn
  Id,             \* redirect ids: RandomId returns one not in use
  Name,           \* domain names up to case and surrounding blanks
  SourceInput,    \* the spellings of source domains that requests carry
  TargetInput,    \* the spellings of target domains that requests carry
  Status, Type,   \* the statuses and redirect types that requests carry
  Tags, BadTags,  \* the utmTags of requests; those UTMTags.Validate refuses
  None,           \* nothing: a nil pointer, an absent document, id or field
  Capacity,       \* of the lookup cache
  Faults          \* which calls to MongoDB may fail: the reads of the
                  \* checks, the queries of lookups, the writes

\* A domain as a string: a name, with capitals or not, with blanks or not.
Domain == [name : Name, upper : BOOLEAN, padded : BOOLEAN]

Statuses == {"active", "inactive", "deleted"}

ASSUME InputAssumption == SourceInput \subseteq Domain /\ TargetInput \subseteq Domain
ASSUME StatusAssumption == Status \subseteq Statuses
ASSUME NoneAssumption == None \notin Id /\ None \notin BadTags /\ None \notin Domain
ASSUME CapacityAssumption == Capacity \in Nat
ASSUME FaultsAssumption == Faults \subseteq {"check", "query", "write"}

ToLower(d) == [d EXCEPT !.upper = FALSE]
TrimSpace(d) == [d EXCEPT !.padded = FALSE]
EqualFold(d, e) == ToLower(d) = ToLower(e)

\* What is stored of a redirect (owner, times and etag decide nothing here).
Redirect ==
  [source : Domain, target : Domain, status : Statuses, type : Type,
   tags : Tags \cup {None}]

ASSUME NoRedirectAssumption == None \notin Redirect

CacheKey == {ToLower(d) : d \in Domain}

LRU == INSTANCE LRUOps WITH Key <- CacheKey, NoEntry <- None

VARIABLES
  docs,     \* the redirects collection
  indexed,  \* whether the unique index on sourceDomain exists
  cache,    \* the lookup service's cache, see Lookup
  pc,       \* what each writer does next
  req,      \* its request: operation, redirect id, redirect to be stored
  at,       \* checkCircularChain's startDomain
  visited,  \* checkCircularChain's visited
  \* Auxiliary, read by no guard:
  stale,    \* the writer's checks have been overtaken or cut short
  unchecked,\* a writer with stale checks has written
  behind,   \* redirects that their newest audit event does not describe,
            \* with no error told to the client of their last change
  crossed   \* redirects last written before the audit event of another write

store == <<docs, indexed, cache>>
trail == <<behind, crossed>>
writers == <<pc, req, at, visited, stale, unchecked, trail>>
redirectVars == <<store, writers>>

NoReq == [op |-> "none", id |-> None, doc |-> None]

RedirectsInit ==
  /\ docs = [i \in Id |-> None]
  /\ indexed \in BOOLEAN          \* Configure only logs a failed CreateMany
  /\ cache = LRU!EmptyCache
  /\ pc = [w \in Writer |-> "idle"]
  /\ req = [w \in Writer |-> NoReq]
  /\ at = [w \in Writer |-> None]
  /\ visited = [w \in Writer |-> {}]
  /\ stale = [w \in Writer |-> FALSE]
  /\ unchecked = FALSE
  /\ behind = {}
  /\ crossed = {}

-----------------------------------------------------------------------------
StoredIds == {i \in Id : docs[i] # None}

\* Mutant of LiveIds: inactive redirects are not counted.
LiveIdsActive(d) == {i \in StoredIds : docs[i].source = d /\ docs[i].status = "active"}

LiveIds(d) == {i \in StoredIds : docs[i].source = d /\ docs[i].status # "deleted"}

\* The documents FindBySourceDomain may return.
ActiveIds(d) ==
  {i \in StoredIds : docs[i].source = ToLower(d) /\ docs[i].status = "active"}

Goto(w, label) == pc' = [pc EXCEPT ![w] = label]

\* The handler returns, with an error or without.
Answer(w) ==
  /\ Goto(w, "idle")
  /\ req' = [req EXCEPT ![w] = NoReq]
  /\ at' = [at EXCEPT ![w] = None]
  /\ visited' = [visited EXCEPT ![w] = {}]

\* Answers that leave the store, the audit trail and every check alone.
Refuse(w) ==
  /\ Answer(w)
  /\ stale' = [stale EXCEPT ![w] = FALSE]
  /\ UNCHANGED <<store, unchecked, trail>>

-----------------------------------------------------------------------------
(* A request arrives.  Create and Update lower-case both domains first.    *)

Command == [source : SourceInput, target : TargetInput, status : Status, type : Type,
            tags : Tags]

Lowered(c) ==
  [source |-> ToLower(c.source), target |-> ToLower(c.target),
   status |-> c.status, type |-> c.type, tags |-> c.tags]

Begin(w, op, i, doc, label) ==
  /\ pc[w] = "idle"
  /\ req' = [req EXCEPT ![w] = [op |-> op, id |-> i, doc |-> doc]]
  /\ Goto(w, label)
  /\ UNCHANGED <<store, at, visited, stale, unchecked, trail>>

\* Bound: ids do not run out while a create is under way.
IdsLeft == Cardinality({v \in Writer : req[v].op = "create" /\ req[v].id = None})
             < Cardinality(Id \ StoredIds)

Post(w) ==
  /\ IdsLeft
  /\ \E c \in Command : Begin(w, "create", None, Lowered(c), "count")

\* Mutant of Put: an unknown id is not answered with 404.
PutUnknown(w) ==
  \E i \in Id, c \in Command : Begin(w, "update", i, Lowered(c), "count")

\* withRedirectFromPath finds the document; Update overwrites every field of
\* it that the model has, so that only its id matters.
Put(w) ==
  \E i \in StoredIds, c \in Command : Begin(w, "update", i, Lowered(c), "count")

Delete(w) == \E i \in StoredIds : Begin(w, "delete", i, None, "find")

-----------------------------------------------------------------------------
(* The checks of Create and Update.                                        *)

\* The count of other live redirects with this source, and the direct case
\* of CheckForCircularRedirect.
CountSources(w) ==
  LET doc == req[w].doc
      others == LiveIds(doc.source) \ {req[w].id}
  IN
  /\ pc[w] = "count"
  /\ IF others # {} \/ EqualFold(doc.source, doc.target)
     THEN Refuse(w)
     ELSE /\ Goto(w, "walk")
          /\ at' = [at EXCEPT ![w] = doc.target]
          /\ stale' = [stale EXCEPT ![w] = FALSE]
          /\ UNCHANGED <<store, req, visited, unchecked, trail>>

CountFails(w) ==
  /\ "check" \in Faults
  /\ pc[w] = "count"
  /\ Refuse(w)

\* Mutant of MetAgain: the test of the visited domains is missing.
MetSource(w) == EqualFold(at[w], req[w].doc.source)

MetAgain(w) == at[w] \in visited[w] \/ EqualFold(at[w], req[w].doc.source)

\* checkCircularChain comes back to a domain it has seen, or to the source.
WalkMeets(w) ==
  /\ pc[w] = "walk"
  /\ MetAgain(w)
  /\ Refuse(w)

\* Mutant of WalkOn: the chain is followed for one redirect only.
WalkOneHop(w) ==
  /\ pc[w] = "walk"
  /\ ~MetAgain(w)
  /\ \E i \in ActiveIds(at[w]) : docs[i].target # req[w].doc.source
  /\ Goto(w, "write")
  /\ UNCHANGED <<store, req, at, visited, stale, unchecked, trail>>

\* It finds an active redirect from the domain and recurses to its target.
WalkOn(w) ==
  /\ pc[w] = "walk"
  /\ ~MetAgain(w)
  /\ \E i \in ActiveIds(at[w]) : at' = [at EXCEPT ![w] = docs[i].target]
  /\ visited' = [visited EXCEPT ![w] = @ \cup {at[w]}]
  /\ UNCHANGED <<store, pc, req, stale, unchecked, trail>>

\* The chain is accepted: what is left before the write is UTMTags.Validate.
Accept(w, overtaken) ==
  IF req[w].doc.tags \in BadTags
  THEN Refuse(w)
  ELSE /\ Goto(w, "write")
       /\ at' = [at EXCEPT ![w] = None]
       /\ visited' = [visited EXCEPT ![w] = {}]
       /\ stale' = [stale EXCEPT ![w] = overtaken]
       /\ UNCHANGED <<store, req, unchecked, trail>>

WalkEnds(w) ==
  /\ pc[w] = "walk"
  /\ ~MetAgain(w)
  /\ ActiveIds(at[w]) = {}
  /\ Accept(w, stale[w])

\* Any other error of the read allows the redirect too.
WalkCut(w) ==
  /\ "check" \in Faults
  /\ pc[w] = "walk"
  /\ ~MetAgain(w)
  /\ Accept(w, TRUE)

\* Delete reads the document itself and marks the copy as deleted.
DeleteFinds(w) ==
  /\ pc[w] = "find"
  /\ req' = [req EXCEPT ![w].doc = [docs[req[w].id] EXCEPT !.status = "deleted"]]
  /\ Goto(w, "write")
  /\ UNCHANGED <<store, at, visited, stale, unchecked, trail>>

DeleteFails(w) ==
  /\ "check" \in Faults
  /\ pc[w] = "find"
  /\ Refuse(w)

-----------------------------------------------------------------------------
(* The write: InsertOne with a fresh id, or Save's UpdateOne by id.        *)

Target(w) == IF req[w].op = "create" THEN Id \ StoredIds ELSE {req[w].id}

IndexRefuses(w, i) ==
  indexed /\ \E j \in StoredIds \ {i} : docs[j].source = req[w].doc.source

\* Save leaves utmTags out of the $set when there are none.
Written(i, doc) ==
  IF docs[i] # None /\ doc.tags = None
  THEN [doc EXCEPT !.tags = docs[i].tags] ELSE doc

\* Auxiliary: writing a live redirect overtakes the checks of the others, and
\* any write may come between a write and its audit event.
Checking(v) == pc[v] \in {"walk", "write"}

Auditing(v, i) == pc[v] \in {"invalidate", "audit"} /\ req[v].id = i

Apply(w, i) ==
  LET live == req[w].doc.status # "deleted" IN
  /\ ~IndexRefuses(w, i)
  /\ docs' = [docs EXCEPT ![i] = Written(i, req[w].doc)]
  /\ stale' = [v \in Writer |-> IF v = w THEN FALSE
                                ELSE stale[v] \/ (live /\ Checking(v))]
  /\ unchecked' = (unchecked \/ (live /\ stale[w]))
  /\ crossed' = IF \E v \in Writer \ {w} : Auditing(v, i)
                THEN crossed \cup {i} ELSE crossed \ {i}
  /\ UNCHANGED <<indexed, cache>>

Write(w) ==
  /\ pc[w] = "write"
  /\ \E i \in Target(w) :
       /\ Apply(w, i)
       /\ req' = [req EXCEPT ![w].id = i]
       /\ behind' = behind \cup {i}
  /\ Goto(w, "invalidate")
  /\ UNCHANGED <<at, visited>>

\* The unique index also holds deleted redirects; the duplicate key error of
\* the driver is answered like any other.
WriteRefused(w) ==
  /\ pc[w] = "write"
  /\ \E i \in Target(w) : IndexRefuses(w, i)
  /\ Refuse(w)

WriteFails(w) ==
  /\ "write" \in Faults
  /\ pc[w] = "write"
  /\ Refuse(w)

\* The write is applied and its acknowledgement lost: Create and Save return
\* before they invalidate.
WriteUnacknowledged(w) ==
  /\ "write" \in Faults
  /\ pc[w] = "write"
  /\ \E i \in Target(w) :
       /\ Apply(w, i)
       /\ behind' = behind \ {i}
  /\ Answer(w)

\* Mutant of Invalidate: the entry stays in the cache.
InvalidateNothing(w) ==
  /\ pc[w] = "invalidate"
  /\ Goto(w, "audit")
  /\ UNCHANGED <<store, req, at, visited, stale, unchecked, trail>>

Invalidate(w) ==
  /\ pc[w] = "invalidate"
  /\ cache' = LRU!CacheDelete(cache, TrimSpace(ToLower(req[w].doc.source)))
  /\ Goto(w, "audit")
  /\ UNCHANGED <<docs, indexed, req, at, visited, stale, unchecked, trail>>

\* The event describes the redirect as the writer knows it; utmTags, which
\* Save may keep from an earlier update, are left out of the comparison.
Describes(w) ==
  LET doc == docs[req[w].id] IN
  \/ [req[w].doc EXCEPT !.tags = None] = [doc EXCEPT !.tags = None]
  \/ req[w].op = "delete" /\ doc.status = "deleted"

Audit(w) ==
  /\ pc[w] = "audit"
  /\ behind' = IF Describes(w) THEN behind \ {req[w].id} ELSE behind \cup {req[w].id}
  /\ Answer(w)
  /\ UNCHANGED <<store, stale, unchecked, crossed>>

\* Mutant of AuditFails: the error of the audit log is swallowed.
AuditFailsSilently(w) ==
  /\ "write" \in Faults
  /\ pc[w] = "audit"
  /\ Answer(w)
  /\ UNCHANGED <<store, stale, unchecked, trail>>

\* A lost event fails the request, although the redirect is written.
AuditFails(w) ==
  /\ "write" \in Faults
  /\ pc[w] = "audit"
  /\ behind' = behind \ {req[w].id}
  /\ Answer(w)
  /\ UNCHANGED <<store, stale, unchecked, crossed>>

-----------------------------------------------------------------------------
Arrive(w) == Post(w) \/ Put(w) \/ Delete(w)

Proceed(w) ==
  \/ CountSources(w) \/ CountFails(w)
  \/ WalkMeets(w) \/ WalkOn(w) \/ WalkEnds(w) \/ WalkCut(w)
  \/ DeleteFinds(w) \/ DeleteFails(w)
  \/ Write(w) \/ WriteRefused(w) \/ WriteFails(w) \/ WriteUnacknowledged(w)
  \/ Invalidate(w)
  \/ Audit(w) \/ AuditFails(w)

\* The process dies and starts again: requests and the cache are gone, the
\* collections stay, and Configure tries once more to build the index, which
\* MongoDB refuses while two documents share a source.
Indexable == \A i, j \in StoredIds : docs[i].source = docs[j].source => i = j

Restart ==
  /\ indexed' \in {indexed, indexed \/ Indexable}
  /\ cache' = LRU!EmptyCache
  /\ pc' = [w \in Writer |-> "idle"]
  /\ req' = [w \in Writer |-> NoReq]
  /\ at' = [w \in Writer |-> None]
  /\ visited' = [w \in Writer |-> {}]
  /\ stale' = [w \in Writer |-> FALSE]
  /\ behind' = {}
  /\ crossed' = {}
  /\ UNCHANGED <<docs, unchecked>>

RedirectsNext ==
  \/ \E w \in Writer : Arrive(w) \/ Proceed(w)
  \/ Restart

RedirectsSpec == RedirectsInit /\ [][RedirectsNext]_redirectVars

\* A goroutine that serves a request is scheduled and its calls return: the
\* driver times out after 30 seconds.  Nobody has to send a request.
WritersFair == \A w \in Writer : WF_redirectVars(Proceed(w))

-----------------------------------------------------------------------------
Labels == {"idle", "count", "walk", "find", "write", "invalidate", "audit"}

\* What a writer at work holds: the redirect to be stored, the domain its
\* walk has come to, the id of a stored redirect.
Equipped(w) ==
  /\ pc[w] # "idle" => req[w].op # "none"
  /\ pc[w] \in {"count", "walk", "write", "invalidate", "audit"} => req[w].doc # None
  /\ pc[w] = "walk" => at[w] # None
  /\ req[w].op \in {"update", "delete"} => req[w].id \in StoredIds
  /\ pc[w] \in {"find", "invalidate", "audit"} => req[w].id \in StoredIds

(* Every variable keeps its type, and a writer holds what its next step     *)
(* uses: no step reads a nil redirect or updates an unknown id.             *)
TypeOK ==
  /\ docs \in [Id -> Redirect \cup {None}]
  /\ indexed \in BOOLEAN
  /\ pc \in [Writer -> Labels]
  /\ req \in [Writer -> [op : {"none", "create", "update", "delete"},
                         id : Id \cup {None}, doc : Redirect \cup {None}]]
  /\ at \in [Writer -> Domain \cup {None}]
  /\ visited \in [Writer -> SUBSET Domain]
  /\ stale \in [Writer -> BOOLEAN]
  /\ unchecked \in BOOLEAN
  /\ behind \subseteq Id
  /\ crossed \subseteq Id
  /\ \A w \in Writer : Equipped(w)

\* A set of domains each of which has an active redirect into the set: a
\* visitor who enters it never leaves it.
Loop(S) ==
  /\ S # {}
  /\ \A d \in S : \E i \in ActiveIds(d) : docs[i].target \in S

NoLoop == \A S \in SUBSET {docs[i].source : i \in StoredIds} : ~Loop(S)

(* Loop protection (README, "Loop protection"; CheckForCircularRedirect):   *)
(* active redirects form no loop of any length unless some writer's checks  *)
(* were overtaken by another write, or cut short by a failed read.          *)
NoLoopUnlessUnchecked == ~unchecked => NoLoop

(* A source has at most one redirect that is not deleted.  With the unique  *)
(* index whatever writers race or calls fail; without it by the duplicate   *)
(* check alone, unless the checks of some writer were overtaken or cut.     *)
LiveSourcesDistinct ==
  indexed \/ ~unchecked => \A i, j \in StoredIds :
     /\ docs[i].source = docs[j].source
     /\ docs[i].status # "deleted"
     /\ docs[j].status # "deleted"
     => i = j

(* uc/redirects.go writes the audit event after the redirect, in no          *)
(* transaction.  When nobody works on a redirect, its newest event           *)
(* describes it (utmTags aside), unless the client of its last change got an *)
(* error, or no answer because of a restart, or two requests for it crossed: *)
(* the one that wrote first was audited last.                                *)
AuditTellsStore ==
  \A i \in behind \ crossed : \E w \in Writer : Auditing(w, i)

(* Every request is answered, even when its walk enters a loop that is      *)
(* already stored or that other writers are changing: visited ends it.      *)
Answered == \A w \in Writer : pc[w] # "idle" ~> pc[w] = "idle"
=============================================================================
