------------------------------- MODULE LRUOps -------------------------------
(***************************************************************************)
(* The operations of util/cache/lru.go as functions on cache values.       *)
(*                                                                         *)
(* Every exported method holds the mutex from its first statement to its   *)
(* last, so a method is one step of a caller.  A cache value is a record   *)
(*   rank  : the place of a key in the recency list, 1 for the most recent *)
(*           and 0 for a key that is not cached;                           *)
(*   entry : what the key's node holds, NoEntry if there is no node.       *)
(* Module LRUList shows that the linked list of the code implements this.  *)
(***************************************************************************)
EXTENDS Naturals

CONSTANTS Key,       \* the strings used as keys
          Capacity,  \* NewLRUCache's argument, 1000 in redirect.Configure
          NoEntry    \* no node under a key

ASSUME CapacityAssumption == Capacity \in Nat

EmptyCache == [rank |-> [k \in Key |-> 0], entry |-> [k \in Key |-> NoEntry]]

Cached(c) == {k \in Key : c.rank[k] > 0}

\* What Get hands to its caller, NoEntry standing for (nil, false).
Hit(c, k) == c.entry[k]

\* Moving k to the front pushes back by one the keys that were ahead of it
\* (every cached key, when k was not cached).
Overtaken(c, k) == {j \in Cached(c) \ {k} : c.rank[k] = 0 \/ c.rank[j] < c.rank[k]}

RankToFront(c, k) ==
  [j \in Key |-> IF j = k THEN 1
                 ELSE IF j \in Overtaken(c, k) THEN c.rank[j] + 1 ELSE c.rank[j]]

CacheGet(c, k) ==
  IF k \in Cached(c) THEN [c EXCEPT !.rank = RankToFront(c, k)] ELSE c

\* Mutant of CachePut: nothing is ever evicted.
CachePutUnbounded(c, k, e) ==
  [rank |-> RankToFront(c, k), entry |-> [c.entry EXCEPT ![k] = e]]

\* Put evicts the key pushed past the capacity, which only a new key does.
CachePut(c, k, e) ==
  LET rank == RankToFront(c, k) IN
  [rank  |-> [j \in Key |-> IF rank[j] > Capacity THEN 0 ELSE rank[j]],
   entry |-> [j \in Key |-> IF rank[j] > Capacity THEN NoEntry
                            ELSE IF j = k THEN e ELSE c.entry[j]]]

CacheDelete(c, k) ==
  IF k \in Cached(c)
  THEN [rank  |-> [j \in Key |-> IF j = k THEN 0
                                 ELSE IF c.rank[j] > c.rank[k] THEN c.rank[j] - 1
                                 ELSE c.rank[j]],
        entry |-> [c.entry EXCEPT ![k] = NoEntry]]
  ELSE c

CacheClear == EmptyCache
=============================================================================
