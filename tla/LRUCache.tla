------------------------------ MODULE LRUCache ------------------------------
(***************************************************************************)
(* What util/cache/lru.go promises its callers: a bounded map that answers *)
(* Get with the last value Put, and that makes room by dropping the key    *)
(* whose last use is the oldest.  LRUList implements this specification.   *)
(***************************************************************************)
EXTENDS LRUOps

CONSTANTS Entry  \* the values stored, *CacheEntry in the code

VARIABLES cache,  \* the cache value, see LRUOps
          answer  \* what the last Get returned

cacheVars == <<cache, answer>>

Init ==
  /\ cache = EmptyCache
  /\ answer = NoEntry

Get(k) ==
  /\ answer' = Hit(cache, k)
  /\ cache' = CacheGet(cache, k)

Put(k, e) ==
  /\ cache' = CachePut(cache, k, e)
  /\ UNCHANGED answer

Delete(k) ==
  /\ cache' = CacheDelete(cache, k)
  /\ UNCHANGED answer

Clear ==
  /\ cache' = CacheClear
  /\ UNCHANGED answer

Next ==
  \/ \E k \in Key : Get(k)
  \/ \E k \in Key, e \in Entry : Put(k, e)
  \/ \E k \in Key : Delete(k)
  \/ Clear

Spec == Init /\ [][Next]_cacheVars
=============================================================================
