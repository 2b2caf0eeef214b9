---------------------------- MODULE LRUOpsProofs ----------------------------
(***************************************************************************)
(* What the operations of module LRUOps do to a cache value, for every set *)
(* of keys and every capacity.                                             *)
(***************************************************************************)
EXTENDS LRUOps, TLAPS

\* A cache value that calls can lead to: distinct places up to Capacity, and
\* an entry under the cached keys only.
Ranked(c) ==
  /\ c = [rank |-> c.rank, entry |-> c.entry]
  /\ c.rank \in [Key -> 0..Capacity]
  /\ c.entry = [k \in Key |-> c.entry[k]]
  /\ \A k \in Key : c.rank[k] = 0 => c.entry[k] = NoEntry
  /\ \A j, k \in Cached(c) : c.rank[j] = c.rank[k] => j = k

-----------------------------------------------------------------------------
(* The places alone.                                                       *)

Distinct(r) == \A i, j \in Key : r[i] > 0 /\ r[i] = r[j] => i = j

\* A cached key comes to the front, a new key comes to the front, a key goes.
Moved(r, k) == [j \in Key |-> IF j = k THEN 1
                              ELSE IF r[j] > 0 /\ r[j] < r[k] THEN r[j] + 1 ELSE r[j]]

Pushed(r, k) == [j \in Key |-> IF j = k THEN 1 ELSE IF r[j] > 0 THEN r[j] + 1 ELSE r[j]]

Closed(r, k) == [j \in Key |-> IF j = k THEN 0
                               ELSE IF r[j] > r[k] THEN r[j] - 1 ELSE r[j]]

\* Moving a cached key to the front permutes the places.
LEMMA MovePlaces ==
  ASSUME NEW r \in [Key -> 0..Capacity], NEW k \in Key, r[k] > 0, Distinct(r)
  PROVE  /\ Moved(r, k) \in [Key -> 0..Capacity]
         /\ \A j \in Key : Moved(r, k)[j] = 0 <=> r[j] = 0
         /\ Distinct(Moved(r, k))
  <1>1. \A j \in Key : Moved(r, k)[j] \in 0..Capacity /\ (Moved(r, k)[j] = 0 <=> r[j] = 0)
    BY CapacityAssumption DEF Moved
  <1>2. Distinct(Moved(r, k))
    BY CapacityAssumption DEF Distinct, Moved
  <1> QED
    BY <1>1, <1>2 DEF Moved

\* A new key at the front pushes back every other, and nothing else.
LEMMA PushPlaces ==
  ASSUME NEW r \in [Key -> 0..Capacity], NEW k \in Key, r[k] = 0, Distinct(r)
  PROVE  /\ Pushed(r, k) \in [Key -> Nat]
         /\ \A j \in Key : Pushed(r, k)[j] = 0 <=> j # k /\ r[j] = 0
         /\ Distinct(Pushed(r, k))
  <1>1. \A j \in Key : /\ Pushed(r, k)[j] \in Nat
                       /\ Pushed(r, k)[j] = 0 <=> j # k /\ r[j] = 0
    BY CapacityAssumption DEF Pushed
  <1>2. Distinct(Pushed(r, k))
    BY CapacityAssumption DEF Distinct, Pushed
  <1> QED
    BY <1>1, <1>2 DEF Pushed

\* Taking a key out closes its gap.
LEMMA ClosePlaces ==
  ASSUME NEW r \in [Key -> 0..Capacity], NEW k \in Key, r[k] > 0, Distinct(r)
  PROVE  /\ Closed(r, k) \in [Key -> 0..Capacity]
         /\ \A j \in Key : Closed(r, k)[j] = 0 <=> j = k \/ r[j] = 0
         /\ Distinct(Closed(r, k))
  <1>1. \A j \in Key : /\ Closed(r, k)[j] \in 0..Capacity
                       /\ Closed(r, k)[j] = 0 <=> j = k \/ r[j] = 0
    BY CapacityAssumption DEF Closed
  <1>2. Distinct(Closed(r, k))
    BY CapacityAssumption DEF Distinct, Closed
  <1> QED
    BY <1>1, <1>2 DEF Closed

\* The places of a cache value, and its cached keys.
LEMMA Places ==
  ASSUME NEW c, Ranked(c)
  PROVE  \E r \in [Key -> 0..Capacity] :
           /\ c.rank = r
           /\ \A k \in Key : r[k] = 0 => c.entry[k] = NoEntry
           /\ Cached(c) = {k \in Key : r[k] > 0}
           /\ Distinct(r)
  <1>1. Cached(c) = {k \in Key : c.rank[k] > 0}
    BY DEF Cached
  <1>2. PICK r \in [Key -> 0..Capacity] : r = c.rank
    BY DEF Ranked
  <1>3. Distinct(r)
    BY <1>1, <1>2 DEF Ranked, Distinct
  <1> QED
    BY <1>1, <1>2, <1>3 DEF Ranked

\* What makes a cache value.
LEMMA MakeRanked ==
  ASSUME NEW s \in [Key -> 0..Capacity], NEW m,
         m = [k \in Key |-> m[k]],
         \A k \in Key : s[k] = 0 => m[k] = NoEntry,
         Distinct(s)
  PROVE  /\ Ranked([rank |-> s, entry |-> m])
         /\ Cached([rank |-> s, entry |-> m]) = {k \in Key : s[k] > 0}
  <1> DEFINE d == [rank |-> s, entry |-> m]
  <1>1. d.rank = s /\ d.entry = m
    OBVIOUS
  <1>2. Cached(d) = {k \in Key : s[k] > 0}
    BY DEF Cached
  <1>3. \A i, j \in Cached(d) : s[i] = s[j] => i = j
    BY <1>2 DEF Distinct
  <1> QED
    BY <1>1, <1>2, <1>3 DEF Ranked

-----------------------------------------------------------------------------
(* The operations.                                                         *)

\* An empty cache, the one NewLRUCache makes and Clear leaves.
LEMMA EmptyRanked == Ranked(EmptyCache) /\ Cached(EmptyCache) = {}
  <1> DEFINE s == [k \in Key |-> 0]
             m == [k \in Key |-> NoEntry]
  <1>1. s \in [Key -> 0..Capacity] /\ Distinct(s)
    BY CapacityAssumption DEF Distinct
  <1>2. m = [k \in Key |-> m[k]] /\ \A k \in Key : m[k] = NoEntry
    OBVIOUS
  <1>3. {k \in Key : s[k] > 0} = {}
    OBVIOUS
  <1>4. EmptyCache = [rank |-> s, entry |-> m]
    BY DEF EmptyCache
  <1> HIDE DEF s, m
  <1> QED
    BY <1>1, <1>2, <1>3, <1>4, MakeRanked

\* Get changes the order of what is cached and nothing else.
LEMMA GetRanked ==
  ASSUME NEW c, Ranked(c), NEW k \in Key
  PROVE  /\ Ranked(CacheGet(c, k))
         /\ Cached(CacheGet(c, k)) = Cached(c)
         /\ CacheGet(c, k).entry = c.entry
  <1>1. CASE k \notin Cached(c)
    BY <1>1 DEF CacheGet
  <1>2. CASE k \in Cached(c)
    <2>1. PICK r \in [Key -> 0..Capacity] :
            /\ c.rank = r
            /\ \A j \in Key : r[j] = 0 => c.entry[j] = NoEntry
            /\ Cached(c) = {j \in Key : r[j] > 0}
            /\ Distinct(r)
      BY Places
    <2> DEFINE s == Moved(c.rank, k)
    <2>2. r[k] > 0
      BY <1>2, <2>1
    <2>3. \A j \in Key : j \in Overtaken(c, k) <=> j # k /\ r[j] > 0 /\ r[j] < r[k]
      <3>1. Overtaken(c, k) = {j \in {i \in Key : r[i] > 0} \ {k} : r[k] = 0 \/ r[j] < r[k]}
        BY <2>1 DEF Overtaken
      <3> QED
        BY <3>1, <2>2, CapacityAssumption
    <2>4. RankToFront(c, k) = s
      BY <2>1, <2>2, <2>3 DEF RankToFront, Moved
    <2>5. CacheGet(c, k) = [rank |-> s, entry |-> c.entry]
      <3>1. CacheGet(c, k) = [c EXCEPT !.rank = RankToFront(c, k)]
        BY <1>2 DEF CacheGet
      <3>2. c = [rank |-> c.rank, entry |-> c.entry]
        BY DEF Ranked
      <3>3. ASSUME NEW p PROVE [c EXCEPT !.rank = p] = [rank |-> p, entry |-> c.entry]
        BY <3>2
      <3> QED
        BY <2>4, <3>1, <3>3
    <2>6. /\ s \in [Key -> 0..Capacity]
          /\ \A j \in Key : s[j] = 0 <=> r[j] = 0
          /\ Distinct(s)
      BY <2>1, <2>2, MovePlaces
    <2> HIDE DEF s
    <2>9. \A j \in Key : s[j] = 0 => c.entry[j] = NoEntry
      BY <2>1, <2>6
    <2>7. /\ Ranked([rank |-> s, entry |-> c.entry])
          /\ Cached([rank |-> s, entry |-> c.entry]) = {j \in Key : s[j] > 0}
      BY <2>6, <2>9, MakeRanked DEF Ranked
    <2>8. {j \in Key : s[j] > 0} = {j \in Key : r[j] > 0}
      BY <2>6, CapacityAssumption
    <2> QED
      BY <2>1, <2>2, <2>5, <2>7, <2>8
  <1> QED
    BY <1>1, <1>2

\* Put leaves the cached keys but for one that may go, adds its own key, and
\* changes the entry of no other key that stays.
LEMMA PutRanked ==
  ASSUME NEW c, Ranked(c), NEW k \in Key, NEW e
  PROVE  /\ Ranked(CachePut(c, k, e))
         /\ Cached(CachePut(c, k, e)) \subseteq Cached(c) \cup {k}
         /\ \A j \in Cached(CachePut(c, k, e)) :
              CachePut(c, k, e).entry[j] = IF j = k THEN e ELSE c.entry[j]
  <1>1. PICK r \in [Key -> 0..Capacity] :
          /\ c.rank = r
          /\ \A j \in Key : r[j] = 0 => c.entry[j] = NoEntry
          /\ Cached(c) = {j \in Key : r[j] > 0}
          /\ Distinct(r)
    BY Places
  <1>3. PICK s \in [Key -> Nat] :
          /\ RankToFront(c, k) = s
          /\ \A j \in Key : s[j] = 0 <=> j # k /\ r[j] = 0
          /\ Distinct(s)
    <2>1. CASE r[k] > 0
      <3> DEFINE t == Moved(c.rank, k)
      <3>1. \A j \in Key : j \in Overtaken(c, k) <=> j # k /\ r[j] > 0 /\ r[j] < r[k]
        <4>1. Overtaken(c, k) = {j \in {i \in Key : r[i] > 0} \ {k} : r[k] = 0 \/ r[j] < r[k]}
          BY <1>1 DEF Overtaken
        <4> QED
          BY <4>1, <2>1, CapacityAssumption
      <3>2. RankToFront(c, k) = t
        BY <1>1, <2>1, <3>1 DEF RankToFront, Moved
      <3>3. /\ t \in [Key -> 0..Capacity]
            /\ \A j \in Key : t[j] = 0 <=> r[j] = 0
            /\ Distinct(t)
        BY <1>1, <2>1, MovePlaces
      <3> HIDE DEF t
      <3>4. t \in [Key -> Nat]
        BY <3>3, CapacityAssumption
      <3> QED
        BY <2>1, <3>2, <3>3, <3>4
    <2>2. CASE r[k] = 0
      <3> DEFINE t == Pushed(c.rank, k)
      <3>1. \A j \in Key : j \in Overtaken(c, k) <=> j # k /\ r[j] > 0
        BY <1>1, <2>2, CapacityAssumption DEF Overtaken
      <3>2. RankToFront(c, k) = t
        BY <1>1, <2>2, <3>1 DEF RankToFront, Pushed
      <3>3. /\ t \in [Key -> Nat]
            /\ \A j \in Key : t[j] = 0 <=> j # k /\ r[j] = 0
            /\ Distinct(t)
        BY <1>1, <2>2, PushPlaces
      <3> QED
        BY <3>2, <3>3
    <2> QED
      BY <2>1, <2>2, CapacityAssumption
  <1> DEFINE t == [j \in Key |-> IF s[j] > Capacity THEN 0 ELSE s[j]]
             n == [j \in Key |-> IF s[j] > Capacity THEN NoEntry
                                 ELSE IF j = k THEN e ELSE c.entry[j]]
  <1>4. CachePut(c, k, e) = [rank |-> t, entry |-> n]
    BY <1>1, <1>3 DEF CachePut
  <1>5. t \in [Key -> 0..Capacity] /\ Distinct(t)
    BY <1>3, CapacityAssumption DEF Distinct
  <1>6. \A j \in Key : t[j] = 0 => n[j] = NoEntry
    BY <1>1, <1>3, CapacityAssumption
  <1>7. \A j \in Key : t[j] > 0 => /\ j = k \/ r[j] > 0
                                   /\ n[j] = IF j = k THEN e ELSE c.entry[j]
    BY <1>3, CapacityAssumption
  <1>8. n = [j \in Key |-> n[j]]
    OBVIOUS
  <1> HIDE DEF t, n
  <1>9. /\ Ranked([rank |-> t, entry |-> n])
        /\ Cached([rank |-> t, entry |-> n]) = {j \in Key : t[j] > 0}
    BY <1>5, <1>6, <1>8, MakeRanked
  <1> QED
    BY <1>1, <1>4, <1>7, <1>9

\* Delete removes its key and changes the entry of no other.
LEMMA DeleteRanked ==
  ASSUME NEW c, Ranked(c), NEW k \in Key
  PROVE  /\ Ranked(CacheDelete(c, k))
         /\ Cached(CacheDelete(c, k)) = Cached(c) \ {k}
         /\ \A j \in Key \ {k} : CacheDelete(c, k).entry[j] = c.entry[j]
  <1>1. CASE k \notin Cached(c)
    BY <1>1 DEF CacheDelete
  <1>2. CASE k \in Cached(c)
    <2>1. PICK r \in [Key -> 0..Capacity] :
            /\ c.rank = r
            /\ \A j \in Key : r[j] = 0 => c.entry[j] = NoEntry
            /\ Cached(c) = {j \in Key : r[j] > 0}
            /\ Distinct(r)
      BY Places
    <2> DEFINE s == Closed(c.rank, k)
               n == [c.entry EXCEPT ![k] = NoEntry]
    <2>2. r[k] > 0
      BY <1>2, <2>1
    <2>3. CacheDelete(c, k) = [rank |-> s, entry |-> n]
      BY <1>2, <2>1 DEF CacheDelete, Closed
    <2>4. /\ s \in [Key -> 0..Capacity]
          /\ \A j \in Key : s[j] = 0 <=> j = k \/ r[j] = 0
          /\ Distinct(s)
      BY <2>1, <2>2, ClosePlaces
    <2>5. \A j \in Key : n[j] = IF j = k THEN NoEntry ELSE c.entry[j]
      BY DEF Ranked
    <2>6. n = [j \in Key |-> n[j]]
      BY DEF Ranked
    <2> HIDE DEF s, n
    <2>9. \A j \in Key : s[j] = 0 => n[j] = NoEntry
      BY <2>1, <2>4, <2>5
    <2>7. /\ Ranked([rank |-> s, entry |-> n])
          /\ Cached([rank |-> s, entry |-> n]) = {j \in Key : s[j] > 0}
      BY <2>4, <2>6, <2>9, MakeRanked
    <2>8. {j \in Key : s[j] > 0} = {j \in Key : r[j] > 0} \ {k}
      BY <2>4, CapacityAssumption
    <2> QED
      BY <2>1, <2>2, <2>3, <2>5, <2>7, <2>8
  <1> QED
    BY <1>1, <1>2
=============================================================================
