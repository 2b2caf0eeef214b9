---------------------------- MODULE LRUListProofs ----------------------------
(***************************************************************************)
(* The linked list of module LRUList, for every finite set of keys, every  *)
(* set of values and every capacity: it is in recency order, it keeps to   *)
(* its capacity, it evicts nothing too early, and it implements LRUCache.  *)
(***************************************************************************)
EXTENDS LRUList, LRUOpsProofs, FiniteSetTheorems

Dummies == {Head, Tail}

\* The list nx, pv has the nodes L, in the order of their places q.
Chain(nx, pv, L, q) ==
  /\ \A n \in L \ {Tail} : /\ nx[n] \in L
                           /\ pv[nx[n]] = n
                           /\ q[nx[n]] = q[n] + 1
                           /\ q[n] < q[Tail]
  /\ \A n \in L \ {Head} : /\ pv[n] \in L
                           /\ nx[pv[n]] = n
                           /\ q[pv[n]] + 1 = q[n]
  /\ \A m, n \in L : q[m] = q[n] => m = n

\* The places of the nodes N of a list in which the keys have ranks p.
Slot(N, p) == [n \in Node |-> IF n = Head THEN 0
                              ELSE IF n = Tail THEN Cardinality(N) + 1 ELSE p[n]]

Chained(l, N, p) ==
  /\ l \in [next : [Node -> Node], prev : [Node -> Node]]
  /\ Chain(l.next, l.prev, N \cup Dummies, Slot(N, p))

-----------------------------------------------------------------------------
(* Taking a node out of a chain, and putting one behind the first.         *)

LEMMA AddChain ==
  ASSUME NEW nx \in [Node -> Node], NEW pv \in [Node -> Node],
         NEW L \in SUBSET Node, Head \in L, Tail \in L,
         NEW q \in [Node -> Nat], NEW r \in [Node -> Nat],
         NEW k \in Node, k \notin L,
         Chain(nx, pv, L, q),
         q[Head] = 0, r[Head] = 0, r[k] = 1,
         \A n \in L \ {Head} : r[n] = q[n] + 1
  PROVE  Chain([nx EXCEPT ![k] = nx[Head], ![Head] = k],
               [pv EXCEPT ![k] = Head, ![nx[Head]] = k], L \cup {k}, r)
  <1> DEFINE first == nx[Head]
             mx == [nx EXCEPT ![k] = first, ![Head] = k]
             mv == [pv EXCEPT ![k] = Head, ![first] = k]
             M == L \cup {k}
  <1>1. /\ first \in L /\ first # Head /\ first # k /\ k # Head /\ k # Tail
        /\ q[first] = 1 /\ pv[first] = Head /\ q[Tail] \in Nat
    BY NodeAssumption DEF Chain
  <1>2. /\ mx[k] = first /\ mx[Head] = k
        /\ \A n \in L \ {Head} : mx[n] = nx[n]
        /\ mv[k] = Head /\ mv[first] = k
        /\ \A n \in L \ {first} : mv[n] = pv[n]
    BY <1>1
  <1> HIDE DEF mx, mv
  <1>3. \A n \in L \ {Head} : q[n] > 0
    BY DEF Chain
  <1>4. ASSUME NEW n \in M \ {Tail}
        PROVE  mx[n] \in M /\ mv[mx[n]] = n /\ r[mx[n]] = r[n] + 1 /\ r[n] < r[Tail]
    <2>1. q[Tail] > 0 /\ r[Tail] = q[Tail] + 1
      BY <1>3, NodeAssumption
    <2>2. CASE n = k
      BY <1>1, <1>2, <2>1, <2>2
    <2>3. CASE n = Head
      BY <1>1, <1>2, <2>1, <2>3
    <2>4. CASE n \in L \ {Head, Tail}
      <3>1. nx[n] \in L /\ pv[nx[n]] = n /\ q[nx[n]] = q[n] + 1 /\ q[n] < q[Tail]
        BY <2>4 DEF Chain
      <3>2. nx[n] # first /\ nx[n] # Head
        BY <1>1, <1>3, <2>4, <3>1
      <3>3. mx[n] = nx[n] /\ mv[nx[n]] = n
        BY <1>2, <2>4, <3>1, <3>2
      <3>4. r[nx[n]] = q[nx[n]] + 1 /\ r[n] = q[n] + 1
        BY <2>4, <3>1, <3>2
      <3> QED
        BY <2>1, <3>1, <3>3, <3>4
    <2> QED
      BY <2>2, <2>3, <2>4
  <1>5. ASSUME NEW n \in M \ {Head}
        PROVE  mv[n] \in M /\ mx[mv[n]] = n /\ r[mv[n]] + 1 = r[n]
    <2>1. CASE n = k
      BY <1>1, <1>2, <2>1
    <2>2. CASE n = first
      BY <1>1, <1>2, <2>2
    <2>3. CASE n \in L \ {Head, first}
      <3>1. pv[n] \in L /\ nx[pv[n]] = n /\ q[pv[n]] + 1 = q[n]
        BY <2>3 DEF Chain
      <3>2. pv[n] # Head
        BY <2>3, <3>1
      <3>3. mv[n] = pv[n] /\ mx[pv[n]] = n
        BY <1>2, <2>3, <3>1, <3>2
      <3>4. r[pv[n]] = q[pv[n]] + 1 /\ r[n] = q[n] + 1
        BY <2>3, <3>1, <3>2
      <3> QED
        BY <3>1, <3>3, <3>4
    <2> QED
      BY <2>1, <2>2, <2>3
  <1>6. ASSUME NEW m \in M, NEW n \in M, r[m] = r[n] PROVE m = n
    <2>1. \A j \in L \ {Head} : r[j] = q[j] + 1 /\ r[j] > 1 /\ q[j] \in Nat
      BY <1>3
    <2>2. \A i, j \in L : q[i] = q[j] => i = j
      BY DEF Chain
    <2> QED
      BY <1>6, <2>1, <2>2
  <1> QED
    BY <1>4, <1>5, <1>6 DEF Chain, mx, mv

LEMMA RemoveChain ==
  ASSUME NEW nx \in [Node -> Node], NEW pv \in [Node -> Node],
         NEW L \in SUBSET Node, Head \in L, Tail \in L,
         NEW q \in [Node -> Nat], NEW r \in [Node -> Nat],
         NEW k \in L, k # Head, k # Tail,
         Chain(nx, pv, L, q),
         \A n \in L \ {k} : r[n] = IF q[n] > q[k] THEN q[n] - 1 ELSE q[n]
  PROVE  Chain([nx EXCEPT ![pv[k]] = nx[k]], [pv EXCEPT ![nx[k]] = pv[k]], L \ {k}, r)
  <1> DEFINE a == pv[k]
             b == nx[k]
             mx == [nx EXCEPT ![a] = b]
             mv == [pv EXCEPT ![b] = a]
             M == L \ {k}
  <1>1. /\ a \in M /\ nx[a] = k /\ q[a] + 1 = q[k]
        /\ b \in M /\ pv[b] = k /\ q[b] = q[k] + 1
        /\ q[k] < q[Tail]
    BY DEF Chain
  <1>2. /\ mx[a] = b /\ \A n \in L \ {a} : mx[n] = nx[n]
        /\ mv[b] = a /\ \A n \in L \ {b} : mv[n] = pv[n]
    BY <1>1
  <1> HIDE DEF mx, mv
  <1>3. /\ r[a] = q[a] /\ r[b] = q[k] /\ r[Tail] = q[Tail] - 1
        /\ q[a] < q[Tail]
    BY <1>1 DEF Chain
  <1>4. \A m, n \in L : q[m] = q[n] => m = n
    BY DEF Chain
  <1> HIDE DEF a, b
  <1>5. ASSUME NEW n \in M \ {Tail}
        PROVE  mx[n] \in M /\ mv[mx[n]] = n /\ r[mx[n]] = r[n] + 1 /\ r[n] < r[Tail]
    <2>1. CASE n = a
      BY <1>1, <1>2, <1>3, <2>1
    <2>2. CASE n # a
      <3>1. nx[n] \in L /\ pv[nx[n]] = n /\ q[nx[n]] = q[n] + 1 /\ q[n] < q[Tail]
        BY DEF Chain
      <3>2. nx[n] # k
        BY <2>2, <3>1 DEF a
      <3>3. nx[n] # b
        BY <1>1, <3>1
      <3>4. mx[n] = nx[n] /\ mv[nx[n]] = n
        BY <1>2, <2>2, <3>1, <3>3
      <3>5. q[n] # q[k] /\ q[nx[n]] # q[k]
        BY <1>4, <3>1, <3>2
      <3>6. /\ r[n] = IF q[n] > q[k] THEN q[n] - 1 ELSE q[n]
            /\ r[nx[n]] = IF q[nx[n]] > q[k] THEN q[nx[n]] - 1 ELSE q[nx[n]]
        BY <3>1, <3>2
      <3>7. r[nx[n]] = r[n] + 1 /\ r[n] < r[Tail]
        BY <1>1, <1>3, <3>1, <3>5, <3>6
      <3> QED
        BY <3>1, <3>2, <3>4, <3>7
    <2> QED
      BY <2>1, <2>2
  <1>6. ASSUME NEW n \in M \ {Head}
        PROVE  mv[n] \in M /\ mx[mv[n]] = n /\ r[mv[n]] + 1 = r[n]
    <2>1. CASE n = b
      BY <1>1, <1>2, <1>3, <2>1
    <2>2. CASE n # b
      <3>1. pv[n] \in L /\ nx[pv[n]] = n /\ q[pv[n]] + 1 = q[n]
        BY DEF Chain
      <3>2. pv[n] # k
        BY <2>2, <3>1 DEF b
      <3>3. pv[n] # a
        BY <1>1, <3>1
      <3>4. mv[n] = pv[n] /\ mx[pv[n]] = n
        BY <1>2, <2>2, <3>1, <3>3
      <3>5. q[n] # q[k] /\ q[pv[n]] # q[k]
        BY <1>4, <3>1, <3>2
      <3>6. /\ r[n] = IF q[n] > q[k] THEN q[n] - 1 ELSE q[n]
            /\ r[pv[n]] = IF q[pv[n]] > q[k] THEN q[pv[n]] - 1 ELSE q[pv[n]]
        BY <3>1, <3>2
      <3>7. r[pv[n]] + 1 = r[n]
        BY <3>1, <3>5, <3>6
      <3> QED
        BY <3>1, <3>2, <3>4, <3>7
    <2> QED
      BY <2>1, <2>2
  <1>7. ASSUME NEW m \in M, NEW n \in M, r[m] = r[n] PROVE m = n
    <2>1. q[m] # q[k] /\ q[n] # q[k]
      BY <1>4
    <2>2. q[m] = q[n]
      BY <1>7, <2>1
    <2> QED
      BY <1>4, <2>2
  <1> QED
    BY <1>5, <1>6, <1>7 DEF Chain, mx, mv, a, b

-----------------------------------------------------------------------------
(* The same on the links of LRUList, with the ranks that LRUOps computes.  *)

\* The ranks p are those of the keys N.
Ranks(N, p) == /\ N \subseteq Key
               /\ p \in [Key -> Nat]
               /\ \A k \in Key : k \in N <=> p[k] > 0

LEMMA Counted ==
  ASSUME NEW N \in SUBSET Key
  PROVE  /\ IsFiniteSet(N)
         /\ Cardinality(N) \in Nat
         /\ \A k \in Key \ N : Cardinality(N \cup {k}) = Cardinality(N) + 1
         /\ \A k \in N : Cardinality(N) > 0 /\ Cardinality(N \ {k}) = Cardinality(N) - 1
         /\ \A M \in SUBSET N : Cardinality(M) <= Cardinality(N)
  <1>1. IsFiniteSet(N)
    BY FiniteKeys, FS_Subset
  <1>2. Cardinality(N) \in Nat
    BY <1>1, FS_CardinalityType
  <1>3. \A k \in Key \ N : Cardinality(N \cup {k}) = Cardinality(N) + 1
    BY <1>1, FS_AddElement
  <1>4. \A k \in N : Cardinality(N \ {k}) = Cardinality(N) - 1
    BY <1>1, FS_RemoveElement
  <1>5. \A k \in N : Cardinality(N) > 0
    <2> SUFFICES ASSUME NEW k \in N PROVE Cardinality(N) > 0
      OBVIOUS
    <2>1. IsFiniteSet(N \ {k})
      BY <1>1, FS_RemoveElement
    <2>2. Cardinality(N \ {k}) \in Nat
      BY <2>1, FS_CardinalityType
    <2> QED
      BY <1>2, <1>4, <2>2
  <1>6. \A M \in SUBSET N : Cardinality(M) <= Cardinality(N)
    BY <1>1, FS_Subset
  <1> QED
    BY <1>1, <1>2, <1>3, <1>4, <1>5, <1>6

LEMMA Slots ==
  ASSUME NEW N, NEW p, Ranks(N, p)
  PROVE  /\ Slot(N, p) \in [Node -> Nat]
         /\ Slot(N, p)[Head] = 0
         /\ Slot(N, p)[Tail] = Cardinality(N) + 1
         /\ \A k \in Key : Slot(N, p)[k] = p[k]
         /\ N \cup Dummies \in SUBSET Node
  BY Counted, NodeAssumption DEF Ranks, Slot, Node, Dummies

\* Within a list the ranks are distinct and count up to the number of keys,
\* which the node in front of Tail has.
LEMMA RanksInChain ==
  ASSUME NEW N, NEW p, Ranks(N, p), NEW l, Chained(l, N, p)
  PROVE  /\ Distinct(p)
         /\ \A k \in N : p[k] <= Cardinality(N)
         /\ N # {} => Victim(l) \in N /\ p[Victim(l)] = Cardinality(N)
  <1> DEFINE q == Slot(N, p)
             L == N \cup Dummies
  <1>1. /\ q \in [Node -> Nat]
        /\ q[Head] = 0 /\ q[Tail] = Cardinality(N) + 1
        /\ \A k \in Key : q[k] = p[k]
        /\ L \in SUBSET Node
    BY Slots
  <1>2. Chain(l.next, l.prev, L, q)
    BY DEF Chained
  <1> HIDE DEF q
  <1>3. Distinct(p)
    <2>1. \A m, n \in L : q[m] = q[n] => m = n
      BY <1>2 DEF Chain
    <2> QED
      BY <1>1, <2>1 DEF Distinct, Ranks
  <1>4. \A k \in N : p[k] <= Cardinality(N)
    <2>1. \A n \in L \ {Tail} : q[n] < q[Tail]
      BY <1>2 DEF Chain
    <2>2. \A k \in N : k \in L \ {Tail} /\ k \in Key
      BY NodeAssumption DEF Ranks
    <2>3. Cardinality(N) \in Nat
      BY Counted DEF Ranks
    <2>4. \A k \in N : q[k] < q[Tail] /\ q[k] = p[k] /\ p[k] \in Nat
      BY <1>1, <2>1, <2>2 DEF Ranks
    <2>5. ASSUME NEW k \in N PROVE p[k] <= Cardinality(N)
      <3>1. q[k] < q[Tail] /\ q[k] = p[k] /\ p[k] \in Nat /\ q[Tail] = Cardinality(N) + 1
        BY <1>1, <2>4
      <3> QED
        BY <2>3, <3>1
    <2> QED
      BY <2>5
  <1>5. ASSUME N # {} PROVE Victim(l) \in N /\ p[Victim(l)] = Cardinality(N)
    <2> DEFINE v == l.prev[Tail]
    <2>1. v \in L /\ q[v] + 1 = q[Tail]
      BY <1>2, NodeAssumption DEF Chain, Dummies
    <2>2. Cardinality(N) \in Nat /\ Cardinality(N) > 0
      BY <1>5, Counted DEF Ranks
    <2>3. q[v] = Cardinality(N)
      BY <1>1, <2>1, <2>2
    <2>4. v # Head /\ v # Tail
      BY <1>1, <2>2, <2>3
    <2>5. v \in N /\ v \in Key
      BY <2>1, <2>4 DEF Dummies, Ranks
    <2> QED
      BY <1>1, <2>3, <2>5 DEF Victim
  <1> QED
    BY <1>3, <1>4, <1>5

LEMMA AddChained ==
  ASSUME NEW N, NEW p, Ranks(N, p), NEW l, Chained(l, N, p), NEW k \in Key, k \notin N
  PROVE  /\ Ranks(N \cup {k}, Pushed(p, k))
         /\ Chained(AddToFront(l, k), N \cup {k}, Pushed(p, k))
  <1> DEFINE M == N \cup {k}
             s == Pushed(p, k)
             q == Slot(N, p)
             r == Slot(M, s)
             L == N \cup Dummies
  <1> HIDE DEF s
  <1>0. N \subseteq Key /\ \A j \in Key : p[j] \in Nat /\ (j \in N <=> p[j] > 0)
    BY DEF Ranks
  <1>1. /\ s \in [Key -> Nat]
        /\ s[k] = 1
        /\ \A j \in N : s[j] = p[j] + 1
        /\ \A j \in Key \ M : s[j] = 0
    <2>1. \A j \in Key : s[j] = IF j = k THEN 1 ELSE IF p[j] > 0 THEN p[j] + 1 ELSE p[j]
      BY DEF s, Pushed
    <2>2. s \in [Key -> Nat]
      BY <1>0 DEF s, Pushed
    <2> QED
      BY <1>0, <2>1, <2>2
  <1>2. Ranks(M, s)
    <2>1. ASSUME NEW j \in Key PROVE j \in M <=> s[j] > 0
      <3>1. CASE j \in N
        BY <1>0, <1>1, <3>1
      <3>2. CASE j \notin M
        BY <1>1, <3>2
      <3> QED
        BY <1>1, <3>1, <3>2
    <2> QED
      BY <1>0, <1>1, <2>1 DEF Ranks
  <1>3. /\ q \in [Node -> Nat] /\ L \in SUBSET Node
        /\ q[Head] = 0 /\ q[Tail] = Cardinality(N) + 1
        /\ \A j \in Key : q[j] = p[j]
    BY Slots
  <1>4. /\ r \in [Node -> Nat]
        /\ r[Head] = 0 /\ r[Tail] = Cardinality(M) + 1
        /\ \A j \in Key : r[j] = s[j]
    BY <1>2, Slots
  <1>5. Cardinality(M) = Cardinality(N) + 1 /\ Cardinality(N) \in Nat
    BY Counted DEF Ranks
  <1>6. PICK nx \in [Node -> Node], pv \in [Node -> Node] :
          /\ nx = l.next /\ pv = l.prev
          /\ Chain(nx, pv, L, q)
    BY DEF Chained
  <1> HIDE DEF q, r
  <1>7. \A n \in L \ {Head} : r[n] = q[n] + 1
    BY <1>1, <1>3, <1>4, <1>5 DEF Dummies, Ranks
  <1>8. k \in Node /\ Head \in L /\ Tail \in L /\ k \notin L
    BY NodeAssumption DEF Node, Dummies
  <1>9. r[k] = 1
    BY <1>1, <1>4
  <1> DEFINE mx == [nx EXCEPT ![k] = nx[Head], ![Head] = k]
             mv == [pv EXCEPT ![k] = Head, ![nx[Head]] = k]
  <1>10. Chain(mx, mv, L \cup {k}, r)
    <2> HIDE DEF L
    <2> QED
      BY <1>3, <1>4, <1>6, <1>7, <1>8, <1>9, AddChain
  <1>11. mx \in [Node -> Node] /\ mv \in [Node -> Node]
    BY <1>6, <1>8, <1>3
  <1>12. AddToFront(l, k) = [next |-> mx, prev |-> mv]
    BY <1>6 DEF AddToFront
  <1>13. L \cup {k} = M \cup Dummies
    OBVIOUS
  <1> HIDE DEF mx, mv
  <1> QED
    BY <1>2, <1>10, <1>11, <1>12, <1>13 DEF Chained, r, s

LEMMA RemoveChained ==
  ASSUME NEW N, NEW p, Ranks(N, p), NEW l, Chained(l, N, p), NEW k \in N
  PROVE  /\ Ranks(N \ {k}, Closed(p, k))
         /\ Chained(RemoveNode(l, k), N \ {k}, Closed(p, k))
  <1> DEFINE M == N \ {k}
             s == Closed(p, k)
             q == Slot(N, p)
             r == Slot(M, s)
             L == N \cup Dummies
  <1>1. k \in Key /\ p[k] > 0 /\ Distinct(p) /\ p[k] <= Cardinality(N)
    BY RanksInChain DEF Ranks
  <1> HIDE DEF s
  <1>2. /\ s[k] = 0
        /\ \A j \in Key \ {k} : s[j] = IF p[j] > p[k] THEN p[j] - 1 ELSE p[j]
    BY <1>1 DEF s, Closed
  <1>3. Ranks(M, s)
    <2>1. s \in [Key -> Nat]
      BY <1>1 DEF s, Closed, Ranks
    <2>2. \A j \in Key : p[j] \in Nat /\ (j \in N <=> p[j] > 0)
      BY DEF Ranks
    <2>3. ASSUME NEW j \in Key PROVE j \in M <=> s[j] > 0
      <3>1. p[k] \in Nat /\ p[j] \in Nat /\ (j \in N <=> p[j] > 0)
        BY <1>1, <2>2
      <3>2. CASE j = k
        BY <1>2, <3>2
      <3>3. CASE j # k
        BY <1>1, <1>2, <3>1, <3>3
      <3> QED
        BY <3>2, <3>3
    <2> QED
      BY <2>1, <2>3 DEF Ranks
  <1>4. /\ q \in [Node -> Nat] /\ L \in SUBSET Node
        /\ q[Head] = 0 /\ q[Tail] = Cardinality(N) + 1
        /\ \A j \in Key : q[j] = p[j]
    BY Slots
  <1>5. /\ r \in [Node -> Nat]
        /\ r[Head] = 0 /\ r[Tail] = Cardinality(M) + 1
        /\ \A j \in Key : r[j] = s[j]
    BY <1>3, Slots
  <1>6. Cardinality(M) = Cardinality(N) - 1 /\ Cardinality(N) \in Nat
    BY Counted DEF Ranks
  <1>7. /\ l.next \in [Node -> Node] /\ l.prev \in [Node -> Node]
        /\ Chain(l.next, l.prev, L, q)
    BY DEF Chained
  <1> HIDE DEF q, r
  <1>8. \A n \in L \ {k} : r[n] = IF q[n] > q[k] THEN q[n] - 1 ELSE q[n]
    <2> SUFFICES ASSUME NEW n \in L \ {k}
                 PROVE  r[n] = IF q[n] > q[k] THEN q[n] - 1 ELSE q[n]
      OBVIOUS
    <2>1. q[k] = p[k] /\ p[k] \in Nat
      BY <1>1, <1>4 DEF Ranks
    <2>2. CASE n = Head
      BY <1>4, <1>5, <2>1, <2>2
    <2>3. CASE n = Tail
      BY <1>1, <1>4, <1>5, <1>6, <2>1, <2>3
    <2>4. CASE n \in N
      BY <1>2, <1>4, <1>5, <2>1, <2>4 DEF Ranks
    <2> QED
      BY <2>2, <2>3, <2>4 DEF Dummies
  <1>9. Head \in L /\ Tail \in L /\ k \in L /\ k # Head /\ k # Tail
    BY <1>1, NodeAssumption DEF Dummies
  <1> DEFINE mx == [l.next EXCEPT ![l.prev[k]] = l.next[k]]
             mv == [l.prev EXCEPT ![l.next[k]] = l.prev[k]]
  <1>10. Chain(mx, mv, L \ {k}, r)
    <2> HIDE DEF L
    <2> QED
      BY <1>4, <1>5, <1>7, <1>8, <1>9, RemoveChain
  <1>11. mx \in [Node -> Node] /\ mv \in [Node -> Node]
    BY <1>4, <1>7, <1>9
  <1>12. RemoveNode(l, k) = [next |-> mx, prev |-> mv]
    BY DEF RemoveNode
  <1>13. L \ {k} = M \cup Dummies
    BY <1>9 DEF Dummies
  <1> HIDE DEF mx, mv
  <1> QED
    BY <1>3, <1>10, <1>11, <1>12, <1>13 DEF Chained, r, s

LEMMA MoveChained ==
  ASSUME NEW N, NEW p, Ranks(N, p), NEW l, Chained(l, N, p), NEW k \in N
  PROVE  /\ Ranks(N, Moved(p, k))
         /\ Chained(MoveToFront(l, k), N, Moved(p, k))
  <1> DEFINE M == N \ {k}
             s == Closed(p, k)
             m == RemoveNode(l, k)
  <1>1. Ranks(M, s) /\ Chained(m, M, s)
    BY RemoveChained
  <1>2. k \in Key /\ k \notin M
    BY DEF Ranks
  <1>3. Ranks(M \cup {k}, Pushed(s, k)) /\ Chained(AddToFront(m, k), M \cup {k}, Pushed(s, k))
    <2> HIDE DEF M, s, m
    <2> QED
      BY <1>1, <1>2, AddChained
  <1>4. Pushed(s, k) = Moved(p, k)
    <2> HIDE DEF s
    <2>1. (\A j \in Key : p[j] \in Nat) /\ p[k] > 0
      BY <1>2 DEF Ranks
    <2>2. \A j \in Key : p[j] = p[k] => j = k
      BY <1>2, <2>1, RanksInChain DEF Distinct
    <2>4. \A j \in Key \ {k} : s[j] = IF p[j] > p[k] THEN p[j] - 1 ELSE p[j]
      BY DEF s, Closed
    <2>3. ASSUME NEW j \in Key, j # k
          PROVE  (IF s[j] > 0 THEN s[j] + 1 ELSE s[j])
                   = IF p[j] > 0 /\ p[j] < p[k] THEN p[j] + 1 ELSE p[j]
      <3>1. /\ p[k] \in Nat /\ p[j] \in Nat /\ p[j] # p[k] /\ p[k] > 0
            /\ s[j] = IF p[j] > p[k] THEN p[j] - 1 ELSE p[j]
        BY <1>2, <2>1, <2>2, <2>3, <2>4
      <3> QED
        BY <3>1
    <2> QED
      BY <2>3 DEF Pushed, Moved
  <1>5. M \cup {k} = N
    OBVIOUS
  <1> QED
    BY <1>3, <1>4, <1>5 DEF MoveToFront

-----------------------------------------------------------------------------
(* The invariant: the list holds the keys of the map in the order of their *)
(* ranks, none without a value, and no more than the capacity.             *)

ListInv ==
  /\ TypeOK
  /\ Ranks(nodes, pos)
  /\ Chained(links, nodes, pos)
  /\ \A k \in Key : k \in nodes <=> val[k] # NoEntry
  /\ SizeBounded

\* What LRUOps computes for a key that the cache has.
LEMMA HitOps ==
  ASSUME ListInv, NEW k \in nodes
  PROVE  /\ CacheGet(AsCache, k) = [rank |-> Moved(pos, k), entry |-> val]
         /\ \A e : CachePut(AsCache, k, e) = [rank |-> Moved(pos, k), entry |-> [val EXCEPT ![k] = e]]
         /\ CacheDelete(AsCache, k)
              = [rank |-> Closed(pos, k), entry |-> [val EXCEPT ![k] = NoEntry]]
  <1> DEFINE m == Moved(pos, k)
  <1>1. k \in Key /\ pos[k] > 0 /\ \A j \in Key : pos[j] \in Nat
    BY DEF ListInv, Ranks
  <1>2. AsCache.rank = pos /\ AsCache.entry = val
    BY DEF AsCache
  <1>3. Cached(AsCache) = {j \in Key : pos[j] > 0}
    BY <1>2 DEF Cached
  <1>4. RankToFront(AsCache, k) = m
    <2>1. ASSUME NEW j \in Key
          PROVE  j \in Overtaken(AsCache, k) <=> j # k /\ pos[j] > 0 /\ pos[j] < pos[k]
      BY <1>1, <1>2, <1>3 DEF Overtaken
    <2>2. ASSUME NEW j \in Key
          PROVE  (IF j = k THEN 1 ELSE IF j \in Overtaken(AsCache, k) THEN pos[j] + 1 ELSE pos[j])
                   = IF j = k THEN 1 ELSE IF pos[j] > 0 /\ pos[j] < pos[k] THEN pos[j] + 1 ELSE pos[j]
      BY <2>1
    <2> QED
      BY <1>2, <2>2 DEF RankToFront, Moved
  <1>5. \A j \in Key : m[j] <= Capacity /\ m[j] \in Nat
    <2>1. Cardinality(nodes) <= Capacity /\ Cardinality(nodes) \in Nat /\ Capacity \in Nat
      BY CapacityAssumption, Counted DEF ListInv, SizeBounded, Ranks
    <2>2. Ranks(nodes, m) /\ Chained(MoveToFront(links, k), nodes, m)
      BY MoveChained DEF ListInv
    <2>3. \A j \in nodes : m[j] <= Cardinality(nodes)
      BY <2>2, RanksInChain
    <2>4. ASSUME NEW j \in Key PROVE m[j] <= Capacity /\ m[j] \in Nat
      <3> HIDE DEF m
      <3>1. m[j] \in Nat /\ (j \in nodes <=> m[j] > 0)
        BY <2>2 DEF Ranks
      <3> QED
        BY <2>1, <2>3, <3>1
    <2> QED
      BY <2>4
  <1>6. CacheGet(AsCache, k) = [rank |-> m, entry |-> val]
    BY <1>1, <1>2, <1>3, <1>4 DEF CacheGet, AsCache
  <1>7. ASSUME NEW e
        PROVE  CachePut(AsCache, k, e) = [rank |-> m, entry |-> [val EXCEPT ![k] = e]]
    <2>1. ASSUME NEW j \in Key PROVE ~(m[j] > Capacity)
      <3>1. m[j] <= Capacity /\ m[j] \in Nat
        BY <1>5
      <3> HIDE DEF m
      <3> QED
        BY <3>1, CapacityAssumption
    <2>2. m = [j \in Key |-> m[j]]
      BY DEF Moved
    <2>3. val = [j \in Key |-> val[j]]
      BY DEF ListInv, TypeOK
    <2> HIDE DEF m
    <2>4. [j \in Key |-> IF m[j] > Capacity THEN 0 ELSE m[j]] = m
      BY <2>1, <2>2
    <2>5. [j \in Key |-> IF m[j] > Capacity THEN NoEntry ELSE IF j = k THEN e ELSE val[j]]
            = [val EXCEPT ![k] = e]
      BY <2>1, <2>3
    <2> QED
      BY <1>2, <1>4, <2>4, <2>5 DEF CachePut
  <1>8. CacheDelete(AsCache, k) = [rank |-> Closed(pos, k), entry |-> [val EXCEPT ![k] = NoEntry]]
    BY <1>1, <1>2, <1>3 DEF CacheDelete, Closed
  <1> QED
    BY <1>6, <1>7, <1>8

\* What PutNew does for a key that the cache does not have: without an
\* eviction, and with the eviction of the last node.
NewValues(k, e) == [val EXCEPT ![k] = e]

LastNode(k) == Victim(AddToFront(links, k))

LEMMA AddedList ==
  ASSUME ListInv, NEW k \in Key, k \notin nodes
  PROVE  /\ Ranks(nodes \cup {k}, Pushed(pos, k))
         /\ Chained(AddToFront(links, k), nodes \cup {k}, Pushed(pos, k))
         /\ LastNode(k) \in nodes \cup {k}
         /\ Pushed(pos, k)[LastNode(k)] = Cardinality(nodes \cup {k})
         /\ \A j \in nodes \cup {k} : Pushed(pos, k)[j] <= Cardinality(nodes \cup {k})
         /\ \A j \in nodes \cup {k} :
              Pushed(pos, k)[j] = Cardinality(nodes \cup {k}) => j = LastNode(k)
         /\ Cardinality(nodes \cup {k}) \in 1..(Capacity + 1)
         /\ LastNode(k) # Head
  <1> DEFINE M == nodes \cup {k}
             s == Pushed(pos, k)
             l == AddToFront(links, k)
  <1>1. Ranks(M, s) /\ Chained(l, M, s)
    BY AddChained DEF ListInv
  <1> HIDE DEF s, l
  <1>2. /\ Distinct(s)
        /\ \A j \in M : s[j] <= Cardinality(M)
        /\ Victim(l) \in M /\ s[Victim(l)] = Cardinality(M)
    BY <1>1, RanksInChain
  <1>3. M \subseteq Key
    BY <1>1 DEF Ranks
  <1>4. \A j \in M : s[j] = Cardinality(M) => j = Victim(l)
    BY <1>1, <1>2, <1>3 DEF Distinct, Ranks
  <1>5. Cardinality(M) \in 1..(Capacity + 1)
    BY <1>3, Counted, CapacityAssumption DEF ListInv, SizeBounded
  <1>6. Victim(l) # Head
    BY <1>2, <1>3, NodeAssumption
  <1> QED
    BY <1>1, <1>2, <1>4, <1>5, <1>6 DEF LastNode, s, l

LEMMA NewOps ==
  ASSUME ListInv, NEW k \in Key, k \notin nodes, NEW e
  PROVE  /\ ~OverCapacity(k) =>
              CachePut(AsCache, k, e) = [rank |-> Pushed(pos, k), entry |-> NewValues(k, e)]
         /\ OverCapacity(k) =>
              CachePut(AsCache, k, e)
                = [rank  |-> Closed(Pushed(pos, k), LastNode(k)),
                   entry |-> [NewValues(k, e) EXCEPT ![LastNode(k)] = NoEntry]]
  <1> DEFINE M == nodes \cup {k}
             s == Pushed(pos, k)
             v == LastNode(k)
  <1>1. pos[k] = 0 /\ (\A j \in Key : pos[j] \in Nat) /\ val = [j \in Key |-> val[j]]
    BY DEF ListInv, Ranks, TypeOK
  <1>2. AsCache.rank = pos /\ AsCache.entry = val
    BY DEF AsCache
  <1>3. Cached(AsCache) = {j \in Key : pos[j] > 0}
    BY <1>2 DEF Cached
  <1>4. RankToFront(AsCache, k) = s
    <2>1. ASSUME NEW j \in Key
          PROVE  j \in Overtaken(AsCache, k) <=> j # k /\ pos[j] > 0
      BY <1>1, <1>2, <1>3 DEF Overtaken
    <2>2. ASSUME NEW j \in Key
          PROVE  (IF j = k THEN 1 ELSE IF j \in Overtaken(AsCache, k) THEN pos[j] + 1 ELSE pos[j])
                   = IF j = k THEN 1 ELSE IF pos[j] > 0 THEN pos[j] + 1 ELSE pos[j]
      BY <2>1
    <2> QED
      BY <1>2, <2>2 DEF RankToFront, Pushed
  <1>5. /\ Ranks(M, s)
        /\ v \in M /\ s[v] = Cardinality(M)
        /\ \A j \in M : s[j] <= Cardinality(M)
        /\ \A j \in M : s[j] = Cardinality(M) => j = v
        /\ Cardinality(M) \in 1..(Capacity + 1)
    BY AddedList
  <1>6. s = [j \in Key |-> s[j]]
    BY DEF Pushed
  <1> HIDE DEF s, v
  <1>7. \A j \in Key : s[j] \in Nat /\ (j \in M <=> s[j] > 0)
    BY <1>5 DEF Ranks
  <1>8. CachePut(AsCache, k, e)
          = [rank  |-> [j \in Key |-> IF s[j] > Capacity THEN 0 ELSE s[j]],
             entry |-> [j \in Key |-> IF s[j] > Capacity THEN NoEntry
                                      ELSE IF j = k THEN e ELSE val[j]]]
    BY <1>2, <1>4 DEF CachePut
  <1>9. ASSUME ~OverCapacity(k)
        PROVE  CachePut(AsCache, k, e) = [rank |-> s, entry |-> NewValues(k, e)]
    <2>1. ASSUME NEW j \in Key PROVE ~(s[j] > Capacity)
      <3>1. Cardinality(M) <= Capacity
        BY <1>5, <1>9, CapacityAssumption DEF OverCapacity
      <3>2. CASE j \in M
        <4>1. s[j] <= Cardinality(M) /\ s[j] \in Nat /\ Cardinality(M) \in Nat
          BY <1>5, <1>7, <3>2, CapacityAssumption
        <4> HIDE DEF M
        <4> QED
          BY <3>1, <4>1, CapacityAssumption
      <3>3. CASE j \notin M
        BY <1>7, <3>3, CapacityAssumption
      <3> QED
        BY <3>2, <3>3
    <2>2. [j \in Key |-> IF s[j] > Capacity THEN 0 ELSE s[j]] = s
      BY <1>6, <2>1
    <2>3. [j \in Key |-> IF s[j] > Capacity THEN NoEntry ELSE IF j = k THEN e ELSE val[j]]
            = NewValues(k, e)
      BY <1>1, <2>1 DEF NewValues
    <2> QED
      BY <1>8, <2>2, <2>3
  <1>10. ASSUME OverCapacity(k)
         PROVE  CachePut(AsCache, k, e)
                  = [rank |-> Closed(s, v), entry |-> [NewValues(k, e) EXCEPT ![v] = NoEntry]]
    <2>1. Cardinality(M) = Capacity + 1
      BY <1>5, <1>10, CapacityAssumption DEF OverCapacity
    <2>2. ASSUME NEW j \in Key PROVE (s[j] > Capacity <=> j = v) /\ ~(s[j] > s[v])
      <3>1. CASE j \in M
        BY <1>5, <1>7, <2>1, <3>1, CapacityAssumption
      <3>2. CASE j \notin M
        BY <1>5, <1>7, <2>1, <3>2, CapacityAssumption
      <3> QED
        BY <3>1, <3>2
    <2>3. [j \in Key |-> IF s[j] > Capacity THEN 0 ELSE s[j]] = Closed(s, v)
      BY <2>2 DEF Closed
    <2>4. [j \in Key |-> IF s[j] > Capacity THEN NoEntry ELSE IF j = k THEN e ELSE val[j]]
            = [NewValues(k, e) EXCEPT ![v] = NoEntry]
      BY <1>1, <2>2 DEF NewValues
    <2> QED
      BY <1>8, <2>3, <2>4
  <1> QED
    BY <1>9, <1>10 DEF s, v

-----------------------------------------------------------------------------
(* The invariant holds of the empty list and after every method.           *)

\* The list of the dummies alone.
LEMMA EmptyChained ==
  ASSUME NEW l \in [next : [Node -> Node], prev : [Node -> Node]],
         l.next[Head] = Tail, l.prev[Tail] = Head,
         NEW p, Ranks({}, p)
  PROVE  Chained(l, {}, p)
  <1> DEFINE q == Slot({}, p)
  <1>1. q[Head] = 0 /\ q[Tail] = 1
    BY Slots, FS_EmptySet
  <1>2. Chain(l.next, l.prev, Dummies, q)
    BY <1>1, NodeAssumption DEF Chain, Dummies
  <1> QED
    BY <1>2 DEF Chained

LEMMA LinksType ==
  ASSUME NEW l \in [next : [Node -> Node], prev : [Node -> Node]]
  PROVE  /\ Joined(l) \in [next : [Node -> Node], prev : [Node -> Node]]
         /\ Joined(l).next[Head] = Tail /\ Joined(l).prev[Tail] = Head
  BY DEF Joined, Node

LEMMA NothingRanked ==
  /\ EmptyCache.rank = [k \in Key |-> 0] /\ EmptyCache.entry = [k \in Key |-> NoEntry]
  /\ Ranks({}, [k \in Key |-> 0])
  BY DEF EmptyCache, Ranks

LEMMA ListInit == Init => ListInv
  <1> SUFFICES ASSUME Init PROVE ListInv
    OBVIOUS
  <1>1. Ranks(nodes, pos)
    BY NothingRanked DEF Init
  <1>2. /\ links \in [next : [Node -> Node], prev : [Node -> Node]]
        /\ links.next[Head] = Tail /\ links.prev[Tail] = Head
    <2>1. [next |-> [n \in Node |-> Head], prev |-> [n \in Node |-> Tail]]
            \in [next : [Node -> Node], prev : [Node -> Node]]
      BY DEF Node
    <2> QED
      BY <2>1, LinksType DEF Init
  <1>3. Chained(links, nodes, pos)
    BY <1>1, <1>2, EmptyChained DEF Init
  <1>4. SizeBounded
    BY FS_EmptySet, CapacityAssumption DEF Init, SizeBounded
  <1>5. TypeOK
    BY <1>2, NothingRanked DEF Init, TypeOK
  <1> QED
    BY <1>1, <1>3, <1>4, <1>5 DEF ListInv, Init

\* A use of a key that is there, by Get or by Put, moves its node to the front.
LEMMA UseInv ==
  ASSUME ListInv, NEW k \in nodes, NEW e \in Entry,
         links' = MoveToFront(links, k), nodes' = nodes,
         \/ pos' = CacheGet(AsCache, k).rank /\ val' = val
         \/ pos' = CachePut(AsCache, k, e).rank /\ val' = NewValues(k, e),
         answer' \in {answer, val[k]}, held' = held, since' = Used(k)
  PROVE  /\ ListInv'
         /\ pos' = Moved(pos, k)
  <1>1. k \in Key /\ TypeOK /\ val[k] \in Entry
    BY DEF ListInv, TypeOK
  <1>2. pos' = Moved(pos, k)
    BY HitOps
  <1>3. Ranks(nodes', pos') /\ Chained(links', nodes', pos')
    BY <1>2, MoveChained DEF ListInv
  <1>4. SizeBounded'
    BY DEF ListInv, SizeBounded
  <1>5. val' \in [Key -> Entry \cup {NoEntry}] /\ \A j \in Key : j \in nodes <=> val'[j] # NoEntry
    BY <1>1, NoEntryAssumption DEF ListInv, TypeOK, NewValues
  <1>6. TypeOK'
    BY <1>1, <1>3, <1>5 DEF TypeOK, Ranks, Chained, Used
  <1> QED
    BY <1>2, <1>3, <1>4, <1>5, <1>6 DEF ListInv

\* A Put of a new key adds its node, and takes the last one when there are too
\* many.
LEMMA PutNewInv ==
  ASSUME ListInv, NEW k \in Key, NEW e \in Entry, PutNew(k, e)
  PROVE  /\ ListInv'
         /\ ~OverCapacity(k) =>
              /\ nodes' = nodes \cup {k}
              /\ val' = NewValues(k, e)
              /\ pos' = Pushed(pos, k)
         /\ OverCapacity(k) =>
              /\ nodes' = (nodes \cup {k}) \ {LastNode(k)}
              /\ val' = [NewValues(k, e) EXCEPT ![LastNode(k)] = NoEntry]
              /\ pos' = Closed(Pushed(pos, k), LastNode(k))
              /\ LastNode(k) \in nodes \cup {k}
              /\ Cardinality(nodes') = Capacity
  <1> DEFINE M == nodes \cup {k}
             s == Pushed(pos, k)
             l == AddToFront(links, k)
             v == LastNode(k)
  <1>0. k \notin nodes /\ TypeOK /\ v = Victim(l)
    BY DEF PutNew, ListInv, LastNode
  <1>1. /\ Ranks(M, s) /\ Chained(l, M, s)
        /\ v \in M /\ v # Head
        /\ Cardinality(M) \in 1..(Capacity + 1)
    BY <1>0, AddedList
  <1>2. /\ held' = held \cup {k} /\ since' = Used(k) /\ answer' = answer
        /\ pos' = CachePut(AsCache, k, e).rank
    BY DEF PutNew
  <1>3. NewValues(k, e) \in [Key -> Entry \cup {NoEntry}]
        /\ \A j \in Key : j \in M <=> NewValues(k, e)[j] # NoEntry
    BY <1>0, NoEntryAssumption DEF ListInv, TypeOK, NewValues
  <1>4. M \subseteq Key /\ v \in Key
    BY <1>1 DEF Ranks
  <1>5. ASSUME Ranks(nodes', pos'), Chained(links', nodes', pos'),
               val' \in [Key -> Entry \cup {NoEntry}],
               \A j \in Key : j \in nodes' <=> val'[j] # NoEntry,
               Cardinality(nodes') <= Capacity
        PROVE  ListInv'
    <2>1. TypeOK'
      BY <1>0, <1>2, <1>5 DEF TypeOK, Ranks, Chained, Used
    <2> QED
      BY <1>5, <2>1 DEF ListInv, SizeBounded
  <1>6. CASE ~OverCapacity(k)
    <2>1. nodes' = M /\ val' = NewValues(k, e) /\ links' = l
      BY <1>6 DEF PutNew, NewValues
    <2>2. pos' = s
      BY <1>0, <1>2, <1>6, NewOps
    <2>3. Cardinality(M) <= Capacity
      BY <1>1, <1>6, CapacityAssumption DEF OverCapacity
    <2>4. Ranks(nodes', pos') /\ Chained(links', nodes', pos')
      BY <1>1, <2>1, <2>2
    <2>5. Cardinality(nodes') <= Capacity
      BY <2>1, <2>3
    <2>6. val' \in [Key -> Entry \cup {NoEntry}] /\ \A j \in Key : j \in nodes' <=> val'[j] # NoEntry
      BY <1>3, <2>1
    <2> QED
      BY <1>5, <1>6, <2>1, <2>2, <2>4, <2>5, <2>6
  <1>7. CASE OverCapacity(k)
    <2>1. /\ nodes' = M \ {v} /\ links' = RemoveNode(l, v)
          /\ val' = [NewValues(k, e) EXCEPT ![v] = NoEntry]
      BY <1>0, <1>1, <1>7 DEF PutNew, NewValues
    <2>2. pos' = Closed(s, v)
      BY <1>0, <1>2, <1>7, NewOps
    <2>3. Cardinality(M \ {v}) = Capacity
      <3>1. Cardinality(M) = Capacity + 1
        BY <1>1, <1>7, CapacityAssumption DEF OverCapacity
      <3>2. Cardinality(M \ {v}) = Cardinality(M) - 1
        BY <1>1, <1>4, Counted
      <3> QED
        BY <3>1, <3>2, CapacityAssumption
    <2>4. Ranks(nodes', pos') /\ Chained(links', nodes', pos')
      <3> HIDE DEF M, s, l, v
      <3> QED
        BY <1>1, <2>1, <2>2, RemoveChained
    <2>5. Cardinality(nodes') <= Capacity /\ Cardinality(nodes') = Capacity
      BY <2>1, <2>3, CapacityAssumption
    <2>6. val' \in [Key -> Entry \cup {NoEntry}] /\ \A j \in Key : j \in nodes' <=> val'[j] # NoEntry
      <3> HIDE DEF v, M
      <3> QED
        BY <1>3, <1>4, <2>1
    <2> QED
      BY <1>1, <1>5, <1>7, <2>1, <2>2, <2>4, <2>5, <2>6
  <1> QED
    BY <1>6, <1>7

\* A Delete takes the node out.
LEMMA DeleteInv ==
  ASSUME ListInv, NEW k \in Key, DeleteHit(k)
  PROVE  ListInv' /\ pos' = Closed(pos, k)
  <1>1. k \in nodes /\ TypeOK
    BY DEF DeleteHit, ListInv
  <1>2. pos' = Closed(pos, k)
    BY <1>1, HitOps DEF DeleteHit
  <1>3. Ranks(nodes', pos') /\ Chained(links', nodes', pos')
    BY <1>1, <1>2, RemoveChained DEF ListInv, DeleteHit
  <1>4. SizeBounded'
    <2>1. nodes \subseteq Key /\ nodes' \in SUBSET nodes
      BY <1>1 DEF TypeOK, DeleteHit
    <2>2. Cardinality(nodes') <= Cardinality(nodes) /\ Cardinality(nodes') \in Nat /\ Cardinality(nodes) \in Nat
      BY <2>1, Counted
    <2> QED
      BY <2>2, CapacityAssumption DEF ListInv, SizeBounded
  <1>5. val' \in [Key -> Entry \cup {NoEntry}] /\ \A j \in Key : j \in nodes' <=> val'[j] # NoEntry
    BY <1>1 DEF ListInv, TypeOK, DeleteHit
  <1>6. TypeOK'
    BY <1>1, <1>3, <1>5 DEF TypeOK, Ranks, Chained, DeleteHit, Dropped
  <1> QED
    BY <1>2, <1>3, <1>4, <1>5, <1>6 DEF ListInv

LEMMA ClearInv ==
  ASSUME ListInv, Clear
  PROVE  ListInv' /\ pos' = [k \in Key |-> 0] /\ nodes' = {}
  <1>1. nodes' = {} /\ pos' = [k \in Key |-> 0] /\ links' = Joined(links) /\ TypeOK
    BY NothingRanked DEF Clear, CacheClear, ListInv
  <1>2. Ranks(nodes', pos')
    BY <1>1, NothingRanked
  <1>3. Chained(links', nodes', pos')
    BY <1>1, <1>2, LinksType, EmptyChained DEF TypeOK
  <1>4. SizeBounded'
    BY <1>1, FS_EmptySet, CapacityAssumption DEF SizeBounded
  <1>5. TypeOK'
    BY <1>1, <1>2, LinksType DEF TypeOK, Clear, Dropped, Ranks
  <1> QED
    BY <1>1, <1>2, <1>3, <1>4, <1>5 DEF ListInv, Clear

LEMMA ListNext == ListInv /\ [Next]_vars => ListInv'
  <1> SUFFICES ASSUME ListInv, [Next]_vars PROVE ListInv'
    OBVIOUS
  <1>1. ASSUME NEW k \in Key, GetHit(k) PROVE ListInv'
    <2>1. CacheGet(AsCache, k).rank = pos' /\ k \in nodes /\ val[k] \in Entry
      BY <1>1 DEF GetHit, ListInv, TypeOK
    <2> QED
      BY <1>1, <2>1, UseInv DEF GetHit
  <1>2. ASSUME NEW k \in Key, GetMiss(k) \/ DeleteMiss(k) PROVE ListInv'
    BY <1>2 DEF GetMiss, DeleteMiss, ListInv, TypeOK, SizeBounded, Ranks, Chained, Dropped
  <1>3. ASSUME NEW k \in Key, NEW e \in Entry, PutExisting(k, e) PROVE ListInv'
    BY <1>3, UseInv DEF PutExisting, NewValues
  <1>4. ASSUME NEW k \in Key, NEW e \in Entry, PutNew(k, e) PROVE ListInv'
    BY <1>4, PutNewInv
  <1>5. ASSUME NEW k \in Key, DeleteHit(k) PROVE ListInv'
    BY <1>5, DeleteInv
  <1>6. ASSUME Clear PROVE ListInv'
    BY <1>6, ClearInv
  <1>7. ASSUME UNCHANGED vars PROVE ListInv'
    BY <1>7 DEF vars, program, ListInv, TypeOK, SizeBounded, Ranks, Chained
  <1> QED
    BY <1>1, <1>2, <1>3, <1>4, <1>5, <1>6, <1>7 DEF Next

-----------------------------------------------------------------------------
(* KeepsRecent needs more than itself: the nodes ahead of a key have been  *)
(* used after it, and a held key without a node has been overtaken by      *)
(* Capacity others.                                                        *)

AheadUsedSince(N, p, u) == \A i, j \in N : p[i] < p[j] => i \in u[j]

RecencyInv ==
  /\ nodes \subseteq held
  /\ AheadUsedSince(nodes, pos, since)
  /\ \A k \in held \ nodes : Cardinality(since[k]) >= Capacity

\* What a use of key k leaves of the order of the places.
LEMMA MovedOrder ==
  ASSUME NEW p, NEW N, Ranks(N, p), NEW k \in N, NEW i \in N, NEW j \in N,
         Moved(p, k)[i] < Moved(p, k)[j]
  PROVE  j # k /\ (i = k \/ p[i] < p[j])
  <1> DEFINE m == Moved(p, k)
  <1>1. /\ i \in Key /\ j \in Key /\ k \in Key
        /\ p[i] \in Nat /\ p[j] \in Nat /\ p[k] \in Nat
        /\ p[i] > 0 /\ p[j] > 0 /\ p[k] > 0
    BY DEF Ranks
  <1>2. /\ m[i] = IF i = k THEN 1 ELSE IF p[i] > 0 /\ p[i] < p[k] THEN p[i] + 1 ELSE p[i]
        /\ m[j] = IF j = k THEN 1 ELSE IF p[j] > 0 /\ p[j] < p[k] THEN p[j] + 1 ELSE p[j]
    BY <1>1 DEF Moved
  <1>3. m[i] < m[j]
    OBVIOUS
  <1> HIDE DEF m
  <1> QED
    BY <1>1, <1>2, <1>3

LEMMA PushedOrder ==
  ASSUME NEW p, NEW N, Ranks(N, p), NEW k \in Key, k \notin N,
         NEW i \in N \cup {k}, NEW j \in N \cup {k},
         Pushed(p, k)[i] < Pushed(p, k)[j]
  PROVE  j # k /\ (i = k \/ p[i] < p[j])
  <1> DEFINE m == Pushed(p, k)
  <1>1. /\ i \in Key /\ j \in Key /\ k \in Key
        /\ p[i] \in Nat /\ p[j] \in Nat
        /\ i # k => p[i] > 0
        /\ j # k => p[j] > 0
    BY DEF Ranks
  <1>2. /\ m[i] = IF i = k THEN 1 ELSE IF p[i] > 0 THEN p[i] + 1 ELSE p[i]
        /\ m[j] = IF j = k THEN 1 ELSE IF p[j] > 0 THEN p[j] + 1 ELSE p[j]
    BY <1>1 DEF Pushed
  <1>3. m[i] < m[j]
    OBVIOUS
  <1> HIDE DEF m
  <1> QED
    BY <1>1, <1>2, <1>3

LEMMA ClosedOrder ==
  ASSUME NEW p, NEW N, Ranks(N, p), NEW k \in N, NEW i \in N \ {k}, NEW j \in N \ {k},
         Closed(p, k)[i] < Closed(p, k)[j]
  PROVE  p[i] < p[j]
  <1> DEFINE m == Closed(p, k)
  <1>1. /\ i \in Key /\ j \in Key /\ k \in Key
        /\ p[i] \in Nat /\ p[j] \in Nat /\ p[k] \in Nat
    BY DEF Ranks
  <1>2. /\ m[i] = IF p[i] > p[k] THEN p[i] - 1 ELSE p[i]
        /\ m[j] = IF p[j] > p[k] THEN p[j] - 1 ELSE p[j]
    BY <1>1 DEF Closed
  <1>3. m[i] < m[j]
    OBVIOUS
  <1> HIDE DEF m
  <1> QED
    BY <1>1, <1>2, <1>3

\* Used(k) adds k to what has been used since the last use of another key.
LEMMA UsedSince ==
  ASSUME TypeOK, NEW k \in Key
  PROVE  /\ \A j \in held \ {k} : Used(k)[j] = since[j] \cup {k}
         /\ \A j \in held \ {k} : Cardinality(since[j]) <= Cardinality(Used(k)[j])
         /\ \A j \in Key : Cardinality(since[j]) \in Nat /\ Used(k)[j] \in SUBSET Key
  <1>1. \A j \in held \ {k} : j \in Key /\ Used(k)[j] = since[j] \cup {k}
    BY DEF TypeOK, Used
  <1>2. \A j \in Key : since[j] \in SUBSET Key /\ Used(k)[j] \in SUBSET Key
    BY DEF TypeOK, Used
  <1>3. ASSUME NEW j \in held \ {k}
        PROVE  Cardinality(since[j]) <= Cardinality(Used(k)[j])
    <2>1. Used(k)[j] \in SUBSET Key /\ since[j] \in SUBSET Used(k)[j]
      BY <1>1, <1>2
    <2> QED
      BY <2>1, Counted
  <1>4. \A j \in Key : Cardinality(since[j]) \in Nat
    BY <1>2, Counted
  <1> QED
    BY <1>1, <1>2, <1>3, <1>4

LEMMA UseRecency ==
  ASSUME ListInv, RecencyInv, NEW k \in nodes,
         nodes' = nodes, pos' = Moved(pos, k), held' = held, since' = Used(k)
  PROVE  RecencyInv'
  <1>1. TypeOK /\ Ranks(nodes, pos) /\ k \in Key /\ nodes \subseteq held
    BY DEF ListInv, Ranks, RecencyInv
  <1>2. ASSUME NEW i \in nodes, NEW j \in nodes, pos'[i] < pos'[j]
        PROVE  i \in since'[j]
    <2>1. j # k /\ (i = k \/ pos[i] < pos[j])
      BY <1>1, <1>2, MovedOrder
    <2>2. since'[j] = since[j] \cup {k}
      BY <1>1, <2>1, UsedSince
    <2> QED
      BY <2>1, <2>2 DEF RecencyInv, AheadUsedSince
  <1>3. ASSUME NEW j \in held \ nodes
        PROVE  Cardinality(since'[j]) >= Capacity
    <2>1. j \in held \ {k} /\ j \in Key
      BY <1>1 DEF TypeOK
    <2>2. Cardinality(since[j]) <= Cardinality(since'[j]) /\ Cardinality(since[j]) \in Nat
      BY <1>1, <2>1, UsedSince
    <2>3. Cardinality(since'[j]) \in Nat
      BY <1>1, <2>1, UsedSince, Counted
    <2>4. Cardinality(since[j]) >= Capacity
      BY DEF RecencyInv
    <2> QED
      BY <2>2, <2>3, <2>4, CapacityAssumption
  <1> QED
    BY <1>1, <1>2, <1>3 DEF RecencyInv, AheadUsedSince

LEMMA PutNewRecency ==
  ASSUME ListInv, RecencyInv, NEW k \in Key, NEW e \in Entry, PutNew(k, e)
  PROVE  RecencyInv'
  <1> DEFINE M == nodes \cup {k}
             s == Pushed(pos, k)
             v == LastNode(k)
  <1>1. /\ TypeOK /\ Ranks(nodes, pos) /\ k \notin nodes /\ nodes \subseteq held
        /\ held' = held \cup {k} /\ since' = Used(k)
    BY DEF ListInv, RecencyInv, PutNew
  <1>2. ASSUME NEW i \in M, NEW j \in M, s[i] < s[j]
        PROVE  i \in since'[j]
    <2>1. j # k /\ (i = k \/ pos[i] < pos[j])
      BY <1>1, <1>2, PushedOrder
    <2>2. since'[j] = since[j] \cup {k}
      BY <1>1, <2>1, UsedSince
    <2>3. (i \in nodes /\ j \in nodes) \/ i = k
      BY <2>1
    <2> QED
      BY <2>1, <2>2, <2>3 DEF RecencyInv, AheadUsedSince
  <1>3. ASSUME NEW j \in held \ M
        PROVE  Cardinality(since'[j]) >= Capacity
    <2>1. j \in held \ {k} /\ j \in Key /\ j \in held \ nodes
      BY <1>1 DEF TypeOK
    <2>2. Cardinality(since[j]) <= Cardinality(since'[j]) /\ Cardinality(since[j]) \in Nat
      BY <1>1, <2>1, UsedSince
    <2>3. Cardinality(since'[j]) \in Nat
      BY <1>1, <2>1, UsedSince, Counted
    <2>4. Cardinality(since[j]) >= Capacity
      BY <2>1 DEF RecencyInv
    <2> QED
      BY <2>2, <2>3, <2>4, CapacityAssumption
  <1>4. CASE ~OverCapacity(k)
    <2>1. nodes' = M /\ pos' = s
      BY <1>4, PutNewInv
    <2> HIDE DEF s
    <2>2. nodes' \subseteq held'
      BY <1>1, <2>1
    <2>3. AheadUsedSince(nodes', pos', since')
      BY <1>2, <2>1 DEF AheadUsedSince
    <2>4. \A j \in held' \ nodes' : Cardinality(since'[j]) >= Capacity
      BY <1>1, <1>3, <2>1
    <2> QED
      BY <2>2, <2>3, <2>4 DEF RecencyInv
  <1>5. CASE OverCapacity(k)
    <2>1. /\ nodes' = M \ {v} /\ pos' = Closed(s, v)
          /\ v \in M /\ Cardinality(nodes') = Capacity
      BY <1>5, PutNewInv
    <2>2. /\ Ranks(M, s) /\ s[v] = Cardinality(M)
          /\ \A j \in M : s[j] <= Cardinality(M)
          /\ \A j \in M : s[j] = Cardinality(M) => j = v
          /\ Cardinality(M) \in Nat
      <3>1. /\ Ranks(M, s) /\ s[v] = Cardinality(M)
            /\ \A j \in M : s[j] <= Cardinality(M)
            /\ \A j \in M : s[j] = Cardinality(M) => j = v
        BY <1>1, AddedList
      <3>2. Cardinality(M) \in Nat
        BY <3>1, Counted DEF Ranks
      <3> QED
        BY <3>1, <3>2
    <2> HIDE DEF s, v
    <2>3. nodes' \subseteq held'
      BY <1>1, <2>1
    <2>4. ASSUME NEW i \in nodes', NEW j \in nodes', pos'[i] < pos'[j]
          PROVE  i \in since'[j]
      <3>1. s[i] < s[j]
        BY <2>1, <2>2, <2>4, ClosedOrder
      <3> QED
        BY <1>2, <2>1, <3>1
    <2>5. Cardinality(since'[v]) >= Capacity
      <3>1. nodes' \in SUBSET since'[v]
        <4>1. ASSUME NEW i \in nodes' PROVE s[i] < s[v]
          <5>1. i \in M /\ i # v /\ s[i] \in Nat
            BY <2>1, <2>2 DEF Ranks
          <5> HIDE DEF M
          <5> QED
            BY <2>2, <5>1
        <4> QED
          BY <1>2, <2>1, <4>1
      <3>2. since'[v] \in SUBSET Key
        <4>1. v \in Key
          BY <2>1, <2>2 DEF Ranks
        <4> QED
          BY <1>1, <4>1, UsedSince
      <3>3. Cardinality(nodes') <= Cardinality(since'[v]) /\ Cardinality(since'[v]) \in Nat
        BY <3>1, <3>2, Counted
      <3> QED
        BY <2>1, <3>3, CapacityAssumption
    <2>6. \A j \in held' \ nodes' : Cardinality(since'[j]) >= Capacity
      BY <1>1, <1>3, <2>1, <2>5
    <2> QED
      BY <2>3, <2>4, <2>6 DEF RecencyInv, AheadUsedSince
  <1> QED
    BY <1>4, <1>5

LEMMA DeleteRecency ==
  ASSUME ListInv, RecencyInv, NEW k \in Key, DeleteHit(k)
  PROVE  RecencyInv'
  <1>1. /\ TypeOK /\ Ranks(nodes, pos) /\ k \in nodes /\ nodes \subseteq held /\ held \subseteq Key
        /\ nodes' = nodes \ {k} /\ pos' = Closed(pos, k)
        /\ held' = held \ {k} /\ since' = Dropped({k})
    BY DeleteInv DEF ListInv, RecencyInv, DeleteHit, TypeOK
  <1>2. \A j \in Key \ {k} : since'[j] = since[j]
    BY <1>1 DEF Dropped
  <1>3. ASSUME NEW i \in nodes', NEW j \in nodes', pos'[i] < pos'[j]
        PROVE  i \in since'[j]
    <2>1. pos[i] < pos[j]
      BY <1>1, <1>3, ClosedOrder
    <2> QED
      BY <1>1, <1>2, <2>1 DEF RecencyInv, AheadUsedSince
  <1>4. \A j \in held' \ nodes' : Cardinality(since'[j]) >= Capacity
    BY <1>1, <1>2 DEF RecencyInv
  <1> QED
    BY <1>1, <1>3, <1>4 DEF RecencyInv, AheadUsedSince

LEMMA RecencyInit == Init => RecencyInv
  BY DEF Init, RecencyInv, AheadUsedSince

LEMMA RecencyNext == ListInv /\ RecencyInv /\ [Next]_vars => RecencyInv'
  <1> SUFFICES ASSUME ListInv, RecencyInv, [Next]_vars PROVE RecencyInv'
    OBVIOUS
  <1>1. ASSUME NEW k \in Key, GetHit(k) PROVE RecencyInv'
    <2>1. pos' = Moved(pos, k) /\ k \in nodes
      BY <1>1, HitOps DEF GetHit
    <2> QED
      BY <1>1, <2>1, UseRecency DEF GetHit
  <1>2. ASSUME NEW k \in Key, GetMiss(k) PROVE RecencyInv'
    BY <1>2 DEF GetMiss, RecencyInv, AheadUsedSince
  <1>3. ASSUME NEW k \in Key, NEW e \in Entry, PutExisting(k, e) PROVE RecencyInv'
    <2>1. pos' = Moved(pos, k) /\ k \in nodes
      BY <1>3, HitOps DEF PutExisting
    <2> QED
      BY <1>3, <2>1, UseRecency DEF PutExisting
  <1>4. ASSUME NEW k \in Key, NEW e \in Entry, PutNew(k, e) PROVE RecencyInv'
    BY <1>4, PutNewRecency
  <1>5. ASSUME NEW k \in Key, DeleteHit(k) PROVE RecencyInv'
    BY <1>5, DeleteRecency
  <1>6. ASSUME NEW k \in Key, DeleteMiss(k) PROVE RecencyInv'
    <2>1. /\ nodes' = nodes /\ pos' = pos /\ held' = held \ {k} /\ k \notin nodes
          /\ nodes \subseteq held /\ held \subseteq Key
          /\ \A j \in Key \ {k} : since'[j] = since[j]
      BY <1>6 DEF DeleteMiss, Dropped, ListInv, TypeOK, RecencyInv
    <2> QED
      BY <2>1 DEF RecencyInv, AheadUsedSince
  <1>7. ASSUME Clear PROVE RecencyInv'
    BY <1>7 DEF Clear, RecencyInv, AheadUsedSince
  <1>8. ASSUME UNCHANGED vars PROVE RecencyInv'
    BY <1>8 DEF vars, program, RecencyInv, AheadUsedSince
  <1> QED
    BY <1>1, <1>2, <1>3, <1>4, <1>5, <1>6, <1>7, <1>8 DEF Next

-----------------------------------------------------------------------------
(* The theorems.                                                           *)

LEMMA ListInvariant == Spec => [](ListInv /\ RecencyInv)
  <1>1. Init => ListInv /\ RecencyInv
    BY ListInit, RecencyInit
  <1>2. ListInv /\ RecencyInv /\ [Next]_vars => (ListInv /\ RecencyInv)'
    BY ListNext, RecencyNext
  <1> QED
    BY <1>1, <1>2, PTL DEF Spec

\* Every variable keeps its type and no link of a node in use or out of use
\* ever leaves the nodes and the dummies, whatever methods are called.
THEOREM ListTypeCorrect == Spec => []TypeOK
  <1>1. ListInv => TypeOK
    BY DEF ListInv
  <1> QED
    BY <1>1, ListInvariant, PTL

\* After every method of util/cache/lru.go the map and the list hold the same
\* keys, next and prev mirror each other, and the list is in recency order.
THEOREM LinkedInRecency == Spec => []LinksFollowRecency
  <1>1. ASSUME ListInv PROVE LinksFollowRecency
    <2> DEFINE q == Slot(nodes, pos)
    <2>1. \A n \in Linked : n \in Node /\ Place(n) = q[n]
      <3>1. nodes \subseteq Key
        BY <1>1 DEF ListInv, Ranks
      <3> QED
        BY <3>1 DEF Linked, Node, Place, Slot
    <2>2. Chain(links.next, links.prev, Linked, q)
      BY <1>1 DEF ListInv, Chained, Linked, Dummies
    <2>3. q \in [Node -> Nat]
      BY <1>1, Slots DEF ListInv
    <2> HIDE DEF q
    <2>4. ASSUME NEW n \in Linked \ {Tail}
          PROVE  /\ links.next[n] \in Linked
                 /\ links.prev[links.next[n]] = n
                 /\ Place(links.next[n]) = Place(n) + 1
      BY <2>1, <2>2 DEF Chain
    <2>5. ASSUME NEW n \in Linked \ {Head}
          PROVE  /\ links.prev[n] \in Linked
                 /\ links.next[links.prev[n]] = n
                 /\ Place(links.prev[n]) + 1 = Place(n)
      BY <2>1, <2>2 DEF Chain
    <2>6. \A k \in Key : (k \in nodes <=> pos[k] > 0) /\ (k \in nodes <=> val[k] # NoEntry)
      BY <1>1 DEF ListInv, Ranks
    <2> QED
      BY <2>4, <2>5, <2>6 DEF LinksFollowRecency
  <1> QED
    BY <1>1, ListInvariant, PTL

\* Put and removeTail keep the map within the capacity given to NewLRUCache,
\* for every capacity, none included.
THEOREM CapacityKept == Spec => []SizeBounded
  <1>1. ListInv => SizeBounded
    BY DEF ListInv
  <1> QED
    BY <1>1, ListInvariant, PTL

\* Nothing is evicted before Capacity other keys have been used since its last
\* use: the cache drops the least recently used key and no other.
THEOREM RecentKept == Spec => []KeepsRecent
  <1>1. ASSUME ListInv, RecencyInv PROVE KeepsRecent
    <2>1. ASSUME NEW k \in held, Cardinality(since[k]) < Capacity PROVE k \in nodes
      <3>1. k \in Key
        BY <1>1 DEF ListInv, TypeOK
      <3>2. Cardinality(since[k]) \in Nat
        BY <1>1, <3>1, UsedSince DEF ListInv
      <3> QED
        BY <1>1, <2>1, <3>2, CapacityAssumption DEF RecencyInv
    <2> QED
      BY <2>1 DEF KeepsRecent
  <1> QED
    BY <1>1, ListInvariant, PTL

-----------------------------------------------------------------------------
(* The refinement: a method of the list is the method of the same name of  *)
(* LRUCache on the cache value that ranks and values make.                 *)

\* LRUCache takes its operations from LRUOps as this module does.
LEMMA SameOps ==
  /\ LRU!EmptyCache = EmptyCache
  /\ LRU!CacheClear = CacheClear
  /\ \A c, k : /\ LRU!Hit(c, k) = Hit(c, k)
               /\ LRU!CacheGet(c, k) = CacheGet(c, k)
               /\ LRU!CacheDelete(c, k) = CacheDelete(c, k)
               /\ \A e : LRU!CachePut(c, k, e) = CachePut(c, k, e)
  <1>1. \A c, k : LRU!RankToFront(c, k) = RankToFront(c, k)
    BY DEF LRU!RankToFront, RankToFront, LRU!Overtaken, Overtaken, LRU!Cached, Cached
  <1>2. \A c, k, e : LRU!CachePut(c, k, e) = CachePut(c, k, e)
    BY <1>1 DEF LRU!CachePut, CachePut
  <1>3. \A c, k : LRU!CacheGet(c, k) = CacheGet(c, k)
    BY <1>1 DEF LRU!CacheGet, CacheGet, LRU!Cached, Cached
  <1>4. \A c, k : LRU!CacheDelete(c, k) = CacheDelete(c, k)
    BY DEF LRU!CacheDelete, CacheDelete, LRU!Cached, Cached
  <1>5. \A c, k : LRU!Hit(c, k) = Hit(c, k)
    BY DEF LRU!Hit, Hit
  <1>6. LRU!EmptyCache = EmptyCache /\ LRU!CacheClear = CacheClear
    BY DEF LRU!EmptyCache, EmptyCache, LRU!CacheClear, CacheClear
  <1> QED
    BY <1>2, <1>3, <1>4, <1>5, <1>6

LEMMA AsCacheNext == AsCache' = [rank |-> pos', entry |-> val']
  BY DEF AsCache

LEMMA RefineInit == Init => LRU!Init
  <1> SUFFICES ASSUME Init PROVE LRU!Init
    OBVIOUS
  <1>1. EmptyCache = [rank |-> EmptyCache.rank, entry |-> EmptyCache.entry]
    BY DEF EmptyCache
  <1>2. AsCache = EmptyCache
    BY <1>1, NothingRanked DEF Init, AsCache
  <1> QED
    BY <1>2, SameOps DEF Init, LRU!Init

LEMMA RefineNext == ListInv /\ [Next]_vars => [LRU!Next]_LRU!cacheVars
  <1> SUFFICES ASSUME ListInv, [Next]_vars PROVE [LRU!Next]_LRU!cacheVars
    OBVIOUS
  <1>1. ASSUME NEW k \in Key, GetHit(k) PROVE LRU!Get(k)
    <2>1. CacheGet(AsCache, k) = [rank |-> Moved(pos, k), entry |-> val]
      BY <1>1, HitOps DEF GetHit
    <2>2. AsCache' = CacheGet(AsCache, k)
      BY <1>1, <2>1, AsCacheNext DEF GetHit
    <2>3. answer' = Hit(AsCache, k)
      BY <1>1 DEF GetHit, Hit, AsCache
    <2> QED
      BY <2>2, <2>3, SameOps DEF LRU!Get
  <1>2. ASSUME NEW k \in Key, k \notin nodes PROVE k \notin Cached(AsCache) /\ val[k] = NoEntry
    BY <1>2 DEF ListInv, Ranks, Cached, AsCache
  <1>3. ASSUME NEW k \in Key, GetMiss(k) PROVE LRU!Get(k)
    <2>1. AsCache' = AsCache /\ answer' = NoEntry /\ k \notin nodes
      BY <1>3, AsCacheNext DEF GetMiss, AsCache
    <2>2. CacheGet(AsCache, k) = AsCache /\ Hit(AsCache, k) = NoEntry
      BY <1>2, <2>1 DEF CacheGet, Hit, AsCache
    <2> QED
      BY <2>1, <2>2, SameOps DEF LRU!Get
  <1>4. ASSUME NEW k \in Key, NEW e \in Entry, PutExisting(k, e) PROVE LRU!Put(k, e)
    <2>1. CachePut(AsCache, k, e) = [rank |-> Moved(pos, k), entry |-> [val EXCEPT ![k] = e]]
      BY <1>4, HitOps DEF PutExisting
    <2>2. AsCache' = CachePut(AsCache, k, e) /\ answer' = answer
      BY <1>4, <2>1, AsCacheNext DEF PutExisting
    <2> QED
      BY <2>2, SameOps DEF LRU!Put
  <1>5. ASSUME NEW k \in Key, NEW e \in Entry, PutNew(k, e) PROVE LRU!Put(k, e)
    <2>1. k \notin nodes /\ answer' = answer
      BY <1>5 DEF PutNew
    <2>2. CASE ~OverCapacity(k)
      <3>1. AsCache' = CachePut(AsCache, k, e)
        BY <1>5, <2>1, <2>2, PutNewInv, NewOps, AsCacheNext
      <3> QED
        BY <2>1, <3>1, SameOps DEF LRU!Put
    <2>3. CASE OverCapacity(k)
      <3>1. AsCache' = CachePut(AsCache, k, e)
        BY <1>5, <2>1, <2>3, PutNewInv, NewOps, AsCacheNext
      <3> QED
        BY <2>1, <3>1, SameOps DEF LRU!Put
    <2> QED
      BY <2>2, <2>3
  <1>6. ASSUME NEW k \in Key, DeleteHit(k) PROVE LRU!Delete(k)
    <2>1. k \in nodes
      BY <1>6 DEF DeleteHit
    <2>2. AsCache' = CacheDelete(AsCache, k) /\ answer' = answer
      BY <1>6, <2>1, HitOps, AsCacheNext DEF DeleteHit
    <2> QED
      BY <2>2, SameOps DEF LRU!Delete
  <1>7. ASSUME NEW k \in Key, DeleteMiss(k) PROVE LRU!Delete(k)
    <2>1. AsCache' = AsCache /\ answer' = answer /\ k \notin nodes
      BY <1>7, AsCacheNext DEF DeleteMiss, AsCache
    <2>2. CacheDelete(AsCache, k) = AsCache
      BY <1>2, <2>1 DEF CacheDelete
    <2> QED
      BY <2>1, <2>2, SameOps DEF LRU!Delete
  <1>8. ASSUME Clear PROVE LRU!Clear
    <2>1. AsCache' = CacheClear /\ answer' = answer
      BY <1>8, AsCacheNext, NothingRanked DEF Clear, CacheClear, EmptyCache
    <2> QED
      BY <2>1, SameOps DEF LRU!Clear
  <1>9. ASSUME UNCHANGED vars PROVE UNCHANGED LRU!cacheVars
    <2>1. AsCache' = AsCache /\ answer' = answer
      BY <1>9, AsCacheNext DEF vars, program, AsCache
    <2> QED
      BY <2>1 DEF LRU!cacheVars
  <1> QED
    BY <1>1, <1>3, <1>4, <1>5, <1>6, <1>7, <1>8, <1>9 DEF Next, LRU!Next

\* The linked list of util/cache/lru.go answers and evicts as the bounded
\* least-recently-used map of LRUCache does, for every set of keys, every set
\* of values and every capacity.
THEOREM ListImplementsCache == Spec => Refinement
  <1>1. Init => LRU!Init
    BY RefineInit
  <1>2. ListInv /\ [Next]_vars => [LRU!Next]_LRU!cacheVars
    BY RefineNext
  <1>3. Spec => [](ListInv /\ RecencyInv)
    BY ListInvariant
  <1> QED
    BY <1>1, <1>2, <1>3, PTL DEF Spec, Refinement, LRU!Spec
=============================================================================
