---------------------------- MODULE HandlerProofs ---------------------------
(***************************************************************************)
(* Theorems about Handler, for any hosts, redirects, requests and limits.  *)
(* What a request and a redirect are refused for is looked at reason by    *)
(* reason (Checks); the rest is an invariant that carries, from the lookup *)
(* to the answer, what the API has made of the redirect that is stored.    *)
(* That a path keeps its segments is proved of the places of its           *)
(* characters, of which the slashes that are dropped are never the last    *)
(* of their run.                                                           *)
(***************************************************************************)
EXTENDS Handler, FiniteSetTheorems, SequenceTheorems, TLAPS

\* What the API has accepted: domains in lower case.
StoredValid ==
  doc # Unset =>
    /\ doc \in Redirect
    /\ ~doc.source.upper /\ ~doc.target.upper

AnswerFits ==
  Redirected => answer = [status |-> RedirectStatus(result.type, request.method),
                          location |-> Location(request, result)]

HandlerInv ==
  /\ HandlerTypeOK /\ StoredValid /\ AnswerFits /\ AcceptedIsServed

-----------------------------------------------------------------------------
(* Domains.                                                                *)

LEMMA LowerCase ==
  ASSUME NEW d \in HostName
  PROVE  /\ ToLower(d) \in HostName /\ ~ToLower(d).upper
         /\ ~d.upper => ToLower(d) = d
         /\ TrimSpace(d) \in HostName
         /\ ~d.padded => TrimSpace(d) = d
         /\ ToLower(ToLower(d)) = ToLower(d)
         /\ ToLower(TrimSpace(d)) = TrimSpace(ToLower(d))
BY DEF HostName, ToLower, TrimSpace

\* A host that is equal to the source of a redirect up to case is its key.
LEMMA KeyFits ==
  ASSUME NEW d \in HostName, NEW source \in HostName,
         ~source.upper, ~source.padded, EqualFold(d, TrimSpace(source))
  PROVE  ToLower(TrimSpace(ToLower(d))) = source
<1>1. TrimSpace(source) = source /\ ToLower(source) = source
  BY LowerCase
<1>2. ToLower(d) = source
  BY <1>1 DEF EqualFold
<1> QED
  BY <1>1, <1>2

-----------------------------------------------------------------------------
(* The URL.  That a redirect is not built has a reason of its own in the   *)
(* request, in the redirect, or in the length of both.                     *)

LEMMA TagsApart ==
  ASSUME NEW params, NEW tags, NEW p \in WithTags(params, tags)
  PROVE  p \in WithTags(params, <<>>) \/ p \in WithTags({}, tags)
<1>1. DOMAIN <<>> = {}
  OBVIOUS
<1> QED
  BY <1>1 DEF WithTags

\* A tag replaces the parameters of its name and no others.
LEMMA TagsReplace ==
  ASSUME NEW params, NEW tags, NEW n
  PROVE  ValuesOf(WithTags(params, tags), n) =
           IF n \in DOMAIN tags THEN {tags[n]} ELSE ValuesOf(params, n)
<1> DEFINE T(m) == [name |-> m, value |-> tags[m]]
<1>1. \A q : q \in WithTags(params, tags) <=>
               \/ q \in params /\ q.name \notin DOMAIN tags
               \/ \E m \in DOMAIN tags : q = T(m)
  BY DEF WithTags
<1>2. \A m : T(m).name = m /\ T(m).value = tags[m]
  OBVIOUS
<1> HIDE DEF T
<1>3. CASE n \in DOMAIN tags
  <2>1. {q \in WithTags(params, tags) : q.name = n} = {T(n)}
    BY <1>1, <1>2, <1>3
  <2> QED
    BY <1>2, <1>3, <2>1 DEF ValuesOf
<1>4. CASE n \notin DOMAIN tags
  <2>1. {q \in WithTags(params, tags) : q.name = n} = {q \in params : q.name = n}
    BY <1>1, <1>2, <1>4
  <2> QED
    BY <1>4, <2>1 DEF ValuesOf
<1> QED
  BY <1>3, <1>4

LEMMA BuildSplits ==
  ASSUME NEW r \in HTTPRequest, NEW d \in Redirect, BuildFails(r, d)
  PROVE  \/ BuildFails(r, PlainRedirect(d))
         \/ BuildFails(PlainRequest(r), d)
         \/ TooLong(Location(r, d))
<1>1. /\ PlainRedirect(d).tags = <<>>
      /\ PlainRequest(r).params = {}
  BY DEF Redirect, HTTPRequest, PlainRedirect, PlainRequest
<1>2. /\ Location(r, PlainRedirect(d)).path = Location(r, d).path
      /\ Location(r, PlainRedirect(d)).params = WithTags(r.params, <<>>)
      /\ Location(PlainRequest(r), d).params = WithTags({}, d.tags)
      /\ Location(r, d).params = WithTags(r.params, d.tags)
  BY <1>1 DEF Location
<1>3. CASE r.params = Malformed \/ ~MatchesHandler(d.target)
  BY <1>3 DEF BuildFails
<1>4. CASE InvalidPath(Location(r, d).path)
  BY <1>2, <1>4 DEF BuildFails
<1>5. CASE \E p \in Location(r, d).params : InvalidParam(p)
  <2>1. PICK p \in WithTags(r.params, d.tags) : InvalidParam(p)
    BY <1>2, <1>5
  <2> QED
    BY <1>2, <2>1, TagsApart DEF BuildFails
<1> QED
  BY <1>3, <1>4, <1>5 DEF BuildFails

\* Target and tags are all that is read of a redirect.
LEMMA BuildReads ==
  ASSUME NEW r, NEW d, NEW e, d.target = e.target, d.tags = e.tags
  PROVE  BuildFails(r, d) = BuildFails(r, e)
BY DEF BuildFails, Location

\* An answer that redirects has one of four statuses, that no refusal has.
LEMMA StatusesApart ==
  /\ \A type, method : RedirectStatus(type, method) \in {301, 302, 307, 308}
  /\ \A r : Refusal(r) \notin {301, 302, 307, 308}
BY DEF RedirectStatus, Fallback, Refusal

-----------------------------------------------------------------------------
(* The items of a sequence at some of its places.                          *)

\* The places of K that are not after i, and how many they are.
Upto(K, i) == {j \in K : j <= i}
RankIn(K, i) == Cardinality(Upto(K, i))

\* Places to the left are finitely many, and no fewer further right.
LEMMA RankGrows ==
  ASSUME NEW n \in Nat, NEW K \in SUBSET (1..n), NEW i \in Nat, NEW j \in Nat
  PROVE  /\ RankIn(K, i) \in 0..Cardinality(K) /\ Cardinality(K) \in Nat
         /\ IsFiniteSet(K)
         /\ i <= j => RankIn(K, i) <= RankIn(K, j)
         /\ i < j /\ j \in K => RankIn(K, i) < RankIn(K, j)
         /\ i \in K => RankIn(K, i) > 0
         /\ RankIn(K, 0) = 0
<1>1. \A x, y : y \in Upto(K, x) <=> y \in K /\ y <= x
  BY DEF Upto
<1>2. \A y \in K : y \in Nat /\ ~(y <= 0)
  OBVIOUS
<1>3. IsFiniteSet(K) /\ Cardinality(K) \in Nat
  <2>1. IsFiniteSet(1..n)
    BY FS_Interval
  <2> QED
    BY <2>1, FS_Subset, FS_CardinalityType
<1>4. ASSUME NEW x
      PROVE  /\ IsFiniteSet(Upto(K, x)) /\ RankIn(K, x) \in Nat
             /\ RankIn(K, x) <= Cardinality(K)
             /\ RankIn(K, x) = 0 <=> Upto(K, x) = {}
  <2>1. Upto(K, x) \in SUBSET K
    BY <1>1
  <2> QED
    BY <1>3, <2>1, FS_Subset, FS_CardinalityType, FS_EmptySet DEF RankIn
<1>5. ASSUME i <= j
      PROVE  /\ RankIn(K, i) <= RankIn(K, j)
             /\ RankIn(K, i) = RankIn(K, j) => Upto(K, i) = Upto(K, j)
  <2>1. \A y \in K : y <= i => y <= j
    BY <1>2, <1>5
  <2>2. Upto(K, i) \in SUBSET Upto(K, j)
    BY <1>1, <2>1
  <2> QED
    BY <1>4, <2>2, FS_Subset DEF RankIn
<1>6. ASSUME i < j, j \in K PROVE RankIn(K, i) < RankIn(K, j)
  <2>1. i <= j /\ j <= j /\ ~(j <= i)
    BY <1>6
  <2>2. Upto(K, i) # Upto(K, j)
    BY <1>1, <1>6, <2>1
  <2>3. RankIn(K, i) \in Nat /\ RankIn(K, j) \in Nat
    BY <1>4
  <2> QED
    BY <1>5, <2>1, <2>2, <2>3
<1>7. ASSUME i \in K PROVE RankIn(K, i) > 0
  <2>1. Upto(K, i) # {}
    <3>1. i <= i
      OBVIOUS
    <3> QED
      BY <1>1, <1>7, <3>1
  <2> QED
    BY <1>4, <2>1
<1>8. RankIn(K, 0) = 0
  <2>1. Upto(K, 0) = {}
    BY <1>1, <1>2
  <2> QED
    BY <1>4, <2>1
<1>9. RankIn(K, i) \in 0..Cardinality(K)
  BY <1>3, <1>4
<1> QED
  BY <1>3, <1>5, <1>6, <1>7, <1>8, <1>9

\* The rank of a place is that of the place before it, and one more if the
\* place is counted.
LEMMA RankNext ==
  ASSUME NEW n \in Nat, NEW K \in SUBSET (1..n), NEW i \in Nat, i # 0
  PROVE  RankIn(K, i) = IF i \in K THEN RankIn(K, i - 1) + 1 ELSE RankIn(K, i - 1)
<1>1. \A x, y : y \in Upto(K, x) <=> y \in K /\ y <= x
  BY DEF Upto
<1>2. /\ \A y \in K : y <= i <=> y <= i - 1 \/ y = i
      /\ ~(i <= i - 1)
  OBVIOUS
<1>3. IsFiniteSet(Upto(K, i - 1))
  <2>1. Upto(K, i - 1) \in SUBSET K /\ IsFiniteSet(K)
    BY <1>1, RankGrows
  <2> QED
    BY <2>1, FS_Subset
<1>4. CASE i \in K
  <2>1. Upto(K, i) = Upto(K, i - 1) \cup {i} /\ i \notin Upto(K, i - 1)
    BY <1>1, <1>2, <1>4
  <2> QED
    BY <1>3, <1>4, <2>1, FS_AddElement DEF RankIn
<1>5. CASE i \notin K
  <2>1. Upto(K, i) = Upto(K, i - 1)
    BY <1>1, <1>2, <1>5
  <2> QED
    BY <1>5, <2>1 DEF RankIn
<1> QED
  BY <1>4, <1>5

\* Ranks number the places of K, each once.
LEMMA RankNumbers ==
  ASSUME NEW n \in Nat, NEW K \in SUBSET (1..n)
  PROVE  /\ \A i \in K : RankIn(K, i) \in 1..Cardinality(K)
         /\ \A i, j \in K : RankIn(K, i) = RankIn(K, j) => i = j
         /\ \A m \in 1..Cardinality(K) : \E i \in K : RankIn(K, i) = m
<1> DEFINE c == Cardinality(K)
           f == [i \in K |-> RankIn(K, i)]
<1>1. IsFiniteSet(K) /\ c \in Nat
  BY RankGrows
<1>2. \A i \in K : RankIn(K, i) \in 1..c
  <2>1. ASSUME NEW i \in K PROVE RankIn(K, i) \in 1..c
    <3>1. i \in Nat
      OBVIOUS
    <3>2. RankIn(K, i) \in 0..c /\ RankIn(K, i) > 0
      BY <3>1, RankGrows
    <3> QED
      BY <1>1, <3>2
  <2> QED
    BY <2>1
<1>3. ASSUME NEW i \in K, NEW j \in K, RankIn(K, i) = RankIn(K, j) PROVE i = j
  <2>1. i \in Nat /\ j \in Nat
    OBVIOUS
  <2>2. ~(i < j) /\ ~(j < i)
    <3>1. i < j => RankIn(K, i) < RankIn(K, j)
      BY <2>1, RankGrows
    <3>2. j < i => RankIn(K, j) < RankIn(K, i)
      BY <2>1, RankGrows
    <3>3. RankIn(K, i) \in Nat
      BY <1>2, <1>1
    <3> QED
      BY <1>3, <3>1, <3>2, <3>3
  <2> QED
    BY <2>1, <2>2
<1>4. f \in Injection(K, 1..c)
  BY <1>2, <1>3 DEF Injection, IsInjective
<1>5. IsFiniteSet(1..c) /\ Cardinality(1..c) = c
  BY <1>1, FS_Interval
<1>6. f \in Surjection(K, 1..c)
  BY <1>4, <1>5, FS_Injection
<1>7. \A m \in 1..c : \E i \in K : f[i] = m
  BY <1>6 DEF Surjection
<1> QED
  BY <1>2, <1>3, <1>7

\* The item of a place is where its rank says.
LEMMA ItemAt ==
  ASSUME NEW n \in Nat, NEW K \in SUBSET (1..n), NEW s
  PROVE  /\ DOMAIN ItemsAt(s, K) = 1..Cardinality(K)
         /\ \A i \in K : ItemsAt(s, K)[RankIn(K, i)] = s[i]
<1>1. ASSUME NEW i \in K PROVE ItemsAt(s, K)[RankIn(K, i)] = s[i]
  <2>1. (CHOOSE j \in K : RankIn(K, j) = RankIn(K, i)) = i
    BY RankNumbers
  <2>2. RankIn(K, i) \in 1..Cardinality(K)
    BY RankNumbers
  <2> QED
    BY <2>1, <2>2 DEF ItemsAt, RankIn, Upto
<1> QED
  BY <1>1 DEF ItemsAt

LEMMA ItemsType ==
  ASSUME NEW S, NEW s \in Seq(S), NEW K \in SUBSET (1..Len(s))
  PROVE  ItemsAt(s, K) \in Seq(S) /\ Len(ItemsAt(s, K)) = Cardinality(K)
<1> DEFINE t == ItemsAt(s, K)
           c == Cardinality(K)
<1>1. Len(s) \in Nat /\ c \in Nat
  BY RankGrows, LenProperties
<1>2. \A m \in 1..c : t[m] \in S
  <2>1. ASSUME NEW m \in 1..c PROVE t[m] \in S
    <3>1. PICK i \in K : RankIn(K, i) = m
      BY <1>1, RankNumbers
    <3>2. t[m] = s[i]
      BY <1>1, <3>1, ItemAt
    <3> QED
      BY <3>2, ElementOfSeq
  <2> QED
    BY <2>1
<1>3. t \in [1..c -> S]
  <2>1. t = [m \in 1..c |-> t[m]]
    BY DEF ItemsAt
  <2> HIDE DEF t, c
  <2> QED
    BY <1>2, <2>1
<1> HIDE DEF t, c
<1>4. t \in Seq(S) /\ Len(t) = c
  BY <1>1, <1>3
<1> QED
  BY <1>4 DEF t, c

\* Two sequences have the same items at places that correspond in order.
LEMMA SameItems ==
  ASSUME NEW m \in Nat, NEW K \in SUBSET (1..m), NEW s,
         NEW n \in Nat, NEW L \in SUBSET (1..n), NEW t,
         NEW g \in [K -> L],
         \A i, j \in K : i < j => g[i] < g[j],
         \A l \in L : \E i \in K : g[i] = l,
         \A i \in K : t[g[i]] = s[i]
  PROVE  ItemsAt(s, K) = ItemsAt(t, L)
<1> DEFINE c == Cardinality(K)
<1>a. \A i \in K : ItemsAt(s, K)[RankIn(K, i)] = s[i]
  BY ONLY m \in Nat, K \in SUBSET (1..m), ItemAt, Zenon
<1>b. \A l \in L : ItemsAt(t, L)[RankIn(L, l)] = t[l]
  BY ONLY n \in Nat, L \in SUBSET (1..n), ItemAt, Zenon
<1>1. K \subseteq Nat /\ L \subseteq Nat /\ IsFiniteSet(K) /\ IsFiniteSet(L) /\ c \in Nat
  <2>1. K \subseteq Nat /\ L \subseteq Nat
    OBVIOUS
  <2>2. IsFiniteSet(K) /\ c \in Nat
    BY RankGrows
  <2>3. IsFiniteSet(L)
    BY RankGrows
  <2> QED
    BY <2>1, <2>2, <2>3
<1>2. \A i, j \in K : g[i] = g[j] => i = j
  <2>1. ASSUME NEW i \in K, NEW j \in K, g[i] = g[j] PROVE i = j
    <3>1. i \in Nat /\ j \in Nat /\ g[i] \in Nat /\ g[j] \in Nat
      BY <1>1
    <3>2. ~(i < j) /\ ~(j < i)
      BY <2>1, <3>1
    <3> QED
      BY <3>1, <3>2
  <2> QED
    BY <2>1
<1>3. \A i, j \in K : i <= j <=> g[i] <= g[j]
  <2>1. ASSUME NEW i \in K, NEW j \in K PROVE i <= j <=> g[i] <= g[j]
    <3>1. i \in Nat /\ j \in Nat /\ g[i] \in Nat /\ g[j] \in Nat
      BY <1>1
    <3>2. i < j \/ i = j \/ j < i
      BY <3>1
    <3> QED
      BY <3>1, <3>2
  <2> QED
    BY <2>1
<1>4. ASSUME NEW A \in SUBSET K, NEW B \in SUBSET L,
             \A i \in A : g[i] \in B, \A l \in B : \E i \in A : g[i] = l
      PROVE  Cardinality(A) = Cardinality(B)
  <2> DEFINE h == [i \in A |-> g[i]]
  <2>1. h \in Bijection(A, B)
    BY <1>2, <1>4 DEF Bijection, Injection, IsInjective, Surjection
  <2>2. ExistsBijection(A, B)
    BY <2>1 DEF ExistsBijection
  <2>3. IsFiniteSet(A)
    BY <1>1, FS_Subset
  <2> QED
    BY <2>2, <2>3, FS_Bijection
<1>5. Cardinality(L) = c
  BY <1>4
<1>6. ASSUME NEW i \in K PROVE RankIn(L, g[i]) = RankIn(K, i)
  <2> DEFINE A == {j \in K : j <= i}
             B == {l \in L : l <= g[i]}
  <2>1. A \in SUBSET K /\ B \in SUBSET L
    OBVIOUS
  <2>2. \A j \in A : g[j] \in B
    BY <1>3
  <2>3. \A l \in B : \E j \in A : g[j] = l
    BY <1>3
  <2>4. Cardinality(A) = Cardinality(B)
    <3> HIDE DEF A, B
    <3> QED
      BY <1>4, <2>1, <2>2, <2>3
  <2> QED
    BY <2>4 DEF RankIn, Upto
<1>7. ASSUME NEW k \in 1..c PROVE ItemsAt(s, K)[k] = ItemsAt(t, L)[k]
  <2>1. PICK i \in K : RankIn(K, i) = k
    BY RankNumbers
  <2>2. ItemsAt(s, K)[RankIn(K, i)] = s[i]
    BY <1>a
  <2>3. ItemsAt(t, L)[RankIn(L, g[i])] = t[g[i]]
    BY <1>b
  <2> QED
    BY <1>6, <2>1, <2>2, <2>3
<1>8. /\ ItemsAt(s, K) = [k \in 1..c |-> ItemsAt(s, K)[k]]
      /\ ItemsAt(t, L) = [k \in 1..c |-> ItemsAt(t, L)[k]]
  BY <1>5 DEF ItemsAt
<1> HIDE DEF c
<1> QED
  BY <1>7, <1>8

-----------------------------------------------------------------------------
(* Paths.  What is left of a path is what is between its slashes.          *)

Rootward(path) == <<"/">> \o path

\* The places of p that Segments looks at: of the slashes in a row, the last
\* one, and none at the end.
Lasting(p) == {i \in 1..Len(p) : p[i] = "/" => i < Len(p) /\ p[i + 1] # "/"}

\* The places whose slash ReplaceAll keeps, and all others.
Halved(path) == {i \in 1..Len(path) : path[i] = "/" => SlashesAt(path, i) % 2 = 1}

LEMMA RootwardItems ==
  ASSUME NEW path \in Seq(Char)
  PROVE  /\ Rootward(path) \in Seq(Char)
         /\ Len(path) \in Nat /\ Len(Rootward(path)) = Len(path) + 1
         /\ DOMAIN Rootward(path) = 1..(Len(path) + 1)
         /\ DOMAIN path = 1..Len(path)
         /\ Rootward(path)[1] = "/"
         /\ \A i \in 1..Len(path) : Rootward(path)[i + 1] = path[i] /\ path[i] \in Char
<1> DEFINE r == <<"/">>
<1>1. r \in Seq(Char) /\ Len(r) = 1 /\ r[1] = "/"
  <2>1. "/" \in Char
    BY DEF Char
  <2> QED
    BY <2>1
<1>2. Len(path) \in Nat /\ DOMAIN path = 1..Len(path)
  BY LenProperties
<1> HIDE DEF r
<1>3. /\ r \o path \in Seq(Char) /\ Len(r \o path) = Len(path) + 1
      /\ \A i \in 1..(Len(r) + Len(path)) :
           (r \o path)[i] = IF i <= Len(r) THEN r[i] ELSE path[i - Len(r)]
  <2>1. /\ r \o path \in Seq(Char) /\ Len(r \o path) = Len(r) + Len(path)
        /\ \A i \in 1..(Len(r) + Len(path)) :
             (r \o path)[i] = IF i <= Len(r) THEN r[i] ELSE path[i - Len(r)]
    BY <1>1, ConcatProperties
  <2>2. Len(r) + Len(path) = Len(path) + 1
    BY <1>1, <1>2
  <2> QED
    BY <2>1, <2>2
<1>4. DOMAIN (r \o path) = 1..(Len(path) + 1)
  BY <1>3, LenProperties
<1>5. (r \o path)[1] = "/"
  BY <1>1, <1>2, <1>3
<1>6. ASSUME NEW i \in 1..Len(path)
      PROVE  (r \o path)[i + 1] = path[i] /\ path[i] \in Char
  <2>1. i + 1 \in 1..(1 + Len(path)) /\ ~(i + 1 <= 1) /\ (i + 1) - 1 = i
    BY <1>2
  <2>2. (r \o path)[i + 1] = path[i]
    BY <1>1, <1>3, <2>1
  <2>3. path[i] \in Char
    BY ElementOfSeq
  <2> QED
    BY <2>2, <2>3
<1>7. Rootward(path) = r \o path
  BY DEF Rootward, r
<1> QED
  BY <1>2, <1>3, <1>4, <1>5, <1>6, <1>7

\* Two paths have the same segments if what Segments looks at corresponds.
LEMMA SameSegments ==
  ASSUME NEW path \in Seq(Char), NEW other \in Seq(Char),
         NEW g \in [Lasting(Rootward(path)) -> Lasting(Rootward(other))],
         \A i, j \in Lasting(Rootward(path)) : i < j => g[i] < g[j],
         \A l \in Lasting(Rootward(other)) : \E i \in Lasting(Rootward(path)) : g[i] = l,
         \A i \in Lasting(Rootward(path)) : Rootward(other)[g[i]] = Rootward(path)[i]
  PROVE  Segments(path) = Segments(other)
<1> DEFINE p == Rootward(path)
           q == Rootward(other)
           K == Lasting(p)
           L == Lasting(q)
<1>1. /\ Len(p) \in Nat /\ DOMAIN p = 1..Len(p)
      /\ Len(q) \in Nat /\ DOMAIN q = 1..Len(q)
  BY RootwardItems
<1>2. Segments(path) = ItemsAt(p, K) /\ Segments(other) = ItemsAt(q, L)
  BY <1>1 DEF Segments, Rootward, Lasting
<1>3. K \in SUBSET (1..Len(p)) /\ L \in SUBSET (1..Len(q))
  BY DEF Lasting
<1>4. ItemsAt(p, K) = ItemsAt(q, L)
  <2> HIDE DEF p, q, K, L
  <2>1. /\ g \in [K -> L]
        /\ \A i, j \in K : i < j => g[i] < g[j]
        /\ \A l \in L : \E i \in K : g[i] = l
        /\ \A i \in K : q[g[i]] = p[i]
    BY DEF p, q, K, L
  <2>2. Len(p) \in Nat /\ Len(q) \in Nat
    BY <1>1
  <2> QED
    BY ONLY <1>3, <2>1, <2>2, SameItems, Zenon
<1> QED
  BY <1>2, <1>4

\* A slash that is dropped follows one that is kept.
LEMMA HalvedBefore ==
  ASSUME NEW path \in Seq(Char), NEW m \in 1..Len(path), m \notin Halved(path)
  PROVE  path[m] = "/" /\ m - 1 \in Halved(path) /\ path[m - 1] = "/"
<1> DEFINE R(i) == {j \in 1..i : \A k \in j..i : path[k] = "/"}
<1>1. Len(path) \in Nat /\ m \in Nat /\ m > 0
  BY LenProperties
<1>2. path[m] = "/" /\ SlashesAt(path, m) % 2 # 1
  BY DEF Halved
<1>3. ASSUME NEW i \in Nat PROVE IsFiniteSet(R(i)) /\ SlashesAt(path, i) \in Nat
  <2>1. IsFiniteSet(1..i) /\ R(i) \in SUBSET (1..i)
    BY FS_Interval
  <2>2. IsFiniteSet(R(i))
    BY <2>1, FS_Subset
  <2> QED
    BY <2>2, FS_CardinalityType DEF SlashesAt
<1>4. R(m) = R(m - 1) \cup {m} /\ m \notin R(m - 1)
  <2>1. \A j \in 1..m : j = m \/ j \in 1..(m - 1)
    BY <1>1
  <2>2. m \notin 1..(m - 1) /\ m \in 1..m /\ 1..(m - 1) \subseteq 1..m
    BY <1>1
  <2>3. \A k \in m..m : k = m
    BY <1>1
  <2>4. ASSUME NEW j \in 1..(m - 1)
        PROVE  (\A k \in j..m : path[k] = "/") <=> \A k \in j..(m - 1) : path[k] = "/"
    <3>1. j..m = j..(m - 1) \cup {m}
      BY <1>1
    <3> QED
      BY <1>2, <3>1
  <2>5. m \in R(m)
    BY <1>2, <2>2, <2>3
  <2> QED
    BY <2>1, <2>2, <2>4, <2>5
<1>5. m - 1 \in Nat
  BY <1>1
<1>6. SlashesAt(path, m) = SlashesAt(path, m - 1) + 1
  <2> HIDE DEF R
  <2>1. Cardinality(R(m)) = Cardinality(R(m - 1)) + 1
    BY <1>3, <1>4, <1>5, FS_AddElement
  <2> QED
    BY <2>1 DEF SlashesAt, R
<1>7. SlashesAt(path, m - 1) % 2 = 1
  <2>1. \A n \in Nat : (n + 1) % 2 # 1 => n % 2 = 1
    OBVIOUS
  <2> QED
    BY <1>2, <1>3, <1>5, <1>6, <2>1
<1>8. R(m - 1) # {}
  <2>1. CASE R(m - 1) = {}
    <3>1. SlashesAt(path, m - 1) = 0
      BY <2>1, FS_EmptySet DEF SlashesAt
    <3> QED
      BY <1>7, <3>1
  <2> QED
    BY <2>1
<1>9. PICK j \in 1..(m - 1) : \A k \in j..(m - 1) : path[k] = "/"
  BY <1>8
<1>10. m - 1 \in j..(m - 1) /\ m - 1 \in 1..Len(path)
  BY <1>1, <1>9
<1> QED
  BY <1>2, <1>7, <1>9, <1>10 DEF Halved

\* Where ReplaceSlashes puts what is at each place of a path: places are
\* counted from 0, the slash that Segments puts in front.
LEMMA ReplacedItems ==
  ASSUME NEW path \in Seq(Char)
  PROVE  LET H == Halved(path)
             R == ReplaceSlashes(path)
         IN /\ R \in Seq(Char) /\ Len(R) = Cardinality(H)
            /\ \A m \in 0..Len(path) :
                 /\ RankIn(H, m) \in 0..Len(R)
                 /\ Rootward(R)[RankIn(H, m) + 1] = Rootward(path)[m + 1]
            /\ \A l \in 1..Len(R) : \E h \in H : RankIn(H, h) = l
<1> DEFINE H == Halved(path)
           R == ReplaceSlashes(path)
<1>1. Len(path) \in Nat /\ DOMAIN path = 1..Len(path)
  BY RootwardItems
<1>2. H \in SUBSET (1..Len(path)) /\ R = ItemsAt(path, H)
  BY <1>1 DEF Halved, ReplaceSlashes
<1> HIDE DEF H, R
<1>3. R \in Seq(Char) /\ Len(R) = Cardinality(H) /\ Cardinality(H) \in Nat
  BY <1>1, <1>2, ItemsType, RankGrows
<1>4. ASSUME NEW h \in H
      PROVE  RankIn(H, h) \in 1..Len(R) /\ Rootward(R)[RankIn(H, h) + 1] = Rootward(path)[h + 1]
  <2>1. RankIn(H, h) \in 1..Len(R)
    BY <1>1, <1>2, <1>3, RankNumbers
  <2>2. ItemsAt(path, H)[RankIn(H, h)] = path[h]
    BY ONLY <1>1, <1>2, h \in H, ItemAt, Zenon
  <2>3. Rootward(R)[RankIn(H, h) + 1] = R[RankIn(H, h)]
    BY <1>3, <2>1, RootwardItems
  <2>4. Rootward(path)[h + 1] = path[h]
    BY <1>2, RootwardItems
  <2> QED
    BY <1>2, <2>1, <2>2, <2>3, <2>4
<1>5. ASSUME NEW m \in 0..Len(path)
      PROVE  /\ RankIn(H, m) \in 0..Len(R)
             /\ Rootward(R)[RankIn(H, m) + 1] = Rootward(path)[m + 1]
  <2>1. m \in Nat
    BY <1>1
  <2>2. RankIn(H, m) \in 0..Len(R)
    BY <1>1, <1>2, <1>3, <2>1, RankGrows
  <2>3. CASE m \in H
    BY <1>4, <2>2, <2>3
  <2>4. CASE m = 0
    <3>1. RankIn(H, 0) = 0
      BY <1>1, <1>2, RankGrows
    <3>2. Rootward(R)[1] = "/" /\ Rootward(path)[1] = "/"
      BY <1>3, RootwardItems
    <3> QED
      BY <2>2, <2>4, <3>1, <3>2
  <2>5. CASE m \notin H /\ m # 0
    <3>1. m \in 1..Len(path)
      BY <1>1, <2>1, <2>5
    <3>2. path[m] = "/" /\ m - 1 \in H /\ path[m - 1] = "/"
      BY <2>5, <3>1, HalvedBefore DEF H
    <3>3. m - 1 \in Nat /\ m = (m - 1) + 1 /\ m - 1 \in 1..Len(path)
      BY <1>1, <1>2, <3>1, <3>2
    <3>4. RankIn(H, m) = RankIn(H, m - 1)
      BY <1>1, <1>2, <2>1, <2>5, RankNext
    <3>5. Rootward(path)[m] = "/" /\ Rootward(path)[m + 1] = "/"
      BY <3>1, <3>2, <3>3, RootwardItems
    <3> QED
      BY <1>4, <2>2, <3>2, <3>3, <3>4, <3>5
  <2> QED
    BY <2>3, <2>4, <2>5
<1>6. ASSUME NEW l \in 1..Len(R) PROVE \E h \in H : RankIn(H, h) = l
  <2>1. \A k \in 1..Cardinality(H) : \E h \in H : RankIn(H, h) = k
    BY <1>1, <1>2, RankNumbers
  <2> QED
    BY <1>3, <2>1
<1> QED
  BY <1>3, <1>5, <1>6 DEF H, R

\* Halving the runs of slashes keeps the segments.
LEMMA ReplacedSegments ==
  ASSUME NEW path \in Seq(Char)
  PROVE  ReplaceSlashes(path) \in Seq(Char) /\ Segments(path) = Segments(ReplaceSlashes(path))
<1> DEFINE H == Halved(path)
           R == ReplaceSlashes(path)
           p == Rootward(path)
           q == Rootward(R)
           K == Lasting(p)
           L == Lasting(q)
           G(i) == RankIn(H, i - 1) + 1
           g == [i \in K |-> G(i)]
<1>1. H \in SUBSET (1..Len(path))
  BY DEF Halved
<1>2. /\ Len(path) \in Nat /\ Len(p) = Len(path) + 1 /\ p[1] = "/"
      /\ \A m \in 1..Len(path) : p[m + 1] = path[m]
  BY RootwardItems
<1>3. /\ R \in Seq(Char)
      /\ \A m \in 0..Len(path) : RankIn(H, m) \in 0..Len(R) /\ q[RankIn(H, m) + 1] = p[m + 1]
      /\ \A l \in 1..Len(R) : \E h \in H : RankIn(H, h) = l
  BY ReplacedItems
<1>4. Len(R) \in Nat /\ Len(q) = Len(R) + 1 /\ q[1] = "/"
  <2> HIDE DEF R
  <2> QED
    BY <1>3, RootwardItems
<1>5. \A i : /\ i \in K <=> i \in 1..Len(p) /\ (p[i] = "/" => i < Len(p) /\ p[i + 1] # "/")
             /\ i \in L <=> i \in 1..Len(q) /\ (q[i] = "/" => i < Len(q) /\ q[i + 1] # "/")
  BY DEF Lasting
<1>6. \A m \in 1..Len(path) : path[m] # "/" => m \in H
  BY DEF Halved
<1>7. \A m \in 1..Len(path) : m \notin H => path[m] = "/" /\ m - 1 \in H /\ path[m - 1] = "/"
  BY HalvedBefore
<1> HIDE DEF H, R, p, q, K, L
<1>8. ASSUME NEW i \in 1..Len(p)
      PROVE  i - 1 \in 0..Len(path) /\ G(i) \in 1..Len(q) /\ q[G(i)] = p[i]
  <2>1. i - 1 \in 0..Len(path) /\ (i - 1) + 1 = i
    BY <1>2
  <2>2. RankIn(H, i - 1) \in 0..Len(R) /\ q[RankIn(H, i - 1) + 1] = p[i]
    BY <1>3, <2>1
  <2> QED
    BY <1>4, <2>1, <2>2
\* The item behind a place, if it is no slash, is behind it still.
<1>9. ASSUME NEW i \in 1..Len(path), p[i + 1] # "/"
      PROVE  i \in H /\ G(i) = RankIn(H, i) /\ G(i + 1) = G(i) + 1
  <2>1. i \in H /\ i \in Nat /\ i # 0 /\ i - 1 \in Nat /\ (i - 1) + 1 = i /\ (i + 1) - 1 = i
    BY <1>2, <1>6, <1>9
  <2>2. RankIn(H, i) = RankIn(H, i - 1) + 1
    BY <1>1, <1>2, <2>1, RankNext
  <2> QED
    BY <2>1, <2>2
<1>10. ASSUME NEW i \in K PROVE G(i) \in L
  <2>1. i \in 1..Len(p) /\ i \in Nat
    BY <1>2, <1>5
  <2>2. G(i) \in 1..Len(q) /\ q[G(i)] = p[i]
    BY <1>8, <2>1
  <2>3. CASE p[i] # "/"
    BY <1>5, <2>2, <2>3
  <2>4. CASE p[i] = "/"
    <3>1. i \in 1..Len(path) /\ p[i + 1] # "/" /\ i + 1 \in 1..Len(p)
      BY <1>2, <1>5, <2>1, <2>4
    <3>2. G(i + 1) \in 1..Len(q) /\ q[G(i + 1)] # "/" /\ G(i + 1) = G(i) + 1
      BY <1>8, <1>9, <3>1
    <3>3. G(i) < Len(q) /\ q[G(i) + 1] # "/"
      <4> HIDE DEF G
      <4> QED
        BY <1>4, <2>2, <3>2
    <3> QED
      BY <1>5, <2>2, <3>3
  <2> QED
    BY <2>3, <2>4
<1>11. ASSUME NEW i \in K, NEW j \in K, i < j PROVE G(i) < G(j)
  <2> DEFINE m == i - 1
             n == j - 1
  <2>1. /\ i \in 1..Len(p) /\ j \in 1..Len(p)
        /\ m \in Nat /\ n \in Nat /\ m < n /\ n \in 1..Len(path)
        /\ m + 1 = i /\ n + 1 = j
    BY <1>2, <1>5, <1>11
  <2>2. RankIn(H, m) \in Nat /\ RankIn(H, n) \in Nat
    BY <1>3, <1>4, <1>8, <2>1
  <2>3. RankIn(H, m) < RankIn(H, n)
    <3>1. CASE n \in H
      BY <1>1, <1>2, <2>1, <3>1, RankGrows
    <3>2. CASE n \notin H
      <4>1. path[n] = "/" /\ n - 1 \in H /\ path[n - 1] = "/"
        BY <1>7, <2>1, <3>2
      <4>2. n - 1 \in Nat /\ n - 1 \in 1..Len(path) /\ (n - 1) + 1 = n
        BY <1>1, <1>2, <2>1, <4>1
      <4>3. m # n - 1
        <5> SUFFICES ASSUME m = n - 1 PROVE FALSE
          OBVIOUS
        <5>1. p[i] = "/" /\ p[i + 1] = "/"
          BY <1>2, <2>1, <4>1, <4>2
        <5> QED
          BY <1>5, <5>1
      <4>4. m < n - 1 /\ n - 1 <= n
        BY <2>1, <4>2, <4>3
      <4>5. RankIn(H, m) < RankIn(H, n - 1)
        BY <1>1, <1>2, <2>1, <4>1, <4>2, <4>4, RankGrows
      <4>6. RankIn(H, n - 1) <= RankIn(H, n)
        BY <1>1, <1>2, <2>1, <4>2, <4>4, RankGrows
      <4>7. RankIn(H, n - 1) \in Nat
        BY <1>3, <1>4, <4>2
      <4> QED
        BY <2>2, <4>5, <4>6, <4>7
    <3> QED
      BY <3>1, <3>2
  <2> QED
    BY <2>2, <2>3
<1>12. ASSUME NEW l \in L PROVE \E i \in K : G(i) = l
  <2>1. l \in 1..Len(q) /\ l \in Nat /\ l > 0
    BY <1>4, <1>5
  <2>2. CASE q[l] # "/"
    <3>1. l - 1 \in 1..Len(R)
      BY <1>4, <2>1, <2>2
    <3>2. PICK h \in H : RankIn(H, h) = l - 1
      BY <1>3, <3>1
    <3>3. h + 1 \in 1..Len(p) /\ (h + 1) - 1 = h
      BY <1>1, <1>2
    <3>4. G(h + 1) = l
      BY <2>1, <3>2, <3>3
    <3>5. p[h + 1] # "/"
      BY <1>8, <2>2, <3>3, <3>4
    <3> QED
      BY <1>5, <3>3, <3>4, <3>5
  <2>3. CASE q[l] = "/"
    <3>1. l < Len(q) /\ q[l + 1] # "/"
      BY <1>5, <2>3
    <3>2. l \in 1..Len(R)
      BY <1>4, <2>1, <3>1
    <3>3. PICK h \in H : RankIn(H, h) = l
      BY <1>3, <3>2
    <3>4. h \in 1..Len(path) /\ h \in 0..Len(path) /\ h \in 1..Len(p)
      BY <1>1, <1>2
    <3>5. p[h + 1] # "/"
      BY <1>3, <3>1, <3>3, <3>4
    <3>6. G(h) = l
      BY <1>9, <3>3, <3>4, <3>5
    <3>7. h < Len(p)
      BY <1>2, <3>4
    <3> QED
      BY <1>5, <3>4, <3>5, <3>6, <3>7
  <2> QED
    BY <2>2, <2>3
<1>13. /\ g \in [K -> L]
       /\ \A i, j \in K : i < j => g[i] < g[j]
       /\ \A l \in L : \E i \in K : g[i] = l
       /\ \A i \in K : q[g[i]] = p[i]
  <2>1. \A i \in K : q[G(i)] = p[i]
    BY <1>5, <1>8
  <2> HIDE DEF G
  <2> QED
    BY <1>10, <1>11, <1>12, <2>1
<1>14. Segments(path) = Segments(R)
  <2> HIDE DEF g
  <2> QED
    BY ONLY <1>3, <1>13, path \in Seq(Char), SameSegments, Zenon DEF p, q, K, L
<1> QED
  BY <1>3, <1>14 DEF R

\* So does a slash that is put in front of a path without one.
LEMMA RootedSegments ==
  ASSUME NEW path \in Seq(Char)
  PROVE  /\ Rooted(path) \in Seq(Char) /\ Segments(path) = Segments(Rooted(path))
         /\ Rooted(path) # <<>> => Rooted(path)[1] = "/"
<1>1. CASE Rooted(path) = path
  <2>1. path # <<>> => path[1] = "/"
    <3> SUFFICES ASSUME path # <<>>, Head(path) # "/" PROVE FALSE
      OBVIOUS
    <3>1. path = Rootward(path)
      BY <1>1 DEF Rooted, Rootward
    <3>2. Len(path) = Len(path) + 1 /\ Len(path) \in Nat
      BY <3>1, RootwardItems
    <3> QED
      BY <3>2
  <2> QED
    BY <1>1, <2>1
<1>2. CASE Rooted(path) # path
  <2> DEFINE R == Rootward(path)
             q == Rootward(R)
             K == Lasting(R)
             L == Lasting(q)
             g == [i \in K |-> i + 1]
  <2>1. path # <<>> /\ Head(path) # "/" /\ Rooted(path) = R
    BY <1>2 DEF Rooted, Rootward
  <2>2. /\ R \in Seq(Char) /\ Len(path) \in Nat /\ Len(R) = Len(path) + 1 /\ R[1] = "/"
        /\ \A i \in 1..Len(path) : R[i + 1] = path[i]
    BY RootwardItems
  <2>3. Len(path) > 0 /\ R[2] # "/"
    <3>1. Len(path) > 0 /\ path[1] # "/"
      BY <2>1, <2>2, EmptySeq
    <3> QED
      BY <2>2, <3>1
  <2> HIDE DEF R
  <2>4. /\ Len(q) = Len(R) + 1 /\ q[1] = "/" /\ Len(R) \in Nat
        /\ \A i \in 1..Len(R) : q[i + 1] = R[i]
    BY <2>2, RootwardItems
  <2>5. \A i : /\ i \in K <=> i \in 1..Len(R) /\ (R[i] = "/" => i < Len(R) /\ R[i + 1] # "/")
               /\ i \in L <=> i \in 1..Len(q) /\ (q[i] = "/" => i < Len(q) /\ q[i + 1] # "/")
    BY DEF Lasting
  <2> HIDE DEF q, K, L
  <2>6. 1 \notin L
    BY <2>2, <2>4, <2>5
  <2>7. ASSUME NEW i \in 1..Len(R) PROVE i \in K <=> i + 1 \in L
    <3>1. q[i + 1] = R[i] /\ i + 1 \in 1..Len(q) /\ (i + 1 < Len(q) <=> i < Len(R))
      BY <2>4
    <3>2. i < Len(R) => q[(i + 1) + 1] = R[i + 1]
      BY <2>4
    <3> QED
      BY <2>5, <3>1, <3>2
  <2>8. K \subseteq 1..Len(R) /\ L \subseteq 1..Len(q)
    BY <2>5
  <2>9. ASSUME NEW l \in L PROVE \E i \in K : i + 1 = l
    <3>1. l - 1 \in 1..Len(R) /\ (l - 1) + 1 = l
      BY <2>4, <2>6, <2>8
    <3> QED
      BY <2>7, <3>1
  <2>10. /\ g \in [K -> L]
         /\ \A i, j \in K : i < j => g[i] < g[j]
         /\ \A l \in L : \E i \in K : g[i] = l
         /\ \A i \in K : q[g[i]] = R[i]
    <3>1. \A i \in K : i + 1 \in L /\ q[i + 1] = R[i]
      BY <2>4, <2>7, <2>8
    <3>2. \A i, j \in K : i < j => i + 1 < j + 1
      BY <2>4, <2>8
    <3> QED
      BY <2>9, <3>1, <3>2
  <2>11. Segments(path) = Segments(R)
    <3> HIDE DEF g
    <3> QED
      BY ONLY <2>2, <2>10, path \in Seq(Char), SameSegments, Zenon DEF R, q, K, L
  <2> QED
    BY <2>1, <2>2, <2>11
<1> QED
  BY <1>1, <1>2

\* And so does dropping a slash at the end.
LEMMA TrimmedSegments ==
  ASSUME NEW path \in Seq(Char)
  PROVE  /\ path # <<>> /\ Last(path) = "/" => /\ Front(path) \in Seq(Char)
                                               /\ Segments(path) = Segments(Front(path))
         /\ TrimSlash(path) \in Seq(Char) /\ Segments(path) = Segments(TrimSlash(path))
         /\ path # <<>> /\ path[1] = "/" => TrimSlash(path)[1] = "/"
<1>1. ASSUME path # <<>>, Last(path) = "/"
      PROVE  /\ Front(path) \in Seq(Char) /\ Segments(path) = Segments(Front(path))
             /\ Len(path) \in Nat /\ (Len(path) > 1 => Front(path)[1] = path[1])
  <2> DEFINE R == Front(path)
             n == Len(path)
             p == Rootward(path)
             q == Rootward(R)
             K == Lasting(p)
             L == Lasting(q)
             g == [i \in K |-> i]
  <2>1. /\ n \in Nat /\ n > 0 /\ Len(p) = n + 1 /\ p[1] = "/"
        /\ \A i \in 1..n : p[i + 1] = path[i] /\ path[i] \in Char
    BY <1>1, RootwardItems, EmptySeq
  <2>2. path[n] = "/"
    BY <1>1 DEF Last
  <2>3. /\ R \in Seq(Char) /\ Len(R) = n - 1
        /\ \A i \in 1..(n - 1) : R[i] = path[i]
    <3> DEFINE t == SubSeq(path, 1, n - 1)
    <3>1. 1 \in Int /\ n - 1 \in Int /\ \A i \in 1..(n - 1) : path[i] \in Char
      BY <2>1
    <3>2. /\ t \in Seq(Char) /\ Len(t) = (IF 1 <= n - 1 THEN (n - 1) - 1 + 1 ELSE 0)
          /\ \A i \in 1..((n - 1) - 1 + 1) : t[i] = path[1 + i - 1]
      BY <3>1, SubSeqProperties
    <3>3. R = t
      BY DEF Front
    <3> HIDE DEF R, t
    <3>4. Len(t) = n - 1
      <4>1. \A k \in Nat : k > 0 => (IF 1 <= k - 1 THEN (k - 1) - 1 + 1 ELSE 0) = k - 1
        OBVIOUS
      <4> QED
        BY <2>1, <3>2, <4>1
    <3>5. \A i \in 1..(n - 1) : i \in 1..((n - 1) - 1 + 1) /\ 1 + i - 1 = i
      BY <2>1
    <3> QED
      BY <3>2, <3>3, <3>4, <3>5
  <2> HIDE DEF R, n
  <2>4. /\ Len(q) = n /\ q[1] = "/"
        /\ \A i \in 1..(n - 1) : q[i + 1] = R[i]
    BY <2>1, <2>3, RootwardItems
  <2>5. \A i \in 1..n : q[i] = p[i]
    <3>1. ASSUME NEW i \in 1..n PROVE q[i] = p[i]
      <4>1. CASE i = 1
        BY <2>1, <2>4, <4>1
      <4>2. CASE i # 1
        <5>1. i - 1 \in 1..(n - 1) /\ i - 1 \in 1..n /\ (i - 1) + 1 = i
          BY <2>1, <4>2
        <5> QED
          BY <2>1, <2>3, <2>4, <5>1
      <4> QED
        BY <4>1, <4>2
    <3> QED
      BY <3>1
  <2>6. p[n + 1] = "/"
    BY <2>1, <2>2
  <2>7. \A i : /\ i \in K <=> i \in 1..Len(p) /\ (p[i] = "/" => i < Len(p) /\ p[i + 1] # "/")
               /\ i \in L <=> i \in 1..Len(q) /\ (q[i] = "/" => i < Len(q) /\ q[i + 1] # "/")
    BY DEF Lasting
  <2> HIDE DEF p, q, K, L
  <2>8. ASSUME NEW i PROVE i \in K <=> i \in L
    <3>1. CASE i \in 1..(n - 1)
      <4>1. /\ i \in 1..(n + 1) /\ i \in 1..n /\ i + 1 \in 1..n
            /\ i < n + 1 /\ i < n
        BY <2>1, <3>1
      <4> QED
        BY <2>1, <2>4, <2>5, <2>7, <4>1
    <3>2. CASE i = n
      <4>1. n \in 1..n /\ n \in 1..(n + 1) /\ ~(n < n)
        BY <2>1
      <4> QED
        BY <2>1, <2>4, <2>5, <2>6, <2>7, <3>2, <4>1
    <3>3. CASE i = n + 1
      <4>1. ~(n + 1 < n + 1) /\ n + 1 \notin 1..n
        BY <2>1
      <4> QED
        BY <2>1, <2>4, <2>6, <2>7, <3>3, <4>1
    <3>4. CASE i \notin 1..(n + 1)
      <4>1. i \notin 1..n
        BY <2>1, <3>4
      <4> QED
        BY <2>1, <2>4, <2>7, <3>4, <4>1
    <3>5. i \in 1..(n + 1) => i \in 1..(n - 1) \/ i = n \/ i = n + 1
      BY <2>1
    <3> QED
      BY <3>1, <3>2, <3>3, <3>4, <3>5
  <2>9. K = L
    BY <2>8
  <2>10. \A i \in K : q[i] = p[i]
    <3>1. \A i \in L : i \in 1..n
      BY <2>4, <2>7
    <3> QED
      BY <2>5, <2>9, <3>1
  <2>11. /\ g \in [K -> L]
         /\ \A i, j \in K : i < j => g[i] < g[j]
         /\ \A l \in L : \E i \in K : g[i] = l
         /\ \A i \in K : q[g[i]] = p[i]
    BY <2>9, <2>10
  <2>12. Segments(path) = Segments(R)
    <3> HIDE DEF g
    <3> QED
      BY ONLY <2>3, <2>11, path \in Seq(Char), SameSegments, Zenon DEF p, q, K, L
  <2>13. n > 1 => R[1] = path[1]
    BY <2>1, <2>3
  <2> QED
    BY <2>1, <2>3, <2>12, <2>13 DEF R, n
<1>2. ASSUME path # <<"/">>, path # <<>>, Last(path) = "/" PROVE Len(path) > 1
  <2>1. Len(path) \in Nat \ {0} /\ path \in [1..Len(path) -> Char]
    BY <1>2, EmptySeq, LenProperties
  <2> SUFFICES ASSUME Len(path) = 1 PROVE FALSE
    BY <2>1
  <2>2. path[1] = "/"
    BY <1>2 DEF Last
  <2> QED
    BY <1>2, <2>1, <2>2
<1>3. TrimSlash(path) \in {path, Front(path)}
  BY DEF TrimSlash
<1> QED
  BY <1>1, <1>2 DEF TrimSlash

\* normalizePath keeps the segments, and what is left of a path is rooted.
LEMMA NormalizedSegments ==
  ASSUME NEW path \in Seq(Char)
  PROVE  /\ Segments(NormalizePath(path)) = Segments(path)
         /\ NormalizePath(path) # <<>> => Head(NormalizePath(path)) = "/"
<1> DEFINE a == ReplaceSlashes(path)
           b == Rooted(a)
           c == TrimSlash(b)
<1>1. CASE path = <<>>
  BY <1>1 DEF NormalizePath
<1>2. CASE path = <<"/">>
  <2>1. path # <<>> /\ Last(path) = "/" /\ Front(path) = <<>>
    BY <1>2 DEF Last, Front
  <2>2. NormalizePath(path) = <<>>
    BY <1>2 DEF NormalizePath
  <2> QED
    BY <2>1, <2>2, TrimmedSegments
<1>3. CASE path \notin {<<>>, <<"/">>}
  <2>1. a \in Seq(Char) /\ Segments(a) = Segments(path)
    BY ReplacedSegments
  <2>2. b \in Seq(Char) /\ Segments(b) = Segments(a) /\ (b # <<>> => b[1] = "/")
    BY <2>1, RootedSegments
  <2>3. c \in Seq(Char) /\ Segments(c) = Segments(b)
    BY <2>2, TrimmedSegments
  <2>4. NormalizePath(path) = c
    BY <1>3 DEF NormalizePath
  <2>5. ASSUME c # <<>> PROVE c[1] = "/"
    <3>1. b = <<>> => c = b
      BY DEF TrimSlash
    <3> QED
      BY <2>2, <2>5, <3>1, TrimmedSegments
  <2>6. c # <<>> => Head(c) = c[1]
    BY <2>3
  <2> QED
    BY <2>1, <2>2, <2>3, <2>4, <2>5, <2>6
<1> QED
  BY <1>1, <1>2, <1>3

-----------------------------------------------------------------------------
LEMMA InitInv == HandlerInit => HandlerInv
BY DEF HandlerInit, HandlerInv, HandlerTypeOK, StoredValid, AnswerFits,
   AcceptedIsServed, Redirected

LEMMA CreateKeeps ==
  ASSUME HandlerInv, CreateRedirect
  PROVE  HandlerInv'
<1>1. PICK cmd \in Command : doc' = Accepted(cmd)
  BY DEF CreateRedirect
<1>2. cmd \in Redirect
  BY InputAssumption
<1>3. doc' \in Redirect /\ ~doc'.source.upper /\ ~doc'.target.upper
  BY <1>1, <1>2, LowerCase DEF Accepted, Redirect
<1>4. step = "idle" /\ UNCHANGED <<step, request, up, result, answer, queued>>
  BY DEF CreateRedirect
<1> QED
  BY <1>3, <1>4 DEF HandlerInv, HandlerTypeOK, StoredValid, AnswerFits,
     AcceptedIsServed, Redirected

LEMMA ReceiveKeeps ==
  ASSUME HandlerInv, Receive
  PROVE  HandlerInv'
<1>1. request' \in HTTPRequest /\ request' # Unset
  BY InputAssumption, UnsetAssumption DEF Receive
<1> QED
  BY <1>1 DEF Receive, HandlerInv, HandlerTypeOK, StoredValid, AnswerFits,
     AcceptedIsServed, Redirected

\* Answers that redirect nowhere keep all but what they have to explain.
LEMMA ReplyKeeps ==
  ASSUME HandlerInv, NEW status, Reply(status), step \in {"received", "found"},
         status \notin {301, 302, 307, 308}, AcceptedIsServed'
  PROVE  HandlerInv'
<1>1. ~Redirected /\ ~Redirected' /\ ~queued /\ queued' = queued
  BY DEF Reply, Redirected, HandlerInv, HandlerTypeOK
<1> QED
  BY <1>1 DEF Reply, HandlerInv, HandlerTypeOK, StoredValid, AnswerFits

LEMMA RefusalKeeps ==
  ASSUME HandlerInv, TooManyRequests \/ Preflight \/ RefuseRequest \/ LookupFails
  PROVE  HandlerInv'
<1>1. CASE TooManyRequests
  <2>1. step = "received" /\ Reply(429)
    BY <1>1 DEF TooManyRequests
  <2>2. AcceptedIsServed'
    BY <2>1 DEF Reply, AcceptedIsServed
  <2> QED
    BY <2>1, <2>2, ReplyKeeps
<1>2. CASE Preflight
  <2>1. step = "received" /\ Reply(200) /\ request.method = "OPTIONS"
    BY <1>2 DEF Preflight
  <2>2. AcceptedIsServed'
    BY <2>1 DEF Reply, AcceptedIsServed
  <2> QED
    BY <2>1, <2>2, ReplyKeeps
<1>3. CASE RefuseRequest
  <2>1. step = "received" /\ Reply(Refusal(request)) /\ Refusal(request) # 0
    BY <1>3 DEF RefuseRequest
  <2>2. AcceptedIsServed'
    BY <2>1 DEF Reply, AcceptedIsServed
  <2> QED
    BY <2>1, <2>2, ReplyKeeps, StatusesApart
<1>4. CASE LookupFails
  <2>1. step = "received" /\ Reply(500) /\ ~up
    BY <1>4 DEF LookupFails, LooksUp
  <2>2. AcceptedIsServed'
    BY <2>1 DEF Reply, AcceptedIsServed
  <2> QED
    BY <2>1, <2>2, ReplyKeeps
<1> QED
  BY <1>1, <1>2, <1>3, <1>4

\* A request whose redirect is not found was for the source of no redirect, or
\* for one with blanks around it.
LEMMA MissKeeps ==
  ASSUME HandlerInv, LookupMisses
  PROVE  HandlerInv'
<1>1. /\ step = "received" /\ Reply(500) /\ ~Matching(LookupKey(request))
      /\ request \in HTTPRequest
  BY DEF LookupMisses, LooksUp, HandlerInv, HandlerTypeOK
<1>2. ASSUME doc # Unset, doc.status = "active", request.host # Unset,
             EqualFold(request.host.domain, TrimSpace(doc.source))
      PROVE  doc.source.padded
  <2> SUFFICES ASSUME ~doc.source.padded PROVE FALSE
    OBVIOUS
  <2>1. request.host.domain \in HostName /\ doc.source \in HostName /\ ~doc.source.upper
    BY <1>1, <1>2 DEF HTTPRequest, HandlerInv, StoredValid, Redirect
  <2>2. LookupKey(request) = doc.source
    BY <1>2, <2>1, KeyFits DEF LookupKey
  <2> QED
    BY <1>1, <1>2, <2>2 DEF Matching
<1>3. AcceptedIsServed'
  BY <1>1, <1>2 DEF Reply, AcceptedIsServed
<1> QED
  BY <1>1, <1>3, ReplyKeeps

LEMMA FoundKeeps ==
  ASSUME HandlerInv, LookupFinds
  PROVE  HandlerInv'
<1>1. /\ step = "received" /\ step' = "found" /\ doc # Unset
      /\ result'.target = doc.target /\ result'.tags = doc.tags
      /\ result'.type \in {doc.type, Unset}
      /\ UNCHANGED <<doc, request, up, answer, queued>>
  BY DEF LookupFinds, LooksUp, Matching
<1> QED
  BY <1>1 DEF HandlerInv, HandlerTypeOK, StoredValid, AnswerFits,
     AcceptedIsServed, Redirected

LEMMA InvalidURLKeeps ==
  ASSUME HandlerInv, InvalidRedirectURL
  PROVE  HandlerInv'
<1>1. /\ step = "found" /\ Reply(400) /\ doc \in Redirect /\ request \in HTTPRequest
      /\ result.target = doc.target /\ result.tags = doc.tags
      /\ BuildFails(request, result) \/ Has(request.path, "%")
  BY DEF InvalidRedirectURL, HandlerInv, HandlerTypeOK, StoredValid
<1>2. \/ BuildFails(request, PlainRedirect(doc))
      \/ BuildFails(PlainRequest(request), doc)
      \/ TooLong(Location(request, doc))
      \/ Has(request.path, "%")
  BY <1>1, BuildReads, BuildSplits
<1>3. AcceptedIsServed'
  BY <1>1, <1>2 DEF Reply, AcceptedIsServed
<1> QED
  BY <1>1, <1>3, ReplyKeeps

LEMMA PerformKeeps ==
  ASSUME HandlerInv, PerformRedirect
  PROVE  HandlerInv'
<1>1. /\ step = "found" /\ step' = "answered" /\ queued' = TRUE
      /\ answer' = [status |-> RedirectStatus(result.type, request.method),
                     location |-> Location(request, result)]
      /\ UNCHANGED <<doc, request, up, result>>
  BY DEF PerformRedirect
<1>2. Redirected'
  BY <1>1, StatusesApart DEF Redirected
<1> QED
  BY <1>1, <1>2 DEF HandlerInv, HandlerTypeOK, StoredValid, AnswerFits, AcceptedIsServed

LEMMA FinishKeeps ==
  ASSUME HandlerInv, Finish
  PROVE  HandlerInv'
BY DEF Finish, HandlerInv, HandlerTypeOK, StoredValid, AnswerFits,
   AcceptedIsServed, Redirected

LEMMA HandlerInvariant == HandlerSpec => []HandlerInv
<1>1. HandlerInv /\ [HandlerNext]_handlerVars => HandlerInv'
  <2> SUFFICES ASSUME HandlerInv, [HandlerNext]_handlerVars PROVE HandlerInv'
    OBVIOUS
  <2>1. CASE UNCHANGED handlerVars
    BY <2>1 DEF handlerVars, HandlerInv, HandlerTypeOK, StoredValid, AnswerFits,
       AcceptedIsServed, Redirected
  <2> QED
    BY <2>1, CreateKeeps, ReceiveKeeps, RefusalKeeps, MissKeeps, FoundKeeps,
       InvalidURLKeeps, PerformKeeps, FinishKeeps DEF HandlerNext
<1> QED
  BY <1>1, InitInv, PTL DEF HandlerSpec

-----------------------------------------------------------------------------
(* A hit is queued for exactly the requests that are redirected, and what  *)
(* was found is what the store has.                                        *)
THEOREM HandlerTypeCorrect == HandlerSpec => []HandlerTypeOK
<1>1. HandlerInv => HandlerTypeOK
  BY DEF HandlerInv
<1> QED
  BY <1>1, HandlerInvariant, PTL

(* Nothing but the reasons that AcceptedIsServed names comes between a     *)
(* redirect that the API has accepted and a request for it.                *)
THEOREM ServedUnlessRefused == HandlerSpec => []AcceptedIsServed
<1>1. HandlerInv => AcceptedIsServed
  BY DEF HandlerInv
<1> QED
  BY <1>1, HandlerInvariant, PTL

(* Methods with a body get 307 or 308, others do not, and a redirect whose *)
(* type is known is as permanent as it was configured.                     *)
THEOREM MethodPreserved == HandlerSpec => []MethodKept
<1>1. HandlerInv => MethodKept
  <2> SUFFICES ASSUME HandlerInv, Redirected PROVE
        /\ answer.status \in {307, 308} <=> request.method = "POST"
        /\ result.type # Unset => (answer.status \in {301, 308} <=> doc.type = "301")
    BY DEF MethodKept
  <2>1. /\ answer.status = RedirectStatus(result.type, request.method)
        /\ result.type \in {doc.type, Unset} /\ doc \in Redirect
    BY DEF HandlerInv, HandlerTypeOK, StoredValid, AnswerFits
  <2>2. doc.type \in {"301", "302"}
    BY <2>1 DEF Redirect
  <2>3. answer.status \in {307, 308} <=> request.method = "POST"
    BY <2>1 DEF RedirectStatus, Fallback
  <2>4. result.type # Unset => (answer.status \in {301, 308} <=> doc.type = "301")
    BY <2>1, <2>2 DEF RedirectStatus
  <2> QED
    BY <2>3, <2>4
<1> QED
  BY <1>1, HandlerInvariant, PTL

(* The client comes to the target with the segments of the path that it    *)
(* asked for, the tags, and its own parameters of other names, for paths   *)
(* of any length and any number of slashes in a row.                       *)
THEOREM RequestKept == HandlerSpec => []LocationKeepsRequest
<1>1. HandlerInv => LocationKeepsRequest
  <2> SUFFICES ASSUME HandlerInv, Redirected PROVE
        LET loc == answer.location IN
        /\ loc.target = ToLower(doc.target)
        /\ loc.path # <<>> => Head(loc.path) = "/"
        /\ Segments(loc.path) = Segments(request.path)
        /\ \A n \in TagName \cup {"ref", "token"} :
             ValuesOf(loc.params, n) = IF n \in DOMAIN doc.tags
                                         THEN {doc.tags[n]}
                                         ELSE ValuesOf(request.params, n)
    BY DEF LocationKeepsRequest
  <2> DEFINE loc == answer.location
  <2>1. /\ loc.target = ToLower(doc.target)
        /\ loc.path = NormalizePath(request.path)
        /\ loc.params = WithTags(request.params, doc.tags)
    <3>1. loc = Location(request, result)
      BY DEF HandlerInv, AnswerFits
    <3>2. result.target = doc.target /\ result.tags = doc.tags
      BY DEF HandlerInv, HandlerTypeOK
    <3> QED
      BY <3>1, <3>2 DEF Location
  <2>2. request.path \in Seq(Char)
    <3>1. request \in HTTPRequest
      BY DEF HandlerInv, HandlerTypeOK, Redirected
    <3> QED
      BY <3>1 DEF HTTPRequest
  <2>3. /\ Segments(loc.path) = Segments(request.path)
        /\ loc.path # <<>> => Head(loc.path) = "/"
    BY <2>1, <2>2, NormalizedSegments
  <2>4. ASSUME NEW n
        PROVE  ValuesOf(loc.params, n) = IF n \in DOMAIN doc.tags
                                           THEN {doc.tags[n]}
                                           ELSE ValuesOf(request.params, n)
    BY <2>1, TagsReplace
  <2> QED
    BY <2>1, <2>3, <2>4
<1> QED
  BY <1>1, HandlerInvariant, PTL
=============================================================================
