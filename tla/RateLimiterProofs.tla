------------------------- MODULE RateLimiterProofs --------------------------
(***************************************************************************)
(* Theorems about RateLimiter, for every limit, window, number of clients  *)
(* and requests, and every cleanup interval of at least half a window.     *)
(***************************************************************************)
EXTENDS RateLimiter, FiniteSetTheorems, TLAPS

\* A part of a finite set is finite and no larger.
LEMMA PartCardinality ==
  ASSUME NEW S, IsFiniteSet(S), NEW T, T \subseteq S
  PROVE  /\ IsFiniteSet(T) /\ Cardinality(S) \in Nat /\ Cardinality(T) \in Nat
         /\ Cardinality(T) <= Cardinality(S)
<1>1. T \in SUBSET S
  OBVIOUS
<1>2. IsFiniteSet(T) /\ Cardinality(T) <= Cardinality(S)
  BY <1>1, FS_Subset
<1> QED
  BY <1>2, FS_CardinalityType

\* A part of the union of two sets is no larger than both together.
LEMMA CoverCardinality ==
  ASSUME NEW S, IsFiniteSet(S), NEW T, IsFiniteSet(T), NEW U, U \subseteq S \cup T
  PROVE  Cardinality(U) <= Cardinality(S) + Cardinality(T)
<1>1. IsFiniteSet(S \cup T)
      /\ Cardinality(S \cup T) = Cardinality(S) + Cardinality(T) - Cardinality(S \cap T)
  BY FS_Union
<1>2. Cardinality(U) \in Nat /\ Cardinality(U) <= Cardinality(S \cup T)
  BY <1>1, PartCardinality
<1>3. Cardinality(S) \in Nat /\ Cardinality(T) \in Nat /\ Cardinality(S \cap T) \in Nat
  <2>1. IsFiniteSet(S \cap T)
    BY FS_Intersection
  <2> QED
    BY <2>1, FS_CardinalityType
<1> QED
  BY <1>1, <1>2, <1>3

\* One more element adds one, if it is new.
LEMMA OneMoreCardinality ==
  ASSUME NEW S, IsFiniteSet(S), NEW x
  PROVE  /\ IsFiniteSet(S \cup {x}) /\ Cardinality(S) \in Nat
         /\ Cardinality(S \cup {x}) <= Cardinality(S) + 1
         /\ x \notin S => Cardinality(S \cup {x}) = Cardinality(S) + 1
<1>1. Cardinality(S) \in Nat
  BY FS_CardinalityType
<1> QED
  BY <1>1, FS_AddElement

-----------------------------------------------------------------------------
\* What a client was granted in its present window, and in the stretch of a
\* window's length before it.
Spent(ip, e) == {a \in admitted : a.ip = ip /\ e.windowStart <= a.at}
Before(ip, e) ==
  {a \in admitted : a.ip = ip /\ a.at < e.windowStart /\ e.windowStart < a.at + Window}

Past == \A a \in admitted \cup refused : a.at <= now

\* A client without an entry was granted nothing for a window's length.
Quiet == \A a \in admitted : entries[a.ip] = None => a.at + Window <= now

Seen == \A a \in admitted : entries[a.ip] # None => a.at <= entries[a.ip].lastSeen

\* The counter is the number of requests granted in the window.
Counted ==
  \A ip \in IP : entries[ip] # None =>
    /\ Cardinality(Spent(ip, entries[ip])) = entries[ip].requests
    /\ Cardinality(Before(ip, entries[ip])) <= Quota

\* The inductive invariant.
RateInv ==
  /\ RateTypeOK /\ IsFiniteSet(admitted)
  /\ Past /\ Quiet /\ Seen /\ Counted
  /\ TwiceTheLimit /\ RefusedOnlyWhenFull

\* The quota is the limit, but never less than one.
LEMMA QuotaFact == Quota \in Nat /\ Quota >= 1 /\ Limit <= Quota
  BY LimitAssumption DEF Quota

\* Nobody has an entry and nothing was granted.
LEMMA InitRateInv == RateInit => RateInv
<1> SUFFICES ASSUME RateInit PROVE RateInv
  OBVIOUS
<1>1. RateTypeOK
  BY MaxTimeAssumption DEF RateInit, RateTypeOK, Time
<1>2. IsFiniteSet(admitted)
  BY FS_EmptySet DEF RateInit
<1>3. TwiceTheLimit
  <2>1. \A ip \in IP, t \in Time : Between(ip, t, t + Window) = {}
    BY DEF RateInit, Between
  <2> QED
    BY <2>1, FS_EmptySet, QuotaFact DEF TwiceTheLimit
<1> QED
  BY <1>1, <1>2, <1>3 DEF RateInit, RateInv, Past, Quiet, Seen, Counted, RefusedOnlyWhenFull

-----------------------------------------------------------------------------
\* A request that is let through: what holds whatever entry it leaves.
LEMMA AdmitStep ==
  ASSUME RateInv, NEW q \in Request, NEW ip \in IP, NEW e \in RateLimiterEntry,
         Arrives(q), Admit(q, ip, e), e.lastSeen = now,
         e.requests \in 1..Quota, e.windowStart <= now, now < e.windowStart + Window,
         Cardinality(Spent(ip, e)') = e.requests,
         Cardinality(Before(ip, e)') <= Quota,
         \A t \in Time : t <= now /\ now < t + Window
                         => Cardinality(Between(ip, t, t + Window)) < 2 * Quota
  PROVE  RateInv'
<1> DEFINE x == [request |-> q, ip |-> ip, at |-> now]
<1>0. /\ admitted' = admitted \cup {x} /\ now' = now /\ refused' = refused
      /\ entries' = [entries EXCEPT ![ip] = e]
      /\ entries \in [IP -> RateLimiterEntry \cup {None}]
      /\ now \in Time /\ admitted \subseteq Answer /\ refused \subseteq Answer
      /\ x \in Answer
  BY DEF Admit, RateInv, RateTypeOK, Answer
<1>fin. IsFiniteSet(admitted)
  BY DEF RateInv
<1> HIDE DEF x
<1>x. x.ip = ip /\ x.at = now
  BY DEF x
<1>e. entries'[ip] = e /\ e # None /\ \A j \in IP \ {ip} : entries'[j] = entries[j]
  BY <1>0, NoneAssumption
<1>1. RateTypeOK'
  <2>1. entries' \in [IP -> RateLimiterEntry \cup {None}]
    BY <1>0
  <2>2. ASSUME NEW j \in IP, entries'[j] # None
        PROVE  /\ entries'[j].requests \in 1..Quota
               /\ entries'[j].windowStart <= entries'[j].lastSeen
               /\ entries'[j].lastSeen <= now
               /\ entries'[j].lastSeen < entries'[j].windowStart + Window
    <3>1. CASE j = ip
      BY <3>1, <1>e, <1>0 DEF Time
    <3>2. CASE j # ip
      BY <3>2, <2>2, <1>e DEF RateInv, RateTypeOK
    <3> QED
      BY <3>1, <3>2
  <2> QED
    BY <2>1, <2>2, <1>0 DEF RateTypeOK, Quota
<1>2. IsFiniteSet(admitted')
  BY <1>0, <1>fin, OneMoreCardinality
<1>3. Past'
  BY <1>0, <1>x DEF Past, RateInv, Time
<1>4. Quiet'
  BY <1>0, <1>x, <1>e DEF Quiet, RateInv, Answer
<1>5. Seen'
  BY <1>0, <1>x, <1>e DEF Seen, RateInv, Past, Answer, Time
<1>6. Counted'
  <2> SUFFICES ASSUME NEW j \in IP, entries'[j] # None
               PROVE  /\ Cardinality(Spent(j, entries[j])') = entries'[j].requests
                      /\ Cardinality(Before(j, entries[j])') <= Quota
    BY DEF Counted, Quota
  <2>1. CASE j = ip
    <3>1. Spent(j, entries[j])' = Spent(ip, e)' /\ Before(j, entries[j])' = Before(ip, e)'
      BY <2>1, <1>e DEF Spent, Before
    <3> QED
      BY <3>1, <2>1, <1>e
  <2>2. CASE j # ip
    <3>1. entries'[j] = entries[j]
      BY <2>2, <1>e
    <3>2. Spent(j, entries[j])' = Spent(j, entries[j])
      BY <3>1, <2>2, <1>0, <1>x DEF Spent
    <3>3. Before(j, entries[j])' = Before(j, entries[j])
      BY <3>1, <2>2, <1>0, <1>x DEF Before
    <3> QED
      BY <3>1, <3>2, <3>3 DEF RateInv, Counted
  <2> QED
    BY <2>1, <2>2
<1>7. TwiceTheLimit'
  <2> SUFFICES ASSUME NEW j \in IP, NEW t \in Time
               PROVE  Cardinality(Between(j, t, t + Window)') <= 2 * Quota
    BY DEF TwiceTheLimit, Quota
  <2>1. Cardinality(Between(j, t, t + Window)) <= 2 * Quota
    BY DEF RateInv, TwiceTheLimit
  <2>2. CASE j = ip /\ t <= now /\ now < t + Window
    <3> DEFINE S == Between(ip, t, t + Window)
    <3>1. Between(j, t, t + Window)' = S \cup {x}
      BY <2>2, <1>0, <1>x DEF Between
    <3>2. IsFiniteSet(S)
      BY <1>fin, PartCardinality DEF Between
    <3>3. Cardinality(S) < 2 * Quota
      BY <2>2
    <3> HIDE DEF S
    <3>4. Cardinality(S \cup {x}) <= Cardinality(S) + 1 /\ Cardinality(S) \in Nat
          /\ IsFiniteSet(S \cup {x})
      BY <3>2, OneMoreCardinality
    <3>5. Cardinality(S \cup {x}) \in Nat
      BY <3>4, FS_CardinalityType
    <3>6. Cardinality(S \cup {x}) <= 2 * Quota
      BY <3>3, <3>4, <3>5, QuotaFact
    <3> QED
      BY <3>1, <3>6
  <2>3. CASE ~(j = ip /\ t <= now /\ now < t + Window)
    <3>1. Between(j, t, t + Window)' = Between(j, t, t + Window)
      BY <2>3, <1>0, <1>x DEF Between
    <3> QED
      BY <3>1, <2>1
  <2> QED
    BY <2>2, <2>3
<1>8. RefusedOnlyWhenFull'
  <2> SUFFICES ASSUME NEW r \in refused
               PROVE  Cardinality({a \in admitted' : a.ip = r.ip /\ a.at <= r.at
                                                     /\ r.at < a.at + Window}) >= Limit
    BY <1>0 DEF RefusedOnlyWhenFull
  <2> DEFINE S == {a \in admitted : a.ip = r.ip /\ a.at <= r.at /\ r.at < a.at + Window}
             T == {a \in admitted' : a.ip = r.ip /\ a.at <= r.at /\ r.at < a.at + Window}
  <2>1. Cardinality(S) >= Limit
    BY DEF RateInv, RefusedOnlyWhenFull
  <2>2. S \subseteq T
    BY <1>0
  <2>3. IsFiniteSet(T)
    BY <1>2, PartCardinality
  <2> HIDE DEF S, T
  <2>4. Cardinality(S) <= Cardinality(T) /\ Cardinality(S) \in Nat /\ Cardinality(T) \in Nat
    BY <2>2, <2>3, PartCardinality
  <2> QED
    BY <2>1, <2>4, LimitAssumption DEF T
<1> QED
  BY <1>1, <1>2, <1>3, <1>4, <1>5, <1>6, <1>7, <1>8 DEF RateInv

\* What RateInv says of one client that has an entry.
LEMMA EntryFacts ==
  ASSUME RateInv, NEW ip \in IP, entries[ip] # None
  PROVE  LET e == entries[ip] IN
         /\ e \in RateLimiterEntry /\ now \in Nat /\ e.windowStart \in Nat /\ e.lastSeen \in Nat
         /\ e.requests \in 1..Quota
         /\ e.windowStart <= e.lastSeen /\ e.lastSeen <= now
         /\ e.lastSeen < e.windowStart + Window
         /\ \A a \in admitted : a.at \in Nat /\ (a.ip = ip => a.at <= e.lastSeen)
         /\ IsFiniteSet(Spent(ip, e)) /\ Cardinality(Spent(ip, e)) = e.requests
         /\ IsFiniteSet(Before(ip, e)) /\ Cardinality(Before(ip, e)) <= Quota
         /\ Cardinality(Before(ip, e)) \in Nat
<1> DEFINE e == entries[ip]
<1>1. e \in RateLimiterEntry /\ now \in Nat /\ e.windowStart \in Nat /\ e.lastSeen \in Nat
      /\ e.requests \in 1..Quota /\ e.windowStart <= e.lastSeen /\ e.lastSeen <= now
      /\ e.lastSeen < e.windowStart + Window
  BY DEF RateInv, RateTypeOK, RateLimiterEntry, Time
<1>2. \A a \in admitted : a.at \in Nat /\ (a.ip = ip => a.at <= e.lastSeen)
  BY DEF RateInv, RateTypeOK, Seen, Answer, Time
<1>3. IsFiniteSet(Spent(ip, e)) /\ IsFiniteSet(Before(ip, e))
  BY PartCardinality DEF RateInv, Spent, Before
<1>4. Cardinality(Spent(ip, e)) = e.requests /\ Cardinality(Before(ip, e)) <= Quota
  BY DEF RateInv, Counted
<1> QED
  BY <1>1, <1>2, <1>3, <1>4, FS_CardinalityType

\* A first request: nothing was granted for so long that it stands alone.
LEMMA FirstRequestStep ==
  ASSUME RateInv, NEW q \in Request, NEW ip \in IP, FirstRequest(q, ip)
  PROVE  RateInv'
<1>e. PICK e \in RateLimiterEntry : e = Started
  BY DEF RateInv, RateTypeOK, Started, RateLimiterEntry
<1> DEFINE x == [request |-> q, ip |-> ip, at |-> now]
<1>0. /\ admitted' = admitted \cup {x} /\ entries[ip] = None /\ Arrives(q) /\ Admit(q, ip, e)
      /\ now \in Nat /\ now \in Time
  BY <1>e DEF FirstRequest, Admit, RateInv, RateTypeOK, Time
<1>1. \A a \in admitted : a.at \in Nat /\ (a.ip = ip => a.at + Window <= now)
  BY <1>0 DEF RateInv, Quiet, RateTypeOK, Answer, Time
<1>2. e \in RateLimiterEntry /\ e.requests = 1 /\ e.lastSeen = now /\ e.windowStart = now
  BY <1>e DEF Started
<1>3. Spent(ip, e)' = {x} /\ Before(ip, e)' = {}
  BY <1>0, <1>1, <1>2, WindowAssumption DEF Spent, Before
<1>4. Cardinality({x}) = 1 /\ Cardinality({}) = 0
  BY FS_Singleton, FS_EmptySet
<1>5. ASSUME NEW t \in Time, t <= now, now < t + Window
      PROVE  Cardinality(Between(ip, t, t + Window)) < 2 * Quota
  <2>1. Between(ip, t, t + Window) = {}
    BY <1>0, <1>1, <1>5, WindowAssumption DEF Between, Time
  <2> QED
    BY <2>1, <1>4, QuotaFact
<1> HIDE DEF x
<1>6. /\ e.requests \in 1..Quota /\ e.windowStart <= now /\ now < e.windowStart + Window
      /\ Cardinality(Spent(ip, e)') = e.requests /\ Cardinality(Before(ip, e)') <= Quota
  BY <1>0, <1>2, <1>3, <1>4, QuotaFact, WindowAssumption
<1> QED
  BY <1>0, <1>2, <1>5, <1>6, AdmitStep

\* A new window: what was granted within a window's length is what the old
\* window has counted, or a part of it.
LEMMA NewWindowStep ==
  ASSUME RateInv, NEW q \in Request, NEW ip \in IP, NewWindow(q, ip)
  PROVE  RateInv'
<1>e. PICK e \in RateLimiterEntry : e = Started
  BY DEF RateInv, RateTypeOK, Started, RateLimiterEntry
<1> DEFINE old == entries[ip]
           x == [request |-> q, ip |-> ip, at |-> now]
<1>0. /\ admitted' = admitted \cup {x} /\ old # None /\ Arrives(q) /\ Admit(q, ip, e)
      /\ now - old.windowStart >= Window /\ now \in Time
  BY <1>e DEF NewWindow, Admit, WindowOver, RateInv, RateTypeOK
<1>1. /\ now \in Nat /\ old.windowStart \in Nat /\ old.lastSeen \in Nat
      /\ old.requests \in 1..Quota /\ old.lastSeen < old.windowStart + Window
      /\ \A a \in admitted : a.at \in Nat /\ (a.ip = ip => a.at <= old.lastSeen)
      /\ IsFiniteSet(Spent(ip, old)) /\ Cardinality(Spent(ip, old)) = old.requests
  BY <1>0, EntryFacts
<1>2. e \in RateLimiterEntry /\ e.requests = 1 /\ e.lastSeen = now /\ e.windowStart = now
  BY <1>e DEF Started
<1>3. Spent(ip, e)' = {x}
  BY <1>0, <1>1, <1>2, WindowAssumption DEF Spent
<1>4. Cardinality({x}) = 1
  BY FS_Singleton
<1>5. Cardinality(Before(ip, e)') <= Quota
  <2>1. Before(ip, e)' \subseteq Spent(ip, old)
    BY <1>0, <1>1, <1>2, WindowAssumption DEF Before, Spent
  <2> HIDE DEF old
  <2> QED
    BY <2>1, <1>1, PartCardinality, QuotaFact
<1>6. ASSUME NEW t \in Time, t <= now, now < t + Window
      PROVE  Cardinality(Between(ip, t, t + Window)) < 2 * Quota
  <2>1. Between(ip, t, t + Window) \subseteq Spent(ip, old)
    BY <1>0, <1>1, <1>6, WindowAssumption DEF Between, Spent, Time
  <2> HIDE DEF old
  <2>2. Cardinality(Between(ip, t, t + Window)) <= old.requests
        /\ Cardinality(Between(ip, t, t + Window)) \in Nat
    BY <2>1, <1>1, PartCardinality
  <2> QED
    BY <2>2, <1>1, QuotaFact
<1> HIDE DEF x, old
<1>7. /\ e.requests \in 1..Quota /\ e.windowStart <= now /\ now < e.windowStart + Window
      /\ Cardinality(Spent(ip, e)') = e.requests
  BY <1>0, <1>1, <1>2, <1>3, <1>4, QuotaFact, WindowAssumption
<1> QED
  BY <1>0, <1>2, <1>5, <1>6, <1>7, AdmitStep

\* The entry that CountRequest leaves is one.
LEMMA CountedEntry ==
  ASSUME NEW e \in RateLimiterEntry, NEW t \in Time
  PROVE  [e EXCEPT !.requests = @ + 1, !.lastSeen = t] \in RateLimiterEntry
<1>1. e.requests + 1 \in Nat
  BY DEF RateLimiterEntry
<1> QED
  BY <1>1 DEF RateLimiterEntry

\* One more in the window: what was granted within a window's length is what
\* this window has counted and what was granted in such a stretch before it.
LEMMA CountRequestStep ==
  ASSUME RateInv, NEW q \in Request, NEW ip \in IP, CountRequest(q, ip)
  PROVE  RateInv'
<1> DEFINE old == entries[ip]
           x == [request |-> q, ip |-> ip, at |-> now]
<1>o. old # None /\ now \in Time
  BY DEF CountRequest, RateInv, RateTypeOK
<1>1. /\ now \in Nat /\ old.windowStart \in Nat /\ old.lastSeen \in Nat
      /\ old \in RateLimiterEntry
      /\ old.requests \in 1..Quota /\ old.windowStart <= old.lastSeen /\ old.lastSeen <= now
      /\ \A a \in admitted : a.at \in Nat /\ (a.ip = ip => a.at <= old.lastSeen)
      /\ IsFiniteSet(Spent(ip, old)) /\ Cardinality(Spent(ip, old)) = old.requests
      /\ IsFiniteSet(Before(ip, old)) /\ Cardinality(Before(ip, old)) <= Quota
      /\ Cardinality(Before(ip, old)) \in Nat
  BY <1>o, EntryFacts
<1>e. PICK e \in RateLimiterEntry : e = [old EXCEPT !.requests = @ + 1, !.lastSeen = now]
  BY <1>o, <1>1, CountedEntry
<1>2. e.requests = old.requests + 1 /\ e.lastSeen = now /\ e.windowStart = old.windowStart
  BY <1>e, <1>1 DEF RateLimiterEntry
<1>0. /\ admitted' = admitted \cup {x} /\ old # None /\ Arrives(q) /\ Admit(q, ip, e)
      /\ ~(now - old.windowStart >= Window) /\ ~(old.requests >= Limit) /\ now \in Time
  BY <1>o, <1>e DEF CountRequest, Admit, WindowOver, Full
<1>3. x \notin admitted
  BY <1>0 DEF Arrives
<1>x. x.ip = ip /\ x.at = now
  OBVIOUS
<1> HIDE DEF old, x
<1>4. Spent(ip, e)' = Spent(ip, old) \cup {x} /\ x \notin Spent(ip, old)
  BY <1>0, <1>1, <1>2, <1>3, <1>x DEF Spent
<1>5. Cardinality(Spent(ip, e)') = e.requests
  BY <1>4, <1>1, <1>2, OneMoreCardinality
<1>6. Before(ip, e)' = Before(ip, old)
  BY <1>0, <1>1, <1>2, <1>x DEF Before
<1>7. ASSUME NEW t \in Time, t <= now, now < t + Window
      PROVE  Cardinality(Between(ip, t, t + Window)) < 2 * Quota
  <2>1. Between(ip, t, t + Window) \subseteq Spent(ip, old) \cup Before(ip, old)
    BY <1>0, <1>1, <1>7, WindowAssumption DEF Between, Spent, Before, Time
  <2>2. Cardinality(Between(ip, t, t + Window))
          <= Cardinality(Spent(ip, old)) + Cardinality(Before(ip, old))
    BY <2>1, <1>1, CoverCardinality
  <2>3. Cardinality(Between(ip, t, t + Window)) \in Nat
    <3>1. IsFiniteSet(Between(ip, t, t + Window))
      BY PartCardinality DEF Between, RateInv
    <3> QED
      BY <3>1, FS_CardinalityType
  <2> QED
    BY <2>2, <2>3, <1>0, <1>1, QuotaFact, LimitAssumption
<1>8. e.requests \in 1..Quota /\ e.windowStart <= now /\ now < e.windowStart + Window
  BY <1>0, <1>1, <1>2, QuotaFact, LimitAssumption, WindowAssumption
<1>9. Cardinality(Before(ip, e)') <= Quota
  BY <1>1, <1>6
<1> QED
  BY <1>0, <1>2, <1>5, <1>7, <1>8, <1>9, AdmitStep

\* A refusal: the counter that has reached the limit counts requests of this
\* very window.
LEMMA RefuseStep ==
  ASSUME RateInv, NEW q \in Request, NEW ip \in IP, Refuse(q, ip)
  PROVE  RateInv'
<1> DEFINE e == entries[ip]
           x == [request |-> q, ip |-> ip, at |-> now]
<1>0. /\ refused' = refused \cup {x} /\ now' = now /\ entries' = entries /\ admitted' = admitted
      /\ e # None /\ ~(now - e.windowStart >= Window) /\ e.requests >= Limit
      /\ now \in Time /\ x \in Answer
  BY DEF Refuse, WindowOver, Full, RateInv, RateTypeOK, Answer
<1>1. /\ now \in Nat /\ e.windowStart \in Nat /\ e.lastSeen \in Nat /\ e.lastSeen <= now
      /\ \A a \in admitted : a.at \in Nat /\ (a.ip = ip => a.at <= e.lastSeen)
      /\ Cardinality(Spent(ip, e)) = e.requests /\ e.requests \in 1..Quota
  BY <1>0, EntryFacts
<1>x. x.ip = ip /\ x.at = now
  OBVIOUS
<1> HIDE DEF e, x
<1>2. RateTypeOK' /\ IsFiniteSet(admitted')
  BY <1>0 DEF RateInv, RateTypeOK, Quota
<1>4. Past' /\ Quiet' /\ Seen'
  BY <1>0, <1>1, <1>x DEF RateInv, Past, Quiet, Seen
<1>5. Counted' /\ TwiceTheLimit'
  BY <1>0 DEF RateInv, Counted, Spent, Before, TwiceTheLimit, Between, Quota
<1>3. RefusedOnlyWhenFull'
  <2> DEFINE S(r) == {a \in admitted : a.ip = r.ip /\ a.at <= r.at /\ r.at < a.at + Window}
  <2>1. Cardinality(S(x)) >= Limit
    <3>1. Spent(ip, e) \subseteq S(x)
      BY <1>0, <1>1, <1>x, WindowAssumption DEF Spent
    <3>2. IsFiniteSet(S(x))
      BY PartCardinality DEF RateInv
    <3> HIDE DEF S
    <3>3. Cardinality(Spent(ip, e)) <= Cardinality(S(x)) /\ Cardinality(S(x)) \in Nat
      BY <3>1, <3>2, PartCardinality
    <3> QED
      BY <3>3, <1>0, <1>1, LimitAssumption, QuotaFact
  <2>2. \A r \in refused : Cardinality(S(r)) >= Limit
    BY DEF RateInv, RefusedOnlyWhenFull
  <2>3. \A r \in refused' : Cardinality(S(r)) >= Limit
    BY <2>1, <2>2, <1>0
  <2> QED
    BY <2>3, <1>0 DEF RefusedOnlyWhenFull
<1> QED
  BY <1>2, <1>3, <1>4, <1>5 DEF RateInv

\* A sweep forgets only entries whose client was granted nothing for at least
\* a window's length.
LEMMA CleanupStep ==
  ASSUME RateInv, Cleanup
  PROVE  RateInv'
<1>0. /\ now' = now /\ admitted' = admitted /\ refused' = refused
      /\ entries' \in [IP -> RateLimiterEntry \cup {None}]
      /\ \A ip \in IP : entries'[ip] # None => entries'[ip] = entries[ip]
      /\ \A ip \in IP : entries'[ip] = None => entries[ip] = None \/ Stale(entries[ip])
  BY DEF Cleanup, RateInv, RateTypeOK
<1>1. RateTypeOK'
  BY <1>0 DEF RateInv, RateTypeOK, Quota
<1>2. Quiet'
  <2> SUFFICES ASSUME NEW a \in admitted, entries'[a.ip] = None
               PROVE  a.at + Window <= now
    BY <1>0 DEF Quiet
  <2>1. a.ip \in IP
    BY DEF RateInv, RateTypeOK, Answer
  <2>2. CASE entries[a.ip] = None
    BY <2>2 DEF RateInv, Quiet
  <2>3. CASE entries[a.ip] # None /\ Stale(entries[a.ip])
    <3>1. /\ now \in Nat /\ entries[a.ip].lastSeen \in Nat /\ a.at \in Nat
          /\ a.at <= entries[a.ip].lastSeen
      BY <2>1, <2>3, EntryFacts
    <3>2. now - entries[a.ip].lastSeen > 2 * CleanupInterval
      BY <2>3 DEF Stale
    <3> QED
      BY <3>1, <3>2, WindowAssumption
  <2> QED
    BY <2>1, <2>2, <2>3, <1>0
<1>3. Seen'
  BY <1>0 DEF RateInv, RateTypeOK, Answer, Seen
<1>4. Counted'
  <2> SUFFICES ASSUME NEW ip \in IP, entries'[ip] # None
               PROVE  /\ Cardinality(Spent(ip, entries[ip])') = entries'[ip].requests
                      /\ Cardinality(Before(ip, entries[ip])') <= Quota
    BY DEF Counted, Quota
  <2>1. entries'[ip] = entries[ip] /\ entries[ip] # None
    BY <1>0
  <2>2. Spent(ip, entries[ip])' = Spent(ip, entries[ip])
        /\ Before(ip, entries[ip])' = Before(ip, entries[ip])
    BY <2>1, <1>0 DEF Spent, Before
  <2> QED
    BY <2>1, <2>2 DEF RateInv, Counted
<1>5. IsFiniteSet(admitted') /\ Past' /\ TwiceTheLimit' /\ RefusedOnlyWhenFull'
  BY <1>0 DEF RateInv, Past, TwiceTheLimit, Between, Quota, RefusedOnlyWhenFull
<1> QED
  BY <1>1, <1>2, <1>3, <1>4, <1>5 DEF RateInv

\* Time passes: only what speaks of the present has to be looked at.
LEMMA TickStep ==
  ASSUME RateInv, Tick
  PROVE  RateInv'
<1>0. /\ now' = now + 1 /\ now' \in Time /\ now \in Time
      /\ entries' = entries /\ admitted' = admitted /\ refused' = refused
  BY MaxTimeAssumption DEF Tick, RateInv, RateTypeOK, Time
<1>1. RateTypeOK'
  BY <1>0 DEF RateInv, RateTypeOK, Quota, Time, RateLimiterEntry
<1>2. Past' /\ Quiet'
  BY <1>0, WindowAssumption DEF RateInv, RateTypeOK, Past, Quiet, Answer, Time
<1>3. IsFiniteSet(admitted') /\ Seen' /\ Counted' /\ TwiceTheLimit' /\ RefusedOnlyWhenFull'
  BY <1>0 DEF RateInv, Seen, Counted, Spent, Before, TwiceTheLimit, Between, Quota, RefusedOnlyWhenFull
<1> QED
  BY <1>1, <1>2, <1>3 DEF RateInv

\* Every step of the limiter preserves the invariant.
LEMMA NextRateInv == RateInv /\ [RateNext]_rateVars => RateInv'
<1> SUFFICES ASSUME RateInv, [RateNext]_rateVars PROVE RateInv'
  OBVIOUS
<1>1. ASSUME NEW q \in Request, NEW ip \in IP, FirstRequest(q, ip) PROVE RateInv'
  BY <1>1, FirstRequestStep
<1>2. ASSUME NEW q \in Request, NEW ip \in IP, NewWindow(q, ip) PROVE RateInv'
  BY <1>2, NewWindowStep
<1>3. ASSUME NEW q \in Request, NEW ip \in IP, CountRequest(q, ip) PROVE RateInv'
  BY <1>3, CountRequestStep
<1>4. ASSUME NEW q \in Request, NEW ip \in IP, Refuse(q, ip) PROVE RateInv'
  BY <1>4, RefuseStep
<1>5. CASE Cleanup
  BY <1>5, CleanupStep
<1>6. CASE Tick
  BY <1>6, TickStep
<1>7. CASE UNCHANGED rateVars
  BY <1>7 DEF rateVars, RateInv, RateTypeOK, Past, Quiet, Seen, Counted, Spent, Before,
              TwiceTheLimit, Between, Quota, RefusedOnlyWhenFull
<1> QED
  BY <1>1, <1>2, <1>3, <1>4, <1>5, <1>6, <1>7 DEF RateNext

\* The invariant holds in every state of every behaviour.
LEMMA RateInvariant == RateSpec => []RateInv
<1> QED
  BY InitRateInv, NextRateInv, PTL DEF RateSpec

\* Counters stay within the quota and entries are seen in their own windows,
\* for any limit, zero included.
THEOREM RateTypeCorrect == RateSpec => []RateTypeOK
<1>1. RateInv => RateTypeOK
  BY DEF RateInv
<1> QED
  BY <1>1, RateInvariant, PTL

\* Allow never lets more than twice the limit through in a window's length,
\* wherever its windows start and whatever cleanup has dropped.
THEOREM RateBounded == RateSpec => []TwiceTheLimit
<1>1. RateInv => TwiceTheLimit
  BY DEF RateInv
<1> QED
  BY <1>1, RateInvariant, PTL

\* Allow refuses a client only if the limit was let through for it within the
\* window's length before.
THEOREM RefusalsJustified == RateSpec => []RefusedOnlyWhenFull
<1>1. RateInv => RefusedOnlyWhenFull
  BY DEF RateInv
<1> QED
  BY <1>1, RateInvariant, PTL
=============================================================================
