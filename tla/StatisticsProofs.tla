-------------------------- MODULE StatisticsProofs --------------------------
(***************************************************************************)
(* Theorems about Statistics, for any hits, redirects, workers, periods,   *)
(* calendars and buffer sizes, with failing calls and with a process that  *)
(* may die at any point.                                                   *)
(***************************************************************************)
EXTENDS Statistics, FiniteSetTheorems, SequenceTheorems, TLAPS

-----------------------------------------------------------------------------
(* Calendars.                                                              *)

\* A set of numbers up to n that is not empty has a greatest one.
LEMMA MaxExists ==
  ASSUME NEW n \in Nat, NEW S \in SUBSET (0..n), S # {}
  PROVE  /\ Max(S) \in S
         /\ \A s \in S : Max(S) >= s
  <1> DEFINE Above(s) == {x \in S : x > s}
             T == {Above(s) : s \in S}
             U == FiniteSubsetsOf(S)
  <1>1. IsWellFoundedOn(StrictSubsetOrdering(S), U)
    BY FS_StrictSubsetOrderingWellFounded
  <1>2. IsFiniteSet(S)
    <2>1. IsFiniteSet(0..n)
      <3>1. 0 \in Int /\ n \in Int
        OBVIOUS
      <3> QED
        BY <3>1, FS_Interval
    <2> QED
      BY <2>1, FS_Subset
  <1>3. T \subseteq SUBSET S /\ T # {}
    OBVIOUS
  <1>4. T \subseteq U
    BY <1>2, <1>3, FS_FiniteSubsetsOfFinite
  <1>5. PICK A \in T : \A B \in T : ~(<<B, A>> \in StrictSubsetOrdering(S))
    <2> HIDE DEF T, U
    <2> QED
      BY <1>1, <1>3, <1>4, WFMin
  <1>6. PICK m \in S : A = Above(m)
    OBVIOUS
  <1>7. ASSUME NEW s \in S PROVE m >= s
    <2>1. SUFFICES ASSUME s > m PROVE FALSE
      OBVIOUS
    <2>2. Above(s) \subseteq A /\ s \in A /\ s \notin Above(s)
      <3>1. s \in Nat /\ m \in Nat /\ \A x \in S : x \in Nat
        OBVIOUS
      <3>2. \A x \in S : x > s => x > m
        BY <2>1, <3>1
      <3>3. ~(s > s)
        BY <3>1
      <3> QED
        BY <1>6, <2>1, <3>2, <3>3
    <2>3. <<Above(s), A>> \in StrictSubsetOrdering(S)
      <3>1. Above(s) # A
        BY <2>2
      <3>2. Above(s) \in SUBSET S /\ A \in SUBSET S
        BY <1>3
      <3> HIDE DEF Above
      <3> QED
        BY <2>2, <3>1, <3>2 DEF StrictSubsetOrdering
    <2> QED
      BY <1>5, <2>3
  <1> QED
    BY <1>7 DEF Max

\* The start of the period of an instant is a start, is not after it, and is
\* that of its own period.
LEMMA Starts ==
  ASSUME calendar \in Calendars, NEW p \in Period, NEW t \in Nat
  PROVE  /\ StartOf(p, t) \in Nat /\ StartOf(p, t) <= t
         /\ StartOf(p, StartOf(p, t)) = StartOf(p, t)
         /\ EndOf(p, t) \in Nat
  <1> DEFINE S(u) == {s \in calendar.begins[p] : s <= u}
             b == StartOf(p, t)
  <1>1. calendar.begins[p] \in SUBSET Nat /\ 0 \in calendar.begins[p] /\ calendar.length[p] \in Nat
    <2>1. calendar \in Calendar /\ 0 \in calendar.begins[p]
      BY CalendarAssumption
    <2> QED
      BY <2>1 DEF Calendar
  <1>2. ASSUME NEW u \in Nat
        PROVE  Max(S(u)) \in S(u) /\ \A s \in S(u) : Max(S(u)) >= s
    <2>1. S(u) \in SUBSET (0..u) /\ 0 \in S(u)
      BY <1>1
    <2> HIDE DEF S
    <2> QED
      BY <2>1, MaxExists
  <1>3. b \in calendar.begins[p] /\ b \in Nat /\ b <= t
    BY <1>1, <1>2 DEF StartOf
  <1>4. StartOf(p, b) = b
    <2>1. StartOf(p, b) \in S(b) /\ b \in S(b) /\ StartOf(p, b) >= b
      BY <1>2, <1>3 DEF StartOf
    <2> QED
      BY <1>1, <1>3, <2>1
  <1>5. EndOf(p, t) = b + calendar.length[p]
    BY DEF EndOf
  <1> HIDE DEF b
  <1>6. EndOf(p, t) \in Nat
    BY <1>1, <1>3, <1>5
  <1> QED
    BY <1>3, <1>4, <1>6 DEF b

-----------------------------------------------------------------------------
(* Sequences: the channels, and the periods left in a run.                 *)

\* What Append and Tail do to a channel of messages of set S.
LEMMA Sent ==
  ASSUME NEW S, NEW c \in Seq(S), NEW m \in S
  PROVE  /\ Append(c, m) \in Seq(S)
         /\ Len(c) \in Nat /\ Len(Append(c, m)) = Len(c) + 1
         /\ DOMAIN Append(c, m) = 1..(Len(c) + 1)
         /\ \A i \in 1..Len(c) : Append(c, m)[i] = c[i]
         /\ Append(c, m)[Len(c) + 1] = m
  BY AppendProperties, LenProperties

LEMMA Taken ==
  ASSUME NEW S, NEW c \in Seq(S), c # <<>>
  PROVE  /\ Head(c) \in S /\ Head(c) = c[1]
         /\ Tail(c) \in Seq(S)
         /\ Len(c) \in Nat \ {0} /\ Len(Tail(c)) = Len(c) - 1
         /\ DOMAIN c = 1..Len(c) /\ DOMAIN Tail(c) = 1..(Len(c) - 1)
         /\ \A i \in 1..(Len(c) - 1) : Tail(c)[i] = c[i + 1]
  BY HeadTailProperties, LenProperties, EmptySeq

\* The last periods, which a run has left for a redirect.
Suffix == {s \in Seq(Period) : s # <<>> /\ IsSuffix(s, Periods)}

\* IsSuffix item by item.
Ends(s) == /\ Len(s) <= Len(Periods)
           /\ \A i \in 1..Len(s) : s[i] = Periods[Len(Periods) - Len(s) + i]

LEMMA SuffixEnds ==
  ASSUME NEW s \in Seq(Period)
  PROVE  IsSuffix(s, Periods) <=> Ends(s)
  <1> DEFINE t == Periods
             m == Len(s)
             n == Len(t)
             rs == Reverse(s)
             rt == Reverse(t)
  <1>1. t \in Seq(Period)
    BY PeriodsAssumption
  <1>2. m \in Nat /\ n \in Nat
    BY <1>1, LenProperties
  <1> HIDE DEF t, m, n
  <1>3. /\ rs \in Seq(Period) /\ Len(rs) = m /\ \A i \in 1..m : rs[i] = s[m - i + 1]
        /\ rt \in Seq(Period) /\ Len(rt) = n /\ \A i \in 1..n : rt[i] = t[n - i + 1]
    <2>1. s \in [1..m -> Period] /\ t \in [1..n -> Period]
      BY <1>1, LenProperties DEF m, n
    <2>2. rs = [i \in 1..m |-> s[(m - i) + 1]] /\ rt = [i \in 1..n |-> t[(n - i) + 1]]
      BY DEF Reverse, m, n
    <2>3. rs \in [1..m -> Period] /\ rt \in [1..n -> Period]
      BY <1>2, <2>1, <2>2
    <2>4. rs \in Seq(Period) /\ rt \in Seq(Period)
      BY <1>2, <2>3, SeqDef
    <2>5. Len(rs) = m /\ Len(rt) = n
      <3>1. DOMAIN rs = 1..m /\ DOMAIN rt = 1..n
        BY <2>2
      <3>2. /\ Len(rs) \in Nat /\ DOMAIN rs = 1..Len(rs)
            /\ Len(rt) \in Nat /\ DOMAIN rt = 1..Len(rt)
        BY <2>4, LenProperties
      <3> HIDE DEF rs, rt
      <3> QED
        BY <1>2, <3>1, <3>2
    <2> QED
      BY <2>2, <2>4, <2>5
  <1> HIDE DEF rs, rt
  <1>4. IsSuffix(s, Periods) <=> m <= n /\ SubSeq(rs, 1, m) = SubSeq(rt, 1, m)
    BY <1>3 DEF IsSuffix, IsPrefix, rs, rt, t
  <1>5. ASSUME m <= n
        PROVE  SubSeq(rs, 1, m) = SubSeq(rt, 1, m) <=> \A i \in 1..m : rs[i] = rt[i]
    <2> DEFINE a == SubSeq(rs, 1, m)
               b == SubSeq(rt, 1, m)
    <2>1. /\ a \in Seq(Period) /\ Len(a) = m /\ \A i \in 1..m : a[i] = rs[i]
          /\ b \in Seq(Period) /\ Len(b) = m /\ \A i \in 1..m : b[i] = rt[i]
      <3>1. \A i \in 1..m : rs[i] \in Period /\ rt[i] \in Period
        BY <1>2, <1>3, <1>5, ElementOfSeq
      <3>2. /\ a \in Seq(Period) /\ Len(a) = m /\ \A i \in 1..m : a[i] = rs[i]
        BY <1>2, <3>1, SubSeqProperties
      <3>3. /\ b \in Seq(Period) /\ Len(b) = m /\ \A i \in 1..m : b[i] = rt[i]
        BY <1>2, <3>1, SubSeqProperties
      <3> QED
        BY <3>2, <3>3
    <2> HIDE DEF a, b
    <2>2. (\A i \in 1..m : rs[i] = rt[i]) => a = b
      BY <2>1, SeqEqual
    <2>3. a = b => \A i \in 1..m : rs[i] = rt[i]
      BY <2>1
    <2> QED
      BY <2>2, <2>3 DEF a, b
  <1>6. ASSUME m <= n
        PROVE  (\A i \in 1..m : rs[i] = rt[i]) <=> \A i \in 1..m : s[i] = t[n - m + i]
    <2>1. ASSUME \A i \in 1..m : rs[i] = rt[i], NEW i \in 1..m
          PROVE  s[i] = t[n - m + i]
      <3> DEFINE j == m - i + 1
      <3>1. j \in 1..m /\ j \in 1..n /\ m - j + 1 = i /\ n - j + 1 = n - m + i
        BY <1>2, <1>6
      <3> HIDE DEF j
      <3>2. rs[j] = s[m - j + 1] /\ rt[j] = t[n - j + 1] /\ rs[j] = rt[j]
        BY <1>3, <2>1, <3>1
      <3> QED
        BY <3>1, <3>2
    <2>2. ASSUME \A i \in 1..m : s[i] = t[n - m + i], NEW i \in 1..m
          PROVE  rs[i] = rt[i]
      <3> DEFINE j == m - i + 1
      <3>1. j \in 1..m /\ i \in 1..n /\ n - i + 1 = n - m + j
        BY <1>2, <1>6
      <3>2. rs[i] = s[j] /\ rt[i] = t[n - i + 1] /\ s[j] = t[n - m + j]
        BY <1>3, <2>2, <3>1
      <3> HIDE DEF j
      <3> QED
        BY <3>1, <3>2
    <2> QED
      BY <2>1, <2>2
  <1> QED
    BY <1>4, <1>5, <1>6 DEF Ends, m, n, t

LEMMA PeriodsLeft ==
  /\ Periods \in Suffix
  /\ \A s \in Suffix : /\ Head(s) \in Period
                       /\ Len(s) # 1 => Tail(s) \in Suffix
  <1>1. Periods \in Suffix
    <2>1. Periods \in Seq(Period) /\ Periods # <<>> /\ Len(Periods) \in Nat
      BY PeriodsAssumption, LenProperties
    <2>2. Ends(Periods)
      BY <2>1 DEF Ends
    <2> QED
      BY <2>1, <2>2, SuffixEnds DEF Suffix
  <1>2. ASSUME NEW s \in Suffix
        PROVE  Head(s) \in Period /\ (Len(s) # 1 => Tail(s) \in Suffix)
    <2> DEFINE m == Len(s)
               n == Len(Periods)
               u == Tail(s)
    <2>1. s \in Seq(Period) /\ s # <<>> /\ Ends(s) /\ n \in Nat
      BY SuffixEnds, PeriodsAssumption, LenProperties DEF Suffix
    <2>2. /\ Head(s) \in Period
          /\ u \in Seq(Period)
          /\ m \in Nat \ {0} /\ Len(u) = m - 1
          /\ \A i \in 1..(m - 1) : u[i] = s[i + 1]
      BY <2>1, Taken
    <2>3. ASSUME m # 1 PROVE u \in Suffix
      <3>1. u # <<>>
        <4>1. Len(u) # 0
          BY <2>2, <2>3
        <4> QED
          BY <4>1, EmptySeq
      <3>2. Ends(u)
        <4>1. ASSUME NEW i \in 1..(m - 1) PROVE u[i] = Periods[n - (m - 1) + i]
          <5>1. i + 1 \in 1..m /\ n - m + (i + 1) = n - (m - 1) + i
            BY <2>1, <2>2
          <5>2. u[i] = s[i + 1] /\ s[i + 1] = Periods[n - m + (i + 1)]
            BY <2>1, <2>2, <5>1 DEF Ends
          <5> QED
            BY <5>1, <5>2
        <4>2. m - 1 <= n
          BY <2>1, <2>2 DEF Ends
        <4> QED
          BY <2>2, <4>1, <4>2 DEF Ends
      <3> QED
        BY <2>2, <3>1, <3>2, SuffixEnds DEF Suffix
    <2> QED
      BY <2>2, <2>3
  <1> QED
    BY <1>1, <1>2

-----------------------------------------------------------------------------
(* Types.                                                                  *)

Phases == {"running", "api", "handler", "scheduler", "workers", "down"}

\* The job a worker has at each of its steps.
Fits(label, j) ==
  \/ label \in {"idle", "stopped"} /\ j = None
  \/ label = "record" /\ j \in RedirectHit
  \/ label \in {"count", "ips", "upsert"} /\ j \in JobType

WorkersFit ==
  /\ wpc = [w \in Worker |-> wpc[w]]
  /\ job = [w \in Worker |-> job[w]]
  /\ \A w \in Worker : Fits(wpc[w], job[w])

\* What the scheduler is at work on.
Current == [redirect : Redirect, left : Suffix, time : Time]

SchedulerFits ==
  \/ spc \in {"start", "idle", "stopped"} /\ cur = None /\ todo = {}
  \/ spc \in {"find", "queue"} /\ cur \in Current /\ todo \subseteq Redirect

ProcessFits == calendar \in Calendars /\ now \in Time /\ phase \in Phases

HitsFit ==
  /\ flight \subseteq Hit /\ lost \subseteq Hit
  /\ stored \subseteq RedirectHit /\ IsFiniteSet(stored)
  /\ hitChan \in Seq(RedirectHit) /\ Len(hitChan) <= HitBuffer

JobsFit ==
  /\ aggChan \in Seq(JobType) /\ Len(aggChan) <= AggBuffer
  /\ stats \in [Key -> JobType \cup {None}]

TypeInv ==
  /\ ProcessFits
  /\ HitsFit
  /\ JobsFit
  /\ WorkersFit
  /\ SchedulerFits

LEMMA TimeType == Time \subseteq Nat /\ Time \subseteq 0..MaxTime /\ StartTime \in Time
  BY TimeAssumption DEF Time

\* What depends on the variables of one part alone stays while they do.
LEMMA Kept ==
  /\ UNCHANGED shutdownVars /\ ProcessFits => ProcessFits'
  /\ UNCHANGED hitVars /\ HitsFit => HitsFit'
  /\ UNCHANGED <<aggChan, stats>> /\ JobsFit => JobsFit'
  /\ UNCHANGED workerVars /\ WorkersFit => WorkersFit'
  /\ UNCHANGED schedulerVars /\ SchedulerFits => SchedulerFits'
  BY DEF shutdownVars, hitVars, workerVars, schedulerVars, ProcessFits, HitsFit, JobsFit,
         WorkersFit, SchedulerFits

LEMMA GotoWFits ==
  ASSUME WorkersFit, NEW w \in Worker, NEW label, NEW j, Fits(label, j), GotoW(w, label, j)
  PROVE  /\ WorkersFit'
         /\ wpc'[w] = label /\ job'[w] = j
         /\ \A v \in Worker \ {w} : wpc'[v] = wpc[v] /\ job'[v] = job[v]
  BY DEF WorkersFit, Fits, GotoW

\* What is stored in a period, and what an aggregation counts.
LEMMA StoredFinite ==
  ASSUME HitsFit, NEW r, NEW p, NEW t
  PROVE  /\ Within(r, p, t) \in SUBSET stored
         /\ HitsOf(r, p, t) \in SUBSET stored
         /\ Within(r, p, t) \in SUBSET RedirectHit
         /\ HitsOf(r, p, t) \in SUBSET RedirectHit
         /\ IsFiniteSet(Within(r, p, t))
         /\ Cardinality(Within(r, p, t)) \in Nat
  <1>1. Within(r, p, t) \in SUBSET stored /\ HitsOf(r, p, t) \in SUBSET stored
    BY DEF Within, HitsOf
  <1>2. stored \subseteq RedirectHit
    BY DEF HitsFit
  <1> QED
    BY <1>1, <1>2, FS_Subset, FS_CardinalityType DEF HitsFit

\* The addresses of finitely many hits: no more than there are hits, and no
\* fewer than those of some of the hits.
LEMMA Addresses ==
  ASSUME NEW A, IsFiniteSet(A)
  PROVE  /\ IsFiniteSet(IPs(A))
         /\ Cardinality(IPs(A)) \in Nat
         /\ Cardinality(IPs(A)) <= Cardinality(A)
         /\ \A B \in SUBSET A : Cardinality(B) <= Cardinality(A)
         /\ \A B \in SUBSET A : Cardinality(IPs(B)) <= Cardinality(IPs(A))
  <1> DEFINE f == [h \in A |-> h.ip]
  <1>1. f \in Surjection(A, IPs(A))
    BY DEF Surjection, IPs
  <1>2. IsFiniteSet(IPs(A)) /\ Cardinality(IPs(A)) <= Cardinality(A)
    BY <1>1, FS_Surjection
  <1>3. \A B \in SUBSET A : IPs(B) \in SUBSET IPs(A)
    BY DEF IPs
  <1> QED
    BY <1>2, <1>3, FS_Subset, FS_CardinalityType

\* The scheduler's next redirect, or the end of its run.
LEMMA NextRedirectFits ==
  ASSUME ProcessFits, NEW S \in SUBSET Redirect, NextRedirect(S)
  PROVE  SchedulerFits' /\ spc' \in {"idle", "find"}
  <1>1. CASE S = {}
    BY <1>1 DEF NextRedirect, GotoS, SchedulerFits
  <1>2. CASE S # {}
    <2>1. PICK r \in S : GotoS("find", S \ {r}, [redirect |-> r, left |-> Periods, time |-> now])
      BY <1>2 DEF NextRedirect
    <2>2. [redirect |-> r, left |-> Periods, time |-> now] \in Current
      BY PeriodsLeft DEF Current, ProcessFits
    <2> QED
      BY <2>1, <2>2 DEF GotoS, SchedulerFits
  <1> QED
    BY <1>1, <1>2

LEMMA NextPeriodFits ==
  ASSUME ProcessFits, SchedulerFits, spc \in {"find", "queue"}, NextPeriod
  PROVE  SchedulerFits' /\ spc' \in {"idle", "find"}
  <1>1. cur \in Current /\ todo \in SUBSET Redirect
    BY DEF SchedulerFits
  <1>2. CASE Len(cur.left) = 1
    BY <1>1, <1>2, NextRedirectFits DEF NextPeriod
  <1>3. CASE Len(cur.left) # 1
    <2>1. GotoS("find", todo, [cur EXCEPT !.left = Tail(cur.left)])
      BY <1>3 DEF NextPeriod
    <2>2. Tail(cur.left) \in Suffix
      BY <1>1, <1>3, PeriodsLeft DEF Current
    <2>3. [cur EXCEPT !.left = Tail(cur.left)] \in Current
      BY <1>1, <2>2 DEF Current
    <2> QED
      BY <1>1, <2>1, <2>3 DEF GotoS, SchedulerFits
  <1> QED
    BY <1>2, <1>3

\* What the scheduler asks for is a key of the collection.
LEMMA Asked ==
  ASSUME TypeInv, spc \in {"find", "queue"}
  PROVE  /\ cur.redirect \in Redirect /\ Head(cur.left) \in Period
         /\ Timestamp \in 0..MaxTime
         /\ StartOf(Head(cur.left), Timestamp) = Timestamp
         /\ AggregationJob(cur.redirect, Head(cur.left), Timestamp) \in JobType
  <1>1. cur \in Current /\ calendar \in Calendars
    BY DEF TypeInv, SchedulerFits, ProcessFits
  <1>2. cur.redirect \in Redirect /\ cur.left \in Suffix /\ cur.time \in Time
    BY <1>1 DEF Current
  <1>3. Head(cur.left) \in Period
    BY <1>2, PeriodsLeft
  <1>4. cur.time \in Nat /\ cur.time <= MaxTime /\ MaxTime \in Nat
    BY <1>2, TimeAssumption DEF Time
  <1>5. /\ Timestamp \in 0..MaxTime
        /\ StartOf(Head(cur.left), Timestamp) = Timestamp
    <2>1. /\ Timestamp \in Nat /\ Timestamp <= cur.time
          /\ StartOf(Head(cur.left), Timestamp) = Timestamp
      BY <1>1, <1>3, <1>4, Starts DEF Timestamp
    <2> HIDE DEF Timestamp
    <2> QED
      BY <1>4, <2>1
  <1>6. AggregationJob(cur.redirect, Head(cur.left), Timestamp) \in JobType
    <2>1. HitsOf(cur.redirect, Head(cur.left), Timestamp) \in SUBSET RedirectHit
      BY StoredFinite DEF TypeInv
    <2> QED
      BY <1>2, <1>3, <1>5, <2>1 DEF AggregationJob, JobType
  <1> QED
    BY <1>2, <1>3, <1>5, <1>6

LEMMA TypeInit == Init => TypeInv
  <1> SUFFICES ASSUME Init PROVE TypeInv
    OBVIOUS
  <1>1. ProcessFits
    BY TimeType DEF Init, ProcessFits, Phases
  <1>2. HitsFit
    BY FS_EmptySet, EmptySeq, BoundAssumption DEF Init, HitsFit
  <1>3. JobsFit
    BY EmptySeq, BoundAssumption DEF Init, JobsFit
  <1>4. WorkersFit
    BY DEF Init, WorkersFit, Fits
  <1>5. SchedulerFits
    BY DEF Init, SchedulerFits
  <1> QED
    BY <1>1, <1>2, <1>3, <1>4, <1>5 DEF TypeInv

\* A request is taken, and answered with a redirect.
LEMMA HandlerType == TypeInv /\ HandlerStep => TypeInv'
  <1> SUFFICES ASSUME TypeInv, NEW h \in Hit,
                      Accept(h) \/ \E r \in Redirect, ip \in IP : QueueRedirectHit(h, r, ip)
               PROVE  TypeInv'
    BY DEF HandlerStep
  <1>1. CASE Accept(h)
    <2>1. HitsFit'
      BY <1>1 DEF Accept, TypeInv, HitsFit
    <2> QED
      BY <1>1, <2>1, Kept DEF Accept, TypeInv
  <1>2. CASE \E r \in Redirect, ip \in IP : QueueRedirectHit(h, r, ip)
    <2>1. PICK r \in Redirect, ip \in IP : QueueRedirectHit(h, r, ip)
      BY <1>2
    <2> DEFINE m == [hit |-> h, redirect |-> r, ip |-> ip, at |-> now]
    <2>2. m \in RedirectHit /\ hitChan \in Seq(RedirectHit) /\ Len(hitChan) <= HitBuffer
      BY DEF TypeInv, ProcessFits, HitsFit, RedirectHit
    <2>3. hitChan' \in Seq(RedirectHit) /\ Len(hitChan') <= HitBuffer
      <3>1. hitChan' = hitChan \/ (Len(hitChan) < HitBuffer /\ hitChan' = Append(hitChan, m))
        BY <2>1 DEF QueueRedirectHit, Room
      <3>2. Append(hitChan, m) \in Seq(RedirectHit) /\ Len(Append(hitChan, m)) = Len(hitChan) + 1
            /\ Len(hitChan) \in Nat
        BY <2>2, Sent
      <3> QED
        BY <2>2, <3>1, <3>2, BoundAssumption
    <2>4. HitsFit'
      BY <2>1, <2>3 DEF QueueRedirectHit, TypeInv, HitsFit
    <2> QED
      BY <2>1, <2>4, Kept DEF QueueRedirectHit, TypeInv
  <1> QED
    BY <1>1, <1>2

LEMMA WorkerType ==
  ASSUME TypeInv, NEW w \in Worker, WorkerStep(w)
  PROVE  TypeInv'
  <1>0. /\ ProcessFits /\ HitsFit /\ JobsFit /\ WorkersFit /\ SchedulerFits
        /\ Fits(wpc[w], job[w])
    BY DEF TypeInv, WorkersFit
  <1>1. CASE TakeHit(w)
    <2>1. /\ Head(hitChan) \in RedirectHit /\ Tail(hitChan) \in Seq(RedirectHit)
          /\ Len(Tail(hitChan)) = Len(hitChan) - 1 /\ Len(hitChan) \in Nat
      BY <1>1, Taken DEF TakeHit, HitsReady, TypeInv, HitsFit
    <2>2. HitsFit'
      BY <1>1, <2>1, BoundAssumption DEF TakeHit, Received, TypeInv, HitsFit
    <2>3. WorkersFit'
      BY <1>0, <1>1, <2>1, GotoWFits DEF TakeHit, Fits
    <2> QED
      BY <1>0, <1>1, <2>2, <2>3, Kept DEF TakeHit, TypeInv
  <1>2. CASE RecordHit(w)
    <2>1. job[w] \in RedirectHit
      BY <1>0, <1>2 DEF RecordHit, Fits
    <2>2. HitsFit'
      BY <1>0, <1>2, <2>1, FS_AddElement DEF RecordHit, HitsFit
    <2>3. WorkersFit'
      BY <1>0, <1>2, GotoWFits DEF RecordHit, Fits
    <2> QED
      BY <1>0, <1>2, <2>2, <2>3, Kept DEF RecordHit, TypeInv
  <1>3. CASE RecordFails(w)
    <2>1. job[w].hit \in Hit
      BY <1>0, <1>3 DEF RecordFails, Fits, RedirectHit
    <2>2. HitsFit'
      BY <1>0, <1>3, <2>1 DEF RecordFails, HitsFit
    <2>3. WorkersFit'
      BY <1>0, <1>3, GotoWFits DEF RecordFails, Fits
    <2> QED
      BY <1>0, <1>3, <2>2, <2>3, Kept DEF RecordFails, TypeInv
  <1>4. CASE TakeJob(w)
    <2>1. /\ Head(aggChan) \in JobType /\ Tail(aggChan) \in Seq(JobType)
          /\ Len(Tail(aggChan)) = Len(aggChan) - 1 /\ Len(aggChan) \in Nat
      BY <1>0, <1>4, Taken DEF TakeJob, JobsFit
    <2>2. JobsFit'
      BY <1>0, <1>4, <2>1, BoundAssumption DEF TakeJob, Received, JobsFit
    <2>3. WorkersFit'
      BY <1>0, <1>4, <2>1, GotoWFits DEF TakeJob, Fits
    <2> QED
      BY <1>0, <1>4, <2>2, <2>3, Kept DEF TakeJob, TypeInv
  <1>5. CASE CountRedirectHits(w)
    <2> DEFINE j == job[w]
               n == Cardinality(Within(j.redirect, j.period, j.time))
    <2>1. j \in JobType /\ n \in Nat
      BY <1>0, <1>5, StoredFinite DEF CountRedirectHits, Fits
    <2>2. [j EXCEPT !.count = n] \in JobType
      <3> HIDE DEF n, j
      <3> QED
        BY <2>1 DEF JobType
    <2>3. WorkersFit'
      BY <1>0, <1>5, <2>2, GotoWFits DEF CountRedirectHits, Fits
    <2> QED
      BY <1>0, <1>5, <2>3, Kept DEF CountRedirectHits, TypeInv
  <1>6. CASE GetUniqueIPsForPeriod(w)
    <2> DEFINE j == job[w]
               n == UniqueIPs(j.redirect, j.period, j.time)
               b == Cardinality(Within(j.redirect, j.period, j.time)) # j.count
    <2>1. j \in JobType /\ n \in Nat /\ b \in BOOLEAN
      BY <1>0, <1>6, StoredFinite, Addresses DEF GetUniqueIPsForPeriod, Fits, UniqueIPs
    <2>2. [j EXCEPT !.ips = n, !.split = b] \in JobType
      <3> HIDE DEF n, j, b
      <3> QED
        BY <2>1 DEF JobType
    <2>3. WorkersFit'
      BY <1>0, <1>6, <2>2, GotoWFits DEF GetUniqueIPsForPeriod, Fits
    <2> QED
      BY <1>0, <1>6, <2>3, Kept DEF GetUniqueIPsForPeriod, TypeInv
  <1>7. CASE CreateAggregatedStats(w)
    <2>1. job[w] \in JobType
      BY <1>0, <1>7 DEF CreateAggregatedStats, Fits
    <2>2. JobsFit'
      BY <1>0, <1>7, <2>1 DEF CreateAggregatedStats, JobsFit
    <2>3. WorkersFit'
      BY <1>0, <1>7, GotoWFits DEF CreateAggregatedStats, Fits
    <2> QED
      BY <1>0, <1>7, <2>2, <2>3, Kept DEF CreateAggregatedStats, TypeInv
  <1>8. CASE AggregationFails(w) \/ StopWorker(w)
    <2>1. WorkersFit'
      BY <1>0, <1>8, GotoWFits DEF AggregationFails, StopWorker, Fits
    <2> QED
      BY <1>0, <1>8, <2>1, Kept DEF AggregationFails, StopWorker, TypeInv
  <1> QED
    BY <1>1, <1>2, <1>3, <1>4, <1>5, <1>6, <1>7, <1>8 DEF WorkerStep

LEMMA SchedulerType == TypeInv /\ (SchedulerRun \/ StopScheduler) => TypeInv'
  <1> SUFFICES ASSUME TypeInv, SchedulerRun \/ StopScheduler PROVE TypeInv'
    OBVIOUS
  <1>0. ProcessFits /\ HitsFit /\ JobsFit /\ WorkersFit /\ SchedulerFits
    BY DEF TypeInv
  <1>1. CASE FetchActive
    <2>1. SchedulerFits'
      BY <1>0, <1>1, NextRedirectFits DEF FetchActive
    <2> QED
      BY <1>0, <1>1, <2>1, Kept DEF FetchActive, TypeInv
  <1>2. CASE FetchFails \/ StopScheduler
    <2>1. SchedulerFits'
      BY <1>2 DEF FetchFails, StopScheduler, GotoS, SchedulerFits
    <2> QED
      BY <1>0, <1>2, <2>1, Kept DEF FetchFails, StopScheduler, TypeInv
  <1>3. CASE FindExisting
    <2>1. SchedulerFits'
      BY <1>0, <1>3, NextPeriodFits DEF FindExisting
    <2> QED
      BY <1>0, <1>3, <2>1, Kept DEF FindExisting, TypeInv
  <1>4. CASE FindMissing
    <2>1. SchedulerFits'
      BY <1>0, <1>4 DEF FindMissing, GotoS, SchedulerFits
    <2> QED
      BY <1>0, <1>4, <2>1, Kept DEF FindMissing, TypeInv
  <1>5. CASE QueueAggregationJob
    <2> DEFINE j == AggregationJob(cur.redirect, Head(cur.left), Timestamp)
    <2>1. SchedulerFits'
      BY <1>0, <1>5, NextPeriodFits DEF QueueAggregationJob
    <2>2. j \in JobType
      BY <1>5, Asked DEF QueueAggregationJob
    <2> HIDE DEF j
    <2>3. aggChan \in Seq(JobType) /\ Len(aggChan) <= AggBuffer
      BY <1>0 DEF JobsFit
    <2>4. aggChan' = aggChan \/ (Len(aggChan) < AggBuffer /\ aggChan' = Append(aggChan, j))
      BY <1>5 DEF QueueAggregationJob, Room, j
    <2>5. Append(aggChan, j) \in Seq(JobType) /\ Len(Append(aggChan, j)) = Len(aggChan) + 1
          /\ Len(aggChan) \in Nat
      BY <2>2, <2>3, Sent
    <2>6. aggChan' \in Seq(JobType) /\ Len(aggChan') <= AggBuffer
      BY <2>3, <2>4, <2>5, BoundAssumption
    <2>7. JobsFit'
      BY <1>0, <1>5, <2>6 DEF QueueAggregationJob, JobsFit
    <2> QED
      BY <1>0, <1>5, <2>1, <2>7, Kept DEF QueueAggregationJob, TypeInv
  <1> QED
    BY <1>1, <1>2, <1>3, <1>4, <1>5 DEF SchedulerRun

LEMMA ProcessType == TypeInv /\ (Tick \/ Shutdown \/ Exited \/ UNCHANGED vars) => TypeInv'
  <1> SUFFICES ASSUME TypeInv, Tick \/ Shutdown \/ Exited \/ UNCHANGED vars PROVE TypeInv'
    OBVIOUS
  <1>0. ProcessFits /\ HitsFit /\ JobsFit /\ WorkersFit /\ SchedulerFits
    BY DEF TypeInv
  <1>1. CASE Tick
    <2>1. ProcessFits'
      BY <1>0, <1>1, TimeAssumption DEF Tick, ProcessFits, Time
    <2> QED
      BY <1>0, <1>1, <2>1, Kept DEF Tick, TypeInv
  <1>2. CASE Shutdown
    <2>1. ProcessFits'
      BY <1>0, <1>2 DEF Shutdown, ProcessFits, Phases
    <2> QED
      BY <1>0, <1>2, <2>1, Kept DEF Shutdown, TypeInv
  <1>3. CASE Exited \/ UNCHANGED vars
    BY <1>0, <1>3, Kept DEF Exited, vars, TypeInv
  <1> QED
    BY <1>1, <1>2, <1>3

\* What is lost with the memory of a process are hits.
LEMMA MemoryFits ==
  ASSUME HitsFit, WorkersFit, MemoryGone, stored' = stored
  PROVE  HitsFit' /\ aggChan' \in Seq(JobType) /\ Len(aggChan') <= AggBuffer
  <1>1. InMemory \subseteq Hit
    <2>1. \A i \in DOMAIN hitChan : hitChan[i].hit \in Hit
      <3>1. \A i \in DOMAIN hitChan : hitChan[i] \in RedirectHit
        BY LenProperties, ElementOfSeq DEF HitsFit
      <3> QED
        BY <3>1 DEF RedirectHit
    <2>2. \A w \in Worker : wpc[w] = "record" => job[w].hit \in Hit
      BY DEF WorkersFit, Fits, RedirectHit
    <2> QED
      BY <2>1, <2>2 DEF InMemory, HitsFit
  <1>2. HitsFit'
    BY <1>1, EmptySeq, BoundAssumption DEF MemoryGone, HitsFit
  <1> QED
    BY <1>2, EmptySeq, BoundAssumption DEF MemoryGone

LEMMA EndType == TypeInv /\ (Exit \/ Restart) => TypeInv'
  <1> SUFFICES ASSUME TypeInv, Exit \/ Restart PROVE TypeInv'
    OBVIOUS
  <1>0. ProcessFits /\ HitsFit /\ JobsFit /\ WorkersFit /\ SchedulerFits
    BY DEF TypeInv
  <1>1. MemoryGone /\ stored' = stored /\ stats' = stats
    BY DEF Exit, Restart
  <1>2. HitsFit' /\ JobsFit'
    BY <1>0, <1>1, MemoryFits DEF JobsFit
  <1>3. CASE Exit
    BY <1>0, <1>2, <1>3, Kept DEF Exit, ProcessFits, Phases, TypeInv
  <1>4. CASE Restart
    <2>1. WorkersFit'
      BY <1>4 DEF Restart, WorkersFit, Fits
    <2>2. ProcessFits' /\ SchedulerFits'
      BY <1>0, <1>4 DEF Restart, GotoS, ProcessFits, SchedulerFits, Phases
    <2> QED
      BY <1>2, <2>1, <2>2 DEF TypeInv
  <1> QED
    BY <1>3, <1>4

LEMMA TypeNext == TypeInv /\ [Next]_vars => TypeInv'
  BY HandlerType, WorkerType, SchedulerType, ProcessType, EndType DEF Next

LEMMA TypeInvariant == Spec => []TypeInv
  BY TypeInit, TypeNext, PTL DEF Spec

\* Workers, channels and scheduler keep their types, and the channels keep
\* within their capacities, crashes and failing calls included.
THEOREM StatsTypeCorrect == Spec => []StatsTypeOK
  <1>1. TypeInv => StatsTypeOK
    <2> SUFFICES ASSUME TypeInv PROVE StatsTypeOK
      OBVIOUS
    <2>1. Range(hitChan) \subseteq RedirectHit
      BY RangeOfSeq DEF TypeInv, HitsFit
    <2>2. \A i \in DOMAIN aggChan : aggChan[i] \in JobType
      BY LenProperties, ElementOfSeq DEF TypeInv, JobsFit
    <2>3. \A k \in Key : stats[k] = None \/ stats[k] \in JobType
      BY DEF TypeInv, JobsFit
    <2>4. \A w \in Worker :
            \/ wpc[w] \in {"idle", "stopped"} /\ job[w] = None
            \/ wpc[w] = "record" /\ job[w] \in RedirectHit
            \/ wpc[w] \in {"count", "ips", "upsert"} /\ job[w] \in JobType
      BY DEF TypeInv, WorkersFit, Fits
    <2>5. \/ spc \in {"start", "idle", "stopped"} /\ cur = None /\ todo = {}
          \/ /\ spc \in {"find", "queue"}
             /\ todo \subseteq Redirect
             /\ cur.redirect \in Redirect /\ cur.time \in Time
             /\ cur.left # <<>> /\ IsSuffix(cur.left, Periods)
      BY DEF TypeInv, SchedulerFits, Current, Suffix
    <2> QED
      BY <2>1, <2>2, <2>3, <2>4, <2>5 DEF TypeInv, ProcessFits, HitsFit, JobsFit, Phases, StatsTypeOK
  <1> QED
    BY <1>1, TypeInvariant, PTL

-----------------------------------------------------------------------------
(* The order of the shutdown.                                              *)

StopInv ==
  /\ phase \in {"workers", "down"} => spc = "stopped"
  /\ phase = "down" => AllStopped

\* A worker that has stopped takes no step, and one that does has not.
LEMMA StoppedStays ==
  ASSUME TypeInv, NEW w \in Worker, WorkerStep(w)
  PROVE  /\ phase' = phase /\ spc' = spc /\ wpc[w] # "stopped"
         /\ \A v \in Worker \ {w} : wpc'[v] = wpc[v] /\ job'[v] = job[v]
  <1>1. /\ phase' = phase /\ spc' = spc /\ wpc[w] # "stopped"
        /\ \E label, j : GotoW(w, label, j)
    BY DEF WorkerStep, TakeHit, RecordHit, RecordFails, TakeJob, CountRedirectHits,
           GetUniqueIPsForPeriod, CreateAggregatedStats, AggregationFails, StopWorker,
           shutdownVars, schedulerVars
  <1>2. PICK label, j : GotoW(w, label, j)
    BY <1>1
  <1>3. wpc = [v \in Worker |-> wpc[v]] /\ job = [v \in Worker |-> job[v]]
    BY DEF TypeInv, WorkersFit
  <1> QED
    BY <1>1, <1>2, <1>3 DEF GotoW

LEMMA StopNext == TypeInv /\ StopInv /\ [Next]_vars => StopInv'
  <1> SUFFICES ASSUME TypeInv, StopInv, [Next]_vars PROVE StopInv'
    OBVIOUS
  <1>1. CASE HandlerStep
    BY <1>1 DEF HandlerStep, Accept, QueueRedirectHit, shutdownVars, schedulerVars, workerVars,
                StopInv, AllStopped
  <1>2. ASSUME NEW w \in Worker, WorkerStep(w) PROVE StopInv'
    BY <1>2, StoppedStays DEF StopInv, AllStopped
  <1>3. CASE SchedulerRun \/ StopScheduler
    <2>1. spc # "stopped" /\ phase' = phase
      BY <1>3 DEF SchedulerRun, StopScheduler, FetchActive, FetchFails, FindExisting,
                  FindMissing, QueueAggregationJob, shutdownVars
    <2> QED
      BY <2>1 DEF StopInv
  <1>4. CASE Shutdown
    BY <1>4 DEF Shutdown, StopInv, AllStopped, workerVars, schedulerVars
  <1>5. CASE Exit \/ Restart
    BY <1>5 DEF Exit, Restart, StopInv, AllStopped, workerVars, schedulerVars
  <1>6. CASE Tick \/ Exited \/ UNCHANGED vars
    BY <1>6 DEF Tick, Exited, vars, shutdownVars, workerVars, schedulerVars, StopInv, AllStopped
  <1> QED
    BY <1>1, <1>2, <1>3, <1>4, <1>5, <1>6 DEF Next

\* Teardown disconnects the database only when the scheduler and every worker
\* have returned, however many there are and whatever they were doing.
THEOREM DisconnectLast == Spec => []StoppedBeforeDisconnect
  <1>1. Init => StopInv
    BY DEF Init, StopInv
  <1>2. StopInv => StoppedBeforeDisconnect
    BY DEF StopInv, StoppedBeforeDisconnect, AllStopped
  <1> QED
    BY <1>1, <1>2, TypeInvariant, StopNext, PTL DEF Spec

-----------------------------------------------------------------------------
(* The way of a hit: from a request to the channel, to a worker, and to    *)
(* the collection, or lost on the way.                                     *)

\* The hits in a channel, and that each is there once.
HitsIn(c) == {c[i].hit : i \in DOMAIN c}
Different(c) == \A i, j \in DOMAIN c : c[i].hit = c[j].hit => i = j

Queued == HitsIn(hitChan)
Recording == {w \in Worker : wpc[w] = "record"}
Held == {job[w].hit : w \in Recording}
Inserted == {h.hit : h \in stored}

\* No hit is twice in a place, or in two places.
Apart ==
  /\ Different(hitChan)
  /\ \A v, w \in Recording : job[v].hit = job[w].hit => v = w
  /\ \A c, d \in stored : c.hit = d.hit => c = d
  /\ flight \cap (Queued \cup Held \cup Inserted \cup lost) = {}
  /\ Queued \cap (Held \cup Inserted \cup lost) = {}
  /\ Held \cap (Inserted \cup lost) = {}
  /\ Inserted \cap lost = {}

LEMMA SeenHits ==
  /\ InMemory = flight \cup Queued \cup Held
  /\ Seen = flight \cup Queued \cup Held \cup Inserted \cup lost
  BY DEF Seen, InMemory, Queued, HitsIn, Held, Recording, Inserted

LEMMA SeenNext == Seen' = flight' \cup Queued' \cup Held' \cup Inserted' \cup lost'
  BY DEF Seen, InMemory, Queued, HitsIn, Held, Recording, Inserted

\* A channel whose messages are of different hits.
LEMMA AppendHit ==
  ASSUME NEW c \in Seq(RedirectHit), NEW m \in RedirectHit,
         Different(c), m.hit \notin HitsIn(c)
  PROVE  /\ Different(Append(c, m))
         /\ HitsIn(Append(c, m)) = HitsIn(c) \cup {m.hit}
  <1> DEFINE n == Len(c)
             d == Append(c, m)
  <1>1. /\ n \in Nat /\ DOMAIN c = 1..n /\ DOMAIN d = 1..(n + 1)
        /\ \A i \in 1..n : d[i] = c[i]
        /\ d[n + 1] = m
    BY Sent, LenProperties
  <1> HIDE DEF n, d
  <1>2. \A i \in DOMAIN d : i \in DOMAIN c \/ i = n + 1
    BY <1>1
  <1>3. n + 1 \in DOMAIN d /\ \A i \in DOMAIN c : i \in DOMAIN d
    BY <1>1
  <1>4. ASSUME NEW i \in DOMAIN d, NEW j \in DOMAIN d, d[i].hit = d[j].hit PROVE i = j
    BY <1>1, <1>2, <1>4 DEF Different, HitsIn
  <1>5. {d[i].hit : i \in DOMAIN d} = {c[i].hit : i \in DOMAIN c} \cup {m.hit}
    <2>1. ASSUME NEW x \in {d[i].hit : i \in DOMAIN d}
          PROVE  x \in {c[i].hit : i \in DOMAIN c} \cup {m.hit}
      BY <1>1, <1>2
    <2>2. ASSUME NEW x \in {c[i].hit : i \in DOMAIN c}
          PROVE  x \in {d[i].hit : i \in DOMAIN d}
      BY <1>1, <1>3
    <2>3. m.hit \in {d[i].hit : i \in DOMAIN d}
      BY <1>1, <1>3
    <2> QED
      BY <2>1, <2>2, <2>3
  <1> QED
    BY <1>4, <1>5 DEF Different, HitsIn, d

LEMMA TakeFirst ==
  ASSUME NEW c \in Seq(RedirectHit), c # <<>>, Different(c)
  PROVE  /\ Different(Tail(c))
         /\ HitsIn(Tail(c)) = HitsIn(c) \ {Head(c).hit}
         /\ Head(c).hit \in HitsIn(c)
  <1> DEFINE n == Len(c)
             d == Tail(c)
  <1>1. /\ n \in Nat \ {0} /\ DOMAIN c = 1..n /\ DOMAIN d = 1..(n - 1)
        /\ \A i \in 1..(n - 1) : d[i] = c[i + 1]
        /\ Head(c) = c[1]
    BY Taken
  <1> HIDE DEF n, d
  <1>2. \A i \in DOMAIN d : i \in Nat /\ i + 1 \in DOMAIN c /\ i + 1 # 1 /\ d[i] = c[i + 1]
    BY <1>1
  <1>3. 1 \in DOMAIN c
    BY <1>1
  <1>4. \A j \in DOMAIN c : j # 1 => j \in Nat /\ j - 1 \in DOMAIN d /\ d[j - 1] = c[j]
    <2> SUFFICES ASSUME NEW j \in DOMAIN c, j # 1
                 PROVE  j \in Nat /\ j - 1 \in DOMAIN d /\ d[j - 1] = c[j]
      OBVIOUS
    <2>1. j \in Nat /\ j - 1 \in 1..(n - 1) /\ (j - 1) + 1 = j
      BY <1>1
    <2>2. d[j - 1] = c[(j - 1) + 1]
      BY <1>1, <2>1
    <2> QED
      BY <1>1, <2>1, <2>2
  <1>5. ASSUME NEW i \in DOMAIN d, NEW j \in DOMAIN d, d[i].hit = d[j].hit PROVE i = j
    <2>1. i + 1 = j + 1 /\ i \in Nat /\ j \in Nat
      BY <1>2, <1>5 DEF Different
    <2> QED
      BY <2>1
  <1>6. {d[i].hit : i \in DOMAIN d} = {c[i].hit : i \in DOMAIN c} \ {c[1].hit}
    <2>1. ASSUME NEW x \in {d[i].hit : i \in DOMAIN d}
          PROVE  x \in {c[i].hit : i \in DOMAIN c} \ {c[1].hit}
      <3>1. PICK i \in DOMAIN d : x = d[i].hit
        OBVIOUS
      <3> QED
        BY <1>2, <1>3, <3>1 DEF Different
    <2>2. ASSUME NEW x \in {c[i].hit : i \in DOMAIN c}, x # c[1].hit
          PROVE  x \in {d[i].hit : i \in DOMAIN d}
      <3>1. PICK j \in DOMAIN c : x = c[j].hit /\ j # 1
        BY <2>2
      <3> QED
        BY <1>4, <3>1
    <2> QED
      BY <2>1, <2>2
  <1> QED
    BY <1>1, <1>3, <1>5, <1>6 DEF Different, HitsIn, d

\* A worker takes a hit, or is done with it, or does something else.
LEMMA WorkerHits ==
  ASSUME TypeInv, NEW w \in Worker, NEW label, NEW j, GotoW(w, label, j),
         \A u, v \in Recording : job[u].hit = job[v].hit => u = v
  PROVE  /\ label = "record" /\ wpc[w] # "record" /\ j.hit \notin Held =>
              /\ Held' = Held \cup {j.hit}
              /\ \A u, v \in Recording' : job'[u].hit = job'[v].hit => u = v
         /\ label # "record" /\ wpc[w] = "record" =>
              /\ Held' = Held \ {job[w].hit} /\ job[w].hit \in Held
              /\ \A u, v \in Recording' : job'[u].hit = job'[v].hit => u = v
         /\ label # "record" /\ wpc[w] # "record" =>
              /\ Held' = Held
              /\ \A u, v \in Recording' : job'[u].hit = job'[v].hit => u = v
  <1>1. /\ wpc'[w] = label /\ job'[w] = j
        /\ \A v \in Worker \ {w} : wpc'[v] = wpc[v] /\ job'[v] = job[v]
    BY DEF TypeInv, WorkersFit, GotoW
  <1>2. /\ Recording = {v \in Worker : wpc[v] = "record"}
        /\ Recording' = {v \in Worker : wpc'[v] = "record"}
        /\ Held = {job[v].hit : v \in Recording}
        /\ Held' = {job'[v].hit : v \in Recording'}
    BY DEF Recording, Held
  <1>3. CASE label = "record" /\ wpc[w] # "record" /\ j.hit \notin Held
    <2>1. Recording' = Recording \cup {w} /\ w \notin Recording
      BY <1>1, <1>2, <1>3
    <2>2. \A v \in Recording : job'[v] = job[v]
      BY <1>1, <1>2, <2>1
    <2>3. Held' = Held \cup {j.hit}
      BY <1>1, <1>2, <2>1, <2>2
    <2>4. \A u, v \in Recording' : job'[u].hit = job'[v].hit => u = v
      BY <1>1, <1>2, <1>3, <2>1, <2>2
    <2> QED
      BY <1>3, <2>3, <2>4
  <1>4. CASE label # "record" /\ wpc[w] = "record"
    <2>1. Recording' = Recording \ {w} /\ w \in Recording
      BY <1>1, <1>2, <1>4
    <2>2. \A v \in Recording' : job'[v] = job[v]
      BY <1>1, <1>2, <2>1
    <2>3. Held' = Held \ {job[w].hit} /\ job[w].hit \in Held
      BY <1>2, <2>1, <2>2
    <2>4. \A u, v \in Recording' : job'[u].hit = job'[v].hit => u = v
      BY <2>1, <2>2
    <2> QED
      BY <1>4, <2>3, <2>4
  <1>5. CASE label # "record" /\ wpc[w] # "record"
    <2>1. Recording' = Recording /\ w \notin Recording
      BY <1>1, <1>2, <1>5
    <2>2. \A v \in Recording : job'[v] = job[v]
      BY <1>1, <1>2, <2>1
    <2>3. Held' = Held
      BY <1>2, <2>1, <2>2
    <2> QED
      BY <1>5, <2>1, <2>2, <2>3
  <1> QED
    BY <1>3, <1>4, <1>5

\* The three ways in which a place keeps its hits.
ChanApart == Different(hitChan)
HeldApart == \A v, w \in Recording : job[v].hit = job[w].hit => v = w
InsertedApart == \A c, d \in stored : c.hit = d.hit => c = d

LEMMA SameHits ==
  /\ UNCHANGED hitChan => Queued' = Queued /\ (ChanApart => ChanApart')
  /\ UNCHANGED workerVars => Held' = Held /\ (HeldApart => HeldApart')
  /\ UNCHANGED stored => Inserted' = Inserted /\ (InsertedApart => InsertedApart')
  BY DEF Queued, Held, Recording, Inserted, ChanApart, HeldApart, InsertedApart, workerVars

\* Apart, of the five sets of hits and of the places.
LEMMA ApartParts ==
  Apart <=> /\ ChanApart /\ HeldApart /\ InsertedApart
            /\ flight \cap (Queued \cup Held \cup Inserted \cup lost) = {}
            /\ Queued \cap (Held \cup Inserted \cup lost) = {}
            /\ Held \cap (Inserted \cup lost) = {}
            /\ Inserted \cap lost = {}
  BY DEF Apart, ChanApart, HeldApart, InsertedApart

LEMMA ApartPartsNext ==
  Apart' <=> /\ ChanApart' /\ HeldApart' /\ InsertedApart'
             /\ flight' \cap (Queued' \cup Held' \cup Inserted' \cup lost') = {}
             /\ Queued' \cap (Held' \cup Inserted' \cup lost') = {}
             /\ Held' \cap (Inserted' \cup lost') = {}
             /\ Inserted' \cap lost' = {}
  BY DEF Apart, ChanApart, HeldApart, InsertedApart

\* A step that leaves requests, channel, recording workers and collection.
LEMMA ApartKept ==
  ASSUME Apart, UNCHANGED hitVars, Held' = Held, HeldApart'
  PROVE  Apart'
  BY ApartParts, ApartPartsNext, SameHits DEF hitVars

LEMMA ApartInit == Init => Apart
  BY DEF Init, Apart, Different, Queued, HitsIn, Held, Recording, Inserted

LEMMA ApartHandler == TypeInv /\ Apart /\ HandlerStep => Apart'
  <1> SUFFICES ASSUME TypeInv, Apart, NEW h \in Hit,
                      Accept(h) \/ \E r \in Redirect, ip \in IP : QueueRedirectHit(h, r, ip)
               PROVE  Apart'
    BY DEF HandlerStep
  <1>0. /\ ChanApart /\ HeldApart /\ InsertedApart
        /\ hitChan \in Seq(RedirectHit)
    BY ApartParts DEF TypeInv, HitsFit
  <1>1. CASE Accept(h)
    <2>1. /\ flight' = flight \cup {h} /\ h \notin Seen
          /\ UNCHANGED <<hitChan, stored, lost, workerVars>>
      BY <1>1 DEF Accept
    <2> QED
      BY <1>0, <2>1, SeenHits, SameHits, ApartParts, ApartPartsNext
  <1>2. CASE \E r \in Redirect, ip \in IP : QueueRedirectHit(h, r, ip)
    <2>1. PICK r \in Redirect, ip \in IP : QueueRedirectHit(h, r, ip)
      BY <1>2
    <2> DEFINE m == [hit |-> h, redirect |-> r, ip |-> ip, at |-> now]
    <2>2. m \in RedirectHit /\ m.hit = h
      BY DEF TypeInv, ProcessFits, RedirectHit
    <2>3. /\ h \in flight /\ flight' = flight \ {h}
          /\ UNCHANGED <<stored, workerVars>>
          /\ \/ hitChan' = Append(hitChan, m) /\ lost' = lost
             \/ hitChan' = hitChan /\ lost' = lost \cup {h}
      BY <2>1 DEF QueueRedirectHit
    <2> HIDE DEF m
    <2>4. h \notin Queued /\ h \notin Held /\ h \notin Inserted /\ h \notin lost
      BY <2>3, ApartParts
    <2>5. CASE hitChan' = Append(hitChan, m) /\ lost' = lost
      <3>1. ChanApart' /\ Queued' = Queued \cup {h}
        BY <1>0, <2>2, <2>4, <2>5, AppendHit DEF ChanApart, Queued
      <3> QED
        BY <1>0, <2>3, <2>4, <2>5, <3>1, SameHits, ApartParts, ApartPartsNext
    <2>6. CASE hitChan' = hitChan /\ lost' = lost \cup {h}
      BY <1>0, <2>3, <2>4, <2>6, SameHits, ApartParts, ApartPartsNext
    <2> QED
      BY <2>3, <2>5, <2>6
  <1> QED
    BY <1>1, <1>2

LEMMA ApartWorker ==
  ASSUME TypeInv, Apart, NEW w \in Worker, WorkerStep(w)
  PROVE  Apart'
  <1>0. /\ ChanApart /\ HeldApart /\ InsertedApart
        /\ hitChan \in Seq(RedirectHit)
        /\ \A u, v \in Recording : job[u].hit = job[v].hit => u = v
    BY ApartParts DEF TypeInv, HitsFit, HeldApart
  <1>1. CASE TakeHit(w)
    <2> DEFINE x == Head(hitChan).hit
    <2>1. /\ GotoW(w, "record", Head(hitChan)) /\ wpc[w] # "record"
          /\ hitChan # <<>> /\ hitChan' = Tail(hitChan)
          /\ UNCHANGED <<flight, stored, lost>>
      BY <1>1 DEF TakeHit, HitsReady, Received
    <2>2. ChanApart' /\ Queued' = Queued \ {x} /\ x \in Queued
      BY <1>0, <2>1, TakeFirst DEF ChanApart, Queued
    <2>3. x \notin Held
      BY <2>2, ApartParts
    <2>4. Held' = Held \cup {x} /\ HeldApart'
      BY <1>0, <2>1, <2>3, WorkerHits DEF HeldApart
    <2> HIDE DEF x
    <2> QED
      BY <1>0, <2>1, <2>2, <2>4, SameHits, ApartParts, ApartPartsNext
  <1>2. CASE RecordHit(w)
    <2> DEFINE x == job[w].hit
    <2>1. /\ GotoW(w, "idle", None) /\ wpc[w] = "record"
          /\ stored' = stored \cup {job[w]}
          /\ UNCHANGED <<flight, hitChan, lost>>
      BY <1>2 DEF RecordHit
    <2>2. Held' = Held \ {x} /\ x \in Held /\ HeldApart'
      BY <1>0, <2>1, WorkerHits DEF HeldApart
    <2>3. x \notin Inserted
      BY <2>2, ApartParts
    <2>4. Inserted' = Inserted \cup {x} /\ InsertedApart'
      BY <1>0, <2>1, <2>3 DEF Inserted, InsertedApart
    <2> HIDE DEF x
    <2> QED
      BY <1>0, <2>1, <2>2, <2>4, SameHits, ApartParts, ApartPartsNext
  <1>3. CASE RecordFails(w)
    <2> DEFINE x == job[w].hit
    <2>1. /\ GotoW(w, "idle", None) /\ wpc[w] = "record"
          /\ lost' = lost \cup {x}
          /\ UNCHANGED <<flight, hitChan, stored>>
      BY <1>3 DEF RecordFails
    <2>2. Held' = Held \ {x} /\ x \in Held /\ HeldApart'
      BY <1>0, <2>1, WorkerHits DEF HeldApart
    <2> HIDE DEF x
    <2> QED
      BY <1>0, <2>1, <2>2, SameHits, ApartParts, ApartPartsNext
  <1>4. CASE \/ TakeJob(w) \/ CountRedirectHits(w) \/ GetUniqueIPsForPeriod(w)
             \/ CreateAggregatedStats(w) \/ AggregationFails(w) \/ StopWorker(w)
    <2>1. /\ UNCHANGED hitVars /\ wpc[w] # "record"
          /\ \E label, j : GotoW(w, label, j) /\ label # "record"
      BY <1>4 DEF TakeJob, CountRedirectHits, GetUniqueIPsForPeriod, CreateAggregatedStats,
                  AggregationFails, StopWorker
    <2>2. Held' = Held /\ HeldApart'
      BY <1>0, <2>1, WorkerHits DEF HeldApart
    <2> QED
      BY <2>1, <2>2, ApartKept
  <1> QED
    BY <1>1, <1>2, <1>3, <1>4 DEF WorkerStep

\* A process that ends loses its hits; its workers hold none any more.
LEMMA ApartEnd == TypeInv /\ Apart /\ (Exit \/ Restart) => Apart'
  <1> SUFFICES ASSUME TypeInv, Apart, Exit \/ Restart PROVE Apart'
    OBVIOUS
  <1>1. /\ flight' = {} /\ hitChan' = <<>> /\ stored' = stored
        /\ lost' = lost \cup flight \cup Queued \cup Held
        /\ \A w \in Worker : wpc'[w] # "record"
    BY SeenHits DEF Exit, Restart, MemoryGone, AllStopped, workerVars
  <1>2. Queued' = {} /\ ChanApart'
    BY <1>1 DEF Queued, ChanApart, HitsIn, Different
  <1>3. Held' = {} /\ HeldApart'
    BY <1>1 DEF Held, Recording, HeldApart
  <1> QED
    BY <1>1, <1>2, <1>3, SameHits, ApartParts, ApartPartsNext

LEMMA ApartNext == TypeInv /\ Apart /\ [Next]_vars => Apart'
  <1> SUFFICES ASSUME TypeInv, Apart, [Next]_vars PROVE Apart'
    OBVIOUS
  <1>1. CASE HandlerStep
    BY <1>1, ApartHandler
  <1>2. ASSUME NEW w \in Worker, WorkerStep(w) PROVE Apart'
    BY <1>2, ApartWorker
  <1>3. CASE Exit \/ Restart
    BY <1>3, ApartEnd
  <1>4. CASE \/ SchedulerRun \/ StopScheduler \/ Tick \/ Shutdown \/ Exited
             \/ UNCHANGED vars
    <2>1. UNCHANGED <<hitVars, workerVars>>
      BY <1>4 DEF SchedulerRun, StopScheduler, FetchActive, FetchFails, FindExisting, FindMissing,
                  QueueAggregationJob, Tick, Shutdown, Exited, vars
    <2> QED
      BY <2>1, SameHits, ApartParts, ApartKept
  <1> QED
    BY <1>1, <1>2, <1>3, <1>4 DEF Next

\* A set of at most one element.
LEMMA AtMostOne ==
  ASSUME NEW X, \A x, y \in X : x = y
  PROVE  Cardinality(X) = IF X = {} THEN 0 ELSE 1
  <1>1. CASE X = {}
    BY <1>1, FS_EmptySet
  <1>2. ASSUME NEW x \in X PROVE Cardinality(X) = 1
    <2>1. X = {x}
      OBVIOUS
    <2> QED
      BY <2>1, FS_Singleton
  <1> QED
    BY <1>1, <1>2

\* A hit is in one place at most: neither two workers, nor a failing call, nor
\* the end of a process doubles it or records what counts as lost.
THEOREM HitNeverDoubled == Spec => []HitInOnePlace
  <1>1. ASSUME Apart PROVE HitInOnePlace
    <2> SUFFICES ASSUME NEW h \in Hit
                 PROVE  Cardinality(InChannel(h)) + Cardinality(AtWorker(h))
                          + Cardinality(Recorded(h)) + Cardinality({h} \cap lost)
                          + Cardinality({h} \cap flight) <= 1
      BY DEF HitInOnePlace
    <2>1. Cardinality(InChannel(h)) = IF h \in Queued THEN 1 ELSE 0
      <3>1. \A i, j \in InChannel(h) : i = j
        BY <1>1 DEF Apart, Different, InChannel
      <3>2. InChannel(h) = {} <=> h \notin Queued
        BY DEF InChannel, Queued, HitsIn
      <3> QED
        BY <3>1, <3>2, AtMostOne
    <2>2. Cardinality(AtWorker(h)) = IF h \in Held THEN 1 ELSE 0
      <3>1. \A v, w \in AtWorker(h) : v = w
        BY <1>1 DEF Apart, AtWorker, Recording
      <3>2. AtWorker(h) = {} <=> h \notin Held
        BY DEF AtWorker, Held, Recording
      <3> QED
        BY <3>1, <3>2, AtMostOne
    <2>3. Cardinality(Recorded(h)) = IF h \in Inserted THEN 1 ELSE 0
      <3>1. \A c, d \in Recorded(h) : c = d
        BY <1>1 DEF Apart, Recorded
      <3>2. Recorded(h) = {} <=> h \notin Inserted
        BY DEF Recorded, Inserted
      <3> QED
        BY <3>1, <3>2, AtMostOne
    <2>4. /\ Cardinality({h} \cap lost) = IF h \in lost THEN 1 ELSE 0
          /\ Cardinality({h} \cap flight) = IF h \in flight THEN 1 ELSE 0
      <3>1. /\ ({h} \cap lost = {}) <=> h \notin lost
            /\ ({h} \cap flight = {}) <=> h \notin flight
            /\ \A x, y \in {h} \cap lost : x = y
            /\ \A x, y \in {h} \cap flight : x = y
        OBVIOUS
      <3> QED
        BY <3>1, AtMostOne
    <2>5. /\ h \in flight => h \notin Queued /\ h \notin Held /\ h \notin Inserted /\ h \notin lost
          /\ h \in Queued => h \notin Held /\ h \notin Inserted /\ h \notin lost
          /\ h \in Held => h \notin Inserted /\ h \notin lost
          /\ h \in Inserted => h \notin lost
      BY <1>1 DEF Apart
    <2> QED
      BY <2>1, <2>2, <2>3, <2>4, <2>5
  <1> QED
    BY <1>1, TypeInvariant, ApartInit, ApartNext, PTL DEF Spec

\* Hits are only added, and the calendar is what it was.
LEMMA StoredGrows == [Next]_vars => stored \subseteq stored' /\ calendar' = calendar
  BY DEF Next, HandlerStep, Accept, QueueRedirectHit,
         WorkerStep, TakeHit, RecordHit, RecordFails, TakeJob, CountRedirectHits,
         GetUniqueIPsForPeriod, CreateAggregatedStats, AggregationFails, StopWorker,
         SchedulerRun, StopScheduler, FetchActive, FetchFails, FindExisting, FindMissing,
         QueueAggregationJob, Tick, Shutdown, Exit, Restart, Exited, vars, shutdownVars, hitVars

\* What a worker does with hits: it takes one, records one, or fails to.
LEMMA WorkerKeeps ==
  ASSUME TypeInv, Apart, NEW w \in Worker, WorkerStep(w)
  PROVE  Seen \subseteq Seen'
  <1>0. /\ hitChan \in Seq(RedirectHit) /\ Different(hitChan)
        /\ \A u, v \in Recording : job[u].hit = job[v].hit => u = v
        /\ Queued \cap Held = {}
        /\ Seen = flight \cup Queued \cup Held \cup Inserted \cup lost
        /\ Seen' = flight' \cup Queued' \cup Held' \cup Inserted' \cup lost'
    BY SeenHits, SeenNext DEF TypeInv, HitsFit, Apart
  <1>1. CASE TakeHit(w)
    <2>1. /\ GotoW(w, "record", Head(hitChan)) /\ wpc[w] # "record"
          /\ hitChan # <<>> /\ hitChan' = Tail(hitChan)
          /\ UNCHANGED <<flight, stored, lost>>
      BY <1>1 DEF TakeHit, HitsReady, Received
    <2> DEFINE x == Head(hitChan).hit
    <2>2. Queued' = Queued \ {x} /\ x \in Queued
      BY <1>0, <2>1, TakeFirst DEF Queued
    <2>3. Held' = Held \cup {x}
      BY <1>0, <2>1, <2>2, WorkerHits
    <2> HIDE DEF x
    <2> QED
      BY <1>0, <2>1, <2>2, <2>3, SameHits
  <1>2. CASE RecordHit(w) \/ RecordFails(w)
    <2> DEFINE x == job[w].hit
    <2>1. /\ GotoW(w, "idle", None) /\ wpc[w] = "record"
          /\ UNCHANGED <<flight, hitChan>>
          /\ \/ stored' = stored \cup {job[w]} /\ lost' = lost
             \/ stored' = stored /\ lost' = lost \cup {x}
      BY <1>2 DEF RecordHit, RecordFails
    <2>2. Held' = Held \ {x}
      BY <1>0, <2>1, WorkerHits
    <2>3. Inserted \cup lost \cup {x} = Inserted' \cup lost'
      BY <2>1 DEF Inserted
    <2> HIDE DEF x
    <2> QED
      BY <1>0, <2>1, <2>2, <2>3, SameHits
  <1>3. CASE \/ TakeJob(w) \/ CountRedirectHits(w) \/ GetUniqueIPsForPeriod(w)
             \/ CreateAggregatedStats(w) \/ AggregationFails(w) \/ StopWorker(w)
    <2>1. /\ UNCHANGED hitVars /\ wpc[w] # "record"
          /\ \E label, j : GotoW(w, label, j) /\ label # "record"
      BY <1>3 DEF TakeJob, CountRedirectHits, GetUniqueIPsForPeriod, CreateAggregatedStats,
                  AggregationFails, StopWorker
    <2>2. Held' = Held
      BY <1>0, <2>1, WorkerHits
    <2> QED
      BY <1>0, <2>1, <2>2, SameHits DEF hitVars
  <1> QED
    BY <1>1, <1>2, <1>3 DEF WorkerStep

\* What a request does with its hit: it queues it, or drops it.
LEMMA HandlerKeeps ==
  ASSUME TypeInv, Apart, HandlerStep
  PROVE  Seen \subseteq Seen'
  <1>1. UNCHANGED <<stored, workerVars>>
    BY DEF HandlerStep, Accept, QueueRedirectHit
  <1>2. flight \cup Queued \cup lost \subseteq flight' \cup Queued' \cup lost'
    <2>1. PICK h \in Hit : Accept(h) \/ \E r \in Redirect, ip \in IP : QueueRedirectHit(h, r, ip)
      BY DEF HandlerStep
    <2>2. CASE Accept(h)
      BY <2>2, SameHits DEF Accept
    <2>3. ASSUME NEW r \in Redirect, NEW ip \in IP, QueueRedirectHit(h, r, ip)
          PROVE  flight \cup Queued \cup lost \subseteq flight' \cup Queued' \cup lost'
      <3> DEFINE m == [hit |-> h, redirect |-> r, ip |-> ip, at |-> now]
      <3>1. m \in RedirectHit /\ m.hit = h
        BY DEF TypeInv, ProcessFits, RedirectHit
      <3>2. /\ flight' = flight \ {h}
            /\ \/ hitChan' = Append(hitChan, m) /\ lost' = lost
               \/ hitChan' = hitChan /\ lost' = lost \cup {h}
        BY <2>3 DEF QueueRedirectHit
      <3> HIDE DEF m
      <3>3. CASE hitChan' = Append(hitChan, m) /\ lost' = lost
        <4>1. Different(hitChan) /\ h \notin Queued
          BY <2>3 DEF Apart, QueueRedirectHit
        <4>2. Queued' = Queued \cup {h}
          BY <3>1, <3>3, <4>1, AppendHit DEF TypeInv, HitsFit, Queued
        <4> QED
          BY <3>2, <3>3, <4>2
      <3>4. CASE hitChan' = hitChan /\ lost' = lost \cup {h}
        BY <3>2, <3>4, SameHits
      <3> QED
        BY <3>2, <3>3, <3>4
    <2> QED
      BY <2>1, <2>2, <2>3
  <1> QED
    BY <1>1, <1>2, SameHits, SeenHits, SeenNext

\* No step forgets a hit, and none takes back that it was recorded or lost.
THEOREM HitsAccounted == Spec => NoHitForgotten
  <1>1. ASSUME TypeInv, Apart, [Next]_vars
        PROVE  [/\ Seen \subseteq Seen' /\ stored \subseteq stored'
                /\ lost \subseteq lost']_<<hitVars, workerVars>>
    <2>1. stored \subseteq stored'
      BY <1>1, StoredGrows
    <2>2. CASE HandlerStep
      <3>1. lost \subseteq lost'
        BY <2>2 DEF HandlerStep, Accept, QueueRedirectHit
      <3> QED
        BY <1>1, <2>1, <2>2, <3>1, HandlerKeeps
    <2>3. ASSUME NEW w \in Worker, WorkerStep(w)
          PROVE  Seen \subseteq Seen' /\ lost \subseteq lost'
      <3>1. lost \subseteq lost'
        BY <2>3 DEF WorkerStep, TakeHit, RecordHit, RecordFails, TakeJob, CountRedirectHits,
                    GetUniqueIPsForPeriod, CreateAggregatedStats, AggregationFails, StopWorker,
                    hitVars
      <3> QED
        BY <1>1, <2>3, <3>1, WorkerKeeps
    <2>4. CASE Exit \/ Restart
      <3>1. stored' = stored /\ lost' = lost \cup InMemory
        BY <2>4 DEF Exit, Restart, MemoryGone
      <3>2. Seen \subseteq Seen'
        BY <3>1 DEF Seen
      <3> QED
        BY <3>1, <3>2
    <2>5. CASE \/ SchedulerRun \/ StopScheduler \/ Tick \/ Shutdown \/ Exited
               \/ UNCHANGED vars
      BY <2>5 DEF SchedulerRun, StopScheduler, FetchActive, FetchFails, FindExisting,
                  FindMissing, QueueAggregationJob, Tick, Shutdown, Exited, vars
    <2> QED
      BY <1>1, <2>1, <2>2, <2>3, <2>4, <2>5 DEF Next
  <1> QED
    BY <1>1, TypeInvariant, ApartInit, ApartNext, PTL DEF Spec, NoHitForgotten

-----------------------------------------------------------------------------
(* The figures of an aggregate lie between what was stored when its job    *)
(* was queued and what has been stored by now; as hits are only added, so  *)
(* they stay.                                                              *)

Least(j) == {h \in j.known : h.at <= EndOf(j.period, j.time)}

Most(j) == HitsOf(j.redirect, j.period, j.time)
             \cup {h \in stored : /\ h.redirect = j.redirect
                                  /\ h.at \in j.time..EndOf(j.period, j.time)}

Known(j) == /\ StartOf(j.period, j.time) = j.time
            /\ j.known \subseteq HitsOf(j.redirect, j.period, j.time)

CountBounded(j) == /\ Cardinality(Least(j)) <= j.count
                   /\ j.count <= Cardinality(Most(j))

AddressesBounded(j) == /\ Cardinality(IPs(Least(j))) <= j.ips
                       /\ j.ips <= Cardinality(IPs(Most(j)))
                       /\ ~j.split => j.ips <= j.count

\* How much of it is true of the job of a worker, step by step.
Worked(label, j) ==
  /\ label \in {"count", "ips", "upsert"} => Known(j)
  /\ label \in {"ips", "upsert"} => CountBounded(j)
  /\ label = "upsert" => AddressesBounded(j)

ChanKnown == \A i \in DOMAIN aggChan : Known(aggChan[i])

WorkersKnown == \A w \in Worker : Worked(wpc[w], job[w])

StatsKnown ==
  \A k \in Key : stats[k] # None =>
    /\ <<stats[k].redirect, stats[k].period, stats[k].time>> = k
    /\ Worked("upsert", stats[k])

AggInv == ChanKnown /\ WorkersKnown /\ StatsKnown

LEMMA MostFinite ==
  ASSUME HitsFit, NEW j, Known(j)
  PROVE  /\ Most(j) \in SUBSET stored /\ Least(j) \in SUBSET stored
         /\ IsFiniteSet(Most(j)) /\ IsFiniteSet(Least(j))
  <1>1. Most(j) \in SUBSET stored /\ Least(j) \in SUBSET stored
    BY DEF Most, Least, Known, HitsOf
  <1> QED
    BY <1>1, FS_Subset DEF HitsFit

LEMMA KnownKept ==
  ASSUME TypeInv, TypeInv', stored \subseteq stored', calendar' = calendar,
         NEW j \in JobType, Known(j)
  PROVE  /\ Known(j)'
         /\ CountBounded(j) => CountBounded(j)'
         /\ AddressesBounded(j) => AddressesBounded(j)'
  <1>1. \A p, t : StartOf(p, t)' = StartOf(p, t) /\ EndOf(p, t)' = EndOf(p, t)
    BY DEF StartOf, EndOf
  <1>2. Least(j)' = Least(j)
    BY <1>1 DEF Least
  <1>3. \A r, p, t : HitsOf(r, p, t) \subseteq HitsOf(r, p, t)'
    BY <1>1 DEF HitsOf
  <1>4. Most(j) \in SUBSET Most(j)'
    BY <1>1, <1>3 DEF Most
  <1>5. Known(j)'
    BY <1>1, <1>3 DEF Known
  <1>6. IsFiniteSet(Most(j)) /\ IsFiniteSet(Least(j)) /\ IsFiniteSet(Most(j)')
    <2>1. HitsFit /\ HitsFit'
      BY DEF TypeInv
    <2>2. Most(j)' \in SUBSET stored' /\ IsFiniteSet(stored')
      BY <2>1 DEF Most, HitsOf, HitsFit
    <2> QED
      BY <2>1, <2>2, MostFinite, FS_Subset
  <1>7. /\ Cardinality(Most(j)) <= Cardinality(Most(j)')
        /\ Cardinality(IPs(Most(j))) <= Cardinality(IPs(Most(j)'))
        /\ Cardinality(Most(j)) \in Nat /\ Cardinality(IPs(Most(j))) \in Nat
        /\ Cardinality(Most(j)') \in Nat /\ Cardinality(IPs(Most(j)')) \in Nat
    BY <1>4, <1>6, Addresses, FS_CardinalityType
  <1>8. j.count \in Nat /\ j.ips \in Nat
    BY DEF JobType
  <1>9. CountBounded(j) => CountBounded(j)'
    BY <1>2, <1>7, <1>8 DEF CountBounded
  <1>10. AddressesBounded(j) => AddressesBounded(j)'
    BY <1>2, <1>7, <1>8 DEF AddressesBounded, IPs
  <1> QED
    BY <1>5, <1>9, <1>10

\* What an aggregation sees is between the two.
LEMMA WithinBounds ==
  ASSUME TypeInv, NEW j \in JobType, Known(j)
  PROVE  LET W == Within(j.redirect, j.period, j.time) IN
         /\ Least(j) \in SUBSET W
         /\ W \in SUBSET Most(j)
         /\ IsFiniteSet(W)
  <1> DEFINE W == Within(j.redirect, j.period, j.time)
  <1>1. Bounds(j.period, j.time) = j.time..EndOf(j.period, j.time)
    BY DEF Known, Bounds
  <1>2. j.period \in Period /\ j.time \in Nat
    BY TimeAssumption DEF JobType
  <1>3. \A h \in stored : h.at \in Nat
    BY TimeType DEF TypeInv, HitsFit, RedirectHit
  <1>4. calendar \in Calendars /\ EndOf(j.period, j.time) \in Nat
    BY <1>2, Starts DEF TypeInv, ProcessFits
  <1>5. ASSUME NEW h \in Least(j) PROVE h \in W
    <2>1. /\ h \in stored /\ h.redirect = j.redirect /\ StartOf(j.period, h.at) = j.time
          /\ h.at <= EndOf(j.period, j.time)
      BY DEF Least, Known, HitsOf
    <2>2. j.time <= h.at
      BY <1>2, <1>3, <1>4, <2>1, Starts
    <2> QED
      BY <1>1, <1>2, <1>3, <1>4, <2>1, <2>2 DEF Within
  <1>6. W \in SUBSET Most(j)
    BY <1>1 DEF Within, Most
  <1>7. IsFiniteSet(W)
    BY StoredFinite DEF TypeInv
  <1> QED
    BY <1>5, <1>6, <1>7

\* The count and the addresses that a worker finds.
LEMMA CountFound ==
  ASSUME TypeInv, NEW j \in JobType, Known(j),
         NEW n, n = Cardinality(Within(j.redirect, j.period, j.time))
  PROVE  LET i == [j EXCEPT !.count = n] IN Known(i) /\ CountBounded(i) /\ i \in JobType
  <1> DEFINE i == [j EXCEPT !.count = n]
             W == Within(j.redirect, j.period, j.time)
  <1>1. /\ Least(j) \in SUBSET W /\ W \in SUBSET Most(j) /\ IsFiniteSet(W)
        /\ IsFiniteSet(Most(j))
    BY WithinBounds, MostFinite DEF TypeInv
  <1>2. Cardinality(Least(j)) <= n /\ n <= Cardinality(Most(j)) /\ n \in Nat
    BY <1>1, FS_Subset, FS_CardinalityType
  <1>3. /\ i.count = n /\ i.redirect = j.redirect /\ i.period = j.period
        /\ i.time = j.time /\ i.known = j.known /\ i \in JobType
    BY <1>2 DEF JobType
  <1> HIDE DEF i
  <1>4. Least(i) = Least(j) /\ Most(i) = Most(j) /\ Known(i)
    BY <1>3 DEF Least, Most, Known
  <1> QED
    BY <1>2, <1>3, <1>4 DEF CountBounded, i

LEMMA AddressesFound ==
  ASSUME TypeInv, NEW j \in JobType, Known(j), CountBounded(j),
         NEW n, n = UniqueIPs(j.redirect, j.period, j.time),
         NEW b, b = (Cardinality(Within(j.redirect, j.period, j.time)) # j.count)
  PROVE  LET i == [j EXCEPT !.ips = n, !.split = b]
         IN  Known(i) /\ CountBounded(i) /\ AddressesBounded(i) /\ i \in JobType
  <1> DEFINE i == [j EXCEPT !.ips = n, !.split = b]
             W == Within(j.redirect, j.period, j.time)
  <1>1. /\ Least(j) \in SUBSET W /\ W \in SUBSET Most(j) /\ IsFiniteSet(W)
        /\ IsFiniteSet(Most(j))
    BY WithinBounds, MostFinite DEF TypeInv
  <1>2. n = Cardinality(IPs(W))
    BY DEF UniqueIPs
  <1>3. /\ Cardinality(IPs(Least(j))) <= n /\ n <= Cardinality(IPs(Most(j)))
        /\ n \in Nat /\ n <= Cardinality(W)
    BY <1>1, <1>2, Addresses
  <1>4. b \in BOOLEAN /\ (~b => n <= j.count)
    BY <1>3
  <1>5. /\ i.count = j.count /\ i.ips = n /\ i.split = b
        /\ i.redirect = j.redirect /\ i.period = j.period
        /\ i.time = j.time /\ i.known = j.known /\ i \in JobType
    BY <1>3, <1>4 DEF JobType
  <1> HIDE DEF i
  <1>6. Least(i) = Least(j) /\ Most(i) = Most(j) /\ Known(i)
    BY <1>5 DEF Least, Most, Known
  <1>7. CountBounded(i)
    BY <1>5, <1>6 DEF CountBounded
  <1>8. AddressesBounded(i)
    BY <1>3, <1>4, <1>5, <1>6 DEF AddressesBounded
  <1> QED
    BY <1>5, <1>6, <1>7, <1>8 DEF i

\* What is true of a job stays true of it.
LEMMA WorkedKept ==
  ASSUME TypeInv, TypeInv', [Next]_vars, NEW label, NEW j,
         label \in {"count", "ips", "upsert"} => j \in JobType, Worked(label, j)
  PROVE  Worked(label, j)'
  <1>1. stored \subseteq stored' /\ calendar' = calendar
    BY StoredGrows
  <1>2. CASE label \in {"count", "ips", "upsert"}
    <2>1. j \in JobType /\ Known(j)
      BY <1>2 DEF Worked
    <2>2. /\ Known(j)'
          /\ CountBounded(j) => CountBounded(j)'
          /\ AddressesBounded(j) => AddressesBounded(j)'
      BY <1>1, <2>1, KnownKept
    <2> QED
      BY <2>2 DEF Worked
  <1>3. CASE label \notin {"count", "ips", "upsert"}
    BY <1>3 DEF Worked
  <1> QED
    BY <1>2, <1>3

LEMMA KnownParts ==
  ASSUME TypeInv
  PROVE  /\ \A w \in Worker : wpc[w] \in {"count", "ips", "upsert"} => job[w] \in JobType
         /\ \A k \in Key : stats[k] # None => stats[k] \in JobType
         /\ aggChan \in Seq(JobType)
         /\ \A i \in DOMAIN aggChan : aggChan[i] \in JobType
  <1>1. aggChan \in Seq(JobType)
    BY DEF TypeInv, JobsFit
  <1> QED
    BY <1>1, LenProperties, ElementOfSeq DEF TypeInv, WorkersFit, Fits, JobsFit

\* A step that leaves the channel, the workers or the collection alone.
LEMMA AggKept ==
  ASSUME TypeInv, TypeInv', AggInv, [Next]_vars
  PROVE  /\ UNCHANGED aggChan => ChanKnown'
         /\ UNCHANGED workerVars => WorkersKnown'
         /\ UNCHANGED stats => StatsKnown'
  <1>2. ASSUME UNCHANGED aggChan PROVE ChanKnown'
    <2>1. ASSUME NEW j \in JobType, Known(j) PROVE Known(j)'
      BY <2>1, StoredGrows, KnownKept
    <2> QED
      BY <1>2, <2>1, KnownParts DEF AggInv, ChanKnown
  <1>3. ASSUME UNCHANGED workerVars PROVE WorkersKnown'
    BY <1>3, KnownParts, WorkedKept DEF AggInv, WorkersKnown, workerVars
  <1>4. ASSUME UNCHANGED stats PROVE StatsKnown'
    BY <1>4, KnownParts, WorkedKept DEF AggInv, StatsKnown
  <1> QED
    BY <1>2, <1>3, <1>4

LEMMA AggInit == Init => AggInv
  BY DEF Init, AggInv, ChanKnown, WorkersKnown, StatsKnown, Worked

LEMMA AggHandler ==
  ASSUME TypeInv, TypeInv', AggInv, [Next]_vars, HandlerStep
  PROVE  AggInv'
  <1>1. UNCHANGED <<aggChan, stats, workerVars>>
    BY DEF HandlerStep, Accept, QueueRedirectHit
  <1> QED
    BY <1>1, AggKept DEF AggInv

\* A worker goes on to a step for which it knows enough.
LEMMA AggGoto ==
  ASSUME TypeInv, TypeInv', AggInv, [Next]_vars,
         NEW w \in Worker, NEW label, NEW j, GotoW(w, label, j),
         label \in {"count", "ips", "upsert"} => j \in JobType, Worked(label, j)
  PROVE  WorkersKnown'
  <1>1. /\ wpc'[w] = label /\ job'[w] = j
        /\ \A v \in Worker \ {w} : wpc'[v] = wpc[v] /\ job'[v] = job[v]
    BY DEF TypeInv, WorkersFit, GotoW
  <1>2. Worked(label, j)'
    BY WorkedKept
  <1>3. ASSUME NEW v \in Worker PROVE Worked(wpc[v], job[v])'
    <2>1. CASE v = w
      BY <1>1, <1>2, <2>1 DEF Worked, Known, CountBounded, AddressesBounded
    <2>2. CASE v # w
      <3>1. Worked(wpc[v], job[v]) /\ (wpc[v] \in {"count", "ips", "upsert"} => job[v] \in JobType)
        BY KnownParts DEF AggInv, WorkersKnown
      <3> QED
        BY <1>1, <2>2, <3>1, WorkedKept
    <2> QED
      BY <2>1, <2>2
  <1> QED
    BY <1>3 DEF WorkersKnown

LEMMA AggWorker ==
  ASSUME TypeInv, TypeInv', AggInv, [Next]_vars, NEW w \in Worker, WorkerStep(w)
  PROVE  AggInv'
  <1>0. Worked(wpc[w], job[w]) /\ (wpc[w] \in {"count", "ips", "upsert"} => job[w] \in JobType)
    BY KnownParts DEF AggInv, WorkersKnown
  <1>1. CASE TakeHit(w)
    <2>1. WorkersKnown'
      BY <1>1, AggGoto DEF TakeHit, Worked
    <2> QED
      BY <1>1, <2>1, AggKept DEF TakeHit, AggInv
  <1>2. CASE RecordHit(w) \/ RecordFails(w) \/ AggregationFails(w) \/ StopWorker(w)
    <2>1. /\ GotoW(w, "idle", None) \/ GotoW(w, "stopped", None)
          /\ UNCHANGED <<aggChan, stats>>
      BY <1>2 DEF RecordHit, RecordFails, AggregationFails, StopWorker
    <2>2. WorkersKnown'
      BY <2>1, AggGoto DEF Worked
    <2> QED
      BY <2>1, <2>2, AggKept DEF AggInv
  <1>3. CASE TakeJob(w)
    <2>1. /\ GotoW(w, "count", Head(aggChan)) /\ aggChan # <<>> /\ aggChan' = Tail(aggChan)
          /\ UNCHANGED stats
      BY <1>3 DEF TakeJob, Received
    <2>2. /\ Head(aggChan) = aggChan[1] /\ Head(aggChan) \in JobType
          /\ 1 \in DOMAIN aggChan
          /\ \A i \in DOMAIN aggChan' : i + 1 \in DOMAIN aggChan /\ aggChan'[i] = aggChan[i + 1]
      BY <2>1, KnownParts, Taken
    <2>3. WorkersKnown'
      <3>1. Known(Head(aggChan))
        BY <2>2 DEF AggInv, ChanKnown
      <3> QED
        BY <2>1, <2>2, <3>1, AggGoto DEF Worked
    <2>4. ChanKnown'
      <3>1. ASSUME NEW j \in JobType, Known(j) PROVE Known(j)'
        BY <3>1, StoredGrows, KnownKept
      <3>2. \A i \in DOMAIN aggChan' : aggChan'[i] \in JobType /\ Known(aggChan[i + 1])
        BY <2>2, KnownParts DEF AggInv, ChanKnown
      <3> QED
        BY <2>2, <3>1, <3>2, KnownParts DEF ChanKnown
    <2> QED
      BY <2>1, <2>3, <2>4, AggKept DEF AggInv
  <1>4. CASE CountRedirectHits(w)
    <2> DEFINE j == job[w]
               i == [j EXCEPT !.count = Cardinality(Within(j.redirect, j.period, j.time))]
    <2>1. j \in JobType /\ Known(j) /\ GotoW(w, "ips", i)
      BY <1>0, <1>4 DEF CountRedirectHits, Worked
    <2>2. Known(i) /\ CountBounded(i) /\ i \in JobType
      BY <2>1, CountFound
    <2> HIDE DEF i
    <2>3. WorkersKnown'
      BY <2>1, <2>2, AggGoto DEF Worked
    <2> QED
      BY <1>4, <2>3, AggKept DEF CountRedirectHits, AggInv
  <1>5. CASE GetUniqueIPsForPeriod(w)
    <2> DEFINE j == job[w]
               i == [j EXCEPT !.ips = UniqueIPs(j.redirect, j.period, j.time),
                              !.split = Cardinality(Within(j.redirect, j.period, j.time)) # j.count]
    <2>1. j \in JobType /\ Known(j) /\ CountBounded(j) /\ GotoW(w, "upsert", i)
      BY <1>0, <1>5 DEF GetUniqueIPsForPeriod, Worked
    <2>2. Known(i) /\ CountBounded(i) /\ AddressesBounded(i) /\ i \in JobType
      BY <2>1, AddressesFound
    <2> HIDE DEF i
    <2>3. WorkersKnown'
      BY <2>1, <2>2, AggGoto DEF Worked
    <2> QED
      BY <1>5, <2>3, AggKept DEF GetUniqueIPsForPeriod, AggInv
  <1>6. CASE CreateAggregatedStats(w)
    <2> DEFINE j == job[w]
               key == <<j.redirect, j.period, j.time>>
    <2>1. /\ wpc[w] = "upsert" /\ j \in JobType /\ Worked("upsert", j)
          /\ GotoW(w, "idle", None) /\ UNCHANGED aggChan
          /\ stats' = [stats EXCEPT ![key] = j]
      BY <1>0, <1>6 DEF CreateAggregatedStats
    <2>2. WorkersKnown'
      BY <2>1, AggGoto DEF Worked
    <2>3. StatsKnown'
      <3>1. \A k \in Key : stats'[k] = IF k = key THEN j ELSE stats[k]
        BY <2>1 DEF TypeInv, JobsFit
      <3>2. ASSUME NEW k \in Key, stats'[k] # None
            PROVE  /\ stats'[k] \in JobType
                   /\ <<stats'[k].redirect, stats'[k].period, stats'[k].time>> = k
                   /\ \E i \in JobType : i = stats'[k] /\ Worked("upsert", i)
        BY <2>1, <3>1, <3>2, KnownParts DEF AggInv, StatsKnown
      <3>3. ASSUME NEW i \in JobType, Worked("upsert", i) PROVE Worked("upsert", i)'
        BY <3>3, WorkedKept
      <3> QED
        BY <3>2, <3>3 DEF StatsKnown
    <2> QED
      BY <2>1, <2>2, <2>3, AggKept DEF AggInv
  <1> QED
    BY <1>1, <1>2, <1>3, <1>4, <1>5, <1>6 DEF WorkerStep

LEMMA AggScheduler ==
  ASSUME TypeInv, TypeInv', AggInv, [Next]_vars, SchedulerRun \/ StopScheduler
  PROVE  AggInv'
  <1>1. CASE QueueAggregationJob
    <2> DEFINE r == cur.redirect
               p == Head(cur.left)
               t == Timestamp
               j == AggregationJob(r, p, t)
    <2>1. j \in JobType /\ StartOf(p, t) = t
      BY <1>1, Asked DEF QueueAggregationJob
    <2>2. Known(j)
      BY <2>1 DEF Known, AggregationJob
    <2> HIDE DEF j
    <2>3. /\ aggChan' = aggChan \/ aggChan' = Append(aggChan, j)
          /\ UNCHANGED <<stats, workerVars>>
      BY <1>1 DEF QueueAggregationJob, j
    <2>4. ASSUME aggChan' = Append(aggChan, j) PROVE ChanKnown'
      <3>1. ASSUME NEW i \in JobType, Known(i) PROVE Known(i)'
        BY <3>1, StoredGrows, KnownKept
      <3> DEFINE n == Len(aggChan)
      <3>2. /\ n \in Nat /\ DOMAIN aggChan' = 1..(n + 1) /\ DOMAIN aggChan = 1..n
            /\ \A i \in 1..n : aggChan'[i] = aggChan[i]
            /\ aggChan'[n + 1] = j
        BY <2>1, <2>4, KnownParts, Sent, LenProperties
      <3> HIDE DEF n
      <3>3. ASSUME NEW i \in DOMAIN aggChan' PROVE \E q \in JobType : q = aggChan'[i] /\ Known(q)
        <4>1. CASE i = n + 1
          BY <2>1, <2>2, <3>2, <4>1
        <4>2. CASE i # n + 1
          <5>1. i \in DOMAIN aggChan /\ aggChan'[i] = aggChan[i]
            BY <3>2, <4>2
          <5> QED
            BY <5>1, KnownParts DEF AggInv, ChanKnown
        <4> QED
          BY <4>1, <4>2
      <3> QED
        BY <3>1, <3>3 DEF ChanKnown
    <2> QED
      BY <2>3, <2>4, AggKept DEF AggInv
  <1>2. CASE FetchActive \/ FetchFails \/ FindExisting \/ FindMissing \/ StopScheduler
    <2>1. UNCHANGED <<aggChan, stats, workerVars>>
      BY <1>2 DEF FetchActive, FetchFails, FindExisting, FindMissing, StopScheduler
    <2> QED
      BY <2>1, AggKept DEF AggInv
  <1> QED
    BY <1>1, <1>2 DEF SchedulerRun

LEMMA AggEnd ==
  ASSUME TypeInv, TypeInv', AggInv, [Next]_vars, Exit \/ Restart
  PROVE  AggInv'
  <1>1. /\ aggChan' = <<>> /\ UNCHANGED stats
        /\ \A w \in Worker : wpc'[w] \in {"idle", "stopped"}
    BY DEF Exit, Restart, MemoryGone, AllStopped, workerVars
  <1>2. ChanKnown'
    BY <1>1 DEF ChanKnown
  <1>3. WorkersKnown'
    BY <1>1 DEF WorkersKnown, Worked
  <1> QED
    BY <1>1, <1>2, <1>3, AggKept DEF AggInv

LEMMA AggNext == TypeInv /\ TypeInv' /\ AggInv /\ [Next]_vars => AggInv'
  <1> SUFFICES ASSUME TypeInv, TypeInv', AggInv, [Next]_vars PROVE AggInv'
    OBVIOUS
  <1>1. CASE HandlerStep
    BY <1>1, AggHandler
  <1>2. ASSUME NEW w \in Worker, WorkerStep(w) PROVE AggInv'
    BY <1>2, AggWorker
  <1>3. CASE SchedulerRun \/ StopScheduler
    BY <1>3, AggScheduler
  <1>4. CASE Exit \/ Restart
    BY <1>4, AggEnd
  <1>5. CASE Tick \/ Shutdown \/ Exited \/ UNCHANGED vars
    <2>1. UNCHANGED <<aggChan, stats, workerVars>>
      BY <1>5 DEF Tick, Shutdown, Exited, vars
    <2> QED
      BY <2>1, AggKept DEF AggInv
  <1> QED
    BY <1>1, <1>2, <1>3, <1>4, <1>5 DEF Next

LEMMA AggInvariant == Spec => []AggInv
  BY TypeInvariant, TypeNext, AggInit, AggNext, PTL DEF Spec

\* An aggregate has every hit of its period that was stored when its job was
\* queued, up to the end that calculatePeriodBounds gives it, and none but hits
\* of that period and those up to that end: however many workers aggregate,
\* whichever writes last, and whatever calls fail or processes die.
THEOREM AggregateHoldsItsHits == Spec => []AggregateBounded
  <1>1. ASSUME AggInv PROVE AggregateBounded
    <2>1. ASSUME NEW k \in Key, stats[k] # None
          PROVE  LET s == stats[k]
                     end == EndOf(k[2], k[3])
                     least == {h \in s.known : h.at <= end}
                     most == HitsOf(k[1], k[2], k[3])
                               \cup {h \in stored : h.redirect = k[1] /\ h.at \in k[3]..end}
                 IN  /\ Cardinality(least) <= s.count /\ s.count <= Cardinality(most)
                     /\ Cardinality(IPs(least)) <= s.ips /\ s.ips <= Cardinality(IPs(most))
      <3> DEFINE s == stats[k]
      <3>1. /\ <<s.redirect, s.period, s.time>> = k
            /\ CountBounded(s) /\ AddressesBounded(s)
        BY <1>1, <2>1 DEF AggInv, StatsKnown, Worked
      <3>2. k[1] = s.redirect /\ k[2] = s.period /\ k[3] = s.time
        BY <3>1
      <3> QED
        BY <3>1, <3>2 DEF CountBounded, AddressesBounded, Least, Most
    <2> QED
      BY <2>1 DEF AggregateBounded
  <1> QED
    BY <1>1, AggInvariant, PTL

\* An aggregate has more addresses than hits only if a hit was stored between
\* the two queries of processAggregationJob.
THEOREM AddressesCounted == Spec => []UniqueWithinCount
  <1>1. AggInv => UniqueWithinCount
    BY DEF AggInv, StatsKnown, Worked, AddressesBounded, UniqueWithinCount
  <1> QED
    BY <1>1, AggInvariant, PTL
=============================================================================
