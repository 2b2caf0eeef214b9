---------------------------- MODULE RateLimiter -----------------------------
(***************************************************************************)
(* The redirect handler's rate limiter (handler/main.go): a counter per    *)
(* client for fixed windows, and a goroutine that drops old counters.      *)
(* Allow and each sweep of cleanup hold the mutex, and read the clock when *)
(* they have it: each is one action.                                       *)
(***************************************************************************)
EXTENDS Naturals, FiniteSets

CONSTANTS
  Request,          \* requests, each made once
  IP,               \* client addresses, as getClientIP returns them
  Limit,            \* RequestsPerMinute
  Window,           \* a minute, in ticks of the clock
  CleanupInterval,  \* in ticks of the clock
  MaxTime,          \* bound on the clock
  None              \* no entry

ASSUME LimitAssumption == Limit \in Nat
ASSUME MaxTimeAssumption == MaxTime \in Nat

\* DefaultConfig has one minute and five.
ASSUME WindowAssumption ==
  /\ Window \in Nat \ {0} /\ CleanupInterval \in Nat
  /\ 2 * CleanupInterval >= Window

Time == 0..MaxTime
RateLimiterEntry == [requests : Nat, lastSeen : Time, windowStart : Time]

ASSUME NoneAssumption == None \notin RateLimiterEntry

\* A request with the answer that Allow gave it.
Answer == [request : Request, ip : IP, at : Time]

VARIABLES
  now,       \* the clock
  entries,   \* the map from addresses to entries
  admitted,  \* auxiliary: requests that were let through
  refused    \* auxiliary: requests that were answered 429

rateVars == <<now, entries, admitted, refused>>

RateInit ==
  /\ now = 0
  /\ entries = [ip \in IP |-> None]
  /\ admitted = {}
  /\ refused = {}

-----------------------------------------------------------------------------
\* Mutant of WindowOver: the end of a window belongs to it.
WindowOverLate(e) == now - e.windowStart > Window

WindowOver(e) == now - e.windowStart >= Window

\* Mutant of Full: one request too many.
FullLate(e) == e.requests > Limit

Full(e) == e.requests >= Limit

Arrives(q) == \A a \in admitted \cup refused : a.request # q

Admit(q, ip, e) ==
  /\ entries' = [entries EXCEPT ![ip] = e]
  /\ admitted' = admitted \cup {[request |-> q, ip |-> ip, at |-> now]}
  /\ UNCHANGED <<now, refused>>

Started == [requests |-> 1, lastSeen |-> now, windowStart |-> now]

FirstRequest(q, ip) ==
  /\ Arrives(q)
  /\ entries[ip] = None
  /\ Admit(q, ip, Started)

NewWindow(q, ip) ==
  /\ Arrives(q)
  /\ entries[ip] # None
  /\ WindowOver(entries[ip])
  /\ Admit(q, ip, Started)

CountRequest(q, ip) ==
  /\ Arrives(q)
  /\ entries[ip] # None
  /\ ~WindowOver(entries[ip])
  /\ ~Full(entries[ip])
  /\ Admit(q, ip, [entries[ip] EXCEPT !.requests = @ + 1, !.lastSeen = now])

Refuse(q, ip) ==
  /\ Arrives(q)
  /\ entries[ip] # None
  /\ ~WindowOver(entries[ip])
  /\ Full(entries[ip])
  /\ refused' = refused \cup {[request |-> q, ip |-> ip, at |-> now]}
  /\ UNCHANGED <<now, entries, admitted>>

\* Mutant of Stale: any entry not used in this instant.
StaleSoon(e) == now - e.lastSeen > 0

Stale(e) == now - e.lastSeen > 2 * CleanupInterval

\* The ticker may fire at any time: nothing below depends on its period.
Cleanup ==
  /\ entries' = [ip \in IP |-> IF entries[ip] # None /\ Stale(entries[ip])
                               THEN None ELSE entries[ip]]
  /\ UNCHANGED <<now, admitted, refused>>

Tick ==
  /\ now < MaxTime
  /\ now' = now + 1
  /\ UNCHANGED <<entries, admitted, refused>>

RateNext ==
  \/ \E q \in Request, ip \in IP :
       \/ FirstRequest(q, ip) \/ NewWindow(q, ip)
       \/ CountRequest(q, ip) \/ Refuse(q, ip)
  \/ Cleanup
  \/ Tick

RateSpec == RateInit /\ [][RateNext]_rateVars

-----------------------------------------------------------------------------
\* What a client may be granted in a window: the first request always passes.
Quota == IF Limit = 0 THEN 1 ELSE Limit

\* Counters are within the quota, and an entry was seen in its own window.
RateTypeOK ==
  /\ now \in Time
  /\ entries \in [IP -> RateLimiterEntry \cup {None}]
  /\ \A ip \in IP : entries[ip] # None =>
       LET e == entries[ip] IN
       /\ e.requests \in 1..Quota
       /\ e.windowStart <= e.lastSeen /\ e.lastSeen <= now
       /\ e.lastSeen < e.windowStart + Window
  /\ admitted \subseteq Answer /\ refused \subseteq Answer

\* The requests of a client that were let through from t and before u.
Between(ip, t, u) == {a \in admitted : a.ip = ip /\ t <= a.at /\ a.at < u}

\* Wherever windows start and whatever cleanup has dropped, no stretch of time
\* of a window's length sees more than twice the limit of one client let
\* through: a fixed window promises no less and no more than that.
TwiceTheLimit ==
  \A ip \in IP, t \in Time : Cardinality(Between(ip, t, t + Window)) <= 2 * Quota

\* A client is refused only for its own requests: as many as the limit of them
\* were let through within the window's length before.
RefusedOnlyWhenFull ==
  \A r \in refused :
    Cardinality({a \in admitted : a.ip = r.ip /\ a.at <= r.at /\ r.at < a.at + Window}) >= Limit
=============================================================================
