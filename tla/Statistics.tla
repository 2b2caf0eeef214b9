----------------------------- MODULE Statistics -----------------------------
(***************************************************************************)
(* Asynchronous statistics (domain/statistics) and the order in which the  *)
(* process stops (main.go, shell.Teardown).                                *)
(*                                                                         *)
(* Handlers queue hits and the aggregation scheduler queues jobs, both     *)
(* without blocking; the workers take from the two channels and call       *)
(* MongoDB, one call per action.  On a signal the servers are shut down,   *)
(* then the scheduler is stopped and waited for, then the workers, then    *)
(* the database is disconnected.                                           *)
(***************************************************************************)
EXTENDS Naturals, FiniteSets, Sequences, SequencesExt

CONSTANTS
  Hit,          \* requests that the handler answers with a redirect
  Redirect, IP, \* the redirects and the client addresses
  Worker,       \* the stats workers, three in shell.Configure
  Periods,      \* the periods, in the order in which the scheduler takes them
  Calendars,    \* where periods may begin, and how long they are taken to be
  HitBuffer,    \* capacity of hitChan
  AggBuffer,    \* capacity of aggChan
  StartTime,    \* the clock at the start
  MaxTime,      \* bound on the clock
  Faulty,       \* whether calls to MongoDB may fail
  Crashing,     \* whether the process may die and be started again
  None          \* an absent document, no job

Time == StartTime..MaxTime
Period == Range(Periods)

\* A calendar: the starts of each period in ticks of the clock, and the length
\* that calculatePeriodBounds gives it, which is 24 hours also for a day on
\* which the clocks are changed.
Calendar == [begins : [Period -> SUBSET Nat], length : [Period -> Nat \ {0}]]

ASSUME CalendarAssumption ==
  Calendars \subseteq Calendar /\ \A c \in Calendars, p \in Period : 0 \in c.begins[p]
ASSUME PeriodsAssumption == Periods # <<>> /\ Periods \in Seq(Period)
ASSUME BoundAssumption == HitBuffer \in Nat /\ AggBuffer \in Nat
ASSUME TimeAssumption == MaxTime \in Nat /\ StartTime \in 0..MaxTime
ASSUME FaultyAssumption == Faulty \in BOOLEAN /\ Crashing \in BOOLEAN

VARIABLES
  calendar, \* that of the place where the process runs
  now,      \* the clock
  phase,    \* how far main and Teardown have got
  flight,   \* requests that are being served
  hitChan, aggChan,
  stored,   \* the redirect hits collection
  lost,     \* auxiliary: hits dropped, or whose insertion failed, or that
            \* the process had when it ended
  stats,    \* the aggregated stats collection, by redirect, period and timestamp
  wpc, job, \* each worker's next step, and the job it works on
  spc,      \* the scheduler's next step
  todo,     \* the redirects that its run has yet to process
  cur       \* the redirect it processes, with the periods left and its clock

shutdownVars == <<calendar, now, phase>>
hitVars == <<flight, hitChan, stored, lost>>
workerVars == <<wpc, job>>
schedulerVars == <<spc, todo, cur>>
vars == <<shutdownVars, hitVars, aggChan, stats, workerVars, schedulerVars>>

RedirectHit == [hit : Hit, redirect : Redirect, ip : IP, at : Time]
Key == Redirect \X Period \X (0..MaxTime)

\* calculatePeriodTimestamp: a time rounded down to the start of its period.
StartOf(p, t) == Max({s \in calendar.begins[p] : s <= t})

EndOf(p, t) == StartOf(p, t) + calendar.length[p]

\* Mutant of Bounds: the period starts one tick late.
BoundsLate(p, t) == (StartOf(p, t) + 1)..EndOf(p, t)

\* calculatePeriodBounds with the filter's $gte and $lte: both ends belong.
Bounds(p, t) == StartOf(p, t)..EndOf(p, t)

\* The stored hits that an aggregation of redirect r and period p at t sees.
Within(r, p, t) == {h \in stored : h.redirect = r /\ h.at \in Bounds(p, t)}

IPs(hits) == {h.ip : h \in hits}

\* Mutant of UniqueIPs: the addresses of all times.
UniqueIPsEver(r, p, t) == Cardinality(IPs({h \in stored : h.redirect = r}))

UniqueIPs(r, p, t) == Cardinality(IPs(Within(r, p, t)))

\* The hits of a period in the sense of its name: no instant is in two of them.
HitsOf(r, p, t) == {h \in stored : h.redirect = r /\ StartOf(p, h.at) = t}

Running == phase \in {"running", "api", "handler"}

Init ==
  /\ calendar \in Calendars
  /\ now = StartTime
  /\ phase = "running"
  /\ flight = {}
  /\ hitChan = <<>> /\ aggChan = <<>>
  /\ stored = {} /\ lost = {}
  /\ stats = [k \in Key |-> None]
  /\ wpc = [w \in Worker |-> "idle"]
  /\ job = [w \in Worker |-> None]
  /\ spc = "start"
  /\ todo = {}
  /\ cur = None

-----------------------------------------------------------------------------
\* The handler.  Its server takes requests until it is shut down, which is
\* after the API server has been; a request may outlive the shutdown's timeout.

\* Hits that only the process has: in requests, in the channel, with workers.
InMemory ==
  flight \cup {hitChan[i].hit : i \in DOMAIN hitChan}
         \cup {job[w].hit : w \in {v \in Worker : wpc[v] = "record"}}

Seen == InMemory \cup {h.hit : h \in stored} \cup lost

Accept(h) ==
  /\ phase \in {"running", "api"}
  /\ h \notin Seen
  /\ flight' = flight \cup {h}
  /\ UNCHANGED <<shutdownVars, hitChan, stored, lost, aggChan, stats,
                 workerVars, schedulerVars>>

\* Mutant of Room: one too many.
RoomForOneMore(chan, n) == Len(chan) <= n

Room(chan, n) == Len(chan) < n

\* The hit is queued with its time, or dropped when the channel is full.
QueueRedirectHit(h, r, ip) ==
  /\ h \in flight
  /\ flight' = flight \ {h}
  /\ IF Room(hitChan, HitBuffer)
     THEN /\ hitChan' = Append(hitChan, [hit |-> h, redirect |-> r, ip |-> ip, at |-> now])
          /\ lost' = lost
     ELSE /\ hitChan' = hitChan
          /\ lost' = lost \cup {h}
  /\ UNCHANGED <<shutdownVars, stored, aggChan, stats, workerVars, schedulerVars>>

-----------------------------------------------------------------------------
\* The workers.  select picks any case that is ready, the stop among them.
GotoW(w, label, j) ==
  /\ wpc' = [wpc EXCEPT ![w] = label]
  /\ job' = [job EXCEPT ![w] = j]

\* Mutant of Received: the channel keeps what was received.
ReceivedTwice(chan) == chan

Received(chan) == Tail(chan)

\* Mutant of HitsReady: jobs go first.
HitsReadyLast == hitChan # <<>> /\ aggChan = <<>>

HitsReady == hitChan # <<>>

TakeHit(w) ==
  /\ wpc[w] = "idle"
  /\ HitsReady
  /\ GotoW(w, "record", Head(hitChan))
  /\ hitChan' = Received(hitChan)
  /\ UNCHANGED <<shutdownVars, flight, stored, lost, aggChan, stats, schedulerVars>>

RecordHit(w) ==
  /\ wpc[w] = "record"
  /\ GotoW(w, "idle", None)
  /\ stored' = stored \cup {job[w]}
  /\ UNCHANGED <<shutdownVars, flight, hitChan, lost, aggChan, stats, schedulerVars>>

\* The error is logged: no other attempt is made.
RecordFails(w) ==
  /\ Faulty
  /\ wpc[w] = "record"
  /\ GotoW(w, "idle", None)
  /\ lost' = lost \cup {job[w].hit}
  /\ UNCHANGED <<shutdownVars, flight, hitChan, stored, aggChan, stats, schedulerVars>>

TakeJob(w) ==
  /\ wpc[w] = "idle"
  /\ aggChan # <<>>
  /\ GotoW(w, "count", Head(aggChan))
  /\ aggChan' = Received(aggChan)
  /\ UNCHANGED <<shutdownVars, hitVars, stats, schedulerVars>>

CountRedirectHits(w) ==
  LET j == job[w] IN
  /\ wpc[w] = "count"
  /\ GotoW(w, "ips", [j EXCEPT !.count = Cardinality(Within(j.redirect, j.period, j.time))])
  /\ UNCHANGED <<shutdownVars, hitVars, aggChan, stats, schedulerVars>>

GetUniqueIPsForPeriod(w) ==
  LET j == job[w] IN
  /\ wpc[w] = "ips"
  /\ GotoW(w, "upsert",
       [j EXCEPT !.ips = UniqueIPs(j.redirect, j.period, j.time),
                 !.split = Cardinality(Within(j.redirect, j.period, j.time)) # j.count])
  /\ UNCHANGED <<shutdownVars, hitVars, aggChan, stats, schedulerVars>>

\* ReplaceOne with upsert: the last writer of a key wins.
CreateAggregatedStats(w) ==
  LET j == job[w] IN
  /\ wpc[w] = "upsert"
  /\ GotoW(w, "idle", None)
  /\ stats' = [stats EXCEPT ![<<j.redirect, j.period, j.time>>] = j]
  /\ UNCHANGED <<shutdownVars, hitVars, aggChan, schedulerVars>>

\* Mutant of AggregationFails: a failed count counts as none.
AggregationFailsToZero(w) ==
  /\ Faulty
  /\ wpc[w] = "count"
  /\ GotoW(w, "ips", job[w])
  /\ UNCHANGED <<shutdownVars, hitVars, aggChan, stats, schedulerVars>>

\* Any of the three calls fails, which is logged and ends the job.
AggregationFails(w) ==
  /\ Faulty
  /\ wpc[w] \in {"count", "ips", "upsert"}
  /\ GotoW(w, "idle", None)
  /\ UNCHANGED <<shutdownVars, hitVars, aggChan, stats, schedulerVars>>

\* Mutant of WorkersSignalled: the channels are closed after the wait.
WorkersSignalledLate == phase = "down"

\* Stop has closed the workers' stopChan.
WorkersSignalled == phase = "workers"

\* Mutant of StopWorker: the signal ends a worker in the middle of a hit or job.
StopWorkerAtOnce(w) ==
  /\ wpc[w] # "stopped"
  /\ WorkersSignalled
  /\ GotoW(w, "stopped", None)
  /\ UNCHANGED <<shutdownVars, hitVars, aggChan, stats, schedulerVars>>

\* The stop is one of the ready cases, whatever the channels hold.
StopWorker(w) ==
  /\ wpc[w] = "idle"
  /\ WorkersSignalled
  /\ GotoW(w, "stopped", None)
  /\ UNCHANGED <<shutdownVars, hitVars, aggChan, stats, schedulerVars>>

-----------------------------------------------------------------------------
\* The scheduler: a run at the start and one per tick.
GotoS(label, redirects, c) ==
  /\ spc' = label
  /\ todo' = redirects
  /\ cur' = c

\* On to the next redirect, for which the clock is read once for all periods.
NextRedirect(redirects) ==
  IF redirects = {}
  THEN GotoS("idle", {}, None)
  ELSE \E r \in redirects :
         GotoS("find", redirects \ {r}, [redirect |-> r, left |-> Periods, time |-> now])

NextPeriod ==
  IF Len(cur.left) = 1
  THEN NextRedirect(todo)
  ELSE GotoS("find", todo, [cur EXCEPT !.left = Tail(@)])

Timestamp == StartOf(Head(cur.left), cur.time)

\* FindMany, at the start and on each tick: the active redirects, the newest
\* 1000 of them; which ones these are is decided outside this module.
FetchActive ==
  /\ spc \in {"start", "idle"}
  /\ \E some \in SUBSET Redirect : NextRedirect(some)
  /\ UNCHANGED <<shutdownVars, hitVars, aggChan, stats, workerVars>>

FetchFails ==
  /\ Faulty
  /\ spc \in {"start", "idle"}
  /\ GotoS("idle", {}, None)
  /\ UNCHANGED <<shutdownVars, hitVars, aggChan, stats, workerVars>>

\* The period has its aggregate already and is skipped.
FindExisting ==
  /\ spc = "find"
  /\ stats[<<cur.redirect, Head(cur.left), Timestamp>>] # None
  /\ NextPeriod
  /\ UNCHANGED <<shutdownVars, hitVars, aggChan, stats, workerVars>>

\* It has none, or the query fails.
FindMissing ==
  /\ spc = "find"
  /\ Faulty \/ stats[<<cur.redirect, Head(cur.left), Timestamp>>] = None
  /\ GotoS("queue", todo, cur)
  /\ UNCHANGED <<shutdownVars, hitVars, aggChan, stats, workerVars>>

\* A job: what was asked for and, once known, the figures.  Auxiliary: known,
\* the hits of the period stored when it was queued, and split, whether hits
\* were stored between the two queries.
AggregationJob(r, p, t) ==
  [redirect |-> r, period |-> p, time |-> t, count |-> 0, ips |-> 0,
   known |-> HitsOf(r, p, t), split |-> FALSE]

\* The job is queued, or dropped when the channel is full.
QueueAggregationJob ==
  /\ spc = "queue"
  /\ aggChan' =
       IF Room(aggChan, AggBuffer)
       THEN Append(aggChan, AggregationJob(cur.redirect, Head(cur.left), Timestamp))
       ELSE aggChan
  /\ NextPeriod
  /\ UNCHANGED <<shutdownVars, hitVars, stats, workerVars>>

\* Between runs only: Stop has closed stopChan and waits.
StopScheduler ==
  /\ spc = "idle"
  /\ phase = "scheduler"
  /\ GotoS("stopped", {}, None)
  /\ UNCHANGED <<shutdownVars, hitVars, aggChan, stats, workerVars>>

-----------------------------------------------------------------------------
\* The process.
Tick ==
  /\ now < MaxTime
  /\ now' = now + 1
  /\ UNCHANGED <<calendar, phase, hitVars, aggChan, stats, workerVars, schedulerVars>>

\* Mutant of AllStopped: Stop does not wait for the workers.
NoneWaitedFor == TRUE

\* s.wg.Wait() of the service's Stop.
AllStopped == \A w \in Worker : wpc[w] = "stopped"

\* The steps of main and Teardown; either server's Shutdown ends when no
\* request is left or when the timeout that the two share has passed.
Shutdown ==
  /\ \/ phase = "running"   /\ phase' = "api"         \* the signal
     \/ phase = "api"       /\ phase' = "handler"     \* apiServer.Shutdown
     \/ phase = "handler"   /\ phase' = "scheduler"   \* handlerServer.Shutdown
     \/ phase = "scheduler" /\ phase' = "workers" /\ spc = "stopped"
  /\ UNCHANGED <<calendar, now, hitVars, aggChan, stats, workerVars, schedulerVars>>

\* A process ends, and its memory with it: requests, channels, what workers hold.
MemoryGone ==
  /\ flight' = {}
  /\ lost' = lost \cup InMemory
  /\ hitChan' = <<>> /\ aggChan' = <<>>

\* The workers have returned, dbCleanup disconnects, main returns.
Exit ==
  /\ phase = "workers" /\ AllStopped
  /\ phase' = "down"
  /\ MemoryGone
  /\ UNCHANGED <<calendar, now, stored, stats, workerVars, schedulerVars>>

\* The process dies, or has exited, and is started again: the collections are
\* all that is left.
Restart ==
  /\ Crashing
  /\ phase' = "running"
  /\ MemoryGone
  /\ wpc' = [w \in Worker |-> "idle"]
  /\ job' = [w \in Worker |-> None]
  /\ GotoS("start", {}, None)
  /\ UNCHANGED <<calendar, now, stored, stats>>

\* The process has exited.
Exited == phase = "down" /\ UNCHANGED vars

HandlerStep ==
  \E h \in Hit :
    \/ Accept(h)
    \/ \E r \in Redirect, ip \in IP : QueueRedirectHit(h, r, ip)

WorkerStep(w) ==
  \/ TakeHit(w) \/ RecordHit(w) \/ RecordFails(w)
  \/ TakeJob(w) \/ CountRedirectHits(w) \/ GetUniqueIPsForPeriod(w)
  \/ CreateAggregatedStats(w) \/ AggregationFails(w) \/ StopWorker(w)

SchedulerRun ==
  \/ FetchActive \/ FetchFails
  \/ FindExisting \/ FindMissing \/ QueueAggregationJob

Next ==
  \/ HandlerStep
  \/ \E w \in Worker : WorkerStep(w)
  \/ SchedulerRun \/ StopScheduler
  \/ Tick \/ Shutdown \/ Exit \/ Restart \/ Exited

\* Goroutines are scheduled, and calls to MongoDB end, as they have a timeout.
\* select chooses at random among the ready cases, so that none of them is
\* passed over for ever.  Nothing makes the signal come.
Fairness ==
  /\ \A w \in Worker : WF_vars(WorkerStep(w)) /\ SF_vars(TakeHit(w))
  /\ WF_vars(SchedulerRun)
  /\ SF_vars(StopScheduler)
  /\ WF_vars(Shutdown /\ phase # "running") /\ WF_vars(Exit)

Spec == Init /\ [][Next]_vars /\ Fairness

-----------------------------------------------------------------------------
JobType ==
  [redirect : Redirect, period : Period, time : 0..MaxTime, count : Nat, ips : Nat,
   known : SUBSET RedirectHit, split : BOOLEAN]

\* Every worker has the job that its next step needs, the channels keep within
\* their capacities, and a scheduler in the middle of a run has periods left.
StatsTypeOK ==
  /\ calendar \in Calendars /\ now \in Time
  /\ phase \in {"running", "api", "handler", "scheduler", "workers", "down"}
  /\ flight \subseteq Hit /\ lost \subseteq Hit
  /\ stored \subseteq RedirectHit
  /\ Range(hitChan) \subseteq RedirectHit /\ Len(hitChan) <= HitBuffer
  /\ \A i \in DOMAIN aggChan : aggChan[i] \in JobType
  /\ Len(aggChan) <= AggBuffer
  /\ \A k \in Key : stats[k] = None \/ stats[k] \in JobType
  /\ \A w \in Worker :
       \/ wpc[w] \in {"idle", "stopped"} /\ job[w] = None
       \/ wpc[w] = "record" /\ job[w] \in RedirectHit
       \/ wpc[w] \in {"count", "ips", "upsert"} /\ job[w] \in JobType
  /\ \/ spc \in {"start", "idle", "stopped"} /\ cur = None /\ todo = {}
     \/ /\ spc \in {"find", "queue"}
        /\ todo \subseteq Redirect
        /\ cur.redirect \in Redirect /\ cur.time \in Time
        /\ cur.left # <<>> /\ IsSuffix(cur.left, Periods)

InChannel(h) == {i \in DOMAIN hitChan : hitChan[i].hit = h}
AtWorker(h) == {w \in Worker : wpc[w] = "record" /\ job[w].hit = h}
Recorded(h) == {d \in stored : d.hit = h}

\* A hit is in one place at most: in a request, in the channel, with one
\* worker, in the collection, or lost.  No two workers record it, no hit is
\* recorded twice, and what counts as lost is in no collection.
HitInOnePlace ==
  \A h \in Hit :
    Cardinality(InChannel(h)) + Cardinality(AtWorker(h)) + Cardinality(Recorded(h))
      + Cardinality({h} \cap lost) + Cardinality({h} \cap flight) <= 1

\* No step forgets a hit.  From the answer of its request on it goes from place
\* to place until it is recorded or lost, and it is lost only as a full channel
\* drops it, as its insertion fails, or with the memory of a process that ends:
\* a stop does not end a worker with a hit in its hands.  It stays recorded or
\* lost, whatever is stopped, fails or restarts.
NoHitForgotten ==
  [][/\ Seen \subseteq Seen'
     /\ stored \subseteq stored'
     /\ lost \subseteq lost']_<<hitVars, workerVars>>

\* README.md:18 has a "graceful shutdown that drains in-flight work", main.go:61
\* logs "draining": when every worker has returned, and the process is about to
\* exit, no hit is left in the channel.  In the code the select of a worker may
\* choose the stop before the hits.
Drained == phase = "workers" /\ AllStopped => hitChan = <<>>

\* Whatever hits arrive while they are counted and whichever of two workers
\* writes last, an aggregate has every hit of its period that was stored when
\* its job was queued, but for those of the end of a period that lasts longer
\* than it is taken to, and no other hits than those of its period and those
\* after it up to the end that calculatePeriodBounds gives it, that instant
\* included.
AggregateBounded ==
  \A k \in Key :
    LET s == stats[k]
        end == EndOf(k[2], k[3])
        least == {h \in s.known : h.at <= end}
        most == HitsOf(k[1], k[2], k[3])
                  \cup {h \in stored : h.redirect = k[1] /\ h.at \in k[3]..end}
    IN s # None =>
         /\ Cardinality(least) <= s.count /\ s.count <= Cardinality(most)
         /\ Cardinality(IPs(least)) <= s.ips /\ s.ips <= Cardinality(IPs(most))

\* An aggregate has more addresses than hits only if a hit was stored between
\* the two queries of processAggregationJob.
UniqueWithinCount ==
  \A k \in Key : stats[k] # None /\ ~stats[k].split => stats[k].ips <= stats[k].count

\* Teardown disconnects the database when the scheduler and every worker have
\* returned: no job is cut off in the middle.
StoppedBeforeDisconnect ==
  phase = "down" => spc = "stopped" /\ \A w \in Worker : wpc[w] = "stopped"

\* Once the signal is there the process ends, whatever is queued, being
\* aggregated or still being served, and whichever calls fail.
ShutdownEnds == phase = "api" ~> phase = "down"

\* A queued hit does not stay in the channel while the process runs: neither
\* the scheduler's jobs nor failing calls keep the workers from it.
QueuedHitsLeave ==
  \A h \in Hit : InChannel(h) # {} ~> InChannel(h) = {} \/ ~Running

\* The aggregate of a period that is over counts every stored hit of it, once
\* no hit and no job of it is on its way.  statistics.go:68 has it so; in the
\* code the aggregate stays as the first run within the period has left it.
AggregatesComplete ==
  \A k \in Key :
    LET Of(j) == j.redirect = k[1] /\ j.period = k[2] /\ j.time = k[3]
        Missing(h) == h.redirect = k[1] /\ StartOf(k[2], h.at) = k[3]
    IN /\ stats[k] # None
       /\ phase = "running"
       /\ now >= EndOf(k[2], k[3])
       /\ \A i \in DOMAIN aggChan : ~Of(aggChan[i])
       /\ \A i \in DOMAIN hitChan : ~Missing(hitChan[i])
       /\ \A w \in Worker : CASE wpc[w] = "record" -> ~Missing(job[w])
                              [] wpc[w] \in {"count", "ips", "upsert"} -> ~Of(job[w])
                              [] OTHER -> TRUE
       /\ spc = "idle"
       => stats[k].count >= Cardinality(HitsOf(k[1], k[2], k[3]))
=============================================================================
