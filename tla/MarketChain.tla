----------------------------- MODULE MarketChain -----------------------------
(***************************************************************************)
(* The nightly market chain: the close pass of the scheduler queues a      *)
(* candle backfill, a backfill of any size is a chain of jobs that take    *)
(* one chunk each, the job that leaves nothing behind queues the signals,  *)
(* the signals queue the forecasts, and these are again a chain.           *)
(*                                                                         *)
(* Each write the handlers commit is an action, so the worker can die      *)
(* between any two of them; so is the check of the API process for a live  *)
(* row and its insert, which hold no lock in between.                      *)
(***************************************************************************)
EXTENDS BulkQueue, Integers

CONSTANTS
  Securities,
  Tier,            \* 0 watched, 1 ETF, 2 stock with a sector, 3 the rest
  MaxTier,         \* DEFAULT_MAX_TIER
  BackfillChunk,   \* BACKFILL_CHUNK
  Shortlist,       \* the securities that get forecasts, in their order
  Unforecastable,  \* those for which the model always fails
  ForecastChunk,   \* CHUNK of the forecasts
  Asked,           \* what the owner asks for: sets of one security, or {} for all
  MaxAsked,        \* bound: the owner asks while there are fewer rows
  MaxDate          \* bound: days

ASSUME MarketAssumption ==
  /\ Tier \in [Securities -> 0 .. 3] /\ MaxTier \in 0 .. 3
  /\ BackfillChunk \in Nat \ {0} /\ ForecastChunk \in Nat \ {0}
  /\ Shortlist \in Seq(Securities) /\ Unforecastable \subseteq Securities
  /\ Asked \subseteq SUBSET Securities /\ MaxAsked \in 0 .. MaxJobs
  /\ MaxDate \in Nat \ {0}

VARIABLES
  date, closed,    \* the date at the exchange, and whether the close of that date is final
  session,         \* a valid broker session
  last, fetched,   \* candle_sync: newest stored day and date of the last fetch; 0 is never
  signals, forecasts,  \* stored rows: a security and the day they were computed for
  marker,          \* the date of the last close pass
  pass,            \* the close pass: "idle", or where it is
  raced            \* history: a row was inserted although the one it would duplicate had appeared

stores == <<last, fetched, signals, forecasts>>
clock == <<date, closed, session>>
scheduler == <<marker, pass>>
mvars == <<jobs, gaveUp, worker, date, closed, session, last, fetched, signals, forecasts,
           marker, pass, faults, raced>>

\* The most recent day whose close is final, at a date.
ExpectedAt(d, final) == IF final THEN d ELSE d - 1
Expected == ExpectedAt(date, closed)

\* The securities a bulk backfill has to fetch: behind the last final close and not tried today.
Targets(d, final) ==
  {s \in Securities :
     /\ Tier[s] <= MaxTier
     /\ last[s] < ExpectedAt(d, final)
     /\ fetched[s] # d}

MInit ==
  /\ jobs = <<>> /\ gaveUp = {} /\ worker = Idle
  /\ date = 1 /\ closed = FALSE /\ session \in BOOLEAN
  /\ last = [s \in Securities |-> 0] /\ fetched = last
  /\ signals = {} /\ forecasts = {}
  /\ marker = 0 /\ pass = "idle"
  /\ faults = 0 /\ raced = FALSE

-----------------------------------------------------------------------------
(* The days, the broker session and the owner.                             *)

NextDay ==
  /\ closed /\ date < MaxDate /\ pass = "idle"
  /\ date' = date + 1 /\ closed' = FALSE
  /\ UNCHANGED <<queueVars, session, stores, scheduler, faults, raced>>

Close ==
  /\ ~closed /\ closed' = TRUE
  /\ UNCHANGED <<queueVars, date, session, stores, scheduler, faults, raced>>

SessionEnds ==
  /\ session /\ session' = FALSE
  /\ UNCHANGED <<queueVars, date, closed, stores, scheduler, faults, raced>>

\* The owner opens a security, or asks for a bulk fetch of all.
OnDemand(ids) ==
  /\ Len(jobs) < MaxAsked
  /\ ~Blocked(jobs, "candle_backfill", Params(ids, {}), 0)
  /\ jobs' = Enqueued(jobs, "candle_backfill", Params(ids, {}), 0)
  /\ UNCHANGED <<gaveUp, worker, clock, stores, scheduler, faults, raced>>

-----------------------------------------------------------------------------
(* The close pass, in the API process.                                     *)

\* The unique marker is committed first; a restart after it loses the pass of the day.
Tick ==
  /\ closed /\ marker # date /\ pass = "idle"
  /\ marker' = date
  /\ pass' = IF session THEN "queue" ELSE "idle"
  /\ UNCHANGED <<queueVars, clock, stores, faults, raced>>

\* enqueue_backfill reads the live rows ...
QueueCheck ==
  /\ pass = "queue"
  /\ pass' = IF Blocked(jobs, "candle_backfill", NoParams, 0) THEN "idle" ELSE "insert"
  /\ UNCHANGED <<queueVars, clock, stores, marker, faults, raced>>

\* ... and inserts without having locked them.
QueueInsert ==
  /\ pass = "insert" /\ HasRoom
  /\ jobs' = Append(jobs, Row("candle_backfill", NoParams))
  /\ raced' = (raced \/ Blocked(jobs, "candle_backfill", NoParams, 0))
  /\ pass' = "idle"
  /\ UNCHANGED <<gaveUp, worker, clock, stores, marker, faults>>

-----------------------------------------------------------------------------
(* candle_backfill: process_market_job.                                    *)

\* The chunk is taken from the front of the list, watched securities first.
ChunkOf(S) ==
  {T \in kSubset(Min({BackfillChunk, Cardinality(S)}), S) :
     \A s \in T, r \in S \ T : Tier[s] <= Tier[r]}

BackfillStart ==
  /\ Processing("candle_backfill", "start")
  /\ IF ~session
     THEN Ends("AUTH_EXPIRED")
     ELSE /\ \E T \in IF worker.params = NoParams THEN ChunkOf(Targets(date, closed))
                      ELSE {worker.params.ids} :
               worker' = [at |-> "fetch", job |-> Running, kind |-> worker.kind,
                          params |-> worker.params, todo |-> T, clock |-> <<date, closed>>]
          /\ UNCHANGED <<jobs, gaveUp>>
  /\ UNCHANGED <<clock, stores, scheduler, faults, raced>>

\* One security is fetched and committed.  The date of the fetch keeps it from being asked for again
\* on that day, also when the answer failed or brought nothing.
Fetched(day) ==
  /\ Processing("candle_backfill", "fetch") /\ worker.todo # {}
  /\ last' = [last EXCEPT ![Current] = day]
  /\ fetched' = [fetched EXCEPT ![Current] = worker.clock[1]]
  /\ worker' = [worker EXCEPT !.todo = @ \ {Current}]
  /\ UNCHANGED <<jobs, gaveUp, clock, signals, forecasts, scheduler, raced>>

Fetch == Fetched(Min({Expected, worker.clock[1]})) /\ UNCHANGED faults

FetchNothing == Fault /\ Fetched(last[Current])

\* An expired session or the rate limit ends the job; what was fetched before is committed.
FetchRefused(code) ==
  /\ Processing("candle_backfill", "fetch") /\ worker.todo # {}
  /\ code = "AUTH_EXPIRED" => ~session
  /\ Fault /\ Ends(code)
  /\ UNCHANGED <<clock, stores, scheduler, raced>>

\* A bulk job that leaves work behind queues its own follow-up; the last one queues the signals.
\* What is left is judged by the clock the job started with.
FollowUp(queue, left) ==
  IF left # {} THEN Enqueued(queue, "candle_backfill", NoParams, Running)
  ELSE Enqueued(queue, "signals_compute", NoParams, 0)

BackfillNext ==
  /\ Processing("candle_backfill", "fetch") /\ worker.todo = {} /\ HasRoom
  /\ jobs' = IF worker.params = NoParams
             THEN FollowUp(jobs, Targets(worker.clock[1], worker.clock[2])) ELSE jobs
  /\ worker' = [worker EXCEPT !.at = "finish"]
  /\ UNCHANGED <<gaveUp, clock, stores, scheduler, faults, raced>>

BackfillFinish ==
  /\ Processing("candle_backfill", "finish")
  /\ Finish(Running) /\ worker' = Idle
  /\ UNCHANGED <<clock, stores, scheduler, faults, raced>>

-----------------------------------------------------------------------------
(* signals_compute: process_signals_job.                                   *)

\* Rows are only inserted: one that exists for a security and its newest day is left as it is.
Compute ==
  /\ Processing("signals_compute", "start")
  /\ signals' = signals \cup {<<s, last[s]>> : s \in {x \in Securities : last[x] > 0}}
  /\ worker' = [worker EXCEPT !.at = "finish"]
  /\ UNCHANGED <<jobs, gaveUp, clock, last, fetched, forecasts, scheduler, faults, raced>>

\* A crash of the computation is INTERNAL, which is not tried again.
ComputeFails ==
  /\ Processing("signals_compute", "start")
  /\ Fault /\ Ends("INTERNAL")
  /\ UNCHANGED <<clock, stores, scheduler, raced>>

SignalsFinish ==
  /\ Processing("signals_compute", "finish")
  /\ Finish(Running)
  /\ worker' = [worker EXCEPT !.at = "after", !.job = 0]
  /\ UNCHANGED <<clock, stores, scheduler, faults, raced>>

\* Only after the job is done are the forecasts queued.
SignalsAfter ==
  /\ Processing("signals_compute", "after") /\ HasRoom
  /\ jobs' = Enqueued(jobs, "kronos_forecast", NoParams, 0)
  /\ worker' = Idle
  /\ UNCHANGED <<gaveUp, clock, stores, scheduler, faults, raced>>

-----------------------------------------------------------------------------
(* kronos_forecast: process_forecast_job.                                  *)

\* The places of the shortlist whose security has a newest day that has no forecast yet.
Pending ==
  {i \in DOMAIN Shortlist :
     LET s == Shortlist[i] IN last[s] > 0 /\ <<s, last[s]>> \notin forecasts}

ForecastStart ==
  /\ Processing("kronos_forecast", "start")
  /\ worker' = [at |-> "model", job |-> Running, kind |-> worker.kind,
                todo |-> {i \in Pending : Cardinality({k \in Pending : k < i}) < ForecastChunk},
                done |-> 0, size |-> Cardinality(Pending)]
  /\ UNCHANGED <<jobs, gaveUp, clock, stores, scheduler, faults, raced>>

\* In the order of the shortlist.
Forecast ==
  /\ Processing("kronos_forecast", "model") /\ worker.todo # {}
  /\ LET i == Min(worker.todo)
         s == Shortlist[i]
     IN IF s \in Unforecastable
        THEN /\ worker' = [worker EXCEPT !.todo = @ \ {i}]
             /\ UNCHANGED forecasts
        ELSE /\ worker' = [worker EXCEPT !.todo = @ \ {i}, !.done = @ + 1]
             /\ forecasts' = forecasts \cup {<<s, last[s]>>}
  /\ UNCHANGED <<jobs, gaveUp, clock, last, fetched, signals, scheduler, faults, raced>>

\* The chain goes on while a job made progress; the failed ones stay pending at the front.
ForecastNext ==
  /\ Processing("kronos_forecast", "model") /\ worker.todo = {} /\ HasRoom
  /\ jobs' = IF worker.size > ForecastChunk /\ worker.done > 0
             THEN Enqueued(jobs, "kronos_forecast", NoParams, Running) ELSE jobs
  /\ worker' = [at |-> "finish", job |-> Running, kind |-> worker.kind,
                failing |-> worker.size > 0 /\ worker.done = 0]
  /\ UNCHANGED <<gaveUp, clock, stores, scheduler, faults, raced>>

\* A chunk in which every forecast failed is tried again and then given up.
ForecastFinish ==
  /\ Processing("kronos_forecast", "finish")
  /\ IF worker.failing THEN Fail(Running, "UNAVAILABLE") ELSE Finish(Running)
  /\ worker' = Idle
  /\ UNCHANGED <<clock, stores, scheduler, faults, raced>>

-----------------------------------------------------------------------------
(* The queue.                                                              *)

MClaim == Claim /\ UNCHANGED <<clock, stores, scheduler, faults, raced>>

MComesDue(j) == ComesDue(j) /\ UNCHANGED <<clock, stores, scheduler, faults, raced>>

MDies ==
  /\ Fault /\ Dies
  /\ UNCHANGED <<clock, stores, scheduler, raced>>

MarketStep ==
  \/ MClaim
  \/ BackfillStart \/ Fetch \/ FetchNothing \/ BackfillNext \/ BackfillFinish
  \/ Compute \/ SignalsFinish \/ SignalsAfter
  \/ ForecastStart \/ Forecast \/ ForecastNext \/ ForecastFinish

MNext ==
  \/ NextDay \/ Close \/ SessionEnds
  \/ \E ids \in Asked : OnDemand(ids)
  \/ Tick \/ QueueCheck \/ QueueInsert
  \/ MarketStep
  \/ \E code \in {"AUTH_EXPIRED", "RATE_LIMITED"} : FetchRefused(code)
  \/ ComputeFails
  \/ \E j \in 1 .. MaxJobs : MComesDue(j)
  \/ MDies

MSpec == MInit /\ [][MNext]_mvars

\* The worker polls for ever, and leases and pauses end.
MFairness == WF_mvars(MarketStep) /\ \A j \in 1 .. MaxJobs : WF_mvars(MComesDue(j))

MFairSpec == MSpec /\ MFairness

-----------------------------------------------------------------------------
(* Properties.                                                             *)

\* The type invariant of the queue, the stores and the scheduler.
MTypeOK ==
  /\ BTypeOK
  /\ date \in 1 .. MaxDate /\ closed \in BOOLEAN /\ session \in BOOLEAN
  /\ \A s \in Securities : last[s] \in 0 .. Expected /\ fetched[s] \in 0 .. date
  /\ signals \cup forecasts \subseteq Securities \X (1 .. Expected)
  /\ marker \in 0 .. date /\ pass \in {"idle", "queue", "insert"}
  /\ raced \in BOOLEAN

Bulk == {j \in OfKind(jobs, "candle_backfill") : jobs[j].params = NoParams}

\* The chain does not fork: next to the job that runs there is at most one more bulk backfill,
\* its follow-up, whatever dies and is taken up again; only an insert that raced adds one.
OneChain == MTypeOK /\ (Cardinality(Bulk) > 2 => raced)

Tried(s, d) == last[s] >= d \/ fetched[s] >= d

\* A bulk backfill that waits after the close of a day is carried through, over any number of jobs,
\* deaths of the worker and on-demand jobs: every security of the bulk tiers is fetched or was tried
\* for that close, and every security with candles has its signals.
ChainDelivers ==
  \A d \in 1 .. MaxDate :
    (closed /\ date = d /\ \E j \in Bulk : jobs[j].status = "queued")
      ~> \/ /\ \A s \in Securities : Tier[s] <= MaxTier => Tried(s, d)
            /\ \A s \in Securities : last[s] > 0 => <<s, last[s]>> \in signals
         \/ ~session \/ gaveUp # {}

\* A forecast chain reaches every security it can forecast, as long as fewer of them fail than fit
\* in one job; a full chunk of failures at the front would keep the rest waiting.
ForecastsReach ==
  (/\ \E j \in DOMAIN jobs : jobs[j].kind = "kronos_forecast"
   /\ Cardinality(Unforecastable) < ForecastChunk)
    ~> (\A i \in Pending : Shortlist[i] \in Unforecastable) \/ gaveUp # {}

\* What the chains of the market owe: every close fetched with its signals, every forecast that can be made.
ChainsDeliver == ChainDelivers /\ ForecastsReach
=============================================================================
