---------------------------- MODULE RefreshChains ----------------------------
(***************************************************************************)
(* The weekly refreshes of expense ratios (ter_refresh) and of company     *)
(* fundamentals (fundamentals_refresh): chains of time-boxed jobs.  A job  *)
(* takes what its parameters leave (the first one takes all), works until  *)
(* its time is spent and hands the rest, with the tally so far, to the     *)
(* next job.  The parameters are part of what makes two rows equal.        *)
(*                                                                         *)
(* Time is a week number: a row is old when it is from an earlier week.    *)
(***************************************************************************)
EXTENDS BulkQueue, Integers

CONSTANTS
  Amcs,             \* the fund houses
  Companies,        \* the companies of the seed list
  MaxConsecutive,   \* MAX_CONSECUTIVE_FAILURES
  MaxWeek           \* bound: weeks

ASSUME RefreshAssumption == MaxConsecutive \in Nat \ {0} /\ MaxWeek \in Nat \ {0}

VARIABLES
  week,
  ter,         \* per fund house, the week of its expense ratios; 0 is none
  matched,     \* the week of the last matching pass; 0 is none
  retrieved,   \* per company, the week of its newest fundamentals; 0 is none
  recent       \* a fundamentals job was created in the last six hours

data == <<ter, matched, retrieved>>
rvars == <<jobs, gaveUp, worker, week, ter, matched, retrieved, recent, faults>>

RInit ==
  /\ jobs = <<>> /\ gaveUp = {} /\ worker = Idle /\ week = 1
  /\ ter = [a \in Amcs |-> 0] /\ matched = 0
  /\ retrieved = [c \in Companies |-> 0]
  /\ recent = FALSE /\ faults = 0

NextWeek ==
  /\ week < MaxWeek /\ jobs = <<>>
  /\ week' = week + 1
  /\ UNCHANGED <<queueVars, data, recent, faults>>

\* Six hours are longer than any chain, with its leases and pauses.
HoursPass ==
  /\ recent /\ jobs = <<>>
  /\ recent' = FALSE
  /\ UNCHANGED <<queueVars, week, data, faults>>

-----------------------------------------------------------------------------
(* The scheduler.                                                          *)

\* The newest row decides, so a chain that broke off leaves the rest for the next week.
TerDue == \A a \in Amcs : ter[a] < week

MaybeTer ==
  /\ TerDue /\ HasRoom
  /\ ~Blocked(jobs, "ter_refresh", NoParams, 0)
  /\ jobs' = Enqueued(jobs, "ter_refresh", NoParams, 0)
  /\ UNCHANGED <<gaveUp, worker, week, data, recent, faults>>

\* Every company that already has fundamentals, else the seed list.
Universe ==
  IF \E c \in Companies : retrieved[c] > 0 THEN {c \in Companies : retrieved[c] > 0} ELSE Companies

\* Mutant: the newest row decides, as it does for the expense ratios.
NewestDue == ~recent /\ \A c \in Universe : retrieved[c] < week

FundamentalsDue == ~recent /\ \E c \in Universe : retrieved[c] < week

MaybeFundamentals ==
  /\ FundamentalsDue /\ HasRoom
  /\ ~Blocked(jobs, "fundamentals_refresh", NoParams, 0)
  /\ jobs' = Enqueued(jobs, "fundamentals_refresh", NoParams, 0)
  /\ recent' = TRUE
  /\ UNCHANGED <<gaveUp, worker, week, data, faults>>

-----------------------------------------------------------------------------
(* ter_refresh.                                                            *)

First == worker.params = NoParams

\* What a job takes over: what is left, with the failures so far, or everything.
Takes(all) == IF First THEN all ELSE worker.params.ids

Begins(all) ==
  worker' = [at |-> "fetch", job |-> Running, kind |-> worker.kind, params |-> worker.params, todo |-> Takes(all), size |-> Cardinality(Takes(all)),
             failed |-> worker.params.failed, consecutive |-> 0, aborted |-> FALSE]

\* The time of the job is spent with work left over; it took at least one item.
TimeSpent == worker.todo # {} /\ Cardinality(worker.todo) < worker.size

\* Mutant: the next job starts a list of failures of its own.
RestFresh(w) == Params(w.todo, {})

Rest(w) == Params(w.todo, w.failed)

TerStart ==
  /\ Processing("ter_refresh", "start")
  /\ Begins(Amcs)
  /\ UNCHANGED <<jobs, gaveUp, week, data, recent, faults>>

\* The list of fund houses cannot be read: tried again.
TerListFails ==
  /\ Processing("ter_refresh", "start") /\ First
  /\ Fault /\ Ends("UNAVAILABLE")
  /\ UNCHANGED <<week, data, recent>>

TerFetch ==
  /\ Processing("ter_refresh", "fetch") /\ worker.todo # {}
  /\ ter' = [ter EXCEPT ![Current] = week]
  /\ worker' = [worker EXCEPT !.todo = @ \ {Current}]
  /\ UNCHANGED <<jobs, gaveUp, week, matched, retrieved, recent, faults>>

\* A failed fund house is reported and skipped.
TerFetchFails ==
  /\ Processing("ter_refresh", "fetch") /\ worker.todo # {} /\ Fault
  /\ worker' = [worker EXCEPT !.todo = @ \ {Current}, !.failed = @ \cup {Current}]
  /\ UNCHANGED <<jobs, gaveUp, week, data, recent>>

TerBudget ==
  /\ Processing("ter_refresh", "fetch") /\ HasRoom /\ TimeSpent
  /\ jobs' = Enqueued(jobs, "ter_refresh", Rest(worker), Running)
  /\ worker' = [worker EXCEPT !.at = "finish"]
  /\ UNCHANGED <<gaveUp, week, data, recent, faults>>

TerMatch ==
  /\ Processing("ter_refresh", "fetch") /\ worker.todo = {}
  /\ matched' = week
  /\ worker' = [worker EXCEPT !.at = "finish"]
  /\ UNCHANGED <<jobs, gaveUp, week, ter, retrieved, recent, faults>>

-----------------------------------------------------------------------------
(* fundamentals_refresh.                                                   *)

FundStart ==
  /\ Processing("fundamentals_refresh", "start")
  /\ Begins(Universe)
  /\ UNCHANGED <<jobs, gaveUp, week, data, recent, faults>>

FundFetch ==
  /\ Processing("fundamentals_refresh", "fetch") /\ worker.todo # {} /\ ~worker.aborted
  /\ retrieved' = [retrieved EXCEPT ![Current] = week]
  /\ worker' = [worker EXCEPT !.todo = @ \ {Current}, !.consecutive = 0]
  /\ UNCHANGED <<jobs, gaveUp, week, ter, matched, recent, faults>>

\* A run of failures stops the chain.
FundFetchFails ==
  /\ Processing("fundamentals_refresh", "fetch") /\ worker.todo # {} /\ ~worker.aborted /\ Fault
  /\ worker' = [worker EXCEPT !.todo = @ \ {Current}, !.failed = @ \cup {Current},
                              !.consecutive = @ + 1,
                              !.aborted = worker.consecutive + 1 >= MaxConsecutive]
  /\ UNCHANGED <<jobs, gaveUp, week, data, recent>>

\* An unexpected error is INTERNAL, which is not tried again.
FundCrash ==
  /\ Processing("fundamentals_refresh", "fetch")
  /\ Fault /\ Ends("INTERNAL")
  /\ UNCHANGED <<week, data, recent>>

FundBudget ==
  /\ Processing("fundamentals_refresh", "fetch") /\ HasRoom /\ TimeSpent /\ ~worker.aborted
  /\ jobs' = Enqueued(jobs, "fundamentals_refresh", Rest(worker), Running)
  /\ recent' = TRUE
  /\ worker' = [worker EXCEPT !.at = "finish"]
  /\ UNCHANGED <<gaveUp, week, data, faults>>

FundLast ==
  /\ Processing("fundamentals_refresh", "fetch") /\ (worker.todo = {} \/ worker.aborted)
  /\ worker' = [worker EXCEPT !.at = "finish"]
  /\ UNCHANGED <<jobs, gaveUp, week, data, recent, faults>>

-----------------------------------------------------------------------------
(* The queue.                                                              *)

FinishJob ==
  /\ worker.at = "finish"
  /\ Finish(Running) /\ worker' = Idle
  /\ UNCHANGED <<week, data, recent, faults>>

RClaim == Claim /\ UNCHANGED <<week, data, recent, faults>>

RComesDue(j) == ComesDue(j) /\ UNCHANGED <<week, data, recent, faults>>

RDies == Fault /\ Dies /\ UNCHANGED <<week, data, recent>>

RefreshStep ==
  \/ RClaim
  \/ TerStart \/ TerFetch \/ TerBudget \/ TerMatch
  \/ FundStart \/ FundFetch \/ FundBudget \/ FundLast
  \/ FinishJob

RNext ==
  \/ NextWeek \/ HoursPass \/ MaybeTer \/ MaybeFundamentals
  \/ RefreshStep
  \/ TerListFails \/ TerFetchFails \/ FundFetchFails \/ FundCrash
  \/ \E j \in 1 .. MaxJobs : RComesDue(j)
  \/ RDies

RSpec == RInit /\ [][RNext]_rvars

\* The worker polls and the scheduler ticks for ever; pauses, leases and hours pass.
RFairness ==
  /\ WF_rvars(RefreshStep) /\ WF_rvars(MaybeTer) /\ WF_rvars(MaybeFundamentals) /\ WF_rvars(HoursPass)
  /\ \A j \in 1 .. MaxJobs : WF_rvars(RComesDue(j))

RFairSpec == RSpec /\ RFairness

-----------------------------------------------------------------------------
(* Properties.                                                             *)

\* The type invariant of the refreshes' own tables next to that of the queue.
RefTypeOK ==
  /\ BTypeOK
  /\ week \in 1 .. MaxWeek /\ matched \in 0 .. week
  /\ ter \in [Amcs -> 0 .. week] /\ retrieved \in [Companies -> 0 .. week]
  /\ recent \in BOOLEAN

\* Whatever dies and is taken up again, the job that ends a chain of expense-ratio jobs accounts for
\* every fund house: it has this week's ratios or is in the report of failures.
TerAccounted ==
  /\ RefTypeOK
  /\ Processing("ter_refresh", "finish") /\ worker.todo = {}
    => \A a \in Amcs : ter[a] = week \/ a \in worker.failed

\* "the scheduler tries again later" (fundamentals/jobs.py): a company that has fundamentals gets
\* those of the current week, after failures, aborted chains and deaths of the worker.
FundamentalsFresh ==
  \A c \in Companies : (c \in Universe /\ retrieved[c] > 0) ~> (retrieved[c] = week)
=============================================================================
