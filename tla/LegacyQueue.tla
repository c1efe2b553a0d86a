----------------------------- MODULE LegacyQueue -----------------------------
(***************************************************************************)
(* The old recommendation pipeline (LEGACY_PIPELINE_ENABLED): its jobs are *)
(* claimed by worker processes under a lease, the pipeline runs for        *)
(* minutes and renews the lease at each stage, its council run and         *)
(* recommendations become visible in one transaction that verifies the     *)
(* ownership of the job, and the job is marked done or failed afterwards.  *)
(*                                                                         *)
(* The claim holds the row lock and the verification is one conditional    *)
(* UPDATE.  The progress and terminal writes are not: each reads the row,  *)
(* compares the token and commits later, so each takes two steps here.     *)
(*                                                                         *)
(* A token is the number of the claim it was made for.  There is no bound  *)
(* on the attempts in the code; MaxClaims is one of the model.             *)
(***************************************************************************)
EXTENDS Integers, Sequences, FiniteSets

CONSTANTS
  Workers,        \* worker processes
  MaxLegacyJobs,  \* bound: rows
  MaxClaims,      \* bound: claims of one row
  LegacyLease     \* job_lease_seconds, in ticks

ASSUME LegacyAssumption ==
  MaxLegacyJobs \in Nat /\ MaxClaims \in Nat /\ LegacyLease \in Nat \ {0}

VARIABLES
  rows,    \* recommendation_jobs in the order of created_at
  runs,    \* council runs with status "done", in the order of their commits
  proc,    \* a worker: the step it is at, its job and its token
  raced    \* history: an attempt's row was claimed again between its check and its write

legacyVars == <<rows, runs, proc, raced>>

Waiting == [at |-> "poll"]
NoRun == 0

LegacyInit ==
  /\ rows = <<>> /\ runs = <<>>
  /\ proc = [w \in Workers |-> Waiting]
  /\ raced = FALSE

\* POST /api/recommendations/jobs
CreateJob ==
  /\ Len(rows) < MaxLegacyJobs
  /\ rows' = Append(rows, [status |-> "queued", token |-> 0, lease |-> 0, run |-> NoRun])
  /\ UNCHANGED <<runs, proc, raced>>

\* queued, or running with an expired lease.
Takable == {j \in DOMAIN rows : rows[j].status = "queued" \/ (rows[j].status = "running" /\ rows[j].lease = 0)}

\* An attempt at work: the row it was given and the token it was given for it.
Running(j, token) == [at |-> "pipeline", job |-> j, token |-> token]

\* _claim_next_job: the oldest row, with a new token and a new lease.
ClaimNext(w) ==
  /\ proc[w] = Waiting
  /\ \E j \in Takable :
       /\ \A i \in Takable : j <= i
       /\ rows[j].token < MaxClaims
       /\ rows' = [rows EXCEPT ![j].status = "running", ![j].token = @ + 1, ![j].lease = LegacyLease]
       /\ proc' = [proc EXCEPT ![w] = Running(j, rows[j].token + 1)]
  /\ UNCHANGED <<runs, raced>>

\* Faulty variant: ownership is taken for granted after the claim.
HoldsAlways(w) == TRUE

\* The token of the row is still the attempt's: what every check of the legacy path compares.  The
\* status is not looked at.
Holds(w) == rows[proc[w].job].token = proc[w].token

\* set_stage reads the row and finds its token ...
StageRead(w) ==
  /\ proc[w].at = "pipeline" /\ Holds(w)
  /\ proc' = [proc EXCEPT ![w] = [at |-> "stage", job |-> @.job, token |-> @.token, found |-> rows[@.job].token]]
  /\ UNCHANGED <<rows, runs, raced>>

\* ... and commits the stage and a new lease.
StageWrite(w) ==
  /\ proc[w].at = "stage"
  /\ rows' = [rows EXCEPT ![proc[w].job].lease = LegacyLease]
  /\ raced' = (raced \/ rows[proc[w].job].token # proc[w].found)
  /\ proc' = [proc EXCEPT ![w] = Running(@.job, @.token)]
  /\ UNCHANGED runs

\* The last commit of the pipeline: verify_ownership renews the lease where the token matches, and the
\* run and its recommendations become visible with it.
PublishRun(w) ==
  /\ proc[w].at = "pipeline" /\ Holds(w)
  /\ rows' = [rows EXCEPT ![proc[w].job].lease = LegacyLease]
  /\ runs' = Append(runs, [job |-> proc[w].job, token |-> proc[w].token])
  /\ proc' = [proc EXCEPT ![w] = [at |-> "mark", job |-> @.job, token |-> @.token, status |-> "done", run |-> Len(runs) + 1]]
  /\ UNCHANGED raced

\* StalePublicationError: everything is rolled back, and nothing is recorded.
LostJob(w) ==
  /\ proc[w].at = "pipeline" /\ ~Holds(w)
  /\ proc' = [proc EXCEPT ![w] = Waiting]
  /\ UNCHANGED <<rows, runs, raced>>

\* The pipeline raises: nothing is published.
PipelineFails(w) ==
  /\ proc[w].at = "pipeline"
  /\ proc' = [proc EXCEPT ![w] = [at |-> "mark", job |-> @.job, token |-> @.token, status |-> "failed", run |-> NoRun]]
  /\ UNCHANGED <<rows, runs, raced>>

\* _mark_done and _mark_terminal read the row; a stale attempt drops its write ...
MarkRead(w) ==
  /\ proc[w].at = "mark"
  /\ proc' = [proc EXCEPT ![w] =
       IF Holds(w) THEN [at |-> "marking", job |-> @.job, found |-> rows[@.job].token, status |-> @.status, run |-> @.run]
       ELSE Waiting]
  /\ UNCHANGED <<rows, runs, raced>>

\* ... and the others commit it.
MarkWrite(w) ==
  /\ proc[w].at = "marking"
  /\ LET p == proc[w]
     IN /\ rows' = [rows EXCEPT ![p.job].status = p.status, ![p.job].run = IF p.status = "done" THEN p.run ELSE @]
        /\ raced' = (raced \/ rows[p.job].token # p.found)
  /\ proc' = [proc EXCEPT ![w] = Waiting]
  /\ UNCHANGED runs

\* A worker process dies and is started again.
WorkerDies(w) ==
  /\ proc[w] # Waiting
  /\ proc' = [proc EXCEPT ![w] = Waiting]
  /\ UNCHANGED <<rows, runs, raced>>

LegacyTick ==
  /\ \E j \in DOMAIN rows : rows[j].lease > 0
  /\ rows' = [j \in DOMAIN rows |-> [rows[j] EXCEPT !.lease = IF @ > 0 THEN @ - 1 ELSE 0]]
  /\ UNCHANGED <<runs, proc, raced>>

LegacyNext ==
  \/ CreateJob
  \/ \E w \in Workers :
       \/ ClaimNext(w) \/ StageRead(w) \/ StageWrite(w) \/ PublishRun(w) \/ LostJob(w) \/ PipelineFails(w)
       \/ MarkRead(w) \/ MarkWrite(w) \/ WorkerDies(w)
  \/ LegacyTick

LegacySpec == LegacyInit /\ [][LegacyNext]_legacyVars

-----------------------------------------------------------------------------
(* What must hold. *)

NewestRun(j, r) == r \in DOMAIN runs /\ runs[r].job = j /\ \A n \in DOMAIN runs : runs[n].job = j => n <= r

\* What is visible follows the attempts.  The runs of a job appear in the order of its attempts, at most
\* one of each: a superseded attempt never puts an older analysis after a newer one.  A job that is done
\* names a run of its own; unless a stale write slipped in between its check and its commit that is the
\* newest one, and a job that failed did so after its newest attempt published nothing.
RunsFollowAttempts ==
  /\ \A m, n \in DOMAIN runs : m < n /\ runs[m].job = runs[n].job => runs[m].token < runs[n].token
  /\ \A j \in DOMAIN rows :
       /\ rows[j].status = "done" => rows[j].run \in DOMAIN runs /\ runs[rows[j].run].job = j
       /\ rows[j].status = "done" /\ ~raced => NewestRun(j, rows[j].run)
       /\ rows[j].status = "failed" /\ ~raced => \A n \in DOMAIN runs : runs[n].job = j => runs[n].token < rows[j].token

=============================================================================
