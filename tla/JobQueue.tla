------------------------------ MODULE JobQueue ------------------------------
(***************************************************************************)
(* The portfolio_jobs table and the executors that work on it: the worker  *)
(* process (app/worker.py, every kind) and the API process, which drains   *)
(* reviews and syncs inline (scheduler.run_inline, run_queued_reviews).    *)
(*                                                                         *)
(* Every claim and every write back to a row is one database transaction   *)
(* that holds the row lock (SELECT ... FOR UPDATE), so each is one action. *)
(* What happens between two transactions of an attempt (the broker call,   *)
(* the computation) takes any amount of time: the lease may run out and    *)
(* another executor may take the row over meanwhile.                       *)
(*                                                                         *)
(* Time is kept as countdowns: lease[j] is 0 once lease_expires_at < now,  *)
(* backoff[j] is 0 once not_before <= now.  A token (a uuid4 in the code)  *)
(* is the number of the attempt it was made for; 0 is NULL.                *)
(***************************************************************************)
EXTENDS Integers, FiniteSets

CONSTANTS
  MaxJobs,        \* bound: rows ever inserted
  Executors,      \* processes that claim jobs
  Serves,         \* the kinds each executor asks for
  MaxAttempts,    \* MAX_ATTEMPTS
  LeaseTicks,     \* job_lease_seconds, in ticks
  Backoff         \* BACKOFF_BASE_SECONDS * 2 ** (n - 1) for the n-th attempt, in ticks

\* "refresh" stands for every bulk kind: catalogue_refresh, market_snapshot, candle_backfill,
\* signals_compute, kronos_forecast, ledger_study, ter_refresh, fund_nav_sync, fundamentals_refresh.
Kinds == {"account_sync", "review", "refresh"}

\* "absent": the row has not been inserted yet.
Statuses == {"absent", "queued", "running", "done", "failed"}

RETRYABLE == {"RATE_LIMITED", "UNAVAILABLE"}
Codes == RETRYABLE \cup {"AUTH_EXPIRED", "IDENTITY_CONFLICT", "BAD_RESPONSE", "PARTIAL_DATA", "INTERNAL"}

\* Row identifiers follow created_at, the order in which claims are served.
Jobs == 1 .. MaxJobs

ASSUME QueueAssumption ==
  /\ MaxJobs \in Nat
  /\ MaxAttempts \in Nat \ {0}
  /\ LeaseTicks \in Nat \ {0}
  /\ Backoff \in [1 .. MaxAttempts -> Nat]
  /\ \A n \in 1 .. MaxAttempts - 1 : Backoff[n + 1] = 2 * Backoff[n]
  /\ Serves \in [Executors -> SUBSET Kinds]

VARIABLES
  created,    \* rows inserted so far
  kind, status, attempts, token, lease, backoff, error,   \* the columns of a row
  results,    \* attempts whose import, outcome or summary was committed as the result of a row
  pc, cur, mine, found   \* an executor: where it is, its job, its token, what its attempt found

rowVars == <<created, kind, status, attempts, token, lease, backoff, error, results>>
execVars == <<pc, cur, mine, found>>
vars == <<rowVars, execVars>>

\* What an attempt can end with, by kind: a success ("complete"), an incomplete batch of a sync
\* (published as a failure), a review with no snapshot to review ("empty"), an incomplete refresh,
\* or a typed error.
Findings == Codes \cup {"complete", "partial", "empty", "incomplete"}
FindingsOf(k) ==
  CASE k = "account_sync" -> {"complete", "partial"} \cup (Codes \ {"PARTIAL_DATA"})
    [] k = "review"       -> {"complete", "empty", "INTERNAL"}
    [] k = "refresh"      -> {"complete", "incomplete"} \cup (Codes \ {"PARTIAL_DATA", "IDENTITY_CONFLICT"})

PCs == {"idle", "work", "publish", "note", "fail"}

Terminal == {"done", "failed"}
Live(j) == status[j] \in {"queued", "running"}

-----------------------------------------------------------------------------
Init ==
  /\ created = 0
  /\ kind = [j \in Jobs |-> "refresh"]
  /\ status = [j \in Jobs |-> "absent"]
  /\ attempts = [j \in Jobs |-> 0]
  /\ token = [j \in Jobs |-> 0]
  /\ lease = [j \in Jobs |-> 0]
  /\ backoff = [j \in Jobs |-> 0]
  /\ error = [j \in Jobs |-> "none"]
  /\ results = [j \in Jobs |-> {}]
  /\ pc = [w \in Executors |-> "idle"]
  /\ cur = [w \in Executors |-> 0]
  /\ mine = [w \in Executors |-> 0]
  /\ found = [w \in Executors |-> "complete"]

\* The executor returns to its loop; the attempt's local state is gone.
GoIdle(w) ==
  /\ pc' = [pc EXCEPT ![w] = "idle"]
  /\ cur' = [cur EXCEPT ![w] = 0]
  /\ mine' = [mine EXCEPT ![w] = 0]
  /\ found' = [found EXCEPT ![w] = "complete"]

\* A request, the scheduler or a finished job inserts a queued row.
Enqueue(k) ==
  /\ created < MaxJobs
  /\ created' = created + 1
  /\ kind' = [kind EXCEPT ![created + 1] = k]
  /\ status' = [status EXCEPT ![created + 1] = "queued"]
  /\ UNCHANGED <<attempts, token, lease, backoff, error, results, execVars>>

\* Faulty variant: an abandoned running row is not offered again.
ClaimableQueued(w) == {j \in Jobs : kind[j] \in Serves[w] /\ status[j] = "queued" /\ backoff[j] = 0}

\* The rows the claim query selects: queued and due, or running with an expired lease.
Claimable(w) ==
  {j \in Jobs : /\ kind[j] \in Serves[w]
                /\ \/ status[j] = "queued" /\ backoff[j] = 0
                   \/ status[j] = "running" /\ lease[j] = 0}

\* ORDER BY created_at LIMIT 1
Oldest(S, j) == j \in S /\ \A i \in S : j <= i

\* Faulty variant: a reclaimed row keeps the token of the attempt that lost it.
KeptToken(j) == IF token[j] = 0 THEN attempts[j] + 1 ELSE token[j]

FreshToken(j) == attempts[j] + 1

\* Faulty variant: one attempt too many.
ExhaustedLate(j) == attempts[j] > MaxAttempts

Exhausted(j) == attempts[j] >= MaxAttempts

Claim(w) ==
  /\ pc[w] = "idle"
  /\ \E j \in Jobs :
       /\ Oldest(Claimable(w), j)
       /\ ~Exhausted(j)
       /\ status' = [status EXCEPT ![j] = "running"]
       /\ attempts' = [attempts EXCEPT ![j] = @ + 1]
       /\ token' = [token EXCEPT ![j] = FreshToken(j)]
       /\ lease' = [lease EXCEPT ![j] = LeaseTicks]
       /\ cur' = [cur EXCEPT ![w] = j]
       /\ mine' = [mine EXCEPT ![w] = FreshToken(j)]
  /\ pc' = [pc EXCEPT ![w] = "work"]
  /\ UNCHANGED <<created, kind, backoff, error, results, found>>

\* A job abandoned MAX_ATTEMPTS times is failed by the claim itself, which then returns no job.
Abandon(w) ==
  /\ pc[w] = "idle"
  /\ \E j \in Jobs :
       /\ Oldest(Claimable(w), j)
       /\ Exhausted(j)
       /\ status' = [status EXCEPT ![j] = "failed"]
       /\ error' = [error EXCEPT ![j] = "INTERNAL"]
  /\ UNCHANGED <<created, kind, attempts, token, lease, backoff, results, execVars>>

\* The handler of the kind runs outside any transaction on the row and ends with a finding.
Work(w) ==
  /\ pc[w] = "work"
  /\ \E f \in FindingsOf(kind[cur[w]]) :
       /\ found' = [found EXCEPT ![w] = f]
       /\ pc' = [pc EXCEPT ![w] = CASE f \in {"complete", "partial", "empty"} -> "publish"
                                    [] f = "incomplete" -> "note"
                                    [] OTHER -> "fail"]
  /\ UNCHANGED <<rowVars, cur, mine>>

\* Faulty variants of the fence: one forgets the status, one the token.
OwnsByToken(w) == token[cur[w]] = mine[w]
OwnsByStatus(w) == status[cur[w]] = "running"

\* The fence every write back is guarded by, evaluated on the locked row.
Owns(w) == token[cur[w]] = mine[w] /\ status[cur[w]] = "running"

\* publish_sync_result, publish_review and finish_job(complete=True): the result and the terminal
\* status in one transaction, or nothing at all.  An incomplete sync is stored but fails the job; a
\* review that found nothing to review is done without an outcome.
Publish(w) ==
  /\ pc[w] = "publish"
  /\ Owns(w)
  /\ results' = [results EXCEPT ![cur[w]] = IF found[w] = "empty" THEN @ ELSE @ \cup {mine[w]}]
  /\ IF found[w] = "partial"
     THEN /\ status' = [status EXCEPT ![cur[w]] = "failed"]
          /\ error' = [error EXCEPT ![cur[w]] = "PARTIAL_DATA"]
     ELSE /\ status' = [status EXCEPT ![cur[w]] = "done"]
          /\ error' = [error EXCEPT ![cur[w]] = IF kind[cur[w]] = "refresh" THEN "none" ELSE @]
  /\ GoIdle(w)
  /\ UNCHANGED <<created, kind, attempts, token, lease, backoff>>

\* finish_job(complete=False): the summary is recorded, the row stays running and the caller
\* goes on to _fail with UNAVAILABLE.  (The summary overwrites the previous one: it is not a result.)
Note(w) ==
  /\ pc[w] = "note"
  /\ Owns(w)
  /\ pc' = [pc EXCEPT ![w] = "fail"]
  /\ found' = [found EXCEPT ![w] = "UNAVAILABLE"]
  /\ UNCHANGED <<rowVars, cur, mine>>

\* Faulty variant: the last permitted retry is not made.
RetriesEarly(w) ==
  /\ found[w] \in RETRYABLE
  /\ kind[cur[w]] # "review"
  /\ attempts[cur[w]] < MaxAttempts - 1

Retries(w) ==
  /\ found[w] \in RETRYABLE
  /\ kind[cur[w]] # "review"
  /\ attempts[cur[w]] < MaxAttempts

\* _fail on a row the attempt owns: back to the queue after a backoff, or failed for good.
Fail(w) ==
  /\ pc[w] = "fail"
  /\ Owns(w)
  /\ error' = [error EXCEPT ![cur[w]] = found[w]]
  /\ IF Retries(w)
     THEN /\ status' = [status EXCEPT ![cur[w]] = "queued"]
          /\ token' = [token EXCEPT ![cur[w]] = 0]
          /\ lease' = [lease EXCEPT ![cur[w]] = 0]
          /\ backoff' = [backoff EXCEPT ![cur[w]] = Backoff[attempts[cur[w]]]]
     ELSE /\ status' = [status EXCEPT ![cur[w]] = "failed"]
          /\ UNCHANGED <<token, lease, backoff>>
  /\ GoIdle(w)
  /\ UNCHANGED <<created, kind, attempts, results>>

\* A superseded attempt finds the fence closed and drops whatever it was about to write.
Drop(w) ==
  /\ pc[w] \in {"publish", "note", "fail"}
  /\ ~Owns(w)
  /\ GoIdle(w)
  /\ UNCHANGED rowVars

\* The process dies in the middle of an attempt and is started again.
Crash(w) ==
  /\ pc[w] # "idle"
  /\ GoIdle(w)
  /\ UNCHANGED rowVars

\* Time passes.
Down(f) == [j \in Jobs |-> IF f[j] > 0 THEN f[j] - 1 ELSE 0]
Tick ==
  /\ lease' = Down(lease)
  /\ backoff' = Down(backoff)
  /\ UNCHANGED <<created, kind, status, attempts, token, error, results, execVars>>

Step(w) == Claim(w) \/ Abandon(w) \/ Work(w) \/ Publish(w) \/ Note(w) \/ Fail(w) \/ Drop(w)

Next ==
  \/ \E k \in Kinds : Enqueue(k)
  \/ \E w \in Executors : Step(w) \/ Crash(w)
  \/ Tick

Spec == Init /\ [][Next]_vars

\* The worker process runs its loop for ever (a crashed one is restarted) and time passes.
\* Nothing is assumed of requests, of crashes, or of executors that do not serve every kind.
Fairness ==
  /\ WF_vars(Tick)
  /\ \A w \in Executors : Serves[w] = Kinds => WF_vars(Step(w))
FairSpec == Spec /\ Fairness

-----------------------------------------------------------------------------
(* Properties *)

\* Every variable has the values its column or local can hold.
TypeOK ==
  /\ created \in 0 .. MaxJobs
  /\ kind \in [Jobs -> Kinds]
  /\ status \in [Jobs -> Statuses]
  /\ attempts \in [Jobs -> 0 .. MaxAttempts]
  /\ token \in [Jobs -> 0 .. MaxAttempts]
  /\ lease \in [Jobs -> 0 .. LeaseTicks]
  /\ backoff \in [Jobs -> Nat]
  /\ error \in [Jobs -> Codes \cup {"none"}]
  /\ results \in [Jobs -> SUBSET (1 .. MaxAttempts)]
  /\ pc \in [Executors -> PCs]
  /\ cur \in [Executors -> Jobs \cup {0}]
  /\ mine \in [Executors -> 0 .. MaxAttempts]
  /\ found \in [Executors -> Findings]

\* Two attempts never own the same row, however late the older one wakes up: whichever executor
\* still believes it works on the row, at most one token matches.
OneOwner ==
  \A v, w \in Executors :
    (pc[v] # "idle" /\ pc[w] # "idle" /\ cur[v] = cur[w] /\ Owns(v) /\ Owns(w)) => v = w

\* A job's import, outcome or summary becomes visible at most once over all its attempts and
\* retries, it is that of the newest attempt, and it is visible exactly when the row says so (a
\* review may be done with nothing to show).
HasResult(j) == status[j] = "done" \/ (status[j] = "failed" /\ error[j] = "PARTIAL_DATA")
PublishedOnce ==
  \A j \in Jobs :
    /\ results[j] # {} => results[j] = {attempts[j]} /\ HasResult(j)
    /\ HasResult(j) /\ kind[j] # "review" => results[j] # {}

\* A job is given up with a transient provider error only when its attempts are used up.
TransientRetried ==
  \A j \in Jobs : status[j] = "failed" /\ error[j] \in RETRYABLE => attempts[j] = MaxAttempts

\* The columns a write back of an attempt can change.
Columns(j) == <<status[j], attempts[j], token[j], error[j], results[j]>>

\* A finished job never changes again: no late attempt, reclaim or retry reopens or rewrites it.
FinishedIsFinal ==
  [][\A j \in Jobs : status[j] \in Terminal => Columns(j)' = Columns(j)]_vars

\* As long as its lease lasts, only the attempt that holds the row's token changes a running row:
\* a superseded attempt and other executors leave it alone.
OnlyOwnerWrites ==
  [][\A j \in Jobs :
        status[j] = "running" /\ lease[j] > 0 /\ Columns(j)' # Columns(j) =>
          \E w \in Executors : cur[w] = j /\ mine[w] = token[j] /\ pc[w] # "idle" /\ pc'[w] = "idle"]_vars


-----------------------------------------------------------------------------
\* The queue seen by the code that inserts a job.
Stage(j) == CASE status[j] = "absent" -> "new"
              [] status[j] \in {"queued", "running"} -> "pending"
              [] OTHER -> status[j]

Contract == INSTANCE JobContract WITH
  stage <- [j \in Jobs |-> Stage(j)],
  starts <- attempts,
  optional <- [j \in Jobs |-> kind[j] = "review"],
  visible <- [j \in Jobs |-> results[j] # {}]

\* The queue with its crashes, leases, retries and superseded attempts implements the contract:
\* bounded starts, one end, a result visible in the step that ends the job.
KeepsContract == Contract!CSafe

\* Under fairness the contract's promise holds too: an accepted job does not stay pending.
KeepsPromise == Contract!CLive
=============================================================================
