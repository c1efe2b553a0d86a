------------------------------ MODULE BulkQueue ------------------------------
(***************************************************************************)
(* The rows of the bulk job kinds and the worker that runs them, as the    *)
(* chains of jobs see them.  JobQueue has the whole life of a row, with    *)
(* several executors, leases and fenced writes; here one worker process    *)
(* runs one job at a time, as docker-compose starts it, and only a crash   *)
(* lets a lease run out.  A fenced write of a bulk job therefore always    *)
(* finds its own token, and the fences of JobQueue are not repeated.       *)
(*                                                                         *)
(* Only live rows are kept, in the order of created_at: nothing looks at a *)
(* row that is done, and of the failed ones only the kind is remembered.   *)
(* A row that is not due waits for not_before or for the end of the lease  *)
(* of a worker that died.                                                  *)
(***************************************************************************)
EXTENDS Naturals, SequencesExt, FiniteSetsExt

CONSTANTS
  MaxJobs,       \* bound: live rows
  MaxAttempts,   \* MAX_ATTEMPTS
  MaxFaults      \* bound: deaths of the worker and bad answers

ASSUME BulkAssumption == MaxJobs \in Nat /\ MaxAttempts \in Nat \ {0} /\ MaxFaults \in Nat

VARIABLES
  jobs,          \* the live rows
  gaveUp,        \* the kinds of the failed rows
  worker,        \* what the worker process is at, with the local variables of the handler
  faults         \* deaths and bad answers so far

queueVars == <<jobs, gaveUp, worker>>

\* The parameters of a row: what it is limited to, and the failures reported so far.
\* The two empty sets are NULL, the row that takes everything.
Params(ids, failed) == [ids |-> ids, failed |-> failed]
NoParams == Params({}, {})

Row(kind, params) ==
  [kind |-> kind, params |-> params, status |-> "queued", attempts |-> 0, due |-> TRUE]

Idle == [at |-> "idle", job |-> 0]

OfKind(queue, kind) == {j \in DOMAIN queue : queue[j].kind = kind}

\* Mutant: the parameters are not compared.
BlockedByKind(queue, kind, params, self) ==
  \E j \in OfKind(queue, kind) : j # self

\* A live row with the same parameters blocks another one, the caller's own row excepted.
Blocked(queue, kind, params, self) ==
  \E j \in OfKind(queue, kind) : j # self /\ queue[j].params = params

\* Mutant: the follow-up is queued without a look at the live rows.
EnqueuedAlways(queue, kind, params, self) == Append(queue, Row(kind, params))

Enqueued(queue, kind, params, self) ==
  IF Blocked(queue, kind, params, self) THEN queue ELSE Append(queue, Row(kind, params))

HasRoom == Len(jobs) < MaxJobs

Finish(j) == jobs' = RemoveAt(jobs, j) /\ UNCHANGED gaveUp

GiveUp(j) == jobs' = RemoveAt(jobs, j) /\ gaveUp' = gaveUp \cup {jobs[j].kind}

\* Transient errors are tried again after a pause, while attempts are left.
Transient == {"RATE_LIMITED", "UNAVAILABLE"}

Fail(j, code) ==
  IF code \in Transient /\ jobs[j].attempts < MaxAttempts
  THEN /\ jobs' = [jobs EXCEPT ![j].status = "queued", ![j].due = FALSE]
       /\ UNCHANGED gaveUp
  ELSE GiveUp(j)

Claimable == {j \in DOMAIN jobs : jobs[j].due}

\* The oldest claimable row; one that was abandoned too often is failed instead.
Claim ==
  /\ worker = Idle /\ Claimable # {}
  /\ LET j == Min(Claimable) IN
     IF jobs[j].attempts >= MaxAttempts
     THEN GiveUp(j) /\ UNCHANGED worker
     ELSE /\ jobs' = [jobs EXCEPT ![j].status = "running", ![j].due = FALSE,
                                  ![j].attempts = @ + 1]
          /\ worker' = [at |-> "start", job |-> j, kind |-> jobs[j].kind, params |-> jobs[j].params]
          /\ UNCHANGED gaveUp

\* not_before or the lease of a dead worker passes.
ComesDue(j) ==
  /\ j \in DOMAIN jobs /\ ~jobs[j].due /\ j # worker.job
  /\ jobs' = [jobs EXCEPT ![j].due = TRUE]
  /\ UNCHANGED <<gaveUp, worker>>

Dies == worker # Idle /\ worker' = Idle /\ UNCHANGED <<jobs, gaveUp>>

Fault == faults < MaxFaults /\ faults' = faults + 1

Running == worker.job

Ends(code) == Fail(Running, code) /\ worker' = Idle

\* The item the handler takes up next.
Current == CHOOSE x \in worker.todo : TRUE

Processing(kind, at) == worker.at = at /\ worker.kind = kind

BTypeOK ==
  /\ Len(jobs) <= MaxJobs
  /\ \A j \in DOMAIN jobs :
       /\ jobs[j].attempts \in 0 .. MaxAttempts /\ jobs[j].due \in BOOLEAN
       /\ j = worker.job => jobs[j].status = "running" /\ ~jobs[j].due
  /\ worker.job \in 0 .. Len(jobs)
  /\ worker # Idle => worker.at # "idle"
  /\ faults \in 0 .. MaxFaults
=============================================================================
