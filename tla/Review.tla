------------------------------- MODULE Review -------------------------------
(***************************************************************************)
(* Portfolio reviews: every change of the twin or of an account asks for a *)
(* review (enqueue_review), a request coalesces with a live review job,    *)
(* and a finished review becomes the current decision only if the inputs   *)
(* it read are still the newest ones when it is published.                 *)
(*                                                                         *)
(* The rows and executors are those of JobQueue, all of kind "review".     *)
(* Handlers are the request handlers, sync attempts and scheduler passes   *)
(* that change an input in one transaction and call enqueue_review in a    *)
(* later one.  enqueue_review and publish_review exclude each other with   *)
(* an advisory lock; refresh_state takes no lock, so the twin may move     *)
(* between the freshness check of a publication and its commit.            *)
(***************************************************************************)
EXTENDS JobQueue

CONSTANTS
  Handlers,     \* request handlers, sync attempts and scheduler passes
  MaxChanges,   \* bound: changes of the inputs and explicit requests
  FirstStates   \* {0}: a new installation; {1}: a snapshot exists and its review is current

ASSUME ReviewAssumption ==
  /\ MaxChanges \in Nat
  /\ FirstStates \subseteq {0, 1}
  /\ MaxJobs >= 2 * MaxChanges     \* a row for every request, and a successor for every change
  /\ Serves = [w \in Executors |-> {"review"}]

VARIABLES
  stateV,     \* version of the latest PortfolioState, 0 before the first
  val,        \* number of its latest ValuationSnapshot
  flagged,    \* an account is reconnect_required: a review's input that no version covers
  current,    \* the inputs of the outcome the CurrentDecision pointer names
  computed,   \* the inputs an attempt read
  hpc,        \* a handler: "idle", or between its change and its call of enqueue_review
  changes,    \* changes and requests made so far
  promised    \* history: the inputs when enqueue_review last returned

twin == <<stateV, val, flagged>>
reviewVars == <<vars, twin, current, computed, hpc, changes, promised>>

Inputs == [s : Nat, v : Nat, f : BOOLEAN]
Now == [s |-> stateV, v |-> val, f |-> flagged]
NoInputs == [s |-> 0, v |-> 0, f |-> FALSE]

\* The attempts that hold pg_advisory_xact_lock('decision:<user>'): from the check of a publication to its commit.
Publishing == {w \in Executors : pc[w] \in {"commit", "history"}}

LockFree == Publishing = {}

LiveReviews == {j \in Jobs : kind[j] = "review" /\ Live(j)}

-----------------------------------------------------------------------------
RInit ==
  /\ Init
  /\ stateV \in FirstStates /\ val = stateV
  /\ flagged = FALSE
  /\ current = Now
  /\ computed = [w \in Executors |-> NoInputs]
  /\ hpc = [h \in Handlers |-> "idle"]
  /\ changes = 0
  /\ promised = Now

\* A handler commits a change of the inputs (or none, for an explicit request) and goes on to `next`.
Handles(h, next) ==
  /\ hpc[h] = "idle"
  /\ changes < MaxChanges
  /\ changes' = changes + 1
  /\ hpc' = [hpc EXCEPT ![h] = next]
  /\ UNCHANGED <<vars, current, computed, promised>>

\* refresh_state found a new economic hash: a new state with its first valuation; safe_refresh queues a review.
NewState(h) ==
  /\ Handles(h, "enqueue")
  /\ stateV' = stateV + 1 /\ val' = 1
  /\ UNCHANGED flagged

\* The same economics at other prices: a new valuation.  Only a sync asks for a review afterwards.
NewValuation(h) ==
  /\ stateV > 0
  /\ \E next \in {"idle", "enqueue"} : Handles(h, next)
  /\ val' = val + 1
  /\ UNCHANGED <<stateV, flagged>>

\* AUTH_EXPIRED (a failed sync, or the daily close) flags the account.
Expire(h) ==
  /\ ~flagged
  /\ Handles(h, "enqueue")
  /\ flagged' = TRUE
  /\ UNCHANGED <<stateV, val>>

\* A complete sync makes the account active again.
Recover(h) ==
  /\ flagged
  /\ Handles(h, "enqueue")
  /\ flagged' = FALSE
  /\ UNCHANGED <<stateV, val>>

\* The daily close, or POST /v4/reviews: the decision is not current, or the request forces a review.
RequestReview(h) ==
  /\ Handles(h, "enqueue")
  /\ UNCHANGED twin

\* Faulty variant: a request never coalesces with a live review.
InsertAlways == Enqueue("review")

\* A live review is reused.
ReuseOrInsert == IF LiveReviews = {} THEN Enqueue("review") ELSE UNCHANGED vars

\* enqueue_review: under the lock, reuse a live review or insert one.
EnqueueReview(h) ==
  /\ hpc[h] = "enqueue"
  /\ LockFree
  /\ hpc' = [hpc EXCEPT ![h] = "idle"]
  /\ promised' = Now
  /\ ReuseOrInsert
  /\ UNCHANGED <<twin, current, computed, changes>>

\* The process dies, or the refresh raises after its commit, before enqueue_review is called.
HandlerCrash(h) ==
  /\ hpc[h] = "enqueue"
  /\ hpc' = [hpc EXCEPT ![h] = "idle"]
  /\ UNCHANGED <<vars, twin, current, computed, changes, promised>>

\* SKIP LOCKED: a row being published is neither reclaimed nor abandoned.
ClaimReview(w) ==
  /\ Claim(w) \/ Abandon(w)
  /\ \A v \in Publishing : Columns(cur[v])' = Columns(cur[v])
  /\ UNCHANGED <<twin, current, computed, hpc, changes, promised>>

\* compute_review reads the twin and everything else a review rests on; with no snapshot there is nothing to review.
ComputeReview(w) ==
  /\ pc[w] = "work"
  /\ computed' = [computed EXCEPT ![w] = Now]
  /\ \/ /\ found' = [found EXCEPT ![w] = IF stateV = 0 THEN "empty" ELSE "complete"]
        /\ pc' = [pc EXCEPT ![w] = "publish"]
     \/ /\ found' = [found EXCEPT ![w] = "INTERNAL"]
        /\ pc' = [pc EXCEPT ![w] = "fail"]
  /\ UNCHANGED <<rowVars, cur, mine, twin, current, hpc, changes, promised>>

\* The attempt is over: its locals are gone.
Forget(w) == computed' = [computed EXCEPT ![w] = NoInputs]

\* publish_review's checks of the freshest truth.
Superseded(w) ==
  \/ computed[w].s # stateV
  \/ computed[w].v # val
  \/ current.s > computed[w].s

\* publish_review locks the row and the user, checks the fence and decides what the outcome will be.
CheckReview(w) ==
  /\ pc[w] = "publish" /\ found[w] = "complete"
  /\ Owns(w)
  /\ LockFree
  /\ pc' = [pc EXCEPT ![w] = IF Superseded(w) THEN "history" ELSE "commit"]
  /\ UNCHANGED <<rowVars, cur, mine, found, twin, current, computed, hpc, changes, promised>>

\* The row of a published review.
RowDone(w) ==
  /\ status' = [status EXCEPT ![cur[w]] = "done"]
  /\ results' = [results EXCEPT ![cur[w]] = @ \cup {mine[w]}]

\* The outcome, the moved pointer and the finished row in one commit.
CommitReview(w) ==
  /\ pc[w] = "commit"
  /\ RowDone(w)
  /\ current' = computed[w]
  /\ GoIdle(w) /\ Forget(w)
  /\ UNCHANGED <<created, kind, attempts, token, lease, backoff, error, twin, hpc, changes, promised>>

\* Faulty variant: a superseded review is kept as history, and nothing replaces it.
HistoryOnly(w) ==
  /\ pc[w] = "history"
  /\ RowDone(w)
  /\ GoIdle(w) /\ Forget(w)
  /\ UNCHANGED <<created, kind, attempts, token, lease, backoff, error, twin, current, hpc, changes, promised>>

\* A superseded review becomes history, and its successor is inserted in the same commit.
KeepAsHistory(w) ==
  /\ pc[w] = "history"
  /\ created < MaxJobs
  /\ created' = created + 1
  /\ kind' = [kind EXCEPT ![created + 1] = "review"]
  /\ status' = [status EXCEPT ![cur[w]] = "done", ![created + 1] = "queued"]
  /\ results' = [results EXCEPT ![cur[w]] = @ \cup {mine[w]}]
  /\ GoIdle(w) /\ Forget(w)
  /\ UNCHANGED <<attempts, token, lease, backoff, error, twin, current, hpc, changes, promised>>

\* Nothing to review: the row is done without an outcome, under the row lock only.
FinishEmpty(w) ==
  /\ pc[w] = "publish" /\ found[w] = "empty"
  /\ Owns(w)
  /\ status' = [status EXCEPT ![cur[w]] = "done"]
  /\ GoIdle(w) /\ Forget(w)
  /\ UNCHANGED <<created, kind, attempts, token, lease, backoff, error, results, twin, current, hpc, changes, promised>>

\* _fail (never retried for a review), a dropped stale write, or a crash.
EndReview(w) ==
  /\ Fail(w) \/ Drop(w) \/ Crash(w)
  /\ Forget(w)
  /\ UNCHANGED <<twin, current, hpc, changes, promised>>

RTick == Tick /\ UNCHANGED <<twin, current, computed, hpc, changes, promised>>

\* An executor goes on with its loop.
ReviewStep(w) ==
  \/ ClaimReview(w) \/ ComputeReview(w) \/ CheckReview(w) \/ CommitReview(w) \/ KeepAsHistory(w)
  \/ FinishEmpty(w)
  \/ EndReview(w)

RNext ==
  \/ \E h \in Handlers :
       \/ NewState(h) \/ NewValuation(h) \/ Expire(h) \/ Recover(h) \/ RequestReview(h)
       \/ EnqueueReview(h) \/ HandlerCrash(h)
  \/ \E w \in Executors : ReviewStep(w)
  \/ RTick

RSpec == RInit /\ [][RNext]_reviewVars

\* Executors keep running, a handler that is alive gets to its call, time passes.
RFairness ==
  /\ WF_reviewVars(RTick)
  /\ \A w \in Executors : WF_reviewVars(ReviewStep(w))
  /\ \A h \in Handlers : WF_reviewVars(EnqueueReview(h) \/ HandlerCrash(h))
RFairSpec == RSpec /\ RFairness

-----------------------------------------------------------------------------
(* Properties *)

\* The rows keep their types under publications with a successor too; so do the review's own variables.
RTypeOK ==
  /\ created \in 0 .. MaxJobs
  /\ status \in [Jobs -> Statuses]
  /\ attempts \in [Jobs -> 0 .. MaxAttempts]
  /\ pc \in [Executors -> PCs \cup {"commit", "history"}]
  /\ stateV \in 0 .. 1 + MaxChanges
  /\ val \in 0 .. 1 + MaxChanges
  /\ flagged \in BOOLEAN
  /\ current \in Inputs /\ promised \in Inputs
  /\ computed \in [Executors -> Inputs]
  /\ hpc \in [Handlers -> {"idle", "enqueue"}]
  /\ changes \in 0 .. MaxChanges

\* However requests, publications with a successor and failures interleave, a user never has two live reviews.
OneLiveReview == \A i, j \in LiveReviews : i = j

\* The review last queued has published an outcome.
LastPublished == created > 0 /\ status[created] = "done" /\ results[created] # {}

\* A request that coalesced with a running review is not lost: once no review is live, the current
\* decision rests on a snapshot and a valuation at least as new as those of the last request.
RequestHonoured ==
  LiveReviews = {} /\ LastPublished =>
    \/ current.s > promised.s
    \/ current.s = promised.s /\ current.v >= promised.v

\* Coalescing loses no request and doubles no review (runner.py: enqueue_review, publish_review).
CoalescingSound == RTypeOK /\ OneLiveReview /\ RequestHonoured

\* Superseded reviews and coalesced requests do not feed each other for ever: after a request the
\* decision catches up with its snapshot, or the last review failed or found nothing to review.
EventuallyReviewed ==
  \A n \in 1 .. 1 + MaxChanges :
    promised.s >= n ~> (current.s >= n \/ (LiveReviews = {} /\ ~LastPublished))

Quiet == LiveReviews = {} /\ \A h \in Handlers : hpc[h] = "idle"

\* What sync.py says of the review it queues after an account recovered: the decision reflects it.
RecoveryReflected == Quiet /\ LastPublished /\ promised.f = flagged => current.f = flagged
=============================================================================
