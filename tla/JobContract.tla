----------------------------- MODULE JobContract -----------------------------
(***************************************************************************)
(* What the portfolio job queue promises to the code that inserts a job,   *)
(* without executors, tokens, leases or retries: an accepted job is        *)
(* started a bounded number of times, reaches exactly one end, and its     *)
(* result becomes visible in the very step that ends it.                   *)
(***************************************************************************)
EXTENDS Integers

CONSTANTS MaxJobs, MaxAttempts

Jobs == 1 .. MaxJobs

VARIABLES
  stage,    \* "new" until accepted, then "pending", then "done" or "failed"
  starts,   \* attempts started
  optional, \* the job may find nothing to do (a review with no snapshot yet)
  visible   \* the job's result can be read

cvars == <<stage, starts, optional, visible>>

CInit ==
  /\ stage = [j \in Jobs |-> "new"]
  /\ starts = [j \in Jobs |-> 0]
  /\ optional = [j \in Jobs |-> FALSE]
  /\ visible = [j \in Jobs |-> FALSE]

Accept(j) ==
  /\ stage[j] = "new"
  /\ stage' = [stage EXCEPT ![j] = "pending"]
  /\ \E o \in BOOLEAN : optional' = [optional EXCEPT ![j] = o]
  /\ UNCHANGED <<starts, visible>>

Start(j) ==
  /\ stage[j] = "pending"
  /\ starts[j] < MaxAttempts
  /\ starts' = [starts EXCEPT ![j] = @ + 1]
  /\ UNCHANGED <<stage, optional, visible>>

\* Only a job that was started can produce a result; an incomplete result ends it as failed.
Deliver(j, end) ==
  /\ stage[j] = "pending"
  /\ starts[j] > 0
  /\ stage' = [stage EXCEPT ![j] = end]
  /\ visible' = [visible EXCEPT ![j] = TRUE]
  /\ UNCHANGED <<starts, optional>>

\* A job ends without a result when it is given up, or when it is optional and had nothing to do.
GiveUp(j) ==
  /\ stage[j] = "pending"
  /\ starts[j] > 0
  /\ stage' = [stage EXCEPT ![j] = "failed"]
  /\ UNCHANGED <<starts, optional, visible>>

FindNothing(j) ==
  /\ stage[j] = "pending"
  /\ starts[j] > 0
  /\ optional[j]
  /\ stage' = [stage EXCEPT ![j] = "done"]
  /\ UNCHANGED <<starts, optional, visible>>

CNext ==
  \E j \in Jobs :
    \/ Accept(j) \/ Start(j) \/ GiveUp(j) \/ FindNothing(j)
    \/ \E end \in {"done", "failed"} : Deliver(j, end)

CSafe == CInit /\ [][CNext]_cvars

\* An accepted job does not stay pending.
CLive == \A j \in Jobs : stage[j] = "pending" ~> stage[j] \in {"done", "failed"}

CSpec == CSafe /\ CLive
=============================================================================
