--------------------------- MODULE ModelScheduler ---------------------------
(***************************************************************************)
(* Quota for the calls of metered models: every call first reserves its    *)
(* estimated cost against the daily cap of a project, and is reconciled    *)
(* afterwards.  Callers are processes that share nothing but the table.    *)
(*                                                                         *)
(* reserve() sums the day's cost and inserts later, so it takes two steps; *)
(* the unique index on task_attempt_id and the conditional updates of the  *)
(* reconciliation are single statements.                                   *)
(***************************************************************************)
EXTENDS Integers, Sequences, FiniteSets, Functions

CONSTANTS
  Callers,
  Attempts,         \* task_attempt_ids
  Costs,            \* estimated_cost_usd
  Cap,              \* daily_spend_cap_usd of the project
  MaxReservations   \* bound: rows

ASSUME SchedulerAssumption ==
  /\ Costs \subseteq Nat \ {0} /\ Costs # {} /\ IsFiniteSet(Costs) /\ IsFiniteSet(Callers) /\ Callers # {}
  /\ Cap \in Nat /\ MaxReservations \in Nat

VARIABLES
  reserved,   \* model_call_reservations: attempt, cost, status, expired (its time is up), today
  caller      \* a caller: the step it is at, and the attempt or row it is about

schedulerVars == <<reserved, caller>>

NoCall == [at |-> "free"]

SchInit == reserved = <<>> /\ caller = [c \in Callers |-> NoCall]

CostOf(rs) == SumFunctionOnSet([r \in DOMAIN reserved |-> reserved[r].cost], rs)

\* Faulty variant: a call that may have been billed is left out.
CountedNoUnknown ==
  {r \in DOMAIN reserved : reserved[r].today
     /\ (reserved[r].status = "committed" \/ (reserved[r].status = "reserved" /\ ~reserved[r].late))}

\* _committed_and_reserved_cost_today
Counted ==
  {r \in DOMAIN reserved : reserved[r].today
     /\ \/ reserved[r].status \in {"committed", "unknown_billing"}
        \/ reserved[r].status = "reserved" /\ ~reserved[r].late}

\* reserve: the sum is read and the cap compared ...
Admit(c) ==
  /\ caller[c] = NoCall
  /\ \E a \in Attempts, e \in Costs :
       /\ CostOf(Counted) + e <= Cap
       /\ caller' = [caller EXCEPT ![c] = [at |-> "admitted", attempt |-> a, cost |-> e, today |-> TRUE]]
  /\ UNCHANGED reserved

Inserted(a) == \E r \in DOMAIN reserved : reserved[r].attempt = a

\* ... and the row inserted; the unique index turns a second one for the attempt away.
Reserve(c) ==
  /\ caller[c].at = "admitted"
  /\ Len(reserved) < MaxReservations
  /\ IF Inserted(caller[c].attempt)
     THEN /\ caller' = [caller EXCEPT ![c] = NoCall]
          /\ UNCHANGED reserved
     ELSE /\ reserved' = Append(reserved, [attempt |-> caller[c].attempt, cost |-> caller[c].cost,
                                           status |-> "reserved", late |-> FALSE, today |-> caller[c].today])
          /\ caller' = [caller EXCEPT ![c] = [at |-> "calling", row |-> Len(reserved) + 1]]

\* The conditional update: a row that is not "reserved" any more stays as it is (ReservationStateError).
Settle(r, status) == IF reserved[r].status = "reserved" THEN [reserved EXCEPT ![r].status = status] ELSE reserved

\* commit, release (the call was never made) or mark_unknown_billing (it timed out).
Reconcile(c) ==
  /\ caller[c].at = "calling"
  /\ \E status \in {"committed", "released", "unknown_billing"} : reserved' = Settle(caller[c].row, status)
  /\ caller' = [caller EXCEPT ![c] = NoCall]

\* expire_stale_reservations
ExpireStale ==
  /\ \E r \in DOMAIN reserved : reserved[r].status = "reserved" /\ reserved[r].late
  /\ reserved' = [r \in DOMAIN reserved |->
       IF reserved[r].status = "reserved" /\ reserved[r].late THEN [reserved[r] EXCEPT !.status = "expired"] ELSE reserved[r]]
  /\ UNCHANGED caller

\* The clock passes the expires_at of a row ...
TimeIsUp ==
  /\ \E r \in DOMAIN reserved : ~reserved[r].late /\ reserved' = [reserved EXCEPT ![r].late = TRUE]
  /\ UNCHANGED caller

\* ... or midnight (UTC).  reserved_at is when reserve() began.
Midnight ==
  /\ reserved' = [r \in DOMAIN reserved |-> [reserved[r] EXCEPT !.today = FALSE]]
  /\ caller' = [c \in Callers |-> IF caller[c].at = "admitted" THEN [caller[c] EXCEPT !.today = FALSE] ELSE caller[c]]

CallerDies(c) ==
  /\ caller[c] # NoCall
  /\ caller' = [caller EXCEPT ![c] = NoCall]
  /\ UNCHANGED reserved

SchNext ==
  \/ \E c \in Callers : Admit(c) \/ Reserve(c) \/ Reconcile(c) \/ CallerDies(c)
  \/ ExpireStale \/ TimeIsUp \/ Midnight

SchSpec == SchInit /\ [][SchNext]_schedulerVars

-----------------------------------------------------------------------------
(* What must hold. *)

Dearest == CHOOSE e \in Costs : \A f \in Costs : f <= e

\* At most one reservation is made for an attempt, however many callers pick it up.
OnePerAttempt == \A r, s \in DOMAIN reserved : reserved[r].attempt = reserved[s].attempt => r = s

\* The soft cap is soft by one call per concurrent caller and no more: what is or may be billed today
\* exceeds it by at most what the other callers can reserve before the sum shows it.
SpendBounded ==
  /\ OnePerAttempt
  /\ CostOf({r \in DOMAIN reserved : reserved[r].today /\ reserved[r].status \in {"committed", "unknown_billing"}})
       <= Cap + (Cardinality(Callers) - 1) * Dearest
=============================================================================
