----------------------------- MODULE MCJobQueue -----------------------------
(***************************************************************************)
(* Bounds for TLC: two rows, the worker and the API process, leases and    *)
(* backoffs short enough for an attempt to outlive its lease.              *)
(***************************************************************************)
EXTENDS JobQueue

CONSTANTS worker, api

MCExecutors == {worker, api}
MCBackoff == [n \in 1 .. MaxAttempts |-> 2 ^ (n - 1)]
MCServes == [w \in MCExecutors |-> IF w = worker THEN Kinds ELSE {"account_sync", "review"}]
=============================================================================
