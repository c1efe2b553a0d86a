------------------------------ MODULE MCReview ------------------------------
(***************************************************************************)
(* Bounds for TLC: the worker and the API process, two handlers, and       *)
(* enough rows for every request and every superseded review.              *)
(***************************************************************************)
EXTENDS Review, TLC

CONSTANTS worker, api, h1, h2

MCExecutors == {worker, api}
MCHandlers == {h1, h2}
MCServes == [w \in MCExecutors |-> {"review"}]
MCSymmetry == Permutations(MCExecutors) \cup Permutations(MCHandlers)
MCBackoff == [n \in 1 .. MaxAttempts |-> 2 ^ (n - 1)]
=============================================================================
