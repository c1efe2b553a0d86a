--------------------------- MODULE MCAccountSync ---------------------------
(***************************************************************************)
(* Bounds for TLC: the worker and the API process, one request handler and *)
(* one or two scheduler processes.                                         *)
(***************************************************************************)
EXTENDS AccountSync, TLC

CONSTANTS worker, api, post1, close1, close2, key1

MCExecutors == {worker, api}
MCServes == [w \in MCExecutors |-> {"account_sync"}]
MCSymmetry == Permutations(MCExecutors) \cup Permutations(Closers)
MCBackoff == [n \in 1 .. MaxAttempts |-> 2 ^ (n - 1)]
=============================================================================
