----------------------------- MODULE GoalClaims -----------------------------
(***************************************************************************)
(* Claims of goals on one holding: how much of its value each goal counts  *)
(* on.  A claim is a chain of revisions; the newest one counts, and the    *)
(* unique key (chain, version) decides between writers of the same claim.  *)
(* Claiming, confirming and resizing check the sum of the claims under an  *)
(* advisory lock on the holding; closing a goal, releasing a claim and the *)
(* re-check after every refresh of the twin do not take it.                *)
(*                                                                         *)
(* Every handler works in steps: it reads (goal, claim, value), may wait   *)
(* for the lock and read the claims, commits, and then refreshes the twin  *)
(* and re-checks the claims (reconcile_allocations).                       *)
(***************************************************************************)
EXTENDS Integers, FiniteSets, Functions

CONSTANTS
  Handlers,    \* request handlers and sync attempts
  Goals,
  Claims,      \* chains of claims that can be made
  Amounts,     \* rupees of a claim
  Values,      \* values the holding can take
  MaxOps       \* bound: requests and changes of the value

NoHandler == "none"
Unknown == 0   \* the holding is gone, excluded or without a value: no claim fits

ASSUME ClaimsAssumption ==
  /\ NoHandler \notin Handlers /\ Goals # {} /\ IsFiniteSet(Claims)
  /\ Amounts \subseteq Nat \ {0} /\ Amounts # {}
  /\ Values \subseteq Nat /\ Values # {}
  /\ MaxOps \in Nat

VARIABLES
  goal,      \* newest revision of a goal: version and status
  claim,     \* newest revision of a claim: version, goal, amount, status
  value,     \* the value of the holding in the twin
  peak,      \* history: the highest value it had
  locked,    \* the handler that holds the advisory lock of the holding, or none
  task,      \* a handler: the step it is at and what it has read
  ops,       \* requests so far
  skipped,   \* re-checks that were rolled back
  died       \* handlers that died

claimVars == <<goal, claim, value, peak, locked, task, ops, skipped, died>>

Statuses == {"unused", "active", "needs_review", "released"}
Idle == [at |-> "idle"]
Live == {c \in Claims : claim[c].status \in {"active", "needs_review"}}

\* claimed_total: what the claims of a set add up to.
Total(cl, S) == SumFunctionOnSet([c \in Claims |-> cl[c].amount], S)

-----------------------------------------------------------------------------
GInit ==
  /\ goal = [g \in Goals |-> [version |-> 1, status |-> "active"]]
  /\ claim = [c \in Claims |-> [version |-> 0, goal |-> CHOOSE g \in Goals : TRUE, amount |-> 0, status |-> "unused"]]
  /\ value \in Values
  /\ peak = value
  /\ locked = NoHandler
  /\ task = [h \in Handlers |-> Idle]
  /\ ops = 0 /\ skipped = 0 /\ died = 0

Begins(h, t) ==
  /\ task[h] = Idle
  /\ ops < MaxOps
  /\ ops' = ops + 1
  /\ task' = [task EXCEPT ![h] = t]

\* claim_holding: the goal is active and the holding has a value.
BeginClaim(h, c, g, x) ==
  /\ claim[c].status = "unused" /\ \A k \in Handlers : task[k].at \in {"lock", "commit"} => task[k].claim # c
  /\ goal[g].status = "active"
  /\ value # Unknown
  /\ Begins(h, [at |-> "lock", op |-> "claim", claim |-> c, goal |-> g, amount |-> x, version |-> 0, seen |-> value])
  /\ UNCHANGED <<goal, claim, value, peak, locked, skipped, died>>

\* act_on_allocation, confirm or resize: the claim has the status the action is for.
BeginAct(h, c, op, x) ==
  /\ claim[c].status = IF op = "confirm" THEN "needs_review" ELSE "active"
  /\ value # Unknown
  /\ Begins(h, [at |-> "lock", op |-> op, claim |-> c, goal |-> claim[c].goal,
                amount |-> IF op = "confirm" THEN claim[c].amount ELSE x, version |-> claim[c].version, seen |-> value])
  /\ UNCHANGED <<goal, claim, value, peak, locked, skipped, died>>

\* act_on_allocation, release: no lock.
BeginRelease(h, c) ==
  /\ c \in Live
  /\ Begins(h, [at |-> "commit", op |-> "release", claim |-> c, goal |-> claim[c].goal, amount |-> claim[c].amount,
                version |-> claim[c].version, seen |-> value])
  /\ UNCHANGED <<goal, claim, value, peak, locked, skipped, died>>

\* edit_goal with status closed: the revision of the goal and the live claims it has read.
BeginClose(h, g) ==
  /\ goal[g].status = "active"
  /\ Begins(h, [at |-> "close", goal |-> g, version |-> goal[g].version,
                claims |-> {<<c, claim[c].version>> : c \in {d \in Live : claim[d].goal = g}}])
  /\ UNCHANGED <<goal, claim, value, peak, locked, skipped, died>>

\* A refresh of the twin publishes another value of the holding, and re-checks the claims.
NewValue(h, v) ==
  /\ v # value
  /\ Begins(h, [at |-> "recheck"])
  /\ value' = v
  /\ peak' = IF v > peak THEN v ELSE peak
  /\ UNCHANGED <<goal, claim, locked, skipped, died>>

\* Faulty variant: the lock is never waited for.
AnyMayLock(h) == TRUE

MayLock(h) == locked = NoHandler

\* What the claims read under the lock permit: one claim per goal and holding, and a sum within the value.
Fits(t) ==
  LET others == Live \ {t.claim}
  IN /\ t.op = "claim" => \A c \in Live : claim[c].goal # t.goal
     /\ Total(claim, others) + t.amount <= t.seen

\* The lock is acquired and the claims are read; a request that does not fit is refused.
Check(h) ==
  /\ task[h].at = "lock"
  /\ MayLock(h)
  /\ IF Fits(task[h])
     THEN /\ locked' = h
          /\ task' = [task EXCEPT ![h].at = "commit"]
     ELSE /\ task' = [task EXCEPT ![h] = Idle]
          /\ UNCHANGED locked
  /\ UNCHANGED <<goal, claim, value, peak, ops, skipped, died>>

\* Faulty variant: a revision is written whatever was written since the claim was read.
StillNewestAlways(c, v) == TRUE

\* The unique key (chain, version): nothing was written since the claim was read.
StillNewest(c, v) == claim[c].version = v

Unlocks(h) == locked' = IF locked = h THEN NoHandler ELSE locked

\* The commit of a claim, a confirmation, a resize or a release.
Commit(h) ==
  /\ task[h].at = "commit"
  /\ LET t == task[h]
     IN IF StillNewest(t.claim, t.version)
        THEN /\ claim' = [claim EXCEPT ![t.claim] = [version |-> t.version + 1, goal |-> t.goal, amount |-> t.amount,
                                                     status |-> IF t.op = "release" THEN "released" ELSE "active"]]
             /\ task' = [task EXCEPT ![h] = [at |-> "recheck"]]
        ELSE /\ task' = [task EXCEPT ![h] = Idle]
             /\ UNCHANGED claim
  /\ Unlocks(h)
  /\ UNCHANGED <<goal, value, peak, ops, skipped, died>>

\* The commit of a closed goal: the goal and all the claims it read, or nothing.
Close(h) ==
  /\ task[h].at = "close"
  /\ LET t == task[h]
     IN IF goal[t.goal].version = t.version /\ \A p \in t.claims : StillNewest(p[1], p[2])
        THEN /\ goal' = [goal EXCEPT ![t.goal] = [version |-> t.version + 1, status |-> "closed"]]
             /\ claim' = [c \in Claims |-> IF <<c, claim[c].version>> \in t.claims
                                           THEN [claim[c] EXCEPT !.version = @ + 1, !.status = "released"]
                                           ELSE claim[c]]
             /\ task' = [task EXCEPT ![h] = [at |-> "recheck"]]
        ELSE /\ task' = [task EXCEPT ![h] = Idle]
             /\ UNCHANGED <<goal, claim>>
  /\ UNCHANGED <<value, peak, locked, ops, skipped, died>>

\* The holding does not carry its claims: it has no value, or less than they add up to.
Over(cl) == value = Unknown \/ Total(cl, Live) > value

\* reconcile_allocations reads the claims and the value: all active claims of an overclaimed holding are due.
Recheck(h) ==
  /\ task[h].at = "recheck"
  /\ LET due == IF Over(claim) THEN {c \in Claims : claim[c].status = "active"} ELSE {}
     IN task' = [task EXCEPT ![h] = IF due = {} THEN Idle
                                    ELSE [at |-> "flag", claims |-> {<<c, claim[c].version>> : c \in due}]]
  /\ UNCHANGED <<goal, claim, value, peak, locked, ops, skipped, died>>

\* The commit of the flags: all of them, or none when one claim was written since (the error is logged).
Flag(h) ==
  /\ task[h].at = "flag"
  /\ LET t == task[h]
     IN IF \A p \in t.claims : StillNewest(p[1], p[2])
        THEN /\ claim' = [c \in Claims |-> IF <<c, claim[c].version>> \in t.claims
                                           THEN [claim[c] EXCEPT !.version = @ + 1, !.status = "needs_review"]
                                           ELSE claim[c]]
             /\ UNCHANGED skipped
        ELSE /\ skipped' = skipped + 1
             /\ UNCHANGED claim
  /\ task' = [task EXCEPT ![h] = Idle]
  /\ UNCHANGED <<goal, value, peak, locked, ops, died>>

\* The process dies, or its connection is lost; the lock goes with the transaction.
Die(h) ==
  /\ task[h] # Idle
  /\ task' = [task EXCEPT ![h] = Idle]
  /\ Unlocks(h)
  /\ died' = died + 1
  /\ UNCHANGED <<goal, claim, value, peak, ops, skipped>>

GNext == \E h \in Handlers :
  \/ \E c \in Claims, g \in Goals, x \in Amounts : BeginClaim(h, c, g, x)
  \/ \E c \in Claims, op \in {"confirm", "resize"}, x \in Amounts : BeginAct(h, c, op, x)
  \/ \E c \in Claims : BeginRelease(h, c)
  \/ \E g \in Goals : BeginClose(h, g)
  \/ \E v \in Values : NewValue(h, v)
  \/ Check(h) \/ Commit(h) \/ Close(h) \/ Recheck(h) \/ Flag(h) \/ Die(h)

GSpec == GInit /\ [][GNext]_claimVars

-----------------------------------------------------------------------------
(* Properties *)

\* The type invariant of goals, claims and the lock, which only a transaction under way holds.
GTypeOK ==
  /\ goal \in [Goals -> [version : Nat, status : {"active", "closed"}]]
  /\ claim \in [Claims -> [version : Nat, goal : Goals, amount : Amounts \cup {0}, status : Statuses]]
  /\ value \in Values /\ peak \in Values
  /\ locked \in Handlers \cup {NoHandler}
  /\ locked # NoHandler => task[locked].at = "commit"

\* However requests, closings and re-checks interleave, the live claims on a holding never add up to
\* more than it was ever worth, and a goal never has two of them.
NeverOverclaimed ==
  /\ Total(claim, Live) <= peak
  /\ \A c, d \in Live : claim[c].goal = claim[d].goal => c = d

Quiet == \A h \in Handlers : task[h] = Idle

\* The holding carries the claims on it.
Carried == value # Unknown /\ Total(claim, Live) <= value

\* After every re-check has run, a holding that does not carry its claims has no claim that still
\* counts as active.
FlaggedWhenOver == Quiet /\ skipped = 0 /\ died = 0 /\ ~Carried => \A c \in Claims : claim[c].status # "active"

\* A holding carries its claims, or they wait for the owner (api/v4/goals.py: claim_holding; goals/service.py: reconcile_allocations).
ClaimsCarried == GTypeOK /\ NeverOverclaimed /\ FlaggedWhenOver

\* A claim that waits for the owner becomes active again only by a confirmation of that revision.
ReviewSticky ==
  [][\A c \in Claims :
       claim[c].status = "needs_review" /\ claim'[c].status = "active" =>
         \E h \in Handlers : task[h].at = "commit" /\ task[h].op = "confirm" /\ task[h].claim = c
                             /\ task[h].version = claim[c].version]_claimVars

\* docs: closing a goal releases its claims.
ClosedGoalsHaveNoClaims == \A c \in Live : goal[claim[c].goal].status = "active"
=============================================================================
