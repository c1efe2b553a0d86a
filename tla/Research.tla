------------------------------ MODULE Research ------------------------------
(***************************************************************************)
(* A research request (POST /api/research/sessions).  The session, its     *)
(* branches and their facts are gathered in one transaction and committed; *)
(* a report is synthesised from them and published in a second one.        *)
(*                                                                         *)
(* The branches draw on one budget of fetches.  A fetch answers, brings    *)
(* nothing (rejected or empty) or raises; the model may fail; the process  *)
(* may die anywhere, which loses what was not committed.  Nothing cancels  *)
(* a session (cancel_session has no caller), so every transition of the    *)
(* state machine finds the state it expects.                               *)
(***************************************************************************)
EXTENDS Integers, Sequences, FiniteSets

CONSTANTS
  Branches,   \* the branch types in the order they are run
  MaxUrls,    \* bound: URLs of a branch
  Budgets     \* values of budget_envelope["max_fetches"]; no key is a budget above all URLs

Types == {Branches[n] : n \in DOMAIN Branches}

\* No branch is run twice.
ASSUME ResearchAssumption ==
  /\ Branches \in Seq(Types) /\ Branches # <<>> /\ \A m, n \in DOMAIN Branches : Branches[m] = Branches[n] => m = n
  /\ MaxUrls \in Nat /\ Budgets \subseteq Nat /\ Budgets # {}

VARIABLES
  question,   \* the request: its budget and the number of URLs of each branch
  session,   \* the session, its branches and its report as the open transaction sees them; NoSession once the request has ended
  stored,    \* as the database holds them; NoSession until the first commit
  running,   \* the branch that runs: its place, its URLs left, those that answered and those that did not
  fetches    \* history: documents fetched or tried

researchVars == <<question, session, stored, running, fetches>>

NoSession == [state |-> "none"]
Between(n) == [n |-> n, left |-> 0, good |-> 0, bad |-> 0]

\* The standard checklist: a branch of each type.
Checklist == [b \in Types |-> [status |-> "pending", facts |-> {}, gap |-> FALSE]]

\* A session whose branches are about to be dispatched: created, resolved and "retrieving".
NewSession == [state |-> "retrieving", spent |-> 0, exhausted |-> FALSE, named |-> {}, report |-> {}, branches |-> Checklist]

ResInit ==
  /\ question \in [budget : Budgets, urls : [Types -> 0 .. MaxUrls]]
  /\ session = NewSession /\ stored = NoSession /\ running = Between(0) /\ fetches = 0

Status == IF running.n = 0 THEN "none" ELSE session.branches[Branches[running.n]].status
Retrieving == session.state = "retrieving"

\* The next branch is dispatched, also when an earlier one has spent the budget.
StartBranch ==
  /\ Retrieving /\ Status # "running" /\ running.n < Len(Branches)
  /\ LET b == Branches[running.n + 1]
     IN /\ running' = [Between(running.n + 1) EXCEPT !.left = question.urls[b]]
        /\ session' = [session EXCEPT !.branches[b].status = "running"]
  /\ UNCHANGED <<question, stored, fetches>>

Asked == Retrieving /\ Status = "running" /\ running.left > 0

\* check_budget
Affordable == session.spent + 1 <= question.budget

\* A fetch is charged before it is made.
Charge == session.spent + 1

\* One more document: each answer brings a fact, linked to the passage it was cut from.
Fetch ==
  /\ Asked /\ Affordable
  /\ \E answers \in BOOLEAN :
       /\ running' = [running EXCEPT !.left = @ - 1, !.good = IF answers THEN @ + 1 ELSE @, !.bad = IF answers THEN @ ELSE @ + 1]
       /\ session' = [session EXCEPT !.spent = Charge,
                                     !.branches[Branches[running.n]].facts = IF answers THEN @ \cup {<<running.n, running.left>>} ELSE @]
  /\ fetches' = fetches + 1
  /\ UNCHANGED <<question, stored>>

\* Faulty variant: a branch that raised leaves no reason.
ClosedSilently(s, b, status) ==
  [s EXCEPT !.branches[b].status = status, !.branches[b].gap = status \in {"partial", "unavailable"}]

\* A branch ends, with the reason of its gap unless it is complete.
Closed(s, b, status) == [s EXCEPT !.branches[b].status = status, !.branches[b].gap = status # "complete"]

\* run_branch without an error; what it found so far stays when the budget stops it.
EndBranch ==
  /\ Retrieving /\ Status = "running"
  /\ \/ /\ running.left > 0 /\ ~Affordable
        /\ session' = [Closed(session, Branches[running.n], "partial") EXCEPT !.exhausted = TRUE]
     \/ /\ running.left = 0
        /\ session' = Closed(session, Branches[running.n],
             IF running.good = 0 THEN "unavailable" ELSE IF running.bad = 0 THEN "complete" ELSE "partial")
  /\ running' = Between(running.n)
  /\ UNCHANGED <<question, stored, fetches>>

\* A fetch raises something other than a rejection.
BranchRaises ==
  /\ Asked /\ Affordable
  /\ session' = [Closed(session, Branches[running.n], "failed") EXCEPT !.spent = Charge]
  /\ running' = Between(running.n)
  /\ fetches' = fetches + 1
  /\ UNCHANGED <<question, stored>>

\* The facts are verified, the gaps are collected from the branches, and the session is committed.
Ready ==
  /\ Retrieving /\ Status # "running" /\ running.n = Len(Branches)
  /\ session' = [session EXCEPT !.state = "ready_to_publish", !.named = {b \in Types : session.branches[b].gap}]
  /\ stored' = session'
  /\ UNCHANGED <<question, running, fetches>>

Evidence(s) == UNION {s.branches[b].facts : b \in Types}

\* synthesize_and_publish: the report, its manifest and the last transition in one commit, or nothing:
\* no evidence, or no answer from the model.
Synthesize ==
  /\ session.state = "ready_to_publish"
  /\ \/ /\ Evidence(session) # {}
        /\ stored' = [session EXCEPT !.state = "published", !.report = Evidence(session)]
     \/ UNCHANGED stored
  /\ session' = NoSession
  /\ UNCHANGED <<question, running, fetches>>

ServerDies ==
  /\ session # NoSession
  /\ session' = NoSession
  /\ UNCHANGED <<question, stored, running, fetches>>

ResNext == StartBranch \/ Fetch \/ EndBranch \/ BranchRaises \/ Ready \/ Synthesize \/ ServerDies

ResSpec == ResInit /\ [][ResNext]_researchVars

-----------------------------------------------------------------------------
(* What must hold. *)

\* What a request stores is honest about what is missing, within the one budget of its branches.  The
\* documents tried, also those that brought nothing or raised, never exceed the budget, and the session
\* says it was stopped by it only when it was spent.  A branch that is not named as a gap has a fact
\* from every document asked for.  A report is published with all the facts, or not at all.
HonestWithinBudget ==
  /\ fetches <= question.budget
  /\ stored # NoSession =>
       /\ stored.exhausted => fetches = question.budget
       /\ \A b \in Types : b \notin stored.named => question.urls[b] > 0 /\ Cardinality(stored.branches[b].facts) = question.urls[b]
       /\ stored.report = IF stored.state = "published" THEN Evidence(stored) ELSE {}
       /\ stored.state = "published" => stored.report # {}
=============================================================================
