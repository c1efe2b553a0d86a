------------------------------- MODULE Inbox -------------------------------
(***************************************************************************)
(* The issue inbox: one row per fingerprint, written by the publication of *)
(* a review (sync_inbox), by the evaluation of watchlist alerts            *)
(* (raise_external, clear_external), by the removal of an alert, and by    *)
(* the owner, who answers what a browser tab has shown.                    *)
(*                                                                         *)
(* Every writer takes the rows FOR UPDATE.  A review and an answer of the  *)
(* owner are single steps; an evaluation and a removal lock the alert and  *)
(* its issue in opposite orders, so they take two steps each.              *)
(***************************************************************************)
EXTENDS Integers, FiniteSets, Functions

CONSTANTS
  Tabs,         \* browser tabs of the owner
  Issues,       \* fingerprints of issues that reviews raise
  Alerts,       \* watchlist alerts; the fingerprint of its issue is the alert's
  Evaluators,   \* processes that evaluate alerts (scheduler, request handlers)
  Measures,     \* measures of an issue, in steps of the material growth
  Growth,       \* a measure that grew by this much is material
  Severities,   \* 0 information, 1 review, 2 urgent
  MaxDay, MaxWrites   \* bounds: days, writes of rows

ASSUME InboxAssumption ==
  /\ Issues \cap Alerts = {}
  /\ Measures \subseteq Nat /\ Measures # {}
  /\ Growth \in Nat \ {0} /\ MaxDay \in Nat /\ MaxWrites \in Nat
  /\ 0 \in Severities /\ Severities \subseteq 0 .. 2

Fingerprints == Issues \cup Alerts
Shown == [sev : Severities, meas : Measures]
Active == {"open", "snoozed"}

VARIABLES
  row,         \* a row: version 0 while there is none
  day,         \* today
  tab,         \* what a tab shows: the version, severity and measure of one row, or nothing
  alert,       \* an alert: whether it exists and is triggered
  eval,        \* an evaluator: the alert it has judged and how
  removal,     \* the removal of an alert: not begun, or its issue was looked at
  published,   \* history: the issues of the last review and its day
  agreed,      \* history: what the owner was shown when dismissing a row
  touched,     \* history: rows the owner snoozed or reopened (an issue: since the last review)
  crossed   \* history: an evaluation or removal of an alert began during another

inboxVars == <<row, day, tab, alert, eval, removal, published, agreed, touched, crossed>>

NoTab == [fp |-> "none"]
Resting == [at |-> "idle"]
\* No row yet: raising it is like raising a resolved one.
Absent == [status |-> "resolved", sev |-> 0, meas |-> CHOOSE x \in Measures : TRUE, until |-> 0,
           dsev |-> 0, dmeas |-> CHOOSE x \in Measures : TRUE, version |-> 0]
Exists(f) == row[f].version > 0
MayWrite == FoldFunction(LAMBDA r, n : r.version + n, 0, row) < MaxWrites

\* The alert is locked by an evaluation that changes it, its issue by a removal that found it.
AlertFree(a) == \A e \in Evaluators : eval[e] # Resting => eval[e].alert # a \/ ~eval[e].locks
RowFree(f) == f \in Alerts => removal[f] # "cleared"

-----------------------------------------------------------------------------
IInit ==
  /\ row = [f \in Fingerprints |-> Absent]
  /\ day = 0
  /\ tab = [t \in Tabs |-> NoTab]
  /\ alert = [a \in Alerts |-> [exists |-> TRUE, triggered |-> FALSE]]
  /\ eval = [e \in Evaluators |-> Resting]
  /\ removal = [a \in Alerts |-> "none"]
  /\ published = [issues |-> {}, day |-> 0]
  /\ agreed = [f \in Fingerprints |-> [sev |-> 0, meas |-> 0]]
  /\ touched = {}
  /\ crossed = FALSE

NextDay ==
  /\ day < MaxDay
  /\ day' = day + 1
  /\ UNCHANGED <<row, tab, alert, eval, removal, published, agreed, touched, crossed>>

-----------------------------------------------------------------------------
(* Reviews *)

\* is_material: against the severity and measure at the dismissal.
Material(r, s, x) == s > r.dsev \/ x - r.dmeas >= Growth

\* Faulty variant: a snooze is kept through its last day.
SnoozeKept(r) == r.until < day

SnoozeOver(r) == r.until <= day

\* sync_inbox, an issue of the outcome: the row is created, updated or comes back.
Seen(r, o) ==
  LET back == \/ r.status = "resolved"
              \/ r.status = "snoozed" /\ SnoozeOver(r)
              \/ r.status = "dismissed" /\ Material(r, o.sev, o.meas)
  IN [r EXCEPT !.sev = o.sev, !.meas = o.meas, !.version = @ + 1,
               !.status = IF back THEN "open" ELSE @,
               !.until = IF back /\ r.status = "snoozed" THEN 0 ELSE @]

ResolvedByReviews(f) == f \in Issues

\* Faulty variant: a dismissed issue is resolved too, and its dismissal forgotten.
GoneAlways(f) == IF Exists(f) /\ ResolvedByReviews(f) /\ row[f].status # "resolved"
                 THEN [row[f] EXCEPT !.status = "resolved", !.version = @ + 1]
                 ELSE row[f]

\* sync_inbox, an issue that the outcome does not have: resolved, unless it is dismissed or owned elsewhere.
Gone(f) == IF Exists(f) /\ ResolvedByReviews(f) /\ row[f].status \in Active
           THEN [row[f] EXCEPT !.status = "resolved", !.version = @ + 1]
           ELSE row[f]

\* The publication of a review whose outcome has the issues `out` (a function on a set of fingerprints).
Review(out) ==
  /\ MayWrite
  /\ \A f \in Fingerprints : Exists(f) => RowFree(f)
  /\ row' = [f \in Fingerprints |-> IF f \in DOMAIN out THEN Seen(row[f], out[f]) ELSE Gone(f)]
  /\ published' = [issues |-> DOMAIN out, day |-> day]
  /\ touched' = touched \ Issues
  /\ UNCHANGED <<day, tab, alert, eval, removal, agreed, crossed>>

-----------------------------------------------------------------------------
(* The owner *)

\* list_inbox: a tab shows a row.
Show(t, f) ==
  /\ Exists(f)
  /\ tab' = [tab EXCEPT ![t] = [fp |-> f, version |-> row[f].version, sev |-> row[f].sev, meas |-> row[f].meas]]
  /\ UNCHANGED <<row, day, alert, eval, removal, published, agreed, touched, crossed>>

\* _load: the row, locked, is at the version the tab shows; else 409.
ExpectedVersion(t) == row[tab[t].fp].version = tab[t].version

\* An answer changes the row as `new` says.
Answer(t, new) ==
  /\ row' = [row EXCEPT ![tab[t].fp] = [new EXCEPT !.version = @ + 1]]
  /\ tab' = [tab EXCEPT ![t] = NoTab]
  /\ UNCHANGED <<day, alert, eval, removal, published, crossed>>

CanAnswer(t) ==
  /\ tab[t] # NoTab
  /\ RowFree(tab[t].fp)
  /\ ExpectedVersion(t)
  /\ MayWrite

\* dismiss: remembers the severity and measure of the row.
Dismiss(t) ==
  /\ CanAnswer(t)
  /\ LET r == row[tab[t].fp]
     IN Answer(t, [r EXCEPT !.status = "dismissed", !.dsev = r.sev, !.dmeas = r.meas, !.until = 0])
  /\ agreed' = [agreed EXCEPT ![tab[t].fp] = [sev |-> tab[t].sev, meas |-> tab[t].meas]]
  /\ UNCHANGED touched

\* snooze: until a future date, whatever the status.
Snooze(t, until) ==
  /\ CanAnswer(t)
  /\ until > day
  /\ Answer(t, [row[tab[t].fp] EXCEPT !.status = "snoozed", !.until = until])
  /\ touched' = touched \cup {tab[t].fp}
  /\ UNCHANGED agreed

\* reopen: whatever the status, unless it is open.
Reopen(t) ==
  /\ CanAnswer(t)
  /\ row[tab[t].fp].status # "open"
  /\ Answer(t, [row[tab[t].fp] EXCEPT !.status = "open", !.until = 0])
  /\ touched' = touched \cup {tab[t].fp}
  /\ UNCHANGED agreed

-----------------------------------------------------------------------------
(* Alerts *)

Busy(a) == removal[a] \in {"cleared", "nothing"} \/ \E e \in Evaluators : eval[e] # Resting /\ eval[e].alert = a

\* evaluate_alerts reads an alert with its quote; when the alert changes, the flush locks it.
EvalStart(e, a, met) ==
  /\ eval[e] = Resting
  /\ alert[a].exists
  /\ LET changes == met \/ alert[a].triggered
     IN /\ changes => AlertFree(a)
        /\ eval' = [eval EXCEPT ![e] = [at |-> "judged", alert |-> a, met |-> met, locks |-> changes]]
  /\ crossed' = (crossed \/ Busy(a))
  /\ UNCHANGED <<row, day, tab, alert, removal, published, agreed, touched>>

\* raise_external: a dismissed row stays dismissed, a snoozed one returns after its date.
Raised(r) ==
  [r EXCEPT !.version = @ + 1,
            !.status = IF r.status = "resolved" \/ (r.status = "snoozed" /\ SnoozeOver(r)) THEN "open" ELSE @,
            !.until = IF r.status = "snoozed" /\ SnoozeOver(r) THEN 0 ELSE @]

\* clear_external: an open or snoozed row is resolved.
Cleared(r) ==
  IF r.version > 0 /\ r.status \in Active THEN [r EXCEPT !.status = "resolved", !.version = @ + 1] ELSE r

\* The issue is raised or cleared, and the evaluation commits.
EvalCommit(e) ==
  /\ eval[e] # Resting
  /\ LET a == eval[e].alert
     IN /\ RowFree(a)
        /\ MayWrite
        /\ row' = [row EXCEPT ![a] = IF eval[e].met THEN Raised(@) ELSE Cleared(@)]
        /\ alert' = IF eval[e].locks THEN [alert EXCEPT ![a].triggered = eval[e].met] ELSE alert
  /\ eval' = [eval EXCEPT ![e] = Resting]
  /\ UNCHANGED <<day, tab, removal, published, agreed, touched, crossed>>

\* remove_alert: clear_external looks for the issue and locks it.
RemoveClear(a) ==
  /\ removal[a] = "none"
  /\ alert[a].exists
  /\ removal' = [removal EXCEPT ![a] = IF Exists(a) THEN "cleared" ELSE "nothing"]
  /\ crossed' = (crossed \/ Busy(a))
  /\ UNCHANGED <<row, day, tab, alert, eval, published, agreed, touched>>

\* remove_alert: the alert is deleted, and the removal commits.
RemoveDelete(a) ==
  /\ removal[a] \in {"cleared", "nothing"}
  /\ AlertFree(a)
  /\ MayWrite
  /\ alert' = [alert EXCEPT ![a] = [exists |-> FALSE, triggered |-> FALSE]]
  /\ removal' = [removal EXCEPT ![a] = "done"]
  /\ row' = IF removal[a] = "cleared" THEN [row EXCEPT ![a] = Cleared(@)] ELSE row
  /\ UNCHANGED <<day, tab, eval, published, agreed, touched, crossed>>

\* An evaluation that holds the alert waits for the issue, the removal that holds the issue waits for
\* the alert: the database ends one of the transactions.  (Or the process of one of them dies.)
Aborted(a) ==
  /\ \/ /\ removal[a] \in {"cleared", "nothing"}
        /\ removal' = [removal EXCEPT ![a] = "none"]
        /\ UNCHANGED eval
     \/ /\ \E e \in Evaluators : eval[e] # Resting /\ eval[e].alert = a /\ eval' = [eval EXCEPT ![e] = Resting]
        /\ UNCHANGED removal
  /\ UNCHANGED <<row, day, tab, alert, published, agreed, touched, crossed>>

INext ==
  \/ NextDay
  \/ \E fs \in SUBSET Issues : \E out \in [fs -> Shown] : Review(out)
  \/ \E t \in Tabs :
       \/ \E f \in Fingerprints : Show(t, f)
       \/ Dismiss(t) \/ Reopen(t)
       \/ \E until \in 1 .. MaxDay + 1 : Snooze(t, until)
  \/ \E e \in Evaluators : EvalCommit(e) \/ \E a \in Alerts, met \in BOOLEAN : EvalStart(e, a, met)
  \/ \E a \in Alerts : RemoveClear(a) \/ RemoveDelete(a) \/ Aborted(a)

ISpec == IInit /\ [][INext]_inboxVars

-----------------------------------------------------------------------------
(* Properties *)

\* The type invariant of the inbox.
ITypeOK ==
  /\ row \in [Fingerprints -> [status : {"open", "snoozed", "dismissed", "resolved"}, sev : Severities,
                               meas : Measures, until : 0 .. MaxDay + 1, dsev : Severities, dmeas : Measures,
                               version : Nat]]
  /\ \A f \in Fingerprints : row[f].status # "snoozed" \/ row[f].until > 0
  /\ published.issues \subseteq Issues /\ published.day \in 0 .. day
  /\ \A a \in Alerts : removal[a] = "done" <=> ~alert[a].exists

\* Nothing worse than what the owner was shown and dismissed stays dismissed: not when the issue got
\* worse between the display and the dismissal, and not when it grows step by step afterwards.
NothingWorseHidden ==
  \A f \in Fingerprints :
    row[f].status = "dismissed" => row[f].sev <= agreed[f].sev /\ row[f].meas < agreed[f].meas + Growth

\* A dismissal is remembered, also while the condition goes away and comes back: only the owner undoes
\* it, or a review that found the issue more severe or its measure clearly larger than what was dismissed.
DismissalRemembered ==
  [][\A f \in Fingerprints :
       row[f].status = "dismissed" /\ row'[f].status # "dismissed" =>
         \/ \E t \in Tabs : tab[t].fp = f /\ tab'[t] = NoTab
         \/ row'[f].sev > agreed[f].sev \/ row'[f].meas >= agreed[f].meas + Growth]_inboxVars

\* The inbox follows the current decision: its issues have a row that is not resolved, a snooze that is
\* over does not survive the review, and the issues it does not have are closed unless the owner
\* touched them since.
FollowsDecision ==
  \A f \in Issues :
    IF f \in published.issues
    THEN Exists(f) /\ row[f].status # "resolved" /\ (row[f].status = "snoozed" => row[f].until > published.day)
    ELSE row[f].status \in Active => f \in touched

\* The issue of an alert belongs to the alert, whatever reviews find: a triggered alert has an issue
\* that is not resolved, and a removed one no issue that the owner did not touch.  (Provided that no
\* evaluation or removal of the alert crossed another.)
AlertsOwnTheirIssues ==
  ~crossed =>
    \A a \in Alerts :
      /\ alert[a].triggered => Exists(a) /\ row[a].status # "resolved"
      /\ ~alert[a].exists /\ row[a].status \in Active => a \in touched

\* Issues follow what raised them: the decision, or the alert (inbox.py: sync_inbox; alerts.py: evaluate_alerts).
\* What the owner sees is what the last review found: nothing worse is hidden, nothing gone is shown.
InboxTrue == ITypeOK /\ NothingWorseHidden /\ FollowsDecision /\ AlertsOwnTheirIssues
=============================================================================
