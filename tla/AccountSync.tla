---------------------------- MODULE AccountSync ----------------------------
(***************************************************************************)
(* Synchronising one broker account: requests and the daily close insert   *)
(* account_sync rows, attempts fetch the holdings and publish them as an   *)
(* import, and every outcome is followed up outside its transaction (the   *)
(* twin is refreshed, an event recorded, a review asked for).              *)
(*                                                                         *)
(* The rows and executors are those of JobQueue, all of kind               *)
(* "account_sync".  The holdings at the broker are a version number that   *)
(* grows; an import is the version its attempt fetched.                    *)
(***************************************************************************)
EXTENDS JobQueue, Sequences

CONSTANTS
  Posters,       \* request handlers of POST /accounts/{id}/sync
  Closers,       \* processes whose scheduler can run the daily close
  RequestKeys,   \* idempotency keys clients send
  ProviderErrors,  \* the error codes attempts can end with
  MaxUpsets      \* bound: trades, ends of sessions, logins, deaths of a process and failed refreshes together

\* A daily close uses the key sched-<date>; one close is enough to meet it with requests.
Sched == "sched"
Requesters == Posters \cup Closers

ASSUME SyncAssumption ==
  /\ Posters \cap Closers = {}
  /\ Sched \notin RequestKeys
  /\ ProviderErrors \subseteq Codes \ {"PARTIAL_DATA"}
  /\ MaxUpsets \in Nat
  /\ Serves = [w \in Executors |-> {"account_sync"}]

VARIABLES
  broker,      \* version of the holdings at the broker
  session,     \* a broker session is stored and has not expired
  account,     \* the columns of the account: status, last_error, and whether it announces a retry
  imports,     \* the complete imports in the order of created_at: the version each one holds
  twin,        \* how many of the complete imports the twin was last built from
  fetched,     \* the version an attempt fetched
  todo,        \* what an executor still does for the outcome it committed
  asked,       \* the imports and the account status when a review was last asked for
  events,      \* failure events recorded: job and code
  requestKey,  \* request_key of a row
  request,     \* a requester: idle, or between its checks and its insert
  answered,    \* the jobs returned for an idempotency key
  closed,      \* the SchedulerRun marker of the day
  doubled,     \* history: two syncs were active at once
  upsets,      \* trades, session changes and faults so far
  faults       \* deaths and failed refreshes so far

domainVars == <<broker, session, account, imports, twin, fetched, todo, asked, events>>
requestVars == <<requestKey, request, answered, closed, doubled>>
syncVars == <<vars, domainVars, requestVars, upsets, faults>>

Idle == [at |-> "idle", key |-> Sched]
ActiveSyncs == {j \in Jobs : Live(j)}
WithKey(k) == {j \in Jobs : status[j] # "absent" /\ requestKey[j] = k}

-----------------------------------------------------------------------------
SInit ==
  /\ Init
  /\ doubled = FALSE
  /\ broker = 1 /\ session \in BOOLEAN
  /\ account = [status |-> "active", error |-> "none", retry |-> FALSE]
  /\ imports = <<>> /\ twin = 0
  /\ fetched = [w \in Executors |-> 0]
  /\ todo = [w \in Executors |-> <<>>]
  /\ asked = [imports |-> 0, status |-> "active"]
  /\ events = {}
  /\ requestKey = [j \in Jobs |-> Sched]
  /\ request = [r \in Requesters |-> Idle]
  /\ answered = [k \in RequestKeys |-> {}]
  /\ closed = FALSE
  /\ upsets = 0 /\ faults = 0

\* The environment acts, within the bound.
Upset == upsets < MaxUpsets /\ upsets' = upsets + 1

\* The owner trades: the broker holds something else.
Trade ==
  /\ Upset
  /\ broker' = broker + 1
  /\ UNCHANGED <<vars, session, account, imports, twin, fetched, todo, asked, events, requestVars, faults>>

\* The session ends (midnight IST) or is disconnected.
SessionEnds ==
  /\ Upset
  /\ session
  /\ session' = FALSE
  /\ UNCHANGED <<vars, broker, account, imports, twin, fetched, todo, asked, events, requestVars, faults>>

\* The operator's `connect`: a new session, and the account is active again.
Connect ==
  /\ Upset
  /\ session' = TRUE
  /\ account' = [status |-> "active", error |-> "none", retry |-> FALSE]
  /\ UNCHANGED <<vars, broker, imports, twin, fetched, todo, asked, events, requestVars, faults>>

-----------------------------------------------------------------------------
(* Requests *)

\* sync_account answers with the job of the same key, else with the active one, else goes on to insert.
Post(r, k) ==
  /\ request[r].at = "idle"
  /\ LET known == IF WithKey(k) # {} THEN WithKey(k) ELSE ActiveSyncs
     IN IF known # {}
        THEN /\ \E j \in known : answered' = [answered EXCEPT ![k] = @ \cup {j}]
             /\ UNCHANGED request
        ELSE /\ session
             /\ request' = [request EXCEPT ![r] = [at |-> "insert", key |-> k]]
             /\ UNCHANGED answered
  /\ UNCHANGED <<vars, domainVars, doubled, requestKey, closed, upsets, faults>>

\* A row of the given key, if the unique key of the table permits it.
InsertRow(k) ==
  /\ WithKey(k) = {}
  /\ Enqueue("account_sync")
  /\ requestKey' = [requestKey EXCEPT ![created + 1] = k]
  /\ doubled' = (doubled \/ ActiveSyncs # {})

\* The insert; when another request with the same key was faster, its job is the answer.
PostInsert(r) ==
  /\ request[r].at = "insert"
  /\ request' = [request EXCEPT ![r] = Idle]
  /\ LET k == request[r].key
     IN \/ /\ InsertRow(k)
           /\ answered' = [answered EXCEPT ![k] = @ \cup {created + 1}]
        \/ /\ \E j \in WithKey(k) : answered' = [answered EXCEPT ![k] = @ \cup {j}]
           /\ UNCHANGED <<vars, requestKey, doubled>>
  /\ UNCHANGED <<domainVars, closed, upsets, faults>>

\* tick: no marker yet; with a session the account gets a sync unless one is active, without one it is flagged.
Close(r) ==
  /\ request[r].at = "idle"
  /\ ~closed
  /\ request' = [request EXCEPT ![r].at = IF ~session THEN "expire" ELSE IF ActiveSyncs = {} THEN "sync" ELSE "skip"]
  /\ UNCHANGED <<vars, domainVars, doubled, requestKey, answered, closed, upsets, faults>>

\* Faulty variant: the commit does not fail when another process has set the marker.
MarkerIgnored == TRUE

MarkerFree == ~closed

\* The commit of the close, decided by the unique marker; then the review of the day is asked for.
CloseCommit(r) ==
  /\ request[r].at \in {"expire", "sync", "skip"}
  /\ MarkerFree
  /\ closed' = TRUE
  /\ request' = [request EXCEPT ![r].at = "ask"]
  /\ IF request[r].at = "sync"
     THEN InsertRow(Sched)
     ELSE UNCHANGED <<vars, requestKey, doubled>>
  /\ account' = IF request[r].at = "expire"
                THEN [status |-> "reconnect_required", error |-> "AUTH_EXPIRED", retry |-> FALSE]
                ELSE account
  /\ UNCHANGED <<broker, session, imports, twin, fetched, todo, asked, events, answered, upsets, faults>>

\* The marker, or the key of the row, is already there: the transaction is rolled back.
CloseLost(r) ==
  /\ request[r].at \in {"expire", "sync", "skip"}
  /\ ~MarkerFree
  /\ request' = [request EXCEPT ![r] = Idle]
  /\ UNCHANGED <<vars, domainVars, doubled, requestKey, answered, closed, upsets, faults>>

Ask == asked' = [imports |-> Len(imports), status |-> account.status]

\* The last step of the close: enqueue_review.
CloseAsk(r) ==
  /\ request[r].at = "ask"
  /\ request' = [request EXCEPT ![r] = Idle]
  /\ Ask
  /\ UNCHANGED <<vars, broker, session, account, imports, twin, fetched, todo, events, doubled, requestKey, answered, closed, upsets, faults>>

-----------------------------------------------------------------------------
(* Attempts *)

\* An executor claims only when it has followed up its last outcome.
ClaimSync(w) ==
  /\ todo[w] = <<>>
  /\ Claim(w) \/ Abandon(w)
  /\ UNCHANGED <<domainVars, requestVars, upsets, faults>>

\* fetch_account_snapshot: without a session AUTH_EXPIRED, else what the broker answers.
Fetch(w) ==
  /\ Work(w)
  /\ found'[w] \in IF session THEN ProviderErrors \cup {"complete", "partial"} ELSE {"AUTH_EXPIRED"}
  /\ fetched' = [fetched EXCEPT ![w] = broker]
  /\ UNCHANGED <<broker, session, account, imports, twin, todo, asked, events, requestVars, upsets, faults>>

Forgotten(w) == fetched' = [fetched EXCEPT ![w] = 0]
Steps(s, j, c) == [i \in DOMAIN s |-> [do |-> s[i], job |-> j, code |-> c]]

\* Faulty variant: a review is asked for only when the holdings have changed.
FollowChanged(w) ==
  IF found[w] = "complete"
  THEN IF imports # <<>> /\ imports[Len(imports)] = fetched[w]
       THEN Steps(<<"refresh">>, cur[w], "none")
       ELSE Steps(<<"refresh", "review">>, cur[w], "none")
  ELSE Steps(<<"refresh">>, cur[w], "PARTIAL_DATA")

\* What follows a publication: the refresh always, the review after a complete import.  (Its event is
\* not tracked: nothing depends on it.)
FollowImport(w) ==
  IF found[w] = "complete"
  THEN Steps(<<"refresh", "review">>, cur[w], "none")
  ELSE Steps(<<"refresh">>, cur[w], "PARTIAL_DATA")

\* publish_sync_result: the import, the account and the row in one transaction.
PublishSync(w) ==
  /\ Publish(w)
  /\ todo' = [todo EXCEPT ![w] = FollowImport(w)]
  /\ IF found[w] = "complete"
     THEN /\ imports' = Append(imports, fetched[w])
          /\ account' = [status |-> "active", error |-> "none", retry |-> FALSE]
     ELSE /\ account' = [account EXCEPT !.error = "PARTIAL_DATA", !.retry = FALSE]
          /\ UNCHANGED imports
  /\ Forgotten(w)
  /\ UNCHANGED <<broker, session, twin, asked, events, requestVars, upsets, faults>>

\* The codes whose final failure is an event.
EventCodes == {"AUTH_EXPIRED", "RATE_LIMITED", "UNAVAILABLE", "PARTIAL_DATA", "IDENTITY_CONFLICT"}

\* What follows a failure that is not retried.
FollowFailure(w) ==
  CASE Retries(w) \/ found[w] \notin EventCodes -> <<>>
    [] found[w] = "AUTH_EXPIRED" -> Steps(<<"event", "review">>, cur[w], "AUTH_EXPIRED")
    [] OTHER -> Steps(<<"event">>, cur[w], found[w])

\* _fail: the row and the account in one transaction; the last import is untouched.
FailSync(w) ==
  /\ Fail(w)
  /\ account' = [status |-> IF found[w] = "AUTH_EXPIRED" THEN "reconnect_required" ELSE account.status,
                 error |-> found[w],
                 retry |-> Retries(w)]
  /\ todo' = [todo EXCEPT ![w] = FollowFailure(w)]
  /\ Forgotten(w)
  /\ UNCHANGED <<broker, session, imports, twin, asked, events, requestVars, upsets, faults>>

DropSync(w) ==
  /\ Drop(w)
  /\ Forgotten(w)
  /\ UNCHANGED <<broker, session, account, imports, twin, todo, asked, events, requestVars, upsets, faults>>

\* The next step of the follow-up, each in a transaction of its own.
FollowUp(w) ==
  /\ todo[w] # <<>>
  /\ todo' = [todo EXCEPT ![w] = Tail(@)]
  /\ LET step == Head(todo[w])
     IN /\ IF step.do = "refresh" THEN twin' = Len(imports) ELSE UNCHANGED twin
        /\ IF step.do = "event" THEN events' = events \cup {<<step.job, step.code>>} ELSE UNCHANGED events
        /\ IF step.do = "review" THEN Ask ELSE UNCHANGED asked
  /\ UNCHANGED <<vars, broker, session, account, imports, fetched, requestVars, upsets, faults>>

\* safe_refresh swallows the failure of a refresh; the rest of the follow-up goes on.
RefreshFails(w) ==
  /\ Upset
  /\ todo[w] # <<>> /\ Head(todo[w]).do = "refresh"
  /\ todo' = [todo EXCEPT ![w] = Tail(@)]
  /\ faults' = faults + 1
  /\ UNCHANGED <<vars, broker, session, account, imports, twin, fetched, asked, events, requestVars>>

\* The process of an executor dies in an attempt or in its follow-up.
Die(w) ==
  /\ Upset
  /\ faults' = faults + 1
  /\ Crash(w) \/ (todo[w] # <<>> /\ UNCHANGED vars)
  /\ todo' = [todo EXCEPT ![w] = <<>>]
  /\ Forgotten(w)
  /\ UNCHANGED <<broker, session, account, imports, twin, asked, events, requestVars>>

STick == Tick /\ UNCHANGED <<domainVars, requestVars, upsets, faults>>

SStep(w) == ClaimSync(w) \/ Fetch(w) \/ PublishSync(w) \/ FailSync(w) \/ DropSync(w) \/ FollowUp(w)

SNext ==
  \/ Trade \/ SessionEnds \/ Connect
  \/ \E r \in Posters : PostInsert(r) \/ \E k \in RequestKeys : Post(r, k)
  \/ \E r \in Closers : Close(r) \/ CloseCommit(r) \/ CloseLost(r) \/ CloseAsk(r)
  \/ \E w \in Executors : SStep(w) \/ RefreshFails(w) \/ Die(w)
  \/ STick

SSpec == SInit /\ [][SNext]_syncVars

-----------------------------------------------------------------------------
(* Properties *)

\* The type invariant of the rows and of the synchronisation's own variables.
STypeOK ==
  /\ attempts \in [Jobs -> 0 .. MaxAttempts]
  /\ pc \in [Executors -> PCs]
  /\ account.status \in {"active", "reconnect_required"} /\ account.error \in Codes \cup {"none"}
  /\ imports \in Seq(1 .. broker)
  /\ twin \in 0 .. Len(imports) /\ asked.imports \in 0 .. Len(imports)
  /\ events \subseteq Jobs \X EventCodes
  /\ \A k \in RequestKeys : answered[k] \subseteq 1 .. created
  /\ faults \in 0 .. upsets /\ upsets \in 0 .. MaxUpsets

\* Nobody is in the middle of a request, of a close or of a follow-up.
Settled ==
  /\ \A w \in Executors : todo[w] = <<>>
  /\ \A r \in Requesters : request[r].at = "idle"

\* Unless two syncs were active at once (see OneActiveSync), the account's current import never holds
\* older holdings than an import before it, however long an attempt held on to what it fetched.
SnapshotNeverOlder == ~doubled => \A i \in 2 .. Len(imports) : imports[i - 1] <= imports[i]

\* Unless a process died or a refresh failed, every outcome is followed up: the twin is built from the
\* newest import, a review was asked for after it and after the account was flagged, and a failure
\* that needs the owner has its event.
FollowedUp ==
  faults = 0 /\ Settled =>
    /\ twin = Len(imports)
    /\ asked.imports = Len(imports)
    /\ account.status = "reconnect_required" => asked.status = "reconnect_required"
    /\ \A j \in Jobs : status[j] = "failed" /\ error[j] \in EventCodes \ {"PARTIAL_DATA"} => <<j, error[j]>> \in events

\* What was fetched reaches the account, the twin and the review, in the order it was fetched (angel/sync.py).
SyncLands == STypeOK /\ SnapshotNeverOlder /\ FollowedUp

\* The marker decides between processes that run the same daily close: once it is set, no step of a
\* close that was under way elsewhere inserts a row or flags the account.
ClosedOnce == [][closed /\ (\E r \in Closers : request'[r] # request[r]) => UNCHANGED <<rowVars, account>>]_syncVars

\* connections.py on sync_account: one active sync per account.
OneActiveSync == \A i, j \in ActiveSyncs : i = j
=============================================================================
