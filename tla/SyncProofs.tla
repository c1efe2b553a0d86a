----------------------------- MODULE SyncProofs -----------------------------
(***************************************************************************)
(* The synchronisation of an account, proved for any number of rows,       *)
(* executors, requesters and attempts, any lease, backoff and bound.       *)
(*                                                                         *)
(* Every step of the synchronisation is a step of the queue or leaves its  *)
(* rows alone (RunsOnTheQueue), so what JobQueueProofs proves of the fence *)
(* is known here: all theorems of the queue hold of syncs.                 *)
(*                                                                         *)
(* That imports do not go back in time is not inductive: it rests on the   *)
(* attempt that may publish having fetched after every import there is     *)
(* (InOrder), which the next publication keeps only because no other row   *)
(* is live (OneLive) and nobody else owns that one.  That every outcome is *)
(* followed up rests on what is still missing being on the list of the     *)
(* executor that committed the outcome (Followed), which nobody else       *)
(* touches, and which is empty when the next attempt begins (FreeToFollow).*)
(***************************************************************************)
EXTENDS AccountSync, JobQueueProofs

Stages == {"idle", "insert", "expire", "sync", "skip", "ask"}
AccountStatus == {"active", "reconnect_required"}

\* A step of a follow-up.
Task == {x \in [do : {"refresh", "review", "event"}, job : Jobs, code : Codes \cup {"none"}] :
           x.do = "event" => x.code \in EventCodes}

\* The values of the variables.
SyncTypes ==
  /\ broker \in Nat \ {0}
  /\ account \in [status : AccountStatus, error : Codes \cup {"none"}, retry : BOOLEAN]
  /\ imports \in Seq(1 .. broker)
  /\ twin \in 0 .. Len(imports)
  /\ fetched \in [Executors -> 0 .. broker]
  /\ todo \in [Executors -> Seq(Task)]
  /\ asked \in [imports : 0 .. Len(imports), status : AccountStatus]
  /\ events \subseteq Jobs \X EventCodes
  /\ request \in [Requesters -> [at : Stages, key : RequestKeys \cup {Sched}]]
  /\ \A r \in Requesters : request[r].at = "insert" => request[r].key \in RequestKeys
  /\ answered \in [RequestKeys -> SUBSET (1 .. created)]
  /\ doubled \in BOOLEAN
  /\ upsets \in 0 .. MaxUpsets /\ faults \in 0 .. upsets

\* Whoever attempts has followed up what it did before, and whoever is to publish has fetched.
FreeToFollow ==
  \A w \in Executors : /\ pc[w] # "idle" => todo[w] = <<>>
                       /\ pc[w] = "publish" => fetched[w] > 0

\* One sync is live at a time.
OneLive == ~doubled => \A i, j \in Jobs : Live(i) /\ Live(j) => i = j

\* The imports are in the order of what they hold, and who may publish fetched after all of them.
InOrder ==
  ~doubled =>
    /\ \A i, k \in DOMAIN imports : i < k => imports[i] <= imports[k]
    /\ \A w \in Executors : pc[w] = "publish" /\ Owns(w) => \A i \in DOMAIN imports : imports[i] <= fetched[w]

\* A kind of step, or a certain step, is on a list.
Wants(list, what) == \E i \in DOMAIN list : list[i].do = what
Holds(list, step) == \E i \in DOMAIN list : list[i] = step

Pending(what) == \E w \in Executors : Wants(todo[w], what)
Announced(j) == \E w \in Executors : Holds(todo[w], [do |-> "event", job |-> j, code |-> error[j]])
Asking == \E r \in Requesters : request[r].at = "ask"

\* Jobs that failed in a way the owner must hear of.
FailedFor(j) == status[j] = "failed" /\ error[j] \in EventCodes \ {"PARTIAL_DATA"}

\* What was not followed up yet is about to be.
Followed ==
  faults = 0 =>
    /\ twin = Len(imports) \/ Pending("refresh")
    /\ asked.imports = Len(imports) \/ Pending("review")
    /\ account.status = "reconnect_required" => (asked.status = "reconnect_required" \/ Pending("review") \/ Asking)
    /\ \A j \in Jobs : FailedFor(j) => (<<j, error[j]>> \in events \/ Announced(j))

\* The inductive invariant: that of the queue, and that of the synchronisation.
SyncInv == IInv /\ SyncTypes /\ FreeToFollow /\ OneLive /\ InOrder /\ Followed

-----------------------------------------------------------------------------
(* The queue underneath. *)

\* No step of a synchronisation does to the rows what the queue would not do.
LEMMA QueueStep == SNext => [Next]_vars
<1> SUFFICES ASSUME SNext PROVE [Next]_vars
  OBVIOUS
<1>1. "account_sync" \in Kinds
  BY DEF Kinds
<1>2. ASSUME NEW k, InsertRow(k) PROVE Next
  BY <1>1, <1>2 DEF InsertRow, Next
<1>3. ASSUME NEW w \in Executors, SStep(w) PROVE [Next]_vars
  <2>1. ClaimSync(w) => Step(w)
    BY DEF ClaimSync, Step
  <2>2. Fetch(w) => Step(w)
    BY DEF Fetch, Step
  <2>3. PublishSync(w) \/ FailSync(w) \/ DropSync(w) => Step(w)
    BY DEF PublishSync, FailSync, DropSync, Step
  <2>4. FollowUp(w) => UNCHANGED vars
    BY DEF FollowUp
  <2> QED BY <1>3, <2>1, <2>2, <2>3, <2>4 DEF SStep, Next
<1>4. ASSUME NEW w \in Executors, RefreshFails(w) \/ Die(w) PROVE [Next]_vars
  BY <1>4 DEF RefreshFails, Die, Next
<1>5. ASSUME NEW r \in Posters, PostInsert(r) PROVE [Next]_vars
  BY <1>5, <1>2 DEF PostInsert
<1>6. ASSUME NEW r \in Closers, CloseCommit(r) PROVE [Next]_vars
  BY <1>6, <1>2 DEF CloseCommit
<1>7. Trade \/ SessionEnds \/ Connect => UNCHANGED vars
  BY DEF Trade, SessionEnds, Connect
<1>8. \A r, k : Post(r, k) => UNCHANGED vars
  BY DEF Post
<1>9. \A r : Close(r) \/ CloseLost(r) \/ CloseAsk(r) => UNCHANGED vars
  BY DEF Close, CloseLost, CloseAsk
<1>10. STick => Next
  BY DEF STick, Next
<1> QED BY <1>3, <1>4, <1>5, <1>6, <1>7, <1>8, <1>9, <1>10 DEF SNext

\* Every behaviour of the syncs is one of the queue (api/v4/connections.py and pi/scheduler.py insert rows, jobs.py
\* runs them): one owner, one publication, final ends and protected leases hold of syncs as they do of any job.
THEOREM RunsOnTheQueue == SSpec => Spec
<1>1. SInit => Init
  BY DEF SInit
<1>2. UNCHANGED syncVars => UNCHANGED vars
  BY DEF syncVars
<1> QED BY <1>1, <1>2, QueueStep, PTL DEF SSpec, Spec

\* Who owns a row after a step that is no attempt's own did so before.
LEMMA OwnersRemain ==
  ASSUME IInv, NEW v \in Executors, pc[v] # "idle",
         \/ \E w \in Executors : v # w /\ (Claim(w) \/ Abandon(w) \/ Work(w) \/ Publish(w) \/ Fail(w) \/ Drop(w) \/ Crash(w))
         \/ Tick
         \/ Enqueue("account_sync"),
         Owns(v)'
  PROVE  pc'[v] = pc[v] /\ Owns(v)
<1>1. cur[v] \in Jobs /\ mine[v] <= attempts[cur[v]] /\ mine[v] \in Nat /\ attempts[cur[v]] \in Nat
  BY QueueAssumption DEF IInv, Attempt, TypeOK, Busy
<1>2. token'[cur'[v]] = mine'[v] /\ status'[cur'[v]] = "running"
  BY DEF Owns
<1>3. ASSUME NEW w \in Executors, v # w, Claim(w) PROVE pc'[v] = pc[v] /\ Owns(v)
  <2>1. PICK j \in Jobs : /\ status' = [status EXCEPT ![j] = "running"]
                          /\ token' = [token EXCEPT ![j] = FreshToken(j)]
                          /\ cur' = [cur EXCEPT ![w] = j]
                          /\ mine' = [mine EXCEPT ![w] = FreshToken(j)]
                          /\ pc' = [pc EXCEPT ![w] = "work"]
    BY <1>3 DEF Claim
  <2>2. pc'[v] = pc[v] /\ cur'[v] = cur[v] /\ mine'[v] = mine[v]
    BY <1>3, <2>1 DEF IInv, TypeOK
  <2>3. cur[v] # j
    <3> SUFFICES ASSUME cur[v] = j PROVE FALSE
      OBVIOUS
    <3>1. token'[j] = attempts[j] + 1
      BY <2>1 DEF IInv, TypeOK, FreshToken
    <3> QED BY <3>1, <1>1, <1>2, <2>2
  <2> QED BY <2>1, <2>2, <2>3, <1>1, <1>2 DEF IInv, TypeOK, Owns
<1>4. ASSUME NEW w \in Executors, v # w, Abandon(w) PROVE pc'[v] = pc[v] /\ Owns(v)
  <2>1. PICK j \in Jobs : status' = [status EXCEPT ![j] = "failed"] /\ UNCHANGED <<token, execVars>>
    BY <1>4 DEF Abandon
  <2> QED BY <2>1, <1>1, <1>2 DEF IInv, TypeOK, Owns, execVars
<1>5. ASSUME NEW w \in Executors, v # w, Work(w) \/ Drop(w) \/ Crash(w) PROVE pc'[v] = pc[v] /\ Owns(v)
  BY <1>5, <1>2 DEF Work, Drop, Crash, GoIdle, rowVars, IInv, TypeOK, Owns
<1>6. ASSUME NEW w \in Executors, v # w, Publish(w) \/ Fail(w) PROVE pc'[v] = pc[v] /\ Owns(v)
  <2>1. pc'[v] = pc[v] /\ cur'[v] = cur[v] /\ mine'[v] = mine[v]
    BY <1>6 DEF Publish, Fail, GoIdle, IInv, TypeOK
  <2>2. cur[w] \in Jobs
    BY <1>6 DEF Publish, Fail, IInv, Attempt, Busy
  <2>3. cur[v] # cur[w]
    BY <1>6, <1>2, <2>1, <2>2 DEF Publish, Fail, IInv, TypeOK
  <2>4. status'[cur[v]] = status[cur[v]] /\ token'[cur[v]] = token[cur[v]]
    BY <1>6, <1>1, <2>2, <2>3 DEF Publish, Fail, IInv, TypeOK
  <2> QED BY <2>1, <2>4, <1>2 DEF Owns
<1>7. ASSUME Tick PROVE pc'[v] = pc[v] /\ Owns(v)
  BY <1>7, <1>2 DEF Tick, execVars, Owns
<1>8. ASSUME Enqueue("account_sync") PROVE pc'[v] = pc[v] /\ Owns(v)
  <2>1. status' = [status EXCEPT ![created + 1] = "queued"] /\ UNCHANGED <<token, pc, cur, mine>>
    BY <1>8 DEF Enqueue, execVars
  <2> QED BY <2>1, <1>1, <1>2 DEF IInv, TypeOK, Owns
<1> QED BY <1>3, <1>4, <1>5, <1>6, <1>7, <1>8

\* Only an insert makes a row live.
LEMMA LiveShrinks ==
  ASSUME IInv,
         \/ \E w \in Executors : Claim(w) \/ Abandon(w) \/ Work(w) \/ Publish(w) \/ Fail(w) \/ Drop(w) \/ Crash(w)
         \/ Tick,
         NEW i \in Jobs, Live(i)'
  PROVE  Live(i)
<1>1. status'[i] \in {"queued", "running"}
  BY DEF Live
<1>2. ASSUME NEW w \in Executors, Claim(w) \/ Abandon(w) PROVE Live(i)
  <2>1. PICK j \in Jobs : j \in Claimable(w) /\ \E s \in {"running", "failed"} : status' = [status EXCEPT ![j] = s]
    BY <1>2 DEF Claim, Abandon, Oldest
  <2>2. Live(j)
    BY <2>1 DEF Claimable, Live
  <2> QED BY <2>1, <2>2, <1>1 DEF IInv, TypeOK, Live
<1>3. ASSUME NEW w \in Executors, Work(w) \/ Drop(w) \/ Crash(w) PROVE Live(i)
  BY <1>3, <1>1 DEF Work, Drop, Crash, rowVars, Live
<1>4. ASSUME NEW w \in Executors, Publish(w) \/ Fail(w) PROVE Live(i)
  <2>1. status[cur[w]] = "running"
    BY <1>4 DEF Publish, Fail, Owns
  <2>2. i # cur[w] => status'[i] = status[i]
    BY <1>4 DEF Publish, Fail, IInv, TypeOK
  <2> QED BY <2>1, <2>2, <1>1 DEF Live
<1>5. ASSUME Tick PROVE Live(i)
  BY <1>5, <1>1 DEF Tick, Live
<1> QED BY <1>2, <1>3, <1>4, <1>5

-----------------------------------------------------------------------------
(* Follow-ups are lists of steps. *)

\* The list of a follow-up has its steps in their order.
LEMMA StepsShape ==
  ASSUME NEW s \in Seq({"refresh", "review", "event"}), NEW j \in Jobs, NEW c \in Codes \cup {"none"},
         \A i \in DOMAIN s : s[i] = "event" => c \in EventCodes
  PROVE  /\ Steps(s, j, c) \in Seq(Task)
         /\ \A i \in DOMAIN s : i \in DOMAIN Steps(s, j, c) /\ Steps(s, j, c)[i] = [do |-> s[i], job |-> j, code |-> c]
<1>1. DOMAIN s = 1 .. Len(s) /\ Len(s) \in Nat /\ \A i \in DOMAIN s : s[i] \in {"refresh", "review", "event"}
  OBVIOUS
<1>2. \A i \in 1 .. Len(s) : [do |-> s[i], job |-> j, code |-> c] \in Task
  BY <1>1 DEF Task
<1>3. Steps(s, j, c) = [i \in 1 .. Len(s) |-> [do |-> s[i], job |-> j, code |-> c]]
  BY <1>1 DEF Steps
<1> QED BY <1>1, <1>2, <1>3

\* Taking up the first step leaves the others.
LEMMA TailKeeps ==
  ASSUME NEW T, NEW s \in Seq(T), s # <<>>
  PROVE  /\ Tail(s) \in Seq(T) /\ Head(s) \in T
         /\ \A i \in DOMAIN s : s[i] # Head(s) => \E k \in DOMAIN Tail(s) : Tail(s)[k] = s[i]
<1>1. Tail(s) \in Seq(T) /\ Len(s) \in Nat /\ Len(s) > 0 /\ Head(s) = s[1] /\ Head(s) \in T
  OBVIOUS
<1>2. DOMAIN s = 1 .. Len(s) /\ DOMAIN Tail(s) = 1 .. Len(s) - 1
  OBVIOUS
<1>3. ASSUME NEW i \in 2 .. Len(s) PROVE i - 1 \in 1 .. Len(s) - 1 /\ Tail(s)[i - 1] = s[i]
  OBVIOUS
<1>4. ASSUME NEW i \in DOMAIN s, s[i] # Head(s) PROVE \E k \in DOMAIN Tail(s) : Tail(s)[k] = s[i]
  <2>1. i \in 2 .. Len(s)
    BY <1>1, <1>2, <1>4
  <2> QED BY <2>1, <1>2, <1>3
<1> QED BY <1>1, <1>4

\* A sequence over a set is one over a larger set.
LEMMA WiderSeq ==
  ASSUME NEW S, NEW T, S \subseteq T, NEW s \in Seq(S) PROVE s \in Seq(T) /\ \A i \in DOMAIN s : s[i] \in S
<1>1. Len(s) \in Nat /\ DOMAIN s = 1 .. Len(s) /\ s = [i \in 1 .. Len(s) |-> s[i]] /\ \A i \in 1 .. Len(s) : s[i] \in S
  OBVIOUS
<1> QED BY <1>1

-----------------------------------------------------------------------------
(* What a step leaves alone. *)

\* A step that neither follows anything up nor commits an outcome.
LEMMA FollowedFrame ==
  ASSUME Followed, UNCHANGED <<todo, imports, twin, asked, account, events, faults>>, Asking => Asking',
         \A j \in Jobs : FailedFor(j)' => FailedFor(j) /\ error'[j] = error[j]
  PROVE  Followed'
<1> SUFFICES ASSUME faults' = 0
             PROVE  /\ twin' = Len(imports') \/ Pending("refresh")'
                    /\ asked'.imports = Len(imports') \/ Pending("review")'
                    /\ account'.status = "reconnect_required" =>
                         (asked'.status = "reconnect_required" \/ Pending("review")' \/ Asking')
                    /\ \A j \in Jobs : FailedFor(j)' => (<<j, error'[j]>> \in events' \/ Announced(j)')
  BY DEF Followed
<1>1. faults = 0
  OBVIOUS
<1>2. (Pending("refresh") => Pending("refresh")') /\ (Pending("review") => Pending("review")')
  BY DEF Pending
<1>3. ASSUME NEW j \in Jobs, FailedFor(j)' PROVE <<j, error'[j]>> \in events' \/ Announced(j)'
  <2>1. FailedFor(j) /\ error'[j] = error[j]
    BY <1>3
  <2>2. Announced(j) => Announced(j)'
    BY <2>1 DEF Announced
  <2> QED BY <1>1, <2>1, <2>2 DEF Followed
<1> QED BY <1>1, <1>2, <1>3 DEF Followed

\* A step that publishes nothing and gives nobody a row.
LEMMA OrderFrame ==
  ASSUME OneLive, InOrder, UNCHANGED <<imports, doubled>>,
         \A j \in Jobs : Live(j)' => Live(j),
         \A w \in Executors : pc'[w] = "publish" /\ Owns(w)' => pc[w] = "publish" /\ Owns(w) /\ fetched'[w] = fetched[w]
  PROVE  OneLive' /\ InOrder'
<1>1. OneLive'
  BY DEF OneLive
<1>2. InOrder'
  <2> SUFFICES ASSUME ~doubled
               PROVE  /\ \A i, k \in DOMAIN imports : i < k => imports[i] <= imports[k]
                      /\ \A w \in Executors : pc'[w] = "publish" /\ Owns(w)' => \A i \in DOMAIN imports : imports[i] <= fetched'[w]
    BY DEF InOrder
  <2> QED BY DEF InOrder
<1> QED BY <1>1, <1>2

\* A step that leaves the rows and the executors alone.
LEMMA RowsFrame ==
  ASSUME UNCHANGED vars
  PROVE  /\ \A j \in Jobs : Live(j)' = Live(j) /\ (FailedFor(j)' => FailedFor(j) /\ error'[j] = error[j])
         /\ \A w \in Executors : Owns(w)' = Owns(w) /\ pc'[w] = pc[w]
         /\ created' = created
  BY DEF vars, rowVars, execVars, Live, FailedFor, Owns

\* A row that is there has one of the numbers given out.
LEMMA KnownRow == ASSUME SyncInv, NEW j \in Jobs, status[j] # "absent" PROVE j \in 1 .. created
<1>1. created \in Nat /\ ~(j > created) /\ j \in 1 .. MaxJobs
  BY QueueAssumption DEF SyncInv, IInv, TypeOK, Tokens, Jobs
<1> QED BY <1>1, QueueAssumption

\* The invariant, of a step that leaves the rows, the outcomes and the follow-ups alone.
LEMMA QuietStep ==
  ASSUME SyncInv, IInv', UNCHANGED vars, UNCHANGED <<todo, imports, twin, asked, account, events, faults, fetched, doubled>>,
         SyncTypes', Asking => Asking'
  PROVE  SyncInv'
<1>1. Followed'
  BY RowsFrame, FollowedFrame DEF SyncInv
<1>2. OneLive' /\ InOrder'
  <2>1. \A j \in Jobs : Live(j)' => Live(j)
    BY RowsFrame
  <2>2. \A w \in Executors : pc'[w] = "publish" /\ Owns(w)' => pc[w] = "publish" /\ Owns(w) /\ fetched'[w] = fetched[w]
    BY RowsFrame
  <2> QED BY <2>1, <2>2, OrderFrame DEF SyncInv
<1>3. FreeToFollow'
  BY RowsFrame DEF SyncInv, FreeToFollow
<1> QED BY <1>1, <1>2, <1>3 DEF SyncInv

-----------------------------------------------------------------------------
(* The environment. *)

\* The owner trades, or the session ends.
LEMMA TradeKeeps == ASSUME SyncInv, IInv', Trade \/ SessionEnds PROVE SyncInv'
<1>1. UNCHANGED vars /\ UNCHANGED <<todo, imports, twin, asked, account, events, faults, fetched, request, answered, doubled>>
      /\ broker' \in {broker, broker + 1} /\ upsets < MaxUpsets /\ upsets' = upsets + 1
  BY DEF Trade, SessionEnds, requestVars, Upset
<1>2. broker \in Nat /\ 1 .. broker \subseteq 1 .. broker' /\ 0 .. broker \subseteq 0 .. broker' /\ broker' \in Nat \ {0}
  <2>1. broker \in Nat /\ broker > 0
    BY DEF SyncInv, SyncTypes
  <2> QED BY <1>1, <2>1
<1>3. imports \in Seq(1 .. broker') /\ fetched \in [Executors -> 0 .. broker']
  <2>1. imports \in Seq(1 .. broker')
    BY <1>2, WiderSeq DEF SyncInv, SyncTypes
  <2>2. fetched \in [Executors -> 0 .. broker']
    BY <1>2 DEF SyncInv, SyncTypes
  <2> QED BY <2>1, <2>2
<1>4. upsets' \in 0 .. MaxUpsets /\ faults' \in 0 .. upsets'
  BY <1>1, SyncAssumption DEF SyncInv, SyncTypes
<1>5. created' = created
  BY <1>1, RowsFrame
<1>6. SyncTypes'
  BY <1>1, <1>2, <1>3, <1>4, <1>5 DEF SyncInv, SyncTypes
<1> QED BY <1>1, <1>6, QuietStep DEF Asking

\* The operator connects.
LEMMA ConnectKeeps == ASSUME SyncInv, IInv', Connect PROVE SyncInv'
<1>1. UNCHANGED vars /\ UNCHANGED <<broker, todo, imports, twin, asked, events, faults, fetched, request, answered, doubled>>
      /\ account' = [status |-> "active", error |-> "none", retry |-> FALSE] /\ upsets < MaxUpsets /\ upsets' = upsets + 1
  BY DEF Connect, requestVars, Upset
<1>2. upsets' \in 0 .. MaxUpsets /\ faults' \in 0 .. upsets'
  BY <1>1, SyncAssumption DEF SyncInv, SyncTypes
<1>3. created' = created
  BY <1>1, RowsFrame
<1>4. SyncTypes'
  <2>1. account' \in [status : AccountStatus, error : Codes \cup {"none"}, retry : BOOLEAN]
    BY <1>1 DEF AccountStatus
  <2> QED BY <1>1, <1>2, <1>3, <2>1 DEF SyncInv, SyncTypes
<1>5. OneLive' /\ InOrder'
  <2>1. \A j \in Jobs : Live(j)' => Live(j)
    BY <1>1, RowsFrame
  <2>2. \A w \in Executors : pc'[w] = "publish" /\ Owns(w)' => pc[w] = "publish" /\ Owns(w) /\ fetched'[w] = fetched[w]
    BY <1>1, RowsFrame
  <2> QED BY <1>1, <2>1, <2>2, OrderFrame DEF SyncInv
<1>6. FreeToFollow'
  BY <1>1, RowsFrame DEF SyncInv, FreeToFollow
<1>7. Followed'
  <2>1. Pending("refresh")' = Pending("refresh") /\ Pending("review")' = Pending("review")
    BY <1>1 DEF Pending
  <2>2. \A j \in Jobs : (FailedFor(j)' => FailedFor(j) /\ error'[j] = error[j]) /\ (error'[j] = error[j] => Announced(j)' = Announced(j))
    BY <1>1, RowsFrame DEF Announced
  <2>3. account'.status # "reconnect_required"
    BY <1>1
  <2> QED BY <1>1, <2>1, <2>2, <2>3 DEF SyncInv, Followed
<1> QED BY <1>4, <1>5, <1>6, <1>7 DEF SyncInv

-----------------------------------------------------------------------------
(* Requests and the close. *)

\* A row is inserted: of two live rows the history tells, and nobody owns the new one.
LEMMA InsertFrame ==
  ASSUME SyncInv, NEW k, InsertRow(k), UNCHANGED <<imports, fetched>>
  PROVE  /\ OneLive' /\ InOrder' /\ doubled' \in BOOLEAN
         /\ created + 1 \in Jobs /\ created' = created + 1 /\ UNCHANGED <<pc, error>>
         /\ \A j \in Jobs : FailedFor(j)' => FailedFor(j)
<1> DEFINE n == created + 1
<1>1. /\ n \in Jobs /\ created' = n /\ UNCHANGED <<pc, error>>
      /\ status' = [status EXCEPT ![n] = "queued"]
      /\ doubled' = (doubled \/ ActiveSyncs # {})
      /\ Enqueue("account_sync")
  BY QueueAssumption DEF InsertRow, Enqueue, execVars, SyncInv, IInv, TypeOK, Jobs
<1>2. \A j \in Jobs : Live(j)' => j = n \/ Live(j)
  BY <1>1 DEF Live, SyncInv, IInv, TypeOK
<1>3. OneLive'
  <2> SUFFICES ASSUME ~doubled', NEW i \in Jobs, NEW j \in Jobs, Live(i)', Live(j)' PROVE i = j
    BY DEF OneLive
  <2>1. ~Live(i) /\ ~Live(j)
    BY <1>1 DEF ActiveSyncs
  <2> QED BY <1>2, <2>1
<1>4. InOrder'
  <2> SUFFICES ASSUME ~doubled'
               PROVE  /\ \A i, m \in DOMAIN imports : i < m => imports[i] <= imports[m]
                      /\ \A w \in Executors : pc'[w] = "publish" /\ Owns(w)' => \A i \in DOMAIN imports : imports[i] <= fetched[w]
    BY DEF InOrder
  <2>1. ~doubled
    BY <1>1
  <2>2. ASSUME NEW w \in Executors, pc'[w] = "publish", Owns(w)' PROVE pc[w] = "publish" /\ Owns(w)
    <3>1. pc[w] # "idle"
      BY <1>1, <2>2
    <3> QED BY <1>1, <2>2, <3>1, OwnersRemain DEF SyncInv
  <2> QED BY <2>1, <2>2 DEF SyncInv, InOrder
<1>5. \A j \in Jobs : FailedFor(j)' => FailedFor(j)
  BY <1>1 DEF FailedFor, SyncInv, IInv, TypeOK
<1>6. doubled' \in BOOLEAN
  BY <1>1
<1> QED BY <1>1, <1>3, <1>4, <1>5, <1>6

\* A request is checked.
LEMMA PostKeeps == ASSUME SyncInv, IInv', NEW r \in Posters, NEW k \in RequestKeys, Post(r, k) PROVE SyncInv'
<1>1. /\ UNCHANGED vars
      /\ UNCHANGED <<broker, todo, imports, twin, asked, account, events, faults, fetched, upsets, doubled>>
      /\ \/ /\ \E j \in Jobs : status[j] # "absent" /\ answered' = [answered EXCEPT ![k] = @ \cup {j}]
            /\ UNCHANGED request
         \/ /\ request[r].at = "idle" /\ request' = [request EXCEPT ![r] = [at |-> "insert", key |-> k]]
            /\ UNCHANGED answered
  BY DEF Post, domainVars, WithKey, ActiveSyncs, Live
<1>2. created' = created /\ r \in Requesters
  BY <1>1, RowsFrame DEF Requesters
<1>3. answered' \in [RequestKeys -> SUBSET (1 .. created)]
  <2>1. answered \in [RequestKeys -> SUBSET (1 .. created)]
    BY DEF SyncInv, SyncTypes
  <2>2. ASSUME NEW j \in Jobs, status[j] # "absent", answered' = [answered EXCEPT ![k] = @ \cup {j}]
        PROVE  answered' \in [RequestKeys -> SUBSET (1 .. created)]
    <3>1. j \in 1 .. created
      BY <2>2, KnownRow
    <3> QED BY <2>1, <2>2, <3>1
  <2> QED BY <1>1, <2>1, <2>2
<1>4. /\ request' \in [Requesters -> [at : Stages, key : RequestKeys \cup {Sched}]]
      /\ \A q \in Requesters : request'[q].at = "insert" => request'[q].key \in RequestKeys
  <2>1. [at |-> "insert", key |-> k] \in [at : Stages, key : RequestKeys \cup {Sched}]
    BY DEF Stages
  <2>2. /\ request \in [Requesters -> [at : Stages, key : RequestKeys \cup {Sched}]]
        /\ \A q \in Requesters : request[q].at = "insert" => request[q].key \in RequestKeys
    BY DEF SyncInv, SyncTypes
  <2>3. CASE request' = [request EXCEPT ![r] = [at |-> "insert", key |-> k]]
    <3>1. \A q \in Requesters : request'[q] = IF q = r THEN [at |-> "insert", key |-> k] ELSE request[q]
      BY <2>2, <2>3
    <3>2. request' \in [Requesters -> [at : Stages, key : RequestKeys \cup {Sched}]]
      BY <2>1, <2>2, <2>3
    <3> QED BY <2>2, <3>1, <3>2
  <2>4. CASE UNCHANGED request
    BY <2>2, <2>4
  <2> QED BY <1>1, <2>3, <2>4
<1>5. SyncTypes'
  BY <1>1, <1>2, <1>3, <1>4 DEF SyncInv, SyncTypes
<1>6. Asking => Asking'
  BY <1>1 DEF Asking, SyncInv, SyncTypes
<1> QED BY <1>1, <1>5, <1>6, QuietStep

\* A request inserts its row, or is answered with the one of its key.
LEMMA PostInsertKeeps == ASSUME SyncInv, IInv', NEW r \in Posters, PostInsert(r) PROVE SyncInv'
<1> DEFINE k == request[r].key
<1>1. /\ UNCHANGED <<broker, todo, imports, twin, asked, account, events, faults, fetched, upsets>>
      /\ request[r].at = "insert" /\ request' = [request EXCEPT ![r] = Idle]
      /\ \/ InsertRow(k) /\ answered' = [answered EXCEPT ![k] = @ \cup {created + 1}]
         \/ /\ \E j \in Jobs : status[j] # "absent" /\ answered' = [answered EXCEPT ![k] = @ \cup {j}]
            /\ UNCHANGED vars /\ UNCHANGED doubled
  BY DEF PostInsert, domainVars, WithKey
<1>2. r \in Requesters /\ k \in RequestKeys
  BY <1>1 DEF Requesters, SyncInv, SyncTypes
<1>3. /\ request' \in [Requesters -> [at : Stages, key : RequestKeys \cup {Sched}]]
      /\ \A q \in Requesters : request'[q].at = "insert" => request'[q].key \in RequestKeys
  BY <1>1, <1>2 DEF SyncInv, SyncTypes, Stages, Idle
<1>4. Asking => Asking'
  BY <1>1 DEF Asking, SyncInv, SyncTypes
<1>5. CASE InsertRow(k) /\ answered' = [answered EXCEPT ![k] = @ \cup {created + 1}]
  <2>1. /\ OneLive' /\ InOrder' /\ doubled' \in BOOLEAN
        /\ created + 1 \in Jobs /\ created' = created + 1 /\ UNCHANGED <<pc, error>>
        /\ \A j \in Jobs : FailedFor(j)' => FailedFor(j)
    BY <1>1, <1>5, InsertFrame
  <2>2. answered' \in [RequestKeys -> SUBSET (1 .. created')]
    <3>1. 1 .. created \subseteq 1 .. created' /\ created + 1 \in 1 .. created'
      <4>1. created \in Nat
        BY QueueAssumption DEF SyncInv, IInv, TypeOK
      <4> QED BY <2>1, <4>1
    <3>2. answered \in [RequestKeys -> SUBSET (1 .. created)]
      BY DEF SyncInv, SyncTypes
    <3> QED BY <1>2, <1>5, <3>1, <3>2
  <2>3. SyncTypes'
    BY <1>1, <1>3, <2>1, <2>2 DEF SyncInv, SyncTypes
  <2>4. FreeToFollow'
    BY <1>1, <2>1 DEF SyncInv, FreeToFollow
  <2>5. Followed'
    BY <1>1, <1>4, <2>1, FollowedFrame DEF SyncInv
  <2> QED BY <2>1, <2>3, <2>4, <2>5 DEF SyncInv
<1>6. CASE /\ \E j \in Jobs : status[j] # "absent" /\ answered' = [answered EXCEPT ![k] = @ \cup {j}]
           /\ UNCHANGED vars /\ UNCHANGED doubled
  <2>1. created' = created
    BY <1>6, RowsFrame
  <2>2. answered' \in [RequestKeys -> SUBSET (1 .. created)]
    BY <1>2, <1>6, KnownRow DEF SyncInv, SyncTypes
  <2>3. SyncTypes'
    BY <1>1, <1>3, <1>6, <2>1, <2>2 DEF SyncInv, SyncTypes
  <2> QED BY <1>1, <1>4, <1>6, <2>3, QuietStep
<1> QED BY <1>1, <1>5, <1>6

\* The close looks around, or loses against another.
LEMMA CloseKeeps == ASSUME SyncInv, IInv', NEW r \in Closers, Close(r) \/ CloseLost(r) PROVE SyncInv'
<1>1. /\ UNCHANGED vars
      /\ UNCHANGED <<broker, todo, imports, twin, asked, account, events, faults, fetched, upsets, doubled, answered>>
      /\ request[r].at # "ask"
      /\ \/ request[r].at = "idle" /\ \E a \in {"expire", "sync", "skip"} : request' = [request EXCEPT ![r].at = a]
         \/ request' = [request EXCEPT ![r] = Idle]
  BY DEF Close, CloseLost, domainVars
<1>2. created' = created /\ r \in Requesters
  BY <1>1, RowsFrame DEF Requesters
<1>3. /\ request' \in [Requesters -> [at : Stages, key : RequestKeys \cup {Sched}]]
      /\ \A q \in Requesters : request'[q].at = "insert" => request'[q].key \in RequestKeys
  <2>1. /\ request \in [Requesters -> [at : Stages, key : RequestKeys \cup {Sched}]]
        /\ \A q \in Requesters : request[q].at = "insert" => request[q].key \in RequestKeys
    BY DEF SyncInv, SyncTypes
  <2>2. PICK x \in [at : Stages, key : RequestKeys \cup {Sched}] : x.at # "insert" /\ request' = [request EXCEPT ![r] = x]
    <3>1. ASSUME NEW a \in {"expire", "sync", "skip"}
          PROVE  [request[r] EXCEPT !.at = a] \in [at : Stages, key : RequestKeys \cup {Sched}] /\ [request[r] EXCEPT !.at = a].at = a
      BY <1>2, <2>1 DEF Stages
    <3>2. Idle \in [at : Stages, key : RequestKeys \cup {Sched}] /\ Idle.at # "insert"
      BY DEF Idle, Stages
    <3> QED BY <1>1, <3>1, <3>2
  <2>3. \A q \in Requesters : request'[q] = IF q = r THEN x ELSE request[q]
    BY <2>1, <2>2
  <2>4. request' \in [Requesters -> [at : Stages, key : RequestKeys \cup {Sched}]]
    BY <2>1, <2>2
  <2> QED BY <2>1, <2>2, <2>3, <2>4
<1>4. SyncTypes'
  BY <1>1, <1>2, <1>3 DEF SyncInv, SyncTypes
<1>5. Asking => Asking'
  BY <1>1 DEF Asking, SyncInv, SyncTypes
<1> QED BY <1>1, <1>4, <1>5, QuietStep

\* The commit of the close: whoever flags the account is about to ask for a review.
LEMMA CloseCommitKeeps == ASSUME SyncInv, IInv', NEW r \in Closers, CloseCommit(r) PROVE SyncInv'
<1> DEFINE Shape == [at : Stages, key : RequestKeys \cup {Sched}]
<1>1. /\ UNCHANGED <<broker, todo, imports, twin, asked, events, faults, fetched, upsets, answered>>
      /\ request' = [request EXCEPT ![r].at = "ask"]
      /\ \/ account' = account
         \/ account' = [status |-> "reconnect_required", error |-> "AUTH_EXPIRED", retry |-> FALSE]
      /\ \/ InsertRow(Sched)
         \/ UNCHANGED vars /\ UNCHANGED doubled
  BY DEF CloseCommit
<1>2. r \in Requesters
  BY DEF Requesters
<1>3. /\ request \in [Requesters -> Shape] /\ \A q \in Requesters : request[q].at = "insert" => request[q].key \in RequestKeys
      /\ account \in [status : AccountStatus, error : Codes \cup {"none"}, retry : BOOLEAN]
  BY DEF SyncInv, SyncTypes
<1>4. /\ request' \in [Requesters -> Shape] /\ \A q \in Requesters : request'[q].at = "insert" => request'[q].key \in RequestKeys
      /\ request'[r].at = "ask"
  <2>1. [request[r] EXCEPT !.at = "ask"] \in Shape /\ [request[r] EXCEPT !.at = "ask"].at = "ask"
    BY <1>2, <1>3 DEF Stages
  <2>2. \A q \in Requesters : request'[q] = IF q = r THEN [request[r] EXCEPT !.at = "ask"] ELSE request[q]
    BY <1>1, <1>3
  <2>3. request' = [q \in Requesters |-> request'[q]]
    BY <1>1, <1>3
  <2> QED BY <1>2, <1>3, <2>1, <2>2, <2>3
<1>5. account' \in [status : AccountStatus, error : Codes \cup {"none"}, retry : BOOLEAN]
  <2>1. [status |-> "reconnect_required", error |-> "AUTH_EXPIRED", retry |-> FALSE]
          \in [status : AccountStatus, error : Codes \cup {"none"}, retry : BOOLEAN]
    BY DEF AccountStatus, Codes
  <2> QED BY <1>1, <1>3, <2>1
<1>6. Asking'
  BY <1>2, <1>4 DEF Asking
<1>7. /\ OneLive' /\ InOrder' /\ doubled' \in BOOLEAN
      /\ UNCHANGED <<pc, error>>
      /\ 1 .. created \subseteq 1 .. created'
      /\ \A j \in Jobs : FailedFor(j)' => FailedFor(j)
  <2>1. CASE InsertRow(Sched)
    <3>1. created \in Nat
      BY QueueAssumption DEF SyncInv, IInv, TypeOK
    <3>2. created' = created + 1
      BY <1>1, <2>1, InsertFrame
    <3>3. 1 .. created \subseteq 1 .. created'
      BY <3>1, <3>2
    <3> QED BY <1>1, <2>1, <3>3, InsertFrame
  <2>2. CASE UNCHANGED vars /\ UNCHANGED doubled
    <3>1. UNCHANGED <<pc, error>> /\ doubled' \in BOOLEAN
      BY <2>2 DEF vars, rowVars, execVars, SyncInv, SyncTypes
    <3>2. OneLive' /\ InOrder'
      <4>1. \A j \in Jobs : Live(j)' => Live(j)
        BY <2>2, RowsFrame
      <4>2. \A w \in Executors : pc'[w] = "publish" /\ Owns(w)' => pc[w] = "publish" /\ Owns(w) /\ fetched'[w] = fetched[w]
        BY <1>1, <2>2, RowsFrame
      <4> QED BY <1>1, <2>2, <4>1, <4>2, OrderFrame DEF SyncInv
    <3> QED BY <2>2, <3>1, <3>2, RowsFrame
  <2> QED BY <1>1, <2>1, <2>2
<1>8. answered' \in [RequestKeys -> SUBSET (1 .. created')]
  BY <1>1, <1>7 DEF SyncInv, SyncTypes
<1>9. SyncTypes'
  BY <1>1, <1>4, <1>5, <1>7, <1>8 DEF SyncInv, SyncTypes
<1>10. FreeToFollow'
  BY <1>1, <1>7 DEF SyncInv, FreeToFollow
<1>11. Followed'
  <2>1. Pending("refresh")' = Pending("refresh") /\ Pending("review")' = Pending("review")
    BY <1>1 DEF Pending
  <2>2. \A j \in Jobs : (FailedFor(j)' => FailedFor(j)) /\ Announced(j)' = Announced(j)
    BY <1>1, <1>7 DEF Announced
  <2>3. ASSUME NEW j \in Jobs, FailedFor(j)', faults' = 0 PROVE <<j, error'[j]>> \in events' \/ Announced(j)'
    BY <1>1, <1>7, <2>2, <2>3 DEF SyncInv, Followed
  <2> QED BY <1>1, <1>6, <2>1, <2>3 DEF SyncInv, Followed
<1> QED BY <1>7, <1>9, <1>10, <1>11 DEF SyncInv

\* The review of the day is asked for: of the imports there are and of the status the account has.
LEMMA CloseAskKeeps == ASSUME SyncInv, IInv', NEW r \in Closers, CloseAsk(r) PROVE SyncInv'
<1>1. /\ UNCHANGED vars
      /\ UNCHANGED <<broker, todo, imports, twin, account, events, faults, fetched, upsets, answered, doubled>>
      /\ request' = [request EXCEPT ![r] = Idle]
      /\ asked' = [imports |-> Len(imports), status |-> account.status]
  BY DEF CloseAsk, Ask
<1>2. created' = created /\ r \in Requesters
  BY <1>1, RowsFrame DEF Requesters
<1>3. /\ request' \in [Requesters -> [at : Stages, key : RequestKeys \cup {Sched}]]
      /\ \A q \in Requesters : request'[q].at = "insert" => request'[q].key \in RequestKeys
  BY <1>1, <1>2 DEF SyncInv, SyncTypes, Stages, Idle
<1>4. asked' \in [imports : 0 .. Len(imports), status : AccountStatus]
  <2>1. Len(imports) \in Nat /\ account.status \in AccountStatus
    BY DEF SyncInv, SyncTypes
  <2> QED BY <1>1, <2>1
<1>5. SyncTypes'
  BY <1>1, <1>2, <1>3, <1>4 DEF SyncInv, SyncTypes
<1>6. OneLive' /\ InOrder'
  <2>1. \A j \in Jobs : Live(j)' => Live(j)
    BY <1>1, RowsFrame
  <2>2. \A w \in Executors : pc'[w] = "publish" /\ Owns(w)' => pc[w] = "publish" /\ Owns(w) /\ fetched'[w] = fetched[w]
    BY <1>1, RowsFrame
  <2> QED BY <1>1, <2>1, <2>2, OrderFrame DEF SyncInv
<1>7. FreeToFollow'
  BY <1>1, RowsFrame DEF SyncInv, FreeToFollow
<1>8. Followed'
  <2>1. Pending("refresh")' = Pending("refresh")
    BY <1>1 DEF Pending
  <2>2. \A j \in Jobs : (FailedFor(j)' => FailedFor(j) /\ error'[j] = error[j]) /\ (error'[j] = error[j] => Announced(j)' = Announced(j))
    BY <1>1, RowsFrame DEF Announced
  <2>3. asked'.imports = Len(imports') /\ asked'.status = account'.status
    BY <1>1
  <2> QED BY <1>1, <2>1, <2>2, <2>3 DEF SyncInv, Followed
<1> QED BY <1>5, <1>6, <1>7, <1>8 DEF SyncInv

-----------------------------------------------------------------------------
(* Attempts. *)

\* A step of an executor that publishes nothing, and after which it is not about to.
LEMMA ActOrder ==
  ASSUME SyncInv, NEW w \in Executors, Claim(w) \/ Abandon(w) \/ Fail(w) \/ Drop(w) \/ Crash(w),
         UNCHANGED <<imports, doubled>>, \A v \in Executors : v # w => fetched'[v] = fetched[v]
  PROVE  /\ OneLive' /\ InOrder' /\ created' = created
         /\ pc'[w] \in {"idle", "work"} /\ \A v \in Executors : v # w => pc'[v] = pc[v]
<1>1. /\ created' = created /\ pc'[w] \in {"idle", "work"} /\ \A v \in Executors : v # w => pc'[v] = pc[v]
  BY DEF Claim, Abandon, Fail, Drop, Crash, GoIdle, rowVars, execVars, SyncInv, IInv, TypeOK
<1>2. \A j \in Jobs : Live(j)' => Live(j)
  BY LiveShrinks DEF SyncInv
<1>3. ASSUME NEW v \in Executors, pc'[v] = "publish", Owns(v)'
      PROVE  pc[v] = "publish" /\ Owns(v) /\ fetched'[v] = fetched[v]
  <2>1. v # w /\ pc[v] # "idle"
    BY <1>1, <1>3
  <2> QED BY <1>3, <2>1, OwnersRemain DEF SyncInv
<1> QED BY <1>1, <1>2, <1>3, OrderFrame DEF SyncInv

\* A claim: of a failure it may decide on nobody must hear.
LEMMA ClaimSyncKeeps == ASSUME SyncInv, IInv', NEW w \in Executors, ClaimSync(w) PROVE SyncInv'
<1>1. /\ todo[w] = <<>> /\ (Claim(w) \/ Abandon(w))
      /\ UNCHANGED <<broker, todo, imports, twin, asked, account, events, faults, fetched, upsets, request, answered, doubled>>
  BY DEF ClaimSync, domainVars, requestVars
<1>2. /\ OneLive' /\ InOrder' /\ created' = created
      /\ pc'[w] \in {"idle", "work"} /\ \A v \in Executors : v # w => pc'[v] = pc[v]
  BY <1>1, ActOrder
<1>3. ASSUME NEW j \in Jobs, FailedFor(j)' PROVE FailedFor(j) /\ error'[j] = error[j]
  <2>1. CASE Claim(w)
    BY <1>3, <2>1 DEF Claim, FailedFor, SyncInv, IInv, TypeOK
  <2>2. CASE Abandon(w)
    <3>1. PICK i \in Jobs : status' = [status EXCEPT ![i] = "failed"] /\ error' = [error EXCEPT ![i] = "INTERNAL"]
      BY <2>2 DEF Abandon
    <3>2. j # i
      BY <1>3, <3>1 DEF FailedFor, EventCodes, SyncInv, IInv, TypeOK
    <3> QED BY <1>3, <3>1, <3>2 DEF FailedFor, SyncInv, IInv, TypeOK
  <2> QED BY <1>1, <2>1, <2>2
<1>4. SyncTypes'
  BY <1>1, <1>2 DEF SyncInv, SyncTypes
<1>5. FreeToFollow'
  <2> SUFFICES ASSUME NEW v \in Executors
               PROVE  (pc'[v] # "idle" => todo'[v] = <<>>) /\ (pc'[v] = "publish" => fetched'[v] > 0)
    BY DEF FreeToFollow
  <2>1. CASE v = w
    <3>1. todo'[w] = <<>> /\ pc'[w] # "publish"
      BY <1>1, <1>2
    <3> QED BY <2>1, <3>1
  <2>2. CASE v # w
    BY <1>1, <1>2, <2>2 DEF SyncInv, FreeToFollow
  <2> QED BY <2>1, <2>2
<1>6. Followed'
  <2>1. Asking => Asking'
    BY <1>1 DEF Asking
  <2> QED BY <1>1, <1>3, <2>1, FollowedFrame DEF SyncInv
<1> QED BY <1>2, <1>4, <1>5, <1>6 DEF SyncInv

\* An attempt fetches what the broker holds: no import holds anything newer.
LEMMA FetchKeeps == ASSUME SyncInv, IInv', NEW w \in Executors, Fetch(w) PROVE SyncInv'
<1>1. /\ Work(w) /\ fetched' = [fetched EXCEPT ![w] = broker]
      /\ UNCHANGED <<broker, todo, imports, twin, asked, account, events, faults, upsets, request, answered, doubled>>
  BY DEF Fetch, requestVars
<1>2. /\ pc[w] = "work" /\ created' = created /\ UNCHANGED <<status, error>> /\ \A v \in Executors : v # w => pc'[v] = pc[v]
  BY <1>1 DEF Work, rowVars, SyncInv, IInv, TypeOK
<1>3. broker \in Nat /\ broker > 0 /\ fetched \in [Executors -> 0 .. broker]
  BY DEF SyncInv, SyncTypes
<1>4. fetched'[w] = broker /\ fetched' \in [Executors -> 0 .. broker] /\ \A v \in Executors : v # w => fetched'[v] = fetched[v]
  BY <1>1, <1>3
<1>5. SyncTypes'
  BY <1>1, <1>2, <1>4 DEF SyncInv, SyncTypes
<1>6. FreeToFollow'
  <2> SUFFICES ASSUME NEW v \in Executors
               PROVE  (pc'[v] # "idle" => todo'[v] = <<>>) /\ (pc'[v] = "publish" => fetched'[v] > 0)
    BY DEF FreeToFollow
  <2>1. CASE v = w
    BY <1>1, <1>2, <1>3, <1>4, <2>1 DEF SyncInv, FreeToFollow
  <2>2. CASE v # w
    BY <1>1, <1>2, <1>4, <2>2 DEF SyncInv, FreeToFollow
  <2> QED BY <2>1, <2>2
<1>7. OneLive'
  BY <1>1, LiveShrinks DEF SyncInv, OneLive
<1>8. InOrder'
  <2> SUFFICES ASSUME ~doubled
               PROVE  /\ \A i, m \in DOMAIN imports : i < m => imports[i] <= imports[m]
                      /\ \A v \in Executors : pc'[v] = "publish" /\ Owns(v)' => \A i \in DOMAIN imports : imports[i] <= fetched'[v]
    BY <1>1 DEF InOrder
  <2>1. \A i \in DOMAIN imports : imports[i] <= broker
    <3>1. imports \in Seq(1 .. broker)
      BY DEF SyncInv, SyncTypes
    <3>2. \A i \in DOMAIN imports : imports[i] \in 1 .. broker
      BY <3>1, WiderSeq
    <3> QED BY <1>3, <3>2
  <2>2. ASSUME NEW v \in Executors, pc'[v] = "publish", Owns(v)' PROVE \A i \in DOMAIN imports : imports[i] <= fetched'[v]
    <3>1. CASE v = w
      BY <1>4, <2>1, <3>1
    <3>2. CASE v # w
      <4>1. pc[v] = "publish" /\ Owns(v) /\ fetched'[v] = fetched[v]
        BY <1>1, <1>2, <1>4, <2>2, <3>2, OwnersRemain DEF SyncInv
      <4> QED BY <4>1 DEF SyncInv, InOrder
    <3> QED BY <3>1, <3>2
  <2> QED BY <2>2 DEF SyncInv, InOrder
<1>9. Followed'
  <2>1. Asking => Asking'
    BY <1>1 DEF Asking
  <2>2. \A j \in Jobs : FailedFor(j)' => FailedFor(j) /\ error'[j] = error[j]
    BY <1>2 DEF FailedFor
  <2> QED BY <1>1, <2>1, <2>2, FollowedFrame DEF SyncInv
<1> QED BY <1>5, <1>6, <1>7, <1>8, <1>9 DEF SyncInv

-----------------------------------------------------------------------------
(* Outcomes. *)

\* Executor w's list, empty before, becomes L: everything that was wanted still is, and so is what L wants.
LEMMA ListAdded ==
  ASSUME NEW w \in Executors, todo \in [Executors -> Seq(Task)], todo[w] = <<>>, NEW L, todo' = [todo EXCEPT ![w] = L]
  PROVE  /\ (Pending("refresh") \/ Wants(L, "refresh")) => Pending("refresh")'
         /\ (Pending("review") \/ Wants(L, "review")) => Pending("review")'
         /\ \A j \in Jobs : error'[j] = error[j] /\ Announced(j) => Announced(j)'
         /\ \A j \in Jobs : Holds(L, [do |-> "event", job |-> j, code |-> error'[j]]) => Announced(j)'
<1>1. todo'[w] = L /\ \A v \in Executors : v # w => todo'[v] = todo[v]
  OBVIOUS
<1>2. \A what : ~Wants(todo[w], what)
  BY DEF Wants
<1>3. \A step : ~Holds(todo[w], step)
  BY DEF Holds
<1>4. (Pending("refresh") \/ Wants(L, "refresh")) => Pending("refresh")'
  BY <1>1, <1>2 DEF Pending, Wants
<1>5. (Pending("review") \/ Wants(L, "review")) => Pending("review")'
  BY <1>1, <1>2 DEF Pending, Wants
<1>6. ASSUME NEW j \in Jobs, error'[j] = error[j], Announced(j) PROVE Announced(j)'
  BY <1>1, <1>3, <1>6 DEF Announced, Holds
<1>7. ASSUME NEW j \in Jobs, Holds(L, [do |-> "event", job |-> j, code |-> error'[j]]) PROVE Announced(j)'
  BY <1>1, <1>7 DEF Announced, Holds
<1> QED BY <1>4, <1>5, <1>6, <1>7

\* What follows a publication.
LEMMA FollowImportIs ==
  ASSUME NEW w \in Executors, cur[w] \in Jobs
  PROVE  /\ FollowImport(w) \in Seq(Task)
         /\ Wants(FollowImport(w), "refresh")
         /\ found[w] = "complete" => Wants(FollowImport(w), "review")
<1>1. <<"refresh", "review">> \in Seq({"refresh", "review", "event"}) /\ <<"refresh">> \in Seq({"refresh", "review", "event"})
  OBVIOUS
<1>2. "none" \in Codes \cup {"none"} /\ "PARTIAL_DATA" \in Codes \cup {"none"}
  BY DEF Codes
<1>3. CASE found[w] = "complete"
  <2> DEFINE s == <<"refresh", "review">>
  <2>1. DOMAIN s = {1, 2} /\ s[1] = "refresh" /\ s[2] = "review"
    OBVIOUS
  <2>2. FollowImport(w) = Steps(s, cur[w], "none")
    BY <1>3 DEF FollowImport
  <2> HIDE DEF s
  <2>3. /\ Steps(s, cur[w], "none") \in Seq(Task)
        /\ \A i \in DOMAIN s : i \in DOMAIN Steps(s, cur[w], "none") /\ Steps(s, cur[w], "none")[i] = [do |-> s[i], job |-> cur[w], code |-> "none"]
    <3>1. s \in Seq({"refresh", "review", "event"})
      BY <1>1 DEF s
    <3>2. \A i \in DOMAIN s : s[i] = "event" => "none" \in EventCodes
      BY <2>1
    <3> QED BY <1>2, <3>1, <3>2, StepsShape
  <2> QED BY <2>1, <2>2, <2>3 DEF Wants
<1>4. CASE found[w] # "complete"
  <2> DEFINE s == <<"refresh">>
  <2>1. DOMAIN s = {1} /\ s[1] = "refresh"
    OBVIOUS
  <2>2. FollowImport(w) = Steps(s, cur[w], "PARTIAL_DATA")
    BY <1>4 DEF FollowImport
  <2> HIDE DEF s
  <2>3. /\ Steps(s, cur[w], "PARTIAL_DATA") \in Seq(Task)
        /\ \A i \in DOMAIN s : /\ i \in DOMAIN Steps(s, cur[w], "PARTIAL_DATA")
                               /\ Steps(s, cur[w], "PARTIAL_DATA")[i] = [do |-> s[i], job |-> cur[w], code |-> "PARTIAL_DATA"]
    <3>1. s \in Seq({"refresh", "review", "event"})
      BY <1>1 DEF s
    <3>2. \A i \in DOMAIN s : s[i] = "event" => "PARTIAL_DATA" \in EventCodes
      BY <2>1
    <3> QED BY <1>2, <3>1, <3>2, StepsShape
  <2> QED BY <1>4, <2>1, <2>2, <2>3 DEF Wants
<1> QED BY <1>3, <1>4

\* What follows a failure that is not retried.
LEMMA FollowFailureIs ==
  ASSUME NEW w \in Executors, cur[w] \in Jobs, found[w] \in Codes
  PROVE  /\ FollowFailure(w) \in Seq(Task)
         /\ ~Retries(w) /\ found[w] \in EventCodes =>
              Holds(FollowFailure(w), [do |-> "event", job |-> cur[w], code |-> found[w]])
         /\ found[w] = "AUTH_EXPIRED" => ~Retries(w) /\ Wants(FollowFailure(w), "review")
<1>1. <<"event", "review">> \in Seq({"refresh", "review", "event"}) /\ <<"event">> \in Seq({"refresh", "review", "event"})
  OBVIOUS
<1>2. found[w] = "AUTH_EXPIRED" => ~Retries(w) /\ found[w] \in EventCodes
  BY DEF Retries, RETRYABLE, EventCodes
<1>3. CASE Retries(w) \/ found[w] \notin EventCodes
  <2>1. FollowFailure(w) = <<>>
    BY <1>2, <1>3 DEF FollowFailure
  <2> QED BY <1>2, <1>3, <2>1
<1>4. CASE ~Retries(w) /\ found[w] = "AUTH_EXPIRED"
  <2> DEFINE s == <<"event", "review">>
  <2>1. DOMAIN s = {1, 2} /\ s[1] = "event" /\ s[2] = "review"
    OBVIOUS
  <2>2. FollowFailure(w) = Steps(s, cur[w], found[w])
    BY <1>2, <1>4 DEF FollowFailure
  <2> HIDE DEF s
  <2>3. /\ Steps(s, cur[w], found[w]) \in Seq(Task)
        /\ \A i \in DOMAIN s : i \in DOMAIN Steps(s, cur[w], found[w]) /\ Steps(s, cur[w], found[w])[i] = [do |-> s[i], job |-> cur[w], code |-> found[w]]
    <3>1. s \in Seq({"refresh", "review", "event"})
      BY <1>1 DEF s
    <3> QED BY <1>2, <1>4, <3>1, StepsShape
  <2> QED BY <1>4, <2>1, <2>2, <2>3 DEF Wants, Holds
<1>5. CASE ~Retries(w) /\ found[w] \in EventCodes /\ found[w] # "AUTH_EXPIRED"
  <2> DEFINE s == <<"event">>
  <2>1. DOMAIN s = {1} /\ s[1] = "event"
    OBVIOUS
  <2>2. FollowFailure(w) = Steps(s, cur[w], found[w])
    BY <1>5 DEF FollowFailure
  <2> HIDE DEF s
  <2>3. /\ Steps(s, cur[w], found[w]) \in Seq(Task)
        /\ \A i \in DOMAIN s : i \in DOMAIN Steps(s, cur[w], found[w]) /\ Steps(s, cur[w], found[w])[i] = [do |-> s[i], job |-> cur[w], code |-> found[w]]
    <3>1. s \in Seq({"refresh", "review", "event"})
      BY <1>1 DEF s
    <3> QED BY <1>5, <3>1, StepsShape
  <2> QED BY <1>5, <2>1, <2>2, <2>3 DEF Holds
<1> QED BY <1>2, <1>3, <1>4, <1>5

\* After an attempt has ended, the others are where they were and its own list may be anything.
LEMMA EndedFree ==
  ASSUME SyncInv, NEW w \in Executors, pc'[w] \in {"idle", "work"}, todo'[w] = <<>> \/ pc'[w] = "idle",
         \A v \in Executors : v # w => pc'[v] = pc[v] /\ todo'[v] = todo[v] /\ fetched'[v] = fetched[v]
  PROVE  FreeToFollow'
<1> SUFFICES ASSUME NEW v \in Executors
             PROVE  (pc'[v] # "idle" => todo'[v] = <<>>) /\ (pc'[v] = "publish" => fetched'[v] > 0)
  BY DEF FreeToFollow
<1>1. CASE v = w
  <2>1. (pc'[w] # "idle" => todo'[w] = <<>>) /\ pc'[w] # "publish"
    OBVIOUS
  <2> QED BY <1>1, <2>1
<1>2. CASE v # w
  BY <1>2 DEF SyncInv, FreeToFollow
<1> QED BY <1>1, <1>2

\* An attempt fails: the failure and the flag on the account are on its list, if the owner must hear of them.
LEMMA FailSyncKeeps == ASSUME SyncInv, IInv', NEW w \in Executors, FailSync(w) PROVE SyncInv'
<1>1. /\ Fail(w)
      /\ account' = [status |-> IF found[w] = "AUTH_EXPIRED" THEN "reconnect_required" ELSE account.status,
                     error |-> found[w], retry |-> Retries(w)]
      /\ todo' = [todo EXCEPT ![w] = FollowFailure(w)]
      /\ fetched' = [fetched EXCEPT ![w] = 0]
      /\ UNCHANGED <<broker, imports, twin, asked, events, faults, upsets, request, answered, doubled>>
  BY DEF FailSync, Forgotten, requestVars
<1>2. /\ pc[w] = "fail" /\ Owns(w) /\ pc'[w] = "idle"
      /\ error' = [error EXCEPT ![cur[w]] = found[w]]
      /\ \E s \in {"queued", "failed"} : status' = [status EXCEPT ![cur[w]] = s]
      /\ Retries(w) => status' = [status EXCEPT ![cur[w]] = "queued"]
  BY <1>1 DEF Fail, GoIdle, SyncInv, IInv, TypeOK
<1>3. cur[w] \in Jobs /\ found[w] \in Codes /\ todo[w] = <<>>
  BY <1>2 DEF SyncInv, IInv, Attempt, Busy, Errands, FreeToFollow
<1>4. /\ todo \in [Executors -> Seq(Task)] /\ fetched \in [Executors -> 0 .. broker] /\ broker \in Nat
      /\ account \in [status : AccountStatus, error : Codes \cup {"none"}, retry : BOOLEAN]
  BY DEF SyncInv, SyncTypes
<1>5. fetched' \in [Executors -> 0 .. broker] /\ \A v \in Executors : v # w => fetched'[v] = fetched[v] /\ todo'[v] = todo[v]
  BY <1>1, <1>4
<1>6. /\ OneLive' /\ InOrder' /\ created' = created /\ \A v \in Executors : v # w => pc'[v] = pc[v]
  BY <1>1, <1>5, ActOrder
<1>7. /\ FollowFailure(w) \in Seq(Task)
      /\ ~Retries(w) /\ found[w] \in EventCodes => Holds(FollowFailure(w), [do |-> "event", job |-> cur[w], code |-> found[w]])
      /\ found[w] = "AUTH_EXPIRED" => ~Retries(w) /\ Wants(FollowFailure(w), "review")
  BY <1>3, FollowFailureIs
<1>8. account' \in [status : AccountStatus, error : Codes \cup {"none"}, retry : BOOLEAN]
  <2>1. Retries(w) \in BOOLEAN
    BY DEF Retries
  <2>2. account.status \in AccountStatus /\ "reconnect_required" \in AccountStatus
    BY <1>4 DEF AccountStatus
  <2> QED BY <1>1, <1>3, <2>1, <2>2
<1>9. todo' \in [Executors -> Seq(Task)]
  BY <1>1, <1>4, <1>7
<1>10. SyncTypes'
  BY <1>1, <1>5, <1>6, <1>8, <1>9 DEF SyncInv, SyncTypes
<1>11. FreeToFollow'
  BY <1>2, <1>5, <1>6, EndedFree
<1>12. Followed'
  <2>1. /\ (Pending("refresh") => Pending("refresh")')
        /\ (Pending("review") \/ Wants(FollowFailure(w), "review")) => Pending("review")'
        /\ \A j \in Jobs : error'[j] = error[j] /\ Announced(j) => Announced(j)'
        /\ \A j \in Jobs : Holds(FollowFailure(w), [do |-> "event", job |-> j, code |-> error'[j]]) => Announced(j)'
    BY <1>1, <1>3, <1>4, ListAdded
  <2>2. Asking' = Asking
    BY <1>1 DEF Asking
  <2>3. ASSUME account'.status = "reconnect_required" PROVE account.status = "reconnect_required" \/ Wants(FollowFailure(w), "review")
    BY <1>1, <1>7, <2>3
  <2>4. ASSUME NEW j \in Jobs, FailedFor(j)', faults = 0 PROVE <<j, error'[j]>> \in events \/ Announced(j)'
    <3>1. CASE j = cur[w]
      <4>1. error'[j] = found[w] /\ status'[j] = "failed" /\ found[w] \in EventCodes
        BY <1>2, <1>3, <2>4, <3>1 DEF FailedFor, SyncInv, IInv, TypeOK
      <4>2. ~Retries(w)
        BY <1>2, <1>3, <3>1, <4>1 DEF SyncInv, IInv, TypeOK
      <4> QED BY <1>7, <2>1, <3>1, <4>1, <4>2
    <3>2. CASE j # cur[w]
      <4>1. error'[j] = error[j] /\ FailedFor(j)
        BY <1>2, <1>3, <2>4, <3>2 DEF FailedFor, SyncInv, IInv, TypeOK
      <4> QED BY <2>1, <2>4, <4>1 DEF SyncInv, Followed
    <3> QED BY <3>1, <3>2
  <2> QED BY <1>1, <2>1, <2>2, <2>3, <2>4 DEF SyncInv, Followed
<1> QED BY <1>6, <1>10, <1>11, <1>12 DEF SyncInv

\* An attempt publishes: nobody else may, so the imports stay in order, and the refresh and the review are on its list.
LEMMA PublishSyncKeeps == ASSUME SyncInv, IInv', NEW w \in Executors, PublishSync(w) PROVE SyncInv'
<1>1. /\ Publish(w)
      /\ todo' = [todo EXCEPT ![w] = FollowImport(w)]
      /\ fetched' = [fetched EXCEPT ![w] = 0]
      /\ UNCHANGED <<broker, twin, asked, events, faults, upsets, request, answered, doubled>>
      /\ \/ /\ found[w] = "complete" /\ imports' = Append(imports, fetched[w])
            /\ account' = [status |-> "active", error |-> "none", retry |-> FALSE]
         \/ /\ found[w] # "complete" /\ imports' = imports
            /\ account' = [account EXCEPT !.error = "PARTIAL_DATA", !.retry = FALSE]
  BY DEF PublishSync, Forgotten, requestVars
<1>2. /\ pc[w] = "publish" /\ Owns(w) /\ pc'[w] = "idle" /\ created' = created
      /\ \A v \in Executors : v # w => pc'[v] = pc[v]
      /\ \/ status' = [status EXCEPT ![cur[w]] = "done"]
         \/ status' = [status EXCEPT ![cur[w]] = "failed"] /\ error' = [error EXCEPT ![cur[w]] = "PARTIAL_DATA"]
      /\ \E e : error' = [error EXCEPT ![cur[w]] = e]
  BY <1>1 DEF Publish, GoIdle, SyncInv, IInv, TypeOK
<1>3. cur[w] \in Jobs /\ todo[w] = <<>> /\ fetched[w] > 0
  BY <1>2 DEF SyncInv, IInv, Attempt, Busy, FreeToFollow
<1>4. /\ todo \in [Executors -> Seq(Task)] /\ fetched \in [Executors -> 0 .. broker] /\ broker \in Nat
      /\ account \in [status : AccountStatus, error : Codes \cup {"none"}, retry : BOOLEAN]
      /\ imports \in Seq(1 .. broker) /\ twin \in 0 .. Len(imports)
      /\ asked \in [imports : 0 .. Len(imports), status : AccountStatus]
  BY DEF SyncInv, SyncTypes
<1>5. fetched' \in [Executors -> 0 .. broker] /\ \A v \in Executors : v # w => fetched'[v] = fetched[v] /\ todo'[v] = todo[v]
  BY <1>1, <1>4
<1>6. fetched[w] \in 1 .. broker
  BY <1>3, <1>4
<1>7. /\ FollowImport(w) \in Seq(Task)
      /\ Wants(FollowImport(w), "refresh")
      /\ found[w] = "complete" => Wants(FollowImport(w), "review")
  BY <1>3, FollowImportIs
<1>8. /\ Append(imports, fetched[w]) \in Seq(1 .. broker) /\ Len(imports) \in Nat
      /\ Len(Append(imports, fetched[w])) = Len(imports) + 1
      /\ DOMAIN imports = 1 .. Len(imports) /\ DOMAIN Append(imports, fetched[w]) = 1 .. Len(imports) + 1
      /\ \A i \in DOMAIN imports : Append(imports, fetched[w])[i] = imports[i]
      /\ Append(imports, fetched[w])[Len(imports) + 1] = fetched[w]
  BY <1>4, <1>6
<1>9. SyncTypes'
  <2>1. imports' \in Seq(1 .. broker) /\ 0 .. Len(imports) \subseteq 0 .. Len(imports')
    <3>1. CASE imports' = imports
      BY <1>4, <3>1
    <3>2. CASE imports' = Append(imports, fetched[w])
      <4>1. Len(imports') = Len(imports) + 1 /\ imports' \in Seq(1 .. broker) /\ Len(imports) \in Nat
        BY <1>8, <3>2
      <4>2. 0 .. Len(imports) \subseteq 0 .. Len(imports')
        BY <4>1
      <4> QED BY <4>1, <4>2
    <3> QED BY <1>1, <3>1, <3>2
  <2>2. account' \in [status : AccountStatus, error : Codes \cup {"none"}, retry : BOOLEAN]
    <3>1. "active" \in AccountStatus /\ "none" \in Codes \cup {"none"} /\ "PARTIAL_DATA" \in Codes \cup {"none"}
      BY DEF AccountStatus, Codes
    <3>2. [account EXCEPT !.error = "PARTIAL_DATA", !.retry = FALSE] \in [status : AccountStatus, error : Codes \cup {"none"}, retry : BOOLEAN]
      BY <1>4, <3>1
    <3>3. [status |-> "active", error |-> "none", retry |-> FALSE] \in [status : AccountStatus, error : Codes \cup {"none"}, retry : BOOLEAN]
      BY <3>1
    <3> QED BY <1>1, <3>2, <3>3
  <2>3. todo' \in [Executors -> Seq(Task)]
    BY <1>1, <1>4, <1>7
  <2>4. twin' \in 0 .. Len(imports') /\ asked' \in [imports : 0 .. Len(imports'), status : AccountStatus]
    BY <1>1, <1>4, <2>1
  <2> QED BY <1>1, <1>2, <1>5, <2>1, <2>2, <2>3, <2>4 DEF SyncInv, SyncTypes
<1>10. FreeToFollow'
  BY <1>2, <1>5, EndedFree
<1>11. OneLive'
  BY <1>1, LiveShrinks DEF SyncInv, OneLive
<1>12. ASSUME ~doubled, NEW v \in Executors, pc'[v] = "publish", Owns(v)' PROVE FALSE
  <2>1. v # w /\ pc[v] = "publish" /\ Owns(v)
    <3>1. v # w /\ pc[v] # "idle"
      BY <1>2, <1>12
    <3> QED BY <1>1, <1>2, <1>12, <3>1, OwnersRemain DEF SyncInv
  <2>2. cur[v] \in Jobs
    BY <2>1 DEF SyncInv, IInv, Attempt, Busy
  <2>3. Live(cur[v]) /\ Live(cur[w])
    BY <1>2, <2>1 DEF Owns, Live
  <2>4. cur[v] = cur[w] /\ mine[v] = mine[w]
    BY <1>2, <1>3, <1>12, <2>1, <2>2, <2>3 DEF Owns, SyncInv, OneLive
  <2> QED BY <1>2, <2>1, <2>4 DEF SyncInv, IInv, OwnTokens, Busy
<1>13. InOrder'
  <2> SUFFICES ASSUME ~doubled PROVE \A i, k \in DOMAIN imports' : i < k => imports'[i] <= imports'[k]
    BY <1>1, <1>12 DEF InOrder
  <2>1. /\ \A i, k \in DOMAIN imports : i < k => imports[i] <= imports[k]
        /\ \A i \in DOMAIN imports : imports[i] <= fetched[w]
    BY <1>2 DEF SyncInv, InOrder
  <2>2. CASE imports' = Append(imports, fetched[w])
    <3> SUFFICES ASSUME NEW i \in 1 .. Len(imports) + 1, NEW k \in 1 .. Len(imports) + 1, i < k
                 PROVE  imports'[i] <= imports'[k]
      BY <1>8, <2>2
    <3>1. i \in DOMAIN imports /\ (k \in DOMAIN imports \/ k = Len(imports) + 1)
      BY <1>8
    <3>2. imports'[i] = imports[i] /\ (k \in DOMAIN imports => imports'[k] = imports[k]) /\ imports'[Len(imports) + 1] = fetched[w]
      BY <1>8, <2>2, <3>1
    <3> QED BY <2>1, <3>1, <3>2
  <2>3. CASE imports' = imports
    BY <2>1, <2>3
  <2> QED BY <1>1, <2>2, <2>3
<1>14. Followed'
  <2>1. /\ Pending("refresh")'
        /\ (Pending("review") \/ Wants(FollowImport(w), "review")) => Pending("review")'
        /\ \A j \in Jobs : error'[j] = error[j] /\ Announced(j) => Announced(j)'
    BY <1>1, <1>3, <1>4, <1>7, ListAdded
  <2>2. Asking' = Asking
    BY <1>1 DEF Asking
  <2>3. \/ Pending("review")' /\ account'.status # "reconnect_required"
        \/ imports' = imports /\ account'.status = account.status
    <3>1. CASE found[w] = "complete"
      <4>1. account'.status = "active"
        BY <1>1, <3>1
      <4> QED BY <1>7, <2>1, <3>1, <4>1
    <3>2. CASE found[w] # "complete"
      <4>1. account' = [account EXCEPT !.error = "PARTIAL_DATA", !.retry = FALSE] /\ imports' = imports
        BY <1>1, <3>2
      <4>2. account'.status = account.status
        BY <1>4, <4>1
      <4> QED BY <4>1, <4>2
    <3> QED BY <3>1, <3>2
  <2>4. ASSUME NEW j \in Jobs, FailedFor(j)', faults = 0 PROVE <<j, error'[j]>> \in events \/ Announced(j)'
    <3>1. j # cur[w]
      BY <1>2, <1>3, <2>4 DEF FailedFor, SyncInv, IInv, TypeOK
    <3>2. error'[j] = error[j] /\ FailedFor(j)
      BY <1>2, <1>3, <2>4, <3>1 DEF FailedFor, SyncInv, IInv, TypeOK
    <3> QED BY <2>1, <2>4, <3>2 DEF SyncInv, Followed
  <2> QED BY <1>1, <2>1, <2>2, <2>3, <2>4 DEF SyncInv, Followed
<1> QED BY <1>9, <1>10, <1>11, <1>13, <1>14 DEF SyncInv

\* A superseded attempt drops what it fetched: nothing of it is to be followed up.
LEMMA DropSyncKeeps == ASSUME SyncInv, IInv', NEW w \in Executors, DropSync(w) PROVE SyncInv'
<1>1. /\ Drop(w) /\ fetched' = [fetched EXCEPT ![w] = 0]
      /\ UNCHANGED <<broker, imports, twin, todo, account, asked, events, faults, upsets, request, answered, doubled>>
  BY DEF DropSync, Forgotten, requestVars
<1>2. /\ pc[w] # "idle" /\ pc'[w] = "idle" /\ UNCHANGED <<status, error>>
  BY <1>1 DEF Drop, GoIdle, rowVars, SyncInv, IInv, TypeOK
<1>3. fetched \in [Executors -> 0 .. broker] /\ broker \in Nat
  BY DEF SyncInv, SyncTypes
<1>4. fetched' \in [Executors -> 0 .. broker] /\ \A v \in Executors : v # w => fetched'[v] = fetched[v] /\ todo'[v] = todo[v]
  BY <1>1, <1>3
<1>5. /\ OneLive' /\ InOrder' /\ created' = created /\ \A v \in Executors : v # w => pc'[v] = pc[v]
  BY <1>1, <1>4, ActOrder
<1>6. SyncTypes'
  BY <1>1, <1>4, <1>5 DEF SyncInv, SyncTypes
<1>7. FreeToFollow'
  BY <1>2, <1>4, <1>5, EndedFree
<1>8. Followed'
  <2>1. Asking => Asking'
    BY <1>1 DEF Asking
  <2>2. \A j \in Jobs : FailedFor(j)' => FailedFor(j) /\ error'[j] = error[j]
    BY <1>2 DEF FailedFor
  <2> QED BY <1>1, <2>1, <2>2, FollowedFrame DEF SyncInv
<1> QED BY <1>5, <1>6, <1>7, <1>8 DEF SyncInv

-----------------------------------------------------------------------------
(* Follow-ups. *)

\* The first step of executor w's list is taken up: the others stay wanted.
LEMMA ListTaken ==
  ASSUME NEW w \in Executors, todo \in [Executors -> Seq(Task)], todo[w] # <<>>, todo' = [todo EXCEPT ![w] = Tail(@)]
  PROVE  /\ todo' \in [Executors -> Seq(Task)] /\ Head(todo[w]) \in Task
         /\ \A v \in Executors : v # w => todo'[v] = todo[v]
         /\ Pending("refresh") /\ Head(todo[w]).do # "refresh" => Pending("refresh")'
         /\ Pending("review") /\ Head(todo[w]).do # "review" => Pending("review")'
         /\ \A j \in Jobs : error'[j] = error[j] /\ Announced(j) /\ Head(todo[w]) # [do |-> "event", job |-> j, code |-> error[j]]
              => Announced(j)'
<1>1. todo'[w] = Tail(todo[w]) /\ \A v \in Executors : v # w => todo'[v] = todo[v]
  OBVIOUS
<1>2. /\ Tail(todo[w]) \in Seq(Task) /\ Head(todo[w]) \in Task
      /\ \A i \in DOMAIN todo[w] : todo[w][i] # Head(todo[w]) => \E k \in DOMAIN Tail(todo[w]) : Tail(todo[w])[k] = todo[w][i]
  BY TailKeeps
<1>3. todo' \in [Executors -> Seq(Task)]
  BY <1>2
<1>4. ASSUME NEW what, Pending(what), Head(todo[w]).do # what PROVE \E v \in Executors : Wants(todo'[v], what)
  <2>1. PICK v \in Executors : Wants(todo[v], what)
    BY <1>4 DEF Pending
  <2>2. CASE v = w
    <3>1. PICK i \in DOMAIN todo[w] : todo[w][i].do = what
      BY <2>1, <2>2 DEF Wants
    <3>2. PICK k \in DOMAIN Tail(todo[w]) : Tail(todo[w])[k] = todo[w][i]
      BY <1>2, <1>4, <3>1
    <3>3. Wants(todo'[w], what)
      BY <1>1, <3>1, <3>2 DEF Wants
    <3> QED BY <3>3
  <2>3. CASE v # w
    BY <1>1, <2>1, <2>3
  <2> QED BY <2>2, <2>3
<1>5. ASSUME NEW j \in Jobs, error'[j] = error[j], Announced(j), Head(todo[w]) # [do |-> "event", job |-> j, code |-> error[j]]
      PROVE  Announced(j)'
  <2> DEFINE e == [do |-> "event", job |-> j, code |-> error[j]]
  <2>1. PICK v \in Executors : \E i \in DOMAIN todo[v] : todo[v][i] = e
    BY <1>5 DEF Announced, Holds
  <2>2. Head(todo[w]) # e
    BY <1>5
  <2> SUFFICES \E u \in Executors : \E k \in DOMAIN todo'[u] : todo'[u][k] = e
    BY <1>5 DEF Announced, Holds
  <2> HIDE DEF e
  <2>3. CASE v = w
    BY <1>1, <1>2, <2>1, <2>2, <2>3
  <2>4. CASE v # w
    BY <1>1, <2>1, <2>4
  <2> QED BY <2>3, <2>4
<1>6. Pending("refresh") /\ Head(todo[w]).do # "refresh" => Pending("refresh")'
  BY <1>4 DEF Pending
<1>7. Pending("review") /\ Head(todo[w]).do # "review" => Pending("review")'
  BY <1>4 DEF Pending
<1> QED BY <1>1, <1>2, <1>3, <1>5, <1>6, <1>7

\* An executor that has something to follow up attempts nothing.
LEMMA FollowOrder ==
  ASSUME SyncInv, NEW w \in Executors, todo[w] # <<>>, UNCHANGED vars, UNCHANGED <<imports, doubled>>,
         \A v \in Executors : v # w => fetched'[v] = fetched[v] /\ todo'[v] = todo[v]
  PROVE  OneLive' /\ InOrder' /\ FreeToFollow' /\ created' = created
<1>1. pc[w] = "idle"
  BY DEF SyncInv, FreeToFollow
<1>2. \A j \in Jobs : Live(j)' => Live(j)
  BY RowsFrame
<1>3. \A v \in Executors : pc'[v] = "publish" /\ Owns(v)' => pc[v] = "publish" /\ Owns(v) /\ fetched'[v] = fetched[v]
  BY <1>1, RowsFrame
<1>4. FreeToFollow'
  BY <1>1, RowsFrame, EndedFree
<1> QED BY <1>2, <1>3, <1>4, RowsFrame, OrderFrame DEF SyncInv

\* A step of a follow-up does what was wanted of it.
LEMMA FollowUpKeeps == ASSUME SyncInv, IInv', NEW w \in Executors, FollowUp(w) PROVE SyncInv'
<1> DEFINE step == Head(todo[w])
<1>1. /\ todo[w] # <<>> /\ todo' = [todo EXCEPT ![w] = Tail(@)]
      /\ IF step.do = "refresh" THEN twin' = Len(imports) ELSE twin' = twin
      /\ IF step.do = "event" THEN events' = events \cup {<<step.job, step.code>>} ELSE events' = events
      /\ IF step.do = "review" THEN asked' = [imports |-> Len(imports), status |-> account.status] ELSE asked' = asked
      /\ UNCHANGED vars
      /\ UNCHANGED <<broker, account, imports, fetched, request, answered, doubled, upsets, faults>>
  BY DEF FollowUp, Ask, requestVars
<1>2. todo \in [Executors -> Seq(Task)] /\ events \subseteq Jobs \X EventCodes
      /\ twin \in 0 .. Len(imports) /\ asked \in [imports : 0 .. Len(imports), status : AccountStatus]
      /\ Len(imports) \in Nat /\ account.status \in AccountStatus
  BY DEF SyncInv, SyncTypes
<1>3. /\ todo' \in [Executors -> Seq(Task)] /\ step \in Task
      /\ \A v \in Executors : v # w => todo'[v] = todo[v]
      /\ Pending("refresh") /\ step.do # "refresh" => Pending("refresh")'
      /\ Pending("review") /\ step.do # "review" => Pending("review")'
      /\ \A j \in Jobs : error'[j] = error[j] /\ Announced(j) /\ step # [do |-> "event", job |-> j, code |-> error[j]] => Announced(j)'
  BY <1>1, <1>2, ListTaken
<1>4. OneLive' /\ InOrder' /\ FreeToFollow' /\ created' = created
  BY <1>1, <1>3, FollowOrder
<1> HIDE DEF step
<1>5. SyncTypes'
  <2>1. twin' \in 0 .. Len(imports)
    BY <1>1, <1>2
  <2>2. asked' \in [imports : 0 .. Len(imports), status : AccountStatus]
    BY <1>1, <1>2
  <2>3. events' \subseteq Jobs \X EventCodes
    <3>1. step.do = "event" => <<step.job, step.code>> \in Jobs \X EventCodes
      BY <1>3 DEF Task
    <3> QED BY <1>1, <1>2, <3>1
  <2> QED BY <1>1, <1>3, <1>4, <2>1, <2>2, <2>3 DEF SyncInv, SyncTypes
<1>6. Followed'
  <2> SUFFICES ASSUME faults = 0
               PROVE  /\ twin' = Len(imports) \/ Pending("refresh")'
                      /\ asked'.imports = Len(imports) \/ Pending("review")'
                      /\ account.status = "reconnect_required" =>
                           (asked'.status = "reconnect_required" \/ Pending("review")' \/ Asking')
                      /\ \A j \in Jobs : FailedFor(j)' => (<<j, error'[j]>> \in events' \/ Announced(j)')
    BY <1>1 DEF Followed
  <2>1. twin' = Len(imports) \/ Pending("refresh")'
    BY <1>1, <1>3 DEF SyncInv, Followed
  <2>2. asked'.imports = Len(imports) \/ Pending("review")'
    BY <1>1, <1>3 DEF SyncInv, Followed
  <2>3. account.status = "reconnect_required" => (asked'.status = "reconnect_required" \/ Pending("review")' \/ Asking')
    <3>1. Asking' = Asking
      BY <1>1 DEF Asking
    <3> QED BY <1>1, <1>3, <3>1 DEF SyncInv, Followed
  <2>4. ASSUME NEW j \in Jobs, FailedFor(j)' PROVE <<j, error'[j]>> \in events' \/ Announced(j)'
    <3>1. FailedFor(j) /\ error'[j] = error[j]
      BY <1>1, <2>4, RowsFrame
    <3>2. <<j, error[j]>> \in events \/ Announced(j)
      BY <3>1 DEF SyncInv, Followed
    <3>3. CASE step = [do |-> "event", job |-> j, code |-> error[j]]
      <4>1. step.do = "event" /\ step.job = j /\ step.code = error[j]
        BY <3>3
      <4> QED BY <1>1, <3>1, <4>1
    <3>4. CASE step # [do |-> "event", job |-> j, code |-> error[j]]
      BY <1>1, <1>3, <3>1, <3>2, <3>4
    <3> QED BY <3>3, <3>4
  <2> QED BY <2>1, <2>2, <2>3, <2>4
<1> QED BY <1>4, <1>5, <1>6 DEF SyncInv

\* A fault within the bound: from then on nothing is promised of follow-ups.
LEMMA Faulty ==
  ASSUME SyncInv, Upset, faults' = faults + 1
  PROVE  upsets' \in 0 .. MaxUpsets /\ faults' \in 0 .. upsets' /\ Followed'
<1>1. upsets' \in 0 .. MaxUpsets /\ faults' \in 0 .. upsets' /\ faults' # 0
  BY SyncAssumption DEF Upset, SyncInv, SyncTypes
<1> QED BY <1>1 DEF Followed

\* A refresh of a follow-up fails.
LEMMA RefreshFailsKeeps == ASSUME SyncInv, IInv', NEW w \in Executors, RefreshFails(w) PROVE SyncInv'
<1>1. /\ Upset /\ faults' = faults + 1 /\ todo[w] # <<>> /\ todo' = [todo EXCEPT ![w] = Tail(@)]
      /\ UNCHANGED vars
      /\ UNCHANGED <<broker, account, imports, fetched, twin, events, asked, request, answered, doubled>>
  BY DEF RefreshFails, requestVars
<1>2. todo' \in [Executors -> Seq(Task)] /\ \A v \in Executors : v # w => todo'[v] = todo[v]
  BY <1>1, ListTaken DEF SyncInv, SyncTypes
<1>3. OneLive' /\ InOrder' /\ FreeToFollow' /\ created' = created
  BY <1>1, <1>2, FollowOrder
<1>4. upsets' \in 0 .. MaxUpsets /\ faults' \in 0 .. upsets' /\ Followed'
  BY <1>1, Faulty
<1>5. SyncTypes'
  BY <1>1, <1>2, <1>3, <1>4 DEF SyncInv, SyncTypes
<1> QED BY <1>3, <1>4, <1>5 DEF SyncInv

\* A process dies.
LEMMA DieKeeps == ASSUME SyncInv, IInv', NEW w \in Executors, Die(w) PROVE SyncInv'
<1>1. /\ Upset /\ faults' = faults + 1 /\ todo' = [todo EXCEPT ![w] = <<>>] /\ fetched' = [fetched EXCEPT ![w] = 0]
      /\ Crash(w) \/ (todo[w] # <<>> /\ UNCHANGED vars)
      /\ UNCHANGED <<broker, account, imports, twin, events, asked, request, answered, doubled>>
  BY DEF Die, Forgotten, requestVars
<1>2. todo \in [Executors -> Seq(Task)] /\ fetched \in [Executors -> 0 .. broker] /\ broker \in Nat
  BY DEF SyncInv, SyncTypes
<1>3. /\ todo' \in [Executors -> Seq(Task)] /\ fetched' \in [Executors -> 0 .. broker]
      /\ \A v \in Executors : v # w => fetched'[v] = fetched[v] /\ todo'[v] = todo[v]
  <2>1. <<>> \in Seq(Task)
    OBVIOUS
  <2> QED BY <1>1, <1>2, <2>1
<1>4. OneLive' /\ InOrder' /\ FreeToFollow' /\ created' = created
  <2>1. CASE Crash(w)
    <3>1. OneLive' /\ InOrder' /\ created' = created /\ \A v \in Executors : v # w => pc'[v] = pc[v]
      BY <1>1, <1>3, <2>1, ActOrder
    <3>2. pc'[w] = "idle"
      BY <2>1 DEF Crash, GoIdle, SyncInv, IInv, TypeOK
    <3> QED BY <1>3, <3>1, <3>2, EndedFree
  <2>2. CASE todo[w] # <<>> /\ UNCHANGED vars
    BY <1>1, <1>3, <2>2, FollowOrder
  <2> QED BY <1>1, <2>1, <2>2
<1>5. upsets' \in 0 .. MaxUpsets /\ faults' \in 0 .. upsets' /\ Followed'
  BY <1>1, Faulty
<1>6. SyncTypes'
  BY <1>1, <1>3, <1>4, <1>5 DEF SyncInv, SyncTypes
<1> QED BY <1>4, <1>5, <1>6 DEF SyncInv

\* Time passes.
LEMMA STickKeeps == ASSUME SyncInv, IInv', STick PROVE SyncInv'
<1>1. /\ Tick
      /\ UNCHANGED <<broker, account, imports, twin, events, asked, request, answered, doubled, todo, fetched, upsets, faults>>
  BY DEF STick, domainVars, requestVars
<1>2. UNCHANGED <<created, status, error, pc>>
  BY <1>1 DEF Tick, execVars
<1>3. OneLive' /\ InOrder'
  <2>1. \A j \in Jobs : Live(j)' => Live(j)
    BY <1>2 DEF Live
  <2>2. ASSUME NEW v \in Executors, pc'[v] = "publish", Owns(v)' PROVE pc[v] = "publish" /\ Owns(v) /\ fetched'[v] = fetched[v]
    <3>1. pc[v] # "idle"
      BY <1>2, <2>2
    <3> QED BY <1>1, <2>2, <3>1, OwnersRemain DEF SyncInv
  <2> QED BY <1>1, <2>1, <2>2, OrderFrame DEF SyncInv
<1>4. SyncTypes'
  BY <1>1, <1>2 DEF SyncInv, SyncTypes
<1>5. FreeToFollow'
  BY <1>1, <1>2 DEF SyncInv, FreeToFollow
<1>6. Followed'
  <2>1. Asking => Asking'
    BY <1>1 DEF Asking
  <2>2. \A j \in Jobs : FailedFor(j)' => FailedFor(j) /\ error'[j] = error[j]
    BY <1>2 DEF FailedFor
  <2> QED BY <1>1, <2>1, <2>2, FollowedFrame DEF SyncInv
<1> QED BY <1>3, <1>4, <1>5, <1>6 DEF SyncInv

-----------------------------------------------------------------------------
(* The theorems. *)

\* The first state satisfies the invariant.
LEMMA SyncInit == SInit => SyncInv
<1> SUFFICES ASSUME SInit PROVE SyncInv
  OBVIOUS
<1>1. Init
  BY DEF SInit
<1>2. IInv
  BY <1>1, InitIInv
<1>3. \A j \in Jobs : status[j] = "absent"
  BY <1>1 DEF Init
<1>4. SyncTypes
  <2>1. imports \in Seq(1 .. broker) /\ Len(imports) = 0
    BY DEF SInit
  <2>2. account \in [status : AccountStatus, error : Codes \cup {"none"}, retry : BOOLEAN]
    BY DEF SInit, AccountStatus
  <2>3. /\ broker \in Nat \ {0} /\ fetched \in [Executors -> 0 .. broker] /\ todo \in [Executors -> Seq(Task)] /\ doubled \in BOOLEAN
        /\ events \subseteq Jobs \X EventCodes /\ answered \in [RequestKeys -> SUBSET (1 .. created)]
        /\ upsets \in 0 .. MaxUpsets /\ faults \in 0 .. upsets
    <3>1. broker = 1 /\ fetched = [w \in Executors |-> 0] /\ events = {} /\ upsets = 0 /\ faults = 0 /\ doubled = FALSE
      BY DEF SInit
    <3>2. todo \in [Executors -> Seq(Task)]
      <4>1. <<>> \in Seq(Task)
        OBVIOUS
      <4> QED BY <4>1 DEF SInit
    <3>3. answered \in [RequestKeys -> SUBSET (1 .. created)]
      BY DEF SInit
    <3>4. upsets \in 0 .. MaxUpsets /\ faults \in 0 .. upsets /\ broker \in Nat \ {0} /\ events \subseteq Jobs \X EventCodes
      BY <3>1, SyncAssumption
    <3>5. fetched \in [Executors -> 0 .. broker]
      <4>1. 0 \in 0 .. broker
        BY <3>1
      <4> QED BY <3>1, <4>1
    <3>6. doubled \in BOOLEAN
      BY <3>1
    <3> QED BY <3>2, <3>3, <3>4, <3>5, <3>6
  <2>4. /\ request \in [Requesters -> [at : Stages, key : RequestKeys \cup {Sched}]]
        /\ \A r \in Requesters : request[r].at = "insert" => request[r].key \in RequestKeys
    BY DEF SInit, Idle, Stages
  <2>5. twin \in 0 .. Len(imports) /\ asked \in [imports : 0 .. Len(imports), status : AccountStatus]
    BY <2>1 DEF SInit, AccountStatus
  <2> QED BY <2>1, <2>2, <2>3, <2>4, <2>5 DEF SyncTypes
<1>5. FreeToFollow
  BY <1>1 DEF SInit, Init, FreeToFollow
<1>6. OneLive
  BY <1>3 DEF OneLive, Live
<1>7. InOrder
  BY <1>1 DEF SInit, Init, InOrder
<1>8. Followed
  BY <1>3 DEF SInit, Followed, FailedFor
<1> QED BY <1>2, <1>4, <1>5, <1>6, <1>7, <1>8 DEF SyncInv

\* Every step keeps it.
LEMMA SyncStep == SyncInv /\ [SNext]_syncVars => SyncInv'
<1> SUFFICES ASSUME SyncInv, [SNext]_syncVars PROVE SyncInv'
  OBVIOUS
<1>1. IInv'
  <2>1. UNCHANGED syncVars => UNCHANGED vars
    BY DEF syncVars
  <2> QED BY <2>1, QueueStep, NextIInv DEF SyncInv
<1>2. CASE UNCHANGED syncVars
  <2>1. UNCHANGED vars /\ UNCHANGED <<broker, todo, imports, twin, asked, account, events, faults, fetched, upsets, request, answered, doubled>>
    BY <1>2 DEF syncVars, domainVars, requestVars
  <2>2. created' = created
    BY <2>1, RowsFrame
  <2>3. SyncTypes'
    BY <2>1, <2>2 DEF SyncInv, SyncTypes
  <2> QED BY <1>1, <2>1, <2>3, QuietStep DEF Asking
<1>3. CASE Trade \/ SessionEnds \/ Connect
  BY <1>1, <1>3, TradeKeeps, ConnectKeeps
<1>4. CASE \E r \in Posters : PostInsert(r) \/ \E k \in RequestKeys : Post(r, k)
  BY <1>1, <1>4, PostInsertKeeps, PostKeeps
<1>5. CASE \E r \in Closers : Close(r) \/ CloseCommit(r) \/ CloseLost(r) \/ CloseAsk(r)
  BY <1>1, <1>5, CloseKeeps, CloseCommitKeeps, CloseAskKeeps
<1>6. CASE \E w \in Executors : SStep(w) \/ RefreshFails(w) \/ Die(w)
  BY <1>1, <1>6, ClaimSyncKeeps, FetchKeeps, PublishSyncKeeps, FailSyncKeeps, DropSyncKeeps, FollowUpKeeps,
     RefreshFailsKeeps, DieKeeps DEF SStep
<1>7. CASE STick
  BY <1>1, <1>7, STickKeeps
<1> QED BY <1>2, <1>3, <1>4, <1>5, <1>6, <1>7 DEF SNext

\* The invariant of the synchronisation (angel/sync.py, api/v4/connections.py, pi/scheduler.py, jobs.py).
THEOREM SyncInvariance == SSpec => []SyncInv
<1> QED BY SyncInit, SyncStep, PTL DEF SSpec

\* Unless two syncs were active at once, an import is never older than the one before it, and unless a process
\* died or a refresh failed every outcome reaches the twin, the review and the owner (angel/sync.py).
THEOREM SyncsLand == SSpec => []SyncLands
<1>1. SyncInv => SyncLands
  <2> SUFFICES ASSUME SyncInv PROVE SyncLands
    OBVIOUS
  <2>1. STypeOK
    <3>1. attempts \in [Jobs -> 0 .. MaxAttempts] /\ pc \in [Executors -> PCs]
      BY DEF SyncInv, IInv, TypeOK
    <3>2. account.status \in {"active", "reconnect_required"} /\ account.error \in Codes \cup {"none"}
      BY DEF SyncInv, SyncTypes, AccountStatus
    <3> QED BY <3>1, <3>2 DEF STypeOK, SyncInv, SyncTypes
  <2>2. SnapshotNeverOlder
    <3> SUFFICES ASSUME ~doubled, NEW i \in 2 .. Len(imports) PROVE imports[i - 1] <= imports[i]
      BY DEF SnapshotNeverOlder
    <3>1. Len(imports) \in Nat /\ DOMAIN imports = 1 .. Len(imports)
      BY DEF SyncInv, SyncTypes
    <3>2. i - 1 \in DOMAIN imports /\ i \in DOMAIN imports /\ i - 1 < i
      BY <3>1
    <3> QED BY <3>2 DEF SyncInv, InOrder
  <2>3. FollowedUp
    <3> SUFFICES ASSUME faults = 0, Settled
                 PROVE  /\ twin = Len(imports)
                        /\ asked.imports = Len(imports)
                        /\ account.status = "reconnect_required" => asked.status = "reconnect_required"
                        /\ \A j \in Jobs : status[j] = "failed" /\ error[j] \in EventCodes \ {"PARTIAL_DATA"} => <<j, error[j]>> \in events
      BY DEF FollowedUp
    <3>1. \A w \in Executors : DOMAIN todo[w] = {}
      BY DEF Settled
    <3>2. ~Pending("refresh") /\ ~Pending("review") /\ \A j \in Jobs : ~Announced(j)
      BY <3>1 DEF Pending, Announced, Wants, Holds
    <3>3. ~Asking
      BY DEF Settled, Asking
    <3> QED BY <3>2, <3>3 DEF SyncInv, Followed, FailedFor
  <2> QED BY <2>1, <2>2, <2>3 DEF SyncLands
<1> QED BY <1>1, SyncInvariance, PTL

\* Of several processes that run the same daily close one inserts the row or flags the account: the marker of the
\* day decides (pi/scheduler.py).
THEOREM ClosesOnce == SSpec => ClosedOnce
<1> DEFINE A == closed /\ (\E r \in Closers : request'[r] # request[r]) => UNCHANGED <<rowVars, account>>
<1>1. SyncInv /\ [SNext]_syncVars => A
  <2> SUFFICES ASSUME SyncInv, [SNext]_syncVars, closed, NEW c \in Closers, request'[c] # request[c]
               PROVE  UNCHANGED <<rowVars, account>>
    OBVIOUS
  <2>1. CASE UNCHANGED request
    BY <2>1
  <2>3. ASSUME NEW r \in Posters, UNCHANGED request \/ \E x : request' = [request EXCEPT ![r] = x] PROVE FALSE
    <3>1. request \in [Requesters -> [at : Stages, key : RequestKeys \cup {Sched}]]
      BY DEF SyncInv, SyncTypes
    <3>2. c # r /\ c \in Requesters
      BY SyncAssumption DEF Requesters
    <3> QED BY <2>3, <3>1, <3>2
  <2>4. ASSUME NEW r \in Posters, PostInsert(r) \/ \E k \in RequestKeys : Post(r, k) PROVE FALSE
    <3>1. UNCHANGED request \/ \E x : request' = [request EXCEPT ![r] = x]
      BY <2>4 DEF PostInsert, Post
    <3> QED BY <2>3, <3>1
  <2>5. ASSUME NEW r \in Closers, Close(r) \/ CloseLost(r) \/ CloseAsk(r) PROVE UNCHANGED <<rowVars, account>>
    BY <2>5 DEF Close, CloseLost, CloseAsk, vars, domainVars
  <2>6. ASSUME NEW r \in Closers, CloseCommit(r) PROVE FALSE
    BY <2>6 DEF CloseCommit, MarkerFree
  <2>7. Trade \/ SessionEnds \/ Connect \/ STick => UNCHANGED request
    BY DEF Trade, SessionEnds, Connect, STick, requestVars
  <2>8. \A w \in Executors : SStep(w) \/ RefreshFails(w) \/ Die(w) => UNCHANGED request
    BY DEF SStep, ClaimSync, Fetch, PublishSync, FailSync, DropSync, FollowUp, RefreshFails, Die, requestVars
  <2>9. UNCHANGED syncVars => UNCHANGED request
    BY DEF syncVars, requestVars
  <2> QED BY <2>1, <2>4, <2>5, <2>6, <2>7, <2>8, <2>9 DEF SNext
<1>2. SSpec => [][A]_syncVars
  BY <1>1, SyncInvariance, PTL DEF SSpec
<1> QED BY <1>2 DEF ClosedOnce

=============================================================================
