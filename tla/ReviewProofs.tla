---------------------------- MODULE ReviewProofs ----------------------------
(***************************************************************************)
(* Coalescing of reviews, proved for any number of executors, handlers,    *)
(* rows, attempts and changes of the inputs, and any lease and backoff.    *)
(*                                                                         *)
(* That no two reviews are live is not inductive: a publication inserts a  *)
(* successor in the commit that ends its own row, so it rests on the       *)
(* newest row being the only one that may be live (Rows) and on whoever is *)
(* about to publish still owning its row, although nothing is checked      *)
(* again at the commit (Fenced, from OwnTokens and AttemptsKnown).         *)
(*                                                                         *)
(* That a coalesced request is honoured rests on the advisory lock: from   *)
(* the check of a publication to its commit nobody can ask for a review,   *)
(* so what was checked to be the newest inputs is still as new as the last *)
(* promise when it is committed, though the twin may have moved on         *)
(* (PromiseKept).                                                          *)
(***************************************************************************)
EXTENDS Review, TLAPS

\* The inputs a are as new as b.
AsNew(a, b) == a.s > b.s \/ (a.s = b.s /\ a.v >= b.v)

\* An attempt is under way.
Busy(w) == pc[w] # "idle"

\* The values of the variables; every change of the inputs is counted.
RowTypes ==
  /\ RTypeOK /\ stateV <= 1 + changes /\ val <= 1 + changes /\ kind \in [Jobs -> Kinds]
  /\ token \in [Jobs -> 0 .. MaxAttempts] /\ results \in [Jobs -> SUBSET (0 .. MaxAttempts)]
  /\ cur \in [Executors -> Jobs \cup {0}] /\ mine \in [Executors -> 0 .. MaxAttempts]

\* The newest row is the only one that may be live, tokens count the attempts, and only a finished row has a result.
Rows ==
  \A j \in Jobs :
    /\ status[j] = "running" => token[j] = attempts[j] /\ attempts[j] > 0
    /\ status[j] = "absent" <=> j > created
    /\ status[j] = "absent" => attempts[j] = 0
    /\ Live(j) => j = created /\ kind[j] = "review"
    /\ status[j] \notin Terminal => results[j] = {}

\* An attempt is of a row there is, and no newer than its newest one.
AttemptsKnown ==
  \A w \in Executors : Busy(w) => cur[w] \in Jobs /\ 0 < mine[w] /\ mine[w] <= attempts[cur[w]]

\* No two attempts hold the same token of a row.
OwnTokens ==
  \A v, w \in Executors : Busy(v) /\ Busy(w) /\ cur[v] = cur[w] /\ mine[v] = mine[w] => v = w

\* Between its check and its commit an attempt owns its row, and no other is there.
Fenced == \A w \in Publishing : Owns(w) /\ \A v \in Publishing : v = w

\* The inputs are as new as those of the last request; so is what is about to be committed, and, once the newest
\* review has published, the current decision.
PromiseKept ==
  /\ AsNew(Now, promised)
  /\ \A w \in Executors : pc[w] = "commit" => AsNew(computed[w], promised)
  /\ LastPublished => AsNew(current, promised)

\* The inductive invariant.
ReviewInv == RowTypes /\ Rows /\ AttemptsKnown /\ OwnTokens /\ Fenced /\ PromiseKept

\* At first there is no review, and nothing was promised that is not current.
LEMMA ReviewStart == ASSUME RInit PROVE ReviewInv
<1>. USE DEF RInit, Init
<1>1. RowTypes
  <2>1. 0 \in 0 .. MaxJobs /\ 0 \in 0 .. MaxAttempts /\ stateV \in {0, 1} /\ 0 \in 0 .. MaxChanges
        /\ stateV \in 0 .. 1 + MaxChanges
    BY QueueAssumption, ReviewAssumption
  <2>2. Now \in Inputs /\ NoInputs \in Inputs
    <3>1. \A n \in {0, 1} : n \in Nat
      OBVIOUS
    <3>2. stateV \in Nat /\ val \in Nat /\ 0 \in Nat
      BY <2>1, <3>1
    <3>. QED BY <3>2 DEF Now, NoInputs, Inputs
  <2>3. RTypeOK
    BY <2>1, <2>2 DEF RTypeOK, Statuses, PCs
  <2>4. stateV <= 1 + changes /\ val <= 1 + changes
    BY <2>1
  <2>5. /\ kind \in [Jobs -> Kinds] /\ token \in [Jobs -> 0 .. MaxAttempts] /\ results \in [Jobs -> SUBSET (0 .. MaxAttempts)]
        /\ cur \in [Executors -> Jobs \cup {0}] /\ mine \in [Executors -> 0 .. MaxAttempts]
    BY <2>1 DEF Kinds
  <2>. QED BY <2>3, <2>4, <2>5 DEF RowTypes
<1>2. Rows
  BY DEF Rows, Jobs, Live, Terminal
<1>3. AttemptsKnown /\ OwnTokens /\ Fenced
  BY DEF AttemptsKnown, OwnTokens, Fenced, Busy, Publishing
<1>4. PromiseKept
  BY ReviewAssumption DEF PromiseKept, AsNew, Now, LastPublished
<1>. QED BY <1>1, <1>2, <1>3, <1>4 DEF ReviewInv

\* Versions and valuations are numbers.
LEMMA InputNumbers ==
  ASSUME RowTypes
  PROVE  /\ Now \in Inputs /\ stateV \in Nat /\ val \in Nat /\ changes \in 0 .. MaxChanges /\ MaxChanges \in Nat
         /\ promised.s \in Nat /\ promised.v \in Nat /\ promised \in Inputs
         /\ current.s \in Nat /\ current.v \in Nat /\ current \in Inputs
         /\ \A w \in Executors : computed[w] \in Inputs /\ computed[w].s \in Nat /\ computed[w].v \in Nat
  BY ReviewAssumption DEF RowTypes, RTypeOK, Now, Inputs

\* The table and the attempts stay as they are.
LEMMA RowsStay ==
  ASSUME ReviewInv, UNCHANGED <<created, kind, status, attempts, token, results, pc, cur, mine>>
  PROVE  Rows' /\ AttemptsKnown' /\ OwnTokens' /\ Fenced'
  BY DEF ReviewInv, Rows, AttemptsKnown, OwnTokens, Fenced, Busy, Publishing, Owns, Live

\* A change of the inputs makes them newer.
LEMMA ChangeStep ==
  ASSUME ReviewInv, NEW h \in Handlers,
         NewState(h) \/ NewValuation(h) \/ Expire(h) \/ Recover(h) \/ RequestReview(h)
  PROVE  ReviewInv'
<1>. USE DEF ReviewInv
<1>1. /\ UNCHANGED <<vars, current, computed, promised>> /\ changes < MaxChanges /\ changes' = changes + 1
      /\ \E next \in {"idle", "enqueue"} : hpc' = [hpc EXCEPT ![h] = next]
  BY DEF NewState, NewValuation, Expire, Recover, RequestReview, Handles
<1>2. /\ \/ stateV' = stateV + 1 /\ val' = 1
         \/ stateV' = stateV /\ val' = val + 1
         \/ stateV' = stateV /\ val' = val
      /\ flagged' \in BOOLEAN
  BY DEF NewState, NewValuation, Expire, Recover, RequestReview, twin, RowTypes, RTypeOK
<1>3. UNCHANGED <<created, kind, status, attempts, token, results, pc, cur, mine>>
  BY <1>1 DEF vars, rowVars, execVars
<1>4. Rows' /\ AttemptsKnown' /\ OwnTokens' /\ Fenced'
  BY <1>3, RowsStay
<1>5. RowTypes'
  <2>1. stateV' \in 0 .. 1 + MaxChanges /\ val' \in 0 .. 1 + MaxChanges /\ changes' \in 0 .. MaxChanges
        /\ stateV' <= 1 + changes' /\ val' <= 1 + changes'
    BY <1>1, <1>2, InputNumbers DEF RowTypes
  <2>2. hpc' \in [Handlers -> {"idle", "enqueue"}]
    BY <1>1 DEF RowTypes, RTypeOK
  <2>. QED BY <1>1, <1>2, <1>3, <2>1, <2>2 DEF RowTypes, RTypeOK
<1>6. PromiseKept'
  <2>1. AsNew(Now, promised)'
    BY <1>1, <1>2, InputNumbers DEF PromiseKept, AsNew, Now
  <2>. QED BY <1>1, <1>3, <2>1 DEF PromiseKept, LastPublished
<1>. QED BY <1>4, <1>5, <1>6

\* A row that is inserted when no other is live.
LEMMA InsertKeeps ==
  ASSUME ReviewInv, Enqueue("review"), \A j \in Jobs : ~ Live(j)
  PROVE  /\ created' \in 0 .. MaxJobs /\ status' \in [Jobs -> Statuses] /\ status'[created'] = "queued" /\ created' \in Jobs
         /\ kind' \in [Jobs -> Kinds] /\ UNCHANGED <<attempts, token, results, pc, cur, mine>>
         /\ Rows' /\ AttemptsKnown' /\ OwnTokens' /\ Fenced'
<1>. USE DEF ReviewInv
<1>. DEFINE n == created + 1
<1>1. created' = n /\ n \in Jobs /\ created \in Nat /\ n \in 0 .. MaxJobs
  BY QueueAssumption DEF Enqueue, Jobs, RowTypes, RTypeOK
<1>2. /\ status' = [status EXCEPT ![n] = "queued"] /\ status \in [Jobs -> Statuses]
      /\ kind' = [kind EXCEPT ![n] = "review"] /\ kind \in [Jobs -> Kinds]
      /\ UNCHANGED <<attempts, token, results, pc, cur, mine>>
  BY DEF Enqueue, execVars, RowTypes, RTypeOK
<1>3. /\ status' \in [Jobs -> Statuses] /\ status'[n] = "queued" /\ \A j \in Jobs : j # n => status'[j] = status[j]
      /\ kind' \in [Jobs -> Kinds] /\ kind'[n] = "review" /\ \A j \in Jobs : j # n => kind'[j] = kind[j]
  BY <1>1, <1>2 DEF Statuses, Kinds
<1>4. n > created
  BY <1>1
<1>5. status[n] = "absent" /\ results[n] = {}
  BY <1>1, <1>4 DEF Rows, Terminal
<1>6. \A j \in Jobs : j # n => (j > n <=> j > created)
  BY <1>1 DEF Jobs
<1>. HIDE DEF n
<1>7. Rows'
  <2>. SUFFICES ASSUME NEW j \in Jobs
                PROVE  /\ status'[j] = "running" => token'[j] = attempts'[j] /\ attempts'[j] > 0
                       /\ status'[j] = "absent" <=> j > created'
                       /\ status'[j] = "absent" => attempts'[j] = 0
                       /\ Live(j)' => j = created' /\ kind'[j] = "review"
                       /\ status'[j] \notin Terminal => results'[j] = {}
    BY DEF Rows
  <2>1. CASE j = n
    BY <1>1, <1>2, <1>3, <1>5, <2>1
  <2>2. CASE j # n
    BY <1>1, <1>2, <1>3, <1>6, <2>2 DEF Rows, Live
  <2>. QED BY <2>1, <2>2
<1>8. AttemptsKnown' /\ OwnTokens'
  BY <1>2 DEF AttemptsKnown, OwnTokens, Busy
<1>9. Publishing = {}
  <2>1. \A w \in Publishing : status[cur[w]] = "running" /\ cur[w] \in Jobs
    BY DEF Fenced, Owns, Publishing, AttemptsKnown, Busy
  <2>. QED BY <2>1 DEF Live
<1>10. Fenced'
  BY <1>2, <1>9 DEF Fenced, Publishing
<1>. QED BY <1>1, <1>2, <1>3, <1>7, <1>8, <1>10

\* A request finds a live review or inserts one; either way the last one has not published.
LEMMA EnqueueStep == ASSUME ReviewInv, NEW h \in Handlers, EnqueueReview(h) PROVE ReviewInv'
<1>. USE DEF ReviewInv
<1>1. /\ hpc' = [hpc EXCEPT ![h] = "idle"] /\ promised' = Now /\ Publishing = {} /\ ReuseOrInsert
      /\ UNCHANGED <<stateV, val, flagged, current, computed, changes>>
  BY DEF EnqueueReview, twin, LockFree
<1>2. promised' \in Inputs /\ hpc' \in [Handlers -> {"idle", "enqueue"}]
  BY <1>1, InputNumbers DEF RowTypes, RTypeOK
<1>3. AsNew(Now, promised)'
  BY <1>1, InputNumbers DEF AsNew, Now
<1>4. /\ RowTypes' /\ Rows' /\ AttemptsKnown' /\ OwnTokens' /\ Fenced'
      /\ UNCHANGED pc /\ created' \in Jobs /\ Live(created)'
  <2>1. CASE LiveReviews = {}
    <3>1. Enqueue("review") /\ \A j \in Jobs : ~ Live(j)
      BY <1>1, <2>1 DEF ReuseOrInsert, Rows, LiveReviews
    <3>2. /\ created' \in 0 .. MaxJobs /\ status' \in [Jobs -> Statuses] /\ status'[created'] = "queued" /\ created' \in Jobs
          /\ kind' \in [Jobs -> Kinds] /\ UNCHANGED <<attempts, token, results, pc, cur, mine>>
          /\ Rows' /\ AttemptsKnown' /\ OwnTokens' /\ Fenced'
      BY <3>1, InsertKeeps
    <3>3. RowTypes'
      BY <1>1, <1>2, <3>2 DEF RowTypes, RTypeOK
    <3>. QED BY <3>2, <3>3 DEF Live
  <2>2. CASE LiveReviews # {}
    <3>1. UNCHANGED <<created, kind, status, attempts, token, results, pc, cur, mine>>
      BY <1>1, <2>2 DEF ReuseOrInsert, vars, rowVars, execVars
    <3>2. PICK j \in Jobs : Live(j)
      BY <2>2 DEF LiveReviews
    <3>3. j = created
      BY <3>2 DEF Rows
    <3>4. RowTypes'
      BY <1>1, <1>2, <3>1 DEF RowTypes, RTypeOK
    <3>. QED BY <3>1, <3>2, <3>3, <3>4, RowsStay DEF Live
  <2>. QED BY <2>1, <2>2
<1>5. PromiseKept'
  <2>1. \A w \in Executors : pc[w] # "commit"
    BY <1>1 DEF Publishing
  <2>2. ~ LastPublished'
    BY <1>4 DEF LastPublished, Live
  <2>. QED BY <1>3, <1>4, <2>1, <2>2 DEF PromiseKept
<1>. QED BY <1>4, <1>5

\* An executor that goes idle, with the rows of the others as they were, leaves them what they know.
LEMMA IdleKeeps ==
  ASSUME ReviewInv, NEW w \in Executors, GoIdle(w), attempts' = attempts,
         \A v \in Publishing : v # w => token'[cur[v]] = token[cur[v]] /\ status'[cur[v]] = status[cur[v]]
  PROVE  /\ AttemptsKnown' /\ OwnTokens' /\ Fenced'
         /\ pc' \in [Executors -> PCs \cup {"commit", "history"}]
         /\ cur' \in [Executors -> Jobs \cup {0}] /\ mine' \in [Executors -> 0 .. MaxAttempts]
         /\ \A v \in Executors : pc'[v] = "commit" => v # w /\ pc[v] = "commit"
<1>. USE DEF ReviewInv
<1>1. /\ pc \in [Executors -> PCs \cup {"commit", "history"}] /\ cur \in [Executors -> Jobs \cup {0}]
      /\ mine \in [Executors -> 0 .. MaxAttempts] /\ 0 \in 0 .. MaxAttempts
  BY QueueAssumption DEF RowTypes, RTypeOK
<1>2. /\ pc' = [pc EXCEPT ![w] = "idle"] /\ cur' = [cur EXCEPT ![w] = 0] /\ mine' = [mine EXCEPT ![w] = 0]
  BY DEF GoIdle
<1>3. pc'[w] = "idle" /\ \A v \in Executors : v # w => pc'[v] = pc[v] /\ cur'[v] = cur[v] /\ mine'[v] = mine[v]
  BY <1>1, <1>2
<1>4. /\ pc' \in [Executors -> PCs \cup {"commit", "history"}] /\ cur' \in [Executors -> Jobs \cup {0}]
      /\ mine' \in [Executors -> 0 .. MaxAttempts]
  BY <1>1, <1>2 DEF PCs
<1>5. AttemptsKnown' /\ OwnTokens'
  BY <1>3 DEF AttemptsKnown, OwnTokens, Busy
<1>6. \A v \in Publishing' : v \in Publishing /\ v # w
  BY <1>3 DEF Publishing
<1>7. Fenced'
  BY <1>3, <1>6 DEF Fenced, Owns, Publishing
<1>. QED BY <1>3, <1>4, <1>5, <1>7

\* Nobody else who publishes works on the row of an attempt that owns it.
LEMMA OthersElsewhere ==
  ASSUME ReviewInv, NEW w \in Executors, Busy(w), Owns(w)
  PROVE  /\ \A v \in Publishing : v # w => cur[v] # cur[w] /\ cur[v] \in Jobs
         /\ cur[w] \in Jobs /\ cur[w] = created /\ status[cur[w]] = "running" /\ kind[cur[w]] = "review"
         /\ results[cur[w]] = {} /\ mine[w] \in 0 .. MaxAttempts
  BY DEF ReviewInv, RowTypes, Fenced, Owns, OwnTokens, AttemptsKnown, Publishing, Busy, Rows, Live, Terminal

\* The attempt that owns the row ends it, or puts it back; a row that ends well has kept the promise.
LEMMA EndsKeep ==
  ASSUME ReviewInv, NEW w \in Executors, Busy(w), Owns(w), GoIdle(w),
         NEW st \in {"queued", "done", "failed"}, NEW res \in SUBSET (0 .. MaxAttempts),
         status' = [status EXCEPT ![cur[w]] = st], results' = [results EXCEPT ![cur[w]] = res],
         st # "done" => res = {},
         token' \in [Jobs -> 0 .. MaxAttempts], \A j \in Jobs : j # cur[w] => token'[j] = token[j],
         computed' = [computed EXCEPT ![w] = NoInputs],
         UNCHANGED <<created, kind, attempts, twin, hpc, changes, promised>>,
         current' \in Inputs,
         res # {} => AsNew(current', promised)
  PROVE  ReviewInv'
<1>. USE DEF ReviewInv
<1>. DEFINE j == cur[w]
<1>1. /\ j \in Jobs /\ j = created /\ status[j] = "running" /\ kind[j] = "review" /\ results[j] = {}
      /\ \A v \in Publishing : v # w => cur[v] # j /\ cur[v] \in Jobs
  BY OthersElsewhere
<1>2. /\ status' \in [Jobs -> Statuses] /\ results' \in [Jobs -> SUBSET (0 .. MaxAttempts)]
      /\ status'[j] = st /\ results'[j] = res
      /\ \A i \in Jobs : i # j => status'[i] = status[i] /\ results'[i] = results[i]
  BY <1>1 DEF RowTypes, RTypeOK, Statuses
<1>3. /\ AttemptsKnown' /\ OwnTokens' /\ Fenced'
      /\ pc' \in [Executors -> PCs \cup {"commit", "history"}]
      /\ cur' \in [Executors -> Jobs \cup {0}] /\ mine' \in [Executors -> 0 .. MaxAttempts]
      /\ \A v \in Executors : pc'[v] = "commit" => v # w /\ pc[v] = "commit"
  <2>. HIDE DEF ReviewInv
  <2>1. \A v \in Publishing : v # w => token'[cur[v]] = token[cur[v]] /\ status'[cur[v]] = status[cur[v]]
    BY <1>1, <1>2
  <2>. QED BY <2>1, IdleKeeps
<1>4. computed' \in [Executors -> Inputs] /\ \A v \in Executors : v # w => computed'[v] = computed[v]
  <2>1. NoInputs \in Inputs
    BY DEF NoInputs, Inputs
  <2>2. computed \in [Executors -> Inputs]
    BY DEF RowTypes, RTypeOK
  <2>. QED BY <2>1, <2>2
<1>. HIDE DEF j
<1>5. RowTypes'
  BY <1>2, <1>3, <1>4 DEF RowTypes, RTypeOK, twin
<1>6. Rows'
  <2>. SUFFICES ASSUME NEW i \in Jobs
                PROVE  /\ status'[i] = "running" => token'[i] = attempts'[i] /\ attempts'[i] > 0
                       /\ status'[i] = "absent" <=> i > created'
                       /\ status'[i] = "absent" => attempts'[i] = 0
                       /\ Live(i)' => i = created' /\ kind'[i] = "review"
                       /\ status'[i] \notin Terminal => results'[i] = {}
    BY DEF Rows
  <2>1. CASE i = j
    BY <1>1, <1>2, <2>1 DEF Rows, Terminal
  <2>2. CASE i # j
    <3>1. token'[i] = token[i]
      BY <2>2 DEF j
    <3>. QED BY <1>2, <2>2, <3>1 DEF Rows, Live
  <2>. QED BY <2>1, <2>2
<1>7. PromiseKept'
  <2>1. AsNew(Now, promised)'
    BY DEF PromiseKept, twin, Now
  <2>2. ASSUME NEW v \in Executors, pc'[v] = "commit" PROVE AsNew(computed'[v], promised')
    BY <1>3, <1>4, <2>2 DEF PromiseKept
  <2>3. LastPublished' => AsNew(current', promised')
    BY <1>1, <1>2 DEF LastPublished
  <2>. QED BY <2>1, <2>2, <2>3 DEF PromiseKept
<1>. QED BY <1>3, <1>5, <1>6, <1>7

\* The attempt that was checked commits what it read, which is as new as what was promised.
LEMMA CommitStep == ASSUME ReviewInv, NEW w \in Executors, CommitReview(w) PROVE ReviewInv'
<1>1. w \in Publishing /\ pc[w] = "commit" /\ Busy(w)
  BY DEF CommitReview, Publishing, Busy
<1>2. Owns(w) /\ AsNew(computed[w], promised) /\ computed[w] \in Inputs
  BY <1>1, InputNumbers DEF ReviewInv, Fenced, PromiseKept
<1>3. /\ cur[w] \in Jobs /\ results[cur[w]] = {} /\ mine[w] \in 0 .. MaxAttempts
  BY <1>1, <1>2, OthersElsewhere
<1>4. results' = [results EXCEPT ![cur[w]] = {mine[w]}] /\ status' = [status EXCEPT ![cur[w]] = "done"]
  BY <1>3 DEF CommitReview, RowDone
<1>5. /\ GoIdle(w) /\ current' = computed[w] /\ token' = token /\ computed' = [computed EXCEPT ![w] = NoInputs]
      /\ UNCHANGED <<created, kind, attempts, twin, hpc, changes, promised>>
  BY DEF CommitReview, Forget
<1>6. token' \in [Jobs -> 0 .. MaxAttempts] /\ \A j \in Jobs : j # cur[w] => token'[j] = token[j]
  BY <1>5 DEF ReviewInv, RowTypes
<1>7. {mine[w]} \in SUBSET (0 .. MaxAttempts) /\ AsNew(current', promised) /\ current' \in Inputs
  BY <1>2, <1>3, <1>5
<1>. QED BY <1>1, <1>2, <1>4, <1>5, <1>6, <1>7, EndsKeep

\* There was nothing to review.
LEMMA EmptyStep == ASSUME ReviewInv, NEW w \in Executors, FinishEmpty(w) PROVE ReviewInv'
<1>1. Busy(w) /\ Owns(w)
  BY DEF FinishEmpty, Busy
<1>2. cur[w] \in Jobs /\ results[cur[w]] = {} /\ results \in [Jobs -> SUBSET (0 .. MaxAttempts)]
  BY <1>1, OthersElsewhere DEF ReviewInv, RowTypes
<1>3. results' = [results EXCEPT ![cur[w]] = {}] /\ status' = [status EXCEPT ![cur[w]] = "done"]
  BY <1>2 DEF FinishEmpty
<1>4. /\ GoIdle(w) /\ current' = current /\ token' = token /\ computed' = [computed EXCEPT ![w] = NoInputs]
      /\ UNCHANGED <<created, kind, attempts, twin, hpc, changes, promised>>
  BY DEF FinishEmpty, Forget
<1>5. /\ token' \in [Jobs -> 0 .. MaxAttempts] /\ current' \in Inputs
      /\ \A j \in Jobs : j # cur[w] => token'[j] = token[j]
  BY <1>4 DEF ReviewInv, RowTypes, RTypeOK
<1>6. {} \in SUBSET (0 .. MaxAttempts) /\ "done" \in {"queued", "done", "failed"} /\ ({} # {} => AsNew(current', promised))
  OBVIOUS
<1>. QED BY <1>1, <1>3, <1>4, <1>5, <1>6, EndsKeep

\* A review fails for good or is put back.
LEMMA FailStep == ASSUME ReviewInv, NEW w \in Executors, Fail(w), EndReview(w) PROVE ReviewInv'
<1>1. Busy(w) /\ Owns(w)
  BY DEF Fail, Busy
<1>2. cur[w] \in Jobs /\ results[cur[w]] = {} /\ results \in [Jobs -> SUBSET (0 .. MaxAttempts)] /\ token \in [Jobs -> 0 .. MaxAttempts]
  BY <1>1, OthersElsewhere DEF ReviewInv, RowTypes
<1>3. results' = [results EXCEPT ![cur[w]] = {}]
  BY <1>2 DEF Fail
<1>4. PICK st \in {"queued", "failed"} : status' = [status EXCEPT ![cur[w]] = st]
  BY DEF Fail
<1>5. token' = token \/ token' = [token EXCEPT ![cur[w]] = 0]
  BY DEF Fail
<1>6. token' \in [Jobs -> 0 .. MaxAttempts] /\ \A j \in Jobs : j # cur[w] => token'[j] = token[j]
  <2>1. 0 \in 0 .. MaxAttempts
    BY QueueAssumption
  <2>. QED BY <1>2, <1>5, <2>1
<1>7. /\ GoIdle(w) /\ current' = current /\ computed' = [computed EXCEPT ![w] = NoInputs]
      /\ UNCHANGED <<created, kind, attempts, twin, hpc, changes, promised>>
  BY DEF Fail, EndReview, Forget
<1>8. current' \in Inputs /\ st \in {"queued", "done", "failed"} /\ st # "done"
  BY <1>7 DEF ReviewInv, RowTypes, RTypeOK
<1>9. {} \in SUBSET (0 .. MaxAttempts) /\ ({} # {} => AsNew(current', promised))
  OBVIOUS
<1>. QED BY <1>1, <1>3, <1>4, <1>6, <1>7, <1>8, <1>9, EndsKeep

\* An attempt that writes nothing ends.
LEMMA DropStep == ASSUME ReviewInv, NEW w \in Executors, Drop(w) \/ Crash(w), EndReview(w) PROVE ReviewInv'
<1>. USE DEF ReviewInv
<1>1. GoIdle(w) /\ UNCHANGED <<created, kind, status, attempts, token, results>>
  BY DEF Drop, Crash, rowVars
<1>2. /\ computed' = [computed EXCEPT ![w] = NoInputs]
      /\ UNCHANGED <<stateV, val, flagged, current, hpc, changes, promised>>
  BY DEF EndReview, Forget, twin
<1>3. /\ AttemptsKnown' /\ OwnTokens' /\ Fenced'
      /\ pc' \in [Executors -> PCs \cup {"commit", "history"}]
      /\ cur' \in [Executors -> Jobs \cup {0}] /\ mine' \in [Executors -> 0 .. MaxAttempts]
      /\ \A v \in Executors : pc'[v] = "commit" => v # w /\ pc[v] = "commit"
  <2>. HIDE DEF ReviewInv
  <2>. QED BY <1>1, IdleKeeps
<1>4. computed' \in [Executors -> Inputs] /\ \A v \in Executors : v # w => computed'[v] = computed[v]
  <2>1. NoInputs \in Inputs
    BY DEF NoInputs, Inputs
  <2>2. computed \in [Executors -> Inputs]
    BY DEF RowTypes, RTypeOK
  <2>. QED BY <1>2, <2>1, <2>2
<1>5. RowTypes'
  BY <1>1, <1>2, <1>3, <1>4 DEF RowTypes, RTypeOK
<1>6. Rows'
  BY <1>1 DEF Rows, Live
<1>7. PromiseKept'
  BY <1>1, <1>2, <1>3, <1>4 DEF PromiseKept, LastPublished, Now
<1>. QED BY <1>3, <1>5, <1>6, <1>7

\* The superseded review ends as history and its successor takes its place as the live one.
LEMMA HistoryStep == ASSUME ReviewInv, NEW w \in Executors, KeepAsHistory(w) PROVE ReviewInv'
<1>. USE DEF ReviewInv
<1>. DEFINE j == cur[w]
            n == created + 1
<1>0. w \in Publishing /\ Busy(w) /\ Owns(w)
  BY DEF KeepAsHistory, Publishing, Busy, Fenced
<1>1. /\ j \in Jobs /\ j = created /\ status[j] = "running" /\ results[j] = {} /\ mine[w] \in 0 .. MaxAttempts
      /\ \A v \in Publishing : v # w => cur[v] # j /\ cur[v] \in Jobs
  <2>. HIDE DEF ReviewInv
  <2>. QED BY <1>0, OthersElsewhere
<1>2. created' = n /\ n \in Jobs /\ n \in 0 .. MaxJobs /\ n # j /\ n > created /\ created \in Nat
  BY <1>1, QueueAssumption DEF KeepAsHistory, Jobs, RowTypes, RTypeOK
<1>3. status[n] = "absent" /\ results[n] = {}
  BY <1>2 DEF Rows, Terminal
<1>4. /\ status' = [status EXCEPT ![j] = "done", ![n] = "queued"] /\ kind' = [kind EXCEPT ![n] = "review"]
      /\ results' = [results EXCEPT ![j] = {mine[w]}]
      /\ GoIdle(w) /\ computed' = [computed EXCEPT ![w] = NoInputs]
      /\ UNCHANGED <<attempts, token, twin, current, hpc, changes, promised>>
  BY <1>1 DEF KeepAsHistory, Forget
<1>5. status \in [Jobs -> Statuses] /\ kind \in [Jobs -> Kinds] /\ results \in [Jobs -> SUBSET (0 .. MaxAttempts)]
  BY DEF RowTypes, RTypeOK
<1>. HIDE DEF j, n
<1>6. /\ status' \in [Jobs -> Statuses] /\ kind' \in [Jobs -> Kinds] /\ results' \in [Jobs -> SUBSET (0 .. MaxAttempts)]
  BY <1>1, <1>4, <1>5 DEF Statuses, Kinds
<1>7. /\ status'[j] = "done" /\ status'[n] = "queued" /\ kind'[n] = "review" /\ results'[n] = {}
      /\ \A i \in Jobs : i # j /\ i # n => status'[i] = status[i] /\ results'[i] = results[i] /\ kind'[i] = kind[i]
  BY <1>1, <1>2, <1>3, <1>4, <1>5
<1>8. /\ AttemptsKnown' /\ OwnTokens' /\ Fenced'
      /\ pc' \in [Executors -> PCs \cup {"commit", "history"}]
      /\ cur' \in [Executors -> Jobs \cup {0}] /\ mine' \in [Executors -> 0 .. MaxAttempts]
      /\ \A v \in Executors : pc'[v] = "commit" => v # w /\ pc[v] = "commit"
  <2>1. \A v \in Publishing : status[cur[v]] = "running"
    BY DEF Fenced, Owns
  <2>2. \A v \in Publishing : v # w => token'[cur[v]] = token[cur[v]] /\ status'[cur[v]] = status[cur[v]]
    BY <1>1, <1>3, <1>4, <1>7, <2>1
  <2>. HIDE DEF ReviewInv
  <2>. QED BY <1>4, <2>2, IdleKeeps
<1>9. computed' \in [Executors -> Inputs] /\ \A v \in Executors : v # w => computed'[v] = computed[v]
  <2>1. NoInputs \in Inputs
    BY DEF NoInputs, Inputs
  <2>2. computed \in [Executors -> Inputs]
    BY DEF RowTypes, RTypeOK
  <2>. QED BY <1>4, <2>1, <2>2
<1>10. RowTypes'
  BY <1>2, <1>4, <1>6, <1>8, <1>9 DEF RowTypes, RTypeOK, twin
<1>11. Rows'
  <2>. SUFFICES ASSUME NEW i \in Jobs
                PROVE  /\ status'[i] = "running" => token'[i] = attempts'[i] /\ attempts'[i] > 0
                       /\ status'[i] = "absent" <=> i > created'
                       /\ status'[i] = "absent" => attempts'[i] = 0
                       /\ Live(i)' => i = created' /\ kind'[i] = "review"
                       /\ status'[i] \notin Terminal => results'[i] = {}
    BY DEF Rows
  <2>1. CASE i = j
    BY <1>1, <1>2, <1>7, <2>1 DEF Terminal, Live
  <2>2. CASE i = n
    BY <1>2, <1>7, <2>2
  <2>3. CASE i # j /\ i # n
    <3>1. i > n <=> i > created
      BY <1>2, <2>3 DEF n, Jobs
    <3>2. ~ Live(i) /\ ~ Live(i)'
      BY <1>1, <1>7, <2>3 DEF Rows, Live
    <3>3. status'[i] = status[i] /\ results'[i] = results[i] /\ attempts'[i] = attempts[i]
      BY <1>4, <1>7, <2>3
    <3>. QED BY <1>2, <2>3, <3>1, <3>2, <3>3 DEF Rows, Live
  <2>. QED BY <2>1, <2>2, <2>3
<1>12. PromiseKept'
  <2>1. AsNew(Now, promised)'
    BY <1>4 DEF PromiseKept, twin, Now
  <2>2. ASSUME NEW v \in Executors, pc'[v] = "commit" PROVE AsNew(computed'[v], promised')
    BY <1>4, <1>8, <1>9, <2>2 DEF PromiseKept
  <2>3. ~ LastPublished'
    BY <1>2, <1>7 DEF LastPublished
  <2>. QED BY <2>1, <2>2, <2>3 DEF PromiseKept
<1>. QED BY <1>8, <1>10, <1>11, <1>12

\* The row that is claimed gets a token none of its earlier attempts has.
LEMMA ClaimStep == ASSUME ReviewInv, NEW w \in Executors, Claim(w), ClaimReview(w) PROVE ReviewInv'
<1>. USE DEF ReviewInv
<1>0. PICK j \in Jobs :
        /\ Oldest(Claimable(w), j) /\ ~ Exhausted(j)
        /\ status' = [status EXCEPT ![j] = "running"] /\ attempts' = [attempts EXCEPT ![j] = @ + 1]
        /\ token' = [token EXCEPT ![j] = FreshToken(j)]
        /\ cur' = [cur EXCEPT ![w] = j] /\ mine' = [mine EXCEPT ![w] = FreshToken(j)]
  BY DEF Claim
<1>. DEFINE n == attempts[j] + 1
<1>1. /\ pc[w] = "idle" /\ pc' = [pc EXCEPT ![w] = "work"]
      /\ UNCHANGED <<created, kind, results, stateV, val, flagged, current, computed, hpc, changes, promised>>
  BY DEF Claim, ClaimReview, twin
<1>2. /\ status \in [Jobs -> Statuses] /\ attempts \in [Jobs -> 0 .. MaxAttempts] /\ token \in [Jobs -> 0 .. MaxAttempts]
      /\ cur \in [Executors -> Jobs \cup {0}] /\ mine \in [Executors -> 0 .. MaxAttempts]
      /\ pc \in [Executors -> PCs \cup {"commit", "history"}]
  BY DEF RowTypes, RTypeOK
<1>3. Live(j) /\ status[j] # "absent" /\ results[j] = {} /\ j = created /\ kind[j] = "review"
  BY <1>0 DEF Oldest, Claimable, Live, Rows, Terminal
<1>4. n \in 0 .. MaxAttempts /\ n > attempts[j] /\ n > 0 /\ FreshToken(j) = n
  BY <1>0, <1>2, QueueAssumption DEF Exhausted, FreshToken
<1>5. /\ status'[j] = "running" /\ attempts'[j] = n /\ token'[j] = n
      /\ \A i \in Jobs : i # j => status'[i] = status[i] /\ attempts'[i] = attempts[i] /\ token'[i] = token[i]
      /\ pc'[w] = "work" /\ cur'[w] = j /\ mine'[w] = n
      /\ \A v \in Executors : v # w => pc'[v] = pc[v] /\ cur'[v] = cur[v] /\ mine'[v] = mine[v]
  BY <1>0, <1>1, <1>2, <1>4
<1>6. /\ status' \in [Jobs -> Statuses] /\ attempts' \in [Jobs -> 0 .. MaxAttempts] /\ token' \in [Jobs -> 0 .. MaxAttempts]
      /\ cur' \in [Executors -> Jobs \cup {0}] /\ mine' \in [Executors -> 0 .. MaxAttempts]
      /\ pc' \in [Executors -> PCs \cup {"commit", "history"}]
  BY <1>0, <1>1, <1>2, <1>4 DEF Statuses, PCs
<1>. HIDE DEF n
<1>7. RowTypes'
  BY <1>1, <1>6 DEF RowTypes, RTypeOK
<1>8. Rows'
  <2>. SUFFICES ASSUME NEW i \in Jobs
                PROVE  /\ status'[i] = "running" => token'[i] = attempts'[i] /\ attempts'[i] > 0
                       /\ status'[i] = "absent" <=> i > created'
                       /\ status'[i] = "absent" => attempts'[i] = 0
                       /\ Live(i)' => i = created' /\ kind'[i] = "review"
                       /\ status'[i] \notin Terminal => results'[i] = {}
    BY DEF Rows
  <2>1. CASE i = j
    BY <1>1, <1>3, <1>4, <1>5, <2>1 DEF Rows
  <2>2. CASE i # j
    BY <1>1, <1>5, <2>2 DEF Rows, Live
  <2>. QED BY <2>1, <2>2
<1>9. AttemptsKnown'
  <2>. SUFFICES ASSUME NEW v \in Executors, pc'[v] # "idle"
                PROVE  cur'[v] \in Jobs /\ 0 < mine'[v] /\ mine'[v] <= attempts'[cur'[v]]
    BY DEF AttemptsKnown, Busy
  <2>1. CASE v = w
    BY <1>4, <1>5, <2>1
  <2>2. CASE v # w
    <3>1. cur[v] \in Jobs /\ 0 < mine[v] /\ mine[v] <= attempts[cur[v]]
      BY <1>5, <2>2 DEF AttemptsKnown, Busy
    <3>2. attempts[cur[v]] <= attempts'[cur[v]] /\ attempts[cur[v]] \in Int /\ attempts'[cur[v]] \in Int /\ mine[v] \in Int
      <4>1. \A i \in Jobs : attempts[i] \in Int /\ attempts'[i] \in Int
        BY <1>2, <1>6
      <4>2. mine[v] \in Int
        BY <1>2
      <4>. QED BY <1>4, <1>5, <3>1, <4>1, <4>2
    <3>. QED BY <1>5, <2>2, <3>1, <3>2
  <2>. QED BY <2>1, <2>2
<1>10. OwnTokens'
  <2>1. ASSUME NEW v \in Executors, v # w, Busy(v), cur[v] = j PROVE mine[v] # n
    <3>1. mine[v] <= attempts[j] /\ mine[v] \in Int /\ attempts[j] \in Int
      BY <1>2, <2>1 DEF AttemptsKnown
    <3>. QED BY <1>4, <3>1
  <2>. QED BY <1>5, <2>1 DEF OwnTokens, Busy
<1>11. Fenced'
  <2>1. \A v \in Publishing' : v \in Publishing /\ v # w
    BY <1>5 DEF Publishing
  <2>2. \A v \in Publishing : Columns(cur[v])' = Columns(cur[v])
    BY DEF ClaimReview
  <2>3. \A v \in Publishing : v # w => status'[cur[v]] = status[cur[v]] /\ token'[cur[v]] = token[cur[v]]
    BY <1>5, <2>2 DEF Columns, Publishing
  <2>. QED BY <1>5, <2>1, <2>3 DEF Fenced, Owns, Publishing
<1>12. PromiseKept'
  <2>1. \A v \in Executors : pc'[v] = "commit" => pc[v] = "commit"
    BY <1>5
  <2>2. LastPublished' => LastPublished
    BY <1>1, <1>3, <1>5 DEF LastPublished
  <2>. QED BY <1>1, <2>1, <2>2 DEF PromiseKept, Now
<1>. QED BY <1>7, <1>8, <1>9, <1>10, <1>11, <1>12

\* A row abandoned for good.
LEMMA AbandonStep == ASSUME ReviewInv, NEW w \in Executors, Abandon(w), ClaimReview(w) PROVE ReviewInv'
<1>. USE DEF ReviewInv
<1>0. PICK j \in Jobs : Oldest(Claimable(w), j) /\ status' = [status EXCEPT ![j] = "failed"]
  BY DEF Abandon
<1>1. /\ UNCHANGED <<created, kind, attempts, token, results, pc, cur, mine>>
      /\ UNCHANGED <<stateV, val, flagged, current, computed, hpc, changes, promised>>
  BY DEF Abandon, ClaimReview, twin, execVars
<1>2. status \in [Jobs -> Statuses]
  BY DEF RowTypes, RTypeOK
<1>3. Live(j) /\ status[j] # "absent" /\ j = created
  BY <1>0 DEF Oldest, Claimable, Live, Rows
<1>4. status'[j] = "failed" /\ status' \in [Jobs -> Statuses] /\ \A i \in Jobs : i # j => status'[i] = status[i]
  BY <1>0, <1>2 DEF Statuses
<1>5. RowTypes'
  BY <1>1, <1>4 DEF RowTypes, RTypeOK
<1>6. Rows'
  <2>. SUFFICES ASSUME NEW i \in Jobs
                PROVE  /\ status'[i] = "running" => token'[i] = attempts'[i] /\ attempts'[i] > 0
                       /\ status'[i] = "absent" <=> i > created'
                       /\ status'[i] = "absent" => attempts'[i] = 0
                       /\ Live(i)' => i = created' /\ kind'[i] = "review"
                       /\ status'[i] \notin Terminal => results'[i] = {}
    BY DEF Rows
  <2>1. CASE i = j
    BY <1>1, <1>3, <1>4, <2>1 DEF Rows, Terminal, Live
  <2>2. CASE i # j
    BY <1>1, <1>4, <2>2 DEF Rows, Live
  <2>. QED BY <2>1, <2>2
<1>7. AttemptsKnown' /\ OwnTokens'
  BY <1>1 DEF AttemptsKnown, OwnTokens, Busy
<1>8. Fenced'
  <2>1. \A v \in Publishing : Columns(cur[v])' = Columns(cur[v])
    BY DEF ClaimReview
  <2>2. \A v \in Publishing : status'[cur[v]] = status[cur[v]]
    BY <1>1, <2>1 DEF Columns
  <2>. QED BY <1>1, <2>2 DEF Fenced, Owns, Publishing
<1>9. PromiseKept'
  <2>1. LastPublished' => LastPublished
    BY <1>1, <1>3, <1>4 DEF LastPublished
  <2>. QED BY <1>1, <2>1 DEF PromiseKept, Now
<1>. QED BY <1>5, <1>6, <1>7, <1>8, <1>9

\* The inputs are read; the attempt has still to be checked.
LEMMA ComputeStep == ASSUME ReviewInv, NEW w \in Executors, ComputeReview(w) PROVE ReviewInv'
<1>. USE DEF ReviewInv
<1>0. PICK at \in {"publish", "fail"} : pc' = [pc EXCEPT ![w] = at]
  BY DEF ComputeReview
<1>1. /\ UNCHANGED <<created, kind, status, attempts, token, results, cur, mine>>
      /\ UNCHANGED <<stateV, val, flagged, current, hpc, changes, promised>>
      /\ computed' = [computed EXCEPT ![w] = Now] /\ pc[w] = "work"
  BY DEF ComputeReview, rowVars, twin
<1>2. /\ pc \in [Executors -> PCs \cup {"commit", "history"}] /\ computed \in [Executors -> Inputs] /\ Now \in Inputs
  BY InputNumbers DEF RowTypes, RTypeOK
<1>3. /\ pc' \in [Executors -> PCs \cup {"commit", "history"}] /\ computed' \in [Executors -> Inputs]
      /\ pc'[w] = at /\ \A v \in Executors : v # w => pc'[v] = pc[v] /\ computed'[v] = computed[v]
  BY <1>0, <1>1, <1>2 DEF PCs
<1>4. RowTypes'
  BY <1>1, <1>3 DEF RowTypes, RTypeOK
<1>5. Rows'
  BY <1>1 DEF Rows, Live
<1>6. AttemptsKnown' /\ OwnTokens'
  <2>1. \A v \in Executors : Busy(v)' => Busy(v)
    BY <1>1, <1>3 DEF Busy
  <2>. QED BY <1>1, <2>1 DEF AttemptsKnown, OwnTokens
<1>7. Publishing' = Publishing
  BY <1>1, <1>3 DEF Publishing
<1>8. Fenced'
  BY <1>1, <1>7 DEF Fenced, Owns
<1>9. PromiseKept'
  BY <1>1, <1>3 DEF PromiseKept, Now, LastPublished
<1>. QED BY <1>4, <1>5, <1>6, <1>8, <1>9

\* Under the lock, with the fence checked: what was read is still the newest there is, or it will be history.
LEMMA CheckStep == ASSUME ReviewInv, NEW w \in Executors, CheckReview(w) PROVE ReviewInv'
<1>. USE DEF ReviewInv
<1>. DEFINE at == IF Superseded(w) THEN "history" ELSE "commit"
<1>1. /\ UNCHANGED <<created, kind, status, attempts, token, results, cur, mine>>
      /\ UNCHANGED <<stateV, val, flagged, current, computed, hpc, changes, promised>>
      /\ pc[w] = "publish" /\ Publishing = {} /\ Owns(w) /\ pc' = [pc EXCEPT ![w] = at]
  BY DEF CheckReview, rowVars, twin, LockFree
<1>2. /\ pc \in [Executors -> PCs \cup {"commit", "history"}] /\ at \in {"commit", "history"}
  BY DEF RowTypes, RTypeOK
<1>3. at = "commit" => computed[w].s = stateV /\ computed[w].v = val
  BY DEF Superseded
<1>. HIDE DEF at
<1>4. /\ pc' \in [Executors -> PCs \cup {"commit", "history"}]
      /\ pc'[w] = at /\ \A v \in Executors : v # w => pc'[v] = pc[v]
  BY <1>1, <1>2
<1>5. RowTypes'
  BY <1>1, <1>4 DEF RowTypes, RTypeOK
<1>6. Rows'
  BY <1>1 DEF Rows, Live
<1>7. AttemptsKnown' /\ OwnTokens'
  <2>1. \A v \in Executors : Busy(v)' => Busy(v)
    BY <1>1, <1>4 DEF Busy
  <2>. QED BY <1>1, <2>1 DEF AttemptsKnown, OwnTokens
<1>8. Publishing' = {w}
  BY <1>1, <1>2, <1>4 DEF Publishing
<1>9. Fenced'
  BY <1>1, <1>8 DEF Fenced, Owns
<1>10. PromiseKept'
  <2>1. ASSUME NEW v \in Executors, pc'[v] = "commit" PROVE AsNew(computed[v], promised)
    <3>1. v = w
      BY <1>8, <2>1 DEF Publishing
    <3>2. AsNew(Now, promised)
      BY DEF PromiseKept
    <3>. QED BY <1>3, <1>4, <2>1, <3>1, <3>2 DEF AsNew, Now
  <2>. QED BY <1>1, <2>1 DEF PromiseKept, Now, LastPublished
<1>. QED BY <1>5, <1>6, <1>7, <1>9, <1>10

\* A handler dies before its call, time passes, or nothing happens.
LEMMA StillStep ==
  ASSUME ReviewInv, UNCHANGED <<created, kind, status, attempts, token, results, pc, cur, mine>>,
         UNCHANGED <<stateV, val, flagged, current, computed, changes, promised>>,
         hpc' \in [Handlers -> {"idle", "enqueue"}]
  PROVE  ReviewInv'
<1>1. RowTypes'
  BY DEF ReviewInv, RowTypes, RTypeOK
<1>2. PromiseKept'
  BY DEF ReviewInv, PromiseKept, Now, LastPublished
<1>. QED BY <1>1, <1>2, RowsStay DEF ReviewInv

\* Every step keeps the invariant.
LEMMA ReviewKeeps == ReviewInv /\ [RNext]_reviewVars => ReviewInv'
<1>. SUFFICES ASSUME ReviewInv, [RNext]_reviewVars PROVE ReviewInv'
  OBVIOUS
<1>1. hpc \in [Handlers -> {"idle", "enqueue"}]
  BY DEF ReviewInv, RowTypes, RTypeOK
<1>2. ASSUME NEW h \in Handlers, HandlerCrash(h) PROVE ReviewInv'
  <2>1. hpc' \in [Handlers -> {"idle", "enqueue"}]
    BY <1>1, <1>2 DEF HandlerCrash
  <2>. QED BY <1>2, <2>1, StillStep DEF HandlerCrash, vars, rowVars, execVars, twin
<1>3. CASE RTick
  BY <1>1, <1>3, StillStep DEF RTick, Tick, execVars, twin
<1>4. CASE UNCHANGED reviewVars
  BY <1>1, <1>4, StillStep DEF reviewVars, vars, rowVars, execVars, twin
<1>5. ASSUME NEW w \in Executors, ReviewStep(w) PROVE ReviewInv'
  <2>1. CASE ClaimReview(w)
    BY <2>1, ClaimStep, AbandonStep DEF ClaimReview
  <2>2. CASE EndReview(w)
    BY <2>2, FailStep, DropStep DEF EndReview
  <2>. QED BY <1>5, <2>1, <2>2, ComputeStep, CheckStep, CommitStep, HistoryStep, EmptyStep DEF ReviewStep
<1>. QED BY <1>2, <1>3, <1>4, <1>5, ChangeStep, EnqueueStep DEF RNext

\* The inductive invariant holds of every behaviour: at most one review is live, it is the newest row, and whoever
\* is about to publish owns it and has read what was promised.
THEOREM ReviewInvariance == RSpec => []ReviewInv
<1>1. RInit => ReviewInv
  BY ReviewStart
<1>. QED BY <1>1, ReviewKeeps, PTL DEF RSpec

\* Coalescing loses no request and doubles no review: a user never has two live reviews, and once none is live and
\* the newest one has published, the current decision is as new as the inputs of the last request.
THEOREM CoalescingIsSound == RSpec => []CoalescingSound
<1>1. ReviewInv => CoalescingSound
  <2>. SUFFICES ASSUME ReviewInv PROVE CoalescingSound
    OBVIOUS
  <2>1. RTypeOK
    BY DEF ReviewInv, RowTypes
  <2>2. OneLiveReview
    BY DEF ReviewInv, Rows, OneLiveReview, LiveReviews
  <2>3. RequestHonoured
    BY DEF ReviewInv, PromiseKept, RequestHonoured, AsNew
  <2>. QED BY <2>1, <2>2, <2>3 DEF CoalescingSound
<1>. QED BY <1>1, ReviewInvariance, PTL
=============================================================================
