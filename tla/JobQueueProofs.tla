--------------------------- MODULE JobQueueProofs ---------------------------
(***************************************************************************)
(* The fencing of the portfolio job queue, proved for any number of rows,  *)
(* executors, attempts, and any lease and backoff.                         *)
(*                                                                         *)
(* The invariants of the runs are not inductive: that a matching token     *)
(* means ownership rests on tokens growing with the attempts (Tokens), on  *)
(* every attempt's token being at most the newest one and its own          *)
(* (Attempt), on what an executor can have found for its kind (Errands),   *)
(* and on a row having no result before its end (Results).                 *)
(***************************************************************************)
EXTENDS JobQueue, TLAPS

Busy(w) == pc[w] # "idle"

\* The token of a running row is that of its newest attempt; rows not inserted yet are blank.
Tokens ==
  /\ \A j \in Jobs : status[j] = "running" => token[j] = attempts[j] /\ attempts[j] > 0
  /\ \A j \in Jobs : j > created <=> status[j] = "absent"
  /\ \A j \in Jobs : status[j] = "absent" => attempts[j] = 0
  /\ \A j \in Jobs : status[j] \in Terminal => attempts[j] > 0

\* A busy executor works on an inserted row with a token no newer than the row's newest attempt.
Attempt ==
  \A w \in Executors : Busy(w) =>
    /\ cur[w] \in Jobs
    /\ mine[w] > 0
    /\ mine[w] <= attempts[cur[w]]

\* No two busy executors hold the same token of the same row.
OwnTokens ==
  \A v, w \in Executors : Busy(v) /\ Busy(w) /\ cur[v] = cur[w] /\ mine[v] = mine[w] => v = w

\* What an executor is about to write fits the kind of its job.
Errands ==
  \A w \in Executors :
    /\ pc[w] = "publish" => /\ found[w] \in {"complete", "partial", "empty"}
                            /\ found[w] = "empty" => kind[cur[w]] = "review"
    /\ pc[w] = "note" => kind[cur[w]] = "refresh"
    /\ pc[w] = "fail" => /\ found[w] \in Codes \ {"PARTIAL_DATA"}
                         /\ found[w] \in RETRYABLE => kind[cur[w]] # "review"

\* A result is committed only with the end of the row, by its newest attempt.
Results ==
  \A j \in Jobs :
    /\ status[j] \notin Terminal => results[j] = {}
    /\ status[j] = "done" => results[j] = {attempts[j]} \/ (results[j] = {} /\ kind[j] = "review")
    /\ status[j] = "failed" => results[j] = (IF error[j] = "PARTIAL_DATA" THEN {attempts[j]} ELSE {})
    /\ error[j] = "PARTIAL_DATA" => status[j] = "failed"

IInv == TypeOK /\ Tokens /\ Attempt /\ OwnTokens /\ Errands /\ Results /\ TransientRetried

\* The initial table and the idle executors satisfy the invariant.
LEMMA InitIInv == Init => IInv
  BY QueueAssumption, SMTT(30) DEF Init, IInv, TypeOK, Tokens, Attempt, OwnTokens, Errands, Results, TransientRetried,
     Busy, Kinds, Statuses, PCs, Codes, RETRYABLE, Findings, Terminal, Jobs

\* What an attempt that passes the fence knows: its row is real, it is the newest attempt, and the
\* row has no result yet.
LEMMA OwnerFacts ==
  ASSUME IInv, NEW w \in Executors, Busy(w), Owns(w)
  PROVE  /\ cur[w] \in Jobs
         /\ mine[w] = attempts[cur[w]]
         /\ mine[w] \in 1 .. MaxAttempts
         /\ results[cur[w]] = {}
         /\ status[cur[w]] = "running"
         /\ ~(cur[w] > created)
<1>1. cur[w] \in Jobs /\ mine[w] > 0
  BY DEF IInv, Attempt
<1>2. status[cur[w]] = "running" /\ token[cur[w]] = mine[w]
  BY DEF Owns
<1>3. mine[w] = attempts[cur[w]]
  BY <1>1, <1>2 DEF IInv, Tokens
<1>4. attempts[cur[w]] \in 0 .. MaxAttempts /\ created \in 0 .. MaxJobs
  BY <1>1 DEF IInv, TypeOK
<1>5. mine[w] \in 1 .. MaxAttempts
  BY <1>1, <1>3, <1>4, QueueAssumption
<1>6. results[cur[w]] = {}
  BY <1>1, <1>2 DEF IInv, Results, Terminal
<1>7. ~(cur[w] > created)
  BY <1>1, <1>2 DEF IInv, Tokens
<1> QED BY <1>1, <1>2, <1>3, <1>5, <1>6, <1>7

LEMMA EnqueueIInv == ASSUME IInv, NEW k \in Kinds, Enqueue(k) PROVE IInv'
<1> DEFINE n == created + 1
<1>1. /\ n \in Jobs
      /\ created' = n
      /\ status' = [status EXCEPT ![n] = "queued"]
      /\ kind' = [kind EXCEPT ![n] = k]
      /\ UNCHANGED <<attempts, token, lease, backoff, error, results, execVars>>
  BY QueueAssumption DEF Enqueue, IInv, TypeOK, Jobs
<1>2. UNCHANGED <<pc, cur, mine, found>>
  BY <1>1 DEF execVars
<1>3. status[n] = "absent" /\ attempts[n] = 0 /\ n > created
  BY <1>1 DEF IInv, Tokens, TypeOK
<1>4. \A j \in Jobs : j # n => (j > n <=> j > created)
  BY QueueAssumption DEF IInv, TypeOK, Jobs
<1>5. \A w \in Executors : Busy(w) => cur[w] # n
  <2>1. \A w \in Executors : Busy(w) => mine[w] > 0 /\ mine[w] <= attempts[cur[w]] /\ mine[w] \in Nat
    BY QueueAssumption DEF IInv, Attempt, TypeOK
  <2> QED BY <2>1, <1>3
<1>6. \A j \in Jobs : j # n => status'[j] = status[j] /\ kind'[j] = kind[j]
  BY <1>1 DEF IInv, TypeOK
<1>7. status'[n] = "queued"
  BY <1>1 DEF IInv, TypeOK
<1> HIDE DEF n
<1>8. TypeOK'
  <2>1. created' \in 0 .. MaxJobs
    BY <1>1, QueueAssumption DEF Jobs
  <2>2. status' \in [Jobs -> Statuses] /\ kind' \in [Jobs -> Kinds]
    BY <1>1 DEF IInv, TypeOK, Statuses
  <2> QED BY <1>1, <1>2, <2>1, <2>2 DEF IInv, TypeOK
<1>9. Tokens'
  <2>1. \A j \in Jobs : j > created' <=> status'[j] = "absent"
    <3> TAKE j \in Jobs
    <3>1. CASE j = n
      <4>1. ~(j > n)
        BY <3>1, <1>1 DEF Jobs
      <4> QED BY <4>1, <3>1, <1>1, <1>7
    <3>2. CASE j # n
      BY <3>2, <1>1, <1>4, <1>6 DEF IInv, Tokens
    <3> QED BY <3>1, <3>2
  <2> QED BY <2>1, <1>1, <1>6, <1>7 DEF IInv, Tokens, Terminal
<1>10. Attempt' /\ OwnTokens'
  BY <1>1, <1>2 DEF IInv, Attempt, OwnTokens, Busy
<1>11. Errands'
  <2>1. \A w \in Executors : Busy(w) => kind'[cur[w]] = kind[cur[w]]
    BY <1>5, <1>6 DEF IInv, Attempt
  <2> QED BY <1>2, <2>1 DEF IInv, Errands, Busy
<1>12. Results'
  BY <1>1, <1>3, <1>6, <1>7 DEF IInv, Results, Terminal
<1>13. TransientRetried'
  BY <1>1, <1>6, <1>7 DEF IInv, TransientRetried
<1> QED BY <1>8, <1>9, <1>10, <1>11, <1>12, <1>13 DEF IInv

LEMMA ClaimIInv == ASSUME IInv, NEW w \in Executors, Claim(w) PROVE IInv'
<1>1. PICK j \in Jobs :
        /\ j \in Claimable(w)
        /\ ~Exhausted(j)
        /\ status' = [status EXCEPT ![j] = "running"]
        /\ attempts' = [attempts EXCEPT ![j] = attempts[j] + 1]
        /\ token' = [token EXCEPT ![j] = attempts[j] + 1]
        /\ lease' = [lease EXCEPT ![j] = LeaseTicks]
        /\ cur' = [cur EXCEPT ![w] = j]
        /\ mine' = [mine EXCEPT ![w] = attempts[j] + 1]
  BY DEF Claim, Oldest, FreshToken
<1>2. /\ ~Busy(w)
      /\ pc' = [pc EXCEPT ![w] = "work"]
      /\ UNCHANGED <<created, kind, backoff, error, results, found>>
  BY DEF Claim, Busy
<1>3. status[j] \in {"queued", "running"}
  BY <1>1 DEF Claimable
<1>4. attempts[j] \in 0 .. MaxAttempts /\ attempts[j] + 1 \in 1 .. MaxAttempts
  BY <1>1, QueueAssumption DEF IInv, TypeOK, Exhausted
<1>5. TypeOK'
  <2>1. status' \in [Jobs -> Statuses]
    BY <1>1 DEF IInv, TypeOK, Statuses
  <2>2. attempts[j] + 1 \in 0 .. MaxAttempts /\ LeaseTicks \in 0 .. LeaseTicks
    BY <1>4, QueueAssumption
  <2>3. attempts' \in [Jobs -> 0 .. MaxAttempts] /\ token' \in [Jobs -> 0 .. MaxAttempts] /\ lease' \in [Jobs -> 0 .. LeaseTicks]
    BY <1>1, <2>2 DEF IInv, TypeOK
  <2>4. cur' \in [Executors -> Jobs \cup {0}] /\ mine' \in [Executors -> 0 .. MaxAttempts]
    BY <1>1, <2>2 DEF IInv, TypeOK
  <2>5. pc' \in [Executors -> PCs]
    BY <1>2 DEF IInv, TypeOK, PCs
  <2> QED BY <1>2, <2>1, <2>3, <2>4, <2>5 DEF IInv, TypeOK
<1>6. \A i \in Jobs : i # j => status'[i] = status[i] /\ attempts'[i] = attempts[i] /\ token'[i] = token[i]
  BY <1>1 DEF IInv, TypeOK
<1>7. status'[j] = "running" /\ attempts'[j] = attempts[j] + 1 /\ token'[j] = attempts[j] + 1
  BY <1>1 DEF IInv, TypeOK
<1>8. Tokens'
  <2>1. ~(j > created)
    BY <1>3 DEF IInv, Tokens
  <2>2. attempts'[j] > 0
    BY <1>4, <1>7
  <2> QED BY <1>2, <1>6, <1>7, <2>1, <2>2 DEF IInv, Tokens, Terminal
<1>9. \A v \in Executors : IF v = w THEN cur'[v] = j /\ mine'[v] = attempts[j] + 1 /\ pc'[v] = "work"
                                     ELSE cur'[v] = cur[v] /\ mine'[v] = mine[v] /\ pc'[v] = pc[v]
  BY <1>1, <1>2 DEF IInv, TypeOK
<1>10. \A v \in Executors : v # w /\ Busy(v) /\ cur[v] = j => mine[v] <= attempts[j]
  BY DEF IInv, Attempt
<1>11. Attempt'
  <2> SUFFICES ASSUME NEW v \in Executors, Busy(v)'
               PROVE  cur'[v] \in Jobs /\ mine'[v] > 0 /\ mine'[v] <= attempts'[cur'[v]]
    BY DEF Attempt
  <2>1. CASE v = w
    BY <2>1, <1>4, <1>7, <1>9
  <2>2. CASE v # w /\ cur[v] = j
    <3>1. Busy(v) /\ mine[v] <= attempts[j] /\ mine[v] > 0 /\ mine[v] \in 0 .. MaxAttempts
      BY <2>2, <1>9, <1>10 DEF IInv, Attempt, Busy, TypeOK
    <3> QED BY <3>1, <2>2, <1>4, <1>7, <1>9
  <2>3. CASE v # w /\ cur[v] # j
    BY <2>3, <1>6, <1>9 DEF IInv, Attempt, Busy
  <2> QED BY <2>1, <2>2, <2>3
<1>12. OwnTokens'
  <2>1. \A v \in Executors : v # w /\ Busy(v) /\ cur[v] = j => mine[v] # attempts[j] + 1
    BY <1>4, <1>10 DEF IInv, TypeOK
  <2> QED BY <2>1, <1>9 DEF IInv, OwnTokens, Busy
<1>13. Errands'
  BY <1>2, <1>9 DEF IInv, Errands
<1>14. Results'
  BY <1>2, <1>3, <1>6, <1>7 DEF IInv, Results, Terminal
<1>15. TransientRetried'
  BY <1>2, <1>6, <1>7 DEF IInv, TransientRetried
<1> QED BY <1>5, <1>8, <1>11, <1>12, <1>13, <1>14, <1>15 DEF IInv

LEMMA AbandonIInv == ASSUME IInv, NEW w \in Executors, Abandon(w) PROVE IInv'
<1>1. PICK j \in Jobs :
        /\ j \in Claimable(w)
        /\ Exhausted(j)
        /\ status' = [status EXCEPT ![j] = "failed"]
        /\ error' = [error EXCEPT ![j] = "INTERNAL"]
  BY DEF Abandon, Oldest
<1>2. UNCHANGED <<created, kind, attempts, token, lease, backoff, results, pc, cur, mine, found>>
  BY DEF Abandon, execVars
<1>3. status[j] \in {"queued", "running"} /\ attempts[j] > 0
  BY <1>1, QueueAssumption DEF Claimable, Exhausted, IInv, TypeOK
<1>4. \A i \in Jobs : IF i = j THEN status'[i] = "failed" /\ error'[i] = "INTERNAL"
                                ELSE status'[i] = status[i] /\ error'[i] = error[i]
  BY <1>1 DEF IInv, TypeOK
<1>5. TypeOK'
  <2>1. status' \in [Jobs -> Statuses] /\ error' \in [Jobs -> Codes \cup {"none"}]
    BY <1>1 DEF IInv, TypeOK, Statuses, Codes
  <2> QED BY <1>2, <2>1 DEF IInv, TypeOK
<1>6. Tokens'
  <2>1. ~(j > created)
    BY <1>3 DEF IInv, Tokens
  <2> QED BY <1>2, <1>3, <1>4, <2>1 DEF IInv, Tokens, Terminal
<1>7. Attempt' /\ OwnTokens' /\ Errands'
  BY <1>2 DEF IInv, Attempt, OwnTokens, Errands, Busy
<1>8. Results'
  BY <1>2, <1>3, <1>4 DEF IInv, Results, Terminal
<1>9. TransientRetried'
  BY <1>2, <1>4 DEF IInv, TransientRetried, RETRYABLE
<1> QED BY <1>5, <1>6, <1>7, <1>8, <1>9 DEF IInv

\* Steps that leave the table alone keep the row part of the invariant.
LEMMA RowsKept == ASSUME IInv, UNCHANGED rowVars PROVE Tokens' /\ Results' /\ TransientRetried'
  BY DEF rowVars, IInv, Tokens, Results, TransientRetried

LEMMA WorkIInv == ASSUME IInv, NEW w \in Executors, Work(w) PROVE IInv'
<1>1. PICK f \in FindingsOf(kind[cur[w]]) :
        /\ found' = [found EXCEPT ![w] = f]
        /\ pc' = [pc EXCEPT ![w] = CASE f \in {"complete", "partial", "empty"} -> "publish"
                                     [] f = "incomplete" -> "note"
                                     [] OTHER -> "fail"]
  BY DEF Work
<1>2. UNCHANGED rowVars /\ UNCHANGED <<cur, mine>> /\ Busy(w)
  BY DEF Work, Busy
<1>3. cur[w] \in Jobs /\ kind[cur[w]] \in Kinds
  BY <1>2 DEF IInv, Attempt, TypeOK
<1>4. /\ f \in Findings
      /\ f = "incomplete" => kind[cur[w]] = "refresh"
      /\ f = "empty" => kind[cur[w]] = "review"
      /\ f \in {"complete", "partial", "empty", "incomplete"} \/ f \in Codes \ {"PARTIAL_DATA"}
      /\ f \in RETRYABLE => kind[cur[w]] # "review"
  BY <1>1, <1>3 DEF FindingsOf, Findings, Codes, RETRYABLE, Kinds
<1>5. \A v \in Executors : IF v = w THEN /\ found'[v] = f
                                         /\ pc'[v] = (IF f \in {"complete", "partial", "empty"} THEN "publish" ELSE IF f = "incomplete" THEN "note" ELSE "fail")
                                    ELSE found'[v] = found[v] /\ pc'[v] = pc[v]
  BY <1>1 DEF IInv, TypeOK
<1>6. TypeOK'
  BY <1>1, <1>2, <1>4 DEF IInv, TypeOK, rowVars, PCs
<1>7. Attempt' /\ OwnTokens'
  <2>1. \A v \in Executors : Busy(v)' => Busy(v)
    BY <1>2, <1>5 DEF Busy
  <2> QED BY <2>1, <1>2 DEF IInv, Attempt, OwnTokens, rowVars
<1>8. Errands'
  BY <1>2, <1>4, <1>5 DEF IInv, Errands, rowVars
<1> QED BY <1>2, <1>6, <1>7, <1>8, RowsKept DEF IInv

LEMMA NoteIInv == ASSUME IInv, NEW w \in Executors, Note(w) PROVE IInv'
<1>1. /\ pc[w] = "note"
      /\ pc' = [pc EXCEPT ![w] = "fail"]
      /\ found' = [found EXCEPT ![w] = "UNAVAILABLE"]
      /\ UNCHANGED rowVars
      /\ UNCHANGED <<cur, mine>>
  BY DEF Note
<1>2. TypeOK'
  BY <1>1 DEF IInv, TypeOK, rowVars, PCs, Findings, Codes, RETRYABLE
<1>3. \A v \in Executors : IF v = w THEN found'[v] = "UNAVAILABLE" /\ pc'[v] = "fail"
                                    ELSE found'[v] = found[v] /\ pc'[v] = pc[v]
  BY <1>1 DEF IInv, TypeOK
<1>4. Attempt' /\ OwnTokens'
  <2>1. \A v \in Executors : Busy(v)' => Busy(v)
    BY <1>1, <1>3 DEF Busy
  <2> QED BY <2>1, <1>1 DEF IInv, Attempt, OwnTokens, rowVars
<1>5. Errands'
  BY <1>1, <1>3 DEF IInv, Errands, rowVars, Codes, RETRYABLE
<1> QED BY <1>1, <1>2, <1>4, <1>5, RowsKept DEF IInv

\* An attempt that is dropped or dies leaves the table alone and frees its executor.
LEMMA LeaveIInv == ASSUME IInv, NEW w \in Executors, GoIdle(w), UNCHANGED rowVars PROVE IInv'
<1>1. TypeOK'
  <2>1. 0 \in 0 .. MaxAttempts
    BY QueueAssumption
  <2> QED BY <2>1 DEF IInv, TypeOK, GoIdle, rowVars, PCs, Findings
<1>2. Attempt' /\ OwnTokens' /\ Errands'
  BY DEF IInv, TypeOK, Attempt, OwnTokens, Errands, Busy, GoIdle, rowVars
<1> QED BY <1>1, <1>2, RowsKept DEF IInv

LEMMA TickIInv == ASSUME IInv, Tick PROVE IInv'
<1>1. UNCHANGED <<created, kind, status, attempts, token, error, results, pc, cur, mine, found>>
  BY DEF Tick, execVars
<1>2. lease' \in [Jobs -> 0 .. LeaseTicks] /\ backoff' \in [Jobs -> Nat]
  <2>1. \A n \in 0 .. LeaseTicks : (IF n > 0 THEN n - 1 ELSE 0) \in 0 .. LeaseTicks
    BY QueueAssumption
  <2>2. \A n \in Nat : (IF n > 0 THEN n - 1 ELSE 0) \in Nat
    OBVIOUS
  <2>3. lease' \in [Jobs -> 0 .. LeaseTicks]
    BY <2>1 DEF Tick, Down, IInv, TypeOK
  <2>4. backoff' \in [Jobs -> Nat]
    BY <2>2 DEF Tick, Down, IInv, TypeOK
  <2> QED BY <2>3, <2>4
<1>3. TypeOK'
  BY <1>1, <1>2 DEF IInv, TypeOK
<1>4. Attempt' /\ OwnTokens' /\ Errands'
  BY <1>1 DEF IInv, Attempt, OwnTokens, Errands, Busy
<1>5. Tokens' /\ Results' /\ TransientRetried'
  BY <1>1 DEF IInv, Tokens, Results, TransientRetried
<1> QED BY <1>3, <1>4, <1>5 DEF IInv

LEMMA PublishIInv == ASSUME IInv, NEW w \in Executors, Publish(w) PROVE IInv'
<1>1. /\ cur[w] \in Jobs
      /\ mine[w] = attempts[cur[w]]
      /\ mine[w] \in 1 .. MaxAttempts
      /\ results[cur[w]] = {}
      /\ status[cur[w]] = "running"
      /\ ~(cur[w] > created)
  BY OwnerFacts DEF Publish, Busy
<1> DEFINE end == IF found[w] = "partial" THEN "failed" ELSE "done"
           err == IF found[w] = "partial" THEN "PARTIAL_DATA"
                  ELSE IF kind[cur[w]] = "refresh" THEN "none" ELSE error[cur[w]]
           res == IF found[w] = "empty" THEN {} ELSE {attempts[cur[w]]}
<1>2. /\ status' = [status EXCEPT ![cur[w]] = end]
      /\ error' = [error EXCEPT ![cur[w]] = err]
      /\ results' = [results EXCEPT ![cur[w]] = res]
      /\ UNCHANGED <<created, kind, attempts, token, lease, backoff>>
  BY <1>1 DEF Publish
<1>3. /\ pc' = [pc EXCEPT ![w] = "idle"]
      /\ cur' = [cur EXCEPT ![w] = 0]
      /\ mine' = [mine EXCEPT ![w] = 0]
      /\ found' = [found EXCEPT ![w] = "complete"]
  BY DEF Publish, GoIdle
<1>4. err \in Codes \cup {"none"} /\ (err = "PARTIAL_DATA" <=> found[w] = "partial") /\ (err \in RETRYABLE => err = error[cur[w]])
  <2>1. error[cur[w]] \in Codes \cup {"none"} /\ error[cur[w]] # "PARTIAL_DATA"
    BY <1>1 DEF IInv, TypeOK, Results
  <2> QED BY <2>1 DEF Codes, RETRYABLE
<1>5. end \in {"done", "failed"} /\ (end = "failed" <=> found[w] = "partial")
  OBVIOUS
<1>5a. found[w] = "empty" => kind[cur[w]] = "review"
  BY DEF Publish, IInv, Errands
<1>6. TypeOK'
  <2>1. status' \in [Jobs -> Statuses] /\ error' \in [Jobs -> Codes \cup {"none"}]
    <3> HIDE DEF end, err
    <3> QED BY <1>2, <1>4, <1>5 DEF IInv, TypeOK, Statuses
  <2>2. results' \in [Jobs -> SUBSET (1 .. MaxAttempts)]
    BY <1>1, <1>2 DEF IInv, TypeOK
  <2>3. mine' \in [Executors -> 0 .. MaxAttempts] /\ cur' \in [Executors -> Jobs \cup {0}]
    BY <1>3, QueueAssumption DEF IInv, TypeOK
  <2>4. pc' \in [Executors -> PCs] /\ found' \in [Executors -> Findings]
    BY <1>3 DEF IInv, TypeOK, PCs, Findings
  <2> QED BY <1>2, <2>1, <2>2, <2>3, <2>4 DEF IInv, TypeOK
<1>7. Tokens'
  <2>1. attempts[cur[w]] > 0 /\ ~(cur[w] > created)
    BY <1>1
  <2>2. \A j \in Jobs : j # cur[w] => status'[j] = status[j]
    BY <1>2 DEF IInv, TypeOK
  <2>3. status'[cur[w]] \in {"done", "failed"}
    BY <1>1, <1>2, <1>5 DEF IInv, TypeOK
  <2> QED BY <1>2, <2>1, <2>2, <2>3 DEF IInv, Tokens, Terminal
<1>8. /\ Attempt'
      /\ OwnTokens'
      /\ Errands'
  BY <1>2, <1>3 DEF IInv, TypeOK, Attempt, OwnTokens, Errands, Busy
<1>9. \A j \in Jobs : IF j = cur[w] THEN status'[j] = end /\ error'[j] = err /\ results'[j] = res
                                     ELSE status'[j] = status[j] /\ error'[j] = error[j] /\ results'[j] = results[j]
  BY <1>2 DEF IInv, TypeOK
<1>10. Results'
  <2> SUFFICES ASSUME NEW j \in Jobs
               PROVE  /\ status'[j] \notin Terminal => results'[j] = {}
                      /\ status'[j] = "done" => results'[j] = {attempts[j]} \/ (results'[j] = {} /\ kind[j] = "review")
                      /\ status'[j] = "failed" => results'[j] = (IF error'[j] = "PARTIAL_DATA" THEN {attempts[j]} ELSE {})
                      /\ error'[j] = "PARTIAL_DATA" => status'[j] = "failed"
    BY <1>2 DEF Results
  <2>1. CASE j = cur[w]
    BY <2>1, <1>4, <1>5, <1>5a, <1>9 DEF Terminal
  <2>2. CASE j # cur[w]
    BY <2>2, <1>9 DEF IInv, Results
  <2> QED BY <2>1, <2>2
<1>11. TransientRetried'
  <2> SUFFICES ASSUME NEW j \in Jobs, status'[j] = "failed", error'[j] \in RETRYABLE
               PROVE  attempts[j] = MaxAttempts
    BY <1>2 DEF TransientRetried
  <2>1. CASE j = cur[w]
    BY <2>1, <1>4, <1>5, <1>9 DEF RETRYABLE
  <2>2. CASE j # cur[w]
    BY <2>2, <1>9 DEF IInv, TransientRetried
  <2> QED BY <2>1, <2>2
<1> QED BY <1>6, <1>7, <1>8, <1>10, <1>11 DEF IInv

LEMMA FailIInv == ASSUME IInv, NEW w \in Executors, Fail(w) PROVE IInv'
<1>1. /\ cur[w] \in Jobs
      /\ mine[w] = attempts[cur[w]]
      /\ mine[w] \in 1 .. MaxAttempts
      /\ results[cur[w]] = {}
      /\ status[cur[w]] = "running"
      /\ ~(cur[w] > created)
  BY OwnerFacts DEF Fail, Busy
<1> DEFINE end == IF Retries(w) THEN "queued" ELSE "failed"
<1>2. /\ status' = [status EXCEPT ![cur[w]] = end]
      /\ error' = [error EXCEPT ![cur[w]] = found[w]]
      /\ UNCHANGED <<created, kind, attempts, results>>
  BY DEF Fail
<1>3. /\ pc' = [pc EXCEPT ![w] = "idle"]
      /\ cur' = [cur EXCEPT ![w] = 0]
      /\ mine' = [mine EXCEPT ![w] = 0]
      /\ found' = [found EXCEPT ![w] = "complete"]
  BY DEF Fail, GoIdle
<1>4. found[w] \in Codes \ {"PARTIAL_DATA"} /\ (found[w] \in RETRYABLE => kind[cur[w]] # "review")
  BY DEF Fail, IInv, Errands
<1>5. TypeOK'
  <2>1. status' \in [Jobs -> Statuses] /\ error' \in [Jobs -> Codes \cup {"none"}]
    BY <1>2, <1>4 DEF IInv, TypeOK, Statuses
  <2>2. token' \in [Jobs -> 0 .. MaxAttempts] /\ lease' \in [Jobs -> 0 .. LeaseTicks]
    <3>1. \/ token' = [token EXCEPT ![cur[w]] = 0] /\ lease' = [lease EXCEPT ![cur[w]] = 0]
          \/ UNCHANGED <<token, lease>>
      BY DEF Fail
    <3>2. 0 \in 0 .. MaxAttempts /\ 0 \in 0 .. LeaseTicks
      BY QueueAssumption
    <3> QED BY <3>1, <3>2 DEF IInv, TypeOK
  <2>3. backoff' \in [Jobs -> Nat]
    <3>1. Backoff[attempts[cur[w]]] \in Nat
      BY <1>1, QueueAssumption
    <3>2. backoff' = [backoff EXCEPT ![cur[w]] = Backoff[attempts[cur[w]]]] \/ UNCHANGED backoff
      BY DEF Fail
    <3> QED BY <3>1, <3>2 DEF IInv, TypeOK
  <2>4. mine' \in [Executors -> 0 .. MaxAttempts] /\ cur' \in [Executors -> Jobs \cup {0}]
    BY <1>3, QueueAssumption DEF IInv, TypeOK
  <2>5. pc' \in [Executors -> PCs] /\ found' \in [Executors -> Findings]
    BY <1>3 DEF IInv, TypeOK, PCs, Findings
  <2> QED BY <1>2, <2>1, <2>2, <2>3, <2>4, <2>5 DEF IInv, TypeOK
<1>6. \A j \in Jobs : IF j = cur[w] THEN status'[j] = end /\ error'[j] = found[w] /\ results'[j] = {}
                                     ELSE status'[j] = status[j] /\ error'[j] = error[j] /\ results'[j] = results[j]
  BY <1>1, <1>2 DEF IInv, TypeOK
<1>7. Tokens'
  <2>1. attempts[cur[w]] > 0 /\ ~(cur[w] > created)
    BY <1>1
  <2>2. \A j \in Jobs : j # cur[w] => token'[j] = token[j]
    BY DEF Fail, IInv, TypeOK
  <2> QED BY <1>2, <1>6, <2>1, <2>2 DEF IInv, Tokens, Terminal
<1>8. /\ Attempt'
      /\ OwnTokens'
      /\ Errands'
  BY <1>2, <1>3 DEF IInv, TypeOK, Attempt, OwnTokens, Errands, Busy
<1>9. Results'
  <2> SUFFICES ASSUME NEW j \in Jobs
               PROVE  /\ status'[j] \notin Terminal => results'[j] = {}
                      /\ status'[j] = "done" => results'[j] = {attempts[j]} \/ (results'[j] = {} /\ kind[j] = "review")
                      /\ status'[j] = "failed" => results'[j] = (IF error'[j] = "PARTIAL_DATA" THEN {attempts[j]} ELSE {})
                      /\ error'[j] = "PARTIAL_DATA" => status'[j] = "failed"
    BY <1>2 DEF Results
  <2>1. CASE j = cur[w]
    BY <2>1, <1>4, <1>6
  <2>2. CASE j # cur[w]
    BY <2>2, <1>6 DEF IInv, Results
  <2> QED BY <2>1, <2>2
<1>10. TransientRetried'
  <2> SUFFICES ASSUME NEW j \in Jobs, status'[j] = "failed", error'[j] \in RETRYABLE
               PROVE  attempts[j] = MaxAttempts
    BY <1>2 DEF TransientRetried
  <2>1. CASE j = cur[w]
    <3>1. ~Retries(w) /\ found[w] \in RETRYABLE /\ kind[cur[w]] # "review"
      BY <2>1, <1>4, <1>6
    <3>2. ~(attempts[cur[w]] < MaxAttempts)
      BY <3>1 DEF Retries
    <3> QED BY <2>1, <3>2, <1>1, QueueAssumption
  <2>2. CASE j # cur[w]
    BY <2>2, <1>6 DEF IInv, TransientRetried
  <2> QED BY <2>1, <2>2
<1> QED BY <1>5, <1>7, <1>8, <1>9, <1>10 DEF IInv

\* Every step, and stuttering, keeps the invariant.
LEMMA NextIInv == IInv /\ [Next]_vars => IInv'
<1> SUFFICES ASSUME IInv, [Next]_vars PROVE IInv'
  OBVIOUS
<1>1. CASE \E k \in Kinds : Enqueue(k)
  BY <1>1, EnqueueIInv
<1>2. ASSUME NEW w \in Executors, Step(w) PROVE IInv'
  BY <1>2, ClaimIInv, AbandonIInv, WorkIInv, PublishIInv, NoteIInv, FailIInv, LeaveIInv DEF Step, Drop
<1>3. ASSUME NEW w \in Executors, Crash(w) PROVE IInv'
  BY <1>3, LeaveIInv DEF Crash
<1>4. CASE Tick
  BY <1>4, TickIInv
<1>5. CASE UNCHANGED vars
  BY <1>5 DEF vars, rowVars, execVars, IInv, TypeOK, Tokens, Attempt, OwnTokens, Errands, Results, TransientRetried, Busy
<1> QED BY <1>1, <1>2, <1>3, <1>4, <1>5 DEF Next

\* The strengthened invariant, which the fencing rests on, holds in every reachable state of the
\* claims, writes, retries and crashes of jobs.py.
THEOREM Invariance == Spec => []IInv
<1> QED BY InitIInv, NextIInv, PTL DEF Spec

\* Every variable stays in its type, for any number of rows, executors and attempts.
THEOREM TypeCorrect == Spec => []TypeOK
<1>1. IInv => TypeOK
  BY DEF IInv
<1> QED BY <1>1, Invariance, PTL

\* However late an attempt of claim_next_portfolio_job wakes up, it never owns a row another
\* attempt owns.
THEOREM SingleOwner == Spec => []OneOwner
<1>1. IInv => OneOwner
  BY DEF IInv, OwnTokens, OneOwner, Owns, Busy
<1> QED BY <1>1, Invariance, PTL

\* A job's result is published at most once over all attempts, by the newest of them.
THEOREM SinglePublication == Spec => []PublishedOnce
<1>1. IInv => PublishedOnce
  <2> SUFFICES ASSUME IInv, NEW j \in Jobs
               PROVE  /\ results[j] # {} => results[j] = {attempts[j]} /\ HasResult(j)
                      /\ HasResult(j) /\ kind[j] # "review" => results[j] # {}
    BY DEF PublishedOnce
  <2> QED BY DEF IInv, Results, Terminal, HasResult
<1> QED BY <1>1, Invariance, PTL

\* Transient provider failures use up MAX_ATTEMPTS before the job is given up.
THEOREM Retried == Spec => []TransientRetried
<1>1. IInv => TransientRetried
  BY DEF IInv
<1> QED BY <1>1, Invariance, PTL

\* A step changes the columns of at most one row: the one inserted, claimed, abandoned or written back.
LEMMA ClaimedRow ==
  ASSUME IInv, NEW w \in Executors, Claim(w) \/ Abandon(w), NEW j \in Jobs, Columns(j)' # Columns(j)
  PROVE  /\ status[j] \in {"queued", "running"}
         /\ status[j] = "running" => lease[j] = 0
<1>1. CASE Claim(w)
  <2>1. PICK i \in Jobs :
          /\ i \in Claimable(w)
          /\ status' = [status EXCEPT ![i] = "running"]
          /\ attempts' = [attempts EXCEPT ![i] = @ + 1]
          /\ token' = [token EXCEPT ![i] = FreshToken(i)]
    BY <1>1 DEF Claim, Oldest
  <2>2. i = j
    BY <1>1, <2>1 DEF Claim, Columns, IInv, TypeOK
  <2> QED BY <2>1, <2>2 DEF Claimable
<1>2. CASE Abandon(w)
  <2>1. PICK i \in Jobs :
          /\ i \in Claimable(w)
          /\ status' = [status EXCEPT ![i] = "failed"]
          /\ error' = [error EXCEPT ![i] = "INTERNAL"]
    BY <1>2 DEF Abandon, Oldest
  <2>2. i = j
    BY <1>2, <2>1 DEF Abandon, Columns, IInv, TypeOK
  <2> QED BY <2>1, <2>2 DEF Claimable
<1> QED BY <1>1, <1>2

LEMMA WrittenRow ==
  ASSUME IInv, NEW w \in Executors, Publish(w) \/ Fail(w), NEW j \in Jobs, Columns(j)' # Columns(j)
  PROVE  /\ j = cur[w]
         /\ status[j] = "running"
         /\ mine[w] = token[j]
         /\ pc[w] # "idle" /\ pc'[w] = "idle"
<1>1. pc[w] # "idle" /\ Owns(w)
  BY DEF Publish, Fail
<1>2. cur[w] \in Jobs
  BY <1>1 DEF IInv, Attempt, Busy
<1>3. pc'[w] = "idle"
  BY DEF Publish, Fail, GoIdle, IInv, TypeOK
<1>4. \A i \in Jobs : i # cur[w] => Columns(i)' = Columns(i)
  <2>1. CASE Publish(w)
    BY <2>1, <1>2 DEF Publish, Columns, IInv, TypeOK
  <2>2. CASE Fail(w)
    BY <2>2, <1>2 DEF Fail, Columns, IInv, TypeOK
  <2> QED BY <2>1, <2>2
<1> QED BY <1>1, <1>3, <1>4 DEF Owns

\* Which steps change the columns of an inserted row at all.
LEMMA ColumnChange ==
  ASSUME IInv, [Next]_vars, NEW j \in Jobs, status[j] # "absent", Columns(j)' # Columns(j)
  PROVE  \E w \in Executors : Claim(w) \/ Abandon(w) \/ Publish(w) \/ Fail(w)
<1>1. ASSUME NEW k \in Kinds, Enqueue(k) PROVE FALSE
  <2>1. status[created + 1] = "absent"
    BY <1>1, QueueAssumption DEF Enqueue, IInv, TypeOK, Tokens, Jobs
  <2>2. j # created + 1
    BY <2>1
  <2> QED BY <1>1, <2>2 DEF Enqueue, Columns, IInv, TypeOK
<1>2. ASSUME NEW w \in Executors, Work(w) \/ Note(w) \/ Drop(w) \/ Crash(w) PROVE FALSE
  BY <1>2 DEF Work, Note, Drop, Crash, rowVars, Columns
<1>3. ASSUME Tick PROVE FALSE
  BY <1>3 DEF Tick, Columns
<1>4. ASSUME UNCHANGED vars PROVE FALSE
  BY <1>4 DEF vars, rowVars, Columns
<1> QED BY <1>1, <1>2, <1>3, <1>4 DEF Next, Step

\* A job that was finished is never reopened or rewritten, whatever a late attempt, a reclaim or a
\* retry does: this is what the status half of the fence is for.
THEOREM Finality == Spec => FinishedIsFinal
<1>1. IInv /\ [Next]_vars => (\A j \in Jobs : status[j] \in Terminal => Columns(j)' = Columns(j))
  <2> SUFFICES ASSUME IInv, [Next]_vars, NEW j \in Jobs, status[j] \in Terminal, Columns(j)' # Columns(j)
               PROVE  FALSE
    OBVIOUS
  <2>1. PICK w \in Executors : Claim(w) \/ Abandon(w) \/ Publish(w) \/ Fail(w)
    BY ColumnChange DEF Terminal
  <2> QED BY <2>1, ClaimedRow, WrittenRow DEF Terminal
<1> QED BY <1>1, Invariance, PTL DEF Spec, FinishedIsFinal

\* While its lease lasts, a running row is changed only by the attempt holding its token.
THEOREM LeaseProtects == Spec => OnlyOwnerWrites
<1> DEFINE A == \A j \in Jobs :
                  status[j] = "running" /\ lease[j] > 0 /\ Columns(j)' # Columns(j) =>
                    \E w \in Executors : cur[w] = j /\ mine[w] = token[j] /\ pc[w] # "idle" /\ pc'[w] = "idle"
<1>1. IInv /\ [Next]_vars => A
  <2> SUFFICES ASSUME IInv, [Next]_vars, NEW j \in Jobs,
                      status[j] = "running", lease[j] > 0, Columns(j)' # Columns(j)
               PROVE  \E w \in Executors : cur[w] = j /\ mine[w] = token[j] /\ pc[w] # "idle" /\ pc'[w] = "idle"
    OBVIOUS
  <2>1. PICK w \in Executors : Claim(w) \/ Abandon(w) \/ Publish(w) \/ Fail(w)
    BY ColumnChange
  <2>2. ~(Claim(w) \/ Abandon(w))
    BY ClaimedRow
  <2> QED BY <2>1, <2>2, WrittenRow
<1>2. Spec => [][A]_vars
  BY <1>1, Invariance, PTL DEF Spec
<1> QED BY <1>2 DEF OnlyOwnerWrites

-----------------------------------------------------------------------------
\* Refinement: each step of the queue is a step of the contract on one job, or leaves it alone.

AStage == [j \in Jobs |-> Stage(j)]
AOptional == [j \in Jobs |-> kind[j] = "review"]
AVisible == [j \in Jobs |-> results[j] # {}]

LEMMA EnqueueAccepts ==
  ASSUME IInv, NEW k \in Kinds, Enqueue(k) PROVE \E j \in Jobs : Contract!Accept(j)
<1> DEFINE n == created + 1
<1>1. n \in Jobs /\ status[n] = "absent" /\ status' = [status EXCEPT ![n] = "queued"]
  BY QueueAssumption DEF Enqueue, IInv, TypeOK, Tokens, Jobs
<1>2. UNCHANGED <<attempts, results>>
  BY DEF Enqueue
<1>3. AStage[n] = "new" /\ AStage' = [AStage EXCEPT ![n] = "pending"]
  BY <1>1 DEF AStage, Stage, IInv, TypeOK
<1>4. AVisible' = AVisible
  BY <1>2 DEF AVisible
<1>5. \E o \in BOOLEAN : AOptional' = [AOptional EXCEPT ![n] = o]
  <2>1. kind' = [kind EXCEPT ![n] = k]
    BY DEF Enqueue
  <2>2. AOptional' = [AOptional EXCEPT ![n] = (k = "review")]
    BY <1>1, <2>1 DEF AOptional, IInv, TypeOK
  <2> QED BY <2>2
<1> QED BY <1>1, <1>2, <1>3, <1>4, <1>5 DEF Contract!Accept, AStage, AOptional, AVisible

LEMMA ClaimStarts ==
  ASSUME IInv, NEW w \in Executors, Claim(w) PROVE \E j \in Jobs : Contract!Start(j)
<1>1. PICK j \in Jobs :
        /\ status[j] \in {"queued", "running"}
        /\ ~Exhausted(j)
        /\ status' = [status EXCEPT ![j] = "running"]
        /\ attempts' = [attempts EXCEPT ![j] = attempts[j] + 1]
  BY DEF Claim, Oldest, Claimable
<1>2. attempts[j] < MaxAttempts
  BY <1>1, QueueAssumption DEF Exhausted, IInv, TypeOK
<1>3. AStage[j] = "pending" /\ AStage' = AStage
  BY <1>1 DEF AStage, Stage, IInv, TypeOK
<1>4. AVisible' = AVisible /\ AOptional' = AOptional
  BY DEF Claim, AVisible, AOptional
<1> QED BY <1>1, <1>2, <1>3, <1>4 DEF Contract!Start, AStage, AOptional, AVisible

LEMMA AbandonGivesUp ==
  ASSUME IInv, NEW w \in Executors, Abandon(w) PROVE \E j \in Jobs : Contract!GiveUp(j)
<1>1. PICK j \in Jobs :
        /\ status[j] \in {"queued", "running"}
        /\ Exhausted(j)
        /\ status' = [status EXCEPT ![j] = "failed"]
  BY DEF Abandon, Oldest, Claimable
<1>2. attempts[j] > 0
  BY <1>1, QueueAssumption DEF Exhausted, IInv, TypeOK
<1>3. AStage[j] = "pending" /\ AStage' = [AStage EXCEPT ![j] = "failed"]
  BY <1>1 DEF AStage, Stage, IInv, TypeOK
<1>4. AVisible' = AVisible /\ AOptional' = AOptional /\ UNCHANGED attempts
  BY DEF Abandon, AVisible, AOptional
<1> QED BY <1>1, <1>2, <1>3, <1>4 DEF Contract!GiveUp, AStage, AOptional, AVisible

LEMMA PublishDelivers ==
  ASSUME IInv, NEW w \in Executors, Publish(w)
  PROVE  \E j \in Jobs : Contract!FindNothing(j) \/ \E end \in {"done", "failed"} : Contract!Deliver(j, end)
<1>1. /\ cur[w] \in Jobs
      /\ status[cur[w]] = "running"
      /\ attempts[cur[w]] > 0
      /\ results[cur[w]] = {}
  BY OwnerFacts DEF Publish, Busy
<1>2. PICK end \in {"done", "failed"} :
        /\ status' = [status EXCEPT ![cur[w]] = end]
        /\ found[w] = "empty" => end = "done"
  BY DEF Publish
<1>3. AStage[cur[w]] = "pending" /\ AStage' = [AStage EXCEPT ![cur[w]] = end]
  BY <1>1, <1>2 DEF AStage, Stage, IInv, TypeOK
<1>4. AOptional' = AOptional /\ UNCHANGED attempts
  BY DEF Publish, AOptional
<1>5. CASE found[w] = "empty"
  <2>1. AVisible' = AVisible
    BY <1>1, <1>5 DEF Publish, AVisible, IInv, TypeOK
  <2>2. kind[cur[w]] = "review"
    BY <1>5 DEF Publish, IInv, Errands
  <2> QED BY <1>1, <1>2, <1>3, <1>4, <1>5, <2>1, <2>2 DEF Contract!FindNothing, AStage, AOptional, AVisible
<1>6. CASE found[w] # "empty"
  <2>1. results' = [results EXCEPT ![cur[w]] = results[cur[w]] \cup {mine[w]}]
    BY <1>6 DEF Publish
  <2>2. (results'[cur[w]] # {}) = TRUE
    BY <2>1, <1>1 DEF IInv, TypeOK
  <2>3. \A j \in Jobs : j # cur[w] => results'[j] = results[j]
    BY <2>1, <1>1 DEF IInv, TypeOK
  <2>4. AVisible' = [AVisible EXCEPT ![cur[w]] = TRUE]
    BY <2>1, <2>2, <2>3 DEF AVisible
  <2> QED BY <1>1, <1>3, <1>4, <2>4 DEF Contract!Deliver, AStage, AOptional, AVisible
<1> QED BY <1>5, <1>6

LEMMA FailStep ==
  ASSUME IInv, NEW w \in Executors, Fail(w)
  PROVE  (\E j \in Jobs : Contract!GiveUp(j)) \/ UNCHANGED <<AStage, attempts, AOptional, AVisible>>
<1>1. cur[w] \in Jobs /\ status[cur[w]] = "running" /\ attempts[cur[w]] > 0
  BY OwnerFacts DEF Fail, Busy
<1>2. AVisible' = AVisible /\ AOptional' = AOptional /\ UNCHANGED attempts
  BY DEF Fail, AVisible, AOptional
<1>3. CASE Retries(w)
  <2>1. status' = [status EXCEPT ![cur[w]] = "queued"]
    BY <1>3 DEF Fail
  <2>2. AStage' = AStage
    BY <1>1, <2>1 DEF AStage, Stage, IInv, TypeOK
  <2> QED BY <1>2, <2>2
<1>4. CASE ~Retries(w)
  <2>1. status' = [status EXCEPT ![cur[w]] = "failed"]
    BY <1>4 DEF Fail
  <2>2. AStage[cur[w]] = "pending" /\ AStage' = [AStage EXCEPT ![cur[w]] = "failed"]
    BY <1>1, <2>1 DEF AStage, Stage, IInv, TypeOK
  <2> QED BY <1>1, <1>2, <2>2 DEF Contract!GiveUp, AStage, AOptional, AVisible
<1> QED BY <1>3, <1>4

\* The queue implements its contract: crashes, leases, reclaims and retries are invisible to the code
\* that inserted the job, except as a bounded number of starts.
THEOREM ImplementsContract == Spec => KeepsContract
<1>1. Init => Contract!CInit
  <2> SUFFICES ASSUME Init PROVE Contract!CInit
    OBVIOUS
  <2>1. \A j \in Jobs : Stage(j) = "new"
    BY DEF Init, Stage
  <2>2. \A j \in Jobs : (results[j] # {}) = FALSE
    BY DEF Init
  <2>3. attempts = [j \in Jobs |-> 0]
    BY DEF Init
  <2>4. \A j \in Jobs : (kind[j] = "review") = FALSE
    BY DEF Init
  <2> QED BY <2>1, <2>2, <2>3, <2>4 DEF Contract!CInit, Contract!Jobs, Jobs
<1>2. IInv /\ [Next]_vars => [Contract!CNext]_(Contract!cvars)
  <2> SUFFICES ASSUME IInv, [Next]_vars
               PROVE  Contract!CNext \/ UNCHANGED <<AStage, attempts, AOptional, AVisible>>
    BY DEF Contract!cvars, AStage, AOptional, AVisible
  <2> USE DEF Contract!CNext, Contract!Jobs, Jobs
  <2>1. ASSUME NEW k \in Kinds, Enqueue(k) PROVE Contract!CNext
    BY <2>1, EnqueueAccepts
  <2>2. ASSUME NEW w \in Executors, Claim(w) PROVE Contract!CNext
    BY <2>2, ClaimStarts
  <2>3. ASSUME NEW w \in Executors, Abandon(w) PROVE Contract!CNext
    BY <2>3, AbandonGivesUp
  <2>4. ASSUME NEW w \in Executors, Publish(w) PROVE Contract!CNext
    BY <2>4, PublishDelivers
  <2>5. ASSUME NEW w \in Executors, Fail(w) PROVE Contract!CNext \/ UNCHANGED <<AStage, attempts, AOptional, AVisible>>
    BY <2>5, FailStep
  <2>6. ASSUME NEW w \in Executors, Work(w) \/ Note(w) \/ Drop(w) \/ Crash(w)
        PROVE  UNCHANGED <<AStage, attempts, AOptional, AVisible>>
    BY <2>6 DEF Work, Note, Drop, Crash, rowVars, AStage, AOptional, AVisible, Stage
  <2>7. CASE Tick
    BY <2>7 DEF Tick, AStage, AOptional, AVisible, Stage
  <2>8. CASE UNCHANGED vars
    BY <2>8 DEF vars, rowVars, AStage, AOptional, AVisible, Stage
  <2> QED BY <2>1, <2>2, <2>3, <2>4, <2>5, <2>6, <2>7, <2>8 DEF Next, Step
<1> QED BY <1>1, <1>2, Invariance, PTL DEF Spec, KeepsContract, Contract!CSafe
=============================================================================
