----------------------------- MODULE ChainProofs -----------------------------
(***************************************************************************)
(* The chains of bulk jobs: the market chain does not fork, the weekly     *)
(* refresh of expense ratios accounts for every fund house; and the        *)
(* catalogue, which its own job refreshes every night.                     *)
(*                                                                         *)
(* The chains work on the table of BulkQueue, so what an action can do to that   *)
(* table is said once: rows leave it or are put back with their kind and   *)
(* their parameters (Carried), or one is added at the end that only the    *)
(* row of the caller would duplicate (Grown).  The row the worker has in   *)
(* hand keeps its place meanwhile (Held), since only its own job can take  *)
(* a row out.                                                              *)
(*                                                                         *)
(* Refreshes (RefInv): what makes the last report complete is that every   *)
(* row and every job on the way owes nothing else than it says: a house    *)
(* has this week's ratios, or is left to do, or has failed (Leftovers,     *)
(* Working); and the job under way works on what its row says (InHand), so *)
(* that it owes as much when it is taken up again after a death.           *)
(*                                                                         *)
(* Market (MarketInv): there are never three bulk backfills (AtMostTwo).   *)
(* It is kept because a backfill is added only where there is none but     *)
(* that of the caller, and because a table without three keeps none when   *)
(* its rows move up.  The stores are typed by the close of the day, which  *)
(* needs that a backfill began today or before and that the model is given *)
(* securities with candles only (Tasks).                                   *)
(*                                                                         *)
(* Catalogue: windows of corporate actions join those of before, because   *)
(* what was announced in time for a day that lies an overlap before a      *)
(* stored action is stored (NoGap), whatever run stored it, and the        *)
(* windows of the run under way have left nothing out (Windowed).  Files   *)
(* are applied in one transaction, each to the rows of its kind: few are   *)
(* retired by a file whose lines are all active (FileKeeps), and what it   *)
(* does not say stays.  A history agrees with the catalogue because the    *)
(* day that was compared is stored, or was itself compared with what is    *)
(* stored (StoredAgrees).                                                  *)
(***************************************************************************)
EXTENDS MarketChain, RefreshChains, Catalogue, TableLemmas, SequenceTheorems

-----------------------------------------------------------------------------
(* The table of the bulk rows.                                             *)

Kinds == {"candle_backfill", "signals_compute", "kronos_forecast", "ter_refresh", "fundamentals_refresh"}

\* Parameters that name items of I.
ParamsOf(I) == [ids : SUBSET I, failed : SUBSET I]

Rows(I) == [kind : Kinds, params : ParamsOf(I), status : {"queued", "running"},
            attempts : 0 .. MaxAttempts, due : BOOLEAN]

\* Every row of t is a row of q, with its kind and its parameters, and no two are the same one.
Carried(q, t) ==
  \E f \in [DOMAIN t -> DOMAIN q] :
    /\ \A k \in DOMAIN t : t[k].kind = q[f[k]].kind /\ t[k].params = q[f[k]].params
    /\ \A k, m \in DOMAIN t : f[k] = f[m] => k = m

\* What w has in hand is a running row of q.
Held(q, w) ==
  /\ w.job \in 0 .. Len(q)
  /\ w # Idle => w.at # "idle"
  /\ w.job \in DOMAIN q => q[w.job].status = "running" /\ ~q[w.job].due

TableOK(q, I) == q \in Seq(Rows(I)) /\ Len(q) <= MaxJobs

\* A row is taken out, the later ones move up.
LEMMA RemoveAtIs ==
  ASSUME NEW T, NEW s \in Seq(T), NEW i \in DOMAIN s
  PROVE  /\ RemoveAt(s, i) \in Seq(T)
         /\ Len(RemoveAt(s, i)) = Len(s) - 1
         /\ \A k \in 1 .. Len(s) - 1 : RemoveAt(s, i)[k] = IF k < i THEN s[k] ELSE s[k + 1]
<1>. DEFINE a == SubSeq(s, 1, i - 1)  b == SubSeq(s, i + 1, Len(s))
<1>1. Len(s) \in Nat /\ i \in 1 .. Len(s) /\ \A k \in 1 .. Len(s) : s[k] \in T
  BY ElementOf
<1>2. a \in Seq(T) /\ Len(a) = i - 1 /\ \A k \in 1 .. i - 1 : a[k] = s[k]
  <2>1. 1 \in Int /\ i - 1 \in Int /\ \A k \in 1 .. i - 1 : s[k] \in T
    BY <1>1
  <2>2. /\ SubSeq(s, 1, i - 1) \in Seq(T)
        /\ Len(SubSeq(s, 1, i - 1)) = IF 1 <= i - 1 THEN i - 1 - 1 + 1 ELSE 0
        /\ \A k \in 1 .. (i - 1) - 1 + 1 : SubSeq(s, 1, i - 1)[k] = s[1 + k - 1]
    BY <2>1, SubSeqProperties
  <2>3. \A k \in 1 .. i - 1 : 1 + k - 1 = k
    BY <1>1
  <2>4. (i - 1) - 1 + 1 = i - 1 /\ (1 <= i - 1 \/ i - 1 = 0)
    BY <1>1
  <2>. QED BY <2>2, <2>3, <2>4
<1>3. b \in Seq(T) /\ Len(b) = Len(s) - i /\ \A k \in 1 .. Len(s) - i : b[k] = s[i + k]
  <2>1. i + 1 \in Int /\ Len(s) \in Int /\ \A k \in i + 1 .. Len(s) : s[k] \in T
    BY <1>1
  <2>2. /\ SubSeq(s, i + 1, Len(s)) \in Seq(T)
        /\ Len(SubSeq(s, i + 1, Len(s))) = IF i + 1 <= Len(s) THEN Len(s) - (i + 1) + 1 ELSE 0
        /\ \A k \in 1 .. Len(s) - (i + 1) + 1 : SubSeq(s, i + 1, Len(s))[k] = s[i + 1 + k - 1]
    BY <2>1, SubSeqProperties
  <2>3. \A k \in 1 .. Len(s) - i : i + 1 + k - 1 = i + k
    BY <1>1
  <2>4. Len(s) - (i + 1) + 1 = Len(s) - i /\ (i + 1 <= Len(s) \/ Len(s) - i = 0)
    BY <1>1
  <2>. QED BY <2>2, <2>3, <2>4
<1>4. RemoveAt(s, i) = a \o b
  BY DEF RemoveAt
<1>. HIDE DEF a, b
<1>5. /\ a \o b \in Seq(T)
      /\ Len(a \o b) = Len(a) + Len(b)
      /\ \A k \in 1 .. Len(a) + Len(b) : (a \o b)[k] = IF k <= Len(a) THEN a[k] ELSE b[k - Len(a)]
  BY <1>2, <1>3, ConcatProperties
<1>6. Len(a) + Len(b) = Len(s) - 1
  BY <1>1, <1>2, <1>3
<1>7. ASSUME NEW k \in 1 .. Len(s) - 1 PROVE (a \o b)[k] = IF k < i THEN s[k] ELSE s[k + 1]
  <2>1. CASE k < i
    <3>1. k \in 1 .. i - 1 /\ k <= Len(a)
      BY <1>1, <1>2, <2>1
    <3>. QED BY <1>2, <1>5, <1>6, <2>1, <3>1
  <2>2. CASE ~(k < i)
    <3>1. ~(k <= Len(a)) /\ k - Len(a) \in 1 .. Len(s) - i /\ i + (k - Len(a)) = k + 1
      BY <1>1, <1>2, <2>2
    <3>. QED BY <1>3, <1>5, <1>6, <2>2, <3>1
  <2>. QED BY <2>1, <2>2
<1>. QED BY <1>4, <1>5, <1>6, <1>7

\* Taking a row out carries the others.
LEMMA RemovedRow ==
  ASSUME NEW I, NEW q, TableOK(q, I), NEW i \in DOMAIN q, MaxJobs \in Nat
  PROVE  TableOK(RemoveAt(q, i), I) /\ Carried(q, RemoveAt(q, i)) /\ Len(RemoveAt(q, i)) <= Len(q)
<1>. DEFINE t == RemoveAt(q, i)
<1>1. q \in Seq(Rows(I)) /\ Len(q) <= MaxJobs
  BY DEF TableOK
<1>2. Len(q) \in Nat /\ DOMAIN q = 1 .. Len(q)
  BY <1>1, ElementOf
<1>3. t \in Seq(Rows(I)) /\ Len(t) = Len(q) - 1
      /\ \A k \in 1 .. Len(q) - 1 : t[k] = IF k < i THEN q[k] ELSE q[k + 1]
  BY <1>1, RemoveAtIs
<1>. HIDE DEF t
<1>4. DOMAIN t = 1 .. Len(q) - 1
  BY <1>3, ElementOf
<1>5. Carried(q, t)
  <2>. DEFINE f == [k \in DOMAIN t |-> IF k < i THEN k ELSE k + 1]
  <2>1. f \in [DOMAIN t -> DOMAIN q]
    BY <1>2, <1>4
  <2>2. \A k \in DOMAIN t : t[k] = q[f[k]]
    BY <1>2, <1>3, <1>4
  <2>3. \A k, m \in DOMAIN t : f[k] = f[m] => k = m
    BY <1>2, <1>4
  <2>. HIDE DEF f
  <2>. QED BY <2>1, <2>2, <2>3 DEF Carried
<1>6. Len(t) <= Len(q) /\ Len(t) <= MaxJobs
  BY <1>1, <1>2, <1>3
<1>. QED BY <1>3, <1>5, <1>6 DEF TableOK, t

\* t is q with r as its i-th row.
Changed(q, i, r, t) ==
  /\ Len(t) = Len(q) /\ DOMAIN t = DOMAIN q
  /\ t[i] = r /\ \A k \in DOMAIN q : k # i => t[k] = q[k]

\* A row is changed where it is.
LEMMA ChangedRowAt ==
  ASSUME NEW I, NEW q, TableOK(q, I), NEW i \in DOMAIN q, NEW r \in Rows(I), NEW t, t = [q EXCEPT ![i] = r]
  PROVE  t \in Seq(Rows(I)) /\ Changed(q, i, r, t)
<1>1. q \in Seq(Rows(I))
  BY DEF TableOK
<1>2. Len(q) \in Nat /\ DOMAIN q = 1 .. Len(q) /\ \A k \in DOMAIN q : q[k] \in Rows(I)
  BY <1>1, ElementOf
<1>3. t = [k \in DOMAIN q |-> IF k = i THEN r ELSE q[k]]
  OBVIOUS
<1>4. t[i] = r /\ \A k \in DOMAIN q : k # i => t[k] = q[k]
  BY <1>3
<1>5. t \in Seq(Rows(I)) /\ DOMAIN t = DOMAIN q
  <2>1. \A k \in DOMAIN q : t[k] \in Rows(I)
    BY <1>2, <1>4
  <2>2. t = [k \in DOMAIN q |-> t[k]]
    BY <1>3
  <2>. QED BY <1>1, <2>1, <2>2, ChangedInPlace
<1>6. Len(t) = Len(q)
  <2>1. Len(t) \in Nat /\ DOMAIN t = 1 .. Len(t)
    BY <1>5, ElementOf
  <2>2. \A m, n \in Nat : 1 .. m = 1 .. n => m = n
    OBVIOUS
  <2>. QED BY <1>2, <1>5, <2>1, <2>2
<1>. QED BY <1>4, <1>5, <1>6 DEF Changed

\* A row that keeps its kind and its parameters is carried, and so are the others.
LEMMA ChangedRow ==
  ASSUME NEW I, NEW q, TableOK(q, I), NEW i \in DOMAIN q, NEW r \in Rows(I),
         r.kind = q[i].kind, r.params = q[i].params, NEW t, t = [q EXCEPT ![i] = r]
  PROVE  TableOK(t, I) /\ Carried(q, t)
<1>0. t \in Seq(Rows(I)) /\ Changed(q, i, r, t)
  BY ChangedRowAt
<1>1. /\ t \in Seq(Rows(I)) /\ Len(t) = Len(q) /\ DOMAIN t = DOMAIN q
      /\ t[i] = r /\ \A k \in DOMAIN q : k # i => t[k] = q[k]
  BY <1>0 DEF Changed
<1>2. Carried(q, t)
  <2>. DEFINE f == [k \in DOMAIN t |-> k]
  <2>1. f \in [DOMAIN t -> DOMAIN q] /\ \A k \in DOMAIN t : f[k] = k
    BY <1>1
  <2>2. \A k \in DOMAIN t : t[k].kind = q[k].kind /\ t[k].params = q[k].params
    BY <1>1
  <2>. HIDE DEF f
  <2>. QED BY <2>1, <2>2 DEF Carried
<1>. QED BY <1>1, <1>2 DEF TableOK

\* The rows of q are the first rows of t.
Extended(q, t) == Len(q) <= Len(t) /\ \A k \in DOMAIN q : k \in DOMAIN t /\ t[k] = q[k]

\* t is q, or q with one more row, which nothing but the row self would duplicate.
Grown(q, kind, params, self, t) ==
  /\ Extended(q, t)
  /\ \A k \in DOMAIN t : k \notin DOMAIN q =>
       /\ k = Len(q) + 1 /\ t[k].kind = kind /\ t[k].params = params
       /\ ~Blocked(q, kind, params, self)

\* A row is queued at the end.
LEMMA QueuedRow ==
  ASSUME NEW I, NEW q, TableOK(q, I), Len(q) < MaxJobs, MaxJobs \in Nat, MaxAttempts \in Nat,
         NEW kind \in Kinds, NEW params \in ParamsOf(I), NEW self,
         NEW t, t = Append(q, Row(kind, params))
  PROVE  TableOK(t, I) /\ Extended(q, t) /\ (~Blocked(q, kind, params, self) => Grown(q, kind, params, self, t))
<1>1. q \in Seq(Rows(I)) /\ Len(q) \in Nat
  BY ElementOf DEF TableOK
<1>2. Row(kind, params) \in Rows(I) /\ Row(kind, params).kind = kind /\ Row(kind, params).params = params
  BY DEF Row, Rows
<1>. DEFINE r == Row(kind, params)
<1>. HIDE DEF r
<1>3. r \in Rows(I) /\ t = Append(q, r)
  BY <1>2 DEF r
<1>4. /\ Append(q, r) \in Seq(Rows(I)) /\ Len(Append(q, r)) = Len(q) + 1
      /\ DOMAIN Append(q, r) = DOMAIN q \cup {Len(q) + 1} /\ Len(q) + 1 \notin DOMAIN q
      /\ \A k \in DOMAIN q : Append(q, r)[k] = q[k]
      /\ Append(q, r)[Len(q) + 1] = r
  BY <1>1, <1>3, AppendShape
<1>5. Len(t) <= MaxJobs /\ Len(q) <= Len(t)
  BY <1>1, <1>3, <1>4
<1>6. t[Len(q) + 1].kind = kind /\ t[Len(q) + 1].params = params
  BY <1>2, <1>3, <1>4 DEF r
<1>7. \A k \in DOMAIN q : k \in DOMAIN t /\ t[k] = q[k]
  BY <1>3, <1>4
<1>8. \A k \in DOMAIN t : k \notin DOMAIN q => k = Len(q) + 1
  BY <1>3, <1>4
<1>. HIDE DEF r
<1>. QED BY <1>3, <1>4, <1>5, <1>6, <1>7, <1>8 DEF TableOK, Grown, Extended

\* A finite set of integers has a least element, which is what Min chooses.
LEMMA MinOf ==
  ASSUME NEW S, IsFiniteSet(S), S \subseteq Int, S # {}
  PROVE  Min(S) \in S /\ \A y \in S : Min(S) <= y
<1>. DEFINE F == {T \in SUBSET S : T # {} => \E m \in T : \A y \in T : m <= y}
<1>1. ASSUME NEW T \in SUBSET S, \A U \in SUBSET T : U # T => U \in F PROVE T \in F
  <2>. SUFFICES ASSUME T # {} PROVE \E m \in T : \A y \in T : m <= y
    OBVIOUS
  <2>1. PICK x \in T : TRUE
    OBVIOUS
  <2>2. CASE T \ {x} = {}
    <3>1. x \in Int /\ \A y \in T : y = x
      BY <2>2
    <3>2. x <= x
      BY <3>1
    <3>. QED BY <3>1, <3>2
  <2>3. CASE T \ {x} # {}
    <3>1. PICK m \in T \ {x} : \A y \in T \ {x} : m <= y
      BY <1>1, <2>3
    <3>2. x \in Int /\ m \in Int /\ \A y \in T : y \in Int
      BY <3>1
    <3>3. CASE m <= x
      BY <3>1, <3>3
    <3>4. CASE ~(m <= x)
      <4>1. \A y \in T \ {x} : x <= y
        BY <3>1, <3>2, <3>4
      <4>2. x <= x
        BY <3>2
      <4>. QED BY <4>1, <4>2
    <3>. QED BY <3>3, <3>4
  <2>. QED BY <2>2, <2>3
<1>2. \A T \in SUBSET S : T \in F
  <2>. HIDE DEF F
  <2>. QED BY <1>1, SubsetInduction
<1>3. \E m \in S : \A y \in S : m <= y
  BY <1>2
<1>. QED BY <1>3 DEF Min

-----------------------------------------------------------------------------
(* The queue.                                                              *)

\* The part of the type invariant that the queue keeps on its own.
QueueOK(I) == TableOK(jobs, I) /\ Held(jobs, worker) /\ faults \in 0 .. MaxFaults

\* The typed table and the row in hand make the type invariant of the queue.
LEMMA QueueTyped == ASSUME NEW I, QueueOK(I) PROVE BTypeOK
<1>1. jobs \in Seq(Rows(I)) /\ \A j \in DOMAIN jobs : jobs[j] \in Rows(I)
  BY ElementOf DEF QueueOK, TableOK
<1>2. \A j \in DOMAIN jobs : jobs[j].attempts \in 0 .. MaxAttempts /\ jobs[j].due \in BOOLEAN
  BY <1>1 DEF Rows
<1>. QED BY <1>2 DEF QueueOK, TableOK, Held, BTypeOK

\* Nobody holds a row.
LEMMA HeldByNone == ASSUME NEW q, Len(q) \in Nat, DOMAIN q = 1 .. Len(q) PROVE Held(q, Idle)
<1>1. Idle.job = 0 /\ 0 \notin DOMAIN q
  BY DEF Idle
<1>. QED BY <1>1 DEF Held

\* The worker keeps its row while others are appended, and when another one changes.
LEMMA HeldOn ==
  ASSUME NEW q, NEW t, NEW v, NEW w, Len(q) \in Nat, Len(t) \in Nat, Len(q) <= Len(t),
         DOMAIN q = 1 .. Len(q), DOMAIN t = 1 .. Len(t),
         Held(q, v), w.job = v.job, w # Idle => w.at # "idle",
         v.job \in DOMAIN q => t[v.job] = q[v.job]
  PROVE  Held(t, w)
<1>1. v.job \in 0 .. Len(t) /\ (v.job \in DOMAIN t => v.job \in DOMAIN q)
  BY DEF Held
<1>. QED BY <1>1 DEF Held

\* A job that ends leaves the table, or is put back as it was.
LEMMA FailStep ==
  ASSUME BulkAssumption, NEW I, TableOK(jobs, I), NEW j \in DOMAIN jobs, NEW code, Fail(j, code)
  PROVE  TableOK(jobs', I) /\ Carried(jobs, jobs')
<1>1. CASE jobs' = RemoveAt(jobs, j)
  <2>1. TableOK(RemoveAt(jobs, j), I) /\ Carried(jobs, RemoveAt(jobs, j))
    BY RemovedRow DEF BulkAssumption
  <2>. QED BY <1>1, <2>1
<1>2. CASE jobs' = [jobs EXCEPT ![j].status = "queued", ![j].due = FALSE]
  <2>. DEFINE r == [jobs[j] EXCEPT !.status = "queued", !.due = FALSE]
  <2>1. jobs \in Seq(Rows(I)) /\ jobs[j] \in Rows(I)
    BY ElementOf DEF TableOK
  <2>2. r \in Rows(I) /\ r.kind = jobs[j].kind /\ r.params = jobs[j].params
    BY <2>1 DEF Rows
  <2>3. jobs' = [jobs EXCEPT ![j] = r]
    BY <1>2
  <2>. HIDE DEF r
  <2>4. TableOK(jobs', I) /\ Carried(jobs, jobs')
    BY <2>2, <2>3, ChangedRow
  <2>. QED BY <2>4
<1>. QED BY <1>1, <1>2 DEF Fail, GiveUp

\* A job that is done leaves the table.
LEMMA FinishStep ==
  ASSUME BulkAssumption, NEW I, TableOK(jobs, I), NEW j \in DOMAIN jobs, Finish(j)
  PROVE  TableOK(jobs', I) /\ Carried(jobs, jobs')
<1>1. TableOK(RemoveAt(jobs, j), I) /\ Carried(jobs, RemoveAt(jobs, j))
  BY RemovedRow DEF BulkAssumption
<1>. QED BY <1>1 DEF Finish

\* A table is carried as it is.
LEMMA CarriedSame == ASSUME NEW q PROVE Carried(q, q)
<1>. DEFINE f == [k \in DOMAIN q |-> k]
<1>1. f \in [DOMAIN q -> DOMAIN q] /\ \A k \in DOMAIN q : f[k] = k
  OBVIOUS
<1>. HIDE DEF f
<1>. QED BY <1>1 DEF Carried

\* The worker takes a row with what it says, or fails one that was abandoned too often.
LEMMA ClaimStep ==
  ASSUME BulkAssumption, NEW I, TableOK(jobs, I), Claim
  PROVE  /\ TableOK(jobs', I) /\ Carried(jobs, jobs') /\ Held(jobs', worker')
         /\ \/ worker' = Idle
            \/ \E j \in DOMAIN jobs' : worker' = [at |-> "start", job |-> j, kind |-> jobs'[j].kind,
                                                  params |-> jobs'[j].params]
<1>. DEFINE j == Min(Claimable)
<1>1. jobs \in Seq(Rows(I)) /\ Len(jobs) \in Nat /\ DOMAIN jobs = 1 .. Len(jobs)
  BY ElementOf DEF TableOK
<1>2. j \in DOMAIN jobs /\ jobs[j] \in Rows(I)
  <2>1. Claimable \subseteq DOMAIN jobs /\ Claimable \subseteq Int /\ Claimable # {}
    <3>1. Claimable \subseteq DOMAIN jobs /\ DOMAIN jobs \subseteq Int
      BY <1>1 DEF Claimable
    <3>2. Claimable # {}
      BY DEF Claim
    <3>. QED BY <3>1, <3>2
  <2>2. IsFiniteSet(Claimable)
    <3>1. IsFiniteSet(1 .. Len(jobs))
      BY <1>1, FS_Interval
    <3>. QED BY <1>1, <2>1, <3>1, FS_Subset
  <2>3. Min(Claimable) \in Claimable
    BY <2>1, <2>2, MinOf
  <2>. QED BY <1>1, <2>1, <2>3, ElementOf
<1>. HIDE DEF j
<1>3. CASE jobs[j].attempts >= MaxAttempts
  <2>1. jobs' = RemoveAt(jobs, j) /\ worker' = Idle
    BY <1>3 DEF Claim, GiveUp, j
  <2>2. TableOK(RemoveAt(jobs, j), I) /\ Carried(jobs, RemoveAt(jobs, j))
    BY <1>2, RemovedRow DEF BulkAssumption
  <2>3. jobs' \in Seq(Rows(I)) /\ Len(jobs') \in Nat /\ DOMAIN jobs' = 1 .. Len(jobs')
    BY <2>1, <2>2, ElementOf DEF TableOK
  <2>. QED BY <2>1, <2>2, <2>3, HeldByNone
<1>4. CASE ~(jobs[j].attempts >= MaxAttempts)
  <2>. DEFINE r == [jobs[j] EXCEPT !.status = "running", !.due = FALSE, !.attempts = @ + 1]
              w == [at |-> "start", job |-> j, kind |-> jobs[j].kind, params |-> jobs[j].params]
  <2>1. jobs' = [jobs EXCEPT ![j] = r] /\ worker' = w
    <3>1. jobs' = [jobs EXCEPT ![j].status = "running", ![j].due = FALSE, ![j].attempts = @ + 1] /\ worker' = w
      BY <1>4 DEF Claim, j
    <3>. QED BY <3>1
  <2>2. r.kind = jobs[j].kind /\ r.params = jobs[j].params /\ r.status = "running" /\ ~r.due
    BY <1>2 DEF Rows
  <2>3. r \in Rows(I)
    <3>1. jobs[j].attempts \in 0 .. MaxAttempts /\ MaxAttempts \in Nat
      BY <1>2 DEF Rows, BulkAssumption
    <3>2. jobs[j].attempts + 1 \in 0 .. MaxAttempts
      BY <1>4, <3>1
    <3>. QED BY <1>2, <3>2 DEF Rows
  <2>4. w.at = "start" /\ w.job = j
    OBVIOUS
  <2>. HIDE DEF r
  <2>5. /\ TableOK(jobs', I) /\ Carried(jobs, jobs') /\ Len(jobs') = Len(jobs) /\ DOMAIN jobs' = DOMAIN jobs
        /\ jobs'[j] = r
    <3>1. PICK t : t = [jobs EXCEPT ![j] = r]
      OBVIOUS
    <3>2. TableOK(t, I) /\ Carried(jobs, t) /\ Changed(jobs, j, r, t)
      BY <1>2, <2>2, <2>3, <3>1, ChangedRow, ChangedRowAt
    <3>3. jobs' = t
      BY <2>1, <3>1
    <3>. QED BY <3>2, <3>3 DEF Changed
  <2>6. Held(jobs', w)
    <3>1. j \in 0 .. Len(jobs')
      BY <1>1, <1>2, <2>5
    <3>. HIDE DEF w
    <3>. QED BY <2>2, <2>4, <2>5, <3>1 DEF Held
  <2>7. w = [at |-> "start", job |-> j, kind |-> jobs'[j].kind, params |-> jobs'[j].params]
    BY <2>2, <2>5
  <2>. HIDE DEF w
  <2>. QED BY <1>2, <2>1, <2>5, <2>6, <2>7
<1>. QED BY <1>3, <1>4

\* A row comes due that is not the one in hand.
LEMMA DueStep ==
  ASSUME BulkAssumption, NEW I, TableOK(jobs, I), Held(jobs, worker), NEW j, ComesDue(j)
  PROVE  /\ TableOK(jobs', I) /\ Carried(jobs, jobs') /\ Held(jobs', worker') /\ worker' = worker
         /\ DOMAIN jobs' = DOMAIN jobs /\ (worker.job \in DOMAIN jobs => jobs'[worker.job] = jobs[worker.job])
<1>. DEFINE r == [jobs[j] EXCEPT !.due = TRUE]
<1>1. jobs \in Seq(Rows(I)) /\ Len(jobs) \in Nat /\ DOMAIN jobs = 1 .. Len(jobs)
  BY ElementOf DEF TableOK
<1>2. j \in DOMAIN jobs /\ jobs[j] \in Rows(I) /\ j # worker.job /\ worker' = worker
  BY <1>1, ElementOf DEF ComesDue
<1>3. r \in Rows(I) /\ r.kind = jobs[j].kind /\ r.params = jobs[j].params
  BY <1>2 DEF Rows
<1>4. jobs' = [jobs EXCEPT ![j] = r]
  BY DEF ComesDue
<1>. HIDE DEF r
<1>5. /\ TableOK(jobs', I) /\ Carried(jobs, jobs') /\ Len(jobs') = Len(jobs) /\ DOMAIN jobs' = DOMAIN jobs
      /\ \A k \in DOMAIN jobs : k # j => jobs'[k] = jobs[k]
  <2>1. PICK t : t = [jobs EXCEPT ![j] = r]
    OBVIOUS
  <2>2. TableOK(t, I) /\ Carried(jobs, t) /\ Changed(jobs, j, r, t)
    BY <1>2, <1>3, <2>1, ChangedRow, ChangedRowAt
  <2>3. jobs' = t
    BY <1>4, <2>1
  <2>. QED BY <2>2, <2>3 DEF Changed
<1>6. worker # Idle => worker.at # "idle"
  BY DEF Held
<1>7. Held(jobs', worker)
  <2>1. Len(jobs) <= Len(jobs')
    BY <1>1, <1>5
  <2>. QED BY <1>1, <1>2, <1>5, <1>6, <2>1, HeldOn
<1>. QED BY <1>2, <1>5, <1>7

\* A row is queued, or found.
LEMMA EnqueuedRow ==
  ASSUME BulkAssumption, NEW I, NEW q, TableOK(q, I), Len(q) < MaxJobs,
         NEW kind \in Kinds, NEW params \in ParamsOf(I), NEW self, NEW t, t = Enqueued(q, kind, params, self)
  PROVE  TableOK(t, I) /\ Grown(q, kind, params, self, t)
<1>1. CASE Blocked(q, kind, params, self)
  <2>1. t = q /\ Len(q) \in Nat
    BY <1>1, ElementOf DEF Enqueued, TableOK
  <2>. QED BY <2>1 DEF Grown, Extended
<1>2. CASE ~Blocked(q, kind, params, self)
  <2>1. t = Append(q, Row(kind, params))
    BY <1>2 DEF Enqueued
  <2>. QED BY <1>2, <2>1, QueuedRow DEF BulkAssumption
<1>. QED BY <1>1, <1>2

\* The row in hand stays in hand while the table grows.
LEMMA HeldGrown ==
  ASSUME NEW I, NEW q, TableOK(q, I), NEW t, TableOK(t, I), Extended(q, t), NEW v, NEW w, Held(q, v), w.job = v.job, w # Idle => w.at # "idle"
  PROVE  Held(t, w)
<1>1. Len(q) \in Nat /\ Len(t) \in Nat /\ DOMAIN q = 1 .. Len(q) /\ DOMAIN t = 1 .. Len(t)
  BY ElementOf DEF TableOK
<1>2. Len(q) <= Len(t) /\ (v.job \in DOMAIN q => t[v.job] = q[v.job])
  BY DEF Extended
<1>. QED BY <1>1, <1>2, HeldOn

\* ... and while the table stays.
LEMMA HeldSame ==
  ASSUME NEW q, NEW v, NEW w, Held(q, v), w.job = v.job, w # Idle => w.at # "idle"
  PROVE  Held(q, w)
  BY DEF Held

-----------------------------------------------------------------------------
(* The weekly refreshes.                                                   *)

Items == Amcs \cup Companies

Starts(I) == [at : {"start"}, job : Nat, kind : Kinds, params : ParamsOf(I)]

\* A job at work; its size is that of a set of items.
Works == [at : {"fetch", "finish"}, job : Nat, kind : Kinds, params : ParamsOf(Items),
          todo : SUBSET Items, size : {Cardinality(S) : S \in SUBSET Items}, failed : SUBSET Items,
          consecutive : Nat, aborted : BOOLEAN]

\* A chain of expense-ratio jobs owes nothing else than what it says it does.
Owes(ids, failed, rates, w) == \A a \in Amcs : rates[a] = w \/ a \in ids \/ a \in failed

Leftover(kind, params, rates, w) ==
  kind = "ter_refresh" /\ params # NoParams => Owes(params.ids, params.failed, rates, w)

Leftovers(q, rates, w) == \A j \in DOMAIN q : Leftover(q[j].kind, q[j].params, rates, w)

\* What the worker works on is the row it took.
InHand(q, w) ==
  w # Idle => w.job \in DOMAIN q /\ q[w.job].kind = w.kind /\ q[w.job].params = w.params

Working(w, rates, wk) ==
  w \in Works /\ w.kind = "ter_refresh" => Owes(w.todo, w.failed, rates, wk)

WorkerOK(w) == w = Idle \/ w \in Starts(Items) \/ w \in Works

StoresOK ==
  /\ week \in 1 .. MaxWeek /\ matched \in 0 .. week
  /\ ter \in [Amcs -> 0 .. week] /\ retrieved \in [Companies -> 0 .. week]
  /\ recent \in BOOLEAN

\* The inductive invariant of the weekly refreshes.
RefInv ==
  /\ QueueOK(Items) /\ StoresOK
  /\ WorkerOK(worker) /\ InHand(jobs, worker)
  /\ Leftovers(jobs, ter, week) /\ Working(worker, ter, week)

\* Rows that are carried owe what they owed.
LEMMA LeftoversCarried ==
  ASSUME NEW q, NEW t, Carried(q, t), NEW rates, NEW w, Leftovers(q, rates, w)
  PROVE  Leftovers(t, rates, w)
<1>1. PICK f \in [DOMAIN t -> DOMAIN q] : \A k \in DOMAIN t : t[k].kind = q[f[k]].kind /\ t[k].params = q[f[k]].params
  BY DEF Carried
<1>2. ASSUME NEW k \in DOMAIN t PROVE Leftover(t[k].kind, t[k].params, rates, w)
  <2>1. f[k] \in DOMAIN q /\ t[k].kind = q[f[k]].kind /\ t[k].params = q[f[k]].params
    BY <1>1
  <2>2. Leftover(q[f[k]].kind, q[f[k]].params, rates, w)
    BY <2>1 DEF Leftovers
  <2>. QED BY <2>1, <2>2
<1>. QED BY <1>2 DEF Leftovers

\* A new row that owes nothing else leaves a table that owes nothing else.
LEMMA LeftoversGrown ==
  ASSUME NEW q, NEW t, NEW kind, NEW params, NEW self, Grown(q, kind, params, self, t), NEW rates, NEW w,
         Leftovers(q, rates, w), Leftover(kind, params, rates, w)
  PROVE  Leftovers(t, rates, w)
<1>1. ASSUME NEW k \in DOMAIN t PROVE Leftover(t[k].kind, t[k].params, rates, w)
  <2>1. CASE k \in DOMAIN q
    <3>1. t[k] = q[k] /\ Leftover(q[k].kind, q[k].params, rates, w)
      BY <2>1 DEF Leftovers, Grown, Extended
    <3>. QED BY <3>1
  <2>2. CASE k \notin DOMAIN q
    <3>1. t[k].kind = kind /\ t[k].params = params
      BY <2>2 DEF Grown
    <3>. QED BY <3>1
  <2>. QED BY <2>1, <2>2
<1>. QED BY <1>1 DEF Leftovers

\* The worker puts its job down; the rows that are left are rows that were there.
LEMMA SettleStep ==
  ASSUME RefInv, worker' = Idle, TableOK(jobs', Items), Carried(jobs, jobs'),
         faults' \in 0 .. MaxFaults, UNCHANGED <<week, data, recent>>
  PROVE  RefInv'
<1>1. Held(jobs', worker')
  <2>1. jobs' \in Seq(Rows(Items))
    BY DEF TableOK
  <2>2. Len(jobs') \in Nat /\ DOMAIN jobs' = 1 .. Len(jobs')
    BY <2>1, ElementOf
  <2>. QED BY <2>2, HeldByNone
<1>2. QueueOK(Items)' /\ StoresOK'
  BY <1>1 DEF RefInv, QueueOK, StoresOK, data
<1>3. WorkerOK(worker') /\ InHand(jobs', worker')
  BY DEF WorkerOK, InHand
<1>4. Leftovers(jobs', ter', week')
  <2>1. Leftovers(jobs, ter, week) /\ ter' = ter /\ week' = week
    BY DEF RefInv, data
  <2>. QED BY <2>1, LeftoversCarried
<1>5. Working(worker', ter', week')
  BY DEF Working, Works, Idle
<1>. QED BY <1>2, <1>3, <1>4, <1>5 DEF RefInv

\* A job goes on; the table grows at most.
LEMMA GoesOnStep ==
  ASSUME RefInv, worker' \in Works, worker'.job = worker.job, worker'.kind = worker.kind,
         worker'.params = worker.params, worker # Idle,
         TableOK(jobs', Items), NEW kind, NEW params, NEW self, Grown(jobs, kind, params, self, jobs'),
         Leftover(kind, params, ter', week'), Leftovers(jobs, ter', week'), Working(worker', ter', week'),
         faults' \in 0 .. MaxFaults, StoresOK'
  PROVE  RefInv'
<1>1. worker' # Idle => worker'.at # "idle"
  BY DEF Works
<1>2. Held(jobs', worker')
  <2>1. TableOK(jobs, Items) /\ Held(jobs, worker)
    BY DEF RefInv, QueueOK
  <2>. QED BY <1>1, <2>1, HeldGrown DEF Grown
<1>3. QueueOK(Items)'
  BY <1>2 DEF QueueOK
<1>4. InHand(jobs', worker')
  <2>1. worker.job \in DOMAIN jobs /\ jobs[worker.job].kind = worker.kind /\ jobs[worker.job].params = worker.params
    BY DEF RefInv, InHand
  <2>2. worker.job \in DOMAIN jobs' /\ jobs'[worker.job] = jobs[worker.job]
    BY <2>1 DEF Grown, Extended
  <2>. QED BY <2>1, <2>2 DEF InHand
<1>5. Leftovers(jobs', ter', week')
  BY LeftoversGrown
<1>. QED BY <1>3, <1>4, <1>5 DEF RefInv, WorkerOK

\* A table that stays as it is has not grown by a row that matters.
LEMMA GrownSame ==
  ASSUME NEW I, NEW q, TableOK(q, I), NEW kind, NEW params, NEW self
  PROVE  Grown(q, kind, params, self, q)
<1>1. Len(q) \in Nat
  BY ElementOf DEF TableOK
<1>. QED BY <1>1 DEF Grown, Extended

\* What is at work is not idle, and has its row.
LEMMA AtStart ==
  ASSUME RefInv, worker.at = "start"
  PROVE  worker \in Starts(Items) /\ worker # Idle
  BY DEF RefInv, WorkerOK, Works, Idle

\* What fetches or finishes has the locals of a job at work.
LEMMA AtWork ==
  ASSUME RefInv, worker.at \in {"fetch", "finish"}
  PROVE  worker \in Works /\ worker # Idle
  BY DEF RefInv, WorkerOK, Starts, Idle

\* The job under way has its row in the table.
LEMMA HasRow ==
  ASSUME RefInv, worker # Idle
  PROVE  /\ TableOK(jobs, Items) /\ Running \in DOMAIN jobs
         /\ jobs[Running].kind = worker.kind /\ jobs[Running].params = worker.params
  BY DEF RefInv, QueueOK, InHand, Running

\* A fault is counted within its bound.
LEMMA FaultCounted ==
  ASSUME BulkAssumption, faults \in 0 .. MaxFaults, Fault
  PROVE  faults' \in 0 .. MaxFaults
  BY DEF Fault, BulkAssumption

\* A job that fails is put down.
LEMMA EndsStep ==
  ASSUME BulkAssumption, RefInv, worker # Idle, Fault, NEW code, Ends(code), UNCHANGED <<week, data, recent>>
  PROVE  RefInv'
<1>1. TableOK(jobs, Items) /\ Running \in DOMAIN jobs
  BY HasRow
<1>2. TableOK(jobs', Items) /\ Carried(jobs, jobs')
  BY <1>1, FailStep DEF Ends
<1>3. faults' \in 0 .. MaxFaults
  BY FaultCounted DEF RefInv, QueueOK
<1>. QED BY <1>2, <1>3, SettleStep DEF Ends

\* A job begins: it owes what it takes over.
LEMMA BeginsStep ==
  ASSUME RefInv, worker.at = "start", NEW all \in SUBSET Items, Begins(all),
         worker.kind = "ter_refresh" => all = Amcs, UNCHANGED <<jobs, week, data, recent, faults>>
  PROVE  RefInv'
<1>0. worker \in Starts(Items) /\ worker # Idle
  BY AtStart
<1>. DEFINE takes == Takes(all)
<1>1. takes \in SUBSET Items
  BY <1>0 DEF Takes, Starts, ParamsOf
<1>2. worker' = [at |-> "fetch", job |-> worker.job, kind |-> worker.kind, params |-> worker.params, todo |-> takes,
                 size |-> Cardinality(takes), failed |-> worker.params.failed, consecutive |-> 0, aborted |-> FALSE]
  BY DEF Begins, Running
<1>3. Cardinality(takes) \in {Cardinality(S) : S \in SUBSET Items}
  BY <1>1
<1>4. worker' \in Works
  <2>1. worker.job \in Nat /\ worker.kind \in Kinds /\ worker.params \in ParamsOf(Items) /\ worker.params.failed \in SUBSET Items
    BY <1>0 DEF Starts, ParamsOf
  <2>. HIDE DEF takes
  <2>2. [at |-> "fetch", job |-> worker.job, kind |-> worker.kind, params |-> worker.params, todo |-> takes,
         size |-> Cardinality(takes), failed |-> worker.params.failed, consecutive |-> 0, aborted |-> FALSE] \in Works
    BY <1>1, <1>3, <2>1 DEF Works
  <2>. QED BY <1>2, <2>2
<1>5. /\ worker'.job = worker.job /\ worker'.kind = worker.kind /\ worker'.params = worker.params
      /\ worker'.todo = takes /\ worker'.failed = worker.params.failed
  BY <1>2
<1>6. TableOK(jobs, Items) /\ Leftovers(jobs, ter, week) /\ jobs' = jobs /\ ter' = ter /\ week' = week
  BY DEF RefInv, QueueOK, data
<1>7. Working(worker', ter', week')
  <2>1. SUFFICES ASSUME worker.kind = "ter_refresh" PROVE Owes(takes, worker.params.failed, ter, week)
    BY <1>5, <1>6 DEF Working
  <2>2. CASE worker.params = NoParams
    <3>1. takes = Amcs
      BY <2>1, <2>2 DEF Takes, First
    <3>. QED BY <3>1 DEF Owes
  <2>3. CASE worker.params # NoParams
    <3>1. takes = worker.params.ids
      BY <2>3 DEF Takes, First
    <3>2. Running \in DOMAIN jobs /\ jobs[Running].kind = worker.kind /\ jobs[Running].params = worker.params
      BY <1>0, HasRow
    <3>3. Leftover(worker.kind, worker.params, ter, week)
      BY <1>6, <3>2 DEF Leftovers
    <3>. HIDE DEF takes
    <3>. QED BY <2>1, <2>3, <3>1, <3>3 DEF Leftover
  <2>. QED BY <2>2, <2>3
<1>8. Grown(jobs, "none", NoParams, 0, jobs')
  BY <1>6, GrownSame
<1>9. Leftover("none", NoParams, ter', week')
  BY DEF Leftover
<1>10. StoresOK' /\ faults' \in 0 .. MaxFaults
  BY DEF RefInv, StoresOK, QueueOK, data
<1>. HIDE DEF takes
<1>. QED BY <1>0, <1>4, <1>5, <1>6, <1>7, <1>8, <1>9, <1>10, GoesOnStep

\* A job takes up an item: fewer are left, and what it owed is done or reported.
LEMMA WorkStep ==
  ASSUME RefInv, worker.at = "fetch", worker' \in Works, worker'.job = worker.job, worker'.kind = worker.kind,
         worker'.params = worker.params, UNCHANGED jobs,
         Working(worker', ter', week'), Leftovers(jobs, ter', week'), faults' \in 0 .. MaxFaults, StoresOK'
  PROVE  RefInv'
<1>0. worker # Idle
  BY AtWork
<1>1. TableOK(jobs, Items) /\ TableOK(jobs', Items)
  BY DEF RefInv, QueueOK
<1>2. Grown(jobs, "none", NoParams, 0, jobs')
  BY <1>1, GrownSame
<1>3. Leftover("none", NoParams, ter', week')
  BY DEF Leftover
<1>. QED BY <1>0, <1>1, <1>2, <1>3, GoesOnStep

\* Ratios of this week take nothing from what the rows owe.
LEMMA LeftoversRefreshed ==
  ASSUME NEW rates, NEW w, NEW x, NEW new, new = [rates EXCEPT ![x] = w], NEW q,
         rates \in [Amcs -> Nat], Leftovers(q, rates, w)
  PROVE  Leftovers(q, new, w)
<1>1. \A a \in Amcs : new[a] = IF a = x THEN w ELSE rates[a]
  OBVIOUS
<1>2. \A j \in DOMAIN q : Leftover(q[j].kind, q[j].params, new, w)
  BY <1>1 DEF Leftovers, Leftover, Owes
<1>. QED BY <1>2 DEF Leftovers

\* The calendar moves on between the chains.
LEMMA CalendarStep ==
  ASSUME RefreshAssumption, RefInv, NextWeek \/ HoursPass
  PROVE  RefInv'
<1>1. CASE NextWeek
  <2>1. jobs = <<>> /\ jobs' = jobs /\ worker' = worker /\ week' = week + 1 /\ week < MaxWeek /\ faults' = faults
        /\ ter' = ter /\ matched' = matched /\ retrieved' = retrieved /\ recent' = recent
    BY <1>1 DEF NextWeek, queueVars, data
  <2>2. worker = Idle
    BY <2>1 DEF RefInv, InHand
  <2>3. QueueOK(Items)' /\ WorkerOK(worker') /\ InHand(jobs', worker')
    BY <2>1, <2>2 DEF RefInv, QueueOK, WorkerOK, InHand
  <2>4. StoresOK'
    <3>1. week \in 1 .. MaxWeek /\ MaxWeek \in Nat /\ matched \in 0 .. week
          /\ ter \in [Amcs -> 0 .. week] /\ retrieved \in [Companies -> 0 .. week] /\ recent \in BOOLEAN
      BY DEF RefInv, StoresOK, RefreshAssumption
    <3>2. week + 1 \in 1 .. MaxWeek /\ 0 .. week \subseteq 0 .. week + 1
      BY <2>1, <3>1
    <3>3. matched \in 0 .. week + 1 /\ ter \in [Amcs -> 0 .. week + 1] /\ retrieved \in [Companies -> 0 .. week + 1]
      BY <3>1, <3>2
    <3>. QED BY <2>1, <3>1, <3>2, <3>3 DEF StoresOK
  <2>5. Leftovers(jobs', ter', week') /\ Working(worker', ter', week')
    BY <2>1, <2>2 DEF Leftovers, Working, Works, Idle
  <2>. QED BY <2>3, <2>4, <2>5 DEF RefInv
<1>2. CASE HoursPass
  <2>1. jobs' = jobs /\ worker' = worker /\ week' = week /\ faults' = faults
        /\ ter' = ter /\ matched' = matched /\ retrieved' = retrieved /\ recent' \in BOOLEAN
    BY <1>2 DEF HoursPass, queueVars, data
  <2>. QED BY <2>1 DEF RefInv, QueueOK, StoresOK, WorkerOK, InHand
<1>. QED BY <1>1, <1>2

\* A row of the scheduler takes everything, and owes nothing.
LEMMA ScheduledStep ==
  ASSUME BulkAssumption, RefInv, HasRoom, NEW kind \in Kinds,
         jobs' = Enqueued(jobs, kind, NoParams, 0), worker' = worker, faults' = faults,
         UNCHANGED <<week, data>>, recent' \in BOOLEAN
  PROVE  RefInv'
<1>1. NoParams \in ParamsOf(Items)
  BY DEF NoParams, Params, ParamsOf
<1>2. TableOK(jobs', Items) /\ Grown(jobs, kind, NoParams, 0, jobs')
  <2>1. TableOK(jobs, Items) /\ Len(jobs) < MaxJobs
    BY DEF RefInv, QueueOK, HasRoom
  <2>. QED BY <1>1, <2>1, EnqueuedRow
<1>3. QueueOK(Items)'
  <2>1. TableOK(jobs, Items) /\ Held(jobs, worker) /\ worker'.job = worker.job /\ (worker' # Idle => worker'.at # "idle")
    BY DEF RefInv, QueueOK, Held
  <2>2. Held(jobs', worker')
    BY <1>2, <2>1, HeldGrown DEF Grown
  <2>. QED BY <1>2, <2>2 DEF RefInv, QueueOK
<1>4. InHand(jobs', worker')
  BY <1>2 DEF RefInv, InHand, Grown, Extended
<1>5. Leftovers(jobs', ter', week')
  <2>1. Leftovers(jobs, ter', week') /\ Leftover(kind, NoParams, ter', week')
    BY DEF RefInv, data, Leftover
  <2>. QED BY <1>2, <2>1, LeftoversGrown
<1>. QED BY <1>3, <1>4, <1>5 DEF RefInv, StoresOK, WorkerOK, Working, data

\* The scheduler queues the first job of a chain.
LEMMA SchedulerStep ==
  ASSUME BulkAssumption, RefInv, MaybeTer \/ MaybeFundamentals
  PROVE  RefInv'
<1>1. CASE MaybeTer
  <2>1. "ter_refresh" \in Kinds /\ recent' \in BOOLEAN
    BY <1>1 DEF Kinds, MaybeTer, RefInv, StoresOK
  <2>. QED BY <1>1, <2>1, ScheduledStep DEF MaybeTer
<1>2. CASE MaybeFundamentals
  <2>1. "fundamentals_refresh" \in Kinds
    BY DEF Kinds
  <2>. QED BY <1>2, <2>1, ScheduledStep DEF MaybeFundamentals
<1>. QED BY <1>1, <1>2

\* A job begins.
LEMMA StartStep ==
  ASSUME BulkAssumption, RefInv, TerStart \/ FundStart \/ TerListFails
  PROVE  RefInv'
<1>1. CASE TerStart
  <2>1. Amcs \in SUBSET Items
    BY DEF Items
  <2>. QED BY <1>1, <2>1, BeginsStep DEF TerStart, Processing
<1>2. CASE FundStart
  <2>1. Universe \in SUBSET Items /\ worker.kind # "ter_refresh"
    BY <1>2 DEF Items, Universe, FundStart, Processing
  <2>. QED BY <1>2, <2>1, BeginsStep DEF FundStart, Processing
<1>3. CASE TerListFails
  <2>1. worker # Idle
    BY <1>3, AtStart DEF TerListFails, Processing
  <2>. QED BY <1>3, <2>1, EndsStep DEF TerListFails
<1>. QED BY <1>1, <1>2, <1>3

\* A fund house is fetched.
LEMMA TerFetchStep ==
  ASSUME BulkAssumption, RefInv, TerFetch
  PROVE  RefInv'
<1>1. worker.at = "fetch" /\ worker.todo # {} /\ worker.kind = "ter_refresh"
      /\ ter' = [ter EXCEPT ![Current] = week] /\ worker' = [worker EXCEPT !.todo = @ \ {Current}]
      /\ jobs' = jobs /\ week' = week /\ matched' = matched /\ retrieved' = retrieved /\ recent' = recent
      /\ faults' = faults
  BY DEF TerFetch, Processing
<1>2. worker \in Works
  BY <1>1, AtWork
<1>. DEFINE x == Current
<1>3. x \in worker.todo
  BY <1>1 DEF Current
<1>. HIDE DEF x
<1>4. worker' = [worker EXCEPT !.todo = worker.todo \ {x}] /\ ter' = [ter EXCEPT ![x] = week]
  BY <1>1 DEF x
<1>5. worker' \in Works
  BY <1>2, <1>4 DEF Works
<1>6. /\ worker'.job = worker.job /\ worker'.kind = worker.kind /\ worker'.params = worker.params
      /\ worker'.todo = worker.todo \ {x} /\ worker'.failed = worker.failed
  BY <1>2, <1>4 DEF Works
<1>7. week \in 1 .. MaxWeek /\ ter \in [Amcs -> 0 .. week] /\ Leftovers(jobs, ter, week) /\ Working(worker, ter, week)
  BY DEF RefInv, StoresOK
<1>8. \A a \in Amcs : ter'[a] = IF a = x THEN week ELSE ter[a]
  BY <1>4, <1>7
<1>9. StoresOK'
  <2>1. week \in 0 .. week
    BY <1>7
  <2>2. ter' \in [Amcs -> 0 .. week]
    BY <1>4, <1>7, <2>1
  <2>. QED BY <1>1, <2>2 DEF RefInv, StoresOK
<1>10. Working(worker', ter', week')
  <2>1. Owes(worker.todo, worker.failed, ter, week)
    BY <1>1, <1>2, <1>7 DEF Working
  <2>2. Owes(worker.todo \ {x}, worker.failed, ter', week)
    BY <1>8, <2>1 DEF Owes
  <2>. QED BY <1>1, <1>6, <2>2 DEF Working
<1>11. Leftovers(jobs, ter', week')
  <2>1. ter \in [Amcs -> Nat]
    BY <1>7
  <2>2. Leftovers(jobs, ter', week)
    BY <1>4, <1>7, <2>1, LeftoversRefreshed
  <2>. QED BY <1>1, <2>2
<1>12. faults' \in 0 .. MaxFaults
  BY <1>1 DEF RefInv, QueueOK
<1>. QED BY <1>1, <1>5, <1>6, <1>9, <1>10, <1>11, <1>12, WorkStep

\* An item fails and is reported.
LEMMA FetchFailsStep ==
  ASSUME BulkAssumption, RefInv, TerFetchFails \/ FundFetchFails
  PROVE  RefInv'
<1>1. worker.at = "fetch" /\ worker.todo # {} /\ Fault
      /\ jobs' = jobs /\ week' = week /\ ter' = ter /\ matched' = matched /\ retrieved' = retrieved /\ recent' = recent
  BY DEF TerFetchFails, FundFetchFails, Processing, data
<1>2. worker \in Works
  BY <1>1, AtWork
<1>. DEFINE x == Current
<1>3. x \in worker.todo
  BY <1>1 DEF Current
<1>. HIDE DEF x
<1>4. worker.todo \in SUBSET Items /\ worker.failed \in SUBSET Items /\ x \in Items /\ worker.consecutive \in Nat
  BY <1>2, <1>3 DEF Works
<1>5. worker' \in Works /\ worker'.job = worker.job /\ worker'.kind = worker.kind /\ worker'.params = worker.params
      /\ worker'.todo = worker.todo \ {x} /\ worker'.failed = worker.failed \cup {x}
  <2>1. CASE TerFetchFails
    <3>1. worker' = [worker EXCEPT !.todo = worker.todo \ {x}, !.failed = worker.failed \cup {x}]
      BY <2>1 DEF TerFetchFails, x
    <3>. QED BY <1>2, <1>4, <3>1 DEF Works
  <2>2. CASE FundFetchFails
    <3>. DEFINE b == worker.consecutive + 1 >= MaxConsecutive
    <3>1. b \in BOOLEAN
      OBVIOUS
    <3>. HIDE DEF b
    <3>2. worker' = [worker EXCEPT !.todo = worker.todo \ {x}, !.failed = worker.failed \cup {x},
                                   !.consecutive = worker.consecutive + 1, !.aborted = b]
      BY <2>2 DEF FundFetchFails, x, b
    <3>3. worker.consecutive + 1 \in Nat
      BY <1>4
    <3>. QED BY <1>2, <1>4, <3>1, <3>2, <3>3 DEF Works
  <2>. QED BY <2>1, <2>2
<1>6. Working(worker', ter', week')
  BY <1>1, <1>2, <1>5 DEF RefInv, Working, Owes
<1>7. Leftovers(jobs, ter', week') /\ StoresOK'
  BY <1>1 DEF RefInv, StoresOK
<1>8. faults' \in 0 .. MaxFaults
  BY <1>1, FaultCounted DEF RefInv, QueueOK
<1>. QED BY <1>1, <1>5, <1>6, <1>7, <1>8, WorkStep

\* The fundamentals of a company are fetched, which no expense ratio depends on.
LEMMA FundFetchStep ==
  ASSUME BulkAssumption, RefInv, FundFetch
  PROVE  RefInv'
<1>1. worker.at = "fetch" /\ worker.kind = "fundamentals_refresh"
      /\ retrieved' = [retrieved EXCEPT ![Current] = week]
      /\ worker' = [worker EXCEPT !.todo = @ \ {Current}, !.consecutive = 0]
      /\ jobs' = jobs /\ week' = week /\ ter' = ter /\ matched' = matched /\ recent' = recent /\ faults' = faults
  BY DEF FundFetch, Processing
<1>2. worker \in Works
  BY <1>1, AtWork
<1>. DEFINE x == Current
<1>3. worker' = [worker EXCEPT !.todo = worker.todo \ {x}, !.consecutive = 0] /\ retrieved' = [retrieved EXCEPT ![x] = week]
  BY <1>1
<1>. HIDE DEF x
<1>4. worker' \in Works /\ worker'.job = worker.job /\ worker'.kind = worker.kind /\ worker'.params = worker.params
  BY <1>2, <1>3 DEF Works
<1>5. StoresOK'
  <2>1. week \in 1 .. MaxWeek /\ retrieved \in [Companies -> 0 .. week]
    BY DEF RefInv, StoresOK
  <2>2. week \in 0 .. week
    BY <2>1
  <2>3. retrieved' \in [Companies -> 0 .. week]
    BY <1>3, <2>1, <2>2
  <2>. QED BY <1>1, <2>3 DEF RefInv, StoresOK
<1>6. Working(worker', ter', week')
  BY <1>1, <1>4 DEF Working
<1>7. Leftovers(jobs, ter', week') /\ faults' \in 0 .. MaxFaults
  BY <1>1 DEF RefInv, QueueOK
<1>. QED BY <1>1, <1>4, <1>5, <1>6, <1>7, WorkStep

\* The work of a job is over: nothing is left, or its run was stopped.
LEMMA LastStep ==
  ASSUME BulkAssumption, RefInv, TerMatch \/ FundLast
  PROVE  RefInv'
<1>1. worker.at = "fetch" /\ worker' = [worker EXCEPT !.at = "finish"]
      /\ jobs' = jobs /\ week' = week /\ ter' = ter /\ retrieved' = retrieved /\ recent' = recent /\ faults' = faults
  BY DEF TerMatch, FundLast, Processing, data
<1>2. worker \in Works
  BY <1>1, AtWork
<1>3. /\ worker' \in Works /\ worker'.job = worker.job /\ worker'.kind = worker.kind /\ worker'.params = worker.params
      /\ worker'.todo = worker.todo /\ worker'.failed = worker.failed
  BY <1>1, <1>2 DEF Works
<1>4. StoresOK'
  <2>1. matched' = week \/ matched' = matched
    BY DEF TerMatch, FundLast, data
  <2>2. week \in 1 .. MaxWeek /\ matched \in 0 .. week
    BY DEF RefInv, StoresOK
  <2>3. matched' \in 0 .. week
    BY <2>1, <2>2
  <2>. QED BY <1>1, <2>3 DEF RefInv, StoresOK
<1>5. Working(worker', ter', week')
  BY <1>1, <1>2, <1>3 DEF RefInv, Working
<1>6. Leftovers(jobs, ter', week') /\ faults' \in 0 .. MaxFaults
  BY <1>1 DEF RefInv, QueueOK
<1>. QED BY <1>1, <1>3, <1>4, <1>5, <1>6, WorkStep

\* The time of a job is over: the next one takes what is left, with what failed.
LEMMA BudgetStep ==
  ASSUME BulkAssumption, RefInv, TerBudget \/ FundBudget
  PROVE  RefInv'
<1>. DEFINE kind == worker.kind  rest == Rest(worker)
<1>1. worker.at = "fetch" /\ worker' = [worker EXCEPT !.at = "finish"] /\ HasRoom
      /\ jobs' = Enqueued(jobs, kind, rest, Running)
      /\ week' = week /\ ter' = ter /\ matched' = matched /\ retrieved' = retrieved /\ faults' = faults
  BY DEF TerBudget, FundBudget, Processing, data
<1>2. worker \in Works /\ worker # Idle
  BY <1>1, AtWork
<1>3. /\ worker' \in Works /\ worker'.job = worker.job /\ worker'.kind = worker.kind /\ worker'.params = worker.params
      /\ worker'.todo = worker.todo /\ worker'.failed = worker.failed
  BY <1>1, <1>2 DEF Works
<1>4. kind \in Kinds /\ rest \in ParamsOf(Items) /\ rest.ids = worker.todo /\ rest.failed = worker.failed
  BY <1>2 DEF Works, Rest, Params, ParamsOf
<1>5. StoresOK'
  <2>1. recent' \in BOOLEAN
    BY DEF RefInv, StoresOK, TerBudget, FundBudget
  <2>. QED BY <1>1, <2>1 DEF RefInv, StoresOK
<1>6. Working(worker', ter', week')
  BY <1>1, <1>2, <1>3 DEF RefInv, Working
<1>7. Leftovers(jobs, ter', week') /\ faults' \in 0 .. MaxFaults
  BY <1>1 DEF RefInv, QueueOK
<1>8. Leftover(kind, rest, ter', week')
  BY <1>3, <1>4, <1>6 DEF Leftover, Working
<1>. HIDE DEF kind, rest
<1>9. TableOK(jobs', Items) /\ Grown(jobs, kind, rest, Running, jobs')
  <2>1. TableOK(jobs, Items) /\ Len(jobs) < MaxJobs
    BY <1>1 DEF RefInv, QueueOK, HasRoom
  <2>. QED BY <1>1, <1>4, <2>1, EnqueuedRow
<1>. QED BY <1>2, <1>3, <1>5, <1>6, <1>7, <1>8, <1>9, GoesOnStep

\* The queue: a job is finished or fails, is taken, comes due, and the worker dies.
LEMMA RefQueueStep ==
  ASSUME BulkAssumption, RefInv, FinishJob \/ FundCrash \/ RClaim \/ RDies \/ \E j \in 1 .. MaxJobs : RComesDue(j)
  PROVE  RefInv'
<1>0. TableOK(jobs, Items) /\ Held(jobs, worker) /\ faults \in 0 .. MaxFaults
  BY DEF RefInv, QueueOK
<1>1. CASE FinishJob
  <2>1. worker # Idle
    BY <1>1, AtWork DEF FinishJob
  <2>2. Running \in DOMAIN jobs
    BY <2>1, HasRow
  <2>3. TableOK(jobs', Items) /\ Carried(jobs, jobs')
    BY <1>0, <1>1, <2>2, FinishStep DEF FinishJob
  <2>. QED BY <1>0, <1>1, <2>3, SettleStep DEF FinishJob
<1>2. CASE FundCrash
  <2>1. worker # Idle
    BY <1>2, AtWork DEF FundCrash, Processing
  <2>. QED BY <1>2, <2>1, EndsStep DEF FundCrash
<1>3. CASE RDies
  <2>1. faults' \in 0 .. MaxFaults
    BY <1>0, <1>3, FaultCounted DEF RDies
  <2>2. worker' = Idle /\ jobs' = jobs
    BY <1>3 DEF RDies, Dies
  <2>3. TableOK(jobs', Items) /\ Carried(jobs, jobs')
    BY <1>0, <2>2, CarriedSame
  <2>. QED BY <1>3, <2>1, <2>2, <2>3, SettleStep DEF RDies
<1>4. CASE RClaim
  <2>1. /\ TableOK(jobs', Items) /\ Carried(jobs, jobs') /\ Held(jobs', worker')
        /\ \/ worker' = Idle
           \/ \E j \in DOMAIN jobs' : worker' = [at |-> "start", job |-> j, kind |-> jobs'[j].kind,
                                                 params |-> jobs'[j].params]
    BY <1>0, <1>4, ClaimStep DEF RClaim
  <2>2. faults' = faults /\ UNCHANGED <<week, data, recent>>
    BY <1>4 DEF RClaim
  <2>3. CASE worker' = Idle
    BY <1>0, <2>1, <2>2, <2>3, SettleStep
  <2>4. CASE \E j \in DOMAIN jobs' : worker' = [at |-> "start", job |-> j, kind |-> jobs'[j].kind,
                                                params |-> jobs'[j].params]
    <3>1. PICK j \in DOMAIN jobs' : worker' = [at |-> "start", job |-> j, kind |-> jobs'[j].kind,
                                               params |-> jobs'[j].params]
      BY <2>4
    <3>2. j \in Nat /\ jobs'[j] \in Rows(Items)
      <4>1. jobs' \in Seq(Rows(Items))
        BY <2>1 DEF TableOK
      <4>2. Len(jobs') \in Nat /\ DOMAIN jobs' = 1 .. Len(jobs') /\ \A i \in DOMAIN jobs' : jobs'[i] \in Rows(Items)
        BY <4>1, ElementOf
      <4>. QED BY <4>2
    <3>3. worker' \in Starts(Items)
      BY <3>1, <3>2 DEF Starts, Rows
    <3>4. WorkerOK(worker') /\ InHand(jobs', worker')
      BY <3>1, <3>3 DEF WorkerOK, InHand
    <3>5. QueueOK(Items)' /\ StoresOK'
      BY <1>0, <2>1, <2>2 DEF RefInv, QueueOK, StoresOK, data
    <3>6. Leftovers(jobs', ter', week')
      <4>1. Leftovers(jobs, ter', week')
        BY <2>2 DEF RefInv, data
      <4>. QED BY <2>1, <4>1, LeftoversCarried
    <3>7. Working(worker', ter', week')
      BY <3>3 DEF Working, Works, Starts
    <3>. QED BY <3>4, <3>5, <3>6, <3>7 DEF RefInv
  <2>. QED BY <2>1, <2>3, <2>4
<1>5. ASSUME NEW j \in 1 .. MaxJobs, RComesDue(j) PROVE RefInv'
  <2>1. /\ TableOK(jobs', Items) /\ Carried(jobs, jobs') /\ Held(jobs', worker') /\ worker' = worker
        /\ DOMAIN jobs' = DOMAIN jobs /\ (worker.job \in DOMAIN jobs => jobs'[worker.job] = jobs[worker.job])
    BY <1>0, <1>5, DueStep DEF RComesDue
  <2>2. faults' = faults /\ UNCHANGED <<week, data, recent>>
    BY <1>5 DEF RComesDue
  <2>3. QueueOK(Items)' /\ StoresOK' /\ WorkerOK(worker')
    BY <1>0, <2>1, <2>2 DEF RefInv, QueueOK, StoresOK, WorkerOK, data
  <2>4. InHand(jobs', worker')
    BY <2>1 DEF RefInv, InHand
  <2>5. Leftovers(jobs', ter', week')
    <3>1. Leftovers(jobs, ter', week')
      BY <2>2 DEF RefInv, data
    <3>. QED BY <2>1, <3>1, LeftoversCarried
  <2>6. Working(worker', ter', week')
    BY <2>1, <2>2 DEF RefInv, Working, data
  <2>. QED BY <2>3, <2>4, <2>5, <2>6 DEF RefInv
<1>. QED BY <1>1, <1>2, <1>3, <1>4, <1>5

\* The empty queue and the empty stores satisfy the invariant.
LEMMA RefInvInit == ASSUME BulkAssumption, RefreshAssumption, RInit PROVE RefInv
<1>1. jobs = <<>> /\ worker = Idle /\ week = 1 /\ faults = 0
      /\ ter = [a \in Amcs |-> 0] /\ matched = 0 /\ retrieved = [c \in Companies |-> 0] /\ recent = FALSE
  BY DEF RInit
<1>2. TableOK(jobs, Items)
  <2>1. <<>> \in Seq(Rows(Items)) /\ Len(<<>>) = 0 /\ 0 <= MaxJobs
    BY DEF BulkAssumption
  <2>. QED BY <1>1, <2>1 DEF TableOK
<1>3. Held(jobs, worker)
  <2>1. Len(jobs) \in Nat /\ DOMAIN jobs = 1 .. Len(jobs)
    BY <1>1
  <2>. QED BY <1>1, <2>1, HeldByNone
<1>4. faults \in 0 .. MaxFaults
  BY <1>1 DEF BulkAssumption
<1>5. StoresOK
  <2>1. MaxWeek \in Nat /\ 1 \in 1 .. MaxWeek /\ 0 \in 0 .. 1
    BY DEF RefreshAssumption
  <2>2. ter \in [Amcs -> 0 .. 1] /\ retrieved \in [Companies -> 0 .. 1]
    BY <1>1, <2>1
  <2>. QED BY <1>1, <2>1, <2>2 DEF StoresOK
<1>6. WorkerOK(worker) /\ InHand(jobs, worker) /\ Working(worker, ter, week)
  BY <1>1 DEF WorkerOK, InHand, Working, Works, Idle
<1>7. Leftovers(jobs, ter, week)
  BY <1>1 DEF Leftovers
<1>. QED BY <1>2, <1>3, <1>4, <1>5, <1>6, <1>7 DEF RefInv, QueueOK

\* The invariant of the weekly refreshes holds in every behaviour.
THEOREM RefreshInvariance == RSpec => []RefInv
<1>1. RInit => RefInv
  BY RefInvInit, BulkAssumption, RefreshAssumption
<1>2. RefInv /\ [RNext]_rvars => RefInv'
  <2>. SUFFICES ASSUME RefInv, [RNext]_rvars PROVE RefInv'
    OBVIOUS
  <2>1. CASE UNCHANGED rvars
    BY <2>1 DEF rvars, RefInv, QueueOK, StoresOK
  <2>2. CASE RNext
    <3>1. CASE NextWeek \/ HoursPass
      BY <3>1, CalendarStep, RefreshAssumption
    <3>2. CASE MaybeTer \/ MaybeFundamentals
      BY <3>2, SchedulerStep, BulkAssumption
    <3>3. CASE TerStart \/ FundStart \/ TerListFails
      BY <3>3, StartStep, BulkAssumption
    <3>4. CASE TerFetch
      BY <3>4, TerFetchStep, BulkAssumption
    <3>5. CASE TerFetchFails \/ FundFetchFails
      BY <3>5, FetchFailsStep, BulkAssumption
    <3>6. CASE FundFetch
      BY <3>6, FundFetchStep, BulkAssumption
    <3>7. CASE TerMatch \/ FundLast
      BY <3>7, LastStep, BulkAssumption
    <3>8. CASE TerBudget \/ FundBudget
      BY <3>8, BudgetStep, BulkAssumption
    <3>9. CASE FinishJob \/ FundCrash \/ RClaim \/ RDies \/ \E j \in 1 .. MaxJobs : RComesDue(j)
      BY <3>9, RefQueueStep, BulkAssumption
    <3>. QED BY <2>2, <3>1, <3>2, <3>3, <3>4, <3>5, <3>6, <3>7, <3>8, <3>9 DEF RNext, RefreshStep
  <2>. QED BY <2>1, <2>2
<1>. QED BY <1>1, <1>2, PTL DEF RSpec

\* The job that ends a chain of expense-ratio jobs accounts for every fund house, whatever died, failed and
\* was taken up again on the way (costs/jobs.py, costs/ter_sync.py).
THEOREM FundHousesAccounted == RSpec => []TerAccounted
<1>1. RefInv => TerAccounted
  <2>. SUFFICES ASSUME RefInv PROVE TerAccounted
    OBVIOUS
  <2>1. RefTypeOK
    BY QueueTyped DEF RefInv, StoresOK, RefTypeOK
  <2>2. ASSUME Processing("ter_refresh", "finish"), worker.todo = {}
        PROVE  \A a \in Amcs : ter[a] = week \/ a \in worker.failed
    <3>1. worker.at = "finish" /\ worker.kind = "ter_refresh"
      BY <2>2 DEF Processing
    <3>2. worker \in Works
      BY <3>1, AtWork
    <3>3. Owes(worker.todo, worker.failed, ter, week)
      BY <3>1, <3>2 DEF RefInv, Working
    <3>. QED BY <2>2, <3>3 DEF Owes
  <2>. QED BY <2>1, <2>2 DEF TerAccounted
<1>. QED BY <1>1, RefreshInvariance, PTL

-----------------------------------------------------------------------------
(* The market chain.                                                       *)

\* The bulk backfills of a table.
BulkRows(q) == {j \in DOMAIN q : q[j].kind = "candle_backfill" /\ q[j].params = NoParams}

AtMostTwo(q) == \A i, j, k \in BulkRows(q) : i = j \/ j = k \/ i = k

\* Of the rows that are carried no more are bulk backfills than before.
LEMMA TwoCarried ==
  ASSUME NEW q, NEW t, Carried(q, t), AtMostTwo(q)
  PROVE  AtMostTwo(t)
<1>1. PICK f \in [DOMAIN t -> DOMAIN q] :
        /\ \A k \in DOMAIN t : t[k].kind = q[f[k]].kind /\ t[k].params = q[f[k]].params
        /\ \A k, m \in DOMAIN t : f[k] = f[m] => k = m
  BY DEF Carried
<1>2. \A k \in BulkRows(t) : k \in DOMAIN t /\ f[k] \in BulkRows(q)
  BY <1>1 DEF BulkRows
<1>3. \A i, j, k \in BulkRows(t) : f[i] = f[j] \/ f[j] = f[k] \/ f[i] = f[k]
  BY <1>2 DEF AtMostTwo
<1>. QED BY <1>1, <1>2, <1>3 DEF AtMostTwo

\* A bulk backfill is added when there is none but that of the job that adds it.
LEMMA TwoGrown ==
  ASSUME NEW q, NEW t, NEW kind, NEW params, NEW self, Grown(q, kind, params, self, t), AtMostTwo(q)
  PROVE  AtMostTwo(t)
<1>1. ASSUME NEW i \in BulkRows(t), NEW j \in BulkRows(t), NEW k \in BulkRows(t)
      PROVE  i = j \/ j = k \/ i = k
  <2>1. \A m \in BulkRows(t) : m \in DOMAIN q => m \in BulkRows(q)
    BY DEF BulkRows, Grown, Extended
  <2>2. \A m \in BulkRows(t) : m \notin DOMAIN q =>
          m = Len(q) + 1 /\ kind = "candle_backfill" /\ params = NoParams /\ ~Blocked(q, kind, params, self)
    BY DEF BulkRows, Grown
  <2>3. CASE i \in DOMAIN q /\ j \in DOMAIN q /\ k \in DOMAIN q
    BY <2>1, <2>3 DEF AtMostTwo
  <2>4. CASE ~(i \in DOMAIN q /\ j \in DOMAIN q /\ k \in DOMAIN q)
    <3>1. kind = "candle_backfill" /\ params = NoParams /\ ~Blocked(q, kind, params, self)
      BY <2>2, <2>4
    <3>2. \A m \in BulkRows(q) : m = self
      BY <3>1 DEF Blocked, OfKind, BulkRows
    <3>3. \A m \in BulkRows(t) : m = self \/ m = Len(q) + 1
      BY <2>1, <2>2, <3>2
    <3>. QED BY <3>3
  <2>. QED BY <2>3, <2>4
<1>. QED BY <1>1 DEF AtMostTwo

\* Of a set without three distinct elements there are at most two.
LEMMA TwoAreFew ==
  ASSUME NEW S, IsFiniteSet(S), \A i, j, k \in S : i = j \/ j = k \/ i = k
  PROVE  Cardinality(S) <= 2
<1>1. CASE S = {}
  BY <1>1, FS_EmptySet
<1>2. CASE S # {}
  <2>1. PICK a \in S : TRUE
    BY <1>2
  <2>2. IsFiniteSet(S \ {a}) /\ Cardinality(S \ {a}) = Cardinality(S) - 1
    BY <2>1, FS_RemoveElement
  <2>3. Cardinality(S) \in Nat
    BY FS_CardinalityType
  <2>4. CASE S \ {a} = {}
    <3>1. Cardinality(S \ {a}) = 0
      BY <2>4, FS_EmptySet
    <3>. QED BY <2>2, <2>3, <3>1
  <2>5. CASE S \ {a} # {}
    <3>1. PICK b \in S \ {a} : TRUE
      BY <2>5
    <3>2. S \ {a} = {b}
      BY <3>1
    <3>3. Cardinality(S \ {a}) = 1
      BY <3>2, FS_Singleton
    <3>. QED BY <2>2, <2>3, <3>3
  <2>. QED BY <2>4, <2>5
<1>. QED BY <1>1, <1>2

\* A backfill at work, with the clock it began with.
Fetches == [at : {"fetch", "finish"}, job : Nat, kind : {"candle_backfill"}, params : ParamsOf(Securities),
            todo : SUBSET Securities, clock : Nat \X BOOLEAN]
\* The signals are stored, or their job is done.
Signalled == [at : {"finish", "after"}, job : Nat, kind : {"signals_compute"}, params : ParamsOf(Securities)]
\* A chunk of forecasts, by their places in the shortlist.
Models == [at : {"model"}, job : Nat, kind : {"kronos_forecast"}, todo : SUBSET (DOMAIN Shortlist),
           done : Nat, size : {Cardinality(S) : S \in SUBSET (DOMAIN Shortlist)}]
Forecasted == [at : {"finish"}, job : Nat, kind : {"kronos_forecast"}, failing : BOOLEAN]

MarketWorkerOK(w) ==
  w = Idle \/ w \in Starts(Securities) \/ w \in Fetches \/ w \in Signalled \/ w \in Models \/ w \in Forecasted

\* The row of a job under way is there.
HasJob(q, w) == w # Idle /\ w.at # "after" => w.job \in DOMAIN q

\* A backfill began today or before; what the model is given has candles.
Tasks(w, today, newest) ==
  /\ w \in Fetches => w.clock[1] \in 1 .. today
  /\ w \in Models => \A i \in w.todo : newest[Shortlist[i]] > 0

MarketStores ==
  /\ date \in 1 .. MaxDate /\ closed \in BOOLEAN /\ session \in BOOLEAN
  /\ last \in [Securities -> Nat] /\ \A s \in Securities : last[s] <= Expected
  /\ fetched \in [Securities -> Nat] /\ \A s \in Securities : fetched[s] <= date
  /\ signals \subseteq Securities \X (1 .. Expected)
  /\ forecasts \subseteq Securities \X (1 .. Expected)
  /\ marker \in 0 .. date /\ pass \in {"idle", "queue", "insert"}
  /\ raced \in BOOLEAN

\* The inductive invariant of the market chain.
MarketInv ==
  /\ QueueOK(Securities) /\ MarketStores
  /\ MarketWorkerOK(worker) /\ HasJob(jobs, worker) /\ Tasks(worker, date, last)
  /\ (raced \/ AtMostTwo(jobs))

\* The day expected is a number, not after today.
LEMMA ExpectedIs == ASSUME MarketStores PROVE Expected \in Nat /\ Expected <= date /\ date \in Nat
<1>1. date \in 1 .. MaxDate /\ closed \in BOOLEAN
  BY DEF MarketStores
<1>. QED BY <1>1 DEF Expected, ExpectedAt

\* Stores that nothing touches stay as they are.
LEMMA StoresSame ==
  ASSUME MarketStores, UNCHANGED <<clock, stores, scheduler, raced>>
  PROVE  MarketStores'
  BY DEF MarketStores, Expected, ExpectedAt, clock, stores, scheduler

\* The worker puts its job down.
LEMMA MarketSettle ==
  ASSUME MarketInv, worker' = Idle, TableOK(jobs', Securities), AtMostTwo(jobs) => AtMostTwo(jobs'),
         faults' \in 0 .. MaxFaults, raced' = raced, MarketStores'
  PROVE  MarketInv'
<1>1. Held(jobs', worker')
  <2>1. jobs' \in Seq(Rows(Securities))
    BY DEF TableOK
  <2>2. Len(jobs') \in Nat /\ DOMAIN jobs' = 1 .. Len(jobs')
    BY <2>1, ElementOf
  <2>. QED BY <2>2, HeldByNone
<1>2. QueueOK(Securities)'
  BY <1>1 DEF QueueOK
<1>3. MarketWorkerOK(worker') /\ HasJob(jobs', worker')
  BY DEF MarketWorkerOK, HasJob
<1>4. Tasks(worker', date', last')
  BY DEF Tasks, Fetches, Models, Idle
<1>. QED BY <1>2, <1>3, <1>4 DEF MarketInv

\* The worker goes on with its job, or stays idle, while the table grows at most.
LEMMA MarketGoesOn ==
  ASSUME MarketInv, MarketWorkerOK(worker'), worker'.job = worker.job, worker' # Idle => worker # Idle,
         worker'.at = "after" <=> worker.at = "after",
         TableOK(jobs', Securities), Extended(jobs, jobs'), AtMostTwo(jobs) => raced' \/ AtMostTwo(jobs'),
         raced => raced', faults' \in 0 .. MaxFaults, MarketStores', Tasks(worker', date', last')
  PROVE  MarketInv'
<1>1. worker' # Idle => worker'.at # "idle"
  BY DEF MarketWorkerOK, Starts, Fetches, Signalled, Models, Forecasted
<1>2. Held(jobs', worker')
  <2>1. TableOK(jobs, Securities) /\ Held(jobs, worker)
    BY DEF MarketInv, QueueOK
  <2>. QED BY <1>1, <2>1, HeldGrown
<1>3. QueueOK(Securities)'
  BY <1>2 DEF QueueOK
<1>4. HasJob(jobs', worker')
  BY DEF MarketInv, HasJob, Extended
<1>. QED BY <1>3, <1>4 DEF MarketInv

\* A table extends itself.
LEMMA ExtendedSame == ASSUME NEW I, NEW q, TableOK(q, I) PROVE Extended(q, q)
<1>1. Len(q) \in Nat
  BY ElementOf DEF TableOK
<1>. QED BY <1>1 DEF Extended

\* The days, the session, the scheduler and the owner.
LEMMA OutsideStep ==
  ASSUME BulkAssumption, MarketAssumption, MarketInv,
         NextDay \/ Close \/ SessionEnds \/ Tick \/ QueueCheck \/ QueueInsert \/ \E ids \in Asked : OnDemand(ids)
  PROVE  MarketInv'
<1>0. /\ TableOK(jobs, Securities) /\ MarketStores /\ MarketWorkerOK(worker) /\ Tasks(worker, date, last)
      /\ faults \in 0 .. MaxFaults /\ Extended(jobs, jobs)
  BY ExtendedSame DEF MarketInv, QueueOK
<1>1. worker' = worker /\ faults' = faults /\ last' = last /\ fetched' = fetched /\ signals' = signals
      /\ forecasts' = forecasts
  BY DEF NextDay, Close, SessionEnds, Tick, QueueCheck, QueueInsert, OnDemand, queueVars, stores
<1>2. MarketStores'
  <2>1. CASE NextDay \/ Close
    <3>1. date' \in 1 .. MaxDate /\ closed' \in BOOLEAN /\ session' = session /\ marker' = marker /\ pass' = pass
          /\ raced' = raced /\ date <= date'
      <4>0. date \in 1 .. MaxDate /\ closed \in BOOLEAN /\ MaxDate \in Nat
        BY <1>0 DEF MarketStores, MarketAssumption
      <4>1. CASE NextDay
        <5>1. date' = date + 1 /\ closed' = FALSE /\ date < MaxDate /\ session' = session /\ marker' = marker
              /\ pass' = pass /\ raced' = raced
          BY <4>1 DEF NextDay, scheduler
        <5>2. date + 1 \in 1 .. MaxDate /\ date <= date + 1
          BY <4>0, <5>1
        <5>. QED BY <5>1, <5>2
      <4>2. CASE Close
        <5>1. date' = date /\ closed' = TRUE /\ session' = session /\ marker' = marker
              /\ pass' = pass /\ raced' = raced
          BY <4>2 DEF Close, scheduler
        <5>. QED BY <4>0, <5>1
      <4>. QED BY <2>1, <4>1, <4>2
    <3>2. Expected' \in Nat /\ Expected <= Expected'
      BY <1>0, <2>1 DEF NextDay, Close, MarketStores, Expected, ExpectedAt
    <3>3. Expected \in Nat /\ date \in Nat /\ date' \in Nat
      BY <1>0, <3>1, ExpectedIs
    <3>4. 1 .. Expected \subseteq 1 .. Expected'
      BY <3>2, <3>3
    <3>5. \A s \in Securities : last'[s] <= Expected' /\ fetched'[s] <= date'
      <4>1. ASSUME NEW s \in Securities PROVE last[s] <= Expected' /\ fetched[s] <= date'
        <5>1. last[s] \in Nat /\ fetched[s] \in Nat /\ last[s] <= Expected /\ fetched[s] <= date
          BY <1>0 DEF MarketStores
        <5>. QED BY <3>1, <3>2, <3>3, <5>1
      <4>. QED BY <1>1, <4>1
    <3>6. signals' \subseteq Securities \X (1 .. Expected') /\ forecasts' \subseteq Securities \X (1 .. Expected')
      BY <1>0, <1>1, <3>4 DEF MarketStores
    <3>7. marker' \in 0 .. date'
      BY <1>0, <3>1, <3>3 DEF MarketStores
    <3>. QED BY <1>0, <1>1, <3>1, <3>5, <3>6, <3>7 DEF MarketStores
  <2>2. CASE ~(NextDay \/ Close)
    <3>1. date' = date /\ closed' = closed /\ session' \in BOOLEAN /\ marker' \in 0 .. date
          /\ pass' \in {"idle", "queue", "insert"} /\ raced' \in BOOLEAN
      <4>0. /\ date \in Nat /\ marker \in 0 .. date /\ session \in BOOLEAN /\ pass \in {"idle", "queue", "insert"}
            /\ raced \in BOOLEAN
        BY <1>0, ExpectedIs DEF MarketStores
      <4>1. date' = date /\ closed' = closed
        BY <2>2 DEF SessionEnds, Tick, QueueCheck, QueueInsert, OnDemand, clock
      <4>2. session' = session \/ session' = FALSE
        BY <2>2 DEF SessionEnds, Tick, QueueCheck, QueueInsert, OnDemand, clock
      <4>3. marker' = marker \/ marker' = date
        BY <2>2 DEF SessionEnds, Tick, QueueCheck, QueueInsert, OnDemand, scheduler
      <4>4. pass' = pass \/ pass' \in {"idle", "queue", "insert"}
        BY <2>2 DEF SessionEnds, Tick, QueueCheck, QueueInsert, OnDemand, scheduler
      <4>5. raced' \in BOOLEAN
        BY <2>2, <4>0 DEF SessionEnds, Tick, QueueCheck, QueueInsert, OnDemand
      <4>6. marker' \in 0 .. date
        BY <4>0, <4>3
      <4>. QED BY <4>0, <4>1, <4>2, <4>4, <4>5, <4>6
    <3>2. Expected' = Expected
      BY <3>1 DEF Expected, ExpectedAt
    <3>. QED BY <1>0, <1>1, <3>1, <3>2 DEF MarketStores
  <2>. QED BY <2>1, <2>2
<1>3. Tasks(worker', date', last')
  <2>1. date \in Nat /\ date' \in Nat /\ date <= date'
    <3>1. date' = date \/ date' = date + 1
      BY DEF NextDay, Close, SessionEnds, Tick, QueueCheck, QueueInsert, OnDemand, clock
    <3>. QED BY <1>0, <3>1, ExpectedIs
  <2>2. worker \in Fetches => worker.clock[1] \in 1 .. date'
    BY <1>0, <2>1 DEF Tasks
  <2>. QED BY <1>0, <1>1, <2>2 DEF Tasks
<1>. DEFINE TablesGo == /\ TableOK(jobs', Securities) /\ Extended(jobs, jobs')
                        /\ AtMostTwo(jobs) => (raced' \/ AtMostTwo(jobs'))
                        /\ raced => raced'
<1>4. TablesGo
  <2>1. CASE NextDay \/ Close \/ SessionEnds \/ Tick \/ QueueCheck
    <3>1. jobs' = jobs /\ raced' = raced
      BY <2>1 DEF NextDay, Close, SessionEnds, Tick, QueueCheck, queueVars
    <3>. QED BY <1>0, <3>1
  <2>2. ASSUME NEW ids \in Asked, OnDemand(ids) PROVE TablesGo
    <3>1. jobs' = Enqueued(jobs, "candle_backfill", Params(ids, {}), 0) /\ raced' = raced
      BY <2>2 DEF OnDemand
    <3>2. Params(ids, {}) \in ParamsOf(Securities) /\ "candle_backfill" \in Kinds
      BY DEF Params, ParamsOf, Kinds, MarketAssumption
    <3>3. Len(jobs) < MaxJobs
      <4>1. Len(jobs) \in Nat
        BY <1>0, ElementOf DEF TableOK
      <4>. QED BY <2>2, <4>1 DEF OnDemand, MarketAssumption, BulkAssumption
    <3>4. TableOK(jobs', Securities) /\ Grown(jobs, "candle_backfill", Params(ids, {}), 0, jobs')
      BY <1>0, <3>1, <3>2, <3>3, EnqueuedRow
    <3>. QED BY <3>1, <3>4, TwoGrown DEF Grown
  <2>3. CASE QueueInsert
    <3>1. jobs' = Append(jobs, Row("candle_backfill", NoParams)) /\ Len(jobs) < MaxJobs
          /\ raced' = (raced \/ Blocked(jobs, "candle_backfill", NoParams, 0))
      BY <2>3 DEF QueueInsert, HasRoom
    <3>2. NoParams \in ParamsOf(Securities) /\ "candle_backfill" \in Kinds
      BY DEF NoParams, Params, ParamsOf, Kinds
    <3>3. /\ TableOK(jobs', Securities) /\ Extended(jobs, jobs')
          /\ (~Blocked(jobs, "candle_backfill", NoParams, 0) => Grown(jobs, "candle_backfill", NoParams, 0, jobs'))
      BY <1>0, <3>1, <3>2, QueuedRow DEF BulkAssumption
    <3>4. ~Blocked(jobs, "candle_backfill", NoParams, 0) /\ AtMostTwo(jobs) => AtMostTwo(jobs')
      BY <3>3, TwoGrown
    <3>. QED BY <3>1, <3>3, <3>4
  <2>. QED BY <2>1, <2>2, <2>3
<1>. QED BY <1>0, <1>1, <1>2, <1>3, <1>4, MarketGoesOn

\* What is at its start has the locals of a job that was claimed.
LEMMA MarketAtStart ==
  ASSUME MarketInv, worker.at = "start"
  PROVE  worker \in Starts(Securities) /\ worker # Idle
  BY DEF MarketInv, MarketWorkerOK, Fetches, Signalled, Models, Forecasted, Idle

\* A backfill that fetches or finishes has the locals of one.
LEMMA AtFetch ==
  ASSUME MarketInv, worker.at \in {"fetch", "finish"}, worker.kind = "candle_backfill"
  PROVE  worker \in Fetches /\ worker # Idle
  BY DEF MarketInv, MarketWorkerOK, Starts, Signalled, Models, Forecasted, Idle

\* So have the signals that are stored or followed up,
LEMMA AtSignals ==
  ASSUME MarketInv, worker.at \in {"finish", "after"}, worker.kind = "signals_compute"
  PROVE  worker \in Signalled /\ worker # Idle
  BY DEF MarketInv, MarketWorkerOK, Starts, Fetches, Models, Forecasted, Idle

\* and a chunk that is given to the model.
LEMMA AtModel ==
  ASSUME MarketInv, worker.at = "model"
  PROVE  worker \in Models /\ worker # Idle
  BY DEF MarketInv, MarketWorkerOK, Starts, Fetches, Signalled, Forecasted, Idle

\* The job under way has its row in the table.
LEMMA MarketHasRow ==
  ASSUME MarketInv, worker # Idle, worker.at # "after"
  PROVE  TableOK(jobs, Securities) /\ Running \in DOMAIN jobs
  BY DEF MarketInv, QueueOK, HasJob, Running

\* A job that fails or is done leaves, or goes back into the table.
LEMMA MarketEnds ==
  ASSUME BulkAssumption, MarketInv, worker # Idle, worker.at # "after", worker' = Idle,
         Finish(Running) \/ \E code : Fail(Running, code),
         faults' \in 0 .. MaxFaults, raced' = raced, MarketStores'
  PROVE  MarketInv'
<1>1. TableOK(jobs, Securities) /\ Running \in DOMAIN jobs
  BY MarketHasRow
<1>2. TableOK(jobs', Securities) /\ Carried(jobs, jobs')
  <2>1. CASE Finish(Running)
    BY <1>1, <2>1, FinishStep
  <2>2. ASSUME NEW code, Fail(Running, code) PROVE TableOK(jobs', Securities) /\ Carried(jobs, jobs')
    BY <1>1, <2>2, FailStep
  <2>. QED BY <2>1, <2>2
<1>3. AtMostTwo(jobs) => AtMostTwo(jobs')
  BY <1>2, TwoCarried
<1>. QED BY <1>2, <1>3, MarketSettle

\* A job goes on and leaves the table as it is.
LEMMA MarketWorks ==
  ASSUME MarketInv, MarketWorkerOK(worker'), worker'.job = worker.job, worker # Idle,
         worker'.at # "after", worker.at # "after", UNCHANGED <<jobs, raced>>,
         faults' \in 0 .. MaxFaults, MarketStores', Tasks(worker', date', last')
  PROVE  MarketInv'
<1>1. TableOK(jobs', Securities) /\ Extended(jobs, jobs')
  <2>1. TableOK(jobs, Securities) /\ jobs' = jobs
    BY DEF MarketInv, QueueOK
  <2>2. Extended(jobs, jobs)
    BY <2>1, ExtendedSame
  <2>. QED BY <2>1, <2>2
<1>2. (AtMostTwo(jobs) => raced' \/ AtMostTwo(jobs')) /\ (raced => raced')
  OBVIOUS
<1>. QED BY <1>1, <1>2, MarketGoesOn

\* A backfill begins, or finds that the session is over.
LEMMA BackfillStartStep ==
  ASSUME BulkAssumption, MarketInv, BackfillStart
  PROVE  MarketInv'
<1>0. worker.at = "start" /\ worker.kind = "candle_backfill" /\ faults' = faults /\ raced' = raced
      /\ UNCHANGED <<clock, stores, scheduler, raced>>
  BY DEF BackfillStart, Processing
<1>1. worker \in Starts(Securities) /\ worker # Idle
  BY <1>0, MarketAtStart
<1>2. MarketStores' /\ faults' \in 0 .. MaxFaults
  BY <1>0, StoresSame DEF MarketInv, QueueOK
<1>3. CASE ~session
  <2>1. Fail(Running, "AUTH_EXPIRED") /\ worker' = Idle
    BY <1>3 DEF BackfillStart, Ends
  <2>. QED BY <1>0, <1>1, <1>2, <2>1, MarketEnds
<1>4. CASE session
  <2>1. PICK T \in IF worker.params = NoParams THEN ChunkOf(Targets(date, closed)) ELSE {worker.params.ids} :
               worker' = [at |-> "fetch", job |-> Running, kind |-> worker.kind,
                          params |-> worker.params, todo |-> T, clock |-> <<date, closed>>]
    BY <1>4 DEF BackfillStart
  <2>2. T \in SUBSET Securities
    <3>1. CASE worker.params = NoParams
      <4>1. T \in kSubset(Min({BackfillChunk, Cardinality(Targets(date, closed))}), Targets(date, closed))
        BY <2>1, <3>1 DEF ChunkOf
      <4>2. T \subseteq Targets(date, closed)
        BY <4>1 DEF kSubset
      <4>. QED BY <4>2 DEF Targets
    <3>2. CASE worker.params # NoParams
      BY <1>1, <2>1, <3>2 DEF Starts, ParamsOf
    <3>. QED BY <3>1, <3>2
  <2>3. date \in Nat /\ closed \in BOOLEAN /\ date \in 1 .. date
    BY DEF MarketInv, MarketStores
  <2>4. <<date, closed>> \in Nat \X BOOLEAN /\ <<date, closed>>[1] = date
    BY <2>3
  <2>5. worker' \in Fetches
    <3>1. worker.job \in Nat /\ worker.params \in ParamsOf(Securities)
      BY <1>1 DEF Starts
    <3>. QED BY <1>0, <2>1, <2>2, <2>4, <3>1 DEF Fetches, Running
  <2>6. worker'.job = worker.job /\ worker'.at = "fetch" /\ worker'.clock = <<date, closed>>
    BY <2>1 DEF Running
  <2>7. date' = date
    BY <1>0 DEF clock
  <2>8. Tasks(worker', date', last')
    <3>1. worker'.clock[1] \in 1 .. date'
      BY <2>3, <2>4, <2>6, <2>7
    <3>2. worker' \notin Models
      BY <2>6 DEF Models
    <3>. QED BY <3>1, <3>2 DEF Tasks
  <2>9. jobs' = jobs
    BY <1>4 DEF BackfillStart
  <2>. QED BY <1>0, <1>1, <1>2, <2>5, <2>6, <2>8, <2>9, MarketWorks DEF MarketWorkerOK
<1>. QED BY <1>3, <1>4 DEF MarketInv, MarketStores

\* The lesser of two numbers.
LEMMA MinOfTwo == ASSUME NEW a \in Nat, NEW b \in Nat PROVE Min({a, b}) \in Nat /\ Min({a, b}) <= a
<1>1. IsFiniteSet({a, b})
  <2>1. IsFiniteSet({a} \cup {b})
    BY FS_Singleton, FS_Union
  <2>2. {a, b} = {a} \cup {b}
    OBVIOUS
  <2>. QED BY <2>1, <2>2
<1>2. {a, b} \subseteq Int /\ {a, b} # {}
  OBVIOUS
<1>3. Min({a, b}) \in {a, b} /\ \A y \in {a, b} : Min({a, b}) <= y
  BY <1>1, <1>2, MinOf
<1>. QED BY <1>3

\* A security is fetched.
LEMMA FetchedStep ==
  ASSUME MarketInv, NEW bar, Fetched(bar), bar \in Nat, bar <= Expected, faults' \in 0 .. MaxFaults
  PROVE  MarketInv'
<1>0. worker.at = "fetch" /\ worker.kind = "candle_backfill" /\ worker.todo # {}
      /\ last' = [last EXCEPT ![Current] = bar] /\ fetched' = [fetched EXCEPT ![Current] = worker.clock[1]]
      /\ worker' = [worker EXCEPT !.todo = @ \ {Current}]
      /\ jobs' = jobs /\ raced' = raced /\ date' = date /\ closed' = closed /\ session' = session
      /\ signals' = signals /\ forecasts' = forecasts /\ marker' = marker /\ pass' = pass
  BY DEF Fetched, Processing, clock, scheduler
<1>1. worker \in Fetches /\ worker # Idle
  BY <1>0, AtFetch
<1>2. /\ MarketStores /\ worker.clock[1] \in 1 .. date
  BY <1>1 DEF MarketInv, Tasks
<1>3. date \in Nat /\ Expected \in Nat /\ Expected' = Expected
  BY <1>0, <1>2, ExpectedIs DEF Expected
<1>. DEFINE x == Current  began == worker.clock[1]
<1>. HIDE DEF x, began
<1>4. last' = [last EXCEPT ![x] = bar] /\ fetched' = [fetched EXCEPT ![x] = began]
      /\ worker' = [worker EXCEPT !.todo = worker.todo \ {x}] /\ began \in Nat /\ began <= date
  BY <1>0, <1>2, <1>3 DEF x, began
<1>5. /\ last \in [Securities -> Nat] /\ fetched \in [Securities -> Nat]
      /\ \A s \in Securities : last[s] <= Expected /\ fetched[s] <= date
  BY <1>2 DEF MarketStores
<1>6. last' \in [Securities -> Nat] /\ fetched' \in [Securities -> Nat]
  BY <1>4, <1>5
<1>7. \A s \in Securities : last'[s] <= Expected /\ fetched'[s] <= date
  BY <1>4, <1>5
<1>8. MarketStores'
  BY <1>0, <1>2, <1>3, <1>6, <1>7 DEF MarketStores
<1>9. worker' \in Fetches
  BY <1>1, <1>4 DEF Fetches
<1>10. worker'.job = worker.job /\ worker'.clock = worker.clock /\ worker'.at = "fetch"
  BY <1>0, <1>1, <1>4 DEF Fetches
<1>11. Tasks(worker', date', last')
  <2>1. worker' \notin Models
    BY <1>10 DEF Models
  <2>. QED BY <1>0, <1>2, <1>10, <2>1 DEF Tasks
<1>. QED BY <1>0, <1>1, <1>8, <1>9, <1>10, <1>11, MarketWorks DEF MarketWorkerOK

\* A fetch brings a day, or nothing, or is refused.
LEMMA FetchStep ==
  ASSUME BulkAssumption, MarketInv, Fetch \/ FetchNothing \/ \E code \in {"AUTH_EXPIRED", "RATE_LIMITED"} : FetchRefused(code)
  PROVE  MarketInv'
<1>0. MarketStores /\ faults \in 0 .. MaxFaults /\ (Fault => faults' \in 0 .. MaxFaults)
  BY FaultCounted DEF MarketInv, QueueOK
<1>1. CASE Fetch
  <2>1. worker \in Fetches
    BY <1>1, AtFetch DEF Fetch, Fetched, Processing
  <2>2. Expected \in Nat /\ worker.clock[1] \in Nat
    BY <1>0, <2>1, ExpectedIs DEF Fetches
  <2>3. Min({Expected, worker.clock[1]}) \in Nat /\ Min({Expected, worker.clock[1]}) <= Expected
    BY <2>2, MinOfTwo
  <2>. QED BY <1>0, <1>1, <2>3, FetchedStep DEF Fetch
<1>2. CASE FetchNothing
  <2>1. worker \in Fetches /\ worker.todo # {}
    BY <1>2, AtFetch DEF FetchNothing, Fetched, Processing
  <2>2. Current \in Securities
    <3>1. Current \in worker.todo
      BY <2>1 DEF Current
    <3>. QED BY <2>1, <3>1 DEF Fetches
  <2>3. last[Current] \in Nat /\ last[Current] <= Expected
    BY <1>0, <2>2 DEF MarketStores
  <2>. QED BY <1>0, <1>2, <2>3, FetchedStep DEF FetchNothing
<1>3. ASSUME NEW code \in {"AUTH_EXPIRED", "RATE_LIMITED"}, FetchRefused(code) PROVE MarketInv'
  <2>1. worker # Idle /\ worker.at # "after"
    BY <1>3, AtFetch DEF FetchRefused, Processing
  <2>2. Fail(Running, code) /\ worker' = Idle /\ raced' = raced /\ UNCHANGED <<clock, stores, scheduler, raced>>
    BY <1>3 DEF FetchRefused, Ends
  <2>3. faults' \in 0 .. MaxFaults
    BY <1>0, <1>3 DEF FetchRefused
  <2>4. MarketStores'
    BY <1>0, <2>2, StoresSame
  <2>. QED BY <2>1, <2>2, <2>3, <2>4, MarketEnds
<1>. QED BY <1>1, <1>2, <1>3

\* A job that queues the next one goes on to its end.
LEMMA MarketQueues ==
  ASSUME BulkAssumption, MarketInv, MarketWorkerOK(worker'), worker'.job = worker.job, worker # Idle,
         worker'.at # "after", worker.at # "after", HasRoom, NEW kind \in Kinds, NEW self,
         jobs' = Enqueued(jobs, kind, NoParams, self) \/ jobs' = jobs,
         raced' = raced, faults' \in 0 .. MaxFaults, MarketStores', Tasks(worker', date', last')
  PROVE  MarketInv'
<1>1. TableOK(jobs, Securities) /\ Len(jobs) < MaxJobs /\ NoParams \in ParamsOf(Securities)
  BY DEF MarketInv, QueueOK, HasRoom, NoParams, Params, ParamsOf
<1>2. TableOK(jobs', Securities) /\ Extended(jobs, jobs') /\ (AtMostTwo(jobs) => AtMostTwo(jobs'))
  <2>1. CASE jobs' = jobs
    BY <1>1, <2>1, ExtendedSame
  <2>2. CASE jobs' = Enqueued(jobs, kind, NoParams, self)
    <3>1. TableOK(jobs', Securities) /\ Grown(jobs, kind, NoParams, self, jobs')
      BY <1>1, <2>2, EnqueuedRow
    <3>. QED BY <3>1, TwoGrown DEF Grown
  <2>. QED BY <2>1, <2>2
<1>3. (AtMostTwo(jobs) => raced' \/ AtMostTwo(jobs')) /\ (raced => raced')
  BY <1>2
<1>. QED BY <1>2, <1>3, MarketGoesOn

\* A chunk is done: the next one is queued, or the signals, or nothing for a single security.
LEMMA BackfillNextStep ==
  ASSUME BulkAssumption, MarketInv, BackfillNext
  PROVE  MarketInv'
<1>0. worker.at = "fetch" /\ worker.kind = "candle_backfill" /\ HasRoom
      /\ worker' = [worker EXCEPT !.at = "finish"] /\ faults' = faults /\ raced' = raced
      /\ UNCHANGED <<clock, stores, scheduler, raced>> /\ date' = date /\ last' = last
  BY DEF BackfillNext, Processing, clock, stores
<1>1. worker \in Fetches /\ worker # Idle
  BY <1>0, AtFetch
<1>2. worker' \in Fetches /\ worker'.job = worker.job /\ worker'.at = "finish" /\ worker'.clock = worker.clock
  BY <1>0, <1>1 DEF Fetches
<1>3. Tasks(worker', date', last')
  <2>1. worker' \notin Models
    BY <1>2 DEF Models
  <2>2. worker.clock[1] \in 1 .. date
    BY <1>1 DEF MarketInv, Tasks
  <2>. QED BY <1>0, <1>2, <2>1, <2>2 DEF Tasks
<1>4. MarketStores' /\ faults' \in 0 .. MaxFaults
  BY <1>0, StoresSame DEF MarketInv, QueueOK
<1>5. PICK kind \in Kinds, self \in {Running, 0} : jobs' = Enqueued(jobs, kind, NoParams, self) \/ jobs' = jobs
  BY DEF BackfillNext, FollowUp, Kinds
<1>. QED BY <1>0, <1>1, <1>2, <1>3, <1>4, <1>5, MarketQueues DEF MarketWorkerOK

\* A job that is done or crashed.
LEMMA MarketEndStep ==
  ASSUME BulkAssumption, MarketInv, BackfillFinish \/ ComputeFails \/ ForecastFinish
  PROVE  MarketInv'
<1>1. raced' = raced /\ UNCHANGED <<clock, stores, scheduler, raced>> /\ worker' = Idle
  BY DEF BackfillFinish, ComputeFails, ForecastFinish, Ends
<1>2. faults' \in 0 .. MaxFaults
  <2>1. faults' = faults \/ Fault
    BY DEF BackfillFinish, ComputeFails, ForecastFinish
  <2>2. faults \in 0 .. MaxFaults
    BY DEF MarketInv, QueueOK
  <2>. QED BY <2>1, <2>2, FaultCounted
<1>3. MarketStores'
  BY <1>1, StoresSame DEF MarketInv
<1>4. worker # Idle /\ worker.at # "after"
  BY DEF BackfillFinish, ComputeFails, ForecastFinish, Processing, Idle
<1>5. Finish(Running) \/ \E code : Fail(Running, code)
  <2>1. CASE BackfillFinish
    BY <2>1 DEF BackfillFinish
  <2>2. CASE ComputeFails
    BY <2>2 DEF ComputeFails, Ends
  <2>3. CASE ForecastFinish
    BY <2>3 DEF ForecastFinish
  <2>. QED BY <2>1, <2>2, <2>3
<1>. QED BY <1>1, <1>2, <1>3, <1>4, <1>5, MarketEnds

\* The signals are stored for the newest days.
LEMMA ComputeStep ==
  ASSUME MarketInv, Compute
  PROVE  MarketInv'
<1>0. worker.at = "start" /\ worker.kind = "signals_compute" /\ worker' = [worker EXCEPT !.at = "finish"]
      /\ signals' = signals \cup {<<s, last[s]>> : s \in {x \in Securities : last[x] > 0}}
      /\ jobs' = jobs /\ raced' = raced /\ faults' = faults /\ date' = date /\ closed' = closed /\ session' = session
      /\ last' = last /\ fetched' = fetched /\ forecasts' = forecasts /\ marker' = marker /\ pass' = pass
  BY DEF Compute, Processing, clock, scheduler
<1>1. worker \in Starts(Securities) /\ worker # Idle
  BY <1>0, MarketAtStart
<1>2. worker' \in Signalled /\ worker'.job = worker.job /\ worker'.at = "finish"
  BY <1>0, <1>1 DEF Starts, Signalled
<1>3. MarketStores /\ faults' \in 0 .. MaxFaults
  BY <1>0 DEF MarketInv, QueueOK
<1>4. Expected \in Nat /\ Expected' = Expected
  BY <1>0, <1>3, ExpectedIs DEF Expected
<1>5. signals' \subseteq Securities \X (1 .. Expected)
  <2>1. ASSUME NEW s \in Securities, last[s] > 0 PROVE <<s, last[s]>> \in Securities \X (1 .. Expected)
    <3>1. last[s] \in Nat /\ last[s] <= Expected
      BY <1>3 DEF MarketStores
    <3>2. last[s] \in 1 .. Expected
      BY <1>4, <2>1, <3>1
    <3>. QED BY <3>2
  <2>2. {<<s, last[s]>> : s \in {x \in Securities : last[x] > 0}} \subseteq Securities \X (1 .. Expected)
    BY <2>1
  <2>3. signals \subseteq Securities \X (1 .. Expected)
    BY <1>3 DEF MarketStores
  <2>. QED BY <1>0, <2>2, <2>3
<1>6. MarketStores'
  BY <1>0, <1>3, <1>4, <1>5 DEF MarketStores
<1>7. Tasks(worker', date', last')
  BY <1>2 DEF Tasks, Fetches, Models, Signalled
<1>. QED BY <1>0, <1>1, <1>2, <1>3, <1>6, <1>7, MarketWorks DEF MarketWorkerOK

\* The job of the signals is done before the forecasts are queued.
LEMMA SignalsStep ==
  ASSUME BulkAssumption, MarketInv, SignalsFinish \/ SignalsAfter
  PROVE  MarketInv'
<1>0. raced' = raced /\ faults' = faults /\ UNCHANGED <<clock, stores, scheduler, raced>> /\ worker.kind = "signals_compute"
      /\ worker.at \in {"finish", "after"}
  BY DEF SignalsFinish, SignalsAfter, Processing
<1>1. MarketStores' /\ faults' \in 0 .. MaxFaults /\ worker \in Signalled /\ worker # Idle /\ TableOK(jobs, Securities)
  BY <1>0, StoresSame, AtSignals DEF MarketInv, QueueOK
<1>2. CASE SignalsFinish
  <2>1. Finish(Running) /\ worker.at = "finish" /\ worker' = [worker EXCEPT !.at = "after", !.job = 0]
    BY <1>2 DEF SignalsFinish, Processing
  <2>2. Running \in DOMAIN jobs
    BY <1>1, <2>1, MarketHasRow
  <2>3. TableOK(jobs', Securities) /\ Carried(jobs, jobs')
    BY <1>1, <2>1, <2>2, FinishStep
  <2>4. AtMostTwo(jobs) => AtMostTwo(jobs')
    BY <2>3, TwoCarried
  <2>5. worker' \in Signalled /\ worker'.at = "after" /\ worker'.job = 0
    BY <1>1, <2>1 DEF Signalled
  <2>6. Held(jobs', worker')
    <3>1. jobs' \in Seq(Rows(Securities))
      BY <2>3 DEF TableOK
    <3>2. Len(jobs') \in Nat /\ DOMAIN jobs' = 1 .. Len(jobs')
      BY <3>1, ElementOf
    <3>3. 0 \in 0 .. Len(jobs') /\ 0 \notin DOMAIN jobs'
      BY <3>2
    <3>. QED BY <2>5, <3>3 DEF Held
  <2>7. QueueOK(Securities)'
    BY <1>1, <2>3, <2>6 DEF QueueOK
  <2>8. HasJob(jobs', worker') /\ MarketWorkerOK(worker') /\ Tasks(worker', date', last')
    BY <2>5 DEF HasJob, MarketWorkerOK, Tasks, Fetches, Models, Signalled
  <2>9. raced' \/ AtMostTwo(jobs')
    BY <1>0, <2>4 DEF MarketInv
  <2>. QED BY <1>1, <2>7, <2>8, <2>9 DEF MarketInv
<1>3. CASE SignalsAfter
  <2>1. jobs' = Enqueued(jobs, "kronos_forecast", NoParams, 0) /\ worker' = Idle /\ Len(jobs) < MaxJobs
    BY <1>3 DEF SignalsAfter, HasRoom
  <2>2. NoParams \in ParamsOf(Securities) /\ "kronos_forecast" \in Kinds
    BY DEF NoParams, Params, ParamsOf, Kinds
  <2>3. TableOK(jobs', Securities) /\ Grown(jobs, "kronos_forecast", NoParams, 0, jobs')
    BY <1>1, <2>1, <2>2, EnqueuedRow
  <2>4. AtMostTwo(jobs) => AtMostTwo(jobs')
    BY <2>3, TwoGrown
  <2>. QED BY <1>0, <1>1, <2>1, <2>3, <2>4, MarketSettle
<1>. QED BY <1>2, <1>3

\* The first places that wait for a forecast are taken.
LEMMA ForecastStartStep ==
  ASSUME MarketInv, ForecastStart
  PROVE  MarketInv'
<1>. DEFINE chunk == {i \in Pending : Cardinality({k \in Pending : k < i}) < ForecastChunk}
            size == Cardinality(Pending)
<1>0. worker.at = "start" /\ worker.kind = "kronos_forecast" /\ jobs' = jobs /\ raced' = raced /\ faults' = faults
      /\ worker' = [at |-> "model", job |-> worker.job, kind |-> worker.kind, todo |-> chunk, done |-> 0, size |-> size]
      /\ UNCHANGED <<clock, stores, scheduler, raced>> /\ last' = last
  BY DEF ForecastStart, Processing, Running, stores
<1>1. worker \in Starts(Securities) /\ worker # Idle
  BY <1>0, MarketAtStart
<1>2. chunk \subseteq Pending /\ Pending \subseteq DOMAIN Shortlist
  BY DEF Pending
<1>3. size \in {Cardinality(S) : S \in SUBSET (DOMAIN Shortlist)}
  BY <1>2
<1>4. \A i \in chunk : last[Shortlist[i]] > 0
  BY DEF Pending
<1>. HIDE DEF chunk, size
<1>5. worker' \in Models
  <2>1. worker.job \in Nat /\ chunk \in SUBSET (DOMAIN Shortlist)
    BY <1>1, <1>2 DEF Starts
  <2>. QED BY <1>0, <1>3, <2>1 DEF Models
<1>6. worker'.job = worker.job /\ worker'.todo = chunk /\ worker'.at = "model"
  BY <1>0
<1>7. Tasks(worker', date', last')
  BY <1>0, <1>4, <1>6 DEF Tasks, Fetches
<1>8. MarketStores' /\ faults' \in 0 .. MaxFaults
  BY <1>0, StoresSame DEF MarketInv, QueueOK
<1>. QED BY <1>0, <1>1, <1>5, <1>6, <1>7, <1>8, MarketWorks DEF MarketWorkerOK

\* A forecast is made or fails.
LEMMA ForecastStep ==
  ASSUME MarketAssumption, MarketInv, Forecast
  PROVE  MarketInv'
<1>. DEFINE i == Min(worker.todo)  s == Shortlist[i]
<1>0. worker.at = "model" /\ worker.todo # {} /\ jobs' = jobs /\ raced' = raced /\ faults' = faults
      /\ date' = date /\ closed' = closed /\ session' = session
      /\ last' = last /\ fetched' = fetched /\ signals' = signals /\ marker' = marker /\ pass' = pass
  BY DEF Forecast, Processing, clock, scheduler
<1>1. worker \in Models /\ worker # Idle /\ MarketStores /\ \A k \in worker.todo : last[Shortlist[k]] > 0
  BY <1>0, AtModel DEF MarketInv, Tasks
<1>2. i \in worker.todo /\ i \in DOMAIN Shortlist
  <2>1. Shortlist \in Seq(Securities)
    BY DEF MarketAssumption
  <2>2. Len(Shortlist) \in Nat /\ DOMAIN Shortlist = 1 .. Len(Shortlist)
    BY <2>1, ElementOf
  <2>3. IsFiniteSet(1 .. Len(Shortlist))
    BY <2>2, FS_Interval
  <2>4. worker.todo \subseteq DOMAIN Shortlist
    BY <1>1 DEF Models
  <2>5. IsFiniteSet(worker.todo) /\ worker.todo \subseteq Int
    BY <2>2, <2>3, <2>4, FS_Subset
  <2>6. Min(worker.todo) \in worker.todo
    BY <1>0, <2>5, MinOf
  <2>. QED BY <2>4, <2>6
<1>3. s \in Securities /\ last[s] > 0
  <2>1. Shortlist \in Seq(Securities)
    BY DEF MarketAssumption
  <2>2. \A k \in DOMAIN Shortlist : Shortlist[k] \in Securities
    BY <2>1, ElementOf
  <2>. QED BY <1>1, <1>2, <2>2
<1>4. \/ worker' = [worker EXCEPT !.todo = worker.todo \ {i}] /\ forecasts' = forecasts
      \/ worker' = [worker EXCEPT !.todo = worker.todo \ {i}, !.done = worker.done + 1]
         /\ forecasts' = forecasts \cup {<<s, last[s]>>}
  BY DEF Forecast
<1>. HIDE DEF i, s
<1>5. worker' \in Models /\ worker'.job = worker.job /\ worker'.todo = worker.todo \ {i} /\ worker'.at = "model"
  <2>. DEFINE rest == worker.todo \ {i}  more == worker.done + 1
  <2>1. more \in Nat /\ rest \in SUBSET (DOMAIN Shortlist)
    BY <1>1 DEF Models
  <2>. HIDE DEF rest, more
  <2>2. CASE worker' = [worker EXCEPT !.todo = rest]
    BY <1>1, <2>1, <2>2 DEF Models, rest
  <2>3. CASE worker' = [worker EXCEPT !.todo = rest, !.done = more]
    BY <1>1, <2>1, <2>3 DEF Models, rest
  <2>. QED BY <1>4, <2>2, <2>3 DEF rest, more
<1>6. Expected \in Nat /\ Expected' = Expected
  BY <1>0, <1>1, ExpectedIs DEF Expected
<1>7. forecasts' \subseteq Securities \X (1 .. Expected)
  <2>1. last[s] \in Nat /\ last[s] <= Expected /\ forecasts \subseteq Securities \X (1 .. Expected)
    BY <1>1, <1>3 DEF MarketStores
  <2>2. last[s] \in 1 .. Expected
    BY <1>3, <1>6, <2>1
  <2>3. <<s, last[s]>> \in Securities \X (1 .. Expected)
    BY <1>3, <2>2
  <2>. QED BY <1>4, <2>1, <2>3
<1>8. MarketStores'
  BY <1>0, <1>1, <1>6, <1>7 DEF MarketStores
<1>9. Tasks(worker', date', last')
  BY <1>0, <1>1, <1>5 DEF Tasks, Fetches
<1>10. faults' \in 0 .. MaxFaults
  BY <1>0 DEF MarketInv, QueueOK
<1>. QED BY <1>0, <1>1, <1>5, <1>8, <1>9, <1>10, MarketWorks DEF MarketWorkerOK

\* The chunk is done, and the chain goes on or not.
LEMMA ForecastNextStep ==
  ASSUME BulkAssumption, MarketInv, ForecastNext
  PROVE  MarketInv'
<1>. DEFINE failing == worker.size > 0 /\ worker.done = 0
<1>0. worker.at = "model" /\ worker.kind = "kronos_forecast" /\ HasRoom /\ raced' = raced /\ faults' = faults
      /\ worker' = [at |-> "finish", job |-> worker.job, kind |-> worker.kind, failing |-> failing]
      /\ UNCHANGED <<clock, stores, scheduler, raced>>
  BY DEF ForecastNext, Processing, Running
<1>1. worker \in Models /\ worker # Idle
  BY <1>0, AtModel
<1>2. failing \in BOOLEAN
  OBVIOUS
<1>. HIDE DEF failing
<1>3. worker' \in Forecasted /\ worker'.job = worker.job /\ worker'.at = "finish"
  <2>1. worker.job \in Nat
    BY <1>1 DEF Models
  <2>. QED BY <1>0, <1>2, <2>1 DEF Forecasted
<1>4. worker' \notin Fetches /\ worker' \notin Models
  BY <1>0, <1>3 DEF Fetches, Models
<1>5. MarketStores' /\ faults' \in 0 .. MaxFaults /\ Tasks(worker', date', last')
  BY <1>0, <1>4, StoresSame DEF MarketInv, QueueOK, Tasks
<1>6. jobs' = Enqueued(jobs, "kronos_forecast", NoParams, Running) \/ jobs' = jobs
  BY DEF ForecastNext
<1>7. "kronos_forecast" \in Kinds
  BY DEF Kinds
<1>. QED BY <1>0, <1>1, <1>3, <1>5, <1>6, <1>7, MarketQueues DEF MarketWorkerOK

\* The queue: a job is taken, comes due, and the worker dies.
LEMMA MarketQueueStep ==
  ASSUME BulkAssumption, MarketInv, MClaim \/ MDies \/ \E j \in 1 .. MaxJobs : MComesDue(j)
  PROVE  MarketInv'
<1>0. TableOK(jobs, Securities) /\ Held(jobs, worker) /\ faults \in 0 .. MaxFaults
  BY DEF MarketInv, QueueOK
<1>1. UNCHANGED <<clock, stores, scheduler, raced>> /\ raced' = raced /\ date' = date /\ last' = last
  BY DEF MClaim, MDies, MComesDue, clock, stores
<1>2. MarketStores'
  BY <1>1, StoresSame DEF MarketInv
<1>3. CASE MDies
  <2>1. faults' \in 0 .. MaxFaults /\ worker' = Idle /\ jobs' = jobs
    BY <1>0, <1>3, FaultCounted DEF MDies, Dies
  <2>. QED BY <1>0, <1>1, <1>2, <2>1, MarketSettle
<1>4. CASE MClaim
  <2>1. /\ TableOK(jobs', Securities) /\ Carried(jobs, jobs') /\ Held(jobs', worker')
        /\ \/ worker' = Idle
           \/ \E j \in DOMAIN jobs' : worker' = [at |-> "start", job |-> j, kind |-> jobs'[j].kind,
                                                 params |-> jobs'[j].params]
    BY <1>0, <1>4, ClaimStep DEF MClaim
  <2>2. faults' \in 0 .. MaxFaults
    BY <1>0, <1>4 DEF MClaim
  <2>3. AtMostTwo(jobs) => AtMostTwo(jobs')
    BY <2>1, TwoCarried
  <2>4. CASE worker' = Idle
    BY <1>1, <1>2, <2>1, <2>2, <2>3, <2>4, MarketSettle
  <2>5. CASE \E j \in DOMAIN jobs' : worker' = [at |-> "start", job |-> j, kind |-> jobs'[j].kind,
                                                params |-> jobs'[j].params]
    <3>1. PICK j \in DOMAIN jobs' : worker' = [at |-> "start", job |-> j, kind |-> jobs'[j].kind,
                                               params |-> jobs'[j].params]
      BY <2>5
    <3>2. j \in Nat /\ jobs'[j] \in Rows(Securities)
      <4>1. jobs' \in Seq(Rows(Securities))
        BY <2>1 DEF TableOK
      <4>2. Len(jobs') \in Nat /\ DOMAIN jobs' = 1 .. Len(jobs') /\ \A i \in DOMAIN jobs' : jobs'[i] \in Rows(Securities)
        BY <4>1, ElementOf
      <4>. QED BY <4>2
    <3>3. worker' \in Starts(Securities)
      BY <3>1, <3>2 DEF Starts, Rows
    <3>4. MarketWorkerOK(worker') /\ HasJob(jobs', worker')
      BY <3>1, <3>3 DEF MarketWorkerOK, HasJob
    <3>5. QueueOK(Securities)'
      BY <2>1, <2>2 DEF QueueOK
    <3>6. Tasks(worker', date', last')
      BY <3>3 DEF Tasks, Fetches, Models, Starts
    <3>7. raced' \/ AtMostTwo(jobs')
      BY <1>1, <2>3 DEF MarketInv
    <3>. QED BY <1>2, <3>4, <3>5, <3>6, <3>7 DEF MarketInv
  <2>. QED BY <2>1, <2>4, <2>5
<1>5. ASSUME NEW j \in 1 .. MaxJobs, MComesDue(j) PROVE MarketInv'
  <2>1. /\ TableOK(jobs', Securities) /\ Carried(jobs, jobs') /\ Held(jobs', worker') /\ worker' = worker
        /\ DOMAIN jobs' = DOMAIN jobs
    BY <1>0, <1>5, DueStep DEF MComesDue
  <2>2. faults' = faults
    BY <1>5 DEF MComesDue
  <2>3. QueueOK(Securities)'
    BY <1>0, <2>1, <2>2 DEF QueueOK
  <2>4. MarketWorkerOK(worker') /\ HasJob(jobs', worker') /\ Tasks(worker', date', last')
    BY <1>1, <2>1 DEF MarketInv, HasJob
  <2>5. raced' \/ AtMostTwo(jobs')
    <3>1. AtMostTwo(jobs) => AtMostTwo(jobs')
      BY <2>1, TwoCarried
    <3>. QED BY <1>1, <3>1 DEF MarketInv
  <2>. QED BY <1>2, <2>3, <2>4, <2>5 DEF MarketInv
<1>. QED BY <1>3, <1>4, <1>5

\* The empty queue and the empty stores satisfy the invariant.
LEMMA MarketInvInit == ASSUME BulkAssumption, MarketAssumption, MInit PROVE MarketInv
<1>1. jobs = <<>> /\ worker = Idle /\ date = 1 /\ closed = FALSE /\ session \in BOOLEAN /\ faults = 0
      /\ last = [s \in Securities |-> 0] /\ fetched = [s \in Securities |-> 0] /\ signals = {} /\ forecasts = {}
      /\ marker = 0 /\ pass = "idle" /\ raced = FALSE
  BY DEF MInit
<1>2. TableOK(jobs, Securities)
  <2>1. <<>> \in Seq(Rows(Securities)) /\ Len(<<>>) = 0 /\ 0 <= MaxJobs
    BY DEF BulkAssumption
  <2>. QED BY <1>1, <2>1 DEF TableOK
<1>3. Held(jobs, worker)
  <2>1. Len(jobs) \in Nat /\ DOMAIN jobs = 1 .. Len(jobs)
    BY <1>1
  <2>. QED BY <1>1, <2>1, HeldByNone
<1>4. faults \in 0 .. MaxFaults
  BY <1>1 DEF BulkAssumption
<1>5. MarketStores
  <2>1. Expected = 0 /\ 1 \in 1 .. MaxDate
    BY <1>1 DEF Expected, ExpectedAt, MarketAssumption
  <2>2. \A s \in Securities : last[s] <= Expected /\ fetched[s] <= date
    BY <1>1, <2>1
  <2>3. last \in [Securities -> Nat] /\ fetched \in [Securities -> Nat]
    BY <1>1
  <2>4. marker \in 0 .. date /\ date \in 1 .. MaxDate
    BY <1>1, <2>1
  <2>. QED BY <1>1, <2>2, <2>3, <2>4 DEF MarketStores
<1>6. MarketWorkerOK(worker) /\ HasJob(jobs, worker) /\ Tasks(worker, date, last)
  BY <1>1 DEF MarketWorkerOK, HasJob, Tasks, Fetches, Models, Idle
<1>7. AtMostTwo(jobs)
  BY <1>1 DEF AtMostTwo, BulkRows
<1>. QED BY <1>2, <1>3, <1>4, <1>5, <1>6, <1>7 DEF MarketInv, QueueOK

\* The invariant of the market chain holds in every behaviour.
THEOREM MarketInvariance == MSpec => []MarketInv
<1>1. MInit => MarketInv
  BY MarketInvInit, BulkAssumption, MarketAssumption
<1>2. MarketInv /\ [MNext]_mvars => MarketInv'
  <2>. SUFFICES ASSUME MarketInv, [MNext]_mvars PROVE MarketInv'
    OBVIOUS
  <2>. USE BulkAssumption, MarketAssumption
  <2>1. CASE UNCHANGED mvars
    BY <2>1 DEF mvars, MarketInv, QueueOK, MarketStores, Expected
  <2>2. CASE MNext
    <3>1. CASE NextDay \/ Close \/ SessionEnds \/ Tick \/ QueueCheck \/ QueueInsert \/ \E ids \in Asked : OnDemand(ids)
      BY <3>1, OutsideStep
    <3>2. CASE BackfillStart
      BY <3>2, BackfillStartStep
    <3>3. CASE Fetch \/ FetchNothing \/ \E code \in {"AUTH_EXPIRED", "RATE_LIMITED"} : FetchRefused(code)
      BY <3>3, FetchStep
    <3>4. CASE BackfillNext
      BY <3>4, BackfillNextStep
    <3>5. CASE BackfillFinish \/ ComputeFails \/ ForecastFinish
      BY <3>5, MarketEndStep
    <3>6. CASE Compute
      BY <3>6, ComputeStep
    <3>7. CASE SignalsFinish \/ SignalsAfter
      BY <3>7, SignalsStep
    <3>8. CASE ForecastStart
      BY <3>8, ForecastStartStep
    <3>9. CASE Forecast
      BY <3>9, ForecastStep
    <3>10. CASE ForecastNext
      BY <3>10, ForecastNextStep
    <3>11. CASE MClaim \/ MDies \/ \E j \in 1 .. MaxJobs : MComesDue(j)
      BY <3>11, MarketQueueStep
    <3>. QED BY <2>2, <3>1, <3>2, <3>3, <3>4, <3>5, <3>6, <3>7, <3>8, <3>9, <3>10, <3>11 DEF MNext, MarketStep
  <2>. QED BY <2>1, <2>2
<1>. QED BY <1>1, <1>2, PTL DEF MSpec

\* The chain of backfills does not fork: next to the job that runs there is at most its follow-up
\* (market/jobs.py, job_support.py), unless two inserts that both found nothing raced.
THEOREM ChainStaysOne == MSpec => []OneChain
<1>1. MarketInv => OneChain
  <2>. SUFFICES ASSUME MarketInv PROVE OneChain
    OBVIOUS
  <2>0. MarketStores /\ QueueOK(Securities)
    BY DEF MarketInv
  <2>1. MTypeOK
    <3>1. BTypeOK
      BY <2>0, QueueTyped
    <3>2. Expected \in Nat /\ date \in Nat
      BY <2>0, ExpectedIs
    <3>3. \A s \in Securities : last[s] \in 0 .. Expected /\ fetched[s] \in 0 .. date
      <4>1. ASSUME NEW s \in Securities PROVE last[s] \in 0 .. Expected /\ fetched[s] \in 0 .. date
        <5>1. last[s] \in Nat /\ fetched[s] \in Nat /\ last[s] <= Expected /\ fetched[s] <= date
          BY <2>0 DEF MarketStores
        <5>. QED BY <3>2, <5>1
      <4>. QED BY <4>1
    <3>4. signals \cup forecasts \subseteq Securities \X (1 .. Expected)
      BY <2>0 DEF MarketStores
    <3>. QED BY <2>0, <3>1, <3>3, <3>4 DEF MTypeOK, MarketStores
  <2>2. IsFiniteSet(Bulk)
    <3>1. jobs \in Seq(Rows(Securities))
      BY <2>0 DEF QueueOK, TableOK
    <3>2. Len(jobs) \in Nat /\ DOMAIN jobs = 1 .. Len(jobs)
      BY <3>1, ElementOf
    <3>3. IsFiniteSet(1 .. Len(jobs))
      BY <3>2, FS_Interval
    <3>4. Bulk \subseteq DOMAIN jobs
      BY DEF Bulk, OfKind
    <3>. QED BY <3>2, <3>3, <3>4, FS_Subset
  <2>3. ~raced => Cardinality(Bulk) <= 2
    <3>1. ~raced => \A i, j, k \in Bulk : i = j \/ j = k \/ i = k
      BY DEF MarketInv, AtMostTwo, Bulk, BulkRows, OfKind
    <3>. QED BY <2>2, <3>1, TwoAreFew
  <2>4. Cardinality(Bulk) > 2 => raced
    <3>1. Cardinality(Bulk) \in Nat
      BY <2>2, FS_CardinalityType
    <3>. QED BY <2>3, <3>1
  <2>. QED BY <2>1, <2>4 DEF OneChain
<1>. QED BY <1>1, MarketInvariance, PTL

-----------------------------------------------------------------------------
(* The catalogue.                                                          *)

\* A finite set of integers that is not empty has a greatest one.
LEMMA LatestIn ==
  ASSUME NEW S, IsFiniteSet(S), S # {}, \A x \in S : x \in Int
  PROVE  Max(S) \in S /\ \A y \in S : y <= Max(S)
<1>. DEFINE F == {T \in SUBSET S : T # {} => \E x \in T : \A y \in T : y <= x}
<1>1. ASSUME NEW T \in SUBSET S, \A U \in SUBSET T : U # T => U \in F PROVE T \in F
  <2>1. CASE T = {}
    BY <2>1
  <2>2. CASE T # {}
    <3>1. PICK x \in T : TRUE
      BY <2>2
    <3>2. T \ {x} \in F
      BY <1>1, <3>1
    <3>3. CASE T \ {x} = {}
      BY <3>1, <3>3
    <3>4. CASE T \ {x} # {}
      <4>1. PICK z \in T \ {x} : \A y \in T \ {x} : y <= z
        BY <3>2, <3>4
      <4>2. CASE x <= z
        BY <4>1, <4>2
      <4>3. CASE ~(x <= z)
        BY <4>1, <4>3
      <4>. QED BY <4>2, <4>3
    <3>. QED BY <3>3, <3>4
  <2>. QED BY <2>1, <2>2
<1>2. \A T \in SUBSET S : T \in F
  <2>. HIDE DEF F
  <2>. QED BY <1>1, SubsetInduction
<1>3. \E x \in S : \A y \in S : x >= y
  BY <1>2
<1>. QED BY <1>3 DEF Max

\* The images of finitely many elements are finitely many.
LEMMA ImagesFinite ==
  ASSUME NEW S, IsFiniteSet(S), NEW g
  PROVE  IsFiniteSet({g[x] : x \in S})
<1>. DEFINE T == {g[x] : x \in S}
            f == [x \in S |-> g[x]]
<1>1. f \in Surjection(S, T)
  <2>1. f \in [S -> T] /\ \A t \in T : \E s \in S : f[s] = t
    OBVIOUS
  <2>. HIDE DEF f, T
  <2>. QED BY <2>1 DEF Surjection
<1>. HIDE DEF f, T
<1>2. IsFiniteSet(T)
  BY <1>1, FS_Surjection
<1>. QED BY <1>2 DEF T

-----------------------------------------------------------------------------
\* The refresh under way.
IsTop(t) == t = [at |-> t.at, today |-> t.today, next |-> t.next, failed |-> t.failed, whole |-> t.whole, before |-> t.before,
                 funds |-> t.funds, stored |-> t.stored, covered |-> t.covered]
TopFits ==
  /\ IsTop(top)
  /\ top.at \in {"idle", "windows", "navs"}
  /\ top.today \in Nat /\ top.next \in Int /\ top.covered \in Nat /\ top.today <= day /\ top.covered <= day

\* An announcement that could be found on the day: it was not later than the overlap after the ex-date.
InTime(e, by) == e.published <= by /\ e.published <= e.ex + Overlap

\* What was announced in time for a day that lies an overlap before a stored one is stored too, back to where a first top-up begins.
NoGap == \A a \in actions, e \in world.actions : e.ex \in day - Backfill .. a.ex - Overlap - 1 /\ e.published <= e.ex + Overlap => e \in actions

\* The windows so far have left nothing out.
Windowed == top.at = "windows" => \A e \in world.actions : e.ex \in top.today - Backfill .. top.next - 1 /\ InTime(e, top.today) => e \in actions

ActionsInv ==
  /\ world \in Worlds /\ day \in Nat /\ TopFits
  /\ actions \subseteq world.actions /\ \A a \in actions : a.ex <= day
  /\ NoGap /\ Windowed /\ NothingSkipped

\* Days are counted from 1, and a window has days.
LEMMA ActionsAre ==
  ASSUME world \in Worlds
  PROVE  /\ IsFiniteSet(world.actions) /\ \A e \in world.actions : e.ex \in Int /\ e.published \in Nat \ {0}
         /\ WindowDays \in Nat \ {0} /\ Overlap \in Nat /\ Backfill \in Nat /\ world.from \in Nat
  BY CatalogueAssumption

\* At first nothing is stored, and no top-up has been.
LEMMA ActionsStart == ASSUME CatalogueInit PROVE ActionsInv
  BY ActionsAre DEF CatalogueInit, Rested, ActionsInv, TopFits, IsTop, NoGap, Windowed, NothingSkipped

\* A top-up resumes an overlap before a stored action, or where a first one begins: what lies between is stored.
LEMMA RefreshLeavesNone == ASSUME ActionsInv, NEW t \in world.files, Refresh(t) PROVE ActionsInv'
<1>. DEFINE past == {x \in actions : x.ex <= day}
            days == {e.ex : e \in past}
<1>1. /\ day' = day /\ world' = world /\ actions' = actions /\ day \in Nat /\ top'.at = "windows" /\ top'.today = day
      /\ top'.next = Resume(day) /\ top'.covered = top.covered
  BY DEF Refresh, ActionsInv, TopFits, IsTop
<1>2. Resume(day) \in Int /\ \A e \in world.actions : e.ex \in day - Backfill .. Resume(day) - 1 /\ InTime(e, day) => e \in actions
  <2>1. CASE \E e \in actions : e.ex <= day
    <3>1. IsFiniteSet(days) /\ days # {} /\ \A x \in days : x \in Int
      <4>1. IsFiniteSet(past)
        BY ActionsAre, FS_Subset DEF ActionsInv
      <4>2. IsFiniteSet(days)
        <5>. DEFINE g == [e \in past |-> e.ex]
        <5>1. days = {g[e] : e \in past}
          OBVIOUS
        <5>. HIDE DEF g, past, days
        <5>. QED BY <4>1, <5>1, ImagesFinite
      <4>. QED BY <2>1, <4>2, ActionsAre DEF ActionsInv
    <3>2. Max(days) \in days
      <4>. HIDE DEF days
      <4>. QED BY <3>1, LatestIn
    <3>3. PICK a \in actions : a.ex = Max(days)
      BY <3>2
    <3>4. Resume(day) = a.ex - Overlap
      BY <2>1, <3>3 DEF Resume
    <3>5. a.ex \in Int /\ Overlap \in Int
      BY ActionsAre DEF ActionsInv
    <3>. QED BY <3>4, <3>5 DEF ActionsInv, NoGap, InTime
  <2>2. CASE ~ \E e \in actions : e.ex <= day
    BY <1>1, <2>2, ActionsAre DEF ActionsInv, Resume
  <2>. QED BY <2>1, <2>2
<1>3. Windowed'
  BY <1>1, <1>2 DEF Windowed, InTime
<1>4. TopFits'
  <2>1. top' = [top EXCEPT !.at = "windows", !.today = day, !.next = Resume(day), !.failed = FALSE, !.before = shelf, !.whole = top'.whole]
    BY DEF Refresh, ActionsInv, TopFits, IsTop
  <2>2. IsTop(top')
    BY <2>1 DEF ActionsInv, TopFits, IsTop
  <2>. QED BY <1>1, <1>2, <2>2 DEF ActionsInv, TopFits, IsTop
<1>. QED BY <1>1, <1>3, <1>4 DEF ActionsInv, NoGap, NothingSkipped

\* A window that arrives joins the one before.
LEMMA WindowLeavesNone == ASSUME ActionsInv, WindowArrives PROVE ActionsInv'
<1>. DEFINE T == top.today
            found == {e \in world.actions : e.ex \in top.next .. WindowEnd /\ e.published <= day}
<1>1. /\ day' = day /\ world' = world /\ actions' = actions \cup found /\ day \in Nat
      /\ T \in Nat /\ T <= day /\ top.next \in Int /\ top.next <= T /\ top.at = "windows"
      /\ top'.at = "windows" /\ top'.today = T /\ top'.next = WindowEnd + 1 /\ top'.covered = top.covered
  BY DEF WindowArrives, MoreWindows, ActionsInv, TopFits, IsTop
<1>2. WindowEnd \in Int /\ WindowEnd <= T
  BY <1>1, ActionsAre DEF WindowEnd, ActionsInv
<1>3. \A e \in world.actions : e.ex \in Int /\ e.published \in Nat /\ Overlap \in Nat /\ Backfill \in Nat
  BY ActionsAre DEF ActionsInv
<1>4. Windowed'
  <2>. SUFFICES ASSUME NEW e \in world.actions, e.ex \in T - Backfill .. WindowEnd, InTime(e, T) PROVE e \in actions \cup found
    BY <1>1, <1>2, <1>3 DEF Windowed, InTime
  <2>1. CASE e.ex < top.next
    <3>1. e.ex \in T - Backfill .. top.next - 1
      BY <1>1, <1>2, <1>3, <2>1
    <3>. QED BY <1>1, <3>1 DEF ActionsInv, Windowed
  <2>2. CASE ~(e.ex < top.next)
    BY <1>1, <1>2, <1>3, <2>2 DEF InTime
  <2>. QED BY <2>1, <2>2
<1>5. NoGap'
  <2>. SUFFICES ASSUME NEW a \in actions \cup found, NEW e \in world.actions, e.ex \in day - Backfill .. a.ex - Overlap - 1, e.published <= e.ex + Overlap
                PROVE  e \in actions \cup found
    BY <1>1 DEF NoGap
  <2>1. CASE a \in actions
    BY <2>1 DEF ActionsInv, NoGap
  <2>2. CASE a \in found
    <3>1. a.ex \in Int /\ a.ex <= WindowEnd
      BY <1>2, <1>3, <2>2
    <3>2. e.ex \in T - Backfill .. WindowEnd /\ e.published <= T
      BY <1>1, <1>2, <1>3, <3>1
    <3>3. e.ex \in top'.today - Backfill .. top'.next - 1 /\ InTime(e, T)
      BY <1>1, <1>2, <1>3, <3>2 DEF InTime
    <3>. QED BY <1>1, <1>4, <3>3 DEF Windowed, InTime
  <2>. QED BY <2>1, <2>2
<1>6. TopFits'
  <2>1. top' = [top EXCEPT !.next = WindowEnd + 1]
    BY DEF WindowArrives
  <2>2. IsTop(top')
    BY <2>1 DEF ActionsInv, TopFits, IsTop
  <2>. QED BY <1>1, <1>2, <2>2 DEF ActionsInv, TopFits, IsTop
<1>7. \A a \in actions' : a \in world.actions /\ a.ex <= day
  BY <1>1, <1>2, <1>3 DEF ActionsInv
<1>8. NothingSkipped'
  BY <1>1 DEF ActionsInv, NothingSkipped
<1>. QED BY <1>1, <1>4, <1>5, <1>6, <1>7, <1>8 DEF ActionsInv

\* The windows of a top-up that has not failed reach its day.
LEMMA EndLeavesNone == ASSUME ActionsInv, RefreshEnds PROVE ActionsInv'
<1>. DEFINE covered == IF top.failed THEN top.covered ELSE top.today
<1>1. /\ day' = day /\ world' = world /\ actions' = actions /\ top.at = "windows" /\ (top.failed \/ top.next > top.today)
      /\ TopFits
  BY DEF RefreshEnds, ActionsInv
<1>2. top'.at # "windows" /\ top'.covered = covered /\ TopFits'
  <2>1. top' = [Rested(covered) EXCEPT !.at = top'.at, !.funds = top'.funds] /\ top'.at \in {"idle", "navs"}
    BY DEF RefreshEnds, Rested
  <2>2. covered \in Nat /\ covered <= day
    BY <1>1 DEF TopFits
  <2>. HIDE DEF covered
  <2>3. IsTop(top') /\ top'.covered = covered /\ top'.today = 0 /\ top'.next = 0
    BY <2>1 DEF IsTop, Rested
  <2>. QED BY <1>1, <2>1, <2>2, <2>3 DEF TopFits, ActionsInv
<1>3. NothingSkipped'
  <2>. SUFFICES ASSUME NEW e \in world.actions, e.ex \in covered - Backfill .. covered, e.published <= covered, e.published <= e.ex + Overlap PROVE e \in actions
    BY <1>1, <1>2 DEF NothingSkipped
  <2>1. CASE top.failed
    BY <2>1 DEF ActionsInv, NothingSkipped
  <2>2. CASE ~ top.failed
    <3>1. e.ex \in Int /\ Backfill \in Nat
      BY ActionsAre DEF ActionsInv
    <3>2. e.ex \in top.today - Backfill .. top.next - 1 /\ InTime(e, top.today)
      BY <1>1, <2>2, <3>1 DEF TopFits, InTime
    <3>. QED BY <1>1, <3>2 DEF ActionsInv, Windowed
  <2>. QED BY <2>1, <2>2
<1>. QED BY <1>1, <1>2, <1>3 DEF ActionsInv, NoGap, Windowed

\* The other steps store nothing, and leave the windows as they are or give up the refresh.
LEMMA OthersLeaveNone ==
  ASSUME ActionsInv, \/ WindowFails \/ RefreshDies \/ NavsDone \/ DayPasses \/ UNCHANGED catalogueVars
                     \/ \E f \in Growth, answer \in world.navs : NavSync(f, answer)
  PROVE  ActionsInv'
<1>1. /\ world' = world /\ actions' = actions /\ day \in Nat /\ day' \in Nat /\ day <= day'
      /\ top'.covered = top.covered /\ (top'.at = "windows" => top.at = "windows" /\ top'.today = top.today /\ top'.next = top.next)
      /\ TopFits'
  <2>1. CASE DayPasses
    BY <2>1 DEF DayPasses, ActionsInv, TopFits, IsTop
  <2>2. CASE WindowFails
    <3>1. top' = [top EXCEPT !.failed = TRUE] /\ IsTop(top)
      BY <2>2 DEF WindowFails, ActionsInv, TopFits
    <3>2. IsTop(top') /\ top'.at = top.at /\ top'.today = top.today /\ top'.next = top.next /\ top'.covered = top.covered
      BY <3>1 DEF IsTop
    <3>. QED BY <2>2, <3>2 DEF WindowFails, ActionsInv, TopFits
  <2>3. CASE RefreshDies
    BY <2>3 DEF RefreshDies, Rested, ActionsInv, TopFits, IsTop
  <2>4. CASE NavsDone
    BY <2>4 DEF NavsDone, Rested, ActionsInv, TopFits, IsTop
  <2>5. CASE UNCHANGED catalogueVars
    BY <2>5 DEF catalogueVars, ActionsInv, TopFits, IsTop
  <2>6. ASSUME NEW f \in Growth, NEW answer \in world.navs, NavSync(f, answer)
        PROVE  /\ UNCHANGED <<world, day, shelf, links, actions>>
               /\ \E s : top' = [top EXCEPT !.funds = @ \ {f}, !.stored = s]
    BY <2>6 DEF NavSync
  <2>7. CASE \E f \in Growth, answer \in world.navs : NavSync(f, answer)
    <3>1. PICK f \in Growth : UNCHANGED <<world, day, actions>> /\ \E s : top' = [top EXCEPT !.funds = @ \ {f}, !.stored = s]
      BY <2>6, <2>7
    <3>2. IsTop(top)
      BY DEF ActionsInv, TopFits
    <3>3. IsTop(top') /\ top'.at = top.at /\ top'.today = top.today /\ top'.next = top.next /\ top'.covered = top.covered
      BY <3>1, <3>2 DEF IsTop
    <3>. QED BY <3>1, <3>3 DEF ActionsInv, TopFits
  <2>. QED BY <2>1, <2>2, <2>3, <2>4, <2>5, <2>7
<1>2. \A e \in world.actions : e.ex \in Int /\ Overlap \in Nat /\ Backfill \in Nat
  BY ActionsAre DEF ActionsInv
<1>3. NoGap'
  BY <1>1, <1>2 DEF ActionsInv, NoGap
<1>4. Windowed'
  BY <1>1 DEF ActionsInv, Windowed
<1>5. \A a \in actions : a.ex <= day'
  BY <1>1, <1>2 DEF ActionsInv
<1>6. NothingSkipped'
  BY <1>1 DEF ActionsInv, NothingSkipped
<1>. QED BY <1>1, <1>3, <1>4, <1>5, <1>6 DEF ActionsInv

\* Whatever windows fail, workers die and announcements are late: the windows of a top-up join those of before.
THEOREM ActionsInvariance == CatalogueSpec => []ActionsInv
<1>1. CatalogueInit => ActionsInv
  BY ActionsStart
<1>2. ActionsInv /\ [CatalogueNext]_catalogueVars => ActionsInv'
  <2>. SUFFICES ASSUME ActionsInv, [CatalogueNext]_catalogueVars PROVE ActionsInv'
    OBVIOUS
  <2>1. CASE \E t \in world.files : Refresh(t)
    BY <2>1, RefreshLeavesNone
  <2>2. CASE WindowArrives
    BY <2>2, WindowLeavesNone
  <2>3. CASE RefreshEnds
    BY <2>3, EndLeavesNone
  <2>4. CASE \/ WindowFails \/ RefreshDies \/ NavsDone \/ DayPasses \/ UNCHANGED catalogueVars
             \/ \E f \in Growth, answer \in world.navs : NavSync(f, answer)
    BY <2>4, OthersLeaveNone
  <2>. QED BY <2>1, <2>2, <2>3, <2>4 DEF CatalogueNext
<1>. QED BY <1>1, <1>2, PTL DEF CatalogueSpec

\* A complete top-up has stored every corporate action of its years that was published in time (catalogue/sync.py, sync_actions).
THEOREM NoActionSkipped == CatalogueSpec => []NothingSkipped
<1>1. ActionsInv => NothingSkipped
  BY DEF ActionsInv
<1>. QED BY <1>1, ActionsInvariance, PTL

\* The rows known: finitely many, each of its kind, active or not.
RowsFit(rows) ==
  /\ IsFiniteSet(DOMAIN rows)
  /\ \A k \in DOMAIN rows : {"kind", "on", "sector"} \subseteq DOMAIN rows[k] /\ rows[k].kind = KindOf[k] /\ rows[k].on \in BOOLEAN

\* What a file says about securities of one kind.
LinesFit(lines, kind) ==
  /\ IsFiniteSet(DOMAIN lines)
  /\ \A k \in DOMAIN lines : /\ KindOf[k] = kind /\ "on" \in DOMAIN lines[k] /\ lines[k].on \in BOOLEAN
                             /\ "kind" \notin DOMAIN lines[k] /\ "sector" \notin DOMAIN lines[k]

\* No row is lost, and none of another kind changes; no sector is forgotten.
Kept(rows, new, kind) ==
  /\ RowsFit(new) /\ DOMAIN rows \subseteq DOMAIN new
  /\ \A k \in DOMAIN rows : rows[k].sector # Absent => new[k].sector # Absent
  /\ \A other \in {"stock", "etf", "mutual_fund"} \ {kind} : ActiveOf(new, other) = ActiveOf(rows, other)

FewGone(rows, new, kind) ==
  100 * Cardinality(ActiveOf(rows, kind) \ ActiveOf(new, kind)) <= (100 - MinComplete) * Cardinality(ActiveOf(rows, kind) \cup ActiveOf(new, kind))

\* The rows once the lines of a file are in: those of the file are as it says, and keep their sector.
LEMMA UpsertedIs ==
  ASSUME NEW rows, RowsFit(rows), NEW lines, NEW kind, LinesFit(lines, kind), NEW new, new = Upserted(rows, lines)
  PROVE  /\ DOMAIN new = DOMAIN rows \cup DOMAIN lines /\ RowsFit(new)
         /\ \A k \in DOMAIN lines : new[k].on = lines[k].on
         /\ \A k \in DOMAIN rows : new[k].sector = rows[k].sector
         /\ \A k \in DOMAIN rows \ DOMAIN lines : new[k] = rows[k]
<1>1. DOMAIN new = DOMAIN rows \cup DOMAIN lines
  BY DEF Upserted
<1>2. IsFiniteSet(DOMAIN new)
  <2>1. IsFiniteSet(DOMAIN rows) /\ IsFiniteSet(DOMAIN lines)
    BY DEF RowsFit, LinesFit
  <2>. QED BY <1>1, <2>1, FS_Union
<1>3. \A k \in DOMAIN rows \ DOMAIN lines : new[k] = rows[k]
  BY DEF Upserted
<1>4. ASSUME NEW k \in DOMAIN lines
      PROVE  /\ new[k].on = lines[k].on /\ new[k].kind = KindOf[k] /\ {"kind", "on", "sector"} \subseteq DOMAIN new[k]
             /\ k \in DOMAIN rows => new[k].sector = rows[k].sector
  <2>. DEFINE old == IF k \in DOMAIN rows THEN rows[k] ELSE NewRow(k)
              said == Said(lines[k])
  <2>1. new[k] = Overlaid(said, old)
    BY DEF Upserted
  <2>2. {"kind", "on", "sector"} \subseteq DOMAIN old /\ old.kind = KindOf[k] /\ k \in DOMAIN rows => old.sector = rows[k].sector
    BY DEF RowsFit, NewRow
  <2>2a. old.kind = KindOf[k] /\ {"kind", "on", "sector"} \subseteq DOMAIN old
    BY DEF RowsFit, NewRow
  <2>3. "on" \in DOMAIN said /\ said.on = lines[k].on /\ "kind" \notin DOMAIN said /\ "sector" \notin DOMAIN said
    <3>1. lines[k].on # Absent
      BY CatalogueAssumption DEF LinesFit
    <3>. QED BY <3>1 DEF Said, LinesFit
  <2>. HIDE DEF old, said
  <2>4. new[k] = [x \in DOMAIN said \cup DOMAIN old |-> IF x \in DOMAIN said THEN said[x] ELSE old[x]]
    BY <2>1 DEF Overlaid
  <2>. QED BY <2>2, <2>2a, <2>3, <2>4
<1>5. ASSUME NEW k \in DOMAIN new PROVE {"kind", "on", "sector"} \subseteq DOMAIN new[k] /\ new[k].kind = KindOf[k] /\ new[k].on \in BOOLEAN
  <2>1. CASE k \in DOMAIN lines
    BY <1>4, <2>1 DEF LinesFit
  <2>2. CASE k \notin DOMAIN lines
    BY <1>1, <1>3, <2>2 DEF RowsFit
  <2>. QED BY <2>1, <2>2
<1>6. \A k \in DOMAIN rows : new[k].sector = rows[k].sector
  BY <1>3, <1>4
<1>. QED BY <1>1, <1>2, <1>3, <1>4, <1>5, <1>6 DEF RowsFit

\* The active rows of a kind are finitely many.
LEMMA ActiveFinite ==
  ASSUME NEW rows, RowsFit(rows), NEW kind
  PROVE  IsFiniteSet(ActiveOf(rows, kind)) /\ \A k : k \in ActiveOf(rows, kind) <=> k \in DOMAIN rows /\ KindOf[k] = kind /\ rows[k].on
<1>1. ActiveOf(rows, kind) \subseteq DOMAIN rows
  BY DEF ActiveOf
<1>. QED BY <1>1, FS_Subset DEF ActiveOf, RowsFit

\* Where no row is retired, few are.
LEMMA NoneGone == ASSUME NEW rows, RowsFit(rows), NEW new, RowsFit(new), NEW kind, ActiveOf(rows, kind) \subseteq ActiveOf(new, kind) PROVE FewGone(rows, new, kind)
<1>1. ActiveOf(rows, kind) \ ActiveOf(new, kind) = {}
  OBVIOUS
<1>2. Cardinality({}) = 0
  BY FS_EmptySet
<1>3. Cardinality(ActiveOf(rows, kind) \cup ActiveOf(new, kind)) \in Nat
  BY ActiveFinite, FS_Union, FS_CardinalityType
<1>4. \A m \in 0 .. 100, n \in Nat : 0 <= (100 - m) * n
  OBVIOUS
<1>5. MinComplete \in 0 .. 100
  BY CatalogueAssumption
<1>6. 0 <= (100 - MinComplete) * Cardinality(ActiveOf(rows, kind) \cup ActiveOf(new, kind))
  BY <1>3, <1>4, <1>5
<1>. QED BY <1>1, <1>2, <1>6 DEF FewGone

\* A file keeps the rows of other kinds; it retires few if all its lines are active, and none if it is truncated.
LEMMA FileKeeps ==
  ASSUME NEW rows, RowsFit(rows), NEW lines, NEW kind \in {"stock", "etf", "mutual_fund"}, LinesFit(lines, kind), NEW new, new = FromFile(rows, kind, lines)
  PROVE  Kept(rows, new, kind) /\ ((\A k \in DOMAIN lines : lines[k].on) => FewGone(rows, new, kind))
<1>. DEFINE mid == Upserted(rows, lines)
            seen == DOMAIN lines
            A == ActiveOf(mid, kind)
            W == ActiveOf(rows, kind)
<1>1. /\ DOMAIN mid = DOMAIN rows \cup seen /\ RowsFit(mid)
      /\ \A k \in seen : mid[k].on = lines[k].on
      /\ \A k \in DOMAIN rows : mid[k].sector = rows[k].sector
      /\ \A k \in DOMAIN rows \ seen : mid[k] = rows[k]
  BY UpsertedIs
<1>2. new = Retired(mid, kind, seen)
  BY DEF FromFile
<1>. HIDE DEF mid
<1>3. IsFiniteSet(A) /\ IsFiniteSet(W) /\ IsFiniteSet(seen)
  BY <1>1, ActiveFinite DEF LinesFit
<1>4. /\ DOMAIN new = DOMAIN mid
      /\ \A k \in DOMAIN mid : new[k] = IF ~ Truncated(seen, A) /\ k \in A \ seen THEN [mid[k] EXCEPT !.on = FALSE] ELSE mid[k]
  BY <1>2 DEF Retired
<1>5. ASSUME NEW k \in DOMAIN new
      PROVE  /\ {"kind", "on", "sector"} \subseteq DOMAIN new[k] /\ new[k].kind = KindOf[k] /\ new[k].on \in BOOLEAN /\ new[k].sector = mid[k].sector
             /\ new[k].on <=> mid[k].on /\ (Truncated(seen, A) \/ k \notin A \ seen)
  <2>1. {"kind", "on", "sector"} \subseteq DOMAIN mid[k] /\ mid[k].kind = KindOf[k] /\ mid[k].on \in BOOLEAN
    BY <1>1, <1>4 DEF RowsFit
  <2>2. CASE ~ Truncated(seen, A) /\ k \in A \ seen
    <3>1. new[k] = [mid[k] EXCEPT !.on = FALSE]
      BY <1>4, <2>2
    <3>2. new[k].on = FALSE /\ new[k].kind = mid[k].kind /\ new[k].sector = mid[k].sector /\ DOMAIN new[k] = DOMAIN mid[k]
      BY <2>1, <3>1
    <3>. HIDE DEF A
    <3>. QED BY <2>1, <2>2, <3>2
  <2>3. CASE ~(~ Truncated(seen, A) /\ k \in A \ seen)
    <3>1. new[k] = mid[k]
      BY <1>4, <2>3
    <3>. HIDE DEF A
    <3>. QED BY <2>1, <2>3, <3>1
  <2>. QED BY <2>2, <2>3
<1>6. RowsFit(new)
  BY <1>1, <1>4, <1>5 DEF RowsFit
<1>7. ASSUME NEW other \in {"stock", "etf", "mutual_fund"} \ {kind} PROVE ActiveOf(new, other) = ActiveOf(rows, other)
  <2>1. ASSUME NEW k PROVE k \in ActiveOf(new, other) <=> k \in ActiveOf(rows, other)
    <3>1. k \in ActiveOf(new, other) <=> k \in DOMAIN new /\ KindOf[k] = other /\ new[k].on
      BY <1>6, ActiveFinite
    <3>2. k \in ActiveOf(rows, other) <=> k \in DOMAIN rows /\ KindOf[k] = other /\ rows[k].on
      BY ActiveFinite
    <3>3. k \in A => KindOf[k] = kind
      BY <1>1, ActiveFinite
    <3>4. k \in seen => KindOf[k] = kind
      BY DEF LinesFit
    <3>5. KindOf[k] = other => /\ k \in DOMAIN new <=> k \in DOMAIN rows
                               /\ k \in DOMAIN rows => (new[k].on <=> rows[k].on)
      BY <1>1, <1>4, <1>5, <3>3, <3>4
    <3>. QED BY <3>1, <3>2, <3>5
  <2>. QED BY <2>1
<1>8. Kept(rows, new, kind)
  BY <1>1, <1>4, <1>5, <1>6, <1>7 DEF Kept
<1>9. ASSUME \A k \in seen : lines[k].on PROVE FewGone(rows, new, kind)
  <2>. DEFINE N == ActiveOf(new, kind)
  <2>1. \A k : k \in W <=> k \in DOMAIN rows /\ KindOf[k] = kind /\ rows[k].on
    BY ActiveFinite
  <2>2. \A k : k \in A <=> k \in DOMAIN mid /\ KindOf[k] = kind /\ mid[k].on
    BY <1>1, ActiveFinite
  <2>3. \A k : k \in N <=> k \in DOMAIN new /\ KindOf[k] = kind /\ new[k].on
    BY <1>6, ActiveFinite
  <2>4. \A k \in seen : KindOf[k] = kind /\ mid[k].on
    BY <1>1, <1>9 DEF LinesFit
  <2>. HIDE DEF W, A, N
  <2>5. W \subseteq A /\ seen \subseteq A
    BY <1>1, <2>1, <2>2, <2>4
  <2>6. CASE Truncated(seen, A)
    <3>1. W \subseteq N
      BY <1>1, <1>4, <1>5, <2>1, <2>2, <2>3, <2>5, <2>6
    <3>. QED BY <1>6, <3>1, NoneGone DEF W, N
  <2>7. CASE ~ Truncated(seen, A)
    <3>1. N = seen
      BY <1>1, <1>4, <1>5, <2>2, <2>3, <2>4, <2>7
    <3>2. W \ N \subseteq A \ seen /\ W \cup N \subseteq A
      BY <2>5, <3>1
    <3>3. \A k \in A : k \in seen \/ k \in W
      BY <1>1, <2>1, <2>2
    <3>4. W \cup N = A
      BY <3>1, <3>2, <3>3
    <3>5. Cardinality(A \ seen) = Cardinality(A) - Cardinality(seen) /\ IsFiniteSet(A \ seen)
      <4>1. Cardinality(A \ seen) = Cardinality(A) - Cardinality(A \cap seen) /\ IsFiniteSet(A \ seen)
        BY <1>3, FS_Difference
      <4>2. A \cap seen = seen
        BY <2>5
      <4>. QED BY <4>1, <4>2
    <3>6. Cardinality(W \ N) <= Cardinality(A \ seen) /\ Cardinality(W \ N) \in Nat
      BY <3>2, <3>5, FS_Subset, FS_CardinalityType
    <3>7. Cardinality(A) \in Nat /\ Cardinality(seen) \in Nat /\ MinComplete \in 0 .. 100
      BY <1>3, FS_CardinalityType, CatalogueAssumption
    <3>8. ~(100 * Cardinality(seen) < MinComplete * Cardinality(A))
      BY <2>7 DEF Truncated
    <3>9. \A a, s, g \in Nat, m \in 0 .. 100 : ~(100 * s < m * a) /\ g <= a - s => 100 * g <= (100 - m) * a
      <4>. TAKE a, s, g \in Nat, m \in 0 .. 100
      <4>1. m * a \in Int /\ (100 - m) * a = 100 * a - m * a
        OBVIOUS
      <4>. QED BY <4>1
    <3>10. 100 * Cardinality(W \ N) <= (100 - MinComplete) * Cardinality(A)
      BY <3>5, <3>6, <3>7, <3>8, <3>9
    <3>. QED BY <3>4, <3>10 DEF FewGone, W, N
  <2>. QED BY <2>6, <2>7
<1>. QED BY <1>8, <1>9

\* The lines of a file say whether a row is active, and nothing of its kind or its sector.
LEMMA SecuritiesFit ==
  ASSUME NEW w \in Worlds, NEW t \in w.files
  PROVE  /\ t.equity_l # Absent => LinesFit(SecurityLines(t.equity_l), "stock") /\ \A k \in DOMAIN SecurityLines(t.equity_l) : SecurityLines(t.equity_l)[k].on
         /\ t.etf_list # Absent => LinesFit(SecurityLines(t.etf_list), "etf") /\ \A k \in DOMAIN SecurityLines(t.etf_list) : SecurityLines(t.etf_list)[k].on
<1>1. ASSUME NEW file, NEW kind, NEW columns, file # Absent, Filed(file, kind, columns), {"on", "kind", "sector"} \cap columns = {},
             NEW lines, lines = SecurityLines(file)
      PROVE  LinesFit(lines, kind) /\ \A k \in DOMAIN lines : lines[k].on
  <2>1. IsFiniteSet(DOMAIN file) /\ DOMAIN lines \subseteq DOMAIN file
    BY <1>1 DEF Filed, SecurityLines
  <2>2. IsFiniteSet(DOMAIN lines)
    BY <2>1, FS_Subset
  <2>3. ASSUME NEW k \in DOMAIN lines
        PROVE  KindOf[k] = kind /\ DOMAIN lines[k] = DOMAIN file[k] \cup {"on"} /\ lines[k].on = TRUE /\ "kind" \notin DOMAIN file[k] /\ "sector" \notin DOMAIN file[k]
    <3>1. lines[k] = Overlaid([on |-> TRUE], file[k])
      BY <1>1, <2>3 DEF SecurityLines
    <3>2. DOMAIN lines[k] = DOMAIN file[k] \cup {"on"} /\ lines[k].on = TRUE
      BY <3>1 DEF Overlaid
    <3>. QED BY <1>1, <2>1, <2>3, <3>2 DEF Filed
  <2>4. \A k \in DOMAIN lines : lines[k].on = TRUE
    BY <2>3
  <2>5. \A k \in DOMAIN lines : /\ KindOf[k] = kind /\ "on" \in DOMAIN lines[k] /\ lines[k].on \in BOOLEAN
                               /\ "kind" \notin DOMAIN lines[k] /\ "sector" \notin DOMAIN lines[k]
    <3>. TAKE k \in DOMAIN lines
    <3>1. KindOf[k] = kind /\ DOMAIN lines[k] = DOMAIN file[k] \cup {"on"} /\ "kind" \notin DOMAIN file[k] /\ "sector" \notin DOMAIN file[k]
      BY <2>3
    <3>2. "kind" # "on" /\ "sector" # "on" /\ lines[k].on \in BOOLEAN
      BY <2>4
    <3>. QED BY <3>1, <3>2
  <2>6. LinesFit(lines, kind)
    BY <2>2, <2>5 DEF LinesFit
  <2>. QED BY <2>4, <2>6
<1>2. Filed(t.equity_l, "stock", {"symbol", "series"}) /\ Filed(t.etf_list, "etf", {"symbol"})
  BY CatalogueAssumption
<1>3. {"on", "kind", "sector"} \cap {"symbol", "series"} = {} /\ {"on", "kind", "sector"} \cap {"symbol"} = {}
  OBVIOUS
<1>4. t.equity_l # Absent => LinesFit(SecurityLines(t.equity_l), "stock") /\ \A k \in DOMAIN SecurityLines(t.equity_l) : SecurityLines(t.equity_l)[k].on
  BY <1>1, <1>2, <1>3
<1>5. t.etf_list # Absent => LinesFit(SecurityLines(t.etf_list), "etf") /\ \A k \in DOMAIN SecurityLines(t.etf_list) : SecurityLines(t.etf_list)[k].on
  BY <1>1, <1>2, <1>3
<1>. QED BY <1>4, <1>5

\* An ETF trades in the series EQ.
EtfLines(t) == [k \in DOMAIN SecurityLines(t.etf_list) |-> Overlaid([series |-> "EQ"], SecurityLines(t.etf_list)[k])]

\* So do the lines of the ETFs.
LEMMA EtfsFit ==
  ASSUME NEW w \in Worlds, NEW t \in w.files, t.etf_list # Absent
  PROVE  LinesFit(EtfLines(t), "etf") /\ \A k \in DOMAIN EtfLines(t) : EtfLines(t)[k].on
<1>. DEFINE lines == SecurityLines(t.etf_list)
<1>1. LinesFit(lines, "etf") /\ \A k \in DOMAIN lines : lines[k].on
  BY SecuritiesFit
<1>. HIDE DEF lines
<1>2. DOMAIN EtfLines(t) = DOMAIN lines
  BY DEF EtfLines, lines
<1>3. ASSUME NEW k \in DOMAIN lines
      PROVE  DOMAIN EtfLines(t)[k] = DOMAIN lines[k] \cup {"series"} /\ EtfLines(t)[k].on = lines[k].on
  <2>1. EtfLines(t)[k] = Overlaid([series |-> "EQ"], lines[k])
    BY <1>3 DEF EtfLines, lines
  <2>. QED BY <1>1, <2>1 DEF Overlaid, LinesFit
<1>. QED BY <1>1, <1>2, <1>3 DEF LinesFit

\* So do the lines of the funds.
LEMMA FundsFit ==
  ASSUME NEW w \in Worlds, NEW t \in w.files, t.amfi # Absent
  PROVE  LinesFit(FundLines(t.amfi), "mutual_fund")
<1>. DEFINE file == t.amfi
            lines == FundLines(file)
<1>1. IsFiniteSet(DOMAIN file) /\ \A k \in DOMAIN file : KindOf[k] = "mutual_fund" /\ DOMAIN file[k] \subseteq {"nav", "date"}
  BY CatalogueAssumption DEF Filed
<1>2. DOMAIN lines = Priced(file) /\ Priced(file) \subseteq DOMAIN file
  BY DEF FundLines, Priced
<1>3. IsFiniteSet(DOMAIN lines)
  BY <1>1, <1>2, FS_Subset
<1>4. ASSUME NEW k \in DOMAIN lines
      PROVE  DOMAIN lines[k] = DOMAIN file[k] \cup {"on"} /\ lines[k].on \in BOOLEAN
  <2>. DEFINE on == Newest(file) - file[k].date <= StaleDays
  <2>1. lines[k] = Overlaid([on |-> on], file[k])
    BY <1>2, <1>4 DEF FundLines
  <2>2. on \in BOOLEAN
    OBVIOUS
  <2>. HIDE DEF on
  <2>. QED BY <2>1, <2>2 DEF Overlaid
<1>. HIDE DEF lines, file
<1>5. LinesFit(lines, "mutual_fund")
  BY <1>1, <1>2, <1>3, <1>4 DEF LinesFit
<1>. QED BY <1>5 DEF lines, file

-----------------------------------------------------------------------------
\* What a step does to the rows adds up.
LEMMA SectorsKeep ==
  ASSUME NEW rows, RowsFit(rows), NEW map, \A k \in DOMAIN map : map[k] # Absent, NEW new, new = Sectored(rows, map) \/ new = Instrumented(rows)
  PROVE  /\ RowsFit(new) /\ DOMAIN new = DOMAIN rows /\ \A k \in DOMAIN rows : rows[k].sector # Absent => new[k].sector # Absent
         /\ \A kind : ActiveOf(new, kind) = ActiveOf(rows, kind)
<1>1. DOMAIN new = DOMAIN rows
  BY DEF Sectored, Instrumented
<1>2. ASSUME NEW k \in DOMAIN rows
      PROVE  /\ {"kind", "on", "sector"} \subseteq DOMAIN new[k] /\ new[k].kind = rows[k].kind /\ new[k].on = rows[k].on
             /\ rows[k].sector # Absent => new[k].sector # Absent
  <2>1. {"kind", "on", "sector"} \subseteq DOMAIN rows[k]
    BY DEF RowsFit
  <2>2. \/ new[k] = rows[k]
        \/ k \in DOMAIN map /\ new[k] = [rows[k] EXCEPT !.sector = map[k]]
        \/ new[k] = [rows[k] EXCEPT !.instrument = TRUE]
    BY DEF Sectored, Instrumented
  <2>. QED BY <2>1, <2>2
<1>3. RowsFit(new)
  BY <1>1, <1>2 DEF RowsFit
<1>4. \A kind : ActiveOf(new, kind) = ActiveOf(rows, kind)
  BY <1>1, <1>2 DEF ActiveOf
<1>. QED BY <1>1, <1>2, <1>3, <1>4

\* The files that arrived, one after the other: stocks and ETFs change with their own file only.
LEMMA AppliedKeeps ==
  ASSUME NEW rows, RowsFit(rows), NEW w \in Worlds, NEW t \in w.files, NEW new, new = Applied(rows, t)
  PROVE  /\ RowsFit(new) /\ \A k \in DOMAIN rows : k \in DOMAIN new /\ (rows[k].sector # Absent => new[k].sector # Absent)
         /\ FewGone(rows, new, "stock") /\ FewGone(rows, new, "etf")
<1>. DEFINE stocks  == When(t.equity_l, rows, FromFile(rows, "stock", SecurityLines(t.equity_l)))
            etfs    == When(t.etf_list, stocks, FromFile(stocks, "etf", EtfLines(t)))
            sectors == When(t.sector_map, etfs, Sectored(etfs, t.sector_map))
            funds   == When(t.amfi, sectors, FromFile(sectors, "mutual_fund", FundLines(t.amfi)))
<1>1. new = Instrumented(funds)
  BY DEF Applied, EtfLines
<1>2. Kept(rows, stocks, "stock") /\ FewGone(rows, stocks, "stock")
  <2>1. CASE t.equity_l = Absent
    <3>1. stocks = rows
      BY <2>1 DEF When
    <3>. QED BY <3>1, NoneGone DEF Kept
  <2>2. CASE t.equity_l # Absent
    <3>1. stocks = FromFile(rows, "stock", SecurityLines(t.equity_l))
      BY <2>2 DEF When
    <3>. HIDE DEF stocks
    <3>. QED BY <2>2, <3>1, SecuritiesFit, FileKeeps
  <2>. QED BY <2>1, <2>2
<1>. HIDE DEF stocks
<1>3. Kept(stocks, etfs, "etf") /\ FewGone(stocks, etfs, "etf")
  <2>0. RowsFit(stocks)
    BY <1>2 DEF Kept
  <2>1. CASE t.etf_list = Absent
    <3>1. etfs = stocks
      BY <2>1 DEF When
    <3>. QED BY <2>0, <3>1, NoneGone DEF Kept
  <2>2. CASE t.etf_list # Absent
    <3>1. etfs = FromFile(stocks, "etf", EtfLines(t))
      BY <2>2 DEF When
    <3>. HIDE DEF etfs
    <3>. QED BY <2>0, <2>2, <3>1, EtfsFit, FileKeeps
  <2>. QED BY <2>1, <2>2
<1>. HIDE DEF etfs
<1>4. /\ RowsFit(sectors) /\ DOMAIN sectors = DOMAIN etfs /\ \A k \in DOMAIN etfs : etfs[k].sector # Absent => sectors[k].sector # Absent
      /\ \A kind : ActiveOf(sectors, kind) = ActiveOf(etfs, kind)
  <2>0. RowsFit(etfs)
    BY <1>3 DEF Kept
  <2>1. CASE t.sector_map = Absent
    BY <2>0, <2>1 DEF When
  <2>2. CASE t.sector_map # Absent
    <3>1. \A k \in DOMAIN t.sector_map : t.sector_map[k] # Absent
      BY <2>2, CatalogueAssumption
    <3>2. sectors = Sectored(etfs, t.sector_map)
      BY <2>2 DEF When
    <3>. HIDE DEF sectors
    <3>. QED BY <2>0, <3>1, <3>2, SectorsKeep
  <2>. QED BY <2>1, <2>2
<1>. HIDE DEF sectors
<1>5. Kept(sectors, funds, "mutual_fund")
  <2>1. CASE t.amfi = Absent
    <3>1. funds = sectors
      BY <2>1 DEF When
    <3>. QED BY <1>4, <3>1 DEF Kept
  <2>2. CASE t.amfi # Absent
    <3>1. funds = FromFile(sectors, "mutual_fund", FundLines(t.amfi))
      BY <2>2 DEF When
    <3>. HIDE DEF funds
    <3>. QED BY <1>4, <2>2, <3>1, FundsFit, FileKeeps
  <2>. QED BY <2>1, <2>2
<1>. HIDE DEF funds
<1>6. /\ RowsFit(new) /\ DOMAIN new = DOMAIN funds /\ \A k \in DOMAIN funds : funds[k].sector # Absent => new[k].sector # Absent
      /\ \A kind : ActiveOf(new, kind) = ActiveOf(funds, kind)
  <2>1. RowsFit(funds)
    BY <1>5 DEF Kept
  <2>. DEFINE none == [k \in {} |-> TRUE]
  <2>2. \A k \in DOMAIN none : none[k] # Absent
    OBVIOUS
  <2>. HIDE DEF none
  <2>3. new = Sectored(funds, none) \/ new = Instrumented(funds)
    BY <1>1
  <2>. QED BY <2>1, <2>2, <2>3, SectorsKeep
<1>7. ActiveOf(new, "stock") = ActiveOf(stocks, "stock") /\ ActiveOf(new, "etf") = ActiveOf(etfs, "etf") /\ ActiveOf(stocks, "etf") = ActiveOf(rows, "etf")
  BY <1>2, <1>3, <1>4, <1>5, <1>6 DEF Kept
<1>8. FewGone(rows, new, "stock") /\ FewGone(rows, new, "etf")
  BY <1>2, <1>3, <1>7 DEF FewGone
<1>9. \A k \in DOMAIN rows : k \in DOMAIN new /\ (rows[k].sector # Absent => new[k].sector # Absent)
  BY <1>2, <1>3, <1>4, <1>5, <1>6 DEF Kept
<1>. QED BY <1>6, <1>8, <1>9

-----------------------------------------------------------------------------
\* The rows fit, and what the refresh under way has made of them is as promised.
ShelfInv == world \in Worlds /\ RowsFit(shelf) /\ IsTop(top) /\ RetiresFew /\ LinksCertain

\* A link is to the one bearer of the symbol.
LEMMA LinkedIsCertain ==
  ASSUME NEW rows, RowsFit(rows)
  PROVE  \A b \in DOMAIN Linked(rows) : Linked(rows)[b] # Absent /\ Bearers(rows, b) # {} => Bearers(rows, b) = {Linked(rows)[b]}
<1>. SUFFICES ASSUME NEW b \in DOMAIN BrokerSymbol, Linked(rows)[b] # Absent, Bearers(rows, b) # {} PROVE Bearers(rows, b) = {Linked(rows)[b]}
  BY DEF Linked
<1>. DEFINE B == Bearers(rows, b)
<1>1. Cardinality(B) = 1 /\ Linked(rows)[b] = CHOOSE k \in B : TRUE
  BY DEF Linked
<1>2. IsFiniteSet(B)
  <2>1. B \subseteq DOMAIN rows
    BY DEF Bearers
  <2>. QED BY <2>1, FS_Subset DEF RowsFit
<1>. HIDE DEF B
<1>3. PICK x : B = {x}
  BY <1>1, <1>2, FS_Singleton
<1>4. (CHOOSE k \in B : TRUE) = x
  BY <1>3
<1>. QED BY <1>1, <1>3, <1>4 DEF B

\* At first no row is known.
LEMMA ShelfStart == ASSUME CatalogueInit PROVE ShelfInv
<1>1. DOMAIN shelf = {} /\ top = Rested(0) /\ world \in Worlds
  BY DEF CatalogueInit
<1>2. RowsFit(shelf)
  BY <1>1, FS_EmptySet DEF RowsFit
<1>3. IsTop(top) /\ top.at # "windows"
  BY <1>1 DEF IsTop, Rested
<1>4. LinksCertain
  BY DEF CatalogueInit, LinksCertain
<1>. QED BY <1>1, <1>2, <1>3, <1>4 DEF ShelfInv, RetiresFew

\* A refresh applies what arrived, or leaves everything as it was.
LEMMA RefreshKeepsShelf == ASSUME ShelfInv, NEW t \in world.files, Refresh(t) PROVE ShelfInv'
<1>1. RowsFit(shelf) /\ world \in Worlds /\ world' = world /\ IsTop(top)
  BY DEF ShelfInv, Refresh
<1>2. top'.at = "windows" /\ top'.before = shelf /\ IsTop(top')
  BY <1>1 DEF Refresh, IsTop
<1>3. /\ RowsFit(shelf') /\ \A k \in DOMAIN shelf : k \in DOMAIN shelf' /\ (shelf[k].sector # Absent => shelf'[k].sector # Absent)
      /\ FewGone(shelf, shelf', "stock") /\ FewGone(shelf, shelf', "etf")
  <2>1. CASE FilesRefused(t)
    <3>1. shelf' = shelf
      BY <2>1 DEF Refresh
    <3>. QED BY <1>1, <3>1, NoneGone
  <2>2. CASE ~ FilesRefused(t)
    <3>1. shelf' = Applied(shelf, t)
      BY <2>2 DEF Refresh
    <3>. QED BY <1>1, <3>1, AppliedKeeps
  <2>. QED BY <2>1, <2>2
<1>4. RetiresFew'
  BY <1>2, <1>3 DEF RetiresFew, FewGone
<1>5. LinksCertain'
  <2>1. CASE FilesRefused(t)
    BY <2>1 DEF Refresh, ShelfInv, LinksCertain, Bearers
  <2>2. CASE ~ FilesRefused(t)
    <3>1. links' = Linked(shelf')
      BY <2>2 DEF Refresh
    <3>2. \A b : Bearers(shelf, b)' = Bearers(shelf', b)
      BY DEF Bearers
    <3>. QED BY <1>3, <3>1, <3>2, LinkedIsCertain DEF LinksCertain
  <2>. QED BY <2>1, <2>2
<1>. QED BY <1>1, <1>2, <1>3, <1>4, <1>5 DEF ShelfInv

\* Nothing else changes the rows, the links or what the refresh began with.
LEMMA OthersKeepShelf ==
  ASSUME ShelfInv, \/ WindowArrives \/ WindowFails \/ RefreshEnds \/ RefreshDies \/ NavsDone \/ DayPasses \/ UNCHANGED catalogueVars
                   \/ \E f \in Growth, answer \in world.navs : NavSync(f, answer)
  PROVE  ShelfInv'
<1>1. world' = world /\ shelf' = shelf /\ links' = links
  BY DEF WindowArrives, WindowFails, RefreshEnds, RefreshDies, NavsDone, DayPasses, catalogueVars, NavSync
<1>2. IsTop(top)
  BY DEF ShelfInv
<1>3. IsTop(top') /\ (top'.at = "windows" => top.at = "windows" /\ top'.before = top.before)
  <2>1. CASE DayPasses \/ UNCHANGED catalogueVars
    BY <1>2, <2>1 DEF DayPasses, catalogueVars
  <2>2. CASE WindowFails \/ WindowArrives
    BY <1>2, <2>2 DEF WindowFails, WindowArrives, IsTop
  <2>3. CASE RefreshDies \/ NavsDone
    BY <2>3 DEF RefreshDies, NavsDone, Rested, IsTop
  <2>4. CASE RefreshEnds
    BY <2>4 DEF RefreshEnds, Rested, IsTop
  <2>5. CASE \E f \in Growth, answer \in world.navs : NavSync(f, answer)
    <3>1. \E f, s : top' = [top EXCEPT !.funds = @ \ {f}, !.stored = s]
      BY <2>5 DEF NavSync
    <3>. QED BY <1>2, <3>1 DEF IsTop
  <2>. QED BY <2>1, <2>2, <2>3, <2>4, <2>5
<1>4. RetiresFew'
  BY <1>1, <1>3 DEF ShelfInv, RetiresFew, ActiveOf
<1>5. LinksCertain'
  BY <1>1 DEF ShelfInv, LinksCertain, Bearers
<1>. QED BY <1>1, <1>3, <1>4, <1>5 DEF ShelfInv

\* The files are applied to rows that fit, in one transaction, and nothing else changes the rows or the links.
THEOREM ShelfInvariance == CatalogueSpec => []ShelfInv
<1>1. CatalogueInit => ShelfInv
  BY ShelfStart
<1>2. ShelfInv /\ [CatalogueNext]_catalogueVars => ShelfInv'
  BY RefreshKeepsShelf, OthersKeepShelf DEF CatalogueNext
<1>. QED BY <1>1, <1>2, PTL DEF CatalogueSpec

\* A file of stocks or ETFs retires at most the share that may be missing, and no sector is forgotten (catalogue/sync.py, retire_missing).
THEOREM FilesRetireFew == CatalogueSpec => []RetiresFew
<1>1. ShelfInv => RetiresFew
  BY DEF ShelfInv
<1>. QED BY <1>1, ShelfInvariance, PTL

\* A row of the broker points at the one active security of its symbol (catalogue/sync.py, link_broker_instruments).
THEOREM LinksAreCertain == CatalogueSpec => []LinksCertain
<1>1. ShelfInv => LinksCertain
  BY DEF ShelfInv
<1>. QED BY <1>1, ShelfInvariance, PTL

-----------------------------------------------------------------------------
\* A row with a NAV has its day, and a history has finitely many NAVs by day.
NavFits(row) == {"nav", "date"} \subseteq DOMAIN row /\ (row.nav # Absent => row.nav \in Int /\ row.date \in Int)

HistoryFits(h) == IsFiniteSet(DOMAIN h) /\ DOMAIN h # {} /\ \A d \in DOMAIN h : d \in Int /\ h[d] \in Nat

\* A line of a file says both a NAV and its day, or neither.
NavLine(line) == {"nav", "date"} \cap DOMAIN line # {} => {"nav", "date"} \subseteq DOMAIN line /\ line.nav \in Int /\ line.date \in Int

\* A file keeps a NAV and its day together.
LEMMA FileKeepsNavs ==
  ASSUME NEW rows, RowsFit(rows), \A k \in DOMAIN rows : NavFits(rows[k]), NEW lines, \A k \in DOMAIN lines : NavLine(lines[k]),
         NEW kind, NEW new, new = FromFile(rows, kind, lines)
  PROVE  \A k \in DOMAIN new : NavFits(new[k])
<1>. DEFINE mid == Upserted(rows, lines)
<1>1. \A k \in DOMAIN mid : NavFits(mid[k])
  <2>. SUFFICES ASSUME NEW k \in DOMAIN mid PROVE NavFits(mid[k])
    OBVIOUS
  <2>. DEFINE old == IF k \in DOMAIN rows THEN rows[k] ELSE NewRow(k)
              said == Said(lines[k])
  <2>1. CASE k \notin DOMAIN lines
    BY <2>1 DEF Upserted
  <2>2. CASE k \in DOMAIN lines
    <3>1. mid[k] = Overlaid(said, old)
      BY <2>2 DEF Upserted
    <3>2. NavFits(old)
      BY DEF NavFits, NewRow
    <3>3. \/ {"nav", "date"} \cap DOMAIN said = {}
          \/ {"nav", "date"} \subseteq DOMAIN said /\ said.nav \in Int /\ said.date \in Int
      <4>1. NavLine(lines[k])
        BY <2>2
      <4>2. Absent \notin Int
        BY CatalogueAssumption
      <4>. QED BY <4>1, <4>2 DEF NavLine, Said
    <3>. HIDE DEF mid, old, said
    <3>4. CASE {"nav", "date"} \cap DOMAIN said = {}
      BY <3>1, <3>2, <3>4 DEF Overlaid, NavFits
    <3>5. CASE {"nav", "date"} \subseteq DOMAIN said /\ said.nav \in Int /\ said.date \in Int
      BY <3>1, <3>2, <3>5 DEF Overlaid, NavFits
    <3>. QED BY <3>3, <3>4, <3>5
  <2>. QED BY <2>1, <2>2
<1>2. new = Retired(mid, kind, DOMAIN lines)
  BY DEF FromFile
<1>. HIDE DEF mid
<1>3. DOMAIN new = DOMAIN mid /\ \A k \in DOMAIN new : new[k] = mid[k] \/ new[k] = [mid[k] EXCEPT !.on = FALSE]
  BY <1>2 DEF Retired
<1>. QED BY <1>1, <1>3 DEF NavFits

\* So do all the files of a refresh.
LEMMA AppliedKeepsNavs ==
  ASSUME NEW rows, RowsFit(rows), \A k \in DOMAIN rows : NavFits(rows[k]), NEW w \in Worlds, NEW t \in w.files, NEW new, new = Applied(rows, t)
  PROVE  \A k \in DOMAIN new : NavFits(new[k])
<1>. DEFINE Fit(r) == RowsFit(r) /\ \A k \in DOMAIN r : NavFits(r[k])
            stocks  == When(t.equity_l, rows, FromFile(rows, "stock", SecurityLines(t.equity_l)))
            etfs    == When(t.etf_list, stocks, FromFile(stocks, "etf", EtfLines(t)))
            sectors == When(t.sector_map, etfs, Sectored(etfs, t.sector_map))
            funds   == When(t.amfi, sectors, FromFile(sectors, "mutual_fund", FundLines(t.amfi)))
<1>1. new = Instrumented(funds)
  BY DEF Applied, EtfLines
<1>2. \A file, kind, columns, k : file # Absent /\ Filed(file, kind, columns) /\ {"nav", "date"} \cap columns = {} /\ k \in DOMAIN SecurityLines(file)
        => {"nav", "date"} \cap DOMAIN SecurityLines(file)[k] = {}
  BY DEF SecurityLines, Filed, Overlaid
<1>3. Filed(t.equity_l, "stock", {"symbol", "series"}) /\ Filed(t.etf_list, "etf", {"symbol"})
  BY CatalogueAssumption
<1>4. {"nav", "date"} \cap {"symbol", "series"} = {} /\ {"nav", "date"} \cap {"symbol"} = {}
  OBVIOUS
<1>5. t.equity_l # Absent => \A k \in DOMAIN SecurityLines(t.equity_l) : NavLine(SecurityLines(t.equity_l)[k])
  BY <1>2, <1>3, <1>4 DEF NavLine
<1>6. t.etf_list # Absent => \A k \in DOMAIN EtfLines(t) : NavLine(EtfLines(t)[k])
  <2>. SUFFICES ASSUME t.etf_list # Absent, NEW k \in DOMAIN EtfLines(t) PROVE NavLine(EtfLines(t)[k])
    OBVIOUS
  <2>. DEFINE line == SecurityLines(t.etf_list)[k]
  <2>1. EtfLines(t)[k] = Overlaid([series |-> "EQ"], line) /\ {"nav", "date"} \cap DOMAIN line = {}
    BY <1>2, <1>3, <1>4 DEF EtfLines
  <2>. HIDE DEF line
  <2>. QED BY <2>1 DEF Overlaid, NavLine
<1>7. t.amfi # Absent => \A k \in DOMAIN FundLines(t.amfi) : NavLine(FundLines(t.amfi)[k])
  <2>. SUFFICES ASSUME t.amfi # Absent, NEW k \in DOMAIN FundLines(t.amfi) PROVE NavLine(FundLines(t.amfi)[k])
    OBVIOUS
  <2>. DEFINE line == t.amfi[k]
              on == Newest(t.amfi) - t.amfi[k].date <= StaleDays
  <2>1. FundLines(t.amfi)[k] = Overlaid([on |-> on], line) /\ k \in Priced(t.amfi)
    BY DEF FundLines
  <2>2. k \in DOMAIN t.amfi /\ line.nav # Absent
    BY <2>1 DEF Priced
  <2>3. {"nav", "date"} \subseteq DOMAIN line /\ line.nav \in Int /\ line.date \in Int
    BY <2>2, CatalogueAssumption
  <2>. HIDE DEF line, on
  <2>. QED BY <2>1, <2>3 DEF Overlaid, NavLine
<1>8. Fit(stocks)
  <2>1. CASE t.equity_l = Absent
    BY <2>1 DEF When
  <2>2. CASE t.equity_l # Absent
    <3>1. stocks = FromFile(rows, "stock", SecurityLines(t.equity_l))
      BY <2>2 DEF When
    <3>. HIDE DEF stocks
    <3>. QED BY <1>5, <2>2, <3>1, SecuritiesFit, FileKeeps, FileKeepsNavs DEF Kept
  <2>. QED BY <2>1, <2>2
<1>. HIDE DEF stocks
<1>9. Fit(etfs)
  <2>1. CASE t.etf_list = Absent
    BY <1>8, <2>1 DEF When
  <2>2. CASE t.etf_list # Absent
    <3>1. etfs = FromFile(stocks, "etf", EtfLines(t))
      BY <2>2 DEF When
    <3>. HIDE DEF etfs
    <3>. QED BY <1>6, <1>8, <2>2, <3>1, EtfsFit, FileKeeps, FileKeepsNavs DEF Kept
  <2>. QED BY <2>1, <2>2
<1>. HIDE DEF etfs
<1>10. ASSUME NEW r, Fit(r), NEW map, \A k \in DOMAIN map : map[k] # Absent, NEW s, s = Sectored(r, map) \/ s = Instrumented(r) PROVE Fit(s)
  <2>1. RowsFit(s) /\ DOMAIN s = DOMAIN r
    BY <1>10, SectorsKeep
  <2>2. \A k \in DOMAIN r : s[k] = r[k] \/ s[k] = [r[k] EXCEPT !.instrument = TRUE] \/ s[k] = [r[k] EXCEPT !.sector = map[k]]
    BY <1>10 DEF Sectored, Instrumented
  <2>. QED BY <1>10, <2>1, <2>2 DEF NavFits
<1>11. Fit(sectors)
  <2>1. CASE t.sector_map = Absent
    BY <1>9, <2>1 DEF When
  <2>2. CASE t.sector_map # Absent
    <3>1. \A k \in DOMAIN t.sector_map : t.sector_map[k] # Absent
      BY <2>2, CatalogueAssumption
    <3>2. sectors = Sectored(etfs, t.sector_map)
      BY <2>2 DEF When
    <3>. HIDE DEF sectors, Fit
    <3>. QED BY <1>9, <1>10, <3>1, <3>2
  <2>. QED BY <2>1, <2>2
<1>. HIDE DEF sectors
<1>12. Fit(funds)
  <2>1. CASE t.amfi = Absent
    BY <1>11, <2>1 DEF When
  <2>2. CASE t.amfi # Absent
    <3>1. funds = FromFile(sectors, "mutual_fund", FundLines(t.amfi))
      BY <2>2 DEF When
    <3>. HIDE DEF funds
    <3>. QED BY <1>7, <1>11, <2>2, <3>1, FundsFit, FileKeeps, FileKeepsNavs DEF Kept
  <2>. QED BY <2>1, <2>2
<1>. HIDE DEF funds
<1>13. Fit(new)
  <2>. DEFINE none == [k \in {} |-> TRUE]
  <2>1. \A k \in DOMAIN none : none[k] # Absent
    OBVIOUS
  <2>. HIDE DEF none, Fit
  <2>. QED BY <1>1, <1>10, <1>12, <2>1
<1>. QED BY <1>13

-----------------------------------------------------------------------------
\* Two comparisons in per cent, one after the other.
LEMMA Compared ==
  ASSUME NEW nav \in Int, NEW v \in Nat, NEW n \in Nat, ~Differs(v, nav, n)
  PROVE  /\ Agrees(v, nav, n)
         /\ \A old \in Nat : ~Differs(v, old, RebaseTolerance) => Agrees(old, nav, n)
<1>. DEFINE R == RebaseTolerance
<1>1. R \in Nat
  BY CatalogueAssumption
<1>. HIDE DEF R
<1>2. \A a, b \in Int, m \in Nat : m * b \in Int /\ (100 + m) * b = 100 * b + m * b /\ (100 - m) * b = 100 * b - m * b
  OBVIOUS
<1>3. \A a, b \in Int, m \in Nat : ~Differs(a, b, m) => 100 * a <= (100 + m) * b /\ (100 - m) * b <= 100 * a
  <2>. SUFFICES ASSUME NEW a \in Int, NEW b \in Int, NEW m \in Nat, ~Differs(a, b, m) PROVE 100 * a <= (100 + m) * b /\ (100 - m) * b <= 100 * a
    OBVIOUS
  <2>. DEFINE p == m * b
  <2>1. p \in Int /\ (100 + m) * b = 100 * b + p /\ (100 - m) * b = 100 * b - p
    BY <1>2
  <2>2. ~(100 * (IF a > b THEN a - b ELSE b - a) > p)
    BY DEF Differs
  <2>. HIDE DEF p
  <2>. QED BY <2>1, <2>2
<1>4. 100 * v <= (100 + n) * nav /\ (100 - n) * nav <= 100 * v
  BY <1>3
<1>5. (100 + n) * nav \in Int /\ (100 - n) * nav \in Int
  OBVIOUS
<1>6. Agrees(v, nav, n)
  <2>1. R * v \in Nat /\ (100 - R) * v = 100 * v - R * v /\ (100 + R) * v = 100 * v + R * v
    BY <1>1
  <2>2. (100 - R) * v <= 100 * v /\ 100 * v <= (100 + R) * v
    BY <2>1
  <2>. QED BY <1>1, <1>4, <1>5, <2>1, <2>2 DEF Agrees, R
<1>7. ASSUME NEW old \in Nat, ~Differs(v, old, RebaseTolerance) PROVE Agrees(old, nav, n)
  <2>1. 100 * v <= (100 + R) * old /\ (100 - R) * old <= 100 * v
    BY <1>1, <1>3, <1>7 DEF R
  <2>2. (100 + R) * old \in Int /\ (100 - R) * old \in Int
    BY <1>1
  <2>. QED BY <1>1, <1>4, <1>5, <2>1, <2>2 DEF Agrees, R
<1>. QED BY <1>6, <1>7

\* The day that was compared with the catalogue, if a history is trusted.
LEMMA TrustedAgrees ==
  ASSUME NEW navs, IsFiniteSet(DOMAIN navs), \A d \in DOMAIN navs : d \in Int /\ navs[d] \in Nat, NEW isin, NEW row, NavFits(row), Trusted(navs, isin, row)
  PROVE  /\ row.nav \in Int /\ row.date \in Int
         /\ \E d \in DOMAIN navs : \/ d = row.date /\ ~Differs(navs[d], row.nav, NavTolerance)
                                   \/ d \in Near(navs, row.date) /\ ~Differs(navs[d], row.nav, NearTolerance)
<1>. DEFINE N == Near(navs, row.date)
<1>1. NavVerdict(navs, isin, row) \in {"exact", "near"}
  BY DEF Trusted
<1>2. row.nav # Absent
  BY <1>1 DEF NavVerdict
<1>3. row.nav \in Int /\ row.date \in Int
  BY <1>2 DEF NavFits
<1>4. \/ row.date \in DOMAIN navs /\ ~Differs(navs[row.date], row.nav, NavTolerance)
      \/ N # {} /\ ~Differs(navs[Max(N)], row.nav, NearTolerance)
  BY <1>1 DEF NavVerdict
<1>5. N # {} => Max(N) \in N
  <2>1. N \subseteq DOMAIN navs
    BY DEF Near, Earlier
  <2>2. IsFiniteSet(N) /\ \A x \in N : x \in Int
    BY <2>1, FS_Subset
  <2>. HIDE DEF N
  <2>. QED BY <2>2, LatestIn
<1>6. N \subseteq DOMAIN navs
  BY DEF Near, Earlier
<1>. QED BY <1>3, <1>4, <1>5, <1>6

\* The NAVs of an answer, and a stored history continued with it, are NAVs by day; and the day compared agrees in what is stored.
LEMMA StoredAgrees ==
  ASSUME NEW navs, IsFiniteSet(DOMAIN navs), \A d \in DOMAIN navs : d \in Int /\ navs[d] \in Nat, NEW isin, NEW row, NavFits(row), Trusted(navs, isin, row),
         NEW old, HistoryFits(old), NEW new, new = navs \/ new = Joined(old, navs)
  PROVE  /\ HistoryFits(new)
         /\ \/ row.date - NearDays < Max(DOMAIN new) - OverlapDays
            \/ row.date \in DOMAIN new /\ Agrees(new[row.date], row.nav, NavTolerance)
            \/ \E d \in Near(new, row.date) : Agrees(new[d], row.nav, NearTolerance)
<1>1. row.nav \in Int /\ row.date \in Int
  BY TrustedAgrees
<1>2. PICK d \in DOMAIN navs : \/ d = row.date /\ ~Differs(navs[d], row.nav, NavTolerance)
                               \/ d \in Near(navs, row.date) /\ ~Differs(navs[d], row.nav, NearTolerance)
  BY TrustedAgrees
<1>3. NearDays \in Nat /\ OverlapDays \in Nat /\ NavTolerance \in Nat /\ NearTolerance \in Nat
  BY CatalogueAssumption
<1>4. d \in Int /\ navs[d] \in Nat /\ row.date - NearDays <= d /\ (d # row.date => d < row.date /\ row.date - d <= NearDays)
  BY <1>1, <1>2, <1>3 DEF Near, Earlier
<1>5. \A n \in {NavTolerance, NearTolerance} : ~Differs(navs[d], row.nav, n) =>
        /\ Agrees(navs[d], row.nav, n)
        /\ \A v \in Nat : ~Differs(navs[d], v, RebaseTolerance) => Agrees(v, row.nav, n)
  BY <1>1, <1>3, <1>4, Compared
<1>6. ASSUME NEW h, HistoryFits(h), d \in DOMAIN h, h[d] = navs[d] \/ ~Differs(navs[d], h[d], RebaseTolerance)
      PROVE  \/ row.date \in DOMAIN h /\ Agrees(h[row.date], row.nav, NavTolerance)
             \/ \E x \in Near(h, row.date) : Agrees(h[x], row.nav, NearTolerance)
  <2>1. h[d] \in Nat
    BY <1>6 DEF HistoryFits
  <2>2. \A n \in {NavTolerance, NearTolerance} : ~Differs(navs[d], row.nav, n) => Agrees(h[d], row.nav, n)
    BY <1>5, <1>6, <2>1
  <2>3. CASE d = row.date /\ ~Differs(navs[d], row.nav, NavTolerance)
    BY <1>6, <2>2, <2>3
  <2>4. CASE d \in Near(navs, row.date) /\ ~Differs(navs[d], row.nav, NearTolerance)
    <3>1. d \in Near(h, row.date)
      BY <1>6, <2>4 DEF Near, Earlier
    <3>. QED BY <2>2, <2>4, <3>1
  <2>. QED BY <1>2, <2>3, <2>4
<1>7. CASE new = navs
  <2>1. HistoryFits(new)
    BY <1>7 DEF HistoryFits
  <2>. QED BY <1>6, <1>7, <2>1
<1>8. CASE new # navs
  <2>. DEFINE newest == Max(DOMAIN old)
              fresh == {x \in DOMAIN navs : x >= newest - OverlapDays}
              added == [x \in fresh |-> navs[x]]
  <2>1. new = Overlaid(old, added) /\ \A x \in fresh \cap DOMAIN old : ~Differs(navs[x], old[x], RebaseTolerance)
    BY <1>8 DEF Joined
  <2>2. newest \in Int /\ newest \in DOMAIN old
    <3>1. newest \in DOMAIN old
      BY LatestIn DEF HistoryFits
    <3>. HIDE DEF newest
    <3>. QED BY <3>1 DEF HistoryFits
  <2>3. IsFiniteSet(fresh)
    BY FS_Subset
  <2>4. /\ DOMAIN new = DOMAIN old \cup fresh
        /\ \A x \in DOMAIN old : new[x] = old[x]
        /\ \A x \in fresh \ DOMAIN old : new[x] = navs[x]
    BY <2>1 DEF Overlaid
  <2>. HIDE DEF newest
  <2>5. HistoryFits(new)
    <3>1. IsFiniteSet(DOMAIN new)
      BY <2>3, <2>4, FS_Union DEF HistoryFits
    <3>2. \A x \in DOMAIN new : x \in Int /\ new[x] \in Nat
      BY <2>4 DEF HistoryFits
    <3>. QED BY <2>2, <2>4, <3>1, <3>2 DEF HistoryFits
  <2>6. newest <= Max(DOMAIN new) /\ Max(DOMAIN new) \in Int
    BY <2>2, <2>4, <2>5, LatestIn DEF HistoryFits
  <2>7. CASE row.date - NearDays < Max(DOMAIN new) - OverlapDays
    BY <2>5, <2>7
  <2>8. CASE ~(row.date - NearDays < Max(DOMAIN new) - OverlapDays)
    <3>1. d \in fresh
      BY <1>1, <1>3, <1>4, <2>2, <2>6, <2>8
    <3>2. d \in DOMAIN new /\ (new[d] = navs[d] \/ ~Differs(navs[d], new[d], RebaseTolerance))
      BY <2>1, <2>4, <3>1
    <3>. QED BY <1>6, <2>5, <3>2
  <2>. QED BY <2>7, <2>8
<1>. QED BY <1>7, <1>8

-----------------------------------------------------------------------------
\* The funds whose histories are fetched are known, and a history is compared only while they are fetched.
NavInv ==
  /\ \A k \in DOMAIN shelf : NavFits(shelf[k])
  /\ \A f \in DOMAIN history : HistoryFits(history[f])
  /\ top.funds \subseteq DOMAIN shelf
  /\ top.stored # Absent => top.at = "navs"
  /\ NavsAgree

\* At first there is no history.
LEMMA NavStart == ASSUME CatalogueInit PROVE NavInv
<1>1. DOMAIN shelf = {} /\ DOMAIN history = {}
  BY DEF CatalogueInit
<1>. QED BY <1>1 DEF CatalogueInit, Rested, NavInv, NavsAgree

\* A refresh begins when no histories are being fetched.
LEMMA RefreshKeepsNavs == ASSUME ShelfInv, NavInv, NEW t \in world.files, Refresh(t) PROVE NavInv'
<1>1. RowsFit(shelf) /\ world \in Worlds /\ IsTop(top)
  BY DEF ShelfInv
<1>2. history' = history /\ top'.stored = top.stored /\ top'.funds = top.funds /\ top.at # "navs"
  BY <1>1 DEF Refresh, IsTop
<1>3. (\A k \in DOMAIN shelf' : NavFits(shelf'[k])) /\ DOMAIN shelf \subseteq DOMAIN shelf'
  <2>1. CASE FilesRefused(t)
    BY <2>1 DEF Refresh, NavInv
  <2>2. CASE ~ FilesRefused(t)
    <3>1. shelf' = Applied(shelf, t)
      BY <2>2 DEF Refresh
    <3>. QED BY <1>1, <3>1, AppliedKeeps, AppliedKeepsNavs DEF NavInv
  <2>. QED BY <2>1, <2>2
<1>4. top'.stored = Absent
  BY <1>2 DEF NavInv
<1>. QED BY <1>2, <1>3, <1>4 DEF NavInv, NavsAgree

\* A history that is fetched is stored if it is trusted.
LEMMA SyncAgrees == ASSUME ShelfInv, NavInv, NEW f \in Growth, NEW answer \in world.navs, NavSync(f, answer) PROVE NavInv'
<1>. DEFINE navs == Readable(answer.navs)
            lasts == answer # Absent /\ Trusted(navs, answer.isin, shelf[f])
            row == shelf[f]
            kept == IF f \in DOMAIN history THEN Joined(history[f], navs) ELSE navs
<1>1. f \in DOMAIN shelf /\ top.at = "navs" /\ shelf' = shelf /\ world \in Worlds /\ IsTop(top)
  BY DEF NavSync, NavInv, ShelfInv
<1>2. top' = [top EXCEPT !.funds = @ \ {f}, !.stored = IF lasts THEN f ELSE Absent]
  BY DEF NavSync
<1>3. top'.at = "navs" /\ top'.funds \subseteq top.funds /\ top'.stored = IF lasts THEN f ELSE Absent
  <2>. HIDE DEF lasts
  <2>. QED BY <1>1, <1>2 DEF IsTop
<1>4. NavFits(row)
  BY <1>1 DEF NavInv
<1>5. CASE lasts
  <2>1. IsFiniteSet(DOMAIN navs) /\ \A d \in DOMAIN navs : d \in Int /\ navs[d] \in Nat
    <3>1. IsFiniteSet(DOMAIN answer.navs) /\ \A d \in DOMAIN answer.navs : d \in Int /\ answer.navs[d] \in Int
      BY <1>1, <1>5, CatalogueAssumption
    <3>2. DOMAIN navs \subseteq DOMAIN answer.navs /\ \A d \in DOMAIN navs : navs[d] = answer.navs[d] /\ navs[d] > 0
      BY DEF Readable
    <3>3. IsFiniteSet(DOMAIN navs)
      BY <3>1, <3>2, FS_Subset
    <3>. HIDE DEF navs
    <3>. QED BY <3>1, <3>2, <3>3
  <2>2. Trusted(navs, answer.isin, row)
    BY <1>5
  <2>3. history' = Overlaid([x \in {f} |-> kept], history)
    BY <1>5 DEF NavSync
  <2>. HIDE DEF navs, kept, row
  <2>4. DOMAIN history' = DOMAIN history \cup {f} /\ history'[f] = kept /\ \A g \in DOMAIN history \ {f} : history'[g] = history[g]
    BY <2>3 DEF Overlaid
  <2>5. /\ HistoryFits(kept)
        /\ \/ row.date - NearDays < Max(DOMAIN kept) - OverlapDays
           \/ row.date \in DOMAIN kept /\ Agrees(kept[row.date], row.nav, NavTolerance)
           \/ \E d \in Near(kept, row.date) : Agrees(kept[d], row.nav, NearTolerance)
    <3>1. CASE f \in DOMAIN history
      <4>1. HistoryFits(history[f]) /\ kept = Joined(history[f], navs)
        BY <3>1 DEF NavInv, kept
      <4>. QED BY <1>4, <2>1, <2>2, <4>1, StoredAgrees
    <3>2. CASE f \notin DOMAIN history
      <4>1. kept = navs
        BY <3>2 DEF kept
      <4>2. HistoryFits(navs)
        <5>1. DOMAIN navs # {}
          BY <1>4, <2>1, <2>2, TrustedAgrees
        <5>. QED BY <2>1, <5>1 DEF HistoryFits
      <4>. QED BY <1>4, <2>1, <2>2, <4>1, <4>2, StoredAgrees
    <3>. QED BY <3>1, <3>2
  <2>6. NavsAgree'
    BY <1>1, <1>3, <1>5, <2>4, <2>5 DEF NavsAgree, row
  <2>. QED BY <1>1, <1>3, <2>4, <2>5, <2>6 DEF NavInv
<1>6. CASE ~ lasts
  <2>1. history' = history
    BY <1>6 DEF NavSync
  <2>. HIDE DEF lasts
  <2>2. top'.stored = Absent
    BY <1>3, <1>6
  <2>. QED BY <1>1, <1>3, <2>1, <2>2 DEF NavInv, NavsAgree
<1>. QED BY <1>5, <1>6

\* Nothing else lasts a history.
LEMMA OthersKeepNavs ==
  ASSUME ShelfInv, NavInv, WindowArrives \/ WindowFails \/ RefreshEnds \/ RefreshDies \/ NavsDone \/ DayPasses \/ UNCHANGED catalogueVars
  PROVE  NavInv'
<1>1. shelf' = shelf /\ history' = history
  BY DEF WindowArrives, WindowFails, RefreshEnds, RefreshDies, NavsDone, DayPasses, catalogueVars
<1>2. IsTop(top)
  BY DEF ShelfInv
<1>3. \/ top'.stored = top.stored /\ top'.at = top.at /\ top'.funds = top.funds
      \/ top'.stored = Absent /\ top'.funds \subseteq DOMAIN shelf
  <2>1. CASE DayPasses \/ UNCHANGED catalogueVars
    BY <2>1 DEF DayPasses, catalogueVars
  <2>2. CASE WindowFails \/ WindowArrives
    BY <1>2, <2>2 DEF WindowFails, WindowArrives, IsTop
  <2>3. CASE RefreshDies \/ NavsDone
    BY <2>3 DEF RefreshDies, NavsDone, Rested
  <2>4. CASE RefreshEnds
    <3>1. ActiveOf(shelf, "mutual_fund") \cap Growth \subseteq DOMAIN shelf
      BY DEF ActiveOf
    <3>. QED BY <2>4, <3>1 DEF RefreshEnds, Rested
  <2>. QED BY <2>1, <2>2, <2>3, <2>4
<1>4. NavsAgree'
  BY <1>1, <1>3 DEF NavInv, NavsAgree
<1>. QED BY <1>1, <1>3, <1>4 DEF NavInv

\* A history is stored once it agrees with the rows that the refresh has loaded, and what is kept of an older one was compared with it.
THEOREM NavInvariance == CatalogueSpec => []NavInv
<1>1. CatalogueInit => NavInv
  BY NavStart
<1>2. ShelfInv /\ NavInv /\ [CatalogueNext]_catalogueVars => NavInv'
  BY RefreshKeepsNavs, SyncAgrees, OthersKeepNavs DEF CatalogueNext
<1>. QED BY <1>1, <1>2, ShelfInvariance, PTL DEF CatalogueSpec

\* Nothing is skipped, few rows are retired, links are certain and histories agree (catalogue/sync.py, funds/nav_sync.py).
THEOREM CatalogueIsSound == CatalogueSpec => []CatalogueSound
<1>1. ActionsInv /\ ShelfInv /\ NavInv => CatalogueSound
  BY DEF ActionsInv, ShelfInv, NavInv, CatalogueSound
<1>. QED BY <1>1, ActionsInvariance, ShelfInvariance, NavInvariance, PTL
=============================================================================
