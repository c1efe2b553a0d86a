------------------------------ MODULE Outcomes ------------------------------
(***************************************************************************)
(* What became of the signals, observations and plans that were logged.    *)
(* A nightly run reads the outcomes it already has and how often the price *)
(* history was fetched anew; then it reads the closes and writes, in one   *)
(* transaction, an outcome for every subject whose horizon is complete or  *)
(* whose exit is long overdue.  The closes of one security arrive a day at *)
(* a time, late, with gaps, and are all replaced when the source changes   *)
(* its base.  A study of the stored history is kept per marker of its data.*)
(*                                                                         *)
(* A price is told apart by the fetch it came from (basis); sums and rank  *)
(* correlations are inputs of the verdict.                                 *)
(***************************************************************************)
EXTENDS Integers, FiniteSets, FiniteSetsExt, Functions

CONSTANTS
  Holidays, LastDay,   \* days without a session; the last day looked at
  Reach,        \* a fetch starts this many days before the last stored one
  Horizon,      \* in sessions
  OverdueDays,
  TradedDays,   \* the days on which the security may trade: one of these sets
  Late,         \* the days whose closes the source may have later than the next
  SubjectKinds, \* what is logged
  MaxLogged, MaxRefetches,
  Scorers,      \* worker processes
  MinDates, EarnedDates,
  AtRest

\* Numbers are numbers, the first day looked at is a session, and a security trades in sessions.
ASSUME OutcomeAssumption ==
  /\ IsFiniteSet(Holidays) /\ 1 \notin Holidays
  /\ {Horizon, OverdueDays} \subseteq Nat
  /\ \A days \in TradedDays : days \subseteq Nat \ {0} /\ days \cap Holidays = {}
  /\ {MinDates, EarnedDates} \subseteq Nat \ {0} /\ MinDates <= EarnedDates

VARIABLES
  clock, traded,
  priced, refetches,   \* the dates with a close; candle_syncs.full_refetches
  logged, outcomes,
  scoring,             \* what each worker has read, or AtRest
  judged,              \* the last session, and the count, that a finished run has seen
  studying, studies

priceVars == <<clock, traded, priced, refetches>>
scoreVars == <<logged, outcomes, scoring, judged>>
studyVars == <<studying, studies>>
outcomeVars == <<priceVars, scoreVars, studyVars>>

-----------------------------------------------------------------------------
(* The calendar and the closes *)

\* calendar.add_sessions.
AddSessions(d, n) == IF n = 0 THEN d ELSE CHOOSE e \in d + n .. d + n + Cardinality(Holidays) : e \notin Holidays /\ Cardinality(d + 1 .. e \ Holidays) = n

LastSession(d) == Max(1 .. d \ Holidays)

DayTurns == clock < LastDay /\ clock' = clock + 1 /\ UNCHANGED <<traded, priced, refetches, scoreVars, studyVars>>

Answers(from) == LET all == {d \in traded : from <= d /\ d <= LastSession(clock)} IN {all, all \ Late}

\* apply_fetch: what is stored stays as it is.
FetchCloses ==
  /\ \E got \in Answers(IF priced = {} THEN 1 ELSE Max(priced) - Reach) : ~ got \subseteq priced /\ priced' = priced \cup got
  /\ UNCHANGED <<clock, traded, refetches, scoreVars, studyVars>>

\* A stored close differs from the fetched one: the history is fetched anew.
Rebase ==
  /\ priced # {} /\ refetches < MaxRefetches
  /\ \E got \in Answers(1) : got # {} /\ priced' = got
  /\ refetches' = refetches + 1
  /\ UNCHANGED <<clock, traded, scoreVars, studyVars>>

-----------------------------------------------------------------------------
(* Scoring *)

\* A signal is dated by the newest close it used, an observation by the day its state began; both are known only now.
Log(kind) ==
  /\ priced # {} /\ Cardinality(logged) < MaxLogged
  /\ \E d \in IF kind = "signal" THEN {Max(priced)} ELSE priced :
       /\ \A s \in logged : <<s.kind, s.asOf>> # <<kind, d>>
       /\ logged' = logged \cup {[kind |-> kind, asOf |-> d, known |-> clock]}
  /\ UNCHANGED <<priceVars, outcomes, scoring, judged, studyVars>>

OutcomesOf(os, s) == {o \in os : o.subject = s}
Latest(os) == {o \in os : \A p \in OutcomesOf(os, o.subject) : p.version <= o.version}

\* locate: the first close after the day it was known, and the one Horizon closes later.
After(s) == {d \in priced : s.known < d}
HorizonComplete(s) == Cardinality(After(s)) > Horizon
EntryDate(s) == Min(After(s))
ExitDate(s) == CHOOSE d \in After(s) : Cardinality({e \in After(s) : e < d}) = Horizon

Due(s) == AddSessions(s.known, Horizon + 1)

Settled(s, r) == \E o \in Latest(r.seen) : o.subject = s /\ o.refetches = r.count

NextVersion(s, r) == 1 + Max({0} \cup {o.version : o \in OutcomesOf(r.seen, s)})

Row(s, r, count, basis) ==
  [subject |-> s, version |-> NextVersion(s, r), refetches |-> count, basis |-> basis,
   status |-> IF HorizonComplete(s) THEN "scored" ELSE "missing_exit",
   entry |-> IF HorizonComplete(s) THEN EntryDate(s) ELSE 0, exit |-> IF HorizonComplete(s) THEN ExitDate(s) ELSE 0]

\* Faulty variant: the closes are read first and the count after them.
OutcomeCountedLate(s, r) == Row(s, r, refetches, r.count)

OutcomeOf(s, r) == Row(s, r, r.count, refetches)

Overdue(s, r) == r.marketLast - Due(s) > OverdueDays

Judged(r) == {OutcomeOf(s, r) : s \in {x \in logged : ~Settled(x, r) /\ (HorizonComplete(x) \/ Overdue(x, r))}}

\* score_pending, first the outcomes and the counts.
ReadState(w) ==
  /\ scoring[w] = AtRest
  /\ scoring' = [scoring EXCEPT ![w] = [marketLast |-> LastSession(clock), seen |-> outcomes, count |-> refetches]]
  /\ UNCHANGED <<priceVars, logged, outcomes, judged, studyVars>>

\* Then the subjects and the closes; one clash on uq_ledger_outcome and nothing is written.
WriteOutcomes(w) ==
  /\ scoring[w] # AtRest
  /\ LET r     == scoring[w]
         new   == Judged(r)
         clash == \E o \in outcomes, p \in new : o.subject = p.subject /\ o.version = p.version
     IN IF clash THEN UNCHANGED <<outcomes, judged>>
        ELSE outcomes' = outcomes \cup new /\ judged' = IF r.marketLast < judged.upTo \/ r.count < judged.count THEN judged ELSE [upTo |-> r.marketLast, count |-> r.count]
  /\ scoring' = [scoring EXCEPT ![w] = AtRest]
  /\ UNCHANGED <<priceVars, logged, studyVars>>

ScorerDies(w) == scoring[w] # AtRest /\ scoring' = [scoring EXCEPT ![w] = AtRest] /\ UNCHANGED <<priceVars, logged, outcomes, judged, studyVars>>

-----------------------------------------------------------------------------
(* What a claim rests on *)

\* _latest_scored, and the dates that count: each a horizon after the one before.
Scored(kind) == Latest({o \in outcomes : o.status = "scored" /\ o.subject.kind = kind})
Dates(kind) == {o.subject.asOf : o \in Scored(kind)}

ThinDates(ds) ==
  LET kept[d \in Nat] == d \in ds /\ \A e \in ds : e < d /\ kept[e] => AddSessions(e, Horizon) <= d
  IN {d \in ds : kept[d]}

\* stats.verdict of a live claim: n dates, an interval lo .. hi of the mean, its bound after costs, and whether the study could have seen an effect.
ClaimVerdict(s) ==
  CASE s.n = 0 -> "no_data"
    [] 0 < s.n /\ s.n < MinDates -> "too_early"
    [] s.n >= MinDates /\ s.hi < 0 -> "negative"
    [] s.n >= MinDates /\ s.hi >= 0 /\ s.lo <= 0 -> IF s.sharp THEN "no_evidence" ELSE "underpowered"
    [] OTHER -> IF s.live THEN IF s.n >= EarnedDates /\ s.net > 0 THEN "earned" ELSE "promising" ELSE "backtest_suggestive"

-----------------------------------------------------------------------------
(* Studies of the stored history *)

\* load_panel: the candle bookkeeping, and later the closes.
StudyReads(w) ==
  /\ studying[w] = AtRest /\ priced # {}
  /\ studying' = [studying EXCEPT ![w] = [last |-> Max(priced), count |-> refetches]]
  /\ UNCHANGED <<priceVars, scoreVars, studies>>

Marker(n, last, count) == <<n, last, count>>

\* run_and_store_study: once per marker.
StudyStores(w) ==
  /\ studying[w] # AtRest
  /\ LET marker == Marker(Cardinality(priced), studying[w].last, studying[w].count)
     IN studies' = IF \E s \in studies : s.marker = marker THEN studies ELSE studies \cup {[marker |-> marker, days |-> priced, basis |-> refetches]}
  /\ studying' = [studying EXCEPT ![w] = AtRest]
  /\ UNCHANGED <<priceVars, scoreVars>>

-----------------------------------------------------------------------------

OutcomeInit ==
  /\ clock = 1 /\ traded \in TradedDays /\ priced = {} /\ refetches = 0
  /\ logged = {} /\ outcomes = {} /\ scoring = [w \in Scorers |-> AtRest] /\ judged = [upTo |-> 0, count |-> 0]
  /\ studying = [w \in Scorers |-> AtRest] /\ studies = {}

Closes == DayTurns \/ FetchCloses \/ Rebase
Scoring == (\E k \in SubjectKinds : Log(k)) \/ \E w \in Scorers : ReadState(w) \/ WriteOutcomes(w) \/ ScorerDies(w)
Studying == \E w \in Scorers : StudyReads(w) \/ StudyStores(w)
OutcomeNext == Closes \/ Scoring \/ Studying
OutcomeSpec == OutcomeInit /\ [][OutcomeNext]_outcomeVars

-----------------------------------------------------------------------------
(* Properties *)

\* No look-ahead: a scored outcome starts after the day its subject was known, and a full horizon of closes lies in it.
NoLookAhead ==
  \A o \in outcomes : o.status = "scored" =>
    /\ o.subject.known < o.entry
    /\ o.basis = refetches => {o.entry, o.exit} \subseteq priced /\ Cardinality({d \in priced : o.entry < d /\ d <= o.exit}) >= Horizon

\* An outcome filed under the present fetch of the history has its prices, whatever was fetched while a run was under way.
OnPresentBase == \A o \in outcomes : o.refetches = refetches => o.basis = refetches

\* The outcomes of a subject are numbered without gaps, and each is there because the history was fetched anew after the one before.
VersionsExplained ==
  \A o \in outcomes :
    /\ o.version > 1 => \E p \in OutcomesOf(outcomes, o.subject) : p.version = o.version - 1
    /\ \A p \in OutcomesOf(outcomes, o.subject) : p.version < o.version => p.refetches < o.refetches

\* Nothing logged is dropped: a subject whose exit is long overdue for a finished run has an outcome, no older than the history the
\* run saw.
NothingDropped == \A s \in logged : judged.upTo - Due(s) > OverdueDays => \E o \in OutcomesOf(outcomes, s) : o.refetches >= judged.count

\* Evidence is counted once: where a subject was logged on its day and traded on schedule, its outcome ends before the outcome
\* of the next date that counts begins; and no other choice of such dates would have given more evidence.
EvidenceApart ==
  \A k \in SubjectKinds :
    LET kept == ThinDates(Dates(k))
        spaced(ds) == \A d, e \in ds : d < e => AddSessions(d, Horizon) <= e
    IN /\ \A o, p \in Scored(k) :
            /\ {o.subject.asOf, p.subject.asOf} \subseteq kept /\ o.subject.asOf < p.subject.asOf
            /\ o.entry = AddSessions(o.subject.asOf, 1) /\ o.exit = AddSessions(o.entry, Horizon)
            => o.exit <= p.entry
       /\ \A ds \in SUBSET Dates(k) : spaced(ds) => Cardinality(ds) <= Cardinality(kept)

\* The ladder of verdicts: better evidence in every respect is never graded lower, and a study of the past never earns anything.
Grade == [no_data |-> 0, too_early |-> 1, negative |-> 2, underpowered |-> 3, no_evidence |-> 3, backtest_suggestive |-> 4, promising |-> 5, earned |-> 6]
Summaries == {s \in [n : {0, MinDates - 1, MinDates, EarnedDates}, lo : -1 .. 1, hi : -1 .. 2, net : {-1, 0, 1}, sharp : BOOLEAN, live : BOOLEAN] :
                s.lo <= s.hi /\ s.net <= s.lo}
LadderClimbs ==
  \A s, t \in Summaries :
    /\ s.live = t.live /\ s.n <= t.n /\ s.lo <= t.lo /\ s.hi <= t.hi /\ s.net <= t.net /\ s.n >= MinDates => Grade[ClaimVerdict(s)] <= Grade[ClaimVerdict(t)]
    /\ ~s.live => ClaimVerdict(s) \notin {"earned", "promising"}

\* A study kept for the data as they are was made from these data, though they were read in two steps.
StudiesOfTheirData ==
  \A s \in studies : priced # {} /\ s.marker = Marker(Cardinality(priced), Max(priced), refetches) => s.days = priced /\ s.basis = refetches

\* What became of what was said is recorded honestly.
OutcomesTrue == NoLookAhead /\ OnPresentBase /\ VersionsExplained /\ NothingDropped /\ EvidenceApart /\ LadderClimbs /\ StudiesOfTheirData

=============================================================================
