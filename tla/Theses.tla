------------------------------- MODULE Theses -------------------------------
(***************************************************************************)
(* One thesis of the owner: revisions with conditions, and assessments of  *)
(* the conditions that a refresh computes from evidence.  A refresh reads  *)
(* the thesis, gathers evidence and asks a model for minutes, then reads   *)
(* the previous assessment and stores its own; the owner can edit or close *)
(* the thesis and start other refreshes meanwhile.                         *)
(***************************************************************************)
EXTENDS Integers, Sequences, FiniteSets, FiniteSetsExt

CONSTANTS
  Refreshers,     \* requests for an assessment
  Texts,          \* texts a condition can have
  Verdicts,       \* verdicts of the model: "supported", "contradicted", "no_evidence"
  MaxConditions,  \* MAX_CONDITIONS
  MaxRevisions, MaxAssessments   \* bounds

\* A text has at most 300 characters, so there are finitely many.
ASSUME ThesisAssumption == {MaxConditions, MaxRevisions, MaxAssessments} \subseteq Nat \ {0} /\ IsFiniteSet(Texts)

VARIABLES
  thesis,         \* revisions: the identifier each text has, and the status
  assessments,    \* in the order of created_at
  refresher       \* a refresh: what it read and computed

thesisVars == <<thesis, assessments, refresher>>

Bodies == {b \in SUBSET Texts : b # {} /\ Cardinality(b) <= MaxConditions}
Orders(body) == {o \in [1 .. Cardinality(body) -> body] : \A i, j \in 1 .. Cardinality(body) : i # j => o[i] # o[j]}

Latest(seq) == seq[Len(seq)]
IdsOf(conditions) == {conditions[t] : t \in DOMAIN conditions}

\* Mutant: the conditions are numbered in the order of the form.
NumberedAnew(order, old) == [t \in {order[i] : i \in DOMAIN order} |-> CHOOSE i \in DOMAIN order : order[i] = t]

\* The texts of a form that no condition of the old revision has, by their places.
NewAt(order, old) == {i \in DOMAIN order : order[i] \notin DOMAIN old}
Place(order, t) == CHOOSE i \in DOMAIN order : order[i] = t
\* The numbers the loop can reach, of which the old revision uses none.
Unused(order, old) ==
  {n \in Cardinality(IdsOf(old)) + 1 .. 2 * Cardinality(IdsOf(old)) + Cardinality(DOMAIN order) : n \notin IdsOf(old)}
Nth(numbers, n) == CHOOSE x \in numbers : Cardinality({y \in numbers : y < x}) = n

\* A text that is kept keeps its identifier; a new one gets the next free number after the number of old ones.
\* The n-th new text is numbered after the n - 1 before it.
Numbered(order, old) ==
  [t \in {order[i] : i \in DOMAIN order} |->
     IF t \in DOMAIN old THEN old[t]
     ELSE Nth(Unused(order, old), Cardinality({i \in NewAt(order, old) : i < Place(order, t)}))]

NoConditions == [t \in {} |-> 0]

TheInit ==
  /\ \E b \in Bodies : \E o \in Orders(b) : thesis = <<[conditions |-> Numbered(o, NoConditions), status |-> "active"]>>
  /\ assessments = <<>>
  /\ refresher = [r \in Refreshers |-> [at |-> "idle"]]

\* An edit is checked against the newest revision and stored as the next one (Revisions has the race of two edits).
EditThesis(order, status) ==
  /\ Len(thesis) < MaxRevisions
  /\ thesis' = Append(thesis, [conditions |-> Numbered(order, Latest(thesis).conditions), status |-> status])
  /\ UNCHANGED <<assessments, refresher>>

\* refresh_thesis reads the newest revision and hands it to the researcher.
RefreshStart(r) ==
  /\ refresher[r].at = "idle" /\ Latest(thesis).status = "active"
  /\ refresher' = [refresher EXCEPT ![r] = [at |-> "gathering", version |-> Len(thesis), conditions |-> Latest(thesis).conditions]]
  /\ UNCHANGED <<thesis, assessments>>

\* The model may name identifiers it was not given; validate_verdicts keeps one row per condition of the thesis.
\* The revision the evidence was gathered for is the one the assessment names.
RefreshMap(r, verdicts) ==
  LET conditions == refresher[r].conditions
  IN /\ refresher[r].at = "gathering"
     /\ refresher' = [refresher EXCEPT ![r] =
          [at |-> "mapped", version |-> @.version,
           rows |-> {[id |-> conditions[t], text |-> t, verdict |-> verdicts[t]] : t \in DOMAIN conditions}]]
     /\ UNCHANGED <<thesis, assessments>>

\* change_log compares the rows with those of the previous assessment by identifier; "new" if it has none.
Log(rows, prior) ==
  {entry \in {[text |-> row.text, id |-> row.id, verdict |-> row.verdict,
               was |-> IF \E p \in prior : p.id = row.id THEN (CHOOSE p \in prior : p.id = row.id).verdict ELSE "new"] : row \in rows} :
     entry.was # entry.verdict}

PriorRows == IF assessments = <<>> THEN {} ELSE Latest(assessments).rows

RefreshPrior(r) ==
  /\ refresher[r].at = "mapped"
  /\ refresher' = [refresher EXCEPT ![r] =
       [at |-> "storing", version |-> @.version, rows |-> @.rows, prior |-> Len(assessments),
        log |-> IF assessments = <<>> THEN {} ELSE Log(@.rows, PriorRows)]]
  /\ UNCHANGED <<thesis, assessments>>

Stored(work) ==
  [version |-> work.version, rows |-> work.rows, prior |-> work.prior, log |-> work.log, review |-> "pending"]

RefreshStore(r) ==
  /\ refresher[r].at = "storing" /\ Len(assessments) < MaxAssessments
  /\ assessments' = Append(assessments, Stored(refresher[r]))
  /\ refresher' = [refresher EXCEPT ![r] = [at |-> "idle"]]
  /\ UNCHANGED thesis

Acknowledge(n) ==
  /\ n \in DOMAIN assessments /\ assessments[n].review = "pending"
  /\ assessments' = [assessments EXCEPT ![n].review = "acknowledged"]
  /\ UNCHANGED <<thesis, refresher>>

TheNext ==
  \/ \E b \in Bodies, status \in {"active", "closed"} : \E o \in Orders(b) : EditThesis(o, status)
  \/ \E r \in Refreshers :
       \/ RefreshStart(r) \/ RefreshPrior(r) \/ RefreshStore(r)
       \/ refresher[r].at = "gathering" /\ \E v \in [DOMAIN refresher[r].conditions -> Verdicts] : RefreshMap(r, v)
  \/ \E n \in 1 .. MaxAssessments : Acknowledge(n)

TheSpec == TheInit /\ [][TheNext]_thesisVars

-----------------------------------------------------------------------------
(* What must hold. *)

\* An assessment speaks of the conditions of the revision it names, one row each, also when the owner has edited the
\* thesis while the evidence was gathered.
AssessmentFitsRevision ==
  \A n \in DOMAIN assessments :
    LET conditions == thesis[assessments[n].version].conditions
    IN {[id |-> row.id, text |-> row.text] : row \in assessments[n].rows} = {[id |-> conditions[t], text |-> t] : t \in DOMAIN conditions}

\* A change of a condition is told against the verdict the same condition had in the assessment it names, as long as
\* the owner kept the condition in every revision between the two.
Kept(text, from, to) == \A v \in from .. to : text \in DOMAIN thesis[v].conditions

ChangesTraced ==
  \A n \in DOMAIN assessments : assessments[n].prior > 0 =>
    LET p == assessments[assessments[n].prior]
        lo == Min({p.version, assessments[n].version})
        hi == Max({p.version, assessments[n].version})
    IN \A entry \in assessments[n].log :
         Kept(entry.text, lo, hi) => \E row \in p.rows : row.text = entry.text /\ row.verdict = entry.was

\* An assessment is about one revision, and its log of changes about the assessment before it (api/v4/theses.py: refresh).
AssessmentsTraced == AssessmentFitsRevision /\ ChangesTraced
=============================================================================
