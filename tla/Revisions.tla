----------------------------- MODULE Revisions -----------------------------
(***************************************************************************)
(* What the owner declares is kept in chains of immutable revisions: the   *)
(* financial profile, the account coverage, liabilities, restrictions and  *)
(* contribution streams.  A form sends the version it was filled in from;  *)
(* the handler compares it with the newest one and inserts the next, and   *)
(* the unique key (chain, version) decides between two that read the same. *)
(* Source accounts carry a version as well, but are changed in place.      *)
(***************************************************************************)
EXTENDS Integers, Sequences

CONSTANTS
  Forms,      \* browser tabs with an open form
  Handlers,   \* request handlers
  Records,    \* chains, and accounts
  MaxSaves    \* bound: saves of one record

Singletons == {"profile", "coverage"}
Kinds == Singletons \cup {"liability", "preference", "commitment", "account"}

ASSUME RevisionAssumption == MaxSaves \in Nat

VARIABLES
  kind,       \* the table each record is in
  saved,      \* the saves of a record in the order of their commits
  form,       \* a form: the record it is about and the save it was filled in from
  handling    \* a handler: the save under way

revisionVars == <<kind, saved, form, handling>>

\* The answers of a record: an ended stream, a closed liability and a revoked restriction are out of force.
InForce == {"active", "over"}

Nothing == [record |-> "none", from |-> 0]

\* The version column: of a chain the number of its revisions, of an account what its last save wrote.
VersionOf(r) == IF saved[r] = <<>> THEN 0 ELSE saved[r][Len(saved[r])].version

StatusOf(r) == IF saved[r] = <<>> THEN "none" ELSE saved[r][Len(saved[r])].status

RevInit ==
  /\ kind \in [Records -> Kinds]
  /\ saved = [r \in Records |-> <<>>]
  /\ form = [f \in Forms |-> Nothing]
  /\ handling = [h \in Handlers |-> [at |-> "idle"]]

Saves(r, save) == saved' = [saved EXCEPT ![r] = Append(@, save)]

\* What is created is in force; an account, too, starts at version 1.
FirstSave == [version |-> 1, from |-> 0, status |-> "active"]

\* POST: the first revision of a chain, or a new account.
Create(r) ==
  /\ kind[r] \notin Singletons /\ saved[r] = <<>>
  /\ Saves(r, FirstSave)
  /\ UNCHANGED <<kind, form, handling>>

\* GET: the form shows the newest save and its version.
Open(f, r) ==
  /\ kind[r] \in Singletons \/ saved[r] # <<>>
  /\ form' = [form EXCEPT ![f] = [record |-> r, from |-> Len(saved[r]), version |-> VersionOf(r)]]
  /\ UNCHANGED <<kind, saved, handling>>

\* Mutant: what has ended can be edited.
AllowedAlways(r, status) == status = "active" \/ kind[r] \notin Singletons \cup {"account"}

\* The one update of a restriction: it is revoked, and may be so again.
Revokes(status) == status = "over"

\* A restriction can only be revoked; an ended stream cannot be edited; an account and the singletons have no end.
Allowed(r, status) ==
  CASE kind[r] = "preference" -> Revokes(status)
    [] kind[r] = "commitment" -> StatusOf(r) # "over"
    [] kind[r] = "liability" -> TRUE
    [] OTHER -> status = "active"

\* PUT: the version of the form must be the newest.
Put(h, f, status) ==
  LET r == form[f].record
  IN /\ handling[h].at = "idle" /\ form[f] # Nothing
     /\ form[f].version = VersionOf(r) /\ Allowed(r, status)
     /\ handling' = [handling EXCEPT ![h] = [at |-> "commit", record |-> r, from |-> form[f].from, version |-> VersionOf(r), status |-> status]]
     /\ form' = [form EXCEPT ![f] = Nothing]
     /\ UNCHANGED <<kind, saved>>

\* A form that is not up to date is refused with 409, an edit that is not allowed with 422.
Refused(h, f, status) ==
  /\ handling[h].at = "idle" /\ form[f] # Nothing
  /\ form[f].version # VersionOf(form[f].record) \/ ~Allowed(form[f].record, status)
  /\ form' = [form EXCEPT ![f] = Nothing]
  /\ UNCHANGED <<kind, saved, handling>>

\* Mutant: (chain, version) is not unique.
NeverTaken(r, version) == FALSE

\* uq_profile_user_version, uq_coverage_user_version, uq_liability_chain_version and the like.
VersionTaken(r, version) == \E i \in DOMAIN saved[r] : saved[r][i].version = version

Commit(h) ==
  LET t == handling[h]
      next == t.version + 1
  IN /\ t.at = "commit" /\ Len(saved[t.record]) < MaxSaves
     /\ IF kind[t.record] # "account" /\ VersionTaken(t.record, next) THEN UNCHANGED saved
        ELSE Saves(t.record, [version |-> next, from |-> t.from, status |-> t.status])
     /\ handling' = [handling EXCEPT ![h] = [at |-> "idle"]]
     /\ UNCHANGED <<kind, form>>

RevNext ==
  \/ \E r \in Records : Create(r) \/ \E f \in Forms : Open(f, r)
  \/ \E h \in Handlers, f \in Forms, status \in InForce : Put(h, f, status) \/ Refused(h, f, status)
  \/ \E h \in Handlers : Commit(h)

RevSpec == RevInit /\ [][RevNext]_revisionVars

-----------------------------------------------------------------------------
(* What must hold. *)

\* No revision replaces one its author has not seen: the form it came from showed the revision before it.
NoLostUpdate ==
  \A r \in Records : kind[r] # "account" =>
    \A i \in DOMAIN saved[r] : saved[r][i].from = i - 1

\* A stream that has ended and a restriction that was revoked are never in force again, although the handler that
\* checks the status commits later than it reads it.
OverStaysOver ==
  \A r \in Records : kind[r] \in {"commitment", "preference"} =>
    \A i, j \in DOMAIN saved[r] : i < j /\ saved[r][i].status = "over" =>
       saved[r][j].status = "over" /\ kind[r] = "preference"
=============================================================================
