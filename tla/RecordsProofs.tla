--------------------------- MODULE RecordsProofs ----------------------------
(***************************************************************************)
(* Seven parts of what the owner keeps and asks for, proved for any number *)
(* of handlers, workers, rows, keys, uploads, amounts and costs.           *)
(*                                                                         *)
(* Revisions.  That a revision follows the one its author saw is not       *)
(* inductive: it rests on the versions of a chain being 1, 2, 3, ...       *)
(* (Chains), so that the unique key admits only the successor of the       *)
(* newest one, and on a form and a save under way carrying the number of a *)
(* revision that exists (FormsKnow, SavesKnow).                            *)
(*                                                                         *)
(* Imports.  That all answers for a key name one import rests on what the  *)
(* unique keys keep true of the table (KeysUnique, SnapshotsUnique), and   *)
(* on each answer, and each request that is about to answer, naming an     *)
(* import with its own account, key and hash (Names).                      *)
(*                                                                         *)
(* Recommendation runs.  That runs appear in the order of the attempts     *)
(* rests on no two workers holding the same claim of a row                 *)
(* (AttemptsUnique), on the row's token bounding every attempt and every   *)
(* run (AttemptsKnown, RunsKnown), and on an attempt that is not to be     *)
(* marked done having published nothing (PublishedSoFar).                  *)
(*                                                                         *)
(* Theses.  That a change of a condition is told against the verdict on    *)
(* the same condition rests on its number: no revision gives a number      *)
(* twice (Conditions), a text keeps its number while every revision keeps  *)
(* the text (NumbersStay), and rows, also of a refresh under way, carry    *)
(* the numbers of the revision they were gathered for (Fits).              *)
(*                                                                         *)
(* Earmarks and the model quota.  One statement checks a limit and a later *)
(* one uses it up, so handlers that run at a time can all find room before *)
(* the first of them writes.  What holds is that the limit is exceeded by  *)
(* one request for each other handler at most.  Either bound becomes       *)
(* inductive when what is about to be written is counted with what is: the *)
(* amounts of handlers that found room (Pending), the calls that callers   *)
(* are admitted to or are making (Exposure).                               *)
(*                                                                         *)
(* Research.  That a stored session names its gaps and stays within the    *)
(* budget rests on the open transaction having charged every fetch, on     *)
(* each branch that ended without a gap having a fact from every document  *)
(* and on the facts of the one that runs being as many as the answers      *)
(* (SessionSound).                                                         *)
(***************************************************************************)
EXTENDS Imports, Revisions, LegacyQueue, Theses, Earmarks, ModelScheduler, Research, TableLemmas

-----------------------------------------------------------------------------
(* Revisions. *)

Save == [version : Nat, from : Nat, status : InForce]
Filled == [record : Records, from : Nat, version : Nat]
UnderWay == [at : {"commit"}, record : Records, from : Nat, version : Nat, status : InForce]
Resting == [at |-> "idle"]

\* The values of the variables.
RevTypeOK ==
  /\ kind \in [Records -> Kinds]
  /\ saved \in [Records -> Seq(Save)]
  /\ form \in [Forms -> Filled \cup {Nothing}]
  /\ handling \in [Handlers -> UnderWay \cup {Resting}]

\* The revisions of a chain are numbered without a gap, each after the one it came from.
Chains ==
  \A r \in Records : kind[r] # "account" =>
    \A i \in 1 .. Len(saved[r]) : saved[r][i].version = i /\ saved[r][i].from = i - 1

\* A form on a chain knows one of its revisions by number.
FormsKnow ==
  \A f \in Forms : form[f] # Nothing /\ kind[form[f].record] # "account" =>
    form[f].version = form[f].from /\ form[f].from <= Len(saved[form[f].record])

\* So does a save under way.
SavesKnow ==
  \A h \in Handlers : handling[h] # Resting /\ kind[handling[h].record] # "account" =>
    handling[h].version = handling[h].from /\ handling[h].from <= Len(saved[handling[h].record])

\* Only the newest revision of a stream can have ended it, and a save of a stream comes from one that had not.
Streams ==
  /\ \A r \in Records : kind[r] = "commitment" =>
       \A i \in 1 .. Len(saved[r]) : saved[r][i].status = "over" => i = Len(saved[r])
  /\ \A h \in Handlers : handling[h] # Resting /\ kind[handling[h].record] = "commitment" =>
       \A i \in 1 .. Len(saved[handling[h].record]) :
          i = handling[h].version => saved[handling[h].record][i].status # "over"

\* A restriction is never in force again after its first revision.
Restrictions ==
  /\ \A r \in Records : kind[r] = "preference" =>
       \A i \in 1 .. Len(saved[r]) : i > 1 => saved[r][i].status = "over"
  /\ \A h \in Handlers : handling[h] # Resting /\ kind[handling[h].record] = "preference" => handling[h].status = "over"

RevInv == RevTypeOK /\ Chains /\ FormsKnow /\ SavesKnow /\ Streams /\ Restrictions

-----------------------------------------------------------------------------

LEMMA InitRevInv == RevInit => RevInv
  BY DEF RevInit, RevInv, RevTypeOK, Chains, FormsKnow, SavesKnow, Streams, Restrictions, Nothing, Resting, Save

\* What a save that is appended leaves of the chain.
LEMMA Appended ==
  ASSUME NEW s \in Seq(Save), NEW e \in Save
  PROVE  /\ Append(s, e) \in Seq(Save) /\ Len(Append(s, e)) = Len(s) + 1
         /\ \A i \in 1 .. Len(s) : Append(s, e)[i] = s[i]
         /\ Append(s, e)[Len(s) + 1] = e
  OBVIOUS

\* The version column of a chain is the number of its revisions.
LEMMA VersionIsLength ==
  ASSUME RevInv, NEW r \in Records, kind[r] # "account"
  PROVE  VersionOf(r) = Len(saved[r])
<1>1. saved[r] \in Seq(Save) BY DEF RevInv, RevTypeOK
<1>2. CASE saved[r] = <<>> BY <1>2 DEF VersionOf
<1>3. CASE saved[r] # <<>>
  <2>1. Len(saved[r]) \in 1 .. Len(saved[r]) BY <1>1, <1>3
  <2> QED BY <1>3, <2>1 DEF VersionOf, RevInv, Chains
<1> QED BY <1>2, <1>3

\* The version column is a number, of accounts as well.
LEMMA VersionNat ==
  ASSUME RevInv, NEW r \in Records
  PROVE  VersionOf(r) \in Nat
<1>1. saved[r] \in Seq(Save) BY DEF RevInv, RevTypeOK
<1>2. saved[r] # <<>> => saved[r][Len(saved[r])] \in Save BY <1>1
<1> QED BY <1>2 DEF VersionOf, Save

\* A save appended to a record keeps the invariant if it comes after the newest revision of a chain.
LEMMA AppendKeeps ==
  ASSUME RevInv, NEW r \in Records, NEW e \in Save, Saves(r, e), UNCHANGED <<kind, form>>,
         handling' \in [Handlers -> UnderWay \cup {Resting}],
         \A h \in Handlers : handling'[h] # Resting => handling'[h] = handling[h],
         kind[r] # "account" => e.version = Len(saved[r]) + 1 /\ e.from = Len(saved[r]),
         kind[r] = "commitment" => (Len(saved[r]) > 0 => saved[r][Len(saved[r])].status # "over"),
         kind[r] = "preference" => (Len(saved[r]) > 0 => e.status = "over")
  PROVE  RevInv'
<1> DEFINE s == saved[r]
           t == saved'[r]
<1>1. s \in Seq(Save) /\ saved \in [Records -> Seq(Save)] BY DEF RevInv, RevTypeOK
<1>2. saved' = [saved EXCEPT ![r] = Append(s, e)] BY DEF Saves
<1>3. t = Append(s, e) BY <1>1, <1>2
<1>4. \A q \in Records : q # r => saved'[q] = saved[q] BY <1>1, <1>2
<1>5. t \in Seq(Save) /\ Len(t) = Len(s) + 1 /\ (\A i \in 1 .. Len(s) : t[i] = s[i]) /\ t[Len(s) + 1] = e
  BY <1>1, <1>3, Appended
<1>6. Len(s) \in Nat BY <1>1
<1>7. \A q \in Records : Len(saved[q]) \in Nat /\ Len(saved'[q]) \in Nat /\ Len(saved[q]) <= Len(saved'[q])
  BY <1>1, <1>4, <1>5, <1>6
<1>8. \A q \in Records : \A i \in 1 .. Len(saved[q]) : saved'[q][i] = saved[q][i]
  BY <1>4, <1>5
<1>9. RevTypeOK'
  <2>1. saved' \in [Records -> Seq(Save)] BY <1>1, <1>2, <1>3, <1>5
  <2> QED BY <2>1 DEF RevInv, RevTypeOK
<1>10. Chains'
  <2> SUFFICES ASSUME NEW q \in Records, kind[q] # "account", NEW i \in 1 .. Len(saved'[q])
               PROVE  saved'[q][i].version = i /\ saved'[q][i].from = i - 1
    BY DEF Chains
  <2>1. CASE i \in 1 .. Len(saved[q])
    BY <2>1, <1>8 DEF RevInv, Chains
  <2>2. CASE i \notin 1 .. Len(saved[q])
    <3>1. q = r BY <2>2, <1>4
    <3>2. i = Len(s) + 1 BY <3>1, <2>2, <1>5, <1>6
    <3> QED BY <3>1, <3>2, <1>5, <1>6
  <2> QED BY <2>1, <2>2
<1>11. FormsKnow'
  <2> SUFFICES ASSUME NEW f \in Forms, form[f] # Nothing, kind[form[f].record] # "account"
               PROVE  form[f].version = form[f].from /\ form[f].from <= Len(saved'[form[f].record])
    BY DEF FormsKnow
  <2>1. form[f] \in Filled BY DEF RevInv, RevTypeOK
  <2>2. form[f].version = form[f].from /\ form[f].from <= Len(saved[form[f].record]) BY DEF RevInv, FormsKnow
  <2> QED BY <2>1, <2>2, <1>7 DEF Filled
<1>12. SavesKnow'
  <2> SUFFICES ASSUME NEW h \in Handlers, handling'[h] # Resting, kind[handling'[h].record] # "account"
               PROVE  handling'[h].version = handling'[h].from /\ handling'[h].from <= Len(saved'[handling'[h].record])
    BY DEF SavesKnow
  <2>1. handling[h] \in UnderWay /\ handling'[h] = handling[h] BY DEF RevInv, RevTypeOK
  <2>2. handling[h].version = handling[h].from /\ handling[h].from <= Len(saved[handling[h].record]) BY <2>1 DEF RevInv, SavesKnow
  <2> QED BY <2>1, <2>2, <1>7 DEF UnderWay
<1>13. Streams'
  <2>1. ASSUME NEW q \in Records, kind[q] = "commitment", NEW i \in 1 .. Len(saved'[q]), saved'[q][i].status = "over"
        PROVE  i = Len(saved'[q])
    <3>1. CASE q # r BY <3>1, <2>1, <1>4 DEF RevInv, Streams
    <3>2. CASE q = r
      <4>1. CASE i \in 1 .. Len(s)
        <5>1. s[i].status = "over" BY <2>1, <3>2, <4>1, <1>5
        <5>2. i = Len(s) BY <5>1, <2>1, <3>2, <4>1 DEF RevInv, Streams
        <5> QED BY <5>1, <5>2, <2>1, <3>2, <4>1, <1>6
      <4> QED BY <4>1, <3>2, <1>5, <1>6
    <3> QED BY <3>1, <3>2
  <2>2. ASSUME NEW h \in Handlers, handling'[h] # Resting, kind[handling'[h].record] = "commitment",
               NEW i \in 1 .. Len(saved'[handling'[h].record]), i = handling'[h].version
        PROVE  saved'[handling'[h].record][i].status # "over"
    <3>1. handling[h] \in UnderWay /\ handling'[h] = handling[h] BY <2>2 DEF RevInv, RevTypeOK
    <3>2. handling[h].version <= Len(saved[handling[h].record]) BY <3>1, <2>2 DEF RevInv, SavesKnow
    <3>3. i \in 1 .. Len(saved[handling[h].record]) BY <3>1, <3>2, <2>2, <1>7 DEF UnderWay
    <3>4. handling[h].record \in Records BY <3>1 DEF UnderWay
    <3> QED BY <3>1, <3>3, <3>4, <2>2, <1>8 DEF RevInv, Streams
  <2> QED BY <2>1, <2>2 DEF Streams
<1>14. Restrictions'
  <2>1. ASSUME NEW q \in Records, kind[q] = "preference", NEW i \in 1 .. Len(saved'[q]), i > 1
        PROVE  saved'[q][i].status = "over"
    <3>1. CASE i \in 1 .. Len(saved[q]) BY <3>1, <2>1, <1>8 DEF RevInv, Restrictions
    <3>2. CASE i \notin 1 .. Len(saved[q])
      <4>1. q = r BY <3>2, <1>4
      <4>2. i = Len(s) + 1 /\ Len(s) > 0 BY <4>1, <3>2, <2>1, <1>5, <1>6
      <4> QED BY <4>1, <4>2, <2>1, <1>5
    <3> QED BY <3>1, <3>2
  <2>2. ASSUME NEW h \in Handlers, handling'[h] # Resting, kind[handling'[h].record] = "preference"
        PROVE  handling'[h].status = "over"
    BY <2>2 DEF RevInv, Restrictions
  <2> QED BY <2>1, <2>2 DEF Restrictions
<1> QED BY <1>9, <1>10, <1>11, <1>12, <1>13, <1>14 DEF RevInv

\* Forms and handlers that change while the records stay keep the invariant if what they know is true.
LEMMA KnowledgeKeeps ==
  ASSUME RevInv, UNCHANGED <<kind, saved>>, FormsKnow', SavesKnow',
         form' \in [Forms -> Filled \cup {Nothing}],
         handling' \in [Handlers -> UnderWay \cup {Resting}],
         \A h \in Handlers : handling'[h] # Resting /\ handling'[h] # handling[h] =>
            LET r == handling'[h].record
            IN /\ kind[r] = "commitment" => \A i \in 1 .. Len(saved[r]) : i = handling'[h].version => saved[r][i].status # "over"
               /\ kind[r] = "preference" => handling'[h].status = "over"
  PROVE  RevInv'
<1>1. RevTypeOK' BY DEF RevInv, RevTypeOK
<1>2. Chains' BY DEF RevInv, Chains
<1>3. Streams' BY DEF RevInv, Streams
<1>4. Restrictions' BY DEF RevInv, Restrictions
<1> QED BY <1>1, <1>2, <1>3, <1>4 DEF RevInv

LEMMA CreateKeeps == ASSUME RevInv, NEW r \in Records, Create(r) PROVE RevInv'
<1> DEFINE e == [version |-> 1, from |-> 0, status |-> "active"]
<1>1. e \in Save BY DEF Save, InForce
<1>2. saved[r] = <<>> /\ Len(saved[r]) = 0 BY DEF Create
<1>3. Saves(r, e) /\ UNCHANGED <<kind, form, handling>> BY DEF Create, FirstSave
<1>4. handling' \in [Handlers -> UnderWay \cup {Resting}] BY <1>3 DEF RevInv, RevTypeOK
<1> HIDE DEF e
<1>5. e.version = 1 /\ e.from = 0 BY DEF e
<1> QED BY <1>1, <1>2, <1>3, <1>4, <1>5, AppendKeeps

LEMMA OpenKeeps == ASSUME RevInv, NEW f \in Forms, NEW r \in Records, Open(f, r) PROVE RevInv'
<1> DEFINE new == [record |-> r, from |-> Len(saved[r]), version |-> VersionOf(r)]
<1>1. form' = [form EXCEPT ![f] = new] /\ UNCHANGED <<kind, saved, handling>> BY DEF Open
<1>2. Len(saved[r]) \in Nat BY DEF RevInv, RevTypeOK
<1>3. new \in Filled BY <1>2, VersionNat DEF Filled
<1>4. kind[r] # "account" => VersionOf(r) = Len(saved[r]) BY VersionIsLength
<1>5. FormsKnow'
  <2> SUFFICES ASSUME NEW g \in Forms, form'[g] # Nothing, kind[form'[g].record] # "account"
               PROVE  form'[g].version = form'[g].from /\ form'[g].from <= Len(saved[form'[g].record])
    BY <1>1 DEF FormsKnow
  <2>1. CASE g = f
    <3>1. form'[g] = new BY <1>1, <2>1 DEF RevInv, RevTypeOK
    <3> QED BY <3>1, <1>2, <1>4
  <2>2. CASE g # f BY <2>2, <1>1 DEF RevInv, RevTypeOK, FormsKnow
  <2> QED BY <2>1, <2>2
<1>6. SavesKnow' BY <1>1 DEF RevInv, SavesKnow
<1>7. form' \in [Forms -> Filled \cup {Nothing}] BY <1>1, <1>3 DEF RevInv, RevTypeOK
<1>8. handling' \in [Handlers -> UnderWay \cup {Resting}] BY <1>1 DEF RevInv, RevTypeOK
<1> QED BY <1>1, <1>5, <1>6, <1>7, <1>8, KnowledgeKeeps

\* A form that is handed in or refused knows nothing any more.
LEMMA FormGone ==
  ASSUME RevInv, NEW f \in Forms, form' = [form EXCEPT ![f] = Nothing], UNCHANGED <<kind, saved>>
  PROVE  FormsKnow' /\ form' \in [Forms -> Filled \cup {Nothing}]
<1>1. form' \in [Forms -> Filled \cup {Nothing}] BY DEF RevInv, RevTypeOK
<1>2. \A g \in Forms : form'[g] = form[g] \/ form'[g] = Nothing BY DEF RevInv, RevTypeOK
<1> QED BY <1>1, <1>2 DEF RevInv, FormsKnow

LEMMA PutKeeps ==
  ASSUME RevInv, NEW h \in Handlers, NEW f \in Forms, NEW status \in InForce, Put(h, f, status)
  PROVE  RevInv'
<1> DEFINE r == form[f].record
           new == [at |-> "commit", record |-> r, from |-> form[f].from, version |-> VersionOf(r), status |-> status]
<1>1. /\ form[f] # Nothing /\ form[f].version = VersionOf(r) /\ Allowed(r, status)
      /\ handling' = [handling EXCEPT ![h] = new]
      /\ form' = [form EXCEPT ![f] = Nothing] /\ UNCHANGED <<kind, saved>>
  BY DEF Put
<1>2. form[f] \in Filled /\ r \in Records BY <1>1 DEF RevInv, RevTypeOK, Filled
<1>3. new \in UnderWay BY <1>2, VersionNat DEF Filled, UnderWay
<1>4. handling' \in [Handlers -> UnderWay \cup {Resting}] BY <1>1, <1>3 DEF RevInv, RevTypeOK
<1>5. \A g \in Handlers : handling'[g] = (IF g = h THEN new ELSE handling[g]) BY <1>1 DEF RevInv, RevTypeOK
<1>6. kind[r] # "account" => VersionOf(r) = Len(saved[r]) /\ new.version = new.from /\ new.from <= Len(saved[r])
  BY <1>1, <1>2, VersionIsLength DEF RevInv, FormsKnow
<1>7. SavesKnow'
  <2> SUFFICES ASSUME NEW g \in Handlers, handling'[g] # Resting, kind[handling'[g].record] # "account"
               PROVE  handling'[g].version = handling'[g].from /\ handling'[g].from <= Len(saved[handling'[g].record])
    BY <1>1 DEF SavesKnow
  <2>1. CASE g = h BY <2>1, <1>5, <1>6
  <2>2. CASE g # h BY <2>2, <1>5 DEF RevInv, SavesKnow
  <2> QED BY <2>1, <2>2
<1>8. kind[r] = "commitment" => \A i \in 1 .. Len(saved[r]) : i = new.version => saved[r][i].status # "over"
  BY <1>1, <1>6 DEF Allowed, StatusOf
<1>9. kind[r] = "preference" => new.status = "over" BY <1>1 DEF Allowed, Revokes
<1>10. ASSUME NEW g \in Handlers, handling'[g] # Resting, handling'[g] # handling[g]
       PROVE  /\ kind[handling'[g].record] = "commitment" =>
                    \A i \in 1 .. Len(saved[handling'[g].record]) :
                       i = handling'[g].version => saved[handling'[g].record][i].status # "over"
              /\ kind[handling'[g].record] = "preference" => handling'[g].status = "over"
  <2>1. handling'[g] = new BY <1>10, <1>5
  <2> QED BY <2>1, <1>8, <1>9
<1> QED BY <1>1, <1>4, <1>7, <1>10, FormGone, KnowledgeKeeps

LEMMA RefusedKeeps ==
  ASSUME RevInv, NEW h \in Handlers, NEW f \in Forms, NEW status \in InForce, Refused(h, f, status)
  PROVE  RevInv'
<1>1. form' = [form EXCEPT ![f] = Nothing] /\ UNCHANGED <<kind, saved, handling>> BY DEF Refused
<1>2. SavesKnow' BY <1>1 DEF RevInv, SavesKnow
<1>3. handling' \in [Handlers -> UnderWay \cup {Resting}] BY <1>1 DEF RevInv, RevTypeOK
<1> QED BY <1>1, <1>2, <1>3, FormGone, KnowledgeKeeps

\* The unique key admits the successor of the newest revision only.
LEMMA KeyAdmitsNext ==
  ASSUME RevInv, NEW r \in Records, kind[r] # "account", NEW n \in Nat, n <= Len(saved[r]), ~VersionTaken(r, n + 1)
  PROVE  n = Len(saved[r])
<1>1. Len(saved[r]) \in Nat /\ DOMAIN saved[r] = 1 .. Len(saved[r]) BY DEF RevInv, RevTypeOK
<1>2. n + 1 \in 1 .. Len(saved[r]) => saved[r][n + 1].version = n + 1 BY DEF RevInv, Chains
<1> QED BY <1>1, <1>2 DEF VersionTaken

LEMMA CommitKeeps == ASSUME RevInv, NEW h \in Handlers, Commit(h) PROVE RevInv'
<1> DEFINE t == handling[h]
           r == t.record
           next == t.version + 1
           e == [version |-> next, from |-> t.from, status |-> t.status]
<1>1. /\ t.at = "commit"
      /\ IF kind[r] # "account" /\ VersionTaken(r, next) THEN UNCHANGED saved ELSE Saves(r, e)
      /\ handling' = [handling EXCEPT ![h] = Resting] /\ UNCHANGED <<kind, form>>
  BY DEF Commit, Resting
<1>2. t # Resting BY <1>1 DEF Resting
<1>3. t \in UnderWay BY <1>2 DEF RevInv, RevTypeOK
<1>4. r \in Records /\ t.version \in Nat /\ e \in Save BY <1>3 DEF UnderWay, Save
<1>5. handling' \in [Handlers -> UnderWay \cup {Resting}] BY <1>1 DEF RevInv, RevTypeOK
<1>6. \A g \in Handlers : handling'[g] # Resting => handling'[g] = handling[g] BY <1>1 DEF RevInv, RevTypeOK
<1>7. CASE kind[r] # "account" /\ VersionTaken(r, next)
  <2>1. UNCHANGED <<kind, saved, form>> BY <1>1, <1>7
  <2>2. FormsKnow' BY <2>1 DEF RevInv, FormsKnow
  <2>3. SavesKnow' BY <2>1, <1>6 DEF RevInv, SavesKnow
  <2>4. form' \in [Forms -> Filled \cup {Nothing}] BY <2>1 DEF RevInv, RevTypeOK
  <2> QED BY <2>1, <2>2, <2>3, <2>4, <1>5, <1>6, KnowledgeKeeps
<1>8. CASE ~(kind[r] # "account" /\ VersionTaken(r, next))
  <2>1. Saves(r, e) BY <1>1, <1>8
  <2>2. kind[r] # "account" => t.version = t.from /\ t.version = Len(saved[r])
    <3> SUFFICES ASSUME kind[r] # "account" PROVE t.version = t.from /\ t.version = Len(saved[r])
      OBVIOUS
    <3>1. t.version = t.from /\ t.version <= Len(saved[r]) BY <1>2 DEF RevInv, SavesKnow
    <3> QED BY <3>1, <1>4, <1>8, KeyAdmitsNext
  <2>3. kind[r] = "commitment" => (Len(saved[r]) > 0 => saved[r][Len(saved[r])].status # "over")
    <3> SUFFICES ASSUME kind[r] = "commitment", Len(saved[r]) > 0 PROVE saved[r][Len(saved[r])].status # "over"
      OBVIOUS
    <3>1. Len(saved[r]) \in 1 .. Len(saved[r]) BY <1>4 DEF RevInv, RevTypeOK
    <3> QED BY <3>1, <2>2, <1>2 DEF RevInv, Streams
  <2>4. kind[r] = "preference" => e.status = "over" BY <1>2 DEF RevInv, Restrictions
  <2>5. kind[r] # "account" => e.version = Len(saved[r]) + 1 /\ e.from = Len(saved[r]) BY <2>2
  <2> HIDE DEF e
  <2> QED BY <1>1, <1>4, <1>5, <1>6, <2>1, <2>3, <2>4, <2>5, AppendKeeps
<1> QED BY <1>7, <1>8

LEMMA StepRevInv == RevInv /\ [RevNext]_revisionVars => RevInv'
<1> SUFFICES ASSUME RevInv, [RevNext]_revisionVars PROVE RevInv'
  OBVIOUS
<1>1. ASSUME NEW r \in Records, Create(r) PROVE RevInv' BY <1>1, CreateKeeps
<1>2. ASSUME NEW r \in Records, NEW f \in Forms, Open(f, r) PROVE RevInv' BY <1>2, OpenKeeps
<1>3. ASSUME NEW h \in Handlers, NEW f \in Forms, NEW status \in InForce, Put(h, f, status) PROVE RevInv' BY <1>3, PutKeeps
<1>4. ASSUME NEW h \in Handlers, NEW f \in Forms, NEW status \in InForce, Refused(h, f, status) PROVE RevInv' BY <1>4, RefusedKeeps
<1>5. ASSUME NEW h \in Handlers, Commit(h) PROVE RevInv' BY <1>5, CommitKeeps
<1>6. CASE UNCHANGED revisionVars
  BY <1>6 DEF revisionVars, RevInv, RevTypeOK, Chains, FormsKnow, SavesKnow, Streams, Restrictions
<1> QED BY <1>1, <1>2, <1>3, <1>4, <1>5, <1>6 DEF RevNext

\* The invariant holds of every behaviour.
THEOREM RevInvariance == RevSpec => []RevInv
  BY InitRevInv, StepRevInv, PTL DEF RevSpec

\* A save never replaces a revision its author has not seen (put_profile and its siblings).
THEOREM LostUpdatesExcluded == RevSpec => []NoLostUpdate
<1>1. RevInv => NoLostUpdate
  <2> SUFFICES ASSUME RevInv, NEW r \in Records, kind[r] # "account", NEW i \in DOMAIN saved[r]
               PROVE  saved[r][i].from = i - 1
    BY DEF NoLostUpdate
  <2>1. i \in 1 .. Len(saved[r]) BY DEF RevInv, RevTypeOK
  <2> QED BY <2>1 DEF RevInv, Chains
<1> QED BY <1>1, RevInvariance, PTL

\* What has ended or was revoked stays so (edit_commitment, revoke_preference).
THEOREM EndedStays == RevSpec => []OverStaysOver
<1>1. RevInv => OverStaysOver
  <2> SUFFICES ASSUME RevInv, NEW r \in Records, kind[r] \in {"commitment", "preference"},
                      NEW i \in DOMAIN saved[r], NEW j \in DOMAIN saved[r], i < j, saved[r][i].status = "over"
               PROVE  saved[r][j].status = "over" /\ kind[r] = "preference"
    BY DEF OverStaysOver
  <2>1. Len(saved[r]) \in Nat /\ i \in 1 .. Len(saved[r]) /\ j \in 1 .. Len(saved[r]) /\ j > 1 BY DEF RevInv, RevTypeOK
  <2>2. kind[r] # "commitment" BY <2>1 DEF RevInv, Streams
  <2> QED BY <2>1, <2>2 DEF RevInv, Restrictions
<1> QED BY <1>1, RevInvariance, PTL

-----------------------------------------------------------------------------
(* Imports. *)

Hashes == {Hash(u, l) : u \in Uploads \cup Legacy, l \in Listings \cup {None}}

Import == [account : Accounts, key : Keys \cup Legacy, upload : Uploads \cup Legacy, hash : Hashes]

\* A request that looks its key up, or goes on to insert; and one that has its import.
Asking == [at : {"lookup", "insert"}, ask : Asks, hash : Hashes]
Storing == [at : {"refresh"}, ask : Asks, hash : Hashes, import : Nat]
Answer == [ask : Asks, hash : Hashes, import : Nat]

\* The values of the variables.
ImportTypeOK ==
  /\ catalogue \subseteq Listings
  /\ imports \in Seq(Import) /\ Len(imports) <= MaxImports
  /\ built \in 0 .. Len(imports)
  /\ request \in [Clients -> {Idle} \cup Asking \cup Storing]
  /\ answered \subseteq Answer
  /\ upsets \in 0 .. MaxUpsets

\* uq_source_imports_account_key.
KeysUnique ==
  \A i, j \in DOMAIN imports : imports[i].account = imports[j].account /\ imports[i].key = imports[j].key => i = j

\* The unique legacy_snapshot_id.
SnapshotsUnique ==
  \A i, j \in DOMAIN imports : imports[i].upload \in Legacy /\ imports[i].upload = imports[j].upload => i = j

\* x names the import that its key has, made of the rows it asked for.
Names(x) ==
  /\ x.import \in DOMAIN imports
  /\ imports[x.import].account = x.ask.account /\ imports[x.import].key = x.ask.key
  /\ imports[x.import].hash = x.hash

ImportInv ==
  /\ ImportTypeOK /\ KeysUnique /\ SnapshotsUnique
  /\ \A x \in answered : Names(x)
  /\ \A c \in Clients : request[c].at = "refresh" => Names(request[c])

-----------------------------------------------------------------------------

\* An element of the table has its type.
LEMMA ImportShape ==
  ASSUME ImportTypeOK
  PROVE  \A i \in DOMAIN imports : i \in Nat /\ imports[i] \in Import
<1>1. imports \in Seq(Import) BY DEF ImportTypeOK
<1> QED BY <1>1

LEMMA RequestShape ==
  ASSUME ImportTypeOK, NEW c \in Clients
  PROVE  /\ request[c].at \in {"idle", "lookup", "insert", "refresh"}
         /\ request[c].at \in {"lookup", "insert"} => request[c] \in Asking /\ request[c].ask \in Asks /\ request[c].hash \in Hashes
         /\ request[c].at = "refresh" => request[c] \in Storing /\ request[c].ask \in Asks /\ request[c].hash \in Hashes /\ request[c].import \in Nat
         /\ request[c].at = "idle" => request[c] = Idle
<1>1. request[c] \in {Idle} \cup Asking \cup Storing BY DEF ImportTypeOK
<1> QED BY <1>1 DEF Idle, Asking, Storing

LEMMA AskShape ==
  ASSUME NEW ask \in Asks
  PROVE  ask.account \in Accounts /\ ask.key \in Keys \cup Legacy /\ ask.upload \in Uploads \cup Legacy
  BY DEF Asks

\* The completed symbol is a listing of the catalogue, or none.
LEMMA CompletedShape ==
  ASSUME catalogue \subseteq Listings, NEW upload
  PROVE  Completed(upload) \in Listings \cup {None}
<1>1. Cardinality(catalogue) = 1 => catalogue # {} BY FS_EmptySet
<1> QED BY <1>1 DEF Completed

\* A step that stores no import: the requests it leaves at "refresh" are those that were, and what it answers
\* names its import.
LEMMA NothingStored ==
  ASSUME ImportInv, ImportTypeOK', UNCHANGED imports,
         \A x \in answered' : x \in answered \/ Names(x),
         \A c \in Clients : request'[c].at = "refresh" => request'[c] = request[c]
  PROVE  ImportInv'
  BY DEF ImportInv, KeysUnique, SnapshotsUnique, Names

LEMMA InitImportInv == IInit => ImportInv
<1> SUFFICES ASSUME IInit PROVE ImportInv OBVIOUS
<1>1. DOMAIN imports = {} /\ answered = {} /\ \A c \in Clients : request[c] = Idle BY DEF IInit
<1>2. ImportTypeOK
  <2>1. request \in [Clients -> {Idle} \cup Asking \cup Storing] BY DEF IInit
  <2>2. imports \in Seq(Import) /\ Len(imports) = 0 BY DEF IInit
  <2> QED BY <2>1, <2>2, ImportsAssumption DEF IInit, ImportTypeOK
<1> QED BY <1>1, <1>2 DEF ImportInv, KeysUnique, SnapshotsUnique, Idle

-----------------------------------------------------------------------------
(* The steps. *)

LEMMA PrepareKeeps ==
  ASSUME ImportInv, NEW c \in Clients, NEW ask \in Asks, Prepare(c, ask) \/ PrepareLegacy(c, ask)
  PROVE  ImportInv'
<1>1. PICK l \in Listings \cup {None} : Moves(c, [at |-> "lookup", ask |-> ask, hash |-> Hash(ask.upload, l)])
  BY CompletedShape DEF Prepare, PrepareLegacy, ImportInv, ImportTypeOK
<1>2. UNCHANGED <<catalogue, imports, built, answered, upsets>> BY DEF Prepare, PrepareLegacy
<1> DEFINE q == [at |-> "lookup", ask |-> ask, hash |-> Hash(ask.upload, l)]
<1>3. q \in Asking /\ q.at # "refresh" BY AskShape DEF Asking, Hashes
<1>4. request' = [request EXCEPT ![c] = q] BY <1>1 DEF Moves
<1>5. ImportTypeOK' BY <1>2, <1>3, <1>4 DEF ImportInv, ImportTypeOK
<1>6. \A d \in Clients : request'[d].at = "refresh" => request'[d] = request[d]
  BY <1>3, <1>4 DEF ImportInv, ImportTypeOK
<1> QED BY <1>2, <1>5, <1>6, NothingStored

\* A repeat is answered with the import of its key, if that has its rows.
LEMMA ReplayKeeps ==
  ASSUME ImportInv, NEW c \in Clients, request[c].at \in {"lookup", "insert"}, WithKey(request[c].ask) # {}, Replay(c),
         UNCHANGED <<catalogue, imports, built, upsets>>
  PROVE  ImportInv'
<1> DEFINE r == request[c]
           i == CHOOSE i \in WithKey(r.ask) : TRUE
           x == [ask |-> r.ask, hash |-> r.hash, import |-> i]
<1>1. i \in WithKey(r.ask) OBVIOUS
<1>2. i \in DOMAIN imports /\ i \in Nat /\ imports[i].account = r.ask.account /\ imports[i].key = r.ask.key
  BY <1>1, ImportShape DEF WithKey, ImportInv
<1>3. r.ask \in Asks /\ r.hash \in Hashes BY RequestShape DEF ImportInv
<1>4. request' = [request EXCEPT ![c] = Idle] BY DEF Replay, Moves
<1>5. answered' = answered \/ (answered' = answered \cup {x} /\ imports[i].hash = r.hash) BY DEF Replay
<1>6. x \in Answer BY <1>2, <1>3 DEF Answer
<1>7. ImportTypeOK' BY <1>4, <1>5, <1>6 DEF ImportInv, ImportTypeOK
<1>8. imports[i].hash = r.hash => Names(x) BY <1>2 DEF Names
<1>9. \A d \in Clients : request'[d].at = "refresh" => request'[d] = request[d]
  BY <1>4 DEF ImportInv, ImportTypeOK, Idle
<1> QED BY <1>5, <1>7, <1>8, <1>9, NothingStored

\* A request that goes on, or gives up, without an answer.
LEMMA GoesOnKeeps ==
  ASSUME ImportInv, NEW c \in Clients, NEW q \in {Idle} \cup Asking, Moves(c, q),
         UNCHANGED <<catalogue, imports, built, answered, upsets>>
  PROVE  ImportInv'
<1>1. request' = [request EXCEPT ![c] = q] /\ q.at # "refresh" BY DEF Moves, Idle, Asking
<1>2. ImportTypeOK' BY <1>1 DEF ImportInv, ImportTypeOK
<1>3. \A d \in Clients : request'[d].at = "refresh" => request'[d] = request[d]
  BY <1>1 DEF ImportInv, ImportTypeOK
<1> QED BY <1>2, <1>3, NothingStored

LEMMA LookupKeeps ==
  ASSUME ImportInv, NEW c \in Clients, Lookup(c)
  PROVE  ImportInv'
<1>1. request[c].at = "lookup" /\ request[c] \in Asking BY RequestShape DEF ImportInv, Lookup
<1>2. CASE WithKey(request[c].ask) # {}
  BY <1>1, <1>2, ReplayKeeps DEF Lookup
<1>3. CASE WithKey(request[c].ask) = {}
  <2>1. [request[c] EXCEPT !.at = "insert"] \in Asking BY <1>1 DEF Asking
  <2> QED BY <1>3, <2>1, GoesOnKeeps DEF Lookup
<1> QED BY <1>2, <1>3

LEMMA InsertLosesKeeps ==
  ASSUME ImportInv, NEW c \in Clients, InsertLoses(c)
  PROVE  ImportInv'
<1>1. CASE WithKey(request[c].ask) # {}
  BY <1>1, ReplayKeeps DEF InsertLoses
<1>2. CASE WithKey(request[c].ask) = {}
  BY <1>2, GoesOnKeeps DEF InsertLoses
<1> QED BY <1>1, <1>2

\* An import is stored when neither of the unique keys is taken.
LEMMA InsertKeeps ==
  ASSUME ImportInv, NEW c \in Clients, Insert(c)
  PROVE  ImportInv'
<1> DEFINE r == request[c]
           e == [account |-> r.ask.account, key |-> r.ask.key, upload |-> r.ask.upload, hash |-> r.hash]
           q == [at |-> "refresh", ask |-> r.ask, hash |-> r.hash, import |-> Len(imports) + 1]
<1>1. /\ r.at = "insert" /\ ~ Taken(r.ask) /\ Len(imports) < MaxImports
      /\ imports' = Append(imports, e) /\ Moves(c, q) /\ UNCHANGED <<catalogue, built, answered, upsets>>
  BY DEF Insert
<1>2. r.ask \in Asks /\ r.hash \in Hashes BY <1>1, RequestShape DEF ImportInv
<1>3. imports \in Seq(Import) /\ Len(imports) \in Nat /\ e \in Import BY <1>2, AskShape DEF ImportInv, ImportTypeOK, Import
<1>4. /\ imports' \in Seq(Import) /\ Len(imports') = Len(imports) + 1
      /\ DOMAIN imports' = DOMAIN imports \cup {Len(imports) + 1}
      /\ \A i \in DOMAIN imports : imports'[i] = imports[i]
      /\ imports'[Len(imports) + 1] = e
  BY <1>1, <1>3
<1>5. request' = [request EXCEPT ![c] = q] BY <1>1 DEF Moves
<1>6. q \in Storing BY <1>2, <1>3 DEF Storing
<1>7. ImportTypeOK'
  <2>1. Len(imports') <= MaxImports /\ built' \in 0 .. Len(imports')
    BY <1>1, <1>3, <1>4, ImportsAssumption DEF ImportInv, ImportTypeOK
  <2> QED BY <2>1, <1>1, <1>4, <1>5, <1>6 DEF ImportInv, ImportTypeOK
<1>8. \A i \in DOMAIN imports :
         /\ ~ (imports[i].account = e.account /\ imports[i].key = e.key)
         /\ e.upload \in Legacy => imports[i].upload # e.upload
  BY <1>1 DEF Taken, WithKey, Adopted
<1>9. KeysUnique' BY <1>4, <1>8 DEF ImportInv, KeysUnique
<1>10. SnapshotsUnique' BY <1>4, <1>8 DEF ImportInv, SnapshotsUnique
<1>11. ASSUME NEW x \in answered' PROVE Names(x)'
  BY <1>1, <1>4 DEF ImportInv, Names
<1>12. ASSUME NEW d \in Clients, request'[d].at = "refresh" PROVE Names(request[d])'
  <2>1. CASE d = c
    <3>1. request'[d] = q BY <2>1, <1>5 DEF ImportInv, ImportTypeOK
    <3> QED BY <3>1, <1>4 DEF Names
  <2>2. CASE d # c
    <3>1. request'[d] = request[d] BY <2>2, <1>5 DEF ImportInv, ImportTypeOK
    <3> QED BY <3>1, <1>4, <1>12 DEF ImportInv, Names
  <2> QED BY <2>1, <2>2
<1> QED BY <1>7, <1>9, <1>10, <1>11, <1>12 DEF ImportInv

LEMMA RefreshKeeps ==
  ASSUME ImportInv, NEW c \in Clients, NEW works \in BOOLEAN, Refresh(c, works)
  PROVE  ImportInv'
<1> DEFINE r == request[c]
           x == [ask |-> r.ask, hash |-> r.hash, import |-> r.import]
<1>1. r.at = "refresh" /\ r.ask \in Asks /\ r.hash \in Hashes /\ r.import \in Nat /\ Names(r)
  BY RequestShape DEF ImportInv, Refresh
<1>2. request' = [request EXCEPT ![c] = Idle] /\ answered' = answered \cup {x} /\ UNCHANGED <<catalogue, imports>>
  BY DEF Refresh, Moves
<1>3. x \in Answer /\ Names(x) BY <1>1 DEF Answer, Names
<1>4. built' \in 0 .. Len(imports) /\ upsets' \in 0 .. MaxUpsets
  <2>1. Len(imports) \in Nat /\ built \in 0 .. Len(imports) /\ upsets \in 0 .. MaxUpsets BY DEF ImportInv, ImportTypeOK
  <2> QED BY <2>1, ImportsAssumption DEF Refresh
<1>5. ImportTypeOK' BY <1>2, <1>3, <1>4 DEF ImportInv, ImportTypeOK
<1>6. \A d \in Clients : request'[d].at = "refresh" => request'[d] = request[d]
  BY <1>2 DEF ImportInv, ImportTypeOK, Idle
<1> QED BY <1>2, <1>3, <1>5, <1>6, NothingStored

LEMMA UpsetKeeps ==
  ASSUME ImportInv, Dies \/ \E now \in SUBSET Listings : CatalogueChanges(now)
  PROVE  ImportInv'
<1>1. UNCHANGED <<imports, built, answered>> /\ upsets < MaxUpsets /\ upsets' = upsets + 1 /\ catalogue' \subseteq Listings
  BY DEF Dies, CatalogueChanges, ImportInv, ImportTypeOK
<1>2. request' = request \/ request' = [c \in Clients |-> Idle] BY DEF Dies, CatalogueChanges
<1>3. request' \in [Clients -> {Idle} \cup Asking \cup Storing] BY <1>2 DEF ImportInv, ImportTypeOK
<1>4. upsets' \in 0 .. MaxUpsets BY <1>1, ImportsAssumption DEF ImportInv, ImportTypeOK
<1>5. ImportTypeOK' BY <1>1, <1>3, <1>4 DEF ImportInv, ImportTypeOK
<1>6. \A d \in Clients : request'[d].at = "refresh" => request'[d] = request[d] BY <1>2 DEF Idle
<1> QED BY <1>1, <1>5, <1>6, NothingStored

\* Every step keeps the invariant.
LEMMA ImportStep == ImportInv /\ [INext]_importVars => ImportInv'
<1> SUFFICES ASSUME ImportInv, [INext]_importVars PROVE ImportInv' OBVIOUS
<1>1. CASE \E c \in Clients, ask \in Asks : Prepare(c, ask) \/ PrepareLegacy(c, ask) BY <1>1, PrepareKeeps
<1>2. CASE \E c \in Clients : Lookup(c) \/ Insert(c) \/ InsertLoses(c) BY <1>2, LookupKeeps, InsertKeeps, InsertLosesKeeps
<1>3. CASE \E c \in Clients, works \in BOOLEAN : Refresh(c, works) BY <1>3, RefreshKeeps
<1>4. CASE Dies \/ \E now \in SUBSET Listings : CatalogueChanges(now) BY <1>4, UpsetKeeps
<1>5. CASE UNCHANGED importVars
  BY <1>5 DEF importVars, ImportInv, ImportTypeOK, KeysUnique, SnapshotsUnique, Names
<1> QED BY <1>1, <1>2, <1>3, <1>4, <1>5 DEF INext

-----------------------------------------------------------------------------
(* The results. *)

\* The invariant the results rest on holds of every state that confirmations, repeats, changes of the catalogue
\* and deaths of the API reach (api/v4/imports.py: _confirm, adopt_legacy_snapshot).
THEOREM ImportInvariance == ISpec => []ImportInv
  BY InitImportInv, ImportStep, PTL DEF ISpec

\* A request repeated after a lost answer, and an old snapshot adopted from several tabs, take effect once: all
\* answers for a key name one import made of the rows that were asked for, and a snapshot has one import at most.
THEOREM ImportsOnce == ISpec => []ImportedOnce
<1>1. ASSUME ImportInv PROVE ImportedOnce
  <2>1. ITypeOK
    <3>1. \A i \in DOMAIN imports : imports[i].account \in Accounts /\ imports[i].upload \in Uploads \cup Legacy
      BY <1>1, ImportShape DEF ImportInv, Import
    <3>2. \A c \in Clients : request[c].at \in {"idle", "lookup", "insert", "refresh"}
      BY <1>1, RequestShape DEF ImportInv
    <3> QED BY <1>1, <3>1, <3>2 DEF ImportInv, ImportTypeOK, ITypeOK
  <2>2. AnswersAgree
    BY <1>1 DEF ImportInv, AnswersAgree, Names, KeysUnique
  <2>3. AdoptedOnce
    <3> SUFFICES ASSUME NEW s \in Legacy PROVE Cardinality(Adopted(s)) <= 1 BY DEF AdoptedOnce
    <3>1. CASE Adopted(s) = {} BY <3>1, FS_EmptySet
    <3>2. CASE Adopted(s) # {}
      <4>1. PICK i \in Adopted(s) : TRUE BY <3>2
      <4>2. Adopted(s) = {i} BY <1>1, <4>1 DEF Adopted, ImportInv, SnapshotsUnique
      <4> QED BY <4>2, FS_Singleton
    <3> QED BY <3>1, <3>2
  <2> QED BY <2>1, <2>2, <2>3 DEF ImportedOnce
<1> QED BY <1>1, ImportInvariance, PTL

-----------------------------------------------------------------------------
(* Recommendation runs. *)

Row == [status : {"queued", "running", "done", "failed"}, token : Nat, lease : Nat, run : Nat]
Run == [job : Nat, token : Nat]

\* An attempt, by the step it is at.
Working  == [at : {"pipeline"}, job : Nat, token : Nat]
Staging  == [at : {"stage"}, job : Nat, token : Nat, found : Nat]
ToMark   == [at : {"mark"}, job : Nat, token : Nat, status : {"done", "failed"}, run : Nat]
Marking  == [at : {"marking"}, job : Nat, found : Nat, status : {"done", "failed"}, run : Nat]
Attempt  == Working \cup Staging \cup ToMark \cup Marking

\* The values of the variables.
LegacyTypeOK ==
  /\ rows \in Seq(Row)
  /\ runs \in Seq(Run)
  /\ proc \in [Workers -> {Waiting} \cup Attempt]
  /\ raced \in BOOLEAN

\* The claim an attempt was made for; once its row was read to be marked, the token it was read with.
TokenOf(p) == IF p.at = "marking" THEN p.found ELSE p.token

\* An attempt that published, and has its row still to mark.
Published(p) == p.at \in {"mark", "marking"} /\ p.status = "done"

\* Run n is the one that the claim t of row j made.
Made(n, j, t) == n \in DOMAIN runs /\ runs[n].job = j /\ runs[n].token = t

\* An attempt is of a row, for a claim that the row has had.
AttemptsKnown ==
  \A w \in Workers : proc[w] # Waiting =>
    /\ proc[w].job \in DOMAIN rows /\ TokenOf(proc[w]) <= rows[proc[w].job].token
    /\ proc[w].at = "stage" => proc[w].found = proc[w].token

\* No two workers hold the same claim of a row.
AttemptsUnique ==
  \A v, w \in Workers :
    proc[v] # Waiting /\ proc[w] # Waiting /\ proc[v].job = proc[w].job /\ TokenOf(proc[v]) = TokenOf(proc[w]) => v = w

\* A run is of a row, for a claim that the row has had; the runs of a row are in the order of its claims.
RunsKnown ==
  /\ \A n \in DOMAIN runs : runs[n].job \in DOMAIN rows /\ runs[n].token <= rows[runs[n].job].token
  /\ \A m, n \in DOMAIN runs : m < n /\ runs[m].job = runs[n].job => runs[m].token < runs[n].token

\* An attempt has published nothing until it is to be marked done; then it names the run it made.
PublishedSoFar ==
  \A w \in Workers : proc[w] # Waiting =>
    /\ Published(proc[w]) => Made(proc[w].run, proc[w].job, TokenOf(proc[w]))
    /\ ~ Published(proc[w]) => \A n \in DOMAIN runs : ~ Made(n, proc[w].job, TokenOf(proc[w]))

\* A row that is done names a run of its own.  Unless a stale write slipped in, its newest attempt is over
\* once it is done or failed, and made the run it names, or none.
RowTells(j) ==
  /\ rows[j].status = "done" => rows[j].run \in DOMAIN runs /\ runs[rows[j].run].job = j
  /\ ~raced /\ rows[j].status \in {"done", "failed"} =>
       \A w \in Workers : ~ (proc[w] # Waiting /\ proc[w].job = j /\ TokenOf(proc[w]) = rows[j].token)
  /\ ~raced /\ rows[j].status = "done" => Made(rows[j].run, j, rows[j].token)
  /\ ~raced /\ rows[j].status = "failed" => \A n \in DOMAIN runs : ~ Made(n, j, rows[j].token)

LegacyInv ==
  /\ LegacyTypeOK /\ AttemptsKnown /\ AttemptsUnique /\ RunsKnown /\ PublishedSoFar
  /\ \A j \in DOMAIN rows : RowTells(j)

-----------------------------------------------------------------------------

LEMMA InitLegacyInv == LegacyInit => LegacyInv
<1> SUFFICES ASSUME LegacyInit PROVE LegacyInv OBVIOUS
<1>1. DOMAIN rows = {} /\ DOMAIN runs = {} BY DEF LegacyInit
<1>2. LegacyTypeOK
  <2>1. rows \in Seq(Row) /\ runs \in Seq(Run) BY DEF LegacyInit
  <2>2. proc \in [Workers -> {Waiting} \cup Attempt] /\ raced \in BOOLEAN BY DEF LegacyInit
  <2> QED BY <2>1, <2>2 DEF LegacyTypeOK
<1>3. \A w \in Workers : proc[w] = Waiting BY DEF LegacyInit
<1> QED BY <1>1, <1>2, <1>3 DEF LegacyInv, AttemptsKnown, AttemptsUnique, RunsKnown, PublishedSoFar

\* What is known of an attempt by its type.
LEMMA AttemptShape ==
  ASSUME NEW p \in Attempt
  PROVE  /\ p # Waiting
         /\ p.at \in {"pipeline", "stage", "mark", "marking"} /\ p.job \in Nat /\ TokenOf(p) \in Nat
         /\ p.at \in {"pipeline", "stage", "mark"} => p.token \in Nat /\ TokenOf(p) = p.token
         /\ p.at = "stage" => p.found \in Nat
         /\ p.at \in {"mark", "marking"} => p.status \in {"done", "failed"} /\ p.run \in Nat
         /\ p.at = "marking" => p.found = TokenOf(p)
  BY DEF Attempt, Working, Staging, ToMark, Marking, Waiting, TokenOf

\* What the types say of a row and of a run.
LEMMA RowShape ==
  ASSUME LegacyTypeOK
  PROVE  /\ \A j \in DOMAIN rows : /\ j \in Nat /\ rows[j] \in Row
                                   /\ rows[j].status \in {"queued", "running", "done", "failed"}
                                   /\ rows[j].token \in Nat /\ rows[j].run \in Nat
         /\ \A n \in DOMAIN runs : n \in Nat /\ runs[n] \in Run /\ runs[n].job \in Nat /\ runs[n].token \in Nat
<1>1. rows \in Seq(Row) /\ runs \in Seq(Run) BY DEF LegacyTypeOK
<1>2. DOMAIN rows = 1 .. Len(rows) /\ DOMAIN runs = 1 .. Len(runs) /\ Len(rows) \in Nat /\ Len(runs) \in Nat BY <1>1
<1>3. \A j \in DOMAIN rows : j \in Nat /\ rows[j] \in Row BY <1>1, <1>2
<1>4. \A n \in DOMAIN runs : n \in Nat /\ runs[n] \in Run BY <1>1, <1>2
<1> QED BY <1>3, <1>4 DEF Row, Run

\* A worker that is not at a later step of an attempt it has goes on with it, or gave it up.
Carries(w) ==
  \/ proc'[w] = proc[w]
  \/ proc'[w] = Waiting
  \/ /\ proc[w] # Waiting
     /\ proc'[w].job = proc[w].job /\ TokenOf(proc'[w]) = TokenOf(proc[w])
     /\ proc'[w].at = "stage" => proc'[w].found = proc'[w].token
     /\ Published(proc'[w]) <=> Published(proc[w])
     /\ Published(proc[w]) => proc'[w].run = proc[w].run

\* A step that publishes nothing and only raises tokens keeps what is known of the attempts and the runs.
LEMMA AttemptsCarried ==
  ASSUME LegacyInv, LegacyTypeOK', UNCHANGED runs,
         \A j \in DOMAIN rows : j \in DOMAIN rows' /\ rows[j].token <= rows'[j].token,
         \A w \in Workers : Carries(w)
  PROVE  AttemptsKnown' /\ AttemptsUnique' /\ RunsKnown' /\ PublishedSoFar'
<1>1. \A j \in DOMAIN rows : rows[j].token \in Nat /\ rows'[j].token \in Nat
  <2>1. \A j \in DOMAIN rows' : rows'[j].token \in Nat
    <3>1. rows' \in Seq(Row) BY DEF LegacyTypeOK
    <3>2. \A j \in DOMAIN rows' : rows'[j] \in Row BY <3>1
    <3> QED BY <3>2 DEF Row
  <2> QED BY <2>1, RowShape DEF LegacyInv
<1>2. \A w \in Workers : proc[w] # Waiting => TokenOf(proc[w]) \in Nat
  BY AttemptShape DEF LegacyInv, LegacyTypeOK
<1>3. AttemptsKnown'
  BY <1>1, <1>2 DEF Carries, LegacyInv, AttemptsKnown
<1>4. AttemptsUnique'
  BY DEF Carries, LegacyInv, AttemptsUnique
<1>5. RunsKnown'
  <2>1. \A n \in DOMAIN runs : runs[n].token \in Nat BY RowShape DEF LegacyInv
  <2> QED BY <1>1, <2>1 DEF LegacyInv, RunsKnown
<1>6. PublishedSoFar'
  BY DEF Carries, LegacyInv, PublishedSoFar, Made
<1> QED BY <1>3, <1>4, <1>5, <1>6

\* A row that such a step leaves alone tells what it told.
LEMMA RowCarried ==
  ASSUME LegacyInv, UNCHANGED runs, raced \in BOOLEAN, raced' \in BOOLEAN, raced => raced',
         \A w \in Workers : Carries(w),
         NEW j \in DOMAIN rows,
         rows'[j].status = rows[j].status, rows'[j].token = rows[j].token, rows'[j].run = rows[j].run
  PROVE  RowTells(j)'
  BY DEF Carries, LegacyInv, RowTells, Made

\* A step that reads, or gives up: the rows and the runs stay, one worker moves.
LEMMA MovesOn ==
  ASSUME LegacyInv, UNCHANGED <<rows, runs, raced>>, NEW w \in Workers, NEW p \in {Waiting} \cup Attempt,
         proc' = [proc EXCEPT ![w] = p], Carries(w)
  PROVE  LegacyInv'
<1>1. LegacyTypeOK' BY DEF LegacyInv, LegacyTypeOK
<1>2. \A v \in Workers : Carries(v)
  BY DEF LegacyInv, LegacyTypeOK, Carries
<1>3. \A j \in DOMAIN rows : rows[j].token <= rows'[j].token
  BY RowShape DEF LegacyInv
<1>4. \A j \in DOMAIN rows : RowTells(j)'
  BY <1>2, RowCarried DEF LegacyInv, LegacyTypeOK
<1> QED BY <1>1, <1>2, <1>3, <1>4, AttemptsCarried DEF LegacyInv

-----------------------------------------------------------------------------
(* The steps. *)

LEMMA CreateJobKeeps == LegacyInv /\ CreateJob => LegacyInv'
<1> SUFFICES ASSUME LegacyInv, CreateJob PROVE LegacyInv' OBVIOUS
<1> DEFINE new == [status |-> "queued", token |-> 0, lease |-> 0, run |-> NoRun]
<1>1. rows \in Seq(Row) /\ new \in Row BY DEF LegacyInv, LegacyTypeOK, Row, NoRun
<1>2. rows' = Append(rows, new) /\ UNCHANGED <<runs, proc, raced>> BY DEF CreateJob
<1>3. /\ rows' \in Seq(Row) /\ Len(rows') = Len(rows) + 1
      /\ \A j \in DOMAIN rows : rows'[j] = rows[j]
      /\ rows'[Len(rows) + 1] = new
  BY <1>1, <1>2
<1>4. LegacyTypeOK' BY <1>2, <1>3 DEF LegacyInv, LegacyTypeOK
<1>5. \A w \in Workers : Carries(w) BY <1>2 DEF Carries
<1>6. \A j \in DOMAIN rows : j \in DOMAIN rows' /\ rows[j].token <= rows'[j].token
  BY <1>1, <1>3, RowShape DEF LegacyInv
<1>7. ASSUME NEW j \in DOMAIN rows' PROVE RowTells(j)'
  <2>1. CASE j \in DOMAIN rows
    BY <2>1, <1>2, <1>3, <1>5, RowCarried DEF LegacyInv, LegacyTypeOK
  <2>2. CASE j \notin DOMAIN rows
    <3>1. j = Len(rows) + 1 BY <2>2, <1>1, <1>3
    <3> QED BY <3>1, <1>3 DEF RowTells
  <2> QED BY <2>1, <2>2
<1> QED BY <1>2, <1>4, <1>5, <1>6, <1>7, AttemptsCarried DEF LegacyInv

LEMMA LegacyTickKeeps == LegacyInv /\ LegacyTick => LegacyInv'
<1> SUFFICES ASSUME LegacyInv, LegacyTick PROVE LegacyInv' OBVIOUS
<1>1. rows \in Seq(Row) /\ UNCHANGED <<runs, proc, raced>> BY DEF LegacyInv, LegacyTypeOK, LegacyTick
<1>2. rows' = [j \in DOMAIN rows |-> [rows[j] EXCEPT !.lease = IF @ > 0 THEN @ - 1 ELSE 0]]
  BY DEF LegacyTick
<1>3. \A j \in DOMAIN rows : rows[j] \in Row /\ rows'[j] \in Row
  BY <1>2, RowShape DEF LegacyInv, Row
<1>4. rows' \in Seq(Row) /\ DOMAIN rows' = DOMAIN rows
  BY <1>1, <1>2, <1>3, ChangedInPlace
<1>5. \A j \in DOMAIN rows : rows'[j].status = rows[j].status /\ rows'[j].token = rows[j].token /\ rows'[j].run = rows[j].run
  BY <1>2, <1>3 DEF Row
<1>6. LegacyTypeOK' BY <1>1, <1>4 DEF LegacyInv, LegacyTypeOK
<1>7. \A w \in Workers : Carries(w) BY <1>1 DEF Carries
<1>8. \A j \in DOMAIN rows : rows[j].token <= rows'[j].token BY <1>5, RowShape DEF LegacyInv
<1>9. \A j \in DOMAIN rows' : RowTells(j)'
  BY <1>1, <1>4, <1>5, <1>7, RowCarried DEF LegacyInv, LegacyTypeOK
<1> QED BY <1>1, <1>4, <1>6, <1>7, <1>8, <1>9, AttemptsCarried DEF LegacyInv

\* The steps that only read: a stage or a mark that finds its row, a lost job, a failure, the death of a worker.
LEMMA ReadsKeep ==
  ASSUME LegacyInv, NEW w \in Workers,
         StageRead(w) \/ LostJob(w) \/ PipelineFails(w) \/ MarkRead(w) \/ WorkerDies(w)
  PROVE  LegacyInv'
<1>1. proc \in [Workers -> {Waiting} \cup Attempt] /\ rows \in Seq(Row) BY DEF LegacyInv, LegacyTypeOK
<1> DEFINE p == proc[w]
<1>2. p # Waiting => p \in Attempt /\ p.job \in DOMAIN rows /\ rows[p.job].token \in Nat
  BY <1>1, RowShape DEF LegacyInv, AttemptsKnown
<1>3. p.at \in {"pipeline", "mark"} => p # Waiting BY DEF Waiting
<1>4. CASE StageRead(w)
  <2> DEFINE q == [at |-> "stage", job |-> p.job, token |-> p.token, found |-> rows[p.job].token]
  <2>1. p.at = "pipeline" /\ p \in Attempt /\ p.token = rows[p.job].token BY <1>4, <1>2, <1>3 DEF StageRead, Holds
  <2>2. proc' = [proc EXCEPT ![w] = q] /\ UNCHANGED <<rows, runs, raced>> BY <1>1, <1>4 DEF StageRead
  <2>3. q \in Attempt BY <2>1, <1>2, <1>3, AttemptShape DEF Attempt, Staging
  <2>4. Carries(w) BY <2>1, <2>2, <1>1, <1>2, <1>3 DEF Carries, TokenOf, Published
  <2> QED BY <2>2, <2>3, <2>4, MovesOn
<1>5. CASE LostJob(w) \/ WorkerDies(w)
  <2>1. proc' = [proc EXCEPT ![w] = Waiting] /\ UNCHANGED <<rows, runs, raced>> BY <1>5 DEF LostJob, WorkerDies
  <2>2. Carries(w) BY <2>1, <1>1 DEF Carries
  <2> QED BY <2>1, <2>2, MovesOn
<1>6. CASE PipelineFails(w)
  <2> DEFINE q == [at |-> "mark", job |-> p.job, token |-> p.token, status |-> "failed", run |-> NoRun]
  <2>1. p.at = "pipeline" /\ p \in Attempt BY <1>6, <1>2, <1>3 DEF PipelineFails
  <2>2. proc' = [proc EXCEPT ![w] = q] /\ UNCHANGED <<rows, runs, raced>> BY <1>1, <1>6 DEF PipelineFails
  <2>3. q \in Attempt BY <2>1, AttemptShape DEF Attempt, ToMark, NoRun
  <2>4. Carries(w) BY <2>1, <2>2, <1>1, <1>3 DEF Carries, TokenOf, Published
  <2> QED BY <2>2, <2>3, <2>4, MovesOn
<1>7. CASE MarkRead(w)
  <2> DEFINE q == [at |-> "marking", job |-> p.job, found |-> rows[p.job].token, status |-> p.status, run |-> p.run]
  <2>1. p.at = "mark" /\ p \in Attempt BY <1>7, <1>2, <1>3 DEF MarkRead
  <2>2. CASE Holds(w)
    <3>1. proc' = [proc EXCEPT ![w] = q] /\ UNCHANGED <<rows, runs, raced>> BY <1>1, <1>7, <2>2 DEF MarkRead
    <3>2. p.token = rows[p.job].token BY <2>2 DEF Holds
    <3>3. q \in Attempt BY <2>1, <1>2, <1>3, AttemptShape DEF Attempt, Marking
    <3>4. Carries(w) BY <2>1, <3>1, <3>2, <1>1, <1>3 DEF Carries, TokenOf, Published
    <3> QED BY <3>1, <3>3, <3>4, MovesOn
  <2>3. CASE ~ Holds(w)
    <3>1. proc' = [proc EXCEPT ![w] = Waiting] /\ UNCHANGED <<rows, runs, raced>> BY <1>1, <1>7, <2>3 DEF MarkRead
    <3>2. Carries(w) BY <3>1, <1>1 DEF Carries
    <3> QED BY <3>1, <3>2, MovesOn
  <2> QED BY <2>2, <2>3
<1> QED BY <1>4, <1>5, <1>6, <1>7

LEMMA ClaimNextKeeps ==
  ASSUME LegacyInv, NEW w \in Workers, ClaimNext(w)
  PROVE  LegacyInv'
<1>1. proc \in [Workers -> {Waiting} \cup Attempt] /\ rows \in Seq(Row) /\ runs \in Seq(Run) BY DEF LegacyInv, LegacyTypeOK
<1>2. PICK j \in Takable :
        /\ rows' = [rows EXCEPT ![j].status = "running", ![j].token = @ + 1, ![j].lease = LegacyLease]
        /\ proc' = [proc EXCEPT ![w] = Running(j, rows[j].token + 1)]
  BY DEF ClaimNext
<1>3. j \in DOMAIN rows /\ j \in Nat /\ rows[j].status \notin {"done", "failed"} /\ rows[j].token \in Nat
  BY RowShape DEF Takable, LegacyInv
<1>4. UNCHANGED <<runs, raced>> /\ proc[w] = Waiting BY DEF ClaimNext
<1> DEFINE q == Running(j, rows[j].token + 1)
<1>5. q \in Attempt /\ q # Waiting /\ q.job = j /\ TokenOf(q) = rows[j].token + 1 /\ ~ Published(q) /\ q.at # "stage"
  BY <1>3 DEF Running, Attempt, Working, Waiting, TokenOf, Published
<1>6. /\ rows' \in Seq(Row) /\ DOMAIN rows' = DOMAIN rows
      /\ rows'[j].status = "running" /\ rows'[j].token = rows[j].token + 1
      /\ \A i \in DOMAIN rows : i # j => rows'[i] = rows[i]
  <2>1. \A i \in DOMAIN rows : rows[i] \in Row BY RowShape DEF LegacyInv
  <2>2. \A i \in DOMAIN rows : rows'[i] \in Row BY <2>1, <1>2, <1>3, LegacyAssumption DEF Row
  <2>3. rows' = [i \in DOMAIN rows |-> rows'[i]] BY <1>2
  <2>4. rows' \in Seq(Row) /\ DOMAIN rows' = DOMAIN rows BY <1>1, <2>2, <2>3, ChangedInPlace
  <2> QED BY <2>1, <2>4, <1>2, <1>3 DEF Row
<1>7. LegacyTypeOK' BY <1>1, <1>2, <1>4, <1>5, <1>6 DEF LegacyInv, LegacyTypeOK
<1>8. proc'[w] = q /\ \A v \in Workers : v # w => proc'[v] = proc[v] BY <1>1, <1>2
<1>9. \A i \in DOMAIN rows : rows[i].token \in Nat /\ rows[i].token <= rows'[i].token BY <1>3, <1>6, RowShape DEF LegacyInv
<1>10. \A v \in Workers : proc[v] # Waiting => TokenOf(proc[v]) \in Nat /\ TokenOf(proc[v]) <= rows[proc[v].job].token /\ proc[v].job \in DOMAIN rows
  BY <1>1, AttemptShape DEF LegacyInv, AttemptsKnown
<1>11. AttemptsKnown'
  <2> SUFFICES ASSUME NEW v \in Workers, proc'[v] # Waiting
               PROVE  /\ proc'[v].job \in DOMAIN rows' /\ TokenOf(proc'[v]) <= rows'[proc'[v].job].token
                      /\ proc'[v].at = "stage" => proc'[v].found = proc'[v].token
    BY DEF AttemptsKnown, TokenOf
  <2>1. CASE v = w BY <2>1, <1>3, <1>5, <1>6, <1>8
  <2>2. CASE v # w
    <3>1. rows'[proc[v].job].token \in Nat BY <2>2, <1>3, <1>6, <1>8, <1>9, <1>10
    <3> QED BY <2>2, <3>1, <1>6, <1>8, <1>9, <1>10 DEF LegacyInv, AttemptsKnown
  <2> QED BY <2>1, <2>2
<1>12. AttemptsUnique'
  <2>1. \A v \in Workers : proc[v] # Waiting /\ proc[v].job = j => TokenOf(proc[v]) # rows[j].token + 1
    BY <1>3, <1>10
  <2> QED BY <2>1, <1>5, <1>8 DEF LegacyInv, AttemptsUnique, TokenOf
<1>13. \A n \in DOMAIN runs : runs[n].token \in Nat /\ runs[n].job \in DOMAIN rows /\ runs[n].token <= rows[runs[n].job].token
  BY RowShape DEF LegacyInv, RunsKnown
<1>14. RunsKnown'
  <2>1. \A n \in DOMAIN runs : runs[n].token <= rows'[runs[n].job].token
    BY <1>3, <1>6, <1>13
  <2> QED BY <2>1, <1>4, <1>6 DEF LegacyInv, RunsKnown
<1>15. PublishedSoFar'
  <2>1. \A n \in DOMAIN runs : ~ Made(n, j, rows[j].token + 1)
    BY <1>3, <1>13 DEF Made
  <2> QED BY <2>1, <1>4, <1>5, <1>8 DEF LegacyInv, PublishedSoFar, Made, TokenOf, Published
<1>16. ASSUME NEW i \in DOMAIN rows' PROVE RowTells(i)'
  <2>1. CASE i = j BY <2>1, <1>6 DEF RowTells
  <2>2. CASE i # j
    BY <2>2, <1>4, <1>5, <1>6, <1>8 DEF LegacyInv, RowTells, Made, TokenOf
  <2> QED BY <2>1, <2>2
<1> QED BY <1>7, <1>11, <1>12, <1>14, <1>15, <1>16 DEF LegacyInv

LEMMA StageWriteKeeps ==
  ASSUME LegacyInv, NEW w \in Workers, StageWrite(w)
  PROVE  LegacyInv'
<1>1. proc \in [Workers -> {Waiting} \cup Attempt] /\ rows \in Seq(Row) /\ raced \in BOOLEAN BY DEF LegacyInv, LegacyTypeOK
<1> DEFINE p == proc[w]
           q == Running(p.job, p.token)
<1>2. p.at = "stage" /\ p # Waiting /\ p \in Attempt /\ p.job \in DOMAIN rows
  BY <1>1 DEF StageWrite, Waiting, LegacyInv, AttemptsKnown
<1>3. /\ rows' = [rows EXCEPT ![p.job].lease = LegacyLease]
      /\ proc' = [proc EXCEPT ![w] = q]
      /\ raced' = (raced \/ rows[p.job].token # p.found) /\ UNCHANGED runs
  BY <1>1 DEF StageWrite
<1>4. q \in Attempt /\ q.job = p.job /\ TokenOf(q) = TokenOf(p) /\ q.at = "pipeline" /\ ~ Published(p) /\ ~ Published(q)
  BY <1>2, AttemptShape DEF Running, Attempt, Working, TokenOf, Published
<1>5. /\ rows' \in Seq(Row) /\ DOMAIN rows' = DOMAIN rows
      /\ \A j \in DOMAIN rows : rows'[j].status = rows[j].status /\ rows'[j].token = rows[j].token /\ rows'[j].run = rows[j].run
  <2>1. \A i \in DOMAIN rows : rows[i] \in Row BY RowShape DEF LegacyInv
  <2>2. \A i \in DOMAIN rows : rows'[i] \in Row BY <2>1, <1>2, <1>3, LegacyAssumption DEF Row
  <2>3. rows' = [i \in DOMAIN rows |-> rows'[i]] BY <1>3
  <2>4. rows' \in Seq(Row) /\ DOMAIN rows' = DOMAIN rows BY <1>1, <2>2, <2>3, ChangedInPlace
  <2> QED BY <2>1, <2>4, <1>2, <1>3 DEF Row
<1>6. LegacyTypeOK' BY <1>1, <1>3, <1>4, <1>5 DEF LegacyInv, LegacyTypeOK
<1>7. \A v \in Workers : Carries(v)
  BY <1>1, <1>2, <1>3, <1>4 DEF Carries
<1>8. \A j \in DOMAIN rows : rows[j].token <= rows'[j].token BY <1>5, RowShape DEF LegacyInv
<1>9. \A j \in DOMAIN rows' : RowTells(j)'
  BY <1>1, <1>3, <1>5, <1>7, RowCarried DEF LegacyInv
<1> QED BY <1>3, <1>5, <1>6, <1>7, <1>8, <1>9, AttemptsCarried DEF LegacyInv

\* A run is published by the newest attempt of its row, which has published nothing yet: it comes after all the others.
LEMMA PublishRunKeeps ==
  ASSUME LegacyInv, NEW w \in Workers, PublishRun(w)
  PROVE  LegacyInv'
<1>1. proc \in [Workers -> {Waiting} \cup Attempt] /\ rows \in Seq(Row) /\ runs \in Seq(Run) BY DEF LegacyInv, LegacyTypeOK
<1> DEFINE p == proc[w]
           j == p.job
           q == [at |-> "mark", job |-> j, token |-> p.token, status |-> "done", run |-> Len(runs) + 1]
           r == [job |-> j, token |-> p.token]
<1>2. p.at = "pipeline" /\ p # Waiting /\ p \in Attempt /\ j \in DOMAIN rows /\ j \in Nat
  BY <1>1 DEF PublishRun, Waiting, LegacyInv, AttemptsKnown
<1>3. p.token \in Nat /\ TokenOf(p) = p.token /\ p.token = rows[j].token /\ ~ Published(p)
  BY <1>2, AttemptShape DEF PublishRun, Holds, Published
<1>4. /\ rows' = [rows EXCEPT ![j].lease = LegacyLease] /\ runs' = Append(runs, r)
      /\ proc' = [proc EXCEPT ![w] = q] /\ UNCHANGED raced
  BY <1>1 DEF PublishRun
<1>5. /\ q \in Attempt /\ q # Waiting /\ q.job = j /\ TokenOf(q) = p.token /\ q.at = "mark"
      /\ Published(q) /\ q.run = Len(runs) + 1 /\ r \in Run
  BY <1>1, <1>2, <1>3 DEF Attempt, ToMark, TokenOf, Published, Waiting, Run
<1>6. /\ rows' \in Seq(Row) /\ DOMAIN rows' = DOMAIN rows
      /\ \A i \in DOMAIN rows : rows'[i].status = rows[i].status /\ rows'[i].token = rows[i].token /\ rows'[i].run = rows[i].run
  <2>1. \A i \in DOMAIN rows : rows[i] \in Row BY RowShape DEF LegacyInv
  <2>2. \A i \in DOMAIN rows : rows'[i] \in Row BY <2>1, <1>2, <1>4, LegacyAssumption DEF Row
  <2>3. rows' = [i \in DOMAIN rows |-> rows'[i]] BY <1>4
  <2>4. rows' \in Seq(Row) /\ DOMAIN rows' = DOMAIN rows BY <1>1, <2>2, <2>3, ChangedInPlace
  <2> QED BY <2>1, <2>4, <1>2, <1>4 DEF Row
<1>7. /\ runs' \in Seq(Run) /\ DOMAIN runs' = DOMAIN runs \cup {Len(runs) + 1} /\ Len(runs) + 1 \notin DOMAIN runs
      /\ \A n \in DOMAIN runs : runs'[n] = runs[n] /\ n < Len(runs) + 1
      /\ runs'[Len(runs) + 1] = r
  BY <1>1, <1>4, <1>5
<1>8. LegacyTypeOK' BY <1>1, <1>4, <1>5, <1>6, <1>7 DEF LegacyInv, LegacyTypeOK
<1>9. proc'[w] = q /\ \A v \in Workers : v # w => proc'[v] = proc[v] BY <1>1, <1>4
<1>10. AttemptsKnown'
  <2> SUFFICES ASSUME NEW v \in Workers, proc'[v] # Waiting
               PROVE  /\ proc'[v].job \in DOMAIN rows' /\ TokenOf(proc'[v]) <= rows'[proc'[v].job].token
                      /\ proc'[v].at = "stage" => proc'[v].found = proc'[v].token
    BY DEF AttemptsKnown, TokenOf
  <2>1. CASE v = w BY <2>1, <1>2, <1>3, <1>5, <1>6, <1>9
  <2>2. CASE v # w BY <2>2, <1>6, <1>9 DEF LegacyInv, AttemptsKnown
  <2> QED BY <2>1, <2>2
<1>11. AttemptsUnique'
  BY <1>2, <1>3, <1>5, <1>9 DEF LegacyInv, AttemptsUnique, TokenOf
<1>12. \A n \in DOMAIN runs : runs[n].token \in Nat /\ runs[n].job \in DOMAIN rows /\ runs[n].token <= rows[runs[n].job].token
  BY RowShape DEF LegacyInv, RunsKnown
<1>13. \A n \in DOMAIN runs : runs[n].job = j => runs[n].token < p.token
  <2>1. \A n \in DOMAIN runs : ~ Made(n, j, p.token) BY <1>2, <1>3 DEF LegacyInv, PublishedSoFar
  <2> QED BY <2>1, <1>3, <1>12 DEF Made
<1>14. RunsKnown'
  <2>1. \A n \in DOMAIN runs' : runs'[n].job \in DOMAIN rows' /\ runs'[n].token <= rows'[runs'[n].job].token
    BY <1>2, <1>3, <1>6, <1>7, <1>12
  <2>2. \A m, n \in DOMAIN runs' : m < n /\ runs'[m].job = runs'[n].job => runs'[m].token < runs'[n].token
    <3> SUFFICES ASSUME NEW m \in DOMAIN runs', NEW n \in DOMAIN runs', m < n, runs'[m].job = runs'[n].job
                 PROVE  runs'[m].token < runs'[n].token
      OBVIOUS
    <3>1. m \in DOMAIN runs BY <1>1, <1>7
    <3>2. CASE n \in DOMAIN runs BY <3>1, <3>2, <1>7 DEF LegacyInv, RunsKnown
    <3>3. CASE n = Len(runs) + 1 BY <3>1, <3>3, <1>7, <1>13
    <3> QED BY <3>2, <3>3, <1>7
  <2> QED BY <2>1, <2>2 DEF RunsKnown
<1>15. PublishedSoFar'
  <2>1. \A v \in Workers : v # w /\ proc[v] # Waiting => ~ (proc[v].job = j /\ TokenOf(proc[v]) = p.token)
    BY <1>2, <1>3 DEF LegacyInv, AttemptsUnique
  <2>2. \A v \in Workers : v # w /\ proc[v] # Waiting =>
          /\ Published(proc[v]) => Made(proc[v].run, proc[v].job, TokenOf(proc[v]))'
          /\ ~ Published(proc[v]) => \A n \in DOMAIN runs' : ~ (runs'[n].job = proc[v].job /\ runs'[n].token = TokenOf(proc[v]))
    BY <2>1, <1>7, <1>9 DEF LegacyInv, PublishedSoFar, Made, TokenOf
  <2> QED BY <2>2, <1>5, <1>7, <1>9 DEF PublishedSoFar, Made, TokenOf, Published
<1>16. ASSUME NEW i \in DOMAIN rows' PROVE RowTells(i)'
  <2>1. i \in DOMAIN rows /\ RowTells(i) BY <1>6 DEF LegacyInv
  <2>2. i = j /\ ~raced => rows[i].status \notin {"done", "failed"} BY <2>1, <1>2, <1>3 DEF RowTells
  <2> QED BY <2>1, <2>2, <1>4, <1>5, <1>6, <1>7, <1>9 DEF RowTells, Made, TokenOf
<1> QED BY <1>8, <1>10, <1>11, <1>14, <1>15, <1>16 DEF LegacyInv

LEMMA MarkWriteKeeps ==
  ASSUME LegacyInv, NEW w \in Workers, MarkWrite(w)
  PROVE  LegacyInv'
<1>1. proc \in [Workers -> {Waiting} \cup Attempt] /\ rows \in Seq(Row) /\ raced \in BOOLEAN BY DEF LegacyInv, LegacyTypeOK
<1> DEFINE p == proc[w]
           j == p.job
<1>2. p.at = "marking" /\ p # Waiting /\ p \in Attempt /\ j \in DOMAIN rows
  BY <1>1 DEF MarkWrite, Waiting, LegacyInv, AttemptsKnown
<1>3. p.status \in {"done", "failed"} /\ p.run \in Nat /\ TokenOf(p) = p.found
  BY <1>2, AttemptShape
<1>4. /\ rows' = [rows EXCEPT ![j].status = p.status, ![j].run = IF p.status = "done" THEN p.run ELSE @]
      /\ raced' = (raced \/ rows[j].token # p.found)
      /\ proc' = [proc EXCEPT ![w] = Waiting] /\ UNCHANGED runs
  BY DEF MarkWrite
<1>5. /\ rows' \in Seq(Row) /\ DOMAIN rows' = DOMAIN rows
      /\ \A i \in DOMAIN rows : rows'[i].token = rows[i].token
      /\ \A i \in DOMAIN rows : i # j => rows'[i] = rows[i]
      /\ rows'[j].status = p.status /\ rows'[j].run = IF p.status = "done" THEN p.run ELSE rows[j].run
  <2>1. \A i \in DOMAIN rows : rows[i] \in Row BY RowShape DEF LegacyInv
  <2>2. \A i \in DOMAIN rows : rows'[i] \in Row BY <2>1, <1>2, <1>3, <1>4 DEF Row
  <2>3. rows' = [i \in DOMAIN rows |-> rows'[i]] BY <1>4
  <2>4. rows' \in Seq(Row) /\ DOMAIN rows' = DOMAIN rows BY <1>1, <2>2, <2>3, ChangedInPlace
  <2> QED BY <2>1, <2>4, <1>2, <1>3, <1>4 DEF Row
<1>6. LegacyTypeOK' BY <1>1, <1>4, <1>5 DEF LegacyInv, LegacyTypeOK
<1>7. \A v \in Workers : Carries(v) BY <1>1, <1>4 DEF Carries
<1>8. \A i \in DOMAIN rows : rows[i].token <= rows'[i].token BY <1>5, RowShape DEF LegacyInv
<1>9. ASSUME NEW i \in DOMAIN rows' PROVE RowTells(i)'
  <2>1. CASE i # j
    BY <2>1, <1>1, <1>4, <1>5, <1>7, RowCarried DEF LegacyInv
  <2>2. CASE i = j
    <3>1. p.status = "done" => Made(p.run, j, p.found)
      BY <1>2, <1>3 DEF LegacyInv, PublishedSoFar, Published
    <3>2. p.status = "failed" => \A n \in DOMAIN runs : ~ Made(n, j, p.found)
      BY <1>2, <1>3 DEF LegacyInv, PublishedSoFar, Published
    <3>3. ~raced' => ~raced /\ p.found = rows[j].token BY <1>1, <1>4
    <3>4. \A v \in Workers : v # w /\ proc[v] # Waiting /\ proc[v].job = j => TokenOf(proc[v]) # p.found
      BY <1>2, <1>3 DEF LegacyInv, AttemptsUnique
    <3>5. ~raced' => \A v \in Workers : ~ (proc'[v] # Waiting /\ proc'[v].job = j /\ TokenOf(proc'[v]) = rows'[j].token)
      BY <3>3, <3>4, <1>1, <1>2, <1>4, <1>5
    <3>6. rows'[j].status = "done" => Made(rows'[j].run, j, p.found)
      BY <3>1, <1>5
    <3>7. rows'[j].status = "failed" => \A n \in DOMAIN runs : ~ Made(n, j, p.found)
      BY <3>2, <1>5
    <3>8. ~raced' => rows'[j].token = p.found BY <3>3, <1>2, <1>5
    <3> QED
      BY <2>2, <3>5, <3>6, <3>7, <3>8, <1>4 DEF RowTells, Made
  <2> QED BY <2>1, <2>2
<1> QED BY <1>4, <1>5, <1>6, <1>7, <1>8, <1>9, AttemptsCarried DEF LegacyInv

\* Every step of the old queue keeps its invariant.
LEMMA LegacyStep == LegacyInv /\ [LegacyNext]_legacyVars => LegacyInv'
<1> SUFFICES ASSUME LegacyInv, [LegacyNext]_legacyVars PROVE LegacyInv' OBVIOUS
<1>1. CASE CreateJob BY <1>1, CreateJobKeeps
<1>2. CASE LegacyTick BY <1>2, LegacyTickKeeps
<1>3. CASE \E w \in Workers : ClaimNext(w) BY <1>3, ClaimNextKeeps
<1>4. CASE \E w \in Workers : StageWrite(w) BY <1>4, StageWriteKeeps
<1>5. CASE \E w \in Workers : PublishRun(w) BY <1>5, PublishRunKeeps
<1>6. CASE \E w \in Workers : MarkWrite(w) BY <1>6, MarkWriteKeeps
<1>7. CASE \E w \in Workers : StageRead(w) \/ LostJob(w) \/ PipelineFails(w) \/ MarkRead(w) \/ WorkerDies(w)
  BY <1>7, ReadsKeep
<1>8. CASE UNCHANGED legacyVars
  BY <1>8 DEF legacyVars, LegacyInv, LegacyTypeOK, AttemptsKnown, AttemptsUnique, RunsKnown, PublishedSoFar, RowTells, Made
<1> QED BY <1>1, <1>2, <1>3, <1>4, <1>5, <1>6, <1>7, <1>8 DEF LegacyNext

-----------------------------------------------------------------------------
(* The results. *)

\* The invariant the results rest on holds of every state the old queue reaches (workers/recommendation_worker.py).
THEOREM LegacyInvariance == LegacySpec => []LegacyInv
  BY InitLegacyInv, LegacyStep, PTL DEF LegacySpec

\* What is visible follows the attempts, for any number of workers, jobs, claims and any lease: at most one run
\* per attempt, in the order of the attempts, and a job that is done names the newest run of its own unless a
\* stale write slipped in between a check and its commit.
THEOREM RunsInOrder == LegacySpec => []RunsFollowAttempts
<1>1. ASSUME LegacyInv PROVE RunsFollowAttempts
  <2>1. \A m, n \in DOMAIN runs : m < n /\ runs[m].job = runs[n].job => runs[m].token < runs[n].token
    BY <1>1 DEF LegacyInv, RunsKnown
  <2>2. \A n \in DOMAIN runs : n \in Nat /\ runs[n].token \in Nat /\ runs[n].job \in DOMAIN rows
    BY <1>1, RowShape DEF LegacyInv, RunsKnown
  <2>3. ASSUME NEW j \in DOMAIN rows
        PROVE  /\ rows[j].status = "done" => rows[j].run \in DOMAIN runs /\ runs[rows[j].run].job = j
               /\ rows[j].status = "done" /\ ~raced => NewestRun(j, rows[j].run)
               /\ rows[j].status = "failed" /\ ~raced => \A n \in DOMAIN runs : runs[n].job = j => runs[n].token < rows[j].token
    <3>1. RowTells(j) /\ rows[j].token \in Nat BY <1>1, RowShape DEF LegacyInv
    <3>2. \A n \in DOMAIN runs : runs[n].job = j => runs[n].token <= rows[j].token
      BY <1>1 DEF LegacyInv, RunsKnown
    <3>3. ASSUME rows[j].status = "done", ~raced PROVE NewestRun(j, rows[j].run)
      <4>1. Made(rows[j].run, j, rows[j].token) BY <3>1, <3>3 DEF RowTells
      <4>2. ASSUME NEW n \in DOMAIN runs, runs[n].job = j, ~ (n <= rows[j].run) PROVE FALSE
        BY <4>1, <4>2, <2>1, <2>2, <3>1, <3>2 DEF Made
      <4> QED BY <4>1, <4>2 DEF NewestRun, Made
    <3> QED BY <3>1, <3>2, <3>3, <2>2 DEF RowTells, Made
  <2> QED BY <2>1, <2>3 DEF RunsFollowAttempts
<1> QED BY <1>1, LegacyInvariance, PTL

-----------------------------------------------------------------------------
(* Theses: the numbers of conditions. *)

\* The conditions of a revision: a number for each text, none twice.
Conditions == {c \in UNION {[S -> Nat] : S \in SUBSET Texts} : \A t, u \in DOMAIN c : c[t] = c[u] => t = u}

\* A finite set of numbers has a largest one.
LEMMA LargestOf == ASSUME NEW S, S \subseteq Nat, IsFiniteSet(S), S # {} PROVE \E m \in S : \A y \in S : y <= m
<1> DEFINE F == {T \in SUBSET S : T = {} \/ \E m \in T : \A y \in T : y <= m}
<1>1. ASSUME NEW T \in SUBSET S, \A U \in SUBSET T : U # T => U \in F PROVE T \in F
  <2>1. CASE T = {}
    BY <2>1
  <2>2. ASSUME NEW a \in T PROVE T \in F
    <3>1. T \ {a} \in F
      BY <1>1, <2>2
    <3>2. CASE T \ {a} = {}
      <4>1. \A y \in T : y <= a
        BY <3>2
      <4> QED BY <2>2, <4>1
    <3>3. CASE T \ {a} # {}
      <4>1. PICK m \in T \ {a} : \A y \in T \ {a} : y <= m
        BY <3>1, <3>3
      <4>2. m \in Nat /\ a \in Nat
        BY <2>2, <4>1
      <4>3. CASE a <= m
        <5>1. \A y \in T : y <= m
          BY <4>1, <4>3
        <5> QED BY <4>1, <5>1
      <4>4. CASE m < a
        <5>1. \A y \in T : y <= a
          BY <4>1, <4>2, <4>4
        <5> QED BY <2>2, <5>1
      <4> QED BY <4>2, <4>3, <4>4
    <3> QED BY <3>2, <3>3
  <2> QED BY <2>1, <2>2
<1>2. \A T \in SUBSET S : T \in F
  <2> HIDE DEF F
  <2> QED BY <1>1, SubsetInduction
<1> QED BY <1>2

\* The n-th number of a finite set is one of it and has n smaller ones.
LEMMA NthOf ==
  ASSUME NEW S, S \subseteq Nat, IsFiniteSet(S), NEW n \in 0 .. Cardinality(S) - 1
  PROVE  Nth(S, n) \in S /\ Cardinality({y \in S : y < Nth(S, n)}) = n
<1> DEFINE F == {T \in SUBSET S : \A k \in 0 .. Cardinality(T) - 1 : \E x \in T : Cardinality({y \in T : y < x}) = k}
<1>1. ASSUME NEW T \in SUBSET S, \A U \in SUBSET T : U # T => U \in F PROVE T \in F
  <2> SUFFICES ASSUME NEW k \in 0 .. Cardinality(T) - 1 PROVE \E x \in T : Cardinality({y \in T : y < x}) = k
    OBVIOUS
  <2>1. IsFiniteSet(T) /\ Cardinality(T) \in Nat /\ T # {}
    <3>1. IsFiniteSet(T)
      BY FS_Subset
    <3>2. Cardinality(T) \in Nat
      BY <3>1, FS_CardinalityType
    <3>3. Cardinality({}) = 0
      BY FS_EmptySet
    <3>4. T # {}
      <4> SUFFICES ASSUME T = {} PROVE FALSE
        OBVIOUS
      <4>1. Cardinality(T) = 0
        BY <3>3
      <4> QED BY <4>1
    <3> QED BY <3>1, <3>2, <3>4
  <2>2. PICK m \in T : \A y \in T : y <= m
    BY <2>1, LargestOf
  <2>3. Cardinality(T \ {m}) = Cardinality(T) - 1
    BY <2>1, FS_RemoveElement
  <2>4. T \ {m} \in F
    BY <1>1, <2>2
  <2>5. CASE k = Cardinality(T) - 1
    <3>1. {y \in T : y < m} = T \ {m}
      <4>1. T \subseteq Nat
        OBVIOUS
      <4>2. \A y \in T : y < m <=> y # m
        BY <2>2, <4>1
      <4> QED BY <4>2
    <3> QED BY <2>2, <2>3, <2>5, <3>1
  <2>6. CASE k # Cardinality(T) - 1
    <3>1. k \in 0 .. Cardinality(T \ {m}) - 1
      BY <2>1, <2>3, <2>6
    <3>2. PICK x \in T \ {m} : Cardinality({y \in T \ {m} : y < x}) = k
      BY <2>4, <3>1
    <3>3. {y \in T \ {m} : y < x} = {y \in T : y < x}
      BY <2>2, <3>2
    <3> QED BY <3>2, <3>3
  <2> QED BY <2>5, <2>6
<1>3. \A T \in SUBSET S : T \in F
  <2> HIDE DEF F
  <2> QED BY <1>1, SubsetInduction
<1>4. \E x \in S : Cardinality({y \in S : y < x}) = n
  <2>1. S \in F
    <3> HIDE DEF F
    <3> QED BY <1>3
  <2> QED BY <2>1
<1> QED BY <1>4 DEF Nth

\* The numbers of a revision are as many as its texts at most.
LEMMA IdsFinite ==
  ASSUME NEW c \in Conditions
  PROVE  IsFiniteSet(IdsOf(c)) /\ IdsOf(c) \subseteq Nat /\ Cardinality(IdsOf(c)) \in Nat
<1>1. DOMAIN c \subseteq Texts /\ c \in [DOMAIN c -> Nat]
  BY DEF Conditions
<1>2. IsFiniteSet(DOMAIN c)
  BY <1>1, ThesisAssumption, FS_Subset
<1>3. c \in Surjection(DOMAIN c, IdsOf(c))
  BY <1>1 DEF Surjection, IdsOf
<1>4. IsFiniteSet(IdsOf(c))
  BY <1>2, <1>3, FS_Surjection
<1> QED BY <1>1, <1>4, FS_CardinalityType DEF IdsOf

LEMMA SizeOfRange ==
  ASSUME NEW a \in Int, NEW b \in Int, a <= b + 1
  PROVE  IsFiniteSet(a .. b) /\ Cardinality(a .. b) = b - a + 1
<1>1. IsFiniteSet(a .. b) /\ Cardinality(a .. b) = IF a > b THEN 0 ELSE b - a + 1
  BY FS_Interval
<1> DEFINE n == Cardinality(a .. b)
<1>2. n = IF a > b THEN 0 ELSE b - a + 1
  BY <1>1
<1>3. n = b - a + 1
  <2> HIDE DEF n
  <2> QED BY <1>2
<1> QED BY <1>1, <1>3

\* There are as many unused numbers as a form has texts.
LEMMA UnusedSuffice ==
  ASSUME NEW L \in Nat, NEW order \in [1 .. L -> Texts], NEW old \in Conditions
  PROVE  /\ IsFiniteSet(Unused(order, old)) /\ Unused(order, old) \subseteq Nat \ IdsOf(old)
         /\ Cardinality(Unused(order, old)) \in Nat /\ Cardinality(Unused(order, old)) >= L
<1> DEFINE c == Cardinality(IdsOf(old))
           R == c + 1 .. 2 * c + L
           I == IdsOf(old)
<1>1. IsFiniteSet(I) /\ c \in Nat
  BY IdsFinite
<1>2. Cardinality(DOMAIN order) = L
  BY FS_Interval
<1>3. Unused(order, old) = R \ I
  BY <1>2 DEF Unused
<1>4. IsFiniteSet(R) /\ Cardinality(R) = c + L
  <2>1. PICK lo \in Int : lo = c + 1
    <3> HIDE DEF c
    <3> QED BY <1>1
  <2>2. PICK hi \in Int : hi = 2 * c + L
    <3> HIDE DEF c
    <3> QED BY <1>1
  <2>3. lo <= hi + 1 /\ hi - lo + 1 = c + L
    <3> HIDE DEF c
    <3> QED BY <1>1, <2>1, <2>2
  <2>4. IsFiniteSet(lo .. hi) /\ Cardinality(lo .. hi) = hi - lo + 1
    BY <2>3, SizeOfRange
  <2>5. R = lo .. hi
    BY <2>1, <2>2
  <2> HIDE DEF R, c
  <2> QED BY <2>3, <2>4, <2>5
<1>5. IsFiniteSet(R \cap I) /\ Cardinality(R \cap I) \in Nat /\ Cardinality(R \cap I) <= c
  <2>1. R \cap I \in SUBSET I
    OBVIOUS
  <2> QED BY <1>1, <2>1, FS_Subset, FS_CardinalityType
<1>6. IsFiniteSet(R \ I) /\ Cardinality(R \ I) = Cardinality(R) - Cardinality(R \cap I)
  BY <1>4, FS_Difference
<1>7. Cardinality(R \ I) \in Nat /\ Cardinality(R \ I) >= L
  <2>1. Cardinality(R \ I) \in Nat
    BY <1>6, FS_CardinalityType
  <2> HIDE DEF c, R, I
  <2> QED BY <1>1, <1>4, <1>5, <1>6, <2>1
<1>8. R \subseteq Nat
  <2> HIDE DEF c
  <2> QED BY <1>1
<1> QED BY <1>3, <1>6, <1>7, <1>8

\* Numbering keeps the numbers of the texts that stay and gives no number twice.
LEMMA NumberedIs ==
  ASSUME NEW L \in Nat, NEW order \in [1 .. L -> Texts], \A i, j \in 1 .. L : order[i] = order[j] => i = j,
         NEW old \in Conditions
  PROVE  /\ Numbered(order, old) \in Conditions
         /\ \A t \in DOMAIN Numbered(order, old) : t \in DOMAIN old => Numbered(order, old)[t] = old[t]
<1> DEFINE texts == {order[i] : i \in 1 .. L}
           N == Unused(order, old)
           Before(t) == {i \in NewAt(order, old) : i < Place(order, t)}
           c == Numbered(order, old)
<1>1. /\ IsFiniteSet(N) /\ N \subseteq Nat \ IdsOf(old)
      /\ Cardinality(N) \in Nat /\ Cardinality(N) >= L
  BY UnusedSuffice
<1>2. c = [t \in texts |-> IF t \in DOMAIN old THEN old[t] ELSE Nth(N, Cardinality(Before(t)))]
  BY DEF Numbered
<1>3. ASSUME NEW t \in texts, t \notin DOMAIN old
      PROVE  /\ Place(order, t) \in NewAt(order, old) /\ order[Place(order, t)] = t
             /\ IsFiniteSet(Before(t)) /\ Cardinality(Before(t)) \in 0 .. Cardinality(N) - 1
  <2>1. Place(order, t) \in 1 .. L /\ order[Place(order, t)] = t
    BY DEF Place
  <2>2. Place(order, t) \in NewAt(order, old)
    BY <1>3, <2>1 DEF NewAt
  <2>3. Before(t) \in SUBSET (1 .. L \ {Place(order, t)})
    BY DEF NewAt
  <2>4. IsFiniteSet(1 .. L \ {Place(order, t)}) /\ Cardinality(1 .. L \ {Place(order, t)}) = L - 1
    <3>1. IsFiniteSet(1 .. L) /\ Cardinality(1 .. L) = L
      BY FS_Interval
    <3> QED BY <2>1, <3>1, FS_RemoveElement
  <2>5. IsFiniteSet(Before(t)) /\ Cardinality(Before(t)) <= L - 1
    BY <2>3, <2>4, FS_Subset
  <2>6. Cardinality(Before(t)) \in Nat
    BY <2>5, FS_CardinalityType
  <2> HIDE DEF Before, N
  <2> QED BY <1>1, <2>1, <2>2, <2>5, <2>6
<1>4. ASSUME NEW t \in texts, NEW u \in texts, t \notin DOMAIN old, u \notin DOMAIN old, Place(order, t) < Place(order, u)
      PROVE  Cardinality(Before(t)) # Cardinality(Before(u))
  <2>1. Before(t) \in SUBSET Before(u) /\ Place(order, t) \in Before(u) /\ Place(order, t) \notin Before(t)
    <3>1. Place(order, t) \in NewAt(order, old) /\ Place(order, t) \in 1 .. L /\ Place(order, u) \in 1 .. L
      BY <1>3, <1>4 DEF NewAt
    <3>2. \A i \in NewAt(order, old) : i \in Nat
      BY DEF NewAt
    <3>3. \A i \in NewAt(order, old) : i < Place(order, t) => i < Place(order, u)
      BY <1>4, <3>1, <3>2
    <3>4. ~(Place(order, t) < Place(order, t))
      BY <3>1
    <3> QED BY <1>4, <3>1, <3>3, <3>4
  <2>2. IsFiniteSet(Before(u))
    BY <1>3, <1>4
  <2> HIDE DEF Before
  <2> QED BY <2>1, <2>2, FS_Subset
<1>5. ASSUME NEW t \in texts, NEW u \in texts, t \notin DOMAIN old, u \notin DOMAIN old, c[t] = c[u] PROVE t = u
  <2>1. c[t] = Nth(N, Cardinality(Before(t))) /\ c[u] = Nth(N, Cardinality(Before(u)))
    BY <1>2, <1>5
  <2>2. N \subseteq Nat /\ Cardinality(Before(t)) \in 0 .. Cardinality(N) - 1 /\ Cardinality(Before(u)) \in 0 .. Cardinality(N) - 1
    BY <1>1, <1>3, <1>5
  <2>3. Cardinality({y \in N : y < c[t]}) = Cardinality(Before(t)) /\ Cardinality({y \in N : y < c[u]}) = Cardinality(Before(u))
    <3>1. N \subseteq Nat /\ IsFiniteSet(N)
      BY <1>1
    <3> HIDE DEF N, Before, c
    <3>2. \A k \in 0 .. Cardinality(N) - 1 : Cardinality({y \in N : y < Nth(N, k)}) = k
      BY <3>1, NthOf
    <3> QED BY <2>1, <2>2, <3>2
  <2>4. Cardinality(Before(t)) = Cardinality(Before(u))
    BY <1>5, <2>3
  <2>5. Place(order, t) \in 1 .. L /\ Place(order, u) \in 1 .. L
    BY <1>3, <1>5 DEF NewAt
  <2>6. ~(Place(order, t) < Place(order, u)) /\ ~(Place(order, u) < Place(order, t))
    BY <1>4, <1>5, <2>4
  <2>7. Place(order, t) = Place(order, u)
    BY <2>5, <2>6
  <2> QED BY <1>3, <1>5, <2>7
<1>6. ASSUME NEW t \in texts, t \notin DOMAIN old PROVE c[t] \in Nat \ IdsOf(old)
  <2>1. Cardinality(Before(t)) \in 0 .. Cardinality(N) - 1
    BY <1>3, <1>6
  <2>2. Nth(N, Cardinality(Before(t))) \in N
    <3> HIDE DEF N, Before
    <3> QED BY <1>1, <2>1, NthOf
  <2> QED BY <1>1, <1>2, <1>6, <2>2
<1>7. ASSUME NEW t \in texts, t \in DOMAIN old PROVE c[t] = old[t] /\ c[t] \in Nat /\ c[t] \in IdsOf(old)
  BY <1>2, <1>7 DEF Conditions, IdsOf
<1>8. \A t, u \in texts : c[t] = c[u] => t = u
  <2> SUFFICES ASSUME NEW t \in texts, NEW u \in texts, c[t] = c[u] PROVE t = u
    OBVIOUS
  <2>1. CASE t \in DOMAIN old /\ u \in DOMAIN old
    BY <1>7, <2>1 DEF Conditions
  <2>2. CASE t \notin DOMAIN old /\ u \notin DOMAIN old
    BY <1>5, <2>2
  <2>3. CASE ~(t \in DOMAIN old <=> u \in DOMAIN old)
    BY <1>6, <1>7, <2>3
  <2> QED BY <2>1, <2>2, <2>3
<1>9. c \in [texts -> Nat] /\ texts \in SUBSET Texts /\ DOMAIN c = texts
  <2>1. \A t \in texts : c[t] \in Nat
    BY <1>6, <1>7
  <2>2. c = [t \in texts |-> c[t]]
    BY <1>2
  <2> HIDE DEF c
  <2> QED BY <2>1, <2>2
<1> HIDE DEF c, texts
<1>10. c \in Conditions
  BY <1>8, <1>9 DEF Conditions
<1> QED BY <1>7, <1>9, <1>10 DEF c

-----------------------------------------------------------------------------
(* Theses: the invariant. *)

Revision == [conditions : Conditions, status : {"active", "closed"}]
VerdictRow == [id : Nat, text : Texts, verdict : Verdicts]
LogEntry == [text : Texts, id : Nat, verdict : Verdicts, was : Verdicts \cup {"new"}]
Assessment == [version : Nat, rows : SUBSET VerdictRow, prior : Nat, log : SUBSET LogEntry, review : {"pending", "acknowledged"}]

\* Rows answer the conditions of one revision: no row is about anything else and no condition is without a row.
Fits(answers, th, v) ==
  /\ v \in DOMAIN th /\ answers \subseteq VerdictRow
  /\ \A row \in answers : row.text \in DOMAIN th[v].conditions /\ row.id = th[v].conditions[row.text]
  /\ \A t \in DOMAIN th[v].conditions : \E row \in answers : row.text = t /\ row.id = th[v].conditions[t]

\* A log compares rows with those of an assessment that is already stored.
Compares(log, answers, prior, as) ==
  /\ prior \in 0 .. Len(as) /\ log \subseteq LogEntry
  /\ prior > 0 => log = Log(answers, as[prior].rows)

GatheringWork(work, th) ==
  /\ work \in [at : {"gathering"}, version : Nat, conditions : Conditions]
  /\ work.version \in DOMAIN th /\ work.conditions = th[work.version].conditions
MappedWork(work, th) ==
  work \in [at : {"mapped"}, version : Nat, rows : SUBSET VerdictRow] /\ Fits(work.rows, th, work.version)
StoringWork(work, th, as) ==
  /\ work \in [at : {"storing"}, version : Nat, rows : SUBSET VerdictRow, prior : Nat, log : SUBSET LogEntry]
  /\ Fits(work.rows, th, work.version) /\ Compares(work.log, work.rows, work.prior, as)

WorkSound(work, th, as) == work = [at |-> "idle"] \/ GatheringWork(work, th) \/ MappedWork(work, th) \/ StoringWork(work, th, as)

\* A text that every revision between two of them keeps has the same number in both.
NumbersStay(th) ==
  \A v, w \in DOMAIN th : v <= w =>
    \A t \in Texts : (\A x \in v .. w : t \in DOMAIN th[x].conditions) => th[w].conditions[t] = th[v].conditions[t]

AssessmentsSound(th, as) ==
  \A n \in DOMAIN as :
    Fits(as[n].rows, th, as[n].version) /\ Compares(as[n].log, as[n].rows, as[n].prior, as)

ThesisInv ==
  /\ thesis \in Seq(Revision) /\ Len(thesis) > 0
  /\ assessments \in Seq(Assessment)
  /\ DOMAIN refresher = Refreshers /\ refresher = [r \in Refreshers |-> refresher[r]]
  /\ \A r \in Refreshers : WorkSound(refresher[r], thesis, assessments)
  /\ NumbersStay(thesis)
  /\ AssessmentsSound(thesis, assessments)

\* What a log says.
LEMMA LogIs ==
  ASSUME NEW answers \in SUBSET VerdictRow, NEW prior \in SUBSET VerdictRow
  PROVE  Log(answers, prior) \subseteq LogEntry
<1> SUFFICES ASSUME NEW entry \in Log(answers, prior) PROVE entry \in LogEntry
  OBVIOUS
<1>1. PICK row \in answers :
        entry = [text |-> row.text, id |-> row.id, verdict |-> row.verdict,
                 was |-> IF \E p \in prior : p.id = row.id THEN (CHOOSE p \in prior : p.id = row.id).verdict ELSE "new"]
  BY DEF Log
<1>2. row \in VerdictRow
  OBVIOUS
<1>3. CASE \E p \in prior : p.id = row.id
  <2>1. (CHOOSE p \in prior : p.id = row.id) \in VerdictRow
    BY <1>3
  <2>2. (CHOOSE p \in prior : p.id = row.id).verdict \in Verdicts
    BY <2>1 DEF VerdictRow
  <2> QED BY <1>1, <1>2, <1>3, <2>2 DEF VerdictRow, LogEntry
<1>4. CASE ~ \E p \in prior : p.id = row.id
  BY <1>1, <1>2, <1>4 DEF VerdictRow, LogEntry
<1> QED BY <1>3, <1>4

\* An entry of a log is about a row, and tells the verdict of a row with its number if there is one.
LEMMA EntryIs ==
  ASSUME NEW answers \in SUBSET VerdictRow, NEW prior \in SUBSET VerdictRow, NEW entry \in Log(answers, prior)
  PROVE  \E row \in answers :
           /\ entry.text = row.text /\ entry.id = row.id
           /\ (\E p \in prior : p.id = row.id) => \E p \in prior : p.id = row.id /\ entry.was = p.verdict
<1>1. PICK row \in answers :
        entry = [text |-> row.text, id |-> row.id, verdict |-> row.verdict,
                 was |-> IF \E p \in prior : p.id = row.id THEN (CHOOSE p \in prior : p.id = row.id).verdict ELSE "new"]
  BY DEF Log
<1>2. entry.text = row.text /\ entry.id = row.id
  BY <1>1
<1>3. ASSUME \E p \in prior : p.id = row.id PROVE \E p \in prior : p.id = row.id /\ entry.was = p.verdict
  <2> DEFINE q == CHOOSE p \in prior : p.id = row.id
  <2>1. q \in prior /\ q.id = row.id
    BY <1>3
  <2>2. entry.was = q.verdict
    BY <1>1, <1>3
  <2> HIDE DEF q
  <2> QED BY <2>1, <2>2
<1> QED BY <1>2, <1>3

\* Earlier revisions and assessments are what they were, so work that was sound stays so.
LEMMA FitsStays ==
  ASSUME NEW th, NEW new, DOMAIN th \subseteq DOMAIN new, \A v \in DOMAIN th : new[v] = th[v],
         NEW answers, NEW v, Fits(answers, th, v)
  PROVE  Fits(answers, new, v)
BY DEF Fits

LEMMA ComparesStays ==
  ASSUME NEW as, NEW new, Len(as) \in Nat, Len(new) \in Nat, Len(as) <= Len(new),
         \A n \in 1 .. Len(as) : new[n].rows = as[n].rows,
         NEW log, NEW answers, NEW prior, Compares(log, answers, prior, as)
  PROVE  Compares(log, answers, prior, new)
<1>1. log \subseteq LogEntry /\ (prior > 0 => log = Log(answers, as[prior].rows))
  BY DEF Compares
<1>2. prior \in 0 .. Len(as)
  BY DEF Compares
<1>3. prior \in 0 .. Len(new)
  <2>1. ASSUME NEW m \in Nat, NEW k \in Nat, m <= k, prior \in 0 .. m PROVE prior \in 0 .. k
    BY <2>1
  <2> QED BY <1>2, <2>1
<1>4. ASSUME prior > 0 PROVE log = Log(answers, new[prior].rows)
  <2>1. prior \in 1 .. Len(as)
    <3>1. ASSUME NEW m \in Nat, prior \in 0 .. m PROVE prior \in 1 .. m
      BY <1>4, <3>1
    <3> QED BY <1>2, <3>1
  <2>2. new[prior].rows = as[prior].rows
    BY <2>1
  <2> QED BY <1>1, <1>4, <2>2
<1> QED BY <1>1, <1>3, <1>4 DEF Compares

LEMMA WorkStays ==
  ASSUME NEW th, NEW newTh, DOMAIN th \subseteq DOMAIN newTh, \A v \in DOMAIN th : newTh[v] = th[v],
         NEW as, NEW newAs, Len(as) \in Nat, Len(newAs) \in Nat, Len(as) <= Len(newAs),
         \A n \in 1 .. Len(as) : newAs[n].rows = as[n].rows,
         NEW work, WorkSound(work, th, as)
  PROVE  WorkSound(work, newTh, newAs)
<1>1. CASE work = [at |-> "idle"]
  BY <1>1 DEF WorkSound
<1>2. CASE GatheringWork(work, th)
  BY <1>2 DEF WorkSound, GatheringWork
<1>3. CASE MappedWork(work, th)
  BY <1>3, FitsStays DEF WorkSound, MappedWork
<1>4. CASE StoringWork(work, th, as)
  <2>1. Fits(work.rows, newTh, work.version)
    BY <1>4, FitsStays DEF StoringWork
  <2>2. Compares(work.log, work.rows, work.prior, newAs)
    BY <1>4, ComparesStays DEF StoringWork
  <2> QED BY <1>4, <2>1, <2>2 DEF WorkSound, StoringWork
<1> QED BY <1>1, <1>2, <1>3, <1>4 DEF WorkSound

LEMMA AssessmentsStay ==
  ASSUME NEW th, NEW newTh, DOMAIN th \subseteq DOMAIN newTh, \A v \in DOMAIN th : newTh[v] = th[v],
         NEW as, AssessmentsSound(th, as)
  PROVE  AssessmentsSound(newTh, as)
BY FitsStays DEF AssessmentsSound

\* What the form of an edit is.
LEMMA OrderIs ==
  ASSUME NEW b \in Bodies, NEW o \in Orders(b)
  PROVE  \E L \in Nat : o \in [1 .. L -> Texts] /\ \A i, j \in 1 .. L : o[i] = o[j] => i = j
<1>1. b \in SUBSET Texts
  BY DEF Bodies
<1>2. IsFiniteSet(b)
  BY <1>1, ThesisAssumption, FS_Subset
<1>3. Cardinality(b) \in Nat
  BY <1>2, FS_CardinalityType
<1>4. o \in [1 .. Cardinality(b) -> b] /\ \A i, j \in 1 .. Cardinality(b) : i # j => o[i] # o[j]
  BY DEF Orders
<1>5. o \in [1 .. Cardinality(b) -> Texts]
  BY <1>1, <1>4
<1> QED BY <1>3, <1>4, <1>5

LEMMA NoConditionsAre == NoConditions \in Conditions
<1>1. NoConditions \in [{} -> Nat] /\ DOMAIN NoConditions = {}
  BY DEF NoConditions
<1> QED BY <1>1 DEF Conditions

LEMMA FormNumbered ==
  ASSUME NEW b \in Bodies, NEW o \in Orders(b), NEW old \in Conditions
  PROVE  /\ Numbered(o, old) \in Conditions
         /\ \A t \in DOMAIN Numbered(o, old) : t \in DOMAIN old => Numbered(o, old)[t] = old[t]
<1>1. PICK L \in Nat : o \in [1 .. L -> Texts] /\ \A i, j \in 1 .. L : o[i] = o[j] => i = j
  BY OrderIs
<1> QED BY <1>1, NumberedIs

LEMMA ThesisInit == TheInit => ThesisInv
<1> SUFFICES ASSUME TheInit PROVE ThesisInv
  OBVIOUS
<1>1. PICK b \in Bodies : \E o \in Orders(b) : thesis = <<[conditions |-> Numbered(o, NoConditions), status |-> "active"]>>
  BY DEF TheInit
<1>2. PICK o \in Orders(b) : thesis = <<[conditions |-> Numbered(o, NoConditions), status |-> "active"]>>
  BY <1>1
<1>3. Numbered(o, NoConditions) \in Conditions
  BY NoConditionsAre, FormNumbered
<1>4. thesis \in Seq(Revision) /\ Len(thesis) = 1 /\ DOMAIN thesis = {1}
  BY <1>2, <1>3 DEF Revision
<1>5. NumbersStay(thesis)
  BY <1>4 DEF NumbersStay
<1>6. assessments = <<>> /\ refresher = [r \in Refreshers |-> [at |-> "idle"]]
  BY DEF TheInit
<1>7. assessments \in Seq(Assessment) /\ AssessmentsSound(thesis, assessments)
  BY <1>6 DEF AssessmentsSound
<1> QED BY <1>4, <1>5, <1>6, <1>7 DEF ThesisInv, WorkSound

\* A refresh changes what it does itself, nothing else.
LEMMA OnlyRefresher ==
  ASSUME ThesisInv, NEW r \in Refreshers, NEW work, refresher' = [refresher EXCEPT ![r] = work],
         \A q \in Refreshers : q # r => WorkSound(refresher[q], thesis', assessments'), WorkSound(work, thesis', assessments')
  PROVE  /\ DOMAIN refresher' = Refreshers /\ refresher' = [q \in Refreshers |-> refresher'[q]]
         /\ \A q \in Refreshers : WorkSound(refresher'[q], thesis', assessments')
<1>1. \A q \in Refreshers : refresher'[q] = IF q = r THEN work ELSE refresher[q]
  BY DEF ThesisInv
<1>2. DOMAIN refresher' = Refreshers /\ refresher' = [q \in Refreshers |-> refresher'[q]]
  BY DEF ThesisInv
<1> QED BY <1>1, <1>2

LEMMA ThesisEdit ==
  ASSUME ThesisInv, NEW b \in Bodies, NEW o \in Orders(b), NEW status \in {"active", "closed"}, EditThesis(o, status)
  PROVE  ThesisInv'
<1> DEFINE n == Len(thesis)
           old == thesis[n].conditions
           c == Numbered(o, old)
           new == [conditions |-> c, status |-> status]
<1>1. thesis \in Seq(Revision) /\ n \in Nat /\ n > 0 /\ DOMAIN thesis = 1 .. n /\ \A v \in DOMAIN thesis : thesis[v] \in Revision
  <2>1. thesis \in Seq(Revision) /\ n > 0
    BY DEF ThesisInv
  <2> QED BY <2>1, ElementOf
<1>2. n \in DOMAIN thesis /\ old \in Conditions
  BY <1>1 DEF Revision
<1>3. c \in Conditions /\ \A t \in DOMAIN c : t \in DOMAIN old => c[t] = old[t]
  <2> HIDE DEF old
  <2> QED BY <1>2, FormNumbered
<1>4. new \in Revision
  <2> HIDE DEF c
  <2> QED BY <1>3 DEF Revision
<1>5. thesis' = Append(thesis, new) /\ UNCHANGED <<assessments, refresher>>
  BY DEF EditThesis, Latest
<1> HIDE DEF new
<1>6. /\ thesis' \in Seq(Revision) /\ Len(thesis') = n + 1 /\ DOMAIN thesis' = DOMAIN thesis \cup {n + 1}
      /\ n + 1 \notin DOMAIN thesis
      /\ \A v \in DOMAIN thesis : thesis'[v] = thesis[v]
      /\ thesis'[n + 1] = new
  BY <1>1, <1>4, <1>5, AppendShape
<1>7. new.conditions = c
  BY DEF new
<1>8. NumbersStay(thesis')
  <2> SUFFICES ASSUME NEW v \in DOMAIN thesis', NEW w \in DOMAIN thesis', v <= w, NEW t \in Texts,
                      \A x \in v .. w : t \in DOMAIN thesis'[x].conditions
               PROVE  thesis'[w].conditions[t] = thesis'[v].conditions[t]
    BY DEF NumbersStay
  <2>1. NumbersStay(thesis)
    BY DEF ThesisInv
  <2>2. CASE w \in DOMAIN thesis
    <3>1. v \in DOMAIN thesis
      <4> HIDE DEF n
      <4> QED BY <1>1, <1>6, <2>2
    <3>2. \A x \in v .. w : t \in DOMAIN thesis[x].conditions
      <4>1. \A x \in v .. w : x \in DOMAIN thesis
        <5> HIDE DEF n
        <5> QED BY <1>1, <2>2, <3>1
      <4> QED BY <1>6, <4>1
    <3> QED BY <1>6, <2>1, <2>2, <3>1, <3>2 DEF NumbersStay
  <2>3. CASE w = n + 1 /\ v \in DOMAIN thesis
    <3>1. v <= n /\ \A x \in v .. n : x \in v .. w /\ x \in DOMAIN thesis
      <4> HIDE DEF n
      <4> QED BY <1>1, <2>3
    <3>2. \A x \in v .. n : t \in DOMAIN thesis[x].conditions
      BY <1>6, <3>1
    <3>3. n \in v .. n
      <4> HIDE DEF n
      <4> QED BY <1>1, <2>3, <3>1
    <3>4. thesis[n].conditions[t] = thesis[v].conditions[t]
      <4> HIDE DEF n
      <4> QED BY <1>2, <2>1, <2>3, <3>1, <3>2 DEF NumbersStay
    <3>5. w \in v .. w
      <4> HIDE DEF n
      <4> QED BY <1>1, <2>3
    <3>6. t \in DOMAIN c /\ t \in DOMAIN old
      <4>1. t \in DOMAIN thesis'[w].conditions /\ t \in DOMAIN thesis[n].conditions
        BY <3>2, <3>3, <3>5
      <4> HIDE DEF c, n
      <4> QED BY <1>6, <1>7, <2>3, <4>1
    <3>7. c[t] = old[t]
      BY <1>3, <3>6
    <3> HIDE DEF c
    <3> QED BY <1>6, <1>7, <2>3, <3>4, <3>7
  <2>4. CASE w = n + 1 /\ v = n + 1
    BY <2>4
  <2>5. v \in DOMAIN thesis \/ v = n + 1
    BY <1>6
  <2>6. w \in DOMAIN thesis \/ w = n + 1
    BY <1>6
  <2>7. w \in DOMAIN thesis \/ (w = n + 1 /\ v \in DOMAIN thesis) \/ (w = n + 1 /\ v = n + 1)
    BY <2>5, <2>6
  <2> QED BY <2>2, <2>3, <2>4, <2>7
<1>9. Len(assessments) \in Nat
  <2>1. assessments \in Seq(Assessment)
    BY DEF ThesisInv
  <2> QED BY <2>1, ElementOf
<1>10. \A r \in Refreshers : WorkSound(refresher[r], thesis', assessments)
  <2> SUFFICES ASSUME NEW r \in Refreshers PROVE WorkSound(refresher[r], thesis', assessments)
    OBVIOUS
  <2>1. WorkSound(refresher[r], thesis, assessments)
    BY DEF ThesisInv
  <2>2. DOMAIN thesis \subseteq DOMAIN thesis' /\ Len(assessments) <= Len(assessments)
    BY <1>6, <1>9
  <2> HIDE DEF n
  <2> QED BY <1>6, <1>9, <2>1, <2>2, WorkStays
<1>11. AssessmentsSound(thesis', assessments)
  <2>1. AssessmentsSound(thesis, assessments)
    BY DEF ThesisInv
  <2>2. DOMAIN thesis \subseteq DOMAIN thesis'
    BY <1>6
  <2> HIDE DEF n
  <2> QED BY <1>6, <2>1, <2>2, AssessmentsStay
<1>12. Len(thesis') > 0
  <2> HIDE DEF n
  <2> QED BY <1>1, <1>6
<1> QED BY <1>5, <1>6, <1>8, <1>10, <1>11, <1>12 DEF ThesisInv

LEMMA ThesisStart ==
  ASSUME ThesisInv, NEW r \in Refreshers, RefreshStart(r)
  PROVE  ThesisInv'
<1> DEFINE work == [at |-> "gathering", version |-> Len(thesis), conditions |-> Latest(thesis).conditions]
<1>1. UNCHANGED <<thesis, assessments>> /\ refresher' = [refresher EXCEPT ![r] = work]
  BY DEF RefreshStart
<1>2. Len(thesis) \in DOMAIN thesis /\ Len(thesis) \in Nat /\ thesis[Len(thesis)] \in Revision
  <2>1. thesis \in Seq(Revision) /\ Len(thesis) > 0
    BY DEF ThesisInv
  <2>2. Len(thesis) \in Nat /\ DOMAIN thesis = 1 .. Len(thesis) /\ \A v \in DOMAIN thesis : thesis[v] \in Revision
    BY <2>1, ElementOf
  <2>3. Len(thesis) \in DOMAIN thesis
    BY <2>1, <2>2
  <2> QED BY <2>2, <2>3
<1>3. WorkSound(work, thesis, assessments)
  BY <1>2 DEF WorkSound, GatheringWork, Latest, Revision
<1> HIDE DEF work
<1>4. /\ DOMAIN refresher' = Refreshers /\ refresher' = [q \in Refreshers |-> refresher'[q]]
      /\ \A q \in Refreshers : WorkSound(refresher'[q], thesis', assessments')
  <2>1. \A q \in Refreshers : q # r => WorkSound(refresher[q], thesis', assessments')
    BY <1>1 DEF ThesisInv
  <2>2. WorkSound(work, thesis', assessments')
    BY <1>1, <1>3
  <2> QED BY <1>1, <2>1, <2>2, OnlyRefresher
<1> QED BY <1>1, <1>4 DEF ThesisInv

LEMMA WorkAt ==
  ASSUME ThesisInv, NEW r \in Refreshers
  PROVE  /\ refresher[r].at = "idle" => refresher[r] = [at |-> "idle"]
         /\ refresher[r].at = "gathering" => GatheringWork(refresher[r], thesis)
         /\ refresher[r].at = "mapped" => MappedWork(refresher[r], thesis)
         /\ refresher[r].at = "storing" => StoringWork(refresher[r], thesis, assessments)
BY DEF ThesisInv, WorkSound, GatheringWork, MappedWork, StoringWork

LEMMA ThesisMap ==
  ASSUME ThesisInv, NEW r \in Refreshers, refresher[r].at = "gathering",
         NEW verdicts \in [DOMAIN refresher[r].conditions -> Verdicts], RefreshMap(r, verdicts)
  PROVE  ThesisInv'
<1> DEFINE conditions == refresher[r].conditions
           v == refresher[r].version
           answers == {[id |-> conditions[t], text |-> t, verdict |-> verdicts[t]] : t \in DOMAIN conditions}
           work == [at |-> "mapped", version |-> v, rows |-> answers]
<1>1. UNCHANGED <<thesis, assessments>> /\ refresher' = [refresher EXCEPT ![r] = work]
  BY DEF RefreshMap
<1>2. conditions \in Conditions /\ v \in Nat /\ v \in DOMAIN thesis /\ conditions = thesis[v].conditions
  BY WorkAt DEF GatheringWork
<1>3. \A t \in DOMAIN conditions : t \in Texts /\ conditions[t] \in Nat /\ verdicts[t] \in Verdicts
  <2> HIDE DEF conditions
  <2>1. \A t \in DOMAIN conditions : t \in Texts /\ conditions[t] \in Nat
    BY <1>2 DEF Conditions
  <2> QED BY <2>1 DEF conditions
<1>4. answers \subseteq VerdictRow
  <2> HIDE DEF conditions
  <2> QED BY <1>3 DEF VerdictRow
<1>5. Fits(answers, thesis, v)
  <2> HIDE DEF conditions, v
  <2>1. \A row \in answers : row.text \in DOMAIN conditions /\ row.id = conditions[row.text]
    <3> SUFFICES ASSUME NEW row \in answers PROVE row.text \in DOMAIN conditions /\ row.id = conditions[row.text]
      OBVIOUS
    <3>1. PICK t \in DOMAIN conditions : row = [id |-> conditions[t], text |-> t, verdict |-> verdicts[t]]
      BY Zenon
    <3>2. row.text = t /\ row.id = conditions[t]
      BY <3>1
    <3> QED BY <3>2
  <2>2. \A t \in DOMAIN conditions : \E row \in answers : row.text = t /\ row.id = conditions[t]
    <3> SUFFICES ASSUME NEW t \in DOMAIN conditions PROVE \E row \in answers : row.text = t /\ row.id = conditions[t]
      OBVIOUS
    <3> DEFINE row == [id |-> conditions[t], text |-> t, verdict |-> verdicts[t]]
    <3>1. row \in answers
      OBVIOUS
    <3>2. row.text = t /\ row.id = conditions[t]
      OBVIOUS
    <3> HIDE DEF row, answers
    <3> QED BY <3>1, <3>2
  <2> HIDE DEF answers
  <2> QED BY <1>2, <1>4, <2>1, <2>2 DEF Fits
<1>6. WorkSound(work, thesis, assessments)
  <2> HIDE DEF answers, v
  <2>1. work \in [at : {"mapped"}, version : Nat, rows : SUBSET VerdictRow]
    BY <1>2, <1>4
  <2>2. MappedWork(work, thesis)
    BY <1>5, <2>1 DEF MappedWork
  <2> HIDE DEF work
  <2> QED BY <2>2 DEF WorkSound
<1> HIDE DEF work
<1>7. /\ DOMAIN refresher' = Refreshers /\ refresher' = [q \in Refreshers |-> refresher'[q]]
      /\ \A q \in Refreshers : WorkSound(refresher'[q], thesis', assessments')
  <2>1. \A q \in Refreshers : q # r => WorkSound(refresher[q], thesis', assessments')
    BY <1>1 DEF ThesisInv
  <2>2. WorkSound(work, thesis', assessments')
    <3>1. thesis' = thesis /\ assessments' = assessments
      BY <1>1
    <3> QED BY <1>6, <3>1
  <2> QED BY <1>1, <2>1, <2>2, OnlyRefresher
<1> QED BY <1>1, <1>7 DEF ThesisInv

LEMMA ThesisPrior ==
  ASSUME ThesisInv, NEW r \in Refreshers, RefreshPrior(r)
  PROVE  ThesisInv'
<1> DEFINE answers == refresher[r].rows
           v == refresher[r].version
           n == Len(assessments)
           log == IF assessments = <<>> THEN {} ELSE Log(answers, PriorRows)
           work == [at |-> "storing", version |-> v, rows |-> answers, prior |-> n, log |-> log]
<1>1. UNCHANGED <<thesis, assessments>> /\ refresher' = [refresher EXCEPT ![r] = work]
  BY DEF RefreshPrior
<1>2. answers \in SUBSET VerdictRow /\ v \in Nat /\ Fits(answers, thesis, v)
  BY WorkAt DEF RefreshPrior, MappedWork
<1>3. /\ n \in Nat /\ (assessments = <<>> <=> n = 0)
      /\ n > 0 => n \in DOMAIN assessments /\ assessments[n] \in Assessment
  <2>1. assessments \in Seq(Assessment)
    BY DEF ThesisInv
  <2>2. n \in Nat /\ DOMAIN assessments = 1 .. n /\ \A i \in DOMAIN assessments : assessments[i] \in Assessment
    BY <2>1, ElementOf
  <2>3. assessments = <<>> <=> n = 0
    BY <2>1
  <2>4. n > 0 => n \in DOMAIN assessments
    <3> HIDE DEF n
    <3> QED BY <2>2
  <2> QED BY <2>2, <2>3, <2>4
<1>4. Compares(log, answers, n, assessments)
  <2>1. n \in 0 .. Len(assessments)
    BY <1>3
  <2>2. CASE n = 0
    <3>1. log = {}
      BY <1>3, <2>2
    <3> QED BY <2>1, <2>2, <3>1 DEF Compares
  <2>3. CASE n > 0
    <3>1. log = Log(answers, assessments[n].rows)
      BY <1>3, <2>3 DEF PriorRows, Latest
    <3>2. assessments[n].rows \in SUBSET VerdictRow
      BY <1>3, <2>3 DEF Assessment
    <3>3. log \subseteq LogEntry
      <4> HIDE DEF answers, n, log
      <4> QED BY <1>2, <3>1, <3>2, LogIs
    <3> HIDE DEF log, answers, n
    <3> QED BY <2>1, <3>1, <3>3 DEF Compares
  <2>4. n = 0 \/ n > 0
    <3> HIDE DEF n
    <3> QED BY <1>3
  <2> QED BY <2>2, <2>3, <2>4
<1>5. WorkSound(work, thesis, assessments)
  <2>1. log \subseteq LogEntry
    BY <1>4 DEF Compares
  <2> HIDE DEF answers, v, log, n
  <2>2. work \in [at : {"storing"}, version : Nat, rows : SUBSET VerdictRow, prior : Nat, log : SUBSET LogEntry]
    BY <1>2, <1>3, <2>1
  <2>3. StoringWork(work, thesis, assessments)
    BY <1>2, <1>4, <2>2 DEF StoringWork
  <2> HIDE DEF work
  <2> QED BY <2>3 DEF WorkSound
<1> HIDE DEF work
<1>6. /\ DOMAIN refresher' = Refreshers /\ refresher' = [q \in Refreshers |-> refresher'[q]]
      /\ \A q \in Refreshers : WorkSound(refresher'[q], thesis', assessments')
  <2>1. \A q \in Refreshers : q # r => WorkSound(refresher[q], thesis', assessments')
    BY <1>1 DEF ThesisInv
  <2>2. WorkSound(work, thesis', assessments')
    <3>1. thesis' = thesis /\ assessments' = assessments
      BY <1>1
    <3> QED BY <1>5, <3>1
  <2> QED BY <1>1, <2>1, <2>2, OnlyRefresher
<1> QED BY <1>1, <1>6 DEF ThesisInv

LEMMA ThesisStore ==
  ASSUME ThesisInv, NEW r \in Refreshers, RefreshStore(r)
  PROVE  ThesisInv'
<1> DEFINE a == Stored(refresher[r])
           n == Len(assessments)
<1>1. assessments \in Seq(Assessment) /\ n \in Nat /\ DOMAIN assessments = 1 .. n
  <2>1. assessments \in Seq(Assessment)
    BY DEF ThesisInv
  <2> QED BY <2>1, ElementOf
<1>2. StoringWork(refresher[r], thesis, assessments)
  BY WorkAt DEF RefreshStore
<1>3. a \in Assessment /\ Fits(a.rows, thesis, a.version) /\ Compares(a.log, a.rows, a.prior, assessments)
  BY <1>2 DEF StoringWork, Stored, Assessment
<1>4. assessments' = Append(assessments, a) /\ refresher' = [refresher EXCEPT ![r] = [at |-> "idle"]] /\ UNCHANGED thesis
  BY DEF RefreshStore
<1> HIDE DEF a
<1>5. /\ assessments' \in Seq(Assessment) /\ Len(assessments') = n + 1
      /\ DOMAIN assessments' = DOMAIN assessments \cup {n + 1}
      /\ \A i \in DOMAIN assessments : assessments'[i] = assessments[i]
      /\ assessments'[n + 1] = a
  BY <1>1, <1>3, <1>4, AppendShape
<1>6. Len(assessments') \in Nat /\ n <= Len(assessments') /\ \A i \in 1 .. n : assessments'[i].rows = assessments[i].rows
  <2>1. \A i \in 1 .. n : assessments'[i].rows = assessments[i].rows
    BY <1>1, <1>5
  <2> HIDE DEF n
  <2> QED BY <1>1, <1>5, <2>1
<1>7. AssessmentsSound(thesis, assessments')
  <2>1. \A log, answers, prior : Compares(log, answers, prior, assessments) => Compares(log, answers, prior, assessments')
    BY <1>1, <1>6, ComparesStays
  <2>2. AssessmentsSound(thesis, assessments)
    BY DEF ThesisInv
  <2> SUFFICES ASSUME NEW i \in DOMAIN assessments'
               PROVE  /\ Fits(assessments'[i].rows, thesis, assessments'[i].version)
                      /\ Compares(assessments'[i].log, assessments'[i].rows, assessments'[i].prior, assessments')
    BY DEF AssessmentsSound
  <2>3. CASE i \in DOMAIN assessments
    <3>1. assessments'[i] = assessments[i]
      BY <1>5, <2>3
    <3> QED BY <2>1, <2>2, <2>3, <3>1 DEF AssessmentsSound
  <2>4. CASE i = n + 1
    BY <1>3, <1>5, <2>1, <2>4
  <2> QED BY <1>5, <2>3, <2>4
<1>8. /\ DOMAIN refresher' = Refreshers /\ refresher' = [q \in Refreshers |-> refresher'[q]]
      /\ \A q \in Refreshers : WorkSound(refresher'[q], thesis', assessments')
  <2>1. \A q \in Refreshers : WorkSound(refresher[q], thesis, assessments')
    <3> SUFFICES ASSUME NEW q \in Refreshers PROVE WorkSound(refresher[q], thesis, assessments')
      OBVIOUS
    <3>1. WorkSound(refresher[q], thesis, assessments)
      BY DEF ThesisInv
    <3> QED BY <1>1, <1>6, <3>1, WorkStays
  <2>2. \A q \in Refreshers : WorkSound(refresher[q], thesis', assessments')
    <3>1. thesis' = thesis
      BY <1>4
    <3> QED BY <2>1, <3>1
  <2>3. WorkSound([at |-> "idle"], thesis', assessments')
    BY DEF WorkSound
  <2> QED BY <1>4, <2>2, <2>3, OnlyRefresher
<1>9. AssessmentsSound(thesis', assessments')
  <2>1. thesis' = thesis
    BY <1>4
  <2> QED BY <1>7, <2>1
<1> QED BY <1>4, <1>5, <1>8, <1>9 DEF ThesisInv

LEMMA ThesisAcknowledge ==
  ASSUME ThesisInv, NEW n, Acknowledge(n)
  PROVE  ThesisInv'
<1>1. /\ n \in DOMAIN assessments /\ assessments' = [assessments EXCEPT ![n].review = "acknowledged"]
      /\ UNCHANGED <<thesis, refresher>>
  BY DEF Acknowledge
<1>2. /\ assessments \in Seq(Assessment) /\ Len(assessments) \in Nat /\ DOMAIN assessments = 1 .. Len(assessments)
      /\ \A i \in DOMAIN assessments : assessments[i] \in Assessment
  <2>1. assessments \in Seq(Assessment)
    BY DEF ThesisInv
  <2> QED BY <2>1, ElementOf
<1>3. \A i \in DOMAIN assessments :
        /\ assessments'[i] \in Assessment /\ assessments'[i].version = assessments[i].version
        /\ assessments'[i].rows = assessments[i].rows /\ assessments'[i].prior = assessments[i].prior
        /\ assessments'[i].log = assessments[i].log
  <2> SUFFICES ASSUME NEW i \in DOMAIN assessments
               PROVE  /\ assessments'[i] \in Assessment /\ assessments'[i].version = assessments[i].version
                      /\ assessments'[i].rows = assessments[i].rows /\ assessments'[i].prior = assessments[i].prior
                      /\ assessments'[i].log = assessments[i].log
    OBVIOUS
  <2>1. assessments'[i] = IF i = n THEN [assessments[n] EXCEPT !.review = "acknowledged"] ELSE assessments[i]
    BY <1>1
  <2>2. assessments[i] \in Assessment
    BY <1>2
  <2> QED BY <2>1, <2>2 DEF Assessment
<1>4. assessments' = [i \in DOMAIN assessments |-> assessments'[i]]
  BY <1>1
<1>5. assessments' \in Seq(Assessment) /\ DOMAIN assessments' = DOMAIN assessments
  BY <1>2, <1>3, <1>4, ChangedInPlace
<1>6. Len(assessments') \in Nat /\ Len(assessments) = Len(assessments')
  BY <1>2, <1>5
<1>7. Len(assessments) <= Len(assessments') /\ \A i \in 1 .. Len(assessments) : assessments'[i].rows = assessments[i].rows
  BY <1>2, <1>3, <1>6
<1>8. AssessmentsSound(thesis, assessments')
  <2>1. \A log, answers, prior : Compares(log, answers, prior, assessments) => Compares(log, answers, prior, assessments')
    BY <1>2, <1>6, <1>7, ComparesStays
  <2>2. AssessmentsSound(thesis, assessments)
    BY DEF ThesisInv
  <2> SUFFICES ASSUME NEW i \in DOMAIN assessments
               PROVE  /\ Fits(assessments'[i].rows, thesis, assessments'[i].version)
                      /\ Compares(assessments'[i].log, assessments'[i].rows, assessments'[i].prior, assessments')
    BY <1>5 DEF AssessmentsSound
  <2>3. /\ Fits(assessments[i].rows, thesis, assessments[i].version)
        /\ Compares(assessments[i].log, assessments[i].rows, assessments[i].prior, assessments')
    BY <2>1, <2>2 DEF AssessmentsSound
  <2> QED BY <1>3, <2>3
<1>9. \A q \in Refreshers : WorkSound(refresher[q], thesis, assessments')
  <2> SUFFICES ASSUME NEW q \in Refreshers PROVE WorkSound(refresher[q], thesis, assessments')
    OBVIOUS
  <2>1. WorkSound(refresher[q], thesis, assessments)
    BY DEF ThesisInv
  <2> QED BY <1>2, <1>6, <1>7, <2>1, WorkStays
<1>10. thesis' = thesis /\ refresher' = refresher
  BY <1>1
<1> QED BY <1>5, <1>8, <1>9, <1>10 DEF ThesisInv

THEOREM ThesisInvariance == TheSpec => []ThesisInv
<1>1. TheInit => ThesisInv
  BY ThesisInit
<1>2. ThesisInv /\ [TheNext]_thesisVars => ThesisInv'
  <2> SUFFICES ASSUME ThesisInv, [TheNext]_thesisVars PROVE ThesisInv'
    OBVIOUS
  <2>1. CASE \E b \in Bodies, status \in {"active", "closed"} : \E o \in Orders(b) : EditThesis(o, status)
    BY <2>1, ThesisEdit
  <2>2. ASSUME NEW r \in Refreshers, RefreshStart(r) PROVE ThesisInv'
    BY <2>2, ThesisStart
  <2>3. ASSUME NEW r \in Refreshers, RefreshPrior(r) PROVE ThesisInv'
    BY <2>3, ThesisPrior
  <2>4. ASSUME NEW r \in Refreshers, RefreshStore(r) PROVE ThesisInv'
    BY <2>4, ThesisStore
  <2>5. ASSUME NEW r \in Refreshers, refresher[r].at = "gathering",
               NEW v \in [DOMAIN refresher[r].conditions -> Verdicts], RefreshMap(r, v)
        PROVE ThesisInv'
    BY <2>5, ThesisMap
  <2>6. ASSUME NEW n, Acknowledge(n) PROVE ThesisInv'
    BY <2>6, ThesisAcknowledge
  <2>7. CASE UNCHANGED thesisVars
    BY <2>7 DEF thesisVars, ThesisInv
  <2> QED BY <2>1, <2>2, <2>3, <2>4, <2>5, <2>6, <2>7 DEF TheNext
<1> QED BY <1>1, <1>2, PTL DEF TheSpec

LEMMA ThesisTraces == ThesisInv => AssessmentsTraced
<1> SUFFICES ASSUME ThesisInv PROVE AssessmentsTraced
  OBVIOUS
<1>1. AssessmentsSound(thesis, assessments) /\ NumbersStay(thesis)
  BY DEF ThesisInv
<1>2. thesis \in Seq(Revision) /\ DOMAIN thesis = 1 .. Len(thesis) /\ Len(thesis) \in Nat
  <2>1. thesis \in Seq(Revision)
    BY DEF ThesisInv
  <2> QED BY <2>1, ElementOf
<1>3. \A v \in DOMAIN thesis : thesis[v].conditions \in Conditions
  <2>1. \A v \in DOMAIN thesis : thesis[v] \in Revision
    BY <1>2, ElementOf
  <2> QED BY <2>1 DEF Revision
<1>4. AssessmentFitsRevision
  <2> SUFFICES ASSUME NEW n \in DOMAIN assessments
               PROVE  LET conditions == thesis[assessments[n].version].conditions
                      IN {[id |-> row.id, text |-> row.text] : row \in assessments[n].rows} = {[id |-> conditions[t], text |-> t] : t \in DOMAIN conditions}
    BY DEF AssessmentFitsRevision
  <2> DEFINE c == thesis[assessments[n].version].conditions
             answers == assessments[n].rows
  <2>1. /\ \A row \in answers : row.text \in DOMAIN c /\ row.id = c[row.text]
        /\ \A t \in DOMAIN c : \E row \in answers : row.text = t /\ row.id = c[t]
    BY <1>1 DEF AssessmentsSound, Fits
  <2> HIDE DEF c, answers
  <2>2. {[id |-> row.id, text |-> row.text] : row \in answers} = {[id |-> c[t], text |-> t] : t \in DOMAIN c}
    BY <2>1
  <2> QED BY <2>2 DEF c, answers
<1>5. ChangesTraced
  <2> SUFFICES ASSUME NEW n \in DOMAIN assessments, assessments[n].prior > 0, NEW entry \in assessments[n].log,
                      Kept(entry.text, Min({assessments[assessments[n].prior].version, assessments[n].version}),
                                       Max({assessments[assessments[n].prior].version, assessments[n].version}))
               PROVE  \E row \in assessments[assessments[n].prior].rows : row.text = entry.text /\ row.verdict = entry.was
    BY DEF ChangesTraced
  <2> DEFINE a == assessments[n]
             p == assessments[a.prior]
             lo == Min({p.version, a.version})
             hi == Max({p.version, a.version})
  <2>1. Fits(a.rows, thesis, a.version) /\ Compares(a.log, a.rows, a.prior, assessments)
    BY <1>1 DEF AssessmentsSound
  <2>2. a.prior \in DOMAIN assessments
    <3>1. assessments \in Seq(Assessment)
      BY DEF ThesisInv
    <3>2. DOMAIN assessments = 1 .. Len(assessments) /\ Len(assessments) \in Nat
      BY <3>1, ElementOf
    <3>3. a.prior \in 0 .. Len(assessments) /\ a.prior > 0
      BY <2>1 DEF Compares
    <3> HIDE DEF a
    <3> QED BY <3>2, <3>3
  <2>3. Fits(p.rows, thesis, p.version)
    BY <1>1, <2>2 DEF AssessmentsSound
  <2>4. a.log = Log(a.rows, p.rows)
    BY <2>1 DEF Compares
  <2>5. a.rows \in SUBSET VerdictRow /\ p.rows \in SUBSET VerdictRow /\ a.version \in DOMAIN thesis /\ p.version \in DOMAIN thesis
    BY <2>1, <2>3 DEF Fits
  <2>6. entry \in Log(a.rows, p.rows) /\ Kept(entry.text, lo, hi)
    BY <2>4
  <2> HIDE DEF a, p
  <2>7. PICK row \in a.rows :
          /\ entry.text = row.text /\ entry.id = row.id
          /\ (\E q \in p.rows : q.id = row.id) => \E q \in p.rows : q.id = row.id /\ entry.was = q.verdict
    BY <2>5, <2>6, EntryIs
  <2> DEFINE t == entry.text
  <2>8. t \in Texts /\ t \in DOMAIN thesis[a.version].conditions /\ row.id = thesis[a.version].conditions[t]
    BY <2>1, <2>5, <2>7 DEF Fits, VerdictRow
  <2>9. (lo = a.version /\ hi = p.version /\ lo <= hi) \/ (lo = p.version /\ hi = a.version /\ lo <= hi)
    BY <1>2, <2>5 DEF Min, Max
  <2>10. thesis[hi].conditions[t] = thesis[lo].conditions[t] /\ t \in DOMAIN thesis[p.version].conditions
    <3>1. lo \in DOMAIN thesis /\ hi \in DOMAIN thesis /\ lo <= hi /\ lo \in lo .. hi /\ hi \in lo .. hi
      <4> HIDE DEF lo, hi
      <4> QED BY <1>2, <2>5, <2>9
    <3>2. \A x \in lo .. hi : t \in DOMAIN thesis[x].conditions
      BY <2>6 DEF Kept
    <3> HIDE DEF lo, hi, t
    <3>3. thesis[hi].conditions[t] = thesis[lo].conditions[t]
      BY <1>1, <2>8, <3>1, <3>2 DEF NumbersStay
    <3>4. t \in DOMAIN thesis[p.version].conditions
      BY <2>9, <3>1, <3>2
    <3> QED BY <3>3, <3>4
  <2>11. thesis[p.version].conditions[t] = row.id
    <3> HIDE DEF lo, hi, t
    <3> QED BY <2>8, <2>9, <2>10
  <2>12. \E q \in p.rows : q.id = row.id
    <3> HIDE DEF t
    <3> QED BY <2>3, <2>10, <2>11 DEF Fits
  <2>13. PICK q \in p.rows : q.id = row.id /\ entry.was = q.verdict
    BY <2>7, <2>12
  <2>14. q.text \in DOMAIN thesis[p.version].conditions /\ q.id = thesis[p.version].conditions[q.text]
    BY <2>3 DEF Fits
  <2>15. q.text = t
    <3> DEFINE c == thesis[p.version].conditions
    <3>1. c \in Conditions
      BY <1>3, <2>5
    <3>2. q.text \in DOMAIN c /\ t \in DOMAIN c /\ c[q.text] = c[t]
      BY <2>10, <2>11, <2>13, <2>14
    <3> HIDE DEF c, t
    <3> QED BY <3>1, <3>2 DEF Conditions
  <2>16. \E x \in p.rows : x.text = entry.text /\ x.verdict = entry.was
    BY <2>13, <2>15
  <2> QED BY <2>16 DEF a, p
<1> QED BY <1>4, <1>5 DEF AssessmentsTraced

\* Every assessment is about the conditions of the revision it names, one row for each, and the changes it tells of a
\* condition that stayed in the thesis are changes of the verdict on that condition (api/v4/theses.py: refresh).
THEOREM TracedAssessments == TheSpec => []AssessmentsTraced
<1> QED BY ThesisInvariance, ThesisTraces, PTL

-----------------------------------------------------------------------------
(* Earmarks. *)

\* The values of the variables.
Snapshot == [key : ImportKeys, amount : Rupees]
GoalRow == [of : Nat, version : Nat, superseded : BOOLEAN]
Confirming == [at : {"confirm"}, key : ImportKeys, amount : Rupees]
Editing == [at : {"edit"}, row : Nat]
Earmarking == [at : {"sum", "earmark"}, row : Nat, position : Nat, amount : Rupees]

WriterState == {Free} \cup Confirming \cup Editing \cup Earmarking
Earmark == [goal : Nat, position : Nat, amount : Rupees]

EarmarkTypes ==
  /\ snapshots \in Seq(Snapshot) /\ goals \in Seq(GoalRow)
  /\ earmarks \in Seq(Earmark)
  /\ writer \in [Writers -> WriterState]

\* Earmarks, and requests for one, are of goals and positions there are.
EarmarksRefer ==
  /\ \A e \in DOMAIN earmarks : earmarks[e].goal \in DOMAIN goals /\ earmarks[e].position \in DOMAIN snapshots
  /\ \A w \in Writers :
       /\ writer[w].at \in {"edit", "sum", "earmark"} => writer[w].row \in DOMAIN goals
       /\ writer[w].at \in {"sum", "earmark"} => writer[w].position \in DOMAIN snapshots

\* The unique key of snapshots.
SnapshotKeysUnique == \A m, n \in DOMAIN snapshots : snapshots[m].key = snapshots[n].key => m = n

\* What Earmarked(n) adds up, for any table of earmarks and any goals.
Counting(es, gs, n) == {e \in DOMAIN es : es[e].position = n /\ ~ gs[es[e].goal].superseded}
EarmarkedIn(es, gs, n) == Sum([e \in DOMAIN es |-> es[e].amount], Counting(es, gs, n))

\* What the handlers have found room for on a position and are about to insert.
Pending(wr, n) == [w \in Writers |-> IF wr[w].at = "earmark" /\ wr[w].position = n THEN wr[w].amount ELSE 0]

PendingFits == \A w \in Writers : writer[w].at = "earmark" => writer[w].amount <= snapshots[writer[w].position].amount

\* The earmarks and what is about to be added to them.
OverdraftCovered ==
  \A n \in DOMAIN snapshots :
    EarmarkedIn(earmarks, goals, n) + Sum(Pending(writer, n), Writers) <= Cardinality(Writers) * snapshots[n].amount

\* The inductive invariant.
EarmarkInv == EarmarkTypes /\ EarmarksRefer /\ SnapshotKeysUnique /\ PendingFits /\ OverdraftCovered

\* The sum that the handler reads.
LEMMA EarmarkedIs == \A n : Earmarked(n) = EarmarkedIn(earmarks, goals, n)
  BY DEF Earmarked, EarmarkedIn, Counting, Current, Sum

\* Amounts are numbers.
LEMMA RupeesAreNumbers == \A r \in Rupees : r \in Nat /\ r \in Int /\ 0 <= r
  BY EarmarkAssumption

\* The amount of an earmark is one.
LEMMA EarmarkAmount ==
  ASSUME NEW es \in Seq(Earmark)
  PROVE  \A e \in DOMAIN es : es[e].amount \in Int /\ 0 <= es[e].amount
<1>1. \A e \in DOMAIN es : es[e] \in Earmark
  BY ElementOf
<1>2. \A x \in Earmark : x.amount \in Rupees
  BY DEF Earmark
<1>. QED BY <1>1, <1>2, RupeesAreNumbers

\* A position has finitely many earmarks.
LEMMA CountingFinite ==
  ASSUME NEW es \in Seq(Earmark), NEW gs, NEW n
  PROVE  IsFiniteSet(Counting(es, gs, n)) /\ Counting(es, gs, n) \subseteq DOMAIN es
<1>1. IsFiniteSet(1 .. Len(es))
  BY FS_Interval, ElementOf
<1>2. Counting(es, gs, n) \in SUBSET (1 .. Len(es))
  BY ElementOf DEF Counting
<1>. QED BY <1>1, <1>2, FS_Subset, ElementOf

\* What is earmarked is a number.
LEMMA EarmarkedType ==
  ASSUME NEW es \in Seq(Earmark), NEW gs, NEW n
  PROVE  EarmarkedIn(es, gs, n) \in Int
<1>. DEFINE w == [e \in DOMAIN es |-> es[e].amount]
<1>1. \A e \in Counting(es, gs, n) : w[e] \in Int
  BY EarmarkAmount, CountingFinite
<1>2. Sum(w, Counting(es, gs, n)) \in Int
  <2>. HIDE DEF w
  <2>. QED BY <1>1, CountingFinite, SumType
<1>. QED BY <1>2 DEF EarmarkedIn

\* What is earmarked is not negative.
LEMMA EarmarkedNat ==
  ASSUME NEW es \in Seq(Earmark), NEW gs, NEW n
  PROVE  0 <= EarmarkedIn(es, gs, n)
<1>. DEFINE w == [e \in DOMAIN es |-> es[e].amount]
<1>1. \A e \in Counting(es, gs, n) : w[e] \in Int /\ 0 <= w[e]
  BY EarmarkAmount, CountingFinite
<1>2. 0 <= Sum(w, Counting(es, gs, n))
  <2>. HIDE DEF w
  <2>. QED BY <1>1, CountingFinite, SumNat
<1>. QED BY <1>2 DEF EarmarkedIn

\* Editing a goal takes its earmarks out of the sum.
LEMMA EarmarkedShrinks ==
  ASSUME NEW es \in Seq(Earmark), NEW gs, NEW hs, NEW n, Counting(es, hs, n) \subseteq Counting(es, gs, n)
  PROVE  EarmarkedIn(es, hs, n) <= EarmarkedIn(es, gs, n)
<1>. DEFINE w == [e \in DOMAIN es |-> es[e].amount]
<1>1. \A e \in Counting(es, gs, n) : w[e] \in Int /\ 0 <= w[e]
  BY EarmarkAmount, CountingFinite
<1>2. Sum(w, Counting(es, hs, n)) <= Sum(w, Counting(es, gs, n))
  <2>1. \A e \in Counting(es, hs, n) : w[e] \in Int /\ w[e] <= w[e]
    <3>. HIDE DEF w
    <3>. QED BY <1>1
  <2>. HIDE DEF w
  <2>. QED BY <1>1, <2>1, CountingFinite, SumMonotone
<1>. QED BY <1>2 DEF EarmarkedIn

\* An inserted earmark adds at most its amount to its position, and nothing to another one.
LEMMA EarmarkedGrows ==
  ASSUME NEW es \in Seq(Earmark), NEW x \in Earmark, NEW gs, NEW n
  PROVE  EarmarkedIn(Append(es, x), gs, n) <= EarmarkedIn(es, gs, n) + IF x.position = n THEN x.amount ELSE 0
<1>. DEFINE fs == Append(es, x)
            w == [e \in DOMAIN es |-> es[e].amount]
            v == [e \in DOMAIN fs |-> fs[e].amount]
            new == Len(es) + 1
            S == Counting(es, gs, n)
            T == Counting(fs, gs, n)
<1>1. /\ fs \in Seq(Earmark) /\ DOMAIN fs = DOMAIN es \cup {new} /\ new \notin DOMAIN es
      /\ (\A i \in DOMAIN es : fs[i] = es[i]) /\ fs[new] = x
  BY AppendShape
<1>2. IsFiniteSet(S) /\ S \subseteq DOMAIN es /\ IsFiniteSet(T) /\ T \subseteq DOMAIN fs
  BY <1>1, CountingFinite
<1>3. T \ {new} \subseteq S /\ (x.position # n => new \notin T)
  BY <1>1 DEF Counting
<1>4. \A e \in S : w[e] \in Int /\ 0 <= w[e]
  BY <1>2, EarmarkAmount
<1>5. \A e \in T : v[e] \in Int
  BY <1>1, <1>2, EarmarkAmount
<1>6. \A e \in T \ {new} : v[e] = w[e]
  BY <1>1, <1>2
<1>7. v[new] = x.amount /\ x.amount \in Int /\ 0 <= x.amount
  BY <1>1, RupeesAreNumbers DEF Earmark
<1>8. EarmarkedIn(fs, gs, n) = Sum(v, T) /\ EarmarkedIn(es, gs, n) = Sum(w, S)
  BY DEF EarmarkedIn
<1>. HIDE DEF v, w, S, T, fs, new
<1>9. IsFiniteSet(T \ {new}) /\ \A e \in T \ {new} : v[e] \in Int /\ v[e] <= w[e]
  BY <1>2, <1>3, <1>4, <1>5, <1>6, FS_RemoveElement
<1>10. Sum(v, T \ {new}) <= Sum(w, S)
  BY <1>2, <1>3, <1>4, <1>9, SumMonotone
<1>11. Sum(v, T \ {new}) \in Int /\ Sum(w, S) \in Int
  BY <1>2, <1>4, <1>9, SumType
<1>12. CASE new \in T
  <2>1. Sum(v, T) = v[new] + Sum(v, T \ {new})
    BY <1>2, <1>5, <1>12, SumRemove
  <2>2. x.position = n
    BY <1>3, <1>12
  <2>. QED BY <1>7, <1>8, <1>10, <1>11, <2>1, <2>2 DEF fs
<1>13. CASE new \notin T
  <2>1. T \ {new} = T
    BY <1>13
  <2>2. PICK more \in Int : more = (IF x.position = n THEN x.amount ELSE 0) /\ 0 <= more
    BY <1>7
  <2>3. Sum(v, T) <= Sum(w, S) + more
    <3>1. Sum(v, T) <= Sum(w, S) /\ Sum(v, T) \in Int
      BY <1>10, <1>11, <2>1
    <3>. QED BY <1>11, <2>2, <3>1
  <2>. QED BY <1>8, <2>2, <2>3 DEF fs
<1>. QED BY <1>12, <1>13

-----------------------------------------------------------------------------
\* What a handler is at says what it remembers.
LEMMA WriterKinds ==
  ASSUME NEW r \in WriterState
  PROVE  /\ r.at = "confirm" => r \in Confirming
         /\ r.at = "edit" => r \in Editing
         /\ r.at \in {"sum", "earmark"} => r \in Earmarking
         /\ r = Free => r.at = "free"
  BY DEF WriterState, Free, Confirming, Editing, Earmarking

\* What a handler is about to insert is an amount, or nothing.
LEMMA PendingTerms ==
  ASSUME NEW wr \in [Writers -> WriterState], NEW n
  PROVE  \A w \in Writers : Pending(wr, n)[w] \in Int /\ 0 <= Pending(wr, n)[w]
<1>1. ASSUME NEW w \in Writers, wr[w].at = "earmark" PROVE wr[w].amount \in Rupees
  BY <1>1, WriterKinds DEF Earmarking
<1>. QED BY <1>1, RupeesAreNumbers DEF Pending

\* So what all of them are about to insert is a number.
LEMMA PendingType ==
  ASSUME NEW wr \in [Writers -> WriterState], NEW n
  PROVE  Sum(Pending(wr, n), Writers) \in Int
  BY PendingTerms, EarmarkAssumption, SumType

\* One handler and the others.
LEMMA PendingRemove ==
  ASSUME NEW wr \in [Writers -> WriterState], NEW n, NEW v \in Writers
  PROVE  Sum(Pending(wr, n), Writers) = Pending(wr, n)[v] + Sum(Pending(wr, n), Writers \ {v})
  BY PendingTerms, EarmarkAssumption, SumRemove

\* A handler that does not come to have found room adds nothing to what is pending.
LEMMA PendingShrinks ==
  ASSUME NEW wr \in [Writers -> WriterState], NEW vr \in [Writers -> WriterState], NEW n,
         \A w \in Writers : vr[w] = wr[w] \/ vr[w].at # "earmark"
  PROVE  Sum(Pending(vr, n), Writers) <= Sum(Pending(wr, n), Writers)
<1>1. \A w \in Writers : Pending(wr, n)[w] \in Int /\ 0 <= Pending(wr, n)[w]
  BY PendingTerms
<1>2. \A w \in Writers : Pending(vr, n)[w] \in Int /\ Pending(vr, n)[w] <= Pending(wr, n)[w]
  BY <1>1 DEF Pending
<1>. QED BY <1>1, <1>2, EarmarkAssumption, SumMonotone

\* The bound is a number.
LEMMA MostType ==
  ASSUME NEW s \in Seq(Snapshot), NEW n \in DOMAIN s
  PROVE  s[n].amount \in Nat /\ Cardinality(Writers) \in Nat /\ Cardinality(Writers) * s[n].amount \in Nat
<1>1. s[n].amount \in Nat
  <2>1. s[n] \in Snapshot
    BY ElementOf
  <2>. QED BY <2>1, RupeesAreNumbers DEF Snapshot
<1>2. Cardinality(Writers) \in Nat
  BY EarmarkAssumption, FS_CardinalityType
<1>3. \A a, b \in Nat : a * b \in Nat
  OBVIOUS
<1>. QED BY <1>1, <1>2, <1>3

\* The step keeps the bound when neither what is earmarked nor what is pending grows.
LEMMA NothingAdded ==
  ASSUME EarmarkInv, EarmarkTypes', snapshots' = snapshots,
         \A w \in Writers : writer'[w] = writer[w] \/ writer'[w].at # "earmark",
         \A n \in DOMAIN snapshots : EarmarkedIn(earmarks', goals', n) <= EarmarkedIn(earmarks, goals, n)
  PROVE  OverdraftCovered'
<1>. SUFFICES ASSUME NEW n \in DOMAIN snapshots
              PROVE  EarmarkedIn(earmarks', goals', n) + Sum(Pending(writer', n), Writers)
                       <= Cardinality(Writers) * snapshots[n].amount
  BY DEF OverdraftCovered
<1>1. Sum(Pending(writer', n), Writers) <= Sum(Pending(writer, n), Writers)
  BY PendingShrinks DEF EarmarkInv, EarmarkTypes
<1>2. Sum(Pending(writer', n), Writers) \in Int /\ Sum(Pending(writer, n), Writers) \in Int
  BY PendingType DEF EarmarkInv, EarmarkTypes
<1>3. EarmarkedIn(earmarks', goals', n) \in Int /\ EarmarkedIn(earmarks, goals, n) \in Int
  BY EarmarkedType DEF EarmarkInv, EarmarkTypes
<1>4. Cardinality(Writers) * snapshots[n].amount \in Int
  BY MostType DEF EarmarkInv, EarmarkTypes
<1>5. EarmarkedIn(earmarks, goals, n) + Sum(Pending(writer, n), Writers) <= Cardinality(Writers) * snapshots[n].amount
  BY DEF EarmarkInv, OverdraftCovered
<1>6. EarmarkedIn(earmarks', goals', n) <= EarmarkedIn(earmarks, goals, n)
  OBVIOUS
<1>. QED BY <1>1, <1>2, <1>3, <1>4, <1>5, <1>6

\* The handler alone goes on.
LEMMA WorksShape ==
  ASSUME EarmarkTypes, NEW w \in Writers, NEW next \in WriterState, Works(w, next)
  PROVE  writer' \in [Writers -> WriterState] /\ writer'[w] = next /\ \A v \in Writers : v # w => writer'[v] = writer[v]
  BY DEF EarmarkTypes, Works

\* At first there are no rows.
LEMMA EarmarkStart == ASSUME EInit PROVE EarmarkInv
<1>. USE DEF EInit
<1>1. EarmarkTypes /\ EarmarksRefer /\ SnapshotKeysUnique
  BY DEF EarmarkTypes, EarmarksRefer, SnapshotKeysUnique, WriterState, Free
<1>2. PendingFits /\ OverdraftCovered
  BY DEF PendingFits, OverdraftCovered, Free
<1>. QED BY <1>1, <1>2 DEF EarmarkInv

\* Requests begin, and end, without a row being written; a request that has found room is a matter of its own.
LEMMA OnlyWriter ==
  ASSUME EarmarkInv, NEW w \in Writers, NEW next \in WriterState, Works(w, next), UNCHANGED <<snapshots, goals, earmarks>>,
         next.at # "earmark", next.at \in {"edit", "sum"} => next.row \in DOMAIN goals,
         next.at = "sum" => next.position \in DOMAIN snapshots
  PROVE  EarmarkInv'
<1>1. writer' \in [Writers -> WriterState] /\ writer'[w] = next /\ \A v \in Writers : v # w => writer'[v] = writer[v]
  BY WorksShape DEF EarmarkInv
<1>2. EarmarkTypes'
  BY <1>1 DEF EarmarkInv, EarmarkTypes
<1>3. EarmarksRefer' /\ SnapshotKeysUnique' /\ PendingFits'
  BY <1>1 DEF EarmarkInv, EarmarksRefer, SnapshotKeysUnique, PendingFits
<1>4. \A n \in DOMAIN snapshots : EarmarkedIn(earmarks', goals', n) <= EarmarkedIn(earmarks, goals, n)
  <2>1. \A n : EarmarkedIn(earmarks, goals, n) \in Int
    BY EarmarkedType DEF EarmarkInv, EarmarkTypes
  <2>. QED BY <2>1
<1>5. OverdraftCovered'
  BY <1>1, <1>2, <1>4, NothingAdded
<1>. QED BY <1>2, <1>3, <1>5 DEF EarmarkInv

\* A request begins, is turned away or dies.
LEMMA RequestStep ==
  ASSUME EarmarkInv, NEW w \in Writers,
         \/ \E key \in ImportKeys, amount \in Rupees : ConfirmRead(w, key, amount)
         \/ \E row \in DOMAIN goals : EditRead(w, row)
         \/ \E row \in DOMAIN goals, position \in DOMAIN snapshots, amount \in Rupees : EarmarkGoal(w, row, position, amount)
         \/ WriterDies(w)
  PROVE  EarmarkInv'
<1>0. DOMAIN goals \subseteq Nat /\ DOMAIN snapshots \subseteq Nat
  BY ElementOf DEF EarmarkInv, EarmarkTypes
<1>1. ASSUME NEW key \in ImportKeys, NEW amount \in Rupees, ConfirmRead(w, key, amount) PROVE EarmarkInv'
  <2>. DEFINE next == [at |-> "confirm", key |-> key, amount |-> amount]
  <2>1. next \in WriterState /\ next.at \notin {"edit", "sum", "earmark"}
    BY DEF WriterState, Confirming
  <2>. QED BY <1>1, <2>1, OnlyWriter DEF ConfirmRead
<1>2. ASSUME NEW row \in DOMAIN goals, EditRead(w, row) PROVE EarmarkInv'
  <2>. DEFINE next == [at |-> "edit", row |-> row]
  <2>1. next \in WriterState /\ next.at = "edit" /\ next.row = row
    BY <1>0 DEF WriterState, Editing
  <2>. QED BY <1>2, <2>1, OnlyWriter DEF EditRead
<1>3. ASSUME NEW row \in DOMAIN goals, NEW position \in DOMAIN snapshots, NEW amount \in Rupees,
             EarmarkGoal(w, row, position, amount)
      PROVE  EarmarkInv'
  <2>. DEFINE next == [at |-> "sum", row |-> row, position |-> position, amount |-> amount]
  <2>1. next \in WriterState /\ next.at = "sum" /\ next.row = row /\ next.position = position
    BY <1>0 DEF WriterState, Earmarking
  <2>. QED BY <1>3, <2>1, OnlyWriter DEF EarmarkGoal
<1>4. ASSUME WriterDies(w) PROVE EarmarkInv'
  <2>1. Free \in WriterState /\ Free.at \notin {"edit", "sum", "earmark"}
    BY DEF WriterState, Free
  <2>. QED BY <1>4, <2>1, OnlyWriter DEF WriterDies
<1>. QED BY <1>1, <1>2, <1>3, <1>4

\* A new snapshot has no earmarks yet, and nobody can have asked for one.
LEMMA ConfirmInsertStep == ASSUME EarmarkInv, NEW w \in Writers, ConfirmInsert(w) PROVE EarmarkInv'
<1>. USE DEF EarmarkInv
<1>0. Works(w, Free) /\ Free \in WriterState /\ Free.at = "free" /\ UNCHANGED <<goals, earmarks>>
  BY DEF ConfirmInsert, WriterState, Free
<1>1. CASE Named(writer[w].key) # {}
  <2>1. snapshots' = snapshots
    BY <1>1 DEF ConfirmInsert, Added
  <2>. QED BY <1>0, <2>1, OnlyWriter
<1>2. CASE Named(writer[w].key) = {}
  <2>. DEFINE x == [key |-> writer[w].key, amount |-> writer[w].amount]
              new == Len(snapshots) + 1
  <2>1. snapshots' = Append(snapshots, x)
    BY <1>2 DEF ConfirmInsert, Added
  <2>2. writer[w] \in WriterState /\ writer[w].at = "confirm"
    BY DEF EarmarkTypes, ConfirmInsert
  <2>3. x \in Snapshot
    BY <2>2, WriterKinds DEF Confirming, Snapshot
  <2>4. /\ snapshots' \in Seq(Snapshot) /\ DOMAIN snapshots' = DOMAIN snapshots \cup {new} /\ new \notin DOMAIN snapshots
        /\ (\A i \in DOMAIN snapshots : snapshots'[i] = snapshots[i]) /\ snapshots'[new] = x
    <3>. HIDE DEF x
    <3>. QED BY <2>1, <2>3, AppendShape DEF EarmarkTypes
  <2>. HIDE DEF new
  <2>5. writer' \in [Writers -> WriterState] /\ writer'[w] = Free /\ \A v \in Writers : v # w => writer'[v] = writer[v]
    BY <1>0, WorksShape
  <2>6. EarmarkTypes'
    BY <1>0, <2>4, <2>5 DEF EarmarkTypes
  <2>7. EarmarksRefer'
    BY <1>0, <2>4, <2>5 DEF EarmarksRefer
  <2>8. SnapshotKeysUnique'
    BY <1>2, <2>4 DEF SnapshotKeysUnique, Named
  <2>9. PendingFits'
    <3>1. \A v \in Writers : writer'[v].at = "earmark" => writer'[v] = writer[v] /\ writer[v].position \in DOMAIN snapshots
      BY <1>0, <2>5 DEF EarmarksRefer
    <3>. QED BY <2>4, <3>1 DEF PendingFits
  <2>10. ASSUME NEW n \in DOMAIN snapshots'
         PROVE  EarmarkedIn(earmarks', goals', n) + Sum(Pending(writer', n), Writers) <= Cardinality(Writers) * snapshots'[n].amount
    <3>1. EarmarkedIn(earmarks, goals, n) \in Int /\ Sum(Pending(writer', n), Writers) \in Int /\ Sum(Pending(writer, n), Writers) \in Int
      BY <2>5, EarmarkedType, PendingType DEF EarmarkTypes
    <3>2. CASE n \in DOMAIN snapshots
      <4>1. Sum(Pending(writer', n), Writers) <= Sum(Pending(writer, n), Writers)
        <5>1. \A v \in Writers : writer'[v] = writer[v] \/ writer'[v].at # "earmark"
          BY <1>0, <2>5
        <5>. QED BY <2>5, <5>1, PendingShrinks DEF EarmarkTypes
      <4>2. EarmarkedIn(earmarks, goals, n) + Sum(Pending(writer, n), Writers) <= Cardinality(Writers) * snapshots[n].amount
        BY <3>2 DEF OverdraftCovered
      <4>3. Cardinality(Writers) * snapshots[n].amount \in Int /\ snapshots'[n] = snapshots[n]
        BY <2>4, <3>2, MostType DEF EarmarkTypes
      <4>. QED BY <1>0, <3>1, <4>1, <4>2, <4>3
    <3>3. CASE n = new
      <4>1. Counting(earmarks, goals, n) = {}
        BY <2>4, <3>3 DEF Counting, EarmarksRefer
      <4>2. EarmarkedIn(earmarks, goals, n) = 0
        BY <4>1, SumEmpty DEF EarmarkedIn
      <4>3. \A v \in Writers : writer'[v].at = "earmark" => writer'[v].position # n
        BY <1>0, <2>4, <2>5, <3>3 DEF EarmarksRefer
      <4>4. \A v \in Writers : Pending(writer', n)[v] \in Int /\ Pending(writer', n)[v] <= 0
        BY <4>3 DEF Pending
      <4>5. Sum(Pending(writer', n), Writers) <= Cardinality(Writers) * 0
        BY <4>4, EarmarkAssumption, SumBound
      <4>6. Cardinality(Writers) * snapshots'[n].amount \in Nat /\ Cardinality(Writers) \in Nat
        BY <2>4, MostType
      <4>. QED BY <1>0, <3>1, <4>2, <4>5, <4>6
    <3>. QED BY <2>4, <3>2, <3>3
  <2>. QED BY <2>6, <2>7, <2>8, <2>9, <2>10 DEF OverdraftCovered
<1>. QED BY <1>1, <1>2

\* What the goals' rows become: no superseded row is current again, new rows have no earmarks.
LEMMA GoalsMove ==
  ASSUME EarmarkInv, goals' \in Seq(GoalRow), UNCHANGED <<snapshots, earmarks>>,
         DOMAIN goals \subseteq DOMAIN goals', \A i \in DOMAIN goals : goals[i].superseded => goals'[i].superseded,
         writer' \in [Writers -> WriterState],
         \A w \in Writers : writer'[w] = writer[w] \/ writer'[w].at \notin {"edit", "sum", "earmark"}
  PROVE  EarmarkInv'
<1>. USE DEF EarmarkInv
<1>1. EarmarkTypes' /\ EarmarksRefer' /\ SnapshotKeysUnique' /\ PendingFits'
  BY DEF EarmarkTypes, EarmarksRefer, SnapshotKeysUnique, PendingFits
<1>2. ASSUME NEW n \in DOMAIN snapshots PROVE EarmarkedIn(earmarks', goals', n) <= EarmarkedIn(earmarks, goals, n)
  <2>1. Counting(earmarks, goals', n) \subseteq Counting(earmarks, goals, n)
    BY DEF Counting, EarmarksRefer
  <2>. QED BY <2>1, EarmarkedShrinks DEF EarmarkTypes
<1>3. OverdraftCovered'
  BY <1>1, <1>2, NothingAdded
<1>. QED BY <1>1, <1>3

\* A goal is created.
LEMMA CreateGoalStep == ASSUME EarmarkInv, CreateGoal PROVE EarmarkInv'
<1>. DEFINE row == [of |-> Len(goals) + 1, version |-> 1, superseded |-> FALSE]
<1>1. goals \in Seq(GoalRow) /\ row \in GoalRow
  <2>1. goals \in Seq(GoalRow) /\ Len(goals) + 1 \in Nat
    BY ElementOf DEF EarmarkInv, EarmarkTypes
  <2>. QED BY <2>1 DEF GoalRow
<1>2. goals' = Append(goals, row) /\ UNCHANGED <<snapshots, earmarks, writer>>
  BY DEF CreateGoal
<1>. HIDE DEF row
<1>3. /\ goals' \in Seq(GoalRow) /\ DOMAIN goals \subseteq DOMAIN goals'
      /\ \A i \in DOMAIN goals : goals'[i] = goals[i]
  BY <1>1, <1>2, AppendShape
<1>4. writer' \in [Writers -> WriterState]
  BY <1>2 DEF EarmarkInv, EarmarkTypes
<1>. QED BY <1>2, <1>3, <1>4, GoalsMove

\* A superseded row of a goal is a row of it.
LEMMA SupersededRow ==
  ASSUME NEW g \in GoalRow
  PROVE  [g EXCEPT !.superseded = TRUE] \in GoalRow /\ [g EXCEPT !.superseded = TRUE].superseded = TRUE
  BY DEF GoalRow

\* An edit supersedes the row it read and appends the next.
LEMMA EditCommitStep == ASSUME EarmarkInv, NEW w \in Writers, EditCommit(w) PROVE EarmarkInv'
<1>. DEFINE old == writer[w].row
            row == [of |-> goals[old].of, version |-> goals[old].version + 1, superseded |-> FALSE]
            gs == Superseded(old)
<1>1. goals \in Seq(GoalRow) /\ goals' = Append(gs, row) /\ UNCHANGED <<snapshots, earmarks>> /\ Works(w, Free)
      /\ Free \in WriterState /\ Free.at = "free" /\ writer[w].at = "edit"
  BY DEF EarmarkInv, EarmarkTypes, EditCommit, WriterState, Free
<1>2. writer' \in [Writers -> WriterState] /\ \A v \in Writers : writer'[v] = writer[v] \/ writer'[v].at \notin {"edit", "sum", "earmark"}
  BY <1>1, WorksShape DEF EarmarkInv
<1>3. gs \in Seq(GoalRow) /\ DOMAIN gs = DOMAIN goals /\ \A i \in DOMAIN goals : goals[i].superseded => gs[i].superseded
  <2>1. \A i \in DOMAIN goals : goals[i] \in GoalRow
    BY <1>1, ElementOf
  <2>2. \A i \in DOMAIN goals : gs[i] = IF i = old THEN [goals[i] EXCEPT !.superseded = TRUE] ELSE goals[i]
    BY DEF Superseded
  <2>3. gs = [i \in DOMAIN goals |-> gs[i]]
    BY DEF Superseded
  <2>. HIDE DEF gs, old
  <2>4. \A i \in DOMAIN goals : gs[i] \in GoalRow /\ (goals[i].superseded => gs[i].superseded)
    BY <2>1, <2>2, SupersededRow
  <2>. QED BY <1>1, <2>3, <2>4, ChangedInPlace
<1>4. row \in GoalRow
  <2>1. old \in DOMAIN goals
    BY <1>1 DEF EarmarkInv, EarmarksRefer
  <2>2. goals[old] \in GoalRow
    BY <1>1, <2>1, ElementOf
  <2>3. goals[old].version + 1 \in Nat
    BY <2>2 DEF GoalRow
  <2>. QED BY <2>2, <2>3 DEF GoalRow
<1>. HIDE DEF row, gs
<1>5. goals' \in Seq(GoalRow) /\ DOMAIN goals \subseteq DOMAIN goals' /\ \A i \in DOMAIN goals : goals[i].superseded => goals'[i].superseded
  BY <1>1, <1>3, <1>4, AppendShape
<1>. QED BY <1>1, <1>2, <1>5, GoalsMove

\* Room was found: what was read leaves room for the amount, and every other handler has one amount pending at most.
LEMMA RoomFound ==
  ASSUME EarmarkInv, NEW w \in Writers, NEW r \in Earmarking, writer[w] = r, r.at = "sum",
         EarmarkedIn(earmarks, goals, r.position) + r.amount <= snapshots[r.position].amount,
         NEW vr \in [Writers -> WriterState], vr[w] = [r EXCEPT !.at = "earmark"], \A v \in Writers : v # w => vr[v] = writer[v],
         NEW n \in DOMAIN snapshots
  PROVE  EarmarkedIn(earmarks, goals, n) + Sum(Pending(vr, n), Writers) <= Cardinality(Writers) * snapshots[n].amount
<1>. USE DEF EarmarkInv, EarmarkTypes
<1>0. /\ EarmarkedIn(earmarks, goals, n) \in Int /\ Sum(Pending(vr, n), Writers) \in Int
      /\ Sum(Pending(writer, n), Writers) \in Int
  BY EarmarkedType, PendingType
<1>1. vr[w].at = "earmark" /\ vr[w].position = r.position /\ vr[w].amount = r.amount /\ r.amount \in Int
  BY RupeesAreNumbers DEF Earmarking
<1>2. snapshots[n].amount \in Nat /\ Cardinality(Writers) \in Nat /\ Cardinality(Writers) * snapshots[n].amount \in Nat
  BY MostType
<1>3. CASE n # r.position
  <2>1. \A v \in Writers : Pending(vr, n)[v] \in Int /\ Pending(vr, n)[v] <= Pending(writer, n)[v]
    <3>1. \A v \in Writers : Pending(writer, n)[v] \in Int /\ 0 <= Pending(writer, n)[v]
      BY PendingTerms
    <3>2. \A v \in Writers : v # w => Pending(vr, n)[v] = Pending(writer, n)[v]
      BY DEF Pending
    <3>3. Pending(vr, n)[w] = 0
      BY <1>1, <1>3 DEF Pending
    <3>. QED BY <3>1, <3>2, <3>3
  <2>2. \A v \in Writers : Pending(writer, n)[v] \in Int
    BY PendingTerms
  <2>3. Sum(Pending(vr, n), Writers) <= Sum(Pending(writer, n), Writers)
    BY <2>1, <2>2, EarmarkAssumption, SumMonotone
  <2>4. EarmarkedIn(earmarks, goals, n) + Sum(Pending(writer, n), Writers) <= Cardinality(Writers) * snapshots[n].amount
    BY DEF OverdraftCovered
  <2>. QED BY <1>0, <1>2, <2>3, <2>4
<1>4. CASE n = r.position
  <2>. DEFINE rest == Writers \ {w}
  <2>1. IsFiniteSet(rest) /\ Cardinality(rest) = Cardinality(Writers) - 1
    BY EarmarkAssumption, FS_RemoveElement
  <2>2. \A v \in Writers : Pending(vr, n)[v] \in Int
    BY PendingTerms
  <2>3. Sum(Pending(vr, n), Writers) = r.amount + Sum(Pending(vr, n), rest)
    <3>1. Pending(vr, n)[w] = r.amount
      BY <1>1, <1>4 DEF Pending
    <3>2. Sum(Pending(vr, n), Writers) = Pending(vr, n)[w] + Sum(Pending(vr, n), Writers \ {w})
      BY PendingRemove
    <3>. QED BY <3>1, <3>2
  <2>4. \A v \in rest : Pending(vr, n)[v] \in Int /\ Pending(vr, n)[v] <= snapshots[n].amount
    BY <1>2, <2>2 DEF Pending, PendingFits
  <2>5. Sum(Pending(vr, n), rest) <= Cardinality(rest) * snapshots[n].amount
    <3>. HIDE DEF rest
    <3>. QED BY <1>2, <2>1, <2>4, SumBound
  <2>6. Sum(Pending(vr, n), rest) \in Int
    BY <2>1, <2>4, SumType
  <2>7. (Cardinality(Writers) - 1) * snapshots[n].amount = Cardinality(Writers) * snapshots[n].amount - snapshots[n].amount
    <3>. \A a, c \in Nat : (c - 1) * a = c * a - a
      OBVIOUS
    <3>. QED BY <1>2
  <2>8. EarmarkedIn(earmarks, goals, n) + r.amount <= snapshots[n].amount
    BY <1>4
  <2>9. Sum(Pending(vr, n), rest) <= Cardinality(Writers) * snapshots[n].amount - snapshots[n].amount
    BY <2>1, <2>5, <2>7
  <2>. DEFINE most == Cardinality(Writers) * snapshots[n].amount
              a == snapshots[n].amount
              s == Sum(Pending(vr, n), rest)
              e == EarmarkedIn(earmarks, goals, n)
  <2>10. most \in Int /\ a \in Int /\ s \in Int /\ e \in Int /\ r.amount \in Int
    BY <1>0, <1>1, <1>2, <2>6
  <2>11. e + (r.amount + s) <= most
    <3>1. s <= most - a /\ e + r.amount <= a
      BY <2>8, <2>9
    <3>. HIDE DEF most, a, s, e
    <3>. QED BY <2>10, <3>1
  <2>. QED BY <2>3, <2>11
<1>. QED BY <1>3, <1>4

\* The sum is read.
LEMMA EarmarkSumStep == ASSUME EarmarkInv, NEW w \in Writers, EarmarkSum(w) PROVE EarmarkInv'
<1>. USE DEF EarmarkInv
<1>0. PICK r \in Earmarking : r = writer[w] /\ r.at = "sum" /\ r.row \in DOMAIN goals /\ r.position \in DOMAIN snapshots
  BY WriterKinds DEF EarmarkSum, EarmarkTypes, EarmarksRefer
<1>1. CASE HasRoom(r.position, r.amount, Earmarked(r.position))
  <2>. DEFINE next == [r EXCEPT !.at = "earmark"]
  <2>1. next \in WriterState /\ next.at = "earmark" /\ next.row = r.row /\ next.position = r.position /\ next.amount = r.amount
    BY DEF WriterState, Earmarking
  <2>2. Works(w, next) /\ UNCHANGED <<snapshots, goals, earmarks>>
    BY <1>0, <1>1 DEF EarmarkSum
  <2>3. writer' \in [Writers -> WriterState] /\ writer'[w] = next /\ \A v \in Writers : v # w => writer'[v] = writer[v]
    BY <2>1, <2>2, WorksShape
  <2>4. EarmarkTypes' /\ SnapshotKeysUnique'
    BY <2>2, <2>3 DEF EarmarkTypes, SnapshotKeysUnique
  <2>5. EarmarksRefer'
    BY <1>0, <2>1, <2>2, <2>3 DEF EarmarksRefer
  <2>6. EarmarkedIn(earmarks, goals, r.position) + r.amount <= snapshots[r.position].amount
    BY <1>1, EarmarkedIs DEF HasRoom
  <2>7. r.amount <= snapshots[r.position].amount
    <3>1. EarmarkedIn(earmarks, goals, r.position) \in Int /\ r.amount \in Int /\ snapshots[r.position].amount \in Int
      BY <1>0, EarmarkedType, RupeesAreNumbers, MostType DEF EarmarkTypes, Earmarking
    <3>2. 0 <= EarmarkedIn(earmarks, goals, r.position)
      BY EarmarkedNat DEF EarmarkTypes
    <3>. QED BY <2>6, <3>1, <3>2
  <2>8. PendingFits'
    BY <2>1, <2>2, <2>3, <2>7 DEF PendingFits
  <2>9. OverdraftCovered'
    BY <1>0, <2>2, <2>3, <2>6, RoomFound DEF OverdraftCovered
  <2>. QED BY <2>4, <2>5, <2>8, <2>9
<1>2. CASE ~ HasRoom(r.position, r.amount, Earmarked(r.position))
  <2>1. Works(w, Free) /\ UNCHANGED <<snapshots, goals, earmarks>>
    BY <1>0, <1>2 DEF EarmarkSum
  <2>2. Free \in WriterState /\ Free.at \notin {"edit", "sum", "earmark"}
    BY DEF WriterState, Free
  <2>. QED BY <2>1, <2>2, OnlyWriter
<1>. QED BY <1>1, <1>2

\* The row that is inserted was pending until now.
LEMMA EarmarkInsertStep == ASSUME EarmarkInv, NEW w \in Writers, EarmarkInsert(w) PROVE EarmarkInv'
<1>. USE DEF EarmarkInv
<1>0. PICK r \in Earmarking : r = writer[w] /\ r.at = "earmark" /\ r.row \in DOMAIN goals /\ r.position \in DOMAIN snapshots
  BY WriterKinds DEF EarmarkInsert, EarmarkTypes, EarmarksRefer
<1>. DEFINE x == [goal |-> r.row, position |-> r.position, amount |-> r.amount]
            new == Len(earmarks) + 1
<1>1. earmarks' = Append(earmarks, x) /\ Works(w, Free) /\ UNCHANGED <<snapshots, goals>> /\ Free \in WriterState /\ Free.at = "free"
  BY <1>0 DEF EarmarkInsert, WriterState, Free
<1>2. x \in Earmark /\ x.goal = r.row /\ x.position = r.position /\ x.amount = r.amount /\ x.amount \in Int
  BY RupeesAreNumbers DEF Earmarking, Earmark
<1>. HIDE DEF x
<1>3. /\ earmarks' \in Seq(Earmark) /\ DOMAIN earmarks' = DOMAIN earmarks \cup {new}
      /\ (\A i \in DOMAIN earmarks : earmarks'[i] = earmarks[i]) /\ earmarks'[new] = x
  BY <1>1, <1>2, AppendShape DEF EarmarkTypes
<1>4. writer' \in [Writers -> WriterState] /\ writer'[w] = Free /\ \A v \in Writers : v # w => writer'[v] = writer[v]
  BY <1>1, WorksShape
<1>5. EarmarkTypes' /\ SnapshotKeysUnique'
  BY <1>1, <1>3, <1>4 DEF EarmarkTypes, SnapshotKeysUnique
<1>6. EarmarksRefer'
  <2>. HIDE DEF new
  <2>. QED BY <1>0, <1>1, <1>2, <1>3, <1>4 DEF EarmarksRefer
<1>7. PendingFits'
  BY <1>1, <1>4 DEF PendingFits
<1>8. ASSUME NEW n \in DOMAIN snapshots
      PROVE  EarmarkedIn(earmarks', goals, n) + Sum(Pending(writer', n), Writers) <= Cardinality(Writers) * snapshots[n].amount
  <2>1. PICK more \in Int : more = IF r.position = n THEN r.amount ELSE 0
    BY <1>2
  <2>2. EarmarkedIn(earmarks', goals, n) <= EarmarkedIn(earmarks, goals, n) + more
    BY <1>1, <1>2, <2>1, EarmarkedGrows DEF EarmarkTypes
  <2>. DEFINE rest == Writers \ {w}
  <2>3. \A v \in Writers : Pending(writer, n)[v] \in Int /\ Pending(writer', n)[v] \in Int
    BY <1>4, PendingTerms DEF EarmarkTypes
  <2>4. Sum(Pending(writer, n), Writers) = more + Sum(Pending(writer, n), rest)
    <3>1. Pending(writer, n)[w] = more
      BY <1>0, <2>1 DEF Pending
    <3>. QED BY <2>3, <3>1, EarmarkAssumption, SumRemove
  <2>5. Sum(Pending(writer', n), Writers) = 0 + Sum(Pending(writer', n), rest)
    <3>1. Pending(writer', n)[w] = 0
      BY <1>1, <1>4 DEF Pending
    <3>. QED BY <2>3, <3>1, EarmarkAssumption, SumRemove
  <2>6. Sum(Pending(writer, n), rest) = Sum(Pending(writer', n), rest)
    <3>1. \A v \in rest : Pending(writer', n)[v] = Pending(writer, n)[v]
      BY <1>4 DEF Pending
    <3>2. IsFiniteSet(rest)
      BY EarmarkAssumption, FS_RemoveElement
    <3>3. \A v \in rest : Pending(writer, n)[v] \in Int
      BY <2>3
    <3>. QED BY <3>1, <3>2, <3>3, SumSame
  <2>7. Sum(Pending(writer, n), rest) \in Int
    <3>1. IsFiniteSet(rest)
      BY EarmarkAssumption, FS_RemoveElement
    <3>. QED BY <2>3, <3>1, SumType
  <2>8. EarmarkedIn(earmarks', goals, n) \in Int /\ EarmarkedIn(earmarks, goals, n) \in Int
    BY <1>3, EarmarkedType DEF EarmarkTypes
  <2>9. EarmarkedIn(earmarks, goals, n) + Sum(Pending(writer, n), Writers) <= Cardinality(Writers) * snapshots[n].amount
    BY DEF OverdraftCovered
  <2>10. Cardinality(Writers) * snapshots[n].amount \in Int
    BY MostType DEF EarmarkTypes
  <2>. HIDE DEF rest
  <2>. QED BY <2>2, <2>4, <2>5, <2>6, <2>7, <2>8, <2>9, <2>10
<1>9. OverdraftCovered'
  BY <1>1, <1>8 DEF OverdraftCovered
<1>. QED BY <1>5, <1>6, <1>7, <1>9

\* Every step keeps the invariant.
LEMMA EarmarkStep == EarmarkInv /\ [ENext]_earmarkVars => EarmarkInv'
<1>. SUFFICES ASSUME EarmarkInv, [ENext]_earmarkVars PROVE EarmarkInv'
  OBVIOUS
<1>1. CASE UNCHANGED earmarkVars
  BY <1>1 DEF earmarkVars, EarmarkInv, EarmarkTypes, EarmarksRefer, SnapshotKeysUnique, PendingFits, OverdraftCovered
<1>2. CASE CreateGoal
  BY <1>2, CreateGoalStep
<1>3. ASSUME NEW w \in Writers, ConfirmInsert(w) \/ EditCommit(w) \/ EarmarkSum(w) \/ EarmarkInsert(w) PROVE EarmarkInv'
  BY <1>3, ConfirmInsertStep, EditCommitStep, EarmarkSumStep, EarmarkInsertStep
<1>. QED BY <1>1, <1>2, <1>3, RequestStep DEF ENext

\* The inductive invariant holds of every behaviour: what is earmarked on a position and what the handlers that
\* found room are about to add is within as many times the position as there are handlers.
THEOREM EarmarkInvariance == ESpec => []EarmarkInv
<1>1. EInit => EarmarkInv
  BY EarmarkStart
<1>. QED BY <1>1, EarmarkStep, PTL DEF ESpec

\* A confirmed key names one snapshot, and a position is overdrawn by concurrent handlers at most: the earmarks of
\* current goals on it stay within as many times its amount as handlers run at a time.
THEOREM EarmarksStayBounded == ESpec => []EarmarksHold
<1>1. EarmarkInv => EarmarksHold
  <2>. SUFFICES ASSUME EarmarkInv PROVE EarmarksHold
    OBVIOUS
  <2>. USE DEF EarmarkInv, EarmarkTypes
  <2>1. ASSUME NEW key \in ImportKeys PROVE Cardinality(Named(key)) <= 1
    <3>1. CASE Named(key) = {}
      BY <3>1, FS_EmptySet
    <3>2. CASE Named(key) # {}
      <4>1. PICK m : Named(key) = {m}
        BY <3>2 DEF Named, SnapshotKeysUnique
      <4>2. Cardinality({m}) = 1
        BY FS_Singleton
      <4>. QED BY <4>1, <4>2
    <3>. QED BY <3>1, <3>2
  <2>2. ASSUME NEW n \in DOMAIN snapshots PROVE Earmarked(n) <= Cardinality(Writers) * snapshots[n].amount
    <3>1. 0 <= Sum(Pending(writer, n), Writers)
      <4>1. \A w \in Writers : Pending(writer, n)[w] \in Int /\ 0 <= Pending(writer, n)[w]
        BY PendingTerms
      <4>. QED BY <4>1, SumNat, EarmarkAssumption
    <3>2. EarmarkedIn(earmarks, goals, n) \in Int /\ Sum(Pending(writer, n), Writers) \in Int
          /\ Cardinality(Writers) * snapshots[n].amount \in Int
      BY EarmarkedType, PendingType, MostType
    <3>3. EarmarkedIn(earmarks, goals, n) + Sum(Pending(writer, n), Writers) <= Cardinality(Writers) * snapshots[n].amount
      BY DEF OverdraftCovered
    <3>. QED BY <3>1, <3>2, <3>3, EarmarkedIs
  <2>. QED BY <2>1, <2>2 DEF EarmarksHold, OneSnapshotPerKey, OverdraftBounded
<1>. QED BY <1>1, EarmarkInvariance, PTL

-----------------------------------------------------------------------------
(* The model quota. *)

\* The values of the variables.
Reservation == [attempt : Attempts, cost : Costs, status : {"reserved", "committed", "released", "unknown_billing", "expired"},
                late : BOOLEAN, today : BOOLEAN]
Admitted == [at : {"admitted"}, attempt : Attempts, cost : Costs, today : BOOLEAN]
Calling == [at : {"calling"}, row : Nat]
CallerState == {NoCall} \cup Admitted \cup Calling

SchedulerTypes ==
  /\ reserved \in Seq(Reservation) /\ caller \in [Callers -> CallerState]
  /\ \A c \in Callers : caller[c].at = "calling" => caller[c].row \in DOMAIN reserved

\* What is or may be billed today, of any table of reservations.
BilledRows(rs) == {r \in DOMAIN rs : rs[r].today /\ rs[r].status \in {"committed", "unknown_billing"}}
BilledIn(rs) == Sum([r \in DOMAIN rs |-> rs[r].cost], BilledRows(rs))

\* What a caller may still come to be billed today: the call it is about to reserve, or has reserved.
Exposure(rs, cs) ==
  [c \in Callers |->
     IF cs[c].at = "admitted" THEN IF cs[c].today THEN cs[c].cost ELSE 0
     ELSE IF cs[c].at = "calling" /\ rs[cs[c].row].status = "reserved" /\ rs[cs[c].row].today THEN rs[cs[c].row].cost
     ELSE 0]

\* The cap, and what the other callers can reserve before the sum shows it.
Ceiling == Cap + (Cardinality(Callers) - 1) * Dearest

\* What is billed and what may come to be.
SpendCovered == BilledIn(reserved) + Sum(Exposure(reserved, caller), Callers) <= Ceiling

\* The inductive invariant.
SchedulerInv == SchedulerTypes /\ OnePerAttempt /\ SpendCovered

\* Estimates are numbers.
LEMMA CostsAreNumbers == \A e \in Costs : e \in Nat /\ e \in Int /\ 0 <= e
  BY SchedulerAssumption

\* The cost of a reservation is one.
LEMMA CostTerms ==
  ASSUME NEW rs \in Seq(Reservation)
  PROVE  \A r \in DOMAIN rs : rs[r].cost \in Int /\ 0 <= rs[r].cost
<1>1. \A x \in Reservation : x.cost \in Costs
  BY DEF Reservation
<1>. QED BY <1>1, ElementOf, CostsAreNumbers

\* There are finitely many reservations.
LEMMA RowsFinite ==
  ASSUME NEW rs \in Seq(Reservation), NEW S \in SUBSET DOMAIN rs
  PROVE  IsFiniteSet(S)
<1>1. IsFiniteSet(1 .. Len(rs))
  BY FS_Interval, ElementOf
<1>. QED BY <1>1, FS_Subset, ElementOf

\* The cost of some reservations is a number.
LEMMA CostSumType ==
  ASSUME NEW rs \in Seq(Reservation), NEW S \in SUBSET DOMAIN rs
  PROVE  Sum([r \in DOMAIN rs |-> rs[r].cost], S) \in Int
<1>. DEFINE w == [r \in DOMAIN rs |-> rs[r].cost]
<1>1. \A r \in S : w[r] \in Int
  BY CostTerms
<1>2. IsFiniteSet(S)
  BY RowsFinite
<1>3. Sum(w, S) \in Int
  <2>. HIDE DEF w
  <2>. QED BY <1>1, <1>2, SumType
<1>. QED BY <1>3

\* What is billed is a number.
LEMMA BilledType == ASSUME NEW rs \in Seq(Reservation) PROVE BilledIn(rs) \in Int
<1>1. BilledRows(rs) \in SUBSET DOMAIN rs
  BY DEF BilledRows
<1>. QED BY <1>1, CostSumType DEF BilledIn

\* At most the row x is billed that was not billed before.
LEMMA BilledGrows ==
  ASSUME NEW rs \in Seq(Reservation), NEW qs \in Seq(Reservation), NEW x,
         \A r \in BilledRows(qs) \ {x} : r \in BilledRows(rs) /\ qs[r].cost = rs[r].cost
  PROVE  BilledIn(qs) <= BilledIn(rs) + IF x \in BilledRows(qs) THEN qs[x].cost ELSE 0
<1>. DEFINE w == [r \in DOMAIN rs |-> rs[r].cost]
            v == [r \in DOMAIN qs |-> qs[r].cost]
            S == BilledRows(rs)
            T == BilledRows(qs)
<1>1. IsFiniteSet(S) /\ S \subseteq DOMAIN rs /\ IsFiniteSet(T) /\ T \subseteq DOMAIN qs /\ T \ {x} \subseteq S
  <2>1. S \in SUBSET DOMAIN rs /\ T \in SUBSET DOMAIN qs
    BY DEF BilledRows
  <2>. QED BY <2>1, RowsFinite
<1>2. \A r \in S : w[r] \in Int /\ 0 <= w[r]
  BY <1>1, CostTerms
<1>3. \A r \in T : v[r] \in Int
  BY <1>1, CostTerms
<1>4. \A r \in T \ {x} : v[r] = w[r]
  BY <1>1
<1>5. x \in T => v[x] = qs[x].cost
  BY <1>1
<1>6. BilledIn(qs) = Sum(v, T) /\ BilledIn(rs) = Sum(w, S)
  BY DEF BilledIn
<1>. HIDE DEF v, w, S, T
<1>7. IsFiniteSet(T \ {x}) /\ \A r \in T \ {x} : v[r] \in Int /\ v[r] <= w[r]
  BY <1>1, <1>2, <1>3, <1>4, FS_RemoveElement
<1>8. Sum(v, T \ {x}) <= Sum(w, S)
  BY <1>1, <1>2, <1>3, <1>7, SumMonotone
<1>9. Sum(v, T \ {x}) \in Int /\ Sum(w, S) \in Int
  BY <1>1, <1>2, <1>7, SumType
<1>10. CASE x \in T
  <2>1. Sum(v, T) = v[x] + Sum(v, T \ {x})
    BY <1>1, <1>3, <1>10, SumRemove
  <2>. QED BY <1>3, <1>5, <1>6, <1>8, <1>9, <1>10, <2>1 DEF T
<1>11. CASE x \notin T
  <2>1. T \ {x} = T
    BY <1>11
  <2>2. Sum(v, T) <= Sum(w, S) /\ Sum(v, T) \in Int
    BY <1>8, <1>9, <2>1
  <2>. QED BY <1>6, <1>9, <1>11, <2>2 DEF T
<1>. QED BY <1>10, <1>11

\* What a caller is at says what it remembers.
LEMMA CallerKinds ==
  ASSUME NEW t \in CallerState
  PROVE  /\ t.at = "admitted" => t \in Admitted
         /\ t.at = "calling" => t \in Calling
         /\ t = NoCall => t.at = "free"
  BY DEF CallerState, NoCall, Admitted, Calling

\* There is a dearest estimate, as there are finitely many.
LEMMA DearestIs == Dearest \in Costs /\ \A f \in Costs : f <= Dearest
<1>. DEFINE F == {T \in SUBSET Costs : T = {} \/ \E m \in T : \A f \in T : f <= m}
<1>1. ASSUME NEW T \in SUBSET Costs, \A U \in SUBSET T : U # T => U \in F PROVE T \in F
  <2>1. CASE T = {}
    BY <2>1
  <2>2. CASE T # {}
    <3>1. PICK x \in T : TRUE
      BY <2>2
    <3>2. T \ {x} \in F
      BY <1>1
    <3>3. \A f \in T : f \in Int
      BY CostsAreNumbers
    <3>4. CASE T \ {x} = {}
      BY <3>3, <3>4
    <3>5. CASE T \ {x} # {}
      <4>1. PICK m \in T \ {x} : \A f \in T \ {x} : f <= m
        BY <3>2, <3>5
      <4>2. CASE x <= m
        BY <4>1, <4>2
      <4>3. CASE m <= x
        <5>1. \A f \in T : f <= x
          BY <3>3, <4>1, <4>3
        <5>. QED BY <5>1
      <4>. QED BY <3>3, <4>2, <4>3
    <3>. QED BY <3>4, <3>5
  <2>. QED BY <2>1, <2>2
<1>2. \A T \in SUBSET Costs : T \in F
  <2>. HIDE DEF F
  <2>. QED BY <1>1, SubsetInduction, SchedulerAssumption
<1>3. \E m \in Costs : \A f \in Costs : f <= m
  BY <1>2, SchedulerAssumption
<1>. QED BY <1>3 DEF Dearest

\* No caller may come to be billed more than the dearest call.
LEMMA ExposureTerms ==
  ASSUME NEW rs \in Seq(Reservation), NEW cs \in [Callers -> CallerState],
         \A c \in Callers : cs[c].at = "calling" => cs[c].row \in DOMAIN rs
  PROVE  \A c \in Callers : /\ Exposure(rs, cs)[c] \in Int
                            /\ 0 <= Exposure(rs, cs)[c] /\ Exposure(rs, cs)[c] <= Dearest
<1>1. \A c \in Callers : Exposure(rs, cs)[c] \in Costs \cup {0}
  <2>1. ASSUME NEW c \in Callers, cs[c].at = "admitted" PROVE cs[c].cost \in Costs
    BY <2>1, CallerKinds DEF Admitted
  <2>2. ASSUME NEW c \in Callers, cs[c].at = "calling" PROVE rs[cs[c].row].cost \in Costs
    <3>1. rs[cs[c].row] \in Reservation
      BY <2>2, ElementOf
    <3>. QED BY <3>1 DEF Reservation
  <2>. QED BY <2>1, <2>2 DEF Exposure
<1>2. \A e \in Costs \cup {0} : e \in Int /\ 0 <= e /\ e <= Dearest
  BY CostsAreNumbers, DearestIs
<1>. QED BY <1>1, <1>2

\* What all of them may come to be billed is a number.
LEMMA ExposureType ==
  ASSUME SchedulerTypes
  PROVE  Sum(Exposure(reserved, caller), Callers) \in Int /\ 0 <= Sum(Exposure(reserved, caller), Callers)
<1>1. \A c \in Callers : Exposure(reserved, caller)[c] \in Int /\ 0 <= Exposure(reserved, caller)[c]
  BY ExposureTerms DEF SchedulerTypes
<1>. QED BY <1>1, SchedulerAssumption, SumType, SumNat

\* The bound is a number.
LEMMA CeilingType == Ceiling \in Int /\ Cap \in Int /\ Dearest \in Int /\ 0 <= Ceiling
                     /\ Cardinality(Callers) \in Nat /\ (Cardinality(Callers) - 1) * Dearest \in Int
<1>1. Dearest \in Nat /\ Cap \in Nat
  BY DearestIs, CostsAreNumbers, SchedulerAssumption
<1>2. Cardinality(Callers) \in Nat /\ Cardinality(Callers) # 0
  BY SchedulerAssumption, FS_CardinalityType, FS_EmptySet
<1>3. \A k, d \in Nat : k # 0 => (k - 1) * d \in Nat
  OBVIOUS
<1>4. (Cardinality(Callers) - 1) * Dearest \in Nat
  BY <1>1, <1>2, <1>3
<1>. QED BY <1>1, <1>2, <1>4 DEF Ceiling

\* The step keeps the bound when nothing more is billed and no caller may come to be billed more.
LEMMA NoMoreSpent ==
  ASSUME SchedulerInv, SchedulerTypes', BilledIn(reserved') <= BilledIn(reserved),
         \A c \in Callers : Exposure(reserved', caller')[c] <= Exposure(reserved, caller)[c]
  PROVE  SpendCovered'
<1>1. Sum(Exposure(reserved', caller'), Callers) <= Sum(Exposure(reserved, caller), Callers)
  <2>1. \A c \in Callers : Exposure(reserved, caller)[c] \in Int
    BY ExposureTerms DEF SchedulerInv, SchedulerTypes
  <2>2. \A c \in Callers : Exposure(reserved', caller')[c] \in Int
    BY ExposureTerms DEF SchedulerInv, SchedulerTypes
  <2>. QED BY <2>1, <2>2, SchedulerAssumption, SumMonotone
<1>2. Sum(Exposure(reserved', caller'), Callers) \in Int /\ Sum(Exposure(reserved, caller), Callers) \in Int
  <2>1. Sum(Exposure(reserved, caller), Callers) \in Int
    BY ExposureType DEF SchedulerInv
  <2>2. \A c \in Callers : Exposure(reserved', caller')[c] \in Int
    BY ExposureTerms DEF SchedulerTypes
  <2>. QED BY <2>1, <2>2, SchedulerAssumption, SumType
<1>3. BilledIn(reserved') \in Int /\ BilledIn(reserved) \in Int
  BY BilledType DEF SchedulerInv, SchedulerTypes
<1>4. BilledIn(reserved) + Sum(Exposure(reserved, caller), Callers) <= Ceiling
  BY DEF SchedulerInv, SpendCovered
<1>5. BilledIn(reserved') + Sum(Exposure(reserved', caller'), Callers) <= Ceiling
  BY <1>1, <1>2, <1>3, <1>4, CeilingType
<1>. QED BY <1>5 DEF SpendCovered, Ceiling

\* At first nothing is reserved.
LEMMA SchedulerStart == ASSUME SchInit PROVE SchedulerInv
<1>. USE DEF SchInit
<1>1. SchedulerTypes /\ OnePerAttempt
  BY DEF SchedulerTypes, OnePerAttempt, CallerState, NoCall
<1>2. BilledIn(reserved) = 0
  <2>1. BilledRows(reserved) = {}
    BY DEF BilledRows
  <2>. QED BY <2>1, SumEmpty DEF BilledIn
<1>3. Sum(Exposure(reserved, caller), Callers) <= Cardinality(Callers) * 0
  <2>1. \A c \in Callers : Exposure(reserved, caller)[c] \in Int /\ Exposure(reserved, caller)[c] <= 0
    BY DEF Exposure, NoCall
  <2>. DEFINE p == Exposure(reserved, caller)
  <2>2. IsFiniteSet(Callers) /\ 0 \in Int
    BY SchedulerAssumption
  <2>3. \A d \in Callers : p[d] \in Int /\ p[d] <= 0
    BY <2>1
  <2>4. Sum(p, Callers) <= Cardinality(Callers) * 0
    <3>. HIDE DEF p
    <3>. QED BY <2>2, <2>3, SumBound
  <2>. QED BY <2>4
<1>4. SpendCovered
  BY <1>1, <1>2, <1>3, ExposureType, CeilingType DEF SpendCovered
<1>. QED BY <1>1, <1>4 DEF SchedulerInv

\* The sum that was read is within the cap, and every other caller may come to be billed one call at most.
LEMMA AdmitStep == ASSUME SchedulerInv, NEW c \in Callers, Admit(c) PROVE SchedulerInv'
<1>. USE DEF SchedulerInv
<1>0. PICK a \in Attempts, e \in Costs :
        /\ CostOf(Counted) + e <= Cap
        /\ caller' = [caller EXCEPT ![c] = [at |-> "admitted", attempt |-> a, cost |-> e, today |-> TRUE]]
  BY DEF Admit
<1>1. reserved' = reserved /\ reserved \in Seq(Reservation) /\ caller \in [Callers -> CallerState]
  BY DEF Admit, SchedulerTypes
<1>. DEFINE t == [at |-> "admitted", attempt |-> a, cost |-> e, today |-> TRUE]
<1>2. t \in CallerState /\ t.at = "admitted" /\ t.cost = e /\ t.today
  BY DEF CallerState, Admitted
<1>3. caller' \in [Callers -> CallerState] /\ caller'[c] = t /\ \A d \in Callers : d # c => caller'[d] = caller[d]
  BY <1>0, <1>1, <1>2
<1>. HIDE DEF t
<1>4. SchedulerTypes' /\ OnePerAttempt'
  BY <1>1, <1>2, <1>3 DEF SchedulerTypes, OnePerAttempt
<1>. DEFINE p == Exposure(reserved, caller')
            rest == Callers \ {c}
<1>5. \A d \in Callers : p[d] \in Int /\ 0 <= p[d] /\ p[d] <= Dearest
  BY <1>1, <1>4, ExposureTerms DEF SchedulerTypes
<1>6. p[c] = e /\ e \in Int
  BY <1>2, <1>3, CostsAreNumbers DEF Exposure
<1>7. IsFiniteSet(rest) /\ Cardinality(rest) = Cardinality(Callers) - 1
  BY SchedulerAssumption, FS_RemoveElement
<1>8. Sum(p, Callers) = e + Sum(p, rest)
  <2>. HIDE DEF p
  <2>. QED BY <1>5, <1>6, SchedulerAssumption, SumRemove
<1>9. Sum(p, rest) <= (Cardinality(Callers) - 1) * Dearest /\ Sum(p, rest) \in Int
  <2>1. \A d \in rest : p[d] \in Int /\ p[d] <= Dearest
    BY <1>5
  <2>. HIDE DEF p, rest
  <2>2. Sum(p, rest) <= Cardinality(rest) * Dearest
    BY <1>7, <2>1, CeilingType, SumBound
  <2>. QED BY <1>7, <2>1, <2>2, SumType
<1>10. BilledIn(reserved) <= CostOf(Counted) /\ BilledIn(reserved) \in Int /\ CostOf(Counted) \in Int
  <2>. DEFINE w == [r \in DOMAIN reserved |-> reserved[r].cost]
  <2>1. BilledRows(reserved) \subseteq Counted /\ Counted \in SUBSET DOMAIN reserved
    BY DEF BilledRows, Counted
  <2>2. \A r \in Counted : w[r] \in Int /\ 0 <= w[r]
    BY <1>1, <2>1, CostTerms
  <2>3. IsFiniteSet(Counted)
    BY <1>1, <2>1, RowsFinite
  <2>4. Sum(w, BilledRows(reserved)) <= Sum(w, Counted) /\ Sum(w, Counted) \in Int
    <3>1. \A r \in BilledRows(reserved) : w[r] \in Int /\ w[r] <= w[r]
      <4>. HIDE DEF w
      <4>. QED BY <2>1, <2>2
    <3>. HIDE DEF w
    <3>. QED BY <2>1, <2>2, <2>3, <3>1, SumMonotone, SumType
  <2>. QED BY <1>1, <2>4, BilledType DEF BilledIn, CostOf, Sum
<1>11. BilledIn(reserved) + Sum(p, Callers) <= Ceiling
  <2>. HIDE DEF p, rest
  <2>. QED BY <1>0, <1>6, <1>8, <1>9, <1>10, CeilingType DEF Ceiling
<1>12. SpendCovered'
  BY <1>1, <1>11 DEF SpendCovered, Ceiling
<1>. QED BY <1>4, <1>12

\* A caller that stops, its row and those of the others staying as they are, is not billed any more.
LEMMA CallerStops ==
  ASSUME SchedulerInv, NEW c \in Callers, reserved' = reserved, caller' = [caller EXCEPT ![c] = NoCall]
  PROVE  SchedulerInv'
<1>. USE DEF SchedulerInv
<1>1. reserved \in Seq(Reservation) /\ caller \in [Callers -> CallerState] /\ NoCall \in CallerState /\ NoCall.at = "free"
  BY DEF SchedulerTypes, CallerState, NoCall
<1>2. SchedulerTypes' /\ OnePerAttempt'
  BY <1>1 DEF SchedulerTypes, OnePerAttempt
<1>3. \A d \in Callers : Exposure(reserved', caller')[d] <= Exposure(reserved, caller)[d]
  <2>1. \A d \in Callers : Exposure(reserved, caller)[d] \in Int /\ 0 <= Exposure(reserved, caller)[d]
    BY ExposureTerms DEF SchedulerTypes
  <2>2. Exposure(reserved', caller')[c] = 0
    BY <1>1 DEF Exposure
  <2>3. \A d \in Callers : d # c => Exposure(reserved', caller')[d] = Exposure(reserved, caller)[d]
    BY <1>1 DEF Exposure
  <2>4. ASSUME NEW d \in Callers PROVE Exposure(reserved', caller')[d] <= Exposure(reserved, caller)[d]
    <3>1. CASE d = c
      BY <2>1, <2>2, <3>1
    <3>2. CASE d # c
      <4>1. \A a, b : a \in Int /\ b = a => b <= a
        OBVIOUS
      <4>. QED BY <2>1, <2>3, <3>2, <4>1
    <3>. QED BY <3>1, <3>2
  <2>. QED BY <2>4
<1>4. BilledIn(reserved') <= BilledIn(reserved)
  BY <1>1, BilledType
<1>. QED BY <1>2, <1>3, <1>4, NoMoreSpent

\* A row is inserted: its caller has been counted with it since it was admitted.
LEMMA ReserveStep == ASSUME SchedulerInv, NEW c \in Callers, Reserve(c) PROVE SchedulerInv'
<1>. USE DEF SchedulerInv
<1>1. CASE Inserted(caller[c].attempt)
  BY <1>1, CallerStops DEF Reserve
<1>2. CASE ~ Inserted(caller[c].attempt)
  <2>. DEFINE x == [attempt |-> caller[c].attempt, cost |-> caller[c].cost, status |-> "reserved", late |-> FALSE,
                    today |-> caller[c].today]
              new == Len(reserved) + 1
              t == [at |-> "calling", row |-> new]
  <2>0. reserved' = Append(reserved, x) /\ caller' = [caller EXCEPT ![c] = t]
    BY <1>2 DEF Reserve
  <2>1. reserved \in Seq(Reservation) /\ caller \in [Callers -> CallerState] /\ caller[c].at = "admitted" /\ caller[c] \in Admitted
    BY CallerKinds DEF Reserve, SchedulerTypes
  <2>2. x \in Reservation /\ x.cost = caller[c].cost /\ x.today = caller[c].today /\ x.status = "reserved" /\ x.attempt = caller[c].attempt
    BY <2>1 DEF Reservation, Admitted
  <2>. HIDE DEF x
  <2>3. /\ reserved' \in Seq(Reservation) /\ DOMAIN reserved' = DOMAIN reserved \cup {new} /\ new \notin DOMAIN reserved
        /\ (\A i \in DOMAIN reserved : reserved'[i] = reserved[i]) /\ reserved'[new] = x
    BY <2>0, <2>1, <2>2, AppendShape
  <2>4. t \in CallerState /\ t.at = "calling" /\ t.row = new
    BY <2>1, ElementOf DEF CallerState, Calling
  <2>5. caller' \in [Callers -> CallerState] /\ caller'[c] = t /\ \A d \in Callers : d # c => caller'[d] = caller[d]
    BY <2>0, <2>1, <2>4
  <2>. HIDE DEF t, new
  <2>6. SchedulerTypes'
    BY <2>3, <2>4, <2>5 DEF SchedulerTypes
  <2>7. OnePerAttempt'
    BY <1>2, <2>2, <2>3 DEF OnePerAttempt, Inserted
  <2>8. BilledIn(reserved') <= BilledIn(reserved)
    <3>1. \A r \in BilledRows(reserved') \ {new} : r \in BilledRows(reserved) /\ reserved'[r].cost = reserved[r].cost
      BY <2>3 DEF BilledRows
    <3>2. new \notin BilledRows(reserved')
      BY <2>2, <2>3 DEF BilledRows
    <3>3. BilledIn(reserved') <= BilledIn(reserved) + 0
      BY <2>1, <2>3, <3>1, <3>2, BilledGrows
    <3>. QED BY <2>1, <3>3, BilledType
  <2>9. ASSUME NEW d \in Callers PROVE Exposure(reserved', caller')[d] <= Exposure(reserved, caller)[d]
    <3>1. Exposure(reserved, caller)[d] \in Int
      BY ExposureTerms DEF SchedulerTypes
    <3>2. CASE d = c
      <4>1. Exposure(reserved', caller')[d] = IF x.today THEN x.cost ELSE 0
        BY <2>2, <2>3, <2>4, <2>5, <3>2 DEF Exposure
      <4>2. Exposure(reserved, caller)[d] = IF x.today THEN x.cost ELSE 0
        BY <2>1, <2>2, <3>2 DEF Exposure
      <4>. QED BY <3>1, <4>1, <4>2
    <3>3. CASE d # c
      <4>1. caller[d].at = "calling" => reserved'[caller[d].row] = reserved[caller[d].row]
        BY <2>3 DEF SchedulerTypes
      <4>2. Exposure(reserved', caller')[d] = Exposure(reserved, caller)[d]
        BY <2>5, <3>3, <4>1 DEF Exposure
      <4>. QED BY <3>1, <4>2
    <3>. QED BY <3>2, <3>3
  <2>10. SpendCovered'
    BY <2>6, <2>8, <2>9, NoMoreSpent
  <2>. QED BY <2>6, <2>7, <2>10
<1>. QED BY <1>1, <1>2

\* A row becomes one that is billed no more than it was.
Aged(x, y) ==
  /\ y \in Reservation /\ y.attempt = x.attempt /\ y.cost = x.cost /\ (y.today => x.today)
  /\ y.status # x.status => y.status \in {"released", "expired"}

\* The rows change in nothing that is billed, and none becomes one that may be.
LEMMA RowsAge ==
  ASSUME SchedulerInv, reserved' \in Seq(Reservation), DOMAIN reserved' = DOMAIN reserved,
         caller' \in [Callers -> CallerState],
         \A r \in DOMAIN reserved : Aged(reserved[r], reserved'[r]),
         \A c \in Callers : \/ caller'[c] = caller[c]
                            \/ caller'[c].at = "admitted" /\ ~ caller'[c].today
                            \/ caller'[c].at = "free"
  PROVE  SchedulerInv'
<1>. USE DEF SchedulerInv, Aged
<1>1. SchedulerTypes' /\ OnePerAttempt'
  BY DEF SchedulerTypes, OnePerAttempt
<1>2. BilledIn(reserved') <= BilledIn(reserved)
  <2>1. \A r \in BilledRows(reserved') \ {0} : r \in BilledRows(reserved) /\ reserved'[r].cost = reserved[r].cost
    BY DEF BilledRows
  <2>2. 0 \notin BilledRows(reserved')
    BY ElementOf DEF BilledRows
  <2>3. BilledIn(reserved') <= BilledIn(reserved) + 0
    BY <2>1, <2>2, BilledGrows DEF SchedulerTypes
  <2>. QED BY <2>3, BilledType DEF SchedulerTypes
<1>3. ASSUME NEW d \in Callers PROVE Exposure(reserved', caller')[d] <= Exposure(reserved, caller)[d]
  <2>1. Exposure(reserved, caller)[d] \in Int /\ 0 <= Exposure(reserved, caller)[d]
    BY ExposureTerms DEF SchedulerTypes
  <2>2. CASE caller'[d] = caller[d]
    <3>1. CASE caller[d].at = "calling"
      <4>. DEFINE r == caller[d].row
      <4>1. r \in DOMAIN reserved
        BY <3>1 DEF SchedulerTypes
      <4>2. reserved'[r].status = "reserved" /\ reserved'[r].today => reserved[r].status = "reserved" /\ reserved[r].today
        BY <4>1
      <4>3. reserved'[r].cost = reserved[r].cost
        BY <4>1
      <4>4. Exposure(reserved', caller')[d] = IF reserved'[r].status = "reserved" /\ reserved'[r].today THEN reserved[r].cost ELSE 0
        BY <2>2, <3>1, <4>3 DEF Exposure
      <4>5. Exposure(reserved, caller)[d] = IF reserved[r].status = "reserved" /\ reserved[r].today THEN reserved[r].cost ELSE 0
        BY <3>1 DEF Exposure
      <4>. QED BY <2>1, <4>2, <4>4, <4>5
    <3>2. CASE caller[d].at # "calling"
      <4>1. Exposure(reserved', caller')[d] = Exposure(reserved, caller)[d]
        BY <2>2, <3>2 DEF Exposure
      <4>. QED BY <2>1, <4>1
    <3>. QED BY <3>1, <3>2
  <2>3. CASE (caller'[d].at = "admitted" /\ ~ caller'[d].today) \/ caller'[d].at = "free"
    <3>1. Exposure(reserved', caller')[d] = 0
      BY <2>3 DEF Exposure
    <3>. QED BY <2>1, <3>1
  <2>. QED BY <2>2, <2>3
<1>4. SpendCovered'
  BY <1>1, <1>2, <1>3, NoMoreSpent
<1>. QED BY <1>1, <1>4

\* A row is settled: its status is another, all else of it as it was.
Changed(x, y, st) ==
  y \in Reservation /\ y.attempt = x.attempt /\ y.cost = x.cost /\ y.today = x.today /\ y.status = st

\* A row that is settled, late or of an earlier day is a row.
LEMMA RowChange ==
  ASSUME NEW r \in Reservation, NEW st \in {"reserved", "committed", "released", "unknown_billing", "expired"}
  PROVE  /\ [r EXCEPT !.status = st] \in Reservation /\ [r EXCEPT !.status = st].status = st
         /\ [r EXCEPT !.status = st].attempt = r.attempt /\ [r EXCEPT !.status = st].cost = r.cost
         /\ [r EXCEPT !.status = st].today = r.today
         /\ [r EXCEPT !.late = TRUE] \in Reservation /\ [r EXCEPT !.late = TRUE].status = r.status
         /\ [r EXCEPT !.late = TRUE].attempt = r.attempt /\ [r EXCEPT !.late = TRUE].cost = r.cost
         /\ [r EXCEPT !.late = TRUE].today = r.today
         /\ [r EXCEPT !.today = FALSE] \in Reservation /\ [r EXCEPT !.today = FALSE].status = r.status
         /\ [r EXCEPT !.today = FALSE].attempt = r.attempt /\ [r EXCEPT !.today = FALSE].cost = r.cost
         /\ ~ [r EXCEPT !.today = FALSE].today
  BY DEF Reservation

\* The call is over: what it costs is billed now, or was never made, and its caller is exposed no more.
LEMMA ReconcileStep == ASSUME SchedulerInv, NEW c \in Callers, Reconcile(c) PROVE SchedulerInv'
<1>. USE DEF SchedulerInv
<1>. DEFINE x == caller[c].row
<1>0. PICK st \in {"committed", "released", "unknown_billing"} : reserved' = Settle(x, st) /\ caller' = [caller EXCEPT ![c] = NoCall]
  BY DEF Reconcile
<1>1. CASE reserved[x].status # "reserved"
  BY <1>0, <1>1, CallerStops DEF Settle
<1>2. CASE reserved[x].status = "reserved"
  <2>1. /\ reserved \in Seq(Reservation) /\ caller \in [Callers -> CallerState] /\ x \in DOMAIN reserved /\ reserved[x] \in Reservation
        /\ caller[c].at = "calling" /\ NoCall \in CallerState /\ NoCall.at = "free"
    BY ElementOf DEF Reconcile, SchedulerTypes, CallerState, NoCall
  <2>2. reserved' = [reserved EXCEPT ![x].status = st]
    BY <1>0, <1>2 DEF Settle
  <2>3. /\ reserved' = [r \in DOMAIN reserved |-> reserved'[r]]
        /\ reserved'[x] = [reserved[x] EXCEPT !.status = st] /\ \A r \in DOMAIN reserved : r # x => reserved'[r] = reserved[r]
    BY <2>1, <2>2
  <2>4. /\ reserved'[x] \in Reservation /\ reserved'[x].attempt = reserved[x].attempt /\ reserved'[x].cost = reserved[x].cost
        /\ reserved'[x].today = reserved[x].today /\ reserved'[x].status = st
    <3>1. PICK z : z = reserved[x] /\ z \in Reservation
      BY <2>1
    <3>2. st \in {"reserved", "committed", "released", "unknown_billing", "expired"}
      OBVIOUS
    <3>3. Changed(z, [z EXCEPT !.status = st], st)
      BY <3>1, <3>2 DEF Changed, Reservation
    <3>4. Changed(reserved[x], reserved'[x], st)
      BY <2>3, <3>1, <3>3
    <3>. QED BY <3>4 DEF Changed
  <2>5. reserved' \in Seq(Reservation) /\ DOMAIN reserved' = DOMAIN reserved
    <3>1. \A r \in DOMAIN reserved : reserved'[r] \in Reservation
      BY <2>1, <2>3, <2>4, ElementOf
    <3>. QED BY <2>1, <2>3, <3>1, ChangedInPlace
  <2>6. caller' \in [Callers -> CallerState] /\ caller'[c] = NoCall /\ \A d \in Callers : d # c => caller'[d] = caller[d]
    BY <1>0, <2>1
  <2>. HIDE DEF x
  <2>7. SchedulerTypes'
    BY <2>1, <2>5, <2>6 DEF SchedulerTypes
  <2>8. OnePerAttempt'
    <3>1. \A r \in DOMAIN reserved : reserved'[r].attempt = reserved[r].attempt
      BY <2>3, <2>4
    <3>. QED BY <2>5, <3>1 DEF OnePerAttempt
  <2>. DEFINE p == Exposure(reserved, caller)
              q == Exposure(reserved', caller')
              rest == Callers \ {c}
  <2>9. \A d \in Callers : p[d] \in Int /\ q[d] \in Int
    BY <2>7, ExposureTerms DEF SchedulerTypes
  <2>10. q[c] = 0 /\ p[c] = IF reserved[x].today THEN reserved[x].cost ELSE 0
    BY <1>2, <2>1, <2>6 DEF Exposure, x
  <2>11. ASSUME NEW d \in rest PROVE q[d] <= p[d]
    <3>1. CASE caller[d].at = "calling" /\ caller[d].row = x
      <4>1. q[d] = 0
        BY <1>0, <2>4, <2>6, <3>1 DEF Exposure
      <4>2. 0 <= p[d]
        BY ExposureTerms DEF SchedulerTypes
      <4>. QED BY <4>1, <4>2
    <3>2. CASE ~ (caller[d].at = "calling" /\ caller[d].row = x)
      <4>1. caller[d].at = "calling" => reserved'[caller[d].row] = reserved[caller[d].row]
        BY <2>3, <3>2 DEF SchedulerTypes
      <4>2. q[d] = p[d]
        BY <2>6, <4>1 DEF Exposure
      <4>. HIDE DEF p, q
      <4>3. \A a, b : a \in Int /\ b = a => b <= a
        OBVIOUS
      <4>. QED BY <2>9, <4>2, <4>3
    <3>. QED BY <3>1, <3>2
  <2>12. IsFiniteSet(rest)
    BY SchedulerAssumption, FS_RemoveElement
  <2>13. Sum(p, Callers) = p[c] + Sum(p, rest) /\ Sum(q, Callers) = q[c] + Sum(q, rest)
    <3>. HIDE DEF p, q
    <3>. QED BY <2>9, SchedulerAssumption, SumRemove
  <2>14. Sum(q, rest) <= Sum(p, rest) /\ Sum(q, rest) \in Int /\ Sum(p, rest) \in Int
    <3>. HIDE DEF p, q
    <3>1. \A d \in rest : p[d] \in Int /\ q[d] \in Int
      BY <2>9
    <3>. HIDE DEF rest
    <3>. QED BY <2>11, <2>12, <3>1, SumMonotone, SumType
  <2>15. BilledIn(reserved') <= BilledIn(reserved) + p[c]
    <3>1. \A r \in BilledRows(reserved') \ {x} : r \in BilledRows(reserved) /\ reserved'[r].cost = reserved[r].cost
      BY <2>3, <2>5 DEF BilledRows
    <3>2. BilledIn(reserved') <= BilledIn(reserved) + IF x \in BilledRows(reserved') THEN reserved'[x].cost ELSE 0
      BY <2>1, <2>5, <3>1, BilledGrows
    <3>3. x \in BilledRows(reserved') => reserved[x].today
      BY <2>4 DEF BilledRows
    <3>4. (IF x \in BilledRows(reserved') THEN reserved'[x].cost ELSE 0) \in {0, reserved[x].cost}
      BY <2>4
    <3>5. BilledIn(reserved) \in Int /\ BilledIn(reserved') \in Int /\ reserved[x].cost \in Int /\ 0 <= reserved[x].cost
      BY <2>1, <2>5, BilledType, CostTerms
    <3>6. PICK z : z = IF x \in BilledRows(reserved') THEN reserved'[x].cost ELSE 0
      OBVIOUS
    <3>7. z \in Int /\ z <= p[c]
      <4>1. CASE x \in BilledRows(reserved')
        BY <2>4, <2>10, <3>3, <3>5, <3>6, <4>1
      <4>2. CASE x \notin BilledRows(reserved')
        BY <2>10, <3>5, <3>6, <4>2
      <4>. QED BY <4>1, <4>2
    <3>8. p[c] \in Int
      BY <2>9
    <3>. HIDE DEF p
    <3>. QED BY <3>2, <3>5, <3>6, <3>7, <3>8
  <2>16. BilledIn(reserved) + Sum(p, Callers) <= Ceiling
    BY DEF SpendCovered
  <2>17. BilledIn(reserved') + Sum(q, Callers) <= Ceiling
    <3>1. BilledIn(reserved) \in Int /\ BilledIn(reserved') \in Int
      BY <2>1, <2>5, BilledType
    <3>2. p[c] \in Int /\ q[c] = 0
      BY <2>9, <2>10
    <3>. HIDE DEF p, q, rest
    <3>. QED BY <2>13, <2>14, <2>15, <2>16, <3>1, <3>2, CeilingType
  <2>18. SpendCovered'
    BY <2>17 DEF SpendCovered, Ceiling
  <2>. QED BY <2>7, <2>8, <2>18
<1>. QED BY <1>1, <1>2

\* Reservations whose time is up are expired.
LEMMA ExpireStaleStep == ASSUME SchedulerInv, ExpireStale PROVE SchedulerInv'
<1>. USE DEF SchedulerInv
<1>1. reserved \in Seq(Reservation) /\ caller' = caller /\ caller \in [Callers -> CallerState]
  BY DEF ExpireStale, SchedulerTypes
<1>2. /\ reserved' = [r \in DOMAIN reserved |-> reserved'[r]]
      /\ \A r \in DOMAIN reserved : reserved'[r] = [reserved[r] EXCEPT !.status = "expired"] \/ reserved'[r] = reserved[r]
  BY DEF ExpireStale
<1>3. ASSUME NEW r \in DOMAIN reserved PROVE Aged(reserved[r], reserved'[r])
  <2>1. PICK x : x = reserved[r] /\ x \in Reservation
    BY <1>1, ElementOf
  <2>2. PICK y : y = [x EXCEPT !.status = "expired"]
    OBVIOUS
  <2>3. Aged(x, x) /\ Aged(x, y)
    BY <2>1, <2>2, RowChange DEF Aged
  <2>4. reserved'[r] \in {x, y}
    BY <1>2, <2>1, <2>2
  <2>. QED BY <2>1, <2>3, <2>4
<1>4. reserved' \in Seq(Reservation) /\ DOMAIN reserved' = DOMAIN reserved
  <2>1. \A r \in DOMAIN reserved : reserved'[r] \in Reservation
    BY <1>3 DEF Aged
  <2>. QED BY <1>1, <1>2, <2>1, ChangedInPlace
<1>. QED BY <1>1, <1>3, <1>4, RowsAge

\* The time of a reservation passes.
LEMMA TimeIsUpStep == ASSUME SchedulerInv, TimeIsUp PROVE SchedulerInv'
<1>. USE DEF SchedulerInv
<1>1. reserved \in Seq(Reservation) /\ caller' = caller /\ caller \in [Callers -> CallerState]
  BY DEF TimeIsUp, SchedulerTypes
<1>2. /\ reserved' = [r \in DOMAIN reserved |-> reserved'[r]]
      /\ \A r \in DOMAIN reserved : reserved'[r] = [reserved[r] EXCEPT !.late = TRUE] \/ reserved'[r] = reserved[r]
  BY <1>1 DEF TimeIsUp
<1>3. ASSUME NEW r \in DOMAIN reserved PROVE Aged(reserved[r], reserved'[r])
  <2>1. PICK x : x = reserved[r] /\ x \in Reservation
    BY <1>1, ElementOf
  <2>2. PICK y : y = [x EXCEPT !.late = TRUE]
    OBVIOUS
  <2>3. Aged(x, x) /\ Aged(x, y)
    BY <2>1, <2>2, RowChange DEF Aged
  <2>4. reserved'[r] \in {x, y}
    BY <1>2, <2>1, <2>2
  <2>. QED BY <2>1, <2>3, <2>4
<1>4. reserved' \in Seq(Reservation) /\ DOMAIN reserved' = DOMAIN reserved
  <2>1. \A r \in DOMAIN reserved : reserved'[r] \in Reservation
    BY <1>3 DEF Aged
  <2>. QED BY <1>1, <1>2, <2>1, ChangedInPlace
<1>. QED BY <1>1, <1>3, <1>4, RowsAge

\* What is reserved, or about to be, is of yesterday now.
LEMMA MidnightStep == ASSUME SchedulerInv, Midnight PROVE SchedulerInv'
<1>. USE DEF SchedulerInv
<1>1. reserved \in Seq(Reservation) /\ caller \in [Callers -> CallerState]
  BY DEF SchedulerTypes
<1>2. /\ reserved' = [r \in DOMAIN reserved |-> reserved'[r]]
      /\ \A r \in DOMAIN reserved : reserved'[r] = [reserved[r] EXCEPT !.today = FALSE]
  BY DEF Midnight
<1>3. ASSUME NEW r \in DOMAIN reserved PROVE Aged(reserved[r], reserved'[r])
  <2>1. PICK x : x = reserved[r] /\ x \in Reservation
    BY <1>1, ElementOf
  <2>2. PICK y : y = [x EXCEPT !.today = FALSE]
    OBVIOUS
  <2>3. Aged(x, x) /\ Aged(x, y)
    BY <2>1, <2>2, RowChange DEF Aged
  <2>4. reserved'[r] \in {x, y}
    BY <1>2, <2>1, <2>2
  <2>. QED BY <2>1, <2>3, <2>4
<1>4. reserved' \in Seq(Reservation) /\ DOMAIN reserved' = DOMAIN reserved
  <2>1. \A r \in DOMAIN reserved : reserved'[r] \in Reservation
    BY <1>3 DEF Aged
  <2>. QED BY <1>1, <1>2, <2>1, ChangedInPlace
<1>6. ASSUME NEW c \in Callers, caller[c].at = "admitted"
      PROVE  caller'[c] \in CallerState /\ caller'[c].at = "admitted" /\ ~ caller'[c].today
  <2>1. caller[c] \in Admitted
    BY <1>1, <1>6, CallerKinds
  <2>2. caller'[c] = [caller[c] EXCEPT !.today = FALSE]
    BY <1>6 DEF Midnight
  <2>. QED BY <2>1, <2>2 DEF Admitted, CallerState
<1>7. \A c \in Callers : caller[c].at # "admitted" => caller'[c] = caller[c]
  BY DEF Midnight
<1>8. caller' \in [Callers -> CallerState]
  <2>1. caller' = [c \in Callers |-> caller'[c]]
    BY DEF Midnight
  <2>2. \A c \in Callers : caller'[c] \in CallerState
    BY <1>1, <1>6, <1>7
  <2>. QED BY <2>1, <2>2
<1>. QED BY <1>3, <1>4, <1>6, <1>7, <1>8, RowsAge

\* Every step keeps the invariant.
LEMMA SchedulerStep == ASSUME SchedulerInv, [SchNext]_schedulerVars PROVE SchedulerInv'
<1>1. ASSUME NEW c \in Callers, CallerDies(c) PROVE SchedulerInv'
  BY <1>1, CallerStops DEF CallerDies
<1>2. ASSUME UNCHANGED schedulerVars PROVE SchedulerInv'
  <2>1. reserved' = reserved /\ caller' = caller
    BY <1>2 DEF schedulerVars
  <2>. QED BY <2>1 DEF SchedulerInv, SchedulerTypes, OnePerAttempt, SpendCovered, Ceiling
<1>. QED BY <1>1, <1>2, AdmitStep, ReserveStep, ReconcileStep, ExpireStaleStep, TimeIsUpStep, MidnightStep DEF SchNext

\* The inductive invariant holds of every behaviour: an attempt has one reservation, and what is billed today and
\* what the callers may yet be billed stay under the ceiling.
THEOREM SchedulerInvariance == SchSpec => []SchedulerInv
<1>1. SchInit => SchedulerInv
  BY SchedulerStart
<1>2. SchedulerInv /\ [SchNext]_schedulerVars => SchedulerInv'
  BY SchedulerStep
<1>. QED BY <1>1, <1>2, PTL DEF SchSpec

\* At most one reservation is made for an attempt, and the soft cap is exceeded by at most one dearest call for
\* each other caller.
THEOREM SpendStaysBounded == SchSpec => []SpendBounded
<1>1. SchedulerInv => SpendBounded
  <2>. SUFFICES ASSUME SchedulerInv PROVE SpendBounded
    OBVIOUS
  <2>1. BilledIn(reserved) \in Int
    BY BilledType DEF SchedulerInv, SchedulerTypes
  <2>2. BilledIn(reserved) <= Cap + (Cardinality(Callers) - 1) * Dearest
    BY <2>1, ExposureType, CeilingType DEF SchedulerInv, SpendCovered, Ceiling
  <2>3. BilledIn(reserved) = CostOf({r \in DOMAIN reserved : reserved[r].today /\ reserved[r].status \in {"committed", "unknown_billing"}})
    BY DEF BilledIn, BilledRows, CostOf, Sum
  <2>. QED BY <2>2, <2>3 DEF SchedulerInv, SpendBounded
<1>. QED BY <1>1, SchedulerInvariance, PTL

-----------------------------------------------------------------------------
(* Research. *)

\* A fact is known by the place of its branch and by how many URLs were left before its own.
Fact == (Nat \X Nat)
Branch == [status : {"pending", "running", "complete", "partial", "unavailable", "failed"}, facts : SUBSET Fact, gap : BOOLEAN]
Session == [state : {"retrieving", "ready_to_publish", "published"}, spent : Nat, exhausted : BOOLEAN, named : SUBSET Types,
            report : SUBSET Fact, branches : [Types -> Branch]]

ResearchTypes ==
  /\ question \in [budget : Nat, urls : [Types -> Nat]]
  /\ session \in {NoSession} \cup Session /\ stored \in {NoSession} \cup Session
  /\ running \in [n : 0 .. Len(Branches), left : Nat, good : Nat, bad : Nat]
  /\ fetches \in Nat

\* Of a branch that ended: without a gap it has a fact from every document.
Full(branch, urls) == urls > 0 /\ Cardinality(branch.facts) = urls
Ended(branch, urls) == branch.gap \/ Full(branch, urls)

\* Of the branch that runs: the URLs that are not left answered or did not, and each answer is one fact.
Going(branch, run, urls) ==
  /\ run.good + run.bad + run.left = urls
  /\ IsFiniteSet(branch.facts) /\ Cardinality(branch.facts) = run.good
  /\ branch.facts \subseteq {run.n} \X (run.left + 1 .. urls)

\* Of one branch, by its place.
BranchSound(i, branch, run, urls) ==
  /\ i > run.n => branch.status = "pending" /\ branch.facts = {}
  /\ i < run.n => Ended(branch, urls) /\ branch.status # "running"
  /\ i = run.n => IF branch.status = "running" THEN Going(branch, run, urls) ELSE Ended(branch, urls)

\* The open transaction has charged every fetch, and has what the branches so far brought.
SessionSound ==
  session # NoSession =>
    /\ session.spent = fetches /\ (session.exhausted => fetches = question.budget)
    /\ session.report = {}
    /\ session.state = "retrieving" =>
         /\ stored = NoSession
         /\ \A i \in DOMAIN Branches : BranchSound(i, session.branches[Branches[i]], running, question.urls[Branches[i]])
    /\ session.state # "retrieving" =>
         /\ session.state = "ready_to_publish"
         /\ \A b \in Types : b \notin session.named => Full(session.branches[b], question.urls[b])

ResearchInv == ResearchTypes /\ SessionSound /\ HonestWithinBudget

LEMMA BranchesAre ==
  /\ DOMAIN Branches = 1 .. Len(Branches) /\ Len(Branches) \in Nat /\ \A i \in DOMAIN Branches : Branches[i] \in Types
  /\ \A b \in Types : \E i \in DOMAIN Branches : Branches[i] = b
  /\ \A i, j \in DOMAIN Branches : Branches[i] = Branches[j] => i = j
<1>1. Branches \in Seq(Types) /\ \A i, j \in DOMAIN Branches : Branches[i] = Branches[j] => i = j
  BY ResearchAssumption
<1>2. DOMAIN Branches = 1 .. Len(Branches) /\ Len(Branches) \in Nat
  BY <1>1, ElementOf
<1> QED BY <1>1, <1>2 DEF Types

\* A session is none that has ended.
LEMMA SessionIs ==
  ASSUME ResearchTypes
  PROVE  /\ session # NoSession => session \in Session
         /\ session.state \in {"retrieving", "ready_to_publish", "published"} => session \in Session /\ session # NoSession
         /\ session \in Session => session # NoSession
<1>1. session = NoSession \/ session \in Session
  BY DEF ResearchTypes
<1>2. session \in Session => session.state # "none"
  BY DEF Session
<1> QED BY <1>1, <1>2 DEF NoSession

LEMMA ResearchStarts == ResInit => ResearchInv
<1> SUFFICES ASSUME ResInit PROVE ResearchInv
  OBVIOUS
<1> DEFINE new == [status |-> "pending", facts |-> {}, gap |-> FALSE]
<1>1. /\ session = [state |-> "retrieving", spent |-> 0, exhausted |-> FALSE, named |-> {}, report |-> {},
                    branches |-> [b \in Types |-> new]]
      /\ question \in [budget : Budgets, urls : [Types -> 0 .. MaxUrls]]
      /\ stored = NoSession /\ running = Between(0) /\ fetches = 0
  BY DEF ResInit, NewSession, Checklist
<1>2. new \in Branch
  BY DEF Branch
<1>3. session \in Session
  <2> HIDE DEF new
  <2> QED BY <1>1, <1>2 DEF Session
<1>4. question \in [budget : Nat, urls : [Types -> Nat]] /\ question.budget \in Nat
  <2>1. Budgets \subseteq Nat /\ 0 .. MaxUrls \subseteq Nat
    BY ResearchAssumption
  <2> QED BY <1>1, <2>1
<1>5. running \in [n : 0 .. Len(Branches), left : Nat, good : Nat, bad : Nat] /\ running.n = 0
  BY <1>1, BranchesAre DEF Between
<1>6. ResearchTypes
  BY <1>1, <1>3, <1>4, <1>5 DEF ResearchTypes
<1>7. \A i \in DOMAIN Branches : BranchSound(i, session.branches[Branches[i]], running, question.urls[Branches[i]])
  <2> SUFFICES ASSUME NEW i \in DOMAIN Branches
               PROVE  BranchSound(i, session.branches[Branches[i]], running, question.urls[Branches[i]])
    OBVIOUS
  <2>1. session.branches[Branches[i]] = new
    BY <1>1, BranchesAre
  <2>2. new.status = "pending" /\ new.facts = {}
    OBVIOUS
  <2>3. i > running.n
    BY <1>5, BranchesAre
  <2> HIDE DEF new
  <2> QED BY <1>5, <2>1, <2>2, <2>3 DEF BranchSound
<1>8. SessionSound
  BY <1>1, <1>7 DEF SessionSound
<1>9. HonestWithinBudget
  BY <1>1, <1>4 DEF HonestWithinBudget
<1> QED BY <1>6, <1>8, <1>9 DEF ResearchInv

\* While the documents are gathered nothing is stored, so what is stored cannot be wrong.
LEMMA Gathered ==
  ASSUME ResearchInv, Retrieving
  PROVE  /\ session \in Session /\ session # NoSession /\ stored = NoSession /\ session.spent = fetches
         /\ (session.exhausted => fetches = question.budget) /\ session.report = {} /\ fetches \in Nat /\ question.budget \in Nat
         /\ fetches <= question.budget /\ session.spent \in Nat
         /\ \A b \in Types : session.branches[b] \in Branch /\ question.urls[b] \in Nat
         /\ DOMAIN session.branches = Types
         /\ \A i \in DOMAIN Branches : BranchSound(i, session.branches[Branches[i]], running, question.urls[Branches[i]])
         /\ running.n \in 0 .. Len(Branches) /\ running.n \in Nat /\ Len(Branches) \in Nat
         /\ running.left \in Nat /\ running.good \in Nat /\ running.bad \in Nat
         /\ running = [n |-> running.n, left |-> running.left, good |-> running.good, bad |-> running.bad]
<1>1. session \in Session /\ session # NoSession
  BY SessionIs DEF ResearchInv, Retrieving
<1>2. /\ stored = NoSession /\ session.spent = fetches /\ (session.exhausted => fetches = question.budget) /\ session.report = {}
      /\ \A i \in DOMAIN Branches : BranchSound(i, session.branches[Branches[i]], running, question.urls[Branches[i]])
  BY <1>1 DEF ResearchInv, Retrieving, SessionSound
<1>3. \A b \in Types : session.branches[b] \in Branch /\ question.urls[b] \in Nat
  BY <1>1 DEF ResearchInv, ResearchTypes, Session
<1>4. DOMAIN session.branches = Types /\ session.spent \in Nat
  BY <1>1 DEF Session
<1>5. fetches \in Nat /\ question.budget \in Nat /\ fetches <= question.budget
  BY DEF ResearchInv, ResearchTypes, HonestWithinBudget
<1>6. running \in [n : 0 .. Len(Branches), left : Nat, good : Nat, bad : Nat]
  BY DEF ResearchInv, ResearchTypes
<1>7. /\ running.n \in 0 .. Len(Branches) /\ running.left \in Nat /\ running.good \in Nat /\ running.bad \in Nat
      /\ running = [n |-> running.n, left |-> running.left, good |-> running.good, bad |-> running.bad]
  BY <1>6
<1>8. Len(Branches) \in Nat
  BY BranchesAre
<1> QED BY <1>1, <1>2, <1>3, <1>4, <1>5, <1>7, <1>8

\* A session after such a step: one branch, the charges and the flag are new.
Updated(t, s, b, branch, spent, exhausted) ==
  /\ t \in Session
  /\ \A c \in Types : t.branches[c] = IF c = b THEN branch ELSE s.branches[c]
  /\ t.state = s.state /\ t.spent = spent /\ t.exhausted = exhausted /\ t.report = s.report

\* A step of the gathering concerns one branch, the one that runs or the next.
LEMMA OneBranch ==
  ASSUME ResearchInv, Retrieving, NEW k \in DOMAIN Branches, NEW branch \in Branch, NEW spent \in Nat, NEW exhausted \in BOOLEAN,
         Updated(session', session, Branches[k], branch, spent, exhausted),
         UNCHANGED <<question, stored>>,
         running' \in [n : 0 .. Len(Branches), left : Nat, good : Nat, bad : Nat],
         fetches' = spent, spent <= question.budget, exhausted => spent = question.budget,
         BranchSound(k, branch, running', question.urls[Branches[k]]),
         \A i \in DOMAIN Branches : i # k => BranchSound(i, session.branches[Branches[i]], running', question.urls[Branches[i]])
  PROVE  ResearchInv'
<1>1. /\ session \in Session /\ stored = NoSession /\ session.report = {} /\ DOMAIN session.branches = Types
      /\ \A b \in Types : session.branches[b] \in Branch
  BY Gathered
<1>2. /\ \A c \in Types : session'.branches[c] = IF c = Branches[k] THEN branch ELSE session.branches[c]
      /\ session'.spent = spent /\ session'.exhausted = exhausted
      /\ session'.state = session.state /\ session'.report = session.report
  BY DEF Updated
<1>4. session' \in Session
  BY DEF Updated
<1>5. ResearchTypes'
  BY <1>1, <1>4 DEF ResearchTypes, ResearchInv
<1>6. \A i \in DOMAIN Branches : BranchSound(i, session'.branches[Branches[i]], running', question.urls[Branches[i]])
  <2> SUFFICES ASSUME NEW i \in DOMAIN Branches
               PROVE  BranchSound(i, session'.branches[Branches[i]], running', question.urls[Branches[i]])
    OBVIOUS
  <2>1. session'.branches[Branches[i]] = IF i = k THEN branch ELSE session.branches[Branches[i]]
    BY <1>1, <1>2, BranchesAre
  <2> QED BY <2>1
<1>7. SessionSound'
  <2>1. session'.state = "retrieving"
    BY <1>2 DEF Retrieving
  <2>2. stored' = NoSession /\ question' = question /\ session'.report = {}
    BY <1>1, <1>2
  <2> QED BY <1>2, <1>6, <2>1, <2>2 DEF SessionSound
<1>8. HonestWithinBudget'
  BY <1>1 DEF HonestWithinBudget
<1> QED BY <1>5, <1>7, <1>8 DEF ResearchInv

\* Where the gathering is.
LEMMA RunningBranch ==
  ASSUME ResearchInv, Retrieving, Status = "running"
  PROVE  /\ running.n \in DOMAIN Branches /\ session.branches[Branches[running.n]].status = "running"
         /\ Going(session.branches[Branches[running.n]], running, question.urls[Branches[running.n]])
<1>1. running.n # 0 /\ session.branches[Branches[running.n]].status = "running"
  BY DEF Status
<1>2. running.n \in DOMAIN Branches
  BY <1>1, Gathered, BranchesAre
<1> QED BY <1>1, <1>2, Gathered DEF BranchSound

\* A branch is not changed, and the one that ran before it has ended.
LEMMA OthersStay ==
  ASSUME ResearchInv, Retrieving, NEW run, run.n = running.n
  PROVE  \A i \in DOMAIN Branches : i # running.n => BranchSound(i, session.branches[Branches[i]], run, question.urls[Branches[i]])
BY Gathered DEF BranchSound

LEMMA ResearchDispatches == ASSUME ResearchInv, StartBranch PROVE ResearchInv'
<1> DEFINE k == running.n + 1
           b == Branches[k]
           old == session.branches[b]
           new == [old EXCEPT !.status = "running"]
<1>1. Retrieving /\ Status # "running" /\ running.n < Len(Branches)
  BY DEF StartBranch
<1>2. k \in DOMAIN Branches /\ b \in Types /\ k # 0
  BY <1>1, Gathered, BranchesAre
<1>3. old \in Branch /\ old.facts = {}
  <2>1. BranchSound(k, old, running, question.urls[b])
    BY <1>1, <1>2, Gathered
  <2>2. k > running.n
    BY <1>1, Gathered
  <2> QED BY <1>1, <1>2, <2>1, <2>2, Gathered DEF BranchSound
<1>4. new \in Branch /\ new.status = "running" /\ new.facts = {}
  <2> HIDE DEF old
  <2> QED BY <1>3 DEF Branch
<1>5. session \in Session /\ session.spent \in Nat /\ session.exhausted \in BOOLEAN
  BY <1>1, Gathered DEF Session
<1>6. Updated(session', session, b, new, session.spent, session.exhausted)
  <2>1. session' = [session EXCEPT !.branches[b].status = "running"]
    BY DEF StartBranch
  <2>2. \A c \in Types : session'.branches[c] = IF c = b THEN new ELSE session.branches[c]
    BY <1>2, <1>5, <2>1 DEF Session
  <2>3. session' \in Session /\ session'.state = session.state /\ session'.spent = session.spent
        /\ session'.exhausted = session.exhausted /\ session'.report = session.report
    BY <1>2, <1>5, <2>1 DEF Session, Branch
  <2> HIDE DEF b, new
  <2> QED BY <2>2, <2>3 DEF Updated
<1>7. UNCHANGED <<question, stored, fetches>> /\ running' = [n |-> k, left |-> question.urls[b], good |-> 0, bad |-> 0]
  BY DEF StartBranch, Between
<1>8. running' \in [n : 0 .. Len(Branches), left : Nat, good : Nat, bad : Nat]
  <2>1. k \in 0 .. Len(Branches) /\ question.urls[b] \in Nat
    BY <1>1, <1>2, Gathered, BranchesAre
  <2> HIDE DEF k, b
  <2> QED BY <1>7, <2>1
<1>9. BranchSound(k, new, running', question.urls[b])
  <2>1. Cardinality({}) = 0 /\ IsFiniteSet({})
    BY FS_EmptySet
  <2>2. question.urls[b] \in Nat /\ k \in Nat
    BY <1>1, <1>2, Gathered
  <2> HIDE DEF k, b, new
  <2>3. running'.n = k /\ running'.left = question.urls[b] /\ running'.good = 0 /\ running'.bad = 0
    BY <1>7
  <2>4. Going(new, running', question.urls[b])
    BY <1>4, <2>1, <2>2, <2>3 DEF Going
  <2> QED BY <1>4, <2>2, <2>3, <2>4 DEF BranchSound
<1>10. \A i \in DOMAIN Branches : i # k => BranchSound(i, session.branches[Branches[i]], running', question.urls[Branches[i]])
  <2> SUFFICES ASSUME NEW i \in DOMAIN Branches, i # k
               PROVE  BranchSound(i, session.branches[Branches[i]], running', question.urls[Branches[i]])
    OBVIOUS
  <2>1. BranchSound(i, session.branches[Branches[i]], running, question.urls[Branches[i]])
    BY <1>1, Gathered
  <2>2. i \in Nat /\ i # 0 /\ running.n \in Nat
    BY <1>1, Gathered, BranchesAre
  <2>3. running'.n = running.n + 1
    BY <1>7
  <2>4. CASE i = running.n
    <3>1. session.branches[Branches[i]].status # "running"
      BY <1>1, <2>2, <2>4 DEF Status
    <3>2. Ended(session.branches[Branches[i]], question.urls[Branches[i]])
      BY <2>1, <2>4, <3>1 DEF BranchSound
    <3> QED BY <2>2, <2>3, <2>4, <3>1, <3>2 DEF BranchSound
  <2>5. CASE i < running.n
    BY <2>1, <2>2, <2>3, <2>5 DEF BranchSound
  <2>6. CASE i > running.n + 1
    BY <2>1, <2>2, <2>3, <2>6 DEF BranchSound
  <2> QED BY <2>2, <2>4, <2>5, <2>6
<1>11. session.spent <= question.budget /\ fetches' = session.spent /\ (session.exhausted => session.spent = question.budget)
  BY <1>1, <1>7, Gathered
<1> HIDE DEF k, new
<1> QED BY <1>1, <1>2, <1>4, <1>5, <1>6, <1>7, <1>8, <1>9, <1>10, <1>11, OneBranch

LEMMA ResearchFetches == ASSUME ResearchInv, Fetch PROVE ResearchInv'
<1> DEFINE k == running.n
           b == Branches[k]
           old == session.branches[b]
           fact == <<k, running.left>>
           urls == question.urls[b]
<1>1. Retrieving /\ Status = "running" /\ running.left > 0 /\ session.spent + 1 <= question.budget
  BY DEF Fetch, Asked, Affordable
<1>2. k \in DOMAIN Branches /\ b \in Types /\ old.status = "running" /\ Going(old, running, urls)
  BY <1>1, RunningBranch, BranchesAre
<1>3. old \in Branch /\ urls \in Nat /\ k \in Nat /\ running.left \in Nat /\ running.good \in Nat /\ running.bad \in Nat
  BY <1>1, <1>2, Gathered
<1>4. session \in Session /\ session.spent \in Nat /\ session.exhausted \in BOOLEAN
  BY <1>1, Gathered DEF Session
<1>5. PICK answers \in BOOLEAN :
        /\ running' = [running EXCEPT !.left = @ - 1, !.good = IF answers THEN @ + 1 ELSE @, !.bad = IF answers THEN @ ELSE @ + 1]
        /\ session' = [session EXCEPT !.spent = Charge,
                                      !.branches[Branches[running.n]].facts = IF answers THEN @ \cup {<<running.n, running.left>>} ELSE @]
  BY DEF Fetch
<1> DEFINE new == [old EXCEPT !.facts = IF answers THEN old.facts \cup {fact} ELSE old.facts]
<1>6. fetches' = fetches + 1 /\ UNCHANGED <<question, stored>>
  BY DEF Fetch
<1>7. /\ running'.n = k /\ running'.left = running.left - 1
      /\ running'.good = (IF answers THEN running.good + 1 ELSE running.good)
      /\ running'.bad = (IF answers THEN running.bad ELSE running.bad + 1)
      /\ running' = [n |-> running'.n, left |-> running'.left, good |-> running'.good, bad |-> running'.bad]
  <2>1. running = [n |-> running.n, left |-> running.left, good |-> running.good, bad |-> running.bad]
    BY <1>1, Gathered
  <2> QED BY <1>5, <2>1
<1>8. running' \in [n : 0 .. Len(Branches), left : Nat, good : Nat, bad : Nat]
  <2>1. k \in 0 .. Len(Branches)
    BY <1>1, Gathered
  <2>2. running'.left \in Nat /\ running'.good \in Nat /\ running'.bad \in Nat /\ running'.n \in 0 .. Len(Branches)
    <3> HIDE DEF k
    <3> QED BY <1>1, <1>3, <1>7, <2>1
  <2> QED BY <1>7, <2>2
<1>9. fact \in Fact /\ fact \notin old.facts
  <2>1. old.facts \subseteq {k} \X (running.left + 1 .. urls)
    BY <1>2 DEF Going
  <2> HIDE DEF old, urls, k
  <2> QED BY <1>3, <2>1 DEF Fact
<1>10. new \in Branch /\ new.status = "running" /\ new.gap = old.gap /\ new.facts = IF answers THEN old.facts \cup {fact} ELSE old.facts
  <2> HIDE DEF fact, old
  <2> QED BY <1>2, <1>3, <1>9 DEF Branch
<1>11. Going(new, running', urls)
  <2>1. IsFiniteSet(old.facts) /\ Cardinality(old.facts) = running.good /\ running.good + running.bad + running.left = urls
    BY <1>2 DEF Going
  <2>2. new.facts \subseteq {k} \X (running'.left + 1 .. urls)
    <3>1. old.facts \subseteq {k} \X (running.left + 1 .. urls)
      BY <1>2 DEF Going
    <3>2. running.left \in running'.left + 1 .. urls /\ running.left + 1 .. urls \subseteq running'.left + 1 .. urls
      <4> HIDE DEF urls
      <4> QED BY <1>1, <1>3, <1>7, <2>1
    <3>3. fact \in {k} \X (running'.left + 1 .. urls)
      BY <3>2
    <3> HIDE DEF fact, new, urls, old
    <3> QED BY <1>10, <3>1, <3>2, <3>3
  <2>3. IsFiniteSet(new.facts) /\ Cardinality(new.facts) = running'.good
    <3>1. CASE answers
      <4>1. new.facts = old.facts \cup {fact}
        BY <1>10, <3>1
      <4>2. IsFiniteSet(old.facts \cup {fact}) /\ Cardinality(old.facts \cup {fact}) = Cardinality(old.facts) + 1
        <5> HIDE DEF old, fact
        <5> QED BY <1>9, <2>1, FS_AddElement
      <4> HIDE DEF new, old, fact
      <4> QED BY <1>7, <2>1, <3>1, <4>1, <4>2
    <3>2. CASE ~answers
      <4> HIDE DEF new, old, fact
      <4> QED BY <1>7, <1>10, <2>1, <3>2
    <3> QED BY <3>1, <3>2
  <2>4. running'.good + running'.bad + running'.left = urls
    <3> HIDE DEF urls
    <3> QED BY <1>3, <1>7, <2>1
  <2> HIDE DEF new, urls
  <2> QED BY <1>7, <2>2, <2>3, <2>4 DEF Going
<1>12. BranchSound(k, new, running', urls)
  <2> HIDE DEF new, urls
  <2> QED BY <1>3, <1>7, <1>10, <1>11 DEF BranchSound
<1>13. \A i \in DOMAIN Branches : i # k => BranchSound(i, session.branches[Branches[i]], running', question.urls[Branches[i]])
  BY <1>1, <1>7, OthersStay
<1>14. Updated(session', session, b, new, session.spent + 1, session.exhausted)
  <2>1. \A c \in Types : session'.branches[c] = IF c = b THEN new ELSE session.branches[c]
    BY <1>2, <1>4, <1>5 DEF Session, Charge
  <2>2. session'.state = session.state /\ session'.spent = session.spent + 1
        /\ session'.exhausted = session.exhausted /\ session'.report = session.report
    BY <1>2, <1>4, <1>5 DEF Session, Charge
  <2>3. session' \in Session
    <3> DEFINE facts == IF answers THEN old.facts \cup {fact} ELSE old.facts
    <3>1. facts \in SUBSET Fact
      <4> HIDE DEF fact, old
      <4> QED BY <1>3, <1>9 DEF Branch
    <3>2. session' = [session EXCEPT !.spent = session.spent + 1, !.branches[b].facts = facts]
      BY <1>2, <1>4, <1>5 DEF Session, Charge
    <3> DEFINE x == [session.branches EXCEPT ![b] = [old EXCEPT !.facts = facts]]
    <3>3. session' = [session EXCEPT !.spent = session.spent + 1, !.branches = x]
      <4> HIDE DEF facts
      <4> QED BY <1>2, <1>4, <3>2 DEF Session
    <3>4. [old EXCEPT !.facts = facts] \in Branch
      <4> HIDE DEF facts, old
      <4> QED BY <1>3, <3>1 DEF Branch
    <3>5. x \in [Types -> Branch]
      <4> DEFINE y == [old EXCEPT !.facts = facts]
      <4>1. y \in Branch
        BY <3>4
      <4> HIDE DEF y, b
      <4>2. x = [session.branches EXCEPT ![b] = y]
        BY DEF y
      <4> HIDE DEF x
      <4> QED BY <1>2, <1>4, <4>1, <4>2 DEF Session
    <3>6. PICK n \in Nat : n = session.spent + 1
      BY <1>4
    <3>7. session' = [session EXCEPT !.spent = n, !.branches = x]
      BY <3>3, <3>6
    <3> HIDE DEF x
    <3> QED BY <1>4, <3>5, <3>7 DEF Session
  <2> HIDE DEF b, new
  <2> QED BY <2>1, <2>2, <2>3 DEF Updated
<1>15. /\ session.spent + 1 \in Nat /\ fetches' = session.spent + 1 /\ session.spent + 1 <= question.budget
       /\ session.exhausted => session.spent + 1 = question.budget
  BY <1>1, <1>4, <1>6, Gathered
<1> HIDE DEF new
<1> QED BY <1>1, <1>2, <1>4, <1>6, <1>8, <1>10, <1>12, <1>13, <1>14, <1>15, OneBranch

\* Closing a branch changes nothing else.
Ending == {"complete", "partial", "unavailable", "failed"}
ClosedOf(s, b, status) == [s.branches[b] EXCEPT !.status = status, !.gap = (status # "complete")]

LEMMA ClosedIs ==
  ASSUME NEW s \in Session, NEW b \in Types, NEW status \in Ending
  PROVE  \E x \in [Types -> Branch] :
           /\ Closed(s, b, status) = [s EXCEPT !.branches = x]
           /\ \A c \in Types : x[c] = IF c = b THEN ClosedOf(s, b, status) ELSE s.branches[c]
<1> DEFINE y == [s.branches[b] EXCEPT !.status = status, !.gap = (status # "complete")]
           x == [s.branches EXCEPT ![b] = y]
<1>1. Closed(s, b, status) = [s EXCEPT !.branches = x]
  BY DEF Session, Closed
<1>2. y \in Branch
  <2>1. s.branches[b] \in Branch
    BY DEF Session
  <2> QED BY <2>1 DEF Branch, Ending
<1>3. x \in [Types -> Branch] /\ \A c \in Types : x[c] = IF c = b THEN y ELSE s.branches[c]
  <2> HIDE DEF y
  <2> QED BY <1>2 DEF Session
<1>4. y = ClosedOf(s, b, status)
  BY DEF ClosedOf
<1> HIDE DEF x, y
<1> QED BY <1>1, <1>3, <1>4

LEMMA ClosedSession ==
  ASSUME NEW s \in Session, NEW b \in Types, NEW status \in Ending
  PROVE  Closed(s, b, status) \in Session
<1>1. PICK x \in [Types -> Branch] : Closed(s, b, status) = [s EXCEPT !.branches = x]
  BY ClosedIs
<1> QED BY <1>1 DEF Session

LEMMA ClosedRest ==
  ASSUME NEW s \in Session, NEW b \in Types, NEW status \in Ending
  PROVE  /\ Closed(s, b, status).state = s.state /\ Closed(s, b, status).report = s.report
         /\ Closed(s, b, status).spent = s.spent /\ Closed(s, b, status).exhausted = s.exhausted
<1>1. PICK x \in [Types -> Branch] : Closed(s, b, status) = [s EXCEPT !.branches = x]
  BY ClosedIs
<1> QED BY <1>1 DEF Session

LEMMA ClosedBranches ==
  ASSUME NEW s \in Session, NEW b \in Types, NEW status \in Ending
  PROVE  \A c \in Types : Closed(s, b, status).branches[c] = IF c = b THEN ClosedOf(s, b, status) ELSE s.branches[c]
<1>1. PICK x \in [Types -> Branch] :
           /\ Closed(s, b, status) = [s EXCEPT !.branches = x]
           /\ \A c \in Types : x[c] = IF c = b THEN ClosedOf(s, b, status) ELSE s.branches[c]
  BY ClosedIs
<1>2. Closed(s, b, status).branches = x
  BY <1>1 DEF Session
<1> QED BY <1>1, <1>2

\* The branch that runs is closed.
LEMMA BranchCloses ==
  ASSUME ResearchInv, Retrieving, Status = "running", NEW status \in Ending,
         status = "complete" => Full(session.branches[Branches[running.n]], question.urls[Branches[running.n]]),
         NEW spent \in Nat, NEW exhausted \in BOOLEAN,
         NEW c, c = Closed(session, Branches[running.n], status),
         session' \in Session, session'.branches = c.branches, session'.state = c.state, session'.report = c.report,
         session'.spent = spent, session'.exhausted = exhausted,
         running' = Between(running.n), UNCHANGED <<question, stored>>,
         fetches' = spent, spent <= question.budget, exhausted => spent = question.budget
  PROVE  ResearchInv'
<1> DEFINE k == running.n
           b == Branches[k]
           old == session.branches[b]
           new == ClosedOf(session, b, status)
           urls == question.urls[b]
<1>1. k \in DOMAIN Branches /\ b \in Types
  BY RunningBranch, BranchesAre
<1>2. old \in Branch /\ k \in 0 .. Len(Branches) /\ k \in Nat
  BY <1>1, Gathered
<1>3. session \in Session
  BY Gathered
<1>4. Updated(session', session, b, new, spent, exhausted)
  <2>1. /\ \A d \in Types : c.branches[d] = IF d = b THEN new ELSE session.branches[d]
        /\ c.state = session.state /\ c.report = session.report
    <3> HIDE DEF b
    <3>1. c = Closed(session, b, status)
      BY DEF b
    <3>2. b \in Types /\ session \in Session
      BY <1>1, <1>3
    <3>3. \A d \in Types : Closed(session, b, status).branches[d] = IF d = b THEN new ELSE session.branches[d]
      BY <3>2, ClosedBranches
    <3>4. Closed(session, b, status).state = session.state /\ Closed(session, b, status).report = session.report
      BY <3>2, ClosedRest
    <3> HIDE DEF new
    <3> QED BY <3>1, <3>3, <3>4
  <2> HIDE DEF new, b
  <2> QED BY <2>1 DEF Updated
<1>5. new \in Branch /\ new.status = status /\ new.gap = (status # "complete") /\ new.facts = old.facts
  <2>1. new = [old EXCEPT !.status = status, !.gap = (status # "complete")]
    BY DEF ClosedOf
  <2> HIDE DEF old, new
  <2> QED BY <1>2, <2>1 DEF Branch, Ending
<1>6. running' \in [n : 0 .. Len(Branches), left : Nat, good : Nat, bad : Nat] /\ running'.n = k
  <2> HIDE DEF k
  <2> QED BY <1>2 DEF Between, k
<1>7. Ended(new, urls)
  <2>1. status = "complete" => Full(old, urls)
    OBVIOUS
  <2> HIDE DEF new, old, urls
  <2>2. status = "complete" => Full(new, urls)
    BY <1>5, <2>1 DEF Full
  <2> QED BY <1>5, <2>2 DEF Ended
<1>8. BranchSound(k, new, running', urls)
  <2>1. new.status # "running"
    BY <1>5 DEF Ending
  <2> HIDE DEF new, urls
  <2> QED BY <1>2, <1>5, <1>6, <1>7, <2>1 DEF BranchSound
<1>9. \A i \in DOMAIN Branches : i # k => BranchSound(i, session.branches[Branches[i]], running', question.urls[Branches[i]])
  BY <1>6, OthersStay
<1>10. \A i \in DOMAIN Branches : i = k \/ BranchSound(i, session.branches[Branches[i]], running', question.urls[Branches[i]])
  BY <1>9
<1> HIDE DEF new, k
<1> QED BY <1>1, <1>4, <1>5, <1>6, <1>8, <1>10, OneBranch

LEMMA ResearchEnds == ASSUME ResearchInv, EndBranch PROVE ResearchInv'
<1> DEFINE b == Branches[running.n]
<1>1. Retrieving /\ Status = "running" /\ running' = Between(running.n) /\ UNCHANGED <<question, stored, fetches>>
  BY DEF EndBranch
<1>2. /\ session \in Session /\ session.spent = fetches /\ session.spent \in Nat /\ session.spent <= question.budget
      /\ question.budget \in Nat /\ session.exhausted \in BOOLEAN /\ (session.exhausted => session.spent = question.budget)
  BY <1>1, Gathered DEF Session
<1>3. b \in Types /\ running.good \in Nat /\ running.bad \in Nat /\ Going(session.branches[b], running, question.urls[b])
  BY <1>1, RunningBranch, Gathered, BranchesAre
<1>5. CASE running.left > 0 /\ ~Affordable /\ session' = [Closed(session, b, "partial") EXCEPT !.exhausted = TRUE]
  <2> DEFINE c == Closed(session, b, "partial")
  <2>1. /\ session' \in Session /\ session'.branches = c.branches /\ session'.state = c.state /\ session'.report = c.report
        /\ session'.spent = session.spent /\ session'.exhausted = TRUE
    <3>1. c \in Session /\ c.spent = session.spent
      <4>1. "partial" \in Ending
        BY DEF Ending
      <4> QED BY <1>2, <1>3, <4>1, ClosedSession, ClosedRest
    <3>2. session' = [c EXCEPT !.exhausted = TRUE]
      BY <1>5
    <3> HIDE DEF c
    <3> QED BY <3>1, <3>2 DEF Session
  <2>2. session.spent = question.budget
    BY <1>2, <1>5 DEF Affordable
  <2>3. "partial" \in Ending /\ "partial" # "complete"
    BY DEF Ending
  <2> HIDE DEF c
  <2> QED BY <1>1, <1>2, <2>1, <2>2, <2>3, BranchCloses DEF c
<1>6. CASE /\ running.left = 0
           /\ session' = Closed(session, b, IF running.good = 0 THEN "unavailable" ELSE IF running.bad = 0 THEN "complete" ELSE "partial")
  <2> DEFINE status == IF running.good = 0 THEN "unavailable" ELSE IF running.bad = 0 THEN "complete" ELSE "partial"
  <2> DEFINE c == Closed(session, b, status)
  <2>1. /\ session' \in Session /\ session'.branches = c.branches /\ session'.state = c.state /\ session'.report = c.report
        /\ session'.spent = session.spent /\ session'.exhausted = session.exhausted
    <3> HIDE DEF status
    <3>1. session' = Closed(session, b, status)
      BY <1>6 DEF status
    <3>2. status \in Ending
      BY DEF status, Ending
    <3>3. Closed(session, b, status) \in Session
      BY <1>2, <1>3, <3>2, ClosedSession
    <3>4. /\ Closed(session, b, status).spent = session.spent
          /\ Closed(session, b, status).exhausted = session.exhausted
      <4>1. b \in Types /\ session \in Session
        BY <1>2, <1>3
      <4> HIDE DEF b
      <4> QED BY <3>2, <4>1, ClosedRest
    <3> QED BY <3>1, <3>3, <3>4
  <2>2. status = "complete" => Full(session.branches[b], question.urls[b])
    <3> HIDE DEF b
    <3> QED BY <1>3, <1>6 DEF Going, Full
  <2>3. status \in Ending
    BY DEF Ending
  <2> HIDE DEF status
  <2> QED BY <1>1, <1>2, <2>1, <2>2, <2>3, BranchCloses
<1> QED BY <1>5, <1>6 DEF EndBranch

LEMMA ResearchRaises == ASSUME ResearchInv, BranchRaises PROVE ResearchInv'
<1> DEFINE b == Branches[running.n]
<1>1. /\ Retrieving /\ Status = "running" /\ session.spent + 1 <= question.budget
      /\ running' = Between(running.n) /\ UNCHANGED <<question, stored>> /\ fetches' = fetches + 1
  BY DEF BranchRaises, Asked, Affordable
<1>2. /\ session \in Session /\ session.spent = fetches /\ session.spent \in Nat
      /\ question.budget \in Nat /\ session.exhausted \in BOOLEAN /\ (session.exhausted => session.spent = question.budget)
  BY <1>1, Gathered DEF Session
<1> DEFINE c == Closed(session, b, "failed")
<1>3. /\ session' \in Session /\ session'.branches = c.branches /\ session'.state = c.state /\ session'.report = c.report
      /\ session'.spent = session.spent + 1 /\ session'.exhausted = session.exhausted
  <2>1. session' = [c EXCEPT !.spent = session.spent + 1]
    BY DEF BranchRaises, Charge
  <2>2. b \in Types
    BY <1>1, RunningBranch, BranchesAre
  <2>3. c \in Session /\ c.exhausted = session.exhausted
    <3>1. "failed" \in Ending
      BY DEF Ending
    <3> QED BY <1>2, <2>2, <3>1, ClosedSession, ClosedRest
  <2> HIDE DEF c
  <2> QED BY <1>2, <2>1, <2>3 DEF Session
<1>4. session.spent + 1 \in Nat /\ (session.exhausted => session.spent + 1 = question.budget)
  BY <1>1, <1>2
<1>5. "failed" \in Ending /\ "failed" # "complete"
  BY DEF Ending
<1> HIDE DEF c
<1> QED BY <1>1, <1>2, <1>3, <1>4, <1>5, BranchCloses DEF c

LEMMA ResearchCommits == ASSUME ResearchInv, Ready PROVE ResearchInv'
<1> DEFINE named == {b \in Types : session.branches[b].gap}
<1>1. /\ Retrieving /\ Status # "running" /\ running.n = Len(Branches)
      /\ session' = [session EXCEPT !.state = "ready_to_publish", !.named = named]
      /\ stored' = session' /\ UNCHANGED <<question, running, fetches>>
  BY DEF Ready
<1>2. session \in Session /\ session.report = {} /\ session.spent = fetches /\ (session.exhausted => fetches = question.budget)
  BY <1>1, Gathered
<1>3. /\ session' \in Session /\ session'.state = "ready_to_publish" /\ session'.named = named
      /\ session'.branches = session.branches /\ session'.report = {} /\ session'.spent = session.spent
      /\ session'.exhausted = session.exhausted
  <2>1. named \in SUBSET Types
    OBVIOUS
  <2> HIDE DEF named
  <2> QED BY <1>1, <1>2, <2>1 DEF Session
<1>4. \A b \in Types : b \notin named => Full(session.branches[b], question.urls[b])
  <2> SUFFICES ASSUME NEW b \in Types, b \notin named PROVE Full(session.branches[b], question.urls[b])
    OBVIOUS
  <2>1. PICK i \in DOMAIN Branches : Branches[i] = b
    BY BranchesAre
  <2>2. BranchSound(i, session.branches[b], running, question.urls[b]) /\ i \in Nat /\ i # 0 /\ i <= running.n
    BY <1>1, <2>1, Gathered, BranchesAre
  <2>3. Ended(session.branches[b], question.urls[b])
    <3>1. CASE i = running.n
      <4>1. session.branches[b].status # "running"
        BY <1>1, <2>1, <2>2, <3>1 DEF Status
      <4> QED BY <2>2, <3>1, <4>1 DEF BranchSound
    <3>2. CASE i < running.n
      BY <2>2, <3>2 DEF BranchSound
    <3>3. running.n \in Nat
      BY <1>1, Gathered
    <3> QED BY <2>2, <3>1, <3>2, <3>3
  <2> QED BY <2>3 DEF Ended
<1>5. ResearchTypes'
  BY <1>1, <1>3 DEF ResearchInv, ResearchTypes
<1>6. SessionSound'
  <2>1. \A b \in Types : b \notin session'.named => Full(session'.branches[b], question'.urls[b])
    BY <1>1, <1>3, <1>4
  <2> QED BY <1>1, <1>2, <1>3, <2>1 DEF SessionSound
<1>7. HonestWithinBudget'
  <2>1. fetches' <= question'.budget
    BY <1>1, Gathered
  <2>2. stored'.exhausted => fetches' = question'.budget
    BY <1>1, <1>2, <1>3
  <2>3. \A b \in Types : b \notin stored'.named => question'.urls[b] > 0 /\ Cardinality(stored'.branches[b].facts) = question'.urls[b]
    BY <1>1, <1>3, <1>4 DEF Full
  <2>4. stored'.state = "ready_to_publish" /\ stored'.report = {}
    BY <1>1, <1>3
  <2> QED BY <2>1, <2>2, <2>3, <2>4 DEF HonestWithinBudget
<1> QED BY <1>5, <1>6, <1>7 DEF ResearchInv

LEMMA ResearchPublishes == ASSUME ResearchInv, Synthesize PROVE ResearchInv'
<1>1. /\ session.state = "ready_to_publish" /\ session' = NoSession /\ UNCHANGED <<question, running, fetches>>
  BY DEF Synthesize
<1>2. session \in Session /\ session # NoSession
  BY <1>1, SessionIs DEF ResearchInv
<1>3. /\ session.spent = fetches /\ (session.exhausted => fetches = question.budget)
      /\ \A b \in Types : b \notin session.named => Full(session.branches[b], question.urls[b])
  BY <1>1, <1>2 DEF ResearchInv, SessionSound
<1>4. SessionSound'
  BY <1>1 DEF SessionSound
<1>5. CASE Evidence(session) # {} /\ stored' = [session EXCEPT !.state = "published", !.report = Evidence(session)]
  <2>1. Evidence(session) \in SUBSET Fact
    <3>1. \A b \in Types : session.branches[b].facts \subseteq Fact
      BY <1>2 DEF Session, Branch
    <3> QED BY <3>1 DEF Evidence
  <2> DEFINE e == Evidence(session)
  <2>2. /\ stored' \in Session /\ stored'.state = "published" /\ stored'.report = e /\ stored'.branches = session.branches
        /\ stored'.named = session.named /\ stored'.exhausted = session.exhausted
    <3>1. e \in SUBSET Fact /\ stored' = [session EXCEPT !.state = "published", !.report = e]
      BY <1>5, <2>1
    <3> HIDE DEF e
    <3> QED BY <1>2, <3>1 DEF Session
  <2>3. Evidence(stored') = e
    BY <2>2 DEF Evidence
  <2>4. ResearchTypes'
    BY <1>1, <2>2 DEF ResearchInv, ResearchTypes
  <2>5. HonestWithinBudget'
    <3>1. fetches' <= question'.budget
      BY <1>1 DEF ResearchInv, HonestWithinBudget
    <3>2. stored'.exhausted => fetches' = question'.budget
      BY <1>1, <1>3, <2>2
    <3>3. \A b \in Types : b \notin stored'.named => question'.urls[b] > 0 /\ Cardinality(stored'.branches[b].facts) = question'.urls[b]
      BY <1>1, <1>3, <2>2 DEF Full
    <3>4. stored'.report = Evidence(stored') /\ stored'.report # {} /\ stored'.state = "published"
      BY <1>5, <2>2, <2>3
    <3> QED BY <3>1, <3>2, <3>3, <3>4 DEF HonestWithinBudget
  <2> QED BY <1>4, <2>4, <2>5 DEF ResearchInv
<1>6. CASE UNCHANGED stored
  <2>1. ResearchTypes' /\ HonestWithinBudget'
    BY <1>1, <1>6 DEF ResearchInv, ResearchTypes, HonestWithinBudget, Evidence
  <2> QED BY <1>4, <2>1 DEF ResearchInv
<1> QED BY <1>5, <1>6 DEF Synthesize

LEMMA ResearchDies == ASSUME ResearchInv, ServerDies PROVE ResearchInv'
<1>1. session' = NoSession /\ UNCHANGED <<question, stored, running, fetches>>
  BY DEF ServerDies
<1>2. ResearchTypes' /\ HonestWithinBudget' /\ SessionSound'
  BY <1>1 DEF ResearchInv, ResearchTypes, HonestWithinBudget, Evidence, SessionSound
<1> QED BY <1>2 DEF ResearchInv

THEOREM ResearchInvariance == ResSpec => []ResearchInv
<1>1. ResInit => ResearchInv
  BY ResearchStarts
<1>2. ResearchInv /\ [ResNext]_researchVars => ResearchInv'
  <2> SUFFICES ASSUME ResearchInv, [ResNext]_researchVars PROVE ResearchInv'
    OBVIOUS
  <2>1. CASE UNCHANGED researchVars
    BY <2>1 DEF researchVars, ResearchInv, ResearchTypes, SessionSound, HonestWithinBudget, Evidence
  <2> QED BY <2>1, ResearchDispatches, ResearchFetches, ResearchEnds, ResearchRaises, ResearchCommits, ResearchPublishes, ResearchDies
          DEF ResNext
<1> QED BY <1>1, <1>2, PTL DEF ResSpec

\* What a research request stores names every gap and stays within the budget, and a report is published with all the facts
\* or not at all, wherever the process dies (services/research_workflow.py, api/research.py).
THEOREM ResearchHonest == ResSpec => []HonestWithinBudget
<1>1. ResearchInv => HonestWithinBudget
  BY DEF ResearchInv
<1> QED BY <1>1, ResearchInvariance, PTL
=============================================================================
