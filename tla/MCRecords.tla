----------------------------- MODULE MCRecords ------------------------------
(***************************************************************************)
(* The owner's records and the analysis services for TLC.  They share no   *)
(* table and no worker, so a behaviour follows one of them while the rest  *)
(* stay in one of their initial states.                                    *)
(***************************************************************************)
EXTENDS Imports, Earmarks, Revisions, Theses, LegacyQueue, ModelScheduler, Research, ReportData, TLC

CONSTANTS p1, p2, q1, q2, k1, u1, u2, l1, l2, s1, r1, a3

VARIABLE part

MCBranches == <<"financials_valuation", "events_governance", "peers_downside">>

MCInit ==
  /\ part \in {"imports", "earmarks", "revisions", "theses", "queue", "quota", "research", "report"}
  /\ IInit /\ EInit /\ RevInit /\ TheInit /\ LegacyInit /\ SchInit /\ ResInit /\ ReportInit
  /\ part # "imports" => catalogue = {}
  /\ part # "revisions" => kind = [r \in Records |-> "profile"]
  /\ part # "theses" => Cardinality(DOMAIN thesis[1].conditions) = MaxConditions
  /\ part # "research" => question.budget = 0 /\ \A b \in Types : question.urls[b] = 0

InImports == part = "imports" /\ INext /\ UNCHANGED <<earmarkVars, revisionVars, thesisVars, legacyVars, schedulerVars, researchVars, reportVars>>
InEarmarks == part = "earmarks" /\ ENext /\ UNCHANGED <<importVars, revisionVars, thesisVars, legacyVars, schedulerVars, researchVars, reportVars>>
InRevisions == part = "revisions" /\ RevNext /\ UNCHANGED <<importVars, earmarkVars, thesisVars, legacyVars, schedulerVars, researchVars, reportVars>>
InTheses == part = "theses" /\ TheNext /\ UNCHANGED <<importVars, earmarkVars, revisionVars, legacyVars, schedulerVars, researchVars, reportVars>>
InQueue == part = "queue" /\ LegacyNext /\ UNCHANGED <<importVars, earmarkVars, revisionVars, thesisVars, schedulerVars, researchVars, reportVars>>
InQuota == part = "quota" /\ SchNext /\ UNCHANGED <<importVars, earmarkVars, revisionVars, thesisVars, legacyVars, researchVars, reportVars>>
InResearch == part = "research" /\ ResNext /\ UNCHANGED <<importVars, earmarkVars, revisionVars, thesisVars, legacyVars, schedulerVars, reportVars>>
InReport == part = "report" /\ ReportNext /\ UNCHANGED <<importVars, earmarkVars, revisionVars, thesisVars, legacyVars, schedulerVars, researchVars>>

MCNext == UNCHANGED part /\ (InImports \/ InEarmarks \/ InRevisions \/ InTheses \/ InQueue \/ InQuota \/ InResearch \/ InReport)

MCVars == <<part, importVars, earmarkVars, revisionVars, thesisVars, legacyVars, schedulerVars, researchVars, reportVars>>

MCSpec == MCInit /\ [][MCNext]_MCVars

\* The parts use the same model values for who acts and for what is acted on, so two permutations serve them all.
Symmetry == Permutations({p1, p2}) \cup Permutations({q1, q2})
=============================================================================
