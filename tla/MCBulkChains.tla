---------------------------- MODULE MCBulkChains -----------------------------
(***************************************************************************)
(* The bulk chains for TLC.  The market chain and the weekly refreshes use *)
(* the same queue and the same worker, but no kind and no table of theirs  *)
(* is shared, so a behaviour follows one of the two.                       *)
(***************************************************************************)
EXTENDS MarketChain, RefreshChains, TLC

CONSTANTS s1, s2, s3, a1, a2, c1, c2

VARIABLE chain

MCTier == (s1 :> 0) @@ (s2 :> 2) @@ (s3 :> 2)
MCShortlist == <<s1, s2, s3>>

marketOwn == <<date, closed, session, last, fetched, signals, forecasts, marker, pass, raced>>
refreshOwn == <<week, ter, matched, retrieved, recent>>

MCInit == chain \in {"market", "refresh"} /\ MInit /\ RInit

Market(A) == chain = "market" /\ A /\ UNCHANGED <<chain, refreshOwn>>
Refresh(A) == chain = "refresh" /\ A /\ UNCHANGED <<chain, marketOwn>>

MCNext == Market(MNext) \/ Refresh(RNext)

MCVars == <<chain, queueVars, faults, marketOwn, refreshOwn>>

\* The fairness of MFairSpec and RFairSpec, for the chain the behaviour follows.
MCFairness ==
  /\ WF_MCVars(Market(MarketStep) \/ Refresh(RefreshStep))
  /\ \A j \in 1 .. MaxJobs : WF_MCVars(Market(MComesDue(j)) \/ Refresh(RComesDue(j)))
  /\ WF_MCVars(Refresh(MaybeTer)) /\ WF_MCVars(Refresh(MaybeFundamentals))
  /\ WF_MCVars(Refresh(HoursPass))

MCSpec == MCInit /\ [][MCNext]_MCVars /\ MCFairness
=============================================================================
