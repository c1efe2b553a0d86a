----------------------------- MODULE MCPlanning -----------------------------
(***************************************************************************)
(* What the owner plans with, for TLC: the twin, the claims on it and the  *)
(* inbox of issues, with the watchlists whose alerts raise some.  The value*)
(* the claims are compared with and the issues a review raises are inputs. *)
(* A behaviour follows one part while the others stay in an initial state. *)
(***************************************************************************)
EXTENDS Twin, GoalClaims, Watchlists, TLC

CONSTANTS r3, e1, e2, p1, p2, h1, h2, g1, g2, c1, c2, t1, issue1, alert1

\* What the broker reports: a fall without a stated move, no price, and a price on a new instrument.
Entry(ltp, close, move) == [ltp |-> ltp, close |-> close, move |-> move]
MCEntries == {Entry(90, 100, Missing), Entry(0, 100, 2), Entry(120, Missing, Missing)}
MCAlertRules == {[kind |-> "price_above", threshold |-> 100], [kind |-> "day_move_down", threshold |-> 10]}
MasterRow(segment, series, symbol, derivative) == [segment |-> segment, series |-> series, token |-> "token", symbol |-> symbol, derivative |-> derivative]
MCMasters == {<<MasterRow("BSE", "EQ", "OLD", FALSE), MasterRow("NSE", "BE", "OLD", FALSE), MasterRow("NSE", "EQ", "INFY", FALSE), MasterRow("NSE", "EQ", "OLD", FALSE)>>,
              <<MasterRow("NSE", "EQ", "OLD", TRUE), MasterRow("NSE", "EQ", "NEW", FALSE)>>, <<MasterRow("NSE", "EQ", "OLD", TRUE)>>}
MCUniverse == [INFY |-> "it", TCS |-> "it"]
Position(type, instrument, worth) == [type |-> type, instrument |-> instrument, value |-> worth]
MCPortfolios == {{}, {Position("listed_equity", "INFY", 101), Position("cash", Missing, 1002)},
                 {Position("listed_equity", "INFY", 40), Position("listed_equity", "TCS", 185), Position("etf", "INFY", 700), Position("listed_equity", Missing, 80)},
                 {Position("listed_equity", "INFY", 9), Position("listed_equity", "INFY", 6), Position("cash", Missing, 90), Position("gold", Missing, Missing)}}

VARIABLE part

MCInit ==
  /\ part \in {"twin", "claims", "inbox", "watch"}
  /\ TInit /\ GInit /\ IInit /\ WatchInit
  /\ inputs = [e |-> e1, p |-> p1]   \* no content differs from another but by its name
  /\ part # "claims" => value = 0

InTwin == part = "twin" /\ TNext /\ UNCHANGED <<part, claimVars, inboxVars, watchVars>>
InClaims == part = "claims" /\ GNext /\ UNCHANGED <<part, twinVars, inboxVars, watchVars>>
InInbox == part = "inbox" /\ INext /\ UNCHANGED <<part, twinVars, claimVars, watchVars>>
InWatch == part = "watch" /\ WatchNext /\ UNCHANGED <<part, twinVars, claimVars, inboxVars>>

MCSpec == MCInit /\ [][InTwin \/ InClaims \/ InInbox \/ InWatch]_<<part, twinVars, claimVars, inboxVars, watchVars>>

\* The processes of one part are those of another under the same names, so that one permutation serves all.
Symmetry == Permutations(Handlers) \cup Permutations(Claims)
=============================================================================
