---------------------------- MODULE StockCouncil ----------------------------
(***************************************************************************)
(* What a recommendation run concludes from its data: the screen, the      *)
(* ranking that decides who reaches the council, the sub-scores, the final *)
(* score and its confidence, the risk gate, and the portfolio that is      *)
(* optimised before the verdicts and made again without the rejected.      *)
(*                                                                         *)
(* Percentages are whole and the news is in tenths.  A score is in 1/Pt of *)
(* a point, where every score the inputs can produce is whole; a weight is *)
(* in 1/AllMoney of the money.  A fact that is not known is NoFact.  What  *)
(* the language model writes changes no number and is left out: a role     *)
(* that fails leaves no text.                                              *)
(***************************************************************************)
EXTENDS Integers, Sequences, FiniteSets, FiniteSetsExt, SequencesExt

CONSTANTS
  NoFact,
  Seed,            \* NIFTY50_SEED: the companies in their order
  Limit,           \* candidate_limits: screened, forecast, council
  MinVolume,       \* liquidity_screen, in lots
  WeightOf,        \* scoring.yaml: the parts of the final score, in percent
  WeightCap,       \* MAX_SINGLE_WEIGHT_BY_RISK_PROFILE, and "other"
  AllMoney,        \* all the money
  Runs             \* the runs: an owner, a market, the evidence, what the optimiser would return

VARIABLES run, verdicts

councilVars == <<run, verdicts>>

Pt == 420
Points(x) == x * Pt
Stated(x) == x # NoFact
Clip(x) == IF x < 0 THEN 0 ELSE IF x > Points(100) THEN Points(100) ELSE x
RoundDiv(x, y) == LET q == x \div y
                      r == x % y
                  IN  IF 2 * r > y \/ (2 * r = y /\ q % 2 = 1) THEN q + 1 ELSE q

\* The first step of a ladder <<limit, points>> a value is strictly above.
Above(x, ladder, last) == LET i == SelectInSeq(ladder, LAMBDA s : x > s[1]) IN Points(IF i = 0 THEN last ELSE ladder[i][2])

-----------------------------------------------------------------------------
\* The sub-scores, each NoFact where its evidence is.

Mean(parts) == IF parts = <<>> THEN NoFact ELSE Clip(FoldSeq(+, 0, parts) \div Len(parts))

FundamentalScore(e) ==
  IF ~ Stated(e.figures) THEN NoFact
  ELSE LET f == e.figures
       IN  Mean((IF Stated(f.roe) THEN <<Above(f.roe, <<<<20, 100>>, <<15, 80>>, <<10, 60>>, <<5, 40>>>>, 20)>> ELSE <<>>)
                \o (IF Stated(f.debt) THEN <<Above(-f.debt, <<<<-50, 100>>, <<-100, 80>>, <<-200, 60>>, <<-300, 40>>>>, 20)>> ELSE <<>>)
                \o (IF Stated(f.growth) THEN <<Above(f.growth, <<<<15, 100>>, <<8, 75>>, <<2, 50>>, <<-1, 30>>>>, 10)>> ELSE <<>>)
                \o (IF Stated(f.pe) /\ f.pe > 0 THEN <<Above(-f.pe, <<<<-15, 90>>, <<-25, 70>>, <<-40, 50>>>>, 30)>> ELSE <<>>)
                \o (IF Stated(f.pledged) /\ f.pledged > 50 THEN <<Points(10)>> ELSE <<>>))

Trend == [bullish |-> 20, neutral |-> 0, bearish |-> -20]
TechnicalScore(e) ==
  LET t == e.chart
      strained == Stated(t.volatility) /\ t.volatility > 60
      far == IF t.rsi > 50 THEN t.rsi - 50 ELSE 50 - t.rsi
      swing == Points(10) - (Pt \div 2) * far
  IN  IF ~ Stated(t) THEN NoFact
      ELSE IF ~ Stated(t.trend) /\ ~ Stated(t.rsi) /\ ~ Stated(t.macd) /\ ~ strained THEN NoFact
      ELSE Clip(Points(50) + (IF Stated(t.trend) THEN Points(Trend[t.trend]) ELSE 0)
                + (IF ~ Stated(t.rsi) THEN 0 ELSE IF swing < Points(-15) THEN Points(-15) ELSE swing)
                + (IF ~ Stated(t.macd) THEN 0 ELSE IF t.macd > 0 THEN Points(10) ELSE Points(-10))
                - (IF strained THEN Points(15) ELSE 0))

\* A forecast without a calibrated confidence, with hardly any, or without a direction is no evidence.
Heard(k) == Stated(k) /\ Stated(k.confidence) /\ k.confidence >= 15 /\ k.direction # "neutral"
ForecastScore(e) ==
  IF ~ Heard(e.forecast) THEN NoFact
  ELSE LET k == e.forecast
           swing == IF 4 * k.move > 40 THEN 40 ELSE 4 * k.move
       IN  Clip(Points(50) + (((IF k.direction = "bullish" THEN 1 ELSE -1) * swing * k.confidence * Pt) \div 100))

NewsScore(e) == IF ~ Stated(e.news) THEN NoFact ELSE Clip(Points(50) + ((e.news.sentiment * e.news.confidence * 2 * Pt) \div 5))

PortfolioScore(weight, cap) == IF ~ Stated(weight) THEN NoFact ELSE Clip((Points(100) * weight) \div cap)

Band(volatility) == IF ~ Stated(volatility) THEN NoFact ELSE IF volatility < 25 THEN 1 ELSE IF volatility < 45 THEN 2 ELSE 3
StepOf == [conservative |-> 1, moderate |-> 2, aggressive |-> 3]
VolatilityOf(e) == IF Stated(e.chart) THEN e.chart.volatility ELSE NoFact
RiskFit(profile, e) ==
  LET band == Band(VolatilityOf(e))
  IN  IF ~ Stated(band) \/ profile \notin DOMAIN StepOf THEN NoFact
      ELSE Points(CASE StepOf[profile] = band -> 100 [] (StepOf[profile] - band) \in {-1, 1} -> 60 [] OTHER -> 20)

\* risk_tier_score_with_breakdown: how risky the stock is in itself, from at least two of four signals.
Riskiness(e) ==
  LET signal(value, weight, ladder, last) == IF Stated(value) THEN {[weight |-> weight, points |-> Above(-value, ladder, last) \div Pt]} ELSE {}
      t == e.chart
      parts == (IF Stated(t) THEN signal(t.volatility, 40, <<<<-20, 20>>, <<-30, 40>>, <<-45, 65>>, <<-60, 85>>>>, 100)
                                  \cup signal(t.drawdown, 25, <<<<-10, 15>>, <<-20, 35>>, <<-35, 60>>, <<-50, 80>>>>, 100) ELSE {})
               \cup (IF Stated(e.figures) THEN signal(e.figures.debt, 15, <<<<-50, 15>>, <<-100, 30>>, <<-200, 55>>, <<-300, 75>>>>, 95) ELSE {})
  IN  IF Cardinality(parts) < 2 THEN NoFact
      ELSE MapThenSumSet(LAMBDA p : p.weight * p.points, parts) \div MapThenSumSet(LAMBDA p : p.weight, parts)

-----------------------------------------------------------------------------
\* compute_final_score: the weighted mean of what is known, in tenths; and how far the models agree.
Sources == DOMAIN WeightOf
Scores(r, s, weight) ==
  [fundamental |-> FundamentalScore(r.evidence[s]), technical |-> TechnicalScore(r.evidence[s]), kronos |-> ForecastScore(r.evidence[s]),
   news |-> NewsScore(r.evidence[s]), portfolio |-> PortfolioScore(weight, WeightCap[r.profile]), risk |-> RiskFit(r.profile, r.evidence[s])]
Available(scores) == {k \in Sources : Stated(scores[k])}
FinalScore(scores) ==
  LET known == Available(scores)
  IN  IF known = {} THEN 0
      ELSE RoundDiv(10 * MapThenSumSet(LAMBDA k : scores[k] * WeightOf[k], known), Pt * MapThenSumSet(LAMBDA k : WeightOf[k], known))

Direction(score) == IF ~ Stated(score) THEN NoFact ELSE IF score >= Points(60) THEN "bullish" ELSE IF score <= Points(40) THEN "bearish" ELSE "neutral"
\* The direction of a forecast counts even where its score does not.
Signals(scores, e) ==
  SelectSeq(<<Direction(scores.fundamental), IF Stated(e.chart) THEN e.chart.trend ELSE NoFact,
              IF Stated(e.forecast) THEN e.forecast.direction ELSE NoFact, Direction(scores.news)>>, Stated)
\* In 1/120, as is the quality of the data: the share of the kinds of evidence that are known.
Agreement(signals) ==
  IF Len(signals) < 2 THEN 48
  ELSE (120 * Max({Cardinality({i \in DOMAIN signals : signals[i] = d}) : d \in ToSet(signals)})) \div Len(signals)
Confidence(scores, e) ==
  LET doubled == Agreement(Signals(scores, e)) + 20 * Cardinality(Available(scores))
  IN  IF doubled >= 180 THEN "high" ELSE IF doubled >= 120 THEN "medium" ELSE "low"

\* detect_market_regime: without a trend there is no regime, whatever the volatility index says.
Stormy(m) == m.trendKnown /\ Stated(m.vix) /\ m.vix >= 20

\* apply_risk_gate
Label(scores, e, stormy) ==
  LET final == FinalScore(scores)
  IN  IF \/ Confidence(scores, e) = "low"
         \/ 10 * Cardinality(Available(scores)) < 4 * Cardinality(Sources)
         \/ Stated(scores.risk) /\ scores.risk < Points(IF stormy THEN 45 ELSE 30)
      THEN "NO_RECOMMENDATION"
      ELSE IF final >= 800 THEN "STRONG_CANDIDATE" ELSE IF final >= 650 THEN "CANDIDATE" ELSE IF final >= 500 THEN "WATCHLIST" ELSE "NO_RECOMMENDATION"

-----------------------------------------------------------------------------
\* Who reaches the council.

\* _passes_screen: no candles is a reason to leave a company out, an unknown figure is not.
Passes(e) ==
  /\ e.days > 0 /\ e.volume >= MinVolume
  /\ Stated(e.figures) => /\ ~ (Stated(e.figures.debt) /\ e.figures.debt > 300)
                          /\ ~ (Stated(e.figures.roe) /\ e.figures.roe < 0)
                          /\ ~ (Stated(e.figures.pledged) /\ e.figures.pledged > 50)
  /\ ~ (Stated(VolatilityOf(e)) /\ VolatilityOf(e) > 60)

\* Twice _prelim_score.
Twice(f, t) == IF Stated(f) /\ Stated(t) THEN f + t ELSE IF Stated(f) THEN 2 * f ELSE IF Stated(t) THEN 2 * t ELSE 0
Prelim(e) == Twice(FundamentalScore(e), TechnicalScore(e))

Place(s) == CHOOSE i \in DOMAIN Seed : Seed[i] = s
Ranked(screened, worth) == SortSeq(screened, LAMBDA a, b : worth[a] > worth[b] \/ (worth[a] = worth[b] /\ Place(a) < Place(b)))
FirstOf(ranked) == SubSeq(ranked, 1, Min({Len(ranked)} \cup ToSet(Limit)))
Candidates(r) == FirstOf(Ranked(SelectSeq(Seed, LAMBDA s : Passes(r.evidence[s])), [s \in ToSet(Seed) |-> Prelim(r.evidence[s])]))

-----------------------------------------------------------------------------
\* MeanVariancePortfolioModel.optimize.  What the solver would choose is an input: it fills the companies to the cap from
\* one end or the other, or finds no solution; it has none where the caps do not add up to all the money.
NoPortfolio == [weights |-> <<>>, cash |-> AllMoney]
Smaller(x, y) == IF x < y THEN x ELSE y
Weighted(names, w(_)) == [s \in {names[i] : i \in {j \in DOMAIN names : w(j) > 0}} |-> w(CHOOSE i \in DOMAIN names : names[i] = s)]
Portfolio(weights) == [weights |-> weights, cash |-> AllMoney - MapThenSumSet(LAMBDA s : weights[s], DOMAIN weights)]

Optimise(names, cap, solver) ==
  LET n == Len(names)
      filled(i) == LET left == AllMoney - (i - 1) * cap IN IF left < 0 THEN 0 ELSE Smaller(left, cap)
  IN  IF n = 1 THEN Portfolio(Weighted(names, LAMBDA i : Smaller(AllMoney, cap)))
      ELSE IF solver = "none" \/ n * cap < AllMoney THEN Portfolio(Weighted(names, LAMBDA i : Smaller(AllMoney \div n, cap)))
      ELSE Portfolio(Weighted(IF solver = "first" THEN names ELSE Reverse(names), filled))

WeightIn(p, s) == IF s \in DOMAIN p.weights THEN p.weights[s] ELSE NoFact

\* Mutant: what was optimised before the verdicts is published as it is.
DraftPublished(r, draft, kept, label) == draft

\* Once a rejected stock has a weight, the portfolio is made again from those that were not rejected.
Published(r, draft, kept, label) ==
  IF \A s \in DOMAIN draft.weights : label[s] # "NO_RECOMMENDATION" THEN draft
  ELSE IF kept = <<>> THEN NoPortfolio ELSE Optimise(kept, WeightCap[r.profile], r.solver)

\* run_recommendation_pipeline from the screen to the last commit: the candidates, the portfolio they would make, their
\* scores in it, their labels, and what is published.
DraftOf(r, traded) == IF traded = <<>> THEN NoPortfolio ELSE Optimise(traded, WeightCap[r.profile], r.solver)
Verdicts(r, traded, draft, scores, label) ==
  [label |-> label, scores |-> scores, traded |-> ToSet(traded),
   portfolio |-> Published(r, draft, SelectSeq(traded, LAMBDA s : label[s] # "NO_RECOMMENDATION"), label)]
Labelled(r, traded, draft, scores) ==
  Verdicts(r, traded, draft, scores, [s \in DOMAIN scores |-> Label(scores[s], r.evidence[s], Stormy(r.market))])
WithScores(r, candidates, traded, draft) == Labelled(r, traded, draft, [s \in ToSet(candidates) |-> Scores(r, s, WeightIn(draft, s))])
Drafted(r, candidates, traded) == WithScores(r, candidates, traded, DraftOf(r, traded))
WithTraded(r, candidates) == Drafted(r, candidates, SelectSeq(candidates, LAMBDA s : r.evidence[s].days >= 30))
Concluded(r) == WithTraded(r, Candidates(r))

Pending == [label |-> <<>>]

CouncilInit == run \in Runs /\ verdicts = Pending

Publish ==
  /\ verdicts = Pending
  /\ verdicts' = Concluded(run)
  /\ UNCHANGED run

CouncilSpec == CouncilInit /\ [][Publish]_councilVars

-----------------------------------------------------------------------------
Accepted == {s \in DOMAIN verdicts.label : verdicts.label[s] # "NO_RECOMMENDATION"}
Decided == verdicts # Pending

\* Money goes only to stocks that were accepted and have a history, no stock gets more than its cap, and what stays in cash
\* is exactly what the caps of the accepted ones leave: a rejection is final and its weight is not lost.
MoneyFollowsVerdicts ==
  LET w == verdicts.portfolio.weights
      cap == WeightCap[run.profile]
  IN  /\ DOMAIN w \subseteq Accepted \cap verdicts.traded
      /\ \A s \in DOMAIN w : w[s] \in 1 .. cap
      /\ verdicts.portfolio.cash = AllMoney - Smaller(AllMoney, cap * Cardinality(Accepted \cap verdicts.traded))

\* Whoever is left out before the council did not pass the screen or ranks no better than everyone who reached it.
BestHeard ==
  \A s \in ToSet(Seed) \ DOMAIN verdicts.label : Passes(run.evidence[s]) =>
    \A c \in DOMAIN verdicts.label : Prelim(run.evidence[s]) <= Prelim(run.evidence[c])

\* A verdict in a stormy market is never better than in a calm one.
Standing == [NO_RECOMMENDATION |-> 0, WATCHLIST |-> 1, CANDIDATE |-> 2, STRONG_CANDIDATE |-> 3]
StormNeverHelps ==
  \A s \in DOMAIN verdicts.label :
    Standing[Label(verdicts.scores[s], run.evidence[s], TRUE)] <= Standing[Label(verdicts.scores[s], run.evidence[s], FALSE)]

\* No stock is recommended on less than half of the kinds of evidence, or to an owner two bands away from its volatility.
EvidenceSuffices ==
  \A s \in Accepted :
    /\ 2 * Cardinality(Available(verdicts.scores[s])) >= Cardinality(Sources)
    /\ ~ (run.profile = "conservative" /\ Band(VolatilityOf(run.evidence[s])) = 3)
    /\ ~ (run.profile = "aggressive" /\ Band(VolatilityOf(run.evidence[s])) = 1)

\* A stock that swings more, everything else equal, is never classed as safer; and no class rests on one signal.
SwingsNeverReassure ==
  \A s \in DOMAIN verdicts.label :
    LET e == run.evidence[s]
    IN  Stated(VolatilityOf(e)) /\ Stated(Riskiness(e)) => Riskiness(e) <= Riskiness([e EXCEPT !.chart.volatility = @ + 20])

\* The verdicts of a run and its money.
CouncilSound == Decided => MoneyFollowsVerdicts /\ BestHeard /\ StormNeverHelps /\ EvidenceSuffices /\ SwingsNeverReassure
=============================================================================
