---------------------------- MODULE StockRanking ----------------------------
(***************************************************************************)
(* The two screens of direct stocks: the ranking on value, quality and     *)
(* momentum (scoring/ranking.py) with the candidates a plan picks from     *)
(* (allocation/select.py) and the status shown beside every stock          *)
(* (allocation/service.py), and the older checklist (scoring/checklist.py) *)
(* with its own picks.  The facts of the universe are inputs.              *)
(*                                                                         *)
(* Ratios are integers in parts of Unit; scores are tenths of a percent.   *)
(***************************************************************************)
EXTENDS Integers, Sequences, FiniteSets, FiniteSetsExt, SequencesExt

CONSTANTS
  NoValue,                \* a figure that is not known
  Listed,                 \* the stocks of the universe
  Unit,                   \* ratios are rounded down to 1 / Unit
  Layout,                 \* measures of each component: [BOOLEAN -> [component -> set]], by being financial
  LowerIsBetter,          \* measures where less is better
  MinMeasures,            \* measures a component needs
  MinActive, MinPeers, ShrinkK,
  RankWeight, RankFloor,  \* weight of each component; the floor of the composite
  MinTurnover,            \* traded value of an ETF that can be bought
  PerSector, MostCandidates, HeldCap,    \* picks of one sector; picks in all; the cap of one stock in Unit parts
  Ladders,                \* checklist: measure -> <<threshold, points>> pairs, best first
  CheckWeight, CheckFloor, MinRelative,
  Restated,               \* companies whose facts may be fetched again
  Universes               \* inputs tried: [facts, sector, liquid, turnover, direct, fund, etfs]

ASSUME RankingAssumption == MinPeers \in Nat \ {0, 1} /\ Unit \in Nat \ {0}

Components == {"value", "quality", "momentum"}

VARIABLES
  universe,     \* the facts of one day, and what the owner holds
  ranking,      \* symbol -> row of the ranking; empty before it is computed
  candidates,   \* the ranked satellite, best first
  chosen,       \* the ETF of each group that has one
  shown,        \* symbol -> status beside the stock
  checks, checkPicks,   \* the checklist: symbol -> row; sector -> pick
  stored        \* the first row of the day of each stock, by method

rankingVars == <<universe, ranking, candidates, chosen, shown, checks, checkPicks, stored>>

SectorOf(s) == universe.sector[s]
Financial(s) == SectorOf(s) = "financial"
Group(fin) == {s \in Listed : Financial(s) = fin}
Size(n) == IF n < 0 THEN -n ELSE n
RoundHalf(num, den) == (2 * num + den) \div (2 * den)

-----------------------------------------------------------------------------
(* Measures.  A denominator that is unknown, zero, negative or implausible gives none. *)

EarningsYield(f) == IF NoValue \in {f.eps, f.price} THEN NoValue ELSE IF f.price <= 0 THEN NoValue ELSE (Unit * f.eps) \div f.price

\* Figures based on the market cap are trusted when they agree with the figures per share: same sign, within a factor of two.
CapTrusted(f) ==
  /\ NoValue \notin {f.pat, f.cap, f.eps, f.price}
  /\ f.cap > 0 /\ f.price > 0
  /\ IF f.pat * f.eps <= 0 THEN f.pat = 0 /\ f.eps = 0
     ELSE LET a == Size(f.pat) * f.price
              b == Size(f.eps) * f.cap
          IN b <= 2 * a /\ a <= 2 * b

BookYield(f) == IF f.pb = NoValue THEN NoValue ELSE IF f.pb <= 0 THEN NoValue ELSE Unit \div f.pb

Roe(f) == IF CapTrusted(f) /\ f.pb # NoValue /\ BookYield(f) # NoValue THEN (Unit * f.pat * f.pb) \div f.cap ELSE f.roe

\* Dividends over earnings, at most all of them; undefined for a loss, and dropped when the two are on different bases.
Payout(f) ==
  IF NoValue \in {f.dividend, f.eps} THEN NoValue
  ELSE IF f.eps <= 0 \/ f.dividend > 3 * f.eps THEN NoValue ELSE Min({(Unit * f.dividend) \div f.eps, Unit})

Raw(s, measure) ==
  LET f == universe.facts[s]
  IN CASE measure = "earnings" -> EarningsYield(f)
       [] measure = "book" -> BookYield(f)
       [] measure = "roe" -> Roe(f)
       [] measure = "payout" -> Payout(f)
       [] OTHER -> f[measure]

-----------------------------------------------------------------------------
(* Percentiles among comparable businesses. *)

Knowing(fin, measure) == {s \in Group(fin) : Raw(s, measure) # NoValue}

Active(fin) == {x \in UNION {Layout[fin][c] : c \in Components} : Cardinality(Knowing(fin, x)) >= MinActive}

\* The n-th smallest value, ties counted.
Nth(values, n) == SetToSortSeq(values, LAMBDA p, q : p[2] < q[2])[n][2]

\* Values are pulled in to the 5th and the 95th percentile, which are observations; more is then better for every measure.
PulledTo(v, low, high) == Min({Max({v, low}), high})
Clipped(values, sign, low, high) == [s \in {v[1] : v \in values} |-> sign * PulledTo((CHOOSE v \in values : v[1] = s)[2], low, high)]
PulledIn(values, n, sign) ==
  Clipped(values, sign, Nth(values, 1 + (5 * (n - 1) + 99) \div 100), Nth(values, 1 + (95 * (n - 1)) \div 100))
Pulled(fin, measure) ==
  PulledIn({<<s, Raw(s, measure)>> : s \in Knowing(fin, measure)}, Cardinality(Knowing(fin, measure)), IF measure \in LowerIsBetter THEN -1 ELSE 1)

\* Mid-rank percentile among peers that include s, in tenths.
MidRank(pulled, s, peers) ==
  LET below == Cardinality({x \in peers : pulled[x] < pulled[s]})
      equal == Cardinality({x \in peers : pulled[x] = pulled[s]})
  IN RoundHalf(500 * (2 * below + equal - 1), Cardinality(peers) - 1)

\* The sector's view, shrunk toward the whole group when the sector is small.
Shrunk(pulled, s, sector, n, all) ==
  LET oneSector == \A x \in Group(Financial(s)) : SectorOf(x) = SectorOf(s)
  IN IF n < MinPeers \/ oneSector THEN all
     ELSE RoundHalf(n * MidRank(pulled, s, sector) + ShrinkK * all, n + ShrinkK)
AmongPeers(s, pulled, sector) == Shrunk(pulled, s, sector, Cardinality(sector), MidRank(pulled, s, DOMAIN pulled))
Beside(s, pulled) == AmongPeers(s, pulled, {x \in DOMAIN pulled : SectorOf(x) = SectorOf(s)})
Percentile(s, measure) == Beside(s, Pulled(Financial(s), measure))

-----------------------------------------------------------------------------
(* Components and the composite: a gap is left out, and a component with too many gaps makes the stock unranked. *)

Counted(s, c) == {x \in Layout[Financial(s)][c] \cap Active(Financial(s)) :
                    Raw(s, x) # NoValue /\ Cardinality(Knowing(Financial(s), x)) >= MinPeers}

Usable(s, c) ==
  LET active == Layout[Financial(s)][c] \cap Active(Financial(s))
      known == Cardinality(Counted(s, c))
  IN /\ known >= MinMeasures[c] /\ active # {} /\ 2 * known >= Cardinality(active)
     /\ c = "momentum" => "long" \in Counted(s, c)

ComponentScore(measures, counted) == RoundHalf(MapThenSumSet(LAMBDA x : measures[x], counted), Cardinality(counted))

Composite(s, measures) == RoundHalf(MapThenSumSet(LAMBDA c : RankWeight[c] * ComponentScore(measures, Counted(s, c)), Components),
                                    MapThenSumSet(LAMBDA c : RankWeight[c], Components))

RankedRow(measures, score) ==
  [composite |-> score, measures |-> measures,
   status |-> IF score = NoValue THEN "not_ranked" ELSE IF score < RankFloor THEN "below_floor" ELSE "eligible"]
RowFrom(s, measures) == RankedRow(measures, IF \A c \in Components : Usable(s, c) THEN Composite(s, measures) ELSE NoValue)
RankRow(s) == RowFrom(s, [x \in UNION {Counted(s, c) : c \in Components} |-> Percentile(s, x)])

-----------------------------------------------------------------------------
(* Candidates. *)

\* What is held of a stock: directly, and through index funds by its share of the trusted market caps.
Held(s) ==
  LET trusted == {x \in Listed : CapTrusted(universe.facts[x])}
      caps == MapThenSumSet(LAMBDA x : universe.facts[x].cap, trusted)
  IN universe.direct[s] + IF s \in trusted THEN (universe.fund * universe.facts[s].cap) \div caps ELSE 0

Better(s, x) == LET a == ranking[s].composite
                    b == ranking[x].composite
                IN a > b \/ (a = b /\ universe.turnover[s] > universe.turnover[x])

\* Mutant: what the funds hold is not looked at.
AllowedDirect(s) == ranking[s].status = "eligible" /\ s \in universe.liquid /\ universe.direct[s] < HeldCap

Allowed(s) == ranking[s].status = "eligible" /\ s \in universe.liquid /\ Held(s) < HeldCap

RankedSatellite ==
  LET best == SetToSortSeq({s \in Listed : Allowed(s)}, Better)
      picked == FoldLeft(LAMBDA out, s : IF Len(SelectSeq(out, LAMBDA x : SectorOf(x) = SectorOf(s))) >= PerSector
                                         THEN out ELSE Append(out, s), <<>>, best)
  IN SubSeq(picked, 1, Min({MostCandidates, Len(picked)}))

\* One ETF of a group that follows the same index: among those traded enough against the most traded one the cheapest
\* whose cost is known, ties to the more traded; the most traded one when no cost is known.
Traded == {e \in DOMAIN universe.etfs : universe.etfs[e].fresh /\ universe.etfs[e].turnover >= MinTurnover}

\* A liquid ETF that pays its income out in units is taken only when none grows instead.
InGroup(g) == LET all == {e \in Traded : universe.etfs[e].group = g}
                  growth == {e \in all : ~universe.etfs[e].pays}
              IN IF g = "liquid" /\ growth # {} THEN growth ELSE all

ChooseEtf(g) ==
  LET etf == universe.etfs
      leader == CHOOSE e \in InGroup(g) : \A o \in InGroup(g) \ {e} : etf[e].turnover > etf[o].turnover
      known == {e \in InGroup(g) : 5 * etf[e].turnover >= etf[leader].turnover /\ etf[e].ter # NoValue}
  IN IF known = {} THEN leader
     ELSE CHOOSE e \in known : \A o \in known \ {e} : etf[e].ter < etf[o].ter \/ (etf[e].ter = etf[o].ter /\ etf[e].turnover > etf[o].turnover)

\* The status shown beside a stock, with the reason that goes with it.
StatusOf(s, cand, inPlan) ==
  CASE ranking[s].status \in {"not_ranked", "below_floor"} -> ranking[s].status
    [] ranking[s].status = "eligible" /\ s \notin universe.liquid -> "not liquid"
    [] ranking[s].status = "eligible" /\ s \in universe.liquid /\ Held(s) >= HeldCap -> "at the cap"
    [] OTHER -> IF ~inPlan \/ s \in cand THEN "candidate" ELSE "better ones of its sector are candidates"

-----------------------------------------------------------------------------
(* The checklist. *)

\* Price over earnings at today's price; a stored figure far from it means the two are on different bases.
Pe(f) ==
  IF NoValue \in {f.eps, f.price} THEN NoValue
  ELSE IF f.eps <= 0 THEN NoValue
  ELSE LET pe == f.price \div f.eps
       IN IF f.pe # NoValue /\ ~(f.pe <= 2 * pe /\ 10 * pe <= 16 * f.pe) THEN NoValue ELSE pe

\* Cheapest of the group first.
RankPoints(value, peers, of) ==
  LET below == Cardinality({x \in peers : of[x] < value})
      equal == Cardinality({x \in peers : of[x] = value})
  IN 1000 - RoundHalf(500 * (2 * below + equal - 1), Max({Cardinality(peers) - 1, 1}))

Rung(x, measure) == LET rung == SelectInSeq(Ladders[measure].steps, LAMBDA step : x > step[1])
                    IN IF rung = 0 THEN Ladders[measure].otherwise ELSE Ladders[measure].steps[rung][2]

\* A loss scores nothing on price over earnings; other gaps are left out.
ValuationParts(s) ==
  LET f == universe.facts[s]
      group == Group(Financial(s))
      pe == [x \in {y \in group : Pe(universe.facts[y]) # NoValue} |-> Pe(universe.facts[x])]
      pb == [x \in {y \in group : BookYield(universe.facts[y]) # NoValue} |-> universe.facts[x].pb]
  IN (IF s \in DOMAIN pe THEN (IF Cardinality(DOMAIN pe) >= MinRelative THEN {<<"pe", RankPoints(pe[s], DOMAIN pe, pe)>>} ELSE {})
      ELSE IF NoValue \notin {f.eps, f.price} THEN (IF f.eps <= 0 THEN {<<"pe", 0>>} ELSE {}) ELSE {})
     \cup (IF s \in DOMAIN pb /\ Cardinality(DOMAIN pb) >= MinRelative THEN {<<"pb", RankPoints(pb[s], DOMAIN pb, pb)>>} ELSE {})

LadderParts(s, measures) ==
  {<<x, Rung(IF x \in LowerIsBetter THEN -universe.facts[s][x] ELSE universe.facts[s][x], x)>> :
     x \in {y \in measures : universe.facts[s][y] # NoValue /\ ~(Financial(s) /\ y \in {"margin", "debt"})}}

CheckParts(s, c) ==
  CASE c = "valuation" -> ValuationParts(s)
    [] c = "quality" -> LadderParts(s, {"roe", "margin", "growth"})
    [] c = "balance" -> LadderParts(s, {"debt"})
    [] c = "risk" -> LadderParts(s, {"volatility"})

CheckWeightOf(cs) == MapThenSumSet(LAMBDA c : CheckWeight[c], cs)
MeanPoints(parts) == RoundHalf(MapThenSumSet(LAMBDA part : part[2], parts), Cardinality(parts))
Loss(s) == universe.facts[s].eps # NoValue /\ universe.facts[s].eps <= 0
CheckScored(score) == [score |-> score, status |-> IF score < CheckFloor THEN "below_floor" ELSE "eligible"]
CheckMean(s, parts, known) ==
  LET needed == DOMAIN CheckWeight \ (IF Financial(s) THEN {"balance"} ELSE {})
      plain == RoundHalf(MapThenSumSet(LAMBDA c : CheckWeight[c] * MeanPoints(parts[c]), known), CheckWeightOf(known))
  IN IF known = {} \/ 10 * CheckWeightOf(known) < 6 * CheckWeightOf(needed) THEN [score |-> NoValue, status |-> "not_scored"]
     ELSE CheckScored(IF Loss(s) THEN Min({plain, CheckFloor - 1}) ELSE plain)
CheckOf(s, parts) == CheckMean(s, parts, {c \in DOMAIN parts : parts[c] # {}})
CheckRow(s) == CheckOf(s, [c \in DOMAIN CheckWeight |-> CheckParts(s, c)])

\* The best of each sector, nothing from a sector without one.
CheckPicksOf ==
  LET fit == {s \in universe.liquid : checks[s].status = "eligible"}
      above(s, x) == checks[s].score > checks[x].score \/ (checks[s].score = checks[x].score /\ universe.turnover[s] > universe.turnover[x])
  IN {s \in fit : \A x \in fit \ {s} : SectorOf(x) = SectorOf(s) => above(s, x)}

-----------------------------------------------------------------------------
(* One request after another: the ranking of the day, the candidates, the table; and the table of the checklist. *)

RankingInit ==
  /\ universe \in Universes
  /\ ranking = <<>> /\ candidates = <<>> /\ chosen = <<>> /\ shown = <<>> /\ checks = <<>> /\ checkPicks = {}
  /\ stored = [ranking |-> <<>>, checklist |-> <<>>]

\* A row is stored once for a price date and a method, and stays as it was; a stock without a price has none.
Stored(old, rows) == [x \in {s \in Listed : universe.facts[s].price # NoValue} |-> IF x \in DOMAIN old THEN old[x] ELSE rows[x]]

Rank ==
  /\ ranking = <<>>
  /\ ranking' = [s \in Listed |-> RankRow(s)]
  /\ stored' = [stored EXCEPT !.ranking = Stored(@, ranking')]
  /\ UNCHANGED <<universe, candidates, chosen, shown, checks, checkPicks>>

\* One request: the candidates of the day and the table of every stock beside them, with or without a plan.
ShowTable ==
  /\ ranking # <<>> /\ shown = <<>>
  /\ candidates' = RankedSatellite
  /\ chosen' = [g \in {universe.etfs[e].group : e \in Traded} |-> ChooseEtf(g)]
  /\ \E inPlan \in BOOLEAN : shown' = [s \in Listed |-> StatusOf(s, ToSet(RankedSatellite), inPlan)]
  /\ UNCHANGED <<universe, ranking, checks, checkPicks, stored>>

Check ==
  /\ checks = <<>>
  /\ checks' = [s \in Listed |-> CheckRow(s)]
  /\ stored' = [stored EXCEPT !.checklist = Stored(@, checks')]
  /\ UNCHANGED <<universe, ranking, candidates, chosen, shown, checkPicks>>

PickChecked ==
  /\ checks # <<>>
  /\ checkPicks' = CheckPicksOf
  /\ UNCHANGED <<universe, ranking, candidates, chosen, shown, checks, stored>>

\* The facts of a company are fetched again later that day, and the next request starts over.
Restate ==
  /\ shown # <<>> /\ checkPicks # {}
  /\ \E s \in Restated :
       /\ universe.facts[s].eps # 0
       /\ universe' = [universe EXCEPT !.facts[s].eps = 0]
  /\ ranking' = <<>> /\ candidates' = <<>> /\ chosen' = <<>> /\ shown' = <<>> /\ checks' = <<>> /\ checkPicks' = {}
  /\ UNCHANGED stored

RankingNext == Rank \/ ShowTable \/ Check \/ PickChecked \/ Restate

-----------------------------------------------------------------------------
(* Properties. *)

\* The picks of both screens: ranked on every component with a share of the measures that is large enough, liquid, below
\* the cap through shares and funds together, at most PerSector of a sector, and nothing better was left out but for its
\* sector; an ETF of unknown cost is taken only when those of known cost are traded far less; a loss is never cheaper than a profit in its sector, nor picked by the checklist
\* (select.py: _ranked_satellite; ranking.py, checklist.py: score_universe).
PicksFair ==
  /\ \A n \in DOMAIN candidates :
       LET s == candidates[n]
       IN /\ s \in universe.liquid /\ ranking[s].composite >= RankFloor /\ Held(s) < HeldCap
          /\ Cardinality({x \in ToSet(candidates) : SectorOf(x) = SectorOf(s)}) <= PerSector
          /\ \A c \in Components : 2 * Cardinality({x \in Layout[Financial(s)][c] : Raw(s, x) # NoValue /\ x \in Active(Financial(s))})
                                     >= Cardinality(Layout[Financial(s)][c] \cap Active(Financial(s)))
          /\ \A x \in Listed \ ToSet(candidates) :
               Allowed(x) /\ Better(x, s) =>
                 Cardinality({y \in ToSet(candidates) : SectorOf(y) = SectorOf(x) /\ ~Better(x, y)}) >= PerSector
  /\ ranking # <<>> =>
       \A s, x \in {y \in Listed : "earnings" \in DOMAIN ranking[y].measures} :
         SectorOf(s) = SectorOf(x) /\ universe.facts[s].eps <= 0 /\ universe.facts[x].eps > 0
           => ranking[s].measures["earnings"] <= ranking[x].measures["earnings"]
  /\ \A g \in DOMAIN chosen :
       \A e \in InGroup(g) :
         LET etf == universe.etfs
         IN \* a cheaper one is passed over only for being traded too little
            etf[e].ter # NoValue /\ etf[chosen[g]].ter = NoValue =>
              \E l \in InGroup(g) : 5 * etf[e].turnover < etf[l].turnover
  /\ \A s \in checkPicks : universe.facts[s].eps # NoValue => universe.facts[s].eps > 0

=============================================================================
