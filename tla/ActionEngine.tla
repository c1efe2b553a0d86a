---------------------------- MODULE ActionEngine ----------------------------
(***************************************************************************)
(* The counterfactual action engine (decisions/engine.py): one baseline is *)
(* frozen, the same contribution and withdrawal are applied to HOLD and to *)
(* every alternative, each alternative passes gates and is compared with   *)
(* HOLD.  A "lab" request evaluates alternatives each on its own copy; a   *)
(* "plan" applies its purchases one after another.                         *)
(*                                                                         *)
(* Money is counted in paise and the assumed friction is a fraction of the *)
(* trade, rounded half up.  Weights are rounded to Grain parts.            *)
(***************************************************************************)
EXTENDS Integers, Sequences, FiniteSets, FiniteSetsExt, SequencesExt

CONSTANTS
  CashPositions, Stocks, Funds,   \* what the baseline may hold; a fund is not looked through
  Price, Lot, Sector,             \* of what can be bought (Sector of stocks only)
  FeeNum, FeeDen,                 \* fee_pct
  Grain,                          \* weights are multiples of 1 / Grain
  MaxCost,                        \* friction allowed, in percent of the trade
  MinAction, IssuerLimit, SectorLimit, Slack, FreshShare,   \* POLICY, weights in Grain parts
  Threshold,                      \* POLICY["materiality"] of each metric
  Scenarios,                      \* supported stress scenarios: the sector hit ("all" for every stock) and the fall in percent
  GoalMonths,                     \* what one unit more a month adds to the projection of the goal
  Baselines, Claims, Flows, Rules, Requests,   \* inputs tried
  MaxActions                      \* bound: alternatives of one request

ASSUME EngineAssumption == FeeNum \in Nat /\ FeeDen \in Nat \ {0} /\ Grain \in Nat \ {0} /\ MinAction \in Nat

VARIABLES
  asked,         \* the frozen request: mode, baseline values, claims, flows, rules of the owner
  flowed,        \* positions after the flows
  alternatives   \* what has been evaluated, in the order of the request

engineVars == <<asked, flowed, alternatives>>

Instruments == Stocks \cup Funds
New == "new money"
Proceeds == "sale proceeds"
Cash == CashPositions \cup {New, Proceeds}

Total(positions) == MapThenSumSet(LAMBDA p : positions[p], DOMAIN positions)
Of(positions, group) == MapThenSumSet(LAMBDA p : positions[p], group \cap DOMAIN positions)
HalfUp(num, den) == (2 * num + den) \div (2 * den)
Least(a, b) == IF a <= b THEN a ELSE b
Positive(a) == IF a > 0 THEN a ELSE 0

\* Mutant: claims are ignored.
WholeValue(positions, claims, p) == positions[p]

\* What goals have not claimed of a position; new money and the proceeds of a sale carry no claim.
Free(positions, claims, p) == IF p \in DOMAIN claims THEN Positive(positions[p] - claims[p]) ELSE positions[p]

Unclaimed(positions, claims, group) == MapThenSumSet(LAMBDA p : Free(positions, claims, p), group \cap DOMAIN positions)

-----------------------------------------------------------------------------
(* Flows and funding. *)

LargestFirst(positions, group) ==
  SetToSortSeq(group \cap DOMAIN positions, LAMBDA p, q : positions[p] > positions[q])

\* Takes `amount` from the pool in its order; `rest` is what the pool does not cover.
Take(positions, claims, pool, amount) ==
  FoldLeft(LAMBDA done, p :
             LET taken == Least(Free(done.positions, claims, p), done.rest)
             IN [positions |-> [done.positions EXCEPT ![p] = @ - taken], rest |-> done.rest - taken],
           [positions |-> positions, rest |-> amount], pool)

\* The contribution becomes a cash position; a withdrawal is paid from it, then from unclaimed cash, largest first.
ApplyFlows(baseline, claims, flows) ==
  LET with == [p \in DOMAIN baseline \cup {New} |-> IF p = New THEN flows.contribution ELSE baseline[p]]
  IN Take(with, claims, <<New>> \o LargestFirst(baseline, CashPositions), flows.withdrawal)

TakeCash(positions, claims, amount, funding) ==
  Take(positions, claims, IF funding = "new_money" THEN <<New>> ELSE LargestFirst(positions, CashPositions), amount)

-----------------------------------------------------------------------------
(* The risk picture, as far as gates and the comparison use it (risk/exposure.py, risk/stress.py). *)

Weight(part, total) == HalfUp(part * Grain, total)

LargestOf(values) == Max(values \cup {0})

\* One shock on the stocks it covers; funds are a gap in the coverage, never flat.
ScenarioLoss(sc, positions, held) == HalfUp(sc.fall * Of(positions, {s \in held : sc.sector \in {"all", Sector[s]}}), 100)

\* Concentration over the direct stocks, the worst of the scenarios, what is not looked through and what is valued fresh.
Exposure(positions, rules) ==
  LET total == Total(positions)
      held == {s \in Stocks \cap DOMAIN positions : positions[s] > 0}
      identified == Of(positions, held)
      squares == MapThenSumSet(LAMBDA s : positions[s] * positions[s], held)
      bySector == {Of(positions, {s \in held : Sector[s] = x}) : x \in {Sector[s] : s \in held}}
  IN (IF held = {} THEN <<>>
      ELSE "issuer" :> Weight(LargestOf({positions[s] : s \in held}), total)
           @@ "sector" :> Weight(LargestOf(bySector), total)
           @@ "spread" :> HalfUp(100 * identified * identified, squares))
     @@ (IF total = 0 THEN <<>>
         ELSE "loss" :> Weight(LargestOf({ScenarioLoss(sc, positions, held) : sc \in Scenarios}), total)
              @@ "unknown" :> Weight(Of(positions, Funds), total)
              @@ "fresh" :> Weight(Of(positions, DOMAIN positions \ rules.stale), total))

\* Unclaimed cash in units of the monthly outgo; without the outgo it means nothing.
CashMonths(positions, claims, rules) == IF rules.outgo THEN "months" :> Unclaimed(positions, claims, Cash) ELSE <<>>

\* Metrics that cannot be measured are absent; `gap` is what the linked goals fall short of, -1 when none can be projected.
Metrics(positions, claims, rules, gap) ==
  Exposure(positions, rules) @@ CashMonths(positions, claims, rules) @@ (IF gap < 0 THEN <<>> ELSE "goals" :> gap)

-----------------------------------------------------------------------------
(* Gates.  An outcome carries the gates that failed and those whose answer is unknown. *)

Outcome(positions, friction, fails, unknown) ==
  [positions |-> positions, friction |-> friction, fails |-> fails, unknown |-> unknown,
   review |-> FALSE, adds |-> FALSE]

If(condition, id) == IF condition THEN {id} ELSE {}

ConcentrationGates(before, after) ==
  LET exceeds(key, limit) ==
        /\ key \in DOMAIN after /\ after[key] > limit
        /\ key \in DOMAIN before => after[key] > before[key] + Slack
  IN If(exceeds("issuer", IssuerLimit), "max_issuer_weight") \cup If(exceeds("sector", SectorLimit), "max_sector_weight")

FreshnessUnknown(after) == If("fresh" \notin DOMAIN after \/ after["fresh"] < FreshShare, "data_freshness")

\* Risk may not be added when tolerance or capacity block it; a block made of missing answers only is unknown.
RiskFails(rules, adds) == If(adds /\ rules.limiting # {} /\ ~(rules.limiting \subseteq {"tolerance_unknown", "capacity_unknown"}), "risk_capacity")
RiskUnknown(rules, adds) == If(adds /\ rules.limiting # {} /\ rules.limiting \subseteq {"tolerance_unknown", "capacity_unknown"}, "risk_capacity")

\* Funds pay for a fund that moves like cash without adding risk; every stock adds risk.
AddsRisk(i, rules) == i \notin rules.cashLike

Units(amount, i) == ((amount * FeeDen) \div (Price[i] * (FeeDen + FeeNum) * Lot[i])) * Lot[i]

Friction(trade) == HalfUp(trade * FeeNum, FeeDen)

\* A purchase: pre-trade gates, whole lots within the amount, funding of trade and friction, then gates on what was bought.
EvaluateBuy(a, rules, positions, claims) ==
  LET i == a.target
      available == IF a.funding = "new_money" THEN positions[New] ELSE Unclaimed(positions, claims, CashPositions)
      pre == If(a.amount > available, "funding_available") \cup If(a.amount < MinAction, "min_action_size")
      old == If(i \in rules.oldPrice, "price_available")
      trade == Units(a.amount, i) * Price[i]
      funded == TakeCash(positions, claims, trade + Friction(trade), a.funding)
      bought == [p \in DOMAIN positions \cup {i} |-> IF p # i THEN funded.positions[p]
                                                     ELSE trade + IF i \in DOMAIN positions THEN positions[i] ELSE 0]
      refused(fails, unknown, left) == [Outcome(left, 0, fails, unknown) EXCEPT !.adds = TRUE]
  IN CASE pre # {} -> refused(pre, {}, positions)
       [] i \in rules.noPrice -> refused({"price_available"}, {}, positions)
       [] Units(a.amount, i) < Lot[i] -> refused({"lot_size"}, old, positions)
       [] funded.rest > 0 -> refused({"funding_available"}, old, funded.positions)
       [] OTHER -> [Outcome(bought, Friction(trade),
                            If(i \in rules.excluded, "user_restrictions")
                            \cup If(100 * Friction(trade) > MaxCost * trade, "cost_reasonable"), old)
                      EXCEPT !.adds = AddsRisk(i, rules)]

\* A sale is a preview: its tax is unknown, so it always needs a review.
EvaluateReduce(a, positions, claims) ==
  LET p == a.target
      friction == Friction(a.amount)
      fails == If(a.amount > positions[p], "sale_within_holding")
               \cup If(positions[p] - a.amount < (IF p \in DOMAIN claims THEN claims[p] ELSE 0), "not_claimed_for_goals")
      sold == [x \in DOMAIN positions \cup {Proceeds} |-> IF x = Proceeds THEN a.amount - friction
                                                         ELSE IF x = p THEN positions[p] - a.amount ELSE positions[x]]
  IN IF a.amount > positions[p] THEN [Outcome(positions, 0, fails, {"tax_lots_known"}) EXCEPT !.review = TRUE]
     ELSE [Outcome(sold, friction, fails, {"tax_lots_known"}) EXCEPT !.review = TRUE]

\* A designation moves nothing.
EvaluateReserve(a, positions, claims) ==
  Outcome(positions, 0, If(a.amount > Unclaimed(positions, claims, Cash), "cash_available"), {})

\* The shortfall of the goal an alternative leads to: only a changed contribution to that goal moves it.
GoalGap(a, rules) ==
  IF a.type = "ADJUST_CONTRIBUTION" /\ a.target = "goal" /\ rules.goalGap >= 0
  THEN Positive(rules.goalGap - GoalMonths * a.amount) ELSE rules.goalGap

\* A changed monthly contribution moves nothing now; more of it must fit the monthly budget, which may be unknown.
EvaluateContribution(a, rules, positions) ==
  Outcome(positions, 0, If(a.amount > 0 /\ rules.budget >= 0 /\ a.amount > rules.budget, "budget_available"),
          If(a.amount > 0 /\ rules.budget < 0, "budget_available"))

Evaluated(a, rules, positions, claims) ==
  CASE a.type = "BUY" -> EvaluateBuy(a, rules, positions, claims)
    [] a.type = "REDUCE_PREVIEW" -> EvaluateReduce(a, positions, claims)
    [] a.type = "RESERVE" -> EvaluateReserve(a, positions, claims)
    [] a.type = "ADJUST_CONTRIBUTION" -> EvaluateContribution(a, rules, positions)

\* Gates on the whole portfolio an alternative leads to.
WithFinalGates(a, outcome, hold, after, rules) ==
  LET trades == a.type \in {"BUY", "REDUCE_PREVIEW"}
  IN [outcome EXCEPT
       !.fails = @ \cup IF trades THEN ConcentrationGates(hold, after) \cup RiskFails(rules, outcome.adds) ELSE {},
       !.unknown = @ \cup (IF trades \/ a.type = "RESERVE" THEN FreshnessUnknown(after) ELSE {})
                     \cup IF trades THEN RiskUnknown(rules, outcome.adds) ELSE {}]

-----------------------------------------------------------------------------
(* Comparison with HOLD and verdict. *)

HigherIsBetter == {"spread", "months"}
Compared == {"issuer", "sector", "loss", "spread", "months", "unknown", "goals"}

\* What an alternative changes by at least the threshold of a metric both sides know.
Gain(key, hold, after) == IF key \in HigherIsBetter THEN after[key] - hold[key] ELSE hold[key] - after[key]
Comparable(hold, after) == Compared \cap DOMAIN hold \cap DOMAIN after
Improved(hold, after) == {k \in Comparable(hold, after) : Gain(k, hold, after) >= Threshold[k]}
Worsened(hold, after) == {k \in Comparable(hold, after) : -Gain(k, hold, after) >= Threshold[k]}

Classify(o, improved, worsened, priorities) ==
  CASE o.fails # {} -> "rejected"
    [] o.fails = {} /\ o.review -> "review_required"
    [] o.fails = {} /\ ~o.review /\ o.unknown # {} -> "needs_input"
    [] OTHER -> IF improved \cap priorities # {} /\ worsened = {} THEN "dominates_hold"
                ELSE IF improved # {} /\ worsened # {} THEN "tradeoff"
                ELSE IF worsened # {} THEN "worse_than_hold" ELSE "no_material_benefit"

\* No priorities means all of them.
Priorities == IF asked.rules.priorities = {} THEN Compared ELSE asked.rules.priorities

-----------------------------------------------------------------------------
(* The handler: freeze and apply the flows, then one alternative or leg after another. *)

EngineInit ==
  /\ asked \in [mode : {"lab", "plan"}, baseline : Baselines, claims : Claims, flows : Flows, rules : Rules]
  /\ asked.mode = "plan" => asked.flows.withdrawal = 0
  /\ flowed = <<>> /\ alternatives = <<>>

\* A withdrawal that new money and unclaimed cash do not cover is refused.
Freeze ==
  LET applied == ApplyFlows(asked.baseline, asked.claims, asked.flows)
  IN /\ flowed = <<>> /\ applied.rest = 0
     /\ flowed' = applied.positions
     /\ UNCHANGED <<asked, alternatives>>

\* A sale names a valued position of the snapshot.
Possible(a) == a.type = "REDUCE_PREVIEW" => a.target \in DOMAIN flowed

Alternative(a, gated, verdict) ==
  [action |-> a, positions |-> gated.positions, friction |-> gated.friction, status |-> verdict, review |-> gated.review]
Weighed(a, gated, hold, after) == Alternative(a, gated, Classify(gated, Improved(hold, after), Worsened(hold, after), Priorities))
AgainstHold(a, outcome, hold, after) == Weighed(a, WithFinalGates(a, outcome, hold, after, asked.rules), hold, after)
Compare(a, outcome) ==
  AgainstHold(a, outcome, Metrics(flowed, asked.claims, asked.rules, asked.rules.goalGap),
              Metrics(outcome.positions, asked.claims, asked.rules, GoalGap(a, asked.rules)))

EvaluateAlternative(a) ==
  /\ asked.mode = "lab" /\ flowed # <<>> /\ Possible(a)
  /\ alternatives' = Append(alternatives, Compare(a, Evaluated(a, asked.rules, flowed, asked.claims)))
  /\ UNCHANGED <<asked, flowed>>

\* A leg of a plan starts from what the legs before it left; a leg that fails changes nothing.
LegOutcome(a, outcome) ==
  [action |-> a, fails |-> outcome.fails, unknown |-> outcome.unknown, adds |-> outcome.fails = {} /\ outcome.adds,
   friction |-> IF outcome.fails = {} THEN outcome.friction ELSE 0]
EvaluateLeg(a) ==
  LET outcome == EvaluateBuy(a, asked.rules, flowed, asked.claims)
  IN /\ asked.mode = "plan" /\ flowed # <<>>
     /\ a.type = "BUY"
     /\ flowed' = IF outcome.fails = {} THEN outcome.positions ELSE flowed
     /\ alternatives' = Append(alternatives, LegOutcome(a, outcome))
     /\ UNCHANGED asked

EvaluateNext == Len(alternatives) < MaxActions /\ \E a \in Requests : EvaluateAlternative(a)

\* The legs of a plan come from the module that builds it.
EngineNext == Freeze \/ EvaluateNext

-----------------------------------------------------------------------------
(* The verdict on the legs evaluated so far. *)

\* Gates of the whole plan: those of its legs, then once those of the portfolio it leads to.
PlanStatus ==
  LET start == ApplyFlows(asked.baseline, asked.claims, asked.flows).positions
      after == Metrics(flowed, asked.claims, asked.rules, -1)
      adds == \E n \in DOMAIN alternatives : alternatives[n].adds
      fails == UNION {alternatives[n].fails : n \in DOMAIN alternatives}
               \cup ConcentrationGates(Metrics(start, asked.claims, asked.rules, -1), after) \cup RiskFails(asked.rules, adds)
      unknown == UNION {alternatives[n].unknown : n \in DOMAIN alternatives}
                 \cup FreshnessUnknown(after) \cup RiskUnknown(asked.rules, adds)
  IN IF fails # {} THEN "blocked" ELSE IF unknown # {} THEN "needs_input" ELSE "gates_pass"

-----------------------------------------------------------------------------
(* Properties. *)

Owed(positions, friction) == Total(positions) + friction = Total(asked.baseline) + asked.flows.contribution - asked.flows.withdrawal

\* What a goal claims of a position is still there, unless it was not there before.
ClaimsKept(positions) ==
  \A p \in DOMAIN asked.claims \cap DOMAIN asked.baseline : positions[p] >= Least(asked.baseline[p], asked.claims[p])

\* What may be recommended over doing nothing: no sale, nothing the owner excluded, nothing without a recent price,
\* nothing that adds risk while risk is blocked, and no concentration beyond the limits that was not there before.
FitToBeatHold(x) ==
  LET before == Metrics(flowed, asked.claims, asked.rules, -1)
      now == Metrics(x.positions, asked.claims, asked.rules, -1)
  IN /\ ~x.review
     /\ x.action.type = "BUY" =>
          /\ x.action.target \notin asked.rules.excluded \cup asked.rules.noPrice \cup asked.rules.oldPrice
          /\ asked.rules.limiting # {} => x.action.target \in asked.rules.cashLike
          /\ "issuer" \in DOMAIN now => \/ now["issuer"] <= IssuerLimit
                                        \/ "issuer" \in DOMAIN before /\ now["issuer"] <= before["issuer"] + Slack
          /\ "loss" \in DOMAIN before => now["loss"] < before["loss"] + Threshold["loss"]

\* To the paisa, an alternative loses no money but its friction, and the legs of a plan lose only the sum of theirs;
\* nothing that is not rejected touches what goals have claimed, across sources, flows and legs; and an alternative that
\* is said to beat HOLD is fit to (decisions/engine.py: apply_flows, _take_cash, evaluate_*, classify).
EngineSound ==
  flowed # <<>> =>
    /\ ClaimsKept(flowed)
    /\ asked.mode = "plan" => Owed(flowed, MapThenSumSet(LAMBDA n : alternatives[n].friction, DOMAIN alternatives))
    /\ asked.mode = "lab" => \A n \in DOMAIN alternatives :
         LET x == alternatives[n]
         IN /\ Owed(x.positions, x.friction)
            /\ x.status # "rejected" => ClaimsKept(x.positions)
            /\ x.status = "dominates_hold" => FitToBeatHold(x)
=============================================================================
