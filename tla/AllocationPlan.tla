--------------------------- MODULE AllocationPlan ---------------------------
(***************************************************************************)
(* The buy-only plan for new money (allocation/plan.py, service.py): a mix *)
(* for the owner's tolerance and capacity, rupee targets, a split of the   *)
(* new money over the buckets below target, whole lots, and the leftovers  *)
(* spent one lot at a time.  Its legs then go through ActionEngine as one  *)
(* plan, whose gates have the last word.                                   *)
(*                                                                         *)
(* Amounts that divisions produce are counted in parts of a paisa (Fine to *)
(* a paisa) and rounded down; the code has 28 decimal digits.              *)
(***************************************************************************)
EXTENDS ActionEngine

CONSTANTS
  Core,            \* index ETFs of the equity bucket, by underlying: [underlying -> instrument]
  Satellites,      \* ranked candidates for direct stocks, best first
  GoldEtf, LiquidEtf, Unplaced,   \* instruments of the other buckets; a fund that fits none
  Mix,             \* target weights in percent, by band
  CoreSplit, SatelliteShare,      \* percent by underlying; by band
  MaxStocks, MinStocks, MinStockLeg, StockCap,   \* the direct stocks; StockCap in percent of the portfolio
  UnknownLimit,    \* percent of the holdings that may be unplaced
  Fine

ASSUME PlanAssumption == Fine \in Nat \ {0} /\ MinStocks \in Nat \ {0}

VARIABLE plan      \* the plan being built: its stage, amounts by bucket, legs and what is left to spend

planVars == <<plan, engineVars>>

Buckets == {"debt", "equity_india", "gold"}
Order == <<"debt", "equity_india", "gold">>
Money == asked.flows.contribution
ToFine(paise) == paise * Fine

Gated == asked.rules.limiting # {}
ToleranceKnown == "tolerance_unknown" \notin asked.rules.limiting
WhatIf == asked.rules.whatIf # "none"

SafeOnly == [b \in Buckets |-> IF b = "debt" THEN 100 ELSE 0]

\* What-if bands are shown whatever the gates say and never count as ready.
DecidedMix == IF WhatIf THEN Mix[asked.rules.whatIf] ELSE IF Gated THEN SafeOnly ELSE Mix[asked.rules.band]

NeedsInput == WhatIf \/ Gated

\* The band the direct stocks follow: none when only the safe bucket is used.
StockBand == IF WhatIf THEN asked.rules.whatIf ELSE IF Gated THEN "none" ELSE asked.rules.band

-----------------------------------------------------------------------------
(* Holdings and targets. *)

InBucket(b) == CASE b = "debt" -> {LiquidEtf} [] b = "gold" -> {GoldEtf} [] OTHER -> Instruments \ {LiquidEtf, GoldEtf, Unplaced}

\* Bank cash is not part of the allocation; what fits no bucket is unknown and is not spread over the others.
Current == [b \in Buckets |-> Of(asked.baseline, InBucket(b))]
Classified == MapThenSumSet(LAMBDA b : Current[b], Buckets)
Unknown == Of(asked.baseline, {Unplaced})
UnknownTooLarge == Unknown * 100 > UnknownLimit * (Classified + Unknown)

Base == ToFine(Classified + Money)
Risky == Buckets \ {"debt"}

\* Money claimed for goals due soon is kept in the safe bucket first; the risk buckets share what is left.
SafeFirst(scaled) == [b \in Buckets |-> IF b = "debt" THEN Base - MapThenSumSet(LAMBDA r : scaled[r], Risky) ELSE scaled[b]]
RiskScaled(plain, risk, left) == [b \in Risky |-> IF risk = 0 THEN 0 ELSE (plain[b] * left) \div risk]
TargetsFor(plain, soon) ==
  IF soon = 0 \/ plain["debt"] >= soon THEN plain
  ELSE SafeFirst(RiskScaled(plain, MapThenSumSet(LAMBDA b : plain[b], Risky), Positive(Base - soon)))
Targets == TargetsFor([b \in Buckets |-> (DecidedMix[b] * Base) \div 100], ToFine(asked.rules.soon))

FillableBy(targets) == {b \in Buckets : targets[b] > 0 /\ (b = "equity_india" => DOMAIN Core # {})}
ShortOf(targets) == [b \in Buckets |-> Positive(targets[b] - ToFine(Current[b]))]
Shortfall == ShortOf(Targets)

\* The most underweight first; once every shortfall is closed the rest follows the targets.
SplitOver(targets, fillable, short, missing, money) ==
  CASE money = 0 \/ fillable = {} -> [b \in Buckets |-> 0]
    [] missing >= money /\ money > 0 -> [b \in Buckets |-> (money * short[b]) \div missing]
    [] OTHER -> [b \in Buckets |-> short[b] + IF b \in fillable
                                              THEN ((money - missing) * targets[b]) \div MapThenSumSet(LAMBDA x : targets[x], fillable) ELSE 0]
ByShortfall(targets, fillable, short) == SplitOver(targets, fillable, short, MapThenSumSet(LAMBDA b : short[b], Buckets), ToFine(Money))
ByTarget(targets, fillable) == ByShortfall(targets, fillable, [b \in Buckets |-> IF b \in fillable THEN ShortOf(targets)[b] ELSE 0])
Allocated == ByTarget(Targets, FillableBy(Targets))

Debit(units, i) == units * Price[i] + Friction(units * Price[i])

\* What the engine is given for a leg, rounded up to the paisa so that its flooring gives the units back.
BudgetFor(units, i) == -((-(units * Price[i] * (FeeDen + FeeNum))) \div FeeDen)

UnitsFor(amount, i) == ((amount * FeeDen) \div (Fine * Price[i] * (FeeDen + FeeNum) * Lot[i])) * Lot[i]

TooSmall(amount) == amount > 0 /\ amount * FeeDen < ToFine(MinAction) * (FeeDen + FeeNum)

-----------------------------------------------------------------------------
(* Legs. *)

Leg(role, i, budget, cap) == [role |-> role, inst |-> i, budget |-> budget, cap |-> cap, units |-> UnitsFor(budget, i)]
NoCap == -1

\* How many stocks the amount spreads over: as many as leave each at least the minimum leg, and not fewer than MinStocks.
StockCount(amount) ==
  LET most == Least(MaxStocks, Len(Satellites))
      fits == {n \in MinStocks .. most : amount >= ToFine(MinStockLeg) * n}
  IN IF most < MinStocks THEN 0 ELSE IF fits = {} THEN 0 ELSE Max(fits)

PaisaUp(amount) == HalfUp(amount, Fine) * Fine

\* The index ETFs share an amount; shares too small to buy go to the largest.
CoreParts(core) == [u \in DOMAIN Core |-> (core * CoreSplit[u]) \div MapThenSumSet(LAMBDA x : CoreSplit[x], DOMAIN Core)]
CoreGathered(parts, largest, moved) ==
  [u \in DOMAIN Core |-> IF u = largest THEN parts[u] + (IF TooSmall(parts[u]) THEN moved - parts[u] ELSE moved)
                         ELSE IF TooSmall(parts[u]) THEN 0 ELSE parts[u]]
CoreBudget(parts) ==
  CoreGathered(parts, CHOOSE u \in DOMAIN Core : \A x \in DOMAIN Core : parts[x] <= parts[u],
           MapThenSumSet(LAMBDA u : parts[u], {u \in DOMAIN Core : TooSmall(parts[u])}))
CoreLegs(budget) ==
  LET bought == SetToSortSeq({u \in DOMAIN Core : budget[u] > 0}, LAMBDA u, x : CoreSplit[u] > CoreSplit[x])
  IN [k \in 1 .. Len(bought) |-> Leg("core", Core[bought[k]], budget[bought[k]], NoCap)]

\* A small equal-weight share of direct stocks, each below the cap; the rest goes to the index ETFs.
SpreadOver(amount, n, each, cap) ==
  [k \in 1 .. n |-> Leg("satellite", Satellites[k], each, cap)] \o CoreLegs(CoreBudget(CoreParts(amount - n * each)))
OverStocks(amount, share, n, cap) ==
  SpreadOver(amount, n, IF n = 0 THEN 0 ELSE IF share \div n > cap THEN PaisaUp(cap) ELSE share \div n, cap)
StockShare(amount) == IF StockBand = "none" THEN 0 ELSE (amount * SatelliteShare[StockBand]) \div 100
EquityLegs(amount) == OverStocks(amount, StockShare(amount), StockCount(StockShare(amount)), (StockCap * Base) \div 100)

LegsOf(b, amount) ==
  CASE amount = 0 -> <<>>
    [] amount > 0 /\ b = "equity_india" -> EquityLegs(amount)
    [] amount > 0 /\ b = "gold" -> <<Leg("core", GoldEtf, amount, NoCap)>>
    [] amount > 0 /\ b = "debt" -> <<Leg("safe", LiquidEtf, amount, NoCap)>>

Spent(legs) == FoldLeft(LAMBDA sum, l : sum + Debit(l.units, l.inst), 0, legs)

-----------------------------------------------------------------------------
(* Building the plan. *)

PlanInit == EngineInit /\ plan = [stage |-> "mix", amounts |-> <<>>, legs |-> <<>>, left |-> 0]

\* Below the smallest purchase there are no legs: the answer explains what works at that size.
Allocate ==
  /\ plan.stage = "mix" /\ asked.mode = "plan"
  /\ plan' = [plan EXCEPT !.stage = "consolidate",
                !.amounts = IF TooSmall(ToFine(Money)) THEN [b \in Buckets |-> 0] ELSE Allocated]
  /\ UNCHANGED engineVars

SmallBuckets == {b \in DOMAIN plan.amounts : TooSmall(plan.amounts[b])}

\* The smallest amount below the minimum moves to the bucket with the largest shortfall; alone, it stays.
Consolidate ==
  LET b == CHOOSE x \in SmallBuckets : \A y \in SmallBuckets : plan.amounts[x] <= plan.amounts[y]
      keep == {x \in DOMAIN plan.amounts : plan.amounts[x] > 0 /\ x # b}
      dest == CHOOSE x \in keep : \A y \in keep :
                Shortfall[x] > Shortfall[y] \/ (Shortfall[x] = Shortfall[y] /\ plan.amounts[x] >= plan.amounts[y])
  IN /\ plan.stage = "consolidate" /\ SmallBuckets # {}
     /\ plan' = IF keep = {} THEN [plan EXCEPT !.stage = "legs"]
                ELSE [plan EXCEPT !.amounts = [@ EXCEPT ![b] = 0, ![dest] = @ + plan.amounts[b]]]
     /\ UNCHANGED engineVars

WithLegs(legs) == [plan EXCEPT !.stage = "leftovers", !.legs = legs, !.left = Money - Spent(legs)]

MakeLegs ==
  /\ plan.stage = "legs" \/ (plan.stage = "consolidate" /\ SmallBuckets = {})
  /\ plan' = WithLegs(FlattenSeq([n \in 1 .. 3 |-> LegsOf(Order[n], plan.amounts[Order[n]])]))
  /\ UNCHANGED engineVars

More(l) == Debit(l.units + Lot[l.inst], l.inst)
Step(l) == More(l) - Debit(l.units, l.inst)

\* Mutant: leftovers are spent without a look at the cap.
AffordableUncapped == {n \in DOMAIN plan.legs : Step(plan.legs[n]) <= plan.left}

\* A direct stock never passes its cap, even to use up leftovers.
Affordable == {n \in DOMAIN plan.legs : LET l == plan.legs[n]
                                        IN Step(l) <= plan.left /\ (l.cap = NoCap \/ ToFine(More(l)) <= l.cap)}

Lag(l) == l.budget - ToFine(Debit(l.units, l.inst))

\* One more lot of the leg furthest below its budget.
SpendLeftover ==
  LET n == CHOOSE x \in Affordable : \A y \in Affordable : Lag(plan.legs[x]) >= Lag(plan.legs[y])
      l == plan.legs[n]
  IN /\ plan.stage = "leftovers" /\ Affordable # {}
     /\ plan' = [plan EXCEPT !.legs[n].units = @ + Lot[l.inst], !.left = @ - Step(l)]
     /\ UNCHANGED engineVars

Propose ==
  /\ plan.stage = "leftovers" /\ Affordable = {}
  /\ plan' = [plan EXCEPT !.stage = "proposed", !.legs = SelectSeq(@, LAMBDA l : l.units > 0)]
  /\ UNCHANGED engineVars

\* The service hands the legs to the engine, all of them from the new money.
FreezePlan == plan.stage = "proposed" /\ plan.legs # <<>> /\ Freeze /\ UNCHANGED plan

BuyLeg ==
  LET l == plan.legs[Len(alternatives) + 1]
  IN /\ plan.stage = "proposed" /\ Len(alternatives) < Len(plan.legs)
     /\ EvaluateLeg([type |-> "BUY", target |-> l.inst, amount |-> BudgetFor(l.units, l.inst), funding |-> "new_money"])
     /\ UNCHANGED plan

LabNext == asked.mode = "lab" /\ EngineNext /\ UNCHANGED plan
PlanNext == Allocate \/ Consolidate \/ MakeLegs \/ SpendLeftover \/ Propose \/ FreezePlan \/ BuyLeg

\* The answer: a ready plan whose gates do not all pass is not ready.
Answer ==
  IF plan.legs = <<>> THEN (IF NeedsInput \/ UnknownTooLarge THEN "needs_input" ELSE "nothing_to_do")
  ELSE IF NeedsInput \/ UnknownTooLarge THEN "needs_input"
  ELSE CASE PlanStatus = "gates_pass" -> "ready" [] OTHER -> PlanStatus

-----------------------------------------------------------------------------
(* Properties. *)

OnlySafe(legs) == \A n \in DOMAIN legs : legs[n].inst = LiquidEtf

Bought(i) == flowed[i] - (IF i \in DOMAIN asked.baseline THEN asked.baseline[i] ELSE 0)

\* What a plan that is called ready buys, whatever it was built from.
ReadyIsFit ==
  /\ asked.rules.limiting = {} /\ ~WhatIf
  /\ \A n \in DOMAIN plan.legs : plan.legs[n].inst \notin asked.rules.excluded \cup asked.rules.noPrice \cup asked.rules.oldPrice
  /\ ClaimsKept(flowed)

\* A proposed plan never spends more than the new money; while anything blocks added risk, or goals due soon have claimed
\* more than the owner would then hold, all of it goes to the safe bucket; a direct stock stays below its cap up to the
\* rounding of the cap; what is called ready is fit to buy; and what the engine buys for a leg it accepts is what was planned, even after other legs failed
\* (allocation/plan.py: build_plan; decisions/engine.py: evaluate_plan).
PlanSound ==
  plan.stage = "proposed" =>
    /\ Spent(plan.legs) <= Money
    /\ Gated /\ ~WhatIf => OnlySafe(plan.legs)
    /\ asked.rules.soon >= Classified + Money => OnlySafe(plan.legs)
    /\ \A n \in DOMAIN plan.legs :
         LET l == plan.legs[n]
         IN /\ l.role = "satellite" => ToFine(Debit(l.units, l.inst)) <= l.cap + Fine
            /\ n \in DOMAIN alternatives /\ alternatives[n].fails = {} => Bought(l.inst) = l.units * Price[l.inst]
    /\ plan.legs # <<>> /\ Len(alternatives) = Len(plan.legs) /\ Answer = "ready" => ReadyIsFit

\* A leg the planner proposes is not one the engine rejects as too small: amounts below the minimum were moved to another
\* bucket first (allocation/plan.py: consolidate, then units_for).
LegsClear == plan.stage = "proposed" => \A n \in DOMAIN alternatives : "min_action_size" \notin alternatives[n].fails
=============================================================================
