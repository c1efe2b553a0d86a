-------------------------- MODULE PlanningEngines --------------------------
(***************************************************************************)
(* The planning engines, which share no state.                             *)
(*                                                                         *)
(* The monthly ledger: a fixed contribution, a schedule of dated events,   *)
(* and the contribution that is needed for a target.  Decimals are exact   *)
(* here: an amount is a multiple of a grain that every month can divide,   *)
(* and a rate is a number of 1/Per.  A date is a month and a day, months   *)
(* counted from the start of the ledger.  Inflation is the rate of one     *)
(* month, so that a whole number of them compounds.                        *)
(*                                                                         *)
(* The synthetic planner: how much of a lump sum may be deployed, which    *)
(* scenario a goal may use, how the cash closes the gaps to that scenario, *)
(* how the amounts are rounded to what can be bought, and the validator    *)
(* that looks at the rounded plan again.  Amounts are integers of a unit   *)
(* fine enough for the exact targets; Cent of them are a paisa.  A missing *)
(* minimum or increment is 0, a missing cap or bound is Unset.             *)
(***************************************************************************)
EXTENDS Integers, SequencesExt, FiniteSetsExt

CONSTANTS
  Per,            \* rates, fees and inflation are in 1/Per a month
  YearMonths, FallbackRate, Unstated,   \* twelve, the assumed rate, and a parameter that is left out
  MonthLength,    \* the days of month m, counted from the start
  Projections,    \* what callers ask for
  Unset,
  Classes,        \* the asset classes in alphabetical order
  Cent,
  Policy,         \* the scenarios of the policy in the order of its file
  NearTermYears,
  PlanAsks        \* what callers ask for

VARIABLES
  projection,     \* what is asked
  ledger,         \* the months walked so far
  flows,          \* the cash flow of each month
  answer,
  ask, stage, suit, split, bought, verdict

ledgerVars == <<projection, ledger, flows, answer>>

Lesser(a, b) == IF a < b THEN a ELSE b
Greater(a, b) == IF a > b THEN a ELSE b

Months(p) == Greater(p.months, 0)
SumUp(s) == FoldLeft(LAMBDA x, y : x + y, 0, s)
Grown(amount, up, n) == (amount * (Per + up) ^ n) \div Per ^ n

-----------------------------------------------------------------------------
\* Where an event falls: a month runs from the start day to the eve of the start day of the next.

MonthIndex(startDay, e) == IF e.day < startDay THEN e.month - 1 ELSE e.month

Booked(p, e) == Lesser(Greater(MonthIndex(p.startDay, e), 0), Months(p) - 1)

\* The end of ledger month i, with the day clamped to the length of the month.
AsOf(p, i) == [month |-> i + 1, day |-> Lesser(p.startDay, MonthLength[i + 1])]

NotAfter(d, e) == d.month < e.month \/ (d.month = e.month /\ d.day <= e.day)

OneOff == [maturity_proceeds |-> 1, withdrawal |-> -1, contribution |-> 1]
Kinds == DOMAIN OneOff \cup {"skip", "step_up"}

\* Mutant: the step-ups are applied as they are listed.
ListedLater(events, k, other) == k > other

\* Step-ups in the order of their dates, those of one date in the order given: the last one up to a month sets it.
LaterStep(events, k, other) ==
  ~ NotAfter(events[k], events[other]) \/ (NotAfter(events[other], events[k]) /\ k > other)

Stepped(p, i) ==
  LET steps == {k \in DOMAIN p.events : p.events[k].type = "step_up" /\ Booked(p, p.events[k]) <= i}
  IN  IF steps = {} THEN p.contribution
      ELSE p.events[CHOOSE k \in steps : \A other \in steps \ {k} : LaterStep(p.events, k, other)].amount

\* A skip wins over the schedule; one-off amounts come on top of either.
Flow(p, i) ==
  LET here == {k \in DOMAIN p.events : Booked(p, p.events[k]) = i}
      base == IF \E k \in here : p.events[k].type = "skip" THEN 0 ELSE Stepped(p, i)
  IN  base + MapThenSumSet(LAMBDA k : OneOff[p.events[k].type] * p.events[k].amount,
                                        {k \in here : p.events[k].type \in DOMAIN OneOff})

Schedule(p) == [i \in 1 .. Months(p) |-> IF p.kind = "events" THEN Flow(p, i - 1) ELSE p.contribution]

-----------------------------------------------------------------------------
\* One month: growth before or after the contribution, then the fee on everything.

Entry(p, before, c) ==
  LET growth == ((IF p.timing = "beginning" THEN before + c ELSE before) * p.rate) \div Per
      fees == ((before + growth + c) * p.fee) \div Per
  IN  [before |-> before, contribution |-> c, growth |-> growth, fees |-> fees, after |-> before + growth + c - fees]

EffectiveTarget(p) == IF p.basis = "today_money" THEN Grown(p.target, p.inflation, Months(p)) ELSE p.target

\* A rate or an inflation of -100 % or less and an event of an unknown type are errors.
Refused(p) ==
  \/ p.rate <= -Per
  \/ p.inflation <= -Per /\ (p.basis = "today_money" \/ p.kind # "required")
  \/ p.kind = "events" /\ \E k \in DOMAIN p.events : p.events[k].type \notin Kinds

Result(p, walked) ==
  LET final == IF walked = <<>> THEN p.initial ELSE Last(walked).after
      total(f) == SumUp([i \in DOMAIN walked |-> walked[i][f]])
  IN  [contributions |-> total("contribution"), growth |-> total("growth"), fees |-> total("fees"), final |-> final,
       gap |-> Greater(EffectiveTarget(p) - final, 0)]

\* What a unit paid at every month end has become after n months, in 1/Per^n.
Annuity(rate, n) == IF rate = 0 THEN n * Per ^ n ELSE (Per * ((Per + rate) ^ n - Per ^ n)) \div rate

\* The level contribution at month ends that reaches the target, as a fraction; errors when no month is left.
Required(p) ==
  LET n == p.months
      target == EffectiveTarget(p) * Per ^ n
      grown == p.initial * (Per + p.rate) ^ n
  IN  IF n <= 0 THEN IF p.initial >= EffectiveTarget(p) THEN [num |-> 0, den |-> 1] ELSE [num |-> -1, den |-> 0]
      ELSE [num |-> Greater(target - grown, 0), den |-> Annuity(p.rate, n)]

\* The older service of plans by instalments: the rate asked for, else that of the last portfolio, else an assumed one.
SipRate(s) == CHOOSE r \in {s.rate, s.portfolioRate, FallbackRate} :
                IF s.rate # Unstated THEN r = s.rate ELSE IF s.portfolioRate # Unstated THEN r = s.portfolioRate ELSE r = FallbackRate
Assumed(s) == s.rate = Unstated /\ s.portfolioRate = Unstated

\* What is not given is taken from the profile of the last onboarding.
Filled(s, field) == IF s[field] = Unstated THEN s.profile[field] ELSE s[field]
Complete(s) ==
  IF s.profile = Unstated /\ Unstated \in {s.amount, s.years} THEN FALSE ELSE Filled(s, "amount") > 0 /\ Filled(s, "years") > 0

SipValue(amount, rate, months) == (amount * Annuity(rate, months)) \div Per ^ months

SipPoints(s) ==
  [y \in 1 .. Filled(s, "years") |-> [invested |-> Filled(s, "amount") * y * YearMonths,
                                     value |-> SipValue(Filled(s, "amount"), SipRate(s), y * YearMonths)]]

-----------------------------------------------------------------------------

NoAnswer == [status |-> "none"]

LedgerInit == projection \in Projections /\ ledger = <<>> /\ flows = <<>> /\ answer = NoAnswer

IsSip == projection.kind \in {"sip", "goal_sip"}

Refuse ==
  /\ answer = NoAnswer /\ ~ IsSip /\ Refused(projection)
  /\ answer' = [status |-> "error"] /\ UNCHANGED <<projection, ledger, flows>>

\* No profile to complete the parameters from, or an amount or a number of years that is not positive.
RefuseSip ==
  /\ answer = NoAnswer /\ projection.kind = "sip" /\ ~ Complete(projection)
  /\ answer' = [status |-> "error"] /\ UNCHANGED <<projection, ledger, flows>>

ProjectSip ==
  /\ answer = NoAnswer /\ projection.kind = "sip" /\ Complete(projection)
  /\ answer' = [status |-> "points", points |-> SipPoints(projection), assumed |-> Assumed(projection)]
  /\ UNCHANGED <<projection, ledger, flows>>

GoalSip ==
  /\ answer = NoAnswer /\ projection.kind = "goal_sip"
  /\ LET n == projection.years * YearMonths
     IN  answer' = [status |-> "instalment", assumed |-> Assumed(projection),
                    required |-> [num |-> projection.target * Per ^ n, den |-> Annuity(SipRate(projection), n)]]
  /\ UNCHANGED <<projection, ledger, flows>>

BackSolve ==
  /\ answer = NoAnswer /\ projection.kind = "required" /\ ~ Refused(projection)
  /\ answer' = [status |-> IF Required(projection).den = 0 THEN "error" ELSE "solved", required |-> Required(projection)]
  /\ UNCHANGED <<projection, ledger, flows>>

LayOut ==
  /\ answer = NoAnswer /\ projection.kind \in {"fixed", "events"} /\ ~ Refused(projection) /\ flows = <<>> /\ Months(projection) > 0
  /\ flows' = Schedule(projection) /\ UNCHANGED <<projection, ledger, answer>>

WalkMonth ==
  /\ answer = NoAnswer /\ Len(ledger) < Len(flows)
  /\ ledger' = Append(ledger, Entry(projection, IF ledger = <<>> THEN projection.initial ELSE Last(ledger).after,
                                    flows[Len(ledger) + 1]))
  /\ UNCHANGED <<projection, flows, answer>>

BuildResult ==
  /\ answer = NoAnswer /\ projection.kind \in {"fixed", "events"} /\ ~ Refused(projection) /\ Len(ledger) = Months(projection)
  /\ answer' = [status |-> "projected", result |-> Result(projection, ledger)]
  /\ UNCHANGED <<projection, ledger, flows>>

LedgerNext == Refuse \/ RefuseSip \/ ProjectSip \/ GoalSip \/ BackSolve \/ LayOut \/ WalkMonth \/ BuildResult

-----------------------------------------------------------------------------
\* The totals of a result are those of the money: what came in and what it earned, less the fees, is what is there,
\* whatever the events were; and every event is in the total of contributions exactly once.
LedgerBalances ==
  answer.status = "projected" =>
    LET r == answer.result IN projection.initial + r.contributions + r.growth - r.fees = r.final

\* The order in which a caller lists the events decides nothing, unless two step-ups have one date.
OrderIrrelevant ==
  projection.kind = "events" /\ flows # <<>> =>
    LET events == projection.events
        tied == \E k, l \in DOMAIN events : k # l /\ events[k].type = "step_up" /\ events[l].type = "step_up"
                                             /\ events[k].month = events[l].month /\ events[k].day = events[l].day
    IN  tied \/ Schedule([projection EXCEPT !.events = Reverse(events)]) = flows

\* An event inside the horizon is booked in the month whose period, from one statement date to the next, contains it.
EventsInTheirMonth ==
  projection.kind = "events" /\ flows # <<>> =>
    \A k \in DOMAIN projection.events :
      LET e == projection.events[k]
          i == Booked(projection, e)
      IN  NotAfter([month |-> 0, day |-> projection.startDay], e) /\ NotAfter(e, AsOf(projection, Months(projection) - 1))
          => NotAfter(e, AsOf(projection, i)) /\ (i > 0 => NotAfter(AsOf(projection, i - 1), e))

\* The solved contribution is the least that works: paid every month, it ends exactly at the target, and nothing is asked
\* of who is there already.  The closed form of the solution is checked against the walk of the months.
SolvedReaches ==
  answer.status = "solved" =>
    LET p == projection
        scale == Per ^ Months(p)
        paid == answer.required
        walk == FoldLeft(LAMBDA b, c : Entry([p EXCEPT !.timing = "end", !.fee = 0], b, c).after,
                         p.initial * paid.den * scale, [i \in 1 .. Months(p) |-> paid.num * scale])
    IN  /\ paid.num >= 0
        /\ walk >= EffectiveTarget(p) * paid.den * scale
        /\ paid.num > 0 => walk = EffectiveTarget(p) * paid.den * scale

\* Both services tell one story: a plan by instalments is worth, at the end of every year, what the ledger of the same
\* payments says, and the instalment of a goal, paid to the end, is the goal.
ServicesAgree ==
  LET walk(amount, rate, n) == FoldLeft(LAMBDA b, c : Entry([timing |-> "end", rate |-> rate, fee |-> 0], b, c).after, 0, [i \in 1 .. n |-> amount])
  IN  /\ answer.status = "points" =>
           \A y \in DOMAIN answer.points :
             answer.points[y].value = walk(Filled(projection, "amount"), SipRate(projection), y * YearMonths)
      /\ answer.status = "instalment" =>
           LET n == projection.years * YearMonths
           IN  walk(answer.required.num * Per ^ n, SipRate(projection), n) = projection.target * answer.required.den * Per ^ n

LedgerSound == ServicesAgree /\ LedgerBalances /\ OrderIrrelevant /\ EventsInTheirMonth /\ SolvedReaches

LedgerSpec == LedgerInit /\ [][LedgerNext]_ledgerVars

-----------------------------------------------------------------------------
gapVars == <<ask, stage, suit, split, bought, verdict>>

ClassSet == Range(Classes)
Excess(x) == IF x > 0 THEN x ELSE 0
AtLeastOne(x) == IF x > 0 THEN x ELSE 1
SumOver(f) == MapThenSumSet(LAMBDA c : f[c], DOMAIN f)
None == [c \in ClassSet |-> 0]

-----------------------------------------------------------------------------
\* Capacity and the scenario it permits.

MonthlySurplus(f) == IF f.income = Unset THEN f.confirmed ELSE f.income - f.essential - f.debt - f.committed

Capacity(f) ==
  LET shortfall == Excess(f.essential * f.reserveMonths - f.reserve)
  IN  [shortfall |-> shortfall, deployable |-> Excess(f.lump - shortfall),
       rules |-> (IF f.income = Unset THEN {"income_unknown_using_confirmed_surplus"} ELSE {})
                 \cup (IF MonthlySurplus(f) <= 0 THEN {"monthly_surplus_non_positive"} ELSE {})
                 \cup (IF shortfall > 0 THEN {"emergency_reserve_below_target"} ELSE {})]

Matches(s, years) == s.from <= years /\ (s.until = Unset \/ years < s.until)

\* The first scenario with the least domestic equity; of those, the smallest sleeve of direct stocks.
Safer(s, t) == s.target["equity"] < t.target["equity"] \/ (s.target["equity"] = t.target["equity"] /\ s.sleeve <= t.sleeve)
MostConservative == CHOOSE k \in DOMAIN Policy : /\ \A l \in DOMAIN Policy : Safer(Policy[k], Policy[l])
                                                 /\ \A l \in 1 .. k - 1 : ~ Safer(Policy[l], Policy[k])

Forced(years, capacity) == years < NearTermYears \/ capacity.shortfall > 0

Resolve(years, capacity) ==
  LET matching == {k \in DOMAIN Policy : Matches(Policy[k], years)}
  IN  [scenario |-> IF Forced(years, capacity) \/ matching = {} THEN MostConservative ELSE Min(matching),
       rules |-> capacity.rules \cup (IF Forced(years, capacity) THEN {"near_term_goal_forces_conservative_scenario"} ELSE {})]

-----------------------------------------------------------------------------
\* The split of the cash.

\* What is held through funds counts by what they disclose; the rest stays unknown.
LookThrough(a) ==
  [known |-> [c \in ClassSet |-> a.exposure[c] + MapThenSumSet(LAMBDA f : (f.value * f.share[c]) \div 100, a.funds)],
   unknown |-> MapThenSumSet(LAMBDA f : (f.value * Excess(100 - SumOver(f.share))) \div 100, a.funds)]

Wealth(a) == SumOver(LookThrough(a).known) + LookThrough(a).unknown + a.cash

Gap(a, target) == [c \in ClassSet |-> Excess((target[c] * Wealth(a)) \div 100 - LookThrough(a).known[c])]

\* Too little cash for all gaps is shared by their size, down to the paisa; the dust goes to the first class with a gap.
TargetGap(a, target) ==
  LET gap == Gap(a, target)
      total == SumOver(gap)
      share == [c \in ClassSet |-> (((a.cash * gap[c]) \div total) \div Cent) * Cent]
      first == SelectInSeq(Classes, LAMBDA c : gap[c] > 0)
  IN  IF total <= 0 \/ a.cash <= 0 THEN None
      ELSE IF total <= a.cash THEN gap
      ELSE [share EXCEPT ![Classes[first]] = @ + a.cash - SumOver(share)]

Whole(x, step) == IF step > 0 THEN (x \div step) * step ELSE x

\* What minimums and increments free goes to the classes still bought, in order, as far as their increment takes it.
RoundedPlan(a, proposed) ==
  LET kept == [c \in ClassSet |-> IF proposed[c] < a.minimum[c] THEN 0 ELSE Whole(proposed[c], a.increment[c])]
      give(w, c) == LET more == IF w.plan[c] <= 0 \/ w.freed <= 0 THEN 0 ELSE Whole(w.freed, a.increment[c])
                    IN  [plan |-> [w.plan EXCEPT ![c] = @ + more], freed |-> w.freed - more]
  IN  FoldLeft(give, [plan |-> kept, freed |-> SumOver(proposed) - SumOver(kept)], Classes).plan

\* The validator: the weight of a stock in all wealth and in the stocks, of an issuer, and the annual use of a product.
Broken(a, plan) ==
  LET sleeve == SumOver(a.stocks)
  IN  {<<"total_wealth", s>> : s \in {x \in DOMAIN a.stocks : Wealth(a) > 0 /\ a.stocks[x] * 100 > a.stockCap * Wealth(a)}}
      \cup {<<"stock_sleeve", s>> : s \in {x \in DOMAIN a.stocks : sleeve > 0 /\ a.stocks[x] * 100 > a.stockCap * sleeve}}
      \cup {<<"issuer", s>> : s \in {x \in DOMAIN a.issuerCap \cap DOMAIN a.stocks :
                                      Wealth(a) > 0 /\ a.stocks[x] * 100 > a.issuerCap[x] * Wealth(a)}}
      \cup {<<"annual", c>> : c \in {x \in ClassSet : a.annualCap[x] # Unset /\ a.used[x] + plan[x] > a.annualCap[x]}}

-----------------------------------------------------------------------------

GapInit == ask \in PlanAsks /\ stage = "asked" /\ suit = [scenario |-> 0, rules |-> {}] /\ split = None /\ bought = None /\ verdict = {}

\* An unknown scenario, cash below zero and an income nobody knows are errors.
RejectPlan ==
  /\ stage = "asked"
  /\ \/ ask.mode = "api" /\ (ask.scenario \notin DOMAIN Policy \/ ask.cash < 0)
     \/ ask.mode = "suited" /\ ask.facts.income = Unset /\ ask.facts.confirmed = Unset
  /\ stage' = "error" /\ UNCHANGED <<ask, suit, split, bought, verdict>>

\* The endpoint is told the scenario and the cash.
TakeScenario ==
  /\ stage = "asked" /\ ask.mode = "api" /\ ask.scenario \in DOMAIN Policy /\ ask.cash >= 0
  /\ suit' = [scenario |-> ask.scenario, rules |-> {}] /\ stage' = "suited"
  /\ UNCHANGED <<ask, split, bought, verdict>>

\* A suited plan derives both from what the owner declared.
Suit ==
  /\ stage = "asked" /\ ask.mode = "suited" /\ (ask.facts.income # Unset \/ ask.facts.confirmed # Unset)
  /\ LET capacity == Capacity(ask.facts)
     IN  suit' = Resolve(ask.years, capacity) /\ ask' = [ask EXCEPT !.cash = capacity.deployable]
  /\ stage' = "suited" /\ UNCHANGED <<split, bought, verdict>>

Split ==
  /\ stage = "suited" /\ split' = TargetGap(ask, Policy[suit.scenario].target)
  /\ stage' = "split" /\ UNCHANGED <<ask, suit, bought, verdict>>

Round ==
  /\ stage = "split" /\ bought' = RoundedPlan(ask, split)
  /\ stage' = "rounded" /\ UNCHANGED <<ask, suit, split, verdict>>

Validate ==
  /\ stage = "rounded" /\ verdict' = Broken(ask, bought)
  /\ stage' = "done" /\ UNCHANGED <<ask, suit, split, bought>>

GapNext == RejectPlan \/ TakeScenario \/ Suit \/ Split \/ Round \/ Validate

-----------------------------------------------------------------------------
\* No paisa is lost or invented: what is bought and what is left are the cash, and the cash of a suited plan leaves the
\* reserve whole.
CashConserved ==
  stage \in {"rounded", "done"} =>
    /\ \A c \in ClassSet : bought[c] >= 0
    /\ SumOver(bought) <= Excess(ask.cash)
    /\ ask.mode = "suited" /\ ask.cash > 0 => ask.facts.lump - ask.cash >= ask.facts.essential * ask.facts.reserveMonths - ask.facts.reserve

\* The split follows the gaps, not the shares: a class at its target gets nothing, now or from the rounding, and no class
\* is carried past its target by more than the dust of the others.
GapsDecide ==
  stage \in {"split", "rounded", "done"} =>
    LET gap == Gap(ask, Policy[suit.scenario].target)
    IN  \A c \in ClassSet : /\ gap[c] = 0 => split[c] = 0 /\ bought[c] = 0
                            /\ split[c] <= gap[c] + Cent * (Len(Classes) - 1)
                            /\ SumOver(gap) >= ask.cash /\ ask.cash > 0 => SumOver(split) = ask.cash

\* What is bought can be bought: whole steps, and not below the minimum by more than the step to which it was rounded.
Buyable ==
  stage \in {"rounded", "done"} =>
    \A c \in ClassSet : bought[c] > 0 => /\ Whole(bought[c], ask.increment[c]) = bought[c]
                                         /\ bought[c] > ask.minimum[c] - AtLeastOne(ask.increment[c])

\* A short reserve or a near goal leaves no scenario with more equity than the safest one, whatever the horizon.
ConservativeWhenForced ==
  stage \notin {"asked", "error"} /\ ask.mode = "suited"
  /\ (ask.years < NearTermYears \/ ask.facts.reserve < ask.facts.essential * ask.facts.reserveMonths) =>
    \A k \in DOMAIN Policy : Policy[suit.scenario].target["equity"] <= Policy[k].target["equity"]

\* Freed cash does not lie idle while a class that is bought could take another step of it.
NothingIdle ==
  stage \in {"rounded", "done"} =>
    \A c \in ClassSet : bought[c] > 0 => SumOver(split) - SumOver(bought) < AtLeastOne(ask.increment[c])

GapSound == CashConserved /\ GapsDecide /\ Buyable /\ ConservativeWhenForced /\ NothingIdle

GapSpec == GapInit /\ [][GapNext]_gapVars
=============================================================================
