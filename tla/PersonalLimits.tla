--------------------------- MODULE PersonalLimits ---------------------------
(***************************************************************************)
(* What the owner's declared facts permit: tolerance from the answers,     *)
(* capacity from the raw figures, the strictest of these with the goals    *)
(* and the restrictions, the monthly budget that is left, and the          *)
(* illustration of a goal under the three scenarios.                       *)
(*                                                                         *)
(* An unknown fact is Undeclared.  Months of reserve are in tenths.  A goal's *)
(* claim and contributions are summed up by the least annual return that   *)
(* reaches the target, in hundredths of a percent: Undeclared where none does.*)
(***************************************************************************)
EXTENDS Integers, FiniteSets, Functions

CONSTANTS
  Undeclared,
  Questions,      \* of the tolerance questionnaire
  Stable, Rising, \* the scores from which the middle and the upper band begin
  Year,           \* the days that count as near for obligations
  ShortHorizon,   \* and for goals
  ScenarioRate,   \* low, base, high: annual returns in hundredths of a percent
  Views           \* what is asked for, with the facts

VARIABLES view, given

limitVars == <<view, given>>

Known(x) == x # Undeclared
Round2(x, y) == LET q == x \div y
                    r == x % y
                IN  IF 2 * r > y \/ (2 * r = y /\ q % 2 = 1) THEN q + 1 ELSE q
Nonneg(x) == IF x > 0 THEN x ELSE 0
SumOf(f) == SumFunctionOnSet(f, DOMAIN f)

-----------------------------------------------------------------------------
\* Tolerance: behavioural answers only, and no score before all of them are given.

ToleranceOf(answers) ==
  IF \E q \in Questions : ~ Known(answers[q]) THEN [status |-> "unknown", band |-> Undeclared]
  ELSE LET score == Round2(SumOf([q \in Questions |-> answers[q]]), 3)
       IN  [status |-> "ready", band |-> IF score < Stable THEN "conservative" ELSE IF score < Rising THEN "moderate" ELSE "aggressive"]

Essential == {"income", "expenses", "reserve", "months"}
MissingFacts(f) == {x \in Essential : ~ Known(f[x])}

\* Debts without a stated payment count as nothing, and are reported.
Debt(debts) == SumOf([l \in {x \in debts : Known(x.payment)} |-> l.payment])

Outgo(f, debts) == IF Known(f.expenses) THEN f.expenses + Debt(debts) ELSE Undeclared
\* Mutant: the coverage is rounded up.
CoverageUp(f, debts) ==
  IF ~ Known(f.reserve) \/ ~ Known(f.expenses) \/ Outgo(f, debts) = 0 THEN Undeclared
  ELSE (10 * f.reserve + Outgo(f, debts) - 1) \div Outgo(f, debts)

Coverage(f, debts) ==
  IF ~ Known(f.reserve) \/ ~ Known(f.expenses) \/ Outgo(f, debts) = 0 THEN Undeclared
  ELSE Round2(10 * f.reserve, Outgo(f, debts))

ComputedSurplus(f, debts) == IF Known(f.income) /\ Known(f.expenses) THEN f.income - Outgo(f, debts) ELSE Undeclared

CapacityFacts(f, debts) ==
  [missing |-> MissingFacts(f),
   incomplete |-> \E l \in debts : ~ Known(l.payment),
   coverage |-> Coverage(f, debts),
   surplus |-> ComputedSurplus(f, debts),
   overstated |-> Known(f.stated) /\ Known(ComputedSurplus(f, debts)) /\ f.stated > ComputedSurplus(f, debts),
   near |-> SumOf([o \in {x \in f.obligations : x.due <= Year} |-> o.amount]),
   floating |-> Cardinality({l \in debts : l.rate = "floating" /\ ~ Known(l.reset)}),
   binding |-> IF MissingFacts(f) # {} THEN {"capacity_unknown"}
               ELSE IF Known(Coverage(f, debts)) /\ Coverage(f, debts) < f.months THEN {"reserve_shortfall"} ELSE {}]

\* Claims on goals due soon; a claim that needs review still counts.
ShortHorizonFunds(goals, claims) ==
  [g \in {x \in DOMAIN goals : goals[x] <= ShortHorizon} |->
     SumOf([c \in {x \in claims : x.goal = g /\ x.status \in {"active", "needs_review"}} |-> c.amount])]

Constraints(v) ==
  LET tolerance == ToleranceOf(v.facts.answers)
      capacity == CapacityFacts(v.facts, v.debts)
      short == ShortHorizonFunds(v.goals, v.claims)
  IN  [allowed |-> tolerance.status = "ready" /\ capacity.binding = {},
       band |-> tolerance.band,
       limiting |-> (IF tolerance.status # "ready" THEN {"tolerance_unknown"} ELSE {}) \cup capacity.binding
                    \cup (IF \E g \in DOMAIN short : short[g] > 0 THEN {"short_horizon_goal_funds"} ELSE {})
                    \cup (IF v.restrictions # {} THEN {"user_restrictions"} ELSE {})]

\* Running streams the owner reported; one that is part of the stated surplus is taken from it, another is paid on top.
Live(c) == c.status = "active" /\ c.source = "existing_user_reported" /\ c.start <= 0 /\ (~ Known(c.end) \/ c.end >= 0)

Budget(v) ==
  LET included == SumOf([c \in {x \in v.streams : Live(x) /\ x.inside} |-> c.monthly])
      onTop == SumOf([c \in {x \in v.streams : Live(x) /\ ~ x.inside} |-> c.monthly])
      computed == ComputedSurplus(v.facts, v.debts)
  IN  IF ~ Known(v.facts.stated) THEN [status |-> "unknown", excluded |-> {c \in v.streams : ~ Live(c)}]
      ELSE [status |-> "known", excluded |-> {c \in v.streams : ~ Live(c)},
            remaining |-> Nonneg(v.facts.stated - included),
            over |-> v.facts.stated - included < 0,
            exceeds |-> IF Known(computed) THEN v.facts.stated + onTop > computed ELSE Undeclared]

-----------------------------------------------------------------------------
\* The illustration of a goal.

Funded(goal, rate) == Known(goal.reach) /\ rate >= goal.reach

\* Bisection between 0 and 100 %: the answer is above the least return by less than the last halving, then rounded to 0.1 %.
RequiredReturn(goal) ==
  IF Funded(goal, 0) THEN 0
  ELSE IF goal.months <= 0 \/ ~ Funded(goal, 10000) THEN Undeclared
  ELSE 10 * ((goal.reach + 5) \div 10)

Assessment(goal) ==
  LET needed == RequiredReturn(goal)
  IN  IF ~ Known(needed) THEN "target_needs_revision"
      ELSE IF needed > ScenarioRate["high"] THEN "target_needs_revision"
      ELSE IF needed > ScenarioRate["base"] THEN "needs_higher_return_or_contribution"
      ELSE "reachable_under_base"

\* A claim that needs review suppresses the illustration.
Illustration(goal) ==
  IF goal.review THEN [status |-> "blocked_needs_review"]
  ELSE IF goal.basis = "today_money" /\ ~ Known(goal.inflation) THEN [status |-> "needs_input"]
  ELSE [status |-> "ready", funded |-> {s \in DOMAIN ScenarioRate : Funded(goal, ScenarioRate[s])}, assessment |-> Assessment(goal)]

-----------------------------------------------------------------------------

\* What the forms accept: no amount is negative (_money, _pay), and scenarios are whole tenths of a percent.
Amounts == Nat \cup {Undeclared}
Declared(v) ==
  /\ {"facts", "debts", "streams"} \subseteq DOMAIN v
  /\ "answers" \in DOMAIN v.facts /\ \A x \in Essential \cup {"stated"} : x \in DOMAIN v.facts /\ v.facts[x] \in Amounts
  /\ IsFiniteSet(v.debts) /\ \A l \in v.debts : l.payment \in Amounts
  /\ IsFiniteSet(v.streams)
  /\ \A c \in v.streams : {"monthly", "inside", "status", "source", "start", "end"} \subseteq DOMAIN c /\ c.monthly \in Nat
  /\ v.goal.reach \in Int \cup {Undeclared}
  \* With no month left no return helps: a goal is reached already, or never.
  /\ v.goal.months <= 0 => ~ Known(v.goal.reach) \/ v.goal.reach <= 0

ASSUME LimitsAssumption ==
  /\ Undeclared \notin Int
  /\ \A s \in {"base", "high"} : s \in DOMAIN ScenarioRate /\ ScenarioRate[s] \in Nat /\ ScenarioRate[s] <= 10000 /\ ScenarioRate[s] % 10 = 0
  /\ \A v \in Views : Declared(v)

Nothing == [status |-> "nothing"]

LimitInit == view \in Views /\ given = Nothing

Show(what, value) == given = Nothing /\ view.what = what /\ given' = value /\ UNCHANGED view

GetProfile == Show("profile", [tolerance |-> ToleranceOf(view.facts.answers), capacity |-> CapacityFacts(view.facts, view.debts)])
GetConstraints == Show("constraints", Constraints(view))
GetBudget == Show("budget", Budget(view))
ProjectGoal == Show("goal", Illustration(view.goal))

LimitNext == GetProfile \/ GetConstraints \/ GetBudget \/ ProjectGoal

-----------------------------------------------------------------------------
\* Risk is permitted only to who has answered everything and holds the reserve, short of it by less than the rounding of a
\* tenth of a month; and whoever is permitted stays so with more reserve or less debt, whatever else is declared.
PermissionEarned ==
  view.what = "constraints" /\ given # Nothing /\ given.allowed =>
    LET f == view.facts
        more == [view EXCEPT !.facts = [f EXCEPT !.reserve = f.reserve + 1]]
        less == [view EXCEPT !.debts = {}]
    IN  /\ MissingFacts(f) = {} /\ \A q \in Questions : Known(f.answers[q])
        /\ 20 * f.reserve >= (2 * f.months - 1) * Outgo(f, view.debts)
        /\ Constraints(more).allowed /\ Constraints(less).allowed

\* What is left for new money is never more than the stated surplus, no stream counts twice, and a stream that begins or
\* resumes never frees money: it lowers what is left or the income that is left after the essentials.
BudgetHonest ==
  view.what = "budget" /\ given # Nothing /\ given.status = "known" =>
    /\ given.remaining \in 0 .. view.facts.stated
    /\ given.over => given.remaining = 0
    /\ \A c \in given.excluded :
         LET running == Budget([view EXCEPT !.streams = (view.streams \ {c}) \cup {[c EXCEPT !.status = "active", !.source = "existing_user_reported", !.start = 0, !.end = Undeclared]}])
         IN  running.remaining <= given.remaining /\ (given.exceeds = TRUE => running.exceeds)

\* The verdict on a goal agrees with the scenarios beside it, but for the half step to which the needed return is rounded.
VerdictFits ==
  view.what = "goal" /\ given # Nothing /\ given.status = "ready" =>
    LET need == view.goal.reach
        within(rate) == Known(need) /\ need <= rate + 5
    IN  /\ given.assessment = "reachable_under_base" => "base" \in given.funded \/ within(ScenarioRate["base"])
        /\ given.assessment = "needs_higher_return_or_contribution" =>
             "base" \notin given.funded /\ ("high" \in given.funded \/ within(ScenarioRate["high"]))
        /\ given.assessment = "target_needs_revision" => "high" \notin given.funded

\* What the pages of the owner's limits say: a permission is earned, a budget is not exceeded, and a verdict fits its scenario
\* (personal/constraints.py, goals/projection.py).
LimitsSound == PermissionEarned /\ BudgetHonest /\ VerdictFits

LimitSpec == LimitInit /\ [][LimitNext]_limitVars
=============================================================================
