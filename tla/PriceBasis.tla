----------------------------- MODULE PriceBasis -----------------------------
(***************************************************************************)
(* From stored closes and announced corporate actions to a series of total *)
(* return.  A source may have restated the closes before a split or bonus  *)
(* or not, which is inferred event by event from the move across the       *)
(* ex-date; dividends are quoted per share of their day.                   *)
(*                                                                         *)
(* What really happened is part of the input: the value of a holding, ex   *)
(* dividend, on each trading day, and the shares that one share becomes.   *)
(* The code sees only the closes and the announcements.  Numbers are       *)
(* fractions in lowest terms.                                              *)
(***************************************************************************)
EXTENDS Integers, Sequences, FiniteSets, FiniteSetsExt, TLC

CONSTANTS
  SureBand,        \* a factor this close to 1 cannot be told from a move
  Unclear,     \* a move this far from both readings fits neither
  QuietMove,   \* a company's own move across an ex-date, for the properties
  NoFactor,
  Histories   \* the inputs

ASSUME BasisAssumption == {SureBand[2], Unclear[2], QuietMove[2]} \subseteq Nat \ {0}

VARIABLES
  company,   \* the days, what happened on them, what was announced
  prepared   \* the adjusted closes, the doubts, the daily growth, and the dividends left out

basisVars == <<company, prepared>>

gcd[p \in Nat \X Nat] == IF p[2] = 0 THEN p[1] ELSE gcd[<<p[2], p[1] % p[2]>>]

Lowest(n, d) == <<n \div gcd[<<n, d>>], d \div gcd[<<n, d>>]>>
Times(x, y) == Lowest(x[1] * y[1], x[2] * y[2])
Over(x, y) == Times(x, <<y[2], y[1]>>)
Plus(x, y) == Lowest(x[1] * y[2] + y[1] * x[2], x[2] * y[2])
Below(x, y) == x[1] * y[2] < y[1] * x[2]
One == <<1, 1>>

\* How far a ratio is from 1, up or down.
Away(x) == IF x[1] < x[2] THEN <<x[2], x[1]>> ELSE x

Product(S, F(_)) == MapThenFoldSet(Times, One, F, LAMBDA T : CHOOSE e \in T : TRUE, S)

-----------------------------------------------------------------------------
(* Announcements *)

Event(kind, factor, amount, review) == [kind |-> kind, factor |-> factor, amount |-> amount, review |-> review]

\* Several amounts are added up if each is stated per share.
SureAmount(s) == s.amounts # <<>> /\ (\A k \in DOMAIN s.amounts : s.amounts[k] > 0) /\ (Len(s.amounts) = 1 \/ Len(s.amounts) = s.perShare)

Added(amounts) == MapThenSumSet(LAMBDA k : amounts[k], DOMAIN amounts)

\* parse_subject.
Parsed(s) ==
  IF s.form = "bonus" /\ s.a > 0 /\ s.b > 0 THEN Event("bonus", Lowest(s.b, s.a + s.b), NoFactor, FALSE)
  ELSE IF s.form = "split" /\ s.a > 0 /\ s.b > 0 /\ s.a # s.b THEN Event("split", Lowest(s.b, s.a), NoFactor, FALSE)
  ELSE IF s.form \in {"rights", "demerger"} THEN Event(s.form, NoFactor, NoFactor, TRUE)
  ELSE IF s.form \in {"buyback", "meeting"} THEN Event(s.form, NoFactor, NoFactor, FALSE)
  ELSE IF s.form = "interest" THEN Event("other", NoFactor, NoFactor, FALSE)
  ELSE IF s.form = "dividend" THEN Event("dividend", NoFactor, IF SureAmount(s) THEN Added(s.amounts) ELSE NoFactor, ~SureAmount(s))
  ELSE Event("other", NoFactor, NoFactor, TRUE)

Announced(c) == {Parsed(s.about) @@ [ex |-> s.ex, wording |-> s.wording] : s \in c.announced}

-----------------------------------------------------------------------------
(* Is the series already on the new base? *)

Days(c) == DOMAIN c.value
Before(c, d) == Max({x \in Days(c) : x < d})
From(c, d) == Min({x \in Days(c) : x >= d})
Inside(c, d) == Min(Days(c)) < d /\ d <= Max(Days(c))

Factors(c, ex, kind) == {e.factor : e \in {x \in Announced(c) : x.ex = ex /\ x.kind = kind /\ x.factor # NoFactor}}

\* _collapse: an event worded twice counts once; two factors for one event are a conflict.
Adjusting(c) == {[ex |-> e.ex, kind |-> e.kind, factor |-> e.factor] : e \in {x \in Announced(c) : x.factor # NoFactor}}
Certain(c) == {e \in Adjusting(c) : Factors(c, e.ex, e.kind) = {e.factor}}

\* The move across the ex-date, as the source has it.
Jump(c, close, ex) == Over(close[From(c, ex)], close[Before(c, ex)])

\* Faulty variant: every known event is applied to the closes before it.
StatusRaw(c, close, e) == IF e \notin Certain(c) THEN "conflict" ELSE IF ~Inside(c, e.ex) THEN "outside" ELSE "raw"

\* audit_events.
Status(c, close, e) ==
  IF e \notin Certain(c) THEN "conflict"
  ELSE IF ~Inside(c, e.ex) THEN "outside"
  ELSE LET raw      == Away(Over(Jump(c, close, e.ex), e.factor))
           adjusted == Away(Jump(c, close, e.ex))
           gap == IF Below(e.factor, One) THEN <<e.factor[2] - e.factor[1], e.factor[2]>> ELSE <<e.factor[1] - e.factor[2], e.factor[2]>>
       IN IF Below(gap, SureBand) THEN "indeterminate"
          ELSE IF Below(Unclear, raw) /\ Below(Unclear, adjusted) THEN "unclear"
          ELSE IF Below(raw, adjusted) THEN "raw" ELSE "adjusted"

Unsure == {"indeterminate", "unclear", "conflict"}

\* adjust_series: the closes before an event that the source has left as they were.
Adjusted(c, close) ==
  [d \in Days(c) |-> Times(close[d], Product({e \in Adjusting(c) : Status(c, close, e) = "raw" /\ d < e.ex}, LAMBDA e : e.factor))]

Doubts(c, close) ==
  {e.ex : e \in {x \in Adjusting(c) : Status(c, close, x) \in Unsure}}
  \cup {e.ex : e \in {x \in Announced(c) : x.review /\ x.kind \in {"rights", "demerger", "other"} /\ x.ex \in Min(Days(c)) .. Max(Days(c))}}

-----------------------------------------------------------------------------
(* Dividends *)

Dividends(c) == {e \in Announced(c) : e.kind = "dividend"}
Later(c, e) == {x \in Adjusting(c) : x.ex > e.ex}

Scalable(c, close, e) == ~e.review /\ Inside(c, e.ex) /\ \A x \in Later(c, e) : Status(c, close, x) \notin Unsure

\* scale_dividends: from shares of its day to shares of the last day.
Scaled(c, close, e) ==
  Times(<<e.amount, 1>>, Product({x \in Later(c, e) : Status(c, close, x) \in {"raw", "adjusted"}}, LAMBDA x : x.factor))

\* build_tr: a dividend counts on the first trading day from its ex-date.
Paid(c, close, d) ==
  MapThenFoldSet(Plus, <<0, 1>>, LAMBDA e : Scaled(c, close, e), LAMBDA T : CHOOSE e \in T : TRUE,
                 {e \in Dividends(c) : Scalable(c, close, e) /\ From(c, e.ex) = d})

DailyGrowth(c, close) ==
  [d \in Days(c) \ {Min(Days(c))} |-> Over(Plus(Adjusted(c, close)[d], Paid(c, close, d)), Adjusted(c, close)[Before(c, d)])]

-----------------------------------------------------------------------------
(* What happened *)

\* The shares that one share of the first day has become.
Shares(c, d) == Product({e \in c.real : e.ex <= d}, LAMBDA e : e.becomes)

\* The closes as the source has them: per share of the day, or per share of today before an event it has restated.
Close(c) ==
  [d \in Days(c) |-> Times(Over(<<c.value[d], 1>>, Shares(c, d)),
                           Product({e \in c.real : e.restated /\ d < e.ex /\ e.ex <= Max(Days(c))}, LAMBDA e : <<e.becomes[2], e.becomes[1]>>))]

BasisInit == company \in Histories /\ prepared = NoFactor

\* prepare.
Prepare ==
  /\ prepared = NoFactor
  /\ prepared' = [closes |-> Adjusted(company, Close(company)), doubts |-> Doubts(company, Close(company)),
                growth |-> DailyGrowth(company, Close(company)),
                skipped |-> {e \in Dividends(company) : (e.review \/ Inside(company, e.ex)) /\ ~Scalable(company, Close(company), e)}]
  /\ UNCHANGED company

BasisSpec == BasisInit /\ [][Prepare]_basisVars

-----------------------------------------------------------------------------
(* Properties *)

\* What is announced without contradiction did happen.
Honest(c) == \A e \in Certain(c) : \E r \in c.real : r.ex = e.ex /\ Lowest(r.becomes[2], r.becomes[1]) = e.factor

\* Across every ex-date the company itself moves little, less than half of the smallest factor that is told apart.
Quiet(c) == \A e \in c.real : Inside(c, e.ex) => ~Below(QuietMove, Away(Lowest(c.value[From(c, e.ex)], c.value[Before(c, e.ex)])))

\* The growth of the holding with its dividends reinvested.
WealthGrowth(c, d) ==
  LET paid == {e \in c.paid : Before(c, d) < e.ex /\ e.ex <= d}
  IN Over(MapThenFoldSet(Plus, <<c.value[d], 1>>, LAMBDA e : Times(<<e.amount, 1>>, Shares(c, e.ex)), LAMBDA T : CHOOSE e \in T : TRUE, paid),
          <<c.value[Before(c, d)], 1>>)

\* Whatever the source has restated: a series without doubts has the moves of the value, and one without a skipped dividend its growth.
BasisSound ==
  (prepared # NoFactor /\ Honest(company) /\ Quiet(company)) =>
    \/ prepared.doubts # {}
    \/ /\ \A d \in DOMAIN prepared.growth :
            Over(prepared.closes[d], prepared.closes[Before(company, d)]) = Lowest(company.value[d], company.value[Before(company, d)])
       /\ prepared.skipped = {} => \A d \in DOMAIN prepared.growth : prepared.growth[d] = WealthGrowth(company, d)
=============================================================================
