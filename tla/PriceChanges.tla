---------------------------- MODULE PriceChanges ----------------------------
(***************************************************************************)
(* What changed in the price of what the owner holds or watches.  Each     *)
(* measure is a machine replayed over the stored closes: the side of the   *)
(* average changes only after a run of closes beyond a margin, and a fall  *)
(* or a swing is a latch that clears at another level than it enters.      *)
(* Closes arrive day by day; the signals of a security, and with them the  *)
(* last day that is looked at, when the worker has run.                    *)
(***************************************************************************)
EXTENDS Integers, Sequences, FiniteSets, FiniteSetsExt, SequencesExt

CONSTANTS
  SmaDays, YearSessions, ShortDays,      \* sessions of the average, of a year, of the recent swing
  Margin, Dwell, FreshSessions,  \* of the side of the average; the margin in per cent
  Falls,                         \* the two levels of a fall: enter and clear, in per cent below the high
  VolEnter, VolClear,            \* squares of the ratio of the swings, in hundredths
  Prices, Beginnings,            \* of closes
  Tracked, NavFunds,                \* securities with closes; funds without
  Qualities,                     \* what the signals can find: sound, thinly traded
  Mixes,                         \* of the risk answers and the mix: answered, outside, unknown
  MaxSessions

ASSUME ChangesAssumption ==
  /\ {SmaDays, YearSessions, ShortDays, Dwell} \subseteq Nat \ {0} /\ ShortDays <= YearSessions /\ 1 < ShortDays
  /\ Falls.deep.enter > Falls.fall.enter /\ Falls.deep.clear > Falls.fall.clear

VARIABLES
  closes,    \* the adjusted closes of a security
  signal,    \* its newest signals: the sessions they cover, whether they can be relied on, whether it is thinly traded
  held, watchlist, \* securities
  page       \* what the owner reads

changeVars == <<closes, signal, held, watchlist, page>>

NoSide == "none"
NoSignal == [sessions |-> 0, sound |-> FALSE, thin |-> FALSE]
NoPage == [at |-> "none"]

-----------------------------------------------------------------------------
(* The side of the average *)

SumUpTo(c, i, n) == FoldLeft(+, 0, SubSeq(c, i - n + 1, i))

\* Where a close is against the average of the sessions up to it, with a margin in per cent.
AboveBy(c, i, margin) == 100 * SmaDays * c[i] > SumUpTo(c, i, SmaDays) * (100 + margin)
BelowBy(c, i, margin) == 100 * SmaDays * c[i] < SumUpTo(c, i, SmaDays) * (100 - margin)

Sessions(from, c) == [k \in 1 .. Len(c) - from + 1 |-> from + k - 1]

SideStart == [side |-> NoSide, previous |-> NoSide, since |-> 0, hi |-> 0, lo |-> 0, changes |-> {}]

\* Faulty variant: closes beyond the margin count up although others came between.
SideStepLoose(c, t, i) ==
  LET hi == t.hi + (IF AboveBy(c, i, Margin) THEN 1 ELSE 0)
      lo == t.lo + (IF BelowBy(c, i, Margin) THEN 1 ELSE 0)
      new == IF hi >= Dwell THEN "above" ELSE IF lo >= Dwell THEN "below" ELSE NoSide
      now == [t EXCEPT !.hi = hi, !.lo = lo]
  IN IF new \in {NoSide, t.side} THEN now
     ELSE [now EXCEPT !.side = new, !.since = i, !.previous = t.side, !.changes = @ \cup (IF t.side = NoSide THEN {} ELSE {i})]

\* A session of trend_machine.
SideStep(c, t, i) ==
  LET hi == IF AboveBy(c, i, Margin) THEN t.hi + 1 ELSE 0
      lo == IF BelowBy(c, i, Margin) THEN t.lo + 1 ELSE 0
      new == IF hi >= Dwell THEN "above" ELSE IF lo >= Dwell THEN "below" ELSE NoSide
      now == [t EXCEPT !.hi = hi, !.lo = lo]
  IN IF new \in {NoSide, t.side} THEN now
     ELSE [now EXCEPT !.side = new, !.since = i, !.previous = t.side, !.changes = @ \cup (IF t.side = NoSide THEN {} ELSE {i})]

\* A session strictly on one side of the plain average.
Sided(c, i) == AboveBy(c, i, 0) \/ BelowBy(c, i, 0)

\* The plain crossings of the last year: sessions on the other side than the last sided one before them.
Crossings(c) ==
  LET year  == {i \in SmaDays .. Len(c) : i > Len(c) - YearSessions /\ Sided(c, i)}
      turns == {i \in year : LET before == {j \in year : j < i}
                             IN before # {} /\ AboveBy(c, i, 0) # AboveBy(c, Max(before), 0)}
  IN Cardinality(turns)

SideRun(c) == FoldLeft(LAMBDA m, i : SideStep(c, m, i), SideStart, Sessions(SmaDays, c))
SideFrom(c, t) == [side |-> t.side, previous |-> t.previous, since |-> t.since,
                   changes |-> Cardinality({i \in t.changes : i > Len(c) - YearSessions}), crossings |-> Crossings(c)]
SideMachine(c) == SideFrom(c, SideRun(c))

-----------------------------------------------------------------------------
(* Latches *)

High(c, i) == Max({c[k] : k \in i - YearSessions + 1 .. i})

\* A fall of a per cent from the high of the year.
FallenTo(c, i, percent) == 100 * c[i] <= (100 - percent) * High(c, i)

\* The returns of the year that ends at a session, over their common denominator.
Return(c, i, k) == c[k] * FoldLeft(LAMBDA p, q : p * q, 1, [j \in 1 .. YearSessions - 1 |-> LET s == i - YearSessions + j - 1 IN IF s < k - 1 THEN c[s] ELSE c[s + 1]])
Spread(c, i, n) ==
  LET days == i - n + 1 .. i
  IN n * MapThenSumSet(LAMBDA k : Return(c, i, k) * Return(c, i, k), days) - MapThenSumSet(LAMBDA k : Return(c, i, k), days) * MapThenSumSet(LAMBDA k : Return(c, i, k), days)

\* The squared ratio of the recent swing to that of the year, against a level; there is none if the year had no swing.
HasSwing(c, i) == Spread(c, i, YearSessions) # 0
SwingAt(c, i, level) == Spread(c, i, ShortDays) * YearSessions * (YearSessions - 1) * 100 >= level * Spread(c, i, YearSessions) * ShortDays * (ShortDays - 1)

\* band_machine: on since a session, 0 if off.
Latch(c, enters, clears) ==
  FoldLeft(LAMBDA l, i : IF l.on = 0 /\ i \in enters THEN [on |-> i, entries |-> l.entries \cup {i}]
                         ELSE IF l.on # 0 /\ i \in clears THEN [l EXCEPT !.on = 0]
                         ELSE l,
           [on |-> 0, entries |-> {}], Sessions(YearSessions + 1, c))

\* A session is looked at once a year of closes lies behind it; one that has no measure neither enters nor clears.
LookedAt(c) == YearSessions + 1 .. Len(c)
FallLatch(c, level) == Latch(c, {i \in LookedAt(c) : FallenTo(c, i, level.enter)}, {i \in LookedAt(c) : ~FallenTo(c, i, level.clear)})
SwingLatch(c) ==
  LET measured == {i \in LookedAt(c) : HasSwing(c, i)}
  IN Latch(c, {i \in measured : SwingAt(c, i, VolEnter)}, {i \in measured : ~SwingAt(c, i, VolClear)})

\* analyze: with too few closes nothing is said.
Enough(c) == Len(c) >= SmaDays + YearSessions + 1

Analysis(c) == [trend |-> SideMachine(c), fall |-> FallLatch(c, Falls.fall), deep |-> FallLatch(c, Falls.deep), swing |-> SwingLatch(c)]

-----------------------------------------------------------------------------
(* What is said *)

Recent(c, t) == t.previous # NoSide /\ Len(c) - t.since <= FreshSessions

\* observations: what is said of a security, and whether the owner should look.
SaidOf(s, c, a) ==
  LET say(kind, look) == [kind |-> kind, look |-> look]
  IN (IF a.trend.side = NoSide THEN {} ELSE {say(a.trend.side, s \in held /\ a.trend.side = "below" /\ Recent(c, a.trend))})
     \cup (IF a.deep.on # 0 THEN {say("deep", s \in held)} ELSE IF a.fall.on # 0 THEN {say("fall", FALSE)} ELSE {})
     \cup (IF a.swing.on # 0 THEN {say("swing", FALSE)} ELSE {})
     \cup (IF signal[s].thin THEN {say("thin", FALSE)} ELSE {})
Noticed(s, c) == IF Enough(c) THEN SaidOf(s, c, Analysis(c)) ELSE {}

\* The closes that the signals cover.
Covered(s) == SubSeq(closes[s], 1, signal[s].sessions)

PageEntry(s) == [quality |-> IF signal[s].sessions = 0 THEN "no_signals" ELSE IF signal[s].sound THEN "ok" ELSE "unsound",
             says |-> IF signal[s].sessions = 0 \/ ~signal[s].sound THEN {} ELSE Noticed(s, Covered(s))]

\* portfolio_items: what is said of the mix.
MixItems(mix) ==
  IF held = {} THEN {"no_holdings"} ELSE IF ~mix.answered THEN {"needs_risk_answers"}
  ELSE (IF mix.outside = {} THEN {"mix_within_band"} ELSE mix.outside) \cup (IF mix.unknown THEN {"unclassified_share"} ELSE {})

-----------------------------------------------------------------------------
(* Behaviour *)

ChangesInit ==
  /\ closes \in [Tracked -> Beginnings]
  /\ signal = [s \in Tracked \cup NavFunds |-> NoSignal]
  /\ held \in SUBSET (Tracked \cup NavFunds) /\ watchlist \in {{}, Tracked}
  /\ page = NoPage

Session(s, price) ==
  /\ page = NoPage /\ Len(closes[s]) < MaxSessions
  /\ closes' = [closes EXCEPT ![s] = Append(@, price)]
  /\ UNCHANGED <<signal, held, watchlist, page>>

\* The signals job: what it finds of the quality is taken as given.
SignalsRun(quality) ==
  /\ page = NoPage /\ \E s \in Tracked : signal[s].sessions < Len(closes[s])
  /\ signal' = [s \in Tracked \cup NavFunds |-> IF s \in Tracked THEN [sessions |-> Len(closes[s]), sound |-> quality.sound, thin |-> quality.thin] ELSE NoSignal]
  /\ UNCHANGED <<closes, held, watchlist, page>>

\* build_suggestions: those to look at come first.
PageOf(entries, mix) ==
  [at |-> "read", entries |-> entries, first |-> {s \in DOMAIN entries : \E o \in entries[s].says : o.look},
   funds |-> {s \in held \cap NavFunds : entries[s].quality = "no_signals"}, mix |-> MixItems(mix)]
Read(mix) ==
  /\ page = NoPage
  /\ page' = PageOf([s \in held \cup watchlist |-> PageEntry(s)], mix)
  /\ UNCHANGED <<closes, signal, held, watchlist>>

ChangesNext ==
  \/ \E s \in Tracked, p \in Prices : Session(s, p)
  \/ \E q \in Qualities : SignalsRun(q)
  \/ \E m \in Mixes : Read(m)

ChangesSpec == ChangesInit /\ [][ChangesNext]_changeVars

-----------------------------------------------------------------------------
(* Properties *)

\* The last session that ends a run of closes beyond the margin on one side.
Confirmed(c, beyond) == {i \in SmaDays + Dwell - 1 .. Len(c) : i - Dwell + 1 .. i \subseteq beyond}
ConfirmedAbove(c) == Confirmed(c, {i \in SmaDays .. Len(c) : AboveBy(c, i, Margin)})
ConfirmedBelow(c) == Confirmed(c, {i \in SmaDays .. Len(c) : BelowBy(c, i, Margin)})

\* The side is that of the last run, and dates from its first run after the last one of the other side.
SideAsDescribed(c, t, above, below) ==
  LET last(S) == IF S = {} THEN 0 ELSE Max(S)
      mine   == IF last(above) > last(below) THEN above ELSE below
      other  == last((above \cup below) \ mine)
  IN /\ t.side = IF above \cup below = {} THEN NoSide ELSE IF mine = above THEN "above" ELSE "below"
     /\ t.side # NoSide => t.since = Min({i \in mine : i > other})

\* A latch is on if its level was reached and the clearing level has not been left since.
FallAsDescribed(c, level) ==
  (FallLatch(c, level).on # 0) = \E i \in YearSessions + 1 .. Len(c) : FallenTo(c, i, level.enter) /\ \A j \in i .. Len(c) : FallenTo(c, j, level.clear)

\* The machines on each security's closes: a deep fall is a fall, a swing that is said has a value to show, and the rule changes
\* side at most once more than the price crosses the average (its run may reach back behind the year).
ChangesTrue ==
  \A s \in Tracked :
    LET c == Covered(s) IN Enough(c) =>
      /\ SideAsDescribed(c, SideMachine(c), ConfirmedAbove(c), ConfirmedBelow(c))
      /\ FallAsDescribed(c, Falls.fall) /\ FallAsDescribed(c, Falls.deep)
      /\ FallLatch(c, Falls.deep).on # 0 => FallLatch(c, Falls.fall).on # 0
      /\ SwingLatch(c).on # 0 => HasSwing(c, Len(c))
      /\ SideMachine(c).changes <= SideMachine(c).crossings + 1
=============================================================================
