---------------------------- MODULE AdviceProofs ----------------------------
(***************************************************************************)
(* What advice rests on: the stored data that recommendation runs refresh  *)
(* while others read them, proved for any number of runs, companies, days  *)
(* and restatements.                                                       *)
(*                                                                         *)
(* That closes of two bases never meet in one series is not inductive.     *)
(* It rests on what a run has fetched (Fetch: a whole window up to one     *)
(* day, under one basis, but for the days that are stored under it) being  *)
(* clear of what others commit meanwhile (Clear), unless its insert is     *)
(* bound to fail (Struck).  Two fetches of one company that both go        *)
(* through share no day, and then their windows are a whole window apart   *)
(* (WindowsApart): each would have fetched the last day of the other.      *)
(* That no two runs wait for each other rests on the order in which all    *)
(* take the companies, and the news after them (Placed).                   *)
(*                                                                         *)
(* And what the owner's declared facts permit: pages that show what the    *)
(* facts say (LimitInv), rounded to a tenth of a month and of a percent    *)
(* without a permission, a budget or a verdict that the facts do not bear. *)
(*                                                                         *)
(* And what became of what was said.  A row of outcomes is filed under the *)
(* count a run read before the closes, which may be newer by then, never   *)
(* older (RowFits).  Two runs that overlap never file a row out of turn:   *)
(* a run knows every row up to the newest it has seen of a subject         *)
(* (RunKnows), so what others filed meanwhile has the number it would give *)
(* and clashes (JudgedRow).  That no evidence counts twice is a matter of  *)
(* the calendar (AddSessionsTwice, GreedyIsBest).                          *)
(*                                                                         *)
(* And the comparison an owner confirms an import on.  The rows take the   *)
(* holdings one by one (Matching), so that each is counted once; a claim   *)
(* that is not announced is on a holding that one row repeats, and still   *)
(* fits because active claims fit what the account holds (ActiveFit).      *)
(***************************************************************************)
EXTENDS ReportData, PersonalLimits, Outcomes, ImportPreview, TableLemmas

\* A bounded set of natural numbers that is not empty has a greatest one.
LEMMA Greatest ==
  ASSUME NEW n \in Nat, NEW S \in SUBSET (0 .. n), S # {}
  PROVE  \E x \in S : \A y \in S : y <= x
<1>. DEFINE F == {T \in SUBSET (0 .. n) : T # {} => \E x \in T : \A y \in T : y <= x}
<1>1. ASSUME NEW T \in SUBSET (0 .. n), \A U \in SUBSET T : U # T => U \in F PROVE T \in F
  <2>1. CASE T = {}
    BY <2>1
  <2>2. CASE T # {}
    <3>1. PICK x \in T : TRUE
      BY <2>2
    <3>2. T \ {x} \in F
      BY <1>1, <3>1
    <3>3. CASE T \ {x} = {}
      BY <3>1, <3>3
    <3>4. CASE T \ {x} # {}
      <4>1. PICK z \in T \ {x} : \A y \in T \ {x} : y <= z
        BY <3>2, <3>4
      <4>2. CASE x <= z
        BY <4>1, <4>2
      <4>3. CASE ~(x <= z)
        BY <4>1, <4>3
      <4>. QED BY <4>2, <4>3
    <3>. QED BY <3>3, <3>4
  <2>. QED BY <2>1, <2>2
<1>2. IsFiniteSet(0 .. n)
  BY FS_Interval
<1>3. \A T \in SUBSET (0 .. n) : T \in F
  <2>. HIDE DEF F
  <2>. QED BY <1>1, <1>2, SubsetInduction
<1>. QED BY <1>3

LEMMA MaxIs ==
  ASSUME NEW n \in Nat, NEW S \in SUBSET (0 .. n), S # {}
  PROVE  Max(S) \in S /\ \A y \in S : y <= Max(S)
<1>1. PICK x \in S : \A y \in S : y <= x
  BY Greatest
<1>2. \A y \in S : x >= y
  BY <1>1
<1>. QED BY <1>2 DEF Max

\* The companies stand in the seed once each.
LEMMA OrderShape ==
  /\ Order \in Seq(Names) /\ Len(Order) \in Nat \ {0} /\ DOMAIN Order = 1 .. Len(Order)
  /\ \A i \in 1 .. Len(Order) : Order[i] \in Names
  /\ \A i, j \in 1 .. Len(Order) : Order[i] = Order[j] => i = j
<1>. DEFINE n == Cardinality(Names)
<1>1. IsFiniteSet(Names) /\ n \in Nat /\ n # 0
  BY ReportAssumption, FS_CardinalityType, FS_EmptySet
<1>2. \E f \in [1 .. n -> Names] : IsInjective(f)
  <2>1. ExistsBijection(1 .. n, Names)
    BY <1>1, FS_CardinalityType
  <2>2. PICK f \in Bijection(1 .. n, Names) : TRUE
    BY <2>1 DEF ExistsBijection
  <2>. QED BY <2>2 DEF Bijection, Injection, IsInjective
<1>3. Order \in [1 .. n -> Names] /\ IsInjective(Order)
  BY <1>2 DEF Order, SetToSeq
<1>4. Order \in Seq(Names) /\ Len(Order) = n
  BY <1>1, <1>3
<1>. QED BY <1>1, <1>3, <1>4 DEF IsInjective

Stages == {"candles", "waits for candles", "ratios", "news", "waits for news", "council"}
PlainRows == [of : Names, day : Nat \ {0}, basis : Nat]
CandleRows == [of : Names, day : Nat \ {0}, basis : Nat, batch : Runners \X Nat, live : BOOLEAN]
DatedRows == [of : Names, at : Nat, by : Runners \X Nat]
Entries == [asOf : Nat, ratio : DatedRows \cup {Missing}, outlook : DatedRows \cup {Missing}]
Published == [manifest : UNION {[h -> Entries] : h \in SUBSET Names}, series : UNION {[h -> SUBSET PlainRows] : h \in SUBSET Names}]
Attempts ==
  [at : Stages, i : Nat \ {0}, by : Runners \X Nat, series : [Names -> SUBSET PlainRows], ratio : [Names -> DatedRows \cup {Missing}],
   insert : SUBSET PlainRows, wait : SUBSET PlainRows, retire : SUBSET CandleRows, ratios : SUBSET DatedRows, news : SUBSET Nat, newsWait : SUBSET Nat]

ReportTypes ==
  /\ today \in Nat \ {0} /\ basis \in [Names -> Nat]
  /\ candles \in SUBSET CandleRows /\ \A c \in candles : c.day <= today
  /\ ratios \in SUBSET DatedRows /\ outlooks \in SUBSET DatedRows /\ news \in SUBSET Nat
  /\ reports \in Seq(Published)
  /\ attempt \in [Runners -> Attempts \cup {Resting}]
  /\ \A a \in Runners : AtWork(a) => (\A c \in attempt[a].insert : c.day <= today) /\ \A s \in Names : \A c \in attempt[a].series[s] : c.day <= today

Keyed(n, s, d) == n.of = s /\ n.day = d
\* There is a current candle of the day; the fetch of a company holds a row of it.
LiveOn(s, d) == \E c \in candles : c.live /\ Keyed(c, s, d)
InWindow(d, T) == d > T - History /\ d <= T
Touches(a, s) == \E n \in attempt[a].insert : n.of = s

\* What a run has fetched of a company: the window that ends on day T, under basis B, but for the days that are stored so.
Fetch(a, s, T, B) ==
  /\ \E n \in attempt[a].insert : Keyed(n, s, T)
  /\ \A n \in attempt[a].insert : n.of = s => InWindow(n.day, T) /\ n.basis = B
  /\ \A c \in attempt[a].retire : c.of = s => c.day < T
  /\ \A d \in Nat \ {0} : InWindow(d, T) => LiveOn(s, d) \/ \E n \in attempt[a].insert : Keyed(n, s, d)

\* Nothing stored since is in the way of it.
Clear(a, s, T, B) ==
  /\ \A c \in candles \ attempt[a].retire : c.live /\ c.of = s =>
       /\ \A n \in attempt[a].insert : n.of = s => n.day # c.day
       /\ InWindow(c.day, T) => c.basis = B
  /\ \A d \in Nat : LiveOn(s, d) /\ d >= T => \E e \in Nat : LiveOn(s, e) /\ e >= T + History

\* The insert that waits will fail.
Struck(a, s) == \E c \in candles \ attempt[a].retire : c.live /\ c.of = s /\ \E n \in attempt[a].wait : Keyed(n, s, c.day)

Fetches(a) ==
  \A s \in Names : Touches(a, s) => \E T \in Nat \ {0}, B \in Nat : Fetch(a, s, T, B) /\ (Clear(a, s, T, B) \/ Struck(a, s))

\* Companies are taken in their order, news after all of them.
Placed(t) ==
  /\ t.at \in {"candles", "waits for candles", "ratios"} => t.i \in 1 .. Len(Order)
  /\ \A n \in t.insert : \E j \in 1 .. Len(Order) :
       n.of = Order[j] /\ (j < t.i \/ (j = t.i /\ t.at \in {"waits for candles", "ratios"}))
  /\ t.wait = IF t.at = "waits for candles" THEN {n \in t.insert : n.of = Order[t.i]} ELSE {}
  /\ t.at \notin {"waits for news", "council"} => t.news = {}
  /\ t.newsWait = IF t.at = "waits for news" THEN t.news ELSE {}

InPlace(a) == Placed(attempt[a])

Replaces(a) == \A c \in attempt[a].retire : \E n \in attempt[a].insert : Keyed(n, c.of, c.day)

\* No two runs hold the row of one company and day.
Apart(a, b) ==
  \A n \in attempt[a].insert \ attempt[a].wait, m \in attempt[b].insert \ attempt[b].wait : ~ Keyed(n, m.of, m.day)

\* The number of an attempt is on no row that another one stored.
Numbered(a) ==
  /\ attempt[a].by[1] = a /\ attempt[a].by[2] <= Len(reports)
  /\ \A c \in attempt[a].retire : c.batch[2] < Len(reports)
  /\ \A c \in candles : c.batch # attempt[a].by
Foreign(a, b) == \A c \in attempt[b].retire : c.batch # attempt[a].by

\* What a run has read of a company is stored or will be, current and of one basis.
Evidenced(a) ==
  \A s \in Names :
    /\ \A c \in attempt[a].series[s] : c.of = s
    /\ \A c \in attempt[a].series[s] : c \in attempt[a].insert \/ ((\E r \in candles : Plain(r) = c) /\ LiveOn(s, c.day))
    /\ \A c, d \in attempt[a].series[s] : c.basis = d.basis \/ \E e \in attempt[a].series[s] : e.day >= c.day + History \/ e.day >= d.day + History
    /\ attempt[a].ratio[s] # Missing => attempt[a].ratio[s] \in ratios \cup attempt[a].ratios

AttemptSound(a) == Fetches(a) /\ InPlace(a) /\ Replaces(a) /\ Numbered(a) /\ Evidenced(a)

\* Current candles of one company differ in their basis only if a window has ended between them.
LiveOneBasis ==
  \A c, d \in candles : c.live /\ d.live /\ c.of = d.of =>
    c.basis = d.basis \/ \E e \in Nat : LiveOn(c.of, e) /\ (e >= c.day + History \/ e >= d.day + History)

BatchesOld == \A c \in candles : c.batch[2] < Len(reports)

\* The day of a verdict keeps a current candle.
AsOfLive == \A i \in DOMAIN reports : \A s \in DOMAIN reports[i].manifest : LiveOn(s, reports[i].manifest[s].asOf)
SameCompanies == \A i \in DOMAIN reports : DOMAIN reports[i].manifest = DOMAIN reports[i].series

ReportInv ==
  /\ ReportTypes
  /\ \A a \in Runners : AtWork(a) => AttemptSound(a)
  /\ \A a, b \in Runners : AtWork(a) /\ AtWork(b) /\ a # b => Apart(a, b)
  /\ \A a, b \in Runners : AtWork(a) /\ AtWork(b) => Foreign(a, b)
  /\ OneCurrent /\ LiveOneBasis /\ BatchesOld /\ AsOfLive /\ SameCompanies /\ Rebuildable /\ OneBasis

-----------------------------------------------------------------------------
LEMMA AttemptType ==
  ASSUME ReportTypes, NEW a \in Runners, AtWork(a)
  PROVE  attempt[a] \in Attempts
  BY DEF ReportTypes, AtWork

\* An attempt is not the rest.
LEMMA Woken == ASSUME NEW t \in Attempts PROVE t # Resting
<1>1. t.at # "rest"
  BY DEF Attempts, Stages
<1>. QED BY <1>1 DEF Resting

\* The fetch of a company is judged by the rows the run holds and the candles alone.
LEMMA SameFetches ==
  ASSUME NEW a \in Runners, Fetches(a), UNCHANGED candles, attempt'[a].insert = attempt[a].insert, attempt'[a].wait = attempt[a].wait,
         attempt'[a].retire = attempt[a].retire
  PROVE  Fetches(a)'
<1>1. \A s, d : LiveOn(s, d)' <=> LiveOn(s, d)
  BY DEF LiveOn, Keyed
<1>2. \A s, T, B : Fetch(a, s, T, B)' <=> Fetch(a, s, T, B)
  BY <1>1 DEF Fetch, Keyed, InWindow
<1>3. \A s, T, B : Clear(a, s, T, B)' <=> Clear(a, s, T, B)
  BY <1>1 DEF Clear, InWindow
<1>4. \A s : (Struck(a, s)' <=> Struck(a, s)) /\ (Touches(a, s)' <=> Touches(a, s))
  BY DEF Struck, Touches, Keyed
<1>. QED BY <1>2, <1>3, <1>4 DEF Fetches

\* A step of one attempt that writes nothing: what has to be shown of that attempt, and of it next to the others.
LEMMA AloneAt ==
  ASSUME ReportInv, NEW a \in Runners, NEW t \in Attempts \cup {Resting}, attempt' = [attempt EXCEPT ![a] = t], UNCHANGED <<quotes, tables>>,
         t # Resting => /\ AttemptSound(a)'
                        /\ \A c \in t.insert : c.day <= today
                        /\ \A s \in Names : \A c \in t.series[s] : c.day <= today
                        /\ \A b \in Runners \ {a} : AtWork(b) => Apart(a, b)' /\ Foreign(a, b)' /\ Foreign(b, a)'
                        /\ Foreign(a, a)'
  PROVE  ReportInv'
<1>. USE DEF quotes, tables
<1>1. attempt'[a] = t /\ \A b \in Runners \ {a} : attempt'[b] = attempt[b]
  BY DEF ReportInv, ReportTypes
<1>2. AtWork(a)' <=> t # Resting
  BY <1>1 DEF AtWork
<1>3. \A b \in Runners \ {a} : AtWork(b)' <=> AtWork(b)
  BY <1>1 DEF AtWork
<1>4. \A s, d : LiveOn(s, d)' <=> LiveOn(s, d)
  BY DEF LiveOn, Keyed
<1>5. ReportTypes'
  BY <1>1, <1>2, <1>3 DEF ReportInv, ReportTypes
<1>6. ASSUME NEW b \in Runners \ {a}, AtWork(b) PROVE AttemptSound(b)'
  <2>1. AttemptSound(b)
    BY <1>6 DEF ReportInv
  <2>2. attempt'[b] = attempt[b]
    BY <1>1
  <2>3. Fetches(b)'
    BY <2>1, <2>2, SameFetches DEF AttemptSound
  <2>4. InPlace(b)'
    BY <2>1, <2>2 DEF AttemptSound, InPlace
  <2>6. Replaces(b)' /\ Numbered(b)'
    BY <2>1, <2>2 DEF AttemptSound, Replaces, Numbered, Keyed
  <2>5. Evidenced(b)'
    BY <2>1, <2>2, <1>4 DEF AttemptSound, Evidenced
  <2>. QED BY <2>3, <2>4, <2>5, <2>6 DEF AttemptSound
<1>7. \A b \in Runners : AtWork(b)' => AttemptSound(b)'
  BY <1>2, <1>3, <1>6
<1>8. \A b, c \in Runners : AtWork(b)' /\ AtWork(c)' /\ b # c => Apart(b, c)'
  <2>1. \A b, c \in Runners \ {a} : AtWork(b) /\ AtWork(c) /\ b # c => Apart(b, c)'
    BY <1>1 DEF ReportInv, Apart
  <2>2. \A b \in Runners \ {a} : AtWork(b) /\ AtWork(a)' => Apart(a, b)' /\ Apart(b, a)'
    BY <1>1, <1>2 DEF Apart, Keyed
  <2>. QED BY <1>3, <2>1, <2>2
<1>9. \A b, c \in Runners : AtWork(b)' /\ AtWork(c)' => Foreign(b, c)'
  <2>1. \A b, c \in Runners \ {a} : AtWork(b) /\ AtWork(c) => Foreign(b, c)'
    BY <1>1 DEF ReportInv, Foreign
  <2>2. AtWork(a)' => Foreign(a, a)'
    BY <1>2
  <2>3. \A b \in Runners \ {a} : AtWork(b) /\ AtWork(a)' => Foreign(a, b)' /\ Foreign(b, a)'
    BY <1>2
  <2>. QED BY <1>3, <2>1, <2>2, <2>3
<1>10. (OneCurrent /\ LiveOneBasis /\ BatchesOld /\ AsOfLive /\ SameCompanies /\ Rebuildable /\ OneBasis)'
  BY DEF ReportInv, OneCurrent, LiveOneBasis, BatchesOld, AsOfLive, SameCompanies, Rebuildable, OneBasis, LiveOn
<1>. QED BY <1>5, <1>7, <1>8, <1>9, <1>10 DEF ReportInv

\* Where the run keeps its rows as they are, only its place is to be shown.
LEMMA SameRows ==
  ASSUME ReportInv, NEW a \in Runners, AtWork(a), NEW t \in Attempts, attempt' = [attempt EXCEPT ![a] = t], UNCHANGED <<quotes, tables>>,
         t.insert = attempt[a].insert, t.wait = attempt[a].wait, t.retire = attempt[a].retire, t.by = attempt[a].by, t.series = attempt[a].series,
         InPlace(a)',
         \A s \in Names : t.ratio[s] # Missing => t.ratio[s] \in ratios \cup t.ratios
  PROVE  ReportInv'
<1>. USE DEF quotes, tables
<1>1. attempt'[a] = t /\ \A b \in Runners \ {a} : attempt'[b] = attempt[b]
  BY DEF ReportInv, ReportTypes
<1>2. AttemptSound(a)
  BY DEF ReportInv
<1>3. Fetches(a)'
  BY <1>1, <1>2, SameFetches DEF AttemptSound
<1>4. Replaces(a)' /\ Numbered(a)' /\ Evidenced(a)'
  BY <1>1, <1>2 DEF AttemptSound, Replaces, Numbered, Evidenced, LiveOn
<1>5. \A b \in Runners \ {a} : AtWork(b) => Apart(a, b)' /\ Foreign(a, b)' /\ Foreign(b, a)'
  BY <1>1 DEF ReportInv, Apart, Foreign
<1>6. Foreign(a, a)'
  BY <1>1 DEF ReportInv, Foreign
<1>7. (\A c \in t.insert : c.day <= today) /\ \A s \in Names : \A c \in t.series[s] : c.day <= today
  BY DEF ReportInv, ReportTypes
<1>. QED BY <1>2, <1>3, <1>4, <1>5, <1>6, <1>7, AloneAt DEF AttemptSound

LEMMA DaysOf ==
  ASSUME ReportTypes, NEW s, NEW c \in CurrentRows(s)
  PROVE  c.day <= DayOf(CurrentRows(s)) /\ DayOf(CurrentRows(s)) \in Nat /\ \E e \in CurrentRows(s) : e.day = DayOf(CurrentRows(s))
<1>. DEFINE S == {e.day : e \in CurrentRows(s)}
<1>1. today \in Nat /\ S \in SUBSET (0 .. today) /\ S # {}
  BY DEF ReportTypes, CurrentRows, CandleRows
<1>. HIDE DEF S
<1>2. Max(S) \in S /\ \A y \in S : y <= Max(S)
  BY <1>1, MaxIs
<1>3. DayOf(CurrentRows(s)) = Max(S)
  BY DEF DayOf, S
<1>4. c.day \in S /\ \A x \in S : \E e \in CurrentRows(s) : e.day = x
  BY DEF S
<1>5. c.day <= Max(S) /\ Max(S) \in Nat
  <2>1. c.day <= Max(S)
    BY <1>2, <1>4
  <2>2. Max(S) \in 0 .. today
    BY <1>1, <1>2
  <2>. QED BY <1>1, <2>1, <2>2
<1>6. \E e \in CurrentRows(s) : e.day = Max(S)
  BY <1>2, <1>4
<1>. QED BY <1>3, <1>5, <1>6

LEMMA NotCached ==
  ASSUME ReportTypes, NEW s, ~ Cached(s), NEW c \in CurrentRows(s)
  PROVE  c.day < today
<1>1. today - DayOf(CurrentRows(s)) > Tolerance
  BY DaysOf, ReportAssumption DEF Cached, ReportTypes
<1>2. c.day \in Nat
  BY DEF CurrentRows, ReportTypes, CandleRows
<1>. QED BY <1>1, <1>2, DaysOf, ReportAssumption DEF ReportTypes

\* What a fetch inserts and retires, when the newest current candle is too old.
LEMMA NewFetch ==
  ASSUME ReportTypes, OneCurrent, NEW s \in Names, ~ Cached(s)
  PROVE  /\ \E n \in ToInsert(s) : Keyed(n, s, today)
         /\ ToInsert(s) \subseteq PlainRows /\ Fetched(s) \subseteq PlainRows /\ ToInsert(s) \subseteq Fetched(s)
         /\ \A n \in Fetched(s) : n.of = s /\ InWindow(n.day, today) /\ n.basis = basis[s]
         /\ \A c \in ToRetire(s) : c \in candles /\ c.of = s /\ c.day < today /\ \E n \in ToInsert(s) : Keyed(n, c.of, c.day)
         /\ \A d \in Nat \ {0} : InWindow(d, today) => LiveOn(s, d) \/ \E n \in ToInsert(s) : Keyed(n, s, d)
         /\ \A c \in candles \ ToRetire(s) : c.live /\ c.of = s =>
              (\A n \in ToInsert(s) : n.day # c.day) /\ (InWindow(c.day, today) => c.basis = basis[s])
         /\ \A d : LiveOn(s, d) => d < today
         /\ \A n \in Fetched(s) \ ToInsert(s) : (\E r \in candles : Plain(r) = n) /\ LiveOn(s, n.day)
<1>. DEFINE row(d) == [of |-> s, day |-> d, basis |-> basis[s]]
<1>1. today \in Nat \ {0} /\ basis[s] \in Nat /\ History \in Nat \ {0}
  BY ReportAssumption DEF ReportTypes
<1>2. \A d : d \in Window <=> d \in Nat \ {0} /\ InWindow(d, today)
  BY <1>1 DEF Window, InWindow
<1>3. Fetched(s) \subseteq PlainRows /\ \A n \in Fetched(s) : n.of = s /\ InWindow(n.day, today) /\ n.basis = basis[s]
  BY <1>1, <1>2 DEF Fetched, PlainRows
<1>4. \A d \in Window : row(d) \in Fetched(s)
  BY DEF Fetched
<1>5. \A c \in CurrentRows(s) : c \in candles /\ c.live /\ c.of = s /\ c \in CandleRows /\ c.day < today
  BY NotCached DEF CurrentRows, ReportTypes
<1>6. \A c : c \in candles /\ c.live /\ c.of = s => c \in CurrentRows(s)
  BY DEF CurrentRows
<1>7. \A d \in Window : row(d) \in ToInsert(s) \/ \E c \in CurrentRows(s) : Plain(c) = row(d)
  BY <1>4 DEF ToInsert
<1>8. \A d \in Window : row(d) \in ToInsert(s) \/ LiveOn(s, d)
  BY <1>7, <1>5 DEF LiveOn, Keyed, Plain
<1>9. \A n \in Fetched(s) \ ToInsert(s) : \E r \in CurrentRows(s) : Plain(r) = n
  BY DEF ToInsert
<1>10. \A n \in Fetched(s) \ ToInsert(s) : (\E r \in candles : Plain(r) = n) /\ LiveOn(s, n.day)
  BY <1>9, <1>5 DEF LiveOn, Keyed, Plain
<1>11. today \in Window /\ ~ LiveOn(s, today)
  BY <1>1, <1>2, <1>5, <1>6 DEF InWindow, LiveOn, Keyed
<1>12. \E n \in ToInsert(s) : Keyed(n, s, today)
  BY <1>8, <1>11 DEF Keyed
<1>13. ASSUME NEW c \in candles \ ToRetire(s), c.live, c.of = s
       PROVE  (\A n \in ToInsert(s) : n.day # c.day) /\ (InWindow(c.day, today) => c.basis = basis[s])
  <2>1. c \in CurrentRows(s) /\ c \in CandleRows
    BY <1>13, <1>5, <1>6
  <2>2. ASSUME NEW n \in ToInsert(s), n.day = c.day PROVE FALSE
    <3>1. n.of = s
      BY <1>3 DEF ToInsert
    <3>. QED BY <1>13, <2>1, <2>2, <3>1 DEF ToRetire, Key
  <2>3. ASSUME InWindow(c.day, today) PROVE c.basis = basis[s]
    <3>1. c.day \in Window
      BY <2>1, <2>3, <1>2 DEF CandleRows
    <3>2. row(c.day) \notin ToInsert(s)
      BY <2>2
    <3>3. PICK e \in CurrentRows(s) : Plain(e) = row(c.day)
      BY <3>1, <3>2, <1>7
    <3>4. e.of = s /\ e.day = c.day /\ e.basis = basis[s]
      BY <3>3 DEF Plain
    <3>5. e = c
      BY <1>5, <2>1, <3>4 DEF OneCurrent, Key
    <3>. QED BY <3>4, <3>5
  <2>. QED BY <2>2, <2>3
<1>14. \A c \in ToRetire(s) : c \in candles /\ c.of = s /\ c.day < today /\ \E n \in ToInsert(s) : Keyed(n, c.of, c.day)
  BY <1>5 DEF ToRetire, Keyed, Key
<1>15. ToInsert(s) \subseteq Fetched(s)
  BY DEF ToInsert
<1>16. \A d : LiveOn(s, d) => d < today
  BY <1>5, <1>6 DEF LiveOn, Keyed
<1>17. \A d \in Nat \ {0} : InWindow(d, today) => LiveOn(s, d) \/ \E n \in ToInsert(s) : Keyed(n, s, d)
  <2>. SUFFICES ASSUME NEW d \in Nat \ {0}, InWindow(d, today), ~ LiveOn(s, d) PROVE \E n \in ToInsert(s) : Keyed(n, s, d)
    OBVIOUS
  <2>1. row(d) \in ToInsert(s)
    BY <1>2, <1>8
  <2>2. Keyed(row(d), s, d)
    BY DEF Keyed
  <2>. QED BY <2>1, <2>2
<1>. QED BY <1>3, <1>10, <1>12, <1>13, <1>14, <1>15, <1>16, <1>17

-----------------------------------------------------------------------------
LEMMA StartRunKeeps == ASSUME ReportInv, NEW a \in Runners, StartRun(a) PROVE ReportInv'
<1>. DEFINE t == [at |-> "candles", i |-> 1, by |-> <<a, Len(reports)>>, series |-> [s \in Names |-> {}], ratio |-> [s \in Names |-> Missing],
                  insert |-> {}, wait |-> {}, retire |-> {}, ratios |-> {}, news |-> {}, newsWait |-> {}]
<1>1. Len(reports) \in Nat
  BY DEF ReportInv, ReportTypes
<1>2. t \in Attempts
  BY <1>1 DEF Attempts, Stages
<1>3. attempt' = [attempt EXCEPT ![a] = t] /\ UNCHANGED <<quotes, tables>>
  BY DEF StartRun
<1>4. attempt'[a] = t /\ reports' = reports /\ candles' = candles /\ \A b \in Runners \ {a} : attempt'[b] = attempt[b]
  BY <1>3 DEF ReportInv, ReportTypes, tables
<1>5. Fetches(a)' /\ Replaces(a)'
  BY <1>4 DEF Fetches, Touches, Replaces
<1>6. InPlace(a)'
  BY <1>4, OrderShape DEF InPlace, Placed
<1>7. Numbered(a)'
  BY <1>4, <1>1 DEF Numbered, ReportInv, BatchesOld
<1>8. Evidenced(a)'
  BY <1>4 DEF Evidenced
<1>9. ASSUME NEW b \in Runners \ {a}, AtWork(b) PROVE Apart(a, b)' /\ Foreign(a, b)' /\ Foreign(b, a)'
  <2>1. Numbered(b)
    BY <1>9 DEF ReportInv, AttemptSound
  <2>. QED BY <1>1, <1>4, <2>1 DEF Apart, Foreign, Numbered
<1>10. Foreign(a, a)'
  BY <1>4 DEF Foreign
<1>. HIDE DEF t
<1>11. t.insert = {} /\ \A s \in Names : t.series[s] = {}
  BY DEF t
<1>. QED BY <1>2, <1>3, <1>5, <1>6, <1>7, <1>8, <1>9, <1>10, <1>11, AloneAt DEF AttemptSound

LEMMA RunFailsKeeps == ASSUME ReportInv, NEW a \in Runners, RunFails(a) PROVE ReportInv'
  BY AloneAt DEF RunFails

\* A run that fetches a company has no rows of it yet.
LEMMA NotTouched ==
  ASSUME ReportInv, NEW a \in Runners, AtWork(a), attempt[a].at = "candles"
  PROVE  /\ attempt[a].i \in 1 .. Len(Order) /\ Order[attempt[a].i] \in Names /\ ~ Touches(a, Order[attempt[a].i]) /\ attempt[a].wait = {}
         /\ \A c \in attempt[a].retire : c.of # Order[attempt[a].i]
<1>1. Placed(attempt[a]) /\ Replaces(a)
  BY DEF ReportInv, AttemptSound, InPlace
<1>2. attempt[a].i \in 1 .. Len(Order) /\ attempt[a].wait = {}
  BY <1>1 DEF Placed
<1>3. ~ Touches(a, Order[attempt[a].i])
  <2>. SUFFICES ASSUME NEW n \in attempt[a].insert, n.of = Order[attempt[a].i] PROVE FALSE
    BY DEF Touches
  <2>1. PICK j \in 1 .. Len(Order) : n.of = Order[j] /\ (j < attempt[a].i \/ (j = attempt[a].i /\ attempt[a].at \in {"waits for candles", "ratios"}))
    BY <1>1 DEF Placed
  <2>2. j < attempt[a].i
    BY <2>1
  <2>3. j = attempt[a].i
    BY <1>2, <2>1, OrderShape
  <2>. QED BY <1>2, <2>2, <2>3
<1>. QED BY <1>1, <1>2, <1>3, OrderShape DEF Replaces, Touches, Keyed

LEMMA CacheHitKeeps ==
  ASSUME ReportInv, NEW a \in Runners, AtWork(a), attempt[a].at = "candles", NEW s \in Names, s = Order[attempt[a].i],
         attempt' = [attempt EXCEPT ![a].at = "ratios", ![a].series[s] = {Plain(c) : c \in CurrentRows(s)}], UNCHANGED <<quotes, tables>>
  PROVE  ReportInv'
<1>. DEFINE read == {Plain(c) : c \in CurrentRows(s)}
            t == [attempt[a] EXCEPT !.at = "ratios", !.series[s] = read]
<1>1. attempt[a] \in Attempts /\ AttemptSound(a) /\ ReportTypes
  BY AttemptType DEF ReportInv
<1>2. read \in SUBSET PlainRows
  BY <1>1 DEF CurrentRows, ReportTypes, CandleRows, PlainRows, Plain
<1>3. attempt' = [attempt EXCEPT ![a] = t]
  OBVIOUS
<1>. HIDE DEF read
<1>4. t \in Attempts
  BY <1>1, <1>2 DEF Attempts, Stages
<1>5. attempt'[a] = t /\ t.insert = attempt[a].insert /\ t.wait = attempt[a].wait /\ t.retire = attempt[a].retire /\ t.ratio = attempt[a].ratio
      /\ t.by = attempt[a].by /\ t.i = attempt[a].i /\ t.at = "ratios" /\ t.ratios = attempt[a].ratios /\ t.news = attempt[a].news /\ t.newsWait = attempt[a].newsWait
      /\ t.series[s] = read /\ \A x \in Names \ {s} : t.series[x] = attempt[a].series[x]
  BY <1>1, <1>3 DEF Attempts, ReportTypes
<1>6. UNCHANGED <<candles, ratios, reports, today>>
  BY DEF quotes, tables
<1>. HIDE DEF t
<1>7. Fetches(a)'
  BY <1>1, <1>5, <1>6, SameFetches DEF AttemptSound
<1>8. InPlace(a)'
  <2>1. Placed(attempt[a]) /\ attempt[a].i \in 1 .. Len(Order) /\ attempt[a].wait = {}
    BY <1>1, NotTouched DEF AttemptSound, InPlace
  <2>. QED BY <2>1, <1>5 DEF InPlace, Placed
<1>9. Replaces(a)' /\ Numbered(a)'
  BY <1>1, <1>5, <1>6 DEF AttemptSound, Replaces, Numbered
<1>10. \A c \in read : \E r \in CurrentRows(s) : c = Plain(r)
  BY DEF read
<1>11. \A r \in CurrentRows(s) : Plain(r) \in read /\ r \in candles /\ r.live /\ r.of = s
  BY DEF read, CurrentRows
<1>12. \A d : LiveOn(s, d) => \E c \in read : c.day = d
  <2>1. \A r : r \in candles /\ r.live /\ r.of = s => r \in CurrentRows(s)
    BY DEF CurrentRows
  <2>. SUFFICES ASSUME NEW d, NEW r \in candles, r.live, r.of = s, r.day = d PROVE \E c \in read : c.day = d
    BY DEF LiveOn, Keyed
  <2>2. Plain(r) \in read /\ Plain(r).day = d
    BY <1>11, <2>1 DEF Plain
  <2>. QED BY <2>2
<1>13. Evidenced(a)'
  <2>1. \A x, d : LiveOn(x, d)' <=> LiveOn(x, d)
    BY <1>6 DEF LiveOn, Keyed
  <2>2. ASSUME NEW c \in read PROVE c.of = s /\ (\E r \in candles : Plain(r) = c) /\ LiveOn(s, c.day) /\ c.day <= today
    BY <2>2, <1>1, <1>10, <1>11 DEF Plain, LiveOn, Keyed, ReportTypes
  <2>3. ASSUME NEW c \in read, NEW d \in read PROVE c.basis = d.basis \/ \E e \in read : e.day >= c.day + History \/ e.day >= d.day + History
    <3>1. PICK p, q \in CurrentRows(s) : c = Plain(p) /\ d = Plain(q)
      BY <2>3, <1>10
    <3>2. p \in candles /\ q \in candles /\ p.live /\ q.live /\ p.of = s /\ q.of = s
      BY <3>1, <1>11
    <3>3. p.basis = q.basis \/ \E e \in Nat : LiveOn(s, e) /\ (e >= p.day + History \/ e >= q.day + History)
      BY <3>2 DEF ReportInv, LiveOneBasis
    <3>4. c.basis = p.basis /\ d.basis = q.basis /\ c.day = p.day /\ d.day = q.day
      BY <3>1 DEF Plain
    <3>. QED BY <3>3, <3>4, <1>12
  <2>4. ASSUME NEW x \in Names \ {s}
        PROVE /\ \A c \in t.series[x] : c.of = x
              /\ \A c \in t.series[x] : c \in t.insert \/ ((\E r \in candles : Plain(r) = c) /\ LiveOn(x, c.day))
              /\ \A c, d \in t.series[x] : c.basis = d.basis \/ \E e \in t.series[x] : e.day >= c.day + History \/ e.day >= d.day + History
    BY <1>1, <1>5 DEF AttemptSound, Evidenced
  <2>5. \A x \in Names : t.ratio[x] # Missing => t.ratio[x] \in ratios \cup t.ratios
    BY <1>1, <1>5 DEF AttemptSound, Evidenced
  <2>6. \A x \in Names :
              /\ \A c \in t.series[x] : c.of = x
              /\ \A c \in t.series[x] : c \in t.insert \/ ((\E r \in candles : Plain(r) = c) /\ LiveOn(x, c.day))
              /\ \A c, d \in t.series[x] : c.basis = d.basis \/ \E e \in t.series[x] : e.day >= c.day + History \/ e.day >= d.day + History
    BY <2>2, <2>3, <2>4, <1>5
  <2>7. attempt'[a].series = t.series /\ attempt'[a].insert = t.insert /\ attempt'[a].ratio = t.ratio /\ attempt'[a].ratios = t.ratios
    BY <1>5
  <2>8. \A x \in Names : \A c \in t.series[x] : c \in t.insert \/ ((\E r \in candles' : Plain(r) = c) /\ LiveOn(x, c.day)')
    BY <2>1, <2>6, <1>6
  <2>. QED BY <2>5, <2>6, <2>7, <2>8, <1>6 DEF Evidenced
<1>14. \A b \in Runners \ {a} : AtWork(b) => Apart(a, b)' /\ Foreign(a, b)' /\ Foreign(b, a)'
  <2>1. \A b \in Runners \ {a} : attempt'[b] = attempt[b]
    BY <1>1, <1>3 DEF ReportTypes
  <2>2. \A b \in Runners \ {a} : AtWork(b) => Apart(a, b)'
    BY <2>1, <1>5 DEF ReportInv, Apart
  <2>3. \A b \in Runners \ {a} : AtWork(b) => Foreign(a, b)' /\ Foreign(b, a)'
    <3>1. \A b \in Runners \ {a} : AtWork(b) => Foreign(a, b) /\ Foreign(b, a)
      BY DEF ReportInv
    <3>2. t.by = attempt[a].by /\ t.retire = attempt[a].retire /\ attempt'[a] = t
      BY <1>5
    <3>. QED BY <2>1, <3>1, <3>2 DEF Foreign
  <2>. QED BY <2>2, <2>3
<1>15. Foreign(a, a)'
  BY <1>5 DEF ReportInv, Foreign
<1>16. \A c \in read : c.day <= today
  BY <1>1, <1>10, <1>11 DEF Plain, ReportTypes
<1>17. (\A c \in t.insert : c.day <= today) /\ \A x \in Names : \A c \in t.series[x] : c.day <= today
  BY <1>1, <1>5, <1>16 DEF ReportTypes
<1>. QED BY <1>3, <1>4, <1>7, <1>8, <1>9, <1>13, <1>14, <1>15, <1>17, AloneAt DEF AttemptSound

LEMMA MissKeeps ==
  ASSUME ReportInv, NEW a \in Runners, AtWork(a), attempt[a].at = "candles",
         attempt' = [attempt EXCEPT ![a].at = "ratios"], UNCHANGED <<quotes, tables>>
  PROVE  ReportInv'
<1>. DEFINE t == [attempt[a] EXCEPT !.at = "ratios"]
<1>1. attempt[a] \in Attempts /\ AttemptSound(a) /\ ReportTypes
  BY AttemptType DEF ReportInv
<1>2. attempt' = [attempt EXCEPT ![a] = t]
  OBVIOUS
<1>3. t \in Attempts /\ t.insert = attempt[a].insert /\ t.wait = attempt[a].wait /\ t.retire = attempt[a].retire /\ t.ratio = attempt[a].ratio
      /\ t.by = attempt[a].by /\ t.i = attempt[a].i /\ t.at = "ratios" /\ t.ratios = attempt[a].ratios /\ t.news = attempt[a].news
      /\ t.newsWait = attempt[a].newsWait /\ t.series = attempt[a].series /\ attempt'[a] = t
  BY <1>1, <1>2 DEF Attempts, Stages, ReportTypes
<1>. HIDE DEF t
<1>4. InPlace(a)'
  <2>1. Placed(attempt[a]) /\ attempt[a].i \in 1 .. Len(Order) /\ attempt[a].wait = {}
    BY <1>1, NotTouched DEF AttemptSound, InPlace
  <2>. QED BY <2>1, <1>3 DEF InPlace, Placed
<1>5. \A s \in Names : t.ratio[s] # Missing => t.ratio[s] \in ratios \cup t.ratios
  BY <1>1, <1>3 DEF AttemptSound, Evidenced
<1>. QED BY <1>2, <1>3, <1>4, <1>5, SameRows

LEMMA FetchKeeps ==
  ASSUME ReportInv, NEW a \in Runners, AtWork(a), attempt[a].at = "candles", NEW s \in Names, s = Order[attempt[a].i], ~ Cached(s),
         NEW blocked \in BOOLEAN, blocked <=> {Key(c) : c \in ToInsert(s)} \cap HeldKeys(a) # {},
         NEW t, t = [attempt[a] EXCEPT !.at = IF blocked THEN "waits for candles" ELSE "ratios", !.wait = IF blocked THEN ToInsert(s) ELSE {},
                                       !.series[s] = Fetched(s), !.insert = @ \cup ToInsert(s), !.retire = @ \cup ToRetire(s)],
         attempt' = [attempt EXCEPT ![a] = t],
         UNCHANGED <<quotes, tables>>
  PROVE  ReportInv'
<1>. DEFINE new == ToInsert(s)
            old == ToRetire(s)
            got == Fetched(s)
            was == attempt[a]
<1>1. was \in Attempts /\ AttemptSound(a) /\ ReportTypes /\ OneCurrent
  BY AttemptType DEF ReportInv
<1>2. attempt' = [attempt EXCEPT ![a] = t]
  OBVIOUS
<1>3. /\ \E n \in new : Keyed(n, s, today)
      /\ new \subseteq PlainRows /\ got \subseteq PlainRows /\ new \subseteq got
      /\ \A n \in got : n.of = s /\ InWindow(n.day, today) /\ n.basis = basis[s]
  BY <1>1, NewFetch
<1>4. \A c \in old : c \in candles /\ c.of = s /\ c.day < today /\ \E n \in new : Keyed(n, c.of, c.day)
  BY <1>1, NewFetch
<1>5. \A d \in Nat \ {0} : InWindow(d, today) => LiveOn(s, d) \/ \E n \in new : Keyed(n, s, d)
  BY <1>1, NewFetch
<1>6. \A c \in candles \ old : c.live /\ c.of = s => (\A n \in new : n.day # c.day) /\ (InWindow(c.day, today) => c.basis = basis[s])
  BY <1>1, NewFetch
<1>7. \A d : LiveOn(s, d) => d < today
  BY <1>1, NewFetch
<1>8. \A n \in got \ new : (\E r \in candles : Plain(r) = n) /\ LiveOn(s, n.day)
  BY <1>1, NewFetch
<1>9. old \subseteq CandleRows
  BY <1>1, <1>4 DEF ReportTypes
<1>. HIDE DEF new, old, got
<1>10. t \in Attempts
  <2>1. t.series \in [Names -> SUBSET PlainRows]
    BY <1>1, <1>3 DEF Attempts, got
  <2>2. t.insert \in SUBSET PlainRows /\ t.wait \in SUBSET PlainRows /\ t.retire \in SUBSET CandleRows
    BY <1>1, <1>3, <1>9 DEF Attempts, new, old
  <2>. QED BY <1>1, <2>1, <2>2 DEF Attempts, Stages
<1>11. /\ t.at = (IF blocked THEN "waits for candles" ELSE "ratios") /\ t.wait = (IF blocked THEN new ELSE {}) /\ t.insert = was.insert \cup new
       /\ t.retire = was.retire \cup old /\ t.series[s] = got /\ \A x \in Names \ {s} : t.series[x] = was.series[x]
  BY <1>1 DEF Attempts, new, old, got
<1>12. t.by = was.by /\ t.i = was.i /\ t.ratio = was.ratio /\ t.ratios = was.ratios /\ t.news = was.news /\ t.newsWait = was.newsWait
  BY <1>1 DEF Attempts
<1>13. attempt'[a] = t /\ \A b \in Runners \ {a} : attempt'[b] = attempt[b]
  BY <1>1, <1>2 DEF ReportTypes
<1>14. UNCHANGED <<candles, ratios, reports, today>>
  BY DEF quotes, tables
<1>15. was.i \in 1 .. Len(Order) /\ ~ Touches(a, s) /\ was.wait = {} /\ \A c \in was.retire : c.of # s
  BY NotTouched
<1>16. today \in Nat \ {0} /\ basis[s] \in Nat
  BY <1>1 DEF ReportTypes
<1>17. \A x, d : LiveOn(x, d)' <=> LiveOn(x, d)
  BY <1>14 DEF LiveOn, Keyed
<1>. HIDE DEF was
<1>20. Fetches(a)'
  <2>1. ASSUME NEW x \in Names, Touches(a, x)', x # s
        PROVE  \E T \in Nat \ {0}, B \in Nat : Fetch(a, x, T, B)' /\ (Clear(a, x, T, B)' \/ Struck(a, x)')
    <3>1. Touches(a, x)
      BY <2>1, <1>3, <1>11, <1>13 DEF Touches, was
    <3>2. PICK T \in Nat \ {0}, B \in Nat : Fetch(a, x, T, B) /\ (Clear(a, x, T, B) \/ Struck(a, x))
      BY <3>1, <1>1 DEF AttemptSound, Fetches
    <3>3. ~ Struck(a, x)
      BY <1>15 DEF Struck, was
    <3>4. \A n \in new : n.of # x
      BY <2>1, <1>3
    <3>5. \A c \in old : c.of # x
      BY <2>1, <1>4
    <3>6. Fetch(a, x, T, B)'
      BY <3>2, <3>4, <3>5, <1>11, <1>13, <1>17 DEF Fetch, Keyed, was
    <3>7. Clear(a, x, T, B)'
      BY <3>2, <3>3, <3>4, <3>5, <1>11, <1>13, <1>14, <1>17 DEF Clear, was
    <3>. QED BY <3>6, <3>7
  <2>2. PICK T \in Nat \ {0}, B \in Nat : T = today /\ B = basis[s]
    BY <1>16
  <2>3. \A n \in t.insert : n.of = s => n \in new
    BY <1>11, <1>15 DEF Touches, was
  <2>4. Fetch(a, s, T, B)'
    <3>1. \A c \in t.retire : c.of = s => c \in old
      BY <1>11, <1>15
    <3>2. \E n \in t.insert : Keyed(n, s, T)
      BY <2>2, <1>3, <1>11
    <3>3. \A n \in t.insert : n.of = s => InWindow(n.day, T) /\ n.basis = B
      BY <2>2, <2>3, <1>3
    <3>4. \A c \in t.retire : c.of = s => c.day < T
      BY <2>2, <3>1, <1>4
    <3>5. \A d \in Nat \ {0} : InWindow(d, T) => LiveOn(s, d)' \/ \E n \in t.insert : Keyed(n, s, d)
      BY <2>2, <1>5, <1>11, <1>17
    <3>. QED BY <3>2, <3>3, <3>4, <3>5, <1>13 DEF Fetch
  <2>5. Clear(a, s, T, B)'
    <3>1. \A c \in candles' \ t.retire : c.live /\ c.of = s => (\A n \in t.insert : n.of = s => n.day # c.day) /\ (InWindow(c.day, T) => c.basis = B)
      BY <2>2, <2>3, <1>6, <1>11, <1>14
    <3>2. ASSUME NEW d \in Nat, LiveOn(s, d)', d >= T PROVE FALSE
      <4>1. LiveOn(s, d)
        BY <3>2, <1>17
      <4>. QED BY <4>1, <3>2, <2>2, <1>7, <1>16
    <3>. QED BY <3>1, <3>2, <1>13 DEF Clear
  <2>6. \E U \in Nat \ {0}, C \in Nat : Fetch(a, s, U, C)' /\ Clear(a, s, U, C)'
    BY <2>4, <2>5
  <2>. QED BY <2>1, <2>6 DEF Fetches
<1>21. InPlace(a)'
  <2>1. Placed(was)
    BY <1>1 DEF AttemptSound, InPlace, was
  <2>2. was.at = "candles"
    BY DEF was
  <2>3. \A n \in new : n.of = Order[t.i]
    BY <1>3, <1>12 DEF was
  <2>4. \A n \in t.insert : \E j \in 1 .. Len(Order) : n.of = Order[j] /\ (j < t.i \/ (j = t.i /\ t.at \in {"waits for candles", "ratios"}))
    <3>1. \A n \in was.insert : \E j \in 1 .. Len(Order) : n.of = Order[j] /\ j < was.i
      BY <2>1, <2>2 DEF Placed
    <3>. QED BY <3>1, <2>3, <1>11, <1>12, <1>15
  <2>5. t.wait = IF t.at = "waits for candles" THEN {n \in t.insert : n.of = Order[t.i]} ELSE {}
    <3>1. {n \in t.insert : n.of = s} = new
      BY <1>3, <1>11, <1>15 DEF Touches, was
    <3>2. s = Order[t.i]
      BY <1>12 DEF was
    <3>3. {n \in t.insert : n.of = Order[t.i]} = new
      BY <3>1, <3>2
    <3>4. t.at = (IF blocked THEN "waits for candles" ELSE "ratios") /\ t.wait = (IF blocked THEN new ELSE {})
      BY <1>11
    <3>5. CASE blocked
      <4>1. t.wait = new /\ t.at = "waits for candles"
        BY <3>4, <3>5
      <4>. QED BY <3>3, <4>1
    <3>6. CASE ~ blocked
      <4>1. t.wait = {} /\ t.at = "ratios"
        BY <3>4, <3>6
      <4>. QED BY <4>1
    <3>. QED BY <3>5, <3>6
  <2>6. t.news = {} /\ t.newsWait = {} /\ t.at \in {"waits for candles", "ratios"} /\ t.i \in 1 .. Len(Order)
    BY <2>1, <2>2, <1>11, <1>12, <1>15 DEF Placed
  <2>7. Placed(t)
    BY <2>4, <2>5, <2>6 DEF Placed
  <2>. QED BY <2>7, <1>13 DEF InPlace
<1>22. Replaces(a)'
  <2>1. Replaces(a)
    BY <1>1 DEF AttemptSound
  <2>. QED BY <2>1, <1>4, <1>11, <1>13 DEF Replaces, was
<1>23. Numbered(a)'
  <2>1. Numbered(a) /\ BatchesOld
    BY <1>1 DEF AttemptSound, ReportInv
  <2>. QED BY <2>1, <1>4, <1>11, <1>12, <1>13, <1>14 DEF Numbered, BatchesOld, was
<1>24. Evidenced(a)'
  <2>1. ASSUME NEW x \in Names
        PROVE /\ \A c \in t.series[x] : c.of = x
              /\ \A c \in t.series[x] : c \in t.insert \/ ((\E r \in candles : Plain(r) = c) /\ LiveOn(x, c.day))
              /\ \A c, d \in t.series[x] : c.basis = d.basis \/ \E e \in t.series[x] : e.day >= c.day + History \/ e.day >= d.day + History
    <3>1. CASE x = s
      BY <3>1, <1>3, <1>8, <1>11
    <3>2. CASE x # s
      BY <3>2, <1>1, <1>11 DEF AttemptSound, Evidenced, was
    <3>. QED BY <3>1, <3>2
  <2>2. \A x \in Names : t.ratio[x] # Missing => t.ratio[x] \in ratios \cup t.ratios
    BY <1>1, <1>12 DEF AttemptSound, Evidenced, was
  <2>3. attempt'[a].series = t.series /\ attempt'[a].insert = t.insert /\ attempt'[a].ratio = t.ratio /\ attempt'[a].ratios = t.ratios
    BY <1>13
  <2>4. \A x \in Names : \A c \in t.series[x] : c \in t.insert \/ ((\E r \in candles' : Plain(r) = c) /\ LiveOn(x, c.day)')
    BY <2>1, <1>14, <1>17
  <2>. QED BY <2>1, <2>2, <2>3, <2>4, <1>14 DEF Evidenced
<1>25. ASSUME NEW b \in Runners \ {a}, AtWork(b) PROVE Apart(a, b)' /\ Foreign(a, b)' /\ Foreign(b, a)'
  <2>1. attempt'[b] = attempt[b] /\ Apart(a, b) /\ Foreign(a, b) /\ Foreign(b, a) /\ Numbered(b)
    BY <1>13, <1>25 DEF ReportInv, AttemptSound
  <2>2. \A m \in attempt[b].insert \ attempt[b].wait : Key(m) \in HeldKeys(a)
    <3>. SUFFICES ASSUME NEW m \in attempt[b].insert \ attempt[b].wait PROVE Key(m) \in HeldKeys(a)
      OBVIOUS
    <3>1. b \in {x \in Runners \ {a} : AtWork(x)}
      BY <1>25
    <3>2. Key(m) \in {Key(c) : c \in attempt[b].insert \ attempt[b].wait}
      OBVIOUS
    <3>. QED BY <3>1, <3>2 DEF HeldKeys
  <2>3. \A n \in t.insert \ t.wait : n \in was.insert \/ (n \in new /\ Key(n) \notin HeldKeys(a))
    BY <1>11 DEF new
  <2>4. \A n \in new, m \in attempt[b].insert \ attempt[b].wait : Key(n) \notin HeldKeys(a) => ~ Keyed(n, m.of, m.day)
    BY <2>2 DEF Keyed, Key
  <2>5. \A n \in was.insert, m \in attempt[b].insert \ attempt[b].wait : ~ Keyed(n, m.of, m.day)
    BY <2>1, <1>15 DEF Apart, was
  <2>6. Apart(a, b)'
    BY <2>1, <2>3, <2>4, <2>5, <1>13 DEF Apart
  <2>7. Foreign(a, b)' /\ Foreign(b, a)'
    BY <2>1, <1>4, <1>11, <1>12, <1>13 DEF Foreign, Numbered, was
  <2>. QED BY <2>6, <2>7
<1>26. Foreign(a, a)'
  <2>1. Foreign(a, a) /\ Numbered(a)
    BY <1>1 DEF AttemptSound, ReportInv
  <2>. QED BY <2>1, <1>4, <1>11, <1>12, <1>13 DEF Foreign, Numbered, was
<1>27. (\A c \in t.insert : c.day <= today) /\ \A x \in Names : \A c \in t.series[x] : c.day <= today
  <2>1. \A c \in got : c.day <= today
    BY <1>3 DEF InWindow
  <2>2. (\A c \in was.insert : c.day <= today) /\ \A x \in Names : \A c \in was.series[x] : c.day <= today
    BY <1>1 DEF ReportTypes, was
  <2>. QED BY <2>1, <2>2, <1>3, <1>11
<1>. QED BY <1>2, <1>10, <1>20, <1>21, <1>22, <1>23, <1>24, <1>25, <1>26, <1>27, AloneAt DEF AttemptSound

LEMMA GatherCandlesKeeps == ASSUME ReportInv, NEW a \in Runners, GatherCandles(a) PROVE ReportInv'
<1>. DEFINE s == Order[attempt[a].i]
<1>1. attempt[a].at = "candles" /\ UNCHANGED <<quotes, tables>>
  BY DEF GatherCandles
<1>2. AtWork(a)
  BY <1>1 DEF AtWork, Resting
<1>3. s \in Names
  BY <1>1, <1>2, NotTouched
<1>4. \/ attempt' = [attempt EXCEPT ![a].at = "ratios", ![a].series[s] = {Plain(c) : c \in CurrentRows(s)}]
      \/ attempt' = [attempt EXCEPT ![a].at = "ratios"]
      \/ /\ ~ Cached(s)
         /\ \E blocked \in BOOLEAN :
              /\ blocked <=> {Key(c) : c \in ToInsert(s)} \cap HeldKeys(a) # {}
              /\ attempt' = [attempt EXCEPT ![a] =
                   [attempt[a] EXCEPT !.at = IF blocked THEN "waits for candles" ELSE "ratios", !.wait = IF blocked THEN ToInsert(s) ELSE {},
                                      !.series[s] = Fetched(s), !.insert = @ \cup ToInsert(s), !.retire = @ \cup ToRetire(s)]]
  BY DEF GatherCandles
<1>5. CASE attempt' = [attempt EXCEPT ![a].at = "ratios", ![a].series[s] = {Plain(c) : c \in CurrentRows(s)}]
  BY <1>1, <1>2, <1>3, <1>5, CacheHitKeeps
<1>6. CASE attempt' = [attempt EXCEPT ![a].at = "ratios"]
  BY <1>1, <1>2, <1>6, MissKeeps
<1>7. ASSUME ~ Cached(s), NEW blocked \in BOOLEAN, blocked <=> {Key(c) : c \in ToInsert(s)} \cap HeldKeys(a) # {},
             attempt' = [attempt EXCEPT ![a] =
               [attempt[a] EXCEPT !.at = IF blocked THEN "waits for candles" ELSE "ratios", !.wait = IF blocked THEN ToInsert(s) ELSE {},
                                  !.series[s] = Fetched(s), !.insert = @ \cup ToInsert(s), !.retire = @ \cup ToRetire(s)]]
      PROVE  ReportInv'
  <2>. DEFINE t == [attempt[a] EXCEPT !.at = IF blocked THEN "waits for candles" ELSE "ratios", !.wait = IF blocked THEN ToInsert(s) ELSE {},
                                  !.series[s] = Fetched(s), !.insert = @ \cup ToInsert(s), !.retire = @ \cup ToRetire(s)]
  <2>1. attempt' = [attempt EXCEPT ![a] = t]
    BY <1>7
  <2>2. \E x : x = t /\ attempt' = [attempt EXCEPT ![a] = x]
    BY <2>1
  <2>. QED BY <1>1, <1>2, <1>3, <1>7, <2>2, FetchKeeps
<1>. QED BY <1>4, <1>5, <1>6, <1>7

\* The rows of the company a run waits for are its own to insert once nobody holds them.
LEMMA CandlesResumeKeeps == ASSUME ReportInv, NEW a \in Runners, CandlesResume(a) PROVE ReportInv'
<1>. DEFINE was == attempt[a]
            s == Order[was.i]
            t == [was EXCEPT !.at = "ratios", !.wait = {}]
<1>1. was.at = "waits for candles" /\ {Key(c) : c \in was.wait} \cap HeldKeys(a) = {} /\ UNCHANGED <<quotes, tables>>
  BY DEF CandlesResume, CandlesFree
<1>2. AtWork(a)
  <2>1. was.at # "rest"
    BY <1>1
  <2>. QED BY <2>1 DEF AtWork, Resting
<1>3. was \in Attempts /\ AttemptSound(a) /\ ReportTypes
  BY <1>2, AttemptType DEF ReportInv
<1>4. \/ attempt' = [attempt EXCEPT ![a] = Resting]
      \/ /\ attempt' = [attempt EXCEPT ![a] = t]
         /\ ~ \E c \in candles \ was.retire : c.live /\ \E n \in was.wait : Key(n) = Key(c)
  BY DEF CandlesResume
<1>5. CASE attempt' = [attempt EXCEPT ![a] = Resting]
  BY <1>1, <1>5, AloneAt
<1>6. ASSUME attempt' = [attempt EXCEPT ![a] = t], ~ \E c \in candles \ was.retire : c.live /\ \E n \in was.wait : Key(n) = Key(c)
      PROVE  ReportInv'
  <2>1. t \in Attempts /\ t.insert = was.insert /\ t.wait = {} /\ t.retire = was.retire /\ t.ratio = was.ratio /\ t.by = was.by /\ t.i = was.i
        /\ t.at = "ratios" /\ t.ratios = was.ratios /\ t.news = was.news /\ t.newsWait = was.newsWait /\ t.series = was.series
    BY <1>3 DEF Attempts, Stages
  <2>2. attempt'[a] = t /\ \A b \in Runners \ {a} : attempt'[b] = attempt[b]
    BY <1>3, <1>6 DEF ReportTypes
  <2>3. UNCHANGED <<candles, ratios, reports, today>>
    BY <1>1 DEF quotes, tables
  <2>4. Placed(was)
    BY <1>3 DEF AttemptSound, InPlace
  <2>. HIDE DEF t
  <2>5. \A x, d : LiveOn(x, d)' <=> LiveOn(x, d)
    BY <2>3 DEF LiveOn, Keyed
  <2>6. ASSUME NEW x \in Names, Touches(a, x)'
        PROVE \E T \in Nat \ {0}, B \in Nat : Fetch(a, x, T, B)' /\ (Clear(a, x, T, B)' \/ Struck(a, x)')
    <3>1. Touches(a, x)
      BY <2>1, <2>2, <2>6 DEF Touches
    <3>2. PICK T \in Nat \ {0}, B \in Nat : Fetch(a, x, T, B) /\ (Clear(a, x, T, B) \/ Struck(a, x))
      BY <3>1, <1>3 DEF AttemptSound, Fetches
    <3>3. ~ Struck(a, x)
      <4>. SUFFICES ASSUME NEW c \in candles \ was.retire, c.live, c.of = x, NEW n \in was.wait, Keyed(n, x, c.day) PROVE FALSE
        BY DEF Struck
      <4>1. Key(n) = Key(c)
        BY DEF Key, Keyed
      <4>. QED BY <4>1, <1>6
    <3>4. Fetch(a, x, T, B)'
      BY <3>2, <2>1, <2>2, <2>5 DEF Fetch, Keyed
    <3>5. Clear(a, x, T, B)'
      BY <3>2, <3>3, <2>1, <2>2, <2>3, <2>5 DEF Clear
    <3>. QED BY <3>4, <3>5
  <2>7. Fetches(a)'
    BY <2>6 DEF Fetches
  <2>8. InPlace(a)'
    <3>1. \A n \in t.insert : \E j \in 1 .. Len(Order) : n.of = Order[j] /\ (j < t.i \/ j = t.i)
      BY <2>1, <2>4 DEF Placed
    <3>2. t.i \in 1 .. Len(Order) /\ t.news = {} /\ t.newsWait = {}
      BY <2>1, <2>4, <1>1 DEF Placed
    <3>3. Placed(t)
      BY <2>1, <3>1, <3>2 DEF Placed
    <3>. QED BY <2>2, <3>3 DEF InPlace
  <2>9. Replaces(a)' /\ Numbered(a)' /\ Evidenced(a)'
    BY <2>1, <2>2, <2>3, <2>5, <1>3 DEF AttemptSound, Replaces, Numbered, Evidenced
  <2>10. ASSUME NEW b \in Runners \ {a}, AtWork(b) PROVE Apart(a, b)' /\ Foreign(a, b)' /\ Foreign(b, a)'
    <3>1. attempt'[b] = attempt[b] /\ Apart(a, b) /\ Foreign(a, b) /\ Foreign(b, a)
      BY <2>2, <2>10, <1>2 DEF ReportInv
    <3>2. ASSUME NEW m \in attempt[b].insert \ attempt[b].wait PROVE Key(m) \in HeldKeys(a)
      <4>1. b \in {x \in Runners \ {a} : AtWork(x)}
        BY <2>10
      <4>2. Key(m) \in {Key(c) : c \in attempt[b].insert \ attempt[b].wait}
        OBVIOUS
      <4>. QED BY <4>1, <4>2 DEF HeldKeys
    <3>3. \A n \in was.wait : Key(n) \notin HeldKeys(a)
      BY <1>1
    <3>4. \A n \in was.wait, m \in attempt[b].insert \ attempt[b].wait : ~ Keyed(n, m.of, m.day)
      BY <3>2, <3>3 DEF Keyed, Key
    <3>5. \A n \in was.insert \ was.wait, m \in attempt[b].insert \ attempt[b].wait : ~ Keyed(n, m.of, m.day)
      BY <3>1 DEF Apart
    <3>6. Apart(a, b)'
      BY <3>1, <3>4, <3>5, <2>1, <2>2 DEF Apart
    <3>7. Foreign(a, b)' /\ Foreign(b, a)'
      BY <3>1, <2>1, <2>2 DEF Foreign
    <3>. QED BY <3>6, <3>7
  <2>11. Foreign(a, a)'
    BY <2>1, <2>2, <1>2 DEF Foreign, ReportInv
  <2>12. (\A c \in t.insert : c.day <= today) /\ \A x \in Names : \A c \in t.series[x] : c.day <= today
    BY <2>1, <1>2, <1>3 DEF ReportTypes
  <2>. QED BY <1>1, <1>6, <2>1, <2>7, <2>8, <2>9, <2>10, <2>11, <2>12, AloneAt DEF AttemptSound
<1>. QED BY <1>4, <1>5, <1>6

LEMMA GatherRatiosKeeps == ASSUME ReportInv, NEW a \in Runners, GatherRatios(a) PROVE ReportInv'
<1>. DEFINE was == attempt[a]
            s == Order[was.i]
            row == [of |-> s, at |-> today, by |-> was.by]
            next == [was EXCEPT !.at = IF was.i < Len(Order) THEN "candles" ELSE "news", !.i = @ + 1]
<1>1. was.at = "ratios" /\ UNCHANGED <<quotes, tables>>
  BY DEF GatherRatios
<1>2. AtWork(a)
  BY <1>1 DEF AtWork, Resting
<1>3. was \in Attempts /\ AttemptSound(a) /\ ReportTypes
  BY <1>2, AttemptType DEF ReportInv
<1>4. Placed(was)
  BY <1>3 DEF AttemptSound, InPlace
<1>5. was.i \in 1 .. Len(Order) /\ s \in Names /\ was.wait = {}
  BY <1>1, <1>4, OrderShape DEF Placed
<1>6. \/ \E r \in ratios : attempt' = [attempt EXCEPT ![a] = [next EXCEPT !.ratio[s] = r]]
      \/ attempt' = [attempt EXCEPT ![a] = next]
      \/ attempt' = [attempt EXCEPT ![a] = [next EXCEPT !.ratio[s] = row, !.ratios = @ \cup {row}]]
  BY DEF GatherRatios
<1>7. next \in Attempts /\ next.insert = was.insert /\ next.wait = was.wait /\ next.retire = was.retire /\ next.ratio = was.ratio /\ next.by = was.by
      /\ next.i = was.i + 1 /\ next.ratios = was.ratios /\ next.news = was.news /\ next.newsWait = was.newsWait /\ next.series = was.series
      /\ next.at = IF was.i < Len(Order) THEN "candles" ELSE "news"
  <2>. DEFINE place == IF was.i < Len(Order) THEN "candles" ELSE "news"
              j == was.i + 1
  <2>1. place \in Stages /\ j \in Nat \ {0}
    BY <1>5 DEF Stages
  <2>2. next = [was EXCEPT !.at = place, !.i = j]
    BY <1>3 DEF Attempts
  <2>. HIDE DEF place, j, next
  <2>3. next \in Attempts /\ next.insert = was.insert /\ next.wait = was.wait /\ next.retire = was.retire /\ next.ratio = was.ratio /\ next.by = was.by
        /\ next.i = j /\ next.ratios = was.ratios /\ next.news = was.news /\ next.newsWait = was.newsWait /\ next.series = was.series /\ next.at = place
    BY <1>3, <2>1, <2>2 DEF Attempts
  <2>. QED BY <2>3 DEF place, j
<1>8. row \in DatedRows
  BY <1>3, <1>5 DEF DatedRows, Attempts, ReportTypes
<1>. HIDE DEF next, row
<1>9. \A x \in Names : was.ratio[x] # Missing => was.ratio[x] \in ratios \cup was.ratios
  BY <1>3 DEF AttemptSound, Evidenced
<1>10. \E t \in Attempts : 
         /\ attempt' = [attempt EXCEPT ![a] = t] /\ t.insert = was.insert /\ t.wait = was.wait /\ t.retire = was.retire /\ t.by = was.by
         /\ t.series = was.series /\ t.i = was.i + 1 /\ t.at = (IF was.i < Len(Order) THEN "candles" ELSE "news") /\ t.news = was.news
         /\ t.newsWait = was.newsWait
         /\ \A x \in Names : t.ratio[x] # Missing => t.ratio[x] \in ratios \cup t.ratios
  <2>1. ASSUME NEW r \in ratios, attempt' = [attempt EXCEPT ![a] = [next EXCEPT !.ratio[s] = r]] PROVE <1>10
    <3>. DEFINE t == [next EXCEPT !.ratio[s] = r]
    <3>1. r \in DatedRows
      BY <1>3 DEF ReportTypes
    <3>2. t \in Attempts
      BY <1>5, <1>7, <3>1 DEF Attempts
    <3>3. t.insert = was.insert /\ t.wait = was.wait /\ t.retire = was.retire /\ t.by = was.by /\ t.ratios = was.ratios
         /\ t.series = was.series /\ t.i = was.i + 1 /\ t.at = (IF was.i < Len(Order) THEN "candles" ELSE "news") /\ t.news = was.news
         /\ t.newsWait = was.newsWait
      BY <1>7 DEF Attempts
    <3>4. t.ratio[s] = r /\ \A x \in Names \ {s} : t.ratio[x] = was.ratio[x]
      BY <1>5, <1>7 DEF Attempts
    <3>5. attempt' = [attempt EXCEPT ![a] = t]
      BY <2>1
    <3>. HIDE DEF t
    <3>6. \A x \in Names : t.ratio[x] # Missing => t.ratio[x] \in ratios \cup t.ratios
      BY <3>3, <3>4, <1>9
    <3>. QED BY <3>2, <3>3, <3>5, <3>6
  <2>2. ASSUME attempt' = [attempt EXCEPT ![a] = next] PROVE <1>10
    BY <2>2, <1>7, <1>9
  <2>3. ASSUME attempt' = [attempt EXCEPT ![a] = [next EXCEPT !.ratio[s] = row, !.ratios = @ \cup {row}]] PROVE <1>10
    <3>. DEFINE t == [next EXCEPT !.ratio[s] = row, !.ratios = @ \cup {row}]
    <3>2. t \in Attempts
      BY <1>5, <1>7, <1>8 DEF Attempts
    <3>3. t.insert = was.insert /\ t.wait = was.wait /\ t.retire = was.retire /\ t.by = was.by /\ t.ratios = was.ratios \cup {row}
         /\ t.series = was.series /\ t.i = was.i + 1 /\ t.at = (IF was.i < Len(Order) THEN "candles" ELSE "news") /\ t.news = was.news
         /\ t.newsWait = was.newsWait
      BY <1>7 DEF Attempts
    <3>4. t.ratio[s] = row /\ \A x \in Names \ {s} : t.ratio[x] = was.ratio[x]
      BY <1>5, <1>7 DEF Attempts
    <3>5. attempt' = [attempt EXCEPT ![a] = t]
      BY <2>3
    <3>. HIDE DEF t
    <3>6. \A x \in Names : t.ratio[x] # Missing => t.ratio[x] \in ratios \cup t.ratios
      BY <3>3, <3>4, <1>9
    <3>. QED BY <3>2, <3>3, <3>5, <3>6
  <2>. QED BY <1>6, <2>1, <2>2, <2>3
<1>11. PICK t \in Attempts :
         /\ attempt' = [attempt EXCEPT ![a] = t] /\ t.insert = was.insert /\ t.wait = was.wait /\ t.retire = was.retire /\ t.by = was.by
         /\ t.series = was.series /\ t.i = was.i + 1 /\ t.at = (IF was.i < Len(Order) THEN "candles" ELSE "news") /\ t.news = was.news
         /\ t.newsWait = was.newsWait
         /\ \A x \in Names : t.ratio[x] # Missing => t.ratio[x] \in ratios \cup t.ratios
  BY <1>10
<1>12. attempt'[a] = t
  BY <1>3, <1>11 DEF ReportTypes
<1>13. Placed(t)
  <2>1. \A n \in t.insert : \E j \in 1 .. Len(Order) : n.of = Order[j] /\ j < t.i
    <3>1. \A n \in was.insert : \E j \in 1 .. Len(Order) : n.of = Order[j] /\ (j < was.i \/ j = was.i)
      BY <1>4 DEF Placed
    <3>. QED BY <3>1, <1>5, <1>11
  <2>2. t.at \in {"candles", "news"} /\ (t.at = "candles" => t.i \in 1 .. Len(Order))
    BY <1>5, <1>11, OrderShape
  <2>3. t.wait = {} /\ t.news = {} /\ t.newsWait = {}
    BY <1>1, <1>4, <1>5, <1>11 DEF Placed
  <2>. QED BY <2>1, <2>2, <2>3 DEF Placed
<1>14. InPlace(a)'
  BY <1>12, <1>13 DEF InPlace
<1>. QED BY <1>1, <1>2, <1>11, <1>14, SameRows

LEMMA IngestNewsKeeps == ASSUME ReportInv, NEW a \in Runners, IngestNews(a) PROVE ReportInv'
<1>. DEFINE was == attempt[a]
            new == ({today - 1, today} \cap Nat) \ (news \cup {0})
            blocked == new \cap HeldNews(a) # {}
            t == [was EXCEPT !.at = IF blocked THEN "waits for news" ELSE "council", !.news = new, !.newsWait = IF blocked THEN new ELSE {}]
<1>1. was.at = "news" /\ UNCHANGED <<quotes, tables>> /\ attempt' = [attempt EXCEPT ![a] = t]
  BY DEF IngestNews
<1>2. AtWork(a)
  BY <1>1 DEF AtWork, Resting
<1>3. was \in Attempts /\ AttemptSound(a) /\ ReportTypes
  BY <1>2, AttemptType DEF ReportInv
<1>4. Placed(was)
  BY <1>3 DEF AttemptSound, InPlace
<1>. HIDE DEF blocked
<1>5. new \in SUBSET Nat
  OBVIOUS
<1>. HIDE DEF new
<1>6. t \in Attempts /\ t.insert = was.insert /\ t.wait = was.wait /\ t.retire = was.retire /\ t.ratio = was.ratio /\ t.by = was.by
      /\ t.i = was.i /\ t.ratios = was.ratios /\ t.series = was.series /\ t.news = new /\ t.newsWait = (IF blocked THEN new ELSE {})
      /\ t.at = (IF blocked THEN "waits for news" ELSE "council")
  BY <1>3, <1>5 DEF Attempts, Stages
<1>. HIDE DEF t
<1>7. Placed(t)
  <2>1. \A n \in t.insert : \E j \in 1 .. Len(Order) : n.of = Order[j] /\ j < t.i
    BY <1>1, <1>4, <1>6 DEF Placed
  <2>2. t.wait = {}
    BY <1>1, <1>4, <1>6 DEF Placed
  <2>3. t.at \in {"waits for news", "council"} /\ t.newsWait = IF t.at = "waits for news" THEN t.news ELSE {}
    BY <1>6
  <2>. QED BY <2>1, <2>2, <2>3 DEF Placed
<1>8. attempt'[a] = t
  BY <1>1, <1>3 DEF ReportTypes
<1>9. InPlace(a)'
  BY <1>7, <1>8 DEF InPlace
<1>10. \A x \in Names : t.ratio[x] # Missing => t.ratio[x] \in ratios \cup t.ratios
  BY <1>3, <1>6 DEF AttemptSound, Evidenced
<1>. QED BY <1>1, <1>2, <1>6, <1>9, <1>10, SameRows

LEMMA NewsResumeKeeps == ASSUME ReportInv, NEW a \in Runners, NewsResume(a) PROVE ReportInv'
<1>. DEFINE was == attempt[a]
            t == [was EXCEPT !.at = "council", !.newsWait = {}]
<1>1. was.at = "waits for news" /\ UNCHANGED <<quotes, tables>>
      /\ (attempt' = [attempt EXCEPT ![a] = Resting] \/ attempt' = [attempt EXCEPT ![a] = t])
  BY DEF NewsResume, NewsFree
<1>2. AtWork(a)
  <2>1. was.at # "rest"
    BY <1>1
  <2>. QED BY <2>1 DEF AtWork, Resting
<1>3. was \in Attempts /\ AttemptSound(a) /\ ReportTypes
  BY <1>2, AttemptType DEF ReportInv
<1>4. Placed(was)
  BY <1>3 DEF AttemptSound, InPlace
<1>5. CASE attempt' = [attempt EXCEPT ![a] = Resting]
  BY <1>1, <1>5, AloneAt
<1>6. CASE attempt' = [attempt EXCEPT ![a] = t]
  <2>1. t \in Attempts /\ t.insert = was.insert /\ t.wait = was.wait /\ t.retire = was.retire /\ t.ratio = was.ratio /\ t.by = was.by
        /\ t.i = was.i /\ t.ratios = was.ratios /\ t.series = was.series /\ t.news = was.news /\ t.newsWait = {} /\ t.at = "council"
    BY <1>3 DEF Attempts, Stages
  <2>. HIDE DEF t
  <2>2. Placed(t)
    BY <1>1, <1>4, <2>1 DEF Placed
  <2>3. attempt'[a] = t
    BY <1>3, <1>6 DEF ReportTypes
  <2>4. InPlace(a)'
    BY <2>2, <2>3 DEF InPlace
  <2>5. \A x \in Names : t.ratio[x] # Missing => t.ratio[x] \in ratios \cup t.ratios
    BY <1>3, <2>1 DEF AttemptSound, Evidenced
  <2>. QED BY <1>1, <1>2, <1>6, <2>1, <2>4, <2>5, SameRows
<1>. QED BY <1>1, <1>5, <1>6

LEMMA DayPassesKeeps == ASSUME ReportInv, DayPasses PROVE ReportInv'
<1>. USE DEF tables
<1>1. today' = today + 1 /\ UNCHANGED <<tables, attempt>>
  BY DEF DayPasses
<1>2. basis' \in [Names -> Nat]
  BY DEF DayPasses, ReportInv, ReportTypes
<1>3. ReportTypes'
  <2>1. today' \in Nat \ {0} /\ \A d \in Nat : d <= today => d <= today'
    BY <1>1 DEF ReportInv, ReportTypes
  <2>2. \A c \in candles : c.day \in Nat
    BY DEF ReportInv, ReportTypes, CandleRows
  <2>3. \A a \in Runners : AtWork(a) => (\A c \in attempt[a].insert : c.day \in Nat) /\ \A s \in Names : \A c \in attempt[a].series[s] : c.day \in Nat
    BY AttemptType DEF Attempts, PlainRows, ReportInv
  <2>. QED BY <1>1, <1>2, <2>1, <2>2, <2>3 DEF ReportInv, ReportTypes, AtWork
<1>4. \A s, d : LiveOn(s, d)' <=> LiveOn(s, d)
  BY <1>1 DEF LiveOn, Keyed
<1>5. \A a : AtWork(a)' <=> AtWork(a)
  BY <1>1 DEF AtWork
<1>6. ASSUME NEW a \in Runners, AtWork(a) PROVE AttemptSound(a)'
  <2>1. AttemptSound(a)
    BY <1>6 DEF ReportInv
  <2>2. Fetches(a)'
    BY <2>1, <1>1, SameFetches DEF AttemptSound
  <2>3. InPlace(a)' /\ Replaces(a)' /\ Numbered(a)' /\ Evidenced(a)'
    BY <2>1, <1>1, <1>4 DEF AttemptSound, InPlace, Replaces, Numbered, Evidenced
  <2>. QED BY <2>2, <2>3 DEF AttemptSound
<1>7. \A a, b \in Runners : AtWork(a)' /\ AtWork(b)' => (a # b => Apart(a, b)') /\ Foreign(a, b)'
  BY <1>1, <1>5 DEF ReportInv, Apart, Foreign
<1>8. (OneCurrent /\ LiveOneBasis /\ BatchesOld /\ AsOfLive /\ SameCompanies /\ Rebuildable /\ OneBasis)'
  BY <1>1 DEF ReportInv, OneCurrent, LiveOneBasis, BatchesOld, AsOfLive, SameCompanies, Rebuildable, OneBasis, LiveOn
<1>. QED BY <1>3, <1>5, <1>6, <1>7, <1>8 DEF ReportInv

StoredRow(a, n) == [of |-> n.of, day |-> n.day, basis |-> n.basis, batch |-> attempt[a].by, live |-> TRUE]
Retired(c) == [c EXCEPT !.live = FALSE]

\* A run that commits has nothing to wait for: the fetch of every company it holds is clear.
LEMMA FetchClear ==
  ASSUME ReportInv, NEW a \in Runners, AtWork(a), attempt[a].wait = {}, NEW s \in Names, Touches(a, s)
  PROVE  \E T \in Nat \ {0}, B \in Nat : Fetch(a, s, T, B) /\ Clear(a, s, T, B)
<1>1. ~ Struck(a, s)
  BY DEF Struck
<1>2. Fetches(a)
  BY DEF ReportInv, AttemptSound
<1>. QED BY <1>1, <1>2 DEF Fetches

\* The rows a commit leaves: those it does not retire, those it retires, and its own.
LEMMA RefreshedRows ==
  ASSUME ReportInv, NEW a \in Runners, AtWork(a), candles' = Refreshed(a)
  PROVE  /\ \A c \in candles \ attempt[a].retire : c \in candles'
         /\ \A c \in attempt[a].retire : Retired(c) \in candles'
         /\ \A n \in attempt[a].insert : StoredRow(a, n) \in candles'
         /\ \A c \in candles' : \/ c \in candles \ attempt[a].retire
                                \/ \E r \in attempt[a].retire : c = Retired(r)
                                \/ \E n \in attempt[a].insert : c = StoredRow(a, n)
         /\ \A c \in candles' : c.live => c \in candles \ attempt[a].retire \/ \E n \in attempt[a].insert : c = StoredRow(a, n)
         /\ \A c \in attempt[a].retire : Retired(c) \in CandleRows /\ Retired(c).day = c.day /\ Retired(c).batch = c.batch /\ Plain(Retired(c)) = Plain(c)
         /\ \A n \in attempt[a].insert : StoredRow(a, n) \in CandleRows /\ Plain(StoredRow(a, n)) = n
<1>1. attempt[a] \in Attempts
  BY AttemptType DEF ReportInv
<1>2. attempt[a].retire \subseteq CandleRows /\ attempt[a].insert \subseteq PlainRows /\ attempt[a].by \in Runners \X Nat
  BY <1>1 DEF Attempts
<1>3. \A c \in attempt[a].retire : Retired(c) \in CandleRows /\ Retired(c).day = c.day /\ Retired(c).batch = c.batch /\ Plain(Retired(c)) = Plain(c) /\ ~ Retired(c).live
  BY <1>2 DEF Retired, CandleRows, Plain
<1>4. \A n \in attempt[a].insert : StoredRow(a, n) \in CandleRows /\ Plain(StoredRow(a, n)) = n
  BY <1>2 DEF StoredRow, CandleRows, PlainRows, Plain
<1>5. candles' = (candles \ attempt[a].retire) \cup {Retired(c) : c \in attempt[a].retire} \cup {StoredRow(a, n) : n \in attempt[a].insert}
  BY DEF Refreshed, Retired, StoredRow
<1>6. \A c \in candles' : \/ c \in candles \ attempt[a].retire
                          \/ \E r \in attempt[a].retire : c = Retired(r)
                          \/ \E n \in attempt[a].insert : c = StoredRow(a, n)
  BY <1>5
<1>7. \A c \in candles' : c.live => c \in candles \ attempt[a].retire \/ \E n \in attempt[a].insert : c = StoredRow(a, n)
  BY <1>3, <1>6
<1>. QED BY <1>3, <1>4, <1>5, <1>6, <1>7

\* The days of current candles a commit leaves: those there were, and those of its own rows.
LEMMA RefreshedDays ==
  ASSUME ReportInv, NEW a \in Runners, AtWork(a), candles' = Refreshed(a)
  PROVE  /\ \A s, d : LiveOn(s, d) => LiveOn(s, d)'
         /\ \A n \in attempt[a].insert : LiveOn(n.of, n.day)'
         /\ \A s, d : LiveOn(s, d)' => LiveOn(s, d) \/ \E n \in attempt[a].insert : Keyed(n, s, d)
<1>1. Replaces(a)
  BY DEF ReportInv, AttemptSound
<1>2. \A n \in attempt[a].insert : StoredRow(a, n).live /\ StoredRow(a, n).of = n.of /\ StoredRow(a, n).day = n.day
  BY DEF StoredRow
<1>3. \A n \in attempt[a].insert : LiveOn(n.of, n.day)'
  BY <1>2, RefreshedRows DEF LiveOn, Keyed
<1>4. ASSUME NEW s, NEW d, LiveOn(s, d) PROVE LiveOn(s, d)'
  <2>1. PICK c \in candles : c.live /\ c.of = s /\ c.day = d
    BY <1>4 DEF LiveOn, Keyed
  <2>2. CASE c \in attempt[a].retire
    BY <2>1, <2>2, <1>1, <1>3 DEF Replaces, Keyed
  <2>3. CASE c \notin attempt[a].retire
    BY <2>1, <2>3, RefreshedRows DEF LiveOn, Keyed
  <2>. QED BY <2>2, <2>3
<1>5. ASSUME NEW s, NEW d, LiveOn(s, d)' PROVE LiveOn(s, d) \/ \E n \in attempt[a].insert : Keyed(n, s, d)
  <2>1. PICK c \in candles' : c.live /\ c.of = s /\ c.day = d
    BY <1>5 DEF LiveOn, Keyed
  <2>2. c \in candles \ attempt[a].retire \/ \E n \in attempt[a].insert : c = StoredRow(a, n)
    BY <2>1, RefreshedRows
  <2>. QED BY <2>1, <2>2, <1>2 DEF LiveOn, Keyed
<1>. QED BY <1>3, <1>4, <1>5

LEMMA CommitOneCurrent ==
  ASSUME ReportInv, NEW a \in Runners, AtWork(a), attempt[a].wait = {}, candles' = Refreshed(a)
  PROVE  OneCurrent'
<1>0. attempt[a].insert \subseteq PlainRows
  BY AttemptType DEF ReportInv, Attempts
<1>1. \A n \in attempt[a].insert : n.of \in Names /\ Touches(a, n.of)
  BY <1>0 DEF PlainRows, Touches
<1>2. ASSUME NEW c \in candles \ attempt[a].retire, c.live, NEW n \in attempt[a].insert PROVE Key(c) # Key(StoredRow(a, n))
  <2>1. PICK T \in Nat \ {0}, B \in Nat : Fetch(a, n.of, T, B) /\ Clear(a, n.of, T, B)
    BY <1>1, FetchClear
  <2>2. c.of = n.of => n.day # c.day
    BY <2>1, <1>2 DEF Clear
  <2>. QED BY <2>2 DEF Key, StoredRow
<1>3. ASSUME NEW n \in attempt[a].insert, NEW m \in attempt[a].insert, Key(StoredRow(a, n)) = Key(StoredRow(a, m)) PROVE StoredRow(a, n) = StoredRow(a, m)
  <2>1. PICK T \in Nat \ {0}, B \in Nat : Fetch(a, n.of, T, B) /\ Clear(a, n.of, T, B)
    BY <1>1, FetchClear
  <2>2. n.of = m.of /\ n.day = m.day
    BY <1>3 DEF Key, StoredRow
  <2>3. n.basis = B /\ m.basis = B
    BY <2>1, <2>2 DEF Fetch
  <2>. QED BY <2>2, <2>3 DEF StoredRow
<1>. SUFFICES ASSUME NEW c \in candles', NEW d \in candles', c.live, d.live, Key(c) = Key(d) PROVE c = d
  BY DEF OneCurrent, Key
<1>4. c \in candles \ attempt[a].retire \/ \E n \in attempt[a].insert : c = StoredRow(a, n)
  BY RefreshedRows
<1>5. d \in candles \ attempt[a].retire \/ \E n \in attempt[a].insert : d = StoredRow(a, n)
  BY RefreshedRows
<1>6. c \in candles /\ d \in candles => c = d
  BY DEF ReportInv, OneCurrent
<1>. QED BY <1>2, <1>3, <1>4, <1>5, <1>6

LEMMA CommitLiveOneBasis ==
  ASSUME ReportInv, NEW a \in Runners, AtWork(a), attempt[a].wait = {}, candles' = Refreshed(a)
  PROVE  LiveOneBasis'
<1>. SUFFICES ASSUME NEW c \in candles', NEW d \in candles', c.live, d.live, c.of = d.of
             PROVE  c.basis = d.basis \/ \E e \in Nat : LiveOn(c.of, e)' /\ (e >= c.day + History \/ e >= d.day + History)
  BY DEF LiveOneBasis
<1>0. candles \subseteq CandleRows /\ attempt[a].insert \subseteq PlainRows /\ History \in Nat \ {0}
  BY AttemptType, ReportAssumption DEF ReportInv, ReportTypes, Attempts
<1>1. c \in candles \ attempt[a].retire \/ \E n \in attempt[a].insert : c = StoredRow(a, n)
  BY RefreshedRows
<1>2. d \in candles \ attempt[a].retire \/ \E n \in attempt[a].insert : d = StoredRow(a, n)
  BY RefreshedRows
<1>3. c.of \in Names /\ c.day \in Nat /\ d.day \in Nat
  <2>1. \A x \in candles : x.of \in Names /\ x.day \in Nat
    BY <1>0 DEF CandleRows
  <2>2. \A n \in attempt[a].insert : StoredRow(a, n).of \in Names /\ StoredRow(a, n).day \in Nat
    BY <1>0 DEF PlainRows, StoredRow
  <2>. QED BY <2>1, <2>2, <1>1, <1>2
<1>4. ASSUME c \in candles, d \in candles PROVE c.basis = d.basis \/ \E e \in Nat : LiveOn(c.of, e)' /\ (e >= c.day + History \/ e >= d.day + History)
  <2>1. c.basis = d.basis \/ \E e \in Nat : LiveOn(c.of, e) /\ (e >= c.day + History \/ e >= d.day + History)
    BY <1>4 DEF ReportInv, LiveOneBasis
  <2>. QED BY <2>1, RefreshedDays
<1>5. CASE ~ Touches(a, c.of)
  <2>1. \A n \in attempt[a].insert : StoredRow(a, n).of # c.of
    BY <1>5 DEF Touches, StoredRow
  <2>. QED BY <2>1, <1>1, <1>2, <1>4
<1>6. CASE Touches(a, c.of)
  <2>1. PICK T \in Nat \ {0}, B \in Nat : Fetch(a, c.of, T, B) /\ Clear(a, c.of, T, B)
    BY <1>3, <1>6, FetchClear
  <2>2. LiveOn(c.of, T)'
    <3>1. PICK n \in attempt[a].insert : n.of = c.of /\ n.day = T
      BY <2>1 DEF Fetch, Keyed
    <3>. QED BY <3>1, RefreshedDays
  <2>3. \A n \in attempt[a].insert : n.of = c.of => InWindow(StoredRow(a, n).day, T) /\ StoredRow(a, n).basis = B
    BY <2>1 DEF Fetch, StoredRow
  <2>4. \A x \in candles \ attempt[a].retire : x.live /\ x.of = c.of => (InWindow(x.day, T) => x.basis = B) /\ LiveOn(c.of, x.day)
    BY <2>1 DEF Clear, LiveOn, Keyed
  <2>5. (InWindow(c.day, T) => c.basis = B) /\ (InWindow(d.day, T) => d.basis = B)
    BY <2>3, <2>4, <1>1, <1>2 DEF StoredRow
  <2>6. CASE c.day <= T - History \/ d.day <= T - History
    <3>1. T >= c.day + History \/ T >= d.day + History
      BY <1>0, <1>3, <2>6
    <3>. QED BY <2>2, <3>1
  <2>7. CASE InWindow(c.day, T) /\ InWindow(d.day, T)
    BY <2>5, <2>7
  <2>8. CASE c.day > T /\ d.day > T
    <3>1. c \in candles
      BY <1>1, <2>3, <2>8, <1>3 DEF StoredRow, InWindow
    <3>2. d \in candles
      BY <1>2, <2>3, <2>8, <1>3 DEF StoredRow, InWindow
    <3>. QED BY <3>1, <3>2, <1>4
  <2>9. ASSUME NEW x \in {c, d}, x.day > T, NEW y \in {c, d}, y.day <= T
        PROVE \E e \in Nat : LiveOn(c.of, e)' /\ (e >= c.day + History \/ e >= d.day + History)
    <3>1. x \in candles \ attempt[a].retire /\ x.live /\ x.of = c.of
      BY <1>1, <1>2, <2>3, <2>9, <1>3 DEF StoredRow, InWindow
    <3>2. LiveOn(c.of, x.day) /\ x.day >= T
      BY <3>1, <2>4, <2>9, <1>3
    <3>3. PICK e \in Nat : LiveOn(c.of, e) /\ e >= T + History
      BY <3>2, <2>1, <1>3 DEF Clear
    <3>4. e >= y.day + History
      BY <3>3, <2>9, <1>0, <1>3
    <3>. QED BY <3>3, <3>4, RefreshedDays
  <2>10. \/ c.day <= T - History \/ d.day <= T - History
         \/ InWindow(c.day, T) /\ InWindow(d.day, T)
         \/ c.day > T /\ d.day > T
         \/ c.day > T /\ d.day <= T
         \/ d.day > T /\ c.day <= T
    BY <1>0, <1>3 DEF InWindow
  <2>. QED BY <2>6, <2>7, <2>8, <2>9, <2>10
<1>. QED BY <1>5, <1>6

-----------------------------------------------------------------------------
\* Two clear fetches of one company that share no day are a whole window apart.
LEMMA WindowsApart ==
  ASSUME NEW a \in Runners, NEW b \in Runners, NEW s \in Names, NEW T \in Nat \ {0}, NEW B \in Nat, NEW U \in Nat \ {0}, NEW C \in Nat,
         Fetch(a, s, T, B), Clear(a, s, T, B), Fetch(b, s, U, C), Clear(b, s, U, C),
         \A n \in attempt[a].insert, m \in attempt[b].insert : n.of = s /\ m.of = s => n.day # m.day
  PROVE  T >= U + History \/ U >= T + History
<1>0. History \in Nat \ {0}
  BY ReportAssumption
<1>1. PICK n \in attempt[a].insert : n.of = s /\ n.day = T
  BY DEF Fetch, Keyed
<1>2. PICK m \in attempt[b].insert : m.of = s /\ m.day = U
  BY DEF Fetch, Keyed
<1>3. ~ LiveOn(s, T)
  <2>. SUFFICES ASSUME NEW c \in candles, c.live, c.of = s, c.day = T PROVE FALSE
    BY DEF LiveOn, Keyed
  <2>1. c \notin attempt[a].retire
    BY DEF Fetch
  <2>. QED BY <1>1, <2>1 DEF Clear
<1>4. ~ LiveOn(s, U)
  <2>. SUFFICES ASSUME NEW c \in candles, c.live, c.of = s, c.day = U PROVE FALSE
    BY DEF LiveOn, Keyed
  <2>1. c \notin attempt[b].retire
    BY DEF Fetch
  <2>. QED BY <1>2, <2>1 DEF Clear
<1>5. ~ InWindow(T, U)
  <2>1. InWindow(T, U) => \E x \in attempt[b].insert : x.of = s /\ x.day = T
    BY <1>3 DEF Fetch, Keyed
  <2>. QED BY <1>1, <2>1
<1>6. ~ InWindow(U, T)
  <2>1. InWindow(U, T) => \E x \in attempt[a].insert : x.of = s /\ x.day = U
    BY <1>4 DEF Fetch, Keyed
  <2>. QED BY <1>2, <2>1
<1>. QED BY <1>0, <1>5, <1>6 DEF InWindow

\* What another run has fetched stays clear of what a commit stores, or its insert will fail.
LEMMA CommitFetches ==
  ASSUME ReportInv, NEW a \in Runners, AtWork(a), attempt[a].wait = {}, candles' = Refreshed(a),
         NEW b \in Runners \ {a}, AtWork(b), attempt'[b] = attempt[b]
  PROVE  Fetches(b)'
<1>0. /\ candles \subseteq CandleRows /\ attempt[a].insert \subseteq PlainRows /\ attempt[b].insert \subseteq PlainRows
      /\ History \in Nat \ {0} /\ Foreign(a, b) /\ Replaces(a) /\ Fetches(b) /\ Apart(a, b)
  BY AttemptType, ReportAssumption DEF ReportInv, ReportTypes, Attempts, AttemptSound
<1>. SUFFICES ASSUME NEW s \in Names, Touches(b, s)
              PROVE  \E U \in Nat \ {0}, C \in Nat : Fetch(b, s, U, C)' /\ (Clear(b, s, U, C)' \/ Struck(b, s)')
  BY DEF Fetches, Touches
<1>1. PICK U \in Nat \ {0}, C \in Nat : Fetch(b, s, U, C) /\ (Clear(b, s, U, C) \/ Struck(b, s))
  BY <1>0 DEF Fetches
<1>2. \A x, d : LiveOn(x, d) => LiveOn(x, d)'
  BY RefreshedDays
<1>3. Fetch(b, s, U, C)'
  <2>1. \A d \in Nat \ {0} : InWindow(d, U) => LiveOn(s, d)' \/ \E n \in attempt[b].insert : Keyed(n, s, d)
    BY <1>1, <1>2 DEF Fetch
  <2>. QED BY <1>1, <2>1 DEF Fetch
<1>4. ASSUME NEW n \in attempt[a].insert, NEW m \in attempt[b].wait, Keyed(m, s, n.day), n.of = s PROVE Struck(b, s)'
  <2>1. StoredRow(a, n) \in candles' /\ StoredRow(a, n) \notin attempt[b].retire
    BY <1>0, RefreshedRows DEF Foreign, StoredRow
  <2>2. StoredRow(a, n).live /\ StoredRow(a, n).of = s /\ StoredRow(a, n).day = n.day
    BY <1>4 DEF StoredRow
  <2>3. \E c \in candles' \ attempt'[b].retire : c.live /\ c.of = s /\ \E x \in attempt'[b].wait : Keyed(x, s, c.day)
    BY <1>4, <2>1, <2>2
  <2>. QED BY <2>3 DEF Struck, Keyed
<1>5. CASE Struck(b, s)
  <2>1. PICK c \in candles \ attempt[b].retire : c.live /\ c.of = s /\ \E n \in attempt[b].wait : Keyed(n, s, c.day)
    BY <1>5 DEF Struck
  <2>2. CASE c \in attempt[a].retire
    <3>1. PICK n \in attempt[a].insert : Keyed(n, c.of, c.day)
      BY <1>0, <2>2 DEF Replaces
    <3>. QED BY <3>1, <2>1, <1>3, <1>4 DEF Keyed
  <2>3. CASE c \notin attempt[a].retire
    <3>1. c \in candles' \ attempt'[b].retire
      BY <2>3, RefreshedRows
    <3>2. Struck(b, s)'
      BY <3>1, <2>1 DEF Struck, Keyed
    <3>. QED BY <3>2, <1>3
  <2>. QED BY <2>2, <2>3
<1>6. CASE ~ Touches(a, s) /\ Clear(b, s, U, C)
  <2>1. \A c \in candles' : c.live /\ c.of = s => c \in candles
    <3>1. \A n \in attempt[a].insert : StoredRow(a, n).of # s
      BY <1>6 DEF Touches, StoredRow
    <3>. QED BY <3>1, RefreshedRows
  <2>2. \A d : LiveOn(s, d)' => LiveOn(s, d)
    BY <2>1 DEF LiveOn, Keyed
  <2>3. \A c \in candles' \ attempt[b].retire : c.live /\ c.of = s =>
          (\A n \in attempt[b].insert : n.of = s => n.day # c.day) /\ (InWindow(c.day, U) => c.basis = C)
    BY <2>1, <1>6 DEF Clear
  <2>4. \A d \in Nat : LiveOn(s, d)' /\ d >= U => \E e \in Nat : LiveOn(s, e)' /\ e >= U + History
    BY <2>2, <1>2, <1>6 DEF Clear
  <2>5. Clear(b, s, U, C)'
    BY <2>3, <2>4 DEF Clear
  <2>. QED BY <2>5, <1>3
<1>7. CASE Touches(a, s) /\ Clear(b, s, U, C)
  <2>1. PICK T \in Nat \ {0}, B \in Nat : Fetch(a, s, T, B) /\ Clear(a, s, T, B)
    BY <1>7, FetchClear
  <2>2. ASSUME NEW n \in attempt[a].insert, NEW m \in attempt[b].insert, n.of = s, m.of = s, n.day = m.day
        PROVE  Struck(b, s)'
    <3>1. m \in attempt[b].wait
      BY <1>0, <2>2 DEF Apart, Keyed
    <3>. QED BY <3>1, <2>2, <1>4 DEF Keyed
  <2>3. ASSUME \A n \in attempt[a].insert, m \in attempt[b].insert : n.of = s /\ m.of = s => n.day # m.day
        PROVE  Clear(b, s, U, C)'
    <3>1. T >= U + History \/ U >= T + History
      BY <1>1, <1>7, <2>1, <2>3, WindowsApart
    <3>2. ASSUME NEW c \in candles' \ attempt[b].retire, c.live, c.of = s
          PROVE (\A m \in attempt[b].insert : m.of = s => m.day # c.day) /\ (InWindow(c.day, U) => c.basis = C)
      <4>1. c \in candles \ attempt[a].retire \/ \E n \in attempt[a].insert : c = StoredRow(a, n)
        BY <3>2, RefreshedRows
      <4>2. CASE c \in candles
        BY <3>2, <4>2, <1>7 DEF Clear
      <4>3. ASSUME NEW n \in attempt[a].insert, c = StoredRow(a, n)
            PROVE (\A m \in attempt[b].insert : m.of = s => m.day # c.day) /\ (InWindow(c.day, U) => c.basis = C)
        <5>1. n.of = s /\ n.day = c.day /\ n.day \in Nat
          BY <3>2, <4>3, <1>0 DEF StoredRow, PlainRows
        <5>2. InWindow(n.day, T)
          BY <5>1, <2>1 DEF Fetch
        <5>3. ~ InWindow(n.day, U)
          BY <5>1, <5>2, <3>1, <1>0 DEF InWindow
        <5>. QED BY <5>1, <5>3, <2>3
      <4>. QED BY <4>1, <4>2, <4>3
    <3>3. ASSUME NEW d \in Nat, LiveOn(s, d)', d >= U PROVE \E e \in Nat : LiveOn(s, e)' /\ e >= U + History
      <4>1. LiveOn(s, d) \/ \E n \in attempt[a].insert : Keyed(n, s, d)
        BY <3>3, RefreshedDays
      <4>2. CASE LiveOn(s, d)
        BY <3>3, <4>2, <1>2, <1>7 DEF Clear
      <4>3. ASSUME NEW n \in attempt[a].insert, Keyed(n, s, d) PROVE \E e \in Nat : LiveOn(s, e)' /\ e >= U + History
        <5>1. d <= T
          BY <4>3, <2>1 DEF Fetch, Keyed, InWindow
        <5>2. T >= U + History
          BY <5>1, <3>1, <3>3, <1>0
        <5>3. PICK x \in attempt[a].insert : x.of = s /\ x.day = T
          BY <2>1 DEF Fetch, Keyed
        <5>4. LiveOn(s, T)'
          BY <5>3, RefreshedDays
        <5>. QED BY <5>2, <5>4
      <4>. QED BY <4>1, <4>2, <4>3
    <3>. QED BY <3>2, <3>3 DEF Clear
  <2>. QED BY <2>2, <2>3, <1>3
<1>. QED BY <1>1, <1>5, <1>6, <1>7

\* The day of a verdict is the last of its candles.
LEMMA DayOfSeries ==
  ASSUME ReportInv, NEW a \in Runners, AtWork(a), NEW s \in Names, attempt[a].series[s] # {}
  PROVE  DayOf(attempt[a].series[s]) \in Nat /\ \E c \in attempt[a].series[s] : c.day = DayOf(attempt[a].series[s])
<1>. DEFINE S == {c.day : c \in attempt[a].series[s]}
<1>1. attempt[a].series[s] \subseteq PlainRows
  BY AttemptType DEF ReportInv, Attempts
<1>2. today \in Nat /\ S \in SUBSET (0 .. today) /\ S # {}
  BY <1>1 DEF ReportInv, ReportTypes, PlainRows
<1>. HIDE DEF S
<1>3. Max(S) \in S
  BY <1>2, MaxIs
<1>4. DayOf(attempt[a].series[s]) = Max(S)
  BY DEF DayOf, S
<1>5. Max(S) \in Nat
  <2>1. Max(S) \in 0 .. today
    BY <1>2, <1>3
  <2>. QED BY <1>2, <2>1
<1>6. \E c \in attempt[a].series[s] : c.day = Max(S)
  BY <1>3 DEF S
<1>. QED BY <1>4, <1>5, <1>6

LEMMA CommitRunKeeps == ASSUME ReportInv, NEW a \in Runners, CommitRun(a) PROVE ReportInv'
<1>. DEFINE was == attempt[a]
<1>1. was.at = "council"
  BY DEF CommitRun
<1>2. AtWork(a)
  <2>1. was.at # "rest"
    BY <1>1
  <2>. QED BY <2>1 DEF AtWork, Resting
<1>3. was \in Attempts /\ AttemptSound(a) /\ ReportTypes
  BY <1>2, AttemptType DEF ReportInv
<1>4. attempt[a].wait = {}
  BY <1>1, <1>3 DEF AttemptSound, InPlace, Placed
<1>5. /\ candles' = Refreshed(a) /\ ratios' = ratios \cup was.ratios /\ news' = news \cup was.news
      /\ attempt' = [attempt EXCEPT ![a] = Resting] /\ UNCHANGED <<today, basis>>
  BY DEF CommitRun, quotes
<1>6. attempt'[a] = Resting /\ \A b \in Runners \ {a} : attempt'[b] = attempt[b]
  BY <1>3, <1>5 DEF ReportTypes
<1>7. (~ AtWork(a)') /\ \A b \in Runners \ {a} : AtWork(b)' <=> AtWork(b)
  BY <1>6 DEF AtWork
<1>8. PICK screened \in SUBSET {s \in Names : was.series[s] # {}} :
       \E forecast \in SUBSET screened, heard \in SUBSET screened :
         LET outlook(s) == IF s \in forecast THEN [of |-> s, at |-> today, by |-> was.by] ELSE Missing
             entry(s) == [asOf |-> DayOf(was.series[s]), ratio |-> was.ratio[s], outlook |-> outlook(s)]
         IN  /\ outlooks' = outlooks \cup {outlook(s) : s \in forecast}
             /\ reports' = Append(reports, [manifest |-> [s \in heard |-> entry(s)], series |-> [s \in heard |-> was.series[s]]])
  BY DEF CommitRun
<1>9. PICK forecast \in SUBSET screened, heard \in SUBSET screened :
         LET outlook(s) == IF s \in forecast THEN [of |-> s, at |-> today, by |-> was.by] ELSE Missing
             entry(s) == [asOf |-> DayOf(was.series[s]), ratio |-> was.ratio[s], outlook |-> outlook(s)]
         IN  /\ outlooks' = outlooks \cup {outlook(s) : s \in forecast}
             /\ reports' = Append(reports, [manifest |-> [s \in heard |-> entry(s)], series |-> [s \in heard |-> was.series[s]]])
  BY <1>8
<1>. DEFINE outlook(s) == IF s \in forecast THEN [of |-> s, at |-> today, by |-> was.by] ELSE Missing
            entry(s) == [asOf |-> DayOf(was.series[s]), ratio |-> was.ratio[s], outlook |-> outlook(s)]
            rep == [manifest |-> [s \in heard |-> entry(s)], series |-> [s \in heard |-> was.series[s]]]
<1>10. outlooks' = outlooks \cup {outlook(s) : s \in forecast} /\ reports' = Append(reports, rep)
  BY <1>9
<1>11. heard \subseteq Names /\ forecast \subseteq Names /\ \A s \in heard : was.series[s] # {}
  OBVIOUS
<1>12. \A s \in heard : DayOf(was.series[s]) \in Nat /\ \E c \in was.series[s] : c.day = DayOf(was.series[s])
  BY <1>2, <1>11, DayOfSeries
<1>13. \A s \in Names : outlook(s) \in DatedRows \cup {Missing} /\ (s \in forecast => outlook(s) \in DatedRows)
  BY <1>3 DEF DatedRows, Attempts, ReportTypes
<1>14. \A s \in heard : entry(s) \in Entries /\ entry(s).asOf = DayOf(was.series[s]) /\ entry(s).ratio = was.ratio[s] /\ entry(s).outlook = outlook(s)
  BY <1>3, <1>11, <1>12, <1>13 DEF Entries, Attempts
<1>15. \A s \in heard : outlook(s) # Missing => outlook(s) \in outlooks'
  BY <1>10
<1>16. outlooks' \in SUBSET DatedRows /\ outlooks \subseteq outlooks'
  BY <1>3, <1>10, <1>11, <1>13 DEF ReportTypes
<1>. HIDE DEF outlook, entry
<1>17. rep.manifest \in [heard -> Entries] /\ rep.series \in [heard -> SUBSET PlainRows] /\ DOMAIN rep.manifest = heard /\ DOMAIN rep.series = heard
  BY <1>3, <1>11, <1>14 DEF Attempts
<1>18. rep \in Published
  <2>1. heard \in SUBSET Names
    OBVIOUS
  <2>2. rep.manifest \in UNION {[h -> Entries] : h \in SUBSET Names} /\ rep.series \in UNION {[h -> SUBSET PlainRows] : h \in SUBSET Names}
    BY <1>17, <2>1
  <2>. QED BY <2>2 DEF Published
<1>19. \A s \in heard : rep.manifest[s] = entry(s) /\ rep.series[s] = was.series[s]
  OBVIOUS
<1>. HIDE DEF rep
<1>20. reports' \in Seq(Published) /\ Len(reports') = Len(reports) + 1 /\ Len(reports) \in Nat /\ reports'[Len(reports) + 1] = rep
       /\ DOMAIN reports' = 1 .. (Len(reports) + 1) /\ DOMAIN reports = 1 .. Len(reports)
       /\ \A i \in DOMAIN reports : i \in DOMAIN reports' /\ reports'[i] = reports[i]
  BY <1>3, <1>10, <1>18 DEF ReportTypes
<1>21. ASSUME NEW i \in DOMAIN reports' PROVE (i \in DOMAIN reports /\ reports'[i] = reports[i]) \/ reports'[i] = rep
  BY <1>20
<1>22. /\ \A c \in candles \ was.retire : c \in candles'
       /\ \A c \in was.retire : Retired(c) \in candles'
       /\ \A n \in was.insert : StoredRow(a, n) \in candles'
       /\ \A c \in was.retire : Retired(c) \in CandleRows /\ Retired(c).day = c.day /\ Retired(c).batch = c.batch /\ Plain(Retired(c)) = Plain(c)
       /\ \A n \in was.insert : StoredRow(a, n) \in CandleRows /\ Plain(StoredRow(a, n)) = n
  BY <1>2, <1>5, RefreshedRows
<1>23. \A c \in candles' : c \in candles \/ (\E r \in was.retire : c = Retired(r)) \/ \E n \in was.insert : c = StoredRow(a, n)
  BY <1>2, <1>5, RefreshedRows
<1>24. \A n \in was.insert : StoredRow(a, n).day = n.day /\ StoredRow(a, n).batch = was.by
  BY DEF StoredRow
<1>25. \A s, d : LiveOn(s, d) => LiveOn(s, d)'
  BY <1>2, <1>5, RefreshedDays
<1>26. \A n \in was.insert : LiveOn(n.of, n.day)'
  BY <1>2, <1>5, RefreshedDays
<1>27. \A c \in candles : \E r \in candles' : Plain(r) = Plain(c)
  BY <1>22
<1>28. \A c \in was.retire : c.day <= today
  <2>1. \A c \in was.retire : \E n \in was.insert : n.day = c.day
    BY <1>3 DEF AttemptSound, Replaces, Keyed
  <2>2. \A n \in was.insert : n.day <= today
    BY <1>2, <1>3 DEF ReportTypes
  <2>. QED BY <2>1, <2>2
<1>30. ReportTypes'
  <2>1. candles' \subseteq CandleRows
    BY <1>3, <1>22, <1>23 DEF ReportTypes
  <2>2. \A c \in candles' : c.day <= today
    <3>1. \A n \in was.insert : n.day <= today
      BY <1>2, <1>3 DEF ReportTypes
    <3>2. \A c \in candles : c.day <= today
      BY <1>3 DEF ReportTypes
    <3>. QED BY <3>1, <3>2, <1>22, <1>23, <1>24, <1>28
  <2>3. ratios' \in SUBSET DatedRows /\ news' \in SUBSET Nat
    BY <1>3, <1>5 DEF ReportTypes, Attempts
  <2>4. attempt' \in [Runners -> Attempts \cup {Resting}]
    BY <1>3, <1>5 DEF ReportTypes
  <2>5. \A b \in Runners : AtWork(b)' => (\A c \in attempt'[b].insert : c.day <= today') /\ \A s \in Names : \A c \in attempt'[b].series[s] : c.day <= today'
    BY <1>3, <1>5, <1>6, <1>7 DEF ReportTypes
  <2>. QED BY <2>1, <2>2, <2>3, <2>4, <2>5, <1>3, <1>5, <1>16, <1>20 DEF ReportTypes
<1>31. ASSUME NEW b \in Runners \ {a}, AtWork(b) PROVE AttemptSound(b)'
  <2>1. AttemptSound(b) /\ attempt'[b] = attempt[b] /\ attempt[b] \in Attempts
    BY <1>6, <1>31, AttemptType DEF ReportInv
  <2>2. Fetches(b)'
    BY <2>1, <1>2, <1>4, <1>5, <1>31, CommitFetches
  <2>3. InPlace(b)' /\ Replaces(b)'
    BY <2>1 DEF AttemptSound, InPlace, Replaces, Keyed
  <2>4. Numbered(b)'
    <3>1. \A c \in attempt[b].retire : c.batch[2] < Len(reports')
      <4>1. \A c \in attempt[b].retire : c.batch[2] \in Nat /\ c.batch[2] < Len(reports)
        BY <2>1 DEF AttemptSound, Numbered, Attempts, CandleRows
      <4>. QED BY <4>1, <1>20
    <3>2. \A c \in was.retire : Retired(c).batch # attempt[b].by
      BY <1>2, <1>22, <1>31 DEF ReportInv, Foreign
    <3>3. was.by # attempt[b].by
      BY <1>3, <2>1 DEF AttemptSound, Numbered
    <3>4. \A c \in candles' : c.batch # attempt[b].by
      BY <1>23, <1>24, <3>2, <3>3, <2>1 DEF AttemptSound, Numbered
    <3>5. attempt[b].by[1] = b /\ attempt[b].by[2] <= Len(reports')
      <4>1. attempt[b].by[1] = b /\ attempt[b].by[2] <= Len(reports) /\ attempt[b].by[2] \in Nat
        BY <2>1 DEF AttemptSound, Numbered, Attempts
      <4>. QED BY <4>1, <1>20
    <3>. QED BY <3>1, <3>4, <3>5, <2>1 DEF Numbered
  <2>5. Evidenced(b)'
    <3>1. Evidenced(b)
      BY <2>1 DEF AttemptSound
    <3>2. \A s \in Names : \A c \in attempt[b].series[s] : c \in attempt[b].insert \/ ((\E r \in candles' : Plain(r) = c) /\ LiveOn(s, c.day)')
      BY <3>1, <1>25, <1>27 DEF Evidenced
    <3>3. \A s \in Names : attempt[b].ratio[s] # Missing => attempt[b].ratio[s] \in ratios' \cup attempt[b].ratios
      BY <3>1, <1>5 DEF Evidenced
    <3>. QED BY <3>1, <3>2, <3>3, <2>1 DEF Evidenced
  <2>. QED BY <2>2, <2>3, <2>4, <2>5 DEF AttemptSound
<1>32. \A b \in Runners : AtWork(b)' => AttemptSound(b)'
  BY <1>7, <1>31
<1>33. \A b, c \in Runners : AtWork(b)' /\ AtWork(c)' => (b # c => Apart(b, c)') /\ Foreign(b, c)'
  BY <1>6, <1>7 DEF ReportInv, Apart, Foreign
<1>34. OneCurrent' /\ LiveOneBasis'
  BY <1>2, <1>4, <1>5, CommitOneCurrent, CommitLiveOneBasis
<1>35. BatchesOld'
  <2>1. \A c \in candles : c.batch[2] \in Nat /\ c.batch[2] < Len(reports)
    BY <1>3 DEF ReportInv, BatchesOld, ReportTypes, CandleRows
  <2>2. \A c \in was.retire : c.batch[2] \in Nat /\ c.batch[2] < Len(reports)
    BY <1>3 DEF AttemptSound, Numbered, Attempts, CandleRows
  <2>3. was.by[2] \in Nat /\ was.by[2] <= Len(reports)
    BY <1>3 DEF AttemptSound, Numbered, Attempts
  <2>. QED BY <2>1, <2>2, <2>3, <1>20, <1>22, <1>23, <1>24 DEF BatchesOld
<1>36. AsOfLive'
  <2>1. ASSUME NEW s \in heard, NEW d, d = entry(s).asOf PROVE LiveOn(s, d)'
    <3>1. PICK c \in was.series[s] : c.day = d
      BY <1>12, <1>14, <2>1
    <3>2. c.of = s /\ (c \in was.insert \/ LiveOn(s, d))
      BY <1>3, <1>11, <3>1 DEF AttemptSound, Evidenced
    <3>3. CASE c \in was.insert
      <4>1. \A x, y : x = c.of /\ y = c.day => LiveOn(x, y)'
        BY <3>3, <1>26
      <4>. QED BY <3>1, <3>2, <4>1
    <3>. QED BY <3>2, <3>3, <1>25
  <2>2. ASSUME NEW i \in DOMAIN reports, NEW s \in DOMAIN reports[i].manifest, NEW d, d = reports[i].manifest[s].asOf PROVE LiveOn(s, d)'
    <3>1. LiveOn(s, d)
      BY <2>2 DEF ReportInv, AsOfLive
    <3>. QED BY <3>1, <1>25
  <2>3. ASSUME NEW s \in DOMAIN rep.manifest, NEW d, d = rep.manifest[s].asOf PROVE LiveOn(s, d)'
    BY <1>17, <1>19, <2>1, <2>3
  <2>4. ASSUME NEW i \in DOMAIN reports', NEW s \in DOMAIN reports'[i].manifest, NEW d, d = reports'[i].manifest[s].asOf PROVE LiveOn(s, d)'
    BY <1>21, <2>2, <2>3, <2>4
  <2>5. \A i \in DOMAIN reports' : \A s \in DOMAIN reports'[i].manifest : \A d : d = reports'[i].manifest[s].asOf => LiveOn(s, d)'
    BY <2>4
  <2>. QED BY <2>5 DEF AsOfLive, LiveOn, Keyed
<1>37. SameCompanies'
  BY <1>17, <1>21 DEF ReportInv, SameCompanies
<1>38. Rebuildable'
  <2>1. ASSUME NEW s \in heard
        PROVE /\ \A c \in was.series[s] : \E r \in candles' : Plain(r) = c
              /\ entry(s).asOf = DayOf(was.series[s])
              /\ entry(s).ratio # Missing => entry(s).ratio \in ratios'
              /\ entry(s).outlook # Missing => entry(s).outlook \in outlooks'
    <3>1. \A c \in was.series[s] : c \in was.insert \/ \E r \in candles : Plain(r) = c
      BY <1>3, <1>11 DEF AttemptSound, Evidenced
    <3>2. was.ratio[s] # Missing => was.ratio[s] \in ratios \cup was.ratios
      BY <1>3, <1>11 DEF AttemptSound, Evidenced
    <3>3. \A c \in was.series[s] : \E r \in candles' : Plain(r) = c
      BY <3>1, <1>22, <1>27
    <3>. QED BY <3>2, <3>3, <1>5, <1>14, <1>15
  <2>2. ASSUME NEW i \in DOMAIN reports, NEW s \in DOMAIN reports[i].manifest
        PROVE /\ \A c \in reports[i].series[s] : \E r \in candles' : Plain(r) = c
              /\ reports[i].manifest[s].asOf = DayOf(reports[i].series[s])
              /\ reports[i].manifest[s].ratio # Missing => reports[i].manifest[s].ratio \in ratios'
              /\ reports[i].manifest[s].outlook # Missing => reports[i].manifest[s].outlook \in outlooks'
    <3>1. Rebuildable
      BY DEF ReportInv
    <3>. QED BY <3>1, <1>5, <1>16, <1>27 DEF Rebuildable
  <2>3. ASSUME NEW i \in DOMAIN reports', NEW s \in DOMAIN reports'[i].manifest
        PROVE /\ \A c \in reports'[i].series[s] : \E r \in candles' : Plain(r) = c
              /\ reports'[i].manifest[s].asOf = DayOf(reports'[i].series[s])
              /\ reports'[i].manifest[s].ratio # Missing => reports'[i].manifest[s].ratio \in ratios'
              /\ reports'[i].manifest[s].outlook # Missing => reports'[i].manifest[s].outlook \in outlooks'
    <3>1. CASE i \in DOMAIN reports /\ reports'[i] = reports[i]
      BY <3>1, <2>2
    <3>2. CASE reports'[i] = rep
      BY <3>2, <2>1, <1>17, <1>19
    <3>. QED BY <3>1, <3>2, <1>21
  <2>. QED BY <2>3 DEF Rebuildable, DayOf, Plain
<1>39. OneBasis'
  <2>1. ASSUME NEW s \in heard, NEW c \in was.series[s], NEW d \in was.series[s],
               \A e \in was.series[s] : e.day - c.day < History /\ e.day - d.day < History
        PROVE  c.basis = d.basis
    <3>1. c.basis = d.basis \/ \E e \in was.series[s] : e.day >= c.day + History \/ e.day >= d.day + History
      BY <1>3, <1>11 DEF AttemptSound, Evidenced
    <3>2. \A e \in was.series[s] : e.day \in Nat
      BY <1>3, <1>11 DEF Attempts, PlainRows
    <3>. QED BY <2>1, <3>1, <3>2, ReportAssumption
  <2>2. OneBasis
    BY DEF ReportInv
  <2>3. ASSUME NEW i \in DOMAIN reports', NEW s \in DOMAIN reports'[i].series, NEW c \in reports'[i].series[s], NEW d \in reports'[i].series[s],
               \A e \in reports'[i].series[s] : e.day - c.day < History /\ e.day - d.day < History
        PROVE  c.basis = d.basis
    <3>1. CASE i \in DOMAIN reports /\ reports'[i] = reports[i]
      BY <3>1, <2>2, <2>3 DEF OneBasis
    <3>2. CASE reports'[i] = rep
      BY <3>2, <2>1, <2>3, <1>17, <1>19
    <3>. QED BY <3>1, <3>2, <1>21
  <2>. QED BY <2>3 DEF OneBasis
<1>. QED BY <1>30, <1>32, <1>33, <1>34, <1>35, <1>36, <1>37, <1>38, <1>39 DEF ReportInv

-----------------------------------------------------------------------------
LEMMA ReportInitInv == ReportInit => ReportInv
<1>. SUFFICES ASSUME ReportInit PROVE ReportInv
  OBVIOUS
<1>1. \A a \in Runners : ~ AtWork(a)
  BY DEF ReportInit, AtWork
<1>2. ReportTypes
  BY <1>1 DEF ReportInit, ReportTypes
<1>. QED BY <1>1, <1>2 DEF ReportInit, ReportInv, OneCurrent, LiveOneBasis, BatchesOld, AsOfLive, SameCompanies, Rebuildable, OneBasis

LEMMA ReportStep == ReportInv /\ [ReportNext]_reportVars => ReportInv'
<1>. SUFFICES ASSUME ReportInv, [ReportNext]_reportVars PROVE ReportInv'
  OBVIOUS
<1>1. ASSUME NEW a \in Runners, StartRun(a) PROVE ReportInv'
  BY <1>1, StartRunKeeps
<1>2. ASSUME NEW a \in Runners, GatherCandles(a) PROVE ReportInv'
  BY <1>2, GatherCandlesKeeps
<1>3. ASSUME NEW a \in Runners, CandlesResume(a) PROVE ReportInv'
  BY <1>3, CandlesResumeKeeps
<1>4. ASSUME NEW a \in Runners, GatherRatios(a) PROVE ReportInv'
  BY <1>4, GatherRatiosKeeps
<1>5. ASSUME NEW a \in Runners, IngestNews(a) PROVE ReportInv'
  BY <1>5, IngestNewsKeeps
<1>6. ASSUME NEW a \in Runners, NewsResume(a) PROVE ReportInv'
  BY <1>6, NewsResumeKeeps
<1>7. ASSUME NEW a \in Runners, CommitRun(a) PROVE ReportInv'
  BY <1>7, CommitRunKeeps
<1>8. ASSUME NEW a \in Runners, RunFails(a) PROVE ReportInv'
  BY <1>8, RunFailsKeeps
<1>9. CASE DayPasses
  BY <1>9, DayPassesKeeps
<1>10. CASE UNCHANGED reportVars
  <2>1. UNCHANGED <<today, basis, candles, ratios, outlooks, news, reports, attempt>>
    BY <1>10 DEF reportVars
  <2>2. ReportTypes'
    BY <2>1 DEF ReportInv, ReportTypes, AtWork
  <2>3. \A x, d : LiveOn(x, d)' <=> LiveOn(x, d)
    BY <2>1 DEF LiveOn, Keyed
  <2>4. ASSUME NEW a \in Runners, AtWork(a)' PROVE AttemptSound(a)'
    <3>1. AttemptSound(a)
      BY <2>1, <2>4 DEF ReportInv, AtWork
    <3>2. Fetches(a)'
      BY <2>1, <3>1, SameFetches DEF AttemptSound
    <3>3. InPlace(a)' /\ Replaces(a)' /\ Numbered(a)' /\ Evidenced(a)'
      BY <2>1, <2>3, <3>1 DEF AttemptSound, InPlace, Replaces, Numbered, Evidenced
    <3>. QED BY <3>2, <3>3 DEF AttemptSound
  <2>5. \A a, b \in Runners : AtWork(a)' /\ AtWork(b)' => (a # b => Apart(a, b)') /\ Foreign(a, b)'
    BY <2>1 DEF ReportInv, Apart, Foreign, AtWork
  <2>6. (OneCurrent /\ LiveOneBasis /\ BatchesOld /\ AsOfLive /\ SameCompanies /\ Rebuildable /\ OneBasis)'
    BY <2>1 DEF ReportInv, OneCurrent, LiveOneBasis, BatchesOld, AsOfLive, SameCompanies, Rebuildable, OneBasis, LiveOn
  <2>. QED BY <2>2, <2>4, <2>5, <2>6 DEF ReportInv
<1>. QED BY <1>1, <1>2, <1>3, <1>4, <1>5, <1>6, <1>7, <1>8, <1>9, <1>10 DEF ReportNext

\* The invariant below holds of every behaviour: what runs have fetched, hold and wait for fits what is committed
\* (recommendation_pipeline.py: the transactions of the workers).
THEOREM ReportInvariance == ReportSpec => []ReportInv
<1>1. ReportInit => ReportInv
  BY ReportInitInv
<1>2. ReportInv /\ [ReportNext]_reportVars => ReportInv'
  BY ReportStep
<1>. QED BY <1>1, <1>2, PTL DEF ReportSpec

\* Nobody at work waits for himself alone: news waits only behind runs that do not wait for news, candles only behind a later company.
LEMMA NobodyStuck == ReportInv => NoMutualWait
<1>. SUFFICES ASSUME ReportInv, NEW a \in Runners, Waits(a),
                     \A b \in Runners : AtWork(b) => Waits(b),
                     \A b \in Runners : ~ CandlesFree(b) /\ ~ NewsFree(b)
              PROVE  FALSE
  BY DEF NoMutualWait
<1>1. \A b \in Runners : Waits(b) => AtWork(b)
  <2>. SUFFICES ASSUME NEW b \in Runners, Waits(b) PROVE AtWork(b)
    OBVIOUS
  <2>1. attempt[b].at # "rest"
    BY DEF Waits
  <2>. QED BY <2>1 DEF AtWork, Resting
<1>2. \A b \in Runners : AtWork(b) => Placed(attempt[b])
  BY DEF ReportInv, AttemptSound, InPlace
<1>3. \A b \in Runners : AtWork(b) => attempt[b].news \subseteq attempt[b].newsWait
  <2>. SUFFICES ASSUME NEW b \in Runners, AtWork(b) PROVE attempt[b].news \subseteq attempt[b].newsWait
    OBVIOUS
  <2>1. attempt[b].at \in {"waits for candles", "waits for news"}
    BY DEF Waits
  <2>. QED BY <2>1, <1>2 DEF Placed
<1>4. \A b \in Runners : HeldNews(b) = {}
  BY <1>3 DEF HeldNews
<1>5. \A b \in Runners : AtWork(b) => attempt[b].at = "waits for candles"
  BY <1>4 DEF NewsFree, Waits
<1>6. \A b \in Runners : AtWork(b) => attempt[b].i \in 1 .. Len(Order) /\ attempt[b].wait = {n \in attempt[b].insert : n.of = Order[attempt[b].i]}
  BY <1>2, <1>5 DEF Placed
<1>. DEFINE S == {attempt[b].i : b \in {x \in Runners : AtWork(x)}}
<1>7. Len(Order) \in Nat /\ S \in SUBSET (0 .. Len(Order)) /\ S # {}
  BY <1>1, <1>6, OrderShape
<1>8. PICK k \in S : \A y \in S : y <= k
  BY <1>7, Greatest
<1>9. PICK b \in Runners : AtWork(b) /\ attempt[b].i = k
  BY <1>8
<1>10. {Key(c) : c \in attempt[b].wait} \cap HeldKeys(b) # {}
  BY <1>5, <1>9 DEF CandlesFree
<1>11. PICK n \in attempt[b].wait : Key(n) \in HeldKeys(b)
  BY <1>10
<1>12. PICK c \in Runners : AtWork(c) /\ Key(n) \in {Key(x) : x \in attempt[c].insert \ attempt[c].wait}
  BY <1>11 DEF HeldKeys
<1>13. PICK m \in attempt[c].insert \ attempt[c].wait : Key(n) = Key(m)
  BY <1>12
<1>14. n.of = Order[k] /\ m.of = n.of /\ m.of # Order[attempt[c].i]
  BY <1>6, <1>9, <1>12, <1>13 DEF Key
<1>15. PICK j \in 1 .. Len(Order) : m.of = Order[j] /\ (j < attempt[c].i \/ j = attempt[c].i)
  BY <1>2, <1>12, <1>13 DEF Placed
<1>16. j = k
  BY <1>6, <1>9, <1>14, <1>15, OrderShape
<1>17. k < attempt[c].i
  BY <1>14, <1>15, <1>16
<1>18. attempt[c].i \in S /\ attempt[c].i \in 1 .. Len(Order)
  BY <1>6, <1>12
<1>19. attempt[c].i <= k
  BY <1>8, <1>18
<1>20. k \in Nat /\ attempt[c].i \in Nat
  <2>1. k \in 0 .. Len(Order)
    BY <1>7, <1>8
  <2>. QED BY <2>1, <1>7, <1>18
<1>. QED BY <1>17, <1>19, <1>20

LEMMA PagesPinned == ReportInv => PagePinned
<1>. SUFFICES ASSUME ReportInv, NEW s \in Names, VerdictsOn(s) # {}
              PROVE  LET m == ManifestOf(s)
                     IN  /\ m.ratio # Missing => ShownRatios(s) = {m.ratio}
                         /\ m.outlook # Missing => ShownOutlook(s) = {m.outlook}
                         /\ CurrentRows(s) # {} /\ DayOf(CurrentRows(s)) >= m.asOf
  BY DEF PagePinned
<1>. DEFINE V == VerdictsOn(s)
<1>1. Len(reports) \in Nat /\ V \in SUBSET (0 .. Len(reports))
  BY DEF ReportInv, ReportTypes, VerdictsOn
<1>2. Max(V) \in V
  BY <1>1, MaxIs
<1>3. PICK k \in DOMAIN reports : k = Max(V) /\ s \in DOMAIN reports[k].manifest
  BY <1>2 DEF VerdictsOn
<1>. DEFINE m == reports[k].manifest[s]
<1>4. ManifestOf(s) = m
  BY <1>3 DEF ManifestOf
<1>5. (m.ratio # Missing => m.ratio \in ratios) /\ (m.outlook # Missing => m.outlook \in outlooks)
  BY <1>3 DEF ReportInv, Rebuildable
<1>6. m.ratio # Missing => ShownRatios(s) = {m.ratio}
  BY <1>4, <1>5 DEF ShownRatios, Shown
<1>7. m.outlook # Missing => ShownOutlook(s) = {m.outlook}
  BY <1>4, <1>5 DEF ShownOutlook, Shown
<1>8. PICK c \in candles : c.live /\ c.of = s /\ c.day = m.asOf
  BY <1>3 DEF ReportInv, AsOfLive, LiveOn, Keyed
<1>9. c \in CurrentRows(s) /\ c.day \in Nat
  BY <1>8 DEF CurrentRows, ReportInv, ReportTypes, CandleRows
<1>10. c.day <= DayOf(CurrentRows(s)) /\ DayOf(CurrentRows(s)) \in Nat
  BY <1>9, DaysOf DEF ReportInv
<1>11. DayOf(CurrentRows(s)) >= m.asOf
  BY <1>8, <1>9, <1>10
<1>. QED BY <1>4, <1>6, <1>7, <1>9, <1>11

\* However many runs refresh the stored data at once: a day has one current candle, a report keeps its rows and its page shows them, a
\* series is quoted under one basis, and no two runs wait for each other (recommendation_pipeline.py, api/stocks.py).
THEOREM ReportsKeptAlways == ReportSpec => []ReportsKept
<1>1. ReportInv => ReportsKept
  BY NobodyStuck, PagesPinned DEF ReportsKept, ReportInv
<1>. QED BY <1>1, ReportInvariance, PTL

-----------------------------------------------------------------------------
(* What the owner's declared facts permit *)

\* A quotient is rounded to the nearer whole number, half to even: it reaches m exactly from half a step below.
LEMMA RoundReaches ==
  ASSUME NEW x \in Nat, NEW y \in Nat \ {0}, NEW m \in Nat
  PROVE  Round2(x, y) >= m <=> 2 * x > (2 * m - 1) * y \/ (2 * x = (2 * m - 1) * y /\ m % 2 = 0)
<1>. DEFINE q == x \div y
            r == x % y
<1>1. q \in Int /\ r \in 0 .. y - 1 /\ x = y * q + r
  OBVIOUS
<1>2. q \in Nat
  OBVIOUS
<1>3. Round2(x, y) = IF 2 * r > y \/ (2 * r = y /\ q % 2 = 1) THEN q + 1 ELSE q
  BY DEF Round2
<1>. HIDE DEF q, r
<1>4. CASE m <= q
  <2>1. (2 * m - 1) * y <= (2 * q - 1) * y
    <3>1. \A a, b \in Int : a <= b => a * y <= b * y
      OBVIOUS
    <3>. QED BY <1>2, <1>4, <3>1
  <2>2. (2 * q - 1) * y = 2 * (y * q) - y
    BY <1>2
  <2>3. 2 * x > (2 * m - 1) * y
    BY <1>1, <1>2, <2>1, <2>2
  <2>. QED BY <1>2, <1>3, <1>4, <2>3
<1>5. CASE m = q + 1
  <2>1. (2 * m - 1) * y = 2 * (y * q) + y
    BY <1>2, <1>5
  <2>2. 2 * x = 2 * (y * q) + 2 * r
    BY <1>1
  <2>3. y * q \in Int
    BY <1>2
  <2>4. m % 2 = 0 <=> q % 2 = 1
    BY <1>2, <1>5
  <2>. QED BY <1>1, <1>2, <1>3, <1>5, <2>1, <2>2, <2>3, <2>4
<1>6. CASE m > q + 1
  <2>1. (2 * q + 3) * y <= (2 * m - 1) * y
    <3>1. \A a, b \in Int : a <= b => a * y <= b * y
      OBVIOUS
    <3>. QED BY <1>2, <1>6, <3>1
  <2>2. (2 * q + 3) * y = 2 * (y * q) + 3 * y
    BY <1>2
  <2>3. 2 * x < (2 * m - 1) * y
    BY <1>1, <1>2, <2>1, <2>2
  <2>. QED BY <1>2, <1>3, <1>6, <2>3
<1>. QED BY <1>2, <1>4, <1>5, <1>6

\* More of what is covered, or less to cover it, never lowers the rounded quotient below a level it reaches.
LEMMA RoundMonotone ==
  ASSUME NEW x \in Nat, NEW y \in Nat \ {0}, NEW m \in Nat, Round2(x, y) >= m,
         NEW u \in Nat, NEW v \in Nat \ {0}, x <= u, v <= y
  PROVE  Round2(u, v) >= m
<1>1. CASE m = 0
  <2>1. u \div v \in Nat
    OBVIOUS
  <2>. QED BY <1>1, <2>1 DEF Round2
<1>2. CASE m # 0
  <2>1. (2 * m - 1) * v <= (2 * m - 1) * y
    <3>1. 2 * m - 1 \in Nat
      BY <1>2
    <3>2. \A k \in Nat : k * v <= k * y
      OBVIOUS
    <3>. QED BY <3>1, <3>2
  <2>2. 2 * x > (2 * m - 1) * y \/ (2 * x = (2 * m - 1) * y /\ m % 2 = 0)
    BY RoundReaches
  <2>3. 2 * u > (2 * m - 1) * v \/ (2 * u = (2 * m - 1) * v /\ m % 2 = 0)
    <3>. DEFINE a == (2 * m - 1) * v
                b == (2 * m - 1) * y
    <3>1. a \in Int /\ b \in Int /\ a <= b
      BY <2>1
    <3>2. 2 * x > b \/ (2 * x = b /\ m % 2 = 0)
      BY <2>2
    <3>. HIDE DEF a, b
    <3>3. 2 * u > a \/ (2 * u = a /\ m % 2 = 0)
      BY <3>1, <3>2
    <3>. QED BY <3>3 DEF a
  <2>. QED BY <2>3, RoundReaches
<1>. QED BY <1>1, <1>2

\* A sum of amounts is an amount, and nothing is added over nothing.
LEMMA AmountsAdd ==
  ASSUME NEW S, IsFiniteSet(S), NEW w, DOMAIN w = S, \A x \in S : w[x] \in Nat
  PROVE  SumOf(w) \in Nat
<1>1. SumOf(w) = Sum(w, S)
  BY DEF SumOf, Sum
<1>2. 0 <= Sum(w, S) /\ Sum(w, S) \in Int
  BY SumNat, SumType
<1>. QED BY <1>1, <1>2

\* What is owed each month is an amount, and without debts it is the essential expenses.
LEMMA OutgoType ==
  ASSUME NEW v, Declared(v)
  PROVE  /\ Debt(v.debts) \in Nat /\ Debt({}) = 0
         /\ Known(v.facts.expenses) => Outgo(v.facts, v.debts) = v.facts.expenses + Debt(v.debts) /\ v.facts.expenses \in Nat
<1>. DEFINE S == {x \in v.debts : Known(x.payment)}
            w == [l \in S |-> l.payment]
<1>1. IsFiniteSet(S)
  BY FS_Subset DEF Declared
<1>2. \A x \in S : w[x] \in Nat
  BY DEF Declared, Amounts, Known
<1>3. SumOf(w) \in Nat
  <2>1. DOMAIN w = S
    OBVIOUS
  <2>. HIDE DEF w, S
  <2>. QED BY <1>1, <1>2, <2>1, AmountsAdd
<1>4. Debt({}) = 0
  <2>. DEFINE none == [l \in {x \in {} : Known(x.payment)} |-> l.payment]
  <2>1. DOMAIN none = {}
    OBVIOUS
  <2>2. SumOf(none) = Sum(none, {})
    BY <2>1 DEF SumOf, Sum
  <2>. HIDE DEF none
  <2>3. SumOf(none) = 0
    BY <2>2, SumEmpty
  <2>. QED BY <2>3 DEF Debt, none
<1>5. Debt(v.debts) = SumOf(w)
  BY DEF Debt
<1>6. Known(v.facts.expenses) => v.facts.expenses \in Nat
  BY DEF Declared, Amounts, Known, Essential
<1>. QED BY <1>3, <1>4, <1>5, <1>6 DEF Outgo

\* Who holds the reserve: all facts are there, and the coverage, if there is something to cover, reaches the target.
Covers(f, debts) == MissingFacts(f) = {} /\ (Known(Coverage(f, debts)) => ~ (Coverage(f, debts) < f.months))

\* The permission in a word: all questions answered and the reserve held.
LEMMA PermittedMeans ==
  ASSUME NEW v
  PROVE  Constraints(v).allowed <=> (\A q \in Questions : Known(v.facts.answers[q])) /\ Covers(v.facts, v.debts)
<1>1. ToleranceOf(v.facts.answers).status = "ready" <=> \A q \in Questions : Known(v.facts.answers[q])
  BY DEF ToleranceOf
<1>2. CapacityFacts(v.facts, v.debts).binding = {} <=> Covers(v.facts, v.debts)
  BY DEF CapacityFacts, Covers
<1>. QED BY <1>1, <1>2 DEF Constraints

\* The reserve that covers the target still does with more of it and with less to cover.
LEMMA CoverageKept ==
  ASSUME NEW x \in Nat, NEW y \in Nat, NEW m \in Nat, NEW u \in Nat, NEW w \in Nat, x <= u, w <= y,
         y # 0 => Round2(10 * x, y) >= m
  PROVE  (w # 0 => Round2(10 * u, w) >= m) /\ 20 * x >= (2 * m - 1) * y
<1>1. w # 0 => Round2(10 * u, w) >= m
  <2>1. 10 * x \in Nat /\ 10 * u \in Nat /\ 10 * x <= 10 * u
    OBVIOUS
  <2>. QED BY <2>1, RoundMonotone
<1>2. CASE y = 0
  BY <1>2
<1>3. CASE y # 0
  <2>1. 10 * x \in Nat /\ 2 * (10 * x) = 20 * x
    OBVIOUS
  <2>2. 2 * (10 * x) > (2 * m - 1) * y \/ (2 * (10 * x) = (2 * m - 1) * y /\ m % 2 = 0)
    BY <1>3, <2>1, RoundReaches
  <2>3. (2 * m - 1) * y \in Int
    OBVIOUS
  <2>. QED BY <1>1, <2>1, <2>2, <2>3
<1>. QED BY <1>1, <1>2, <1>3

\* A page shows nothing yet, or what its handler computes from the facts.
LimitInv ==
  /\ view \in Views
  /\ \/ given = Nothing
     \/ view.what \in {"profile", "goal", "budget", "constraints"} /\ given = CASE view.what = "constraints" -> Constraints(view)
                                                                    [] view.what = "budget" -> Budget(view)
                                                                    [] view.what = "goal" -> Illustration(view.goal)
                                                                    [] OTHER -> [tolerance |-> ToleranceOf(view.facts.answers), capacity |-> CapacityFacts(view.facts, view.debts)]

\* What is shown is what the facts say, on every page (api/v4/personal.py, api/v4/constraints.py, goal_projections).
THEOREM LimitInvariance == LimitSpec => []LimitInv
<1>1. LimitInit => LimitInv
  BY DEF LimitInit, LimitInv
<1>2. LimitInv /\ [LimitNext]_limitVars => LimitInv'
  <2>. SUFFICES ASSUME LimitInv, [LimitNext]_limitVars PROVE LimitInv'
    OBVIOUS
  <2>1. CASE GetProfile
    BY <2>1 DEF LimitInv, GetProfile, Show
  <2>2. CASE GetConstraints
    BY <2>2 DEF LimitInv, GetConstraints, Show
  <2>3. CASE GetBudget
    BY <2>3 DEF LimitInv, GetBudget, Show
  <2>4. CASE ProjectGoal
    BY <2>4 DEF LimitInv, ProjectGoal, Show
  <2>5. CASE UNCHANGED limitVars
    BY <2>5 DEF LimitInv, limitVars
  <2>. QED BY <2>1, <2>2, <2>3, <2>4, <2>5 DEF LimitNext
<1>. QED BY <1>1, <1>2, PTL DEF LimitSpec

\* A permission that is shown is earned, and kept with more reserve or less debt.
LEMMA PermissionsEarned == LimitInv => PermissionEarned
<1>. DEFINE f == view.facts
            more == [view EXCEPT !.facts = [f EXCEPT !.reserve = f.reserve + 1]]
            less == [view EXCEPT !.debts = {}]
<1>. SUFFICES ASSUME LimitInv, view.what = "constraints", given # Nothing, given.allowed
              PROVE  /\ MissingFacts(f) = {} /\ \A q \in Questions : Known(f.answers[q])
                     /\ 20 * f.reserve >= (2 * f.months - 1) * Outgo(f, view.debts)
                     /\ Constraints(more).allowed /\ Constraints(less).allowed
  BY DEF PermissionEarned
<1>1. Declared(view)
  BY LimitsAssumption DEF LimitInv
<1>2. (\A q \in Questions : Known(f.answers[q])) /\ Covers(f, view.debts)
  <2>1. Constraints(view).allowed
    BY DEF LimitInv
  <2>. QED BY <2>1, PermittedMeans
<1>3. MissingFacts(f) = {} /\ \A x \in Essential : Known(f[x])
  BY <1>2 DEF Covers, MissingFacts
<1>4. f.reserve \in Nat /\ f.months \in Nat /\ f.expenses \in Nat
  <2>1. \A x \in Essential : f[x] \in Nat
    BY <1>1, <1>3 DEF Declared, Amounts, Known
  <2>. QED BY <2>1 DEF Essential
<1>. DEFINE x == f.reserve
            y == f.expenses + Debt(view.debts)
            m == f.months
<1>5. y \in Nat /\ f.expenses <= y /\ Outgo(f, view.debts) = y
  BY <1>1, <1>3, <1>4, OutgoType DEF Essential
<1>6. y # 0 => Round2(10 * x, y) >= m
  <2>1. y # 0 => Coverage(f, view.debts) = Round2(10 * x, y)
    BY <1>3, <1>5 DEF Coverage, Essential
  <2>2. y # 0 => Round2(10 * x, y) \in Int
    <3>1. y # 0 => (10 * x) \div y \in Int
      BY <1>4, <1>5
    <3>. QED BY <3>1 DEF Round2
  <2>3. y # 0 => Known(Coverage(f, view.debts))
    BY <2>1, <2>2, LimitsAssumption DEF Known
  <2>. QED BY <1>2, <1>4, <2>1, <2>2, <2>3 DEF Covers
<1>7. 20 * x >= (2 * m - 1) * y
  <2>. HIDE DEF x, y, m
  <2>1. x \in Nat /\ y \in Nat /\ m \in Nat
    BY <1>4, <1>5 DEF x, m
  <2>. QED BY <1>6, <2>1, CoverageKept
<1>8. Constraints(more).allowed
  <2>1. more.facts = [f EXCEPT !.reserve = f.reserve + 1] /\ more.debts = view.debts
    BY <1>1 DEF Declared
  <2>2. /\ more.facts.reserve = x + 1 /\ more.facts.expenses = f.expenses /\ more.facts.months = m
        /\ more.facts.income = f.income /\ more.facts.answers = f.answers
    BY <1>1, <2>1 DEF Declared, Essential
  <2>3. MissingFacts(more.facts) = {}
    <3>1. Known(x + 1)
      BY <1>4, LimitsAssumption DEF Known
    <3>. QED BY <1>3, <2>2, <3>1 DEF MissingFacts, Essential
  <2>4. Outgo(more.facts, more.debts) = y
    BY <1>5, <2>1, <2>2 DEF Outgo
  <2>5. y # 0 => Round2(10 * (x + 1), y) >= m
    <3>1. x \in Nat /\ y \in Nat /\ m \in Nat /\ x + 1 \in Nat /\ x <= x + 1 /\ y <= y
      BY <1>4, <1>5
    <3>. HIDE DEF x, y, m
    <3>. QED BY <1>6, <3>1, CoverageKept
  <2>6. Coverage(more.facts, more.debts) = IF y = 0 THEN Undeclared ELSE Round2(10 * (x + 1), y)
    <3>1. Known(x + 1) /\ Known(f.expenses)
      BY <1>3, <1>4, LimitsAssumption DEF Known, Essential
    <3>. QED BY <2>2, <2>4, <3>1 DEF Coverage
  <2>7. y # 0 => Round2(10 * (x + 1), y) \in Int
    <3>1. y # 0 => (10 * (x + 1)) \div y \in Int
      BY <1>4, <1>5
    <3>. QED BY <3>1 DEF Round2
  <2>8. Covers(more.facts, more.debts)
    <3>. HIDE DEF y, x, more
    <3>. QED BY <1>4, <2>2, <2>3, <2>5, <2>6, <2>7 DEF Covers, Known
  <2>. HIDE DEF more, x, y, m
  <2>. QED BY <1>2, <2>2, <2>8, PermittedMeans
<1>9. Constraints(less).allowed
  <2>1. less.facts = f /\ less.debts = {}
    BY <1>1 DEF Declared
  <2>. DEFINE w == f.expenses
  <2>2. Outgo(less.facts, less.debts) = w
    BY <1>1, <1>3, <1>4, <2>1, OutgoType DEF Outgo, Essential
  <2>3. w # 0 => Round2(10 * x, w) >= m
    <3>1. x \in Nat /\ y \in Nat /\ m \in Nat /\ w \in Nat /\ x <= x /\ w <= y
      BY <1>4, <1>5
    <3>. HIDE DEF x, y, m, w
    <3>. QED BY <1>6, <3>1, CoverageKept
  <2>4. Coverage(less.facts, less.debts) = IF w = 0 THEN Undeclared ELSE Round2(10 * x, w)
    <3>1. Known(x) /\ Known(f.expenses)
      BY <1>3 DEF Essential
    <3>. QED BY <2>1, <2>2, <3>1 DEF Coverage
  <2>5. w # 0 => Round2(10 * x, w) \in Int
    <3>1. w # 0 => (10 * x) \div w \in Int
      BY <1>4
    <3>. QED BY <3>1 DEF Round2
  <2>6. Covers(less.facts, less.debts)
    <3>1. MissingFacts(less.facts) = {} /\ less.facts.months = m
      BY <1>3, <2>1
    <3>. HIDE DEF x, w, less
    <3>. QED BY <1>4, <2>3, <2>4, <2>5, <3>1 DEF Covers, Known
  <2>. HIDE DEF less
  <2>. QED BY <1>2, <2>1, <2>6, PermittedMeans
<1>. QED BY <1>2, <1>3, <1>5, <1>7, <1>8, <1>9

\* A whole tenth of a percent above a rate that is one: what was rounded is above it too, and otherwise at most half a step above.
LEMMA HalfStep ==
  ASSUME NEW n \in Int, NEW r \in Int, r % 10 = 0
  PROVE  LET up == 10 * ((n + 5) \div 10) IN up \in Int /\ (up > r => n > r) /\ (up <= r => n <= r + 5)
<1>. DEFINE k == r \div 10
            j == (n + 5) \div 10
<1>1. k \in Int /\ r = 10 * k
  OBVIOUS
<1>2. j \in Int /\ 10 * j <= n + 5 /\ 10 * j >= n - 4
  OBVIOUS
<1>. HIDE DEF k, j
<1>3. 10 * j \in Int /\ (10 * j > r => n > r) /\ (10 * j <= r => n <= r + 5)
  BY <1>1, <1>2
<1>. QED BY <1>3 DEF j

\* Rates are whole tenths of a percent between 0 and 100 %.
LEMMA Rates ==
  \A s \in {"base", "high"} : s \in DOMAIN ScenarioRate /\ ScenarioRate[s] \in Nat /\ ScenarioRate[s] <= 10000 /\ ScenarioRate[s] % 10 = 0
  BY LimitsAssumption

\* The verdict on a goal and the scenarios beside it.
LEMMA VerdictsFit == LimitInv => VerdictFits
<1>. SUFFICES ASSUME LimitInv, view.what = "goal", given # Nothing, given.status = "ready" PROVE VerdictFits
  BY DEF VerdictFits
<1>. DEFINE goal == view.goal
            need == view.goal.reach
            base == ScenarioRate["base"]
            high == ScenarioRate["high"]
            within(rate) == Known(need) /\ need <= rate + 5
<1>1. given = Illustration(goal)
  BY DEF LimitInv
<1>2. given.assessment = Assessment(goal) /\ given.funded = {s \in DOMAIN ScenarioRate : Funded(goal, ScenarioRate[s])}
  BY <1>1 DEF Illustration
<1>3. ("base" \in given.funded <=> Funded(goal, base)) /\ ("high" \in given.funded <=> Funded(goal, high))
  BY <1>2, Rates
<1>4. /\ base \in Int /\ 0 <= base /\ base <= 10000 /\ base % 10 = 0
      /\ high \in Int /\ 0 <= high /\ high <= 10000 /\ high % 10 = 0
  <2>1. /\ base \in Nat /\ base <= 10000 /\ base % 10 = 0
        /\ high \in Nat /\ high <= 10000 /\ high % 10 = 0
    BY Rates
  <2>. HIDE DEF base, high
  <2>. QED BY <2>1
<1>5. Declared(view) /\ Undeclared \notin Int
  BY LimitsAssumption DEF LimitInv
<1>6. \A n \in Int : Known(n)
  BY <1>5 DEF Known
<1>. DEFINE verdict == Assessment(goal)
            atBase == Funded(goal, base)
            atHigh == Funded(goal, high)
            fits == /\ verdict = "reachable_under_base" => atBase \/ within(base)
                    /\ verdict = "needs_higher_return_or_contribution" => ~ atBase /\ (atHigh \/ within(high))
                    /\ verdict = "target_needs_revision" => ~ atHigh
<1>7. ASSUME ~ Known(need) PROVE fits
  <2>1. ~ atBase /\ ~ atHigh /\ ~ Funded(goal, 0)
    BY <1>7 DEF Funded
  <2>2. verdict = "target_needs_revision"
    <3>1. RequiredReturn(goal) = Undeclared
      BY <1>7, <2>1 DEF RequiredReturn, Funded
    <3>. QED BY <3>1 DEF Assessment, Known
  <2>. QED BY <2>1, <2>2
<1>8. ASSUME Known(need) PROVE fits
  <2>. DEFINE months == goal.months <= 0
              up == 10 * ((need + 5) \div 10)
              none == ~ (0 >= need) /\ (months \/ ~ (10000 >= need))
              needed == IF 0 >= need THEN 0 ELSE up
  <2>1. need \in Int /\ (months => need <= 0)
    BY <1>5, <1>8 DEF Declared, Known
  <2>2. /\ needed \in Int
        /\ none \/ needed > high => need > high
        /\ ~ none /\ needed <= high => need <= high + 5
        /\ ~ none /\ needed > base => need > base
        /\ ~ none /\ needed <= base => need <= base + 5
    <3>. HIDE DEF need, base, high, months
    <3>1. up \in Int /\ (up > high => need > high) /\ (up <= high => need <= high + 5)
      BY <1>4, <2>1, HalfStep
    <3>2. (up > base => need > base) /\ (up <= base => need <= base + 5)
      BY <1>4, <2>1, HalfStep
    <3>. HIDE DEF up
    <3>. QED BY <1>4, <2>1, <3>1, <3>2
  <2>3. \A r \in Int : Funded(goal, r) <=> r >= need
    BY <1>8 DEF Funded
  <2>4. RequiredReturn(goal) = IF none THEN Undeclared ELSE needed
    <3>1. (Funded(goal, 0) <=> 0 >= need) /\ (Funded(goal, 10000) <=> 10000 >= need)
      BY <2>3
    <3>. QED BY <3>1 DEF RequiredReturn
  <2>5. verdict = IF none \/ needed > high THEN "target_needs_revision"
                  ELSE IF needed > base THEN "needs_higher_return_or_contribution" ELSE "reachable_under_base"
    <3>1. Known(needed) /\ ~ Known(Undeclared)
      BY <1>6, <2>2 DEF Known
    <3>. HIDE DEF none, needed
    <3>. QED BY <2>4, <3>1 DEF Assessment
  <2>6. (atBase <=> base >= need) /\ (atHigh <=> high >= need)
    BY <1>4, <2>3
  <2>. HIDE DEF none, needed, need, base, high, verdict, atBase, atHigh, goal
  <2>. QED BY <1>4, <1>8, <2>1, <2>2, <2>5, <2>6
<1>9. fits
  <2>. HIDE DEF fits, need
  <2>. QED BY <1>7, <1>8
<1>. QED BY <1>2, <1>3, <1>9 DEF VerdictFits

\* One that begins or resumes never lowers what the streams of its kind add up to.
LEMMA StreamsAdd ==
  ASSUME NEW S, IsFiniteSet(S), NEW T, IsFiniteSet(T), S \subseteq T, NEW v, NEW w, DOMAIN v = S, DOMAIN w = T,
         \A x \in T : w[x] \in Nat, \A x \in S : v[x] = w[x]
  PROVE  SumOf(v) \in Nat /\ SumOf(w) \in Nat /\ SumOf(v) <= SumOf(w)
<1>1. SumOf(v) = Sum(v, S) /\ SumOf(w) = Sum(w, T)
  BY DEF SumOf, Sum
<1>2. SumOf(v) \in Nat /\ SumOf(w) \in Nat
  BY AmountsAdd
<1>3. Sum(v, S) <= Sum(w, T)
  <2>1. (\A x \in S : v[x] \in Int) /\ (\A x \in T : w[x] \in Int) /\ (\A x \in S : v[x] <= w[x]) /\ \A x \in T \ S : 0 <= w[x]
    OBVIOUS
  <2>. QED BY <2>1, SumMonotone
<1>. QED BY <1>1, <1>2, <1>3

\* A budget that is shown stays within the stated surplus, and a stream that begins never frees money.
LEMMA BudgetsHonest == LimitInv => BudgetHonest
<1>. SUFFICES ASSUME LimitInv, view.what = "budget", given # Nothing, given.status = "known" PROVE BudgetHonest
  BY DEF BudgetHonest
<1>1. given = Budget(view) /\ Declared(view)
  BY LimitsAssumption DEF LimitInv
<1>. DEFINE In == {x \in view.streams : Live(x) /\ x.inside}
            Top == {x \in view.streams : Live(x) /\ ~ x.inside}
            included == SumOf([c \in In |-> c.monthly])
            onTop == SumOf([c \in Top |-> c.monthly])
            stated == view.facts.stated
            computed == ComputedSurplus(view.facts, view.debts)
<1>2. Known(stated)
  BY <1>1 DEF Budget
<1>3. stated \in Nat
  BY <1>1, <1>2 DEF Declared, Amounts, Known
<1>4. given = [status |-> "known", excluded |-> {c \in view.streams : ~ Live(c)},
               remaining |-> Nonneg(stated - included), over |-> stated - included < 0,
               exceeds |-> IF Known(computed) THEN stated + onTop > computed ELSE Undeclared]
  BY <1>1, <1>2 DEF Budget
<1>5. IsFiniteSet(In) /\ IsFiniteSet(Top) /\ (\A c \in view.streams : c.monthly \in Nat)
  BY <1>1, FS_Subset DEF Declared
<1>6. included \in Nat /\ onTop \in Nat
  <2>. DEFINE v == [c \in In |-> c.monthly]
              w == [c \in Top |-> c.monthly]
  <2>1. DOMAIN v = In /\ DOMAIN w = Top /\ (\A x \in In : v[x] \in Nat) /\ (\A x \in Top : w[x] \in Nat)
    BY <1>5
  <2>. HIDE DEF v, w, In, Top
  <2>2. SumOf(v) \in Nat /\ SumOf(w) \in Nat
    BY <1>5, <2>1, AmountsAdd
  <2>. QED BY <2>2 DEF v, w
<1>7. given.remaining \in 0 .. stated /\ (given.over => given.remaining = 0)
  <2>1. given.remaining = Nonneg(stated - included) /\ (given.over => stated - included < 0)
    BY <1>4
  <2>. HIDE DEF included, stated
  <2>. QED BY <1>3, <1>6, <2>1 DEF Nonneg
<1>8. ASSUME NEW c \in given.excluded
      PROVE  LET running == Budget([view EXCEPT !.streams = (view.streams \ {c}) \cup {[c EXCEPT !.status = "active", !.source = "existing_user_reported", !.start = 0, !.end = Undeclared]}])
             IN  running.remaining <= given.remaining /\ (given.exceeds = TRUE => running.exceeds)
  <2>. DEFINE d == [c EXCEPT !.status = "active", !.source = "existing_user_reported", !.start = 0, !.end = Undeclared]
              v == [view EXCEPT !.streams = (view.streams \ {c}) \cup {d}]
              In2 == {x \in v.streams : Live(x) /\ x.inside}
              Top2 == {x \in v.streams : Live(x) /\ ~ x.inside}
              included2 == SumOf([x \in In2 |-> x.monthly])
              onTop2 == SumOf([x \in Top2 |-> x.monthly])
  <2>1. c \in view.streams /\ ~ Live(c)
    BY <1>4
  <2>2. d.monthly \in Nat
    BY <1>1, <2>1 DEF Declared
  <2>3. v.streams = (view.streams \ {c}) \cup {d} /\ v.facts = view.facts /\ v.debts = view.debts
    BY <1>1 DEF Declared
  <2>4. IsFiniteSet(v.streams)
    <3>1. IsFiniteSet(view.streams \ {c})
      BY <1>1, FS_Subset DEF Declared
    <3>. HIDE DEF d, v
    <3>. QED BY <2>3, <3>1, FS_AddElement
  <2>5. \A x \in v.streams : x.monthly \in Nat
    <3>. HIDE DEF d, v
    <3>. QED BY <1>5, <2>2, <2>3
  <2>6. In \subseteq In2 /\ Top \subseteq Top2
    <3>. HIDE DEF d, v
    <3>. QED BY <2>1, <2>3
  <2>7. IsFiniteSet(In2) /\ IsFiniteSet(Top2)
    <3>. HIDE DEF v
    <3>. QED BY <2>4, FS_Subset
  <2>8. included2 \in Nat /\ included <= included2
    <3>. DEFINE f == [x \in In |-> x.monthly]
                g == [x \in In2 |-> x.monthly]
    <3>1. DOMAIN f = In /\ DOMAIN g = In2 /\ (\A x \in In2 : g[x] \in Nat) /\ \A x \in In : f[x] = g[x]
      <4>. HIDE DEF v
      <4>. QED BY <2>5, <2>6
    <3>. HIDE DEF f, g, In, In2
    <3>2. SumOf(g) \in Nat /\ SumOf(f) <= SumOf(g)
      BY <1>5, <2>6, <2>7, <3>1, StreamsAdd
    <3>. QED BY <3>2 DEF f, g
  <2>9. onTop2 \in Nat /\ onTop <= onTop2
    <3>. DEFINE f == [x \in Top |-> x.monthly]
                g == [x \in Top2 |-> x.monthly]
    <3>1. DOMAIN f = Top /\ DOMAIN g = Top2 /\ (\A x \in Top2 : g[x] \in Nat) /\ \A x \in Top : f[x] = g[x]
      <4>. HIDE DEF v
      <4>. QED BY <2>5, <2>6
    <3>. HIDE DEF f, g, Top, Top2
    <3>2. SumOf(g) \in Nat /\ SumOf(f) <= SumOf(g)
      BY <1>5, <2>6, <2>7, <3>1, StreamsAdd
    <3>. QED BY <3>2 DEF f, g
  <2>10. Budget(v).remaining = Nonneg(stated - included2) /\ Budget(v).exceeds = IF Known(computed) THEN stated + onTop2 > computed ELSE Undeclared
    <3>. HIDE DEF v
    <3>. QED BY <1>2, <2>3 DEF Budget
  <2>11. given.remaining = Nonneg(stated - included) /\ given.exceeds = IF Known(computed) THEN stated + onTop > computed ELSE Undeclared
    BY <1>4
  <2>12. Known(computed) => computed \in Int
    <3>1. Known(view.facts.expenses) => Outgo(view.facts, view.debts) \in Int
      BY <1>1, OutgoType
    <3>2. Known(view.facts.income) => view.facts.income \in Int
      BY <1>1 DEF Declared, Amounts, Known, Essential
    <3>. QED BY <3>1, <3>2 DEF ComputedSurplus, Known
  <2>. HIDE DEF included, included2, onTop, onTop2, stated, computed, v
  <2>13. Budget(v).remaining <= given.remaining
    BY <1>3, <1>6, <2>8, <2>10, <2>11 DEF Nonneg
  <2>14. given.exceeds = TRUE => Budget(v).exceeds
    <3>1. CASE Known(computed)
      <4>1. given.exceeds = TRUE => stated + onTop > computed
        BY <2>11, <3>1
      <4>2. stated + onTop > computed => stated + onTop2 > computed
        BY <1>3, <1>6, <2>9, <2>12, <3>1
      <4>3. stated + onTop2 > computed => Budget(v).exceeds
        BY <2>10, <3>1
      <4>. QED BY <4>1, <4>2, <4>3
    <3>2. CASE ~ Known(computed)
      BY <2>10, <2>11, <3>2
    <3>. QED BY <3>1, <3>2
  <2>. QED BY <2>13, <2>14 DEF v
<1>. QED BY <1>7, <1>8 DEF BudgetHonest

\* Whatever the owner declares: a permission is earned, a budget is not exceeded, and a verdict fits its scenario
\* (personal/constraints.py, goals/projection.py).
THEOREM LimitsAreSound == LimitSpec => []LimitsSound
<1>1. LimitInv => LimitsSound
  BY PermissionsEarned, BudgetsHonest, VerdictsFit DEF LimitsSound
<1>. QED BY <1>1, LimitInvariance, PTL

-----------------------------------------------------------------------------
(* What became of what was said: the calendar of sessions *)

\* A set of natural numbers that is bounded and not empty has a least one.
LEMMA Least ==
  ASSUME NEW n \in Nat, NEW S \in SUBSET (0 .. n), S # {}
  PROVE  \E x \in S : \A y \in S : x <= y
<1>. DEFINE T == {m \in 0 .. n : n - m \in S}
<1>1. T \in SUBSET (0 .. n) /\ T # {}
  <2>1. PICK y \in S : TRUE
    OBVIOUS
  <2>2. n - y \in 0 .. n /\ n - (n - y) = y
    OBVIOUS
  <2>. QED BY <2>1, <2>2
<1>2. PICK z \in T : \A y \in T : y <= z
  <2>. HIDE DEF T
  <2>. QED BY <1>1, Greatest
<1>3. n - z \in S
  BY <1>2
<1>4. \A y \in S : n - z <= y
  <2>. SUFFICES ASSUME NEW y \in S PROVE n - z <= y
    OBVIOUS
  <2>1. n - y \in 0 .. n /\ n - (n - y) = y
    OBVIOUS
  <2>2. n - y \in T
    BY <2>1
  <2>3. n - y <= z
    BY <1>2, <2>2
  <2>. QED BY <1>2, <2>3
<1>. QED BY <1>3, <1>4

LEMMA MinIs ==
  ASSUME NEW n \in Nat, NEW S \in SUBSET (0 .. n), S # {}
  PROVE  Min(S) \in S /\ \A y \in S : Min(S) <= y
<1>1. PICK x \in S : \A y \in S : x <= y
  BY Least
<1>. QED BY <1>1 DEF Min

\* In a set of days with more than h members there is one with exactly h before it.
LEMMA DayOfRank ==
  ASSUME NEW n \in Nat, NEW S \in SUBSET (0 .. n), NEW h \in Nat, Cardinality(S) > h
  PROVE  \E d \in S : Cardinality({e \in S : e < d}) = h
<1>. DEFINE F == {T \in SUBSET S : Cardinality(T) > h => \E d \in T : Cardinality({e \in T : e < d}) = h}
<1>1. IsFiniteSet(S)
  <2>1. IsFiniteSet(0 .. n)
    BY FS_Interval
  <2>. QED BY <2>1, FS_Subset
<1>2. ASSUME NEW T \in SUBSET S, \A U \in SUBSET T : U # T => U \in F PROVE T \in F
  <2>. SUFFICES ASSUME Cardinality(T) > h PROVE \E d \in T : Cardinality({e \in T : e < d}) = h
    OBVIOUS
  <2>1. IsFiniteSet(T) /\ Cardinality(T) \in Nat
    BY <1>1, FS_Subset, FS_CardinalityType
  <2>2. T # {}
    BY <2>1, FS_EmptySet
  <2>3. PICK x \in T : \A y \in T : y <= x
    BY <2>2, Greatest
  <2>. DEFINE U == T \ {x}
  <2>4. Cardinality(U) = Cardinality(T) - 1
    BY <2>1, <2>3, FS_RemoveElement
  <2>5. CASE Cardinality(T) = h + 1
    <3>1. T \in SUBSET Nat
      OBVIOUS
    <3>1a. {e \in T : e < x} = U
      <4>1. ASSUME NEW e \in T PROVE e < x <=> e # x
        BY <2>3, <3>1
      <4>. QED BY <4>1
    <3>2. Cardinality(U) = h
      BY <2>4, <2>5
    <3>. HIDE DEF U
    <3>. QED BY <2>3, <3>1a, <3>2
  <2>6. CASE Cardinality(T) # h + 1
    <3>1. Cardinality(U) > h
      BY <2>1, <2>4, <2>6
    <3>2. U \in F
      BY <1>2, <2>3
    <3>3. PICK d \in U : Cardinality({e \in U : e < d}) = h
      BY <3>1, <3>2
    <3>4. {e \in U : e < d} = {e \in T : e < d}
      BY <2>3
    <3>. QED BY <3>3, <3>4
  <2>. QED BY <2>5, <2>6
<1>3. \A T \in SUBSET S : T \in F
  <2>. HIDE DEF F
  <2>. QED BY <1>1, <1>2, SubsetInduction
<1>. QED BY <1>3

\* The sessions after one day up to another, and how many they are.
Open(d, e) == (d + 1 .. e) \ Holidays
OpenDays(d, e) == Cardinality(Open(d, e))

LEMMA OpenDaysType ==
  ASSUME NEW d \in Int, NEW e \in Int
  PROVE  IsFiniteSet(Open(d, e)) /\ OpenDays(d, e) \in Nat /\ (d <= e => OpenDays(d, e) <= e - d) /\ (e <= d => OpenDays(d, e) = 0)
<1>1. IsFiniteSet(d + 1 .. e) /\ Cardinality(d + 1 .. e) = IF d + 1 > e THEN 0 ELSE e - (d + 1) + 1
  BY FS_Interval
<1>2. IsFiniteSet(Open(d, e)) /\ Cardinality(Open(d, e)) <= Cardinality(d + 1 .. e)
  <2>1. Open(d, e) \in SUBSET (d + 1 .. e)
    BY DEF Open
  <2>. QED BY <1>1, <2>1, FS_Subset
<1>3. Cardinality(Open(d, e)) \in Nat
  BY <1>2, FS_CardinalityType
<1>. QED BY <1>1, <1>2, <1>3 DEF OpenDays

\* The sessions of a span are those of its two parts.
LEMMA OpenDaysSplit ==
  ASSUME NEW d \in Int, NEW e \in Int, NEW f \in Int, d <= e, e <= f
  PROVE  OpenDays(d, f) = OpenDays(d, e) + OpenDays(e, f)
<1>1. Open(d, f) = Open(d, e) \cup Open(e, f) /\ Open(d, e) \cap Open(e, f) = {}
  BY DEF Open
<1>2. IsFiniteSet(Open(d, e)) /\ IsFiniteSet(Open(e, f)) /\ OpenDays(d, e) \in Nat /\ OpenDays(e, f) \in Nat
  BY OpenDaysType
<1>3. Cardinality(Open(d, e) \cup Open(e, f)) = Cardinality(Open(d, e)) + Cardinality(Open(e, f)) - Cardinality(Open(d, e) \cap Open(e, f))
  BY <1>2, FS_Union
<1>4. Cardinality(Open(d, e) \cap Open(e, f)) = 0
  BY <1>1, FS_EmptySet
<1>. QED BY <1>1, <1>2, <1>3, <1>4 DEF OpenDays

\* A span that ends with a session has one.
LEMMA OpenDaysLast ==
  ASSUME NEW d \in Int, NEW e \in Int, d < e, e \notin Holidays
  PROVE  OpenDays(d, e) = OpenDays(d, e - 1) + 1
<1>1. OpenDays(d, e) = OpenDays(d, e - 1) + OpenDays(e - 1, e)
  BY OpenDaysSplit
<1>2. Open(e - 1, e) = {e}
  BY DEF Open
<1>3. OpenDays(e - 1, e) = 1
  BY <1>2, FS_Singleton DEF OpenDays
<1>. QED BY <1>1, <1>3

LEMMA OpenDaysHoliday ==
  ASSUME NEW d \in Int, NEW e \in Int, d < e, e \in Holidays
  PROVE  OpenDays(d, e) = OpenDays(d, e - 1)
<1>1. Open(d, e) = Open(d, e - 1)
  BY DEF Open
<1>. QED BY <1>1 DEF OpenDays

\* Some days on there is the n-th session.
LEMMA SessionExists ==
  ASSUME NEW d \in Int, NEW n \in Nat \ {0}
  PROVE  \E e \in d + n .. d + n + Cardinality(Holidays) : e \notin Holidays /\ OpenDays(d, e) = n
<1>. DEFINE h == Cardinality(Holidays)
            K == {k \in 0 .. n + h : OpenDays(d, d + k) >= n}
<1>1. IsFiniteSet(Holidays) /\ h \in Nat
  BY OutcomeAssumption, FS_CardinalityType
<1>2. n + h \in K
  <2>. DEFINE I == d + 1 .. d + (n + h)
  <2>1. IsFiniteSet(I) /\ Cardinality(I) = n + h
    <3>. HIDE DEF h
    <3>. QED BY <1>1, FS_Interval
  <2>2. IsFiniteSet(I \cap Holidays) /\ Cardinality(I \cap Holidays) <= h /\ Cardinality(I \cap Holidays) \in Nat
    BY <1>1, FS_Intersection, FS_CardinalityType
  <2>3. Cardinality(I \ Holidays) = Cardinality(I) - Cardinality(I \cap Holidays)
    BY <2>1, FS_Difference
  <2>4. OpenDays(d, d + (n + h)) >= n
    <3>. HIDE DEF I, h
    <3>. QED BY <1>1, <2>1, <2>2, <2>3 DEF OpenDays, Open, I
  <2>. HIDE DEF h
  <2>. QED BY <1>1, <2>4
<1>. HIDE DEF h
<1>3. n + h \in Nat /\ K \in SUBSET (0 .. n + h)
  BY <1>1
<1>4. PICK k \in K : \A j \in K : k <= j
  BY <1>2, <1>3, Least
<1>5. k \in Nat /\ k <= n + h /\ OpenDays(d, d + k) >= n /\ OpenDays(d, d + k) \in Nat /\ OpenDays(d, d + k) <= k
  <2>1. k \in Nat /\ k <= n + h /\ OpenDays(d, d + k) >= n
    BY <1>1, <1>4
  <2>2. d + k \in Int
    BY <2>1
  <2>3. d <= d + k /\ (d + k) - d = k
    BY <2>1
  <2>. DEFINE x == d + k
  <2>4. OpenDays(d, x) \in Nat /\ OpenDays(d, x) <= x - d
    <3>. HIDE DEF x
    <3>1. x \in Int /\ d <= x
      BY <2>2, <2>3 DEF x
    <3>. QED BY <3>1, OpenDaysType
  <2>. QED BY <2>1, <2>3, <2>4
<1>6. k >= n /\ k # 0
  BY <1>5
<1>7. OpenDays(d, d + (k - 1)) < n /\ OpenDays(d, d + (k - 1)) \in Nat
  <2>1. k - 1 \in 0 .. n + h /\ k - 1 \notin K
    BY <1>1, <1>4, <1>5, <1>6
  <2>2. OpenDays(d, d + (k - 1)) \in Nat
    <3>1. d + (k - 1) \in Int
      BY <1>5
    <3>. QED BY <3>1, OpenDaysType
  <2>. QED BY <2>1, <2>2
<1>. DEFINE e == d + k
<1>8. e \in Int /\ d < e /\ e - 1 = d + (k - 1)
  BY <1>5, <1>6
<1>. HIDE DEF e
<1>9. e \notin Holidays
  BY <1>5, <1>7, <1>8, OpenDaysHoliday DEF e
<1>10. OpenDays(d, e) = n
  <2>1. OpenDays(d, e) = OpenDays(d, e - 1) + 1
    BY <1>8, <1>9, OpenDaysLast
  <2>. QED BY <1>5, <1>7, <1>8, <2>1 DEF e
<1>11. e \in d + n .. d + n + h
  BY <1>1, <1>5, <1>6 DEF e
<1>. QED BY <1>9, <1>10, <1>11 DEF h

\* add_sessions: the n-th session from a day on.
LEMMA AddSessionsIs ==
  ASSUME NEW d \in Nat, NEW n \in Nat
  PROVE  /\ AddSessions(d, n) \in Nat /\ AddSessions(d, n) >= d + n
         /\ n = 0 => AddSessions(d, n) = d
         /\ n # 0 => AddSessions(d, n) \notin Holidays /\ OpenDays(d, AddSessions(d, n)) = n
<1>1. CASE n = 0
  BY <1>1 DEF AddSessions
<1>2. CASE n # 0
  <2>1. \E e \in d + n .. d + n + Cardinality(Holidays) : e \notin Holidays /\ OpenDays(d, e) = n
    <3>1. d \in Int /\ n \in Nat \ {0}
      BY <1>2
    <3>. QED BY <3>1, SessionExists
  <2>2. AddSessions(d, n) = CHOOSE e \in d + n .. d + n + Cardinality(Holidays) : e \notin Holidays /\ OpenDays(d, e) = n
    BY <1>2 DEF AddSessions, OpenDays, Open
  <2>3. AddSessions(d, n) \in d + n .. d + n + Cardinality(Holidays) /\ AddSessions(d, n) \notin Holidays /\ OpenDays(d, AddSessions(d, n)) = n
    BY <2>1, <2>2
  <2>4. Cardinality(Holidays) \in Nat
    BY OutcomeAssumption, FS_CardinalityType
  <2>. QED BY <1>2, <2>3, <2>4
<1>. QED BY <1>1, <1>2

\* There is one session with so many sessions up to it.
LEMMA SessionUnique ==
  ASSUME NEW d \in Nat, NEW e \in Nat, NEW f \in Nat, d < e, d < f, e \notin Holidays, f \notin Holidays, OpenDays(d, e) = OpenDays(d, f)
  PROVE  e = f
<1>1. ASSUME NEW a \in Nat, NEW b \in Nat, d < a, a < b, b \notin Holidays, OpenDays(d, a) = OpenDays(d, b) PROVE FALSE
  <2>1. OpenDays(d, b) = OpenDays(d, a) + OpenDays(a, b)
    BY <1>1, OpenDaysSplit
  <2>2. OpenDays(a, b) = OpenDays(a, b - 1) + 1
    BY <1>1, OpenDaysLast
  <2>3. a \in Int /\ d \in Int /\ b - 1 \in Int
    OBVIOUS
  <2>3a. OpenDays(a, b - 1) \in Nat
    BY <2>3, OpenDaysType
  <2>3b. OpenDays(d, a) \in Nat
    BY <2>3, OpenDaysType
  <2>. QED BY <1>1, <2>1, <2>2, <2>3a, <2>3b
<1>. QED BY <1>1

\* From a later day the n-th session is not earlier.
LEMMA AddSessionsMonotone ==
  ASSUME NEW d \in Nat, NEW e \in Nat, d <= e, NEW n \in Nat
  PROVE  AddSessions(d, n) <= AddSessions(e, n)
<1>. DEFINE a == AddSessions(d, n)
            b == AddSessions(e, n)
<1>1. /\ a \in Nat /\ a >= d + n /\ (n = 0 => a = d) /\ (n # 0 => a \notin Holidays /\ OpenDays(d, a) = n)
      /\ b \in Nat /\ b >= e + n /\ (n = 0 => b = e) /\ (n # 0 => b \notin Holidays /\ OpenDays(e, b) = n)
  BY AddSessionsIs
<1>. HIDE DEF a, b
<1>2. ASSUME n # 0, b < a PROVE FALSE
  <2>1. OpenDays(d, a) = OpenDays(d, e) + OpenDays(e, a)
    BY <1>1, <1>2, OpenDaysSplit
  <2>2. OpenDays(e, a) = OpenDays(e, b) + OpenDays(b, a)
    BY <1>1, <1>2, OpenDaysSplit
  <2>3. OpenDays(b, a) = OpenDays(b, a - 1) + 1
    BY <1>1, <1>2, OpenDaysLast
  <2>4. a - 1 \in Int /\ b \in Int
    BY <1>1
  <2>5. OpenDays(b, a - 1) \in Nat
    BY <2>4, OpenDaysType
  <2>6. OpenDays(d, e) \in Nat
    BY OpenDaysType
  <2>. QED BY <1>1, <1>2, <2>1, <2>2, <2>3, <2>5, <2>6
<1>3. a <= b
  BY <1>1, <1>2
<1>. QED BY <1>3 DEF a, b

\* Sessions can be added in two parts, in either order.
LEMMA AddSessionsTwice ==
  ASSUME NEW d \in Nat, NEW m \in Nat, NEW n \in Nat
  PROVE  AddSessions(AddSessions(d, m), n) = AddSessions(AddSessions(d, n), m)
<1>1. ASSUME NEW i \in Nat, NEW j \in Nat
      PROVE  AddSessions(AddSessions(d, i), j) = AddSessions(d, i + j)
  <2>. DEFINE a == AddSessions(d, i)
              b == AddSessions(a, j)
              c == AddSessions(d, i + j)
  <2>1. a \in Nat /\ a >= d + i /\ (i = 0 => a = d) /\ (i # 0 => a \notin Holidays /\ OpenDays(d, a) = i)
    BY AddSessionsIs
  <2>2. b \in Nat /\ b >= a + j /\ (j = 0 => b = a) /\ (j # 0 => b \notin Holidays /\ OpenDays(a, b) = j)
    <3>. HIDE DEF a
    <3>. QED BY <2>1, AddSessionsIs
  <2>3. c \in Nat /\ c >= d + (i + j) /\ (i + j # 0 => c \notin Holidays /\ OpenDays(d, c) = i + j)
    <3>1. i + j \in Nat
      OBVIOUS
    <3>. QED BY <3>1, AddSessionsIs
  <2>4. CASE j = 0
    <3>1. i + j = i
      BY <2>4
    <3>. QED BY <2>2, <2>4, <3>1
  <2>5. CASE i = 0
    <3>1. i + j = j /\ a = d
      BY <2>1, <2>5
    <3>. QED BY <3>1
  <2>6. CASE i # 0 /\ j # 0
    <3>. HIDE DEF a, b, c
    <3>1. OpenDays(d, b) = OpenDays(d, a) + OpenDays(a, b)
      BY <2>1, <2>2, OpenDaysSplit
    <3>2. OpenDays(d, b) = OpenDays(d, c)
      BY <2>1, <2>2, <2>3, <2>6, <3>1
    <3>3. b = c
      BY <2>1, <2>2, <2>3, <2>6, <3>2, SessionUnique
    <3>. QED BY <3>3 DEF b, c, a
  <2>. QED BY <2>4, <2>5, <2>6
<1>2. m + n = n + m
  OBVIOUS
<1>3. AddSessions(AddSessions(d, m), n) = AddSessions(d, m + n)
  BY <1>1
<1>4. AddSessions(AddSessions(d, n), m) = AddSessions(d, n + m)
  BY <1>1
<1>. QED BY <1>2, <1>3, <1>4

-----------------------------------------------------------------------------
(* What became of what was said: the dates that count *)

\* A choice of dates out of ds, from the first on, each a horizon after those chosen before.
Greedy(K, ds) == \A d \in ds : d \in K <=> \A e \in K : e < d => AddSessions(e, Horizon) <= d

LEMMA GreedyExists ==
  ASSUME NEW n \in Nat, NEW ds \in SUBSET (0 .. n)
  PROVE  \E K \in SUBSET ds : Greedy(K, ds)
<1>. DEFINE F == {T \in SUBSET ds : \E K \in SUBSET T : Greedy(K, T)}
<1>1. IsFiniteSet(ds)
  <2>1. IsFiniteSet(0 .. n)
    BY FS_Interval
  <2>. QED BY <2>1, FS_Subset
<1>2. ASSUME NEW T \in SUBSET ds, \A U \in SUBSET T : U # T => U \in F PROVE T \in F
  <2>1. CASE T = {}
    BY <2>1 DEF Greedy
  <2>2. CASE T # {}
    <3>1. PICK x \in T : \A y \in T : y <= x
      BY <2>2, Greatest
    <3>2. T \ {x} \in F
      BY <1>2, <3>1
    <3>3. PICK K \in SUBSET (T \ {x}) : Greedy(K, T \ {x})
      BY <3>2
    <3>. DEFINE L == IF \A e \in K : AddSessions(e, Horizon) <= x THEN K \cup {x} ELSE K
    <3>4. \A e \in K : e < x /\ e \in Nat
      BY <3>1
    <3>5. ASSUME NEW d \in T \ {x} PROVE d < x /\ d \in Nat
      BY <3>1
    <3>6. Greedy(L, T)
      <4>. SUFFICES ASSUME NEW d \in T PROVE d \in L <=> \A e \in L : e < d => AddSessions(e, Horizon) <= d
        BY DEF Greedy
      <4>0. x \in Nat
        BY <3>1
      <4>1. CASE d = x
        <5>1. d \in L <=> \A e \in K : AddSessions(e, Horizon) <= x
          BY <4>1
        <5>2. \A e \in L : e < d <=> e \in K
          BY <3>4, <4>0, <4>1
        <5>3. \A e \in K : e \in L
          OBVIOUS
        <5>. HIDE DEF L
        <5>. QED BY <4>1, <5>1, <5>2, <5>3
      <4>2. CASE d # x
        <5>1. d < x /\ d \in Nat /\ ~ x < d
          BY <3>5, <4>0, <4>2
        <5>2. d \in L <=> d \in K
          BY <4>2
        <5>3. \A e \in L : e < d => e \in K
          BY <5>1
        <5>4. \A e \in K : e \in L
          OBVIOUS
        <5>5. d \in K <=> \A e \in K : e < d => AddSessions(e, Horizon) <= d
          BY <3>3, <4>2 DEF Greedy
        <5>. HIDE DEF L
        <5>. QED BY <5>2, <5>3, <5>4, <5>5
      <4>. QED BY <4>1, <4>2
    <3>7. L \in SUBSET T
      BY <3>1, <3>3
    <3>. HIDE DEF L
    <3>. QED BY <3>6, <3>7
  <2>. QED BY <2>1, <2>2
<1>3. \A T \in SUBSET ds : T \in F
  <2>. HIDE DEF F
  <2>. QED BY <1>1, <1>2, SubsetInduction
<1>. QED BY <1>3

\* The dates that are kept are such a choice.
LEMMA ThinDatesAre ==
  ASSUME NEW n \in Nat, NEW ds \in SUBSET (0 .. n)
  PROVE  ThinDates(ds) \in SUBSET ds /\ Greedy(ThinDates(ds), ds)
<1>. DEFINE Fits(k) == k = [d \in Nat |-> d \in ds /\ \A e \in ds : e < d /\ k[e] => AddSessions(e, Horizon) <= d]
            kept == CHOOSE k : Fits(k)
<1>1. ThinDates(ds) = {d \in ds : kept[d]}
  BY DEF ThinDates
<1>2. PICK K \in SUBSET ds : Greedy(K, ds)
  BY GreedyExists
<1>3. \E k : Fits(k)
  <2>. DEFINE f == [d \in Nat |-> d \in K]
              g == [d \in Nat |-> d \in ds /\ \A e \in ds : e < d /\ f[e] => AddSessions(e, Horizon) <= d]
  <2>1. ASSUME NEW d \in Nat PROVE d \in K <=> (d \in ds /\ \A e \in ds : e < d /\ f[e] => AddSessions(e, Horizon) <= d)
    <3>1. \A e \in ds : f[e] <=> e \in K
      <4>1. ds \subseteq Nat
        OBVIOUS
      <4>. QED BY <4>1
    <3>. HIDE DEF f
    <3>2. CASE d \in ds
      <4>1. d \in K <=> \A e \in K : e < d => AddSessions(e, Horizon) <= d
        BY <1>2, <3>2 DEF Greedy
      <4>2. \A e \in K : e \in ds
        BY <1>2
      <4>. QED BY <3>1, <3>2, <4>1, <4>2, Zenon
    <3>3. CASE d \notin ds
      BY <1>2, <3>3
    <3>. QED BY <3>2, <3>3
  <2>2. f = g
    <3>1. ASSUME NEW d \in Nat PROVE (d \in K) = (d \in ds /\ \A e \in ds : e < d /\ f[e] => AddSessions(e, Horizon) <= d)
      <4>. HIDE DEF f
      <4>1. CASE d \in K
        BY <2>1, <4>1
      <4>2. CASE d \notin K
        BY <2>1, <4>2
      <4>. QED BY <4>1, <4>2
    <3>. QED BY <3>1, Zenon
  <2>3. Fits(f)
    <3>. HIDE DEF f
    <3>. QED BY <2>2
  <2>. QED BY <2>3
<1>4. Fits(kept)
  <2>. HIDE DEF Fits
  <2>. QED BY <1>3, Zenon
<1>5. ASSUME NEW d \in ds PROVE kept[d] <=> \A e \in ds : e < d /\ kept[e] => AddSessions(e, Horizon) <= d
  <2>1. d \in Nat
    OBVIOUS
  <2>. HIDE DEF kept
  <2>2. kept[d] = (d \in ds /\ \A e \in ds : e < d /\ kept[e] => AddSessions(e, Horizon) <= d)
    BY <1>4, <2>1, Zenon
  <2>. QED BY <2>2, Zenon
<1>. HIDE DEF kept, Fits
<1>6. Greedy({d \in ds : kept[d]}, ds)
  BY <1>5, Zenon DEF Greedy
<1>. QED BY <1>1, <1>6

\* No other choice of dates that lie a horizon apart has more of them.
LEMMA GreedyIsBest ==
  ASSUME NEW n \in Nat, NEW ds \in SUBSET (0 .. n), NEW K \in SUBSET ds, Greedy(K, ds), NEW T \in SUBSET ds,
         \A d, e \in T : d < e => AddSessions(d, Horizon) <= e
  PROVE  Cardinality(T) <= Cardinality(K)
<1>. DEFINE Before(x, e) == e <= x /\ (e = x \/ x < AddSessions(e, Horizon))
            f == [x \in T |-> CHOOSE e \in K : Before(x, e)]
<1>1. IsFiniteSet(T) /\ IsFiniteSet(K) /\ Cardinality(T) \in Nat /\ Cardinality(K) \in Nat
  <2>1. IsFiniteSet(0 .. n)
    BY FS_Interval
  <2>. QED BY <2>1, FS_Subset, FS_CardinalityType
<1>2. \A x \in ds : x \in Nat /\ AddSessions(x, Horizon) \in Nat
  <2>1. Horizon \in Nat
    BY OutcomeAssumption
  <2>2. ds \subseteq Nat
    OBVIOUS
  <2>. QED BY <2>1, <2>2, AddSessionsIs
<1>3. ASSUME NEW x \in T PROVE \E e \in K : Before(x, e)
  <2>1. CASE x \in K
    <3>1. Before(x, x)
      BY <1>2
    <3>. QED BY <2>1, <3>1
  <2>2. CASE x \notin K
    <3>1. PICK e \in K : e < x /\ ~ AddSessions(e, Horizon) <= x
      BY <2>2 DEF Greedy
    <3>2. Before(x, e)
      BY <1>2, <3>1
    <3>. QED BY <3>2
  <2>. QED BY <2>1, <2>2
<1>4. \A x \in T : f[x] \in K /\ Before(x, f[x])
  <2>. HIDE DEF Before
  <2>. QED BY <1>3
<1>5. f \in [T -> K]
  BY <1>4
<1>6. ASSUME NEW x \in T, NEW y \in T, x # y, f[x] = f[y] PROVE FALSE
  <2>1. ASSUME NEW a \in T, NEW b \in T, a < b, f[a] = f[b] PROVE FALSE
    <3>. DEFINE e == f[a]
    <3>1. e \in K /\ Before(a, e) /\ Before(b, e)
      BY <1>4, <2>1
    <3>. HIDE DEF e, f
    <3>2. a \in Nat /\ b \in Nat /\ e \in Nat /\ AddSessions(e, Horizon) \in Nat /\ AddSessions(a, Horizon) \in Nat
      BY <1>2, <3>1
    <3>3. b < AddSessions(e, Horizon)
      BY <2>1, <3>1, <3>2
    <3>4. AddSessions(e, Horizon) <= AddSessions(a, Horizon)
      <4>1. Horizon \in Nat
        BY OutcomeAssumption
      <4>. QED BY <3>1, <3>2, <4>1, AddSessionsMonotone
    <3>5. AddSessions(a, Horizon) <= b
      BY <2>1
    <3>. QED BY <3>2, <3>3, <3>4, <3>5
  <2>. HIDE DEF f
  <2>. QED BY <1>2, <1>6, <2>1
<1>7. ~ Cardinality(K) < Cardinality(T)
  <2>. SUFFICES ASSUME Cardinality(K) < Cardinality(T) PROVE FALSE
    OBVIOUS
  <2>. HIDE DEF f
  <2>1. \E x, y \in T : x # y /\ f[x] = f[y]
    BY <1>1, <1>5, FS_PigeonHole
  <2>. QED BY <1>6, <2>1
<1>. QED BY <1>1, <1>7

-----------------------------------------------------------------------------
(* What became of what was said: what the tables, the runs and the studies know *)

HistoryFits ==
  /\ clock \in Nat \ {0} /\ refetches \in Nat /\ traded \in TradedDays
  /\ priced \in SUBSET (1 .. clock) /\ priced \in SUBSET traded
  /\ \A s \in logged : s.known \in Nat /\ s.asOf \in Nat /\ s.asOf <= s.known /\ s.known <= clock

\* A row is filed under a count that its closes were not older than; the closes it was made from are stored until the next fetch of
\* the whole history.
RowFits(o) ==
  /\ o.subject \in logged /\ o.version \in Nat /\ o.refetches \in Nat /\ o.basis \in Nat
  /\ 1 <= o.version /\ o.version <= o.refetches + 1
  /\ o.refetches <= o.basis /\ o.basis <= refetches
  /\ o.status = "scored" => /\ o.entry \in traded /\ o.subject.known < o.entry
                            /\ o.basis = refetches => /\ o.entry \in priced /\ o.exit \in priced
                                                      /\ Cardinality({d \in priced : o.entry < d /\ d <= o.exit}) >= Horizon

\* The rows of a subject are numbered 1, 2, 3, ... in the order of the counts they are filed under.
RowsNumbered ==
  \A o \in outcomes :
    /\ \A k \in 1 .. o.version : \E p \in outcomes : p.subject = o.subject /\ p.version = k
    /\ \A p \in outcomes : p.subject = o.subject => (p.version = o.version => p = o) /\ (p.version < o.version => p.refetches < o.refetches)

\* A run has seen all rows of a subject up to the newest it has seen.
RunKnows(r) ==
  /\ r.marketLast \in Int /\ r.marketLast <= clock /\ r.count \in Nat /\ r.count <= refetches
  /\ r.seen \in SUBSET outcomes
  /\ \A o \in r.seen : o.refetches <= r.count
  /\ \A o \in outcomes : \A p \in r.seen : o.subject = p.subject /\ o.version <= p.version => o \in r.seen

RunsKnow == DOMAIN scoring = Scorers /\ \A w \in Scorers : scoring[w] # AtRest => RunKnows(scoring[w])

JudgedSoFar == judged.upTo \in Int /\ judged.upTo <= clock /\ judged.count \in Nat /\ NothingDropped

\* The count of a marker is read first, so what was stored under it is the history of this count or of a later one.
StudyFits(s) ==
  /\ s.marker[1] = Cardinality(s.days) /\ s.marker[3] \in Nat /\ s.basis \in Nat
  /\ s.marker[3] <= s.basis /\ s.basis <= refetches
  /\ s.basis = refetches => s.days \in SUBSET priced

StudiesKnow ==
  /\ DOMAIN studying = Scorers
  /\ \A w \in Scorers : studying[w] # AtRest => studying[w].count \in Nat /\ studying[w].count <= refetches
  /\ \A s \in studies : StudyFits(s)

OutcomeInv == HistoryFits /\ (\A o \in outcomes : RowFits(o)) /\ RowsNumbered /\ RunsKnow /\ JudgedSoFar /\ StudiesKnow

LEMMA LastSessionIs ==
  ASSUME HistoryFits
  PROVE  LastSession(clock) \in 1 .. clock
<1>. DEFINE S == 1 .. clock \ Holidays
<1>1. clock \in Nat /\ S \in SUBSET (0 .. clock) /\ 1 \in S
  BY OutcomeAssumption DEF HistoryFits
<1>2. Max(S) \in S
  <2>. HIDE DEF S
  <2>. QED BY <1>1, MaxIs
<1>. QED BY <1>2 DEF LastSession

\* The source answers with days on which the security traded.
LEMMA AnswersAre ==
  ASSUME HistoryFits, NEW from, NEW got \in Answers(from)
  PROVE  got \in SUBSET (1 .. clock) /\ got \in SUBSET traded
<1>1. \A d \in traded : d \in Nat /\ d # 0
  BY OutcomeAssumption DEF HistoryFits
<1>2. LastSession(clock) \in 1 .. clock /\ clock \in Nat
  BY LastSessionIs DEF HistoryFits
<1>3. \A d \in got : d \in traded /\ d <= LastSession(clock)
  BY DEF Answers
<1>. QED BY <1>1, <1>2, <1>3

LEMMA NewestClose ==
  ASSUME HistoryFits, priced # {}
  PROVE  Max(priced) \in priced
<1>1. priced \in SUBSET (0 .. clock) /\ clock \in Nat
  BY DEF HistoryFits
<1>. QED BY <1>1, MaxIs

LEMMA PricedFinite ==
  ASSUME HistoryFits
  PROVE  IsFiniteSet(priced)
<1>1. IsFiniteSet(1 .. clock)
  BY FS_Interval DEF HistoryFits
<1>. QED BY <1>1, FS_Subset DEF HistoryFits

\* A complete horizon begins after the day its subject was known and has as many closes as it should.
LEMMA EntryAndExit ==
  ASSUME HistoryFits, NEW s \in logged, HorizonComplete(s)
  PROVE  /\ EntryDate(s) \in priced /\ ExitDate(s) \in priced /\ s.known < EntryDate(s)
         /\ Cardinality({d \in priced : EntryDate(s) < d /\ d <= ExitDate(s)}) >= Horizon
<1>. DEFINE A == After(s)
            m == EntryDate(s)
            x == ExitDate(s)
            L == {e \in A : e < x}
            D == {d \in priced : m < d /\ d <= x}
<1>1. clock \in Nat /\ A \in SUBSET (0 .. clock) /\ A \in SUBSET priced /\ Horizon \in Nat /\ Cardinality(A) > Horizon /\ s.known \in Nat
  <2>1. Horizon \in Nat
    BY OutcomeAssumption
  <2>2. clock \in Nat /\ s.known \in Nat /\ priced \in SUBSET (0 .. clock)
    BY DEF HistoryFits
  <2>3. A \in SUBSET priced
    BY DEF After
  <2>4. Cardinality(A) > Horizon
    BY DEF HorizonComplete
  <2>. QED BY <2>1, <2>2, <2>3, <2>4
<1>2. IsFiniteSet(priced) /\ IsFiniteSet(A)
  BY <1>1, PricedFinite, FS_Subset
<1>3. x \in A /\ Cardinality(L) = Horizon
  <2>1. \E d \in A : Cardinality({e \in A : e < d}) = Horizon
    <3>1. clock \in Nat /\ A \in SUBSET (0 .. clock) /\ Horizon \in Nat /\ Cardinality(A) > Horizon
      BY <1>1
    <3>. HIDE DEF A
    <3>. QED BY <3>1, DayOfRank, Zenon
  <2>. QED BY <2>1 DEF ExitDate
<1>4. m \in A /\ \A y \in A : m <= y
  <2>1. A # {}
    BY <1>1, FS_EmptySet
  <2>. HIDE DEF A
  <2>2. Min(A) \in A /\ \A y \in A : Min(A) <= y
    BY <1>1, <2>1, MinIs
  <2>. QED BY <2>2 DEF EntryDate, A
<1>5. \A d \in priced : d \in A <=> s.known < d
  BY DEF After
<1>6. s.known < m /\ m \in priced /\ x \in priced /\ m \in Nat /\ x \in Nat /\ m <= x
  <2>. HIDE DEF A, m, x
  <2>. QED BY <1>1, <1>3, <1>4, <1>5
<1>7. \A e \in A : e \in Nat
  BY <1>1
<1>8. Cardinality(D) >= Horizon
  <2>1. CASE Horizon = 0
    <3>1. D \in SUBSET priced
      OBVIOUS
    <3>2. Cardinality(D) \in Nat
      <4>. HIDE DEF D
      <4>. QED BY <1>2, <3>1, FS_Subset, FS_CardinalityType
    <3>. QED BY <2>1, <3>2
  <2>2. CASE Horizon # 0
    <3>. HIDE DEF A, m, x
    <3>1. L \in SUBSET A
      OBVIOUS
    <3>2. IsFiniteSet(L) /\ L # {}
      <4>. HIDE DEF L
      <4>. QED BY <1>2, <1>3, <2>2, <3>1, FS_Subset, FS_EmptySet
    <3>3. m \in L
      <4>1. PICK e \in L : TRUE
        BY <3>2
      <4>2. e \in A /\ e < x /\ e \in Nat /\ m <= e
        BY <1>4, <1>7, <4>1
      <4>. QED BY <1>4, <1>6, <4>2
    <3>4. IsFiniteSet(L \ {m}) /\ Cardinality(L \ {m}) = Horizon - 1
      <4>. HIDE DEF L
      <4>. QED BY <1>3, <3>2, <3>3, FS_RemoveElement
    <3>5. x \notin L \ {m}
      BY <1>6
    <3>6. D = (L \ {m}) \cup {x}
      <4>1. ASSUME NEW d \in priced, m < d, d <= x PROVE d \in (L \ {m}) \cup {x}
        <5>1. d \in Nat
          BY <1>1 DEF HistoryFits
        <5>2. d \in A /\ d # m
          BY <1>1, <1>5, <1>6, <4>1, <5>1
        <5>. QED BY <1>6, <4>1, <5>1, <5>2
      <4>2. ASSUME NEW d \in (L \ {m}) \cup {x} PROVE d \in D
        <5>1. CASE d = x
          <6>1. x # m
            BY <1>6, <3>3
          <6>. QED BY <1>6, <5>1, <6>1
        <5>2. CASE d # x
          <6>1. d \in A /\ d < x /\ d # m
            BY <5>2
          <6>2. m <= d /\ d \in Nat /\ d \in priced
            BY <1>1, <1>4, <1>7, <6>1
          <6>. QED BY <1>6, <6>1, <6>2
        <5>. QED BY <5>1, <5>2
      <4>. QED BY <4>1, <4>2
    <3>7. Cardinality((L \ {m}) \cup {x}) = Cardinality(L \ {m}) + 1
      <4>. DEFINE R == L \ {m}
      <4>1. IsFiniteSet(R) /\ x \notin R
        BY <3>4, <3>5
      <4>. HIDE DEF R
      <4>2. Cardinality(R \cup {x}) = Cardinality(R) + 1
        BY <4>1, FS_AddElement
      <4>. QED BY <4>2 DEF R
    <3>. HIDE DEF D, L
    <3>. QED BY <1>1, <3>4, <3>6, <3>7
  <2>. QED BY <2>1, <2>2
<1>. HIDE DEF A
<1>. QED BY <1>6, <1>8

\* The row a run files for a subject is the next one, when nothing clashes with it.
LEMMA JudgedRow ==
  ASSUME OutcomeInv, NEW r, RunKnows(r), NEW s \in logged, ~ Settled(s, r),
         \A o \in outcomes : ~ (o.subject = s /\ o.version = NextVersion(s, r))
  PROVE  /\ RowFits(OutcomeOf(s, r))
         /\ \A p \in outcomes : p.subject = s => p.version < NextVersion(s, r) /\ p.refetches < r.count
         /\ \A k \in 1 .. NextVersion(s, r) - 1 : \E p \in outcomes : p.subject = s /\ p.version = k
<1>. DEFINE V == {0} \cup {o.version : o \in OutcomesOf(r.seen, s)}
            m == Max(V)
            v == NextVersion(s, r)
<1>1. HistoryFits /\ r.count \in Nat /\ refetches \in Nat /\ r.count <= refetches /\ r.seen \in SUBSET outcomes
  BY DEF OutcomeInv, RunKnows, HistoryFits
<1>2. \A o \in outcomes : o.version \in Nat /\ o.refetches \in Nat /\ 1 <= o.version /\ o.version <= o.refetches + 1 /\ o.refetches <= refetches
  <2>. SUFFICES ASSUME NEW o \in outcomes
                PROVE  o.version \in Nat /\ o.refetches \in Nat /\ 1 <= o.version /\ o.version <= o.refetches + 1 /\ o.refetches <= refetches
    OBVIOUS
  <2>1. RowFits(o)
    BY DEF OutcomeInv
  <2>. QED BY <1>1, <2>1 DEF RowFits
<1>3. m \in V /\ \A y \in V : y <= m
  <2>1. V \in SUBSET (0 .. refetches + 1) /\ 0 \in V
    BY <1>1, <1>2 DEF OutcomesOf
  <2>2. refetches + 1 \in Nat
    BY <1>1
  <2>. HIDE DEF V
  <2>. QED BY <2>1, <2>2, MaxIs
<1>4. v = 1 + m /\ m \in Nat
  <2>1. v = 1 + m
    BY DEF NextVersion
  <2>2. V \in SUBSET Nat
    BY <1>1, <1>2 DEF OutcomesOf
  <2>. QED BY <1>3, <2>1, <2>2
<1>5. \A p \in r.seen : p.subject = s => p.version <= m
  BY <1>3 DEF OutcomesOf
<1>6. m # 0 => \E q \in r.seen : q.subject = s /\ q.version = m
  BY <1>3 DEF OutcomesOf
<1>. HIDE DEF V, m, v
<1>7. \A o \in outcomes : ~ (o.subject = s /\ o.version = v)
  BY DEF v
<1>8. ASSUME NEW p \in outcomes, p.subject = s PROVE p.version <= m
  <2>1. SUFFICES ASSUME ~ p.version <= m PROVE FALSE
    OBVIOUS
  <2>2. v \in 1 .. p.version
    BY <1>2, <1>4, <2>1
  <2>. QED BY <1>7, <1>8, <2>2 DEF OutcomeInv, RowsNumbered
<1>9. ASSUME NEW q \in r.seen, q.subject = s, q.version = m PROVE q.refetches < r.count
  <2>1. q \in Latest(r.seen)
    BY <1>5, <1>9 DEF Latest, OutcomesOf
  <2>2. q.refetches # r.count
    BY <1>9, <2>1 DEF Settled
  <2>3. q.refetches <= r.count
    BY DEF RunKnows
  <2>. QED BY <1>1, <1>2, <2>2, <2>3
<1>10. ASSUME NEW p \in outcomes, p.subject = s PROVE p.version < v /\ p.refetches < r.count
  <2>1. p.version <= m /\ p.version \in Nat /\ 1 <= p.version
    BY <1>2, <1>8, <1>10
  <2>2. PICK q \in r.seen : q.subject = s /\ q.version = m
    BY <1>4, <1>6, <2>1
  <2>3. q \in outcomes /\ q.refetches < r.count
    BY <1>1, <1>9, <2>2
  <2>4. CASE p.version = m
    <3>1. p = q
      BY <1>10, <2>2, <2>3, <2>4 DEF OutcomeInv, RowsNumbered
    <3>. QED BY <1>4, <2>1, <2>3, <2>4, <3>1
  <2>5. CASE p.version # m
    <3>1. p.version < q.version
      BY <1>4, <2>1, <2>2, <2>5
    <3>2. p.refetches < q.refetches
      BY <1>10, <2>2, <2>3, <3>1 DEF OutcomeInv, RowsNumbered
    <3>. QED BY <1>1, <1>2, <1>4, <2>1, <2>3, <3>2
  <2>. QED BY <2>4, <2>5
<1>11. v <= r.count + 1
  <2>1. CASE m = 0
    BY <1>1, <1>4, <2>1
  <2>2. CASE m # 0
    <3>1. PICK q \in r.seen : q.subject = s /\ q.version = m
      BY <1>6, <2>2
    <3>2. q \in outcomes /\ q.refetches < r.count
      BY <1>1, <1>9, <3>1
    <3>3. m <= q.refetches + 1 /\ q.refetches \in Nat
      BY <1>2, <3>1, <3>2
    <3>. QED BY <1>1, <1>4, <3>2, <3>3
  <2>. QED BY <2>1, <2>2
<1>12. ASSUME NEW k \in 1 .. v - 1 PROVE \E p \in outcomes : p.subject = s /\ p.version = k
  <2>1. m # 0 /\ k \in 1 .. m
    BY <1>4
  <2>2. PICK q \in r.seen : q.subject = s /\ q.version = m
    BY <1>6, <2>1
  <2>3. q \in outcomes
    BY <1>1
  <2>. QED BY <2>1, <2>2, <2>3 DEF OutcomeInv, RowsNumbered
<1>13. RowFits(OutcomeOf(s, r))
  <2>. DEFINE o == OutcomeOf(s, r)
  <2>1. o.subject = s /\ o.version = v /\ o.refetches = r.count /\ o.basis = refetches
    BY DEF OutcomeOf, Row, v
  <2>2. o.status = "scored" => HorizonComplete(s) /\ o.entry = EntryDate(s) /\ o.exit = ExitDate(s)
    BY DEF OutcomeOf, Row
  <2>3. ASSUME o.status = "scored" PROVE /\ o.entry \in priced /\ o.exit \in priced /\ s.known < o.entry
                                         /\ Cardinality({d \in priced : o.entry < d /\ d <= o.exit}) >= Horizon
    <3>. HIDE DEF o
    <3>1. HorizonComplete(s) /\ o.entry = EntryDate(s) /\ o.exit = ExitDate(s)
      BY <2>2, <2>3
    <3>. QED BY <1>1, <3>1, EntryAndExit
  <2>4. priced \in SUBSET traded
    BY <1>1 DEF HistoryFits
  <2>. HIDE DEF o
  <2>5. RowFits(o)
    BY <1>1, <1>4, <1>11, <2>1, <2>3, <2>4 DEF RowFits
  <2>. QED BY <2>5 DEF o
<1>. QED BY <1>10, <1>12, <1>13 DEF v

LEMMA OutcomeInitial == ASSUME OutcomeInit PROVE OutcomeInv
<1>1. HistoryFits
  BY DEF OutcomeInit, HistoryFits
<1>2. RunsKnow /\ RowsNumbered /\ \A o \in outcomes : RowFits(o)
  BY DEF OutcomeInit, RunsKnow, RowsNumbered
<1>3. JudgedSoFar
  BY DEF OutcomeInit, JudgedSoFar, NothingDropped
<1>4. StudiesKnow
  BY DEF OutcomeInit, StudiesKnow
<1>. QED BY <1>1, <1>2, <1>3, <1>4 DEF OutcomeInv

\* The promises about rows, runs and studies hold on while the closes change, when rows of the present history keep their prices.
LEMMA ClosesMove ==
  ASSUME OutcomeInv, HistoryFits', clock' >= clock, refetches' \in Nat, refetches' >= refetches, traded' = traded, UNCHANGED <<scoreVars, studyVars>>,
         refetches' = refetches => priced \in SUBSET priced'
  PROVE  OutcomeInv'
<1>1. clock \in Nat /\ clock' \in Nat /\ refetches \in Nat
  BY DEF OutcomeInv, HistoryFits
<1>2. ASSUME NEW o \in outcomes PROVE RowFits(o)'
  <2>1. RowFits(o)
    BY DEF OutcomeInv
  <2>2. /\ (o.subject \in logged)' /\ o.version \in Nat /\ o.refetches \in Nat /\ o.basis \in Nat
        /\ 1 <= o.version /\ o.version <= o.refetches + 1 /\ o.refetches <= o.basis /\ o.basis <= refetches'
    BY <1>1, <2>1 DEF RowFits, scoreVars
  <2>3. ASSUME o.status = "scored" PROVE o.entry \in traded' /\ o.subject.known < o.entry
    BY <2>1, <2>3 DEF RowFits
  <2>4. ASSUME o.status = "scored", o.basis = refetches'
        PROVE  o.entry \in priced' /\ o.exit \in priced' /\ Cardinality({d \in priced' : o.entry < d /\ d <= o.exit}) >= Horizon
    <3>. DEFINE D == {d \in priced : o.entry < d /\ d <= o.exit}
                E == {d \in priced' : o.entry < d /\ d <= o.exit}
    <3>1. refetches' = refetches /\ o.basis = refetches
      BY <1>1, <2>1, <2>4 DEF RowFits
    <3>2. o.entry \in priced /\ o.exit \in priced /\ Cardinality(D) >= Horizon
      BY <2>1, <2>4, <3>1 DEF RowFits
    <3>3. D \in SUBSET E /\ E \in SUBSET priced'
      BY <3>1
    <3>4. IsFiniteSet(priced')
      <4>1. IsFiniteSet(1 .. clock')
        BY <1>1, FS_Interval
      <4>2. priced' \in SUBSET (1 .. clock')
        BY DEF HistoryFits
      <4>. QED BY <4>1, <4>2, FS_Subset
    <3>. HIDE DEF D, E
    <3>5. IsFiniteSet(E) /\ Cardinality(D) <= Cardinality(E) /\ Cardinality(D) \in Nat /\ Cardinality(E) \in Nat
      BY <3>3, <3>4, FS_Subset, FS_CardinalityType
    <3>6. Horizon \in Nat
      BY OutcomeAssumption
    <3>7. Cardinality(E) >= Horizon
      BY <3>2, <3>5, <3>6
    <3>. QED BY <3>1, <3>2, <3>7 DEF E
  <2>. QED BY <2>2, <2>3, <2>4 DEF RowFits
<1>3. \A o \in outcomes' : RowFits(o)'
  BY <1>2 DEF scoreVars
<1>4. RowsNumbered'
  BY DEF OutcomeInv, RowsNumbered, scoreVars
<1>5. RunsKnow'
  <2>1. ASSUME NEW w \in Scorers, scoring[w] # AtRest PROVE RunKnows(scoring[w])'
    <3>1. RunKnows(scoring[w])
      BY <2>1 DEF OutcomeInv, RunsKnow
    <3>. QED BY <1>1, <3>1 DEF RunKnows, scoreVars
  <2>. QED BY <2>1 DEF OutcomeInv, RunsKnow, scoreVars
<1>6. JudgedSoFar'
  <2>1. judged.upTo \in Int /\ judged.upTo <= clock /\ judged.count \in Nat /\ NothingDropped
    BY DEF OutcomeInv, JudgedSoFar
  <2>2. NothingDropped'
    BY <2>1 DEF NothingDropped, OutcomesOf, Due, AddSessions, scoreVars
  <2>. QED BY <1>1, <2>1, <2>2 DEF JudgedSoFar, scoreVars
<1>7. StudiesKnow'
  <2>1. ASSUME NEW s \in studies PROVE StudyFits(s)'
    <3>1. StudyFits(s)
      BY DEF OutcomeInv, StudiesKnow
    <3>2. s.basis = refetches' => s.days \in SUBSET priced'
      <4>. SUFFICES ASSUME s.basis = refetches' PROVE s.days \in SUBSET priced'
        OBVIOUS
      <4>1. refetches' = refetches
        BY <1>1, <3>1 DEF StudyFits
      <4>. QED BY <3>1, <4>1 DEF StudyFits
    <3>. QED BY <1>1, <3>1, <3>2 DEF StudyFits
  <2>2. ASSUME NEW w \in Scorers, studying[w] # AtRest PROVE studying[w].count \in Nat /\ studying[w].count <= refetches'
    <3>1. studying[w].count \in Nat /\ studying[w].count <= refetches
      BY <2>2 DEF OutcomeInv, StudiesKnow
    <3>. QED BY <1>1, <3>1
  <2>. QED BY <2>1, <2>2 DEF OutcomeInv, StudiesKnow, studyVars
<1>. QED BY <1>3, <1>4, <1>5, <1>6, <1>7 DEF OutcomeInv

LEMMA ClosesKeep == ASSUME OutcomeInv, Closes PROVE OutcomeInv'
<1>1. /\ HistoryFits /\ clock \in Nat \ {0} /\ refetches \in Nat /\ traded \in TradedDays
      /\ priced \in SUBSET (1 .. clock) /\ priced \in SUBSET traded
      /\ \A s \in logged : s.known \in Nat /\ s.asOf \in Nat /\ s.asOf <= s.known /\ s.known <= clock
  BY DEF OutcomeInv, HistoryFits
<1>2. CASE DayTurns
  <2>1. HistoryFits'
    <3>1. clock' = clock + 1 /\ UNCHANGED <<traded, priced, refetches, logged>>
      BY <1>2 DEF DayTurns, scoreVars
    <3>2. 1 .. clock \subseteq 1 .. clock'
      BY <1>1, <3>1
    <3>3. \A s \in logged : s.known <= clock'
      BY <1>1, <3>1
    <3>. QED BY <1>1, <3>1, <3>2, <3>3 DEF HistoryFits
  <2>. QED BY <1>1, <1>2, <2>1, ClosesMove DEF DayTurns
<1>3. CASE FetchCloses
  <2>. DEFINE from == IF priced = {} THEN 1 ELSE Max(priced) - Reach
  <2>1. PICK got \in Answers(from) : priced' = priced \cup got
    BY <1>3 DEF FetchCloses
  <2>2. got \in SUBSET (1 .. clock) /\ got \in SUBSET traded
    BY <1>1, <2>1, AnswersAre
  <2>3. HistoryFits'
    BY <1>1, <1>3, <2>1, <2>2 DEF HistoryFits, FetchCloses, scoreVars
  <2>. QED BY <1>1, <1>3, <2>1, <2>3, ClosesMove DEF FetchCloses
<1>4. CASE Rebase
  <2>1. PICK got \in Answers(1) : priced' = got
    BY <1>4 DEF Rebase
  <2>2. got \in SUBSET (1 .. clock) /\ got \in SUBSET traded
    BY <1>1, <2>1, AnswersAre
  <2>3. HistoryFits'
    BY <1>1, <1>4, <2>1, <2>2 DEF HistoryFits, Rebase, scoreVars
  <2>4. refetches' = refetches + 1
    BY <1>4 DEF Rebase
  <2>. QED BY <1>1, <1>4, <2>3, <2>4, ClosesMove DEF Rebase
<1>. QED BY <1>2, <1>3, <1>4 DEF Closes

LEMMA LogKeeps == ASSUME OutcomeInv, NEW k \in SubjectKinds, Log(k) PROVE OutcomeInv'
<1>1. /\ HistoryFits /\ clock \in Nat \ {0} /\ priced \in SUBSET (1 .. clock)
      /\ \A s \in logged : s.known \in Nat /\ s.asOf \in Nat /\ s.asOf <= s.known /\ s.known <= clock
  BY DEF OutcomeInv, HistoryFits
<1>2. priced # {} /\ UNCHANGED <<priceVars, outcomes, scoring, judged, studyVars>>
  BY DEF Log
<1>3. PICK d \in IF k = "signal" THEN {Max(priced)} ELSE priced : logged' = logged \cup {[kind |-> k, asOf |-> d, known |-> clock]}
  BY DEF Log
<1>. DEFINE new == [kind |-> k, asOf |-> d, known |-> clock]
<1>4. d \in Nat /\ d <= clock
  <2>1. d \in priced
    BY <1>1, <1>2, <1>3, NewestClose
  <2>. QED BY <1>1, <2>1
<1>5. new.known = clock /\ new.asOf = d /\ logged' = logged \cup {new}
  BY <1>3
<1>. HIDE DEF new
<1>6. HistoryFits'
  BY <1>1, <1>2, <1>4, <1>5 DEF OutcomeInv, HistoryFits, priceVars
<1>7. \A o \in outcomes' : RowFits(o)'
  <2>. SUFFICES ASSUME NEW o \in outcomes PROVE RowFits(o)'
    BY <1>2
  <2>1. RowFits(o)
    BY DEF OutcomeInv
  <2>. QED BY <1>2, <1>5, <2>1 DEF RowFits, priceVars
<1>8. RowsNumbered'
  BY <1>2 DEF OutcomeInv, RowsNumbered
<1>9. RunsKnow'
  BY <1>2 DEF OutcomeInv, RunsKnow, RunKnows, priceVars
<1>10. JudgedSoFar'
  <2>1. judged.upTo \in Int /\ judged.upTo <= clock /\ judged.count \in Nat /\ NothingDropped
    BY DEF OutcomeInv, JudgedSoFar
  <2>2. ~ judged.upTo - Due(new) > OverdueDays
    <3>1. Horizon + 1 \in Nat /\ OverdueDays \in Nat /\ clock \in Nat
      BY <1>1, OutcomeAssumption
    <3>2. Due(new) \in Nat /\ Due(new) >= clock + (Horizon + 1)
      BY <1>5, <3>1, AddSessionsIs DEF Due
    <3>. QED BY <2>1, <3>1, <3>2
  <2>3. NothingDropped'
    BY <1>2, <1>5, <2>1, <2>2 DEF NothingDropped, OutcomesOf, Due, AddSessions
  <2>. QED BY <1>2, <2>1, <2>3 DEF JudgedSoFar, priceVars
<1>11. StudiesKnow'
  BY <1>2 DEF OutcomeInv, StudiesKnow, StudyFits, priceVars, studyVars
<1>. QED BY <1>6, <1>7, <1>8, <1>9, <1>10, <1>11 DEF OutcomeInv

\* Nothing but what the runs know changes.
LEMMA RunsMove ==
  ASSUME OutcomeInv, UNCHANGED <<priceVars, logged, outcomes, judged, studyVars>>, RunsKnow'
  PROVE  OutcomeInv'
<1>1. HistoryFits'
  BY DEF OutcomeInv, HistoryFits, priceVars
<1>2. \A o \in outcomes' : RowFits(o)'
  BY DEF OutcomeInv, RowFits, priceVars
<1>3. RowsNumbered'
  BY DEF OutcomeInv, RowsNumbered
<1>4. JudgedSoFar'
  <2>1. NothingDropped'
    BY DEF OutcomeInv, JudgedSoFar, NothingDropped, OutcomesOf, Due, AddSessions
  <2>. QED BY <2>1 DEF OutcomeInv, JudgedSoFar, priceVars
<1>5. StudiesKnow'
  BY DEF OutcomeInv, StudiesKnow, StudyFits, priceVars, studyVars
<1>. QED BY <1>1, <1>2, <1>3, <1>4, <1>5 DEF OutcomeInv

LEMMA ReadStateKeeps == ASSUME OutcomeInv, NEW w \in Scorers, ReadState(w) PROVE OutcomeInv'
<1>. DEFINE r == [marketLast |-> LastSession(clock), seen |-> outcomes, count |-> refetches]
<1>1. scoring' = [scoring EXCEPT ![w] = r] /\ UNCHANGED <<priceVars, logged, outcomes, judged, studyVars>>
  BY DEF ReadState
<1>2. RunKnows(r)'
  <2>1. LastSession(clock) \in Int /\ LastSession(clock) <= clock
    BY LastSessionIs DEF OutcomeInv, HistoryFits
  <2>2. \A o \in outcomes : o.refetches <= refetches
    <3>. SUFFICES ASSUME NEW o \in outcomes PROVE o.refetches <= refetches
      OBVIOUS
    <3>1. RowFits(o) /\ refetches \in Nat
      BY DEF OutcomeInv, HistoryFits
    <3>. QED BY <3>1 DEF RowFits
  <2>3. refetches \in Nat
    BY DEF OutcomeInv, HistoryFits
  <2>4. r.marketLast = LastSession(clock) /\ r.seen = outcomes /\ r.count = refetches
    OBVIOUS
  <2>5. UNCHANGED <<clock, refetches, outcomes>>
    BY <1>1 DEF priceVars
  <2>. QED BY <2>1, <2>2, <2>3, <2>4, <2>5 DEF RunKnows
<1>3. ASSUME NEW u \in Scorers, scoring'[u] # AtRest PROVE RunKnows(scoring[u])'
  <2>. HIDE DEF r
  <2>1. DOMAIN scoring = Scorers
    BY DEF OutcomeInv, RunsKnow
  <2>2. CASE u = w
    <3>1. scoring'[u] = r'
      BY <1>1, <2>1, <2>2 DEF r, priceVars
    <3>. QED BY <1>2, <3>1
  <2>3. CASE u # w
    <3>1. scoring'[u] = scoring[u]
      BY <1>1, <2>1, <2>3
    <3>2. RunKnows(scoring[u])
      BY <1>3, <3>1 DEF OutcomeInv, RunsKnow
    <3>. QED BY <1>1, <3>1, <3>2 DEF RunKnows, priceVars
  <2>. QED BY <2>2, <2>3
<1>4. RunsKnow'
  BY <1>1, <1>3 DEF OutcomeInv, RunsKnow
<1>. QED BY <1>1, <1>4, RunsMove

LEMMA ScorerDiesKeeps == ASSUME OutcomeInv, NEW w \in Scorers, ScorerDies(w) PROVE OutcomeInv'
<1>1. scoring' = [scoring EXCEPT ![w] = AtRest] /\ UNCHANGED <<priceVars, logged, outcomes, judged, studyVars>>
  BY DEF ScorerDies
<1>2. ASSUME NEW u \in Scorers, scoring'[u] # AtRest PROVE RunKnows(scoring[u])'
  <2>1. DOMAIN scoring = Scorers
    BY DEF OutcomeInv, RunsKnow
  <2>2. u # w /\ scoring'[u] = scoring[u]
    BY <1>1, <1>2, <2>1
  <2>3. RunKnows(scoring[u])
    BY <1>2, <2>2 DEF OutcomeInv, RunsKnow
  <2>. QED BY <1>1, <2>2, <2>3 DEF RunKnows, priceVars
<1>3. RunsKnow'
  BY <1>1, <1>2 DEF OutcomeInv, RunsKnow
<1>. QED BY <1>1, <1>3, RunsMove

LEMMA WriteKeeps == ASSUME OutcomeInv, NEW w \in Scorers, WriteOutcomes(w) PROVE OutcomeInv'
<1>. DEFINE r == scoring[w]
            new == Judged(r)
<1>1. RunKnows(r) /\ scoring' = [scoring EXCEPT ![w] = AtRest] /\ UNCHANGED <<priceVars, logged, studyVars>> /\ DOMAIN scoring = Scorers
  BY DEF WriteOutcomes, OutcomeInv, RunsKnow
<1>2. /\ clock \in Nat /\ refetches \in Nat /\ r.count \in Nat /\ r.count <= refetches
      /\ r.marketLast \in Int /\ r.marketLast <= clock /\ r.seen \in SUBSET outcomes
  BY <1>1 DEF OutcomeInv, HistoryFits, RunKnows
<1>3. \A o \in outcomes : o.version \in Nat /\ o.refetches \in Nat /\ 1 <= o.version /\ RowFits(o)
  BY DEF OutcomeInv, RowFits
<1>4. CASE UNCHANGED <<outcomes, judged>>
  <2>1. ASSUME NEW u \in Scorers, scoring'[u] # AtRest PROVE RunKnows(scoring[u])'
    <3>1. u # w /\ scoring'[u] = scoring[u]
      BY <1>1, <2>1
    <3>2. RunKnows(scoring[u])
      BY <2>1, <3>1 DEF OutcomeInv, RunsKnow
    <3>. QED BY <1>1, <1>4, <3>1, <3>2 DEF RunKnows, priceVars
  <2>2. RunsKnow'
    BY <1>1, <2>1 DEF RunsKnow
  <2>. QED BY <1>1, <1>4, <2>2, RunsMove
<1>5. CASE /\ outcomes' = outcomes \cup new
           /\ ~ \E o \in outcomes, p \in new : o.subject = p.subject /\ o.version = p.version
           /\ judged' = IF r.marketLast < judged.upTo \/ r.count < judged.count THEN judged ELSE [upTo |-> r.marketLast, count |-> r.count]
  <2>1. ASSUME NEW o \in new
        PROVE  /\ o.subject \in logged /\ o = OutcomeOf(o.subject, r) /\ o.refetches = r.count /\ RowFits(o)
               /\ o.version \in Nat /\ 1 <= o.version
               /\ \A p \in outcomes : p.subject = o.subject => p.version < o.version /\ p.refetches < r.count
               /\ \A k \in 1 .. o.version - 1 : \E p \in outcomes : p.subject = o.subject /\ p.version = k
    <3>1. PICK s \in logged : ~ Settled(s, r) /\ o = OutcomeOf(s, r)
      BY DEF Judged
    <3>2. o.subject = s /\ o.version = NextVersion(s, r) /\ o.refetches = r.count
      BY <3>1 DEF OutcomeOf, Row
    <3>3. \A p \in outcomes : ~ (p.subject = s /\ p.version = NextVersion(s, r))
      <4>. HIDE DEF new
      <4>. QED BY <1>5, <3>2
    <3>. HIDE DEF r, new
    <3>4. /\ RowFits(OutcomeOf(s, r))
          /\ \A p \in outcomes : p.subject = s => p.version < NextVersion(s, r) /\ p.refetches < r.count
          /\ \A k \in 1 .. NextVersion(s, r) - 1 : \E p \in outcomes : p.subject = s /\ p.version = k
      BY <1>1, <3>1, <3>3, JudgedRow
    <3>5. RowFits(o)
      BY <3>1, <3>4
    <3>6. o.version \in Nat /\ 1 <= o.version
      BY <3>5 DEF RowFits
    <3>. QED BY <3>1, <3>2, <3>4, <3>5, <3>6
  <2>2. ASSUME NEW s \in logged, Overdue(s, r) PROVE \E o \in outcomes' : o.subject = s /\ o.refetches = r.count
    <3>1. CASE Settled(s, r)
      <4>1. PICK o \in Latest(r.seen) : o.subject = s /\ o.refetches = r.count
        BY <3>1 DEF Settled
      <4>2. o \in outcomes
        BY <1>2, <4>1 DEF Latest
      <4>. HIDE DEF r, new
      <4>. QED BY <1>5, <4>1, <4>2
    <3>2. CASE ~ Settled(s, r)
      <4>1. OutcomeOf(s, r) \in new
        BY <2>2, <3>2 DEF Judged
      <4>2. OutcomeOf(s, r).subject = s /\ OutcomeOf(s, r).refetches = r.count
        BY DEF OutcomeOf, Row
      <4>. HIDE DEF r, new
      <4>. QED BY <1>5, <4>1, <4>2
    <3>. QED BY <3>1, <3>2
  <2>3. \A s \in logged : r.marketLast - Due(s) > OverdueDays => Overdue(s, r)
    BY DEF Overdue
  <2>. HIDE DEF r, new
  <2>4. HistoryFits'
    BY <1>1 DEF OutcomeInv, HistoryFits, priceVars
  <2>5. ASSUME NEW o \in outcomes' PROVE RowFits(o)'
    <3>1. RowFits(o)
      BY <1>3, <1>5, <2>1
    <3>. QED BY <1>1, <3>1 DEF RowFits, priceVars
  <2>6. RowsNumbered'
    <3>1. ASSUME NEW o \in outcomes', NEW k \in 1 .. o.version PROVE \E p \in outcomes' : p.subject = o.subject /\ p.version = k
      <4>1. CASE o \in outcomes
        <5>1. \E p \in outcomes : p.subject = o.subject /\ p.version = k
          BY <4>1 DEF OutcomeInv, RowsNumbered
        <5>. QED BY <1>5, <5>1
      <4>2. CASE o \in new
        <5>1. CASE k = o.version
          BY <5>1
        <5>2. CASE k # o.version
          <6>1. k \in 1 .. o.version - 1
            BY <2>1, <4>2, <5>2
          <6>2. \E p \in outcomes : p.subject = o.subject /\ p.version = k
            BY <2>1, <4>2, <6>1
          <6>. QED BY <1>5, <6>2
        <5>. QED BY <5>1, <5>2
      <4>. QED BY <1>5, <4>1, <4>2
    <3>2. ASSUME NEW o \in outcomes', NEW p \in outcomes', p.subject = o.subject
          PROVE  (p.version = o.version => p = o) /\ (p.version < o.version => p.refetches < o.refetches)
      <4>1. CASE o \in outcomes /\ p \in outcomes
        BY <3>2, <4>1 DEF OutcomeInv, RowsNumbered
      <4>2. CASE o \in outcomes /\ p \in new
        <5>1. o.version < p.version /\ o.version \in Nat /\ p.version \in Nat
          BY <1>3, <2>1, <3>2, <4>2
        <5>. QED BY <5>1
      <4>3. CASE o \in new /\ p \in outcomes
        <5>1. p.version < o.version /\ p.refetches < o.refetches /\ o.version \in Nat /\ p.version \in Nat
          BY <1>3, <2>1, <3>2, <4>3
        <5>. QED BY <5>1
      <4>4. CASE o \in new /\ p \in new
        <5>1. p = o /\ o.version \in Nat
          BY <2>1, <3>2, <4>4
        <5>. QED BY <5>1
      <4>. QED BY <1>5, <4>1, <4>2, <4>3, <4>4
    <3>. QED BY <3>1, <3>2 DEF RowsNumbered
  <2>7. RunsKnow'
    <3>1. ASSUME NEW u \in Scorers, scoring'[u] # AtRest PROVE RunKnows(scoring[u])'
      <4>1. u # w /\ scoring'[u] = scoring[u]
        BY <1>1, <3>1
      <4>. DEFINE t == scoring[u]
      <4>2. RunKnows(t)
        BY <3>1, <4>1 DEF OutcomeInv, RunsKnow
      <4>. HIDE DEF t
      <4>3. ASSUME NEW o \in outcomes', NEW p \in t.seen, o.subject = p.subject, o.version <= p.version PROVE o \in t.seen
        <5>1. p \in outcomes
          BY <4>2 DEF RunKnows
        <5>2. CASE o \in outcomes
          BY <4>2, <4>3, <5>2 DEF RunKnows
        <5>3. CASE o \in new
          <6>1. p.version < o.version /\ p.version \in Nat /\ o.version \in Nat
            BY <1>3, <2>1, <4>3, <5>1, <5>3
          <6>. QED BY <4>3, <6>1
        <5>. QED BY <1>5, <5>2, <5>3
      <4>4. t' = scoring'[u] /\ scoring'[u] = t
        BY <4>1 DEF t
      <4>5. UNCHANGED <<clock, refetches>>
        BY <1>1 DEF priceVars
      <4>6. t.seen \in SUBSET outcomes'
        BY <1>5, <4>2 DEF RunKnows
      <4>7. RunKnows(t)'
        BY <4>2, <4>3, <4>4, <4>5, <4>6 DEF RunKnows
      <4>. QED BY <4>7 DEF t
    <3>. QED BY <1>1, <3>1 DEF RunsKnow
  <2>8. JudgedSoFar'
    <3>1. judged.upTo \in Int /\ judged.upTo <= clock /\ judged.count \in Nat /\ NothingDropped
      BY DEF OutcomeInv, JudgedSoFar
    <3>2. \A s \in logged : Due(s)' = Due(s)
      BY DEF Due, AddSessions
    <3>3. CASE judged' = judged
      <4>1. NothingDropped'
        <5>1. ASSUME NEW s \in logged, judged.upTo - Due(s) > OverdueDays PROVE \E o \in outcomes' : o.subject = s /\ o.refetches >= judged.count
          BY <1>5, <3>1, <5>1 DEF NothingDropped, OutcomesOf
        <5>. QED BY <1>1, <3>2, <3>3, <5>1 DEF NothingDropped, OutcomesOf
      <4>. QED BY <1>1, <3>1, <3>3, <4>1 DEF JudgedSoFar, priceVars
    <3>4. CASE judged' = [upTo |-> r.marketLast, count |-> r.count]
      <4>1. judged'.upTo = r.marketLast /\ judged'.count = r.count
        BY <3>4
      <4>2. NothingDropped'
        <5>1. ASSUME NEW s \in logged, r.marketLast - Due(s) > OverdueDays PROVE \E o \in outcomes' : o.subject = s /\ o.refetches >= r.count
          <6>1. PICK o \in outcomes' : o.subject = s /\ o.refetches = r.count
            BY <2>2, <2>3, <5>1
          <6>. QED BY <1>2, <6>1
        <5>. QED BY <1>1, <3>2, <4>1, <5>1 DEF NothingDropped, OutcomesOf
      <4>. QED BY <1>1, <1>2, <4>1, <4>2 DEF JudgedSoFar, priceVars
    <3>. QED BY <1>5, <3>3, <3>4
  <2>9. StudiesKnow'
    BY <1>1 DEF OutcomeInv, StudiesKnow, StudyFits, priceVars, studyVars
  <2>. QED BY <2>4, <2>5, <2>6, <2>7, <2>8, <2>9 DEF OutcomeInv
<1>6. UNCHANGED <<outcomes, judged>> \/
      /\ outcomes' = outcomes \cup new
      /\ ~ \E o \in outcomes, p \in new : o.subject = p.subject /\ o.version = p.version
      /\ judged' = IF r.marketLast < judged.upTo \/ r.count < judged.count THEN judged ELSE [upTo |-> r.marketLast, count |-> r.count]
  BY DEF WriteOutcomes
<1>. QED BY <1>4, <1>5, <1>6

\* Nothing but the studies changes.
LEMMA StudiesMove == ASSUME OutcomeInv, UNCHANGED <<priceVars, scoreVars>>, StudiesKnow' PROVE OutcomeInv'
<1>1. HistoryFits'
  BY DEF OutcomeInv, HistoryFits, priceVars, scoreVars
<1>2. \A o \in outcomes' : RowFits(o)'
  BY DEF OutcomeInv, RowFits, priceVars, scoreVars
<1>3. RowsNumbered'
  BY DEF OutcomeInv, RowsNumbered, scoreVars
<1>4. RunsKnow'
  BY DEF OutcomeInv, RunsKnow, RunKnows, priceVars, scoreVars
<1>5. JudgedSoFar'
  <2>1. NothingDropped'
    BY DEF OutcomeInv, JudgedSoFar, NothingDropped, OutcomesOf, Due, AddSessions, scoreVars
  <2>. QED BY <2>1 DEF OutcomeInv, JudgedSoFar, priceVars, scoreVars
<1>. QED BY <1>1, <1>2, <1>3, <1>4, <1>5 DEF OutcomeInv

LEMMA StudyKeeps == ASSUME OutcomeInv, Studying PROVE OutcomeInv'
<1>1. refetches \in Nat /\ priced \in SUBSET priced
  BY DEF OutcomeInv, HistoryFits
<1>2. DOMAIN studying = Scorers /\ \A s \in studies : StudyFits(s)
  BY DEF OutcomeInv, StudiesKnow
<1>3. ASSUME NEW u \in Scorers, studying[u] # AtRest PROVE studying[u].count \in Nat /\ studying[u].count <= refetches
  BY <1>3 DEF OutcomeInv, StudiesKnow
<1>4. ASSUME NEW w \in Scorers, StudyReads(w) PROVE OutcomeInv'
  <2>. DEFINE r == [last |-> Max(priced), count |-> refetches]
  <2>1. studying' = [studying EXCEPT ![w] = r] /\ UNCHANGED <<priceVars, scoreVars, studies>>
    BY <1>4 DEF StudyReads
  <2>2. r.count = refetches
    OBVIOUS
  <2>. HIDE DEF r
  <2>3. ASSUME NEW u \in Scorers, studying'[u] # AtRest PROVE studying'[u].count \in Nat /\ studying'[u].count <= refetches
    <3>1. CASE u = w
      BY <1>1, <1>2, <2>1, <2>2, <3>1
    <3>2. CASE u # w
      <4>1. studying'[u] = studying[u]
        BY <1>2, <2>1, <3>2
      <4>. QED BY <1>3, <2>3, <4>1
    <3>. QED BY <3>1, <3>2
  <2>4. \A s \in studies' : StudyFits(s)'
    BY <1>2, <2>1 DEF StudyFits, priceVars
  <2>5. StudiesKnow'
    BY <1>2, <2>1, <2>3, <2>4 DEF StudiesKnow, priceVars
  <2>. QED BY <2>1, <2>5, StudiesMove
<1>5. ASSUME NEW w \in Scorers, StudyStores(w) PROVE OutcomeInv'
  <2>. DEFINE marker == Marker(Cardinality(priced), studying[w].last, studying[w].count)
              new == [marker |-> marker, days |-> priced, basis |-> refetches]
  <2>1. /\ studying' = [studying EXCEPT ![w] = AtRest] /\ UNCHANGED <<priceVars, scoreVars>>
        /\ studies' = studies \/ studies' = studies \cup {new}
    BY <1>5 DEF StudyStores
  <2>2. studying[w] # AtRest
    BY <1>5 DEF StudyStores
  <2>3. StudyFits(new)
    <3>1. new.marker = <<Cardinality(priced), studying[w].last, studying[w].count>> /\ new.days = priced /\ new.basis = refetches
      BY DEF Marker
    <3>2. new.marker[1] = Cardinality(priced) /\ new.marker[3] = studying[w].count
      BY <3>1
    <3>3. studying[w].count \in Nat /\ studying[w].count <= refetches
      BY <1>3, <2>2
    <3>. HIDE DEF new
    <3>. QED BY <1>1, <3>1, <3>2, <3>3 DEF StudyFits
  <2>. HIDE DEF new
  <2>4. ASSUME NEW u \in Scorers, studying'[u] # AtRest PROVE studying'[u].count \in Nat /\ studying'[u].count <= refetches
    <3>1. u # w /\ studying'[u] = studying[u]
      BY <1>2, <2>1, <2>4
    <3>. QED BY <1>3, <2>4, <3>1
  <2>5. \A s \in studies' : StudyFits(s)
    BY <1>2, <2>1, <2>3
  <2>6. \A s \in studies' : StudyFits(s)'
    BY <2>1, <2>5 DEF StudyFits, priceVars
  <2>7. StudiesKnow'
    BY <1>2, <2>1, <2>4, <2>6 DEF StudiesKnow, priceVars
  <2>. QED BY <2>1, <2>7, StudiesMove
<1>. QED BY <1>4, <1>5 DEF Studying

\* Rows, runs and studies fit the history of the closes, whatever was fetched while they were under way.
THEOREM OutcomeInvariance == OutcomeSpec => []OutcomeInv
<1>1. OutcomeInit => OutcomeInv
  BY OutcomeInitial
<1>2. OutcomeInv /\ [OutcomeNext]_outcomeVars => OutcomeInv'
  <2>. SUFFICES ASSUME OutcomeInv, [OutcomeNext]_outcomeVars PROVE OutcomeInv'
    OBVIOUS
  <2>1. CASE Closes
    BY <2>1, ClosesKeep
  <2>2. ASSUME NEW k \in SubjectKinds, Log(k) PROVE OutcomeInv'
    BY <2>2, LogKeeps
  <2>3. ASSUME NEW w \in Scorers, ReadState(w) PROVE OutcomeInv'
    BY <2>3, ReadStateKeeps
  <2>4. ASSUME NEW w \in Scorers, WriteOutcomes(w) PROVE OutcomeInv'
    BY <2>4, WriteKeeps
  <2>5. ASSUME NEW w \in Scorers, ScorerDies(w) PROVE OutcomeInv'
    BY <2>5, ScorerDiesKeeps
  <2>6. CASE Studying
    BY <2>6, StudyKeeps
  <2>7. CASE UNCHANGED outcomeVars
    <3>1. UNCHANGED <<priceVars, scoreVars, studyVars>>
      BY <2>7 DEF outcomeVars
    <3>2. StudiesKnow'
      BY <3>1 DEF OutcomeInv, StudiesKnow, StudyFits, priceVars, studyVars
    <3>. QED BY <3>1, <3>2, StudiesMove
  <2>. QED BY <2>1, <2>2, <2>3, <2>4, <2>5, <2>6, <2>7 DEF OutcomeNext, Scoring
<1>. QED BY <1>1, <1>2, PTL DEF OutcomeSpec

LEMMA RowsHonest == ASSUME OutcomeInv PROVE NoLookAhead /\ OnPresentBase /\ VersionsExplained
<1>1. \A o \in outcomes : RowFits(o)
  BY DEF OutcomeInv
<1>2. NoLookAhead
  BY <1>1 DEF NoLookAhead, RowFits
<1>3. OnPresentBase
  <2>. SUFFICES ASSUME NEW o \in outcomes, o.refetches = refetches PROVE o.basis = refetches
    BY DEF OnPresentBase
  <2>1. o.basis \in Nat /\ o.refetches \in Nat /\ o.refetches <= o.basis /\ o.basis <= refetches
    BY <1>1 DEF RowFits
  <2>. QED BY <2>1
<1>4. VersionsExplained
  <2>. SUFFICES ASSUME NEW o \in outcomes
                PROVE  /\ o.version > 1 => \E p \in OutcomesOf(outcomes, o.subject) : p.version = o.version - 1
                       /\ \A p \in OutcomesOf(outcomes, o.subject) : p.version < o.version => p.refetches < o.refetches
    BY DEF VersionsExplained
  <2>1. ASSUME o.version > 1 PROVE \E p \in OutcomesOf(outcomes, o.subject) : p.version = o.version - 1
    <3>1. o.version - 1 \in 1 .. o.version
      <4>1. o.version \in Nat
        BY <1>1 DEF RowFits
      <4>. QED BY <2>1, <4>1
    <3>. QED BY <3>1 DEF OutcomeInv, RowsNumbered, OutcomesOf
  <2>2. \A p \in OutcomesOf(outcomes, o.subject) : p.version < o.version => p.refetches < o.refetches
    BY DEF OutcomeInv, RowsNumbered, OutcomesOf
  <2>. QED BY <2>1, <2>2
<1>. QED BY <1>2, <1>3, <1>4

LEMMA StudiesHonest == ASSUME OutcomeInv PROVE StudiesOfTheirData
<1>. SUFFICES ASSUME NEW s \in studies, s.marker = Marker(Cardinality(priced), Max(priced), refetches) PROVE s.days = priced /\ s.basis = refetches
  BY DEF StudiesOfTheirData
<1>1. StudyFits(s) /\ HistoryFits
  BY DEF OutcomeInv, StudiesKnow
<1>2. s.marker[1] = Cardinality(priced) /\ s.marker[3] = refetches
  BY DEF Marker
<1>3. s.basis = refetches
  BY <1>1, <1>2 DEF StudyFits, HistoryFits
<1>4. s.days \in SUBSET priced /\ Cardinality(s.days) = Cardinality(priced)
  BY <1>1, <1>2, <1>3 DEF StudyFits
<1>5. s.days = priced
  BY <1>1, <1>4, PricedFinite, FS_Subset
<1>. QED BY <1>3, <1>5

LEMMA EvidenceCountedOnce == ASSUME OutcomeInv PROVE EvidenceApart
<1>. SUFFICES ASSUME NEW k \in SubjectKinds
              PROVE  /\ \A o, p \in Scored(k) :
                          /\ {o.subject.asOf, p.subject.asOf} \subseteq ThinDates(Dates(k)) /\ o.subject.asOf < p.subject.asOf
                          /\ o.entry = AddSessions(o.subject.asOf, 1) /\ o.exit = AddSessions(o.entry, Horizon)
                          => o.exit <= p.entry
                     /\ \A ds \in SUBSET Dates(k) :
                          (\A d, e \in ds : d < e => AddSessions(d, Horizon) <= e) => Cardinality(ds) <= Cardinality(ThinDates(Dates(k)))
  BY DEF EvidenceApart
<1>. DEFINE ds == Dates(k)
            kept == ThinDates(ds)
<1>1. HistoryFits /\ clock \in Nat /\ Horizon \in Nat
  BY OutcomeAssumption DEF OutcomeInv, HistoryFits
<1>2. ASSUME NEW o \in Scored(k)
      PROVE  /\ o \in outcomes /\ o.status = "scored" /\ o.subject.asOf \in Nat /\ o.subject.known \in Nat
             /\ o.subject.asOf <= o.subject.known /\ o.subject.known <= clock /\ o.subject.asOf \in ds
             /\ o.entry \in Nat /\ o.entry \notin Holidays /\ o.subject.known < o.entry
  <2>1. o \in outcomes /\ o.status = "scored"
    BY DEF Scored, Latest
  <2>2. RowFits(o)
    BY <2>1 DEF OutcomeInv
  <2>3. o.subject \in logged /\ o.entry \in traded /\ o.subject.known < o.entry
    BY <2>1, <2>2 DEF RowFits
  <2>4. traded \subseteq Nat /\ traded \cap Holidays = {}
    BY OutcomeAssumption DEF OutcomeInv, HistoryFits
  <2>. QED BY <1>1, <2>1, <2>3, <2>4 DEF HistoryFits, Dates
<1>3. ds \in SUBSET (0 .. clock)
  <2>1. \A d \in ds : \E o \in Scored(k) : d = o.subject.asOf
    BY DEF Dates
  <2>. HIDE DEF ds
  <2>2. \A d \in ds : d \in Nat /\ d <= clock
    <3>. SUFFICES ASSUME NEW d \in ds PROVE d \in Nat /\ d <= clock
      OBVIOUS
    <3>1. PICK o \in Scored(k) : d = o.subject.asOf
      BY <2>1
    <3>. QED BY <1>1, <1>2, <3>1
  <2>. QED BY <1>1, <2>2
<1>4. kept \in SUBSET ds /\ Greedy(kept, ds)
  <2>. HIDE DEF ds
  <2>. QED BY <1>1, <1>3, ThinDatesAre
<1>. HIDE DEF kept
<1>5. ASSUME NEW o \in Scored(k), NEW p \in Scored(k), {o.subject.asOf, p.subject.asOf} \subseteq kept, o.subject.asOf < p.subject.asOf,
             o.entry = AddSessions(o.subject.asOf, 1), o.exit = AddSessions(o.entry, Horizon)
      PROVE  o.exit <= p.entry
  <2>. DEFINE a == o.subject.asOf
              b == p.subject.asOf
              e == p.entry
  <2>1. /\ a \in Nat /\ a \in ds /\ a \in kept
        /\ b \in Nat /\ b \in ds /\ b \in kept /\ a < b
        /\ e \in Nat /\ e \notin Holidays /\ b < e
    <3>1. b <= p.subject.known /\ p.subject.known < e /\ p.subject.known \in Nat /\ b \in Nat /\ e \in Nat
      BY <1>2
    <3>. QED BY <1>2, <1>5, <3>1
  <2>2. o.exit = AddSessions(AddSessions(a, 1), Horizon)
    BY <1>5
  <2>. HIDE DEF a, b, e, ds
  <2>3. AddSessions(a, Horizon) <= b
    BY <1>4, <2>1 DEF Greedy
  <2>4. AddSessions(AddSessions(a, 1), Horizon) = AddSessions(AddSessions(a, Horizon), 1)
    <3>1. 1 \in Nat
      OBVIOUS
    <3>. QED BY <1>1, <2>1, <3>1, AddSessionsTwice
  <2>. DEFINE c == AddSessions(a, Horizon)
  <2>5. c \in Nat
    BY <1>1, <2>1, AddSessionsIs
  <2>6. AddSessions(c, 1) <= AddSessions(b, 1) /\ AddSessions(c, 1) \in Nat /\ AddSessions(b, 1) \in Nat
    <3>1. c <= b /\ 1 \in Nat
      BY <2>3
    <3>. HIDE DEF c
    <3>2. AddSessions(c, 1) <= AddSessions(b, 1)
      BY <2>1, <2>5, <3>1, AddSessionsMonotone
    <3>. QED BY <2>1, <2>5, <3>1, <3>2, AddSessionsIs
  <2>7. AddSessions(b, 1) <= e
    <3>. DEFINE n == AddSessions(b, 1)
    <3>1. n \in Nat /\ b + 1 <= n /\ OpenDays(b, n) = 1
      <4>1. 1 \in Nat /\ b \in Nat
        BY <2>1
      <4>. QED BY <4>1, AddSessionsIs
    <3>. HIDE DEF n
    <3>2. SUFFICES ASSUME e < n PROVE FALSE
      BY <2>1, <3>1 DEF n
    <3>3. OpenDays(b, n) = OpenDays(b, e) + OpenDays(e, n)
      BY <2>1, <3>1, <3>2, OpenDaysSplit
    <3>4. OpenDays(b, e) = OpenDays(b, e - 1) + 1
      BY <2>1, OpenDaysLast
    <3>5. n \notin Holidays
      BY <2>1, AddSessionsIs DEF n
    <3>6. OpenDays(e, n) = OpenDays(e, n - 1) + 1
      BY <2>1, <3>1, <3>2, <3>5, OpenDaysLast
    <3>7. OpenDays(b, e - 1) \in Nat /\ OpenDays(e, n - 1) \in Nat
      <4>1. b \in Int /\ e - 1 \in Int /\ e \in Int /\ n - 1 \in Int
        BY <2>1, <3>1
      <4>2. OpenDays(b, e - 1) \in Nat
        BY <4>1, OpenDaysType
      <4>3. OpenDays(e, n - 1) \in Nat
        BY <4>1, OpenDaysType
      <4>. QED BY <4>2, <4>3
    <3>. QED BY <3>1, <3>3, <3>4, <3>6, <3>7
  <2>8. o.exit = AddSessions(c, 1)
    BY <2>2, <2>4
  <2>. HIDE DEF c
  <2>. QED BY <2>1, <2>6, <2>7, <2>8 DEF e
<1>6. ASSUME NEW T \in SUBSET ds, \A d, e \in T : d < e => AddSessions(d, Horizon) <= e
      PROVE  Cardinality(T) <= Cardinality(kept)
  <2>. HIDE DEF ds
  <2>. QED BY <1>1, <1>3, <1>4, <1>6, GreedyIsBest
<1>. QED BY <1>5, <1>6 DEF kept

LEMMA EvidencePays == LadderClimbs
<1>. DEFINE Of(s) == IF s.hi < 0 THEN 2 ELSE IF s.lo <= 0 THEN 3 ELSE IF s.live THEN IF s.n >= EarnedDates /\ s.net > 0 THEN 6 ELSE 5 ELSE 4
<1>1. MinDates \in Nat /\ MinDates # 0 /\ EarnedDates \in Nat
  BY OutcomeAssumption
<1>2. ASSUME NEW s \in Summaries PROVE s.n \in Nat /\ s.lo \in Int /\ s.hi \in Int /\ s.net \in Int
  BY <1>1 DEF Summaries
<1>3. ASSUME NEW s \in Summaries, s.n >= MinDates PROVE Grade[ClaimVerdict(s)] = Of(s)
  <2>1. s.n \in Nat /\ s.lo \in Int /\ s.hi \in Int /\ s.net \in Int /\ s.n # 0 /\ ~ s.n < MinDates
    BY <1>1, <1>2, <1>3
  <2>2. CASE s.hi < 0
    BY <1>3, <2>1, <2>2 DEF ClaimVerdict, Grade
  <2>3. CASE s.hi >= 0 /\ s.lo <= 0
    BY <1>3, <2>1, <2>3 DEF ClaimVerdict, Grade
  <2>4. CASE s.hi >= 0 /\ s.lo > 0
    BY <1>3, <2>1, <2>4 DEF ClaimVerdict, Grade
  <2>. QED BY <2>1, <2>2, <2>3, <2>4
<1>4. ASSUME NEW s \in Summaries, NEW t \in Summaries, s.live = t.live, s.n <= t.n, s.lo <= t.lo, s.hi <= t.hi, s.net <= t.net, s.n >= MinDates
      PROVE  Grade[ClaimVerdict(s)] <= Grade[ClaimVerdict(t)]
  <2>1. t.n >= MinDates
    BY <1>1, <1>2, <1>4
  <2>2. Of(s) <= Of(t)
    BY <1>1, <1>2, <1>4
  <2>. HIDE DEF Of
  <2>. QED BY <1>3, <1>4, <2>1, <2>2
<1>5. ASSUME NEW s \in Summaries, ~ s.live PROVE ClaimVerdict(s) \notin {"earned", "promising"}
  BY <1>1, <1>2, <1>5 DEF ClaimVerdict
<1>. QED BY <1>4, <1>5 DEF LadderClimbs

\* Whatever is fetched, late or anew, and however runs overlap or die: outcomes look forward only, on the history they are filed under,
\* nothing logged is dropped, no evidence counts twice, and a study is of the data its marker names.
THEOREM OutcomesAreTrue == OutcomeSpec => []OutcomesTrue
<1>1. OutcomeInv => OutcomesTrue
  <2>. SUFFICES ASSUME OutcomeInv PROVE OutcomesTrue
    OBVIOUS
  <2>1. NothingDropped
    BY DEF OutcomeInv, JudgedSoFar
  <2>. QED BY <2>1, RowsHonest, EvidenceCountedOnce, EvidencePays, StudiesHonest DEF OutcomesTrue
<1>. QED BY <1>1, OutcomeInvariance, PTL

-----------------------------------------------------------------------------
(* What the owner sees before an import replaces the holdings *)

\* The greatest of the places up to n, which is the last of them.
LEMMA UpTo ==
  ASSUME NEW n \in Nat
  PROVE  /\ \A s \in SUBSET (1 .. n) : s # {} => Max(s) \in s
         /\ \A k \in 1 .. n : Max(1 .. k) = k /\ (1 .. k) \ {Max(1 .. k)} = 1 .. (k - 1)
<1>1. ASSUME NEW s \in SUBSET (1 .. n), s # {} PROVE Max(s) \in s /\ \A y \in s : y <= Max(s)
  <2>. s \in SUBSET (0 .. n)
    OBVIOUS
  <2>. QED BY <1>1, MaxIs
<1>2. ASSUME NEW k \in 1 .. n PROVE Max(1 .. k) = k
  <2>1. 1 .. k \in SUBSET (1 .. n) /\ 1 .. k # {} /\ k \in 1 .. k
    OBVIOUS
  <2>2. Max(1 .. k) \in 1 .. k /\ k <= Max(1 .. k)
    BY <1>1, <2>1
  <2>. QED BY <2>2
<1>3. \A k \in 1 .. n : (1 .. k) \ {k} = 1 .. (k - 1)
  OBVIOUS
<1>. QED BY <1>1, <1>2, <1>3

\* The lines that are read are a sequence.
LEMMA LinesAre ==
  ASSUME NEW file \in Uploads
  PROVE  Lines(file) \in Seq(ToSet(file.lines))
<1>. DEFINE S == ToSet(file.lines)
            q == file.lines
            D == DOMAIN q
            X == Seq(S)
            Keep(kept, line) == IF HasCells(line) THEN Append(kept, line) ELSE kept
            G == [k \in D |-> [x \in X |-> Keep(x, q[k])]]
            b == <<>>
            p == [s \in SUBSET D |-> Max(s)]
            Folding(f) == f = [s \in SUBSET D |-> IF s = {} THEN <<>> ELSE Keep(f[s \ {Max(s)}], q[Max(s)])]
<1>1. q \in Seq(S) /\ Len(q) \in Nat /\ D = 1 .. Len(q) /\ \A k \in D : q[k] \in S
  BY PreviewAssumption
<1>2. Lines(file) = (CHOOSE f : Folding(f))[D]
  BY DEF Lines, FoldLeft, MapThenFoldSet
<1>3. \A s \in SUBSET D : s # {} => p[s] \in s
  BY <1>1, UpTo
<1>4. G \in [D -> [X -> X]]
  <2>1. ASSUME NEW k \in D, NEW x \in X PROVE Keep(x, q[k]) \in X
    <3>. HIDE DEF S
    <3>. QED BY <1>1
  <2>. HIDE DEF Keep, X
  <2>. QED BY <2>1
<1>5. IsFiniteSet(D) /\ b \in X
  BY <1>1, FS_Interval
<1>. HIDE DEF D, X, G, p, b
<1>6. PICK g \in [SUBSET D -> X] : Folds(g, b, G, p, D)
  <2>1. Picks(p, D)
    BY <1>3 DEF Picks
  <2>. QED BY <1>4, <1>5, <2>1, FoldExists
<1>. USE DEF D, X, G, p, b
<1>6a. Folding(g)
  <2>1. ASSUME NEW s \in SUBSET D, s # {} PROVE G[p[s]][g[s \ {p[s]}]] = Keep(g[s \ {Max(s)}], q[Max(s)])
    <3>1. p[s] = Max(s)
      OBVIOUS
    <3>2. p[s] \in D /\ s \ {p[s]} \in SUBSET D
      <4>. HIDE DEF p, D
      <4>. QED BY <1>3, <2>1
    <3>. DEFINE v == s \ {p[s]}
    <3>3. g[v] \in X
      <4>. HIDE DEF p, D, X
      <4>. QED BY <3>2
    <3>4. \A k \in D, x \in X : G[k][x] = Keep(x, q[k])
      <4>. HIDE DEF Keep, X, D, q
      <4>. QED OBVIOUS
    <3>5. G[p[s]][g[v]] = Keep(g[v], q[p[s]])
      <4>. HIDE DEF Keep, X, D, q, p, v, G
      <4>. QED BY <3>2, <3>3, <3>4
    <3>. HIDE DEF p, Keep, X, D, q, G
    <3>. QED BY <3>1, <3>5
  <2>2. \A s \in SUBSET D : (IF s = {} THEN <<>> ELSE G[p[s]][g[s \ {p[s]}]]) = IF s = {} THEN <<>> ELSE Keep(g[s \ {Max(s)}], q[Max(s)])
    <3>. HIDE DEF p, Keep, X, D, q, G
    <3>. QED BY <2>1
  <2>3. g = [s \in SUBSET D |-> IF s = {} THEN <<>> ELSE G[p[s]][g[s \ {p[s]}]]]
    BY <1>6 DEF Folds
  <2>. HIDE DEF p, Keep, X, D, q, G
  <2>. QED BY <2>2, <2>3, Zenon
<1>7. PICK f : Folding(f) /\ Lines(file) = f[D]
  <2>. HIDE DEF Folding
  <2>. QED BY <1>2, <1>6a
<1>8. \A s \in SUBSET D : f[s] \in X
  <2>. DEFINE F == {s \in SUBSET D : f[s] \in X}
  <2>1. ASSUME NEW s \in SUBSET D, \A u \in SUBSET s : u # s => u \in F PROVE s \in F
    <3>1. f[s] = IF s = {} THEN <<>> ELSE Keep(f[s \ {Max(s)}], q[Max(s)])
      BY <1>7
    <3>2. CASE s # {}
      <4>1. Max(s) \in s
        BY <1>3, <3>2
      <4>2. f[s \ {Max(s)}] \in X /\ q[Max(s)] \in S
        <5>. HIDE DEF X, S, q, D
        <5>. QED BY <1>1, <2>1, <4>1
      <4>3. \A x \in X, y \in S : Keep(x, y) \in X
        <5>. HIDE DEF S
        <5>. QED OBVIOUS
      <4>. HIDE DEF S, q, D, X, Keep
      <4>. QED BY <3>1, <3>2, <4>2, <4>3
    <3>3. <<>> \in X
      OBVIOUS
    <3>. HIDE DEF X, Keep, D, S, q
    <3>. QED BY <3>1, <3>2, <3>3
  <2>2. IsFiniteSet(D)
    BY <1>1, FS_Interval
  <2>3. \A s \in SUBSET D : s \in F
    <3>. HIDE DEF F, D
    <3>. QED BY <2>1, <2>2, SubsetInduction
  <2>. QED BY <2>3
<1>. QED BY <1>7, <1>8

\* Counting up to n.
LEMMA CountUp ==
  ASSUME NEW n \in Nat, NEW F, 0 \in F, \A k \in 1 .. n : k - 1 \in F => k \in F
  PROVE  \A k \in 0 .. n : k \in F
<1>. DEFINE bad == {k \in 0 .. n : k \notin F}
<1>. SUFFICES ASSUME bad # {} PROVE FALSE
  OBVIOUS
<1>1. PICK k \in bad : \A y \in bad : k <= y
  <2>. bad \in SUBSET (0 .. n)
    OBVIOUS
  <2>. HIDE DEF bad
  <2>. QED BY Least
<1>2. k \in 1 .. n /\ k - 1 \in 0 .. n /\ k - 1 \notin bad
  BY <1>1
<1>. QED BY <1>1, <1>2

\* The holdings a row may be taken for, when the rows before it have taken theirs.
FreeFor(row, taken) ==
  {k \in DOMAIN holding \ taken : holding[k].type = row.asset_type /\ holding[k].names \cap Idents(row) # {}}

\* The holdings, and rows, are sequences.
HoldingIs == holding \in Seq(ToSet(holding))
RowsAre(rows) == rows \in Seq(ToSet(rows))

\* Each row has the first holding that is free for it, or none.
Matching(rows, hits) ==
  /\ hits \in Seq(0 .. Len(holding)) /\ DOMAIN hits = DOMAIN rows
  /\ \A k \in DOMAIN rows : \/ hits[k] = 0 /\ FreeFor(rows[k], {hits[j] : j \in 1 .. k - 1}) = {}
                            \/ /\ hits[k] \in FreeFor(rows[k], {hits[j] : j \in 1 .. k - 1})
                               /\ \A h \in FreeFor(rows[k], {hits[j] : j \in 1 .. k - 1}) : hits[k] <= h

\* The comparison of _reconcile is such a matching, for any number of rows.
LEMMA HitsAre ==
  ASSUME HoldingIs, NEW rows, RowsAre(rows)
  PROVE  Matching(rows, Hits(rows))
<1>. DEFINE D == DOMAIN rows
            N == Len(rows)
            X == Seq(0 .. Len(holding))
            Take(row, hits) == IF FreeFor(row, ToSet(hits)) = {} THEN 0 ELSE Min(FreeFor(row, ToSet(hits)))
            Step(hits, row) == Append(hits, Take(row, hits))
            G == [k \in D |-> [x \in X |-> Step(x, rows[k])]]
            b == <<>>
            p == [s \in SUBSET D |-> Max(s)]
            Folding(f) == f = [s \in SUBSET D |-> IF s = {} THEN <<>> ELSE Step(f[s \ {Max(s)}], rows[Max(s)])]
<1>1. N \in Nat /\ D = 1 .. N /\ Len(holding) \in Nat /\ DOMAIN holding = 1 .. Len(holding)
  BY DEF HoldingIs, RowsAre
<1>2. Hits(rows) = (CHOOSE f : Folding(f))[D]
  BY DEF Hits, FoldLeft, MapThenFoldSet, FreeFor
<1>3. \A s \in SUBSET D : s # {} => p[s] \in s
  BY <1>1, UpTo
<1>4a. ASSUME NEW x \in X, NEW row PROVE /\ Take(row, x) \in 0 .. Len(holding) /\ Step(x, row) \in X
                                         /\ FreeFor(row, ToSet(x)) # {} => /\ Take(row, x) \in FreeFor(row, ToSet(x))
                                                                           /\ \A h \in FreeFor(row, ToSet(x)) : Take(row, x) <= h
                                         /\ Take(row, x) = 0 \/ FreeFor(row, ToSet(x)) # {}
  <2>. DEFINE free == FreeFor(row, ToSet(x))
  <2>1. free \in SUBSET (0 .. Len(holding))
    BY <1>1 DEF FreeFor
  <2>2. free # {} => Min(free) \in free /\ \A y \in free : Min(free) <= y
    <3>. HIDE DEF free
    <3>. QED BY <1>1, <2>1, MinIs
  <2>3. Take(row, x) = IF free = {} THEN 0 ELSE Min(free)
    OBVIOUS
  <2>. HIDE DEF free, Take
  <2>. DEFINE t == Take(row, x)
  <2>4. t \in 0 .. Len(holding)
    <3>1. CASE free = {}
      <4>1. t = 0 /\ 0 \in 0 .. Len(holding)
        BY <1>1, <2>3, <3>1
      <4>. QED BY <4>1
    <3>2. CASE free # {}
      <4>1. t = Min(free) /\ Min(free) \in free
        BY <2>2, <2>3, <3>2
      <4>. HIDE DEF t
      <4>. QED BY <2>1, <4>1
    <3>. QED BY <3>1, <3>2
  <2>5. Step(x, row) \in X
    <3>. HIDE DEF t
    <3>0. \A S : \A z \in Seq(S), y \in S : Append(z, y) \in Seq(S)
      OBVIOUS
    <3>1. Append(x, t) \in X
      BY <2>4, <3>0
    <3>. QED BY <3>1 DEF t
  <2>. QED BY <2>2, <2>3, <2>4, <2>5 DEF free
<1>4. G \in [D -> [X -> X]]
  <2>. HIDE DEF Step, X
  <2>. QED BY <1>4a
<1>5. IsFiniteSet(D) /\ b \in X
  BY <1>1, FS_Interval
<1>. HIDE DEF D, X, G, p, b
<1>6. PICK g \in [SUBSET D -> X] : Folds(g, b, G, p, D)
  <2>1. Picks(p, D)
    BY <1>3 DEF Picks
  <2>. QED BY <1>4, <1>5, <2>1, FoldExists
<1>. USE DEF D, X, G, p, b
<1>6a. Folding(g)
  <2>1. ASSUME NEW s \in SUBSET D, s # {} PROVE G[p[s]][g[s \ {p[s]}]] = Step(g[s \ {Max(s)}], rows[Max(s)])
    <3>1. p[s] = Max(s)
      OBVIOUS
    <3>2. p[s] \in D /\ s \ {p[s]} \in SUBSET D
      <4>. HIDE DEF p, D
      <4>. QED BY <1>3, <2>1
    <3>. DEFINE v == s \ {p[s]}
    <3>3. g[v] \in X
      <4>. HIDE DEF p, D, X
      <4>. QED BY <3>2
    <3>4. \A k \in D, x \in X : G[k][x] = Step(x, rows[k])
      <4>. HIDE DEF Step, X, D
      <4>. QED OBVIOUS
    <3>5. G[p[s]][g[v]] = Step(g[v], rows[p[s]])
      <4>. HIDE DEF Step, X, D, p, v, G
      <4>. QED BY <3>2, <3>3, <3>4
    <3>. HIDE DEF p, Step, X, D, G
    <3>. QED BY <3>1, <3>5
  <2>2. \A s \in SUBSET D : (IF s = {} THEN <<>> ELSE G[p[s]][g[s \ {p[s]}]]) = IF s = {} THEN <<>> ELSE Step(g[s \ {Max(s)}], rows[Max(s)])
    <3>. HIDE DEF p, Step, X, D, G
    <3>. QED BY <2>1
  <2>3. g = [s \in SUBSET D |-> IF s = {} THEN <<>> ELSE G[p[s]][g[s \ {p[s]}]]]
    BY <1>6 DEF Folds
  <2>. HIDE DEF p, Step, X, D, G
  <2>. QED BY <2>2, <2>3, Zenon
<1>7. PICK f : Folding(f) /\ Hits(rows) = f[D]
  <2>. HIDE DEF Folding
  <2>. QED BY <1>2, <1>6a
<1>. DEFINE h(k) == f[1 .. k]
<1>8. h(0) = <<>> /\ \A k \in 1 .. N : h(k) = Step(h(k - 1), rows[k])
  <2>1. \A k \in 0 .. N : 1 .. k \in SUBSET D
    BY <1>1
  <2>2. \A s \in SUBSET D : f[s] = IF s = {} THEN <<>> ELSE Step(f[s \ {Max(s)}], rows[Max(s)])
    <3>. HIDE DEF Step, D
    <3>. QED BY <1>7
  <2>3. 1 .. 0 = {}
    OBVIOUS
  <2>4. ASSUME NEW k \in 1 .. N PROVE 1 .. k # {} /\ Max(1 .. k) = k /\ (1 .. k) \ {k} = 1 .. k - 1
    <3>1. Max(1 .. k) = k /\ (1 .. k) \ {Max(1 .. k)} = 1 .. (k - 1)
      BY <1>1, UpTo
    <3>. QED BY <3>1, <1>1
  <2>. HIDE DEF Step, D
  <2>5. h(0) = <<>>
    <3>1. h(0) = f[{}] /\ {} \in SUBSET D
      BY <2>3
    <3>. QED BY <2>2, <3>1
  <2>6. ASSUME NEW k \in 1 .. N PROVE h(k) = Step(h(k - 1), rows[k])
    <3>1. k \in 0 .. N /\ 1 .. k \in SUBSET D
      BY <1>1, <2>1
    <3>2. f[1 .. k] = Step(f[(1 .. k) \ {k}], rows[k])
      BY <2>2, <2>4, <3>1
    <3>. QED BY <2>4, <3>2
  <2>. QED BY <2>5, <2>6
<1>. HIDE DEF h, Step, Folding
<1>9. \A k \in 0 .. N : h(k) \in X /\ Len(h(k)) = k /\ \A i \in 0 .. k : \A j \in 1 .. i : h(k)[j] = h(i)[j]
  <2>. DEFINE F == {k \in 0 .. N : h(k) \in X /\ Len(h(k)) = k /\ \A i \in 0 .. k : \A j \in 1 .. i : h(k)[j] = h(i)[j]}
  <2>1. 0 \in F
    <3>0. 0 \in 0 .. N /\ h(0) = <<>>
      BY <1>1, <1>8
    <3>0a. <<>> \in X /\ Len(<<>>) = 0
      OBVIOUS
    <3>1. h(0) \in X /\ Len(h(0)) = 0
      BY <3>0, <3>0a
    <3>2. \A i \in 0 .. 0 : \A j \in 1 .. i : FALSE
      OBVIOUS
    <3>. HIDE DEF X
    <3>. QED BY <3>0, <3>1, <3>2
  <2>2. ASSUME NEW k \in 1 .. N, k - 1 \in F PROVE k \in F
    <3>. DEFINE x == h(k - 1)
    <3>1. x \in X /\ Len(x) = k - 1 /\ \A i \in 0 .. k - 1 : \A j \in 1 .. i : x[j] = h(i)[j]
      BY <2>2
    <3>2. h(k) = Append(x, Take(rows[k], x)) /\ Take(rows[k], x) \in 0 .. Len(holding)
      BY <1>8, <3>1, <1>4a DEF Step
    <3>. DEFINE t == Take(rows[k], x)
    <3>. HIDE DEF x, Take, t
    <3>2a. h(k) = Append(x, t) /\ t \in 0 .. Len(holding)
      BY <3>2 DEF t
    <3>3. h(k) \in X /\ Len(h(k)) = k /\ \A j \in 1 .. k - 1 : h(k)[j] = x[j]
      BY <3>1, <3>2a
    <3>4. ASSUME NEW i \in 0 .. k, NEW j \in 1 .. i PROVE h(k)[j] = h(i)[j]
      <4>1. CASE i = k
        BY <4>1
      <4>2. CASE i # k
        <5>1. i \in 0 .. k - 1 /\ j \in 1 .. k - 1
          BY <4>2
        <5>. QED BY <3>1, <3>3, <5>1
      <4>. QED BY <4>1, <4>2
    <3>. QED BY <3>3, <3>4, <1>1
  <2>3. \A k \in 0 .. N : k \in F
    <3>. HIDE DEF F
    <3>. QED BY <1>1, <2>1, <2>2, CountUp
  <2>. QED BY <2>3
<1>10. Hits(rows) = h(N)
  BY <1>1, <1>7 DEF h
<1>11. ASSUME NEW k \in 1 .. N
       PROVE  Hits(rows)[k] = Take(rows[k], h(k - 1)) /\ ToSet(h(k - 1)) = {Hits(rows)[j] : j \in 1 .. k - 1} /\ h(k - 1) \in X
  <2>1. k - 1 \in 0 .. N /\ k \in 0 .. N
    BY <1>1
  <2>2. h(k - 1) \in X /\ Len(h(k - 1)) = k - 1 /\ \A j \in 1 .. k - 1 : Hits(rows)[j] = h(k - 1)[j]
    <3>1. N \in 0 .. N /\ k - 1 \in 0 .. N
      BY <1>1
    <3>2. h(k - 1) \in X /\ Len(h(k - 1)) = k - 1
      BY <1>9, <3>1
    <3>3. \A i \in 0 .. N : \A j \in 1 .. i : h(N)[j] = h(i)[j]
      BY <1>9, <3>1
    <3>4. \A j \in 1 .. k - 1 : h(N)[j] = h(k - 1)[j]
      BY <3>1, <3>3
    <3>. HIDE DEF X
    <3>. QED BY <1>10, <3>2, <3>4
  <2>3. Hits(rows)[k] = h(k)[k]
    <3>1. N \in 0 .. N /\ k \in 1 .. k
      BY <1>1
    <3>2. \A i \in 0 .. N : \A j \in 1 .. i : h(N)[j] = h(i)[j]
      BY <1>9, <3>1
    <3>3. h(N)[k] = h(k)[k]
      BY <2>1, <3>1, <3>2
    <3>. QED BY <1>10, <3>3
  <2>4. h(k) = Append(h(k - 1), Take(rows[k], h(k - 1)))
    BY <1>8 DEF Step
  <2>5. Take(rows[k], h(k - 1)) \in 0 .. Len(holding)
    BY <2>2, <1>4a
  <2>. DEFINE x == h(k - 1)  y == Take(rows[k], x)
  <2>6. h(k)[k] = y
    <3>1. x \in Seq(0 .. Len(holding)) /\ Len(x) = k - 1 /\ y \in 0 .. Len(holding) /\ h(k) = Append(x, y)
      BY <2>2, <2>4, <2>5
    <3>. HIDE DEF x, y
    <3>2. Append(x, y)[Len(x) + 1] = y /\ Len(x) + 1 = k
      BY <3>1
    <3>. QED BY <3>1, <3>2
  <2>7. ToSet(x) = {x[j] : j \in 1 .. k - 1}
    <3>. HIDE DEF x
    <3>. DOMAIN x = 1 .. k - 1
      BY <2>2 DEF x
    <3>. QED BY DEF ToSet
  <2>8. {x[j] : j \in 1 .. k - 1} = {Hits(rows)[j] : j \in 1 .. k - 1}
    <3>. HIDE DEF Take
    <3>. QED BY <2>2
  <2>. HIDE DEF Take
  <2>. QED BY <2>2, <2>3, <2>6, <2>7, <2>8 DEF x, y
<1>12. Hits(rows) \in Seq(0 .. Len(holding)) /\ Len(Hits(rows)) = N
  BY <1>9, <1>10, <1>1
<1>13. DOMAIN Hits(rows) = DOMAIN rows
  BY <1>1, <1>12
<1>14. ASSUME NEW k \in DOMAIN rows
       PROVE  \/ Hits(rows)[k] = 0 /\ FreeFor(rows[k], {Hits(rows)[j] : j \in 1 .. k - 1}) = {}
              \/ /\ Hits(rows)[k] \in FreeFor(rows[k], {Hits(rows)[j] : j \in 1 .. k - 1})
                 /\ \A y \in FreeFor(rows[k], {Hits(rows)[j] : j \in 1 .. k - 1}) : Hits(rows)[k] <= y
  <2>1. k \in 1 .. N
    BY <1>1
  <2>2. Hits(rows)[k] = Take(rows[k], h(k - 1)) /\ ToSet(h(k - 1)) = {Hits(rows)[j] : j \in 1 .. k - 1} /\ h(k - 1) \in X
    BY <1>11, <2>1
  <2>. DEFINE free == FreeFor(rows[k], {Hits(rows)[j] : j \in 1 .. k - 1})
  <2>3. free = FreeFor(rows[k], ToSet(h(k - 1)))
    BY <2>2
  <2>4. CASE free = {}
    <3>1. Take(rows[k], h(k - 1)) = 0
      BY <2>3, <2>4
    <3>. QED BY <2>2, <2>4, <3>1
  <2>5. CASE free # {}
    <3>1. Take(rows[k], h(k - 1)) \in free /\ \A y \in free : Take(rows[k], h(k - 1)) <= y
      <4>. HIDE DEF Take, free, X
      <4>. QED BY <2>2, <2>3, <2>5, <1>4a
    <3>. QED BY <2>2, <3>1
  <2>. QED BY <2>4, <2>5
<1>. QED BY <1>12, <1>13, <1>14 DEF Matching

\* The images of different elements are as many.
LEMMA ImageSize ==
  ASSUME NEW S, IsFiniteSet(S), NEW g, \A x \in S, y \in S : g[x] = g[y] => x = y
  PROVE  IsFiniteSet({g[x] : x \in S}) /\ Cardinality({g[x] : x \in S}) = Cardinality(S)
<1>. DEFINE T == {g[x] : x \in S}
            f == [x \in S |-> g[x]]
<1>1. f \in Surjection(S, T) /\ f \in Injection(S, T)
  <2>1. f \in [S -> T] /\ \A t \in T : \E s \in S : f[s] = t
    OBVIOUS
  <2>2. \A x, y \in S : f[x] = f[y] => x = y
    OBVIOUS
  <2>. HIDE DEF f, T
  <2>. QED BY <2>1, <2>2 DEF Surjection, Injection, IsInjective
<1>. HIDE DEF f
<1>2. IsFiniteSet(T) /\ Cardinality(T) = Cardinality(S)
  <2>. HIDE DEF T
  <2>. QED BY <1>1, FS_Surjection
<1>. QED BY <1>2

\* No holding is taken twice.
LEMMA TakenOnce ==
  ASSUME HoldingIs, NEW rows, RowsAre(rows), NEW hits, Matching(rows, hits)
  PROVE  /\ \A j \in DOMAIN rows, k \in DOMAIN rows : hits[j] = hits[k] /\ hits[j] # 0 => j = k
         /\ \A k \in DOMAIN rows : hits[k] # 0 => hits[k] \in DOMAIN holding
         /\ 0 \notin DOMAIN holding /\ DOMAIN rows = 1 .. Len(rows) /\ DOMAIN holding = 1 .. Len(holding)
         /\ Len(rows) \in Nat /\ Len(holding) \in Nat
<1>1. /\ DOMAIN rows = 1 .. Len(rows) /\ DOMAIN holding = 1 .. Len(holding)
      /\ Len(rows) \in Nat /\ Len(holding) \in Nat
  BY DEF HoldingIs, RowsAre
<1>2. ASSUME NEW k \in DOMAIN rows, hits[k] # 0
      PROVE  hits[k] \in DOMAIN holding /\ hits[k] \notin {hits[j] : j \in 1 .. k - 1}
  BY <1>2 DEF Matching, FreeFor
<1>3. ASSUME NEW j \in DOMAIN rows, NEW k \in DOMAIN rows, j < k, hits[j] # 0 PROVE hits[j] # hits[k]
  <2>1. j \in 1 .. k - 1
    BY <1>1, <1>3
  <2>2. CASE hits[k] = 0
    BY <1>3, <2>2
  <2>3. CASE hits[k] # 0
    BY <1>2, <2>1, <2>3
  <2>. QED BY <2>2, <2>3
<1>4. ASSUME NEW j \in DOMAIN rows, NEW k \in DOMAIN rows, hits[j] = hits[k], hits[j] # 0 PROVE j = k
  <2>1. j < k \/ k < j \/ j = k
    BY <1>1
  <2>. QED BY <1>3, <1>4, <2>1
<1>. QED BY <1>1, <1>2, <1>4

\* Of the holdings and of the rows, each is in one group.
LEMMA EachInOneGroup ==
  ASSUME HoldingIs, NEW rows, RowsAre(rows), NEW hits, Matching(rows, hits)
  PROVE  /\ Len(holding) = Cardinality(Removed(hits)) + Cardinality(Changed(rows, hits)) + Cardinality({k \in DOMAIN rows : hits[k] # 0 /\ Alike(holding[hits[k]], rows[k])})
         /\ Len(rows) = Cardinality({k \in DOMAIN rows : hits[k] = 0}) + Cardinality(Changed(rows, hits))
                        + Cardinality({k \in DOMAIN rows : hits[k] # 0 /\ Alike(holding[hits[k]], rows[k])})
<1>. DEFINE D == DOMAIN rows
            T == {k \in D : hits[k] # 0}
            U == {k \in D : hits[k] # 0 /\ Alike(holding[hits[k]], rows[k])}
            V == {k \in D : hits[k] # 0 /\ ~Alike(holding[hits[k]], rows[k])}
            A == {k \in D : hits[k] = 0}
            I == {hits[k] : k \in T}
            H == DOMAIN holding
<1>1. /\ \A j \in D, k \in D : hits[j] = hits[k] /\ hits[j] # 0 => j = k
      /\ \A k \in D : hits[k] # 0 => hits[k] \in H
      /\ 0 \notin H /\ D = 1 .. Len(rows) /\ H = 1 .. Len(holding) /\ Len(rows) \in Nat /\ Len(holding) \in Nat
  BY TakenOnce
<1>2. IsFiniteSet(D) /\ Cardinality(D) = Len(rows) /\ IsFiniteSet(H) /\ Cardinality(H) = Len(holding)
  <2>1. D = 1 .. Len(rows) /\ H = 1 .. Len(holding) /\ Len(rows) \in Nat /\ Len(holding) \in Nat
    BY <1>1
  <2>2. ASSUME NEW n \in Nat PROVE IsFiniteSet(1 .. n) /\ Cardinality(1 .. n) = n
    <3>1. IsFiniteSet(1 .. n) /\ Cardinality(1 .. n) = IF 1 > n THEN 0 ELSE n - 1 + 1
      BY FS_Interval
    <3>. QED BY <3>1
  <2>. HIDE DEF D, H
  <2>. QED BY <2>1, <2>2
<1>3. T \subseteq D /\ T \cap D = T /\ D \ T = A /\ V \subseteq T /\ T \cap V = V /\ T \ V = U
  OBVIOUS
<1>4. IsFiniteSet(T) /\ IsFiniteSet(V) /\ IsFiniteSet(U) /\ IsFiniteSet(A)
  <2>. HIDE DEF T, V, U, A, D
  <2>. QED BY <1>2, <1>3, FS_Subset, FS_Difference
<1>5. Cardinality(A) = Cardinality(D) - Cardinality(T) /\ Cardinality(U) = Cardinality(T) - Cardinality(V)
  <2>. HIDE DEF T, V, U, A, D
  <2>1. Cardinality(D \ T) = Cardinality(D) - Cardinality(D \cap T)
    BY <1>2, FS_Difference
  <2>2. Cardinality(T \ V) = Cardinality(T) - Cardinality(T \cap V)
    BY <1>4, FS_Difference
  <2>3. D \cap T = T
    BY <1>3
  <2>. QED BY <1>3, <2>1, <2>2, <2>3
<1>6. Changed(rows, hits) = {hits[k] : k \in V}
  BY DEF Changed
<1>7. Cardinality(Changed(rows, hits)) = Cardinality(V)
  <2>1. \A j \in V, k \in V : hits[j] = hits[k] => j = k
    <3>1. \A j \in V : j \in D /\ hits[j] # 0
      OBVIOUS
    <3>. HIDE DEF V
    <3>. QED BY <1>1, <3>1
  <2>. HIDE DEF V
  <2>2. Cardinality({hits[k] : k \in V}) = Cardinality(V)
    BY <1>4, <2>1, ImageSize
  <2>. QED BY <1>6, <2>2
<1>8. Cardinality(I) = Cardinality(T) /\ I \subseteq H
  <2>1. \A j \in T, k \in T : hits[j] = hits[k] => j = k
    BY <1>1
  <2>2. \A k \in T : hits[k] \in H
    BY <1>1
  <2>. HIDE DEF T, H
  <2>3. Cardinality({hits[k] : k \in T}) = Cardinality(T)
    BY <1>4, <2>1, ImageSize
  <2>. QED BY <2>2, <2>3
<1>9. Removed(hits) = H \ I
  <2>1. ToSet(hits) = {hits[k] : k \in D}
    BY DEF ToSet, Matching
  <2>2. \A x \in H : x \in ToSet(hits) <=> x \in I
    BY <1>1, <2>1
  <2>. QED BY <2>2 DEF Removed
<1>10. Cardinality(Removed(hits)) = Cardinality(H) - Cardinality(I)
  <2>1. H \cap I = I
    BY <1>8
  <2>2. Cardinality(H \ I) = Cardinality(H) - Cardinality(H \cap I)
    <3>. HIDE DEF H, I
    <3>. QED BY <1>2, FS_Difference
  <2>. QED BY <1>9, <2>1, <2>2
<1>11. Cardinality(T) \in Nat /\ Cardinality(V) \in Nat
  <2>. HIDE DEF T, V
  <2>. QED BY <1>4, FS_CardinalityType
<1>12. /\ Len(holding) = Cardinality(Removed(hits)) + Cardinality(Changed(rows, hits)) + Cardinality(U)
       /\ Len(rows) = Cardinality(A) + Cardinality(Changed(rows, hits)) + Cardinality(U)
  <2>1. Len(rows) \in Nat /\ Len(holding) \in Nat
    BY <1>1
  <2>. HIDE DEF T, V, U, A, D, H, I
  <2>. QED BY <1>2, <1>5, <1>7, <1>8, <1>10, <1>11, <2>1
<1>. QED BY <1>12

\* A row as it was observed when it became a holding shares an identifier with that holding.
Named(row) == {row.isin, row.symbol, row.description} # {Blank}

\* The rows of the holdings take them one by one.
LEMMA RepeatMatches ==
  ASSUME HoldingIs, NEW rows, RowsAre(rows), NEW hits, Matching(rows, hits), Observations(rows) = holding, \A k \in DOMAIN rows : Named(rows[k])
  PROVE  \A k \in DOMAIN rows : hits[k] = k /\ Alike(holding[k], rows[k])
<1>1. /\ DOMAIN rows = 1 .. Len(rows) /\ DOMAIN holding = DOMAIN rows /\ Len(rows) \in Nat
  BY TakenOnce DEF Observations
<1>2. ASSUME NEW k \in DOMAIN rows
      PROVE  Alike(holding[k], rows[k]) /\ holding[k].type = rows[k].asset_type /\ holding[k].names \cap Idents(rows[k]) # {}
  <2>1. holding[k] = Observed(rows[k])
    BY DEF Observations
  <2>2. Named(rows[k])
    OBVIOUS
  <2>. DEFINE row == rows[k]
  <2>3. First(row) # Blank /\ First(row) \in {row.isin, row.symbol, row.description}
    BY <2>2 DEF First, Named
  <2>4. First(row) \in Observed(row).names /\ First(row) \in Idents(row)
    BY <2>3 DEF Observed, Idents
  <2>. QED BY <2>1, <2>4 DEF Observed, Alike
<1>. DEFINE F == {k \in 0 .. Len(rows) : \A j \in 1 .. k : hits[j] = j}
<1>3. ASSUME NEW k \in 1 .. Len(rows), k - 1 \in F PROVE k \in F
  <2>. DEFINE free == FreeFor(rows[k], {hits[j] : j \in 1 .. k - 1})
  <2>1. {hits[j] : j \in 1 .. k - 1} = 1 .. k - 1
    BY <1>3
  <2>2. k \in free /\ \A x \in free : x \notin 1 .. k - 1 /\ x \in 1 .. Len(rows)
    BY <1>1, <1>2, <2>1 DEF FreeFor
  <2>3. hits[k] \in free /\ \A x \in free : hits[k] <= x
    BY <1>1, <2>2 DEF Matching
  <2>4. hits[k] = k
    BY <2>2, <2>3
  <2>. QED BY <1>1, <1>3, <2>4
<1>4. 0 \in F
  BY <1>1
<1>5. \A k \in 0 .. Len(rows) : k \in F
  <2>. HIDE DEF F
  <2>. QED BY <1>1, <1>3, <1>4, CountUp
<1>6. \A j \in 1 .. Len(rows) : hits[j] = j
  BY <1>1, <1>5
<1>. QED BY <1>1, <1>2, <1>6

\* Rows that can be confirmed have an identifier, and a value that is a number or none.
RowsGood(rows) == RowsAre(rows) /\ \A k \in DOMAIN rows : Named(rows[k]) /\ rows[k].value \in Nat \cup {Blank}

\* The rows of an upload with their ISINs, and that none is in error.
Completed(raws) == [k \in DOMAIN raws |-> WithIsin(raws, raws[k])]
Clean(raws) == \A k \in DOMAIN raws : Errors(raws[k]) = {}

\* f is a table of n places.
Indexed(f, n) == f = [k \in 1 .. n |-> f[k]]

\* A table is a sequence.
LEMMA IndexedIs ==
  ASSUME NEW n \in Nat, NEW table, Indexed(table, n)
  PROVE  table \in Seq(ToSet(table)) /\ Len(table) = n /\ DOMAIN table = 1 .. n
<1>1. DOMAIN table = 1 .. n
  BY DEF Indexed
<1>2. Len(table) = n
  BY DEF Indexed
<1>3. table \in Seq(ToSet(table))
  <2>1. ToSet(table) = {table[k] : k \in 1 .. n}
    BY <1>1 DEF ToSet
  <2>2. table \in Seq({table[k] : k \in 1 .. n})
    BY DEF Indexed
  <2>. QED BY <2>1, <2>2, Zenon
<1>4. QED BY <1>1, <1>2, <1>3

\* An upload without errors has rows that can be confirmed, the catalogue's ISINs among them.
LEMMA CompletedAre ==
  ASSUME NEW file \in Uploads, Clean(RowsOf(file))
  PROVE  RowsGood(Completed(RowsOf(file)))
<1>. DEFINE raws == RowsOf(file)
            rows == Completed(raws)
            n == Len(Lines(file))
<1>1. n \in Nat /\ DOMAIN Lines(file) = 1 .. n
  BY LinesAre
<1>2. DOMAIN raws = 1 .. n /\ \A k \in 1 .. n : raws[k] = [c \in Columns |-> Cell(file, Lines(file)[k], c)]
  BY <1>1 DEF RowsOf
<1>3. RowsAre(rows)
  <2>1. Indexed(rows, n)
    BY <1>2 DEF Completed, Indexed
  <2>2. rows \in Seq(ToSet(rows))
    <3>. HIDE DEF rows, n
    <3>. QED BY <1>1, <2>1, IndexedIs
  <2>. QED BY <2>2 DEF RowsAre
<1>4. ASSUME NEW k \in DOMAIN rows PROVE Named(rows[k]) /\ rows[k].value \in Nat \cup {Blank}
  <2>. DEFINE raw == raws[k]
  <2>1. k \in 1 .. n /\ rows[k] = WithIsin(raws, raw)
    BY <1>2 DEF Completed
  <2>2. raw = [c \in Columns |-> raw[c]] /\ {"isin", "value", "symbol", "description"} \subseteq Columns
    BY <1>2, <2>1 DEF Columns
  <2>3. Errors(raw) = {}
    BY <1>2, <2>1 DEF Clean
  <2>4. {raw.isin, raw.symbol, raw.description} # {Blank}
    BY <2>2, <2>3 DEF Errors
  <2>5. raw.value \in Nat \cup {Blank}
    BY <2>2, <2>3 DEF Errors, NoNumber
  <2>6. \/ rows[k] = raw
        \/ raw.symbol # Blank /\ \E x : rows[k] = [raw EXCEPT !.isin = x]
    BY <2>1 DEF WithIsin, Wanted
  <2>7. CASE rows[k] = raw
    BY <2>4, <2>5, <2>7 DEF Named
  <2>8. ASSUME raw.symbol # Blank, NEW x, rows[k] = [raw EXCEPT !.isin = x] PROVE Named(rows[k]) /\ rows[k].value \in Nat \cup {Blank}
    <3>. HIDE DEF raw, rows
    <3>1. rows[k].symbol = raw.symbol /\ rows[k].value = raw.value
      BY <2>2, <2>8
    <3>. QED BY <2>5, <2>8, <3>1 DEF Named
  <2>. HIDE DEF raw, rows
  <2>. QED BY <2>6, <2>7, <2>8
<1>. QED BY <1>3, <1>4 DEF RowsGood

\* As holdings they keep their keys and values.
LEMMA ObservedAre ==
  ASSUME NEW rows, RowsGood(rows)
  PROVE  /\ Observations(rows) \in Seq(ToSet(Observations(rows))) /\ DOMAIN Observations(rows) = DOMAIN rows
         /\ \A k \in DOMAIN rows : /\ Observations(rows)[k].key = DedupKey(rows[k]) /\ Observations(rows)[k].value = rows[k].value
                                   /\ Observations(rows)[k].value \in Nat \cup {Blank}
<1>. DEFINE o == Observations(rows)
<1>1. Len(rows) \in Nat /\ DOMAIN rows = 1 .. Len(rows)
  BY DEF RowsGood, RowsAre
<1>2. o = [k \in DOMAIN rows |-> Observed(rows[k])]
  BY DEF Observations
<1>3. Indexed(o, Len(rows))
  BY <1>1, <1>2 DEF Indexed
<1>4. o \in Seq(ToSet(o)) /\ DOMAIN o = DOMAIN rows
  <2>. DEFINE n == Len(rows)
  <2>1. n \in Nat /\ DOMAIN rows = 1 .. n /\ Indexed(o, n)
    BY <1>1, <1>3
  <2>. HIDE DEF o, n
  <2>. QED BY <2>1, IndexedIs
<1>5. \A k \in DOMAIN rows : o[k] = Observed(rows[k])
  BY <1>2
<1>6. ASSUME NEW k \in DOMAIN rows
      PROVE  o[k].key = DedupKey(rows[k]) /\ o[k].value = rows[k].value /\ rows[k].value \in Nat \cup {Blank}
  <2>1. rows[k].value \in Nat \cup {Blank}
    BY DEF RowsGood
  <2>2. Observed(rows[k]).key = DedupKey(rows[k]) /\ Observed(rows[k]).value = rows[k].value
    BY DEF Observed
  <2>. HIDE DEF o
  <2>. QED BY <1>5, <2>1, <2>2
<1>. HIDE DEF o
<1>7. \A k \in DOMAIN rows : o[k].key = DedupKey(rows[k]) /\ o[k].value = rows[k].value /\ o[k].value \in Nat \cup {Blank}
  BY <1>6
<1>. QED BY <1>4, <1>7 DEF o

\* Claims, and values of holdings, that can be added up.
Countable(claims) == IsFiniteSet(claims) /\ \A c \in claims : c.amount \in Nat
ValuesFit(rows) == DOMAIN rows = 1 .. Len(rows) /\ Len(rows) \in Nat /\ \A k \in DOMAIN rows : rows[k].value \in Nat \cup {Blank}

\* The claims that the twin still counts.
Standing(claims) == {c \in claims : StillClaims(c)}

\* What is set aside on a holding is a number, which grows with the claims.
LEMMA AsideType ==
  ASSUME NEW claims, Countable(claims), NEW key
  PROVE  SetAsideOn(claims, key) \in Int
<1>. DEFINE S == {c \in claims : c.key = key}
            w == [c \in claims |-> c.amount]
<1>1. IsFiniteSet(S) /\ \A c \in S : w[c] \in Int
  BY FS_Subset DEF Countable
<1>2. Sum(w, S) \in Int
  <2>. HIDE DEF w, S
  <2>. QED BY <1>1, SumType
<1>. QED BY <1>2 DEF SetAsideOn, Sum

\* More claims set aside no less.
LEMMA AsideGrows ==
  ASSUME NEW fewer, NEW claims, Countable(fewer), Countable(claims), NEW key,
         {c \in fewer : c.key = key} \subseteq {c \in claims : c.key = key}
  PROVE  SetAsideOn(fewer, key) <= SetAsideOn(claims, key)
<1>. DEFINE T == {c \in fewer : c.key = key}
            S == {c \in claims : c.key = key}
            v == [c \in fewer |-> c.amount]
            w == [c \in claims |-> c.amount]
<1>1. IsFiniteSet(S) /\ T \subseteq S
  BY FS_Subset DEF Countable
<1>2. /\ \A c \in T : v[c] \in Int /\ v[c] <= w[c]
      /\ \A c \in S : w[c] \in Int /\ 0 <= w[c]
  <2>1. \A c \in T : v[c] = c.amount /\ w[c] = c.amount /\ c.amount \in Nat
    BY <1>1 DEF Countable
  <2>2. \A c \in S : w[c] = c.amount /\ c.amount \in Nat
    BY DEF Countable
  <2>. HIDE DEF v, w, S, T
  <2>. QED BY <2>1, <2>2
<1>3. Sum(v, T) <= Sum(w, S)
  <2>. HIDE DEF v, w, S, T
  <2>1. \A c \in T : v[c] \in Int
    BY <1>2
  <2>2. \A c \in S : w[c] \in Int
    BY <1>2
  <2>3. \A c \in T : v[c] <= w[c]
    BY <1>2
  <2>4. \A c \in S \ T : 0 <= w[c]
    BY <1>2
  <2>. QED BY <1>1, <2>1, <2>2, <2>3, <2>4, SumMonotone
<1>. QED BY <1>3 DEF SetAsideOn, Sum

\* What a holding is worth is a number.
LEMMA WorthType ==
  ASSUME NEW rows, ValuesFit(rows), NEW key
  PROVE  Worth(rows, key) \in Int
<1>. DEFINE S == {k \in DOMAIN rows : rows[k].key = key}
            w == [k \in DOMAIN rows |-> IF rows[k].value = Blank THEN 0 ELSE rows[k].value]
<1>1. IsFiniteSet(S) /\ \A k \in S : w[k] \in Int
  <2>1. IsFiniteSet(DOMAIN rows)
    BY FS_Interval DEF ValuesFit
  <2>2. IsFiniteSet(S)
    BY <2>1, FS_Subset
  <2>3. \A k \in S : w[k] \in Int
    BY DEF ValuesFit
  <2>. QED BY <2>2, <2>3
<1>2. Sum(w, S) \in Int
  <2>. HIDE DEF w, S
  <2>. QED BY <1>1, SumType
<1>. QED BY <1>2 DEF Worth, Sum

\* The worth of a key that one row has is the value of that row.
LEMMA WorthOfOne ==
  ASSUME NEW rows, ValuesFit(rows), NEW k \in DOMAIN rows, {j \in DOMAIN rows : rows[j].key = rows[k].key} = {k}, rows[k].value # Blank
  PROVE  Worth(rows, rows[k].key) = rows[k].value
<1>. DEFINE S == {j \in DOMAIN rows : rows[j].key = rows[k].key}
            w == [j \in DOMAIN rows |-> IF rows[j].value = Blank THEN 0 ELSE rows[j].value]
<1>1. IsFiniteSet(S) /\ S \ {k} = {} /\ k \in S /\ \A j \in S : w[j] = rows[k].value
  BY FS_Singleton
<1>2. rows[k].value \in Int
  BY DEF ValuesFit
<1>3. Sum(w, S) = w[k] + Sum(w, S \ {k})
  <2>. HIDE DEF w, S
  <2>. QED BY <1>1, <1>2, SumRemove
<1>4. Sum(w, S \ {k}) = 0
  <2>. HIDE DEF w, S
  <2>. QED BY <1>1, SumEmpty
<1>5. Sum(w, S) = rows[k].value
  <2>. HIDE DEF w, S
  <2>. QED BY <1>1, <1>2, <1>3, <1>4
<1>. QED BY <1>5 DEF Worth, Sum

\* Fewer claims on the same holdings still fit.
LEMMA FewerFit ==
  ASSUME NEW rows, ValuesFit(rows), NEW fewer, NEW claims, Countable(fewer), Countable(claims), NEW key,
         {c \in fewer : c.key = key} \subseteq {c \in claims : c.key = key}, ~Misfit(rows, claims, key)
  PROVE  ~Misfit(rows, fewer, key)
<1>1. SetAsideOn(fewer, key) <= SetAsideOn(claims, key)
  BY AsideGrows
<1>2. SetAsideOn(fewer, key) \in Int /\ SetAsideOn(claims, key) \in Int /\ Worth(rows, key) \in Int
  BY AsideType, WorthType
<1>3. ~(SetAsideOn(claims, key) > Worth(rows, key))
  BY DEF Misfit
<1>4. ~(SetAsideOn(fewer, key) > Worth(rows, key))
  BY <1>1, <1>2, <1>3
<1>. QED BY <1>4 DEF Misfit

\* A claim is as it was written.
IsClaim(c) == c = [key |-> c.key, amount |-> c.amount, status |-> c.status, id |-> c.id]

\* Active claims fit the holding they are on, beside the others that stand.
ActiveFit == \A c \in setAside : c.status = "active" => ~Misfit(holding, Standing(setAside), c.key)

\* What is on screen was computed from the holdings and claims of now.
OnScreen == preview # NoPreview => \E file \in Uploads : preview = PreviewOf(RowsOf(file))

\* What holds of the screen and the stored holdings whenever the owner may confirm.
PreviewInv ==
  /\ HoldingIs /\ ValuesFit(holding)
  /\ IsFiniteSet(setAside) /\ \A c \in setAside : IsClaim(c) /\ c.amount \in Nat
  /\ ActiveFit
  /\ OnScreen

\* The claims that stand can be added up.
LEMMA StandingAmounts ==
  ASSUME NEW claims, IsFiniteSet(claims), \A c \in claims : c.amount \in Nat
  PROVE  Countable(Standing(claims))
<1>1. IsFiniteSet(Standing(claims))
  BY FS_Subset DEF Standing
<1>. QED BY <1>1 DEF Countable, Standing

\* A preview that can be confirmed compares the rows of an upload with the holdings.
LEMMA ShownFrom ==
  ASSUME NEW raws, NEW p, p = PreviewOf(raws), p.clean
  PROVE  LET rows == Completed(raws)
             hits == Hits(rows)
         IN  /\ Clean(raws) /\ p.rows = rows /\ p.hits = hits /\ p.doubled = Doubled(rows)
             /\ p.added = {k \in DOMAIN rows : hits[k] = 0} /\ p.removed = Removed(hits) /\ p.changed = Changed(rows, hits)
             /\ p.unchanged = Cardinality({k \in DOMAIN rows : hits[k] # 0 /\ Alike(holding[hits[k]], rows[k])})
             /\ p.claims = {c \in setAside : StillClaims(c) /\ c.key \in Touched(rows, hits)}
<1>. DEFINE rows == Completed(raws)
            hits == Hits(rows)
<1>1. PreviewOf(raws) = IF ~Clean(raws) THEN [rows |-> rows, clean |-> FALSE]
     ELSE [rows |-> rows, clean |-> TRUE, doubled |-> Doubled(rows),
           added |-> {k \in DOMAIN rows : hits[k] = 0}, removed |-> Removed(hits), changed |-> Changed(rows, hits),
           unchanged |-> Cardinality({k \in DOMAIN rows : hits[k] # 0 /\ Alike(holding[hits[k]], rows[k])}),
           hits |-> hits, claims |-> {c \in setAside : StillClaims(c) /\ c.key \in Touched(rows, hits)}]
  BY DEF PreviewOf, Completed, Clean
<1>. HIDE DEF rows, hits
<1>2. Clean(raws)
  BY <1>1
<1>3. p = [rows |-> rows, clean |-> TRUE, doubled |-> Doubled(rows),
           added |-> {k \in DOMAIN rows : hits[k] = 0}, removed |-> Removed(hits), changed |-> Changed(rows, hits),
           unchanged |-> Cardinality({k \in DOMAIN rows : hits[k] # 0 /\ Alike(holding[hits[k]], rows[k])}),
           hits |-> hits, claims |-> {c \in setAside : StillClaims(c) /\ c.key \in Touched(rows, hits)}]
  BY <1>1, <1>2
<1>. QED BY <1>2, <1>3 DEF rows, hits

\* A claim that the preview does not count and whose holding has neither another name nor a doubled row still fits.
LEMMA UncountedFits ==
  ASSUME HoldingIs, ValuesFit(holding), NEW rows, RowsGood(rows), NEW hits, Matching(rows, hits),
         NEW claims, NEW key, ~Misfit(holding, claims, key), key \notin Touched(rows, hits),
         key \notin {holding[hits[k]].key : k \in {j \in DOMAIN rows : hits[j] # 0 /\ holding[hits[j]].key # DedupKey(rows[j])}},
         key \notin {DedupKey(rows[k]) : k \in Doubled(rows)}
  PROVE  ~Misfit(Observations(rows), claims, key)
<1>. DEFINE obs == Observations(rows)
<1>1. RowsAre(rows)
  BY DEF RowsGood
<1>2. /\ \A j \in DOMAIN rows, k \in DOMAIN rows : hits[j] = hits[k] /\ hits[j] # 0 => j = k
      /\ 0 \notin DOMAIN holding /\ DOMAIN rows = 1 .. Len(rows) /\ DOMAIN holding = 1 .. Len(holding)
      /\ Len(rows) \in Nat /\ Len(holding) \in Nat
  BY <1>1, TakenOnce
<1>3. /\ obs \in Seq(ToSet(obs)) /\ DOMAIN obs = DOMAIN rows
      /\ \A k \in DOMAIN rows : obs[k].key = DedupKey(rows[k]) /\ obs[k].value = rows[k].value /\ obs[k].value \in Nat \cup {Blank}
  BY ObservedAre
<1>. HIDE DEF obs
<1>4. ValuesFit(obs)
  <2>1. Len(obs) \in Nat /\ DOMAIN obs = 1 .. Len(obs)
    BY <1>3
  <2>. QED BY <1>3, <2>1 DEF ValuesFit
<1>5. ASSUME NEW k \in DOMAIN holding, holding[k].key = key
      PROVE  \E n \in DOMAIN rows : hits[n] = k /\ DedupKey(rows[n]) = key /\ rows[n].value = holding[k].value
  <2>1. k \notin Removed(hits) \cup Changed(rows, hits)
    BY <1>5 DEF Touched
  <2>2. k \in ToSet(hits)
    BY <2>1 DEF Removed
  <2>3. PICK n \in DOMAIN rows : hits[n] = k
    BY <2>2 DEF ToSet, Matching
  <2>4. hits[n] # 0
    BY <1>2, <2>3
  <2>5. Alike(holding[k], rows[n])
    BY <2>1, <2>3, <2>4 DEF Changed
  <2>6. DedupKey(rows[n]) = key
    BY <1>5, <2>3, <2>4
  <2>. QED BY <2>3, <2>5, <2>6 DEF Alike
<1>6. ASSUME NEW m \in DOMAIN rows, NEW n \in DOMAIN rows, DedupKey(rows[m]) = key, DedupKey(rows[n]) = key PROVE m = n
  <2>1. ASSUME NEW i \in DOMAIN rows, NEW j \in DOMAIN rows, DedupKey(rows[i]) = key, DedupKey(rows[j]) = key, i < j PROVE FALSE
    <3>1. i \in 1 .. j - 1
      BY <1>2, <2>1
    <3>2. j \in Doubled(rows)
      BY <2>1, <3>1 DEF Doubled
    <3>. QED BY <2>1, <3>2
  <2>2. m < n \/ n < m \/ m = n
    BY <1>2
  <2>. QED BY <1>6, <2>1, <2>2
<1>7. PICK k \in DOMAIN holding : holding[k].key = key
  BY DEF Misfit
<1>8. PICK n \in DOMAIN rows : hits[n] = k /\ DedupKey(rows[n]) = key /\ rows[n].value = holding[k].value
  BY <1>5, <1>7
<1>9. {j \in DOMAIN holding : holding[j].key = holding[k].key} = {k}
  <2>1. ASSUME NEW j \in DOMAIN holding, holding[j].key = key PROVE j = k
    <3>1. PICK i \in DOMAIN rows : hits[i] = j /\ DedupKey(rows[i]) = key
      BY <1>5, <2>1
    <3>2. i = n
      BY <1>6, <1>8, <3>1
    <3>. QED BY <1>8, <3>1, <3>2
  <2>. QED BY <1>7, <2>1
<1>10. {j \in DOMAIN obs : obs[j].key = obs[n].key} = {n}
  BY <1>3, <1>6, <1>8
<1>11. holding[k].value # Blank /\ obs[n].key = key /\ obs[n].value = holding[k].value
  BY <1>3, <1>7, <1>8 DEF Misfit
<1>12. Worth(holding, key) = holding[k].value
  BY <1>7, <1>9, <1>11, WorthOfOne
<1>13. Worth(obs, key) = obs[n].value
  <2>1. n \in DOMAIN obs /\ obs[n].value # Blank
    BY <1>3, <1>11
  <2>2. Worth(obs, obs[n].key) = obs[n].value
    BY <1>4, <1>10, <2>1, WorthOfOne
  <2>. QED BY <1>11, <2>2
<1>14. ~(SetAsideOn(claims, key) > Worth(obs, key))
  BY <1>11, <1>12, <1>13 DEF Misfit
<1>15. \A j \in DOMAIN obs : obs[j].key = key => obs[j].value # Blank
  <2>. SUFFICES ASSUME NEW j \in DOMAIN obs, obs[j].key = key PROVE obs[j].value # Blank
    OBVIOUS
  <2>1. j = n
    BY <1>3, <1>6, <1>8
  <2>. QED BY <1>11, <2>1
<1>16. n \in DOMAIN obs
  BY <1>3
<1>. QED BY <1>11, <1>14, <1>15, <1>16 DEF Misfit, obs

\* So the comparison on screen is true.
LEMMA PreviewIsTrue == ASSUME PreviewInv PROVE PreviewTrue
<1>. SUFFICES ASSUME CanConfirm(preview) PROVE PreviewTrue
  BY DEF PreviewTrue, EveryRowOnce, RepeatIsQuiet, FlagsAnnounced
<1>1. PICK file \in Uploads : preview = PreviewOf(RowsOf(file))
  <2>1. preview # NoPreview
    BY DEF CanConfirm, NoPreview
  <2>. QED BY <2>1 DEF PreviewInv, OnScreen
<1>. DEFINE raws == RowsOf(file)
            rows == Completed(raws)
            hits == Hits(rows)
<1>2. /\ Clean(raws) /\ preview.rows = rows /\ preview.hits = hits /\ preview.doubled = Doubled(rows)
      /\ preview.added = {k \in DOMAIN rows : hits[k] = 0} /\ preview.removed = Removed(hits) /\ preview.changed = Changed(rows, hits)
      /\ preview.unchanged = Cardinality({k \in DOMAIN rows : hits[k] # 0 /\ Alike(holding[hits[k]], rows[k])})
      /\ preview.claims = {c \in setAside : StillClaims(c) /\ c.key \in Touched(rows, hits)}
  <2>1. preview.clean
    BY DEF CanConfirm
  <2>. HIDE DEF raws
  <2>2. preview = PreviewOf(raws)
    BY <1>1 DEF raws
  <2>. QED BY <2>1, <2>2, ShownFrom
<1>3. RowsGood(rows)
  BY <1>2, CompletedAre
<1>4. RowsAre(rows) /\ HoldingIs /\ ValuesFit(holding)
  BY <1>3 DEF RowsGood, PreviewInv
<1>5. Matching(rows, hits)
  <2>. HIDE DEF rows
  <2>. QED BY <1>4, HitsAre
<1>. HIDE DEF raws, rows, hits
<1>6. EveryRowOnce
  BY <1>2, <1>4, <1>5, EachInOneGroup DEF EveryRowOnce
<1>7. RepeatIsQuiet
  <2>. SUFFICES ASSUME Observations(rows) = holding PROVE preview.added = {} /\ preview.removed = {} /\ preview.changed = {}
    BY <1>2 DEF RepeatIsQuiet
  <2>1. \A k \in DOMAIN rows : hits[k] = k /\ Alike(holding[k], rows[k])
    <3>1. \A k \in DOMAIN rows : Named(rows[k])
      BY <1>3 DEF RowsGood
    <3>. QED BY <1>4, <1>5, <3>1, RepeatMatches
  <2>2. DOMAIN rows = 1 .. Len(rows) /\ DOMAIN holding = DOMAIN rows
    BY <1>4, <1>5, TakenOnce DEF Observations
  <2>3. preview.added = {}
    BY <1>2, <2>1, <2>2
  <2>4. preview.removed = {}
    <3>1. \A k \in DOMAIN holding : k \in ToSet(hits)
      BY <1>5, <2>1, <2>2 DEF ToSet, Matching
    <3>. QED BY <1>2, <3>1 DEF Removed
  <2>5. preview.changed = {}
    BY <1>2, <2>1 DEF Changed
  <2>. QED BY <2>3, <2>4, <2>5
<1>8. FlagsAnnounced
  <2>. SUFFICES ASSUME NEW c \in setAside, c.status = "active", c \notin Flagged(Observations(rows), setAside)
                PROVE  c \in preview.claims \/ c.key \in Renamed(preview) \cup {DedupKey(preview.rows[k]) : k \in preview.doubled}
    BY <1>2 DEF FlagsAnnounced
  <2>1. Misfit(Observations(rows), Standing(setAside), c.key)
    BY DEF Flagged, Standing
  <2>2. ~Misfit(holding, Standing(setAside), c.key)
    BY DEF PreviewInv, ActiveFit
  <2>3. c.key \in Touched(rows, hits) => c \in preview.claims
    BY <1>2 DEF StillClaims
  <2>4. Renamed(preview) = {holding[hits[k]].key : k \in {j \in DOMAIN rows : hits[j] # 0 /\ holding[hits[j]].key # DedupKey(rows[j])}}
    BY <1>2 DEF Renamed
  <2>5. {DedupKey(preview.rows[k]) : k \in preview.doubled} = {DedupKey(rows[k]) : k \in Doubled(rows)}
    BY <1>2
  <2>6. \/ c.key \in Touched(rows, hits)
        \/ c.key \in {holding[hits[k]].key : k \in {j \in DOMAIN rows : hits[j] # 0 /\ holding[hits[j]].key # DedupKey(rows[j])}}
        \/ c.key \in {DedupKey(rows[k]) : k \in Doubled(rows)}
    BY <1>3, <1>4, <1>5, <2>1, <2>2, UncountedFits
  <2>. QED BY <2>3, <2>4, <2>5, <2>6
<1>. QED BY <1>6, <1>7, <1>8 DEF PreviewTrue

\* The rows of an upload as holdings: what a confirmation stores, and what the account had before.
LEMMA StoredRows ==
  ASSUME NEW file \in Uploads, Clean(RowsOf(file)), NEW rows, rows = Observations(Completed(RowsOf(file)))
  PROVE  rows \in Seq(ToSet(rows)) /\ ValuesFit(rows)
<1>. DEFINE read == Completed(RowsOf(file))
<1>1. RowsGood(read)
  BY CompletedAre
<1>. HIDE DEF read
<1>2. rows \in Seq(ToSet(rows)) /\ DOMAIN rows = DOMAIN read /\ \A k \in DOMAIN read : rows[k].value \in Nat \cup {Blank}
  BY <1>1, ObservedAre DEF read
<1>3. Len(rows) \in Nat /\ DOMAIN rows = 1 .. Len(rows)
  BY <1>2
<1>. QED BY <1>2, <1>3 DEF ValuesFit

\* At first nothing is claimed and nothing on screen.
LEMMA PreviewStarts == ASSUME PreviewInit PROVE PreviewInv
<1>1. HoldingIs /\ ValuesFit(holding)
  <2>1. CASE holding = <<>>
    <3>1. <<>> \in Seq(ToSet(<<>>)) /\ DOMAIN <<>> = 1 .. Len(<<>>) /\ Len(<<>>) = 0
      OBVIOUS
    <3>. QED BY <2>1, <3>1 DEF HoldingIs, ValuesFit
  <2>2. CASE holding # <<>>
    <3>1. PICK file \in Uploads : Clean(RowsOf(file)) /\ holding = Observations(Completed(RowsOf(file)))
      BY <2>2 DEF PreviewInit, Clean, Completed
    <3>2. holding \in Seq(ToSet(holding)) /\ ValuesFit(holding)
      BY <3>1, StoredRows
    <3>. QED BY <3>2 DEF HoldingIs
  <2>. QED BY <2>1, <2>2
<1>2. IsFiniteSet(setAside) /\ \A c \in setAside : IsClaim(c) /\ c.amount \in Nat
  BY FS_EmptySet DEF PreviewInit
<1>3. ActiveFit /\ OnScreen
  BY DEF PreviewInit, ActiveFit, OnScreen
<1>. QED BY <1>1, <1>2, <1>3 DEF PreviewInv

\* A preview of rows, with the parts of the comparison.
ShownAs(raws, rows, hits, removed, changed, same, counted) ==
  IF ~Clean(raws) THEN [rows |-> rows, clean |-> FALSE]
  ELSE [rows |-> rows, clean |-> TRUE, doubled |-> Doubled(rows), added |-> {k \in DOMAIN rows : hits[k] = 0}, removed |-> removed,
        changed |-> changed, unchanged |-> same, hits |-> hits, claims |-> counted]

\* What is shown is a function of the catalogue, the holdings and the claims.
LEMMA SameShown ==
  ASSUME UNCHANGED <<listed, holding, setAside>>, NEW raws
  PROVE  PreviewOf(raws)' = PreviewOf(raws)
<1>1. \A raw : WithIsin(raws, raw)' = WithIsin(raws, raw)
  BY DEF WithIsin
<1>2. \A rows : Hits(rows)' = Hits(rows)
  BY SMT DEF Hits, FoldLeft, MapThenFoldSet
<1>3. \A hits : Removed(hits)' = Removed(hits)
  BY DEF Removed
<1>4. \A rows, hits : Changed(rows, hits)' = Changed(rows, hits)
  BY DEF Changed, Alike
<1>5. \A rows, hits : Touched(rows, hits)' = Touched(rows, hits)
  BY DEF Touched, Removed, Changed, Alike
<1>6. Completed(raws)' = Completed(raws)
  BY <1>1 DEF Completed
<1>. DEFINE rows == Completed(raws)
            hits == Hits(rows)
            same == Cardinality({k \in DOMAIN rows : hits[k] # 0 /\ Alike(holding[hits[k]], rows[k])})
            counted == {c \in setAside : StillClaims(c) /\ c.key \in Touched(rows, hits)}
<1>7. PreviewOf(raws) = ShownAs(raws, rows, hits, Removed(hits), Changed(rows, hits), same, counted)
  BY DEF PreviewOf, ShownAs, Completed, Clean
<1>8. rows' = rows /\ hits' = hits
  BY <1>2, <1>6
<1>9. Removed(hits)' = Removed(hits) /\ Changed(rows, hits)' = Changed(rows, hits) /\ Touched(rows, hits)' = Touched(rows, hits)
  <2>. HIDE DEF rows, hits
  <2>. QED BY <1>3, <1>4, <1>5, <1>8 DEF Removed, Changed, Touched, Alike
<1>10. same' = same /\ counted' = counted
  <2>. HIDE DEF rows, hits
  <2>. QED BY <1>8, <1>9 DEF Alike, StillClaims
<1>11. PreviewOf(raws)' = ShownAs(raws, rows', hits', Removed(hits)', Changed(rows, hits)', same', counted')
  BY <1>7 DEF PreviewOf, ShownAs, Completed, Clean
<1>. HIDE DEF rows, hits, same, counted
<1>. QED BY <1>7, <1>8, <1>9, <1>10, <1>11

\* A preview writes nothing but the screen.
LEMMA PreviewShows == ASSUME PreviewInv, NEW file \in Uploads, Preview(file) PROVE PreviewInv'
<1>1. preview' = PreviewOf(RowsOf(file)) /\ UNCHANGED <<listed, holding, setAside, turns>>
  BY DEF Preview
<1>2. PreviewOf(RowsOf(file))' = PreviewOf(RowsOf(file))
  BY <1>1, SameShown
<1>3. OnScreen'
  BY <1>1, <1>2 DEF OnScreen
<1>. QED BY <1>1, <1>3 DEF PreviewInv, HoldingIs, ActiveFit

\* With nothing on screen there is nothing stale.
LEMMA Unshown == ASSUME preview' = NoPreview PROVE OnScreen'
  BY DEF OnScreen, NoPreview

\* The owner leaves.
LEMMA PreviewLeft == ASSUME PreviewInv, Leave PROVE PreviewInv'
<1>1. OnScreen'
  BY Unshown DEF Leave
<1>. QED BY <1>1 DEF Leave, PreviewInv, HoldingIs, ActiveFit

\* A confirmation replaces the holdings by those rows, and flags the active claims that no longer fit.
LEMMA ConfirmKeeps == ASSUME PreviewInv, NEW yes \in BOOLEAN, ConfirmShown(yes) PROVE PreviewInv'
<1>. DEFINE obs == Observations(preview.rows)
            Now == Standing(setAside)
<1>1. /\ preview # NoPreview /\ CanConfirm(preview) /\ holding' = obs /\ setAside' = Flagged(obs, setAside)
      /\ preview' = NoPreview
  BY DEF ConfirmShown
<1>2. PICK file \in Uploads : preview = PreviewOf(RowsOf(file))
  BY <1>1 DEF PreviewInv, OnScreen
<1>3. Clean(RowsOf(file)) /\ preview.rows = Completed(RowsOf(file))
  <2>. DEFINE raws == RowsOf(file)
  <2>. HIDE DEF raws
  <2>1. preview = PreviewOf(raws) /\ preview.clean
    BY <1>1, <1>2 DEF CanConfirm, raws
  <2>2. Clean(raws) /\ preview.rows = Completed(raws)
    BY <2>1, ShownFrom
  <2>. QED BY <2>2 DEF raws
<1>4. holding' \in Seq(ToSet(holding')) /\ ValuesFit(holding')
  BY <1>1, <1>3, StoredRows
<1>. HIDE DEF obs
<1>5. HoldingIs' /\ ValuesFit(holding)'
  <2>1. HoldingIs' <=> holding' \in Seq(ToSet(holding'))
    BY DEF HoldingIs
  <2>2. ValuesFit(holding)' <=> ValuesFit(holding')
    BY DEF ValuesFit
  <2>. QED BY <1>4, <2>1, <2>2
<1>. DEFINE flag == [c \in setAside |-> IF c.status = "active" /\ Misfit(obs, Now, c.key) THEN [c EXCEPT !.status = "needs_review"] ELSE c]
<1>6. setAside' = {flag[c] : c \in setAside}
  BY <1>1 DEF Flagged, Standing
<1>7. ASSUME NEW c \in setAside
      PROVE  /\ IsClaim(flag[c]) /\ flag[c].amount \in Nat /\ flag[c].key = c.key
             /\ flag[c] = c \/ (flag[c].status = "needs_review" /\ Misfit(obs, Now, c.key))
             /\ flag[c].status = "active" => flag[c] = c /\ ~Misfit(obs, Now, c.key)
  <2>1. c = [key |-> c.key, amount |-> c.amount, status |-> c.status, id |-> c.id] /\ c.amount \in Nat
    BY DEF PreviewInv, IsClaim
  <2>2. CASE c.status = "active" /\ Misfit(obs, Now, c.key)
    <3>1. flag[c] = [key |-> c.key, amount |-> c.amount, status |-> "needs_review", id |-> c.id]
      BY <2>1, <2>2
    <3>. HIDE DEF flag
    <3>. QED BY <2>1, <2>2, <3>1 DEF IsClaim
  <2>3. CASE ~(c.status = "active" /\ Misfit(obs, Now, c.key))
    <3>1. flag[c] = c
      BY <2>3
    <3>2. IsClaim(c)
      BY <2>1 DEF IsClaim
    <3>3. c.status = "active" => ~Misfit(obs, Now, c.key)
      BY <2>3
    <3>. HIDE DEF flag
    <3>4. flag[c].status = "active" => flag[c] = c /\ ~Misfit(obs, Now, c.key)
      BY <3>1, <3>3
    <3>5. IsClaim(flag[c]) /\ flag[c].amount \in Nat /\ flag[c].key = c.key
      BY <2>1, <3>1, <3>2
    <3>. QED BY <3>1, <3>4, <3>5
  <2>. QED BY <2>2, <2>3
<1>8. IsFiniteSet(setAside')
  <2>1. flag \in Surjection(setAside, setAside')
    <3>. HIDE DEF Now
    <3>1. flag \in [setAside -> setAside']
      BY <1>6
    <3>2. \A t \in setAside' : \E s \in setAside : flag[s] = t
      <4>. HIDE DEF flag
      <4>. QED BY <1>6
    <3>. HIDE DEF flag
    <3>. QED BY <3>1, <3>2 DEF Surjection
  <2>2. IsFiniteSet(setAside)
    BY DEF PreviewInv
  <2>. HIDE DEF flag
  <2>. QED BY <2>1, <2>2, FS_Surjection
<1>. HIDE DEF flag
<1>9. \A c \in setAside' : IsClaim(c) /\ c.amount \in Nat
  BY <1>6, <1>7
<1>10. ASSUME NEW c \in setAside', c.status = "active" PROVE ~Misfit(holding', Standing(setAside'), c.key)
  <2>1. PICK d \in setAside : c = flag[d]
    BY <1>6
  <2>2. c = d /\ ~Misfit(obs, Now, c.key)
    BY <1>7, <1>10, <2>1
  <2>3. {x \in Standing(setAside') : x.key = c.key} \subseteq {x \in Now : x.key = c.key}
    <3>. SUFFICES ASSUME NEW x \in setAside', StillClaims(x), x.key = c.key PROVE x \in Now
      BY DEF Standing
    <3>1. PICK y \in setAside : x = flag[y]
      BY <1>6
    <3>2. x = y
      BY <1>7, <2>2, <3>1
    <3>. QED BY <3>2 DEF Standing
  <2>4. Countable(Standing(setAside')) /\ Countable(Now)
    <3>1. Countable(Standing(setAside'))
      BY <1>8, <1>9, StandingAmounts
    <3>2. Countable(Now)
      BY StandingAmounts DEF PreviewInv
    <3>. QED BY <3>1, <3>2
  <2>5. ValuesFit(obs)
    BY <1>1, <1>4
  <2>6. ~Misfit(obs, Standing(setAside'), c.key)
    <3>. HIDE DEF Now
    <3>. QED BY <2>2, <2>3, <2>4, <2>5, FewerFit
  <2>. QED BY <1>1, <2>6
<1>11. ActiveFit'
  BY <1>10 DEF ActiveFit, Misfit, Standing
<1>12. OnScreen'
  BY <1>1, Unshown
<1>. QED BY <1>5, <1>8, <1>9, <1>11, <1>12 DEF PreviewInv

\* A goal claims what is not yet claimed: the claim and those before it fit.
LEMMA SetAsideKeeps == ASSUME PreviewInv, NEW k \in DOMAIN holding, NEW amount \in ClaimAmounts, SetAside(k, amount) PROVE PreviewInv'
<1>. DEFINE key == holding[k].key
            new == [key |-> key, amount |-> amount, status |-> "active", id |-> turns]
<1>1. /\ setAside' = setAside \cup {new} /\ UNCHANGED <<listed, holding, preview>> /\ preview = NoPreview
      /\ ~Misfit(holding, Standing(setAside'), key)
  BY DEF SetAside, Standing
<1>2. amount \in Nat
  BY PreviewAssumption
<1>3. IsFiniteSet(setAside') /\ \A c \in setAside' : IsClaim(c) /\ c.amount \in Nat
  <2>1. IsFiniteSet(setAside')
    BY <1>1, FS_AddElement DEF PreviewInv
  <2>2. IsClaim(new) /\ new.amount \in Nat
    BY <1>2 DEF IsClaim
  <2>. HIDE DEF new
  <2>. QED BY <1>1, <2>1, <2>2 DEF PreviewInv
<1>4. new.key = key /\ new.status = "active"
  OBVIOUS
<1>. HIDE DEF new, key
<1>5. ASSUME NEW c \in setAside', c.status = "active" PROVE ~Misfit(holding, Standing(setAside'), c.key)
  <2>1. CASE c.key = key
    BY <1>1, <2>1
  <2>2. CASE c.key # key
    <3>1. c \in setAside /\ ~Misfit(holding, Standing(setAside), c.key)
      BY <1>1, <1>4, <1>5, <2>2 DEF PreviewInv, ActiveFit
    <3>2. {x \in Standing(setAside') : x.key = c.key} \subseteq {x \in Standing(setAside) : x.key = c.key}
      BY <1>1, <1>4, <2>2 DEF Standing
    <3>3. Countable(Standing(setAside')) /\ Countable(Standing(setAside))
      <4>1. Countable(Standing(setAside'))
        BY <1>3, StandingAmounts
      <4>2. Countable(Standing(setAside))
        BY StandingAmounts DEF PreviewInv
      <4>. QED BY <4>1, <4>2
    <3>. QED BY <3>1, <3>2, <3>3, FewerFit DEF PreviewInv
  <2>. QED BY <2>1, <2>2
<1>6. ActiveFit'
  BY <1>1, <1>5 DEF ActiveFit, Misfit, Standing
<1>7. OnScreen'
  BY <1>1, Unshown
<1>. QED BY <1>1, <1>3, <1>6, <1>7 DEF PreviewInv, HoldingIs

\* A released claim leaves the others more room.
LEMMA ReleaseKeeps == ASSUME PreviewInv, NEW c \in setAside, Release(c) PROVE PreviewInv'
<1>. DEFINE done == [c EXCEPT !.status = "released"]
<1>1. setAside' = (setAside \ {c}) \cup {done} /\ UNCHANGED <<listed, holding, preview>> /\ preview = NoPreview
  BY DEF Release
<1>2. IsClaim(done) /\ done.amount \in Nat /\ done.status = "released"
  <2>1. c = [key |-> c.key, amount |-> c.amount, status |-> c.status, id |-> c.id] /\ c.amount \in Nat
    BY DEF PreviewInv, IsClaim
  <2>2. done = [key |-> c.key, amount |-> c.amount, status |-> "released", id |-> c.id]
    BY <2>1
  <2>. HIDE DEF done
  <2>. QED BY <2>1, <2>2 DEF IsClaim
<1>. HIDE DEF done
<1>3. IsFiniteSet(setAside') /\ \A d \in setAside' : IsClaim(d) /\ d.amount \in Nat
  <2>1. IsFiniteSet(setAside')
    BY <1>1, FS_AddElement, FS_RemoveElement DEF PreviewInv
  <2>. QED BY <1>1, <1>2, <2>1 DEF PreviewInv
<1>4. ~StillClaims(done)
  BY <1>2 DEF StillClaims
<1>5. ASSUME NEW d \in setAside', d.status = "active" PROVE ~Misfit(holding, Standing(setAside'), d.key)
  <2>1. d \in setAside /\ ~Misfit(holding, Standing(setAside), d.key)
    BY <1>1, <1>2, <1>5 DEF PreviewInv, ActiveFit
  <2>2. {x \in Standing(setAside') : x.key = d.key} \subseteq {x \in Standing(setAside) : x.key = d.key}
    BY <1>1, <1>4 DEF Standing
  <2>3. Countable(Standing(setAside')) /\ Countable(Standing(setAside))
    <3>1. Countable(Standing(setAside'))
      BY <1>3, StandingAmounts
    <3>2. Countable(Standing(setAside))
      BY StandingAmounts DEF PreviewInv
    <3>. QED BY <3>1, <3>2
  <2>. QED BY <2>1, <2>2, <2>3, FewerFit DEF PreviewInv
<1>6. ActiveFit'
  BY <1>1, <1>5 DEF ActiveFit, Misfit, Standing
<1>7. OnScreen'
  BY <1>1, Unshown
<1>. QED BY <1>1, <1>3, <1>6, <1>7 DEF PreviewInv, HoldingIs

\* Whatever is uploaded, confirmed, claimed and released: active claims fit what the account holds, and the screen shows a comparison
\* with the holdings of now.
THEOREM PreviewInvariance == PreviewSpec => []PreviewInv
<1>1. PreviewInit => PreviewInv
  BY PreviewStarts
<1>2. PreviewInv /\ [PreviewNext]_previewVars => PreviewInv'
  <2>. SUFFICES ASSUME PreviewInv, [PreviewNext]_previewVars PROVE PreviewInv'
    OBVIOUS
  <2>1. CASE \E f \in Uploads : Preview(f)
    BY <2>1, PreviewShows
  <2>2. CASE \E yes \in BOOLEAN : ConfirmShown(yes)
    BY <2>2, ConfirmKeeps
  <2>3. CASE Leave
    BY <2>3, PreviewLeft
  <2>4. CASE \E k \in DOMAIN holding, a \in ClaimAmounts : SetAside(k, a)
    BY <2>4, SetAsideKeeps
  <2>5. CASE \E c \in setAside : Release(c)
    BY <2>5, ReleaseKeeps
  <2>6. CASE UNCHANGED previewVars
    <3>1. UNCHANGED <<listed, holding, setAside, preview, turns>>
      BY <2>6 DEF previewVars
    <3>2. \A raws : PreviewOf(raws)' = PreviewOf(raws)
      BY <3>1, SameShown
    <3>. QED BY <3>1, <3>2 DEF PreviewInv, HoldingIs, ActiveFit, OnScreen
  <2>. QED BY <2>1, <2>2, <2>3, <2>4, <2>5, <2>6 DEF PreviewNext
<1>. QED BY <1>1, <1>2, PTL DEF PreviewSpec

\* The comparison an owner confirms has every row and every holding once, shows no change for the same rows again, and counts
\* the claims that the confirmation will flag.
THEOREM PreviewsAreTrue == PreviewSpec => []PreviewTrue
<1>1. PreviewInv => PreviewTrue
  BY PreviewIsTrue
<1>. QED BY <1>1, PreviewInvariance, PTL
=============================================================================
