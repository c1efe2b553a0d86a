----------------------------- MODULE ReportData -----------------------------
(***************************************************************************)
(* The stored data a recommendation run reads and refreshes, and the page  *)
(* of a stock that shows a report next to the data it was made from.       *)
(*                                                                         *)
(* A run is one database transaction of many minutes: it reads what is     *)
(* committed, and what it writes becomes visible with its last commit.     *)
(* The current candle of a day and the address of an article are unique:   *)
(* a run that inserts one another run has inserted and not committed waits *)
(* for it, and fails when the other commits.                               *)
(*                                                                         *)
(* All closes of a company are restated at once (a split, a dividend): a   *)
(* candle carries the restatement it was fetched under.  Which companies   *)
(* pass the screen and the ranking is a free choice here (StockCouncil     *)
(* models it), and the instants of one day are not ordered.                *)
(***************************************************************************)
EXTENDS Integers, Sequences, FiniteSets, FiniteSetsExt, SequencesExt

CONSTANTS
  Names,        \* the companies of the seed
  Runners,     \* workers that run the pipeline
  History,      \* HISTORY_DAYS
  Tolerance,    \* CANDLE_STALENESS_TOLERANCE_DAYS
  RatioTtl,     \* fundamentals_cache_ttl_hours, in days
  MaxToday,     \* bound: days
  MaxBasis,     \* bound: restatements of one company
  MaxReports,   \* bound: published runs
  Missing       \* no such data

ASSUME ReportAssumption ==
  /\ IsFiniteSet(Names) /\ Names # {}
  /\ History \in Nat \ {0} /\ {Tolerance, RatioTtl} \subseteq Nat
  /\ {MaxToday, MaxBasis, MaxReports} \subseteq Nat

VARIABLES
  today,
  basis,     \* the restatement a company's closes are quoted under
  candles,   \* market_candles: [of, day, basis, batch, live]
  ratios,    \* fundamental_metrics: [of, at, by]
  outlooks,  \* kronos_predictions for 30 days: [of, at, by]
  news,      \* the stored articles, by their day
  reports,   \* published runs with their manifests, in the order of their commits
  attempt    \* a worker: the step it is at and its uncommitted writes

reportVars == <<today, basis, candles, ratios, outlooks, news, reports, attempt>>
quotes == <<today, basis>>
tables == <<candles, ratios, outlooks, news, reports>>

\* NIFTY50_SEED: every run goes through the companies in one order.
Order == SetToSeq(Names)
Resting == [at |-> "rest"]

ReportInit ==
  /\ today = 1 /\ basis = [s \in Names |-> 0]
  /\ candles = {} /\ ratios = {} /\ outlooks = {} /\ news = {} /\ reports = <<>>
  /\ attempt = [a \in Runners |-> Resting]

-----------------------------------------------------------------------------
CurrentRows(s) == {c \in candles : c.of = s /\ c.live}
Window == {d \in 1 .. today : d > today - History}
DayOf(rows) == Max({c.day : c \in rows})

\* A cache hit: the newest current row is young enough.  The whole stored series is read, however long.
Cached(s) == CurrentRows(s) # {} /\ today - DayOf(CurrentRows(s)) <= Tolerance

\* A row without its bookkeeping, and its place under the partial unique index.
Plain(c) == [of |-> c.of, day |-> c.day, basis |-> c.basis]
Key(c) == <<c.of, c.day>>

\* The upstream answers with the window under today's basis; the rows that differ are inserted, those they replace retired.
Fetched(s) == {[of |-> s, day |-> d, basis |-> basis[s]] : d \in Window}
ToInsert(s) == Fetched(s) \ {Plain(c) : c \in CurrentRows(s)}
ToRetire(s) == {c \in CurrentRows(s) : \E n \in ToInsert(s) : Key(n) = Key(c)}

\* What another run has inserted and not committed.
AtWork(a) == attempt[a] # Resting
HeldKeys(a) == UNION {{Key(c) : c \in attempt[b].insert \ attempt[b].wait} : b \in {x \in Runners \ {a} : AtWork(x)}}
HeldNews(a) == UNION {attempt[b].news \ attempt[b].newsWait : b \in {x \in Runners \ {a} : AtWork(x)}}

\* The number of a run among those that are ever committed.
StartRun(a) ==
  /\ ~ AtWork(a) /\ Len(reports) < MaxReports
  /\ attempt' = [attempt EXCEPT ![a] =
       [at |-> "candles", i |-> 1, by |-> <<a, Len(reports)>>, series |-> [s \in Names |-> {}], ratio |-> [s \in Names |-> Missing],
        insert |-> {}, wait |-> {}, retire |-> {}, ratios |-> {}, news |-> {}, newsWait |-> {}]]
  /\ UNCHANGED <<quotes, tables>>

\* _fetch_candles and _persist_candles: the cache, no answer, or a fresh window.
GatherCandles(a) ==
  /\ attempt[a].at = "candles"
  /\ LET s == Order[attempt[a].i]
         new == ToInsert(s)
     IN  \/ /\ Cached(s)
            /\ attempt' = [attempt EXCEPT ![a].at = "ratios", ![a].series[s] = {Plain(c) : c \in CurrentRows(s)}]
         \/ /\ ~ Cached(s)
            /\ attempt' = [attempt EXCEPT ![a].at = "ratios"]
         \/ /\ ~ Cached(s)
            /\ LET blocked == {Key(c) : c \in new} \cap HeldKeys(a) # {}
                   next == [attempt[a] EXCEPT !.at = IF blocked THEN "waits for candles" ELSE "ratios", !.wait = IF blocked THEN new ELSE {},
                                              !.series[s] = Fetched(s), !.insert = @ \cup new, !.retire = @ \cup ToRetire(s)]
               IN  attempt' = [attempt EXCEPT ![a] = next]
  /\ UNCHANGED <<quotes, tables>>

\* The other run has ended: the insert goes through where it was rolled back, and breaks the index where it committed.
CandlesFree(a) == attempt[a].at = "waits for candles" /\ {Key(c) : c \in attempt[a].wait} \cap HeldKeys(a) = {}
CandlesResume(a) ==
  /\ CandlesFree(a)
  /\ attempt' = [attempt EXCEPT ![a] =
       IF \E c \in candles \ attempt[a].retire : c.live /\ \E n \in attempt[a].wait : Key(n) = Key(c) THEN Resting
       ELSE [@ EXCEPT !.at = "ratios", !.wait = {}]]
  /\ UNCHANGED <<quotes, tables>>

\* _fetch_fundamentals: a row within the TTL, else the provider, which may have none.
GatherRatios(a) ==
  /\ attempt[a].at = "ratios"
  /\ LET s == Order[attempt[a].i]
         young == {r \in ratios : r.of = s /\ today - r.at <= RatioTtl}
         row == [of |-> s, at |-> today, by |-> attempt[a].by]
         next == [attempt[a] EXCEPT !.at = IF attempt[a].i < Len(Order) THEN "candles" ELSE "news", !.i = @ + 1]
     IN  \/ \E r \in young :
              /\ \A q \in young : q.at <= r.at
              /\ attempt' = [attempt EXCEPT ![a] = [next EXCEPT !.ratio[s] = r]]
         \/ young = {} /\ attempt' = [attempt EXCEPT ![a] = next]
         \/ young = {} /\ attempt' = [attempt EXCEPT ![a] = [next EXCEPT !.ratio[s] = row, !.ratios = @ \cup {row}]]
  /\ UNCHANGED <<quotes, tables>>

\* _ingest_news: the articles of two days that are not stored.
IngestNews(a) ==
  /\ attempt[a].at = "news"
  /\ LET new == ({today - 1, today} \cap Nat) \ (news \cup {0})
         blocked == new \cap HeldNews(a) # {}
     IN  attempt' = [attempt EXCEPT ![a].at = IF blocked THEN "waits for news" ELSE "council", ![a].news = new, ![a].newsWait = IF blocked THEN new ELSE {}]
  /\ UNCHANGED <<quotes, tables>>

NewsFree(a) == attempt[a].at = "waits for news" /\ attempt[a].newsWait \cap HeldNews(a) = {}
NewsResume(a) ==
  /\ NewsFree(a)
  /\ attempt' = [attempt EXCEPT ![a] = IF attempt[a].newsWait \cap news # {} THEN Resting ELSE [@ EXCEPT !.at = "council", !.newsWait = {}]]
  /\ UNCHANGED <<quotes, tables>>

\* Mutant: a refresh deletes the rows it replaces.
Deleted(a) ==
  (candles \ attempt[a].retire) \cup {[of |-> c.of, day |-> c.day, basis |-> c.basis, batch |-> attempt[a].by, live |-> TRUE] : c \in attempt[a].insert}

\* A refresh keeps what it replaces, retired.
Refreshed(a) ==
  (candles \ attempt[a].retire) \cup {[c EXCEPT !.live = FALSE] : c \in attempt[a].retire}
  \cup {[of |-> c.of, day |-> c.day, basis |-> c.basis, batch |-> attempt[a].by, live |-> TRUE] : c \in attempt[a].insert}

\* Companies without candles never pass the screen.  Those that do are forecast, which may fail, and some reach the
\* council: record_manifest_entry names the rows each verdict was made from.  All of it becomes visible with the one
\* commit of the run, where its job is still its own (LegacyQueue).
CommitRun(a) ==
  /\ attempt[a].at = "council" /\ Len(reports) < MaxReports
  /\ \E screened \in SUBSET {s \in Names : attempt[a].series[s] # {}} :
       \E forecast \in SUBSET screened, heard \in SUBSET screened :
         LET outlook(s) == IF s \in forecast THEN [of |-> s, at |-> today, by |-> attempt[a].by] ELSE Missing
             entry(s) == [asOf |-> DayOf(attempt[a].series[s]), ratio |-> attempt[a].ratio[s], outlook |-> outlook(s)]
         IN  /\ outlooks' = outlooks \cup {outlook(s) : s \in forecast}
             /\ reports' = Append(reports, [manifest |-> [s \in heard |-> entry(s)], series |-> [s \in heard |-> attempt[a].series[s]]])
  /\ candles' = Refreshed(a)
  /\ ratios' = ratios \cup attempt[a].ratios
  /\ news' = news \cup attempt[a].news
  /\ attempt' = [attempt EXCEPT ![a] = Resting]
  /\ UNCHANGED quotes

\* A provider raises, the process dies or the job was taken over: nothing is kept.
RunFails(a) ==
  /\ AtWork(a)
  /\ attempt' = [attempt EXCEPT ![a] = Resting]
  /\ UNCHANGED <<quotes, tables>>

\* A corporate action takes effect overnight.
DayPasses ==
  /\ today < MaxToday
  /\ today' = today + 1
  /\ \E r \in SUBSET {s \in Names : basis[s] < MaxBasis} : basis' = [s \in Names |-> IF s \in r THEN basis[s] + 1 ELSE basis[s]]
  /\ UNCHANGED <<tables, attempt>>

ReportNext ==
  \/ \E a \in Runners :
       \/ StartRun(a) \/ GatherCandles(a) \/ CandlesResume(a) \/ GatherRatios(a) \/ IngestNews(a) \/ NewsResume(a)
       \/ CommitRun(a) \/ RunFails(a)
  \/ DayPasses

ReportSpec == ReportInit /\ [][ReportNext]_reportVars

-----------------------------------------------------------------------------
\* GET /api/stocks/{symbol}: the newest verdict on a stock, and the rows shown next to it.
VerdictsOn(s) == {i \in DOMAIN reports : s \in DOMAIN reports[i].manifest}
ManifestOf(s) == reports[Max(VerdictsOn(s))].manifest[s]

\* The row the manifest names, or the newest where it names none.
Shown(table, s, named) ==
  IF named # Missing THEN {r \in table : r = named}
  ELSE {r \in table : r.of = s /\ \A q \in table : q.of = s => q.at <= r.at}
ShownRatios(s) == Shown(ratios, s, ManifestOf(s).ratio)
ShownOutlook(s) == Shown(outlooks, s, ManifestOf(s).outlook)

\* Where a verdict had figures or a forecast the page shows exactly those, whatever later runs stored, and its price is of
\* no earlier day than the candles the verdict was made from (api/stocks.py: get_stock_detail).
PagePinned ==
  \A s \in Names : VerdictsOn(s) # {} =>
    LET m == ManifestOf(s)
    IN  /\ m.ratio # Missing => ShownRatios(s) = {m.ratio}
        /\ m.outlook # Missing => ShownOutlook(s) = {m.outlook}
        /\ CurrentRows(s) # {} /\ DayOf(CurrentRows(s)) >= m.asOf

\* A day of a company has one current candle, whoever refreshes it.
OneCurrent == \A c, d \in candles : c.live /\ d.live /\ Key(c) = Key(d) => c = d

\* The rows a published verdict was made from are still there, under the keys its manifest holds.
Rebuildable ==
  \A i \in DOMAIN reports : \A s \in DOMAIN reports[i].manifest :
    LET m == reports[i].manifest[s]
    IN  /\ \A c \in reports[i].series[s] : \E r \in candles : Plain(r) = c
        /\ m.asOf = DayOf(reports[i].series[s])
        /\ m.ratio # Missing => m.ratio \in ratios
        /\ m.outlook # Missing => m.outlook \in outlooks

\* Within the window of its newest candle, a series is quoted under one basis: restated and older closes never meet.
OneBasis ==
  \A i \in DOMAIN reports : \A s \in DOMAIN reports[i].series :
    \A c, d \in reports[i].series[s] :
      (\A e \in reports[i].series[s] : e.day - c.day < History /\ e.day - d.day < History) => c.basis = d.basis

\* Runs take what is unique in one order: whoever waits, waits for a run that is at work, or for nobody any more.
Waits(a) == attempt[a].at \in {"waits for candles", "waits for news"}
NoMutualWait ==
  \A a \in Runners : Waits(a) =>
    \/ \E b \in Runners : AtWork(b) /\ ~ Waits(b)
    \/ \E b \in Runners : CandlesFree(b) \/ NewsFree(b)

\* The stored data under concurrent refreshes: unique, never lost to a report or its page, of one basis, and free of deadlock.
ReportsKept == OneCurrent /\ Rebuildable /\ PagePinned /\ OneBasis /\ NoMutualWait
=============================================================================
