------------------------------ MODULE Catalogue ------------------------------
(***************************************************************************)
(* The catalogue of securities: the nightly refresh from the public files, *)
(* the top-up of corporate actions in windows, each stored as it arrives,  *)
(* and the histories of fund NAVs that are trusted once they agree with    *)
(* the NAVs the refresh has loaded.                                        *)
(*                                                                         *)
(* A file is a function from keys to lines, a line that cannot be read has *)
(* an Absent symbol or NAV.  A security is a stock, an ETF or a fund for   *)
(* good.  Corporate actions are an ex-date, the day they are published and *)
(* what they are about; prices and their bases are in PriceBasis.          *)
(***************************************************************************)
EXTENDS Integers, FiniteSets, FiniteSetsExt, TLC

CONSTANTS
  KindOf,          \* per key: stock, etf or mutual_fund
  Growth,          \* the funds that accumulate
  Indexed,         \* the stocks that have a row in the old table of instruments
  BrokerSymbol,          \* per row of the broker: its symbol
  MinComplete,     \* per cent of the active rows a whole file has
  StaleDays,       \* days after which a NAV has stopped
  Overlap, WindowDays, Backfill,   \* days
  OverlapDays,     \* days of a NAV history that are compared with the stored ones
  MinPoints, MaxMove, NavTolerance, NearDays, NearTolerance, RebaseTolerance,   \* of a history; moves in per cent
  Worlds,          \* the inputs: the first day, the answers to downloads, the corporate actions, the answers about NAVs
  MaxDay,          \* bound: days
  Absent

\* A file lists securities of one kind, and its lines have these columns at most.
Filed(file, kind, columns) ==
  file # Absent => IsFiniteSet(DOMAIN file) /\ \A k \in DOMAIN file : KindOf[k] = kind /\ DOMAIN file[k] \subseteq columns

ASSUME CatalogueAssumption ==
  /\ MinComplete \in 0 .. 100 /\ WindowDays \in Nat \ {0}
  /\ {StaleDays, Overlap, Backfill, OverlapDays, MinPoints, NearDays, RebaseTolerance, NavTolerance, NearTolerance} \subseteq Nat
  /\ Absent \notin BOOLEAN /\ Absent \notin Int
  /\ \A w \in Worlds :
       /\ w.from \in Nat /\ IsFiniteSet(w.actions) /\ \A e \in w.actions : e.ex \in Int /\ e.published \in Nat \ {0}
       /\ \A t \in w.files : /\ Filed(t.equity_l, "stock", {"symbol", "series"}) /\ Filed(t.etf_list, "etf", {"symbol"})
                             /\ Filed(t.amfi, "mutual_fund", {"nav", "date"})
                             /\ t.amfi # Absent => \A k \in DOMAIN t.amfi : /\ {"nav", "date"} \subseteq DOMAIN t.amfi[k]
                                                                            /\ t.amfi[k].nav = Absent \/ t.amfi[k].nav \in Int
                                                                            /\ t.amfi[k].date \in Int
                             /\ t.sector_map # Absent => \A k \in DOMAIN t.sector_map : t.sector_map[k] # Absent
       /\ \A a \in w.navs : a # Absent => IsFiniteSet(DOMAIN a.navs) /\ \A d \in DOMAIN a.navs : d \in Int /\ a.navs[d] \in Int

VARIABLES
  world,
  day,
  shelf,     \* per known key: the row
  links,     \* per row of the broker: the security it is linked to
  actions,   \* the corporate actions stored
  history,   \* per fund: the NAVs stored, by day
  top        \* the refresh under way, and the day the last complete top-up was for

catalogueVars == <<world, day, shelf, links, actions, history, top>>

Rested(covered) == [at |-> "idle", today |-> 0, next |-> 0, failed |-> FALSE, whole |-> FALSE, before |-> <<>>, funds |-> {}, stored |-> Absent, covered |-> covered]

CatalogueInit ==
  /\ world \in Worlds /\ day = world.from
  /\ shelf = <<>> /\ links = [b \in DOMAIN BrokerSymbol |-> Absent]
  /\ actions = {} /\ history = <<>> /\ top = Rested(0)

-----------------------------------------------------------------------------
(* The files *)

NewRow(k) == [kind |-> KindOf[k], on |-> TRUE, symbol |-> Absent, series |-> Absent, sector |-> Absent, nav |-> Absent, date |-> Absent, instrument |-> FALSE]

\* What is said of a row, over what it was.
Overlaid(said, row) == [f \in DOMAIN said \cup DOMAIN row |-> IF f \in DOMAIN said THEN said[f] ELSE row[f]]

\* parse_equity_l, parse_etf_list: a row per readable line.
SecurityLines(file) == [k \in {x \in DOMAIN file : file[x].symbol # Absent} |-> Overlaid([on |-> TRUE], file[k])]

Priced(file) == {k \in DOMAIN file : file[k].nav # Absent /\ file[k].nav > 0}

Newest(file) == Max({file[k].date : k \in Priced(file)})

\* parse_amfi_navall, mark_stale_funds: a fund whose NAV has stopped is not active.
FundLines(file) == [k \in Priced(file) |-> Overlaid([on |-> Newest(file) - file[k].date <= StaleDays], file[k])]

\* upsert_securities: what a line does not say stays as it was.
Said(line) == [f \in {g \in DOMAIN line : line[g] # Absent} |-> line[f]]

Upserted(rows, lines) ==
  [k \in DOMAIN rows \cup DOMAIN lines |->
     IF k \notin DOMAIN lines THEN rows[k] ELSE Overlaid(Said(lines[k]), IF k \in DOMAIN rows THEN rows[k] ELSE NewRow(k))]

ActiveOf(rows, kind) == {k \in DOMAIN rows : rows[k].kind = kind /\ rows[k].on}

Truncated(seen, active) == 100 * Cardinality(seen) < MinComplete * Cardinality(active)

\* retire_missing.
Retired(rows, kind, seen) ==
  IF Truncated(seen, ActiveOf(rows, kind)) THEN rows
  ELSE [k \in DOMAIN rows |-> IF k \in ActiveOf(rows, kind) \ seen THEN [rows[k] EXCEPT !.on = FALSE] ELSE rows[k]]

FromFile(rows, kind, lines) == Retired(Upserted(rows, lines), kind, DOMAIN lines)

\* apply_sectors, link_instruments.
Sectored(rows, map) == [k \in DOMAIN rows |-> IF rows[k].kind = "stock" /\ k \in DOMAIN map THEN [rows[k] EXCEPT !.sector = map[k]] ELSE rows[k]]

Instrumented(rows) == [k \in DOMAIN rows |-> IF rows[k].kind = "stock" /\ k \in Indexed THEN [rows[k] EXCEPT !.instrument = TRUE] ELSE rows[k]]

When(file, rows, new) == IF file = Absent THEN rows ELSE new

\* The rows once the files that arrived are applied, in the order of the code.
Applied(rows, t) ==
  LET stocks  == When(t.equity_l, rows, FromFile(rows, "stock", SecurityLines(t.equity_l)))
      etfs    == When(t.etf_list, stocks, FromFile(stocks, "etf", [k \in DOMAIN SecurityLines(t.etf_list) |-> Overlaid([series |-> "EQ"], SecurityLines(t.etf_list)[k])]))
      sectors == When(t.sector_map, etfs, Sectored(etfs, t.sector_map))
  IN Instrumented(When(t.amfi, sectors, FromFile(sectors, "mutual_fund", FundLines(t.amfi))))

Bearers(rows, b) == {k \in DOMAIN rows : rows[k].kind # "mutual_fund" /\ rows[k].on /\ rows[k].series = "EQ" /\ rows[k].symbol = BrokerSymbol[b]}

\* link_broker_instruments: a symbol of two securities is left unlinked, one of none as it was.
Linked(rows) ==
  [b \in DOMAIN BrokerSymbol |-> IF Cardinality(Bearers(rows, b)) = 1 THEN CHOOSE k \in Bearers(rows, b) : TRUE
                           ELSE IF Bearers(rows, b) # {} THEN Absent ELSE links[b]]

\* A file without a readable line refuses the transaction, and with it the other files.
FilesRefused(t) ==
  \/ t.equity_l # Absent /\ DOMAIN SecurityLines(t.equity_l) = {}
  \/ t.etf_list # Absent /\ DOMAIN SecurityLines(t.etf_list) = {}
  \/ t.amfi # Absent /\ Priced(t.amfi) = {}

-----------------------------------------------------------------------------
(* The refresh *)

\* Faulty variant: the top-up resumes at the newest stored date, in the future or not.
ResumeAtNewest(today) == IF actions # {} THEN Max({e.ex : e \in actions}) ELSE today - Backfill

\* latest_action_date: a date in the future is no progress.
Resume(today) ==
  IF \E e \in actions : e.ex <= today THEN Max({e.ex : e \in {x \in actions : x.ex <= today}}) - Overlap ELSE today - Backfill

\* refresh_catalogue up to its first commit: what arrived is applied in one transaction, or refused.
Refresh(t) ==
  /\ top.at = "idle"
  /\ shelf' = IF FilesRefused(t) THEN shelf ELSE Applied(shelf, t)
  /\ links' = IF FilesRefused(t) THEN links ELSE Linked(shelf')
  /\ top' = [top EXCEPT !.at = "windows", !.today = day, !.next = Resume(day), !.failed = FALSE, !.before = shelf,
                        !.whole = ~FilesRefused(t) /\ \A n \in DOMAIN t : t[n] # Absent]
  /\ UNCHANGED <<world, day, actions, history>>

WindowEnd == IF top.next + WindowDays - 1 < top.today THEN top.next + WindowDays - 1 ELSE top.today

MoreWindows == top.at = "windows" /\ ~top.failed /\ top.next <= top.today

\* A window arrives, at one of its attempts, and is stored at once.
WindowArrives ==
  /\ MoreWindows
  /\ actions' = actions \cup {e \in world.actions : e.ex \in top.next .. WindowEnd /\ e.published <= day}
  /\ top' = [top EXCEPT !.next = WindowEnd + 1]
  /\ UNCHANGED <<world, day, shelf, links, history>>

\* The last attempt at a window fails: the run stops there.
WindowFails ==
  /\ MoreWindows
  /\ top' = [top EXCEPT !.failed = TRUE]
  /\ UNCHANGED <<world, day, shelf, links, actions, history>>

\* process_refresh: a complete refresh queues the fund histories, another is tried again.
RefreshEnds ==
  /\ top.at = "windows" /\ (top.failed \/ top.next > top.today)
  /\ LET covered == IF top.failed THEN top.covered ELSE top.today IN
     top' = IF top.whole /\ ~top.failed
            THEN [Rested(covered) EXCEPT !.at = "navs", !.funds = ActiveOf(shelf, "mutual_fund") \cap Growth]
            ELSE Rested(covered)
  /\ UNCHANGED <<world, day, shelf, links, actions, history>>

\* The worker dies: the job is taken up again from the start.
RefreshDies ==
  /\ top.at = "windows"
  /\ top' = Rested(top.covered)
  /\ UNCHANGED <<world, day, shelf, links, actions, history>>

DayPasses ==
  /\ day < MaxDay
  /\ day' = day + 1
  /\ UNCHANGED <<world, shelf, links, actions, history, top>>

-----------------------------------------------------------------------------
(* NAV histories *)

Differs(a, b, tolerance) == 100 * (IF a > b THEN a - b ELSE b - a) > tolerance * b

Earlier(navs, d) == {x \in DOMAIN navs : x < d}

\* parse_history, sane: the readable points, and no move too large to be one day's.
Readable(navs) == [d \in {x \in DOMAIN navs : navs[x] > 0} |-> navs[d]]

Sane(navs) == \A d \in DOMAIN navs : Earlier(navs, d) # {} => ~Differs(navs[d], navs[Max(Earlier(navs, d))], MaxMove)

Near(navs, d) == {x \in Earlier(navs, d) : d - x <= NearDays}

\* Faulty variant: a NAV of the day is believed.
NavVerdictTrusting(navs, isin, row) ==
  IF row.nav = Absent THEN "deferred" ELSE IF row.date \in DOMAIN navs THEN "exact" ELSE IF Near(navs, row.date) = {} THEN "deferred" ELSE "near"

\* verify_against_amfi.
NavVerdict(navs, isin, row) ==
  IF row.nav = Absent THEN "deferred"
  ELSE IF isin = "other" THEN "rejected"
  ELSE IF row.date \in DOMAIN navs THEN IF Differs(navs[row.date], row.nav, NavTolerance) THEN "rejected" ELSE "exact"
  ELSE IF Near(navs, row.date) = {} \/ isin = "none" THEN "deferred"
  ELSE IF Differs(navs[Max(Near(navs, row.date))], row.nav, NearTolerance) THEN "rejected" ELSE "near"

Trusted(navs, isin, row) == Cardinality(DOMAIN navs) >= MinPoints /\ Sane(navs) /\ NavVerdict(navs, isin, row) \in {"exact", "near"}

\* apply_fetch: what is stored is kept, unless the overlap shows that the whole history was restated.
Joined(old, navs) ==
  LET last == Max(DOMAIN old)
      new  == {d \in DOMAIN navs : d >= last - OverlapDays}
  IN IF \E d \in new \cap DOMAIN old : Differs(navs[d], old[d], RebaseTolerance)
     THEN navs ELSE Overlaid(old, [d \in new |-> navs[d]])

\* sync_fund.
NavSync(f, answer) ==
  /\ top.at = "navs" /\ f \in top.funds
  /\ LET navs == Readable(answer.navs)
         stores == answer # Absent /\ Trusted(navs, answer.isin, shelf[f])
     IN /\ history' = IF stores THEN Overlaid([x \in {f} |-> IF f \in DOMAIN history THEN Joined(history[f], navs) ELSE navs], history) ELSE history
        /\ top' = [top EXCEPT !.funds = @ \ {f}, !.stored = IF stores THEN f ELSE Absent]
  /\ UNCHANGED <<world, day, shelf, links, actions>>

NavsDone ==
  /\ top.at = "navs" /\ top.funds = {}
  /\ top' = Rested(top.covered)
  /\ UNCHANGED <<world, day, shelf, links, actions, history>>

CatalogueNext ==
  \/ \E t \in world.files : Refresh(t)
  \/ WindowArrives \/ WindowFails \/ RefreshEnds \/ RefreshDies
  \/ \E f \in Growth, answer \in world.navs : NavSync(f, answer)
  \/ NavsDone \/ DayPasses

CatalogueSpec == CatalogueInit /\ [][CatalogueNext]_catalogueVars

-----------------------------------------------------------------------------
(* Properties *)

\* After a complete top-up every corporate action of the years it covers is stored that was published in time,
\* whatever windows failed, workers died or files were missing before.
NothingSkipped ==
  \A e \in world.actions :
    (e.ex \in top.covered - Backfill .. top.covered /\ e.published <= top.covered /\ e.published <= e.ex + Overlap) => e \in actions

\* A file of stocks or ETFs takes at most the share that may be missing from the active rows, and never a sector.
RetiresFew ==
  top.at = "windows" =>
    /\ \A kind \in {"stock", "etf"} :
         LET were == ActiveOf(top.before, kind)
             gone == were \ ActiveOf(shelf, kind)
         IN 100 * Cardinality(gone) <= (100 - MinComplete) * Cardinality(were \cup ActiveOf(shelf, kind))
    /\ \A k \in DOMAIN top.before : k \in DOMAIN shelf /\ (top.before[k].sector # Absent => shelf[k].sector # Absent)

\* A broker's row points at the one active security of its symbol, and at none when there are two.
LinksCertain == \A b \in DOMAIN links : (links[b] # Absent /\ Bearers(shelf, b) # {}) => Bearers(shelf, b) = {links[b]}

\* A stored NAV is within the tolerance of a restatement from one that is within the tolerance of a source from the catalogue's.
Agrees(stored, nav, tolerance) ==
  (100 - RebaseTolerance) * stored <= (100 + tolerance) * nav /\ (100 - tolerance) * nav <= (100 + RebaseTolerance) * stored

\* The history stored for a fund agrees with the NAV in the catalogue, on its date or on a day shortly before,
\* unless it reaches so far past that date that the day was not compared.
NavsAgree ==
  top.stored # Absent =>
    LET row == shelf[top.stored]
        navs == history[top.stored]
    IN \/ row.date - NearDays < Max(DOMAIN navs) - OverlapDays
       \/ row.date \in DOMAIN navs /\ Agrees(navs[row.date], row.nav, NavTolerance)
       \/ \E d \in Near(navs, row.date) : Agrees(navs[d], row.nav, NearTolerance)

CatalogueSound == NothingSkipped /\ RetiresFew /\ LinksCertain /\ NavsAgree
=============================================================================
