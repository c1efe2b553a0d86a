----------------------------- MODULE Watchlists -----------------------------
(***************************************************************************)
(* Watchlists of the owner, the instruments of the broker that they watch, *)
(* the latest quotes and the alerts on them, with the room each stock has  *)
(* before the limits of the portfolio.                                     *)
(*                                                                         *)
(* A request that creates something counts first and inserts later; an     *)
(* evaluation of alerts reads quotes and alerts and writes in the end, so  *)
(* requests cross each other.  A removal is one step: how it crosses an    *)
(* evaluation of the same alert is in Inbox, and so are the issues that    *)
(* alerts raise and the owner's answers to them.                           *)
(***************************************************************************)
EXTENDS Inbox, Integers, FiniteSets, FiniteSetsExt, Functions

CONSTANTS
  Workers,            \* request handlers and the scheduler
  Names,              \* names of lists
  ListIds, ItemIds, AlertIds,
  Tokens,             \* tokens of the broker
  Masters,            \* instrument files of the broker: the rows of each
  Universe,           \* instruments of the old table by symbol: their sector
  Entries,            \* what the broker reports of a token
  AlertRules,         \* kinds and thresholds of alerts
  Portfolios,         \* positions of the twin
  MaxLists, MaxItems, MaxAlerts,        \* MAX_LISTS, MAX_ITEMS, MAX_ALERTS_PER_ITEM
  IssuerShare, SectorShare,     \* limits in per cent
  Missing

ASSUME WatchlistsAssumption ==
  /\ IsFiniteSet(Workers) /\ Workers # {}
  /\ {MaxLists, MaxItems, MaxAlerts} \subseteq Nat /\ {IssuerShare, SectorShare} \subseteq 1 .. 100
  /\ \A r \in AlertRules : r.threshold > 0 /\ (r.kind \in {"day_move_up", "day_move_down"} => r.threshold <= 50)
  /\ \A p \in Portfolios : IsFiniteSet(p) /\ \A x \in p : x.value # Missing => x.value \in Int

VARIABLES
  broker,     \* the symbol and the matched instrument of each token known
  lists,      \* the name of each list
  items,      \* the list and token of each watched stock
  alerts,     \* the stock and rule of each alert, and whether it is triggered
  issues,     \* alerts that have an issue
  quotes,     \* the newest saved quote of a token
  recent,     \* an unforced refresh ended less than MIN_REFRESH_SECONDS ago
  request,    \* what each worker is doing
  undisturbed \* history: the last evaluation read what is saved now, and crossed no other

watchVars == <<broker, lists, items, alerts, issues, quotes, recent, request, undisturbed>>

NoRequest == [op |-> "none"]
Without(f, gone) == Restrict(f, DOMAIN f \ gone)
With(f, k, v) == [x \in DOMAIN f \cup {k} |-> IF x = k THEN v ELSE f[x]]

\* A new identifier: one that nothing has and no request refers to.
Unused(ids, used) ==
  LET free == ids \ (used \cup UNION {{request[w].list, request[w].item} : w \in {x \in Workers : request[x].op \in {"item", "alert"}}})
  IN IF free = {} THEN {} ELSE {CHOOSE x \in free : TRUE}

AtRest(w) == request[w] = NoRequest
Takes(w, what) == AtRest(w) /\ request' = [request EXCEPT ![w] = what]
Ends(w) == request' = [request EXCEPT ![w] = NoRequest]

-----------------------------------------------------------------------------
(* Instruments and quotes *)

\* parse_master: cash equities of NSE, the first row of a token.
ParsedMaster(rows) ==
  LET kept == {k \in DOMAIN rows : rows[k].segment = "NSE" /\ rows[k].series = "EQ" /\ rows[k].token # Missing /\ ~rows[k].derivative}
  IN [t \in {rows[k].token : k \in kept} |-> rows[Min({k \in kept : rows[k].token = t})].symbol]

\* upsert_master: a row that the file does not have stays as it was, and so does everything if the file has none.
MasterRefresh(rows) ==
  LET file == ParsedMaster(rows) IN
  /\ DOMAIN file # {}
  /\ broker' = [t \in DOMAIN broker \cup DOMAIN file |->
                 IF t \in DOMAIN file THEN [symbol |-> file[t], match |-> IF file[t] \in DOMAIN Universe THEN file[t] ELSE Missing] ELSE broker[t]]
  /\ UNCHANGED <<lists, items, alerts, issues, quotes, recent, request, undisturbed>>

\* parse_quote: no entry without a price, and the move from the last close if the broker names none.
Usable(e) == e.ltp # Missing /\ e.ltp > 0
Parsed(e) == [price |-> e.ltp,
              move  |-> IF e.move # Missing THEN e.move ELSE IF e.close \in {Missing, 0} THEN Missing ELSE (100 * (e.ltp - e.close)) \div e.close]

Save(answer) == quotes' = [t \in Tokens |-> IF t \in DOMAIN answer /\ Usable(answer[t]) THEN Parsed(answer[t]) ELSE quotes[t]]

Answers(asked) == UNION {[s -> Entries] : s \in SUBSET asked}

Watched == {items[i].token : i \in DOMAIN items}

\* refresh_prices, unless it is throttled, and the scheduler's pass after the close.
AskQuotes(w, why) ==
  /\ why = "page" => ~recent
  /\ Watched # {}
  /\ Takes(w, [op |-> "quotes", asked |-> Watched, close |-> why = "close"])
  /\ UNCHANGED <<broker, lists, items, alerts, issues, quotes, recent, undisturbed>>

\* The quotes are saved, and the throttle starts when they are.
QuotesArrive(w, answer) ==
  /\ request[w].op = "quotes" /\ DOMAIN answer \subseteq request[w].asked
  /\ Save(answer)
  /\ recent' = (recent \/ ~request[w].close)
  /\ request' = [request EXCEPT ![w] = [op |-> "due"]]
  /\ undisturbed' = FALSE
  /\ UNCHANGED <<broker, lists, items, alerts, issues>>

\* The broker refuses, the session is over, or another refresh inserts the first quote of a token.
QuotesFail(w) ==
  /\ request[w].op = "quotes" /\ Ends(w)
  /\ UNCHANGED <<broker, lists, items, alerts, issues, quotes, recent, undisturbed>>

\* The market chain and the page of a stock save quotes and evaluate no alert.
QuotesElsewhere(answer) ==
  /\ Save(answer)
  /\ undisturbed' = FALSE
  /\ UNCHANGED <<broker, lists, items, alerts, issues, recent, request>>

TimePasses == recent /\ recent' = FALSE /\ UNCHANGED <<broker, lists, items, alerts, issues, quotes, request, undisturbed>>

-----------------------------------------------------------------------------
(* Lists, stocks and alerts *)

CountLists(w, name) ==
  /\ Cardinality(DOMAIN lists) < MaxLists
  /\ Takes(w, [op |-> "list", name |-> name])
  /\ UNCHANGED <<broker, lists, items, alerts, issues, quotes, recent, undisturbed>>

NameFree(name) == name \notin Range(lists)

\* The constraint on names refuses the second list of a name.
InsertList(w) ==
  /\ request[w].op = "list"
  /\ IF NameFree(request[w].name)
     THEN \E l \in Unused(ListIds, DOMAIN lists) : lists' = With(lists, l, request[w].name)
     ELSE UNCHANGED lists
  /\ Ends(w)
  /\ UNCHANGED <<broker, items, alerts, issues, quotes, recent, undisturbed>>

RenameList(l, name) ==
  /\ NameFree(name) /\ lists' = [lists EXCEPT ![l] = name]
  /\ UNCHANGED <<broker, items, alerts, issues, quotes, recent, request, undisturbed>>

CountItems(w, l, t) ==
  /\ t \in DOMAIN broker
  /\ Cardinality(DOMAIN items) < MaxItems
  /\ Takes(w, [op |-> "item", list |-> l, item |-> Missing, token |-> t])
  /\ UNCHANGED <<broker, lists, items, alerts, issues, quotes, recent, undisturbed>>

\* The list must be there still, and have no such stock.
InsertItem(w) ==
  LET new == [list |-> request[w].list, token |-> request[w].token]
  IN /\ request[w].op = "item"
     /\ IF new.list \in DOMAIN lists /\ new \notin Range(items)
        THEN \E i \in Unused(ItemIds, DOMAIN items) : items' = With(items, i, new)
        ELSE UNCHANGED items
     /\ Ends(w)
     /\ UNCHANGED <<broker, lists, alerts, issues, quotes, recent, undisturbed>>

AlertsOf(gone) == {a \in DOMAIN alerts : alerts[a].item \in gone}

CountAlerts(w, i, rule) ==
  /\ Cardinality(AlertsOf({i})) < MaxAlerts
  /\ Takes(w, [op |-> "alert", list |-> Missing, item |-> i, rule |-> rule])
  /\ UNCHANGED <<broker, lists, items, alerts, issues, quotes, recent, undisturbed>>

\* add_alert saves the alert, then evaluates all of them.
InsertAlert(w) ==
  /\ request[w].op = "alert"
  /\ IF request[w].item \in DOMAIN items
     THEN /\ \E a \in Unused(AlertIds, DOMAIN alerts \cup UNION {DOMAIN request[x].saw : x \in {y \in Workers : request[y].op = "evaluate"}}) :
               alerts' = With(alerts, a, [item |-> request[w].item, rule |-> request[w].rule, triggered |-> FALSE])
          /\ request' = [request EXCEPT ![w] = [op |-> "due"]]
          /\ undisturbed' = FALSE
     ELSE Ends(w) /\ UNCHANGED <<alerts, undisturbed>>
  /\ UNCHANGED <<broker, lists, items, issues, quotes, recent>>

\* Faulty variant: the issues of the alerts stay.
DropItemsOnly(gone) ==
  /\ items' = Without(items, gone)
  /\ alerts' = Without(alerts, AlertsOf(gone))
  /\ UNCHANGED issues

\* _delete_item: with its alerts, whose issues are resolved.
DropItems(gone) ==
  /\ items' = Without(items, gone)
  /\ alerts' = Without(alerts, AlertsOf(gone))
  /\ issues' = issues \ AlertsOf(gone)

RemoveItem(i) == DropItems({i}) /\ UNCHANGED <<broker, lists, quotes, recent, request, undisturbed>>

RemoveList(l) ==
  /\ DropItems({i \in DOMAIN items : items[i].list = l})
  /\ lists' = Without(lists, {l})
  /\ UNCHANGED <<broker, quotes, recent, request, undisturbed>>

RemoveAlert(a) ==
  /\ alerts' = Without(alerts, {a}) /\ issues' = issues \ {a}
  /\ UNCHANGED <<broker, lists, items, quotes, recent, request, undisturbed>>

-----------------------------------------------------------------------------
(* The evaluation of alerts *)

\* condition: Missing if the data is not there.
Met(rule, q) ==
  CASE rule.kind = "price_above" -> q.price >= rule.threshold
    [] rule.kind = "price_below" -> q.price <= rule.threshold
    [] rule.kind = "day_move_up" -> IF q.move = Missing THEN Missing ELSE q.move >= rule.threshold
    [] OTHER                     -> IF q.move = Missing THEN Missing ELSE q.move <= 0 - rule.threshold

TokenOf(a) == items[alerts[a].item].token
Judged == {a \in DOMAIN alerts : quotes[TokenOf(a)] # Missing /\ Met(alerts[a].rule, quotes[TokenOf(a)]) # Missing}

Evaluating == {w \in Workers : request[w].op = "evaluate"}

EvaluateRead(w) ==
  /\ request[w].op = "due"
  /\ request' = [x \in Workers |->
                  IF x = w THEN [op |-> "evaluate", saw |-> [a \in Judged |-> [met |-> Met(alerts[a].rule, quotes[TokenOf(a)]), was |-> alerts[a].triggered]],
                                 read |-> quotes, alone |-> Evaluating = {}]
                  ELSE IF x \in Evaluating THEN [request[x] EXCEPT !.alone = FALSE] ELSE request[x]]
  /\ undisturbed' = (undisturbed /\ Evaluating = {})
  /\ UNCHANGED <<broker, lists, items, alerts, issues, quotes, recent>>

\* A row is written if it differs from what was read: the time of the trigger always does.
Writes(seen) == seen.met \/ seen.was

\* Nothing is written if a row to write is gone: the request fails.
EvaluateCommit(w) ==
  /\ request[w].op = "evaluate"
  /\ LET saw == request[w].saw
     IN IF \E a \in DOMAIN saw \ DOMAIN alerts : Writes(saw[a]) THEN UNCHANGED <<alerts, issues, undisturbed>>
        ELSE /\ alerts' = [a \in DOMAIN alerts |-> IF a \in DOMAIN saw /\ Writes(saw[a]) THEN [alerts[a] EXCEPT !.triggered = saw[a].met] ELSE alerts[a]]
             /\ issues' = (issues \cup {a \in DOMAIN saw : saw[a].met}) \ {a \in DOMAIN saw : ~saw[a].met}
             /\ undisturbed' = (request[w].alone /\ request[w].read = quotes /\ \A a \in Judged : a \in DOMAIN saw)
  /\ Ends(w)
  /\ UNCHANGED <<broker, lists, items, quotes, recent>>

\* The process dies between the quotes or the alert and their evaluation.
WorkerDies(w) ==
  /\ ~AtRest(w) /\ Ends(w)
  /\ recent' = FALSE
  /\ UNCHANGED <<broker, lists, items, alerts, issues, quotes, undisturbed>>

-----------------------------------------------------------------------------
(* The context of a stock *)

Valued(p) == {x \in p : x.value # Missing}
Worth(positions) == SumFunctionOnSet([x \in positions |-> x.value], positions)

\* _portfolio_facts: what counts for a company or a sector is listed, resolved and valued.
Owned(p, symbol) == {x \in Valued(p) : x.type = "listed_equity" /\ x.instrument = symbol}
OfSector(p, sector) == {x \in Valued(p) : x.type = "listed_equity" /\ x.instrument # Missing /\ Universe[x.instrument] = sector}

\* In rupees, half to even.
Rounded(hundredths) ==
  LET whole == hundredths \div 100  rest == hundredths % 100
  IN IF rest > 50 \/ (rest = 50 /\ whole % 2 = 1) THEN whole + 1 ELSE whole

Room(share, total, worth) == Rounded(Max({0, share * total - 100 * worth}))

\* build_context: Missing outside the old table, and while nothing has a value.
Context(p, t) ==
  LET symbol == broker[t].match  total == Worth(Valued(p))
  IN IF symbol = Missing \/ total <= 0 THEN Missing
     ELSE [issuerRoom |-> Room(IssuerShare, total, Worth(Owned(p, symbol))),
           sectorRoom |-> IF Universe[symbol] = Missing THEN Missing ELSE Room(SectorShare, total, Worth(OfSector(p, Universe[symbol])))]

-----------------------------------------------------------------------------
WatchInit ==
  /\ broker = [t \in {} |-> Missing] /\ lists = [l \in {} |-> Missing] /\ items = [i \in {} |-> Missing] /\ alerts = [a \in {} |-> Missing]
  /\ issues = {} /\ quotes = [t \in Tokens |-> Missing] /\ recent = FALSE
  /\ request = [w \in Workers |-> NoRequest] /\ undisturbed = TRUE

WatchNext ==
  \/ \E rows \in Masters : MasterRefresh(rows)
  \/ \E answer \in Answers(DOMAIN broker) : QuotesElsewhere(answer)
  \/ TimePasses
  \/ \E l \in DOMAIN lists : RemoveList(l) \/ \E name \in Names : RenameList(l, name)
  \/ \E i \in DOMAIN items : RemoveItem(i)
  \/ \E a \in DOMAIN alerts : RemoveAlert(a)
  \/ \E w \in Workers :
       \/ \E name \in Names : CountLists(w, name)
       \/ \E l \in DOMAIN lists, t \in Tokens : CountItems(w, l, t)
       \/ \E i \in DOMAIN items, rule \in AlertRules : CountAlerts(w, i, rule)
       \/ InsertList(w) \/ InsertItem(w) \/ InsertAlert(w)
       \/ \E why \in {"page", "forced", "close"} : AskQuotes(w, why)
       \/ \E answer \in Answers(Watched) : QuotesArrive(w, answer)
       \/ QuotesFail(w) \/ EvaluateRead(w) \/ EvaluateCommit(w) \/ WorkerDies(w)

WatchSpec == WatchInit /\ [][WatchNext]_watchVars

-----------------------------------------------------------------------------
(* Properties *)

\* Counting first and inserting later lets each other worker pass a limit once, and no more (api/v4/watchlist.py, create_watchlist, add_item, add_alert).
LimitsPassedOnce ==
  LET others == Cardinality(Workers) - 1
  IN /\ Cardinality(DOMAIN lists) <= MaxLists + others
     /\ Cardinality(DOMAIN items) <= MaxItems + others
     /\ \A i \in DOMAIN items : Cardinality(AlertsOf({i})) <= MaxAlerts + others

\* Whatever is removed while requests are on their way, nothing is left of it: no stock without its list, no alert without its
\* stock, no issue without its alert (_delete_item).
NothingLeftBehind ==
  /\ \A i \in DOMAIN items : items[i].list \in DOMAIN lists
  /\ \A a \in DOMAIN alerts : alerts[a].item \in DOMAIN items
  /\ issues \subseteq DOMAIN alerts

\* An evaluation that nothing crossed puts every alert right, whatever crossed before: it is triggered, and has its issue, exactly if
\* the saved quote meets it (market/alerts.py, evaluate_alerts).
AlertsPutRight ==
  undisturbed => \A a \in Judged : LET met == Met(alerts[a].rule, quotes[TokenOf(a)]) IN alerts[a].triggered = met /\ (a \in issues <=> met)

\* The room shown for a stock keeps to both limits if it is used, and to within a rupee it is all the room (market/context.py).
RoomHonest ==
  \A p \in Portfolios, t \in Watched :
    LET c == Context(p, t)  symbol == broker[t].match
        total == Worth(Valued(p))
        Used(share, worth, room) == /\ room > 0 => 100 * (worth + room) <= share * total + 50
                                    /\ share * total <= 100 * (worth + room) + 50
    IN c # Missing =>
         /\ Used(IssuerShare, Worth(Owned(p, symbol)), c.issuerRoom)
         /\ c.sectorRoom # Missing => Used(SectorShare, Worth(OfSector(p, Universe[symbol])), c.sectorRoom)

WatchSound == LimitsPassedOnce /\ NothingLeftBehind /\ AlertsPutRight /\ RoomHonest

\* Issues and the alerts that raise some: the inbox shows what is the case, and an alert and its issue follow the saved quote
\* (inbox.py: sync_inbox; alerts.py: evaluate_alerts).
InboxSound == InboxTrue /\ WatchSound
=============================================================================
