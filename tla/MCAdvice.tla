------------------------------ MODULE MCAdvice ------------------------------
(***************************************************************************)
(* Advice on new money for TLC: a few portfolios and rules of the owner,   *)
(* requests to the action lab, and plans of every size up to MaxMoney.     *)
(* The screens of stocks are the other part: a plan takes their candidates *)
(* as an input, so a behaviour follows one of the two.                     *)
(***************************************************************************)
EXTENDS AllocationPlan, StockRanking, PlanningEngines, PersonalLimits, StockCouncil, Evidence, Catalogue, PriceBasis, PriceChanges, ImportPreview, Outcomes

CONSTANTS Parts, MaxMoney, Step4, iA, iB, iBad, sX, sY, coin, n1, w1, w2

VARIABLE part

MCStocks == {"A", "B", "C"}
MCFunds == {"large", "next50", "gold", "liquid", "odd"}
MCPrice == [A |-> 7, B |-> 31, C |-> 13, large |-> 3, next50 |-> 11, gold |-> 12, liquid |-> 9, odd |-> 1]
MCLot == [i \in MCStocks \cup MCFunds |-> IF i = "C" THEN 2 ELSE 1]
MCSector == [A |-> "fin", B |-> "it", C |-> "it"]
MCThreshold == [issuer |-> 20, sector |-> 20, loss |-> 10, spread |-> 25, months |-> 50, unknown |-> 20, goals |-> 100]
MCScenarios == {[sector |-> "all", fall |-> 20], [sector |-> "it", fall |-> 25]}

MCCore == [large |-> "large", next50 |-> "next50"]
MCSatellites == <<"A", "B", "C">>
MCMix == [conservative |-> [debt |-> 70, equity_india |-> 20, gold |-> 10],
          moderate     |-> [debt |-> 40, equity_india |-> 50, gold |-> 10],
          aggressive   |-> [debt |-> 15, equity_india |-> 75, gold |-> 10]]
MCSplit == [large |-> 60, next50 |-> 20]
MCShare == [conservative |-> 0, moderate |-> 15, aggressive |-> 25]

Plain == [stale |-> {}, outgo |-> TRUE, limiting |-> {}, excluded |-> {}, noPrice |-> {}, oldPrice |-> {}, cashLike |-> {"liquid"},
          budget |-> 20, priorities |-> {}, goalGap |-> -1, band |-> "moderate", whatIf |-> "none", soon |-> 0]

MCRules == {Plain,
            [Plain EXCEPT !.band = "aggressive", !.outgo = FALSE, !.budget = -1, !.goalGap = 300],
            [Plain EXCEPT !.limiting = {"emergency_reserve"}, !.excluded = {"A"}, !.priorities = {"issuer", "months"}],
            [Plain EXCEPT !.limiting = {"tolerance_unknown"}, !.oldPrice = {"B"}],
            [Plain EXCEPT !.noPrice = {"A"}, !.stale = {"bank", "large"}, !.soon = 900, !.goalGap = 500],
            [Plain EXCEPT !.whatIf = "aggressive", !.limiting = {"capacity_unknown"}, !.soon = 100]}

MCBaselines == {[bank |-> 0, purse |-> 300, A |-> 200, odd |-> 40],
                [bank |-> 500, purse |-> 120, large |-> 600, B |-> 50],
                [bank |-> 800, purse |-> 0, A |-> 900, C |-> 300, liquid |-> 70]}

MCClaims == {<<>>, [bank |-> 400], [purse |-> 100, A |-> 250]}

MCFlows == [contribution : {0, 150}, withdrawal : {0, 200}]
           \cup [contribution : {Step4 * n : n \in 1 .. MaxMoney \div Step4}, withdrawal : {0}]

MCRequests == [type : {"BUY"}, target : {"A", "C", "liquid"}, amount : {10, 90}, funding : {"new_money", "existing_cash"}]
              \cup [type : {"REDUCE_PREVIEW"}, target : {"A"}, amount : {120, 600}]
              \cup [type : {"RESERVE"}, amount : {300}]
              \cup [type : {"ADJUST_CONTRIBUTION"}, target : {"goal", "none"}, amount : {-10, 15}]

\* The screens: five companies of two sectors and two banks.
MCListed == {"a", "b", "c", "d", "e", "f", "g"}
MCLayout == [fin \in BOOLEAN |->
               [value |-> {"earnings", "book"}, momentum |-> {"long", "short"},
                quality |-> IF fin THEN {"roe", "growth", "payout"} ELSE {"roe", "growth", "payout", "margin", "debt"}]]
MCMinMeasures == [value |-> 1, quality |-> 1, momentum |-> 1]
MCLadders == [roe |-> [steps |-> <<<<20, 1000>>, <<10, 600>>>>, otherwise |-> 200],
              margin |-> [steps |-> <<<<10, 750>>>>, otherwise |-> 200],
              growth |-> [steps |-> <<<<15, 1000>>, <<-1, 500>>>>, otherwise |-> 200],
              debt |-> [steps |-> <<<<-50, 1000>>, <<-200, 600>>>>, otherwise |-> 200],
              volatility |-> [steps |-> <<<<-20, 1000>>, <<-35, 600>>>>, otherwise |-> 200]]
MCCheckWeight == [valuation |-> 30, quality |-> 35, balance |-> 15, risk |-> 20]
MCRankWeight == [value |-> 1, quality |-> 1, momentum |-> 1]

Facts(eps, price, pb, roe, long) ==
  [eps |-> eps, price |-> price, pat |-> 10 * eps, cap |-> 10 * price, pb |-> pb, roe |-> roe, margin |-> 12, growth |-> long, debt |-> 80,
   dividend |-> 1, pe |-> NoValue, volatility |-> 30, long |-> long, short |-> long - 3]

Company == [a |-> Facts(10, 100, 2, 18, 20), b |-> Facts(6, 90, 3, 25, 9), c |-> Facts(9, 60, 1, 12, -4), d |-> Facts(4, 70, 2, 15, 30),
            e |-> Facts(7, 50, 4, 22, 14), f |-> Facts(8, 80, 2, 16, 12), g |-> Facts(5, 60, 1, 11, 6)]
SectorsOf == [x \in MCListed |-> IF x \in {"f", "g"} THEN "financial" ELSE IF x \in {"d", "e"} THEN "it" ELSE "metals"]

MCEtfs(t, u) ==
           [n1 |-> [group |-> "large", turnover |-> 50, ter |-> NoValue, fresh |-> TRUE, pays |-> FALSE],
            n2 |-> [group |-> "large", turnover |-> 12, ter |-> t, fresh |-> TRUE, pays |-> FALSE],
            n3 |-> [group |-> "large", turnover |-> 9, ter |-> 1, fresh |-> TRUE, pays |-> FALSE],
            l1 |-> [group |-> "liquid", turnover |-> 30, ter |-> 4, fresh |-> TRUE, pays |-> TRUE],
            l2 |-> [group |-> "liquid", turnover |-> u, ter |-> 6, fresh |-> u # 7, pays |-> FALSE]]

\* One company's figures go through losses, gaps and figures on another base; what is held and what is liquid varies.
MCUniverses ==
  {[facts |-> [Company EXCEPT ![x] = [@ EXCEPT !.eps = y.eps, !.pat = y.pat, !.pb = y.pb, !.roe = y.roe, !.margin = y.gap, !.growth = y.gap, !.debt = y.gap]],
    sector |-> SectorsOf, liquid |-> l, turnover |-> [a |-> 9, b |-> 8, c |-> 7, d |-> 6, e |-> 5, f |-> 4, g |-> 3],
    direct |-> [s \in MCListed |-> IF s = "d" THEN h ELSE 0], fund |-> h * 6, etfs |-> MCEtfs(IF y.gap = 10 THEN 5 ELSE NoValue, IF h = 0 THEN 7 ELSE 20)] :
     x \in {"a", "f"}, l \in {MCListed \ {"b"}}, h \in {0, 2},
     y \in {f \in [eps : {-5, 12, NoValue}, pat : {-60, 900}, pb : {2, NoValue}, roe : {8}, gap : {10, NoValue}] :
             <<f.eps, f.pat>> \notin {<<12, -60>>, <<-5, 900>>} /\ (f.pb = NoValue => f.gap = NoValue)}}

\* The ledger: three months from the 31st, growth and loss, and every pair of events, in months, on days and in order.
MCLength == <<28, 31, 30, 31>>
Level == [kind |-> "fixed", initial |-> 512, contribution |-> 128, months |-> 3, rate |-> 1, fee |-> 0, timing |-> "end", startDay |-> 31,
          events |-> <<>>, basis |-> "future_money", target |-> 1024, inflation |-> 1]
MCEvents == [type : {"skip", "step_up", "withdrawal", "maturity_proceeds"}, month : {-1, 1, 2, 4}, day : {28, 31}, amount : {64}]
MCProjections ==
  {Level} \cup {[Level EXCEPT !.initial = i, !.rate = r, !.fee = f, !.timing = t, !.months = n, !.basis = b] :
     i \in {0, 512}, r \in {-2, -1, 0, 2}, f \in {0, 1}, t \in {"beginning", "end"}, n \in {-1, 0, 3}, b \in {"future_money", "today_money"}}
  \cup {[Level EXCEPT !.kind = "events", !.events = <<d, [e EXCEPT !.amount = 192]>>] : d \in MCEvents, e \in MCEvents}
  \cup {[Level EXCEPT !.kind = "events", !.months = 2, !.startDay = 28,
                      !.events = <<[d EXCEPT !.type = k], [type |-> "step_up", month |-> 1, day |-> 29, amount |-> 256], d>>] :
          d \in MCEvents, k \in {"contribution", "bonus"}}
  \cup {[Level EXCEPT !.kind = "required", !.initial = i, !.target = g, !.rate = r, !.months = n, !.basis = b] :
          i \in {0, 3, 7}, g \in {4, 8}, r \in {-1, 0, 1, 2}, n \in 0 .. 3, b \in {"future_money", "today_money"}}
  \cup {[Level EXCEPT !.inflation = -2, !.kind = k] : k \in {"fixed", "required"}}
  \cup {[kind |-> "sip", amount |-> a, years |-> y, rate |-> r, portfolioRate |-> q, profile |-> p] :
          a \in {Unstated, 0, 64}, y \in {Unstated, 3}, r \in {Unstated, 0, 1}, q \in {Unstated, 2}, p \in {Unstated, [amount |-> 128, years |-> 2]}}
  \cup {[kind |-> "goal_sip", target |-> 5, years |-> y, rate |-> r, portfolioRate |-> q] : y \in 1 .. 2, r \in {Unstated, 0, 1}, q \in {Unstated, 2}}

\* The planner: three classes and two scenarios, with cash for all gaps, for some and for none.
MCClasses == <<"debt", "equity", "gold">>
MCPolicy == <<[id |-> "growth", target |-> [debt |-> 20, equity |-> 70, gold |-> 10], from |-> 5, until |-> Unset, sleeve |-> 20],
              [id |-> "safe", target |-> [debt |-> 70, equity |-> 20, gold |-> 10], from |-> 0, until |-> 3, sleeve |-> 0],
              [id |-> "guarded", target |-> [debt |-> 65, equity |-> 20, gold |-> 15], from |-> 3, until |-> 5, sleeve |-> 10]>>
NoLimit == [c \in {"debt", "equity", "gold"} |-> 0]
Figures == [income |-> 90, essential |-> 30, debt |-> 20, committed |-> 10, lump |-> 900, reserveMonths |-> 6, reserve |-> 180, confirmed |-> Unset]
PlainAsk == [mode |-> "api", scenario |-> 1, cash |-> 1000, years |-> 7, facts |-> Figures, exposure |-> [debt |-> 3000, equity |-> 5000, gold |-> 700],
             funds |-> {}, minimum |-> NoLimit, increment |-> NoLimit, annualCap |-> [c \in DOMAIN NoLimit |-> Unset], used |-> NoLimit,
             stocks |-> [A |-> 400, B |-> 100], stockCap |-> 20, issuerCap |-> [A |-> 5]]
MCPlanAsks ==
  {[PlainAsk EXCEPT !.scenario = k, !.cash = n, !.exposure = x] :
     k \in 0 .. 3, n \in {-1, 0, 130, 1000, 5170}, x \in {PlainAsk.exposure, [debt |-> 0, equity |-> 0, gold |-> 10], [debt |-> 0, equity |-> 9000, gold |-> 0]}}
  \cup {[PlainAsk EXCEPT !.mode = "suited", !.years = y, !.minimum = m, !.increment = i, !.facts = f,
                         !.funds = {[value |-> 500, share |-> [debt |-> 0, equity |-> 60, gold |-> 10]]},
                         !.annualCap = [debt |-> 400, equity |-> Unset, gold |-> Unset], !.used = [NoLimit EXCEPT !.debt = 100]] :
          y \in {1, 2, 4, 6}, m \in {NoLimit, [debt |-> 400, equity |-> 0, gold |-> 200]}, i \in {NoLimit, [debt |-> 150, equity |-> 70, gold |-> 0]},
          f \in {Figures, [Figures EXCEPT !.income = Unset], [Figures EXCEPT !.income = Unset, !.confirmed = 5],
                  [Figures EXCEPT !.reserve = 100, !.income = 50], [Figures EXCEPT !.lump = 60, !.reserve = 0]}}

\* Personal limits: one fact at a time unknown, debts known and not, and reserves about the target.
MCScenarioRate == [low |-> 400, base |-> 800, high |-> 1100]
Asks == [q1 |-> 70, q2 |-> 40, q3 |-> 20]
KnownFacts == [income |-> 100, expenses |-> 30, reserve |-> 200, months |-> 60, stated |-> 40, answers |-> Asks,
               obligations |-> {[id |-> 1, due |-> 90, amount |-> 20], [id |-> 2, due |-> 900, amount |-> 7]}]
Stream(i, n, inside, status) == [id |-> i, monthly |-> n, inside |-> inside, status |-> status, source |-> "existing_user_reported", start |-> -9, end |-> Undeclared]
AnyView == [what |-> "profile", facts |-> KnownFacts, debts |-> {}, goals |-> [g1 |-> 400, g2 |-> 5000], claims |-> {}, restrictions |-> {}, streams |-> {},
            goal |-> [review |-> FALSE, months |-> 60, reach |-> 0, basis |-> "future_money", inflation |-> Undeclared]]
MCDebts == {{}, {[id |-> 1, payment |-> 4, rate |-> "floating", reset |-> Undeclared]},
            {[id |-> 1, payment |-> 10, rate |-> "fixed", reset |-> Undeclared], [id |-> 2, payment |-> Undeclared, rate |-> "unknown", reset |-> Undeclared]}}
MCViews ==
  {[AnyView EXCEPT !.what = w, !.debts = d, !.facts = [KnownFacts EXCEPT !.reserve = r, !.months = m], !.claims = c, !.restrictions = x] :
     w \in {"profile", "constraints"}, d \in MCDebts, r \in {Undeclared} \cup 176 .. 242, m \in {60, 55},
     c \in {{}, {[id |-> 1, goal |-> "g1", amount |-> 9, status |-> "needs_review"]}}, x \in {{}, {"exclude_sector"}}}
  \cup {[AnyView EXCEPT !.what = "constraints", !.facts = [KnownFacts EXCEPT !.income = i, !.answers = a, !.expenses = e]] :
          i \in {Undeclared, 100}, e \in {0, 30, Undeclared}, a \in {Asks, [Asks EXCEPT !.q2 = Undeclared], [q1 |-> 100, q2 |-> 100, q3 |-> 1], [q1 |-> 0, q2 |-> 0, q3 |-> 0]}}
  \cup {[AnyView EXCEPT !.what = "budget", !.debts = d, !.facts = [KnownFacts EXCEPT !.stated = n, !.income = i], !.streams = s] :
          d \in MCDebts, n \in {Undeclared, 0, 40, 68}, i \in {Undeclared, 100},
          s \in {{Stream(1, a, ia, sa), Stream(2, b, ib, sb)} : a \in {10}, b \in {5, 35}, ia \in BOOLEAN, ib \in BOOLEAN,
                                                              sa \in {"active", "paused"}, sb \in {"active", "ended"}}}
  \cup {[AnyView EXCEPT !.what = "goal", !.goal = [review |-> i = 7, months |-> 60, reach |-> t, basis |-> b, inflation |-> i]] :
          t \in {-1, 1, 798, 803, 804, 806, 1098, 1103, 1104, 1106, 9999, 12000}, b \in {"future_money", "today_money"}, i \in {5, 7, Undeclared}}
  \cup {[AnyView EXCEPT !.what = "goal", !.goal.months = 0, !.goal.reach = t] : t \in {0, Undeclared}}

\* The council: one company goes through what can be unknown, weak or extreme; one is the last but one of the ranking.
MCSeed == <<"A", "B", "C", "D", "E">>
MCLimit == <<5, 5, 4>>
MCWeightOf == [fundamental |-> 25, kronos |-> 20, news |-> 15, technical |-> 15, portfolio |-> 15, risk |-> 10]
MCWeightCap == [conservative |-> 90, moderate |-> 150, aggressive |-> 210, other |-> 150]
Strong == [days |-> 40, volume |-> 9, figures |-> [roe |-> 18, debt |-> 80, growth |-> 10, pe |-> 20, pledged |-> NoFact],
           chart |-> [trend |-> "bullish", rsi |-> 55, macd |-> 1, volatility |-> 30, drawdown |-> 15],
           forecast |-> [direction |-> "bullish", confidence |-> 50, move |-> 5], news |-> [sentiment |-> 5, confidence |-> 8]]
Dim == [Strong EXCEPT !.figures = [@ EXCEPT !.roe = 3, !.growth = NoFact, !.pe = -4], !.chart.trend = "bearish", !.chart.volatility = 50,
                      !.forecast = NoFact, !.news = NoFact]
MCEvidence ==
  {[Strong EXCEPT !.figures = f, !.chart = c, !.forecast = k, !.news = n] :
     f \in {Strong.figures, NoFact, Dim.figures},
     c \in {Strong.chart, NoFact, [Strong.chart EXCEPT !.volatility = 50, !.trend = "bearish", !.rsi = 90],
            [Strong.chart EXCEPT !.volatility = NoFact, !.trend = NoFact, !.macd = -1]},
     k \in {NoFact, Strong.forecast, [Strong.forecast EXCEPT !.direction = "neutral"], [Strong.forecast EXCEPT !.direction = "bearish", !.confidence = 10]},
     n \in {NoFact, [sentiment |-> -8, confidence |-> 10]}}
  \cup {Strong} \cup {[Strong EXCEPT !.days = d, !.figures.debt = x, !.news = NoFact] : d \in {0, 10, 40}, x \in {320, NoFact}}
AnyRun == [profile |-> "moderate", market |-> [trendKnown |-> TRUE, vix |-> 25], solver |-> "first",
           evidence |-> [A |-> Strong, B |-> Strong, C |-> Strong, D |-> Dim, E |-> Dim]]
MCRuns ==
  {[AnyRun EXCEPT !.profile = p, !.market.trendKnown = t, !.solver = v, !.evidence.A = a, !.evidence.D = d] :
     p \in DOMAIN MCWeightCap, t \in BOOLEAN, v \in {"first", "last", "none"}, a \in MCEvidence, d \in {Dim, [Strong EXCEPT !.chart.volatility = 20]}}

\* Evidence: pages of every kind behind redirects of every length, cut at six characters, and claims added to what they say.
MCClashing == {{"percent", "inr"}}
Tok(t, n) == [tag |-> t, size |-> n]
Page(status, type, body) == [status |-> status, to |-> Nowhere, type |-> type, body |-> body]
Moved(to) == [status |-> "moved", to |-> to, type |-> "html", body |-> <<>>]
Claim(type, inputs, entity, unit, value) == [op |-> "fact", type |-> type, size |-> 4, documented |-> TRUE, inputs |-> inputs,
                                             entity |-> entity, unit |-> unit, value |-> value]
Link(f, type, real) == [op |-> "link", fact |-> f, type |-> type, real |-> real]
Plainly == Page("ok", "plain", <<Tok("text", 3), Tok("text", 0), Tok("text", 2), Tok("text", 7)>>)
MCPages == {Plainly, Page("gone", "html", <<>>), Page("ok", "pdf", <<Tok("text", 4)>>), Page("ok", "image", <<>>), Page("ok", "plain", <<Tok("text", 31)>>),
            Page("ok", "rss", <<Tok("item", 2), Tok("text", 5), Tok("item", 0), Tok("item", 4), Tok("item", 5)>>),
            Page("ok", "rss", <<Tok("text", 5), Tok("item", 0)>>)}
           \cup {Page("ok", "html", <<Tok(a, 0), Tok("text", n), Tok(b, 0), Tok("text", 1), Tok("close", 0), Tok("text", m)>>) :
                   a \in {"open", "close"}, b \in {"open", "close"}, n \in {1, 4, 13}, m \in {0, 2, 5}}
AnyMission == [branch |-> "financials_valuation", explicit |-> <<>>, search |-> TRUE, grounded |-> <<"a", "b", "a">>, fallback |-> TRUE,
               feed |-> "feed", article |-> "b", titleMatches |-> TRUE, allowed |-> {"x", "y", "z"}, public |-> {"p", "q"},
               host |-> [a |-> "x", b |-> "y", feed |-> "x", far |-> "z"], addresses |-> [x |-> <<"p", "q">>, y |-> <<"q">>, z |-> <<"p", "inner">>],
               web |-> [a |-> Plainly, b |-> Moved("a"), feed |-> Moved("a"), far |-> Plainly], claims |-> <<>>]
MCMissions ==
  {[AnyMission EXCEPT !.web.a = r, !.web.b = t, !.web.feed = Moved(f)] :
     r \in MCPages, t \in {Moved("a"), Moved("feed"), Moved("far"), Moved(Nowhere)}, f \in {"a", "b"}}
  \cup {[AnyMission EXCEPT !.grounded = g, !.explicit = e, !.search = s, !.fallback = k, !.titleMatches = k, !.branch = b, !.host.b = h] :
          g \in {<<>>, <<"b", Nowhere, "a", "feed", "far">>}, e \in {<<>>, <<"far", "a">>}, s \in BOOLEAN, k \in BOOLEAN,
          b \in {"financials_valuation", "events_governance"}, h \in {"y", "none"}}
  \cup {[AnyMission EXCEPT !.grounded = <<"a">>, !.web.a.body = <<Tok("text", 3)>>,
                           !.claims = <<Claim("inference", {}, x, "inr", v), Claim("source_fact", {}, "company", u, "words"),
                                        Claim("calculation", {3, i}, "company", "inr", w), c, Link(n, t, r)>>] :
          x \in {"company", "other"}, u \in {"inr", "percent"}, v \in {"number", "words"}, w \in {"number", "none"}, i \in {2, 9},
          c \in {Link(1, "refutes", TRUE), Link(4, "refutes", FALSE), Claim("assumption", {}, "company", "none", "none")},
          n \in {1, 3, 4}, t \in {"supports", "refutes", "mentions"}, r \in BOOLEAN}

\* The catalogue: files with a stock renamed or replaced under its symbol, truncated, empty and unreadable; late and failed
\* announcements; histories that trail, disagree, jump or are restated.
MCKindOf == [s1 |-> "stock", s2 |-> "stock", s3 |-> "stock", e1 |-> "etf", f1 |-> "mutual_fund", f2 |-> "mutual_fund"]
MCBrokerSymbol == [b1 |-> "X", b2 |-> "Y", b3 |-> "Z"]
Stock(symbol, series) == [symbol |-> symbol, series |-> series]
Nav(nav, date) == [nav |-> nav, date |-> date]
NoFiles == [equity_l |-> Absent, etf_list |-> Absent, sector_map |-> Absent, amfi |-> Absent]
FullList == [s1 |-> Stock("X", "EQ"), s2 |-> Stock("Y", "EQ"), s3 |-> Stock("W", "BE")]
MCFiles ==
  {[NoFiles EXCEPT !.equity_l = q, !.etf_list = e, !.sector_map = m] :
     q \in {Absent, FullList, [s1 |-> Stock("X", "EQ")], [s1 |-> Stock(Absent, "EQ")],
            [FullList EXCEPT !.s2 = Stock("X", "EQ")], [FullList EXCEPT !.s1 = Stock("Z", Absent)], [s2 |-> Stock("X", "EQ"), s3 |-> Stock("Y", "EQ")]},
     e \in {Absent, [e1 |-> [symbol |-> "Z"]]}, m \in {Absent, [s1 |-> "it", s2 |-> "fin"]}}
OneRefresh == [NoFiles EXCEPT !.equity_l = FullList, !.etf_list = [e1 |-> [symbol |-> "Z"]], !.sector_map = [s1 |-> "it"]]
AnyWorld == [from |-> 7, files |-> {}, actions |-> {}, navs |-> {}]
MCNavs == {Absent} \cup {[isin |-> i, navs |-> n] : i \in {"same", "other", "none"},
                        n \in {4 :> 100 @@ 5 :> 102, 4 :> 100 @@ 5 :> 110, 3 :> 100 @@ 4 :> 160 @@ 5 :> 102, 5 :> 102, 4 :> 98 @@ 5 :> 0,
                               1 :> 51 @@ 5 :> 51 @@ 6 :> 52, 1 :> 103 @@ 5 :> 102 @@ 6 :> 104, 1 :> 101 @@ 2 :> 103}}
MCWorlds ==
  {AnyWorld, [AnyWorld EXCEPT !.files = MCFiles]}
  \cup {[AnyWorld EXCEPT !.from = 5, !.files = {NoFiles, OneRefresh}, !.actions = {[ex |-> x, published |-> p, about |-> "bonus"] : <<x, p>> \in a}] :
          a \in {{<<2, 1>>, <<3, 4>>, <<5, 5>>, <<6, 5>>}, {<<4, 6>>, <<5, 6>>, <<5, 5>>}, {<<1, 2>>, <<4, 5>>, <<6, 7>>, <<8, 5>>}, {<<3, 3>>, <<3, 7>>, <<7, 7>>}}}
  \cup {[AnyWorld EXCEPT !.files = {[OneRefresh EXCEPT !.amfi = [f1 |-> n, f2 |-> Nav(10, d)]] :
                                    n \in {Nav(102, 5), Nav(52, 6), Nav(104, 6), Nav(Absent, 6)}, d \in {4, 6}},
                           !.navs = MCNavs]}

\* Price bases: one or two changes of the shares before, at and after a dividend, each restated by the source or not,
\* announced once, twice or in conflict; no trading on the fourth day.
About(form, a, b, amounts, perShare) == [form |-> form, a |-> a, b |-> b, amounts |-> amounts, perShare |-> perShare]
Changes == {About("bonus", 1, 1, <<>>, 0), About("split", 10, 2, <<>>, 0), About("bonus", 1, 9, <<>>, 0), About("bonus", 1, 5, <<>>, 0), About("split", 1, 10, <<>>, 0)}
Becomes(s) == IF s.form = "bonus" THEN <<s.a + s.b, s.b>> ELSE <<s.a, s.b>>
Change(ex, s, restated) == [ex |-> ex, about |-> s, becomes |-> Becomes(s), restated |-> restated]
Says(ex, s, wording) == [ex |-> ex, about |-> s, wording |-> wording]
Paying(ex, n) == [ex |-> ex, amount |-> n]
MCSureBand == <<15, 100>>
MCUnclear == <<1246, 1000>>
MCQuietMove == <<107, 100>>
MCDays == {<<100, 103, 101, 104, 102>>, <<100, 97, 92, 96, 94>>}
OnDays(v) == (1 :> v[1]) @@ (2 :> v[2]) @@ (3 :> v[3]) @@ (5 :> v[4]) @@ (6 :> v[5])
MCPaid == {{}, {<<Paying(3, 4), Says(3, About("dividend", 0, 0, <<4>>, 0), 1)>>, <<Paying(4, 6), Says(4, About("dividend", 0, 0, <<2, 4>>, 2), 1)>>},
           {<<Paying(5, 3), Says(5, About("dividend", 0, 0, <<3>>, 1), 1)>>, <<Paying(2, 6), Says(2, About("dividend", 0, 0, <<4, 2>>, 1), 1)>>}}
MCNoise == {{}, {Says(2, About("bonus", 1, 1, <<>>, 0), 2), Says(5, About("split", 10, 2, <<>>, 0), 2), Says(3, About("meeting", 0, 0, <<>>, 0), 1)}, {Says(5, About("bonus", 2, 1, <<>>, 0), 2)},
            {Says(6, About("rights", 1, 4, <<>>, 0), 1), Says(6, About("interest", 0, 0, <<>>, 0), 2)}}
MCReal == {{Change(x, s, r)} : x \in {1, 2, 4, 5, 7}, s \in Changes, r \in BOOLEAN}
          \cup {{Change(x, s, r), Change(y, About("bonus", 1, 1, <<>>, 0), q)} : x \in {2, 5}, s \in Changes \ {About("bonus", 1, 9, <<>>, 0)}, r \in BOOLEAN, y \in {3, 4, 5}, q \in BOOLEAN}
AnyHistory == [value |-> OnDays(<<100, 103, 101, 104, 102>>), real |-> {}, paid |-> {}, announced |-> {}]
MCHistories ==
  {AnyHistory, [AnyHistory EXCEPT !.value = OnDays(<<100, 60, 62, 40, 41>>), !.announced = {Says(5, About("split", 10, 0, <<>>, 0), 1)}]} \cup
  {[value |-> OnDays(v), real |-> e, paid |-> {x[1] : x \in p}, announced |-> {Says(c.ex, c.about, 1) : c \in e} \cup {x[2] : x \in p} \cup n] :
     v \in MCDays, p \in MCPaid, n \in MCNoise,
     e \in {x \in MCReal : \A c, d \in x : {c.ex, d.ex} \subseteq {4, 5} => c.restated = d.restated}}

\* Price changes: a day below the high on either side of each level, and swings; one share with closes, one fund without.
AnyBeginning == <<5, 6, 8, 8>>
MCBeginnings == {AnyBeginning, <<8, 6, 5, 6>>}
MCFalls == [fall |-> [enter |-> 20, clear |-> 15], deep |-> [enter |-> 30, clear |-> 25]]
MCQualities == {[sound |-> TRUE, thin |-> TRUE], [sound |-> FALSE, thin |-> FALSE]}
MCMixes == {[answered |-> FALSE, outside |-> {}, unknown |-> FALSE], [answered |-> TRUE, outside |-> {"mix_drift"}, unknown |-> TRUE]}

\* Uploads: up to two rows that share identifiers with each other and with other numbers, rows and files with each error, and a
\* catalogue with one or two listings of a symbol.
MCHeader == <<"asset_type", "isin", "symbol", "description", "units", "value", "valuation_date">>
MCPool == {<<"stock", iA, sX, Blank, 1, 5, "day">>, <<"stock", Blank, sX, Blank, 1, 5, "day">>, <<"stock", iB, sX, Blank, 1, 5, "day">>,
           <<"stock", iA, sX, Blank, 2, 3, "day">>, <<"gold", Blank, Blank, coin, Blank, 5, "day">>, <<"stock", iA, Blank, coin, 1, Blank, "day">>}
MCLines == {<<"bond", iA, Blank, Blank, 1, 5, "day">>, <<"stock", Blank, Blank, Blank, 1, 5, "day">>, <<"stock", iA, Blank, Blank, 0, 5, "day">>,
            <<"stock", iA, Blank, Blank, Blank, Garbled, Garbled>>, <<"stock", iBad, sX, Blank, 1, 5>>, <<"stock", iBad, sX, Blank, 1, 5, "day">>,
            <<"fund", iB, sY, Blank, 1, 5, "day">>, <<"stock", iA, sX, Blank, 1, 5, "day", n1>>, <<Blank, Blank>>}
MCUploads ==
  {[header |-> MCHeader, lines |-> l] : l \in UNION {[1 .. n -> MCPool] : n \in 0 .. 2} \cup {<<l>> : l \in MCLines}}
  \cup {[header |-> Append(MCHeader, "instrument_id"), lines |-> <<<<"stock", Blank, sX, Blank, 1, 5, "day", i>>>>] : i \in {n1, Garbled, sX}}
  \cup {[header |-> h, lines |-> <<>>] : h \in {<<"asset_type", "isin">>, Append(MCHeader, "isin"), Append(MCHeader, "note")}}
MCInstruments == {[id |-> n1, isin |-> iA, symbol |-> sX]}
AnyShelf == {[isin |-> iA, symbol |-> sX]}
MCShelves == {AnyShelf, {[isin |-> iA, symbol |-> sX], [isin |-> iB, symbol |-> sX]}}

\* Outcomes: a security that trades every session, one with a gap and one that stops.  Two workers score one early subject while the
\* history is fetched anew; one worker scores three subjects at the end; one worker makes studies.
MCTraded == {1 .. LastDay \ Holidays, 1 .. LastDay \ (Holidays \cup {4}), 1 .. 3}
TradedIn == [race |-> {1 .. LastDay \ Holidays, 1 .. 3}, many |-> {1 .. LastDay \ Holidays, 1 .. LastDay \ (Holidays \cup {4})}, study |-> {1 .. LastDay \ Holidays}]
OutcomeBounds ==
  /\ part = "race" => (clock < 4 => scoring' = scoring) /\ Cardinality(logged') <= 1 /\ \A s \in logged' : s.kind = "signal" /\ s.known <= 2
  /\ part = "many" => /\ refetches' = 0 /\ \A s \in logged' : s.kind = "signal" \/ s.asOf + 1 = s.known
                      /\ scoring'[w2] = AtRest /\ (scoring'[w1] # AtRest => clock = LastDay)
  /\ part = "study" => refetches' <= 1 /\ studying'[w2] = AtRest /\ clock' <= 4
SameWorkers == Permutations(Scorers)

\* What every figure makes of stored closes: the basis of a price, and what is said to have changed in one.
MarketDataSound == BasisSound /\ ChangesTrue

\* What is projected, and what is proposed for an amount of cash.
CashPlansSound == PlanSound /\ LedgerSound /\ GapSound

AnyUniverse == CHOOSE u \in Universes : TRUE
AnyRequest == [mode |-> "lab", baseline |-> CHOOSE b \in Baselines : TRUE, claims |-> <<>>, flows |-> [contribution |-> 0, withdrawal |-> 0], rules |-> Plain]

\* A behaviour follows one part; the others have one initial state.  Few flows in the lab, few portfolios and claims in a plan.
MCInit ==
  /\ part \in Parts
  /\ part # "plan" => asked = AnyRequest /\ PlanInit
  /\ part # "screen" => universe = AnyUniverse /\ RankingInit
  /\ part # "ledger" => projection = Level /\ LedgerInit
  /\ part # "gaps" => ask = PlainAsk /\ GapInit
  /\ part # "limits" => view = AnyView /\ LimitInit
  /\ part # "council" => run = AnyRun /\ CouncilInit
  /\ part # "evidence" => mission = AnyMission /\ EvidenceInit
  /\ part # "catalogue" => world = AnyWorld /\ CatalogueInit
  /\ part # "prices" => company = AnyHistory /\ BasisInit
  /\ watchlist = Tracked /\ held \in {{}, Tracked \cup NavFunds}
  /\ part # "changes" => closes = [s \in Tracked |-> AnyBeginning] /\ held = {} /\ ChangesInit
  /\ part # "preview" => listed = AnyShelf /\ holding = <<>> /\ PreviewInit
  /\ part \notin {"race", "many", "study"} => traded = 1 .. 3 /\ OutcomeInit
  /\ \/ /\ part = "plan" /\ PlanInit
        /\ asked.mode = "lab" => asked.claims # <<>> /\ asked.flows.contribution \in {0, 150}
        /\ asked.mode = "plan" => asked.claims # [bank |-> 400] /\ asked.flows.contribution # 0
     \/ part = "screen" /\ RankingInit
     \/ part = "ledger" /\ LedgerInit
     \/ part = "gaps" /\ GapInit
     \/ part = "limits" /\ LimitInit
     \/ part = "council" /\ CouncilInit
     \/ part = "evidence" /\ EvidenceInit
     \/ part = "catalogue" /\ CatalogueInit
     \/ part = "prices" /\ BasisInit
     \/ part = "changes" /\ ChangesInit
     \/ part = "preview" /\ PreviewInit
     \/ part \in {"race", "many", "study"} /\ OutcomeInit /\ traded \in TradedIn[part]

InPlan == part = "plan" /\ (LabNext \/ PlanNext) /\ UNCHANGED <<part, rankingVars, ledgerVars, gapVars, limitVars, councilVars, evidenceVars, catalogueVars, basisVars, changeVars, previewVars, outcomeVars>>
InScreen == part = "screen" /\ RankingNext /\ UNCHANGED <<part, planVars, ledgerVars, gapVars, limitVars, councilVars, evidenceVars, catalogueVars, basisVars, changeVars, previewVars, outcomeVars>>
InLedger == part = "ledger" /\ LedgerNext /\ UNCHANGED <<part, planVars, rankingVars, gapVars, limitVars, councilVars, evidenceVars, catalogueVars, basisVars, changeVars, previewVars, outcomeVars>>
InGaps == part = "gaps" /\ GapNext /\ UNCHANGED <<part, planVars, rankingVars, ledgerVars, limitVars, councilVars, evidenceVars, catalogueVars, basisVars, changeVars, previewVars, outcomeVars>>
InLimits == part = "limits" /\ LimitNext /\ UNCHANGED <<part, planVars, rankingVars, ledgerVars, gapVars, councilVars, evidenceVars, catalogueVars, basisVars, changeVars, previewVars, outcomeVars>>
InCouncil == part = "council" /\ Publish /\ UNCHANGED <<part, planVars, rankingVars, ledgerVars, gapVars, limitVars, evidenceVars, catalogueVars, basisVars, changeVars, previewVars, outcomeVars>>
InEvidence == part = "evidence" /\ EvidenceNext /\ UNCHANGED <<part, planVars, rankingVars, ledgerVars, gapVars, limitVars, councilVars, catalogueVars, basisVars, changeVars, previewVars, outcomeVars>>
InCatalogue == part = "catalogue" /\ CatalogueNext /\ UNCHANGED <<part, planVars, rankingVars, ledgerVars, gapVars, limitVars, councilVars, evidenceVars, basisVars, changeVars, previewVars, outcomeVars>>
InPrices == part = "prices" /\ Prepare /\ UNCHANGED <<part, planVars, rankingVars, ledgerVars, gapVars, limitVars, councilVars, evidenceVars, catalogueVars, changeVars, previewVars, outcomeVars>>
InChanges == part = "changes" /\ ChangesNext /\ UNCHANGED <<part, planVars, rankingVars, ledgerVars, gapVars, limitVars, councilVars, evidenceVars, catalogueVars, basisVars, previewVars, outcomeVars>>
InPreview == part = "preview" /\ PreviewNext /\ UNCHANGED <<part, planVars, rankingVars, ledgerVars, gapVars, limitVars, councilVars, evidenceVars, catalogueVars, basisVars, changeVars, outcomeVars>>
InOutcomes ==
  /\ part \in {"race", "many", "study"}
  /\ Closes \/ (part # "study" /\ Scoring) \/ (part = "study" /\ Studying)
  /\ OutcomeBounds
  /\ UNCHANGED <<part, planVars, rankingVars, ledgerVars, gapVars, limitVars, councilVars, evidenceVars, catalogueVars, basisVars, changeVars, previewVars>>

MCSpec == MCInit /\ [][InPlan \/ InScreen \/ InLedger \/ InGaps \/ InLimits \/ InCouncil \/ InEvidence \/ InCatalogue \/ InPrices \/ InChanges \/ InPreview \/ InOutcomes]_<<part, planVars, rankingVars, ledgerVars, gapVars, limitVars, councilVars, evidenceVars, catalogueVars, basisVars, changeVars, previewVars, outcomeVars>>
=============================================================================
