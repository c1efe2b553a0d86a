------------------------------ MODULE Evidence ------------------------------
(***************************************************************************)
(* The evidence of one branch of a research session: which addresses are   *)
(* tried, how a document is fetched and cut into passages, the facts       *)
(* registered from them, their verification, and the report that may cite  *)
(* them.  Research models the session around it (budget, gaps, commits,    *)
(* deaths); there a fetch answers or not, here is what that depends on.    *)
(*                                                                         *)
(* A document is a sequence of tokens with a size in characters.  A        *)
(* paragraph is its place and size, a piece of one is where it starts, its *)
(* size and its paragraph.                                                 *)
(***************************************************************************)
EXTENDS Integers, Sequences, SequencesExt

CONSTANTS
  MaxFound,       \* addresses taken from one search
  MaxRedirects, MaxBytes,   \* the fetch policy
  MaxItems,       \* items read from a feed
  MaxPassage,     \* characters of a passage
  Joint,          \* characters between two pieces of a passage
  MaxClaim,       \* characters of a fact's text
  Clashing,       \* pairs of units that cannot be combined
  Nowhere,        \* no address
  Missions        \* the inputs: what the search finds and what the web answers

ASSUME EvidenceAssumption ==
  /\ {MaxFound, MaxBytes, MaxItems, MaxPassage, MaxClaim} \subseteq Nat \ {0}
  /\ MaxRedirects \in Nat /\ Joint \in Nat

VARIABLES
  mission,   \* what the search finds, the web, and the claims another step adds
  work       \* the addresses left, the fetch under way, the facts and the report

evidenceVars == <<mission, work>>

FeedTypes == {"rss", "atom", "xml"}
AcceptedTypes == {"html", "plain", "pdf"} \cup FeedTypes
ClaimTypes == {"source_fact", "calculation", "inference", "assumption"}

-----------------------------------------------------------------------------
(* Where to look *)

FirstOnes(s, n) == SubSeq(s, 1, IF Len(s) < n THEN Len(s) ELSE n)

Once(s) == FoldLeft(LAMBDA seen, u : IF u \in {seen[k] : k \in DOMAIN seen} THEN seen ELSE Append(seen, u), <<>>, s)

\* discover_urls: without duplicates, capped; a search that fails finds nothing.
Found(m) == FirstOnes(SelectSeq(Once(m.grounded), LAMBDA u : u # Nowhere), MaxFound)

\* discover_known_sources: the news feed of the subject, and for the financials the article whose title names it.
KnownSources(m) ==
  SelectSeq(<<m.feed, IF m.branch = "financials_valuation" /\ m.titleMatches THEN m.article ELSE Nowhere>>, LAMBDA u : u # Nowhere)

\* The addresses of the request always win; then the search; then the known sources, if they are switched on.
Urls(m) ==
  IF m.explicit # <<>> \/ ~m.search THEN m.explicit
  ELSE IF Found(m) # <<>> \/ ~m.fallback THEN Found(m) ELSE KnownSources(m)

-----------------------------------------------------------------------------
(* What a document says *)

\* The text tokens that no element with hidden content encloses; a closing tag without an opening one is ignored.
Visible(body) ==
  FoldLeft(LAMBDA s, t : IF t.tag = "open" THEN [s EXCEPT !.depth = @ + 1]
                         ELSE IF t.tag = "close" THEN [s EXCEPT !.depth = IF @ > 0 THEN @ - 1 ELSE 0]
                         ELSE IF s.depth = 0 THEN [s EXCEPT !.text = Append(@, t)] ELSE s,
           [depth |-> 0, text |-> <<>>], body).text

\* _extract_text: one token a paragraph.  A feed gives its first items that have a title.
Text(r) ==
  IF r.type = "html" THEN Visible(r.body)
  ELSE IF r.type \in FeedTypes THEN FirstOnes(SelectSeq(r.body, LAMBDA t : t.tag = "item"), MaxItems)
  ELSE SelectSeq(r.body, LAMBDA t : t.tag = "text")

\* Blank paragraphs and untitled items say nothing.
Paragraphs(r) == SelectSeq(Text(r), LAMBDA t : t.size > 0)

\* No text can be read from a PDF; a feed without a titled item is refused, a page without text is not.
Legible(r) == r.type \in AcceptedTypes \ {"pdf"} /\ (r.type \in FeedTypes => Paragraphs(r) # <<>>)

PieceAt(p, size, i) == [paragraph |-> p, from |-> i, size |-> IF size - i < MaxPassage THEN size - i ELSE MaxPassage]

\* A paragraph over the limit is cut where the limit falls.
Pieces(p, size) == [i \in 1 .. (size + MaxPassage - 1) \div MaxPassage |-> PieceAt(p, size, (i - 1) * MaxPassage)]

Length(passage) == FoldLeft(LAMBDA n, piece : n + piece.size, Joint * (Len(passage) - 1), passage)

\* Faulty variant: the joint between two pieces is not counted.
PacksTight(passage, piece) == Length(passage) + piece.size <= MaxPassage

Packs(passage, piece) == Length(Append(passage, piece)) <= MaxPassage

\* extract_passages: each piece goes into the passage under way if it fits, or starts the next one.
Passages(r) ==
  FoldLeft(LAMBDA done, piece : IF done # <<>> /\ Packs(Last(done), piece)
                                THEN ReplaceAt(done, Len(done), Append(Last(done), piece))
                                ELSE Append(done, <<piece>>),
           <<>>, FlattenSeq([p \in DOMAIN Paragraphs(r) |-> Pieces(p, Paragraphs(r)[p].size)]))

-----------------------------------------------------------------------------
(* Facts *)

\* create_fact: a calculation names its formula, its inputs and its code, and the inputs exist.
MayRegister(facts, c) ==
  c.type \in ClaimTypes /\ (c.type = "calculation" => c.documented /\ c.inputs # {} /\ c.inputs \subseteq DOMAIN facts)

Fact(c) == [type |-> c.type, size |-> IF c.size < MaxClaim THEN c.size ELSE MaxClaim, documented |-> c.documented, inputs |-> c.inputs,
            entity |-> c.entity, unit |-> c.unit, value |-> c.value, status |-> "unknown", links |-> <<>>]

\* run_branch: a passage becomes a plain fact about the company, supported by the passage it was cut from.
FromPassage(passage) ==
  [Fact([type |-> "source_fact", size |-> Length(passage), documented |-> FALSE, inputs |-> {}, entity |-> "company", unit |-> "none", value |-> "none"])
     EXCEPT !.links = <<[type |-> "supports", real |-> TRUE]>>]

LinksOf(f, type) == Len(SelectSeq(f.links, LAMBDA l : l.type = type))
RealSupport(f) == \E n \in DOMAIN f.links : f.links[n].type = "supports" /\ f.links[n].real

UnitsOf(facts, f) == {facts[i].unit : i \in f.inputs} \ {"none"}

\* The layers of a calculation; units that nobody called incompatible do not stand in its way.
Consistent(facts, f) ==
  /\ \A i, j \in f.inputs : facts[i].entity = facts[j].entity
  /\ \A pair \in Clashing : ~(pair \subseteq UnitsOf(facts, f))

Calculates(facts, f) ==
  f.documented /\ f.value # "none" /\ (\E i \in f.inputs : facts[i].value = "number") /\ Consistent(facts, f)

Contradicted(f) ==
  LET against == LinksOf(f, "refutes") for == LinksOf(f, "supports")
  IN against > 0 /\ (for = 0 \/ (against >= for /\ ~RealSupport(f)))

\* verify_fact
Verdict(facts, f) ==
  IF Contradicted(f) THEN "contradicted"
  ELSE IF f.type = "calculation" THEN IF Calculates(facts, f) THEN "supported" ELSE "unsupported"
  ELSE IF f.links = <<>> THEN "unknown"
  ELSE IF RealSupport(f) THEN "supported" ELSE "unsupported"

-----------------------------------------------------------------------------
Idle == [at |-> "next", url |-> Nowhere, asked |-> Nowhere, redirects |-> 0]

EvidenceInit ==
  /\ mission \in Missions
  /\ work = [phase |-> "gather", left |-> Urls(mission), fetch |-> Idle, requests |-> 0, reached |-> {}, good |-> <<>>, bad |-> <<>>,
             facts |-> <<>>, cut |-> <<>>, claims |-> mission.claims, next |-> 1,
             unresolved |-> {}, tally |-> [s \in {"supported", "unsupported", "unknown", "contradicted"} |-> 0], report |-> {}]

\* The next address of the branch; its budget is in Research.
Dispatch ==
  /\ work.phase = "gather" /\ work.fetch.at = "next" /\ work.left # <<>>
  /\ work' = [work EXCEPT !.left = Tail(@), !.requests = 0,
                          !.fetch = [at |-> "hop", url |-> Head(work.left), asked |-> Head(work.left), redirects |-> 0]]
  /\ UNCHANGED mission

Hopping == work.phase = "gather" /\ work.fetch.at = "hop"

Reply == mission.web[work.fetch.url]

\* Scheme, host, allow list, and every address the host resolves to; the first one is pinned.
Admitted(u) ==
  LET h == mission.host[u]
  IN h # "none" /\ h \in mission.allowed /\ mission.addresses[h] # <<>>
     /\ \A n \in DOMAIN mission.addresses[h] : mission.addresses[h][n] \in mission.public

\* RetrievalRejected: nothing of the document is kept.
Rejected(w) == [w EXCEPT !.fetch = Idle, !.bad = Append(@, w.fetch.asked)]

TurnAway ==
  /\ Hopping /\ ~Admitted(work.fetch.url)
  /\ work' = Rejected(work)
  /\ UNCHANGED mission

\* The one connection of a hop goes to the pinned address.
Connected == [work EXCEPT !.requests = @ + 1, !.reached = @ \cup {mission.addresses[mission.host[work.fetch.url]][1]}]

Redirect ==
  /\ Hopping /\ Admitted(work.fetch.url) /\ Reply.status = "moved"
  /\ work' = IF Reply.to = Nowhere \/ work.fetch.redirects + 1 > MaxRedirects
             THEN Rejected(Connected)
             ELSE [Connected EXCEPT !.fetch.url = Reply.to, !.fetch.redirects = @ + 1]
  /\ UNCHANGED mission

Bytes(r) == FoldLeft(LAMBDA n, t : n + t.size, 0, r.body)

\* A terminal answer: the whole document within the limit and something to cut passages from, or nothing at all.
Terminal ==
  /\ Hopping /\ Admitted(work.fetch.url) /\ Reply.status # "moved"
  /\ work' = IF Reply.status # "ok" \/ Reply.type \notin AcceptedTypes \/ Bytes(Reply) > MaxBytes \/ ~Legible(Reply) \/ Passages(Reply) = <<>>
             THEN Rejected(Connected)
             ELSE [Connected EXCEPT !.fetch = Idle, !.good = Append(@, work.fetch.asked),
                                    !.cut = Append(@, [reply |-> Reply, passages |-> Passages(Reply)]),
                                    !.facts = @ \o [n \in DOMAIN Passages(Reply) |-> FromPassage(Passages(Reply)[n])]]
  /\ UNCHANGED mission

Gathered == work.phase = "gather" /\ work.fetch.at = "next" /\ work.left = <<>>

\* A claim or a link that another step adds to the ledger (create_fact, link_fact_to_passage); what is refused leaves no row.
Extend ==
  /\ Gathered /\ work.claims # <<>>
  /\ LET c == Head(work.claims)
     IN work' = [work EXCEPT !.claims = Tail(@),
                   !.facts = IF c.op = "fact" THEN IF MayRegister(@, c) THEN Append(@, Fact(c)) ELSE @
                             ELSE IF c.fact \in DOMAIN @ /\ c.type \in {"supports", "refutes"}
                                  THEN [@ EXCEPT ![c.fact].links = Append(@, [type |-> c.type, real |-> c.real])] ELSE @]
  /\ UNCHANGED mission

\* verify_report_claims, one fact after the other; every claim is critical.
Verify ==
  /\ Gathered /\ work.claims = <<>> /\ work.next <= Len(work.facts)
  /\ LET v == Verdict(work.facts, work.facts[work.next])
     IN work' = [work EXCEPT !.facts[work.next].status = v, !.tally[v] = @ + 1, !.next = @ + 1,
                             !.unresolved = IF v \in {"unsupported", "contradicted"} THEN @ \cup {work.next} ELSE @]
  /\ UNCHANGED mission

\* synthesize_and_publish: the model sees the supported facts only, and may fail.
Synthesise ==
  /\ Gathered /\ work.claims = <<>> /\ work.next > Len(work.facts)
  /\ LET cited == {n \in DOMAIN work.facts : work.facts[n].status = "supported"}
     IN \E answers \in BOOLEAN :
          work' = [work EXCEPT !.phase = IF answers /\ cited # {} THEN "published" ELSE "unanswered",
                               !.report = IF answers THEN cited ELSE {}]
  /\ UNCHANGED mission

EvidenceNext == Dispatch \/ TurnAway \/ Redirect \/ Terminal \/ Extend \/ Verify \/ Synthesise

EvidenceSpec == EvidenceInit /\ [][EvidenceNext]_evidenceVars

-----------------------------------------------------------------------------
(* What must hold. *)

\* The characters of a sequence of pieces, and of the paragraphs that a reader of the page would see.
Spelled(pieces) == FlattenSeq([n \in DOMAIN pieces |-> [i \in 1 .. pieces[n].size |-> <<pieces[n].paragraph, pieces[n].from + i>>]])

Count(s, i, j, tag) == Len(SelectSeq(SubSeq(s, i, j), LAMBDA t : t.tag = tag))

\* Declared without a scan: a token is shown when from no place on more hidden elements open than close before it.
Shown(r) ==
  LET readable(n) == /\ r.body[n].size > 0
                     /\ r.body[n].tag = IF r.type \in FeedTypes THEN "item" ELSE "text"
                     /\ r.type = "html" => \A i \in 1 .. n : Count(r.body, i, n - 1, "open") <= Count(r.body, i, n - 1, "close")
      items(n) == Count(r.body, 1, n, "item")
  IN {n \in DOMAIN r.body : readable(n) /\ (r.type \in FeedTypes => items(n) <= MaxItems)}

Sizes(r) == [k \in 1 .. Cardinality(Shown(r)) |-> r.body[CHOOSE n \in Shown(r) : Cardinality({j \in Shown(r) : j < n}) = k - 1].size]

\* Each hop of a fetch is checked before it connects, and one address costs at most one request more than
\* the redirects it may follow (services/retrieval.py fetch_document: "never receive a partial document").
FetchBounded ==
  /\ work.reached \subseteq mission.public
  /\ work.requests <= MaxRedirects + 1
  /\ \A u \in {work.good[n] : n \in DOMAIN work.good} \cup {work.bad[n] : n \in DOMAIN work.bad} : u \in {Urls(mission)[n] : n \in DOMAIN Urls(mission)}

\* The passages of a document, read in order, are exactly what the page shows; none is over the limit, and two
\* neighbours are apart only because they do not fit into one (extract_passages).
PassagesWhole ==
  \A d \in DOMAIN work.cut :
    LET r == work.cut[d].reply  cut == work.cut[d].passages
    IN /\ Spelled(FlattenSeq(cut)) = Spelled([k \in DOMAIN Sizes(r) |-> [paragraph |-> k, from |-> 0, size |-> Sizes(r)[k]]])
       /\ \A n \in DOMAIN cut : Length(cut[n]) \in 1 .. MaxPassage
       /\ \A n \in 1 .. Len(cut) - 1 : Length(cut[n]) + Joint + Head(cut[n + 1]).size > MaxPassage

\* A verified fact is what its links and inputs make it: support is a real passage, or inputs of one entity
\* that were there first; what real text supports is never called contradicted; the summary counts every
\* fact once and lists each one that failed; and a report cites supported facts only.
LedgerHonest ==
  /\ \A n \in 1 .. work.next - 1 :
       LET f == work.facts[n]
       IN /\ f.status = "supported" /\ f.type # "calculation" => RealSupport(f)
          /\ f.status = "supported" /\ f.type = "calculation" =>
               f.inputs # {} /\ f.inputs \subseteq 1 .. n - 1 /\ \A i, j \in f.inputs : work.facts[i].entity = work.facts[j].entity
          /\ f.status = "contradicted" => LinksOf(f, "refutes") > 0 /\ ~RealSupport(f)
          /\ n \in work.unresolved <=> f.status \in {"unsupported", "contradicted"}
  /\ work.tally["supported"] + work.tally["unsupported"] + work.tally["unknown"] + work.tally["contradicted"] = work.next - 1
  /\ Cardinality(work.unresolved) = work.tally["unsupported"] + work.tally["contradicted"]
  /\ work.report \subseteq DOMAIN work.facts \ work.unresolved
  /\ work.phase = "published" => Cardinality(work.report) = work.tally["supported"] /\ work.report # {}

\* What a branch hands to the report can be traced: bounded fetches, whole passages, honest verdicts.
EvidenceSound == FetchBounded /\ PassagesWhole /\ LedgerHonest
=============================================================================
