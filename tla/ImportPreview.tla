--------------------------- MODULE ImportPreview ---------------------------
(***************************************************************************)
(* What an owner is shown before an import replaces the holdings of an     *)
(* account: the rows as they are read, completed and identified, the       *)
(* doubts, and the comparison with the holdings of now, with the goals     *)
(* whose claims it touches.  The preview writes nothing; the confirmation  *)
(* prepares the rows again and replaces the holdings (Imports has its      *)
(* keys and races), after which the twin flags claims that no longer fit.  *)
(***************************************************************************)
EXTENDS Integers, Sequences, FiniteSets, FiniteSetsExt, Functions, SequencesExt

CONSTANTS
  Identified,   \* asset types that have an instrument
  CompletedTypes,       \* those of them that the catalogue completes
  Unidentified, \* the other asset types
  Malformed,    \* ISINs that fail the check digit
  Blank, Garbled,    \* an empty cell, one that is no number, date or flag
  OldTable,     \* the old instruments: id, ISIN and symbol
  Shelves,      \* contents of the catalogue: sets of ISIN and symbol
  Uploads,        \* what is uploaded: a header and lines of cells
  ClaimAmounts, \* what a goal can set aside on a holding
  MaxLines, MaxPreviews   \* bounds: rows of a file; confirmations and claims

ASSUME PreviewAssumption ==
  /\ CompletedTypes \subseteq Identified /\ Identified \cap Unidentified = {} /\ {MaxLines, MaxPreviews} \cup ClaimAmounts \subseteq Nat
  /\ \A f \in Uploads : f.lines \in Seq(ToSet(f.lines))

VARIABLES
  listed,     \* the catalogue
  holding,    \* the rows of the newest import of the account
  setAside,   \* claims of goals on holdings of the account: key, amount, status
  preview,    \* the preview on screen
  turns       \* confirmations and claims so far

previewVars == <<listed, holding, setAside, preview, turns>>

NoPreview == [rows |-> <<>>]

Columns == {"asset_type", "isin", "symbol", "description", "units", "value", "valuation_date", "instrument_id"}
RequiredColumns == {"asset_type", "valuation_date"}

-----------------------------------------------------------------------------
(* Reading a file *)

HasCells(line) == \E k \in DOMAIN line : line[k] # Blank
Lines(file) == FoldLeft(LAMBDA kept, line : IF HasCells(line) THEN Append(kept, line) ELSE kept, <<>>, file.lines)

\* parse_csv.
Unreadable(file) ==
  \/ ~IsInjective(file.header) \/ ~(RequiredColumns \subseteq ToSet(file.header) /\ ToSet(file.header) \subseteq Columns)
  \/ Len(Lines(file)) > MaxLines
  \/ \E k \in DOMAIN Lines(file) : Len(Lines(file)[k]) > Len(file.header)

\* A cell the line or the header does not have is empty.
Cell(file, line, column) ==
  LET at == {k \in DOMAIN line : file.header[k] = column} IN IF at = {} THEN Blank ELSE line[CHOOSE k \in at : TRUE]

RowsOf(file) == [k \in DOMAIN Lines(file) |-> [column \in Columns |-> Cell(file, Lines(file)[k], column)]]

NoNumber(cell, least) == cell # Blank /\ (cell \notin Nat \/ cell < least)

\* validate_row: the fields in error.
Errors(raw) ==
  {f \in Columns :
    \/ f = "asset_type" /\ raw[f] \notin Identified \cup Unidentified
    \/ f = "isin" /\ {raw.isin, raw.symbol, raw.description} = {Blank}
    \/ f = "units" /\ (NoNumber(raw[f], 1) \/ {raw.units, raw.value} = {Blank})
    \/ f = "value" /\ NoNumber(raw[f], 0)
    \/ f = "valuation_date" /\ raw[f] \in {Blank, Garbled}
    \/ f = "instrument_id" /\ raw[f] = Garbled}

-----------------------------------------------------------------------------
(* Completing and identifying a row *)

Wanted(raws) == {r.symbol : r \in {x \in ToSet(raws) : Errors(x) = {} /\ x.isin = Blank /\ x.asset_type \in CompletedTypes}} \ {Blank}

\* _fill_isins_from_catalogue: a symbol that some listed row asks about and that one listing carries.
WithIsin(raws, raw) ==
  LET hits == {l \in listed : l.symbol = raw.symbol}
  IN IF raw.isin = Blank /\ raw.symbol \in Wanted(raws) /\ Cardinality(hits) = 1 THEN [raw EXCEPT !.isin = (CHOOSE l \in hits : TRUE).isin] ELSE raw

\* resolve_identity, with the note of _explain_catalogue_matches.
Identity(row) ==
  LET known == {i \in OldTable : i.isin = row.isin}
      named == {i \in OldTable : i.symbol = row.symbol}
      Says(status, note) == [status |-> status, id |-> Blank, note |-> note]
  IN IF row.asset_type \notin Identified THEN Says("not_applicable", "none")
     ELSE IF row.instrument_id # Blank
          THEN IF \E i \in OldTable : i.id = row.instrument_id THEN [status |-> "resolved", id |-> row.instrument_id, note |-> "approved"]
               ELSE Says("unresolved", "not_found")
     ELSE IF row.isin = Blank THEN IF named # {} THEN Says("ambiguous", "symbol_only") ELSE Says("unresolved", "no_match")
     ELSE IF row.isin \in Malformed THEN Says("unresolved", "invalid")
     ELSE IF Cardinality(known) = 1 THEN [status |-> "resolved", id |-> (CHOOSE i \in known : TRUE).id, note |-> "isin"]
     ELSE IF known # {} THEN Says("ambiguous", "several")
     ELSE IF named # {} /\ \A i \in named : i.isin # Blank THEN Says("ambiguous", "another_isin")
     ELSE Says("unresolved", IF \E l \in listed : l.isin = row.isin THEN "in_catalogue" ELSE "unknown")

\* What identifies a row, to the owner and to the claims of goals.
First(row) == IF row.isin # Blank THEN row.isin ELSE IF row.symbol # Blank THEN row.symbol ELSE row.description
DedupKey(row) == <<row.asset_type, First(row)>>

\* An observation keeps its first identifier, not a description behind it.
Observed(row) == [type |-> row.asset_type, key |-> DedupKey(row), names |-> {row.isin, row.symbol, First(row)} \ {Blank},
                  units |-> row.units, value |-> row.value, identity |-> Identity(row)]

\* A second row of a key may be another lot or a double entry.
Doubled(rows) == {k \in DOMAIN rows : \E j \in 1 .. k - 1 : DedupKey(rows[j]) = DedupKey(rows[k])}

-----------------------------------------------------------------------------
(* Comparison with the holdings of now *)

Idents(row) == {row.isin, row.symbol, row.description} \ {Blank}

\* Faulty variant: a holding that a row has taken stays free for the next.
HitsTwice(rows) ==
  [n \in DOMAIN rows |->
    LET free == {k \in DOMAIN holding : holding[k].type = rows[n].asset_type /\ holding[k].names \cap Idents(rows[n]) # {}}
    IN IF free = {} THEN 0 ELSE Min(free)]

\* _reconcile: each row takes the first holding left of its type that shares a name, 0 if there is none.
Hits(rows) ==
  FoldLeft(LAMBDA hits, row :
             LET free == {k \in DOMAIN holding \ ToSet(hits) : holding[k].type = row.asset_type /\ holding[k].names \cap Idents(row) # {}}
             IN Append(hits, IF free = {} THEN 0 ELSE Min(free)),
           <<>>, rows)

Alike(old, row) == old.units = row.units /\ old.value = row.value

Removed(hits) == DOMAIN holding \ ToSet(hits)
Changed(rows, hits) == {hits[k] : k \in {j \in DOMAIN rows : hits[j] # 0 /\ ~Alike(holding[hits[j]], rows[j])}}

StillClaims(c) == c.status \in {"active", "needs_review"}

\* The keys on which the preview counts claims of goals.
Touched(rows, hits) == {holding[k].key : k \in Removed(hits) \cup Changed(rows, hits)}

\* _prepare and _preview_out, _reconcile if no row is in error.
PreviewOf(raws) ==
  LET rows  == [k \in DOMAIN raws |-> WithIsin(raws, raws[k])]
      clean == \A k \in DOMAIN raws : Errors(raws[k]) = {}
      hits  == Hits(rows)
  IN IF ~clean THEN [rows |-> rows, clean |-> FALSE]
     ELSE [rows |-> rows, clean |-> TRUE, doubled |-> Doubled(rows),
           added |-> {k \in DOMAIN rows : hits[k] = 0}, removed |-> Removed(hits), changed |-> Changed(rows, hits),
           unchanged |-> Cardinality({k \in DOMAIN rows : hits[k] # 0 /\ Alike(holding[hits[k]], rows[k])}),
           hits |-> hits, claims |-> {c \in setAside : StillClaims(c) /\ c.key \in Touched(rows, hits)}]

CanConfirm(p) == p.rows # <<>> /\ p.clean

-----------------------------------------------------------------------------
(* Behaviour *)

Observations(rows) == [k \in DOMAIN rows |-> Observed(rows[k])]

\* The account has no import yet, or one of an upload that was confirmed before.
PreviewInit ==
  /\ listed \in Shelves /\ setAside = {} /\ preview = NoPreview /\ turns = 0
  /\ holding \in {<<>>} \cup {LET raws == RowsOf(f) IN Observations([k \in DOMAIN raws |-> WithIsin(raws, raws[k])]) :
                              f \in {u \in Uploads : ~Unreadable(u) /\ \A k \in DOMAIN RowsOf(u) : Errors(RowsOf(u)[k]) = {}}}

Preview(file) ==
  /\ preview = NoPreview /\ ~Unreadable(file)
  /\ preview' = PreviewOf(RowsOf(file))
  /\ UNCHANGED <<listed, holding, setAside, turns>>

Worth(rows, key) ==
  SumFunctionOnSet([k \in DOMAIN rows |-> IF rows[k].value = Blank THEN 0 ELSE rows[k].value], {k \in DOMAIN rows : rows[k].key = key})
SetAsideOn(claims, key) == SumFunctionOnSet([c \in claims |-> c.amount], {c \in claims : c.key = key})

\* reconcile_allocations: the holding is gone, has no value, or has less than its claims.
Misfit(rows, claims, key) ==
  \/ ~\E k \in DOMAIN rows : rows[k].key = key
  \/ \E k \in DOMAIN rows : rows[k].key = key /\ rows[k].value = Blank
  \/ SetAsideOn(claims, key) > Worth(rows, key)

Flagged(rows, claims) ==
  {IF c.status = "active" /\ Misfit(rows, {x \in claims : StillClaims(x)}, c.key) THEN [c EXCEPT !.status = "needs_review"] ELSE c : c \in claims}

\* The owner confirms what is shown, with the doubled rows if there are any; the twin follows.
ConfirmShown(acknowledged) ==
  /\ preview # NoPreview /\ turns < MaxPreviews
  /\ CanConfirm(preview)
  /\ preview.doubled = {} \/ acknowledged
  /\ holding' = Observations(preview.rows)
  /\ setAside' = Flagged(Observations(preview.rows), setAside)
  /\ preview' = NoPreview /\ turns' = turns + 1
  /\ UNCHANGED listed

Leave ==
  /\ preview # NoPreview
  /\ preview' = NoPreview
  /\ UNCHANGED <<listed, holding, setAside, turns>>

\* A goal sets money of a holding aside.
SetAside(k, amount) ==
  LET key == holding[k].key
      claims == setAside \cup {[key |-> key, amount |-> amount, status |-> "active", id |-> turns]}
  IN /\ turns < MaxPreviews /\ preview = NoPreview
     /\ ~Misfit(holding, {c \in claims : StillClaims(c)}, key)
     /\ setAside' = claims /\ turns' = turns + 1
     /\ UNCHANGED <<listed, holding, preview>>

Release(c) ==
  /\ StillClaims(c) /\ turns < MaxPreviews /\ preview = NoPreview
  /\ setAside' = (setAside \ {c}) \cup {[c EXCEPT !.status = "released"]}
  /\ turns' = turns + 1
  /\ UNCHANGED <<listed, holding, preview>>

PreviewNext ==
  \/ \E f \in Uploads : Preview(f)
  \/ \E yes \in BOOLEAN : ConfirmShown(yes)
  \/ Leave
  \/ \E k \in DOMAIN holding, a \in ClaimAmounts : SetAside(k, a)
  \/ \E c \in setAside : Release(c)

PreviewSpec == PreviewInit /\ [][PreviewNext]_previewVars

-----------------------------------------------------------------------------
(* Properties *)

\* Every holding of before is kept, changed or removed, once, and so is every row (api/v4/imports.py, _reconcile).
EveryRowOnce ==
  CanConfirm(preview) =>
    /\ Len(holding) = Cardinality(preview.removed) + Cardinality(preview.changed) + preview.unchanged
    /\ Len(preview.rows) = Cardinality(preview.added) + Cardinality(preview.changed) + preview.unchanged

\* An upload of what the account already holds changes nothing.
RepeatIsQuiet ==
  (CanConfirm(preview) /\ Observations(preview.rows) = holding) =>
    preview.added = {} /\ preview.removed = {} /\ preview.changed = {}

\* A holding taken for a row with another identifier.
Renamed(p) == {holding[p.hits[k]].key : k \in {j \in DOMAIN p.rows : p.hits[j] # 0 /\ holding[p.hits[j]].key # DedupKey(p.rows[j])}}

\* Every claim that the confirmation would flag is counted in the preview, unless its holding is renamed or has a doubled row.
FlagsAnnounced ==
  CanConfirm(preview) =>
    \A c \in setAside :
      (c.status = "active" /\ c \notin Flagged(Observations(preview.rows), setAside)) =>
        c \in preview.claims \/ c.key \in Renamed(preview) \cup {DedupKey(preview.rows[k]) : k \in preview.doubled}

\* The comparison the owner confirms: each row once, a repeated upload without changes, every claim it will flag announced
\* (api/v4/imports.py: csv_preview).
PreviewTrue == EveryRowOnce /\ RepeatIsQuiet /\ FlagsAnnounced
=============================================================================
