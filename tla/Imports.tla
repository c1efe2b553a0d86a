------------------------------ MODULE Imports ------------------------------
(***************************************************************************)
(* Confirmed imports of manual and CSV accounts and the adoption of old    *)
(* snapshots.  A request is idempotent per (account, key): the unique key  *)
(* decides between requests, the hash of the rows between a repeat and a   *)
(* different upload.  The rows are completed from the market catalogue     *)
(* before they are hashed, each time the request is made, and the worker   *)
(* changes the catalogue meanwhile.                                        *)
(*                                                                         *)
(* A request is several transactions' worth of awaits: it prepares the     *)
(* rows, looks the key up, inserts, and refreshes the twin; the API        *)
(* process can die between any two of them, and the browser asks again.    *)
(***************************************************************************)
EXTENDS Integers, Sequences, FiniteSets

CONSTANTS
  Clients,      \* browser tabs
  Accounts,     \* manual and CSV accounts
  Keys,         \* idempotency keys
  Uploads,      \* row lists the owner submits
  BySymbol,     \* the uploads with a row that has a symbol and no ISIN
  Listings,     \* securities of the catalogue that carry that symbol, each with its ISIN
  Legacy,       \* old snapshots
  MaxImports,   \* bound: imports
  MaxUpsets     \* bound: changes of the catalogue and deaths of the API process

ASSUME ImportsAssumption ==
  /\ BySymbol \subseteq Uploads /\ Uploads \cap Legacy = {}
  /\ MaxImports \in Nat /\ MaxUpsets \in Nat

VARIABLES
  catalogue,    \* the active listings of the symbol
  imports,      \* source_imports in the order of created_at
  built,        \* how many imports the twin was last built from
  request,      \* a client: the request under way and what it has read
  answered,     \* history: the successful answers
  refused,      \* history: uploads refused with 409 although the key was taken by the same upload
  upsets

importVars == <<catalogue, imports, built, request, answered, refused, upsets>>

None == "none"
Idle == [at |-> "idle"]

\* What a request asks for: an upload under a key of the browser, or an old snapshot, whose key is its own.
Asks == [account : Accounts, key : Keys, upload : Uploads] \cup
        {[account |-> a, key |-> s, upload |-> s] : a \in Accounts, s \in Legacy}

IInit ==
  /\ catalogue \in SUBSET Listings
  /\ imports = <<>> /\ built = 0
  /\ request = [c \in Clients |-> Idle]
  /\ answered = {} /\ refused = {} /\ upsets = 0

\* A symbol is completed with the ISIN of the only listing that carries it.
Completed(upload) ==
  IF upload \in BySymbol /\ Cardinality(catalogue) = 1 THEN CHOOSE l \in catalogue : TRUE ELSE None

Hash(upload, isin) == <<upload, isin>>

WithKey(ask) == {i \in DOMAIN imports : imports[i].account = ask.account /\ imports[i].key = ask.key}
Adopted(snapshot) == {i \in DOMAIN imports : imports[i].upload = snapshot}

Moves(c, next) == request' = [request EXCEPT ![c] = next]

\* validate_rows, the completion of ISINs and resolve_identity, for the rows of an upload.
Prepare(c, ask) ==
  /\ request[c] = Idle /\ ask.upload \in Uploads
  /\ Moves(c, [at |-> "lookup", ask |-> ask, hash |-> Hash(ask.upload, Completed(ask.upload))])
  /\ UNCHANGED <<catalogue, imports, built, answered, refused, upsets>>

\* An old snapshot is refused once any account has adopted it.
PrepareLegacy(c, ask) ==
  /\ request[c] = Idle /\ ask.upload \in Legacy
  /\ Adopted(ask.upload) = {}
  /\ Moves(c, [at |-> "lookup", ask |-> ask, hash |-> Hash(ask.upload, None)])
  /\ UNCHANGED <<catalogue, imports, built, answered, refused, upsets>>

\* Mutant: a key that is taken is answered with its import, whatever the rows.
ReplayAnything(c) ==
  LET r == request[c]
      i == CHOOSE i \in WithKey(r.ask) : TRUE
  IN /\ Moves(c, Idle)
     /\ answered' = answered \cup {[ask |-> r.ask, hash |-> r.hash, import |-> i]}
     /\ UNCHANGED refused

\* The import that the key already names, if any, must have the hash of the request.
Replay(c) ==
  LET r == request[c]
      i == CHOOSE i \in WithKey(r.ask) : TRUE
  IN /\ Moves(c, Idle)
     /\ IF imports[i].hash = r.hash
        THEN /\ answered' = answered \cup {[ask |-> r.ask, hash |-> r.hash, import |-> i]}
             /\ UNCHANGED refused
        ELSE /\ refused' = IF imports[i].upload = r.ask.upload THEN refused \cup {r.ask} ELSE refused
             /\ UNCHANGED answered

Lookup(c) ==
  /\ request[c].at = "lookup"
  /\ IF WithKey(request[c].ask) # {} THEN Replay(c)
     ELSE Moves(c, [request[c] EXCEPT !.at = "insert"]) /\ UNCHANGED <<answered, refused>>
  /\ UNCHANGED <<catalogue, imports, built, upsets>>

\* uq_source_imports_account_key and the unique legacy_snapshot_id.
Taken(ask) == WithKey(ask) # {} \/ (ask.upload \in Legacy /\ Adopted(ask.upload) # {})

Insert(c) ==
  LET r == request[c]
  IN /\ r.at = "insert" /\ ~Taken(r.ask)
     /\ Len(imports) < MaxImports
     /\ imports' = Append(imports, [account |-> r.ask.account, key |-> r.ask.key, upload |-> r.ask.upload, hash |-> r.hash])
     /\ Moves(c, [at |-> "refresh", ask |-> r.ask, hash |-> r.hash, import |-> Len(imports) + 1])
     /\ UNCHANGED <<catalogue, built, answered, refused, upsets>>

\* The loser of a race replays the winner; a snapshot adopted elsewhere is a 409.
InsertLoses(c) ==
  LET r == request[c]
  IN /\ r.at = "insert" /\ Taken(r.ask)
     /\ IF WithKey(r.ask) # {} THEN Replay(c) ELSE Moves(c, Idle) /\ UNCHANGED <<answered, refused>>
     /\ UNCHANGED <<catalogue, imports, built, upsets>>

\* safe_refresh reads the newest imports; one that fails is logged and the request goes on.
Refresh(c, works) ==
  LET r == request[c]
  IN /\ r.at = "refresh"
     /\ works \/ upsets < MaxUpsets
     /\ built' = IF works THEN Len(imports) ELSE built
     /\ upsets' = IF works THEN upsets ELSE upsets + 1
     /\ answered' = answered \cup {[ask |-> r.ask, hash |-> r.hash, import |-> r.import]}
     /\ Moves(c, Idle)
     /\ UNCHANGED <<catalogue, imports, refused>>

\* The catalogue job adds, renames or retires a listing of the symbol.
CatalogueChanges(now) ==
  /\ upsets < MaxUpsets /\ now # catalogue
  /\ catalogue' = now
  /\ upsets' = upsets + 1
  /\ UNCHANGED <<imports, built, request, answered, refused>>

\* The API process dies with every request it serves; what is not committed is gone.
Dies ==
  /\ upsets < MaxUpsets /\ \E c \in Clients : request[c] # Idle
  /\ request' = [c \in Clients |-> Idle]
  /\ upsets' = upsets + 1
  /\ UNCHANGED <<catalogue, imports, built, answered, refused>>

INext ==
  \/ \E c \in Clients, ask \in Asks : Prepare(c, ask) \/ PrepareLegacy(c, ask)
  \/ \E c \in Clients : Lookup(c) \/ Insert(c) \/ InsertLoses(c)
  \/ \E c \in Clients, works \in BOOLEAN : Refresh(c, works)
  \/ \E now \in SUBSET Listings : CatalogueChanges(now)
  \/ Dies

ISpec == IInit /\ [][INext]_importVars

-----------------------------------------------------------------------------
(* What must hold. *)

\* The type invariant of the imports and of the requests under way.
ITypeOK ==
  /\ catalogue \subseteq Listings
  /\ built \in 0 .. Len(imports) /\ Len(imports) <= MaxImports
  /\ \A i \in DOMAIN imports : imports[i].account \in Accounts /\ imports[i].upload \in Uploads \cup Legacy
  /\ \A c \in Clients : request[c].at \in {"idle", "lookup", "insert", "refresh"}
  /\ upsets \in 0 .. MaxUpsets

\* All that was ever answered for a key of an account names one import, made of the rows that were asked for:
\* a repeat never gets another import, and never one with other rows.
AnswersAgree ==
  /\ \A x \in answered : imports[x.import].hash = x.hash /\ imports[x.import].account = x.ask.account
  /\ \A x, y \in answered :
        x.ask.account = y.ask.account /\ x.ask.key = y.ask.key => x.import = y.import

\* An old snapshot becomes the holdings of one account at most, once, whatever the number of tabs that adopt it.
AdoptedOnce == \A s \in Legacy : Cardinality(Adopted(s)) <= 1

\* A request repeated after a lost answer, and a snapshot of the old interface, take effect once (api/v4/imports.py).
ImportedOnce == ITypeOK /\ AnswersAgree /\ AdoptedOnce
=============================================================================
