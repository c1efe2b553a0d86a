-------------------------------- MODULE Twin --------------------------------
(***************************************************************************)
(* The portfolio twin: a chain of immutable states, each with valuations.  *)
(* Every handler that changes an input (an import, the inclusion of an     *)
(* account, the coverage, the profile, a goal, a claim) commits it and     *)
(* then calls refresh_state: read the inputs, read the latest state, write *)
(* a new state if the economics differ and a new valuation if the observed *)
(* values do.  No lock is taken: the unique keys of the tables decide      *)
(* between refreshes, and a refresh that loses is repeated once.           *)
(*                                                                         *)
(* The inputs are two values: the economics (holdings, units, bound facts: *)
(* economic_hash) and the observed prices (observation_set_hash).          *)
(***************************************************************************)
EXTENDS Integers, Sequences, FiniteSets

CONSTANTS
  Refreshers,     \* request handlers and sync attempts that refresh the twin
  Economics,    \* contents of the holdings and bound facts
  Prices,       \* observed values and dates
  MaxChanges    \* bound: changes of the inputs

ASSUME TwinAssumption == MaxChanges \in Nat /\ Economics # {} /\ Prices # {}

VARIABLES
  inputs,     \* the committed inputs: [e, p]
  states,     \* portfolio_states: the economics of each version
  vals,       \* valuation_snapshots: [state, p, at]; `at` is created_at
  clock,      \* utcnow(): every refresh reads it once, at its start
  at,         \* a handler: "idle", or the next step of its refresh
  seen,       \* the inputs its refresh has read
  base,       \* the latest version its refresh has read
  reuse,      \* it found the valuation it would write
  stamp,      \* the time its refresh started
  attempt,    \* 1 or 2
  changes,    \* changes so far
  overlapped, \* history: a refresh started while another was under way
  lost        \* refreshes that raised (safe_refresh logs and goes on)

tables == <<inputs, states, vals>>
locals == <<at, seen, base, reuse, stamp, attempt>>
twinVars == <<tables, locals, clock, changes, overlapped, lost>>

Versions == 1 .. Len(states)

\* latest_valuation: ORDER BY created_at DESC over the valuations of a state.
Newest(n, v) == v \in vals /\ v.state = n /\ \A u \in vals : u.state = n => u.at <= v.at

-----------------------------------------------------------------------------
TInit ==
  /\ \E e \in Economics, p \in Prices : inputs = [e |-> e, p |-> p]
  /\ states = <<>> /\ vals = {}
  /\ clock = 0
  /\ at = [h \in Refreshers |-> "idle"]
  /\ seen = [h \in Refreshers |-> inputs]
  /\ base = [h \in Refreshers |-> 0]
  /\ reuse = [h \in Refreshers |-> FALSE]
  /\ stamp = [h \in Refreshers |-> 0]
  /\ attempt = [h \in Refreshers |-> 1]
  /\ changes = 0 /\ overlapped = FALSE /\ lost = 0

\* An input is committed; the refresh starts.
Change(h) ==
  /\ at[h] = "idle"
  /\ changes < MaxChanges
  /\ changes' = changes + 1
  /\ \E e \in Economics, p \in Prices : inputs' = [e |-> e, p |-> p]
  /\ clock' = clock + 1
  /\ stamp' = [stamp EXCEPT ![h] = clock + 1]
  /\ at' = [at EXCEPT ![h] = "load"]
  /\ attempt' = [attempt EXCEPT ![h] = 1]
  /\ overlapped' = (overlapped \/ \E k \in Refreshers : at[k] # "idle")
  /\ UNCHANGED <<states, vals, seen, base, reuse, lost>>

\* load_inputs.
Load(h) ==
  /\ at[h] = "load"
  /\ seen' = [seen EXCEPT ![h] = inputs]
  /\ at' = [at EXCEPT ![h] = "latest"]
  /\ UNCHANGED <<tables, clock, base, reuse, stamp, attempt, changes, overlapped, lost>>

\* A new state is due: there is none, or its economics differ from those read.
Creates(h) == base[h] = 0 \/ states[base[h]] # seen[h].e

\* latest_state, and for an unchanged state the valuation with the same observations.
ReadLatest(h) ==
  /\ at[h] = "latest"
  /\ base' = [base EXCEPT ![h] = Len(states)]
  /\ reuse' = [reuse EXCEPT ![h] = \E v \in vals : v.state = Len(states) /\ v.p = seen[h].p]
  /\ at' = [at EXCEPT ![h] = "write"]
  /\ UNCHANGED <<tables, clock, seen, stamp, attempt, changes, overlapped, lost>>

\* Faulty variants: the version, or the identity of a valuation, is not unique.
NoConflict(h) == FALSE

\* The unique keys (user, version) and (state, observations, policy) reject the commit.
Conflict(h) ==
  IF Creates(h)
  THEN Len(states) # base[h]
  ELSE ~reuse[h] /\ \E v \in vals : v.state = base[h] /\ v.p = seen[h].p

\* A new state with its first valuation, or a new valuation of the state, or nothing.
Write(h) ==
  /\ at[h] = "write"
  /\ ~Conflict(h)
  /\ at' = [at EXCEPT ![h] = "idle"]
  /\ IF Creates(h)
     THEN /\ states' = Append(states, seen[h].e)
          /\ vals' = vals \cup {[state |-> Len(states) + 1, p |-> seen[h].p, at |-> stamp[h]]}
     ELSE /\ UNCHANGED states
          /\ vals' = IF reuse[h] THEN vals ELSE vals \cup {[state |-> base[h], p |-> seen[h].p, at |-> stamp[h]]}
  /\ UNCHANGED <<inputs, clock, seen, base, reuse, stamp, attempt, changes, overlapped, lost>>

\* IntegrityError: roll back and start over, once.
Repeat(h) ==
  /\ at[h] = "write"
  /\ Conflict(h)
  /\ IF attempt[h] = 1
     THEN /\ at' = [at EXCEPT ![h] = "load"]
          /\ attempt' = [attempt EXCEPT ![h] = 2]
          /\ UNCHANGED lost
     ELSE /\ at' = [at EXCEPT ![h] = "idle"]
          /\ UNCHANGED attempt
          /\ lost' = lost + 1
  /\ UNCHANGED <<tables, clock, seen, base, reuse, stamp, changes, overlapped>>

\* The process dies between the commit of the input and that of the refresh.
RefreshDies(h) ==
  /\ at[h] # "idle"
  /\ at' = [at EXCEPT ![h] = "idle"]
  /\ lost' = lost + 1
  /\ UNCHANGED <<tables, clock, seen, base, reuse, stamp, attempt, changes, overlapped>>

TNext == \E h \in Refreshers : Change(h) \/ Load(h) \/ ReadLatest(h) \/ Write(h) \/ Repeat(h) \/ RefreshDies(h)

TSpec == TInit /\ [][TNext]_twinVars

-----------------------------------------------------------------------------
(* Properties *)

\* The type invariant of the twin's tables and of a refresh.
TTypeOK ==
  /\ states \in Seq(Economics)
  /\ vals \subseteq [state : Versions, p : Prices, at : 0 .. clock]
  /\ at \in [Refreshers -> {"idle", "load", "latest", "write"}]
  /\ base \in [Refreshers -> 0 .. Len(states)]
  /\ attempt \in [Refreshers -> {1, 2}]
  /\ lost \in 0 .. MaxChanges

\* A new state is made only when the economics changed: however refreshes overlap and repeat, two
\* consecutive versions differ, so a repeated or concurrent refresh leaves no duplicate version.
NewStateOnlyOnChange == \A n \in 2 .. Len(states) : states[n] # states[n - 1]

\* A valuation of a state is stored once per observed values, and every state has one.
OneValuation ==
  /\ \A u, v \in vals : u.state = v.state /\ u.p = v.p => u = v
  /\ \A n \in Versions : \E v \in vals : v.state = n

\* No refresh is under way, and none was lost.
Refreshed == changes > 0 /\ lost = 0 /\ \A h \in Refreshers : at[h] = "idle"

\* Refreshes one at a time: the latest state has the committed economics, also after they changed and
\* changed back.  (Overlapping refreshes can write older economics last.)
TwinFollowsInputs == Refreshed /\ ~overlapped => states # <<>> /\ states[Len(states)] = inputs.e

\* Together, on rows that keep their types: no step of a refresh, however it overlaps another, repeats a version or a valuation or leaves the
\* twin behind (build.py: refresh_state).
TwinSound == TTypeOK /\ NewStateOnlyOnChange /\ OneValuation /\ TwinFollowsInputs

\* build.py: a refresh at other prices yields a new valuation on the same state; the latest one is the current one.
ValuationFollowsInputs ==
  Refreshed /\ states # <<>> => \A v \in vals : Newest(Len(states), v) => v.p = inputs.p
=============================================================================
