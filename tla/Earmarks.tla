------------------------------ MODULE Earmarks ------------------------------
(***************************************************************************)
(* The first financial inputs (api/financial_inputs.py): holdings          *)
(* snapshots, goals that are edited by superseding their row, and earmarks *)
(* of a holding for a goal.  An earmark is accepted when the earmarks of   *)
(* current goals on the holding leave room for it; the sum is read in one  *)
(* statement and the row inserted in another, and no lock is taken.        *)
(*                                                                         *)
(* A snapshot has one position here, so a position is known by the number  *)
(* of its snapshot.                                                        *)
(***************************************************************************)
EXTENDS Integers, Sequences, FiniteSets, Functions

CONSTANTS
  Writers,       \* request handlers
  ImportKeys,    \* idempotency keys of snapshots
  Rupees,        \* amounts of a holding and of an earmark
  MaxGoals, MaxEarmarks   \* bounds: rows

ASSUME EarmarkAssumption == IsFiniteSet(Writers) /\ Rupees \subseteq Nat \ {0} /\ MaxGoals \in Nat /\ MaxEarmarks \in Nat

VARIABLES
  snapshots,     \* holdings_snapshots: key and amount of the position
  goals,         \* rows of goals: the goal they are a version of, and whether they are superseded
  earmarks,      \* rows of goal_earmarks
  writer         \* a handler: the request under way and what it has read

earmarkVars == <<snapshots, goals, earmarks, writer>>

Free == [at |-> "free"]
Works(w, next) == writer' = [writer EXCEPT ![w] = next]

EInit == snapshots = <<>> /\ goals = <<>> /\ earmarks = <<>> /\ writer = [w \in Writers |-> Free]

Named(key) == {n \in DOMAIN snapshots : snapshots[n].key = key}
Current(row) == ~goals[row].superseded

\* A repeat of a key returns the snapshot it named, whatever its rows.
ConfirmRead(w, key, amount) ==
  /\ writer[w] = Free /\ Named(key) = {}
  /\ Works(w, [at |-> "confirm", key |-> key, amount |-> amount])
  /\ UNCHANGED <<snapshots, goals, earmarks>>

\* The key is unique: the loser of a race fails and the browser asks again.
Added(key, amount) == IF Named(key) = {} THEN Append(snapshots, [key |-> key, amount |-> amount]) ELSE snapshots

ConfirmInsert(w) ==
  /\ writer[w].at = "confirm"
  /\ snapshots' = Added(writer[w].key, writer[w].amount)
  /\ Works(w, Free)
  /\ UNCHANGED <<goals, earmarks>>

CreateGoal ==
  /\ Len(goals) < MaxGoals
  /\ goals' = Append(goals, [of |-> Len(goals) + 1, version |-> 1, superseded |-> FALSE])
  /\ UNCHANGED <<snapshots, earmarks, writer>>

\* An edit reads the row it supersedes; the earmarks of that row are not carried forward.
EditRead(w, row) ==
  /\ writer[w] = Free /\ Current(row)
  /\ Works(w, [at |-> "edit", row |-> row])
  /\ UNCHANGED <<snapshots, goals, earmarks>>

Superseded(row) == [goals EXCEPT ![row].superseded = TRUE]

\* The row is superseded and its successor inserted in one transaction.
EditCommit(w) ==
  LET old == writer[w].row
  IN /\ writer[w].at = "edit" /\ Len(goals) < MaxGoals
     /\ goals' = Append(Superseded(old),
                        [of |-> goals[old].of, version |-> goals[old].version + 1, superseded |-> FALSE])
     /\ Works(w, Free)
     /\ UNCHANGED <<snapshots, earmarks>>

\* What current goals have earmarked of a position.
Earmarked(position) ==
  SumFunctionOnSet([e \in DOMAIN earmarks |-> earmarks[e].amount],
     {e \in DOMAIN earmarks : earmarks[e].position = position /\ Current(earmarks[e].goal)})

\* Mutant: the new earmark is not added to the sum.
HasAnyRoom(position, amount, total) == total <= snapshots[position].amount

HasRoom(position, amount, total) == total + amount <= snapshots[position].amount

EarmarkGoal(w, row, position, amount) ==
  /\ writer[w] = Free /\ Current(row)
  /\ Works(w, [at |-> "sum", row |-> row, position |-> position, amount |-> amount])
  /\ UNCHANGED <<snapshots, goals, earmarks>>

EarmarkSum(w) ==
  LET r == writer[w]
  IN /\ r.at = "sum"
     /\ IF HasRoom(r.position, r.amount, Earmarked(r.position)) THEN Works(w, [r EXCEPT !.at = "earmark"])
        ELSE Works(w, Free)
     /\ UNCHANGED <<snapshots, goals, earmarks>>

EarmarkInsert(w) ==
  LET r == writer[w]
  IN /\ r.at = "earmark" /\ Len(earmarks) < MaxEarmarks
     /\ earmarks' = Append(earmarks, [goal |-> r.row, position |-> r.position, amount |-> r.amount])
     /\ Works(w, Free)
     /\ UNCHANGED <<snapshots, goals>>

\* The handler dies; nothing it has not committed remains.
WriterDies(w) == writer[w] # Free /\ Works(w, Free) /\ UNCHANGED <<snapshots, goals, earmarks>>

ENext ==
  \/ CreateGoal
  \/ \E w \in Writers :
       \/ \E key \in ImportKeys, amount \in Rupees : ConfirmRead(w, key, amount)
       \/ \E row \in DOMAIN goals : EditRead(w, row)
       \/ \E row \in DOMAIN goals, position \in DOMAIN snapshots, amount \in Rupees : EarmarkGoal(w, row, position, amount)
       \/ ConfirmInsert(w) \/ EditCommit(w) \/ EarmarkSum(w) \/ EarmarkInsert(w) \/ WriterDies(w)

ESpec == EInit /\ [][ENext]_earmarkVars

-----------------------------------------------------------------------------
(* What must hold. *)

\* A retried or doubled confirmation of a snapshot does not create a second one.
OneSnapshotPerKey == \A key \in ImportKeys : Cardinality(Named(key)) <= 1

\* However requests overlap, each handler overdraws a holding by its own amount at most.
OverdraftBounded ==
  \A n \in DOMAIN snapshots : Earmarked(n) <= Cardinality(Writers) * snapshots[n].amount

\* A repeated import is one snapshot, and what is set aside from it stays bounded (api/financial_inputs.py).
EarmarksHold == OneSnapshotPerKey /\ OverdraftBounded
=============================================================================
