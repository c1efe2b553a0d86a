--------------------------- MODULE PlanningProofs ---------------------------
(***************************************************************************)
(* What the owner plans with: the portfolio twin, the claims of goals on   *)
(* holdings, and the inbox of issues, each proved for any number of        *)
(* handlers and rows.                                                      *)
(*                                                                         *)
(* The twin.  That no version repeats the one before it follows from the   *)
(* unique key alone.  That the twin follows its inputs while refreshes     *)
(* come one at a time (RefreshAlone) needs what the one refresh under way  *)
(* has read: the committed inputs, the newest version, and whether its     *)
(* valuation exists.  The bound on lost refreshes counts those that are    *)
(* still under way.                                                        *)
(*                                                                         *)
(* The claims.  That the claims on a holding never exceed the largest      *)
(* value it had is not inductive: it rests on whoever is about to commit   *)
(* more holding the lock, with the amount still fitting beside the others  *)
(* (Locking), which a release, that takes no lock, can only make easier.   *)
(* That the status of a claim is changed by those who may change it rests  *)
(* on every handler remembering the version it read, and on a version      *)
(* never coming back (Remembered, Numbered).  That a value which is too    *)
(* small is noticed rests on the re-check it asks for having read every    *)
(* claim that is active by then (WatchKept).                               *)
(*                                                                         *)
(* The inbox.  What was dismissed is what the owner was shown, because a   *)
(* tab's version decides (TabKnown), and the severity and measure kept     *)
(* with the row are those (Dismissal).  That an alert owns its issue while *)
(* no evaluation or removal of it crossed another rests on what the one    *)
(* under way has found still being so (Uncrossed).                         *)
(*                                                                         *)
(* The watchlists.  A limit can be passed once by each other worker        *)
(* because whoever has counted and not inserted yet counts too             *)
(* (LimitsKept).  That an evaluation which nothing crossed puts every      *)
(* alert right needs what it saw to be so still, whatever was added and    *)
(* removed meanwhile, and that nobody else is evaluating (Remembers).      *)
(***************************************************************************)
EXTENDS Twin, GoalClaims, Watchlists, TableLemmas

-----------------------------------------------------------------------------
(* The twin. *)

Content == [e : Economics, p : Prices]
Valuation == [state : Nat, p : Prices, at : Nat]

Refreshing == {h \in Refreshers : at[h] # "idle"}

\* The values of the variables.
TwinTypeOK ==
  /\ inputs \in Content
  /\ states \in Seq(Economics)
  /\ vals \subseteq Valuation
  /\ clock \in Nat
  /\ at \in [Refreshers -> {"idle", "load", "latest", "write"}]
  /\ seen \in [Refreshers -> Content]
  /\ base \in [Refreshers -> Nat]
  /\ reuse \in [Refreshers -> BOOLEAN]
  /\ stamp \in [Refreshers -> Nat]
  /\ attempt \in [Refreshers -> {1, 2}]
  /\ changes \in 0 .. MaxChanges
  /\ overlapped \in BOOLEAN
  /\ lost \in Nat

\* What a refresh and a valuation refer to exists.
Refers ==
  /\ \A h \in Refreshers : base[h] <= Len(states) /\ stamp[h] <= clock
  /\ \A v \in vals : v.state \in Versions /\ v.at <= clock

\* Every change has one refresh, which is over, under way or lost.
LostCounted == IsFiniteSet(Refreshing) /\ lost + Cardinality(Refreshing) <= changes

\* While refreshes have come one at a time: the one under way has read what is committed, and when there is none
\* the newest version has the committed contents.
RefreshAlone ==
  ~overlapped =>
    /\ \A h, k \in Refreshing : h = k
    /\ \A h \in Refreshers : at[h] \in {"latest", "write"} => seen[h] = inputs
    /\ \A h \in Refreshers : at[h] = "write" =>
         /\ base[h] = Len(states)
         /\ reuse[h] <=> \E v \in vals : v.state = base[h] /\ v.p = seen[h].p
    /\ Refreshed => states # <<>> /\ states[Len(states)] = inputs.e

TwinInv == TwinTypeOK /\ Refers /\ LostCounted /\ NewStateOnlyOnChange /\ OneValuation /\ RefreshAlone

-----------------------------------------------------------------------------

LEMMA InitTwinInv == TInit => TwinInv
<1> SUFFICES ASSUME TInit PROVE TwinInv OBVIOUS
<1>1. inputs \in Content BY DEF TInit, Content
<1>2. TwinTypeOK
  <2>1. states \in Seq(Economics) /\ vals \subseteq Valuation BY DEF TInit
  <2>2. at \in [Refreshers -> {"idle", "load", "latest", "write"}] /\ seen \in [Refreshers -> Content] BY <1>1 DEF TInit
  <2>3. base \in [Refreshers -> Nat] /\ stamp \in [Refreshers -> Nat] BY DEF TInit
  <2>4. reuse \in [Refreshers -> BOOLEAN] /\ attempt \in [Refreshers -> {1, 2}] BY DEF TInit
  <2>5. clock = 0 /\ changes = 0 /\ overlapped = FALSE /\ lost = 0 BY DEF TInit
  <2>6. clock \in Nat /\ changes \in 0 .. MaxChanges /\ lost \in Nat BY <2>5, TwinAssumption
  <2>7. overlapped \in BOOLEAN BY <2>5
  <2> QED BY <1>1, <2>1, <2>2, <2>3, <2>4, <2>6, <2>7 DEF TwinTypeOK
<1>3. Refreshing = {} BY DEF TInit, Refreshing
<1>4. LostCounted BY <1>3, FS_EmptySet DEF TInit, LostCounted
<1>5. Len(states) = 0 /\ vals = {} /\ changes = 0 BY DEF TInit
<1>6. Refers BY <1>2, <1>5 DEF TInit, Refers, TwinTypeOK
<1>7. NewStateOnlyOnChange /\ OneValuation BY <1>5 DEF NewStateOnlyOnChange, OneValuation, Versions
<1>8. RefreshAlone BY <1>2, <1>3, <1>5 DEF TInit, RefreshAlone, Refreshed, Refreshing
<1> QED BY <1>2, <1>4, <1>6, <1>7, <1>8 DEF TwinInv

\* A refresh that starts and one that ends, counted.
LEMMA OneMoreBusy ==
  ASSUME TwinInv, NEW h \in Refreshers, at[h] = "idle", NEW s \in {"load", "latest", "write"}, at' = [at EXCEPT ![h] = s]
  PROVE  Refreshing' = Refreshing \cup {h} /\ IsFiniteSet(Refreshing') /\ Cardinality(Refreshing') = Cardinality(Refreshing) + 1
<1>1. Refreshing' = Refreshing \cup {h} /\ h \notin Refreshing BY DEF TwinInv, TwinTypeOK, Refreshing
<1> QED BY <1>1, FS_AddElement DEF TwinInv, LostCounted

LEMMA OneLessBusy ==
  ASSUME TwinInv, NEW h \in Refreshers, at[h] # "idle", at' = [at EXCEPT ![h] = "idle"]
  PROVE  Refreshing' = Refreshing \ {h} /\ IsFiniteSet(Refreshing') /\ Cardinality(Refreshing') = Cardinality(Refreshing) - 1
<1>1. Refreshing' = Refreshing \ {h} /\ h \in Refreshing BY DEF TwinInv, TwinTypeOK, Refreshing
<1> QED BY <1>1, FS_RemoveElement DEF TwinInv, LostCounted

LEMMA SameBusy ==
  ASSUME TwinInv, NEW h \in Refreshers, at[h] # "idle", NEW s \in {"load", "latest", "write"}, at' = [at EXCEPT ![h] = s]
  PROVE  Refreshing' = Refreshing
  BY DEF TwinInv, TwinTypeOK, Refreshing

LEMMA CountsAreNumbers ==
  ASSUME TwinInv
  PROVE  Cardinality(Refreshing) \in Nat /\ changes \in Nat /\ lost \in Nat /\ Len(states) \in Nat
  BY FS_CardinalityType, TwinAssumption DEF TwinInv, TwinTypeOK, LostCounted

-----------------------------------------------------------------------------
(* The steps. *)

LEMMA ChangeKeeps ==
  ASSUME TwinInv, NEW h \in Refreshers, Change(h)
  PROVE  TwinInv'
<1>1. /\ at[h] = "idle" /\ changes < MaxChanges /\ changes' = changes + 1 /\ clock' = clock + 1
      /\ stamp' = [stamp EXCEPT ![h] = clock + 1] /\ at' = [at EXCEPT ![h] = "load"]
      /\ attempt' = [attempt EXCEPT ![h] = 1]
      /\ overlapped' = (overlapped \/ \E k \in Refreshers : at[k] # "idle")
      /\ UNCHANGED <<states, vals, seen, base, reuse, lost>>
  BY DEF Change
<1>2. inputs' \in Content BY DEF Change, Content
<1>3. TwinTypeOK' BY <1>1, <1>2, TwinAssumption DEF TwinInv, TwinTypeOK
<1>4. Refers' BY <1>1 DEF TwinInv, TwinTypeOK, Refers, Versions, Valuation
<1>5. LostCounted'
  <2>1. IsFiniteSet(Refreshing') /\ Cardinality(Refreshing') = Cardinality(Refreshing) + 1 BY <1>1, OneMoreBusy
  <2> QED BY <2>1, <1>1, CountsAreNumbers DEF TwinInv, LostCounted
<1>6. (NewStateOnlyOnChange /\ OneValuation)' BY <1>1 DEF TwinInv, NewStateOnlyOnChange, OneValuation, Versions
<1>7. RefreshAlone'
  <2> SUFFICES ASSUME ~overlapped' PROVE RefreshAlone' BY DEF RefreshAlone
  <2>1. Refreshing = {} BY <1>1 DEF Refreshing
  <2>2. Refreshing' = {h} BY <2>1, <1>1, OneMoreBusy
  <2>3. \A k \in Refreshers : at'[k] \notin {"latest", "write"} BY <2>1, <1>1 DEF TwinInv, TwinTypeOK, Refreshing
  <2>4. ~Refreshed' BY <1>1 DEF Refreshed, TwinInv, TwinTypeOK
  <2> QED BY <2>2, <2>3, <2>4 DEF RefreshAlone
<1> QED BY <1>3, <1>4, <1>5, <1>6, <1>7 DEF TwinInv

LEMMA LoadKeeps ==
  ASSUME TwinInv, NEW h \in Refreshers, Load(h)
  PROVE  TwinInv'
<1>1. /\ at[h] = "load" /\ seen' = [seen EXCEPT ![h] = inputs] /\ at' = [at EXCEPT ![h] = "latest"]
      /\ UNCHANGED <<inputs, states, vals, clock, base, reuse, stamp, attempt, changes, overlapped, lost>>
  BY DEF Load, tables
<1>2. TwinTypeOK' BY <1>1 DEF TwinInv, TwinTypeOK
<1>3. Refers' BY <1>1 DEF TwinInv, Refers, Versions
<1>4. Refreshing' = Refreshing BY <1>1, SameBusy
<1>5. LostCounted' BY <1>1, <1>4 DEF TwinInv, LostCounted
<1>6. (NewStateOnlyOnChange /\ OneValuation)' BY <1>1 DEF TwinInv, NewStateOnlyOnChange, OneValuation, Versions
<1>7. RefreshAlone'
  <2> SUFFICES ASSUME ~overlapped' PROVE RefreshAlone' BY DEF RefreshAlone
  <2>1. \A k \in Refreshing' : k = h BY <1>1, <1>4 DEF TwinInv, RefreshAlone, Refreshing
  <2>2. \A k \in Refreshers : at'[k] \in {"latest", "write"} => k = h BY <2>1 DEF Refreshing
  <2>3. at'[h] = "latest" /\ seen'[h] = inputs BY <1>1 DEF TwinInv, TwinTypeOK
  <2>4. ~Refreshed' BY <2>3 DEF Refreshed
  <2> QED BY <2>1, <2>2, <2>3, <2>4, <1>1 DEF RefreshAlone
<1> QED BY <1>2, <1>3, <1>5, <1>6, <1>7 DEF TwinInv

LEMMA ReadLatestKeeps ==
  ASSUME TwinInv, NEW h \in Refreshers, ReadLatest(h)
  PROVE  TwinInv'
<1> DEFINE known == \E v \in vals : v.state = Len(states) /\ v.p = seen[h].p
<1>1. /\ at[h] = "latest" /\ base' = [base EXCEPT ![h] = Len(states)] /\ reuse' = [reuse EXCEPT ![h] = known]
      /\ at' = [at EXCEPT ![h] = "write"]
      /\ UNCHANGED <<inputs, states, vals, clock, seen, stamp, attempt, changes, overlapped, lost>>
  BY DEF ReadLatest, tables
<1>2. known \in BOOLEAN OBVIOUS
<1>3. TwinTypeOK'
  <2>1. base' \in [Refreshers -> Nat] BY <1>1, CountsAreNumbers DEF TwinInv, TwinTypeOK
  <2>2. reuse' \in [Refreshers -> BOOLEAN]
    <3> HIDE DEF known
    <3> QED BY <1>1, <1>2 DEF TwinInv, TwinTypeOK
  <2> QED BY <2>1, <2>2, <1>1 DEF TwinInv, TwinTypeOK
<1>4. Refers' BY <1>1, CountsAreNumbers DEF TwinInv, TwinTypeOK, Refers, Versions
<1>5. Refreshing' = Refreshing BY <1>1, SameBusy
<1>6. LostCounted' BY <1>1, <1>5 DEF TwinInv, LostCounted
<1>7. (NewStateOnlyOnChange /\ OneValuation)' BY <1>1 DEF TwinInv, NewStateOnlyOnChange, OneValuation, Versions
<1>8. RefreshAlone'
  <2> SUFFICES ASSUME ~overlapped' PROVE RefreshAlone' BY DEF RefreshAlone
  <2>1. \A k \in Refreshing' : k = h BY <1>1, <1>5 DEF TwinInv, RefreshAlone, Refreshing
  <2>2. \A k \in Refreshers : at'[k] \in {"latest", "write"} => k = h BY <2>1 DEF Refreshing
  <2>3. at'[h] = "write" /\ seen'[h] = inputs /\ base'[h] = Len(states) BY <1>1 DEF TwinInv, TwinTypeOK, RefreshAlone
  <2>4. reuse'[h] = known
    <3> HIDE DEF known
    <3> QED BY <1>1 DEF TwinInv, TwinTypeOK
  <2>5. ~Refreshed' BY <2>3 DEF Refreshed
  <2>6. reuse'[h] <=> \E v \in vals' : v.state = base'[h] /\ v.p = seen'[h].p
    BY <2>3, <2>4, <1>1
  <2>7. \A k \in Refreshers : at'[k] = "write" =>
           /\ base'[k] = Len(states')
           /\ reuse'[k] <=> \E v \in vals' : v.state = base'[k] /\ v.p = seen'[k].p
    BY <2>2, <2>3, <2>6, <1>1
  <2>8. \A k \in Refreshers : at'[k] \in {"latest", "write"} => seen'[k] = inputs' BY <2>2, <2>3, <1>1
  <2> QED BY <2>1, <2>5, <2>7, <2>8 DEF RefreshAlone
<1> QED BY <1>3, <1>4, <1>6, <1>7, <1>8 DEF TwinInv

\* A new version comes after a version with other contents, and with a valuation of its own.
LEMMA NewVersionKeeps ==
  ASSUME TwinInv, NEW h \in Refreshers, Write(h), Creates(h)
  PROVE  TwinInv'
<1> DEFINE v == [state |-> Len(states) + 1, p |-> seen[h].p, at |-> stamp[h]]
<1>1. /\ at[h] = "write" /\ Len(states) = base[h] /\ at' = [at EXCEPT ![h] = "idle"]
      /\ states' = Append(states, seen[h].e) /\ vals' = vals \cup {v}
      /\ UNCHANGED <<inputs, clock, seen, base, reuse, stamp, attempt, changes, overlapped, lost>>
  BY DEF Write, Conflict
<1>2. /\ states \in Seq(Economics) /\ Len(states) \in Nat /\ seen[h] \in Content /\ seen[h].e \in Economics
      /\ seen[h].p \in Prices /\ v \in Valuation
  BY DEF TwinInv, TwinTypeOK, Content, Valuation
<1>3. /\ states' \in Seq(Economics) /\ Len(states') = Len(states) + 1 /\ states'[Len(states')] = seen[h].e
      /\ \A n \in 1 .. Len(states) : states'[n] = states[n]
  BY <1>1, <1>2
<1>4. Len(states) = 0 \/ states[Len(states)] # seen[h].e BY <1>1 DEF Creates
<1>5. TwinTypeOK' BY <1>1, <1>2, <1>3 DEF TwinInv, TwinTypeOK
<1>6. Refers'
  <2>1. \A k \in Refreshers : base'[k] <= Len(states') /\ stamp'[k] <= clock'
    BY <1>1, <1>2, <1>3 DEF TwinInv, TwinTypeOK, Refers
  <2>2. \A u \in vals : u.state \in 1 .. Len(states) /\ u.at <= clock BY DEF TwinInv, Refers, Versions
  <2>3. \A u \in vals' : u.state \in Versions' /\ u.at <= clock'
    BY <2>1, <2>2, <1>1, <1>2, <1>3 DEF Versions
  <2> QED BY <2>1, <2>3 DEF Refers
<1>7. LostCounted'
  <2>1. IsFiniteSet(Refreshing') /\ Cardinality(Refreshing') = Cardinality(Refreshing) - 1 BY <1>1, OneLessBusy
  <2> QED BY <2>1, <1>1, CountsAreNumbers DEF TwinInv, LostCounted
<1>8. NewStateOnlyOnChange'
  <2> SUFFICES ASSUME NEW n \in 2 .. Len(states') PROVE states'[n] # states'[n - 1] BY DEF NewStateOnlyOnChange
  <2>1. CASE n \in 2 .. Len(states)
    BY <2>1, <1>2, <1>3 DEF TwinInv, NewStateOnlyOnChange
  <2>2. CASE n = Len(states) + 1
    BY <2>2, <1>2, <1>3, <1>4
  <2> QED BY <2>1, <2>2, <1>2, <1>3
<1>9. OneValuation'
  <2>1. \A u \in vals : u.state # Len(states) + 1 BY <1>2 DEF TwinInv, Refers, Versions
  <2>2. \A u, w \in vals' : u.state = w.state /\ u.p = w.p => u = w
    BY <2>1, <1>1 DEF TwinInv, OneValuation
  <2>3. \A n \in 1 .. Len(states') : \E u \in vals' : u.state = n
    <3> SUFFICES ASSUME NEW n \in 1 .. Len(states') PROVE \E u \in vals' : u.state = n OBVIOUS
    <3>1. CASE n \in 1 .. Len(states) BY <3>1, <1>1 DEF TwinInv, OneValuation, Versions
    <3>2. CASE n = Len(states) + 1
      <4>1. v \in vals' /\ v.state = n BY <3>2, <1>1
      <4> QED BY <4>1
    <3> QED BY <3>1, <3>2, <1>2, <1>3
  <2> QED BY <2>2, <2>3 DEF OneValuation, Versions
<1>10. RefreshAlone'
  <2> SUFFICES ASSUME ~overlapped' PROVE RefreshAlone' BY DEF RefreshAlone
  <2>1. h \in Refreshing /\ Refreshing' = Refreshing \ {h} BY <1>1, OneLessBusy DEF Refreshing
  <2>2. Refreshing' = {} BY <2>1, <1>1 DEF TwinInv, RefreshAlone
  <2>3. \A k \in Refreshers : at'[k] = "idle" BY <2>2 DEF Refreshing
  <2>4. seen[h] = inputs BY <1>1 DEF TwinInv, RefreshAlone
  <2>5. states' # <<>> BY <1>2, <1>3
  <2> QED BY <2>2, <2>3, <2>4, <2>5, <1>1, <1>3 DEF RefreshAlone
<1> QED BY <1>5, <1>6, <1>7, <1>8, <1>9, <1>10 DEF TwinInv

\* The version is kept, and gets the valuation that it does not have.
LEMMA SameVersionKeeps ==
  ASSUME TwinInv, NEW h \in Refreshers, Write(h), ~ Creates(h)
  PROVE  TwinInv'
<1> DEFINE v == [state |-> base[h], p |-> seen[h].p, at |-> stamp[h]]
<1>1. /\ at[h] = "write" /\ at' = [at EXCEPT ![h] = "idle"]
      /\ vals' = IF reuse[h] THEN vals ELSE vals \cup {v}
      /\ UNCHANGED <<inputs, states, clock, seen, base, reuse, stamp, attempt, changes, overlapped, lost>>
  BY DEF Write
<1>2. ~reuse[h] => \A u \in vals : ~ (u.state = base[h] /\ u.p = seen[h].p) BY DEF Write, Conflict
<1>3. base[h] # 0 /\ states[base[h]] = seen[h].e BY DEF Creates
<1>4. /\ Len(states) \in Nat /\ seen[h] \in Content /\ seen[h].p \in Prices /\ v \in Valuation
      /\ base[h] \in 1 .. Len(states) /\ stamp[h] <= clock
  BY <1>3 DEF TwinInv, TwinTypeOK, Content, Valuation, Refers
<1>5. TwinTypeOK' BY <1>1, <1>4 DEF TwinInv, TwinTypeOK
<1>6. Refers' BY <1>1, <1>4 DEF TwinInv, Refers, Versions
<1>7. LostCounted'
  <2>1. IsFiniteSet(Refreshing') /\ Cardinality(Refreshing') = Cardinality(Refreshing) - 1 BY <1>1, OneLessBusy
  <2> QED BY <2>1, <1>1, CountsAreNumbers DEF TwinInv, LostCounted
<1>8. NewStateOnlyOnChange' BY <1>1 DEF TwinInv, NewStateOnlyOnChange
<1>9. OneValuation'
  <2>1. \A u, w \in vals' : u.state = w.state /\ u.p = w.p => u = w
    BY <1>1, <1>2 DEF TwinInv, OneValuation
  <2> QED BY <2>1, <1>1 DEF TwinInv, OneValuation, Versions
<1>10. RefreshAlone'
  <2> SUFFICES ASSUME ~overlapped' PROVE RefreshAlone' BY DEF RefreshAlone
  <2>1. h \in Refreshing /\ Refreshing' = Refreshing \ {h} BY <1>1, OneLessBusy DEF Refreshing
  <2>2. Refreshing' = {} BY <2>1, <1>1 DEF TwinInv, RefreshAlone
  <2>3. \A k \in Refreshers : at'[k] = "idle" BY <2>2 DEF Refreshing
  <2>4. seen[h] = inputs /\ base[h] = Len(states) BY <1>1 DEF TwinInv, RefreshAlone
  <2>5. states # <<>> BY <1>4
  <2> QED BY <2>2, <2>3, <2>4, <2>5, <1>1, <1>3 DEF RefreshAlone
<1> QED BY <1>5, <1>6, <1>7, <1>8, <1>9, <1>10 DEF TwinInv

\* A conflict only comes from another refresh: one that is alone never repeats.
LEMMA RepeatKeeps ==
  ASSUME TwinInv, NEW h \in Refreshers, Repeat(h)
  PROVE  TwinInv'
<1>1. at[h] = "write" /\ Conflict(h) /\ UNCHANGED <<inputs, states, vals, clock, seen, base, reuse, stamp, changes, overlapped>>
  BY DEF Repeat, tables
<1>2. overlapped
  <2> SUFFICES ASSUME ~overlapped PROVE FALSE BY DEF TwinInv, TwinTypeOK
  <2>1. base[h] = Len(states) /\ (reuse[h] <=> \E v \in vals : v.state = base[h] /\ v.p = seen[h].p)
    BY <1>1 DEF TwinInv, RefreshAlone
  <2> QED BY <2>1, <1>1 DEF Conflict
<1>3. Refers' /\ NewStateOnlyOnChange' /\ OneValuation'
  BY <1>1 DEF TwinInv, Refers, NewStateOnlyOnChange, OneValuation, Versions
<1>4. RefreshAlone' BY <1>1, <1>2 DEF RefreshAlone
<1>5. CASE attempt[h] = 1
  <2>1. at' = [at EXCEPT ![h] = "load"] /\ attempt' = [attempt EXCEPT ![h] = 2] /\ UNCHANGED lost
    BY <1>5 DEF Repeat
  <2>2. TwinTypeOK' BY <2>1, <1>1 DEF TwinInv, TwinTypeOK
  <2>3. LostCounted' BY <2>1, <1>1, SameBusy DEF TwinInv, LostCounted
  <2> QED BY <2>2, <2>3, <1>3, <1>4 DEF TwinInv
<1>6. CASE attempt[h] # 1
  <2>1. at' = [at EXCEPT ![h] = "idle"] /\ lost' = lost + 1 /\ UNCHANGED attempt
    BY <1>6 DEF Repeat
  <2>2. TwinTypeOK' BY <2>1, <1>1 DEF TwinInv, TwinTypeOK
  <2>3. LostCounted'
    <3>1. IsFiniteSet(Refreshing') /\ Cardinality(Refreshing') = Cardinality(Refreshing) - 1 BY <2>1, <1>1, OneLessBusy
    <3> QED BY <3>1, <2>1, <1>1, CountsAreNumbers DEF TwinInv, LostCounted
  <2> QED BY <2>2, <2>3, <1>3, <1>4 DEF TwinInv
<1> QED BY <1>5, <1>6

LEMMA RefreshDiesKeeps ==
  ASSUME TwinInv, NEW h \in Refreshers, RefreshDies(h)
  PROVE  TwinInv'
<1>1. /\ at[h] # "idle" /\ at' = [at EXCEPT ![h] = "idle"] /\ lost' = lost + 1
      /\ UNCHANGED <<inputs, states, vals, clock, seen, base, reuse, stamp, attempt, changes, overlapped>>
  BY DEF RefreshDies, tables
<1>2. TwinTypeOK' BY <1>1 DEF TwinInv, TwinTypeOK
<1>3. Refers' /\ NewStateOnlyOnChange' /\ OneValuation'
  BY <1>1 DEF TwinInv, Refers, NewStateOnlyOnChange, OneValuation, Versions
<1>4. LostCounted'
  <2>1. IsFiniteSet(Refreshing') /\ Cardinality(Refreshing') = Cardinality(Refreshing) - 1 BY <1>1, OneLessBusy
  <2> QED BY <2>1, <1>1, CountsAreNumbers DEF TwinInv, LostCounted
<1>5. RefreshAlone'
  <2> SUFFICES ASSUME ~overlapped' PROVE RefreshAlone' BY DEF RefreshAlone
  <2>1. \A k \in Refreshers : at'[k] \in {"latest", "write"} => at'[k] = at[k] BY <1>1 DEF TwinInv, TwinTypeOK
  <2>2. Refreshing' \subseteq Refreshing BY <1>1, OneLessBusy
  <2>3. ~Refreshed' BY <1>1 DEF Refreshed, TwinInv, TwinTypeOK
  <2> QED BY <2>1, <2>2, <2>3, <1>1 DEF TwinInv, RefreshAlone
<1> QED BY <1>2, <1>3, <1>4, <1>5 DEF TwinInv

\* Every step keeps the invariant.
LEMMA TwinStep == TwinInv /\ [TNext]_twinVars => TwinInv'
<1> SUFFICES ASSUME TwinInv, [TNext]_twinVars PROVE TwinInv' OBVIOUS
<1>1. CASE UNCHANGED twinVars
  BY <1>1 DEF twinVars, tables, locals, TwinInv, TwinTypeOK, Refers, LostCounted, Refreshing, NewStateOnlyOnChange, OneValuation, Versions, RefreshAlone, Refreshed
<1>2. ASSUME NEW h \in Refreshers,
             Change(h) \/ Load(h) \/ ReadLatest(h) \/ Write(h) \/ Repeat(h) \/ RefreshDies(h)
      PROVE  TwinInv'
  BY <1>2, ChangeKeeps, LoadKeeps, ReadLatestKeeps, NewVersionKeeps, SameVersionKeeps, RepeatKeeps, RefreshDiesKeeps
<1> QED BY <1>1, <1>2 DEF TNext

-----------------------------------------------------------------------------
(* The results. *)

\* The invariant the results rest on holds of every state that refreshes, however they overlap, repeat or die, reach
\* (portfolio_intelligence/twin/build.py: refresh_state).
THEOREM TwinInvariance == TSpec => []TwinInv
  BY InitTwinInv, TwinStep, PTL DEF TSpec

\* Whatever the number of handlers and changes: rows keep their types, no version repeats the one before it, a
\* version has one valuation per set of prices and at least one, and the twin follows its inputs, also when they
\* changed back, while refreshes come one at a time and none is lost.
THEOREM TwinIsSound == TSpec => []TwinSound
<1>1. ASSUME TwinInv PROVE TwinSound
  <2>1. TTypeOK
    <3>1. Cardinality(Refreshing) \in Nat /\ changes \in 0 .. MaxChanges /\ lost \in Nat /\ lost + Cardinality(Refreshing) <= changes
      BY <1>1, CountsAreNumbers DEF TwinInv, TwinTypeOK, LostCounted
    <3>2. lost \in 0 .. MaxChanges BY <3>1, TwinAssumption
    <3>3. vals \subseteq [state : Versions, p : Prices, at : 0 .. clock]
      BY <1>1 DEF TwinInv, TwinTypeOK, Refers, Valuation
    <3>4. base \in [Refreshers -> 0 .. Len(states)] BY <1>1, CountsAreNumbers DEF TwinInv, TwinTypeOK, Refers
    <3> QED BY <1>1, <3>2, <3>3, <3>4 DEF TwinInv, TwinTypeOK, TTypeOK
  <2>2. TwinFollowsInputs BY <1>1 DEF TwinInv, RefreshAlone, TwinFollowsInputs
  <2> QED BY <1>1, <2>1, <2>2 DEF TwinInv, TwinSound
<1> QED BY <1>1, TwinInvariance, PTL

-----------------------------------------------------------------------------
(* The claims. *)

\* The values of the variables.
Asks   == [at : {"lock", "commit"}, op : {"claim", "confirm", "resize", "release"}, claim : Claims, goal : Goals,
           amount : Amounts \cup {0}, version : Nat, seen : Values]
Closes == [at : {"close"}, goal : Goals, version : Nat, claims : SUBSET (Claims \X Nat)]
Checks == [at : {"recheck"}]
Flags  == [at : {"flag"}, claims : SUBSET (Claims \X Nat)]
Tasks  == {Idle} \cup Asks \cup Closes \cup Checks \cup Flags
ClaimRow == [version : Nat, goal : Goals, amount : Amounts \cup {0}, status : Statuses]

ClaimTypes ==
  /\ goal \in [Goals -> [version : Nat, status : {"active", "closed"}]]
  /\ claim \in [Claims -> ClaimRow]
  /\ value \in Values /\ peak \in Values /\ value <= peak
  /\ task \in [Handlers -> Tasks]
  /\ skipped \in Nat /\ died \in Nat

\* A claim that was never written has version 0.
Numbered == \A c \in Claims : claim[c].version = 0 <=> claim[c].status = "unused"

\* A release does not wait for the lock; everything else is committed by its holder, and still fits.
Locking ==
  /\ locked \in Handlers \cup {NoHandler}
  /\ locked # NoHandler => task[locked].at = "commit" /\ task[locked].op # "release"
  /\ \A h \in Handlers : task[h].at = "lock" => task[h].op # "release"
  /\ \A h \in Handlers : task[h].at = "commit" /\ task[h].op # "release" => locked = h /\ Fits(task[h])

\* The statuses a claim may have for the owner to ask this of it.
StatusFor(op) == CASE op = "claim" -> {"unused"} [] op = "confirm" -> {"needs_review"}
                   [] op = "resize" -> {"active"} [] OTHER -> {"active", "needs_review"}

\* As long as nothing was written since, the claim is what the handler read.
AsRead(t) ==
  /\ t.seen <= peak
  /\ t.version <= claim[t.claim].version
  /\ claim[t.claim].version = t.version =>
       claim[t.claim].status \in StatusFor(t.op) /\ (t.op # "claim" => claim[t.claim].goal = t.goal)

\* The same of the active claims that a re-check has read.
ReadActive(pairs) ==
  \A p \in pairs : p[2] <= claim[p[1]].version /\ (claim[p[1]].version = p[2] => claim[p[1]].status = "active")

\* Every handler remembers what was so when it read.
Remembered ==
  \A h \in Handlers : /\ task[h].at \in {"lock", "commit"} => AsRead(task[h])
                      /\ task[h].at = "flag" => ReadActive(task[h].claims)

\* The claims that are active.
Actives == {c \in Claims : claim[c].status = "active"}

\* A re-check that is still to read the claims, or has read all those that are active now.
Watching(h) ==
  \/ task[h].at = "recheck"
  \/ task[h].at = "flag" /\ (\A c \in Actives : <<c, claim[c].version>> \in task[h].claims)

\* While no re-check was left out and none died, claims that the value does not carry are being watched.
WatchKept == skipped = 0 /\ died = 0 /\ ~ Carried /\ Actives # {} => \E h \in Handlers : Watching(h)

\* The inductive invariant.
ClaimInv == ClaimTypes /\ Numbered /\ Locking /\ Remembered /\ NeverOverclaimed /\ WatchKept

\* What a handler is at says which task it has.
LEMMA TaskKinds ==
  ASSUME NEW t \in Tasks
  PROVE  /\ t.at \in {"lock", "commit"} => t \in Asks
         /\ t.at = "close" => t \in Closes
         /\ t.at = "recheck" => t \in Checks
         /\ t.at = "flag" => t \in Flags
         /\ t = Idle => t.at = "idle"
  BY DEF Tasks, Asks, Closes, Checks, Flags, Idle

\* Amounts and values are numbers.
LEMMA ClaimNumbers == Amounts \cup {0} \subseteq Int /\ Values \subseteq Int /\ Values \subseteq Nat
  BY ClaimsAssumption

\* The total of some claims is a number.
LEMMA TotalType ==
  ASSUME NEW cl \in [Claims -> ClaimRow], NEW S \in SUBSET Claims
  PROVE  Total(cl, S) \in Int
<1>. DEFINE w == [c \in Claims |-> cl[c].amount]
<1>1. IsFiniteSet(S)
  BY ClaimsAssumption, FS_Subset
<1>2. \A c \in S : w[c] \in Int
  BY ClaimNumbers DEF ClaimRow
<1>3. Sum(w, S) \in Int
  <2>. HIDE DEF w
  <2>. QED BY <1>1, <1>2, SumType
<1>. QED BY <1>3 DEF Sum, Total

\* Fewer claims, of the same amounts, have no larger total.
LEMMA TotalShrinks ==
  ASSUME NEW cl \in [Claims -> ClaimRow], NEW S \in SUBSET Claims, NEW dl \in [Claims -> ClaimRow], NEW T \in SUBSET S,
         \A c \in T : dl[c].amount = cl[c].amount
  PROVE  Total(dl, T) <= Total(cl, S)
<1>. DEFINE w == [c \in Claims |-> cl[c].amount]  v == [c \in Claims |-> dl[c].amount]
<1>1. IsFiniteSet(S)
  BY ClaimsAssumption, FS_Subset
<1>2. \A c \in S : w[c] \in Int /\ 0 <= w[c]
  <2>1. \A x \in Amounts \cup {0} : x \in Int /\ 0 <= x
    BY ClaimsAssumption
  <2>2. \A c \in S : w[c] \in Amounts \cup {0}
    BY DEF ClaimRow
  <2>. QED BY <2>1, <2>2
<1>3. \A c \in T : v[c] \in Int /\ v[c] = w[c]
  BY ClaimNumbers DEF ClaimRow
<1>4. Sum(v, T) <= Sum(w, S)
  <2>1. \A c \in T : v[c] <= w[c]
    <3>. HIDE DEF w, v
    <3>. QED BY <1>3
  <2>. HIDE DEF w, v
  <2>. QED BY <1>1, <1>2, <1>3, <2>1, SumMonotone
<1>. QED BY <1>4 DEF Sum, Total

\* The total with one claim more.
LEMMA TotalWith ==
  ASSUME NEW cl \in [Claims -> ClaimRow], NEW S \in SUBSET Claims, NEW c \in S
  PROVE  Total(cl, S) = cl[c].amount + Total(cl, S \ {c})
<1>. DEFINE w == [d \in Claims |-> cl[d].amount]
<1>1. IsFiniteSet(S)
  BY ClaimsAssumption, FS_Subset
<1>2. \A d \in S : w[d] \in Int
  BY ClaimNumbers DEF ClaimRow
<1>3. Sum(w, S) = w[c] + Sum(w, S \ {c})
  <2>. HIDE DEF w
  <2>. QED BY <1>1, <1>2, SumRemove
<1>. QED BY <1>3 DEF Sum, Total

\* No claims have the total 0.
LEMMA Empty == ASSUME NEW cl PROVE Total(cl, {}) = 0
  BY SumEmpty DEF Sum, Total

\* At first nothing is claimed.
LEMMA ClaimStart == ASSUME GInit PROVE ClaimInv
<1>. USE DEF GInit
<1>1. ClaimTypes
  <2>1. Idle \in Tasks
    BY DEF Tasks
  <2>2. (CHOOSE g \in Goals : TRUE) \in Goals
    BY ClaimsAssumption
  <2>3. claim \in [Claims -> ClaimRow]
    BY <2>2 DEF ClaimRow, Statuses
  <2>. QED BY <2>1, <2>3, ClaimNumbers DEF ClaimTypes
<1>2. Live = {} /\ Actives = {}
  BY DEF Live, Actives
<1>3. Numbered
  BY DEF Numbered
<1>4. Locking /\ Remembered
  BY ClaimsAssumption DEF Locking, Remembered, Idle
<1>5. NeverOverclaimed
  BY <1>2, Empty, ClaimNumbers DEF NeverOverclaimed
<1>6. WatchKept
  BY <1>2 DEF WatchKept
<1>. QED BY <1>1, <1>3, <1>4, <1>5, <1>6 DEF ClaimInv

-----------------------------------------------------------------------------
\* What a step may do to the claims without the lock: take some away, change their status.
Shrinks ==
  /\ Live' \subseteq Live
  /\ \A c \in Live' : claim'[c].goal = claim[c].goal /\ claim'[c].amount = claim[c].amount

\* An amount that fitted still fits.
LEMMA StillFits ==
  ASSUME claim \in [Claims -> ClaimRow], claim' \in [Claims -> ClaimRow], Shrinks, NEW t \in Asks, Fits(t)
  PROVE  Fits(t)'
<1>1. Live \subseteq Claims /\ Live' \subseteq Claims
  BY DEF Live
<1>2. Total(claim', Live' \ {t.claim}) <= Total(claim, Live \ {t.claim})
  BY <1>1, TotalShrinks DEF Shrinks
<1>3. Total(claim', Live' \ {t.claim}) \in Int /\ Total(claim, Live \ {t.claim}) \in Int
  BY <1>1, TotalType
<1>4. t.amount \in Int /\ t.seen \in Int
  BY ClaimNumbers DEF Asks
<1>5. Total(claim, Live \ {t.claim}) + t.amount <= t.seen
  BY DEF Fits
<1>6. Total(claim', Live' \ {t.claim}) + t.amount <= t.seen
  BY <1>2, <1>3, <1>4, <1>5
<1>7. t.op = "claim" => \A c \in Live' : claim'[c].goal # t.goal
  BY DEF Fits, Shrinks
<1>. QED BY <1>6, <1>7 DEF Fits

\* What was not overclaimed is not.
LEMMA StillWithin ==
  ASSUME claim \in [Claims -> ClaimRow], claim' \in [Claims -> ClaimRow], Shrinks, NeverOverclaimed,
         peak \in Values, peak' \in Values, peak <= peak'
  PROVE  NeverOverclaimed'
<1>1. Live \subseteq Claims /\ Live' \subseteq Claims
  BY DEF Live
<1>2. Total(claim', Live') <= Total(claim, Live)
  BY <1>1, TotalShrinks DEF Shrinks
<1>3. Total(claim', Live') \in Int /\ Total(claim, Live) \in Int /\ peak \in Int /\ peak' \in Int
  BY <1>1, TotalType, ClaimNumbers
<1>4. Total(claim, Live) <= peak
  BY DEF NeverOverclaimed
<1>5. Total(claim', Live') <= peak'
  BY <1>2, <1>3, <1>4
<1>. QED BY <1>5 DEF NeverOverclaimed, Shrinks

\* The handler alone changes what it has read; nobody else's record is touched.
Others(h) == \A k \in Handlers : k # h => task'[k] = task[k]

\* The claims stay, and all that is said of them.
LEMMA SameClaims ==
  ASSUME ClaimInv, claim' = claim, peak' \in Values, peak <= peak'
  PROVE  Shrinks /\ NeverOverclaimed' /\ Numbered' /\ Actives' = Actives /\ (\A t \in Asks : Fits(t)' <=> Fits(t))
<1>1. Live' = Live
  BY DEF Live
<1>2. Shrinks
  BY <1>1 DEF Shrinks
<1>3. NeverOverclaimed'
  BY <1>2, StillWithin DEF ClaimInv, ClaimTypes
<1>. QED BY <1>1, <1>2, <1>3 DEF Numbered, Fits, Actives, ClaimInv

\* A request begins: the handler was idle, so it watched nothing and held nothing.
LEMMA BeginKeeps ==
  ASSUME ClaimInv, NEW h \in Handlers, NEW t \in Tasks, t # Idle, Begins(h, t),
         claim' = claim, goal' = goal, locked' = locked, skipped' = skipped, died' = died, value' = value, peak' = peak,
         t.at \in {"lock", "commit"} => AsRead(t), t.at # "flag",
         t.at = "lock" => t.op # "release", t.at = "commit" => t.op = "release"
  PROVE  ClaimInv'
<1>. USE DEF ClaimInv
<1>0. task \in [Handlers -> Tasks] /\ task' = [task EXCEPT ![h] = t] /\ task[h] = Idle /\ task[h].at = "idle"
  BY DEF Begins, ClaimTypes, Idle
<1>1. ClaimTypes'
  BY <1>0 DEF ClaimTypes
<1>2. NeverOverclaimed' /\ Numbered' /\ Actives' = Actives /\ (\A u \in Asks : Fits(u)' <=> Fits(u))
  <2>1. peak \in Int /\ peak \in Values /\ peak' \in Values
    BY ClaimNumbers DEF ClaimTypes
  <2>2. peak <= peak'
    BY <2>1
  <2>. QED BY <2>1, <2>2, SameClaims
<1>3. Locking'
  <2>1. locked # h
    BY <1>0, ClaimsAssumption DEF Locking
  <2>2. ASSUME NEW k \in Handlers, task'[k].at = "commit", task'[k].op # "release" PROVE locked' = k /\ Fits(task[k])'
    <3>1. k # h /\ task'[k] = task[k]
      BY <1>0, <2>2
    <3>2. task[k] \in Asks /\ locked = k /\ Fits(task[k])
      BY <1>0, <2>2, <3>1, TaskKinds DEF Locking
    <3>3. task'[k] \in Asks /\ Fits(task'[k])
      BY <3>1, <3>2
    <3>4. \A u \in Asks : Fits(u) => Fits(u)'
      BY <1>2
    <3>. QED BY <3>1, <3>2, <3>3, <3>4 DEF Fits, Live
  <2>3. locked' \in Handlers \cup {NoHandler} /\ (locked' # NoHandler => task'[locked'].at = "commit" /\ task'[locked'].op # "release")
    BY <1>0, <2>1 DEF Locking
  <2>4. \A k \in Handlers : task'[k].at = "lock" => task'[k].op # "release"
    BY <1>0 DEF Locking
  <2>. QED BY <2>2, <2>3, <2>4 DEF Locking
<1>4. Remembered'
  BY <1>0 DEF Remembered, AsRead, ReadActive
<1>5. WatchKept'
  <2>1. SUFFICES ASSUME skipped' = 0, died' = 0, ~ Carried', Actives' # {} PROVE \E k \in Handlers : Watching(k)'
    BY DEF WatchKept
  <2>2. ~ Carried
    BY <2>1 DEF Carried, Live
  <2>3. PICK k \in Handlers : Watching(k)
    BY <1>2, <2>1, <2>2 DEF WatchKept
  <2>4. k # h /\ task'[k] = task[k]
    BY <1>0, <2>3 DEF Watching
  <2>. QED BY <1>2, <2>3, <2>4 DEF Watching
<1>. QED BY <1>1, <1>2, <1>3, <1>4, <1>5

\* Each of the four requests begins.
LEMMA BeginsStep ==
  ASSUME ClaimInv, NEW h \in Handlers,
         \/ \E c \in Claims, g \in Goals, x \in Amounts : BeginClaim(h, c, g, x)
         \/ \E c \in Claims, op \in {"confirm", "resize"}, x \in Amounts : BeginAct(h, c, op, x)
         \/ \E c \in Claims : BeginRelease(h, c)
         \/ \E g \in Goals : BeginClose(h, g)
  PROVE  ClaimInv'
<1>0. claim \in [Claims -> ClaimRow] /\ goal \in [Goals -> [version : Nat, status : {"active", "closed"}]]
      /\ value \in Values /\ value <= peak /\ Numbered
  BY DEF ClaimInv, ClaimTypes
<1>1. ASSUME NEW c \in Claims, NEW g \in Goals, NEW x \in Amounts, BeginClaim(h, c, g, x) PROVE ClaimInv'
  <2>. DEFINE t == [at |-> "lock", op |-> "claim", claim |-> c, goal |-> g, amount |-> x, version |-> 0, seen |-> value]
  <2>1. t \in Asks /\ t \in Tasks /\ t # Idle
    BY <1>0 DEF Asks, Tasks, Idle
  <2>2. AsRead(t)
    BY <1>0, <1>1 DEF AsRead, StatusFor, BeginClaim, Numbered
  <2>. QED BY <1>1, <2>1, <2>2, BeginKeeps DEF BeginClaim
<1>2. ASSUME NEW c \in Claims, NEW op \in {"confirm", "resize"}, NEW x \in Amounts, BeginAct(h, c, op, x) PROVE ClaimInv'
  <2>. DEFINE t == [at |-> "lock", op |-> op, claim |-> c, goal |-> claim[c].goal,
                    amount |-> IF op = "confirm" THEN claim[c].amount ELSE x, version |-> claim[c].version, seen |-> value]
  <2>0. claim[c] \in ClaimRow
    BY <1>0
  <2>1. t \in Asks /\ t \in Tasks /\ t # Idle
    BY <1>0, <2>0 DEF Asks, Tasks, Idle, ClaimRow
  <2>2. claim[c].version \in Nat
    BY <2>0 DEF ClaimRow
  <2>3. AsRead(t)
    BY <1>0, <1>2, <2>2 DEF AsRead, StatusFor, BeginAct
  <2>. QED BY <1>2, <2>1, <2>3, BeginKeeps DEF BeginAct
<1>3. ASSUME NEW c \in Claims, BeginRelease(h, c) PROVE ClaimInv'
  <2>. DEFINE t == [at |-> "commit", op |-> "release", claim |-> c, goal |-> claim[c].goal, amount |-> claim[c].amount,
                    version |-> claim[c].version, seen |-> value]
  <2>0. claim[c] \in ClaimRow
    BY <1>0
  <2>1. t \in Asks /\ t \in Tasks /\ t # Idle
    BY <1>0, <2>0 DEF Asks, Tasks, Idle, ClaimRow
  <2>2. claim[c].version \in Nat
    BY <2>0 DEF ClaimRow
  <2>3. AsRead(t)
    BY <1>0, <1>3, <2>2 DEF AsRead, StatusFor, BeginRelease, Live
  <2>. QED BY <1>3, <2>1, <2>3, BeginKeeps DEF BeginRelease
<1>4. ASSUME NEW g \in Goals, BeginClose(h, g) PROVE ClaimInv'
  <2>. DEFINE t == [at |-> "close", goal |-> g, version |-> goal[g].version,
                    claims |-> {<<c, claim[c].version>> : c \in {d \in Live : claim[d].goal = g}}]
  <2>0. {<<c, claim[c].version>> : c \in {d \in Live : claim[d].goal = g}} \subseteq Claims \X Nat
    BY <1>0 DEF ClaimRow, Live
  <2>1. t \in Closes /\ t \in Tasks /\ t # Idle
    BY <1>0, <2>0 DEF Closes, Tasks, Idle
  <2>. QED BY <1>4, <2>1, BeginKeeps DEF BeginClose
<1>. QED BY <1>1, <1>2, <1>3, <1>4

\* The claims stay as they are, and whoever is at its commit has been there.
LEMMA LockKept ==
  ASSUME ClaimInv, NEW h \in Handlers, claim' = claim, Others(h),
         locked' \in Handlers \cup {NoHandler},
         locked' # NoHandler => task'[locked'].at = "commit" /\ task'[locked'].op # "release",
         task'[h].at \notin {"lock", "commit"},
         \A k \in Handlers : k # h /\ locked = k => locked' = k
  PROVE  Locking'
<1>1. \A u \in Asks : Fits(u)' <=> Fits(u)
  BY DEF Fits, Live
<1>2. ASSUME NEW k \in Handlers, task'[k].at = "commit", task'[k].op # "release" PROVE locked' = k /\ Fits(task[k])'
  <2>1. k # h /\ task'[k] = task[k] /\ task[k] \in Tasks
    BY <1>2 DEF Others, ClaimInv, ClaimTypes
  <2>2. task[k] \in Asks /\ locked = k /\ Fits(task[k])
    BY <1>2, <2>1, TaskKinds DEF Locking, ClaimInv
  <2>. QED BY <1>1, <2>1, <2>2 DEF Fits, Live
<1>3. \A k \in Handlers : task'[k].at = "lock" => task'[k].op # "release"
  BY DEF Others, Locking, ClaimInv
<1>. QED BY <1>2, <1>3 DEF Locking

\* A new value is recorded; the re-check that it asks for may be left out.
LEMMA NewValueStep ==
  ASSUME ClaimInv, NEW h \in Handlers, NEW v \in Values, NewValue(h, v)
  PROVE  ClaimInv'
<1>. USE DEF ClaimInv
<1>0. /\ task \in [Handlers -> Tasks] /\ task' = [task EXCEPT ![h] = [at |-> "recheck"]] /\ task[h] = Idle /\ task[h].at = "idle"
      /\ task'[h] = [at |-> "recheck"]
  BY DEF NewValue, Begins, ClaimTypes, Idle
<1>1. peak \in Values /\ value \in Values /\ value <= peak /\ peak' \in Values /\ peak <= peak' /\ value' = v /\ v <= peak'
  <2>1. value \in Int /\ peak \in Int /\ v \in Int /\ peak \in Values /\ value \in Values /\ value <= peak
    BY ClaimNumbers DEF ClaimTypes
  <2>. QED BY <2>1 DEF NewValue
<1>2. NeverOverclaimed' /\ Numbered' /\ Actives' = Actives
  BY <1>1, SameClaims DEF NewValue
<1>3. ClaimTypes'
  <2>1. [at |-> "recheck"] \in Tasks
    BY DEF Tasks, Checks
  <2>. QED BY <1>0, <1>1, <2>1 DEF ClaimTypes, NewValue
<1>4. Locking'
  <2>1. locked # h /\ locked' = locked /\ claim' = claim
    BY <1>0, ClaimsAssumption DEF Locking, NewValue
  <2>2. Others(h) /\ task'[h].at = "recheck"
    BY <1>0 DEF Others
  <2>3. locked' \in Handlers \cup {NoHandler} /\ (locked' # NoHandler => task'[locked'].at = "commit" /\ task'[locked'].op # "release")
    BY <2>1, <2>2 DEF Locking, Others
  <2>. QED BY <2>1, <2>2, <2>3, LockKept
<1>5. Remembered'
  <2>0. \A k \in Handlers : task'[k].at = "flag" => ReadActive(task[k].claims)'
    BY <1>0 DEF Remembered, ReadActive, NewValue
  <2>. SUFFICES ASSUME NEW k \in Handlers, task'[k].at \in {"lock", "commit"} PROVE AsRead(task[k])' /\ task'[k] = task[k]
    BY <2>0 DEF Remembered, AsRead
  <2>1. task'[k] = task[k] /\ task[k] \in Asks
    BY <1>0, TaskKinds
  <2>2. AsRead(task[k])
    BY <2>1 DEF Remembered
  <2>3. task[k].seen \in Int /\ peak \in Int /\ peak' \in Int
    BY <1>1, <2>1, ClaimNumbers DEF Asks
  <2>4. task[k].seen <= peak'
    BY <1>1, <2>2, <2>3 DEF AsRead
  <2>. QED BY <2>1, <2>2, <2>4 DEF AsRead, NewValue
<1>6. WatchKept'
  BY <1>0 DEF WatchKept, Watching
<1>. QED BY <1>2, <1>3, <1>4, <1>5, <1>6

\* Nothing but the handler, its lock and the count of the dead changes.
LEMMA QuietStep ==
  ASSUME ClaimInv, NEW h \in Handlers, Others(h), task' \in [Handlers -> Tasks],
         claim' = claim, goal' = goal, value' = value, peak' = peak
  PROVE  /\ NeverOverclaimed' /\ Numbered' /\ Actives' = Actives /\ Live' = Live
         /\ Carried' <=> Carried
         /\ (task'[h].at \in {"lock", "commit"} => AsRead(task[h])') /\ (task'[h].at = "flag" => ReadActive(task[h].claims)') => Remembered'
<1>1. peak \in Values /\ peak \in Int /\ peak' \in Values /\ peak <= peak'
  BY ClaimNumbers DEF ClaimInv, ClaimTypes
<1>2. NeverOverclaimed' /\ Numbered' /\ Actives' = Actives
  BY <1>1, SameClaims
<1>3. Live' = Live /\ (Carried' <=> Carried)
  BY DEF Live, Carried
<1>4. ASSUME NEW k \in Handlers, k # h
      PROVE  /\ task'[k].at \in {"lock", "commit"} => AsRead(task[k])'
             /\ task'[k].at = "flag" => ReadActive(task[k].claims)'
  BY <1>4 DEF Others, AsRead, ReadActive, ClaimInv, Remembered
<1>5. (task'[h].at \in {"lock", "commit"} => AsRead(task[h])') /\ (task'[h].at = "flag" => ReadActive(task[h].claims)') => Remembered'
  BY <1>4 DEF Remembered
<1>. QED BY <1>2, <1>3, <1>5

\* The lock is taken, the sum read and compared.
LEMMA CheckStep == ASSUME ClaimInv, NEW h \in Handlers, Check(h) PROVE ClaimInv'
<1>. USE DEF ClaimInv
<1>0. task \in [Handlers -> Tasks] /\ task[h] \in Asks /\ task[h].at = "lock" /\ locked = NoHandler /\ task[h].op # "release"
  BY TaskKinds DEF ClaimTypes, Check, MayLock, Locking
<1>1. CASE Fits(task[h])
  <2>1. locked' = h /\ task' = [task EXCEPT ![h].at = "commit"] /\ UNCHANGED <<goal, claim, value, peak, ops, skipped, died>>
    BY <1>1 DEF Check
  <2>2. [task[h] EXCEPT !.at = "commit"] \in Asks
    BY <1>0 DEF Asks
  <2>3. task' \in [Handlers -> Tasks] /\ Others(h) /\ task'[h] = [task[h] EXCEPT !.at = "commit"] /\ task'[h] \in Asks
    BY <1>0, <2>1, <2>2 DEF Tasks, Others
  <2>4. /\ task'[h].op = task[h].op /\ task'[h].claim = task[h].claim /\ task'[h].goal = task[h].goal
        /\ task'[h].amount = task[h].amount /\ task'[h].version = task[h].version /\ task'[h].seen = task[h].seen
        /\ task'[h].at = "commit"
    BY <1>0, <2>3 DEF Asks
  <2>5. AsRead(task[h])'
    BY <1>0, <2>1, <2>4 DEF Remembered, AsRead
  <2>6. NeverOverclaimed' /\ Numbered' /\ Actives' = Actives /\ Live' = Live /\ (Carried' <=> Carried) /\ Remembered'
    BY <2>1, <2>3, <2>5, QuietStep
  <2>7. Fits(task[h])'
    BY <1>1, <2>1, <2>4, <2>6 DEF Fits
  <2>8. \A k \in Handlers : k # h /\ task'[k].at = "commit" => task'[k].op = "release"
    BY <1>0, <2>3, ClaimsAssumption DEF Locking, Others
  <2>9. Locking'
    BY <1>0, <2>1, <2>3, <2>4, <2>7, <2>8 DEF Locking, Others
  <2>10. ClaimTypes'
    BY <2>1, <2>3 DEF ClaimTypes
  <2>11. WatchKept'
    BY <1>0, <2>1, <2>3, <2>6 DEF WatchKept, Watching, Others
  <2>. QED BY <2>6, <2>9, <2>10, <2>11
<1>2. CASE ~ Fits(task[h])
  <2>1. locked' = locked /\ task' = [task EXCEPT ![h] = Idle] /\ UNCHANGED <<goal, claim, value, peak, ops, skipped, died>>
    BY <1>2 DEF Check
  <2>2. task' \in [Handlers -> Tasks] /\ Others(h) /\ task'[h] = Idle /\ task'[h].at = "idle"
    BY <1>0, <2>1 DEF Tasks, Others, Idle
  <2>3. NeverOverclaimed' /\ Numbered' /\ Actives' = Actives /\ Live' = Live /\ (Carried' <=> Carried) /\ Remembered'
    BY <2>1, <2>2, QuietStep
  <2>4. Locking'
    BY <1>0, <2>1, <2>2, LockKept
  <2>5. ClaimTypes'
    BY <2>1, <2>2 DEF ClaimTypes
  <2>6. WatchKept'
    BY <1>0, <2>1, <2>2, <2>3 DEF WatchKept, Watching, Others
  <2>. QED BY <2>3, <2>4, <2>5, <2>6
<1>. QED BY <1>1, <1>2

\* A re-check reads the claims.
LEMMA RecheckStep == ASSUME ClaimInv, NEW h \in Handlers, Recheck(h) PROVE ClaimInv'
<1>. USE DEF ClaimInv
<1>. DEFINE due == IF Over(claim) THEN {c \in Claims : claim[c].status = "active"} ELSE {}
            pairs == {<<c, claim[c].version>> : c \in due}
            next == IF due = {} THEN Idle ELSE [at |-> "flag", claims |-> pairs]
<1>0. /\ task \in [Handlers -> Tasks] /\ task[h].at = "recheck" /\ task' = [task EXCEPT ![h] = next]
      /\ UNCHANGED <<goal, claim, value, peak, locked, ops, skipped, died>>
  BY DEF ClaimTypes, Recheck
<1>1. pairs \subseteq Claims \X Nat
  BY DEF ClaimTypes, ClaimRow
<1>2. next \in Tasks /\ next.at \in {"idle", "flag"}
  BY <1>1 DEF Tasks, Idle, Flags
<1>3. Over(claim) => \A c \in Actives : <<c, claim[c].version>> \in pairs
  BY DEF Actives
<1>4. due = {} => ~ Over(claim) \/ Actives = {}
  BY DEF Actives
<1>5. due # {} => next.at = "flag" /\ next.claims = pairs
  OBVIOUS
<1>5a. ReadActive(pairs)
  <2>1. \A c \in Claims : claim[c].version \in Nat
    BY DEF ClaimTypes, ClaimRow
  <2>. QED BY <2>1 DEF ReadActive
<1>. HIDE DEF next, pairs, due
<1>6. task' \in [Handlers -> Tasks] /\ Others(h) /\ task'[h] = next
  BY <1>0, <1>2 DEF Others
<1>7. NeverOverclaimed' /\ Numbered' /\ Actives' = Actives /\ Live' = Live /\ (Carried' <=> Carried) /\ Remembered'
  <2>1. task'[h].at = "flag" => task'[h].claims = pairs
    BY <1>2, <1>5, <1>6 DEF next, Idle
  <2>2. task'[h].at = "flag" => ReadActive(task[h].claims)'
    BY <1>0, <1>5a, <2>1 DEF ReadActive
  <2>. QED BY <1>0, <1>2, <1>6, <2>2, QuietStep
<1>8. Locking'
  <2>1. locked # h
    BY <1>0, ClaimsAssumption DEF Locking
  <2>2. locked' \in Handlers \cup {NoHandler} /\ (locked' # NoHandler => task'[locked'].at = "commit" /\ task'[locked'].op # "release")
    BY <1>0, <1>6, <2>1 DEF Locking, Others
  <2>. QED BY <1>0, <1>2, <1>6, <2>2, LockKept
<1>9. ClaimTypes'
  BY <1>0, <1>6 DEF ClaimTypes
<1>10. ~ Carried => Over(claim)
  <2>1. Total(claim, Live) \in Int /\ value \in Int
    BY TotalType, ClaimNumbers DEF Live, ClaimTypes
  <2>. QED BY <2>1 DEF Carried, Over
<1>11. WatchKept'
  <2>1. SUFFICES ASSUME skipped' = 0, died' = 0, ~ Carried', Actives' # {} PROVE Watching(h)'
    BY DEF WatchKept
  <2>2. Over(claim) /\ due # {}
    BY <1>4, <1>7, <1>10, <2>1
  <2>3. task'[h].at = "flag" /\ task'[h].claims = pairs
    BY <1>5, <1>6, <2>2
  <2>. QED BY <1>0, <1>3, <1>7, <2>2, <2>3 DEF Watching
<1>. QED BY <1>7, <1>8, <1>9, <1>11

\* A handler dies, and its transaction with it.
LEMMA DieStep == ASSUME ClaimInv, NEW h \in Handlers, Die(h) PROVE ClaimInv'
<1>. USE DEF ClaimInv
<1>0. /\ task \in [Handlers -> Tasks] /\ task' = [task EXCEPT ![h] = Idle] /\ died' = died + 1 /\ died \in Nat
      /\ UNCHANGED <<goal, claim, value, peak, ops, skipped>> /\ locked' = IF locked = h THEN NoHandler ELSE locked
  BY DEF ClaimTypes, Die, Unlocks
<1>1. task' \in [Handlers -> Tasks] /\ Others(h) /\ task'[h] = Idle /\ task'[h].at = "idle"
  BY <1>0 DEF Tasks, Others, Idle
<1>2. NeverOverclaimed' /\ Numbered' /\ Remembered'
  BY <1>0, <1>1, QuietStep
<1>3. Locking'
  <2>1. locked' \in Handlers \cup {NoHandler} /\ (locked' # NoHandler => task'[locked'].at = "commit" /\ task'[locked'].op # "release")
    BY <1>0, <1>1 DEF Locking, Others
  <2>. QED BY <1>0, <1>1, <2>1, LockKept
<1>4. ClaimTypes'
  BY <1>0, <1>1 DEF ClaimTypes
<1>5. WatchKept'
  BY <1>0 DEF WatchKept
<1>. QED BY <1>2, <1>3, <1>4, <1>5

\* The lock and what it protects survive a step that takes claims away.
LEMMA LockKeptShrunk ==
  ASSUME ClaimInv, NEW h \in Handlers, claim' \in [Claims -> ClaimRow], Shrinks, Others(h),
         locked' = (IF locked = h THEN NoHandler ELSE locked) \/ (locked # h /\ locked' = locked),
         task'[h].at \notin {"lock", "commit"}
  PROVE  Locking'
<1>1. \A u \in Asks : Fits(u) => Fits(u)'
  BY StillFits DEF ClaimInv, ClaimTypes
<1>2. ASSUME NEW k \in Handlers, task'[k].at = "commit", task'[k].op # "release" PROVE locked' = k /\ Fits(task[k])'
  <2>1. k # h /\ task'[k] = task[k] /\ task[k] \in Tasks
    BY <1>2 DEF Others, ClaimInv, ClaimTypes
  <2>2. task[k] \in Asks /\ locked = k /\ Fits(task[k])
    BY <1>2, <2>1, TaskKinds DEF Locking, ClaimInv
  <2>3. Fits(task[k])'
    BY <1>1, <2>1, <2>2 DEF Fits, Live
  <2>. QED BY <2>1, <2>2, <2>3
<1>3. \A k \in Handlers : task'[k].at = "lock" => task'[k].op # "release"
  BY DEF Others, Locking, ClaimInv
<1>4. locked' \in Handlers \cup {NoHandler} /\ (locked' # NoHandler => task'[locked'].at = "commit" /\ task'[locked'].op # "release")
  BY ClaimsAssumption DEF Others, Locking, ClaimInv
<1>. QED BY <1>2, <1>3, <1>4 DEF Locking

\* Every revision raises the version, so what was read of an older one is not taken for the newest.
LEMMA Advanced ==
  ASSUME ClaimInv, NEW h \in Handlers, Others(h), peak' = peak, claim' \in [Claims -> ClaimRow],
         task'[h].at \notin {"lock", "commit", "flag"},
         \A c \in Claims : claim'[c] = claim[c] \/ (claim'[c].version = claim[c].version + 1 /\ claim'[c].status # "unused")
  PROVE  Numbered' /\ Remembered'
<1>. USE DEF ClaimInv
<1>1. \A c \in Claims : claim[c].version \in Nat /\ claim'[c].version \in Nat
  BY DEF ClaimTypes, ClaimRow
<1>2. \A c \in Claims : claim'[c] = claim[c] \/ (claim'[c].version > claim[c].version /\ claim'[c].version # 0)
  BY <1>1
<1>3. Numbered'
  BY <1>2 DEF Numbered
<1>4. ASSUME NEW k \in Handlers, task'[k].at \in {"lock", "commit"} PROVE AsRead(task[k])'
  <2>1. task'[k] = task[k] /\ task[k] \in Asks
    BY <1>4, TaskKinds DEF Others, ClaimTypes
  <2>2. AsRead(task[k]) /\ task[k].claim \in Claims /\ task[k].version \in Nat
    BY <1>4, <2>1 DEF Remembered, Asks
  <2>3. CASE claim'[task[k].claim] = claim[task[k].claim]
    BY <2>1, <2>2, <2>3 DEF AsRead
  <2>4. CASE claim'[task[k].claim].version > claim[task[k].claim].version
    <3>1. claim'[task[k].claim].version > task[k].version
      BY <1>1, <2>2, <2>4 DEF AsRead
    <3>2. task[k].version <= claim'[task[k].claim].version /\ claim'[task[k].claim].version # task[k].version
      BY <1>1, <2>2, <3>1
    <3>. QED BY <2>1, <2>2, <3>2 DEF AsRead
  <2>. QED BY <1>2, <2>2, <2>3, <2>4
<1>5. ASSUME NEW k \in Handlers, task'[k].at = "flag" PROVE ReadActive(task[k].claims)'
  <2>1. task'[k] = task[k] /\ task[k] \in Flags
    BY <1>5, TaskKinds DEF Others, ClaimTypes
  <2>2. ReadActive(task[k].claims) /\ task[k].claims \subseteq Claims \X Nat
    BY <1>5, <2>1 DEF Remembered, Flags
  <2>3. ASSUME NEW p \in task[k].claims
        PROVE  p[2] <= claim'[p[1]].version /\ (claim'[p[1]].version = p[2] => claim'[p[1]].status = "active")
    <3>1. p[1] \in Claims /\ p[2] \in Nat
      BY <2>2
    <3>2. p[2] <= claim[p[1]].version /\ (claim[p[1]].version = p[2] => claim[p[1]].status = "active")
      BY <2>2 DEF ReadActive
    <3>3. CASE claim'[p[1]] = claim[p[1]]
      BY <3>2, <3>3
    <3>4. CASE claim'[p[1]].version > claim[p[1]].version
      BY <1>1, <3>1, <3>2, <3>4
    <3>. QED BY <1>2, <3>1, <3>3, <3>4
  <2>. QED BY <2>1, <2>3 DEF ReadActive
<1>. QED BY <1>3, <1>4, <1>5 DEF Remembered

\* A revision of a claim is committed.
LEMMA CommitStep == ASSUME ClaimInv, NEW h \in Handlers, Commit(h) PROVE ClaimInv'
<1>. USE DEF ClaimInv
<1>0. PICK t \in Asks : t = task[h] /\ t.at = "commit"
  BY TaskKinds DEF ClaimTypes, Commit
<1>a. /\ task \in [Handlers -> Tasks] /\ claim \in [Claims -> ClaimRow] /\ locked' = IF locked = h THEN NoHandler ELSE locked
      /\ UNCHANGED <<goal, value, peak, ops, skipped, died>>
      /\ t.claim \in Claims /\ t.goal \in Goals /\ t.amount \in Amounts \cup {0} /\ t.version \in Nat /\ t.seen \in Values
  BY <1>0 DEF ClaimTypes, Commit, Unlocks, Asks
<1>1. CASE StillNewest(t.claim, t.version)
  <2>. DEFINE record == [version |-> t.version + 1, goal |-> t.goal, amount |-> t.amount,
                      status |-> IF t.op = "release" THEN "released" ELSE "active"]
  <2>1. claim' = [claim EXCEPT ![t.claim] = record] /\ task' = [task EXCEPT ![h] = [at |-> "recheck"]]
    BY <1>0, <1>1 DEF Commit
  <2>2. /\ record \in ClaimRow /\ record.version = t.version + 1 /\ record.goal = t.goal /\ record.amount = t.amount
        /\ record.status = IF t.op = "release" THEN "released" ELSE "active"
    BY <1>a DEF ClaimRow, Statuses
  <2>. HIDE DEF record
  <2>3. claim' \in [Claims -> ClaimRow] /\ claim'[t.claim] = record /\ (\A c \in Claims : c # t.claim => claim'[c] = claim[c])
    BY <1>a, <2>1, <2>2
  <2>4. task' \in [Handlers -> Tasks] /\ Others(h) /\ task'[h] = [at |-> "recheck"] /\ task'[h].at = "recheck"
    <3>1. [at |-> "recheck"] \in Tasks
      BY DEF Tasks, Checks
    <3>. QED BY <1>a, <2>1, <3>1 DEF Others
  <2>5. Numbered' /\ Remembered'
    <3>1. claim'[t.claim].version = claim[t.claim].version + 1 /\ claim'[t.claim].status # "unused"
      BY <1>1, <2>2, <2>3 DEF StillNewest
    <3>. QED BY <1>a, <2>3, <2>4, <3>1, Advanced
  <2>6. ClaimTypes'
    BY <1>a, <2>3, <2>4 DEF ClaimTypes
  <2>7. WatchKept'
    BY <2>4 DEF WatchKept, Watching
  <2>8. CASE t.op = "release"
    <3>1. Shrinks
      BY <2>2, <2>3, <2>8 DEF Shrinks, Live
    <3>2. NeverOverclaimed'
      <4>1. peak \in Int
        BY ClaimNumbers DEF ClaimTypes
      <4>2. peak \in Values /\ peak' \in Values /\ peak <= peak'
        BY <1>a, <4>1 DEF ClaimTypes
      <4>. QED BY <1>a, <2>3, <3>1, <4>2, StillWithin
    <3>3. Locking'
      BY <1>a, <2>3, <2>4, <3>1, LockKeptShrunk
    <3>. QED BY <2>5, <2>6, <2>7, <3>2, <3>3
  <2>9. CASE t.op # "release"
    <3>1. locked = h /\ Fits(t) /\ AsRead(t)
      BY <1>0, <2>9 DEF Locking, Remembered
    <3>2. claim[t.claim].status \in StatusFor(t.op) /\ (t.op # "claim" => claim[t.claim].goal = t.goal) /\ t.seen <= peak
      BY <1>1, <3>1 DEF AsRead, StillNewest
    <3>3. Live' = Live \cup {t.claim} /\ Live' \in SUBSET Claims /\ Live \in SUBSET Claims
      BY <1>a, <2>2, <2>3, <2>9 DEF Live
    <3>4. NeverOverclaimed'
      <4>. DEFINE rest == Live \ {t.claim}
      <4>1. Total(claim', Live') = t.amount + Total(claim', rest)
        <5>1. Live' \ {t.claim} = rest /\ t.claim \in Live'
          BY <3>3
        <5>2. Total(claim', Live') = claim'[t.claim].amount + Total(claim', Live' \ {t.claim})
          BY <2>3, <3>3, <5>1, TotalWith
        <5>. QED BY <2>2, <2>3, <5>1, <5>2
      <4>2. Total(claim', rest) <= Total(claim, rest)
        <5>1. \A c \in rest : claim'[c].amount = claim[c].amount
          BY <2>3, <3>3
        <5>. QED BY <1>a, <2>3, <3>3, <5>1, TotalShrinks
      <4>3. Total(claim', rest) \in Int /\ Total(claim, rest) \in Int /\ t.amount \in Int /\ t.seen \in Int /\ peak \in Int
        <5>1. Total(claim', rest) \in Int /\ Total(claim, rest) \in Int
          BY <1>a, <2>3, <3>3, TotalType
        <5>. QED BY <1>a, <5>1, ClaimNumbers DEF ClaimTypes
      <4>4. Total(claim, rest) + t.amount <= t.seen
        BY <3>1 DEF Fits
      <4>5. Total(claim', Live') <= peak
        <5>. HIDE DEF rest
        <5>. QED BY <3>2, <4>1, <4>2, <4>3, <4>4
      <4>6. ASSUME NEW c \in Live', NEW d \in Live', claim'[c].goal = claim'[d].goal PROVE c = d
        <5>1. CASE t.op = "claim"
          <6>1. \A e \in Live : claim[e].goal # t.goal
            BY <3>1, <5>1 DEF Fits
          <6>2. t.claim \notin Live
            BY <3>2, <5>1 DEF Live, StatusFor
          <6>. QED BY <2>2, <2>3, <3>3, <4>6, <6>1, <6>2 DEF NeverOverclaimed
        <5>2. CASE t.op # "claim"
          <6>1. t.op \in {"confirm", "resize"}
            BY <2>9, <5>2 DEF Asks
          <6>2. t.claim \in Live
            BY <1>a, <3>2, <6>1 DEF Live, StatusFor
          <6>3. claim'[t.claim].goal = claim[t.claim].goal
            BY <2>2, <2>3, <3>2, <5>2
          <6>4. Live' = Live /\ \A e \in Live : claim'[e].goal = claim[e].goal
            BY <2>3, <3>3, <6>2, <6>3
          <6>. QED BY <4>6, <6>4 DEF NeverOverclaimed
        <5>. QED BY <5>1, <5>2
      <4>. QED BY <1>a, <4>5, <4>6 DEF NeverOverclaimed
    <3>5. Locking'
      <4>1. \A k \in Handlers : task'[k].at = "commit" => task'[k].op = "release"
        BY <2>4, <3>1 DEF Locking, Others
      <4>. QED BY <1>a, <2>4, <3>1, <4>1 DEF Locking, Others
    <3>. QED BY <2>5, <2>6, <2>7, <3>4, <3>5
  <2>. QED BY <2>8, <2>9
<1>2. CASE ~ StillNewest(t.claim, t.version)
  <2>1. claim' = claim /\ task' = [task EXCEPT ![h] = Idle]
    BY <1>0, <1>2 DEF Commit
  <2>2. task' \in [Handlers -> Tasks] /\ Others(h) /\ task'[h] = Idle /\ task'[h].at = "idle"
    BY <1>a, <2>1 DEF Tasks, Others, Idle
  <2>3. NeverOverclaimed' /\ Numbered' /\ Actives' = Actives /\ (Carried' <=> Carried) /\ Remembered'
    BY <1>a, <2>1, <2>2, QuietStep
  <2>4. Locking'
    <3>1. locked' \in Handlers \cup {NoHandler} /\ (locked' # NoHandler => task'[locked'].at = "commit" /\ task'[locked'].op # "release")
      BY <1>a, <2>2 DEF Locking, Others
    <3>. QED BY <1>a, <2>1, <2>2, <3>1, LockKept
  <2>5. ClaimTypes'
    BY <1>a, <2>1, <2>2 DEF ClaimTypes
  <2>6. WatchKept'
    BY <1>0, <1>a, <2>1, <2>2, <2>3 DEF WatchKept, Watching, Others
  <2>. QED BY <2>3, <2>4, <2>5, <2>6
<1>. QED BY <1>1, <1>2

\* What a handler that ends without having watched leaves to the others.
LEMMA WatchedByOthers ==
  ASSUME ClaimInv, NEW h \in Handlers, Others(h), ~ Watching(h), Actives' \subseteq Actives,
         \A c \in Actives' : claim'[c] = claim[c], ~ Carried' => ~ Carried, skipped' = 0 => skipped = 0, died' = 0 => died = 0
  PROVE  WatchKept'
<1>1. SUFFICES ASSUME skipped' = 0, died' = 0, ~ Carried', Actives' # {} PROVE \E k \in Handlers : Watching(k)'
  BY DEF WatchKept
<1>2. PICK k \in Handlers : Watching(k)
  BY <1>1 DEF WatchKept, ClaimInv
<1>3. task'[k] = task[k]
  BY <1>2 DEF Others
<1>. QED BY <1>2, <1>3 DEF Watching

\* What the value carried, it carries when claims are taken away.
LEMMA CarriedStill ==
  ASSUME ClaimInv, claim' \in [Claims -> ClaimRow], Shrinks, value' = value
  PROVE  ~ Carried' => ~ Carried
<1>1. Live \subseteq Claims /\ Live' \subseteq Claims
  BY DEF Live
<1>2. Total(claim', Live') <= Total(claim, Live)
  BY <1>1, TotalShrinks DEF Shrinks, ClaimInv, ClaimTypes
<1>3. Total(claim', Live') \in Int /\ Total(claim, Live) \in Int /\ value \in Int
  BY <1>1, TotalType, ClaimNumbers DEF ClaimInv, ClaimTypes
<1>. QED BY <1>2, <1>3 DEF Carried

\* A revision of a claim is a claim.
LEMMA Revised ==
  ASSUME NEW r \in ClaimRow, NEW st \in Statuses
  PROVE  LET next == [r EXCEPT !.version = @ + 1, !.status = st]
         IN  next \in ClaimRow /\ next.version = r.version + 1 /\ next.status = st
             /\ next.goal = r.goal /\ next.amount = r.amount
<1>1. r.version + 1 \in Nat
  BY DEF ClaimRow
<1>2. ASSUME NEW v \in Nat
      PROVE  LET next == [r EXCEPT !.version = v, !.status = st]
             IN  next \in ClaimRow /\ next.version = v /\ next.status = st
                 /\ next.goal = r.goal /\ next.amount = r.amount
  BY DEF ClaimRow
<1>. QED BY <1>1, <1>2

\* A goal is closed and its claims released.
LEMMA CloseStep == ASSUME ClaimInv, NEW h \in Handlers, Close(h) PROVE ClaimInv'
<1>. USE DEF ClaimInv
<1>0. PICK t \in Closes : t = task[h] /\ t.at = "close"
  BY TaskKinds DEF ClaimTypes, Close
<1>a. /\ task \in [Handlers -> Tasks] /\ claim \in [Claims -> ClaimRow] /\ UNCHANGED <<value, peak, locked, ops, skipped, died>>
      /\ t.goal \in Goals /\ t.version \in Nat /\ locked # h /\ peak \in Values /\ peak \in Int
      /\ goal \in [Goals -> [version : Nat, status : {"active", "closed"}]]
  <2>1. locked # h
    BY <1>0, ClaimsAssumption DEF Locking
  <2>. QED BY <1>0, <2>1, ClaimNumbers DEF ClaimTypes, Close, Closes
<1>b. peak \in Values /\ peak' \in Values /\ peak <= peak'
  BY <1>a
<1>1. CASE goal[t.goal].version = t.version /\ \A p \in t.claims : StillNewest(p[1], p[2])
  <2>1. /\ goal' = [goal EXCEPT ![t.goal] = [version |-> t.version + 1, status |-> "closed"]]
        /\ claim' = [c \in Claims |-> IF <<c, claim[c].version>> \in t.claims
                                      THEN [claim[c] EXCEPT !.version = @ + 1, !.status = "released"]
                                      ELSE claim[c]]
        /\ task' = [task EXCEPT ![h] = [at |-> "recheck"]]
    BY <1>0, <1>1 DEF Close
  <2>2. ASSUME NEW c \in Claims
        PROVE  /\ claim'[c] \in ClaimRow
               /\ \/ claim'[c] = claim[c]
                  \/ claim'[c].version = claim[c].version + 1 /\ claim'[c].status = "released"
    <3>1. claim[c] \in ClaimRow /\ claim[c].version \in Nat
      BY <1>a DEF ClaimRow
    <3>. DEFINE next == [claim[c] EXCEPT !.version = @ + 1, !.status = "released"]
    <3>2. next \in ClaimRow /\ next.version = claim[c].version + 1 /\ next.status = "released"
      BY <3>1, Revised DEF Statuses
    <3>3. claim'[c] = next \/ claim'[c] = claim[c]
      BY <2>1
    <3>. HIDE DEF next
    <3>. QED BY <3>1, <3>2, <3>3
  <2>3. claim' \in [Claims -> ClaimRow]
    BY <2>1, <2>2
  <2>4. task' \in [Handlers -> Tasks] /\ Others(h) /\ task'[h] = [at |-> "recheck"] /\ task'[h].at = "recheck"
    <3>1. [at |-> "recheck"] \in Tasks
      BY DEF Tasks, Checks
    <3>. QED BY <1>a, <2>1, <3>1 DEF Others
  <2>5. Numbered' /\ Remembered'
    <3>1. \A c \in Claims : claim'[c] = claim[c] \/ (claim'[c].version = claim[c].version + 1 /\ claim'[c].status # "unused")
      BY <2>2
    <3>. QED BY <1>a, <2>3, <2>4, <3>1, Advanced
  <2>6. Shrinks
    BY <2>2 DEF Shrinks, Live
  <2>7. NeverOverclaimed' /\ Locking'
    <3>1. NeverOverclaimed'
      BY <1>a, <1>b, <2>3, <2>6, StillWithin
    <3>2. Locking'
      BY <1>a, <2>3, <2>4, <2>6, LockKeptShrunk
    <3>. QED BY <3>1, <3>2
  <2>8. ClaimTypes'
    <3>0. [version |-> t.version + 1, status |-> "closed"] \in [version : Nat, status : {"active", "closed"}]
      BY <1>a
    <3>1. goal' \in [Goals -> [version : Nat, status : {"active", "closed"}]]
      BY <1>a, <2>1, <3>0
    <3>. QED BY <1>a, <2>3, <2>4, <3>1 DEF ClaimTypes
  <2>9. WatchKept'
    BY <2>4 DEF WatchKept, Watching
  <2>. QED BY <2>5, <2>7, <2>8, <2>9
<1>2. CASE ~ (goal[t.goal].version = t.version /\ \A p \in t.claims : StillNewest(p[1], p[2]))
  <2>1. claim' = claim /\ goal' = goal /\ task' = [task EXCEPT ![h] = Idle]
    BY <1>0, <1>2 DEF Close
  <2>2. task' \in [Handlers -> Tasks] /\ Others(h) /\ task'[h] = Idle /\ task'[h].at = "idle"
    BY <1>a, <2>1 DEF Tasks, Others, Idle
  <2>3. NeverOverclaimed' /\ Numbered' /\ Actives' = Actives /\ (Carried' <=> Carried) /\ Remembered'
    BY <1>a, <2>1, <2>2, QuietStep
  <2>4. Locking'
    <3>1. locked' \in Handlers \cup {NoHandler} /\ (locked' # NoHandler => task'[locked'].at = "commit" /\ task'[locked'].op # "release")
      BY <1>a, <2>2 DEF Locking, Others
    <3>. QED BY <1>a, <2>1, <2>2, <3>1, LockKept
  <2>5. ClaimTypes'
    BY <1>a, <2>1, <2>2 DEF ClaimTypes
  <2>6. WatchKept'
    BY <1>0, <1>a, <2>1, <2>2, <2>3 DEF WatchKept, Watching, Others
  <2>. QED BY <2>3, <2>4, <2>5, <2>6
<1>. QED BY <1>1, <1>2

\* A re-check marks the claims that it read for review.
LEMMA FlagStep == ASSUME ClaimInv, NEW h \in Handlers, Flag(h) PROVE ClaimInv'
<1>. USE DEF ClaimInv
<1>0. PICK t \in Flags : t = task[h] /\ t.at = "flag"
  BY TaskKinds DEF ClaimTypes, Flag
<1>a. /\ task \in [Handlers -> Tasks] /\ claim \in [Claims -> ClaimRow] /\ UNCHANGED <<goal, value, peak, locked, ops, died>>
      /\ task' = [task EXCEPT ![h] = Idle] /\ locked # h /\ peak \in Values /\ peak \in Int /\ skipped \in Nat
  <2>1. locked # h
    BY <1>0, ClaimsAssumption DEF Locking
  <2>. QED BY <1>0, <2>1, ClaimNumbers DEF ClaimTypes, Flag
<1>b. peak \in Values /\ peak' \in Values /\ peak <= peak'
  BY <1>a
<1>c. task' \in [Handlers -> Tasks] /\ Others(h) /\ task'[h] = Idle /\ task'[h].at = "idle"
  BY <1>a DEF Tasks, Others, Idle
<1>1. CASE \A p \in t.claims : StillNewest(p[1], p[2])
  <2>1. /\ claim' = [c \in Claims |-> IF <<c, claim[c].version>> \in t.claims
                                      THEN [claim[c] EXCEPT !.version = @ + 1, !.status = "needs_review"]
                                      ELSE claim[c]]
        /\ skipped' = skipped
    BY <1>0, <1>1 DEF Flag
  <2>2. ASSUME NEW c \in Claims
        PROVE  /\ claim'[c] \in ClaimRow
               /\ <<c, claim[c].version>> \notin t.claims => claim'[c] = claim[c]
               /\ <<c, claim[c].version>> \in t.claims =>
                    /\ claim'[c].version = claim[c].version + 1 /\ claim'[c].status = "needs_review"
                    /\ claim'[c].goal = claim[c].goal /\ claim'[c].amount = claim[c].amount
    <3>1. claim[c] \in ClaimRow /\ claim[c].version \in Nat
      BY <1>a DEF ClaimRow
    <3>. DEFINE next == [claim[c] EXCEPT !.version = @ + 1, !.status = "needs_review"]
    <3>2. /\ next \in ClaimRow /\ next.version = claim[c].version + 1 /\ next.status = "needs_review"
          /\ next.goal = claim[c].goal /\ next.amount = claim[c].amount
      BY <3>1, Revised DEF Statuses
    <3>3. claim'[c] = IF <<c, claim[c].version>> \in t.claims THEN next ELSE claim[c]
      BY <2>1
    <3>. HIDE DEF next
    <3>. QED BY <3>1, <3>2, <3>3
  <2>3. claim' \in [Claims -> ClaimRow]
    BY <2>1, <2>2
  <2>4. Numbered' /\ Remembered'
    <3>1. \A c \in Claims : claim'[c] = claim[c] \/ (claim'[c].version = claim[c].version + 1 /\ claim'[c].status # "unused")
      BY <2>2
    <3>. QED BY <1>a, <1>c, <2>3, <3>1, Advanced
  <2>5. \A c \in Claims : <<c, claim[c].version>> \in t.claims => claim[c].status = "active"
    <3>1. ReadActive(t.claims)
      BY <1>0 DEF Remembered
    <3>. QED BY <3>1 DEF ReadActive
  <2>6. Shrinks
    BY <2>2, <2>5 DEF Shrinks, Live
  <2>7. NeverOverclaimed' /\ Locking'
    <3>1. NeverOverclaimed'
      BY <1>a, <1>b, <2>3, <2>6, StillWithin
    <3>2. Locking'
      BY <1>a, <1>c, <2>3, <2>6, LockKeptShrunk
    <3>. QED BY <3>1, <3>2
  <2>8. ClaimTypes'
    BY <1>a, <1>c, <2>1, <2>3 DEF ClaimTypes
  <2>9. WatchKept'
    <3>1. Actives' \subseteq Actives /\ \A c \in Actives' : claim'[c] = claim[c]
      BY <2>2 DEF Actives
    <3>2. CASE Watching(h)
      <4>1. \A c \in Actives : <<c, claim[c].version>> \in t.claims
        BY <1>0, <3>2 DEF Watching
      <4>2. Actives' = {}
        BY <2>2, <3>1, <4>1 DEF Actives
      <4>. QED BY <4>2 DEF WatchKept
    <3>3. CASE ~ Watching(h)
      <4>1. ~ Carried' => ~ Carried
        BY <1>a, <2>3, <2>6, CarriedStill
      <4>. QED BY <1>a, <1>c, <2>1, <3>1, <3>3, <4>1, WatchedByOthers
    <3>. QED BY <3>2, <3>3
  <2>. QED BY <2>4, <2>7, <2>8, <2>9
<1>2. CASE ~ (\A p \in t.claims : StillNewest(p[1], p[2]))
  <2>1. claim' = claim /\ skipped' = skipped + 1
    BY <1>0, <1>2 DEF Flag
  <2>2. NeverOverclaimed' /\ Numbered' /\ Remembered'
    BY <1>a, <1>c, <2>1, QuietStep
  <2>3. Locking'
    <3>1. locked' \in Handlers \cup {NoHandler} /\ (locked' # NoHandler => task'[locked'].at = "commit" /\ task'[locked'].op # "release")
      BY <1>a, <1>c DEF Locking, Others
    <3>. QED BY <1>a, <1>c, <2>1, <3>1, LockKept
  <2>4. ClaimTypes'
    BY <1>a, <1>c, <2>1 DEF ClaimTypes
  <2>5. WatchKept'
    BY <1>a, <2>1 DEF WatchKept
  <2>. QED BY <2>2, <2>3, <2>4, <2>5
<1>. QED BY <1>1, <1>2

\* Every step keeps the invariant.
LEMMA ClaimStep == ClaimInv /\ [GNext]_claimVars => ClaimInv'
<1>. SUFFICES ASSUME ClaimInv, [GNext]_claimVars PROVE ClaimInv'
  OBVIOUS
<1>1. CASE UNCHANGED claimVars
  <2>. USE <1>1 DEF claimVars
  <2>1. ClaimTypes' /\ Numbered' /\ Locking'
    BY DEF ClaimInv, ClaimTypes, Numbered, Locking, Fits, Live
  <2>2. Remembered' /\ NeverOverclaimed'
    BY DEF ClaimInv, Remembered, AsRead, ReadActive, NeverOverclaimed, Live
  <2>3. WatchKept'
    BY DEF ClaimInv, WatchKept, Watching, Carried, Live, Actives
  <2>. QED BY <2>1, <2>2, <2>3 DEF ClaimInv
<1>2. ASSUME NEW h \in Handlers, Check(h) \/ Commit(h) \/ Close(h) PROVE ClaimInv'
  BY <1>2, CheckStep, CommitStep, CloseStep
<1>3. ASSUME NEW h \in Handlers, Recheck(h) \/ Flag(h) \/ Die(h) PROVE ClaimInv'
  BY <1>3, RecheckStep, FlagStep, DieStep
<1>4. ASSUME NEW h \in Handlers, NEW v \in Values, NewValue(h, v) PROVE ClaimInv'
  BY <1>4, NewValueStep
<1>. QED BY <1>1, <1>2, <1>3, <1>4, BeginsStep DEF GNext

\* The inductive invariant holds of every behaviour: claims are committed by the holder of the lock, and fit
\* beside the others that are alive.
THEOREM ClaimInvariance == GSpec => []ClaimInv
<1>1. GInit => ClaimInv
  BY ClaimStart
<1>. QED BY <1>1, ClaimStep, PTL DEF GSpec

\* No holding is promised beyond the largest value it had since it was claimed; and unless a re-check was left
\* out or died, one that is worth less than its active claims is being re-checked.
THEOREM HoldingsCarryTheirClaims == GSpec => []ClaimsCarried
<1>1. ClaimInv => ClaimsCarried
  <2>. SUFFICES ASSUME ClaimInv PROVE ClaimsCarried
    OBVIOUS
  <2>1. GTypeOK
    BY DEF ClaimInv, ClaimTypes, Locking, GTypeOK, ClaimRow
  <2>2. Quiet => \A h \in Handlers : ~ Watching(h)
    BY DEF Quiet, Watching, Idle
  <2>3. FlaggedWhenOver
    BY <2>2 DEF ClaimInv, WatchKept, FlaggedWhenOver, Actives
  <2>. QED BY <2>1, <2>3 DEF ClaimInv, ClaimsCarried
<1>. QED BY <1>1, ClaimInvariance, PTL

\* A claim that is marked for review becomes active again only by the owner confirming the version he saw.
THEOREM OnlyTheOwnerReactivates == GSpec => ReviewSticky
<1>. DEFINE Sticky ==
       \A c \in Claims :
         claim[c].status = "needs_review" /\ claim'[c].status = "active" =>
           \E h \in Handlers : task[h].at = "commit" /\ task[h].op = "confirm" /\ task[h].claim = c
                               /\ task[h].version = claim[c].version
<1>1. ASSUME ClaimInv, [GNext]_claimVars PROVE [Sticky]_claimVars
  <2>. SUFFICES ASSUME NEW c \in Claims, claim[c].status = "needs_review", claim'[c].status = "active"
                PROVE  \E h \in Handlers : task[h].at = "commit" /\ task[h].op = "confirm" /\ task[h].claim = c
                                           /\ task[h].version = claim[c].version
    OBVIOUS
  <2>1. claim' # claim
    OBVIOUS
  <2>2. PICK h \in Handlers : Commit(h) \/ Close(h) \/ Flag(h)
    BY <1>1, <2>1 DEF GNext, claimVars, BeginClaim, BeginAct, BeginRelease, BeginClose, NewValue, Check, Recheck, Die
  <2>3. ~ Close(h) /\ ~ Flag(h)
    <3>1. claim[c] \in ClaimRow
      BY <1>1 DEF ClaimInv, ClaimTypes
    <3>2. [claim[c] EXCEPT !.version = @ + 1, !.status = "released"].status = "released"
      BY <3>1 DEF ClaimRow
    <3>3. [claim[c] EXCEPT !.version = @ + 1, !.status = "needs_review"].status = "needs_review"
      BY <3>1 DEF ClaimRow
    <3>4. ASSUME Close(h) PROVE FALSE
      <4>1. claim'[c] \in {claim[c], [claim[c] EXCEPT !.version = @ + 1, !.status = "released"]}
        BY <2>1, <3>4 DEF Close
      <4>. QED BY <3>2, <4>1
    <3>5. ASSUME Flag(h) PROVE FALSE
      <4>1. claim'[c] \in {claim[c], [claim[c] EXCEPT !.version = @ + 1, !.status = "needs_review"]}
        BY <2>1, <3>5 DEF Flag
      <4>. QED BY <3>3, <4>1
    <3>. QED BY <3>4, <3>5
  <2>4. task[h].at = "commit" /\ task[h] \in Asks /\ Commit(h)
    BY <1>1, <2>2, <2>3, TaskKinds DEF Commit, ClaimInv, ClaimTypes
  <2>5. /\ StillNewest(task[h].claim, task[h].version) /\ task[h].claim = c
        /\ claim'[c].status = IF task[h].op = "release" THEN "released" ELSE "active"
    BY <1>1, <2>4 DEF Commit, ClaimInv, ClaimTypes
  <2>6. task[h].version = claim[c].version /\ AsRead(task[h])
    BY <1>1, <2>4, <2>5 DEF ClaimInv, Remembered, StillNewest
  <2>7. claim[c].status \in StatusFor(task[h].op)
    BY <2>5, <2>6 DEF AsRead
  <2>8. task[h].op = "confirm"
    BY <2>4, <2>5, <2>7 DEF Asks, StatusFor
  <2>. QED BY <2>4, <2>5, <2>6, <2>8
<1>. QED BY <1>1, ClaimInvariance, PTL DEF GSpec, ReviewSticky

-----------------------------------------------------------------------------
(* The inbox. *)

Row == [status : {"open", "snoozed", "dismissed", "resolved"}, sev : Severities, meas : Measures,
        until : 0 .. MaxDay + 1, dsev : Severities, dmeas : Measures, version : Nat]
TabRow == [fp : Fingerprints, version : Nat, sev : Severities, meas : Measures]
Judgement == [at : {"judged"}, alert : Alerts, met : BOOLEAN, locks : BOOLEAN]

\* The values of the variables.
InboxTypeOK ==
  /\ row \in [Fingerprints -> Row]
  /\ day \in 0 .. MaxDay
  /\ tab \in [Tabs -> {NoTab} \cup TabRow]
  /\ alert \in [Alerts -> [exists : BOOLEAN, triggered : BOOLEAN]]
  /\ eval \in [Evaluators -> {Resting} \cup Judgement]
  /\ removal \in [Alerts -> {"none", "cleared", "nothing", "done"}]
  /\ published \in [issues : SUBSET Issues, day : 0 .. MaxDay] /\ published.day <= day
  /\ agreed \in [Fingerprints -> [sev : Int, meas : Int]]
  /\ touched \subseteq Fingerprints
  /\ crossed \in BOOLEAN

\* A snoozed row has a date, and a row that there is not is resolved.
RowKnown(f) ==
  /\ row[f].status = "snoozed" => row[f].until > 0
  /\ row[f].version = 0 => row[f].status = "resolved"

\* A tab that shows the version of a row shows its severity and measure.
TabKnown(t) ==
  tab[t] # NoTab =>
    /\ 1 <= tab[t].version /\ tab[t].version <= row[tab[t].fp].version
    /\ tab[t].version = row[tab[t].fp].version => tab[t].sev = row[tab[t].fp].sev /\ tab[t].meas = row[tab[t].fp].meas

\* A dismissed row keeps what the owner was shown, and is not materially worse.
Dismissal(f) ==
  row[f].status = "dismissed" =>
    /\ row[f].dsev = agreed[f].sev /\ row[f].dmeas = agreed[f].meas
    /\ row[f].sev <= row[f].dsev /\ row[f].meas < row[f].dmeas + Growth

Follows(f) ==
  IF f \in published.issues
  THEN Exists(f) /\ row[f].status # "resolved" /\ (row[f].status = "snoozed" => row[f].until > published.day)
  ELSE row[f].status \in Active => f \in touched

Removals == \A a \in Alerts : removal[a] = "done" <=> ~alert[a].exists

EvaluatesOf(e, a) == eval[e] # Resting /\ eval[e].alert = a

\* While nothing crossed: an alert is evaluated or removed by one at a time, which finds it as it was.
Alone(a) ==
  /\ \A e \in Evaluators : EvaluatesOf(e, a) =>
       /\ removal[a] = "none"
       /\ eval[e].locks <=> (eval[e].met \/ alert[a].triggered)
       /\ \A k \in Evaluators : EvaluatesOf(k, a) => k = e
  /\ removal[a] = "nothing" => ~Exists(a)

Owns(a) ==
  /\ alert[a].triggered => Exists(a) /\ row[a].status # "resolved"
  /\ ~alert[a].exists /\ row[a].status \in Active => a \in touched

Uncrossed == ~crossed => \A a \in Alerts : Alone(a) /\ Owns(a)

InboxInv ==
  /\ InboxTypeOK
  /\ \A f \in Fingerprints : RowKnown(f) /\ Dismissal(f)
  /\ \A t \in Tabs : TabKnown(t)
  /\ \A f \in Issues : Follows(f)
  /\ Removals /\ Uncrossed

-----------------------------------------------------------------------------
(* What a writer makes of a row. *)

\* Severities, measures and growths are numbers.
LEMMA InboxNumbers == (\A x \in Severities : x \in Int) /\ (\A x \in Measures : x \in Int) /\ Growth \in Int
<1>1. \A x \in 0 .. 2 : x \in Int OBVIOUS
<1> QED BY <1>1, InboxAssumption

LEMMA RowShape ==
  ASSUME NEW r \in Row
  PROVE  /\ r.status \in {"open", "snoozed", "dismissed", "resolved"} /\ r.sev \in Severities /\ r.meas \in Measures
         /\ r.until \in 0 .. MaxDay + 1 /\ r.dsev \in Severities /\ r.dmeas \in Measures /\ r.version \in Nat
         /\ r.sev \in Int /\ r.meas \in Int /\ r.dsev \in Int /\ r.dmeas \in Int /\ r.until \in Int
<1>1. /\ r.status \in {"open", "snoozed", "dismissed", "resolved"} /\ r.sev \in Severities /\ r.meas \in Measures
      /\ r.dsev \in Severities /\ r.dmeas \in Measures /\ r.version \in Nat
  BY DEF Row
<1>2. r.until \in 0 .. MaxDay + 1 BY DEF Row
<1>3. r.until \in Int BY <1>2, InboxAssumption
<1> QED BY <1>1, <1>2, <1>3, InboxNumbers

LEMMA SeenRow ==
  ASSUME NEW r \in Row, NEW o \in Shown
  PROVE  /\ Seen(r, o) \in Row /\ Seen(r, o).version = r.version + 1
         /\ Seen(r, o).sev = o.sev /\ Seen(r, o).meas = o.meas
         /\ Seen(r, o).dsev = r.dsev /\ Seen(r, o).dmeas = r.dmeas
         /\ \/ Seen(r, o).status = "open" /\ (r.status = "dismissed" => Material(r, o.sev, o.meas))
            \/ Seen(r, o).status = r.status /\ r.status = "open"
            \/ Seen(r, o).status = r.status /\ r.status = "snoozed" /\ ~SnoozeOver(r) /\ Seen(r, o).until = r.until
            \/ Seen(r, o).status = r.status /\ r.status = "dismissed" /\ ~Material(r, o.sev, o.meas)
<1> DEFINE back == \/ r.status = "resolved"
                   \/ r.status = "snoozed" /\ SnoozeOver(r)
                   \/ r.status = "dismissed" /\ Material(r, o.sev, o.meas)
<1>1. Seen(r, o) = [r EXCEPT !.sev = o.sev, !.meas = o.meas, !.version = @ + 1,
                             !.status = IF back THEN "open" ELSE @,
                             !.until = IF back /\ r.status = "snoozed" THEN 0 ELSE @]
  BY DEF Seen
<1>2. 0 \in 0 .. MaxDay + 1 BY InboxAssumption
<1> HIDE DEF back
<1>3. Seen(r, o) \in Row
  <2>1. o.sev \in Severities /\ o.meas \in Measures BY DEF Shown
  <2>2. r.version + 1 \in Nat BY RowShape
  <2>3. PICK s \in {"open", "snoozed", "dismissed", "resolved"} : s = IF back THEN "open" ELSE r.status BY RowShape
  <2>4. PICK u \in 0 .. MaxDay + 1 : u = IF back /\ r.status = "snoozed" THEN 0 ELSE r.until BY RowShape, <1>2
  <2>5. Seen(r, o) = [r EXCEPT !.sev = o.sev, !.meas = o.meas, !.version = r.version + 1, !.status = s, !.until = u]
    BY <1>1, <2>3, <2>4
  <2> QED BY <2>1, <2>2, <2>5 DEF Row
<1>4. /\ Seen(r, o).version = r.version + 1 /\ Seen(r, o).sev = o.sev /\ Seen(r, o).meas = o.meas
      /\ Seen(r, o).dsev = r.dsev /\ Seen(r, o).dmeas = r.dmeas
      /\ Seen(r, o).status = (IF back THEN "open" ELSE r.status)
      /\ ~back => Seen(r, o).until = r.until
  BY <1>1 DEF Row
<1> QED BY <1>3, <1>4, RowShape DEF back

\* A row that is resolved because its issue or its condition is gone.
Closed(r) == [r EXCEPT !.status = "resolved", !.version = @ + 1]

LEMMA ClosedRow ==
  ASSUME NEW r \in Row
  PROVE  Closed(r) \in Row /\ Closed(r).version = r.version + 1 /\ Closed(r).status = "resolved"
<1>1. r.version + 1 \in Nat BY RowShape
<1>2. Closed(r) \in Row BY <1>1 DEF Row, Closed
<1>3. Closed(r).version = r.version + 1 /\ Closed(r).status = "resolved" BY DEF Row, Closed
<1> QED BY <1>2, <1>3

LEMMA RaisedRow ==
  ASSUME NEW r \in Row
  PROVE  /\ Raised(r) \in Row /\ Raised(r).version = r.version + 1 /\ Raised(r).status # "resolved"
         /\ Raised(r).status = "snoozed" => Raised(r).until = r.until /\ r.status = "snoozed"
         /\ r.status = "dismissed" => Raised(r).status = "dismissed"
         /\ Raised(r).status = "dismissed" => r.status = "dismissed"
         /\ Raised(r).sev = r.sev /\ Raised(r).meas = r.meas /\ Raised(r).dsev = r.dsev /\ Raised(r).dmeas = r.dmeas
<1> DEFINE back == r.status = "resolved" \/ (r.status = "snoozed" /\ SnoozeOver(r))
<1>1. 0 \in 0 .. MaxDay + 1 /\ r.version + 1 \in Nat BY InboxAssumption, RowShape
<1>2. PICK s \in {"open", "snoozed", "dismissed", "resolved"} : s = IF back THEN "open" ELSE r.status BY RowShape
<1>3. PICK u \in 0 .. MaxDay + 1 : u = IF r.status = "snoozed" /\ SnoozeOver(r) THEN 0 ELSE r.until BY RowShape, <1>1
<1>4. Raised(r) = [r EXCEPT !.version = r.version + 1, !.status = s, !.until = u] BY <1>2, <1>3 DEF Raised
<1>5. Raised(r) \in Row BY <1>1, <1>4 DEF Row
<1>6. /\ Raised(r).version = r.version + 1 /\ Raised(r).status = s /\ Raised(r).until = u
      /\ Raised(r).sev = r.sev /\ Raised(r).meas = r.meas /\ Raised(r).dsev = r.dsev /\ Raised(r).dmeas = r.dmeas
  BY <1>4 DEF Row
<1> QED BY <1>2, <1>3, <1>5, <1>6

\* The row of a fingerprint moves: it is left alone, or gets its next version.
Moved(f) == row'[f] = row[f] \/ row'[f].version = row[f].version + 1

LEMMA TabsStay ==
  ASSUME InboxInv, InboxTypeOK', \A f \in Fingerprints : Moved(f), \A t \in Tabs : tab'[t] = tab[t] \/ tab'[t] = NoTab
  PROVE  \A t \in Tabs : TabKnown(t)'
<1> SUFFICES ASSUME NEW t \in Tabs, tab'[t] # NoTab PROVE TabKnown(t)' BY DEF TabKnown
<1>1. tab'[t] = tab[t] /\ tab[t] \in TabRow BY DEF InboxInv, InboxTypeOK
<1>2. tab[t].fp \in Fingerprints /\ tab[t].version \in Nat BY <1>1 DEF TabRow
<1>3. row[tab[t].fp] \in Row BY <1>2 DEF InboxInv, InboxTypeOK
<1>4. row[tab[t].fp].version \in Nat BY <1>3, RowShape
<1>5. TabKnown(t) BY DEF InboxInv
<1> QED BY <1>1, <1>2, <1>4, <1>5 DEF TabKnown, Moved

\* Fingerprints of issues and of alerts are two.
LEMMA TwoKinds == \A f \in Issues : f \notin Alerts /\ f \in Fingerprints
  BY InboxAssumption DEF Fingerprints
LEMMA AlertsHaveRows == \A a \in Alerts : a \notin Issues /\ a \in Fingerprints
  BY InboxAssumption DEF Fingerprints

-----------------------------------------------------------------------------

LEMMA InitInboxInv == IInit => InboxInv
<1> SUFFICES ASSUME IInit PROVE InboxInv OBVIOUS
<1>1. Absent \in Row
  <2>1. (CHOOSE x \in Measures : TRUE) \in Measures BY InboxAssumption
  <2>2. 0 \in 0 .. MaxDay + 1 BY InboxAssumption
  <2> QED BY <2>1, <2>2, InboxAssumption DEF Absent, Row
<1>2. \A f \in Fingerprints : row[f] = Absent BY DEF IInit
<1>3. Absent.status = "resolved" /\ Absent.version = 0 BY DEF Absent
<1>4. InboxTypeOK
  <2>1. row \in [Fingerprints -> Row] BY <1>1 DEF IInit
  <2>2. tab \in [Tabs -> {NoTab} \cup TabRow] /\ eval \in [Evaluators -> {Resting} \cup Judgement] BY DEF IInit
  <2>3. alert \in [Alerts -> [exists : BOOLEAN, triggered : BOOLEAN]] BY DEF IInit
  <2>4. removal \in [Alerts -> {"none", "cleared", "nothing", "done"}] BY DEF IInit
  <2>5. agreed \in [Fingerprints -> [sev : Int, meas : Int]] BY DEF IInit
  <2>6. day = 0 /\ published = [issues |-> {}, day |-> 0] /\ touched = {} /\ crossed = FALSE BY DEF IInit
  <2>7. 0 \in 0 .. MaxDay BY InboxAssumption
  <2>8. published \in [issues : SUBSET Issues, day : 0 .. MaxDay] /\ published.day <= day BY <2>6, <2>7
  <2>9. crossed \in BOOLEAN BY <2>6
  <2> QED BY <2>1, <2>2, <2>3, <2>4, <2>5, <2>6, <2>7, <2>8, <2>9 DEF InboxTypeOK
<1>5. \A f \in Fingerprints : RowKnown(f) /\ Dismissal(f) BY <1>2, <1>3 DEF RowKnown, Dismissal
<1>6. \A t \in Tabs : TabKnown(t) BY DEF IInit, TabKnown
<1>7. \A f \in Issues : Follows(f) BY <1>2, <1>3, TwoKinds DEF IInit, Follows, Active
<1>8. Removals BY DEF IInit, Removals
<1>9. \A a \in Alerts : Alone(a) BY DEF IInit, Alone, EvaluatesOf
<1>10. \A a \in Alerts : Owns(a) BY DEF IInit, Owns
<1> QED BY <1>4, <1>5, <1>6, <1>7, <1>8, <1>9, <1>10 DEF InboxInv, Uncrossed

-----------------------------------------------------------------------------
(* The steps. *)

LEMMA NextDayKeeps ==
  ASSUME InboxInv, NextDay
  PROVE  InboxInv'
<1>1. /\ day' = day + 1 /\ day < MaxDay
      /\ UNCHANGED <<row, tab, alert, eval, removal, published, agreed, touched, crossed>>
  BY DEF NextDay
<1>2. day \in 0 .. MaxDay /\ published \in [issues : SUBSET Issues, day : 0 .. MaxDay] /\ published.day <= day
  BY DEF InboxInv, InboxTypeOK
<1>3. day' \in 0 .. MaxDay /\ published.day <= day'
  BY <1>1, <1>2, InboxAssumption
<1>4. InboxTypeOK' BY <1>1, <1>3 DEF InboxInv, InboxTypeOK
<1> QED BY <1>1, <1>4 DEF InboxInv, RowKnown, Dismissal, TabKnown, Follows, Exists, Removals, Uncrossed, Alone, Owns, EvaluatesOf

LEMMA ReviewKeeps ==
  ASSUME InboxInv, NEW fs \in SUBSET Issues, NEW out \in [fs -> Shown], Review(out)
  PROVE  InboxInv'
<1>1. /\ row' = [f \in Fingerprints |-> IF f \in fs THEN Seen(row[f], out[f]) ELSE Gone(f)]
      /\ published' = [issues |-> fs, day |-> day] /\ touched' = touched \ Issues
      /\ UNCHANGED <<day, tab, alert, eval, removal, agreed, crossed>>
  BY DEF Review
<1>2. \A f \in Fingerprints : row[f] \in Row BY DEF InboxInv, InboxTypeOK
<1>3. \A f \in fs : f \in Issues /\ f \in Fingerprints /\ out[f] \in Shown /\ row'[f] = Seen(row[f], out[f])
  BY <1>1, TwoKinds
<1>4. \A f \in Fingerprints : f \notin fs =>
        \/ row'[f] = row[f] /\ (f \in Issues => ~Exists(f) \/ row[f].status \notin Active)
        \/ row'[f] = Closed(row[f]) /\ row[f].status \in Active /\ f \in Issues
  BY <1>1 DEF Gone, Closed, ResolvedByReviews
<1>5. \A f \in Fingerprints : row'[f] \in Row
  BY <1>2, <1>3, <1>4, SeenRow, ClosedRow
<1>6. \A a \in Alerts : row'[a] = row[a]
  BY <1>4, AlertsHaveRows
<1>7. InboxTypeOK'
  <2>1. row' \in [Fingerprints -> Row] BY <1>1, <1>5
  <2>2. published' \in [issues : SUBSET Issues, day : 0 .. MaxDay] /\ published'.day <= day'
    BY <1>1 DEF InboxInv, InboxTypeOK
  <2> QED BY <2>1, <2>2, <1>1 DEF InboxInv, InboxTypeOK
<1>8. \A f \in Fingerprints : Moved(f) BY <1>2, <1>3, <1>4, SeenRow, ClosedRow DEF Moved
<1>9. \A t \in Tabs : TabKnown(t)' BY <1>1, <1>7, <1>8, TabsStay
<1>10. ASSUME NEW f \in Fingerprints PROVE RowKnown(f)' /\ Dismissal(f)'
  <2>1. RowKnown(f) /\ Dismissal(f) /\ row[f].version \in Nat /\ agreed'[f] = agreed[f]
    BY <1>1, <1>2, RowShape DEF InboxInv
  <2>2. CASE f \in fs
    <3> DEFINE s == Seen(row[f], out[f])
    <3>1. row'[f] = s /\ row[f] \in Row /\ out[f] \in Shown BY <2>2, <1>2, <1>3
    <3>2. s.version # 0 BY <2>1, <3>1, SeenRow
    <3>3. s.status = "snoozed" => row[f].status = "snoozed" /\ s.until = row[f].until BY <3>1, SeenRow
    <3>4. s.status = "dismissed" =>
            /\ row[f].status = "dismissed" /\ ~Material(row[f], out[f].sev, out[f].meas)
            /\ s.sev = out[f].sev /\ s.meas = out[f].meas /\ s.dsev = row[f].dsev /\ s.dmeas = row[f].dmeas
      BY <3>1, SeenRow
    <3>5. RowKnown(f)' BY <2>1, <3>1, <3>2, <3>3 DEF RowKnown
    <3>6. /\ out[f].sev \in Int /\ out[f].meas \in Int /\ row[f].dsev \in Int /\ row[f].dmeas \in Int /\ Growth \in Int
      <4>1. out[f].sev \in Severities /\ out[f].meas \in Measures BY <3>1 DEF Shown
      <4> QED BY <4>1, <3>1, RowShape, InboxNumbers
    <3>7. Dismissal(f)' BY <2>1, <3>1, <3>4, <3>6 DEF Dismissal, Material
    <3> QED BY <3>5, <3>7
  <2>3. CASE f \notin fs /\ row'[f] = row[f] BY <2>1, <2>3 DEF RowKnown, Dismissal
  <2>4. CASE f \notin fs /\ row'[f] = Closed(row[f])
    <3>1. row'[f].status = "resolved" BY <2>4, <1>2, ClosedRow
    <3> QED BY <3>1 DEF RowKnown, Dismissal
  <2> QED BY <2>2, <2>3, <2>4, <1>4
<1>11. ASSUME NEW f \in Issues PROVE Follows(f)'
  <2>1. f \in Fingerprints /\ row[f] \in Row BY <1>2, TwoKinds
  <2>2. CASE f \in fs
    <3> DEFINE s == Seen(row[f], out[f])
    <3>1. row'[f] = s /\ out[f] \in Shown BY <2>2, <1>3
    <3>2. s.version > 0 BY <2>1, <3>1, SeenRow, RowShape
    <3>3. s.status # "resolved" BY <2>1, <3>1, SeenRow
    <3>4. s.status = "snoozed" => s.until > day
      <4>1. s.status = "snoozed" => ~SnoozeOver(row[f]) /\ s.until = row[f].until BY <2>1, <3>1, SeenRow
      <4>2. row[f].until \in Int /\ day \in Int BY <2>1, RowShape DEF InboxInv, InboxTypeOK
      <4> QED BY <4>1, <4>2 DEF SnoozeOver
    <3> QED BY <2>2, <3>1, <3>2, <3>3, <3>4, <1>1 DEF Follows, Exists
  <2>3. CASE f \notin fs
    <3>1. row'[f].status \notin Active
      <4>1. row'[f] = row[f] /\ ~Exists(f) => row[f].status = "resolved"
        BY <2>1, RowShape DEF InboxInv, RowKnown, Exists
      <4> QED BY <2>1, <2>3, <4>1, <1>4, ClosedRow DEF Active
    <3> QED BY <2>3, <3>1, <1>1 DEF Follows
  <2> QED BY <2>2, <2>3
<1>12. Removals' BY <1>1 DEF InboxInv, Removals
<1>13. Uncrossed'
  <2> SUFFICES ASSUME ~crossed, NEW a \in Alerts PROVE Alone(a)' /\ Owns(a)' BY <1>1 DEF Uncrossed
  <2>1. Alone(a) /\ Owns(a) BY DEF InboxInv, Uncrossed
  <2>2. row'[a] = row[a] /\ (a \in touched => a \in touched') BY <1>1, <1>6, AlertsHaveRows
  <2> QED BY <2>1, <2>2, <1>1 DEF Alone, Owns, Exists, EvaluatesOf
<1> QED BY <1>7, <1>9, <1>10, <1>11, <1>12, <1>13 DEF InboxInv

LEMMA ShowKeeps ==
  ASSUME InboxInv, NEW t \in Tabs, NEW f \in Fingerprints, Show(t, f)
  PROVE  InboxInv'
<1> DEFINE x == [fp |-> f, version |-> row[f].version, sev |-> row[f].sev, meas |-> row[f].meas]
<1>1. /\ Exists(f) /\ tab' = [tab EXCEPT ![t] = x]
      /\ UNCHANGED <<row, day, alert, eval, removal, published, agreed, touched, crossed>>
  BY DEF Show
<1>2. row[f] \in Row BY DEF InboxInv, InboxTypeOK
<1>3. x \in TabRow /\ x.version >= 1 BY <1>1, <1>2, RowShape DEF TabRow, Exists
<1>4. InboxTypeOK' BY <1>1, <1>3 DEF InboxInv, InboxTypeOK
<1>5. ASSUME NEW u \in Tabs PROVE TabKnown(u)'
  <2>1. CASE u = t
    <3>1. tab'[u] = x BY <2>1, <1>1 DEF InboxInv, InboxTypeOK
    <3> QED BY <3>1, <1>1, <1>2, <1>3, RowShape DEF TabKnown
  <2>2. CASE u # t
    <3>1. tab'[u] = tab[u] BY <2>2, <1>1 DEF InboxInv, InboxTypeOK
    <3> QED BY <3>1, <1>1 DEF InboxInv, TabKnown
  <2> QED BY <2>1, <2>2
<1> QED BY <1>1, <1>4, <1>5
  DEF InboxInv, RowKnown, Dismissal, Follows, Exists, Removals, Uncrossed, Alone, Owns, EvaluatesOf

\* What an answer of the owner to row f makes of it, and what it leaves alone.
LEMMA AnswerKeeps ==
  ASSUME InboxInv, NEW t \in Tabs, CanAnswer(t), NEW new \in Row,
         new.version = row[tab[t].fp].version, new.sev = row[tab[t].fp].sev, new.meas = row[tab[t].fp].meas,
         Answer(t, new), UNCHANGED <<day, alert, eval, removal, published, crossed>>,
         new.status \in {"open", "snoozed", "dismissed"}, new.status = "snoozed" => new.until > day,
         touched' = IF new.status = "dismissed" THEN touched ELSE touched \cup {tab[t].fp},
         IF new.status = "dismissed"
         THEN /\ agreed' = [agreed EXCEPT ![tab[t].fp] = [sev |-> tab[t].sev, meas |-> tab[t].meas]]
              /\ new.dsev = new.sev /\ new.dmeas = new.meas
         ELSE UNCHANGED agreed
  PROVE  InboxInv'
<1> DEFINE n == [new EXCEPT !.version = @ + 1]
<1>1. PICK f : f = tab[t].fp OBVIOUS
<1>2. tab[t] \in TabRow /\ tab[t] # NoTab BY DEF CanAnswer, InboxInv, InboxTypeOK
<1>3. f \in Fingerprints /\ row[f] \in Row BY <1>1, <1>2 DEF TabRow, InboxInv, InboxTypeOK
<1>4. row' = [row EXCEPT ![f] = n] /\ tab' = [tab EXCEPT ![t] = NoTab] BY <1>1 DEF Answer
<1>5. /\ n \in Row /\ n.version = row[f].version + 1 /\ n.sev = row[f].sev /\ n.meas = row[f].meas /\ n.status = new.status
      /\ n.until = new.until /\ n.dsev = new.dsev /\ n.dmeas = new.dmeas
  BY <1>1 DEF Row
<1>6. row'[f] = n /\ \A g \in Fingerprints : g # f => row'[g] = row[g]
  BY <1>3, <1>4 DEF InboxInv, InboxTypeOK
<1>7. row[f].version \in Nat /\ row[f].version > 0 /\ tab[t].sev = row[f].sev /\ tab[t].meas = row[f].meas
  <2>1. TabKnown(t) /\ row[f].version = tab[t].version BY <1>1 DEF CanAnswer, ExpectedVersion, InboxInv
  <2>2. row[f].version \in Nat BY <1>3, RowShape
  <2> QED BY <1>1, <1>2, <2>1, <2>2 DEF TabKnown
<1>8. InboxTypeOK'
  <2>1. row' \in [Fingerprints -> Row] BY <1>4, <1>5 DEF InboxInv, InboxTypeOK
  <2>2. tab' \in [Tabs -> {NoTab} \cup TabRow] BY <1>4 DEF InboxInv, InboxTypeOK
  <2>3. agreed' \in [Fingerprints -> [sev : Int, meas : Int]]
    BY <1>1, <1>3, <1>7, RowShape DEF InboxInv, InboxTypeOK
  <2>4. touched' \subseteq Fingerprints BY <1>1, <1>3 DEF InboxInv, InboxTypeOK
  <2> QED BY <2>1, <2>2, <2>3, <2>4 DEF InboxInv, InboxTypeOK
<1>9. \A g \in Fingerprints : Moved(g) BY <1>5, <1>6 DEF Moved
<1>10. \A u \in Tabs : tab'[u] = tab[u] \/ tab'[u] = NoTab BY <1>4 DEF InboxInv, InboxTypeOK
<1>11. \A u \in Tabs : TabKnown(u)' BY <1>8, <1>9, <1>10, TabsStay
<1>12. ASSUME NEW g \in Fingerprints PROVE RowKnown(g)' /\ Dismissal(g)'
  <2>1. CASE g = f
    <3>1. day \in Nat BY DEF InboxInv, InboxTypeOK
    <3>2. n.until \in Int BY <1>5, RowShape
    <3>3. RowKnown(g)' BY <2>1, <3>1, <3>2, <1>5, <1>6, <1>7 DEF RowKnown
    <3>4. n.status = "dismissed" => agreed'[f] = [sev |-> row[f].sev, meas |-> row[f].meas]
      BY <1>1, <1>3, <1>5, <1>7 DEF InboxInv, InboxTypeOK
    <3>5. n.meas \in Int /\ n.sev \in Int /\ n.meas < n.meas + Growth BY <1>5, RowShape, InboxAssumption
    <3>6. Dismissal(g)' BY <2>1, <3>4, <3>5, <1>5, <1>6 DEF Dismissal
    <3> QED BY <3>3, <3>6
  <2>2. CASE g # f
    <3>1. row'[g] = row[g] /\ agreed'[g] = agreed[g] BY <2>2, <1>1, <1>6 DEF InboxInv, InboxTypeOK
    <3> QED BY <3>1 DEF InboxInv, RowKnown, Dismissal
  <2> QED BY <2>1, <2>2
<1>13. ASSUME NEW g \in Issues PROVE Follows(g)'
  <2>1. g \in Fingerprints /\ Follows(g) BY TwoKinds DEF InboxInv
  <2>2. CASE g = f
    <3>1. day \in Int /\ published.day \in Int /\ published.day <= day BY DEF InboxInv, InboxTypeOK
    <3>2. n.until \in Int BY <1>5, RowShape
    <3>3. n.status = "snoozed" => n.until > published.day BY <3>1, <3>2, <1>5
    <3>4. n.status \in Active => f \in touched' BY <1>1, <1>5 DEF Active
    <3>5. n.status # "resolved" /\ n.version > 0 BY <1>5, <1>7
    <3> QED BY <2>2, <3>3, <3>4, <3>5, <1>6 DEF Follows, Exists
  <2>3. CASE g # f
    <3>1. row'[g] = row[g] /\ (g \in touched => g \in touched') BY <2>1, <2>3, <1>6
    <3> QED BY <2>1, <3>1 DEF Follows, Exists
  <2> QED BY <2>2, <2>3
<1>14. Removals' BY DEF InboxInv, Removals
<1>15. Uncrossed'
  <2> SUFFICES ASSUME ~crossed, NEW a \in Alerts PROVE Alone(a)' /\ Owns(a)' BY DEF Uncrossed
  <2>1. Alone(a) /\ Owns(a) /\ a \in Fingerprints BY AlertsHaveRows DEF InboxInv, Uncrossed
  <2>2. Exists(a) <=> Exists(a)'
    <3>1. row'[a] = row[a] \/ (a = f /\ row'[a].version = row[f].version + 1) BY <2>1, <1>5, <1>6
    <3> QED BY <3>1, <1>7 DEF Exists
  <2>3. Alone(a)' BY <2>1, <2>2 DEF Alone, EvaluatesOf
  <2>4. CASE a = f
    <3>1. row'[a].status # "resolved" BY <2>4, <1>5, <1>6
    <3>2. row'[a].status \in Active => a \in touched' BY <2>4, <1>1, <1>5, <1>6 DEF Active
    <3>3. Exists(a)' BY <2>2, <2>4, <1>7 DEF Exists
    <3> QED BY <2>3, <3>1, <3>2, <3>3 DEF Owns
  <2>5. CASE a # f
    <3>1. row'[a] = row[a] /\ (a \in touched => a \in touched') BY <2>1, <2>5, <1>6
    <3>2. Owns(a)' BY <2>1, <3>1 DEF Owns, Exists
    <3> QED BY <2>3, <3>2
  <2> QED BY <2>4, <2>5
<1> QED BY <1>8, <1>11, <1>12, <1>13, <1>14, <1>15 DEF InboxInv

LEMMA OwnerKeeps ==
  ASSUME InboxInv, NEW t \in Tabs, Dismiss(t) \/ Reopen(t) \/ \E until \in 1 .. MaxDay + 1 : Snooze(t, until)
  PROVE  InboxInv'
<1> DEFINE r == row[tab[t].fp]
<1>1. CanAnswer(t) /\ UNCHANGED <<day, alert, eval, removal, published, crossed>>
  BY DEF Dismiss, Reopen, Snooze, Answer
<1>2. r \in Row BY <1>1 DEF CanAnswer, InboxInv, InboxTypeOK, TabRow
<1>3. CASE Dismiss(t)
  <2> DEFINE new == [r EXCEPT !.status = "dismissed", !.dsev = r.sev, !.dmeas = r.meas, !.until = 0]
  <2>1. 0 \in 0 .. MaxDay + 1 BY InboxAssumption
  <2>2. /\ new \in Row /\ new.version = r.version /\ new.sev = r.sev /\ new.meas = r.meas
        /\ new.status = "dismissed" /\ new.dsev = new.sev /\ new.dmeas = new.meas
    BY <2>1, <1>2 DEF Row
  <2>3. Answer(t, new) /\ UNCHANGED touched /\ agreed' = [agreed EXCEPT ![tab[t].fp] = [sev |-> tab[t].sev, meas |-> tab[t].meas]]
    BY <1>3 DEF Dismiss
  <2> HIDE DEF new
  <2> QED BY <2>2, <2>3, <1>1, AnswerKeeps
<1>4. CASE Reopen(t)
  <2> DEFINE new == [r EXCEPT !.status = "open", !.until = 0]
  <2>1. 0 \in 0 .. MaxDay + 1 BY InboxAssumption
  <2>2. new \in Row /\ new.version = r.version /\ new.sev = r.sev /\ new.meas = r.meas /\ new.status = "open"
    BY <2>1, <1>2 DEF Row
  <2>3. Answer(t, new) /\ UNCHANGED agreed /\ touched' = touched \cup {tab[t].fp} BY <1>4 DEF Reopen
  <2> HIDE DEF new
  <2> QED BY <2>2, <2>3, <1>1, AnswerKeeps
<1>5. ASSUME NEW until \in 1 .. MaxDay + 1, Snooze(t, until) PROVE InboxInv'
  <2> DEFINE new == [r EXCEPT !.status = "snoozed", !.until = until]
  <2>1. until \in 0 .. MaxDay + 1 BY InboxAssumption
  <2>2. /\ new \in Row /\ new.version = r.version /\ new.sev = r.sev /\ new.meas = r.meas
        /\ new.status = "snoozed" /\ new.until = until
    BY <2>1, <1>2 DEF Row
  <2>3. Answer(t, new) /\ UNCHANGED agreed /\ touched' = touched \cup {tab[t].fp} /\ until > day BY <1>5 DEF Snooze
  <2> HIDE DEF new
  <2> QED BY <2>2, <2>3, <1>1, AnswerKeeps
<1> QED BY <1>3, <1>4, <1>5

LEMMA EvalStartKeeps ==
  ASSUME InboxInv, NEW e \in Evaluators, NEW a \in Alerts, NEW met \in BOOLEAN, EvalStart(e, a, met)
  PROVE  InboxInv'
<1> DEFINE acts == met \/ alert[a].triggered
           x == [at |-> "judged", alert |-> a, met |-> met, locks |-> acts]
<1>1. /\ eval[e] = Resting /\ alert[a].exists /\ eval' = [eval EXCEPT ![e] = x]
      /\ crossed' = (crossed \/ Busy(a))
      /\ UNCHANGED <<row, day, tab, alert, removal, published, agreed, touched>>
  BY DEF EvalStart
<1>2. acts \in BOOLEAN OBVIOUS
<1>3. x \in Judgement
  <2> HIDE DEF acts
  <2> QED BY <1>2 DEF Judgement
<1>4. InboxTypeOK' BY <1>1, <1>3 DEF InboxInv, InboxTypeOK
<1>5. Uncrossed'
  <2> SUFFICES ASSUME ~crossed', NEW b \in Alerts PROVE Alone(b)' /\ Owns(b)' BY DEF Uncrossed
  <2>1. ~crossed /\ ~Busy(a) BY <1>1
  <2>2. Alone(b) /\ Owns(b) BY <2>1 DEF InboxInv, Uncrossed
  <2>3. Owns(b)' BY <2>2, <1>1 DEF Owns, Exists
  <2>4. \A k \in Evaluators : k # e => eval'[k] = eval[k] BY <1>1 DEF InboxInv, InboxTypeOK
  <2>5. eval'[e] = x BY <1>1 DEF InboxInv, InboxTypeOK
  <2>6. x.alert = a /\ x.met = met /\ (x.locks <=> acts) BY Zenon
  <2>7. CASE b # a
    <3>1. \A k \in Evaluators : EvaluatesOf(k, b)' => EvaluatesOf(k, b) /\ eval'[k] = eval[k]
      BY <2>4, <2>5, <2>6, <2>7 DEF EvaluatesOf
    <3> QED BY <2>2, <2>3, <3>1, <1>1 DEF Alone, Exists
  <2>8. CASE b = a
    <3>1. \A k \in Evaluators : ~EvaluatesOf(k, a) /\ removal[a] \notin {"cleared", "nothing"} BY <2>1 DEF Busy, EvaluatesOf
    <3>2. removal[a] = "none" BY <3>1, <1>1 DEF InboxInv, InboxTypeOK, Removals
    <3>3. \A k \in Evaluators : EvaluatesOf(k, a)' => k = e BY <3>1, <2>4 DEF EvaluatesOf
    <3>4. eval'[e].locks <=> (eval'[e].met \/ alert'[a].triggered) BY <2>5, <2>6, <1>1
    <3> QED BY <2>3, <2>8, <3>2, <3>3, <3>4, <1>1 DEF Alone
  <2> QED BY <2>7, <2>8
<1> QED BY <1>1, <1>4, <1>5 DEF InboxInv, RowKnown, Dismissal, TabKnown, Follows, Exists, Removals

\* An evaluation that commits raises or clears the issue of its alert, and no other row.
LEMMA EvalCommitKeeps ==
  ASSUME InboxInv, NEW e \in Evaluators, EvalCommit(e)
  PROVE  InboxInv'
<1>1. eval[e] \in Judgement /\ eval[e] # Resting BY DEF EvalCommit, InboxInv, InboxTypeOK
<1>2. PICK a \in Alerts : a = eval[e].alert BY <1>1 DEF Judgement
<1> DEFINE n == IF eval[e].met THEN Raised(row[a]) ELSE Cleared(row[a])
<1>3. a \in Fingerprints /\ a \notin Issues /\ row[a] \in Row BY AlertsHaveRows DEF InboxInv, InboxTypeOK
<1>4. /\ row' = [row EXCEPT ![a] = n]
      /\ alert' = IF eval[e].locks THEN [alert EXCEPT ![a].triggered = eval[e].met] ELSE alert
      /\ eval' = [eval EXCEPT ![e] = Resting]
      /\ UNCHANGED <<day, tab, removal, published, agreed, touched, crossed>>
  BY <1>2 DEF EvalCommit
<1>5. ~eval[e].met => n = row[a] \/ n = Closed(row[a])
  BY DEF Cleared, Closed
<1>6. n \in Row /\ (n = row[a] \/ n.version = row[a].version + 1)
  BY <1>3, <1>5, RaisedRow, ClosedRow
<1>7. row'[a] = n /\ \A g \in Fingerprints : g # a => row'[g] = row[g] BY <1>3, <1>4 DEF InboxInv, InboxTypeOK
<1>8. \A b \in Alerts : alert'[b].exists = alert[b].exists /\ (b # a => alert'[b] = alert[b])
  BY <1>4 DEF InboxInv, InboxTypeOK
<1>9. InboxTypeOK'
  <2>1. row' \in [Fingerprints -> Row] BY <1>4, <1>6 DEF InboxInv, InboxTypeOK
  <2>2. eval[e].met \in BOOLEAN BY <1>1 DEF Judgement
  <2>3. alert' \in [Alerts -> [exists : BOOLEAN, triggered : BOOLEAN]] BY <2>2, <1>4 DEF InboxInv, InboxTypeOK
  <2>4. eval' \in [Evaluators -> {Resting} \cup Judgement] BY <1>4 DEF InboxInv, InboxTypeOK
  <2> QED BY <2>1, <2>3, <2>4, <1>4 DEF InboxInv, InboxTypeOK
<1>10. \A g \in Fingerprints : Moved(g) BY <1>6, <1>7 DEF Moved
<1>11. \A t \in Tabs : TabKnown(t)' BY <1>4, <1>9, <1>10, TabsStay
<1>12. ASSUME NEW g \in Fingerprints PROVE RowKnown(g)' /\ Dismissal(g)'
  <2>1. RowKnown(g) /\ Dismissal(g) /\ agreed'[g] = agreed[g] BY <1>4 DEF InboxInv
  <2>2. CASE g # a BY <2>1, <2>2, <1>7 DEF RowKnown, Dismissal
  <2>3. CASE g = a
    <3>1. row[a].version \in Nat BY <1>3, RowShape
    <3>2. CASE eval[e].met
      <4>1. n = Raised(row[a]) BY <3>2
      <4> QED BY <2>1, <2>3, <3>1, <4>1, <1>3, <1>7, RaisedRow DEF RowKnown, Dismissal
    <3>3. CASE n = row[a] BY <2>1, <2>3, <3>3, <1>7 DEF RowKnown, Dismissal
    <3>4. CASE n = Closed(row[a])
      <4>1. n.status = "resolved" BY <3>4, <1>3, ClosedRow
      <4> QED BY <2>3, <4>1, <1>7 DEF RowKnown, Dismissal
    <3> QED BY <3>2, <3>3, <3>4, <1>5
  <2> QED BY <2>2, <2>3
<1>13. ASSUME NEW g \in Issues PROVE Follows(g)'
  <2>1. g \in Fingerprints /\ g # a BY <1>3, TwoKinds
  <2> QED BY <2>1, <1>4, <1>7 DEF InboxInv, Follows, Exists
<1>14. Removals' BY <1>4, <1>8 DEF InboxInv, Removals
<1>15. Uncrossed'
  <2> SUFFICES ASSUME ~crossed, NEW b \in Alerts PROVE Alone(b)' /\ Owns(b)' BY <1>4 DEF Uncrossed
  <2>1. Alone(b) /\ Owns(b) /\ b \in Fingerprints BY AlertsHaveRows DEF InboxInv, Uncrossed
  <2>2. \A k \in Evaluators : EvaluatesOf(k, b)' => EvaluatesOf(k, b) /\ eval'[k] = eval[k] /\ k # e
    BY <1>4 DEF EvaluatesOf, InboxInv, InboxTypeOK
  <2>3. CASE b # a
    <3>1. row'[b] = row[b] /\ alert'[b] = alert[b] BY <2>1, <2>3, <1>7, <1>8
    <3> QED BY <2>1, <2>2, <3>1, <1>4 DEF Alone, Owns, Exists
  <2>4. CASE b = a
    <3>1. EvaluatesOf(e, a) BY <1>1, <1>2 DEF EvaluatesOf
    <3>2. /\ removal[a] = "none" /\ (eval[e].locks <=> (eval[e].met \/ alert[a].triggered))
          /\ \A k \in Evaluators : ~EvaluatesOf(k, a)'
      BY <2>1, <2>2, <2>4, <3>1 DEF Alone
    <3>3. Alone(b)' BY <2>4, <3>2, <1>4 DEF Alone
    <3>4. alert[a].exists BY <3>2 DEF InboxInv, Removals
    <3>5. alert'[a].triggered <=> eval[e].met
      <4>1. CASE eval[e].locks
        <5>1. alert' = [alert EXCEPT ![a].triggered = eval[e].met] BY <4>1, <1>4
        <5> QED BY <5>1 DEF InboxInv, InboxTypeOK
      <4>2. CASE ~eval[e].locks BY <4>2, <3>2, <1>4
      <4> QED BY <4>1, <4>2
    <3>6. eval[e].met => row'[a].version > 0 /\ row'[a].status # "resolved"
      <4>1. row[a].version \in Nat BY <1>3, RowShape
      <4> QED BY <4>1, <1>3, <1>7, RaisedRow
    <3>7. Owns(b)' BY <2>4, <3>4, <3>5, <3>6, <1>8 DEF Owns, Exists
    <3> QED BY <3>3, <3>7
  <2> QED BY <2>3, <2>4
<1> QED BY <1>9, <1>11, <1>12, <1>13, <1>14, <1>15 DEF InboxInv

LEMMA RemoveClearKeeps ==
  ASSUME InboxInv, NEW a \in Alerts, RemoveClear(a)
  PROVE  InboxInv'
<1>1. /\ removal[a] = "none" /\ alert[a].exists
      /\ removal' = [removal EXCEPT ![a] = IF Exists(a) THEN "cleared" ELSE "nothing"]
      /\ crossed' = (crossed \/ Busy(a))
      /\ UNCHANGED <<row, day, tab, alert, eval, published, agreed, touched>>
  BY DEF RemoveClear
<1>2. InboxTypeOK' BY <1>1 DEF InboxInv, InboxTypeOK
<1>3. Removals' BY <1>1 DEF InboxInv, InboxTypeOK, Removals
<1>4. Uncrossed'
  <2> SUFFICES ASSUME ~crossed', NEW b \in Alerts PROVE Alone(b)' /\ Owns(b)' BY DEF Uncrossed
  <2>1. ~crossed /\ ~Busy(a) BY <1>1
  <2>2. Alone(b) /\ Owns(b) BY <2>1 DEF InboxInv, Uncrossed
  <2>3. \A k \in Evaluators : ~EvaluatesOf(k, a) BY <2>1 DEF Busy, EvaluatesOf
  <2>4. b # a => removal'[b] = removal[b] BY <1>1 DEF InboxInv, InboxTypeOK
  <2>5. removal'[a] = "nothing" => ~Exists(a) BY <1>1 DEF InboxInv, InboxTypeOK
  <2> QED BY <2>2, <2>3, <2>4, <2>5, <1>1 DEF Alone, Owns, Exists, EvaluatesOf
<1> QED BY <1>1, <1>2, <1>3, <1>4 DEF InboxInv, RowKnown, Dismissal, TabKnown, Follows, Exists

\* The removal of an alert resolves its issue; one that found none still finds none.
LEMMA RemoveDeleteKeeps ==
  ASSUME InboxInv, NEW a \in Alerts, RemoveDelete(a)
  PROVE  InboxInv'
<1> DEFINE n == IF removal[a] = "cleared" THEN Cleared(row[a]) ELSE row[a]
<1>1. /\ removal[a] \in {"cleared", "nothing"}
      /\ alert' = [alert EXCEPT ![a] = [exists |-> FALSE, triggered |-> FALSE]]
      /\ removal' = [removal EXCEPT ![a] = "done"]
      /\ UNCHANGED <<day, tab, eval, published, agreed, touched, crossed>>
  BY DEF RemoveDelete
<1>2. a \in Fingerprints /\ a \notin Issues /\ row[a] \in Row BY AlertsHaveRows DEF InboxInv, InboxTypeOK
<1>3. row' = [row EXCEPT ![a] = n] BY <1>2 DEF RemoveDelete, InboxInv, InboxTypeOK
<1>4. n = row[a] \/ (n = Closed(row[a]) /\ row[a].status \in Active) BY DEF Cleared, Closed
<1>5. n \in Row /\ (n = row[a] \/ n.version = row[a].version + 1) BY <1>2, <1>4, ClosedRow
<1>6. row'[a] = n /\ \A g \in Fingerprints : g # a => row'[g] = row[g] BY <1>2, <1>3 DEF InboxInv, InboxTypeOK
<1>7. /\ alert'[a] = [exists |-> FALSE, triggered |-> FALSE] /\ removal'[a] = "done"
      /\ \A b \in Alerts : b # a => alert'[b] = alert[b] /\ removal'[b] = removal[b]
  BY <1>1 DEF InboxInv, InboxTypeOK
<1>8. InboxTypeOK'
  <2>1. row' \in [Fingerprints -> Row] BY <1>3, <1>5 DEF InboxInv, InboxTypeOK
  <2>2. alert' \in [Alerts -> [exists : BOOLEAN, triggered : BOOLEAN]] BY <1>1 DEF InboxInv, InboxTypeOK
  <2>3. removal' \in [Alerts -> {"none", "cleared", "nothing", "done"}] BY <1>1 DEF InboxInv, InboxTypeOK
  <2> QED BY <2>1, <2>2, <2>3, <1>1 DEF InboxInv, InboxTypeOK
<1>9. \A g \in Fingerprints : Moved(g) BY <1>5, <1>6 DEF Moved
<1>10. \A t \in Tabs : TabKnown(t)' BY <1>1, <1>8, <1>9, TabsStay
<1>11. ASSUME NEW g \in Fingerprints PROVE RowKnown(g)' /\ Dismissal(g)'
  <2>1. RowKnown(g) /\ Dismissal(g) /\ agreed'[g] = agreed[g] BY <1>1 DEF InboxInv
  <2>2. row'[g] = row[g] \/ row'[g].status = "resolved" BY <1>2, <1>4, <1>6, ClosedRow
  <2> QED BY <2>1, <2>2 DEF RowKnown, Dismissal
<1>12. ASSUME NEW g \in Issues PROVE Follows(g)'
  <2>1. g \in Fingerprints /\ g # a BY <1>2, TwoKinds
  <2> QED BY <2>1, <1>1, <1>6 DEF InboxInv, Follows, Exists
<1>13. Removals' BY <1>7 DEF InboxInv, Removals
<1>14. Uncrossed'
  <2> SUFFICES ASSUME ~crossed, NEW b \in Alerts PROVE Alone(b)' /\ Owns(b)' BY <1>1 DEF Uncrossed
  <2>1. Alone(b) /\ Owns(b) /\ b \in Fingerprints BY AlertsHaveRows DEF InboxInv, Uncrossed
  <2>2. CASE b # a
    <3>1. row'[b] = row[b] /\ alert'[b] = alert[b] /\ removal'[b] = removal[b] BY <2>1, <2>2, <1>6, <1>7
    <3> QED BY <2>1, <3>1, <1>1 DEF Alone, Owns, Exists, EvaluatesOf
  <2>3. CASE b = a
    <3>1. \A k \in Evaluators : ~EvaluatesOf(k, a) BY <2>1, <2>3, <1>1 DEF Alone
    <3>2. Alone(b)' BY <2>3, <3>1, <1>1, <1>7 DEF Alone, EvaluatesOf
    <3>3. n.status \notin Active
      <4>1. CASE removal[a] = "cleared"
        <5>1. RowKnown(a) /\ row[a].version \in Nat BY <1>2, RowShape DEF InboxInv
        <5>2. row[a].version = 0 => row[a].status \notin Active BY <5>1 DEF RowKnown, Active
        <5>3. n = row[a] => row[a].status \notin Active \/ n.status = "resolved"
          <6>1. n = Cleared(row[a]) BY <4>1
          <6>2. CASE row[a].version > 0 /\ row[a].status \in Active
            <7>1. n = Closed(row[a]) BY <6>1, <6>2 DEF Cleared, Closed
            <7> QED BY <7>1, <1>2, ClosedRow
          <6>3. CASE ~(row[a].version > 0 /\ row[a].status \in Active) BY <5>1, <5>2, <6>3
          <6> QED BY <6>2, <6>3
        <5> QED BY <5>3, <1>2, <1>4, ClosedRow DEF Active
      <4>2. CASE removal[a] = "nothing"
        <5>1. ~Exists(a) BY <2>1, <2>3, <4>2 DEF Alone
        <5>2. RowKnown(a) /\ row[a].version \in Nat BY <1>2, RowShape DEF InboxInv
        <5>3. row[a].status = "resolved" BY <5>1, <5>2 DEF RowKnown, Exists
        <5> QED BY <4>2, <5>3 DEF Active
      <4> QED BY <4>1, <4>2, <1>1
    <3>4. Owns(b)' BY <2>3, <3>3, <1>6, <1>7 DEF Owns
    <3> QED BY <3>2, <3>4
  <2> QED BY <2>2, <2>3
<1> QED BY <1>8, <1>10, <1>11, <1>12, <1>13, <1>14 DEF InboxInv

LEMMA AbortedKeeps ==
  ASSUME InboxInv, NEW a \in Alerts, Aborted(a)
  PROVE  InboxInv'
<1>1. UNCHANGED <<row, day, tab, alert, published, agreed, touched, crossed>> BY DEF Aborted
<1>2. CASE removal[a] \in {"cleared", "nothing"} /\ removal' = [removal EXCEPT ![a] = "none"] /\ UNCHANGED eval
  <2>1. InboxTypeOK' BY <1>1, <1>2 DEF InboxInv, InboxTypeOK
  <2>2. Removals' BY <1>1, <1>2 DEF InboxInv, InboxTypeOK, Removals
  <2>3. Uncrossed'
    <3> SUFFICES ASSUME ~crossed, NEW b \in Alerts PROVE Alone(b)' /\ Owns(b)' BY <1>1 DEF Uncrossed
    <3>1. Alone(b) /\ Owns(b) BY DEF InboxInv, Uncrossed
    <3>2. removal'[b] = removal[b] \/ removal'[b] = "none" BY <1>2 DEF InboxInv, InboxTypeOK
    <3> QED BY <3>1, <3>2, <1>1, <1>2 DEF Alone, Owns, Exists, EvaluatesOf
  <2> QED BY <2>1, <2>2, <2>3, <1>1, <1>2 DEF InboxInv, RowKnown, Dismissal, TabKnown, Follows, Exists
<1>3. ASSUME NEW e \in Evaluators, eval' = [eval EXCEPT ![e] = Resting], UNCHANGED removal
      PROVE  InboxInv'
  <2>1. InboxTypeOK' BY <1>1, <1>3 DEF InboxInv, InboxTypeOK
  <2>2. Uncrossed'
    <3> SUFFICES ASSUME ~crossed, NEW b \in Alerts PROVE Alone(b)' /\ Owns(b)' BY <1>1 DEF Uncrossed
    <3>1. Alone(b) /\ Owns(b) BY DEF InboxInv, Uncrossed
    <3>2. \A k \in Evaluators : EvaluatesOf(k, b)' => EvaluatesOf(k, b) /\ eval'[k] = eval[k]
      BY <1>3 DEF EvaluatesOf, InboxInv, InboxTypeOK
    <3> QED BY <3>1, <3>2, <1>1, <1>3 DEF Alone, Owns, Exists
  <2> QED BY <2>1, <2>2, <1>1, <1>3 DEF InboxInv, RowKnown, Dismissal, TabKnown, Follows, Exists, Removals
<1> QED BY <1>2, <1>3 DEF Aborted

\* Every step keeps the invariant.
LEMMA InboxStep == InboxInv /\ [INext]_inboxVars => InboxInv'
<1> SUFFICES ASSUME InboxInv, [INext]_inboxVars PROVE InboxInv' OBVIOUS
<1>1. CASE NextDay BY <1>1, NextDayKeeps
<1>2. CASE \E fs \in SUBSET Issues : \E out \in [fs -> Shown] : Review(out) BY <1>2, ReviewKeeps
<1>3. CASE \E t \in Tabs : \E f \in Fingerprints : Show(t, f) BY <1>3, ShowKeeps
<1>4. CASE \E t \in Tabs : Dismiss(t) \/ Reopen(t) \/ \E until \in 1 .. MaxDay + 1 : Snooze(t, until) BY <1>4, OwnerKeeps
<1>5. CASE \E e \in Evaluators : EvalCommit(e) BY <1>5, EvalCommitKeeps
<1>6. CASE \E e \in Evaluators : \E a \in Alerts, met \in BOOLEAN : EvalStart(e, a, met) BY <1>6, EvalStartKeeps
<1>7. CASE \E a \in Alerts : RemoveClear(a) \/ RemoveDelete(a) \/ Aborted(a)
  BY <1>7, RemoveClearKeeps, RemoveDeleteKeeps, AbortedKeeps
<1>8. CASE UNCHANGED inboxVars
  BY <1>8 DEF inboxVars, InboxInv, InboxTypeOK, RowKnown, Dismissal, TabKnown, Follows, Exists, Removals, Uncrossed, Alone, Owns, EvaluatesOf
<1> QED BY <1>1, <1>2, <1>3, <1>4, <1>5, <1>6, <1>7, <1>8 DEF INext

-----------------------------------------------------------------------------
(* The results. *)

\* The invariant the results rest on holds of every state that reviews, answers of the owner, evaluations and removals of
\* alerts reach (services/inbox.py, services/alerts.py).
THEOREM InboxInvariance == ISpec => []InboxInv
  BY InitInboxInv, InboxStep, PTL DEF ISpec

\* For any number of tabs, issues, alerts and evaluators: nothing materially worse than what the owner was shown and
\* dismissed stays dismissed, the inbox follows the current decision, and an alert owns its issue while no evaluation
\* or removal of it crosses another.
THEOREM InboxIsTrue == ISpec => []InboxTrue
<1>1. ASSUME InboxInv PROVE InboxTrue
  <2>1. ITypeOK
    <3>1. \A f \in Fingerprints : row[f].status # "snoozed" \/ row[f].until > 0 BY <1>1 DEF InboxInv, RowKnown
    <3>2. published.issues \subseteq Issues /\ published.day \in 0 .. day BY <1>1 DEF InboxInv, InboxTypeOK
    <3> QED BY <1>1, <3>1, <3>2 DEF InboxInv, InboxTypeOK, Removals, ITypeOK, Row
  <2>2. NothingWorseHidden BY <1>1 DEF InboxInv, Dismissal, NothingWorseHidden
  <2>3. FollowsDecision BY <1>1 DEF InboxInv, Follows, FollowsDecision
  <2>4. AlertsOwnTheirIssues BY <1>1 DEF InboxInv, Uncrossed, Owns, AlertsOwnTheirIssues
  <2> QED BY <2>1, <2>2, <2>3, <2>4 DEF InboxTrue
<1> QED BY <1>1, InboxInvariance, PTL

\* A dismissal is remembered: a step that undoes one is an answer of the owner, or a review that found the issue more
\* severe, or its measure materially larger, than what the owner was shown.
THEOREM DismissalsRemembered == ISpec => DismissalRemembered
<1> DEFINE Undone(f) == row[f].status = "dismissed" /\ row'[f].status # "dismissed" =>
             \/ \E t \in Tabs : tab[t].fp = f /\ tab'[t] = NoTab
             \/ row'[f].sev > agreed[f].sev \/ row'[f].meas >= agreed[f].meas + Growth
<1>1. ASSUME InboxInv, INext PROVE \A f \in Fingerprints : Undone(f)
  <2> SUFFICES ASSUME NEW f \in Fingerprints, row[f].status = "dismissed", row'[f].status # "dismissed"
               PROVE  \/ \E t \in Tabs : tab[t].fp = f /\ tab'[t] = NoTab
                      \/ row'[f].sev > agreed[f].sev \/ row'[f].meas >= agreed[f].meas + Growth
    OBVIOUS
  <2>1. row \in [Fingerprints -> Row] /\ row[f] \in Row BY <1>1 DEF InboxInv, InboxTypeOK
  <2>2. ASSUME NEW fs \in SUBSET Issues, NEW out \in [fs -> Shown], Review(out)
        PROVE  row'[f].sev > agreed[f].sev \/ row'[f].meas >= agreed[f].meas + Growth
    <3>1. row'[f] = IF f \in fs THEN Seen(row[f], out[f]) ELSE Gone(f) BY <2>2 DEF Review
    <3>2. f \in fs BY <3>1 DEF Gone, Active
    <3>3. out[f] \in Shown BY <2>2, <3>2
    <3>4. Material(row[f], out[f].sev, out[f].meas) /\ row'[f].sev = out[f].sev /\ row'[f].meas = out[f].meas
      BY <2>1, <3>1, <3>2, <3>3, SeenRow
    <3>5. row[f].dsev = agreed[f].sev /\ row[f].dmeas = agreed[f].meas BY <1>1 DEF InboxInv, Dismissal
    <3>6. out[f].meas \in Int /\ row[f].dmeas \in Int /\ Growth \in Int
      <4>1. out[f].meas \in Measures BY <3>3 DEF Shown
      <4>2. row[f].dmeas \in Int BY <2>1, RowShape
      <4> QED BY <4>1, <4>2, InboxNumbers
    <3> QED BY <3>4, <3>5, <3>6 DEF Material
  <2>3. ASSUME NEW t \in Tabs, Dismiss(t) \/ Reopen(t) \/ \E until \in 1 .. MaxDay + 1 : Snooze(t, until)
        PROVE  \E u \in Tabs : tab[u].fp = f /\ tab'[u] = NoTab
    <3>1. PICK new : Answer(t, new) BY <2>3 DEF Dismiss, Reopen, Snooze
    <3>2. tab'[t] = NoTab BY <1>1, <3>1 DEF Answer, InboxInv, InboxTypeOK
    <3>3. tab[t].fp = f BY <2>1, <3>1 DEF Answer
    <3> QED BY <3>2, <3>3
  <2>4. ASSUME NEW e \in Evaluators, EvalCommit(e) PROVE FALSE
    <3>1. row' = [row EXCEPT ![eval[e].alert] = IF eval[e].met THEN Raised(@) ELSE Cleared(@)] BY <2>4 DEF EvalCommit
    <3>2. row'[f] = row[f] \/ row'[f] = Raised(row[f]) \/ row'[f] = Cleared(row[f]) BY <2>1, <3>1
    <3> QED BY <2>1, <3>2, RaisedRow DEF Cleared, Active
  <2>5. ASSUME NEW a \in Alerts, RemoveDelete(a) PROVE FALSE
    <3>1. row' = row \/ row' = [row EXCEPT ![a] = Cleared(@)] BY <2>5 DEF RemoveDelete
    <3>2. row'[f] = row[f] \/ row'[f] = Cleared(row[f]) BY <2>1, <3>1
    <3> QED BY <3>2 DEF Cleared, Active
  <2>6. row' # row OBVIOUS
  <2> QED BY <1>1, <2>2, <2>3, <2>4, <2>5, <2>6 DEF INext, NextDay, Show, EvalStart, RemoveClear, Aborted
<1>2. ASSUME UNCHANGED inboxVars PROVE \A f \in Fingerprints : Undone(f) BY <1>2 DEF inboxVars
<1>3. InboxInv /\ [INext]_inboxVars => [\A f \in Fingerprints : Undone(f)]_inboxVars BY <1>1, <1>2
<1> QED BY <1>3, InboxInvariance, PTL DEF ISpec, DismissalRemembered
-----------------------------------------------------------------------------
(* The watchlists. *)

\* The workers whose request is about to insert.
Inserting(what) == {w \in Workers : request[w].op = what}
Alerting(i) == {w \in Workers : request[w].op = "alert" /\ request[w].item = i}
AsLimited == Cardinality(Workers) - 1

WatchShapes ==
  /\ DOMAIN request = Workers
  /\ IsFiniteSet(DOMAIN lists) /\ IsFiniteSet(DOMAIN items) /\ IsFiniteSet(DOMAIN alerts)
  /\ \A a \in DOMAIN alerts : alerts[a] = [item |-> alerts[a].item, rule |-> alerts[a].rule, triggered |-> alerts[a].triggered] /\ alerts[a].triggered \in BOOLEAN
  /\ \A w \in Evaluating : request[w] = [op |-> "evaluate", saw |-> request[w].saw, read |-> request[w].read, alone |-> request[w].alone]

\* Who has counted and not inserted counts too.
LimitsKept ==
  /\ Cardinality(DOMAIN lists) + Cardinality(Inserting("list")) <= MaxLists + AsLimited
  /\ Cardinality(DOMAIN items) + Cardinality(Inserting("item")) <= MaxItems + AsLimited
  /\ \A i \in DOMAIN items : Cardinality(AlertsOf({i})) + Cardinality(Alerting(i)) <= MaxAlerts + AsLimited

\* What an evaluation saw of an alert is still so, as far as the quotes that it read go.
Remembers(w) ==
  /\ \A a \in DOMAIN request[w].saw \cap DOMAIN alerts :
       /\ request[w].saw[a].met = Met(alerts[a].rule, request[w].read[TokenOf(a)]) /\ request[w].saw[a].met \in BOOLEAN
       /\ request[w].alone => request[w].saw[a].was = alerts[a].triggered
  /\ request[w].alone => Evaluating = {w}

WatchInv == WatchShapes /\ NothingLeftBehind /\ LimitsKept /\ (\A w \in Evaluating : Remembers(w)) /\ AlertsPutRight

-----------------------------------------------------------------------------
\* Any number of workers is finite, and at least one.
LEMMA WorkersCount ==
  /\ Cardinality(Workers) \in Nat \ {0}
  /\ \A P \in SUBSET Workers : IsFiniteSet(P) /\ Cardinality(P) \in Nat /\ Cardinality(P) <= Cardinality(Workers)
<1>1. IsFiniteSet(Workers) /\ Workers # {}
  BY WatchlistsAssumption
<1>2. Cardinality(Workers) \in Nat /\ Cardinality(Workers) # 0
  BY <1>1, FS_CardinalityType, FS_EmptySet
<1>3. \A P \in SUBSET Workers : IsFiniteSet(P) /\ Cardinality(P) <= Cardinality(Workers)
  BY <1>1, FS_Subset
<1>. QED BY <1>2, <1>3, FS_CardinalityType

\* Fewer rows and fewer requests keep to a limit.
LEMMA Fewer ==
  ASSUME NEW D, IsFiniteSet(D), NEW E \in SUBSET D, NEW P \in SUBSET Workers, NEW Q \in SUBSET P, NEW M \in Nat,
         Cardinality(D) + Cardinality(P) <= M + AsLimited
  PROVE  Cardinality(E) + Cardinality(Q) <= M + AsLimited
<1>1. Cardinality(D) \in Nat /\ Cardinality(E) \in Nat /\ Cardinality(E) <= Cardinality(D)
  BY FS_Subset, FS_CardinalityType
<1>2. Cardinality(P) \in Nat /\ Cardinality(Q) \in Nat /\ Cardinality(Q) <= Cardinality(P)
  BY WorkersCount, FS_Subset
<1>. QED BY <1>1, <1>2, WorkersCount DEF AsLimited

\* One more request, counted below the limit.
LEMMA OneMoreRequest ==
  ASSUME NEW D, IsFiniteSet(D), NEW Q \in SUBSET Workers, NEW M \in Nat, Cardinality(D) < M
  PROVE  Cardinality(D) + Cardinality(Q) <= M + AsLimited
<1>1. Cardinality(D) \in Nat
  BY FS_CardinalityType
<1>. QED BY <1>1, WorkersCount DEF AsLimited

\* A request that inserts its row is no longer on its way.
LEMMA RowForRequest ==
  ASSUME NEW D, IsFiniteSet(D), NEW x, NEW P \in SUBSET Workers, NEW w \in P, NEW M \in Nat,
         Cardinality(D) + Cardinality(P) <= M + AsLimited
  PROVE  Cardinality(D \cup {x}) + Cardinality(P \ {w}) <= M + AsLimited
<1>1. Cardinality(D) \in Nat /\ Cardinality(D \cup {x}) \in Nat /\ Cardinality(D \cup {x}) <= Cardinality(D) + 1
  <2>1. Cardinality(D) \in Nat
    BY FS_CardinalityType
  <2>2. Cardinality(D \cup {x}) = IF x \in D THEN Cardinality(D) ELSE Cardinality(D) + 1
    BY FS_AddElement
  <2>. QED BY <2>1, <2>2
<1>2. Cardinality(P) \in Nat /\ Cardinality(P \ {w}) = Cardinality(P) - 1
  BY WorkersCount, FS_RemoveElement
<1>. QED BY <1>1, <1>2, WorkersCount DEF AsLimited

-----------------------------------------------------------------------------
\* A step that changes no stock and no alert, and begins no evaluation.
LEMMA QuietWatch ==
  ASSUME WatchInv, UNCHANGED <<items, alerts, issues>>, IsFiniteSet(DOMAIN lists'), DOMAIN lists \subseteq DOMAIN lists', DOMAIN request' = Workers,
         Evaluating' \subseteq Evaluating, \A x \in Evaluating' : request'[x] = request[x], LimitsKept',
         undisturbed' => undisturbed /\ quotes' = quotes
  PROVE  WatchInv'
<1>1. \A a : TokenOf(a)' = TokenOf(a)
  BY DEF TokenOf
<1>2. WatchShapes'
  BY DEF WatchInv, WatchShapes
<1>3. NothingLeftBehind'
  BY DEF WatchInv, NothingLeftBehind
<1>4. ASSUME NEW w \in Evaluating' PROVE Remembers(w)'
  <2>1. Remembers(w) /\ request'[w] = request[w] /\ w \in Evaluating
    BY <1>4 DEF WatchInv
  <2>2. request[w].alone => Evaluating' = {w}
    BY <1>4, <2>1 DEF Remembers
  <2>. QED BY <1>1, <2>1, <2>2 DEF Remembers
<1>5. AlertsPutRight'
  <2>. SUFFICES ASSUME undisturbed' PROVE \A a \in Judged' : LET met == Met(alerts[a].rule, quotes[TokenOf(a)])' IN alerts'[a].triggered = met /\ (a \in issues' <=> met)
    BY DEF AlertsPutRight
  <2>1. undisturbed /\ quotes' = quotes
    OBVIOUS
  <2>2. Judged' = Judged /\ \A a : Met(alerts[a].rule, quotes[TokenOf(a)])' = Met(alerts[a].rule, quotes[TokenOf(a)])
    BY <1>1, <2>1 DEF Judged, Met
  <2>. QED BY <2>1, <2>2 DEF WatchInv, AlertsPutRight
<1>. QED BY <1>2, <1>3, <1>4, <1>5 DEF WatchInv

\* One request goes on, to something that is not an evaluation; an insert it begins was counted below the limit.
LEMMA OneRequest ==
  ASSUME WatchInv, NEW w \in Workers, NEW X, request' = [request EXCEPT ![w] = X], X.op # "evaluate",
         UNCHANGED <<items, alerts, issues>>, DOMAIN lists' = DOMAIN lists,
         X.op = "list" => Cardinality(DOMAIN lists) < MaxLists,
         X.op = "item" => Cardinality(DOMAIN items) < MaxItems,
         X.op = "alert" => Cardinality(AlertsOf({X.item})) < MaxAlerts,
         undisturbed' => undisturbed /\ quotes' = quotes
  PROVE  WatchInv'
<1>1. DOMAIN request' = Workers /\ request'[w] = X /\ \A x \in Workers \ {w} : request'[x] = request[x]
  BY DEF WatchInv, WatchShapes
<1>2. Evaluating' \subseteq Evaluating /\ \A x \in Evaluating' : request'[x] = request[x]
  BY <1>1 DEF Evaluating
<1>3. {MaxLists, MaxItems, MaxAlerts} \subseteq Nat
  BY WatchlistsAssumption
<1>4. IsFiniteSet(DOMAIN lists) /\ IsFiniteSet(DOMAIN items) /\ IsFiniteSet(DOMAIN alerts) /\ LimitsKept
  BY DEF WatchInv, WatchShapes
<1>5. \A what : Inserting(what)' \in SUBSET Workers /\ Inserting(what) \in SUBSET Workers /\ (X.op # what => Inserting(what)' \subseteq Inserting(what))
  BY <1>1 DEF Inserting
<1>6. \A i : Alerting(i)' \in SUBSET Workers /\ Alerting(i) \in SUBSET Workers /\ (~ (X.op = "alert" /\ X.item = i) => Alerting(i)' \subseteq Alerting(i))
  BY <1>1 DEF Alerting
<1>7. Cardinality(DOMAIN lists) + Cardinality(Inserting("list")') <= MaxLists + AsLimited
  <2>1. CASE X.op = "list"
    BY <2>1, <1>3, <1>4, <1>5, OneMoreRequest
  <2>2. CASE X.op # "list"
    <3>1. Cardinality(DOMAIN lists) + Cardinality(Inserting("list")) <= MaxLists + AsLimited
      BY <1>4 DEF LimitsKept
    <3>. QED BY <3>1, <2>2, <1>3, <1>4, <1>5, Fewer
  <2>. QED BY <2>1, <2>2
<1>8. Cardinality(DOMAIN items) + Cardinality(Inserting("item")') <= MaxItems + AsLimited
  <2>1. CASE X.op = "item"
    BY <2>1, <1>3, <1>4, <1>5, OneMoreRequest
  <2>2. CASE X.op # "item"
    <3>1. Cardinality(DOMAIN items) + Cardinality(Inserting("item")) <= MaxItems + AsLimited
      BY <1>4 DEF LimitsKept
    <3>. QED BY <3>1, <2>2, <1>3, <1>4, <1>5, Fewer
  <2>. QED BY <2>1, <2>2
<1>9. ASSUME NEW i \in DOMAIN items PROVE Cardinality(AlertsOf({i})) + Cardinality(Alerting(i)') <= MaxAlerts + AsLimited
  <2>0. IsFiniteSet(AlertsOf({i}))
    BY <1>4, FS_Subset DEF AlertsOf
  <2>1. CASE X.op = "alert" /\ X.item = i
    BY <2>0, <2>1, <1>3, <1>6, OneMoreRequest
  <2>2. CASE ~ (X.op = "alert" /\ X.item = i)
    <3>1. Cardinality(AlertsOf({i})) + Cardinality(Alerting(i)) <= MaxAlerts + AsLimited
      BY <1>4, <1>9 DEF LimitsKept
    <3>. QED BY <2>0, <3>1, <2>2, <1>3, <1>6, Fewer
  <2>. QED BY <2>1, <2>2
<1>10. LimitsKept'
  <2>1. \A i : AlertsOf({i})' = AlertsOf({i})
    BY DEF AlertsOf
  <2>. QED BY <2>1, <1>7, <1>8, <1>9 DEF LimitsKept, AsLimited
<1>. QED BY <1>1, <1>2, <1>4, <1>10, QuietWatch

\* Stocks are removed with all their alerts, alerts with their issues.
LEMMA RemovalKeeps ==
  ASSUME WatchInv, NEW gone, NEW dropped, NEW closed,
         DOMAIN lists' = DOMAIN lists \ closed, issues' = issues \ dropped,
         DOMAIN items' = DOMAIN items \ gone, \A i \in DOMAIN items' : items'[i] = items[i],
         DOMAIN alerts' = DOMAIN alerts \ dropped, \A a \in DOMAIN alerts' : alerts'[a] = alerts[a],
         AlertsOf(gone) \subseteq dropped, \A i \in DOMAIN items : items[i].list \in closed => i \in gone,
         UNCHANGED <<request, quotes, undisturbed>>
  PROVE  WatchInv'
<1>1. /\ DOMAIN lists' = DOMAIN lists \ closed
      /\ DOMAIN items' = DOMAIN items \ gone /\ \A i \in DOMAIN items' : items'[i] = items[i]
      /\ DOMAIN alerts' = DOMAIN alerts \ dropped /\ \A a \in DOMAIN alerts' : alerts'[a] = alerts[a]
  OBVIOUS
<1>2. \A a \in DOMAIN alerts' : a \in DOMAIN alerts /\ alerts[a].item \in DOMAIN items'
  BY <1>1 DEF WatchInv, NothingLeftBehind, AlertsOf
<1>3. \A a \in DOMAIN alerts' : TokenOf(a)' = TokenOf(a)
  BY <1>1, <1>2 DEF TokenOf
<1>4. Evaluating' = Evaluating
  BY DEF Evaluating
<1>5. WatchShapes'
  <2>1. IsFiniteSet(DOMAIN lists') /\ IsFiniteSet(DOMAIN items') /\ IsFiniteSet(DOMAIN alerts')
    BY <1>1, FS_Subset DEF WatchInv, WatchShapes
  <2>. QED BY <1>1, <1>4, <2>1 DEF WatchInv, WatchShapes
<1>6. NothingLeftBehind'
  BY <1>1, <1>2 DEF WatchInv, NothingLeftBehind
<1>7. LimitsKept'
  <2>0. LimitsKept /\ IsFiniteSet(DOMAIN lists) /\ IsFiniteSet(DOMAIN items) /\ IsFiniteSet(DOMAIN alerts) /\ {MaxLists, MaxItems, MaxAlerts} \subseteq Nat
    BY WatchlistsAssumption DEF WatchInv, WatchShapes
  <2>1. \A what : Inserting(what)' = Inserting(what) /\ Inserting(what) \in SUBSET Workers
    BY DEF Inserting
  <2>2. \A i : Alerting(i)' = Alerting(i) /\ Alerting(i) \in SUBSET Workers
    BY DEF Alerting
  <2>3. Cardinality(DOMAIN lists') + Cardinality(Inserting("list")) <= MaxLists + AsLimited
    BY <2>0, <2>1, <1>1, Fewer DEF LimitsKept
  <2>4. Cardinality(DOMAIN items') + Cardinality(Inserting("item")) <= MaxItems + AsLimited
    BY <2>0, <2>1, <1>1, Fewer DEF LimitsKept
  <2>5. ASSUME NEW i \in DOMAIN items' PROVE Cardinality(AlertsOf({i})') + Cardinality(Alerting(i)) <= MaxAlerts + AsLimited
    <3>1. Cardinality(AlertsOf({i})) + Cardinality(Alerting(i)) <= MaxAlerts + AsLimited
      BY <2>0, <2>5, <1>1 DEF LimitsKept
    <3>2. AlertsOf({i})' \subseteq AlertsOf({i}) /\ IsFiniteSet(AlertsOf({i}))
      BY <2>0, <1>1, FS_Subset DEF AlertsOf
    <3>. QED BY <2>0, <2>2, <3>1, <3>2, Fewer
  <2>. QED BY <2>1, <2>2, <2>3, <2>4, <2>5 DEF LimitsKept, AsLimited
<1>8. ASSUME NEW w \in Evaluating' PROVE Remembers(w)'
  <2>1. Remembers(w)
    BY <1>4, <1>8 DEF WatchInv
  <2>. QED BY <1>1, <1>2, <1>3, <1>4, <2>1 DEF Remembers
<1>9. AlertsPutRight'
  <2>1. \A a \in Judged' : a \in DOMAIN alerts' /\ a \in Judged
    BY <1>1, <1>2, <1>3 DEF Judged
  <2>2. \A a \in DOMAIN alerts' : Met(alerts[a].rule, quotes[TokenOf(a)])' = Met(alerts[a].rule, quotes[TokenOf(a)]) /\ (a \in issues' <=> a \in issues)
    BY <1>1, <1>3 DEF Met
  <2>. QED BY <1>1, <2>1, <2>2 DEF WatchInv, AlertsPutRight
<1>. QED BY <1>5, <1>6, <1>7, <1>8, <1>9 DEF WatchInv

-----------------------------------------------------------------------------
\* An identifier that is not used belongs to nothing, and no request refers to it.
LEMMA UnusedIs ==
  ASSUME NEW ids, NEW used, NEW x \in Unused(ids, used)
  PROVE  x \notin used /\ \A w \in Workers : request[w].op \in {"item", "alert"} => request[w].list # x /\ request[w].item # x
<1>. DEFINE taken == UNION {{request[w].list, request[w].item} : w \in {y \in Workers : request[y].op \in {"item", "alert"}}}
            free == ids \ (used \cup taken)
<1>1. free # {} /\ x = CHOOSE y \in free : TRUE
  BY DEF Unused
<1>2. x \in free
  BY <1>1
<1>. QED BY <1>2

\* The list is inserted, the request is done.
LEMMA ListInserted ==
  ASSUME WatchInv, NEW w \in Workers, request[w].op = "list", NEW l, l \notin DOMAIN lists, NEW name, lists' = With(lists, l, name), Ends(w),
         UNCHANGED <<items, alerts, issues, quotes, undisturbed>>
  PROVE  WatchInv'
<1>1. DOMAIN lists' = DOMAIN lists \cup {l} /\ IsFiniteSet(DOMAIN lists) /\ LimitsKept /\ MaxLists \in Nat
  BY WatchlistsAssumption DEF With, WatchInv, WatchShapes
<1>2. DOMAIN request' = Workers /\ request'[w] = NoRequest /\ \A x \in Workers \ {w} : request'[x] = request[x]
  BY DEF Ends, WatchInv, WatchShapes
<1>3. NoRequest.op = "none"
  BY DEF NoRequest
<1>4. Evaluating' \subseteq Evaluating /\ \A x \in Evaluating' : request'[x] = request[x]
  BY <1>2, <1>3 DEF Evaluating
<1>5. Inserting("list")' = Inserting("list") \ {w} /\ w \in Inserting("list") /\ Inserting("list") \in SUBSET Workers
  BY <1>2, <1>3 DEF Inserting
<1>6. Inserting("item")' = Inserting("item") /\ \A i : Alerting(i)' = Alerting(i) /\ AlertsOf({i})' = AlertsOf({i})
  BY <1>2, <1>3 DEF Inserting, Alerting, AlertsOf
<1>7. Cardinality(DOMAIN lists \cup {l}) + Cardinality(Inserting("list") \ {w}) <= MaxLists + AsLimited
  BY <1>1, <1>5, RowForRequest DEF LimitsKept
<1>8. LimitsKept'
  BY <1>1, <1>5, <1>6, <1>7 DEF LimitsKept, AsLimited
<1>9. IsFiniteSet(DOMAIN lists') /\ DOMAIN lists \subseteq DOMAIN lists'
  BY <1>1, FS_AddElement
<1>. QED BY <1>2, <1>4, <1>8, <1>9, QuietWatch

\* The stock is inserted into a list that is there.
LEMMA ItemInserted ==
  ASSUME WatchInv, NEW w \in Workers, request[w].op = "item", NEW i, i \in Unused(ItemIds, DOMAIN items), NEW new, new.list \in DOMAIN lists,
         items' = With(items, i, new), Ends(w), UNCHANGED <<lists, alerts, issues, quotes, undisturbed>>
  PROVE  WatchInv'
<1>1. /\ DOMAIN items' = DOMAIN items \cup {i} /\ items'[i] = new /\ i \notin DOMAIN items
      /\ \A k \in DOMAIN items : items'[k] = items[k]
  BY UnusedIs DEF With
<1>2. DOMAIN request' = Workers /\ request'[w] = NoRequest /\ \A x \in Workers \ {w} : request'[x] = request[x]
  BY DEF Ends, WatchInv, WatchShapes
<1>3. NoRequest.op = "none" /\ LimitsKept /\ NothingLeftBehind /\ IsFiniteSet(DOMAIN items) /\ {MaxItems, MaxAlerts} \subseteq Nat
  BY WatchlistsAssumption DEF NoRequest, WatchInv, WatchShapes
<1>4. Evaluating' = Evaluating /\ \A x \in Evaluating' : request'[x] = request[x]
  BY <1>2, <1>3 DEF Evaluating
<1>5. Inserting("item")' = Inserting("item") \ {w} /\ w \in Inserting("item") /\ Inserting("item") \in SUBSET Workers
  BY <1>2, <1>3 DEF Inserting
<1>6. Inserting("list")' = Inserting("list") /\ \A k : Alerting(k)' = Alerting(k) /\ AlertsOf({k})' = AlertsOf({k})
  BY <1>2, <1>3 DEF Inserting, Alerting, AlertsOf
<1>7. Cardinality(DOMAIN items \cup {i}) + Cardinality(Inserting("item") \ {w}) <= MaxItems + AsLimited
  BY <1>3, <1>5, RowForRequest DEF LimitsKept
<1>8. Alerting(i) = {} /\ AlertsOf({i}) = {}
  BY <1>1, <1>3, UnusedIs DEF Alerting, AlertsOf, NothingLeftBehind
<1>9. Cardinality(AlertsOf({i})) + Cardinality(Alerting(i)) <= MaxAlerts + AsLimited
  <2>1. Cardinality(AlertsOf({i})) = 0 /\ Cardinality(Alerting(i)) = 0
    BY <1>8, FS_EmptySet
  <2>2. AsLimited \in Int /\ AsLimited >= 0 /\ MaxAlerts \in Nat
    BY <1>3, WorkersCount DEF AsLimited
  <2>. QED BY <2>1, <2>2
<1>10. LimitsKept'
  BY <1>1, <1>3, <1>5, <1>6, <1>7, <1>9 DEF LimitsKept, AsLimited
<1>11. \A a \in DOMAIN alerts : alerts[a].item \in DOMAIN items /\ TokenOf(a)' = TokenOf(a)
  BY <1>1, <1>3 DEF NothingLeftBehind, TokenOf
<1>12. WatchShapes'
  BY <1>1, <1>2, <1>4, FS_AddElement DEF WatchInv, WatchShapes
<1>13. NothingLeftBehind'
  BY <1>1, <1>3 DEF NothingLeftBehind
<1>14. ASSUME NEW x \in Evaluating' PROVE Remembers(x)'
  <2>1. Remembers(x)
    BY <1>4, <1>14 DEF WatchInv
  <2>. QED BY <1>4, <1>11, <1>14, <2>1 DEF Remembers
<1>15. AlertsPutRight'
  BY <1>11 DEF WatchInv, AlertsPutRight, Judged, Met
<1>. QED BY <1>10, <1>12, <1>13, <1>14, <1>15 DEF WatchInv

\* The alert is inserted on a stock that is there; no evaluation has seen its identifier.
LEMMA AlertInserted ==
  ASSUME WatchInv, NEW w \in Workers, request[w].op = "alert", request[w].item \in DOMAIN items,
         NEW a, a \in Unused(AlertIds, DOMAIN alerts \cup UNION {DOMAIN request[x].saw : x \in {y \in Workers : request[y].op = "evaluate"}}),
         alerts' = With(alerts, a, [item |-> request[w].item, rule |-> request[w].rule, triggered |-> FALSE]),
         request' = [request EXCEPT ![w] = [op |-> "due"]], ~ undisturbed', UNCHANGED <<lists, items, issues, quotes>>
  PROVE  WatchInv'
<1>. DEFINE new == [item |-> request[w].item, rule |-> request[w].rule, triggered |-> FALSE]
            due == [op |-> "due"]
<1>1. /\ DOMAIN alerts' = DOMAIN alerts \cup {a} /\ alerts'[a] = new /\ a \notin DOMAIN alerts
      /\ \A k \in DOMAIN alerts : alerts'[k] = alerts[k]
  BY UnusedIs DEF With
<1>2. \A x \in Evaluating : a \notin DOMAIN request[x].saw
  BY UnusedIs DEF Evaluating
<1>3. DOMAIN request' = Workers /\ request'[w] = due /\ \A x \in Workers \ {w} : request'[x] = request[x]
  BY DEF WatchInv, WatchShapes
<1>4. due.op = "due" /\ LimitsKept /\ NothingLeftBehind /\ IsFiniteSet(DOMAIN alerts) /\ MaxAlerts \in Nat
  BY WatchlistsAssumption DEF WatchInv, WatchShapes
<1>0. new.item = request[w].item /\ new.rule = request[w].rule /\ new.triggered = FALSE /\ new = [item |-> new.item, rule |-> new.rule, triggered |-> new.triggered]
  OBVIOUS
<1>. HIDE DEF due, new
<1>5. Evaluating' = Evaluating /\ \A x \in Evaluating' : request'[x] = request[x]
  BY <1>3, <1>4 DEF Evaluating
<1>6. Inserting("list")' = Inserting("list") /\ Inserting("item")' = Inserting("item")
  BY <1>3, <1>4 DEF Inserting
<1>7. \A i : /\ i # request[w].item => Alerting(i)' = Alerting(i) /\ AlertsOf({i})' = AlertsOf({i})
             /\ i = request[w].item => Alerting(i)' = Alerting(i) \ {w} /\ AlertsOf({i})' = AlertsOf({i}) \cup {a} /\ w \in Alerting(i)
  <2>1. \A i : i # request[w].item => Alerting(i)' = Alerting(i)
    BY <1>3, <1>4 DEF Alerting
  <2>2. \A i : i = request[w].item => Alerting(i)' = Alerting(i) \ {w} /\ w \in Alerting(i)
    BY <1>3, <1>4 DEF Alerting
  <2>3. new.item = request[w].item
    BY <1>0
  <2>4. \A i : i # request[w].item => AlertsOf({i})' = AlertsOf({i})
    BY <1>1, <2>3 DEF AlertsOf
  <2>5. \A i : i = request[w].item => AlertsOf({i})' = AlertsOf({i}) \cup {a}
    BY <1>1, <2>3 DEF AlertsOf
  <2>. QED BY <2>1, <2>2, <2>4, <2>5
<1>8. ASSUME NEW i \in DOMAIN items PROVE Cardinality(AlertsOf({i})') + Cardinality(Alerting(i)') <= MaxAlerts + AsLimited
  <2>1. Cardinality(AlertsOf({i})) + Cardinality(Alerting(i)) <= MaxAlerts + AsLimited
    BY <1>4, <1>8 DEF LimitsKept
  <2>2. IsFiniteSet(AlertsOf({i})) /\ Alerting(i) \in SUBSET Workers
    BY <1>4, FS_Subset DEF AlertsOf, Alerting
  <2>3. CASE i # request[w].item
    BY <2>1, <2>3, <1>7
  <2>4. CASE i = request[w].item
    <3>1. Cardinality(AlertsOf({i}) \cup {a}) + Cardinality(Alerting(i) \ {w}) <= MaxAlerts + AsLimited
      BY <2>1, <2>2, <2>4, <1>4, <1>7, RowForRequest
    <3>. QED BY <3>1, <2>4, <1>7
  <2>. QED BY <2>3, <2>4
<1>9. LimitsKept'
  BY <1>4, <1>6, <1>8 DEF LimitsKept, AsLimited
<1>10. \A k \in DOMAIN alerts : TokenOf(k)' = TokenOf(k)
  BY <1>1 DEF TokenOf
<1>11. WatchShapes'
  <2>1. IsFiniteSet(DOMAIN alerts')
    BY <1>1, <1>4, FS_AddElement
  <2>2. \A k \in DOMAIN alerts' : alerts'[k] = [item |-> alerts'[k].item, rule |-> alerts'[k].rule, triggered |-> alerts'[k].triggered] /\ alerts'[k].triggered \in BOOLEAN
    BY <1>0, <1>1 DEF WatchInv, WatchShapes
  <2>. QED BY <2>1, <2>2, <1>3, <1>5 DEF WatchInv, WatchShapes
<1>12. NothingLeftBehind'
  BY <1>0, <1>1, <1>4 DEF NothingLeftBehind
<1>13. ASSUME NEW x \in Evaluating' PROVE Remembers(x)'
  <2>1. Remembers(x) /\ request'[x] = request[x] /\ a \notin DOMAIN request[x].saw
    BY <1>2, <1>5, <1>13 DEF WatchInv
  <2>2. \A k \in DOMAIN request[x].saw \cap DOMAIN alerts' : k \in DOMAIN alerts /\ alerts'[k] = alerts[k] /\ TokenOf(k)' = TokenOf(k)
    BY <1>1, <1>10, <2>1
  <2>3. \A k \in DOMAIN request[x].saw \cap DOMAIN alerts' : Met(alerts[k].rule, request[x].read[TokenOf(k)])' = Met(alerts[k].rule, request[x].read[TokenOf(k)])
    <3>. SUFFICES ASSUME NEW k \in DOMAIN request[x].saw \cap DOMAIN alerts'
                  PROVE  Met(alerts[k].rule, request[x].read[TokenOf(k)])' = Met(alerts[k].rule, request[x].read[TokenOf(k)])
      OBVIOUS
    <3>1. alerts'[k].rule = alerts[k].rule /\ request'[x].read[TokenOf(k)'] = request[x].read[TokenOf(k)]
      BY <2>1, <2>2
    <3>. QED BY <3>1 DEF Met
  <2>4. request[x].alone => Evaluating' = {x}
    BY <1>5, <2>1 DEF Remembers
  <2>5. DOMAIN request'[x].saw = DOMAIN request[x].saw /\ \A k : request'[x].saw[k] = request[x].saw[k]
    BY <2>1
  <2>6. ASSUME NEW k \in DOMAIN request'[x].saw \cap DOMAIN alerts'
        PROVE  /\ request'[x].saw[k].met = Met(alerts[k].rule, request[x].read[TokenOf(k)])' /\ request'[x].saw[k].met \in BOOLEAN
               /\ request'[x].alone => request'[x].saw[k].was = alerts'[k].triggered
    <3>1. k \in DOMAIN request[x].saw \cap DOMAIN alerts
      BY <2>2, <2>5
    <3>2. /\ request[x].saw[k].met = Met(alerts[k].rule, request[x].read[TokenOf(k)]) /\ request[x].saw[k].met \in BOOLEAN
          /\ request[x].alone => request[x].saw[k].was = alerts[k].triggered
      BY <2>1, <3>1 DEF Remembers
    <3>. QED BY <2>1, <2>2, <2>3, <2>5, <3>1, <3>2
  <2>. QED BY <2>1, <2>4, <2>6 DEF Remembers
<1>. QED BY <1>9, <1>11, <1>12, <1>13 DEF WatchInv, AlertsPutRight

-----------------------------------------------------------------------------
\* What an alert demands is met or not, once it is known.
LEMMA MetOrNot == ASSUME NEW rule, NEW q, Met(rule, q) # Missing PROVE Met(rule, q) \in BOOLEAN
<1>1. CASE rule.kind = "price_above"
  <2>1. Met(rule, q) = (q.price >= rule.threshold)
    BY <1>1 DEF Met
  <2>2. (q.price >= rule.threshold) \in BOOLEAN
    OBVIOUS
  <2>. QED BY <2>1, <2>2
<1>2. CASE rule.kind = "price_below"
  <2>1. Met(rule, q) = (q.price <= rule.threshold)
    BY <1>2 DEF Met
  <2>2. (q.price <= rule.threshold) \in BOOLEAN
    OBVIOUS
  <2>. QED BY <2>1, <2>2
<1>3. CASE rule.kind = "day_move_up"
  <2>1. Met(rule, q) = IF q.move = Missing THEN Missing ELSE q.move >= rule.threshold
    BY <1>3 DEF Met
  <2>2. (q.move >= rule.threshold) \in BOOLEAN
    OBVIOUS
  <2>. QED BY <2>1, <2>2
<1>4. CASE rule.kind \notin {"price_above", "price_below", "day_move_up"}
  <2>1. Met(rule, q) = IF q.move = Missing THEN Missing ELSE q.move <= 0 - rule.threshold
    BY <1>4 DEF Met
  <2>2. (q.move <= 0 - rule.threshold) \in BOOLEAN
    OBVIOUS
  <2>. QED BY <2>1, <2>2
<1>. QED BY <1>1, <1>2, <1>3, <1>4

\* An evaluation has read; whoever was evaluating is no longer alone.
LEMMA EvaluateReadKeeps == ASSUME WatchInv, NEW w \in Workers, EvaluateRead(w) PROVE WatchInv'
<1>. DEFINE got == [op |-> "evaluate", saw |-> [a \in Judged |-> [met |-> Met(alerts[a].rule, quotes[TokenOf(a)]), was |-> alerts[a].triggered]],
                    read |-> quotes, alone |-> Evaluating = {}]
<1>1. /\ request[w].op = "due" /\ UNCHANGED <<lists, items, alerts, issues, quotes>>
      /\ request' = [x \in Workers |-> IF x = w THEN got ELSE IF x \in Evaluating THEN [request[x] EXCEPT !.alone = FALSE] ELSE request[x]]
      /\ undisturbed' = (undisturbed /\ Evaluating = {})
  BY DEF EvaluateRead
<1>2. /\ got.op = "evaluate" /\ DOMAIN got.saw = Judged /\ got.read = quotes /\ got.alone = (Evaluating = {})
      /\ \A a \in Judged : got.saw[a].met = Met(alerts[a].rule, quotes[TokenOf(a)]) /\ got.saw[a].was = alerts[a].triggered
      /\ got = [op |-> "evaluate", saw |-> got.saw, read |-> got.read, alone |-> got.alone]
  OBVIOUS
<1>. HIDE DEF got
<1>3. \A x \in Evaluating : /\ request[x] = [op |-> "evaluate", saw |-> request[x].saw, read |-> request[x].read, alone |-> request[x].alone]
                            /\ x \in Workers /\ x # w
  BY <1>1 DEF WatchInv, WatchShapes, Evaluating
<1>4. \A x \in Evaluating : request'[x] = [op |-> "evaluate", saw |-> request[x].saw, read |-> request[x].read, alone |-> FALSE]
  <2>. SUFFICES ASSUME NEW x \in Evaluating PROVE request'[x] = [op |-> "evaluate", saw |-> request[x].saw, read |-> request[x].read, alone |-> FALSE]
    OBVIOUS
  <2>1. request'[x] = [request[x] EXCEPT !.alone = FALSE]
    BY <1>1, <1>3
  <2>2. request[x] = [op |-> "evaluate", saw |-> request[x].saw, read |-> request[x].read, alone |-> request[x].alone]
    BY <1>3
  <2>3. [request[x] EXCEPT !.alone = FALSE] = [op |-> "evaluate", saw |-> request[x].saw, read |-> request[x].read, alone |-> FALSE]
    <3>. DEFINE r == request[x]
                s == request[x].saw
                d == request[x].read
                b == request[x].alone
    <3>1. r = [op |-> "evaluate", saw |-> s, read |-> d, alone |-> b]
      BY <2>2
    <3>. HIDE DEF r, s, d, b
    <3>2. [r EXCEPT !.alone = FALSE] = [op |-> "evaluate", saw |-> s, read |-> d, alone |-> FALSE]
      <4>1. PICK c : c = FALSE
        OBVIOUS
      <4>2. [r EXCEPT !.alone = c] = [op |-> "evaluate", saw |-> s, read |-> d, alone |-> c]
        <5>. HIDE <4>1
        <5>. QED BY <3>1, SMT
      <4>. QED BY <4>1, <4>2, Zenon
    <3>. QED BY <3>2 DEF r, s, d, b
  <2>. QED BY <2>1, <2>3
<1>5. request'[w] = got /\ \A x \in Workers \ {w} : x \notin Evaluating => request'[x] = request[x]
  BY <1>1
<1>6. DOMAIN request' = Workers /\ Evaluating' = Evaluating \cup {w}
  BY <1>1, <1>2, <1>4, <1>5 DEF Evaluating
<1>7. \A x \in Workers : \A what \in {"list", "item", "alert"} : request'[x].op = what <=> request[x].op = what
  BY <1>1, <1>2, <1>4, <1>5 DEF Evaluating
<1>8. \A x \in Workers : request[x].op = "alert" => request'[x] = request[x]
  BY <1>1, <1>3, <1>5 DEF Evaluating
<1>9. LimitsKept'
  <2>1. Inserting("list")' = Inserting("list") /\ Inserting("item")' = Inserting("item")
    BY <1>7 DEF Inserting
  <2>2. \A i : Alerting(i)' = Alerting(i) /\ AlertsOf({i})' = AlertsOf({i})
    BY <1>1, <1>7, <1>8 DEF Alerting, AlertsOf
  <2>. QED BY <2>1, <2>2, <1>1 DEF WatchInv, LimitsKept, AsLimited
<1>10. WatchShapes'
  <2>1. \A x \in Evaluating' : request'[x] = [op |-> "evaluate", saw |-> request'[x].saw, read |-> request'[x].read, alone |-> request'[x].alone]
    <3>. SUFFICES ASSUME NEW x \in Evaluating' PROVE request'[x] = [op |-> "evaluate", saw |-> request'[x].saw, read |-> request'[x].read, alone |-> request'[x].alone]
      OBVIOUS
    <3>1. CASE x = w
      BY <1>2, <1>5, <3>1
    <3>2. CASE x # w
      <4>1. request'[x] = [op |-> "evaluate", saw |-> request[x].saw, read |-> request[x].read, alone |-> FALSE]
        BY <1>4, <1>6, <3>2
      <4>. QED BY <4>1
    <3>. QED BY <3>1, <3>2
  <2>. QED BY <2>1, <1>1, <1>6 DEF WatchInv, WatchShapes
<1>11. NothingLeftBehind'
  BY <1>1 DEF WatchInv, NothingLeftBehind
<1>12. \A a : TokenOf(a)' = TokenOf(a)
  BY <1>1 DEF TokenOf
<1>13. \A a \in Judged : Met(alerts[a].rule, quotes[TokenOf(a)]) \in BOOLEAN
  BY MetOrNot DEF Judged
<1>14. Remembers(w)'
  <2>1. \A a \in DOMAIN got.saw \cap DOMAIN alerts : got.saw[a].met = Met(alerts[a].rule, quotes[TokenOf(a)]) /\ got.saw[a].met \in BOOLEAN /\ got.saw[a].was = alerts[a].triggered
    BY <1>2, <1>13
  <2>2. got.alone => Evaluating' = {w}
    BY <1>2, <1>6
  <2>. QED BY <2>1, <2>2, <1>1, <1>2, <1>5, <1>12 DEF Remembers
<1>15. ASSUME NEW x \in Evaluating PROVE Remembers(x)'
  <2>1. Remembers(x)
    BY <1>15 DEF WatchInv
  <2>2. request'[x].saw = request[x].saw /\ request'[x].read = request[x].read /\ ~ request'[x].alone
    <3>1. request'[x] = [op |-> "evaluate", saw |-> request[x].saw, read |-> request[x].read, alone |-> FALSE]
      BY <1>4
    <3>. QED BY <3>1
  <2>. QED BY <2>1, <2>2, <1>1, <1>12 DEF Remembers
<1>16. AlertsPutRight'
  <2>1. undisturbed' => undisturbed
    BY <1>1
  <2>2. \A a : Met(alerts[a].rule, quotes[TokenOf(a)])' = Met(alerts[a].rule, quotes[TokenOf(a)])
    BY <1>1, <1>12 DEF Met
  <2>3. Judged' = Judged
    BY <1>1, <1>12, <2>2 DEF Judged
  <2>. QED BY <2>1, <2>2, <2>3, <1>1 DEF WatchInv, AlertsPutRight
<1>. QED BY <1>6, <1>9, <1>10, <1>11, <1>14, <1>15, <1>16 DEF WatchInv

\* An evaluation writes what it has judged.
LEMMA EvaluationWritten ==
  ASSUME WatchInv, NEW w \in Workers, request[w].op = "evaluate", NEW saw, saw = request[w].saw, \A a \in DOMAIN saw \ DOMAIN alerts : ~ Writes(saw[a]),
         alerts' = [a \in DOMAIN alerts |-> IF a \in DOMAIN saw /\ Writes(saw[a]) THEN [alerts[a] EXCEPT !.triggered = saw[a].met] ELSE alerts[a]],
         issues' = (issues \cup {a \in DOMAIN saw : saw[a].met}) \ {a \in DOMAIN saw : ~ saw[a].met},
         undisturbed' = (request[w].alone /\ request[w].read = quotes /\ \A a \in Judged : a \in DOMAIN saw),
         Ends(w), UNCHANGED <<lists, items, quotes>>
  PROVE  WatchInv'
<1>1. DOMAIN request' = Workers /\ request'[w] = NoRequest /\ \A x \in Workers \ {w} : request'[x] = request[x]
  BY DEF Ends, WatchInv, WatchShapes
<1>2. NoRequest.op = "none" /\ WatchShapes /\ NothingLeftBehind /\ w \in Evaluating /\ Remembers(w)
  BY DEF NoRequest, WatchInv, Evaluating
<1>3. Evaluating' = Evaluating \ {w} /\ \A x \in Evaluating' : request'[x] = request[x]
  BY <1>1, <1>2 DEF Evaluating
<1>4. \A a \in DOMAIN alerts : saw[a].met \in BOOLEAN \/ a \notin DOMAIN saw
  BY <1>2 DEF Remembers
<1>5. /\ DOMAIN alerts' = DOMAIN alerts
      /\ \A a \in DOMAIN alerts : alerts'[a].item = alerts[a].item /\ alerts'[a].rule = alerts[a].rule
      /\ \A a \in DOMAIN alerts : alerts'[a] = [item |-> alerts'[a].item, rule |-> alerts'[a].rule, triggered |-> alerts'[a].triggered]
      /\ \A a \in DOMAIN alerts : alerts'[a].triggered = IF a \in DOMAIN saw /\ Writes(saw[a]) THEN saw[a].met ELSE alerts[a].triggered
  <2>. SUFFICES ASSUME NEW a \in DOMAIN alerts
                PROVE  /\ alerts'[a].item = alerts[a].item /\ alerts'[a].rule = alerts[a].rule
                       /\ alerts'[a] = [item |-> alerts'[a].item, rule |-> alerts'[a].rule, triggered |-> alerts'[a].triggered]
                       /\ alerts'[a].triggered = IF a \in DOMAIN saw /\ Writes(saw[a]) THEN saw[a].met ELSE alerts[a].triggered
    OBVIOUS
  <2>1. alerts[a] = [item |-> alerts[a].item, rule |-> alerts[a].rule, triggered |-> alerts[a].triggered]
    BY <1>2 DEF WatchShapes
  <2>2. CASE a \in DOMAIN saw /\ Writes(saw[a])
    <3>1. alerts'[a] = [alerts[a] EXCEPT !.triggered = saw[a].met]
      BY <2>2
    <3>2. alerts'[a] = [item |-> alerts[a].item, rule |-> alerts[a].rule, triggered |-> saw[a].met]
      BY <2>1, <3>1
    <3>. QED BY <2>2, <3>2
  <2>3. CASE ~ (a \in DOMAIN saw /\ Writes(saw[a]))
    <3>1. alerts'[a] = alerts[a]
      BY <2>3
    <3>. QED BY <2>1, <2>3, <3>1
  <2>. QED BY <2>2, <2>3
<1>6. \A a \in DOMAIN alerts : TokenOf(a)' = TokenOf(a) /\ Met(alerts[a].rule, quotes[TokenOf(a)])' = Met(alerts[a].rule, quotes[TokenOf(a)])
  BY <1>5 DEF TokenOf, Met
<1>7. WatchShapes'
  <2>1. \A a \in DOMAIN alerts : alerts'[a].triggered \in BOOLEAN
    BY <1>2, <1>4, <1>5 DEF WatchShapes
  <2>. QED BY <1>1, <1>2, <1>3, <1>5, <2>1 DEF WatchShapes
<1>8. NothingLeftBehind'
  <2>1. \A a \in DOMAIN saw : saw[a].met => a \in DOMAIN alerts
    BY DEF Writes
  <2>2. issues' \subseteq DOMAIN alerts
    BY <2>1, <1>2 DEF NothingLeftBehind
  <2>. QED BY <2>2, <1>2, <1>5 DEF NothingLeftBehind
<1>9. LimitsKept'
  <2>1. Inserting("list")' = Inserting("list") /\ Inserting("item")' = Inserting("item")
    BY <1>1, <1>2 DEF Inserting
  <2>2. \A i : Alerting(i)' = Alerting(i) /\ AlertsOf({i})' = AlertsOf({i})
    BY <1>1, <1>2, <1>5 DEF Alerting, AlertsOf
  <2>. QED BY <2>1, <2>2 DEF WatchInv, LimitsKept, AsLimited
<1>10. ASSUME NEW x \in Evaluating' PROVE Remembers(x)'
  <2>1. Remembers(x) /\ x \in Evaluating /\ x # w /\ request'[x] = request[x]
    BY <1>3, <1>10 DEF WatchInv
  <2>2. ~ request[x].alone
    BY <1>2, <2>1 DEF Remembers
  <2>. QED BY <1>5, <1>6, <2>1, <2>2 DEF Remembers
<1>11. AlertsPutRight'
  <2>. SUFFICES ASSUME undisturbed', NEW a \in Judged'
                PROVE  alerts'[a].triggered = Met(alerts[a].rule, quotes[TokenOf(a)])' /\ (a \in issues' <=> Met(alerts[a].rule, quotes[TokenOf(a)])')
    BY DEF AlertsPutRight
  <2>1. request[w].alone /\ request[w].read = quotes
    OBVIOUS
  <2>2. a \in DOMAIN alerts /\ a \in Judged /\ a \in DOMAIN saw
    BY <1>5, <1>6 DEF Judged
  <2>3. saw[a].met = Met(alerts[a].rule, quotes[TokenOf(a)]) /\ saw[a].met \in BOOLEAN /\ saw[a].was = alerts[a].triggered /\ alerts[a].triggered \in BOOLEAN
    BY <1>2, <2>1, <2>2 DEF Remembers, WatchShapes
  <2>4. alerts'[a].triggered = saw[a].met
    BY <1>5, <2>2, <2>3 DEF Writes
  <2>5. a \in issues' <=> saw[a].met
    BY <2>2, <2>3
  <2>. QED BY <1>6, <2>2, <2>3, <2>4, <2>5
<1>. QED BY <1>7, <1>8, <1>9, <1>10, <1>11 DEF WatchInv

-----------------------------------------------------------------------------
\* Rounding to rupees, half to even, moves an amount by half a rupee at the most.
LEMMA RoundedNear ==
  ASSUME NEW h \in Nat
  PROVE  Rounded(h) \in Nat /\ 100 * Rounded(h) <= h + 50 /\ h <= 100 * Rounded(h) + 50 /\ (h = 0 => Rounded(h) = 0)
<1>. DEFINE whole == h \div 100
            rest == h % 100
<1>1. whole \in Nat /\ rest \in 0 .. 99 /\ h = 100 * whole + rest
  OBVIOUS
<1>2. Rounded(h) = IF rest > 50 \/ (rest = 50 /\ whole % 2 = 1) THEN whole + 1 ELSE whole
  BY DEF Rounded
<1>. HIDE DEF whole, rest
<1>. QED BY <1>1, <1>2

\* The room up to a cap.
LEMMA RoomFits ==
  ASSUME NEW cap \in Int, NEW worth \in Int, NEW room, room = Rounded(Max({0, cap - 100 * worth}))
  PROVE  /\ room > 0 => 100 * (worth + room) <= cap + 50
         /\ cap <= 100 * (worth + room) + 50
<1>. DEFINE left == cap - 100 * worth
<1>1. left \in Int
  OBVIOUS
<1>2. Max({0, left}) = IF left >= 0 THEN left ELSE 0
  <2>1. \E x \in {0, left} : \A y \in {0, left} : x >= y
    BY <1>1
  <2>2. Max({0, left}) \in {0, left} /\ \A y \in {0, left} : Max({0, left}) >= y
    BY <2>1 DEF Max
  <2>. HIDE DEF left
  <2>. QED BY <1>1, <2>2
<1>3. CASE left >= 0
  <2>1. left \in Nat /\ room = Rounded(left)
    BY <1>1, <1>2, <1>3
  <2>2. room \in Nat /\ 100 * room <= left + 50 /\ left <= 100 * room + 50
    BY <2>1, RoundedNear
  <2>. QED BY <2>2
<1>4. CASE ~ (left >= 0)
  <2>1. room = 0
    BY <1>1, <1>2, <1>4, RoundedNear
  <2>. QED BY <1>1, <1>4, <2>1
<1>. QED BY <1>3, <1>4

\* What positions are worth.
LEMMA WorthInt == ASSUME NEW p \in Portfolios, NEW S \in SUBSET Valued(p) PROVE Worth(S) \in Int
<1>1. IsFiniteSet(p) /\ \A x \in p : x.value # Missing => x.value \in Int
  BY WatchlistsAssumption
<1>2. S \subseteq p /\ \A x \in S : x.value \in Int
  BY <1>1 DEF Valued
<1>3. IsFiniteSet(S)
  BY <1>1, <1>2, FS_Subset
<1>. DEFINE v == [x \in S |-> x.value]
<1>4. \A x \in S : v[x] \in Int
  BY <1>2
<1>. HIDE DEF v
<1>5. Sum(v, S) \in Int
  BY <1>3, <1>4, SumType
<1>. QED BY <1>5 DEF Sum, Worth, v

\* The room that is shown keeps to the limits whatever the watchlists hold.
LEMMA RoomIsHonest == RoomHonest
<1>. SUFFICES ASSUME NEW p \in Portfolios, NEW t \in Watched, Context(p, t) # Missing
              PROVE  LET c == Context(p, t)  symbol == broker[t].match
                         total == Worth(Valued(p))
                         Used(share, worth, room) == /\ room > 0 => 100 * (worth + room) <= share * total + 50
                                                     /\ share * total <= 100 * (worth + room) + 50
                     IN /\ Used(IssuerShare, Worth(Owned(p, symbol)), c.issuerRoom)
                        /\ c.sectorRoom # Missing => Used(SectorShare, Worth(OfSector(p, Universe[symbol])), c.sectorRoom)
  BY DEF RoomHonest
<1>. DEFINE symbol == broker[t].match
            total == Worth(Valued(p))
            owned == Worth(Owned(p, symbol))
            sector == Worth(OfSector(p, Universe[symbol]))
            issuerRoom == Room(IssuerShare, total, owned)
            sectorRoom == IF Universe[symbol] = Missing THEN Missing ELSE Room(SectorShare, total, sector)
<1>1. total \in Int /\ owned \in Int /\ sector \in Int
  BY WorthInt DEF Owned, OfSector
<1>2. IssuerShare * total \in Int /\ SectorShare * total \in Int
  <2>1. IssuerShare \in Int /\ SectorShare \in Int
    BY WatchlistsAssumption
  <2>. HIDE DEF total
  <2>. QED BY <1>1, <2>1
<1>3. Context(p, t) = [issuerRoom |-> issuerRoom, sectorRoom |-> sectorRoom]
  BY DEF Context
<1>4. Context(p, t).issuerRoom = issuerRoom /\ Context(p, t).sectorRoom = sectorRoom
  BY <1>3
<1>5. /\ issuerRoom > 0 => 100 * (owned + issuerRoom) <= IssuerShare * total + 50
      /\ IssuerShare * total <= 100 * (owned + issuerRoom) + 50
  <2>1. issuerRoom = Rounded(Max({0, IssuerShare * total - 100 * owned}))
    BY DEF Room
  <2>. HIDE DEF issuerRoom, total, owned
  <2>. QED BY <1>1, <1>2, <2>1, RoomFits
<1>6. sectorRoom # Missing =>
        /\ sectorRoom > 0 => 100 * (sector + sectorRoom) <= SectorShare * total + 50
        /\ SectorShare * total <= 100 * (sector + sectorRoom) + 50
  <2>. SUFFICES ASSUME sectorRoom # Missing
                PROVE  /\ sectorRoom > 0 => 100 * (sector + sectorRoom) <= SectorShare * total + 50
                       /\ SectorShare * total <= 100 * (sector + sectorRoom) + 50
    OBVIOUS
  <2>1. sectorRoom = Rounded(Max({0, SectorShare * total - 100 * sector}))
    BY DEF Room
  <2>. HIDE DEF sectorRoom, total, sector
  <2>. QED BY <1>1, <1>2, <2>1, RoomFits
<1>. HIDE DEF issuerRoom, sectorRoom
<1>. QED BY <1>4, <1>5, <1>6

-----------------------------------------------------------------------------
\* Nothing is watched at first.
LEMMA WatchInvInit == WatchInit => WatchInv
<1>. SUFFICES ASSUME WatchInit PROVE WatchInv
  OBVIOUS
<1>1. DOMAIN lists = {} /\ DOMAIN items = {} /\ DOMAIN alerts = {} /\ issues = {} /\ DOMAIN request = Workers /\ \A w \in Workers : request[w].op = "none"
  BY DEF WatchInit, NoRequest
<1>2. Evaluating = {} /\ Inserting("list") = {} /\ Inserting("item") = {}
  BY <1>1 DEF Evaluating, Inserting
<1>3. WatchShapes
  BY <1>1, <1>2, FS_EmptySet DEF WatchShapes
<1>4. NothingLeftBehind /\ AlertsPutRight
  BY <1>1 DEF NothingLeftBehind, AlertsPutRight, Judged
<1>5. LimitsKept
  <2>1. Cardinality(DOMAIN lists) = 0 /\ Cardinality(DOMAIN items) = 0 /\ Cardinality(Inserting("list")) = 0 /\ Cardinality(Inserting("item")) = 0
    BY <1>1, <1>2, FS_EmptySet
  <2>2. AsLimited \in Int /\ AsLimited >= 0 /\ MaxLists \in Nat /\ MaxItems \in Nat
    BY WorkersCount, WatchlistsAssumption DEF AsLimited
  <2>. QED BY <1>1, <2>1, <2>2 DEF LimitsKept
<1>. QED BY <1>2, <1>3, <1>4, <1>5 DEF WatchInv

\* A request is over with no trace.
LEMMA Ended ==
  ASSUME WatchInv, NEW w \in Workers, Ends(w), UNCHANGED <<lists, items, alerts, issues>>, undisturbed' => undisturbed /\ quotes' = quotes
  PROVE  WatchInv'
<1>1. NoRequest.op = "none"
  BY DEF NoRequest
<1>2. request' = [request EXCEPT ![w] = NoRequest]
  BY DEF Ends
<1>. QED BY <1>1, <1>2, OneRequest

\* A list is inserted, or its name is taken.
LEMMA InsertListKeeps == ASSUME WatchInv, NEW w \in Workers, InsertList(w) PROVE WatchInv'
<1>1. CASE NameFree(request[w].name)
  <2>1. PICK l \in Unused(ListIds, DOMAIN lists) : lists' = With(lists, l, request[w].name)
    BY <1>1 DEF InsertList
  <2>2. l \notin DOMAIN lists
    BY UnusedIs
  <2>. QED BY <2>1, <2>2, ListInserted DEF InsertList
<1>2. CASE ~ NameFree(request[w].name)
  BY <1>2, Ended DEF InsertList
<1>. QED BY <1>1, <1>2

\* A stock is inserted, or its list is gone or has it.
LEMMA InsertItemKeeps == ASSUME WatchInv, NEW w \in Workers, InsertItem(w) PROVE WatchInv'
<1>. DEFINE new == [list |-> request[w].list, token |-> request[w].token]
<1>1. CASE new.list \in DOMAIN lists /\ new \notin Range(items)
  <2>1. PICK i \in Unused(ItemIds, DOMAIN items) : items' = With(items, i, new)
    BY <1>1 DEF InsertItem
  <2>. HIDE DEF new
  <2>. QED BY <1>1, <2>1, ItemInserted DEF InsertItem
<1>2. CASE ~ (new.list \in DOMAIN lists /\ new \notin Range(items))
  BY <1>2, Ended DEF InsertItem
<1>. QED BY <1>1, <1>2

\* An alert is inserted, or its stock is gone.
LEMMA InsertAlertKeeps == ASSUME WatchInv, NEW w \in Workers, InsertAlert(w) PROVE WatchInv'
<1>1. CASE request[w].item \in DOMAIN items
  <2>1. PICK a \in Unused(AlertIds, DOMAIN alerts \cup UNION {DOMAIN request[x].saw : x \in {y \in Workers : request[y].op = "evaluate"}}) :
           alerts' = With(alerts, a, [item |-> request[w].item, rule |-> request[w].rule, triggered |-> FALSE])
    BY <1>1 DEF InsertAlert
  <2>2. request' = [request EXCEPT ![w] = [op |-> "due"]] /\ ~ undisturbed'
    BY <1>1 DEF InsertAlert
  <2>. QED BY <1>1, <2>1, <2>2, AlertInserted DEF InsertAlert
<1>2. CASE request[w].item \notin DOMAIN items
  BY <1>2, Ended DEF InsertAlert
<1>. QED BY <1>1, <1>2

\* An evaluation writes, or a row to write is gone.
LEMMA EvaluateCommitKeeps == ASSUME WatchInv, NEW w \in Workers, EvaluateCommit(w) PROVE WatchInv'
<1>. DEFINE saw == request[w].saw
<1>1. CASE \E a \in DOMAIN saw \ DOMAIN alerts : Writes(saw[a])
  BY <1>1, Ended DEF EvaluateCommit
<1>2. CASE ~ \E a \in DOMAIN saw \ DOMAIN alerts : Writes(saw[a])
  <2>1. /\ alerts' = [a \in DOMAIN alerts |-> IF a \in DOMAIN saw /\ Writes(saw[a]) THEN [alerts[a] EXCEPT !.triggered = saw[a].met] ELSE alerts[a]]
        /\ issues' = (issues \cup {a \in DOMAIN saw : saw[a].met}) \ {a \in DOMAIN saw : ~ saw[a].met}
        /\ undisturbed' = (request[w].alone /\ request[w].read = quotes /\ \A a \in Judged : a \in DOMAIN saw)
        /\ request[w].op = "evaluate" /\ Ends(w) /\ UNCHANGED <<lists, items, quotes>>
    BY <1>2 DEF EvaluateCommit
  <2>2. \A a \in DOMAIN saw \ DOMAIN alerts : ~ Writes(saw[a])
    BY <1>2
  <2>. QED BY <2>1, <2>2, EvaluationWritten
<1>. QED BY <1>1, <1>2

\* Nothing happens to the lists, the stocks, the alerts, their issues and the requests.
LEMMA AsideKeeps ==
  ASSUME WatchInv, UNCHANGED <<items, alerts, issues, request>>, DOMAIN lists' = DOMAIN lists, undisturbed' => undisturbed /\ quotes' = quotes
  PROVE  WatchInv'
<1>1. LimitsKept'
  BY DEF WatchInv, LimitsKept, Inserting, Alerting, AlertsOf, AsLimited
<1>2. Evaluating' = Evaluating
  BY DEF Evaluating
<1>. QED BY <1>1, <1>2, QuietWatch DEF WatchInv, WatchShapes

\* Whatever is removed takes what hangs on it along.
LEMMA RemovalsKeep ==
  ASSUME WatchInv, (\E l \in DOMAIN lists : RemoveList(l)) \/ (\E i \in DOMAIN items : RemoveItem(i)) \/ (\E a \in DOMAIN alerts : RemoveAlert(a))
  PROVE  WatchInv'
<1>1. ASSUME NEW gone, DropItems(gone)
      PROVE  /\ DOMAIN items' = DOMAIN items \ gone /\ \A i \in DOMAIN items' : items'[i] = items[i]
             /\ DOMAIN alerts' = DOMAIN alerts \ AlertsOf(gone) /\ \A a \in DOMAIN alerts' : alerts'[a] = alerts[a]
             /\ issues' = issues \ AlertsOf(gone)
  BY <1>1 DEF DropItems, Without, Restrict
<1>2. ASSUME NEW l \in DOMAIN lists, RemoveList(l) PROVE WatchInv'
  <2>. DEFINE gone == {i \in DOMAIN items : items[i].list = l}
              closed == {l}
              dropped == AlertsOf(gone)
  <2>1. DropItems(gone) /\ UNCHANGED <<request, quotes, undisturbed>>
    BY <1>2 DEF RemoveList
  <2>2. DOMAIN lists' = DOMAIN lists \ closed
    BY <1>2 DEF RemoveList, Without, Restrict
  <2>3. \A i \in DOMAIN items : items[i].list \in closed => i \in gone
    OBVIOUS
  <2>4. /\ DOMAIN items' = DOMAIN items \ gone /\ \A i \in DOMAIN items' : items'[i] = items[i]
        /\ DOMAIN alerts' = DOMAIN alerts \ dropped /\ \A a \in DOMAIN alerts' : alerts'[a] = alerts[a]
        /\ issues' = issues \ dropped /\ AlertsOf(gone) \subseteq dropped
    BY <1>1, <2>1
  <2>. HIDE DEF gone, closed, dropped
  <2>. QED BY <2>1, <2>2, <2>3, <2>4, RemovalKeeps
<1>3. ASSUME NEW i \in DOMAIN items, RemoveItem(i) PROVE WatchInv'
  <2>. DEFINE gone == {i}
              closed == {}
              dropped == AlertsOf(gone)
  <2>1. DropItems(gone) /\ UNCHANGED <<request, quotes, undisturbed>> /\ DOMAIN lists' = DOMAIN lists \ closed
    BY <1>3 DEF RemoveItem
  <2>2. \A k \in DOMAIN items : items[k].list \in closed => k \in gone
    OBVIOUS
  <2>3. /\ DOMAIN items' = DOMAIN items \ gone /\ \A k \in DOMAIN items' : items'[k] = items[k]
        /\ DOMAIN alerts' = DOMAIN alerts \ dropped /\ \A a \in DOMAIN alerts' : alerts'[a] = alerts[a]
        /\ issues' = issues \ dropped /\ AlertsOf(gone) \subseteq dropped
    BY <1>1, <2>1
  <2>. HIDE DEF gone, closed, dropped
  <2>. QED BY <2>1, <2>2, <2>3, RemovalKeeps
<1>4. ASSUME NEW a \in DOMAIN alerts, RemoveAlert(a) PROVE WatchInv'
  <2>. DEFINE gone == {}
              closed == {}
              dropped == {a}
  <2>1. /\ DOMAIN lists' = DOMAIN lists \ closed /\ UNCHANGED <<request, quotes, undisturbed>> /\ issues' = issues \ dropped
        /\ DOMAIN items' = DOMAIN items \ gone /\ \A i \in DOMAIN items' : items'[i] = items[i]
        /\ DOMAIN alerts' = DOMAIN alerts \ dropped /\ \A b \in DOMAIN alerts' : alerts'[b] = alerts[b]
    BY <1>4 DEF RemoveAlert, Without, Restrict
  <2>2. AlertsOf(gone) \subseteq dropped /\ \A k \in DOMAIN items : items[k].list \in closed => k \in gone
    BY DEF AlertsOf
  <2>. HIDE DEF gone, closed, dropped
  <2>. QED BY <2>1, <2>2, RemovalKeeps
<1>. QED BY <1>2, <1>3, <1>4

\* What a worker does between counting and inserting, and to get quotes.
LEMMA WorkerKeeps ==
  ASSUME WatchInv, NEW w \in Workers,
         \/ \E name \in Names : CountLists(w, name)
         \/ \E l \in DOMAIN lists, t \in Tokens : CountItems(w, l, t)
         \/ \E i \in DOMAIN items, rule \in AlertRules : CountAlerts(w, i, rule)
         \/ \E why \in {"page", "forced", "close"} : AskQuotes(w, why)
         \/ \E answer \in Answers(Watched) : QuotesArrive(w, answer)
         \/ QuotesFail(w) \/ WorkerDies(w)
  PROVE  WatchInv'
<1>1. ASSUME NEW name \in Names, CountLists(w, name) PROVE WatchInv'
  <2>. DEFINE X == [op |-> "list", name |-> name]
  <2>1. X.op = "list" /\ request' = [request EXCEPT ![w] = X] /\ Cardinality(DOMAIN lists) < MaxLists
    BY <1>1 DEF CountLists, Takes
  <2>. HIDE DEF X
  <2>. QED BY <1>1, <2>1, OneRequest DEF CountLists
<1>2. ASSUME NEW l \in DOMAIN lists, NEW t \in Tokens, CountItems(w, l, t) PROVE WatchInv'
  <2>. DEFINE X == [op |-> "item", list |-> l, item |-> Missing, token |-> t]
  <2>1. X.op = "item" /\ request' = [request EXCEPT ![w] = X] /\ Cardinality(DOMAIN items) < MaxItems
    BY <1>2 DEF CountItems, Takes
  <2>. HIDE DEF X
  <2>. QED BY <1>2, <2>1, OneRequest DEF CountItems
<1>3. ASSUME NEW i \in DOMAIN items, NEW rule \in AlertRules, CountAlerts(w, i, rule) PROVE WatchInv'
  <2>. DEFINE X == [op |-> "alert", list |-> Missing, item |-> i, rule |-> rule]
  <2>1. X.op = "alert" /\ X.item = i /\ request' = [request EXCEPT ![w] = X] /\ Cardinality(AlertsOf({i})) < MaxAlerts
    BY <1>3 DEF CountAlerts, Takes
  <2>. HIDE DEF X
  <2>. QED BY <1>3, <2>1, OneRequest DEF CountAlerts
<1>4. ASSUME NEW why \in {"page", "forced", "close"}, AskQuotes(w, why) PROVE WatchInv'
  <2>. DEFINE X == [op |-> "quotes", asked |-> Watched, close |-> why = "close"]
  <2>1. X.op = "quotes" /\ request' = [request EXCEPT ![w] = X]
    BY <1>4 DEF AskQuotes, Takes
  <2>. HIDE DEF X
  <2>. QED BY <1>4, <2>1, OneRequest DEF AskQuotes
<1>5. ASSUME NEW answer \in Answers(Watched), QuotesArrive(w, answer) PROVE WatchInv'
  <2>. DEFINE X == [op |-> "due"]
  <2>1. X.op = "due" /\ request' = [request EXCEPT ![w] = X] /\ ~ undisturbed'
    BY <1>5 DEF QuotesArrive
  <2>. HIDE DEF X
  <2>. QED BY <1>5, <2>1, OneRequest DEF QuotesArrive
<1>6. CASE QuotesFail(w)
  BY <1>6, Ended DEF QuotesFail
<1>7. CASE WorkerDies(w)
  BY <1>7, Ended DEF WorkerDies
<1>. QED BY <1>1, <1>2, <1>3, <1>4, <1>5, <1>6, <1>7

\* A step that changes nothing here.
LEMMA WatchInvStutter == ASSUME WatchInv, UNCHANGED watchVars PROVE WatchInv'
  BY AsideKeeps DEF watchVars

\* Each step keeps the invariant.
LEMMA WatchInvNext == ASSUME WatchInv, WatchNext PROVE WatchInv'
<1>1. ASSUME NEW rows \in Masters, MasterRefresh(rows) PROVE WatchInv'
  BY <1>1, AsideKeeps DEF MasterRefresh
<1>2. ASSUME NEW answer \in Answers(DOMAIN broker), QuotesElsewhere(answer) PROVE WatchInv'
  BY <1>2, AsideKeeps DEF QuotesElsewhere
<1>3. CASE TimePasses
  BY <1>3, AsideKeeps DEF TimePasses
<1>4. ASSUME NEW l \in DOMAIN lists, NEW name \in Names, RenameList(l, name) PROVE WatchInv'
  BY <1>4, AsideKeeps DEF RenameList
<1>5. CASE (\E l \in DOMAIN lists : RemoveList(l)) \/ (\E i \in DOMAIN items : RemoveItem(i)) \/ (\E a \in DOMAIN alerts : RemoveAlert(a))
  BY <1>5, RemovalsKeep
<1>6. ASSUME NEW w \in Workers,
             \/ \E name \in Names : CountLists(w, name)
             \/ \E l \in DOMAIN lists, t \in Tokens : CountItems(w, l, t)
             \/ \E i \in DOMAIN items, rule \in AlertRules : CountAlerts(w, i, rule)
             \/ InsertList(w) \/ InsertItem(w) \/ InsertAlert(w)
             \/ \E why \in {"page", "forced", "close"} : AskQuotes(w, why)
             \/ \E answer \in Answers(Watched) : QuotesArrive(w, answer)
             \/ QuotesFail(w) \/ EvaluateRead(w) \/ EvaluateCommit(w) \/ WorkerDies(w)
      PROVE  WatchInv'
  <2>1. CASE InsertList(w)
    BY <2>1, InsertListKeeps
  <2>2. CASE InsertItem(w)
    BY <2>2, InsertItemKeeps
  <2>3. CASE InsertAlert(w)
    BY <2>3, InsertAlertKeeps
  <2>4. CASE EvaluateRead(w)
    BY <2>4, EvaluateReadKeeps
  <2>5. CASE EvaluateCommit(w)
    BY <2>5, EvaluateCommitKeeps
  <2>. QED BY <1>6, <2>1, <2>2, <2>3, <2>4, <2>5, WorkerKeeps
<1>. QED BY <1>1, <1>2, <1>3, <1>4, <1>5, <1>6 DEF WatchNext

\* What the limits are counted with implies the limits that the owner sees.
LEMMA WatchInvEnough == WatchInv => WatchSound
<1>. SUFFICES ASSUME WatchInv PROVE WatchSound
  OBVIOUS
<1>1. Inserting("list") \in SUBSET Workers /\ Inserting("item") \in SUBSET Workers /\ \A i : Alerting(i) \in SUBSET Workers
  BY DEF Inserting, Alerting
<1>2. Cardinality(Inserting("list")) \in Nat /\ Cardinality(Inserting("item")) \in Nat /\ \A i : Cardinality(Alerting(i)) \in Nat
  BY <1>1, WorkersCount
<1>3. Cardinality(DOMAIN lists) \in Nat /\ Cardinality(DOMAIN items) \in Nat /\ \A i : Cardinality(AlertsOf({i})) \in Nat
  <2>1. \A i : IsFiniteSet(AlertsOf({i}))
    BY FS_Subset DEF WatchInv, WatchShapes, AlertsOf
  <2>. QED BY <2>1, FS_CardinalityType DEF WatchInv, WatchShapes
<1>4. AsLimited \in Int /\ {MaxLists, MaxItems, MaxAlerts} \subseteq Nat
  BY WorkersCount, WatchlistsAssumption DEF AsLimited
<1>5. Cardinality(DOMAIN lists) <= MaxLists + AsLimited /\ Cardinality(DOMAIN items) <= MaxItems + AsLimited
  BY <1>2, <1>3, <1>4 DEF WatchInv, LimitsKept
<1>6. ASSUME NEW i \in DOMAIN items PROVE Cardinality(AlertsOf({i})) <= MaxAlerts + AsLimited
  <2>1. Cardinality(AlertsOf({i})) + Cardinality(Alerting(i)) <= MaxAlerts + AsLimited
    BY <1>6 DEF WatchInv, LimitsKept
  <2>2. PICK n, m : n = Cardinality(AlertsOf({i})) /\ m = Cardinality(Alerting(i))
    OBVIOUS
  <2>3. n \in Nat /\ m \in Nat /\ n + m <= MaxAlerts + AsLimited /\ MaxAlerts \in Nat
    BY <1>2, <1>3, <1>4, <2>1, <2>2
  <2>4. n <= MaxAlerts + AsLimited
    <3>. HIDE <2>2
    <3>. QED BY <1>4, <2>3
  <2>. QED BY <2>2, <2>4
<1>7. LimitsPassedOnce
  BY <1>5, <1>6 DEF LimitsPassedOnce, AsLimited
<1>. QED BY <1>7, RoomIsHonest DEF WatchInv, WatchSound

\* The invariant the results rest on holds of every state that requests, refreshes of quotes, evaluations of alerts and removals
\* reach, workers dying between them (api/v4/watchlist.py, market/alerts.py).
THEOREM WatchInvariance == WatchSpec => []WatchInv
<1>1. WatchInv /\ [WatchNext]_watchVars => WatchInv'
  BY WatchInvNext, WatchInvStutter
<1>. QED BY <1>1, WatchInvInit, PTL DEF WatchSpec

\* For any number of workers, lists, stocks and alerts: each limit is passed once by each other worker at the most, nothing is
\* left of what is removed, an evaluation that nothing crossed puts every alert right, and the room shown keeps to the limits.
THEOREM WatchesAreSound == WatchSpec => []WatchSound
  BY WatchInvariance, WatchInvEnough, PTL

\* The inbox and the watchlists whose alerts raise some of its issues, side by side.
THEOREM InboxIsSound == ISpec /\ WatchSpec => []InboxSound
  BY InboxIsTrue, WatchesAreSound, PTL DEF InboxSound
=============================================================================
