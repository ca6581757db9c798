-------------------------- MODULE ZoneCache_proofs --------------------------
(***************************************************************************)
(* The zone cache, for any zones, threads and bounds: the types; and, when *)
(* only the main thread refreshes, that the assertion of replace() holds,  *)
(* that a zone changed by one thread at a time is coherent, and that the   *)
(* counter is exact. The argument is about the one thread that is busy     *)
(* with a zone of which we are sure. What it will store is what the        *)
(* backend holds; and unless its update has not been logged yet, the new   *)
(* maps will hold the same.                                                *)
(***************************************************************************)
EXTENDS ZoneCache, FiniteSetTheorems, TLAPS

\* Nobody uses "pdns_control rediscover".
Alone == Rediscoverers = {}

BusyWith(w, z) == at[w] # "idle" /\ op[w].zone = z

\* A thread is about to log a change of z.
Unlogged(z) == \E w \in Writers : at[w] = "log" /\ op[w].zone = z

NotUpdated(z) == \A i \in DOMAIN updates : updates[i].zone # z

\* The new map of z will hold id, whatever the backend had listed for it.
WillHold(z, base, id) ==
    \/ NotUpdated(z) /\ base = id
    \/ \E i \in DOMAIN updates : IsLast(i, z) /\ updates[i].id = id

\* A busy thread has a zone and an id.
OpsNamed == \A w \in Writers : at[w] # "idle" => op[w] \in Ops

TInv == TypeOK /\ OpsNamed

\* Updates are kept while the main thread refreshes.
PendingWhileReplacing == phase[Main] # "idle" => pending

\* What holds for a zone that is not unsure.
OneThread(z) == \A v, w \in Writers : BusyWith(v, z) /\ BusyWith(w, z) => v = w

StoresWhatIs(z) == \A w \in Writers : BusyWith(w, z) => op[w].id = db[z]

CollectsWhatIs(z) ==
    ~Unlogged(z) => /\ phase[Main] = "collect" => WillHold(z, db[z], db[z])
                    /\ phase[Main] = "replace" => WillHold(z, list[Main][z], db[z])
                    /\ phase[Main] = "swap" /\ z \in todo[Main] => list[Main][z] = db[z]

HoldsWhatIs(z) == ~Busy(z) => cache[z] = db[z]

ZInv(z) == z \notin unsure => OneThread(z) /\ StoresWhatIs(z) /\ CollectsWhatIs(z) /\ HoldsWhatIs(z)

CInv == \A z \in Zones : ZInv(z)

\* For the counter: without a race, a busy thread is alone and what it stores in a map
\* that has been replaced is what the map holds.
SureWhileBusy == ~raced => \A w \in Writers : at[w] # "idle" => op[w].zone \notin unsure

StoresTheSame ==
    ~raced /\ phase[Main] = "swap" =>
        \A w \in Writers : at[w] = "write" => list[Main][op[w].zone] = op[w].id

Replaced == ~raced /\ phase[Main] = "swap" => \A z \in Zones \ todo[Main] : cache[z] = list[Main][z]

Counts == ~raced /\ phase[Main] # "swap" => size = Cardinality(Present(cache))

SInv == SureWhileBusy /\ StoresTheSame /\ Replaced /\ Counts

-----------------------------------------------------------------------------
(* Types.                                                                  *)

\* Among finitely many zones, those that a map holds can be counted.
LEMMA PresentFinite ==
    ASSUME NEW map
    PROVE  /\ IsFiniteSet(Present(map))
           /\ Cardinality(Present(map)) \in Nat
  <1>1. Present(map) \subseteq Zones
    BY DEF Present
  <1> QED  BY <1>1, ZoneAssumption, FS_Subset, FS_CardinalityType

\* The empty cache before the first refresh.
LEMMA TypeInit == Init => TInv
  <1> SUFFICES ASSUME Init PROVE TInv
    OBVIOUS
  <1> USE ZoneAssumption DEF Init, Ids, Absent
  <1>1. db \in [Zones -> Ids] /\ cache \in [Zones -> Ids] /\ list \in [Refreshers -> [Zones -> Ids]]
    OBVIOUS
  <1>2. updates \in Seq(Ops)
    OBVIOUS
  <1>3. at \in [Writers -> {"idle", "log", "write"}] /\ op \in [Writers -> Ops \cup {NoOp}]
    OBVIOUS
  <1>4. OpsNamed
    BY DEF OpsNamed
  <1>5. size \in Int /\ ops \in 0 .. MaxOps /\ failures \in 0 .. MaxFailures
    OBVIOUS
  <1>6. /\ pending \in BOOLEAN /\ raced \in BOOLEAN /\ ~pending /\ updates = <<>>
        /\ unsure \subseteq Zones
    BY Zenon
  <1>7. /\ todo \in [Refreshers -> SUBSET Zones]
        /\ phase \in [Refreshers -> {"idle", "collect", "replace", "swap"}]
    OBVIOUS
  <1> QED  BY <1>1, <1>2, <1>3, <1>4, <1>5, <1>6, <1>7, Zenon DEF TInv, TypeOK

\* Every step keeps the types.
LEMMA TypeStep == TInv /\ [Next]_vars => TInv'
  <1> SUFFICES ASSUME TInv, [Next]_vars PROVE TInv'
    OBVIOUS
  <1> USE ZoneAssumption DEF TInv, TypeOK, OpsNamed, Ids, Absent
  <1>1. ASSUME NEW w \in Writers, NEW z \in Zones, NEW id \in Ids, Begin(w, z, id), db' \in [Zones -> Ids]
        PROVE  TInv'
    <2>1. ops' \in 0 .. MaxOps /\ [zone |-> z, id |-> id] \in Ops
      BY <1>1 DEF Begin, Operation, Ops
    <2> QED  BY <1>1, <2>1 DEF Begin, cacheVars, refreshVars
  <1>2. ASSUME NEW w \in Writers, NEW z \in Zones, Create(w, z) PROVE TInv'
    <2>1. ops + 1 \in Ids
      BY <1>2 DEF Create, Begin, Operation
    <2>2. db' \in [Zones -> Ids]
      BY <1>2, <2>1 DEF Create
    <2> QED  BY <1>1, <1>2, <2>1, <2>2 DEF Create
  <1>3. ASSUME NEW w \in Writers, NEW z \in Zones, Delete(w, z) PROVE TInv'
    <2>1. Absent \in Ids /\ db' \in [Zones -> Ids]
      BY <1>3 DEF Delete
    <2> QED  BY <1>1, <1>3, <2>1 DEF Delete
  <1>4. ASSUME NEW w \in Writers, NEW z \in Zones, Renew(w, z) PROVE TInv'
    BY <1>1, <1>4 DEF Renew
  <1>5. ASSUME NEW w \in Writers, Log(w) PROVE TInv'
    <2>1. op[w] \in Ops
      BY <1>5 DEF Log
    <2>2. updates' \in Seq(Ops) /\ (~pending' => updates' = <<>>)
      BY <1>5, <2>1 DEF Log, Logged
    <2> QED  BY <1>5, <2>2 DEF Log, refreshVars, historyVars
  <1>6. ASSUME NEW w \in Writers, Write(w) PROVE TInv'
    <2>1. op[w] \in Ops
      BY <1>6 DEF Write
    <2>2. op[w].zone \in Zones /\ op[w].id \in Ids
      BY <2>1 DEF Ops
    <2>3. cache' \in [Zones -> Ids] /\ size' \in Int
      BY <1>6, <2>2 DEF Write, Counted
    <2> QED  BY <1>6, <2>3 DEF Write, refreshVars, historyVars
  <1>7. ASSUME NEW z \in Zones, External(z) PROVE TInv'
    BY <1>7 DEF External, Operation, cacheVars, refreshVars
  <1>8. ASSUME NEW r \in Refreshers, SetReplacePending(r) PROVE TInv'
    BY <1>8 DEF SetReplacePending, Goto, historyVars
  <1>9. ASSUME NEW r \in Refreshers, Collect(r) PROVE TInv'
    BY <1>9 DEF Collect, Goto, cacheVars, historyVars
  <1>10. ASSUME NEW r \in Refreshers, CollectFails(r) PROVE TInv'
    BY <1>10 DEF CollectFails, Goto, cacheVars, historyVars
  <1>11. ASSUME NEW r \in Refreshers, Replace(r) PROVE TInv'
    <2>1. \A z \in Zones : Updated(r, z) \in Ids
      <3> SUFFICES ASSUME NEW z \in Zones PROVE Updated(r, z) \in Ids
        OBVIOUS
      <3>1. \A i \in DOMAIN updates : updates[i].id \in Ids
        <4> SUFFICES ASSUME NEW i \in DOMAIN updates PROVE updates[i].id \in Ids
          OBVIOUS
        <4>1. updates[i] \in Ops
          OBVIOUS
        <4> QED  BY <4>1 DEF Ops
      <3> QED  BY <3>1 DEF Updated
    <2>2. /\ list' \in [Refreshers -> [Zones -> Ids]]
          /\ todo' \in [Refreshers -> SUBSET Zones]
          /\ phase' \in [Refreshers -> {"idle", "collect", "replace", "swap"}]
      BY <1>11, <2>1 DEF Replace, Goto
    <2> QED  BY <1>11, <2>2 DEF Replace, cacheVars, historyVars
  <1>12. ASSUME NEW r \in Refreshers, NEW z \in Zones, SwapMap(r, z) PROVE TInv'
    BY <1>12 DEF SwapMap, historyVars
  <1>13. ASSUME NEW r \in Refreshers, EndReplace(r) PROVE TInv'
    <2>1. size' \in Int
      BY <1>13, PresentFinite DEF EndReplace
    <2>2. UNCHANGED <<db, cache, list, todo, failures, at, op, ops, unsure, raced>>
      BY <1>13 DEF EndReplace, historyVars
    <2>3. updates' = <<>> /\ pending' = FALSE
      BY <1>13 DEF EndReplace
    <2>4. <<>> \in Seq(Ops)
      OBVIOUS
    <2>5. phase' \in [Refreshers -> {"idle", "collect", "replace", "swap"}]
      BY <1>13 DEF EndReplace, Goto
    <2> QED  BY <2>1, <2>2, <2>3, <2>4, <2>5, Zenon
  <1>14. CASE UNCHANGED vars
    BY <1>14 DEF vars, cacheVars, refreshVars, historyVars
  <1> QED
    BY <1>2, <1>3, <1>4, <1>5, <1>6, <1>7, <1>8, <1>9, <1>10, <1>11, <1>12, <1>13, <1>14
       DEF Next, RefreshStep, WriterStep

\* Types hold; updates are kept only while a replacement is pending.
THEOREM TypeCorrect == Spec => []TypeOK
  BY TypeInit, TypeStep, PTL DEF Spec, TInv

-----------------------------------------------------------------------------
(* The main thread refreshes alone.                                        *)

\* Then nobody else can hold the lock that a replacement takes.
LEMMA OnlyMain ==
    ASSUME Alone
    PROVE  /\ Refreshers = {Main}
           /\ LockFree <=> phase[Main] # "swap"
           /\ LockFree' <=> phase'[Main] # "swap"
  BY DEF Alone, Refreshers, LockFree

\* No replacement is under way at the start.
LEMMA PendingInit == Init => PendingWhileReplacing
  BY DEF Init, PendingWhileReplacing, Refreshers

\* While the main thread is in updateZoneCache, the replacement stays pending.
LEMMA PendingStep == Alone /\ TInv /\ PendingWhileReplacing /\ [Next]_vars => PendingWhileReplacing'
  <1> SUFFICES ASSUME Alone, TInv, PendingWhileReplacing, [Next]_vars PROVE PendingWhileReplacing'
    OBVIOUS
  <1>1. ASSUME UNCHANGED <<pending, phase>> PROVE PendingWhileReplacing'
    BY <1>1 DEF PendingWhileReplacing
  <1>2. ASSUME NEW w \in Writers, NEW z \in Zones, Create(w, z) \/ Delete(w, z) \/ Renew(w, z)
        PROVE  PendingWhileReplacing'
    BY <1>1, <1>2 DEF Create, Delete, Renew, Begin, cacheVars, refreshVars
  <1>3. ASSUME NEW w \in Writers, Log(w) \/ Write(w) PROVE PendingWhileReplacing'
    BY <1>1, <1>3 DEF Log, Write, refreshVars
  <1>4. ASSUME NEW z \in Zones, External(z) PROVE PendingWhileReplacing'
    BY <1>1, <1>4 DEF External, cacheVars, refreshVars
  <1>5. ASSUME RefreshStep(Main) PROVE PendingWhileReplacing'
    BY <1>5 DEF RefreshStep, SetReplacePending, Collect, CollectFails, Replace, SwapMap, EndReplace,
                Goto, PendingWhileReplacing, TInv, TypeOK, Refreshers, cacheVars
  <1>6. CASE UNCHANGED vars
    BY <1>1, <1>6 DEF vars, cacheVars, refreshVars
  <1> QED  BY <1>2, <1>3, <1>4, <1>5, <1>6, OnlyMain DEF Next, WriterStep

\* The assertion of replace() holds for any zones and threads when only the main
\* thread refreshes.
THEOREM AssertionSafe == Alone => (Spec => []AssertionHolds)
  <1>1. Alone /\ PendingWhileReplacing => AssertionHolds
    BY OnlyMain DEF PendingWhileReplacing, AssertionHolds
  <1> SUFFICES ASSUME Alone PROVE Spec => []AssertionHolds
    OBVIOUS
  <1> QED
    BY <1>1, TypeInit, TypeStep, PendingInit, PendingStep, PTL DEF Spec

-----------------------------------------------------------------------------
(* The updates.                                                            *)

\* The new map of a zone holds what the updates and the list say.
LEMMA UpdatedHolds ==
    ASSUME TypeOK, NEW z, NEW id, WillHold(z, list[Main][z], id)
    PROVE  Updated(Main, z) = id
  <1>1. CASE NotUpdated(z)
    BY <1>1 DEF NotUpdated, WillHold, Updated, IsLast
  <1>2. ASSUME NEW i \in DOMAIN updates, IsLast(i, z), updates[i].id = id PROVE Updated(Main, z) = id
    <2>1. DOMAIN updates \subseteq Int
      BY DEF TypeOK
    <2>2. \A j \in DOMAIN updates : IsLast(j, z) => j = i
      BY <1>2, <2>1 DEF IsLast
    <2> QED  BY <1>2, <2>2 DEF Updated
  <1> QED  BY <1>1, <1>2 DEF WillHold

\* An update decides for its zone, and no other.
LEMMA AppendedHolds ==
    ASSUME TypeOK, NEW u \in Ops, updates' = Append(updates, u), NEW z, NEW base, NEW id
    PROVE  /\ WillHold(u.zone, base, u.id)'
           /\ z # u.zone /\ WillHold(z, base, id) => WillHold(z, base, id)'
  <1>0. PICK n \in Nat \ {0} :
            /\ DOMAIN updates = 1 .. n - 1
            /\ DOMAIN updates' = 1 .. n
            /\ updates'[n] = u
            /\ \A i \in DOMAIN updates : updates'[i] = updates[i]
    <2>1. /\ Len(updates) + 1 \in Nat \ {0}
          /\ DOMAIN updates = 1 .. (Len(updates) + 1) - 1
          /\ DOMAIN updates' = 1 .. Len(updates) + 1
          /\ updates'[Len(updates) + 1] = u
          /\ \A i \in DOMAIN updates : updates'[i] = updates[i]
      BY DEF TypeOK
    <2> QED  BY <2>1
  <1>1. WillHold(u.zone, base, u.id)'
    <2>1. IsLast(n, u.zone)'
      BY <1>0 DEF IsLast
    <2> QED  BY <1>0, <2>1 DEF WillHold
  <1>2. ASSUME z # u.zone, NotUpdated(z), base = id PROVE WillHold(z, base, id)'
    BY <1>0, <1>2 DEF NotUpdated, WillHold
  <1>3. ASSUME z # u.zone, NEW i \in DOMAIN updates, IsLast(i, z), updates[i].id = id
        PROVE  WillHold(z, base, id)'
    <2>1. IsLast(i, z)'
      BY <1>0, <1>3 DEF IsLast
    <2> QED  BY <1>0, <1>3, <2>1 DEF WillHold
  <1> QED  BY <1>1, <1>2, <1>3 DEF WillHold

-----------------------------------------------------------------------------
(* Coherence.                                                              *)

\* At the start the cache is as empty as the backend.
LEMMA CoherentInit == Init => CInv
  BY DEF Init, Refreshers, CInv, ZInv, OneThread, StoresWhatIs, CollectsWhatIs, HoldsWhatIs, BusyWith

\* A step that leaves a zone, and what will become of it, alone.
LEMMA ZoneUntouched ==
    ASSUME NEW z \in Zones, ZInv(z), z \notin unsure' => z \notin unsure,
           \A w \in Writers : BusyWith(w, z)' <=> BusyWith(w, z),
           \A w \in Writers : BusyWith(w, z) => op'[w].id = op[w].id,
           z \notin unsure => Unlogged(z)' <=> Unlogged(z),
           db'[z] = db[z], cache'[z] = cache[z],
           UNCHANGED <<updates, phase, list, todo>>
    PROVE  ZInv(z)'
  <1> SUFFICES ASSUME z \notin unsure', z \notin unsure
               PROVE  OneThread(z)' /\ StoresWhatIs(z)' /\ CollectsWhatIs(z)' /\ HoldsWhatIs(z)'
    BY DEF ZInv
  <1>1. OneThread(z)' /\ StoresWhatIs(z)'
    BY DEF ZInv, OneThread, StoresWhatIs
  <1>2. /\ WillHold(z, db[z], db[z])' <=> WillHold(z, db[z], db[z])
        /\ WillHold(z, list[Main][z], db[z])' <=> WillHold(z, list[Main][z], db[z])
    BY DEF WillHold, NotUpdated, IsLast
  <1>3. CollectsWhatIs(z)'
    BY <1>2 DEF ZInv, CollectsWhatIs
  <1>4. HoldsWhatIs(z)'
    BY DEF ZInv, HoldsWhatIs, Busy, BusyWith
  <1> QED  BY <1>1, <1>3, <1>4

\* A thread begins with a zone: the zone is unsure from now on if another is busy with
\* it, else this is the one thread.
LEMMA BeginKeeps ==
    ASSUME TInv, CInv, NEW w \in Writers, NEW y \in Zones, NEW id \in Ids, Begin(w, y, id),
           db'[y] = id, \A z \in Zones \ {y} : db'[z] = db[z]
    PROVE  CInv'
  <1> SUFFICES ASSUME NEW z \in Zones PROVE ZInv(z)'
    BY DEF CInv
  <1>0. /\ at \in [Writers -> {"idle", "log", "write"}] /\ op \in [Writers -> Ops \cup {NoOp}]
        /\ at' = [at EXCEPT ![w] = "log"] /\ op' = [op EXCEPT ![w] = [zone |-> y, id |-> id]]
        /\ at[w] = "idle"
        /\ UNCHANGED <<cache, updates, phase, list, todo>>
    BY DEF Begin, TInv, TypeOK, cacheVars, refreshVars
  <1>1. CASE z # y
    <2>1. \A v \in Writers : BusyWith(v, z)' <=> BusyWith(v, z)
      BY <1>0, <1>1 DEF BusyWith
    <2>2. \A v \in Writers : BusyWith(v, z) => op'[v].id = op[v].id
      BY <1>0 DEF BusyWith
    <2>3. Unlogged(z)' <=> Unlogged(z)
      BY <1>0, <1>1 DEF Unlogged
    <2>4. z \notin unsure' => z \notin unsure
      BY <1>1 DEF Begin
    <2> QED  BY <1>0, <1>1, <2>1, <2>2, <2>3, <2>4, ZoneUntouched DEF CInv
  <1>2. CASE z = y /\ Busy(y)
    BY <1>2 DEF Begin, ZInv
  <1>3. CASE z = y /\ ~Busy(y)
    <2>1. \A v \in Writers : BusyWith(v, z)' <=> v = w
      BY <1>0, <1>3 DEF BusyWith, Busy
    <2>2. Unlogged(z)'
      BY <1>0, <1>3 DEF Unlogged
    <2>3. Busy(z)'
      BY <1>0, <1>3 DEF Busy
    <2>4. op'[w].id = db'[z]
      BY <1>0, <1>3
    <2> QED  BY <2>1, <2>2, <2>3, <2>4 DEF ZInv, OneThread, StoresWhatIs, CollectsWhatIs, HoldsWhatIs
  <1> QED  BY <1>1, <1>2, <1>3

\* Every step keeps the zones coherent that are not unsure.
LEMMA CoherentStep == Alone /\ TInv /\ PendingWhileReplacing /\ CInv /\ [Next]_vars => CInv'
  <1> SUFFICES ASSUME Alone, TInv, PendingWhileReplacing, CInv, [Next]_vars PROVE CInv'
    OBVIOUS
  <1>1. ASSUME NEW w \in Writers, NEW y \in Zones, Create(w, y) PROVE CInv'
    <2>1. ops + 1 \in Ids
      BY <1>1, ZoneAssumption DEF Create, Begin, Operation, TInv, TypeOK, Ids
    <2>2. db'[y] = ops + 1 /\ \A z \in Zones \ {y} : db'[z] = db[z]
      BY <1>1 DEF Create, TInv, TypeOK
    <2> QED  BY <1>1, <2>1, <2>2, BeginKeeps DEF Create
  <1>2. ASSUME NEW w \in Writers, NEW y \in Zones, Delete(w, y) PROVE CInv'
    <2>1. Absent \in Ids
      BY ZoneAssumption DEF Absent, Ids
    <2>2. db'[y] = Absent /\ \A z \in Zones \ {y} : db'[z] = db[z]
      BY <1>2 DEF Delete, TInv, TypeOK
    <2> QED  BY <1>2, <2>1, <2>2, BeginKeeps DEF Delete
  <1>3. ASSUME NEW w \in Writers, NEW y \in Zones, Renew(w, y) PROVE CInv'
    <2>1. db[y] \in Ids
      BY DEF TInv, TypeOK
    <2> QED  BY <1>3, <2>1, BeginKeeps DEF Renew
  <1>4. ASSUME NEW w \in Writers, Log(w) PROVE CInv'
    <2> SUFFICES ASSUME NEW z \in Zones PROVE ZInv(z)'
      BY DEF CInv
    <2>0. /\ at \in [Writers -> {"idle", "log", "write"}]
          /\ at' = [at EXCEPT ![w] = "write"] /\ at[w] = "log" /\ phase[Main] # "swap"
          /\ op[w] \in Ops
          /\ UNCHANGED <<op, db, cache, unsure, pending, phase, list, todo>>
      BY <1>4, OnlyMain DEF Log, TInv, TypeOK, OpsNamed, refreshVars, historyVars
    <2>1. ZInv(z)
      BY DEF CInv
    <2>2. \A v \in Writers : BusyWith(v, z)' <=> BusyWith(v, z)
      BY <2>0 DEF BusyWith
    <2>3. Busy(z)' <=> Busy(z)
      BY <2>0 DEF Busy
    <2> SUFFICES ASSUME z \notin unsure PROVE CollectsWhatIs(z)'
      BY <2>0, <2>1, <2>2, <2>3 DEF ZInv, OneThread, StoresWhatIs, HoldsWhatIs
    <2>4. CASE phase[Main] = "idle"
      BY <2>0, <2>4 DEF CollectsWhatIs
    <2>5. CASE phase[Main] # "idle" /\ op[w].zone = z
      <3>1. updates' = Append(updates, op[w])
        BY <1>4, <2>5 DEF Log, Logged, PendingWhileReplacing
      <3>2. op[w].id = db[z]
        BY <2>0, <2>1, <2>5 DEF ZInv, StoresWhatIs, BusyWith
      <3>3. WillHold(z, db[z], db[z])' /\ WillHold(z, list[Main][z], db[z])'
        BY <2>0, <2>5, <3>1, <3>2, AppendedHolds DEF TInv
      <3> QED  BY <2>0, <3>3 DEF CollectsWhatIs
    <2>6. CASE phase[Main] # "idle" /\ op[w].zone # z
      <3>1. updates' = Append(updates, op[w])
        BY <1>4, <2>6 DEF Log, Logged, PendingWhileReplacing
      <3>2. Unlogged(z)' <=> Unlogged(z)
        BY <2>0, <2>6 DEF Unlogged
      <3>3. /\ WillHold(z, db[z], db[z]) => WillHold(z, db[z], db[z])'
            /\ WillHold(z, list[Main][z], db[z]) => WillHold(z, list[Main][z], db[z])'
        BY <2>0, <2>6, <3>1, AppendedHolds DEF TInv
      <3> QED  BY <2>0, <2>1, <3>2, <3>3 DEF ZInv, CollectsWhatIs
    <2> QED  BY <2>4, <2>5, <2>6
  <1>5. ASSUME NEW w \in Writers, Write(w) PROVE CInv'
    <2> SUFFICES ASSUME NEW z \in Zones PROVE ZInv(z)'
      BY DEF CInv
    <2>0. /\ at \in [Writers -> {"idle", "log", "write"}] /\ op \in [Writers -> Ops \cup {NoOp}]
          /\ at' = [at EXCEPT ![w] = "idle"] /\ op' = [op EXCEPT ![w] = NoOp] /\ at[w] = "write"
          /\ cache \in [Zones -> Ids] /\ cache' = [cache EXCEPT ![op[w].zone] = op[w].id]
          /\ UNCHANGED <<db, unsure, updates, phase, list, todo>>
      BY <1>5 DEF Write, TInv, TypeOK, refreshVars, historyVars
    <2>1. ZInv(z)
      BY DEF CInv
    <2>2. CASE op[w].zone # z
      <3>1. \A v \in Writers : BusyWith(v, z)' <=> BusyWith(v, z)
        BY <2>0, <2>2 DEF BusyWith
      <3>2. \A v \in Writers : BusyWith(v, z) => op'[v].id = op[v].id
        BY <2>0, <2>2 DEF BusyWith
      <3>3. Unlogged(z)' <=> Unlogged(z)
        BY <2>0, <2>2 DEF Unlogged
      <3>4. cache'[z] = cache[z]
        BY <2>0, <2>2
      <3> QED  BY <2>0, <2>1, <3>1, <3>2, <3>3, <3>4, ZoneUntouched
    <2>3. CASE op[w].zone = z
      <3> SUFFICES ASSUME z \notin unsure
                   PROVE  OneThread(z)' /\ StoresWhatIs(z)' /\ CollectsWhatIs(z)' /\ HoldsWhatIs(z)'
        BY <2>0 DEF ZInv
      <3>1. BusyWith(w, z) /\ \A v \in Writers : BusyWith(v, z) => v = w
        BY <2>0, <2>1, <2>3 DEF ZInv, OneThread, BusyWith
      <3>2. \A v \in Writers : ~BusyWith(v, z)'
        BY <2>0, <3>1 DEF BusyWith
      <3>3. ~Unlogged(z)
        BY <2>0, <3>1 DEF Unlogged, BusyWith
      <3>4. CollectsWhatIs(z)'
        <4>1. /\ WillHold(z, db[z], db[z])' <=> WillHold(z, db[z], db[z])
              /\ WillHold(z, list[Main][z], db[z])' <=> WillHold(z, list[Main][z], db[z])
          BY <2>0 DEF WillHold, NotUpdated, IsLast
        <4> QED  BY <2>0, <2>1, <3>3, <4>1 DEF ZInv, CollectsWhatIs
      <3>5. cache'[z] = db'[z]
        BY <2>0, <2>1, <2>3, <3>1 DEF ZInv, StoresWhatIs
      <3> QED  BY <3>2, <3>4, <3>5 DEF OneThread, StoresWhatIs, HoldsWhatIs
    <2> QED  BY <2>2, <2>3
  <1>6. ASSUME NEW y \in Zones, External(y) PROVE CInv'
    <2> SUFFICES ASSUME NEW z \in Zones PROVE ZInv(z)'
      BY DEF CInv
    <2>0. /\ UNCHANGED <<at, op, cache, updates, phase, list, todo>>
          /\ unsure' = unsure \cup {y}
          /\ z # y => db'[z] = db[z]
      BY <1>6 DEF External, TInv, TypeOK, cacheVars, refreshVars
    <2>1. CASE z = y
      BY <2>0, <2>1 DEF ZInv
    <2>2. CASE z # y
      <3>1. /\ \A w \in Writers : BusyWith(w, z)' <=> BusyWith(w, z)
            /\ Unlogged(z)' <=> Unlogged(z)
        BY <2>0 DEF BusyWith, Unlogged
      <3> QED  BY <2>0, <2>2, <3>1, ZoneUntouched DEF CInv
    <2> QED  BY <2>1, <2>2
  <1>7. ASSUME UNCHANGED <<at, op, db, unsure>>, NEW z \in Zones, ZInv(z),
               z \notin unsure /\ ~Unlogged(z) => CollectsWhatIs(z)',
               cache'[z] = cache[z] \/ (z \notin unsure /\ ~Busy(z) => cache'[z] = db[z])
        PROVE  ZInv(z)'
    <2>1. /\ \A w \in Writers : BusyWith(w, z)' <=> BusyWith(w, z)
          /\ Unlogged(z)' <=> Unlogged(z)
          /\ Busy(z)' <=> Busy(z)
      BY <1>7 DEF BusyWith, Unlogged, Busy
    <2> QED  BY <1>7, <2>1 DEF ZInv, OneThread, StoresWhatIs, CollectsWhatIs, HoldsWhatIs
  <1>8. CASE SetReplacePending(Main)
    <2> SUFFICES ASSUME NEW z \in Zones PROVE ZInv(z)'
      BY DEF CInv
    <2>1. NotUpdated(z)' /\ phase'[Main] = "collect" /\ UNCHANGED <<at, op, db, unsure, cache>>
      BY <1>8 DEF TInv, TypeOK, Refreshers, Goto, SetReplacePending, NotUpdated, historyVars
    <2>2. CollectsWhatIs(z)'
      BY <2>1 DEF CollectsWhatIs, WillHold
    <2> QED  BY <1>7, <2>1, <2>2 DEF CInv
  <1>9. CASE Collect(Main)
    <2> SUFFICES ASSUME NEW z \in Zones PROVE ZInv(z)'
      BY DEF CInv
    <2>1. /\ phase[Main] = "collect" /\ phase'[Main] = "replace" /\ list'[Main] = db
          /\ UNCHANGED <<at, op, db, unsure, cache, updates>>
      BY <1>9 DEF TInv, TypeOK, Refreshers, Goto, Collect, cacheVars, historyVars
    <2>2. ASSUME WillHold(z, db[z], db[z]) PROVE WillHold(z, list[Main][z], db[z])'
      BY <2>1, <2>2 DEF WillHold, NotUpdated, IsLast
    <2>3. z \notin unsure /\ ~Unlogged(z) => CollectsWhatIs(z)'
      BY <2>1, <2>2 DEF CInv, ZInv, CollectsWhatIs
    <2> QED  BY <1>7, <2>1, <2>3 DEF CInv
  <1>10. CASE CollectFails(Main)
    <2> SUFFICES ASSUME NEW z \in Zones PROVE ZInv(z)'
      BY DEF CInv
    <2>1. phase'[Main] = "idle" /\ UNCHANGED <<at, op, db, unsure, cache>>
      BY <1>10 DEF TInv, TypeOK, Refreshers, Goto, CollectFails, cacheVars, historyVars
    <2>2. CollectsWhatIs(z)'
      BY <2>1 DEF CollectsWhatIs
    <2> QED  BY <1>7, <2>1, <2>2 DEF CInv
  <1>11. CASE Replace(Main)
    <2> SUFFICES ASSUME NEW z \in Zones PROVE ZInv(z)'
      BY DEF CInv
    <2>1. /\ phase[Main] = "replace" /\ phase'[Main] = "swap" /\ list'[Main][z] = Updated(Main, z)
          /\ UNCHANGED <<at, op, db, unsure, cache>>
      BY <1>11 DEF TInv, TypeOK, Refreshers, Goto, Replace, cacheVars, historyVars
    <2>2. ASSUME z \notin unsure, ~Unlogged(z) PROVE list'[Main][z] = db[z]
      <3>1. WillHold(z, list[Main][z], db[z])
        BY <2>1, <2>2 DEF CInv, ZInv, CollectsWhatIs
      <3> QED  BY <2>1, <3>1, UpdatedHolds DEF TInv
    <2>3. z \notin unsure /\ ~Unlogged(z) => CollectsWhatIs(z)'
      BY <2>1, <2>2 DEF CollectsWhatIs
    <2> QED  BY <1>7, <2>1, <2>3 DEF CInv
  <1>12. ASSUME NEW y \in Zones, SwapMap(Main, y) PROVE CInv'
    <2> SUFFICES ASSUME NEW z \in Zones PROVE ZInv(z)'
      BY DEF CInv
    <2>1. /\ phase[Main] = "swap" /\ y \in todo[Main] /\ todo'[Main] = todo[Main] \ {y}
          /\ cache \in [Zones -> Ids] /\ cache' = [cache EXCEPT ![y] = list[Main][y]]
          /\ UNCHANGED <<at, op, db, unsure, list, phase>>
      BY <1>12 DEF TInv, TypeOK, Refreshers, SwapMap, historyVars
    <2>2. z \notin unsure /\ ~Unlogged(z) => CollectsWhatIs(z)'
      BY <2>1 DEF CInv, ZInv, CollectsWhatIs
    <2>3. CASE z # y
      BY <1>7, <2>1, <2>2, <2>3 DEF CInv
    <2>4. CASE z = y
      <3>1. ~Busy(z) => ~Unlogged(z)
        BY DEF Busy, Unlogged
      <3>2. z \notin unsure /\ ~Busy(z) => cache'[z] = db[z]
        BY <2>1, <2>4, <3>1 DEF CInv, ZInv, CollectsWhatIs
      <3> QED  BY <1>7, <2>1, <2>2, <3>2 DEF CInv
    <2> QED  BY <2>3, <2>4
  <1>13. CASE EndReplace(Main)
    <2> SUFFICES ASSUME NEW z \in Zones PROVE ZInv(z)'
      BY DEF CInv
    <2>1. phase'[Main] = "idle" /\ UNCHANGED <<at, op, db, unsure, cache>>
      BY <1>13 DEF TInv, TypeOK, Refreshers, Goto, EndReplace, historyVars
    <2>2. CollectsWhatIs(z)'
      BY <2>1 DEF CollectsWhatIs
    <2> QED  BY <1>7, <2>1, <2>2 DEF CInv
  <1>14. CASE UNCHANGED vars
    <2> SUFFICES ASSUME NEW z \in Zones PROVE ZInv(z)'
      BY DEF CInv
    <2>1. UNCHANGED <<at, op, db, unsure, cache, updates, phase, list, todo>>
      BY <1>14 DEF vars, cacheVars, refreshVars, historyVars
    <2>2. /\ \A w \in Writers : BusyWith(w, z)' <=> BusyWith(w, z)
          /\ Unlogged(z)' <=> Unlogged(z)
      BY <2>1 DEF BusyWith, Unlogged
    <2> QED  BY <2>1, <2>2, ZoneUntouched DEF CInv
  <1> QED
    BY <1>1, <1>2, <1>3, <1>4, <1>5, <1>6, <1>8, <1>9, <1>10, <1>11, <1>12, <1>13, <1>14,
       OnlyMain DEF Next, RefreshStep, WriterStep

\* A zone that one thread at a time changes is in the cache as in the backend
\* whenever no thread is busy with it, for any zones and threads: add(), remove() and
\* replace() lose no change to each other.
THEOREM ZoneCoherent == Alone => (Spec => []Coherent)
  <1> SUFFICES ASSUME Alone PROVE Spec => []Coherent
    OBVIOUS
  <1>1. TInv /\ CInv => Coherent
    BY DEF CInv, ZInv, HoldsWhatIs, Coherent
  <1> QED
    BY <1>1, TypeInit, TypeStep, PendingInit, PendingStep, CoherentInit, CoherentStep, PTL DEF Spec

-----------------------------------------------------------------------------
(* The counter.                                                            *)

\* What add() and remove() add to the counter is what they add to the map.
LEMMA CountedRight ==
    ASSUME NEW map \in [Zones -> Ids], NEW z \in Zones, NEW id \in Ids,
           NEW new, new = [map EXCEPT ![z] = id]
    PROVE  Cardinality(Present(new)) = Cardinality(Present(map)) + Counted(map[z], id)
  <1>0. IsFiniteSet(Present(map)) /\ Cardinality(Present(map)) \in Nat
    BY PresentFinite
  <1>1. CASE map[z] = Absent /\ id # Absent
    <2>1. Present(new) = Present(map) \cup {z} /\ z \notin Present(map)
      BY <1>1 DEF Present
    <2>2. Counted(map[z], id) = 1
      BY <1>1 DEF Counted
    <2> QED  BY <1>0, <2>1, <2>2, FS_AddElement
  <1>2. CASE map[z] # Absent /\ id = Absent
    <2>1. Present(new) = Present(map) \ {z} /\ z \in Present(map)
      BY <1>2 DEF Present
    <2>2. Counted(map[z], id) = -1
      BY <1>2 DEF Counted
    <2> QED  BY <1>0, <2>1, <2>2, FS_RemoveElement
  <1>3. CASE map[z] = Absent <=> id = Absent
    <2>1. Present(new) = Present(map)
      BY <1>3 DEF Present
    <2>2. Counted(map[z], id) = 0
      BY <1>3 DEF Counted
    <2> QED  BY <1>0, <2>1, <2>2
  <1> QED  BY <1>1, <1>2, <1>3

\* The counter starts with the empty cache.
LEMMA SizeInit == Init => SInv
  <1> SUFFICES ASSUME Init PROVE SInv
    OBVIOUS
  <1>1. Present(cache) = {}
    BY DEF Init, Present
  <1>2. size = Cardinality(Present(cache))
    BY <1>1, FS_EmptySet DEF Init
  <1> QED  BY <1>2 DEF Init, Refreshers, SInv, SureWhileBusy, StoresTheSame, Replaced, Counts

\* A change begins: without a race, no other thread is busy with its zone.
LEMMA BeginCounts ==
    ASSUME TInv, SInv, NEW w \in Writers, NEW y \in Zones, NEW id, Begin(w, y, id)
    PROVE  SInv'
  <1>0. /\ at \in [Writers -> {"idle", "log", "write"}] /\ op \in [Writers -> Ops \cup {NoOp}]
        /\ at' = [at EXCEPT ![w] = "log"] /\ op' = [op EXCEPT ![w] = [zone |-> y, id |-> id]]
        /\ UNCHANGED <<cache, size, phase, list, todo>>
        /\ ~raced' => ~raced /\ ~Busy(y) /\ unsure' = unsure \ {y}
    BY DEF Begin, TInv, TypeOK, cacheVars, refreshVars
  <1>1. SureWhileBusy'
    BY <1>0 DEF SInv, SureWhileBusy, Busy
  <1>2. StoresTheSame'
    BY <1>0 DEF SInv, StoresTheSame
  <1>3. Replaced' /\ Counts'
    BY <1>0 DEF SInv, Replaced, Counts, Present
  <1> QED  BY <1>1, <1>2, <1>3 DEF SInv

\* Every step keeps the counter exact as long as there is no race.
LEMMA SizeStep == Alone /\ TInv /\ CInv /\ CInv' /\ SInv /\ [Next]_vars => SInv'
  <1> SUFFICES ASSUME Alone, TInv, CInv, CInv', SInv, [Next]_vars PROVE SInv'
    OBVIOUS
  <1>1. ASSUME NEW w \in Writers, NEW y \in Zones, Create(w, y) \/ Delete(w, y) \/ Renew(w, y)
        PROVE  SInv'
    BY <1>1, BeginCounts DEF Create, Delete, Renew
  <1>2. ASSUME NEW w \in Writers, Log(w) PROVE SInv'
    <2>1. /\ at \in [Writers -> {"idle", "log", "write"}]
          /\ at' = [at EXCEPT ![w] = "write"] /\ at[w] = "log" /\ phase[Main] # "swap"
          /\ UNCHANGED <<op, cache, size, unsure, raced, phase>>
      BY <1>2, OnlyMain DEF Log, TInv, TypeOK, refreshVars, historyVars
    <2>2. SureWhileBusy'
      BY <2>1 DEF SInv, SureWhileBusy
    <2> QED  BY <2>1, <2>2 DEF SInv, StoresTheSame, Replaced, Counts, Present
  <1>3. ASSUME NEW w \in Writers, Write(w) PROVE SInv'
    <2>1. /\ at \in [Writers -> {"idle", "log", "write"}] /\ op \in [Writers -> Ops \cup {NoOp}]
          /\ at' = [at EXCEPT ![w] = "idle"] /\ op' = [op EXCEPT ![w] = NoOp] /\ at[w] = "write"
          /\ cache \in [Zones -> Ids] /\ cache' = [cache EXCEPT ![op[w].zone] = op[w].id]
          /\ size' = size + Counted(cache[op[w].zone], op[w].id)
          /\ UNCHANGED <<unsure, raced, phase, list, todo>>
      BY <1>3 DEF Write, TInv, TypeOK, refreshVars, historyVars
    <2>2. op[w].zone \in Zones /\ op[w].id \in Ids
      <3>1. op[w] \in Ops
        BY <2>1 DEF TInv, OpsNamed
      <3> QED  BY <3>1 DEF Ops
    <2>3. SureWhileBusy'
      BY <2>1 DEF SInv, SureWhileBusy
    <2>4. StoresTheSame'
      BY <2>1 DEF SInv, StoresTheSame
    <2>5. Replaced'
      BY <2>1, <2>2 DEF SInv, StoresTheSame, Replaced
    <2>6. Counts'
      <3>1. Cardinality(Present(cache')) = Cardinality(Present(cache)) + Counted(cache[op[w].zone], op[w].id)
        <4>1. cache \in [Zones -> Ids] /\ cache' = [cache EXCEPT ![op[w].zone] = op[w].id]
          BY <2>1
        <4> QED  BY <2>2, <4>1, CountedRight, Zenon
      <3>2. Cardinality(Present(cache))' = Cardinality(Present(cache'))
        BY DEF Present
      <3> QED  BY <2>1, <3>1, <3>2 DEF SInv, Counts
    <2> QED  BY <2>3, <2>4, <2>5, <2>6 DEF SInv
  <1>4. ASSUME NEW y \in Zones, External(y) PROVE SInv'
    <2>1. /\ UNCHANGED <<at, op, cache, size, phase, list, todo>>
          /\ unsure' = unsure \cup {y}
          /\ ~raced' => ~raced /\ ~Busy(y)
      BY <1>4 DEF External, cacheVars, refreshVars
    <2>2. SureWhileBusy'
      BY <2>1 DEF SInv, SureWhileBusy, Busy
    <2> QED  BY <2>1, <2>2 DEF SInv, StoresTheSame, Replaced, Counts, Present
  <1>5. CASE SetReplacePending(Main) \/ Collect(Main) \/ CollectFails(Main)
    <2>1. /\ phase[Main] # "swap" /\ phase'[Main] # "swap"
          /\ UNCHANGED <<at, op, cache, size, unsure, raced>>
      BY <1>5 DEF TInv, TypeOK, Refreshers, Goto, SetReplacePending, Collect, CollectFails, cacheVars, historyVars
    <2> QED  BY <2>1 DEF SInv, SureWhileBusy, StoresTheSame, Replaced, Counts, Present
  <1>6. CASE Replace(Main)
    <2>1. /\ phase'[Main] = "swap" /\ todo'[Main] = Zones
          /\ UNCHANGED <<at, op, cache, size, unsure, raced>>
      BY <1>6 DEF TInv, TypeOK, Refreshers, Goto, Replace, cacheVars, historyVars
    <2>2. SureWhileBusy'
      BY <2>1 DEF SInv, SureWhileBusy
    <2>3. ASSUME ~raced', NEW w \in Writers, at'[w] = "write" PROVE list'[Main][op'[w].zone] = op'[w].id
      <3> DEFINE z == op[w].zone
      <3>1. op[w] \in Ops
        BY <2>1, <2>3 DEF TInv, OpsNamed
      <3>2. z \in Zones /\ z \notin unsure
        BY <2>1, <2>3, <3>1 DEF Ops, SInv, SureWhileBusy
      <3>3. \A v \in Writers : BusyWith(v, z) => v = w
        BY <2>1, <2>3, <3>2 DEF CInv, ZInv, OneThread, BusyWith
      <3>4. ~Unlogged(z)'
        BY <2>1, <2>3, <3>3 DEF Unlogged, BusyWith
      <3>5. PICK y \in Zones : y = z
        BY <3>2
      <3>6. ZInv(y)' /\ y \notin unsure' /\ ~Unlogged(y)' /\ BusyWith(w, y)'
        BY <2>1, <2>3, <3>2, <3>4, <3>5 DEF CInv, BusyWith, Unlogged
      <3>7. list'[Main][y] = db'[y] /\ op'[w].id = db'[y]
        BY <2>1, <3>6 DEF ZInv, CollectsWhatIs, StoresWhatIs
      <3> QED  BY <2>1, <3>5, <3>7
    <2>4. StoresTheSame'
      BY <2>3 DEF StoresTheSame
    <2> QED  BY <2>1, <2>2, <2>4 DEF SInv, Replaced, Counts
  <1>7. ASSUME NEW y \in Zones, SwapMap(Main, y) PROVE SInv'
    <2>1. /\ phase[Main] = "swap" /\ todo'[Main] = todo[Main] \ {y} /\ cache \in [Zones -> Ids]
          /\ cache' = [cache EXCEPT ![y] = list[Main][y]]
          /\ UNCHANGED <<at, op, list, phase, unsure, raced>>
      BY <1>7 DEF TInv, TypeOK, Refreshers, SwapMap, historyVars
    <2>2. SureWhileBusy' /\ StoresTheSame'
      BY <2>1 DEF SInv, SureWhileBusy, StoresTheSame
    <2>3. Replaced'
      BY <2>1 DEF SInv, Replaced
    <2> QED  BY <2>1, <2>2, <2>3 DEF SInv, Counts
  <1>8. CASE EndReplace(Main)
    <2>1. /\ phase[Main] = "swap" /\ phase'[Main] = "idle" /\ todo[Main] = {} /\ size' = Cardinality(Present(list[Main]))
          /\ UNCHANGED <<at, op, cache, unsure, raced>>
      BY <1>8 DEF TInv, TypeOK, Refreshers, Goto, EndReplace, historyVars
    <2>2. ASSUME ~raced' PROVE size' = Cardinality(Present(cache))'
      <3>1. Present(list[Main]) = Present(cache)
        BY <2>1, <2>2 DEF SInv, Replaced, Present
      <3>2. Cardinality(Present(cache))' = Cardinality(Present(cache))
        BY <2>1 DEF Present
      <3> QED  BY <2>1, <3>1, <3>2
    <2>3. SureWhileBusy'
      BY <2>1 DEF SInv, SureWhileBusy
    <2> QED  BY <2>1, <2>2, <2>3 DEF SInv, StoresTheSame, Replaced, Counts
  <1>9. CASE UNCHANGED vars
    BY <1>9 DEF vars, cacheVars, refreshVars, historyVars,
                SInv, SureWhileBusy, StoresTheSame, Replaced, Counts, Present
  <1> QED
    BY <1>1, <1>2, <1>3, <1>4, <1>5, <1>6, <1>7, <1>8, <1>9, OnlyMain
       DEF Next, RefreshStep, WriterStep

\* zone-cache-size is the number of zones in the maps as long as changes of one zone
\* do not overlap, for any zones and threads.
THEOREM SizeIsExact == Alone => (Spec => []SizeExact)
  <1> SUFFICES ASSUME Alone PROVE Spec => []SizeExact
    OBVIOUS
  <1>1. SInv => SizeExact
    BY OnlyMain DEF SInv, Counts, SizeExact
  <1> QED
    BY <1>1, TypeInit, TypeStep, PendingInit, PendingStep, CoherentInit, CoherentStep,
       SizeInit, SizeStep, PTL DEF Spec
=============================================================================
