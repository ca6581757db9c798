----------------------------- MODULE ZoneCache -----------------------------
(***************************************************************************)
(* The zone cache of the authoritative server, the list of all zones with  *)
(* their ids. A zone that is not in it does not exist for the questions.   *)
(* The main thread replaces it at intervals by what the backend lists, and *)
(* so does the control channel for "pdns_control rediscover". Threads that *)
(* create or delete a zone change the backend first and the cache          *)
(* afterwards. What they change while the list is being read is kept in    *)
(* d_pendingUpdates and applied to the list before it is used.             *)
(*                                                                         *)
(* A step is one transaction of the backend or one critical section.       *)
(* replace() holds the lock of d_pending until it has replaced all maps,   *)
(* one after the other; here every zone has a map of its own. There is one *)
(* backend. A zone that is created again has a new id. Views and networks  *)
(* are left out.                                                           *)
(*                                                                         *)
(* Definitions named X_Y are mutations of X.                               *)
(***************************************************************************)
EXTENDS Integers, Sequences, FiniteSets

CONSTANTS Zones,
          Writers,      \* threads that change zones
          Main,         \* the main thread
          Rediscoverers,\* threads that carry out "rediscover": {} or the control channel
          MaxOps,       \* bound: operations begun, changes from outside included
          MaxFailures,  \* bound: failed attempts to list the zones
          NoZone

Absent == 0     \* as an id: no such zone

Refreshers == {Main} \cup Rediscoverers

ASSUME ZoneAssumption ==
    /\ IsFiniteSet(Zones)
    /\ NoZone \notin Zones
    /\ MaxOps \in Nat
    /\ MaxFailures \in Nat

VARIABLES
    db,         \* per zone: the id in the backend, or Absent
    cache,      \* per zone: the id in d_maps, or Absent
    size,       \* zone-cache-size
    pending,    \* d_replacePending
    updates,    \* d_pendingUpdates
    phase,      \* of a refresher: where it is in updateZoneCache,
    list,       \* what it has read, then the new maps,
    todo,       \* zones whose map it has still to replace
    at, op,     \* of a writer: where it is, the zone and the id it will store
    ops,        \* operations begun
    failures,
    unsure,     \* history: zones whose last change overlapped with another, or came from
                \* outside
    raced       \* history: two changes of one zone have overlapped

cacheVars   == <<cache, size, pending, updates>>
refreshVars == <<phase, list, todo, failures>>
historyVars == <<unsure, raced>>
vars == <<db, cacheVars, refreshVars, at, op, ops, historyVars>>

Ids   == 0 .. MaxOps
Ops   == [zone : Zones, id : Ids]
NoOp  == [zone |-> NoZone, id |-> Absent]

\* The types of all variables; updates are only kept while a replacement is pending.
TypeOK ==
    /\ db \in [Zones -> Ids]
    /\ cache \in [Zones -> Ids]
    /\ size \in Int
    /\ pending \in BOOLEAN
    /\ updates \in Seq(Ops)
    /\ ~pending => updates = <<>>
    /\ phase \in [Refreshers -> {"idle", "collect", "replace", "swap"}]
    /\ list \in [Refreshers -> [Zones -> Ids]]
    /\ todo \in [Refreshers -> SUBSET Zones]
    /\ at \in [Writers -> {"idle", "log", "write"}]
    /\ op \in [Writers -> Ops \cup {NoOp}]
    /\ ops \in 0 .. MaxOps
    /\ failures \in 0 .. MaxFailures
    /\ unsure \subseteq Zones
    /\ raced \in BOOLEAN

Present(map) == {z \in Zones : map[z] # Absent}

\* After start-up, when the cache has been filled.
Init ==
    /\ db = [z \in Zones |-> Absent]
    /\ cache = db
    /\ size = 0
    /\ pending = FALSE
    /\ updates = <<>>
    /\ phase = [r \in Refreshers |-> "idle"]
    /\ list = [r \in Refreshers |-> [z \in Zones |-> Absent]]
    /\ todo = [r \in Refreshers |-> {}]
    /\ at = [w \in Writers |-> "idle"]
    /\ op = [w \in Writers |-> NoOp]
    /\ ops = 0
    /\ failures = 0
    /\ unsure = {}
    /\ raced = FALSE

-----------------------------------------------------------------------------
(* Changes of a zone.                                                      *)

Busy(z) == \E w \in Writers : at[w] # "idle" /\ op[w].zone = z

\* replace() keeps the lock of d_pending while it moves the maps in.
LockFree == \A r \in Refreshers : phase[r] # "swap"

Operation ==
    /\ ops < MaxOps
    /\ ops' = ops + 1

\* A thread that has the zone for itself knows what is in the backend.
Begin(w, z, id) ==
    /\ at[w] = "idle"
    /\ Operation
    /\ at' = [at EXCEPT ![w] = "log"]
    /\ op' = [op EXCEPT ![w] = [zone |-> z, id |-> id]]
    /\ unsure' = IF Busy(z) THEN unsure \cup {z} ELSE unsure \ {z}
    /\ raced' = (raced \/ Busy(z))
    /\ UNCHANGED <<cacheVars, refreshVars>>

\* The API, a catalog zone or a NOTIFY of an autoprimary creates a zone.
Create(w, z) ==
    /\ db[z] = Absent
    /\ db' = [db EXCEPT ![z] = ops + 1]
    /\ Begin(w, z, ops + 1)

Delete(w, z) ==
    /\ db[z] # Absent
    /\ db' = [db EXCEPT ![z] = Absent]
    /\ Begin(w, z, Absent)

\* The primary found a new serial, or the API flushes the zone: what is in the
\* backend is put into the cache. (The flush of a zone that is not in the backend
\* calls remove() with the name of the DomainInfo that was not filled, which is not
\* the zone: it leaves the cache as it is.)
Renew(w, z) ==
    /\ db[z] # Absent
    /\ Begin(w, z, db[z])
    /\ UNCHANGED db

\* add() and remove(): first the update is kept if a replacement is pending ...
Logged_AddsOnly(w) ==
    IF pending /\ op[w].id # Absent THEN Append(updates, op[w]) ELSE updates
Logged(w) == IF pending THEN Append(updates, op[w]) ELSE updates

Log(w) ==
    /\ at[w] = "log"
    /\ LockFree
    /\ updates' = Logged(w)
    /\ at' = [at EXCEPT ![w] = "write"]
    /\ UNCHANGED <<db, cache, size, pending, refreshVars, op, ops, historyVars>>

\* ... then the map is changed.
Counted_Always(old, id) == IF id # Absent THEN 1 ELSE -1
Counted(old, id) ==
    CASE old = Absent /\ id # Absent -> 1
      [] old # Absent /\ id = Absent -> -1
      [] OTHER -> 0

Write(w) ==
    /\ at[w] = "write"
    /\ cache' = [cache EXCEPT ![op[w].zone] = op[w].id]
    /\ size' = size + Counted(cache[op[w].zone], op[w].id)
    /\ at' = [at EXCEPT ![w] = "idle"]
    /\ op' = [op EXCEPT ![w] = NoOp]
    /\ UNCHANGED <<db, pending, updates, refreshVars, ops, historyVars>>

\* Another program changes the backend.
External(z) ==
    /\ Operation
    /\ db' = [db EXCEPT ![z] = IF @ = Absent THEN ops + 1 ELSE Absent]
    /\ unsure' = unsure \cup {z}
    /\ raced' = (raced \/ Busy(z))
    /\ UNCHANGED <<cacheVars, refreshVars, at, op>>

-----------------------------------------------------------------------------
(* A refresh: updateZoneCache.                                             *)

Goto(r, p) == phase' = [phase EXCEPT ![r] = p]

\* What is left of an attempt that failed is forgotten.
SetReplacePending_OnlyOnce(r) ==
    /\ phase[r] = "idle"
    /\ LockFree
    /\ pending' = TRUE
    /\ IF pending THEN UNCHANGED <<updates, phase>> ELSE updates' = <<>> /\ Goto(r, "collect")
    /\ UNCHANGED <<db, cache, size, list, todo, failures, at, op, ops, historyVars>>
SetReplacePending(r) ==
    /\ phase[r] = "idle"
    /\ LockFree
    /\ pending' = TRUE
    /\ updates' = <<>>
    /\ Goto(r, "collect")
    /\ UNCHANGED <<db, cache, size, list, todo, failures, at, op, ops, historyVars>>

\* getAllDomains
Collect(r) ==
    /\ phase[r] = "collect"
    /\ list' = [list EXCEPT ![r] = db]
    /\ Goto(r, "replace")
    /\ UNCHANGED <<db, cacheVars, todo, failures, at, op, ops, historyVars>>

\* ... throws: updates are kept until the next attempt forgets them.
CollectFails(r) ==
    /\ phase[r] = "collect"
    /\ failures < MaxFailures
    /\ failures' = failures + 1
    /\ Goto(r, "idle")
    /\ UNCHANGED <<db, cacheVars, list, todo, at, op, ops, historyVars>>

\* The last update of a zone wins over what the backend had listed.
IsLast(i, z) ==
    /\ updates[i].zone = z
    /\ \A j \in DOMAIN updates : updates[j].zone = z => j <= i

Updated(r, z) ==
    IF \E i \in DOMAIN updates : IsLast(i, z)
    THEN updates[CHOOSE i \in DOMAIN updates : IsLast(i, z)].id
    ELSE list[r][z]

\* replace() takes the lock of d_pending, asserts that a replacement is pending (if
\* not, the process ends there) and completes the new maps,
Replace(r) ==
    /\ phase[r] = "replace"
    /\ LockFree
    /\ pending
    /\ list' = [list EXCEPT ![r] = [z \in Zones |-> Updated(r, z)]]
    /\ todo' = [todo EXCEPT ![r] = Zones]
    /\ Goto(r, "swap")
    /\ UNCHANGED <<db, cacheVars, failures, at, op, ops, historyVars>>

\* moves them in one by one,
SwapMap(r, z) ==
    /\ phase[r] = "swap"
    /\ z \in todo[r]
    /\ cache' = [cache EXCEPT ![z] = list[r][z]]
    /\ todo' = [todo EXCEPT ![r] = @ \ {z}]
    /\ UNCHANGED <<db, size, pending, updates, phase, list, failures, at, op, ops, historyVars>>

\* and stores the number of zones.
EndReplace(r) ==
    /\ phase[r] = "swap"
    /\ todo[r] = {}
    /\ pending' = FALSE
    /\ updates' = <<>>
    /\ size' = Cardinality(Present(list[r]))
    /\ Goto(r, "idle")
    /\ UNCHANGED <<db, cache, list, todo, failures, at, op, ops, historyVars>>

RefreshStep(r) ==
    \/ SetReplacePending(r) \/ Collect(r) \/ CollectFails(r) \/ Replace(r) \/ EndReplace(r)
    \/ \E z \in Zones : SwapMap(r, z)

WriterStep(w) == Log(w) \/ Write(w)

Next ==
    \/ \E r \in Refreshers : RefreshStep(r)
    \/ \E w \in Writers : WriterStep(w)
    \/ \E w \in Writers, z \in Zones : Create(w, z) \/ Delete(w, z) \/ Renew(w, z)
    \/ \E z \in Zones : External(z)

Spec == Init /\ [][Next]_vars

\* The main thread refreshes for ever: its loop wakes up at each interval. Threads
\* finish what they have begun.
FairSpec == Spec /\ WF_vars(RefreshStep(Main)) /\ \A w \in Writers : WF_vars(WriterStep(w))

-----------------------------------------------------------------------------
(* Properties.                                                             *)

\* The assertion of replace(): "make sure we never forget to call setReplacePending()".
\* It must hold whenever a thread is about to call replace().
AssertionHolds == \A r \in Refreshers : phase[r] = "replace" => pending

\* When only the main thread refreshes, a zone whose last change was made by one thread
\* that had it for itself is in the cache exactly as in the backend as soon as that
\* thread is done, and stays so, whatever phases of a replacement the change overlapped
\* with: no question is refused for a zone that was just created, none is answered for
\* one just deleted. (The setReplacePending() of a rediscover forgets what has been kept
\* for a refresh that is under way.)
Coherent == \A z \in Zones \ unsure : ~Busy(z) => cache[z] = db[z]

\* When only the main thread refreshes and changes of one zone do not overlap, the
\* counter is exact outside the replacement of the maps, although replace() stores it
\* after it has released the maps and writers change it meanwhile.
SizeExact == ~raced /\ LockFree => size = Cardinality(Present(cache))

\* Races of two threads on a zone, and changes from outside, are repaired: when the
\* changes end, the cache ends up with what is in the backend, and counts it.
EventuallyCoherent ==
    <>[](cache = db) /\ <>[](LockFree => size = Cardinality(Present(db)))

=============================================================================
