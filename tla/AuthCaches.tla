----------------------------- MODULE AuthCaches -----------------------------
(***************************************************************************)
(* The packet cache and the query cache of the authoritative server, filled *)
(* by the threads that answer questions and purged when a zone changes, by *)
(* the operator, and by the cleaning that questions set off.               *)
(*                                                                         *)
(* A step is one critical section, one access to the database or one       *)
(* access to the atomic counter packetcache-size, which is not under the   *)
(* lock. All operations on the packet cache take the lock of d_cache, so   *)
(* its try-locks never fail; those of the query cache may. The zone is     *)
(* reduced to its version, a question to its name. An entry may expire at  *)
(* any moment; an expired entry of the query cache is as good as none, so  *)
(* it is removed. The packet cache is one map of one view, the query cache *)
(* is never full; it is purged shard by shard, which is one step here, as  *)
(* names do not affect each other.                                         *)
(*                                                                         *)
(* Definitions named X_Y are mutations of X.                               *)
(***************************************************************************)
EXTENDS Integers, FiniteSets, Sequences

CONSTANTS Names,        \* of the zone
          Workers,      \* threads with a question
          Purgers,      \* threads that purge
          MaxEntries,   \* max-packet-cache-entries
          Width,        \* the counter is an integer modulo Width, 2^64 in the code
          MaxVersion,   \* bound: versions of the zone
          NoName

ASSUME CacheAssumption ==
    /\ NoName \notin Names
    /\ MaxEntries \in Nat \ {0}
    /\ MaxVersion \in Nat \ {0}
    /\ Width \in Nat /\ Width > MaxEntries
    /\ IsFiniteSet(Workers) /\ IsFiniteSet(Purgers)

VARIABLES
    db,         \* the version in the database
    pc,         \* the packet cache, least recently inserted first
    size,       \* packetcache-size
    qc,         \* the query cache: per name a version, 0 if none
    at, asked, found,       \* of a worker: where it is, the name, the version it has
    purge,      \* per purger: what it does
    clean,      \* history: no thread held an old version when the last change was purged
    cleared     \* history: purge() has been used

vars == <<db, pc, size, qc, at, asked, found, purge, clean, cleared>>
workerVars == <<at, asked, found>>

Versions == 1 .. MaxVersion
Entries  == [name : Names, version : Versions, live : BOOLEAN]
Idle     == [at |-> "idle", names |-> {}, all |-> FALSE, version |-> 0,
             straggler |-> FALSE, del |-> 0]

PurgeStates ==
    [at : {"idle", "qc", "pc", "store", "clear", "subtract"}, names : SUBSET Names,
     all : BOOLEAN, version : 0 .. MaxVersion, straggler : BOOLEAN, del : Nat]

\* The types of all variables; an answer is cached once.
TypeOK ==
    /\ db \in Versions
    /\ pc \in Seq(Entries)
    /\ \A i, j \in 1 .. Len(pc) : pc[i].name = pc[j].name => i = j
    /\ size \in 0 .. Width - 1
    /\ qc \in [Names -> 0 .. MaxVersion]
    /\ at \in [Workers -> {"idle", "lookup", "read", "reply", "cleaned"}]
    /\ asked \in [Workers -> Names \cup {NoName}]
    /\ found \in [Workers -> 0 .. MaxVersion]
    /\ purge \in [Purgers -> PurgeStates]
    /\ {clean, cleared} \subseteq BOOLEAN

Init ==
    /\ db = 1
    /\ pc = <<>>
    /\ size = 0
    /\ qc = [n \in Names |-> 0]
    /\ at = [w \in Workers |-> "idle"]
    /\ asked = [w \in Workers |-> NoName]
    /\ found = [w \in Workers |-> 0]
    /\ purge = [u \in Purgers |-> Idle]
    /\ clean = TRUE
    /\ cleared = FALSE

-----------------------------------------------------------------------------
(* Questions.                                                              *)

Hit(n) == \E i \in 1 .. Len(pc) : pc[i].name = n /\ pc[i].live

\* AuthPacketCache::get finds nothing; a hit changes nothing and is left out.
Miss(w, n) ==
    /\ at[w] = "idle"
    /\ ~Hit(n)
    /\ at' = [at EXCEPT ![w] = "lookup"]
    /\ asked' = [asked EXCEPT ![w] = n]
    /\ UNCHANGED <<db, pc, size, qc, found, purge, clean, cleared>>

Has(w, version, point) ==
    /\ at[w] = "lookup"
    /\ found' = [found EXCEPT ![w] = version]
    /\ at' = [at EXCEPT ![w] = point]
    /\ UNCHANGED <<db, pc, size, qc, asked, purge, clean, cleared>>

\* UeberBackend::lookup, from the query cache ...
LookupCached_Again(w) ==
    /\ at[w] = "lookup"
    /\ qc[asked[w]] # 0
    /\ Has(w, qc[asked[w]], "read")

LookupCached(w) ==
    /\ at[w] = "lookup"
    /\ qc[asked[w]] # 0
    /\ Has(w, qc[asked[w]], "reply")

\* ... or from the backend, also when a lock of the query cache is taken.
LookupDatabase(w) == Has(w, db, "read")

\* UeberBackend::get puts what came from the backend into the query cache, unless a
\* lock is taken.
InsertQuery(w) ==
    /\ at[w] = "read"
    /\ qc' \in {qc, [qc EXCEPT ![asked[w]] = found[w]]}
    /\ at' = [at EXCEPT ![w] = "reply"]
    /\ UNCHANGED <<db, pc, size, asked, found, purge, clean, cleared>>

Done(w) ==
    /\ at' = [at EXCEPT ![w] = "idle"]
    /\ asked' = [asked EXCEPT ![w] = NoName]
    /\ found' = [found EXCEPT ![w] = 0]

\* The elements of q at the places in K, in their order.
Rank(K, i) == Cardinality({k \in K : k <= i})
Subsequence(q, K) == [j \in 1 .. Cardinality(K) |-> q[CHOOSE i \in K : Rank(K, i) = j]]

Without(q, names) == Subsequence(q, {i \in 1 .. Len(q) : q[i].name \notin names})

Present_LiveOnly(n) == Hit(n)
Present(n) == \E i \in 1 .. Len(pc) : pc[i].name = n

Full_OffByOne == size > MaxEntries
Full == size >= MaxEntries

\* AuthPacketCache::insert: an entry is replaced, expired or not, or added; then the
\* counter says whether the oldest one has to go.
InsertPacket(w) ==
    LET n == asked[w]
        entry == [name |-> n, version |-> found[w], live |-> TRUE]
    IN  /\ at[w] = "reply"
        /\ IF Present(n)
           THEN pc' = Append(Without(pc, {n}), entry) /\ UNCHANGED size
           ELSE IF Full
                THEN pc' = Tail(Append(pc, entry)) /\ UNCHANGED size
                ELSE pc' = Append(pc, entry) /\ size' = (size + 1) % Width
        /\ Done(w)
        /\ UNCHANGED <<db, qc, purge, clean, cleared>>

\* cleanup(), every so many questions: it looks at a tenth of the entries, at least one,
\* oldest first, and corrects the counter after the lock is released.
Cleanup(w) ==
    /\ at[w] = "idle"
    /\ pc # <<>> /\ ~Head(pc).live
    /\ pc' = Tail(pc)
    /\ at' = [at EXCEPT ![w] = "cleaned"]
    /\ UNCHANGED <<db, size, qc, asked, found, purge, clean, cleared>>

CleanupEnd(w) ==
    /\ at[w] = "cleaned"
    /\ size' = (size - 1) % Width
    /\ at' = [at EXCEPT ![w] = "idle"]
    /\ UNCHANGED <<db, pc, qc, asked, found, purge, clean, cleared>>

\* The answer is not cached, or the backend failed.
NotCached(w) ==
    /\ at[w] \in {"lookup", "read", "reply"}
    /\ Done(w)
    /\ UNCHANGED <<db, pc, size, qc, purge, clean, cleared>>

-----------------------------------------------------------------------------
(* Purging and cleaning.                                                   *)

Begin(u, state) ==
    /\ purge[u].at = "idle"
    /\ purge' = [purge EXCEPT ![u] = state]

\* purgeAuthCaches: the query cache first, then the packet cache.
After_PacketsFirst(point, all) ==
    CASE point = "idle" -> IF all THEN "store" ELSE "pc"
      [] point \in {"subtract", "clear"} -> "qc"
      [] OTHER -> "idle"

After(point, all) ==
    CASE point = "idle" -> "qc"
      [] point = "qc" -> IF all THEN "store" ELSE "pc"
      [] OTHER -> "idle"

GoOn(u, state) ==
    purge' = [purge EXCEPT ![u] = IF state.at = "idle" THEN Idle ELSE state]

\* A transfer, an update or the API commits a new version, and purges the zone.
Commit(u) ==
    /\ db < MaxVersion
    /\ db' = db + 1
    /\ Begin(u, [Idle EXCEPT !.at = After("idle", FALSE), !.names = Names,
                           !.version = db + 1])
    /\ clean' = FALSE
    /\ UNCHANGED <<pc, size, qc, workerVars, cleared>>

\* pdns_control purge with a name, or a primary that found a new serial.
PurgeName(u, n) ==
    /\ Begin(u, [Idle EXCEPT !.at = After("idle", FALSE), !.names = {n}])
    /\ UNCHANGED <<db, pc, size, qc, workerVars, clean, cleared>>

\* pdns_control purge, at most once here.
PurgeAll(u) ==
    /\ ~cleared /\ \A v \in Purgers : ~purge[v].all
    /\ Begin(u, [Idle EXCEPT !.at = After("idle", TRUE), !.names = Names, !.all = TRUE])
    /\ UNCHANGED <<db, pc, size, qc, workerVars, clean, cleared>>

Old(w) == found[w] # 0 /\ found[w] < db

PurgeQueries(u) ==
    /\ purge[u].at = "qc"
    /\ qc' = [n \in Names |-> IF n \in purge[u].names THEN 0 ELSE qc[n]]
    /\ GoOn(u, [purge[u] EXCEPT !.at = After("qc", purge[u].all),
                                !.straggler = \E w \in Workers : Old(w)])
    /\ UNCHANGED <<db, pc, size, workerVars, clean, cleared>>

\* The entries are removed under the lock ...
PurgePackets(u) ==
    /\ purge[u].at = "pc"
    /\ pc' = Without(pc, purge[u].names)
    /\ purge' = [purge EXCEPT ![u].at = "subtract", ![u].del = Len(pc) - Len(pc')]
    /\ clean' = (clean \/ (purge[u].version = db /\ ~purge[u].straggler))
    /\ UNCHANGED <<db, size, qc, workerVars, cleared>>

\* ... and the counter is corrected after it is released.
Subtract(u) ==
    /\ purge[u].at = "subtract"
    /\ size' = (size - purge[u].del) % Width
    /\ GoOn(u, [purge[u] EXCEPT !.at = After("subtract", FALSE), !.del = 0])
    /\ UNCHANGED <<db, pc, qc, workerVars, clean, cleared>>

\* purge() resets the counter before it takes the lock.
StoreZero(u) ==
    /\ purge[u].at = "store"
    /\ size' = 0
    /\ cleared' = TRUE
    /\ purge' = [purge EXCEPT ![u].at = "clear"]
    /\ UNCHANGED <<db, pc, qc, workerVars, clean>>

Clear(u) ==
    /\ purge[u].at = "clear"
    /\ pc' = <<>>
    /\ GoOn(u, [purge[u] EXCEPT !.at = After("clear", TRUE)])
    /\ UNCHANGED <<db, size, qc, workerVars, clean, cleared>>

-----------------------------------------------------------------------------

ExpirePacket(n) ==
    /\ Hit(n)
    /\ pc' = [i \in 1 .. Len(pc) |-> IF pc[i].name = n THEN [pc[i] EXCEPT !.live = FALSE]
                                                       ELSE pc[i]]
    /\ UNCHANGED <<db, size, qc, workerVars, purge, clean, cleared>>

ExpireQuery(n) ==
    /\ qc[n] # 0
    /\ qc' = [qc EXCEPT ![n] = 0]
    /\ UNCHANGED <<db, pc, size, workerVars, purge, clean, cleared>>

Answer(w) ==
    \/ LookupCached(w) \/ LookupDatabase(w) \/ InsertQuery(w) \/ InsertPacket(w)
    \/ NotCached(w) \/ CleanupEnd(w)

Continue(u) ==
    PurgeQueries(u) \/ PurgePackets(u) \/ Subtract(u) \/ StoreZero(u) \/ Clear(u)

Next ==
    \/ \E w \in Workers : Answer(w) \/ Cleanup(w) \/ \E n \in Names : Miss(w, n)
    \/ \E u \in Purgers : \/ Commit(u) \/ PurgeAll(u)
                          \/ \E n \in Names : PurgeName(u, n)
                          \/ Continue(u)
    \/ \E n \in Names : ExpirePacket(n) \/ ExpireQuery(n)

Spec == Init /\ [][Next]_vars

\* Threads go on with what they have begun, and time passes. No question has to come.
Fairness ==
    /\ \A w \in Workers : WF_vars(Answer(w))
    /\ \A u \in Purgers : WF_vars(Continue(u))
    /\ \A n \in Names : WF_vars(ExpirePacket(n)) /\ WF_vars(ExpireQuery(n))

FairSpec == Spec /\ Fairness

-----------------------------------------------------------------------------
(* Properties.                                                             *)

Pending ==
    Cardinality({w \in Workers : at[w] = "cleaned"})
        + Cardinality({x \in Purgers \X (1 .. MaxEntries) : x[2] <= purge[x[1]].del})

\* As long as purge() is not used, packetcache-size is the number of entries plus
\* those removed and not yet subtracted: it never wraps, and the cache never exceeds
\* max-packet-cache-entries, although the counter is not under the lock. (purge()
\* stores 0 before it takes the lock: when it meets an erasure that has not been
\* subtracted yet, the counter wraps.)
SizeExact ==
    ~cleared => size = Len(pc) + Pending /\ size <= MaxEntries

\* After the purge of a change neither cache holds an older version, unless a thread
\* held one when the query cache was purged: the query cache is purged first, so that
\* what is read from it afterwards cannot put an old answer into the packet cache.
PurgeEffective ==
    clean => /\ \A i \in 1 .. Len(pc) : pc[i].version = db
             /\ \A n \in Names : qc[n] \in {0, db}

\* A change that is not followed by another is seen in all answers in the end: an old
\* version that a slow thread put back cannot be passed on between the caches for ever.
EventuallyFresh ==
    <>[](/\ \A i \in 1 .. Len(pc) : pc[i].live => pc[i].version = db
         /\ \A n \in Names : qc[n] \in {0, db})

=============================================================================
