-------------------------- MODULE AuthCaches_proofs --------------------------
(***************************************************************************)
(* Proofs about AuthCaches for every number of names, threads, entries and *)
(* versions, and every width of the counter.                               *)
(***************************************************************************)
EXTENDS AuthCaches, FiniteSetTheorems, FunctionTheorems, SequenceTheorems, TLAPS

-----------------------------------------------------------------------------
(* Sequences.                                                              *)

\* Every place of a subsequence comes from exactly one of the places it was taken from.
LEMMA RankOnto ==
    ASSUME NEW N \in Nat, NEW K \in SUBSET (1 .. N)
    PROVE  /\ IsFiniteSet(K) /\ Cardinality(K) \in Nat /\ Cardinality(K) <= N
           /\ \A j \in 1 .. Cardinality(K) : \E i \in K : Rank(K, i) = j
<1> DEFINE Upto(i) == {k \in K : k <= i}
           r == [i \in K |-> Rank(K, i)]
           c == Cardinality(K)
<1>1. IsFiniteSet(1 .. N) /\ Cardinality(1 .. N) = N
  BY FS_Interval
<1>2. IsFiniteSet(K) /\ c \in Nat /\ c <= N
  BY <1>1, FS_Subset, FS_CardinalityType
<1>3. ASSUME NEW i \in K
      PROVE  IsFiniteSet(Upto(i)) /\ Rank(K, i) \in 1 .. c
  <2>1. Upto(i) \in SUBSET K /\ i \in Upto(i)
    OBVIOUS
  <2>2. Rank(K, i) = Cardinality(Upto(i))
    BY DEF Rank
  <2> HIDE DEF Upto
  <2>3. IsFiniteSet(Upto(i)) /\ Cardinality(Upto(i)) \in Nat /\ Cardinality(Upto(i)) <= c
    BY <1>2, <2>1, FS_Subset, FS_CardinalityType
  <2>4. Cardinality(Upto(i)) # 0
    BY <2>1, <2>3, FS_EmptySet
  <2> QED BY <2>2, <2>3, <2>4
<1>4. ASSUME NEW i \in K, NEW k \in K, i < k
      PROVE  Rank(K, i) # Rank(K, k)
  <2>1. Upto(i) \in SUBSET Upto(k) /\ Upto(i) # Upto(k)
    <3>1. k \in Upto(k) /\ k \notin Upto(i)
      BY <1>4
    <3>2. \A x \in K : x \in Int
      OBVIOUS
    <3>3. \A x \in Upto(i) : x \in Upto(k)
      BY <1>4, <3>2
    <3> HIDE DEF Upto
    <3> QED BY <3>1, <3>3
  <2>2. Rank(K, i) = Cardinality(Upto(i)) /\ Rank(K, k) = Cardinality(Upto(k))
    BY DEF Rank
  <2>3. IsFiniteSet(Upto(k))
    BY <1>3
  <2> HIDE DEF Upto
  <2> QED BY <2>1, <2>2, <2>3, FS_Subset
<1>5. r \in Injection(K, 1 .. c)
  <2>1. r \in [K -> 1 .. c]
    BY <1>3
  <2>2. ASSUME NEW i \in K, NEW k \in K, r[i] = r[k] PROVE i = k
    <3>1. i \in Int /\ k \in Int
      OBVIOUS
    <3> QED BY <1>4, <2>2, <3>1
  <2> QED BY <2>1, <2>2 DEF Injection, IsInjective
<1>6. IsFiniteSet(1 .. c) /\ Cardinality(1 .. c) = c
  BY <1>2, FS_Interval
<1>7. r \in Surjection(K, 1 .. c)
  BY <1>5, <1>6, FS_Injection
<1> QED BY <1>2, <1>7 DEF Surjection

\* What Subsequence returns.
LEMMA SubsequenceSpec ==
    ASSUME NEW S, NEW q \in Seq(S), NEW K \in SUBSET (1 .. Len(q))
    PROVE  /\ Subsequence(q, K) \in Seq(S)
           /\ Len(Subsequence(q, K)) = Cardinality(K)
           /\ \A j \in 1 .. Cardinality(K) :
                 \E i \in K : Rank(K, i) = j /\ Subsequence(q, K)[j] = q[i]
<1> DEFINE c == Cardinality(K)
           At(j) == CHOOSE i \in K : Rank(K, i) = j
           s == [j \in 1 .. c |-> q[At(j)]]
<1>1. c \in Nat /\ \A j \in 1 .. c : At(j) \in K /\ Rank(K, At(j)) = j
  <2>1. Len(q) \in Nat
    OBVIOUS
  <2> QED BY <2>1, RankOnto
<1>2. Subsequence(q, K) = s
  BY DEF Subsequence
<1> HIDE DEF c, At
<1>3. \A j \in 1 .. c : q[At(j)] \in S
  <2>1. \A i \in K : q[i] \in S
    OBVIOUS
  <2> QED BY <1>1, <2>1
<1>4. s \in Seq(S) /\ Len(s) = c
  BY <1>1, <1>3
<1>5. \A j \in 1 .. c : s[j] = q[At(j)]
  OBVIOUS
<1> QED BY <1>1, <1>2, <1>4, <1>5 DEF c

\* No two entries are for the same name.
Unique(q) == \A i, j \in 1 .. Len(q) : q[i].name = q[j].name => i = j

\* What is left of a cache when entries are removed.
LEMMA WithoutSpec ==
    ASSUME NEW q \in Seq(Entries), NEW names
    PROVE  /\ Without(q, names) \in Seq(Entries)
           /\ Len(Without(q, names)) \in 0 .. Len(q)
           /\ \A j \in 1 .. Len(Without(q, names)) :
                 \E i \in 1 .. Len(q) : q[i].name \notin names /\ Without(q, names)[j] = q[i]
           /\ Unique(q) => Unique(Without(q, names))
<1> DEFINE K == {i \in 1 .. Len(q) : q[i].name \notin names}
           s == Without(q, names)
<1>1. K \in SUBSET (1 .. Len(q)) /\ Len(q) \in Nat
  OBVIOUS
<1>2. s = Subsequence(q, K)
  BY DEF Without
<1>3. \A i \in K : i \in 1 .. Len(q) /\ q[i].name \notin names
  OBVIOUS
<1> HIDE DEF K
<1>4. /\ s \in Seq(Entries) /\ Len(s) = Cardinality(K)
      /\ \A j \in 1 .. Cardinality(K) : \E i \in K : Rank(K, i) = j /\ s[j] = q[i]
  BY <1>1, <1>2, SubsequenceSpec
<1>5. Cardinality(K) \in 0 .. Len(q)
  BY <1>1, RankOnto
<1> HIDE DEF s
<1>6. ASSUME Unique(q) PROVE Unique(s)
  <2> SUFFICES ASSUME NEW i \in 1 .. Len(s), NEW j \in 1 .. Len(s), s[i].name = s[j].name
               PROVE  i = j
    BY DEF Unique
  <2>1. PICK k \in K : Rank(K, k) = i /\ s[i] = q[k]
    BY <1>4
  <2>2. PICK l \in K : Rank(K, l) = j /\ s[j] = q[l]
    BY <1>4
  <2>3. k = l
    BY <1>3, <1>6, <2>1, <2>2 DEF Unique
  <2> QED BY <2>1, <2>2, <2>3
<1> QED BY <1>3, <1>4, <1>5, <1>6 DEF s

\* Removing a name that is there removes one entry.
LEMMA WithoutOne ==
    ASSUME NEW q \in Seq(Entries), NEW k \in 1 .. Len(q), Unique(q)
    PROVE  Len(Without(q, {q[k].name})) = Len(q) - 1
<1> DEFINE K == {i \in 1 .. Len(q) : q[i].name \notin {q[k].name}}
<1>1. K = (1 .. Len(q)) \ {k} /\ Len(q) \in Nat
  BY DEF Unique
<1>2. Without(q, {q[k].name}) = Subsequence(q, K)
  BY DEF Without
<1> HIDE DEF K
<1>3. Len(Without(q, {q[k].name})) = Cardinality(K)
  BY <1>1, <1>2, SubsequenceSpec
<1>4. Cardinality(K) = Len(q) - 1
  <2>1. IsFiniteSet(1 .. Len(q)) /\ Cardinality(1 .. Len(q)) = Len(q)
    BY <1>1, FS_Interval
  <2> QED BY <1>1, <2>1, FS_RemoveElement
<1> QED BY <1>3, <1>4

\* Adding an entry for a name that is not there.
LEMMA AppendUnique ==
    ASSUME NEW q \in Seq(Entries), NEW e \in Entries, Unique(q),
           \A i \in 1 .. Len(q) : q[i].name # e.name
    PROVE  /\ Append(q, e) \in Seq(Entries) /\ Len(Append(q, e)) = Len(q) + 1
           /\ Unique(Append(q, e))
           /\ \A i \in 1 .. Len(q) + 1 :
                 Append(q, e)[i] = IF i <= Len(q) THEN q[i] ELSE e
  BY AppendProperties DEF Unique

\* Dropping the oldest entry.
LEMMA TailUnique ==
    ASSUME NEW q \in Seq(Entries), q # <<>>, Unique(q)
    PROVE  /\ Head(q) \in Entries
           /\ Tail(q) \in Seq(Entries) /\ Len(Tail(q)) = Len(q) - 1 /\ Len(q) \in Nat \ {0}
           /\ Unique(Tail(q))
           /\ \A j \in 1 .. Len(Tail(q)) : \E i \in 1 .. Len(q) : Tail(q)[j] = q[i]
<1>1. /\ Len(q) \in Nat \ {0} /\ Head(q) \in Entries
      /\ Tail(q) \in Seq(Entries) /\ Len(Tail(q)) = Len(q) - 1
      /\ \A i \in 1 .. Len(q) - 1 : Tail(q)[i] = q[i + 1]
  BY HeadTailProperties, EmptySeq
<1>2. Unique(Tail(q))
  <2> SUFFICES ASSUME NEW i \in 1 .. Len(q) - 1, NEW j \in 1 .. Len(q) - 1, i # j
               PROVE  q[i + 1].name # q[j + 1].name
    BY <1>1 DEF Unique
  <2>1. i + 1 \in 1 .. Len(q) /\ j + 1 \in 1 .. Len(q) /\ i + 1 # j + 1
    BY <1>1
  <2> QED BY <2>1 DEF Unique
<1> QED BY <1>1, <1>2

-----------------------------------------------------------------------------
(* The counter.                                                            *)

\* An integer modulo the width, and one that does not wrap.
LEMMA Modulo ==
    ASSUME NEW a \in Int
    PROVE  /\ a % Width \in 0 .. Width - 1
           /\ a \in 0 .. Width - 1 => a % Width = a
  BY CacheAssumption

\* The entries that purgers have removed and not subtracted, f per purger.
Left(f) == {x \in Purgers \X (1 .. MaxEntries) : x[2] <= f[x[1]]}

\* They are finitely many.
LEMMA LeftFinite ==
    ASSUME NEW f
    PROVE  IsFiniteSet(Left(f)) /\ Cardinality(Left(f)) \in Nat
<1>1. IsFiniteSet(Purgers \X (1 .. MaxEntries))
  <2>1. MaxEntries \in Int /\ 1 \in Int /\ IsFiniteSet(Purgers)
    BY CacheAssumption
  <2>2. IsFiniteSet(1 .. MaxEntries)
    BY <2>1, FS_Interval
  <2> QED BY <2>1, <2>2, FS_Product
<1>2. Left(f) \in SUBSET (Purgers \X (1 .. MaxEntries))
  BY DEF Left
<1> QED BY <1>1, <1>2, FS_Subset, FS_CardinalityType

\* A purger with d entries to subtract counts for d.
LEMMA LeftAdds ==
    ASSUME NEW f \in [Purgers -> Nat], NEW g \in [Purgers -> Nat], NEW u \in Purgers,
           f[u] = 0, g[u] \in 0 .. MaxEntries, \A v \in Purgers \ {u} : g[v] = f[v]
    PROVE  Cardinality(Left(g)) = Cardinality(Left(f)) + g[u]
<1> DEFINE d == g[u]
           D == {u} \X (1 .. d)
<1>1. Left(g) = Left(f) \cup D
  BY CacheAssumption DEF Left
<1>2. Left(f) \cap D = {}
  BY DEF Left
<1>3. d \in Nat /\ IsFiniteSet(1 .. d) /\ Cardinality(1 .. d) = d
  BY FS_Interval, CacheAssumption
<1>4. IsFiniteSet({u}) /\ Cardinality({u}) = 1
  BY FS_Singleton
<1>5. IsFiniteSet(D) /\ Cardinality(D) = d
  <2>1. IsFiniteSet(D) /\ Cardinality(D) = 1 * d
    BY <1>3, <1>4, FS_Product
  <2> QED BY <1>3, <2>1
<1> HIDE DEF D, d
<1>6. Cardinality(Left(g)) = Cardinality(Left(f)) + d - Cardinality(Left(f) \cap D)
  BY <1>1, <1>5, LeftFinite, FS_Union
<1>7. Cardinality(Left(f) \cap D) = 0
  BY <1>2, FS_EmptySet
<1> QED BY <1>3, <1>6, <1>7, LeftFinite DEF d

-----------------------------------------------------------------------------
(* The invariant.                                                          *)

\* A worker that looks something up has a name, and what it found is a version that
\* was in the database.
WorkersKnown ==
    \A w \in Workers :
        /\ at[w] \in {"lookup", "read", "reply"} => asked[w] \in Names
        /\ at[w] \in {"read", "reply"} => found[w] # 0
        /\ found[w] <= db

\* No version is from the future.
VersionsKnown == \A n \in Names : qc[n] <= db

\* A purge for a change is one of the whole zone; entries to subtract are only left
\* between the lock and the counter.
PurgesKnown ==
    \A u \in Purgers :
        /\ purge[u].version <= db
        /\ purge[u].version # 0 => purge[u].names = Names
        /\ purge[u].at # "subtract" => purge[u].del = 0
        /\ purge[u].at = "clear" => cleared
        /\ ~cleared => purge[u].del <= MaxEntries

\* Neither the query cache nor a worker has an old version.
Settled ==
    /\ \A n \in Names : qc[n] \in {0, db}
    /\ \A w \in Workers : found[w] \in {0, db}

\* That is so once the query cache was purged while no worker held an old version, and
\* stays so until the next change.
SettledWhenPurged ==
    /\ \A u \in Purgers :
          purge[u].at = "pc" /\ purge[u].version = db /\ ~purge[u].straggler => Settled
    /\ clean => Settled

IInv ==
    /\ TypeOK
    /\ WorkersKnown
    /\ VersionsKnown
    /\ PurgesKnown
    /\ SettledWhenPurged
    /\ PurgeEffective
    /\ SizeExact


-----------------------------------------------------------------------------
(* The purgers.                                                            *)

\* A purger goes to a state with these fields, the others stay where they are.
Moved(u, point, names, all, version, straggler, del) ==
    /\ purge' \in [Purgers -> PurgeStates]
    /\ purge'[u].at = point /\ purge'[u].names = names /\ purge'[u].all = all
    /\ purge'[u].version = version /\ purge'[u].straggler = straggler /\ purge'[u].del = del
    /\ \A v \in Purgers \ {u} : purge'[v] = purge[v]

\* A step that gives a purger a new state.
LEMMA MovedBy ==
    ASSUME purge \in [Purgers -> PurgeStates], NEW u \in Purgers, NEW s \in PurgeStates,
           purge' = [purge EXCEPT ![u] = s]
    PROVE  Moved(u, s.at, s.names, s.all, s.version, s.straggler, s.del)
  BY DEF Moved

\* The fields of a purger that does nothing.
LEMMA IdleIs ==
    /\ Idle \in PurgeStates /\ Idle.at = "idle" /\ Idle.names = {} /\ Idle.all = FALSE
    /\ Idle.version = 0 /\ Idle.straggler = FALSE /\ Idle.del = 0
  BY CacheAssumption DEF Idle, PurgeStates

\* Where purgeAuthCaches goes on.
LEMMA AfterIs ==
    /\ \A all : After("idle", all) = "qc"
    /\ \A all \in BOOLEAN : After("qc", all) = IF all THEN "store" ELSE "pc"
    /\ \A all : After("subtract", all) = "idle" /\ After("clear", all) = "idle"
  BY DEF After

\* A change begins the purge of the zone.
LEMMA CommitMoves ==
    ASSUME TypeOK, NEW u \in Purgers, Commit(u)
    PROVE  Moved(u, "qc", Names, FALSE, db + 1, FALSE, 0)
<1> DEFINE s == [Idle EXCEPT !.at = After("idle", FALSE), !.names = Names, !.version = db + 1]
<1>1. /\ s \in PurgeStates /\ s.at = "qc" /\ s.names = Names /\ s.all = FALSE
      /\ s.version = db + 1 /\ s.straggler = FALSE /\ s.del = 0
  <2>1. db + 1 \in 0 .. MaxVersion
    BY CacheAssumption DEF TypeOK, Versions, Commit
  <2>2. After("idle", FALSE) = "qc"
    BY AfterIs
  <2> QED BY <2>1, <2>2 DEF Idle, PurgeStates
<1>2. purge' = [purge EXCEPT ![u] = s]
  BY DEF Commit, Begin
<1> HIDE DEF s
<1>3. Moved(u, s.at, s.names, s.all, s.version, s.straggler, s.del)
  BY <1>1, <1>2, MovedBy DEF TypeOK
<1> QED BY <1>1, <1>3

\* A purge of one name is begun.
LEMMA PurgeNameMoves ==
    ASSUME TypeOK, NEW u \in Purgers, NEW n \in Names, PurgeName(u, n)
    PROVE  Moved(u, "qc", {n}, FALSE, 0, FALSE, 0)
<1> DEFINE s == [Idle EXCEPT !.at = After("idle", FALSE), !.names = {n}]
<1>1. /\ s \in PurgeStates /\ s.at = "qc" /\ s.names = {n} /\ s.all = FALSE
      /\ s.version = 0 /\ s.straggler = FALSE /\ s.del = 0
  <2>1. 0 \in 0 .. MaxVersion /\ {n} \in SUBSET Names
    BY CacheAssumption
  <2>2. After("idle", FALSE) = "qc"
    BY AfterIs
  <2> QED BY <2>1, <2>2 DEF Idle, PurgeStates
<1>2. purge' = [purge EXCEPT ![u] = s]
  BY DEF PurgeName, Begin
<1> HIDE DEF s
<1>3. Moved(u, s.at, s.names, s.all, s.version, s.straggler, s.del)
  BY <1>1, <1>2, MovedBy DEF TypeOK
<1> QED BY <1>1, <1>3

\* A purge of everything is begun.
LEMMA PurgeAllMoves ==
    ASSUME TypeOK, NEW u \in Purgers, PurgeAll(u)
    PROVE  Moved(u, "qc", Names, TRUE, 0, FALSE, 0)
<1> DEFINE s == [Idle EXCEPT !.at = After("idle", TRUE), !.names = Names, !.all = TRUE]
<1>1. /\ s \in PurgeStates /\ s.at = "qc" /\ s.names = Names /\ s.all = TRUE
      /\ s.version = 0 /\ s.straggler = FALSE /\ s.del = 0
  <2>1. 0 \in 0 .. MaxVersion
    BY CacheAssumption
  <2>2. After("idle", TRUE) = "qc"
    BY AfterIs
  <2> QED BY <2>1, <2>2 DEF Idle, PurgeStates
<1>2. purge' = [purge EXCEPT ![u] = s]
  BY DEF PurgeAll, Begin
<1> HIDE DEF s
<1>3. Moved(u, s.at, s.names, s.all, s.version, s.straggler, s.del)
  BY <1>1, <1>2, MovedBy DEF TypeOK
<1> QED BY <1>1, <1>3

\* The query cache is purged; the purger notes whether a worker has an old version.
LEMMA PurgeQueriesMoves ==
    ASSUME TypeOK, NEW u \in Purgers, PurgeQueries(u)
    PROVE  Moved(u, IF purge[u].all THEN "store" ELSE "pc", purge[u].names, purge[u].all,
                 purge[u].version, \E w \in Workers : Old(w), purge[u].del)
<1> DEFINE b == \E w \in Workers : Old(w)
           a == IF purge[u].all THEN "store" ELSE "pc"
           s == [purge[u] EXCEPT !.at = a, !.straggler = b]
<1>0. purge[u] \in PurgeStates
  BY DEF TypeOK
<1>1. purge[u].all \in BOOLEAN /\ b \in BOOLEAN
  BY <1>0 DEF PurgeStates
<1>2. a \in {"pc", "store"} /\ After("qc", purge[u].all) = a
  BY <1>1, AfterIs
<1> HIDE DEF a, b
<1>3. /\ s \in PurgeStates /\ s.at = a /\ s.names = purge[u].names /\ s.all = purge[u].all
      /\ s.version = purge[u].version /\ s.straggler = b /\ s.del = purge[u].del
  BY <1>0, <1>1, <1>2 DEF PurgeStates
<1>4. purge' = [purge EXCEPT ![u] = IF s.at = "idle" THEN Idle ELSE s]
  BY <1>2 DEF PurgeQueries, GoOn, b
<1> HIDE DEF s
<1>5. purge' = [purge EXCEPT ![u] = s]
  BY <1>2, <1>3, <1>4
<1>6. Moved(u, s.at, s.names, s.all, s.version, s.straggler, s.del)
  BY <1>3, <1>5, MovedBy DEF TypeOK
<1> QED BY <1>3, <1>6 DEF a, b

\* The packet cache is purged; the purger keeps what it has to subtract.
LEMMA PurgePacketsMoves ==
    ASSUME TypeOK, NEW u \in Purgers, PurgePackets(u), Len(pc) - Len(pc') \in Nat
    PROVE  Moved(u, "subtract", purge[u].names, purge[u].all, purge[u].version,
                 purge[u].straggler, Len(pc) - Len(pc'))
<1> DEFINE d == Len(pc) - Len(pc')
           s == [purge[u] EXCEPT !.at = "subtract", !.del = d]
<1>0. purge[u] \in PurgeStates /\ d \in Nat
  BY DEF TypeOK
<1>1. purge' = [purge EXCEPT ![u] = s]
  BY <1>0 DEF PurgePackets, TypeOK, PurgeStates
<1> HIDE DEF d
<1>2. /\ s \in PurgeStates /\ s.at = "subtract" /\ s.names = purge[u].names
      /\ s.all = purge[u].all /\ s.version = purge[u].version
      /\ s.straggler = purge[u].straggler /\ s.del = d
  BY <1>0 DEF PurgeStates
<1> HIDE DEF s
<1>3. Moved(u, s.at, s.names, s.all, s.version, s.straggler, s.del)
  BY <1>1, <1>2, MovedBy DEF TypeOK
<1> QED BY <1>2, <1>3 DEF d

\* The counter is reset.
LEMMA StoreZeroMoves ==
    ASSUME TypeOK, NEW u \in Purgers, StoreZero(u)
    PROVE  Moved(u, "clear", purge[u].names, purge[u].all, purge[u].version,
                 purge[u].straggler, purge[u].del)
<1> DEFINE s == [purge[u] EXCEPT !.at = "clear"]
<1>0. purge[u] \in PurgeStates
  BY DEF TypeOK
<1>1. purge' = [purge EXCEPT ![u] = s]
  BY <1>0 DEF StoreZero, TypeOK, PurgeStates
<1>2. /\ s \in PurgeStates /\ s.at = "clear" /\ s.names = purge[u].names
      /\ s.all = purge[u].all /\ s.version = purge[u].version
      /\ s.straggler = purge[u].straggler /\ s.del = purge[u].del
  BY <1>0 DEF PurgeStates
<1> HIDE DEF s
<1>3. Moved(u, s.at, s.names, s.all, s.version, s.straggler, s.del)
  BY <1>1, <1>2, MovedBy DEF TypeOK
<1> QED BY <1>2, <1>3

\* A purge ends.
LEMMA EndMoves ==
    ASSUME TypeOK, NEW u \in Purgers, Subtract(u) \/ Clear(u)
    PROVE  Moved(u, "idle", {}, FALSE, 0, FALSE, 0)
<1>0. purge[u] \in PurgeStates
  BY DEF TypeOK
<1>1. CASE Subtract(u)
  <2> DEFINE s == [purge[u] EXCEPT !.at = After("subtract", FALSE), !.del = 0]
  <2>1. s.at = "idle"
    BY <1>0, AfterIs DEF PurgeStates
  <2>2. purge' = [purge EXCEPT ![u] = IF s.at = "idle" THEN Idle ELSE s]
    BY <1>1 DEF Subtract, GoOn
  <2> HIDE DEF s
  <2> QED BY <2>1, <2>2, IdleIs, MovedBy DEF TypeOK
<1>2. CASE Clear(u)
  <2> DEFINE s == [purge[u] EXCEPT !.at = After("clear", TRUE)]
  <2>1. s.at = "idle"
    BY <1>0, AfterIs DEF PurgeStates
  <2>2. purge' = [purge EXCEPT ![u] = IF s.at = "idle" THEN Idle ELSE s]
    BY <1>2 DEF Clear, GoOn
  <2> HIDE DEF s
  <2> QED BY <2>1, <2>2, IdleIs, MovedBy DEF TypeOK
<1> QED BY <1>1, <1>2


-----------------------------------------------------------------------------
(* The packet cache.                                                       *)

PacketsOK == pc \in Seq(Entries) /\ Unique(pc)

\* Where the entries come from: from before, or from the worker's answer.
LEMMA InsertPacketSpec ==
    ASSUME TypeOK, WorkersKnown, NEW w \in Workers, InsertPacket(w)
    PROVE  /\ PacketsOK' /\ found[w] # 0
           /\ \A j \in 1 .. Len(pc') :
                 \/ pc'[j].version = found[w]
                 \/ \E i \in 1 .. Len(pc) : pc'[j].version = pc[i].version
           /\ \/ size' = size /\ Len(pc') = Len(pc)
              \/ ~Full /\ size' = (size + 1) % Width /\ Len(pc') = Len(pc) + 1
<1> DEFINE n == asked[w]
           e == [name |-> n, version |-> found[w], live |-> TRUE]
<1>1. pc \in Seq(Entries) /\ Unique(pc) /\ Len(pc) \in Nat
  BY DEF TypeOK, Unique
<1>2. n \in Names /\ found[w] \in Versions /\ found[w] # 0
  BY DEF TypeOK, WorkersKnown, InsertPacket, Versions
<1>3. e \in Entries /\ e.name = n /\ e.version = found[w]
  BY <1>2 DEF Entries
<1>4. IF Present(n)
      THEN pc' = Append(Without(pc, {n}), e) /\ size' = size
      ELSE IF Full
           THEN pc' = Tail(Append(pc, e)) /\ size' = size
           ELSE pc' = Append(pc, e) /\ size' = (size + 1) % Width
  BY DEF InsertPacket
<1> HIDE DEF n, e
<1>5. CASE Present(n)
  <2> DEFINE q == Without(pc, {n})
  <2>1. PICK k \in 1 .. Len(pc) : pc[k].name = n
    BY <1>5 DEF Present
  <2>2. Len(q) = Len(pc) - 1
    BY <1>1, <2>1, WithoutOne
  <2>3. /\ q \in Seq(Entries) /\ Unique(q)
        /\ \A j \in 1 .. Len(q) : \E i \in 1 .. Len(pc) : pc[i].name # n /\ q[j] = pc[i]
    <3> DEFINE names == {n}
    <3>1. \A x : x \notin names <=> x # n
      OBVIOUS
    <3> HIDE DEF names
    <3>2. LET r == Without(pc, names) IN
          /\ r \in Seq(Entries) /\ Unique(r)
          /\ \A j \in 1 .. Len(r) :
                \E i \in 1 .. Len(pc) : pc[i].name \notin names /\ r[j] = pc[i]
      BY <1>1, WithoutSpec
    <3> QED BY <3>1, <3>2 DEF names
  <2> HIDE DEF q
  <2>4. /\ Append(q, e) \in Seq(Entries) /\ Len(Append(q, e)) = Len(q) + 1 /\ Unique(Append(q, e))
        /\ \A i \in 1 .. Len(q) + 1 : Append(q, e)[i] = IF i <= Len(q) THEN q[i] ELSE e
    BY <1>3, <2>3, AppendUnique
  <2>5. pc' = Append(q, e) /\ size' = size
    BY <1>4, <1>5 DEF q
  <2>6. PacketsOK' /\ Len(pc') = Len(pc)
    BY <1>1, <2>2, <2>4, <2>5 DEF PacketsOK, Unique
  <2>7. ASSUME NEW j \in 1 .. Len(pc')
        PROVE  \/ pc'[j].version = found[w]
               \/ \E i \in 1 .. Len(pc) : pc'[j].version = pc[i].version
    <3>1. CASE j <= Len(q)
      <4>1. j \in 1 .. Len(q) /\ pc'[j] = q[j]
        BY <1>1, <2>2, <2>4, <2>5, <2>6, <3>1
      <4>2. PICK i \in 1 .. Len(pc) : q[j] = pc[i]
        BY <2>3, <4>1
      <4> QED BY <4>1, <4>2
    <3>2. CASE ~ (j <= Len(q))
      BY <1>3, <2>2, <2>4, <2>5, <2>6, <3>2
    <3> QED BY <3>1, <3>2
  <2> QED BY <1>2, <2>5, <2>6, <2>7
<1>6. CASE ~ Present(n)
  <2> DEFINE q == Append(pc, e)
  <2>1. \A i \in 1 .. Len(pc) : pc[i].name # e.name
    BY <1>3, <1>6 DEF Present
  <2>2. /\ q \in Seq(Entries) /\ Len(q) = Len(pc) + 1 /\ Unique(q)
        /\ \A i \in 1 .. Len(pc) + 1 : q[i] = IF i <= Len(pc) THEN pc[i] ELSE e
    BY <1>1, <1>3, <2>1, AppendUnique
  <2>3. \A i \in 1 .. Len(q) : \/ q[i].version = found[w]
                              \/ \E k \in 1 .. Len(pc) : q[i].version = pc[k].version
    BY <1>1, <1>3, <2>2
  <2>4. \/ pc' = q /\ ~Full /\ size' = (size + 1) % Width
        \/ pc' = Tail(q) /\ size' = size
    BY <1>4, <1>6
  <2> HIDE DEF q
  <2>5. CASE pc' = q /\ ~Full /\ size' = (size + 1) % Width
    <3>1. PacketsOK' /\ Len(pc') = Len(pc) + 1
      BY <2>2, <2>5 DEF PacketsOK, Unique
    <3> QED BY <1>2, <2>3, <2>5, <3>1
  <2>6. CASE pc' = Tail(q) /\ size' = size
    <3>1. q # <<>>
      BY <1>1, <2>2, EmptySeq
    <3>2. /\ Tail(q) \in Seq(Entries) /\ Len(Tail(q)) = Len(q) - 1 /\ Unique(Tail(q))
          /\ \A j \in 1 .. Len(Tail(q)) : \E i \in 1 .. Len(q) : Tail(q)[j] = q[i]
      BY <2>2, <3>1, TailUnique
    <3>3. PacketsOK' /\ Len(pc') = Len(pc)
      BY <1>1, <2>2, <2>6, <3>2 DEF PacketsOK, Unique
    <3>4. ASSUME NEW j \in 1 .. Len(pc')
          PROVE  \/ pc'[j].version = found[w]
                 \/ \E i \in 1 .. Len(pc) : pc'[j].version = pc[i].version
      <4>1. PICK i \in 1 .. Len(q) : pc'[j] = q[i]
        BY <2>6, <3>2
      <4> QED BY <2>3, <4>1
    <3> QED BY <1>2, <2>6, <3>3, <3>4
  <2> QED BY <2>4, <2>5, <2>6
<1> QED BY <1>5, <1>6

\* An entry that expires stays where it is.
LEMMA ExpirePacketSpec ==
    ASSUME TypeOK, NEW n \in Names, ExpirePacket(n)
    PROVE  /\ PacketsOK' /\ Len(pc') = Len(pc)
           /\ \A i \in 1 .. Len(pc) : pc'[i].version = pc[i].version
<1>1. pc \in Seq(Entries) /\ Unique(pc) /\ Len(pc) \in Nat
  BY DEF TypeOK, Unique
<1> DEFINE E(i) == IF pc[i].name = n THEN [pc[i] EXCEPT !.live = FALSE] ELSE pc[i]
<1>2. \A i \in 1 .. Len(pc) : /\ E(i) \in Entries /\ E(i).name = pc[i].name
                              /\ E(i).version = pc[i].version
  <2> SUFFICES ASSUME NEW i \in 1 .. Len(pc)
               PROVE  /\ E(i) \in Entries /\ E(i).name = pc[i].name
                      /\ E(i).version = pc[i].version
    OBVIOUS
  <2>1. pc[i] \in Entries
    BY <1>1
  <2>2. \A e \in Entries : /\ [e EXCEPT !.live = FALSE] \in Entries
                           /\ [e EXCEPT !.live = FALSE].name = e.name
                           /\ [e EXCEPT !.live = FALSE].version = e.version
    BY DEF Entries
  <2>3. /\ [pc[i] EXCEPT !.live = FALSE] \in Entries
        /\ [pc[i] EXCEPT !.live = FALSE].name = pc[i].name
        /\ [pc[i] EXCEPT !.live = FALSE].version = pc[i].version
    BY <2>1, <2>2, Zenon
  <2> QED BY <2>1, <2>3, Zenon
<1>3. pc' = [i \in 1 .. Len(pc) |-> E(i)]
  BY DEF ExpirePacket
<1> HIDE DEF E
<1>4. pc' \in Seq(Entries) /\ Len(pc') = Len(pc) /\ \A i \in 1 .. Len(pc) : pc'[i] = E(i)
  BY <1>1, <1>2, <1>3
<1> QED BY <1>1, <1>2, <1>4 DEF PacketsOK, Unique

\* A worker that cleans up drops the oldest entry.
LEMMA CleanupSpec ==
    ASSUME TypeOK, NEW w \in Workers, Cleanup(w)
    PROVE  /\ PacketsOK' /\ Len(pc') = Len(pc) - 1
           /\ \A j \in 1 .. Len(pc') : \E i \in 1 .. Len(pc) : pc'[j] = pc[i]
<1>1. pc \in Seq(Entries) /\ Unique(pc) /\ pc # <<>> /\ pc' = Tail(pc)
  BY DEF TypeOK, Unique, Cleanup
<1>2. /\ Tail(pc) \in Seq(Entries) /\ Len(Tail(pc)) = Len(pc) - 1
      /\ Unique(Tail(pc))
      /\ \A j \in 1 .. Len(Tail(pc)) : \E i \in 1 .. Len(pc) : Tail(pc)[j] = pc[i]
  BY <1>1, TailUnique
<1> QED BY <1>1, <1>2 DEF PacketsOK, Unique

\* A purge removes the entries of its names.
LEMMA PurgePacketsSpec ==
    ASSUME TypeOK, NEW u \in Purgers, PurgePackets(u)
    PROVE  /\ PacketsOK' /\ Len(pc) \in Nat /\ Len(pc') \in 0 .. Len(pc)
           /\ Len(pc) - Len(pc') \in Nat
           /\ \A j \in 1 .. Len(pc') :
                 \E i \in 1 .. Len(pc) : pc[i].name \notin purge[u].names /\ pc'[j] = pc[i]
<1>1. pc \in Seq(Entries) /\ Unique(pc) /\ Len(pc) \in Nat /\ pc' = Without(pc, purge[u].names)
  BY DEF TypeOK, Unique, PurgePackets
<1> DEFINE names == purge[u].names
           q == Without(pc, names)
<1>2. /\ q \in Seq(Entries) /\ Len(q) \in 0 .. Len(pc) /\ Unique(q)
      /\ \A j \in 1 .. Len(q) : \E i \in 1 .. Len(pc) : pc[i].name \notin names /\ q[j] = pc[i]
  BY <1>1, WithoutSpec
<1>3. pc' = q
  BY <1>1
<1> HIDE DEF q
<1> QED BY <1>1, <1>2, <1>3 DEF PacketsOK, Unique


-----------------------------------------------------------------------------
(* Types, and what is known of workers and purgers.                        *)

Types == TypeOK /\ WorkersKnown /\ VersionsKnown

\* The workers keep them.
LEMMA WorkerTypes ==
    ASSUME Types, NEW w \in Workers,
           Answer(w) \/ Cleanup(w) \/ \E n \in Names : Miss(w, n)
    PROVE  Types'
<1> USE CacheAssumption DEF Types
<1>0. /\ db \in 1 .. MaxVersion /\ size \in 0 .. Width - 1 /\ MaxVersion \in Nat
      /\ \A n \in Names : qc[n] \in 0 .. MaxVersion
      /\ \A v \in Workers : found[v] \in 0 .. MaxVersion
  BY DEF TypeOK, Versions
<1>1. ASSUME NEW n \in Names, Miss(w, n) PROVE Types'
  BY <1>1 DEF Miss, TypeOK, WorkersKnown, VersionsKnown
<1>2. ASSUME NEW v \in 1 .. MaxVersion, NEW point \in {"read", "reply"}, Has(w, v, point), v <= db
      PROVE  Types'
  BY <1>0, <1>2 DEF Has, TypeOK, WorkersKnown, VersionsKnown
<1>3. CASE LookupCached(w)
  <2>1. asked[w] \in Names
    BY <1>3 DEF LookupCached, WorkersKnown
  <2>2. qc[asked[w]] \in 1 .. MaxVersion /\ qc[asked[w]] <= db
    BY <1>0, <1>3, <2>1 DEF LookupCached, VersionsKnown
  <2> QED BY <1>2, <1>3, <2>2 DEF LookupCached
<1>4. CASE LookupDatabase(w)
  BY <1>0, <1>2, <1>4 DEF LookupDatabase
<1>5. CASE InsertQuery(w)
  BY <1>0, <1>5 DEF InsertQuery, TypeOK, WorkersKnown, VersionsKnown
<1>6. ASSUME Done(w), UNCHANGED <<db, qc, purge, clean, cleared>>, size' \in 0 .. Width - 1, PacketsOK'
      PROVE  Types'
  BY <1>0, <1>6 DEF Done, TypeOK, WorkersKnown, VersionsKnown, PacketsOK, Unique
<1>7. CASE InsertPacket(w)
  <2>1. PacketsOK' /\ (size' = size \/ size' = (size + 1) % Width)
    BY <1>7, InsertPacketSpec
  <2>2. size' \in 0 .. Width - 1
    <3>1. size + 1 \in Int
      BY <1>0
    <3>2. (size + 1) % Width \in 0 .. Width - 1
      BY ONLY <3>1, Modulo
    <3> QED BY ONLY <1>0, <2>1, <3>2
  <2> QED BY <1>6, <1>7, <2>1, <2>2 DEF InsertPacket
<1>8. CASE NotCached(w)
  <2>1. PacketsOK'
    BY <1>8 DEF NotCached, TypeOK, PacketsOK, Unique
  <2> QED BY <1>0, <1>6, <1>8, <2>1 DEF NotCached
<1>9. CASE Cleanup(w)
  <2>1. PacketsOK'
    BY <1>9, CleanupSpec
  <2> QED BY <1>9, <2>1 DEF Cleanup, TypeOK, WorkersKnown, VersionsKnown, PacketsOK, Unique
<1>10. CASE CleanupEnd(w)
  <2>1. size' \in 0 .. Width - 1
    <3>1. size' = (size - 1) % Width /\ size - 1 \in Int
      BY <1>0, <1>10 DEF CleanupEnd
    <3> QED BY ONLY <3>1, Modulo
  <2> QED BY <1>10, <2>1 DEF CleanupEnd, TypeOK, WorkersKnown, VersionsKnown
<1> QED BY <1>1, <1>3, <1>4, <1>5, <1>7, <1>8, <1>9, <1>10 DEF Answer

\* So do the purgers.
LEMMA PurgerTypes ==
    ASSUME Types, NEW u \in Purgers,
           Commit(u) \/ PurgeAll(u) \/ Continue(u) \/ \E n \in Names : PurgeName(u, n)
    PROVE  Types'
<1> USE CacheAssumption DEF Types, workerVars
<1>0. /\ db \in 1 .. MaxVersion /\ size \in 0 .. Width - 1 /\ MaxVersion \in Nat
      /\ \A n \in Names : qc[n] \in 0 .. MaxVersion
      /\ \A v \in Workers : found[v] \in 0 .. MaxVersion
      /\ PacketsOK /\ purge[u] \in PurgeStates
  BY DEF TypeOK, Versions, PacketsOK, Unique
<1>1. ASSUME purge' \in [Purgers -> PurgeStates], UNCHANGED <<db, qc, workerVars>>,
             size' \in 0 .. Width - 1, PacketsOK', {clean', cleared'} \subseteq BOOLEAN
      PROVE  Types'
  BY <1>1 DEF TypeOK, WorkersKnown, VersionsKnown, PacketsOK, Unique
<1>2. ASSUME UNCHANGED pc PROVE PacketsOK'
  BY <1>0, <1>2 DEF PacketsOK, Unique
<1>3. CASE Commit(u)
  <2>1. purge' \in [Purgers -> PurgeStates]
    BY <1>3, CommitMoves DEF Moved
  <2>2. /\ db' = db + 1 /\ db' \in Versions /\ clean' = FALSE
        /\ UNCHANGED <<pc, size, qc, at, asked, found, cleared>>
    BY <1>0, <1>3 DEF Commit, Versions
  <2>3. TypeOK'
    BY <2>1, <2>2 DEF TypeOK
  <2>4. WorkersKnown' /\ VersionsKnown'
    BY <1>0, <2>2 DEF WorkersKnown, VersionsKnown
  <2> QED BY <2>3, <2>4
<1>4. CASE PurgeAll(u)
  <2>1. purge' \in [Purgers -> PurgeStates]
    BY <1>4, PurgeAllMoves DEF Moved
  <2> QED BY <1>0, <1>1, <1>2, <1>4, <2>1 DEF PurgeAll, TypeOK
<1>5. ASSUME NEW n \in Names, PurgeName(u, n) PROVE Types'
  <2>1. purge' \in [Purgers -> PurgeStates]
    BY <1>5, PurgeNameMoves DEF Moved
  <2> QED BY <1>0, <1>1, <1>2, <1>5, <2>1 DEF PurgeName, TypeOK
<1>6. CASE PurgeQueries(u)
  <2>1. purge' \in [Purgers -> PurgeStates]
    BY <1>6, PurgeQueriesMoves DEF Moved
  <2> QED BY <1>0, <1>6, <2>1 DEF PurgeQueries, TypeOK, WorkersKnown, VersionsKnown
<1>7. CASE PurgePackets(u)
  <2>1. PacketsOK' /\ Len(pc) - Len(pc') \in Nat
    BY <1>7, PurgePacketsSpec
  <2>2. purge' \in [Purgers -> PurgeStates]
    BY <1>7, <2>1, PurgePacketsMoves DEF Moved
  <2>3. {clean', cleared'} \subseteq BOOLEAN
    BY <1>7 DEF PurgePackets, TypeOK
  <2> QED BY <1>0, <1>1, <1>7, <2>1, <2>2, <2>3 DEF PurgePackets
<1>8. CASE Subtract(u)
  <2>1. purge' \in [Purgers -> PurgeStates]
    BY <1>8, EndMoves DEF Moved
  <2>2. purge[u].del \in Nat
    BY <1>0 DEF PurgeStates
  <2>3. size - purge[u].del \in Int
    BY <1>0, <2>2
  <2>4. size' \in 0 .. Width - 1
    <3>1. size' = (size - purge[u].del) % Width
      BY <1>8 DEF Subtract
    <3> QED BY ONLY <2>3, <3>1, Modulo
  <2> QED BY <1>1, <1>2, <1>8, <2>1, <2>4 DEF Subtract, TypeOK
<1>9. CASE StoreZero(u)
  <2>1. purge' \in [Purgers -> PurgeStates]
    BY <1>9, StoreZeroMoves DEF Moved
  <2>2. size' \in 0 .. Width - 1 /\ {clean', cleared'} \subseteq BOOLEAN
    BY <1>9 DEF StoreZero, TypeOK
  <2> QED BY <1>1, <1>2, <1>9, <2>1, <2>2 DEF StoreZero
<1>10. CASE Clear(u)
  <2>1. purge' \in [Purgers -> PurgeStates]
    BY <1>10, EndMoves DEF Moved
  <2>2. PacketsOK'
    <3>1. pc' = <<>>
      BY <1>10 DEF Clear
    <3> QED BY <3>1, EmptySeq DEF PacketsOK, Unique
  <2> QED BY <1>0, <1>1, <1>10, <2>1, <2>2 DEF Clear, TypeOK
<1> QED BY <1>3, <1>4, <1>5, <1>6, <1>7, <1>8, <1>9, <1>10 DEF Continue

\* And time.
LEMMA ExpiryTypes ==
    ASSUME Types, NEW n \in Names, ExpirePacket(n) \/ ExpireQuery(n)
    PROVE  Types'
<1> USE CacheAssumption DEF Types, workerVars
<1>1. CASE ExpirePacket(n)
  <2>1. PacketsOK'
    BY <1>1, ExpirePacketSpec
  <2> QED BY <1>1, <2>1 DEF ExpirePacket, TypeOK, WorkersKnown, VersionsKnown, PacketsOK, Unique
<1>2. CASE ExpireQuery(n)
  BY <1>2 DEF ExpireQuery, TypeOK, Versions, WorkersKnown, VersionsKnown
<1> QED BY <1>1, <1>2


\* All steps keep the types.
LEMMA TypesStep ==
    ASSUME Types, [Next]_vars
    PROVE  Types'
<1>1. CASE UNCHANGED vars
  BY <1>1 DEF vars, Types, TypeOK, WorkersKnown, VersionsKnown
<1> QED BY <1>1, WorkerTypes, PurgerTypes, ExpiryTypes DEF Next

-----------------------------------------------------------------------------
(* The size.                                                               *)

Cleaners == {w \in Workers : at[w] = "cleaned"}
Del == [u \in Purgers |-> purge[u].del]

\* The two kinds of entries that are removed and not subtracted.
PendingIs ==
    /\ Pending = Cardinality(Cleaners) + Cardinality(Left(Del))
    /\ IsFiniteSet(Cleaners) /\ Cardinality(Cleaners) \in Nat
    /\ Cardinality(Left(Del)) \in Nat
    /\ Del \in [Purgers -> Nat]

\* Pending counts the workers that have cleaned and what purgers have left.
LEMMA PendingCounts == TypeOK => PendingIs
<1> SUFFICES ASSUME TypeOK PROVE PendingIs
  OBVIOUS
<1>1. Cleaners \in SUBSET Workers
  BY DEF Cleaners
<1>2. IsFiniteSet(Cleaners) /\ Cardinality(Cleaners) \in Nat
  BY <1>1, CacheAssumption, FS_Subset, FS_CardinalityType
<1>3. Cardinality(Left(Del)) \in Nat
  BY LeftFinite
<1>4. {x \in Purgers \X (1 .. MaxEntries) : x[2] <= purge[x[1]].del} = Left(Del)
  BY DEF Left, Del
<1>5. Pending = Cardinality(Cleaners) + Cardinality(Left(Del))
  BY <1>4 DEF Pending, Cleaners
<1>6. Del \in [Purgers -> Nat]
  BY DEF Del, TypeOK, PurgeStates
<1> QED BY <1>2, <1>3, <1>5, <1>6 DEF PendingIs

\* A worker begins to clean up,
LEMMA CleanupBegins ==
    ASSUME TypeOK, NEW w \in Workers, at' = [at EXCEPT ![w] = "cleaned"], at[w] # "cleaned"
    PROVE  Cardinality(Cleaners') = Cardinality(Cleaners) + 1
<1>1. IsFiniteSet(Cleaners)
  BY PendingCounts DEF PendingIs
<1>2. w \notin Cleaners /\ Cleaners' = Cleaners \cup {w}
  BY DEF TypeOK, Cleaners
<1> QED BY <1>1, <1>2, FS_AddElement

\* or ends to,
LEMMA CleanupEnds ==
    ASSUME TypeOK, NEW w \in Workers, at' = [at EXCEPT ![w] = "idle"], at[w] = "cleaned"
    PROVE  /\ Cardinality(Cleaners') = Cardinality(Cleaners) - 1
           /\ Cardinality(Cleaners) # 0
<1>1. IsFiniteSet(Cleaners)
  BY PendingCounts DEF PendingIs
<1>2. w \in Cleaners /\ Cleaners' = Cleaners \ {w}
  BY DEF TypeOK, Cleaners
<1> QED BY <1>1, <1>2, FS_RemoveElement, FS_EmptySet

\* or neither.
LEMMA NoCleanup ==
    ASSUME TypeOK, NEW w \in Workers, NEW point, at' = [at EXCEPT ![w] = point],
           at[w] # "cleaned", point # "cleaned"
    PROVE  Cleaners' = Cleaners
  BY DEF TypeOK, Cleaners

\* Subtracting x of what is counted neither wraps nor loses any of the rest.
LEMMA SubtractWithin ==
    ASSUME NEW s \in Nat, NEW l \in Nat, NEW c \in Nat, NEW d \in Nat, NEW x \in Nat,
           s = l + c + (d + x), s <= MaxEntries
    PROVE  /\ s - x \in 0 .. Width - 1 /\ s - x \in Int
           /\ s - x = l + c + d /\ s - x <= MaxEntries
  BY CacheAssumption

\* Every entry that is added or removed is counted once, sooner or later.
LEMMA SizeStep ==
    ASSUME Types, Types', PurgesKnown, SizeExact, [Next]_vars
    PROVE  SizeExact'
<1> DEFINE C == Cardinality(Cleaners)
           D == Cardinality(Left(Del))
<1> SUFFICES ASSUME ~cleared' PROVE size' = Len(pc') + C' + D' /\ size' <= MaxEntries
  <2>1. PendingIs'
    BY PendingCounts, PTL DEF Types
  <2>2. pc' \in Seq(Entries)
    BY DEF Types, TypeOK
  <2>3. Len(pc') \in Nat
    BY <2>2
  <2> QED BY <2>1, <2>3 DEF SizeExact, PendingIs
<1>1. ~cleared
  BY DEF Next, Answer, Continue, vars, Miss, LookupCached, LookupDatabase, Has, InsertQuery,
         InsertPacket, NotCached, Cleanup, CleanupEnd, Commit, PurgeAll, PurgeName, PurgeQueries,
         PurgePackets, Subtract, StoreZero, Clear, ExpirePacket, ExpireQuery
<1>2. /\ size = Len(pc) + C + D /\ size <= MaxEntries /\ Len(pc) \in Nat /\ size \in Nat
      /\ C \in Nat /\ D \in Nat /\ Del \in [Purgers -> Nat]
      /\ MaxEntries \in Nat /\ Width \in Nat /\ MaxEntries < Width
  <2>1. PendingIs /\ pc \in Seq(Entries)
    BY PendingCounts DEF Types, TypeOK
  <2>2. size \in Nat
    BY CacheAssumption DEF Types, TypeOK
  <2> QED BY <1>1, <2>1, <2>2, CacheAssumption DEF SizeExact, PendingIs
<1>3. Del' \in [Purgers -> Nat]
  <2>1. PendingIs'
    BY PendingCounts, PTL DEF Types
  <2> QED BY <2>1 DEF PendingIs
<1>4. ASSUME purge' = purge PROVE D' = D
  BY <1>4 DEF Del, Left
<1>5. ASSUME NEW w \in Workers, NEW point, at' = [at EXCEPT ![w] = point],
             at[w] # "cleaned", point # "cleaned", purge' = purge,
             size' = size /\ Len(pc') = Len(pc)
      PROVE  size' = Len(pc') + C' + D' /\ size' <= MaxEntries
  <2>1. Cleaners' = Cleaners
    BY <1>5, NoCleanup DEF Types
  <2> QED BY <1>2, <1>4, <1>5, <2>1
<1>6. ASSUME NEW w \in Workers, Answer(w) \/ Cleanup(w) \/ \E n \in Names : Miss(w, n)
      PROVE  size' = Len(pc') + C' + D' /\ size' <= MaxEntries
  <2>1. ASSUME NEW n \in Names, Miss(w, n)
        PROVE  size' = Len(pc') + C' + D' /\ size' <= MaxEntries
    BY <1>5, <2>1 DEF Miss
  <2>2. CASE LookupCached(w) \/ LookupDatabase(w)
    BY <1>5, <2>2 DEF LookupCached, LookupDatabase, Has
  <2>3. CASE InsertQuery(w)
    BY <1>5, <2>3 DEF InsertQuery
  <2>4. CASE NotCached(w)
    BY <1>5, <2>4 DEF NotCached, Done
  <2>5. CASE InsertPacket(w)
    <3>1. /\ at' = [at EXCEPT ![w] = "idle"] /\ at[w] # "cleaned" /\ purge' = purge
      BY <2>5 DEF InsertPacket, Done
    <3>2. \/ size' = size /\ Len(pc') = Len(pc)
          \/ ~Full /\ size' = (size + 1) % Width /\ Len(pc') = Len(pc) + 1
      BY <2>5, InsertPacketSpec DEF Types
    <3>3. CASE size' = size /\ Len(pc') = Len(pc)
      BY <1>5, <3>1, <3>3
    <3>4. CASE ~Full /\ size' = (size + 1) % Width /\ Len(pc') = Len(pc) + 1
      <4> HIDE DEF C, D
      <4>1. size + 1 <= MaxEntries /\ size + 1 \in 0 .. Width - 1
        BY <1>2, <3>4, CacheAssumption DEF Full
      <4>2. size' = size + 1
        BY <3>4, <4>1, Modulo
      <4>3. Cleaners' = Cleaners
        BY <3>1, NoCleanup DEF Types
      <4>4. C' = C /\ D' = D
        BY <1>4, <3>1, <4>3 DEF C
      <4> QED BY <1>2, <3>4, <4>1, <4>2, <4>4
    <3> QED BY <3>2, <3>3, <3>4
  <2>6. CASE Cleanup(w)
    <3>1. /\ at' = [at EXCEPT ![w] = "cleaned"] /\ at[w] # "cleaned" /\ purge' = purge
          /\ size' = size
      BY <2>6 DEF Cleanup
    <3>2. Len(pc') = Len(pc) - 1
      BY <2>6, CleanupSpec DEF Types
    <3>3. C' = C + 1
      BY <3>1, CleanupBegins DEF Types
    <3> QED BY <1>2, <1>4, <3>1, <3>2, <3>3
  <2>7. CASE CleanupEnd(w)
    <3>1. /\ at' = [at EXCEPT ![w] = "idle"] /\ at[w] = "cleaned" /\ purge' = purge
          /\ size' = (size - 1) % Width /\ pc' = pc
      BY <2>7 DEF CleanupEnd
    <3>2. C' = C - 1 /\ C # 0
      BY <3>1, CleanupEnds DEF Types
    <3> HIDE DEF C, D
    <3>3. size - 1 \in 0 .. Width - 1
      BY <1>2, <3>2, CacheAssumption
    <3>4. size' = size - 1
      BY <3>1, <3>3, Modulo
    <3>5. D' = D
      BY <1>4, <3>1
    <3> QED BY <1>2, <3>1, <3>2, <3>4, <3>5
  <2> QED BY <1>6, <2>1, <2>2, <2>3, <2>4, <2>5, <2>6, <2>7 DEF Answer
<1>7. ASSUME NEW u \in Purgers,
             Commit(u) \/ PurgeAll(u) \/ Continue(u) \/ \E n \in Names : PurgeName(u, n)
      PROVE  size' = Len(pc') + C' + D' /\ size' <= MaxEntries
  <2>0. /\ C' = C
        /\ purge[u].at # "subtract" => purge[u].del = 0
        /\ Del[u] = purge[u].del /\ Del'[u] = purge'[u].del
        /\ \A v \in Purgers : Del[v] = purge[v].del /\ Del'[v] = purge'[v].del
    <3>1. at' = at
      BY <1>7 DEF Commit, PurgeAll, PurgeName, Continue, PurgeQueries, PurgePackets, Subtract,
                  StoreZero, Clear, workerVars
    <3> QED BY <3>1 DEF Cleaners, Del, PurgesKnown
  <2>1. ASSUME purge'[u].del = purge[u].del, \A v \in Purgers \ {u} : purge'[v] = purge[v],
               UNCHANGED <<pc, size>>
        PROVE  size' = Len(pc') + C' + D' /\ size' <= MaxEntries
    <3>1. \A v \in Purgers : Del'[v] = Del[v]
      BY <2>0, <2>1
    <3>2. Del' = Del
      BY <1>2, <1>3, <3>1
    <3>3. Left(Del)' = Left(Del)
      BY <3>2 DEF Left
    <3> QED BY <1>2, <2>0, <2>1, <3>3
  <2>2. CASE Commit(u)
    BY <2>0, <2>1, <2>2, CommitMoves DEF Commit, Begin, Moved, Types
  <2>3. CASE PurgeAll(u)
    BY <2>0, <2>1, <2>3, PurgeAllMoves DEF PurgeAll, Begin, Moved, Types
  <2>4. ASSUME NEW n \in Names, PurgeName(u, n)
        PROVE  size' = Len(pc') + C' + D' /\ size' <= MaxEntries
    BY <2>0, <2>1, <2>4, PurgeNameMoves DEF PurgeName, Begin, Moved, Types
  <2>5. CASE PurgeQueries(u)
    <3>1. purge'[u].del = purge[u].del /\ \A v \in Purgers \ {u} : purge'[v] = purge[v]
      BY <2>5, PurgeQueriesMoves DEF Moved, Types
    <3> QED BY <2>1, <2>5, <3>1 DEF PurgeQueries
  <2>6. CASE PurgePackets(u)
    <3>1. Len(pc') \in 0 .. Len(pc) /\ Len(pc) - Len(pc') \in Nat
      BY <2>6, PurgePacketsSpec DEF Types
    <3>2. /\ purge'[u].del = Len(pc) - Len(pc')
          /\ \A v \in Purgers \ {u} : purge'[v] = purge[v]
      BY <2>6, <3>1, PurgePacketsMoves DEF Moved, Types
    <3>3. /\ Del[u] = 0 /\ Del'[u] = Len(pc) - Len(pc') /\ Del'[u] \in 0 .. MaxEntries
          /\ \A v \in Purgers \ {u} : Del'[v] = Del[v]
      <4>1. Del[u] = 0
        BY <2>0, <2>6 DEF PurgePackets
      <4>2. Del'[u] = Len(pc) - Len(pc')
        BY <2>0, <3>2
      <4> HIDE DEF C, D
      <4>3. Len(pc) - Len(pc') \in 0 .. MaxEntries
        BY <1>2, <3>1, CacheAssumption
      <4> QED BY <2>0, <3>2, <4>1, <4>2, <4>3
    <3>4. Cardinality(Left(Del')) = D + Del'[u]
      BY <1>2, <1>3, <3>3, LeftAdds
    <3>5. D' = Cardinality(Left(Del'))
      BY DEF Left
    <3>6. size' = size
      BY <2>6 DEF PurgePackets
    <3> QED BY <1>2, <2>0, <3>1, <3>3, <3>4, <3>5, <3>6
  <2>7. CASE Subtract(u)
    <3>1. /\ purge'[u].del = 0 /\ \A v \in Purgers \ {u} : purge'[v] = purge[v]
      BY <2>7, EndMoves DEF Moved, Types
    <3>2. /\ Del'[u] = 0 /\ Del[u] = purge[u].del /\ Del[u] \in 0 .. MaxEntries
          /\ \A v \in Purgers \ {u} : Del[v] = Del'[v]
      BY <1>1, <1>2, <2>0, <3>1, CacheAssumption DEF PurgesKnown
    <3>3. D = Cardinality(Left(Del')) + Del[u]
      BY <1>2, <1>3, <3>2, LeftAdds
    <3>4. D' = Cardinality(Left(Del')) /\ D' \in Nat
      <4>1. Cardinality(Left(Del')) \in Nat
        BY LeftFinite
      <4> QED BY <4>1 DEF Left
    <3> HIDE DEF C, D
    <3>5. D = D' + Del[u] /\ Del[u] \in Nat
      BY <1>2, <3>3, <3>4
    <3>6. PICK x \in Nat : x = Del[u]
      BY <3>5
    <3>7. PICK d \in Nat : d = D'
      BY <3>4
    <3>8. D = d + x /\ size = Len(pc) + C + (d + x)
      BY <1>2, <3>5, <3>6, <3>7
    <3>9. /\ size - x \in 0 .. Width - 1 /\ size - x \in Int
          /\ size - x = Len(pc) + C + d /\ size - x <= MaxEntries
      BY <1>2, <3>8, SubtractWithin
    <3>10. size' = (size - x) % Width /\ pc' = pc
      BY <2>7, <3>2, <3>6 DEF Subtract
    <3>11. size' = size - x
      BY <3>9, <3>10, Modulo
    <3> QED BY <2>0, <3>7, <3>9, <3>10, <3>11
  <2>8. ~StoreZero(u) /\ ~Clear(u)
    BY <1>1 DEF StoreZero, Clear, PurgesKnown
  <2> QED BY <1>7, <2>2, <2>3, <2>4, <2>5, <2>6, <2>7, <2>8 DEF Continue
<1>8. ASSUME at' = at, purge' = purge, size' = size, Len(pc') = Len(pc)
      PROVE  size' = Len(pc') + C' + D' /\ size' <= MaxEntries
  <2>1. C' = C
    BY <1>8 DEF Cleaners
  <2> QED BY <1>2, <1>4, <1>8, <2>1
<1>9. ASSUME NEW n \in Names, ExpirePacket(n) \/ ExpireQuery(n)
      PROVE  size' = Len(pc') + C' + D' /\ size' <= MaxEntries
  <2>1. Len(pc') = Len(pc)
    BY <1>9, ExpirePacketSpec DEF ExpireQuery, Types
  <2> QED BY <1>8, <1>9, <2>1 DEF ExpirePacket, ExpireQuery, workerVars
<1>10. CASE UNCHANGED vars
  BY <1>8, <1>10 DEF vars
<1> QED BY <1>6, <1>7, <1>9, <1>10 DEF Next


-----------------------------------------------------------------------------
(* Purges.                                                                 *)

\* Every step keeps what is known of the purgers. What a purger removes is at most
\* MaxEntries, because the cache is never larger.
LEMMA PurgesStep ==
    ASSUME Types, Types', PurgesKnown, SizeExact, [Next]_vars
    PROVE  PurgesKnown'
<1> USE DEF Types
<1>0. /\ db \in Nat /\ MaxEntries \in Nat /\ MaxVersion \in Nat
      /\ \A v \in Purgers : purge[v].version \in Nat /\ purge[v].del \in Nat
  BY CacheAssumption DEF TypeOK, Versions, PurgeStates
<1>1. ASSUME purge' = purge, db' = db, cleared' = cleared PROVE PurgesKnown'
  BY <1>1 DEF PurgesKnown
<1>2. ASSUME NEW w \in Workers, Answer(w) \/ Cleanup(w) \/ \E n \in Names : Miss(w, n)
      PROVE  PurgesKnown'
  BY <1>1, <1>2 DEF Answer, Miss, LookupCached, LookupDatabase, Has, InsertQuery, InsertPacket,
                    NotCached, Cleanup, CleanupEnd
<1>3. ASSUME NEW n \in Names, ExpirePacket(n) \/ ExpireQuery(n) PROVE PurgesKnown'
  BY <1>1, <1>3 DEF ExpirePacket, ExpireQuery
<1>4. CASE UNCHANGED vars
  BY <1>1, <1>4 DEF vars
<1>5. ASSUME NEW u \in Purgers, \A v \in Purgers \ {u} : purge'[v] = purge[v],
             db' = db \/ db' = db + 1, cleared => cleared',
             /\ purge'[u].version <= db'
             /\ purge'[u].version # 0 => purge'[u].names = Names
             /\ purge'[u].at # "subtract" => purge'[u].del = 0
             /\ purge'[u].at = "clear" => cleared'
             /\ ~cleared' => purge'[u].del <= MaxEntries
      PROVE  PurgesKnown'
  <2> SUFFICES ASSUME NEW v \in Purgers, v # u
               PROVE  /\ purge'[v].version <= db'
                      /\ purge'[v].version # 0 => purge'[v].names = Names
                      /\ purge'[v].at # "subtract" => purge'[v].del = 0
                      /\ purge'[v].at = "clear" => cleared'
                      /\ ~cleared' => purge'[v].del <= MaxEntries
    BY <1>5 DEF PurgesKnown
  <2>1. purge'[v] = purge[v]
    BY <1>5
  <2>2. purge[v].version <= db'
    BY <1>0, <1>5 DEF PurgesKnown
  <2> QED BY <1>5, <2>1, <2>2 DEF PurgesKnown
<1>6. ASSUME NEW u \in Purgers,
             Commit(u) \/ PurgeAll(u) \/ Continue(u) \/ \E n \in Names : PurgeName(u, n)
      PROVE  PurgesKnown'
  <2>1. CASE Commit(u)
    <3>1. db' = db + 1 /\ cleared' = cleared
      BY <2>1 DEF Commit
    <3>2. /\ purge'[u].version = db + 1 /\ purge'[u].at = "qc" /\ purge'[u].del = 0 /\ purge'[u].names = Names
          /\ \A v \in Purgers \ {u} : purge'[v] = purge[v]
      BY <2>1, CommitMoves DEF Moved
    <3> QED BY <1>0, <1>5, <3>1, <3>2
  <2>2. CASE PurgeAll(u)
    <3>1. db' = db /\ cleared' = cleared
      BY <2>2 DEF PurgeAll
    <3>2. /\ purge'[u].version = 0 /\ purge'[u].at = "qc" /\ purge'[u].del = 0
          /\ \A v \in Purgers \ {u} : purge'[v] = purge[v]
      BY <2>2, PurgeAllMoves DEF Moved
    <3> QED BY <1>0, <1>5, <3>1, <3>2
  <2>3. ASSUME NEW n \in Names, PurgeName(u, n) PROVE PurgesKnown'
    <3>1. db' = db /\ cleared' = cleared
      BY <2>3 DEF PurgeName
    <3>2. /\ purge'[u].version = 0 /\ purge'[u].at = "qc" /\ purge'[u].del = 0
          /\ \A v \in Purgers \ {u} : purge'[v] = purge[v]
      BY <2>3, PurgeNameMoves DEF Moved
    <3> QED BY <1>0, <1>5, <3>1, <3>2
  <2>4. CASE PurgeQueries(u)
    <3>1. db' = db /\ cleared' = cleared /\ purge[u].at = "qc"
      BY <2>4 DEF PurgeQueries
    <3>2. /\ purge'[u].version = purge[u].version /\ purge'[u].names = purge[u].names
          /\ purge'[u].del = purge[u].del /\ purge'[u].at \in {"store", "pc"}
          /\ \A v \in Purgers \ {u} : purge'[v] = purge[v]
      BY <2>4, PurgeQueriesMoves DEF Moved
    <3> QED BY <1>0, <1>5, <3>1, <3>2 DEF PurgesKnown
  <2>5. CASE PurgePackets(u)
    <3>1. db' = db /\ cleared' = cleared /\ purge[u].at = "pc"
      BY <2>5 DEF PurgePackets
    <3>2. /\ Len(pc) \in Nat /\ Len(pc') \in 0 .. Len(pc) /\ Len(pc) - Len(pc') \in Nat
      BY <2>5, PurgePacketsSpec
    <3>3. /\ purge'[u].version = purge[u].version /\ purge'[u].names = purge[u].names
          /\ purge'[u].del = Len(pc) - Len(pc') /\ purge'[u].at = "subtract"
          /\ \A v \in Purgers \ {u} : purge'[v] = purge[v]
      BY <2>5, <3>2, PurgePacketsMoves DEF Moved
    <3>4. ASSUME ~cleared PROVE Len(pc) - Len(pc') <= MaxEntries
      <4>1. PICK p \in Nat : p = Pending
        <5>1. PendingIs
          BY PendingCounts
        <5> QED BY <5>1 DEF PendingIs
      <4>2. size = Len(pc) + p /\ size <= MaxEntries
        BY <3>4, <4>1 DEF SizeExact
      <4> QED BY <1>0, <3>2, <4>1, <4>2
    <3> QED BY <1>0, <1>5, <3>1, <3>3, <3>4 DEF PurgesKnown
  <2>6. CASE Subtract(u) \/ Clear(u)
    <3>1. db' = db /\ cleared' = cleared
      BY <2>6 DEF Subtract, Clear
    <3>2. /\ purge'[u].version = 0 /\ purge'[u].at = "idle" /\ purge'[u].del = 0
          /\ \A v \in Purgers \ {u} : purge'[v] = purge[v]
      BY <2>6, EndMoves DEF Moved
    <3> QED BY <1>0, <1>5, <3>1, <3>2
  <2>7. CASE StoreZero(u)
    <3>1. db' = db /\ cleared' = TRUE /\ purge[u].at = "store"
      BY <2>7 DEF StoreZero
    <3>2. /\ purge'[u].version = purge[u].version /\ purge'[u].names = purge[u].names
          /\ purge'[u].del = purge[u].del /\ purge'[u].at = "clear"
          /\ \A v \in Purgers \ {u} : purge'[v] = purge[v]
      BY <2>7, StoreZeroMoves DEF Moved
    <3> QED BY <1>0, <1>5, <3>1, <3>2 DEF PurgesKnown
  <2> QED BY <1>6, <2>1, <2>2, <2>3, <2>4, <2>5, <2>6, <2>7 DEF Continue
<1> QED BY <1>2, <1>3, <1>4, <1>6 DEF Next

\* Without a change, whoever has nothing old gets nothing old.
LEMMA SettledStep ==
    ASSUME Types, Settled, [Next]_vars, db' = db
    PROVE  Settled'
<1> USE DEF Types, Settled
<1>1. ASSUME qc' = qc, found' = found PROVE Settled'
  BY <1>1
<1>2. ASSUME NEW w \in Workers, Answer(w) \/ Cleanup(w) \/ \E n \in Names : Miss(w, n)
      PROVE  Settled'
  <2>1. ASSUME NEW v \in {0, db}, found' = [found EXCEPT ![w] = v], qc' = qc PROVE Settled'
    BY <2>1 DEF TypeOK
  <2>2. ASSUME NEW n \in Names, Miss(w, n) PROVE Settled'
    BY <1>1, <2>2 DEF Miss
  <2>3. CASE LookupCached(w)
    <3>1. asked[w] \in Names
      BY <2>3 DEF LookupCached, WorkersKnown
    <3> QED BY <2>1, <2>3, <3>1 DEF LookupCached, Has
  <2>4. CASE LookupDatabase(w)
    BY <2>1, <2>4 DEF LookupDatabase, Has
  <2>5. CASE InsertQuery(w)
    <3>1. asked[w] \in Names /\ found[w] \in {0, db} /\ found' = found
      BY <2>5 DEF InsertQuery, WorkersKnown
    <3> QED BY <2>5, <3>1 DEF InsertQuery, TypeOK
  <2>6. CASE InsertPacket(w) \/ NotCached(w)
    BY <2>1, <2>6 DEF InsertPacket, NotCached, Done
  <2>7. CASE Cleanup(w) \/ CleanupEnd(w)
    BY <1>1, <2>7 DEF Cleanup, CleanupEnd
  <2> QED BY <1>2, <2>2, <2>3, <2>4, <2>5, <2>6, <2>7 DEF Answer
<1>3. ASSUME NEW u \in Purgers,
             Commit(u) \/ PurgeAll(u) \/ Continue(u) \/ \E n \in Names : PurgeName(u, n)
      PROVE  Settled'
  <2>1. CASE PurgeQueries(u)
    BY <2>1 DEF PurgeQueries, workerVars, TypeOK
  <2>2. CASE ~PurgeQueries(u)
    BY <1>1, <1>3, <2>2 DEF Commit, PurgeAll, PurgeName, Continue, PurgePackets, Subtract,
                            StoreZero, Clear, workerVars
  <2> QED BY <2>1, <2>2
<1>4. ASSUME NEW n \in Names, ExpirePacket(n) \/ ExpireQuery(n) PROVE Settled'
  <2>1. CASE ExpirePacket(n)
    BY <1>1, <2>1 DEF ExpirePacket, workerVars
  <2>2. CASE ExpireQuery(n)
    BY <2>2 DEF ExpireQuery, workerVars, TypeOK
  <2> QED BY <1>4, <2>1, <2>2
<1>5. CASE UNCHANGED vars
  BY <1>1, <1>5 DEF vars
<1> QED BY <1>2, <1>3, <1>4, <1>5 DEF Next


\* The two caches agree with the database after a purge, and stay so: the only step that
\* makes them old is a change, which is not clean until it is purged itself.
LEMMA EffectiveStep ==
    ASSUME Types, Types', PurgesKnown, SettledWhenPurged, PurgeEffective, [Next]_vars
    PROVE  SettledWhenPurged' /\ PurgeEffective'
<1> USE DEF Types
<1> DEFINE Due(u) == purge[u].at = "pc" /\ purge[u].version = db /\ ~purge[u].straggler
           Fresh == \A i \in 1 .. Len(pc) : pc[i].version = db
<1>0. /\ db \in Nat /\ \A v \in Purgers : purge[v].version \in Nat
      /\ \A w \in Workers : found[w] \in Nat
  BY CacheAssumption DEF TypeOK, Versions, PurgeStates
<1>1. ASSUME db' = db, clean' => clean, \A u \in Purgers : Due(u)' => Due(u),
             Fresh /\ Settled => Fresh'
      PROVE  SettledWhenPurged' /\ PurgeEffective'
  <2>1. Settled => Settled'
    BY <1>1, SettledStep
  <2>2. SettledWhenPurged'
    BY <1>1, <2>1 DEF SettledWhenPurged
  <2>3. clean' => Fresh' /\ Settled'
    BY <1>1, <2>1 DEF SettledWhenPurged, PurgeEffective
  <2> QED BY <2>2, <2>3 DEF PurgeEffective, Settled
<1>2. ASSUME pc' = pc, db' = db PROVE Fresh => Fresh'
  BY <1>2
<1>3. ASSUME pc' = pc, db' = db, purge' = purge, clean' = clean
      PROVE  SettledWhenPurged' /\ PurgeEffective'
  BY <1>1, <1>2, <1>3
<1>4. ASSUME NEW w \in Workers, Answer(w) \/ Cleanup(w) \/ \E n \in Names : Miss(w, n)
      PROVE  SettledWhenPurged' /\ PurgeEffective'
  <2>1. CASE InsertPacket(w)
    <3>1. db' = db /\ purge' = purge /\ clean' = clean
      BY <2>1 DEF InsertPacket
    <3>2. /\ found[w] # 0
          /\ \A j \in 1 .. Len(pc') :
                \/ pc'[j].version = found[w]
                \/ \E i \in 1 .. Len(pc) : pc'[j].version = pc[i].version
      BY <2>1, InsertPacketSpec
    <3>3. Fresh /\ Settled => Fresh'
      BY <3>1, <3>2 DEF Settled
    <3> QED BY <1>1, <3>1, <3>3
  <2>2. CASE Cleanup(w)
    <3>1. db' = db /\ purge' = purge /\ clean' = clean
      BY <2>2 DEF Cleanup
    <3>2. \A j \in 1 .. Len(pc') : \E i \in 1 .. Len(pc) : pc'[j] = pc[i]
      BY <2>2, CleanupSpec
    <3>3. Fresh => Fresh'
      BY <3>1, <3>2
    <3> QED BY <1>1, <3>1, <3>3
  <2>3. CASE ~InsertPacket(w) /\ ~Cleanup(w)
    <3>1. pc' = pc /\ db' = db /\ purge' = purge /\ clean' = clean
      BY <1>4, <2>3 DEF Answer, Miss, LookupCached, LookupDatabase, Has, InsertQuery, NotCached,
                        CleanupEnd
    <3> QED BY <1>3, <3>1
  <2> QED BY <2>1, <2>2, <2>3
<1>5. ASSUME NEW n \in Names, ExpirePacket(n) \/ ExpireQuery(n)
      PROVE  SettledWhenPurged' /\ PurgeEffective'
  <2>1. db' = db /\ purge' = purge /\ clean' = clean
    BY <1>5 DEF ExpirePacket, ExpireQuery
  <2>2. Fresh => Fresh'
    <3>1. CASE ExpirePacket(n)
      BY <2>1, <3>1, ExpirePacketSpec
    <3>2. CASE ExpireQuery(n)
      BY <2>1, <3>2 DEF ExpireQuery
    <3> QED BY <1>5, <3>1, <3>2
  <2> QED BY <1>1, <2>1, <2>2
<1>6. CASE UNCHANGED vars
  BY <1>3, <1>6 DEF vars
<1>7. ASSUME NEW u \in Purgers,
             Commit(u) \/ PurgeAll(u) \/ Continue(u) \/ \E n \in Names : PurgeName(u, n)
      PROVE  SettledWhenPurged' /\ PurgeEffective'
  <2>0. ASSUME purge'[u].at # "pc", \A v \in Purgers \ {u} : purge'[v] = purge[v], db' = db
        PROVE  \A v \in Purgers : Due(v)' => Due(v)
    BY <2>0
  <2>1. CASE Commit(u)
    <3>1. db' = db + 1 /\ clean' = FALSE
      BY <2>1 DEF Commit
    <3>2. purge'[u].at = "qc" /\ \A v \in Purgers \ {u} : purge'[v] = purge[v]
      BY <2>1, CommitMoves DEF Moved
    <3>3. \A v \in Purgers : purge[v].version # db'
      BY <1>0, <3>1 DEF PurgesKnown
    <3>4. \A v \in Purgers : ~Due(v)'
      BY <3>2, <3>3
    <3> QED BY <3>1, <3>4 DEF SettledWhenPurged, PurgeEffective
  <2>2. CASE PurgeAll(u)
    <3>1. db' = db /\ clean' = clean /\ pc' = pc
      BY <2>2 DEF PurgeAll
    <3>2. purge'[u].at = "qc" /\ \A v \in Purgers \ {u} : purge'[v] = purge[v]
      BY <2>2, PurgeAllMoves DEF Moved
    <3> QED BY <1>1, <1>2, <2>0, <3>1, <3>2
  <2>3. ASSUME NEW n \in Names, PurgeName(u, n) PROVE SettledWhenPurged' /\ PurgeEffective'
    <3>1. db' = db /\ clean' = clean /\ pc' = pc
      BY <2>3 DEF PurgeName
    <3>2. purge'[u].at = "qc" /\ \A v \in Purgers \ {u} : purge'[v] = purge[v]
      BY <2>3, PurgeNameMoves DEF Moved
    <3> QED BY <1>1, <1>2, <2>0, <3>1, <3>2
  <2>4. CASE PurgeQueries(u)
    <3>1. db' = db /\ clean' = clean /\ pc' = pc /\ found' = found
      BY <2>4 DEF PurgeQueries, workerVars
    <3>2. /\ purge'[u].version = purge[u].version /\ purge[u].names \subseteq Names
          /\ purge'[u].straggler = \E w \in Workers : Old(w)
          /\ \A v \in Purgers \ {u} : purge'[v] = purge[v]
      BY <2>4, PurgeQueriesMoves DEF Moved, TypeOK, PurgeStates
    <3>3. ASSUME Due(u)' PROVE Settled'
      <4>1. purge[u].version = db /\ ~ \E w \in Workers : Old(w)
        BY <3>1, <3>2, <3>3
      <4>2. purge[u].names = Names
        BY <1>0, <4>1 DEF PurgesKnown, TypeOK, Versions
      <4>3. \A n \in Names : qc'[n] = 0
        BY <2>4, <4>2 DEF PurgeQueries
      <4>4. \A w \in Workers : found[w] \in {0, db}
        BY <1>0, <4>1 DEF Old, WorkersKnown
      <4> QED BY <3>1, <4>3, <4>4 DEF Settled
    <3>4. Settled => Settled'
      BY <3>1, SettledStep
    <3>5. \A v \in Purgers : Due(v)' => Settled'
      BY <3>1, <3>2, <3>3, <3>4 DEF SettledWhenPurged
    <3>6. clean' => Fresh' /\ Settled'
      BY <1>2, <3>1, <3>4 DEF SettledWhenPurged, PurgeEffective
    <3> QED BY <3>5, <3>6 DEF SettledWhenPurged, PurgeEffective, Settled
  <2>5. CASE PurgePackets(u)
    <3>1. /\ db' = db /\ purge[u].at = "pc"
          /\ clean' = (clean \/ (purge[u].version = db /\ ~purge[u].straggler))
      BY <2>5 DEF PurgePackets
    <3>2. /\ Len(pc) - Len(pc') \in Nat
          /\ \A j \in 1 .. Len(pc') :
                \E i \in 1 .. Len(pc) : pc[i].name \notin purge[u].names /\ pc'[j] = pc[i]
      BY <2>5, PurgePacketsSpec
    <3>3. purge'[u].at = "subtract" /\ \A v \in Purgers \ {u} : purge'[v] = purge[v]
      BY <2>5, <3>2, PurgePacketsMoves DEF Moved
    <3>4. Settled => Settled'
      BY <3>1, SettledStep
    <3>5. \A v \in Purgers : Due(v)' => Due(v)
      BY <2>0, <3>1, <3>3
    <3>6. ASSUME ~clean, purge[u].version = db, ~purge[u].straggler PROVE Fresh' /\ Settled'
      <4>1. Settled
        BY <3>1, <3>6 DEF SettledWhenPurged
      <4>2. purge[u].names = Names
        BY <3>6 DEF PurgesKnown, TypeOK, Versions
      <4>3. \A i \in 1 .. Len(pc) : pc[i].name \in Names
        <5>1. pc \in Seq(Entries)
          BY DEF TypeOK
        <5>2. \A i \in 1 .. Len(pc) : pc[i] \in Entries
          BY <5>1
        <5> QED BY <5>2 DEF Entries
      <4>4. Fresh'
        BY <3>2, <4>2, <4>3
      <4> QED BY <3>4, <4>1, <4>4
    <3>7. ASSUME clean PROVE Fresh' /\ Settled'
      <4>1. Fresh /\ Settled
        BY <3>7 DEF SettledWhenPurged, PurgeEffective
      <4> QED BY <3>1, <3>2, <3>4, <4>1
    <3>8. clean' => Fresh' /\ Settled'
      BY <3>1, <3>6, <3>7
    <3> QED BY <3>4, <3>5, <3>8 DEF SettledWhenPurged, PurgeEffective, Settled
  <2>6. CASE Subtract(u) \/ Clear(u)
    <3>1. db' = db /\ clean' = clean /\ (pc' = pc \/ pc' = <<>>)
      BY <2>6 DEF Subtract, Clear
    <3>2. purge'[u].at = "idle" /\ \A v \in Purgers \ {u} : purge'[v] = purge[v]
      BY <2>6, EndMoves DEF Moved
    <3>3. Fresh => Fresh'
      BY <3>1
    <3> QED BY <1>1, <2>0, <3>1, <3>2, <3>3
  <2>7. CASE StoreZero(u)
    <3>1. db' = db /\ clean' = clean /\ pc' = pc
      BY <2>7 DEF StoreZero
    <3>2. purge'[u].at = "clear" /\ \A v \in Purgers \ {u} : purge'[v] = purge[v]
      BY <2>7, StoreZeroMoves DEF Moved
    <3> QED BY <1>1, <1>2, <2>0, <3>1, <3>2
  <2> QED BY <1>7, <2>1, <2>2, <2>3, <2>4, <2>5, <2>6, <2>7 DEF Continue
<1> QED BY <1>4, <1>5, <1>6, <1>7 DEF Next


-----------------------------------------------------------------------------
(* The theorems.                                                           *)

\* The server starts with empty caches, which are clean.
LEMMA IInvInit == Init => IInv
<1> SUFFICES ASSUME Init PROVE IInv
  OBVIOUS
<1> USE CacheAssumption
<1>1. pc = <<>> /\ pc \in Seq(Entries) /\ Len(pc) = 0
  BY EmptySeq DEF Init
<1>2. \A u \in Purgers : purge[u] = Idle
  BY DEF Init
<1>3. purge \in [Purgers -> PurgeStates]
  BY <1>2, IdleIs DEF Init
<1>4. TypeOK
  <2>1. \A i, j \in 1 .. Len(pc) : pc[i].name = pc[j].name => i = j
    BY <1>1
  <2>2. db \in Versions /\ size \in 0 .. Width - 1 /\ {clean, cleared} \subseteq BOOLEAN
    <3>1. db \in Versions /\ size \in 0 .. Width - 1
      BY DEF Init, Versions
    <3>2. clean = TRUE /\ cleared = FALSE
      BY DEF Init
    <3>3. {clean, cleared} \subseteq BOOLEAN
      BY <3>2, Zenon
    <3> QED BY <3>1, <3>3
  <2>3. /\ qc \in [Names -> 0 .. MaxVersion] /\ found \in [Workers -> 0 .. MaxVersion]
        /\ at \in [Workers -> {"idle", "lookup", "read", "reply", "cleaned"}]
        /\ asked \in [Workers -> Names \cup {NoName}]
    BY DEF Init
  <2> QED BY <1>1, <1>3, <2>1, <2>2, <2>3 DEF TypeOK
<1>5. WorkersKnown /\ VersionsKnown
  BY DEF Init, WorkersKnown, VersionsKnown
<1>6. PurgesKnown
  BY <1>2, IdleIs DEF Init, PurgesKnown
<1>7. Settled
  BY DEF Init, Settled
<1>8. SettledWhenPurged /\ PurgeEffective
  BY <1>1, <1>7 DEF SettledWhenPurged, PurgeEffective, Settled
<1>9. SizeExact
  <2>1. PendingIs
    BY <1>4, PendingCounts
  <2>2. Cleaners = {}
    BY DEF Init, Cleaners
  <2>3. \A u \in Purgers : Del[u] = 0
    BY <1>2, IdleIs DEF Del
  <2>4. Left(Del) = {}
    BY <2>3 DEF Left
  <2>5. Cardinality(Cleaners) = 0 /\ Cardinality(Left(Del)) = 0
    BY <2>2, <2>4, FS_EmptySet
  <2>6. Pending = 0
    BY <2>1, <2>5 DEF PendingIs
  <2>7. size = 0
    BY DEF Init
  <2> QED BY <1>1, <2>6, <2>7 DEF SizeExact
<1> QED BY <1>4, <1>5, <1>6, <1>8, <1>9 DEF IInv

\* Every step keeps the invariant.
LEMMA IInvStep == IInv /\ [Next]_vars => IInv'
<1> SUFFICES ASSUME IInv, [Next]_vars PROVE IInv'
  OBVIOUS
<1>1. Types'
  BY TypesStep DEF IInv, Types
<1>2. PurgesKnown'
  BY <1>1, PurgesStep DEF IInv, Types
<1>3. SizeExact'
  BY <1>1, SizeStep DEF IInv, Types
<1>4. SettledWhenPurged' /\ PurgeEffective'
  BY <1>1, EffectiveStep DEF IInv, Types
<1> QED BY <1>1, <1>2, <1>3, <1>4 DEF IInv, Types

\* The invariant holds in all behaviours.
LEMMA InductiveInvariant == Spec => []IInv
  BY IInvInit, IInvStep, PTL DEF Spec

\* The variables keep their types; the packet cache never holds two entries for one
\* question, and the counter always fits its width.
THEOREM TypeCorrect == Spec => []TypeOK
<1>1. IInv => TypeOK
  BY DEF IInv
<1> QED BY InductiveInvariant, <1>1, PTL

\* However threads interleave between the lock of the packet cache and the atomic counter
\* packetcache-size, the counter is what is in the cache and what is still to be
\* subtracted, never wraps, and keeps the cache within max-packet-cache-entries, until
\* the operator uses purge().
THEOREM SizeIsExact == Spec => []SizeExact
<1>1. IInv => SizeExact
  BY DEF IInv
<1> QED BY InductiveInvariant, <1>1, PTL

\* A change whose purge met no thread with an older version leaves nothing older in either
\* cache, because the query cache is purged before the packet cache.
THEOREM PurgeIsEffective == Spec => []PurgeEffective
<1>1. IInv => PurgeEffective
  BY DEF IInv
<1> QED BY InductiveInvariant, <1>1, PTL

==============================================================================
