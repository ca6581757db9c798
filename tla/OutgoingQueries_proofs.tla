------------------------ MODULE OutgoingQueries_proofs ------------------------
(***************************************************************************)
(* Proofs about OutgoingQueries for every number of mthreads, questions,   *)
(* subnets, IDs and sockets, and every limit of chains.                    *)
(***************************************************************************)
EXTENDS OutgoingQueries, FiniteSetTheorems, NaturalsInduction, WellFoundedInduction, TLAPS

-----------------------------------------------------------------------------
(* Records.                                                                *)

\* Two waiters with the same key, for the same mthread.
Same(v, w) == v.query = w.query /\ v.fd = w.fd /\ v.m = w.m

SameKey(v, w) == v.query.q = w.query.q /\ v.fd = w.fd /\ v.query.id = w.query.id

\* The fields of a waiter.
LEMMA WaiterIs ==
    ASSUME NEW w \in Waiter
    PROVE  /\ w.query \in Query /\ w.fd \in Int /\ w.m \in MThreads
           /\ w.chain \in SUBSET Entry /\ w.closed \in BOOLEAN
           /\ IsHead(w) => w.fd \in Fds
           /\ ~IsHead(w) => w.fd \in Pseudo
  BY OutgoingAssumption DEF Waiter, Fds, Pseudo, IsHead

\* Closing a chain changes nothing else.
LEMMA CloseIs ==
    ASSUME NEW w \in Waiter
    PROVE  /\ Close(w) \in Waiter /\ Same(Close(w), w)
           /\ Close(w).chain = w.chain /\ Close(w).closed = TRUE
  BY DEF Close, Waiter, Same

\* Time changes nothing but the age.
LEMMA AgedIs ==
    ASSUME NEW w \in Waiter
    PROVE  /\ Aged(w) \in Waiter /\ Same(Aged(w), w)
           /\ Aged(w).chain = w.chain /\ Aged(w).closed = w.closed
<1>1. w.age \in 0 .. NetworkTimeout + 1 /\ NetworkTimeout \in Nat
  BY OutgoingAssumption DEF Waiter
<1> DEFINE a == IF w.age > NetworkTimeout THEN w.age ELSE w.age + 1
<1>2. a \in 0 .. NetworkTimeout + 1
  BY <1>1
<1>3. Aged(w) = [w EXCEPT !.age = a]
  BY DEF Aged
<1> HIDE DEF a
<1> QED BY <1>2, <1>3 DEF Waiter, Same

\* Joining a chain adds an entry to it.
LEMMA JoinedIs ==
    ASSUME NEW w \in Waiter, NEW query \in Query, NextPseudo(w) \in Pseudo
    PROVE  /\ Joined(w, query) \in Waiter /\ Same(Joined(w, query), w)
           /\ Joined(w, query).chain = w.chain \cup {<<NextPseudo(w), query.id>>}
           /\ Joined(w, query).closed = w.closed
<1>1. query.id \in Ids
  BY DEF Query
<1> DEFINE e == <<NextPseudo(w), query.id>>
           c == w.chain \cup {e}
<1>2. e \in Entry
  BY <1>1 DEF Entry
<1>3. c \in SUBSET Entry
  BY <1>2, WaiterIs
<1>4. Joined(w, query) = [w EXCEPT !.chain = c]
  BY DEF Joined
<1> HIDE DEF c
<1>5. /\ [w EXCEPT !.chain = c] \in Waiter /\ Same([w EXCEPT !.chain = c], w)
      /\ [w EXCEPT !.chain = c].chain = c /\ [w EXCEPT !.chain = c].closed = w.closed
  BY <1>3 DEF Waiter, Same
<1> QED BY <1>4, <1>5 DEF c

\* What the kernel loop is working on.
LEMMA HandledIs ==
    ASSUME NEW h \in Handled
    PROVE  /\ h.fd \in Fds /\ h.fd \in Int /\ h.fd >= 0 /\ h.content \in Outcome
           /\ h.todo \in SUBSET Entry /\ h.q \in Questions /\ h.id \in Ids
           /\ h.point \in {"resend", "return"}
           /\ h # Nothing
  BY OutgoingAssumption DEF Handled, Fds

\* It wakes a member of the chain,
LEMMA TodoLess ==
    ASSUME NEW h \in Handled, NEW e
    PROVE  LET g == [h EXCEPT !.todo = @ \ {e}]
           IN  /\ g \in Handled /\ g.q = h.q /\ g.id = h.id /\ g.fd = h.fd
               /\ g.content = h.content /\ g.point = h.point /\ g.todo = h.todo \ {e}
<1> DEFINE t == h.todo \ {e}
<1>1. t \in SUBSET Entry
  BY HandledIs
<1> HIDE DEF t
<1>2. /\ [h EXCEPT !.todo = t] \in Handled /\ [h EXCEPT !.todo = t].q = h.q
      /\ [h EXCEPT !.todo = t].id = h.id /\ [h EXCEPT !.todo = t].fd = h.fd
      /\ [h EXCEPT !.todo = t].content = h.content
      /\ [h EXCEPT !.todo = t].point = h.point /\ [h EXCEPT !.todo = t].todo = t
  BY <1>1 DEF Handled
<1> QED BY <1>2 DEF t

\* or has woken the head.
LEMMA PointReturn ==
    ASSUME NEW h \in Handled
    PROVE  LET g == [h EXCEPT !.point = "return"]
           IN  /\ g \in Handled /\ g.q = h.q /\ g.id = h.id /\ g.fd = h.fd
               /\ g.content = h.content /\ g.point = "return" /\ g.todo = h.todo
  BY DEF Handled

\* What comes of a query.
LEMMA OutcomeIs ==
    /\ \A query \in Query : /\ Answer(query) \in Outcome /\ Answer(query).what = "answer"
                            /\ Answer(query).to = query
    /\ \A what \in {"error", "timeout", "limit", "waiting", "new", "done"} :
          Other(what) \in Outcome /\ Other(what).what = what
  BY DEF Answer, Other, Outcome

-----------------------------------------------------------------------------
(* The invariant.                                                          *)

\* No two waiters have the same key, or the same mthread.
Unique(W) ==
    \A v, w \in W : SameKey(v, w) \/ v.m = w.m => v = w

\* An mthread that waits does not run, and waits for what it asked last.
Waiting ==
    \A w \in waiters : got[w.m].what = "waiting" /\ running # w.m /\ asked[w.m] = w.query

\* The waiter the kernel loop is working for.
Handles(w) == w.query.q = handling.q /\ w.fd = handling.fd /\ w.query.id = handling.id

\* A chain is closed only while the kernel loop is waking it.
ClosedHandled ==
    \A w \in waiters : w.closed =>
        IsHead(w) /\ handling # Nothing /\ handling.point = "resend" /\ Handles(w)

\* As long as it does, the head is still there; if the response was a bare header, there
\* is nothing to wake before the head, and the members of the chain are abandoned.
HandledHead ==
    handling # Nothing /\ handling.point = "resend" =>
        \/ \E w \in waiters : w.closed /\ Handles(w) /\ handling.todo \subseteq w.chain
        \/ /\ handling.todo = {} /\ running = Kernel /\ handling.content.what = "answer"
           /\ \A w \in waiters : Handles(w) => Members(w) \subseteq abandoned

\* The response is the one to what was sent on the socket, which stays open until the
\* response is dealt with, unless there was an error.
HandledContent ==
    handling # Nothing =>
        /\ handling.content.what \in {"answer", "error"}
        /\ handling.content.what = "answer" =>
              handling.content.to \in Query /\ sockets[handling.fd] = handling.content.to
        /\ handling.point = "return" =>
              /\ handling.content.what = "answer" /\ handling.todo = {}
              /\ \A w \in waiters : w.fd # handling.fd
        /\ handling.content.what = "answer" /\ handling.todo # {} =>
              handling.content.to.q = handling.q

\* A head waits for the response to what was sent on its socket; only after an error the
\* socket may already be used for something else.
HeadsOpen ==
    \A w \in waiters : IsHead(w) =>
        IF w.closed /\ handling.content.what = "error"
        THEN sockets[w.fd] # w.query
        ELSE sockets[w.fd] = w.query

\* An open socket has a head or is about to be given back.
SocketsHeld ==
    \A fd \in Fds : sockets[fd] # Nothing =>
        \/ \E w \in waiters : w.fd = fd /\ w.query = sockets[fd]
        \/ handling # Nothing /\ handling.fd = fd /\ handling.point = "return"

\* The open sockets are counted.
SocketsCounted == numsocks = Cardinality({fd \in Fds : sockets[fd] # Nothing})

\* Chains are finite.
ChainsFinite == \A w \in waiters : IsFiniteSet(w.chain)

\* A response is to the question the mthread has asked.
SameQuestion ==
    \A m \in MThreads : got[m].what = "answer" =>
        got[m].to \in Query /\ asked[m] \in Query /\ got[m].to.q = asked[m].q

IInv ==
    /\ TypeOK
    /\ Unique(waiters)
    /\ Waiting
    /\ ClosedHandled
    /\ HandledHead
    /\ HandledContent
    /\ HeadsOpen
    /\ SocketsHeld
    /\ SocketsCounted
    /\ ChainsFinite
    /\ ChainNumbered
    /\ OneOpenHead
    /\ NobodyLeftBehind
    /\ SameQuestion

-----------------------------------------------------------------------------
(* Sets of waiters.                                                        *)

\* Waiters that go leave unique ones.
LEMMA UniqueLess ==
    ASSUME NEW W, NEW V \in SUBSET W, Unique(W)
    PROVE  Unique(V)
  BY DEF Unique

\* So does a change of other fields,
LEMMA UniqueImage ==
    ASSUME NEW W, NEW f, \A w \in W : Same(f[w], w), Unique(W)
    PROVE  Unique({f[w] : w \in W})
<1> DEFINE V == {f[w] : w \in W}
<1> SUFFICES ASSUME NEW u \in V, NEW v \in V, SameKey(u, v) \/ u.m = v.m PROVE u = v
  BY DEF Unique
<1>1. PICK x \in W : u = f[x]
  OBVIOUS
<1>2. PICK y \in W : v = f[y]
  OBVIOUS
<1>3. SameKey(x, y) \/ x.m = y.m
  BY <1>1, <1>2 DEF Same, SameKey
<1>4. x = y
  BY <1>3 DEF Unique
<1> QED BY <1>1, <1>2, <1>4

\* and one whose key and mthread are not there.
LEMMA UniqueMore ==
    ASSUME NEW W, NEW n, \A w \in W : ~SameKey(w, n) /\ w.m # n.m, Unique(W)
    PROVE  Unique(W \cup {n})
  BY DEF Unique, SameKey

\* A nonempty set of natural numbers has a least element.
LEMMA LeastOf ==
    ASSUME NEW S, S \subseteq Nat, S # {}
    PROVE  \E m \in S : \A n \in S : m <= n
<1> DEFINE R == {ss \in Nat \X Nat : ss[1] < ss[2]}
<1>1. IsWellFoundedOn(R, Nat)
  BY NatLessThanWellFounded DEF OpToRel
<1>2. \A m, n \in Nat : <<m, n>> \in R <=> m < n
  OBVIOUS
<1> HIDE DEF R
<1>3. PICK m \in S : \A n \in S : <<n, m>> \notin R
  BY <1>1, WFMin
<1>4. ASSUME NEW n \in S PROVE m <= n
  <2>1. <<n, m>> \notin R /\ m \in Nat /\ n \in Nat
    BY <1>3
  <2>2. ~ (n < m)
    BY <1>2, <2>1
  <2> QED BY <2>1, <2>2
<1> QED BY <1>4

\* The first entry of a chain, as Resend takes it.
First(todo) ==
    CHOOSE e \in todo : \A o \in todo : e[1] < o[1] \/ (e[1] = o[1] /\ e[2] <= o[2])

\* There is one.
LEMMA FirstIs ==
    ASSUME NEW N \in Nat, NEW todo \in SUBSET Entry, todo # {},
           \A e \in todo : -N <= e[1]
    PROVE  First(todo) \in todo
<1>1. \A e \in todo : e[1] \in Int /\ e[2] \in Nat
  BY OutgoingAssumption DEF Entry, Pseudo
<1> DEFINE S == {e[1] + N : e \in todo}
<1>2. PICK a \in S : \A s \in S : a <= s
  <2>1. S \subseteq Nat
    BY <1>1
  <2>2. S # {}
    <3>1. PICK e \in todo : TRUE
      OBVIOUS
    <3>2. e[1] + N \in S
      OBVIOUS
    <3> QED BY <3>2
  <2> HIDE DEF S
  <2> QED BY <2>1, <2>2, LeastOf
<1>3. PICK x \in todo : a = x[1] + N
  BY <1>2
<1>4. \A o \in todo : x[1] <= o[1]
  <2> SUFFICES ASSUME NEW o \in todo PROVE x[1] <= o[1]
    OBVIOUS
  <2>1. o[1] + N \in S
    OBVIOUS
  <2>2. x[1] \in Int /\ o[1] \in Int /\ x[1] + N <= o[1] + N
    BY <1>1, <1>2, <1>3, <2>1
  <2> QED BY <2>2
<1> DEFINE T == {e[2] : e \in {o \in todo : o[1] = x[1]}}
<1>5. PICK b \in T : \A t \in T : b <= t
  <2>1. T \subseteq Nat
    BY <1>1
  <2>2. x[2] \in T
    OBVIOUS
  <2> HIDE DEF T
  <2> QED BY <2>1, <2>2, LeastOf
<1>6. PICK y \in todo : y[1] = x[1] /\ y[2] = b
  BY <1>5
<1>7. \A o \in todo : y[1] < o[1] \/ (y[1] = o[1] /\ y[2] <= o[2])
  <2> SUFFICES ASSUME NEW o \in todo PROVE y[1] < o[1] \/ (y[1] = o[1] /\ y[2] <= o[2])
    OBVIOUS
  <2>1. CASE o[1] = x[1]
    <3>1. o[2] \in T
      BY <2>1
    <3> QED BY <1>5, <1>6, <2>1, <3>1
  <2>2. CASE o[1] # x[1]
    BY <1>1, <1>4, <1>6, <2>2
  <2> QED BY <2>1, <2>2
<1> QED BY <1>7 DEF First

-----------------------------------------------------------------------------
(* Steps that leave the waiters alone.                                     *)

\* The parts of the invariant that depend on neither mthreads nor their results.
Kernelly ==
    /\ Unique(waiters) /\ ClosedHandled /\ HandledContent /\ HeadsOpen /\ SocketsHeld
    /\ SocketsCounted /\ ChainsFinite /\ ChainNumbered /\ OneOpenHead

\* They stay when nothing they depend on changes.
LEMMA KernellyKept ==
    ASSUME Kernelly, UNCHANGED <<waiters, sockets, numsocks, handling>>
    PROVE  Kernelly'
<1> USE DEF Kernelly
<1>1. Unique(waiters)' /\ ChainsFinite' /\ ChainNumbered' /\ OneOpenHead'
  BY DEF Unique, ChainsFinite, ChainNumbered, OneOpenHead
<1>2. ClosedHandled'
  BY DEF ClosedHandled, Handles
<1>3. HandledContent'
  BY DEF HandledContent
<1>4. HeadsOpen' /\ SocketsHeld' /\ SocketsCounted'
  BY DEF HeadsOpen, SocketsHeld, SocketsCounted
<1> QED BY <1>1, <1>2, <1>3, <1>4

\* An mthread that runs does not wait, and the kernel loop is not in the middle of a
\* bare header.
LEMMA RunningIs ==
    ASSUME IInv, running \in MThreads
    PROVE  /\ \A w \in waiters : w.m # running
           /\ handling # Nothing /\ handling.point = "resend" =>
                 \E w \in waiters : w.closed /\ Handles(w) /\ handling.todo \subseteq w.chain
<1>1. running # Kernel
  BY OutgoingAssumption
<1> QED BY <1>1 DEF IInv, Waiting, HandledHead

\* schedule() runs a new mthread.
LEMMA StartStep ==
    ASSUME IInv, NEW m \in MThreads, Start(m)
    PROVE  IInv'
<1> USE DEF IInv
<1>1. /\ UNCHANGED <<waiters, sockets, numsocks, handling, queries, asked, got, abandoned,
                     coincided>>
      /\ running' = m /\ got[m].what = "new" /\ handling = Nothing
  BY DEF Start, InKernel
<1>2. TypeOK'
  BY <1>1 DEF TypeOK
<1>3. Kernelly'
  BY <1>1, KernellyKept DEF Kernelly
<1>4. Waiting'
  BY <1>1 DEF Waiting
<1>5. HandledHead'
  BY <1>1 DEF HandledHead
<1>6. NobodyLeftBehind' /\ SameQuestion'
  BY <1>1 DEF NobodyLeftBehind, SameQuestion
<1> QED BY <1>2, <1>3, <1>4, <1>5, <1>6 DEF Kernelly

\* The mthread that runs gets a result that is no response, and goes on or ends.
LEMMA FailStep ==
    ASSUME IInv, NEW m \in MThreads, running = m, running' \in {m, Kernel},
           NEW what \in {"error", "limit", "done"},
           got' = [got EXCEPT ![m] = Other(what)],
           UNCHANGED <<waiters, sockets, numsocks, handling>>,
           queries' \in 0 .. MaxQueries,
           asked' \in [MThreads -> Query \cup {Nothing}],
           \A k \in MThreads \ {m} : asked'[k] = asked[k],
           abandoned' = abandoned \ {m}, coincided' \subseteq Questions
    PROVE  IInv'
<1> USE DEF IInv
<1>1. /\ \A w \in waiters : w.m # m /\ w.m \in MThreads
      /\ handling # Nothing /\ handling.point = "resend" =>
            \E w \in waiters : w.closed /\ Handles(w) /\ handling.todo \subseteq w.chain
  BY RunningIs, WaiterIs DEF TypeOK
<1>2. /\ got' \in [MThreads -> Outcome] /\ got'[m].what = what
      /\ \A k \in MThreads \ {m} : got'[k] = got[k]
  BY OutcomeIs DEF TypeOK
<1>3. TypeOK'
  BY <1>2 DEF TypeOK
<1>4. Kernelly'
  BY KernellyKept DEF Kernelly
<1>5. Waiting'
  <2>1. Kernel \notin MThreads
    BY OutgoingAssumption
  <2> QED BY <1>1, <1>2, <2>1 DEF Waiting
<1>6. HandledHead'
  BY <1>1 DEF HandledHead, Handles
<1>7. NobodyLeftBehind'
  BY <1>1 DEF NobodyLeftBehind
<1>8. SameQuestion'
  BY <1>2 DEF SameQuestion
<1> QED BY <1>3, <1>4, <1>5, <1>6, <1>7, <1>8 DEF Kernelly

\* The mthread ends.
LEMMA FinishStep ==
    ASSUME IInv, NEW m \in MThreads, Finish(m)
    PROVE  IInv'
  BY FailStep DEF Finish, IInv, TypeOK

\* What all ways of issuing a query have in common.
LEMMA IssueIs ==
    ASSUME IInv, NEW m \in MThreads, NEW query \in Query, Issue(m, query)
    PROVE  /\ running = m /\ handling' = handling /\ abandoned' = abandoned \ {m}
           /\ coincided' \subseteq Questions
           /\ queries' \in 0 .. MaxQueries
           /\ asked' \in [MThreads -> Query \cup {Nothing}] /\ asked'[m] = query
           /\ \A k \in MThreads \ {m} : asked'[k] = asked[k]
<1>1. queries \in 0 .. MaxQueries /\ MaxQueries \in Nat
  BY OutgoingAssumption DEF IInv, TypeOK
<1>2. queries + 1 \in 0 .. MaxQueries
  BY <1>1 DEF Issue
<1>3. queries' \in 0 .. MaxQueries
  BY <1>1, <1>2 DEF Issue
<1>4. coincided' \subseteq Questions
  BY DEF Issue, IInv, TypeOK, Query
<1> QED BY <1>3, <1>4 DEF Issue, IInv, TypeOK

\* No query is sent and none is waited for.
LEMMA IssueFailsStep ==
    ASSUME IInv, NEW m \in MThreads, NEW query \in Query, Issue(m, query),
           NEW what \in {"error", "limit"}, Fail(m, what), UNCHANGED <<sockets, numsocks>>
    PROVE  IInv'
<1>1. /\ running = m /\ handling' = handling /\ abandoned' = abandoned \ {m}
      /\ coincided' \subseteq Questions
      /\ queries' \in 0 .. MaxQueries
      /\ asked' \in [MThreads -> Query \cup {Nothing}]
      /\ \A k \in MThreads \ {m} : asked'[k] = asked[k]
  BY IssueIs
<1> QED BY <1>1, FailStep DEF Fail

-----------------------------------------------------------------------------
(* Sockets.                                                                *)

Open == {fd \in Fds : sockets[fd] # Nothing}

\* The sockets that are open are finitely many.
LEMMA OpenFinite == IsFiniteSet(Open) /\ Cardinality(Open) \in Nat
<1>1. 0 \in Int /\ MaxFd \in Int
  BY OutgoingAssumption
<1>2. IsFiniteSet(Fds)
  BY <1>1, FS_Interval DEF Fds
<1>3. Open \in SUBSET Fds
  BY DEF Open
<1> QED BY <1>2, <1>3, FS_Subset, FS_CardinalityType

\* A socket is opened and counted,
LEMMA SocketOpened ==
    ASSUME TypeOK, SocketsCounted, NEW fd \in Fds, NEW query \in Query, sockets[fd] = Nothing,
           sockets' = [sockets EXCEPT ![fd] = query], numsocks' = numsocks + 1
    PROVE  /\ SocketsCounted' /\ numsocks' \in Nat
           /\ sockets' \in [Fds -> Query \cup {Nothing}] /\ sockets'[fd] = query
           /\ \A k \in Fds \ {fd} : sockets'[k] = sockets[k]
<1>1. query # Nothing
  BY OutgoingAssumption
<1>2. /\ sockets' \in [Fds -> Query \cup {Nothing}] /\ sockets'[fd] = query
      /\ \A k \in Fds \ {fd} : sockets'[k] = sockets[k]
  BY DEF TypeOK
<1>3. fd \notin Open /\ Open' = Open \cup {fd}
  BY <1>1, <1>2 DEF Open
<1>4. Cardinality(Open') = Cardinality(Open) + 1
  BY <1>3, OpenFinite, FS_AddElement
<1> QED BY <1>2, <1>4, OpenFinite DEF SocketsCounted, Open

\* or given back.
LEMMA SocketReturned ==
    ASSUME TypeOK, SocketsCounted, NEW fd \in Fds, sockets[fd] # Nothing, ReturnSocket(fd)
    PROVE  /\ SocketsCounted' /\ numsocks' \in Nat
           /\ sockets' \in [Fds -> Query \cup {Nothing}] /\ sockets'[fd] = Nothing
           /\ \A k \in Fds \ {fd} : sockets'[k] = sockets[k]
<1>2. /\ sockets' \in [Fds -> Query \cup {Nothing}] /\ sockets'[fd] = Nothing
      /\ \A k \in Fds \ {fd} : sockets'[k] = sockets[k]
      /\ numsocks' = numsocks - 1
  BY DEF TypeOK, ReturnSocket
<1>3. fd \in Open /\ Open' = Open \ {fd}
  BY <1>2 DEF Open
<1>4. Cardinality(Open') = Cardinality(Open) - 1 /\ Cardinality(Open) # 0
  BY <1>3, OpenFinite, FS_RemoveElement, FS_EmptySet
<1> QED BY <1>2, <1>4, OpenFinite DEF SocketsCounted, Open

-----------------------------------------------------------------------------
(* A query is issued.                                                      *)

\* The first of its kind gets a socket.
LEMMA HeadStep ==
    ASSUME IInv, NEW m \in MThreads, NEW query \in Query, Issue(m, query),
           ~\E w \in waiters : Joinable(w, query),
           NEW fd \in Fds, sockets[fd] = Nothing, Matching(query.q, fd, query.id) = {},
           sockets' = [sockets EXCEPT ![fd] = query], numsocks' = numsocks + 1,
           waiters' = waiters \cup {NewWaiter(m, query, fd)}, running' = Kernel,
           got' = [got EXCEPT ![m] = Other("waiting")]
    PROVE  IInv'
<1> USE DEF IInv
<1> DEFINE n == NewWaiter(m, query, fd)
<1>1. /\ running = m /\ handling' = handling /\ abandoned' = abandoned \ {m}
      /\ coincided' \subseteq Questions
      /\ queries' \in 0 .. MaxQueries
      /\ asked' \in [MThreads -> Query \cup {Nothing}] /\ asked'[m] = query
      /\ \A k \in MThreads \ {m} : asked'[k] = asked[k]
  BY IssueIs
<1>2. /\ \A w \in waiters : w.m # m /\ w.m \in MThreads /\ w \in Waiter
      /\ handling # Nothing /\ handling.point = "resend" =>
            \E w \in waiters : w.closed /\ Handles(w) /\ handling.todo \subseteq w.chain
  BY <1>1, RunningIs, WaiterIs DEF TypeOK
<1>3. /\ n \in Waiter /\ n.query = query /\ n.fd = fd /\ n.m = m
      /\ n.chain = {} /\ n.closed = FALSE
  <2>1. fd \in Fds \cup Pseudo
    OBVIOUS
  <2> QED BY <2>1, OutgoingAssumption DEF NewWaiter, Waiter
<1>4. /\ SocketsCounted' /\ numsocks' \in Nat
      /\ sockets' \in [Fds -> Query \cup {Nothing}] /\ sockets'[fd] = query
      /\ \A k \in Fds \ {fd} : sockets'[k] = sockets[k]
  BY SocketOpened
<1>5. /\ got' \in [MThreads -> Outcome] /\ got'[m].what = "waiting"
      /\ \A k \in MThreads \ {m} : got'[k] = got[k]
  BY OutcomeIs DEF TypeOK
<1>6. waiters' = waiters \cup {n}
  OBVIOUS
<1>7. \A w \in waiters : ~SameKey(w, n)
  BY <1>3 DEF Matching, SameKey
<1>8. Nothing \notin Query /\ fd \in Nat /\ Kernel \notin MThreads
  BY OutgoingAssumption DEF Fds
<1> HIDE DEF n
<1>9. TypeOK'
  BY <1>1, <1>2, <1>3, <1>4, <1>5, <1>6 DEF TypeOK
<1>10. Unique(waiters)'
  BY <1>2, <1>3, <1>6, <1>7, UniqueMore
<1>11. Waiting'
  BY <1>1, <1>2, <1>3, <1>5, <1>6, <1>8 DEF Waiting
<1>12. ClosedHandled'
  BY <1>1, <1>3, <1>6 DEF ClosedHandled, Handles
<1>13. HandledHead'
  BY <1>1, <1>2, <1>6 DEF HandledHead, Handles
<1>14. HandledContent'
  <2>1. handling # Nothing => handling.fd \in Fds
    BY HandledIs DEF TypeOK
  <2>2. ASSUME handling # Nothing, handling.content.what = "answer" PROVE handling.fd # fd
    BY <1>8, <2>2 DEF HandledContent
  <2> QED BY <1>1, <1>3, <1>4, <1>6, <2>1, <2>2 DEF HandledContent
<1>15. HeadsOpen'
  <2> SUFFICES ASSUME NEW w \in waiters', IsHead(w)
               PROVE  IF w.closed /\ handling.content.what = "error"
                      THEN sockets'[w.fd] # w.query
                      ELSE sockets'[w.fd] = w.query
    BY <1>1 DEF HeadsOpen, IsHead
  <2>1. CASE w = n
    BY <1>3, <1>4, <2>1
  <2>2. CASE w \in waiters /\ w.fd # fd
    BY <1>2, <1>4, <2>2, WaiterIs DEF HeadsOpen
  <2>3. CASE w \in waiters /\ w.fd = fd
    <3>1. w.query # Nothing /\ w.query # query
      BY <1>2, <1>3, <1>7, <1>8, <2>3, WaiterIs DEF SameKey
    <3> QED BY <1>4, <2>3, <3>1 DEF HeadsOpen
  <2> QED BY <1>6, <2>1, <2>2, <2>3
<1>16. SocketsHeld'
  BY <1>1, <1>3, <1>4, <1>6 DEF SocketsHeld
<1>17. ChainsFinite' /\ ChainNumbered'
  <2>1. IsFiniteSet(n.chain) /\ Cardinality(n.chain) = 0
    BY <1>3, FS_EmptySet
  <2>2. {e[1] : e \in n.chain} = -Cardinality(n.chain) .. -1
    BY <1>3, <2>1
  <2> QED BY <1>6, <2>1, <2>2 DEF ChainsFinite, ChainNumbered
<1>18. OneOpenHead'
  BY <1>3, <1>6 DEF OneOpenHead, Joinable
<1>19. NobodyLeftBehind'
  <2>1. IsHead(n)
    BY <1>3, <1>8 DEF IsHead
  <2> QED BY <1>1, <1>2, <1>6, <2>1 DEF NobodyLeftBehind
<1>20. SameQuestion'
  BY <1>1, <1>5 DEF SameQuestion
<1> QED BY <1>4, <1>9, <1>10, <1>11, <1>12, <1>13, <1>14, <1>15, <1>16, <1>17, <1>18, <1>19,
           <1>20

\* A waiter that is the same but for its age, or has a longer chain.
Like(v, w) == Same(v, w) /\ (v.closed <=> w.closed) /\ w.chain \subseteq v.chain

\* What joining the chain of w makes of a waiter.
After(w, query) == [x \in waiters |-> IF x = w THEN Joined(w, query) ELSE x]

\* The chain of w gets another entry, with the next number.
LEMMA ChainGrows ==
    ASSUME IInv, NEW w \in waiters, NEW query \in Query
    PROVE  LET j == Joined(w, query)
           IN  /\ NextPseudo(w) \in Pseudo /\ j \in Waiter /\ Like(j, w)
               /\ j.chain = w.chain \cup {<<NextPseudo(w), query.id>>}
               /\ IsFiniteSet(j.chain)
               /\ {e[1] : e \in j.chain} = -Cardinality(j.chain) .. -1
<1> USE DEF IInv
<1> DEFINE c == Cardinality(w.chain)
           j == Joined(w, query)
           e0 == <<NextPseudo(w), query.id>>
<1>1. w \in Waiter /\ IsFiniteSet(w.chain) /\ c \in Nat
  BY FS_CardinalityType DEF TypeOK, ChainsFinite
<1>2. NextPseudo(w) = -(c + 1) /\ NextPseudo(w) \in Pseudo
  BY <1>1 DEF NextPseudo, Pseudo
<1>3. /\ j \in Waiter /\ Same(j, w) /\ j.chain = w.chain \cup {e0}
      /\ j.closed = w.closed
  BY <1>1, <1>2, JoinedIs
<1>4. {e[1] : e \in w.chain} = -c .. -1
  BY DEF ChainNumbered
<1> HIDE DEF c, j
<1>5. e0[1] = -(c + 1)
  BY <1>2
<1> HIDE DEF e0
<1>6. e0 \notin w.chain
  <2>1. ASSUME e0 \in w.chain PROVE FALSE
    <3>1. e0[1] \in {e[1] : e \in w.chain}
      BY <2>1
    <3>2. -(c + 1) \in -c .. -1
      BY <1>4, <1>5, <3>1
    <3> QED BY <1>1, <3>2 DEF c
  <2> QED BY <2>1
<1>7. IsFiniteSet(j.chain) /\ Cardinality(j.chain) = c + 1
  BY <1>1, <1>3, <1>6, FS_AddElement DEF c
<1>8. {e[1] : e \in j.chain} = -(c + 1) .. -1
  <2>1. {e[1] : e \in j.chain} = {e[1] : e \in w.chain} \cup {e0[1]}
    BY <1>3
  <2>2. c \in Nat
    BY <1>1 DEF c
  <2>3. {e[1] : e \in j.chain} = (-c .. -1) \cup {-(c + 1)}
    BY <1>4, <1>5, <2>1
  <2>4. (-c .. -1) \cup {-(c + 1)} = -(c + 1) .. -1
    BY <2>2
  <2> QED BY <2>3, <2>4
<1>9. Like(j, w)
  BY <1>3 DEF Like
<1> QED BY <1>2, <1>3, <1>7, <1>8, <1>9 DEF j, e0

\* The waiters after that: the same, but for the chain.
LEMMA ChainedIs ==
    ASSUME IInv, NEW w \in waiters, NEW query \in Query
    PROVE  LET f == After(w, query)
               O == (waiters \ {w}) \cup {Joined(w, query)}
           IN  /\ O = {f[x] : x \in waiters}
               /\ \A x \in waiters : /\ f[x] \in Waiter /\ Like(f[x], x) /\ (x # w => f[x] = x)
                                     /\ IsFiniteSet(f[x].chain)
                                     /\ {e[1] : e \in f[x].chain} = -Cardinality(f[x].chain) .. -1
               /\ Unique(O)
<1> USE DEF IInv
<1> DEFINE f == After(w, query)
           j == Joined(w, query)
           O == (waiters \ {w}) \cup {j}
<1>1. /\ j \in Waiter /\ Like(j, w) /\ IsFiniteSet(j.chain)
      /\ {e[1] : e \in j.chain} = -Cardinality(j.chain) .. -1
  BY ChainGrows
<1> HIDE DEF j
<1>2. \A x \in waiters : f[x] = IF x = w THEN j ELSE x
  BY DEF After, j
<1>3. O = {f[x] : x \in waiters}
  BY <1>2
<1>4. ASSUME NEW x \in waiters
      PROVE  /\ f[x] \in Waiter /\ Like(f[x], x) /\ (x # w => f[x] = x)
             /\ IsFiniteSet(f[x].chain)
             /\ {e[1] : e \in f[x].chain} = -Cardinality(f[x].chain) .. -1
  <2>1. CASE x = w
    BY <1>1, <1>2, <2>1
  <2>2. CASE x # w
    BY <1>2, <2>2 DEF TypeOK, Like, Same, ChainsFinite, ChainNumbered
  <2> QED BY <2>1, <2>2
<1> HIDE DEF f
<1>5. Unique(O)
  <2>1. \A x \in waiters : Same(f[x], x)
    BY <1>4 DEF Like
  <2> QED BY <1>3, <2>1, UniqueImage
<1> QED BY <1>3, <1>4, <1>5 DEF f, j

\* A query joins the chain of w; its mthread waits, unless its key is taken.
LEMMA ChainedStep ==
    ASSUME IInv, NEW m \in MThreads, NEW query \in Query, Issue(m, query),
           NEW w \in waiters, Joinable(w, query), UNCHANGED <<sockets, numsocks>>,
           NEW N,
           \/ /\ N = {} /\ running' = running /\ got' = [got EXCEPT ![m] = Other("error")]
           \/ /\ Matching(query.q, NextPseudo(w), query.id) = {}
              /\ N = {NewWaiter(m, query, NextPseudo(w))} /\ running' = Kernel
              /\ got' = [got EXCEPT ![m] = Other("waiting")],
           waiters' = ((waiters \ {w}) \cup {Joined(w, query)}) \cup N
    PROVE  IInv'
<1> USE DEF IInv
<1> DEFINE n == NewWaiter(m, query, NextPseudo(w))
           f == After(w, query)
           O == (waiters \ {w}) \cup {Joined(w, query)}
           e0 == <<NextPseudo(w), query.id>>
<1>1. /\ running = m /\ handling' = handling /\ abandoned' = abandoned \ {m}
      /\ coincided' \subseteq Questions
      /\ queries' \in 0 .. MaxQueries
      /\ asked' \in [MThreads -> Query \cup {Nothing}] /\ asked'[m] = query
      /\ \A k \in MThreads \ {m} : asked'[k] = asked[k]
  BY IssueIs
<1>2. /\ \A x \in waiters : x.m # m /\ x.m \in MThreads /\ x \in Waiter
      /\ handling # Nothing /\ handling.point = "resend" =>
            \E x \in waiters : x.closed /\ Handles(x) /\ handling.todo \subseteq x.chain
  BY <1>1, RunningIs, WaiterIs DEF TypeOK
<1>3. NextPseudo(w) \in Pseudo /\ NextPseudo(w) \in Int /\ NextPseudo(w) < 0
  BY ChainGrows DEF Pseudo
<1>4. /\ n \in Waiter /\ n.query = query /\ n.fd = NextPseudo(w) /\ n.m = m
      /\ n.chain = {} /\ n.closed = FALSE
  <2>1. NextPseudo(w) \in Fds \cup Pseudo
    BY <1>3
  <2> QED BY <2>1, OutgoingAssumption DEF NewWaiter, Waiter
<1>5. /\ O = {f[x] : x \in waiters}
      /\ \A x \in waiters : /\ f[x] \in Waiter /\ Like(f[x], x) /\ (x # w => f[x] = x)
                            /\ IsFiniteSet(f[x].chain)
                            /\ {e[1] : e \in f[x].chain} = -Cardinality(f[x].chain) .. -1
      /\ Unique(O)
  BY ChainedIs
<1>6. e0 \in f[w].chain
  BY ChainGrows DEF After
<1>7. \/ N = {}
      \/ N = {n} /\ running' = Kernel /\ \A x \in waiters : ~SameKey(x, n)
  BY <1>4 DEF Matching, SameKey
<1>8. /\ got' \in [MThreads -> Outcome]
      /\ N = {n} => got'[m].what = "waiting"
      /\ got'[m].what # "answer"
      /\ \A k \in MThreads \ {m} : got'[k] = got[k]
  BY OutcomeIs DEF TypeOK
<1>9. running' \in {m, Kernel} /\ Kernel \notin MThreads
  BY <1>1, OutgoingAssumption
<1>10. IsHead(w) /\ ~w.closed /\ w.query.q = query.q /\ w.query.ecs = query.ecs
  BY DEF Joinable
<1>11. waiters' = O \cup N
  OBVIOUS
<1> HIDE DEF n, f, O, e0
<1>12. /\ \A v \in waiters' : (\E x \in waiters : v = f[x]) \/ (N = {n} /\ v = n)
       /\ \A x \in waiters : f[x] \in waiters'
  BY <1>5, <1>7, <1>11
<1>13. \A x \in waiters : /\ f[x].query = x.query /\ f[x].fd = x.fd /\ f[x].m = x.m
                          /\ (f[x].closed <=> x.closed) /\ x.chain \subseteq f[x].chain
  BY <1>5 DEF Like, Same
<1>14. TypeOK'
  BY <1>1, <1>4, <1>5, <1>8, <1>9, <1>12 DEF TypeOK
<1>15. Unique(waiters)'
  <2>1. CASE N = {}
    BY <1>5, <1>11, <2>1
  <2>2. CASE N # {}
    <3>1. ASSUME NEW v \in O PROVE ~SameKey(v, n) /\ v.m # n.m
      <4>1. PICK x \in waiters : v = f[x]
        BY <1>5
      <4> QED BY <1>2, <1>4, <1>7, <1>13, <2>2, <4>1 DEF SameKey
    <3> QED BY <1>5, <1>7, <1>11, <2>2, <3>1, UniqueMore
  <2> QED BY <2>1, <2>2
<1>16. Waiting'
  <2> SUFFICES ASSUME NEW v \in waiters'
               PROVE  got'[v.m].what = "waiting" /\ running' # v.m /\ asked'[v.m] = v.query
    BY DEF Waiting
  <2>1. CASE N = {n} /\ v = n
    BY <1>1, <1>4, <1>7, <1>8, <1>9, <2>1
  <2>2. CASE \E x \in waiters : v = f[x]
    BY <1>1, <1>2, <1>8, <1>9, <1>13, <2>2 DEF Waiting
  <2> QED BY <1>12, <2>1, <2>2
<1>17. ClosedHandled'
  BY <1>1, <1>4, <1>12, <1>13 DEF ClosedHandled, Handles, IsHead
<1>18. HandledHead'
  <2> SUFFICES ASSUME handling # Nothing, handling.point = "resend"
               PROVE  \E v \in waiters' : /\ v.closed /\ handling.todo \subseteq v.chain
                                          /\ v.query.q = handling.q /\ v.fd = handling.fd
                                          /\ v.query.id = handling.id
    BY <1>1 DEF HandledHead, Handles
  <2>1. PICK x \in waiters : x.closed /\ Handles(x) /\ handling.todo \subseteq x.chain
    BY <1>2
  <2> QED BY <1>12, <1>13, <2>1 DEF Handles
<1>19. HandledContent'
  <2>1. handling # Nothing => handling.fd \in Int /\ handling.fd >= 0
    BY HandledIs DEF TypeOK
  <2>2. handling # Nothing => n.fd # handling.fd
    BY <1>3, <1>4, <2>1
  <2> QED BY <1>1, <1>12, <1>13, <2>2 DEF HandledContent
<1>20. HeadsOpen'
  <2>1. ~IsHead(n)
    BY <1>3, <1>4 DEF IsHead
  <2> QED BY <1>1, <1>12, <1>13, <2>1 DEF HeadsOpen, IsHead
<1>21. SocketsHeld'
  BY <1>1, <1>12, <1>13 DEF SocketsHeld
<1>22. SocketsCounted'
  BY DEF SocketsCounted
<1>23. ChainsFinite' /\ ChainNumbered'
  <2>1. IsFiniteSet(n.chain) /\ Cardinality(n.chain) = 0
    BY <1>4, FS_EmptySet
  <2>2. {e[1] : e \in n.chain} = -Cardinality(n.chain) .. -1
    BY <1>4, <2>1
  <2> QED BY <1>5, <1>12, <2>1, <2>2 DEF ChainsFinite, ChainNumbered
<1>24. OneOpenHead'
  <2>1. ~IsHead(n)
    BY <1>3, <1>4 DEF IsHead
  <2> SUFFICES ASSUME NEW u \in waiters', NEW v \in waiters', IsHead(u), IsHead(v),
                      ~u.closed, ~v.closed, u.query.q = v.query.q, u.query.ecs = v.query.ecs
               PROVE  u = v
    BY DEF OneOpenHead, IsHead
  <2>2. PICK x \in waiters : u = f[x]
    BY <1>12, <2>1
  <2>3. PICK y \in waiters : v = f[y]
    BY <1>12, <2>1
  <2>4. x = y
    BY <1>13, <2>2, <2>3 DEF OneOpenHead, IsHead
  <2> QED BY <2>2, <2>3, <2>4
<1>25. NobodyLeftBehind'
  <2> SUFFICES ASSUME NEW v \in waiters', ~IsHead(v)
               PROVE  \/ v.m \in abandoned'
                      \/ \E h \in waiters' : /\ IsHead(h) /\ ~h.closed
                                             /\ h.query.q = v.query.q
                                             /\ <<v.fd, v.query.id>> \in h.chain
                      \/ /\ handling # Nothing
                         /\ handling.q = v.query.q
                         /\ <<v.fd, v.query.id>> \in handling.todo
    BY <1>1 DEF NobodyLeftBehind, IsHead
  <2>1. CASE v = n
    <3>1. IsHead(f[w]) /\ ~f[w].closed /\ f[w].query.q = v.query.q
      BY <1>4, <1>10, <1>13, <2>1 DEF IsHead
    <3>2. <<v.fd, v.query.id>> \in f[w].chain
      BY <1>4, <1>6, <2>1 DEF e0
    <3> QED BY <1>12, <3>1, <3>2
  <2>2. ASSUME NEW x \in waiters, v = f[x]
        PROVE  \/ v.m \in abandoned'
               \/ \E h \in waiters' : /\ IsHead(h) /\ ~h.closed
                                      /\ h.query.q = v.query.q
                                      /\ <<v.fd, v.query.id>> \in h.chain
               \/ /\ handling # Nothing
                  /\ handling.q = v.query.q
                  /\ <<v.fd, v.query.id>> \in handling.todo
    <3>1. v.query = x.query /\ v.fd = x.fd /\ v.m = x.m /\ ~IsHead(x)
      BY <1>13, <2>2 DEF IsHead
    <3>2. ASSUME NEW h \in waiters, IsHead(h), ~h.closed, h.query.q = x.query.q,
                 <<x.fd, x.query.id>> \in h.chain
          PROVE  /\ f[h] \in waiters' /\ IsHead(f[h]) /\ ~f[h].closed
                 /\ f[h].query.q = v.query.q /\ <<v.fd, v.query.id>> \in f[h].chain
      BY <1>12, <1>13, <3>1, <3>2 DEF IsHead
    <3>3. CASE x.m \in abandoned
      BY <1>1, <1>2, <3>1, <3>3
    <3>4. CASE /\ handling # Nothing
               /\ handling.q = x.query.q
               /\ <<x.fd, x.query.id>> \in handling.todo
      BY <3>1, <3>4
    <3> QED BY <3>1, <3>2, <3>3, <3>4 DEF NobodyLeftBehind
  <2> QED BY <1>12, <2>1, <2>2
<1>26. SameQuestion'
  BY <1>1, <1>8 DEF SameQuestion
<1> QED BY <1>14, <1>15, <1>16, <1>17, <1>18, <1>19, <1>20, <1>21, <1>22, <1>23, <1>24, <1>25,
           <1>26

-----------------------------------------------------------------------------
(* A waiter is woken.                                                      *)

\* In the kernel loop no chain is closed, and every head has its socket for itself.
LEMMA InKernelIs ==
    ASSUME IInv, handling = Nothing
    PROVE  /\ \A w \in waiters : ~w.closed
           /\ \A w \in waiters : IsHead(w) => sockets[w.fd] = w.query
           /\ \A fd \in Fds : sockets[fd] # Nothing =>
                 \E w \in waiters : w.fd = fd /\ w.query = sockets[fd]
           /\ \A v, w \in waiters : IsHead(v) /\ v.fd = w.fd => v = w
<1> USE DEF IInv
<1>1. \A w \in waiters : ~w.closed
  BY DEF ClosedHandled
<1>2. \A w \in waiters : IsHead(w) => sockets[w.fd] = w.query
  BY <1>1 DEF HeadsOpen
<1>3. ASSUME NEW v \in waiters, NEW w \in waiters, IsHead(v), v.fd = w.fd PROVE v = w
  <2>1. v.query = w.query
    BY <1>2, <1>3 DEF IsHead
  <2> QED BY <1>3, <2>1 DEF Unique, SameKey
<1> QED BY <1>1, <1>2, <1>3 DEF SocketsHeld

\* The mthread of the waiter that goes runs.
LEMMA WakeIs ==
    ASSUME IInv, NEW w \in waiters, NEW event \in Outcome, Wake(w, event),
           UNCHANGED <<queries, asked>>
    PROVE  /\ waiters' = waiters \ {w} /\ Unique(waiters)' /\ Waiting'
           /\ \A v \in waiters' : v \in waiters /\ v # w /\ ~SameKey(v, w)
           /\ running' \in MThreads /\ got' \in [MThreads -> Outcome]
           /\ ChainsFinite' /\ ChainNumbered' /\ OneOpenHead'
           /\ (event.what = "answer" => event.to \in Query /\ event.to.q = w.query.q)
              => SameQuestion'
<1> USE DEF IInv
<1>1. waiters' = waiters \ {w} /\ running' = w.m /\ got' = [got EXCEPT ![w.m] = event]
  BY DEF Wake
<1>2. \A v \in waiters : v.m \in MThreads
  BY WaiterIs DEF TypeOK
<1>3. /\ got' \in [MThreads -> Outcome] /\ got'[w.m] = event
      /\ \A k \in MThreads \ {w.m} : got'[k] = got[k]
  BY <1>1, <1>2 DEF TypeOK
<1>4. \A v \in waiters' : v \in waiters /\ v # w /\ ~SameKey(v, w) /\ v.m # w.m
  BY <1>1 DEF Unique
<1>5. Unique(waiters)'
  BY <1>1, UniqueLess
<1>6. Waiting'
  BY <1>1, <1>2, <1>3, <1>4 DEF Waiting
<1>7. ChainsFinite' /\ ChainNumbered' /\ OneOpenHead'
  BY <1>4 DEF ChainsFinite, ChainNumbered, OneOpenHead
<1>8. ASSUME event.what = "answer" => event.to \in Query /\ event.to.q = w.query.q
      PROVE  SameQuestion'
  <2>1. asked[w.m] = w.query /\ w.query \in Query
    BY WaiterIs DEF TypeOK, Waiting
  <2> QED BY <1>2, <1>3, <1>8, <2>1 DEF SameQuestion
<1> QED BY <1>1, <1>2, <1>3, <1>4, <1>5, <1>6, <1>7, <1>8

\* schedule() wakes an expired waiter.
LEMMA ExpireStep ==
    ASSUME IInv, NEW w \in waiters, ExpireWaiter(w)
    PROVE  IInv'
<1> USE DEF IInv
<1>1. /\ handling = Nothing /\ handling' = Nothing /\ abandoned' = abandoned \cup Members(w)
      /\ Wake(w, Other("timeout")) /\ GiveBack(w)
      /\ UNCHANGED <<queries, asked, coincided>>
  BY DEF ExpireWaiter, InKernel
<1>2. Other("timeout") \in Outcome /\ Other("timeout").what = "timeout"
  BY OutcomeIs
<1>3. /\ waiters' = waiters \ {w} /\ Unique(waiters)' /\ Waiting'
      /\ \A v \in waiters' : v \in waiters /\ v # w /\ ~SameKey(v, w)
      /\ running' \in MThreads /\ got' \in [MThreads -> Outcome]
      /\ ChainsFinite' /\ ChainNumbered' /\ OneOpenHead' /\ SameQuestion'
  BY <1>1, <1>2, WakeIs
<1>4. /\ \A v \in waiters : ~v.closed
      /\ \A v \in waiters : IsHead(v) => sockets[v.fd] = v.query
      /\ \A fd \in Fds : sockets[fd] # Nothing =>
            \E v \in waiters : v.fd = fd /\ v.query = sockets[fd]
      /\ \A u, v \in waiters : IsHead(u) /\ u.fd = v.fd => u = v
  BY <1>1, InKernelIs
<1>5. \A v \in waiters : v \in Waiter /\ v.query \in Query /\ v.m \in MThreads
                         /\ (IsHead(v) => v.fd \in Fds)
  BY WaiterIs DEF TypeOK
<1>6. Nothing \notin Query
  BY OutgoingAssumption
<1>7. /\ SocketsCounted' /\ numsocks' \in Nat
      /\ sockets' \in [Fds -> Query \cup {Nothing}]
      /\ IsHead(w) => sockets'[w.fd] = Nothing
      /\ \A k \in Fds : k # w.fd => sockets'[k] = sockets[k]
      /\ ~IsHead(w) => sockets' = sockets
  <2>1. CASE IsHead(w)
    <3>1. w.fd \in Fds /\ sockets[w.fd] # Nothing /\ ReturnSocket(w.fd)
      BY <1>1, <1>4, <1>5, <1>6, <2>1 DEF GiveBack
    <3> QED BY <2>1, <3>1, SocketReturned
  <2>2. CASE ~IsHead(w)
    BY <1>1, <2>2 DEF GiveBack, TypeOK, SocketsCounted
  <2> QED BY <2>1, <2>2
<1>8. TypeOK'
  <2>1. Members(w) \subseteq MThreads
    BY <1>5 DEF Members
  <2> QED BY <1>1, <1>3, <1>7, <2>1 DEF TypeOK
<1>9. ClosedHandled' /\ HandledHead' /\ HandledContent'
  BY <1>1, <1>3, <1>4 DEF ClosedHandled, HandledHead, HandledContent
<1>10. HeadsOpen'
  <2> SUFFICES ASSUME NEW v \in waiters', IsHead(v) PROVE ~v.closed /\ sockets'[v.fd] = v.query
    BY DEF HeadsOpen, IsHead
  <2>1. v.fd # w.fd /\ v \in waiters
    BY <1>3, <1>4
  <2> QED BY <1>4, <1>5, <1>7, <2>1
<1>11. SocketsHeld'
  <2> SUFFICES ASSUME NEW fd \in Fds, sockets'[fd] # Nothing
               PROVE  \E v \in waiters' : v.fd = fd /\ v.query = sockets'[fd]
    BY DEF SocketsHeld
  <2>1. sockets'[fd] = sockets[fd] /\ ~(IsHead(w) /\ fd = w.fd)
    BY <1>7
  <2>2. PICK v \in waiters : v.fd = fd /\ v.query = sockets[fd]
    BY <1>4, <2>1
  <2>3. fd \in Int /\ fd >= 0
    BY OutgoingAssumption DEF Fds
  <2>4. v # w
    BY <2>1, <2>2, <2>3 DEF IsHead
  <2> QED BY <1>3, <2>1, <2>2, <2>4
<1>12. NobodyLeftBehind'
  <2> SUFFICES ASSUME NEW v \in waiters', ~IsHead(v)
               PROVE  \/ v.m \in abandoned'
                      \/ \E h \in waiters' : /\ IsHead(h) /\ ~h.closed
                                             /\ h.query.q = v.query.q
                                             /\ <<v.fd, v.query.id>> \in h.chain
    BY DEF NobodyLeftBehind, IsHead
  <2>1. v \in waiters
    BY <1>3
  <2>2. CASE v.m \in abandoned
    BY <1>1, <2>2
  <2>3. ASSUME NEW h \in waiters, IsHead(h), ~h.closed, h.query.q = v.query.q,
               <<v.fd, v.query.id>> \in h.chain
        PROVE  v.m \in abandoned' \/ h \in waiters'
    BY <1>1, <1>3, <2>1, <2>3 DEF Members
  <2> QED BY <1>1, <2>1, <2>2, <2>3 DEF NobodyLeftBehind
<1> QED BY <1>3, <1>7, <1>8, <1>9, <1>10, <1>11, <1>12

-----------------------------------------------------------------------------
(* The response is passed on.                                              *)

\* The member of the chain to be woken next.
LEMMA ResendIs ==
    ASSUME IInv, Resend
    PROVE  LET e == First(handling.todo)
               found == Matching(handling.q, e[1], e[2])
           IN  /\ e \in handling.todo /\ e = <<e[1], e[2]>> /\ e[1] \in Int /\ e[1] < 0
               /\ handling \in Handled /\ handling.point = "resend"
               /\ handling' = [handling EXCEPT !.todo = @ \ {e}]
               /\ \E x \in waiters : x.closed /\ Handles(x) /\ handling.todo \subseteq x.chain
               /\ \/ found = {} /\ UNCHANGED <<waiters, running, got>>
                  \/ \E w \in found : Wake(w, handling.content)
               /\ UNCHANGED <<sockets, numsocks, queries, asked, abandoned, coincided>>
<1> USE DEF IInv
<1> DEFINE e == First(handling.todo)
<1>1. handling \in Handled /\ handling.point = "resend" /\ handling.todo # {}
  BY DEF Resend, TypeOK
<1>2. PICK x \in waiters : x.closed /\ Handles(x) /\ handling.todo \subseteq x.chain
  BY <1>1, HandledIs DEF HandledHead
<1>3. Cardinality(x.chain) \in Nat
  BY FS_CardinalityType DEF ChainsFinite
<1>4. \A o \in handling.todo : -Cardinality(x.chain) <= o[1]
  <2> SUFFICES ASSUME NEW o \in handling.todo PROVE -Cardinality(x.chain) <= o[1]
    OBVIOUS
  <2>1. o[1] \in {i[1] : i \in x.chain}
    BY <1>2
  <2>2. o[1] \in -Cardinality(x.chain) .. -1
    BY <2>1 DEF ChainNumbered
  <2> QED BY <1>3, <2>2
<1>5. handling.todo \in SUBSET Entry
  BY <1>1, HandledIs
<1>6. e \in handling.todo
  BY <1>1, <1>3, <1>4, <1>5, FirstIs
<1>7. e = <<e[1], e[2]>> /\ e[1] \in Int /\ e[1] < 0
  <2> HIDE DEF e
  <2> QED BY <1>5, <1>6 DEF Entry, Pseudo
<1>8. /\ handling' = [handling EXCEPT !.todo = @ \ {e}]
      /\ \/ Matching(handling.q, e[1], e[2]) = {} /\ UNCHANGED <<waiters, running, got>>
         \/ \E w \in Matching(handling.q, e[1], e[2]) : Wake(w, handling.content)
      /\ UNCHANGED <<sockets, numsocks, queries, asked, abandoned, coincided>>
  BY DEF Resend, First
<1> QED BY <1>1, <1>2, <1>6, <1>7, <1>8

\* The next member of the chain is woken, or is gone.
LEMMA ResendStep ==
    ASSUME IInv, Resend
    PROVE  IInv'
<1> USE DEF IInv
<1> DEFINE e == First(handling.todo)
           found == Matching(handling.q, e[1], e[2])
           g == [handling EXCEPT !.todo = @ \ {e}]
<1>1. /\ e \in handling.todo /\ e = <<e[1], e[2]>> /\ e[1] \in Int /\ e[1] < 0
      /\ handling \in Handled /\ handling.point = "resend"
      /\ handling' = g
      /\ \E x \in waiters : x.closed /\ Handles(x) /\ handling.todo \subseteq x.chain
      /\ \/ found = {} /\ UNCHANGED <<waiters, running, got>>
         \/ \E w \in found : Wake(w, handling.content)
      /\ UNCHANGED <<sockets, numsocks, queries, asked, abandoned, coincided>>
  BY ResendIs
<1> HIDE DEF e
<1>2. /\ g \in Handled /\ g.q = handling.q /\ g.id = handling.id /\ g.fd = handling.fd
      /\ g.content = handling.content /\ g.point = handling.point
      /\ g.todo = handling.todo \ {e}
  BY <1>1, TodoLess
<1> HIDE DEF g
<1>3. /\ handling.fd \in Fds /\ handling.fd \in Int /\ handling.fd >= 0
      /\ handling.content \in Outcome /\ handling # Nothing /\ g # Nothing
  BY <1>1, <1>2, HandledIs
<1>4. \A v \in waiters : v \in found <=>
         v.query.q = handling.q /\ v.fd = e[1] /\ v.query.id = e[2]
  BY DEF Matching
<1>5. found \subseteq waiters
  BY DEF Matching
<1> HIDE DEF found
<1>6. /\ \A v \in waiters' : v \in waiters /\ v \notin found
      /\ \A v \in waiters : v \notin found => v \in waiters'
      /\ Unique(waiters)' /\ Waiting' /\ running' \in MThreads \cup {Kernel}
      /\ got' \in [MThreads -> Outcome]
      /\ ChainsFinite' /\ ChainNumbered' /\ OneOpenHead' /\ SameQuestion'
  <2>1. CASE found = {} /\ UNCHANGED <<waiters, running, got>>
    BY <1>1, <2>1 DEF Unique, Waiting, TypeOK, ChainsFinite, ChainNumbered, OneOpenHead,
                      SameQuestion
  <2>2. ASSUME NEW w \in found, Wake(w, handling.content)
        PROVE  /\ \A v \in waiters' : v \in waiters /\ v \notin found
               /\ \A v \in waiters : v \notin found => v \in waiters'
               /\ Unique(waiters)' /\ Waiting' /\ running' \in MThreads \cup {Kernel}
               /\ got' \in [MThreads -> Outcome]
               /\ ChainsFinite' /\ ChainNumbered' /\ OneOpenHead' /\ SameQuestion'
    <3>1. w \in waiters /\ w.query.q = handling.q
      BY <1>4, <1>5
    <3>2. handling.content.what = "answer" =>
             handling.content.to \in Query /\ handling.content.to.q = w.query.q
      BY <1>1, <1>3, <3>1 DEF HandledContent
    <3>3. /\ waiters' = waiters \ {w} /\ Unique(waiters)' /\ Waiting'
          /\ \A v \in waiters' : v \in waiters /\ v # w /\ ~SameKey(v, w)
          /\ running' \in MThreads /\ got' \in [MThreads -> Outcome]
          /\ ChainsFinite' /\ ChainNumbered' /\ OneOpenHead' /\ SameQuestion'
      BY <1>1, <1>3, <2>2, <3>1, <3>2, WakeIs
    <3>4. \A v \in waiters' : v \notin found
      BY <1>4, <3>1, <3>3 DEF SameKey
    <3> QED BY <2>2, <3>3, <3>4
  <2> QED BY <1>1, <2>1, <2>2
<1>7. \A v \in waiters : v.fd >= 0 => v \in waiters'
  BY <1>1, <1>4, <1>6
<1>8. TypeOK'
  BY <1>1, <1>2, <1>6 DEF TypeOK
<1>9. ClosedHandled'
  BY <1>1, <1>2, <1>3, <1>6 DEF ClosedHandled, Handles
<1>10. HandledHead'
  <2>1. PICK x \in waiters : x.closed /\ Handles(x) /\ handling.todo \subseteq x.chain
    BY <1>1
  <2>2. x \in waiters'
    BY <1>3, <1>7, <2>1 DEF Handles
  <2> QED BY <1>1, <1>2, <2>1, <2>2 DEF HandledHead, Handles
<1>11. HandledContent'
  BY <1>1, <1>2, <1>3, <1>6 DEF HandledContent
<1>12. HeadsOpen'
  BY <1>1, <1>2, <1>6 DEF HeadsOpen, IsHead
<1>13. SocketsHeld'
  <2>1. \A fd \in Fds : fd \in Int /\ fd >= 0
    BY OutgoingAssumption DEF Fds
  <2> QED BY <1>1, <1>2, <1>7, <2>1 DEF SocketsHeld
<1>14. SocketsCounted'
  BY <1>1 DEF SocketsCounted
<1>15. NobodyLeftBehind'
  <2> SUFFICES ASSUME NEW v \in waiters', ~IsHead(v)
               PROVE  \/ v.m \in abandoned
                      \/ \E h \in waiters' : /\ IsHead(h) /\ ~h.closed
                                             /\ h.query.q = v.query.q
                                             /\ <<v.fd, v.query.id>> \in h.chain
                      \/ g.q = v.query.q /\ <<v.fd, v.query.id>> \in g.todo
    BY <1>1, <1>3 DEF NobodyLeftBehind, IsHead
  <2>1. v \in waiters /\ v \notin found
    BY <1>6
  <2>2. ASSUME handling.q = v.query.q, <<v.fd, v.query.id>> \in handling.todo
        PROVE  g.q = v.query.q /\ <<v.fd, v.query.id>> \in g.todo
    <3>1. <<v.fd, v.query.id>> # e
      BY <1>1, <1>4, <2>1, <2>2
    <3> QED BY <1>2, <2>2, <3>1
  <2>3. ASSUME NEW h \in waiters, IsHead(h) PROVE h \in waiters'
    BY <1>7, <2>3 DEF IsHead
  <2> QED BY <2>1, <2>2, <2>3 DEF NobodyLeftBehind
<1> QED BY <1>6, <1>8, <1>9, <1>10, <1>11, <1>12, <1>13, <1>14, <1>15

\* The head is woken, after its chain. Its mthread runs, and the socket is given back
\* afterwards, unless that was done because of an error.
LEMMA HeadWokenStep ==
    ASSUME IInv, running = Kernel, handling # Nothing, handling.point = "resend",
           handling.todo = {},
           NEW w \in Matching(handling.q, handling.fd, handling.id), Wake(w, handling.content),
           handling' = IF handling.content.what = "error" THEN Nothing
                       ELSE [handling EXCEPT !.point = "return"],
           UNCHANGED <<sockets, numsocks, queries, asked, abandoned, coincided>>
    PROVE  IInv'
<1> USE DEF IInv
<1> DEFINE g == [handling EXCEPT !.point = "return"]
           error == handling.content.what = "error"
<1>1. handling \in Handled
  BY DEF TypeOK
<1>2. /\ g \in Handled /\ g.q = handling.q /\ g.id = handling.id /\ g.fd = handling.fd
      /\ g.content = handling.content /\ g.point = "return" /\ g.todo = {}
  BY <1>1, PointReturn
<1>3. handling' = IF error THEN Nothing ELSE g
  OBVIOUS
<1> HIDE DEF g
<1>4. /\ handling.fd \in Fds /\ handling.fd \in Int /\ handling.fd >= 0
      /\ handling.content \in Outcome /\ g # Nothing
  BY <1>1, <1>2, HandledIs
<1>5. w \in waiters /\ Handles(w) /\ IsHead(w) /\ w.fd = handling.fd
  BY <1>4 DEF Matching, Handles, IsHead
<1>6. /\ handling.content.what \in {"answer", "error"}
      /\ ~error => handling.content.to \in Query /\ sockets[handling.fd] = handling.content.to
  BY DEF HandledContent
<1>7. ~error => sockets[w.fd] = w.query /\ handling.content.to = w.query
  BY <1>5, <1>6 DEF HeadsOpen
<1>8. /\ waiters' = waiters \ {w} /\ Unique(waiters)' /\ Waiting'
      /\ \A v \in waiters' : v \in waiters /\ v # w /\ ~SameKey(v, w)
      /\ running' \in MThreads /\ got' \in [MThreads -> Outcome]
      /\ ChainsFinite' /\ ChainNumbered' /\ OneOpenHead' /\ SameQuestion'
  <2>1. handling.content.what = "answer" =>
           handling.content.to \in Query /\ handling.content.to.q = w.query.q
    BY <1>6, <1>7
  <2> QED BY <1>4, <1>5, <2>1, WakeIs
<1>9. \A v \in waiters' : ~v.closed
  BY <1>5, <1>8 DEF ClosedHandled, Handles, SameKey
<1>10. w.closed \/ (~error /\ Members(w) \subseteq abandoned)
  <2>1. CASE \E x \in waiters : x.closed /\ Handles(x)
    BY <1>5, <2>1 DEF Handles, Unique, SameKey
  <2>2. CASE ~\E x \in waiters : x.closed /\ Handles(x)
    BY <1>5, <2>2 DEF HandledHead
  <2> QED BY <2>1, <2>2
<1>11. TypeOK'
  BY <1>2, <1>3, <1>8 DEF TypeOK
<1>12. ClosedHandled'
  BY <1>9 DEF ClosedHandled
<1>13. HandledHead'
  BY <1>2, <1>3 DEF HandledHead
<1>14. HeadsOpen'
  BY <1>8, <1>9 DEF HeadsOpen, IsHead, ClosedHandled
<1>15. HandledContent'
  <2>1. CASE error
    BY <1>3, <2>1 DEF HandledContent
  <2>2. CASE ~error
    <3>1. ASSUME NEW v \in waiters', v.fd = handling.fd PROVE FALSE
      <4>1. IsHead(v) /\ ~v.closed /\ v \in waiters
        BY <1>4, <1>8, <1>9, <3>1 DEF IsHead
      <4>2. sockets[v.fd] = v.query
        BY <4>1 DEF HeadsOpen
      <4>3. v.query = w.query
        BY <1>5, <1>7, <2>2, <3>1, <4>2
      <4> QED BY <1>5, <1>8, <3>1, <4>3 DEF SameKey
    <3>2. handling' = g
      BY <1>3, <2>2
    <3> QED BY <1>2, <1>6, <2>2, <3>1, <3>2 DEF HandledContent
  <2> QED BY <2>1, <2>2
<1>16. SocketsHeld'
  <2> SUFFICES ASSUME NEW fd \in Fds, sockets[fd] # Nothing
               PROVE  \/ \E v \in waiters' : v.fd = fd /\ v.query = sockets[fd]
                      \/ handling' # Nothing /\ handling'.fd = fd /\ handling'.point = "return"
    BY DEF SocketsHeld
  <2>1. PICK v \in waiters : v.fd = fd /\ v.query = sockets[fd]
    BY DEF SocketsHeld
  <2>2. CASE v # w
    BY <1>8, <2>1, <2>2
  <2>3. CASE v = w
    <3>1. ~error
      BY <1>5, <1>10, <2>1, <2>3 DEF HeadsOpen
    <3> QED BY <1>2, <1>3, <1>4, <1>5, <2>1, <2>3, <3>1
  <2> QED BY <2>2, <2>3
<1>17. SocketsCounted'
  BY DEF SocketsCounted
<1>18. NobodyLeftBehind'
  <2> SUFFICES ASSUME NEW v \in waiters', ~IsHead(v)
               PROVE  \/ v.m \in abandoned
                      \/ \E h \in waiters' : /\ IsHead(h) /\ ~h.closed
                                             /\ h.query.q = v.query.q
                                             /\ <<v.fd, v.query.id>> \in h.chain
    BY DEF NobodyLeftBehind, IsHead
  <2>1. v \in waiters
    BY <1>8
  <2>2. ASSUME NEW h \in waiters, IsHead(h), ~h.closed, h.query.q = v.query.q,
               <<v.fd, v.query.id>> \in h.chain
        PROVE  v.m \in abandoned \/ h \in waiters'
    BY <1>8, <1>10, <2>1, <2>2 DEF Members
  <2> QED BY <2>1, <2>2 DEF NobodyLeftBehind
<1> QED BY <1>8, <1>11, <1>12, <1>13, <1>14, <1>15, <1>16, <1>17, <1>18

\* Nobody waits for the response: it is dropped, and the socket stays.
LEMMA UnexpectedStep ==
    ASSUME IInv, handling # Nothing, handling.point = "resend", handling.todo = {},
           Matching(handling.q, handling.fd, handling.id) = {}, handling' = Nothing,
           UNCHANGED <<waiters, running, got, sockets, numsocks, queries, asked, abandoned,
                       coincided>>
    PROVE  IInv'
<1> USE DEF IInv
<1>1. \A w \in waiters : ~Handles(w) /\ ~w.closed
  BY DEF Matching, Handles, ClosedHandled
<1>2. TypeOK'
  BY DEF TypeOK
<1>3. Unique(waiters)' /\ Waiting' /\ ChainsFinite' /\ ChainNumbered' /\ OneOpenHead'
      /\ SameQuestion' /\ SocketsCounted'
  BY DEF Unique, Waiting, ChainsFinite, ChainNumbered, OneOpenHead, SameQuestion,
         SocketsCounted
<1>4. ClosedHandled' /\ HandledHead' /\ HandledContent'
  BY <1>1 DEF ClosedHandled, HandledHead, HandledContent
<1>5. HeadsOpen' /\ SocketsHeld'
  BY <1>1 DEF HeadsOpen, SocketsHeld
<1>6. NobodyLeftBehind'
  BY DEF NobodyLeftBehind
<1> QED BY <1>2, <1>3, <1>4, <1>5, <1>6

\* The head is woken or is not there.
LEMMA ResendHeadStep ==
    ASSUME IInv, ResendHead
    PROVE  IInv'
<1>1. CASE Matching(handling.q, handling.fd, handling.id) = {}
  BY <1>1, UnexpectedStep DEF ResendHead
<1>2. CASE Matching(handling.q, handling.fd, handling.id) # {}
  BY <1>2, HeadWokenStep DEF ResendHead
<1> QED BY <1>1, <1>2

\* The socket is given back after the head has run.
LEMMA EndOfResponseStep ==
    ASSUME IInv, EndOfResponse
    PROVE  IInv'
<1> USE DEF IInv
<1>1. /\ handling # Nothing /\ handling.point = "return" /\ ReturnSocket(handling.fd)
      /\ handling' = Nothing
      /\ UNCHANGED <<waiters, running, queries, asked, got, abandoned, coincided>>
  BY DEF EndOfResponse
<1>2. handling \in Handled /\ handling.fd \in Fds
  BY <1>1, HandledIs DEF TypeOK
<1>3. /\ sockets[handling.fd] # Nothing /\ handling.todo = {}
      /\ \A w \in waiters : w.fd # handling.fd
  BY <1>1, OutgoingAssumption DEF HandledContent
<1>4. /\ SocketsCounted' /\ numsocks' \in Nat
      /\ sockets' \in [Fds -> Query \cup {Nothing}] /\ sockets'[handling.fd] = Nothing
      /\ \A k \in Fds \ {handling.fd} : sockets'[k] = sockets[k]
  BY <1>1, <1>2, <1>3, SocketReturned
<1>5. \A w \in waiters : ~w.closed /\ (IsHead(w) => w.fd \in Fds)
  BY <1>1, WaiterIs DEF ClosedHandled, TypeOK
<1>6. TypeOK'
  BY <1>1, <1>4 DEF TypeOK
<1>7. Unique(waiters)' /\ Waiting' /\ ChainsFinite' /\ ChainNumbered' /\ OneOpenHead'
      /\ SameQuestion'
  BY <1>1 DEF Unique, Waiting, ChainsFinite, ChainNumbered, OneOpenHead, SameQuestion
<1>8. ClosedHandled' /\ HandledHead' /\ HandledContent'
  BY <1>1, <1>5 DEF ClosedHandled, HandledHead, HandledContent
<1>9. HeadsOpen'
  BY <1>1, <1>3, <1>4, <1>5 DEF HeadsOpen, IsHead
<1>10. SocketsHeld'
  BY <1>1, <1>4 DEF SocketsHeld
<1>11. NobodyLeftBehind'
  BY <1>1, <1>3 DEF NobodyLeftBehind
<1> QED BY <1>4, <1>6, <1>7, <1>8, <1>9, <1>10, <1>11

-----------------------------------------------------------------------------
(* A response arrives, and time passes.                                    *)

\* A bare header: the chain of the head, if there is one, is abandoned.
LEMMA RespondHeaderStep ==
    ASSUME IInv, NEW fd \in Fds, RespondHeader(fd)
    PROVE  IInv'
<1> USE DEF IInv
<1>1. PICK w \in waiters :
         /\ w.query.id = sockets[fd].id
         /\ handling' = [q |-> w.query.q, id |-> w.query.id, fd |-> fd,
                         content |-> Answer(sockets[fd]), todo |-> {}, point |-> "resend"]
         /\ abandoned' = abandoned \cup
               UNION {Members(h) : h \in Matching(w.query.q, fd, w.query.id)}
  BY DEF RespondHeader
<1>2. /\ handling = Nothing /\ running = Kernel /\ sockets[fd] # Nothing
      /\ UNCHANGED <<waiters, sockets, numsocks, running, queries, asked, got, coincided>>
  BY DEF RespondHeader, InKernel
<1>3. /\ sockets[fd] \in Query /\ w.query.q \in Questions /\ w.query.id \in Ids
      /\ \A v \in waiters : v.m \in MThreads
  BY <1>2, WaiterIs DEF TypeOK, Query
<1>4. /\ Answer(sockets[fd]) \in Outcome /\ Answer(sockets[fd]).what = "answer"
      /\ Answer(sockets[fd]).to = sockets[fd]
  BY <1>3, OutcomeIs
<1>5. /\ handling' \in Handled /\ handling'.q = w.query.q /\ handling'.id = w.query.id
      /\ handling'.fd = fd /\ handling'.content = Answer(sockets[fd]) /\ handling'.todo = {}
      /\ handling'.point = "resend"
  BY <1>1, <1>3, <1>4 DEF Handled
<1>6. abandoned' \subseteq MThreads /\ abandoned \subseteq abandoned'
      /\ \A h \in Matching(w.query.q, fd, w.query.id) : Members(h) \subseteq abandoned'
  <2> DEFINE U == UNION {Members(h) : h \in Matching(w.query.q, fd, w.query.id)}
  <2>1. \A h : Members(h) \subseteq MThreads
    BY <1>3 DEF Members
  <2>2. U \subseteq MThreads
    BY <2>1, Zenon
  <2>3. \A h \in Matching(w.query.q, fd, w.query.id) : Members(h) \subseteq U
    BY Zenon
  <2>4. abandoned' = abandoned \cup U /\ abandoned \subseteq MThreads
    BY <1>1 DEF TypeOK
  <2> HIDE DEF U
  <2> QED BY <2>2, <2>3, <2>4
<1>7. \A v \in waiters : ~v.closed
  BY <1>2, InKernelIs
<1>8. TypeOK'
  BY <1>2, <1>5, <1>6 DEF TypeOK
<1>9. Unique(waiters)' /\ Waiting' /\ ChainsFinite' /\ ChainNumbered' /\ OneOpenHead'
      /\ SameQuestion' /\ SocketsCounted'
  BY <1>2 DEF Unique, Waiting, ChainsFinite, ChainNumbered, OneOpenHead, SameQuestion,
              SocketsCounted
<1>10. ClosedHandled' /\ HeadsOpen' /\ SocketsHeld'
  BY <1>2, <1>7 DEF ClosedHandled, HeadsOpen, SocketsHeld
<1>11. HandledContent'
  BY <1>2, <1>3, <1>4, <1>5 DEF HandledContent
<1>12. HandledHead'
  <2>1. \A v \in waiters : v.query.q = w.query.q /\ v.fd = fd /\ v.query.id = w.query.id
                             => Members(v) \subseteq abandoned'
    BY <1>6 DEF Matching
  <2>2. \A v \in waiters : Members(v)' = Members(v)
    BY <1>2 DEF Members
  <2>3. \A v \in waiters' : Handles(v)' => Members(v)' \subseteq abandoned'
    BY <1>2, <1>5, <2>1, <2>2 DEF Handles
  <2> QED BY <1>2, <1>4, <1>5, <2>3 DEF HandledHead
<1>13. NobodyLeftBehind'
  BY <1>2, <1>6 DEF NobodyLeftBehind
<1> QED BY <1>8, <1>9, <1>10, <1>11, <1>12, <1>13

\* The waiter whose chain is closed.
Closing(x) == [w \in waiters |-> IF w = x THEN Close(w) ELSE w]

\* A response, or an error: the head of the socket is closed, and its chain is to be woken.
LEMMA RespondStep ==
    ASSUME IInv, NEW fd \in Fds, InKernel, sockets[fd] # Nothing,
           NEW content \in Outcome,
           CloseFound(Matching(sockets[fd].q, fd, sockets[fd].id)),
           handling' = [q |-> sockets[fd].q, id |-> sockets[fd].id, fd |-> fd,
                        content |-> content,
                        todo |-> Chain(Matching(sockets[fd].q, fd, sockets[fd].id)),
                        point |-> "resend"],
           \/ content = Answer(sockets[fd]) /\ UNCHANGED <<sockets, numsocks>>
           \/ content.what = "error" /\ ReturnSocket(fd),
           UNCHANGED <<running, queries, asked, got, abandoned, coincided>>
    PROVE  IInv'
<1> USE DEF IInv
<1> DEFINE sent == sockets[fd]
           found == Matching(sent.q, fd, sent.id)
<1>1. /\ handling = Nothing /\ sent \in Query /\ sent.q \in Questions /\ sent.id \in Ids
      /\ fd \in Int /\ fd >= 0 /\ Nothing \notin Query
  BY OutgoingAssumption DEF InKernel, TypeOK, Query, Fds
<1>2. /\ \A w \in waiters : ~w.closed
      /\ \A w \in waiters : IsHead(w) => sockets[w.fd] = w.query
      /\ \A v, w \in waiters : IsHead(v) /\ v.fd = w.fd => v = w
      /\ \E w \in waiters : w.fd = fd /\ w.query = sent
  BY <1>1, InKernelIs
<1>3. PICK x \in waiters : x.fd = fd /\ x.query = sent
  BY <1>2
<1>4. found = {x} /\ IsHead(x)
  <2>1. IsHead(x)
    BY <1>1, <1>3 DEF IsHead
  <2>2. \A w \in found : w \in waiters /\ w.fd = fd
    BY DEF Matching
  <2>3. \A w \in found : w = x
    BY <1>2, <1>3, <2>1, <2>2
  <2>4. x \in found
    BY <1>3 DEF Matching
  <2> QED BY <2>1, <2>3, <2>4
<1>5. \A w \in waiters : /\ w \in Waiter /\ w.query \in Query /\ w.m \in MThreads
                         /\ w.chain \in SUBSET Entry /\ (IsHead(w) => w.fd \in Fds)
  BY WaiterIs DEF TypeOK
<1> DEFINE f == Closing(x)
<1>6. \A w \in waiters : f[w] = IF w = x THEN Close(w) ELSE w
  BY DEF Closing
<1>7. waiters' = {f[w] : w \in waiters}
  <2>1. waiters' = (waiters \ {x}) \cup {Close(x)}
    BY <1>4 DEF CloseFound
  <2> HIDE DEF f
  <2> QED BY <1>6, <2>1
<1> HIDE DEF f
<1>8. \A w \in waiters : /\ f[w] \in Waiter /\ Same(f[w], w) /\ f[w].chain = w.chain
                         /\ (f[w].closed <=> w = x) /\ (w # x => f[w] = w)
  <2> SUFFICES ASSUME NEW w \in waiters
               PROVE  /\ f[w] \in Waiter /\ Same(f[w], w) /\ f[w].chain = w.chain
                      /\ (f[w].closed <=> w = x) /\ (w # x => f[w] = w)
    OBVIOUS
  <2>1. CASE w = x
    BY <1>5, <1>6, <2>1, CloseIs
  <2>2. CASE w # x
    BY <1>2, <1>5, <1>6, <2>2 DEF Same
  <2> QED BY <2>1, <2>2
<1>9. /\ \A w \in waiters : /\ f[w] \in waiters' /\ f[w].query = w.query /\ f[w].fd = w.fd
                            /\ f[w].m = w.m
      /\ \A v \in waiters' : \E w \in waiters : v = f[w]
  BY <1>7, <1>8 DEF Same
<1>10. Chain(found) = x.chain
  BY <1>4 DEF Chain
<1>11. /\ handling' \in Handled /\ handling'.q = sent.q /\ handling'.id = sent.id
       /\ handling'.fd = fd /\ handling'.content = content /\ handling'.todo = x.chain
       /\ handling'.point = "resend" /\ handling' # Nothing
  <2>1. handling' = [q |-> sent.q, id |-> sent.id, fd |-> fd, content |-> content,
                     todo |-> x.chain, point |-> "resend"]
    BY <1>10
  <2>2. x.chain \in SUBSET Entry
    BY <1>5
  <2>3. handling' \in Handled
    BY <1>1, <2>1, <2>2 DEF Handled
  <2> QED BY <2>1, <2>3, HandledIs
<1>12. /\ SocketsCounted' /\ numsocks' \in Nat /\ sockets' \in [Fds -> Query \cup {Nothing}]
       /\ \A k \in Fds \ {fd} : sockets'[k] = sockets[k]
       /\ \/ /\ content.what = "answer" /\ content.to = sent /\ sockets' = sockets
          \/ content.what = "error" /\ sockets'[fd] = Nothing
  <2>1. CASE content = Answer(sockets[fd]) /\ UNCHANGED <<sockets, numsocks>>
    BY <1>1, <2>1, OutcomeIs DEF SocketsCounted, TypeOK
  <2>2. CASE content.what = "error" /\ ReturnSocket(fd)
    BY <2>2, SocketReturned
  <2> QED BY <2>1, <2>2
<1> HIDE DEF found, sent
<1>13. TypeOK'
  BY <1>8, <1>9, <1>11, <1>12 DEF TypeOK
<1>14. Unique(waiters)'
  BY <1>7, <1>8, UniqueImage
<1>15. Waiting'
  BY <1>9 DEF Waiting
<1>16. ClosedHandled'
  <2> SUFFICES ASSUME NEW v \in waiters', v.closed
               PROVE  /\ IsHead(v) /\ v.query.q = handling'.q /\ v.fd = handling'.fd
                      /\ v.query.id = handling'.id
    BY <1>11 DEF ClosedHandled, Handles, IsHead
  <2>1. v = f[x]
    BY <1>8, <1>9
  <2> QED BY <1>3, <1>4, <1>9, <1>11, <2>1 DEF IsHead
<1>17. HandledHead'
  <2>1. PICK v \in waiters' : v = f[x]
    BY <1>9
  <2>2. /\ v.closed /\ handling'.todo \subseteq v.chain /\ v.query.q = handling'.q
        /\ v.fd = handling'.fd /\ v.query.id = handling'.id
    BY <1>3, <1>8, <1>9, <1>11, <2>1
  <2> QED BY <2>1, <2>2 DEF HandledHead, Handles
<1>18. HandledContent'
  BY <1>1, <1>11, <1>12 DEF HandledContent, sent
<1>19. HeadsOpen'
  <2> SUFFICES ASSUME NEW w \in waiters, IsHead(w)
               PROVE  IF f[w].closed /\ content.what = "error"
                      THEN sockets'[w.fd] # w.query
                      ELSE sockets'[w.fd] = w.query
    BY <1>9, <1>11 DEF HeadsOpen, IsHead
  <2>1. CASE w = x
    BY <1>1, <1>3, <1>8, <1>12, <2>1 DEF sent
  <2>2. CASE w # x
    <3>1. w.fd # fd /\ w.fd \in Fds
      BY <1>2, <1>3, <1>5, <2>2
    <3> QED BY <1>2, <1>8, <1>12, <2>2, <3>1
  <2> QED BY <2>1, <2>2
<1>20. SocketsHeld'
  <2> SUFFICES ASSUME NEW k \in Fds, sockets'[k] # Nothing
               PROVE  \E v \in waiters' : v.fd = k /\ v.query = sockets'[k]
    BY DEF SocketsHeld
  <2>1. sockets'[k] = sockets[k]
    BY <1>12
  <2>2. PICK w \in waiters : w.fd = k /\ w.query = sockets[k]
    BY <1>1, <2>1, InKernelIs
  <2> QED BY <1>9, <2>1, <2>2
<1>21. ChainsFinite' /\ ChainNumbered'
  BY <1>8, <1>9 DEF ChainsFinite, ChainNumbered
<1>22. OneOpenHead'
  <2> SUFFICES ASSUME NEW u \in waiters', NEW v \in waiters', IsHead(u), IsHead(v),
                      ~u.closed, ~v.closed, u.query.q = v.query.q, u.query.ecs = v.query.ecs
               PROVE  u = v
    BY DEF OneOpenHead, IsHead
  <2>1. u \in waiters /\ v \in waiters
    BY <1>8, <1>9
  <2> QED BY <2>1 DEF OneOpenHead
<1>23. NobodyLeftBehind'
  <2> SUFFICES ASSUME NEW v \in waiters', ~IsHead(v)
               PROVE  \/ v.m \in abandoned
                      \/ \E h \in waiters' : /\ IsHead(h) /\ ~h.closed
                                             /\ h.query.q = v.query.q
                                             /\ <<v.fd, v.query.id>> \in h.chain
                      \/ handling'.q = v.query.q /\ <<v.fd, v.query.id>> \in handling'.todo
    BY <1>11 DEF NobodyLeftBehind, IsHead
  <2>1. v \in waiters
    BY <1>4, <1>8, <1>9 DEF IsHead, Same
  <2>2. ASSUME NEW h \in waiters, IsHead(h), ~h.closed, h.query.q = v.query.q,
               <<v.fd, v.query.id>> \in h.chain
        PROVE  \/ h \in waiters'
               \/ handling'.q = v.query.q /\ <<v.fd, v.query.id>> \in handling'.todo
    <3>1. CASE h = x
      BY <1>3, <1>11, <2>2, <3>1
    <3>2. CASE h # x
      BY <1>8, <1>9, <3>2
    <3> QED BY <3>1, <3>2
  <2> QED BY <1>1, <2>1, <2>2 DEF NobodyLeftBehind
<1>24. SameQuestion'
  BY DEF SameQuestion
<1> QED BY <1>12, <1>13, <1>14, <1>15, <1>16, <1>17, <1>18, <1>19, <1>20, <1>21, <1>22, <1>23,
           <1>24

\* Time passes.
LEMMA TickStep ==
    ASSUME IInv, Tick
    PROVE  IInv'
<1> USE DEF IInv
<1>1. /\ handling = Nothing /\ waiters' = {Aged(w) : w \in waiters}
      /\ UNCHANGED <<sockets, numsocks, running, handling, queries, asked, got, abandoned,
                     coincided>>
  BY DEF Tick, InKernel
<1> DEFINE f == [w \in waiters |-> Aged(w)]
<1>2. \A w \in waiters : /\ f[w] \in Waiter /\ Same(f[w], w) /\ f[w].chain = w.chain
                         /\ f[w].closed = w.closed
  BY AgedIs DEF TypeOK
<1>3. waiters' = {f[w] : w \in waiters}
  BY <1>1
<1> HIDE DEF f
<1>4. \A w \in waiters : ~w.closed
  BY <1>1, InKernelIs
<1>5. /\ \A w \in waiters : /\ f[w] \in waiters' /\ f[w].query = w.query /\ f[w].fd = w.fd
                            /\ f[w].m = w.m /\ ~f[w].closed /\ f[w].chain = w.chain
      /\ \A v \in waiters' : \E w \in waiters : v = f[w]
  BY <1>2, <1>3, <1>4 DEF Same
<1>6. TypeOK'
  <2>1. \A v \in waiters' : v \in Waiter
    BY <1>2, <1>5
  <2> QED BY <1>1, <2>1 DEF TypeOK
<1>7. Unique(waiters)'
  BY <1>2, <1>3, UniqueImage
<1>8. Waiting'
  BY <1>1, <1>5 DEF Waiting
<1>9. ClosedHandled' /\ HandledHead' /\ HandledContent'
  BY <1>1, <1>5 DEF ClosedHandled, HandledHead, HandledContent
<1>10. HeadsOpen'
  BY <1>1, <1>4, <1>5 DEF HeadsOpen, IsHead
<1>11. SocketsHeld' /\ SocketsCounted'
  BY <1>1, <1>5 DEF SocketsHeld, SocketsCounted
<1>12. ChainsFinite' /\ ChainNumbered'
  BY <1>5 DEF ChainsFinite, ChainNumbered
<1>13. OneOpenHead'
  <2> SUFFICES ASSUME NEW u \in waiters', NEW v \in waiters', IsHead(u), IsHead(v),
                      u.query.q = v.query.q, u.query.ecs = v.query.ecs
               PROVE  u = v
    BY DEF OneOpenHead, IsHead
  <2>1. PICK x \in waiters : u = f[x]
    BY <1>5
  <2>2. PICK y \in waiters : v = f[y]
    BY <1>5
  <2>3. x = y
    BY <1>4, <1>5, <2>1, <2>2 DEF OneOpenHead, IsHead
  <2> QED BY <2>1, <2>2, <2>3
<1>14. NobodyLeftBehind'
  <2> SUFFICES ASSUME NEW v \in waiters', ~IsHead(v)
               PROVE  \/ v.m \in abandoned
                      \/ \E h \in waiters' : /\ IsHead(h) /\ ~h.closed
                                             /\ h.query.q = v.query.q
                                             /\ <<v.fd, v.query.id>> \in h.chain
    BY <1>1 DEF NobodyLeftBehind, IsHead
  <2>1. PICK x \in waiters : v = f[x]
    BY <1>5
  <2>2. v.query = x.query /\ v.fd = x.fd /\ v.m = x.m /\ ~IsHead(x)
    BY <1>5, <2>1 DEF IsHead
  <2>3. ASSUME NEW h \in waiters, IsHead(h), h.query.q = x.query.q,
               <<x.fd, x.query.id>> \in h.chain
        PROVE  /\ f[h] \in waiters' /\ IsHead(f[h]) /\ ~f[h].closed
               /\ f[h].query.q = x.query.q /\ <<x.fd, x.query.id>> \in f[h].chain
    BY <1>5, <2>3 DEF IsHead
  <2>4. \/ x.m \in abandoned
        \/ \E h \in waiters : /\ IsHead(h) /\ h.query.q = x.query.q
                              /\ <<x.fd, x.query.id>> \in h.chain
    BY <1>1, <2>2 DEF NobodyLeftBehind
  <2> QED BY <2>2, <2>3, <2>4
<1>15. SameQuestion'
  BY <1>1 DEF SameQuestion
<1> QED BY <1>6, <1>7, <1>8, <1>9, <1>10, <1>11, <1>12, <1>13, <1>14, <1>15

-----------------------------------------------------------------------------
(* The theorems.                                                           *)

\* Nobody waits when the worker thread starts.
LEMMA IInvInit == Init => IInv
<1> SUFFICES ASSUME Init PROVE IInv
  OBVIOUS
<1>1. Other("new") \in Outcome /\ Other("new").what = "new"
  BY OutcomeIs
<1>2. waiters = {} /\ handling = Nothing /\ \A fd \in Fds : sockets[fd] = Nothing
  BY DEF Init
<1>3. \A m \in MThreads : got[m].what = "new"
  BY <1>1 DEF Init
<1>4. TypeOK
  BY <1>1, OutgoingAssumption DEF Init, TypeOK
<1>5. /\ Unique(waiters) /\ Waiting /\ ClosedHandled /\ HandledHead /\ HandledContent
      /\ HeadsOpen /\ SocketsHeld /\ ChainsFinite /\ ChainNumbered /\ OneOpenHead
      /\ NobodyLeftBehind
  BY <1>2 DEF Unique, Waiting, ClosedHandled, HandledHead, HandledContent, HeadsOpen,
              SocketsHeld, ChainsFinite, ChainNumbered, OneOpenHead, NobodyLeftBehind
<1>6. SocketsCounted
  <2>1. {fd \in Fds : sockets[fd] # Nothing} = {}
    BY <1>2
  <2>2. Cardinality({fd \in Fds : sockets[fd] # Nothing}) = 0
    BY <2>1, FS_EmptySet
  <2> QED BY <2>2 DEF SocketsCounted, Init
<1>7. SameQuestion
  BY <1>3 DEF SameQuestion
<1> QED BY <1>4, <1>5, <1>6, <1>7 DEF IInv

\* An mthread issues a query in one of the four ways.
LEMMA IssueStep ==
    ASSUME IInv, NEW m \in MThreads, IssueAny(m)
    PROVE  IInv'
<1>0. PICK query \in Query : IssueLimited(m, query) \/ IssueChained(m, query)
                              \/ IssueHead(m, query) \/ IssueFails(m, query)
  BY DEF IssueAny
<1>1. CASE IssueLimited(m, query)
  BY <1>1, IssueFailsStep DEF IssueLimited
<1>2. CASE IssueFails(m, query)
  BY <1>2, IssueFailsStep DEF IssueFails
<1>3. CASE IssueHead(m, query)
  <2>1. PICK fd \in Fds :
           /\ sockets[fd] = Nothing
           /\ IF Matching(query.q, fd, query.id) = {}
              THEN /\ sockets' = [sockets EXCEPT ![fd] = query]
                   /\ numsocks' = numsocks + 1
                   /\ waiters' = waiters \cup {NewWaiter(m, query, fd)}
                   /\ running' = Kernel
                   /\ got' = [got EXCEPT ![m] = Other("waiting")]
              ELSE /\ Fail(m, "error")
                   /\ UNCHANGED <<sockets, numsocks>>
    BY <1>3 DEF IssueHead
  <2>2. CASE Matching(query.q, fd, query.id) = {}
    BY <1>3, <2>1, <2>2, HeadStep DEF IssueHead
  <2>3. CASE Matching(query.q, fd, query.id) # {}
    BY <1>3, <2>1, <2>3, IssueFailsStep DEF IssueHead
  <2> QED BY <2>2, <2>3
<1>4. CASE IssueChained(m, query)
  <2>1. PICK w \in waiters :
           /\ Joinable(w, query)
           /\ IF Matching(query.q, NextPseudo(w), query.id) = {}
              THEN /\ waiters' = ((waiters \ {w}) \cup {Joined(w, query)})
                                    \cup {NewWaiter(m, query, NextPseudo(w))}
                   /\ running' = Kernel
                   /\ got' = [got EXCEPT ![m] = Other("waiting")]
              ELSE /\ waiters' = (waiters \ {w}) \cup {Joined(w, query)}
                   /\ got' = [got EXCEPT ![m] = Other("error")]
                   /\ UNCHANGED running
    BY <1>4 DEF IssueChained
  <2>2. Issue(m, query) /\ UNCHANGED <<sockets, numsocks>>
    BY <1>4 DEF IssueChained
  <2>3. CASE Matching(query.q, NextPseudo(w), query.id) = {}
    BY <2>1, <2>2, <2>3, ChainedStep
  <2>4. CASE Matching(query.q, NextPseudo(w), query.id) # {}
    <3>1. waiters' = ((waiters \ {w}) \cup {Joined(w, query)}) \cup {}
      BY <2>1, <2>4
    <3> QED BY <2>1, <2>2, <2>4, <3>1, ChainedStep
  <2> QED BY <2>3, <2>4
<1> QED BY <1>0, <1>1, <1>2, <1>3, <1>4

\* A response of any kind.
LEMMA AnyResponseStep ==
    ASSUME IInv, NEW fd \in Fds, Respond(fd) \/ RespondError(fd) \/ RespondHeader(fd)
    PROVE  IInv'
<1>1. CASE Respond(fd)
  <2>1. Answer(sockets[fd]) \in Outcome
    BY <1>1, OutcomeIs DEF Respond, IInv, TypeOK
  <2> QED BY <1>1, <2>1, RespondStep DEF Respond
<1>2. CASE RespondError(fd)
  <2>1. Other("error") \in Outcome /\ Other("error").what = "error"
    BY OutcomeIs
  <2> QED BY <1>2, <2>1, RespondStep DEF RespondError
<1>3. CASE RespondHeader(fd)
  BY <1>3, RespondHeaderStep
<1> QED BY <1>1, <1>2, <1>3

\* Every step keeps the invariant.
LEMMA IInvStep == IInv /\ [Next]_vars => IInv'
<1> SUFFICES ASSUME IInv, [Next]_vars PROVE IInv'
  OBVIOUS
<1>1. CASE UNCHANGED vars
  <2>1. UNCHANGED <<waiters, sockets, numsocks, running, handling, queries, asked, got,
                  abandoned, coincided>>
    BY <1>1 DEF vars
  <2>2. TypeOK' /\ Kernelly'
    BY <2>1, KernellyKept DEF IInv, TypeOK, Kernelly
  <2>3. Waiting' /\ HandledHead' /\ NobodyLeftBehind' /\ SameQuestion'
    BY <2>1 DEF IInv, Waiting, HandledHead, Handles, Members, NobodyLeftBehind, SameQuestion
  <2> QED BY <2>2, <2>3 DEF IInv, Kernelly
<1>2. ASSUME NEW m \in MThreads, Start(m) \/ IssueAny(m) \/ Finish(m) PROVE IInv'
  BY <1>2, StartStep, IssueStep, FinishStep
<1>3. CASE Resume
  BY <1>3, ResendStep, ResendHeadStep, EndOfResponseStep, ExpireStep DEF Resume
<1> QED BY <1>1, <1>2, <1>3, AnyResponseStep, TickStep DEF Next

\* The invariant holds in all behaviours.
LEMMA InductiveInvariant == Spec => []IInv
  BY IInvInit, IInvStep, PTL DEF Spec

\* The variables keep their types; d_numsocks never goes below zero.
THEOREM TypeCorrect == Spec => []TypeOK
<1>1. IInv => TypeOK
  BY DEF IInv
<1> QED BY InductiveInvariant, <1>1, PTL

\* No mthread joins a chain that does not wake it: it stays in the chain of a query in
\* flight or among those doResends is about to wake, until it is woken, whatever runs in
\* between, unless its head has timed out or got a bare header.
THEOREM ChainsWakeTheirMembers == Spec => []NobodyLeftBehind
<1>1. IInv => NobodyLeftBehind
  BY DEF IInv
<1> QED BY InductiveInvariant, <1>1, PTL

\* At most one query that others can join is in flight for a question and a subnet.
THEOREM QueriesAreShared == Spec => []OneOpenHead
<1>1. IInv => OneOpenHead
  BY DEF IInv
<1> QED BY InductiveInvariant, <1>1, PTL

\* Every socket is given back exactly once: by the timeout of the head, by an error or
\* after the response; also when an mthread that was woken reuses the descriptor before
\* the kernel loop is done with the response.
THEOREM SocketsAreGivenBack == Spec => []SocketsAccounted
<1>1. IInv => SocketsAccounted
  BY DEF IInv, SocketsAccounted, SocketsHeld, SocketsCounted, HeadsOpen
<1> QED BY InductiveInvariant, <1>1, PTL

\* The members of a chain are numbered without gaps, so their keys differ.
THEOREM ChainsAreNumbered == Spec => []ChainNumbered
<1>1. IInv => ChainNumbered
  BY DEF IInv
<1> QED BY InductiveInvariant, <1>1, PTL

-----------------------------------------------------------------------------
(* Subnets. Members of a chain are found by keys that do not compare the   *)
(* subnet, so more is needed than that they have joined the right chain.   *)

\* Whoever an entry of a chain finds has asked for the subnet of its head; also if the
\* entry was made by another waiter, which is gone.
OneSubnet(W) ==
    \A h, w \in W :
        /\ w.query.q \notin coincided
        /\ w.query.q = h.query.q
        /\ <<w.fd, w.query.id>> \in h.chain
        => w.query.ecs = h.query.ecs

\* A response is for the subnet the mthread has asked for.
SameSubnet ==
    \A m \in MThreads : got[m].what = "answer" /\ asked[m].q \notin coincided =>
        got[m].to.ecs = asked[m].ecs

\* The waiters after a step in which none is new and no chain grows.
LEMMA OneSubnetImage ==
    ASSUME OneSubnet(waiters), NEW f, waiters' = {f[w] : w \in waiters},
           \A w \in waiters : Same(f[w], w) /\ f[w].chain = w.chain,
           coincided' = coincided
    PROVE  OneSubnet(waiters)'
<1> SUFFICES ASSUME NEW u \in waiters', NEW v \in waiters', v.query.q \notin coincided,
                    v.query.q = u.query.q, <<v.fd, v.query.id>> \in u.chain
             PROVE  v.query.ecs = u.query.ecs
  BY DEF OneSubnet
<1>1. PICK x \in waiters : u = f[x]
  OBVIOUS
<1>2. PICK y \in waiters : v = f[y]
  OBVIOUS
<1>3. /\ u.query = x.query /\ u.chain = x.chain
      /\ v.query = y.query /\ v.fd = y.fd
  BY <1>1, <1>2 DEF Same
<1> QED BY <1>3 DEF OneSubnet

\* ... or in which waiters go.
LEMMA OneSubnetLess ==
    ASSUME OneSubnet(waiters), waiters' \subseteq waiters, coincided \subseteq coincided'
    PROVE  OneSubnet(waiters)'
  BY DEF OneSubnet

\* An mthread gets something that is no response, or the right one.
LEMMA SameSubnetOne ==
    ASSUME SameSubnet, NEW m \in MThreads,
           \A k \in MThreads \ {m} : got'[k] = got[k] /\ asked'[k] = asked[k],
           got'[m].what = "answer" /\ asked'[m].q \notin coincided' =>
               got'[m].to.ecs = asked'[m].ecs,
           coincided \subseteq coincided'
    PROVE  SameSubnet'
  BY DEF SameSubnet

\* What happens to the histories when a query is issued.
LEMMA IssueHistory ==
    ASSUME IInv, NEW m \in MThreads, NEW query \in Query, Issue(m, query)
    PROVE  /\ coincided \subseteq coincided'
           /\ query.q \notin coincided' =>
                 \A w \in waiters : w.query.q = query.q =>
                     /\ w.query.id # query.id
                     /\ \A e \in w.chain : e[2] # query.id
<1>1. coincided' = coincided \cup (IF Fresh(query) THEN {} ELSE {query.q})
  BY DEF Issue
<1>2. query.q \notin coincided' => Fresh(query)
  BY <1>1
<1>3. coincided \subseteq coincided'
  BY <1>1
<1> QED BY <1>2, <1>3 DEF Fresh

\* A new head is not found by any entry.
LEMMA HeadSubnet ==
    ASSUME IInv, OneSubnet(waiters), NEW m \in MThreads, NEW query \in Query,
           Issue(m, query), NEW fd \in Fds, waiters' = waiters \cup {NewWaiter(m, query, fd)}
    PROVE  OneSubnet(waiters)'
<1> DEFINE n == NewWaiter(m, query, fd)
<1>1. n.query = query /\ n.fd = fd /\ n.chain = {}
  BY DEF NewWaiter
<1>2. waiters' = waiters \cup {n}
  OBVIOUS
<1> HIDE DEF n
<1> SUFFICES ASSUME NEW u \in waiters', NEW v \in waiters', v.query.q \notin coincided',
                    v.query.q = u.query.q, <<v.fd, v.query.id>> \in u.chain
             PROVE  v.query.ecs = u.query.ecs
  BY DEF OneSubnet
<1>3. u \in waiters
  BY <1>1, <1>2
<1>4. CASE v \in waiters
  BY <1>3, <1>4, IssueHistory DEF OneSubnet
<1>5. CASE v = n
  <2>1. \A e \in u.chain : e[2] # query.id
    BY <1>1, <1>3, <1>5, IssueHistory
  <2>2. <<v.fd, v.query.id>>[2] = query.id
    BY <1>1, <1>5
  <2> QED BY <2>1, <2>2
<1> QED BY <1>2, <1>4, <1>5

\* A query that joins a chain is found by its own entry only, and its entry finds no other.
LEMMA ChainedSubnet ==
    ASSUME IInv, OneSubnet(waiters), NEW m \in MThreads, NEW query \in Query,
           Issue(m, query), NEW w \in waiters, Joinable(w, query),
           NEW N \in SUBSET {NewWaiter(m, query, NextPseudo(w))},
           waiters' = ((waiters \ {w}) \cup {Joined(w, query)}) \cup N
    PROVE  OneSubnet(waiters)'
<1> DEFINE n == NewWaiter(m, query, NextPseudo(w))
           f == After(w, query)
           e0 == <<NextPseudo(w), query.id>>
<1>1. n.query = query /\ n.fd = NextPseudo(w) /\ n.chain = {}
  BY DEF NewWaiter
<1>2. /\ (waiters \ {w}) \cup {Joined(w, query)} = {f[x] : x \in waiters}
      /\ \A x \in waiters : Like(f[x], x) /\ (x # w => f[x] = x)
  BY ChainedIs
<1>3. f[w].chain = w.chain \cup {e0}
  BY ChainGrows DEF After
<1>4. /\ coincided \subseteq coincided'
      /\ query.q \notin coincided' =>
            \A x \in waiters : x.query.q = query.q =>
                x.query.id # query.id /\ \A e \in x.chain : e[2] # query.id
  BY IssueHistory
<1>5. w.query.q = query.q /\ w.query.ecs = query.ecs
  BY DEF Joinable
<1>6. \A v \in waiters' : (\E x \in waiters : v = f[x]) \/ v = n
  BY <1>2
<1>7. e0[1] = NextPseudo(w) /\ e0[2] = query.id
  OBVIOUS
<1> HIDE DEF n, f
<1>8. \A x \in waiters : f[x].query = x.query /\ f[x].fd = x.fd
  BY <1>2 DEF Like, Same
<1> SUFFICES ASSUME NEW u \in waiters', NEW v \in waiters', v.query.q \notin coincided',
                    v.query.q = u.query.q, <<v.fd, v.query.id>> \in u.chain
             PROVE  v.query.ecs = u.query.ecs
  BY DEF OneSubnet
<1>9. PICK x \in waiters : u = f[x]
  BY <1>1, <1>6
<1>10. x # w => f[x].chain = x.chain
  BY <1>2
<1>11. CASE v = n
  <2>1. CASE x = w
    BY <1>1, <1>5, <1>8, <1>9, <1>11, <2>1
  <2>2. CASE x # w
    <3>1. e0 \in x.chain
      BY <1>1, <1>9, <1>10, <1>11, <2>2
    <3>2. \A e \in x.chain : e[2] # query.id
      BY <1>1, <1>4, <1>8, <1>9, <1>11
    <3> QED BY <1>7, <3>1, <3>2
  <2> QED BY <2>1, <2>2
<1>12. ASSUME NEW y \in waiters, v = f[y] PROVE v.query.ecs = u.query.ecs
  <2>1. v.query = y.query /\ v.fd = y.fd /\ u.query = x.query
    BY <1>8, <1>9, <1>12
  <2>2. CASE <<y.fd, y.query.id>> \in x.chain
    BY <1>4, <2>1, <2>2 DEF OneSubnet
  <2>3. CASE <<y.fd, y.query.id>> \notin x.chain
    <3>1. x = w /\ <<y.fd, y.query.id>> = e0
      BY <1>3, <1>9, <1>10, <2>1, <2>3
    <3>2. y.query.id = query.id /\ y.query.q = query.q
      BY <1>5, <2>1, <3>1
    <3> QED BY <1>4, <2>1, <3>2
  <2> QED BY <2>2, <2>3
<1> QED BY <1>6, <1>11, <1>12

SubnetInv == OneSubnet(waiters) /\ SameSubnet

\* A query is issued in one of the four ways.
LEMMA IssueSubnet ==
    ASSUME IInv, SubnetInv, NEW m \in MThreads, IssueAny(m)
    PROVE  SubnetInv'
<1> USE DEF SubnetInv
<1>1. PICK query \in Query : IssueLimited(m, query) \/ IssueChained(m, query)
                              \/ IssueHead(m, query) \/ IssueFails(m, query)
  BY DEF IssueAny
<1>2. Issue(m, query)
  BY <1>1 DEF IssueLimited, IssueChained, IssueHead, IssueFails
<1>3. coincided \subseteq coincided'
  BY <1>2, IssueHistory
<1>4. \E what \in {"error", "limit", "waiting"} : got' = [got EXCEPT ![m] = Other(what)]
  BY <1>1 DEF IssueLimited, IssueChained, IssueHead, IssueFails, Fail
<1>5. got'[m].what # "answer" /\ \A k \in MThreads \ {m} : got'[k] = got[k]
  BY <1>4, OutcomeIs DEF IInv, TypeOK
<1>6. \A k \in MThreads \ {m} : asked'[k] = asked[k]
  BY <1>2, IssueIs
<1>7. SameSubnet'
  BY <1>3, <1>5, <1>6, SameSubnetOne
<1>8. CASE waiters' = waiters
  BY <1>3, <1>7, <1>8, OneSubnetLess
<1>9. CASE IssueHead(m, query) /\ waiters' # waiters
  <2>1. PICK fd \in Fds : waiters' = waiters \cup {NewWaiter(m, query, fd)}
    BY <1>9 DEF IssueHead, Fail
  <2> QED BY <1>2, <1>7, <2>1, HeadSubnet
<1>10. CASE IssueChained(m, query)
  <2>1. PICK w \in waiters :
           /\ Joinable(w, query)
           /\ \/ waiters' = ((waiters \ {w}) \cup {Joined(w, query)})
                               \cup {NewWaiter(m, query, NextPseudo(w))}
              \/ waiters' = (waiters \ {w}) \cup {Joined(w, query)}
    BY <1>10 DEF IssueChained
  <2>2. \E N \in SUBSET {NewWaiter(m, query, NextPseudo(w))} :
           waiters' = ((waiters \ {w}) \cup {Joined(w, query)}) \cup N
    <3>1. CASE waiters' = ((waiters \ {w}) \cup {Joined(w, query)})
                             \cup {NewWaiter(m, query, NextPseudo(w))}
      BY <3>1
    <3>2. CASE waiters' = (waiters \ {w}) \cup {Joined(w, query)}
      <4>1. waiters' = ((waiters \ {w}) \cup {Joined(w, query)}) \cup {}
        BY <3>2
      <4> QED BY <4>1
    <3> QED BY <2>1, <3>1, <3>2
  <2> QED BY <1>2, <1>7, <2>1, <2>2, ChainedSubnet
<1> QED BY <1>1, <1>8, <1>9, <1>10 DEF IssueLimited, IssueFails, Fail

\* A waiter is woken with a response for its subnet, or without one.
LEMMA WakeSubnet ==
    ASSUME IInv, SubnetInv, NEW w \in waiters, NEW event, Wake(w, event),
           UNCHANGED <<asked, coincided>>,
           event.what = "answer" /\ w.query.q \notin coincided => event.to.ecs = w.query.ecs
    PROVE  SubnetInv'
<1> USE DEF SubnetInv
<1>1. waiters' \subseteq waiters /\ got' = [got EXCEPT ![w.m] = event]
  BY DEF Wake
<1>2. w.m \in MThreads
  BY WaiterIs DEF IInv, TypeOK
<1>3. got'[w.m] = event /\ \A k \in MThreads \ {w.m} : got'[k] = got[k]
  BY <1>1, <1>2 DEF IInv, TypeOK
<1>4. asked'[w.m] = w.query
  BY DEF IInv, Waiting
<1>5. SameSubnet'
  BY <1>2, <1>3, <1>4, SameSubnetOne
<1> QED BY <1>1, <1>5, OneSubnetLess

\* The response that is passed on is the one the closed head waits for.
LEMMA ContentIs ==
    ASSUME IInv, handling # Nothing, handling.content.what = "answer",
           NEW h \in waiters, IsHead(h), Handles(h)
    PROVE  handling.content.to = h.query
<1>1. sockets[handling.fd] = handling.content.to
  BY DEF IInv, HandledContent
<1>2. sockets[h.fd] = h.query
  BY DEF IInv, HeadsOpen
<1> QED BY <1>1, <1>2 DEF Handles

\* doResends passes the response on to those who have asked for its subnet.
LEMMA ResendSubnet ==
    ASSUME IInv, SubnetInv, Resend
    PROVE  SubnetInv'
<1> USE DEF SubnetInv
<1> DEFINE e == First(handling.todo)
           found == Matching(handling.q, e[1], e[2])
<1>1. /\ e \in handling.todo /\ e = <<e[1], e[2]>>
      /\ handling \in Handled
      /\ \E x \in waiters : x.closed /\ Handles(x) /\ handling.todo \subseteq x.chain
      /\ \/ found = {} /\ UNCHANGED <<waiters, running, got>>
         \/ \E w \in found : Wake(w, handling.content)
      /\ UNCHANGED <<asked, coincided>>
  BY ResendIs
<1> HIDE DEF e
<1>2. PICK x \in waiters : x.closed /\ Handles(x) /\ handling.todo \subseteq x.chain
  BY <1>1
<1>3. handling # Nothing /\ IsHead(x)
  BY <1>1, <1>2, HandledIs DEF IInv, ClosedHandled
<1>4. CASE found = {} /\ UNCHANGED <<waiters, running, got>>
  BY <1>1, <1>4 DEF OneSubnet, SameSubnet
<1>5. ASSUME NEW w \in found, Wake(w, handling.content) PROVE SubnetInv'
  <2>1. w \in waiters /\ w.query.q = handling.q /\ <<w.fd, w.query.id>> = <<e[1], e[2]>>
    BY <1>5 DEF Matching
  <2>2. x.query.q = w.query.q /\ <<w.fd, w.query.id>> \in x.chain
    BY <1>1, <1>2, <2>1 DEF Handles
  <2>3. w.query.q \notin coincided => w.query.ecs = x.query.ecs
    BY <2>1, <2>2 DEF OneSubnet
  <2>4. handling.content.what = "answer" => handling.content.to = x.query
    BY <1>2, <1>3, ContentIs
  <2> QED BY <1>1, <1>5, <2>1, <2>3, <2>4, WakeSubnet
<1> QED BY <1>1, <1>4, <1>5

\* ... and to the head.
LEMMA ResendHeadSubnet ==
    ASSUME IInv, SubnetInv, ResendHead
    PROVE  SubnetInv'
<1> USE DEF SubnetInv
<1>1. UNCHANGED <<asked, coincided>> /\ handling # Nothing
  BY DEF ResendHead
<1>2. CASE UNCHANGED <<waiters, running, got>>
  BY <1>1, <1>2 DEF OneSubnet, SameSubnet
<1>3. ASSUME NEW w \in Matching(handling.q, handling.fd, handling.id),
             Wake(w, handling.content)
      PROVE  SubnetInv'
  <2>1. handling.fd >= 0
    BY <1>1, HandledIs DEF IInv, TypeOK
  <2>2. w \in waiters /\ Handles(w) /\ IsHead(w)
    BY <1>3, <2>1 DEF Matching, Handles, IsHead
  <2>3. handling.content.what = "answer" => handling.content.to = w.query
    BY <1>1, <2>2, ContentIs
  <2> QED BY <1>1, <1>3, <2>2, <2>3, WakeSubnet
<1> QED BY <1>2, <1>3 DEF ResendHead

\* A chain is closed.
LEMMA CloseSubnet ==
    ASSUME IInv, SubnetInv, NEW found \in SUBSET waiters, CloseFound(found),
           UNCHANGED <<asked, got, coincided>>
    PROVE  SubnetInv'
<1> USE DEF SubnetInv
<1> DEFINE f == [w \in waiters |-> IF w \in found THEN Close(w) ELSE w]
<1>1. waiters' = (waiters \ found) \cup {Close(w) : w \in found}
  BY DEF CloseFound
<1>2. \A w \in waiters : f[w] = IF w \in found THEN Close(w) ELSE w
  OBVIOUS
<1> HIDE DEF f
<1>3. waiters' = {f[w] : w \in waiters}
  BY <1>1, <1>2
<1>4. \A w \in waiters : Same(f[w], w) /\ f[w].chain = w.chain
  BY <1>2, CloseIs DEF IInv, TypeOK, Same
<1>5. OneSubnet(waiters)'
  BY <1>3, <1>4, OneSubnetImage
<1> QED BY <1>5 DEF SameSubnet

\* Every step keeps members and heads of one subnet together.
LEMMA SubnetStep == IInv /\ SubnetInv /\ [Next]_vars => SubnetInv'
<1> SUFFICES ASSUME IInv, SubnetInv, [Next]_vars PROVE SubnetInv'
  OBVIOUS
<1> USE DEF SubnetInv
<1>1. ASSUME UNCHANGED <<waiters, asked, got, coincided>> PROVE SubnetInv'
  BY <1>1 DEF OneSubnet, SameSubnet
<1>2. CASE UNCHANGED vars
  BY <1>1, <1>2 DEF vars
<1>3. ASSUME NEW m \in MThreads, Start(m) \/ IssueAny(m) \/ Finish(m) PROVE SubnetInv'
  <2>1. CASE Start(m)
    BY <1>1, <2>1 DEF Start
  <2>2. CASE IssueAny(m)
    BY <2>2, IssueSubnet
  <2>3. CASE Finish(m)
    <3>1. /\ UNCHANGED <<waiters, coincided>> /\ got' = [got EXCEPT ![m] = Other("done")]
          /\ asked' = [asked EXCEPT ![m] = Nothing]
      BY <2>3 DEF Finish
    <3>2. got'[m].what # "answer"
      BY <3>1, OutcomeIs DEF IInv, TypeOK
    <3>3. \A k \in MThreads \ {m} : got'[k] = got[k] /\ asked'[k] = asked[k]
      BY <3>1 DEF IInv, TypeOK
    <3>4. SameSubnet'
      BY <3>1, <3>2, <3>3, SameSubnetOne
    <3> QED BY <3>1, <3>4, OneSubnetLess
  <2> QED BY <1>3, <2>1, <2>2, <2>3
<1>4. ASSUME NEW fd \in Fds, Respond(fd) \/ RespondError(fd) \/ RespondHeader(fd)
      PROVE  SubnetInv'
  <2>1. Matching(sockets[fd].q, fd, sockets[fd].id) \in SUBSET waiters
    BY DEF Matching
  <2>2. CASE Respond(fd) \/ RespondError(fd)
    <3>1. /\ CloseFound(Matching(sockets[fd].q, fd, sockets[fd].id))
          /\ UNCHANGED <<asked, got, coincided>>
      BY <2>2 DEF Respond, RespondError
    <3> QED BY <2>1, <3>1, CloseSubnet
  <2>3. CASE RespondHeader(fd)
    BY <1>1, <2>3 DEF RespondHeader
  <2> QED BY <1>4, <2>2, <2>3
<1>5. ASSUME NEW w \in waiters, ExpireWaiter(w) PROVE SubnetInv'
  <2>1. Wake(w, Other("timeout")) /\ UNCHANGED <<asked, coincided>>
    BY <1>5 DEF ExpireWaiter
  <2>2. Other("timeout").what # "answer"
    BY OutcomeIs
  <2> QED BY <2>1, <2>2, WakeSubnet
<1>6. CASE EndOfResponse
  BY <1>1, <1>6 DEF EndOfResponse
<1>7. CASE Resume
  BY <1>5, <1>6, <1>7, ResendSubnet, ResendHeadSubnet DEF Resume
<1>8. CASE Tick
  <2> DEFINE f == [w \in waiters |-> Aged(w)]
  <2>1. waiters' = {f[w] : w \in waiters} /\ UNCHANGED <<asked, got, coincided>>
    BY <1>8 DEF Tick
  <2>2. \A w \in waiters : Same(f[w], w) /\ f[w].chain = w.chain
    BY AgedIs DEF IInv, TypeOK
  <2> HIDE DEF f
  <2>3. OneSubnet(waiters)'
    BY <2>1, <2>2, OneSubnetImage
  <2> QED BY <2>1, <2>3 DEF SameSubnet
<1> QED BY <1>2, <1>3, <1>4, <1>7, <1>8 DEF Next

\* Nobody has joined a chain or got a response when the worker thread starts.
LEMMA SubnetInit == Init => SubnetInv
<1>1. Other("new").what = "new"
  BY OutcomeIs
<1> QED BY <1>1 DEF Init, SubnetInv, OneSubnet, SameSubnet

\* An mthread never gets the response to a question it has not asked, even when the random
\* IDs of several queries coincide; and as long as they do not, never one for another client
\* subnet, for any number of subnets, although doResends looks for the members of a chain
\* by keys without the subnet and entries stay in a chain after their waiters have gone.
THEOREM AnswersMatchQuestions == Spec => []AnswersWhatWasAsked
<1>1. IInv /\ SubnetInv => AnswersWhatWasAsked
  BY DEF IInv, SameQuestion, SubnetInv, SameSubnet, AnswersWhatWasAsked
<1>2. Spec => []SubnetInv
  BY InductiveInvariant, SubnetInit, SubnetStep, PTL DEF Spec
<1> QED BY InductiveInvariant, <1>1, <1>2, PTL

==============================================================================
