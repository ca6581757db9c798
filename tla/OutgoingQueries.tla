--------------------------- MODULE OutgoingQueries ---------------------------
(***************************************************************************)
(* The outgoing UDP queries of one worker thread of the recursor. Its      *)
(* mthreads run one at a time, each until it waits; in between the kernel  *)
(* loop handles responses and timeouts. An mthread that asks what another  *)
(* one is already waiting for joins the chain of that query (the head)     *)
(* instead of sending its own; the response wakes the chain first, then    *)
(* the head. Each mthread that is woken runs, and may ask again, before    *)
(* the next one.                                                           *)
(*                                                                         *)
(* A question stands for a name and a type; all go to the same server.     *)
(* Ages count clock ticks since the query was issued. Packets the handler  *)
(* drops without touching anything but counters (too short, not a response,*)
(* unparsable, the wrong ID) are left out.                                 *)
(*                                                                         *)
(* Definitions named X_Y are mutations of X.                               *)
(***************************************************************************)
EXTENDS Integers, FiniteSets

CONSTANTS MThreads,
          Questions,
          Subnets,        \* EDNS client subnets, or the lack of one
          Ids,            \* query IDs
          MaxFd,          \* sockets are 0 .. MaxFd
          NetworkTimeout, \* in ticks
          MaxChainLength, \* max-chain-length, 0: no limit
          MaxQueries,     \* bound: queries issued by all mthreads
          Kernel, Nothing

Fds == 0 .. MaxFd

VARIABLES
    waiters,   \* d_waiters: the waiting mthreads and what they wait for
    sockets,   \* per descriptor: the query sent on it, or Nothing if closed
    numsocks,  \* UDPClientSocks::d_numsocks
    running,   \* the mthread that has the control, or Kernel
    handling,  \* the response the kernel loop is working on, or Nothing
    queries,   \* queries issued
    asked,     \* per mthread: its last query, until it ends
    got,       \* per mthread: what came of it
    abandoned, \* history: chained mthreads whose head is gone
    coincided  \* history: questions for which random IDs have coincided

vars == <<waiters, sockets, numsocks, running, handling, queries, asked, got,
          abandoned, coincided>>

Query == [q : Questions, ecs : Subnets, id : Ids]
Pseudo == {i \in Int : i < 0}
Entry == Pseudo \X Ids

Waiter == [query : Query, fd : Fds \cup Pseudo, m : MThreads,
           age : 0 .. NetworkTimeout + 1, chain : SUBSET Entry, closed : BOOLEAN]

\* What becomes of a query: a response to some query, or something else.
Outcome == [what : {"answer", "error", "timeout", "limit", "waiting", "new", "done"},
            to : Query \cup {Nothing}]

Answer(query) == [what |-> "answer", to |-> query]
Other(what) == [what |-> what, to |-> Nothing]

\* content: the response the event carries; todo: chain members to be woken.
Handled == [q : Questions, id : Ids, fd : Fds, content : Outcome,
            todo : SUBSET Entry, point : {"resend", "return"}]

ASSUME OutgoingAssumption ==
    /\ Kernel \notin MThreads /\ Nothing \notin Query /\ Nothing \notin Handled
    /\ {MaxFd, NetworkTimeout, MaxChainLength, MaxQueries} \subseteq Nat
    /\ Ids \subseteq Nat

IsHead(w) == w.fd >= 0

\* The types of all variables; in particular no socket is given back that was
\* never counted (d_numsocks does not go below zero).
TypeOK ==
    /\ \A w \in waiters : w \in Waiter
    /\ sockets \in [Fds -> Query \cup {Nothing}]
    /\ numsocks \in Nat
    /\ running \in MThreads \cup {Kernel}
    /\ handling \in Handled \cup {Nothing}
    /\ queries \in 0 .. MaxQueries
    /\ asked \in [MThreads -> Query \cup {Nothing}]
    /\ got \in [MThreads -> Outcome]
    /\ abandoned \subseteq MThreads
    /\ coincided \subseteq Questions

Init ==
    /\ waiters = {}
    /\ sockets = [fd \in Fds |-> Nothing]
    /\ numsocks = 0
    /\ running = Kernel
    /\ handling = Nothing
    /\ queries = 0
    /\ asked = [m \in MThreads |-> Nothing]
    /\ got = [m \in MThreads |-> Other("new")]
    /\ abandoned = {}
    /\ coincided = {}

-----------------------------------------------------------------------------
(* MTasker: keys, and who is waiting.                                      *)

\* Keys compare the server, the type, the name, the descriptor and the ID.
Matching(q, fd, id) ==
    {w \in waiters : w.query.q = q /\ w.fd = fd /\ w.query.id = id}

\* sendEvent: the waiter goes and its mthread runs with the event.
Wake(w, event) ==
    /\ waiters' = waiters \ {w}
    /\ running' = w.m
    /\ got' = [got EXCEPT ![w.m] = event]

Fail(m, how) ==
    /\ got' = [got EXCEPT ![m] = Other(how)]
    /\ UNCHANGED <<waiters, running>>

ReturnSocket(fd) ==
    /\ sockets' = [sockets EXCEPT ![fd] = Nothing]
    /\ numsocks' = numsocks - 1

-----------------------------------------------------------------------------
(* An mthread issues a query: asendto, then arecvfrom.                     *)

Joinable_Closed(w, query) ==
    IsHead(w) /\ w.query.q = query.q /\ w.query.ecs = query.ecs

Joinable_SameID(w, query) ==
    IsHead(w) /\ ~w.closed /\ w.query = query

Joinable_AnySubnet(w, query) ==
    IsHead(w) /\ ~w.closed /\ w.query.q = query.q

Joinable(w, query) ==
    IsHead(w) /\ ~w.closed /\ w.query.q = query.q /\ w.query.ecs = query.ecs

\* The pseudo descriptor of the next mthread to join.
NextPseudo_Same(w) == -1

NextPseudo(w) == -(Cardinality(w.chain) + 1)

TooLong(w) == MaxChainLength > 0 /\ Cardinality(w.chain) >= MaxChainLength
TooOld(w) == 3 * w.age > 2 * NetworkTimeout

NewWaiter(m, query, fd) ==
    [query |-> query, fd |-> fd, m |-> m, age |-> 0, chain |-> {}, closed |-> FALSE]

\* The random ID is neither that of a query in flight for the same question nor in an
\* entry of a chain, even one whose waiter is gone already.
Fresh(query) ==
    \A w \in waiters : w.query.q = query.q =>
        query.id \notin {w.query.id} \cup {e[2] : e \in w.chain}

Joined(w, query) == [w EXCEPT !.chain = @ \cup {<<NextPseudo(w), query.id>>}]

Issue(m, query) ==
    /\ running = m
    /\ queries < MaxQueries
    /\ queries' = queries + 1
    /\ asked' = [asked EXCEPT ![m] = query]
    /\ abandoned' = abandoned \ {m}
    /\ coincided' = coincided \cup (IF Fresh(query) THEN {} ELSE {query.q})
    /\ UNCHANGED handling

\* ChainLimitError: no query is sent and none is waited for.
IssueLimited(m, query) ==
    /\ Issue(m, query)
    /\ \E w \in waiters : Joinable(w, query) /\ (TooLong(w) \/ TooOld(w))
    /\ Fail(m, "limit")
    /\ UNCHANGED <<sockets, numsocks>>

IssueChained(m, query) ==
    /\ Issue(m, query)
    /\ \E w \in waiters :
          /\ Joinable(w, query)
          /\ ~TooLong(w)
          /\ ~TooOld(w)
          /\ LET others == (waiters \ {w}) \cup {Joined(w, query)}
             IN  IF Matching(query.q, NextPseudo(w), query.id) = {}
                 THEN /\ waiters' = others \cup {NewWaiter(m, query, NextPseudo(w))}
                      /\ running' = Kernel
                      /\ got' = [got EXCEPT ![m] = Other("waiting")]
                 ELSE /\ waiters' = others
                      /\ got' = [got EXCEPT ![m] = Other("error")]
                      /\ UNCHANGED running
    /\ UNCHANGED <<sockets, numsocks>>

\* The first of its kind: it gets a socket. If its key is taken, arecvfrom gives
\* the socket back at once.
IssueHead(m, query) ==
    /\ Issue(m, query)
    /\ ~\E w \in waiters : Joinable(w, query)
    /\ \E fd \in Fds :
          /\ sockets[fd] = Nothing
          /\ IF Matching(query.q, fd, query.id) = {}
             THEN /\ sockets' = [sockets EXCEPT ![fd] = query]
                  /\ numsocks' = numsocks + 1
                  /\ waiters' = waiters \cup {NewWaiter(m, query, fd)}
                  /\ running' = Kernel
                  /\ got' = [got EXCEPT ![m] = Other("waiting")]
             ELSE /\ Fail(m, "error")
                  /\ UNCHANGED <<sockets, numsocks>>

\* No socket can be had, or the send fails and the socket is given back.
IssueFails(m, query) ==
    /\ Issue(m, query)
    /\ ~\E w \in waiters : Joinable(w, query)
    /\ Fail(m, "error")
    /\ UNCHANGED <<sockets, numsocks>>

\* The mthread ends, or does something else than asking.
Finish(m) ==
    /\ running = m
    /\ running' = Kernel
    /\ got' = [got EXCEPT ![m] = Other("done")]
    /\ asked' = [asked EXCEPT ![m] = Nothing]
    /\ abandoned' = abandoned \ {m}
    /\ UNCHANGED <<waiters, sockets, numsocks, handling, queries, coincided>>

-----------------------------------------------------------------------------
(* The kernel loop.                                                        *)

InKernel == running = Kernel /\ handling = Nothing

\* schedule() runs a new mthread.
Start(m) ==
    /\ InKernel
    /\ got[m].what = "new"
    /\ running' = m
    /\ UNCHANGED <<waiters, sockets, numsocks, handling, queries, asked, got, abandoned,
                   coincided>>

Close_Not(w) == w
Close(w) == [w EXCEPT !.closed = TRUE]

\* doResends: the chain is closed, and the kernel sets out to wake its members.
Chain(found) == UNION {w.chain : w \in found}

CloseFound(found) == waiters' = (waiters \ found) \cup {Close(w) : w \in found}

\* handleUDPServerResponse: the response to what was sent on the socket.
Respond(fd) ==
    /\ InKernel
    /\ sockets[fd] # Nothing
    /\ LET sent == sockets[fd]
           found == Matching(sent.q, fd, sent.id)
       IN  /\ CloseFound(found)
           /\ handling' = [q |-> sent.q, id |-> sent.id, fd |-> fd, content |-> Answer(sent),
                           todo |-> Chain(found), point |-> "resend"]
    /\ UNCHANGED <<sockets, numsocks, running, queries, asked, got, abandoned, coincided>>

\* ... an error on the socket, which is given back first.
RespondError(fd) ==
    /\ InKernel
    /\ sockets[fd] # Nothing
    /\ LET sent == sockets[fd]
           found == Matching(sent.q, fd, sent.id)
       IN  /\ CloseFound(found)
           /\ handling' = [q |-> sent.q, id |-> sent.id, fd |-> fd, content |-> Other("error"),
                           todo |-> Chain(found), point |-> "resend"]
    /\ ReturnSocket(fd)
    /\ UNCHANGED <<running, queries, asked, got, abandoned, coincided>>

\* Those who wait for an event of the chain of w.
Members(w) ==
    {u.m : u \in {v \in waiters : v.query.q = w.query.q /\ <<v.fd, v.query.id>> \in w.chain}}

\* ... a bare header: the name is taken from a waiter with the same ID, and only
\* the head is woken (retryWithName); nobody will wake its chain.
RespondHeader(fd) ==
    /\ InKernel
    /\ sockets[fd] # Nothing
    /\ \E w \in waiters :
          /\ w.query.id = sockets[fd].id
          /\ handling' = [q |-> w.query.q, id |-> w.query.id, fd |-> fd,
                          content |-> Answer(sockets[fd]), todo |-> {}, point |-> "resend"]
          /\ abandoned' = abandoned \cup
                UNION {Members(h) : h \in Matching(w.query.q, fd, w.query.id)}
    /\ UNCHANGED <<waiters, sockets, numsocks, running, queries, asked, got, coincided>>

\* sendEvent to the next member of the chain; the set is ordered by descriptor.
Resend ==
    /\ running = Kernel
    /\ handling # Nothing
    /\ handling.point = "resend"
    /\ handling.todo # {}
    /\ LET entry == CHOOSE e \in handling.todo :
                       \A o \in handling.todo : e[1] < o[1] \/ (e[1] = o[1] /\ e[2] <= o[2])
           found == Matching(handling.q, entry[1], entry[2])
       IN  /\ handling' = [handling EXCEPT !.todo = @ \ {entry}]
           /\ IF found = {}
              THEN UNCHANGED <<waiters, running, got>>
              ELSE \E w \in found : Wake(w, handling.content)
    /\ UNCHANGED <<sockets, numsocks, queries, asked, abandoned, coincided>>

\* sendEvent to the head. Without a match the response is unexpected, and the
\* socket stays; otherwise, and unless there was an error, it is given back.
ResendHead ==
    /\ running = Kernel
    /\ handling # Nothing
    /\ handling.point = "resend"
    /\ handling.todo = {}
    /\ LET found == Matching(handling.q, handling.fd, handling.id)
       IN  IF found = {}
           THEN /\ handling' = Nothing
                /\ UNCHANGED <<waiters, running, got>>
           ELSE /\ \E w \in found : Wake(w, handling.content)
                /\ handling' = IF handling.content.what = "error" THEN Nothing
                               ELSE [handling EXCEPT !.point = "return"]
    /\ UNCHANGED <<sockets, numsocks, queries, asked, abandoned, coincided>>

EndOfResponse ==
    /\ running = Kernel
    /\ handling # Nothing
    /\ handling.point = "return"
    /\ ReturnSocket(handling.fd)
    /\ handling' = Nothing
    /\ UNCHANGED <<waiters, running, queries, asked, got, abandoned, coincided>>

\* schedule() wakes an expired waiter: arecvfrom gives the socket of a head back.
\* The chain of a head goes with it.
Expired_HeadsOnly(w) == IsHead(w) /\ w.age > NetworkTimeout

Expired(w) == w.age > NetworkTimeout

GiveBack_Never(w) == UNCHANGED <<sockets, numsocks>>

GiveBack_Chained(w) == ReturnSocket(w.fd)

GiveBack(w) ==
    IF IsHead(w) THEN ReturnSocket(w.fd) ELSE UNCHANGED <<sockets, numsocks>>

ExpireWaiter(w) ==
    /\ InKernel
    /\ Expired(w)
    /\ Wake(w, Other("timeout"))
    /\ GiveBack(w)
    /\ abandoned' = abandoned \cup Members(w)
    /\ UNCHANGED <<handling, queries, asked, coincided>>

Aged(w) == [w EXCEPT !.age = IF @ > NetworkTimeout THEN @ ELSE @ + 1]

Tick ==
    /\ InKernel
    /\ waiters # {}
    /\ waiters' = {Aged(w) : w \in waiters}
    /\ UNCHANGED <<sockets, numsocks, running, handling, queries, asked, got, abandoned,
                   coincided>>

Resume == Resend \/ ResendHead \/ EndOfResponse \/ \E w \in waiters : ExpireWaiter(w)

IssueAny(m) ==
    \E query \in Query :
        IssueLimited(m, query) \/ IssueChained(m, query)
        \/ IssueHead(m, query) \/ IssueFails(m, query)

Done == \A m \in MThreads : got[m].what = "done"

Next ==
    \/ \E m \in MThreads : Start(m) \/ IssueAny(m) \/ Finish(m)
    \/ \E fd \in Fds : Respond(fd) \/ RespondError(fd) \/ RespondHeader(fd)
    \/ Resume
    \/ Tick
    \/ Done /\ UNCHANGED vars

Spec == Init /\ [][Next]_vars

\* The worker thread keeps running and time passes; servers need not answer.
FairSpec ==
    /\ Spec
    /\ \A m \in MThreads : WF_vars(IssueAny(m) \/ Finish(m))
    /\ WF_vars(Resume)
    /\ WF_vars(Tick)

-----------------------------------------------------------------------------
(* Properties.                                                             *)

\* Every mthread that has joined a chain is still going to be woken by it: it is
\* in the chain of a query in flight, or about to be woken, unless the head has
\* timed out (asendto must not let it join a chain that is being processed).
NobodyLeftBehind ==
    \A w \in waiters : ~IsHead(w) =>
        \/ w.m \in abandoned
        \/ \E h \in waiters : /\ IsHead(h) /\ ~h.closed
                              /\ h.query.q = w.query.q
                              /\ <<w.fd, w.query.id>> \in h.chain
        \/ /\ handling # Nothing
           /\ handling.q = w.query.q
           /\ <<w.fd, w.query.id>> \in handling.todo

\* At any time at most one query that others may still join is in flight for
\* the same question and subnet: equal questions do not multiply.
OneOpenHead ==
    \A v, w \in waiters :
        /\ IsHead(v) /\ IsHead(w) /\ ~v.closed /\ ~w.closed
        /\ v.query.q = w.query.q /\ v.query.ecs = w.query.ecs
        => v = w

\* A socket is open exactly while a head waits for its response, or until the
\* kernel loop has dealt with the response; each is given back once.
SocketsAccounted ==
    /\ numsocks = Cardinality({fd \in Fds : sockets[fd] # Nothing})
    /\ \A fd \in Fds : sockets[fd] # Nothing =>
          \/ \E w \in waiters : w.fd = fd /\ w.query = sockets[fd]
          \/ handling # Nothing /\ handling.fd = fd /\ handling.point = "return"
    /\ \A w \in waiters : IsHead(w) /\ ~w.closed => sockets[w.fd] = w.query

\* Members of one chain have different keys, so that none of them is turned away
\* by waitEvent because of another.
ChainNumbered ==
    \A w \in waiters : {e[1] : e \in w.chain} = -Cardinality(w.chain) .. -1

\* An mthread that gets a response gets one to what it asked, be it the head or a
\* member of the chain; and, unless random IDs have coincided, one for the subnet it
\* asked for, although entries of a chain outlive their waiters and the keys by which
\* doResends finds the members do not compare the subnet.
AnswersWhatWasAsked ==
    \A m \in MThreads : got[m].what = "answer" =>
        /\ got[m].to.q = asked[m].q
        /\ asked[m].q \notin coincided => got[m].to.ecs = asked[m].ecs

\* Whoever waits is woken in the end, by a response or by its timeout.
EveryoneWoken == \A m \in MThreads : got[m].what = "waiting" ~> got[m].what # "waiting"

=============================================================================
