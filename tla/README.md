# TLA+ models of PowerDNS: dnsdist, the recursor, the authoritative server

The repository holds three DNS daemons. **dnsdist** (`src/pdns/dnsdistdist/`) is a
load balancer: it receives queries, picks a backend server, forwards the query
and passes the response on. The **recursor** (`src/pdns/recursordist/`) resolves
names by asking authoritative servers and caches what it learns. The
**authoritative server** (`src/pdns/`, `src/modules/`) answers from databases and
transfers zones. They share low-level code (DNS packets, sockets, locks,
channels).

This project models the parts of them where threads, timeouts, failures and the
order of events decide whether the program is correct. `PROJECT.json` lists all
components (the ones that are not modelled with the reason), maps every definition
to the lines it stands for, and lists the hazards, runs, mutants, findings and
theorems. Definitions named `X_Y` are mutations of `X`: plausible bugs, used to
show that the properties notice them.

## 1. Inventory

### dnsdist

| Part | State | Operations | What is hard |
|---|---|---|---|
| In-flight UDP queries (`dnsdist-backend.cc`, `dnsdist-idstate.hh`) | a table of slots with `inUse`, `locked`, `age` and the query, or a map from random IDs; `outstanding`, `idOffset` | `saveState`, `getState`, `restoreState`, `handleUDPTimeouts` | client, responder and health-check threads meet on a slot without waiting for one another; some fields are accessed without the guard |
| Health checks (`dnsdist-backend.cc`, `dnsdist-healthchecks.cc`) | up status, counters of good and bad checks, the lazy mode's state and sample, the time of the next check | `healthCheckRequired`, `submitHealthCheckResult`, `updateNextLazyHealthCheck` | two modes, back-off, results that come late, operators |
| Backend sockets (`reconnect`, `waitUntilConnected`, `stop`, `responderThread`) | `connected`, `d_stopped`, `connectLock`, a condition variable | reconnection by any thread, removal | competition for the lock, a thread blocked in `recv` or on the condition |
| Selection of a backend (`dnsdist-lbpolicies.cc`) | pools, limits | policies | limits checked before the counters grow |
| TCP (`dnsdist-tcp.cc`, `dnsdist-tcp-downstream.cc`) | connection state machines, pending queries, the cache of connections | read, write, retry, timeouts | out-of-order responses, a backend that closes, queries passed between threads |
| Packet cache, async holder, connection counters, dynamic blocks | shards, timers, counters | insert, expire, resume | contention, a timeout racing an answer |

A client thread selects a backend (`isUp`, `canAcceptNewQueries`), stores the query
and sends it. The responder thread of the backend gets the response and finds the
query by the ID. The health-check thread comes round every second: it times
queries out and runs the checks. What becomes of regular queries feeds back into
the lazy health check, and a failed send makes the client thread reconnect.

### Recursor

| Part | State | Operations | What is hard |
|---|---|---|---|
| MTasker (`mtasker.hh`) | waiters by key and by deadline, run queue | `waitEvent`, `sendEvent`, `schedule`, `makeThread` | cooperative threads: whatever is woken runs before the caller goes on |
| Outgoing UDP (`pdns_recursor.cc`, `lwres.cc`) | sockets, chains of equal queries | `asendto`, `arecvfrom`, `handleUDPServerResponse`, `doResends` | keys with pseudo descriptors and random IDs, resends interleaved with new queries |
| Outgoing TCP, task queue, record/negative/packet cache, throttling, RPZ | pools, sharded maps, queues | lookups, refreshes, expiry | sharing between worker threads, staleness |

### Authoritative server

| Part | State | Operations | What is hard |
|---|---|---|---|
| Secondary communicator (`auth-secondarycommunicator.cc`) | queue of transfers, zones in progress, checks asked for, failed zones, a semaphore; the zones in the database | NOTIFY, freshness checks, `suck` with AXFR and IXFR | requests for a zone that is being transferred, three moments at which a serial is read, crashes between differences |
| Primary communicator (`auth-primarycommunicator.cc`) | queue of NOTIFYs, the notified serial | `primaryUpdateCheck`, `doNotifications` | lost and late packets, restarts |
| Packet and query cache (`auth-packetcache.cc`, `auth-querycache.cc`) | maps, a counter beside the lock | lookup, insertion, three kinds of purges, cleaning | a change that is purged while answers are being made |
| Zone cache (`auth-zonecache.cc`) | maps, the updates kept during a refresh, a counter | `add`, `remove`, `setReplacePending`, `replace` | replacing the cache while it is updated, two refreshes at a time |
| Distributor | pipes to backend threads, a counter | question, answer, respawn | limits, failing backends |
| Signing pipe, IXFR distribution | ordered chunks, differences | combine | order of worker results |

A zone that changes on a primary is noticed by its `primaryUpdateCheck`, which queues a
NOTIFY; the secondary compares serials and queues a transfer; when the transfer has
been committed the secondary purges its packet and query cache. Zones that are
created or deleted, through the API, a catalog zone or an autoprimary, enter and
leave the zone cache, which the main thread also refreshes as a whole.

## 2. Plan

1. *(done)* In-flight UDP queries: `UDPInFlight` (abstract), `IDStates`, `IDStatesMap`.
2. *(done)* `BackendHealth`: checks, reconnection, removal.
3. *(done)* `OutgoingQueries`: chains of the recursor.
4. *(done)* Replication: `ReplicatedZone` (abstract), `ZoneTransfers`, `NotifyQueue` and
   their composition `AuthReplication`.
5. *(done)* `AuthCaches` and `ZoneCache`.
6. *(done)* Proofs of the invariants, the refinements and the action properties that the
   runs check, for every module (section 5). Left: `ProbesOnSchedule`, which needs powers
   of two.
7. dnsdist: a module for the selection of backends under limits, composed with
   `UDPInFlight`; TCP connections to backends with their pending queries and the
   connection cache; the async holder; the packet cache; the counters of concurrent
   connections.
8. Recursor: `MTasker` as a component (run queue, zombies, yield); the task queue; the
   pool of TCP connections; the record cache with its shards.
9. Authoritative server: the signing pipe, the distributor.

Modules are parameterised by `CONSTANTS` with named assumptions, have one action
per step of the code, and use no `RECURSIVE` operator.

## 3. Modules

### UDPInFlight

The promise: a query is accepted once and resolved once, as `answered`, `timeout`,
`reused` (its place went to another query) or `returned` (handed back to a client
whose send failed). Both tables below implement it.

### IDStates

The table of slots (`DownstreamState::idStates`). One step is one access to an
atomic that another thread can see: `SavePick` (the fetch-and-add of `idOffset`),
`SaveAcquire` (the compare-and-swap of `locked`), `SaveCount` (`inUse` is read and
`outstanding` updated), `SaveWrite`, and so on; the scan's unguarded look
(`ScanVisit`) and unguarded increment (`ScanAge`) are steps of their own. The
release of a guard is part of the last step it protects.

Abstractions: a query is a model value with a question and a socket; the index is
`idOffset` modulo the number of slots; responses arrive on the socket and with the
ID of the query they answer, up to `MaxCopies` times, and may lack the question
section, in which case they match every query. `udpTimeout` counts scans. Metrics,
rings and timeout response rules are left out; `ContentMatches` stands for
`responseContentMatches`. A DOHUnit follows its query, so that `Conserved` is also
about DOHUnits.

### IDStatesMap

The map used with `setRandomizedIdsOverUDP`. Each operation is one action, since it
holds the lock of the map throughout. After five draws `saveState` uses the last
ID even if it is taken: any ID may be the one. There are finitely many IDs, and at
least one.

### BackendHealth

One UDP backend with one socket. The health-check thread takes a `Round` per second
(old queries time out; a check is sent if `healthCheckRequired` says so), waits for
the result (`SlowCheck`, `LostCheck`) and judges it in `submitHealthCheckResult`,
which is cut in two where the code reads `upStatus` again: the actions that count
(`StaysDown`, `Rises`, `SurvivesBadCheck`, `FallsLazy`, `StillBad`) and the ones that
decide (`Decide`, `DecideReconnect`, `DecideRefused`). `reconnect()` is cut where
other threads can see it: taken lock and closed socket, connection made, responder
started. Clients pick the backend when it is up and reconnect after a failed send.
The responder thread loops, receives, waits for a connection or ends. The operator
sets the availability, status and mode, or removes the backend.

Abstractions: a round takes one second unless a check is slow; regular queries time
out in the second round after they were sent; `currentCheckFailures` stops at
`FailBound` (a `uint16_t` in the code) and `consecutiveSuccessfulChecks` wraps at
`RiseWidth` (256 in the code); the sample is a sequence of the last results; the
back-off is limited by `MaxBackOff`, a `uint16_t`, so that shifts by more than 30, which
TLC cannot compute, need no case of their own. Checks are those over UDP: after a check
over TCP an exception of `reconnect()` is caught by the callback, which submits a failure
(`dnsdist-healthchecks.cc:374`).

History variables: `okRun` and `failRun` count results in a row; `since`, `due` and `lost` are the
schedule of the documentation (a lost probe is no failure and repeats its interval);
`marked` says that the operator has set `upStatus` since the last result, `switched` that
the mode was changed or the backend marked up since the lazy state was last set by
checks; `acts` counts what the operator does, up to `MaxActs`. The server and the path
to it (`alive`, `routable`) belong to the environment.

### OutgoingQueries

The outgoing UDP queries of one worker thread. At most one mthread runs; the kernel
loop (`recLoop`) runs otherwise. An mthread issues a query (`asendto` and
`arecvfrom`, between which nothing else runs) and gets the limit error, joins a
chain, sends its own query, or fails. A response is handled in several steps,
because every mthread that is woken runs, and may ask again, before the next:
`Respond` closes the chain, `Resend` wakes its members in the order of the set,
`ResendHead` wakes the head, `EndOfResponse` gives the socket back. `RespondError` gives
the socket back first. `RespondHeader` is the `retryWithName` path, which does not
resend. `ExpireWaiter` is the timeout of `schedule()`.

Abstractions: a question is a name and a type, all for one server; IDs come from a
small set and may coincide; `coincided`, a history variable, has the questions for which
an ID was drawn that a waiter or an entry of a chain had (`Fresh`); the timeout is constant
(the code shortens it under load), so waiters may expire in any order once they are
due. Packets that change nothing but counters are left out. `Joined` is what joining
does to the head, `Aged` what a tick does to a waiter. Pseudo descriptors are any negative
numbers, as chains are not bounded unless `MaxChainLength` says so.

### ReplicatedZone, ZoneTransfers, NotifyQueue, AuthReplication

`ReplicatedZone` is the promise: a zone holds at any time exactly one of the versions a
primary has published, or nothing. `ZoneTransfers` is the secondary. The main thread
collects the zones to check (`Collect`, `Select`), gets answers or none (`Answered`,
`Unanswered`, `ProcessSilent`), reads its own serial (`Compare`) and concludes (`Fresh`,
`Stale`, `SignaturesDiffer`). Retrieval threads wait for the semaphore, take a request
and run `suck()`: `SuckBegin` to `SuckEnd`, with `ReceiveAXFR` and `CommitAXFR`, or
`ReceiveIXFR`, one `ApplyDelta` per difference and `EndIXFR`; `TransferFails` and
`TransferGivesUp` are its exceptions and early returns, `Crash` ends the process and
leaves the database. A critical section of `d_data`, an access to the database and an
exchange with the primary are one step each. `NotifyQueue` is the primary:
`GetUpdatedPrimaries`, `QueueNotifyDomain`, `SendNotification`, `ReceiveAnswer`,
`Restart`. `AuthReplication` joins them: the packets of the one are delivered to the
other (`DeliverNotify`).

`ZoneTransfers!ImplementsReplicatedZone` maps `held` to the stored serial while the
records are those of that serial (`pure`), and to no version at all otherwise, so
differences applied to the wrong base break it.

The queue of transfers is a sequence in the order the retrieval threads take from it:
`Insert` puts a request behind those of its priority, and `AddSuckRequest` takes one that
gains priority out first. Primaries and retrieval threads are finitely many.

Abstractions: a zone is its serial, and serials do not wrap; a version is identified
by its serial; the refresh time of a zone and the time a failed zone is left alone may
run out at any moment; a failure is any of the dozen early returns and exceptions of
`suck()` at the point where it leaves, including `setFresh` after the commit; `d_any_sem` only shortens a pause and is left
out. Failures, crashes, lost packets and commands of the operator are counted in
`events` and bounded together by `MaxEvents`.

### AuthCaches

Questions are answered by workers: a `Miss` in the packet cache, a lookup in the query
cache or the database, the insertions into both, and the cleaning that insertions set
off. Purgers commit a change and purge the query cache, then the packet cache, or one
name, or everything. The counter `packetcache-size` is changed where the code changes
it: within the critical section by insertions, after it by `CleanupEnd` and `Subtract`,
before it by `StoreZero`. The packet cache is the sequence of its entries, oldest
first; `Without` takes names out and keeps the order. Workers and purgers are finitely
many. A zone is reduced to its version; entries may expire at any moment. `clean` and
`cleared` are history variables.

The code splits each cache into shards with a map and a lock each; the model has one map.
So `Cleanup` takes one expired entry at the head, which is what a pass over a tenth of a
small map does, and `InsertPacket` drops the oldest entry of all, where the code drops
the oldest of the shard it has inserted into. Which entry goes is thereby narrower than in the
code; how many go, and when they are subtracted from the counter, is the same.

### ZoneCache

Threads that create, delete or renew a zone change the backend (`Create`, `Delete`,
`Renew`), then log the change if a replacement is pending (`Log`), then change the map
(`Write`). A refresh is `SetReplacePending`, `Collect` (or `CollectFails`), `Replace`,
one `SwapMap` per map, `EndReplace`; from `Replace` to `EndReplace` it holds the lock
that `Log` and `SetReplacePending` need. The main thread refreshes; `Rediscoverers`
are threads that do so for `pdns_control rediscover`. `External` is another program
that changes the backend. Every zone has a map of its own; a zone created again has a
new id. `unsure` (zones whose last change overlapped with another) and `raced` are
history variables.

## 4. Runs

`TypeOK` is the type invariant of each module (that of `ZoneCache` is proved and not
checked again by a run). All runs check for deadlock except
where the cfg says that the system may stop (the queries of the small instance are
used up).

| Run | Shows | Bounds |
|---|---|---|
| `idstates` | `GuardDiscipline`, `OutstandingExact`, `Conserved`, `ImplementsInFlight` when saves, responses, restores, failed sends and timeouts meet on a slot; `NotTimedOutEarly`: a query stored between the scan's look and its recheck is not timed out; `EventuallyResolved` | three queries for one slot, so that it is reused twice; the backend may be silent |
| `idmap` | `OutstandingIsSize`, `ImplementsInFlight`, `EventuallyResolved` for the map | two clients, three queries for two IDs |
| `backend_lazy` | `FailedMeansDown`, `DownOnlyAfterFall`, `UpOnlyAfterRise`, `ProbesOnSchedule` | back-off long enough to reach its maximum; two good checks needed; slow checks and lost ones; `consecutiveSuccessfulChecks` wraps, so that the back-off is also computed for no failure at all; an operator who overrides, marks up and down and changes the mode, twice (`MaxActs`), so that the mode can be changed and changed back |
| `backend_live` | `RisesAgain` in the active mode, `EventuallyMarkedDown` in both, `ResponderEndsIfRoutable` | broken paths, a client that competes for the reconnection, one change of mode, removal at any time |
| `backend_healthy`, `backend_stop_broken` | violations of `HealthyMeansUp`, `ResponderEnds`: see below | as `backend_lazy`, `backend_live` |
| `outgoing_chain` | `NobodyLeftBehind`, `OneOpenHead`, `SocketsAccounted`, `ChainNumbered`, `AnswersWhatWasAsked` | three mthreads, five queries in all, two subnets: chains for both, members that ask again while their chain is woken, entries left over by members that are gone; four IDs, drawn freely, so that both distinct and coinciding ones occur; chains limited to two |
| `outgoing_woken` | `EveryoneWoken` | three mthreads, six queries, unlimited chains; no response has to come |
| `replication` | `OneTransferPerZone`, `WakeupsMatch`, `ImplementsReplicatedZone`, `NeverGoesBack`, `EventuallyInSync`, `NotifyHonoured` for a primary and a secondary with two retrieval threads | one change of the zone and one event (`MaxEvents`): a packet lost, a fault (failed transfer or check, crash, restart of the primary), a zone signed anew, or a transfer the operator asks for; a NOTIFY is sent twice |
| `caches` | `SizeExact`, `PurgeEffective`, `EventuallyFresh` | two questions, one purger, one change of the zone; room for one of two answers |
| `zonecache` | `Coherent`, `SizeExact`, `EventuallyCoherent` | the main thread refreshes; two zones, two writers, three operations so that two can meet on a zone that a third one changed; one failed attempt |
| `zonecache_rediscover` | violation of `AssertionHolds`: see below | one more thread that refreshes |

The bounds are small because every hazard of these components needs few actors:
two that meet on a slot, a chain or a lock and a third that changes the state in
between. One case needs more than TLC checks in minutes: a crash between two differences of an
incremental transfer (two changes of the zone in `replication`); it is covered by the
theorem `TransfersImplementReplicatedZone`.

Fairness: threads that have something to do get on with it (`WF` on each thread's
steps; a guard is never waited for, and locks are held for a bounded time), and the
health-check thread, the kernel loop and the main threads of the authoritative server
come round by their timers. In `AuthReplication` it is enough that some retrieval
thread and some primary go on; a packet that is not lost arrives; refresh times are
not assumed, `EventuallyInSync` is conditional on them. In `AuthCaches` entries expire.
Nothing obliges clients to send, servers to answer, operators to act or broken paths
to recover.

### What the code does differently from what is said of it

- `backend_healthy`: the lazy mode says `Healthy`, and stops checking, although the
  reconnection failed and the backend stays down. The guide says it is "moved back to
  the Healthy state and marked as up again".
- `backend_stop_broken`: the responder of a backend that is removed while its socket
  is not connected waits for ever. The changelog: "Stop the related responder thread
  when a backend is removed".
- `zonecache_rediscover`: `replace()` asserts that a replacement is pending ("make sure we
  never forget to call setReplacePending()"). The flag is shared by the refresh of the
  main thread and by `pdns_control rediscover`, which the control channel carries out:
  when both are under way, the first to finish clears it, and the assertion of the
  other one ends the server.

Also seen, without a run of its own:

- In the `PotentialFailure` state a check is sent in every round
  (`RoundPotentialFailure`); the guide says every `checkInterval` seconds.
- The key of a chained waiter of the recursor ignores the client subnet. When the
  random IDs of members of two chains coincide (1 in 65536), a member is woken with the
  response for the other subnet. The other ID may also be that of an entry that a member
  left in its chain when it timed out before its head. `AnswersWhatWasAsked` therefore makes
  its claim about subnets for questions whose IDs have not coincided; without this
  reservation it fails within the bounds of `outgoing_chain`.
- A failed backend that the active mode has brought up is `Failed` and up when the operator
  goes back to the lazy mode (`setLazyAuto` does not touch the lazy state): it gets queries
  while it is only probed with the back-off. Nothing is written about what should
  happen; `FailedMeansDown` leaves such a state out (`switched`).
- `lazyHealthCheckFailedInterval = 0` with the exponential back-off is accepted by the
  configuration, and `updateNextLazyHealthCheck` divides by it
  (`dnsdist-backend.cc:800`); `BackOffAssumption` excludes it.
- `packetcache-size` wraps when a purge of everything stores 0 between an erasure and
  its subtraction; `SizeExact` without the condition `~cleared` shows it. From then on
  every insertion drops an answer, until the next purge of everything.
- Flushing a zone that is not in the backend any more leaves it in the zone cache until
  the next refresh: `apiServerCacheFlush` removes the name of a `DomainInfo` that was
  not filled (`Renew`).
- With two primaries, a late request for the one that lags behind makes a zone go
  back, since `suck()` does not compare serials; `NeverGoesBack` is stated for one.

Hazards met while reading that no property is about, besides those in `PROJECT.json`:
the limit on outstanding queries of a backend is checked before the count grows
(`dnsdist-backend.cc:1056`); `currentCheckFailures` wraps after 65535 failed probes
(`dnsdist.hh:761`); a `lazyHealthCheckMinSampleCount` above the sample size is accepted, and
the backend is then never suspected (`dnsdist-backend.cc:717`); `reconnect()` of a backend
with several sockets may throw half-way (`dnsdist-backend.cc:126`); thread numbers of
the MTasker overflow after 2^31 mthreads (`mtasker.hh:412`); a zone that two backends list
is counted twice (`auth-zonecache.cc:157`); the limit of the distributor's queue ends the
process (`distributor.hh:354`); the capacity of a shard of dnsdist's packet cache is
checked before its lock is taken (`dnsdist-cache.cc:182`).

## 5. Proofs

A module `X_proofs` proves theorems about the specification of `X` for every value of its
constants that satisfies the named assumptions. The assumptions are about types, about
placeholders that are not members of the sets they stand beside (`NoQuery`, `Nothing`, ...),
about the finiteness of the sets that are counted (IDs, primaries, threads), and, in
`BackendHealth`, about the values of parameters: those the parser lets through
(`checkParameterBound`: the integer types' upper bounds and nothing else), an interval other
than 0 where the back-off divides by it (no proof uses this), counters that reach beyond
`minRiseSuccesses` and `maxCheckFailures`, as the code's integer types do. Every
invariant, refinement and action property of the passing runs is proved this way, except
those named at the end of this section.

`IDStates_proofs` proves, for any threads, queries, sockets and any positive number
of slots, `TypeCorrect`, `GuardsExclude`, `OutstandingIsExact`, `Conservation`,
`SlotsImplementInFlight` and `TimeoutsAreDue`. The inductive invariant is

    IInv == /\ TypeOK /\ AgeBounded /\ GuardDiscipline /\ OutstandingExact
            /\ Placed /\ Unshared /\ Kept /\ AgeFollowsScans

`GuardDiscipline` is needed to know that the thread at a guarded point is the only
one that changes the slot's `inUse` and its contribution to `outstanding`; it says, too,
that a restore still finds its slot in use, and a timeout still finds it free, when
they come to count. `AgeBounded` (the scan increments only an age it has just found
within the timeout) gives the bound on `age` in `TypeOK`. `OutstandingExact` compares
`outstanding` with a cardinality; each action adds one slot to the counted set,
removes one or leaves it alone, which three lemmas about cardinalities turn into
arithmetic. `Placed` says which threads have a query in hand, `Unshared` that no query is in
two places, `Kept` that those somewhere are the pending ones. `Conserved` counts places and
follows from them; and they show that whoever resolves a query resolves a pending one,
which is what each step of the refinement needs. `AgeFollowsScans` bounds the age of a slot
by the scans its query has seen, also while the scan is between its look and its
increment.

`IDStatesMap_proofs` proves `TypeCorrect`, `OutstandingIsMapSize` and
`MapImplementsInFlight` from

    IInv == Types /\ OutstandingIsSize /\ Placed /\ Unshared /\ Kept

with the same three parts. That the counter does not go below zero is not part of `Types`:
it follows from `OutstandingIsSize`.

`BackendHealth_proofs` proves, for every configuration that satisfies the named
assumptions, `FailedIsDown`, `RiseIsEarned`, `FallIsEarned` and `TypeCorrect`. The inductive
invariant of the first three is

    HInv == DecisionTypes /\ CountersHonest /\ DecisionsFounded /\ LazyAgrees

`CountersHonest` ties the code's counters to the history of results, `DecisionsFounded`
says what a decision under way (and a reconnection under way) is founded on, and
`LazyAgrees` relates the lazy state to the up status and to that decision, unless the
operator has `switched` since: `FailedIsDown` holds through mode changes in so far as the
next fall or rise in the lazy mode makes it hold again. None of the
three theorems follows from its own property alone: a status change happens one or
more steps after the result it rests on. `TypeCorrect` adds `RestTypes`, in which the bounds
of the sample and of the schedule are the point: the sample is cut after every report,
also one of several timeouts at once, and the back-off is limited after the
multiplication. The bound of the schedule is the largest of `checkInterval`,
`lazyHealthCheckFailedInterval` and `lazyHealthCheckMaxBackOff`, in whatever order they are. `ShiftAssumption` (powers of two up to 2^30 are natural numbers) is there
because the prover knows nothing of powers; TLC evaluates it.

`OutgoingQueries_proofs` proves, for any mthreads, questions, subnets, IDs, sockets and limits,
also when IDs coincide, `TypeCorrect`, `ChainsWakeTheirMembers`, `QueriesAreShared`,
`SocketsAreGivenBack`, `ChainsAreNumbered` and `AnswersMatchQuestions`. The inductive invariant joins the properties with

    Unique(waiters) /\ Waiting /\ ClosedHandled /\ HandledHead /\ HandledContent
    /\ HeadsOpen /\ SocketsHeld /\ SocketsCounted /\ ChainsFinite /\ SameQuestion

which are mostly about a response half dealt with, while mthreads that were woken run and ask
again: a chain is closed only then (`ClosedHandled`), its head is still there
(`HandledHead`), the socket stays open until the end unless there was an error
(`HandledContent`), in which case the descriptor may already be someone else's (`HeadsOpen`).
`NobodyLeftBehind` needs all of it: a chain that could be joined after it was
closed, or whose head was gone, would keep a member waiting. `AnswersMatchQuestions` adds
`SubnetInv`: whoever an entry of a chain finds has asked for the subnet of the head, also if
the entry was made by a waiter that is gone. It is kept because a query whose ID is new for
its question fits no entry but its own, and joins a chain of its own subnet only.

`AuthReplication_proofs` proves, for any primaries, zones, retrieval threads, failures and
crashes, `TypeCorrect`, `TransfersExclude`, `NoWakeupIsLost`,
`TransfersImplementReplicatedZone` and `OnePrimaryNeverGoesBack`. The work is in
`ZoneTransfers_proofs`, which holds the lemmas about the secondary alone, each for a step
of it or an event elsewhere; the invariant is

    IInv == /\ TypeOK /\ CheckKnown /\ RequestKnown /\ OneTransferPerZone
            /\ WakeupsMatch /\ VersionsKnown

`TypeOK` has the uniqueness of requests in the queue. `RequestKnown` and `CheckKnown` say that a
thread or a check under way has a request and a primary. `VersionsKnown` says of each
transfer under way that it is still based on the serial stored and applies every difference
to the version it is a difference to, which rests on `OneTransferPerZone`; so `pure`
never becomes false, and every commit is a step of `ReplicatedZone`. With one primary what
is about to be committed is not older than what is stored, although `suck()` does not compare
serials: a primary's serial only grows, and a second transfer is excluded.

`AuthCaches_proofs` proves, for any names, workers, purgers and sizes, `TypeCorrect`,
`SizeIsExact` and `PurgeIsEffective` from

    IInv == /\ TypeOK /\ WorkersKnown /\ VersionsKnown /\ PurgesKnown
            /\ SettledWhenPurged /\ PurgeEffective /\ SizeExact

`SettledWhenPurged` is the reason why the order of the two purges matters: once the query
cache is purged and no worker holds an old version, neither can bring one back before the
packet cache is purged. `SizeExact` counts what is removed and not yet subtracted as a
set of pairs, so that an addition to it is one to a cardinality.

`ZoneCache_proofs` proves `TypeCorrect` for any number of refreshing threads and, when
only the main thread refreshes (`Alone`), `AssertionSafe`, `ZoneCoherent` and
`SizeIsExact`, for any zones, writers and bounds. So the violation above needs a
rediscover, and races between writers and the refresh are excluded for good. The
inductive invariant of coherence says of each zone that is not `unsure`

    OneThread(z) /\ StoresWhatIs(z) /\ CollectsWhatIs(z) /\ HoldsWhatIs(z)

that is: at most one thread is busy with it, which will store what the backend holds;
unless that thread has still to log its change, the new map will hold the same,
whether it comes from the list or from the last update kept (`WillHold`); and without a
busy thread the map holds it already. `Coherent` is the last part, and needs the others:
a replacement completed now rests on a list read and updates kept several steps ago.
For the counter, `StoresTheSame` and `Replaced` say that what writers store while the
maps are being moved in is what the new maps hold, so that the number stored at the end
is right.

Only model-checked:

- liveness (`EventuallyResolved`, `RisesAgain`, `EventuallyMarkedDown`,
  `ResponderEndsIfRoutable`, `EveryoneWoken`, `EventuallyInSync`, `NotifyHonoured`,
  `EventuallyFresh`, `EventuallyCoherent`), which needs fairness and `ENABLED` and is out of the
  prover's reach;
- `ProbesOnSchedule`: the back-off doubles, and the provers have no arithmetic of powers nor
  induction to give them one; besides, it holds only while `FailBound` lies beyond the number
  of failures that reaches `MaxBackOff`, as it does in the run;
- `Coherent` and `SizeExact` of the zone cache with a `rediscover` under way: the proofs are about
  the main thread alone, since the assertion of `replace()` fails otherwise.

## 6. Not modelled

Configuration, logging, metrics, the Lua, web and console interfaces, packet
parsing and rewriting, cryptography and database backends are input, output or data
and are left out. Memory orderings weaker than sequential consistency are not
modelled (the atomics of the table use the default ordering; `upStatus` is a single
relaxed flag). Data races on the structure of a container (`d_nqueue` of the primary
communicator, which several threads change without a lock) have no bounded set of
outcomes and are only listed as hazards. Of the replication, catalog zones,
autosecondary operation and renotification are left out; of the caches, views and
several backends. The resolution algorithm of the recursor, the lookup logic of the
packet handler and the backends are sequential and driven by data. The remaining components are listed in `PROJECT.json` with their place
in the plan.
