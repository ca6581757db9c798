---------------------------- MODULE BackendHealth ----------------------------
(***************************************************************************)
(* Whether a dnsdist backend gets queries: the health checks that mark it  *)
(* up or down, in the active and in the lazy mode, the reconnection of its *)
(* UDP socket, which the health-check thread and the client threads        *)
(* compete for, the responder thread that waits for that connection, and   *)
(* what an operator may do to the backend meanwhile.                       *)
(*                                                                         *)
(* Time is counted in rounds of the health-check thread, one per second.   *)
(* Queries in flight are only counted: they time out in the second round   *)
(* after they were sent (the table that holds them is module IDStates).    *)
(* The environment decides whether the server is alive and routable.       *)
(*                                                                         *)
(* Definitions named X_Y are mutations of X.                               *)
(***************************************************************************)
EXTENDS Integers, Sequences, FiniteSets

CONSTANTS Clients,          \* threads that send queries
          Health,           \* the health-check thread
          NoThread,
          StartMode,        \* healthCheckMode of the configuration
          MinRise,          \* minRiseSuccesses (rise)
          MaxCheckFailures, \* maxCheckFailures
          CheckInterval,    \* checkInterval
          CheckTimeout,     \* checkTimeout, in seconds
          FailedInterval,   \* lazyHealthCheckFailedInterval
          MaxBackOff,       \* lazyHealthCheckMaxBackOff
          UseBackOff,       \* lazyHealthCheckUseExponentialBackOff
          SampleSize,       \* lazyHealthCheckSampleSize
          MinSampleCount,   \* lazyHealthCheckMinSampleCount
          Threshold,        \* lazyHealthCheckThreshold, in percents
          CountServFail,    \* lazyHealthCheckMode is TimeoutOrServFail
          ReconnectOnUp,    \* reconnectOnUp
          RiseWidth,        \* consecutiveSuccessfulChecks wraps here (256)
          AdminOps,         \* what the operator does
          Flaky,            \* the network path may break
          Lossy,            \* checks and sends may fail for other reasons
          MaxActs,          \* bound: how often the operator acts
          MaxInFlight,      \* bound: queries in flight
          FailBound         \* bound: currentCheckFailures stops here

ASSUME HealthAssumption ==
    /\ Health \notin Clients
    /\ NoThread \notin Clients \cup {Health}
ASSUME CheckAssumption ==
    /\ StartMode \in {"Active", "Lazy"}
    /\ MinRise \in Nat
    /\ MaxCheckFailures \in Nat
    /\ CheckInterval \in Nat
    /\ CheckTimeout \in Nat
\* What checkParameterBound lets through.
ASSUME LazyAssumption ==
    /\ FailedInterval \in Nat /\ FailedInterval < 65536
    /\ MaxBackOff \in Nat /\ MaxBackOff < 65536
    /\ SampleSize \in Nat /\ SampleSize < 65536
    /\ MinSampleCount \in Nat /\ MinSampleCount < 65536
    /\ Threshold \in Nat /\ Threshold < 256
    /\ {UseBackOff, CountServFail, ReconnectOnUp, Flaky, Lossy} \subseteq BOOLEAN
\* The back-off divides by the interval, which nothing keeps from being 0.
ASSUME BackOffAssumption == UseBackOff => FailedInterval # 0
ASSUME BoundAssumption ==
    /\ RiseWidth \in Nat
    /\ RiseWidth > MinRise
    /\ MaxInFlight \in Nat
    /\ MaxActs \in Nat
    /\ FailBound \in Nat
    /\ FailBound > MaxCheckFailures
    /\ AdminOps \subseteq {"up", "down", "auto", "autoUp", "autoDown",
                           "active", "lazy", "stop"}

VARIABLES
    availability, mode, upStatus,
    status, lastResults,    \* LazyHealthCheckStats
    wait,                   \* seconds until its nextCheck
    nextCheck,              \* countdown of the active mode
    fails, rises,           \* currentCheckFailures, consecutiveSuccessfulChecks
    newState,               \* what the health-check thread is about to store
    connected, connectLock, stopped,
    shut,                   \* the sockets have been shut down by stop()
    pc,                     \* of the health-check and client threads
    responder,              \* where the responder thread is
    fresh, old,             \* queries in flight: sent since the last round, before
    alive, routable,        \* environment
    okRun, failRun,         \* history: consecutive good and bad checks
    marked,                 \* history: the operator set upStatus since the last result
    acts,                   \* history: how often the operator has acted
    switched,               \* history: the operator changed the mode, or marked the
                            \* backend up, since checks last set the lazy state
    since,                  \* history: seconds since the last check, or the fall
    due,                    \* history: when the documentation has the next probe
    lost                    \* history: the last probe got lost

statusVars  == <<availability, mode, upStatus>>
lazyVars    == <<status, lastResults, wait>>
countVars   == <<fails, rises, newState>>
connectVars == <<connected, connectLock, responder>>
stopVars    == <<stopped, shut>>
flightVars  == <<fresh, old>>
envVars     == <<alive, routable>>
runVars     == <<okRun, failRun, marked, acts, switched>>
timeVars    == <<since, due, lost>>
vars == <<statusVars, lazyVars, nextCheck, countVars, connectVars, stopVars,
          pc, flightVars, envVars, runVars, timeVars>>

Capped(n, bound) == IF n < bound THEN n ELSE bound
Larger(m, n)     == IF m < n THEN n ELSE m

Threads  == Clients \cup {Health}
WaitMax  == Larger(Larger(MaxBackOff, FailedInterval), CheckInterval)
SinceMax == WaitMax + CheckTimeout + 2

StatusTypes ==
    /\ availability \in {"Auto", "Up", "Down"}
    /\ mode \in {"Active", "Lazy"}
    /\ upStatus \in BOOLEAN
    /\ newState \in BOOLEAN
    /\ fails \in 0 .. FailBound
    /\ rises \in 0 .. RiseWidth - 1
    /\ nextCheck \in 0 .. CheckInterval

LazyTypes ==
    /\ status \in {"Healthy", "PotentialFailure", "Failed"}
    /\ lastResults \in Seq(BOOLEAN)
    /\ Len(lastResults) <= SampleSize
    /\ wait \in 0 .. WaitMax

ConnectionTypes ==
    /\ connected \in BOOLEAN /\ stopped \in BOOLEAN /\ shut \in BOOLEAN
    /\ alive \in BOOLEAN /\ routable \in BOOLEAN
    /\ connectLock \in Threads \cup {NoThread}
    /\ pc \in [Threads -> {"idle", "await", "decide", "picked", "connect", "start"}]
    /\ responder \in {"off", "loop", "recv", "wait", "exited"}
    /\ fresh \in 0 .. MaxInFlight
    /\ old \in 0 .. MaxInFlight

HistoryTypes ==
    /\ okRun \in 0 .. MinRise
    /\ failRun \in 0 .. MaxCheckFailures
    /\ marked \in BOOLEAN
    /\ acts \in 0 .. MaxActs
    /\ switched \in BOOLEAN /\ lost \in BOOLEAN
    /\ since \in 0 .. SinceMax
    /\ due \in 0 .. SinceMax

\* The types of all variables: the sample of the lazy mode never outgrows its
\* size, and no check is scheduled further away than the configuration allows.
TypeOK == StatusTypes /\ LazyTypes /\ ConnectionTypes /\ HistoryTypes

-----------------------------------------------------------------------------
(* Scheduling of the checks.                                               *)

Lazy == mode = "Lazy"
IsUp == availability = "Up" \/ (availability = "Auto" /\ upStatus)

Shift(n) == 2 ^ n

\* A fact of arithmetic that the proofs need.
ASSUME ShiftAssumption == \A n \in 0 .. 30 : Shift(n) \in Nat

\* ExponentialBackOffTimer::get(n - 1), n being a uint16_t. It shifts by 31 at most;
\* MaxBackOff is a uint16_t too, so a shift by 31 yields MaxBackOff as well.
BackOffCoefficient(n) ==
    IF n \in 1 .. 31 THEN Capped(Shift(n - 1), MaxBackOff) ELSE MaxBackOff

BackOff(n) == Capped(FailedInterval * BackOffCoefficient(n), MaxBackOff)

\* updateNextLazyHealthCheck for a backend in state st with the given counters:
\* the seconds until the next check. scheduled: one is being sent right now.
NextLazyCheck_NotCounted(st, good, bad, scheduled) ==
    IF UseBackOff /\ st # "PotentialFailure" /\ good = 0
    THEN BackOff(bad) ELSE FailedInterval

NextLazyCheck(st, good, bad, scheduled) ==
    CASE ~UseBackOff -> FailedInterval
      [] UseBackOff /\ st = "PotentialFailure" -> CheckInterval
      [] UseBackOff /\ st # "PotentialFailure" /\ good > 0 -> FailedInterval
      [] OTHER -> BackOff(IF scheduled THEN bad + 1 ELSE bad)

\* The circular buffer: the last SampleSize results.
Recent_KeepFirst(results) ==
    SubSeq(results, 1, Capped(Len(results), SampleSize))

Recent_Grow(results) == results

Recent(results) ==
    SubSeq(results, Larger(1, Len(results) - SampleSize + 1), Len(results))

\* reportTimeoutOrError and reportResponse, n times.
Reported(n, failure) ==
    IF availability = "Auto" /\ Lazy
    THEN Recent(lastResults \o [i \in 1 .. n |-> failure])
    ELSE lastResults

\* With nothing in the sample the rate is not a number, which is not above anything.
Tripped(results) ==
    LET failures == Cardinality({i \in 1 .. Len(results) : results[i]})
    IN  /\ results # <<>>
        /\ Len(results) >= MinSampleCount
        /\ 100 * failures >= Threshold * Len(results)

\* When the documentation has the first probe of a backend that has just failed.
FirstDue == IF UseBackOff THEN Capped(FailedInterval, MaxBackOff) ELSE FailedInterval

\* The initial check has been made: its result sets the status at once.
Init ==
    /\ availability = "Auto"
    /\ mode = StartMode
    /\ upStatus \in BOOLEAN
    /\ fails = IF upStatus THEN 0 ELSE 1
    /\ rises = 0
    /\ status = IF ~upStatus /\ Lazy THEN "Failed" ELSE "Healthy"
    /\ lastResults = <<>>
    /\ wait = IF ~upStatus /\ Lazy THEN NextLazyCheck("Failed", 0, 1, FALSE) ELSE 0
    /\ nextCheck = IF Lazy THEN 0 ELSE CheckInterval
    /\ newState = FALSE
    /\ connected \in IF Flaky THEN BOOLEAN ELSE {TRUE}
    /\ connectLock = NoThread
    /\ stopped = FALSE
    /\ shut = FALSE
    /\ pc = [t \in Threads |-> "idle"]
    /\ responder = IF connected THEN "loop" ELSE "off"
    /\ fresh = 0
    /\ old = 0
    /\ alive \in BOOLEAN
    /\ routable \in IF Flaky THEN BOOLEAN ELSE {TRUE}
    /\ okRun = 0
    /\ failRun = IF upStatus THEN 0 ELSE Capped(1, MaxCheckFailures)
    /\ marked = FALSE
    /\ acts = 0
    /\ switched = FALSE
    /\ since = 0
    /\ due = IF status = "Failed" THEN FirstDue ELSE 0
    /\ lost = FALSE

Goto(t, point) == pc' = [pc EXCEPT ![t] = point]

\* Without a schedule, only the length of a check is of interest.
Tick == since' = Capped(since + 1, IF due = 0 THEN CheckTimeout ELSE SinceMax)

-----------------------------------------------------------------------------
(* A round of the health-check thread: old queries time out, and a check   *)
(* is sent if healthCheckRequired says so.                                 *)

TimeoutQueries ==
    /\ old' = fresh
    /\ fresh' = 0

\* Seconds until the next lazy check once this round's second has passed.
Waited == Larger(0, wait - 1)

SendCheck ==
    /\ Goto(Health, "await")
    /\ since' = 0

RoundCommon ==
    /\ pc[Health] = "idle"
    /\ ~stopped
    /\ TimeoutQueries
    /\ UNCHANGED <<statusVars, fails, newState, connectVars, stopVars, envVars, runVars>>

\* Nothing to check, or not yet.
RoundQuiet ==
    /\ RoundCommon
    /\ \/ availability # "Auto"
       \/ Lazy /\ status = "Failed" /\ Waited > 0
       \/ Lazy /\ status = "Healthy" /\ ~Tripped(Reported(old, TRUE))
    /\ lastResults' = Reported(old, TRUE)
    /\ wait' = Waited
    /\ Tick
    /\ due' = IF availability = "Auto" THEN due ELSE 0
    /\ UNCHANGED <<status, nextCheck, rises, pc, lost>>

RoundActive ==
    /\ RoundCommon
    /\ availability = "Auto"
    /\ ~Lazy
    /\ IF nextCheck > 1
       THEN /\ nextCheck' = nextCheck - 1
            /\ Tick
            /\ UNCHANGED pc
       ELSE /\ nextCheck' = CheckInterval
            /\ SendCheck
    /\ lastResults' = Reported(old, TRUE)
    /\ wait' = Waited
    /\ UNCHANGED <<status, rises, due, lost>>

\* The failures of regular queries reached the threshold.
RoundTripped ==
    /\ RoundCommon
    /\ availability = "Auto"
    /\ Lazy
    /\ status = "Healthy"
    /\ Tripped(Reported(old, TRUE))
    /\ status' = "PotentialFailure"
    /\ lastResults' = <<>>
    /\ rises' = 0
    /\ wait' = NextLazyCheck("PotentialFailure", 0, fails, TRUE)
    /\ SendCheck
    /\ UNCHANGED <<nextCheck, due, lost>>

RoundPotentialFailure ==
    /\ RoundCommon
    /\ availability = "Auto"
    /\ Lazy
    /\ status = "PotentialFailure"
    /\ lastResults' = Reported(old, TRUE)
    /\ wait' = Waited
    /\ SendCheck
    /\ UNCHANGED <<status, nextCheck, rises, due, lost>>

\* What the documentation has between this probe of a failed backend and the
\* next one: the last interval doubled, up to the maximum. A probe that got lost
\* is not a failure.
NextDue ==
    CASE due = 0 \/ lost -> due
      [] due # 0 /\ ~lost /\ UseBackOff -> Capped(2 * due, MaxBackOff)
      [] OTHER -> FailedInterval

RoundFailed ==
    /\ RoundCommon
    /\ availability = "Auto"
    /\ Lazy
    /\ status = "Failed"
    /\ Waited = 0
    /\ lastResults' = Reported(old, TRUE)
    /\ wait' = NextLazyCheck("Failed", rises, fails, TRUE)
    /\ SendCheck
    /\ due' = NextDue
    /\ lost' = FALSE
    /\ UNCHANGED <<status, nextCheck, rises>>

Round == RoundQuiet \/ RoundActive \/ RoundTripped \/ RoundPotentialFailure \/ RoundFailed

-----------------------------------------------------------------------------
(* The result of a check: submitHealthCheckResult, in two parts because it *)
(* reads upStatus again before it acts on the new state.                   *)

\* A second passes before the result of the check is known.
SlowCheck ==
    /\ pc[Health] = "await"
    /\ since < CheckTimeout
    /\ Tick
    /\ wait' = Waited
    /\ UNCHANGED <<statusVars, status, lastResults, nextCheck, countVars, connectVars,
                   stopVars, pc, flightVars, envVars, runVars, due, lost>>

\* The event loop fails: the check is forgotten.
LostCheck ==
    /\ pc[Health] = "await"
    /\ Lossy
    /\ Goto(Health, "idle")
    /\ lost' = (due # 0)
    /\ UNCHANGED <<statusVars, lazyVars, nextCheck, countVars, connectVars, stopVars,
                   flightVars, envVars, runVars, since, due>>

ResultCommon ==
    /\ pc[Health] = "await"
    /\ Goto(Health, "decide")
    /\ UNCHANGED <<statusVars, nextCheck, connectVars, stopVars, flightVars, envVars>>

Good_KeepFails ==
    /\ rises' = (rises + 1) % RiseWidth
    /\ UNCHANGED fails

Good ==
    /\ rises' = (rises + 1) % RiseWidth
    /\ fails' = 0

GoodCheck ==
    /\ ResultCommon
    /\ alive
    /\ routable
    /\ Good
    /\ okRun' = Capped(okRun + 1, MinRise)
    /\ failRun' = 0
    /\ marked' = FALSE
    /\ UNCHANGED acts

\* The backend is down and needs more good checks.
StaysDown ==
    /\ GoodCheck
    /\ ~upStatus
    /\ rises' < MinRise
    /\ newState' = FALSE
    /\ wait' = IF Lazy THEN NextLazyCheck(status, rises', 0, FALSE) ELSE wait
    /\ since' = 0
    /\ due' = 0
    /\ lost' = FALSE
    /\ UNCHANGED <<status, lastResults, switched>>

Rises_KeepStatus ==
    /\ GoodCheck
    /\ upStatus \/ rises' >= MinRise
    /\ newState' = TRUE
    /\ due' = 0
    /\ lost' = FALSE
    /\ switched' = (switched /\ ~Lazy)
    /\ UNCHANGED <<lazyVars, since>>

Rises ==
    /\ GoodCheck
    /\ upStatus \/ rises' >= MinRise
    /\ newState' = TRUE
    /\ status' = IF Lazy THEN "Healthy" ELSE status
    /\ lastResults' = IF Lazy THEN <<>> ELSE lastResults
    /\ due' = 0
    /\ lost' = FALSE
    /\ switched' = (switched /\ ~Lazy)
    /\ UNCHANGED <<wait, since>>

Bad_KeepRises == UNCHANGED rises

Bad == rises' = 0

BadCheck ==
    /\ ResultCommon
    /\ Lossy \/ ~alive \/ ~routable
    /\ Bad
    /\ okRun' = 0
    /\ failRun' = Capped(failRun + 1, MaxCheckFailures)
    /\ marked' = FALSE
    /\ UNCHANGED acts

MoreFails == Capped(fails + 1, FailBound)

\* The backend is up and may fail a few more checks.
StaysUp == upStatus /\ MoreFails < MaxCheckFailures

SurvivesBadCheck ==
    /\ BadCheck
    /\ StaysUp
    /\ fails' = MoreFails
    /\ newState' = TRUE
    /\ UNCHANGED <<lazyVars, timeVars, switched>>

\* The lazy mode starts to count again once the backend has failed.
FallsLazy ==
    /\ BadCheck
    /\ upStatus
    /\ ~StaysUp
    /\ Lazy
    /\ status' = "Failed"
    /\ fails' = 1
    /\ wait' = NextLazyCheck("Failed", 0, 1, FALSE)
    /\ newState' = FALSE
    /\ since' = 0
    /\ due' = FirstDue
    /\ lost' = FALSE
    /\ switched' = FALSE
    /\ UNCHANGED lastResults

StillBad ==
    /\ BadCheck
    /\ ~StaysUp
    /\ ~(upStatus /\ Lazy)
    /\ fails' = MoreFails
    /\ newState' = FALSE
    /\ UNCHANGED <<lazyVars, timeVars, switched>>

NeedsReconnect == newState /\ (~connected \/ ReconnectOnUp)

SetUpStatus(new) ==
    /\ upStatus' = new
    /\ Goto(Health, "idle")
    /\ UNCHANGED <<availability, mode, lazyVars, nextCheck, countVars, stopVars,
                   flightVars, envVars, runVars, timeVars>>

\* Nothing changes, or the backend changes state without reconnecting.
Decide ==
    /\ pc[Health] = "decide"
    /\ newState # upStatus => ~NeedsReconnect
    /\ SetUpStatus(newState)
    /\ UNCHANGED connectVars

-----------------------------------------------------------------------------
(* reconnect(), by the health-check thread or by a client thread.          *)

CanReconnect == connectLock = NoThread /\ ~stopped

ReconnectUnchanged ==
    UNCHANGED <<statusVars, lazyVars, nextCheck, countVars, stopVars, flightVars,
                envVars, runVars, timeVars>>

\* The old socket goes, which wakes a responder that reads from it.
BeginReconnect(t) ==
    /\ CanReconnect
    /\ connectLock' = t
    /\ connected' = FALSE
    /\ responder' = IF responder = "recv" THEN "loop" ELSE responder
    /\ Goto(t, "connect")
    /\ ReconnectUnchanged

DecideReconnect ==
    /\ pc[Health] = "decide"
    /\ ~upStatus
    /\ NeedsReconnect
    /\ BeginReconnect(Health)

\* Another thread is reconnecting, or the backend is being removed.
DecideRefused ==
    /\ pc[Health] = "decide"
    /\ ~upStatus
    /\ NeedsReconnect
    /\ ~CanReconnect
    /\ SetUpStatus(FALSE)
    /\ UNCHANGED connectVars

Connected(t) ==
    /\ pc[t] = "connect"
    /\ routable
    /\ connected' = TRUE
    /\ connectLock' = NoThread
    /\ Goto(t, "start")
    /\ UNCHANGED responder
    /\ ReconnectUnchanged

Unlock_Keep == UNCHANGED connectLock

Unlock == connectLock' = NoThread

\* connect() fails: reconnect returns false.
ConnectFails ==
    /\ pc[Health] = "connect"
    /\ ~routable
    /\ Unlock
    /\ SetUpStatus(FALSE)
    /\ UNCHANGED <<connected, responder>>

ClientConnectFails(c) ==
    /\ pc[c] = "connect"
    /\ ~routable
    /\ Unlock
    /\ lastResults' = Reported(1, TRUE)
    /\ Goto(c, "idle")
    /\ UNCHANGED <<statusVars, status, wait, nextCheck, countVars, connected, responder,
                   stopVars, flightVars, envVars, runVars, timeVars>>

\* No socket can be had, or it cannot be bound: the exception takes the thread
\* past whatever follows the call of reconnect(). (So it is after a check over UDP; the
\* callback of TCP checks catches it and submits a failure, which is not modelled.)
ReconnectThrows(t) ==
    /\ pc[t] = "connect"
    /\ Lossy
    /\ Unlock
    /\ Goto(t, "idle")
    /\ UNCHANGED <<connected, responder>>
    /\ ReconnectUnchanged

\* start(): the first connection starts the responder thread.
Started == IF connected /\ responder = "off" THEN "loop" ELSE responder

\* reconnect() returns what connected has become.
HealthReturns ==
    /\ pc[Health] = "start"
    /\ responder' = Started
    /\ SetUpStatus(connected)
    /\ UNCHANGED <<connected, connectLock>>

ClientReturns(c) ==
    /\ pc[c] = "start"
    /\ responder' = Started
    /\ lastResults' = Reported(1, TRUE)
    /\ Goto(c, "idle")
    /\ UNCHANGED <<statusVars, status, wait, nextCheck, countVars, connected, connectLock,
                   stopVars, flightVars, envVars, runVars, timeVars>>

-----------------------------------------------------------------------------
(* Client threads: a backend that is up is picked, the query sent.         *)

Pick(c) ==
    /\ pc[c] = "idle"
    /\ IsUp
    /\ ~stopped
    /\ Goto(c, "picked")
    /\ UNCHANGED <<statusVars, lazyVars, nextCheck, countVars, connectVars, stopVars,
                   flightVars, envVars, runVars, timeVars>>

Send(c) ==
    /\ pc[c] = "picked"
    /\ connected
    /\ routable
    /\ ~shut
    /\ fresh + old < MaxInFlight
    /\ fresh' = fresh + 1
    /\ Goto(c, "idle")
    /\ UNCHANGED <<statusVars, lazyVars, nextCheck, countVars, connectVars, stopVars,
                   old, envVars, runVars, timeVars>>

\* No route, or no socket: the client reconnects if nobody else does.
SendReconnects(c) ==
    /\ pc[c] = "picked"
    /\ ~connected \/ ~routable
    /\ BeginReconnect(c)

\* The send failed and there is nothing to do about it.
SendError(c) ==
    /\ pc[c] = "picked"
    /\ \/ (~connected \/ ~routable) /\ ~CanReconnect
       \/ shut
       \/ Lossy
    /\ lastResults' = Reported(1, TRUE)
    /\ Goto(c, "idle")
    /\ UNCHANGED <<statusVars, status, wait, nextCheck, countVars, connectVars, stopVars,
                   flightVars, envVars, runVars, timeVars>>

-----------------------------------------------------------------------------
(* The responder thread.                                                   *)

ResponderUnchanged ==
    UNCHANGED <<statusVars, status, wait, nextCheck, countVars, connected, connectLock,
                stopVars, pc, envVars, runVars, timeVars>>

\* An answer: SERVFAIL counts as a failure if so configured.
Answer ==
    /\ responder = "recv"
    /\ alive
    /\ routable
    /\ responder' = "loop"
    /\ \E failure \in IF CountServFail THEN BOOLEAN ELSE {FALSE} :
          lastResults' = Reported(1, failure)
    /\ \/ fresh > 0 /\ fresh' = fresh - 1 /\ UNCHANGED old
       \/ old > 0 /\ old' = old - 1 /\ UNCHANGED fresh
    /\ ResponderUnchanged

ResponderStep ==
    /\ \/ responder = "loop" /\ stopped /\ responder' = "exited"
       \/ responder = "loop" /\ ~stopped /\ ~connected /\ responder' = "wait"
       \/ responder = "loop" /\ ~stopped /\ connected /\ responder' = "recv"
       \/ responder = "recv" /\ shut /\ responder' = "loop"
       \/ responder = "wait" /\ connected /\ connectLock = NoThread /\ responder' = "loop"
    /\ UNCHANGED <<lastResults, flightVars>>
    /\ ResponderUnchanged

-----------------------------------------------------------------------------
(* The operator, through the console or the configuration.                 *)

Act(op) ==
    /\ op \in AdminOps
    /\ acts < MaxActs
    /\ acts' = acts + 1

AdminUnchanged ==
    UNCHANGED <<lazyVars, nextCheck, countVars, connectVars, stopVars, pc, flightVars,
                envVars, okRun, failRun, timeVars>>

SetAvailability ==
    /\ \/ Act("up") /\ availability' = "Up"
       \/ Act("down") /\ availability' = "Down"
       \/ Act("auto") /\ availability' = "Auto"
    /\ UNCHANGED <<mode, upStatus, marked, switched>>
    /\ AdminUnchanged

SetAuto ==
    /\ \/ Act("autoUp") /\ upStatus' = TRUE /\ switched' = TRUE
       \/ Act("autoDown") /\ upStatus' = FALSE /\ UNCHANGED switched
    /\ availability' = "Auto"
    /\ marked' = TRUE
    /\ UNCHANGED mode
    /\ AdminUnchanged

SetMode ==
    /\ \/ Act("active") /\ mode' = "Active"
       \/ Act("lazy") /\ mode' = "Lazy"
    /\ availability' = "Auto"
    /\ switched' = TRUE
    /\ UNCHANGED <<upStatus, marked>>
    /\ AdminUnchanged

\* rmServer: stop() first says so, then shuts the sockets down under the lock.
Stop ==
    /\ Act("stop")
    /\ stopped' = TRUE
    /\ UNCHANGED <<statusVars, lazyVars, nextCheck, countVars, connectVars, shut, pc,
                   flightVars, envVars, okRun, failRun, marked, switched, timeVars>>

ShutSockets_Skip == UNCHANGED shut

ShutSockets == shut' = connected

StopShutdown ==
    /\ stopped
    /\ ~shut
    /\ connectLock = NoThread
    /\ ShutSockets
    /\ UNCHANGED <<statusVars, lazyVars, nextCheck, countVars, connectVars, stopped, pc,
                   flightVars, envVars, runVars, timeVars>>

-----------------------------------------------------------------------------
(* The environment.                                                        *)

Environment ==
    /\ \/ alive' = ~alive /\ UNCHANGED routable
       \/ Flaky /\ routable' = ~routable /\ UNCHANGED alive
    /\ UNCHANGED <<statusVars, lazyVars, nextCheck, countVars, connectVars, stopVars, pc,
                   flightVars, runVars, timeVars>>

HealthNext ==
    \/ Round
    \/ SlowCheck
    \/ LostCheck
    \/ StaysDown
    \/ Rises
    \/ SurvivesBadCheck
    \/ FallsLazy
    \/ StillBad
    \/ Decide
    \/ DecideReconnect
    \/ DecideRefused
    \/ Connected(Health)
    \/ ConnectFails
    \/ ReconnectThrows(Health)
    \/ HealthReturns

ClientSends(c) ==
    \/ Send(c)
    \/ SendReconnects(c)
    \/ SendError(c)
    \/ Connected(c)
    \/ ClientConnectFails(c)
    \/ ReconnectThrows(c)
    \/ ClientReturns(c)

AdminNext == SetAvailability \/ SetAuto \/ SetMode \/ Stop

Next ==
    \/ HealthNext
    \/ \E c \in Clients : Pick(c) \/ ClientSends(c)
    \/ Answer
    \/ ResponderStep
    \/ AdminNext
    \/ StopShutdown
    \/ Environment

Spec == Init /\ [][Next]_vars

\* Threads keep running; nobody has to send queries, answer, or administrate.
FairSpec ==
    /\ Spec
    /\ WF_vars(HealthNext)
    /\ \A c \in Clients : WF_vars(ClientSends(c))
    /\ WF_vars(ResponderStep)
    /\ WF_vars(StopShutdown)

-----------------------------------------------------------------------------
(* Properties.                                                             *)

\* Between two results, a lazily checked backend in the Failed state is down: it does
\* not get queries while only the slow probes look at it. This does not hold for a state
\* from before the operator changed the mode or marked the backend up: the active mode
\* brings a failed backend up without telling the lazy one, which finds itself Failed and
\* up when the operator changes back; from the next fall or rise on it holds again.
FailedMeansDown ==
    ~switched /\ mode = "Lazy" /\ status = "Failed" /\ pc[Health] # "decide"
        => ~upStatus

\* The health-check thread takes a backend down only after maxCheckFailures
\* failed checks in a row, in spite of mode changes and of the times it reads
\* upStatus again: before it stores the new state, and after the reconnection.
\* (An operator who sets upStatus between these may see it changed at once.)
DownOnlyAfterFall ==
    [][upStatus /\ ~upStatus' /\ pc' # pc /\ ~marked
          => failRun = MaxCheckFailures]_vars

\* The health-check thread brings a backend up only after minRiseSuccesses
\* successful checks in a row, with the same reservation.
UpOnlyAfterRise ==
    [][~upStatus /\ upStatus' /\ pc' # pc /\ ~marked
          => okRun = MinRise]_vars

\* Probes of a failed backend follow the documented schedule: the first one
\* lazyHealthCheckFailedInterval after the fall, then after twice that time and so
\* on up to lazyHealthCheckMaxBackOff (or regularly, without the back-off); a probe
\* that gets lost repeats the interval. Only a check that takes longer than that delays
\* the next one. The schedule starts with the fall, ends with the first good check, and
\* is off while the operator keeps the backend from being checked.
ProbesOnSchedule ==
    [][RoundFailed /\ due # 0 /\ ~switched
          => since + 1 \in due .. Larger(due, CheckTimeout + 1)]_vars

\* In the lazy mode, Healthy (no more checks) means that the backend is up.
HealthyMeansUp ==
    mode = "Lazy" /\ status = "Healthy" /\ pc[Health] = "idle" => upStatus

\* In the active mode a backend that stays alive and reachable is up in the end,
\* also when clients and the health-check thread compete for the reconnection.
Checked == availability = "Auto" /\ ~stopped

RisesAgain == <>[](alive /\ routable /\ mode = "Active" /\ Checked) => <>[]upStatus

\* A backend that stays dead is marked down in the end, unless nobody sends it
\* queries any more; also after the operator has changed its mode or marked it.
Abandoned == fresh + old = 0 /\ \A c \in Clients : pc[c] = "idle"

EventuallyMarkedDown ==
    <>[](~alive /\ Checked) => <>[](~upStatus \/ Abandoned)

\* Once the backend is removed its responder thread ends.
ResponderEnds == stopped ~> responder \in {"off", "exited"}

\* At least it does where the path to the backend was never broken.
ResponderEndsIfRoutable == []routable => ResponderEnds

=============================================================================
