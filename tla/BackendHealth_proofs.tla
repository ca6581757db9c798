------------------------ MODULE BackendHealth_proofs ------------------------
(***************************************************************************)
(* Proofs about BackendHealth for every configuration of the checks and    *)
(* every number of client threads.                                         *)
(***************************************************************************)
EXTENDS BackendHealth, SequenceTheorems, TLAPS

\* The types of what the decisions depend on.
DecisionTypes ==
    /\ StatusTypes
    /\ connected \in BOOLEAN
    /\ status \in {"Healthy", "PotentialFailure", "Failed"}
    /\ pc \in [Threads -> {"idle", "await", "decide", "picked", "connect", "start"}]
    /\ okRun \in 0 .. MinRise
    /\ failRun \in 0 .. MaxCheckFailures
    /\ marked \in BOOLEAN
    /\ switched \in BOOLEAN

\* The counters of the code never run ahead of the checks that were made.
CountersHonest ==
    /\ rises <= okRun \/ okRun = MinRise
    /\ fails <= failRun \/ failRun = MaxCheckFailures

\* What is known about the new state while the health-check thread acts on it.
DecisionsFounded ==
    /\ pc[Health] = "decide" /\ newState /\ ~upStatus /\ ~marked
          => okRun = MinRise
    /\ pc[Health] = "decide" /\ ~newState /\ upStatus /\ ~marked
          => failRun = MaxCheckFailures
    /\ pc[Health] \in {"connect", "start"}
          => /\ newState
             /\ ~marked => okRun = MinRise
             /\ ~marked => ~upStatus

\* The state of the lazy checks agrees with the status.
LazyAgrees ==
    ~switched /\ mode = "Lazy" /\ status = "Failed"
        => /\ pc[Health] # "decide" => ~upStatus
           /\ pc[Health] \in {"decide", "connect", "start"} => ~newState

HInv == DecisionTypes /\ CountersHonest /\ DecisionsFounded /\ LazyAgrees

\* The counter of successes wraps, and never grows by more than one.
LEMMA RiseCount ==
    ASSUME rises \in 0 .. RiseWidth - 1
    PROVE  /\ (rises + 1) % RiseWidth \in 0 .. RiseWidth - 1
           /\ (rises + 1) % RiseWidth <= rises + 1
  BY BoundAssumption, CheckAssumption

\* The initial state satisfies the invariant.
LEMMA InitHInv == Init => HInv
<1> SUFFICES ASSUME Init PROVE HInv
  OBVIOUS
<1> USE HealthAssumption, CheckAssumption, BoundAssumption DEF Init
<1>1. DecisionTypes
  <2>1. mode \in {"Active", "Lazy"} /\ nextCheck \in 0 .. CheckInterval
    BY DEF Lazy
  <2>2. status \in {"Healthy", "PotentialFailure", "Failed"}
    OBVIOUS
  <2>3. failRun \in 0 .. MaxCheckFailures
    BY DEF Capped
  <2>4. fails \in 0 .. FailBound /\ rises \in 0 .. RiseWidth - 1 /\ okRun \in 0 .. MinRise
    OBVIOUS
  <2>5. /\ availability = "Auto" /\ upStatus \in BOOLEAN /\ newState \in BOOLEAN
        /\ connected \in BOOLEAN /\ marked \in BOOLEAN /\ switched \in BOOLEAN
    OBVIOUS
  <2>6. pc \in [Threads -> {"idle", "await", "decide", "picked", "connect", "start"}]
    OBVIOUS
  <2> HIDE DEF Init
  <2> QED BY <2>1, <2>2, <2>3, <2>4, <2>5, <2>6 DEF DecisionTypes, StatusTypes
<1>2. CountersHonest
  BY DEF CountersHonest, Capped
<1>3. DecisionsFounded /\ LazyAgrees
  BY DEF DecisionsFounded, LazyAgrees, Threads, Lazy
<1> QED BY <1>1, <1>2, <1>3 DEF HInv

\* A round starts checks and decides nothing.
LEMMA RoundStep == ASSUME HInv, Round PROVE HInv'
<1> USE HealthAssumption, CheckAssumption, BoundAssumption
    DEF HInv, RoundCommon, SendCheck, Goto, statusVars, connectVars, runVars
<1> Health \in Threads BY DEF Threads
<1>1. DecisionTypes'
  <2>1. CASE RoundQuiet
    BY <2>1 DEF RoundQuiet, DecisionTypes, StatusTypes
  <2>2. CASE RoundActive
    BY <2>2 DEF RoundActive, DecisionTypes, StatusTypes
  <2>3. CASE RoundTripped
    BY <2>3 DEF RoundTripped, DecisionTypes, StatusTypes
  <2>4. CASE RoundPotentialFailure
    BY <2>4 DEF RoundPotentialFailure, DecisionTypes, StatusTypes
  <2>5. CASE RoundFailed
    BY <2>5 DEF RoundFailed, DecisionTypes, StatusTypes
  <2> QED BY <2>1, <2>2, <2>3, <2>4, <2>5 DEF Round
<1>2. CountersHonest'
  <2>1. rises' \in {0, rises}
    BY DEF Round, RoundQuiet, RoundActive, RoundTripped, RoundPotentialFailure, RoundFailed
  <2>2. UNCHANGED <<fails, okRun, failRun>>
    BY DEF Round, RoundQuiet, RoundActive, RoundTripped, RoundPotentialFailure, RoundFailed
  <2> QED BY <2>1, <2>2 DEF CountersHonest, DecisionTypes, StatusTypes
<1>3. pc[Health] = "idle" /\ pc'[Health] \in {"idle", "await"}
  <2>1. pc' \in {pc, [pc EXCEPT ![Health] = "await"]} /\ pc[Health] = "idle"
    BY DEF Round, RoundQuiet, RoundActive, RoundTripped, RoundPotentialFailure, RoundFailed
  <2> QED BY <2>1 DEF DecisionTypes
<1>4. DecisionsFounded'
  BY <1>3 DEF DecisionsFounded
<1>5. LazyAgrees'
  <2>1. status' = "Failed" => status = "Failed"
    BY DEF Round, RoundQuiet, RoundActive, RoundTripped, RoundPotentialFailure, RoundFailed
  <2>2. UNCHANGED <<mode, upStatus, newState, switched>>
    BY DEF Round, RoundQuiet, RoundActive, RoundTripped, RoundPotentialFailure, RoundFailed
  <2> QED BY <1>3, <2>1, <2>2 DEF LazyAgrees
<1> QED BY <1>1, <1>2, <1>4, <1>5

\* A good check counts, and founds the decision to bring the backend up.
LEMMA GoodStep == ASSUME HInv, StaysDown \/ Rises PROVE HInv'
<1> USE HealthAssumption, CheckAssumption, BoundAssumption
    DEF HInv, GoodCheck, ResultCommon, Good, Goto, statusVars, connectVars
<1> Health \in Threads BY DEF Threads
<1>0. /\ rises' \in 0 .. RiseWidth - 1 /\ rises' <= rises + 1 /\ fails' = 0
      /\ UNCHANGED <<availability, mode, upStatus, nextCheck, connected>>
      /\ pc[Health] = "await" /\ pc'[Health] = "decide"
      /\ okRun' = Capped(okRun + 1, MinRise) /\ failRun' = 0
      /\ marked' = FALSE
  BY RiseCount DEF StaysDown, Rises, DecisionTypes, StatusTypes
<1>1. DecisionTypes'
  <2>1. newState' \in BOOLEAN /\ status' \in {status, "Healthy"}
    BY DEF StaysDown, Rises
  <2>2. pc' = [pc EXCEPT ![Health] = "decide"]
    BY DEF StaysDown, Rises
  <2>3. marked' \in BOOLEAN /\ switched' \in BOOLEAN
    <3>1. switched' \in {switched, (switched /\ ~Lazy)}
      BY DEF StaysDown, Rises
    <3> QED BY <1>0, <3>1 DEF DecisionTypes
  <2>4. failRun' \in 0 .. MaxCheckFailures /\ okRun' \in 0 .. MinRise
    BY <1>0 DEF DecisionTypes, Capped
  <2> QED BY <1>0, <2>1, <2>2, <2>3, <2>4 DEF DecisionTypes, StatusTypes
<1>2. CountersHonest'
  BY <1>0 DEF CountersHonest, DecisionTypes, StatusTypes, Capped
<1>3. newState' => (upStatus \/ okRun' = MinRise)
  <2>1. CASE StaysDown
    BY <2>1 DEF StaysDown
  <2>2. CASE Rises
    BY <2>2, <1>0, <1>1, <1>2 DEF Rises, CountersHonest, DecisionTypes, StatusTypes
  <2> QED BY <2>1, <2>2
<1>4. ~newState' => ~upStatus
  BY DEF StaysDown, Rises
<1>5. DecisionsFounded'
  BY <1>0, <1>3, <1>4 DEF DecisionsFounded
<1>6. newState' /\ mode = "Lazy" => status' = "Healthy"
  BY DEF StaysDown, Rises, Lazy
<1>7. LazyAgrees'
  BY <1>0, <1>6 DEF LazyAgrees
<1> QED BY <1>1, <1>2, <1>5, <1>7

\* A failed check counts, and founds the decision to take the backend down.
LEMMA BadStep ==
    ASSUME HInv, SurvivesBadCheck \/ FallsLazy \/ StillBad
    PROVE  HInv'
<1> USE HealthAssumption, CheckAssumption, BoundAssumption
    DEF HInv, BadCheck, ResultCommon, Bad, Goto, statusVars, connectVars, lazyVars
<1> Health \in Threads BY DEF Threads
<1>a. /\ rises' = 0
      /\ UNCHANGED <<availability, mode, upStatus, nextCheck, connected>>
      /\ pc[Health] = "await" /\ pc' = [pc EXCEPT ![Health] = "decide"]
      /\ okRun' = 0 /\ failRun' = Capped(failRun + 1, MaxCheckFailures)
      /\ marked' = FALSE
      /\ fails' \in {1, MoreFails}
  BY DEF SurvivesBadCheck, FallsLazy, StillBad
<1>b. pc'[Health] = "decide"
  BY <1>a DEF DecisionTypes
<1>c. newState' \in BOOLEAN /\ status' \in {status, "Failed"}
  BY DEF SurvivesBadCheck, FallsLazy, StillBad
<1>0. fails' \in 0 .. FailBound /\ fails' <= fails + 1
  BY <1>a DEF DecisionTypes, StatusTypes, MoreFails, Capped
<1>1. DecisionTypes'
  <2>1. marked' \in BOOLEAN /\ switched' \in BOOLEAN
    <3>1. switched' \in {switched, FALSE}
      BY DEF SurvivesBadCheck, FallsLazy, StillBad
    <3> QED BY <1>a, <3>1 DEF DecisionTypes
  <2>2. failRun' \in 0 .. MaxCheckFailures /\ okRun' \in 0 .. MinRise
    BY <1>a DEF DecisionTypes, Capped
  <2> QED BY <1>a, <1>c, <1>0, <2>1, <2>2 DEF DecisionTypes, StatusTypes
<1>2. CountersHonest'
  BY <1>a, <1>0 DEF CountersHonest, DecisionTypes, StatusTypes, Capped, MoreFails
<1>3. newState' => upStatus
  BY DEF SurvivesBadCheck, FallsLazy, StillBad, StaysUp
<1>4. ~newState' /\ upStatus => failRun' = MaxCheckFailures
  <2>1. ~newState' /\ upStatus => ~(MoreFails < MaxCheckFailures)
    BY DEF SurvivesBadCheck, FallsLazy, StillBad, StaysUp
  <2> QED
    BY <2>1, <1>a DEF MoreFails, Capped, CountersHonest, DecisionTypes, StatusTypes
<1>5. DecisionsFounded'
  BY <1>a, <1>b, <1>3, <1>4 DEF DecisionsFounded
<1>6. newState' => status' = status /\ switched' = switched
  BY DEF SurvivesBadCheck, FallsLazy, StillBad
<1>7. LazyAgrees'
  BY <1>a, <1>b, <1>3, <1>6 DEF LazyAgrees
<1> QED BY <1>1, <1>2, <1>5, <1>7

\* The variables that the decisions are founded on, except the status itself.
Foundations == <<mode, status, fails, rises, newState, okRun, failRun, marked, switched,
                 nextCheck>>

\* The end of a decision: the status is stored.
LEMMA StoreStep ==
    ASSUME HInv, NEW new \in BOOLEAN, SetUpStatus(new), connected' \in BOOLEAN,
           ~switched /\ mode = "Lazy" /\ status = "Failed" => ~new
    PROVE  HInv'
<1> USE HealthAssumption DEF HInv, SetUpStatus, Goto, countVars, runVars, lazyVars
<1> Health \in Threads BY DEF Threads
<1>1. DecisionTypes'
  BY DEF DecisionTypes, StatusTypes
<1>2. CountersHonest'
  BY DEF CountersHonest
<1>3. pc'[Health] = "idle"
  BY DEF DecisionTypes
<1>4. DecisionsFounded'
  BY <1>3 DEF DecisionsFounded
<1>5. LazyAgrees'
  BY <1>3 DEF LazyAgrees
<1> QED BY <1>1, <1>2, <1>4, <1>5

\* A thread that moves while neither the status nor its foundations change. The
\* health-check thread moves from deciding to reconnecting, or away from it.
LEMMA MoveStep ==
    ASSUME HInv, NEW t \in Threads,
           NEW point \in {"idle", "picked", "connect", "start"}, Goto(t, point),
           UNCHANGED Foundations, UNCHANGED <<availability, upStatus>>,
           connected' \in BOOLEAN,
           t = Health /\ point # "idle" =>
              /\ newState
              /\ ~marked => okRun = MinRise
              /\ ~marked => ~upStatus
              /\ ~switched /\ mode = "Lazy" => status # "Failed",
           t = Health =>
              pc[Health] # "decide" \/ ~upStatus
    PROVE  HInv'
<1> USE HealthAssumption DEF HInv, Goto, Foundations
<1> Health \in Threads BY DEF Threads
<1>1. DecisionTypes'
  BY DEF DecisionTypes, StatusTypes
<1>2. CountersHonest'
  BY DEF CountersHonest
<1>3. CASE t = Health
  <2>1. pc'[Health] = point
    BY <1>3 DEF DecisionTypes
  <2>2. DecisionsFounded'
    BY <1>3, <2>1 DEF DecisionsFounded
  <2>3. LazyAgrees'
    BY <1>3, <2>1 DEF LazyAgrees
  <2> QED BY <1>1, <1>2, <2>2, <2>3
<1>4. CASE t # Health
  <2>1. pc'[Health] = pc[Health]
    BY <1>4 DEF DecisionTypes
  <2> QED BY <1>1, <1>2, <2>1 DEF DecisionsFounded, LazyAgrees
<1> QED BY <1>3, <1>4

\* The health-check thread acts on its decision.
LEMMA DecideStep ==
    ASSUME HInv,
           \/ Decide \/ DecideReconnect \/ DecideRefused \/ Connected(Health)
           \/ ConnectFails \/ ReconnectThrows(Health) \/ HealthReturns
    PROVE  HInv'
<1> Health \in Threads BY DEF Threads
<1>0. /\ connected \in BOOLEAN /\ newState \in BOOLEAN
      /\ pc[Health] = "decide" /\ newState /\ ~upStatus
            => /\ ~marked => okRun = MinRise
               /\ ~switched /\ mode = "Lazy" => status # "Failed"
      /\ pc[Health] \in {"connect", "start"}
            => /\ newState
               /\ ~marked => okRun = MinRise
               /\ ~marked => ~upStatus
               /\ ~switched /\ mode = "Lazy" => status # "Failed"
  BY DEF HInv, DecisionTypes, StatusTypes, DecisionsFounded, LazyAgrees
<1>1. CASE Decide
  <2>1. pc[Health] = "decide" /\ SetUpStatus(newState) /\ connected' = connected
    BY <1>1 DEF Decide, connectVars
  <2>2. ~switched /\ mode = "Lazy" /\ status = "Failed" => ~newState
    BY <2>1 DEF HInv, LazyAgrees
  <2> QED BY <1>0, <2>1, <2>2, StoreStep
<1>2. CASE DecideReconnect
  <2>1. pc[Health] = "decide" /\ ~upStatus /\ newState
    BY <1>2 DEF DecideReconnect, NeedsReconnect
  <2>2. /\ Goto(Health, "connect") /\ UNCHANGED Foundations
        /\ UNCHANGED <<availability, upStatus>> /\ connected' \in BOOLEAN
    BY <1>2 DEF DecideReconnect, BeginReconnect, ReconnectUnchanged, Foundations, statusVars,
                lazyVars, countVars, runVars
  <2> QED BY <1>0, <2>1, <2>2, MoveStep
<1>3. CASE DecideRefused
  <2>1. SetUpStatus(FALSE) /\ connected' = connected
    BY <1>3 DEF DecideRefused, connectVars
  <2> QED BY <1>0, <2>1, StoreStep
<1>4. CASE Connected(Health)
  <2>1. /\ Goto(Health, "start") /\ UNCHANGED Foundations
        /\ UNCHANGED <<availability, upStatus>> /\ connected' \in BOOLEAN
    BY <1>4 DEF Connected, ReconnectUnchanged, Foundations, statusVars, lazyVars, countVars, runVars
  <2>2. pc[Health] = "connect"
    BY <1>4 DEF Connected
  <2> QED BY <1>0, <2>1, <2>2, MoveStep
<1>5. CASE ConnectFails
  <2>1. SetUpStatus(FALSE) /\ connected' = connected
    BY <1>5 DEF ConnectFails
  <2> QED BY <1>0, <2>1, StoreStep
<1>6. CASE ReconnectThrows(Health)
  <2>1. /\ Goto(Health, "idle") /\ UNCHANGED Foundations
        /\ UNCHANGED <<availability, upStatus>> /\ connected' = connected
    BY <1>6 DEF ReconnectThrows, ReconnectUnchanged, Foundations, statusVars, lazyVars, countVars,
                runVars
  <2>2. pc[Health] = "connect"
    BY <1>6 DEF ReconnectThrows
  <2> QED BY <1>0, <2>1, <2>2, MoveStep
<1>7. CASE HealthReturns
  <2>1. pc[Health] = "start" /\ SetUpStatus(connected) /\ connected' = connected
    BY <1>7 DEF HealthReturns
  <2> QED BY <1>0, <2>1, StoreStep
<1> QED BY <1>1, <1>2, <1>3, <1>4, <1>5, <1>6, <1>7

\* Clients move, and may reconnect, but decide nothing.
LEMMA ClientStep ==
    ASSUME HInv, NEW c \in Clients, Pick(c) \/ ClientSends(c)
    PROVE  HInv'
<1> c \in Threads /\ c # Health
  BY HealthAssumption DEF Threads
<1> USE DEF Foundations, statusVars, lazyVars, countVars, runVars, connectVars
<1>0. connected \in BOOLEAN
  BY DEF HInv, DecisionTypes
<1>1. CASE Pick(c)
  BY <1>0, <1>1, MoveStep DEF Pick
<1>2. CASE Send(c)
  BY <1>0, <1>2, MoveStep DEF Send
<1>3. CASE SendReconnects(c)
  BY <1>3, MoveStep DEF SendReconnects, BeginReconnect, ReconnectUnchanged
<1>4. CASE SendError(c)
  BY <1>0, <1>4, MoveStep DEF SendError
<1>5. CASE Connected(c)
  BY <1>5, MoveStep DEF Connected, ReconnectUnchanged
<1>6. CASE ClientConnectFails(c)
  BY <1>0, <1>6, MoveStep DEF ClientConnectFails
<1>7. CASE ReconnectThrows(c)
  BY <1>0, <1>7, MoveStep DEF ReconnectThrows, ReconnectUnchanged
<1>8. CASE ClientReturns(c)
  BY <1>0, <1>8, MoveStep DEF ClientReturns
<1> QED BY <1>1, <1>2, <1>3, <1>4, <1>5, <1>6, <1>7, <1>8 DEF ClientSends

\* The operator may change the status or the mode under the health checks.
LEMMA AdminStep == ASSUME HInv, AdminNext PROVE HInv'
<1> USE DEF HInv, AdminUnchanged, lazyVars, countVars, connectVars, runVars, statusVars
<1> USE DEF Act
<1>1. CASE SetAvailability
  BY <1>1 DEF SetAvailability, DecisionTypes, StatusTypes, CountersHonest,
              DecisionsFounded, LazyAgrees
<1>2. CASE SetAuto
  <2>1. /\ \/ switched' = TRUE
           \/ switched' = switched /\ upStatus' = FALSE
        /\ marked' = TRUE
    BY <1>2 DEF SetAuto
  <2>2. /\ availability' = "Auto" /\ upStatus' \in BOOLEAN
        /\ UNCHANGED <<mode, status, fails, rises, newState, okRun, failRun, nextCheck,
                       connected, pc>>
    BY <1>2 DEF SetAuto
  <2> QED BY <2>1, <2>2 DEF DecisionTypes, StatusTypes, CountersHonest, DecisionsFounded,
                            LazyAgrees
<1>3. CASE SetMode
  <2>1. switched' = TRUE
    BY <1>3 DEF SetMode
  <2>2. /\ mode' \in {"Active", "Lazy"} /\ availability' = "Auto"
        /\ UNCHANGED <<upStatus, status, fails, rises, newState, okRun, failRun, marked,
                       nextCheck, connected, pc>>
    BY <1>3 DEF SetMode
  <2> QED BY <2>1, <2>2 DEF DecisionTypes, StatusTypes, CountersHonest, DecisionsFounded,
                            LazyAgrees
<1>4. CASE Stop
  BY <1>4 DEF Stop, DecisionTypes, StatusTypes, CountersHonest, DecisionsFounded, LazyAgrees
<1> QED BY <1>1, <1>2, <1>3, <1>4 DEF AdminNext

\* Every step preserves the invariant.
LEMMA HInvStep == ASSUME HInv, [Next]_vars PROVE HInv'
<1>1. CASE UNCHANGED <<Foundations, availability, upStatus, connected, pc>>
  BY <1>1 DEF HInv, Foundations, DecisionTypes, StatusTypes, CountersHonest, DecisionsFounded,
              LazyAgrees
<1>2. CASE HealthNext
  <2>1. CASE SlowCheck
    BY <2>1, <1>1 DEF SlowCheck, Foundations, statusVars, countVars, connectVars, runVars
  <2>2. CASE LostCheck
    <3>1. /\ Goto(Health, "idle") /\ UNCHANGED Foundations
          /\ UNCHANGED <<availability, upStatus>> /\ connected' = connected
          /\ pc[Health] = "await"
      BY <2>2 DEF LostCheck, Foundations, statusVars, lazyVars, countVars, runVars, connectVars
    <3>2. connected \in BOOLEAN /\ Health \in Threads
      BY DEF HInv, DecisionTypes, Threads
    <3> QED BY <3>1, <3>2, MoveStep
  <2> QED BY <1>2, <2>1, <2>2, RoundStep, GoodStep, BadStep, DecideStep DEF HealthNext
<1>3. CASE \E c \in Clients : Pick(c) \/ ClientSends(c)
  BY <1>3, ClientStep
<1>4. CASE Answer \/ ResponderStep \/ StopShutdown \/ Environment \/ UNCHANGED vars
  <2>1. UNCHANGED <<Foundations, availability, upStatus, connected, pc>>
    BY <1>4 DEF Answer, ResponderStep, ResponderUnchanged, StopShutdown, Environment, vars,
                Foundations, statusVars, lazyVars, countVars, runVars, connectVars
  <2> QED BY <2>1, <1>1
<1>5. CASE AdminNext
  BY <1>5, AdminStep
<1> QED BY <1>2, <1>3, <1>4, <1>5 DEF Next

\* The invariant holds in every behaviour.
LEMMA HInvHolds == Spec => []HInv
<1>1. Init => HInv
  BY InitHInv
<1>2. HInv /\ [Next]_vars => HInv'
  BY HInvStep
<1> QED BY <1>1, <1>2, PTL DEF Spec

-----------------------------------------------------------------------------
(* The types of what the decisions do not depend on.                       *)

\* Neither the back-off nor the interval exceeds what is configured.
LEMMA CheckIsNear ==
    ASSUME NEW st, NEW good \in Nat, NEW bad \in Nat, NEW scheduled \in BOOLEAN
    PROVE  NextLazyCheck(st, good, bad, scheduled) \in 0 .. WaitMax
<1> USE LazyAssumption, CheckAssumption
<1>1. /\ MaxBackOff \in Nat /\ MaxBackOff <= WaitMax /\ CheckInterval <= WaitMax
      /\ FailedInterval \in Nat /\ FailedInterval <= WaitMax /\ WaitMax \in Nat
  BY DEF WaitMax, Larger
<1> HIDE DEF WaitMax
<1>2. ASSUME NEW n \in Nat PROVE BackOff(n) \in 0 .. WaitMax
  <2> DEFINE c == BackOffCoefficient(n)
  <2>1. c \in Nat
    <3>1. CASE n \in 1 .. 31
      <4>1. n - 1 \in 0 .. 30
        BY <3>1
      <4>2. Shift(n - 1) \in Nat
        BY <4>1, ShiftAssumption
      <4> QED BY <1>1, <3>1, <4>2 DEF BackOffCoefficient, Capped
    <3>2. CASE n \notin 1 .. 31
      BY <1>1, <3>2 DEF BackOffCoefficient
    <3> QED BY <3>1, <3>2
  <2> HIDE DEF c
  <2>2. FailedInterval * c \in Nat
    BY <1>1, <2>1
  <2> QED BY <1>1, <2>2 DEF BackOff, Capped, c
<1>3. (IF scheduled THEN bad + 1 ELSE bad) \in Nat
  OBVIOUS
<1>4. BackOff(IF scheduled THEN bad + 1 ELSE bad) \in 0 .. WaitMax
  BY <1>2, <1>3
<1>5. NextLazyCheck(st, good, bad, scheduled)
        \in {FailedInterval, CheckInterval, BackOff(IF scheduled THEN bad + 1 ELSE bad)}
  BY DEF NextLazyCheck
<1>6. FailedInterval \in 0 .. WaitMax /\ CheckInterval \in 0 .. WaitMax
  BY <1>1
<1> HIDE DEF NextLazyCheck
<1> QED BY ONLY <1>4, <1>5, <1>6

\* The circular buffer holds at most SampleSize results.
LEMMA SampleIsBounded ==
    ASSUME lastResults \in Seq(BOOLEAN), Len(lastResults) <= SampleSize,
           NEW n \in Nat, NEW failure \in BOOLEAN
    PROVE  Reported(n, failure) \in Seq(BOOLEAN) /\ Len(Reported(n, failure)) <= SampleSize
<1> DEFINE more == [i \in 1 .. n |-> failure]
           all == lastResults \o more
<1>1. more \in Seq(BOOLEAN)
  OBVIOUS
<1>2. all \in Seq(BOOLEAN)
  BY <1>1, ConcatProperties
<1> HIDE DEF all
<1> DEFINE first == Larger(1, Len(all) - SampleSize + 1)
<1>3. Len(all) \in Nat /\ SampleSize \in Nat /\ \A i \in 1 .. Len(all) : all[i] \in BOOLEAN
  BY <1>2, LenProperties, ElementOfSeq, LazyAssumption
<1>4. first \in Int /\ first >= 1 /\ Len(all) - first + 1 <= SampleSize
  BY <1>3 DEF Larger
<1> HIDE DEF first
<1>5. /\ SubSeq(all, first, Len(all)) \in Seq(BOOLEAN)
      /\ Len(SubSeq(all, first, Len(all)))
            = IF first <= Len(all) THEN Len(all) - first + 1 ELSE 0
  BY <1>3, <1>4, SubSeqProperties
<1>6. Len(SubSeq(all, first, Len(all))) <= SampleSize
  BY <1>3, <1>4, <1>5
<1> QED BY <1>5, <1>6 DEF Reported, Recent, all, first

\* What HInv does not say about the types.
RestTypes ==
    /\ lastResults \in Seq(BOOLEAN) /\ Len(lastResults) <= SampleSize
    /\ wait \in 0 .. WaitMax
    /\ stopped \in BOOLEAN /\ shut \in BOOLEAN /\ alive \in BOOLEAN /\ routable \in BOOLEAN
    /\ connectLock \in Threads \cup {NoThread}
    /\ responder \in {"off", "loop", "recv", "wait", "exited"}
    /\ fresh \in 0 .. MaxInFlight
    /\ old \in 0 .. MaxInFlight
    /\ acts \in 0 .. MaxActs
    /\ lost \in BOOLEAN
    /\ since \in 0 .. SinceMax
    /\ due \in 0 .. SinceMax

\* The bounds of the times.
LEMMA Times ==
    /\ WaitMax \in Nat /\ SinceMax \in Nat /\ MaxBackOff <= SinceMax /\ FailedInterval <= SinceMax
    /\ CheckTimeout \in Nat /\ CheckTimeout <= SinceMax
    /\ MaxBackOff \in Nat /\ FailedInterval \in Nat
  BY LazyAssumption, CheckAssumption DEF WaitMax, SinceMax, Larger

\* The initial state.
LEMMA InitRest == Init => RestTypes
<1> SUFFICES ASSUME Init PROVE RestTypes
  OBVIOUS
<1>1. lastResults = <<>> /\ acts = 0 /\ lost = FALSE /\ connectLock = NoThread /\ fresh = 0 /\ old = 0
      /\ since = 0 /\ stopped = FALSE /\ shut = FALSE /\ alive \in BOOLEAN
  BY DEF Init
<1>2. routable \in BOOLEAN /\ connected \in BOOLEAN
  BY DEF Init
<1>3. responder \in {"off", "loop"}
  BY DEF Init
<1>4. wait \in 0 .. WaitMax
  <2>1. NextLazyCheck("Failed", 0, 1, FALSE) \in 0 .. WaitMax
    BY CheckIsNear
  <2>2. wait \in {0, NextLazyCheck("Failed", 0, 1, FALSE)}
    BY DEF Init
  <2>3. 0 \in 0 .. WaitMax
    BY Times
  <2> QED BY ONLY <2>1, <2>2, <2>3
<1>5. due \in 0 .. SinceMax
  BY Times DEF Init, FirstDue, Capped
<1>6. <<>> \in Seq(BOOLEAN) /\ Len(<<>>) <= SampleSize /\ MaxInFlight \in Nat
      /\ MaxActs \in Nat
  BY LazyAssumption, BoundAssumption
<1>7. lastResults \in Seq(BOOLEAN) /\ Len(lastResults) <= SampleSize
  BY <1>1, <1>6
<1>8. /\ fresh \in 0 .. MaxInFlight /\ old \in 0 .. MaxInFlight /\ since \in 0 .. SinceMax
      /\ acts \in 0 .. MaxActs
  BY <1>1, <1>6, Times
<1>9. stopped \in BOOLEAN /\ shut \in BOOLEAN /\ connectLock \in Threads \cup {NoThread}
  BY <1>1
<1> QED BY <1>1, <1>2, <1>3, <1>4, <1>5, <1>7, <1>8, <1>9 DEF RestTypes

\* A sample with more results is a sample.
LEMMA SampleStays ==
    ASSUME HInv, RestTypes,
           lastResults' \in {lastResults, <<>>, Reported(old, TRUE), Reported(1, TRUE),
                             Reported(1, FALSE)}
    PROVE  lastResults' \in Seq(BOOLEAN) /\ Len(lastResults') <= SampleSize
<1>1. /\ lastResults \in Seq(BOOLEAN) /\ Len(lastResults) <= SampleSize
      /\ old \in Nat
  BY BoundAssumption DEF RestTypes
<1>2. /\ Reported(old, TRUE) \in Seq(BOOLEAN) /\ Len(Reported(old, TRUE)) <= SampleSize
      /\ Reported(1, TRUE) \in Seq(BOOLEAN) /\ Len(Reported(1, TRUE)) <= SampleSize
      /\ Reported(1, FALSE) \in Seq(BOOLEAN) /\ Len(Reported(1, FALSE)) <= SampleSize
  BY <1>1, SampleIsBounded
<1>3. <<>> \in Seq(BOOLEAN) /\ Len(<<>>) <= SampleSize
  BY LazyAssumption
<1> QED BY <1>1, <1>2, <1>3

\* The rounds of the health-check thread.
LEMMA RoundTypes ==
    ASSUME HInv, RestTypes, Round
    PROVE  RestTypes'
<1> USE DEF RoundCommon, TimeoutQueries, statusVars, connectVars, stopVars, envVars, runVars
<1>1. /\ UNCHANGED <<stopped, shut, alive, routable, connectLock, responder, acts>>
      /\ old' = fresh /\ fresh' = 0
  BY DEF Round, RoundQuiet, RoundActive, RoundTripped, RoundPotentialFailure, RoundFailed
<1>2. lastResults' \in {<<>>, Reported(old, TRUE)}
  BY DEF Round, RoundQuiet, RoundActive, RoundTripped, RoundPotentialFailure, RoundFailed
<1>3. fails \in Nat /\ rises \in Nat
  BY BoundAssumption, CheckAssumption DEF HInv, DecisionTypes, StatusTypes
<1>4. wait' \in {Waited, NextLazyCheck("PotentialFailure", 0, fails, TRUE),
                 NextLazyCheck("Failed", rises, fails, TRUE)}
  BY DEF Round, RoundQuiet, RoundActive, RoundTripped, RoundPotentialFailure, RoundFailed
<1>5. wait' \in 0 .. WaitMax
  <2>1. Waited \in 0 .. WaitMax
    BY Times DEF RestTypes, Waited, Larger
  <2>2. /\ NextLazyCheck("PotentialFailure", 0, fails, TRUE) \in 0 .. WaitMax
        /\ NextLazyCheck("Failed", rises, fails, TRUE) \in 0 .. WaitMax
    BY <1>3, CheckIsNear
  <2> QED BY <1>4, <2>1, <2>2
<1>6. since' \in {0, Capped(since + 1, CheckTimeout), Capped(since + 1, SinceMax)}
  BY DEF Round, RoundQuiet, RoundActive, RoundTripped, RoundPotentialFailure, RoundFailed,
         SendCheck, Tick
<1>7. since' \in 0 .. SinceMax
  BY <1>6, Times DEF RestTypes, Capped
<1>8. due' \in {0, due, NextDue}
  BY DEF Round, RoundQuiet, RoundActive, RoundTripped, RoundPotentialFailure, RoundFailed
<1>9. due' \in 0 .. SinceMax
  <2>1. NextDue \in 0 .. SinceMax
    BY Times DEF NextDue, RestTypes, Capped
  <2> QED BY <1>8, <2>1, Times DEF RestTypes
<1>10. lastResults' \in Seq(BOOLEAN) /\ Len(lastResults') <= SampleSize
  BY <1>2, SampleStays
<1>11. old' \in 0 .. MaxInFlight /\ fresh' \in 0 .. MaxInFlight
  BY <1>1, BoundAssumption DEF RestTypes
<1>12. lost' \in {lost, FALSE}
  BY DEF Round, RoundQuiet, RoundActive, RoundTripped, RoundPotentialFailure, RoundFailed
<1>13. lost' \in BOOLEAN
  BY <1>12 DEF RestTypes
<1> QED BY <1>1, <1>5, <1>7, <1>9, <1>10, <1>11, <1>13 DEF RestTypes

\* The results of the checks.
LEMMA ResultTypes ==
    ASSUME HInv, RestTypes,
           SlowCheck \/ LostCheck \/ StaysDown \/ Rises \/ SurvivesBadCheck \/ FallsLazy \/ StillBad
    PROVE  RestTypes'
<1> USE DEF GoodCheck, BadCheck, ResultCommon, statusVars, connectVars, stopVars, envVars, runVars,
            flightVars, lazyVars, timeVars
<1>1. UNCHANGED <<stopped, shut, alive, routable, connectLock, responder, acts, old, fresh>>
  BY DEF SlowCheck, LostCheck, StaysDown, Rises, SurvivesBadCheck, FallsLazy, StillBad
<1>2. lastResults' \in {<<>>, lastResults}
  BY DEF SlowCheck, LostCheck, StaysDown, Rises, SurvivesBadCheck, FallsLazy, StillBad
<1>3. rises' \in Nat
  <2>1. CASE StaysDown
    BY <2>1, RiseCount, BoundAssumption, CheckAssumption
       DEF StaysDown, Good, HInv, DecisionTypes, StatusTypes
  <2>2. CASE ~StaysDown
    <3>1. HInv'
      BY <2>2, GoodStep, BadStep, HInvStep DEF Next, HealthNext
    <3> QED BY <3>1, BoundAssumption, CheckAssumption DEF HInv, DecisionTypes, StatusTypes
  <2> QED BY <2>1, <2>2
<1>4. wait' \in {wait, Waited, NextLazyCheck(status, rises', 0, FALSE),
                 NextLazyCheck("Failed", 0, 1, FALSE)}
  BY DEF SlowCheck, LostCheck, StaysDown, Rises, SurvivesBadCheck, FallsLazy, StillBad
<1>5. wait' \in 0 .. WaitMax
  <2>1. Waited \in 0 .. WaitMax
    BY Times DEF RestTypes, Waited, Larger
  <2>2. /\ NextLazyCheck(status, rises', 0, FALSE) \in 0 .. WaitMax
        /\ NextLazyCheck("Failed", 0, 1, FALSE) \in 0 .. WaitMax
    BY <1>3, CheckIsNear
  <2> QED BY <1>4, <2>1, <2>2 DEF RestTypes
<1>6. since' \in {0, since, Capped(since + 1, CheckTimeout), Capped(since + 1, SinceMax)}
  BY DEF SlowCheck, LostCheck, StaysDown, Rises, SurvivesBadCheck, FallsLazy, StillBad, Tick
<1>7. since' \in 0 .. SinceMax
  BY <1>6, Times DEF RestTypes, Capped
<1>8. due' \in {0, due, FirstDue}
  BY DEF SlowCheck, LostCheck, StaysDown, Rises, SurvivesBadCheck, FallsLazy, StillBad
<1>9. due' \in 0 .. SinceMax
  BY <1>8, Times DEF RestTypes, FirstDue, Capped
<1>10. lastResults' \in Seq(BOOLEAN) /\ Len(lastResults') <= SampleSize
  BY <1>2, SampleStays
<1>11. lost' \in {lost, FALSE, due # 0}
  BY DEF SlowCheck, LostCheck, StaysDown, Rises, SurvivesBadCheck, FallsLazy, StillBad
<1>12. lost' \in BOOLEAN
  BY <1>11 DEF RestTypes
<1> QED BY <1>1, <1>5, <1>7, <1>9, <1>10, <1>12 DEF RestTypes

\* What the threads, the operator and the environment do to the connection. None of it
\* changes the schedule of the checks.
LEMMA OtherTypes ==
    ASSUME HInv, RestTypes, UNCHANGED <<wait, since, due, lost>>,
           lastResults' \in {lastResults, Reported(1, TRUE), Reported(1, FALSE)},
           stopped' \in BOOLEAN, shut' \in BOOLEAN, alive' \in BOOLEAN, routable' \in BOOLEAN,
           connectLock' \in Threads \cup {NoThread},
           responder' \in {"off", "loop", "recv", "wait", "exited"},
           fresh' \in 0 .. MaxInFlight, old' \in 0 .. MaxInFlight, acts' \in 0 .. MaxActs
    PROVE  RestTypes'
<1>1. lastResults' \in Seq(BOOLEAN) /\ Len(lastResults') <= SampleSize
  BY SampleStays
<1> QED BY <1>1 DEF RestTypes

\* The health-check thread acts on a result.
LEMMA DecideTypes ==
    ASSUME HInv, RestTypes,
           \/ Decide \/ DecideReconnect \/ DecideRefused \/ Connected(Health)
           \/ ConnectFails \/ ReconnectThrows(Health) \/ HealthReturns
    PROVE  RestTypes'
<1> USE DEF Decide, DecideReconnect, DecideRefused, Connected, ConnectFails, ReconnectThrows,
            HealthReturns, SetUpStatus, BeginReconnect, ReconnectUnchanged, Unlock, Started
<1> USE DEF connectVars, stopVars, envVars, runVars, flightVars, lazyVars, timeVars
<1>1. UNCHANGED <<wait, since, due, lost, lastResults, stopped, shut, alive, routable, fresh, old, acts>>
  OBVIOUS
<1>2. connectLock' \in {connectLock, NoThread, Health} /\ responder' \in {responder, "loop"}
  OBVIOUS
<1>3. Health \in Threads
  BY DEF Threads
<1> QED BY ONLY HInv, RestTypes, <1>1, <1>2, <1>3, OtherTypes DEF RestTypes

\* A client thread sends a query, or reconnects.
LEMMA ClientTypes ==
    ASSUME HInv, RestTypes, NEW c \in Clients, Pick(c) \/ ClientSends(c)
    PROVE  RestTypes'
<1> USE DEF Pick, ClientSends, Send, SendReconnects, SendError, Connected, ClientConnectFails,
            ReconnectThrows, ClientReturns, BeginReconnect, ReconnectUnchanged, Unlock, Started
<1> USE DEF connectVars, stopVars, envVars, runVars, flightVars, lazyVars, timeVars
<1>1. /\ UNCHANGED <<wait, since, due, lost, stopped, shut, alive, routable, old, acts>>
      /\ lastResults' \in {lastResults, Reported(1, TRUE)}
  OBVIOUS
<1>2. connectLock' \in {connectLock, NoThread, c} /\ responder' \in {responder, "loop"}
  OBVIOUS
<1>3. fresh' = fresh \/ (fresh + old < MaxInFlight /\ fresh' = fresh + 1)
  OBVIOUS
<1>4. c \in Threads
  BY DEF Threads
<1>5. fresh' \in 0 .. MaxInFlight
  BY ONLY RestTypes, <1>3, BoundAssumption DEF RestTypes
<1> QED BY ONLY HInv, RestTypes, <1>1, <1>2, <1>4, <1>5, OtherTypes DEF RestTypes

\* Responses, the operator and the environment.
LEMMA RemainingTypes ==
    ASSUME HInv, RestTypes,
           Answer \/ ResponderStep \/ AdminNext \/ StopShutdown \/ Environment \/ UNCHANGED vars
    PROVE  RestTypes'
<1> USE DEF connectVars, stopVars, envVars, runVars, flightVars, lazyVars, timeVars
<1>0. connected \in BOOLEAN
  BY DEF HInv, DecisionTypes
<1>1. CASE Answer
  <2>1. /\ UNCHANGED <<wait, since, due, lost, stopped, shut, alive, routable, acts, connectLock>>
        /\ responder' = "loop"
    BY <1>1 DEF Answer, ResponderUnchanged
  <2>2. lastResults' \in {Reported(1, TRUE), Reported(1, FALSE)}
    BY <1>1 DEF Answer
  <2>3. \/ fresh > 0 /\ fresh' = fresh - 1 /\ old' = old
        \/ old > 0 /\ old' = old - 1 /\ fresh' = fresh
    BY <1>1 DEF Answer
  <2>4. fresh' \in 0 .. MaxInFlight /\ old' \in 0 .. MaxInFlight
    BY <2>3, BoundAssumption DEF RestTypes
  <2> QED BY <2>1, <2>2, <2>4, OtherTypes DEF RestTypes
<1>2. CASE ResponderStep
  <2>1. /\ UNCHANGED <<wait, since, due, lost, stopped, shut, alive, routable, acts, connectLock,
                       lastResults, fresh, old>>
        /\ responder' \in {"exited", "wait", "recv", "loop"}
    BY <1>2 DEF ResponderStep, ResponderUnchanged
  <2> QED BY <2>1, OtherTypes DEF RestTypes
<1>3. CASE AdminNext
  <2>1. /\ UNCHANGED <<wait, since, due, lost, shut, alive, routable, connectLock,
                       lastResults, fresh, old, responder>>
        /\ stopped' \in {stopped, TRUE}
    BY <1>3 DEF AdminNext, SetAvailability, SetAuto, SetMode, Stop, AdminUnchanged
  <2>2. acts < MaxActs /\ acts' = acts + 1
    BY <1>3 DEF AdminNext, SetAvailability, SetAuto, SetMode, Stop, Act
  <2>3. acts' \in 0 .. MaxActs
    BY <2>2, BoundAssumption DEF RestTypes
  <2> QED BY <2>1, <2>3, OtherTypes DEF RestTypes
<1>4. CASE StopShutdown
  <2>1. /\ UNCHANGED <<wait, since, due, lost, stopped, alive, routable, acts, connectLock,
                       lastResults, fresh, old, responder>>
        /\ shut' = connected
    BY <1>4 DEF StopShutdown, ShutSockets
  <2> QED BY <1>0, <2>1, OtherTypes DEF RestTypes
<1>5. CASE Environment
  <2>1. UNCHANGED <<wait, since, due, lost, stopped, shut, acts, connectLock, lastResults, fresh, old,
                    responder>>
    BY <1>5 DEF Environment
  <2>2. alive' \in BOOLEAN /\ routable' \in BOOLEAN
    BY <1>5 DEF Environment, RestTypes
  <2> QED BY <2>1, <2>2, OtherTypes DEF RestTypes
<1>6. CASE UNCHANGED vars
  BY <1>6 DEF vars, RestTypes
<1> QED BY <1>1, <1>2, <1>3, <1>4, <1>5, <1>6

\* The variables keep their types: the sample of regular queries never outgrows its size,
\* and no check is ever scheduled further away than the configuration allows
\* (updateNextLazyHealthCheck, reportTimeoutOrError).
THEOREM TypeCorrect == Spec => []TypeOK
<1>1. HInv /\ RestTypes /\ [Next]_vars => RestTypes'
  <2> SUFFICES ASSUME HInv, RestTypes, [Next]_vars PROVE RestTypes'
    OBVIOUS
  <2>1. CASE HealthNext
    BY <2>1, RoundTypes, ResultTypes, DecideTypes DEF HealthNext
  <2>2. CASE \E c \in Clients : Pick(c) \/ ClientSends(c)
    BY <2>2, ClientTypes
  <2>3. CASE Answer \/ ResponderStep \/ AdminNext \/ StopShutdown \/ Environment \/ UNCHANGED vars
    BY <2>3, RemainingTypes
  <2> QED BY <2>1, <2>2, <2>3 DEF Next
<1>2. Init => RestTypes
  BY InitRest
<1>3. HInv /\ RestTypes => TypeOK
  BY DEF HInv, RestTypes, DecisionTypes, TypeOK, LazyTypes, ConnectionTypes, HistoryTypes
<1> QED BY <1>1, <1>2, <1>3, HInvHolds, PTL DEF Spec

\* A lazily checked backend in the Failed state is down, whatever the checks, the clients
\* and the network do, from the first fall or rise after the operator last changed the mode
\* or marked the backend up (submitHealthCheckResult, reconnect). A Failed state that is
\* older than such a change says nothing: setActiveAuto, a rise, setLazyAuto.
THEOREM FailedIsDown == Spec => []FailedMeansDown
<1>1. HInv => FailedMeansDown
  BY DEF HInv, LazyAgrees, FailedMeansDown
<1> QED BY <1>1, HInvHolds, PTL

\* The steps of the health-check thread that may change the status.
LEMMA StatusChanges ==
    ASSUME [Next]_vars, upStatus' # upStatus, pc' # pc
    PROVE  Decide \/ DecideRefused \/ ConnectFails \/ HealthReturns
<1> USE DEF vars, statusVars
<1>1. CASE HealthNext
  <2>1. CASE Round
    BY <2>1 DEF Round, RoundQuiet, RoundActive, RoundTripped, RoundPotentialFailure, RoundFailed,
                RoundCommon
  <2>2. CASE StaysDown \/ Rises
    BY <2>2 DEF StaysDown, Rises, GoodCheck, ResultCommon
  <2>3. CASE SurvivesBadCheck \/ FallsLazy \/ StillBad
    BY <2>3 DEF SurvivesBadCheck, FallsLazy, StillBad, BadCheck, ResultCommon
  <2>4. CASE DecideReconnect \/ Connected(Health) \/ ReconnectThrows(Health)
    BY <2>4 DEF DecideReconnect, BeginReconnect, Connected, ReconnectThrows, ReconnectUnchanged
  <2>5. CASE SlowCheck \/ LostCheck
    BY <2>5 DEF SlowCheck, LostCheck
  <2> QED BY <1>1, <2>1, <2>2, <2>3, <2>4, <2>5 DEF HealthNext
<1>2. CASE \E c \in Clients : Pick(c) \/ ClientSends(c)
  BY <1>2 DEF Pick, ClientSends, Send, SendReconnects, SendError, Connected, ClientConnectFails,
              ReconnectThrows, ClientReturns, BeginReconnect, ReconnectUnchanged
<1>3. CASE Answer \/ ResponderStep \/ StopShutdown \/ Environment \/ UNCHANGED vars
  BY <1>3 DEF Answer, ResponderStep, ResponderUnchanged, StopShutdown, Environment
<1>4. CASE AdminNext
  BY <1>4 DEF AdminNext, SetAvailability, SetAuto, SetMode, Stop, AdminUnchanged
<1> QED BY <1>1, <1>2, <1>3, <1>4 DEF Next

\* The health checks bring a backend up only after minRiseSuccesses good checks in
\* a row, for every interleaving with clients that reconnect and an operator who
\* changes the mode (submitHealthCheckResult).
THEOREM RiseIsEarned == Spec => UpOnlyAfterRise
<1>1. ASSUME HInv, [Next]_vars,
             ~upStatus, upStatus', pc' # pc, ~marked
      PROVE  okRun = MinRise
  <2>1. Decide \/ DecideRefused \/ ConnectFails \/ HealthReturns
    BY <1>1, StatusChanges
  <2>2. ~DecideRefused /\ ~ConnectFails
    BY <1>1 DEF DecideRefused, ConnectFails, SetUpStatus
  <2>3. CASE Decide
    BY <1>1, <2>3 DEF Decide, SetUpStatus, HInv, DecisionsFounded
  <2>4. CASE HealthReturns
    BY <1>1, <2>4 DEF HealthReturns, HInv, DecisionsFounded
  <2> QED BY <2>1, <2>2, <2>3, <2>4
<1>2. HInv /\ [Next]_vars
        => [~upStatus /\ upStatus' /\ pc' # pc /\ ~marked
               => okRun = MinRise]_vars
  BY <1>1
<1> QED BY <1>2, HInvHolds, PTL DEF Spec, UpOnlyAfterRise

\* The health checks take a backend down only after maxCheckFailures failed checks
\* in a row (submitHealthCheckResult).
THEOREM FallIsEarned == Spec => DownOnlyAfterFall
<1>1. ASSUME HInv, [Next]_vars,
             upStatus, ~upStatus', pc' # pc, ~marked
      PROVE  failRun = MaxCheckFailures
  <2>1. Decide \/ DecideRefused \/ ConnectFails \/ HealthReturns
    BY <1>1, StatusChanges
  <2>2. ~DecideRefused
    BY <1>1 DEF DecideRefused
  <2>3. CASE Decide
    BY <1>1, <2>3 DEF Decide, SetUpStatus, HInv, DecisionsFounded
  <2>4. CASE ConnectFails \/ HealthReturns
    BY <1>1, <2>4 DEF ConnectFails, HealthReturns, HInv, DecisionsFounded
  <2> QED BY <2>1, <2>2, <2>3, <2>4
<1>2. HInv /\ [Next]_vars
        => [upStatus /\ ~upStatus' /\ pc' # pc /\ ~marked
               => failRun = MaxCheckFailures]_vars
  BY <1>1
<1> QED BY <1>2, HInvHolds, PTL DEF Spec, DownOnlyAfterFall

=============================================================================
