------------------------- MODULE KafkaBreakerProofs -------------------------
(***************************************************************************)
(* Proofs about KafkaBreaker, for any set of requests and any threshold.   *)
(***************************************************************************)
EXTENDS KafkaBreaker, TLAPS

\* Releasing the mutex, or dying in the attempt, keeps every type.
LEMMA UnlockKeepsTypes ==
    ASSUME TypeOK, NEW r \in Requests, NEW from, NEW to \in Steps, Unlock(r, from, to)
    PROVE  TypeOK'
<1>1. CASE mu
  BY <1>1 DEF Unlock, Goto, TypeOK, States
<1>2. CASE ~mu
  <2>1. state' \in States /\ failures' \in Nat /\ pc' \in [Requests -> Steps]
    BY <1>2 DEF Unlock, States, Steps
  <2>2. cooled' \in BOOLEAN /\ mu' \in BOOLEAN /\ alive' \in BOOLEAN
    BY <1>2, Zenon DEF Unlock
  <2>3. simulating' \in BOOLEAN
    BY <1>2, Zenon DEF Unlock, TypeOK
  <2> QED BY <2>1, <2>2, <2>3, Zenon DEF TypeOK
<1> QED BY <1>1, <1>2

\* A request inside Allow, Push, Success or Failure keeps every type.
LEMMA StepKeepsTypes ==
    ASSUME TypeOK, NEW r \in Requests, Step(r)
    PROVE  TypeOK'
<1> USE DEF TypeOK, States, Steps, AllowSteps, SuccessSteps, FailureSteps
<1> USE DEF Goto, breakerVars
<1>1. CASE Allow(r)
  <2>1. CASE AllowLoad(r)     BY <2>1 DEF AllowLoad
  <2>2. CASE AllowCooldown(r) BY <2>2 DEF AllowCooldown
  <2>3. CASE AllowCAS(r)      BY <2>3 DEF AllowCAS
  <2>4. CASE AllowTryLock(r)  BY <2>4 DEF AllowTryLock
  <2> QED BY <1>1, <2>1, <2>2, <2>3, <2>4 DEF Allow
<1>2. CASE Push(r)
  BY <1>2 DEF Push
<1>3. CASE Success(r)
  <2>1. CASE SuccessZero(r)   BY <2>1 DEF SuccessZero
  <2>2. CASE SuccessLoad(r)   BY <2>2 DEF SuccessLoad
  <2>3. CASE SuccessUnlock(r)
    BY <2>3, UnlockKeepsTypes DEF SuccessUnlock
  <2>4. CASE SuccessStore(r)  BY <2>4 DEF SuccessStore
  <2> QED BY <1>3, <2>1, <2>2, <2>3, <2>4 DEF Success
<1>4. CASE Failure(r)
  <2>1. CASE FailureTime(r)   BY <2>1 DEF FailureTime
  <2>2. CASE FailureLoad(r)   BY <2>2 DEF FailureLoad
  <2>3. CASE FailureUnlock(r)
    BY <2>3, UnlockKeepsTypes DEF FailureUnlock
  <2>4. CASE FailureReopen(r) BY <2>4 DEF FailureReopen
  <2>5. CASE FailureCount(r)  BY <2>5 DEF FailureCount
  <2>6. CASE FailureTrip(r)   BY <2>6 DEF FailureTrip
  <2> QED BY <1>4, <2>1, <2>2, <2>3, <2>4, <2>5, <2>6 DEF Failure
<1> QED BY <1>1, <1>2, <1>3, <1>4 DEF Step

\* A step moves its own request only, or ends the process with all of them.
LEMMA StepMovesOne ==
    ASSUME TypeOK, NEW r \in Requests, Step(r)
    PROVE  /\ UNCHANGED simulating
           /\ \/ alive' = alive /\ \A q \in Requests \ {r} : pc'[q] = pc[q]
              \/ ~alive' /\ \A q \in Requests : pc'[q] = "idle"
<1> USE DEF TypeOK, Goto, Unlock
<1>1. CASE Allow(r)
  BY <1>1 DEF Allow, AllowLoad, AllowCooldown, AllowCAS, AllowTryLock
<1>2. CASE Push(r)
  BY <1>2 DEF Push
<1>3. CASE Success(r)
  BY <1>3 DEF Success, SuccessZero, SuccessLoad, SuccessUnlock, SuccessStore
<1>4. CASE Failure(r)
  BY <1>4 DEF Failure, FailureTime, FailureLoad, FailureUnlock, FailureReopen,
              FailureCount, FailureTrip
<1> QED BY <1>1, <1>2, <1>3, <1>4 DEF Step

\* Every variable keeps its type through every interleaving of the atomic
\* steps of Allow, Success and Failure, the fatal unlock and the restart.
THEOREM TypeCorrect == Spec => []TypeOK
<1>1. Init => TypeOK
  <2> SUFFICES ASSUME Init PROVE TypeOK
    OBVIOUS
  <2>1. failures \in Nat
    BY DEF Init
  <2>2. state \in States /\ pc \in [Requests -> Steps]
    BY DEF Init, States, Steps
  <2>3. mu \in BOOLEAN /\ cooled \in BOOLEAN
    BY Zenon DEF Init
  <2>4. alive \in BOOLEAN /\ simulating \in BOOLEAN
    BY Zenon DEF Init
  <2> QED BY <2>1, <2>2, <2>3, <2>4, Zenon DEF TypeOK
<1>2. TypeOK /\ [Next]_vars => TypeOK'
  <2> SUFFICES ASSUME TypeOK, [Next]_vars PROVE TypeOK'
    OBVIOUS
  <2> USE DEF TypeOK, States, Steps, AllowSteps, SuccessSteps, FailureSteps
  <2> USE DEF Goto, breakerVars
  <2>1. ASSUME NEW r \in Requests, Begin(r) PROVE TypeOK'
    BY <2>1 DEF Begin
  <2>2. ASSUME NEW r \in Requests, Step(r) PROVE TypeOK'
    BY <2>2, StepKeepsTypes
  <2>3. CASE Restart
    BY <2>3 DEF Restart
  <2>4. CASE Environment
    BY <2>4 DEF Environment, CooldownElapses, SimulateFailure,
                SimulateRecovery
  <2>5. CASE UNCHANGED vars
    BY <2>5 DEF vars
  <2> QED BY <2>1, <2>2, <2>3, <2>4, <2>5 DEF Next
<1> QED BY <1>1, <1>2, PTL DEF Spec

-----------------------------------------------------------------------------
\* Moving a request from one step to another disturbs no other request, and
\* the mover stays among the probers when the new step is one of theirs.
LEMMA GotoKeepsProber ==
    ASSUME TypeOK, NEW r \in Requests, NEW from, NEW to, Goto(r, from, to),
           to \in Deciding \/ from \notin Deciding,
           \E q \in Requests : pc[q] \in Deciding
    PROVE  \E q \in Requests : pc'[q] \in Deciding
<1> PICK q \in Requests : pc[q] \in Deciding
  OBVIOUS
<1>1. CASE q = r
  <2>1. from = pc[r] /\ pc'[r] = to
    BY DEF Goto, TypeOK
  <2> QED BY <1>1, <2>1
<1>2. CASE q # r
  BY <1>2 DEF Goto, TypeOK
<1> QED BY <1>1, <1>2

\* Whatever a request does inside Allow, Push, Success or Failure, it does not
\* leave a half-open breaker without a prober.
LEMMA StepKeepsProber ==
    ASSUME TypeOK, HalfOpenHasProber, NEW r \in Requests, Step(r)
    PROVE  HalfOpenHasProber'
<1> DEFINE Attended == \E q \in Requests : pc[q] \in Deciding
<1> SUFFICES ASSUME state' = "HalfOpen" PROVE Attended'
  BY DEF HalfOpenHasProber
<1>0. state = "HalfOpen" => Attended
  BY DEF HalfOpenHasProber
<1> HIDE DEF Attended
<1>a. ASSUME NEW from, NEW to, Goto(r, from, to),
             state = "HalfOpen", to \in Deciding \/ from \notin Deciding
      PROVE  Attended'
  BY <1>a, <1>0, GotoKeepsProber DEF Attended
<1> USE DEF breakerVars
<1>1. CASE Allow(r)
  <2>1. CASE AllowLoad(r)
    BY <2>1, <1>a DEF AllowLoad, Deciding, SuccessSteps
  <2>2. CASE AllowCooldown(r)
    BY <2>2, <1>a DEF AllowCooldown, Deciding, SuccessSteps
  <2>3. CASE AllowCAS(r)
    <3>1. CASE state = "Open"
      BY <2>3, <3>1 DEF AllowCAS, Goto, TypeOK, Attended, Deciding
    <3>2. CASE state # "Open"
      BY <2>3, <3>2, <1>a DEF AllowCAS, Deciding, SuccessSteps
    <3> QED BY <3>1, <3>2
  <2>4. CASE AllowTryLock(r)
    BY <2>4, <1>a DEF AllowTryLock, Deciding, SuccessSteps
  <2> QED BY <1>1, <2>1, <2>2, <2>3, <2>4 DEF Allow
<1>2. CASE Push(r)
  BY <1>2, <1>a DEF Push, Deciding, SuccessSteps
<1>3. CASE Success(r)
  <2>1. CASE SuccessZero(r)
    BY <2>1, <1>a DEF SuccessZero, Deciding, SuccessSteps
  <2>2. CASE SuccessLoad(r)
    BY <2>2, <1>a DEF SuccessLoad, Deciding, SuccessSteps
  <2>3. CASE SuccessUnlock(r)
    BY <2>3, <1>a DEF SuccessUnlock, Unlock, Deciding, SuccessSteps
  <2>4. CASE SuccessStore(r)
    BY <2>4 DEF SuccessStore
  <2> QED BY <1>3, <2>1, <2>2, <2>3, <2>4 DEF Success
<1>4. CASE Failure(r)
  <2>1. CASE FailureTime(r)
    BY <2>1, <1>a DEF FailureTime, Deciding, SuccessSteps
  <2>2. CASE FailureLoad(r)
    BY <2>2, <1>a DEF FailureLoad, Deciding, SuccessSteps
  <2>3. CASE FailureUnlock(r)
    BY <2>3, <1>a DEF FailureUnlock, Unlock, Deciding, SuccessSteps
  <2>4. CASE FailureReopen(r)
    BY <2>4 DEF FailureReopen
  <2>5. CASE FailureCount(r)
    BY <2>5, <1>a DEF FailureCount, Deciding, SuccessSteps
  <2>6. CASE FailureTrip(r)
    BY <2>6 DEF FailureTrip
  <2> QED BY <1>4, <2>1, <2>2, <2>3, <2>4, <2>5, <2>6 DEF Failure
<1> QED BY <1>1, <1>2, <1>3, <1>4 DEF Step

\* A half-open breaker always has a request under way that will settle it: no
\* interleaving of Allow, Success and Failure strands the breaker in HALF_OPEN.
THEOREM HalfOpenIsAttended == Spec => []HalfOpenHasProber
<1>1. Init => HalfOpenHasProber
  BY DEF Init, HalfOpenHasProber
<1>2. TypeOK /\ HalfOpenHasProber /\ [Next]_vars => HalfOpenHasProber'
  <2> SUFFICES ASSUME TypeOK, HalfOpenHasProber, [Next]_vars
               PROVE  HalfOpenHasProber'
    OBVIOUS
  <2>a. ASSUME UNCHANGED <<state, pc>> PROVE HalfOpenHasProber'
    BY <2>a DEF HalfOpenHasProber
  <2>1. ASSUME NEW r \in Requests, Begin(r) PROVE HalfOpenHasProber'
    <3>1. /\ Goto(r, "idle", IF simulating THEN "f_time" ELSE "load")
          /\ state' = state
      BY <2>1 DEF Begin, breakerVars
    <3> QED BY <3>1, GotoKeepsProber DEF HalfOpenHasProber, Deciding, SuccessSteps
  <2>2. ASSUME NEW r \in Requests, Step(r) PROVE HalfOpenHasProber'
    BY <2>2, StepKeepsProber
  <2>3. CASE Restart
    BY <2>3, <2>a DEF Restart, breakerVars
  <2>4. CASE Environment
    BY <2>4, <2>a DEF Environment, CooldownElapses, SimulateFailure,
                      SimulateRecovery, breakerVars
  <2>5. CASE UNCHANGED vars
    BY <2>5, <2>a DEF vars, breakerVars
  <2> QED BY <2>1, <2>2, <2>3, <2>4, <2>5 DEF Next
<1> QED BY TypeCorrect, <1>1, <1>2, PTL DEF Spec

-----------------------------------------------------------------------------
\* Nobody is in the second half of Allow or Success, and a failure is at most
\* being counted: what requests look like before the first trip.
Quiet ==
    /\ state = "Closed"
    /\ alive
    /\ \A r \in Requests :
           pc[r] \in {"idle", "load", "push", "s_zero", "s_load",
                      "f_time", "f_load", "f_count"}

\* A request keeps the breaker quiet, successful or not, unless it is the one
\* that counts the failure which makes the threshold full.
LEMMA StepKeepsQuiet ==
    ASSUME TypeOK, Quiet, failures' < Threshold, NEW r \in Requests, Step(r)
    PROVE  Quiet'
<1> USE DEF Quiet, TypeOK, Goto, breakerVars
<1>1. CASE Allow(r)
  BY <1>1 DEF Allow, AllowLoad, AllowCooldown, AllowCAS, AllowTryLock
<1>2. CASE Push(r)
  BY <1>2 DEF Push
<1>3. CASE Success(r)
  BY <1>3 DEF Success, SuccessZero, SuccessLoad, SuccessUnlock, SuccessStore, Unlock
<1>4. CASE Failure(r)
  <2>1. CASE FailureTime(r) \/ FailureLoad(r)
    BY <2>1 DEF FailureTime, FailureLoad
  <2>2. CASE FailureCount(r)
    <3>1. failures' \in Nat /\ ~(failures' >= Threshold)
      BY <2>2, ThresholdAssumption DEF FailureCount
    <3> QED BY <2>2, <3>1 DEF FailureCount
  <2>3. CASE FailureUnlock(r) \/ FailureReopen(r) \/ FailureTrip(r)
    BY <2>3 DEF FailureUnlock, FailureReopen, FailureTrip, Unlock
  <2> QED BY <1>4, <2>1, <2>2, <2>3 DEF Failure
<1> QED BY <1>1, <1>2, <1>3, <1>4 DEF Step

\* As long as successes keep the count of failures below the threshold, neither
\* failures of Kafka, nor expired requests, nor the simulation open the breaker,
\* in whatever order the steps of their reports come; and the fatal unlock is
\* out of reach: it takes a trip to end the process.
THEOREM OnlyThresholdTrips == Spec => TripTakesThreshold
<1>1. Init => Quiet
  BY DEF Init, Quiet
<1>2. TypeOK /\ Quiet /\ (failures < Threshold)' /\ [Next]_vars => Quiet'
  <2> SUFFICES ASSUME TypeOK, Quiet, failures' < Threshold, [Next]_vars PROVE Quiet'
    OBVIOUS
  <2>1. ASSUME UNCHANGED <<state, pc>>, alive' PROVE Quiet'
    BY <2>1 DEF Quiet
  <2>2. ASSUME NEW r \in Requests, Begin(r) PROVE Quiet'
    BY <2>2 DEF Begin, Goto, Quiet, TypeOK, breakerVars
  <2>3. ASSUME NEW r \in Requests, Step(r) PROVE Quiet'
    BY <2>3, StepKeepsQuiet
  <2> QED BY <2>1, <2>2, <2>3 DEF Quiet, Next, Restart, Environment, CooldownElapses,
          SimulateFailure, SimulateRecovery, vars, breakerVars
<1>3. Quiet => state = "Closed" /\ alive
  BY DEF Quiet
<1> QED BY TypeCorrect, <1>1, <1>2, <1>3, PTL DEF Spec, TripTakesThreshold
=============================================================================
