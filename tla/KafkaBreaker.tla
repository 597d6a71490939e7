---------------------------- MODULE KafkaBreaker ----------------------------
(***************************************************************************)
(* The circuit breaker that guards the Kafka producer of the appointment   *)
(* RPC service (breaker/kafkaBreaker.go), with the part of                 *)
(* CreateAppointment that calls it.  Every request is a goroutine, and     *)
(* every access to an atomic or to the mutex is one action, so the model   *)
(* has all the interleavings the Go program has.                           *)
(*                                                                         *)
(* Three fields drive the protocol: state, failures and lastFailTime.  The *)
(* clock is abstracted to what Allow asks of it: cooled says whether more  *)
(* than the cooldown has passed since lastFailTime.  The successes counter *)
(* only feeds Stats and is left out.                                       *)
(***************************************************************************)
EXTENDS Naturals

CONSTANTS
    Requests,   (* the goroutines that may be inside CreateAppointment       *)
    Threshold   (* KafkaBreaker.Threshold of the configuration               *)

\* Nothing in the code keeps the configured threshold from being zero.
ASSUME ThresholdAssumption == Threshold \in Nat

VARIABLES
    state,       (* KafkaBreaker.state                                       *)
    failures,    (* KafkaBreaker.failures                                    *)
    cooled,      (* time.Since(lastFailTime) > cooldown                      *)
    mu,          (* KafkaBreaker.mu is locked                                *)
    pc,          (* where each request is, between two atomic steps          *)
    alive,       (* the RPC process runs                                     *)
    simulating   (* Redis key simulate:kafka:failure is "1"                  *)

breakerVars == <<state, failures, cooled, mu>>
vars == <<breakerVars, pc, alive, simulating>>

States == {"Closed", "Open", "HalfOpen"}

\* Inside Allow, inside Push, inside Success, inside Failure.
AllowSteps   == {"load", "cooldown", "cas", "trylock"}
SuccessSteps == {"s_zero", "s_load", "s_unlock", "s_store"}
FailureSteps == {"f_time", "f_load", "f_unlock", "f_reopen", "f_count", "f_trip"}
Steps == {"idle", "push"} \cup AllowSteps \cup SuccessSteps \cup FailureSteps

TypeOK ==
    /\ state \in States
    /\ failures \in Nat
    /\ cooled \in BOOLEAN
    /\ mu \in BOOLEAN
    /\ pc \in [Requests -> Steps]
    /\ alive \in BOOLEAN
    /\ simulating \in BOOLEAN

-----------------------------------------------------------------------------
\* NewKafkaBreaker: the zero lastFailTime lies further back than any cooldown.
Init ==
    /\ state = "Closed"
    /\ failures = 0
    /\ cooled = TRUE
    /\ mu = FALSE
    /\ pc = [r \in Requests |-> "idle"]
    /\ alive = TRUE
    /\ simulating = FALSE

\* Request r moves on from one step to the next; the process keeps running.
Goto(r, from, to) ==
    /\ pc[r] = from
    /\ pc' = [pc EXCEPT ![r] = to]
    /\ UNCHANGED <<alive, simulating>>

\* A request whose Lua script reserved a slot: with the failure simulation on,
\* CreateAppointment reports a failure without having asked Allow.
Begin(r) ==
    /\ alive
    /\ Goto(r, "idle", IF simulating THEN "f_time" ELSE "load")
    /\ UNCHANGED breakerVars

-----------------------------------------------------------------------------
(* Allow.  A refused request degrades its order and is done with the breaker. *)

AllowLoad(r) ==
    /\ Goto(r, "load", CASE state = "Closed"   -> "push"
                         [] state = "Open"     -> "cooldown"
                         [] state = "HalfOpen" -> "trylock")
    /\ UNCHANGED breakerVars

\* Variant: the comparison with the cooldown is the wrong way round.
AllowCooldownInverted(r) ==
    /\ Goto(r, "cooldown", IF ~cooled THEN "cas" ELSE "idle")
    /\ UNCHANGED breakerVars

AllowCooldown(r) ==
    /\ Goto(r, "cooldown", IF cooled THEN "cas" ELSE "idle")
    /\ UNCHANGED breakerVars

\* Variant: Allow falls through to its "return false" after the swap.
AllowCASRefusing(r) ==
    /\ Goto(r, "cas", "idle")
    /\ state' = IF state = "Open" THEN "HalfOpen" ELSE state
    /\ UNCHANGED <<failures, cooled, mu>>

\* CompareAndSwap(Open, HalfOpen): the winner is let through without the mutex.
AllowCAS(r) ==
    /\ Goto(r, "cas", IF state = "Open" THEN "push" ELSE "idle")
    /\ state' = IF state = "Open" THEN "HalfOpen" ELSE state
    /\ UNCHANGED <<failures, cooled, mu>>

AllowTryLock(r) ==
    /\ Goto(r, "trylock", IF mu THEN "idle" ELSE "push")
    /\ mu' = TRUE
    /\ UNCHANGED <<state, failures, cooled>>

-----------------------------------------------------------------------------
(* KqPusherClient.Push, and the report that follows it.  The push runs under  *)
(* l.ctx: it fails if the broker does not take the message and also if the    *)
(* request was cancelled or its deadline is over, so that it may fail at any  *)
(* time, in front of a healthy broker as well.                                *)

Push(r) ==
    /\ Goto(r, "push", "s_zero") \/ Goto(r, "push", "f_time")
    /\ UNCHANGED breakerVars

-----------------------------------------------------------------------------
(* Unlocking a mutex that is not locked is a fatal error of the Go runtime:   *)
(* recover does not catch it and the process ends, with every request in      *)
(* flight.  A new process starts from the values of Init.                     *)

Unlock(r, from, to) ==
    /\ pc[r] = from
    /\ IF mu
       THEN /\ Goto(r, from, to)
            /\ mu' = FALSE
            /\ UNCHANGED <<state, failures, cooled>>
       ELSE /\ alive' = FALSE
            /\ pc' = [q \in Requests |-> "idle"]
            /\ state' = "Closed" /\ failures' = 0 /\ cooled' = TRUE /\ mu' = FALSE
            /\ UNCHANGED simulating

\* docker-compose restarts the container (restart: always).
Restart ==
    /\ ~alive
    /\ alive' = TRUE
    /\ UNCHANGED <<breakerVars, pc, simulating>>

-----------------------------------------------------------------------------
(* Success.                                                                   *)

SuccessZero(r) ==
    /\ Goto(r, "s_zero", "s_load")
    /\ failures' = 0
    /\ UNCHANGED <<state, cooled, mu>>

\* Variant: the half-open case of Success is written for the open state.
SuccessLoadOpen(r) ==
    /\ Goto(r, "s_load", IF state = "Open" THEN "s_unlock" ELSE "idle")
    /\ UNCHANGED breakerVars

SuccessLoad(r) ==
    /\ Goto(r, "s_load", IF state = "HalfOpen" THEN "s_unlock" ELSE "idle")
    /\ UNCHANGED breakerVars

SuccessUnlock(r) == Unlock(r, "s_unlock", "s_store")

\* Variant: the store names a value outside the three states.
SuccessStoreUnknown(r) ==
    /\ Goto(r, "s_store", "idle")
    /\ state' = "Unknown"
    /\ UNCHANGED <<failures, cooled, mu>>

SuccessStore(r) ==
    /\ Goto(r, "s_store", "idle")
    /\ state' = "Closed"
    /\ UNCHANGED <<failures, cooled, mu>>

-----------------------------------------------------------------------------
(* Failure.                                                                   *)

FailureTime(r) ==
    /\ Goto(r, "f_time", "f_load")
    /\ cooled' = FALSE
    /\ UNCHANGED <<state, failures, mu>>

FailureLoad(r) ==
    /\ Goto(r, "f_load", CASE state = "Closed"   -> "f_count"
                           [] state = "Open"     -> "idle"
                           [] state = "HalfOpen" -> "f_unlock")
    /\ UNCHANGED breakerVars

FailureUnlock(r) == Unlock(r, "f_unlock", "f_reopen")

FailureReopen(r) ==
    /\ Goto(r, "f_reopen", "idle")
    /\ state' = "Open"
    /\ UNCHANGED <<failures, cooled, mu>>

\* Variant: the count is compared before the failure at hand is added to it.
FailureCountEarly(r) ==
    /\ failures' = failures + 1
    /\ Goto(r, "f_count", IF failures' + 1 >= Threshold THEN "f_trip" ELSE "idle")
    /\ UNCHANGED <<state, cooled, mu>>

\* Variant: the count is stored and not added to.
FailureCountStoring(r) ==
    /\ failures' = 1
    /\ Goto(r, "f_count", IF failures' >= Threshold THEN "f_trip" ELSE "idle")
    /\ UNCHANGED <<state, cooled, mu>>

FailureCount(r) ==
    /\ failures' = failures + 1
    /\ Goto(r, "f_count", IF failures' >= Threshold THEN "f_trip" ELSE "idle")
    /\ UNCHANGED <<state, cooled, mu>>

FailureTrip(r) ==
    /\ Goto(r, "f_trip", "idle")
    /\ state' = "Open"
    /\ UNCHANGED <<failures, cooled, mu>>

-----------------------------------------------------------------------------
(* The environment: the clock and the administrator.                          *)

CooldownElapses ==
    /\ ~cooled
    /\ cooled' = TRUE
    /\ UNCHANGED <<state, failures, mu, pc, alive, simulating>>

SimulateFailure ==
    /\ simulating' = TRUE
    /\ UNCHANGED <<breakerVars, pc, alive>>

SimulateRecovery ==
    /\ simulating' = FALSE
    /\ UNCHANGED <<breakerVars, pc, alive>>

-----------------------------------------------------------------------------
Allow(r) == AllowLoad(r) \/ AllowCooldown(r) \/ AllowCAS(r) \/ AllowTryLock(r)

Success(r) ==
    SuccessZero(r) \/ SuccessLoad(r) \/ SuccessUnlock(r) \/ SuccessStore(r)

Failure(r) ==
    \/ FailureTime(r) \/ FailureLoad(r) \/ FailureUnlock(r)
    \/ FailureReopen(r) \/ FailureCount(r) \/ FailureTrip(r)

\* Whatever r does next once it has begun.
Step(r) == Allow(r) \/ Push(r) \/ Success(r) \/ Failure(r)

Environment ==
    \/ CooldownElapses
    \/ SimulateFailure \/ SimulateRecovery

Next ==
    \/ \E r \in Requests : Begin(r) \/ Step(r)
    \/ Restart
    \/ Environment

Spec == Init /\ [][Next]_vars

\* The Go scheduler runs every runnable goroutine, time passes, and the
\* container is restarted.  Requests, their contexts and Kafka owe us nothing.
Fairness ==
    /\ \A r \in Requests : WF_vars(Step(r))
    /\ WF_vars(CooldownElapses)
    /\ WF_vars(Restart)

FairSpec == Spec /\ Fairness

-----------------------------------------------------------------------------
(* Properties.                                                                *)

\* Steps of a request that was let through or reports a failure, and has not
\* found out that the breaker is in some other state than HALF_OPEN.
Deciding ==
    {"push"} \cup SuccessSteps \cup {"f_time", "f_load", "f_unlock", "f_reopen"}

\* A half-open breaker always has a request under way whose report will take
\* it out of that state: Allow never leaves HALF_OPEN behind with nobody left
\* to settle it, whatever the interleaving of probes and late reports.
HalfOpenHasProber ==
    state = "HalfOpen" => \E r \in Requests : pc[r] \in Deciding

\* HALF_OPEN is temporary: the breaker always leaves it.
HalfOpenResolves == []<>(state # "HalfOpen")

\* The simulation is off, and no request has a failure to report: Kafka takes
\* the messages, and no context ends before its push does.
Healthy == ~simulating /\ \A r \in Requests : pc[r] # "f_time"

\* Once failures have stopped for good, and as long as requests keep asking
\* Allow, the breaker ends up closed for good, whatever late reports, leaked
\* locks and fatal unlocks the time of failures has left behind.
RecoversUnderTraffic ==
    /\ <>[]Healthy
    /\ []<>(\E r \in Requests : pc[r] = "load")
    => <>[](state = "Closed")

\* "CLOSED: Threshold failures in a row open the breaker": as long as the count
\* stays below, because successes zero it between failures, the breaker stays
\* closed and the process lives, however requests, expired ones among them, and
\* the atomic steps of their reports interleave.
TripTakesThreshold ==
    [](failures < Threshold) => [](state = "Closed" /\ alive)

\* Once no push succeeds any more and failures keep being reported, the breaker
\* opens again and again: a late Success that stored CLOSED over a trip, or
\* zeroed the count under it, does not keep the breaker shut for long.
OpensUnderFailures ==
    /\ <>[](\A r \in Requests : pc[r] \notin SuccessSteps)
    /\ []<>(\E r \in Requests : pc[r] = "f_time")
    => []<>(state = "Open")

\* "After the 30s cooldown the breaker recovers by itself": once failures have
\* stopped for good the breaker closes, whether or not anybody books.
RecoversByItself == <>[]Healthy => <>[](state = "Closed")

\* "A successful probe closes the breaker, a failed one opens it again": the
\* report of a half-open request finds the mutex it is about to release locked,
\* so that it goes on to the store rather than ending the process.
ProbeReportSettles ==
    \A r \in Requests : pc[r] \in {"s_unlock", "f_unlock"} => mu
=============================================================================
