---------------------------- MODULE GatewayProofs ----------------------------
(***************************************************************************)
(* Proofs about Gateway, for any clients, requests, quotas and threshold.  *)
(*                                                                         *)
(* The breaker middleware takes the steps of KafkaBreaker, so the lemmas   *)
(* of KafkaBreakerProofs say what a guarded request does to it.  Left to   *)
(* show here is that the rest of the chain, and Reset above all, does not  *)
(* disturb that.                                                           *)
(***************************************************************************)
EXTENDS Gateway, TLAPS

K == INSTANCE KafkaBreakerProofs WITH simulating <- 1 = 0

\* A request inside the chain is one that a client sent.
RequestsAreKnown ==
    \A r \in Requests : at[r] \notin {"idle", "answered"} => req[r] \in Traffic

\* The gateway takes its requests with it.
DeadIsEmpty ==
    ~alive => \A r \in Requests : at[r] = "idle"

ChainInv ==
    /\ TypeOK
    /\ RequestsAreKnown
    /\ DeadIsEmpty
    /\ CanaryTouchesNothing

-----------------------------------------------------------------------------
\* A guarded request takes a step of the breaker.
LEMMA GuardedIsStep ==
    ASSUME NEW r \in Requests, Guarded(r)
    PROVE  K!Step(r)
<1>0. Core!Allow(r) \/ Core!Push(r) \/ Core!Success(r) \/ Core!Failure(r)
  BY DEF Guarded, Call, Statuses, Core!Push, breakerVars, Core!breakerVars
<1>1. ASSUME NEW from, NEW to, Core!Goto(r, from, to) PROVE K!Goto(r, from, to)
  BY <1>1 DEF Core!Goto, K!Goto
<1>2. ASSUME NEW from, NEW to, Core!Unlock(r, from, to) PROVE K!Unlock(r, from, to)
  BY <1>2 DEF Core!Unlock, K!Unlock, Core!Goto, K!Goto
<1>3. Core!breakerVars = K!breakerVars
  BY DEF Core!breakerVars, K!breakerVars
<1>4. CASE Core!Allow(r)
  BY <1>4, <1>1 DEF Core!Allow, K!Allow, K!Step, Core!AllowLoad, K!AllowLoad,
     Core!AllowCooldown, K!AllowCooldown, Core!AllowCAS, K!AllowCAS, Core!AllowTryLock,
     K!AllowTryLock, Core!breakerVars, K!breakerVars
<1>5. CASE Core!Push(r)
  BY <1>5, <1>1 DEF Core!Push, K!Push, K!Step, Core!breakerVars, K!breakerVars
<1>6. CASE Core!Success(r)
  BY <1>6, <1>1, <1>2 DEF Core!Success, K!Success, K!Step, Core!SuccessZero, K!SuccessZero,
     Core!SuccessLoad, K!SuccessLoad, Core!SuccessUnlock, K!SuccessUnlock,
     Core!SuccessStore, K!SuccessStore, Core!breakerVars, K!breakerVars
<1>7. CASE Core!Failure(r)
  BY <1>7, <1>1, <1>2 DEF Core!Failure, K!Failure, K!Step, Core!FailureTime, K!FailureTime,
     Core!FailureLoad, K!FailureLoad, Core!FailureUnlock, K!FailureUnlock,
     Core!FailureReopen, K!FailureReopen, Core!FailureCount, K!FailureCount,
     Core!FailureTrip, K!FailureTrip, Core!breakerVars, K!breakerVars
<1> QED BY <1>0, <1>4, <1>5, <1>6, <1>7

\* The instances of KafkaBreaker agree on types.
LEMMA BreakerTypes ==
    TypeOK => K!TypeOK
<1> SUFFICES ASSUME TypeOK PROVE K!TypeOK
  OBVIOUS
<1>1. /\ state \in K!States /\ failures \in Nat
      /\ pc \in [Requests -> K!Steps]
  BY DEF TypeOK, K!States, K!Steps, Core!States, Core!Steps, K!AllowSteps, Core!AllowSteps,
         K!SuccessSteps, Core!SuccessSteps, K!FailureSteps, Core!FailureSteps
<1>2. cooled \in BOOLEAN /\ mu \in BOOLEAN /\ alive \in BOOLEAN
  BY Zenon DEF TypeOK
<1>3. (1 = 0) \in BOOLEAN
  OBVIOUS
<1> QED BY <1>1, <1>2, <1>3, Zenon DEF K!TypeOK

\* Going on in the chain, without the breaker.
LEMMA MoveKeepsChain ==
    ASSUME ChainInv, NEW r \in Requests, NEW from, NEW to \in Places,
           Move(r, from, to), from \notin {"idle", "guarded"}, to # "guarded",
           from = "answered" => to = "idle",
           to = "canary" => req[r].route = "book" /\ req[r].user \in Stained,
           to = "reserved" => req[r].user \notin Stained,
           UNCHANGED <<cooled, mu, pc>>,
           state' \in Core!States, failures' \in Nat,
           ipUsed' \in [Ips -> 0 .. IpQuota], userUsed' \in [Users -> 0 .. UserQuota]
    PROVE  ChainInv'
<1> USE DEF ChainInv
<1>1. /\ at[r] = from /\ at' = [at EXCEPT ![r] = to]
      /\ req' = IF to \in {"idle", "answered"} THEN [req EXCEPT ![r] = NoRequest] ELSE req
      /\ alive' = alive
  BY DEF Move
<1>2. at \in [Requests -> Places] /\ req \in [Requests -> Traffic \cup {NoRequest}]
  BY DEF TypeOK
<1>3. at' \in [Requests -> Places] /\ req' \in [Requests -> Traffic \cup {NoRequest}]
  BY <1>1, <1>2
<1>4. pc' \in [Requests -> Core!Steps]
  BY DEF TypeOK
<1>5. \A q \in Requests : pc'[q] # "idle" => at'[q] = "guarded"
  BY <1>1, <1>2 DEF TypeOK
<1>6. cooled' \in BOOLEAN /\ mu' \in BOOLEAN /\ alive' \in BOOLEAN
  BY <1>1, Zenon DEF TypeOK
<1>7. TypeOK'
  BY <1>3, <1>4, <1>5, <1>6, Zenon DEF TypeOK
<1>8. RequestsAreKnown'
  BY <1>1, <1>2 DEF RequestsAreKnown
<1>9. DeadIsEmpty'
  BY <1>1, <1>2 DEF DeadIsEmpty
<1>10. CanaryTouchesNothing'
  BY <1>1, <1>2 DEF CanaryTouchesNothing
<1> QED BY <1>7, <1>8, <1>9, <1>10

\* The breaker middleware: a request moves on inside it, or leaves it, or a fatal
\* unlock sends all requests home.
LEMMA GuardedKeepsChain ==
    ASSUME ChainInv, NEW r \in Requests, Guarded(r)
    PROVE  ChainInv'
<1> USE DEF ChainInv
<1>1. K!Step(r) /\ K!TypeOK
  BY GuardedIsStep, BreakerTypes
<1>2. K!TypeOK'
  BY <1>1, GatewayAssumption, K!StepKeepsTypes DEF GatewayAssumption
<1>3. \/ alive' = alive /\ \A q \in Requests \ {r} : pc'[q] = pc[q]
      \/ ~alive' /\ \A q \in Requests : pc'[q] = "idle"
  BY <1>1, GatewayAssumption, K!StepMovesOne DEF GatewayAssumption
<1>4. /\ at[r] = "guarded"
      /\ at' = [q \in Requests |->
                   IF ~alive' \/ (q = r /\ pc'[r] = "idle") THEN "idle" ELSE at[q]]
      /\ req' = [q \in Requests |-> IF at'[q] = "idle" THEN NoRequest ELSE req[q]]
      /\ ipUsed' = ipUsed /\ userUsed' = userUsed
  BY DEF Guarded, limitVars
<1>5. at \in [Requests -> Places] /\ req \in [Requests -> Traffic \cup {NoRequest}]
  BY DEF TypeOK
<1>6. alive
  BY <1>4 DEF DeadIsEmpty
<1>7. at' \in [Requests -> Places] /\ req' \in [Requests -> Traffic \cup {NoRequest}]
  BY <1>4, <1>5 DEF Places
<1>8. state' \in Core!States /\ failures' \in Nat /\ pc' \in [Requests -> Core!Steps]
  BY <1>2 DEF K!TypeOK, K!States, K!Steps, Core!States, Core!Steps, K!AllowSteps,
     Core!AllowSteps, K!SuccessSteps, Core!SuccessSteps, K!FailureSteps, Core!FailureSteps
<1>9. cooled' \in BOOLEAN /\ mu' \in BOOLEAN /\ alive' \in BOOLEAN
  BY <1>2, Zenon DEF K!TypeOK
<1>10. \A q \in Requests : pc'[q] # "idle" => at'[q] = "guarded"
  BY <1>3, <1>4, <1>6 DEF TypeOK
<1>11. ipUsed' \in [Ips -> 0 .. IpQuota] /\ userUsed' \in [Users -> 0 .. UserQuota]
  BY <1>4 DEF TypeOK
<1>12. TypeOK'
  BY <1>7, <1>8, <1>9, <1>10, <1>11, Zenon DEF TypeOK
<1>13. RequestsAreKnown' /\ DeadIsEmpty' /\ CanaryTouchesNothing'
  BY <1>4, <1>5 DEF RequestsAreKnown, DeadIsEmpty, CanaryTouchesNothing
<1> QED BY <1>12, <1>13

\* The rate limit takes no more tokens than there are, and passes a request on to
\* the breaker only from outside of it.
LEMMA LimitsKeepChain ==
    ASSUME ChainInv, NEW r \in Requests, TakeIp(r) \/ TakeUser(r)
    PROVE  ChainInv'
<1> USE GatewayAssumption DEF GatewayAssumption
<1>0. /\ TypeOK /\ state \in Core!States /\ failures \in Nat
      /\ ipUsed \in [Ips -> 0 .. IpQuota] /\ userUsed \in [Users -> 0 .. UserQuota]
  BY DEF ChainInv, TypeOK
<1>1. ASSUME NEW place \in {"ip", "user"}, Refuse(r, place) PROVE ChainInv'
  <2>1. Move(r, place, "idle") /\ UNCHANGED <<breakerVars, pc, limitVars>>
    BY <1>1 DEF Refuse
  <2>2. "idle" \in Places
    BY DEF Places
  <2> QED BY <1>0, <2>1, <2>2, MoveKeepsChain DEF breakerVars, limitVars
<1>2. ASSUME TakeIp(r), Move(r, "ip", "user") PROVE ChainInv'
  <2>1. CASE Refuse(r, "ip")
    BY <2>1, <1>1
  <2>2. CASE ~Refuse(r, "ip")
    <3>1. /\ ipUsed[req[r].ip] < IpQuota
          /\ ipUsed' = [ipUsed EXCEPT ![req[r].ip] = @ + 1]
          /\ UNCHANGED <<breakerVars, pc, userUsed>>
      BY <2>2, <1>2 DEF TakeIp
    <3>2. at[r] = "ip" /\ req[r] \in Traffic
      BY <1>2 DEF Move, ChainInv, RequestsAreKnown
    <3>3. req[r].ip \in Ips
      BY <3>2 DEF Request
    <3>4. ipUsed' \in [Ips -> 0 .. IpQuota]
      BY <1>0, <3>1, <3>3
    <3>5. "user" \in Places
      BY DEF Places
    <3> QED BY <1>0, <1>2, <3>1, <3>4, <3>5, MoveKeepsChain DEF breakerVars
  <2> QED BY <2>1, <2>2
<1>3. ASSUME TakeIp(r), ~Move(r, "ip", "user") PROVE ChainInv'
  BY <1>1, <1>3 DEF TakeIp
<1>4. ASSUME PassOn(r), UNCHANGED <<breakerVars, ipUsed>>,
             IF req[r].user = None
             THEN UNCHANGED userUsed
             ELSE /\ userUsed[req[r].user] < UserQuota
                  /\ userUsed' = [userUsed EXCEPT ![req[r].user] = @ + 1]
      PROVE  ChainInv'
  <2>1. at[r] = "user" /\ req[r] \in Traffic
    BY <1>4 DEF PassOn, Move, ChainInv, RequestsAreKnown
  <2>2. req[r].user \in Users \cup {None}
    BY <2>1 DEF Request
  <2>3. userUsed' \in [Users -> 0 .. UserQuota]
    BY <1>0, <1>4, <2>2
  <2>4. "handler" \in Places /\ "guarded" \in Places
    BY DEF Places
  <2>5. CASE Move(r, "user", "handler") /\ UNCHANGED pc
    BY <1>0, <1>4, <2>3, <2>4, <2>5, MoveKeepsChain DEF breakerVars
  <2>6. CASE Move(r, "user", "guarded") /\ pc' = [pc EXCEPT ![r] = "load"]
    <3>1. /\ at' = [at EXCEPT ![r] = "guarded"] /\ req' = req
          /\ alive' = alive
      BY <2>6 DEF Move
    <3>2. at \in [Requests -> Places] /\ req \in [Requests -> Traffic \cup {NoRequest}]
      BY DEF ChainInv, TypeOK
    <3>3. "load" \in Core!Steps
      BY DEF Core!Steps, Core!AllowSteps
    <3>4. /\ pc' \in [Requests -> Core!Steps]
          /\ \A q \in Requests : pc'[q] # "idle" => at'[q] = "guarded"
      BY <1>0, <2>6, <3>1, <3>2, <3>3 DEF TypeOK
    <3>5. cooled' \in BOOLEAN /\ mu' \in BOOLEAN /\ alive' \in BOOLEAN
      BY <1>0, <1>4, <3>1, Zenon DEF TypeOK, breakerVars
    <3>6. /\ state' \in Core!States /\ failures' \in Nat
          /\ ipUsed' \in [Ips -> 0 .. IpQuota]
          /\ at' \in [Requests -> Places] /\ req' \in [Requests -> Traffic \cup {NoRequest}]
      BY <1>0, <1>4, <2>4, <3>1, <3>2 DEF breakerVars
    <3>7. TypeOK'
      BY <2>3, <3>4, <3>5, <3>6, Zenon DEF TypeOK
    <3>8. RequestsAreKnown' /\ DeadIsEmpty' /\ CanaryTouchesNothing'
      BY <2>1, <3>1, <3>2 DEF ChainInv, RequestsAreKnown, DeadIsEmpty, CanaryTouchesNothing
    <3> QED BY <3>7, <3>8 DEF ChainInv
  <2> QED BY <1>4, <2>5, <2>6 DEF PassOn
<1>5. ASSUME TakeUser(r) PROVE ChainInv'
  BY <1>1, <1>4, <1>5 DEF TakeUser
<1> QED BY <1>2, <1>3, <1>5

\* The handlers, the RPC services and Reset: a booking of a stained user ends in
\* the canary service, and the stub answers it if it does not.
LEMMA HandlersKeepChain ==
    ASSUME ChainInv, NEW r \in Requests,
           \/ ForwardBooking(r) \/ ForwardPreload(r)
           \/ Execute(r, "stable") \/ Execute(r, "canary") \/ Answer(r)
           \/ ResetCounters(r) \/ ResetStore(r)
    PROVE  ChainInv'
<1>0. /\ TypeOK /\ state \in Core!States /\ failures \in Nat
      /\ ipUsed \in [Ips -> 0 .. IpQuota] /\ userUsed \in [Users -> 0 .. UserQuota]
  BY DEF ChainInv, TypeOK
<1>1. ASSUME NEW from, NEW to \in Places, Move(r, from, to),
             from \notin {"idle", "guarded"}, to # "guarded",
             from = "answered" => to = "idle",
             to = "canary" => req[r].route = "book" /\ req[r].user \in Stained,
             to = "reserved" => req[r].user \notin Stained,
             UNCHANGED <<breakerVars, pc, limitVars>>
      PROVE  ChainInv'
  BY <1>0, <1>1, MoveKeepsChain DEF breakerVars, limitVars
<1> USE DEF Places
<1>2. ASSUME ForwardBooking(r) PROVE ChainInv'
  <2>1. Client(req[r]) \in {"canary", "stable"} /\ req[r].route = "book"
    BY <1>2 DEF Client, ForwardBooking
  <2>2. Client(req[r]) = "canary" => req[r].user \in Stained
    BY DEF Client
  <2> QED BY <1>1, <1>2, <2>1, <2>2 DEF ForwardBooking, Forward
<1>3. ASSUME ForwardPreload(r) PROVE ChainInv'
  BY <1>1, <1>3 DEF ForwardPreload, Forward
<1>4. ASSUME NEW node \in {"stable", "canary"}, Execute(r, node) PROVE ChainInv'
  BY <1>1, <1>4 DEF Execute
<1>5. ASSUME Answer(r) PROVE ChainInv'
  BY <1>1, <1>5 DEF Answer
<1>6. ASSUME ResetCounters(r) PROVE ChainInv'
  <2>1. /\ Move(r, "handler", "reset") /\ failures' \in Nat
        /\ UNCHANGED <<state, cooled, mu, pc, limitVars>>
    BY <1>6 DEF ResetCounters
  <2> QED BY <1>0, <2>1, MoveKeepsChain DEF limitVars
<1>7. ASSUME ResetStore(r) PROVE ChainInv'
  <2>1. /\ Move(r, "reset", "answered") /\ state' \in Core!States
        /\ UNCHANGED <<failures, cooled, mu, pc, limitVars>>
    BY <1>7 DEF ResetStore, Core!States
  <2> QED BY <1>0, <2>1, MoveKeepsChain DEF limitVars
<1> QED BY <1>2, <1>3, <1>4, <1>5, <1>6, <1>7

\* The handlers and the environment, too, keep what is known of the chain.
LEMMA ChainStep ==
    ChainInv /\ [Next]_vars => ChainInv'
<1> SUFFICES ASSUME ChainInv, [Next]_vars PROVE ChainInv'
  OBVIOUS
<1> USE GatewayAssumption DEF GatewayAssumption
<1>a. ASSUME UNCHANGED <<at, req, alive, pc, breakerVars>>,
             ipUsed' \in [Ips -> 0 .. IpQuota], userUsed' \in [Users -> 0 .. UserQuota]
      PROVE  ChainInv'
  BY <1>a, Zenon DEF ChainInv, TypeOK, RequestsAreKnown, DeadIsEmpty,
     CanaryTouchesNothing, breakerVars
<1>0. /\ ipUsed \in [Ips -> 0 .. IpQuota] /\ userUsed \in [Users -> 0 .. UserQuota]
      /\ at \in [Requests -> Places] /\ req \in [Requests -> Traffic \cup {NoRequest}]
      /\ TypeOK
  BY DEF ChainInv, TypeOK
<1>1. ASSUME NEW r \in Requests, NEW q \in Traffic, Arrive(r, q) PROVE ChainInv'
  <2>1. /\ at' = [at EXCEPT ![r] = "ip"] /\ req' = [req EXCEPT ![r] = q]
        /\ alive /\ at[r] = "idle"
        /\ UNCHANGED <<state, failures, cooled, mu, pc, alive, ipUsed, userUsed>>
    BY <1>1 DEF Arrive, breakerVars, limitVars
  <2>2. at' \in [Requests -> Places] /\ req' \in [Requests -> Traffic \cup {NoRequest}]
    BY <1>0, <2>1 DEF Places
  <2>3. \A x \in Requests : pc'[x] # "idle" => at'[x] = "guarded"
    BY <1>0, <2>1 DEF TypeOK
  <2>4. TypeOK'
    BY <1>0, <2>1, <2>2, <2>3, Zenon DEF TypeOK
  <2>5. RequestsAreKnown' /\ DeadIsEmpty' /\ CanaryTouchesNothing'
    BY <1>0, <2>1 DEF ChainInv, RequestsAreKnown, DeadIsEmpty, CanaryTouchesNothing
  <2> QED BY <2>4, <2>5 DEF ChainInv
<1>2. ASSUME NEW r \in Requests, Step(r) PROVE ChainInv'
  BY <1>2, LimitsKeepChain, GuardedKeepsChain, HandlersKeepChain DEF Step
<1>3. ASSUME NEW i \in Ips, IpWindowEnds(i) PROVE ChainInv'
  <2>1. ipUsed' \in [Ips -> 0 .. IpQuota]
    BY <1>0, <1>3 DEF IpWindowEnds
  <2> QED BY <1>0, <1>3, <1>a, <2>1 DEF IpWindowEnds
<1>4. ASSUME NEW u \in Users, UserWindowEnds(u) PROVE ChainInv'
  <2>1. userUsed' \in [Users -> 0 .. UserQuota]
    BY <1>0, <1>4 DEF UserWindowEnds
  <2> QED BY <1>0, <1>4, <1>a, <2>1 DEF UserWindowEnds
<1>5. CASE CooldownElapses
  <2>1. /\ cooled' = TRUE
        /\ UNCHANGED <<state, failures, mu, pc, alive, at, req, ipUsed, userUsed>>
    BY <1>5 DEF CooldownElapses, Core!CooldownElapses, limitVars
  <2> QED BY <2>1, Zenon DEF ChainInv, TypeOK, RequestsAreKnown, DeadIsEmpty,
             CanaryTouchesNothing
<1>6. CASE Restart
  <2>1. /\ alive' = TRUE
        /\ UNCHANGED <<state, failures, cooled, mu, pc, at, req, ipUsed, userUsed>>
    BY <1>6 DEF Restart, Core!Restart, Core!breakerVars, limitVars
  <2> QED BY <2>1, Zenon DEF ChainInv, TypeOK, RequestsAreKnown, DeadIsEmpty,
             CanaryTouchesNothing
<1>7. CASE UNCHANGED vars
  BY <1>0, <1>7, <1>a DEF vars, limitVars
<1> QED BY <1>1, <1>2, <1>3, <1>4, <1>5, <1>6, <1>7 DEF Next

\* The gateway starts empty.
LEMMA InitChain ==
    Init => ChainInv
<1> SUFFICES ASSUME Init PROVE ChainInv
  OBVIOUS
<1> USE GatewayAssumption DEF GatewayAssumption, Init
<1>1. /\ state \in Core!States /\ failures \in Nat
      /\ pc \in [Requests -> Core!Steps] /\ at \in [Requests -> Places]
      /\ req \in [Requests -> Traffic \cup {NoRequest}]
      /\ \A r \in Requests : pc[r] # "idle" => at[r] = "guarded"
  BY DEF Core!States, Core!Steps, Places
<1>2. ipUsed \in [Ips -> 0 .. IpQuota] /\ userUsed \in [Users -> 0 .. UserQuota]
  OBVIOUS
<1>3. cooled \in BOOLEAN /\ mu \in BOOLEAN /\ alive \in BOOLEAN
  BY Zenon
<1>4. TypeOK
  BY <1>1, <1>2, <1>3, Zenon DEF TypeOK
<1>5. RequestsAreKnown /\ DeadIsEmpty /\ CanaryTouchesNothing
  BY DEF RequestsAreKnown, DeadIsEmpty, CanaryTouchesNothing
<1> QED BY <1>4, <1>5 DEF ChainInv

\* Every request that the gateway has, and every answer that it waits for, is
\* where the chain of handlers puts it.
THEOREM ChainInvariant == Spec => []ChainInv
BY InitChain, ChainStep, PTL DEF Spec

\* Requests, tokens and the fields of the breaker keep their types, and nobody is
\* inside the breaker middleware whom the chain has not put there.
THEOREM TypeCorrect == Spec => []TypeOK
<1>1. ChainInv => TypeOK
  BY DEF ChainInv
<1> QED BY <1>1, ChainInvariant, PTL

\* A booking that got a seat is of a user without the stain, and what the canary
\* service gets is a booking of one with it.
THEOREM CanaryIsHarmless == Spec => []CanaryTouchesNothing
<1>1. ChainInv => CanaryTouchesNothing
  BY DEF ChainInv
<1> QED BY <1>1, ChainInvariant, PTL

-----------------------------------------------------------------------------
(* The breaker of the gateway.                                              *)

\* Outside of the breaker middleware a request touches neither state nor steps,
\* except that it enters allow and that Reset closes the breaker.
LEMMA OthersLeaveBreaker ==
    ASSUME TypeOK, [Next]_vars, \A r \in Requests : ~Guarded(r)
    PROVE  /\ \/ UNCHANGED <<state, pc>>
              \/ state' = "Closed" /\ UNCHANGED pc
              \/ /\ state' = state
                 /\ \E r \in Requests : pc[r] = "idle" /\ pc' = [pc EXCEPT ![r] = "load"]
           /\ alive => alive'
<1> USE DEF breakerVars
<1>1. ASSUME NEW r \in Requests, Step(r),
             ~(UNCHANGED <<state, pc>>), ~(state' = "Closed" /\ UNCHANGED pc)
      PROVE  state' = state /\ pc[r] = "idle" /\ pc' = [pc EXCEPT ![r] = "load"]
  BY <1>1 DEF Step, TakeIp, Refuse, TakeUser, PassOn, Move, ForwardBooking, ForwardPreload,
     Forward, Execute, Answer, ResetCounters, ResetStore, TypeOK
<1>2. ASSUME NEW r \in Requests, Step(r) PROVE alive' = alive
  BY <1>2 DEF Step, TakeIp, Refuse, TakeUser, PassOn, Move, ForwardBooking, ForwardPreload,
     Forward, Execute, Answer, ResetCounters, ResetStore
<1> QED BY <1>1, <1>2 DEF Next, Arrive, IpWindowEnds, UserWindowEnds, CooldownElapses,
       Core!CooldownElapses, Restart, Core!Restart, Core!breakerVars,
       vars

\* Neither Reset nor any interleaving of guarded requests leaves the gateway's
\* breaker half open with nobody to settle it.
THEOREM HalfOpenIsAttended == Spec => []HalfOpenHasProber
<1>0. HalfOpenHasProber <=> K!HalfOpenHasProber
  BY DEF HalfOpenHasProber, Core!HalfOpenHasProber, K!HalfOpenHasProber, Core!Deciding,
         K!Deciding, Core!SuccessSteps, K!SuccessSteps
<1>1. Init => K!HalfOpenHasProber
  BY DEF Init, K!HalfOpenHasProber
<1>2. TypeOK /\ K!HalfOpenHasProber /\ [Next]_vars => K!HalfOpenHasProber'
  <2> SUFFICES ASSUME TypeOK, K!HalfOpenHasProber, [Next]_vars
               PROVE  K!HalfOpenHasProber'
    OBVIOUS
  <2>1. ASSUME NEW r \in Requests, Guarded(r) PROVE K!HalfOpenHasProber'
    BY <2>1, GuardedIsStep, BreakerTypes, GatewayAssumption, K!StepKeepsProber
       DEF GatewayAssumption
  <2>2. CASE UNCHANGED <<state, pc>> \/ (state' = "Closed" /\ UNCHANGED pc)
    BY <2>2 DEF K!HalfOpenHasProber
  <2>3. ASSUME state' = state, NEW r \in Requests, pc[r] = "idle",
               pc' = [pc EXCEPT ![r] = "load"]
        PROVE  K!HalfOpenHasProber'
    BY <2>3 DEF TypeOK, K!HalfOpenHasProber, K!Deciding, K!SuccessSteps
  <2> QED BY <2>1, <2>2, <2>3, OthersLeaveBreaker
<1> QED BY <1>0, <1>1, <1>2, TypeCorrect, PTL DEF Spec
=============================================================================
