------------------------------- MODULE Gateway ------------------------------
(***************************************************************************)
(* A request in the API gateway: the canary middleware stains it, the rate *)
(* limit takes a token of its IP and one of its user, the breaker          *)
(* middleware checks its path, and then its own state, and the handler     *)
(* calls the stable or the canary RPC service.                             *)
(*                                                                         *)
(* allow, success and failure of the breaker middleware are, step by step, *)
(* Allow, Success and Failure of KafkaBreaker, whose actions are used here *)
(* with the answer of the next handler in the place of the push.  Reset is *)
(* new.                                                                    *)
(***************************************************************************)
EXTENDS Naturals

CONSTANTS
    Requests,     (* goroutines of the HTTP server                          *)
    Threshold,    (* GatewayBreaker.Threshold                               *)
    Ips,          (* client addresses                                       *)
    Users,        (* values of the header X-User-Id                         *)
    Stained,      (* the positive ones that end in 0                        *)
    None,         (* no such header                                         *)
    Traffic,      (* the requests that clients send                         *)
    IpQuota,
    UserQuota

\* The routes of this program, all of which begin with "/v1/a".  (Status and the
\* simulation switch do nothing to the state of this module.)  "other" stands for
\* a path that does not begin so; the middleware has a branch for it, which no
\* request to a registered route takes.
RpcRoutes == {"book", "preload"}
AdminRoutes == {"reset"}
AppRoutes == RpcRoutes \cup AdminRoutes

Request == [ip : Ips, user : Users \cup {None}, route : AppRoutes \cup {"other"}]

ASSUME GatewayAssumption ==
    /\ Traffic \subseteq Request
    /\ Threshold \in Nat
    /\ Stained \subseteq Users
    /\ None \notin Users
    /\ IpQuota \in Nat
    /\ UserQuota \in Nat

VARIABLES
    state, failures, cooled, mu,   (* BreakerMiddleware                     *)
    pc,        (* where a request is inside allow, success and failure      *)
    alive,     (* the gateway runs                                          *)
    at,        (* where a request is in the chain of handlers               *)
    req,       (* what a request is                                         *)
    ipUsed,    (* tokens taken in the current window of ratelimit:ip        *)
    userUsed   (* tokens taken in the current window of ratelimit:user      *)

breakerVars == <<state, failures, cooled, mu>>
limitVars == <<ipUsed, userUsed>>
vars == <<breakerVars, pc, alive, at, req, limitVars>>

\* Nothing simulates failures of the RPC service.  (TLC cannot leave the literal
\* FALSE unchanged.)
Core == INSTANCE KafkaBreaker WITH simulating <- 1 = 0

NoRequest == [ip |-> None, user |-> None, route |-> None]

\* Inside the chain; executed by an RPC service; answered: after a seat was
\* taken, with some other answer below 500, with one of 500 or more.
Places ==
    {"idle", "ip", "user", "guarded", "handler", "reset"}
      \cup {"stable", "canary"}
      \cup {"reserved", "answered", "failed"}

TypeOK ==
    /\ state \in Core!States
    /\ failures \in Nat
    /\ cooled \in BOOLEAN /\ mu \in BOOLEAN /\ alive \in BOOLEAN
    /\ pc \in [Requests -> Core!Steps]
    /\ at \in [Requests -> Places]
    /\ req \in [Requests -> Traffic \cup {NoRequest}]
    /\ ipUsed \in [Ips -> 0 .. IpQuota]
    /\ userUsed \in [Users -> 0 .. UserQuota]
    /\ \A r \in Requests : pc[r] # "idle" => at[r] = "guarded"

-----------------------------------------------------------------------------
Init ==
    /\ state = "Closed"
    /\ failures = 0
    /\ cooled = TRUE
    /\ mu = FALSE
    /\ pc = [r \in Requests |-> "idle"]
    /\ alive = TRUE
    /\ at = [r \in Requests |-> "idle"]
    /\ req = [r \in Requests |-> NoRequest]
    /\ ipUsed = [i \in Ips |-> 0]
    /\ userUsed = [u \in Users |-> 0]

\* Request r goes on in the chain of handlers.
Move(r, from, to) ==
    /\ at[r] = from
    /\ at' = [at EXCEPT ![r] = to]
    /\ req' = IF to \in {"idle", "answered"} THEN [req EXCEPT ![r] = NoRequest] ELSE req
    /\ UNCHANGED alive

Arrive(r, q) ==
    /\ alive
    /\ at[r] = "idle"
    /\ at' = [at EXCEPT ![r] = "ip"]
    /\ req' = [req EXCEPT ![r] = q]
    /\ UNCHANGED <<breakerVars, pc, alive, limitVars>>

\* isAdminPath compares the first five characters with "/v1/a".
IsAdminPath(route) == route \in AppRoutes

\* The end of the rate limit and the beginning of the breaker middleware, which
\* allow follows unless the path is let past it.
PassOn(r) ==
    IF IsAdminPath(req[r].route)
    THEN Move(r, "user", "handler") /\ UNCHANGED pc
    ELSE Move(r, "user", "guarded") /\ pc' = [pc EXCEPT ![r] = "load"]

-----------------------------------------------------------------------------
(* RateLimitMiddleware.  PeriodLimit counts every call of a window; once the *)
(* quota is used up, more calls make no difference.                          *)

\* A failing Redis is answered like an exceeded quota: 429.
Refuse(r, place) ==
    /\ Move(r, place, "idle")
    /\ UNCHANGED <<breakerVars, pc, limitVars>>

\* Variant: the code that Take returns is not compared with OverQuota.
TakeIpUnlimited(r) ==
    \/ Refuse(r, "ip")
    \/ /\ Move(r, "ip", "user")
       /\ ipUsed' = [ipUsed EXCEPT ![req[r].ip] = @ + 1]
       /\ UNCHANGED <<breakerVars, pc, userUsed>>

TakeIp(r) ==
    \/ Refuse(r, "ip")
    \/ /\ Move(r, "ip", "user")
       /\ ipUsed[req[r].ip] < IpQuota
       /\ ipUsed' = [ipUsed EXCEPT ![req[r].ip] = @ + 1]
       /\ UNCHANGED <<breakerVars, pc, userUsed>>

\* Without a user the second limit does not apply.
TakeUser(r) ==
    \/ req[r].user # None /\ Refuse(r, "user")
    \/ /\ PassOn(r)
       /\ IF req[r].user = None
          THEN UNCHANGED userUsed
          ELSE /\ userUsed[req[r].user] < UserQuota
               /\ userUsed' = [userUsed EXCEPT ![req[r].user] = @ + 1]
       /\ UNCHANGED <<breakerVars, ipUsed>>

IpWindowEnds(i) ==
    /\ ipUsed[i] > 0
    /\ ipUsed' = [ipUsed EXCEPT ![i] = 0]
    /\ UNCHANGED <<breakerVars, pc, alive, at, req, userUsed>>

UserWindowEnds(u) ==
    /\ userUsed[u] > 0
    /\ userUsed' = [userUsed EXCEPT ![u] = 0]
    /\ UNCHANGED <<breakerVars, pc, alive, at, req, ipUsed>>

-----------------------------------------------------------------------------
(* BreakerMiddleware.                                                        *)

\* What the next handler may write, at any time: 200 (also if it writes no status
\* at all), 400 for a malformed request, and for a failed gRPC call what ErrorCtx
\* makes of its code: 408 for a cancelled one, 500 for an error of the service, 503
\* for one that cannot be reached, 504 for a deadline that is over.
Statuses == {200, 400, 408, 500, 503, 504}

\* next, and the status that decides which report follows.
Call(r) ==
    /\ \E statusCode \in Statuses :
           Core!Goto(r, "push", IF statusCode >= 500 THEN "f_time" ELSE "s_zero")
    /\ UNCHANGED breakerVars

\* allow, the call, and the report of its status.  Whoever is refused (503) or
\* has reported is done; a fatal unlock ends the gateway with all its requests.
Guarded(r) ==
    /\ at[r] = "guarded"
    /\ Core!Allow(r) \/ Call(r) \/ Core!Success(r) \/ Core!Failure(r)
    /\ at' = [q \in Requests |->
                 IF ~alive' \/ (q = r /\ pc'[r] = "idle") THEN "idle" ELSE at[q]]
    /\ req' = [q \in Requests |-> IF at'[q] = "idle" THEN NoRequest ELSE req[q]]
    /\ UNCHANGED limitVars

-----------------------------------------------------------------------------
(* The handlers of the application.                                          *)

\* The request is malformed or cancelled (below 500), or goes to an RPC service, or
\* that cannot be reached (500 or more).
Forward(r, node) ==
    /\ \E to \in {"answered", node, "failed"} : Move(r, "handler", to)
    /\ UNCHANGED <<breakerVars, pc, limitVars>>

\* GetAppointmentRpcClient
Client(q) == IF q.user \in Stained THEN "canary" ELSE "stable"

ForwardBooking(r) ==
    /\ req[r].route = "book"
    /\ Forward(r, Client(req[r]))

\* Variant: the preload picks its client as a booking does.
ForwardPreloadByStain(r) ==
    /\ req[r].route = "preload"
    /\ Forward(r, Client(req[r]))

\* A preload goes to StableRpc, stained or not.
ForwardPreload(r) ==
    /\ req[r].route = "preload"
    /\ Forward(r, "stable")

\* CreateAppointment and PreloadSchedule in the RPC service: a booking whose
\* metadata carries the stain gets the stub's answer, another one may get a seat.  The
\* call fails with an error of the service, or with a deadline that is over.
Execute(r, node) ==
    /\ at[r] = node
    /\ \/ Move(r, node, IF req[r].route = "book" /\ req[r].user \notin Stained
                     THEN "reserved" ELSE "answered")
       \/ Move(r, node, "failed")
    /\ UNCHANGED <<breakerVars, pc, limitVars>>

Answer(r) ==
    /\ \E done \in {"reserved", "answered", "failed"} : Move(r, done, "idle")
    /\ UNCHANGED <<breakerVars, pc, limitVars>>

\* Variant: Reset lets the next request probe.
ResetStoreHalfOpen(r) ==
    /\ Move(r, "reset", "answered")
    /\ state' = "HalfOpen"
    /\ UNCHANGED <<failures, cooled, mu, pc, limitVars>>

\* Variant: Reset takes the mutex and does not release it.
ResetCountersLocking(r) ==
    /\ ~mu
    /\ req[r].route = "reset"
    /\ Move(r, "handler", "reset")
    /\ failures' = 0
    /\ mu' = TRUE
    /\ UNCHANGED <<state, cooled, pc, limitVars>>

\* ResetBreaker calls Reset: the counters first, then the state.  The mutex is
\* left as it is.
ResetCounters(r) ==
    /\ req[r].route = "reset"
    /\ Move(r, "handler", "reset")
    /\ failures' = 0
    /\ UNCHANGED <<state, cooled, mu, pc, limitVars>>

ResetStore(r) ==
    /\ Move(r, "reset", "answered")
    /\ state' = "Closed"
    /\ UNCHANGED <<failures, cooled, mu, pc, limitVars>>

-----------------------------------------------------------------------------
CooldownElapses ==
    /\ Core!CooldownElapses
    /\ UNCHANGED <<at, req, limitVars>>

\* docker-compose restarts the container (restart: always).
Restart ==
    /\ Core!Restart
    /\ UNCHANGED <<at, req, limitVars>>

Step(r) ==
    \/ TakeIp(r) \/ TakeUser(r)
    \/ Guarded(r)
    \/ ForwardBooking(r) \/ ForwardPreload(r)
    \/ Execute(r, "stable") \/ Execute(r, "canary") \/ Answer(r)
    \/ ResetCounters(r) \/ ResetStore(r)

Next ==
    \/ \E r \in Requests, q \in Traffic : Arrive(r, q)
    \/ \E r \in Requests : Step(r)
    \/ \E i \in Ips : IpWindowEnds(i)
    \/ \E u \in Users : UserWindowEnds(u)
    \/ CooldownElapses \/ Restart

Spec == Init /\ [][Next]_vars

\* Goroutines run, windows end, time passes, the container is restarted.  Neither
\* clients nor the RPC service owe us anything.
Fairness ==
    /\ \A r \in Requests : WF_vars(Step(r))
    /\ \A i \in Ips : WF_vars(IpWindowEnds(i))
    /\ \A u \in Users : WF_vars(UserWindowEnds(u))
    /\ WF_vars(CooldownElapses)
    /\ WF_vars(Restart)

FairSpec == Spec /\ Fairness

-----------------------------------------------------------------------------
(* Properties.                                                               *)

\* Reset, which takes no part in the protocol of the mutex, does not strand the
\* breaker either: whenever it is half open, some request will settle it.
HalfOpenHasProber == Core!HalfOpenHasProber

\* The canary service touches no seats, and no stained user gets one: the choice
\* of the client in the gateway and the stub in the RPC service fit together.
CanaryTouchesNothing ==
    \A r \in Requests :
        /\ at[r] = "canary" => req[r].route = "book" /\ req[r].user \in Stained
        /\ at[r] = "reserved" => req[r].user \notin Stained

\* No request waits for ever, whoever holds the mutex and whatever Reset did
\* meanwhile: it is answered, or its process ends.
EveryRequestAnswered == \A r \in Requests : []<>(at[r] = "idle")

\* "Five 5xx answers in a row open the breaker": if the bookings that pass the rate
\* limits are answered with 5xx again and again, and none with anything else, the
\* breaker opens.
OutageOpensBreaker ==
    /\ []<>(\E r \in Requests : at[r] = "failed" /\ req[r].route = "book")
    /\ [](\A r \in Requests : at[r] \notin {"reserved", "answered"})
    => <>(state = "Open")
=============================================================================
