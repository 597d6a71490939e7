# smart-reserve: a TLA+ model

smart-reserve books seats of schedules under heavy load. A gateway forwards a
booking to an RPC service, which takes the seat in Redis with one Lua script and
sends the order through Kafka to a consumer that writes it to MySQL. When Kafka
cannot be written, a circuit breaker diverts orders to a Redis list, and a worker
in every RPC process moves them to Kafka later.

Paths below are relative to `src/apps/appointment/` unless they start with another
top-level name of the repository.

## 1. Inventory

| Component | Source | State | Operations |
|---|---|---|---|
| Reservation | `rpc/internal/logic/createAppointmentLogic.go` (script and lines 54-97) | Redis `reserve:slots:<s>`, `reserve:user:<u>:<s>` (24 h) | the Lua script, expiry |
| Preload | `rpc/internal/logic/preloadScheduleLogic.go` | `reserve:slots:<s>` | overwrite with `total_slots` |
| Dispatch | `createAppointmentLogic.go:97-155` | request context | simulation switch, `Allow`, `Push`, `Success`/`Failure`, `Enqueue` |
| Kafka breaker | `rpc/internal/breaker/kafkaBreaker.go` | `state`, `failures`, `lastFailTime`, `mu`, one set per process | `Allow`, `Success`, `Failure` |
| Degradation queue | `rpc/internal/breaker/degradationQueue.go` | Redis list `degradation:orders` | `Enqueue` (LPUSH), `Dequeue` (RPOP), `Drain` |
| Compensation worker | `rpc/internal/svc/serviceContext.go:103-124` | ticker, 10 s context, popped message | every 5 s, `Drain` if its breaker is CLOSED |
| Order consumer | `rmq/internal/logic/orderConsumerLogic.go` | Kafka offset | `Consume`: `Insert` into `appointment_order` |
| Models | `rpc/model/*_gen.go`, `deploy/mysql-init/init.sql` | MySQL rows, row cache in Redis | `Insert`, `FindOne` (others have no caller) |
| Gateway breaker | `api/internal/middleware/breakerMiddleware.go` | as the Kafka breaker | `allow`, `success`, `failure`, `Reset` |
| Gateway chain | `api/appointment.go`, `api/internal/{handler,logic,svc}` | none | canary, rate limit, breaker, handler, in this order |
| Rate limit, canary | `api/internal/middleware/{ratelimit,canary}Middleware.go` | counters in Redis | `Take`; stain users whose id ends in 0 |
| Administration | `api/internal/handler/adminHandler.go` | Redis `simulate:kafka:failure` | switch on and off, reset, status |
| Order channel | `serviceContext.go:42-63, 86-101` | `OrderChan` | none: nobody sends to it |

How they interact: the gateway calls the RPC service over gRPC; handlers of one
process share its breaker; all processes (the stable one and the canary) share
Redis, so that both workers drain one list; the consumer sees only Kafka.

What is hard here:

* The breaker is lock-free code whose mutex is held by one admitted probe, not by
  the other, and is released by whoever reports while the state says HALF_OPEN.
* An order changes hands (handler, list, worker, Kafka, MySQL) and every
  hand-over can fail before or after it took effect; contexts expire between a
  failed push and the fallback that uses the same context.
* A push runs under the context of its request, so that a client that goes away, or a
  deadline that is over, reports a failure of Kafka to the breaker.
* A seat, its order, its copies and its row live in Redis, Kafka and MySQL, with no
  transaction over them, and are tied together by an order number.
* Seats are counted in one key that a preload overwrites at any time, and
  duplicates are refused by a mark that expires while the seat stays sold.

What makes each part correct: the breaker never sticks in HALF_OPEN and closes
again when failures have stopped, and it takes `Threshold` failures in a row to open
it first; a seat has one owner and a round never sells more seats than it has; an answered order is never lost silently, has one
custodian at a time, and ends up as a row. `PROJECT.json` lists the hazards one by
one with the properties that watch them.

## 2. Modules

| Module | What it is |
|---|---|
| `KafkaBreaker` | the breaker, one action per atomic step; `MCKafkaBreaker` instantiates it, `KafkaBreakerProofs` proves about it |
| `SeatLedger` | abstract: what handing out seats promises |
| `Reservation` | the Redis keys, refining `SeatLedger`; `MCReservation`, `ReservationProofs` |
| `OrderPath` | abstract: custody, copies and rows of orders; `OrderPathProofs` |
| `OrderDelivery` | an order from the script's answer to its row, refining `OrderPath`; `MCOrderDelivery`, `OrderDeliveryProofs` |
| `SmartReserve` | `Reservation` and `OrderPath` composed, with order numbers and the unique key; `MCSmartReserve`, `SmartReserveProofs` |
| `Gateway` | a request through canary, rate limit, breaker, handler and RPC service, on the actions of `KafkaBreaker`; `MCGateway`, `GatewayProofs` |
| `ScheduleModel` | where a preload gets its total: one row of `schedule` and its cache; `MCScheduleModel`, `ScheduleModelProofs` |

### KafkaBreaker

Each request is a goroutine with a program counter `pc`; an action is one atomic
load, store, add, compare-and-swap or lock operation. `cooled` stands for
`time.Since(lastFailTime) > cooldown`: `Failure` makes it false, time makes it true.
`Begin` is a booking that got its seat; with the simulation on it calls `Failure`
without `Allow`, as `createAppointmentLogic.go:106-109` does. `Push` may fail at any time:
it runs under `l.ctx` (`createAppointmentLogic.go:132`), so that a request which was
cancelled or has expired reports a failure whatever the broker does. There is no
variable for the broker: what the breaker sees of it is which pushes fail, and the
properties speak of that (`Healthy`: nothing is simulated, nobody has a failure to
report). `Unlock` of a free mutex is a fatal error of the Go
runtime: the process ends with all its requests and starts again (`restart: always`
in `docker-compose.yaml`) with a fresh breaker.

### Reservation and SeatLedger

Redis runs the script as one step, and so does `Reserve`. Whether the caller gets
the answer does not matter to the keys, which is why there is no separate action for
an `EvalCtx` whose reply is lost. The refusals (-1, -2) change nothing and are the
negations of the two guards. Time is counted in days: a mark set on day d is gone
some time during day d + 1, so `Expire` needs a later day and `NextDay` waits until the
marks of the previous day are gone. `sold` and `round` are history variables. A
ticket's `seat` is the value of the stock before its DECR, which numbers the seats of
a round from `total_slots` down.

`SeatLedger` knows no stock and no marks: a sale takes any free seat of the current
round, for a user who has none of that schedule today. `Reservation!ImplementsLedger`
says that the keys implement it, with `today`, `round` and `sold` mapped to themselves.

### OrderDelivery

`stage` is the handler of each order, `wpc`/`held` the worker of each process, `queue`
the Redis list (leftmost first), `topic` the copies Kafka still delivers, `rows` the
table. The decision of `Allow`, and the simulation switch, are an input: `Route` takes
either branch. The gate of a serving process moves freely (`BreakerMoves`), that of the
canary stays CLOSED, because the canary answers before it reserves
(`createAppointmentLogic.go:65-74`) and so never reports to its breaker.

Faults are actions of their own, counted by kind: a process crash, a call to Redis or
MySQL that fails or whose reply is lost, an expired request context, an expired drain
context, a push that fails for its caller although Kafka has the message. Refused and
failed pushes with the broker down are not faults: that is what the list is for.

`OrderPath` forgets processes, lists, workers and breakers: an order is in custody from
the script's answer until it is delivered or dropped, and `ImplementsPath` maps handlers
that have yet to answer, the list and the workers to that one set.

Taken from outside the repository, and needed by more than liveness:

* Kafka delivers what is not acknowledged again, and a `Consume` that returned an error has
  not acknowledged. The comment at `orderConsumerLogic.go:54` says so; go-queue decides
  it with its option `ForceCommit`, which is on by default and which `rmq/etc/rmq.yaml` does
  not set, and with it offsets are committed after an error as well. The model follows the
  comment. `ImplementsPath`, `NothingComesBack`, `SeatsAccounted`, `SeatsAreAccountedFor`,
  `PathRefinement`, `EventuallyStored` and `EventuallySettled` all rest on this; under the
  default they hold only while no `Consume` fails. (The variant `ConsumeIgnoringError`, which
  violates `ImplementsPath`, is what the default does.)
* `Push` returns the broker's error. The pusher is built without `WithSyncPush`
  (`serviceContext.go:41`), so go-queue may hand the message to a background writer and return
  nil before the broker has it; a message that is then dropped is in no model here.
  `LossNeedsFault`, `ImplementsPath`, `SeatsAccounted` and the two liveness properties rest on
  this. `KafkaBreaker` does not: there a push succeeds or fails at any time.

A copy whose `Insert` fails stays in the topic; that step changes nothing and is not an action.

### SmartReserve

The seats are those of `Reservation`, the way of an order is `OrderPath`, which
`OrderDelivery` implements; an order is the ticket of its seat. The composition adds what
lies between them. A handler that has its seat makes the order number later (`Stamp`),
from the clock of that moment and the user, so that a midnight may come between; a
lost reply of `EvalCtx` (`BookUnanswered`), a dropped order (`Lose`) or a dying process
(`Crash`) leaves a seat without an order, recorded in `orphans`; and the consumer's `Insert`
succeeds only if no row has the number (`NumberIsFree`). `SeatsAccounted` is an equation
over all of this: what Redis has handed out is what handlers, custody, Kafka and the table
hold between them, plus the orphans.

### Gateway

`allow`, `success` and `failure` of the gateway breaker are the code of the Kafka breaker
over again, step by step, so `Gateway` uses the actions of `KafkaBreaker` (as `Core`)
with the next handler in the place of the push. `Call` translates the test of the status:
the handler writes some status of `Statuses`, at any time, and 500 or more is a failure. `at` is where a request is in the chain of
handlers, `pc` where it is inside the breaker. Every registered route begins with `/v1/a` and
is let past the breaker; the branch of the middleware that guards a path is exercised by
the route `other`, which no client of today's program can reach. `HalfOpenHasProber` and
`EveryRequestAnswered` say of that branch what would hold if a route were guarded, and no
hazard of the program is credited to it. A failing Redis in the rate limit
is answered like an exceeded quota. Tokens beyond the quota are not counted. The statuses that
`httpx.ErrorCtx` gives to failed calls and the middlewares that go-zero puts in front are
outside the repository; the latter are left out.

### ScheduleModel

One row and its cache entry. `FindOne` looks into the cache, selects, and fills the cache, in
three steps; calls of one process that meet share a flight (`sharing`). `Update` and `Delete`
change the row and delete the key in two steps; `Insert` deletes the key of another id;
`EditByHand` is SQL past the model, the way `init.sql` writes. The model's writers have no
caller yet and are here as the interface they are. `excused` remembers why an entry may be stale.

## 3. Runs

| Run | Bounds | What it shows |
|---|---|---|
| `breaker` | 3 requests, threshold 2 | `TypeOK`; `HalfOpenHasProber`: HALF_OPEN always has somebody who will settle it; `HalfOpenResolves`; `RecoversUnderTraffic`: closed for good once failures stop; `TripTakesThreshold`: it takes `Threshold` failures in a row to open it first; `OpensUnderFailures` |
| `breaker_probe` | 1 request | violation of `ProbeReportSettles` |
| `breaker_quiet` | 2 requests | violation of `RecoversByItself` |
| `reservation` | 3 users; schedules of 2, 1, 0 seats; 2 days; 2 preloads each | `TypeOK`, `StockAccounting`, `OneBookingPerSeat`, `MarkMatchesBooking`, `OversellingIsBounded` (no more than the seats times the preloads), `ImplementsLedger` |
| `reservation_oversold` | the same | violation of `NotOversold` |
| `delivery` | 2 orders, 2 processes, one fault of each of 5 kinds | `TypeOK`, `SingleCustody`, `LossNeedsFault`, `CopiesNeedFault`, `ImplementsPath`, `EventuallyStored` |
| `delivery_dropped` | 1 order, one expired drain context, no other fault | violation of `NothingDropped` |
| `smart_reserve` | 2 users; schedules of 2 and 1 seats; 2 days; 1 preload each; 2 faults | `TypeOK`, `SeatsAccounted`, `RowsWithinSeats`, `CollisionsExplained`, `EventuallySettled` |
| `smart_numbers` | the same, 1 day, no fault | violation of `EverySeatStored` |
| `gateway` | 2 requests, threshold 2, quotas of 1, an address, a stained user and none | `TypeOK`, `HalfOpenHasProber`, `CanaryTouchesNothing`, `EveryRequestAnswered` |
| `gateway_path` | 1 request, bookings only | violation of `OutageOpensBreaker` |
| `schedule_model` | 2 calls, 2 totals, 3 edits, 1 fault | `TypeOK`, `StaleEntryExplained`, `StockCatchesUp` |

Why the bounds suffice. *Breaker*: two requests give a probe and a competitor, the
third a report that is late with respect to both, and a mutex that is left locked;
threshold 2 separates counting from tripping. The counter of failures needs no bound,
TLC finds it finite. *Reservation*: with three users a schedule of two seats sells out and
refuses; two days let a mark expire and the same user book again; the second preload
finds sold, partly sold and fresh schedules. It stops when days and preloads are used up,
hence no deadlock check; `SmartReserve` stops for the same reason. *Delivery*: two orders fill
the list and a worker, and overtake each other when one is put back; two processes race
on the list; one fault of each kind combines every pair of different faults.
*SmartReserve*: a user with two schedules on one day, and with a seat taken before and
numbered after midnight, are the two ways to a collision; two faults let one order be lost and
another doubled. A second preload of a schedule multiplies the states beyond reach;
`reservation` has it. *Gateway*: a probe and a reset, or a probe and a competitor; the
late report of a third request is left to `breaker`. Quotas of 1 are reached at once.
*ScheduleModel*: a slow and a quick call; three edits make a row, change it, and remove
it. `MaxDay`, `MaxRounds`, `MaxFaults` and `MaxEdits` are the only bounds in guards.

Requests, users and orders are symmetric; the runs with liveness properties use no symmetry.

### Fairness

Goroutines that can run do run (weak fairness on the next step of each request,
handler and worker), time passes (`CooldownElapses`), the container is restarted
(`Restart`), and Kafka delivers again what was not acknowledged (`Consume`). Bookings,
the broker, the contexts of requests, the administrator and faults owe nothing:
`RecoversUnderTraffic` assumes bookings, and an end of failures, explicitly, `EventuallyStored`
a broker that finally stays up.
`EventuallyStored` rests on the canary's worker, whose breaker stays CLOSED. With the
serving process alone it is false, since the gate may be shut at every tick.

`OpensUnderFailures` assumes reported failures. In the gateway, windows of the rate limit
end as well; clients and the RPC services owe nothing. In `ScheduleModel`, calls go on, keys are
deleted and entries expire; `StockCatchesUp` assumes that preloads keep coming, and edits and
faults are bounded, so that the table is left alone in the end.

`HalfOpenResolves` and `RecoversUnderTraffic` count a restart as leaving HALF_OPEN:
with the defect below, that is often how the breaker leaves it.

## 4. Disagreements with the documentation

* `breaker_probe` (`kafkaBreaker.go:72-74, 96, 113`): the winner of the
  compare-and-swap does not lock `mu`, its report unlocks it, and the process ends.
* `breaker_quiet` (`kafkaBreaker.go:68-77`, `serviceContext.go:110`): recovery "by
  itself" after 30 s (`Agent.md:75`) needs a booking.
* `reservation_oversold` (`preloadScheduleLogic.go:42`): a preload of a schedule on
  sale hands out its seats a second time.
* `delivery_dropped` (`degradationQueue.go:66-68`): an order is lost when the drain's
  context expires in its push ("orders are not dropped", `Agent.md:81`).
* `smart_numbers` (`createAppointmentLogic.go:98`): repeats are refused per schedule, order
  numbers are unique per user and day: the second booking of a user on one day is answered
  with a success and never stored, and its message is retried in vain.
* `gateway_path` (`breakerMiddleware.go:189`): the test for administration paths lets
  `/v1/appointment` past the breaker, which therefore never opens (`Agent.md:148`).

## 5. Proofs

Every safety property that a passing run checks is also proved, for every set of
requests, orders, processes, users and schedules and every threshold, total, quota
and bound. The assumptions are those that the modules state: bounds, quotas and
thresholds are naturals, totals are integers, and the values that stand for "nothing"
are none of the others. No set is assumed to be finite.

* `KafkaBreakerProofs`: `TypeCorrect` and `HalfOpenIsAttended`. `HalfOpenHasProber` is
  inductive with the types: an action that leaves the steps in `Deciding` either saw
  another state than HALF_OPEN or stores one, and only `AllowCAS` creates HALF_OPEN,
  moving its request to `push`. `GotoKeepsProber` carries the existential over a step.
  `OnlyThresholdTrips`: while the count is below the threshold, nobody gets past the first
  half of `Allow` or `Success`, nor further in `Failure` than the count (`Quiet`), so that
  the fatal unlock needs a trip first. Pushes may fail all the while. The lemmas
  `StepKeepsTypes`, `StepKeepsProber` and `StepMovesOne` speak of one
  step of one request, for use in `GatewayProofs`.
* `ReservationProofs`: `ReservationInvariant`, from which `TypeCorrect`,
  `SeatsAccountedFor`, `SeatsAreExclusive`, `MarksAreTruthful`, and `Refinement`. The
  properties need two facts to be inductive. History lies in the past
  (`HistoryIsPast`): a preload opens a round without tickets, a new day has none.
  Stock never exceeds the total (`StockInRange`): so the script's seat belongs to the
  schedule. `FreshSeat` collects what a successful script may rely on; the refinement is
  that lemma plus the definitions. `TicketsAreSound` adds that a ticket's seat exists and
  that a user has one of a schedule a day. With it round and seat map the tickets of a
  schedule one to one into rounds and seats, which is `OversellingBound`.
* `ScheduleModelProofs`: `TypeCorrect` and `StaleEntriesExplained`. A call between its
  `Select` and its `Fill` carries the next entry of the cache, so the invariant (`IInv`)
  says of it what the property says of the entry: it is the present row, or a deletion is
  due, or the row is excused (`FillsArePresent`). `FoundWhatIsSet` makes the types
  inductive.
* `OrderDeliveryProofs`, three invariants, each resting on the one before.
  `CustodyInv`: the types, and the parts of `SingleCustody`; that a worker which is about
  to push or to requeue holds an order (`HoldsWhilePushing`) makes the types inductive,
  and `Lpush` and `Rpop` say what the two commands do to the list. `CopiesInv`: an
  order in custody has a copy to come, and one copy less to show than the others
  (`CopiesBound`), which is why a requeue is harmless and a retry after an unknown
  outcome is not. `LossInv`: an expired context need not lose its order at once, so
  expired handlers and overdue drains are counted together with the orders that are lost
  (`LossesBound`), and a fault pays for each when it is marked, not when it bites.
  From these `TypeCorrect`, `OneCustodian`, `CopiesExplained`, `LossesNeedFaults`, and
  `Refinement`, whose steps are those in which an order enters custody, leaves it, or has a
  row written.
* `OrderPathProofs`: the lemma `PromiseKept`, read off the actions of `OrderPath`. The result
  is `OrderDeliveryProofs!NothingComesBack`, which says the same of the processes, by the
  refinement.
* `SmartReserveProofs`: `SeatsRefinement` (`SmartReserve` does to the seats what
  `Reservation` does) carries `TicketsAreSound` over; it is used before and after every
  step. `BookingInv` adds the types of the orders (`OrdersOK`) and `SeatsAccounted`, which
  is inductive with them. `RowsFitSeats` maps the rows of a round one to one to its seats;
  `CollisionsAreExplained` is one seat per user, schedule and day. `PathRefinement`: the
  orders go the way of `OrderPath`, so that what `OrderDelivery` refines is what is composed
  here.
* `GatewayProofs`: a guarded request takes a step of the breaker (`GuardedIsStep`), so the
  lemmas of `KafkaBreakerProofs` apply, and `OthersLeaveBreaker` says what the rest of the
  chain and `Reset` may do to it: hence `HalfOpenIsAttended`. `ChainInvariant` gives `TypeCorrect` and `CanaryIsHarmless`; it needs
  that a request inside the chain is one a client sent (`RequestsAreKnown`) and that a
  gateway which is down has none (`DeadIsEmpty`), since otherwise a request would be inside
  the breaker of a process that has ended.

Model-checked only: the liveness properties (`HalfOpenResolves`, `RecoversUnderTraffic`,
`OpensUnderFailures`, `EventuallyStored`, `EventuallySettled`, `EveryRequestAnswered`,
`StockCatchesUp`): fairness needs ENABLED, which is beyond the provers used here. The
properties of the runs that expect a violation are false, so there is nothing to prove.

## 6. Not modelled

* `appointmentOrderModel` but for `Insert`: its other methods have no caller, and nothing
  fills its cache.
* A loss of Redis data, and `redis-cli SET` by an operator (`Agent.md:97`).
* Malformed messages, which `Consume` drops: no producer of the repository sends one.
* `OrderChan` and its consumers: no sender. `Reset` of the Kafka breaker: no caller.
* Generated stubs, configuration, entry points, load test: no state.

## 7. Plan

1. All components named above as modelled: done, model-checked.
2. Safety: done, proved. This covers the type invariants, the safety invariants, the
   refinements and `TripTakesThreshold`.
3. Next: how far the disagreements of section 4 go. `OversellingBound`, `LossesNeedFaults`
   and `CollisionsAreExplained` bound three of them; for the fatal unlock
   (`ProbeReportSettles`) `OnlyThresholdTrips` says only that it takes a trip first.
4. Lemmas on which the liveness properties rest and which are plain safety, such as the
   progress that a single report makes towards another state than HALF_OPEN.
