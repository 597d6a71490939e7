---------------------------- MODULE OrderDelivery ---------------------------
(***************************************************************************)
(* The way of an order from the handler that reserved its seat to the row  *)
(* in MySQL: over Kafka, or, when the write to Kafka is refused or fails,  *)
(* over the Redis list degradation:orders, which a worker in every RPC     *)
(* process drains into Kafka.                                              *)
(*                                                                         *)
(*   handler  --Push-->  topic  --Consume-->  rows                         *)
(*      |                  ^                                               *)
(*    LPUSH              Push                                              *)
(*      v                  |                                               *)
(*    queue  --RPOP-->  worker  (one per process, LPUSH again on failure)  *)
(*                                                                         *)
(* What the breaker decides is an input here (module KafkaBreaker has its  *)
(* inside): Route takes either branch, and the gate a worker looks at      *)
(* moves freely in a process that handles bookings.                        *)
(***************************************************************************)
EXTENDS Integers, Sequences, FiniteSets, SequencesExt

CONSTANTS
    Orders,      (* bookings, one message each                          *)
    Instances,   (* RPC processes                                       *)
    Serving,     (* those that handle bookings: the canary answers      *)
                 (* before it reserves, so its breaker hears no report  *)
    None,        (* a worker that holds no message                      *)
    MaxFaults    (* bound: how often each kind of fault happens         *)

\* A process dies; a call to Redis or MySQL goes wrong; the context of a request,
\* or of a drain, expires; a push fails for its caller although Kafka has the
\* message.
FaultKinds == {"crash", "store", "request", "drain", "ambiguous"}

ASSUME OrderDeliveryAssumption ==
    /\ Serving \subseteq Instances
    /\ None \notin Orders
    /\ MaxFaults \in [FaultKinds -> Nat]

VARIABLES
    stage,     (* where the handler of each order is                    *)
    host,      (* the process that runs it                              *)
    late,      (* handlers whose request context has expired            *)
    queue,     (* degradation:orders, leftmost element first            *)
    wpc,       (* what each worker does next                            *)
    held,      (* the message a worker has popped                       *)
    overdue,   (* workers whose 10 s context has expired                *)
    closed,    (* whether the breaker of each process is CLOSED         *)
    kafkaUp,   (* the broker accepts messages                           *)
    topic,     (* copies of each order not acknowledged by the consumer *)
    rows,      (* orders with a row in appointment_order                *)
    faults     (* faults so far, by kind                                *)

handlerVars == <<stage, host, late>>
workerVars == <<wpc, held, overdue>>
vars == <<handlerVars, queue, workerVars, closed, kafkaUp, topic, rows, faults>>

\* "answered": CreateAppointment returned Code 0.  "died": its process did not
\* live to answer.
Pending == {"route", "push", "enqueue"}
Stages == {"none", "answered", "died"} \cup Pending
WorkerSteps == {"wait", "pop", "push", "requeue"}

TypeOK ==
    /\ stage \in [Orders -> Stages]
    /\ host \in [Orders -> Instances \cup {None}]
    /\ late \subseteq Orders
    /\ queue \in Seq(Orders)
    /\ wpc \in [Instances -> WorkerSteps]
    /\ held \in [Instances -> Orders \cup {None}]
    /\ overdue \subseteq Instances
    /\ closed \in [Instances -> BOOLEAN]
    /\ kafkaUp \in BOOLEAN
    /\ topic \in [Orders -> Nat]
    /\ rows \subseteq Orders
    /\ faults \in [FaultKinds -> Nat]

-----------------------------------------------------------------------------
Init ==
    /\ stage = [o \in Orders |-> "none"]
    /\ host = [o \in Orders |-> None]
    /\ late = {}
    /\ queue = <<>>
    /\ wpc = [i \in Instances |-> "wait"]
    /\ held = [i \in Instances |-> None]
    /\ overdue = {}
    /\ closed = [i \in Instances |-> TRUE]
    /\ kafkaUp = TRUE
    /\ topic = [o \in Orders |-> 0]
    /\ rows = {}
    /\ faults = [k \in FaultKinds |-> 0]

Fault(kind) ==
    /\ faults[kind] < MaxFaults[kind]
    /\ faults' = [faults EXCEPT ![kind] = @ + 1]

NoFault == UNCHANGED faults

\* The message of o reaches the Kafka log.
Publish(o) == topic' = [topic EXCEPT ![o] = @ + 1]

-----------------------------------------------------------------------------
(* The handler: CreateAppointment after the script returned 1.              *)

Handler(o, from, to) ==
    /\ stage[o] = from
    /\ stage' = [stage EXCEPT ![o] = to]
    /\ UNCHANGED <<workerVars, closed, kafkaUp, rows>>

\* The script returned 1 in process i.
Reserved(o, i) ==
    /\ i \in Serving
    /\ Handler(o, "none", "route")
    /\ host' = [host EXCEPT ![o] = i]
    /\ UNCHANGED <<late, queue, topic>>
    /\ NoFault

\* The simulation switch and Allow: on to Kafka, or degraded.
Route(o) ==
    /\ Handler(o, "route", "push") \/ Handler(o, "route", "enqueue")
    /\ UNCHANGED <<host, late, queue, topic>>
    /\ NoFault

\* Variant: no return after the push, so that the order is degraded as well.
HandlerPushedFallsThrough(o) ==
    /\ kafkaUp /\ o \notin late
    /\ Handler(o, "push", "enqueue")
    /\ Publish(o)
    /\ UNCHANGED <<host, late, queue>>
    /\ NoFault

HandlerPushed(o) ==
    /\ kafkaUp /\ o \notin late
    /\ Handler(o, "push", "answered")
    /\ Publish(o)
    /\ UNCHANGED <<host, late, queue>>
    /\ NoFault

\* Push returns an error and the message is not in the log.
HandlerPushFails(o) ==
    /\ ~kafkaUp \/ o \in late
    /\ Handler(o, "push", "enqueue")
    /\ UNCHANGED <<host, late, queue, topic>>
    /\ NoFault

\* Push returns an error, yet the message is in the log.
HandlerPushAmbiguous(o) ==
    /\ Handler(o, "push", "enqueue")
    /\ Publish(o)
    /\ UNCHANGED <<host, late, queue>>
    /\ Fault("ambiguous")

HandlerEnqueues(o) ==
    /\ o \notin late
    /\ Handler(o, "enqueue", "answered")
    /\ queue' = <<o>> \o queue
    /\ UNCHANGED <<host, late, topic>>
    /\ NoFault

\* The error of Enqueue is dropped and the caller is told of a success: LPUSH
\* went wrong, or the request context, which LPUSH shares, has expired.
HandlerEnqueueFails(o) ==
    /\ Handler(o, "enqueue", "answered")
    /\ UNCHANGED <<host, late, queue, topic>>
    /\ IF o \in late THEN NoFault ELSE Fault("store")

RequestExpires(o) ==
    /\ stage[o] \in Pending /\ o \notin late
    /\ late' = late \cup {o}
    /\ Fault("request")
    /\ UNCHANGED <<stage, host, queue, workerVars, closed, kafkaUp, topic, rows>>

-----------------------------------------------------------------------------
(* The worker: startDegradationWorker and Drain.                            *)

Worker(i, from, to) ==
    /\ wpc[i] = from
    /\ wpc' = [wpc EXCEPT ![i] = to]
    /\ UNCHANGED <<handlerVars, closed, kafkaUp, rows>>

\* Variant: the gate is the wrong way round.
TickWhenOpen(i) ==
    /\ ~closed[i]
    /\ Worker(i, "wait", "pop")
    /\ overdue' = overdue \ {i}
    /\ UNCHANGED <<held, queue, topic>>
    /\ NoFault

\* The ticker fires, the breaker of this process is CLOSED, and the drain gets
\* a fresh context.
Tick(i) ==
    /\ closed[i]
    /\ Worker(i, "wait", "pop")
    /\ overdue' = overdue \ {i}
    /\ UNCHANGED <<held, queue, topic>>
    /\ NoFault

\* Variant: the message is read and left in the list.
PopPeeking(i) ==
    /\ queue # <<>> /\ i \notin overdue
    /\ Worker(i, "pop", "push")
    /\ held' = [held EXCEPT ![i] = Last(queue)]
    /\ UNCHANGED <<overdue, queue, topic>>
    /\ NoFault

Pop(i) ==
    /\ queue # <<>> /\ i \notin overdue
    /\ Worker(i, "pop", "push")
    /\ held' = [held EXCEPT ![i] = Last(queue)]
    /\ queue' = Front(queue)
    /\ UNCHANGED <<overdue, topic>>
    /\ NoFault

\* Dequeue returned an error or an empty list, which ends the drain.
PopNothing(i) ==
    /\ Worker(i, "pop", "wait")
    /\ UNCHANGED <<held, overdue, queue, topic>>
    /\ IF queue = <<>> \/ i \in overdue THEN NoFault ELSE Fault("store")

\* Redis executed the RPOP, but its reply did not arrive.
PopLost(i) ==
    /\ queue # <<>>
    /\ Worker(i, "pop", "wait")
    /\ queue' = Front(queue)
    /\ UNCHANGED <<held, overdue, topic>>
    /\ Fault("store")

WorkerPushed(i) ==
    /\ kafkaUp /\ i \notin overdue
    /\ Worker(i, "push", "pop")
    /\ Publish(held[i])
    /\ held' = [held EXCEPT ![i] = None]
    /\ UNCHANGED <<overdue, queue>>
    /\ NoFault

WorkerPushFails(i) ==
    /\ ~kafkaUp \/ i \in overdue
    /\ Worker(i, "push", "requeue")
    /\ UNCHANGED <<held, overdue, queue, topic>>
    /\ NoFault

WorkerPushAmbiguous(i) ==
    /\ Worker(i, "push", "requeue")
    /\ Publish(held[i])
    /\ UNCHANGED <<held, overdue, queue>>
    /\ Fault("ambiguous")

\* Variant: a failed push ends the drain, and that is all.
RequeueForgetting(i) ==
    /\ i \notin overdue
    /\ Worker(i, "requeue", "wait")
    /\ held' = [held EXCEPT ![i] = None]
    /\ UNCHANGED <<overdue, queue, topic>>
    /\ NoFault

\* A failed push puts the message back on the left and ends the drain.
Requeue(i) ==
    /\ i \notin overdue
    /\ Worker(i, "requeue", "wait")
    /\ queue' = <<held[i]>> \o queue
    /\ held' = [held EXCEPT ![i] = None]
    /\ UNCHANGED <<overdue, topic>>
    /\ NoFault

\* Enqueue uses the context of the drain: once that has expired, the push that
\* failed for this reason is followed by an LPUSH that fails as well.
RequeueFails(i) ==
    /\ Worker(i, "requeue", "wait")
    /\ held' = [held EXCEPT ![i] = None]
    /\ UNCHANGED <<overdue, queue, topic>>
    /\ IF i \in overdue THEN NoFault ELSE Fault("store")

DrainExpires(i) ==
    /\ wpc[i] # "wait" /\ i \notin overdue
    /\ overdue' = overdue \cup {i}
    /\ Fault("drain")
    /\ UNCHANGED <<handlerVars, queue, wpc, held, closed, kafkaUp, topic, rows>>

-----------------------------------------------------------------------------
(* The consumer: Consume, and Kafka's delivery of what it does not          *)
(* acknowledge.  A copy whose Insert fails stays in the topic: that step    *)
(* changes nothing, and it is all that ever happens to a second copy, since *)
(* order_no is unique.                                                      *)

\* Variant: the error of Insert is logged, and the message acknowledged.
ConsumeIgnoringError(o) ==
    /\ topic[o] > 0 /\ o \notin rows
    /\ rows' \in {rows, rows \cup {o}}
    /\ topic' = [topic EXCEPT ![o] = @ - 1]
    /\ UNCHANGED <<handlerVars, queue, workerVars, closed, kafkaUp>>
    /\ NoFault

\* Variant: the copy is acknowledged along with one that is not there.
ConsumeAckTwice(o) ==
    /\ topic[o] > 0 /\ o \notin rows
    /\ rows' = rows \cup {o}
    /\ topic' = [topic EXCEPT ![o] = @ - 2]
    /\ UNCHANGED <<handlerVars, queue, workerVars, closed, kafkaUp>>
    /\ NoFault

Consume(o) ==
    /\ topic[o] > 0 /\ o \notin rows
    /\ rows' = rows \cup {o}
    /\ topic' = [topic EXCEPT ![o] = @ - 1]
    /\ UNCHANGED <<handlerVars, queue, workerVars, closed, kafkaUp>>
    /\ NoFault

\* Insert wrote the row and returns an error all the same (the answer of MySQL
\* is lost, or the cache keys cannot be deleted): Consume returns the error and
\* the message is not acknowledged.
ConsumeFailsLate(o) ==
    /\ topic[o] > 0 /\ o \notin rows
    /\ rows' = rows \cup {o}
    /\ UNCHANGED <<handlerVars, queue, workerVars, closed, kafkaUp, topic>>
    /\ Fault("store")

-----------------------------------------------------------------------------
(* Processes, breakers and the broker.                                      *)

\* Process i dies and is started again: its handlers never answer, and its
\* worker forgets the message it had popped.
Crash(i) ==
    /\ Fault("crash")
    /\ stage' = [o \in Orders |->
                    IF host[o] = i /\ stage[o] \in Pending THEN "died" ELSE stage[o]]
    /\ wpc' = [wpc EXCEPT ![i] = "wait"]
    /\ held' = [held EXCEPT ![i] = None]
    /\ closed' = [closed EXCEPT ![i] = TRUE]
    /\ UNCHANGED <<host, late, queue, overdue, kafkaUp, topic, rows>>

\* Allow, Success and Failure of the process, whoever calls them: KafkaBreaker has
\* their steps, here its gate opens and closes at any time.
BreakerMoves(i) ==
    /\ i \in Serving
    /\ closed' = [closed EXCEPT ![i] = ~@]
    /\ UNCHANGED <<handlerVars, queue, workerVars, kafkaUp, topic, rows, faults>>

KafkaMoves ==
    /\ kafkaUp' = ~kafkaUp
    /\ UNCHANGED <<handlerVars, queue, workerVars, closed, topic, rows, faults>>

-----------------------------------------------------------------------------
Handle(o) ==
    \/ Route(o)
    \/ HandlerPushed(o) \/ HandlerPushFails(o) \/ HandlerPushAmbiguous(o)
    \/ HandlerEnqueues(o) \/ HandlerEnqueueFails(o)

Drain(i) ==
    \/ Tick(i)
    \/ Pop(i) \/ PopNothing(i) \/ PopLost(i)
    \/ WorkerPushed(i) \/ WorkerPushFails(i) \/ WorkerPushAmbiguous(i)
    \/ Requeue(i) \/ RequeueFails(i)

Next ==
    \/ \E o \in Orders, i \in Instances : Reserved(o, i)
    \/ \E o \in Orders : Handle(o) \/ RequestExpires(o)
    \/ \E i \in Instances : Drain(i) \/ DrainExpires(i) \/ Crash(i) \/ BreakerMoves(i)
    \/ \E o \in Orders : Consume(o) \/ ConsumeFailsLate(o)
    \/ KafkaMoves

Spec == Init /\ [][Next]_vars

\* Goroutines run, tickers fire, and the consumer gets what it has not
\* acknowledged until its Insert succeeds.
Fairness ==
    /\ \A o \in Orders : WF_vars(Handle(o)) /\ WF_vars(Consume(o))
    /\ \A i \in Instances : WF_vars(Drain(i))

FairSpec == Spec /\ Fairness

-----------------------------------------------------------------------------
(* Properties.                                                              *)

InQueue(o) == \E k \in 1 .. Len(queue) : queue[k] = o
Held(o) == \E i \in Instances : held[i] = o
Published(o) == topic[o] > 0 \/ o \in rows

\* The way of the orders as seen from outside: a handler that has yet to answer,
\* the list and the workers are all the same custody.
Path == INSTANCE OrderPath WITH
    custody <- {o \in Orders : stage[o] \in Pending \/ InQueue(o) \/ Held(o)},
    copies <- [o \in {p \in Orders : stage[p] # "none"} |-> topic[o]]

\* The caller has been told of a success, and the order is nowhere any more.
Lost(o) == stage[o] = "answered" /\ ~InQueue(o) /\ ~Held(o) /\ ~Published(o)

\* Outside Kafka an order has one custodian: the handlers, the list and the
\* workers of all processes never have it twice, so that nothing but a push
\* with an unknown outcome makes a second copy.
SingleCustody ==
    /\ \A j, k \in 1 .. Len(queue) : queue[j] = queue[k] => j = k
    /\ \A i, j \in Instances : held[i] = held[j] /\ held[i] # None => i = j
    /\ \A o \in Orders :
          /\ ~(InQueue(o) /\ Held(o))
          /\ InQueue(o) \/ Held(o) => stage[o] = "answered"

\* Refusals, breaker moves and a broker that comes and goes never lose an order
\* whose caller was told of a success.  It takes a process crash, a failed Redis
\* command or an expired context, and each of these loses one at most.
LossNeedsFault ==
    Cardinality({o \in Orders : Lost(o)})
      <= faults["crash"] + faults["store"] + faults["request"] + faults["drain"]

\* Every further copy of an order in Kafka goes back to a push whose outcome was
\* unknown, or to a row written by a Consume that reported an error.
CopiesNeedFault ==
    \A o \in Orders :
        topic[o] + (IF o \in rows THEN 1 ELSE 0)
          <= 1 + faults["ambiguous"] + faults["store"]

\* Handlers, list, workers, crashes and failing calls implement the path: an
\* order that was passed on or lost is never picked up again by anybody, and
\* Kafka forgets a copy only when the row is there.
ImplementsPath == Path!PathSpec

\* If Kafka comes back for good, an order whose caller was told of a success
\* gets its row, or is one of those that a fault lost.
EventuallyStored ==
    <>[]kafkaUp =>
        \A o \in Orders : []<>(stage[o] = "answered" => o \in rows \/ Lost(o))

\* "Orders are not dropped, they go to the Redis queue": no order whose caller
\* was told of a success is ever nowhere.
NothingDropped == \A o \in Orders : ~Lost(o)
=============================================================================
