------------------------ MODULE OrderDeliveryProofs -------------------------
(***************************************************************************)
(* Proofs about OrderDelivery, for any orders, processes and bounds.       *)
(***************************************************************************)
EXTENDS OrderDelivery, SequenceTheorems, FiniteSetTheorems, TLAPS

\* A worker holds a message exactly while it pushes or puts it back.
HoldsWhilePushing ==
    \A i \in Instances : held[i] # None <=> wpc[i] \in {"push", "requeue"}

TypeInv == TypeOK /\ HoldsWhilePushing

\* SingleCustody, part by part.
Distinct == \A j, k \in 1 .. Len(queue) : queue[j] = queue[k] => j = k
HeldOnce == \A i, j \in Instances : held[i] = held[j] /\ held[i] # None => i = j
Outside == \A o \in Orders : InQueue(o) \/ Held(o) => stage[o] = "answered"
Apart == \A o \in Orders : ~(InQueue(o) /\ Held(o))

CustodyInv == TypeInv /\ Distinct /\ HeldOnce /\ Outside /\ Apart

P == INSTANCE OrderPathProofs WITH
    custody <- {o \in Orders : stage[o] \in Pending \/ InQueue(o) \/ Held(o)},
    copies <- [o \in {p \in Orders : stage[p] # "none"} |-> topic[o]]

-----------------------------------------------------------------------------
(* The list.                                                               *)

\* LPUSH: the list has one element more, on its left.
LEMMA Lpush ==
    ASSUME queue \in Seq(Orders), NEW o \in Orders, queue' = <<o>> \o queue
    PROVE  /\ queue' \in Seq(Orders)
           /\ \A x : InQueue(x)' <=> InQueue(x) \/ x = o
           /\ Distinct /\ ~InQueue(o) => Distinct'
<1>1. /\ <<o>> \in Seq(Orders) /\ Len(<<o>>) = 1 /\ <<o>>[1] = o
      /\ Len(queue) \in Nat
  OBVIOUS
<1>2. /\ queue' \in Seq(Orders)
      /\ Len(queue') = Len(queue) + 1
      /\ \A k \in 1 .. Len(queue) + 1 :
            queue'[k] = IF k <= 1 THEN o ELSE queue[k - 1]
  BY <1>1, ConcatProperties
<1>3. ASSUME NEW x, InQueue(x) PROVE InQueue(x)'
  <2>1. PICK k \in 1 .. Len(queue) : queue[k] = x
    BY <1>3 DEF InQueue
  <2>2. k + 1 \in 1 .. Len(queue') /\ queue'[k + 1] = x
    BY <2>1, <1>1, <1>2
  <2> QED BY <2>2 DEF InQueue
<1>4. InQueue(o)'
  <2>1. 1 \in 1 .. Len(queue') /\ queue'[1] = o
    BY <1>1, <1>2
  <2> QED BY <2>1 DEF InQueue
<1>5. ASSUME NEW x, InQueue(x)', x # o PROVE InQueue(x)
  <2>1. PICK k \in 1 .. Len(queue') : queue'[k] = x
    BY <1>5 DEF InQueue
  <2>2. k - 1 \in 1 .. Len(queue) /\ queue[k - 1] = x
    BY <2>1, <1>1, <1>2, <1>5
  <2> QED BY <2>2 DEF InQueue
<1>6. ASSUME Distinct, ~InQueue(o) PROVE Distinct'
  <2> SUFFICES ASSUME NEW j \in 1 .. Len(queue'), NEW k \in 1 .. Len(queue'),
                      queue'[j] = queue'[k]
               PROVE  j = k
    BY DEF Distinct
  <2>1. ASSUME NEW m \in 1 .. Len(queue'), m # 1
        PROVE  /\ m - 1 \in 1 .. Len(queue)
               /\ queue'[m] = queue[m - 1]
               /\ queue'[m] # o
    BY <2>1, <1>1, <1>2, <1>6 DEF InQueue
  <2>2. queue'[1] = o
    BY <1>1, <1>2
  <2> QED BY <2>1, <2>2, <1>6 DEF Distinct
<1> QED BY <1>2, <1>3, <1>4, <1>5, <1>6

\* RPOP: the last element is gone from the list, and nothing else is.
LEMMA Rpop ==
    ASSUME queue \in Seq(Orders), queue # <<>>, queue' = Front(queue), Distinct
    PROVE  /\ queue' \in Seq(Orders)
           /\ Last(queue) \in Orders
           /\ InQueue(Last(queue))
           /\ \A x : InQueue(x)' <=> InQueue(x) /\ x # Last(queue)
           /\ Distinct'
<1> DEFINE n == Len(queue)
<1>1. n \in Nat \ {0} /\ Last(queue) = queue[n] /\ queue[n] \in Orders
  BY EmptySeq, ElementOfSeq DEF Last
<1>2. /\ queue' \in Seq(Orders)
      /\ Len(queue') = n - 1
      /\ \A k \in 1 .. n - 1 : queue'[k] = queue[k]
  <2>1. queue' = SubSeq(queue, 1, n - 1)
    BY DEF Front
  <2>2. \A k \in 1 .. n - 1 : queue[k] \in Orders
    BY <1>1, ElementOfSeq
  <2>3. /\ SubSeq(queue, 1, n - 1) \in Seq(Orders)
        /\ Len(SubSeq(queue, 1, n - 1)) = IF 1 <= n - 1 THEN (n - 1) - 1 + 1 ELSE 0
        /\ \A k \in 1 .. (n - 1) - 1 + 1 : SubSeq(queue, 1, n - 1)[k] = queue[1 + k - 1]
    BY <1>1, <2>2, SubSeqProperties
  <2>4. (n - 1) - 1 + 1 = n - 1 /\ \A k \in 1 .. n - 1 : 1 + k - 1 = k
    BY <1>1
  <2>5. (IF 1 <= n - 1 THEN (n - 1) - 1 + 1 ELSE 0) = n - 1
    BY <1>1
  <2>6. \A k \in 1 .. n - 1 : SubSeq(queue, 1, n - 1)[k] = queue[k]
    BY <2>3, <2>4
  <2> QED BY <2>1, <2>3, <2>5, <2>6
<1>3. ASSUME NEW x PROVE InQueue(x)' <=> InQueue(x) /\ x # queue[n]
  <2>1. ASSUME NEW k \in 1 .. n - 1
        PROVE  k \in 1 .. n /\ queue[k] # queue[n] /\ queue'[k] = queue[k]
    BY <1>1, <1>2 DEF Distinct
  <2>2. \A k \in 1 .. n : k = n \/ k \in 1 .. n - 1
    BY <1>1
  <2> QED BY <1>1, <1>2, <2>1, <2>2 DEF InQueue
<1>4. Distinct'
  BY <1>1, <1>2 DEF Distinct
<1>5. InQueue(queue[n])
  BY <1>1 DEF InQueue
<1> QED BY <1>1, <1>2, <1>3, <1>4, <1>5

-----------------------------------------------------------------------------
(* Types.                                                                  *)

\* At the start there are no orders, and so no wrong ones.
LEMMA InitTypes == Init => TypeInv
<1> SUFFICES ASSUME Init PROVE TypeInv
  OBVIOUS
<1> USE OrderDeliveryAssumption DEF OrderDeliveryAssumption, Init
<1>1. closed \in [Instances -> BOOLEAN] /\ kafkaUp \in BOOLEAN
  OBVIOUS
<1>2. queue \in Seq(Orders)
  OBVIOUS
<1> QED BY <1>1, <1>2 DEF TypeInv, TypeOK, HoldsWhilePushing, Stages, WorkerSteps

\* A fault is counted, or none happens.
LEMMA FaultTypes ==
    ASSUME faults \in [FaultKinds -> Nat],
           NoFault \/ \E kind \in FaultKinds : Fault(kind)
    PROVE  faults' \in [FaultKinds -> Nat]
BY DEF NoFault, Fault

\* The branches of the booking handler keep types, and push only orders.
LEMMA HandlerTypes ==
    ASSUME TypeInv, NEW o \in Orders, Handle(o)
    PROVE  TypeInv'
<1> USE DEF TypeInv, TypeOK
<1>1. faults' \in [FaultKinds -> Nat]
  <2>1. NoFault \/ \E kind \in FaultKinds : Fault(kind)
    BY Zenon DEF Handle, Route, HandlerPushed, HandlerPushFails, HandlerPushAmbiguous,
           HandlerEnqueues, HandlerEnqueueFails, FaultKinds
  <2> QED BY <2>1, FaultTypes
<1>2. queue' \in Seq(Orders)
  <2>1. ASSUME queue' = <<o>> \o queue PROVE queue' \in Seq(Orders)
    BY <2>1, Lpush
  <2> QED BY <2>1 DEF Handle, Route, HandlerPushed, HandlerPushFails,
                HandlerPushAmbiguous, HandlerEnqueues, HandlerEnqueueFails
<1>3. topic' \in [Orders -> Nat]
  BY DEF Handle, Route, HandlerPushed, HandlerPushFails, HandlerPushAmbiguous,
         HandlerEnqueues, HandlerEnqueueFails, Publish
<1>4. /\ stage' \in [Orders -> Stages]
      /\ UNCHANGED <<host, late>>
      /\ UNCHANGED <<workerVars, closed, kafkaUp, rows>>
  BY DEF Handle, Route, HandlerPushed, HandlerPushFails, HandlerPushAmbiguous,
         HandlerEnqueues, HandlerEnqueueFails, Handler, Stages, Pending
<1> QED BY <1>1, <1>2, <1>3, <1>4 DEF workerVars, HoldsWhilePushing

\* A worker has an order in its hands whenever it is about to push or requeue.
LEMMA WorkerTypes ==
    ASSUME TypeInv, Distinct, NEW i \in Instances, Drain(i)
    PROVE  TypeInv'
<1> USE DEF TypeInv, TypeOK
<1>1. faults' \in [FaultKinds -> Nat]
  <2>1. NoFault \/ \E kind \in FaultKinds : Fault(kind)
    BY Zenon DEF Drain, Tick, Pop, PopNothing, PopLost, WorkerPushed, WorkerPushFails,
           WorkerPushAmbiguous, Requeue, RequeueFails, FaultKinds
  <2> QED BY <2>1, FaultTypes
<1>2. UNCHANGED <<handlerVars, closed, kafkaUp, rows>>
  BY DEF Drain, Tick, Pop, PopNothing, PopLost, WorkerPushed, WorkerPushFails,
         WorkerPushAmbiguous, Requeue, RequeueFails, Worker
<1>3. topic' \in [Orders -> Nat]
  BY DEF Drain, Tick, Pop, PopNothing, PopLost, WorkerPushed, WorkerPushFails,
         WorkerPushAmbiguous, Requeue, RequeueFails, Publish
<1>4. overdue' \subseteq Instances
  BY DEF Drain, Tick, Pop, PopNothing, PopLost, WorkerPushed, WorkerPushFails,
         WorkerPushAmbiguous, Requeue, RequeueFails
<1>5. wpc' \in [Instances -> WorkerSteps]
  BY DEF Drain, Tick, Pop, PopNothing, PopLost, WorkerPushed, WorkerPushFails,
         WorkerPushAmbiguous, Requeue, RequeueFails, Worker, WorkerSteps
<1>6. queue # <<>> /\ queue' = Front(queue) =>
         queue' \in Seq(Orders) /\ Last(queue) \in Orders
  BY Rpop
<1>7. queue # <<>> => Last(queue) \in Orders
  BY EmptySeq, ElementOfSeq DEF Last
<1>8. held' \in [Instances -> Orders \cup {None}]
  BY <1>7 DEF Drain, Tick, Pop, PopNothing, PopLost, WorkerPushed, WorkerPushFails,
         WorkerPushAmbiguous, Requeue, RequeueFails
<1>9. queue' \in Seq(Orders)
  <2>1. CASE Requeue(i)
    <3>1. held[i] \in Orders
      BY <2>1 DEF Requeue, Worker, HoldsWhilePushing
    <3> QED BY <2>1, <3>1, Lpush DEF Requeue
  <2>2. CASE UNCHANGED queue
    BY <2>2
  <2> QED BY <1>6, <2>1, <2>2 DEF Drain, Tick, Pop, PopNothing, PopLost, WorkerPushed,
               WorkerPushFails, WorkerPushAmbiguous, RequeueFails
<1>10. HoldsWhilePushing'
  BY <1>7, OrderDeliveryAssumption DEF OrderDeliveryAssumption, HoldsWhilePushing,
         Drain, Tick, Pop, PopNothing, PopLost, WorkerPushed, WorkerPushFails,
         WorkerPushAmbiguous, Requeue, RequeueFails, Worker
<1> QED BY <1>1, <1>2, <1>3, <1>4, <1>5, <1>8, <1>9, <1>10 DEF handlerVars

\* Every step keeps types, if the list holds no order twice.
LEMMA TypeStep ==
    ASSUME TypeInv, Distinct, [Next]_vars
    PROVE  TypeInv'
<1> USE OrderDeliveryAssumption DEF OrderDeliveryAssumption, TypeInv, TypeOK,
        handlerVars, workerVars
<1>1. ASSUME NEW o \in Orders, NEW i \in Instances, Reserved(o, i) PROVE TypeInv'
  BY <1>1 DEF Reserved, Handler, NoFault, Stages, Pending, HoldsWhilePushing
<1>2. ASSUME NEW o \in Orders, Handle(o) PROVE TypeInv'
  BY <1>2, HandlerTypes
<1>3. ASSUME NEW o \in Orders, RequestExpires(o) PROVE TypeInv'
  BY <1>3, FaultTypes DEF RequestExpires, FaultKinds, HoldsWhilePushing
<1>4. ASSUME NEW i \in Instances, Drain(i) PROVE TypeInv'
  BY <1>4, WorkerTypes
<1>5. ASSUME NEW i \in Instances, DrainExpires(i) PROVE TypeInv'
  BY <1>5, FaultTypes DEF DrainExpires, FaultKinds, HoldsWhilePushing
<1>6. ASSUME NEW i \in Instances, Crash(i) PROVE TypeInv'
  BY <1>6, FaultTypes DEF Crash, FaultKinds, HoldsWhilePushing, Stages, WorkerSteps
<1>7. ASSUME NEW i \in Instances, BreakerMoves(i) PROVE TypeInv'
  BY <1>7 DEF BreakerMoves, HoldsWhilePushing
<1>8. ASSUME NEW o \in Orders, Consume(o) PROVE TypeInv'
  BY <1>8 DEF Consume, NoFault, HoldsWhilePushing
<1>9. ASSUME NEW o \in Orders, ConsumeFailsLate(o) PROVE TypeInv'
  BY <1>9, FaultTypes DEF ConsumeFailsLate, FaultKinds, HoldsWhilePushing
<1>10. CASE KafkaMoves
  BY <1>10 DEF KafkaMoves, HoldsWhilePushing
<1>11. CASE UNCHANGED vars
  BY <1>11 DEF vars, HoldsWhilePushing
<1> QED BY <1>1, <1>2, <1>3, <1>4, <1>5, <1>6, <1>7, <1>8, <1>9, <1>10, <1>11
        DEF Next

-----------------------------------------------------------------------------
(* Custody.                                                                *)

\* A handler has its order alone until it puts it into the list.
LEMMA HandlerCustody ==
    ASSUME CustodyInv, NEW o \in Orders, Handle(o)
    PROVE  Distinct' /\ HeldOnce' /\ Outside' /\ Apart'
<1> USE DEF CustodyInv, TypeInv, TypeOK
<1>1. /\ stage[o] \in Pending
      /\ \A x \in Orders : stage[x] = "answered" => stage'[x] = "answered"
      /\ UNCHANGED held
  BY DEF Handle, Route, HandlerPushed, HandlerPushFails, HandlerPushAmbiguous,
         HandlerEnqueues, HandlerEnqueueFails, Handler, Pending, workerVars
<1>2. ~InQueue(o) /\ ~Held(o)
  BY <1>1 DEF Outside, Pending
<1>3. HeldOnce' /\ \A x : Held(x)' <=> Held(x)
  BY <1>1 DEF HeldOnce, Held
<1>4. CASE HandlerEnqueues(o)
  <2>1. queue' = <<o>> \o queue /\ stage'[o] = "answered"
    BY <1>4 DEF HandlerEnqueues, Handler
  <2>2. Distinct' /\ \A x : InQueue(x)' <=> InQueue(x) \/ x = o
    BY <2>1, <1>2, Lpush
  <2> QED BY <1>1, <1>2, <1>3, <2>1, <2>2 DEF Outside, Apart
<1>5. CASE ~HandlerEnqueues(o)
  <2>1. UNCHANGED queue
    BY <1>5 DEF Handle, Route, HandlerPushed, HandlerPushFails, HandlerPushAmbiguous,
           HandlerEnqueueFails
  <2>2. Distinct' /\ \A x : InQueue(x)' <=> InQueue(x)
    BY <2>1 DEF Distinct, InQueue
  <2> QED BY <1>1, <1>3, <2>2 DEF Outside, Apart
<1> QED BY <1>4, <1>5

\* RPOP and LPUSH move a message between the list and a worker, and leave it in
\* neither place twice.
LEMMA WorkerCustody ==
    ASSUME CustodyInv, NEW i \in Instances, Drain(i)
    PROVE  Distinct' /\ HeldOnce' /\ Outside' /\ Apart'
<1> USE OrderDeliveryAssumption DEF OrderDeliveryAssumption, CustodyInv, TypeInv, TypeOK
<1>1. UNCHANGED stage
  BY DEF Drain, Tick, Pop, PopNothing, PopLost, WorkerPushed, WorkerPushFails,
         WorkerPushAmbiguous, Requeue, RequeueFails, Worker, handlerVars
<1>2. CASE Pop(i)
  <2>1. /\ queue # <<>> /\ queue' = Front(queue)
        /\ held' = [held EXCEPT ![i] = Last(queue)]
    BY <1>2 DEF Pop
  <2>2. /\ Last(queue) \in Orders /\ InQueue(Last(queue)) /\ Distinct'
        /\ \A x : InQueue(x)' <=> InQueue(x) /\ x # Last(queue)
    BY <2>1, Rpop
  <2>3. \A x \in Orders : Held(x)' => Held(x) \/ x = Last(queue)
    BY <2>1 DEF Held
  <2>4. HeldOnce'
    <3>1. ~Held(Last(queue))
      BY <2>2 DEF Apart
    <3> QED BY <2>1, <2>2, <3>1 DEF HeldOnce, Held
  <2> QED BY <1>1, <2>2, <2>3, <2>4 DEF Outside, Apart
<1>3. CASE PopLost(i)
  <2>1. queue # <<>> /\ queue' = Front(queue) /\ UNCHANGED held
    BY <1>3 DEF PopLost
  <2>2. Distinct' /\ \A x : InQueue(x)' => InQueue(x)
    BY <2>1, Rpop
  <2> QED BY <1>1, <2>1, <2>2 DEF HeldOnce, Outside, Apart, Held
<1>4. CASE Requeue(i)
  <2>1. /\ queue' = <<held[i]>> \o queue
        /\ held' = [held EXCEPT ![i] = None]
        /\ held[i] \in Orders
    BY <1>4 DEF Requeue, Worker, HoldsWhilePushing
  <2>2. Held(held[i]) /\ ~InQueue(held[i])
    BY <2>1 DEF Held, Apart
  <2>3. Distinct' /\ \A x : InQueue(x)' <=> InQueue(x) \/ x = held[i]
    BY <2>1, <2>2, Lpush
  <2>4. \A x \in Orders : Held(x)' => Held(x) /\ x # held[i]
    BY <2>1 DEF Held, HeldOnce
  <2>5. HeldOnce'
    BY <2>1 DEF HeldOnce
  <2> QED BY <1>1, <2>1, <2>2, <2>3, <2>4, <2>5 DEF Outside, Apart
<1>5. CASE ~Pop(i) /\ ~PopLost(i) /\ ~Requeue(i)
  <2>1. UNCHANGED queue /\ held' \in {held, [held EXCEPT ![i] = None]}
    BY <1>5 DEF Drain, Tick, PopNothing, WorkerPushed, WorkerPushFails,
           WorkerPushAmbiguous, RequeueFails
  <2>2. Distinct' /\ \A x : InQueue(x)' <=> InQueue(x)
    BY <2>1 DEF Distinct, InQueue
  <2>3. HeldOnce' /\ \A x \in Orders : Held(x)' => Held(x)
    BY <2>1 DEF HeldOnce, Held
  <2> QED BY <1>1, <2>2, <2>3 DEF Outside, Apart
<1> QED BY <1>2, <1>3, <1>4, <1>5

\* No step lets two custodians have the same order.
LEMMA CustodyStep ==
    CustodyInv /\ [Next]_vars => CustodyInv'
<1> SUFFICES ASSUME CustodyInv, [Next]_vars PROVE CustodyInv'
  OBVIOUS
<1>1. TypeInv'
  BY TypeStep DEF CustodyInv
<1> DEFINE Goal == Distinct' /\ HeldOnce' /\ Outside' /\ Apart'
<1>2. ASSUME UNCHANGED <<queue, held>>,
             \A o \in Orders : stage[o] = "answered" => stage'[o] = "answered"
      PROVE  Goal
  BY <1>2 DEF CustodyInv, Distinct, HeldOnce, Outside, Apart, InQueue, Held
<1>3. ASSUME NEW o \in Orders, Handle(o) PROVE Goal
  BY <1>3, HandlerCustody
<1>4. ASSUME NEW i \in Instances, Drain(i) PROVE Goal
  BY <1>4, WorkerCustody
<1>5. ASSUME NEW i \in Instances, Crash(i) PROVE Goal
  <2>1. /\ UNCHANGED queue
        /\ held' = [held EXCEPT ![i] = None]
        /\ \A o \in Orders : stage[o] = "answered" => stage'[o] = "answered"
    BY <1>5 DEF Crash, Pending
  <2> QED BY <2>1, OrderDeliveryAssumption DEF OrderDeliveryAssumption, CustodyInv,
          TypeInv, TypeOK, Distinct, HeldOnce, Outside, Apart, InQueue, Held
<1>6. ASSUME NEW o \in Orders, NEW i \in Instances, Reserved(o, i) PROVE Goal
  BY <1>6, <1>2 DEF Reserved, Handler, workerVars, CustodyInv, TypeInv, TypeOK
<1>7. ASSUME NEW o \in Orders, RequestExpires(o) PROVE Goal
  BY <1>7, <1>2 DEF RequestExpires, workerVars
<1>8. ASSUME NEW i \in Instances, DrainExpires(i) \/ BreakerMoves(i) PROVE Goal
  BY <1>8, <1>2 DEF DrainExpires, BreakerMoves, handlerVars, workerVars
<1>9. ASSUME NEW o \in Orders, Consume(o) \/ ConsumeFailsLate(o) PROVE Goal
  BY <1>9, <1>2 DEF Consume, ConsumeFailsLate, handlerVars, workerVars
<1>10. ASSUME KafkaMoves PROVE Goal
  BY <1>10, <1>2 DEF KafkaMoves, handlerVars, workerVars
<1>11. ASSUME UNCHANGED vars PROVE Goal
  BY <1>11, <1>2 DEF vars, handlerVars, workerVars
<1>12. Goal
  BY <1>3, <1>4, <1>5, <1>6, <1>7, <1>8, <1>9, <1>10, <1>11 DEF Next
<1> QED BY <1>1, <1>12 DEF CustodyInv

-----------------------------------------------------------------------------
(* What each step does to the custody of the orders.                       *)

InCustody(o) == stage[o] \in Pending \/ InQueue(o) \/ Held(o)

Keeps == \A x \in Orders : InCustody(x)' <=> InCustody(x)
GivesUp(o) == \A x \in Orders : InCustody(x)' <=> InCustody(x) /\ x # o

\* A handler gives its order up with a push that succeeded, or an LPUSH that did
\* not; else it keeps the order, or the list takes it over.
LEMMA HandlerGivesUp ==
    ASSUME CustodyInv, NEW o \in Orders, Handle(o)
    PROVE  /\ InCustody(o)
           /\ IF HandlerPushed(o) \/ HandlerEnqueueFails(o) THEN GivesUp(o) ELSE Keeps
<1> USE DEF CustodyInv, TypeInv, TypeOK
<1>1. stage[o] \in Pending /\ UNCHANGED held
  BY DEF Handle, Route, HandlerPushed, HandlerPushFails, HandlerPushAmbiguous,
         HandlerEnqueues, HandlerEnqueueFails, Handler, Pending, workerVars
<1>2. ~InQueue(o) /\ ~Held(o) /\ \A x : Held(x)' <=> Held(x)
  BY <1>1 DEF Outside, Pending, Held
<1>3. CASE HandlerPushed(o) \/ HandlerEnqueueFails(o)
  <2>1. stage' = [stage EXCEPT ![o] = "answered"] /\ UNCHANGED queue
    BY <1>3 DEF HandlerPushed, HandlerEnqueueFails, Handler
  <2> QED BY <1>1, <1>2, <1>3, <2>1 DEF GivesUp, InCustody, InQueue, Pending
<1>4. CASE HandlerEnqueues(o)
  <2>1. stage' = [stage EXCEPT ![o] = "answered"] /\ queue' = <<o>> \o queue
    BY <1>4 DEF HandlerEnqueues, Handler
  <2>2. \A x : InQueue(x)' <=> InQueue(x) \/ x = o
    BY <2>1, Lpush
  <2>3. ~(HandlerPushed(o) \/ HandlerEnqueueFails(o))
    <3>1. queue' # queue
      BY <1>2, <2>2 DEF InQueue
    <3> QED BY <3>1 DEF HandlerPushed, HandlerEnqueueFails
  <2> QED BY <1>1, <1>2, <2>1, <2>2, <2>3 DEF Keeps, InCustody, Pending
<1>5. CASE Route(o) \/ HandlerPushFails(o) \/ HandlerPushAmbiguous(o)
  <2>1. /\ \E to \in Pending : stage' = [stage EXCEPT ![o] = to]
        /\ UNCHANGED queue
    BY <1>5 DEF Route, HandlerPushFails, HandlerPushAmbiguous, Handler, Pending
  <2>2. ~(HandlerPushed(o) \/ HandlerEnqueueFails(o))
    BY <2>1 DEF HandlerPushed, HandlerEnqueueFails, Handler, Pending
  <2> QED BY <1>1, <1>2, <2>1, <2>2 DEF Keeps, InCustody, InQueue
<1> QED BY <1>1, <1>3, <1>4, <1>5 DEF Handle, InCustody

\* The worker gives up what it has pushed and what it fails to put back; a reply
\* of RPOP that does not arrive gives up the end of the list.
LEMMA WorkerGivesUp ==
    ASSUME CustodyInv, NEW i \in Instances, Drain(i)
    PROVE  /\ PopLost(i) => /\ Last(queue) \in Orders
                            /\ InCustody(Last(queue)) /\ GivesUp(Last(queue))
           /\ WorkerPushed(i) \/ RequeueFails(i) =>
                 /\ held[i] \in Orders
                 /\ InCustody(held[i]) /\ GivesUp(held[i])
           /\ PopLost(i) \/ WorkerPushed(i) \/ RequeueFails(i) \/ Keeps
<1> USE OrderDeliveryAssumption DEF OrderDeliveryAssumption, CustodyInv, TypeInv, TypeOK
<1>1. UNCHANGED stage
  BY DEF Drain, Tick, Pop, PopNothing, PopLost, WorkerPushed, WorkerPushFails,
         WorkerPushAmbiguous, Requeue, RequeueFails, Worker, handlerVars
<1>2. ASSUME PopLost(i)
      PROVE  /\ Last(queue) \in Orders
             /\ InCustody(Last(queue)) /\ GivesUp(Last(queue))
  <2>1. queue # <<>> /\ queue' = Front(queue) /\ UNCHANGED held
    BY <1>2 DEF PopLost
  <2>2. /\ Last(queue) \in Orders /\ InQueue(Last(queue))
        /\ \A x : InQueue(x)' <=> InQueue(x) /\ x # Last(queue)
    BY <2>1, Rpop
  <2>3. ~Held(Last(queue)) /\ stage[Last(queue)] \notin Pending
    BY <2>2 DEF Apart, Outside, Pending
  <2> QED BY <1>1, <2>1, <2>2, <2>3 DEF GivesUp, InCustody, Held
<1>3. ASSUME WorkerPushed(i) \/ RequeueFails(i)
      PROVE  held[i] \in Orders /\ InCustody(held[i]) /\ GivesUp(held[i])
  <2>1. /\ held[i] \in Orders /\ Held(held[i])
        /\ held' = [held EXCEPT ![i] = None] /\ UNCHANGED queue
    BY <1>3 DEF WorkerPushed, RequeueFails, Worker, HoldsWhilePushing, Held
  <2>2. ~InQueue(held[i]) /\ stage[held[i]] \notin Pending
    BY <2>1 DEF Apart, Outside, Pending
  <2>3. \A x \in Orders : Held(x)' <=> Held(x) /\ x # held[i]
    BY <2>1 DEF Held, HeldOnce
  <2> QED BY <1>1, <2>1, <2>2, <2>3 DEF GivesUp, InCustody, InQueue
<1>4. ASSUME Pop(i) PROVE Keeps
  <2>1. /\ queue # <<>> /\ queue' = Front(queue)
        /\ held' = [held EXCEPT ![i] = Last(queue)] /\ held[i] = None
    BY <1>4 DEF Pop, Worker, HoldsWhilePushing
  <2>2. /\ Last(queue) \in Orders /\ InQueue(Last(queue))
        /\ \A x : InQueue(x)' <=> InQueue(x) /\ x # Last(queue)
    BY <2>1, Rpop
  <2>3. \A x \in Orders : Held(x)' <=> Held(x) \/ x = Last(queue)
    BY <2>1 DEF Held
  <2> QED BY <1>1, <2>2, <2>3 DEF Keeps, InCustody
<1>5. ASSUME Requeue(i) PROVE Keeps
  <2>1. /\ held[i] \in Orders /\ Held(held[i])
        /\ held' = [held EXCEPT ![i] = None] /\ queue' = <<held[i]>> \o queue
    BY <1>5 DEF Requeue, Worker, HoldsWhilePushing, Held
  <2>2. \A x : InQueue(x)' <=> InQueue(x) \/ x = held[i]
    BY <2>1, Lpush
  <2>3. \A x \in Orders : Held(x)' <=> Held(x) /\ x # held[i]
    BY <2>1 DEF Held, HeldOnce
  <2> QED BY <1>1, <2>1, <2>2, <2>3 DEF Keeps, InCustody
<1>6. ASSUME UNCHANGED <<queue, held>> PROVE Keeps
  BY <1>1, <1>6 DEF Keeps, InCustody, InQueue, Held
<1> QED BY <1>2, <1>3, <1>4, <1>5, <1>6 DEF Drain, Tick, PopNothing, WorkerPushFails,
          WorkerPushAmbiguous

-----------------------------------------------------------------------------
(* Copies in Kafka.                                                        *)

\* What has not been accepted is neither in Kafka nor in the table.
NothingBefore ==
    \A o \in Orders : stage[o] = "none" => topic[o] = 0 /\ o \notin rows /\ o \notin late

CopyCount(o) == topic[o] + (IF o \in rows THEN 1 ELSE 0)
Excuses == faults["ambiguous"] + faults["store"]

\* An order that somebody still has to pass on has one copy less to show: the one
\* that is to come.
CopiesBound ==
    \A o \in Orders : CopyCount(o) <= (IF InCustody(o) THEN 0 ELSE 1) + Excuses

CopiesInv == CustodyInv /\ NothingBefore /\ CopiesBound

\* Faults are only ever added; those that excuse a copy count for one.
LEMMA ExcusesGrow ==
    ASSUME TypeInv, NoFault \/ \E kind \in FaultKinds : Fault(kind)
    PROVE  /\ Excuses \in Nat /\ Excuses' \in Nat /\ Excuses' >= Excuses
           /\ Fault("ambiguous") \/ Fault("store") => Excuses' = Excuses + 1
BY DEF TypeInv, TypeOK, NoFault, Fault, Excuses, FaultKinds

\* Without a new copy the bound holds on, whoever gives the order up.
LEMMA CopiesUnchanged ==
    ASSUME CopiesInv, Excuses \in Nat, Excuses' \in Nat, Excuses' >= Excuses,
           UNCHANGED <<topic, rows>>,
           \A o \in Orders : InCustody(o)' => InCustody(o)
    PROVE  CopiesBound'
BY DEF CopiesInv, CustodyInv, TypeInv, TypeOK, CopiesBound, CopyCount

\* A copy more is paid for by the custody that ends with it, or by a fault.
LEMMA CopyPublished ==
    ASSUME CopiesInv, Excuses \in Nat, Excuses' \in Nat, NEW o \in Orders,
           InCustody(o), Publish(o), UNCHANGED rows,
           \/ GivesUp(o) /\ Excuses' >= Excuses
           \/ Keeps /\ Excuses' = Excuses + 1
    PROVE  CopiesBound'
<1> USE DEF CopiesInv, CustodyInv, TypeInv, TypeOK
<1>1. CopyCount(o)' = CopyCount(o) + 1
  BY DEF Publish, CopyCount
<1>2. \A x \in Orders : x # o => CopyCount(x)' = CopyCount(x)
  BY DEF Publish, CopyCount
<1>3. \A x \in Orders : CopyCount(x) \in Nat
  BY DEF CopyCount
<1> QED BY <1>1, <1>2, <1>3 DEF CopiesBound, GivesUp, Keeps

\* The push of a handler uses up the copy to come, or has a fault to show.
LEMMA HandlerCopies ==
    ASSUME CopiesInv, NEW o \in Orders, Handle(o)
    PROVE  CopiesBound'
<1>1. NoFault \/ \E kind \in FaultKinds : Fault(kind)
  BY Zenon DEF Handle, Route, HandlerPushed, HandlerPushFails, HandlerPushAmbiguous,
         HandlerEnqueues, HandlerEnqueueFails, FaultKinds
<1>2. /\ Excuses \in Nat /\ Excuses' \in Nat /\ Excuses' >= Excuses
      /\ Fault("ambiguous") => Excuses' = Excuses + 1
  BY <1>1, ExcusesGrow DEF CopiesInv, CustodyInv
<1>3. /\ InCustody(o)
      /\ IF HandlerPushed(o) \/ HandlerEnqueueFails(o) THEN GivesUp(o) ELSE Keeps
  BY HandlerGivesUp DEF CopiesInv
<1>4. UNCHANGED rows
  BY DEF Handle, Route, HandlerPushed, HandlerPushFails, HandlerPushAmbiguous,
         HandlerEnqueues, HandlerEnqueueFails, Handler
<1>5. CASE HandlerPushed(o)
  BY <1>2, <1>3, <1>4, <1>5, CopyPublished DEF HandlerPushed
<1>6. CASE HandlerPushAmbiguous(o)
  <2>1. stage'[o] = "enqueue" /\ Fault("ambiguous") /\ Publish(o)
    BY <1>6 DEF HandlerPushAmbiguous, Handler, CopiesInv, CustodyInv, TypeInv, TypeOK
  <2>2. Keeps
    BY <1>3, <1>6, <2>1 DEF HandlerPushed, HandlerEnqueueFails, Handler,
           CopiesInv, CustodyInv, TypeInv, TypeOK
  <2> QED BY <1>2, <1>3, <1>4, <2>1, <2>2, CopyPublished
<1>7. CASE UNCHANGED topic
  <2>1. \A x \in Orders : InCustody(x)' => InCustody(x)
    BY <1>3 DEF GivesUp, Keeps
  <2> QED BY <1>2, <1>4, <1>7, <2>1, CopiesUnchanged
<1> QED BY <1>5, <1>6, <1>7 DEF Handle, Route, HandlerPushFails, HandlerEnqueues,
          HandlerEnqueueFails

\* So does the push of a worker; requeueing keeps the copy to come.
LEMMA WorkerCopies ==
    ASSUME CopiesInv, NEW i \in Instances, Drain(i)
    PROVE  CopiesBound'
<1> USE OrderDeliveryAssumption DEF OrderDeliveryAssumption
<1>1. NoFault \/ \E kind \in FaultKinds : Fault(kind)
  BY Zenon DEF Drain, Tick, Pop, PopNothing, PopLost, WorkerPushed, WorkerPushFails,
         WorkerPushAmbiguous, Requeue, RequeueFails, FaultKinds
<1>2. /\ Excuses \in Nat /\ Excuses' \in Nat /\ Excuses' >= Excuses
      /\ Fault("ambiguous") => Excuses' = Excuses + 1
  BY <1>1, ExcusesGrow DEF CopiesInv, CustodyInv
<1>3. UNCHANGED rows
  BY DEF Drain, Tick, Pop, PopNothing, PopLost, WorkerPushed, WorkerPushFails,
         WorkerPushAmbiguous, Requeue, RequeueFails, Worker
<1>4. CASE WorkerPushed(i)
  <2>1. held[i] \in Orders /\ InCustody(held[i]) /\ GivesUp(held[i])
    BY <1>4, WorkerGivesUp DEF CopiesInv
  <2> QED BY <1>2, <1>3, <1>4, <2>1, CopyPublished DEF WorkerPushed
<1>5. CASE WorkerPushAmbiguous(i)
  <2>1. held[i] \in Orders /\ UNCHANGED <<stage, queue, held>>
    BY <1>5 DEF WorkerPushAmbiguous, Worker, handlerVars, CopiesInv, CustodyInv, TypeInv,
           TypeOK, HoldsWhilePushing
  <2>2. InCustody(held[i]) /\ Keeps
    BY <2>1 DEF InCustody, Held, InQueue, Keeps
  <2> QED BY <1>2, <1>3, <1>5, <2>1, <2>2, CopyPublished DEF WorkerPushAmbiguous
<1>6. CASE UNCHANGED topic
  <2>1. \A x \in Orders : InCustody(x)' => InCustody(x)
    BY WorkerGivesUp DEF GivesUp, Keeps, CopiesInv
  <2> QED BY <1>2, <1>3, <1>6, <2>1, CopiesUnchanged
<1> QED BY <1>4, <1>5, <1>6 DEF Drain, Tick, Pop, PopNothing, PopLost, WorkerPushFails,
          Requeue, RequeueFails

\* A row is written from a copy, which is acknowledged, or else a fault is counted.
LEMMA ConsumerCopies ==
    ASSUME CopiesInv, NEW o \in Orders, Consume(o) \/ ConsumeFailsLate(o)
    PROVE  CopiesBound'
<1> USE DEF CopiesInv, CustodyInv, TypeInv, TypeOK
<1>1. /\ Excuses \in Nat /\ Excuses' \in Nat /\ Excuses' >= Excuses
      /\ ConsumeFailsLate(o) => Excuses' = Excuses + 1
  <2>1. NoFault \/ \E kind \in FaultKinds : Fault(kind)
    BY Zenon DEF Consume, ConsumeFailsLate, FaultKinds
  <2> QED BY <2>1, ExcusesGrow DEF ConsumeFailsLate
<1>2. \A x \in Orders : InCustody(x)' <=> InCustody(x)
  BY DEF Consume, ConsumeFailsLate, handlerVars, workerVars, InCustody, InQueue, Held
<1>3. \A x \in Orders : CopyCount(x) \in Nat
  BY DEF CopyCount
<1>4. ASSUME \A x \in Orders : CopyCount(x)' <= CopyCount(x) + (Excuses' - Excuses)
      PROVE  CopiesBound'
  <2> SUFFICES ASSUME NEW x \in Orders
               PROVE  CopyCount(x)' <= (IF InCustody(x)' THEN 0 ELSE 1) + Excuses'
    BY DEF CopiesBound
  <2>1. CopyCount(x) <= (IF InCustody(x) THEN 0 ELSE 1) + Excuses
    BY DEF CopiesBound
  <2>2. CopyCount(x)' \in Nat
    BY DEF Consume, ConsumeFailsLate, CopyCount
  <2>3. CASE InCustody(x)
    BY <1>1, <1>2, <1>3, <1>4, <2>1, <2>2, <2>3
  <2>4. CASE ~InCustody(x)
    BY <1>1, <1>2, <1>3, <1>4, <2>1, <2>2, <2>4
  <2> QED BY <2>3, <2>4
<1>5. CASE Consume(o)
  <2>1. \A x \in Orders : CopyCount(x)' <= CopyCount(x) + (Excuses' - Excuses)
    BY <1>1, <1>5 DEF Consume, CopyCount
  <2> QED BY <1>4, <2>1
<1>6. CASE ConsumeFailsLate(o)
  <2>1. \A x \in Orders : CopyCount(x)' <= CopyCount(x) + (Excuses' - Excuses)
    BY <1>1, <1>6 DEF ConsumeFailsLate, CopyCount
  <2> QED BY <1>4, <2>1
<1> QED BY <1>5, <1>6

\* Kafka and the table see an order only after its handler began.
LEMMA NothingBeforeStep ==
    ASSUME CopiesInv, [Next]_vars
    PROVE  NothingBefore'
<1> USE DEF CopiesInv, CustodyInv, TypeInv, TypeOK, NothingBefore
<1>1. ASSUME NEW o \in Orders, NEW i \in Instances, Reserved(o, i) PROVE NothingBefore'
  BY <1>1 DEF Reserved, Handler
<1>2. ASSUME NEW o \in Orders, Handle(o) PROVE NothingBefore'
  <2>1. /\ stage[o] # "none" /\ UNCHANGED <<late, rows>>
        /\ \A x \in Orders : x # o => topic'[x] = topic[x] /\ stage'[x] = stage[x]
        /\ stage'[o] # "none"
    BY <1>2 DEF Handle, Route, HandlerPushed, HandlerPushFails, HandlerPushAmbiguous,
         HandlerEnqueues, HandlerEnqueueFails, Handler, Publish
  <2> QED BY <2>1
<1>3. ASSUME NEW o \in Orders, RequestExpires(o) PROVE NothingBefore'
  BY <1>3 DEF RequestExpires, Pending
<1>4. ASSUME NEW i \in Instances, Drain(i) PROVE NothingBefore'
  <2>1. /\ UNCHANGED <<stage, late, rows>>
        /\ \/ UNCHANGED topic
           \/ wpc[i] = "push" /\ Publish(held[i])
    BY <1>4 DEF Drain, Tick, Pop, PopNothing, PopLost, WorkerPushed, WorkerPushFails,
         WorkerPushAmbiguous, Requeue, RequeueFails, Worker, handlerVars
  <2>2. CASE UNCHANGED topic
    BY <2>1, <2>2
  <2>3. CASE wpc[i] = "push" /\ Publish(held[i])
    <3>1. held[i] \in Orders /\ Held(held[i])
      BY <2>3 DEF HoldsWhilePushing, Held
    <3>2. stage[held[i]] = "answered"
      BY <3>1 DEF Outside
    <3> QED BY <2>1, <2>3, <3>1, <3>2 DEF Publish
  <2> QED BY <2>1, <2>2, <2>3
<1>5. ASSUME NEW i \in Instances, Crash(i) PROVE NothingBefore'
  BY <1>5 DEF Crash
<1>6. ASSUME NEW i \in Instances, DrainExpires(i) \/ BreakerMoves(i) PROVE NothingBefore'
  BY <1>6 DEF DrainExpires, BreakerMoves, handlerVars
<1>7. ASSUME NEW o \in Orders, Consume(o) \/ ConsumeFailsLate(o) PROVE NothingBefore'
  BY <1>7 DEF Consume, ConsumeFailsLate, handlerVars
<1>8. CASE KafkaMoves \/ UNCHANGED vars
  BY <1>8 DEF KafkaMoves, vars, handlerVars
<1> QED BY <1>1, <1>2, <1>3, <1>4, <1>5, <1>6, <1>7, <1>8 DEF Next

\* A copy is the one that was to come, or a fault excuses it.
LEMMA CopiesStep ==
    CopiesInv /\ [Next]_vars => CopiesInv'
<1> SUFFICES ASSUME CopiesInv, [Next]_vars PROVE CopiesBound'
  BY CustodyStep, NothingBeforeStep DEF CopiesInv
<1>1. ASSUME NoFault \/ \E kind \in FaultKinds : Fault(kind), UNCHANGED <<topic, rows>>,
             \A o \in Orders : InCustody(o)' => InCustody(o)
      PROVE  CopiesBound'
  <2>1. Excuses \in Nat /\ Excuses' \in Nat /\ Excuses' >= Excuses
    BY <1>1, ExcusesGrow DEF CopiesInv, CustodyInv
  <2> QED BY <1>1, <2>1, CopiesUnchanged
<1>2. ASSUME NEW o \in Orders, NEW i \in Instances, Reserved(o, i) PROVE CopiesBound'
  <2> USE DEF CopiesInv, CustodyInv, TypeInv, TypeOK
  <2>1. Excuses \in Nat /\ Excuses' = Excuses
    BY <1>2, ExcusesGrow DEF Reserved, NoFault, Excuses
  <2>2. UNCHANGED <<topic, rows>> /\ topic[o] = 0 /\ o \notin rows
    BY <1>2 DEF Reserved, Handler, NothingBefore
  <2>3. \A x \in Orders : x # o => (InCustody(x)' <=> InCustody(x))
    BY <1>2 DEF Reserved, Handler, workerVars, InCustody, InQueue, Held
  <2>4. ASSUME NEW x \in Orders
        PROVE  CopyCount(x)' <= (IF InCustody(x)' THEN 0 ELSE 1) + Excuses'
    <3>1. CASE x = o
      <4>1. CopyCount(x)' = 0
        BY <2>2, <3>1 DEF CopyCount
      <4> QED BY <2>1, <4>1
    <3>2. CASE x # o
      BY <2>1, <2>2, <2>3, <3>2 DEF CopiesBound, CopyCount
    <3> QED BY <3>1, <3>2
  <2> QED BY <2>4 DEF CopiesBound
<1>3. ASSUME NEW o \in Orders, Handle(o) PROVE CopiesBound'
  BY <1>3, HandlerCopies
<1>4. ASSUME NEW i \in Instances, Drain(i) PROVE CopiesBound'
  BY <1>4, WorkerCopies
<1>5. ASSUME NEW o \in Orders, Consume(o) \/ ConsumeFailsLate(o) PROVE CopiesBound'
  BY <1>5, ConsumerCopies
<1>6. ASSUME NEW i \in Instances, Crash(i) PROVE CopiesBound'
  <2>1. \A o \in Orders : InCustody(o)' => InCustody(o)
    BY <1>6, OrderDeliveryAssumption DEF OrderDeliveryAssumption, CopiesInv, CustodyInv,
         TypeInv, TypeOK, Crash, InCustody, InQueue, Held, Pending
  <2>2. \E kind \in FaultKinds : Fault(kind)
    BY <1>6, Zenon DEF Crash, FaultKinds
  <2> QED BY <1>1, <1>6, <2>1, <2>2 DEF Crash
<1>7. ASSUME NEW o \in Orders, RequestExpires(o) PROVE CopiesBound'
  <2>1. \E kind \in FaultKinds : Fault(kind)
    BY <1>7, Zenon DEF RequestExpires, FaultKinds
  <2> QED BY <1>1, <1>7, <2>1 DEF RequestExpires, workerVars, InCustody, InQueue, Held
<1>8. ASSUME NEW i \in Instances, DrainExpires(i) PROVE CopiesBound'
  <2>1. \E kind \in FaultKinds : Fault(kind)
    BY <1>8, Zenon DEF DrainExpires, FaultKinds
  <2> QED BY <1>1, <1>8, <2>1 DEF DrainExpires, handlerVars, InCustody, InQueue, Held
<1>9. ASSUME NEW i \in Instances, BreakerMoves(i) PROVE CopiesBound'
  BY <1>1, <1>9 DEF BreakerMoves, NoFault, handlerVars, workerVars, InCustody, InQueue, Held
<1>10. CASE KafkaMoves \/ UNCHANGED vars
  BY <1>1, <1>10 DEF KafkaMoves, vars, NoFault, handlerVars, workerVars, InCustody,
         InQueue, Held
<1> QED BY <1>2, <1>3, <1>4, <1>5, <1>6, <1>7, <1>8, <1>9, <1>10 DEF Next

\* With no orders there are no copies.
LEMMA InitCopies == Init => CopiesInv
<1> SUFFICES ASSUME Init PROVE CopiesInv
  OBVIOUS
<1>1. TypeInv
  BY InitTypes
<1>2. \A o \in Orders : ~InQueue(o) /\ ~Held(o)
  BY OrderDeliveryAssumption DEF OrderDeliveryAssumption, Init, InQueue, Held
<1>3. Distinct /\ HeldOnce /\ Outside /\ Apart
  BY <1>2 DEF Init, Distinct, HeldOnce, Outside, Apart
<1>4. NothingBefore /\ CopiesBound
  BY <1>2 DEF Init, NothingBefore, CopiesBound, CopyCount, InCustody, Excuses, FaultKinds,
         Pending
<1> QED BY <1>1, <1>3, <1>4 DEF CopiesInv, CustodyInv

\* Types, custody and the count of copies, through every step.
LEMMA CopiesInvariant == Spec => []CopiesInv
BY InitCopies, CopiesStep, PTL DEF Spec

-----------------------------------------------------------------------------
\* Everything keeps its type; what a worker pushes or puts back is an order.
THEOREM TypeCorrect == Spec => []TypeOK
<1>1. CopiesInv => TypeOK
  BY DEF CopiesInv, CustodyInv, TypeInv
<1> QED BY <1>1, CopiesInvariant, PTL

\* Handlers, list and workers of any number of processes never have an order
\* twice, and none that its handler still has.
THEOREM OneCustodian == Spec => []SingleCustody
<1>1. CopiesInv => SingleCustody
  BY DEF CopiesInv, CustodyInv, SingleCustody, Distinct, HeldOnce, Outside, Apart
<1> QED BY <1>1, CopiesInvariant, PTL

\* An order reaches Kafka and the table more than once only by as many pushes of
\* unknown outcome and rows of unknown fate as there are copies too many.
THEOREM CopiesExplained == Spec => []CopiesNeedFault
<1>1. ASSUME CopiesInv PROVE CopiesNeedFault
  <2> SUFFICES ASSUME NEW o \in Orders
               PROVE  topic[o] + (IF o \in rows THEN 1 ELSE 0)
                        <= 1 + faults["ambiguous"] + faults["store"]
    BY DEF CopiesNeedFault
  <2> USE <1>1 DEF CopiesInv, CustodyInv, TypeInv, TypeOK
  <2>1. CopyCount(o) <= (IF InCustody(o) THEN 0 ELSE 1) + Excuses
    BY DEF CopiesBound
  <2>2. Excuses \in Nat /\ faults["ambiguous"] \in Nat /\ faults["store"] \in Nat
    BY DEF Excuses, FaultKinds
  <2> QED BY <2>1, <2>2 DEF CopyCount, Excuses
<1> QED BY <1>1, CopiesInvariant, PTL

-----------------------------------------------------------------------------
(* Losses.  A fault need not lose its order at once: a request or a drain  *)
(* that has expired loses one when its LPUSH comes, if it comes to that.   *)
(* So expired handlers and drains count like losses as long as they last.  *)

AtRisk == {o \in Orders : Lost(o) \/ (o \in late /\ stage[o] \in Pending)}
Stranded == {i \in Instances : i \in overdue /\ wpc[i] # "wait"}

Losses == faults["crash"] + faults["store"] + faults["request"] + faults["drain"]

LossesBound ==
    /\ IsFiniteSet(AtRisk) /\ IsFiniteSet(Stranded)
    /\ Cardinality(AtRisk) + Cardinality(Stranded) <= Losses

LossInv == CopiesInv /\ LossesBound

\* Faults are only ever added; those that excuse a loss count for one.
LEMMA LossesGrow ==
    ASSUME TypeInv, NoFault \/ \E kind \in FaultKinds : Fault(kind)
    PROVE  /\ Losses \in Nat /\ Losses' \in Nat /\ Losses' >= Losses
           /\ Fault("crash") \/ Fault("store") \/ Fault("request") \/ Fault("drain")
                => Losses' = Losses + 1
<1> USE DEF TypeInv, TypeOK, Losses
<1>1. Losses \in Nat
  BY DEF FaultKinds
<1>2. CASE NoFault
  BY <1>1, <1>2 DEF NoFault, Fault, FaultKinds
<1>3. ASSUME NEW kind \in FaultKinds, Fault(kind)
      PROVE  /\ Losses' = Losses + (IF kind = "ambiguous" THEN 0 ELSE 1)
             /\ \A other \in FaultKinds : Fault(other) => other = kind
  <2>1. \A k \in FaultKinds : faults[k] \in Nat
    OBVIOUS
  <2>2. \A k \in FaultKinds : faults'[k] = IF k = kind THEN faults[k] + 1 ELSE faults[k]
    BY <1>3 DEF Fault
  <2>3. \A other \in FaultKinds : Fault(other) => faults'[other] = faults[other] + 1
    BY DEF Fault
  <2>4. \A other \in FaultKinds : Fault(other) => other = kind
    BY <2>1, <2>2, <2>3
  <2>5. Losses' = Losses + (IF kind = "ambiguous" THEN 0 ELSE 1)
    BY <2>1, <2>2 DEF FaultKinds
  <2> QED BY <2>4, <2>5
<1> QED BY <1>1, <1>2, <1>3 DEF FaultKinds

\* A set that gained one element at most.
LEMMA GainsOne ==
    ASSUME NEW S, NEW T, NEW x, IsFiniteSet(S), T \subseteq S \cup {x}
    PROVE  /\ IsFiniteSet(T)
           /\ Cardinality(S) \in Nat /\ Cardinality(T) \in Nat
           /\ Cardinality(T) <= Cardinality(S) + 1
           /\ T \subseteq S => Cardinality(T) <= Cardinality(S)
           /\ x \in S /\ T \subseteq S \ {x} => Cardinality(T) <= Cardinality(S) - 1
<1>1. /\ IsFiniteSet(S \cup {x}) /\ Cardinality(S) \in Nat
      /\ Cardinality(S \cup {x}) <= Cardinality(S) + 1
  <2>1. Cardinality(S) \in Nat
    BY FS_CardinalityType
  <2>2. /\ IsFiniteSet(S \cup {x})
        /\ Cardinality(S \cup {x}) = IF x \in S THEN Cardinality(S) ELSE Cardinality(S) + 1
    BY FS_AddElement
  <2> QED BY <2>1, <2>2
<1>2. IsFiniteSet(T) /\ Cardinality(T) <= Cardinality(S \cup {x})
  BY <1>1, FS_Subset
<1>3. Cardinality(T) \in Nat /\ Cardinality(S \cup {x}) \in Nat
  BY <1>1, <1>2, FS_CardinalityType
<1>4. T \subseteq S => Cardinality(T) <= Cardinality(S)
  BY FS_Subset
<1>5. ASSUME x \in S, T \subseteq S \ {x} PROVE Cardinality(T) <= Cardinality(S) - 1
  <2>1. IsFiniteSet(S \ {x}) /\ Cardinality(S \ {x}) = Cardinality(S) - 1
    BY <1>5, FS_RemoveElement
  <2> QED BY <1>5, <2>1, FS_Subset
<1> QED BY <1>1, <1>2, <1>3, <1>4, <1>5

\* What keeps the bound: nothing new at risk; one order or drain more, and a fault
\* more; one order more, and a drain less.
LEMMA LossesKept ==
    ASSUME LossInv, Losses \in Nat, Losses' \in Nat, NEW o, NEW i,
           \/ /\ AtRisk' \subseteq AtRisk /\ Stranded' \subseteq Stranded
              /\ Losses' >= Losses
           \/ /\ AtRisk' \subseteq AtRisk \cup {o} /\ Stranded' \subseteq Stranded
              /\ Losses' = Losses + 1
           \/ /\ AtRisk' \subseteq AtRisk /\ Stranded' \subseteq Stranded \cup {i}
              /\ Losses' = Losses + 1
           \/ /\ AtRisk' \subseteq AtRisk \cup {o}
              /\ i \in Stranded /\ Stranded' \subseteq Stranded \ {i}
              /\ Losses' >= Losses
    PROVE  LossesBound'
<1> DEFINE a == AtRisk  b == AtRisk'  c == Stranded  d == Stranded'
<1>1. IsFiniteSet(a) /\ IsFiniteSet(c) /\ Cardinality(a) + Cardinality(c) <= Losses
  BY DEF LossInv, LossesBound
<1>2. b \subseteq a \cup {o} /\ d \subseteq c \cup {i}
  OBVIOUS
<1> HIDE DEF a, b, c, d
<1>3. /\ IsFiniteSet(b)
      /\ Cardinality(a) \in Nat /\ Cardinality(b) \in Nat
      /\ Cardinality(b) <= Cardinality(a) + 1
      /\ b \subseteq a => Cardinality(b) <= Cardinality(a)
  BY <1>1, <1>2, GainsOne
<1>4. /\ IsFiniteSet(d)
      /\ Cardinality(c) \in Nat /\ Cardinality(d) \in Nat
      /\ Cardinality(d) <= Cardinality(c) + 1
      /\ d \subseteq c => Cardinality(d) <= Cardinality(c)
      /\ i \in c /\ d \subseteq c \ {i} => Cardinality(d) <= Cardinality(c) - 1
  BY <1>1, <1>2, GainsOne
<1>5. Cardinality(b) + Cardinality(d) <= Losses'
  <2>1. \/ b \subseteq a /\ d \subseteq c /\ Losses' >= Losses
        \/ d \subseteq c /\ Losses' = Losses + 1
        \/ b \subseteq a /\ Losses' = Losses + 1
        \/ i \in c /\ d \subseteq c \ {i} /\ Losses' >= Losses
    BY DEF a, b, c, d
  <2> QED BY <1>1, <1>3, <1>4, <2>1
<1> QED BY <1>3, <1>4, <1>5 DEF b, d, LossesBound

\* A push is seen in the topic, and hides nothing that was there.
LEMMA PublishedIsThere ==
    ASSUME topic \in [Orders -> Nat], NEW o \in Orders, Publish(o)
    PROVE  Published(o)'
BY DEF Publish, Published

\* A push takes nothing out of Kafka.
LEMMA PublishedStays ==
    ASSUME topic \in [Orders -> Nat], UNCHANGED rows,
           UNCHANGED topic \/ \E o \in Orders : Publish(o)
    PROVE  \A x \in Orders : Published(x) => Published(x)'
BY DEF Publish, Published

\* Only an order that leaves custody without reaching Kafka, or whose handler runs
\* out of time, is newly at risk.
LEMMA NewlyAtRisk ==
    ASSUME NEW gone,
           \A x \in Orders \ gone :
               /\ Published(x) => Published(x)'
               /\ InCustody(x) => InCustody(x)' \/ Published(x)' \/ stage'[x] = "died"
               /\ stage'[x] = "answered" => stage[x] = "answered" \/ InCustody(x)
               /\ x \in late' /\ stage'[x] \in Pending =>
                     x \in late /\ stage[x] \in Pending
    PROVE  AtRisk' \subseteq AtRisk \cup gone
<1> SUFFICES ASSUME NEW x \in Orders \ gone, Lost(x)' \/ (x \in late' /\ stage'[x] \in Pending)
             PROVE  Lost(x) \/ (x \in late /\ stage[x] \in Pending)
  BY DEF AtRisk
<1>1. CASE x \in late' /\ stage'[x] \in Pending
  BY <1>1
<1>2. CASE Lost(x)'
  <2>1. /\ stage'[x] = "answered" /\ ~InQueue(x)' /\ ~Held(x)' /\ ~Published(x)'
    BY <1>2 DEF Lost
  <2>2. ~InCustody(x)'
    BY <2>1 DEF InCustody, Pending
  <2>3. ~InCustody(x)
    BY <2>1, <2>2
  <2>4. stage[x] = "answered" /\ ~Published(x)
    BY <2>1, <2>3
  <2> QED BY <2>3, <2>4 DEF Lost, InCustody
<1> QED BY <1>1, <1>2

\* A handler loses its order with the fault of that moment, or with the expired
\* context that was counted before.
LEMMA HandlerLosses ==
    ASSUME LossInv, NEW o \in Orders, Handle(o)
    PROVE  LossesBound'
<1> USE DEF LossInv, CopiesInv, CustodyInv, TypeInv, TypeOK
<1>1. /\ Losses \in Nat /\ Losses' \in Nat /\ Losses' >= Losses
      /\ Fault("store") => Losses' = Losses + 1
  <2>1. NoFault \/ \E kind \in FaultKinds : Fault(kind)
    BY Zenon DEF Handle, Route, HandlerPushed, HandlerPushFails, HandlerPushAmbiguous,
         HandlerEnqueues, HandlerEnqueueFails, FaultKinds
  <2> QED BY <2>1, LossesGrow
<1>2. /\ InCustody(o) /\ stage[o] \in Pending
      /\ UNCHANGED <<late, rows, wpc, overdue>>
      /\ \A x \in Orders : x # o => stage'[x] = stage[x]
  BY HandlerGivesUp DEF Handle, Route, HandlerPushed, HandlerPushFails,
         HandlerPushAmbiguous, HandlerEnqueues, HandlerEnqueueFails, Handler, workerVars,
         Pending
<1>3. IF HandlerPushed(o) \/ HandlerEnqueueFails(o) THEN GivesUp(o) ELSE Keeps
  BY HandlerGivesUp
<1>4. UNCHANGED topic \/ \E x \in Orders : Publish(x)
  BY Zenon DEF Handle, Route, HandlerPushed, HandlerPushFails, HandlerPushAmbiguous,
         HandlerEnqueues, HandlerEnqueueFails
<1>5. \A x \in Orders : Published(x) => Published(x)'
  BY <1>2, <1>4, PublishedStays
<1>6. Stranded' = Stranded
  BY <1>2 DEF Stranded
<1>7. CASE HandlerPushed(o)
  <2>1. Published(o)'
    BY <1>7, PublishedIsThere DEF HandlerPushed
  <2>2. AtRisk' \subseteq AtRisk \cup {}
    BY <1>2, <1>3, <1>5, <1>7, <2>1, NewlyAtRisk DEF GivesUp
  <2> QED BY <1>1, <1>6, <2>2, LossesKept
<1>8. CASE HandlerEnqueueFails(o)
  <2>1. AtRisk' \subseteq AtRisk \cup {o}
    BY <1>2, <1>3, <1>5, <1>8, NewlyAtRisk DEF GivesUp
  <2>2. CASE o \in late
    <3>1. o \in AtRisk
      BY <1>2, <2>2 DEF AtRisk
    <3> QED BY <1>1, <1>6, <2>1, <3>1, LossesKept
  <2>3. CASE o \notin late
    <3>1. Losses' = Losses + 1
      BY <1>1, <1>8, <2>3 DEF HandlerEnqueueFails
    <3> QED BY <1>1, <1>6, <2>1, <3>1, LossesKept
  <2> QED BY <2>2, <2>3
<1>9. CASE ~HandlerPushed(o) /\ ~HandlerEnqueueFails(o)
  <2>1. AtRisk' \subseteq AtRisk \cup {}
    BY <1>2, <1>3, <1>5, <1>9, NewlyAtRisk DEF Keeps
  <2> QED BY <1>1, <1>6, <2>1, LossesKept
<1> QED BY <1>7, <1>8, <1>9

\* A worker pushes what it holds.
LEMMA WorkerPublishes ==
    ASSUME TypeInv, NEW i \in Instances, Drain(i)
    PROVE  UNCHANGED topic \/ \E o \in Orders : Publish(o)
<1>1. ASSUME WorkerPushed(i) \/ WorkerPushAmbiguous(i)
      PROVE  held[i] \in Orders /\ Publish(held[i])
  BY <1>1 DEF TypeInv, TypeOK, HoldsWhilePushing, WorkerPushed, WorkerPushAmbiguous, Worker
<1>2. ASSUME ~WorkerPushed(i), ~WorkerPushAmbiguous(i) PROVE UNCHANGED topic
  BY <1>2 DEF Drain, Tick, Pop, PopNothing, PopLost, WorkerPushFails, Requeue, RequeueFails
<1> QED BY <1>1, <1>2

\* A worker loses its order with the fault of that moment, or with the overdue drain
\* that was counted before.
LEMMA WorkerLosses ==
    ASSUME LossInv, NEW i \in Instances, Drain(i)
    PROVE  LossesBound'
<1> USE DEF LossInv, CopiesInv, CustodyInv, TypeInv, TypeOK
<1>1. /\ Losses \in Nat /\ Losses' \in Nat /\ Losses' >= Losses
      /\ Fault("store") => Losses' = Losses + 1
  <2>1. NoFault \/ \E kind \in FaultKinds : Fault(kind)
    BY Zenon DEF Drain, Tick, Pop, PopNothing, PopLost, WorkerPushed, WorkerPushFails,
         WorkerPushAmbiguous, Requeue, RequeueFails, FaultKinds
  <2> QED BY <2>1, LossesGrow
<1>2. UNCHANGED <<stage, late, rows>>
  BY DEF Drain, Tick, Pop, PopNothing, PopLost, WorkerPushed, WorkerPushFails,
         WorkerPushAmbiguous, Requeue, RequeueFails, Worker, handlerVars
<1>3. /\ PopLost(i) => Last(queue) \in Orders /\ GivesUp(Last(queue))
      /\ WorkerPushed(i) \/ RequeueFails(i) => held[i] \in Orders /\ GivesUp(held[i])
      /\ PopLost(i) \/ WorkerPushed(i) \/ RequeueFails(i) \/ Keeps
  BY WorkerGivesUp
<1>4. UNCHANGED topic \/ \E x \in Orders : Publish(x)
  BY WorkerPublishes
<1>5. \A x \in Orders : Published(x) => Published(x)'
  BY <1>2, <1>4, PublishedStays
<1>6. Stranded' \subseteq Stranded
  BY DEF Stranded, Drain, Tick, Pop, PopNothing, PopLost, WorkerPushed, WorkerPushFails,
         WorkerPushAmbiguous, Requeue, RequeueFails, Worker
<1>7. CASE PopLost(i)
  <2>1. AtRisk' \subseteq AtRisk \cup {Last(queue)}
    BY <1>2, <1>3, <1>5, <1>7, NewlyAtRisk DEF GivesUp
  <2>2. Losses' = Losses + 1
    BY <1>1, <1>7 DEF PopLost
  <2> QED BY <1>1, <1>6, <2>1, <2>2, LossesKept
<1>8. CASE WorkerPushed(i)
  <2>1. PICK o \in Orders : o = held[i]
    BY <1>3, <1>8
  <2>2. Published(o)'
    BY <1>8, <2>1, PublishedIsThere DEF WorkerPushed
  <2>3. \A x \in Orders : x # o => (InCustody(x) => InCustody(x)')
    BY <1>3, <1>8, <2>1 DEF GivesUp
  <2>4. AtRisk' \subseteq AtRisk \cup {}
    <3>1. \A x \in Orders \ {o} : InCustody(x) => InCustody(x)' \/ Published(x)'
      BY <2>3
    <3>2. AtRisk' \subseteq AtRisk \cup {o}
      BY <1>2, <1>5, <3>1, NewlyAtRisk
    <3>3. o \notin AtRisk'
      <4>1. stage[o] = "answered"
        BY <2>1 DEF Outside, Held
      <4> QED BY <1>2, <2>2, <4>1 DEF AtRisk, Lost, Pending
    <3> QED BY <3>2, <3>3
  <2> QED BY <1>1, <1>6, <2>4, LossesKept
<1>9. CASE RequeueFails(i)
  <2>1. AtRisk' \subseteq AtRisk \cup {held[i]}
    BY <1>2, <1>3, <1>5, <1>9, NewlyAtRisk DEF GivesUp
  <2>2. CASE i \in overdue
    <3>1. i \in Stranded /\ Stranded' \subseteq Stranded \ {i}
      BY <1>6, <1>9, <2>2 DEF RequeueFails, Worker, Stranded
    <3> QED BY <1>1, <2>1, <3>1, LossesKept
  <2>3. CASE i \notin overdue
    <3>1. Losses' = Losses + 1
      BY <1>1, <1>9, <2>3 DEF RequeueFails
    <3> QED BY <1>1, <1>6, <2>1, <3>1, LossesKept
  <2> QED BY <2>2, <2>3
<1>10. CASE Keeps
  <2>1. AtRisk' \subseteq AtRisk \cup {}
    BY <1>2, <1>5, <1>10, NewlyAtRisk DEF Keeps
  <2> QED BY <1>1, <1>6, <2>1, LossesKept
<1> QED BY <1>3, <1>7, <1>8, <1>9, <1>10

\* A process that dies forgets one message at most, that of its worker: whoever
\* called its handlers has not been told of a success.
LEMMA CrashLosses ==
    ASSUME LossInv, NEW i \in Instances, Crash(i)
    PROVE  LossesBound'
<1> USE DEF LossInv, CopiesInv, CustodyInv, TypeInv, TypeOK
<1>1. Losses \in Nat /\ Losses' \in Nat /\ Losses' = Losses + 1
  <2>1. Fault("crash")
    BY DEF Crash
  <2>2. \E kind \in FaultKinds : Fault(kind)
    BY <2>1, Zenon DEF FaultKinds
  <2> QED BY <2>1, <2>2, LossesGrow
<1>2. PICK o \in Orders \cup {None} : o = held[i]
  OBVIOUS
<1>3. AtRisk' \subseteq AtRisk \cup {o}
  <2>1. /\ UNCHANGED <<queue, late, topic, rows>>
        /\ held' = [held EXCEPT ![i] = None]
        /\ \A x \in Orders : stage'[x] = stage[x] \/ stage'[x] = "died"
    BY DEF Crash
  <2>2. \A x \in Orders \ {o} : Held(x) => Held(x)'
    BY <1>2, <2>1 DEF Held
  <2>3. \A x \in Orders \ {o} : InCustody(x) => InCustody(x)' \/ stage'[x] = "died"
    BY <2>1, <2>2 DEF InCustody, InQueue
  <2>4. \A x \in Orders \ {o} : Published(x) => Published(x)'
    BY <2>1 DEF Published
  <2>5. \A x \in Orders \ {o} : stage'[x] \in {"answered"} \cup Pending => stage[x] = stage'[x]
    BY <2>1 DEF Pending
  <2> QED BY <2>1, <2>3, <2>4, <2>5, NewlyAtRisk DEF Pending
<1>4. Stranded' \subseteq Stranded
  BY DEF Crash, Stranded
<1> QED BY <1>1, <1>3, <1>4, LossesKept

\* No step loses more than the faults so far account for.
LEMMA LossStep ==
    LossInv /\ [Next]_vars => LossInv'
<1> SUFFICES ASSUME LossInv, [Next]_vars PROVE LossesBound'
  BY CopiesStep DEF LossInv
<1>1. TypeInv
  BY DEF LossInv, CopiesInv, CustodyInv
<1>2. ASSUME NoFault \/ \E kind \in FaultKinds : Fault(kind),
             AtRisk' \subseteq AtRisk, Stranded' \subseteq Stranded
      PROVE  LossesBound'
  BY <1>1, <1>2, LossesGrow, LossesKept
<1>3. ASSUME NEW o \in Orders, NEW i \in Instances, Reserved(o, i) PROVE LossesBound'
  <2> USE DEF LossInv, CopiesInv, CustodyInv, TypeInv, TypeOK
  <2>1. /\ UNCHANGED <<late, rows, topic, queue, held, wpc, overdue>>
        /\ stage[o] = "none" /\ o \notin late
        /\ stage' = [stage EXCEPT ![o] = "route"]
    BY <1>3 DEF Reserved, Handler, NothingBefore, workerVars
  <2>2. Stranded' = Stranded
    BY <2>1 DEF Stranded
  <2>3. AtRisk' \subseteq AtRisk
    BY <2>1 DEF AtRisk, Lost, InQueue, Held, Published
  <2> QED BY <1>2, <1>3, <2>2, <2>3 DEF Reserved
<1>4. ASSUME NEW o \in Orders, Handle(o) PROVE LossesBound'
  BY <1>4, HandlerLosses
<1>5. ASSUME NEW o \in Orders, RequestExpires(o) PROVE LossesBound'
  <2>1. Losses \in Nat /\ Losses' \in Nat /\ Losses' = Losses + 1
    <3>1. Fault("request")
      BY <1>5 DEF RequestExpires
    <3>2. \E kind \in FaultKinds : Fault(kind)
      BY <3>1, Zenon DEF FaultKinds
    <3> QED BY <1>1, <3>1, <3>2, LossesGrow
  <2>2. Stranded' = Stranded
    BY <1>5 DEF RequestExpires, workerVars, Stranded
  <2>3. AtRisk' \subseteq AtRisk \cup {o}
    BY <1>5 DEF RequestExpires, workerVars, AtRisk, Lost, InQueue, Held, Published
  <2> QED BY <2>1, <2>2, <2>3, LossesKept
<1>6. ASSUME NEW i \in Instances, Drain(i) PROVE LossesBound'
  BY <1>6, WorkerLosses
<1>7. ASSUME NEW i \in Instances, DrainExpires(i) PROVE LossesBound'
  <2>1. Losses \in Nat /\ Losses' \in Nat /\ Losses' = Losses + 1
    <3>1. Fault("drain")
      BY <1>7 DEF DrainExpires
    <3>2. \E kind \in FaultKinds : Fault(kind)
      BY <3>1, Zenon DEF FaultKinds
    <3> QED BY <1>1, <3>1, <3>2, LossesGrow
  <2>2. Stranded' \subseteq Stranded \cup {i}
    BY <1>7 DEF DrainExpires, Stranded
  <2>3. AtRisk' \subseteq AtRisk
    BY <1>7 DEF DrainExpires, handlerVars, AtRisk, Lost, InQueue, Held, Published
  <2> QED BY <2>1, <2>2, <2>3, LossesKept
<1>8. ASSUME NEW i \in Instances, Crash(i) PROVE LossesBound'
  BY <1>8, CrashLosses
<1>9. ASSUME NEW o \in Orders, Consume(o) \/ ConsumeFailsLate(o) PROVE LossesBound'
  <2>1. NoFault \/ \E kind \in FaultKinds : Fault(kind)
    BY <1>9, Zenon DEF Consume, ConsumeFailsLate, FaultKinds
  <2>2. \A x \in Orders : Published(x) => Published(x)'
    BY <1>1, <1>9 DEF TypeInv, TypeOK, Consume, ConsumeFailsLate, Published
  <2>3. UNCHANGED <<stage, late, queue, held, wpc, overdue>>
    BY <1>9 DEF Consume, ConsumeFailsLate, handlerVars, workerVars
  <2>4. AtRisk' \subseteq AtRisk
    BY <2>2, <2>3 DEF AtRisk, Lost, InQueue, Held
  <2> QED BY <1>2, <2>1, <2>3, <2>4 DEF Stranded
<1>10. ASSUME NEW i \in Instances, BreakerMoves(i) PROVE LossesBound'
  BY <1>2, <1>10 DEF BreakerMoves, NoFault, handlerVars, workerVars, AtRisk, Stranded,
         Lost, InQueue, Held, Published
<1>11. CASE KafkaMoves \/ UNCHANGED vars
  BY <1>2, <1>11 DEF KafkaMoves, vars, NoFault, handlerVars, workerVars, AtRisk, Stranded,
         Lost, InQueue, Held, Published
<1> QED BY <1>3, <1>4, <1>5, <1>6, <1>7, <1>8, <1>9, <1>10, <1>11 DEF Next

\* However many processes, orders and faults: an order whose caller was told of a
\* success is only lost to a crash, a Redis command that failed, or an expired
\* context, and no single one of these loses two.
THEOREM LossesNeedFaults == Spec => []LossNeedsFault
<1>1. ASSUME Init PROVE LossInv
  <2>1. CopiesInv
    BY <1>1, InitCopies
  <2>2. AtRisk = {} /\ Stranded = {} /\ Losses = 0
    BY <1>1 DEF Init, AtRisk, Stranded, Lost, Losses, FaultKinds
  <2> QED BY <2>1, <2>2, FS_EmptySet DEF LossInv, LossesBound
<1>2. ASSUME LossInv PROVE LossNeedsFault
  <2>1. /\ IsFiniteSet(AtRisk) /\ IsFiniteSet(Stranded)
        /\ Cardinality(AtRisk) + Cardinality(Stranded) <= Losses
    BY <1>2 DEF LossInv, LossesBound
  <2>2. Losses \in Nat
    BY <1>2 DEF LossInv, CopiesInv, CustodyInv, TypeInv, TypeOK, Losses, FaultKinds
  <2>3. {o \in Orders : Lost(o)} \in SUBSET AtRisk
    BY DEF AtRisk
  <2>4. /\ IsFiniteSet({o \in Orders : Lost(o)})
        /\ Cardinality({o \in Orders : Lost(o)}) <= Cardinality(AtRisk)
    BY <2>1, <2>3, FS_Subset
  <2>5. /\ Cardinality({o \in Orders : Lost(o)}) \in Nat
        /\ Cardinality(AtRisk) \in Nat /\ Cardinality(Stranded) \in Nat
    BY <2>1, <2>4, FS_CardinalityType
  <2>6. Cardinality({o \in Orders : Lost(o)}) <= Losses
    BY <2>1, <2>2, <2>4, <2>5
  <2> QED BY <2>6 DEF LossNeedsFault, Losses
<1> QED BY <1>1, <1>2, LossStep, PTL DEF Spec

-----------------------------------------------------------------------------
(* The refinement of OrderPath: what each kind of step is, seen from there. *)

Accepted == {o \in Orders : stage[o] # "none"}
PathStep == Path!PathNext \/ UNCHANGED Path!pathVars

\* Nothing that the path knows of changes.
LEMMA PathStutters ==
    ASSUME Keeps, UNCHANGED <<topic, rows>>, Accepted' = Accepted
    PROVE  PathStep
<1>1. {o \in Orders : InCustody(o)}' = {o \in Orders : InCustody(o)}
  BY DEF Keeps
<1>2. [o \in Accepted |-> topic[o]]' = [o \in Accepted |-> topic[o]]
  OBVIOUS
<1> QED BY <1>1, <1>2 DEF PathStep, Path!pathVars, InCustody, Accepted

\* A copy in Kafka, with or without the custody that ends.
LEMMA PathDelivers ==
    ASSUME TypeOK, NEW o \in Orders, InCustody(o), o \in Accepted, Publish(o),
           UNCHANGED rows, Accepted' = Accepted, GivesUp(o) \/ Keeps
    PROVE  PathStep
<1> DEFINE copiesNow == [x \in Accepted |-> topic[x]]
<1>1. copiesNow' = [copiesNow EXCEPT ![o] = @ + 1]
  <2>1. Accepted \subseteq Orders
    BY DEF Accepted
  <2>2. copiesNow' = [x \in Accepted |-> topic'[x]]
    OBVIOUS
  <2>3. \A x \in Accepted : topic'[x] = IF x = o THEN topic[x] + 1 ELSE topic[x]
    BY <2>1 DEF Publish, TypeOK
  <2> QED BY <2>2, <2>3
<1>2. CASE GivesUp(o)
  <2>1. {x \in Orders : InCustody(x)}' = {x \in Orders : InCustody(x)} \ {o}
    BY <1>2 DEF GivesUp
  <2>2. Path!Deliver(o)
    BY <1>1, <2>1 DEF Path!Deliver, InCustody, Accepted
  <2> QED BY <2>2 DEF PathStep, Path!PathNext
<1>3. CASE Keeps
  <2>1. {x \in Orders : InCustody(x)}' = {x \in Orders : InCustody(x)}
    BY <1>3 DEF Keeps
  <2>2. Path!DeliverUnnoticed(o)
    BY <1>1, <2>1 DEF Path!DeliverUnnoticed, InCustody, Accepted
  <2> QED BY <2>2 DEF PathStep, Path!PathNext
<1> QED BY <1>2, <1>3

\* Custody that ends for some orders, or for none, and nothing else.
LEMMA PathDrops ==
    ASSUME \A x \in Orders : InCustody(x)' => InCustody(x),
           UNCHANGED <<topic, rows>>, Accepted' = Accepted
    PROVE  PathStep
<1> PICK gone \in SUBSET {x \in Orders : InCustody(x)} :
        gone = {x \in Orders : InCustody(x) /\ ~InCustody(x)'}
  OBVIOUS
<1>1. CASE gone = {}
  BY <1>1, PathStutters DEF Keeps
<1>2. CASE gone # {}
  <2>1. {x \in Orders : InCustody(x)}' = {x \in Orders : InCustody(x)} \ gone
    OBVIOUS
  <2>2. [o \in Accepted |-> topic[o]]' = [o \in Accepted |-> topic[o]]
    OBVIOUS
  <2>3. Path!Drop(gone)
    BY <1>2, <2>1, <2>2 DEF Path!Drop, InCustody, Accepted
  <2>4. \E g \in SUBSET {x \in Orders : InCustody(x)} : Path!Drop(g)
    BY <2>3
  <2> QED BY <2>4 DEF PathStep, Path!PathNext, InCustody
<1> QED BY <1>1, <1>2

\* A copy becomes a row.
LEMMA PathStores ==
    ASSUME CopiesInv, NEW o \in Orders, Consume(o) \/ ConsumeFailsLate(o)
    PROVE  PathStep
<1> USE DEF CopiesInv, CustodyInv, TypeInv, TypeOK
<1>1. /\ topic[o] > 0 /\ o \notin rows /\ rows' = rows \cup {o}
      /\ UNCHANGED <<stage, queue, held>>
  BY DEF Consume, ConsumeFailsLate, handlerVars, workerVars
<1>2. {x \in Orders : InCustody(x)}' = {x \in Orders : InCustody(x)}
  BY <1>1 DEF InCustody, InQueue, Held
<1>3. o \in Accepted /\ Accepted' = Accepted /\ Accepted \subseteq Orders
  BY <1>1 DEF Accepted, NothingBefore
<1> DEFINE copiesNow == [x \in Accepted |-> topic[x]]
<1>4. CASE Consume(o)
  <2>1. copiesNow' = [x \in Accepted |-> topic'[x]]
    BY <1>3
  <2>2. \A x \in Accepted : topic'[x] = IF x = o THEN topic[x] - 1 ELSE topic[x]
    BY <1>3, <1>4 DEF Consume
  <2>3. copiesNow' = [copiesNow EXCEPT ![o] = @ - 1]
    BY <2>1, <2>2
  <2>4. Path!Store(o)
    BY <1>1, <1>2, <1>3, <2>3 DEF Path!Store, InCustody, Accepted
  <2> QED BY <2>4 DEF PathStep, Path!PathNext
<1>5. CASE ConsumeFailsLate(o)
  <2>1. copiesNow' = copiesNow
    BY <1>3, <1>5 DEF ConsumeFailsLate
  <2>2. Path!StoreUnnoticed(o)
    BY <1>1, <1>2, <1>3, <2>1 DEF Path!StoreUnnoticed, InCustody, Accepted
  <2> QED BY <2>2 DEF PathStep, Path!PathNext
<1> QED BY <1>4, <1>5

\* The script's answer 1 is the beginning of the path.
LEMMA PathAccepts ==
    ASSUME CopiesInv, NEW o \in Orders, NEW i \in Instances, Reserved(o, i)
    PROVE  PathStep
<1> USE DEF CopiesInv, CustodyInv, TypeInv, TypeOK
<1>1. /\ stage[o] = "none" /\ stage' = [stage EXCEPT ![o] = "route"]
      /\ topic[o] = 0 /\ UNCHANGED <<queue, held, topic, rows>>
  BY DEF Reserved, Handler, workerVars, NothingBefore
<1>2. {x \in Orders : InCustody(x)}' = {x \in Orders : InCustody(x)} \cup {o}
  BY <1>1 DEF InCustody, InQueue, Held, Pending
<1>3. o \notin Accepted /\ Accepted' = Accepted \cup {o}
  BY <1>1 DEF Accepted
<1> DEFINE copiesNow == [x \in Accepted |-> topic[x]]
<1>4. copiesNow' = [x \in DOMAIN copiesNow \cup {o} |-> IF x = o THEN 0 ELSE copiesNow[x]]
  BY <1>1, <1>3
<1>5. Path!Accept(o)
  BY <1>1, <1>2, <1>3, <1>4 DEF Path!Accept, InCustody, Accepted
<1> QED BY <1>5 DEF PathStep, Path!PathNext

\* The branches of the booking handler go the way of OrderPath.
LEMMA HandlerPath ==
    ASSUME CopiesInv, NEW o \in Orders, Handle(o)
    PROVE  PathStep
<1> USE DEF CopiesInv, CustodyInv, TypeInv, TypeOK
<1>1. /\ InCustody(o)
      /\ IF HandlerPushed(o) \/ HandlerEnqueueFails(o) THEN GivesUp(o) ELSE Keeps
  BY HandlerGivesUp
<1>2. o \in Accepted /\ Accepted' = Accepted /\ UNCHANGED rows
  BY DEF Handle, Route, HandlerPushed, HandlerPushFails, HandlerPushAmbiguous,
         HandlerEnqueues, HandlerEnqueueFails, Handler, Accepted
<1>3. CASE HandlerPushed(o) \/ HandlerPushAmbiguous(o)
  <2>1. Publish(o)
    BY <1>3 DEF HandlerPushed, HandlerPushAmbiguous
  <2> QED BY <1>1, <1>2, <2>1, PathDelivers
<1>4. CASE UNCHANGED topic
  BY <1>1, <1>2, <1>4, PathDrops DEF GivesUp, Keeps
<1> QED BY <1>3, <1>4 DEF Handle, Route, HandlerPushFails, HandlerEnqueues,
          HandlerEnqueueFails

\* So do the drains of the workers.
LEMMA WorkerPath ==
    ASSUME CopiesInv, NEW i \in Instances, Drain(i)
    PROVE  PathStep
<1> USE DEF CopiesInv, CustodyInv, TypeInv, TypeOK
<1>1. UNCHANGED <<stage, rows>> /\ Accepted' = Accepted
  BY DEF Drain, Tick, Pop, PopNothing, PopLost, WorkerPushed, WorkerPushFails,
         WorkerPushAmbiguous, Requeue, RequeueFails, Worker, handlerVars, Accepted
<1>2. /\ PopLost(i) => GivesUp(Last(queue))
      /\ WorkerPushed(i) \/ RequeueFails(i) => GivesUp(held[i])
      /\ PopLost(i) \/ WorkerPushed(i) \/ RequeueFails(i) \/ Keeps
  BY WorkerGivesUp
<1>3. CASE WorkerPushed(i) \/ WorkerPushAmbiguous(i)
  <2>1. PICK o \in Orders : o = held[i]
    BY <1>3 DEF WorkerPushed, WorkerPushAmbiguous, Worker, HoldsWhilePushing
  <2>2. Publish(o)
    BY <1>3, <2>1 DEF WorkerPushed, WorkerPushAmbiguous
  <2>3. stage[o] = "answered" /\ InCustody(o)
    BY <2>1 DEF Outside, Held, InCustody
  <2>4. o \in Accepted
    BY <2>3 DEF Accepted
  <2>5. GivesUp(o) \/ Keeps
    <3>1. CASE WorkerPushed(i)
      BY <1>2, <2>1, <3>1
    <3>2. CASE WorkerPushAmbiguous(i)
      BY <3>2 DEF WorkerPushAmbiguous, Worker, handlerVars, Keeps, InCustody, InQueue, Held
    <3> QED BY <1>3, <3>1, <3>2
  <2> QED BY <1>1, <2>2, <2>3, <2>4, <2>5, PathDelivers
<1>4. CASE UNCHANGED topic
  BY <1>1, <1>2, <1>4, PathDrops DEF GivesUp, Keeps
<1> QED BY <1>3, <1>4 DEF Drain, Tick, Pop, PopNothing, PopLost, WorkerPushFails,
          Requeue, RequeueFails

\* Every step is one of OrderPath, or none that it can see.
LEMMA PathStepOfNext ==
    CopiesInv /\ [Next]_vars => PathStep
<1> SUFFICES ASSUME CopiesInv, [Next]_vars PROVE PathStep
  OBVIOUS
<1>1. ASSUME UNCHANGED <<stage, queue, held, topic, rows>> PROVE PathStep
  BY <1>1, PathStutters DEF Keeps, InCustody, InQueue, Held, Accepted
<1>2. ASSUME NEW o \in Orders, NEW i \in Instances, Reserved(o, i) PROVE PathStep
  BY <1>2, PathAccepts
<1>3. ASSUME NEW o \in Orders, Handle(o) PROVE PathStep
  BY <1>3, HandlerPath
<1>4. ASSUME NEW i \in Instances, Drain(i) PROVE PathStep
  BY <1>4, WorkerPath
<1>5. ASSUME NEW o \in Orders, Consume(o) \/ ConsumeFailsLate(o) PROVE PathStep
  BY <1>5, PathStores
<1>6. ASSUME NEW i \in Instances, Crash(i) PROVE PathStep
  <2> USE OrderDeliveryAssumption DEF OrderDeliveryAssumption, CopiesInv, CustodyInv,
          TypeInv, TypeOK
  <2>1. \A o \in Orders : InCustody(o)' => InCustody(o)
    BY <1>6 DEF Crash, InCustody, InQueue, Held, Pending
  <2>2. Accepted' = Accepted
    BY <1>6 DEF Crash, Accepted, Pending
  <2> QED BY <1>6, <2>1, <2>2, PathDrops DEF Crash
<1>7. ASSUME NEW o \in Orders, RequestExpires(o) PROVE PathStep
  BY <1>1, <1>7 DEF RequestExpires, workerVars
<1>8. ASSUME NEW i \in Instances, DrainExpires(i) \/ BreakerMoves(i) PROVE PathStep
  BY <1>1, <1>8 DEF DrainExpires, BreakerMoves, handlerVars, workerVars
<1>9. CASE KafkaMoves \/ UNCHANGED vars
  BY <1>1, <1>9 DEF KafkaMoves, vars, handlerVars, workerVars
<1> QED BY <1>2, <1>3, <1>4, <1>5, <1>6, <1>7, <1>8, <1>9 DEF Next

\* Handler, list, workers, crashes and failing calls implement the path: an order
\* that was passed on or lost is never picked up again, and Kafka forgets a copy
\* only when the row is there.
THEOREM Refinement == Spec => ImplementsPath
<1>1. Init => Path!PathInit
  BY OrderDeliveryAssumption DEF OrderDeliveryAssumption, Init, Path!PathInit, InQueue,
     Held, Pending
<1>2. CopiesInv /\ [Next]_vars => [Path!PathNext]_(Path!pathVars)
  BY PathStepOfNext DEF PathStep
<1> QED BY CopiesInvariant, <1>1, <1>2, PTL DEF Spec, ImplementsPath, Path!PathSpec

ComesNotBack ==
    /\ \A o \in Orders :
          /\ stage[o] # "none" /\ ~InCustody(o) => ~InCustody(o)'
          /\ topic'[o] < topic[o] => o \in rows'
    /\ rows \subseteq rows'

\* So the promise of the path holds of the processes, too: who let go of an order,
\* be it a handler, the list or a worker, does not get it back, nor does anybody
\* else; rows stay; and a copy leaves Kafka only when its row is there.
THEOREM NothingComesBack == Spec => [][ComesNotBack]_vars
<1>1. CopiesInv /\ CopiesInv' /\ [P!Promise]_(P!pathVars) => [ComesNotBack]_vars
  <2> SUFFICES ASSUME CopiesInv, CopiesInv', P!Promise \/ UNCHANGED P!pathVars
               PROVE  ComesNotBack
    OBVIOUS
  <2> DEFINE Custody == {o \in Orders : stage[o] \in Pending \/ InQueue(o) \/ Held(o)}
             Copies == [o \in {p \in Orders : stage[p] # "none"} |-> topic[o]]
  <2>1. ASSUME UNCHANGED P!pathVars
        PROVE  /\ Custody' = Custody /\ Copies' = Copies /\ rows' = rows
    BY <2>1 DEF P!pathVars
  <2>2. ASSUME P!Promise
        PROVE  /\ \A o \in DOMAIN Copies :
                     /\ o \in DOMAIN Copies'
                     /\ o \notin Custody => o \notin Custody'
                     /\ Copies'[o] < Copies[o] => o \in rows'
               /\ rows \subseteq rows'
    BY <2>2 DEF P!Promise
  <2>3. \A o \in Orders : topic[o] \in Nat /\ topic'[o] \in Nat
    BY DEF CopiesInv, CustodyInv, TypeInv, TypeOK
  <2>4. \A o \in Orders : stage[o] = "none" => topic[o] = 0
    BY DEF CopiesInv, NothingBefore
  <2>5. \A o \in Orders : (o \in Custody <=> InCustody(o)) /\ (o \in Custody' <=> InCustody(o)')
    BY DEF InCustody
  <2>6. \A o \in Orders : stage[o] # "none" => o \in DOMAIN Copies /\ Copies[o] = topic[o]
    OBVIOUS
  <2>7. \A o \in DOMAIN Copies' : Copies'[o] = topic'[o]
    OBVIOUS
  <2> HIDE DEF Custody, Copies
  <2>8. CASE P!Promise
    BY <2>2, <2>3, <2>4, <2>5, <2>6, <2>7, <2>8 DEF ComesNotBack
  <2>9. CASE UNCHANGED P!pathVars
    BY <2>1, <2>3, <2>4, <2>5, <2>6, <2>7, <2>9 DEF ComesNotBack
  <2> QED BY <2>8, <2>9
<1>2. Spec => P!PathSpec
  <2>1. Path!PathInit => P!PathInit
    BY DEF Path!PathInit, P!PathInit
  <2>2. Path!PathNext => P!PathNext
    BY DEF Path!PathNext, P!PathNext, Path!Accept, P!Accept, Path!Deliver, P!Deliver,
       Path!DeliverUnnoticed, P!DeliverUnnoticed, Path!Drop, P!Drop, Path!Store, P!Store,
       Path!StoreUnnoticed, P!StoreUnnoticed
  <2>3. [Path!PathNext]_(Path!pathVars) => [P!PathNext]_(P!pathVars)
    BY <2>2 DEF Path!pathVars, P!pathVars
  <2> QED BY <2>1, <2>3, Refinement, PTL DEF ImplementsPath, Path!PathSpec, P!PathSpec
<1> QED BY <1>1, <1>2, CopiesInvariant, P!PromiseKept, PTL
=============================================================================
