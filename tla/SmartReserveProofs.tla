------------------------- MODULE SmartReserveProofs -------------------------
(***************************************************************************)
(* Proofs about SmartReserve, for any users, schedules, totals and bounds. *)
(*                                                                         *)
(* The seats of a booking are those of Reservation: SmartReserve adds      *)
(* orders and rows to its steps and takes nothing away.  So all that       *)
(* ReservationProofs has shown holds here, and the rest rests on it.       *)
(***************************************************************************)
EXTENDS SmartReserve, FiniteSetTheorems, TLAPS

R == INSTANCE ReservationProofs

-----------------------------------------------------------------------------
\* Redis sees a step of Reservation, or nothing.
LEMMA SeatStep ==
    [Next]_vars => [R!Next]_seatVars
<1> SUFFICES ASSUME [Next]_vars PROVE R!Next \/ UNCHANGED seatVars
  OBVIOUS
<1>1. ASSUME NEW s \in Schedules, Preload(s) PROVE R!Next
  BY <1>1 DEF Preload, Seats!Preload, R!Preload, R!Next
<1>2. ASSUME NEW u \in Users, NEW s \in Schedules, Seats!Reserve(u, s) PROVE R!Next
  <2>1. R!Reserve(u, s)
    BY <1>2 DEF Seats!Reserve, R!Reserve, Seats!NotBooked, R!NotBooked, Seats!HasStock,
           R!HasStock, Seats!Ticket, R!Ticket
  <2> QED BY <2>1 DEF R!Next
<1>3. ASSUME NEW u \in Users, NEW s \in Schedules, Expire(u, s) PROVE R!Next
  BY <1>3 DEF Expire, Seats!Expire, R!Expire, R!Next
<1>4. CASE NextDay
  BY <1>4 DEF NextDay, Seats!NextDay, R!NextDay, R!Next
<1>5. CASE UNCHANGED seatVars
  BY <1>5
<1> QED BY <1>1, <1>2, <1>3, <1>4, <1>5 DEF Next, Book, BookUnanswered, Stamp, Deliver,
          DeliverUnnoticed, Lose, Crash, Consume, ConsumeUnnoticed, vars

\* Booking from end to end implements the reservation of seats.
THEOREM SeatsRefinement == Spec => R!Spec
<1>1. Init => R!Init
  BY DEF Init, Seats!Init, R!Init
<1> QED BY <1>1, SeatStep, PTL DEF Spec, R!Spec, R!vars, seatVars

\* So every seat that is booked is one of its schedule, and no user has two of a
\* schedule on a day.
LEMMA TicketsInvariant == Spec => []R!TicketsInv
<1>1. R!Spec => []R!TicketsInv
  BY SmartReserveAssumption, R!TicketsAreSound DEF SmartReserveAssumption
<1> QED BY <1>1, SeatsRefinement, PTL

-----------------------------------------------------------------------------
(* Orders.  What is said of their types needs those of the seats, which are *)
(* known before and after every step.                                       *)

OrdersOK ==
    /\ handling \subseteq sold
    /\ Orders \subseteq sold
    /\ custody \subseteq Orders
    /\ rows \subseteq Orders
    /\ copies \in [Orders -> Nat]
    /\ stamped \in [Orders -> Nat]
    /\ orphans \subseteq sold
    /\ faults \in 0 .. MaxFaults

\* The two instances of Reservation agree on types.
LEMMA SeatTypes ==
    ASSUME R!TicketsInv
    PROVE  /\ Seats!TypeOK
           /\ sold \subseteq Seats!Ledger!Tickets
           /\ today \in Nat
BY DEF R!TicketsInv, R!IInv, R!TypeOK, Seats!TypeOK, R!Ledger!Tickets,
       Seats!Ledger!Tickets

\* Whatever Redis does to the seats, none that was handed out is taken back.
LEMMA SoldStays ==
    ASSUME [R!Next]_seatVars
    PROVE  sold \subseteq sold'
BY DEF R!Next, R!Preload, R!Reserve, R!Expire, R!NextDay, seatVars

\* A booking adds its ticket to the seats, and touches no order.
LEMMA BookingTakesSeat ==
    ASSUME NEW u, NEW s, Seats!Reserve(u, s)
    PROVE  sold' = sold \cup {Seats!Ticket(u, s)}
BY DEF Seats!Reserve

\* Stamping, delivering, losing and consuming keep orders among the seats.
LEMMA OrdersStep ==
    ASSUME OrdersOK, today \in Nat, sold \subseteq sold', [Next]_vars
    PROVE  OrdersOK'
<1> USE DEF OrdersOK, Orders
<1>f. ASSUME Fault PROVE faults' \in 0 .. MaxFaults
  BY <1>f, SmartReserveAssumption DEF Fault, SmartReserveAssumption
<1>1. ASSUME UNCHANGED <<pathVars, handling, stamped, orphans, faults>>
      PROVE  OrdersOK'
  BY <1>1 DEF pathVars
<1>2. ASSUME NEW u \in Users, NEW s \in Schedules, Book(u, s) PROVE OrdersOK'
  BY <1>2, BookingTakesSeat DEF Book, pathVars
<1>3. ASSUME NEW u \in Users, NEW s \in Schedules, BookUnanswered(u, s) PROVE OrdersOK'
  BY <1>3, <1>f, BookingTakesSeat DEF BookUnanswered, pathVars
<1>4. ASSUME NEW t \in handling, Stamp(t) PROVE OrdersOK'
  BY <1>4 DEF Stamp, Path!Accept
<1>5. ASSUME NEW t \in Orders, Deliver(t) PROVE OrdersOK'
  BY <1>5 DEF Deliver, Path!Deliver
<1>6. ASSUME NEW t \in Orders, DeliverUnnoticed(t) PROVE OrdersOK'
  BY <1>6, <1>f DEF DeliverUnnoticed, Path!DeliverUnnoticed
<1>7. ASSUME NEW t \in Orders, Lose(t) PROVE OrdersOK'
  BY <1>7, <1>f DEF Lose, Path!Drop
<1>8. ASSUME NEW gone \in SUBSET custody, Crash(gone) PROVE OrdersOK'
  BY <1>8, <1>f DEF Crash, Path!Drop, pathVars
<1>9. ASSUME NEW t \in Orders, Consume(t) PROVE OrdersOK'
  BY <1>9 DEF Consume, Path!Store
<1>10. ASSUME NEW t \in Orders, ConsumeUnnoticed(t) PROVE OrdersOK'
  BY <1>10, <1>f DEF ConsumeUnnoticed, Path!StoreUnnoticed
<1> QED BY <1>1, <1>2, <1>3, <1>4, <1>5, <1>6, <1>7, <1>8, <1>9, <1>10
        DEF Next, Preload, Expire, NextDay, vars

\* What every step may rely on: sound tickets before and after it.
BookingInv ==
    /\ R!TicketsInv
    /\ OrdersOK
    /\ SeatsAccounted

\* Whoever lets go of a seat hands it to the next: from the handler to the order's
\* custodian, to Kafka, to the table, or to the orphans.
LEMMA AccountStep ==
    ASSUME OrdersOK, SeatsAccounted, [Next]_vars
    PROVE  SeatsAccounted'
<1> USE DEF OrdersOK, Orders, SeatsAccounted
<1>1. ASSUME UNCHANGED <<sold, pathVars, handling, stamped, orphans, faults>>
      PROVE  SeatsAccounted'
  BY <1>1 DEF pathVars
<1>2. ASSUME NEW u \in Users, NEW s \in Schedules, Book(u, s) PROVE SeatsAccounted'
  BY <1>2, BookingTakesSeat DEF Book, pathVars
<1>3. ASSUME NEW u \in Users, NEW s \in Schedules, BookUnanswered(u, s)
      PROVE  SeatsAccounted'
  BY <1>3, BookingTakesSeat DEF BookUnanswered, pathVars
<1>4. ASSUME NEW t \in handling, Stamp(t) PROVE SeatsAccounted'
  BY <1>4 DEF Stamp, Path!Accept, seatVars
<1>5. ASSUME NEW t \in Orders, Deliver(t) PROVE SeatsAccounted'
  BY <1>5 DEF Deliver, Path!Deliver, seatVars
<1>6. ASSUME NEW t \in Orders, DeliverUnnoticed(t) PROVE SeatsAccounted'
  BY <1>6 DEF DeliverUnnoticed, Path!DeliverUnnoticed, seatVars
<1>7. ASSUME NEW t \in Orders, Lose(t) PROVE SeatsAccounted'
  BY <1>7 DEF Lose, Path!Drop, Unpublished, seatVars
<1>8. ASSUME NEW gone \in SUBSET custody, Crash(gone) PROVE SeatsAccounted'
  BY <1>8 DEF Crash, Path!Drop, pathVars, Unpublished, seatVars
<1>9. ASSUME NEW t \in Orders, Consume(t) PROVE SeatsAccounted'
  BY <1>9 DEF Consume, Path!Store, seatVars
<1>10. ASSUME NEW t \in Orders, ConsumeUnnoticed(t) PROVE SeatsAccounted'
  BY <1>10 DEF ConsumeUnnoticed, Path!StoreUnnoticed, seatVars
<1> QED BY <1>1, <1>2, <1>3, <1>4, <1>5, <1>6, <1>7, <1>8, <1>9, <1>10
        DEF Next, Preload, Expire, NextDay, Seats!Preload, Seats!Expire,
            Seats!NextDay, vars, seatVars

\* Seats, orders and the account between them, through every step.
LEMMA BookingInvariant == Spec => []BookingInv
<1>1. Init => OrdersOK /\ SeatsAccounted
  BY SmartReserveAssumption DEF Init, OrdersOK, Orders, SeatsAccounted,
     SmartReserveAssumption, Seats!Init, Path!PathInit
<1>2. R!TicketsInv /\ OrdersOK /\ SeatsAccounted /\ [Next]_vars
        => OrdersOK' /\ SeatsAccounted'
  BY SeatStep, SeatTypes, SoldStays, OrdersStep, AccountStep
<1>3. BookingInv <=> R!TicketsInv /\ OrdersOK /\ SeatsAccounted
  BY DEF BookingInv
<1> QED BY <1>1, <1>2, <1>3, TicketsInvariant, PTL DEF Spec

\* Redis, the handlers, the way to Kafka and the table keep their types.
THEOREM TypeCorrect == Spec => []TypeOK
<1>1. BookingInv => TypeOK
  BY SeatTypes DEF BookingInv, OrdersOK, TypeOK
<1> QED BY <1>1, BookingInvariant, PTL

\* No seat slips through: it has its row, or an order under way to one, or its
\* order was lost to a fault, and nothing else has a row or an order.
THEOREM SeatsAreAccountedFor == Spec => []SeatsAccounted
<1>1. BookingInv => SeatsAccounted
  BY DEF BookingInv
<1> QED BY <1>1, BookingInvariant, PTL

-----------------------------------------------------------------------------
(* The table and the order numbers.                                         *)

\* Rows come from seats, so as many of a round fit as the round has seats.
LEMMA RowsFit ==
    ASSUME BookingInv, NEW s \in Schedules, NEW k \in 1 .. MaxRounds
    PROVE  LET booked == {t \in rows : t.schedule = s /\ t.round = k}
           IN  booked # {} => Cardinality(booked) <= TotalSlots[s]
<1> DEFINE booked == {t \in rows : t.schedule = s /\ t.round = k}
           seat == [t \in booked |-> t.seat]
<1> SUFFICES ASSUME booked # {} PROVE Cardinality(booked) <= TotalSlots[s]
  OBVIOUS
<1>1. booked \subseteq sold
  BY DEF BookingInv, OrdersOK
<1>2. TotalSlots[s] \in Int
  BY SmartReserveAssumption DEF SmartReserveAssumption
<1>3. \A t \in booked : t.seat \in 1 .. TotalSlots[s]
  BY <1>1 DEF BookingInv, R!TicketsInv, R!SeatsExist
<1>4. \A a, b \in booked : a.seat = b.seat => a = b
  BY <1>1 DEF BookingInv, R!TicketsInv, R!IInv, R!OneBookingPerSeat
<1>5. TotalSlots[s] \in Nat /\ 1 <= TotalSlots[s]
  <2> PICK t \in booked : TRUE
    OBVIOUS
  <2>1. t.seat \in 1 .. TotalSlots[s]
    BY <1>3
  <2> HIDE DEF booked
  <2> QED BY <2>1, <1>2
<1>6. IsFiniteSet(1 .. TotalSlots[s]) /\ Cardinality(1 .. TotalSlots[s]) = TotalSlots[s]
  <2> DEFINE n == TotalSlots[s]
  <2>1. n \in Int /\ ~(1 > n) /\ n - 1 + 1 = n
    BY <1>2, <1>5
  <2> HIDE DEF n
  <2>2. IsFiniteSet(1 .. n) /\ Cardinality(1 .. n) = IF 1 > n THEN 0 ELSE n - 1 + 1
    BY <2>1, FS_Interval
  <2> QED BY <2>1, <2>2 DEF n
<1> HIDE DEF booked
<1>7. seat \in [booked -> 1 .. TotalSlots[s]]
  BY <1>3
<1>8. seat \in Injection(booked, 1 .. TotalSlots[s])
  BY <1>4, <1>7 DEF Injection, IsInjective
<1> HIDE DEF seat
<1>9. Cardinality(booked) <= Cardinality(1 .. TotalSlots[s])
  BY <1>6, <1>8, FS_Injection
<1> QED BY <1>6, <1>9

\* The table never shows more bookings of a round than seats, nor two of a user
\* for a schedule and a day.
THEOREM RowsFitSeats == Spec => []RowsWithinSeats
<1>1. BookingInv => RowsWithinSeats
  <2> SUFFICES ASSUME BookingInv PROVE RowsWithinSeats
    OBVIOUS
  <2>1. \A a, b \in rows :
          a.user = b.user /\ a.schedule = b.schedule /\ a.day = b.day => a = b
    BY DEF BookingInv, OrdersOK, R!TicketsInv, R!OneSeatPerDay
  <2> QED BY <2>1, RowsFit DEF RowsWithinSeats
<1> QED BY <1>1, BookingInvariant, PTL

\* Within a schedule, and numbered on the day of the booking, no two orders have
\* the same number.
THEOREM CollisionsAreExplained == Spec => []CollisionsExplained
<1>1. BookingInv => CollisionsExplained
  <2> SUFFICES ASSUME BookingInv, NEW a \in Orders, NEW b \in Orders,
                      OrderNo(a) = OrderNo(b), a.schedule = b.schedule,
                      stamped[a] = a.day, stamped[b] = b.day
               PROVE  a = b
    BY DEF CollisionsExplained
  <2>1. a.user = b.user /\ a.day = b.day
    BY DEF OrderNo
  <2>2. a \in sold /\ b \in sold
    BY DEF BookingInv, OrdersOK
  <2> QED BY <2>1, <2>2 DEF BookingInv, R!TicketsInv, R!OneSeatPerDay
<1> QED BY <1>1, BookingInvariant, PTL

-----------------------------------------------------------------------------
\* From its stamp to its row an order goes the way of OrderPath, which
\* OrderDelivery implements with its processes, lists and worker.
THEOREM PathRefinement == Spec => Path!PathSpec
<1>1. Init => Path!PathInit
  BY DEF Init
<1>2. BookingInv /\ [Next]_vars => [Path!PathNext]_(Path!pathVars)
  <2> SUFFICES ASSUME BookingInv, [Next]_vars
               PROVE  Path!PathNext \/ UNCHANGED Path!pathVars
    OBVIOUS
  <2>0. /\ handling \subseteq Seats!Ledger!Tickets
        /\ Orders \subseteq Seats!Ledger!Tickets
    BY SeatTypes DEF BookingInv, OrdersOK
  <2>1. ASSUME NEW t \in handling, Stamp(t) PROVE Path!PathNext
    BY <2>0, <2>1 DEF Stamp, Path!PathNext
  <2>2. ASSUME NEW t \in Orders, Deliver(t) \/ DeliverUnnoticed(t) PROVE Path!PathNext
    BY <2>0, <2>2 DEF Deliver, DeliverUnnoticed, Path!PathNext
  <2>3. ASSUME NEW t \in Orders, Lose(t) PROVE Path!PathNext
    <3>1. {t} \in SUBSET custody
      BY <2>3 DEF Lose, Path!Drop
    <3> QED BY <3>1, <2>3 DEF Lose, Path!PathNext
  <2>4. ASSUME NEW t \in Orders, Consume(t) \/ ConsumeUnnoticed(t) PROVE Path!PathNext
    BY <2>0, <2>4 DEF Consume, ConsumeUnnoticed, Path!PathNext
  <2>5. ASSUME NEW gone \in SUBSET custody, Crash(gone)
        PROVE  Path!PathNext \/ UNCHANGED Path!pathVars
    BY <2>5 DEF Crash, Path!PathNext, Path!pathVars, pathVars
  <2>6. ASSUME UNCHANGED pathVars PROVE UNCHANGED Path!pathVars
    BY <2>6 DEF pathVars, Path!pathVars
  <2> QED BY <2>1, <2>2, <2>3, <2>4, <2>5, <2>6
          DEF Next, Book, BookUnanswered, Preload, Expire, NextDay, vars
<1> QED BY <1>1, <1>2, BookingInvariant, PTL DEF Spec, Path!PathSpec
=============================================================================
