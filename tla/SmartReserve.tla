---------------------------- MODULE SmartReserve ----------------------------
(***************************************************************************)
(* A booking from end to end: the seat in Redis (module Reservation), the  *)
(* number that CreateAppointment gives to the order, its way to Kafka      *)
(* (module OrderPath, which OrderDelivery implements), and the consumer,   *)
(* whose Insert the unique key of appointment_order may refuse.            *)
(*                                                                         *)
(* An order is the ticket of its seat.  Its order number is the day on     *)
(* which it was stamped, and its user.                                     *)
(***************************************************************************)
EXTENDS Integers, FiniteSets

CONSTANTS
    Users, Schedules, TotalSlots, None, MaxDay, MaxRounds,   (* Reservation *)
    MaxFaults    (* bound: how many faults happen                           *)

ASSUME SmartReserveAssumption ==
    /\ TotalSlots \in [Schedules -> Int]
    /\ None \notin Int
    /\ MaxDay \in Nat
    /\ MaxRounds \in Nat
    /\ MaxFaults \in Nat

VARIABLES
    stock, mark, today, round, sold,   (* Reservation                       *)
    custody, copies, rows,             (* OrderPath                         *)
    handling,   (* seats whose handler has not made the order number yet    *)
    stamped,    (* the day in the order number, for every order             *)
    orphans,    (* history: seats whose order a fault has taken             *)
    faults      (* faults so far                                            *)

seatVars == <<stock, mark, today, round, sold>>
pathVars == <<custody, copies, rows>>
vars == <<seatVars, pathVars, handling, stamped, orphans, faults>>

Seats == INSTANCE Reservation
Path == INSTANCE OrderPath WITH Orders <- Seats!Ledger!Tickets

Orders == DOMAIN copies

TypeOK ==
    /\ Seats!TypeOK
    /\ handling \subseteq sold
    /\ Orders \subseteq sold
    /\ custody \subseteq Orders
    /\ rows \subseteq Orders
    /\ copies \in [Orders -> Nat]
    /\ stamped \in [Orders -> Nat]
    /\ orphans \subseteq sold
    /\ faults \in 0 .. MaxFaults

\* RES_<day>_<user>
OrderNo(t) == <<stamped[t], t.user>>

Fault ==
    /\ faults < MaxFaults
    /\ faults' = faults + 1

-----------------------------------------------------------------------------
Init ==
    /\ Seats!Init
    /\ Path!PathInit
    /\ handling = {}
    /\ stamped = [t \in {} |-> 0]
    /\ orphans = {}
    /\ faults = 0

\* Variant: the answer of the script is not looked at.
BookIgnoringRefusal(u, s) ==
    /\ Seats!Reserve(u, s) \/ UNCHANGED seatVars
    /\ handling' = handling \cup {Seats!Ticket(u, s)}
    /\ UNCHANGED <<pathVars, stamped, orphans, faults>>

\* The script is refused (4001, 4002) without a change, or takes a seat.
Book(u, s) ==
    /\ Seats!Reserve(u, s)
    /\ handling' = handling \cup {Seats!Ticket(u, s)}
    /\ UNCHANGED <<pathVars, stamped, orphans, faults>>

\* The script takes a seat, but EvalCtx returns an error: the caller is answered
\* 500, and no order is made.
BookUnanswered(u, s) ==
    /\ Seats!Reserve(u, s)
    /\ orphans' = orphans \cup {Seats!Ticket(u, s)}
    /\ Fault
    /\ UNCHANGED <<pathVars, handling, stamped>>

\* The handler reads the clock, some time after the script has run.
Stamp(t) ==
    /\ t \in handling
    /\ handling' = handling \ {t}
    /\ stamped' = [x \in Orders \cup {t} |-> IF x = t THEN today ELSE stamped[x]]
    /\ Path!Accept(t)
    /\ UNCHANGED <<seatVars, orphans, faults>>

-----------------------------------------------------------------------------
(* The way to Kafka.                                                        *)

Deliver(t) ==
    /\ Path!Deliver(t)
    /\ UNCHANGED <<seatVars, handling, stamped, orphans, faults>>

DeliverUnnoticed(t) ==
    /\ Path!DeliverUnnoticed(t)
    /\ Fault
    /\ UNCHANGED <<seatVars, handling, stamped, orphans>>

Unpublished(t) == copies[t] = 0 /\ t \notin rows

\* A call to Redis fails or a context expires, and the order is gone.
Lose(t) ==
    /\ Path!Drop({t})
    /\ orphans' = IF Unpublished(t) THEN orphans \cup {t} ELSE orphans
    /\ Fault
    /\ UNCHANGED <<seatVars, handling, stamped>>

\* The RPC process dies with its handlers, and with orders in their hands or in
\* those of its worker.
Crash(gone) ==
    /\ handling \cup gone # {}
    /\ IF gone = {} THEN UNCHANGED pathVars ELSE Path!Drop(gone)
    /\ handling' = {}
    /\ orphans' = orphans \cup handling \cup {t \in gone : Unpublished(t)}
    /\ Fault
    /\ UNCHANGED <<seatVars, stamped>>

-----------------------------------------------------------------------------
(* The consumer.  A copy whose number is already in the table violates      *)
(* uk_order_no: Insert and Consume return the error, and it stays in Kafka. *)

\* Variant: the key is on the user.
NumberIsFreePerUser(t) == \A r \in rows : r.user # t.user

NumberIsFree(t) == \A r \in rows : OrderNo(r) # OrderNo(t)

\* Variant: a duplicate key counts as "already stored" and is acknowledged.
ConsumeSwallowingDuplicates(t) ==
    /\ UNCHANGED <<seatVars, handling, stamped, orphans, faults>>
    /\ \/ NumberIsFree(t) /\ Path!Store(t)
       \/ /\ t \in Orders /\ copies[t] > 0 /\ ~NumberIsFree(t)
          /\ copies' = [copies EXCEPT ![t] = @ - 1]
          /\ UNCHANGED <<custody, rows>>

Consume(t) ==
    /\ t \in Orders
    /\ NumberIsFree(t)
    /\ Path!Store(t)
    /\ UNCHANGED <<seatVars, handling, stamped, orphans, faults>>

\* Insert wrote the row and reports an error all the same.
ConsumeUnnoticed(t) ==
    /\ t \in Orders
    /\ NumberIsFree(t)
    /\ Path!StoreUnnoticed(t)
    /\ Fault
    /\ UNCHANGED <<seatVars, handling, stamped, orphans>>

-----------------------------------------------------------------------------
(* Preloads, expiring marks and the calendar leave orders alone.            *)

Preload(s) ==
    /\ Seats!Preload(s)
    /\ UNCHANGED <<pathVars, handling, stamped, orphans, faults>>

Expire(u, s) ==
    /\ Seats!Expire(u, s)
    /\ UNCHANGED <<pathVars, handling, stamped, orphans, faults>>

NextDay ==
    /\ Seats!NextDay
    /\ UNCHANGED <<pathVars, handling, stamped, orphans, faults>>

Next ==
    \/ \E s \in Schedules : Preload(s)
    \/ \E u \in Users, s \in Schedules :
          Book(u, s) \/ BookUnanswered(u, s) \/ Expire(u, s)
    \/ NextDay
    \/ \E t \in handling : Stamp(t)
    \/ \E t \in Orders :
          \/ Deliver(t) \/ DeliverUnnoticed(t) \/ Lose(t)
          \/ Consume(t) \/ ConsumeUnnoticed(t)
    \/ \E gone \in SUBSET custody : Crash(gone)

Spec == Init /\ [][Next]_vars

\* Handlers go on, orders in custody are passed on (module OrderDelivery says
\* when), and the consumer gets what it has not acknowledged.
Fairness ==
    /\ WF_vars(\E t \in handling : Stamp(t))
    /\ WF_vars(\E t \in Orders : Deliver(t))
    /\ WF_vars(\E t \in Orders : Consume(t))

FairSpec == Spec /\ Fairness

-----------------------------------------------------------------------------
(* Properties.                                                              *)

\* Redis and MySQL agree: every seat handed out has a row, or an order that is
\* still on its way to one, or lost its order to a fault, and no other.
SeatsAccounted ==
    sold = handling \cup orphans \cup custody \cup rows
             \cup {t \in Orders : copies[t] > 0}

\* The table never says that a round of a schedule has more bookings than seats,
\* nor that a user has two of one schedule on a day.
RowsWithinSeats ==
    /\ \A s \in Schedules, k \in 1 .. MaxRounds :
          LET booked == {t \in rows : t.schedule = s /\ t.round = k}
          IN  booked # {} => Cardinality(booked) <= TotalSlots[s]
    /\ \A a, b \in rows :
          a.user = b.user /\ a.schedule = b.schedule /\ a.day = b.day => a = b

\* Two orders share a number only if they are of different schedules, or one of
\* them was numbered after midnight for a seat taken before: within a schedule
\* the mark of the script keeps the numbers apart.
CollisionsExplained ==
    \A a, b \in Orders :
        /\ a # b
        /\ OrderNo(a) = OrderNo(b)
        => \/ a.schedule # b.schedule
           \/ stamped[a] # a.day
           \/ stamped[b] # b.day

\* In the table, or out of it for one of two known reasons.
Settled(t) ==
    \/ t \in rows \cup orphans
    \/ t \in Orders /\ \E r \in rows : r # t /\ OrderNo(r) = OrderNo(t)

\* Every seat gets its row, unless a fault took its order or an order with the
\* same number was there first.
EventuallySettled == []<>(\A t \in sold : Settled(t))

\* "Returning the error makes Kafka retry, so that nothing is lost": in the end
\* there is a row for every seat.
EverySeatStored == []<>(sold \subseteq rows)
=============================================================================
