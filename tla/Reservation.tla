----------------------------- MODULE Reservation ----------------------------
(***************************************************************************)
(* Booking in Redis: the Lua script of CreateAppointment, which the server *)
(* runs as one step, the preload that puts a schedule on sale, and the     *)
(* expiry of the per-user marks.                                           *)
(*                                                                         *)
(*   stock[s]     reserve:slots:<s>                                        *)
(*   mark[u][s]   reserve:user:<u>:<s>, by the day it was set              *)
(*                                                                         *)
(* Marks live 24 hours, so one that is set on a day is gone some time      *)
(* during the next.  round and sold are history: they record what was      *)
(* handed out and decide nothing.                                          *)
(***************************************************************************)
EXTENDS Integers, FiniteSets

CONSTANTS
    Users,
    Schedules,    (* rows of the schedule table                       *)
    TotalSlots,   (* schedule.total_slots                             *)
    None,         (* a Redis key that does not exist                  *)
    MaxDay,       (* bound: the last day                              *)
    MaxRounds     (* bound: how often one schedule is preloaded       *)

\* The column total_slots is a signed int, and no code checks its sign.
ASSUME ReservationAssumption ==
    /\ TotalSlots \in [Schedules -> Int]
    /\ None \notin Int
    /\ MaxDay \in Nat
    /\ MaxRounds \in Nat

VARIABLES stock, mark, today, round, sold

vars == <<stock, mark, today, round, sold>>

Ledger == INSTANCE SeatLedger

TypeOK ==
    /\ stock \in [Schedules -> Int \cup {None}]
    /\ mark \in [Users -> [Schedules -> Nat \cup {None}]]
    /\ today \in Nat
    /\ round \in [Schedules -> Nat]
    /\ sold \subseteq Ledger!Tickets

-----------------------------------------------------------------------------
Init ==
    /\ stock = [s \in Schedules |-> None]
    /\ mark = [u \in Users |-> [s \in Schedules |-> None]]
    /\ today = 1
    /\ round = [s \in Schedules |-> 0]
    /\ sold = {}

\* Variant: the preload only adds to the stock that is left.
PreloadAdding(s) ==
    /\ round[s] < MaxRounds
    /\ stock' = [stock EXCEPT ![s] = IF @ = None THEN TotalSlots[s] ELSE @ + TotalSlots[s]]
    /\ round' = [round EXCEPT ![s] = @ + 1]
    /\ UNCHANGED <<mark, today, sold>>

\* PreloadSchedule: whatever stock was left is overwritten.  An id that MySQL
\* does not have is answered 4004 and changes nothing.
Preload(s) ==
    /\ round[s] < MaxRounds
    /\ stock' = [stock EXCEPT ![s] = TotalSlots[s]]
    /\ round' = [round EXCEPT ![s] = @ + 1]
    /\ UNCHANGED <<mark, today, sold>>

\* "isBooked" of the script: with a mark it answers -1.
NotBooked(u, s) == mark[u][s] = None

\* Variant: the last seat is counted from zero.
HasStockOffByOne(s) == stock[s] # None /\ stock[s] >= 0

\* "count" of the script: a missing or non-positive stock makes it answer -2.
HasStock(s) == stock[s] # None /\ stock[s] > 0

Ticket(u, s) ==
    [user |-> u, schedule |-> s, seat |-> stock[s], round |-> round[s], day |-> today]

\* Variant: the script forgets its DECR.
ReserveWithoutDecr(u, s) ==
    /\ NotBooked(u, s)
    /\ HasStock(s)
    /\ mark' = [mark EXCEPT ![u][s] = today]
    /\ sold' = sold \cup {Ticket(u, s)}
    /\ UNCHANGED <<stock, today, round>>

\* The script ran to its "return 1".  The seat is taken whether or not the
\* caller gets to see the answer: an error of EvalCtx may hide a success.
Reserve(u, s) ==
    /\ NotBooked(u, s)
    /\ HasStock(s)
    /\ stock' = [stock EXCEPT ![s] = @ - 1]
    /\ mark' = [mark EXCEPT ![u][s] = today]
    /\ sold' = sold \cup {Ticket(u, s)}
    /\ UNCHANGED <<today, round>>

\* Variant: the time to live is shorter than the rest of the day.
ExpireEarly(u, s) ==
    /\ mark[u][s] # None
    /\ mark' = [mark EXCEPT ![u][s] = None]
    /\ UNCHANGED <<stock, today, round, sold>>

\* Variant: an expired mark is overwritten instead of removed.
ExpireOverwriting(u, s) ==
    /\ mark[u][s] # None
    /\ mark[u][s] < today
    /\ mark' = [mark EXCEPT ![u][s] = -1]
    /\ UNCHANGED <<stock, today, round, sold>>

\* The mark is 86400 seconds old.
Expire(u, s) ==
    /\ mark[u][s] # None
    /\ mark[u][s] < today
    /\ mark' = [mark EXCEPT ![u][s] = None]
    /\ UNCHANGED <<stock, today, round, sold>>

\* Marks of the day before have expired when the day ends.
NextDay ==
    /\ today < MaxDay
    /\ \A u \in Users, s \in Schedules : mark[u][s] \in {None, today}
    /\ today' = today + 1
    /\ UNCHANGED <<stock, mark, round, sold>>

Next ==
    \/ \E s \in Schedules : Preload(s)
    \/ \E u \in Users, s \in Schedules : Reserve(u, s) \/ Expire(u, s)
    \/ NextDay

Spec == Init /\ [][Next]_vars

-----------------------------------------------------------------------------
(* Properties.                                                               *)

\* Preload and DECR keep the books: the seats handed out since the last
\* preload are exactly those above the count that Redis holds, so a round
\* never sells a seat it does not have, and a retry cannot leak one.
StockAccounting ==
    \A s \in Schedules :
        IF stock[s] = None
        THEN round[s] = 0
        ELSE {t.seat : t \in {x \in sold : x.schedule = s /\ x.round = round[s]}}
               = (stock[s] + 1) .. TotalSlots[s]

\* Nobody shares a seat: a seat of a round belongs to one booking.
OneBookingPerSeat ==
    \A t1, t2 \in sold :
        t1.schedule = t2.schedule /\ t1.round = t2.round /\ t1.seat = t2.seat
          => t1 = t2

\* The mark is there all day: whoever booked a schedule today is refused
\* until tomorrow, and nobody is refused as a repeat who got no seat.
MarkMatchesBooking ==
    \A u \in Users, s \in Schedules :
        /\ (\E t \in sold : t.user = u /\ t.schedule = s /\ t.day = today)
             => mark[u][s] = today
        /\ mark[u][s] # None
             => \E t \in sold : t.user = u /\ t.schedule = s /\ t.day = mark[u][s]

\* The script, the preload and the expiring marks implement the ledger: every
\* answer 1 is the sale of a free seat to a user who has none today, and nothing
\* else is sold.
ImplementsLedger == Ledger!LedgerSpec

\* What the overwriting preload costs at most: every preload hands out the seats
\* of its schedule once more, however bookings and preloads interleave.
OversellingIsBounded ==
    \A s \in Schedules :
        Cardinality({t \in sold : t.schedule = s})
          <= round[s] * Cardinality(1 .. TotalSlots[s])

\* "total_slots is the total number of seats": a schedule never hands out more.
NotOversold ==
    \A s \in Schedules :
        TotalSlots[s] >= 0 =>
            Cardinality({t \in sold : t.schedule = s}) <= TotalSlots[s]
=============================================================================
