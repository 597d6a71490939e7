------------------------- MODULE ReservationProofs --------------------------
(***************************************************************************)
(* Proofs about Reservation, for any users, schedules, totals and bounds.  *)
(*                                                                         *)
(* The invariants of Reservation are inductive together with two facts     *)
(* they need: the history lies in the past, and the stock of a schedule on *)
(* sale never exceeds its total.                                           *)
(***************************************************************************)
EXTENDS Reservation, FiniteSetTheorems, TLAPS

HistoryIsPast ==
    \A t \in sold : t.round <= round[t.schedule] /\ t.day <= today

StockInRange ==
    \A s \in Schedules :
        stock[s] # None => stock[s] <= TotalSlots[s] /\ round[s] > 0

IInv ==
    /\ TypeOK
    /\ HistoryIsPast
    /\ StockInRange
    /\ StockAccounting
    /\ OneBookingPerSeat
    /\ MarkMatchesBooking

-----------------------------------------------------------------------------
\* What the script's answer 1 rests on: the seat it hands out is one of the
\* schedule's, nobody has it in this round, and the caller has none today.
LEMMA FreshSeat ==
    ASSUME IInv, NEW u \in Users, NEW s \in Schedules, Reserve(u, s)
    PROVE  /\ stock[s] \in 1 .. TotalSlots[s]
           /\ round[s] > 0
           /\ \A t \in sold : t.schedule = s /\ t.round = round[s]
                                => t.seat > stock[s]
           /\ \A t \in sold : t.schedule = s /\ t.user = u => t.day # today
<1> USE ReservationAssumption
<1>1. stock[s] \in Int /\ stock[s] > 0 /\ stock[s] # None
  BY DEF Reserve, HasStock, IInv, TypeOK
<1>2. TotalSlots[s] \in Int /\ round[s] \in Nat
  BY DEF IInv, TypeOK
<1>3. stock[s] <= TotalSlots[s] /\ round[s] > 0
  BY <1>1 DEF IInv, StockInRange
<1>4. ASSUME NEW t \in sold, t.schedule = s, t.round = round[s]
      PROVE  t.seat > stock[s]
  <2>1. t.seat \in {x.seat : x \in {y \in sold : y.schedule = s /\ y.round = round[s]}}
    BY <1>4
  <2>2. t.seat \in (stock[s] + 1) .. TotalSlots[s]
    BY <2>1, <1>1 DEF IInv, StockAccounting
  <2> QED BY <2>2, <1>1, <1>2
<1>5. ASSUME NEW t \in sold, t.schedule = s, t.user = u, t.day = today
      PROVE  FALSE
  <2>1. mark[u][s] = today
    BY <1>5 DEF IInv, MarkMatchesBooking
  <2>2. mark[u][s] = None
    BY DEF Reserve, NotBooked
  <2> QED BY <2>1, <2>2 DEF IInv, TypeOK
<1> QED BY <1>1, <1>2, <1>3, <1>4, <1>5

\* The ticket is typed, dated today and numbered with the current round.
LEMMA TicketFields ==
    ASSUME IInv, NEW u \in Users, NEW s \in Schedules, HasStock(s)
    PROVE  /\ Ticket(u, s) \in Ledger!Tickets
           /\ Ticket(u, s).user = u
           /\ Ticket(u, s).schedule = s
           /\ Ticket(u, s).seat = stock[s]
           /\ Ticket(u, s).round = round[s]
           /\ Ticket(u, s).day = today
<1>1. stock[s] \in Int /\ round[s] \in Nat /\ today \in Nat
  BY DEF HasStock, IInv, TypeOK
<1> QED BY <1>1 DEF Ticket, Ledger!Tickets

-----------------------------------------------------------------------------
\* Preload preserves the strengthened invariant.
LEMMA PreloadStep ==
    ASSUME IInv, NEW s \in Schedules, Preload(s)
    PROVE  IInv'
<1> USE ReservationAssumption
<1>1. /\ stock' = [stock EXCEPT ![s] = TotalSlots[s]]
      /\ round' = [round EXCEPT ![s] = @ + 1]
      /\ mark' = mark /\ today' = today /\ sold' = sold
  BY DEF Preload
<1>2. TypeOK'
  BY <1>1 DEF IInv, TypeOK
<1>3. HistoryIsPast'
  <2> SUFFICES ASSUME NEW t \in sold PROVE t.round <= round'[t.schedule] /\ t.day <= today'
    BY <1>1 DEF HistoryIsPast
  <2>1. t.schedule \in Schedules /\ t.round \in Nat
    BY DEF IInv, TypeOK, Ledger!Tickets
  <2>2. t.round <= round[t.schedule] /\ t.day <= today
    BY DEF IInv, HistoryIsPast
  <2>3. round[t.schedule] \in Nat /\ round'[t.schedule] \in {round[t.schedule], round[t.schedule] + 1}
    BY <2>1, <1>1 DEF IInv, TypeOK
  <2> QED BY <1>1, <2>1, <2>2, <2>3
<1>4. StockInRange'
  BY <1>1 DEF IInv, TypeOK, StockInRange
<1>5. StockAccounting'
  <2> SUFFICES ASSUME NEW q \in Schedules
               PROVE  IF stock'[q] = None
                      THEN round'[q] = 0
                      ELSE {t.seat : t \in {x \in sold : x.schedule = q /\ x.round = round'[q]}}
                             = (stock'[q] + 1) .. TotalSlots[q]
    BY <1>1 DEF StockAccounting
  <2>1. CASE q = s
    <3>1. stock'[q] = TotalSlots[q] /\ round'[q] = round[q] + 1 /\ TotalSlots[q] \in Int
      BY <1>1, <2>1 DEF IInv, TypeOK
    <3>2. {x \in sold : x.schedule = q /\ x.round = round'[q]} = {}
      <4> SUFFICES ASSUME NEW x \in sold, x.schedule = q, x.round = round'[q] PROVE FALSE
        OBVIOUS
      <4>1. x.round <= round[q] /\ round[q] \in Nat
        BY DEF IInv, HistoryIsPast, TypeOK
      <4> QED BY <4>1, <3>1
    <3>3. (TotalSlots[q] + 1) .. TotalSlots[q] = {}
      BY <3>1
    <3> QED BY <3>1, <3>2, <3>3
  <2>2. CASE q # s
    BY <1>1, <2>2 DEF IInv, TypeOK, StockAccounting
  <2> QED BY <2>1, <2>2
<1>6. OneBookingPerSeat' /\ MarkMatchesBooking'
  BY <1>1 DEF IInv, OneBookingPerSeat, MarkMatchesBooking
<1> QED BY <1>2, <1>3, <1>4, <1>5, <1>6 DEF IInv

\* The Lua script preserves the strengthened invariant.
LEMMA ReserveStep ==
    ASSUME IInv, NEW u \in Users, NEW s \in Schedules, Reserve(u, s)
    PROVE  IInv'
<1> USE ReservationAssumption
<1> DEFINE tk == Ticket(u, s)
<1>1. /\ stock' = [stock EXCEPT ![s] = @ - 1]
      /\ mark' = [mark EXCEPT ![u][s] = today]
      /\ sold' = sold \cup {tk}
      /\ today' = today /\ round' = round
  BY DEF Reserve
<1>2. /\ tk \in Ledger!Tickets
      /\ tk.user = u /\ tk.schedule = s /\ tk.seat = stock[s]
      /\ tk.round = round[s] /\ tk.day = today
  BY TicketFields DEF Reserve
<1>3. /\ stock[s] \in 1 .. TotalSlots[s] /\ stock[s] # None
      /\ round[s] > 0
      /\ \A t \in sold : t.schedule = s /\ t.round = round[s] => t.seat > stock[s]
  BY FreshSeat DEF Reserve, HasStock
<1> HIDE DEF tk
<1>4. /\ TypeOK /\ stock[s] \in Int /\ TotalSlots[s] \in Int
      /\ today \in Nat /\ round[s] \in Nat
  BY <1>3 DEF IInv, TypeOK
<1>5. TypeOK'
  BY <1>1, <1>2, <1>4 DEF TypeOK
<1>6. HistoryIsPast'
  BY <1>1, <1>2, <1>4 DEF IInv, HistoryIsPast
<1>7. StockInRange'
  BY <1>1, <1>3, <1>4 DEF IInv, TypeOK, StockInRange
<1>8. StockAccounting'
  <2> SUFFICES ASSUME NEW q \in Schedules
               PROVE  IF stock'[q] = None
                      THEN round[q] = 0
                      ELSE {t.seat : t \in {x \in sold' : x.schedule = q /\ x.round = round[q]}}
                             = (stock'[q] + 1) .. TotalSlots[q]
    BY <1>1 DEF StockAccounting
  <2>1. CASE q = s
    <3>1. stock'[q] = stock[s] - 1 /\ stock'[q] # None
      BY <1>1, <1>4, <2>1 DEF TypeOK
    <3>2. {x \in sold' : x.schedule = q /\ x.round = round[q]}
            = {x \in sold : x.schedule = q /\ x.round = round[q]} \cup {tk}
      BY <1>1, <1>2, <2>1
    <3>3. {t.seat : t \in {x \in sold' : x.schedule = q /\ x.round = round[q]}}
            = {t.seat : t \in {x \in sold : x.schedule = q /\ x.round = round[q]}} \cup {stock[s]}
      BY <3>2, <1>2
    <3>4. {t.seat : t \in {x \in sold : x.schedule = q /\ x.round = round[q]}}
            = (stock[s] + 1) .. TotalSlots[s]
      BY <1>3, <2>1 DEF IInv, StockAccounting
    <3>5. ((stock[s] + 1) .. TotalSlots[s]) \cup {stock[s]} = stock[s] .. TotalSlots[s]
      BY <1>3, <1>4
    <3>6. (stock[s] - 1) + 1 = stock[s]
      BY <1>4
    <3> QED BY <3>1, <3>3, <3>4, <3>5, <3>6, <2>1
  <2>2. CASE q # s
    <3>1. stock'[q] = stock[q]
      BY <1>1, <1>4, <2>2 DEF TypeOK
    <3>2. {x \in sold' : x.schedule = q /\ x.round = round[q]}
            = {x \in sold : x.schedule = q /\ x.round = round[q]}
      BY <1>1, <1>2, <2>2
    <3> QED BY <3>1, <3>2 DEF IInv, StockAccounting
  <2> QED BY <2>1, <2>2
<1>9. OneBookingPerSeat'
  <2> SUFFICES ASSUME NEW t1 \in sold', NEW t2 \in sold', t1.schedule = t2.schedule,
                      t1.round = t2.round, t1.seat = t2.seat
               PROVE  t1 = t2
    BY DEF OneBookingPerSeat
  <2>1. ASSUME NEW t \in sold, t.schedule = s, t.round = round[s], t.seat = stock[s]
        PROVE  FALSE
    BY <2>1, <1>3, <1>4
  <2> QED BY <1>1, <1>2, <2>1 DEF IInv, OneBookingPerSeat
<1>10. MarkMatchesBooking'
  <2> SUFFICES ASSUME NEW v \in Users, NEW q \in Schedules
               PROVE  /\ (\E t \in sold' : t.user = v /\ t.schedule = q /\ t.day = today')
                           => mark'[v][q] = today'
                      /\ mark'[v][q] # None
                           => \E t \in sold' : t.user = v /\ t.schedule = q
                                               /\ t.day = mark'[v][q]
    BY <1>1 DEF MarkMatchesBooking
  <2>1. CASE v = u /\ q = s
    <3>1. mark'[v][q] = today
      BY <1>1, <1>4, <2>1 DEF TypeOK
    <3> QED BY <3>1, <1>1, <1>2, <2>1
  <2>2. CASE ~(v = u /\ q = s)
    <3>1. mark'[v][q] = mark[v][q]
      BY <1>1, <1>4, <2>2 DEF TypeOK
    <3> QED BY <3>1, <1>1, <1>2, <2>2 DEF IInv, MarkMatchesBooking
  <2> QED BY <2>1, <2>2
<1> QED BY <1>5, <1>6, <1>7, <1>8, <1>9, <1>10 DEF IInv

\* Expiry preserves the strengthened invariant: a mark of today stays.
LEMMA ExpireStep ==
    ASSUME IInv, NEW u \in Users, NEW s \in Schedules, Expire(u, s)
    PROVE  IInv'
<1> USE ReservationAssumption
<1>1. /\ mark' = [mark EXCEPT ![u][s] = None]
      /\ mark[u][s] < today /\ mark[u][s] # None
      /\ stock' = stock /\ today' = today /\ round' = round /\ sold' = sold
  BY DEF Expire
<1>2. TypeOK'
  BY <1>1 DEF IInv, TypeOK
<1>3. HistoryIsPast' /\ StockInRange' /\ StockAccounting' /\ OneBookingPerSeat'
  BY <1>1 DEF IInv, HistoryIsPast, StockInRange, StockAccounting, OneBookingPerSeat
<1>4. MarkMatchesBooking'
  <2> SUFFICES ASSUME NEW v \in Users, NEW q \in Schedules
               PROVE  /\ (\E t \in sold : t.user = v /\ t.schedule = q /\ t.day = today)
                           => mark'[v][q] = today
                      /\ mark'[v][q] # None
                           => \E t \in sold : t.user = v /\ t.schedule = q
                                              /\ t.day = mark'[v][q]
    BY <1>1 DEF MarkMatchesBooking
  <2>1. CASE v = u /\ q = s
    <3>1. mark'[v][q] = None
      BY <1>1, <2>1 DEF IInv, TypeOK
    <3>2. mark[v][q] # today
      BY <1>1, <2>1 DEF IInv, TypeOK
    <3> QED BY <3>1, <3>2 DEF IInv, MarkMatchesBooking
  <2>2. CASE ~(v = u /\ q = s)
    <3>1. mark'[v][q] = mark[v][q]
      BY <1>1, <2>2 DEF IInv, TypeOK
    <3> QED BY <3>1 DEF IInv, MarkMatchesBooking
  <2> QED BY <2>1, <2>2
<1> QED BY <1>2, <1>3, <1>4 DEF IInv

\* A new day preserves the strengthened invariant: nothing is dated ahead.
LEMMA NextDayStep ==
    ASSUME IInv, NextDay
    PROVE  IInv'
<1> USE ReservationAssumption
<1>1. /\ today' = today + 1 /\ today \in Nat
      /\ stock' = stock /\ mark' = mark /\ round' = round /\ sold' = sold
  BY DEF NextDay, IInv, TypeOK
<1>2. TypeOK'
  BY <1>1 DEF IInv, TypeOK
<1>3. /\ \A t \in sold : t.day \in Nat /\ t.day <= today
      /\ \A t \in sold : t.round <= round[t.schedule]
  BY DEF IInv, TypeOK, HistoryIsPast, Ledger!Tickets
<1>4. HistoryIsPast'
  BY <1>1, <1>3 DEF HistoryIsPast
<1>5. StockInRange' /\ StockAccounting' /\ OneBookingPerSeat'
  BY <1>1 DEF IInv, StockInRange, StockAccounting, OneBookingPerSeat
<1>6. MarkMatchesBooking'
  <2>1. \A t \in sold : t.day # today'
    BY <1>1, <1>3
  <2> QED BY <2>1, <1>1 DEF IInv, MarkMatchesBooking
<1> QED BY <1>2, <1>4, <1>5, <1>6 DEF IInv

-----------------------------------------------------------------------------
\* The strengthened invariant holds at the start, when nothing is on sale.
LEMMA InitIInv == Init => IInv
<1> SUFFICES ASSUME Init PROVE IInv
  OBVIOUS
<1>1. TypeOK
  BY DEF Init, TypeOK
<1>2. HistoryIsPast /\ StockInRange /\ OneBookingPerSeat
  BY DEF Init, HistoryIsPast, StockInRange, OneBookingPerSeat
<1>3. StockAccounting
  BY DEF Init, StockAccounting
<1>4. MarkMatchesBooking
  BY DEF Init, MarkMatchesBooking
<1> QED BY <1>1, <1>2, <1>3, <1>4 DEF IInv

\* Every step preserves the strengthened invariant.
LEMMA IInvStep ==
    IInv /\ [Next]_vars => IInv'
<1> SUFFICES ASSUME IInv, [Next]_vars PROVE IInv'
  OBVIOUS
<1>1. ASSUME NEW s \in Schedules, Preload(s) PROVE IInv'
  BY <1>1, PreloadStep
<1>2. ASSUME NEW u \in Users, NEW s \in Schedules, Reserve(u, s) PROVE IInv'
  BY <1>2, ReserveStep
<1>3. ASSUME NEW u \in Users, NEW s \in Schedules, Expire(u, s) PROVE IInv'
  BY <1>3, ExpireStep
<1>4. CASE NextDay
  BY <1>4, NextDayStep
<1>5. CASE UNCHANGED vars
  BY <1>5 DEF vars, IInv, TypeOK, HistoryIsPast, StockInRange,
              StockAccounting, OneBookingPerSeat, MarkMatchesBooking
<1> QED BY <1>1, <1>2, <1>3, <1>4, <1>5 DEF Next

\* Preloads, bookings, expiries and the calendar keep the strengthened
\* invariant of the Redis keys.
THEOREM ReservationInvariant == Spec => []IInv
BY InitIInv, IInvStep, PTL DEF Spec

\* The keys and the history keep their types.
THEOREM TypeCorrect == Spec => []TypeOK
<1>1. IInv => TypeOK
  BY DEF IInv
<1> QED BY <1>1, ReservationInvariant, PTL

\* The seats handed out since the last preload are exactly those above the
\* count in reserve:slots, whatever the total and however users compete.
THEOREM SeatsAccountedFor == Spec => []StockAccounting
<1>1. IInv => StockAccounting
  BY DEF IInv
<1> QED BY <1>1, ReservationInvariant, PTL

\* Two bookings of one round never get the same seat.
THEOREM SeatsAreExclusive == Spec => []OneBookingPerSeat
<1>1. IInv => OneBookingPerSeat
  BY DEF IInv
<1> QED BY <1>1, ReservationInvariant, PTL

\* A user is refused as a repeat for as long as the day of the booking lasts,
\* and never without having got a seat.
THEOREM MarksAreTruthful == Spec => []MarkMatchesBooking
<1>1. IInv => MarkMatchesBooking
  BY DEF IInv
<1> QED BY <1>1, ReservationInvariant, PTL

-----------------------------------------------------------------------------
(* What a ticket is worth: to count the tickets of a schedule, and for the  *)
(* rows and numbers of module SmartReserve.                                 *)

SeatsExist ==
    \A t \in sold : t.seat \in 1 .. TotalSlots[t.schedule] /\ t.round > 0

OneSeatPerDay ==
    \A a, b \in sold :
        a.user = b.user /\ a.schedule = b.schedule /\ a.day = b.day => a = b

TicketsInv == IInv /\ SeatsExist /\ OneSeatPerDay

\* A new ticket has a seat of its schedule, and no other of its user and day.
LEMMA TicketsStep ==
    TicketsInv /\ [Next]_vars => TicketsInv'
<1> SUFFICES ASSUME TicketsInv, IInv', [Next]_vars
             PROVE  SeatsExist' /\ OneSeatPerDay'
  BY IInvStep DEF TicketsInv
<1>1. ASSUME UNCHANGED sold PROVE SeatsExist' /\ OneSeatPerDay'
  BY <1>1 DEF TicketsInv, SeatsExist, OneSeatPerDay
<1>2. ASSUME NEW u \in Users, NEW s \in Schedules, Reserve(u, s)
      PROVE  SeatsExist' /\ OneSeatPerDay'
  <2> DEFINE tk == Ticket(u, s)
  <2>1. /\ sold' = sold \cup {tk}
        /\ tk.user = u /\ tk.schedule = s /\ tk.day = today
        /\ tk.seat = stock[s] /\ tk.round = round[s]
    BY <1>2, TicketFields DEF Reserve, TicketsInv
  <2>2. /\ stock[s] \in 1 .. TotalSlots[s]
        /\ round[s] > 0
        /\ \A t \in sold : t.schedule = s /\ t.user = u => t.day # today
    BY <1>2, FreshSeat DEF TicketsInv
  <2> HIDE DEF tk
  <2> QED BY <2>1, <2>2 DEF TicketsInv, SeatsExist, OneSeatPerDay
<1> QED BY <1>1, <1>2 DEF Next, Preload, Expire, NextDay, vars

\* Every ticket ever handed out is for a seat that its schedule has, and a user
\* has one of a schedule a day at most.
THEOREM TicketsAreSound == Spec => []TicketsInv
<1>1. Init => TicketsInv
  BY InitIInv DEF Init, TicketsInv, SeatsExist, OneSeatPerDay
<1> QED BY <1>1, TicketsStep, PTL DEF Spec

\* Seat and round tell the tickets of a schedule apart.
LEMMA TicketsCounted ==
    ASSUME TicketsInv, NEW s \in Schedules
    PROVE  Cardinality({t \in sold : t.schedule = s})
             <= round[s] * Cardinality(1 .. TotalSlots[s])
<1> DEFINE tickets == {t \in sold : t.schedule = s}
           place == [t \in tickets |-> <<t.round, t.seat>>]
           rounds == 1 .. round[s]
           seats == 1 .. TotalSlots[s]
<1>1. TotalSlots[s] \in Int /\ round[s] \in Nat
  BY ReservationAssumption DEF TicketsInv, IInv, TypeOK
<1>2. \A t \in tickets : t.round \in rounds /\ t.seat \in seats
  <2> SUFFICES ASSUME NEW t \in tickets PROVE t.round \in rounds /\ t.seat \in seats
    OBVIOUS
  <2>1. t.round \in Nat /\ t.round <= round[s]
    BY DEF TicketsInv, IInv, TypeOK, HistoryIsPast, Ledger!Tickets
  <2>2. t.seat \in seats /\ t.round > 0
    BY DEF TicketsInv, SeatsExist
  <2> QED BY <1>1, <2>1, <2>2
<1>3. \A a, b \in tickets : a.round = b.round /\ a.seat = b.seat => a = b
  BY DEF TicketsInv, IInv, OneBookingPerSeat
<1>4. IsFiniteSet(rounds) /\ Cardinality(rounds) = round[s]
  <2> DEFINE n == round[s]
  <2>1. /\ 1 \in Int /\ n \in Int
        /\ (IF 1 > n THEN 0 ELSE n - 1 + 1) = n
    BY <1>1
  <2> HIDE DEF n
  <2>2. IsFiniteSet(1 .. n) /\ Cardinality(1 .. n) = IF 1 > n THEN 0 ELSE n - 1 + 1
    BY <2>1, FS_Interval
  <2> QED BY <2>1, <2>2 DEF n
<1>5. IsFiniteSet(seats)
  BY <1>1, FS_Interval
<1> HIDE DEF tickets, rounds, seats
<1>6. IsFiniteSet(rounds \X seats)
      /\ Cardinality(rounds \X seats) = round[s] * Cardinality(seats)
  BY <1>4, <1>5, FS_Product
<1>7. place \in Injection(tickets, rounds \X seats)
  BY <1>2, <1>3 DEF Injection, IsInjective
<1> HIDE DEF place
<1>8. Cardinality(tickets) <= Cardinality(rounds \X seats)
  BY <1>6, <1>7, FS_Injection
<1> QED BY <1>6, <1>8 DEF tickets, seats

\* However bookings and preloads interleave, a schedule that was preloaded k
\* times has handed out k times its seats at most.
THEOREM OversellingBound == Spec => []OversellingIsBounded
<1>1. TicketsInv => OversellingIsBounded
  BY TicketsCounted DEF OversellingIsBounded
<1> QED BY <1>1, TicketsAreSound, PTL

-----------------------------------------------------------------------------
\* The script, the preload and the expiry implement the ledger of seats: every
\* answer 1 is a sale of a free seat to a user without one today.
THEOREM Refinement == Spec => ImplementsLedger
<1>1. Init => Ledger!LedgerInit
  BY DEF Init, Ledger!LedgerInit
<1>2. IInv /\ [Next]_vars => [Ledger!LedgerNext]_(Ledger!ledgerVars)
  <2> SUFFICES ASSUME IInv, [Next]_vars
               PROVE  Ledger!LedgerNext \/ UNCHANGED Ledger!ledgerVars
    OBVIOUS
  <2>1. ASSUME NEW s \in Schedules, Preload(s) PROVE Ledger!LedgerNext
    <3>1. Ledger!Open(s)
      BY <2>1 DEF Preload, Ledger!Open
    <3> QED BY <3>1 DEF Ledger!LedgerNext
  <2>2. ASSUME NEW u \in Users, NEW s \in Schedules, Reserve(u, s)
        PROVE  Ledger!LedgerNext
    <3>1. /\ stock[s] \in 1 .. TotalSlots[s]
          /\ round[s] > 0
          /\ \A t \in sold : t.schedule = s /\ t.round = round[s]
                               => t.seat > stock[s]
          /\ \A t \in sold : t.schedule = s /\ t.user = u => t.day # today
      BY <2>2, FreshSeat
    <3>2. \A t \in sold : t.schedule = s /\ t.round = round[s] => t.seat # stock[s]
      BY <3>1 DEF IInv, TypeOK, Ledger!Tickets
    <3>3. Ledger!Sell(u, s)
      BY <2>2, <3>1, <3>2 DEF Reserve, Ticket, Ledger!Sell
    <3> QED BY <3>3 DEF Ledger!LedgerNext
  <2>3. ASSUME NEW u \in Users, NEW s \in Schedules, Expire(u, s)
        PROVE  UNCHANGED Ledger!ledgerVars
    BY <2>3 DEF Expire, Ledger!ledgerVars
  <2>4. CASE NextDay
    BY <2>4 DEF NextDay, Ledger!DayPasses, Ledger!LedgerNext
  <2>5. CASE UNCHANGED vars
    BY <2>5 DEF vars, Ledger!ledgerVars
  <2> QED BY <2>1, <2>2, <2>3, <2>4, <2>5 DEF Next
<1> QED BY ReservationInvariant, <1>1, <1>2, PTL
        DEF Spec, ImplementsLedger, Ledger!LedgerSpec
=============================================================================
