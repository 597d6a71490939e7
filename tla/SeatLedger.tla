----------------------------- MODULE SeatLedger -----------------------------
(***************************************************************************)
(* What the reservation of seats promises, with nothing of how Redis does  *)
(* it: a ledger of the seats handed out.  A schedule is opened for booking *)
(* in rounds (one per preload); within a round each of its seats goes to   *)
(* at most one user, and a user gets at most one seat of a schedule a day. *)
(***************************************************************************)
EXTENDS Integers

CONSTANTS
    Users,
    Schedules,
    TotalSlots   (* the seats of each schedule, a function to Int *)

VARIABLES
    today,   (* the calendar day                                *)
    round,   (* how often each schedule was opened              *)
    sold     (* the seats handed out so far, with round and day *)

ledgerVars == <<today, round, sold>>

Tickets == [user : Users, schedule : Schedules, seat : Int, round : Nat, day : Nat]

LedgerInit ==
    /\ today = 1
    /\ round = [s \in Schedules |-> 0]
    /\ sold = {}

Open(s) ==
    /\ round' = [round EXCEPT ![s] = @ + 1]
    /\ UNCHANGED <<today, sold>>

\* User u gets some seat of s that nobody got in this round.
Sell(u, s) ==
    \E n \in 1 .. TotalSlots[s] :
        /\ round[s] > 0
        /\ \A t \in sold : t.schedule = s /\ t.round = round[s] => t.seat # n
        /\ \A t \in sold : t.schedule = s /\ t.user = u => t.day # today
        /\ sold' = sold \cup {[user |-> u, schedule |-> s, seat |-> n,
                               round |-> round[s], day |-> today]}
        /\ UNCHANGED <<today, round>>

DayPasses ==
    /\ today' = today + 1
    /\ UNCHANGED <<round, sold>>

LedgerNext ==
    \/ \E s \in Schedules : Open(s)
    \/ \E u \in Users, s \in Schedules : Sell(u, s)
    \/ DayPasses

LedgerSpec == LedgerInit /\ [][LedgerNext]_ledgerVars
=============================================================================
