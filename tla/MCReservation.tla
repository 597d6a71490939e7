---------------------------- MODULE MCReservation ---------------------------
(***************************************************************************)
(* Small instances of Reservation for TLC: a schedule with two seats, one  *)
(* with a single seat and one whose total is zero.                         *)
(***************************************************************************)
EXTENDS Reservation, TLC

CONSTANTS s1, s2, s3

MCSchedules == {s1, s2, s3}
MCTotalSlots == (s1 :> 2) @@ (s2 :> 1) @@ (s3 :> 0)

UserSymmetry == Permutations(Users)
=============================================================================
