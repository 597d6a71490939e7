--------------------------- MODULE MCSmartReserve ---------------------------
(***************************************************************************)
(* Small instances of SmartReserve for TLC: a schedule with two seats and  *)
(* one with a single seat.                                                 *)
(***************************************************************************)
EXTENDS SmartReserve, TLC

CONSTANTS s1, s2

MCSchedules == {s1, s2}
MCTotalSlots == (s1 :> 2) @@ (s2 :> 1)
=============================================================================
