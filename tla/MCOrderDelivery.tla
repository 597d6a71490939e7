--------------------------- MODULE MCOrderDelivery --------------------------
(***************************************************************************)
(* Small instances of OrderDelivery for TLC.                               *)
(***************************************************************************)
EXTENDS OrderDelivery, TLC

OneOfEach == [k \in FaultKinds |-> 1]
OnlyDrainExpires == [k \in FaultKinds |-> IF k = "drain" THEN 1 ELSE 0]
=============================================================================
