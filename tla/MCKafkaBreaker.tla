--------------------------- MODULE MCKafkaBreaker ---------------------------
(***************************************************************************)
(* Small instances of KafkaBreaker for TLC.  The runs check liveness, so   *)
(* they do without the symmetry of the requests.                           *)
(***************************************************************************)
EXTENDS KafkaBreaker
=============================================================================
