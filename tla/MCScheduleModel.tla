-------------------------- MODULE MCScheduleModel ---------------------------
(***************************************************************************)
(* Small instances of ScheduleModel for TLC.                               *)
(***************************************************************************)
EXTENDS ScheduleModel
=============================================================================
