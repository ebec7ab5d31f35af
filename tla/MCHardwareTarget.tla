-------------------------- MODULE MCHardwareTarget --------------------------
(***************************************************************************)
(* The instance for TLC: a publication every second sample, two faults and *)
(* two resets, a queue of one measurement, a simulation of one, of three   *)
(* or of no limited number of cycles, a ring of four samples seen through  *)
(* a narrow and a wide window, and two lines typed in a session.           *)
(***************************************************************************)
EXTENDS HardwareTarget
=============================================================================
