-------------------------- MODULE MCHardwareBridge --------------------------
(***************************************************************************)
(* The instance for TLC: a screen of three rows by two columns, five       *)
(* drawing events with their renditions, two connections of the window,    *)
(* and two clients of the server with two sends or frames between them.     *)
(***************************************************************************)
EXTENDS HardwareBridge
=============================================================================
