------------------------------ MODULE TestBoard ------------------------------
(***************************************************************************)
(* The hardware test firmware on its board: the terminal's commands run    *)
(* once the platform's constructor has gone on, reset the processor, force *)
(* a fault and read back what the constructor found, and every reset takes *)
(* the terminal's memory with it.                                          *)
(***************************************************************************)
EXTENDS FaultRecord, HardwareTestTerminal

boardVars == <<faultVars, terminalVars>>

BoardTypeOK == FaultTypeOK /\ TerminalTypeOK

BoardInit == FaultInit /\ TerminalInit

\* The terminal is built when the constructor goes on, and measures at once.
BuildTerminal ==
    /\ cpu = "running" /\ requests = 0
    /\ StartAdc /\ UNCHANGED faultVars

BoardNext ==
    \/ FaultSteps /\ UNCHANGED terminalVars
    \/ Restarts /\ TerminalReset
    \/ BuildTerminal
    \/ cpu = "running" /\ TerminalSteps /\ UNCHANGED faultVars
=============================================================================
