--------------------------- MODULE MotorLifecycle ---------------------------
(***************************************************************************)
(* What the firmware promises about a motor, without saying how: the motor *)
(* is only enabled from Ready, Ready is only reached by setting the        *)
(* controllers from a calibration record, every calibration ends in an     *)
(* answer to the one command that started it, and an abort or a fault      *)
(* withdraws whatever command was pending.                                 *)
(***************************************************************************)
VARIABLES
    state,           \* Idle, Calibrating, Ready, Enabled or Fault
    pendingCommand,  \* the command whose caller still waits for a result
    tuned            \* the controllers were set from a record since power-on

lifecycleVars == <<state, pendingCommand, tuned>>

Init == state = "Idle" /\ pendingCommand = "none" /\ tuned = FALSE

Stopped == state \in {"Idle", "Ready"}

Calibrate ==
    /\ Stopped
    /\ pendingCommand = "none"
    /\ state' = "Calibrating"
    /\ pendingCommand' = "calibrate"
    /\ UNCHANGED tuned

\* The end of a calibration answers its command; the boot load has none.
BecomeReady ==
    /\ \/ state = "Calibrating" /\ pendingCommand' = "none"
       \/ state = "Idle" /\ UNCHANGED pendingCommand
    /\ state' = "Ready"
    /\ tuned' = TRUE

Enable ==
    /\ state = "Ready" /\ tuned
    /\ state' = "Enabled"
    /\ UNCHANGED <<pendingCommand, tuned>>

Disable ==
    /\ state = "Enabled"
    /\ state' = "Ready"
    /\ UNCHANGED <<pendingCommand, tuned>>

Clear ==
    /\ Stopped
    /\ pendingCommand = "none"
    /\ pendingCommand' = "clear"
    /\ UNCHANGED <<state, tuned>>

Cleared ==
    /\ Stopped
    /\ pendingCommand = "clear"
    /\ state' = "Idle"
    /\ pendingCommand' = "none"
    /\ UNCHANGED tuned

EnterFault ==
    /\ state' = "Fault"
    /\ pendingCommand' = "none"
    /\ UNCHANGED tuned

ClearFault ==
    /\ state = "Fault"
    /\ state' = "Idle"
    /\ UNCHANGED <<pendingCommand, tuned>>

\* An emergency stop takes an active motor to Idle and leaves the rest.
Abort ==
    /\ state' = IF state \in {"Enabled", "Calibrating"} THEN "Idle" ELSE state
    /\ pendingCommand' = "none"
    /\ UNCHANGED tuned

PowerCycle == state' = "Idle" /\ pendingCommand' = "none" /\ tuned' = FALSE

Next ==
    \/ Calibrate \/ BecomeReady \/ Enable \/ Disable \/ Clear \/ Cleared
    \/ EnterFault \/ ClearFault \/ Abort \/ PowerCycle

Spec == Init /\ [][Next]_lifecycleVars
=============================================================================
