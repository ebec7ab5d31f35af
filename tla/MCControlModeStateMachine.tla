--------------------- MODULE MCControlModeStateMachine ---------------------
(* The shipped wiring of the three modes for TLC.                          *)
EXTENDS ControlModeStateMachine, TLC

AllModes == {"torque", "speed", "position"}

\* No external estimator: position control cannot be calibrated.
Shipped ==
    "torque" :> "unused" @@ "speed" :> "own" @@ "position" :> "missing"
=============================================================================
