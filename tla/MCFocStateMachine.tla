------------------------- MODULE MCFocStateMachine -------------------------
(* Wirings of the state machine for TLC.                                   *)
EXTENDS FocStateMachine, TLC

\* Every wiring the repository builds, in its applications and its tests.
AllModes == {"torque", "speed", "position"}
TorqueOnly == {"torque"}
TorqueBench == "torque" :> "unused"

TestBench ==
    "torque" :> "unused" @@ "speed" :> "own" @@ "position" :> "override"

\* The shipped application: position control has no estimator.
Shipped ==
    "torque" :> "unused" @@ "speed" :> "own" @@ "position" :> "missing"

AllDisturbances == {"emergencyStop", "fault", "restart"}
=============================================================================
