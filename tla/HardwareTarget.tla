--------------------------- MODULE HardwareTarget ---------------------------
(***************************************************************************)
(* What runs on, against and in place of the target: the control loops and *)
(* their interrupts, the hardware test firmware on its board, the serial   *)
(* and the CAN side of the session that tests it, and the simulator with   *)
(* its scopes.  These are separate programs that share no state, so a      *)
(* behaviour follows one of them; the state of the others stays at one of  *)
(* its initial values.                                                     *)
(***************************************************************************)
EXTENDS FocLoops, TestBoard, Simulator, Scope, HilSession, HilRun

VARIABLE part    \* the program this behaviour follows

targetVars == <<loopVars, boardVars, simVars, scopeVars, hilVars, runVars, part>>

TargetTypeOK ==
    /\ LoopTypeOK /\ BoardTypeOK /\ SimTypeOK /\ ScopeTypeOK /\ HilTypeOK
    /\ RunTypeOK

Smallest(S) == CHOOSE n \in S : \A m \in S : n <= m

TargetInit ==
    /\ part \in {"loops", "board", "simulator", "scope",
                "serial", "can", "run"}
    /\ LoopInit /\ BoardInit /\ SimInit /\ ScopeInit /\ HilInit /\ RunInit
    /\ part # "loops" => control = "torque"
    /\ part # "simulator" => limit = Smallest(Limits)
    /\ part # "scope" => totalSamples = Smallest(Widths)

TargetNext ==
    /\ UNCHANGED part
    /\ part = "run" \/ UNCHANGED runVars
    /\ \/ /\ part = "loops" /\ LoopNext
          /\ UNCHANGED <<boardVars, simVars, scopeVars, hilVars>>
       \/ /\ part = "board" /\ BoardNext
          /\ UNCHANGED <<loopVars, simVars, scopeVars, hilVars>>
       \/ /\ part = "simulator" /\ SimNext
          /\ UNCHANGED <<loopVars, boardVars, scopeVars, hilVars>>
       \/ /\ part = "scope" /\ ScopeNext
          /\ UNCHANGED <<loopVars, boardVars, simVars, hilVars>>
       \/ /\ part = "serial" /\ SerialNext
          /\ UNCHANGED <<loopVars, boardVars, simVars, scopeVars>>
       \/ /\ part = "can" /\ CanNext
          /\ UNCHANGED <<loopVars, boardVars, simVars, scopeVars>>
       \/ /\ part = "run" /\ RunNext
          /\ UNCHANGED <<loopVars, boardVars, simVars, scopeVars, hilVars>>

TargetSpec == TargetInit /\ [][TargetNext]_targetVars
=============================================================================
