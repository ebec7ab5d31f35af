----------------------- MODULE ControlModeStateMachine -----------------------
(***************************************************************************)
(* ControlModeStateMachine: owns the one active state machine, persists    *)
(* the selected mode and rebuilds the machine in the new mode.  The CAN    *)
(* bridge is its only caller of Select and keeps its own callback for the  *)
(* same time.                                                              *)
(*                                                                         *)
(* The three machines live in one variant, so they share one address and   *)
(* their common base: a callback registered by a machine that is gone acts *)
(* on the machine that has taken its place.                                *)
(***************************************************************************)
EXTENDS FocStateMachine

VARIABLES
    defaultMode,      \* configData.defaultControlMode
    storedMode,       \* what the configuration region holds, Blank if invalid
    pendingSelect,    \* pendingSelectCallback is set and SaveConfig in flight
    pendingSelectMode,
    previousDefault,  \* previousDefaultControlMode
    selectAnswer      \* the last result passed to a caller of Select

selectVars == <<defaultMode, storedMode, pendingSelect, pendingSelectMode,
                previousDefault, selectAnswer>>
cmVars == <<vars, selectVars>>

\* Mutant: an invalid record is not replaced by the default.
ModeAsRead(raw) == raw

\* ControlModeFromRaw, and LoadConfig's default for an invalid record.
ModeOf(raw) == IF raw = Blank THEN "torque" ELSE raw

\* One override serves both outer-loop modes; without it speed control has
\* its own estimator and position control none.
ASSUME SharedWiringAssumption ==
    /\ "torque" \in Modes
    /\ ~\E m, n \in Modes :
          MechIdent[m] = "override" /\ MechIdent[n] \in {"own", "missing"}

SelectTypeOK ==
    /\ TypeOK
    /\ defaultMode \in Modes
    /\ storedMode \in Modes \cup {Blank}
    /\ pendingSelect \in BOOLEAN
    /\ pendingSelectMode \in Modes
    /\ previousDefault \in Modes
    /\ selectAnswer \in {"none", "ok", "busy", "nvmFailed"}

CMInit ==
    /\ Init
    /\ mode = "torque"
    /\ defaultMode = "torque"
    /\ storedMode = Blank
    /\ pendingSelect = FALSE
    /\ pendingSelectMode = "torque"
    /\ previousDefault = "torque"
    /\ selectAnswer = "none"

\* really_assert: a second request while one is pending ends the program.
Select ==
    /\ ~pendingSelect
    /\ IF IsStopped
       THEN \E m \in Modes :
               /\ previousDefault' = defaultMode
               /\ defaultMode' = m
               /\ pendingSelectMode' = m
               /\ pendingSelect' = TRUE
               /\ UNCHANGED selectAnswer
       ELSE /\ selectAnswer' = "busy"
            /\ UNCHANGED <<previousDefault, defaultMode, pendingSelectMode,
                           pendingSelect>>
    /\ UNCHANGED <<storedMode, vars>>

\* CmdEmergencyStop and the destructor of the old runner stop the motor, the
\* constructor of the new one registers the control loop, to which a
\* conversion in flight is delivered.
StopAndRegister(m) ==
    /\ pwm' = FALSE
    /\ sampler' = "foc"
    /\ UNCHANGED converting

\* The speed machine's own estimator dies with it, an external one does not.
DestroyEstimator ==
    IF MechIdent[mode] = "own"
    THEN onMechanicalDone' = NoRun /\ timeoutTimer' = FALSE
    ELSE UNCHANGED mechanicalVars

Activate(m) ==
    /\ StopAndRegister(m)
    /\ DestroyEstimator
    /\ onIsValidDone' = TRUE               \* CheckNvmOnBoot
    /\ mode' = m
    /\ Become("Idle")
    /\ CompletePendingCommand("abortedByFault")
    /\ calibrationData' = DefaultRecord
    /\ applied' = Blank
    /\ onlineGains' = {}
    /\ lastFaultCode' = "hardwareFault"
    /\ UNCHANGED <<electricalVars, onAlignmentDone, stored, saving,
                   onCalibrationDone, run>>

\* OnSaveConfigDone does not look at the machine's state again.
SelectSaved ==
    /\ pendingSelect
    /\ storedMode' = defaultMode
    /\ Activate(pendingSelectMode)
    /\ pendingSelect' = FALSE
    /\ selectAnswer' = "ok"
    /\ UNCHANGED <<defaultMode, pendingSelectMode, previousDefault>>

\* Mutant: the default in RAM is not rolled back.
NotRolledBack == UNCHANGED defaultMode

RollBack == defaultMode' = previousDefault

\* Mutants: a failed write answers ok, or does not answer.
ReportOk == pendingSelect' = FALSE /\ selectAnswer' = "ok"
ReportNothing == UNCHANGED <<pendingSelect, selectAnswer>>

ReportNvmFailed == pendingSelect' = FALSE /\ selectAnswer' = "nvmFailed"

\* The read-back differs: the region is torn, or only the read was wrong.
SelectNotSaved ==
    /\ pendingSelect
    /\ storedMode' \in {Blank, defaultMode}
    /\ RollBack
    /\ ReportNvmFailed
    /\ UNCHANGED <<pendingSelectMode, previousDefault, vars>>

\* A power cycle may catch the configuration write half way.
SelectRestart ==
    /\ "restart" \in Disturbances
    /\ storedMode' \in IF pendingSelect THEN {storedMode, Blank, defaultMode}
                       ELSE {storedMode}
    /\ defaultMode' = ModeOf(storedMode')
    /\ PowerUp(defaultMode')
    /\ pendingSelect' = FALSE
    /\ pendingSelectMode' = "torque"
    /\ previousDefault' = "torque"
    /\ selectAnswer' = "none"

MachineSteps ==
    /\ Commands \/ FaultNotified \/ Completions \/ Sampling
    /\ UNCHANGED selectVars

CMNext ==
    \/ MachineSteps
    \/ Select \/ SelectSaved \/ SelectNotSaved \/ SelectRestart

CMSpec == CMInit /\ [][CMNext]_cmVars

CMFairSpec == CMSpec /\ WF_cmVars(SelectSaved \/ SelectNotSaved)

-----------------------------------------------------------------------------
(* Properties.                                                             *)

\* Between selections the default in RAM, from which the next selection is
\* written and to which a failed one returns, names the active machine
\* (Select, OnSaveConfigDone).
ActiveIsDefault == ~pendingSelect => defaultMode = mode

\* A selection answered ok survives a power cycle: until the next request
\* the region holds the active mode.
AcknowledgedModeIsStored ==
    ~pendingSelect /\ selectAnswer = "ok" => storedMode = mode

\* Every request is answered.
SelectIsAnswered == pendingSelect ~> ~pendingSelect

-----------------------------------------------------------------------------
(* What the design documents promise and the run refutes.                  *)

\* architecture/system.md: the mode of an enabled motor is never switched.
EnabledKeepsMode == [][state = "Enabled" => mode' = mode]_cmVars
=============================================================================
