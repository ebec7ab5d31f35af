-------------------------- MODULE FocStateMachine --------------------------
(***************************************************************************)
(* FocStateMachineCommon and its three variants, with the services they    *)
(* drive: commands from the operator, the chain of calibration callbacks,  *)
(* the boot-time load, fault notifications and power cycles.               *)
(*                                                                         *)
(* Every handler runs to completion on the event loop, so an action is a   *)
(* whole handler: a service's completion together with the state machine's *)
(* callback and whatever service call that callback makes next.            *)
(***************************************************************************)
EXTENDS ElectricalIdentification, MotorAlignment, MechanicalIdentification,
        CalibrationStore

CONSTANTS
    Modes,              \* control modes the firmware may be configured for
    MechIdent,          \* mode -> how frictionAndInertia is measured
    FaultCodes,         \* codes the fault notifier may deliver
    Disturbances,       \* which of the unsolicited events may happen
    CommandsAfterBoot   \* TRUE: no command is given before the boot load ends

\* "unused": torque control ends with the alignment.  "own": the speed state
\* machine's own estimator.  "override": one supplied from outside.
\* "missing": position control wired without an override.
ASSUME WiringAssumption ==
    /\ Modes \subseteq {"torque", "speed", "position"}
    /\ MechIdent \in [Modes -> {"unused", "own", "override", "missing"}]
    /\ \A m \in Modes : m = "torque" <=> MechIdent[m] = "unused"

ASSUME EnvironmentAssumption ==
    /\ Disturbances \subseteq {"emergencyStop", "fault", "restart"}
    /\ CommandsAfterBoot \in BOOLEAN

VARIABLES
    mode,             \* the active variant, fixed by the stored configuration
    state,            \* currentState
    step,             \* Calibrating::step, "none" in the other states
    pendingData,      \* Calibrating::pendingData
    calibrationData,  \* the record in RAM
    applied,          \* the record pole pairs, offset and gains were set from
    onlineGains,      \* loops since re-tuned from online estimates
    pendingCommand,   \* which command owns pendingCommandCallback
    answer,           \* the last result passed to it
    lastFaultCode,
    run               \* history: calibrations started so far

commandVars == <<pendingCommand, answer>>
recordVars == <<calibrationData, applied, onlineGains>>
smVars == <<mode, state, step, pendingData, calibrationData, applied,
            onlineGains, pendingCommand, answer, lastFaultCode, run>>
serviceVars == <<electricalVars, onAlignmentDone, mechanicalVars>>
vars == <<inverterVars, serviceVars, storeVars, smVars>>

States == {"Idle", "Calibrating", "Ready", "Enabled", "Fault"}
Steps == {"polePairs", "resistanceAndInductance", "alignment",
          "frictionAndInertia"}
Results == {"ok", "calibrationFailed", "nvmFailed", "abortedByFault"}
Codes == FaultCodes \cup {"calibrationFailed", "hardwareFault"}
Loops == {"current", "speed"}

TypeOK ==
    /\ InverterTypeOK /\ ElectricalTypeOK /\ AlignmentTypeOK
    /\ MechanicalTypeOK /\ StoreTypeOK
    /\ mode \in Modes
    /\ state \in States
    /\ step \in Steps \cup {"none"}
    /\ pendingData \in Records
    /\ calibrationData \in Records
    /\ applied \in Records \cup {Blank}
    /\ onlineGains \in SUBSET Loops
    /\ pendingCommand \in {"none", "calibrate", "clear"}
    /\ answer \in Results \cup {"none"}
    /\ lastFaultCode \in Codes
    /\ run \in 0 .. MaxRuns

Init ==
    /\ InverterInit /\ ElectricalInit /\ AlignmentInit /\ MechanicalInit
    /\ stored = Blank
    /\ saving = DefaultRecord
    /\ onCalibrationDone = "none"
    /\ onIsValidDone = TRUE               \* CheckNvmOnBoot
    /\ mode \in Modes
    /\ state = "Idle"
    /\ step = "none"
    /\ pendingData = DefaultRecord
    /\ calibrationData = DefaultRecord
    /\ applied = Blank
    /\ onlineGains = {}
    /\ pendingCommand = "none"
    /\ answer = "none"
    /\ lastFaultCode = "hardwareFault"
    /\ run = 0

-----------------------------------------------------------------------------
(* The state machine's own steps, as effects on its variables.             *)

IsStopped == state \in {"Idle", "Ready"}

\* Mutant: only a running control loop counts as active.
ActiveWhenEnabled == state = "Enabled"
IsActive == state \in {"Enabled", "Calibrating"}

HasPendingCommand == pendingCommand # "none"

\* Mutant: a callback accepts any step of a calibration.
IsCalibratingAnyStep(expected) == state = "Calibrating"
IsCalibrating(expected) == state = "Calibrating" /\ step = expected

\* Mutant: enabling asks for a stopped machine instead of a ready one.
EnableWhenStopped == IsStopped
MayEnable == state = "Ready"

RecordValid == stored # Blank

\* Leaves the current variant of State; its members die with it.
Become(next) ==
    /\ state' = next
    /\ step' = "none"
    /\ pendingData' = DefaultRecord

\* Mutant: the callback is called but not reset.
CompleteWithoutReset(result) ==
    /\ pendingCommand' = pendingCommand
    /\ answer' = IF HasPendingCommand THEN result ELSE answer

CompletePendingCommand(result) ==
    /\ pendingCommand' = "none"
    /\ answer' = IF HasPendingCommand THEN result ELSE answer

\* Answers with result, then enters Fault; the caller accounts for the Stop.
FailWith(result, code) ==
    /\ Become("Fault")
    /\ CompletePendingCommand(result)
    /\ lastFaultCode' = code
    /\ UNCHANGED <<mode, run, recordVars>>

\* Mutant: controllers that were set once are not set again.
ApplyOnce(record) ==
    /\ applied' = IF applied = Blank THEN record ELSE applied
    /\ onlineGains' = {}

\* Sets pole pairs, encoder zero and the gains of every loop from record.
Apply(record) ==
    /\ applied' = record
    /\ onlineGains' = {}

ApplyAndEnterReady(record) ==
    /\ Apply(record)
    /\ Become("Ready")
    /\ calibrationData' = record
    /\ UNCHANGED <<mode, run, lastFaultCode>>

\* A callback stores its value in pendingData and moves to the next step.
Advance(next, field, from) ==
    /\ step' = next
    /\ pendingData' = [pendingData EXCEPT ![field] = from]
    /\ UNCHANGED <<mode, state, recordVars, commandVars, lastFaultCode, run>>

-----------------------------------------------------------------------------
(* Commands.  A rejected command answers its caller and changes nothing.   *)

CommandsAccepted ==
    CommandsAfterBoot => ~onIsValidDone /\ onCalibrationDone # "load"

CmdCalibrate ==
    /\ CommandsAccepted
    /\ IsStopped
    /\ ~HasPendingCommand
    /\ run < MaxRuns
    /\ run' = run + 1
    /\ state' = "Calibrating"
    /\ step' = "polePairs"
    /\ pendingData' = DefaultRecord
    /\ pendingCommand' = "calibrate"
    /\ EstimateNumberOfPolePairs(run')
    /\ UNCHANGED <<converting, onResistanceDone, onAlignmentDone, mechanicalVars,
                   storeVars, mode, recordVars, answer, lastFaultCode>>

\* PrepareForEnabled only hands a constant to the online estimator.
CmdEnable ==
    /\ CommandsAccepted
    /\ MayEnable
    /\ Start
    /\ Become("Enabled")
    /\ UNCHANGED <<converting, serviceVars, storeVars, mode, recordVars,
                   commandVars, lastFaultCode, run>>

CmdDisable ==
    /\ state = "Enabled"
    /\ Stop
    /\ Become("Ready")
    /\ UNCHANGED <<converting, serviceVars, storeVars, mode, recordVars,
                   commandVars, lastFaultCode, run>>

CmdClearFault ==
    /\ state = "Fault"
    /\ Become("Idle")
    /\ UNCHANGED <<inverterVars, serviceVars, storeVars, mode, recordVars,
                   commandVars, lastFaultCode, run>>

CmdClearCalibration ==
    /\ CommandsAccepted
    /\ IsStopped
    /\ ~HasPendingCommand
    /\ pendingCommand' = "clear"
    /\ RequestStore("invalidate")
    /\ UNCHANGED onIsValidDone
    /\ UNCHANGED <<inverterVars, serviceVars, mode, state, step, pendingData,
                   recordVars, answer, lastFaultCode, run>>

CmdEmergencyStop ==
    /\ "emergencyStop" \in Disturbances
    /\ Stop
    /\ IF IsActive
       THEN Become("Idle")
       ELSE UNCHANGED <<state, step, pendingData>>
    /\ CompletePendingCommand("abortedByFault")
    /\ UNCHANGED <<converting, serviceVars, storeVars, mode, recordVars,
                   lastFaultCode, run>>

\* Outer-loop modes only: each loop is re-tuned if its estimates are physical.
ApplyOnlineEstimates ==
    /\ state = "Enabled"
    /\ mode # "torque"
    /\ \E loops \in SUBSET Loops : onlineGains' = onlineGains \cup loops
    /\ UNCHANGED <<inverterVars, serviceVars, storeVars, mode, state, step,
                   pendingData, calibrationData, applied, commandVars,
                   lastFaultCode, run>>

-----------------------------------------------------------------------------
(* Events nobody asked for.                                                *)

\* EnterFault from the notifier: a stopped machine does not call Stop.
FaultNotified ==
    /\ "fault" \in Disturbances
    /\ \E code \in FaultCodes : FailWith("abortedByFault", code)
    /\ pwm' = (pwm /\ ~IsActive)
    /\ UNCHANGED <<sampler, converting, serviceVars, storeVars>>

\* RAM and hardware start over in mode m, the region keeps what it holds.
PowerUp(m) ==
    /\ pwm' = FALSE
    /\ sampler' = "foc"
    /\ converting' = FALSE
    /\ onPolePairsDone' = NoRun
    /\ onResistanceDone' = NoRun
    /\ currentSampleIndex' = 0
    /\ settleTimer' = "none"
    /\ onAlignmentDone' = NoRun
    /\ onMechanicalDone' = NoRun
    /\ timeoutTimer' = FALSE
    /\ stored' \in AfterPowerCycle
    /\ saving' = DefaultRecord
    /\ onCalibrationDone' = "none"
    /\ onIsValidDone' = TRUE
    /\ Become("Idle")
    /\ calibrationData' = DefaultRecord
    /\ applied' = Blank
    /\ onlineGains' = {}
    /\ pendingCommand' = "none"
    /\ answer' = "none"
    /\ lastFaultCode' = "hardwareFault"
    /\ mode' = m
    /\ UNCHANGED run

Restart == "restart" \in Disturbances /\ PowerUp(mode)

-----------------------------------------------------------------------------
(* Boot: the validity query, then the load into calibrationData.           *)

BootCheckDone ==
    /\ onIsValidDone
    /\ onIsValidDone' = FALSE
    /\ \E valid \in ValidityAnswers :
          IF valid /\ state = "Idle"
          THEN RequestStore("load")
          ELSE UNCHANGED <<stored, saving, onCalibrationDone>>
    /\ UNCHANGED <<inverterVars, serviceVars, smVars>>

\* The store writes the output record before it reports, in any state.
BootLoadDone ==
    /\ RecordValid
    /\ StoreDone("load", stored)
    /\ IF state = "Idle"
       THEN ApplyAndEnterReady(stored) /\ UNCHANGED commandVars
       ELSE /\ calibrationData' = stored
            /\ UNCHANGED <<mode, state, step, pendingData, applied,
                           onlineGains, commandVars, lastFaultCode, run>>
    /\ UNCHANGED <<inverterVars, serviceVars>>

BootLoadFailed ==
    /\ StoreDone("load", stored)
    /\ UNCHANGED <<inverterVars, serviceVars, smVars>>

-----------------------------------------------------------------------------
(* Completions of the calibration services.  A callback that finds another *)
(* step than the one it was made for is dropped.                           *)

CalibrationStepFails ==
    /\ FailWith("calibrationFailed", "calibrationFailed")
    /\ Stop

PolePairsStep ==
    /\ NextElectricalAngle
    /\ UNCHANGED <<converting, onAlignmentDone, mechanicalVars, storeVars, smVars>>

PolePairsDropped ==
    /\ ~IsCalibrating("polePairs")
    /\ settleTimer' = "none"
    /\ Stop
    /\ UNCHANGED <<onResistanceDone, smVars>>

PolePairsFailed ==
    /\ IsCalibrating("polePairs")
    /\ settleTimer' = "none"
    /\ CalibrationStepFails
    /\ UNCHANGED onResistanceDone

PolePairsIdentified ==
    /\ IsCalibrating("polePairs")
    /\ Advance("resistanceAndInductance", "polePairs", onPolePairsDone)
    /\ EstimateResistanceAndInductance(run)

PolePairsDone ==
    /\ SweepOver
    /\ currentSampleIndex' = currentSampleIndex + 1
    /\ onPolePairsDone' = NoRun
    /\ PolePairsDropped \/ PolePairsFailed \/ PolePairsIdentified
    /\ UNCHANGED <<converting, onAlignmentDone, mechanicalVars, storeVars>>

ResistanceSettled ==
    /\ ApplyTestVoltage
    /\ UNCHANGED <<converting, onAlignmentDone, mechanicalVars, storeVars, smVars>>

\* Mutant: the motor is stopped only for a caller that still waits.
ResistanceDroppedRunning ==
    /\ ~IsCalibrating("resistanceAndInductance")
    /\ UNCHANGED <<pwm, sampler, onAlignmentDone, smVars>>

ResistanceDropped ==
    /\ ~IsCalibrating("resistanceAndInductance")
    /\ Stop
    /\ UNCHANGED <<onAlignmentDone, smVars>>

ResistanceFailed ==
    /\ IsCalibrating("resistanceAndInductance")
    /\ CalibrationStepFails
    /\ UNCHANGED onAlignmentDone

ResistanceIdentified ==
    /\ IsCalibrating("resistanceAndInductance")
    /\ Advance("alignment", "resistance", onResistanceDone)
    /\ IF AlignmentBusy
       THEN Stop /\ UNCHANGED onAlignmentDone
       ELSE ForceAlignment(run)

ResistanceDone ==
    /\ SamplesAnalyzed
    /\ onResistanceDone' = NoRun
    /\ ResistanceDropped \/ ResistanceFailed \/ ResistanceIdentified
    /\ UNCHANGED <<onPolePairsDone, currentSampleIndex, settleTimer,
                   mechanicalVars, storeVars>>

AlignmentStray ==
    /\ StrayAlignmentSample
    /\ UNCHANGED <<electricalVars, mechanicalVars, storeVars, smVars>>

AlignmentDropped ==
    /\ ~IsCalibrating("alignment")
    /\ Stop
    /\ UNCHANGED <<mechanicalVars, storeVars, smVars>>

AlignmentFailed ==
    /\ IsCalibrating("alignment")
    /\ CalibrationStepFails
    /\ UNCHANGED <<mechanicalVars, storeVars>>

\* Torque control saves at once.
AlignedAndSaved ==
    /\ MechIdent[mode] = "unused"
    /\ Advance(step, "alignment", onAlignmentDone)
    /\ SaveCalibration(pendingData')
    /\ Stop
    /\ UNCHANGED mechanicalVars

\* Position control without an estimator: EnterFault answers the command.
AlignedWithoutEstimator ==
    /\ MechIdent[mode] = "missing"
    /\ FailWith("abortedByFault", "calibrationFailed")
    /\ Stop
    /\ UNCHANGED <<mechanicalVars, storeVars>>

\* The service's own implementation, with the alignment's Stop in effect.
AlignedForOwnEstimator ==
    /\ MechIdent[mode] = "own"
    /\ Advance("frictionAndInertia", "alignment", onAlignmentDone)
    /\ EstimateFrictionAndInertia(run)
    /\ pwm' = FALSE
    /\ UNCHANGED storeVars

AlignedForOverride ==
    /\ MechIdent[mode] = "override"
    /\ Advance("frictionAndInertia", "alignment", onAlignmentDone)
    /\ onMechanicalDone' = run
    /\ Stop
    /\ UNCHANGED <<timeoutTimer, storeVars>>

AlignmentDone ==
    /\ AlignmentOver
    /\ AlignmentBusy
    /\ onAlignmentDone' = NoRun
    /\ \/ AlignmentDropped
       \/ AlignmentFailed
       \/ IsCalibrating("alignment") /\ AlignedAndSaved
       \/ IsCalibrating("alignment") /\ AlignedWithoutEstimator
       \/ IsCalibrating("alignment") /\ AlignedForOwnEstimator
       \/ IsCalibrating("alignment") /\ AlignedForOverride
    /\ UNCHANGED electricalVars

\* An external estimator answers when it likes and owns no timer of ours.
OverrideAnswers ==
    /\ MechIdent[mode] = "override"
    /\ onMechanicalDone # NoRun
    /\ UNCHANGED <<sampler, converting, timeoutTimer>>

MechanicalDropped ==
    /\ ~IsCalibrating("frictionAndInertia")
    /\ FitConverged \/ FitTimedOut \/ OverrideAnswers
    /\ UNCHANGED <<pwm, storeVars, smVars>>

MechanicalFailed ==
    /\ IsCalibrating("frictionAndInertia")
    /\ FitTimedOut \/ OverrideAnswers
    /\ FailWith("calibrationFailed", "calibrationFailed")
    /\ pwm' = FALSE
    /\ UNCHANGED storeVars

MechanicalIdentified ==
    /\ IsCalibrating("frictionAndInertia")
    /\ FitConverged \/ OverrideAnswers
    /\ Advance(step, "mechanical", onMechanicalDone)
    /\ SaveCalibration(pendingData')
    /\ UNCHANGED pwm

MechanicalDone ==
    /\ onMechanicalDone' = NoRun
    /\ MechanicalDropped \/ MechanicalFailed \/ MechanicalIdentified
    /\ UNCHANGED <<electricalVars, onAlignmentDone>>

-----------------------------------------------------------------------------
(* Completions of the store.                                               *)

\* The callback looks for any Calibrating state and applies the pendingData
\* it finds there, not the record that was saved.
SavedAndReady ==
    /\ state = "Calibrating"
    /\ ApplyAndEnterReady(pendingData)
    /\ CompletePendingCommand("ok")
    /\ UNCHANGED inverterVars

SavedTooLate ==
    /\ state # "Calibrating"
    /\ UNCHANGED <<inverterVars, smVars>>

SaveDone ==
    /\ StoreDone("save", saving)
    /\ SavedAndReady \/ SavedTooLate
    /\ UNCHANGED serviceVars

\* The read-back differs: the region is torn, or only the read was wrong.
SaveFailed ==
    /\ \E content \in {Blank, saving} : StoreDone("save", content)
    /\ IF state = "Calibrating"
       THEN /\ FailWith("nvmFailed", "calibrationFailed")
            /\ Stop /\ UNCHANGED converting
       ELSE UNCHANGED <<inverterVars, smVars>>
    /\ UNCHANGED serviceVars

InvalidationExpected == HasPendingCommand /\ IsStopped

\* Mutant: the record is cleared, the state is not.
ClearedButReady ==
    /\ StoreDone("invalidate", Blank)
    /\ IF InvalidationExpected
       THEN /\ calibrationData' = DefaultRecord
            /\ CompletePendingCommand("ok")
            /\ UNCHANGED <<mode, state, step, pendingData, applied,
                           onlineGains, lastFaultCode, run>>
       ELSE UNCHANGED smVars
    /\ UNCHANGED <<inverterVars, serviceVars>>

InvalidateDone ==
    /\ StoreDone("invalidate", Blank)
    /\ IF InvalidationExpected
       THEN /\ Become("Idle")
            /\ calibrationData' = DefaultRecord
            /\ CompletePendingCommand("ok")
            /\ UNCHANGED <<mode, applied, onlineGains, lastFaultCode, run>>
       ELSE UNCHANGED smVars
    /\ UNCHANGED <<inverterVars, serviceVars>>

\* Mutant: the status of the erase is not looked at.
InvalidateStatusIgnored ==
    /\ \E content \in {Blank, stored} : StoreDone("invalidate", content)
    /\ IF InvalidationExpected
       THEN /\ Become("Idle")
            /\ calibrationData' = DefaultRecord
            /\ CompletePendingCommand("ok")
            /\ UNCHANGED <<mode, applied, onlineGains, lastFaultCode, run>>
       ELSE UNCHANGED smVars
    /\ UNCHANGED <<inverterVars, serviceVars>>

InvalidateFailed ==
    /\ \E content \in {Blank, stored} : StoreDone("invalidate", content)
    /\ IF InvalidationExpected
       THEN FailWith("nvmFailed", "hardwareFault")
       ELSE UNCHANGED smVars
    /\ UNCHANGED <<inverterVars, serviceVars>>

-----------------------------------------------------------------------------
(* The carrier, and the samples that no service ends anything with.        *)

Sampling ==
    /\ Convert \/ ControlLoopSample \/ LastSampleCounted
    /\ UNCHANGED <<serviceVars, storeVars, smVars>>

-----------------------------------------------------------------------------
Commands ==
    \/ CmdCalibrate \/ CmdEnable \/ CmdDisable \/ CmdClearFault
    \/ CmdClearCalibration \/ CmdEmergencyStop \/ ApplyOnlineEstimates

Events == FaultNotified \/ Restart

\* Ends of service operations, each of which the hardware brings about.
Completions ==
    \/ BootCheckDone \/ BootLoadDone \/ BootLoadFailed
    \/ PolePairsStep \/ PolePairsDone
    \/ ResistanceSettled \/ ResistanceDone
    \/ AlignmentStray \/ AlignmentDone \/ MechanicalDone
    \/ SaveDone \/ SaveFailed \/ InvalidateDone \/ InvalidateFailed

Next == Commands \/ Events \/ Completions \/ Sampling

Spec == Init /\ [][Next]_vars

\* Timers expire, memory operations end and samples keep coming while the
\* PWM is on; no operator ever has to give a command.
Fairness ==
    /\ WF_vars(Sampling)
    /\ WF_vars(BootCheckDone)
    /\ WF_vars(BootLoadDone \/ BootLoadFailed)
    /\ WF_vars(PolePairsStep \/ PolePairsDone \/ ResistanceSettled)
    /\ WF_vars(ResistanceDone)
    /\ WF_vars(AlignmentStray \/ AlignmentDone)
    /\ WF_vars(MechanicalDone)
    /\ WF_vars(SaveDone \/ SaveFailed)
    /\ WF_vars(InvalidateDone \/ InvalidateFailed)

FairSpec == Spec /\ Fairness

-----------------------------------------------------------------------------
(* Properties.                                                             *)

\* While the machine is Ready or Enabled, the pole pairs, the encoder zero
\* and the loop gains were set from the very record it holds in RAM: neither
\* a late boot load nor a late invalidation changes one without the other
\* (EnterReady, CheckNvmOnBoot, CmdClearCalibration).
TunedToRecord == state \in {"Ready", "Enabled"} => applied = calibrationData

\* The pending callback belongs to a calibration exactly while one runs; a
\* pending invalidation never outlives a fault or an emergency stop
\* (pendingCommandCallback over all the handlers that complete it).
PendingMatchesState ==
    /\ pendingCommand = "calibrate" <=> state = "Calibrating"
    /\ pendingCommand = "clear" => state \in {"Idle", "Ready", "Enabled"}

\* The fields a step can rely on, and the ones measured when it has ended.
MeasuredBefore(s) ==
    CASE s = "polePairs" -> {}
      [] s = "resistanceAndInductance" -> {"polePairs"}
      [] s = "alignment" -> {"polePairs", "resistance"}
      [] s = "frictionAndInertia" -> {"polePairs", "resistance", "alignment"}

\* A running calibration only ever works on values it measured itself: every
\* field of an earlier step is this run's, whatever callbacks of aborted
\* runs are still registered with the services.
OwnMeasurementsOnly ==
    state = "Calibrating" =>
        /\ \A f \in MeasuredBefore(step) : pendingData[f] = run
        /\ \A f \in Fields : pendingData[f] \in {NoRun, run}

WholeRecord(m, r) ==
    [f \in Fields |-> IF f = "mechanical" /\ m = "torque" THEN NoRun ELSE r]

\* The region holds nothing or the complete result of one calibration run,
\* through aborted runs, stale saves and power cycles.
StoredIsOneCalibration ==
    stored # Blank => \E r \in Runs : stored = WholeRecord(mode, r)

\* No step that stops using the motor leaves its PWM on: disabling, an
\* emergency stop, a fault or a failed calibration step cut it in the step.
LeavingCutsPwm ==
    [][\/ state \in {"Enabled", "Calibrating"} /\ state' \in {"Idle", "Fault"}
       \/ state = "Enabled" /\ state' = "Ready"
       => ~pwm']_vars

\* The caller of a command is told what happened to the machine: ok means
\* the calibrated or the cleared state, a reported failure means Fault with
\* that cause, and only an abort may leave the rest unchanged.
AnswersTellOutcome ==
    [][HasPendingCommand /\ pendingCommand' = "none" /\ ~(answer' = "none") =>
        CASE answer' = "ok" ->
                /\ state' = IF pendingCommand = "clear" THEN "Idle" ELSE "Ready"
                /\ stored' # Blank <=> pendingCommand = "calibrate"
          [] answer' \in {"calibrationFailed", "nvmFailed"} ->
                /\ state' = "Fault"
                /\ lastFaultCode' = IF pendingCommand = "clear"
                                    THEN "hardwareFault"
                                    ELSE "calibrationFailed"
          [] OTHER -> state' # "Enabled" /\ state' # "Calibrating"]_vars

\* The state machine implements the lifecycle a user of the motor relies on.
Lifecycle == INSTANCE MotorLifecycle WITH tuned <- applied # Blank
ImplementsLifecycle == Lifecycle!Spec

\* A calibration ends, in Ready or in Fault, if nothing disturbs it.
CalibrationEnds == state = "Calibrating" ~> state # "Calibrating"

\* A service that drives a motor which is not enabled is about to be done
\* with it: a timer or its sampling callback is registered that ends the
\* drive, with the callback it will report to still in its slot, whichever
\* calibrations have been aborted, failed or begun anew since.  Nothing ends
\* what the control loop drives: while the sampling interrupt still calls it,
\* a conversion in flight at Stop has it write duties again, and so on.  (For
\* the speed state machine's own estimator see StaleDriveEnds.)
DriveHasAnEnd ==
    pwm /\ state # "Enabled" /\ sampler # "foc" /\ MechIdent[mode] # "own" =>
        \/ settleTimer = "polePairs" /\ onPolePairsDone # NoRun
        \/ settleTimer = "resistance" /\ onResistanceDone # NoRun
        \/ sampler = "resistance" /\ onResistanceDone # NoRun
        \/ sampler = "alignment"

\* A stale measurement may drive the motor of a stopped machine, but not for
\* ever: timers run out and the samples of a stale step end it.  (Excepted
\* are the control loop, see DriveHasAnEnd, and the speed state machine's own
\* estimator: its timeout may take the sampling callback away from the stale
\* step, see README.)
StaleDriveEnds ==
    pwm /\ state \in {"Idle", "Fault"} /\ sampler # "foc"
        /\ MechIdent[mode] # "own" ~>
        ~pwm \/ state \notin {"Idle", "Fault"}

-----------------------------------------------------------------------------
(* What the design documents promise and the runs refute.                  *)

\* design/state-machine.md: a callback applies its result only in the state
\* that issued the call.  So a save that ends a calibration applies the
\* record it wrote.
SavedRecordIsApplied ==
    [][state = "Calibrating" /\ state' = "Ready" => applied' = stored']_vars

\* REQ-SM-006: enabling activates the FOC control loop, so the sampling
\* interrupt of an enabled motor runs it.
EnabledRunsControlLoop == state = "Enabled" => sampler = "foc"

\* design/state-machine.md, Fault Safety: entering Fault cuts any PWM output
\* of an identification test signal.
FaultKeepsPwmOff == state = "Fault" => ~pwm

\* design/state-machine.md: the whole sequence is safe to retry after a
\* failure, so the alignment of a later run gives a result as well.
RetriedAlignmentEnds ==
    IsCalibrating("alignment") /\ pendingData["alignment"] = NoRun ~>
        ~(IsCalibrating("alignment") /\ pendingData["alignment"] = NoRun)
=============================================================================
