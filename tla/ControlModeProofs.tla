-------------------------- MODULE ControlModeProofs --------------------------
(***************************************************************************)
(* Theorems about ControlModeStateMachine.  The state machine's own steps  *)
(* are those of FocStateMachine, so its lemmas carry over; what is new is  *)
(* the machine built in place of the old one, and the selection itself.    *)
(* The last part says what the machines of all modes promise together.     *)
(***************************************************************************)
EXTENDS ControlModeStateMachine, FocStateMachineProofs

\* A step of the machine is one its own lemmas speak of.
LEMMA MachineStepsAreNext == MachineSteps => Next /\ UNCHANGED selectVars
  BY DEF MachineSteps, Next, Events

\* Nothing but a selection and a power cycle changes the mode.
LEMMA MachineKeepsMode == MachineSteps => UNCHANGED mode
  BY MachineStepsAreNext, StepsKeepMode

-----------------------------------------------------------------------------
(* The selection.  While a write is in flight the new default is the mode  *)
(* being selected and the old one, to which a failed write returns, names  *)
(* the active machine.                                                     *)

RollbackNamesActive ==
  pendingSelect => /\ defaultMode = pendingSelectMode
                   /\ previousDefault = mode

SelectInv == ActiveIsDefault /\ AcknowledgedModeIsStored /\ RollbackNamesActive

LEMMA SelectInvInit == CMInit => SelectInv
  BY DEF CMInit, SelectInv, ActiveIsDefault, AcknowledgedModeIsStored,
     RollbackNamesActive

LEMMA SelectInvStep == SelectInv /\ [CMNext]_cmVars => SelectInv'
<1> SUFFICES ASSUME SelectInv, [CMNext]_cmVars PROVE SelectInv'
  OBVIOUS
<1> USE DEF SelectInv, ActiveIsDefault, AcknowledgedModeIsStored,
            RollbackNamesActive
<1>1. CASE MachineSteps
  BY <1>1, MachineStepsAreNext, MachineKeepsMode DEF selectVars
<1>2. CASE Select
  BY <1>2 DEF Select, vars, smVars
<1>3. CASE SelectSaved
  BY <1>3 DEF SelectSaved, Activate
<1>4. CASE SelectNotSaved
  BY <1>4 DEF SelectNotSaved, RollBack, ReportNvmFailed, vars, smVars
<1>5. CASE SelectRestart
  BY <1>5 DEF SelectRestart, PowerUp
<1>6. CASE UNCHANGED cmVars
  BY <1>6 DEF cmVars, selectVars, vars, smVars
<1> QED
  BY <1>1, <1>2, <1>3, <1>4, <1>5, <1>6 DEF CMNext

\* For every set of modes and every interleaving of selections with the
\* machine and with power cycles, the default in RAM names the active machine
\* whenever no selection is pending (Select, OnSaveConfigDone).
THEOREM DefaultNamesTheMachine == CMSpec => []ActiveIsDefault
<1>1. SelectInv => ActiveIsDefault
  BY DEF SelectInv
<1> QED
  BY <1>1, SelectInvInit, SelectInvStep, PTL DEF CMSpec

\* A selection answered ok is in the region and survives a power cycle until
\* the next request (OnSaveConfigDone).
THEOREM OkMeansStored == CMSpec => []AcknowledgedModeIsStored
<1>1. SelectInv => AcknowledgedModeIsStored
  BY DEF SelectInv
<1> QED
  BY <1>1, SelectInvInit, SelectInvStep, PTL DEF CMSpec

-----------------------------------------------------------------------------
(* Types.                                                                  *)

SelectTypes ==
  /\ defaultMode \in Modes /\ storedMode \in Modes \cup {Blank}
  /\ pendingSelectMode \in Modes /\ previousDefault \in Modes
  /\ selectAnswer \in {"none", "ok", "busy", "nvmFailed"}

SelectPending == pendingSelect \in BOOLEAN

CMTypeInv == TypeInv /\ SelectTypes /\ SelectPending

LEMMA CMTypeInvInit == CMInit => CMTypeInv
<1>1. CMInit => SelectTypes
  BY SharedWiringAssumption DEF CMInit, SelectTypes
<1>2. CMInit => SelectPending
  BY Zenon DEF CMInit, SelectPending
<1> QED
  BY <1>1, <1>2, TypeInvInit, Zenon DEF CMTypeInv, CMInit

\* A new machine, after a selection or a power cycle, starts well typed.
LEMMA ActivateKeeps ==
  ASSUME TypeInv, NEW m \in Modes, Activate(m)
  PROVE  TypeInv'
<1>1. Switches'
  BY Zenon DEF TypeInv, Switches, Activate, StopAndRegister, DestroyEstimator,
     mechanicalVars
<1>2. MotorData'
  BY RunIsCallback DEF TypeInv, Data, MotorData, Activate, StopAndRegister,
     DestroyEstimator, mechanicalVars, electricalVars, Samplers
<1>3. StoreData'
  BY DEF TypeInv, Data, StoreData, Activate
<1>4. MachineData'
  BY DefaultIsRecord DEF TypeInv, Data, MachineData, Activate, Become,
     CompletePendingCommand, States, Results, Codes
<1> QED
  BY <1>1, <1>2, <1>3, <1>4 DEF TypeInv, Data

LEMMA PowerUpKeeps ==
  ASSUME TypeInv, NEW m \in Modes, PowerUp(m)
  PROVE  TypeInv'
<1>1. Switches'
  BY Zenon DEF Switches, PowerUp
<1>2. MotorData'
  <2>1. /\ sampler' = "foc" /\ currentSampleIndex' = 0 /\ settleTimer' = "none"
        /\ onPolePairsDone' = NoRun /\ onResistanceDone' = NoRun
        /\ onAlignmentDone' = NoRun /\ onMechanicalDone' = NoRun
    BY Zenon DEF PowerUp
  <2> QED
    BY <2>1, RunIsCallback, SweepAssumption, SMT DEF MotorData, Samplers
<1>3. StoreData'
  <2>1. stored' \in {stored, Blank, saving} /\ saving' = DefaultRecord
        /\ onCalibrationDone' = "none"
    BY Zenon DEF PowerUp, AfterPowerCycle
  <2> QED
    BY <2>1, DefaultIsRecord DEF TypeInv, Data, StoreData
<1>4. MachineData'
  BY DefaultIsRecord DEF TypeInv, Data, PowerUp, MachineData, Become, States,
     Codes
<1> QED
  BY <1>1, <1>2, <1>3, <1>4 DEF TypeInv, Data

LEMMA CMTypeInvStep == CMTypeInv /\ [CMNext]_cmVars => CMTypeInv'
<1> SUFFICES ASSUME TypeInv, SelectTypes, SelectPending, [CMNext]_cmVars
             PROVE  CMTypeInv'
  BY DEF CMTypeInv
<1>0. ASSUME UNCHANGED vars PROVE TypeInv'
  BY <1>0, TypeInvStep
<1>1. CASE MachineSteps
  <2>1. TypeInv' /\ UNCHANGED selectVars
    BY <1>1, TypeInvStep, MachineStepsAreNext
  <2>2. SelectTypes'
    BY <2>1 DEF selectVars, SelectTypes
  <2>3. SelectPending'
    BY <2>1, Zenon DEF selectVars, SelectPending
  <2> QED
    BY <2>1, <2>2, <2>3 DEF CMTypeInv
<1>2. CASE Select
  <2>1. SelectTypes'
    BY <1>2 DEF Select, SelectTypes
  <2>2. SelectPending'
    BY <1>2, Zenon DEF Select, SelectPending
  <2>3. UNCHANGED vars
    BY <1>2, Zenon DEF Select
  <2> QED
    BY <1>0, <2>1, <2>2, <2>3 DEF CMTypeInv
<1>3. CASE SelectSaved
  <2>1. pendingSelectMode \in Modes /\ Activate(pendingSelectMode)
    BY <1>3, Zenon DEF SelectSaved, SelectTypes
  <2>2. SelectTypes'
    BY <1>3 DEF SelectSaved, SelectTypes
  <2>3. SelectPending'
    BY <1>3, Zenon DEF SelectSaved, SelectPending
  <2> QED
    BY <2>1, <2>2, <2>3, ActivateKeeps DEF CMTypeInv
<1>4. CASE SelectNotSaved
  <2>1. SelectTypes'
    BY <1>4 DEF SelectNotSaved, RollBack, ReportNvmFailed, SelectTypes
  <2>2. SelectPending'
    BY <1>4, Zenon DEF SelectNotSaved, ReportNvmFailed, SelectPending
  <2>3. UNCHANGED vars
    BY <1>4, Zenon DEF SelectNotSaved
  <2> QED
    BY <1>0, <2>1, <2>2, <2>3 DEF CMTypeInv
<1>5. CASE SelectRestart
  <2>1. storedMode' \in Modes \cup {Blank}
    BY <1>5 DEF SelectRestart, SelectTypes
  <2>2. defaultMode' \in Modes
    BY <1>5, <2>1, SharedWiringAssumption DEF SelectRestart, ModeOf
  <2>3. SelectTypes'
    BY <1>5, <2>1, <2>2, SharedWiringAssumption DEF SelectRestart, SelectTypes
  <2>4. SelectPending'
    BY <1>5, Zenon DEF SelectRestart, SelectPending
  <2>5. PowerUp(defaultMode')
    BY <1>5, Zenon DEF SelectRestart
  <2> QED
    BY <2>2, <2>3, <2>4, <2>5, PowerUpKeeps DEF CMTypeInv
<1>6. CASE UNCHANGED cmVars
  <2>1. UNCHANGED <<vars, selectVars>>
    BY <1>6 DEF cmVars
  <2>2. SelectTypes'
    BY <2>1 DEF selectVars, SelectTypes
  <2>3. SelectPending'
    BY <2>1, Zenon DEF selectVars, SelectPending
  <2> QED
    BY <1>0, <2>1, <2>2, <2>3 DEF CMTypeInv
<1> QED
  BY <1>1, <1>2, <1>3, <1>4, <1>5, <1>6 DEF CMNext

\* Every variable keeps its type through mode switches and power cycles; a
\* torn configuration is read as a mode the firmware has (LoadConfig).
THEOREM SelectTypeCorrect == CMSpec => []SelectTypeOK
<1>1. CMTypeInv => SelectTypeOK
  <2>1. SelectPending => pendingSelect \in BOOLEAN
    BY DEF SelectPending
  <2> QED
    BY <2>1, TypeInvImpliesTypeOK, Zenon DEF CMTypeInv, SelectTypes,
       SelectTypeOK
<1> QED
  BY <1>1, CMTypeInvInit, CMTypeInvStep, PTL DEF CMSpec

-----------------------------------------------------------------------------
(* What a mode switch may not break of the machine itself.                 *)

LEMMA SwitchesLeaveIdle ==
  SelectSaved \/ SelectRestart => state' = "Idle" /\ pwm' = FALSE
  BY Zenon DEF SelectSaved, Activate, StopAndRegister, SelectRestart, PowerUp,
     Become

LEMMA OtherSelectSteps ==
  [CMNext]_cmVars => [Next]_vars \/ SelectSaved \/ SelectRestart
  BY MachineStepsAreNext, Zenon DEF CMNext, cmVars, Select, SelectNotSaved

\* The controllers stay set from the record in RAM when machines of other
\* modes inherit the callbacks of the one they replace (EnterReady, Activate).
THEOREM AppliedRecordIsHeldInEachMode == CMSpec => []TunedToRecord
<1>1. CMInit => TunedInv
  BY TunedInit DEF CMInit
<1>2. TunedInv /\ [CMNext]_cmVars => TunedInv'
  <2>1. state' = "Idle" => TunedInv'
    BY DEF TunedInv, TunedToRecord, NoLoadUnderfoot
  <2> QED
    BY <2>1, TunedStep, OtherSelectSteps, SwitchesLeaveIdle
<1>3. TunedInv => TunedToRecord
  BY DEF TunedInv
<1> QED
  BY <1>1, <1>2, <1>3, PTL DEF CMSpec

\* A step that stops using the motor cuts its outputs, the destruction of an
\* enabled machine by a late selection included (Activate).
THEOREM SwitchingCutsPwm == CMSpec => LeavingCutsPwm
<1>1. [CMNext]_cmVars /\ Leaving => ~pwm'
  BY LeavingStep, OtherSelectSteps, SwitchesLeaveIdle
<1>2. [CMNext]_cmVars
      => [\/ state \in {"Enabled", "Calibrating"} /\ state' \in {"Idle", "Fault"}
          \/ state = "Enabled" /\ state' = "Ready"
          => ~pwm']_vars
  BY <1>1 DEF Leaving
<1> QED
  BY <1>2, PTL DEF CMSpec, LeavingCutsPwm

-----------------------------------------------------------------------------
(* What holds of one machine holds of the machines that follow each other. *)

LEMMA LifecycleInvInAnyMode == CMSpec => []LifecycleInv
<1>1. CMInit => CMTypeInv /\ TunedInv /\ PendingMatchesState
  BY CMTypeInvInit, TunedInit, PendingInit DEF CMInit
<1>2. /\ CMTypeInv /\ TunedInv /\ PendingMatchesState /\ [CMNext]_cmVars
      => (CMTypeInv /\ TunedInv /\ PendingMatchesState)'
  <2> SUFFICES ASSUME CMTypeInv, TunedInv, PendingMatchesState, [CMNext]_cmVars
               PROVE  CMTypeInv' /\ TunedInv' /\ PendingMatchesState'
    OBVIOUS
  <2>1. CMTypeInv'
    BY CMTypeInvStep
  <2>2. CASE [Next]_vars
    BY <2>1, <2>2, TunedStep, PendingStep DEF CMTypeInv
  <2>3. CASE SelectSaved \/ SelectRestart
    <3>1. state' = "Idle" /\ pendingCommand' = "none"
      BY <2>3, Zenon DEF SelectSaved, Activate, SelectRestart, PowerUp, Become,
         CompletePendingCommand
    <3> QED
      BY <2>1, <3>1 DEF TunedInv, TunedToRecord, NoLoadUnderfoot,
         PendingMatchesState
  <2> QED
    BY <2>2, <2>3, OtherSelectSteps
<1>3. CMTypeInv /\ TunedInv /\ PendingMatchesState => LifecycleInv
  BY DEF CMTypeInv, LifecycleInv
<1> QED
  BY <1>1, <1>2, <1>3, PTL DEF CMSpec

\* Across mode switches, too, a calibration's caller waits exactly while the
\* machine calibrates: a machine that is replaced answers before it goes
\* (CmdEmergencyStop in Activate).
THEOREM CallerWaitsInEachMode == CMSpec => []PendingMatchesState
<1>1. LifecycleInv => PendingMatchesState
  BY DEF LifecycleInv
<1> QED
  BY <1>1, LifecycleInvInAnyMode, PTL

\* The machines of all modes together implement the one lifecycle of the
\* motor: a selection that takes effect is to its user what a power cycle is,
\* whatever the replaced machine was doing and whichever of its callbacks
\* the new one inherits (OnSaveConfigDone, Activate).
THEOREM LifecycleImplementedInEachMode == CMSpec => ImplementsLifecycle
<1>1. CMInit => Lifecycle!Init
  BY DEF CMInit, Init, Lifecycle!Init
<1>2. LifecycleInv /\ [CMNext]_cmVars
      => [Lifecycle!Next]_(Lifecycle!lifecycleVars)
  <2>1. UNCHANGED vars \/ Sampling => Step
    BY SamplingDrives, Zenon DEF vars, smVars, Step
  <2>2. Step => [Lifecycle!Next]_(Lifecycle!lifecycleVars)
    BY Zenon DEF Step, Lifecycle!lifecycleVars
  <2>3. SelectSaved \/ SelectRestart => Lifecycle!PowerCycle
    <3>1. SelectSaved \/ SelectRestart
          => state' = "Idle" /\ pendingCommand' = "none" /\ applied' = Blank
      BY Zenon DEF SelectSaved, Activate, SelectRestart, PowerUp, Become,
         CompletePendingCommand
    <3> QED
      BY <3>1, Zenon DEF Lifecycle!PowerCycle
  <2>4. Lifecycle!PowerCycle => Lifecycle!Next
    BY Zenon DEF Lifecycle!Next
  <2> QED
    BY <2>1, <2>2, <2>3, <2>4, OtherSelectSteps, LifecycleCommands,
       LifecycleEvents, LifecycleCompletions DEF Next
<1> QED
  BY <1>1, <1>2, LifecycleInvInAnyMode, PTL
     DEF CMSpec, ImplementsLifecycle, Lifecycle!Spec

\* A caller is told the truth although the machine that answers may not be
\* the one that was asked: the new machine never answers for the old one.
THEOREM AnswersAreTrueInEachMode == CMSpec => AnswersTellOutcome
<1>1. LifecycleInv /\ [CMNext]_cmVars /\ Answered => Told
  <2> SUFFICES ASSUME LifecycleInv, [CMNext]_cmVars, Answered PROVE Told
    OBVIOUS
  <2>1. UNCHANGED vars \/ Sampling => ~Answered
    BY SamplingDrives, SilentSteps, Zenon DEF vars, smVars, commandVars
  <2>2. CASE SelectSaved
    <3>1. answer' = "abortedByFault" /\ state' = "Idle"
      BY <2>2 DEF SelectSaved, Activate, Become, CompletePendingCommand,
         Answered
    <3> QED
      BY <3>1, AbortIsTold
  <2>3. SelectRestart => ~Answered
    BY DEF SelectRestart, PowerUp, Answered
  <2> QED
    BY <2>1, <2>2, <2>3, OtherSelectSteps, CommandsTell, EventsTell,
       CompletionsTell DEF Next
<1>2. LifecycleInv /\ [CMNext]_cmVars
      => [HasPendingCommand /\ pendingCommand' = "none" /\ ~(answer' = "none")
            => Told]_vars
  BY <1>1 DEF Answered
<1> QED
  BY <1>2, LifecycleInvInAnyMode, PTL DEF CMSpec, AnswersTellOutcome, Told

\* A switch stops the motor, gives the samples to the new control loop and
\* leaves the services alone (Activate): until one of them takes the samples
\* again nothing need end what drives the outputs, and from then on its drive
\* has its end and its callback, also when it was a timer of the replaced
\* machine that made the service go on in the new one.
THEOREM DrivesAreEndedInEachMode == CMSpec => []DriveHasAnEnd
<1>1. CMInit => DriveInv
  BY DriveAtFirst DEF CMInit
<1>2. LifecycleInv /\ DriveInv /\ [CMNext]_cmVars => DriveInv'
  <2> SUFFICES ASSUME LifecycleInv, DriveInv, [CMNext]_cmVars PROVE DriveInv'
    OBVIOUS
  <2>1. CASE [Next]_vars
    BY <2>1, DriveStep DEF LifecycleInv
  <2>2. CASE SelectSaved
    <3>1. /\ pwm' = FALSE /\ sampler' = "foc" /\ state' = "Idle"
          /\ UNCHANGED <<settleTimer, onPolePairsDone, onResistanceDone>>
      BY <2>2, Zenon DEF SelectSaved, Activate, StopAndRegister, Become,
         electricalVars
    <3>2. ~timeoutTimer'
      <4>1. CASE MechIdent[mode] = "own"
        BY <2>2, <4>1, Zenon DEF SelectSaved, Activate, DestroyEstimator
      <4>2. CASE MechIdent[mode] # "own"
        BY <2>2, <4>2, Zenon DEF SelectSaved, Activate, DestroyEstimator,
           mechanicalVars, DriveInv, Armed
      <4> QED
        BY <4>1, <4>2
    <3>3. "foc" # "mechanical" /\ "foc" \in {"idle", "foc"}
          /\ "Idle" # "Calibrating"
      OBVIOUS
    <3> QED
      BY <3>1, <3>2, <3>3, Zenon DEF DriveInv, Armed, DriveHasAnEnd
  <2>3. CASE SelectRestart
    BY <2>3, Zenon DEF SelectRestart, PowerUp, Become, DriveInv, Armed,
       DriveHasAnEnd
  <2> QED
    BY <2>1, <2>2, <2>3, OtherSelectSteps
<1>3. DriveInv => DriveHasAnEnd
  BY DEF DriveInv
<1> QED
  BY <1>1, <1>2, <1>3, LifecycleInvInAnyMode, PTL DEF CMSpec

LEMMA MeasuredInAnyMode == CMSpec => [](TypeOK /\ Measured(Modes))
<1>1. CMInit => Measured(Modes)
  BY MeasurementsAtFirst DEF CMInit
<1>2. LifecycleInv => TypeOK
  BY TypeInvImpliesTypeOK DEF LifecycleInv
<1>3. TypeOK /\ Measured(Modes) /\ [CMNext]_cmVars => Measured(Modes)'
  <2> SUFFICES ASSUME TypeOK, Measured(Modes), [CMNext]_cmVars
               PROVE  StaysMeasured(Modes)
    BY DEF Measured, StaysMeasured, StoreWhole, StoreStaysWhole
  <2>1. mode \in Modes
    BY DEF TypeOK
  <2>2. CASE [Next]_vars
    BY <2>1, <2>2, StepsKeepMeasurements
  <2>3. CASE SelectSaved \/ SelectRestart
    <3>1. state' # "Calibrating"
      BY <2>3, SwitchesLeaveIdle
    <3>2. CASE SelectSaved
      <4>1. UNCHANGED <<stored, saving, onCalibrationDone>>
        BY <3>2, Zenon DEF SelectSaved, Activate
      <4> QED
        BY <3>1, <4>1, NoCalibration, StoreKept, Zenon
           DEF Measured, StaysMeasured
    <3>3. CASE SelectRestart
      <4>1. /\ onCalibrationDone' = "none"
            /\ \/ stored' \in {stored, Blank}
               \/ onCalibrationDone = "save" /\ stored' = saving
        BY <3>3, SMT DEF SelectRestart, PowerUp, AfterPowerCycle
      <4>2. "none" # "save"
        OBVIOUS
      <4> QED
        BY <3>1, <4>1, <4>2, NoCalibration, StoreKept, Zenon
           DEF Measured, StaysMeasured
    <3> QED
      BY <2>3, <3>2, <3>3
  <2> QED
    BY <2>2, <2>3, OtherSelectSteps
<1> QED
  BY <1>1, <1>2, <1>3, LifecycleInvInAnyMode, PTL DEF CMSpec

\* A calibration works on its own measurements although the services are
\* shared by the machines of all modes and keep the callbacks of those that
\* are gone.
THEOREM CalibrationsDoNotMixInEachMode == CMSpec => []OwnMeasurementsOnly
<1>1. TypeOK /\ Measured(Modes) => OwnMeasurementsOnly
  BY OwnDataSuffices DEF Measured
<1> QED
  BY <1>1, MeasuredInAnyMode, PTL

\* The region holds nothing or the whole result of one calibration in one of
\* the modes: a save that outlives its machine still writes one.
THEOREM RegionHoldsOneCalibrationOfAMode ==
  CMSpec => [](stored # Blank =>
                 \E m \in Modes, r \in Runs : stored = WholeRecord(m, r))
<1>1. TypeOK /\ Measured(Modes)
      => (stored # Blank =>
            \E m \in Modes, r \in Runs : stored = WholeRecord(m, r))
  BY DEF Measured, StoreWhole, StoreHolds, WholeOf
<1> QED
  BY <1>1, MeasuredInAnyMode, PTL
=============================================================================
