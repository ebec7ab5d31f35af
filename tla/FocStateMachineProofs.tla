----------------------- MODULE FocStateMachineProofs -----------------------
(***************************************************************************)
(* Proofs about FocStateMachine for every number of runs and sweep steps,  *)
(* every wiring of the modes and every set of disturbances: its types, the *)
(* record it applies, the caller that waits, the outputs it cuts, who      *)
(* drives them, the lifecycle it implements, and whose measurements it     *)
(* works on.                                                               *)
(***************************************************************************)
EXTENDS FocStateMachine, TLAPS

USE RunsAssumption, SweepAssumption, BlankAssumption

\* A callback slot can hold the number of any run, and so can a record.
LEMMA RunIsCallback == 0 .. MaxRuns = Callbacks /\ NoRun \in Callbacks
  BY DEF Callbacks, Runs, NoRun

LEMMA DefaultIsRecord == DefaultRecord \in Records
  BY RunIsCallback DEF DefaultRecord, Records

\* Storing one run's value in a field gives a record again.
LEMMA StoreField ==
  ASSUME NEW record \in Records, NEW f \in Fields, NEW r \in Callbacks
  PROVE  [record EXCEPT ![f] = r] \in Records
  BY DEF Records

LEMMA FieldNames ==
  /\ "polePairs" \in Fields /\ "resistance" \in Fields
  /\ "alignment" \in Fields /\ "mechanical" \in Fields
  BY DEF Fields

-----------------------------------------------------------------------------
(* Boolean-valued variables first, apart from the arithmetic.              *)

Switches ==
  /\ pwm \in BOOLEAN /\ converting \in BOOLEAN
  /\ timeoutTimer \in BOOLEAN /\ onIsValidDone \in BOOLEAN

\* A sample that ends nothing leaves everything alone but the outputs, which
\* the control loop drives.
LEMMA SamplingDrives ==
  Sampling => /\ UNCHANGED <<sampler, serviceVars, storeVars, smVars>>
              /\ UNCHANGED pwm \/ sampler = "foc"
  BY Zenon DEF Sampling, Convert, ControlLoopSample, LastSampleCounted,
     SampleFor

LEMMA SwitchesInit == Init => Switches
  BY Zenon DEF Init, Switches, InverterInit, MechanicalInit

LEMMA SwitchesCommands == Switches /\ Commands => Switches'
<1> SUFFICES ASSUME Switches, Commands PROVE Switches'
  OBVIOUS
<1> USE DEF Switches, inverterVars, electricalVars, serviceVars,
            mechanicalVars, storeVars
<1>1. CASE CmdCalibrate
  BY <1>1, Zenon DEF CmdCalibrate, EstimateNumberOfPolePairs, DriveFor
<1>2. CASE CmdEnable
  BY <1>2, Zenon DEF CmdEnable, Start
<1>3. CASE CmdDisable
  BY <1>3, Zenon DEF CmdDisable, Stop
<1>4. CASE CmdClearFault
  BY <1>4, Zenon DEF CmdClearFault
<1>5. CASE CmdClearCalibration
  BY <1>5, Zenon DEF CmdClearCalibration
<1>6. CASE CmdEmergencyStop
  BY <1>6, Zenon DEF CmdEmergencyStop, Stop
<1>7. CASE ApplyOnlineEstimates
  BY <1>7, Zenon DEF ApplyOnlineEstimates
<1> QED
  BY <1>1, <1>2, <1>3, <1>4, <1>5, <1>6, <1>7 DEF Commands

LEMMA SwitchesEvents == Switches /\ Events => Switches'
<1> SUFFICES ASSUME Switches, Events PROVE Switches'
  OBVIOUS
<1> USE DEF Switches, inverterVars, electricalVars, serviceVars,
            mechanicalVars, storeVars
<1>1. CASE FaultNotified
  BY <1>1, Zenon DEF FaultNotified
<1>2. CASE Restart
  BY <1>2, Zenon DEF Restart, PowerUp
<1> QED
  BY <1>1, <1>2 DEF Events

LEMMA SwitchesCompletions == Switches /\ Completions => Switches'
<1> SUFFICES ASSUME Switches, Completions PROVE Switches'
  OBVIOUS
<1> USE DEF Switches, inverterVars, electricalVars, serviceVars,
            mechanicalVars, storeVars, StoreDone, DriveFor, Stop,
            CalibrationStepFails, SampleFor, SamplesAnalyzed, AlignmentOver
<1>1. CASE BootCheckDone
  BY <1>1, Zenon DEF BootCheckDone
<1>2. CASE BootLoadDone
  BY <1>2, Zenon DEF BootLoadDone
<1>3. CASE BootLoadFailed
  BY <1>3, Zenon DEF BootLoadFailed
<1>4. CASE PolePairsStep
  BY <1>4, Zenon DEF PolePairsStep, NextElectricalAngle
<1>5. CASE PolePairsDone
  BY <1>5, Zenon DEF PolePairsDone, PolePairsDropped, PolePairsFailed,
     PolePairsIdentified, EstimateResistanceAndInductance
<1>6. CASE ResistanceSettled
  BY <1>6, Zenon DEF ResistanceSettled, ApplyTestVoltage
<1>7. CASE ResistanceDone
  BY <1>7, Zenon DEF ResistanceDone, ResistanceDropped, ResistanceFailed,
     ResistanceIdentified, ForceAlignment
<1>8. CASE AlignmentStray
  BY <1>8, Zenon DEF AlignmentStray, StrayAlignmentSample
<1>9. CASE AlignmentDone
  BY <1>9, Zenon DEF AlignmentDone, AlignmentDropped, AlignmentFailed,
     AlignedAndSaved, AlignedWithoutEstimator, AlignedForOwnEstimator,
     AlignedForOverride, EstimateFrictionAndInertia, SaveCalibration
<1>10. CASE MechanicalDone
  BY <1>10, Zenon DEF MechanicalDone, MechanicalDropped, MechanicalFailed,
     MechanicalIdentified, FitConverged, FitTimedOut, OverrideAnswers,
     SaveCalibration
<1>11. CASE SaveDone
  BY <1>11, Zenon DEF SaveDone, SavedAndReady, SavedTooLate
<1>12. CASE SaveFailed
  BY <1>12, Zenon DEF SaveFailed
<1>13. CASE InvalidateDone
  BY <1>13, Zenon DEF InvalidateDone
<1>14. CASE InvalidateFailed
  BY <1>14, Zenon DEF InvalidateFailed
<1> QED
  BY <1>1, <1>2, <1>3, <1>4, <1>5, <1>6, <1>7, <1>8, <1>9, <1>10, <1>11,
     <1>12, <1>13, <1>14 DEF Completions

LEMMA SwitchesSampling == Switches /\ Sampling => Switches'
<1> SUFFICES ASSUME Switches, Sampling PROVE Switches'
  OBVIOUS
<1>1. UNCHANGED <<timeoutTimer, onIsValidDone>>
  BY SamplingDrives, Zenon DEF serviceVars, mechanicalVars, storeVars
<1>2. pwm' \in BOOLEAN /\ converting' \in BOOLEAN
  BY Zenon DEF Switches, Sampling, Convert, ControlLoopSample,
     LastSampleCounted, SampleFor
<1> QED
  BY <1>1, <1>2, Zenon DEF Switches

-----------------------------------------------------------------------------
(* The rest of the type invariant, one part for each group of variables.   *)
(* A sweep needs one fact more: while its timer is armed it has an angle   *)
(* left to apply.                                                          *)

MotorData ==
  /\ sampler \in Samplers
  /\ onPolePairsDone \in Callbacks /\ onResistanceDone \in Callbacks
  /\ onAlignmentDone \in Callbacks /\ onMechanicalDone \in Callbacks
  /\ currentSampleIndex \in 0 .. TotalSteps
  /\ settleTimer \in {"none", "polePairs", "resistance"}
  /\ settleTimer = "polePairs" => currentSampleIndex < TotalSteps

StoreData ==
  /\ stored \in Records \cup {Blank} /\ saving \in Records
  /\ onCalibrationDone \in {"none", "save", "load", "invalidate"}

MachineData ==
  /\ mode \in Modes /\ state \in States /\ step \in Steps \cup {"none"}
  /\ pendingData \in Records /\ calibrationData \in Records
  /\ applied \in Records \cup {Blank} /\ onlineGains \in SUBSET Loops
  /\ pendingCommand \in {"none", "calibrate", "clear"}
  /\ answer \in Results \cup {"none"} /\ lastFaultCode \in Codes
  /\ run \in Callbacks

Data == MotorData /\ StoreData /\ MachineData

LEMMA DataInit == Init => Data
  BY RunIsCallback, DefaultIsRecord
     DEF Init, Data, MotorData, StoreData, MachineData, InverterInit,
         ElectricalInit, AlignmentInit, MechanicalInit, Samplers, States,
         Steps, Results, Codes, Loops

\* The effects the handlers are built from, each on its group of variables.

LEMMA MotorUnchanged ==
  MotorData /\ UNCHANGED <<sampler, serviceVars>> => MotorData'
  BY DEF MotorData, serviceVars, electricalVars, mechanicalVars

LEMMA StoreUnchanged == StoreData /\ UNCHANGED storeVars => StoreData'
  BY DEF StoreData, storeVars

LEMMA StoreDoneKeeps ==
  ASSUME StoreData, NEW operation, NEW content \in Records \cup {Blank},
         StoreDone(operation, content)
  PROVE  StoreData'
  BY DefaultIsRecord DEF StoreData, StoreDone

LEMMA SaveKeeps ==
  ASSUME StoreData, NEW record \in Records, SaveCalibration(record)
  PROVE  StoreData'
  BY DEF StoreData, SaveCalibration

LEMMA RequestKeeps ==
  ASSUME StoreData, NEW operation \in {"load", "invalidate"},
         RequestStore(operation)
  PROVE  StoreData'
  BY DEF StoreData, RequestStore

LEMMA MachineUnchanged == MachineData /\ UNCHANGED smVars => MachineData'
  BY DEF MachineData, smVars

LEMMA BecomeKeeps ==
  ASSUME MachineData, NEW next \in States, Become(next),
         UNCHANGED <<mode, recordVars, commandVars, lastFaultCode, run>>
  PROVE  MachineData'
  BY DefaultIsRecord DEF MachineData, Become, recordVars, commandVars

LEMMA FailWithKeeps ==
  ASSUME MachineData, NEW result \in Results, NEW code \in Codes,
         FailWith(result, code)
  PROVE  MachineData'
  BY DefaultIsRecord DEF MachineData, FailWith, Become, CompletePendingCommand,
     recordVars, States

LEMMA AdvanceKeeps ==
  ASSUME MachineData, NEW next \in Steps \cup {"none"}, NEW f \in Fields,
         NEW from \in Callbacks, Advance(next, f, from)
  PROVE  MachineData' /\ pendingData' \in Records
<1>1. [pendingData EXCEPT ![f] = from] \in Records
  BY StoreField DEF MachineData
<1> QED
  BY <1>1 DEF MachineData, Advance, recordVars, commandVars

LEMMA ReadyKeeps ==
  ASSUME MachineData, NEW record \in Records, ApplyAndEnterReady(record),
         UNCHANGED commandVars \/ CompletePendingCommand("ok")
  PROVE  MachineData'
<1>1. /\ pendingCommand' \in {"none", "calibrate", "clear"}
      /\ answer' \in Results \cup {"none"}
  BY DEF MachineData, CompletePendingCommand, commandVars, Results
<1>2. state' \in States /\ step' = "none" /\ pendingData' \in Records
  BY DefaultIsRecord DEF ApplyAndEnterReady, Become, States
<1>3. /\ applied' = record /\ onlineGains' = {} /\ calibrationData' = record
      /\ UNCHANGED <<mode, run, lastFaultCode>>
  BY DEF ApplyAndEnterReady, Apply
<1> QED
  BY <1>1, <1>2, <1>3 DEF MachineData

LEMMA CodeNames ==
  /\ "calibrationFailed" \in Codes /\ "hardwareFault" \in Codes
  /\ FaultCodes \subseteq Codes
  /\ {"ok", "calibrationFailed", "nvmFailed", "abortedByFault"} = Results
  BY DEF Codes, Results

LEMMA DataCommands == Data /\ Commands => Data'
<1> SUFFICES ASSUME MotorData, StoreData, MachineData, Commands PROVE Data'
  BY DEF Data
<1>1. CASE CmdCalibrate
  <2>1. MotorData'
    BY <1>1, RunIsCallback DEF CmdCalibrate, MotorData, MachineData,
       EstimateNumberOfPolePairs, DriveFor, Samplers, mechanicalVars
  <2>2. MachineData'
    BY <1>1, RunIsCallback, DefaultIsRecord
       DEF CmdCalibrate, MachineData, States, Steps, recordVars
  <2> QED
    BY <1>1, <2>1, <2>2, StoreUnchanged DEF CmdCalibrate, Data
<1>2. CASE CmdEnable
  BY <1>2, MotorUnchanged, StoreUnchanged, BecomeKeeps, Zenon
     DEF CmdEnable, Start, Data, States
<1>3. CASE CmdDisable
  BY <1>3, MotorUnchanged, StoreUnchanged, BecomeKeeps, Zenon
     DEF CmdDisable, Stop, Data, States
<1>4. CASE CmdClearFault
  BY <1>4, MotorUnchanged, StoreUnchanged, BecomeKeeps, Zenon
     DEF CmdClearFault, inverterVars, Data, States
<1>5. CASE CmdClearCalibration
  <2>1. MotorData' /\ StoreData'
    BY <1>5, MotorUnchanged, RequestKeeps, Zenon
       DEF CmdClearCalibration, inverterVars
  <2>2. MachineData'
    BY <1>5 DEF CmdClearCalibration, MachineData, recordVars
  <2> QED
    BY <2>1, <2>2 DEF Data
<1>6. CASE CmdEmergencyStop
  <2>1. MotorData' /\ StoreData'
    BY <1>6, MotorUnchanged, StoreUnchanged, Zenon DEF CmdEmergencyStop, Stop
  <2>2. MachineData'
    BY <1>6, DefaultIsRecord DEF CmdEmergencyStop, MachineData, Become,
       CompletePendingCommand, States, Results, recordVars
  <2> QED
    BY <2>1, <2>2 DEF Data
<1>7. CASE ApplyOnlineEstimates
  <2>1. MotorData' /\ StoreData'
    BY <1>7, MotorUnchanged, StoreUnchanged, Zenon
       DEF ApplyOnlineEstimates, inverterVars
  <2>2. MachineData'
    BY <1>7 DEF ApplyOnlineEstimates, MachineData, commandVars
  <2> QED
    BY <2>1, <2>2 DEF Data
<1> QED
  BY <1>1, <1>2, <1>3, <1>4, <1>5, <1>6, <1>7 DEF Commands

LEMMA DataEvents == Data /\ Events => Data'
<1> SUFFICES ASSUME MotorData, StoreData, MachineData, Events PROVE Data'
  BY DEF Data
<1>1. CASE FaultNotified
  BY <1>1, MotorUnchanged, StoreUnchanged, FailWithKeeps, CodeNames, Zenon
     DEF FaultNotified, Data
<1>2. CASE Restart
  <2>1. MotorData' /\ StoreData'
    BY <1>2, RunIsCallback, DefaultIsRecord DEF Restart, PowerUp,
       AfterPowerCycle, MotorData, StoreData, Samplers
  <2>2. MachineData'
    BY <1>2, DefaultIsRecord DEF Restart, PowerUp, MachineData, Become,
       States, Codes
  <2> QED
    BY <2>1, <2>2 DEF Data
<1> QED
  BY <1>1, <1>2 DEF Events

LEMMA DataCompletions == Data /\ Completions => Data'
<1> SUFFICES ASSUME MotorData, StoreData, MachineData, Completions
             PROVE  Data'
  BY DEF Data
<1>1. CASE BootCheckDone
  <2>1. MotorData' /\ MachineData'
    BY <1>1, MotorUnchanged, MachineUnchanged, Zenon
       DEF BootCheckDone, inverterVars
  <2>2. StoreData'
    BY <1>1 DEF BootCheckDone, StoreData, RequestStore
  <2> QED
    BY <2>1, <2>2 DEF Data
<1>2. CASE BootLoadDone
  <2>1. stored \in Records
    BY <1>2 DEF BootLoadDone, RecordValid, StoreData
  <2>2. MotorData' /\ StoreData'
    BY <1>2, MotorUnchanged, StoreDoneKeeps, <2>1, Zenon
       DEF BootLoadDone, inverterVars
  <2>3. CASE state = "Idle"
    BY <1>2, <2>1, <2>2, <2>3, ReadyKeeps, Zenon DEF BootLoadDone, Data
  <2>4. CASE state # "Idle"
    <3>1. /\ calibrationData' = stored
          /\ UNCHANGED <<mode, state, step, pendingData, applied, onlineGains,
                         commandVars, lastFaultCode, run>>
      BY <1>2, <2>4, Zenon DEF BootLoadDone
    <3> QED
      BY <2>1, <2>2, <3>1 DEF Data, MachineData, commandVars
  <2> QED
    BY <2>3, <2>4
<1>3. CASE BootLoadFailed
  BY <1>3, MotorUnchanged, MachineUnchanged, StoreDoneKeeps, Zenon
     DEF BootLoadFailed, inverterVars, Data, StoreData
<1>4. CASE PolePairsStep
  <2>1. MotorData'
    BY <1>4 DEF PolePairsStep, NextElectricalAngle, MotorData,
       inverterVars, mechanicalVars
  <2> QED
    BY <1>4, <2>1, StoreUnchanged, MachineUnchanged, Zenon
       DEF PolePairsStep, Data
<1>5. CASE PolePairsDone
  <2>1. StoreData'
    BY <1>5, StoreUnchanged, Zenon DEF PolePairsDone
  <2>2. /\ currentSampleIndex' \in 0 .. TotalSteps
        /\ onPolePairsDone' \in Callbacks /\ onAlignmentDone' \in Callbacks
        /\ onMechanicalDone' \in Callbacks
    BY <1>5, RunIsCallback DEF PolePairsDone, SweepOver, MotorData,
       mechanicalVars
  <2>3. CASE PolePairsDropped
    <3>1. MotorData'
      BY <2>2, <2>3 DEF PolePairsDropped, Stop, MotorData
    <3> QED
      BY <2>1, <2>3, <3>1, MachineUnchanged, Zenon DEF PolePairsDropped, Data
  <2>4. CASE PolePairsFailed
    <3>1. MotorData'
      BY <2>2, <2>4 DEF PolePairsFailed, CalibrationStepFails, Stop, MotorData
    <3> QED
      BY <2>1, <2>4, <3>1, FailWithKeeps, CodeNames, Zenon
         DEF PolePairsFailed, CalibrationStepFails, Data
  <2>5. CASE PolePairsIdentified
    <3>1. MotorData'
      BY <2>2, <2>5 DEF PolePairsIdentified, MachineData, MotorData,
         EstimateResistanceAndInductance, DriveFor, Samplers
    <3>2. MachineData'
      BY <2>5, AdvanceKeeps, FieldNames, Zenon
         DEF PolePairsIdentified, Steps, MotorData
    <3> QED
      BY <2>1, <3>1, <3>2 DEF Data
  <2> QED
    BY <1>5, <2>3, <2>4, <2>5 DEF PolePairsDone
<1>6. CASE ResistanceSettled
  <2>1. MotorData'
    BY <1>6 DEF ResistanceSettled, ApplyTestVoltage, MotorData,
       DriveFor, Samplers, mechanicalVars
  <2> QED
    BY <1>6, <2>1, StoreUnchanged, MachineUnchanged, Zenon
       DEF ResistanceSettled, Data
<1>7. CASE ResistanceDone
  <2>1. StoreData'
    BY <1>7, StoreUnchanged, Zenon DEF ResistanceDone
  <2>2. /\ onPolePairsDone' \in Callbacks /\ onResistanceDone' \in Callbacks
        /\ onMechanicalDone' \in Callbacks
        /\ UNCHANGED <<currentSampleIndex, settleTimer>>
    BY <1>7, RunIsCallback DEF ResistanceDone, MotorData, mechanicalVars
  <2>3. CASE ResistanceDropped
    <3>1. MotorData'
      BY <2>2, <2>3 DEF ResistanceDropped, Stop, MotorData
    <3> QED
      BY <2>1, <2>3, <3>1, MachineUnchanged, Zenon DEF ResistanceDropped, Data
  <2>4. CASE ResistanceFailed
    <3>1. MotorData'
      BY <2>2, <2>4 DEF ResistanceFailed, CalibrationStepFails, Stop,
         MotorData
    <3> QED
      BY <2>1, <2>4, <3>1, FailWithKeeps, CodeNames, Zenon
         DEF ResistanceFailed, CalibrationStepFails, Data
  <2>5. CASE ResistanceIdentified
    <3>1. sampler' \in Samplers /\ onAlignmentDone' \in Callbacks
      BY <2>5 DEF ResistanceIdentified, ForceAlignment, Stop, DriveFor,
         Samplers, MotorData, MachineData
    <3>2. MachineData'
      BY <2>5, AdvanceKeeps, FieldNames, Zenon
         DEF ResistanceIdentified, Steps, MotorData
    <3>3. MotorData'
      BY <2>2, <3>1 DEF MotorData
    <3> QED
      BY <2>1, <3>2, <3>3 DEF Data
  <2> QED
    BY <1>7, <2>3, <2>4, <2>5 DEF ResistanceDone
<1>8. CASE AlignmentStray
  <2>1. MotorData'
    BY <1>8, MotorUnchanged, Zenon
       DEF AlignmentStray, StrayAlignmentSample, Stop, serviceVars
  <2> QED
    BY <1>8, <2>1, StoreUnchanged, MachineUnchanged, Zenon
       DEF AlignmentStray, Data
<1>9. CASE AlignmentDone
  <2>1. /\ onPolePairsDone' \in Callbacks /\ onResistanceDone' \in Callbacks
        /\ onAlignmentDone' \in Callbacks
        /\ UNCHANGED <<currentSampleIndex, settleTimer>>
    BY <1>9, RunIsCallback DEF AlignmentDone, MotorData, electricalVars
  <2>2. CASE AlignmentDropped
    <3>1. MotorData'
      BY <2>1, <2>2 DEF AlignmentDropped, Stop, MotorData, mechanicalVars
    <3> QED
      BY <2>2, <3>1, StoreUnchanged, MachineUnchanged, Zenon
         DEF AlignmentDropped, Data
  <2>3. CASE AlignmentFailed
    <3>1. MotorData'
      BY <2>1, <2>3 DEF AlignmentFailed, CalibrationStepFails, Stop,
         MotorData, mechanicalVars
    <3> QED
      BY <2>3, <3>1, StoreUnchanged, FailWithKeeps, CodeNames, Zenon
         DEF AlignmentFailed, CalibrationStepFails, Data
  <2>4. CASE AlignedAndSaved
    <3>1. MotorData'
      BY <2>1, <2>4 DEF AlignedAndSaved, Stop, MotorData, mechanicalVars
    <3>2. MachineData' /\ pendingData' \in Records
      BY <2>4, AdvanceKeeps, FieldNames, Zenon
         DEF AlignedAndSaved, MotorData, MachineData
    <3> QED
      BY <2>4, <3>1, <3>2, SaveKeeps, Zenon DEF AlignedAndSaved, Data
  <2>5. CASE AlignedWithoutEstimator
    <3>1. MotorData'
      BY <2>1, <2>5 DEF AlignedWithoutEstimator, Stop, MotorData,
         mechanicalVars
    <3> QED
      BY <2>5, <3>1, StoreUnchanged, FailWithKeeps, CodeNames, Zenon
         DEF AlignedWithoutEstimator, Data
  <2>6. CASE AlignedForOwnEstimator
    <3>1. MotorData'
      BY <2>1, <2>6 DEF AlignedForOwnEstimator, EstimateFrictionAndInertia,
         MotorData, MachineData, Samplers
    <3>2. MachineData'
      BY <2>6, AdvanceKeeps, FieldNames, Zenon
         DEF AlignedForOwnEstimator, Steps, MotorData
    <3> QED
      BY <2>6, <3>1, <3>2, StoreUnchanged, Zenon
         DEF AlignedForOwnEstimator, Data
  <2>7. CASE AlignedForOverride
    <3>1. MotorData'
      BY <2>1, <2>7 DEF AlignedForOverride, Stop, MotorData, MachineData
    <3>2. MachineData'
      BY <2>7, AdvanceKeeps, FieldNames, Zenon
         DEF AlignedForOverride, Steps, MotorData
    <3> QED
      BY <2>7, <3>1, <3>2, StoreUnchanged, Zenon DEF AlignedForOverride, Data
  <2> QED
    BY <1>9, <2>2, <2>3, <2>4, <2>5, <2>6, <2>7 DEF AlignmentDone
<1>10. CASE MechanicalDone
  <2>1. onMechanicalDone' = NoRun /\ NoRun \in Callbacks
        /\ UNCHANGED <<electricalVars, onAlignmentDone>>
    BY <1>10, RunIsCallback, Zenon DEF MechanicalDone
  <2>2. sampler' \in Samplers
    BY <1>10, Zenon DEF MechanicalDone, MechanicalDropped, MechanicalFailed,
       MechanicalIdentified, FitConverged, FitTimedOut, OverrideAnswers,
       Samplers, MotorData
  <2>3. MotorData'
    BY <2>1, <2>2 DEF MotorData, electricalVars
  <2>4. CASE MechanicalDropped
    BY <2>3, <2>4, StoreUnchanged, MachineUnchanged, Zenon
       DEF MechanicalDropped, Data
  <2>5. CASE MechanicalFailed
    BY <2>3, <2>5, StoreUnchanged, FailWithKeeps, CodeNames, Zenon
       DEF MechanicalFailed, Data
  <2>6. CASE MechanicalIdentified
    <3>1. MachineData' /\ pendingData' \in Records
      BY <2>6, AdvanceKeeps, FieldNames, Zenon
         DEF MechanicalIdentified, MotorData, MachineData
    <3> QED
      BY <2>3, <2>6, <3>1, SaveKeeps, Zenon DEF MechanicalIdentified, Data
  <2> QED
    BY <1>10, <2>4, <2>5, <2>6 DEF MechanicalDone
<1>11. CASE SaveDone
  <2>1. StoreData'
    BY <1>11, StoreDoneKeeps, Zenon DEF SaveDone, StoreData
  <2>2. CASE SavedAndReady
    <3>1. MotorData'
      BY <1>11, <2>2, MotorUnchanged, Zenon
         DEF SaveDone, SavedAndReady, inverterVars
    <3> QED
      BY <2>1, <2>2, <3>1, ReadyKeeps, Zenon
         DEF SavedAndReady, MachineData, Data
  <2>3. CASE SavedTooLate
    BY <1>11, <2>1, <2>3, MotorUnchanged, MachineUnchanged, Zenon
       DEF SaveDone, SavedTooLate, inverterVars, Data
  <2> QED
    BY <1>11, <2>2, <2>3 DEF SaveDone
<1>12. CASE SaveFailed
  <2>1. StoreData'
    BY <1>12, StoreDoneKeeps, Zenon DEF SaveFailed, StoreData
  <2>2. MotorData'
    BY <1>12, MotorUnchanged, Zenon DEF SaveFailed, Stop, inverterVars
  <2>3. MachineData'
    BY <1>12, FailWithKeeps, MachineUnchanged, CodeNames, Zenon
       DEF SaveFailed
  <2> QED
    BY <2>1, <2>2, <2>3 DEF Data
<1>13. CASE InvalidateDone
  <2>1. MotorData' /\ StoreData'
    BY <1>13, MotorUnchanged, StoreDoneKeeps, Zenon
       DEF InvalidateDone, inverterVars
  <2>2. CASE InvalidationExpected
    <3>1. /\ Become("Idle") /\ calibrationData' = DefaultRecord
          /\ CompletePendingCommand("ok")
          /\ UNCHANGED <<mode, applied, onlineGains, lastFaultCode, run>>
      BY <1>13, <2>2, Zenon DEF InvalidateDone
    <3> QED
      BY <2>1, <3>1, DefaultIsRecord DEF Data, MachineData, Become,
         CompletePendingCommand, States, Results
  <2>3. CASE ~InvalidationExpected
    BY <1>13, <2>1, <2>3, MachineUnchanged, Zenon DEF InvalidateDone, Data
  <2> QED
    BY <2>2, <2>3
<1>14. CASE InvalidateFailed
  <2>1. StoreData'
    BY <1>14, StoreDoneKeeps, Zenon DEF InvalidateFailed, StoreData
  <2>2. MotorData'
    BY <1>14, MotorUnchanged, Zenon DEF InvalidateFailed, inverterVars
  <2>3. MachineData'
    BY <1>14, FailWithKeeps, MachineUnchanged, CodeNames, Zenon
       DEF InvalidateFailed
  <2> QED
    BY <2>1, <2>2, <2>3 DEF Data
<1> QED
  BY <1>1, <1>2, <1>3, <1>4, <1>5, <1>6, <1>7, <1>8, <1>9, <1>10, <1>11,
     <1>12, <1>13, <1>14 DEF Completions

LEMMA DataSampling == Data /\ Sampling => Data'
  BY SamplingDrives, MotorUnchanged, StoreUnchanged, MachineUnchanged, Zenon
     DEF Data

-----------------------------------------------------------------------------
(* Type correctness.                                                       *)

TypeInv == Switches /\ Data

LEMMA TypeInvImpliesTypeOK == TypeInv => TypeOK
<1>1. Switches => /\ pwm \in BOOLEAN /\ converting \in BOOLEAN
                  /\ timeoutTimer \in BOOLEAN /\ onIsValidDone \in BOOLEAN
  BY DEF Switches
<1> QED
  BY <1>1, RunIsCallback, Zenon DEF TypeInv, Data, MotorData, StoreData,
     MachineData, TypeOK, InverterTypeOK, ElectricalTypeOK, AlignmentTypeOK,
     MechanicalTypeOK, StoreTypeOK

LEMMA TypeInvInit == Init => TypeInv
  BY SwitchesInit, DataInit DEF TypeInv

LEMMA TypeInvStep == TypeInv /\ [Next]_vars => TypeInv'
<1>1. TypeInv /\ Next => TypeInv'
  BY SwitchesCommands, SwitchesEvents, SwitchesCompletions, SwitchesSampling,
     DataCommands, DataEvents, DataCompletions, DataSampling, Zenon
     DEF TypeInv, Next
<1>2. Switches /\ UNCHANGED vars => Switches'
  BY Zenon DEF Switches, vars, inverterVars, serviceVars, mechanicalVars,
     storeVars
<1>3. Data /\ UNCHANGED vars => Data'
  BY MotorUnchanged, StoreUnchanged, MachineUnchanged, Zenon
     DEF Data, vars, inverterVars
<1> QED
  BY <1>1, <1>2, <1>3, Zenon DEF TypeInv

\* Every variable keeps its type in every behaviour, whatever the number of
\* runs and sweep steps, the wiring of the modes and the disturbances: no
\* record is ever applied that the store has rejected, and the sweep never
\* counts past its last angle.
THEOREM TypeCorrect == Spec => []TypeOK
  BY TypeInvInit, TypeInvStep, TypeInvImpliesTypeOK, PTL DEF Spec
-----------------------------------------------------------------------------
(* Three safety properties.  Most handlers leave most of a property alone: *)
(* what each part of Next does to the machine and to the store comes first.*)

Quiet == UNCHANGED <<state, pendingCommand, applied, calibrationData>>

\* The identification services never touch the applied record or RAM's, and
\* they end the calibration they belong to or change no more than its step.
MeasurementEnds ==
  \/ Quiet
  \/ /\ state = "Calibrating" /\ state' = "Fault"
     /\ pendingCommand' = "none" /\ pwm' = FALSE

LEMMA MeasurementSteps ==
  PolePairsStep \/ PolePairsDone \/ ResistanceSettled \/ ResistanceDone
  \/ AlignmentStray \/ AlignmentDone \/ MechanicalDone
    => MeasurementEnds /\ (UNCHANGED onCalibrationDone
                           \/ state' = "Calibrating")
<1> USE DEF MeasurementEnds, Quiet, Advance, FailWith, Become,
            CompletePendingCommand, CalibrationStepFails, Stop, IsCalibrating,
            smVars, storeVars, recordVars, commandVars
<1>1. CASE PolePairsStep
  BY <1>1, Zenon DEF PolePairsStep
<1>2. CASE PolePairsDone
  BY <1>2, Zenon DEF PolePairsDone, PolePairsDropped, PolePairsFailed,
     PolePairsIdentified
<1>3. CASE ResistanceSettled
  BY <1>3, Zenon DEF ResistanceSettled
<1>4. CASE ResistanceDone
  BY <1>4, Zenon DEF ResistanceDone, ResistanceDropped, ResistanceFailed,
     ResistanceIdentified
<1>5. CASE AlignmentStray
  BY <1>5, Zenon DEF AlignmentStray
<1>6. CASE AlignmentDone
  BY <1>6, Zenon DEF AlignmentDone, AlignmentDropped, AlignmentFailed,
     AlignedAndSaved, AlignedWithoutEstimator, AlignedForOwnEstimator,
     AlignedForOverride
<1>7. CASE MechanicalDone
  BY <1>7, Zenon DEF MechanicalDone, MechanicalDropped, MechanicalFailed,
     MechanicalIdentified
<1> QED
  BY <1>1, <1>2, <1>3, <1>4, <1>5, <1>6, <1>7

-----------------------------------------------------------------------------
(* The applied record.  A load that found the machine Ready or Enabled     *)
(* would change the record in RAM under it; none can be in flight then,    *)
(* since a load is only requested in Idle and shares its slot with the save *)
(* and the erase that lead out of and into Ready.                          *)

NoLoadUnderfoot == state \in {"Ready", "Enabled"} => onCalibrationDone # "load"

TunedInv == TunedToRecord /\ NoLoadUnderfoot

LEMMA TunedInit == Init => TunedInv
  BY DEF Init, TunedInv, TunedToRecord, NoLoadUnderfoot

LEMMA TunedStep == TunedInv /\ [Next]_vars => TunedInv'
<1> SUFFICES ASSUME TunedInv, [Next]_vars PROVE TunedInv'
  OBVIOUS
<1> USE DEF TunedInv, TunedToRecord, NoLoadUnderfoot
<1>1. CASE CmdCalibrate
  BY <1>1, Zenon DEF CmdCalibrate
<1>2. CASE CmdEnable
  BY <1>2, Zenon DEF CmdEnable, MayEnable, Become, recordVars, storeVars
<1>3. CASE CmdDisable
  BY <1>3, Zenon DEF CmdDisable, Become, recordVars, storeVars
<1>4. CASE CmdClearFault
  BY <1>4, Zenon DEF CmdClearFault, Become
<1>5. CASE CmdClearCalibration
  BY <1>5 DEF CmdClearCalibration, RequestStore, recordVars
<1>6. CASE CmdEmergencyStop
  BY <1>6, Zenon DEF CmdEmergencyStop, Become, recordVars, storeVars
<1>7. CASE ApplyOnlineEstimates
  BY <1>7, Zenon DEF ApplyOnlineEstimates, storeVars
<1>8. CASE FaultNotified
  BY <1>8, Zenon DEF FaultNotified, FailWith, Become
<1>9. CASE Restart
  BY <1>9, Zenon DEF Restart, PowerUp, Become
<1>10. CASE BootCheckDone
  <2>1. UNCHANGED <<state, applied, calibrationData>>
    BY <1>10, Zenon DEF BootCheckDone, smVars
  <2>2. UNCHANGED onCalibrationDone \/ state = "Idle"
    BY <1>10, Zenon DEF BootCheckDone
  <2> QED
    BY <2>1, <2>2
<1>11. CASE BootLoadDone
  <2>1. onCalibrationDone = "load" /\ onCalibrationDone' = "none"
    BY <1>11, Zenon DEF BootLoadDone, StoreDone
  <2>2. CASE state = "Idle"
    BY <1>11, <2>1, <2>2, Zenon DEF BootLoadDone, ApplyAndEnterReady, Apply
  <2>3. CASE state # "Idle"
    <3>1. UNCHANGED state
      BY <1>11, <2>3, Zenon DEF BootLoadDone
    <3> QED
      BY <2>1, <3>1
  <2> QED
    BY <2>2, <2>3
<1>12. CASE BootLoadFailed
  BY <1>12, Zenon DEF BootLoadFailed, StoreDone, smVars
<1>13. CASE PolePairsStep \/ PolePairsDone \/ ResistanceSettled
            \/ ResistanceDone \/ AlignmentStray \/ AlignmentDone
            \/ MechanicalDone
  BY <1>13, MeasurementSteps, Zenon DEF MeasurementEnds, Quiet
<1>14. CASE SaveDone
  <2>1. onCalibrationDone' = "none"
    BY <1>14, Zenon DEF SaveDone, StoreDone
  <2>2. CASE SavedAndReady
    BY <2>1, <2>2, Zenon DEF SavedAndReady, ApplyAndEnterReady, Apply
  <2>3. CASE SavedTooLate
    BY <2>1, <2>3, Zenon DEF SavedTooLate, smVars
  <2> QED
    BY <1>14, <2>2, <2>3 DEF SaveDone
<1>15. CASE SaveFailed
  BY <1>15, Zenon DEF SaveFailed, StoreDone, FailWith, Become, smVars
<1>16. CASE InvalidateDone
  BY <1>16, Zenon DEF InvalidateDone, StoreDone, Become, smVars
<1>17. CASE InvalidateFailed
  BY <1>17, Zenon DEF InvalidateFailed, StoreDone, FailWith, Become, smVars
<1>18. CASE UNCHANGED vars \/ Sampling
  BY <1>18, SamplingDrives, Zenon DEF vars, smVars, storeVars
<1> QED
  BY <1>1, <1>2, <1>3, <1>4, <1>5, <1>6, <1>7, <1>8, <1>9, <1>10, <1>11,
     <1>12, <1>13, <1>14, <1>15, <1>16, <1>17, <1>18
     DEF Next, Commands, Events, Completions

\* In every state in which the control loops may run, pole pairs, encoder
\* zero and gains come from the record the machine holds in RAM, whatever
\* loads, saves and invalidations are in flight (EnterReady, the boot load
\* and the completions of the store).
THEOREM AppliedRecordIsHeld == Spec => []TunedToRecord
<1>1. TunedInv => TunedToRecord
  BY DEF TunedInv
<1> QED
  BY <1>1, TunedInit, TunedStep, PTL DEF Spec

-----------------------------------------------------------------------------
(* The pending callback.                                                   *)

LEMMA PendingInit == Init => PendingMatchesState
  BY DEF Init, PendingMatchesState

LEMMA PendingStep ==
  PendingMatchesState /\ [Next]_vars => PendingMatchesState'
<1> SUFFICES ASSUME PendingMatchesState, [Next]_vars
             PROVE  PendingMatchesState'
  OBVIOUS
<1> USE DEF PendingMatchesState
<1>1. CASE CmdCalibrate
  BY <1>1 DEF CmdCalibrate
<1>2. CASE CmdEnable
  BY <1>2 DEF CmdEnable, MayEnable, Become, commandVars
<1>3. CASE CmdDisable
  BY <1>3 DEF CmdDisable, Become, commandVars
<1>4. CASE CmdClearFault
  BY <1>4 DEF CmdClearFault, Become, commandVars
<1>5. CASE CmdClearCalibration
  BY <1>5 DEF CmdClearCalibration, IsStopped
<1>6. CASE CmdEmergencyStop
  <2>1. pendingCommand' = "none"
    BY <1>6 DEF CmdEmergencyStop, CompletePendingCommand
  <2>2. state' # "Calibrating"
    BY <1>6, Zenon DEF CmdEmergencyStop, IsActive, Become
  <2> QED
    BY <2>1, <2>2
<1>7. CASE ApplyOnlineEstimates
  BY <1>7 DEF ApplyOnlineEstimates, commandVars
<1>8. CASE FaultNotified
  BY <1>8 DEF FaultNotified, FailWith, Become, CompletePendingCommand
<1>9. CASE Restart
  BY <1>9 DEF Restart, PowerUp, Become
<1>10. CASE BootCheckDone \/ BootLoadFailed
  BY <1>10 DEF BootCheckDone, BootLoadFailed, smVars
<1>11. CASE BootLoadDone
  <2>1. UNCHANGED pendingCommand
    BY <1>11, Zenon DEF BootLoadDone, commandVars
  <2>2. UNCHANGED state \/ (state = "Idle" /\ state' = "Ready")
    BY <1>11, Zenon DEF BootLoadDone, ApplyAndEnterReady, Become
  <2> QED
    BY <2>1, <2>2
<1>12. CASE PolePairsStep \/ PolePairsDone \/ ResistanceSettled
            \/ ResistanceDone \/ AlignmentStray \/ AlignmentDone
            \/ MechanicalDone
  <2>1. UNCHANGED <<state, pendingCommand>>
        \/ (state' = "Fault" /\ pendingCommand' = "none")
    BY <1>12, MeasurementSteps, Zenon DEF MeasurementEnds, Quiet
  <2> QED
    BY <2>1
<1>13. CASE SaveDone
  <2>1. UNCHANGED <<state, pendingCommand>>
        \/ (state' = "Ready" /\ pendingCommand' = "none")
    BY <1>13, Zenon DEF SaveDone, SavedAndReady, SavedTooLate,
       ApplyAndEnterReady, Become, CompletePendingCommand, smVars
  <2> QED
    BY <2>1
<1>14. CASE SaveFailed
  <2>1. UNCHANGED <<state, pendingCommand>>
        \/ (state' = "Fault" /\ pendingCommand' = "none")
    BY <1>14, Zenon DEF SaveFailed, FailWith, Become,
       CompletePendingCommand, smVars
  <2> QED
    BY <2>1
<1>15. CASE InvalidateDone \/ InvalidateFailed
  <2>1. UNCHANGED <<state, pendingCommand>>
        \/ (state' \in {"Idle", "Fault"} /\ pendingCommand' = "none")
    BY <1>15, Zenon DEF InvalidateDone, InvalidateFailed, FailWith, Become,
       CompletePendingCommand, smVars
  <2> QED
    BY <2>1
<1>16. CASE UNCHANGED vars \/ Sampling
  BY <1>16, SamplingDrives, Zenon DEF vars, smVars
<1> QED
  BY <1>1, <1>2, <1>3, <1>4, <1>5, <1>6, <1>7, <1>8, <1>9, <1>10, <1>11,
     <1>12, <1>13, <1>14, <1>15, <1>16
     DEF Next, Commands, Events, Completions

\* A calibration's caller is waiting exactly while the calibration runs, and
\* no invalidation is still waited for in Fault: every handler that leaves
\* Calibrating answers, and no answer is given for a calibration that goes on
\* (pendingCommandCallback).
THEOREM CallerWaitsWhileCalibrating == Spec => []PendingMatchesState
  BY PendingInit, PendingStep, PTL DEF Spec

-----------------------------------------------------------------------------
(* The outputs of a motor that is no longer used.                          *)

Leaving ==
  \/ state \in {"Enabled", "Calibrating"} /\ state' \in {"Idle", "Fault"}
  \/ state = "Enabled" /\ state' = "Ready"

LEMMA LeavingStep == [Next]_vars /\ Leaving => ~pwm'
<1> SUFFICES ASSUME [Next]_vars, Leaving PROVE ~pwm'
  OBVIOUS
<1>0. IsActive /\ ~IsStopped /\ state # "Fault" /\ state' # state
  BY DEF Leaving, IsActive, IsStopped
<1>1. CASE Commands
  BY <1>0, <1>1, Zenon DEF Commands, CmdCalibrate, CmdEnable, CmdDisable,
     CmdClearFault, CmdClearCalibration, CmdEmergencyStop,
     ApplyOnlineEstimates, MayEnable, IsStopped, Stop
<1>2. CASE FaultNotified
  BY <1>0, <1>2, Zenon DEF FaultNotified
<1>3. CASE Restart
  BY <1>3, Zenon DEF Restart, PowerUp
<1>4. CASE BootCheckDone \/ BootLoadFailed
  BY <1>0, <1>4, Zenon DEF BootCheckDone, BootLoadFailed, smVars
<1>5. CASE BootLoadDone
  <2>1. state # "Idle"
    BY <1>0 DEF IsStopped
  <2> QED
    BY <1>0, <1>5, <2>1, Zenon DEF BootLoadDone
<1>6. CASE PolePairsStep \/ PolePairsDone \/ ResistanceSettled
           \/ ResistanceDone \/ AlignmentStray \/ AlignmentDone
           \/ MechanicalDone
  BY <1>0, <1>6, MeasurementSteps, Zenon DEF MeasurementEnds, Quiet
<1>7. CASE SaveDone
  <2>1. ~SavedAndReady
    BY DEF SavedAndReady, ApplyAndEnterReady, Become, Leaving
  <2> QED
    BY <1>0, <1>7, <2>1, Zenon DEF SaveDone, SavedTooLate, smVars
<1>8. CASE SaveFailed
  BY <1>0, <1>8, Zenon DEF SaveFailed, Stop, smVars
<1>9. CASE InvalidateDone \/ InvalidateFailed
  BY <1>0, <1>9, Zenon DEF InvalidateDone, InvalidateFailed,
     InvalidationExpected, smVars
<1>10. CASE UNCHANGED vars \/ Sampling
  BY <1>0, <1>10, SamplingDrives, Zenon DEF vars, smVars
<1> QED
  BY <1>1, <1>2, <1>3, <1>4, <1>5, <1>6, <1>7, <1>8, <1>9, <1>10
     DEF Next, Events, Completions

\* No step that stops using the motor leaves its outputs driven: Disable,
\* EmergencyStop, EnterFault and every failure path of a calibration stop the
\* inverter in the same handler.
THEOREM StoppingCutsPwm == Spec => LeavingCutsPwm
<1>1. [Next]_vars
      => [\/ state \in {"Enabled", "Calibrating"} /\ state' \in {"Idle", "Fault"}
          \/ state = "Enabled" /\ state' = "Ready"
          => ~pwm']_vars
  BY LeavingStep DEF Leaving
<1> QED
  BY <1>1, PTL DEF Spec, LeavingCutsPwm

-----------------------------------------------------------------------------
(* Who drives the outputs meanwhile, apart from the control loop, whose     *)
(* samples drive a stopped inverter too.  An armed settle timer means that no   *)
(* service has the samples, so neither can the timer take a measurement's   *)
(* callback away nor a measurement overwrite the timer; and without the     *)
(* service's own estimator no timeout takes the callback from either.       *)

Armed ==
  /\ settleTimer = "polePairs" => onPolePairsDone # NoRun
  /\ settleTimer = "resistance" => onResistanceDone # NoRun
  /\ settleTimer # "none" => sampler \in {"idle", "foc"}
  /\ MechIdent[mode] # "own" => sampler # "mechanical" /\ ~timeoutTimer
  /\ state = "Calibrating" => run # NoRun

DriveInv == Armed /\ DriveHasAnEnd

\* What the timers and the samples will do, apart from the outputs.
Registered == <<sampler, electricalVars, timeoutTimer, mode>>

NoNewRun == state' = "Calibrating" => state = "Calibrating" /\ run' = run

LEMMA ArmedKept == Armed /\ UNCHANGED Registered /\ NoNewRun => Armed'
<1> SUFFICES ASSUME Armed, UNCHANGED Registered, NoNewRun PROVE Armed'
  OBVIOUS
<1>1. UNCHANGED <<sampler, onPolePairsDone, onResistanceDone, settleTimer,
                  timeoutTimer, mode>>
  BY DEF Registered, electricalVars
<1>2. state' = "Calibrating" => run' # NoRun
  BY DEF Armed, NoNewRun
<1> QED
  BY <1>1, <1>2, Zenon DEF Armed

\* Handlers that leave the motor alone, and those that cut it.
LEMMA DriveKept ==
  /\ DriveInv /\ UNCHANGED Registered /\ UNCHANGED pwm /\ NoNewRun
  /\ state = "Enabled" => state' = "Enabled"
  => DriveInv'
<1> SUFFICES ASSUME DriveInv, UNCHANGED Registered, UNCHANGED pwm, NoNewRun,
                    state = "Enabled" => state' = "Enabled"
             PROVE  DriveHasAnEnd'
  BY ArmedKept, Zenon DEF DriveInv
<1> QED
  BY Zenon DEF DriveInv, DriveHasAnEnd, Registered, electricalVars

LEMMA DriveCut ==
  DriveInv /\ UNCHANGED Registered /\ pwm' = FALSE /\ NoNewRun => DriveInv'
  BY ArmedKept, Zenon DEF DriveInv, DriveHasAnEnd

LEMMA DriveAtFirst == Init => DriveInv
  BY Zenon DEF Init, DriveInv, Armed, DriveHasAnEnd, InverterInit,
     ElectricalInit, MechanicalInit

LEMMA DriveCommands == TypeInv /\ DriveInv /\ Commands => DriveInv'
<1> SUFFICES ASSUME TypeInv, DriveInv, Commands PROVE DriveInv'
  OBVIOUS
<1> USE DEF Registered, NoNewRun, inverterVars, serviceVars, electricalVars,
            mechanicalVars, Become, smVars
<1>1. CASE CmdCalibrate
  <2>1. run' # NoRun
    BY <1>1, RunIsCallback DEF CmdCalibrate, TypeInv, Data, MachineData,
       Callbacks, Runs, NoRun
  <2>2. /\ settleTimer' = "polePairs" /\ sampler' = "idle"
        /\ onPolePairsDone' = run'
        /\ UNCHANGED <<mode, timeoutTimer>>
    BY <1>1, Zenon DEF CmdCalibrate, EstimateNumberOfPolePairs, DriveFor
  <2>3. "polePairs" # "resistance" /\ "idle" # "mechanical"
    OBVIOUS
  <2> QED
    BY <2>1, <2>2, <2>3, Zenon DEF DriveInv, Armed, DriveHasAnEnd
<1>2. CASE CmdEnable
  <2>1. UNCHANGED Registered /\ state' = "Enabled"
    BY <1>2, Zenon DEF CmdEnable, Start
  <2>2. NoNewRun
    BY <2>1
  <2> QED
    BY <2>1, <2>2, ArmedKept, Zenon DEF DriveInv, DriveHasAnEnd
<1>3. CASE CmdDisable
  <2>1. UNCHANGED Registered /\ pwm' = FALSE /\ state' = "Ready"
    BY <1>3, Zenon DEF CmdDisable, Stop
  <2> QED
    BY <2>1, DriveCut
<1>4. CASE CmdClearFault
  <2>1. UNCHANGED <<Registered, pwm>> /\ state = "Fault" /\ state' = "Idle"
    BY <1>4, Zenon DEF CmdClearFault
  <2> QED
    BY <2>1, DriveKept
<1>5. CASE CmdClearCalibration
  <2>1. UNCHANGED <<Registered, pwm, state, run>>
    BY <1>5, Zenon DEF CmdClearCalibration
  <2> QED
    BY <2>1, DriveKept
<1>6. CASE CmdEmergencyStop
  <2>1. UNCHANGED <<Registered, run>> /\ pwm' = FALSE
    BY <1>6, Zenon DEF CmdEmergencyStop, Stop
  <2>2. state' = "Idle" \/ UNCHANGED state
    BY <1>6, Zenon DEF CmdEmergencyStop
  <2> QED
    BY <2>1, <2>2, DriveCut
<1>7. CASE ApplyOnlineEstimates
  <2>1. UNCHANGED <<Registered, pwm, state, run>>
    BY <1>7, Zenon DEF ApplyOnlineEstimates
  <2> QED
    BY <2>1, DriveKept
<1> QED
  BY <1>1, <1>2, <1>3, <1>4, <1>5, <1>6, <1>7 DEF Commands

LEMMA DriveEvents == DriveInv /\ Events => DriveInv'
<1> SUFFICES ASSUME DriveInv, Events PROVE DriveInv'
  OBVIOUS
<1>1. CASE FaultNotified
  <2>1. UNCHANGED Registered /\ state' = "Fault"
    BY <1>1, Zenon DEF FaultNotified, Registered, FailWith, Become,
       serviceVars, mechanicalVars
  <2>2. CASE IsActive
    <3>1. pwm' = FALSE
      BY <1>1, <2>2, Zenon DEF FaultNotified
    <3> QED
      BY <2>1, <3>1, DriveCut DEF NoNewRun
  <2>3. CASE ~IsActive
    <3>1. pwm' <=> pwm
      BY <1>1, <2>3, Zenon DEF FaultNotified
    <3>2. state # "Enabled"
      BY <2>3 DEF IsActive
    <3>3. Armed'
      BY <2>1, ArmedKept DEF NoNewRun, DriveInv
    <3> QED
      BY <2>1, <3>1, <3>2, <3>3, Zenon DEF DriveInv, DriveHasAnEnd,
         Registered, electricalVars
  <2> QED
    BY <2>2, <2>3
<1>2. CASE Restart
  BY <1>2, Zenon DEF Restart, PowerUp, Become, DriveInv, Armed, DriveHasAnEnd
<1> QED
  BY <1>1, <1>2 DEF Events

LEMMA DriveElectrical ==
  DriveInv /\ (PolePairsStep \/ PolePairsDone \/ ResistanceSettled
               \/ ResistanceDone)
    => DriveInv'
<1> SUFFICES ASSUME DriveInv, PolePairsStep \/ PolePairsDone
                              \/ ResistanceSettled \/ ResistanceDone
             PROVE  DriveInv'
  OBVIOUS
<1> USE DEF smVars, mechanicalVars
<1>1. CASE PolePairsStep
  <2>1. /\ settleTimer = "polePairs"
        /\ UNCHANGED <<sampler, onPolePairsDone, onResistanceDone, settleTimer,
                       timeoutTimer, mode, state, run>>
    BY <1>1, Zenon DEF PolePairsStep, NextElectricalAngle
  <2> QED
    BY <2>1, Zenon DEF DriveInv, Armed, DriveHasAnEnd
<1>2. CASE PolePairsDone
  <2>1. settleTimer = "polePairs" /\ onPolePairsDone' = NoRun
        /\ UNCHANGED <<timeoutTimer, mode, run>>
    BY <1>2, Zenon DEF PolePairsDone, SweepOver, PolePairsDropped,
       PolePairsFailed, PolePairsIdentified, CalibrationStepFails, FailWith,
       Advance
  <2>2. CASE PolePairsDropped \/ PolePairsFailed
    <3>1. /\ settleTimer' = "none" /\ pwm' = FALSE /\ UNCHANGED sampler
          /\ UNCHANGED state \/ state' = "Fault"
      BY <2>2, Zenon DEF PolePairsDropped, PolePairsFailed, Stop,
         CalibrationStepFails, FailWith, Become
    <3>2. "none" # "polePairs" /\ "none" # "resistance"
          /\ "Fault" # "Calibrating"
      OBVIOUS
    <3> QED
      BY <2>1, <3>1, <3>2, Zenon DEF DriveInv, Armed, DriveHasAnEnd
  <2>3. CASE PolePairsIdentified
    <3>1. /\ state = "Calibrating" /\ UNCHANGED state
          /\ onResistanceDone' = run /\ settleTimer' = "resistance"
          /\ sampler' = "idle"
      BY <2>3, Zenon DEF PolePairsIdentified, IsCalibrating, Advance,
         EstimateResistanceAndInductance, DriveFor
    <3>2. "resistance" # "polePairs" /\ "idle" # "mechanical"
      OBVIOUS
    <3> QED
      BY <2>1, <3>1, <3>2, Zenon DEF DriveInv, Armed, DriveHasAnEnd
  <2> QED
    BY <1>2, <2>2, <2>3 DEF PolePairsDone
<1>3. CASE ResistanceSettled
  <2>1. /\ settleTimer = "resistance" /\ settleTimer' = "none"
        /\ sampler' = "resistance" /\ pwm' = TRUE
        /\ UNCHANGED <<onPolePairsDone, onResistanceDone, timeoutTimer, mode,
                       state, run>>
    BY <1>3, Zenon DEF ResistanceSettled, ApplyTestVoltage, DriveFor
  <2>2. "none" # "polePairs" /\ "none" # "resistance"
        /\ "resistance" # "mechanical"
    OBVIOUS
  <2> QED
    BY <2>1, <2>2, Zenon DEF DriveInv, Armed, DriveHasAnEnd
<1>4. CASE ResistanceDone
  <2>1. /\ sampler = "resistance"
        /\ UNCHANGED <<settleTimer, onPolePairsDone, timeoutTimer, mode, run>>
    BY <1>4, Zenon DEF ResistanceDone, SamplesAnalyzed, SampleFor,
       ResistanceDropped, ResistanceFailed, ResistanceIdentified,
       CalibrationStepFails, FailWith, Advance
  <2>2. settleTimer = "none"
    BY <2>1 DEF DriveInv, Armed
  <2>3. /\ sampler' \in {"resistance", "alignment"}
        /\ pwm' = FALSE \/ (pwm' = TRUE /\ sampler' = "alignment")
    BY <1>4, <2>1, Zenon DEF ResistanceDone, ResistanceDropped,
       ResistanceFailed, ResistanceIdentified, CalibrationStepFails, Stop,
       ForceAlignment, DriveFor
  <2>4. state' = "Calibrating" => state = "Calibrating"
    BY <1>4 DEF ResistanceDone, ResistanceDropped,
       ResistanceFailed, ResistanceIdentified, CalibrationStepFails, FailWith,
       Become, Advance
  <2>5. Armed'
    BY <2>1, <2>2, <2>3, <2>4 DEF DriveInv, Armed
  <2>6. DriveHasAnEnd'
    BY <2>3, Zenon DEF DriveHasAnEnd
  <2> QED
    BY <2>5, <2>6 DEF DriveInv
<1> QED
  BY <1>1, <1>2, <1>3, <1>4

LEMMA DriveAlignment ==
  DriveInv /\ (AlignmentStray \/ AlignmentDone) => DriveInv'
<1> SUFFICES ASSUME DriveInv, AlignmentStray \/ AlignmentDone PROVE DriveInv'
  OBVIOUS
<1> USE DEF smVars, mechanicalVars
<1>1. /\ sampler = "alignment" /\ pwm' = FALSE
      /\ UNCHANGED <<electricalVars, mode, run>>
      /\ state' = "Calibrating" => state = "Calibrating"
  <2>1. CASE AlignmentStray
    BY <2>1, Zenon DEF AlignmentStray, StrayAlignmentSample, AlignmentOver,
       SampleFor, Stop
  <2>2. CASE AlignmentDone
    <3>1. sampler = "alignment" /\ UNCHANGED electricalVars
      BY <2>2, Zenon DEF AlignmentDone, AlignmentOver, SampleFor
    <3>2. pwm' = FALSE
      BY <2>2, Zenon DEF AlignmentDone, AlignmentDropped, AlignmentFailed,
         AlignedAndSaved, AlignedWithoutEstimator, AlignedForOwnEstimator,
         AlignedForOverride, CalibrationStepFails, Stop
    <3>3. UNCHANGED <<mode, run>> /\ (UNCHANGED state \/ state' = "Fault")
      BY <2>2, Zenon DEF AlignmentDone, AlignmentDropped, AlignmentFailed,
         AlignedAndSaved, AlignedWithoutEstimator, AlignedForOwnEstimator,
         AlignedForOverride, CalibrationStepFails, FailWith, Become, Advance
    <3> QED
      BY <3>1, <3>2, <3>3
  <2> QED
    BY <2>1, <2>2
<1>2. \/ UNCHANGED <<sampler, timeoutTimer>>
      \/ MechIdent[mode] = "own"
  BY Zenon DEF AlignmentStray, StrayAlignmentSample, AlignmentDone, Stop,
     AlignmentDropped, AlignmentFailed, AlignedAndSaved,
     AlignedWithoutEstimator, AlignedForOwnEstimator, AlignedForOverride,
     CalibrationStepFails
<1>3. settleTimer = "none"
  BY <1>1 DEF DriveInv, Armed
<1>4. Armed'
  BY <1>1, <1>2, <1>3 DEF DriveInv, Armed, electricalVars
<1> QED
  BY <1>1, <1>4, Zenon DEF DriveInv, DriveHasAnEnd

LEMMA DriveMechanical == DriveInv /\ MechanicalDone => DriveInv'
<1> SUFFICES ASSUME DriveInv, MechanicalDone PROVE DriveInv'
  OBVIOUS
<1>1. /\ UNCHANGED <<electricalVars, mode, run>>
      /\ UNCHANGED state \/ state' = "Fault"
      /\ UNCHANGED pwm \/ pwm' = FALSE
      /\ state' = "Fault" /\ state # "Fault" => pwm' = FALSE
  BY Zenon DEF MechanicalDone, MechanicalDropped, MechanicalFailed,
     MechanicalIdentified, FailWith, Become, Advance, smVars
<1>2. CASE UNCHANGED <<sampler, timeoutTimer>>
  <2>1. UNCHANGED Registered /\ NoNewRun
    BY <1>1, <1>2 DEF Registered, NoNewRun
  <2>2. CASE pwm' = FALSE
    BY <2>1, <2>2, DriveCut
  <2>3. CASE UNCHANGED pwm /\ UNCHANGED state
    BY <2>1, <2>3, DriveKept
  <2> QED
    BY <1>1, <2>2, <2>3
<1>3. CASE timeoutTimer' = FALSE /\ sampler' = "idle"
           /\ (timeoutTimer \/ sampler = "mechanical")
  <2>1. MechIdent[mode] = "own"
    BY <1>3, Zenon DEF DriveInv, Armed
  <2>2. Armed'
    BY <1>1, <1>3, Zenon DEF DriveInv, Armed, electricalVars
  <2> QED
    BY <1>1, <2>1, <2>2, Zenon DEF DriveInv, DriveHasAnEnd
<1> QED
  BY <1>2, <1>3, Zenon DEF MechanicalDone, MechanicalDropped,
     MechanicalFailed, MechanicalIdentified, FitConverged, FitTimedOut,
     OverrideAnswers, SampleFor

LEMMA DriveStore ==
  DriveInv /\ (BootCheckDone \/ BootLoadDone \/ BootLoadFailed \/ SaveDone
               \/ SaveFailed \/ InvalidateDone \/ InvalidateFailed)
    => DriveInv'
<1> SUFFICES ASSUME DriveInv,
                    BootCheckDone \/ BootLoadDone \/ BootLoadFailed \/ SaveDone
                    \/ SaveFailed \/ InvalidateDone \/ InvalidateFailed
             PROVE  DriveInv'
  OBVIOUS
<1> USE DEF smVars, serviceVars, electricalVars, mechanicalVars, inverterVars
<1>1. UNCHANGED Registered
  BY Zenon DEF Registered, BootCheckDone, BootLoadDone, BootLoadFailed,
     ApplyAndEnterReady, SaveDone, SavedAndReady, SavedTooLate, SaveFailed,
     FailWith, Stop, InvalidateDone, InvalidateFailed
<1>2. \/ UNCHANGED <<state, run, pwm>>
      \/ /\ state \in {"Idle", "Ready", "Calibrating"}
         /\ state' \in {"Idle", "Ready", "Fault"}
         /\ UNCHANGED pwm \/ pwm' = FALSE
  BY Zenon DEF BootCheckDone, BootLoadDone, BootLoadFailed,
     ApplyAndEnterReady, SaveDone, SavedAndReady, SavedTooLate, SaveFailed,
     FailWith, Stop, InvalidateDone, InvalidateFailed, Become,
     InvalidationExpected, IsStopped
<1>3. NoNewRun
  BY <1>2 DEF NoNewRun
<1>4. CASE pwm' = FALSE
  BY <1>1, <1>3, <1>4, DriveCut
<1>5. CASE UNCHANGED pwm
  <2>1. state = "Enabled" => state' = "Enabled"
    BY <1>2
  <2> QED
    BY <1>1, <1>3, <1>5, <2>1, DriveKept
<1> QED
  BY <1>2, <1>4, <1>5

\* The control loop drives what nothing ends, and nobody else's drive.
LEMMA DriveSampling == DriveInv /\ Sampling => DriveInv'
<1> SUFFICES ASSUME DriveInv, Sampling PROVE DriveInv'
  OBVIOUS
<1>1. UNCHANGED <<Registered, state, run>>
  BY SamplingDrives, Zenon DEF Registered, serviceVars, mechanicalVars, smVars
<1>2. NoNewRun
  BY <1>1 DEF NoNewRun
<1>3. CASE UNCHANGED pwm
  BY <1>1, <1>2, <1>3, DriveKept
<1>4. CASE sampler = "foc"
  <2>1. sampler' = "foc"
    BY <1>1, <1>4 DEF Registered
  <2> QED
    BY <1>1, <1>2, <2>1, ArmedKept, Zenon DEF DriveInv, DriveHasAnEnd
<1> QED
  BY SamplingDrives, <1>3, <1>4

LEMMA DriveStep == TypeInv /\ DriveInv /\ [Next]_vars => DriveInv'
<1>1. DriveInv /\ UNCHANGED vars => DriveInv'
  BY DriveKept DEF vars, inverterVars, serviceVars, mechanicalVars, smVars,
     Registered, NoNewRun
<1> QED
  BY <1>1, DriveCommands, DriveEvents, DriveElectrical, DriveAlignment,
     DriveMechanical, DriveStore, DriveSampling, Zenon DEF Next, Completions

\* A motor that is driven without being enabled, and whose samples the control
\* loop no longer has, is driven by a measurement that a timer or a sample
\* will end and whose report somebody is registered for: a stale settle timer
\* may switch the outputs on again after an abort, and conversions in flight
\* may be delivered to whoever has the samples by then, but never for good
\* (the settle timer and the sampling callbacks of the identification
\* services).  The control loop is excepted, because nothing ends its drive.
THEOREM DrivesAreEnded == Spec => []DriveHasAnEnd
<1>1. Init => TypeInv /\ DriveInv
  BY TypeInvInit, DriveAtFirst
<1>2. TypeInv /\ DriveInv /\ [Next]_vars => (TypeInv /\ DriveInv)'
  BY TypeInvStep, DriveStep
<1>3. DriveInv => DriveHasAnEnd
  BY DEF DriveInv
<1> QED
  BY <1>1, <1>2, <1>3, PTL DEF Spec

-----------------------------------------------------------------------------
(* FocStateMachine implements MotorLifecycle, and its answers tell what     *)
(* became of the command; one step per handler.                             *)

LifecycleInv == TypeInv /\ TunedInv /\ PendingMatchesState

LEMMA LifecycleInvInit == Init => LifecycleInv
  BY TypeInvInit, TunedInit, PendingInit DEF LifecycleInv

LEMMA LifecycleInvStep == LifecycleInv /\ [Next]_vars => LifecycleInv'
  BY TypeInvStep, TunedStep, PendingStep DEF LifecycleInv

\* A record is never mistaken for none.
LEMMA RecordIsNotBlank == ASSUME NEW record \in Records PROVE record # Blank
  BY BlankAssumption

\* A motor in Ready or Enabled is tuned.
LEMMA ReadyIsTuned ==
  LifecycleInv /\ state \in {"Ready", "Enabled"} => applied # Blank
<1>1. LifecycleInv => calibrationData \in Records
  BY DEF LifecycleInv, TypeInv, Data, MachineData
<1> QED
  BY <1>1, RecordIsNotBlank DEF LifecycleInv, TunedInv, TunedToRecord

-----------------------------------------------------------------------------
(* What a caller and a user see of a step.                                 *)

Seen == <<state, pendingCommand, answer, applied>>

\* An identification service is either not seen or fails the calibration.
LEMMA MeasurementsFailOrHide ==
  PolePairsStep \/ PolePairsDone \/ ResistanceSettled \/ ResistanceDone
  \/ AlignmentStray \/ AlignmentDone \/ MechanicalDone
    => \/ UNCHANGED Seen
       \/ FailWith("calibrationFailed", "calibrationFailed")
       \/ FailWith("abortedByFault", "calibrationFailed")
<1> USE DEF Seen, Advance, CalibrationStepFails, smVars, recordVars, commandVars
<1>1. CASE PolePairsStep
  BY <1>1, Zenon DEF PolePairsStep
<1>2. CASE PolePairsDone
  BY <1>2, Zenon DEF PolePairsDone, PolePairsDropped, PolePairsFailed,
     PolePairsIdentified
<1>3. CASE ResistanceSettled
  BY <1>3, Zenon DEF ResistanceSettled
<1>4. CASE ResistanceDone
  BY <1>4, Zenon DEF ResistanceDone, ResistanceDropped, ResistanceFailed,
     ResistanceIdentified
<1>5. CASE AlignmentStray
  BY <1>5, Zenon DEF AlignmentStray
<1>6. CASE AlignmentDone
  BY <1>6, Zenon DEF AlignmentDone, AlignmentDropped, AlignmentFailed,
     AlignedAndSaved, AlignedWithoutEstimator, AlignedForOwnEstimator,
     AlignedForOverride
<1>7. CASE MechanicalDone
  BY <1>7, Zenon DEF MechanicalDone, MechanicalDropped, MechanicalFailed,
     MechanicalIdentified
<1> QED
  BY <1>1, <1>2, <1>3, <1>4, <1>5, <1>6, <1>7

-----------------------------------------------------------------------------
(* The refinement.                                                         *)

Step == Lifecycle!Next \/ UNCHANGED <<state, pendingCommand, applied>>

\* Whatever fails a calibration or reports a fault enters Fault.
LEMMA FailingIsEnterFault ==
  ASSUME NEW result, NEW code, FailWith(result, code)
  PROVE  Lifecycle!EnterFault
  BY Zenon DEF FailWith, Become, CompletePendingCommand, recordVars,
     Lifecycle!EnterFault

LEMMA LifecycleCommands == LifecycleInv /\ Commands => Step
<1> SUFFICES ASSUME LifecycleInv, Commands PROVE Step
  OBVIOUS
<1> USE DEF Step, Lifecycle!Next, Become, recordVars, commandVars, IsStopped,
            Lifecycle!Stopped, HasPendingCommand
<1>1. CASE CmdCalibrate
  <2>1. Lifecycle!Calibrate
    BY <1>1, Zenon DEF CmdCalibrate, Lifecycle!Calibrate
  <2> QED
    BY <2>1
<1>2. CASE CmdEnable
  <2>1. applied # Blank
    BY <1>2, ReadyIsTuned DEF CmdEnable, MayEnable
  <2>2. Lifecycle!Enable
    BY <1>2, <2>1, Zenon DEF CmdEnable, MayEnable, Lifecycle!Enable
  <2> QED
    BY <2>2
<1>3. CASE CmdDisable
  <2>1. Lifecycle!Disable
    BY <1>3, Zenon DEF CmdDisable, Lifecycle!Disable
  <2> QED
    BY <2>1
<1>4. CASE CmdClearFault
  <2>1. Lifecycle!ClearFault
    BY <1>4, Zenon DEF CmdClearFault, Lifecycle!ClearFault
  <2> QED
    BY <2>1
<1>5. CASE CmdClearCalibration
  <2>1. Lifecycle!Clear
    BY <1>5, Zenon DEF CmdClearCalibration, Lifecycle!Clear
  <2> QED
    BY <2>1
<1>6. CASE CmdEmergencyStop
  <2>1. state' = IF state \in {"Enabled", "Calibrating"} THEN "Idle" ELSE state
    BY <1>6 DEF CmdEmergencyStop, IsActive
  <2>2. Lifecycle!Abort
    BY <1>6, <2>1, Zenon DEF CmdEmergencyStop, CompletePendingCommand,
       Lifecycle!Abort
  <2> QED
    BY <2>2
<1>7. CASE ApplyOnlineEstimates
  BY <1>7, Zenon DEF ApplyOnlineEstimates
<1> QED
  BY <1>1, <1>2, <1>3, <1>4, <1>5, <1>6, <1>7 DEF Commands

LEMMA LifecycleEvents == Events => Step
<1>1. FaultNotified => Lifecycle!EnterFault
  BY FailingIsEnterFault, Zenon DEF FaultNotified
<1>2. Restart => Lifecycle!PowerCycle
  BY Zenon DEF Restart, PowerUp, Become, Lifecycle!PowerCycle
<1> QED
  BY <1>1, <1>2 DEF Events, Step, Lifecycle!Next

LEMMA LifecycleCompletions == LifecycleInv /\ Completions => Step
<1> SUFFICES ASSUME LifecycleInv, Completions PROVE Step
  OBVIOUS
<1> USE DEF Step, Lifecycle!Next, smVars
<1>1. CASE BootCheckDone \/ BootLoadFailed
  BY <1>1, Zenon DEF BootCheckDone, BootLoadFailed
<1>2. CASE BootLoadDone
  <2>1. CASE state = "Idle"
    <3>1. stored # Blank
      BY <1>2, Zenon DEF BootLoadDone, RecordValid
    <3>2. Lifecycle!BecomeReady
      BY <1>2, <2>1, <3>1, Zenon DEF BootLoadDone, ApplyAndEnterReady, Apply,
         Become, commandVars, Lifecycle!BecomeReady
    <3> QED
      BY <3>2
  <2>2. CASE state # "Idle"
    BY <1>2, <2>2, Zenon DEF BootLoadDone, commandVars
  <2> QED
    BY <2>1, <2>2
<1>3. CASE PolePairsStep \/ PolePairsDone \/ ResistanceSettled
           \/ ResistanceDone \/ AlignmentStray \/ AlignmentDone
           \/ MechanicalDone
  BY <1>3, MeasurementsFailOrHide, FailingIsEnterFault, Zenon DEF Seen
<1>4. CASE SaveDone
  <2>1. CASE SavedAndReady
    <3>1. pendingData # Blank
      BY RecordIsNotBlank DEF LifecycleInv, TypeInv, Data, MachineData
    <3>2. Lifecycle!BecomeReady
      BY <2>1, <3>1, Zenon DEF SavedAndReady, ApplyAndEnterReady, Apply, Become,
         CompletePendingCommand, Lifecycle!BecomeReady
    <3> QED
      BY <3>2
  <2>2. CASE SavedTooLate
    BY <2>2, Zenon DEF SavedTooLate
  <2> QED
    BY <1>4, <2>1, <2>2 DEF SaveDone
<1>5. CASE SaveFailed
  BY <1>5, FailingIsEnterFault, Zenon DEF SaveFailed
<1>6. CASE InvalidateDone
  <2>1. CASE InvalidationExpected
    <3>1. IsStopped /\ pendingCommand = "clear"
      BY <2>1 DEF InvalidationExpected, HasPendingCommand, IsStopped,
         LifecycleInv, TypeInv, Data, MachineData, PendingMatchesState
    <3>2. Lifecycle!Cleared
      BY <1>6, <2>1, <3>1, Zenon DEF InvalidateDone, Become, IsStopped,
         CompletePendingCommand, Lifecycle!Cleared, Lifecycle!Stopped
    <3> QED
      BY <3>2
  <2>2. CASE ~InvalidationExpected
    BY <1>6, <2>2, Zenon DEF InvalidateDone
  <2> QED
    BY <2>1, <2>2
<1>7. CASE InvalidateFailed
  BY <1>7, FailingIsEnterFault, Zenon DEF InvalidateFailed
<1> QED
  BY <1>1, <1>2, <1>3, <1>4, <1>5, <1>6, <1>7 DEF Completions

\* The state machine with all its services implements the lifecycle: Enabled
\* only from Ready, Ready only with controllers set from a record, one answer
\* for each command, whatever callbacks of aborted calibrations are delivered
\* and whenever the power fails (every handler of FocStateMachineCommon).
THEOREM LifecycleImplemented == Spec => ImplementsLifecycle
<1>1. Init => Lifecycle!Init
  BY DEF Init, Lifecycle!Init
<1>2. LifecycleInv /\ [Next]_vars => [Lifecycle!Next]_(Lifecycle!lifecycleVars)
  <2>1. UNCHANGED vars \/ Sampling => Step
    BY SamplingDrives, Zenon DEF vars, smVars, Step
  <2>2. Step => [Lifecycle!Next]_(Lifecycle!lifecycleVars)
    BY Zenon DEF Step, Lifecycle!lifecycleVars
  <2> QED
    BY <2>1, <2>2, LifecycleCommands, LifecycleEvents, LifecycleCompletions
       DEF Next
<1> QED
  BY <1>1, <1>2, LifecycleInvInit, LifecycleInvStep, PTL
     DEF Spec, ImplementsLifecycle, Lifecycle!Spec

-----------------------------------------------------------------------------
(* The answers.                                                            *)

Answered == HasPendingCommand /\ pendingCommand' = "none" /\ ~(answer' = "none")

Told ==
  CASE answer' = "ok" ->
          /\ state' = IF pendingCommand = "clear" THEN "Idle" ELSE "Ready"
          /\ stored' # Blank <=> pendingCommand = "calibrate"
    [] answer' \in {"calibrationFailed", "nvmFailed"} ->
          /\ state' = "Fault"
          /\ lastFaultCode' = IF pendingCommand = "clear"
                              THEN "hardwareFault"
                              ELSE "calibrationFailed"
    [] OTHER -> state' # "Enabled" /\ state' # "Calibrating"

\* A handler that answers nothing has nothing to tell.
LEMMA SilentSteps == UNCHANGED pendingCommand => ~Answered
  BY DEF Answered, HasPendingCommand

LEMMA AbortIsTold ==
  ASSUME answer' = "abortedByFault", state' # "Enabled", state' # "Calibrating"
  PROVE  Told
  BY DEF Told

\* A failed step of a calibration, or a failed erase of an idle machine.
LEMMA FailureIsTold ==
  ASSUME HasPendingCommand,
         NEW result \in {"calibrationFailed", "nvmFailed"},
         \/ /\ pendingCommand # "clear"
            /\ FailWith(result, "calibrationFailed")
         \/ /\ pendingCommand = "clear"
            /\ FailWith(result, "hardwareFault")
  PROVE  Told
<1>1. answer' = result /\ state' = "Fault"
      /\ lastFaultCode' = IF pendingCommand = "clear" THEN "hardwareFault"
                          ELSE "calibrationFailed"
  BY DEF FailWith, Become, CompletePendingCommand
<1> QED
  BY <1>1 DEF Told

LEMMA CommandsTell == LifecycleInv /\ Commands /\ Answered => Told
<1> SUFFICES ASSUME LifecycleInv, Commands, Answered PROVE Told
  OBVIOUS
<1>1. CASE CmdCalibrate \/ CmdClearCalibration
  BY <1>1, Zenon DEF CmdCalibrate, CmdClearCalibration, Answered
<1>2. CASE CmdEnable \/ CmdDisable \/ CmdClearFault \/ ApplyOnlineEstimates
  <2>1. UNCHANGED pendingCommand
    BY <1>2, Zenon DEF CmdEnable, CmdDisable, CmdClearFault,
       ApplyOnlineEstimates, commandVars
  <2> QED
    BY <2>1, SilentSteps
<1>3. CASE CmdEmergencyStop
  <2>1. answer' = "abortedByFault"
    BY <1>3 DEF CmdEmergencyStop, CompletePendingCommand, Answered
  <2>2. state' # "Enabled" /\ state' # "Calibrating"
    BY <1>3 DEF CmdEmergencyStop, IsActive, Become
  <2> QED
    BY <2>1, <2>2, AbortIsTold
<1> QED
  BY <1>1, <1>2, <1>3 DEF Commands

LEMMA EventsTell == Events /\ Answered => Told
<1>1. ASSUME FaultNotified, Answered PROVE Told
  <2>1. answer' = "abortedByFault" /\ state' = "Fault"
    BY <1>1 DEF FaultNotified, FailWith, Become, CompletePendingCommand, Answered
  <2> QED
    BY <2>1, AbortIsTold
<1>2. Restart => ~Answered
  BY DEF Restart, PowerUp, Answered
<1> QED
  BY <1>1, <1>2 DEF Events

LEMMA CompletionsTell == LifecycleInv /\ Completions /\ Answered => Told
<1> SUFFICES ASSUME LifecycleInv, Completions, Answered PROVE Told
  OBVIOUS
<1>0. /\ HasPendingCommand /\ pendingCommand' # pendingCommand
      /\ pendingCommand = "calibrate" <=> state = "Calibrating"
      /\ pendingCommand \in {"calibrate", "clear"}
  BY DEF Answered, HasPendingCommand, LifecycleInv, TypeInv, Data, MachineData,
     PendingMatchesState
<1>1. CASE BootCheckDone \/ BootLoadDone \/ BootLoadFailed
  BY <1>0, <1>1, Zenon DEF BootCheckDone, BootLoadDone, BootLoadFailed, smVars,
     commandVars
<1>2. CASE PolePairsStep \/ PolePairsDone \/ ResistanceSettled
           \/ ResistanceDone \/ AlignmentStray \/ AlignmentDone
           \/ MechanicalDone
  <2>1. \/ FailWith("calibrationFailed", "calibrationFailed")
        \/ FailWith("abortedByFault", "calibrationFailed")
    BY <1>0, <1>2, MeasurementsFailOrHide, Zenon DEF Seen
  <2>2. state = "Calibrating"
    BY <1>0, <1>2, MeasurementSteps, Zenon DEF MeasurementEnds, Quiet
  <2>3. CASE FailWith("calibrationFailed", "calibrationFailed")
    BY <1>0, <2>2, <2>3, FailureIsTold
  <2>4. CASE FailWith("abortedByFault", "calibrationFailed")
    <3>1. answer' = "abortedByFault" /\ state' = "Fault"
      BY <1>0, <2>4 DEF FailWith, Become, CompletePendingCommand
    <3> QED
      BY <3>1, AbortIsTold
  <2> QED
    BY <2>1, <2>3, <2>4
<1>3. CASE SaveDone
  <2>1. SavedAndReady /\ StoreDone("save", saving)
    BY <1>0, <1>3, Zenon DEF SaveDone, SavedTooLate, smVars
  <2>2. stored' # Blank
    BY <2>1, RecordIsNotBlank DEF StoreDone, LifecycleInv, TypeInv, Data,
       StoreData
  <2>3. answer' = "ok" /\ state' = "Ready" /\ pendingCommand = "calibrate"
    BY <1>0, <2>1 DEF SavedAndReady, ApplyAndEnterReady, Become,
       CompletePendingCommand
  <2> QED
    BY <2>2, <2>3 DEF Told
<1>4. CASE SaveFailed
  <2>1. state = "Calibrating" /\ FailWith("nvmFailed", "calibrationFailed")
    BY <1>0, <1>4, Zenon DEF SaveFailed, smVars
  <2> QED
    BY <1>0, <2>1, FailureIsTold
<1>5. CASE InvalidateDone
  <2>1. InvalidationExpected /\ StoreDone("invalidate", Blank)
    BY <1>0, <1>5, Zenon DEF InvalidateDone, smVars
  <2>2. pendingCommand = "clear"
    BY <1>0, <2>1 DEF InvalidationExpected, IsStopped
  <2>3. answer' = "ok" /\ state' = "Idle" /\ stored' = Blank
    BY <1>0, <1>5, <2>1 DEF InvalidateDone, Become, CompletePendingCommand,
       StoreDone
  <2> QED
    BY <2>2, <2>3 DEF Told
<1>6. CASE InvalidateFailed
  <2>1. InvalidationExpected /\ FailWith("nvmFailed", "hardwareFault")
    BY <1>0, <1>6, Zenon DEF InvalidateFailed, smVars
  <2>2. pendingCommand = "clear"
    BY <1>0, <2>1 DEF InvalidationExpected, IsStopped
  <2> QED
    BY <1>0, <2>1, <2>2, FailureIsTold
<1> QED
  BY <1>1, <1>2, <1>3, <1>4, <1>5, <1>6 DEF Completions

\* The caller of a command is told what became of the machine and of the
\* record, in every order of late callbacks, faults and power failures
\* (CompletePendingCommand at every place that calls it).
THEOREM AnswersAreTrue == Spec => AnswersTellOutcome
<1>1. LifecycleInv /\ [Next]_vars => [Answered => Told]_vars
  <2>1. Sampling => ~Answered
    BY SamplingDrives, SilentSteps, Zenon DEF smVars
  <2> QED
    BY <2>1, CommandsTell, EventsTell, CompletionsTell DEF Next
<1> QED
  BY <1>1, LifecycleInvInit, LifecycleInvStep, PTL
     DEF Spec, AnswersTellOutcome, Answered, Told

-----------------------------------------------------------------------------
(* Whose measurements a calibration works on, and what reaches the region. *)

\* A step has this run's callback registered where its answer comes from, and
\* the fields of the earlier steps filled.  An alignment may find the service
\* taken by an aborted run; then its samples do not reach the service.
OwnData ==
    state = "Calibrating" =>
        /\ step \in Steps /\ run \in Runs
        /\ step = "polePairs" =>
             onPolePairsDone = run /\ pendingData = DefaultRecord
        /\ step = "resistanceAndInductance" =>
             /\ onResistanceDone = run
             /\ pendingData["polePairs"] = run
             /\ pendingData["resistance"] = NoRun
             /\ pendingData["alignment"] = NoRun
             /\ pendingData["mechanical"] = NoRun
        /\ step = "alignment" =>
             /\ sampler = "alignment" => onAlignmentDone \in {NoRun, run}
             /\ pendingData["polePairs"] = run
             /\ pendingData["resistance"] = run
             /\ pendingData["alignment"] \in {NoRun, run}
             /\ pendingData["mechanical"] = NoRun
        /\ step = "frictionAndInertia" =>
             /\ MechIdent[mode] # "unused"
             /\ onMechanicalDone \in {NoRun, run}
             /\ pendingData["polePairs"] = run
             /\ pendingData["resistance"] = run
             /\ pendingData["alignment"] = run
             /\ pendingData["mechanical"] \in {NoRun, run}

\* A save writes, and the region holds, the whole result of one run in a mode
\* of M: the active one, or any if selections replace the machine.
WholeOf(M, record) == \E m \in M, r \in Runs : record = WholeRecord(m, r)

StoreHolds(M, operation, written, content) ==
    /\ operation = "save" => WholeOf(M, written)
    /\ content # Blank => WholeOf(M, content)

StoreWhole(M) == StoreHolds(M, onCalibrationDone, saving, stored)
StoreStaysWhole(M) == StoreHolds(M, onCalibrationDone', saving', stored')

Measured(M) == OwnData /\ StoreWhole(M)
StaysMeasured(M) == OwnData' /\ StoreStaysWhole(M)

-----------------------------------------------------------------------------
(* What leaves the measurements alone.                                     *)

LEMMA OwnDataKept ==
  ASSUME OwnData, UNCHANGED <<state, step, pendingData, run, mode>>,
         onPolePairsDone' = onPolePairsDone \/ ~IsCalibrating("polePairs"),
         \/ onResistanceDone' = onResistanceDone
         \/ ~IsCalibrating("resistanceAndInductance"),
         sampler' = "alignment" => sampler = "alignment",
         onAlignmentDone' \in {onAlignmentDone, NoRun},
         onMechanicalDone' \in {onMechanicalDone, NoRun}
  PROVE  OwnData'
  BY Zenon DEF OwnData, IsCalibrating

LEMMA StoreKept ==
  ASSUME NEW M, StoreWhole(M),
         stored' \in {stored, Blank} \/ (onCalibrationDone = "save" /\ stored' = saving),
         onCalibrationDone' = "save" => onCalibrationDone = "save" /\ saving' = saving
  PROVE  StoreStaysWhole(M)
  BY Zenon DEF StoreWhole, StoreStaysWhole, StoreHolds

\* A saved record is whole, or the request is dropped.
LEMMA SaveOfWhole ==
  ASSUME NEW M, StoreWhole(M), mode \in M, NEW record, SaveCalibration(record),
         NEW r \in Runs, record = WholeRecord(mode, r)
  PROVE  StoreStaysWhole(M)
  <1>1. stored' = stored /\ WholeOf(M, record)
    BY Zenon DEF SaveCalibration, WholeOf
  <1>2. onCalibrationDone' = "save"
        => saving' = record \/ (onCalibrationDone = "save" /\ saving' = saving)
    BY Zenon DEF SaveCalibration
  <1> QED
    BY <1>1, <1>2, Zenon DEF StoreWhole, StoreStaysWhole, StoreHolds

\* Outside a calibration there is nothing to keep.
LEMMA NoCalibration == state' # "Calibrating" => OwnData'
  BY DEF OwnData

LEMMA MeasurementsAtFirst ==
  ASSUME NEW M, Init
  PROVE  Measured(M)
  BY SMT DEF Init, Measured, OwnData, StoreWhole, StoreHolds

-----------------------------------------------------------------------------
(* One lemma per group of handlers.                                        *)

LEMMA CommandsKeepMeasurements ==
  ASSUME TypeOK, NEW M, mode \in M, Measured(M), Commands \/ Events
  PROVE  StaysMeasured(M)
  <1>1. CASE CmdCalibrate
    <2>1. run' \in Runs
      <3>1. run' = run + 1 /\ run < MaxRuns
        BY <1>1, Zenon DEF CmdCalibrate
      <3>2. run \in 0 .. MaxRuns
        BY Zenon DEF TypeOK
      <3> QED
        BY <3>1, <3>2, RunsAssumption, SMT DEF Runs
    <2>2. OwnData'
      BY <1>1, <2>1, SMT DEF CmdCalibrate, EstimateNumberOfPolePairs, OwnData, Steps
    <2>3. StoreStaysWhole(M)
      BY <1>1, StoreKept, Zenon DEF CmdCalibrate, storeVars, Measured, StaysMeasured
    <2> QED
      BY <2>2, <2>3 DEF Measured, StaysMeasured
  <1>2. CASE CmdEnable \/ CmdDisable \/ CmdClearFault \/ CmdEmergencyStop
             \/ ApplyOnlineEstimates \/ FaultNotified
    <2>1. state' # "Calibrating" /\ UNCHANGED <<mode, storeVars>>
      BY <1>2, SMT DEF CmdEnable, CmdDisable, CmdClearFault, CmdEmergencyStop,
         ApplyOnlineEstimates, FaultNotified, FailWith, Become, IsActive
    <2> QED
      BY <2>1, NoCalibration, StoreKept, Zenon DEF storeVars, Measured, StaysMeasured
  <1>3. CASE CmdClearCalibration
    <2>1. state' # "Calibrating" /\ UNCHANGED <<mode, stored, saving>>
          /\ onCalibrationDone' \in {onCalibrationDone, "invalidate"}
      BY <1>3, SMT DEF CmdClearCalibration, RequestStore, IsStopped
    <2> QED
      BY <2>1, NoCalibration, StoreKept, Zenon DEF Measured, StaysMeasured
  <1>4. CASE Restart
    <2>1. state' # "Calibrating" /\ UNCHANGED mode /\ onCalibrationDone' = "none"
          /\ \/ stored' \in {stored, Blank}
             \/ onCalibrationDone = "save" /\ stored' = saving
      BY <1>4, SMT DEF Restart, PowerUp, Become, AfterPowerCycle
    <2> QED
      BY <2>1, NoCalibration, StoreKept, Zenon DEF Measured, StaysMeasured
  <1> QED
    BY <1>1, <1>2, <1>3, <1>4, Zenon DEF Commands, Events

LEMMA StoreEventsKeepMeasurements ==
  ASSUME NEW M, mode \in M, Measured(M),
         \/ BootCheckDone \/ BootLoadDone \/ BootLoadFailed
         \/ SaveDone \/ SaveFailed \/ InvalidateDone \/ InvalidateFailed
  PROVE  StaysMeasured(M)
  <1>1. UNCHANGED <<mode, onPolePairsDone, onResistanceDone, onAlignmentDone,
                    onMechanicalDone, sampler>>
    BY Zenon DEF BootCheckDone, BootLoadDone, BootLoadFailed, SaveDone, SaveFailed,
       InvalidateDone, InvalidateFailed, SavedAndReady, SavedTooLate,
       ApplyAndEnterReady, FailWith, Stop, inverterVars, serviceVars,
       electricalVars, mechanicalVars, smVars
  <1>2. state' # "Calibrating" \/ UNCHANGED <<state, step, pendingData, run>>
    BY SMT DEF BootCheckDone, BootLoadDone, BootLoadFailed, SaveDone, SaveFailed,
       InvalidateDone, InvalidateFailed, SavedAndReady, SavedTooLate,
       ApplyAndEnterReady, FailWith, Become, smVars
  <1>3. OwnData'
    BY <1>1, <1>2, NoCalibration, OwnDataKept, Zenon DEF Measured, StaysMeasured
  <1>4. /\ \/ stored' \in {stored, Blank}
           \/ onCalibrationDone = "save" /\ stored' = saving
        /\ onCalibrationDone' = "save" => onCalibrationDone = "save" /\ saving' = saving
    BY SMT DEF BootCheckDone, BootLoadDone, BootLoadFailed, SaveDone, SaveFailed,
       InvalidateDone, InvalidateFailed, StoreDone, RequestStore, StoreBusy
  <1> QED
    BY <1>1, <1>3, <1>4, StoreKept, Zenon DEF Measured, StaysMeasured

LEMMA ElectricalKeepsMeasurements ==
  ASSUME TypeOK, NEW M, mode \in M, Measured(M),
         PolePairsStep \/ PolePairsDone \/ ResistanceSettled \/ ResistanceDone
  PROVE  StaysMeasured(M)
  <1>1. UNCHANGED <<mode, storeVars>>
    BY Zenon DEF PolePairsStep, PolePairsDone, ResistanceSettled, ResistanceDone,
       PolePairsDropped, PolePairsFailed, PolePairsIdentified, ResistanceDropped,
       ResistanceFailed, ResistanceIdentified, CalibrationStepFails, FailWith,
       Advance, smVars
  <1>2. StoreStaysWhole(M)
    BY <1>1, StoreKept, Zenon DEF storeVars, Measured, StaysMeasured
  <1>3. CASE PolePairsStep \/ ResistanceSettled
    <2>1. UNCHANGED <<state, step, pendingData, run, onPolePairsDone,
                      onResistanceDone, onAlignmentDone, onMechanicalDone>>
          /\ sampler' \in {sampler, "resistance"}
      BY <1>3, Zenon DEF PolePairsStep, ResistanceSettled, NextElectricalAngle,
         ApplyTestVoltage, DriveFor, mechanicalVars, smVars
    <2>2. sampler' = "alignment" => sampler = "alignment"
      BY <2>1, SMT
    <2> QED
      BY <1>1, <1>2, <2>1, <2>2, OwnDataKept, Zenon DEF Measured, StaysMeasured
  <1>4. CASE PolePairsDone
    <2>1. UNCHANGED <<onAlignmentDone, onMechanicalDone>>
      BY <1>4, Zenon DEF PolePairsDone, mechanicalVars
    <2>2. CASE PolePairsDropped
      <3>1. UNCHANGED <<state, step, pendingData, run, onResistanceDone, sampler>>
            /\ ~IsCalibrating("polePairs")
        BY <2>2, Zenon DEF PolePairsDropped, Stop, smVars
      <3> QED
        BY <1>1, <1>2, <2>1, <3>1, OwnDataKept, Zenon DEF Measured, StaysMeasured
    <2>3. CASE PolePairsFailed
      <3>1. state' # "Calibrating"
        BY <2>3, SMT DEF PolePairsFailed, CalibrationStepFails, FailWith, Become
      <3> QED
        BY <1>2, <3>1, NoCalibration DEF Measured, StaysMeasured
    <2>4. CASE PolePairsIdentified
      <3>1. /\ state = "Calibrating" /\ state' = state /\ run' = run
            /\ run \in Runs /\ onPolePairsDone = run /\ pendingData = DefaultRecord
            /\ step' = "resistanceAndInductance"
            /\ pendingData' = [pendingData EXCEPT !["polePairs"] = run]
            /\ onResistanceDone' = run
        BY <2>4, Zenon DEF PolePairsIdentified, IsCalibrating, Advance,
           EstimateResistanceAndInductance, Measured, StaysMeasured, OwnData
      <3>2. /\ pendingData'["polePairs"] = run /\ pendingData'["resistance"] = NoRun
            /\ pendingData'["alignment"] = NoRun /\ pendingData'["mechanical"] = NoRun
        BY <3>1, SMT DEF DefaultRecord, Fields
      <3>3. OwnData'
        BY <3>1, <3>2, SMT DEF OwnData, Steps
      <3> QED
        BY <1>2, <3>3 DEF Measured, StaysMeasured
    <2> QED
      BY <1>4, <2>2, <2>3, <2>4, Zenon DEF PolePairsDone
  <1>5. CASE ResistanceDone
    <2>1. UNCHANGED <<onPolePairsDone, onMechanicalDone>>
      BY <1>5, Zenon DEF ResistanceDone, mechanicalVars
    <2>2. CASE ResistanceDropped
      <3>1. UNCHANGED <<state, step, pendingData, run, onAlignmentDone, sampler>>
            /\ ~IsCalibrating("resistanceAndInductance")
        BY <2>2, Zenon DEF ResistanceDropped, Stop, smVars
      <3> QED
        BY <1>1, <1>2, <2>1, <3>1, OwnDataKept, Zenon DEF Measured, StaysMeasured
    <2>3. CASE ResistanceFailed
      <3>1. state' # "Calibrating"
        BY <2>3, SMT DEF ResistanceFailed, CalibrationStepFails, FailWith, Become
      <3> QED
        BY <1>2, <3>1, NoCalibration DEF Measured, StaysMeasured
    <2>4. CASE ResistanceIdentified
      <3>1. /\ state = "Calibrating" /\ state' = state /\ run' = run
            /\ run \in Runs /\ onResistanceDone = run /\ step' = "alignment"
            /\ pendingData["polePairs"] = run /\ pendingData["alignment"] = NoRun
            /\ pendingData["mechanical"] = NoRun
            /\ pendingData' = [pendingData EXCEPT !["resistance"] = run]
        BY <2>4, Zenon DEF ResistanceIdentified, IsCalibrating, Advance,
           Measured, StaysMeasured, OwnData
      <3>2. sampler' = "alignment" => onAlignmentDone' \in {NoRun, run}
        <4>1. sampler = "resistance"
          BY <1>5, Zenon DEF ResistanceDone, SamplesAnalyzed, SampleFor
        <4> QED
          BY <2>4, <4>1, SMT DEF ResistanceIdentified, Stop, ForceAlignment
      <3>3. /\ pendingData'["polePairs"] = run /\ pendingData'["resistance"] = run
            /\ pendingData'["alignment"] = NoRun /\ pendingData'["mechanical"] = NoRun
        BY <3>1, SMT DEF TypeOK, Records, Fields
      <3>4. OwnData'
        BY <3>1, <3>2, <3>3, SMT DEF OwnData, Steps
      <3> QED
        BY <1>2, <3>4 DEF Measured, StaysMeasured
    <2> QED
      BY <1>5, <2>2, <2>3, <2>4, Zenon DEF ResistanceDone
  <1> QED
    BY <1>3, <1>4, <1>5

LEMMA AlignmentKeepsMeasurements ==
  ASSUME TypeOK, NEW M, mode \in M, Measured(M), AlignmentStray \/ AlignmentDone
  PROVE  StaysMeasured(M)
  <1>1. CASE AlignmentStray
    <2>1. UNCHANGED <<state, step, pendingData, run, mode, onPolePairsDone,
                      onResistanceDone, onAlignmentDone, onMechanicalDone, sampler,
                      storeVars>>
      BY <1>1, Zenon DEF AlignmentStray, StrayAlignmentSample, Stop,
         electricalVars, mechanicalVars, smVars
    <2> QED
      BY <2>1, OwnDataKept, StoreKept, Zenon DEF Measured, StaysMeasured, storeVars
  <1>2. CASE AlignmentDone
    <2>1. /\ sampler = "alignment" /\ onAlignmentDone # NoRun /\ onAlignmentDone' = NoRun
          /\ UNCHANGED <<onPolePairsDone, onResistanceDone>>
      BY <1>2, Zenon DEF AlignmentDone, AlignmentOver, SampleFor, AlignmentBusy,
         electricalVars
    <2>2. CASE AlignmentDropped
      <3>1. UNCHANGED <<state, step, pendingData, run, mode, onMechanicalDone, sampler,
                        storeVars>>
        BY <2>2, Zenon DEF AlignmentDropped, Stop, mechanicalVars, smVars
      <3> QED
        BY <2>1, <3>1, OwnDataKept, StoreKept, Zenon DEF Measured, StaysMeasured, storeVars
    <2>3. CASE AlignmentFailed \/ (IsCalibrating("alignment") /\ AlignedWithoutEstimator)
      <3>1. state' # "Calibrating" /\ UNCHANGED <<mode, storeVars>>
        BY <2>3, SMT DEF AlignmentFailed, AlignedWithoutEstimator,
           CalibrationStepFails, FailWith, Become
      <3> QED
        BY <3>1, NoCalibration, StoreKept, Zenon DEF Measured, StaysMeasured, storeVars
    <2>4. ASSUME IsCalibrating("alignment"),
                 pendingData' = [pendingData EXCEPT !["alignment"] = onAlignmentDone]
          PROVE  /\ state = "Calibrating" /\ step = "alignment" /\ run \in Runs
                 /\ pendingData'["polePairs"] = run /\ pendingData'["resistance"] = run
                 /\ pendingData'["alignment"] = run
                 /\ pendingData'["mechanical"] = NoRun
                 /\ pendingData' \in Records
      <3>1. state = "Calibrating" /\ step = "alignment"
        BY <2>4 DEF IsCalibrating
      <3>2. /\ run \in Runs /\ onAlignmentDone = run
            /\ pendingData["polePairs"] = run /\ pendingData["resistance"] = run
            /\ pendingData["mechanical"] = NoRun
        BY <2>1, <3>1, SMT DEF Measured, StaysMeasured, OwnData
      <3>3. pendingData \in Records
        BY DEF TypeOK
      <3> QED
        BY <2>4, <3>1, <3>2, <3>3, SMT DEF Records, Fields, Callbacks
    <2>5. CASE IsCalibrating("alignment") /\ AlignedAndSaved
      <3>1. /\ UNCHANGED <<state, step, run, mode, onMechanicalDone, sampler>>
            /\ MechIdent[mode] = "unused"
            /\ pendingData' = [pendingData EXCEPT !["alignment"] = onAlignmentDone]
            /\ SaveCalibration(pendingData')
        BY <2>5, Zenon DEF AlignedAndSaved, Advance, Stop, mechanicalVars
      <3>2. /\ state = "Calibrating" /\ step = "alignment" /\ run \in Runs
            /\ pendingData'["polePairs"] = run /\ pendingData'["resistance"] = run
            /\ pendingData'["alignment"] = run /\ pendingData'["mechanical"] = NoRun
            /\ pendingData' \in Records
        BY <2>4, <2>5, <3>1
      <3>3. OwnData'
        BY <2>1, <3>1, <3>2, SMT DEF OwnData, Steps
      <3>4. pendingData' = WholeRecord(mode, run)
        <4>1. mode = "torque"
          BY <3>1, WiringAssumption DEF TypeOK
        <4> QED
          BY <3>2, <4>1, SMT DEF WholeRecord, Records, Fields
      <3> QED
        BY <3>1, <3>2, <3>3, <3>4, SaveOfWhole, Zenon DEF Measured, StaysMeasured
    <2>6. CASE IsCalibrating("alignment") /\ (AlignedForOwnEstimator \/ AlignedForOverride)
      <3>1. /\ UNCHANGED <<state, run, mode, storeVars>>
            /\ MechIdent[mode] \in {"own", "override"}
            /\ step' = "frictionAndInertia" /\ onMechanicalDone' = run
            /\ pendingData' = [pendingData EXCEPT !["alignment"] = onAlignmentDone]
        BY <2>6, Zenon DEF AlignedForOwnEstimator, AlignedForOverride, Advance,
           EstimateFrictionAndInertia
      <3>2. /\ state = "Calibrating" /\ run \in Runs
            /\ pendingData'["polePairs"] = run /\ pendingData'["resistance"] = run
            /\ pendingData'["alignment"] = run /\ pendingData'["mechanical"] = NoRun
        BY <2>4, <2>6, <3>1
      <3>3. OwnData'
        BY <3>1, <3>2, SMT DEF OwnData, Steps
      <3> QED
        BY <3>1, <3>3, StoreKept, Zenon DEF Measured, StaysMeasured, storeVars
    <2> QED
      BY <1>2, <2>2, <2>3, <2>5, <2>6, Zenon DEF AlignmentDone
  <1> QED
    BY <1>1, <1>2

LEMMA MechanicalKeepsMeasurements ==
  ASSUME TypeOK, NEW M, mode \in M, Measured(M), MechanicalDone
  PROVE  StaysMeasured(M)
  <1>1. /\ onMechanicalDone' = NoRun
        /\ UNCHANGED <<onPolePairsDone, onResistanceDone, onAlignmentDone>>
        /\ sampler' \in {sampler, "idle"}
    BY Zenon DEF MechanicalDone, MechanicalDropped, MechanicalFailed,
       MechanicalIdentified, FitConverged, FitTimedOut, OverrideAnswers,
       electricalVars
  <1>2. CASE MechanicalDropped
    <2>1. UNCHANGED <<state, step, pendingData, run, mode, storeVars>>
      BY <1>2, Zenon DEF MechanicalDropped, smVars
    <2>2. sampler' = "alignment" => sampler = "alignment"
      BY <1>1, SMT
    <2> QED
      BY <1>1, <2>1, <2>2, OwnDataKept, StoreKept, Zenon DEF Measured, StaysMeasured, storeVars
  <1>3. CASE MechanicalFailed
    <2>1. state' # "Calibrating" /\ UNCHANGED <<mode, storeVars>>
      BY <1>3, SMT DEF MechanicalFailed, FailWith, Become
    <2> QED
      BY <2>1, NoCalibration, StoreKept, Zenon DEF Measured, StaysMeasured, storeVars
  <1>4. CASE MechanicalIdentified
    <2>1. /\ state = "Calibrating" /\ step = "frictionAndInertia"
          /\ UNCHANGED <<state, step, run, mode>>
          /\ onMechanicalDone # NoRun
          /\ pendingData' = [pendingData EXCEPT !["mechanical"] = onMechanicalDone]
          /\ SaveCalibration(pendingData')
      BY <1>4, Zenon DEF MechanicalIdentified, IsCalibrating, Advance, FitConverged,
         OverrideAnswers
    <2>2. /\ run \in Runs /\ MechIdent[mode] # "unused" /\ onMechanicalDone = run
          /\ pendingData["polePairs"] = run /\ pendingData["resistance"] = run
          /\ pendingData["alignment"] = run /\ pendingData \in Records
      BY <2>1, SMT DEF Measured, StaysMeasured, OwnData, TypeOK
    <2>3. \A f \in Fields : pendingData'[f] = run
      BY <2>1, <2>2, SMT DEF Records, Fields
    <2>4. pendingData' = WholeRecord(mode, run)
      <3>1. mode # "torque"
        BY <2>2, WiringAssumption DEF TypeOK
      <3>2. pendingData' = [f \in Fields |-> pendingData'[f]]
        BY <2>1, <2>2, Zenon DEF Records
      <3>3. WholeRecord(mode, run) = [f \in Fields |-> run]
        BY <3>1, SMT DEF WholeRecord
      <3> QED
        BY <2>3, <3>2, <3>3
    <2>5. OwnData'
      BY <1>1, <2>1, <2>2, <2>3, FieldNames, SMT DEF OwnData, Steps
    <2> QED
      BY <2>1, <2>2, <2>4, <2>5, SaveOfWhole, Zenon DEF Measured, StaysMeasured
  <1> QED
    BY <1>2, <1>3, <1>4, Zenon DEF MechanicalDone

LEMMA StepsKeepMeasurements ==
  ASSUME TypeOK, NEW M, mode \in M, Measured(M), [Next]_vars
  PROVE  StaysMeasured(M)
  <1>1. CASE Next /\ ~Sampling
    BY <1>1, CommandsKeepMeasurements, StoreEventsKeepMeasurements,
       ElectricalKeepsMeasurements, AlignmentKeepsMeasurements,
       MechanicalKeepsMeasurements, Zenon DEF Next, Completions
  <1>2. CASE UNCHANGED vars \/ Sampling
    BY <1>2, SamplingDrives, OwnDataKept, StoreKept, Zenon DEF vars,
       inverterVars, serviceVars, electricalVars, mechanicalVars, storeVars,
       smVars, Measured, StaysMeasured
  <1> QED
    BY <1>1, <1>2

\* No handler changes the mode; the machine starts again in the same one.
LEMMA StepsKeepMode == [Next]_vars => UNCHANGED mode
<1>1. Commands => UNCHANGED mode
  BY Zenon DEF Commands, CmdCalibrate, CmdEnable, CmdDisable, CmdClearFault,
     CmdClearCalibration, CmdEmergencyStop, ApplyOnlineEstimates
<1>2. FaultNotified => UNCHANGED mode
  BY Zenon DEF FaultNotified, FailWith
<1>3. BootCheckDone \/ BootLoadDone \/ BootLoadFailed \/ SaveDone
      \/ SaveFailed \/ InvalidateDone \/ InvalidateFailed => UNCHANGED mode
  BY Zenon DEF BootCheckDone, BootLoadDone, BootLoadFailed, SaveDone,
     SavedAndReady, SavedTooLate, SaveFailed, InvalidateDone,
     InvalidateFailed, ApplyAndEnterReady, FailWith, smVars
<1>4. PolePairsStep \/ PolePairsDone \/ ResistanceSettled \/ ResistanceDone
      => UNCHANGED mode
  BY Zenon DEF PolePairsStep, PolePairsDone, PolePairsDropped,
     PolePairsFailed, PolePairsIdentified, ResistanceSettled, ResistanceDone,
     ResistanceDropped, ResistanceFailed, ResistanceIdentified,
     CalibrationStepFails, FailWith, Advance, smVars
<1>5. AlignmentStray \/ AlignmentDone \/ MechanicalDone => UNCHANGED mode
  BY Zenon DEF AlignmentStray, AlignmentDone, AlignmentDropped,
     AlignmentFailed, AlignedAndSaved, AlignedWithoutEstimator,
     AlignedForOwnEstimator, AlignedForOverride, MechanicalDone,
     MechanicalDropped, MechanicalFailed, MechanicalIdentified,
     CalibrationStepFails, FailWith, Advance, smVars
<1>6. Restart => UNCHANGED mode
  BY Zenon DEF Restart, PowerUp
<1>7. UNCHANGED vars \/ Sampling => UNCHANGED mode
  BY SamplingDrives, Zenon DEF vars, smVars
<1> QED
  BY <1>1, <1>2, <1>3, <1>4, <1>5, <1>6, <1>7 DEF Next, Events, Completions

MeasurementInv == Measured({mode})

LEMMA MeasurementInvIsInvariant == Spec => []MeasurementInv
  <1>1. Init => MeasurementInv
    BY MeasurementsAtFirst DEF MeasurementInv
  <1>2. TypeOK /\ MeasurementInv /\ [Next]_vars => MeasurementInv'
    <2> SUFFICES ASSUME TypeOK, MeasurementInv, [Next]_vars
                 PROVE  MeasurementInv'
      OBVIOUS
    <2> DEFINE M == {mode}
    <2>1. Measured(M) /\ mode \in M
      BY DEF MeasurementInv
    <2>2. {mode'} = M
      BY StepsKeepMode
    <2> HIDE DEF M
    <2>3. StaysMeasured(M)
      BY <2>1, StepsKeepMeasurements
    <2> QED
      BY <2>2, <2>3 DEF MeasurementInv, Measured, StaysMeasured, StoreWhole,
         StoreStaysWhole
  <1> QED
    BY <1>1, <1>2, TypeCorrect, PTL DEF Spec

\* What a running calibration holds at each step is its own.
LEMMA OwnDataSuffices == TypeOK /\ OwnData => OwnMeasurementsOnly
  <1> SUFFICES ASSUME TypeOK, OwnData, state = "Calibrating"
               PROVE  /\ \A f \in MeasuredBefore(step) : pendingData[f] = run
                      /\ \A f \in Fields : pendingData[f] \in {NoRun, run}
    BY DEF OwnMeasurementsOnly
  <1>1. CASE step = "polePairs"
    BY <1>1, SMT DEF OwnData, DefaultRecord, MeasuredBefore
  <1>2. CASE step # "polePairs"
    <2>1. step \in {"resistanceAndInductance", "alignment", "frictionAndInertia"}
      BY <1>2, SMT DEF OwnData, Steps
    <2>2. \A f \in {"polePairs", "resistance", "alignment", "mechanical"} :
            pendingData[f] \in {NoRun, run}
      BY <2>1, SMT DEF OwnData
    <2>3. \A f \in MeasuredBefore(step) : pendingData[f] = run
      BY <2>1, SMT DEF OwnData, MeasuredBefore
    <2> QED
      BY <2>2, <2>3 DEF Fields
  <1> QED
    BY <1>1, <1>2

\* A running calibration works on values of its own run only: every completion
\* that a step accepts was registered by that run, although callbacks of
\* aborted runs stay with the services.
THEOREM CalibrationsDoNotMix == Spec => []OwnMeasurementsOnly
  <1>1. TypeOK /\ MeasurementInv => OwnMeasurementsOnly
    BY OwnDataSuffices DEF MeasurementInv, Measured
  <1> QED
    BY <1>1, MeasurementInvIsInvariant, TypeCorrect, PTL

\* The region holds nothing or the whole result of one calibration, through
\* aborted runs, dropped requests, stale saves and power cycles.
THEOREM RegionHoldsOneCalibration == Spec => []StoredIsOneCalibration
  <1>1. MeasurementInv => StoredIsOneCalibration
    BY DEF MeasurementInv, Measured, StoreWhole, StoreHolds, WholeOf,
       StoredIsOneCalibration
  <1> QED
    BY <1>1, MeasurementInvIsInvariant, PTL
=============================================================================
