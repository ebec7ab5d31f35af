---------------------- MODULE ElectricalIdentification ----------------------
(***************************************************************************)
(* ElectricalParametersIdentificationImpl: the pole-pair sweep and the     *)
(* resistance and inductance step response.  Both share one single-shot    *)
(* settle timer, which nothing outside the service can cancel.  A module   *)
(* that uses the service conjoins a completion guard with the effect its   *)
(* own callback has.                                                       *)
(***************************************************************************)
EXTENDS ThreePhaseInverter, CalibrationRuns

CONSTANT TotalSteps   \* electrical angles of a sweep (60 in the code)

ASSUME SweepAssumption == TotalSteps \in Nat \ {0}

VARIABLES
    onPolePairsDone,
    onResistanceDone,
    currentSampleIndex,   \* angles of the sweep already applied
    settleTimer           \* what the pending expiry will do

electricalVars ==
    <<onPolePairsDone, onResistanceDone, currentSampleIndex, settleTimer>>

ElectricalTypeOK ==
    /\ onPolePairsDone \in Callbacks
    /\ onResistanceDone \in Callbacks
    /\ currentSampleIndex \in 0 .. TotalSteps
    /\ settleTimer \in {"none", "polePairs", "resistance"}

ElectricalInit ==
    /\ onPolePairsDone = NoRun
    /\ onResistanceDone = NoRun
    /\ currentSampleIndex = 0
    /\ settleTimer = "none"

\* Starts a sweep over whatever the service was doing: first angle applied.
EstimateNumberOfPolePairs(run) ==
    /\ onPolePairsDone' = run
    /\ currentSampleIndex' = 0
    /\ settleTimer' = "polePairs"
    /\ DriveFor("idle")

\* Mutant: the settle timer is not armed again.
EstimateWithoutSettling(run) ==
    /\ onResistanceDone' = run
    /\ settleTimer' = "none"
    /\ DriveFor("idle")

\* Settles at the neutral duty first; the timer is re-armed for that.
EstimateResistanceAndInductance(run) ==
    /\ onResistanceDone' = run
    /\ settleTimer' = "resistance"
    /\ DriveFor("idle")

\* Mutant: the sweep goes on for one angle too many.
NextAngleOffByOne ==
    /\ settleTimer = "polePairs"
    /\ currentSampleIndex < TotalSteps
    /\ currentSampleIndex' = currentSampleIndex + 1
    /\ pwm' = TRUE
    /\ UNCHANGED <<sampler, onPolePairsDone, onResistanceDone, settleTimer>>

\* The timer fires between two angles: the next voltage vector is applied,
\* whether or not anybody stopped the motor in the meantime.
NextElectricalAngle ==
    /\ settleTimer = "polePairs"
    /\ currentSampleIndex + 1 < TotalSteps
    /\ currentSampleIndex' = currentSampleIndex + 1
    /\ pwm' = TRUE
    /\ UNCHANGED <<sampler, onPolePairsDone, onResistanceDone, settleTimer>>

\* The timer fires after the last angle: CalculatePolePairs calls back.
SweepOver ==
    settleTimer = "polePairs" /\ currentSampleIndex + 1 >= TotalSteps

\* The neutral duty has settled: test voltage on, samples collected.
ApplyTestVoltage ==
    /\ settleTimer = "resistance"
    /\ settleTimer' = "none"
    /\ DriveFor("resistance")
    /\ UNCHANGED <<onPolePairsDone, onResistanceDone, currentSampleIndex>>

\* The sample that fills the buffer: AnalyzeInductanceMeasures calls back.
\* A call of the empty slot ends the program, so no step follows it.
SamplesAnalyzed == SampleFor("resistance") /\ onResistanceDone # NoRun
=============================================================================
