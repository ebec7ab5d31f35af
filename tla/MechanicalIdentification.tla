---------------------- MODULE MechanicalIdentification ----------------------
(***************************************************************************)
(* MechanicalParametersIdentificationImpl: a recursive least squares fit   *)
(* over current samples with a five second timeout.  It registers its      *)
(* callback with the inverter but does not start the PWM.                  *)
(***************************************************************************)
EXTENDS ThreePhaseInverter, CalibrationRuns

VARIABLES
    onMechanicalDone,
    timeoutTimer        \* TRUE while the timeout is running

mechanicalVars == <<onMechanicalDone, timeoutTimer>>

MechanicalTypeOK ==
    onMechanicalDone \in Callbacks /\ timeoutTimer \in BOOLEAN

MechanicalInit == onMechanicalDone = NoRun /\ timeoutTimer = FALSE

EstimateFrictionAndInertia(run) ==
    /\ onMechanicalDone' = run
    /\ timeoutTimer' = TRUE
    /\ sampler' = "mechanical"

\* The fit converges: the timer is cancelled, the callback slot is emptied.
FitConverged ==
    /\ SampleFor("mechanical")
    /\ onMechanicalDone # NoRun
    /\ timeoutTimer' = FALSE
    /\ sampler' = "idle"

\* The timeout replaces the sampling callback, whoever owns it by then.
FitTimedOut ==
    /\ timeoutTimer
    /\ timeoutTimer' = FALSE
    /\ sampler' = "idle"
    /\ UNCHANGED converting
=============================================================================
