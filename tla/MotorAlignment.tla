--------------------------- MODULE MotorAlignment ---------------------------
(***************************************************************************)
(* MotorAlignmentImpl: holds the rotor at electrical angle zero until the  *)
(* encoder stops moving or the sample budget is spent.  A request made     *)
(* while a callback is still registered is dropped without an answer.      *)
(***************************************************************************)
EXTENDS ThreePhaseInverter, CalibrationRuns

VARIABLE onAlignmentDone

AlignmentTypeOK == onAlignmentDone \in Callbacks

AlignmentInit == onAlignmentDone = NoRun

AlignmentBusy == onAlignmentDone # NoRun

\* The accepted request: stop, voltage on, sampling callback replaced.
ForceAlignment(run) ==
    /\ onAlignmentDone' = run
    /\ DriveFor("alignment")

\* The sample that ends the alignment, converged or not.
AlignmentOver == SampleFor("alignment")

\* The lambda stays registered when the alignment has ended: a later user
\* that only starts the PWM has its motor stopped by the next sample.
StrayAlignmentSample ==
    /\ AlignmentOver
    /\ ~AlignmentBusy
    /\ Stop
    /\ UNCHANGED onAlignmentDone
=============================================================================
