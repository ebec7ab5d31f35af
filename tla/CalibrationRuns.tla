-------------------------- MODULE CalibrationRuns --------------------------
(***************************************************************************)
(* What a measurement is told apart by: the calibration run that asked for *)
(* it.  A callback slot holds the number of the run that filled it, NoRun  *)
(* when it is empty.  A calibration record says of every measured value    *)
(* which run measured it, NoRun being the default-constructed value.       *)
(***************************************************************************)
EXTENDS Naturals

CONSTANT MaxRuns     \* bound: calibration runs of a behaviour

ASSUME RunsAssumption == MaxRuns \in Nat \ {0}

NoRun == 0
Runs == 1 .. MaxRuns
Callbacks == Runs \cup {NoRun}

\* The measured values, one per step of a calibration.
Fields == {"polePairs", "resistance", "alignment", "mechanical"}
Records == [Fields -> Callbacks]
DefaultRecord == [f \in Fields |-> NoRun]
=============================================================================
