------------------------ MODULE MCNonVolatileMemory ------------------------
(* Two calibrations to be saved, for TLC.                                  *)
EXTENDS NonVolatileMemory

\* The results of two runs, as far as the memory tells them apart.
TwoCalibrations == {[f \in Fields |-> r] : r \in Runs}
=============================================================================
