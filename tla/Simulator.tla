------------------------------ MODULE Simulator ------------------------------
(***************************************************************************)
(* The simulator: the motor model that drives itself like a PWM carrier by *)
(* scheduling its next cycle on the event dispatcher, the control panel    *)
(* whose buttons start and stop the controller, and the identifications    *)
(* that borrow the model while the panel says it is calibrating.  One      *)
(* thread runs it all, and each action is one event of the queue, one      *)
(* timer, or one click.                                                    *)
(***************************************************************************)
EXTENDS Naturals

CONSTANTS Limits    \* maxIterations of the models built: 0 is no limit

ASSUME SimulatorAssumption == Limits \subseteq Nat

VARIABLES
    limit,            \* maxIterations of this model
    mode,             \* the panel's mode
    running, counter,
    driving, cycleScheduled,
    cycles,           \* cycles in the dispatcher's queue
    callback,         \* who registered onCurrentPhasesReady
    calibration       \* what the identification services wait for

simVars == <<limit, mode, running, counter, driving, cycleScheduled, cycles,
             callback, calibration>>

Modes == {"Idle", "Running", "Calibrating"}
Listeners ==
    {"none", "control", "empty", "resistance", "alignment", "mechanical"}
Calibrations ==
    {"none", "settling", "resistance", "polePairs", "alignment", "mechanical"}

SimTypeOK ==
    /\ limit \in Limits /\ mode \in Modes
    /\ running \in BOOLEAN /\ driving \in BOOLEAN
    /\ cycleScheduled \in BOOLEAN
    /\ counter \in 0 .. limit /\ cycles \in Nat
    /\ callback \in Listeners /\ calibration \in Calibrations

\* The runner's constructor has registered the control loop.
SimInit ==
    /\ limit \in Limits /\ mode = "Idle"
    /\ running = FALSE /\ counter = 0
    /\ driving = FALSE /\ cycleScheduled = FALSE /\ cycles = 0
    /\ callback = "control" /\ calibration = "none"

-----------------------------------------------------------------------------
(* The model's operations, on the record of what they change.              *)

Carrier == [driving |-> driving, cycleScheduled |-> cycleScheduled,
            cycles |-> cycles]

\* Mutant: a cycle that is already scheduled is scheduled again.
ScheduleAlways(c) ==
    IF ~c.driving THEN c
    ELSE [c EXCEPT !.cycleScheduled = TRUE, !.cycles = @ + 1]

ScheduleNextCycle(c) ==
    IF c.cycleScheduled \/ ~c.driving
      THEN c
      ELSE [c EXCEPT !.cycleScheduled = TRUE, !.cycles = @ + 1]

EnableSelfDriving(c) ==
    IF c.driving THEN c ELSE ScheduleNextCycle([c EXCEPT !.driving = TRUE])

\* Stop leaves the cycle that is scheduled in the queue.
Halted(c) == [c EXCEPT !.driving = FALSE]

\* ThreePhasePwmOutput re-arms the carrier.
Driven(c) == EnableSelfDriving(c)

CarrierBecomes(c) ==
    /\ driving' = c.driving /\ cycleScheduled' = c.cycleScheduled
    /\ cycles' = c.cycles

-----------------------------------------------------------------------------
(* The panel.                                                              *)

\* The model is stopped and started only through the runner.
StartClicked ==
    /\ mode = "Idle"
    /\ mode' = "Running"
    /\ running' = TRUE
    /\ counter' = IF running THEN counter ELSE limit
    /\ CarrierBecomes(IF running THEN Carrier ELSE EnableSelfDriving(Carrier))
    /\ UNCHANGED <<limit, callback, calibration>>

\* Stop drops the callback, so a start after it runs without the controller.
StopClicked ==
    /\ mode = "Running"
    /\ mode' = "Idle" /\ running' = FALSE /\ counter' = 0
    /\ callback' = "none"
    /\ CarrierBecomes(Halted(Carrier))
    /\ UNCHANGED <<limit, calibration>>

\* A calibration stops the controller first.
Calibrate(waitsFor, listener, c) ==
    /\ mode = "Idle"
    /\ mode' = "Calibrating" /\ running' = FALSE /\ counter' = 0
    /\ calibration' = waitsFor /\ callback' = listener
    /\ CarrierBecomes(c)
    /\ UNCHANGED limit

AlignClicked == Calibrate("alignment", "alignment", Driven(Halted(Carrier)))

IdentifyElectricalClicked ==
    Calibrate("settling", "empty", Driven(Halted(Carrier)))

\* Enables the controllers and listens, and drives nothing: the model
\* takes no sample, and the timeout is what ends it.
IdentifyMechanicalClicked ==
    Calibrate("mechanical", "mechanical", Halted(Carrier))

-----------------------------------------------------------------------------
(* The timers of the identifications.                                      *)

Settled ==
    /\ calibration = "settling"
    /\ calibration' = "resistance" /\ callback' = "resistance"
    /\ CarrierBecomes(Driven(Carrier))
    /\ UNCHANGED <<limit, mode, running, counter>>

\* Another angle of the pole pair sweep, or the end of it.
PolePairsTimer ==
    /\ calibration = "polePairs"
    /\ \/ /\ CarrierBecomes(Driven(Carrier))
          /\ UNCHANGED <<mode, calibration, callback>>
       \/ /\ CarrierBecomes(Halted(Carrier))
          /\ callback' = "none" /\ calibration' = "none" /\ mode' = "Idle"
    /\ UNCHANGED <<limit, running, counter>>

MechanicalTimeout ==
    /\ calibration = "mechanical"
    /\ calibration' = "none" /\ callback' = "empty" /\ mode' = "Idle"
    /\ UNCHANGED <<limit, running, counter, driving, cycleScheduled, cycles>>

-----------------------------------------------------------------------------
(* A cycle of the carrier.                                                 *)

\* The cycle that leaves the queue.
Taken == [Carrier EXCEPT !.cycleScheduled = FALSE, !.cycles = @ - 1]

\* It was stopped while it waited.
StaleCycle ==
    /\ cycles > 0 /\ ~driving
    /\ CarrierBecomes(Taken)
    /\ UNCHANGED <<limit, mode, running, counter, callback, calibration>>

\* The last of maxIterations: the panel goes idle, no callback is called.
Finished ==
    /\ cycles > 0 /\ driving /\ counter = 1
    /\ counter' = 0 /\ running' = FALSE /\ mode' = "Idle"
    /\ CarrierBecomes(ScheduleNextCycle(Halted(Taken)))
    /\ UNCHANGED <<limit, callback, calibration>>

\* The callback is called before the next cycle is scheduled, and may drive
\* the model anew: the control loop does, and the resistance measurement
\* stops it and goes straight on to the pole pairs, whatever it measured.
RunOneCycle ==
    /\ cycles > 0 /\ driving /\ counter # 1
    /\ counter' = IF counter > 0 THEN counter - 1 ELSE 0
    /\ \/ /\ callback = "control"
          /\ CarrierBecomes(ScheduleNextCycle(Driven(Taken)))
          /\ UNCHANGED <<callback, calibration, mode>>
       \/ /\ CarrierBecomes(ScheduleNextCycle(Taken))
          /\ callback # "control"
          /\ UNCHANGED <<callback, calibration, mode>>
       \/ /\ callback = "resistance"
          /\ callback' = "empty" /\ calibration' = "polePairs"
          /\ CarrierBecomes(ScheduleNextCycle(Driven(Halted(Taken))))
          /\ UNCHANGED mode
       \/ /\ callback = "alignment"
          /\ callback' = "none" /\ calibration' = "none" /\ mode' = "Idle"
          /\ CarrierBecomes(ScheduleNextCycle(Halted(Taken)))
    /\ UNCHANGED <<limit, running>>

SimNext ==
    \/ StartClicked \/ StopClicked
    \/ AlignClicked \/ IdentifyElectricalClicked \/ IdentifyMechanicalClicked
    \/ Settled \/ PolePairsTimer \/ MechanicalTimeout
    \/ StaleCycle \/ Finished \/ RunOneCycle

-----------------------------------------------------------------------------
(* Properties.                                                             *)

\* However clicks, timers and queued cycles interleave, and although a
\* callback may stop and drive the model in the middle of a cycle, the queue
\* never holds two cycles (the model would run at twice its speed), a driven
\* model always has one (it would stall), and the panel is idle only over a
\* motor that is not driven.
OneCarrier ==
    /\ cycles <= 1
    /\ driving => cycles = 1
    /\ mode = "Idle" => ~driving /\ calibration = "none"
=============================================================================
