------------------------------ MODULE FocLoops ------------------------------
(***************************************************************************)
(* The control loops while the motor runs.  The sampling interrupt runs    *)
(* the current loop and, every Prescaler samples, publishes a snapshot in  *)
(* one of two slots and pends the low-priority interrupt, whose handler    *)
(* runs the speed (and position) loop and feeds the online estimators.     *)
(* The sampling interrupt preempts the handler between any two of its      *)
(* reads, and both preempt the thread that enables and disables the loops. *)
(* An angle is the number of the sample that read it, a snapshot is the    *)
(* number of its publication.                                              *)
(***************************************************************************)
EXTENDS Naturals

CONSTANTS
    Prescaler,      \* samples of the current loop per run of the outer loop
    MaxSamples      \* bound on the samples of a behaviour

ASSUME LoopsAssumption == Prescaler \in Nat \ {0} /\ MaxSamples \in Nat

VARIABLES
    control,     \* which Foc the runner drives
    estimators,  \* the online estimators that are registered
    driven,      \* the PWM outputs are driven
    converting,  \* a conversion has been triggered and not yet delivered
    pids,        \* the controllers are enabled
    angle,       \* currentMechanicalAngle
    previous,    \* previousSpeedPosition
    output,      \* lastSpeedPidOutput: the two angles it comes from
    triggerCounter,     \* samples since the last publication
    snapshots, readyIndex,
    pending,     \* the low-priority interrupt is pending
    samples, published,
    handler,     \* where the low-priority handler is
    reader,      \* the snapshot it reads, what it read of it, and when
    caller       \* assignments Enable has left to make, and whether it runs

loopVars == <<control, estimators, driven, converting, pids, angle, previous,
              output, triggerCounter, snapshots, readyIndex, pending, samples,
              published, handler, reader, caller>>

Controls == {"torque", "speed", "position"}
Estimators == {"mechanical", "electrical"}
Slots == 0 .. 1
Cleared == {"angle", "previous", "output", "triggerCounter"}
HandlerPlaces == {"idle", "first", "second", "third", "output",
           "mechanical", "takeElectrical", "electrical"}
NotRunning == [busy |-> FALSE, left |-> {}]

LoopTypeOK ==
    /\ control \in Controls /\ estimators \subseteq Estimators
    /\ driven \in BOOLEAN /\ converting \in BOOLEAN /\ pids \in BOOLEAN
    /\ angle \in Nat /\ previous \in Nat /\ output \in Nat \X Nat
    /\ triggerCounter \in Nat
    /\ snapshots \in [Slots -> Nat] /\ readyIndex \in Slots
    /\ pending \in BOOLEAN /\ samples \in Nat /\ published \in Nat
    /\ handler \in [at : HandlerPlaces, now : Nat, before : Nat]
    /\ reader \in [slot : Slots, taken : Nat, first : Nat]
    /\ caller \in [busy : BOOLEAN, left : SUBSET Cleared]

\* The constructors: the handler is registered, the controllers are enabled,
\* and Runner registers the current loop with the outputs still off.
LoopInit ==
    /\ control \in Controls
    /\ estimators \in IF control = "torque" THEN {{}} ELSE SUBSET Estimators
    /\ driven = FALSE /\ converting = FALSE /\ pids = TRUE
    /\ angle = 0 /\ previous = 0 /\ output = <<0, 0>> /\ triggerCounter = 0
    /\ snapshots = [s \in Slots |-> 0] /\ readyIndex = 0 /\ pending = FALSE
    /\ samples = 0 /\ published = 0
    /\ handler = [at |-> "idle", now |-> 0, before |-> 0]
    /\ reader = [slot |-> 0, taken |-> 0, first |-> 0]
    /\ caller = NotRunning

-----------------------------------------------------------------------------
(* The thread: Runner::Enable and Runner::Disable.                         *)

\* The thread runs when neither interrupt does.
ThreadRuns == ~pending /\ handler.at = "idle"

Enable ==
    /\ ThreadRuns /\ ~caller.busy /\ ~driven
    /\ pids' = TRUE
    /\ caller' = [busy |-> TRUE,
                  left |-> IF control = "torque" THEN {} ELSE Cleared]
    /\ UNCHANGED <<control, estimators, driven, converting, angle, previous,
                   output, triggerCounter, snapshots, readyIndex, pending,
                   samples, published, handler, reader>>

\* EnableSpeedLoop's four plain stores, in any order the compiler chose.
ClearStored(v) ==
    /\ ThreadRuns /\ v \in caller.left
    /\ caller' = [caller EXCEPT !.left = @ \ {v}]
    /\ angle' = IF v = "angle" THEN 0 ELSE angle
    /\ previous' = IF v = "previous" THEN 0 ELSE previous
    /\ output' = IF v = "output" THEN <<0, 0>> ELSE output
    /\ triggerCounter' = IF v = "triggerCounter" THEN 0 ELSE triggerCounter
    /\ UNCHANGED <<control, estimators, driven, converting, pids, snapshots,
                   readyIndex, pending, samples, published, handler, reader>>

\* inverter.Start follows foc.Enable.
Started ==
    /\ ThreadRuns /\ caller.busy /\ caller.left = {}
    /\ driven' = TRUE /\ caller' = NotRunning
    /\ UNCHANGED <<control, estimators, converting, pids, angle, previous,
                   output, triggerCounter, snapshots, readyIndex, pending,
                   samples, published, handler, reader>>

\* inverter.Stop, then foc.Disable.
Disable ==
    /\ ThreadRuns /\ ~caller.busy
    /\ driven' = FALSE /\ pids' = FALSE
    /\ UNCHANGED <<control, estimators, converting, angle, previous, output,
                   triggerCounter, snapshots, readyIndex, pending, samples,
                   published, handler, reader, caller>>

-----------------------------------------------------------------------------
(* The sampling interrupt.                                                 *)

\* The PWM carrier triggers a conversion while the outputs are driven.
Convert ==
    /\ driven /\ ~converting /\ samples < MaxSamples
    /\ converting' = TRUE
    /\ UNCHANGED <<control, estimators, driven, pids, angle, previous, output,
                   triggerCounter, snapshots, readyIndex, pending, samples,
                   published, handler, reader, caller>>

\* Mutant: the published slot is filled again.
WriteInPlace == readyIndex

WriteSlot == 1 - readyIndex

\* Fill the slot that is not published, publish it, pend the handler.
Publish ==
    /\ triggerCounter' = 0
    /\ published' = published + 1
    /\ snapshots' = [snapshots EXCEPT ![WriteSlot] = published + 1]
    /\ readyIndex' = WriteSlot
    /\ pending' = TRUE

CalculateInnerLoop ==
    /\ angle' = samples + 1
    /\ \/ triggerCounter + 1 >= Prescaler /\ Publish
       \/ /\ triggerCounter + 1 < Prescaler
          /\ triggerCounter' = triggerCounter + 1
          /\ UNCHANGED <<published, snapshots, readyIndex, pending>>

\* The runner's callback reads the encoder, runs the current loop, and
\* writes the duties: that drives the outputs, a stopped inverter's too.
Sample ==
    /\ converting
    /\ converting' = FALSE /\ samples' = samples + 1 /\ driven' = TRUE
    /\ \/ control # "torque" /\ CalculateInnerLoop
       \/ control = "torque" /\ UNCHANGED <<angle, triggerCounter, published,
                                            snapshots, readyIndex, pending>>
    /\ UNCHANGED <<control, estimators, pids, previous, output, handler,
                   reader, caller>>

-----------------------------------------------------------------------------
(* The low-priority handler, one read of the shared state at a time.       *)

HandlerKeeps ==
    UNCHANGED <<control, estimators, driven, converting, pids, angle,
                triggerCounter, snapshots, readyIndex, samples, published,
                caller>>

StartHandler ==
    /\ pending /\ handler.at = "idle"
    /\ pending' = FALSE
    /\ handler' = [at |-> "first", now |-> handler.now, before |-> previous]
    /\ HandlerKeeps /\ UNCHANGED <<previous, output, reader>>

\* mechanicalSpeed, from the angle as it is now.
Speed ==
    /\ handler.at = "first"
    /\ handler' = [handler EXCEPT !.at = "second", !.now = angle]
    /\ HandlerKeeps /\ UNCHANGED <<previous, output, pending, reader>>

\* The angle is read again, and a sample may have moved it meanwhile.
Remember ==
    /\ handler.at = "second"
    /\ previous' = angle
    /\ handler' = [handler EXCEPT
                     !.at = IF control = "position" THEN "third" ELSE "output"]
    /\ HandlerKeeps /\ UNCHANGED <<output, pending, reader>>

\* FocPositionImpl only: the position loop reads it a third time.
Position ==
    /\ handler.at = "third"
    /\ handler' = [handler EXCEPT !.at = "output"]
    /\ HandlerKeeps /\ UNCHANGED <<previous, output, pending, reader>>

\* Take a reference to the published slot and read the first of its fields.
TakeSnapshot ==
    reader' = [slot |-> readyIndex, taken |-> published,
               first |-> snapshots[readyIndex]]

Output ==
    /\ handler.at = "output"
    /\ output' = <<handler.now, handler.before>>
    /\ \/ "mechanical" \in estimators /\ TakeSnapshot
       \/ "mechanical" \notin estimators /\ UNCHANGED reader
    /\ handler' = [handler EXCEPT !.at = IF "mechanical" \in estimators
                                           THEN "mechanical"
                                           ELSE "takeElectrical"]
    /\ HandlerKeeps /\ UNCHANGED <<previous, pending>>

\* The last field of the mechanical estimator's snapshot.
UpdateOnlineMechanicalEstimator ==
    /\ handler.at = "mechanical"
    /\ handler' = [handler EXCEPT !.at = "takeElectrical"]
    /\ HandlerKeeps /\ UNCHANGED <<previous, output, pending, reader>>

\* The electrical estimator takes the published slot anew.
TakeElectrical ==
    /\ handler.at = "takeElectrical"
    /\ \/ /\ "electrical" \in estimators
          /\ TakeSnapshot /\ handler' = [handler EXCEPT !.at = "electrical"]
       \/ /\ "electrical" \notin estimators
          /\ UNCHANGED reader /\ handler' = [handler EXCEPT !.at = "idle"]
    /\ HandlerKeeps /\ UNCHANGED <<previous, output, pending>>

UpdateOnlineElectricalEstimator ==
    /\ handler.at = "electrical"
    /\ handler' = [handler EXCEPT !.at = "idle"]
    /\ HandlerKeeps /\ UNCHANGED <<previous, output, pending, reader>>

LowPriorityHandler ==
    \/ StartHandler \/ Speed \/ Remember \/ Position \/ Output
    \/ UpdateOnlineMechanicalEstimator
    \/ TakeElectrical \/ UpdateOnlineElectricalEstimator

LoopNext ==
    \/ Enable \/ Started \/ Disable \/ \E v \in Cleared : ClearStored(v)
    \/ Convert \/ Sample \/ LowPriorityHandler

LoopSpec == LoopInit /\ [][LoopNext]_loopVars

-----------------------------------------------------------------------------
(* Properties.                                                             *)

Reading == handler.at \in {"mechanical", "electrical"}

\* An estimator is fed one whole snapshot, the newest there was when its
\* slot was taken, as long as the sampling interrupt has not published twice
\* since: the first publication fills the other slot.  (A second one fills
\* the slot being read, and the estimator is fed two samples mixed.)
SnapshotsAreWhole ==
    Reading /\ published < reader.taken + 2 =>
        /\ reader.first = reader.taken
        /\ snapshots[reader.slot] = reader.first
=============================================================================
