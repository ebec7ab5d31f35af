---------------------------- MODULE TargetProofs ----------------------------
(***************************************************************************)
(* The snapshots of the control loops, the post-mortem record, the cycles  *)
(* of the simulated motor, the transcripts of a test run, what a scope     *)
(* draws and what a test session reports, proved for every prescaler, ring *)
(* and screen and every number of samples, faults, resets, cycles,         *)
(* scenarios and lines typed.                                              *)
(* Each has an inductive invariant that the steps of its own program keep; *)
(* the steps of the other programs leave its state alone.                  *)
(***************************************************************************)
EXTENDS HardwareTarget, DataLemmas

-----------------------------------------------------------------------------
(* The snapshots.                                                          *)

SnapshotTypes ==
    /\ published \in Nat /\ readyIndex \in Slots
    /\ snapshots \in [Slots -> Nat]
    /\ handler \in [at : HandlerPlaces, now : Nat, before : Nat]
    /\ reader \in [slot : Slots, taken : Nat, first : Nat]
    /\ previous \in Nat /\ angle \in Nat /\ samples \in Nat

\* The published slot holds the last publication, and a reader's slot is the
\* published one until the next publication makes it the other one.
ReaderIsBehind ==
    /\ snapshots[readyIndex] = published
    /\ Reading =>
         /\ reader.taken <= published
         /\ published = reader.taken => reader.slot = readyIndex
         /\ published = reader.taken + 1 => reader.slot = 1 - readyIndex
         /\ published < reader.taken + 2 =>
              /\ reader.first = reader.taken
              /\ snapshots[reader.slot] = reader.taken

SnapshotInv == SnapshotTypes /\ ReaderIsBehind

LEMMA SnapshotInvHoldsAtFirst == LoopInit => SnapshotInv
  BY SMT DEF LoopInit, SnapshotInv, SnapshotTypes, ReaderIsBehind, Reading,
             Slots, HandlerPlaces

\* What SnapshotInv speaks of.
snapshotVars == <<published, readyIndex, snapshots, handler, reader, previous,
                  angle, samples>>

LEMMA SnapshotInvReads ==
  ASSUME SnapshotInv, UNCHANGED snapshotVars
  PROVE  SnapshotInv'
  BY SMT DEF SnapshotInv, SnapshotTypes, ReaderIsBehind, Reading, snapshotVars

\* A publication fills the slot nobody has been handed since the last one.
LEMMA PublishKeepsSnapshotInv ==
  ASSUME SnapshotInv, Publish, samples' \in Nat, angle' \in Nat,
         UNCHANGED <<handler, reader, previous>>
  PROVE  SnapshotInv'
  <1>1. /\ published' = published + 1 /\ readyIndex' = 1 - readyIndex
        /\ snapshots' = [snapshots EXCEPT ![1 - readyIndex] = published + 1]
    BY DEF Publish, WriteSlot
  <1>2. SnapshotTypes'
    BY <1>1, SMT DEF SnapshotInv, SnapshotTypes, Slots
  <1>3. (snapshots[readyIndex] = published)'
    BY <1>1, SMT DEF SnapshotInv, SnapshotTypes, Slots
  <1>4. ASSUME Reading' PROVE
          /\ reader.taken <= published'
          /\ published' = reader.taken => reader.slot = readyIndex'
          /\ published' = reader.taken + 1 => reader.slot = 1 - readyIndex'
          /\ published' < reader.taken + 2 =>
               /\ reader.first = reader.taken
               /\ snapshots'[reader.slot] = reader.taken
    <2>1. Reading
      BY <1>4 DEF Reading
    <2>2. reader.taken \in Nat /\ reader.slot \in Slots
      BY SMT DEF SnapshotInv, SnapshotTypes
    <2>3. CASE published = reader.taken
      BY <1>1, <2>1, <2>2, <2>3, SMT
         DEF SnapshotInv, SnapshotTypes, ReaderIsBehind, Slots
    <2>4. CASE published > reader.taken
      BY <1>1, <2>1, <2>2, <2>4, SMT
         DEF SnapshotInv, SnapshotTypes, ReaderIsBehind, Slots
    <2> QED
      BY <2>1, <2>2, <2>3, <2>4, SMT
         DEF SnapshotInv, SnapshotTypes, ReaderIsBehind
  <1> QED
    BY <1>2, <1>3, <1>4, SMT DEF SnapshotInv, ReaderIsBehind

LEMMA SampleKeepsSnapshotInv ==
  ASSUME SnapshotInv, Sample
  PROVE  SnapshotInv'
  <1>1. UNCHANGED <<handler, reader, previous>> /\ samples' = samples + 1
    BY DEF Sample
  <1>2. samples' \in Nat
    BY <1>1, SMT DEF SnapshotInv, SnapshotTypes
  <1>3. CASE CalculateInnerLoop
    <2>1. angle' \in Nat
      BY <1>3, SMT DEF CalculateInnerLoop, SnapshotInv, SnapshotTypes
    <2>2. CASE Publish
      BY <1>1, <1>2, <2>1, <2>2, PublishKeepsSnapshotInv
    <2>3. CASE UNCHANGED <<published, snapshots, readyIndex, pending>>
      BY <1>1, <1>2, <2>1, <2>3, SMT
         DEF SnapshotInv, SnapshotTypes, ReaderIsBehind, Reading
    <2> QED
      BY <1>3, <2>2, <2>3, Zenon DEF CalculateInnerLoop
  <1>4. CASE UNCHANGED <<angle, triggerCounter, published, snapshots,
                         readyIndex, pending>>
    BY <1>1, <1>2, <1>4, SMT
       DEF SnapshotInv, SnapshotTypes, ReaderIsBehind, Reading
  <1> QED
    BY <1>3, <1>4, Zenon DEF Sample

Handlers == [at : HandlerPlaces, now : Nat, before : Nat]

LEMMA HandlerMoves ==
  ASSUME NEW h \in Handlers, NEW p \in HandlerPlaces, NEW n \in Nat
  PROVE  /\ [h EXCEPT !.at = p] \in Handlers
         /\ [h EXCEPT !.at = p, !.now = n] \in Handlers
  <1>1. [h EXCEPT !.at = p] \in Handlers
    BY SMT DEF Handlers, HandlerPlaces
  <1>2. \A g \in Handlers : [g EXCEPT !.now = n] \in Handlers
    BY SMT DEF Handlers, HandlerPlaces
  <1> QED
    BY <1>1, <1>2, Zenon

\* The handler changes nothing the snapshots consist of, and what it reads of
\* one when it takes it is the last publication.
LEMMA HandlerKeepsSnapshotInv ==
  ASSUME SnapshotInv, LowPriorityHandler
  PROVE  SnapshotInv'
  <1>1. UNCHANGED <<published, readyIndex, snapshots, angle, samples>>
    BY Zenon DEF LowPriorityHandler, StartHandler, Speed, Remember, Position,
        Output, UpdateOnlineMechanicalEstimator, TakeElectrical,
        UpdateOnlineElectricalEstimator, HandlerKeeps
  <1>2. /\ previous' \in Nat
        /\ handler' \in [at : HandlerPlaces, now : Nat, before : Nat]
    <2>1. handler \in Handlers /\ previous \in Nat /\ angle \in Nat
      BY DEF SnapshotInv, SnapshotTypes, Handlers
    <2>2. CASE StartHandler
      BY <2>1, <2>2, SMT DEF StartHandler, Handlers, HandlerPlaces
    <2>3. CASE Speed
      <3>1. /\ handler' = [handler EXCEPT !.at = "second", !.now = angle]
            /\ UNCHANGED previous
        BY <2>3 DEF Speed
      <3>2. "second" \in HandlerPlaces
        BY DEF HandlerPlaces
      <3>3. [handler EXCEPT !.at = "second", !.now = angle] \in Handlers
        BY <2>1, <3>2, HandlerMoves, Zenon
      <3> QED
        BY <2>1, <3>1, <3>3, Zenon DEF Handlers
    <2>4. CASE Remember
      <3>1. previous' = angle
        BY <2>4, Zenon DEF Remember
      <3>2. \E p \in HandlerPlaces : handler' = [handler EXCEPT !.at = p]
        BY <2>4, Zenon DEF Remember, HandlerPlaces
      <3> QED
        BY <2>1, <3>1, <3>2, HandlerMoves, Zenon DEF Handlers
    <2>5. CASE Position \/ Output \/ UpdateOnlineMechanicalEstimator
               \/ TakeElectrical \/ UpdateOnlineElectricalEstimator
      <3>1. UNCHANGED previous
        BY <2>5, Zenon DEF Position, Output, UpdateOnlineMechanicalEstimator,
           TakeElectrical, UpdateOnlineElectricalEstimator
      <3>2. \E p \in HandlerPlaces : handler' = [handler EXCEPT !.at = p]
        BY <2>5, Zenon DEF Position, Output, UpdateOnlineMechanicalEstimator,
           TakeElectrical, UpdateOnlineElectricalEstimator, HandlerPlaces
      <3> QED
        BY <2>1, <3>1, <3>2, HandlerMoves, Zenon DEF Handlers
    <2> QED
      BY <2>2, <2>3, <2>4, <2>5, Zenon DEF LowPriorityHandler
  <1>3. CASE TakeSnapshot
    BY <1>1, <1>2, <1>3, SMT DEF TakeSnapshot, SnapshotInv, SnapshotTypes,
        ReaderIsBehind, Reading, Slots
  <1>4. CASE UNCHANGED reader /\ (Reading' => Reading)
    BY <1>1, <1>2, <1>4, SMT DEF SnapshotInv, SnapshotTypes, ReaderIsBehind
  <1>5. TakeSnapshot \/ (UNCHANGED reader /\ (Reading' => Reading))
    <2>1. CASE StartHandler
      BY <2>1, SMT DEF StartHandler, Reading, SnapshotInv, SnapshotTypes
    <2>2. CASE Speed
      BY <2>2, SMT DEF Speed, Reading, SnapshotInv, SnapshotTypes
    <2>3. CASE Remember
      BY <2>3, SMT DEF Remember, Reading, SnapshotInv, SnapshotTypes
    <2>4. CASE Position
      BY <2>4, SMT DEF Position, Reading, SnapshotInv, SnapshotTypes
    <2>5. CASE Output
      BY <2>5, SMT DEF Output, Reading, SnapshotInv, SnapshotTypes
    <2>6. CASE UpdateOnlineMechanicalEstimator
      BY <2>6, SMT DEF UpdateOnlineMechanicalEstimator, Reading, SnapshotInv,
                       SnapshotTypes
    <2>7. CASE TakeElectrical
      BY <2>7, SMT DEF TakeElectrical, Reading, SnapshotInv, SnapshotTypes
    <2>8. CASE UpdateOnlineElectricalEstimator
      BY <2>8, SMT DEF UpdateOnlineElectricalEstimator, Reading, SnapshotInv,
                       SnapshotTypes
    <2> QED
      BY <2>1, <2>2, <2>3, <2>4, <2>5, <2>6, <2>7, <2>8
         DEF LowPriorityHandler
  <1> QED
    BY <1>3, <1>4, <1>5

LEMMA LoopsKeepSnapshotInv ==
  ASSUME SnapshotInv, LoopNext
  PROVE  SnapshotInv'
  <1>1. CASE Enable \/ Started \/ Disable \/ Convert
    BY <1>1, SnapshotInvReads, Zenon
       DEF Enable, Started, Disable, Convert, snapshotVars
  <1>2. CASE \E v \in Cleared : ClearStored(v)
    <2> PICK v \in Cleared : ClearStored(v)
      BY <1>2
    <2>1. UNCHANGED <<published, readyIndex, snapshots, handler, reader,
                      samples>>
      BY DEF ClearStored
    <2>2. angle' \in Nat /\ previous' \in Nat
      BY SMT DEF ClearStored, SnapshotInv, SnapshotTypes
    <2> QED
      BY <2>1, <2>2, SMT
         DEF SnapshotInv, SnapshotTypes, ReaderIsBehind, Reading
  <1>3. CASE Sample
    BY <1>3, SampleKeepsSnapshotInv
  <1>4. CASE LowPriorityHandler
    BY <1>4, HandlerKeepsSnapshotInv
  <1> QED
    BY <1>1, <1>2, <1>3, <1>4 DEF LoopNext

\* An estimator is fed one whole snapshot, the newest when it took it, unless
\* two publications came in between: for every number of samples and every
\* interleaving of the sampling interrupt with the low-priority handler.
THEOREM EstimatorsReadWholeSnapshots == TargetSpec => []SnapshotsAreWhole
  <1>1. TargetInit => SnapshotInv
    BY SnapshotInvHoldsAtFirst DEF TargetInit
  <1>2. SnapshotInv /\ [TargetNext]_targetVars => SnapshotInv'
    <2> SUFFICES ASSUME SnapshotInv, [TargetNext]_targetVars
                 PROVE  SnapshotInv'
      OBVIOUS
    <2>1. CASE LoopNext
      BY <2>1, LoopsKeepSnapshotInv
    <2>2. CASE UNCHANGED loopVars
      BY <2>2, SnapshotInvReads, Zenon DEF loopVars, snapshotVars
    <2> QED
      BY <2>1, <2>2, Zenon DEF TargetNext, targetVars
  <1>3. SnapshotInv => SnapshotsAreWhole
    BY SMT DEF SnapshotInv, SnapshotTypes, ReaderIsBehind, SnapshotsAreWhole
  <1> QED
    BY <1>1, <1>2, <1>3, PTL DEF TargetSpec
-----------------------------------------------------------------------------
(* The post-mortem record.                                                 *)

\* The trace is what the last scan found, or as much as a record can keep.
TraceKept == trace.count = AtMost(found, MaxStackTraceEntries)

\* A record being written is not valid from the first of its words on.
WriterHoldsRecord ==
    /\ cpu \in {"invalid", "registers", "scanned"} => ~magic
    /\ cpu \in {"registers", "scanned"} => frame = faults
    /\ cpu = "scanned" => trace.fault = faults /\ TraceKept
    /\ cpu \in {"entered", "invalid", "registers", "scanned"} =>
         faults > 0 /\ faults \notin recorded

\* A valid record is the last one that was finished, and untold.
ValidIsLastUntold ==
    magic => /\ frame = trace.fault /\ TraceKept
             /\ frame \in recorded \ told
             /\ \A f \in recorded : f <= frame

\* The constructor tells the record it found, and only then lets it go.
ConstructorHoldsRecord ==
    /\ cpu = "formatted" => /\ magic
                            /\ status.frame = frame
                            /\ status.trace = Formatted(trace)
    /\ faults \in recorded => magic \/ faults \in told \cup lost
    /\ cpu = "running" /\ faults \in recorded => faults \in told \cup lost

FaultInv ==
    /\ faults \in Nat /\ found \in Nat /\ recorded \subseteq 1 .. faults
    /\ told \subseteq recorded
    /\ WriterHoldsRecord /\ ValidIsLastUntold /\ ConstructorHoldsRecord

LEMMA FaultInvHoldsAtFirst == FaultInit => FaultInv
  BY SMT DEF FaultInit, FaultInv, WriterHoldsRecord, ValidIsLastUntold,
             ConstructorHoldsRecord

\* Neither the fault handler nor the constructor breaks it at any step, and
\* a reset or a loss of power between two of them does not either.
LEMMA BoardKeepsFaultInv ==
  ASSUME FaultInv, FaultSteps \/ Restarts
  PROVE  FaultInv'
  <1> USE DEF FaultInv, WriterHoldsRecord, ValidIsLastUntold,
              ConstructorHoldsRecord, TraceKept
  <1>1. CASE ReadAndClearResetCause
    BY <1>1, SMT DEF ReadAndClearResetCause
  <1>2. CASE FormatFaultData
    BY <1>2, SMT DEF FormatFaultData, IsValid
  <1>3. CASE Invalidate
    <2>1. status.frame = frame /\ frame \in recorded /\ ~magic'
      BY <1>3, SMT DEF Invalidate
    <2>2. told' = told \cup {frame}
      BY <1>3, <2>1, Zenon DEF Invalidate
    <2> QED
      BY <1>3, <2>1, <2>2, SMT DEF Invalidate
  <1>4. CASE HardFault
    BY <1>4, SMT DEF HardFault, Handling
  <1>5. CASE ClearMagic
    BY <1>5, SMT DEF ClearMagic
  <1>6. CASE SaveRegisters
    BY <1>6, SMT DEF SaveRegisters
  <1>7. CASE ScanStack
    BY <1>7, FaultAssumption, SMT DEF ScanStack
  <1>8. CASE SetMagic
    BY <1>8, SMT DEF SetMagic
  <1>9. CASE SystemReset
    BY <1>9, SMT DEF SystemReset, Restart
  <1>10. CASE Reset
    BY <1>10, SMT DEF Reset, Restart
  <1>11. CASE ExternalReset
    BY <1>11, SMT DEF ExternalReset, Restart
  <1>12. CASE PowerUp
    BY <1>12, SMT DEF PowerUp, Restart
  <1> HIDE DEF FaultInv
  <1> QED
    BY <1>1, <1>2, <1>3, <1>4, <1>5, <1>6, <1>7, <1>8,
       <1>9, <1>10, <1>11, <1>12, Zenon DEF FaultSteps, Restarts

LEMMA FaultInvReads ==
  ASSUME FaultInv, UNCHANGED faultVars
  PROVE  FaultInv'
  BY SMT DEF FaultInv, WriterHoldsRecord, ValidIsLastUntold,
             ConstructorHoldsRecord, TraceKept, faultVars

\* Every hard fault whose handler finished is told once, by the first
\* constructor that goes on, unless its record lost its power; and what is
\* left out of its trace is only what the record or the string of the report
\* has no place for: for every number of faults, every size of the two and
\* of the stack, and resets between any two steps.
THEOREM FaultsToldOnce == TargetSpec => []FaultsAreToldOnce
  <1>1. TargetInit => FaultInv
    BY FaultInvHoldsAtFirst DEF TargetInit, BoardInit
  <1>2. FaultInv /\ [TargetNext]_targetVars => FaultInv'
    <2> SUFFICES ASSUME FaultInv, [TargetNext]_targetVars
                 PROVE  FaultInv'
      OBVIOUS
    <2>1. CASE FaultSteps \/ Restarts
      BY <2>1, BoardKeepsFaultInv
    <2>2. CASE UNCHANGED faultVars
      BY <2>2, FaultInvReads
    <2> QED
      BY <2>1, <2>2, Zenon
         DEF TargetNext, targetVars, boardVars, BoardNext, BuildTerminal
  <1>3. FaultInv => FaultsAreToldOnce
    <2> SUFFICES ASSUME FaultInv PROVE FaultsAreToldOnce
      OBVIOUS
    <2>1. found \in Nat /\ MaxStackTraceEntries \in Nat /\ Room \in Nat
      BY FaultAssumption, SMT DEF FaultInv
    <2>2. CASE cpu = "formatted"
      <3>1. /\ magic /\ status.frame = frame
            /\ status.trace = Formatted(trace)
        BY <2>2 DEF FaultInv, ConstructorHoldsRecord
      <3>2. /\ frame = trace.fault /\ TraceKept
            /\ frame \in recorded \ told /\ \A f \in recorded : f <= frame
        BY <3>1 DEF FaultInv, ValidIsLastUntold
      <3>3. /\ status.trace.fault = trace.fault
            /\ status.trace.count = AtMost(AtMost(found, MaxStackTraceEntries), Room)
        BY <3>1, <3>2 DEF Formatted, TraceKept
      <3>4. LET n == AtMost(AtMost(found, MaxStackTraceEntries), Room)
            IN  \/ n = found
                \/ n < found /\ n \in {MaxStackTraceEntries, Room}
        BY <2>1, SMT DEF AtMost
      <3> QED BY <2>2, <3>1, <3>2, <3>3, <3>4, Zenon DEF FaultsAreToldOnce
    <2>3. CASE cpu # "formatted"
      BY <2>3 DEF FaultInv, ConstructorHoldsRecord, FaultsAreToldOnce
    <2> QED BY <2>2, <2>3
  <1> QED
    BY <1>1, <1>2, <1>3, PTL DEF TargetSpec
-----------------------------------------------------------------------------
(* The simulator's carrier.                                                *)

Carriers == [driving : BOOLEAN, cycleScheduled : BOOLEAN, cycles : Nat]

\* The queue holds the cycle that is scheduled and no other.
Counted(c) ==
    /\ c \in Carriers
    /\ c.cycleScheduled => c.cycles = 1
    /\ ~c.cycleScheduled => c.cycles = 0

\* A driven carrier is never left without a cycle.
Sound(c) == Counted(c) /\ (c.driving => c.cycleScheduled)

PanelFollowsMotor ==
    /\ mode = "Idle" => ~driving
    /\ mode # "Calibrating" => calibration = "none"
    /\ mode = "Calibrating" => callback # "control"
    /\ counter > 0 => mode = "Running"
    /\ calibration = "mechanical" => ~driving
    /\ callback \in {"resistance", "alignment"} => calibration = callback

CarrierInv ==
    /\ Sound(Carrier) /\ PanelFollowsMotor
    /\ counter \in Nat /\ limit \in Nat
    /\ mode \in Modes

\* The fields of an updated carrier.
LEMMA CarrierUpdates ==
  ASSUME NEW c \in Carriers, NEW b \in BOOLEAN, NEW n \in Nat
  PROVE  /\ [c EXCEPT !.driving = b] \in Carriers
         /\ [c EXCEPT !.driving = b].driving = b
         /\ [c EXCEPT !.driving = b].cycleScheduled = c.cycleScheduled
         /\ [c EXCEPT !.driving = b].cycles = c.cycles
         /\ [c EXCEPT !.cycleScheduled = b, !.cycles = n] \in Carriers
         /\ [c EXCEPT !.cycleScheduled = b, !.cycles = n].driving = c.driving
         /\ [c EXCEPT !.cycleScheduled = b, !.cycles = n].cycleScheduled = b
         /\ [c EXCEPT !.cycleScheduled = b, !.cycles = n].cycles = n
  <1>1. [c EXCEPT !.driving = b] \in Carriers
    BY Zenon DEF Carriers
  <1>2. [c EXCEPT !.driving = b].driving = b
    BY Zenon DEF Carriers
  <1>3. [c EXCEPT !.driving = b].cycleScheduled = c.cycleScheduled
    BY Zenon DEF Carriers
  <1>4. [c EXCEPT !.driving = b].cycles = c.cycles
    BY Zenon DEF Carriers
  <1>5. [c EXCEPT !.cycleScheduled = b, !.cycles = n] \in Carriers
    BY Zenon DEF Carriers
  <1>6. [c EXCEPT !.cycleScheduled = b, !.cycles = n].driving = c.driving
    BY Zenon DEF Carriers
  <1>7. [c EXCEPT !.cycleScheduled = b, !.cycles = n].cycleScheduled = b
    BY Zenon DEF Carriers
  <1>8. [c EXCEPT !.cycleScheduled = b, !.cycles = n].cycles = n
    BY Zenon DEF Carriers
  <1> QED
    BY <1>1, <1>2, <1>3, <1>4, <1>5, <1>6, <1>7, <1>8, Zenon

LEMMA ScheduledIsSound ==
  ASSUME NEW c \in Carriers, Counted(c)
  PROVE  /\ Sound(ScheduleNextCycle(c))
         /\ ScheduleNextCycle(c).driving = c.driving
  <1>1. CASE c.cycleScheduled \/ ~c.driving
    BY <1>1, Zenon DEF ScheduleNextCycle, Sound, Counted
  <1>2. CASE ~c.cycleScheduled /\ c.driving
    <2> DEFINE d == [c EXCEPT !.cycleScheduled = TRUE, !.cycles = 1]
    <2>1. d \in Carriers /\ d.driving = c.driving /\ d.cycleScheduled = TRUE
          /\ d.cycles = 1
      BY CarrierUpdates, Zenon DEF Carriers
    <2>2. c.cycles + 1 = 1
      BY <1>2, SMT DEF Counted
    <2>3. ScheduleNextCycle(c) = d
      BY <1>2, <2>2, Zenon DEF ScheduleNextCycle
    <2> QED
      BY <2>1, <2>3, Zenon DEF Sound, Counted
  <1> QED
    BY <1>1, <1>2, Zenon

LEMMA EnabledIsSound ==
  ASSUME NEW c \in Carriers, Sound(c)
  PROVE  Sound(EnableSelfDriving(c)) /\ EnableSelfDriving(c).driving
  <1>1. CASE c.driving
    BY <1>1, Zenon DEF EnableSelfDriving
  <1>2. CASE ~c.driving
    <2> DEFINE d == [c EXCEPT !.driving = TRUE]
    <2>1. d \in Carriers /\ d.driving = TRUE
          /\ d.cycleScheduled = c.cycleScheduled /\ d.cycles = c.cycles
      BY CarrierUpdates, Zenon DEF Carriers
    <2>2. Counted(d)
      BY <2>1, Zenon DEF Sound, Counted
    <2>3. EnableSelfDriving(c) = ScheduleNextCycle(d)
      BY <1>2, Zenon DEF EnableSelfDriving
    <2> HIDE DEF d
    <2> QED
      BY <2>1, <2>2, <2>3, ScheduledIsSound, Zenon
  <1> QED
    BY <1>1, <1>2, Zenon

LEMMA HaltedIsSound ==
  ASSUME NEW c \in Carriers, Counted(c)
  PROVE  Sound(Halted(c)) /\ ~Halted(c).driving
  <1>1. /\ Halted(c) \in Carriers /\ Halted(c).driving = FALSE
        /\ Halted(c).cycleScheduled = c.cycleScheduled
        /\ Halted(c).cycles = c.cycles
    BY CarrierUpdates, Zenon DEF Halted, Carriers
  <1> QED
    BY <1>1, Zenon DEF Sound, Counted

LEMMA CycleTaken ==
  ASSUME NEW c \in Carriers, c.cycles = 1
  PROVE  LET d == [c EXCEPT !.cycleScheduled = FALSE, !.cycles = @ - 1]
         IN  Counted(d) /\ d.driving = c.driving
  <1> DEFINE d == [c EXCEPT !.cycleScheduled = FALSE, !.cycles = 0]
  <1>1. c.cycles - 1 = 0
    BY SMT
  <1>2. d \in Carriers
    BY Zenon DEF Carriers
  <1>3. d.driving = c.driving
    BY Zenon DEF Carriers
  <1>4. ~d.cycleScheduled
    BY Zenon DEF Carriers
  <1>5. d.cycles = 0
    BY Zenon DEF Carriers
  <1> QED
    BY <1>1, <1>2, <1>3, <1>4, <1>5, Zenon DEF Counted

LEMMA TakenIsCounted ==
  ASSUME Sound(Carrier), cycles > 0
  PROVE  Counted(Taken) /\ Taken.driving = driving
  <1>1. Carrier \in Carriers /\ Carrier.driving = driving
        /\ Carrier.cycleScheduled = cycleScheduled /\ Carrier.cycles = cycles
    BY Zenon DEF Sound, Counted, Carrier
  <1>2. Carrier.cycles = 1
    BY <1>1, SMT DEF Sound, Counted, Carriers
  <1> QED
    BY <1>1, <1>2, CycleTaken, Zenon DEF Taken

\* What CarrierBecomes(c) makes of a sound carrier, and of the queue.
LEMMA CarrierIs ==
  ASSUME NEW c, CarrierBecomes(c), Sound(c)
  PROVE  Sound(Carrier)' /\ (driving' <=> c.driving)
  <1>1. c \in Carriers
    BY Zenon DEF Sound, Counted
  <1>2. Carrier' = c
    BY <1>1, SMT DEF Carrier, CarrierBecomes, Carriers
  <1> QED
    BY <1>2, Zenon DEF CarrierBecomes, Sound, Counted, Carrier

LEMMA CarrierInvHoldsAtFirst == SimInit => CarrierInv
  <1> SUFFICES ASSUME SimInit PROVE CarrierInv
    OBVIOUS
  <1>1. Sound(Carrier)
    <2>1. ~driving /\ ~cycleScheduled /\ cycles = 0
      BY DEF SimInit
    <2>2. cycles \in Nat
      BY <2>1, SMT
    <2>3. driving \in BOOLEAN /\ cycleScheduled \in BOOLEAN
      BY Zenon DEF SimInit
    <2>4. Carrier \in Carriers
      BY <2>2, <2>3, Zenon DEF Carriers, Carrier
    <2> QED
      BY <2>1, <2>4, Zenon DEF Sound, Counted, Carrier
  <1>2. limit \in Nat
    BY SimulatorAssumption, Zenon DEF SimInit
  <1> QED
    BY <1>1, <1>2, SMT DEF SimInit, CarrierInv, PanelFollowsMotor, Modes

LEMMA CarrierInvReads ==
  ASSUME CarrierInv, UNCHANGED simVars
  PROVE  CarrierInv'
  BY Zenon DEF CarrierInv, PanelFollowsMotor, Sound, Counted, Carrier, simVars

\* The three carriers an action outside a cycle can leave.
LEMMA PanelCarriers ==
  ASSUME Sound(Carrier)
  PROVE  /\ Carrier.driving = driving
         /\ Sound(Halted(Carrier)) /\ ~Halted(Carrier).driving
         /\ Sound(EnableSelfDriving(Carrier))
         /\ Sound(Driven(Carrier)) /\ Sound(Driven(Halted(Carrier)))
  <1>1. Carrier \in Carriers /\ Counted(Carrier)
    BY Zenon DEF Sound, Counted
  <1>2. Sound(Halted(Carrier)) /\ ~Halted(Carrier).driving
    BY <1>1, HaltedIsSound, Zenon
  <1>3. Halted(Carrier) \in Carriers
    BY <1>2, Zenon DEF Sound, Counted
  <1>4. Sound(Driven(Halted(Carrier)))
    BY <1>2, <1>3, EnabledIsSound, Zenon DEF Driven
  <1>5. Sound(EnableSelfDriving(Carrier)) /\ Sound(Driven(Carrier))
    BY <1>1, EnabledIsSound, Zenon DEF Driven
  <1>6. Carrier.driving = driving
    BY Zenon DEF Carrier
  <1> QED
    BY <1>2, <1>4, <1>5, <1>6, Zenon

\* A click, a timer or a cycle keeps the panel and the motor together, once
\* the carrier it leaves is known to be sound.
LEMMA ClicksKeepCarrierInv ==
  ASSUME CarrierInv,
         StartClicked \/ StopClicked \/ AlignClicked
           \/ IdentifyElectricalClicked \/ IdentifyMechanicalClicked
  PROVE  CarrierInv'
  <1>1. PICK c : CarrierBecomes(c) /\ Sound(c)
                 /\ (StopClicked \/ IdentifyMechanicalClicked => ~c.driving)
    BY PanelCarriers, Zenon DEF CarrierInv, StartClicked, StopClicked,
       AlignClicked, IdentifyElectricalClicked, IdentifyMechanicalClicked,
       Calibrate
  <1>2. Sound(Carrier)' /\ (driving' <=> c.driving)
    BY <1>1, CarrierIs, Zenon
  <1> USE DEF CarrierInv, PanelFollowsMotor, Modes
  <1>3. CASE StartClicked
    BY <1>2, <1>3, SMT DEF StartClicked
  <1>4. CASE StopClicked
    BY <1>1, <1>2, <1>4, SMT DEF StopClicked
  <1>5. CASE AlignClicked
    BY <1>2, <1>5, SMT DEF AlignClicked, Calibrate
  <1>6. CASE IdentifyElectricalClicked
    BY <1>2, <1>6, SMT DEF IdentifyElectricalClicked, Calibrate
  <1>7. CASE IdentifyMechanicalClicked
    BY <1>1, <1>2, <1>7, SMT DEF IdentifyMechanicalClicked, Calibrate
  <1> QED
    BY <1>3, <1>4, <1>5, <1>6, <1>7

LEMMA TimersKeepCarrierInv ==
  ASSUME CarrierInv, Settled \/ PolePairsTimer \/ MechanicalTimeout
  PROVE  CarrierInv'
  <1> USE DEF CarrierInv, PanelFollowsMotor, Modes
  <1>1. CASE Settled
    <2>1. Sound(Carrier)'
      BY <1>1, PanelCarriers, CarrierIs, Zenon DEF Settled
    <2> QED
      BY <1>1, <2>1, SMT DEF Settled
  <1>2. CASE PolePairsTimer /\ mode' = "Idle"
    <2>1. calibration = "polePairs" /\ mode = "Calibrating"
      BY <1>2, SMT DEF PolePairsTimer
    <2>2. CarrierBecomes(Halted(Carrier)) /\ callback' = "none"
          /\ calibration' = "none" /\ UNCHANGED <<limit, running, counter>>
      BY <1>2, <2>1, SMT DEF PolePairsTimer
    <2>3. Sound(Carrier)' /\ ~driving'
      BY <2>2, PanelCarriers, CarrierIs, Zenon
    <2> QED
      BY <1>2, <2>1, <2>2, <2>3, SMT
  <1>3. CASE PolePairsTimer /\ UNCHANGED <<mode, calibration, callback>>
    <2>1. Sound(Carrier)'
      BY <1>3, PanelCarriers, CarrierIs, Zenon DEF PolePairsTimer
    <2> QED
      BY <1>3, <2>1, SMT DEF PolePairsTimer
  <1>4. CASE MechanicalTimeout
    <2>1. Sound(Carrier)'
      BY <1>4, Zenon DEF MechanicalTimeout, Sound, Counted, Carrier
    <2> QED
      BY <1>4, <2>1, SMT DEF MechanicalTimeout
  <1> QED
    BY <1>1, <1>2, <1>3, <1>4, Zenon DEF PolePairsTimer

\* The callback of a cycle may stop and drive the carrier before the next
\* cycle is scheduled.
LEMMA CycleCarriers ==
  ASSUME Sound(Carrier), cycles > 0
  PROVE  /\ Taken.driving = driving
         /\ ~driving => Sound(Taken)
         /\ Sound(ScheduleNextCycle(Taken))
         /\ ScheduleNextCycle(Taken).driving = driving
         /\ Sound(ScheduleNextCycle(Halted(Taken)))
         /\ ~ScheduleNextCycle(Halted(Taken)).driving
         /\ driving => Sound(ScheduleNextCycle(Driven(Taken)))
         /\ Sound(ScheduleNextCycle(Driven(Halted(Taken))))
  <1>1. Taken \in Carriers /\ Counted(Taken) /\ Taken.driving = driving
    BY TakenIsCounted, Zenon DEF Counted
  <1>2. Halted(Taken) \in Carriers /\ Sound(Halted(Taken))
        /\ Counted(Halted(Taken)) /\ ~Halted(Taken).driving
    BY <1>1, HaltedIsSound, Zenon DEF Sound, Counted
  <1>3. Sound(ScheduleNextCycle(Taken))
        /\ ScheduleNextCycle(Taken).driving = driving
    BY <1>1, ScheduledIsSound, Zenon
  <1>4. Sound(ScheduleNextCycle(Halted(Taken)))
        /\ ~ScheduleNextCycle(Halted(Taken)).driving
    BY <1>2, ScheduledIsSound, Zenon
  <1>5. ASSUME driving PROVE Sound(ScheduleNextCycle(Driven(Taken)))
    BY <1>1, <1>3, <1>5, Zenon DEF Driven, EnableSelfDriving
  <1>6. Sound(ScheduleNextCycle(Driven(Halted(Taken))))
    <2>1. Sound(Driven(Halted(Taken)))
      BY <1>2, EnabledIsSound, Zenon DEF Driven
    <2>2. Driven(Halted(Taken)) \in Carriers /\ Counted(Driven(Halted(Taken)))
      BY <2>1, Zenon DEF Sound, Counted
    <2> QED
      BY <2>2, ScheduledIsSound, Zenon
  <1>7. ~driving => Sound(Taken)
    BY <1>1, Zenon DEF Sound
  <1> QED
    BY <1>1, <1>3, <1>4, <1>5, <1>6, <1>7, Zenon

LEMMA CyclesKeepCarrierInv ==
  ASSUME CarrierInv, StaleCycle \/ Finished \/ RunOneCycle
  PROVE  CarrierInv'
  <1> USE DEF CarrierInv, PanelFollowsMotor, Modes
  <1>0. cycles > 0
    BY Zenon DEF StaleCycle, Finished, RunOneCycle
  <1>1. CASE StaleCycle
    <2>1. Sound(Carrier)' /\ ~driving'
      BY <1>0, <1>1, CycleCarriers, CarrierIs, Zenon DEF StaleCycle
    <2> QED
      BY <1>1, <2>1, SMT DEF StaleCycle
  <1>2. CASE Finished
    <2>1. Sound(Carrier)' /\ ~driving'
      BY <1>0, <1>2, CycleCarriers, CarrierIs, Zenon DEF Finished
    <2>2. mode = "Running" /\ calibration = "none"
      BY <1>2, SMT DEF Finished
    <2> QED
      BY <1>2, <2>1, <2>2, SMT DEF Finished
  <1>3. CASE RunOneCycle
    <2>1. driving /\ counter' \in Nat /\ (counter' > 0 => counter > 0)
          /\ UNCHANGED <<limit, running>>
      BY <1>3, SMT DEF RunOneCycle
    <2>2. CASE callback = "control"
          /\ CarrierBecomes(ScheduleNextCycle(Driven(Taken)))
          /\ UNCHANGED <<callback, calibration, mode>>
      <3>1. Sound(Carrier)'
        BY <1>0, <2>1, <2>2, CycleCarriers, CarrierIs, Zenon
      <3> QED
        BY <2>1, <2>2, <3>1, SMT
    <2>3. CASE CarrierBecomes(ScheduleNextCycle(Taken))
          /\ callback # "control"
          /\ UNCHANGED <<callback, calibration, mode>>
      <3>1. Sound(Carrier)'
        BY <1>0, <2>1, <2>3, CycleCarriers, CarrierIs, Zenon
      <3> QED
        BY <2>1, <2>3, <3>1, SMT
    <2>4. CASE callback = "resistance"
          /\ callback' = "empty" /\ calibration' = "polePairs"
          /\ CarrierBecomes(ScheduleNextCycle(Driven(Halted(Taken))))
          /\ UNCHANGED mode
      <3>1. Sound(Carrier)'
        BY <1>0, <2>1, <2>4, CycleCarriers, CarrierIs, Zenon
      <3> QED
        BY <2>1, <2>4, <3>1, SMT
    <2>5. CASE callback = "alignment"
          /\ callback' = "none" /\ calibration' = "none" /\ mode' = "Idle"
          /\ CarrierBecomes(ScheduleNextCycle(Halted(Taken)))
      <3>1. Sound(Carrier)' /\ ~driving'
        BY <1>0, <2>1, <2>5, CycleCarriers, CarrierIs, Zenon
      <3>2. mode = "Calibrating"
        BY <2>5, SMT
      <3> QED
        BY <2>1, <2>5, <3>1, <3>2, SMT
    <2> QED
      BY <1>3, <2>2, <2>3, <2>4, <2>5, Zenon DEF RunOneCycle
  <1> QED
    BY <1>1, <1>2, <1>3

\* The queue never holds two cycles, a driven model always has one, and an
\* idle panel stands over a motor that is not driven: for every limit and
\* every order of clicks, timers and cycles.
THEOREM OneCycleIsScheduled == TargetSpec => []OneCarrier
  <1>1. TargetInit => CarrierInv
    BY CarrierInvHoldsAtFirst DEF TargetInit
  <1>2. CarrierInv /\ [TargetNext]_targetVars => CarrierInv'
    <2> SUFFICES ASSUME CarrierInv, [TargetNext]_targetVars
                 PROVE  CarrierInv'
      OBVIOUS
    <2>1. CASE SimNext
      BY <2>1, ClicksKeepCarrierInv, TimersKeepCarrierInv,
         CyclesKeepCarrierInv, Zenon DEF SimNext
    <2>2. CASE UNCHANGED simVars
      BY <2>2, CarrierInvReads
    <2> QED
      BY <2>1, <2>2, Zenon DEF TargetNext, targetVars
  <1>3. CarrierInv => OneCarrier
    <2> SUFFICES ASSUME CarrierInv PROVE OneCarrier
      OBVIOUS
    <2>1. Carrier.driving = driving /\ Carrier.cycles = cycles
          /\ Carrier.cycleScheduled = cycleScheduled
          /\ cycleScheduled \in BOOLEAN
      BY Zenon DEF CarrierInv, Sound, Counted, Carriers, Carrier
    <2>2. cycles \in {0, 1} /\ (driving => cycles = 1)
      BY <2>1, Zenon DEF CarrierInv, Sound, Counted
    <2>3. cycles <= 1
      BY <2>2, SMT
    <2>4. mode = "Idle" => ~driving /\ calibration = "none"
      BY SMT DEF CarrierInv, PanelFollowsMotor
    <2> QED
      BY <2>2, <2>3, <2>4, Zenon DEF OneCarrier
  <1> QED
    BY <1>1, <1>2, <1>3, PTL DEF TargetSpec
-----------------------------------------------------------------------------
(* The transcripts of a test run.                                          *)

RunTypes ==
    /\ begun \in Files /\ scenario \in 0 .. begun
    /\ scenarioFile \in Files /\ scenarioIndex \in Nat
    /\ created \subseteq Scenarios /\ inScenario \in BOOLEAN
    /\ transcript \in [Files -> [Files -> Nat]]

\* Of the scenarios to come nothing is told yet.
LinesAgree ==
    /\ TranscriptsAgree
    /\ \A n \in Scenarios :
         n > begun => /\ n \notin created
                      /\ \A f \in Files : transcript[f][n] = 0

\* While a scenario runs, the file that is open, if any, is its own, and if
\* it was made it is open.
OpenIsOwn ==
    /\ at \in {"start", "flash", "gdb", "BeforeAll", "idle", "over"}
         => scenario = 0
    /\ at \in {"start", "flash", "gdb", "idle", "over"} => todo = <<>>
    /\ at = "start" => begun = 0 /\ scenarioIndex = 0
    /\ scenario # 0 => scenario = begun
    /\ enabled => scenarioIndex = begun
    /\ enabled /\ at \notin {"start", "over"} => sessionFile
    /\ enabled /\ scenario # 0 =>
         /\ inScenario /\ scenarioFile # 0 => scenarioFile = scenario
         /\ scenario \in created => inScenario /\ scenarioFile = scenario

TranscriptInv == RunTypes /\ LinesAgree /\ OpenIsOwn

LEMMA TranscriptInvHoldsAtFirst == RunInit => TranscriptInv
  <1> SUFFICES ASSUME RunInit PROVE TranscriptInv
    OBVIOUS
  <1>1. 0 \in Files /\ \A n \in Scenarios : n \in Files
    BY ScenariosAssumption, SMT DEF Files, Scenarios
  <1>2. /\ transcript \in [Files -> [Files -> Nat]]
        /\ \A f \in Files, n \in Files : transcript[f][n] = 0
    BY SMT DEF RunInit
  <1>3. LinesAgree
    BY <1>1, <1>2, SMT DEF RunInit, LinesAgree, TranscriptsAgree
  <1>4. RunTypes /\ OpenIsOwn
    BY <1>1, <1>2, SMT DEF RunInit, RunTypes, OpenIsOwn
  <1> QED
    BY <1>3, <1>4 DEF TranscriptInv

\* A line said of the scenario that runs keeps the files in agreement.
LEMMA WriteKeepsLines ==
  ASSUME TranscriptInv, at \notin {"start", "over"}, NEW k \in Nat, Write(k),
         begun' = begun, created' = created
  PROVE  LinesAgree' /\ transcript' \in [Files -> [Files -> Nat]]
  <1>0. /\ transcript \in [Files -> [Files -> Nat]] /\ scenario \in Files
        /\ scenarioFile \in Files /\ begun \in Nat /\ scenario <= begun
        /\ MaxScenarios \in Nat /\ inScenario \in BOOLEAN
    BY ScenariosAssumption, SMT DEF TranscriptInv, RunTypes, Files
  <1>1. /\ transcript' \in [Files -> [Files -> Nat]]
        /\ \A f \in Files, m \in Files :
             transcript'[f][m] =
               IF /\ m = scenario /\ enabled
                  /\ IF f = 0 THEN sessionFile ELSE inScenario /\ f = scenarioFile
               THEN transcript[f][m] + k ELSE transcript[f][m]
    BY <1>0, SMT DEF Write, Written
  <1>2. TranscriptsAgree'
    <2> SUFFICES ASSUME NEW n \in Scenarios
                 PROVE  /\ \A m \in Scenarios \ {n} : transcript'[n][m] = 0
                        /\ n \in created => transcript'[n][n] = transcript'[0][n]
      BY <1>0, Zenon DEF TranscriptsAgree, Scenarios
    <2>1. /\ \A m \in Scenarios \ {n} : transcript[n][m] = 0
          /\ n \in created => transcript[n][n] = transcript[0][n]
      BY Zenon DEF TranscriptInv, LinesAgree, TranscriptsAgree
    <2>2. ASSUME NEW m \in Scenarios \ {n} PROVE transcript'[n][m] = 0
      <3>1. ~(m = scenario /\ enabled /\ inScenario /\ n = scenarioFile)
        BY <1>0, SMT DEF TranscriptInv, OpenIsOwn, Scenarios
      <3>2. n \in Files /\ m \in Files /\ n # 0
        BY <1>0, SMT DEF Scenarios, Files
      <3>3. transcript'[n][m] = transcript[n][m]
        BY <1>1, <3>1, <3>2, Zenon
      <3> QED
        BY <2>1, <3>3, Zenon
    <2>3. ASSUME n \in created PROVE transcript'[n][n] = transcript'[0][n]
      <3>1. n = scenario /\ enabled =>
              sessionFile /\ inScenario /\ n = scenarioFile
        BY <1>0, <2>3, SMT DEF TranscriptInv, OpenIsOwn, Scenarios
      <3>2. n \in Files /\ 0 \in Files /\ n # 0
        BY <1>0, SMT DEF Scenarios, Files
      <3>3. transcript[n][n] = transcript[0][n]
        BY <2>1, <2>3, Zenon
      <3>4. CASE n = scenario /\ enabled
        <4>1. /\ transcript'[n][n] = transcript[n][n] + k
              /\ transcript'[0][n] = transcript[0][n] + k
          BY <1>1, <3>1, <3>2, <3>4, Zenon
        <4> QED
          BY <3>3, <4>1, Zenon
      <3>5. CASE ~(n = scenario /\ enabled)
        <4>1. /\ transcript'[n][n] = transcript[n][n]
              /\ transcript'[0][n] = transcript[0][n]
          BY <1>1, <3>2, <3>5, Zenon
        <4> QED
          BY <3>3, <4>1, Zenon
      <3> QED
        BY <3>4, <3>5, Zenon
    <2> QED
      BY <2>2, <2>3
  <1>3. ASSUME NEW n \in Scenarios, n > begun'
        PROVE  n \notin created' /\ \A f \in Files : transcript'[f][n] = 0
    <2>1. n # scenario /\ n \in Files
      BY <1>0, <1>3, SMT DEF Scenarios, Files
    <2>2. n > begun => n \notin created /\ \A f \in Files : transcript[f][n] = 0
      BY Zenon DEF TranscriptInv, LinesAgree
    <2> QED
      BY <1>1, <1>3, <2>1, <2>2, SMT
  <1> QED
    BY <1>1, <1>2, <1>3, Zenon DEF LinesAgree

LEMMA SilenceKeepsLines ==
  ASSUME TranscriptInv, UNCHANGED <<transcript, begun, created>>
  PROVE  LinesAgree' /\ transcript' \in [Files -> [Files -> Nat]]
  BY SMT DEF TranscriptInv, RunTypes, LinesAgree, TranscriptsAgree

\* The steps that say lines, or none, and leave the files as they are.
LEMMA SpeakingKeepsTranscriptInv ==
  ASSUME TranscriptInv,
         (\E k \in Nat : Write(k)) \/ UNCHANGED transcript,
         UNCHANGED <<begun, fileVars>>,
         at \notin {"start", "over"}, at' \notin {"start", "over"},
         at' \in {"flash", "gdb", "idle"} => todo' = <<>>,
         \/ scenario' = 0
         \/ /\ UNCHANGED scenario
            /\ \/ UNCHANGED at
               \/ at \in {"flash", "gdb", "BeforeAll"}
               \/ at' \notin {"start", "flash", "gdb", "BeforeAll", "idle",
                              "over"}
  PROVE  TranscriptInv'
  <1>1. LinesAgree' /\ transcript' \in [Files -> [Files -> Nat]]
    <2>1. begun' = begun /\ created' = created
      BY Zenon DEF fileVars
    <2> QED
      BY <2>1, WriteKeepsLines, SilenceKeepsLines, Zenon
  <1>2. RunTypes'
    <2>1. scenario' \in 0 .. begun'
      BY ScenariosAssumption, SMT DEF TranscriptInv, RunTypes, Files
    <2> QED
      BY <1>1, <2>1, Zenon DEF TranscriptInv, RunTypes, fileVars
  <1>3. OpenIsOwn'
    BY SMT DEF TranscriptInv, RunTypes, OpenIsOwn, fileVars
  <1> QED
    BY <1>1, <1>2, <1>3 DEF TranscriptInv

\* Of a scenario that begins nothing has been told, and only its own file is
\* open, or none.
LEMMA BeginKeepsTranscriptInv ==
  ASSUME TranscriptInv, BeforeScenario
  PROVE  TranscriptInv'
  <1>0. /\ begun \in Files /\ begun + 1 \in Scenarios /\ begun + 1 \in Files
        /\ begun' = begun + 1 /\ scenario' = begun + 1 /\ at = "idle"
        /\ at' = "BeforeScenario" /\ MaxScenarios \in Nat
        /\ transcript \in [Files -> [Files -> Nat]] /\ scenarioFile \in Files
        /\ created \subseteq Scenarios /\ inScenario \in BOOLEAN
    <2>1. /\ begun \in Files /\ scenarioFile \in Files
          /\ transcript \in [Files -> [Files -> Nat]]
          /\ created \subseteq Scenarios /\ inScenario \in BOOLEAN
      BY Zenon DEF TranscriptInv, RunTypes
    <2>2. /\ begun < MaxScenarios /\ at = "idle" /\ at' = "BeforeScenario"
          /\ begun' = begun + 1 /\ scenario' = begun + 1
      BY Zenon DEF BeforeScenario
    <2>3. begun + 1 \in Scenarios /\ begun + 1 \in Files /\ MaxScenarios \in Nat
      BY <2>1, <2>2, ScenariosAssumption, SMT DEF Files, Scenarios
    <2> QED
      BY <2>1, <2>2, <2>3, Zenon
  <1>1. CASE ~enabled
    <2>1. UNCHANGED loggerVars
      BY <1>1, Zenon DEF BeforeScenario, BeginScenario
    <2>2. LinesAgree'
      <3>1. \A n \in Scenarios : n > begun' => n > begun
        BY <1>0, SMT DEF Scenarios, Files
      <3>2. created' = created /\ transcript' = transcript
        BY <2>1, Zenon DEF loggerVars
      <3> QED
        BY <3>1, <3>2, Zenon DEF TranscriptInv, LinesAgree, TranscriptsAgree
    <2>3. RunTypes'
      <3>1. /\ begun' \in Files /\ scenario' \in 0 .. begun'
        BY <1>0, SMT DEF Files
      <3> QED
        BY <2>1, <3>1, Zenon DEF TranscriptInv, RunTypes, loggerVars
    <2>4. OpenIsOwn'
      <3>1. at' = "BeforeScenario" /\ scenario' = begun' /\ enabled' = enabled
        BY <1>0, <2>1, Zenon DEF loggerVars
      <3> QED
        BY <1>1, <3>1 DEF OpenIsOwn
    <2> QED
      BY <2>2, <2>3, <2>4 DEF TranscriptInv
  <1>2. CASE enabled
    <2>1. /\ scenarioIndex' = scenarioIndex + 1
          /\ UNCHANGED <<configured, enabled, sessionFile>>
          /\ \E opens \in BOOLEAN :
               /\ scenarioFile' = IF opens THEN scenarioIndex + 1 ELSE 0
               /\ inScenario' = opens
               /\ created' = IF opens THEN created \cup {scenarioIndex + 1}
                                      ELSE created
               /\ transcript' = Written(1, begun + 1, scenarioFile', inScenario')
      BY <1>2, Zenon DEF BeforeScenario, BeginScenario
    <2>2. scenarioIndex = begun /\ sessionFile
      BY <1>0, <1>2, SMT DEF TranscriptInv, OpenIsOwn
    <2>3. PICK opens \in BOOLEAN :
               /\ scenarioFile' = IF opens THEN begun + 1 ELSE 0
               /\ inScenario' = opens
               /\ created' = IF opens THEN created \cup {begun + 1}
                                      ELSE created
               /\ transcript' = Written(1, begun + 1, scenarioFile', inScenario')
      BY <2>1, <2>2
    <2>4. scenarioFile' \in Files
      BY <1>0, <2>3, SMT DEF Files
    <2>5. /\ transcript' \in [Files -> [Files -> Nat]]
          /\ \A f \in Files, m \in Files :
               transcript'[f][m] =
                 IF /\ m = begun + 1
                    /\ IF f = 0 THEN TRUE ELSE opens /\ f = begun + 1
                 THEN transcript[f][m] + 1 ELSE transcript[f][m]
      <3>1. transcript' = Written(1, begun + 1, scenarioFile', opens)
        BY <2>3, Zenon
      <3>2. opens => scenarioFile' = begun + 1
        BY <2>3, Zenon
      <3>3. /\ transcript' \in [Files -> [Files -> Nat]]
            /\ \A f \in Files, m \in Files :
                 transcript'[f][m] =
                   IF /\ m = begun + 1 /\ enabled
                      /\ IF f = 0 THEN sessionFile
                                  ELSE opens /\ f = scenarioFile'
                   THEN transcript[f][m] + 1 ELSE transcript[f][m]
        BY <1>0, <2>4, <3>1, SMT DEF Written
      <3> QED
        BY <1>2, <2>2, <3>2, <3>3, Zenon
    <2>6. ASSUME NEW n \in Scenarios, NEW m \in Scenarios \ {n}
          PROVE  transcript'[n][m] = 0
      <3>1. n \in Files /\ m \in Files /\ n # 0 /\ transcript[n][m] = 0
        BY SMT DEF TranscriptInv, LinesAgree, TranscriptsAgree, Files, Scenarios
      <3>2. ~(m = begun + 1 /\ n = begun + 1)
        BY Zenon
      <3> QED
        BY <2>5, <3>1, <3>2, Zenon
    <2>7. ASSUME NEW n \in Scenarios, n \in created'
          PROVE  transcript'[n][n] = transcript'[0][n]
      <3>1. n \in Files /\ 0 \in Files /\ n # 0
        BY <1>0, SMT DEF Files, Scenarios
      <3>2. CASE n = begun + 1
        <4>1. opens
          <5>1. begun + 1 \notin created
            BY <1>0, SMT DEF TranscriptInv, LinesAgree, Files
          <5> QED
            BY <2>3, <2>7, <3>2, <5>1, Zenon
        <4>2. transcript[n][n] = 0 /\ transcript[0][n] = 0
          BY <1>0, <3>1, <3>2, SMT DEF TranscriptInv, LinesAgree, Files
        <4>3. /\ transcript'[n][n] = transcript[n][n] + 1
              /\ transcript'[0][n] = transcript[0][n] + 1
          BY <2>5, <3>1, <3>2, <4>1, Zenon
        <4> QED
          BY <4>2, <4>3, Zenon
      <3>3. CASE n # begun + 1
        <4>1. n \in created
          BY <2>3, <2>7, <3>3, Zenon
        <4>2. transcript[n][n] = transcript[0][n]
          BY <4>1, Zenon DEF TranscriptInv, LinesAgree, TranscriptsAgree
        <4>3. /\ transcript'[n][n] = transcript[n][n]
              /\ transcript'[0][n] = transcript[0][n]
          BY <2>5, <3>1, <3>3, Zenon
        <4> QED
          BY <4>2, <4>3, Zenon
      <3> QED
        BY <3>2, <3>3, Zenon
    <2>8. ASSUME NEW n \in Scenarios, n > begun'
          PROVE  n \notin created' /\ \A f \in Files : transcript'[f][n] = 0
      <3>1. n # begun + 1 /\ n > begun /\ n \in Files
        BY <1>0, <2>8, SMT DEF Files, Scenarios
      <3>2. n \notin created /\ \A f \in Files : transcript[f][n] = 0
        BY <3>1, Zenon DEF TranscriptInv, LinesAgree
      <3>3. n \notin created'
        BY <2>3, <3>1, <3>2, Zenon
      <3>4. \A f \in Files : transcript'[f][n] = transcript[f][n]
        BY <2>5, <3>1, Zenon
      <3> QED
        BY <3>2, <3>3, <3>4, Zenon
    <2>9. LinesAgree'
      BY <2>6, <2>7, <2>8, Zenon DEF LinesAgree, TranscriptsAgree
    <2>10. scenarioIndex' \in Nat /\ created' \subseteq Scenarios
      BY <1>0, <2>1, <2>2, <2>3, SMT DEF Files
    <2>11. RunTypes'
      <3>1. scenario' \in 0 .. begun'
        BY <1>0, SMT DEF Files
      <3>2. begun' \in Files /\ inScenario' \in BOOLEAN
        BY <1>0, <2>3
      <3> QED
        BY <2>4, <2>5, <2>10, <3>1, <3>2, Zenon DEF RunTypes
    <2>12. begun + 1 \in created' => opens
      <3>1. begun + 1 \notin created
        BY <1>0, SMT DEF TranscriptInv, LinesAgree, Files
      <3> QED
        BY <2>3, <3>1, Zenon
    <2>13. OpenIsOwn'
      BY <1>0, <1>2, <2>1, <2>2, <2>3, <2>12, SMT DEF OpenIsOwn, Files
    <2> QED
      BY <2>9, <2>11, <2>13 DEF TranscriptInv
  <1> QED
    BY <1>1, <1>2

\* Nothing is told of a scenario before the session's file has been opened.
LEMMA OpeningKeepsTranscriptInv ==
  ASSUME TranscriptInv, Configure \/ BeforeAll
  PROVE  TranscriptInv'
  <1>0. /\ at = "start" /\ begun = 0 /\ scenario = 0 /\ scenarioIndex = 0
        /\ UNCHANGED <<begun, scenario, scenarioIndex, scenarioFile,
                       inScenario, created>>
        /\ at' \in {"start", "flash"} /\ todo' = <<>>
        /\ transcript \in [Files -> [Files -> Nat]] /\ 0 \in Files
        /\ created \subseteq Scenarios
    BY ScenariosAssumption, SMT DEF TranscriptInv, RunTypes, OpenIsOwn,
       Configure, BeforeAll, OpenSession, Files
  <1>1. \/ UNCHANGED transcript
        \/ transcript' = [transcript EXCEPT ![0][0] = @ + 2]
    BY Zenon DEF Configure, BeforeAll, OpenSession
  <1>2. /\ transcript' \in [Files -> [Files -> Nat]]
        /\ \A f \in Files, m \in Files :
             m # 0 => transcript'[f][m] = transcript[f][m]
    <2>1. CASE UNCHANGED transcript
      BY <1>0, <2>1
    <2>2. CASE transcript' = [transcript EXCEPT ![0][0] = @ + 2]
      <3>1. transcript[0] \in [Files -> Nat] /\ transcript[0][0] + 2 \in Nat
        BY <1>0, SMT
      <3>2. transcript' =
              [transcript EXCEPT ![0] = [transcript[0] EXCEPT ![0] =
                                           transcript[0][0] + 2]]
        BY <2>2
      <3> QED
        BY <1>0, <3>1, <3>2, SMT
    <2> QED
      BY <1>1, <2>1, <2>2
  <1>3. LinesAgree'
    <2>1. \A n \in Scenarios : n \in Files /\ n # 0
      BY SMT DEF Scenarios, Files
    <2>2. \A f \in Files, n \in Scenarios : transcript'[f][n] = transcript[f][n]
      BY <1>2, <2>1, Zenon
    <2>3. 0 \in Files /\ begun' = begun /\ created' = created
      BY <1>0
    <2>4. TranscriptsAgree'
      <3>1. TranscriptsAgree
        BY Zenon DEF TranscriptInv, LinesAgree
      <3> SUFFICES ASSUME NEW n \in Scenarios
                   PROVE  /\ \A m \in Scenarios \ {n} : transcript'[n][m] = 0
                          /\ n \in created => transcript'[n][n] = transcript'[0][n]
        BY <2>3, Zenon DEF TranscriptsAgree
      <3>2. \A m \in Scenarios : transcript'[n][m] = transcript[n][m]
        BY <2>1, <2>2, Zenon
      <3>3. transcript'[0][n] = transcript[0][n]
        BY <2>2, <2>3, Zenon
      <3> QED
        BY <3>1, <3>2, <3>3, Zenon DEF TranscriptsAgree
    <2> QED
      BY <2>2, <2>3, <2>4, Zenon DEF TranscriptInv, LinesAgree
  <1>4. RunTypes'
    BY <1>0, <1>2, Zenon DEF TranscriptInv, RunTypes
  <1>5. OpenIsOwn'
    BY <1>0, SMT DEF TranscriptInv, OpenIsOwn, Configure, BeforeAll, OpenSession
  <1> QED
    BY <1>3, <1>4, <1>5 DEF TranscriptInv

\* A file is closed only when its scenario, or the run, is over.
LEMMA ClosingKeepsTranscriptInv ==
  ASSUME TranscriptInv, AfterScenarioEnds \/ AfterAll
  PROVE  TranscriptInv'
  <1>0. /\ at \notin {"start", "over"} /\ at' \in {"idle", "over"}
        /\ UNCHANGED <<begun, created, enabled, scenarioIndex>>
        /\ scenario' = 0 /\ todo' = <<>>
        /\ scenarioFile' \in {0, scenarioFile}
        /\ at' = "idle" => UNCHANGED sessionFile
        /\ Write(1) \/ UNCHANGED transcript
    BY SMT DEF AfterScenarioEnds, AfterAll, EndScenario, CloseSession,
               loggerVars, TranscriptInv, OpenIsOwn
  <1>1. LinesAgree' /\ transcript' \in [Files -> [Files -> Nat]]
    BY <1>0, WriteKeepsLines, SilenceKeepsLines, SMT
  <1>2. RunTypes'
    <2>1. scenario' \in 0 .. begun' /\ scenarioFile' \in Files
      BY <1>0, ScenariosAssumption, SMT DEF TranscriptInv, RunTypes, Files
    <2>2. inScenario' \in BOOLEAN
      BY Zenon DEF AfterScenarioEnds, AfterAll, EndScenario, loggerVars,
                   TranscriptInv, RunTypes
    <2> QED
      BY <1>0, <1>1, <2>1, <2>2, Zenon DEF TranscriptInv, RunTypes
  <1>3. OpenIsOwn'
    BY <1>0, SMT DEF TranscriptInv, OpenIsOwn
  <1> QED
    BY <1>1, <1>2, <1>3 DEF TranscriptInv

LEMMA RunKeepsTranscriptInv ==
  ASSUME TranscriptInv, RunNext
  PROVE  TranscriptInv'
  <1>1. CASE Flash \/ GdbEnds
    <2>1. /\ \/ \E k \in Nat : Write(k)
             \/ UNCHANGED transcript
          /\ UNCHANGED <<begun, scenario, fileVars>>
          /\ at \in {"flash", "gdb"} /\ at' \in {"BeforeAll", "idle", "gdb"}
          /\ at' = "BeforeAll" \/ todo' = <<>>
      BY <1>1, SMT DEF Flash, GdbEnds, Connects, BeforeAllThrows,
                       TranscriptInv, OpenIsOwn
    <2> QED
      BY <2>1, SpeakingKeepsTranscriptInv, Zenon
  <1>2. CASE Connect \/ Call
    <2>1. /\ \/ \E k \in Nat : Write(k)
             \/ UNCHANGED transcript
          /\ UNCHANGED <<begun, fileVars>>
          /\ \/ UNCHANGED <<at, scenario>>
             \/ \E k \in Nat : Throws(k)
      BY <1>2, SMT DEF Connect, Call, Throws, BeforeAllThrows
    <2>2. at \notin {"start", "over"}
      BY <1>2, SMT DEF TranscriptInv, OpenIsOwn, Connect, Call
    <2>3. CASE UNCHANGED <<at, scenario>>
      <3>1. at' \in {"flash", "gdb", "idle"} => todo' = <<>>
        BY <1>2, <2>3, SMT DEF TranscriptInv, OpenIsOwn, Connect, Call
      <3> QED
        BY <2>1, <2>2, <2>3, <3>1, SpeakingKeepsTranscriptInv, Zenon
    <2>4. CASE \E k \in Nat : Throws(k)
      <3>1. /\ at' \in {"idle", "AfterScenario"}
            /\ at' = "AfterScenario" \/ todo' = <<>>
            /\ \/ scenario' = 0
               \/ UNCHANGED scenario /\ (at = "BeforeAll" \/ at' = "AfterScenario")
        BY <2>4, SMT DEF Throws, BeforeAllThrows, CleansUp
      <3>2. /\ at' \notin {"start", "over"}
            /\ at' \in {"flash", "gdb", "idle"} => todo' = <<>>
            /\ at' = "AfterScenario" => at' \notin {"start", "flash", "gdb",
                                          "BeforeAll", "idle", "over"}
        BY <3>1, SMT
      <3> QED
        BY <2>1, <2>2, <3>1, <3>2, SpeakingKeepsTranscriptInv, Zenon
    <2> QED
      BY <2>1, <2>3, <2>4
  <1>3. CASE BeforeAllEnds \/ Steps \/ AfterScenario
    <2>1. /\ UNCHANGED <<begun, transcript, scenario, fileVars>>
          /\ at = "BeforeAll" \/ at' \in {"steps", "AfterScenario"}
          /\ at \notin {"start", "over"} /\ at' \notin {"start", "over"}
      BY <1>3, SMT DEF BeforeAllEnds, Steps, AfterScenario, CleansUp,
                       loggerVars, fileVars
    <2>2. /\ at' \in {"flash", "gdb", "idle"} => todo' = <<>>
          /\ at \in {"flash", "gdb", "BeforeAll"}
             \/ at' \notin {"start", "flash", "gdb", "BeforeAll", "idle", "over"}
      BY <1>3, SMT DEF BeforeAllEnds, Steps, AfterScenario, CleansUp
    <2> QED
      BY <2>1, <2>2, SpeakingKeepsTranscriptInv, Zenon
  <1> QED
    BY <1>1, <1>2, <1>3, BeginKeepsTranscriptInv, OpeningKeepsTranscriptInv,
       ClosingKeepsTranscriptInv, Zenon DEF RunNext

LEMMA TranscriptInvReads ==
  ASSUME TranscriptInv, UNCHANGED runVars
  PROVE  TranscriptInv'
  BY SMT DEF TranscriptInv, RunTypes, LinesAgree, TranscriptsAgree, OpenIsOwn,
             runVars, loggerVars

\* However many scenarios run and whichever hooks and steps throw, a
\* scenario's file tells what the session's does of it and nothing of another.
THEOREM TranscriptsTellTheSame == TargetSpec => []TranscriptsAgree
  <1>1. TargetInit => TranscriptInv
    BY TranscriptInvHoldsAtFirst DEF TargetInit
  <1>2. TranscriptInv /\ [TargetNext]_targetVars => TranscriptInv'
    <2> SUFFICES ASSUME TranscriptInv, [TargetNext]_targetVars
                 PROVE  TranscriptInv'
      OBVIOUS
    <2>1. RunNext \/ UNCHANGED runVars
      BY Zenon DEF TargetNext, targetVars
    <2> QED
      BY <2>1, RunKeepsTranscriptInv, TranscriptInvReads
  <1>3. TranscriptInv => TranscriptsAgree
    BY DEF TranscriptInv, LinesAgree
  <1> QED
    BY <1>1, <1>2, <1>3, PTL DEF TargetSpec

-----------------------------------------------------------------------------
(* What a scope draws.                                                     *)

Samples == [value : Levels, number : Nat]

RingTypes ==
    /\ data \in [0 .. Capacity - 1 -> Samples]
    /\ head \in 0 .. Capacity - 1 /\ count \in 0 .. Capacity
    /\ count < Capacity => head = count
    /\ totalSamples \in Nat /\ pushed \in Nat /\ fired \in Nat
    /\ previousTriggerSample \in Levels
    /\ level \in Levels /\ singleShotDone \in BOOLEAN /\ retuned \in BOOLEAN
    /\ triggered \in BOOLEAN

\* The samples kept are the last ones, and the next sample is compared with
\* the last one, unless that is the only one.
LastSamples ==
    /\ count <= pushed
    /\ \A i \in 0 .. count - 1 : At(i).number = pushed - count + 1 + i
    /\ \A i \in 1 .. count - 1 :
         i = count - 1 => previousTriggerSample = At(i).value

\* The sample that ended a single shot is the last one, and crosses the
\* level from the one before it, or is the second.
ShotIsLast ==
    Frozen /\ ~retuned =>
        /\ triggered /\ fired = pushed /\ count >= 2
        /\ \A i \in 2 .. count - 1 :
             i = count - 1 => Crosses(At(i - 1).value, At(i).value)

ScopeInv == RingTypes /\ LastSamples /\ ShotIsLast

\* A remainder of less than twice the divisor.
LEMMA ModBelow ==
  ASSUME NEW a \in Nat, NEW c \in Nat \ {0}, a < c
  PROVE  a % c = a
  BY SMTT(60)

LEMMA ModWrap ==
  ASSUME NEW a \in Nat, NEW c \in Nat \ {0}, c <= a, a < 2 * c
  PROVE  a % c = a - c
  BY SMTT(60)

LEMMA ModOfSum ==
  ASSUME NEW a \in Nat, NEW c \in Nat \ {0}, a < 2 * c
  PROVE  a % c = IF a < c THEN a ELSE a - c
  <1>1. CASE a < c
    BY <1>1, ModBelow
  <1>2. CASE ~(a < c)
    <2>1. c <= a
      BY <1>2, SMT
    <2> QED
      BY <1>2, <2>1, ModWrap
  <1> QED
    BY <1>1, <1>2

Wrapped(k) == IF k < Capacity THEN k ELSE k - Capacity

\* Where the index-th sample is in a ring of h and c.
Place(h, c, index) == IF c < Capacity THEN index ELSE Wrapped(h + index)

LEMMA PlaceOfIndex ==
  ASSUME NEW d, NEW h \in 0 .. Capacity - 1, NEW c \in 0 .. Capacity,
         NEW i \in 0 .. c - 1
  PROVE  /\ (IF c < Capacity THEN d[i] ELSE d[(h + i) % Capacity])
               = d[Place(h, c, i)]
         /\ Place(h, c, i) \in 0 .. Capacity - 1
  <1>1. Place(h, c, i) \in 0 .. Capacity - 1
    BY ScopeAssumption, SMT DEF Place, Wrapped
  <1>2. CASE ~(c < Capacity)
    <2>1. \A k \in Nat : k < 2 * Capacity => k % Capacity = Wrapped(k)
      BY ScopeAssumption, ModOfSum, Zenon DEF Wrapped
    <2>2. h + i \in Nat /\ h + i < 2 * Capacity
      BY ScopeAssumption, SMT
    <2>5. (h + i) % Capacity = Place(h, c, i)
      BY <1>2, <2>1, <2>2, Zenon DEF Place
    <2>6. d[(h + i) % Capacity] = d[Place(h, c, i)]
      BY <2>5
    <2> QED
      BY <1>1, <1>2, <2>6
  <1> QED
    BY <1>1, <1>2, Zenon DEF Place

LEMMA AtIsInPlace ==
  ASSUME RingTypes, NEW i \in 0 .. count - 1
  PROVE  /\ At(i) = data[Place(head, count, i)]
         /\ At(i) \in Samples
  <1>1. /\ head \in 0 .. Capacity - 1 /\ count \in 0 .. Capacity
        /\ data \in [0 .. Capacity - 1 -> Samples]
    BY Zenon DEF RingTypes
  <1>2. /\ (IF count < Capacity THEN data[i] ELSE data[(head + i) % Capacity])
               = data[Place(head, count, i)]
        /\ Place(head, count, i) \in 0 .. Capacity - 1
    BY <1>1, PlaceOfIndex, Zenon
  <1> QED
    BY <1>1, <1>2, Zenon DEF At

\* A push moves the samples down by one when the ring is full, and the new
\* one is the last.
LEMMA PushAppends ==
  ASSUME RingTypes, NEW s \in Samples, Push(s)
  PROVE  /\ data' \in [0 .. Capacity - 1 -> Samples]
         /\ head' \in 0 .. Capacity - 1 /\ count' \in 0 .. Capacity
         /\ count' < Capacity => head' = count'
         /\ count' = IF count < Capacity THEN count + 1 ELSE count
         /\ \A i \in 0 .. count' - 1 : i = count' - 1 => At(i)' = s
         /\ \A i \in 0 .. count' - 2 : /\ i + count + 1 - count' \in 0 .. count - 1
                                       /\ At(i)' = At(i + count + 1 - count')
  <1>0. /\ Capacity \in Nat /\ Capacity >= 2
        /\ head \in 0 .. Capacity - 1 /\ count \in 0 .. Capacity
        /\ count < Capacity => head = count
        /\ data \in [0 .. Capacity - 1 -> Samples]
    BY ScopeAssumption, SMT DEF RingTypes
  <1>1. /\ data' = [data EXCEPT ![head] = s]
        /\ head' = IF head + 1 < Capacity THEN head + 1 ELSE 0
        /\ count' = IF count < Capacity THEN count + 1 ELSE count
    <2>1. PICK k \in Nat : k = head + 1
      BY <1>0, SMT
    <2>2. k < 2 * Capacity /\ Capacity \in Nat \ {0}
      BY <1>0, <2>1, SMT
    <2>3. k % Capacity = IF k < Capacity THEN k ELSE k - Capacity
      BY <2>2, ModOfSum
    <2>4. k < Capacity \/ k - Capacity = 0
      BY <1>0, <2>1, SMT
    <2> QED
      BY <2>1, <2>3, <2>4, Zenon DEF Push
  <1>2. /\ head' \in 0 .. Capacity - 1 /\ count' \in 0 .. Capacity
        /\ count' < Capacity => head' = count'
        /\ data' \in [0 .. Capacity - 1 -> Samples]
    BY <1>0, <1>1, SMT
  <1>3. ASSUME NEW i \in 0 .. count' - 1
        PROVE  /\ At(i)' = data'[Place(head', count', i)]
               /\ Place(head', count', i) \in 0 .. Capacity - 1
    <2>1. /\ (IF count' < Capacity THEN data'[i] ELSE data'[(head' + i) % Capacity])
               = data'[Place(head', count', i)]
          /\ Place(head', count', i) \in 0 .. Capacity - 1
      BY <1>2, PlaceOfIndex, Zenon
    <2> QED
      BY <2>1, Zenon DEF At
  <1>4. ASSUME NEW i \in 0 .. count' - 1, i = count' - 1 PROVE At(i)' = s
    <2>1. i \in 0 .. count' - 1 /\ Place(head', count', i) = head
      BY <1>0, <1>1, <1>4, SMT DEF Place, Wrapped
    <2> QED
      BY <1>0, <1>1, <1>3, <2>1, Zenon
  <1>5. ASSUME NEW i \in 0 .. count' - 2
        PROVE  /\ i + count + 1 - count' \in 0 .. count - 1
               /\ At(i)' = At(i + count + 1 - count')
    <2> DEFINE j == i + count + 1 - count'
    <2>1. /\ i \in 0 .. count' - 1 /\ j \in 0 .. count - 1
          /\ Place(head', count', i) = Place(head, count, j)
          /\ Place(head', count', i) # head
      BY <1>0, <1>1, SMT DEF Place, Wrapped
    <2>2. At(j) = data[Place(head, count, j)]
      BY <2>1, AtIsInPlace
    <2>3. At(i)' = data'[Place(head', count', i)]
          /\ Place(head', count', i) \in 0 .. Capacity - 1
      BY <1>3, <2>1
    <2>4. data'[Place(head', count', i)] = data[Place(head', count', i)]
      BY <1>0, <1>1, <2>1, <2>3, Zenon
    <2> HIDE DEF j
    <2>5. At(i)' = At(j)
      BY <2>1, <2>2, <2>3, <2>4, Zenon
    <2> QED
      BY <2>1, <2>5 DEF j
  <1> QED
    BY <1>1, <1>2, <1>3, <1>4, <1>5, Zenon

LEMMA RingTypesAre ==
  ASSUME RingTypes
  PROVE  /\ head \in 0 .. Capacity - 1 /\ count \in 0 .. Capacity
         /\ count \in Nat /\ Capacity \in Nat /\ Capacity >= 2
         /\ totalSamples \in Nat /\ pushed \in Nat /\ fired \in Nat
         /\ previousTriggerSample \in Levels /\ level \in Levels
         /\ retuned \in BOOLEAN /\ triggered \in BOOLEAN
  BY ScopeAssumption, SMT DEF RingTypes

LEMMA ScopeInvHoldsAtFirst == ScopeInit => ScopeInv
  <1> SUFFICES ASSUME ScopeInit PROVE ScopeInv
    OBVIOUS
  <1>1. /\ data = [i \in 0 .. Capacity - 1 |-> Blank] /\ head = 0 /\ count = 0
        /\ totalSamples \in Widths /\ level = 0 /\ triggered = FALSE
        /\ singleShotDone = FALSE /\ previousTriggerSample = 0 /\ pushed = 0
        /\ fired = 0 /\ retuned = FALSE
    BY DEF ScopeInit
  <1>2. RingTypes
    <2>1. Blank \in Samples
      BY SMT DEF Samples, Levels, Blank
    <2>2. data \in [0 .. Capacity - 1 -> Samples]
      BY <1>1, <2>1
    <2>3. totalSamples \in Nat
      BY <1>1, ScopeAssumption
    <2>4. /\ head \in 0 .. Capacity - 1 /\ count \in 0 .. Capacity
          /\ count < Capacity => head = count
          /\ pushed \in Nat /\ fired \in Nat
          /\ previousTriggerSample \in Levels /\ level \in Levels
      BY <1>1, ScopeAssumption, SMT DEF Levels
    <2> QED
      BY <1>1, <2>2, <2>3, <2>4, Zenon DEF RingTypes
  <1>3. LastSamples
    BY <1>1, SMT DEF LastSamples
  <1>4. ShotIsLast
    BY <1>1, Zenon DEF ShotIsLast, Frozen
  <1> QED
    BY <1>2, <1>3, <1>4 DEF ScopeInv

\* What a step that keeps the ring keeps of the samples.
LEMMA RingKeepsSamples ==
  ASSUME RingKeeps, LastSamples
  PROVE  LastSamples' /\ \A i \in Int : At(i)' = At(i)
  <1>1. UNCHANGED <<data, head, count, previousTriggerSample, pushed, fired>>
    BY DEF RingKeeps
  <1>2. \A i \in Int : At(i)' = At(i)
    BY <1>1, Zenon DEF At
  <1>3. LastSamples'
    BY <1>1, Zenon DEF LastSamples, At
  <1> QED
    BY <1>2, <1>3

LEMMA Below ==
  ASSUME NEW c \in Nat, NEW i, i \in 0 .. c - 1
  PROVE  /\ i \in Int /\ i \in 0 .. c - 1
         /\ i # c - 1 => i \in 0 .. c - 2
  BY SMT

LEMMA LastOf ==
  ASSUME NEW c \in Nat, NEW i, i \in 1 .. c - 1
  PROVE  i \in 0 .. c - 1 /\ c >= 2
  BY SMT

LEMMA AddSampleKeepsScopeInv ==
  ASSUME ScopeInv, NEW v \in Levels, AddSample(v)
  PROVE  ScopeInv'
  <1> DEFINE compared == count > 0
             fires == compared /\ Crosses(previousTriggerSample, v)
             s == [value |-> v, number |-> pushed + 1]
  <1>0. RingTypes /\ LastSamples /\ ShotIsLast
    BY DEF ScopeInv
  <1>1. /\ ~Frozen
        /\ pushed' = pushed + 1 /\ Push(s)
        /\ triggered' = (triggered \/ fires)
        /\ singleShotDone' = (singleShotDone \/ (fires /\ triggerMode = "Single"))
        /\ previousTriggerSample' = IF compared THEN v ELSE previousTriggerSample
        /\ fired' = IF fires THEN pushed + 1 ELSE fired
        /\ retuned' = (retuned /\ ~fires)
        /\ UNCHANGED <<totalSamples, triggerMode, edge, level>>
    BY Zenon DEF AddSample, Frozen
  <1>2. s \in Samples
    BY <1>0, RingTypesAre, SMT DEF Samples
  <1>s. s.value = v /\ s.number = pushed + 1
    OBVIOUS
  <1> HIDE DEF s, fires, compared
  <1>3. /\ data' \in [0 .. Capacity - 1 -> Samples]
        /\ head' \in 0 .. Capacity - 1 /\ count' \in 0 .. Capacity
        /\ count' < Capacity => head' = count'
        /\ count' = IF count < Capacity THEN count + 1 ELSE count
        /\ \A i \in 0 .. count' - 1 : i = count' - 1 => At(i)' = s
        /\ \A i \in 0 .. count' - 2 : /\ i + count + 1 - count' \in 0 .. count - 1
                                      /\ At(i)' = At(i + count + 1 - count')
    BY <1>0, <1>1, <1>2, PushAppends, Zenon
  <1>n. /\ count \in Nat /\ pushed \in Nat /\ fired \in Nat
        /\ totalSamples \in Nat /\ level \in Levels /\ retuned \in BOOLEAN
        /\ previousTriggerSample \in Levels /\ triggered \in BOOLEAN
        /\ Capacity \in Nat /\ Capacity >= 2
    BY <1>0, RingTypesAre, Zenon
  <1>m. count' \in Nat
    BY <1>3, <1>n, SMT
  <1>4. RingTypes'
    <2>1. triggered' \in BOOLEAN /\ singleShotDone' \in BOOLEAN /\ retuned' \in BOOLEAN
      BY <1>0, <1>1, <1>n, Zenon DEF RingTypes
    <2>2. pushed' \in Nat /\ fired' \in Nat /\ previousTriggerSample' \in Levels
      BY <1>1, <1>n, SMT
    <2>3. totalSamples' \in Nat /\ level' \in Levels
      BY <1>1, <1>n, Zenon
    <2> QED
      BY <1>3, <2>1, <2>2, <2>3, Zenon DEF RingTypes
  <1>5. LastSamples'
    <2>1. count' <= pushed'
      BY <1>0, <1>1, <1>3, <1>n, SMT DEF LastSamples
    <2>2. ASSUME NEW i, i \in 0 .. count' - 1
          PROVE  At(i)'.number = pushed' - count' + 1 + i
      <3>1. CASE i = count' - 1
        <4>1. At(i)'.number = pushed + 1
          BY <1>3, <1>s, <2>2, <3>1, Zenon
        <4> QED BY <1>1, <1>m, <1>n, <2>2, <3>1, <4>1, SMT
      <3>2. CASE i # count' - 1
        <4>1. i \in 0 .. count' - 2
          BY <1>m, <2>2, <3>2, Below, Zenon
        <4>2. /\ i + count + 1 - count' \in 0 .. count - 1
              /\ At(i)' = At(i + count + 1 - count')
          BY <1>3, <4>1, Zenon
        <4>3. At(i)'.number
                = pushed - count + 1 + (i + count + 1 - count')
          BY <1>0, <4>2, Zenon DEF LastSamples
        <4> QED BY <1>1, <1>m, <1>n, <2>2, <4>3, SMT
      <3> QED BY <3>1, <3>2
    <2>3. ASSUME NEW i, i \in 1 .. count' - 1, i = count' - 1
          PROVE  previousTriggerSample' = At(i)'.value
      <3>1. At(i)'.value = v
        <4>1. i \in 0 .. count' - 1
          BY <1>m, <2>3, LastOf, Zenon
        <4> QED BY <1>3, <1>s, <2>3, <4>1, Zenon
      <3>2. compared
        BY <1>3, <1>n, <1>m, <2>3, SMT DEF compared
      <3> QED BY <1>1, <3>1, <3>2, Zenon
    <2> QED BY <2>1, <2>2, <2>3, Zenon DEF LastSamples
  <1>6. ShotIsLast'
    <2> SUFFICES ASSUME Frozen', ~retuned'
                 PROVE  /\ triggered' /\ fired' = pushed' /\ count' >= 2
                        /\ \A i \in 2 .. count' - 1 :
                             i = count' - 1 => Crosses(At(i - 1).value, At(i).value)'
      BY Zenon DEF ShotIsLast
    <2>1. fires
      BY <1>1, Zenon DEF Frozen
    <2>2. triggered' /\ fired' = pushed'
      BY <1>1, <2>1, Zenon
    <2>3. count' >= 2
      BY <1>3, <1>n, <2>1, SMT DEF fires, compared
    <2>4. ASSUME NEW i, i \in 2 .. count' - 1, i = count' - 1
          PROVE  Crosses(At(i - 1).value, At(i).value)'
      <3>0. i \in Int /\ i \in 0 .. count' - 1 /\ i - 1 \in 0 .. count' - 2
            /\ count \in 2 .. Capacity /\ i - 1 + count + 1 - count' = count - 1
            /\ count - 1 \in 1 .. count - 1
        BY <1>3, <1>n, <1>m, <2>4, SMT
      <3>1. At(i)'.value = v
        BY <1>3, <1>s, <2>4, <3>0, Zenon
      <3>2. At(i - 1)' = At(count - 1)
        <4>1. At(i - 1)' = At(i - 1 + count + 1 - count')
          BY <1>3, <3>0, Zenon
        <4> QED BY <3>0, <4>1
      <3>3. previousTriggerSample = At(count - 1).value
        BY <1>0, <3>0, Zenon DEF LastSamples
      <3>4. Crosses(previousTriggerSample, v)
        BY <2>1, Zenon DEF fires
      <3> QED BY <1>1, <3>1, <3>2, <3>3, <3>4, Zenon DEF Crosses
    <2> QED BY <2>2, <2>3, <2>4, Zenon
  <1> QED
    BY <1>4, <1>5, <1>6 DEF ScopeInv

LEMMA ToolbarKeepsScopeInv ==
  ASSUME ScopeInv, RingKeeps,
         totalSamples' \in Nat, level' \in Levels, triggered' \in BOOLEAN,
         singleShotDone' \in BOOLEAN, retuned' \in BOOLEAN,
         Frozen' => Frozen /\ triggered' = triggered,
         retuned' \/ (edge' = edge /\ level' = level /\ retuned' = retuned)
  PROVE  ScopeInv'
  <1>1. UNCHANGED <<data, head, count, previousTriggerSample, pushed, fired>>
    BY DEF RingKeeps
  <1>2. RingTypes'
    BY <1>1, Zenon DEF ScopeInv, RingTypes
  <1>3. LastSamples' /\ \A i \in Int : At(i)' = At(i)
    BY RingKeepsSamples DEF ScopeInv
  <1>4. ShotIsLast'
    <2> SUFFICES ASSUME Frozen', ~retuned' PROVE ShotIsLast'
      BY Zenon DEF ShotIsLast
    <2>0. /\ Frozen /\ triggered' = triggered
          /\ edge' = edge /\ level' = level /\ retuned' = retuned
      BY Zenon
    <2>1. ~retuned
      BY <2>0
    <2>2. /\ triggered /\ fired = pushed /\ count >= 2
          /\ \A i \in 2 .. count - 1 :
               i = count - 1 => Crosses(At(i - 1).value, At(i).value)
      BY <2>0, <2>1, Zenon DEF ScopeInv, ShotIsLast
    <2> QED
      BY <1>1, <2>0, <2>1, <2>2, Zenon DEF ShotIsLast, Crosses, At
  <1> QED
    BY <1>2, <1>3, <1>4 DEF ScopeInv

LEMMA ClearKeepsScopeInv ==
  ASSUME ScopeInv, Clear
  PROVE  ScopeInv'
  <1>0. RingTypes
    BY DEF ScopeInv
  <1>1. /\ data' = [i \in 0 .. Capacity - 1 |-> Blank] /\ head' = 0 /\ count' = 0
        /\ triggered' = FALSE /\ singleShotDone' = FALSE
        /\ previousTriggerSample' = 0
        /\ UNCHANGED <<totalSamples, level, pushed, fired, retuned>>
    BY DEF Clear
  <1>2. RingTypes'
    <2>1. Blank \in Samples
      BY SMT DEF Samples, Levels, Blank
    <2>2. data' \in [0 .. Capacity - 1 -> Samples]
      BY <1>1, <2>1
    <2>3. /\ head' \in 0 .. Capacity - 1 /\ count' \in 0 .. Capacity
          /\ count' < Capacity => head' = count'
          /\ previousTriggerSample' \in Levels
      BY <1>1, ScopeAssumption, SMT DEF Levels
    <2> QED
      BY <1>0, <1>1, <2>2, <2>3, Zenon DEF RingTypes
  <1>3. LastSamples'
    <2>1. pushed' \in Nat
      BY <1>0, <1>1, RingTypesAre, Zenon
    <2> QED
      BY <1>1, <2>1, SMT DEF LastSamples
  <1>4. ShotIsLast'
    BY <1>1, Zenon DEF ShotIsLast, Frozen
  <1> QED
    BY <1>2, <1>3, <1>4 DEF ScopeInv

LEMMA ScopeKeepsScopeInv ==
  ASSUME ScopeInv, ScopeNext
  PROVE  ScopeInv'
  <1>0. /\ totalSamples \in Nat /\ level \in Levels /\ triggered \in BOOLEAN
        /\ singleShotDone \in BOOLEAN /\ retuned \in BOOLEAN
    BY Zenon DEF ScopeInv, RingTypes
  <1>1. CASE \E v \in Levels : AddSample(v)
    BY <1>1, AddSampleKeepsScopeInv, Zenon
  <1>2. CASE \E l \in Levels : SetTriggerLevel(l)
    <2>1. PICK l \in Levels : SetTriggerLevel(l)
      BY <1>2
    <2>2. /\ RingKeeps /\ level' = l /\ retuned' = TRUE
          /\ totalSamples' = totalSamples /\ triggered' = triggered
          /\ singleShotDone' = singleShotDone /\ triggerMode' = triggerMode
      BY <2>1, Zenon DEF SetTriggerLevel
    <2> QED
      BY <1>0, <2>1, <2>2, ToolbarKeepsScopeInv, Zenon DEF Frozen
  <1>3. CASE \E m \in {"Auto", "Normal", "Single"} : SetTriggerMode(m)
    BY <1>0, <1>3, ToolbarKeepsScopeInv, Zenon DEF SetTriggerMode, Frozen
  <1>4. CASE \E e \in {"Rising", "Falling"} : SetTriggerEdge(e)
    <2>1. /\ RingKeeps /\ level' = level /\ retuned' = TRUE
          /\ totalSamples' = totalSamples /\ triggered' = triggered
          /\ singleShotDone' = singleShotDone /\ triggerMode' = triggerMode
      BY <1>4, Zenon DEF SetTriggerEdge
    <2> QED
      BY <1>0, <2>1, ToolbarKeepsScopeInv, Zenon DEF Frozen
  <1>5. CASE \E w \in Widths : SetTimePerDivision(w)
    <2>1. PICK w \in Widths : SetTimePerDivision(w)
      BY <1>5
    <2>2. /\ RingKeeps /\ level' = level /\ retuned' = retuned /\ edge' = edge
          /\ totalSamples' = w /\ triggered' = triggered
          /\ singleShotDone' = singleShotDone /\ triggerMode' = triggerMode
      BY <2>1, Zenon DEF SetTimePerDivision
    <2>3. w \in Nat
      BY ScopeAssumption
    <2> QED
      BY <1>0, <2>2, <2>3, ToolbarKeepsScopeInv, Zenon DEF Frozen
  <1>6. CASE Clear
    BY <1>6, ClearKeepsScopeInv
  <1>7. CASE RunStopClicked
    BY <1>0, <1>7, ToolbarKeepsScopeInv, Zenon
       DEF RunStopClicked, SetRunning, Frozen
  <1>8. CASE SingleClicked
    BY <1>0, <1>8, ToolbarKeepsScopeInv, Zenon DEF SingleClicked, Frozen
  <1>9. CASE ForceTrigger
    BY <1>0, <1>9, ToolbarKeepsScopeInv, Zenon DEF ForceTrigger, Frozen
  <1> QED
    BY <1>1, <1>2, <1>3, <1>4, <1>5, <1>6, <1>7, <1>8, <1>9, Zenon
       DEF ScopeNext

LEMMA ScopeInvReads ==
  ASSUME ScopeInv, UNCHANGED scopeVars
  PROVE  ScopeInv'
  <1>1. UNCHANGED <<data, head, count, totalSamples, triggerMode, edge, level,
                    triggered, singleShotDone, previousTriggerSample, pushed,
                    fired, retuned>>
    BY Zenon DEF scopeVars
  <1>2. RingTypes'
    BY <1>1, Zenon DEF ScopeInv, RingTypes
  <1>3. LastSamples'
    BY <1>1, Zenon DEF ScopeInv, LastSamples, At
  <1>4. ShotIsLast'
    BY <1>1, Zenon DEF ScopeInv, ShotIsLast, Frozen, Crosses, At
  <1> QED
    BY <1>2, <1>3, <1>4 DEF ScopeInv

-----------------------------------------------------------------------------
(* What is drawn lies in the ring.                                         *)

LEMMA FifthOf ==
  ASSUME NEW t \in Nat, t >= 2
  PROVE  t \div 5 \in Nat /\ t \div 5 <= t - 1
  BY SMT

LEMMA TriggerPointIsKept ==
  ASSUME ScopeInv, count >= 2
  PROVE  /\ FindTriggerPoint \in 0 .. count - 1
         /\ Frozen /\ ~retuned => FindTriggerPoint = count - 1
  <1> DEFINE crossings == {i \in Monus(count, SearchLimit) + 1 .. count - 1 :
                             Crosses(At(i - 1).value, At(i).value)}
  <1>0. count \in Nat /\ SearchLimit \in Nat
    BY RingTypesAre, ScopeAssumption, Zenon DEF ScopeInv
  <1>1. FindTriggerPoint = IF crossings = {} THEN count - 1
                           ELSE CHOOSE i \in crossings : \A j \in crossings : j <= i
    <2>1. ~(count < 2)
      BY <1>0, SMT
    <2> QED BY <2>1, Zenon DEF FindTriggerPoint
  <1>2. crossings \subseteq 0 .. count - 1
    BY <1>0, SMT DEF Monus
  <1>3. Frozen /\ ~retuned /\ crossings # {} => count - 1 \in crossings
    <2> SUFFICES ASSUME Frozen, ~retuned, crossings # {}
                 PROVE  count - 1 \in crossings
      BY Zenon
    <2>1. count - 1 \in Monus(count, SearchLimit) + 1 .. count - 1
      BY <1>0, SMT DEF Monus
    <2>2. CASE count > 2
      <3>1. count - 1 \in 2 .. count - 1
        BY <1>0, <2>2, SMT
      <3> QED BY <2>1, <3>1, Zenon DEF ScopeInv, ShotIsLast
    <2>3. CASE ~(count > 2)
      <3>1. \A i \in Monus(count, SearchLimit) + 1 .. count - 1 : i = count - 1
        BY <1>0, <2>3, SMT DEF Monus
      <3> QED BY <3>1, Zenon
    <2> QED BY <2>2, <2>3
  <1> HIDE DEF crossings
  <1>4. CASE crossings = {}
    <2>1. count - 1 \in 0 .. count - 1
      BY <1>0, SMT
    <2> QED BY <1>1, <1>4, <2>1, Zenon
  <1>5. CASE crossings # {}
    <2>0. count - 1 \in Nat
      BY <1>0, SMT
    <2>1. \E i \in crossings : \A j \in crossings : j <= i
      BY <1>2, <1>5, <2>0, GreatestExists, Zenon
    <2>2. /\ FindTriggerPoint \in crossings
          /\ \A j \in crossings : j <= FindTriggerPoint
      BY <1>1, <1>5, <2>1, Zenon
    <2>3. FindTriggerPoint \in 0 .. count - 1
      BY <1>2, <2>2, Zenon
    <2>4. count - 1 \in crossings => FindTriggerPoint = count - 1
      <3>1. count - 1 <= FindTriggerPoint /\ FindTriggerPoint \in 0 .. count - 1
              => FindTriggerPoint = count - 1
        BY <1>0, SMT
      <3> QED BY <2>2, <2>3, <3>1
    <2> QED BY <1>3, <1>5, <2>3, <2>4, Zenon
  <1> QED
    BY <1>4, <1>5

LEMMA DrawnIsKept ==
  ASSUME ScopeInv
  PROVE  DrawsTheTrigger
  <1>0. /\ count \in Nat /\ pushed \in Nat /\ totalSamples \in Nat
        /\ LastSamples /\ ShotIsLast
    BY RingTypesAre, Zenon DEF ScopeInv
  <1> DEFINE start == DrawChannels.start
             shown == DrawChannels.shown
  <1>1. /\ start \in Nat /\ shown \in Nat /\ start + shown <= count
        /\ Frozen /\ ~retuned /\ totalSamples >= 2 =>
             /\ start <= count - 1 /\ count - 1 < start + shown
    <2>1. CASE totalSamples < 2 \/ count < 2
      <3>1. start = 0 /\ shown = 0
        BY <2>1, Zenon DEF DrawChannels
      <3>2. Frozen /\ ~retuned /\ totalSamples >= 2 => FALSE
        BY <1>0, <2>1, SMT DEF ShotIsLast
      <3> QED
        <4> HIDE DEF start, shown
        <4> QED BY <1>0, <3>1, <3>2, SMT
    <2>2. CASE ~(totalSamples < 2 \/ count < 2) /\ triggered /\ triggerMode # "Auto"
      <3> DEFINE point == FindTriggerPoint
                 fifth == totalSamples \div 5
      <3>1. /\ start = IF point > fifth THEN point - fifth ELSE 0
            /\ shown = IF count - start < totalSamples THEN count - start
                       ELSE totalSamples
        BY <2>2, Zenon DEF DrawChannels, FromTrigger, Monus, AtMostTotal
      <3>2. count >= 2 /\ totalSamples >= 2
        BY <1>0, <2>2, SMT
      <3>3. /\ point \in 0 .. count - 1
            /\ Frozen /\ ~retuned => point = count - 1
        BY <3>2, TriggerPointIsKept, Zenon
      <3>4. fifth \in Nat /\ fifth <= totalSamples - 1
        BY <1>0, <3>2, FifthOf
      <3> HIDE DEF start, shown, point, fifth
      <3> QED BY <1>0, <3>1, <3>2, <3>3, <3>4, SMT
    <2>3. CASE ~(totalSamples < 2 \/ count < 2) /\ ~(triggered /\ triggerMode # "Auto")
      <3>1. /\ shown = IF count < totalSamples THEN count ELSE totalSamples
            /\ start = count - shown
        BY <2>3, Zenon DEF DrawChannels, FreeRunning, AtMostTotal
      <3>2. Frozen /\ ~retuned => FALSE
        BY <1>0, <2>3, Zenon DEF ShotIsLast, Frozen
      <3> HIDE DEF start, shown
      <3> QED BY <1>0, <2>3, <3>1, <3>2, SMT
    <2> QED BY <2>1, <2>2, <2>3
  <1> HIDE DEF start, shown
  <1>2. ASSUME NEW i \in 1 .. shown - 1
        PROVE  At(start + i).number = At(start + i - 1).number + 1
    <2>1. start + i \in 0 .. count - 1 /\ start + i - 1 \in 0 .. count - 1
      BY <1>0, <1>1, SMT
    <2>2. /\ At(start + i).number = pushed - count + 1 + (start + i)
          /\ At(start + i - 1).number = pushed - count + 1 + (start + i - 1)
      BY <1>0, <2>1, Zenon DEF LastSamples
    <2>3. pushed - count + 1 + (start + i) = pushed - count + 1 + (start + i - 1) + 1
      BY <1>0, <1>1, SMT
    <2> QED BY <2>2, <2>3
  <1>3. ASSUME Frozen, ~retuned
        PROVE  fired = pushed /\ (totalSamples >= 2 => fired \in Drawn)
    <2>1. fired = pushed /\ count >= 2
      BY <1>0, <1>3 DEF ShotIsLast
    <2>2. ASSUME totalSamples >= 2 PROVE fired \in Drawn
      <3>1. /\ count - 1 - start \in 0 .. shown - 1
            /\ start + (count - 1 - start) = count - 1
            /\ count - 1 \in 0 .. count - 1
        BY <1>0, <1>1, <1>3, <2>1, <2>2, SMT
      <3>2. At(start + (count - 1 - start)).number = pushed - count + 1 + (count - 1)
        BY <1>0, <3>1, Zenon DEF LastSamples
      <3>3. pushed - count + 1 + (count - 1) = pushed
        BY <1>0, SMT
      <3>4. At(start + (count - 1 - start)).number = fired
        BY <2>1, <3>2, <3>3
      <3> QED BY <3>1, <3>4, Zenon DEF Drawn, start, shown
    <2> QED BY <2>1, <2>2
  <1> QED
    BY <1>2, <1>3, Zenon DEF DrawsTheTrigger, start, shown

\* What a scope draws is a run of consecutive samples that the ring still
\* holds, and a single shot that is done keeps drawing the sample that
\* triggered it: for every capacity, search limit and width, and however
\* many samples went through the ring.
THEOREM ScopeDrawsTheTrigger == TargetSpec => []DrawsTheTrigger
  <1>1. TargetInit => ScopeInv
    BY ScopeInvHoldsAtFirst DEF TargetInit
  <1>2. ScopeInv /\ [TargetNext]_targetVars => ScopeInv'
    <2> SUFFICES ASSUME ScopeInv, [TargetNext]_targetVars PROVE ScopeInv'
      OBVIOUS
    <2>1. CASE UNCHANGED scopeVars
      BY <2>1, ScopeInvReads
    <2>2. CASE ScopeNext
      BY <2>2, ScopeKeepsScopeInv
    <2> QED
      BY <2>1, <2>2, Zenon DEF TargetNext, targetVars
  <1>3. ScopeInv => DrawsTheTrigger
    BY DrawnIsKept
  <1> QED
    BY <1>1, <1>2, <1>3, PTL DEF TargetSpec

-----------------------------------------------------------------------------
(* The bytes and calls of a test session.                                  *)

Byte(n, p) == [of |-> n, piece |-> p]

LEMMA BytesAre ==
  ASSUME NEW n \in 0 .. MaxCommands, NEW p \in Pieces
  PROVE  Byte(n, p) \in Bytes /\ Byte(n, p).of = n /\ Byte(n, p).piece = p
  BY DEF Byte, Bytes

\* What the board says, byte by byte.
LEMMA SaysIs ==
  ASSUME NEW n \in 0 .. MaxCommands, NEW p \in Seq(Pieces)
  PROVE  /\ Says(n, p) \in Seq(Bytes) /\ Len(Says(n, p)) = Len(p)
         /\ DOMAIN Says(n, p) = 1 .. Len(p)
         /\ \A i \in 1 .. Len(p) : Says(n, p)[i] = Byte(n, p[i])
  <1> DEFINE l == Len(p)
             s == [i \in 1 .. l |-> Byte(n, p[i])]
  <1>1. l \in Nat
    BY DomainIs
  <1>2. Says(n, p) = s
    BY Zenon DEF Says, Byte
  <1>3. \A i \in 1 .. l : Byte(n, p[i]) \in Bytes
    BY BytesAre, ElementOfSeq
  <1> HIDE DEF l
  <1>4. s \in [1 .. l -> Bytes]
    BY <1>3
  <1>5. s \in Seq(Bytes) /\ Len(s) = l
    BY <1>1, <1>4, SMT
  <1>6. DOMAIN s = 1 .. l /\ \A i \in 1 .. l : s[i] = Byte(n, p[i])
    OBVIOUS
  <1> QED BY <1>2, <1>5, <1>6 DEF l

LEMMA SaysTwo ==
  ASSUME NEW n \in 0 .. MaxCommands, NEW p \in Pieces, NEW q \in Pieces
  PROVE  Says(n, <<p, q>>) = <<Byte(n, p), Byte(n, q)>>
  <1> DEFINE s == <<p, q>>
             t == <<Byte(n, p), Byte(n, q)>>
  <1>1. s \in Seq(Pieces) /\ Len(s) = 2 /\ s[1] = p /\ s[2] = q
    BY SMT
  <1>2. t \in Seq(Bytes) /\ Len(t) = 2 /\ t[1] = Byte(n, p) /\ t[2] = Byte(n, q)
    BY BytesAre, SMT
  <1> HIDE DEF s, t
  <1>3. /\ Says(n, s) \in Seq(Bytes) /\ Len(Says(n, s)) = 2
        /\ \A i \in 1 .. 2 : Says(n, s)[i] = Byte(n, s[i])
    BY <1>1, SaysIs, Zenon
  <1>4. \A i \in 1 .. 2 : Says(n, s)[i] = t[i]
    <2>1. \A i \in 1 .. 2 : i = 1 \/ i = 2
      BY SMT
    <2> QED BY <1>1, <1>2, <1>3, <2>1, Zenon
  <1>5. Says(n, s) = t
    BY <1>2, <1>3, <1>4, SeqEqual
  <1> QED BY <1>5 DEF s, t

LEMMA SaysThree ==
  ASSUME NEW n \in 0 .. MaxCommands, NEW p \in Pieces, NEW q \in Pieces, NEW r \in Pieces
  PROVE  Says(n, <<p, q, r>>) = <<Byte(n, p), Byte(n, q), Byte(n, r)>>
  <1> DEFINE s == <<p, q, r>>
             t == <<Byte(n, p), Byte(n, q), Byte(n, r)>>
  <1>1. s \in Seq(Pieces) /\ Len(s) = 3 /\ s[1] = p /\ s[2] = q /\ s[3] = r
    BY SMT
  <1>2. /\ t \in Seq(Bytes) /\ Len(t) = 3
        /\ t[1] = Byte(n, p) /\ t[2] = Byte(n, q) /\ t[3] = Byte(n, r)
    BY BytesAre, SMT
  <1> HIDE DEF s, t
  <1>3. /\ Says(n, s) \in Seq(Bytes) /\ Len(Says(n, s)) = 3
        /\ \A i \in 1 .. 3 : Says(n, s)[i] = Byte(n, s[i])
    BY <1>1, SaysIs, Zenon
  <1>4. \A i \in 1 .. 3 : Says(n, s)[i] = t[i]
    <2>1. \A i \in 1 .. 3 : i = 1 \/ i = 2 \/ i = 3
      BY SMT
    <2> QED BY <1>1, <1>2, <1>3, <2>1, Zenon
  <1>5. Says(n, s) = t
    BY <1>2, <1>3, <1>4, SeqEqual
  <1> QED BY <1>5 DEF s, t

LEMMA PieceNames ==
  /\ "echo1" \in Pieces /\ "echo2" \in Pieces /\ "text1" \in Pieces /\ "text2" \in Pieces
  /\ "newline" \in Pieces /\ "gt" \in Pieces /\ "space" \in Pieces
  BY DEF Pieces

\* The board's words, byte by byte.
LEMMA WordsAre ==
  ASSUME NEW n \in 0 .. MaxCommands
  PROVE  /\ Echo(n) = <<Byte(n, "echo1"), Byte(n, "echo2")>>
         /\ Prompt(n) = <<Byte(n, "newline"), Byte(n, "gt"), Byte(n, "space")>>
         /\ Text(n) = <<Byte(n, "newline"), Byte(n, "text1"), Byte(n, "text2")>>
         /\ Echo(n) \in Seq(Bytes) /\ Prompt(n) \in Seq(Bytes) /\ Text(n) \in Seq(Bytes)
  <1>1. /\ Echo(n) = <<Byte(n, "echo1"), Byte(n, "echo2")>>
        /\ Prompt(n) = <<Byte(n, "newline"), Byte(n, "gt"), Byte(n, "space")>>
        /\ Text(n) = <<Byte(n, "newline"), Byte(n, "text1"), Byte(n, "text2")>>
    BY PieceNames, SaysTwo, SaysThree DEF Echo, Prompt, Text
  <1>2. \A x, y, z \in Bytes : <<x, y>> \in Seq(Bytes) /\ <<x, y, z>> \in Seq(Bytes)
    BY SMT
  <1>3. \A p \in Pieces : Byte(n, p) \in Bytes
    BY BytesAre
  <1> QED BY <1>1, <1>2, <1>3, PieceNames, Zenon

Reports == [by : SerialCalls \cup {"none"}, ok : BOOLEAN, lines : Seq(Seq(Bytes))]

LEMMA HilTypesHoldAtFirst == HilInit => HilTypeOK
  <1> SUFFICES ASSUME HilInit PROVE HilTypeOK
    OBVIOUS
  <1>1. \A S : <<>> \in Seq(S)
    BY EmptySeq
  <1>2. 0 \in 0 .. MaxCommands /\ 0 \in 0 .. MaxFrames /\ 0 \in 0 .. MaxCommands + 1
    BY SessionAssumption, SMT
  <1>3. /\ call = "none" /\ phase = "none"
        /\ serialLines = <<>> /\ serialBuffer = <<>> /\ promptSeen = FALSE
        /\ number = 0 /\ typed = <<>> /\ owes = {0} /\ wire = <<>>
        /\ since = 0 /\ quiet = FALSE
        /\ report = [by |-> "none", ok |-> FALSE, lines |-> <<>>]
        /\ canQueue = <<>> /\ canWire = <<>> /\ frames = 0 /\ captured = 0
        /\ canQuiet = TRUE /\ canReport = 0
        /\ completions = <<>> /\ completed = FALSE
    BY Zenon DEF HilInit
  <1>4. report \in Reports
    BY <1>1, <1>3 DEF Reports
  <1>5. /\ call \in SerialCalls \cup {"none", "SendCanFrame", "WaitForCanFrame"}
        /\ phase \in {"none", "settle", "reply", "drain"}
        /\ owes \subseteq 0 .. MaxCommands
    BY <1>2, <1>3
  <1> QED BY <1>1, <1>2, <1>3, <1>4, <1>5, Zenon DEF HilTypeOK, Reports

LEMMA TypeOfSpoken ==
  ASSUME HilTypeOK, NEW n \in 0 .. MaxCommands, NEW w,
         w \in {Prompt(n), Echo(n), Text(n), Echo(n) \o Prompt(n),
                Echo(n) \o Text(n) \o Prompt(n)}
  PROVE  wire \o w \in Seq(Bytes)
  <1>1. Echo(n) \in Seq(Bytes) /\ Prompt(n) \in Seq(Bytes) /\ Text(n) \in Seq(Bytes)
    BY WordsAre
  <1>2. Echo(n) \o Prompt(n) \in Seq(Bytes) /\ Echo(n) \o Text(n) \in Seq(Bytes)
    BY <1>1, JoinType
  <1>3. Echo(n) \o Text(n) \o Prompt(n) \in Seq(Bytes)
    BY <1>1, <1>2, JoinType
  <1>4. w \in Seq(Bytes)
    BY <1>1, <1>2, <1>3, Zenon
  <1>5. wire \in Seq(Bytes)
    BY DEF HilTypeOK
  <1> QED BY <1>4, <1>5, JoinType

LEMMA BoardKeepsHilTypes ==
  ASSUME HilTypeOK, BoardTakes \/ BoardSaysMore
  PROVE  HilTypeOK'
  <1>1. UNCHANGED <<call, phase, serialLines, serialBuffer, promptSeen, number,
                    since, quiet, report, canVars>>
    BY Zenon DEF BoardTakes, BoardSaysMore
  <1>2. CASE BoardTakes
    <2> DEFINE b == Head(typed)
    <2>1. /\ b \in [of : 1 .. MaxCommands, empty : BOOLEAN]
          /\ Tail(typed) \in Seq([of : 1 .. MaxCommands, empty : BOOLEAN])
      BY <1>2, RestIs DEF BoardTakes, HilTypeOK
    <2>2. b.of \in 0 .. MaxCommands
      BY <2>1, SMT
    <2>3. typed' = Tail(typed) /\ owes' \in {owes, owes \cup {b.of}}
      BY <1>2, Zenon DEF BoardTakes
    <2>4. wire' \in Seq(Bytes)
      <3>1. \/ wire' = wire
            \/ \E w \in {Prompt(b.of), Echo(b.of), Text(b.of), Echo(b.of) \o Prompt(b.of),
                         Echo(b.of) \o Text(b.of) \o Prompt(b.of)} : wire' = wire \o w
        BY <1>2, Zenon DEF BoardTakes
      <3>2. wire \in Seq(Bytes)
        BY DEF HilTypeOK
      <3> QED BY <2>2, <3>1, <3>2, TypeOfSpoken, Zenon
    <2>5. owes' \subseteq 0 .. MaxCommands
      BY <2>2, <2>3 DEF HilTypeOK
    <2> QED BY <1>1, <2>1, <2>3, <2>4, <2>5, ZenonT(40) DEF HilTypeOK, canVars
  <1>3. CASE BoardSaysMore
    <2>1. PICK n \in owes : owes' = owes \ {n} /\ wire' = wire \o Text(n) /\ typed' = typed
      BY <1>3, Zenon DEF BoardSaysMore
    <2>2. n \in 0 .. MaxCommands /\ owes' \subseteq 0 .. MaxCommands
      BY <2>1 DEF HilTypeOK
    <2>3. wire' \in Seq(Bytes)
      BY <2>1, <2>2, TypeOfSpoken
    <2> QED BY <1>1, <2>1, <2>2, <2>3, ZenonT(40) DEF HilTypeOK, canVars
  <1> QED BY <1>2, <1>3

LEMMA BytesKeepHilTypes ==
  ASSUME HilTypeOK, OnSerialBytes
  PROVE  HilTypeOK'
  <1> DEFINE b == Head(wire)
             l == Len(serialBuffer)
             line == SubSeq(serialBuffer, 1, l - 1)
  <1>1. /\ AppendSerialByte(b) /\ wire' = Tail(wire) /\ wire # <<>>
        /\ UNCHANGED <<call, phase, number, typed, owes, since, quiet, report, canVars>>
    BY Zenon DEF OnSerialBytes
  <1>2. b \in Bytes /\ Tail(wire) \in Seq(Bytes)
    BY <1>1, RestIs DEF HilTypeOK
  <1>3. serialBuffer \in Seq(Bytes) /\ serialLines \in Seq(Seq(Bytes))
    BY DEF HilTypeOK
  <1>4. line \in Seq(Bytes)
    <2>1. l \in Int /\ l - 1 \in Int /\ 1 \in Int
      BY <1>3, DomainIs, SMT
    <2>2. \A i \in 1 .. l - 1 : i \in 1 .. l
      BY <2>1, SMT
    <2>3. \A i \in 1 .. l - 1 : serialBuffer[i] \in Bytes
      BY <1>3, <2>2, ElementOfSeq
    <2> QED BY <2>1, <2>3, SubSeqProperties
  <1>5. <<>> \in Seq(Bytes) /\ Append(serialBuffer, b) \in Seq(Bytes)
    BY <1>2, <1>3, EmptySeq, OneMore
  <1>6. \A x \in Seq(Bytes) : EmitSerialLine(x) => serialLines' \in Seq(Seq(Bytes))
    BY <1>3, OneMore, Zenon DEF EmitSerialLine
  <1>7. serialLines' \in Seq(Seq(Bytes)) /\ serialBuffer' \in Seq(Bytes)
        /\ promptSeen' \in BOOLEAN
    BY <1>1, <1>3, <1>4, <1>5, <1>6, Zenon DEF AppendSerialByte, HilTypeOK
  <1> QED BY <1>1, <1>2, <1>7, Zenon DEF HilTypeOK, canVars

LEMMA CallsKeepHilTypes ==
  ASSUME HilTypeOK,
         \/ SendSerial \/ PreDrained \/ WaitForPrompt \/ FlushAndAccumulate \/ DrainSerial
         \/ SendSerialEnds \/ WaitForPromptEnds \/ FlushEnds
  PROVE  HilTypeOK'
  <1>1. UNCHANGED <<owes, wire, canVars>>
    BY Zenon DEF SendSerial, PreDrained, WaitForPrompt, FlushAndAccumulate, DrainSerial,
       SendSerialEnds, WaitForPromptEnds, FlushEnds, serialVars
  <1>2. /\ call' \in SerialCalls \cup {"none", "SendCanFrame", "WaitForCanFrame"}
        /\ phase' \in {"none", "settle", "reply", "drain"}
    <2>1. /\ call' \in SerialCalls \cup {"none"}
          /\ phase' \in {"none", "settle", "reply", "drain"}
      BY Zenon DEF SendSerial, PreDrained, WaitForPrompt, FlushAndAccumulate, DrainSerial,
         SendSerialEnds, WaitForPromptEnds, FlushEnds, Runs, SerialCalls
    <2> QED BY <2>1
  <1>3. <<>> \in Seq(Bytes) /\ <<>> \in Seq(Seq(Bytes))
    BY EmptySeq
  <1>4. number \in 0 .. MaxCommands /\ number + 1 \in 0 .. MaxCommands + 1
    BY SessionAssumption, SMT DEF HilTypeOK
  <1>5. ASSUME NEW e \in BOOLEAN, TransmitSerial(e)
        PROVE  /\ number' \in 0 .. MaxCommands
               /\ typed' \in Seq([of : 1 .. MaxCommands, empty : BOOLEAN])
    <2>1. number + 1 \in 0 .. MaxCommands /\ number + 1 \in 1 .. MaxCommands
      BY <1>4, <1>5, SessionAssumption, SMT DEF TransmitSerial
    <2>2. [of |-> number + 1, empty |-> e] \in [of : 1 .. MaxCommands, empty : BOOLEAN]
      BY <2>1
    <2>3. typed \in Seq([of : 1 .. MaxCommands, empty : BOOLEAN])
      BY DEF HilTypeOK
    <2> QED BY <1>5, <2>1, <2>2, <2>3, OneMore DEF TransmitSerial
  <1>6. ASSUME ClearSerialLines
        PROVE  /\ serialLines' \in Seq(Seq(Bytes)) /\ serialBuffer' \in Seq(Bytes)
               /\ promptSeen' \in BOOLEAN /\ since' \in 0 .. MaxCommands + 1
               /\ quiet' \in BOOLEAN
    <2>1. quiet' \in BOOLEAN
      BY <1>6, Zenon DEF ClearSerialLines
    <2> QED BY <1>3, <1>4, <1>6, <2>1, Zenon DEF ClearSerialLines
  <1>7. DropEcho(serialLines) \in Seq(Seq(Bytes))
    <2>1. serialLines \in Seq(Seq(Bytes))
      BY DEF HilTypeOK
    <2>2. serialLines # <<>> => Tail(serialLines) \in Seq(Seq(Bytes))
      BY <2>1, RestIs
    <2> QED BY <2>1, <2>2, Zenon DEF DropEcho
  <1>8. CASE SendSerial
    BY <1>1, <1>2, <1>8, Zenon DEF HilTypeOK, SendSerial, serialVars, canVars
  <1>9. CASE PreDrained
    <2>1. ClearSerialLines /\ TransmitSerial(FALSE) /\ report' = report
      BY <1>9, Zenon DEF PreDrained
    <2> QED BY <1>1, <1>2, <1>5, <1>6, <2>1, Zenon DEF HilTypeOK, canVars
  <1>10. CASE WaitForPrompt
    <2>1. ClearSerialLines /\ TransmitSerial(TRUE) /\ report' = report
      BY <1>10, Zenon DEF WaitForPrompt
    <2> QED BY <1>1, <1>2, <1>5, <1>6, <2>1, Zenon DEF HilTypeOK, canVars
  <1>11. CASE FlushAndAccumulate
    <2>1. /\ TransmitSerial(TRUE) /\ promptSeen' = FALSE
          /\ UNCHANGED <<serialLines, serialBuffer, since, quiet, report>>
      BY <1>11, Zenon DEF FlushAndAccumulate
    <2> QED BY <1>1, <1>2, <1>5, <2>1, Zenon DEF HilTypeOK, canVars
  <1>12. CASE DrainSerial
    <2>1. ClearSerialLines /\ UNCHANGED <<number, typed, report>>
      BY <1>12, Zenon DEF DrainSerial
    <2> QED BY <1>1, <1>2, <1>6, <2>1, Zenon DEF HilTypeOK, canVars
  <1>13. ASSUME NEW c \in SerialCalls, NEW ok \in BOOLEAN, NEW l \in Seq(Seq(Bytes)),
                report' = [by |-> c, ok |-> ok, lines |-> l]
         PROVE  report' \in Reports
    BY <1>13 DEF Reports
  <1>14. CASE SendSerialEnds
    <2>1. /\ serialLines' = DropEcho(serialLines)
          /\ report' = [by |-> call, ok |-> promptSeen \/ DropEcho(serialLines) # <<>>,
                        lines |-> DropEcho(serialLines)]
          /\ call \in SerialCalls
          /\ UNCHANGED <<serialBuffer, promptSeen, number, typed, since, quiet>>
      BY <1>14, Zenon DEF SendSerialEnds, SerialCalls
    <2>2. report' \in Reports
      BY <1>7, <1>13, <2>1, Zenon
    <2> QED BY <1>1, <1>2, <1>7, <2>1, <2>2, Zenon DEF HilTypeOK, canVars, Reports
  <1>15. CASE WaitForPromptEnds
    <2>1. /\ report' = [by |-> call, ok |-> promptSeen, lines |-> <<>>] /\ ClearSerialLines
          /\ UNCHANGED <<number, typed>> /\ call \in SerialCalls
      BY <1>15, Zenon DEF WaitForPromptEnds, SerialCalls
    <2>2. report' \in Reports
      BY <1>3, <1>13, <2>1, Zenon DEF HilTypeOK
    <2> QED BY <1>1, <1>2, <1>6, <2>1, <2>2, Zenon DEF HilTypeOK, canVars, Reports
  <1>16. CASE FlushEnds
    <2> DEFINE ok == IF call = "DrainSerial" THEN serialLines # <<>> ELSE promptSeen
    <2>1. /\ report' = [by |-> call, ok |-> ok, lines |-> serialLines]
          /\ UNCHANGED <<serialLines, serialBuffer, promptSeen, number, typed, since, quiet>>
          /\ call \in SerialCalls
      BY <1>16, Zenon DEF FlushEnds, SerialCalls
    <2>2. ok \in BOOLEAN /\ serialLines \in Seq(Seq(Bytes))
      BY Zenon DEF HilTypeOK
    <2>3. report' \in Reports
      BY <1>13, <2>1, <2>2, Zenon
    <2> QED BY <1>1, <1>2, <2>1, <2>3, Zenon DEF HilTypeOK, canVars, Reports
  <1> QED BY <1>8, <1>9, <1>10, <1>11, <1>12, <1>14, <1>15, <1>16

LEMMA CanKeepsHilTypes ==
  ASSUME HilTypeOK, CanNext
  PROVE  HilTypeOK'
  <1>1. UNCHANGED serialVars
    BY Zenon DEF CanNext, BusFrame, OnCanFrame, ClearCanFrames, SendCanFrame, CanCompleted,
       SendCanFrameEnds, WaitForCanFrame, TakeFrame, WaitForCanFrameTimeout
  <1>2. /\ call' \in SerialCalls \cup {"none", "SendCanFrame", "WaitForCanFrame"}
        /\ phase' \in {"none", "settle", "reply", "drain"}
    <2>1. /\ call' \in {call, "none", "SendCanFrame", "WaitForCanFrame"}
          /\ phase' \in {phase, "none", "reply"}
      BY Zenon DEF CanNext, BusFrame, OnCanFrame, ClearCanFrames, SendCanFrame, CanCompleted,
       SendCanFrameEnds, WaitForCanFrame, TakeFrame, WaitForCanFrameTimeout, Runs
    <2> QED BY <2>1 DEF HilTypeOK
  <1>3. /\ canQueue \in Seq(Frame) /\ canWire \in Seq(Frame) /\ <<>> \in Seq(Frame)
        /\ completions \in Seq(BOOLEAN)
        /\ frames \in 0 .. MaxFrames /\ captured \in 0 .. MaxFrames
        /\ canReport \in 0 .. MaxFrames /\ 0 \in 0 .. MaxFrames
    BY SessionAssumption, EmptySeq, SMT DEF HilTypeOK
  <1>4. /\ canQueue' \in Seq(Frame) /\ canWire' \in Seq(Frame) /\ frames' \in 0 .. MaxFrames
        /\ captured' \in 0 .. MaxFrames /\ canQuiet' \in BOOLEAN
        /\ canReport' \in 0 .. MaxFrames
        /\ completions' \in Seq(BOOLEAN) /\ completed' \in BOOLEAN
    <2>1. CASE BusFrame
      <3>1. frames + 1 \in 0 .. MaxFrames /\ frames + 1 \in 1 .. MaxFrames
        BY <1>3, <2>1, SessionAssumption, SMT DEF BusFrame
      <3>2. \A id \in {"expected", "other"} : [id |-> id, number |-> frames + 1] \in Frame
        BY <3>1 DEF Frame
      <3>3. \A f \in Frame : Append(canWire, f) \in Seq(Frame)
        BY <1>3, OneMore
      <3> QED BY <1>3, <2>1, <3>1, <3>2, <3>3, Zenon DEF BusFrame, HilTypeOK
    <2>2. CASE OnCanFrame
      <3>1. Head(canWire) \in Frame /\ Tail(canWire) \in Seq(Frame)
        BY <1>3, <2>2, RestIs DEF OnCanFrame
      <3>2. Append(canQueue, Head(canWire)) \in Seq(Frame)
        BY <1>3, <3>1, OneMore
      <3> QED BY <1>3, <2>2, <3>1, <3>2, Zenon DEF OnCanFrame, HilTypeOK
    <2>3. CASE ClearCanFrames
      BY <1>3, <2>3, Zenon DEF ClearCanFrames, HilTypeOK
    <2>4. CASE SendCanFrame
      <3>1. Append(completions, TRUE) \in Seq(BOOLEAN)
        BY <1>3, OneMore
      <3> QED BY <1>3, <2>4, <3>1, Zenon DEF SendCanFrame, HilTypeOK
    <2>5. CASE CanCompleted
      <3>1. Tail(completions) \in Seq(BOOLEAN)
        BY <1>3, <2>5, RestIs DEF CanCompleted
      <3>2. completed' \in BOOLEAN
        BY <2>5, Zenon DEF CanCompleted
      <3> QED BY <1>3, <2>5, <3>1, <3>2, Zenon DEF CanCompleted, HilTypeOK
    <2>6. CASE SendCanFrameEnds
      <3>1. [i \in DOMAIN completions |-> FALSE] \in Seq(BOOLEAN)
        <4>1. Len(completions) \in Nat /\ DOMAIN completions = 1 .. Len(completions)
          BY <1>3, DomainIs
        <4>2. \A n \in Nat : [i \in 1 .. n |-> FALSE] \in Seq(BOOLEAN)
          BY SMT
        <4> QED BY <4>1, <4>2
      <3> QED BY <1>3, <2>6, <3>1, Zenon DEF SendCanFrameEnds, HilTypeOK
    <2>7. CASE WaitForCanFrame
      BY <1>3, <2>7, Zenon DEF WaitForCanFrame, HilTypeOK
    <2>8. CASE TakeFrame
      <3>1. Head(canQueue) \in Frame /\ Tail(canQueue) \in Seq(Frame)
        BY <1>3, <2>8, RestIs DEF TakeFrame
      <3>2. Head(canQueue).number \in 0 .. MaxFrames
        BY <3>1, SMT DEF Frame
      <3> QED BY <1>3, <2>8, <3>1, <3>2, Zenon DEF TakeFrame, HilTypeOK
    <2>9. CASE WaitForCanFrameTimeout
      BY <1>3, <2>9, Zenon DEF WaitForCanFrameTimeout, HilTypeOK, canVars
    <2> QED
      BY <2>1, <2>2, <2>3, <2>4, <2>5, <2>6, <2>7, <2>8, <2>9 DEF CanNext
  <1> QED BY <1>1, <1>2, <1>4, Zenon DEF HilTypeOK, serialVars

LEMMA SessionKeepsTypes ==
  ASSUME HilTypeOK, SerialNext \/ CanNext \/ UNCHANGED hilVars
  PROVE  HilTypeOK'
  <1>1. CASE SerialNext
    BY <1>1, BoardKeepsHilTypes, BytesKeepHilTypes, CallsKeepHilTypes DEF SerialNext
  <1>2. CASE UNCHANGED hilVars
    BY <1>2, ZenonT(40) DEF HilTypeOK, hilVars, serialVars, canVars
  <1> QED BY <1>1, <1>2, CanKeepsHilTypes
-----------------------------------------------------------------------------
(* What the calls of a test session report.                                *)

\* The lines the session may hear of once it has cleared what it had.
Recent == since .. number

\* How a byte goes on: inside an echo, a text or a prompt what comes next is
\* certain, and behind one only a newline comes.
GoesOn(a, b) ==
    /\ a.piece = "echo1" => b = Byte(a.of, "echo2")
    /\ a.piece = "text1" => b = Byte(a.of, "text2")
    /\ a.piece = "newline" => b.piece \in {"gt", "text1"}
    /\ a.piece = "gt" => b.piece = "space"
    /\ a.piece \in {"echo2", "text2", "space"} => b.piece = "newline"

Inside == {"echo1", "text1", "newline", "gt"}

\* Bytes about the lines R that are said whole, up to their end.
SaidWhole(R, bytes) ==
    \A i \in DOMAIN bytes :
        /\ bytes[i].of \in R
        /\ bytes[i].piece \in Inside => i + 1 \in DOMAIN bytes
        /\ i + 1 \in DOMAIN bytes => GoesOn(bytes[i], bytes[i + 1])

\* A whole line about one of the lines R.
WholeLineOf(R, line) == \E n \in R : line \in {Echo(n), Answer(n)}

\* What the buffer holds, half a line, goes on with what is on the wire.
BufferGoesOn(R, half, bytes) ==
    \/ /\ half = <<>>
       /\ bytes # <<>> => bytes[1].piece \in Inside
    \/ /\ WholeLineOf(R, half)
       /\ bytes # <<>> => bytes[1].piece = "newline"
    \/ \E n \in R, p \in {"echo1", "text1", "gt"} :
         /\ half = <<Byte(n, p)>>
         /\ bytes # <<>> /\ GoesOn(Byte(n, p), bytes[1])

\* The one line with an echo is the first, and nothing is said before it.
EchoIsFirst ==
    \A i \in DOMAIN typed :
        /\ typed[i].of \in Recent
        /\ ~typed[i].empty =>
             i = 1 /\ wire = <<>> /\ serialBuffer = <<>> /\ owes = {}

HeardWhole ==
    /\ since <= number + 1
    /\ owes \subseteq Recent
    /\ EchoIsFirst
    /\ SaidWhole(Recent, wire)
    /\ BufferGoesOn(Recent, serialBuffer, wire)
    /\ \A i \in DOMAIN serialLines : WholeLineOf(Recent, serialLines[i])

ReportIsWhole == \A i \in DOMAIN report.lines : WholeLineOf(Recent, report.lines[i])

\* While SendSerial waits, an echo is the first thing it hears.
EchoLeads ==
    /\ since = number
    /\ typed # <<>> => serialLines = <<>>
    /\ \A i \in DOMAIN typed : ~typed[i].empty
    /\ \A i \in DOMAIN wire : wire[i].piece = "echo1" =>
         i = 1 /\ serialBuffer = <<>> /\ serialLines = <<>>
    /\ \A i \in DOMAIN serialBuffer :
         serialBuffer[i].piece = "echo1" => serialLines = <<>>
    /\ \A i \in DOMAIN serialLines : serialLines[i][1].piece = "echo1" => i = 1

ReportIsAnswer ==
    report.by = "SendSerial" =>
        \A i \in DOMAIN report.lines : report.lines[i] = Answer(number)

EchoInv ==
    quiet => /\ call = "SendSerial" /\ phase = "reply" => EchoLeads
             /\ call \notin SerialCalls => ReportIsAnswer

SerialInv == quiet => HeardWhole /\ (call \notin SerialCalls => ReportIsWhole)

\* A frame of a bus that carried n frames, and if the capture that runs began
\* when nothing was on its way, one of that capture.
OfCapture(n, from, alone, f) == f.number <= n /\ (alone => f.number > from)

CanInv ==
    /\ captured <= frames
    /\ \A i \in DOMAIN canQueue : OfCapture(frames, captured, canQuiet, canQueue[i])
    /\ \A i \in DOMAIN canWire : OfCapture(frames, captured, canQuiet, canWire[i])
    /\ canQuiet /\ canReport > 0 => canReport > captured

SessionInv == HilTypeOK /\ SerialInv /\ EchoInv /\ CanInv

\* Two pieces of speech, the second of them begun by a newline.
LEMMA SaidWholeJoins ==
  ASSUME NEW R, NEW s \in Seq(Bytes), NEW t \in Seq(Bytes),
         SaidWhole(R, s), SaidWhole(R, t), t # <<>> => t[1].piece = "newline"
  PROVE  SaidWhole(R, s \o t)
  <1> DEFINE u == s \o t
             m == Len(s)
             n == Len(t)
  <1>1. /\ m \in Nat /\ DOMAIN s = 1 .. m /\ n \in Nat /\ DOMAIN t = 1 .. n
        /\ t # <<>> => n >= 1
    BY DomainIs
  <1>2. u \in Seq(Bytes) /\ Len(u) = m + n
    BY JoinIs, Zenon
  <1>3. DOMAIN u = 1 .. m + n
    BY <1>2, DomainIs
  <1>4. /\ \A i \in 1 .. m : u[i] = s[i]
        /\ \A i \in 1 .. n : u[m + i] = t[i]
    BY JoinFirst, JoinLast
  <1>5. \A i \in 1 .. m : s[i] \in Bytes
    BY <1>1, ElementOfSeq
  <1>6. n >= 1 => t # <<>>
    BY EmptySeq, SMT
  <1> HIDE DEF u, m, n
  <1>7. ASSUME NEW i \in 1 .. m + n
        PROVE  /\ u[i].of \in R
               /\ u[i].piece \in Inside => i + 1 \in 1 .. m + n
               /\ i + 1 \in 1 .. m + n => GoesOn(u[i], u[i + 1])
    <2>1. CASE i + 1 \in 1 .. m
      <3>1. i \in 1 .. m /\ i + 1 \in 1 .. m + n
        BY <1>1, <2>1, SMT
      <3>2. s[i].of \in R /\ GoesOn(s[i], s[i + 1])
        BY <1>1, <2>1, <3>1, Zenon DEF SaidWhole
      <3> QED BY <1>4, <2>1, <3>1, <3>2, Zenon
    <2>2. CASE i = m
      <3>1. i \in 1 .. m /\ ~(i + 1 \in 1 .. m) /\ m + 1 = i + 1
        BY <1>1, <2>2, SMT
      <3>2. s[i].of \in R /\ s[i].piece \notin Inside
        BY <1>1, <3>1, Zenon DEF SaidWhole
      <3>3. i + 1 \in 1 .. m + n => n >= 1 /\ 1 \in 1 .. n
        BY <1>1, <2>2, SMT
      <3>4. n >= 1 => t[1].piece = "newline"
        BY <1>6
      <3>5. ASSUME i + 1 \in 1 .. m + n PROVE GoesOn(u[i], u[i + 1])
        <4>1. u[i + 1] = t[1] /\ u[i] = s[i]
          BY <1>4, <3>1, <3>3, <3>5
        <4>2. s[i].piece \notin {"echo1", "text1", "newline", "gt"}
          BY <3>2, Zenon DEF Inside
        <4>3. u[i + 1].piece = "newline"
          BY <3>3, <3>4, <3>5, <4>1
        <4> QED BY <4>1, <4>2, <4>3 DEF GoesOn
      <3> QED BY <1>4, <3>1, <3>2, <3>5, Zenon
    <2>3. CASE i > m
      <3>1. i - m \in 1 .. n /\ m + (i - m) = i
        BY <1>1, <2>3, SMT
      <3>2. i + 1 \in 1 .. m + n <=> (i - m) + 1 \in 1 .. n
        BY <1>1, <2>3, SMT
      <3>3. m + ((i - m) + 1) = i + 1
        BY <1>1, SMT
      <3>4. u[i] = t[i - m] /\ ((i - m) + 1 \in 1 .. n => u[i + 1] = t[(i - m) + 1])
        <4>1. u[m + (i - m)] = t[i - m]
          BY <1>4, <3>1, Zenon
        <4>2. (i - m) + 1 \in 1 .. n => u[m + ((i - m) + 1)] = t[(i - m) + 1]
          BY <1>4, Zenon
        <4> QED BY <3>1, <3>3, <4>1, <4>2
      <3>5. /\ t[i - m].of \in R
            /\ t[i - m].piece \in Inside => (i - m) + 1 \in 1 .. n
            /\ (i - m) + 1 \in 1 .. n => GoesOn(t[i - m], t[(i - m) + 1])
        BY <1>1, <3>1, Zenon DEF SaidWhole
      <3> QED BY <3>2, <3>4, <3>5, Zenon
    <2> QED BY <1>1, <2>1, <2>2, <2>3, SMT
  <1> QED BY <1>3, <1>7, Zenon DEF SaidWhole, u

LEMMA SaidWholeOfMore ==
  ASSUME NEW R, NEW Q, R \subseteq Q, NEW s, SaidWhole(R, s)
  PROVE  SaidWhole(Q, s)
  BY Zenon DEF SaidWhole

\* What the board says when it takes a line or answers once more.
LEMMA WordsAreWhole ==
  ASSUME NEW R, NEW n \in R, n \in 0 .. MaxCommands
  PROVE  /\ SaidWhole(R, Echo(n)) /\ SaidWhole(R, Prompt(n)) /\ SaidWhole(R, Text(n))
         /\ Echo(n)[1].piece = "echo1"
         /\ Prompt(n)[1].piece = "newline" /\ Text(n)[1].piece = "newline"
         /\ Echo(n) # <<>>
  <1> DEFINE e == Echo(n)
             p == Prompt(n)
             t == Text(n)
  <1>1. /\ e = <<Byte(n, "echo1"), Byte(n, "echo2")>>
        /\ p = <<Byte(n, "newline"), Byte(n, "gt"), Byte(n, "space")>>
        /\ t = <<Byte(n, "newline"), Byte(n, "text1"), Byte(n, "text2")>>
    BY WordsAre
  <1>2. /\ DOMAIN e = 1 .. 2 /\ e[1] = Byte(n, "echo1") /\ e[2] = Byte(n, "echo2")
        /\ DOMAIN p = 1 .. 3 /\ p[1] = Byte(n, "newline") /\ p[2] = Byte(n, "gt")
        /\ p[3] = Byte(n, "space")
        /\ DOMAIN t = 1 .. 3 /\ t[1] = Byte(n, "newline") /\ t[2] = Byte(n, "text1")
        /\ t[3] = Byte(n, "text2") /\ e # <<>>
    BY <1>1
  <1> HIDE DEF e, p, t
  <1>3. \A q \in Pieces : Byte(n, q).of = n /\ Byte(n, q).piece = q
    BY BytesAre
  <1>4. /\ Byte(n, "echo1").piece = "echo1" /\ Byte(n, "echo2").piece = "echo2"
        /\ Byte(n, "newline").piece = "newline" /\ Byte(n, "gt").piece = "gt"
        /\ Byte(n, "space").piece = "space" /\ Byte(n, "text1").piece = "text1"
        /\ Byte(n, "text2").piece = "text2"
        /\ Byte(n, "echo1").of = n
    BY <1>3, PieceNames, Zenon
  <1>5. /\ GoesOn(Byte(n, "echo1"), Byte(n, "echo2"))
        /\ GoesOn(Byte(n, "newline"), Byte(n, "gt"))
        /\ GoesOn(Byte(n, "gt"), Byte(n, "space"))
        /\ GoesOn(Byte(n, "newline"), Byte(n, "text1"))
        /\ GoesOn(Byte(n, "text1"), Byte(n, "text2"))
    <2>1. Byte(n, "text1").of = n
      BY <1>3, PieceNames, Zenon
    <2> QED BY <1>4, <2>1 DEF GoesOn
  <1>6. /\ "echo2" \notin Inside /\ "space" \notin Inside /\ "text2" \notin Inside
    BY DEF Inside
  <1>7. SaidWhole(R, e)
    <2> SUFFICES ASSUME NEW i \in 1 .. 2
                 PROVE  /\ e[i].of \in R
                        /\ e[i].piece \in Inside => i + 1 \in 1 .. 2
                        /\ i + 1 \in 1 .. 2 => GoesOn(e[i], e[i + 1])
      BY <1>2, Zenon DEF SaidWhole
    <2>1. CASE i = 1
      BY <1>2, <1>3, <1>5, PieceNames, <2>1
    <2>2. CASE i = 2
      BY <1>2, <1>3, <1>4, <1>6, PieceNames, <2>2
    <2> QED BY <2>1, <2>2
  <1>8. SaidWhole(R, p)
    <2> SUFFICES ASSUME NEW i \in 1 .. 3
                 PROVE  /\ p[i].of \in R
                        /\ p[i].piece \in Inside => i + 1 \in 1 .. 3
                        /\ i + 1 \in 1 .. 3 => GoesOn(p[i], p[i + 1])
      BY <1>2, Zenon DEF SaidWhole
    <2>1. CASE i = 1
      BY <1>2, <1>3, <1>5, PieceNames, <2>1
    <2>2. CASE i = 2
      BY <1>2, <1>3, <1>5, PieceNames, <2>2
    <2>3. CASE i = 3
      BY <1>2, <1>3, <1>4, <1>6, PieceNames, <2>3
    <2> QED BY <2>1, <2>2, <2>3
  <1>9. SaidWhole(R, t)
    <2> SUFFICES ASSUME NEW i \in 1 .. 3
                 PROVE  /\ t[i].of \in R
                        /\ t[i].piece \in Inside => i + 1 \in 1 .. 3
                        /\ i + 1 \in 1 .. 3 => GoesOn(t[i], t[i + 1])
      BY <1>2, Zenon DEF SaidWhole
    <2>1. CASE i = 1
      BY <1>2, <1>3, <1>5, PieceNames, <2>1
    <2>2. CASE i = 2
      BY <1>2, <1>3, <1>5, PieceNames, <2>2
    <2>3. CASE i = 3
      BY <1>2, <1>3, <1>4, <1>6, PieceNames, <2>3
    <2> QED BY <2>1, <2>2, <2>3
  <1> QED BY <1>2, <1>4, <1>7, <1>8, <1>9 DEF e, p, t

\* The echo, alone or with what follows it.
LEMMA AnswersAreWhole ==
  ASSUME NEW R, NEW n \in R, n \in 0 .. MaxCommands,
         NEW w, w \in {Echo(n), Echo(n) \o Prompt(n), Echo(n) \o Text(n) \o Prompt(n)}
  PROVE  w \in Seq(Bytes) /\ SaidWhole(R, w) /\ w # <<>> /\ w[1].piece = "echo1"
  <1> DEFINE e == Echo(n)
             p == Prompt(n)
             t == Text(n)
  <1>1. /\ e \in Seq(Bytes) /\ p \in Seq(Bytes) /\ t \in Seq(Bytes)
        /\ SaidWhole(R, e) /\ SaidWhole(R, p) /\ SaidWhole(R, t)
        /\ e[1].piece = "echo1" /\ p[1].piece = "newline" /\ t[1].piece = "newline"
        /\ e # <<>>
    BY WordsAre, WordsAreWhole
  <1> HIDE DEF e, p, t
  <1>2. \A x, y \in Seq(Bytes) :
          SaidWhole(R, x) /\ SaidWhole(R, y) /\ y[1].piece = "newline" /\ x # <<>>
            => /\ x \o y \in Seq(Bytes) /\ SaidWhole(R, x \o y) /\ (x \o y)[1] = x[1]
               /\ x \o y # <<>>
    <2> SUFFICES ASSUME NEW x \in Seq(Bytes), NEW y \in Seq(Bytes),
                        SaidWhole(R, x), SaidWhole(R, y), y[1].piece = "newline", x # <<>>
                 PROVE  /\ x \o y \in Seq(Bytes) /\ SaidWhole(R, x \o y) /\ (x \o y)[1] = x[1]
                        /\ x \o y # <<>>
      BY Zenon
    <2>1. x \o y \in Seq(Bytes) /\ Len(x \o y) = Len(x) + Len(y)
      BY JoinType
    <2>2. Len(x) \in Nat /\ Len(y) \in Nat /\ Len(x) >= 1
      BY DomainIs
    <2>3. 1 \in 1 .. Len(x)
      BY <2>2, SMT
    <2>4. (x \o y)[1] = x[1]
      BY <2>3, JoinFirst
    <2>5. x \o y # <<>>
      <3>1. Len(x \o y) # 0
        BY <2>1, <2>2, SMT
      <3>2. \A z \in Seq(Bytes) : Len(z) # 0 => z # <<>>
        BY EmptySeq, SMT
      <3> QED BY <2>1, <3>1, <3>2
    <2> QED BY <2>1, <2>4, <2>5, SaidWholeJoins
  <1>3. e \o p \in Seq(Bytes) /\ SaidWhole(R, e \o p) /\ (e \o p)[1] = e[1] /\ e \o p # <<>>
    BY <1>1, <1>2, Zenon
  <1>4. e \o t \in Seq(Bytes) /\ SaidWhole(R, e \o t) /\ (e \o t)[1] = e[1] /\ e \o t # <<>>
    BY <1>1, <1>2, Zenon
  <1>5. /\ (e \o t) \o p \in Seq(Bytes) /\ SaidWhole(R, (e \o t) \o p)
        /\ ((e \o t) \o p)[1] = e[1] /\ (e \o t) \o p # <<>>
    BY <1>1, <1>2, <1>4
  <1>6. w \in {e, e \o p, (e \o t) \o p}
    BY DEF e, p, t
  <1>7. CASE w = e
    BY <1>1, <1>7
  <1>8. CASE w = e \o p
    BY <1>1, <1>3, <1>8
  <1>9. CASE w = (e \o t) \o p
    BY <1>1, <1>5, <1>9
  <1> QED BY <1>6, <1>7, <1>8, <1>9, Zenon

\* What is said behind what is on the wire, from a newline on.
LEMMA SaidBehind ==
  ASSUME NEW R, NEW s \in Seq(Bytes), NEW w \in Seq(Bytes), NEW half,
         SaidWhole(R, s), SaidWhole(R, w), w[1].piece = "newline",
         BufferGoesOn(R, half, s)
  PROVE  SaidWhole(R, s \o w) /\ BufferGoesOn(R, half, s \o w)
  <1>1. SaidWhole(R, s \o w)
    BY SaidWholeJoins
  <1>2. CASE s = <<>>
    <2>1. s \o w = w
      BY <1>2, ConcatEmptySeq
    <2>2. w # <<>> => w[1].piece \in Inside
      BY DEF Inside
    <2>3. half = <<>> \/ WholeLineOf(R, half)
      BY <1>2, Zenon DEF BufferGoesOn
    <2>4. BufferGoesOn(R, half, w)
      BY <2>2, <2>3, Zenon DEF BufferGoesOn
    <2> QED BY <1>1, <2>1, <2>4
  <1>3. CASE s # <<>>
    <2>1. Len(s) \in Nat /\ Len(s) >= 1
      BY <1>3, DomainIs
    <2>2. 1 \in 1 .. Len(s)
      BY <2>1, SMT
    <2>3. (s \o w)[1] = s[1]
      BY <2>2, JoinFirst
    <2>4. s \o w # <<>>
      <3>1. s \o w \in Seq(Bytes) /\ Len(s \o w) = Len(s) + Len(w) /\ Len(w) \in Nat
        BY JoinType, DomainIs
      <3>2. Len(s \o w) # 0
        BY <2>1, <3>1, SMT
      <3>3. \A z \in Seq(Bytes) : Len(z) # 0 => z # <<>>
        BY EmptySeq, SMT
      <3> QED BY <3>1, <3>2, <3>3
    <2> DEFINE u == s \o w
    <2>5. u[1] = s[1] /\ u # <<>>
      BY <2>3, <2>4
    <2> HIDE DEF u
    <2>6. BufferGoesOn(R, half, u)
      BY <1>3, <2>5, Zenon DEF BufferGoesOn
    <2> QED BY <1>1, <2>6 DEF u
  <1> QED BY <1>2, <1>3

LEMMA BoardKeepsSerialInv ==
  ASSUME HilTypeOK, SerialInv, BoardTakes \/ BoardSaysMore
  PROVE  SerialInv'
  <1>1. UNCHANGED <<call, serialLines, serialBuffer, number, since, quiet, report>>
    BY Zenon DEF BoardTakes, BoardSaysMore
  <1>2. Recent' = Recent /\ (ReportIsWhole => ReportIsWhole')
    <2>1. Recent' = Recent
      BY <1>1, Zenon DEF Recent
    <2>2. report' = report
      BY <1>1
    <2> QED BY <2>1, <2>2, Zenon DEF ReportIsWhole
  <1> SUFFICES ASSUME quiet, HeardWhole PROVE HeardWhole'
    BY <1>1, <1>2, Zenon DEF SerialInv
  <1>3. /\ since <= number + 1 /\ owes \subseteq Recent /\ EchoIsFirst
        /\ SaidWhole(Recent, wire) /\ BufferGoesOn(Recent, serialBuffer, wire)
    BY Zenon DEF HeardWhole
  <1>4. wire \in Seq(Bytes) /\ owes \subseteq 0 .. MaxCommands
    BY DEF HilTypeOK
  <1>5. ASSUME owes' \subseteq Recent, EchoIsFirst',
               SaidWhole(Recent, wire'), BufferGoesOn(Recent, serialBuffer, wire')
        PROVE  HeardWhole'
    <2>1. /\ Recent' = Recent /\ since' = since /\ number' = number
          /\ serialBuffer' = serialBuffer /\ serialLines' = serialLines
      BY <1>1, <1>2
    <2> QED BY <1>5, <2>1, Zenon DEF HeardWhole
  <1>6. CASE BoardSaysMore
    <2>1. PICK n \in owes : owes' = owes \ {n} /\ wire' = wire \o Text(n) /\ typed' = typed
      BY <1>6, Zenon DEF BoardSaysMore
    <2>2. n \in Recent /\ n \in 0 .. MaxCommands
      BY <1>3, <1>4
    <2>3. /\ Text(n) \in Seq(Bytes) /\ SaidWhole(Recent, Text(n))
          /\ Text(n)[1].piece = "newline"
      BY <2>2, WordsAre, WordsAreWhole
    <2>4. SaidWhole(Recent, wire') /\ BufferGoesOn(Recent, serialBuffer, wire')
      BY <1>3, <1>4, <2>1, <2>3, SaidBehind
    <2>5. \A i \in DOMAIN typed : typed[i].empty
      BY <1>3, Zenon DEF EchoIsFirst
    <2>6. EchoIsFirst'
      BY <1>2, <1>3, <2>1, <2>5, Zenon DEF EchoIsFirst
    <2>7. owes' \subseteq Recent
      BY <1>3, <2>1
    <2> QED BY <1>5, <2>4, <2>6, <2>7
  <1>7. CASE BoardTakes
    <2> DEFINE b == Head(typed)
               k == b.of
    <2>1. /\ typed # <<>> /\ typed' = Tail(typed)
          /\ \/ wire' = wire
             \/ b.empty /\ wire' = wire \o Prompt(k)
             \/ /\ ~b.empty
                /\ \E w \in {Echo(k), Echo(k) \o Prompt(k), Echo(k) \o Text(k) \o Prompt(k)} :
                     wire' = wire \o w
          /\ owes' = owes \/ (~b.empty /\ owes' = owes \cup {k})
      BY <1>7, Zenon DEF BoardTakes
    <2>2. typed \in Seq([of : 1 .. MaxCommands, empty : BOOLEAN])
      BY DEF HilTypeOK
    <2>3. /\ b = typed[1] /\ b \in [of : 1 .. MaxCommands, empty : BOOLEAN]
          /\ 1 \in DOMAIN typed
          /\ \A i \in DOMAIN Tail(typed) : i + 1 \in DOMAIN typed /\ Tail(typed)[i] = typed[i + 1]
          /\ Tail(typed) \in Seq([of : 1 .. MaxCommands, empty : BOOLEAN])
      BY <2>1, <2>2, RestIs, DomainIs
    <2>4. k \in Recent /\ k \in 0 .. MaxCommands
      <3>1. k \in 1 .. MaxCommands
        BY <2>3
      <3>2. k \in 0 .. MaxCommands
        BY <3>1, SMT
      <3> QED BY <1>3, <2>3, <3>2, Zenon DEF EchoIsFirst
    <2> HIDE DEF b, k
    <2>5. \A i \in DOMAIN Tail(typed) : Tail(typed)[i].of \in Recent /\ Tail(typed)[i].empty
      <3> SUFFICES ASSUME NEW i \in DOMAIN Tail(typed)
                   PROVE  typed[i + 1].of \in Recent /\ typed[i + 1].empty
        BY <2>3, Zenon
      <3>1. i + 1 \in DOMAIN typed
        BY <2>3
      <3>2. i \in Nat /\ i >= 1
        BY <2>3, DomainIs
      <3>3. i + 1 # 1
        BY <3>2, SMT
      <3> QED BY <1>3, <3>1, <3>3, Zenon DEF EchoIsFirst
    <2>6. EchoIsFirst'
      BY <1>2, <2>1, <2>5, Zenon DEF EchoIsFirst
    <2>7. owes' \subseteq Recent
      BY <1>3, <2>1, <2>4
    <2>8. SaidWhole(Recent, wire') /\ BufferGoesOn(Recent, serialBuffer, wire')
      <3>1. CASE wire' = wire
        BY <1>3, <3>1
      <3>2. CASE wire' = wire \o Prompt(k)
        <4>1. /\ Prompt(k) \in Seq(Bytes) /\ SaidWhole(Recent, Prompt(k))
              /\ Prompt(k)[1].piece = "newline"
          BY <2>4, WordsAre, WordsAreWhole
        <4> QED BY <1>3, <1>4, <3>2, <4>1, SaidBehind
      <3>3. CASE ~b.empty /\ \E w \in {Echo(k), Echo(k) \o Prompt(k),
                                       Echo(k) \o Text(k) \o Prompt(k)} : wire' = wire \o w
        <4>1. wire = <<>> /\ serialBuffer = <<>>
          BY <1>3, <2>3, <3>3, Zenon DEF EchoIsFirst
        <4>2. PICK w \in {Echo(k), Echo(k) \o Prompt(k), Echo(k) \o Text(k) \o Prompt(k)} :
                wire' = wire \o w
          BY <3>3
        <4>3. w \in Seq(Bytes) /\ SaidWhole(Recent, w) /\ w # <<>> /\ w[1].piece = "echo1"
          BY <2>4, AnswersAreWhole
        <4>4. wire' = w
          BY <4>1, <4>2, <4>3, ConcatEmptySeq
        <4>5. w[1].piece \in Inside
          BY <4>3 DEF Inside
        <4>6. BufferGoesOn(Recent, <<>>, w)
          BY <4>5, Zenon DEF BufferGoesOn
        <4> QED BY <4>1, <4>3, <4>4, <4>6
      <3> QED BY <2>1, <3>1, <3>2, <3>3, Zenon
    <2> QED BY <1>5, <2>6, <2>7, <2>8
  <1> QED BY <1>6, <1>7

\* The buffer holds nothing, one byte or a whole line, and the next byte of
\* the wire ends what it holds or makes it longer.
LEMMA BytesKeepSerialInv ==
  ASSUME HilTypeOK, SerialInv, OnSerialBytes
  PROVE  SerialInv'
  <1> DEFINE b == Head(wire)
             l == Len(serialBuffer)
             rest == Tail(wire)
             lines == serialLines
  <1>1. /\ AppendSerialByte(b) /\ wire' = rest /\ wire # <<>>
        /\ UNCHANGED <<call, number, typed, owes, since, quiet, report>>
    BY Zenon DEF OnSerialBytes
  <1>2. Recent' = Recent /\ (ReportIsWhole => ReportIsWhole')
    <2>1. Recent' = Recent
      BY <1>1, Zenon DEF Recent
    <2>2. report' = report
      BY <1>1
    <2> QED BY <2>1, <2>2, Zenon DEF ReportIsWhole
  <1> SUFFICES ASSUME quiet, HeardWhole PROVE HeardWhole'
    BY <1>1, <1>2, Zenon DEF SerialInv
  <1>3. /\ since <= number + 1 /\ owes \subseteq Recent /\ EchoIsFirst
        /\ SaidWhole(Recent, wire) /\ BufferGoesOn(Recent, serialBuffer, wire)
        /\ \A i \in DOMAIN serialLines : WholeLineOf(Recent, serialLines[i])
    BY Zenon DEF HeardWhole
  <1>4. wire \in Seq(Bytes) /\ serialBuffer \in Seq(Bytes) /\ lines \in Seq(Seq(Bytes))
    BY DEF HilTypeOK
  <1>5. /\ b = wire[1] /\ b \in Bytes /\ rest \in Seq(Bytes) /\ 1 \in DOMAIN wire
        /\ \A i \in DOMAIN rest : i + 1 \in DOMAIN wire /\ rest[i] = wire[i + 1]
        /\ \A i \in Nat \ {0} : i + 1 \in DOMAIN wire => i \in DOMAIN rest
        /\ \A i \in DOMAIN rest : i \in Nat /\ i >= 1
        /\ rest # <<>> => 1 \in DOMAIN rest
    BY <1>1, <1>4, RestIs, DomainIs
  <1>6. Recent \subseteq Int
    BY SMT DEF Recent, HilTypeOK
  <1>7. /\ b.of \in Recent
        /\ b.piece \in Inside => rest # <<>>
        /\ rest # <<>> => GoesOn(b, rest[1])
    <2>1. 2 \in DOMAIN wire <=> rest # <<>>
      <3>1. rest # <<>> => 1 + 1 \in DOMAIN wire /\ rest[1] = wire[1 + 1]
        BY <1>5, Zenon
      <3>2. 1 + 1 \in DOMAIN wire => 1 \in DOMAIN rest
        <4>1. 1 \in Nat \ {0}
          BY SMT
        <4> QED BY <1>5, <4>1, Zenon
      <3>3. 1 \in DOMAIN rest => rest # <<>>
        <4>1. DOMAIN rest = 1 .. Len(rest)
          BY <1>5, DomainIs
        <4>2. 1 \in 1 .. Len(<<>>) => FALSE
          BY SMT
        <4> QED BY <4>1, <4>2, Zenon
      <3>4. 1 + 1 = 2
        BY SMT
      <3> QED BY <3>1, <3>2, <3>3, <3>4
    <2>2. 1 + 1 = 2
      BY SMT
    <2>3. rest # <<>> => rest[1] = wire[2]
      BY <1>5, <2>2
    <2>4. /\ wire[1].of \in Recent
          /\ wire[1].piece \in Inside => 2 \in DOMAIN wire
          /\ 2 \in DOMAIN wire => GoesOn(wire[1], wire[2])
      BY <1>3, <1>5, <2>2 DEF SaidWhole
    <2> QED BY <1>5, <2>1, <2>3, <2>4
  <1>8. SaidWhole(Recent, rest)
    <2> SUFFICES ASSUME NEW i \in DOMAIN rest
                 PROVE  /\ rest[i].of \in Recent
                        /\ rest[i].piece \in Inside => i + 1 \in DOMAIN rest
                        /\ i + 1 \in DOMAIN rest => GoesOn(rest[i], rest[i + 1])
      BY Zenon DEF SaidWhole
    <2>1. i \in Nat /\ i + 1 \in DOMAIN wire /\ rest[i] = wire[i + 1]
      BY <1>5
    <2>2. /\ wire[i + 1].of \in Recent
          /\ wire[i + 1].piece \in Inside => i + 1 + 1 \in DOMAIN wire
          /\ i + 1 + 1 \in DOMAIN wire => GoesOn(wire[i + 1], wire[i + 1 + 1])
      BY <1>3, <2>1, Zenon DEF SaidWhole
    <2>3. i + 1 \in Nat \ {0}
      BY <2>1, SMT
    <2>4. i + 1 + 1 \in DOMAIN wire => i + 1 \in DOMAIN rest
      BY <1>5, <2>3, Zenon
    <2>5. i + 1 \in DOMAIN rest => i + 1 + 1 \in DOMAIN wire /\ rest[i + 1] = wire[i + 1 + 1]
      BY <1>5, Zenon
    <2> QED BY <2>1, <2>2, <2>4, <2>5
  <1>9. EchoIsFirst'
    <2>1. \A i \in DOMAIN typed : typed[i].of \in Recent /\ typed[i].empty
      BY <1>1, <1>3, Zenon DEF EchoIsFirst
    <2>2. typed' = typed
      BY <1>1
    <2> QED BY <1>2, <2>1, <2>2, Zenon DEF EchoIsFirst
  <1>10. b = Byte(b.of, b.piece)
    BY <1>5 DEF Byte, Bytes
  <1>11. ASSUME BufferGoesOn(Recent, serialBuffer', rest),
                \A i \in DOMAIN serialLines' : WholeLineOf(Recent, serialLines'[i])
         PROVE  HeardWhole'
    <2>1. /\ Recent' = Recent /\ since' = since /\ number' = number /\ owes' = owes
          /\ wire' = rest
      BY <1>1, <1>2
    <2> HIDE DEF rest
    <2> QED BY <1>3, <1>8, <1>9, <1>11, <2>1, Zenon DEF HeardWhole
  <1> DEFINE half == serialBuffer
  <1>12. CASE b.piece = "newline"
    <2>1. serialBuffer' = <<>> /\ EmitSerialLine(serialBuffer)
      BY <1>1, <1>12, Zenon DEF AppendSerialByte
    <2>2. half = <<>> \/ WholeLineOf(Recent, half)
      <3>1. ASSUME NEW n \in Recent, NEW p \in {"echo1", "text1", "gt"}, GoesOn(Byte(n, p), b)
            PROVE  FALSE
        <4>1. Byte(n, p).piece = p
          BY DEF Byte
        <4>2. \A m : Byte(m, "echo2").piece = "echo2" /\ Byte(m, "text2").piece = "text2"
          BY DEF Byte
        <4> QED BY <1>12, <3>1, <4>1, <4>2 DEF GoesOn
      <3> QED BY <1>3, <1>5, <3>1, Zenon DEF BufferGoesOn
    <2>3. rest # <<>> => rest[1].piece \in Inside
      <3>1. rest # <<>> => rest[1].piece \in {"gt", "text1"}
        BY <1>7, <1>12 DEF GoesOn
      <3> QED BY <3>1 DEF Inside
    <2>4. BufferGoesOn(Recent, serialBuffer', rest)
      BY <2>1, <2>3, Zenon DEF BufferGoesOn
    <2>5. serialLines' = lines \/ (WholeLineOf(Recent, half) /\ serialLines' = Append(lines, half))
      BY <2>1, <2>2, Zenon DEF EmitSerialLine
    <2>6. \A i \in DOMAIN serialLines' : WholeLineOf(Recent, serialLines'[i])
      <3>1. CASE serialLines' = lines
        BY <1>3, <3>1
      <3>2. CASE WholeLineOf(Recent, half) /\ serialLines' = Append(lines, half)
        <4> DEFINE k == Len(lines) + 1
                   next == serialLines'
        <4>1. /\ DOMAIN next = (DOMAIN lines) \cup {k} /\ next[k] = half
              /\ \A i \in DOMAIN lines : next[i] = lines[i]
          BY <1>4, <3>2, OneMore
        <4> HIDE DEF k, next
        <4>2. \A i \in DOMAIN next : WholeLineOf(Recent, next[i])
          BY <1>3, <3>2, <4>1, Zenon
        <4> QED BY <4>2 DEF next
      <3> QED BY <2>5, <3>1, <3>2
    <2> QED BY <1>11, <2>4, <2>6
  <1>13. CASE b.piece = "space"
    <2>1. PICK n \in Recent : half = <<Byte(n, "gt")>>
      <3>1. ~(half = <<>> /\ (wire # <<>> => wire[1].piece \in Inside))
        BY <1>1, <1>5, <1>13 DEF Inside
      <3>2. ~(wire # <<>> => wire[1].piece = "newline")
        BY <1>1, <1>5, <1>13
      <3>3. ASSUME NEW n \in Recent, NEW p \in {"echo1", "text1"}, GoesOn(Byte(n, p), b)
            PROVE  FALSE
        <4>1. Byte(n, p).piece = p
          BY DEF Byte
        <4>2. \A m : Byte(m, "echo2").piece = "echo2" /\ Byte(m, "text2").piece = "text2"
          BY DEF Byte
        <4> QED BY <1>13, <3>3, <4>1, <4>2 DEF GoesOn
      <3>4. PICK n \in Recent, p \in {"echo1", "text1", "gt"} :
              half = <<Byte(n, p)>> /\ GoesOn(Byte(n, p), b)
        BY <1>3, <1>5, <3>1, <3>2, Zenon DEF BufferGoesOn
      <3>5. p = "gt"
        BY <3>3, <3>4
      <3> QED BY <3>4, <3>5
    <2>2. half[1].piece = "gt" /\ l = 1
      BY <2>1 DEF Byte
    <2>3. SubSeq(half, 1, 1 - 1) = <<>>
      <3>1. SubSeq(half, 1, 0) = <<>>
        BY <1>4, SubSeqEmpty
      <3>2. 1 - 1 = 0
        BY SMT
      <3> QED BY <3>1, <3>2
    <2>4. l > 0 /\ half[l].piece = "gt"
      BY <2>2
    <2>5. EmitSerialLine(SubSeq(half, 1, l - 1)) /\ serialBuffer' = <<>>
      BY <1>1, <1>13, <2>4 DEF AppendSerialByte
    <2>6. serialLines' = lines /\ serialBuffer' = <<>>
      BY <2>2, <2>3, <2>5, Zenon DEF EmitSerialLine
    <2>7. rest # <<>> => rest[1].piece \in Inside
      <3>1. rest # <<>> => rest[1].piece = "newline"
        BY <1>7, <1>13 DEF GoesOn
      <3> QED BY <3>1 DEF Inside
    <2>8. BufferGoesOn(Recent, serialBuffer', rest)
      BY <2>6, <2>7, Zenon DEF BufferGoesOn
    <2> QED BY <1>3, <1>11, <2>6, <2>8
  <1>14. CASE b.piece # "newline" /\ b.piece # "space"
    <2>1. serialLines' = lines /\ serialBuffer' = Append(half, b)
      BY <1>1, <1>14, Zenon DEF AppendSerialByte
    <2>2. BufferGoesOn(Recent, Append(half, b), rest)
      <3>1. CASE half = <<>> /\ b.piece \in Inside
        <4>1. Append(half, b) = <<b>>
          BY <3>1
        <4>2. b.piece \in {"echo1", "text1", "gt"}
          BY <1>14, <3>1 DEF Inside
        <4>3. rest # <<>> /\ GoesOn(b, rest[1])
          BY <1>7, <3>1
        <4>4. \E n \in Recent, p \in {"echo1", "text1", "gt"} :
                <<b>> = <<Byte(n, p)>> /\ GoesOn(Byte(n, p), rest[1])
          BY <1>7, <1>10, <4>2, <4>3, Zenon
        <4> QED BY <4>1, <4>3, <4>4, Zenon DEF BufferGoesOn
      <3>2. CASE \E n \in Recent, p \in {"echo1", "text1", "gt"} :
                   half = <<Byte(n, p)>> /\ GoesOn(Byte(n, p), b)
        <4>1. PICK n \in Recent, p \in {"echo1", "text1", "gt"} :
                half = <<Byte(n, p)>> /\ GoesOn(Byte(n, p), b)
          BY <3>2
        <4>2. /\ p = "echo1" => b = Byte(n, "echo2")
              /\ p = "text1" => b = Byte(n, "text2")
              /\ p # "gt"
          <5>1. Byte(n, p).piece = p /\ Byte(n, p).of = n
            BY DEF Byte
          <5> QED BY <1>14, <4>1, <5>1 DEF GoesOn
        <4>3. Append(half, b) = <<Byte(n, p), b>>
          <5>1. Byte(n, p) \in Bytes
            <6>1. p \in Pieces
              BY PieceNames
            <6>2. n \in 0 .. MaxCommands
              <7>1. since \in Nat /\ number \in 0 .. MaxCommands
                BY SMT DEF HilTypeOK
              <7>2. n \in since .. number
                BY DEF Recent
              <7> QED BY SessionAssumption, <7>1, <7>2, SMT
            <6> QED BY <6>1, <6>2, BytesAre
          <5>2. Append(<<Byte(n, p)>>, b) = <<Byte(n, p), b>>
            BY <1>5, <5>1, PairIs
          <5> QED BY <4>1, <5>2, Zenon
        <4>4. n \in 0 .. MaxCommands
          <5>1. since \in Nat /\ number \in 0 .. MaxCommands
            BY SMT DEF HilTypeOK
          <5>2. n \in since .. number
            BY DEF Recent
          <5> QED BY SessionAssumption, <5>1, <5>2, SMT
        <4>5. /\ Echo(n) = <<Byte(n, "echo1"), Byte(n, "echo2")>>
              /\ Answer(n) = <<Byte(n, "text1"), Byte(n, "text2")>>
          BY <4>4, WordsAre, SaysTwo, PieceNames DEF Answer
        <4>6. Append(half, b) \in {Echo(n), Answer(n)}
          BY <4>1, <4>2, <4>3, <4>5
        <4>7. rest # <<>> => rest[1].piece = "newline"
          <5>1. b.piece \in {"echo2", "text2"}
            BY <4>1, <4>2 DEF Byte
          <5> QED BY <1>7, <5>1 DEF GoesOn
        <4> QED BY <4>6, <4>7, Zenon DEF BufferGoesOn, WholeLineOf
      <3> QED BY <1>1, <1>3, <1>5, <1>14, <3>1, <3>2, Zenon DEF BufferGoesOn
    <2> QED BY <1>3, <1>11, <2>1, <2>2
  <1> QED BY <1>12, <1>13, <1>14

\* A clear that cuts nothing off leaves nothing to be heard of.
LEMMA ClearLeavesNothing ==
  ASSUME HilTypeOK, ClearSerialLines, UNCHANGED <<owes, wire>>, quiet',
         \/ UNCHANGED <<number, typed>>
         \/ \E empty \in BOOLEAN : TransmitSerial(empty)
  PROVE  HeardWhole'
  <1>1. /\ serialLines' = <<>> /\ serialBuffer' = <<>> /\ since' = number + 1
        /\ wire = <<>> /\ typed = <<>> /\ owes = {} /\ wire' = <<>> /\ owes' = {}
    BY Zenon DEF ClearSerialLines
  <1>2. number \in Nat
    BY SMT DEF HilTypeOK
  <1>3. /\ DOMAIN typed = {} /\ DOMAIN wire' = {} /\ DOMAIN serialLines' = {}
    <2>1. DOMAIN <<>> = {}
      OBVIOUS
    <2> QED BY <1>1, <2>1
  <1>4. since' <= number' + 1 /\ EchoIsFirst'
    <2>1. CASE UNCHANGED <<number, typed>>
      BY <1>1, <1>2, <1>3, <2>1, SMT DEF EchoIsFirst
    <2>2. CASE \E empty \in BOOLEAN : TransmitSerial(empty)
      <3>1. PICK empty \in BOOLEAN : TransmitSerial(empty)
        BY <2>2
      <3> DEFINE x == [of |-> number + 1, empty |-> empty]
                 next == typed'
      <3>2. next = Append(<<>>, x) /\ number' = number + 1
        BY <1>1, <3>1, Zenon DEF TransmitSerial
      <3>3. next = <<x>> /\ x.of = number + 1
        BY <3>2
      <3>4. number + 1 \in since' .. number'
        BY <1>1, <1>2, <3>2, SMT
      <3>5. DOMAIN next = {1} /\ next[1] = x
        BY <3>3
      <3> HIDE DEF next, x
      <3>6. \A i \in DOMAIN next : next[i].of \in Recent' /\ i = 1
        BY <3>3, <3>4, <3>5 DEF Recent
      <3>7. EchoIsFirst'
        BY <1>1, <3>6, Zenon DEF EchoIsFirst, next
      <3>8. since' <= number' + 1
        BY <1>1, <1>2, <3>2, SMT
      <3> QED BY <3>7, <3>8
    <2> QED BY <2>1, <2>2
  <1>5. /\ SaidWhole(Recent', wire') /\ BufferGoesOn(Recent', serialBuffer', wire')
        /\ \A i \in DOMAIN serialLines' : WholeLineOf(Recent', serialLines'[i])
        /\ owes' \subseteq Recent'
    BY <1>1, <1>3, Zenon DEF SaidWhole, BufferGoesOn
  <1> QED BY <1>4, <1>5, Zenon DEF HeardWhole

\* One more line to hear of.
LEMMA OneMoreToHear ==
  ASSUME HilTypeOK, HeardWhole, TransmitSerial(TRUE),
         UNCHANGED <<serialLines, serialBuffer, owes, wire, since>>
  PROVE  HeardWhole'
  <1>1. /\ since <= number + 1 /\ owes \subseteq Recent /\ EchoIsFirst
        /\ SaidWhole(Recent, wire) /\ BufferGoesOn(Recent, serialBuffer, wire)
        /\ \A i \in DOMAIN serialLines : WholeLineOf(Recent, serialLines[i])
    BY Zenon DEF HeardWhole
  <1>2. number \in Nat /\ since \in Nat
    BY SMT DEF HilTypeOK
  <1> DEFINE x == [of |-> number + 1, empty |-> TRUE]
             next == typed'
             k == Len(typed) + 1
  <1>3. number' = number + 1 /\ next = Append(typed, x) /\ number < MaxCommands
    BY Zenon DEF TransmitSerial
  <1>4. Recent \subseteq Recent' /\ number + 1 \in Recent' /\ since' <= number' + 1
    BY <1>1, <1>2, <1>3, SMT DEF Recent
  <1>5. x \in [of : 1 .. MaxCommands, empty : BOOLEAN] /\ x.of = number + 1 /\ x.empty
    <2>1. number + 1 \in 1 .. MaxCommands
      BY <1>2, <1>3, SessionAssumption, SMT
    <2> QED BY <2>1
  <1>6. /\ DOMAIN next = (DOMAIN typed) \cup {k} /\ next[k] = x
        /\ \A i \in DOMAIN typed : next[i] = typed[i]
    <2>1. typed \in Seq([of : 1 .. MaxCommands, empty : BOOLEAN])
      BY DEF HilTypeOK
    <2> HIDE DEF x
    <2> QED BY <1>3, <1>5, <2>1, OneMore
  <1> HIDE DEF x, next, k
  <1>7. EchoIsFirst'
    <2>1. /\ \A i \in DOMAIN next : next[i].of \in Recent'
          /\ \A i \in DOMAIN next : ~next[i].empty => i \in DOMAIN typed /\ ~typed[i].empty
      BY <1>1, <1>4, <1>5, <1>6, Zenon DEF EchoIsFirst
    <2>2. \A i \in DOMAIN next : ~next[i].empty =>
            i = 1 /\ wire' = <<>> /\ serialBuffer' = <<>> /\ owes' = {}
      BY <1>1, <2>1, Zenon DEF EchoIsFirst
    <2> QED BY <2>1, <2>2, Zenon DEF EchoIsFirst, next
  <1>8. \A line : WholeLineOf(Recent, line) => WholeLineOf(Recent', line)
    BY <1>4, Zenon DEF WholeLineOf
  <1>9. SaidWhole(Recent', wire') /\ BufferGoesOn(Recent', serialBuffer', wire')
    <2>1. wire' = wire /\ serialBuffer' = serialBuffer
      OBVIOUS
    <2>2. SaidWhole(Recent', wire)
      BY <1>1, <1>4, SaidWholeOfMore
    <2>3. BufferGoesOn(Recent', serialBuffer, wire)
      BY <1>1, <1>4, <1>8, Zenon DEF BufferGoesOn
    <2> QED BY <2>1, <2>2, <2>3
  <1>10. /\ \A i \in DOMAIN serialLines' : WholeLineOf(Recent', serialLines'[i])
         /\ owes' \subseteq Recent'
    <2>1. serialLines' = serialLines /\ owes' = owes
      OBVIOUS
    <2> QED BY <1>1, <1>4, <1>8, <2>1
  <1> QED BY <1>4, <1>7, <1>9, <1>10, Zenon DEF HeardWhole

LEMMA CallsKeepSerialInv ==
  ASSUME HilTypeOK, SerialInv,
         \/ SendSerial \/ PreDrained \/ WaitForPrompt \/ FlushAndAccumulate \/ DrainSerial
         \/ SendSerialEnds \/ WaitForPromptEnds \/ FlushEnds
  PROVE  SerialInv'
  <1>1. UNCHANGED <<owes, wire>>
    BY Zenon DEF SendSerial, PreDrained, WaitForPrompt, FlushAndAccumulate, DrainSerial,
       SendSerialEnds, WaitForPromptEnds, FlushEnds, serialVars
  <1>2. "SendSerial" \in SerialCalls /\ "WaitForPrompt" \in SerialCalls
        /\ "FlushAndAccumulate" \in SerialCalls /\ "DrainSerial" \in SerialCalls
    BY DEF SerialCalls
  <1>3. FALSE \in BOOLEAN /\ TRUE \in BOOLEAN
    OBVIOUS
  <1>4. CASE SendSerial
    <2>1. /\ call' = "SendSerial"
          /\ UNCHANGED <<serialLines, serialBuffer, number, typed, since, quiet>>
      BY <1>4, Zenon DEF SendSerial, Runs, serialVars
    <2>2. HeardWhole => HeardWhole'
      BY <1>1, <2>1, Zenon DEF HeardWhole, EchoIsFirst, Recent
    <2> QED BY <1>2, <2>1, <2>2, Zenon DEF SerialInv
  <1>5. CASE PreDrained \/ WaitForPrompt \/ DrainSerial
    <2>1. /\ call' \in SerialCalls /\ ClearSerialLines
          /\ \/ UNCHANGED <<number, typed>>
             \/ \E empty \in BOOLEAN : TransmitSerial(empty)
      BY <1>2, <1>3, <1>5, Zenon DEF PreDrained, WaitForPrompt, DrainSerial, Runs
    <2>2. quiet' => HeardWhole'
      BY <1>1, <2>1, ClearLeavesNothing
    <2> QED BY <2>1, <2>2, Zenon DEF SerialInv
  <1>6. CASE FlushAndAccumulate
    <2>1. /\ call' \in SerialCalls /\ TransmitSerial(TRUE) /\ quiet' = quiet
          /\ UNCHANGED <<serialLines, serialBuffer, owes, wire, since>>
      BY <1>1, <1>2, <1>6, Zenon DEF FlushAndAccumulate, Runs
    <2>2. HeardWhole => HeardWhole'
      BY <2>1, OneMoreToHear
    <2> QED BY <2>1, <2>2, Zenon DEF SerialInv
  <1>7. CASE SendSerialEnds
    <2> DEFINE kept == DropEcho(serialLines)
    <2>1. /\ serialLines' = kept /\ report'.lines = kept
          /\ UNCHANGED <<serialBuffer, number, typed, since, quiet>>
      BY <1>7 DEF SendSerialEnds
    <2>2. Recent' = Recent /\ report'.lines = kept
      BY <2>1 DEF Recent
    <2>3. ASSUME HeardWhole PROVE \A i \in DOMAIN kept : WholeLineOf(Recent, kept[i])
      <3>1. \A i \in DOMAIN serialLines : WholeLineOf(Recent, serialLines[i])
        BY <2>3, Zenon DEF HeardWhole
      <3>2. CASE kept = serialLines
        BY <3>1, <3>2
      <3>3. CASE serialLines # <<>> /\ kept = Tail(serialLines)
        <4>1. serialLines \in Seq(Seq(Bytes))
          BY DEF HilTypeOK
        <4>2. \A i \in DOMAIN Tail(serialLines) :
                /\ i + 1 \in DOMAIN serialLines
                /\ Tail(serialLines)[i] = serialLines[i + 1]
          BY <3>3, <4>1, RestIs
        <4> HIDE DEF kept
        <4> QED BY <3>1, <3>3, <4>2
      <3> QED BY <3>2, <3>3, Zenon DEF DropEcho
    <2> HIDE DEF kept
    <2>4. ASSUME HeardWhole PROVE HeardWhole' /\ ReportIsWhole'
      <3>1. EchoIsFirst'
        BY <1>1, <2>1, <2>2, <2>4, Zenon DEF HeardWhole, EchoIsFirst
      <3>2. HeardWhole'
        BY <1>1, <2>1, <2>2, <2>3, <2>4, <3>1, Zenon DEF HeardWhole
      <3>3. ReportIsWhole'
        BY <2>2, <2>3, <2>4, Zenon DEF ReportIsWhole
      <3> QED BY <3>2, <3>3
    <2> QED BY <2>1, <2>4, Zenon DEF SerialInv
  <1>8. CASE WaitForPromptEnds
    <2>1. /\ ClearSerialLines /\ UNCHANGED <<number, typed>>
          /\ report'.lines = <<>>
      BY <1>8 DEF WaitForPromptEnds
    <2>2. quiet' => HeardWhole'
      BY <1>1, <2>1, ClearLeavesNothing
    <2>3. DOMAIN report'.lines = {}
      BY <2>1
    <2>4. ReportIsWhole'
      BY <2>3, Zenon DEF ReportIsWhole
    <2> QED BY <2>2, <2>4, Zenon DEF SerialInv
  <1>9. CASE FlushEnds
    <2>1. /\ report'.lines = serialLines
          /\ UNCHANGED <<serialLines, serialBuffer, number, typed, since, quiet>>
      BY <1>9 DEF FlushEnds
    <2>2. Recent' = Recent /\ report'.lines = serialLines
      BY <2>1 DEF Recent
    <2>3. ASSUME HeardWhole PROVE HeardWhole' /\ ReportIsWhole'
      <3>1. EchoIsFirst'
        BY <1>1, <2>1, <2>2, <2>3, Zenon DEF HeardWhole, EchoIsFirst
      <3>2. HeardWhole'
        BY <1>1, <2>1, <2>2, <2>3, <3>1, Zenon DEF HeardWhole
      <3>3. ReportIsWhole'
        BY <2>2, <2>3, Zenon DEF ReportIsWhole, HeardWhole
      <3> QED BY <3>2, <3>3
    <2> QED BY <2>1, <2>3, Zenon DEF SerialInv
  <1> QED BY <1>4, <1>5, <1>6, <1>7, <1>8, <1>9

\* Where an echo is in one piece of speech behind another.
LEMMA EchoesJoin ==
  ASSUME NEW s \in Seq(Bytes), NEW t \in Seq(Bytes), NEW i \in DOMAIN (s \o t),
         (s \o t)[i].piece = "echo1"
  PROVE  \/ i \in DOMAIN s /\ s[i].piece = "echo1"
         \/ \E j \in DOMAIN t : i = Len(s) + j /\ t[j].piece = "echo1"
  <1> DEFINE u == s \o t
             m == Len(s)
             n == Len(t)
  <1>1. m \in Nat /\ DOMAIN s = 1 .. m /\ n \in Nat /\ DOMAIN t = 1 .. n
    BY DomainIs
  <1>2. u \in Seq(Bytes) /\ Len(u) = m + n
    BY JoinIs, Zenon
  <1>3. i \in 1 .. m + n /\ u[i].piece = "echo1"
    BY <1>2, DomainIs
  <1>4. /\ \A k \in 1 .. m : u[k] = s[k]
        /\ \A k \in 1 .. n : u[m + k] = t[k]
    BY JoinFirst, JoinLast
  <1> HIDE DEF u, m, n
  <1>5. CASE i \in 1 .. m
    BY <1>1, <1>3, <1>4, <1>5
  <1>6. CASE i \notin 1 .. m
    <2>1. i - m \in 1 .. n /\ i = m + (i - m)
      BY <1>1, <1>3, <1>6, SMT
    <2>2. t[i - m].piece = "echo1"
      BY <1>3, <1>4, <2>1, Zenon
    <2> QED BY <1>1, <2>1, <2>2, Zenon DEF m
  <1> QED BY <1>5, <1>6

\* The board's answers begin with the echo, and have no other.
LEMMA AnswersEchoFirst ==
  ASSUME NEW n \in 0 .. MaxCommands
  PROVE  /\ \A i \in DOMAIN Text(n) : Text(n)[i].piece # "echo1"
         /\ \A w \in {Echo(n), Echo(n) \o Prompt(n), Echo(n) \o Text(n) \o Prompt(n)} :
              w \in Seq(Bytes) /\ \A i \in DOMAIN w : w[i].piece = "echo1" => i = 1
  <1> DEFINE e == Echo(n)
             p == Prompt(n)
             t == Text(n)
             First(w) == w \in Seq(Bytes) /\ \A i \in DOMAIN w : w[i].piece = "echo1" => i = 1
  <1>1. /\ e = <<Byte(n, "echo1"), Byte(n, "echo2")>>
        /\ p = <<Byte(n, "newline"), Byte(n, "gt"), Byte(n, "space")>>
        /\ t = <<Byte(n, "newline"), Byte(n, "text1"), Byte(n, "text2")>>
        /\ e \in Seq(Bytes) /\ p \in Seq(Bytes) /\ t \in Seq(Bytes)
    BY WordsAre
  <1>2. \A q : Byte(n, q).piece = q
    BY DEF Byte
  <1>3. /\ \A i \in DOMAIN e : e[i].piece = "echo1" => i = 1
        /\ \A i \in DOMAIN p : p[i].piece # "echo1"
        /\ \A i \in DOMAIN t : t[i].piece # "echo1"
    <2>1. /\ DOMAIN e = 1 .. 2 /\ e[1] = Byte(n, "echo1") /\ e[2] = Byte(n, "echo2")
          /\ DOMAIN p = 1 .. 3
          /\ p[1] = Byte(n, "newline") /\ p[2] = Byte(n, "gt") /\ p[3] = Byte(n, "space")
          /\ DOMAIN t = 1 .. 3
          /\ t[1] = Byte(n, "newline") /\ t[2] = Byte(n, "text1") /\ t[3] = Byte(n, "text2")
      BY <1>1
    <2>2. /\ \A i \in 1 .. 2 : i = 1 \/ i = 2
          /\ \A i \in 1 .. 3 : i = 1 \/ i = 2 \/ i = 3
      BY SMT
    <2>3. /\ e[2].piece # "echo1"
          /\ \A i \in 1 .. 3 : p[i].piece # "echo1" /\ t[i].piece # "echo1"
      BY <1>2, <2>1, <2>2
    <2> HIDE DEF e, p, t
    <2> QED BY <2>1, <2>2, <2>3, Zenon
  <1>4. ASSUME NEW s \in Seq(Bytes), NEW f \in Seq(Bytes), First(s),
               \A i \in DOMAIN f : f[i].piece # "echo1"
        PROVE  First(s \o f)
    <2>1. s \o f \in Seq(Bytes)
      BY JoinType
    <2>2. ASSUME NEW i \in DOMAIN (s \o f), (s \o f)[i].piece = "echo1" PROVE i = 1
      BY <1>4, <2>2, EchoesJoin
    <2> QED BY <2>1, <2>2
  <1> HIDE DEF e, p, t
  <1>5. First(e) /\ First(e \o p) /\ First(e \o t)
    BY <1>1, <1>3, <1>4
  <1> HIDE DEF First
  <1>6. e \o t \in Seq(Bytes)
    BY <1>1, JoinType
  <1>7. First((e \o t) \o p)
    BY <1>1, <1>3, <1>4, <1>5, <1>6
  <1> QED BY <1>3, <1>5, <1>7 DEF First, e, p, t

LEMMA BoardKeepsEchoInv ==
  ASSUME HilTypeOK, SerialInv, EchoInv, BoardTakes \/ BoardSaysMore
  PROVE  EchoInv'
  <1>1. UNCHANGED <<call, phase, serialLines, serialBuffer, number, since, quiet, report>>
    BY Zenon DEF BoardTakes, BoardSaysMore
  <1>2. ReportIsAnswer => ReportIsAnswer'
    <2>1. report' = report /\ number' = number
      BY <1>1
    <2> QED BY <2>1, Zenon DEF ReportIsAnswer
  <1> SUFFICES ASSUME quiet, HeardWhole, EchoLeads PROVE EchoLeads'
    BY <1>1, <1>2, Zenon DEF EchoInv, SerialInv
  <1>3. /\ owes \subseteq Recent /\ EchoIsFirst
    BY Zenon DEF HeardWhole
  <1>4. wire \in Seq(Bytes) /\ owes \subseteq 0 .. MaxCommands
    BY DEF HilTypeOK
  <1>5. ASSUME typed' # <<>> => serialLines = <<>>, \A i \in DOMAIN typed' : ~typed'[i].empty,
               \A i \in DOMAIN wire' : wire'[i].piece = "echo1" =>
                 i = 1 /\ serialBuffer = <<>> /\ serialLines = <<>>
        PROVE  EchoLeads'
    BY <1>1, <1>5, Zenon DEF EchoLeads
  <1>6. CASE BoardSaysMore
    <2>1. PICK n \in owes : wire' = wire \o Text(n) /\ typed' = typed
      BY <1>6, Zenon DEF BoardSaysMore
    <2>2. n \in 0 .. MaxCommands
      BY <1>4
    <2>3. Text(n) \in Seq(Bytes) /\ \A i \in DOMAIN Text(n) : Text(n)[i].piece # "echo1"
      BY <2>2, WordsAre, AnswersEchoFirst
    <2>4. ASSUME NEW i \in DOMAIN wire', wire'[i].piece = "echo1"
          PROVE  i = 1 /\ serialBuffer = <<>> /\ serialLines = <<>>
      <3>1. i \in DOMAIN wire /\ wire[i].piece = "echo1"
        BY <1>4, <2>1, <2>3, <2>4, EchoesJoin
      <3> QED BY <3>1, Zenon DEF EchoLeads
    <2>5. /\ typed' # <<>> => serialLines = <<>>
          /\ \A i \in DOMAIN typed' : ~typed'[i].empty
      BY <2>1, Zenon DEF EchoLeads
    <2> QED BY <1>5, <2>4, <2>5
  <1>7. CASE BoardTakes
    <2> DEFINE b == Head(typed)
               k == b.of
               Answers == {Echo(k), Echo(k) \o Prompt(k), Echo(k) \o Text(k) \o Prompt(k)}
    <2>1. /\ typed # <<>> /\ typed' = Tail(typed)
          /\ \/ wire' = wire
             \/ b.empty
             \/ \E w \in Answers : wire' = wire \o w
      BY <1>7, Zenon DEF BoardTakes
    <2>2. typed \in Seq([of : 1 .. MaxCommands, empty : BOOLEAN])
      BY DEF HilTypeOK
    <2>3. /\ b = typed[1] /\ b \in [of : 1 .. MaxCommands, empty : BOOLEAN]
          /\ 1 \in DOMAIN typed
          /\ \A i \in DOMAIN Tail(typed) : i + 1 \in DOMAIN typed /\ Tail(typed)[i] = typed[i + 1]
      BY <2>1, <2>2, RestIs, DomainIs
    <2>4. k \in 0 .. MaxCommands
      <3>1. k \in 1 .. MaxCommands
        BY <2>3
      <3> QED BY <3>1, SMT
    <2> HIDE DEF b, k, Answers
    <2>5. ~b.empty /\ serialLines = <<>>
      BY <2>1, <2>3, Zenon DEF EchoLeads
    <2>6. wire = <<>> /\ serialBuffer = <<>>
      BY <1>3, <2>3, <2>5, Zenon DEF EchoIsFirst
    <2>7. \A i \in DOMAIN typed' : ~typed'[i].empty
      BY <2>1, <2>3, Zenon DEF EchoLeads
    <2>8. ASSUME NEW i \in DOMAIN wire', wire'[i].piece = "echo1" PROVE i = 1
      <3>1. CASE wire' = wire
        BY <2>8, <3>1, Zenon DEF EchoLeads
      <3>2. CASE \E w \in Answers : wire' = wire \o w
        <4>1. PICK w \in Answers : wire' = wire \o w
          BY <3>2
        <4>2. w \in Seq(Bytes) /\ \A j \in DOMAIN w : w[j].piece = "echo1" => j = 1
          BY <2>4, AnswersEchoFirst DEF Answers
        <4>3. wire \in Seq(Bytes) /\ Len(wire) = 0 /\ DOMAIN wire = {}
          BY <1>4, <2>6
        <4>4. \E j \in DOMAIN w : i = Len(wire) + j /\ w[j].piece = "echo1"
          BY <2>8, <4>1, <4>2, <4>3, EchoesJoin
        <4> QED BY <4>2, <4>3, <4>4
      <3> QED BY <2>1, <2>5, <3>1, <3>2
    <2> QED BY <1>5, <2>5, <2>6, <2>7, <2>8
  <1> QED BY <1>6, <1>7

\* A line that ends is the first one, if it begins with an echo.
LEMMA EchoLineIsFirst ==
  ASSUME HilTypeOK, EchoLeads, NEW line \in Seq(Bytes), EmitSerialLine(line),
         line # <<>> => serialBuffer # <<>> /\ line[1] = serialBuffer[1]
  PROVE  \A i \in DOMAIN serialLines' : serialLines'[i][1].piece = "echo1" => i = 1
  <1> DEFINE lines == serialLines
             now == serialLines'
             k == Len(lines) + 1
  <1>1. lines \in Seq(Seq(Bytes)) /\ serialBuffer \in Seq(Bytes)
    BY DEF HilTypeOK
  <1>2. \A i \in DOMAIN lines : lines[i][1].piece = "echo1" => i = 1
    BY Zenon DEF EchoLeads
  <1>3. CASE line = <<>>
    BY <1>2, <1>3 DEF EmitSerialLine
  <1>4. CASE line # <<>>
    <2>1. now = Append(lines, line)
      BY <1>4, Zenon DEF EmitSerialLine
    <2>2. /\ DOMAIN now = (DOMAIN lines) \cup {k} /\ now[k] = line
          /\ \A i \in DOMAIN lines : now[i] = lines[i]
      <3> HIDE DEF lines, now, k
      <3>1. lines \in Seq(Seq(Bytes)) /\ now = Append(lines, line)
        BY <1>1, <2>1
      <3> QED BY <3>1, OneMore, SMTT(20) DEF k
    <2>3. line[1].piece = "echo1" => k = 1
      <3>1. 1 \in DOMAIN serialBuffer
        BY <1>1, <1>4, DomainIs
      <3>2. line[1].piece = "echo1" => lines = <<>>
        BY <1>4, <3>1, Zenon DEF EchoLeads
      <3>3. lines = <<>> => k = 1
        OBVIOUS
      <3> QED BY <3>2, <3>3
    <2> HIDE DEF now, k
    <2>4. \A i \in DOMAIN now : now[i][1].piece = "echo1" => i = 1
      BY <1>2, <2>2, <2>3, Zenon
    <2> QED BY <2>4 DEF now
  <1> QED BY <1>3, <1>4

LEMMA BytesKeepEchoInv ==
  ASSUME HilTypeOK, SerialInv, EchoInv, OnSerialBytes
  PROVE  EchoInv'
  <1> DEFINE b == Head(wire)
             half == serialBuffer
             l == Len(serialBuffer)
  <1>1. /\ AppendSerialByte(b) /\ wire' = Tail(wire) /\ wire # <<>>
        /\ UNCHANGED <<call, phase, number, typed, since, quiet, report>>
    BY Zenon DEF OnSerialBytes
  <1>2. ReportIsAnswer => ReportIsAnswer'
    <2>1. report' = report /\ number' = number
      BY <1>1
    <2> QED BY <2>1, Zenon DEF ReportIsAnswer
  <1> SUFFICES ASSUME quiet, HeardWhole, EchoLeads PROVE EchoLeads'
    BY <1>1, <1>2, Zenon DEF EchoInv, SerialInv
  <1>3. wire \in Seq(Bytes) /\ half \in Seq(Bytes) /\ serialLines \in Seq(Seq(Bytes))
    BY DEF HilTypeOK
  <1>4. /\ b = wire[1] /\ b \in Bytes /\ 1 \in DOMAIN wire
        /\ \A i \in DOMAIN Tail(wire) : i + 1 \in DOMAIN wire /\ Tail(wire)[i] = wire[i + 1]
        /\ \A i \in DOMAIN Tail(wire) : i \in Nat /\ i >= 1
    BY <1>1, <1>3, RestIs, DomainIs
  <1>5. b.piece = "echo1" => serialLines = <<>>
    BY <1>4, Zenon DEF EchoLeads
  <1>6. typed = <<>>
    <2>1. typed \in Seq([of : 1 .. MaxCommands, empty : BOOLEAN])
      BY DEF HilTypeOK
    <2>2. typed # <<>> => 1 \in DOMAIN typed
      BY <2>1, DomainIs
    <2>3. 1 \in DOMAIN typed => ~typed[1].empty
      BY Zenon DEF EchoLeads
    <2>4. 1 \in DOMAIN typed /\ ~typed[1].empty => wire = <<>>
      BY Zenon DEF HeardWhole, EchoIsFirst
    <2> QED BY <1>1, <2>2, <2>3, <2>4
  <1>7. \A i \in DOMAIN wire' : wire'[i].piece # "echo1"
    <2> SUFFICES ASSUME NEW i \in DOMAIN Tail(wire), wire[i + 1].piece = "echo1" PROVE FALSE
      BY <1>1, <1>4
    <2>1. i + 1 = 1
      BY <1>4, Zenon DEF EchoLeads
    <2> QED BY <1>4, <2>1, SMT
  <1>8. ASSUME \A i \in DOMAIN serialBuffer' :
                 serialBuffer'[i].piece = "echo1" => serialLines' = <<>>,
               \A i \in DOMAIN serialLines' : serialLines'[i][1].piece = "echo1" => i = 1
        PROVE  EchoLeads'
    <2>1. since' = number' /\ typed' = <<>>
      BY <1>1, <1>6, Zenon DEF EchoLeads
    <2>2. \A i \in DOMAIN typed' : ~typed'[i].empty
      BY <2>1
    <2> QED BY <1>7, <1>8, <2>1, <2>2, Zenon DEF EchoLeads
  <1>9. CASE b.piece = "newline"
    <2>1. EmitSerialLine(half) /\ serialBuffer' = <<>>
      BY <1>1, <1>9, Zenon DEF AppendSerialByte
    <2>2. \A i \in DOMAIN serialLines' : serialLines'[i][1].piece = "echo1" => i = 1
      BY <1>3, <2>1, EchoLineIsFirst
    <2>3. DOMAIN serialBuffer' = {}
      BY <2>1
    <2> QED BY <1>8, <2>2, <2>3, Zenon
  <1>10. CASE b.piece = "space" /\ l > 0 /\ half[l].piece = "gt"
    <2> DEFINE line == SubSeq(half, 1, l - 1)
    <2>1. EmitSerialLine(line) /\ serialBuffer' = <<>>
      BY <1>1, <1>10, SMT DEF AppendSerialByte
    <2>2. /\ line \in Seq(Bytes)
          /\ line # <<>> => half # <<>> /\ line[1] = half[1]
      <3>1. l \in Nat
        BY <1>3, DomainIs
      <3>2. /\ line \in Seq(Bytes)
            /\ line # <<>> => Len(line) >= 1
            /\ Len(line) = IF 1 <= l - 1 THEN l - 1 ELSE 0
        BY <1>3, <3>1, SMT
      <3>3. 1 <= l - 1 => line[1] = half[1]
        BY <1>3, <3>1, SMT
      <3>4. l > 0 => half # <<>>
        OBVIOUS
      <3> HIDE DEF line, l
      <3> QED BY <1>10, <3>1, <3>2, <3>3, <3>4, SMT
    <2> HIDE DEF line
    <2>3. \A i \in DOMAIN serialLines' : serialLines'[i][1].piece = "echo1" => i = 1
      BY <2>1, <2>2, EchoLineIsFirst
    <2>4. DOMAIN serialBuffer' = {}
      BY <2>1
    <2> QED BY <1>8, <2>3, <2>4, Zenon
  <1>11. CASE b.piece # "newline" /\ ~(b.piece = "space" /\ l > 0 /\ half[l].piece = "gt")
    <2> DEFINE now == serialBuffer'
               k == l + 1
    <2>1. now = Append(half, b) /\ serialLines' = serialLines
      BY <1>1, <1>11, SMT DEF AppendSerialByte
    <2>2. /\ DOMAIN now = (DOMAIN half) \cup {k} /\ now[k] = b
          /\ \A i \in DOMAIN half : now[i] = half[i]
      BY <1>3, <1>4, <2>1, OneMore
    <2>3. \A i \in DOMAIN half : half[i].piece = "echo1" => serialLines = <<>>
      BY Zenon DEF EchoLeads
    <2>4. \A i \in DOMAIN serialLines : serialLines[i][1].piece = "echo1" => i = 1
      BY Zenon DEF EchoLeads
    <2> HIDE DEF now, k, b
    <2>5. \A i \in DOMAIN now : now[i].piece = "echo1" => serialLines = <<>>
      BY <1>5, <2>2, <2>3, Zenon
    <2>6. /\ \A i \in DOMAIN serialBuffer' : serialBuffer'[i].piece = "echo1" => serialLines' = <<>>
          /\ \A i \in DOMAIN serialLines' : serialLines'[i][1].piece = "echo1" => i = 1
      BY <2>1, <2>4, <2>5 DEF now
    <2> QED BY <1>8, <2>6
  <1> QED BY <1>9, <1>10, <1>11

\* What SendSerial leaves of what it heard, once the echo is dropped.
LEMMA EchoIsDropped ==
  ASSUME HilTypeOK, HeardWhole, EchoLeads, NEW i \in DOMAIN DropEcho(serialLines)
  PROVE  DropEcho(serialLines)[i] = Answer(number)
  <1> DEFINE lines == serialLines
             kept == DropEcho(serialLines)
  <1>1. lines \in Seq(Seq(Bytes)) /\ number \in 0 .. MaxCommands
    BY DEF HilTypeOK
  <1>2. ASSUME NEW j \in DOMAIN lines PROVE lines[j] \in {Echo(number), Answer(number)}
    <2>1. WholeLineOf(Recent, lines[j])
      BY Zenon DEF HeardWhole
    <2>2. since = number
      BY Zenon DEF EchoLeads
    <2>3. \A n \in Recent : n = number
      BY <1>1, <2>2, SMT DEF Recent
    <2> QED BY <2>1, <2>3, Zenon DEF WholeLineOf
  <1>3. ASSUME NEW j \in DOMAIN lines, lines[j] = Echo(number) PROVE j = 1
    <2>1. Echo(number)[1].piece = "echo1"
      <3>1. Echo(number) = <<Byte(number, "echo1"), Byte(number, "echo2")>>
        BY <1>1, WordsAre
      <3> QED BY <3>1 DEF Byte
    <2> QED BY <1>3, <2>1, Zenon DEF EchoLeads
  <1>4. CASE lines # <<>> /\ Head(lines) = Echo(number)
    <2>1. kept = Tail(lines)
      BY <1>4, Zenon DEF DropEcho
    <2>2. i + 1 \in DOMAIN lines /\ kept[i] = lines[i + 1] /\ i \in Nat /\ i >= 1
      <3>1. Tail(lines) \in Seq(Seq(Bytes)) /\ i \in DOMAIN Tail(lines)
        BY <1>1, <1>4, <2>1, RestIs
      <3> QED BY <1>1, <1>4, <2>1, <3>1, RestIs, DomainIs
    <2>3. i + 1 # 1
      BY <2>2, SMT
    <2> HIDE DEF kept, lines
    <2>4. kept[i] = Answer(number)
      BY <1>2, <1>3, <2>2, <2>3, Zenon
    <2> QED BY <2>4 DEF kept
  <1>5. CASE lines = <<>> \/ Head(lines) # Echo(number)
    <2>1. kept = lines
      BY <1>5, Zenon DEF DropEcho
    <2>2. i \in DOMAIN lines
      BY <2>1
    <2>3. i # 1 \/ lines[i] # Echo(number)
      <3>1. lines # <<>> => Head(lines) = lines[1]
        BY <1>1, RestIs
      <3>2. lines # <<>>
        BY <2>2
      <3> QED BY <1>5, <3>1, <3>2, Zenon
    <2> HIDE DEF kept, lines
    <2>4. kept[i] = Answer(number)
      BY <1>2, <1>3, <2>1, <2>2, <2>3, Zenon
    <2> QED BY <2>4 DEF kept
  <1> QED BY <1>4, <1>5

LEMMA CallsKeepEchoInv ==
  ASSUME HilTypeOK, SerialInv, EchoInv,
         \/ SendSerial \/ PreDrained \/ WaitForPrompt \/ FlushAndAccumulate \/ DrainSerial
         \/ SendSerialEnds \/ WaitForPromptEnds \/ FlushEnds
  PROVE  EchoInv'
  <1>1. /\ "SendSerial" \in SerialCalls /\ "WaitForPrompt" \in SerialCalls
        /\ "FlushAndAccumulate" \in SerialCalls /\ "DrainSerial" \in SerialCalls
        /\ "none" \notin SerialCalls
    BY DEF SerialCalls
  <1>2. CASE SendSerial
    <2>1. call' = "SendSerial" /\ phase' = "settle"
      BY <1>2, Zenon DEF SendSerial, Runs
    <2> QED BY <1>1, <2>1, Zenon DEF EchoInv
  <1>3. CASE WaitForPrompt \/ FlushAndAccumulate \/ DrainSerial
    <2>1. call' \in SerialCalls /\ call' # "SendSerial"
      BY <1>1, <1>3, Zenon DEF WaitForPrompt, FlushAndAccumulate, DrainSerial, Runs
    <2> QED BY <2>1, Zenon DEF EchoInv
  <1>4. CASE PreDrained
    <2>1. /\ call' = "SendSerial" /\ ClearSerialLines /\ TransmitSerial(FALSE) /\ wire' = wire
      BY <1>4, Zenon DEF PreDrained, Runs
    <2>2. /\ serialLines' = <<>> /\ serialBuffer' = <<>> /\ since' = number + 1
          /\ quiet' => wire = <<>> /\ typed = <<>>
          /\ number' = number + 1
          /\ typed' = Append(typed, [of |-> number + 1, empty |-> FALSE])
      BY <2>1, Zenon DEF ClearSerialLines, TransmitSerial
    <2> SUFFICES ASSUME quiet' PROVE EchoLeads'
      BY <1>1, <2>1, Zenon DEF EchoInv
    <2>3. DOMAIN wire' = {} /\ DOMAIN serialBuffer' = {} /\ DOMAIN serialLines' = {}
      BY <2>1, <2>2
    <2>4. typed' = <<[of |-> number + 1, empty |-> FALSE]>>
      <3>1. typed' = Append(<<>>, [of |-> number + 1, empty |-> FALSE])
        BY <2>2, Zenon
      <3> QED BY <3>1
    <2>5. \A i \in DOMAIN typed' : ~typed'[i].empty
      BY <2>4
    <2> QED BY <2>2, <2>3, <2>5, Zenon DEF EchoLeads
  <1>5. CASE SendSerialEnds
    <2>1. /\ call = "SendSerial" /\ phase = "reply" /\ call' = "none"
          /\ report'.lines = DropEcho(serialLines)
          /\ UNCHANGED <<number, quiet>>
      BY <1>5 DEF SendSerialEnds, Runs
    <2> SUFFICES ASSUME quiet PROVE ReportIsAnswer'
      BY <2>1, Zenon DEF EchoInv
    <2>2. HeardWhole /\ EchoLeads
      BY <2>1, Zenon DEF SerialInv, EchoInv
    <2>3. \A i \in DOMAIN DropEcho(serialLines) : DropEcho(serialLines)[i] = Answer(number)
      BY <2>2, EchoIsDropped
    <2> QED BY <2>1, <2>3, Zenon DEF ReportIsAnswer
  <1>6. CASE WaitForPromptEnds \/ FlushEnds
    <2>1. call' = "none" /\ report'.by = call /\ call # "SendSerial"
      BY <1>6 DEF WaitForPromptEnds, FlushEnds, Runs
    <2> QED BY <2>1, Zenon DEF EchoInv, ReportIsAnswer
  <1> QED BY <1>2, <1>3, <1>4, <1>5, <1>6

LEMMA CanLeavesEchoInv ==
  ASSUME EchoInv, CanNext
  PROVE  EchoInv'
  <1>1. UNCHANGED serialVars
    BY Zenon DEF CanNext, BusFrame, OnCanFrame, ClearCanFrames, SendCanFrame, CanCompleted,
       SendCanFrameEnds, WaitForCanFrame, TakeFrame, WaitForCanFrameTimeout
  <1>2. (EchoLeads => EchoLeads') /\ (ReportIsAnswer => ReportIsAnswer') /\ quiet' = quiet
    BY <1>1, Zenon DEF serialVars, EchoLeads, ReportIsAnswer
  <1>3. \/ UNCHANGED <<call, phase>>
        \/ /\ call \in {"none", "SendCanFrame", "WaitForCanFrame"}
           /\ call' \in {"none", "SendCanFrame", "WaitForCanFrame"}
    BY Zenon DEF CanNext, BusFrame, OnCanFrame, ClearCanFrames, SendCanFrame, CanCompleted,
       SendCanFrameEnds, WaitForCanFrame, TakeFrame, WaitForCanFrameTimeout, Runs
  <1>4. \A c \in {"none", "SendCanFrame", "WaitForCanFrame"} :
          c \notin SerialCalls /\ c # "SendSerial"
    BY DEF SerialCalls
  <1> QED BY <1>2, <1>3, <1>4, Zenon DEF EchoInv

LEMMA SerialKeepsSessionInv ==
  ASSUME SessionInv, SerialNext
  PROVE  SessionInv'
  <1>1. HilTypeOK'
    BY SessionKeepsTypes DEF SessionInv
  <1>2. SerialInv'
    BY BoardKeepsSerialInv, BytesKeepSerialInv, CallsKeepSerialInv
       DEF SessionInv, SerialNext
  <1>3. UNCHANGED canVars
    BY Zenon DEF SerialNext, BoardTakes, BoardSaysMore, OnSerialBytes, SendSerial, PreDrained,
       WaitForPrompt, FlushAndAccumulate, DrainSerial, SendSerialEnds, WaitForPromptEnds,
       FlushEnds
  <1>4. CanInv'
    BY <1>3, Zenon DEF SessionInv, CanInv, canVars
  <1>5. EchoInv'
    BY BoardKeepsEchoInv, BytesKeepEchoInv, CallsKeepEchoInv DEF SessionInv, SerialNext
  <1> QED BY <1>1, <1>2, <1>4, <1>5 DEF SessionInv

LEMMA CanLeavesTheSerialSide ==
  ASSUME SerialInv, CanNext
  PROVE  SerialInv'
  <1>1. UNCHANGED serialVars
    BY Zenon DEF CanNext, BusFrame, OnCanFrame, ClearCanFrames, SendCanFrame, CanCompleted,
       SendCanFrameEnds, WaitForCanFrame, TakeFrame, WaitForCanFrameTimeout
  <1>2. /\ Recent' = Recent
        /\ UNCHANGED <<serialLines, serialBuffer, number, typed, owes, wire, since, quiet, report>>
    BY <1>1, Zenon DEF serialVars, Recent
  <1>3. (HeardWhole => HeardWhole') /\ (ReportIsWhole => ReportIsWhole')
    BY <1>2, Zenon DEF HeardWhole, EchoIsFirst, ReportIsWhole
  <1>4. call \in SerialCalls => call' = call
    <2>1. call \in SerialCalls => call \notin {"none", "SendCanFrame", "WaitForCanFrame"}
      BY DEF SerialCalls
    <2>2. call' = call \/ call \in {"none", "SendCanFrame", "WaitForCanFrame"}
      BY Zenon DEF CanNext, BusFrame, OnCanFrame, ClearCanFrames, SendCanFrame, CanCompleted,
         SendCanFrameEnds, WaitForCanFrame, TakeFrame, WaitForCanFrameTimeout
    <2> QED BY <2>1, <2>2
  <1> QED BY <1>2, <1>3, <1>4, Zenon DEF SerialInv

LEMMA CanKeepsCanInv ==
  ASSUME HilTypeOK, CanInv, CanNext
  PROVE  CanInv'
  <1> DEFINE Now(f) == OfCapture(frames, captured, canQuiet, f)
             Then(f) == OfCapture(frames', captured', canQuiet', f)
  <1>1. /\ canQueue \in Seq(Frame) /\ canWire \in Seq(Frame) /\ frames \in Nat
        /\ captured \in Nat /\ canReport \in Nat /\ <<>> \in Seq(Frame)
    BY EmptySeq, SMT DEF HilTypeOK
  <1>2. /\ captured <= frames
        /\ \A i \in DOMAIN canQueue : Now(canQueue[i])
        /\ \A i \in DOMAIN canWire : Now(canWire[i])
        /\ canQuiet /\ canReport > 0 => canReport > captured
    BY Zenon DEF CanInv
  <1>3. \A f \in Frame : f.number \in Nat
    BY SMT DEF Frame
  <1>4. DOMAIN <<>> = {}
    OBVIOUS
  <1>5. ASSUME captured' <= frames',
               \A i \in DOMAIN canQueue' : Then(canQueue'[i]),
               \A i \in DOMAIN canWire' : Then(canWire'[i]),
               canQuiet' /\ canReport' > 0 => canReport' > captured'
        PROVE  CanInv'
    BY <1>5, Zenon DEF CanInv
  <1>6. CASE BusFrame
    <2>1. PICK id \in {"expected", "other"} :
            canWire' = Append(canWire, [id |-> id, number |-> frames + 1])
      BY <1>6, Zenon DEF BusFrame
    <2>2. /\ frames < MaxFrames /\ frames' = frames + 1
          /\ UNCHANGED <<canQueue, captured, canQuiet, canReport>>
      BY <1>6, Zenon DEF BusFrame
    <2> DEFINE f == [id |-> id, number |-> frames + 1]
               next == canWire'
               k == Len(canWire) + 1
    <2>3. f \in Frame /\ f.number = frames + 1
      <3>1. frames + 1 \in 1 .. MaxFrames
        BY <1>1, <2>2, SessionAssumption, SMT
      <3> QED BY <3>1 DEF Frame
    <2>4. next = Append(canWire, f)
      BY <2>1
    <2> HIDE DEF f
    <2>5. /\ DOMAIN next = (DOMAIN canWire) \cup {k} /\ next[k] = f
          /\ \A i \in DOMAIN canWire : next[i] = canWire[i]
      BY <1>1, <2>3, <2>4, OneMore
    <2> HIDE DEF k, next
    <2>6. captured' <= frames'
      BY <1>1, <1>2, <2>2, SMT
    <2>7. \A g \in Frame : Now(g) => Then(g)
      BY <1>1, <1>3, <2>2, SMT DEF OfCapture
    <2>8. Then(f)
      BY <1>1, <1>2, <2>2, <2>3, SMT DEF OfCapture
    <2>9. /\ \A i \in DOMAIN canQueue : canQueue[i] \in Frame
          /\ \A i \in DOMAIN canWire : canWire[i] \in Frame
      BY <1>1, DomainIs
    <2> HIDE DEF Now, Then
    <2>10. \A i \in DOMAIN canQueue' : Then(canQueue'[i])
      BY <1>2, <2>2, <2>7, <2>9
    <2>11. \A i \in DOMAIN canWire' : Then(canWire'[i])
      <3>1. \A i \in DOMAIN next : Then(next[i])
        BY <1>2, <2>5, <2>7, <2>8, <2>9, Zenon
      <3> QED BY <3>1 DEF next
    <2>12. canQuiet' /\ canReport' > 0 => canReport' > captured'
      BY <1>2, <2>2
    <2> QED BY <1>5, <2>6, <2>10, <2>11, <2>12, Zenon
  <1>7. CASE OnCanFrame
    <2>1. /\ canWire # <<>> /\ canQueue' = Append(canQueue, Head(canWire))
          /\ canWire' = Tail(canWire)
          /\ UNCHANGED <<frames, captured, canQuiet, canReport>>
      BY <1>7, Zenon DEF OnCanFrame
    <2> DEFINE f == Head(canWire)
               next == canQueue'
               rest == canWire'
               k == Len(canQueue) + 1
    <2>2. /\ f = canWire[1] /\ f \in Frame /\ 1 \in DOMAIN canWire
          /\ \A i \in DOMAIN Tail(canWire) : /\ i + 1 \in DOMAIN canWire
                                            /\ Tail(canWire)[i] = canWire[i + 1]
      BY <1>1, <2>1, RestIs, DomainIs
    <2>3. next = Append(canQueue, f) /\ rest = Tail(canWire)
      BY <2>1
    <2> HIDE DEF f
    <2>4. /\ DOMAIN next = (DOMAIN canQueue) \cup {k} /\ next[k] = f
          /\ \A i \in DOMAIN canQueue : next[i] = canQueue[i]
      BY <1>1, <2>2, <2>3, OneMore
    <2> HIDE DEF Now, k, next, rest
    <2>5. \A i \in DOMAIN next : Now(next[i])
      BY <1>2, <2>2, <2>4, Zenon
    <2>6. \A i \in DOMAIN rest : Now(rest[i])
      BY <1>2, <2>2, <2>3
    <2>7. \A g : Then(g) <=> Now(g)
      BY <2>1 DEF Now
    <2> HIDE DEF Then
    <2>8. captured' <= frames' /\ (canQuiet' /\ canReport' > 0 => canReport' > captured')
      BY <1>2, <2>1
    <2>9. /\ \A i \in DOMAIN canQueue' : Then(canQueue'[i])
          /\ \A i \in DOMAIN canWire' : Then(canWire'[i])
      BY <2>5, <2>6, <2>7 DEF next, rest
    <2> QED BY <1>5, <2>8, <2>9, Zenon
  <1>8. CASE ClearCanFrames
    <2>1. /\ canQueue' = <<>> /\ captured' = frames /\ canQuiet' = (canWire = <<>>)
          /\ canReport' = 0 /\ frames' = frames /\ canWire' = canWire
      BY <1>8, Zenon DEF ClearCanFrames
    <2>2. captured' <= frames' /\ ~(canReport' > 0)
      BY <1>1, <2>1, SMT
    <2>3. \A i \in DOMAIN canQueue' : Then(canQueue'[i])
      BY <1>4, <2>1
    <2>4. ASSUME NEW i \in DOMAIN canWire PROVE Then(canWire[i])
      <3>1. canQuiet' => FALSE
        BY <1>4, <2>1
      <3>2. canWire[i].number <= frames
        BY <1>2 DEF OfCapture
      <3> QED BY <2>1, <3>1, <3>2 DEF OfCapture
    <2>5. \A i \in DOMAIN canWire' : Then(canWire'[i])
      BY <2>1, <2>4
    <2> HIDE DEF Now, Then
    <2> QED BY <1>5, <2>2, <2>3, <2>5, Zenon
  <1>9. CASE TakeFrame
    <2>1. /\ canQueue # <<>> /\ canQueue' = Tail(canQueue)
          /\ canReport' \in {canReport, Head(canQueue).number}
          /\ UNCHANGED <<frames, captured, canQuiet, canWire>>
      BY <1>9, Zenon DEF TakeFrame
    <2>2. /\ Head(canQueue) = canQueue[1] /\ 1 \in DOMAIN canQueue
          /\ \A i \in DOMAIN Tail(canQueue) : /\ i + 1 \in DOMAIN canQueue
                                             /\ Tail(canQueue)[i] = canQueue[i + 1]
      BY <1>1, <2>1, RestIs, DomainIs
    <2>3. Now(Head(canQueue))
      BY <1>2, <2>2
    <2>4. canQuiet' /\ canReport' > 0 => canReport' > captured'
      BY <1>2, <2>1, <2>3, Zenon DEF OfCapture
    <2>5. \A g : Then(g) <=> Now(g)
      BY <2>1
    <2> DEFINE rest == Tail(canQueue)
    <2> HIDE DEF Now, Then, rest
    <2>6. \A i \in DOMAIN rest : Then(rest[i])
      BY <1>2, <2>2, <2>5, Zenon DEF rest
    <2>7. \A i \in DOMAIN canQueue' : Then(canQueue'[i])
      BY <2>1, <2>6 DEF rest
    <2>8. \A i \in DOMAIN canWire' : Then(canWire'[i])
      BY <1>2, <2>1, <2>5
    <2>9. captured' <= frames'
      BY <1>2, <2>1
    <2> QED BY <1>5, <2>4, <2>7, <2>8, <2>9, Zenon
  <1>10. CASE \/ SendCanFrame \/ CanCompleted \/ SendCanFrameEnds \/ WaitForCanFrame
              \/ WaitForCanFrameTimeout
    <2>1. /\ UNCHANGED <<canQueue, canWire, frames, captured, canQuiet>>
          /\ canReport' \in {canReport, 0}
      BY <1>10, Zenon DEF SendCanFrame, CanCompleted, SendCanFrameEnds, WaitForCanFrame,
         WaitForCanFrameTimeout, canVars
    <2>2. canQuiet' /\ canReport' > 0 => canReport' > captured'
      BY <1>2, <2>1, SMT
    <2> HIDE DEF Now
    <2>3. \A g : Then(g) <=> Now(g)
      BY <2>1 DEF Now
    <2> HIDE DEF Then
    <2>4. /\ \A i \in DOMAIN canQueue' : Then(canQueue'[i])
          /\ \A i \in DOMAIN canWire' : Then(canWire'[i])
          /\ captured' <= frames'
      BY <1>2, <2>1, <2>3
    <2> QED BY <1>5, <2>2, <2>4, Zenon
  <1> QED BY <1>6, <1>7, <1>8, <1>9, <1>10, Zenon DEF CanNext

LEMMA SessionInvHoldsAtFirst == HilInit => SessionInv
  <1> SUFFICES ASSUME HilInit PROVE SessionInv
    OBVIOUS
  <1>1. /\ quiet = FALSE /\ canQueue = <<>> /\ canWire = <<>> /\ frames = 0 /\ captured = 0
        /\ canReport = 0
    BY Zenon DEF HilInit
  <1>2. DOMAIN <<>> = {}
    OBVIOUS
  <1>3. CanInv
    BY <1>1, <1>2, SMT DEF CanInv
  <1> QED BY <1>1, <1>3, HilTypesHoldAtFirst, Zenon DEF SessionInv, SerialInv, EchoInv

LEMMA SessionInvReads ==
  ASSUME SessionInv, UNCHANGED hilVars
  PROVE  SessionInv'
  <1>1. HilTypeOK'
    BY SessionKeepsTypes DEF SessionInv
  <1>2. UNCHANGED <<call, serialVars, canVars>>
    BY Zenon DEF hilVars
  <1>3. CanInv'
    BY <1>2, Zenon DEF SessionInv, CanInv, canVars
  <1>4. /\ Recent' = Recent
        /\ UNCHANGED <<call, serialLines, serialBuffer, number, typed, owes, wire, since, quiet,
                       report>>
    BY <1>2, Zenon DEF serialVars, Recent
  <1>5. SerialInv'
    BY <1>4, Zenon DEF SessionInv, SerialInv, HeardWhole, EchoIsFirst, ReportIsWhole
  <1>6. EchoInv'
    <2>1. phase' = phase
      BY Zenon DEF hilVars
    <2> QED BY <1>4, <2>1, Zenon DEF SessionInv, EchoInv, EchoLeads, ReportIsAnswer
  <1> QED BY <1>1, <1>3, <1>5, <1>6 DEF SessionInv

LEMMA SessionInvReports ==
  ASSUME SessionInv
  PROVE  ReportsOwnAnswer
  <1> SUFFICES ASSUME call = "none" PROVE
        /\ quiet => \A i \in DOMAIN report.lines : WholeLine(report.lines[i])
        /\ quiet /\ report.by = "SendSerial" =>
             \A i \in DOMAIN report.lines : report.lines[i] = Answer(number)
        /\ canQuiet /\ canReport > 0 => canReport > captured
    BY DEF ReportsOwnAnswer
  <1>1. call \notin SerialCalls
    BY DEF SerialCalls
  <1>2. quiet => \A i \in DOMAIN report.lines : WholeLineOf(Recent, report.lines[i])
    BY <1>1, Zenon DEF SessionInv, SerialInv, ReportIsWhole
  <1>3. \A line : WholeLineOf(Recent, line) => WholeLine(line)
    BY Zenon DEF WholeLineOf, WholeLine, Recent
  <1>4. quiet /\ report.by = "SendSerial" =>
          \A i \in DOMAIN report.lines : report.lines[i] = Answer(number)
    BY <1>1, Zenon DEF SessionInv, EchoInv, ReportIsAnswer
  <1> QED BY <1>2, <1>3, <1>4, Zenon DEF SessionInv, CanInv

\* A call of the session reports whole lines that were said about what was
\* typed since the last clear, SendSerial only answers to its own command and
\* never its echo, and frames of the capture that runs, unless that clear or
\* capture began with something still on its way: for every number of lines
\* typed and of frames, however the stream of bytes is cut.
THEOREM CallsReportTheirOwn == TargetSpec => []ReportsOwnAnswer
  <1>1. TargetInit => SessionInv
    BY SessionInvHoldsAtFirst DEF TargetInit
  <1>2. SessionInv /\ [TargetNext]_targetVars => SessionInv'
    <2> SUFFICES ASSUME SessionInv, [TargetNext]_targetVars PROVE SessionInv'
      OBVIOUS
    <2>1. CASE UNCHANGED hilVars
      BY <2>1, SessionInvReads
    <2>2. CASE SerialNext
      BY <2>2, SerialKeepsSessionInv
    <2>3. CASE CanNext
      <3>1. HilTypeOK /\ SerialInv /\ EchoInv /\ CanInv
        BY DEF SessionInv
      <3>2. HilTypeOK' /\ SerialInv' /\ EchoInv' /\ CanInv'
        BY <2>3, <3>1, SessionKeepsTypes, CanLeavesTheSerialSide, CanLeavesEchoInv,
           CanKeepsCanInv
      <3> QED BY <3>2 DEF SessionInv
    <2> QED
      BY <2>1, <2>2, <2>3, Zenon DEF TargetNext, targetVars
  <1>3. SessionInv => ReportsOwnAnswer
    BY SessionInvReports
  <1> QED
    BY <1>1, <1>2, <1>3, PTL DEF TargetSpec
-----------------------------------------------------------------------------
(* The types of the programs, what the invariants above do not say of them *)
(* included.                                                               *)

LoopTypesLeft ==
    /\ control \in Controls /\ estimators \subseteq Estimators
    /\ driven \in BOOLEAN /\ converting \in BOOLEAN /\ pids \in BOOLEAN
    /\ output \in Nat \X Nat /\ triggerCounter \in Nat /\ pending \in BOOLEAN
    /\ caller \in [busy : BOOLEAN, left : SUBSET Cleared]

LEMMA LoopTypesAre ==
  ASSUME SnapshotInv, LoopTypesLeft
  PROVE  LoopTypeOK
  BY Zenon DEF SnapshotInv, SnapshotTypes, LoopTypesLeft, LoopTypeOK

LEMMA LoopTypesHoldAtFirst == LoopInit => LoopTypesLeft
  <1> SUFFICES ASSUME LoopInit PROVE LoopTypesLeft
    OBVIOUS
  <1>1. estimators \subseteq Estimators /\ control \in Controls
    BY SMT DEF LoopInit
  <1>2. output \in Nat \X Nat /\ triggerCounter \in Nat
    BY SMT DEF LoopInit
  <1>3. caller \in [busy : BOOLEAN, left : SUBSET Cleared]
    BY DEF LoopInit, NotRunning
  <1> QED BY <1>1, <1>2, <1>3, Zenon DEF LoopInit, LoopTypesLeft

LEMMA LoopsKeepTypes ==
  ASSUME SnapshotInv, LoopTypesLeft, LoopNext
  PROVE  LoopTypesLeft'
  <1>1. /\ angle \in Nat /\ samples \in Nat /\ handler.now \in Nat /\ handler.before \in Nat
        /\ triggerCounter \in Nat /\ output \in Nat \X Nat
        /\ caller \in [busy : BOOLEAN, left : SUBSET Cleared]
    BY DEF SnapshotInv, SnapshotTypes, LoopTypesLeft
  <1>2. <<0, 0>> \in Nat \X Nat /\ 0 \in Nat
    BY SMT
  <1>3. CASE Enable
    <2>1. caller' \in [busy : BOOLEAN, left : SUBSET Cleared]
      BY <1>3, SMT DEF Enable
    <2> QED BY <1>3, <2>1, Zenon DEF Enable, LoopTypesLeft
  <1>4. CASE \E v \in Cleared : ClearStored(v)
    <2>1. PICK v \in Cleared : ClearStored(v)
      BY <1>4
    <2>2. caller' = [caller EXCEPT !.left = @ \ {v}]
      BY <2>1, Zenon DEF ClearStored
    <2>3. caller' \in [busy : BOOLEAN, left : SUBSET Cleared]
      BY <1>1, <2>2
    <2>4. output' \in Nat \X Nat /\ triggerCounter' \in Nat
      BY <1>1, <1>2, <2>1, Zenon DEF ClearStored
    <2> QED BY <2>1, <2>3, <2>4, Zenon DEF ClearStored, LoopTypesLeft
  <1>5. CASE Started
    <2>1. caller' \in [busy : BOOLEAN, left : SUBSET Cleared]
      BY <1>5 DEF Started, NotRunning
    <2> QED BY <1>5, <2>1, Zenon DEF Started, LoopTypesLeft
  <1>6. CASE Disable \/ Convert
    BY <1>6, Zenon DEF Disable, Convert, LoopTypesLeft
  <1>7. CASE Sample
    <2>1. triggerCounter' \in Nat /\ pending' \in BOOLEAN
      <3>1. triggerCounter + 1 \in Nat
        BY <1>1, SMT
      <3>2. pending \in BOOLEAN
        BY DEF LoopTypesLeft
      <3> QED BY <1>1, <1>2, <1>7, <3>1, <3>2, Zenon DEF Sample, CalculateInnerLoop, Publish
    <2>2. /\ UNCHANGED <<control, estimators, pids, output, caller>>
          /\ converting' = FALSE /\ driven' = TRUE
      BY <1>7, Zenon DEF Sample
    <2> QED BY <2>1, <2>2, Zenon DEF LoopTypesLeft
  <1>8. CASE LowPriorityHandler
    <2>1. /\ UNCHANGED <<control, estimators, driven, converting, pids, triggerCounter, caller>>
          /\ output' \in {output, <<handler.now, handler.before>>}
          /\ pending' \in {pending, FALSE}
      BY <1>8, Zenon DEF LowPriorityHandler, StartHandler, Speed, Remember, Position, Output,
         UpdateOnlineMechanicalEstimator, TakeElectrical, UpdateOnlineElectricalEstimator,
         HandlerKeeps
    <2>2. <<handler.now, handler.before>> \in Nat \X Nat
      BY <1>1
    <2> QED BY <2>1, <2>2, Zenon DEF LoopTypesLeft
  <1> QED BY <1>3, <1>4, <1>5, <1>6, <1>7, <1>8 DEF LoopNext

LEMMA LoopTypesRead ==
  ASSUME LoopTypesLeft, UNCHANGED loopVars
  PROVE  LoopTypesLeft'
  BY Zenon DEF LoopTypesLeft, loopVars

\* A terminal counts its batches, too.
BoardTypes == FaultTypeOK /\ TerminalTypeOK /\ batches \in Nat

LEMMA BoardTypesHoldAtFirst == BoardInit => BoardTypes
  <1> SUFFICES ASSUME FaultInit, TerminalInit PROVE BoardTypes
    BY DEF BoardInit
  <1>1. FaultTypeOK
    <2>1. 0 \in Part /\ 0 \in 0 .. MaxResets
      BY FaultAssumption, SMT DEF Part
    <2>2. NoTrace \in Trace
      BY <2>1, FaultAssumption, SMT DEF NoTrace, Trace
    <2>3. NoStatus \in [frame : Part, trace : Trace]
      BY <2>1, <2>2 DEF NoStatus
    <2>4. /\ "reset" \in Places /\ "powerUp" \in ResetCauses
          /\ 0 \in StackCounts \cup {0}
      BY DEF Places, ResetCauses
    <2> QED BY <2>1, <2>2, <2>3, <2>4, Zenon DEF FaultInit, FaultTypeOK
  <1>2. TerminalTypeOK /\ batches \in Nat
    <2>1. /\ 0 \in 0 .. QueueSize /\ 0 \in 0 .. MaxPending /\ 0 \in 0 .. MaxRequests
          /\ 0 \in 0 .. 0 /\ 0 + 0 = 0 /\ 0 \in Nat
      BY TerminalAssumption, SMT
    <2>2. operations \in [EepromKinds -> 0 .. MaxPending]
      BY <2>1 DEF TerminalInit
    <2>3. batches + (IF adcActive THEN 1 ELSE 0) \in 0 .. requests
      BY <2>1, Zenon DEF TerminalInit
    <2> QED BY <2>1, <2>2, <2>3, Zenon DEF TerminalInit, TerminalTypeOK
  <1> QED BY <1>1, <1>2 DEF BoardTypes

LEMMA FaultStepsKeepTypes ==
  ASSUME FaultInv, FaultTypeOK, FaultSteps \/ Restarts
  PROVE  FaultTypeOK'
  <1>1. /\ faults \in Nat /\ faults <= MaxFaults /\ frame \in Part /\ trace \in Trace
        /\ status \in [frame : Part, trace : Trace] /\ resets \in 0 .. MaxResets /\ 0 \in Part
        /\ faults \in Part
    BY FaultAssumption, SMT DEF FaultTypeOK, Part
  <1>2. /\ NoTrace \in Trace /\ NoStatus \in [frame : Part, trace : Trace]
        /\ \A n \in StackCounts :
             [fault |-> faults, count |-> AtMost(n, MaxStackTraceEntries)] \in Trace
    <2>1. NoTrace \in Trace
      BY <1>1, FaultAssumption, SMT DEF NoTrace, Trace
    <2>2. \A n \in StackCounts : AtMost(n, MaxStackTraceEntries) \in 0 .. MaxStackTraceEntries
      BY FaultAssumption, SMT DEF AtMost
    <2> QED BY <1>1, <2>1, <2>2 DEF NoStatus, Trace
  <1>3. cpu' \in Places
    BY Zenon DEF FaultSteps, Restarts, ReadAndClearResetCause, FormatFaultData, Invalidate,
       HardFault, ClearMagic, SaveRegisters, ScanStack, SetMagic, SystemReset, Reset,
       ExternalReset, PowerUp, Restart, Places, FaultTypeOK
  <1>4. status' \in [frame : Part, trace : Trace]
    <2>1. [frame |-> frame, trace |-> Formatted(trace)] \in [frame : Part, trace : Trace]
      <3>1. trace.fault \in Part /\ trace.count \in 0 .. MaxStackTraceEntries
        BY <1>1 DEF Trace
      <3>2. AtMost(trace.count, Room) \in 0 .. MaxStackTraceEntries
        BY <3>1, FaultAssumption, SMT DEF AtMost
      <3> QED BY <1>1, <3>1, <3>2 DEF Formatted, Trace
    <2>2. status' \in {status, NoStatus, [frame |-> frame, trace |-> Formatted(trace)]}
      BY Zenon DEF FaultSteps, Restarts, ReadAndClearResetCause, FormatFaultData, Invalidate,
         HardFault, ClearMagic, SaveRegisters, ScanStack, SetMagic, SystemReset, Reset,
         ExternalReset, PowerUp, Restart
    <2> QED BY <1>1, <1>2, <2>1, <2>2, Zenon
  <1>5. causes' \subseteq ResetBits
    <2>1. \/ causes' = causes \/ causes' = {}
          \/ \E c \in ResetBits : causes' = causes \cup {c}
      BY Zenon DEF FaultSteps, Restarts, ReadAndClearResetCause, FormatFaultData, Invalidate,
         HardFault, ClearMagic, SaveRegisters, ScanStack, SetMagic, SystemReset, Reset,
         ExternalReset, PowerUp, Restart, ResetBits
    <2> QED BY <2>1 DEF FaultTypeOK
  <1>6. resetCause' \in ResetCauses
    <2>1. CauseOf(causes) \in ResetCauses
      BY SMT DEF CauseOf, ResetCauses, ResetBits
    <2>2. resetCause' \in {resetCause, CauseOf(causes)}
      BY Zenon DEF FaultSteps, Restarts, ReadAndClearResetCause, FormatFaultData, Invalidate,
         HardFault, ClearMagic, SaveRegisters, ScanStack, SetMagic, SystemReset, Reset,
         ExternalReset, PowerUp
    <2> QED BY <2>1, <2>2, Zenon DEF FaultTypeOK
  <1>7. magic' \in BOOLEAN /\ frame' \in Part /\ trace' \in Trace
    <2>1. /\ magic' \in {magic, FALSE, TRUE} /\ frame' \in {frame, faults, 0}
          /\ \/ trace' \in {trace, NoTrace}
             \/ \E n \in StackCounts :
                  trace' = [fault |-> faults, count |-> AtMost(n, MaxStackTraceEntries)]
      BY Zenon DEF FaultSteps, Restarts, ReadAndClearResetCause, FormatFaultData, Invalidate,
         HardFault, ClearMagic, SaveRegisters, ScanStack, SetMagic, SystemReset, Reset,
         ExternalReset, PowerUp
    <2> QED BY <1>1, <1>2, <2>1, Zenon DEF FaultTypeOK
  <1>8. faults' \in Part /\ resets' \in 0 .. MaxResets
    <2>1. /\ faults' = faults \/ (faults < MaxFaults /\ faults' = faults + 1)
          /\ resets' = resets \/ (resets < MaxResets /\ resets' = resets + 1)
      BY Zenon DEF FaultSteps, Restarts, ReadAndClearResetCause, FormatFaultData, Invalidate,
         HardFault, ClearMagic, SaveRegisters, ScanStack, SetMagic, SystemReset, Reset,
         ExternalReset, PowerUp
    <2> QED BY <1>1, <2>1, FaultAssumption, SMT DEF Part
  <1>9. recorded' \subseteq FaultNumbers
    <2>1. recorded' = recorded \/ (cpu = "scanned" /\ recorded' = recorded \cup {faults})
      BY Zenon DEF FaultSteps, Restarts, ReadAndClearResetCause, FormatFaultData, Invalidate,
         HardFault, ClearMagic, SaveRegisters, ScanStack, SetMagic, SystemReset, Reset,
         ExternalReset, PowerUp
    <2>2. cpu = "scanned" => faults \in FaultNumbers
      BY <1>1, FaultAssumption, SMT DEF FaultInv, WriterHoldsRecord, FaultNumbers
    <2> QED BY <2>1, <2>2 DEF FaultTypeOK
  <1>10. told' \subseteq FaultNumbers
    <2>1. told' = told \/ (cpu = "formatted" /\ told' = told \cup {status.frame})
      BY Zenon DEF FaultSteps, Restarts, ReadAndClearResetCause, FormatFaultData, Invalidate,
         HardFault, ClearMagic, SaveRegisters, ScanStack, SetMagic, SystemReset, Reset,
         ExternalReset, PowerUp
    <2>2. cpu = "formatted" => status.frame \in FaultNumbers
      <3>1. cpu = "formatted" => frame \in recorded /\ status.frame = frame
        BY DEF FaultInv, ConstructorHoldsRecord, ValidIsLastUntold
      <3> QED BY <3>1 DEF FaultTypeOK
    <2> QED BY <2>1, <2>2 DEF FaultTypeOK
  <1>11. lost' \subseteq FaultNumbers
    <2>1. lost' = lost \/ lost' = lost \cup (1 .. faults)
      BY Zenon DEF FaultSteps, Restarts, ReadAndClearResetCause, FormatFaultData, Invalidate,
         HardFault, ClearMagic, SaveRegisters, ScanStack, SetMagic, SystemReset, Reset,
         ExternalReset, PowerUp
    <2>2. 1 .. faults \subseteq FaultNumbers
      BY <1>1, FaultAssumption, SMT DEF FaultNumbers
    <2> QED BY <2>1, <2>2 DEF FaultTypeOK
  <1>12. found' \in StackCounts \cup {0}
    <2>1. found' \in {found, 0} \/ found' \in StackCounts
      BY Zenon DEF FaultSteps, Restarts, ReadAndClearResetCause, FormatFaultData, Invalidate,
         HardFault, ClearMagic, SaveRegisters, ScanStack, SetMagic, SystemReset, Reset,
         ExternalReset, PowerUp
    <2> QED BY <2>1 DEF FaultTypeOK
  <1> QED BY <1>3, <1>4, <1>5, <1>6, <1>7, <1>8, <1>9, <1>10, <1>11, <1>12, Zenon
             DEF FaultTypeOK

TerminalTypes == TerminalTypeOK /\ batches \in Nat

LEMMA TerminalKeepsTypes ==
  ASSUME TerminalTypes, TerminalReset \/ StartAdc \/ TerminalSteps
  PROVE  TerminalTypes'
  <1>1. /\ adcActive \in BOOLEAN /\ queued \in 0 .. QueueSize /\ pwmOn \in BOOLEAN
        /\ canStarted \in BOOLEAN /\ listening \in BOOLEAN /\ sending \in 0 .. MaxPending
        /\ operations \in [EepromKinds -> 0 .. MaxPending]
        /\ buffer \in {"empty", "typed", "cells"}
        /\ requests \in 0 .. MaxRequests /\ batches \in Nat
        /\ adcActive => batches + 1 <= requests
        /\ ~adcActive => batches <= requests
    <2>1. batches + (IF adcActive THEN 1 ELSE 0) \in 0 .. requests /\ batches \in Nat
          /\ requests \in 0 .. MaxRequests
      BY DEF TerminalTypes, TerminalTypeOK
    <2>2. (adcActive => batches + 1 <= requests) /\ (~adcActive => batches <= requests)
      BY <2>1, TerminalAssumption, SMT
    <2> QED BY <2>1, <2>2, Zenon DEF TerminalTypes, TerminalTypeOK
  <1>2. ASSUME adcActive' \in BOOLEAN, queued' \in 0 .. QueueSize, pwmOn' \in BOOLEAN,
               requests' \in 0 .. MaxRequests, batches' \in Nat,
               adcActive' => batches' + 1 <= requests', ~adcActive' => batches' <= requests',
               canStarted' \in BOOLEAN, listening' \in BOOLEAN, sending' \in 0 .. MaxPending,
               operations' \in [EepromKinds -> 0 .. MaxPending],
               buffer' \in {"empty", "typed", "cells"}
        PROVE  TerminalTypes'
    <2>0. \A b \in Nat, r \in 0 .. MaxRequests :
            /\ b + 1 <= r => b + 1 \in 0 .. r
            /\ b <= r => b + 0 \in 0 .. r
      BY TerminalAssumption, SMT
    <2>1. batches' + 1 <= requests' => batches' + 1 \in 0 .. requests'
      BY <1>2, <2>0, Zenon
    <2>2. batches' <= requests' => batches' + 0 \in 0 .. requests'
      BY <1>2, <2>0, Zenon
    <2>3. batches' + (IF adcActive' THEN 1 ELSE 0) \in 0 .. requests'
      BY <1>2, <2>1, <2>2, Zenon
    <2> QED BY <1>2, <2>3, Zenon DEF TerminalTypes, TerminalTypeOK
  <1>3. 0 \in 0 .. QueueSize /\ 0 \in 0 .. MaxPending /\ 0 \in 0 .. MaxRequests /\ 0 \in Nat
    BY TerminalAssumption, SMT
  <1>4. CASE TerminalReset
    <2>1. operations' \in [EepromKinds -> 0 .. MaxPending]
      BY <1>3, <1>4 DEF TerminalReset
    <2>2. batches' <= requests' /\ adcActive' = FALSE
      BY <1>4, SMT DEF TerminalReset
    <2> QED BY <1>2, <1>3, <1>4, <2>1, <2>2, Zenon DEF TerminalReset
  <1>5. CASE StartAdc
    <2>1. /\ requests' \in 0 .. MaxRequests /\ adcActive' = TRUE
          /\ batches' + 1 <= requests'
      BY <1>1, <1>5, TerminalAssumption, SMT DEF StartAdc
    <2> QED BY <1>1, <1>2, <1>5, <2>1, Zenon DEF StartAdc, CanKeeps, EepromKeeps
  <1>6. CASE AdcSample
    <2>1. CASE adcActive /\ queued < QueueSize /\ queued' = queued + 1
               /\ UNCHANGED <<adcActive, pwmOn, batches>>
      <3>1. queued' \in 0 .. QueueSize
        BY <1>1, <2>1, TerminalAssumption, SMT
      <3> QED BY <1>1, <1>2, <1>6, <2>1, <3>1, Zenon DEF AdcSample, CanKeeps, EepromKeeps
    <2>2. CASE adcActive /\ ProcessAdcSamples
      <3>1. batches' \in Nat /\ batches' <= requests' /\ adcActive' = FALSE
        BY <1>1, <1>6, <2>2, SMT DEF AdcSample, ProcessAdcSamples
      <3> QED BY <1>1, <1>2, <1>3, <1>6, <2>2, <3>1, Zenon
              DEF AdcSample, ProcessAdcSamples, CanKeeps, EepromKeeps
    <2> QED BY <1>6, <2>1, <2>2, Zenon DEF AdcSample
  <1>7. CASE SetPwmDuty \/ StopPwm
    BY <1>1, <1>2, <1>7, Zenon DEF SetPwmDuty, StopPwm, CanKeeps, EepromKeeps
  <1>8. CASE CanStart \/ CanStop \/ CanSend \/ CanSent \/ CanListen
    <2>1. sending' \in 0 .. MaxPending
      BY <1>1, <1>3, <1>8, TerminalAssumption, SMT
         DEF CanStart, CanStop, CanSend, CanSent, CanListen
    <2> QED BY <1>1, <1>2, <1>8, <2>1, Zenon
            DEF CanStart, CanStop, CanSend, CanSent, CanListen, AdcKeeps, EepromKeeps
  <1>9. CASE EepromWrite \/ EepromRead \/ EepromErase
    <2>1. operations' \in [EepromKinds -> 0 .. MaxPending]
      <3>1. ASSUME NEW k \in EepromKinds, EepromBegin(k)
            PROVE  operations' \in [EepromKinds -> 0 .. MaxPending]
        <4>1. \A j \in {"write", "read", "erase"} : operations[j] \in 0 .. MaxPending
          BY <1>1, Zenon DEF EepromKinds
        <4>2. operations[k] + 1 \in 0 .. MaxPending
          BY <3>1, <4>1, TerminalAssumption, SMTT(20) DEF EepromBegin, EepromKinds
        <4>3. operations' = [operations EXCEPT ![k] = @ + 1]
          BY <3>1, Zenon DEF EepromBegin
        <4> QED BY <1>1, <4>2, <4>3, SMTT(20)
      <3>2. \/ \E k \in EepromKinds : EepromBegin(k)
            \/ UNCHANGED operations
        BY <1>9, Zenon DEF EepromWrite, EepromRead, EepromErase, EepromKinds
      <3> QED BY <1>1, <3>1, <3>2
    <2> QED BY <1>1, <1>2, <1>9, <2>1, Zenon
            DEF EepromWrite, EepromRead, EepromErase, AdcKeeps, CanKeeps
  <1>10. CASE EepromDone
    <2>1. PICK k \in EepromKinds :
            /\ operations[k] > 0 /\ operations' = [operations EXCEPT ![k] = @ - 1]
            /\ buffer' = IF k = "read" THEN "cells" ELSE buffer
            /\ AdcKeeps /\ CanKeeps
      BY <1>10, Zenon DEF EepromDone
    <2>2. operations' \in [EepromKinds -> 0 .. MaxPending]
      <3>1. operations[k] - 1 \in 0 .. MaxPending
        BY <1>1, <2>1, TerminalAssumption, SMT
      <3> QED BY <1>1, <2>1, <3>1
    <2> QED BY <1>1, <1>2, <2>1, <2>2, Zenon DEF AdcKeeps, CanKeeps
  <1> QED
    BY <1>4, <1>5, <1>6, <1>7, <1>8, <1>9, <1>10, Zenon
       DEF TerminalSteps, ConfigurePwm, ConfigureAdc

LEMMA BoardKeepsTypes ==
  ASSUME FaultInv, BoardTypes, BoardNext
  PROVE  BoardTypes'
  <1>1. UNCHANGED faultVars => FaultTypeOK'
    BY Zenon DEF BoardTypes, FaultTypeOK, faultVars
  <1>2. UNCHANGED terminalVars => TerminalTypes'
    <2> SUFFICES ASSUME UNCHANGED terminalVars PROVE TerminalTypes'
      OBVIOUS
    <2>1. /\ adcActive' = adcActive /\ queued' = queued /\ pwmOn' = pwmOn
          /\ canStarted' = canStarted /\ listening' = listening /\ sending' = sending
          /\ operations' = operations /\ buffer' = buffer
          /\ requests' = requests /\ batches' = batches
      BY Zenon DEF terminalVars
    <2>2. TerminalTypes
      BY DEF BoardTypes, TerminalTypes
    <2> QED BY <2>1, <2>2, SMT DEF TerminalTypes, TerminalTypeOK
  <1>3. FaultSteps \/ Restarts => FaultTypeOK'
    BY FaultStepsKeepTypes DEF BoardTypes
  <1>4. TerminalReset \/ StartAdc \/ TerminalSteps => TerminalTypes'
    BY TerminalKeepsTypes DEF BoardTypes, TerminalTypes
  <1> QED BY <1>1, <1>2, <1>3, <1>4, Zenon DEF BoardNext, BuildTerminal, BoardTypes, TerminalTypes

SimTypesLeft ==
    /\ limit \in Limits /\ running \in BOOLEAN /\ counter \in 0 .. limit
    /\ callback \in Listeners /\ calibration \in Calibrations

LEMMA SimTypesAre ==
  ASSUME CarrierInv, SimTypesLeft
  PROVE  SimTypeOK
  <1>1. driving \in BOOLEAN /\ cycleScheduled \in BOOLEAN /\ cycles \in Nat
    <2>1. Carrier \in Carriers
      BY DEF CarrierInv, Sound, Counted
    <2> QED BY <2>1 DEF Carrier, Carriers
  <1> QED BY <1>1, Zenon DEF CarrierInv, SimTypesLeft, SimTypeOK

LEMMA SimTypesHoldAtFirst == SimInit => SimTypesLeft
  <1> SUFFICES ASSUME SimInit PROVE SimTypesLeft
    OBVIOUS
  <1>1. limit \in Limits /\ counter = 0 /\ running = FALSE
    BY Zenon DEF SimInit
  <1>2. 0 \in 0 .. limit
    BY <1>1, SimulatorAssumption, SMT
  <1>3. callback \in Listeners /\ calibration \in Calibrations
    BY DEF SimInit, Listeners, Calibrations
  <1> QED BY <1>1, <1>2, <1>3, Zenon DEF SimTypesLeft

LEMMA SimKeepsTypes ==
  ASSUME SimTypesLeft, SimNext
  PROVE  SimTypesLeft'
  <1>1. limit' = limit /\ limit \in Limits /\ limit \in Nat
    BY SimulatorAssumption, Zenon DEF SimTypesLeft, SimNext, StartClicked, StopClicked,
       AlignClicked, IdentifyElectricalClicked, IdentifyMechanicalClicked, Calibrate, Settled,
       PolePairsTimer, MechanicalTimeout, StaleCycle, Finished, RunOneCycle
  <1>2. running' \in BOOLEAN
    <2>1. running' \in {running, TRUE, FALSE}
      BY Zenon DEF SimNext, StartClicked, StopClicked,
         AlignClicked, IdentifyElectricalClicked, IdentifyMechanicalClicked, Calibrate, Settled,
         PolePairsTimer, MechanicalTimeout, StaleCycle, Finished, RunOneCycle
    <2> QED BY <2>1, Zenon DEF SimTypesLeft
  <1>3. counter' \in 0 .. limit
    <2>1. \/ counter' \in {counter, limit, 0}
          \/ counter > 0 /\ counter' = counter - 1
      BY Zenon DEF SimNext, StartClicked, StopClicked,
         AlignClicked, IdentifyElectricalClicked, IdentifyMechanicalClicked, Calibrate, Settled,
         PolePairsTimer, MechanicalTimeout, StaleCycle, Finished, RunOneCycle
    <2>2. counter \in 0 .. limit
      BY DEF SimTypesLeft
    <2> QED BY <1>1, <2>1, <2>2, SMT
  <1>4. callback' \in Listeners /\ calibration' \in Calibrations
    <2>1. /\ callback' \in {callback, "none", "alignment", "empty", "mechanical", "resistance"}
          /\ calibration' \in {calibration, "none", "alignment", "settling", "mechanical",
                               "resistance", "polePairs"}
      BY Zenon DEF SimNext, StartClicked, StopClicked,
         AlignClicked, IdentifyElectricalClicked, IdentifyMechanicalClicked, Calibrate, Settled,
         PolePairsTimer, MechanicalTimeout, StaleCycle, Finished, RunOneCycle
    <2> QED BY <2>1, SMT DEF SimTypesLeft, Listeners, Calibrations
  <1> QED BY <1>1, <1>2, <1>3, <1>4, Zenon DEF SimTypesLeft

LEMMA SimTypesRead ==
  ASSUME SimTypesLeft, UNCHANGED simVars
  PROVE  SimTypesLeft'
  BY Zenon DEF SimTypesLeft, simVars

LEMMA ScopeTypesHoldAtFirst == ScopeInit => ScopeTypeOK
  <1> SUFFICES ASSUME ScopeInit PROVE ScopeTypeOK
    OBVIOUS
  <1>1. /\ 0 \in 0 .. MaxPushed /\ 0 \in Levels /\ 0 \in 0 .. Capacity
        /\ 0 \in 0 .. Capacity - 1
    BY ScopeAssumption, SMT DEF Levels
  <1>2. Blank \in [value : Levels, number : 0 .. MaxPushed]
    BY <1>1 DEF Blank
  <1>3. data \in [0 .. Capacity - 1 -> [value : Levels, number : 0 .. MaxPushed]]
    BY <1>2 DEF ScopeInit
  <1> QED BY <1>1, <1>3, Zenon DEF ScopeInit, ScopeTypeOK

LEMMA ScopeKeepsTypes ==
  ASSUME ScopeTypeOK, ScopeNext
  PROVE  ScopeTypeOK'
  <1>1. /\ 0 \in 0 .. MaxPushed /\ 0 \in Levels /\ 0 \in 0 .. Capacity
        /\ 0 \in 0 .. Capacity - 1
    BY ScopeAssumption, SMT DEF Levels
  <1>2. CASE \E v \in Levels : AddSample(v)
    <2>1. PICK v \in Levels : AddSample(v)
      BY <1>2
    <2> DEFINE fires == count > 0 /\ Crosses(previousTriggerSample, v)
               x == [value |-> v, number |-> pushed + 1]
    <2>2. /\ pushed < MaxPushed /\ pushed' = pushed + 1 /\ Push(x)
          /\ triggered' = (triggered \/ fires)
          /\ singleShotDone' = (singleShotDone \/ (fires /\ triggerMode = "Single"))
          /\ previousTriggerSample' \in {v, previousTriggerSample}
          /\ fired' \in {pushed + 1, fired}
          /\ retuned' = (retuned /\ ~fires)
          /\ UNCHANGED <<totalSamples, triggerMode, edge, level, scopeRunning>>
      BY <2>1, Zenon DEF AddSample
    <2> HIDE DEF fires
    <2>3. pushed + 1 \in 0 .. MaxPushed
      BY <2>2, ScopeAssumption, SMT DEF ScopeTypeOK
    <2>4. x \in [value : Levels, number : 0 .. MaxPushed]
      BY <2>3
    <2> HIDE DEF x
    <2>5. data' \in [0 .. Capacity - 1 -> [value : Levels, number : 0 .. MaxPushed]]
      <3>1. data' = [data EXCEPT ![head] = x]
        BY <2>2, Zenon DEF Push
      <3> QED BY <2>4, <3>1 DEF ScopeTypeOK
    <2>6. head' \in 0 .. Capacity - 1 /\ count' \in 0 .. Capacity
      <3>1. (head + 1) % Capacity \in 0 .. Capacity - 1
        <4>1. head + 1 \in Nat /\ Capacity \in Nat \ {0}
          BY ScopeAssumption, SMT DEF ScopeTypeOK
        <4> QED BY <4>1, SMT
      <3>2. count < Capacity => count + 1 \in 0 .. Capacity
        BY ScopeAssumption, SMT DEF ScopeTypeOK
      <3> QED BY <2>2, <3>1, <3>2, Zenon DEF Push, ScopeTypeOK
    <2>7. /\ triggered' \in BOOLEAN /\ singleShotDone' \in BOOLEAN /\ retuned' \in BOOLEAN
      BY <2>2, Zenon
    <2> QED BY <2>2, <2>3, <2>5, <2>6, <2>7, Zenon DEF ScopeTypeOK
  <1>3. CASE Clear
    <2>1. Blank \in [value : Levels, number : 0 .. MaxPushed]
      BY <1>1 DEF Blank
    <2>2. data' \in [0 .. Capacity - 1 -> [value : Levels, number : 0 .. MaxPushed]]
      BY <1>3, <2>1 DEF Clear
    <2> QED BY <1>1, <1>3, <2>2, Zenon DEF Clear, ScopeTypeOK
  <1>4. CASE \/ \E l \in Levels : SetTriggerLevel(l)
             \/ \E m \in {"Auto", "Normal", "Single"} : SetTriggerMode(m)
             \/ \E e \in {"Rising", "Falling"} : SetTriggerEdge(e)
             \/ \E w \in Widths : SetTimePerDivision(w)
             \/ RunStopClicked \/ SingleClicked \/ ForceTrigger
    <2>1. UNCHANGED <<data, head, count, previousTriggerSample, pushed, fired>>
      BY <1>4, Zenon DEF SetTriggerLevel, SetTriggerMode, SetTriggerEdge, SetTimePerDivision,
         RunStopClicked, SetRunning, SingleClicked, ForceTrigger, RingKeeps
    <2>2. /\ totalSamples' \in Widths /\ triggerMode' \in {"Auto", "Normal", "Single"}
          /\ edge' \in {"Rising", "Falling"} /\ level' \in Levels
      BY <1>4, Zenon DEF SetTriggerLevel, SetTriggerMode, SetTriggerEdge, SetTimePerDivision,
         RunStopClicked, SetRunning, SingleClicked, ForceTrigger, ScopeTypeOK
    <2>3. /\ scopeRunning' \in BOOLEAN /\ triggered' \in BOOLEAN
          /\ singleShotDone' \in BOOLEAN /\ retuned' \in BOOLEAN
      BY <1>4, Zenon DEF SetTriggerLevel, SetTriggerMode, SetTriggerEdge, SetTimePerDivision,
         RunStopClicked, SetRunning, SingleClicked, ForceTrigger, ScopeTypeOK
    <2> QED BY <2>1, <2>2, <2>3, Zenon DEF ScopeTypeOK
  <1> QED BY <1>2, <1>3, <1>4, Zenon DEF ScopeNext

LEMMA ScopeTypesRead ==
  ASSUME ScopeTypeOK, UNCHANGED scopeVars
  PROVE  ScopeTypeOK'
  BY Zenon DEF ScopeTypeOK, scopeVars

SessionCalls == {"DrainSerial", "WaitForPrompt", "SendSerial"}

RunTypesLeft ==
    /\ at \in RunPlaces /\ todo \in Seq(SessionCalls)
    /\ script \in BOOLEAN /\ built \in BOOLEAN /\ alive \in BOOLEAN
    /\ configured \in BOOLEAN /\ enabled \in BOOLEAN /\ sessionFile \in BOOLEAN
    /\ scenarioIndex <= begun

LEMMA RunTypesAre ==
  ASSUME TranscriptInv, RunTypesLeft
  PROVE  RunTypeOK
  <1>1. scenarioIndex \in Files
    BY ScenariosAssumption, SMT DEF TranscriptInv, RunTypes, RunTypesLeft, Files
  <1> QED BY <1>1, Zenon DEF TranscriptInv, RunTypes, RunTypesLeft, RunTypeOK, SessionCalls

LEMMA RunTypesHoldAtFirst == RunInit => RunTypesLeft
  <1> SUFFICES ASSUME RunInit PROVE RunTypesLeft
    OBVIOUS
  <1>1. todo \in Seq(SessionCalls) /\ "start" \in RunPlaces
    BY EmptySeq DEF RunInit, RunPlaces
  <1>2. scenarioIndex <= begun
    BY SMT DEF RunInit
  <1> QED BY <1>1, <1>2, Zenon DEF RunInit, RunTypesLeft

LEMMA RunKeepsTypes ==
  ASSUME TranscriptInv, RunTypesLeft, RunNext
  PROVE  RunTypesLeft'
  <1>1. at' \in RunPlaces
    BY Zenon DEF RunTypesLeft, RunPlaces, RunNext, Configure, BeforeAll, Flash, GdbEnds, Connect,
       Call, BeforeAllEnds, BeforeScenario, Steps, AfterScenario, AfterScenarioEnds, AfterAll,
       Connects, BeforeAllThrows, CleansUp, Throws
  <1>2. todo' \in Seq(SessionCalls)
    <2>1. /\ <<>> \in Seq(SessionCalls) /\ <<"SendSerial">> \in Seq(SessionCalls)
          /\ <<"DrainSerial", "WaitForPrompt">> \in Seq(SessionCalls)
          /\ <<"WaitForPrompt", "SendSerial", "SendSerial", "WaitForPrompt">> \in Seq(SessionCalls)
      BY SMT DEF SessionCalls
    <2>2. todo # <<>> => Tail(todo) \in Seq(SessionCalls)
      BY RestIs DEF RunTypesLeft
    <2>3. \/ todo' \in {todo, <<>>, <<"SendSerial">>, <<"DrainSerial", "WaitForPrompt">>,
                        <<"WaitForPrompt", "SendSerial", "SendSerial", "WaitForPrompt">>}
          \/ todo # <<>> /\ todo' = Tail(todo)
      BY Zenon DEF RunNext, Configure, BeforeAll, Flash, GdbEnds, Connect,
         Call, BeforeAllEnds, BeforeScenario, Steps, AfterScenario, AfterScenarioEnds, AfterAll,
         Connects, BeforeAllThrows, CleansUp, Throws
    <2> QED BY <2>1, <2>2, <2>3, Zenon DEF RunTypesLeft
  <1>3. /\ script' \in BOOLEAN /\ built' \in BOOLEAN /\ alive' \in BOOLEAN
    <2>1. /\ script' \in {script, TRUE, FALSE} /\ built' \in {built, TRUE, FALSE}
          /\ alive' \in {alive, TRUE, FALSE}
      BY Zenon DEF RunNext, Configure, BeforeAll, Flash, GdbEnds, Connect,
         Call, BeforeAllEnds, BeforeScenario, Steps, AfterScenario, AfterScenarioEnds, AfterAll,
         WriteFile, ScopedTempFileEnds, Tracked, sessionVars
    <2> QED BY <2>1, Zenon DEF RunTypesLeft
  <1>4. /\ configured' \in BOOLEAN /\ enabled' \in BOOLEAN /\ sessionFile' \in BOOLEAN
    <2>1. /\ configured' \in {configured, TRUE} /\ enabled' \in {enabled, TRUE, FALSE}
          /\ sessionFile' \in {sessionFile, TRUE, FALSE}
      BY Zenon DEF RunNext, Configure, BeforeAll, Flash, GdbEnds, Connect,
         Call, BeforeAllEnds, BeforeScenario, Steps, AfterScenario, AfterScenarioEnds, AfterAll,
         OpenSession, BeginScenario, EndScenario, CloseSession, fileVars, loggerVars
    <2> QED BY <2>1, Zenon DEF RunTypesLeft
  <1>5. scenarioIndex' <= begun'
    <2>1. begun \in Nat /\ scenarioIndex \in Nat /\ scenarioIndex <= begun
      BY ScenariosAssumption, SMT DEF TranscriptInv, RunTypes, Files, RunTypesLeft
    <2>2. \/ UNCHANGED <<scenarioIndex, begun>>
          \/ begun' = begun + 1 /\ scenarioIndex' \in {scenarioIndex, scenarioIndex + 1}
      BY Zenon DEF RunNext, Configure, BeforeAll, Flash, GdbEnds, Connect,
         Call, BeforeAllEnds, BeforeScenario, Steps, AfterScenario, AfterScenarioEnds, AfterAll,
         OpenSession, BeginScenario, EndScenario, CloseSession, fileVars, loggerVars
    <2> QED BY <2>1, <2>2, SMT
  <1> QED BY <1>1, <1>2, <1>3, <1>4, <1>5, Zenon DEF RunTypesLeft

LEMMA RunTypesRead ==
  ASSUME RunTypesLeft, UNCHANGED runVars
  PROVE  RunTypesLeft'
  BY Zenon DEF RunTypesLeft, runVars, loggerVars

TargetInv ==
    /\ SnapshotInv /\ LoopTypesLeft
    /\ FaultInv /\ BoardTypes
    /\ CarrierInv /\ SimTypesLeft
    /\ TranscriptInv /\ RunTypesLeft
    /\ ScopeTypeOK
    /\ HilTypeOK

\* Every program keeps the types of its state, counters, queues and rings
\* included, whatever the bounds on its behaviour.
THEOREM TargetTypesAreKept == TargetSpec => []TargetTypeOK
  <1>1. TargetInit => TargetInv
    BY SnapshotInvHoldsAtFirst, LoopTypesHoldAtFirst, FaultInvHoldsAtFirst,
       BoardTypesHoldAtFirst, CarrierInvHoldsAtFirst, SimTypesHoldAtFirst,
       TranscriptInvHoldsAtFirst, RunTypesHoldAtFirst, ScopeTypesHoldAtFirst,
       HilTypesHoldAtFirst DEF TargetInit, TargetInv, BoardInit
  <1>2. TargetInv /\ [TargetNext]_targetVars => TargetInv'
    <2> SUFFICES ASSUME TargetInv, [TargetNext]_targetVars PROVE TargetInv'
      OBVIOUS
    <2>1. /\ SnapshotInv /\ LoopTypesLeft /\ FaultInv /\ BoardTypes /\ CarrierInv
          /\ SimTypesLeft /\ TranscriptInv /\ RunTypesLeft /\ ScopeTypeOK /\ HilTypeOK
      BY DEF TargetInv
    <2>2. SnapshotInv' /\ LoopTypesLeft'
      <3>1. CASE UNCHANGED loopVars
        BY <2>1, <3>1, SnapshotInvReads, LoopTypesRead, Zenon DEF loopVars, snapshotVars
      <3>2. CASE LoopNext
        BY <2>1, <3>2, LoopsKeepSnapshotInv, LoopsKeepTypes
      <3> QED BY <3>1, <3>2, Zenon DEF TargetNext, targetVars
    <2>3. FaultInv' /\ BoardTypes'
      <3>1. CASE UNCHANGED boardVars
        <4>1. /\ UNCHANGED faultVars /\ UNCHANGED terminalVars
          BY <3>1, Zenon DEF boardVars
        <4>2. /\ adcActive' = adcActive /\ queued' = queued /\ pwmOn' = pwmOn
              /\ canStarted' = canStarted /\ listening' = listening /\ sending' = sending
              /\ operations' = operations /\ buffer' = buffer
              /\ requests' = requests /\ batches' = batches
          BY <4>1, Zenon DEF terminalVars
        <4>3. TerminalTypeOK' /\ batches' \in Nat
          BY <2>1, <4>2, SMT DEF BoardTypes, TerminalTypeOK
        <4>4. FaultTypeOK'
          BY <2>1, <4>1, Zenon DEF BoardTypes, FaultTypeOK, faultVars
        <4> QED BY <2>1, <4>1, <4>3, <4>4, FaultInvReads DEF BoardTypes
      <3>2. CASE BoardNext
        <4>1. BoardTypes'
          BY <2>1, <3>2, BoardKeepsTypes
        <4>2. FaultInv'
          BY <2>1, <3>2, BoardKeepsFaultInv, FaultInvReads, Zenon
             DEF BoardNext, BuildTerminal
        <4> QED BY <4>1, <4>2
      <3> QED BY <3>1, <3>2, Zenon DEF TargetNext, targetVars
    <2>4. CarrierInv' /\ SimTypesLeft'
      <3>1. CASE UNCHANGED simVars
        BY <2>1, <3>1, CarrierInvReads, SimTypesRead
      <3>2. CASE SimNext
        <4>1. CarrierInv'
          BY <2>1, <3>2, ClicksKeepCarrierInv, TimersKeepCarrierInv, CyclesKeepCarrierInv,
             Zenon DEF SimNext
        <4> QED BY <2>1, <3>2, <4>1, SimKeepsTypes
      <3> QED BY <3>1, <3>2, Zenon DEF TargetNext, targetVars
    <2>5. TranscriptInv' /\ RunTypesLeft'
      <3>1. CASE UNCHANGED runVars
        BY <2>1, <3>1, TranscriptInvReads, RunTypesRead
      <3>2. CASE RunNext
        BY <2>1, <3>2, RunKeepsTranscriptInv, RunKeepsTypes
      <3> QED BY <3>1, <3>2, Zenon DEF TargetNext, targetVars
    <2>6. ScopeTypeOK'
      <3>1. ScopeNext \/ UNCHANGED scopeVars
        BY Zenon DEF TargetNext, targetVars
      <3> QED BY <2>1, <3>1, ScopeKeepsTypes, ScopeTypesRead
    <2>7. HilTypeOK'
      <3>1. SerialNext \/ CanNext \/ UNCHANGED hilVars
        BY Zenon DEF TargetNext, targetVars
      <3> QED BY <2>1, <3>1, SessionKeepsTypes
    <2> QED BY <2>2, <2>3, <2>4, <2>5, <2>6, <2>7 DEF TargetInv
  <1>3. TargetInv => TargetTypeOK
    BY LoopTypesAre, SimTypesAre, RunTypesAre
       DEF TargetInv, TargetTypeOK, BoardTypes, BoardTypeOK
  <1> QED
    BY <1>1, <1>2, <1>3, PTL DEF TargetSpec
=============================================================================
