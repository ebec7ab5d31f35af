# e-foc in TLA+

A formal model of the e-foc motor-control firmware and of the tools beside it:
TLA+ modules of the parts whose behaviour depends on the order of events, TLC
configurations that check them on small instances, and proofs for TLAPS of what
must hold for every instance. Paths below are relative to the repository;
`src/` stands for its root.

## 1. The system

e-foc drives a three-phase motor with field-oriented control. One binary holds
three control modes (torque, speed, position). The operator works over a serial
terminal or over CAN; a test firmware for the boards, a bridge that carries a
board's serial port and CAN bus over TCP, a commander for the CAN bus and
a simulator live in the same repository.

| Component | State it keeps | Operations | What makes it correct |
|---|---|---|---|
| FOC state machine (`core/state_machine/FocStateMachineCommon`, `Outer/Torque/Speed/PositionStateMachine`) | state, calibration step, pending record, record in RAM, pending command callback, last fault | Calibrate, Enable, Disable, ClearFault, ClearCalibration, EmergencyStop, ApplyOnlineEstimates, fault notification, boot check, every service callback | controllers set from the record held; a caller gets one answer that tells the outcome; stopping cuts the PWM; stale callbacks change nothing |
| Control mode selection (`ControlModeStateMachine`) | active machine, default mode, pending selection | Select, completion of the configuration write, boot, set points and gains | active, default and stored mode agree; every request is answered; a set point meets the controller it was meant for |
| CAN bridge (`FocMotorCanBridge`) | pending selection callback | one handler per CAN command | an acknowledgement says what was done |
| Electrical identification (`core/services/electrical_system_ident`) | sweep index, settle timer, two callbacks, sample buffers | pole-pair sweep, resistance and inductance | each request ends in one callback, motor stopped |
| Alignment (`core/services/alignment`) | callback, sample counters | ForceAlignment | the same |
| Mechanical identification (`core/services/mechanical_system_ident`) | callback, timeout, estimator | EstimateFrictionAndInertia | converges or times out, never both |
| Non-volatile memory (`core/services/non_volatile_memory`) | two regions, buffers, one callback per region plus one for the validity query | save, load, invalidate, validity; save, load, reset of the configuration | a record is whole or rejected, through power failures |
| Inverter and sampling (`targets/platform_implementations`, `core/foc/implementations/Runner.cpp`) | outputs, one sampling callback | PhaseCurrentsReady, ThreePhasePwmOutput, Start, Stop | whoever drives the motor has the callback |
| FOC loops (`core/foc/implementations`) | prescaler, two snapshot slots, PID state | enable, disable, 20 kHz interrupt, low-priority interrupt | a snapshot is read whole |
| Post-mortem data (`error_handling_cortex_m`) | record in retained RAM, reset cause | fault handler, report at boot | a half-written record is not reported, a whole one once, as far as the report has room |
| CAN commander (`tools/can_commander`) | open driver, receive thread and queue; busy flag, buttons, answer timer, socket notifiers | connect, fail half way, disconnect, send, answer, time out, heartbeat | nothing outlives the connection; the panel is never locked for good |
| Hardware bridge (`tools/hardware_bridge`) | parser, screen, cells; GUI and connection thread with their slots; TCP clients; two Python servers | bytes, connect, disconnect, send, transfer, stop | any chunking of the stream, any disconnect: nothing repeated, joined or carried over while the server listens |
| Headless bridge client (`tools/hardware_bridge/client/bridge`) | which client connected | run | - |
| Simulator (`tools/simulator`) | driven or not, queued cycle, callback; rings, triggers, windows | start, stop, calibrate, step; push, trigger, re-arm, draw | one carrier; what is drawn is what happened |
| Hardware test firmware (`targets/hardware_test`) | sample queue, PWM, CAN, EEPROM operations, fault report | the terminal's commands, reset, forced fault | what the constructor found is what the terminal tells |
| Hardware-in-the-loop session (`integration_tests/hardware_in_the_loop`) | lines, half a line, prompt seen, CAN queue; open transcripts, GDB script | type, wait, flush, clear, capture; hooks around the run and each scenario | a step reports answers to its own command; a scenario's transcript tells that scenario |
| Online estimators, command-line interface, platform adapters, application wiring | section 7 | | |

How they interact: in the firmware all handlers run on one event loop, one after
another; the sampling interrupt calls whichever callback was registered last.
The state machine calls a service, the service keeps the callback and calls it
when timers, samples or memory operations end, and the callback calls the next
service. Nobody can cancel a service. So most of what can go wrong is a callback
of something aborted that is delivered later, a shared slot (sampling callback,
memory operation, settle timer) taken by somebody else, and a power failure
between two steps of a write. In the enabled motor two interrupts of different
priority share the snapshots.

The tools add threads (the commander's receive thread, the bridge's connection
thread, the executor threads of the Python servers), streams that may be cut
anywhere (TCP, the serial port), answers that come after their timeout, and
a bus and a board that lose what they are sent. `PROJECT.json` lists all these
hazards at their lines, with the properties about them.

## 2. The modules

### The motor

| Module | Models | Correspondence |
|---|---|---|
| `CalibrationRuns` | calibration records | A measured value is told apart only by the calibration run that asked for it: a record maps each of four fields (pole pairs, resistance and inductance, alignment, mechanical) to a run number, 0 being the default-constructed value. A callback slot holds the run that filled it, 0 when it is empty. |
| `ThreePhaseInverter` | outputs and sampling callback | `pwm`: are the outputs driven; `sampler`: who registered the callback; `converting`: a conversion is in flight. The PWM carrier triggers conversions only while `pwm` holds, but `Stop` cancels none: the one in flight is delivered to a stopped inverter, and if the control loop has the samples (`ControlLoopSample`) it drives the outputs again. |
| `ElectricalIdentification` | sweep and resistance measurement | `settleTimer` says for what the one timer is armed, `currentSampleIndex` is the sweep's counter, `TotalSteps` its length. |
| `MotorAlignment` | alignment service | `onAlignmentDone` doubles as the busy flag, as in the code. |
| `MechanicalIdentification` | friction and inertia | converges on a sample or times out. |
| `CalibrationStore` | calibration half of the memory | one operation slot; a request that finds it taken is dropped without an answer, as `NonVolatileMemoryImpl` does. `AfterPowerCycle` is what a power failure may leave. |
| `NonVolatileMemory` | both regions, access by access | one action per request and per callback of `NonVolatileMemoryImpl`; `accesses` is what was asked of the EEPROM and not yet called back, `performed` how much of it is done. `onDone` is the slot of a region, the validity query and the formatting have their own. `Store` maps the calibration half to `CalibrationStore`. |
| `FocStateMachine` | the state machine with all its services | extends the modules above. One action per handler: a service's completion, the machine's callback in it and the service call that callback makes are one step. `mode` and `MechIdent` select the variant. |
| `MotorLifecycle` | abstract specification | what a user relies on: Enabled only from Ready, Ready only with controllers set, one answer per command. |
| `ControlModeStateMachine` | mode selection over the machine | extends `FocStateMachine`: the machines share one address, so a switch keeps the services and the callbacks in flight and replaces the machine's own variables. |
| `FocLoops` | the enabled motor | the two interrupts and the thread, each read of the low-priority handler a step of its own; an angle is the number of the sample that read it, a snapshot that of its publication. |

### The commander

| Module | Models | Correspondence |
|---|---|---|
| `CanAdapter` | `SocketCanAdapter`, `WindowsCanAdapter` | `held` is what a connection has taken of drivers, channels, ports and sockets; `receiver` where the receive thread is; `incoming` the queue, which on Windows survives a disconnect. Every call of an opening sequence may be the one that fails. |
| `FocMotorCanBridge` | the motor's end | one action per command; of the active machine its five states, of the selection the write buffer and the last acknowledged mode. |
| `CanCommander` | window, client, bus and motor | composes the two. One GUI thread; `reading` and `joining` say what a wake-up or a Disconnect still has to do. `bus` holds a command on its way, may lose it, and another master sends too. |

### The hardware bridge

| Module | Models | Correspondence |
|---|---|---|
| `CppInt` | the `int` of the terminal | a sum or a product that leaves it wraps around |
| `Vt100Parser` | byte classes, states, parameters | a record and one operator per handler; the digits of a parameter add up in an `int` |
| `TerminalScreen` | cursor, saved cursor, region, tab stops, pending wrap, scrollback | of the cells only the rows written to; Down and Forward add an `int` to the cursor |
| `Vt100Terminal` | parser's events drawn on the screen, status replies | composes the two. `overflowed`: a sum of cursor and parameter has left the `int`; a behaviour is followed up to there, as the next character would be written outside the grid |
| `TerminalCells` | cells with renditions and the document the widget makes of them | a character is the number of the drawing event that wrote it; colours are numbers. `pen` and `looks` are the history: the look the sender has asked for, and what it was at each drawing event |
| `CanFrame` | the sixteen bytes of a CAN frame | both sides' coding, evaluated on real bytes |
| `TcpClient` | `TcpClientSerial`, `TcpClientCanbus`, and the wire | a frame or a chunk is two halves, because TCP may cut it |
| `BridgeServer` | `serial_server.py`, `can_server.py` | the tasks of a session, the executor thread a cancelled task leaves behind, `stop` in two steps. `Reader` looks up `self._reader` for each read, as both tasks do: `source` is the reader a read waits on, `buffer` what has been read and not sent |
| `BridgeController` | window and connection thread | the two send slots, Qt's event queue, the dispatcher's queue |
| `HardwareBridge` | all of it | `part` chosen in `Init` |

### Test firmware, session, simulator

| Module | Models | Correspondence |
|---|---|---|
| `FaultRecord` | `HardFault_Handler_C`, constructor of the platform | a step per store group; a reset of any cause between the steps. A record is the frame and the trace, the trace a number of addresses: `MaxStackTraceEntries` fit the record, `Room` the report |
| `HardwareTestTerminal` | commands of the test firmware | sample queue at its limit, PWM, CAN, EEPROM answers |
| `TestBoard` | the board | composes the two: every reset takes the terminal's memory |
| `HilSession` | `BridgeSession`, `TypingTransmitter` | a call at a time, byte by byte; the board is external and may be late or silent |
| `HilRun` | hooks of a test run, `SerialLogger` | flash over GDB, connect, bring the board to its prompt around each scenario. `transcript` counts the lines each file has of each scenario. One thread; what the runner does after a throw is external |
| `Simulator` | `Model`, control panel, identifications | `cycles` counts the queued cycles, `cycleScheduled` is the code's own flag |
| `Scope` | `ScopeWidget`'s ring, trigger, toolbar, window | a sample is its number and whether it is below the level |
| `HardwareTarget` | all of these and `FocLoops` | `part` chosen in `Init` |

`HardwareBridge` and `HardwareTarget` let a behaviour follow one `part`. The
stages of the bridge pass bytes and frames on but share no state, and a stage is
given any input the stage before can produce; the programs of `HardwareTarget`
do not run together at all. A product of them would only multiply states.

### Proofs and instances

`FocStateMachineProofs`, `ControlModeProofs`, `NonVolatileMemoryProofs`,
`CommanderProofs`, `BridgeProofs`, `FramesProofs` and `TargetProofs` are section
5, with `DataLemmas` on sequences and on least and greatest members. `MCFocStateMachine`,
`MCControlModeStateMachine` (wirings of the modes), `MCNonVolatileMemory`
(records), `MCCanCommander` (modes, interfaces, commands), `MCHardwareBridge` and
`MCHardwareTarget` are the instances for TLC.

Variables carry the names of the code's members. History only, read by no guard but a bound:
`run` counts calibrations, `answer` (`selectAnswer`) is the last result passed to
a caller, `applied` the record the controllers were set from; `taken` of a
reader, `shared` of the server, `pen` and `looks` of the cells, `overflowed`, `found`, `recorded`, `told` and `lost` of faults; `sends` and `handed` of the
window; `heard` of the parser; `fired` of a scope; `since`, `quiet` and `captured`
of a session.

What the models take as one step or leave out:

- Rejected commands of the state machine answer their caller and change nothing;
  they have no action there, and their refusals are in `FocMotorCanBridge`.
- A handler is atomic. A completion in the sampling interrupt that preempts a
  handler before its `Stop` is the same as one before the handler; the sample of
  a conversion in flight comes after the handler, and not between its `Stop` and
  its change of state. Of the samples a service only counts, none is a step while
  conversions follow each other. The exceptions are split: `FocLoops`,
  `FaultRecord`, the threads of the commander and of the bridge.
- A call of a callback that has been reset ends the program
  (`infra::Function` asserts), and so does `really_assert`. A behaviour of the
  model then has no next step of that kind: the guard stands for the assertion.
- Whether a measurement succeeds, an estimator converges, and whether
  a read-back matches, are free choices.
- Invalidation may fail, because the state machine handles that answer.
  `NonVolatileMemoryImpl` itself always answers Ok.
- A record in the EEPROM is whole, `Torn` (whatever magic, version or CRC reject)
  or `Blank`. A write or a read may go wrong, an erase may not: the device
  reports no status and the code does not read an erase back. A request that
  finds its slot taken has no step, as it changes nothing.
- After a power cycle `run` keeps counting, so records written before are told
  apart from later ones.
- The tasks of the server give way to each other only where they await. The model
  has other steps also between a read that ends inside a frame and the next look-up
  of the reader, which is more than the loop does, and it reads whole halves.
- Remote and error frames are not marked on the bridge's bus: `CanFrame` codes
  data frames.

## 3. The runs

All constants are in the `.cfg` files. `MaxRuns = 2` lets callbacks of an aborted
run meet the next one, which is what every staleness question needs; a third
run only repeats the pair. `TotalSteps = 2` has one timer event between two
angles and one after the last. `FaultCodes` has one member besides the machine's
own codes, because no handler branches on the code.

| Run | Checks | Shows |
|---|---|---|
| `safety` | `TypeOK`, `TunedToRecord`, `PendingMatchesState`, `OwnMeasurementsOnly`, `StoredIsOneCalibration`, `DriveHasAnEnd`, `LeavingCutsPwm`, `AnswersTellOutcome`, `StaleDriveEnds`, `ImplementsLifecycle` | Two runs in each mode, override estimator for position control as in the tests, every disturbance at every point. The machine never mixes the measurements of two runs, applies what it holds, answers once and truthfully, and refines `MotorLifecycle`. |
| `liveness` | `CalibrationEnds` | Undisturbed, a calibration ends, in each mode of the shipped wiring (position control has no estimator there and faults). |
| `select` | `SelectTypeOK`, `ActiveIsDefault`, `AcknowledgedModeIsStored`, `SelectIsAnswered` | Mode switches in between: the successor of a destroyed machine receives its callbacks. One run suffices, since a mode switch already produces the stale callbacks. That the machine's own properties survive a switch is proved (section 5). |
| `nvm` | `TypeOK`, `AnswersMatchRegion`, `ValidIsCurrent`, `OperationsEnd`, `ImplementsStore` of `NonVolatileMemory` | Whatever is requested together, and whatever goes wrong or loses power in between, an answer agrees with the region, every operation ends, and the state machine's view of the memory is sound. `MaxPending = 3` puts an operation, a validity query and a formatting or configuration access in flight at once; one configuration is enough, as no callback looks at its value, and two calibrations tell an overwritten buffer. |
| `commander` | `CommanderTypeOK`, `DriverLifetime`, `CommandsNeedConnection`, `BusyIsTimed`, `AckedModeIsPersisted`, `ControllerMatchesMode` | Each of the four adapters, connected, failing at any call and disconnected under its receive thread; commands refused, lost, repeated and never answered; a second master. Two modes are enough, as a switch is between two. `MaxFrames = 1` in the queue and `MaxNotifiers = 1` left behind: the hazard is the first frame of an old connection, and a second only makes it happen twice. The commands chosen for the panel and for the other master together are one of each kind. |
| `bench` | `BridgeTypeOK`, `SequencesStandAlone`, `WrapIsFresh`, `ShownAsDrawn`, `SendsStayOnTheirConnection`, `CompletionsAreKept`, `FramesArriveInOrder` | The stages of the bridge. Three rows have a first, a middle and a last, so that a region differs from the screen; two columns have a last one, with one line of scrollback. Five drawing events can style, save, fill, wrap, scroll, restore and redraw; five bytes reach every state of the parser and abandon it, and a second digit may leave the `int`, whose greatest number here is 7, above every row and column. The largest and the smallest `int` are parameters too; mode 20 and the codes of colours, which a real `int` holds, are used as they are. Two connections of the window with three sends, and two clients with two items or frames in halves, have everything left of a first one meet the second, also when the server is stopped in between. About two minutes. |
| `target` | `TargetTypeOK`, `SnapshotsAreWhole`, `FaultsAreToldOnce`, `OneCarrier`, `DrawsTheTrigger`, `ReportsOwnAnswer`, `TranscriptsAgree` | The programs around the target. A publication every second sample and seven samples let three publications overtake one handler; two faults and two resets put a reset, or a fault, between any two steps of the record of another; stacks of one address and of three, a record with place for two and a report for one are within and beyond both limits. A queue of one sample overflows, six samples wrap a ring of four, seen through a window narrower and one wider than it. Simulations of one, of three and of unlimited cycles. Two lines typed: the late answer to the first, and the echo of either, meet the second. Two scenarios: the second meets what a hook or step of the first left open when it threw. Between two and three minutes. |
| `stale_save`, `control_loop`, `fault_pwm`, `retry`, `enabled_switch` | one property each, violated | section 6 |

`CommandsAfterBoot` restricts commands to the time after the boot load where a
run asks about something else. Deadlock is checked in all runs but `bench` and
`target`, whose programs end (a server that was stopped, a window that closed)
or use up the bounds of their input; in the others a power cycle, a command or
a connection is always possible.

### Fairness

Weak fairness of the completions and of the sampling only: an armed timer fires, a
memory operation ends, conversions follow each other and are delivered while the PWM
is on, and a measurement or an alignment has counted enough of them some time.
The event dispatcher runs every scheduled handler, timers are hardware, and the
alignment has a sample limit. Nothing is assumed about commands, faults and
power cycles. `CMFairSpec` needs the end of the configuration write alone, and `FairSpec` of
`NonVolatileMemory` that the EEPROM performs what was asked and calls back, in
the order of the requests. The tools claim no liveness: the bus, the network and
the board may stay silent, and what the code has against that are timeouts, on
which `BusyIsTimed` and `ReportsOwnAnswer` say what is needed.

`StaleDriveEnds` and `DriveHasAnEnd` are about the services. They are not claimed while
the control loop has the samples: a conversion in flight at `Stop` makes it drive the
outputs again, and that triggers the next one (section 6). Nor are they
where the speed machine's own estimator is used. Its timeout replaces the sampling callback whoever owns it by then
(`MechanicalParametersIdentificationImpl.cpp:43`), and may take it from a stale
alignment that would have stopped the motor.

## 4. Properties worth knowing

- `TunedToRecord`: in Ready and Enabled the controllers are set from the record
  in RAM. The boot load writes that record in any state, and an invalidation
  clears it; the property says neither can happen under a machine in use.
- `OwnMeasurementsOnly`: a calibration works on values of its own run only,
  although callbacks of aborted runs are delivered to it.
- `StoredIsOneCalibration`: the region holds nothing or one whole calibration.
  A stale save is harmless for it, since the record was copied when it began.
- `AnswersTellOutcome`: ok means the calibrated (or cleared) state *and* memory.
- `ValidIsCurrent`: the validity query reads into the buffer that loads and saves
  use. It is right all the same, because the device calls back in order, so that
  each callback finds what its own or a later read left.
- `ImplementsStore`: the run `safety` uses the memory through `CalibrationStore`;
  `nvm` shows that the accesses of a save never show more than that.
- `DriveHasAnEnd`: a service that drives a motor which is not enabled has a timer
  or a sampling callback that ends it, with somebody to report to: an aborted step
  may switch the outputs on again (finding 3), never for good, and no sample of a
  motor that a service drives finds the resistance callback reset. For the control
  loop there is no such end (section 6), and the property excepts it.
- `ImplementsLifecycle`: every step of the machine is a step of `MotorLifecycle`
  or changes nothing a user sees.
- `SnapshotsAreWhole`: the two slots are enough as long as the handler is
  overtaken by at most one publication, whose slot is the other one. The comment in
  `FocWithSpeedLoop.hpp:71` promises it "regardless of when preemption occurs";
  the second publication fills the slot being read.
- `FaultsAreToldOnce`: the magic word is cleared first and set last, so a reset
  inside the handler leaves the record invalid; and the constructor clears it only
  after it was formatted. What it tells is of one fault: the frame, and as many
  addresses as were found, unless the record or the report was full (section 6).
- `DriverLifetime`: whichever call of an opening sequence fails, nothing stays
  held, and the receive thread is joined before its driver goes.
- `AckedModeIsPersisted`: selections of two masters overlap; the one that is
  answered is the one stored and built.
- `SendsStayOnTheirConnection`: the one-place slots between the threads may lose
  a send to the next one; they never repeat a serial chunk or carry it to the next connection.
  A CAN frame may be handed over twice (section 6), which the property allows.
- `CompletionsAreKept`: of all sends one completion may be forgotten, that queued
  in a serial client that is destroyed before it connected.
- `FramesArriveInOrder`: whichever client breaks off inside a frame, halves of two
  frames are never joined. A frame passes at most once, with its identifier,
  length and data, and what one client sends passes in order, as long as no session
  began beside the tasks of another (`shared`). While the server listens none does;
  once `stop` has freed the slot one may, and then it does go wrong (section 6).
- `BridgeTypeOK`: the cursor is on the screen after whatever has been drawn, up to
  the first sum of cursor and parameter that leaves the `int` (section 6).
- `ShownAsDrawn`: the terminal's document is rebuilt from the cells after each
  chunk. Each of its characters has the look its sender had asked for when it was
  drawn, which the model keeps beside the cells, so that a scroll, an erasure or a
  restore that loses a rendition is seen.
- `SequencesStandAlone`, `WrapIsFresh`: what is on the screen depends on what was
  drawn, never on where a chunk ended or a sequence was abandoned.
- `OneCarrier`: the simulated motor keeps itself going by queueing its next
  cycle; start, stop and calibration inside a cycle never queue a second one.
- `DrawsTheTrigger`: a window of consecutive samples, none of them overwritten; and
  a single shot that is done keeps drawing the sample that triggered it, until the
  trigger is changed.
- `ReportsOwnAnswer`: a test step reports whole lines the board said about its own
  lines, and `SendSerial` answers only, without the echo of its command, unless
  something was on its way when it cleared what it had: nothing in the code tells
  a late answer from its own. `FlushAndAccumulate` keeps the lines it finds, so
  after a `SendSerial` that timed out it may report that one's echo.
- `TranscriptsAgree`: a scenario's file has what the session's has of that scenario
  and nothing of the one before, whose file stays open when its last hook throws.

## 5. The proofs

Every safety property of the passing runs is a theorem: it holds for every value of
the constants that the named assumptions of the modules allow. These ask for counters and bounds that are naturals (`HeardAssumption`,
`DrawnAssumption`, `FaultAssumption`, `FramesAssumption`, `NotifiersAssumption`,
`ScenariosAssumption`, ...), for a sweep of at least one step (`SweepAssumption`),
an `int` that holds 7 (`IntAssumption`), a screen of two rows and a column at least
that the `int` can number (`ScreenAssumption`), and for values that
are told apart (`BlankAssumption`, `ContentsAssumption`, `ModesAssumption`). Each
theorem has an inductive invariant that is stronger than the property:

| Theorem | Property | Invariant and argument |
|---|---|---|
| `FocStateMachineProofs!TypeCorrect` | `TypeOK` | `TypeInv` = the booleans, then three groups of variables (motor, store, machine). `TypeOK` alone is not inductive: the sweep's counter stays in range only because an armed timer implies an angle is left. |
| `AppliedRecordIsHeld` | `TunedToRecord` | needs `NoLoadUnderfoot`: in Ready and Enabled no load is in flight. A load is requested in Idle only, and both ways into Ready release the slot they share with it. |
| `CallerWaitsWhileCalibrating` | `PendingMatchesState` | inductive as it stands. |
| `StoppingCutsPwm` | `LeavingCutsPwm` | one case per handler; no invariant needed. It is about the step itself: what a later sample does to the stopped outputs is section 6. |
| `CalibrationsDoNotMix` | `OwnMeasurementsOnly` | `OwnData`: a step in progress has this run's callback in the slot its answer comes from, and the fields of the earlier steps filled by it. The alignment may find its service taken by an aborted run, but then its samples do not reach the service: the invariant relates the sampling callback to the slot. |
| `RegionHoldsOneCalibration` | `StoredIsOneCalibration` | `MeasurementInv` = `OwnData`, `SavingIsWhole` and the property: what a save writes was copied from a whole record when it began. |
| `DrivesAreEnded` | `DriveHasAnEnd` | `DriveInv`: an armed settle timer means that no service has the samples and that its callback is set (`Armed`). So a timer never takes a measurement's callback away, a measurement never overwrites a timer, and every handler that empties a callback slot cuts the outputs or hands them on. A sample that ends nothing changes only what the control loop drives (`SamplingDrives`). |
| `LifecycleImplemented` | `ImplementsLifecycle` | refinement: one step per handler, mapped to a step of `MotorLifecycle` or to none, from `TypeInv`, `TunedInv` and `PendingMatchesState`. |
| `AnswersAreTrue` | `AnswersTellOutcome` | the same invariant; handlers that answer nothing by one lemma, the others each. |
| `ControlModeProofs!DefaultNamesTheMachine`, `OkMeansStored` | `ActiveIsDefault`, `AcknowledgedModeIsStored` | `RollbackNamesActive`: while a write is in flight the default is the mode asked for, and the value a failed write returns to names the active machine. |
| `SelectTypeCorrect`, `AppliedRecordIsHeldInEachMode`, `SwitchingCutsPwm`, `CallerWaitsInEachMode`, `AnswersAreTrueInEachMode` | `SelectTypeOK`, `TunedToRecord`, `LeavingCutsPwm`, `PendingMatchesState`, `AnswersTellOutcome` | under `CMSpec`, with mode switches: the machine's own steps by the lemmas of `FocStateMachineProofs`; new is the machine built in place of another, which inherits callbacks but neither record nor caller. |
| `LifecycleImplementedInEachMode` | `ImplementsLifecycle` | refinement again, by the machines of all modes in turn: a selection that takes effect is a `PowerCycle` of `MotorLifecycle`. |
| `CalibrationsDoNotMixInEachMode`, `RegionHoldsOneCalibrationOfAMode` | `OwnMeasurementsOnly`, - | `OwnData` survives a switch, which ends any calibration. A save may outlive its machine, so the region's record may be of another mode than the active one: the lemmas of `RegionHoldsOneCalibration` are about a set of modes, there the active one and here all. |
| `DrivesAreEndedInEachMode` | `DriveHasAnEnd` | `DriveInv`: a switch leaves the settle timer armed and the samples to the control loop; the estimator whose timeout could interfere dies with the machine that owns it. The property is about what happens after a service has taken the samples again. |
| `NonVolatileMemoryProofs!MemoryTypeCorrect`, `OkAgreesWithRegion`, `ValidIsNotStale` | `TypeOK`, `AnswersMatchRegion`, `ValidIsCurrent` | `NvmInv`: each access in flight belongs to a slot held for it and a slot has one (`QueueInv`); a read that nothing but reads followed has its region, or a wrong read, in the buffer (`Fresh`); what a save or an erase has left so far (`Landed`); what the users count on (`HeldFits`). |
| `StoreImplemented` | `ImplementsStore` | refinement of `CalibrationStore` from `NvmInv`, one step per callback. |
| `CommanderProofs!NothingOutlivesTheConnection`, `ButtonsNeedConnection`, `LockedPanelIsTimed` | `DriverLifetime`, `CommandsNeedConnection`, `BusyIsTimed` | `ConnectionInv`: what the window has under way (buttons, a wake-up, a socket's frame) ends with the connection, and Linux has no thread. |
| `CommanderTypesAreKept` | `CommanderTypeOK` | `AdapterTypes`, `QueueTypes`, `WindowTypes` and `MotorTypes`, inductive together: an enqueued frame finds room, and only a reconnection leaves a notifier behind. |
| `AnsweredModeIsStored`, `SettingsFitTheMachine` | `AckedModeIsPersisted`, `ControllerMatchesMode` | `BridgeInv`: a pending selection is what is being written, and the last answer has been forgotten by then. |
| `BridgeProofs!SendsAreNotCarriedOver` | `SendsStayOnTheirConnection` | `SlotInv`: lambdas exist only while the network does, what they will find in a slot is of the present connection, what was handed over is older than what the slot holds. |
| `CompletionsAreCalled` | `CompletionsAreKept` | `CompletionInv`: a client holds a send in one place; the forgotten sends are counted against the destroyed clients, each of which can add one. |
| `PendingWrapIsFresh` | `WrapIsFresh` | `Sound`: the fields of the screen are in their ranges, and a wrap is pending in the last column of a written row only. One lemma per operator of the screen says it keeps `Sound`; of Down and Forward as long as the sum fits the `int`. `Followed`: after a sum that did not, the cursor is outside (`Astray`), with no wrap pending. |
| `SequencesAreOnTheirOwn` | `SequencesStandAlone` | `ParserInv`: the parser goes on like one that was fed only with the bytes since the last ESC (`Follows`), and had the same event. The two may differ in parameters nobody reads again, and in the ESC that ends a string. |
| `FramesProofs!FramesKeepTheirOrder` | `FramesArriveInOrder` | `FramesInv`: `SentInv` follows a client's items along what it holds, its socket, the server's buffer and the hardware, where buffer and socket are one `Stream`; `GotInv` follows a frame from the bus through a read, even one whose session was cancelled, to a client. `SlotTypes`: while the server listens, whoever runs or ends has the slot, so no session begins beside another; and without that each waits on its own reader (`Alone`). |
| `CodingIsLossless` | - | client and server read each other's frames, for every identifier, format and length; arithmetic of the four identifier bytes. |
| `BridgeTypesAreKept` | `BridgeTypeOK` | `TypesInv`, of all parts: what a client holds has not been called back and no other client holds it (`CalledOnce`); the window offers to connect only without a thread (`WindowFitsThread`); a region of two rows at least, by `SameRegion` for all but two operators; a row with a character is one the screen counts (`Agree`). |
| `DocumentShowsCells` | `ShownAsDrawn` | `CellsTypeOK` and, cell by cell, `Neat`: the runs of a document follow each other within its text, so two never cover one place. A document that is drawn on keeps every line break and every place shown before (`KeptIn`, `ShowsAt`); so row i of the document begins after its break (`Lines`, `StartIs`). Which cells of a row and which rows have been drawn is argued by the least counterexample. `LooksKept`: the terminal's rendition and the saved one are those the sender has asked for, and every character in the grid and in the scrollback has the look of its drawing event. |
| `TargetProofs!EstimatorsReadWholeSnapshots` | `SnapshotsAreWhole` | `ReaderIsBehind`: up to one publication after it was taken, a reader's slot is the published one or the other one, as the publications since tell. |
| `FaultsToldOnce` | `FaultsAreToldOnce` | `FaultInv`: a record being written is invalid; a valid one is the last finished and untold; the constructor tells the one it found; a finished trace has the addresses found, as far as the record has place (`TraceKept`). |
| `OneCycleIsScheduled` | `OneCarrier` | `CarrierInv`: the flag counts the queue, a driven carrier has a cycle, the panel's mode follows the motor. |
| `TranscriptsTellTheSame` | `TranscriptsAgree` | `TranscriptInv`: a file that is open while a scenario runs is that scenario's (`OpenIsOwn`), and of scenarios to come nothing is told (`LinesAgree`). |
| `ScopeDrawsTheTrigger` | `DrawsTheTrigger` | `ScopeInv`: the ring has the last samples, in order (`LastSamples`), and the sample that ended a single shot is the last of them and crosses the level (`ShotIsLast`), so that the search finds it first. |
| `CallsReportTheirOwn` | `ReportsOwnAnswer` | `SessionInv`: since a quiet clear, wire, half line and lines together are what the board said about the lines typed since, piece by piece (`HeardWhole`); frames on the bus and in the queue are of the capture (`CanInv`). `EchoInv`: while `SendSerial` waits for its reply only its own line has been said anything about, and the echo of it can only be the first line, where `DropEcho` looks for it. |
| `TargetTypesAreKept` | `TargetTypeOK` | `TargetInv`, the invariants above with the types they do not mention. |

The services' steps are treated together where they can be (`MeasurementSteps`:
whatever the identification services do, they leave the applied record alone and
change the state only from Calibrating to Fault with the outputs off). Likewise
the parts of `TargetProofs` and `BridgeProofs` begin with a lemma that the steps
of the other parts leave their variables alone.

Only model-checked:

- liveness (`CalibrationEnds`, `StaleDriveEnds`, `SelectIsAnswered`,
  `OperationsEnd`), which the installed provers cannot do. `DriveHasAnEnd` is the part
  of `StaleDriveEnds` that is about single states: whoever drives the motor has its
  end registered. That the end comes needs the fairness;
- that the violations of section 6 occur, which is TLC's to show.

Where an operator is a recursive function over positions (`Feed` of the parser,
`after` in `ApplySgr` and `AppendRow`, `upTo` in `Render`), the proofs argue by its
least counterexample, which exists as the order of the naturals is well founded
(`DataLemmas`). A fold of the community modules has no positions to argue about.

## 6. Where code and documents disagree

1. `stale_save` - the save callback of an aborted run ends a later calibration
   with that one's half-measured data (`FocStateMachineCommon.cpp:286`).
2. `control_loop` - after a calibration in the same session the control loop is
   no longer registered with the sampling interrupt (`Runner.cpp:10`).
3. `fault_pwm` - a settle timer that survives a fault drives the outputs again
   (`ElectricalParametersIdentificationImpl.cpp:174`).
4. `retry` - an alignment cut off by a fault blocks all later ones
   (`MotorAlignmentImpl.cpp:26`).
5. `enabled_switch` - a mode selection switches a motor that was enabled during
   the configuration write (`ControlModeStateMachine.cpp:47`).

`PROJECT.json` quotes what the documents say. The following were met while
modelling and have no run of their own.

In the firmware:

- `Stop` does not cancel a conversion in flight, and the control loop's callback
  drives the outputs unconditionally (`Runner.cpp:14`), a stopped inverter's too: a
  motor that was enabled after a boot load, and is then disabled, faulted or
  stopped in an emergency at that moment, is driven on, with its controllers
  disabled, in Ready, Fault or Idle; `documentation/design/state-machine.md:339` has it
  "stopped immediately". The model shows it (`ControlLoopSample` after any `Stop`);
  `fault_pwm` finds the shorter way by the settle timer.
- `documentation/design/service-nvm.md:142` says that a request which finds its
  region busy is answered with an error at once; `NonVolatileMemoryImpl.cpp:56`
  drops it without an answer, as its unit tests expect. A CmdClearCalibration sent
  during the boot load therefore stays unanswered until an emergency stop or a
  fault aborts it.
- `documentation/design/state-machine.md:271` has a second Select answered busy;
  `ControlModeStateMachine.cpp:29` asserts that none comes. The CAN bridge, the
  only caller, keeps it from happening.
- `FocWithSpeedLoop.hpp:71`: the comment about torn reads (section 4).
- `NonVolatileMemoryImpl.cpp:154`: an invalidation answers ok without reading back.
- `FaultHandler.cpp`: the order of its plain stores, on which the record's validity
  rests, is the compiler's choice. The model has the order of the source.
- `PersistentFaultData.cpp:46`: the report of a fault is cut off without a word when
  its 1024 characters are full. A record has place for 243 addresses, the report for
  about 68 of eight digits; the rest is never told, since the record is invalidated.
- A measured number of pole pairs is narrowed to eight bits
  (`FocStateMachineCommon.cpp:215`).
- OnStart and OnStop of the CAN bridge are acknowledged whatever became of them.

In the tools:

- Commander: an accepted command clears the busy flag before its answer timer is
  started, so two seconds later the log says "TIMEOUT: No response received" even
  if the answer came (`MainWindow.cpp:74`). The buttons, the emergency stop among
  them, are locked while a refused command waits for that timer. The mode label
  changes with the request, not with its acknowledgement. PID gains are scaled by
  `focPidScale` and not divided on the motor.
- Bridge window: the CAN slot is not cleared, so a frame may be sent twice; a
  dispatcher that has just been destroyed may be asked to schedule
  (`BridgeController.cpp:192`).
- Terminal: the digits of a parameter add up in an `int` without a limit
  (`Vt100Parser.cpp:342`), and the sequences B, C and E add it to the cursor
  (`TerminalScreen.cpp:251`, `:259`): from the second row ESC[2147483647B leaves the
  `int`, and where it wraps around the cursor is above the screen, which the next
  character is written to. What is undefined in C++ wraps around in the model.
- Terminal: inverse video with default colours looks like normal text; the widget
  ignores the application cursor keys the terminal records.
- Server: `stop` frees the slot while the tasks of the old session run and the port
  still accepts. A task looks up its reader before every read (`can_server.py:286`,
  `serial_server.py:169`), so it goes on with the next client's bytes and joins
  their beginning to the half frame it holds.
- Server: the blocking read of a cancelled session takes the next frame of the
  bus with it (`can_server.py:276`); the docstring's error bit (`can_server.py:5`)
  is not the one of the code (`can_server.py:84`).
- Session: completions of sends refer to the caller's variables and may be called
  after a timeout has left it (`BridgeSession.cpp:397`).
- Simulator: Stop and Start again run the motor without its controller; the
  mechanical identification has no samples; pole pairs are identified even when
  resistance and inductance were not. A scope does not remember the first
  sample after a clear, so the trigger compares the second with zero.

## 7. What is left

Of the plan of the first version everything is modelled; handlers preempted by
the sampling interrupt are not split (section 2). What further work could add:
a composition of `FocLoops` with the state machine.

Not modelled:

- floating-point arithmetic: transforms, modulation, PID, recursive least squares
  with the online estimators (their use is `ApplyOnlineEstimates`), the simulated
  motor's equations. TLC has no such numbers, and abstracted they are free choices;
- parsing and printing: the command-line interface of the firmware, and the test
  firmware's ConfigurePid, SetMotorParameters and SimulateFoc, which set
  parameters and print the numbers computed from them;
- graphical layout, key presses, parameter panel and painting; log files;
- the headless bridge client, a loop around the modelled clients whose only state
  is which of them connected;
- the steps of the integration tests, which are tests;
- peripheral set-up by the platform factories, LED and banner: register writes
  and calls without control of their own;
- external libraries (event dispatcher, timers, callbacks, CAN protocol, drivers,
  Qt, asyncio), which are modelled where they are used.
