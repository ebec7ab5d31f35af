-------------------------- MODULE FocMotorCanBridge --------------------------
(***************************************************************************)
(* The motor's end of the CAN bus: FocMotorCanBridge turns each received   *)
(* command into a call of ControlModeStateMachine and answers it.  Of the  *)
(* active machine only the five states are kept (FocStateMachine has the   *)
(* rest); selection, set points and gains are ControlModeStateMachine's.   *)
(***************************************************************************)
EXTENDS Naturals

CONSTANTS Modes   \* a subset of the three control modes

ASSUME ModesAssumption ==
    "torque" \in Modes /\ Modes \subseteq {"torque", "speed", "position"}

VARIABLES
    state,             \* of the active machine
    activeMode,        \* the alternative held by activeSm
    defaultMode,       \* configData.defaultControlMode
    storedMode,        \* what the configuration region holds, or "invalid"
    writing,           \* the mode in the write buffer, "none" if no save runs
    pendingSelect,     \* pendingSelectCallback of the bridge and the coordinator
    pendingSelectMode,
    previousDefault,   \* previousDefaultControlMode
    ackedMode,         \* the mode last answered to a selection, "none" before
    setpoint,          \* the kind of set point given to the active machine
    gains              \* the loops whose gains were set on the active machine

bridgeVars == <<state, activeMode, defaultMode, storedMode, writing,
                pendingSelect, pendingSelectMode, previousDefault, ackedMode,
                setpoint, gains>>
selectVars == <<activeMode, defaultMode, storedMode, writing, pendingSelect,
                pendingSelectMode, previousDefault, ackedMode>>

Loops == {"current", "speed", "position"}

\* The loops of the machine of a mode.
LoopsOf == [torque |-> {"current"}, speed |-> {"current", "speed"},
            position |-> Loops]

BridgeTypeOK ==
    /\ state \in {"Idle", "Calibrating", "Ready", "Enabled", "Fault"}
    /\ {activeMode, defaultMode, pendingSelectMode, previousDefault} \subseteq Modes
    /\ storedMode \in Modes \cup {"invalid"}
    /\ writing \in Modes \cup {"none"}
    /\ ackedMode \in Modes \cup {"none"}
    /\ pendingSelect \in BOOLEAN
    /\ setpoint \in Modes \cup {"none"}
    /\ gains \subseteq Loops

BridgeInit ==
    /\ state = "Idle"
    /\ activeMode = "torque" /\ defaultMode = "torque"
    /\ storedMode = "invalid" /\ writing = "none"
    /\ pendingSelect = FALSE /\ pendingSelectMode = "torque"
    /\ previousDefault = "torque" /\ ackedMode = "none"
    /\ setpoint = "none" /\ gains = {}

Fresh == setpoint' = "none" /\ gains' = {}

KeepController == UNCHANGED <<setpoint, gains>>

Stopped == state \in {"Idle", "Ready"}

\* A command the machine does not accept now changes nothing; the bridge
\* acknowledges it all the same.
Command(accepted, next) ==
    /\ state' = IF accepted THEN next ELSE state
    /\ UNCHANGED selectVars
    /\ KeepController

OnStart == Command(state = "Ready", "Enabled")

OnStop == Command(state = "Enabled", "Ready")

OnClearFault == Command(state = "Fault", "Idle")

OnEmergencyStop == Command(state \in {"Enabled", "Calibrating"}, "Idle")

OnIdentifyElectrical == Command(Stopped, "Calibrating")

\* Telemetry, mechanical identification, encoder resolution and telemetry
\* rate: notImplemented.
OnNotImplemented == UNCHANGED bridgeVars

\* Mutant: a set point goes to whatever machine is active.
SetActive(m) == setpoint' = m

\* TrySetTorque, TrySetSpeed, TrySetPosition: a mismatch is a category error.
TrySet(m) == setpoint' = IF m = activeMode THEN m ELSE setpoint

OnSetSetpoint(m) == TrySet(m) /\ UNCHANGED <<state, selectVars, gains>>

TrySetPidGains(loop) ==
    gains' = IF loop \in LoopsOf[activeMode] THEN gains \cup {loop} ELSE gains

OnSetPid(loop) ==
    TrySetPidGains(loop) /\ UNCHANGED <<state, selectVars, setpoint>>

\* The mode asked for and the one to return to are not read between
\* selections; the model keeps one value of them then.
SelectForgotten ==
    /\ pendingSelect' = FALSE
    /\ pendingSelectMode' = "torque"
    /\ previousDefault' = "torque"

\* Mutant: the byte is taken as it is.
ModeAsStored(raw) == raw

\* ControlModeFromRaw over what LoadConfig returned.
ModeFromRaw(raw) == IF raw = "invalid" THEN "torque" ELSE raw

\* The program ends and boots again; a write may be caught half way.
Reboot ==
    /\ state' = "Idle"
    /\ storedMode' \in IF writing = "none" THEN {storedMode}
                       ELSE {storedMode, "invalid", writing}
    /\ activeMode' = ModeFromRaw(storedMode')
    /\ defaultMode' = ModeFromRaw(storedMode')
    /\ writing' = "none"
    /\ SelectForgotten /\ ackedMode' = "none"
    /\ Fresh

BeginSelect(m) ==
    /\ pendingSelect' = TRUE
    /\ pendingSelectMode' = m
    /\ previousDefault' = defaultMode
    /\ defaultMode' = m
    /\ writing' = IF writing = "none" THEN m ELSE writing
    /\ ackedMode' = "none"
    /\ UNCHANGED <<state, activeMode, storedMode>>
    /\ KeepController

RefuseSelect == ackedMode' = "none" /\ UNCHANGED
    <<state, activeMode, defaultMode, storedMode, writing,
      pendingSelect, pendingSelectMode, previousDefault, setpoint, gains>>

\* On its own a mutant: the assertion is compiled out.
SelectUnlessRunning(m) == IF Stopped THEN BeginSelect(m) ELSE RefuseSelect

\* really_assert(pendingSelectCallback == nullptr) ends the program.
OnSelectControlMode(m) ==
    IF pendingSelect THEN Reboot ELSE SelectUnlessRunning(m)

\* Activate: the old machine is stopped, the new one is built in place.
ActivateNew(m) ==
    /\ state' = "Idle"
    /\ activeMode' = m
    /\ Fresh

\* OnSaveConfigDone(Ok), then the answer of the bridge.
SelectSaved ==
    /\ writing # "none"
    /\ storedMode' = writing
    /\ writing' = "none"
    /\ ActivateNew(pendingSelectMode)
    /\ ackedMode' = pendingSelectMode
    /\ SelectForgotten
    /\ UNCHANGED defaultMode

SelectNotSaved ==
    /\ writing # "none"
    /\ storedMode' \in {"invalid", writing}
    /\ writing' = "none"
    /\ defaultMode' = previousDefault
    /\ SelectForgotten
    /\ UNCHANGED <<state, activeMode, ackedMode>>
    /\ KeepController

\* What the machine does of itself: boot load, end of a calibration, fault.
MachineStep ==
    /\ \/ state \in {"Idle", "Calibrating"} /\ state' = "Ready"
       \/ state' = "Fault"
    /\ UNCHANGED selectVars /\ KeepController

-----------------------------------------------------------------------------

\* The answer to a mode selection is the mode the region holds, up to the
\* next selection and however selections overlap on the bus: the answer,
\* the machine that was built and the byte that was written agree.
AckedModeIsPersisted ==
    ackedMode # "none" => ackedMode = storedMode /\ ackedMode = activeMode

\* Set points and gains are only ever given to a machine that has them,
\* although modes change between sending and receiving: a current never
\* becomes a speed.
ControllerMatchesMode ==
    /\ setpoint \in {"none", activeMode}
    /\ gains \subseteq LoopsOf[activeMode]
=============================================================================
