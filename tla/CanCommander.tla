---------------------------- MODULE CanCommander ----------------------------
(***************************************************************************)
(* The CAN commander and the motor it talks to: the window with its        *)
(* buttons, timers and socket notifiers, CanCommandClient between them and *)
(* the adapter, a bus that loses frames, and the motor's bridge.           *)
(*                                                                         *)
(* The GUI is one thread: `reading' counts the calls of ProcessReadEvent   *)
(* (Linux) or the queued events (Windows) the current wake-up still has to *)
(* handle, `joining' says what follows the join in Disconnect.             *)
(***************************************************************************)
EXTENDS CanAdapter, FocMotorCanBridge

CONSTANTS
    Buttons,        \* commands of the panel
    OtherCommands,  \* commands of another master, answered to that one
    MaxNotifiers    \* bound on the socket notifiers left behind

ASSUME NotifiersAssumption == MaxNotifiers \in Nat

VARIABLES
    busy,           \* CanCommandClient::busy
    online,         \* the protocol client has heard of the motor lately
    enabled,        \* the command buttons
    shown,          \* the panel says "Connected"
    page,           \* SetActiveControlMode: whose set points can be entered
    timeoutTimer,
    leaked,         \* notifiers replaced without being deleted
    reading,
    joining,        \* "no", "disconnect" or "connect"
    bus             \* the command on its way to the motor, or "none"

guiVars == <<busy, online, enabled, shown, page, timeoutTimer, leaked,
             reading, joining>>
commanderVars == <<adapterVars, bridgeVars, guiVars, bus>>

SelectCommand == [torque |-> "selectTorque", speed |-> "selectSpeed",
                  position |-> "selectPosition"]
SetpointCommand == [torque |-> "setTorque", speed |-> "setSpeed",
                    position |-> "setPosition"]
PidCommand == [current |-> "currentPid", speed |-> "speedPid",
               position |-> "positionPid"]

CommanderTypeOK ==
    /\ AdapterTypeOK /\ BridgeTypeOK
    /\ {busy, online, enabled, shown, timeoutTimer} \subseteq BOOLEAN
    /\ page \in Modes
    /\ leaked \in 0 .. MaxNotifiers
    /\ reading \in 0 .. MaxFrames + MaxNotifiers + 1
    /\ joining \in {"no", "disconnect", "connect"}
    /\ bus \in Buttons \cup {"query", "none"}

CommanderInit ==
    /\ AdapterInit /\ BridgeInit
    /\ busy = FALSE /\ online = FALSE /\ enabled = FALSE /\ shown = FALSE
    /\ page = "torque" /\ timeoutTimer = FALSE
    /\ leaked = 0
    /\ reading = 0 /\ joining = "no" /\ bus = "none"

\* The event loop takes the next event.
Dispatching == reading = 0 /\ joining = "no"

-----------------------------------------------------------------------------
(* Observer calls from the adapter and from the client to the window.      *)

\* Mutant: the buttons come back whatever became of the connection.
EnableWhenIdle(open) == enabled' = TRUE

\* OnBusyChanged(false): only with an open adapter.
EnableButtons(open) == enabled' = open

\* The window reads while it says "Connected": rxPollTimer runs, or
\* socketNotifier is set.  SetupSocketNotifier makes a new notifier although
\* there may be one.
SetupSocketNotifier ==
    leaked' = IF shown /\ platform = "linux" /\ leaked < MaxNotifiers
              THEN leaked + 1 ELSE leaked

\* Telemetry is asked for without becoming busy.
RequestData == bus' \in IF bus = "none" THEN {"none", "query"} ELSE {bus}

OnConnected ==
    /\ shown' = TRUE /\ enabled' = TRUE
    /\ SetupSocketNotifier
    /\ RequestData

OnDisconnected ==
    /\ shown' = FALSE /\ enabled' = FALSE
    /\ UNCHANGED <<leaked, bus>>

-----------------------------------------------------------------------------
(* What the user does.                                                     *)

OnConnect ==
    /\ Dispatching /\ ~shown /\ ~MustJoin
    /\ IF IsConnected THEN Disconnect /\ joining' = "connect"
                      ELSE Connect /\ UNCHANGED joining
    /\ IF IsConnected' THEN OnConnected
       ELSE IF IsConnected THEN OnDisconnected
       ELSE UNCHANGED <<shown, enabled, leaked, bus>>
    /\ UNCHANGED <<bridgeVars, busy, online, page, timeoutTimer, reading>>

\* Disconnect, or Connect while the adapter is still open, with a thread to
\* stop: the GUI waits in join.
StopThread ==
    /\ Dispatching /\ MustJoin
    /\ AskThreadToStop
    /\ joining' = IF shown THEN "disconnect" ELSE "connect"
    /\ UNCHANGED <<bridgeVars, busy, online, enabled, shown, page, timeoutTimer,
                   leaked, reading, bus>>

ThreadJoined ==
    /\ joining # "no" /\ MustJoin
    /\ Disconnect
    /\ OnDisconnected
    /\ joining' = IF joining = "connect" THEN "connect" ELSE "no"
    /\ UNCHANGED <<bridgeVars, busy, online, page, timeoutTimer, reading>>

Reconnect ==
    /\ joining = "connect" /\ ~MustJoin
    /\ Connect
    /\ joining' = "no"
    /\ IF IsConnected' THEN OnConnected
                       ELSE UNCHANGED <<shown, enabled, leaked, bus>>
    /\ UNCHANGED <<bridgeVars, busy, online, page, timeoutTimer, reading>>

OnDisconnect ==
    /\ Dispatching /\ shown /\ ~MustJoin
    /\ Disconnect
    /\ OnDisconnected
    /\ UNCHANGED <<bridgeVars, busy, online, page, timeoutTimer, reading, joining>>

\* The set points and gains on the visible page, and the buttons on all.
Offered ==
    LET hiddenSetpoints == {SetpointCommand[m] : m \in Modes \ {page}}
        hiddenPids == {PidCommand[l] : l \in Loops \ LoopsOf[page]}
    IN Buttons \ (hiddenSetpoints \cup hiddenPids)

ShowPageOf(command) ==
    page' = IF \E m \in Modes : command = SelectCommand[m]
            THEN CHOOSE m \in Modes : command = SelectCommand[m] ELSE page

\* Sent, or lost on a full bus or to another node than the motor's.
Transmit(command) ==
    \/ MaySend /\ bus = "none" /\ bus' = command
    \/ UNCHANGED bus

\* An accepted command clears the flag in the same call, a refused one
\* leaves it to the timeout; the timer is started after either.
Accepted(command) ==
    /\ Transmit(command)
    /\ busy' = FALSE
    /\ EnableButtons(IsConnected)

Refused ==
    /\ busy' = TRUE
    /\ enabled' = IF busy THEN enabled ELSE FALSE
    /\ UNCHANGED bus

Click(command) ==
    /\ Dispatching /\ enabled
    /\ Accepted(command) \/ Refused
    /\ timeoutTimer' = TRUE
    /\ ShowPageOf(command)
    /\ UNCHANGED <<adapterVars, bridgeVars, online, shown, leaked,
                   reading, joining>>

Query ==
    /\ Dispatching /\ enabled
    /\ RequestData
    /\ UNCHANGED <<adapterVars, bridgeVars, guiVars>>

-----------------------------------------------------------------------------
(* What the event loop and the other threads do.                           *)

\* Mutant: the timeout is only logged.
LogOnly == UNCHANGED <<busy, enabled>>

ReleaseOnTimeout ==
    /\ busy' = FALSE
    /\ IF busy THEN EnableButtons(IsConnected) ELSE UNCHANGED enabled

HandleTimeout ==
    /\ Dispatching /\ timeoutTimer
    /\ timeoutTimer' = FALSE
    /\ ReleaseOnTimeout
    /\ UNCHANGED <<adapterVars, bridgeVars, online, shown, page, leaked, reading, joining, bus>>

\* One wake-up handles the whole queue on Windows; on Linux any number of the
\* notifiers on the descriptor may fire for the same frame.
Wake ==
    /\ Dispatching /\ incoming # <<>>
    /\ IF platform = "windows"
       THEN shown /\ reading' = Len(incoming)
       ELSE \E n \in 1 .. leaked + (IF shown THEN 1 ELSE 0) : reading' = n
    /\ UNCHANGED <<adapterVars, bridgeVars, busy, online, enabled, shown, page,
                   timeoutTimer, leaked, joining, bus>>

\* A frame from the motor: it is online; an answer frees the panel.
OnFrame(frame) ==
    /\ online' = TRUE
    /\ IF online THEN UNCHANGED <<shown, leaked, bus>> ELSE OnConnected
    /\ IF frame = "heartbeat" \/ ~busy
       THEN /\ UNCHANGED <<busy, timeoutTimer>>
            /\ online => UNCHANGED enabled
       ELSE /\ busy' = FALSE /\ timeoutTimer' = FALSE
            /\ online => EnableButtons(IsConnected)

ProcessReadEvent ==
    /\ reading > 0
    /\ TakeIncoming
    /\ reading' = reading - 1
    /\ IF Head(incoming) = "error"
       THEN UNCHANGED <<busy, online, enabled, shown, timeoutTimer, leaked, bus>>
       ELSE OnFrame(Head(incoming))
    /\ UNCHANGED <<bridgeVars, page, joining>>

\* No frame for three seconds.
OnServerOffline ==
    /\ Dispatching /\ online
    /\ online' = FALSE
    /\ OnDisconnected
    /\ UNCHANGED <<adapterVars, bridgeVars, busy, page, timeoutTimer, reading,
                   joining>>

ThreadSteps ==
    /\ ReadHalfLine \/ DropLine \/ ReceiveLoopEnds
    /\ UNCHANGED <<bridgeVars, guiVars, bus>>

-----------------------------------------------------------------------------
(* The motor and the bus.                                                  *)

HeartbeatArrives == Arrive("heartbeat") /\ UNCHANGED <<bridgeVars, guiVars, bus>>

Execute(command) ==
    \/ command = "start" /\ OnStart
    \/ command = "stop" /\ OnStop
    \/ command = "emergencyStop" /\ OnEmergencyStop
    \/ command = "clearFault" /\ OnClearFault
    \/ command = "identify" /\ OnIdentifyElectrical
    \/ command \in {"query", "encoder"} /\ OnNotImplemented
    \/ \E m \in Modes : command = SelectCommand[m] /\ OnSelectControlMode(m)
    \/ \E m \in Modes : command = SetpointCommand[m] /\ OnSetSetpoint(m)
    \/ \E l \in Loops : command = PidCommand[l] /\ OnSetPid(l)

\* A selection that begins is answered when the mode has been saved.
OnCommand ==
    /\ bus # "none"
    /\ bus' = "none"
    /\ Execute(bus)
    /\ IF pendingSelect' \/ pendingSelect # pendingSelect'
       THEN UNCHANGED adapterVars ELSE Deliver("answer")
    /\ UNCHANGED guiVars

CommandLost ==
    /\ bus # "none" /\ bus' = "none"
    /\ UNCHANGED <<adapterVars, bridgeVars, guiVars>>

OtherMaster ==
    /\ \E command \in OtherCommands : Execute(command)
    /\ UNCHANGED <<adapterVars, guiVars, bus>>

SelectEnds ==
    /\ SelectSaved \/ SelectNotSaved
    /\ Deliver("answer")
    /\ UNCHANGED <<guiVars, bus>>

MotorSteps ==
    /\ MachineStep
    /\ UNCHANGED <<adapterVars, guiVars, bus>>

GuiSteps ==
    \/ OnConnect \/ StopThread \/ ThreadJoined \/ Reconnect \/ OnDisconnect
    \/ \E command \in Offered : Click(command)
    \/ Query \/ HandleTimeout \/ Wake \/ ProcessReadEvent
    \/ OnServerOffline

CommanderNext ==
    \/ GuiSteps \/ ThreadSteps
    \/ HeartbeatArrives \/ OnCommand \/ CommandLost \/ OtherMaster \/ SelectEnds
    \/ MotorSteps

CommanderSpec == CommanderInit /\ [][CommanderNext]_commanderVars

-----------------------------------------------------------------------------

\* No button works without an open adapter, in whatever order timeouts,
\* answers and lost heartbeats of an earlier connection come in.
CommandsNeedConnection == enabled => IsConnected

\* The buttons, the emergency stop among them, are locked while the client
\* is busy; they never stay locked, for the one-shot timer that frees the
\* client is running whenever it is busy.
BusyIsTimed == busy => timeoutTimer
=============================================================================
