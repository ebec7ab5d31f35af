--------------------------- MODULE CommanderProofs ---------------------------
(***************************************************************************)
(* The commander and the motor's bridge, proved for every set of modes,    *)
(* interfaces and commands and every bound.  The adapter and the window    *)
(* share one inductive invariant; the bridge has its own, which no step of *)
(* the commander's side disturbs; the types are kept part by part.         *)
(***************************************************************************)
EXTENDS CanCommander, DataLemmas, TLAPS

-----------------------------------------------------------------------------
(* The adapter and the window.                                             *)

\* What a platform never has: no receive thread, no half line on Linux.
PlatformFits ==
    /\ platform \in {"linux", "windows"}
    /\ platform = "linux" => receiver = "none" /\ slcanRxBuf = "empty"
    /\ slcanRxBuf \in {"empty", "half"}

\* Whatever the window has under way ends with the connection: buttons that
\* work, a panel that says so, a wake-up not yet handled, a frame of a socket.
WorkNeedsConnection ==
    /\ enabled => IsConnected
    /\ shown => IsConnected
    /\ reading # 0 => IsConnected /\ joining = "no"
    /\ platform = "linux" /\ incoming # <<>> => IsConnected

ConnectionInv == PlatformFits /\ DriverLifetime /\ WorkNeedsConnection

connectionVars == <<adapterVars, enabled, shown, reading, joining>>

LEMMA ConnectionInvReads ==
  ASSUME ConnectionInv, UNCHANGED connectionVars
  PROVE  ConnectionInv'
  BY Zenon DEF ConnectionInv, PlatformFits, DriverLifetime, WorkNeedsConnection,
               IsConnected, connectionVars, adapterVars

LEMMA ConnectionInvHoldsAtFirst == CommanderInit => ConnectionInv
  BY SMT
     DEF CommanderInit, AdapterInit, ConnectionInv, PlatformFits,
         DriverLifetime, WorkNeedsConnection, IsConnected

\* An attempt to connect opens one backend with what it needs, or ends with
\* nothing held.
LEMMA ConnectOutcome ==
  ASSUME ConnectionInv, Connect
  PROVE  /\ PlatformFits' /\ DriverLifetime'
         /\ platform = "linux" /\ ~IsConnected' => incoming' = incoming
         /\ incoming' # incoming => platform = "windows"
  <1>1. ~IsConnected /\ receiver = "none" /\ slcanRxBuf = "empty"
        /\ platform' = platform
    BY SMT DEF ConnectionInv, DriverLifetime, PlatformFits, Connect, IsConnected
  <1>2. ASSUME NEW reached, Fail(reached)
        PROVE  /\ PlatformFits' /\ DriverLifetime'
               /\ incoming' # incoming => platform = "windows"
    BY <1>1, <1>2, SMT DEF Fail, Released, ConnectionInv, PlatformFits,
                           DriverLifetime, IsConnected
  <1>3. CASE "socketcan" \in Choices /\ ConnectSocket
    <2>1. CASE Open("socketcan", {"socket"}) /\ UNCHANGED <<receiver, slcanRxBuf>>
      BY <1>1, <2>1, SMT DEF Open, ConnectionInv, PlatformFits, DriverLifetime,
                             IsConnected
    <2> QED
      BY <1>2, <1>3, <2>1, Zenon DEF ConnectSocket
  <1>4. CASE "pcan" \in Choices /\ ConnectPcan
    <2>1. platform = "windows"
      BY <1>4, SMT DEF Choices, ConnectionInv, PlatformFits
    <2>2. CASE Open("pcan", {"library", "channel"}) /\ StartThread
               /\ UNCHANGED slcanRxBuf
      BY <1>1, <2>1, <2>2, SMT DEF Open, StartThread, ConnectionInv,
                                   PlatformFits, DriverLifetime, IsConnected
    <2> QED
      BY <1>2, <1>4, <2>1, <2>2, Zenon DEF ConnectPcan
  <1>5. CASE "kvaser" \in Choices /\ ConnectKvaser
    <2>1. platform = "windows"
      BY <1>5, SMT DEF Choices, ConnectionInv, PlatformFits
    <2>2. CASE Open("kvaser", {"library", "channel"}) /\ StartThread
               /\ UNCHANGED slcanRxBuf
      BY <1>1, <2>1, <2>2, SMT DEF Open, StartThread, ConnectionInv,
                                   PlatformFits, DriverLifetime, IsConnected
    <2> QED
      BY <1>2, <1>5, <2>1, <2>2, Zenon DEF ConnectKvaser
  <1>6. CASE "canable" \in Choices /\ ConnectCanable
    <2>1. platform = "windows"
      BY <1>6, SMT DEF Choices, ConnectionInv, PlatformFits
    <2>2. CASE Open("canable", {"port"}) /\ StartThread /\ slcanRxBuf' = "empty"
      BY <1>1, <2>1, <2>2, SMT DEF Open, StartThread, ConnectionInv,
                                   PlatformFits, DriverLifetime, IsConnected
    <2> QED
      BY <1>2, <1>6, <2>1, <2>2, Zenon DEF ConnectCanable
  <1>7. /\ PlatformFits' /\ DriverLifetime'
        /\ incoming' # incoming => platform = "windows"
    BY <1>2, <1>3, <1>4, <1>5, <1>6, Zenon DEF Connect
  <1> QED
    BY <1>7, SMT DEF ConnectionInv, PlatformFits

\* Closing leaves nothing held, and no frame of a socket.
LEMMA DisconnectOutcome ==
  ASSUME ConnectionInv, Disconnect
  PROVE  /\ PlatformFits' /\ DriverLifetime' /\ ~IsConnected'
         /\ platform' = "linux" => incoming' = <<>>
  BY SMT DEF Disconnect, DisconnectCurrent, DisconnectSocket, ThreadGone,
             ConnectionInv, PlatformFits, DriverLifetime, IsConnected

\* The frames of the receive thread and of the socket come over a connection.
LEMMA ArriveKeepsConnectionInv ==
  ASSUME ConnectionInv, NEW frame, Arrive(frame),
         UNCHANGED <<enabled, shown, reading, joining>>
  PROVE  ConnectionInv'
  <1>1. IsConnected
    BY SMT DEF Arrive, Listening, ConnectionInv, PlatformFits, DriverLifetime
  <1>2. slcanRxBuf' \in {slcanRxBuf, "empty"}
    BY SMT DEF Arrive, ReadPcan, ReadKvaser, ReadCanable, ReadSocket
  <1> QED
    BY <1>1, <1>2, SMT DEF Arrive, ConnectionInv, PlatformFits, DriverLifetime,
                           WorkNeedsConnection, IsConnected

LEMMA ConnectionsKeepInv ==
  ASSUME ConnectionInv, OnConnect \/ StopThread \/ ThreadJoined \/ Reconnect
                        \/ OnDisconnect
  PROVE  ConnectionInv'
  <1>1. CASE OnConnect
    <2>1. UNCHANGED <<reading>> /\ reading = 0
      BY <1>1, Zenon DEF OnConnect, Dispatching
    <2>2. CASE IsConnected
      <3>1. Disconnect
        BY <1>1, <2>2, Zenon DEF OnConnect
      <3>2. ~enabled' /\ ~shown'
        BY <1>1, <2>2, <3>1, DisconnectOutcome, Zenon
           DEF OnConnect, OnDisconnected
      <3> QED
        BY <2>1, <3>1, <3>2, DisconnectOutcome, SMT
           DEF ConnectionInv, WorkNeedsConnection
    <2>3. CASE ~IsConnected
      <3>1. Connect
        BY <1>1, <2>3, Zenon DEF OnConnect
      <3>2. ~IsConnected' => UNCHANGED <<enabled, shown>>
        BY <1>1, <2>3, Zenon DEF OnConnect
      <3> QED
        BY <2>1, <2>3, <3>1, <3>2, ConnectOutcome, SMT
           DEF ConnectionInv, WorkNeedsConnection, Connect
    <2> QED
      BY <2>2, <2>3
  <1>2. CASE StopThread
    BY <1>2, SMT DEF StopThread, AskThreadToStop, Dispatching, ConnectionInv,
                     PlatformFits, DriverLifetime, WorkNeedsConnection,
                     IsConnected
  <1>3. CASE ThreadJoined
    <2>1. reading' = 0 /\ ~enabled' /\ ~shown' /\ Disconnect
      BY <1>3, SMT DEF ThreadJoined, OnDisconnected, ConnectionInv,
                       WorkNeedsConnection
    <2> QED
      BY <2>1, DisconnectOutcome, SMT DEF ConnectionInv, WorkNeedsConnection
  <1>4. CASE Reconnect
    <2>1. reading' = 0 /\ Connect
          /\ (~IsConnected' => UNCHANGED <<enabled, shown>>)
      BY <1>4, SMT DEF Reconnect, ConnectionInv, WorkNeedsConnection
    <2>2. ~IsConnected /\ platform' = platform
      BY <2>1, Zenon DEF Connect
    <2> QED
      BY <2>1, <2>2, ConnectOutcome, SMT DEF ConnectionInv, WorkNeedsConnection
  <1>5. CASE OnDisconnect
    <2>1. reading' = 0 /\ ~enabled' /\ ~shown' /\ Disconnect
      BY <1>5, SMT DEF OnDisconnect, OnDisconnected, Dispatching
    <2> QED
      BY <2>1, DisconnectOutcome, SMT DEF ConnectionInv, WorkNeedsConnection
  <1> QED
    BY <1>1, <1>2, <1>3, <1>4, <1>5, Zenon

\* Clicks, timers and queries enable the buttons over an open adapter only.
LEMMA ClicksKeepInv ==
  ASSUME ConnectionInv,
         \/ \E command \in Offered : Click(command)
         \/ Query \/ HandleTimeout \/ OnServerOffline
  PROVE  ConnectionInv'
  <1>1. UNCHANGED <<adapterVars, reading, joining>>
        /\ (shown' => shown) /\ (enabled' => enabled \/ IsConnected)
    <2>1. ASSUME NEW command \in Offered, Click(command)
          PROVE  /\ UNCHANGED <<adapterVars, reading, joining>>
                 /\ (shown' => shown) /\ (enabled' => enabled \/ IsConnected)
      BY <2>1, Zenon DEF Click, Accepted, Refused, EnableButtons
    <2>2. CASE Query
      BY <2>2, Zenon DEF Query, guiVars
    <2>3. CASE HandleTimeout
      BY <2>3, Zenon DEF HandleTimeout, ReleaseOnTimeout, EnableButtons
    <2>4. CASE OnServerOffline
      BY <2>4, Zenon DEF OnServerOffline, OnDisconnected
    <2> QED
      BY <2>1, <2>2, <2>3, <2>4, Zenon
  <1>2. PlatformFits' /\ DriverLifetime' /\ IsConnected' = IsConnected
        /\ platform' = platform /\ incoming' = incoming
    BY <1>1, Zenon DEF adapterVars, ConnectionInv, PlatformFits, DriverLifetime,
                       IsConnected
  <1> QED
    BY <1>1, <1>2, Zenon DEF ConnectionInv, WorkNeedsConnection

\* A frame is handled while its connection is open: the wake-up needed one,
\* and nothing closes it before the wake-up is through.
LEMMA ReadsKeepInv ==
  ASSUME ConnectionInv, Wake \/ ProcessReadEvent
  PROVE  ConnectionInv'
  <1>1. CASE Wake
    <2>1. IsConnected /\ joining = "no"
      BY <1>1, SMT DEF Wake, Dispatching, ConnectionInv, WorkNeedsConnection,
                       PlatformFits
    <2> QED
      BY <1>1, <2>1, SMT DEF Wake, ConnectionInv, PlatformFits, DriverLifetime,
                             WorkNeedsConnection, IsConnected, adapterVars
  <1>2. CASE ProcessReadEvent
    <2>1. IsConnected /\ joining = "no"
      BY <1>2, SMT DEF ProcessReadEvent, ConnectionInv, WorkNeedsConnection
    <2>2. UNCHANGED <<platform, backend, held, receiver, slcanRxBuf, joining>>
      BY <1>2, Zenon DEF ProcessReadEvent, TakeIncoming
    <2> QED
      BY <2>1, <2>2, Zenon DEF ConnectionInv, PlatformFits, DriverLifetime,
                               WorkNeedsConnection, IsConnected
  <1> QED
    BY <1>1, <1>2

LEMMA ThreadStepsKeepInv ==
  ASSUME ConnectionInv, ThreadSteps
  PROVE  ConnectionInv'
  BY SMT DEF ThreadSteps, ReadHalfLine, DropLine, ReceiveLoopEnds, guiVars,
             ConnectionInv, PlatformFits, DriverLifetime, WorkNeedsConnection,
             IsConnected

LEMMA BusStepsKeepInv ==
  ASSUME ConnectionInv,
         \/ HeartbeatArrives \/ OnCommand \/ CommandLost \/ OtherMaster
         \/ SelectEnds \/ MotorSteps
  PROVE  ConnectionInv'
  <1>1. UNCHANGED guiVars
    BY Zenon DEF HeartbeatArrives, OnCommand, CommandLost, OtherMaster,
                 SelectEnds, MotorSteps
  <1>2. UNCHANGED <<enabled, shown, reading, joining>>
    BY <1>1, Zenon DEF guiVars
  <1>3. UNCHANGED adapterVars \/ \E frame : Arrive(frame)
    BY Zenon DEF HeartbeatArrives, OnCommand, CommandLost, OtherMaster,
                 SelectEnds, MotorSteps, Deliver
  <1>4. CASE UNCHANGED adapterVars
    BY <1>2, <1>4, ConnectionInvReads, Zenon DEF connectionVars
  <1> QED
    BY <1>2, <1>3, <1>4, ArriveKeepsConnectionInv, Zenon

LEMMA ConnectionInvIsInvariant == CommanderSpec => []ConnectionInv
  <1>1. CommanderInit => ConnectionInv
    BY ConnectionInvHoldsAtFirst
  <1>2. ConnectionInv /\ [CommanderNext]_commanderVars => ConnectionInv'
    <2> SUFFICES ASSUME ConnectionInv, [CommanderNext]_commanderVars
                 PROVE  ConnectionInv'
      OBVIOUS
    <2>1. CASE CommanderNext
      BY <2>1, ConnectionsKeepInv, ClicksKeepInv, ReadsKeepInv,
         ThreadStepsKeepInv, BusStepsKeepInv, Zenon DEF CommanderNext, GuiSteps
    <2>2. CASE UNCHANGED commanderVars
      BY <2>2, ConnectionInvReads, Zenon DEF commanderVars, connectionVars,
                                             guiVars
    <2> QED
      BY <2>1, <2>2
  <1> QED
    BY <1>1, <1>2, PTL DEF CommanderSpec

\* Drivers, channels, ports and sockets are held exactly while a backend is
\* open, and the receive thread and its half line go with it.
THEOREM NothingOutlivesTheConnection == CommanderSpec => []DriverLifetime
  <1>1. ConnectionInv => DriverLifetime
    BY DEF ConnectionInv
  <1> QED
    BY <1>1, ConnectionInvIsInvariant, PTL

\* No button works without an open adapter, whatever timeouts, answers and
\* wake-ups of an earlier connection still come.
THEOREM ButtonsNeedConnection == CommanderSpec => []CommandsNeedConnection
  <1>1. ConnectionInv => CommandsNeedConnection
    BY DEF ConnectionInv, WorkNeedsConnection, CommandsNeedConnection
  <1> QED
    BY <1>1, ConnectionInvIsInvariant, PTL

-----------------------------------------------------------------------------
(* The busy flag.                                                          *)

LEMMA BusyIsTimedReads ==
  ASSUME BusyIsTimed, UNCHANGED guiVars
  PROVE  BusyIsTimed'
  BY Zenon DEF BusyIsTimed, guiVars

\* Only a click makes the client busy, and it starts the timer; a timeout and
\* an answer clear both.
LEMMA GuiKeepsBusyIsTimed ==
  ASSUME BusyIsTimed, GuiSteps
  PROVE  BusyIsTimed'
  <1>1. CASE OnConnect \/ StopThread \/ ThreadJoined \/ Reconnect \/ OnDisconnect
             \/ Query \/ Wake \/ OnServerOffline
    BY <1>1, Zenon DEF OnConnect, StopThread, ThreadJoined, Reconnect,
       OnDisconnect, Query, Wake, OnServerOffline, BusyIsTimed, guiVars
  <1>2. ASSUME NEW command \in Offered, Click(command) PROVE BusyIsTimed'
    BY <1>2, Zenon DEF Click, BusyIsTimed
  <1>3. CASE HandleTimeout
    BY <1>3, Zenon DEF HandleTimeout, ReleaseOnTimeout, BusyIsTimed
  <1>4. CASE ProcessReadEvent
    BY <1>4, Zenon DEF ProcessReadEvent, OnFrame, BusyIsTimed
  <1> QED
    BY <1>1, <1>2, <1>3, <1>4, Zenon DEF GuiSteps

\* The panel is never locked without the timer that unlocks it.
THEOREM LockedPanelIsTimed == CommanderSpec => []BusyIsTimed
  <1>1. CommanderInit => BusyIsTimed
    BY DEF CommanderInit, BusyIsTimed
  <1>2. BusyIsTimed /\ [CommanderNext]_commanderVars => BusyIsTimed'
    <2> SUFFICES ASSUME BusyIsTimed, [CommanderNext]_commanderVars
                 PROVE  BusyIsTimed'
      OBVIOUS
    <2>1. GuiSteps \/ UNCHANGED guiVars
      BY Zenon DEF CommanderNext, ThreadSteps, HeartbeatArrives, OnCommand,
         CommandLost, OtherMaster, SelectEnds, MotorSteps, commanderVars
    <2> QED
      BY <2>1, GuiKeepsBusyIsTimed, BusyIsTimedReads
  <1> QED
    BY <1>1, <1>2, PTL DEF CommanderSpec

-----------------------------------------------------------------------------
(* The motor's bridge.                                                     *)

\* One selection at a time: the write under way is of the mode asked for, and
\* the last answer has been forgotten.
SelectionIsWritten ==
    /\ pendingSelect <=> writing # "none"
    /\ pendingSelect => writing = pendingSelectMode /\ ackedMode = "none"

BridgeInv ==
    /\ SelectionIsWritten
    /\ AckedModeIsPersisted
    /\ ControllerMatchesMode

LEMMA BridgeInvHoldsAtFirst == CommanderInit => BridgeInv
  BY SMT DEF CommanderInit, BridgeInit, BridgeInv, SelectionIsWritten,
             AckedModeIsPersisted, ControllerMatchesMode, LoopsOf, Loops

LEMMA BridgeInvReads ==
  ASSUME BridgeInv, UNCHANGED bridgeVars
  PROVE  BridgeInv'
  BY Zenon DEF BridgeInv, SelectionIsWritten, AckedModeIsPersisted,
               ControllerMatchesMode, bridgeVars

\* What begins, ends or cuts off a selection.
LEMMA SelectionsKeepBridgeInv ==
  ASSUME BridgeInv,
         \/ \E m \in Modes : OnSelectControlMode(m)
         \/ SelectSaved \/ SelectNotSaved
  PROVE  BridgeInv'
  <1>1. CASE Reboot
    BY <1>1, SMT DEF Reboot, SelectForgotten, Fresh, BridgeInv,
       SelectionIsWritten, AckedModeIsPersisted, ControllerMatchesMode
  <1>2. ASSUME NEW m \in Modes, ~pendingSelect, SelectUnlessRunning(m)
        PROVE  BridgeInv'
    <2>1. m # "none"
      BY ModesAssumption, SMT
    <2>2. CASE BeginSelect(m)
      BY <1>2, <2>1, <2>2, SMT
         DEF BeginSelect, KeepController, BridgeInv, SelectionIsWritten,
             AckedModeIsPersisted, ControllerMatchesMode
    <2>3. CASE RefuseSelect
      BY <1>2, <2>3, SMT
         DEF RefuseSelect, BridgeInv, SelectionIsWritten,
             AckedModeIsPersisted, ControllerMatchesMode
    <2> QED
      BY <1>2, <2>2, <2>3, Zenon DEF SelectUnlessRunning
  <1>3. CASE SelectSaved
    BY <1>3, SMT DEF SelectSaved, ActivateNew, SelectForgotten, Fresh,
       BridgeInv, SelectionIsWritten, AckedModeIsPersisted,
       ControllerMatchesMode
  <1>4. CASE SelectNotSaved
    BY <1>4, SMT DEF SelectNotSaved, SelectForgotten, KeepController,
       BridgeInv, SelectionIsWritten, AckedModeIsPersisted,
       ControllerMatchesMode
  <1> QED
    BY <1>1, <1>2, <1>3, <1>4, Zenon DEF OnSelectControlMode

\* What leaves the selection alone.
LEMMA CommandsKeepBridgeInv ==
  ASSUME BridgeInv, UNCHANGED selectVars,
         \/ KeepController
         \/ \E m \in Modes : OnSetSetpoint(m)
         \/ \E l \in Loops : OnSetPid(l)
  PROVE  BridgeInv'
  <1>1. CASE KeepController
    BY <1>1, Zenon DEF KeepController, selectVars, BridgeInv,
       SelectionIsWritten, AckedModeIsPersisted, ControllerMatchesMode
  <1>2. ASSUME NEW m \in Modes, OnSetSetpoint(m) PROVE BridgeInv'
    BY <1>2, SMT DEF OnSetSetpoint, TrySet, selectVars, BridgeInv,
       SelectionIsWritten, AckedModeIsPersisted, ControllerMatchesMode
  <1>3. ASSUME NEW l \in Loops, OnSetPid(l) PROVE BridgeInv'
    BY <1>3, SMT DEF OnSetPid, TrySetPidGains, selectVars, BridgeInv,
       SelectionIsWritten, AckedModeIsPersisted, ControllerMatchesMode
  <1> QED
    BY <1>1, <1>2, <1>3, Zenon

LEMMA ExecuteKeepsBridgeInv ==
  ASSUME BridgeInv, NEW command, Execute(command)
  PROVE  BridgeInv'
  <1>1. CASE OnStart \/ OnStop \/ OnEmergencyStop \/ OnClearFault
             \/ OnIdentifyElectrical
    <2>1. UNCHANGED selectVars /\ KeepController
      BY <1>1, Zenon DEF OnStart, OnStop, OnEmergencyStop, OnClearFault,
                         OnIdentifyElectrical, Command
    <2> QED
      BY <2>1, CommandsKeepBridgeInv
  <1>2. CASE OnNotImplemented
    BY <1>2, BridgeInvReads DEF OnNotImplemented
  <1>3. CASE \E m \in Modes : OnSelectControlMode(m)
    BY <1>3, SelectionsKeepBridgeInv
  <1>4. CASE \E m \in Modes : OnSetSetpoint(m)
    <2>1. UNCHANGED selectVars
      BY <1>4, Zenon DEF OnSetSetpoint
    <2> QED
      BY <1>4, <2>1, CommandsKeepBridgeInv
  <1>5. CASE \E l \in Loops : OnSetPid(l)
    <2>1. UNCHANGED selectVars
      BY <1>5, Zenon DEF OnSetPid
    <2> QED
      BY <1>5, <2>1, CommandsKeepBridgeInv
  <1> QED
    BY <1>1, <1>2, <1>3, <1>4, <1>5, Zenon DEF Execute

LEMMA BridgeInvIsInvariant == CommanderSpec => []BridgeInv
  <1>1. CommanderInit => BridgeInv
    BY BridgeInvHoldsAtFirst
  <1>2. BridgeInv /\ [CommanderNext]_commanderVars => BridgeInv'
    <2> SUFFICES ASSUME BridgeInv, [CommanderNext]_commanderVars
                 PROVE  BridgeInv'
      OBVIOUS
    <2>1. CASE GuiSteps
      <3>1. UNCHANGED bridgeVars
        BY <2>1, Zenon DEF GuiSteps, OnConnect, StopThread, ThreadJoined,
           Reconnect, OnDisconnect, Click, Query, HandleTimeout, Wake,
           ProcessReadEvent, OnServerOffline
      <3> QED
        BY <3>1, BridgeInvReads
    <2>2. CASE ThreadSteps \/ HeartbeatArrives \/ CommandLost
      <3>1. UNCHANGED bridgeVars
        BY <2>2, Zenon DEF ThreadSteps, HeartbeatArrives, CommandLost
      <3> QED
        BY <3>1, BridgeInvReads
    <2>3. CASE OnCommand \/ OtherMaster
      BY <2>3, ExecuteKeepsBridgeInv, Zenon DEF OnCommand, OtherMaster
    <2>4. CASE SelectEnds
      BY <2>4, SelectionsKeepBridgeInv, Zenon DEF SelectEnds
    <2>5. CASE MotorSteps
      <3>1. UNCHANGED selectVars /\ KeepController
        BY <2>5, Zenon DEF MotorSteps, MachineStep
      <3> QED
        BY <3>1, CommandsKeepBridgeInv
    <2>6. CASE UNCHANGED commanderVars
      BY <2>6, BridgeInvReads, Zenon DEF commanderVars
    <2> QED
      BY <2>1, <2>2, <2>3, <2>4, <2>5, <2>6, Zenon DEF CommanderNext
  <1> QED
    BY <1>1, <1>2, PTL DEF CommanderSpec

\* The mode answered to a selection is the mode stored and the mode built,
\* for every set of modes and however selections overlap.
THEOREM AnsweredModeIsStored == CommanderSpec => []AckedModeIsPersisted
  <1>1. BridgeInv => AckedModeIsPersisted
    BY DEF BridgeInv
  <1> QED
    BY <1>1, BridgeInvIsInvariant, PTL

\* No machine is ever given a set point or gains of another mode.
THEOREM SettingsFitTheMachine == CommanderSpec => []ControllerMatchesMode
  <1>1. BridgeInv => ControllerMatchesMode
    BY DEF BridgeInv
  <1> QED
    BY <1>1, BridgeInvIsInvariant, PTL
-----------------------------------------------------------------------------
(* The types.  Each of the three parts keeps its own.                      *)

\* A bounded sequence is a sequence of bounded length.
LEMMA BoundedSeqIs ==
  ASSUME NEW S, NEW n \in Nat, NEW s
  PROVE  s \in BoundedSeq(S, n) <=> s \in Seq(S) /\ Len(s) <= n
  <1>1. ASSUME s \in BoundedSeq(S, n) PROVE s \in Seq(S) /\ Len(s) <= n
    <2>1. PICK k \in 0 .. n : s \in [1 .. k -> S]
      BY <1>1, Zenon DEF BoundedSeq
    <2>2. k \in Nat /\ k <= n
      BY SMT
    <2>3. s \in Seq(S) /\ Len(s) = k
      <3>1. s \in Seq(S)
        BY <2>1, <2>2, IsASeq
      <3>2. Len(s) \in Nat /\ DOMAIN s = 1 .. Len(s) /\ DOMAIN s = 1 .. k
        BY <2>1, <3>1, LenProperties
      <3>3. ASSUME NEW l \in Nat, 1 .. l = 1 .. k PROVE l = k
        BY <2>2, <3>3, SMT
      <3> QED BY <3>1, <3>2, <3>3
    <2> QED BY <2>2, <2>3
  <1>2. ASSUME s \in Seq(S), Len(s) <= n PROVE s \in BoundedSeq(S, n)
    <2>1. Len(s) \in Nat /\ s \in [1 .. Len(s) -> S]
      BY <1>2, LenProperties
    <2>2. Len(s) \in 0 .. n
      BY <1>2, <2>1, SMT
    <2> QED BY <2>1, <2>2, Zenon DEF BoundedSeq
  <1> QED BY <1>1, <1>2

Events == Frames \cup {"error"}

\* The adapter's variables but the queue, which has its own lemma.
AdapterTypes ==
    /\ platform \in {"linux", "windows"}
    /\ backend \in Interfaces \cup {"none"}
    /\ held \subseteq {"library", "channel", "port", "socket"}
    /\ receiver \in {"none", "running", "stopping", "exited"}
    /\ slcanRxBuf \in {"empty", "half"}

QueueTypes == incoming \in Seq(Events) /\ Len(incoming) <= MaxFrames

\* The flags one by one.
FlagTypes ==
    /\ busy \in BOOLEAN /\ online \in BOOLEAN /\ enabled \in BOOLEAN
    /\ shown \in BOOLEAN /\ timeoutTimer \in BOOLEAN

CountTypes ==
    /\ leaked \in 0 .. MaxNotifiers
    /\ reading \in 0 .. MaxFrames + MaxNotifiers + 1

WindowTypes ==
    /\ FlagTypes /\ CountTypes
    /\ page \in Modes
    /\ joining \in {"no", "disconnect", "connect"}
    /\ bus \in Buttons \cup {"query", "none"}

ModeTypes ==
    /\ activeMode \in Modes /\ defaultMode \in Modes
    /\ pendingSelectMode \in Modes /\ previousDefault \in Modes
    /\ storedMode \in Modes \cup {"invalid"}
    /\ writing \in Modes \cup {"none"}
    /\ ackedMode \in Modes \cup {"none"}
    /\ pendingSelect \in BOOLEAN

MotorTypes ==
    /\ state \in {"Idle", "Calibrating", "Ready", "Enabled", "Fault"}
    /\ ModeTypes
    /\ setpoint \in Modes \cup {"none"}
    /\ gains \subseteq Loops

LEMMA CommanderTypesAre ==
  CommanderTypeOK <=> AdapterTypes /\ QueueTypes /\ WindowTypes /\ MotorTypes
  <1>1. AdapterTypeOK <=> AdapterTypes /\ QueueTypes
    <2>1. MaxFrames \in Nat
      BY AdapterAssumption
    <2>2. incoming \in BoundedSeq(Events, MaxFrames) <=> QueueTypes
      BY <2>1, BoundedSeqIs, Zenon DEF QueueTypes
    <2> QED BY <2>2, Zenon DEF AdapterTypeOK, AdapterTypes, Events
  <1>2. BridgeTypeOK <=> MotorTypes
    <2>1. {activeMode, defaultMode, pendingSelectMode, previousDefault} \subseteq Modes
          <=> /\ activeMode \in Modes /\ defaultMode \in Modes
              /\ pendingSelectMode \in Modes /\ previousDefault \in Modes
      BY SMT
    <2> QED BY <2>1, Zenon DEF BridgeTypeOK, MotorTypes, ModeTypes
  <1>3. {busy, online, enabled, shown, timeoutTimer} \subseteq BOOLEAN <=> FlagTypes
    BY Zenon DEF FlagTypes
  <1> QED
    BY <1>1, <1>2, <1>3, Zenon DEF CommanderTypeOK, WindowTypes, CountTypes

LEMMA TypesHoldAtFirst ==
  CommanderInit => AdapterTypes /\ QueueTypes /\ WindowTypes /\ MotorTypes
  <1> SUFFICES ASSUME CommanderInit
               PROVE  AdapterTypes /\ QueueTypes /\ WindowTypes /\ MotorTypes
    OBVIOUS
  <1>1. AdapterTypes
    BY Zenon DEF CommanderInit, AdapterInit, AdapterTypes
  <1>2. QueueTypes
    <2>1. incoming = <<>>
      BY Zenon DEF CommanderInit, AdapterInit
    <2>2. <<>> \in Seq(Events) /\ Len(<<>>) = 0
      BY SMT
    <2>3. 0 <= MaxFrames
      BY AdapterAssumption, SMT
    <2> QED BY <2>1, <2>2, <2>3, Zenon DEF QueueTypes
  <1>3. CountTypes
    BY AdapterAssumption, NotifiersAssumption, SMT
       DEF CommanderInit, CountTypes
  <1>4. WindowTypes
    BY <1>3, ModesAssumption, Zenon DEF CommanderInit, WindowTypes, FlagTypes
  <1>5. MotorTypes
    BY ModesAssumption, Zenon
       DEF CommanderInit, BridgeInit, MotorTypes, ModeTypes
  <1> QED BY <1>1, <1>2, <1>4, <1>5

\* The adapter.  Whoever calls it, the queue has room for what it is given.
LEMMA QueueGrows ==
  ASSUME QueueTypes, NEW x \in Events, Len(incoming) < MaxFrames,
         incoming' = Append(incoming, x)
  PROVE  QueueTypes'
  <1>1. /\ incoming' \in Seq(Events) /\ Len(incoming') = Len(incoming) + 1
        /\ Len(incoming) \in Nat
    BY AppendProperties, LenProperties DEF QueueTypes
  <1>2. Len(incoming) + 1 <= MaxFrames
    BY <1>1, AdapterAssumption, SMT
  <1> QED BY <1>1, <1>2, Zenon DEF QueueTypes

LEMMA FailKeepsTypes ==
  ASSUME AdapterTypes, QueueTypes, NEW reached, Fail(reached), platform' = platform
  PROVE  AdapterTypes' /\ QueueTypes'
  <1>1. AdapterTypes'
    BY Zenon DEF Fail, Released, AdapterTypes
  <1>2. QueueTypes'
    <2>1. "error" \in Events
      BY Zenon DEF Events
    <2>2. CASE platform = "windows" /\ Len(incoming) < MaxFrames
      BY <2>1, <2>2, QueueGrows, Zenon DEF Fail, Push
    <2>3. CASE ~(platform = "windows" /\ Len(incoming) < MaxFrames)
      <3>1. incoming' = incoming
        BY <2>3, Zenon DEF Fail
      <3> QED BY <3>1, Zenon DEF QueueTypes
    <2> QED BY <2>2, <2>3, Zenon
  <1> QED BY <1>1, <1>2

LEMMA OpenKeepsTypes ==
  ASSUME AdapterTypes, QueueTypes, platform' = platform,
         NEW i \in Interfaces, NEW h \in SUBSET {"library", "channel", "port", "socket"},
         Open(i, h), receiver' \in {receiver, "running"},
         slcanRxBuf' \in {slcanRxBuf, "empty"}
  PROVE  AdapterTypes' /\ QueueTypes'
  BY Zenon DEF Open, AdapterTypes, QueueTypes

LEMMA ConnectKeepsTypes ==
  ASSUME AdapterTypes, QueueTypes, Connect
  PROVE  AdapterTypes' /\ QueueTypes'
  <1>0. platform' = platform
    BY Zenon DEF Connect
  <1>1. ASSUME NEW reached, Fail(reached) PROVE AdapterTypes' /\ QueueTypes'
    BY <1>0, <1>1, FailKeepsTypes
  <1>2. Choices \subseteq Interfaces
    BY Zenon DEF Choices
  <1>3. CASE "socketcan" \in Choices /\ ConnectSocket
    <2>1. {"socket"} \in SUBSET {"library", "channel", "port", "socket"}
      BY SMT
    <2> QED
      BY <1>0, <1>1, <1>2, <1>3, <2>1, OpenKeepsTypes, Zenon DEF ConnectSocket
  <1>4. {"library", "channel"} \in SUBSET {"library", "channel", "port", "socket"}
    BY SMT
  <1>5. CASE "pcan" \in Choices /\ ConnectPcan
    BY <1>0, <1>1, <1>2, <1>4, <1>5, OpenKeepsTypes, Zenon
       DEF ConnectPcan, StartThread
  <1>6. CASE "kvaser" \in Choices /\ ConnectKvaser
    BY <1>0, <1>1, <1>2, <1>4, <1>6, OpenKeepsTypes, Zenon
       DEF ConnectKvaser, StartThread
  <1>7. CASE "canable" \in Choices /\ ConnectCanable
    <2>1. {"port"} \in SUBSET {"library", "channel", "port", "socket"}
      BY SMT
    <2> QED
      BY <1>0, <1>1, <1>2, <1>7, <2>1, OpenKeepsTypes, Zenon
         DEF ConnectCanable, StartThread
  <1> QED
    BY <1>1, <1>3, <1>5, <1>6, <1>7, Zenon DEF Connect

LEMMA DisconnectKeepsTypes ==
  ASSUME AdapterTypes, QueueTypes, Disconnect
  PROVE  AdapterTypes' /\ QueueTypes'
  <1>1. AdapterTypes'
    BY Zenon DEF Disconnect, DisconnectCurrent, DisconnectSocket, ThreadGone,
                 AdapterTypes
  <1>2. incoming' = incoming \/ incoming' = <<>>
    BY Zenon DEF Disconnect, DisconnectCurrent, DisconnectSocket
  <1>3. <<>> \in Seq(Events) /\ Len(<<>>) = 0
    BY SMT
  <1>4. 0 <= MaxFrames
    BY AdapterAssumption, SMT
  <1>5. QueueTypes'
    BY <1>2, <1>3, <1>4, Zenon DEF QueueTypes
  <1> QED BY <1>1, <1>5

LEMMA ArriveKeepsTypes ==
  ASSUME AdapterTypes, QueueTypes, NEW frame \in Frames, Arrive(frame)
  PROVE  AdapterTypes' /\ QueueTypes'
  <1>1. AdapterTypes'
    BY Zenon DEF Arrive, ReadPcan, ReadKvaser, ReadCanable, ReadSocket,
                 AdapterTypes
  <1>2. QueueTypes'
    BY QueueGrows, Zenon DEF Arrive, Push, Events
  <1> QED BY <1>1, <1>2

LEMMA TakeKeepsTypes ==
  ASSUME AdapterTypes, QueueTypes, TakeIncoming
  PROVE  AdapterTypes' /\ QueueTypes'
  <1>1. AdapterTypes'
    BY Zenon DEF TakeIncoming, AdapterTypes
  <1>2. /\ incoming \in Seq(Events) /\ incoming # <<>>
        /\ incoming' = Tail(incoming) /\ Len(incoming) <= MaxFrames
    BY Zenon DEF TakeIncoming, QueueTypes
  <1>3. /\ incoming' \in Seq(Events) /\ Len(incoming') = Len(incoming) - 1
        /\ Len(incoming) \in Nat
    BY <1>2, RestIs, LenProperties
  <1>4. Len(incoming) - 1 <= MaxFrames
    BY <1>2, <1>3, AdapterAssumption, SMT
  <1> QED BY <1>1, <1>3, <1>4, Zenon DEF QueueTypes

LEMMA AdapterTypesRead ==
  ASSUME AdapterTypes, QueueTypes, UNCHANGED adapterVars
  PROVE  AdapterTypes' /\ QueueTypes'
  BY Zenon DEF adapterVars, AdapterTypes, QueueTypes

\* The window.
LEMMA WindowTypesRead ==
  ASSUME WindowTypes, UNCHANGED <<guiVars, bus>>
  PROVE  WindowTypes'
  BY Zenon DEF WindowTypes, FlagTypes, CountTypes, guiVars

LEMMA MotorTypesRead ==
  ASSUME MotorTypes, UNCHANGED bridgeVars
  PROVE  MotorTypes'
  BY Zenon DEF MotorTypes, ModeTypes, bridgeVars

LEMMA ConnectionIsBoolean == IsConnected \in BOOLEAN /\ IsConnected' \in BOOLEAN
  BY Zenon DEF IsConnected

LEMMA RequestKeepsBusType ==
  ASSUME bus \in Buttons \cup {"query", "none"}, RequestData
  PROVE  bus' \in Buttons \cup {"query", "none"}
  BY Zenon DEF RequestData

LEMMA NotifierKeepsCount ==
  ASSUME leaked \in 0 .. MaxNotifiers, SetupSocketNotifier
  PROVE  leaked' \in 0 .. MaxNotifiers
  BY NotifiersAssumption, SMT DEF SetupSocketNotifier

\* The panel after the adapter has told it of a connection, or of its end.
LEMMA PanelKeepsTypes ==
  ASSUME WindowTypes, OnConnected \/ OnDisconnected \/ UNCHANGED <<shown, enabled, leaked, bus>>
  PROVE  /\ shown' \in BOOLEAN /\ enabled' \in BOOLEAN
         /\ leaked' \in 0 .. MaxNotifiers
         /\ bus' \in Buttons \cup {"query", "none"}
  <1>1. /\ shown \in BOOLEAN /\ enabled \in BOOLEAN /\ leaked \in 0 .. MaxNotifiers
        /\ bus \in Buttons \cup {"query", "none"}
    BY Zenon DEF WindowTypes, FlagTypes, CountTypes
  <1> QED
    BY <1>1, RequestKeepsBusType, NotifierKeepsCount, Zenon
       DEF OnConnected, OnDisconnected

LEMMA ConnectionsKeepTypes ==
  ASSUME AdapterTypes, QueueTypes, WindowTypes, MotorTypes,
         OnConnect \/ StopThread \/ ThreadJoined \/ Reconnect \/ OnDisconnect
  PROVE  AdapterTypes' /\ QueueTypes' /\ WindowTypes' /\ MotorTypes'
  <1>1. UNCHANGED bridgeVars /\ UNCHANGED <<busy, online, page, timeoutTimer, reading>>
    BY Zenon DEF OnConnect, StopThread, ThreadJoined, Reconnect, OnDisconnect
  <1>2. joining' \in {"no", "disconnect", "connect"}
    BY Zenon DEF OnConnect, StopThread, ThreadJoined, Reconnect, OnDisconnect,
                 WindowTypes
  <1>3. OnConnected \/ OnDisconnected \/ UNCHANGED <<shown, enabled, leaked, bus>>
    BY Zenon DEF OnConnect, StopThread, ThreadJoined, Reconnect, OnDisconnect
  <1>4. WindowTypes'
    BY <1>1, <1>2, <1>3, PanelKeepsTypes, Zenon
       DEF WindowTypes, FlagTypes, CountTypes
  <1>5. Connect \/ Disconnect \/ AskThreadToStop
    BY Zenon DEF OnConnect, StopThread, ThreadJoined, Reconnect, OnDisconnect
  <1>6. ASSUME AskThreadToStop PROVE AdapterTypes' /\ QueueTypes'
    BY <1>6, Zenon DEF AskThreadToStop, AdapterTypes, QueueTypes
  <1> QED
    BY <1>1, <1>4, <1>5, <1>6, ConnectKeepsTypes, DisconnectKeepsTypes,
       MotorTypesRead, Zenon

LEMMA ClicksKeepTypes ==
  ASSUME WindowTypes,
         \/ \E command \in Offered : Click(command)
         \/ Query \/ HandleTimeout \/ OnServerOffline
  PROVE  WindowTypes'
  <1>1. ASSUME NEW command \in Offered, Click(command) PROVE WindowTypes'
    <2>1. command \in Buttons
      BY Zenon DEF Offered
    <2>2. bus' \in Buttons \cup {"query", "none"}
      BY <1>1, <2>1, Zenon DEF Click, Accepted, Refused, Transmit, WindowTypes
    <2>3. page' \in Modes
      <3>1. CASE \E m \in Modes : command = SelectCommand[m]
        <4>1. page' = CHOOSE m \in Modes : command = SelectCommand[m]
          BY <1>1, <3>1, Zenon DEF Click, ShowPageOf
        <4> QED BY <3>1, <4>1, Zenon
      <3>2. CASE ~ \E m \in Modes : command = SelectCommand[m]
        BY <1>1, <3>2, Zenon DEF Click, ShowPageOf, WindowTypes
      <3> QED BY <3>1, <3>2
    <2>4. busy' \in BOOLEAN /\ enabled' \in BOOLEAN
      BY <1>1, ConnectionIsBoolean, Zenon
         DEF Click, Accepted, Refused, EnableButtons, WindowTypes, FlagTypes
    <2> QED
      BY <1>1, <2>2, <2>3, <2>4, Zenon
         DEF Click, WindowTypes, FlagTypes, CountTypes
  <1>2. CASE Query
    BY <1>2, RequestKeepsBusType, Zenon
       DEF Query, guiVars, WindowTypes, FlagTypes, CountTypes
  <1>3. CASE HandleTimeout
    BY <1>3, ConnectionIsBoolean, Zenon
       DEF HandleTimeout, ReleaseOnTimeout, EnableButtons, WindowTypes,
           FlagTypes, CountTypes
  <1>4. CASE OnServerOffline
    BY <1>4, Zenon DEF OnServerOffline, OnDisconnected, WindowTypes,
                       FlagTypes, CountTypes
  <1> QED BY <1>1, <1>2, <1>3, <1>4

\* A wake-up has at most as much to handle as there are frames or notifiers.
LEMMA WakeKeepsTypes ==
  ASSUME WindowTypes, QueueTypes, Wake
  PROVE  WindowTypes'
  <1>1. Len(incoming) \in Nat /\ Len(incoming) <= MaxFrames
    BY LenProperties DEF QueueTypes
  <1>2. leaked \in 0 .. MaxNotifiers
    BY Zenon DEF WindowTypes, CountTypes
  <1>3. reading' = Len(incoming) \/ reading' \in 1 .. leaked + (IF shown THEN 1 ELSE 0)
    BY Zenon DEF Wake
  <1>4. reading' \in 0 .. MaxFrames + MaxNotifiers + 1
    <2>1. (IF shown THEN 1 ELSE 0) \in {0, 1}
      BY Zenon
    <2> DEFINE one == IF shown THEN 1 ELSE 0
               l == Len(incoming)
    <2>2. /\ one \in {0, 1} /\ l \in Nat /\ l <= MaxFrames
          /\ reading' = l \/ reading' \in 1 .. leaked + one
      BY <1>1, <1>3, <2>1
    <2> HIDE DEF one, l
    <2> QED BY <1>2, <2>2, AdapterAssumption, NotifiersAssumption, SMT
  <1> QED BY <1>4, Zenon DEF Wake, WindowTypes, FlagTypes, CountTypes

LEMMA ReadKeepsTypes ==
  ASSUME WindowTypes, ProcessReadEvent
  PROVE  WindowTypes'
  <1>1. reading' \in 0 .. MaxFrames + MaxNotifiers + 1
    BY AdapterAssumption, NotifiersAssumption, SMT
       DEF ProcessReadEvent, WindowTypes, CountTypes
  <1>2. OnFrame(Head(incoming))
        \/ UNCHANGED <<busy, online, enabled, shown, timeoutTimer, leaked, bus>>
    BY Zenon DEF ProcessReadEvent
  <1>3. UNCHANGED <<page, joining>>
    BY Zenon DEF ProcessReadEvent
  <1>4. CASE UNCHANGED <<busy, online, enabled, shown, timeoutTimer, leaked, bus>>
    BY <1>1, <1>3, <1>4, Zenon DEF WindowTypes, FlagTypes, CountTypes
  <1>5. ASSUME NEW frame, OnFrame(frame) PROVE WindowTypes'
    <2>1. /\ online' = TRUE
          /\ busy' \in {busy, FALSE} /\ timeoutTimer' \in {timeoutTimer, FALSE}
      BY <1>5, Zenon DEF OnFrame
    <2>2. CASE ~online
      <3>1. OnConnected
        BY <1>5, <2>2, Zenon DEF OnFrame
      <3> QED
        BY <1>1, <1>3, <2>1, <3>1, PanelKeepsTypes, Zenon
           DEF WindowTypes, FlagTypes, CountTypes
    <2>3. CASE online
      <3>1. UNCHANGED <<shown, leaked, bus>> /\ enabled' \in BOOLEAN
        BY <1>5, <2>3, ConnectionIsBoolean, Zenon
           DEF OnFrame, EnableButtons, WindowTypes, FlagTypes
      <3> QED
        BY <1>1, <1>3, <2>1, <3>1, Zenon DEF WindowTypes, FlagTypes, CountTypes
    <2> QED BY <2>2, <2>3
  <1> QED BY <1>2, <1>4, <1>5

\* The motor.
LEMMA SelectionsKeepMotorTypes ==
  ASSUME MotorTypes,
         \/ \E m \in Modes : OnSelectControlMode(m)
         \/ SelectSaved \/ SelectNotSaved
  PROVE  MotorTypes'
  <1>0. "torque" \in Modes /\ "none" \notin Modes /\ "invalid" \notin Modes
    BY ModesAssumption, SMT
  <1>1. CASE Reboot
    <2>1. storedMode' \in Modes \cup {"invalid"}
      BY <1>1, SMT DEF Reboot, MotorTypes, ModeTypes
    <2>2. ModeFromRaw(storedMode') \in Modes
      BY <1>0, <2>1, Zenon DEF ModeFromRaw
    <2> QED
      BY <1>0, <1>1, <2>1, <2>2, Zenon
         DEF Reboot, SelectForgotten, Fresh, MotorTypes, ModeTypes
  <1>2. ASSUME NEW m \in Modes, SelectUnlessRunning(m) PROVE MotorTypes'
    <2>1. CASE BeginSelect(m)
      BY <2>1, Zenon DEF BeginSelect, KeepController, MotorTypes, ModeTypes
    <2>2. CASE RefuseSelect
      BY <2>2, Zenon DEF RefuseSelect, MotorTypes, ModeTypes
    <2> QED BY <1>2, <2>1, <2>2, Zenon DEF SelectUnlessRunning
  <1>3. CASE SelectSaved
    BY <1>0, <1>3, Zenon DEF SelectSaved, ActivateNew, SelectForgotten, Fresh,
                             MotorTypes, ModeTypes
  <1>4. CASE SelectNotSaved
    BY <1>0, <1>4, Zenon DEF SelectNotSaved, SelectForgotten, KeepController,
                             MotorTypes, ModeTypes
  <1> QED
    BY <1>1, <1>2, <1>3, <1>4, Zenon DEF OnSelectControlMode

LEMMA ExecuteKeepsMotorTypes ==
  ASSUME MotorTypes, NEW command, Execute(command)
  PROVE  MotorTypes'
  <1>1. CASE OnStart \/ OnStop \/ OnEmergencyStop \/ OnClearFault
             \/ OnIdentifyElectrical
    <2>1. UNCHANGED selectVars /\ KeepController
          /\ state' \in {state, "Enabled", "Ready", "Idle", "Calibrating"}
      BY <1>1, Zenon DEF OnStart, OnStop, OnEmergencyStop, OnClearFault,
                         OnIdentifyElectrical, Command
    <2> QED
      BY <2>1, Zenon DEF selectVars, KeepController, MotorTypes, ModeTypes
  <1>2. CASE OnNotImplemented
    BY <1>2, MotorTypesRead DEF OnNotImplemented
  <1>3. CASE \E m \in Modes : OnSelectControlMode(m)
    BY <1>3, SelectionsKeepMotorTypes
  <1>4. ASSUME NEW m \in Modes, OnSetSetpoint(m) PROVE MotorTypes'
    BY <1>4, Zenon DEF OnSetSetpoint, TrySet, selectVars, MotorTypes, ModeTypes
  <1>5. ASSUME NEW l \in Loops, OnSetPid(l) PROVE MotorTypes'
    BY <1>5, Zenon DEF OnSetPid, TrySetPidGains, selectVars, MotorTypes,
                       ModeTypes
  <1> QED
    BY <1>1, <1>2, <1>3, <1>4, <1>5, Zenon DEF Execute

LEMMA BusStepsKeepTypes ==
  ASSUME AdapterTypes, QueueTypes, WindowTypes, MotorTypes,
         \/ HeartbeatArrives \/ OnCommand \/ CommandLost \/ OtherMaster
         \/ SelectEnds \/ MotorSteps
  PROVE  AdapterTypes' /\ QueueTypes' /\ WindowTypes' /\ MotorTypes'
  <1>1. WindowTypes'
    <2>1. UNCHANGED guiVars /\ bus' \in {bus, "none"}
      BY Zenon DEF HeartbeatArrives, OnCommand, CommandLost, OtherMaster,
                   SelectEnds, MotorSteps
    <2> QED
      BY <2>1, Zenon DEF guiVars, WindowTypes, FlagTypes, CountTypes
  <1>2. AdapterTypes' /\ QueueTypes'
    <2>1. UNCHANGED adapterVars \/ \E frame \in Frames : Arrive(frame)
      BY Zenon DEF HeartbeatArrives, OnCommand, CommandLost, OtherMaster,
                   SelectEnds, MotorSteps, Deliver, Frames
    <2> QED BY <2>1, AdapterTypesRead, ArriveKeepsTypes, Zenon
  <1>3. MotorTypes'
    <2>1. CASE HeartbeatArrives \/ CommandLost
      BY <2>1, MotorTypesRead DEF HeartbeatArrives, CommandLost
    <2>2. CASE OnCommand \/ OtherMaster
      BY <2>2, ExecuteKeepsMotorTypes, Zenon DEF OnCommand, OtherMaster
    <2>3. CASE SelectEnds
      BY <2>3, SelectionsKeepMotorTypes DEF SelectEnds
    <2>4. CASE MotorSteps
      BY <2>4, Zenon DEF MotorSteps, MachineStep, selectVars, KeepController,
                         MotorTypes, ModeTypes
    <2> QED BY <2>1, <2>2, <2>3, <2>4
  <1> QED BY <1>1, <1>2, <1>3

\* For every set of modes, interfaces and commands: the queue of received
\* frames, the wake-ups and the notifiers left behind stay within their bounds,
\* and window, adapter and motor hold what they are declared to hold.
THEOREM CommanderTypesAreKept == CommanderSpec => []CommanderTypeOK
  <1> DEFINE Types == AdapterTypes /\ QueueTypes /\ WindowTypes /\ MotorTypes
  <1>1. CommanderInit => Types
    BY TypesHoldAtFirst
  <1>2. Types /\ [CommanderNext]_commanderVars => Types'
    <2> SUFFICES ASSUME AdapterTypes, QueueTypes, WindowTypes, MotorTypes,
                        [CommanderNext]_commanderVars
                 PROVE  AdapterTypes' /\ QueueTypes' /\ WindowTypes' /\ MotorTypes'
      BY Zenon
    <2>1. CASE OnConnect \/ StopThread \/ ThreadJoined \/ Reconnect \/ OnDisconnect
      BY <2>1, ConnectionsKeepTypes
    <2>2. CASE \/ \E command \in Offered : Click(command)
               \/ Query \/ HandleTimeout \/ OnServerOffline
      <3>1. UNCHANGED adapterVars /\ UNCHANGED bridgeVars
        BY <2>2, Zenon DEF Click, Query, HandleTimeout, OnServerOffline
      <3> QED
        BY <2>2, <3>1, ClicksKeepTypes, AdapterTypesRead, MotorTypesRead, Zenon
    <2>3. CASE Wake
      <3>1. UNCHANGED adapterVars /\ UNCHANGED bridgeVars
        BY <2>3, Zenon DEF Wake
      <3> QED
        BY <2>3, <3>1, WakeKeepsTypes, AdapterTypesRead, MotorTypesRead, Zenon
    <2>4. CASE ProcessReadEvent
      <3>1. UNCHANGED bridgeVars /\ TakeIncoming
        BY <2>4, Zenon DEF ProcessReadEvent
      <3> QED
        BY <2>4, <3>1, ReadKeepsTypes, TakeKeepsTypes, MotorTypesRead, Zenon
    <2>5. CASE ThreadSteps
      <3>1. UNCHANGED bridgeVars /\ UNCHANGED <<guiVars, bus>>
        BY <2>5, Zenon DEF ThreadSteps
      <3>2. AdapterTypes' /\ QueueTypes'
        BY <2>5, Zenon DEF ThreadSteps, ReadHalfLine, DropLine,
                           ReceiveLoopEnds, AdapterTypes, QueueTypes
      <3> QED
        BY <3>1, <3>2, WindowTypesRead, MotorTypesRead, Zenon
    <2>6. CASE \/ HeartbeatArrives \/ OnCommand \/ CommandLost \/ OtherMaster
               \/ SelectEnds \/ MotorSteps
      BY <2>6, BusStepsKeepTypes
    <2>7. CASE UNCHANGED commanderVars
      BY <2>7, AdapterTypesRead, WindowTypesRead, MotorTypesRead, Zenon
         DEF commanderVars
    <2> QED
      BY <2>1, <2>2, <2>3, <2>4, <2>5, <2>6, <2>7, Zenon
         DEF CommanderNext, GuiSteps
  <1>3. Types => CommanderTypeOK
    BY CommanderTypesAre, Zenon
  <1> QED
    BY <1>1, <1>2, <1>3, PTL DEF CommanderSpec
=============================================================================
