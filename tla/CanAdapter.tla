----------------------------- MODULE CanAdapter -----------------------------
(***************************************************************************)
(* The commander's end of the CAN bus: SocketCanAdapter on Linux, and      *)
(* WindowsCanAdapter over the PCAN and Kvaser drivers or a CANable on a    *)
(* serial port.  On Windows a receive thread moves frames from the driver  *)
(* into a queue that the GUI drains from a timer and that Disconnect leaves*)
(* as it is; on Linux the GUI reads the socket itself, the read blocks when*)
(* nothing is there, and what was not read is gone when it is closed.      *)
(***************************************************************************)
EXTENDS Naturals, Sequences

CONSTANTS
    Interfaces,   \* what can be chosen: "socketcan", "pcan", "kvaser", "canable"
    MaxFrames     \* bound on the received frames not yet handled

ASSUME AdapterAssumption ==
    /\ Interfaces \subseteq {"socketcan", "pcan", "kvaser", "canable"}
    /\ MaxFrames \in Nat \ {0}

VARIABLES
    platform,     \* "linux" or "windows"
    backend,      \* the open backend, or "none"
    held,         \* driver library, channel, port or socket held
    receiver,     \* the receive thread: "none", "running", "stopping", "exited"
    slcanRxBuf,   \* a CANable line received in part
    incoming      \* eventQueue on Windows, the socket's own queue on Linux

adapterVars == <<platform, backend, held, receiver, slcanRxBuf, incoming>>

Frames == {"heartbeat", "answer"}

BoundedSeq(S, n) == UNION {[1 .. k -> S] : k \in 0 .. n}

AdapterTypeOK ==
    /\ platform \in {"linux", "windows"}
    /\ backend \in Interfaces \cup {"none"}
    /\ held \subseteq {"library", "channel", "port", "socket"}
    /\ receiver \in {"none", "running", "stopping", "exited"}
    /\ slcanRxBuf \in {"empty", "half"}
    /\ incoming \in BoundedSeq(Frames \cup {"error"}, MaxFrames)

AdapterInit ==
    /\ platform \in {"linux", "windows"}
    /\ backend = "none" /\ held = {} /\ receiver = "none"
    /\ slcanRxBuf = "empty" /\ incoming = <<>>

IsConnected == backend # "none"

Choices ==
    IF platform = "linux" THEN Interfaces \cap {"socketcan"}
    ELSE Interfaces \ {"socketcan"}

\* PushFrame and PushError.
Push(event) == incoming' = Append(incoming, event)

\* Mutant: the last error path of ConnectKvaser frees the library only.
ChannelLeft(reached) == reached \ {"library"}

\* Every error path gives back what had been reached.
Released(reached) == {}

\* On Linux an error goes straight to the log.
Fail(reached) ==
    /\ held' = Released(reached)
    /\ IF platform = "windows" /\ Len(incoming) < MaxFrames
       THEN Push("error") ELSE UNCHANGED incoming
    /\ UNCHANGED <<backend, receiver, slcanRxBuf>>

Open(interface, resources) ==
    /\ backend' = interface
    /\ held' = resources
    /\ UNCHANGED incoming

StartThread == receiver' = "running"

ConnectPcan ==
    \/ Open("pcan", {"library", "channel"}) /\ StartThread /\ UNCHANGED slcanRxBuf
    \/ \E reached \in {{}, {"library"}} : Fail(reached)

ConnectKvaser ==
    \/ Open("kvaser", {"library", "channel"}) /\ StartThread /\ UNCHANGED slcanRxBuf
    \/ \E reached \in {{}, {"library"}, {"library", "channel"}} : Fail(reached)

ConnectCanable ==
    \/ Open("canable", {"port"}) /\ StartThread /\ slcanRxBuf' = "empty"
    \/ Fail({})

ConnectSocket ==
    \/ Open("socketcan", {"socket"}) /\ UNCHANGED <<receiver, slcanRxBuf>>
    \/ \E reached \in {{}, {"socket"}} : Fail(reached)

\* The name typed for the interface may have no known prefix.
Connect ==
    /\ ~IsConnected
    /\ \/ "socketcan" \in Choices /\ ConnectSocket
       \/ "pcan" \in Choices /\ ConnectPcan
       \/ "kvaser" \in Choices /\ ConnectKvaser
       \/ "canable" \in Choices /\ ConnectCanable
       \/ Fail({})
    /\ UNCHANGED platform

\* Disconnect asks the thread to stop and waits for it in join.
MustJoin == receiver # "none"

AskThreadToStop ==
    /\ receiver = "running"
    /\ receiver' = "stopping"
    /\ UNCHANGED <<platform, backend, held, slcanRxBuf, incoming>>

ThreadGone == receiver \in {"none", "exited"} /\ receiver' = "none"

DisconnectCurrent ==
    /\ platform = "windows" /\ ThreadGone
    /\ backend' = "none"
    /\ held' = {}
    /\ slcanRxBuf' = "empty"
    /\ UNCHANGED <<platform, incoming>>

\* What the kernel still holds of a socket goes with it.
DisconnectSocket ==
    /\ platform = "linux"
    /\ backend' = "none"
    /\ held' = {}
    /\ incoming' = <<>>
    /\ UNCHANGED <<platform, receiver, slcanRxBuf>>

Disconnect == DisconnectCurrent \/ DisconnectSocket

\* The thread looks at the flag between two turns of its loop.
ReceiveLoopEnds ==
    /\ receiver = "stopping"
    /\ receiver' = "exited"
    /\ UNCHANGED <<platform, backend, held, slcanRxBuf, incoming>>

\* ReadCanable: a chunk may end in the middle of a line.
ReadHalfLine ==
    /\ backend = "canable" /\ receiver \in {"running", "stopping"}
    /\ slcanRxBuf = "empty"
    /\ slcanRxBuf' = "half"
    /\ UNCHANGED <<platform, backend, held, receiver, incoming>>

Listening ==
    IF platform = "windows" THEN receiver \in {"running", "stopping"}
    ELSE IsConnected

\* ParseSlcanFrame: a line that is no data frame is dropped.
DropLine ==
    /\ slcanRxBuf = "half"
    /\ receiver \in {"running", "stopping"}
    /\ slcanRxBuf' = "empty"
    /\ UNCHANGED <<platform, backend, held, receiver, incoming>>

ReadPcan == backend = "pcan" /\ UNCHANGED slcanRxBuf

ReadKvaser == backend = "kvaser" /\ UNCHANGED slcanRxBuf

ReadCanable == backend = "canable" /\ slcanRxBuf' = "empty"

\* The kernel queues the frame until ProcessReadEvent reads it.
ReadSocket == backend = "socketcan" /\ UNCHANGED slcanRxBuf

\* A frame from the bus: through the driver and one turn of ReceiveLoop, or
\* into the socket's queue.
Arrive(frame) ==
    /\ Listening /\ Len(incoming) < MaxFrames
    /\ ReadPcan \/ ReadKvaser \/ ReadCanable \/ ReadSocket
    /\ Push(frame)
    /\ UNCHANGED <<platform, backend, held, receiver>>

\* What a frame needs to leave: the driver's write function, an open port or
\* an open socket.
SendPcan == backend = "pcan" /\ "library" \in held
SendKvaser == backend = "kvaser" /\ "library" \in held
SendCanable == backend = "canable" /\ "port" \in held
SendSocket == backend = "socketcan" /\ "socket" \in held

\* SendData: nothing leaves a closed adapter; a write may fail.
MaySend == SendPcan \/ SendKvaser \/ SendCanable \/ SendSocket

\* Arrives, or is lost.
Deliver(frame) == Arrive(frame) \/ UNCHANGED adapterVars

TakeIncoming ==
    /\ incoming # <<>>
    /\ incoming' = Tail(incoming)
    /\ UNCHANGED <<platform, backend, held, receiver, slcanRxBuf>>

-----------------------------------------------------------------------------

\* Drivers, channels and ports are held exactly while a backend is open,
\* whatever step of opening failed; the receive thread never outlives the
\* driver it reads from; no half line outlives its connection.
DriverLifetime ==
    /\ IsConnected <=> held # {}
    /\ receiver # "none" => IsConnected
    /\ slcanRxBuf = "half" => backend = "canable"
=============================================================================
