---------------------------- MODULE BridgeServer ----------------------------
(***************************************************************************)
(* The server half of the hardware bridge: SerialOverTcpServer and         *)
(* CanBusOverTcpServer share their structure, and the kind of the link     *)
(* says which one runs.  A session is two tasks of the asyncio loop, one   *)
(* per direction; the blocking reads run in executor threads, which a      *)
(* cancelled task leaves behind.  Both tasks use the reader and the writer *)
(* of the moment, not those their session began with.                      *)
(***************************************************************************)
EXTENDS TcpClient

CONSTANTS
    Frames,       \* frames the hardware receives
    MaxTraffic    \* bound on sends and frames together

ASSUME FramesAssumption == Frames \in Nat /\ MaxTraffic \in Nat

VARIABLES
    server,      \* "down", "listening", "stopping" or "stopped"
    hardware,    \* the serial port or the CAN bus is open
    writer,      \* the connection of self._writer and self._reader, or 0
    accepted,    \* connections whose handler has started
    running,     \* sessions whose two tasks run
    ending,      \* sessions that wait for their tasks or their writer
    reading,     \* per connection its executor read, and the frame it got
    source,      \* per session the connection whose reader it waits on, or 0
    buffer,      \* per session what it has read and not sent
    taken,       \* frames read from the hardware so far
    onHardware,  \* what has been sent to the hardware, and by which session
    shared       \* a session began while another one's tasks were there

sessionVars == <<running, ending, source, buffer>>
serverVars == <<server, hardware, writer, accepted, sessionVars, reading, taken,
                onHardware, shared>>
linkVars == <<clientVars, serverVars>>

Idle == [at |-> "none", frame |-> 0]
Blocked == [at |-> "blocked", frame |-> 0]

ServerInit ==
    /\ server = "down" /\ hardware = FALSE
    /\ writer = 0 /\ accepted = {} /\ running = {} /\ ending = {}
    /\ reading = [c \in Conns |-> Idle]
    /\ source = [c \in Conns |-> 0]
    /\ buffer = [c \in Conns |-> <<>>]
    /\ taken = 0 /\ onHardware = <<>> /\ shared = FALSE

LinkInit == ClientInit /\ ServerInit

LinkTypeOK ==
    /\ ClientTypeOK
    /\ writer \in Conns \cup {0} /\ source \in [Conns -> Conns \cup {0}]
    /\ running \cap ending = {} /\ running \cup ending \subseteq accepted
    /\ \A c \in Conns :
        reading[c] \in {Idle, Blocked} \cup [at : {"done"}, frame : 1 .. Frames]

-----------------------------------------------------------------------------

\* start(): the hardware first, then the port; without the port the hardware
\* is closed again.
Start ==
    /\ server = "down"
    /\ \/ server' = "listening" /\ hardware' = TRUE
       \/ server' = "stopped" /\ hardware' = FALSE
    /\ UNCHANGED <<clientVars, writer, accepted, sessionVars, reading, taken,
                   onHardware, shared>>

Accept(c) ==
    /\ server \in {"listening", "stopping"} /\ ConnectionEstablished(c)
    /\ UNCHANGED serverVars

Shut(c) == tcp' = [tcp EXCEPT ![c] = IF @ = "open" THEN "shut" ELSE @]

KeepSession == UNCHANGED <<kind, wireVars, client, sendVars, delivered>>

\* _close_writer: the slot is cleared only by its own connection.
WriterAfter(c) == IF writer = c THEN 0 ELSE writer

\* _handle_client: a second client is turned away, the first gets both tasks.
HandleClient(c) ==
    /\ tcp[c] \in {"open", "shut"} /\ c \notin accepted
    /\ accepted' = accepted \cup {c}
    /\ IF writer # 0
       THEN /\ Shut(c) /\ writer' = WriterAfter(c)
            /\ UNCHANGED <<running, reading, shared>>
       ELSE /\ writer' = c /\ running' = running \cup {c}
            /\ reading' = [reading EXCEPT ![c] = Blocked]
            /\ shared' = (shared \/ running \cup ending # {})
            /\ UNCHANGED tcp
    /\ KeepSession
    /\ UNCHANGED <<server, hardware, ending, source, buffer, taken, onHardware>>

\* The blocking read of an executor thread gets the next frame of the
\* hardware; one that nobody awaits any more gets it all the same.
Recv(c) ==
    /\ hardware /\ reading[c] = Blocked /\ taken < Frames
    /\ taken' = taken + 1
    /\ reading' = [reading EXCEPT ![c] = [at |-> "done", frame |-> taken']]
    /\ UNCHANGED <<clientVars, server, hardware, writer, accepted, sessionVars,
                   onHardware, shared>>

Halves(n) == IF kind = "can" THEN <<<<n, 1>>, <<n, 2>>>> ELSE <<<<n, n>>>>

\* Mutant: a session that waits for its tasks still runs them.
EndTasksLater(c) == ending' = ending \cup {c} /\ UNCHANGED <<running, source, buffer>>

\* A task ends, with its partial frame, and the handler ends the other one.
EndSession(c) ==
    /\ running' = running \ {c} /\ ending' = ending \cup {c}
    /\ source' = [source EXCEPT ![c] = 0] /\ buffer' = [buffer EXCEPT ![c] = <<>>]

\* _can_to_tcp, _serial_to_tcp: what was read goes to the writer of the
\* moment; with none the task ends in an exception.
ToClient(c) ==
    /\ reading[c].at = "done"
    /\ IF c \in running /\ writer # 0
       THEN /\ toClient' = [toClient EXCEPT ![writer] = @ \o Halves(reading[c].frame)]
            /\ reading' = [reading EXCEPT ![c] = Blocked]
            /\ UNCHANGED sessionVars
       ELSE /\ reading' = [reading EXCEPT ![c] = Idle]
            /\ IF c \in running THEN EndSession(c) ELSE UNCHANGED sessionVars
            /\ UNCHANGED toClient
    /\ UNCHANGED <<kind, tcp, toServer, client, sendVars, delivered, server, hardware,
                   writer, accepted, taken, onHardware, shared>>

\* The 50 ms of a read pass without a frame: the loop reads again, unless
\* its session is over or the hardware closed.
RecvTimeout(c) ==
    /\ reading[c] = Blocked /\ ~(c \in running /\ hardware)
    /\ reading' = [reading EXCEPT ![c] = Idle]
    /\ IF c \in running THEN EndSession(c) ELSE UNCHANGED sessionVars
    /\ UNCHANGED <<clientVars, server, hardware, writer, accepted, taken, onHardware,
                   shared>>

\* Mutant: the first piece is taken for a frame.
EveryPiece == 1

\* A CAN frame is two pieces; serial data needs no framing.
FrameSize == IF kind = "can" THEN 2 ELSE 1

HoldsFrame(c) == Len(buffer[c]) >= FrameSize

\* self._reader is looked up for each read; one that waits keeps its own.
Reader(c) == IF source[c] # 0 THEN source[c] ELSE writer

\* _tcp_to_can, _tcp_to_serial: what has arrived is read, as far as that is.
Read(c) ==
    LET r == Reader(c)
    IN  /\ c \in running /\ ~HoldsFrame(c) /\ r # 0
        /\ \E n \in 1 .. Len(toServer[r]) :
            /\ kind = "serial" => n = 1
            /\ buffer' = [buffer EXCEPT ![c] = @ \o SubSeq(toServer[r], 1, n)]
            /\ toServer' = [toServer EXCEPT ![r] = SubSeq(@, n + 1, Len(@))]
        /\ source' = [source EXCEPT ![c] = 0]
        /\ UNCHANGED <<kind, tcp, toClient, client, sendVars, delivered, server,
                       hardware, writer, accepted, running, ending, reading, taken,
                       onHardware, shared>>

\* A read waits for more.  There may be no reader any more, or another task
\* waits on it: both end the task in an exception.
ReadAgain(c) ==
    /\ c \in running /\ ~HoldsFrame(c) /\ source[c] = 0
    /\ IF writer # 0 /\ \A d \in running : source[d] # writer
       THEN source' = [source EXCEPT ![c] = writer] /\ UNCHANGED <<running, ending, buffer>>
       ELSE EndSession(c)
    /\ UNCHANGED <<clientVars, server, hardware, writer, accepted, reading, taken,
                   onHardware, shared>>

\* The first whole frame of the buffer goes to the bus; without a bus the
\* task ends in an exception.
ToHardware(c) ==
    LET first == buffer[c][1]
        last == buffer[c][FrameSize]
        message == _decode_frame(Half(EncodeFrame(Typed(first[1])), first[2])
                                   \o Half(EncodeFrame(Typed(last[1])), last[2]))
        sent == IF kind = "serial" THEN Append(first, c)
                ELSE <<first[1], last[1], c, message>>
    IN  /\ c \in running /\ HoldsFrame(c)
        /\ IF hardware
           THEN /\ onHardware' = Append(onHardware, sent)
                /\ buffer' = [buffer EXCEPT ![c] = SubSeq(@, FrameSize + 1, Len(@))]
                /\ UNCHANGED <<running, ending, source>>
           ELSE EndSession(c) /\ UNCHANGED onHardware
        /\ UNCHANGED <<clientVars, server, hardware, writer, accepted, reading, taken,
                       shared>>

\* read() returns nothing more: the client is gone or the transport closed.
\* A driver may fail at any time.
SessionFails(c) ==
    /\ c \in running
    /\ \/ /\ ~HoldsFrame(c) /\ Reader(c) # 0
          /\ tcp[Reader(c)] # "open" /\ toServer[Reader(c)] = <<>>
       \/ hardware
    /\ EndSession(c)
    /\ UNCHANGED <<clientVars, server, hardware, writer, accepted, reading, taken,
                   onHardware, shared>>

\* The finally block, once both tasks are gone; the thread of a cancelled
\* read may live on.
CloseSession(c) ==
    /\ c \in ending /\ ending' = ending \ {c}
    /\ Shut(c) /\ writer' = WriterAfter(c)
    /\ toServer' = [toServer EXCEPT ![c] = <<>>]
    /\ UNCHANGED <<kind, toClient, client, sendVars, delivered>>
    /\ UNCHANGED <<server, hardware, accepted, running, source, buffer, reading, taken,
                   onHardware, shared>>

\* stop(), up to its first await: the slot is free while the old tasks run
\* and the port still listens.
StopWriter ==
    /\ server = "listening" /\ server' = "stopping"
    /\ IF writer = 0 THEN UNCHANGED tcp ELSE Shut(writer)
    /\ writer' = 0
    /\ KeepSession
    /\ UNCHANGED <<hardware, accepted, sessionVars, reading, taken, onHardware, shared>>

\* The port and the hardware are closed.
StopHardware ==
    /\ server = "stopping" /\ server' = "stopped"
    /\ hardware' = FALSE
    /\ UNCHANGED <<clientVars, writer, accepted, sessionVars, reading, taken,
                   onHardware, shared>>

ServerNext ==
    \/ Start \/ StopWriter \/ StopHardware
    \/ \E c \in Conns :
        \/ Accept(c) \/ HandleClient(c) \/ Recv(c) \/ ToClient(c) \/ RecvTimeout(c)
        \/ Read(c) \/ ReadAgain(c) \/ ToHardware(c) \/ SessionFails(c)
        \/ CloseSession(c)

Attempts == Cardinality({c \in Conns : tcp[c] # "none"})

\* Bytes of a serial port have no frames that a second client could join, so
\* every further connection of a serial link takes the place of an item.
WithinBounds ==
    /\ given + taken <= MaxTraffic
    /\ kind = "serial" => given + taken + Attempts <= MaxTraffic + 1

LinkNext ==
    /\ \/ ClientNext /\ UNCHANGED serverVars
       \/ ServerNext
    /\ WithinBounds'

-----------------------------------------------------------------------------

InOrder(s) == \A j, k \in DOMAIN s : j < k => s[j][1] <= s[k][1]

\* What each client sent is in order, however the clients alternate.
InOrderByClient(s) ==
    \A j, k \in DOMAIN s : j < k /\ s[j][3] = s[k][3] => s[j][1] <= s[k][1]

\* Both halves are of one frame, and the message is the one it was made of.
WholeFrames(s, Original(_)) ==
    kind = "can" => \A j \in DOMAIN s :
        s[j][1] = s[j][2] /\ s[j][Len(s[j])] = Original(s[j][1])

Once(s) == \A j, k \in DOMAIN s : s[j] = s[k] => j = k

\* What the hardware sends passes at most once, and CAN frames whole and with
\* the identifier, its length and the data they had, whatever clients come and
\* go.  So does what clients send, and in order both ways, whichever clients
\* come, are turned away or break off inside a frame, as long as one session's
\* tasks are gone before the next begin; while the server listens they are.
\* (stop() frees the slot while the old tasks still run and the port still
\* accepts; a task that goes on then joins the next client's bytes to its own.)
FramesArriveInOrder ==
    /\ \A c \in Conns : WholeFrames(delivered[c], OnBus) /\ Once(delivered[c])
    /\ server = "listening" => ~shared
    /\ ~shared =>
        /\ WholeFrames(onHardware, Typed) /\ Once(onHardware)
        /\ InOrderByClient(onHardware)
        /\ \A c \in Conns : InOrder(delivered[c])
=============================================================================
