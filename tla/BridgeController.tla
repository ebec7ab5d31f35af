-------------------------- MODULE BridgeController --------------------------
(***************************************************************************)
(* The bridge's window: BridgeWindow and its panels on the GUI thread, and *)
(* the thread of BridgeController that owns the network and both clients.  *)
(* The two share stopRequested, the optional clients, the two send slots   *)
(* and two queues: Qt's events for the window, and what is scheduled on    *)
(* the network's event dispatcher.                                         *)
(***************************************************************************)
EXTENDS Naturals, Sequences

CONSTANTS
    MaxConnects,    \* times Connect is pressed
    MaxSends,       \* sends of either kind
    MaxEvents       \* events waiting in Qt's queue

ASSUME ControllerAssumption ==
    MaxConnects \in Nat /\ MaxSends \in Nat /\ MaxEvents \in Nat

VARIABLES
    gui,         \* what the GUI thread is in the middle of
    window,      \* connectButton enabled, serialConnected, canConnected
    thread,      \* infraThread
    stopRequested,
    existing,    \* which of network, serialClient and canClient exist
    connects,    \* connections begun: the current one is the last
    events,      \* queued invocations of the window's slots
    slot,        \* pendingSerialSend and pendingCanSend
    scheduled,   \* lambdas on the dispatcher
    sends,       \* the connection each send was made on
    handed       \* sends handed to a client, with the connection

controllerVars == <<gui, window, thread, stopRequested, existing, connects,
                    events, slot, scheduled, sends, handed>>

Kinds == {"serial", "can"}
AllExist == Kinds \cup {"network"}

ControllerTypeOK ==
    /\ gui \in {"idle", "serial", "can", "joining", "crashed"}
    /\ thread \in {"none", "resolving", "running", "cleaning", "finished"}
    /\ window \in [connect : BOOLEAN, serial : BOOLEAN, can : BOOLEAN]
    /\ existing \subseteq AllExist
    /\ \A k \in Kinds : slot[k] \in 0 .. Len(sends)
    /\ window.connect /\ gui # "joining" => thread = "none"

ControllerInit ==
    /\ gui = "idle"
    /\ window = [connect |-> TRUE, serial |-> FALSE, can |-> FALSE]
    /\ thread = "none" /\ stopRequested = FALSE
    /\ existing = {} /\ connects = 0
    /\ events = <<>> /\ scheduled = <<>>
    /\ slot = [k \in Kinds |-> 0]
    /\ sends = <<>> /\ handed = <<>>

Post(event) ==
    /\ Len(events) < MaxEvents
    /\ events' = Append(events, event)

-----------------------------------------------------------------------------

\* OnConnectClicked, BridgeController::Connect.
OnConnectClicked ==
    /\ gui = "idle" /\ window.connect /\ connects < MaxConnects
    /\ window' = [window EXCEPT !.connect = FALSE]
    /\ IF thread # "none"
       THEN UNCHANGED <<thread, stopRequested, connects>>
       ELSE /\ thread' = "resolving" /\ stopRequested' = FALSE
            /\ connects' = connects + 1
    /\ UNCHANGED <<gui, existing, events, slot, scheduled, sends, handed>>

\* Disconnect blocks the GUI thread in join().
Disconnect ==
    /\ stopRequested' = TRUE /\ gui' = "joining"
    /\ UNCHANGED <<window, thread, existing, connects, slot, scheduled, sends, handed>>

OnDisconnectClicked ==
    /\ gui = "idle" /\ ~window.connect
    /\ Disconnect
    /\ UNCHANGED events

\* join() returns; the rest of OnDisconnectClicked.
Joined ==
    /\ gui = "joining" /\ thread \in {"none", "finished"}
    /\ gui' = "idle" /\ thread' = "none" /\ stopRequested' = FALSE
    /\ window' = [connect |-> TRUE, serial |-> FALSE, can |-> FALSE]
    /\ UNCHANGED <<existing, connects, events, slot, scheduled, sends, handed>>

\* Events reach the window however old they are.
OnConnectionChanged(kind, up) ==
    /\ gui = "idle" /\ events # <<>> /\ Head(events) = <<kind, up>>
    /\ events' = Tail(events)
    /\ window' = [window EXCEPT ![kind] = up]
    /\ UNCHANGED <<gui, thread, stopRequested, existing, connects, slot, scheduled,
                   sends, handed>>

OnConnectionError ==
    /\ gui = "idle" /\ events # <<>> /\ Head(events) = <<"error", TRUE>>
    /\ events' = Tail(events)
    /\ Disconnect

\* SendSerial and SendCan in two parts: the check of the client, which the
\* other thread may reset right after it...  Neither the terminal's answers
\* nor Return in the CAN panel wait for a connection the window knows of.
SendRequested(kind) ==
    /\ gui = "idle" /\ kind \in existing /\ Len(sends) < MaxSends
    /\ gui' = kind
    /\ UNCHANGED <<window, thread, stopRequested, existing, connects, events, slot,
                   scheduled, sends, handed>>

\* ... and the slot and the dispatcher, which is gone with the network.
Schedule(kind) ==
    /\ gui = kind
    /\ sends' = Append(sends, connects)
    /\ slot' = [slot EXCEPT ![kind] = Len(sends')]
    /\ IF "network" \in existing
       THEN gui' = "idle" /\ scheduled' = Append(scheduled, kind)
       ELSE gui' = "crashed" /\ UNCHANGED scheduled
    /\ UNCHANGED <<window, thread, stopRequested, existing, connects, events, handed>>

-----------------------------------------------------------------------------

\* The thread of Connect: resolving the host fails or both clients are made.
Resolve ==
    /\ thread = "resolving"
    /\ thread' = "running" /\ existing' = AllExist
    /\ UNCHANGED <<gui, window, stopRequested, connects, events, slot, scheduled,
                   sends, handed>>

KeepAllBut == UNCHANGED <<gui, window, stopRequested, existing, connects, slot,
                          scheduled, sends, handed>>

\* An exception of resolving or of a receive callback is posted as an error.
Fail ==
    /\ thread \in {"resolving", "running"}
    /\ thread' = "cleaning" /\ Post(<<"error", TRUE>>)
    /\ KeepAllBut

\* SerialObserver and CanObserver post what their client reports.
Observe(kind, up) ==
    /\ thread = "running" /\ Post(<<kind, up>>)
    /\ KeepAllBut /\ UNCHANGED thread

\* Mutant: the string is copied out of the slot instead of moved.
TakenByCopy(kind) == slot

\* A moved string is empty; a moved optional still holds its frame.
Taken(kind) == [slot EXCEPT ![kind] = IF kind = "serial" THEN 0 ELSE @]

\* The scheduled lambda takes the slot under the lock.
RunScheduled ==
    LET kind == Head(scheduled)
    IN  /\ thread = "running" /\ scheduled # <<>>
        /\ scheduled' = Tail(scheduled)
        /\ slot' = Taken(kind)
        /\ handed' = IF slot[kind] = 0 \/ kind \notin existing THEN handed
                     ELSE Append(handed, [kind |-> kind, send |-> slot[kind],
                                          on |-> connects])
        /\ UNCHANGED <<gui, window, thread, stopRequested, existing, connects, events,
                       sends>>

Stop ==
    /\ thread = "running" /\ stopRequested
    /\ thread' = "cleaning"
    /\ KeepAllBut /\ UNCHANGED events

\* The resets at the end of the thread, one after the other; the dispatcher
\* goes with the network and what was scheduled with it.
Cleanup(what) ==
    /\ thread = "cleaning" /\ what \in existing
    /\ what = "can" => "serial" \notin existing
    /\ what = "network" => existing = {"network"}
    /\ existing' = existing \ {what}
    /\ scheduled' = IF what = "network" THEN <<>> ELSE scheduled
    /\ UNCHANGED <<gui, window, thread, stopRequested, connects, events, slot, sends,
                   handed>>

ThreadEnds ==
    /\ thread = "cleaning" /\ existing = {}
    /\ thread' = "finished"
    /\ KeepAllBut /\ UNCHANGED events

ControllerNext ==
    \/ OnConnectClicked \/ OnDisconnectClicked \/ Joined \/ OnConnectionError
    \/ \E kind \in Kinds :
        \/ \E up \in BOOLEAN : OnConnectionChanged(kind, up) \/ Observe(kind, up)
        \/ SendRequested(kind) \/ Schedule(kind) \/ Cleanup(kind)
    \/ Resolve \/ Fail \/ RunScheduled \/ Stop \/ ThreadEnds \/ Cleanup("network")

-----------------------------------------------------------------------------

\* The slots hold one send each and survive the connection, yet what is
\* handed to a client was sent on its own connection, in the order it was
\* sent and, for serial data, never twice: a chunk may be lost to the next
\* one, but never repeated or delivered to the connection after it.
SendsStayOnTheirConnection ==
    /\ \A i \in DOMAIN handed : sends[handed[i].send] = handed[i].on
    /\ \A i, j \in DOMAIN handed :
        i < j /\ handed[i].kind = handed[j].kind =>
            \/ handed[i].send < handed[j].send
            \/ handed[i].kind = "can" /\ handed[i].send = handed[j].send
=============================================================================
