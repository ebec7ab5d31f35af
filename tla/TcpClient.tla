----------------------------- MODULE TcpClient -----------------------------
(***************************************************************************)
(* The client half of the hardware bridge: TcpClientSerial or              *)
(* TcpClientCanbus on one TCP connection each, and the wire.  A frame or a *)
(* serial send is two halves, because TCP may cut it anywhere.  Sends are  *)
(* numbered as they are given, frames from the hardware as they arrive.    *)
(***************************************************************************)
EXTENDS Naturals, Sequences, FiniteSets, CanFrame

CONSTANTS
    MaxConns,     \* client objects made, one after the other
    MaxItems      \* sends given

ASSUME LinkAssumption == MaxConns \in Nat /\ MaxItems \in Nat

Conns == 1 .. MaxConns
Items == 1 .. MaxItems

VARIABLES
    kind,         \* "serial" or "can"
    tcp,          \* per connection, its phase
    toServer,     \* halves <<item, half>> on their way
    toClient,     \* halves <<frame, half>> on their way
    client,       \* the client objects
    given,        \* sends given so far
    calls,        \* how often the completion of each send was called
    result,       \* what it was called with
    delivered     \* what the receive callback was given

wireVars == <<toServer, toClient>>
sendVars == <<given, calls, result>>
clientVars == <<kind, tcp, toServer, toClient, client, given, calls, result,
                delivered>>

\* What is on the wire under a number: sends as they were typed, with short
\* and long identifiers in turn, and frames of the bus, where a long
\* identifier may have a small value.
Typed(i) == OnSendClicked(IF i % 2 = 1 THEN 5 ELSE 536870911, <<i>>)
OnBus(n) == [id |-> 2047, extended |-> n % 2 = 1, data |-> IF n = 1 THEN <<>> ELSE <<n, n>>]

\* The bytes of one half.
Half(frame, h) == SubSeq(frame, 8 * h - 7, 8 * h)

NewClient == [connected |-> FALSE, handler |-> FALSE, pend |-> 0, left |-> 0,
              queued |-> 0, half |-> 0]

ClientTypeOK ==
    /\ kind \in {"serial", "can"}
    /\ tcp \in [Conns -> {"none", "connecting", "open", "shut", "detached", "destroyed"}]
    /\ \A c \in Conns :
        /\ client[c].pend \in Items \cup {0} /\ client[c].left \in 0 .. 2
        /\ client[c].connected => client[c].handler
    /\ calls \in [Items -> 0 .. 1]
    /\ result \in [Items -> {"none", "ok", "failed"}]

ClientInit ==
    /\ kind \in {"serial", "can"}
    /\ tcp = [c \in Conns |-> "none"]
    /\ toServer = [c \in Conns |-> <<>>] /\ toClient = [c \in Conns |-> <<>>]
    /\ client = [c \in Conns |-> NewClient]
    /\ given = 0
    /\ calls = [i \in Items |-> 0] /\ result = [i \in Items |-> "none"]
    /\ delivered = [c \in Conns |-> <<>>]

-----------------------------------------------------------------------------

\* The completions of a set of sends are called, each once.
Complete(items, how) ==
    /\ calls' = [i \in Items |-> calls[i] + (IF i \in items THEN 1 ELSE 0)]
    /\ result' = [i \in Items |-> IF i \in items THEN how ELSE result[i]]

\* A serial completion carries no result.
Failure == IF kind = "can" THEN "failed" ELSE "ok"

\* The constructor asks the factory for a connection.
New(c) ==
    /\ tcp[c] = "none"
    /\ \A d \in Conns : d < c => tcp[d] # "none"
    /\ tcp' = [tcp EXCEPT ![c] = "connecting"]
    /\ UNCHANGED <<kind, wireVars, client, sendVars, delivered>>

Pending(c) == {client[c].pend, client[c].queued} \ {0}

\* The client after a disconnect; clear drops the connection handler.
Disconnected(c, clear) ==
    [client[c] EXCEPT !.connected = FALSE, !.pend = 0, !.left = 0, !.queued = 0,
                      !.handler = @ /\ ~clear]

\* Mutant: what was waiting to be sent is cleared but not answered.
ForgetPending(c, clear) ==
    /\ client' = [client EXCEPT ![c] = Disconnected(c, clear)]
    /\ Complete({}, Failure)
    /\ UNCHANGED <<kind, toServer, given, delivered>>

\* HandleDisconnected: OnDisconnected fails what waits, then the observers.
HandleDisconnected(c, clear) ==
    /\ client' = [client EXCEPT ![c] = Disconnected(c, clear)]
    /\ Complete(Pending(c), Failure)
    /\ UNCHANGED <<kind, toServer, given, delivered>>

ConnectionFailed(c) ==
    /\ tcp[c] = "connecting"
    /\ tcp' = [tcp EXCEPT ![c] = "detached"]
    /\ HandleDisconnected(c, TRUE)
    /\ UNCHANGED toClient

\* ConnectionEstablished: a serial send given too early is sent now.
ConnectionEstablished(c) ==
    /\ tcp[c] = "connecting"
    /\ tcp' = [tcp EXCEPT ![c] = "open"]
    /\ client' = [client EXCEPT ![c] =
            [@ EXCEPT !.connected = TRUE, !.handler = TRUE, !.queued = 0,
                      !.pend = client[c].queued,
                      !.left = IF client[c].queued = 0 THEN 0 ELSE 2]]
    /\ UNCHANGED <<kind, wireVars, sendVars, delivered>>

\* RequestSend refuses a second send, and a CAN frame the connection has no
\* room for.
RequestSend(c, i, room) ==
    IF client[c].pend = 0 /\ room
    THEN /\ client' = [client EXCEPT ![c].pend = i, ![c].left = 2]
         /\ Complete({}, Failure)
    ELSE /\ Complete({i}, Failure)
         /\ UNCHANGED client

\* Without a connection a serial send takes the place of the one queued.
Queue(c, i) ==
    /\ client' = [client EXCEPT ![c].queued = i]
    /\ Complete({client[c].queued} \ {0}, Failure)

SendData(c) ==
    LET i == given + 1
    IN  /\ i \in Items
        /\ tcp[c] \notin {"none", "destroyed"}
        /\ given' = i
        /\ IF client[c].connected
           THEN \E room \in BOOLEAN : (kind = "can" \/ room) /\ RequestSend(c, i, room)
           ELSE IF kind = "serial" THEN Queue(c, i)
           ELSE Complete({i}, Failure) /\ UNCHANGED client
        /\ UNCHANGED <<kind, tcp, wireVars, delivered>>

\* The chunk written: a CAN frame is written whole, serial data as far as
\* the stream reaches.
SendStreamAvailable(c, n) ==
    LET i == client[c].pend
        first == 3 - client[c].left
        done == n = client[c].left
    IN  /\ tcp[c] \in {"open", "shut"} /\ client[c].connected
        /\ i # 0 /\ n \in 1 .. client[c].left
        /\ kind = "can" => done
        /\ toServer' = [toServer EXCEPT ![c] =
                @ \o [h \in 1 .. n |-> <<i, first + h - 1>>]]
        /\ client' = [client EXCEPT ![c].left = @ - n,
                                    ![c].pend = IF done THEN 0 ELSE i]
        /\ Complete(IF done THEN {i} ELSE {}, "ok")
        /\ UNCHANGED <<kind, tcp, toClient, given, delivered>>

\* DataReceived: the CAN client accumulates whole frames, serial data is
\* passed on as it comes.  Malformed frames are not sent by the server.
DataReceived(c) ==
    LET piece == Head(toClient[c])
        message == DecodeFrame(Half(_encode_frame(OnBus(client[c].half)), 1)
                                 \o Half(_encode_frame(OnBus(piece[1])), piece[2]))
    IN  /\ client[c].connected /\ toClient[c] # <<>>
        /\ toClient' = [toClient EXCEPT ![c] = Tail(@)]
        /\ IF kind = "can" /\ client[c].half = 0
           THEN /\ client' = [client EXCEPT ![c].half = piece[1]]
                /\ UNCHANGED delivered
           ELSE /\ client' = [client EXCEPT ![c].half = 0]
                /\ delivered' = [delivered EXCEPT ![c] = Append(@,
                        IF kind = "can" THEN <<client[c].half, piece[1], message>> ELSE piece)]
        /\ UNCHANGED <<kind, tcp, toServer, sendVars>>

\* Close and Abort keep the handler until the connection detaches it.
Close(c) ==
    /\ tcp[c] = "shut" /\ client[c].connected
    /\ HandleDisconnected(c, FALSE)
    /\ UNCHANGED <<tcp, toClient>>

Detaching(c) ==
    /\ tcp[c] = "shut" /\ client[c].handler
    /\ tcp' = [tcp EXCEPT ![c] = "detached"]
    /\ HandleDisconnected(c, TRUE)
    /\ UNCHANGED toClient

\* The destructor aborts the connection; a send queued without one is not
\* answered any more.
Destroy(c) ==
    /\ tcp[c] \in {"connecting", "open", "shut", "detached"}
    /\ tcp' = [tcp EXCEPT ![c] = "destroyed"]
    /\ toClient' = [toClient EXCEPT ![c] = <<>>]
    /\ IF client[c].handler THEN HandleDisconnected(c, TRUE)
       ELSE /\ client' = [client EXCEPT ![c] = NewClient]
            /\ UNCHANGED <<kind, toServer, sendVars, delivered>>

ClientNext ==
    \E c \in Conns :
        \/ New(c) \/ ConnectionFailed(c) \/ SendData(c)
        \/ \E n \in 1 .. 2 : SendStreamAvailable(c, n)
        \/ DataReceived(c) \/ Close(c) \/ Detaching(c) \/ Destroy(c)

-----------------------------------------------------------------------------

\* Sends that nobody will answer any more.
Forgotten == {i \in 1 .. given : calls[i] = 0 /\ \A c \in Conns : i \notin Pending(c)}

Destroyed == {c \in Conns : tcp[c] = "destroyed"}

\* Whatever the connection does - fails, closes under a half-sent chunk, is
\* aborted or destroyed - the completion of a send, which is called at most
\* once, is not forgotten: either it has been called or the client still
\* holds it.  Only a serial client destroyed before it ever connected forgets one,
\* the send it had queued.
CompletionsAreKept ==
    /\ kind = "can" => Forgotten = {}
    /\ Cardinality(Forgotten) <= Cardinality(Destroyed)
=============================================================================
