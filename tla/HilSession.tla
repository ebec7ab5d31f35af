----------------------------- MODULE HilSession -----------------------------
(***************************************************************************)
(* The session through which the hardware-in-the-loop tests type commands  *)
(* to the board and listen to its CAN bus, over the hardware bridge.  One  *)
(* thread runs a call at a time, and bytes and frames reach it only while  *)
(* a call runs the network.  The board is external: it echoes a command,   *)
(* may answer it, prompts, and may answer once more later; a command it    *)
(* gets while it restarts is lost.  Every wait may end by its timeout.     *)
(***************************************************************************)
EXTENDS Naturals, Sequences

CONSTANTS
    MaxCommands,    \* bound on the lines typed
    MaxFrames,      \* bound on the frames of the bus
    MaxCanSends     \* bound on the frames whose completion is still to come

ASSUME SessionAssumption ==
    MaxCommands \in Nat /\ MaxFrames \in Nat /\ MaxCanSends \in Nat

VARIABLES
    call, phase,           \* the call that runs, and what it waits for
    serialLines, serialBuffer, promptSeen,
    number,                \* lines typed so far
    typed,                 \* lines the board has not taken yet
    owes,                  \* lines typed that the board may answer once more
    wire,                  \* bytes between the board and the session
    since,                 \* the first line typed after the last clear
    quiet,                 \* and nothing was on its way at that clear
    report,                \* what the last serial call returned, and which
    canQueue, canWire,     \* frames received, and frames on their way
    frames,                \* frames of the bus so far
    captured, canQuiet,    \* the same for the last ClearCanFrames
    canReport,             \* the frame WaitForCanFrame returned, or 0
    completions, completed \* completions to come: FALSE if the call is gone

serialVars == <<serialLines, serialBuffer, promptSeen, number, typed, owes,
                wire, since, quiet, report>>
canVars == <<canQueue, canWire, frames, captured, canQuiet, canReport,
             completions, completed>>
hilVars == <<call, phase, serialVars, canVars>>

SerialCalls ==
    {"SendSerial", "WaitForPrompt", "FlushAndAccumulate", "DrainSerial"}
Pieces == {"echo1", "echo2", "text1", "text2", "newline", "gt", "space"}
Bytes == [of : 0 .. MaxCommands, piece : Pieces]
Frame == [id : {"expected", "other"}, number : 1 .. MaxFrames]

HilTypeOK ==
    /\ call \in SerialCalls \cup {"none", "SendCanFrame", "WaitForCanFrame"}
    /\ phase \in {"none", "settle", "reply", "drain"}
    /\ serialLines \in Seq(Seq(Bytes)) /\ serialBuffer \in Seq(Bytes)
    /\ promptSeen \in BOOLEAN /\ quiet \in BOOLEAN
    /\ number \in 0 .. MaxCommands /\ since \in 0 .. MaxCommands + 1
    /\ typed \in Seq([of : 1 .. MaxCommands, empty : BOOLEAN])
    /\ owes \subseteq 0 .. MaxCommands
    /\ wire \in Seq(Bytes)
    /\ report \in [by : SerialCalls \cup {"none"}, ok : BOOLEAN,
                   lines : Seq(Seq(Bytes))]
    /\ canQueue \in Seq(Frame) /\ canWire \in Seq(Frame)
    /\ frames \in 0 .. MaxFrames /\ captured \in 0 .. MaxFrames
    /\ canQuiet \in BOOLEAN /\ canReport \in 0 .. MaxFrames
    /\ completions \in Seq(BOOLEAN) /\ completed \in BOOLEAN

\* The board has been flashed and may still print its banner: line 0.
HilInit ==
    /\ call = "none" /\ phase = "none"
    /\ serialLines = <<>> /\ serialBuffer = <<>> /\ promptSeen = FALSE
    /\ number = 0 /\ typed = <<>> /\ owes = {0} /\ wire = <<>>
    /\ since = 0 /\ quiet = FALSE
    /\ report = [by |-> "none", ok |-> FALSE, lines |-> <<>>]
    /\ canQueue = <<>> /\ canWire = <<>> /\ frames = 0 /\ captured = 0
    /\ canQuiet = TRUE /\ canReport = 0
    /\ completions = <<>> /\ completed = FALSE

-----------------------------------------------------------------------------
(* The board.                                                              *)

Says(n, pieces) == [i \in 1 .. Len(pieces) |-> [of |-> n, piece |-> pieces[i]]]
Prompt(n) == Says(n, <<"newline", "gt", "space">>)
\* A line is begun by its newline and ended by that of the next one.
Text(n) == Says(n, <<"newline", "text1", "text2">>)
Echo(n) == Says(n, <<"echo1", "echo2">>)

\* An empty line has no echo to speak of and no answer, only a prompt.
BoardTakes ==
    /\ typed # <<>>
    /\ typed' = Tail(typed)
    /\ LET n == Head(typed).of
           answers == IF Head(typed).empty THEN {Prompt(n)}
                      ELSE {Echo(n), Echo(n) \o Prompt(n),
                            Echo(n) \o Text(n) \o Prompt(n)}
       IN  \/ \E answer \in answers : wire' = wire \o answer
           \/ UNCHANGED wire
    /\ \/ UNCHANGED owes
       \/ ~Head(typed).empty /\ owes' = owes \cup {Head(typed).of}
    /\ UNCHANGED <<call, phase, serialLines, serialBuffer, promptSeen, number,
                   since, quiet, report, canVars>>

BoardSaysMore ==
    \E n \in owes :
        /\ owes' = owes \ {n}
        /\ wire' = wire \o Text(n)
        /\ UNCHANGED <<call, phase, serialLines, serialBuffer, promptSeen,
                       number, typed, since, quiet, report, canVars>>

-----------------------------------------------------------------------------
(* Bytes that arrive.                                                      *)

EmitSerialLine(line) ==
    serialLines' = IF line = <<>> THEN serialLines
                                  ELSE Append(serialLines, line)

AppendSerialByte(byte) ==
    LET longer == Append(serialBuffer, byte)
        n == Len(serialBuffer)
    IN  IF byte.piece = "newline"
        THEN /\ EmitSerialLine(serialBuffer)
             /\ serialBuffer' = <<>> /\ UNCHANGED promptSeen
        ELSE IF byte.piece = "space" /\ n > 0 /\ serialBuffer[n].piece = "gt"
        THEN /\ EmitSerialLine(SubSeq(serialBuffer, 1, n - 1))
             /\ serialBuffer' = <<>> /\ promptSeen' = TRUE
        ELSE serialBuffer' = longer /\ UNCHANGED <<serialLines, promptSeen>>

OnSerialBytes ==
    /\ call # "none" /\ wire # <<>>
    /\ AppendSerialByte(Head(wire)) /\ wire' = Tail(wire)
    /\ UNCHANGED <<call, phase, number, typed, owes, since, quiet, report,
                   canVars>>

-----------------------------------------------------------------------------
(* The serial calls.                                                       *)

\* Mutant: the line that is being received is kept.
ClearWholeLines ==
    /\ serialLines' = <<>> /\ promptSeen' = FALSE /\ UNCHANGED serialBuffer
    /\ since' = number + 1
    /\ quiet' = (wire = <<>> /\ typed = <<>> /\ owes = {})

ClearSerialLines ==
    /\ serialLines' = <<>> /\ serialBuffer' = <<>> /\ promptSeen' = FALSE
    /\ since' = number + 1
    /\ quiet' = (wire = <<>> /\ typed = <<>> /\ owes = {})

TransmitSerial(empty) ==
    /\ number < MaxCommands
    /\ number' = number + 1
    /\ typed' = Append(typed, [of |-> number + 1, empty |-> empty])

Runs(c, p) == call' = c /\ phase' = p

\* SendSerial lets what is on its way arrive before it clears the lines.
SendSerial ==
    /\ call = "none" /\ number < MaxCommands
    /\ Runs("SendSerial", "settle")
    /\ UNCHANGED <<serialVars, canVars>>

PreDrained ==
    /\ phase = "settle" /\ Runs("SendSerial", "reply")
    /\ ClearSerialLines /\ TransmitSerial(FALSE)
    /\ UNCHANGED <<owes, wire, report, canVars>>

WaitForPrompt ==
    /\ call = "none" /\ Runs("WaitForPrompt", "reply")
    /\ ClearSerialLines /\ TransmitSerial(TRUE)
    /\ UNCHANGED <<owes, wire, report, canVars>>

\* The lines stay, to be joined by what is ended by the next newline.
FlushAndAccumulate ==
    /\ call = "none" /\ Runs("FlushAndAccumulate", "reply")
    /\ promptSeen' = FALSE /\ TransmitSerial(TRUE)
    /\ UNCHANGED <<serialLines, serialBuffer, owes, wire, since, quiet,
                   report, canVars>>

DrainSerial ==
    /\ call = "none" /\ Runs("DrainSerial", "drain")
    /\ ClearSerialLines
    /\ UNCHANGED <<number, typed, owes, wire, report, canVars>>

\* Mutant: the echo is taken for an answer.
KeepEcho(lines) == lines

DropEcho(lines) ==
    IF lines # <<>> /\ Head(lines) = Echo(number) THEN Tail(lines) ELSE lines

\* A reply and the silence after it, or a timeout, ends the wait.
SendSerialEnds ==
    /\ call = "SendSerial" /\ phase = "reply" /\ Runs("none", "none")
    /\ serialLines' = DropEcho(serialLines)
    /\ report' = [by |-> call,
                  ok |-> promptSeen \/ DropEcho(serialLines) # <<>>,
                  lines |-> DropEcho(serialLines)]
    /\ UNCHANGED <<serialBuffer, promptSeen, number, typed, owes, wire,
                   since, quiet, canVars>>

WaitForPromptEnds ==
    /\ call = "WaitForPrompt" /\ Runs("none", "none")
    /\ report' = [by |-> call, ok |-> promptSeen, lines |-> <<>>]
    /\ ClearSerialLines
    /\ UNCHANGED <<number, typed, owes, wire, canVars>>

FlushEnds ==
    /\ call \in {"FlushAndAccumulate", "DrainSerial"} /\ Runs("none", "none")
    /\ report' = [by |-> call,
                  ok |-> IF call = "DrainSerial" THEN serialLines # <<>>
                                                 ELSE promptSeen,
                  lines |-> serialLines]
    /\ UNCHANGED <<serialLines, serialBuffer, promptSeen, number, typed,
                   owes, wire, since, quiet, canVars>>

SerialNext ==
    \/ BoardTakes \/ BoardSaysMore \/ OnSerialBytes
    \/ SendSerial \/ PreDrained \/ WaitForPrompt \/ FlushAndAccumulate
    \/ DrainSerial \/ SendSerialEnds \/ WaitForPromptEnds \/ FlushEnds

-----------------------------------------------------------------------------
(* The CAN calls.                                                          *)

BusFrame ==
    /\ frames < MaxFrames /\ frames' = frames + 1
    /\ \E id \in {"expected", "other"} :
         canWire' = Append(canWire, [id |-> id, number |-> frames + 1])
    /\ UNCHANGED <<call, phase, serialVars, canQueue, captured, canQuiet,
                   canReport, completions, completed>>

OnCanFrame ==
    /\ call # "none" /\ canWire # <<>>
    /\ canQueue' = Append(canQueue, Head(canWire)) /\ canWire' = Tail(canWire)
    /\ UNCHANGED <<call, phase, serialVars, frames, captured, canQuiet,
                   canReport, completions, completed>>

ClearCanFrames ==
    /\ call = "none"
    /\ canQueue' = <<>> /\ captured' = frames /\ canQuiet' = (canWire = <<>>)
    /\ canReport' = 0
    /\ UNCHANGED <<call, phase, serialVars, canWire, frames, completions,
                   completed>>

SendCanFrame ==
    /\ call = "none" /\ Len(completions) < MaxCanSends
    /\ Runs("SendCanFrame", "reply")
    /\ completed' = FALSE /\ completions' = Append(completions, TRUE)
    /\ UNCHANGED <<serialVars, canQueue, canWire, frames, captured, canQuiet,
                   canReport>>

\* A completion writes through references into the frame of its call: once
\* that has returned they may be those of the call that runs, or not.
CanCompleted ==
    /\ call # "none" /\ completions # <<>>
    /\ completions' = Tail(completions)
    /\ \E writes \in BOOLEAN :
         /\ Head(completions) => writes
         /\ completed' = (completed \/ writes)
    /\ UNCHANGED <<call, phase, serialVars, canQueue, canWire, frames,
                   captured, canQuiet, canReport>>

SendCanFrameEnds ==
    /\ call = "SendCanFrame" /\ Runs("none", "none")
    /\ completions' = [i \in DOMAIN completions |-> FALSE]
    /\ UNCHANGED <<serialVars, canQueue, canWire, frames, captured, canQuiet,
                   canReport, completed>>

WaitForCanFrame ==
    /\ call = "none" /\ Runs("WaitForCanFrame", "reply")
    /\ canReport' = 0
    /\ UNCHANGED <<serialVars, canQueue, canWire, frames, captured, canQuiet,
                   completions, completed>>

\* The frames before the expected one are dropped.
TakeFrame ==
    /\ call = "WaitForCanFrame" /\ canQueue # <<>>
    /\ canQueue' = Tail(canQueue)
    /\ \/ /\ Head(canQueue).id = "expected"
          /\ canReport' = Head(canQueue).number /\ Runs("none", "none")
       \/ /\ Head(canQueue).id # "expected"
          /\ UNCHANGED <<canReport, call, phase>>
    /\ UNCHANGED <<serialVars, canWire, frames, captured, canQuiet,
                   completions, completed>>

WaitForCanFrameTimeout ==
    /\ call = "WaitForCanFrame" /\ canQueue = <<>> /\ Runs("none", "none")
    /\ UNCHANGED <<serialVars, canVars>>

CanNext ==
    \/ BusFrame \/ OnCanFrame \/ ClearCanFrames \/ SendCanFrame \/ CanCompleted
    \/ SendCanFrameEnds \/ WaitForCanFrame \/ TakeFrame
    \/ WaitForCanFrameTimeout

-----------------------------------------------------------------------------
(* Properties.                                                             *)

Answer(n) == Says(n, <<"text1", "text2">>)
WholeLine(line) == \E n \in since .. number : line \in {Echo(n), Answer(n)}

\* As long as nothing of before was still on its way when the session cleared
\* what it had: however timeouts and clears cut the stream of bytes, what a
\* serial call reports is whole lines the board said about the lines typed
\* since; SendSerial's are answers to its own command, without the echo.  (A
\* call that accumulates may report the echo of a command whose SendSerial
\* timed out.)  And a CAN frame a call reports is of the capture that runs.
ReportsOwnAnswer ==
    call = "none" =>
        /\ quiet => \A i \in DOMAIN report.lines : WholeLine(report.lines[i])
        /\ quiet /\ report.by = "SendSerial" =>
             \A i \in DOMAIN report.lines : report.lines[i] = Answer(number)
        /\ canQuiet /\ canReport > 0 => canReport > captured
=============================================================================
