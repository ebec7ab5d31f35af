--------------------------- MODULE Vt100Terminal ---------------------------
(***************************************************************************)
(* The terminal of the bridge's serial panel: the parser's events drawn on *)
(* the screen, and status requests answered.  Parser and screen share no   *)
(* state but the event, so one behaviour follows the parser byte for byte  *)
(* and another draws any sequence of events a parser can emit.             *)
(***************************************************************************)
EXTENDS Vt100Parser, TerminalScreen

CONSTANTS MaxHeard    \* bytes followed after an ESC

ASSUME HeardAssumption == MaxHeard \in Nat

VARIABLES
    parser,           \* parser_
    event,            \* the event the last byte completed
    heard,            \* the bytes since the last ESC, with it
    screen,           \* screen_
    overflowed,       \* a sum of a cursor movement has left int
    outgoing          \* outgoing_ holds an answer

vtVars == <<parser, event, heard, screen, overflowed, outgoing>>

\* The cursor is on the screen until a sum leaves int, and then it is not.
VtTypeOK ==
    /\ parser.state \in {"Ground", "Escape", "CsiEntry", "CsiParam",
                         "CsiIntermediate", "OscString", "OscStringEsc", "Ignore"}
    /\ Len(heard) <= MaxHeard
    /\ screen.top < screen.bottom
    /\ [screen EXCEPT !.row = 0, !.col = 0] \in ScreenType
    /\ screen \in ScreenType <=> ~overflowed
    /\ outgoing \in BOOLEAN

VtInit ==
    /\ parser = Ground /\ event = None /\ heard = <<>>
    /\ screen = BlankScreen /\ overflowed = FALSE /\ outgoing = FALSE

-----------------------------------------------------------------------------

VtFeedByte(b) ==
    LET r == FeedByte(parser, b)
    IN  /\ parser' = r.next
        /\ event' = r.event
        /\ heard' = IF b = "ESC" THEN <<b>> ELSE Append(heard, b)
        /\ Len(heard') <= MaxHeard
        /\ UNCHANGED <<screen, overflowed, outgoing>>

\* Param: an absent or zero parameter is the default.
Param(params, i, default) ==
    IF i > Len(params) \/ params[i] = 0 THEN default ELSE params[i]

ParamRaw(params, i, default) == IF i > Len(params) THEN default ELSE params[i]

OnExecute(s, b) ==
    CASE b = "BS" -> Backspace(s)
      [] b = "HT" -> HorizontalTab(s)
      [] b = "LF" -> LineFeed(s)
      [] b = "CR" -> CarriageReturn(s)
      [] OTHER -> s

\* DECALN: every cell is an E, and with them all the last wrap is pending
\* until the cursor goes home.
FillScreenWithAlignmentPattern(s) == [MoveTo(s, 1, 1) EXCEPT !.text = Row]

OnEsc(s, final) ==
    CASE final = "D" -> Index(s)
      [] final = "E" -> NextLine(s)
      [] final = "M" -> ReverseIndex(s)
      [] final = "H" -> SetHere(s)
      [] final = "7" -> Save(s)
      [] final = "8" -> Restore(s)
      [] final = "c" -> BlankScreen
      [] final = "#8" -> FillScreenWithAlignmentPattern(s)
      [] OTHER -> s

\* Of the modes only those the screen reads; all are set, or all reset, so
\* their order makes no difference.
ApplyPrivateMode(s, params, set) ==
    IF 7 \in Range(params) THEN [s EXCEPT !.autoWrap = set] ELSE s
ApplyAnsiMode(s, params, set) ==
    IF 20 \in Range(params) THEN [s EXCEPT !.newLine = set] ELSE s

\* The parameter tells whether the private marker came with it.
ApplyMode(s, params, set) ==
    ApplyAnsiMode(ApplyPrivateMode(s, params, set), params, set)

OnCsi(s, final, params) ==
    CASE final = "A" -> Up(s, Param(params, 1, 1))
      [] final = "B" -> Down(s, Param(params, 1, 1))
      [] final = "C" -> Forward(s, Param(params, 1, 1))
      [] final = "D" -> Backward(s, Param(params, 1, 1))
      [] final = "E" -> MoveToColumn(Down(s, Param(params, 1, 1)), 1)
      [] final = "F" -> MoveToColumn(Up(s, Param(params, 1, 1)), 1)
      [] final = "G" -> MoveToColumn(s, Param(params, 1, 1))
      [] final = "H" -> MoveTo(s, Param(params, 1, 1), Param(params, 2, 1))
      [] final = "J" -> EraseInDisplay(s, ParamRaw(params, 1, 0))
      [] final = "K" -> EraseInLine(s, ParamRaw(params, 1, 0))
      [] final = "g" -> IF ParamRaw(params, 1, 0) = 3 THEN ClearAll(s) ELSE ClearHere(s)
      [] final \in {"h", "l"} -> ApplyMode(s, params, final = "h")
      [] final = "r" -> SetScrollRegion(s, ParamRaw(params, 1, 1),
                                        ParamRaw(params, 2, NumRows))
      [] final = "s" -> Save(s)
      [] final = "u" -> Restore(s)
      [] OTHER -> s

\* DSR, CPR and DA put an answer in outgoing_.
Asks(final, params) ==
    \/ final = "n" /\ ParamRaw(params, 1, 0) \in {5, 6}
    \/ final = "c"

\* The parameters that make a difference to each final byte.
Params(final) ==
    CASE final \in {"h", "l"} -> {<<7>>, <<20>>}
      [] final \in {"H", "r"} -> {<<>>, <<1, 2>>, <<2, 3>>, <<IntMax, IntMin>>}
      [] final \in {"J", "K", "g"} -> {<<>>, <<1>>, <<2>>, <<3>>}
      [] final \in {"n", "c", "s", "u"} -> {<<>>, <<5>>}
      [] OTHER -> {<<>>, <<0>>, <<2>>, <<3>>, <<IntMax>>, <<IntMin>>}

\* The sum a CSI makes of the cursor and its parameter.
CursorSum(s, final, params) ==
    LET n == AtLeast(Param(params, 1, 1), 1)
    IN  CASE final \in {"B", "E"} -> s.row + n
          [] final = "C" -> s.col + n
          [] OTHER -> 0

\* With the cursor off the screen the next character is written outside the
\* grid: a behaviour is followed up to there.
Draw(next) ==
    /\ ~overflowed
    /\ screen' = next
    /\ UNCHANGED <<parser, event, heard>>

OnPrint == Draw(Write(screen)) /\ UNCHANGED <<overflowed, outgoing>>

VtOnExecute(b) == Draw(OnExecute(screen, b)) /\ UNCHANGED <<overflowed, outgoing>>

VtOnEsc(final) ==
    /\ Draw(OnEsc(screen, final))
    /\ outgoing' = (outgoing \/ final = "Z")
    /\ UNCHANGED overflowed

VtOnCsi(final, params) ==
    /\ Draw(OnCsi(screen, final, params))
    /\ overflowed' = (CursorSum(screen, final, params) > IntMax)
    /\ outgoing' = (outgoing \/ Asks(final, params))

TakeOutgoing ==
    /\ outgoing /\ outgoing' = FALSE
    /\ UNCHANGED <<parser, event, heard, screen, overflowed>>

\* The widget's Clear() resets the screen, not the parser.
Clear == Draw(BlankScreen) /\ UNCHANGED <<overflowed, outgoing>>

VtBytes == \E b \in Bytes : VtFeedByte(b)

VtEvents ==
    \/ OnPrint
    \/ \E b \in {"BS", "HT", "LF", "CR", "BEL"} : VtOnExecute(b)
    \/ \E final \in {"D", "E", "M", "H", "7", "8", "c", "#8", "Z"} : VtOnEsc(final)
    \/ \E final \in {"A", "B", "C", "D", "E", "F", "G", "H", "J", "K", "g", "h",
                     "l", "n", "c", "r", "s", "u"} :
            \E params \in Params(final) : VtOnCsi(final, params)
    \/ TakeOutgoing
    \/ Clear

-----------------------------------------------------------------------------

\* An ESC always puts the parser back in step: what a sequence does depends
\* on its own bytes only, never on a sequence, a string or parameters that
\* were abandoned before it, wherever the serial chunks were cut.
SequencesStandAlone == heard # <<>> => event = Feed(heard).event

\* A wrap is only ever pending in the last column, with the character that
\* filled it the last thing that happened: nothing that moves the cursor,
\* clears, scrolls or restores lets the next character start a line.
WrapIsFresh == screen.wrap => screen.col = NumCols - 1 /\ screen.row \in screen.text
=============================================================================
