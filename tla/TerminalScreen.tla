-------------------------- MODULE TerminalScreen ---------------------------
(***************************************************************************)
(* The screen buffer of the bridge's terminal: cursor, saved cursor,       *)
(* scroll region, pending wrap, tab stops and scrollback.  Of the cells    *)
(* only the rows that have been written to are kept; renditions and the    *)
(* modes nothing here reads (origin, keypad, cursor keys) are left out.    *)
(***************************************************************************)
EXTENDS CppInt, FiniteSets, FiniteSetsExt

CONSTANTS
    NumRows,      \* rows_
    NumCols,      \* cols_
    MaxHistory    \* maxHistory_

ASSUME ScreenAssumption ==
    /\ NumRows \in Nat \ {0, 1} /\ NumCols \in Nat \ {0} /\ MaxHistory \in Nat
    /\ NumRows <= IntMax /\ NumCols <= IntMax

Row == 0 .. NumRows - 1
Col == 0 .. NumCols - 1

\* Reset: power-on state; default tab stops are past so narrow a screen.
BlankScreen ==
    [row |-> 0, col |-> 0, savedRow |-> 0, savedCol |-> 0,
     top |-> 0, bottom |-> NumRows - 1, wrap |-> FALSE, autoWrap |-> TRUE,
     newLine |-> FALSE, tabs |-> {}, text |-> {}, history |-> 0]

AtMost(n, limit) == IF n > limit THEN limit ELSE n
AtLeast(n, limit) == IF n < limit THEN limit ELSE n
Clamp(n, last) == AtLeast(AtMost(n, last), 0)

Settled(s) == [s EXCEPT !.wrap = FALSE]

InRegion(s, r) == r \in s.top .. s.bottom

WholeScreen(s) == s.top = 0 /\ s.bottom = NumRows - 1

\* ScrollUpInRegion(1): only a whole-screen scroll feeds the history.
ScrollUp(s) ==
    [s EXCEPT
        !.text = {r \in Row : IF InRegion(s, r) THEN r < s.bottom /\ r + 1 \in s.text
                              ELSE r \in s.text},
        !.history = IF WholeScreen(s) THEN AtMost(@ + 1, MaxHistory) ELSE @]

ScrollDown(s) ==
    [s EXCEPT !.text = {r \in Row : IF InRegion(s, r) THEN r > s.top /\ r - 1 \in s.text
                                    ELSE r \in s.text}]

CarriageReturn(s) == [s EXCEPT !.col = 0, !.wrap = FALSE]

Index(s) ==
    LET t == Settled(s)
    IN  IF t.row = t.bottom THEN ScrollUp(t)
        ELSE [t EXCEPT !.row = AtMost(@ + 1, NumRows - 1)]

ReverseIndex(s) ==
    LET t == Settled(s)
    IN  IF t.row = t.top THEN ScrollDown(t)
        ELSE [t EXCEPT !.row = AtLeast(@ - 1, 0)]

NextLine(s) == CarriageReturn(Index(s))

LineFeed(s) == IF s.newLine THEN NextLine(s) ELSE Index(s)

\* A character in the last column leaves the cursor there and a wrap pending.
Put(s) ==
    [s EXCEPT !.text = @ \cup {s.row},
              !.wrap = s.autoWrap /\ s.col + 1 >= NumCols,
              !.col = AtMost(@ + 1, NumCols - 1)]

Write(s) ==
    Put(IF s.wrap /\ s.autoWrap THEN Index(CarriageReturn(s)) ELSE Settled(s))

Backspace(s) == [Settled(s) EXCEPT !.col = AtLeast(@ - 1, 0)]

HorizontalTab(s) ==
    [Settled(s) EXCEPT !.col = Min({c \in s.tabs : c > s.col} \cup {NumCols - 1})]

SetHere(s) == [s EXCEPT !.tabs = @ \cup {s.col}]
ClearHere(s) == [s EXCEPT !.tabs = @ \ {s.col}]
ClearAll(s) == [s EXCEPT !.tabs = {}]

\* Nothing keeps a parameter from taking the sums below past IntMax: the
\* cursor then is far above or left of the screen.
Up(s, n) == [Settled(s) EXCEPT !.row = AtLeast(@ - AtLeast(n, 1), s.top)]
Down(s, n) == [Settled(s) EXCEPT !.row = AtMost(Wrapped(@ + AtLeast(n, 1)), s.bottom)]
Forward(s, n) ==
    [Settled(s) EXCEPT !.col = AtMost(Wrapped(@ + AtLeast(n, 1)), NumCols - 1)]
Backward(s, n) == [Settled(s) EXCEPT !.col = AtLeast(@ - AtLeast(n, 1), 0)]

MoveTo(s, row, col) ==
    [Settled(s) EXCEPT !.row = Clamp(AtLeast(row, 1) - 1, NumRows - 1),
                       !.col = Clamp(AtLeast(col, 1) - 1, NumCols - 1)]

MoveToColumn(s, col) ==
    [Settled(s) EXCEPT !.col = AtMost(NumCols - 1, AtLeast(col, 1) - 1)]

Save(s) == [s EXCEPT !.savedRow = s.row, !.savedCol = s.col]

\* Mutant: the wrap that was pending where the cursor came from stays.
RestoreOnly(s) ==
    [s EXCEPT !.row = Clamp(s.savedRow, NumRows - 1),
              !.col = Clamp(s.savedCol, NumCols - 1)]

Restore(s) ==
    [s EXCEPT !.row = Clamp(s.savedRow, NumRows - 1),
              !.col = Clamp(s.savedCol, NumCols - 1), !.wrap = FALSE]

\* A row that is erased in part keeps its mark.
EraseInDisplay(s, mode) ==
    LET t == Settled(s)
        whole == CASE mode = 0 -> {r \in Row : r > s.row \/ (r = s.row /\ s.col = 0)}
                   [] mode = 1 -> {r \in Row : r < s.row
                                        \/ (r = s.row /\ s.col = NumCols - 1)}
                   [] mode \in {2, 3} -> Row
                   [] OTHER -> {}
    IN  [t EXCEPT !.text = @ \ whole,
                  !.history = IF mode = 3 THEN 0 ELSE @]

EraseInLine(s, mode) ==
    LET whole == \/ mode = 0 /\ s.col = 0
                 \/ mode = 1 /\ s.col = NumCols - 1
                 \/ mode = 2
    IN  [Settled(s) EXCEPT !.text = IF whole THEN @ \ {s.row} ELSE @]

SetScrollRegion(s, top, bottom) ==
    LET first == AtLeast(top, 1)
        last == IF bottom \in 1 .. NumRows THEN bottom ELSE NumRows
        valid == first < last
    IN  [s EXCEPT !.top = IF valid THEN first - 1 ELSE 0,
                  !.bottom = IF valid THEN last - 1 ELSE NumRows - 1,
                  !.row = IF valid THEN first - 1 ELSE 0,
                  !.col = 0, !.wrap = FALSE]

\* The cursor is on the screen.
ScreenType ==
    [row : Row, col : Col, savedRow : Row, savedCol : Col, top : Row,
     bottom : Row, wrap : BOOLEAN, autoWrap : BOOLEAN, newLine : BOOLEAN,
     tabs : SUBSET Col, text : SUBSET Row, history : 0 .. MaxHistory]
=============================================================================
