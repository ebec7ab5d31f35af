--------------------------- MODULE TerminalCells ---------------------------
(***************************************************************************)
(* The cells behind the screen of the bridge's terminal: characters and    *)
(* the rendition each was drawn with, beside the cursor and the region     *)
(* that TerminalScreen keeps, and the document the widget makes of them.   *)
(* A character is the number of the drawing event that wrote it, and 0 is  *)
(* the blank.  Colours are numbers, as in the enumeration: 0 is Default, 1 *)
(* Black up to 16 BrightWhite.                                             *)
(***************************************************************************)
EXTENDS Vt100Terminal

CONSTANTS MaxDrawn    \* drawing events followed with their renditions

ASSUME DrawnAssumption == MaxDrawn \in Nat

VARIABLES
    cells,    \* grid_, history_, currentRendition_ and savedRendition_
    drawn,    \* drawing events so far
    pen,      \* history: the look the sender has asked for, and at DECSC
    looks     \* history: the look asked for at each drawing event

historyVars == <<pen, looks>>
cellsVars == <<cells, drawn, historyVars>>

-----------------------------------------------------------------------------
(* Select graphic rendition.                                               *)

Colour == 0 .. 16

\* The attributes that are on are a set.
Attributes == {"bold", "faint", "italic", "underline", "blink", "inverse"}

Plain == [foreground |-> 0, background |-> 0, on |-> {}]

foregroundCodes == [p \in (30 .. 37) \cup {39} \cup (90 .. 97) |->
                        IF p = 39 THEN 0 ELSE IF p < 39 THEN p - 29 ELSE p - 81]

backgroundCodes == [p \in (40 .. 47) \cup {49} \cup (100 .. 107) |->
                        IF p = 49 THEN 0 ELSE IF p < 49 THEN p - 39 ELSE p - 91]

SwitchesOn ==
    [p \in 1 .. 7 \ {6} |->
        CASE p = 1 -> "bold" [] p = 2 -> "faint" [] p = 3 -> "italic"
          [] p = 4 -> "underline" [] p = 5 -> "blink" [] p = 7 -> "inverse"]

SwitchesOff ==
    [p \in 22 .. 27 \ {26} |->
        CASE p = 22 -> {"bold", "faint"} [] p = 23 -> {"italic"}
          [] p = 24 -> {"underline"} [] p = 25 -> {"blink"} [] p = 27 -> {"inverse"}]

ApplyStyleCode(r, p) ==
    CASE p = 0 -> Plain
      [] p \in DOMAIN SwitchesOn -> [r EXCEPT !.on = @ \cup {SwitchesOn[p]}]
      [] p \in DOMAIN SwitchesOff -> [r EXCEPT !.on = @ \ SwitchesOff[p]]
      [] OTHER -> r

\* A parameter without a meaning is passed over.
ApplySgrParameter(r, p) ==
    CASE p \in DOMAIN foregroundCodes -> [r EXCEPT !.foreground = foregroundCodes[p]]
      [] p \in DOMAIN backgroundCodes -> [r EXCEPT !.background = backgroundCodes[p]]
      [] OTHER -> ApplyStyleCode(r, p)

ApplySgr(r, params) ==
    LET after[n \in 0 .. Len(params)] ==
            IF n = 0 THEN r ELSE ApplySgrParameter(after[n - 1], params[n])
    IN  IF params = <<>> THEN Plain ELSE after[Len(params)]

-----------------------------------------------------------------------------
(* What the screen's operations do to the cells; s is the screen before.   *)

\* MakeBlankCell: blanks carry the current rendition too.
Blank(x) == [char |-> 0, rendition |-> x.rendition]
BlankRow(x) == [c \in Col |-> Blank(x)]

BlankCells ==
    [grid |-> [r \in Row |-> BlankRow([rendition |-> Plain])], history |-> <<>>,
     rendition |-> Plain, saved |-> Plain]

LastOf(history) ==
    SubSeq(history, AtLeast(Len(history) - MaxHistory, 0) + 1, Len(history))

ScrollCellsUp(x, s) ==
    [x EXCEPT
        !.grid = [r \in Row |-> IF ~InRegion(s, r) THEN @[r]
                                ELSE IF r = s.bottom THEN BlankRow(x) ELSE @[r + 1]],
        !.history = IF WholeScreen(s) THEN LastOf(Append(@, x.grid[0])) ELSE @]

ScrollCellsDown(x, s) ==
    [x EXCEPT !.grid = [r \in Row |-> IF ~InRegion(s, r) THEN @[r]
                                      ELSE IF r = s.top THEN BlankRow(x) ELSE @[r - 1]]]

IndexCells(x, s) == IF s.row = s.bottom THEN ScrollCellsUp(x, s) ELSE x

ReverseIndexCells(x, s) == IF s.row = s.top THEN ScrollCellsDown(x, s) ELSE x

\* The cursor may be one row further down by the time the cell is written.
WriteCell(x, s, char) ==
    LET wraps == s.wrap /\ s.autoWrap
        at == IF wraps THEN Index(CarriageReturn(s)) ELSE s
        y == IF wraps THEN IndexCells(x, s) ELSE x
    IN  [y EXCEPT !.grid[at.row][at.col] = [char |-> char, rendition |-> x.rendition]]

EraseCells(x, places) ==
    [x EXCEPT !.grid = [r \in Row |-> [c \in Col |->
                            IF <<r, c>> \in places THEN Blank(x) ELSE @[r][c]]]]

CellsFrom(s) == {p \in Row \X Col : p[1] > s.row \/ (p[1] = s.row /\ p[2] >= s.col)}
CellsUpTo(s) == {p \in Row \X Col : p[1] < s.row \/ (p[1] = s.row /\ p[2] <= s.col)}

EraseDisplayCells(x, s, mode) ==
    LET places == CASE mode = 0 -> CellsFrom(s)
                    [] mode = 1 -> CellsUpTo(s)
                    [] mode \in {2, 3} -> Row \X Col
                    [] OTHER -> {}
    IN  [EraseCells(x, places) EXCEPT !.history = IF mode = 3 THEN <<>> ELSE @]

EraseLineCells(x, s, mode) ==
    LET line == {s.row} \X Col
        places == CASE mode = 0 -> line \cap CellsFrom(s)
                    [] mode = 1 -> line \cap CellsUpTo(s)
                    [] mode = 2 -> line
                    [] OTHER -> {}
    IN  EraseCells(x, places)

\* Every cell an E in the current rendition.
FillCells(x, char) ==
    [x EXCEPT !.grid = [r \in Row |-> [c \in Col |->
                            [char |-> char, rendition |-> x.rendition]]]]

\* Mutant: the cursor goes back, the rendition stays.
RestoreCursorOnly(x) == x

SaveCells(x) == [x EXCEPT !.saved = x.rendition]
RestoreCells(x) == [x EXCEPT !.rendition = x.saved]

-----------------------------------------------------------------------------
(* The drawing events with what they do to the cells.                      *)

Renditions == [foreground : Colour, background : Colour, on : SUBSET Attributes]

Cells == [char : Nat, rendition : Renditions]

\* The two halves of the screen agree: a row with a character is a row that
\* has been written to, and the scrollback is as long.
CellsTypeOK ==
    drawn > 0 =>
        /\ \A r \in Row, c \in Col :
                /\ cells.grid[r][c] \in Cells
                /\ cells.grid[r][c].char # 0 => r \in screen.text
        /\ cells.rendition \in Renditions /\ cells.saved \in Renditions
        /\ Len(cells.history) = screen.history
        /\ drawn <= MaxDrawn

AllPlain == [now |-> Plain, saved |-> Plain]

CellsInit ==
    /\ cells = BlankCells /\ drawn = 0
    /\ pen = AllPlain /\ looks = <<>>

\* The next event finds the cells as x and the pen as p.
Coloured(x, p) ==
    /\ drawn < MaxDrawn
    /\ drawn' = drawn + 1
    /\ cells' = x
    /\ pen' = p
    /\ looks' = Append(looks, pen.now)

Colours(x) == Coloured(x, pen)

DrawPrint == OnPrint /\ Colours(WriteCell(cells, screen, drawn + 1))

DrawControl ==
    \/ VtOnExecute("LF") /\ Colours(IndexCells(cells, screen))
    \/ VtOnExecute("CR") /\ Colours(cells)

DrawEsc ==
    \/ VtOnEsc("M") /\ Colours(ReverseIndexCells(cells, screen))
    \/ VtOnEsc("7") /\ Coloured(SaveCells(cells), [pen EXCEPT !.saved = pen.now])
    \/ VtOnEsc("8") /\ Coloured(RestoreCells(cells), [pen EXCEPT !.now = pen.saved])
    \/ VtOnEsc("c") /\ Coloured(BlankCells, AllPlain)
    \/ VtOnEsc("#8") /\ Colours(FillCells(cells, drawn + 1))

\* Bold red, red and underlined on inverse, back in part, and to plain.
SgrParams == {<<>>, <<1, 31>>, <<4, 7>>, <<22, 39, 45>>, <<24, 27, 0, 99>>}

DrawCsi ==
    \/ \E params \in SgrParams :
            VtOnCsi("m", params)
            /\ Coloured([cells EXCEPT !.rendition = ApplySgr(@, params)],
                        [pen EXCEPT !.now = ApplySgr(@, params)])
    \/ \E params \in Params("J") :
            VtOnCsi("J", params)
            /\ Colours(EraseDisplayCells(cells, screen, ParamRaw(params, 1, 0)))
    \/ \E params \in Params("K") :
            VtOnCsi("K", params)
            /\ Colours(EraseLineCells(cells, screen, ParamRaw(params, 1, 0)))
    \/ \E final \in {"H", "r"} : \E params \in Params(final) :
            VtOnCsi(final, params) /\ Colours(cells)

DrawClear == Clear /\ Coloured(BlankCells, AllPlain)

CellsNext == DrawPrint \/ DrawControl \/ DrawEsc \/ DrawCsi \/ DrawClear

-----------------------------------------------------------------------------
(* The document the widget makes of them.                                  *)

\* A colour of the palette, or the widget's own "fg" or "bg".
MapForeground(colour) == IF colour = 0 THEN "fg" ELSE ToString(colour)
MapBackground(colour) == IF colour = 0 THEN "bg" ELSE MapForeground(colour)

\* Faint and blink are not shown.
Format(r) ==
    [foreground |-> MapForeground(IF "inverse" \in r.on THEN r.background ELSE r.foreground),
     background |-> MapBackground(IF "inverse" \in r.on THEN r.foreground ELSE r.background),
     on |-> r.on \cap {"bold", "italic", "underline"}]

Filled(row) == {c \in Col : row[c].char # 0}

\* lastContentColumn: the columns up to the last character.
LastCol(row) == Max({c + 1 : c \in Filled(row)} \cup {0})

LastRow == Max({r \in Row : Filled(cells.grid[r]) # {}} \cup {screen.row})

\* The scrollback, and the screen down to the cursor or the last character.
ShownRows == cells.history \o [i \in 1 .. LastRow + 1 |-> cells.grid[i - 1]]

SameRun(x, y) == x = y

\* One more cell at the end of the text: it goes on with the last run of its
\* row, or starts one.  A run starts at its first cell, from 0.
AppendCell(doc, row, c) ==
    LET r == row[c].rendition
        n == Len(doc.runs)
    IN  [text |-> Append(doc.text, row[c].char),
         runs |-> IF c > 0 /\ SameRun(r, doc.runs[n].rendition)
                  THEN [doc.runs EXCEPT ![n].length = @ + 1]
                  ELSE Append(doc.runs, [start |-> Len(doc.text), length |-> 1,
                                         rendition |-> r])]

AppendRow(doc, row) ==
    LET after[n \in 0 .. LastCol(row)] ==
            IF n = 0 THEN doc ELSE AppendCell(after[n - 1], row, n - 1)
    IN  after[LastCol(row)]

NoText == [text |-> <<>>, runs |-> <<>>]

LineBreak == 0 - 1

NewLine(doc) == [doc EXCEPT !.text = Append(@, LineBreak)]

Render ==
    LET rows == ShownRows
        upTo[i \in 1 .. Len(rows)] ==
            AppendRow(IF i = 1 THEN NoText ELSE NewLine(upTo[i - 1]), rows[i])
    IN  upTo[Len(rows)]

-----------------------------------------------------------------------------

\* The look a cell must have: a character's is the one its sender had asked
\* for when it was drawn, a blank's the one it was erased with.
LookOf(cell) == IF cell.char = 0 THEN cell.rendition ELSE looks[cell.char]

\* Every character of the scrollback and of the screen is in the document,
\* in its place, and has the look that was asked for when it was drawn,
\* whatever has been scrolled, pushed into the scrollback, erased, saved,
\* restored or redrawn around it since: the stretches of text that get one
\* format cover each place once, and never a character of another look.
ShownAsDrawn ==
    drawn > 0 =>
        LET doc == Render
            rows == ShownRows
            newlines == {p \in DOMAIN doc.text : doc.text[p] = LineBreak}
            LineStart(i) == Min({p \in {0} \cup newlines :
                                    Cardinality({q \in newlines : q <= p}) = i - 1})
            Covering(p) == {k \in DOMAIN doc.runs :
                                p \in doc.runs[k].start + 1
                                        .. doc.runs[k].start + doc.runs[k].length}
        IN  /\ Cardinality(newlines) = Len(rows) - 1
            /\ \A i \in DOMAIN rows : \A c \in Col :
                    c < LastCol(rows[i]) =>
                        LET p == LineStart(i) + c + 1
                        IN  /\ doc.text[p] = rows[i][c].char
                            /\ \E k \in Covering(p) :
                                    /\ Covering(p) = {k}
                                    /\ Format(doc.runs[k].rendition)
                                            = Format(LookOf(rows[i][c]))
            /\ \A r \in Row : \A c \in Filled(cells.grid[r]) :
                    \E i \in DOMAIN rows : rows[i] = cells.grid[r] /\ c < LastCol(rows[i])
=============================================================================
