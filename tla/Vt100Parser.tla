---------------------------- MODULE Vt100Parser ----------------------------
(***************************************************************************)
(* The byte-level parser of the bridge's terminal.  A byte is one of its   *)
(* class; the parser is a record, and every handler gives the parser after *)
(* the byte and the event the byte completes.                              *)
(***************************************************************************)
EXTENDS CppInt, Sequences, SequencesExt

C0 == {"BEL", "LF"}
Intermediate == {"("}
Parameter == {"1", ";"}
PrivateMarker == {"?"}
Final == {"[", "]", "\\", "A"}
Bytes == {"ESC", "CAN", "DEL", "high"} \cup C0 \cup Intermediate
            \cup Parameter \cup PrivateMarker \cup Final

None == [kind |-> "none"]

Ground == [state |-> "Ground", params |-> <<>>, intermediate |-> "",
           privateMarker |-> FALSE]

\* Mutant: only the state is changed.
MoveOnly(p, next) == [p EXCEPT !.state = next]

\* Transition(next): what a new sequence must not inherit is cleared here.
Transition(p, next) ==
    CASE next = "CsiEntry" -> [Ground EXCEPT !.state = next]
      [] next = "Escape" -> [p EXCEPT !.state = next, !.intermediate = ""]
      [] OTHER -> [p EXCEPT !.state = next]

After(p, event) == [next |-> p, event |-> event]
Silently(p) == After(p, None)

Execute(p, b) == After(p, [kind |-> "execute", byte |-> b])

HandleGround(p, b) ==
    IF b = "DEL" THEN Silently(p)
    ELSE IF b \in C0 THEN Execute(p, b)
    ELSE After(p, [kind |-> "print"])

\* DCS, SOS, PM and APC enter the string state like OSC.
HandleEscape(p, b) ==
    CASE b \in C0 -> Execute(p, b)
      [] b \in {"DEL", "high"} -> Silently(p)
      [] b \in Intermediate -> Silently([p EXCEPT !.intermediate = b])
      [] b = "[" -> Silently(Transition(p, "CsiEntry"))
      [] b = "]" -> Silently(Transition(p, "OscString"))
      [] b = "\\" -> Silently(Transition(p, "Ground"))
      [] OTHER -> After(Transition(p, "Ground"),
                        [kind |-> "esc", final |-> b,
                         intermediate |-> p.intermediate])

\* The numbers of a parameter string: an empty field is 0, and digits are
\* taken in without a bound.
Values(params) ==
    LET Step(acc, c) ==
            IF c = ";" THEN [list |-> Append(acc.list, acc.current), current |-> 0]
            ELSE [acc EXCEPT !.current = Wrapped(10 * @ + 1)]
        read == FoldLeft(Step, [list |-> <<>>, current |-> 0], params)
    IN  IF params = <<>> THEN <<>> ELSE Append(read.list, read.current)

DispatchCsi(p, b) ==
    After(Transition(p, "Ground"),
          [kind |-> "csi", final |-> b, params |-> Values(p.params),
           privateMarker |-> p.privateMarker, intermediate |-> p.intermediate])

\* What the three CSI states do with a byte none of their own rules takes.
CsiByte(p, b) ==
    CASE b \in C0 -> Execute(p, b)
      [] b = "DEL" -> Silently(p)
      [] b \in Intermediate ->
            Silently(Transition([p EXCEPT !.intermediate = b], "CsiIntermediate"))
      [] b \in Final -> DispatchCsi(p, b)
      [] OTHER -> Silently(Transition(p, "Ignore"))

CollectParam(p, b) == [p EXCEPT !.params = Append(@, b)]

HandleCsiEntry(p, b) ==
    CASE b \in PrivateMarker ->
            Silently(Transition([p EXCEPT !.privateMarker = TRUE], "CsiParam"))
      [] b \in Parameter -> Silently(Transition(CollectParam(p, b), "CsiParam"))
      [] OTHER -> CsiByte(p, b)

HandleCsiParam(p, b) ==
    IF b \in Parameter THEN Silently(CollectParam(p, b)) ELSE CsiByte(p, b)

HandleCsiIntermediate(p, b) == CsiByte(p, b)

HandleIgnore(p, b) ==
    Silently(IF b \in Final THEN Transition(p, "Ground") ELSE p)

\* Anywhere: ESC restarts and CAN and SUB abandon what is in progress.
HandleByte(p, b) ==
    CASE b = "ESC" -> Silently(Transition(p, "Escape"))
      [] b = "CAN" -> Silently(Transition(p, "Ground"))
      [] OTHER ->
            CASE p.state = "Ground" -> HandleGround(p, b)
              [] p.state = "Escape" -> HandleEscape(p, b)
              [] p.state = "CsiEntry" -> HandleCsiEntry(p, b)
              [] p.state = "CsiParam" -> HandleCsiParam(p, b)
              [] p.state = "CsiIntermediate" -> HandleCsiIntermediate(p, b)
              [] OTHER -> HandleIgnore(p, b)

HandleOsc(p, b) ==
    Silently(CASE b \in {"BEL", "CAN"} -> Transition(p, "Ground")
               [] b = "ESC" -> [p EXCEPT !.state = "OscStringEsc"]
               [] OTHER -> p)

\* ESC \ ends the string; any other byte is read again as after an ESC.
HandleOscEsc(p, b) ==
    IF b = "\\" THEN Silently(Transition(p, "Ground"))
    ELSE HandleByte(Transition(p, "Escape"), b)

FeedByte(p, b) ==
    CASE p.state = "OscString" -> HandleOsc(p, b)
      [] p.state = "OscStringEsc" -> HandleOscEsc(p, b)
      [] OTHER -> HandleByte(p, b)

\* A parser of its own, fed with the bytes of a sequence: the last event.
Feed(bytes) ==
    LET fed[n \in 0 .. Len(bytes)] ==
            IF n = 0 THEN Silently(Ground)
            ELSE FeedByte(fed[n - 1].next, bytes[n])
    IN  fed[Len(bytes)]
=============================================================================
