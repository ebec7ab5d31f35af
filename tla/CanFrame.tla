------------------------------ MODULE CanFrame ------------------------------
(***************************************************************************)
(* The sixteen bytes in which the bridge's clients and server exchange a   *)
(* CAN frame: the identifier little-endian with the extended-frame and the *)
(* error flag in its top byte, the length, three bytes of padding and the  *)
(* data.  Both sides code frames on their own.                             *)
(***************************************************************************)
EXTENDS Naturals, Sequences

EightAtMost(n) == IF n > 8 THEN 8 ELSE n

\* OnSendClicked: the value that was typed decides the length of the
\* identifier; what is no identifier or no data is refused before.
OnSendClicked(id, data) == [id |-> id, extended |-> id > 2047, data |-> data]

\* The identifier with canEffFlag, 0x80000000, for 29 bits.
Word(m) ==
    <<m.id % 256, (m.id \div 256) % 256, (m.id \div 65536) % 256,
      m.id \div 16777216 + (IF m.extended THEN 128 ELSE 0)>>

Padded(data) == [i \in 1 .. 8 |-> IF i <= Len(data) THEN data[i] ELSE 0]

EncodeFrame(m) ==
    Word(m) \o <<EightAtMost(Len(m.data)), 0, 0, 0>> \o Padded(m.data)

\* _encode_frame: the length is the message's, whatever its data.
_encode_frame(m) == Word(m) \o <<Len(m.data), 0, 0, 0>> \o Padded(m.data)

Rejected == [id |-> 0, extended |-> FALSE, data |-> <<"rejected">>]

\* canErrFlag is 0x20000000.
ErrorFrame(raw) == (raw[4] \div 32) % 2 = 1

Identifier(raw) == raw[1] + 256 * raw[2] + 65536 * raw[3] + 16777216 * (raw[4] % 32)

DecodeFrame(raw) ==
    IF ErrorFrame(raw) THEN Rejected
    ELSE [id |-> Identifier(raw), extended |-> raw[4] >= 128,
          data |-> SubSeq(raw, 9, 8 + EightAtMost(raw[5]))]

_decode_frame(raw) == IF Len(raw) # 16 THEN Rejected ELSE DecodeFrame(raw)
=============================================================================
