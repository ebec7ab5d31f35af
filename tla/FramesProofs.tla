---------------------------- MODULE FramesProofs ----------------------------
(***************************************************************************)
(* What passes the hardware bridge, proved for every number of             *)
(* connections, sends and frames: CAN frames pass the wire and the two     *)
(* codecs whole, nothing passes twice, and what one client sends passes    *)
(* in order, both ways, as long as no session began beside another's       *)
(* tasks; with what BridgeProofs proves of the other parts, the types of   *)
(* the whole bridge; and the document the widget makes of the terminal's   *)
(* cells.  Sections: the codecs, the invariant, what clients send, what    *)
(* they get, the types, the document cell by cell and row by row.          *)
(***************************************************************************)
EXTENDS BridgeProofs

-----------------------------------------------------------------------------
(* The bytes of a CAN frame.                                               *)

\* The identifier and its flag come through the word.
LEMMA WordIs ==
  ASSUME NEW id \in Int, 0 <= id, id <= 536870911, NEW e \in Int, e = 0 \/ e = 128,
         NEW top \in Int, top = id \div 16777216 + e
  PROVE  /\ (top \div 32) % 2 = 0
         /\ top % 32 = id \div 16777216
         /\ top >= 128 <=> e = 128
         /\ (id % 256) + 256 * ((id \div 256) % 256)
              + 65536 * ((id \div 65536) % 256) + 16777216 * (id \div 16777216) = id
  <1>1. id \div 16777216 \in Int /\ 0 <= id \div 16777216 /\ id \div 16777216 <= 31
    BY SMT
  <1>2. /\ (top \div 32) % 2 = 0 /\ top % 32 = id \div 16777216
        /\ (top >= 128 <=> e = 128)
    BY <1>1, SMT
  <1>3. (id % 256) + 256 * ((id \div 256) % 256)
              + 65536 * ((id \div 65536) % 256) + 16777216 * (id \div 16777216) = id
    BY SMT
  <1> QED BY <1>2, <1>3, SMT

\* The data of sixteen bytes.
LEMMA DataIs ==
  ASSUME NEW D, NEW d \in Seq(D), NEW l \in Nat, l = Len(d), NEW raw,
         \A i \in 1 .. l : raw[8 + i] = d[i]
  PROVE  SubSeq(raw, 9, 8 + l) = d
  <1>1. \A i \in 1 .. l : d[i] \in D
    BY ElementOfSeq
  <1>2. ASSUME NEW i \in 9 .. 8 + l PROVE raw[i] \in D
    <2>1. i - 8 \in 1 .. l /\ 8 + (i - 8) = i
      BY SMT
    <2> QED BY <1>1, <2>1, Zenon
  <1> DEFINE x == SubSeq(raw, 9, 8 + l)
  <1>3. /\ x \in Seq(D)
        /\ Len(x) = IF 9 <= 8 + l THEN (8 + l) - 9 + 1 ELSE 0
        /\ \A i \in 1 .. (8 + l) - 9 + 1 : x[i] = raw[9 + i - 1]
    <2> DEFINE n == 8 + l
    <2>1. 9 \in Int /\ n \in Int
      BY SMT
    <2>2. \A i \in 9 .. n : raw[i] \in D
      BY <1>2
    <2> HIDE DEF n
    <2>3. /\ SubSeq(raw, 9, n) \in Seq(D)
          /\ Len(SubSeq(raw, 9, n)) = IF 9 <= n THEN n - 9 + 1 ELSE 0
          /\ \A i \in 1 .. n - 9 + 1 : SubSeq(raw, 9, n)[i] = raw[9 + i - 1]
      BY <2>1, <2>2, SubSeqProperties
    <2> QED BY <2>3 DEF n
  <1> HIDE DEF x
  <1>4. Len(x) = Len(d)
    BY <1>3, SMT
  <1>5. ASSUME NEW i \in 1 .. l PROVE x[i] = d[i]
    <2>1. i \in 1 .. (8 + l) - 9 + 1 /\ 9 + i - 1 = 8 + i
      BY SMT
    <2> QED BY <1>3, <2>1, Zenon
  <1>6. x = d
    BY <1>3, <1>4, <1>5, SeqEqual
  <1> QED BY <1>6 DEF x

LEMMA HalvesJoin ==
  ASSUME NEW S, NEW raw \in Seq(S), Len(raw) = 16
  PROVE  Half(raw, 1) \o Half(raw, 2) = raw
  <1>1. Half(raw, 1) = SubSeq(raw, 1, 8) /\ Half(raw, 2) = SubSeq(raw, 9, 16)
    BY SMT DEF Half
  <1>2. SubSeq(raw, 1, 8) \o SubSeq(raw, 8 + 1, 16) = SubSeq(raw, 1, 16)
    <2>1. 1 \in 1 .. Len(raw) + 1 /\ 8 \in 1 - 1 .. Len(raw) /\ 16 \in 8 .. Len(raw)
      BY SMT
    <2> QED BY <2>1, ConcatAdjacentSubSeq, Zenon
  <1>3. 8 + 1 = 9
    BY SMT
  <1> QED BY <1>1, <1>2, <1>3, SubSeqFull, Zenon

\* Identifiers have 29 bits.
Identifiers == {i \in Int : 0 <= i /\ i <= 536870911}

\* Four bytes that are read as an identifier and its flag.
Carries(w1, w2, w3, w4, id, ext) ==
    /\ (w4 \div 32) % 2 = 0
    /\ (w4 >= 128) = ext
    /\ w1 + 256 * w2 + 65536 * w3 + 16777216 * (w4 % 32) = id

LEMMA DecodedIs ==
  ASSUME NEW id, NEW ext, NEW raw,
         raw[1] \in Int, raw[2] \in Int, raw[3] \in Int, raw[4] \in Int,
         Carries(raw[1], raw[2], raw[3], raw[4], id, ext)
  PROVE  DecodeFrame(raw) = [id |-> id, extended |-> ext,
                             data |-> SubSeq(raw, 9, 8 + EightAtMost(raw[5]))]
  <1>1. ~ErrorFrame(raw)
    BY SMT DEF Carries, ErrorFrame
  <1>2. Identifier(raw) = id
    BY SMT DEF Carries, Identifier
  <1>3. (raw[4] >= 128) = ext
    BY SMT DEF Carries
  <1> QED BY <1>1, <1>2, <1>3, Zenon DEF DecodeFrame

LEMMA WordOf ==
  ASSUME NEW id \in Identifiers, NEW ext \in BOOLEAN, NEW d,
         NEW m, m = [id |-> id, extended |-> ext, data |-> d]
  PROVE  \E w1, w2, w3, w4 \in Int :
           Word(m) = <<w1, w2, w3, w4>> /\ Carries(w1, w2, w3, w4, id, ext)
  <1> DEFINE w1 == id % 256
             w2 == (id \div 256) % 256
             w3 == (id \div 65536) % 256
             e == IF ext THEN 128 ELSE 0
             w4 == id \div 16777216 + e
  <1>0. id \in Int /\ 0 <= id /\ id <= 536870911
    BY SMT DEF Identifiers
  <1>1. e \in Int /\ (e = 0 \/ e = 128) /\ (e = 128 <=> ext) /\ w4 \in Int
        /\ w1 \in Int /\ w2 \in Int /\ w3 \in Int
    BY <1>0, SMT
  <1>2. Word(m) = <<w1, w2, w3, w4>>
    BY SMT DEF Word
  <1>3. /\ (w4 \div 32) % 2 = 0
        /\ w4 % 32 = id \div 16777216
        /\ w4 >= 128 <=> e = 128
        /\ w1 + 256 * w2 + 65536 * w3 + 16777216 * (id \div 16777216) = id
    BY <1>0, <1>1, WordIs, SMT
  <1>4. (w4 >= 128) = ext
    BY <1>1, <1>3, SMT
  <1>5. w1 + 256 * w2 + 65536 * w3 + 16777216 * (w4 % 32) = id
    BY <1>3, SMT
  <1>6. Carries(w1, w2, w3, w4, id, ext)
    BY <1>3, <1>4, <1>5, SMT DEF Carries
  <1> HIDE DEF w1, w2, w3, w4, e
  <1> QED BY <1>1, <1>2, <1>6, Zenon

\* EncodeFrame and _encode_frame code a frame so that the other side's decoder
\* reads it as it was: any identifier of 29 bits, either format, up to eight
\* bytes of data, and the two halves in which the frame may come.
THEOREM CodingIsLossless ==
  ASSUME NEW id \in Identifiers, NEW ext \in BOOLEAN,
         NEW D, NEW d \in Seq(D), Len(d) <= 8,
         NEW m, m = [id |-> id, extended |-> ext, data |-> d],
         NEW raw, raw = EncodeFrame(m) \/ raw = _encode_frame(m)
  PROVE  /\ DecodeFrame(Half(raw, 1) \o Half(raw, 2)) = m
         /\ _decode_frame(Half(raw, 1) \o Half(raw, 2)) = m
  <1> DEFINE l == Len(d)
             p == [i \in 1 .. 8 |-> IF i <= Len(d) THEN d[i] ELSE 0]
  <1>1. l \in Nat /\ l <= 8 /\ m.data = d /\ EightAtMost(l) = l
    <2>1. l \in Nat
      BY LenProperties
    <2> QED BY <2>1, SMT DEF EightAtMost
  <1>2. PICK w1, w2, w3, w4 \in Int :
           Word(m) = <<w1, w2, w3, w4>> /\ Carries(w1, w2, w3, w4, id, ext)
    BY WordOf, Zenon
  <1>3. Padded(m.data) = [i \in 1 .. 8 |-> p[i]]
    BY <1>1, SMT DEF Padded
  <1>0. l = Len(d)
    OBVIOUS
  <1> HIDE DEF p, l
  <1>4. raw = Word(m) \o <<l, 0, 0, 0>> \o Padded(m.data)
    BY <1>0, <1>1, Zenon DEF EncodeFrame, _encode_frame
  <1>5. raw = <<w1, w2, w3, w4>> \o <<l, 0, 0, 0>> \o [i \in 1 .. 8 |-> p[i]]
    BY <1>2, <1>3, <1>4, Zenon
  <1>5a. \A i \in 1 .. l : p[i] = d[i]
    <2>1. \A i \in 1 .. l : i \in 1 .. 8 /\ i <= l
      BY <1>1, SMT
    <2> QED BY <1>0, <2>1 DEF p
  <1>6. /\ Len(raw) = 16 /\ \E S : raw \in Seq(S)
        /\ raw[1] = w1 /\ raw[2] = w2 /\ raw[3] = w3 /\ raw[4] = w4 /\ raw[5] = l
        /\ SubSeq(raw, 9, 8 + l) = d
    <2> DEFINE S == {w1, w2, w3, w4, l, 0} \cup {p[i] : i \in 1 .. 8}
               a == <<w1, w2, w3, w4>>
               b == <<l, 0, 0, 0>>
               q == [i \in 1 .. 8 |-> p[i]]
    <2>0. raw = a \o b \o q
      BY <1>5
    <2>1. a \in Seq(S) /\ Len(a) = 4 /\ a[1] = w1 /\ a[2] = w2 /\ a[3] = w3 /\ a[4] = w4
      BY SMT
    <2>2. b \in Seq(S) /\ Len(b) = 4 /\ b[1] = l
      BY SMT
    <2>3. q \in Seq(S) /\ Len(q) = 8 /\ \A i \in 1 .. 8 : q[i] = p[i]
      BY SMT
    <2> HIDE DEF a, b, q, S
    <2> DEFINE ab == a \o b
    <2>4. /\ ab \in Seq(S) /\ Len(ab) = 4 + 4
          /\ \A i \in 1 .. 4 : ab[i] = a[i]
          /\ \A i \in 1 .. 4 : ab[4 + i] = b[i]
      <3>1. ab \in Seq(S) /\ Len(ab) = Len(a) + Len(b)
        BY <2>1, <2>2, JoinType, Zenon
      <3>2. \A i \in 1 .. Len(a) : ab[i] = a[i]
        BY <2>1, <2>2, JoinFirst, Zenon
      <3>3. \A i \in 1 .. Len(b) : ab[Len(a) + i] = b[i]
        <4>1. \A s, t \in Seq(S) : \A i \in 1 .. Len(t) : (s \o t)[Len(s) + i] = t[i]
          BY JoinLast
        <4> QED BY <2>1, <2>2, <4>1, Zenon
      <3> HIDE DEF ab
      <3> QED BY <2>1, <2>2, <3>1, <3>2, <3>3, Zenon
    <2>5. raw = ab \o q
      BY <2>0
    <2> HIDE DEF ab
    <2>6. /\ raw \in Seq(S) /\ Len(raw) = 8 + 8
          /\ \A i \in 1 .. 8 : raw[i] = ab[i]
          /\ \A i \in 1 .. 8 : raw[8 + i] = q[i]
      <3>1. Len(ab) = 8
        BY <2>4, SMT
      <3>2. ab \o q \in Seq(S) /\ Len(ab \o q) = Len(ab) + Len(q)
        BY <2>3, <2>4, JoinType, Zenon
      <3>3. \A i \in 1 .. Len(ab) : (ab \o q)[i] = ab[i]
        <4>1. \A s, t \in Seq(S) : \A i \in 1 .. Len(s) : (s \o t)[i] = s[i]
          BY JoinFirst
        <4> QED BY <2>3, <2>4, <4>1, Zenon
      <3>4. \A i \in 1 .. Len(q) : (ab \o q)[Len(ab) + i] = q[i]
        <4>1. \A s, t \in Seq(S) : \A i \in 1 .. Len(t) : (s \o t)[Len(s) + i] = t[i]
          BY JoinLast
        <4> QED BY <2>3, <2>4, <4>1, Zenon
      <3> QED BY <2>3, <2>5, <3>1, <3>2, <3>3, <3>4, Zenon
    <2>7. raw[1] = w1 /\ raw[2] = w2 /\ raw[3] = w3 /\ raw[4] = w4 /\ raw[5] = l
      <3>1. ab[1] = w1 /\ ab[2] = w2 /\ ab[3] = w3 /\ ab[4] = w4
        BY <2>1, <2>4, SMT
      <3>2. ab[4 + 1] = l /\ 4 + 1 = 5
        BY <2>2, <2>4, SMT
      <3>3. 1 \in 1 .. 8 /\ 2 \in 1 .. 8 /\ 3 \in 1 .. 8 /\ 4 \in 1 .. 8 /\ 5 \in 1 .. 8
        BY SMT
      <3>4. /\ raw[1] = ab[1] /\ raw[2] = ab[2] /\ raw[3] = ab[3] /\ raw[4] = ab[4]
            /\ raw[5] = ab[5]
        BY <2>6, <3>3, Zenon
      <3> QED BY <3>1, <3>2, <3>4, Zenon
    <2>8. \A i \in 1 .. 8 : raw[8 + i] = p[i]
      BY <2>3, <2>6, Zenon
    <2>9. Len(raw) = 16
      BY <2>6, SMT
    <2>10. SubSeq(raw, 9, 8 + l) = d
      <3>1. \A i \in 1 .. l : i \in 1 .. 8
        BY <1>1, SMT
      <3>2. \A i \in 1 .. l : raw[8 + i] = d[i]
        BY <2>8, <3>1, <1>5a, Zenon
      <3> QED BY <3>2, <1>0, <1>1, DataIs, Zenon
    <2> QED
      BY <2>6, <2>7, <2>9, <2>10, Zenon
  <1>7. Half(raw, 1) \o Half(raw, 2) = raw
    <2>1. PICK S : raw \in Seq(S)
      BY <1>6, Zenon
    <2> QED BY <1>6, <2>1, HalvesJoin, Zenon
  <1>9. DecodeFrame(raw) = [id |-> id, extended |-> ext,
                            data |-> SubSeq(raw, 9, 8 + EightAtMost(raw[5]))]
    <2>1. /\ raw[1] \in Int /\ raw[2] \in Int /\ raw[3] \in Int /\ raw[4] \in Int
          /\ Carries(raw[1], raw[2], raw[3], raw[4], id, ext)
      BY <1>2, <1>6, Zenon
    <2> QED BY <2>1, DecodedIs, Zenon
  <1>10. DecodeFrame(raw) = m
    BY <1>1, <1>6, <1>9, Zenon
  <1>11. _decode_frame(raw) = DecodeFrame(raw)
    BY <1>6, SMT DEF _decode_frame
  <1> QED BY <1>7, <1>10, <1>11, Zenon

LEMMA TypedIs ==
  ASSUME NEW i
  PROVE  _decode_frame(Half(EncodeFrame(Typed(i)), 1) \o Half(EncodeFrame(Typed(i)), 2))
           = Typed(i)
  <1> DEFINE id == IF i % 2 = 1 THEN 5 ELSE 536870911
             ext == id > 2047
             d == <<i>>
  <1>1. id \in Identifiers /\ ext \in BOOLEAN
    BY SMT DEF Identifiers
  <1>2. d \in Seq({i}) /\ Len(d) <= 8
    BY SMT
  <1>3. Typed(i) = [id |-> id, extended |-> ext, data |-> d]
    BY SMT DEF Typed, OnSendClicked
  <1> HIDE DEF id, ext, d
  <1> DEFINE m == Typed(i)
             raw == EncodeFrame(m)
  <1>4. m = [id |-> id, extended |-> ext, data |-> d]
    BY <1>3
  <1>5. raw = EncodeFrame(m) \/ raw = _encode_frame(m)
    OBVIOUS
  <1> HIDE DEF m, raw
  <1>6. _decode_frame(Half(raw, 1) \o Half(raw, 2)) = m
    BY <1>1, <1>2, <1>4, <1>5, CodingIsLossless
  <1> QED BY <1>6, Zenon DEF m, raw

LEMMA OnBusIs ==
  ASSUME NEW n
  PROVE  DecodeFrame(Half(_encode_frame(OnBus(n)), 1) \o Half(_encode_frame(OnBus(n)), 2))
           = OnBus(n)
  <1> DEFINE ext == n % 2 = 1
             d == IF n = 1 THEN <<>> ELSE <<n, n>>
  <1>1. 2047 \in Identifiers /\ ext \in BOOLEAN
    BY SMT DEF Identifiers
  <1>2. d \in Seq({n}) /\ Len(d) <= 8
    <2>1. <<>> \in Seq({n}) /\ Len(<<>>) <= 8
      BY SMT
    <2>2. <<n, n>> \in Seq({n}) /\ Len(<<n, n>>) <= 8
      BY SMT
    <2> QED BY <2>1, <2>2, Zenon
  <1>3. OnBus(n) = [id |-> 2047, extended |-> ext, data |-> d]
    BY SMT DEF OnBus
  <1> HIDE DEF ext, d
  <1> DEFINE m == OnBus(n)
             raw == _encode_frame(m)
  <1>4. m = [id |-> 2047, extended |-> ext, data |-> d]
    BY <1>3
  <1>5. raw = EncodeFrame(m) \/ raw = _encode_frame(m)
    OBVIOUS
  <1> HIDE DEF m, raw
  <1>6. DecodeFrame(Half(raw, 1) \o Half(raw, 2)) = m
    BY <1>1, <1>2, <1>4, <1>5, CodingIsLossless
  <1> QED BY <1>6, Zenon DEF m, raw

-----------------------------------------------------------------------------
(* Frames on the wire.                                                     *)

Pieces == (Nat \ {0}) \X (Nat \ {0})

\* Halves of frames follow each other, and the first goes with the one that
\* the receiver holds of frame b, if any.
Aligned(t, b) ==
    /\ \A n \in DOMAIN t :
        /\ t[n][2] \in {1, 2}
        /\ t[n][2] = 1 => n + 1 \in DOMAIN t /\ t[n + 1] = <<t[n][1], 2>>
        /\ t[n][2] = 2 /\ n + 1 \in DOMAIN t => t[n + 1][2] = 1
    /\ b = 0 /\ t # <<>> => t[1][2] = 1
    /\ b # 0 => t # <<>> /\ t[1] = <<b, 2>>

\* A connection that has not come up yet.
NotUp(c) == tcp[c] \in {"none", "connecting"}

\* As long as no session began beside another one, each has the slot, or had
\* it when the server stopped, and waits on no other's reader.
Alone ==
    /\ \A c \in running \cup ending : writer \in {0, c}
    /\ \A c \in running : source[c] \in {0, c}

SlotTypes ==
    /\ source \in [Conns -> Conns \cup {0}]
    /\ \A c \in Conns \ running : source[c] = 0
    /\ server \in {"down", "listening"} =>
         ~shared /\ \A c \in running \cup ending : writer = c
    /\ ~shared => Alone

SessionTypes ==
    /\ kind \in {"serial", "can"}
    /\ accepted \subseteq Conns
    /\ running \cap ending = {} /\ running \cup ending \subseteq accepted
    /\ writer \in Conns \cup {0} /\ (writer # 0 => writer \in accepted)
    /\ \A c \in Conns : NotUp(c) => c \notin accepted
    /\ SlotTypes

\* What is sent later comes later on the wire.
Before(a, b) == a[1] < b[1] \/ (a[1] = b[1] /\ a[2] < b[2])

\* What has passed the server: all of a CAN frame, or one piece.
Precedes(k, s, a) == s[1] < a[1] \/ (k = "serial" /\ s[1] = a[1] /\ s[2] < a[2])

Sent(k) == IF k = "can" THEN {<<i, i, c, Typed(i)>> : i \in Nat, c \in Conns}
           ELSE {<<i, h, c>> : i \in Nat, h \in Nat, c \in Conns}

\* The next piece that client r will send.
NextPiece(r) == <<r.pend, 3 - r.left>>

\* What client r of connection c has sent: first what the hardware was given,
\* then what is on the wire, then what the client holds.
SentInOrder(k, c, q, w, g, r) ==
    /\ \A m, n \in DOMAIN q : m < n => Before(q[m], q[n])
    /\ \A n \in DOMAIN q : q[n][1] <= g
    /\ \A j \in DOMAIN w : w[j][3] = c => w[j][1] <= g
    /\ \A j \in DOMAIN w, n \in DOMAIN q : w[j][3] = c => Precedes(k, w[j], q[n])
    /\ \A i, j \in DOMAIN w :
        i < j /\ w[i][3] = c /\ w[j][3] = c => Precedes(k, w[i], w[j])
    /\ r.pend <= g /\ r.queued <= g
    /\ r.pend # 0 =>
        /\ r.left \in {1, 2} /\ (k = "can" => r.left = 2)
        /\ \A n \in DOMAIN q : Before(q[n], NextPiece(r))
        /\ \A j \in DOMAIN w : w[j][3] = c => Precedes(k, w[j], NextPiece(r))

\* What client c has sent and the hardware has not got.
Stream(c) == buffer[c] \o toServer[c]

\* What the server reads of client c, or will read, is whole.
SentIsWhole(c) ==
    kind = "can" /\ (c \in running \/ c \notin accepted) => Aligned(Stream(c), 0)

SentInv ==
    /\ onHardware \in Seq(Sent(kind))
    /\ toServer \in [Conns -> Seq(Pieces)]
    /\ buffer \in [Conns -> Seq(Pieces)]
    /\ \A c \in Conns :
        /\ NotUp(c) => /\ Stream(c) = <<>>
                       /\ \A j \in DOMAIN onHardware : onHardware[j][3] # c
        /\ SentIsWhole(c)
        /\ SentInOrder(kind, c, Stream(c), onHardware, given, client[c])

Got(k) == IF k = "can" THEN {<<n, n, OnBus(n)>> : n \in Nat} ELSE {<<n, n>> : n \in Nat}

Done(c) == reading[c].at = "done"

\* The frames that a thread has read and nobody has taken from it.
OnHand == {n \in 1 .. taken : \E c \in Conns : Done(c) /\ reading[c].frame = n}

\* A frame is in one place: with a thread, on the wire, or delivered.
GotOnce(q, v, t, F, on) ==
    /\ \A n \in DOMAIN q : q[n][1] <= t /\ q[n][1] \notin F
    /\ \A j \in DOMAIN v : v[j][1] <= t /\ v[j][1] \notin F
    /\ \A m, n \in DOMAIN q : m # n => q[m] # q[n]
    /\ \A j, k \in DOMAIN v : j # k => v[j][1] # v[k][1]
    /\ on => \A j \in DOMAIN v, n \in DOMAIN q : v[j][1] # q[n][1]

GotInOrder(q, v, on) ==
    /\ \A m, n \in DOMAIN q : m < n => q[m][1] <= q[n][1]
    /\ \A j, k \in DOMAIN v : j < k => v[j][1] <= v[k][1]
    /\ on => \A j \in DOMAIN v, n \in DOMAIN q : v[j][1] <= q[n][1]

\* Frame f comes after all that is delivered or on the wire.
Newest(q, v, f) ==
    /\ \A n \in DOMAIN q : q[n][1] < f
    /\ \A j \in DOMAIN v : v[j][1] < f

\* What client c gets, or will get, is whole.
GotIsWhole(c) ==
    /\ kind = "serial" => \A n \in DOMAIN toClient[c] : toClient[c][n][1] = toClient[c][n][2]
    /\ kind = "can" /\ client[c].connected => Aligned(toClient[c], client[c].half)

\* What a session that is alone gets is in order.
OneSession(c) ==
    /\ c \in running /\ Done(c) => Newest(toClient[c], delivered[c], reading[c].frame)
    /\ GotInOrder(toClient[c], delivered[c], client[c].connected)

\* Two threads never hold the same frame.
HandsDiffer ==
    \A c \in Conns : Done(c) =>
        /\ reading[c].frame \in 1 .. taken
        /\ \A d \in Conns \ {c} : Done(d) => reading[c].frame # reading[d].frame

GotInv ==
    /\ HandsDiffer
    /\ toClient \in [Conns -> Seq(Pieces)]
    /\ delivered \in [Conns -> Seq(Got(kind))]
    /\ \A c \in Conns :
        /\ NotUp(c) => toClient[c] = <<>> /\ delivered[c] = <<>> /\ client[c].half = 0
        /\ GotIsWhole(c)
        /\ GotOnce(toClient[c], delivered[c], taken, OnHand, client[c].connected)
    /\ ~shared => \A c \in Conns : OneSession(c)

-----------------------------------------------------------------------------
(* Halves and pieces on the wire.                                          *)

LEMMA PieceIs ==
  ASSUME NEW a \in Pieces
  PROVE  a[1] \in Nat \ {0} /\ a[2] \in Nat \ {0} /\ a = <<a[1], a[2]>>
  BY SMT DEF Pieces

LEMMA NothingIsAligned == Aligned(<<>>, 0)
  BY SMT DEF Aligned

\* Two pieces more.
TwoMore(s, x, y, t) ==
    /\ t \in Seq(Pieces) /\ t # <<>>
    /\ DOMAIN t = (DOMAIN s) \cup {Len(s) + 1, Len(s) + 2}
    /\ \A n \in DOMAIN s : t[n] = s[n]
    /\ t[Len(s) + 1] = x /\ t[Len(s) + 2] = y

LEMMA PiecesMore ==
  ASSUME NEW s \in Seq(Pieces), NEW x \in Pieces, NEW y \in Pieces, NEW t, t = s \o <<x, y>>
  PROVE  TwoMore(s, x, y, t)
  <1> DEFINE l == Len(s)
             p == <<x, y>>
  <1>1. l \in Nat /\ DOMAIN s = 1 .. l
    BY DomainIs
  <1>2. p \in Seq(Pieces) /\ Len(p) = 2 /\ p[1] = x /\ p[2] = y
    BY SMT
  <1>0. t = s \o p
    OBVIOUS
  <1> HIDE DEF p
  <1>3. t \in Seq(Pieces) /\ Len(t) = l + 2
    BY <1>0, <1>2, JoinType
  <1>4. DOMAIN t = 1 .. Len(t)
    BY <1>3, DomainIs
  <1>5. \A i \in 1 .. l : t[i] = s[i]
    BY <1>0, <1>2, JoinFirst
  <1>6. t[l + 1] = x /\ t[l + 2] = y
    <2>1. \A i \in 1 .. Len(p) : (s \o p)[Len(s) + i] = p[i]
      <3>1. \A a, b \in Seq(Pieces) : \A i \in 1 .. Len(b) : (a \o b)[Len(a) + i] = b[i]
        BY JoinLast
      <3> QED BY <1>2, <3>1, Zenon
    <2>2. 1 \in 1 .. Len(p) /\ 2 \in 1 .. Len(p)
      BY <1>2, SMT
    <2> QED BY <1>0, <1>2, <2>1, <2>2, Zenon
  <1>7. t # <<>>
    BY <1>1, <1>3, EmptySeq, SMT
  <1> HIDE DEF l
  <1>8. DOMAIN t = (DOMAIN s) \cup {l + 1, l + 2}
    BY <1>1, <1>3, <1>4, SMT
  <1> QED BY <1>1, <1>3, <1>5, <1>6, <1>7, <1>8, Zenon DEF l, TwoMore

\* The receiver takes the next half.
LEMMA RestIsAligned ==
  ASSUME NEW t \in Seq(Pieces), NEW b \in Nat, Aligned(t, b), t # <<>>
  PROVE  /\ b = 0 => Aligned(Tail(t), Head(t)[1])
         /\ b # 0 => Aligned(Tail(t), 0) /\ Head(t) = <<b, 2>>
  <1> DEFINE u == Tail(t)
             h == Head(t)
  <1>1. /\ h = t[1] /\ h \in Pieces
        /\ \A n \in DOMAIN u : n + 1 \in DOMAIN t /\ u[n] = t[n + 1]
        /\ \A n \in Nat \ {0} : n + 1 \in DOMAIN t => n \in DOMAIN u
    BY RestIs
  <1>2. /\ u \in Seq(Pieces) /\ 1 \in DOMAIN t
        /\ \A n \in DOMAIN t : n \in Nat /\ n >= 1
    BY RestIs, DomainIs
  <1>3. /\ \A n \in DOMAIN u : n \in Nat /\ n >= 1
        /\ u # <<>> => 1 \in DOMAIN u
    <2> HIDE DEF u
    <2> QED BY <1>2, DomainIs
  <1> HIDE DEF u, h
  <1>4. \A n \in DOMAIN t :
          /\ t[n][2] \in {1, 2}
          /\ t[n][2] = 1 => n + 1 \in DOMAIN t /\ t[n + 1] = <<t[n][1], 2>>
          /\ t[n][2] = 2 /\ n + 1 \in DOMAIN t => t[n + 1][2] = 1
    BY DEF Aligned
  <1>5. ASSUME NEW n \in DOMAIN u
        PROVE  /\ u[n][2] \in {1, 2}
               /\ u[n][2] = 1 => n + 1 \in DOMAIN u /\ u[n + 1] = <<u[n][1], 2>>
               /\ u[n][2] = 2 /\ n + 1 \in DOMAIN u => u[n + 1][2] = 1
    <2>1. n \in Nat /\ n >= 1 /\ n + 1 \in DOMAIN t /\ u[n] = t[n + 1]
      BY <1>1, <1>3
    <2>2. n + 1 \in Nat \ {0}
      BY <2>1, SMT
    <2>3. n + 1 \in DOMAIN u => n + 1 + 1 \in DOMAIN t /\ u[n + 1] = t[n + 1 + 1]
      BY <1>1
    <2>4. n + 1 + 1 \in DOMAIN t => n + 1 \in DOMAIN u /\ u[n + 1] = t[n + 1 + 1]
      BY <1>1, <2>2
    <2> QED BY <1>4, <2>1, <2>3, <2>4, Zenon
  <1>6. u # <<>> => u[1] = t[1 + 1] /\ 1 + 1 \in DOMAIN t
    BY <1>1, <1>3
  <1>7. CASE b = 0
    <2>1. t[1][2] = 1
      BY <1>7 DEF Aligned
    <2>2. 1 + 1 \in DOMAIN t /\ t[1 + 1] = <<h[1], 2>>
      BY <1>1, <1>2, <1>4, <2>1, Zenon
    <2>3. 1 \in Nat \ {0}
      BY SMT
    <2>4. 1 \in DOMAIN u /\ u[1] = <<h[1], 2>>
      BY <1>1, <2>2, <2>3
    <2>5. h[1] # 0
      BY <1>1, PieceIs
    <2>6. u # <<>>
      BY <2>4, SMT
    <2>7. Aligned(u, h[1])
      BY <1>5, <2>4, <2>5, <2>6, Zenon DEF Aligned
    <2> QED BY <1>7, <2>7 DEF u, h
  <1>8. CASE b # 0
    <2>1. h = <<b, 2>>
      BY <1>1, <1>8 DEF Aligned
    <2>2. t[1][2] = 2
      BY <1>1, <2>1, SMT
    <2>3. u # <<>> => u[1][2] = 1
      BY <1>2, <1>4, <1>6, <2>2, Zenon
    <2>4. Aligned(u, 0)
      BY <1>5, <2>3, Zenon DEF Aligned
    <2> QED BY <1>8, <2>1, <2>4 DEF u, h
  <1> QED BY <1>7, <1>8

\* The sender adds both halves of a frame.
LEMMA FrameMoreIsAligned ==
  ASSUME NEW t \in Seq(Pieces), NEW b \in Nat, Aligned(t, b), NEW i \in Nat \ {0},
         NEW v, v = t \o <<<<i, 1>>, <<i, 2>>>>
  PROVE  Aligned(v, b)
  <1> DEFINE l == Len(t)
             x == <<i, 1>>
             y == <<i, 2>>
  <1>0. x \in Pieces /\ y \in Pieces /\ x[1] = i /\ x[2] = 1 /\ y[2] = 2
    BY SMT DEF Pieces
  <1>1. v = t \o <<x, y>>
    OBVIOUS
  <1>y. y = <<i, 2>>
    OBVIOUS
  <1> HIDE DEF x, y
  <1>2. /\ v \in Seq(Pieces) /\ v # <<>>
        /\ DOMAIN v = (DOMAIN t) \cup {l + 1, l + 2}
        /\ \A n \in DOMAIN t : v[n] = t[n]
        /\ v[l + 1] = x /\ v[l + 2] = y
    <2>1. TwoMore(t, x, y, v)
      BY <1>0, <1>1, PiecesMore
    <2> QED BY <2>1 DEF TwoMore
  <1>3. l \in Nat /\ DOMAIN t = 1 .. l /\ (t # <<>> => 1 \in DOMAIN t)
    BY DomainIs
  <1>t. t = <<>> => l = 0
    BY SMT
  <1> HIDE DEF l
  <1>4. \A n \in DOMAIN t :
          /\ t[n][2] \in {1, 2}
          /\ t[n][2] = 1 => n + 1 \in DOMAIN t /\ t[n + 1] = <<t[n][1], 2>>
          /\ t[n][2] = 2 /\ n + 1 \in DOMAIN t => t[n + 1][2] = 1
    BY DEF Aligned
  <1>5. ASSUME NEW n \in DOMAIN v
        PROVE  /\ v[n][2] \in {1, 2}
               /\ v[n][2] = 1 => n + 1 \in DOMAIN v /\ v[n + 1] = <<v[n][1], 2>>
               /\ v[n][2] = 2 /\ n + 1 \in DOMAIN v => v[n + 1][2] = 1
    <2>1. CASE n \in DOMAIN t
      <3>1. v[n] = t[n]
        BY <1>2, <2>1
      <3>2. n + 1 \in DOMAIN t \/ n + 1 = l + 1
        BY <1>3, <2>1, SMT
      <3>3. n + 1 \in DOMAIN t => v[n + 1] = t[n + 1]
        BY <1>2
      <3>4. n + 1 = l + 1 => v[n + 1] = x
        BY <1>2
      <3>5. n + 1 \in DOMAIN t => n + 1 \in DOMAIN v
        BY <1>2
      <3> QED BY <1>0, <1>4, <2>1, <3>1, <3>2, <3>3, <3>4, <3>5, Zenon
    <2>2. CASE n = l + 1
      <3>1. n + 1 = l + 2
        BY <1>3, <2>2, SMT
      <3>2. v[n] = x /\ v[n + 1] = y /\ n + 1 \in DOMAIN v
        BY <1>2, <2>2, <3>1, Zenon
      <3>3. 1 # 2
        BY SMT
      <3> QED BY <1>0, <1>y, <3>2, <3>3, Zenon
    <2>3. CASE n = l + 2
      <3>1. n + 1 \notin DOMAIN v
        BY <1>2, <1>3, <2>3, SMT
      <3>2. v[n][2] = 2 /\ 2 # 1
        BY <1>0, <1>2, <2>3, SMT
      <3> QED BY <3>1, <3>2, Zenon
    <2> QED BY <1>2, <2>1, <2>2, <2>3, Zenon
  <1>6. CASE t = <<>>
    <2>1. v[1] = x
      <3>1. l + 1 = 1
        BY <1>6, <1>t, SMT
      <3> QED BY <1>2, <3>1, Zenon
    <2>2. b = 0
      BY <1>6 DEF Aligned
    <2> QED BY <1>0, <1>5, <2>1, <2>2, Zenon DEF Aligned
  <1>7. CASE t # <<>>
    <2>1. v[1] = t[1]
      BY <1>2, <1>3, <1>7
    <2>2. (b = 0 => t[1][2] = 1) /\ (b # 0 => t[1] = <<b, 2>>)
      BY <1>7 DEF Aligned
    <2> QED BY <1>2, <1>5, <2>1, <2>2, Zenon DEF Aligned
  <1> QED BY <1>6, <1>7

-----------------------------------------------------------------------------
(* What a client has sent stays in order.                                  *)

\* Entries of the hardware's list and pieces, as far as their order goes.
LEMMA SentIs ==
  ASSUME NEW k, NEW w \in Seq(Sent(k)), NEW j \in DOMAIN w
  PROVE  /\ w[j][1] \in Nat /\ w[j][2] \in Nat /\ w[j][3] \in Conns
         /\ k = "can" => /\ w[j][1] = w[j][2] /\ Len(w[j]) = 4
                         /\ w[j][4] = Typed(w[j][1])
  <1>1. w[j] \in Sent(k)
    BY DomainIs
  <1>2. CASE k = "can"
    <2>0. w[j] \in {<<i, i, c, Typed(i)>> : i \in Nat, c \in Conns}
      BY <1>1, <1>2 DEF Sent
    <2>1. PICK i \in Nat, c \in Conns : w[j] = <<i, i, c, Typed(i)>>
      BY <2>0
    <2> DEFINE m == Typed(i)
    <2> HIDE DEF m
    <2>2. /\ <<i, i, c, m>>[1] = i /\ <<i, i, c, m>>[2] = i /\ <<i, i, c, m>>[3] = c
          /\ <<i, i, c, m>>[4] = m /\ Len(<<i, i, c, m>>) = 4
      BY SMT
    <2> QED BY <2>1, <2>2, Zenon DEF m
  <1>3. CASE k # "can"
    <2>0. w[j] \in {<<i, h, c>> : i \in Nat, h \in Nat, c \in Conns}
      BY <1>1, <1>3 DEF Sent
    <2>1. PICK i \in Nat, h \in Nat, c \in Conns : w[j] = <<i, h, c>>
      BY <2>0
    <2> QED BY <1>3, <2>1, SMT
  <1> QED BY <1>2, <1>3

LEMMA BeforeIs ==
  ASSUME NEW a, NEW b, NEW c, a[1] \in Nat, a[2] \in Nat, b[1] \in Nat, b[2] \in Nat,
         c[1] \in Nat, c[2] \in Nat, Before(b, c)
  PROVE  /\ Before(a, b) => Before(a, c)
         /\ \A k : Precedes(k, a, b) => Precedes(k, a, c)
  BY SMT DEF Before, Precedes

\* The client's fields change, and a new send is later than all before it.
LEMMA SendsStayInOrder ==
  ASSUME NEW k, NEW c, NEW q \in Seq(Pieces), NEW w \in Seq(Sent(k)), NEW g \in Nat,
         NEW r, SentInOrder(k, c, q, w, g, r),
         NEW h \in Nat, g <= h,
         NEW p, p.pend \in Nat, p.pend <= h, p.queued <= h,
         \/ p.pend = 0
         \/ p.pend = r.pend /\ p.left = r.left
         \/ p.left = 2 /\ (p.pend > g \/ (q = <<>> /\ \A j \in DOMAIN w : w[j][3] # c))
  PROVE  SentInOrder(k, c, q, w, h, p)
  <1>1. \A n \in DOMAIN q : q[n][1] \in Nat
    <2>1. \A n \in DOMAIN q : q[n] \in Pieces
      BY DomainIs
    <2> QED BY <2>1, PieceIs, SMT
  <1>2. \A j \in DOMAIN w : w[j][1] \in Nat
    BY SentIs
  <1>3. /\ \A n \in DOMAIN q : q[n][1] <= g
        /\ \A j \in DOMAIN w : w[j][3] = c => w[j][1] <= g
    BY DEF SentInOrder
  <1>4. /\ \A n \in DOMAIN q : q[n][1] <= h
        /\ \A j \in DOMAIN w : w[j][3] = c => w[j][1] <= h
    BY <1>1, <1>2, <1>3, SMT
  <1>5. ASSUME p.pend # 0
        PROVE  /\ p.left \in {1, 2} /\ (k = "can" => p.left = 2)
               /\ \A n \in DOMAIN q : Before(q[n], NextPiece(p))
               /\ \A j \in DOMAIN w : w[j][3] = c => Precedes(k, w[j], NextPiece(p))
    <2>1. CASE p.pend = r.pend /\ p.left = r.left
      <3>1. NextPiece(p) = NextPiece(r)
        BY <2>1 DEF NextPiece
      <3> QED BY <1>5, <2>1, <3>1, Zenon DEF SentInOrder
    <2>2. CASE p.left = 2 /\ q = <<>> /\ \A j \in DOMAIN w : w[j][3] # c
      <3>1. DOMAIN q = {}
        BY <2>2, SMT
      <3>2. 2 \in {1, 2}
        OBVIOUS
      <3> QED BY <2>2, <3>1, <3>2, Zenon
    <2>3. CASE p.left = 2 /\ p.pend > g
      <3>1. NextPiece(p)[1] = p.pend
        BY SMT DEF NextPiece
      <3>2. ASSUME NEW n \in DOMAIN q PROVE Before(q[n], NextPiece(p))
        <4>1. q[n][1] < p.pend
          BY <1>1, <1>3, <2>3, SMT
        <4> QED BY <3>1, <4>1 DEF Before
      <3>3. ASSUME NEW j \in DOMAIN w, w[j][3] = c
            PROVE  Precedes(k, w[j], NextPiece(p))
        <4>1. w[j][1] < p.pend
          BY <1>2, <1>3, <2>3, <3>3, SMT
        <4> QED BY <3>1, <4>1 DEF Precedes
      <3>4. 2 \in {1, 2}
        OBVIOUS
      <3> QED BY <2>3, <3>2, <3>3, <3>4
    <2> QED BY <1>5, <2>1, <2>2, <2>3
  <1> QED BY <1>4, <1>5, Zenon DEF SentInOrder

\* Another client's frame.
LEMMA OthersKeepOrder ==
  ASSUME NEW k, NEW c, NEW q, NEW w \in Seq(Sent(k)), NEW g, NEW r,
         SentInOrder(k, c, q, w, g, r),
         NEW e \in Sent(k), e[3] # c
  PROVE  SentInOrder(k, c, q, Append(w, e), g, r)
  <1> DEFINE x == Append(w, e)
  <1>1. /\ DOMAIN x = (DOMAIN w) \cup {Len(w) + 1}
        /\ \A n \in DOMAIN w : x[n] = w[n]
        /\ x[Len(w) + 1] = e
    BY OneMore
  <1> HIDE DEF x
  <1>2. \A n \in DOMAIN x : x[n][3] = c => n \in DOMAIN w /\ x[n] = w[n]
    BY <1>1, Zenon
  <1>3. SentInOrder(k, c, q, x, g, r)
    BY <1>2, Zenon DEF SentInOrder
  <1> QED BY <1>3 DEF x

\* One more piece, which comes after all before it.
LEMMA PieceFollows ==
  ASSUME NEW k, NEW c, NEW q \in Seq(Pieces), NEW w \in Seq(Sent(k)), NEW g \in Nat, NEW r,
         SentInOrder(k, c, q, w, g, r),
         NEW x \in Pieces, x[1] <= g,
         \A n \in DOMAIN q : Before(q[n], x),
         \A j \in DOMAIN w : w[j][3] = c => Precedes(k, w[j], x),
         NEW p, p.pend \in Nat, p.left \in Nat, p.pend <= g, p.queued <= g,
         p.pend # 0 => /\ p.left \in {1, 2} /\ (k = "can" => p.left = 2)
                       /\ Before(x, NextPiece(p))
  PROVE  SentInOrder(k, c, Append(q, x), w, g, p)
  <1> DEFINE t == Append(q, x)
             l == Len(q)
             y == NextPiece(p)
  <1>1. /\ DOMAIN t = (DOMAIN q) \cup {l + 1}
        /\ \A n \in DOMAIN q : t[n] = q[n]
        /\ t[l + 1] = x
    BY OneMore
  <1>2. l \in Nat /\ DOMAIN q = 1 .. l /\ \A n \in DOMAIN q : q[n] \in Pieces
    BY DomainIs
  <1>3. \A n \in DOMAIN q : q[n][1] \in Nat /\ q[n][2] \in Nat
    BY <1>2, PieceIs, SMT
  <1>4. \A j \in DOMAIN w : w[j][1] \in Nat /\ w[j][2] \in Nat
    BY SentIs
  <1>5. x[1] \in Nat /\ x[2] \in Nat
    BY PieceIs, SMT
  <1>6. p.pend # 0 => y[1] \in Nat /\ y[2] \in Nat
    BY SMT DEF NextPiece
  <1> HIDE DEF t, l, y
  <1>7. \A m, n \in DOMAIN t : m < n =>
          m \in DOMAIN q /\ (n \in DOMAIN q \/ n = l + 1)
    BY <1>1, <1>2, SMT
  <1>8. \A m, n \in DOMAIN t : m < n => Before(t[m], t[n])
    BY <1>1, <1>7, Zenon DEF SentInOrder
  <1>9. \A n \in DOMAIN t : t[n][1] <= g
    BY <1>1, Zenon DEF SentInOrder
  <1>10. \A j \in DOMAIN w, n \in DOMAIN t : w[j][3] = c => Precedes(k, w[j], t[n])
    BY <1>1, Zenon DEF SentInOrder
  <1>11. ASSUME p.pend # 0
         PROVE  /\ \A n \in DOMAIN t : Before(t[n], y)
                /\ \A j \in DOMAIN w : w[j][3] = c => Precedes(k, w[j], y)
    <2>1. Before(x, y)
      BY <1>11 DEF y
    <2>2. \A n \in DOMAIN q : Before(q[n], y)
      BY <1>3, <1>5, <1>6, <1>11, <2>1, BeforeIs, Zenon
    <2>3. \A j \in DOMAIN w : w[j][3] = c => Precedes(k, w[j], y)
      BY <1>4, <1>5, <1>6, <1>11, <2>1, BeforeIs, Zenon
    <2> QED BY <1>1, <2>1, <2>2, <2>3, Zenon
  <1> QED BY <1>8, <1>9, <1>10, <1>11, Zenon DEF SentInOrder, t, y

\* What the stream writes of the pending send.
Chunk(r, n) == [h \in 1 .. n |-> <<r.pend, (3 - r.left) + h - 1>>]

LEMMA ChunkFollows ==
  ASSUME NEW k, NEW c, NEW q \in Seq(Pieces), NEW w \in Seq(Sent(k)), NEW g \in Nat, NEW r,
         SentInOrder(k, c, q, w, g, r), r.pend \in Nat, r.pend # 0, r.queued \in Nat,
         NEW n \in 1 .. r.left, k = "can" => n = r.left,
         NEW p, p.queued = r.queued, p.left = r.left - n,
         p.pend = IF n = r.left THEN 0 ELSE r.pend
  PROVE  /\ SentInOrder(k, c, q \o Chunk(r, n), w, g, p)
         /\ q \o Chunk(r, n) \in Seq(Pieces)
  <1> DEFINE t == q \o Chunk(r, n)
  <1> DEFINE i == r.pend
             x == <<i, 3 - r.left>>
             y == <<i, 2>>
  <1>1. /\ i \in Nat \ {0} /\ i <= g /\ r.queued <= g
        /\ r.left \in {1, 2} /\ (k = "can" => r.left = 2)
        /\ \A m \in DOMAIN q : Before(q[m], x)
        /\ \A j \in DOMAIN w : w[j][3] = c => Precedes(k, w[j], x)
    BY DEF SentInOrder, NextPiece
  <1>2. x \in Pieces /\ y \in Pieces /\ x[1] = i /\ x[2] = 3 - r.left /\ y[1] = i /\ y[2] = 2
    BY <1>1, SMT DEF Pieces
  <1> DEFINE chunk == Chunk(r, n)
  <1>3. CASE n = 1
    <2>1. chunk = <<x>>
      BY <1>1, <1>3, SMT DEF Chunk
    <2>2. t = q \o <<x>>
      BY <2>1
    <2>3. p.pend # 0 => Before(x, NextPiece(p)) /\ p.left = 1 /\ k # "can"
      BY <1>1, <1>3, SMT DEF NextPiece, Before
    <2>4. p.pend \in Nat /\ p.left \in Nat /\ p.pend <= g /\ p.queued <= g
      BY <1>1, <1>3, SMT
    <2> HIDE DEF x, i, chunk
    <2>5. t = Append(q, x) /\ t \in Seq(Pieces)
      <3>1. q \o <<x>> = Append(q, x) /\ Append(q, x) \in Seq(Pieces)
        BY <1>2, AppendIsConcat, AppendProperties
      <3> QED BY <2>2, <3>1
    <2>6. SentInOrder(k, c, Append(q, x), w, g, p)
      <3>1. p.pend # 0 => p.left \in {1, 2} /\ (k = "can" => p.left = 2)
                          /\ Before(x, NextPiece(p))
        BY <2>3, SMT
      <3> QED BY <1>1, <1>2, <2>4, <3>1, PieceFollows
    <2> QED BY <2>5, <2>6
  <1>4. CASE n = 2
    <2>1. r.left = 2 /\ p.pend = 0 /\ p.left = 0 /\ x = <<i, 1>>
      BY <1>1, <1>4, SMT
    <2>2. chunk = <<x, y>>
      BY <1>4, <2>1, SMT DEF Chunk
    <2>3. Before(x, y)
      BY <2>1, SMT DEF Before
    <2> DEFINE p0 == [pend |-> 0, left |-> 0, queued |-> 0]
               t0 == Append(q, x)
    <2>4. /\ p0.pend \in Nat /\ p0.left \in Nat /\ p0.pend <= g /\ p0.queued <= g
          /\ p0.pend = 0
      BY SMT
    <2>5. t = q \o <<x, y>>
      BY <2>2
    <2> HIDE DEF x, y, i, p0, chunk
    <2>6. SentInOrder(k, c, t0, w, g, p0)
      BY <1>1, <1>2, <2>4, PieceFollows
    <2>7. /\ t0 \in Seq(Pieces)
          /\ DOMAIN t0 = (DOMAIN q) \cup {Len(q) + 1}
          /\ \A m \in DOMAIN q : t0[m] = q[m]
          /\ t0[Len(q) + 1] = x
      BY <1>2, OneMore
    <2>8. t = Append(t0, y) /\ t \in Seq(Pieces)
      <3>1. \A S : \A a, b \in S : \A s \in Seq(S) : s \o <<a, b>> = Append(Append(s, a), b)
        BY SMT
      <3>2. t = Append(t0, y)
        BY <1>2, <2>5, <3>1, Zenon
      <3> HIDE DEF t0
      <3>3. Append(t0, y) \in Seq(Pieces)
        BY <1>2, <2>7, AppendProperties
      <3> QED BY <3>2, <3>3
    <2> HIDE DEF t0
    <2>10. x[1] \in Nat /\ x[2] \in Nat /\ y[1] \in Nat /\ y[2] \in Nat
      BY <1>2, PieceIs, SMT
    <2>11. \A m \in DOMAIN t0 : Before(t0[m], y)
      <3>1. \A m \in DOMAIN q : q[m][1] \in Nat /\ q[m][2] \in Nat
        <4>1. \A m \in DOMAIN q : q[m] \in Pieces
          BY DomainIs
        <4> QED BY <4>1, PieceIs, SMT
      <3>2. \A m \in DOMAIN q : Before(q[m], y)
        BY <1>1, <2>3, <2>10, <3>1, BeforeIs, Zenon
      <3> QED BY <2>3, <2>7, <3>2, Zenon
    <2>12. \A j \in DOMAIN w : w[j][3] = c => Precedes(k, w[j], y)
      <3>1. \A j \in DOMAIN w : w[j][1] \in Nat /\ w[j][2] \in Nat
        BY SentIs
      <3> QED BY <1>1, <2>3, <2>10, <3>1, BeforeIs, Zenon
    <2>13. p.pend \in Nat /\ p.left \in Nat /\ p.pend <= g /\ p.queued <= g /\ y[1] <= g
      BY <1>1, <1>2, <2>1, SMT
    <2>14. SentInOrder(k, c, t, w, g, p)
      BY <1>2, <2>1, <2>6, <2>7, <2>8, <2>11, <2>12, <2>13, PieceFollows
    <2> QED BY <2>8, <2>14
  <1>5. n = 1 \/ n = 2
    BY <1>1, SMT
  <1> QED BY <1>3, <1>4, <1>5

\* The server takes a piece.
LEMMA PieceTaken ==
  ASSUME NEW k, NEW c, NEW q \in Seq(Pieces), q # <<>>, NEW w, NEW g, NEW r,
         SentInOrder(k, c, q, w, g, r)
  PROVE  SentInOrder(k, c, Tail(q), w, g, r)
  <1> DEFINE t == Tail(q)
  <1>1. \A n \in DOMAIN t : n + 1 \in DOMAIN q /\ t[n] = q[n + 1]
    BY RestIs
  <1>2. t \in Seq(Pieces)
    BY RestIs
  <1> HIDE DEF t
  <1>3. \A n \in DOMAIN t : n \in Nat
    BY <1>2, DomainIs
  <1>4. \A m, n \in DOMAIN t : m < n => m + 1 < n + 1
    BY <1>3, SMT
  <1>5. SentInOrder(k, c, t, w, g, r)
    BY <1>1, <1>4, Zenon DEF SentInOrder
  <1> QED BY <1>5 DEF t

\* The piece completes what the hardware is given.
LEMMA PiecePasses ==
  ASSUME NEW k, NEW c, NEW q \in Seq(Pieces), q # <<>>, NEW w \in Seq(Sent(k)), NEW g, NEW r,
         SentInOrder(k, c, q, w, g, r), r.pend \in Nat,
         NEW e \in Sent(k), e[3] = c, e[1] = Head(q)[1],
         \/ k = "serial" /\ e[2] = Head(q)[2]
         \/ k = "can" /\ Head(q)[2] = 2 /\ \A n \in DOMAIN q : q[n][2] \in {1, 2}
  PROVE  SentInOrder(k, c, Tail(q), Append(w, e), g, r)
  <1> DEFINE t == Tail(q)
             x == Append(w, e)
             l == Len(w)
             a == Head(q)
  <1>1. /\ a = q[1] /\ t \in Seq(Pieces) /\ 1 \in DOMAIN q
        /\ \A n \in DOMAIN t : n + 1 \in DOMAIN q /\ t[n] = q[n + 1]
    BY RestIs, DomainIs
  <1>2. /\ x \in Seq(Sent(k))
        /\ DOMAIN x = (DOMAIN w) \cup {l + 1}
        /\ \A n \in DOMAIN w : x[n] = w[n]
        /\ x[l + 1] = e
    BY OneMore
  <1>3. l \in Nat /\ DOMAIN w = 1 .. l
    BY DomainIs
  <1>4. SentInOrder(k, c, t, w, g, r)
    BY PieceTaken
  <1>5. \A n \in DOMAIN q : q[n] \in Pieces
    BY DomainIs
  <1>6. a[1] \in Nat /\ a[2] \in Nat
    BY <1>1, <1>5, PieceIs, SMT
  <1> HIDE DEF t, x, l, a
  <1>7. \A n \in DOMAIN t : n \in Nat /\ n >= 1
    BY <1>1, DomainIs
  <1>8. ASSUME NEW b, Before(a, b), b[1] \in Nat, b[2] \in Nat,
               k = "can" => b[2] \in {1, 2}
        PROVE  Precedes(k, e, b)
    BY <1>6, <1>8, SMT DEF Before, Precedes, a
  <1>9. \A n \in DOMAIN t : Precedes(k, e, t[n])
    <2> TAKE n \in DOMAIN t
    <2>1. n + 1 \in DOMAIN q /\ t[n] = q[n + 1] /\ 1 < n + 1
      BY <1>1, <1>7, SMT
    <2>2. Before(a, t[n])
      BY <1>1, <2>1, Zenon DEF SentInOrder
    <2>3. t[n][1] \in Nat /\ t[n][2] \in Nat
      BY <1>5, <2>1, PieceIs, SMT
    <2>4. k = "can" => t[n][2] \in {1, 2}
      BY <2>1, SMT
    <2> QED BY <1>8, <2>2, <2>3, <2>4
  <1>10. \A j \in DOMAIN w : w[j][3] = c => Precedes(k, w[j], e)
    <2>1. \A j \in DOMAIN w : w[j][3] = c => Precedes(k, w[j], a)
      BY <1>1, Zenon DEF SentInOrder
    <2>2. \A j \in DOMAIN w : Precedes(k, w[j], a) => Precedes(k, w[j], e)
      <3>1. \A s : Precedes(k, s, a) => Precedes(k, s, e)
        BY SMT DEF Precedes, a
      <3> QED BY <3>1
    <2> QED BY <2>1, <2>2
  <1>11. r.pend # 0 => Precedes(k, e, NextPiece(r))
    <2> SUFFICES ASSUME r.pend # 0 PROVE Precedes(k, e, NextPiece(r))
      OBVIOUS
    <2>1. Before(a, NextPiece(r)) /\ r.left \in {1, 2}
      BY <1>1, Zenon DEF SentInOrder
    <2>2. /\ NextPiece(r)[1] \in Nat /\ NextPiece(r)[2] \in {1, 2}
          /\ NextPiece(r)[2] \in Nat
      BY <2>1, SMT DEF NextPiece
    <2> QED BY <1>8, <2>1, <2>2
  <1>12. e[1] <= g
    <2>1. a[1] <= g
      BY <1>1, Zenon DEF SentInOrder
    <2> QED BY <2>1 DEF a
  <1>13. \A m, n \in DOMAIN x : m < n =>
           m \in DOMAIN w /\ (n \in DOMAIN w \/ n = l + 1)
    BY <1>2, <1>3, SMT
  <1>14. SentInOrder(k, c, t, x, g, r)
    <2>1. \A j \in DOMAIN x : x[j][3] = c => x[j][1] <= g
      BY <1>2, <1>4, <1>12, Zenon DEF SentInOrder
    <2>2. \A j \in DOMAIN x, n \in DOMAIN t : x[j][3] = c => Precedes(k, x[j], t[n])
      BY <1>2, <1>4, <1>9, Zenon DEF SentInOrder
    <2>3. \A i, j \in DOMAIN x :
            i < j /\ x[i][3] = c /\ x[j][3] = c => Precedes(k, x[i], x[j])
      BY <1>2, <1>4, <1>10, <1>13, Zenon DEF SentInOrder
    <2>4. r.pend # 0 => \A j \in DOMAIN x : x[j][3] = c => Precedes(k, x[j], NextPiece(r))
      BY <1>2, <1>4, <1>11, Zenon DEF SentInOrder
    <2> QED BY <1>4, <2>1, <2>2, <2>3, <2>4, Zenon DEF SentInOrder
  <1> QED BY <1>14 DEF t, x

-----------------------------------------------------------------------------
(* Connections and their sessions.                                         *)

LEMMA PhasesGoOn ==
  ASSUME CompletionInv, LinkNext
  PROVE  kind' = kind /\ \A d \in Conns : NotUp(d)' => NotUp(d)
  <1>0. tcp \in [Conns -> Phases]
    BY DEF CompletionInv
  <1>1. ASSUME kind' = kind,
               \/ tcp' = tcp
               \/ \E c : tcp' = [tcp EXCEPT ![c] = IF @ = "open" THEN "shut" ELSE @]
               \/ \E c, x : /\ tcp' = [tcp EXCEPT ![c] = x]
                            /\ \/ tcp[c] = "none"
                               \/ x \notin {"none", "connecting"}
        PROVE  kind' = kind /\ \A d \in Conns : NotUp(d)' => NotUp(d)
    BY <1>0, <1>1, SMT DEF NotUp
  <1>2. ASSUME NEW c \in Conns, New(c) \/ ConnectionEstablished(c) \/ ConnectionFailed(c)
                                  \/ Detaching(c) \/ Destroy(c)
        PROVE  \E x : /\ tcp' = [tcp EXCEPT ![c] = x]
                      /\ \/ tcp[c] = "none"
                         \/ x \notin {"none", "connecting"}
    <2>1. CASE New(c)
      BY <2>1 DEF New
    <2>2. CASE ConnectionEstablished(c)
      <3>1. tcp' = [tcp EXCEPT ![c] = "open"] /\ "open" \notin {"none", "connecting"}
        BY <2>2 DEF ConnectionEstablished
      <3> QED BY <3>1, Zenon
    <2>3. CASE ConnectionFailed(c) \/ Detaching(c)
      BY <2>3 DEF ConnectionFailed, Detaching
    <2>4. CASE Destroy(c)
      <3>1. tcp' = [tcp EXCEPT ![c] = "destroyed"]
            /\ "destroyed" \notin {"none", "connecting"}
        BY <2>4 DEF Destroy
      <3> QED BY <3>1, Zenon
    <2> QED BY <1>2, <2>1, <2>2, <2>3, <2>4
  <1>3. CASE ClientNext
    <2>1. PICK c \in Conns :
            \/ New(c) \/ ConnectionFailed(c) \/ SendData(c)
            \/ \E n \in 1 .. 2 : SendStreamAvailable(c, n)
            \/ DataReceived(c) \/ Close(c) \/ Detaching(c) \/ Destroy(c)
      BY <1>3 DEF ClientNext
    <2>2. kind' = kind
      BY <2>1, Zenon DEF New, ConnectionFailed, SendData, SendStreamAvailable, DataReceived,
         Close, Detaching, Destroy, HandleDisconnected
    <2>3. CASE SendData(c) \/ (\E n \in 1 .. 2 : SendStreamAvailable(c, n))
               \/ DataReceived(c) \/ Close(c)
      <3>1. tcp' = tcp
        BY <2>3, Zenon DEF SendData, SendStreamAvailable, DataReceived, Close
      <3> QED BY <1>1, <2>2, <3>1
    <2>4. CASE New(c) \/ ConnectionFailed(c) \/ Detaching(c) \/ Destroy(c)
      BY <1>1, <1>2, <2>2, <2>4
    <2> QED BY <2>1, <2>3, <2>4
  <1>4. CASE Start \/ StopWriter \/ StopHardware
    <2>1. kind' = kind
      BY <1>4, Zenon DEF Start, StopWriter, StopHardware, KeepSession, clientVars
    <2>2. \/ tcp' = tcp
          \/ \E c : tcp' = [tcp EXCEPT ![c] = IF @ = "open" THEN "shut" ELSE @]
      BY <1>4, Zenon DEF Start, StopWriter, StopHardware, Shut, clientVars
    <2> QED BY <1>1, <2>1, <2>2
  <1>5. ASSUME NEW c \in Conns,
               \/ HandleClient(c) \/ Recv(c) \/ ToClient(c) \/ RecvTimeout(c)
               \/ Read(c) \/ ReadAgain(c) \/ ToHardware(c) \/ SessionFails(c)
               \/ CloseSession(c)
        PROVE  kind' = kind /\ \A d \in Conns : NotUp(d)' => NotUp(d)
    <2>1. kind' = kind
      BY <1>5, Zenon DEF HandleClient, Recv, ToClient, RecvTimeout, Read, ReadAgain, ToHardware,
         SessionFails, CloseSession, KeepSession, clientVars
    <2>2. \/ tcp' = tcp
          \/ tcp' = [tcp EXCEPT ![c] = IF @ = "open" THEN "shut" ELSE @]
      BY <1>5, Zenon DEF HandleClient, Recv, ToClient, RecvTimeout, Read, ReadAgain, ToHardware,
         SessionFails, CloseSession, Shut, clientVars
    <2> QED BY <1>1, <2>1, <2>2
  <1>6. ASSUME NEW c \in Conns, Accept(c)
        PROVE  kind' = kind /\ \A d \in Conns : NotUp(d)' => NotUp(d)
    <2>1. ConnectionEstablished(c)
      BY <1>6 DEF Accept
    <2>2. kind' = kind
      BY <2>1, Zenon DEF ConnectionEstablished
    <2> QED BY <1>1, <1>2, <2>1, <2>2
  <1> QED BY <1>3, <1>4, <1>5, <1>6, Zenon DEF LinkNext, ServerNext

LEMMA SessionTypesHoldAtFirst == LinkInit => SessionTypes
  BY SMT DEF LinkInit, ClientInit, ServerInit, SessionTypes, SlotTypes, Alone

\* Whoever has the slot, no session that ends or waits takes it from another.
LEMMA SessionsKeepSlots ==
  ASSUME SessionTypes,
         \/ server' = server \/ server' \notin {"down", "listening"} \/ server = "down",
         shared' = shared, writer' \in {writer, 0},
         server' \in {"down", "listening"} /\ writer' # writer =>
           writer \notin running' \cup ending',
         running' \subseteq running, running' \cup ending' \subseteq running \cup ending,
         source' \in [Conns -> Conns \cup {0}],
         \A d \in Conns : \/ source'[d] = 0
                          \/ d \in running' /\ source'[d] \in {source[d], writer}
  PROVE  SlotTypes'
  <1>1. SlotTypes /\ running \subseteq Conns
    BY Zenon DEF SessionTypes
  <1>2. server' \in {"down", "listening"} => server \in {"down", "listening"}
    OBVIOUS
  <1>3. server' \in {"down", "listening"} =>
          ~shared' /\ \A c \in running' \cup ending' : writer' = c
    <2> SUFFICES ASSUME server' \in {"down", "listening"}
                 PROVE  ~shared' /\ \A c \in running' \cup ending' : writer' = c
      OBVIOUS
    <2>1. ~shared /\ \A c \in running \cup ending : writer = c
      BY <1>1, <1>2, Zenon DEF SlotTypes
    <2> QED BY <2>1
  <1>4. ~shared' => Alone'
    <2> SUFFICES ASSUME ~shared PROVE Alone'
      OBVIOUS
    <2>1. Alone
      BY <1>1 DEF SlotTypes
    <2>2. \A c \in running' \cup ending' : writer' \in {0, c}
      BY <2>1 DEF Alone
    <2>3. \A c \in running' : source'[c] \in {0, c}
      <3> SUFFICES ASSUME NEW c \in running' PROVE source'[c] \in {0, c}
        OBVIOUS
      <3>1. c \in running /\ c \in Conns
        BY <1>1
      <3>2. source[c] \in {0, c} /\ writer \in {0, c}
        BY <2>1, <3>1 DEF Alone
      <3> QED BY <3>1, <3>2
    <2> QED BY <2>2, <2>3 DEF Alone
  <1> QED BY <1>3, <1>4, Zenon DEF SlotTypes

LEMMA StepsKeepSlots ==
  ASSUME SessionTypes, LinkNext
  PROVE  SlotTypes'
  <1>0. /\ source \in [Conns -> Conns \cup {0}]
        /\ writer \in Conns \cup {0}
        /\ \A d \in Conns : source[d] = 0 \/ d \in running
    BY Zenon DEF SessionTypes, SlotTypes
  <1>1. ASSUME UNCHANGED <<server, writer, running, ending, source, shared>> PROVE SlotTypes'
    BY <1>0, <1>1, SessionsKeepSlots
  <1>2. ASSUME NEW c \in running, EndSession(c), UNCHANGED <<server, writer, shared>>
        PROVE  SlotTypes'
    <2>1. c \in Conns
      BY DEF SessionTypes
    <2>2. /\ running' = running \ {c} /\ ending' = ending \cup {c}
          /\ source' \in [Conns -> Conns \cup {0}] /\ source'[c] = 0
          /\ \A d \in Conns \ {c} : source'[d] = source[d]
      BY <1>0, <1>2, <2>1, Zenon DEF EndSession
    <2>3. \A d \in Conns : \/ source'[d] = 0
                           \/ d \in running' /\ source'[d] \in {source[d], writer}
      BY <1>0, <2>2
    <2>4. running' \subseteq running /\ running' \cup ending' \subseteq running \cup ending
      BY <2>2
    <2> QED BY <1>2, <2>2, <2>3, <2>4, SessionsKeepSlots
  <1>3. CASE ClientNext /\ UNCHANGED serverVars
    BY <1>1, <1>3 DEF serverVars, sessionVars
  <1>4. CASE Start \/ StopWriter \/ StopHardware
    <2>1. UNCHANGED <<running, ending, source, shared>>
      BY <1>4, Zenon DEF Start, StopWriter, StopHardware, sessionVars
    <2>2. /\ server' \notin {"down", "listening"} \/ server = "down"
          /\ writer' \in {writer, 0}
          /\ server' \in {"down", "listening"} => writer' = writer
      BY <1>4, SMT DEF Start, StopWriter, StopHardware
    <2> QED BY <1>0, <2>1, <2>2, SessionsKeepSlots
  <1>5. ASSUME NEW c \in Conns, Accept(c) \/ Recv(c) PROVE SlotTypes'
    BY <1>1, <1>5, Zenon DEF Accept, Recv, serverVars, sessionVars
  <1>6. ASSUME NEW c \in Conns, ToClient(c) \/ RecvTimeout(c) \/ SessionFails(c) \/ ToHardware(c)
        PROVE  SlotTypes'
    <2>1. /\ UNCHANGED <<server, writer, shared>>
          /\ \/ UNCHANGED <<running, ending, source>>
             \/ c \in running /\ EndSession(c)
      BY <1>6, Zenon DEF ToClient, RecvTimeout, SessionFails, ToHardware, sessionVars
    <2> QED BY <1>1, <1>2, <2>1
  <1>7. ASSUME NEW c \in Conns, Read(c) PROVE SlotTypes'
    <2>1. /\ UNCHANGED <<server, writer, shared, running, ending>>
          /\ source' = [source EXCEPT ![c] = 0]
      BY <1>7, Zenon DEF Read
    <2>2. /\ source' \in [Conns -> Conns \cup {0}]
          /\ \A d \in Conns : source'[d] = 0 \/ source'[d] = source[d]
      BY <1>0, <2>1, Zenon
    <2>3. \A d \in Conns : \/ source'[d] = 0
                           \/ d \in running' /\ source'[d] \in {source[d], writer}
      BY <1>0, <2>1, <2>2, Zenon
    <2> QED BY <2>1, <2>2, <2>3, SessionsKeepSlots
  <1>8. ASSUME NEW c \in Conns, ReadAgain(c) PROVE SlotTypes'
    <2>1. /\ UNCHANGED <<server, writer, shared>> /\ c \in running
          /\ \/ EndSession(c)
             \/ source' = [source EXCEPT ![c] = writer] /\ UNCHANGED <<running, ending>>
      BY <1>8, Zenon DEF ReadAgain
    <2>2. CASE source' = [source EXCEPT ![c] = writer] /\ UNCHANGED <<running, ending>>
      <3>1. /\ source' \in [Conns -> Conns \cup {0}] /\ source'[c] = writer
            /\ \A d \in Conns \ {c} : source'[d] = source[d]
        BY <1>0, <2>2, Zenon
      <3>2. \A d \in Conns : \/ source'[d] = 0
                             \/ d \in running' /\ source'[d] \in {source[d], writer}
        BY <1>0, <2>1, <2>2, <3>1, Zenon
      <3> QED BY <2>1, <2>2, <3>1, <3>2, SessionsKeepSlots
    <2> QED BY <1>2, <2>1, <2>2
  <1>9. ASSUME NEW c \in Conns, CloseSession(c) PROVE SlotTypes'
    <2>1. /\ UNCHANGED <<server, shared, running, source>>
          /\ c \in ending /\ ending' = ending \ {c} /\ writer' = WriterAfter(c)
      BY <1>9, Zenon DEF CloseSession
    <2>2. c \notin running
      BY <2>1 DEF SessionTypes
    <2>3. /\ writer' \in {writer, 0}
          /\ writer' # writer => writer \notin running' \cup ending'
      BY <2>1, <2>2 DEF WriterAfter
    <2> QED BY <1>0, <2>1, <2>3, SessionsKeepSlots
  <1>10. ASSUME NEW c \in Conns, HandleClient(c) PROVE SlotTypes'
    <2>1. UNCHANGED <<server, ending, source>> /\ c \notin accepted
      BY <1>10, Zenon DEF HandleClient
    <2>2. CASE writer # 0
      <3>1. UNCHANGED <<running, shared>> /\ writer' = WriterAfter(c)
        BY <1>10, <2>2, Zenon DEF HandleClient
      <3>2. writer' = writer
        BY <2>1, <2>2, <3>1 DEF SessionTypes, WriterAfter
      <3> QED BY <1>1, <2>1, <3>1, <3>2
    <2>3. CASE writer = 0
      <3>1. /\ writer' = c /\ running' = running \cup {c}
            /\ shared' <=> shared \/ running \cup ending # {}
        BY <1>10, <2>3, Zenon DEF HandleClient
      <3>2. \A d \in Conns : d # 0
        BY SMT DEF Conns
      <3>3. running \cup ending \subseteq Conns /\ c \notin running \cup ending
        BY <2>1 DEF SessionTypes
      <3>4. SlotTypes
        BY DEF SessionTypes
      <3>5. server \in {"down", "listening"} => ~shared /\ running \cup ending = {}
        BY <2>3, <3>2, <3>3, <3>4 DEF SlotTypes
      <3>6. source'[c] = 0
        BY <2>1, <3>3, <3>4 DEF SlotTypes
      <3>7. ASSUME running \cup ending = {}
            PROVE  /\ Alone' /\ \A d \in running' \cup ending' : writer' = d
        <4>1. running' \cup ending' = {c} /\ running' = {c}
          BY <2>1, <3>1, <3>7
        <4> QED BY <3>1, <3>6, <4>1 DEF Alone
      <3>8. ~shared' => running \cup ending = {}
        BY <3>1
      <3>9. server' \in {"down", "listening"} =>
              ~shared' /\ \A d \in running' \cup ending' : writer' = d
        BY <2>1, <3>1, <3>5, <3>7
      <3>10. /\ source' \in [Conns -> Conns \cup {0}]
             /\ \A d \in Conns \ running' : source'[d] = 0
        BY <1>0, <2>1, <3>1
      <3> QED BY <3>7, <3>8, <3>9, <3>10, Zenon DEF SlotTypes
    <2> QED BY <2>2, <2>3
  <1> QED
    BY <1>3, <1>4, <1>5, <1>6, <1>7, <1>8, <1>9, <1>10, Zenon DEF LinkNext, ServerNext

\* What a step may do to the sessions.
LEMMA SessionsKeepTypes ==
  ASSUME SessionTypes, kind' = kind, SlotTypes',
         \A d \in Conns : NotUp(d)' => NotUp(d),
         \/ UNCHANGED <<accepted, running, ending, writer>>
         \/ /\ UNCHANGED <<accepted, running, ending>>
            /\ writer' = 0
         \/ /\ UNCHANGED <<accepted, writer>>
            /\ \E c \in running : running' = running \ {c} /\ ending' = ending \cup {c}
         \/ /\ UNCHANGED <<accepted, running>> /\ writer' \in {writer, 0}
            /\ \E c : ending' = ending \ {c}
         \/ \E c \in Conns :
              /\ ~NotUp(c)' /\ c \notin accepted /\ accepted' = accepted \cup {c}
              /\ ending' = ending
              /\ \/ running' = running /\ writer' \in {writer, 0}
                 \/ running' = running \cup {c} /\ writer' = c
  PROVE  SessionTypes'
  <1>1. /\ accepted' \subseteq Conns
        /\ running' \cap ending' = {} /\ running' \cup ending' \subseteq accepted'
        /\ writer' \in Conns \cup {0} /\ (writer' # 0 => writer' \in accepted')
    BY SMT DEF SessionTypes
  <1>2. \A c \in Conns : NotUp(c)' => c \notin accepted'
    BY SMT DEF SessionTypes
  <1> QED BY <1>1, <1>2, Zenon DEF SessionTypes

LEMMA StepsKeepSessionTypes ==
  ASSUME CompletionInv, SessionTypes, LinkNext
  PROVE  SessionTypes'
  <1>1. /\ kind' = kind /\ \A d \in Conns : NotUp(d)' => NotUp(d)
        /\ SlotTypes'
    BY PhasesGoOn, StepsKeepSlots
  <1>2. CASE UNCHANGED <<accepted, running, ending, writer>>
    BY <1>1, <1>2, SessionsKeepTypes
  <1>3. CASE StopWriter
    <2>1. UNCHANGED <<accepted, running, ending>> /\ writer' = 0
      BY <1>3, Zenon DEF StopWriter, sessionVars
    <2> QED BY <1>1, <2>1, SessionsKeepTypes
  <1>4. ASSUME NEW c \in Conns, HandleClient(c)
        PROVE  SessionTypes'
    <2>1. /\ ~NotUp(c)
          /\ c \notin accepted /\ accepted' = accepted \cup {c} /\ ending' = ending
          /\ \/ running' = running /\ writer' \in {writer, 0}
             \/ running' = running \cup {c} /\ writer' = c
      BY <1>4, SMT DEF HandleClient, NotUp, WriterAfter
    <2>2. ~NotUp(c)'
      BY <1>1, <2>1
    <2> QED BY <1>1, <2>1, <2>2, SessionsKeepTypes, Zenon
  <1>5. ASSUME NEW c \in Conns,
               \/ ToClient(c) \/ RecvTimeout(c) \/ Read(c) \/ ReadAgain(c)
               \/ ToHardware(c) \/ SessionFails(c)
        PROVE  SessionTypes'
    <2>1. UNCHANGED <<accepted, writer>>
      BY <1>5, Zenon DEF ToClient, RecvTimeout, Read, ReadAgain, ToHardware, SessionFails
    <2>2. \/ UNCHANGED <<running, ending>>
          \/ c \in running /\ running' = running \ {c} /\ ending' = ending \cup {c}
      BY <1>5, Zenon DEF ToClient, RecvTimeout, Read, ReadAgain, ToHardware, SessionFails,
         EndSession, sessionVars
    <2> QED BY <1>1, <2>1, <2>2, SessionsKeepTypes, Zenon
  <1>6. ASSUME NEW c \in Conns, CloseSession(c)
        PROVE  SessionTypes'
    <2>1. /\ UNCHANGED <<accepted, running>> /\ writer' \in {writer, 0}
          /\ ending' = ending \ {c}
      BY <1>6, SMT DEF CloseSession, WriterAfter
    <2> QED BY <1>1, <2>1, SessionsKeepTypes, Zenon
  <1>7. CASE ClientNext /\ UNCHANGED serverVars
    BY <1>2, <1>7 DEF serverVars, sessionVars
  <1>8. CASE Start \/ StopHardware
    BY <1>2, <1>8, Zenon DEF Start, StopHardware, sessionVars
  <1>9. ASSUME NEW c \in Conns, Accept(c) \/ Recv(c)
        PROVE  SessionTypes'
    BY <1>2, <1>9, Zenon DEF Accept, Recv, serverVars, sessionVars
  <1> QED
    BY <1>3, <1>4, <1>5, <1>6, <1>7, <1>8, <1>9, Zenon DEF LinkNext, ServerNext

-----------------------------------------------------------------------------
(* What clients have sent, step by step.                                   *)

LEMMA SentInvHoldsAtFirst == LinkInit => SentInv
  <1> SUFFICES ASSUME LinkInit PROVE SentInv
    OBVIOUS
  <1>1. /\ onHardware = <<>> /\ accepted = {} /\ given = 0
        /\ toServer = [c \in Conns |-> <<>>]
        /\ buffer = [c \in Conns |-> <<>>]
        /\ client = [c \in Conns |-> NewClient]
    BY DEF LinkInit, ClientInit, ServerInit
  <1>2. \A S : <<>> \in Seq(S)
    BY SMT
  <1>3. \A n : n \notin DOMAIN <<>>
    BY SMT
  <1>4. ASSUME NEW c \in Conns
        PROVE  /\ Stream(c) = <<>> /\ SentIsWhole(c)
               /\ SentInOrder(kind, c, Stream(c), onHardware, given, client[c])
    <2>1. toServer[c] = <<>> /\ buffer[c] = <<>> /\ client[c] = NewClient
      BY <1>1
    <2>0. <<>> \o <<>> = <<>>
      BY SMT
    <2>2. Stream(c) = <<>>
      BY <2>0, <2>1 DEF Stream
    <2>3. SentIsWhole(c)
      BY <2>2, NothingIsAligned DEF SentIsWhole
    <2>4. NewClient.pend = 0 /\ NewClient.queued = 0 /\ 0 <= 0
      BY SMT DEF NewClient
    <2> QED BY <1>1, <1>3, <2>1, <2>2, <2>3, <2>4, Zenon DEF SentInOrder
  <1> QED BY <1>1, <1>2, <1>3, <1>4, Zenon DEF SentInv

\* The streams, as sequences.
LEMMA StreamIs ==
  ASSUME SentInv, NEW c \in Conns
  PROVE  /\ buffer[c] \in Seq(Pieces) /\ toServer[c] \in Seq(Pieces)
         /\ Stream(c) \in Seq(Pieces)
  <1>1. buffer[c] \in Seq(Pieces) /\ toServer[c] \in Seq(Pieces)
    BY DEF SentInv
  <1> QED BY <1>1, JoinType DEF Stream

LEMMA Regroup ==
  ASSUME NEW S, NEW s \in Seq(S), NEW t \in Seq(S), NEW u \in Seq(S)
  PROVE  (s \o t) \o u = s \o (t \o u)
  BY ConcatAssociative

\* A part read moves from the wire to the buffer.
LEMMA ReadKeepsStream ==
  ASSUME NEW S, NEW b \in Seq(S), NEW q \in Seq(S), NEW n \in 1 .. Len(q)
  PROVE  /\ b \o SubSeq(q, 1, n) \in Seq(S) /\ SubSeq(q, n + 1, Len(q)) \in Seq(S)
         /\ (b \o SubSeq(q, 1, n)) \o SubSeq(q, n + 1, Len(q)) = b \o q
  <1> DEFINE l == Len(q)
             u == SubSeq(q, 1, n)
             v == SubSeq(q, n + 1, l)
  <1>1. l \in Nat /\ DOMAIN q = 1 .. l /\ \A i \in 1 .. l : q[i] \in S
    BY DomainIs
  <1>2. 1 \in Int /\ n \in Int /\ n + 1 \in Int /\ l \in Int /\ n \in 1 .. l
    BY <1>1, SMT
  <1>3. /\ 1 \in 1 .. l + 1 /\ n \in 1 - 1 .. l /\ l \in n .. l
        /\ \A i \in 1 .. n : i \in 1 .. l
        /\ \A i \in n + 1 .. l : i \in 1 .. l
    BY <1>1, <1>2, SMT
  <1>4. u \in Seq(S)
    BY <1>1, <1>2, <1>3, SubSeqProperties, Zenon
  <1>5. v \in Seq(S)
    <2> HIDE DEF l
    <2>1. \A i \in n + 1 .. l : q[i] \in S
      BY <1>1, <1>3
    <2> QED BY <1>2, <2>1, SubSeqProperties, Zenon
  <1>6. u \o v = q
    <2>1. SubSeq(q, 1, n) \o SubSeq(q, n + 1, l) = SubSeq(q, 1, l)
      BY <1>3, ConcatAdjacentSubSeq
    <2> QED BY <2>1, SubSeqFull
  <1>7. (b \o u) \o v = b \o (u \o v)
    <2> HIDE DEF u, v
    <2> QED BY <1>4, <1>5, Regroup, SMTT(20)
  <1>8. b \o u \in Seq(S)
    BY <1>4, JoinType
  <1> QED BY <1>5, <1>6, <1>7, <1>8

\* What is left without the first.
LEMMA RestOfJoin ==
  ASSUME NEW S, NEW b \in Seq(S), b # <<>>, NEW q \in Seq(S)
  PROVE  /\ b \o q # <<>> /\ b \o q \in Seq(S) /\ Head(b \o q) = b[1]
         /\ Tail(b) \in Seq(S) /\ Tail(b \o q) = Tail(b) \o q
  <1> DEFINE x == b \o q
             l == Len(b)
             m == Len(q)
             u == Tail(b) \o q
  <1>1. l \in Nat /\ l >= 1 /\ m \in Nat
    BY DomainIs
  <1>2. x \in Seq(S) /\ Len(x) = l + m
    BY JoinType
  <1>3. /\ \A i \in 1 .. l : x[i] = b[i]
        /\ \A i \in 1 .. m : x[l + i] = q[i]
    BY JoinIs
  <1>4. x # <<>>
    BY <1>1, <1>2, EmptySeq, SMT
  <1>5. 1 \in 1 .. l
    BY <1>1, SMT
  <1>6. Tail(b) \in Seq(S) /\ Len(Tail(b)) = l - 1
    BY RestIs
  <1>7. Head(x) = b[1]
    <2> HIDE DEF x
    <2>1. Head(x) = x[1]
      BY <1>2, <1>4, RestIs
    <2> QED BY <1>3, <1>5, <2>1
  <1> DEFINE a == Tail(b)
             t == Tail(x)
  <1>8. u \in Seq(S) /\ Len(u) = (l - 1) + m
    BY <1>6, JoinType
  <1>9. t \in Seq(S) /\ Len(t) = (l + m) - 1
    <2> HIDE DEF x
    <2> QED BY <1>2, <1>4, RestIs
  <1>10. \A i \in 1 .. Len(t) : t[i] = x[i + 1]
    <2> HIDE DEF x
    <2>1. x \in Seq(S) /\ x # <<>>
      BY <1>2, <1>4
    <2> QED BY <2>1, HeadTailProperties
  <1>11. \A i \in 1 .. Len(a) : a[i] = b[i + 1]
    BY HeadTailProperties
  <1>12. /\ \A i \in 1 .. Len(a) : u[i] = a[i]
         /\ \A i \in 1 .. m : u[Len(a) + i] = q[i]
    <2> HIDE DEF a
    <2>1. a \in Seq(S) /\ u = a \o q
      BY <1>6 DEF a
    <2> HIDE DEF u
    <2> QED BY <2>1, JoinIs
  <1> HIDE DEF x, l, m, u, t, a
  <1>13. Len(a) = l - 1
    BY <1>6 DEF a
  <1>14. ASSUME NEW i \in 1 .. (l + m) - 1 PROVE t[i] = u[i]
    <2>1. CASE i <= l - 1
      <3>1. i \in 1 .. Len(a) /\ i + 1 \in 1 .. l /\ i \in 1 .. Len(t)
        BY <1>1, <1>9, <1>13, <2>1, SMT
      <3> QED BY <1>3, <1>10, <1>11, <1>12, <3>1
    <2>2. CASE i > l - 1
      <3> DEFINE j == i - (l - 1)
      <3>1. j \in 1 .. m /\ i + 1 = l + j /\ i = (l - 1) + j /\ i \in 1 .. Len(t)
        BY <1>1, <1>9, <2>2, SMT
      <3> HIDE DEF j
      <3> QED BY <1>3, <1>10, <1>12, <1>13, <3>1, ZenonT(40)
    <2> QED BY <1>1, <2>1, <2>2, SMT
  <1>15. Len(t) = Len(u)
    BY <1>1, <1>8, <1>9, SMT
  <1>16. t = u
    <2>1. \A i \in 1 .. Len(t) : t[i] = u[i]
      BY <1>9, <1>14
    <2> QED BY <1>8, <1>9, <1>15, <2>1, SeqEqual
  <1> QED BY <1>2, <1>4, <1>6, <1>7, <1>16 DEF x, u, t

\* What is left when the wire is gone.
LEMMA ReadStaysInOrder ==
  ASSUME NEW k, NEW c, NEW b \in Seq(Pieces), NEW q \in Seq(Pieces), NEW w, NEW g, NEW r,
         SentInOrder(k, c, b \o q, w, g, r)
  PROVE  SentInOrder(k, c, b \o <<>>, w, g, r)
  <1> DEFINE x == b \o q
             l == Len(b)
             m == Len(q)
  <1>1. l \in Nat /\ m \in Nat /\ DOMAIN b = 1 .. l
    BY DomainIs
  <1>2. /\ x \in Seq(Pieces) /\ Len(x) = l + m
        /\ \A i \in 1 .. l : x[i] = b[i]
    BY JoinIs
  <1>3. DOMAIN x = 1 .. Len(x)
    BY <1>2, DomainIs
  <1> HIDE DEF x, l, m
  <1>4. \A i \in DOMAIN b : i \in DOMAIN x /\ x[i] = b[i]
    BY <1>1, <1>2, <1>3, SMT
  <1>5. b \o <<>> = b
    BY ConcatEmptySeq
  <1>6. SentInOrder(k, c, x, w, g, r)
    BY DEF x
  <1>7. SentInOrder(k, c, b, w, g, r)
    BY <1>4, <1>6, Zenon DEF SentInOrder
  <1> QED BY <1>5, <1>7

\* What is left without what a session had read.
LEMMA WireStaysInOrder ==
  ASSUME NEW k, NEW c, NEW b \in Seq(Pieces), NEW q \in Seq(Pieces), NEW w, NEW g, NEW r,
         SentInOrder(k, c, b \o q, w, g, r)
  PROVE  SentInOrder(k, c, <<>> \o q, w, g, r)
  <1> DEFINE x == b \o q
             l == Len(b)
             m == Len(q)
  <1>1. l \in Nat /\ m \in Nat /\ DOMAIN q = 1 .. m
    BY DomainIs
  <1>2. /\ x \in Seq(Pieces) /\ Len(x) = l + m
        /\ \A i \in 1 .. m : x[l + i] = q[i]
    BY JoinIs
  <1>3. DOMAIN x = 1 .. Len(x)
    BY <1>2, DomainIs
  <1> HIDE DEF x, l, m
  <1>4. \A i \in DOMAIN q : l + i \in DOMAIN x /\ x[l + i] = q[i]
    BY <1>1, <1>2, <1>3, SMT
  <1>5. \A i, j \in DOMAIN q : i < j => l + i < l + j
    BY <1>1, SMT
  <1>6. <<>> \o q = q
    BY ConcatEmptySeq
  <1>7. SentInOrder(k, c, x, w, g, r)
    BY DEF x
  <1>8. SentInOrder(k, c, q, w, g, r)
    BY <1>4, <1>5, <1>7, Zenon DEF SentInOrder
  <1> QED BY <1>6, <1>8

\* A step that changes nothing of what was sent.
LEMMA QuietStepsKeepSentInv ==
  ASSUME CompletionInv, CompletionInv', SentInv,
         UNCHANGED <<kind, toServer, buffer, onHardware>>,
         \A d \in Conns : NotUp(d)' => NotUp(d),
         \A d \in Conns :
           d \in running' \/ d \notin accepted' => d \in running \/ d \notin accepted,
         given <= given',
         \A d \in Conns :
           /\ client'[d].pend <= given' /\ client'[d].queued <= given'
           /\ \/ client'[d].pend = 0
              \/ client'[d].pend = client[d].pend /\ client'[d].left = client[d].left
              \/ client'[d].left = 2 /\ (client'[d].pend > given \/ NotUp(d))
  PROVE  SentInv'
  <1>1. given \in Nat /\ given' \in Nat
    BY LinkAssumption, SMT DEF CompletionInv
  <1>2. ASSUME NEW d \in Conns PROVE client'[d].pend \in Nat
    <2>1. client'[d] \in Clients
      BY DEF CompletionInv
    <2> QED BY <2>1, SMT DEF Clients
  <1>3. ASSUME NEW d \in Conns
        PROVE  SentInOrder(kind, d, Stream(d), onHardware, given', client'[d])
    <2> DEFINE q == Stream(d)
               r == client[d]
               p == client'[d]
               h == given'
               w == onHardware
    <2>1. /\ q \in Seq(Pieces) /\ w \in Seq(Sent(kind))
          /\ SentInOrder(kind, d, q, w, given, r)
          /\ NotUp(d) => q = <<>> /\ \A j \in DOMAIN w : w[j][3] # d
      BY StreamIs, Zenon DEF SentInv
    <2>2. /\ p.pend \in Nat /\ p.pend <= h /\ p.queued <= h
          /\ \/ p.pend = 0
             \/ p.pend = r.pend /\ p.left = r.left
             \/ p.left = 2 /\ (p.pend > given \/ NotUp(d))
      BY <1>2
    <2>3. \/ p.pend = 0
          \/ p.pend = r.pend /\ p.left = r.left
          \/ p.left = 2 /\ (p.pend > given \/ (q = <<>> /\ \A j \in DOMAIN w : w[j][3] # d))
      BY <2>1, <2>2
    <2>4. h \in Nat /\ given <= h
      BY <1>1
    <2> HIDE DEF q, r, p, h, w
    <2>5. SentInOrder(kind, d, q, w, h, p)
      BY <1>1, <2>1, <2>2, <2>3, <2>4, SendsStayInOrder
    <2> QED BY <2>5 DEF q, p, h, w
  <1>4. \A d \in Conns : Stream(d)' = Stream(d)
    BY DEF Stream
  <1>5. ASSUME NEW d \in Conns PROVE SentIsWhole(d)'
    <2>1. SentIsWhole(d)
      BY DEF SentInv
    <2> QED BY <1>4, <2>1, Zenon DEF SentIsWhole
  <1> QED BY <1>3, <1>4, <1>5, Zenon DEF SentInv

\* A step of one client, on given sends.
LEMMA OneClientKeepsSentInv ==
  ASSUME CompletionInv, CompletionInv', SentInv, NEW c \in Conns, NEW p,
         client' = [client EXCEPT ![c] = p],
         UNCHANGED <<kind, toServer, serverVars>>,
         \A d \in Conns : NotUp(d)' => NotUp(d),
         given' = given \/ given' = given + 1,
         p.pend \in {0, client[c].pend, client[c].queued, given'},
         p.queued \in {0, client[c].queued, given'},
         \/ p.pend = 0
         \/ p.pend = client[c].pend /\ p.left = client[c].left
         \/ p.left = 2 /\ NotUp(c)
         \/ p.left = 2 /\ p.pend = given + 1
  PROVE  SentInv'
  <1>1. UNCHANGED <<buffer, onHardware, running, accepted>>
    BY Zenon DEF serverVars, sessionVars
  <1>2. given \in Nat /\ given' \in Nat /\ given <= given'
    BY LinkAssumption, SMT DEF CompletionInv
  <1>3. \A d \in Conns : /\ client[d].pend <= given /\ client[d].queued <= given
                         /\ client[d].pend \in Nat /\ client[d].queued \in Nat
    <2>1. \A d \in Conns : client[d] \in Clients
      BY DEF CompletionInv
    <2>2. \A r \in Clients : r.pend \in Nat /\ r.queued \in Nat
      BY LinkAssumption, SMT DEF Clients
    <2>3. \A d \in Conns : client[d].pend <= given /\ client[d].queued <= given
      BY Zenon DEF SentInv, SentInOrder
    <2> QED BY <2>1, <2>2, <2>3
  <1>4. client'[c] = p /\ \A d \in Conns \ {c} : client'[d] = client[d]
    BY Zenon DEF CompletionInv
  <1>5. p.pend <= given' /\ p.queued <= given'
    <2>1. \A a, b, e \in Nat : a <= b /\ b <= e => a <= e
      BY SMT
    <2>2. 0 <= given' /\ given' <= given'
      BY <1>2, SMT
    <2>3. client[c].pend <= given' /\ client[c].queued <= given'
      BY <1>2, <1>3, <2>1, Zenon
    <2> QED BY <2>2, <2>3, Zenon
  <1>6. p.pend = given + 1 => p.pend > given
    BY <1>2, SMT
  <1>7. ASSUME NEW d \in Conns
        PROVE  /\ client'[d].pend <= given' /\ client'[d].queued <= given'
               /\ \/ client'[d].pend = 0
                  \/ client'[d].pend = client[d].pend /\ client'[d].left = client[d].left
                  \/ client'[d].left = 2 /\ (client'[d].pend > given \/ NotUp(d))
    <2>1. CASE d = c
      BY <1>4, <1>5, <1>6, <2>1
    <2>2. CASE d # c
      <3>1. client'[d] = client[d]
        BY <1>4, <2>2
      <3>2. \A a, b, e \in Nat : a <= b /\ b <= e => a <= e
        BY SMT
      <3>3. client[d].pend <= given' /\ client[d].queued <= given'
        BY <1>2, <1>3, <3>2, Zenon
      <3> QED BY <3>1, <3>3
    <2> QED BY <2>1, <2>2
  <1> QED BY <1>1, <1>2, <1>7, QuietStepsKeepSentInv

LEMMA DisconnectedIs ==
  ASSUME CompletionInv, NEW c \in Conns, NEW clear \in BOOLEAN
  PROVE  /\ Disconnected(c, clear).pend = 0 /\ Disconnected(c, clear).queued = 0
         /\ Disconnected(c, clear).connected = FALSE
         /\ Disconnected(c, clear).half = client[c].half
  <1>1. client[c] \in Clients
    BY DEF CompletionInv
  <1> QED BY <1>1, SMT DEF Clients, Disconnected

\* The client's steps but the one that writes.
LEMMA ClientsKeepSentInv ==
  ASSUME CompletionInv, CompletionInv', SentInv, NEW c \in Conns,
         \/ New(c) \/ ConnectionFailed(c) \/ SendData(c) \/ DataReceived(c)
         \/ Close(c) \/ Detaching(c) \/ Destroy(c) \/ ConnectionEstablished(c),
         UNCHANGED serverVars,
         \A d \in Conns : NotUp(d)' => NotUp(d)
  PROVE  SentInv'
  <1> DEFINE r == client[c]
  <1>0. /\ r \in Clients
        /\ client = [client EXCEPT ![c] = r]
    BY Zenon DEF CompletionInv
  <1>1. UNCHANGED <<kind, toServer>>
    BY Zenon DEF New, ConnectionFailed, SendData, DataReceived, Close, Detaching, Destroy,
       ConnectionEstablished, HandleDisconnected, wireVars
  <1>2. ASSUME given' = given, NEW p, client' = [client EXCEPT ![c] = p],
               p.queued \in {0, r.queued},
               \/ p.pend = 0
               \/ p.pend = r.pend /\ p.left = r.left
               \/ p.pend = r.queued /\ p.left = 2 /\ NotUp(c)
        PROVE  SentInv'
    BY <1>1, <1>2, OneClientKeepsSentInv
  <1>3. CASE New(c)
    <2>1. client' = client /\ given' = given
      BY <1>3, Zenon DEF New, sendVars
    <2> QED BY <1>0, <1>2, <2>1
  <1>4. ASSUME NEW clear \in BOOLEAN, HandleDisconnected(c, clear) PROVE SentInv'
    <2>1. client' = [client EXCEPT ![c] = Disconnected(c, clear)] /\ given' = given
      BY <1>4 DEF HandleDisconnected
    <2> QED BY <1>2, <2>1, DisconnectedIs, Zenon
  <1>5. CASE ConnectionFailed(c) \/ Close(c) \/ Detaching(c)
    <2>1. HandleDisconnected(c, TRUE) \/ HandleDisconnected(c, FALSE)
      BY <1>5, Zenon DEF ConnectionFailed, Close, Detaching
    <2> QED BY <1>4, <2>1
  <1>6. CASE Destroy(c)
    <2>1. \/ HandleDisconnected(c, TRUE)
          \/ client' = [client EXCEPT ![c] = NewClient] /\ given' = given
      BY <1>6, Zenon DEF Destroy, sendVars
    <2>2. NewClient.pend = 0 /\ NewClient.queued = 0
      BY SMT DEF NewClient
    <2> QED BY <1>2, <1>4, <2>1, <2>2, Zenon
  <1>7. CASE ConnectionEstablished(c)
    <2> DEFINE p == [r EXCEPT !.connected = TRUE, !.handler = TRUE, !.queued = 0,
                              !.pend = r.queued,
                              !.left = IF r.queued = 0 THEN 0 ELSE 2]
    <2>1. client' = [client EXCEPT ![c] = p] /\ given' = given /\ NotUp(c)
      BY <1>0, <1>7, Zenon DEF ConnectionEstablished, sendVars, NotUp
    <2>2. p.queued = 0 /\ p.pend = r.queued /\ (p.pend # 0 => p.left = 2)
      BY <1>0, SMT DEF Clients
    <2> HIDE DEF p, r
    <2> QED BY <1>2, <2>1, <2>2, Zenon
  <1>8. CASE DataReceived(c)
    <2>1. PICK n : client' = [client EXCEPT ![c] = [r EXCEPT !.half = n]]
      BY <1>8, Zenon DEF DataReceived, CompletionInv
    <2>2. given' = given
      BY <1>8 DEF DataReceived, sendVars
    <2> DEFINE p == [r EXCEPT !.half = n]
    <2>3. p.pend = r.pend /\ p.left = r.left /\ p.queued = r.queued
      BY <1>0, SMT DEF Clients
    <2>4. client' = [client EXCEPT ![c] = p]
      BY <2>1
    <2> HIDE DEF p, r
    <2> QED BY <1>2, <2>2, <2>3, <2>4, Zenon
  <1>9. CASE SendData(c)
    <2> DEFINE i == given + 1
    <2>1. given' = i
      BY <1>9 DEF SendData
    <2>2. \/ client' = client
          \/ client' = [client EXCEPT ![c] = [r EXCEPT !.pend = i, !.left = 2]]
          \/ client' = [client EXCEPT ![c] = [r EXCEPT !.queued = i]]
      BY <1>0, <1>9, Zenon DEF SendData, RequestSend, Queue, CompletionInv
    <2>3. CASE client' = client
      <3>1. client' = [client EXCEPT ![c] = r]
        BY <1>0, <2>3
      <3> HIDE DEF r
      <3>2. /\ r.pend \in {0, client[c].pend, client[c].queued, given'}
            /\ r.queued \in {0, client[c].queued, given'}
            /\ r.pend = client[c].pend /\ r.left = client[c].left
        BY DEF r
      <3> QED BY <1>1, <2>1, <3>1, <3>2, OneClientKeepsSentInv
    <2>4. CASE client' = [client EXCEPT ![c] = [r EXCEPT !.pend = i, !.left = 2]]
      <3> DEFINE p == [r EXCEPT !.pend = i, !.left = 2]
      <3>1. p.pend = i /\ p.left = 2 /\ p.queued = r.queued
        BY <1>0, SMT DEF Clients
      <3>2. client' = [client EXCEPT ![c] = p]
        BY <2>4
      <3> HIDE DEF p
      <3> QED BY <1>1, <2>1, <3>1, <3>2, OneClientKeepsSentInv
    <2>5. CASE client' = [client EXCEPT ![c] = [r EXCEPT !.queued = i]]
      <3> DEFINE p == [r EXCEPT !.queued = i]
      <3>1. p.pend = r.pend /\ p.left = r.left /\ p.queued = i
        BY <1>0, SMT DEF Clients
      <3>2. client' = [client EXCEPT ![c] = p]
        BY <2>5
      <3> HIDE DEF p
      <3> QED BY <1>1, <2>1, <3>1, <3>2, OneClientKeepsSentInv
    <2> QED BY <2>2, <2>3, <2>4, <2>5
  <1> QED BY <1>3, <1>5, <1>6, <1>7, <1>8, <1>9

\* The stream writes a chunk.
LEMMA SendStreamKeepsSentInv ==
  ASSUME CompletionInv, CompletionInv', SentInv, NEW c \in Conns, NEW n \in 1 .. 2,
         SendStreamAvailable(c, n), UNCHANGED serverVars
  PROVE  SentInv'
  <1> DEFINE r == client[c]
             q == Stream(c)
             t == q \o Chunk(r, n)
             p == [r EXCEPT !.left = @ - n,
                            !.pend = IF n = r.left THEN 0 ELSE r.pend]
  <1>1. /\ tcp[c] \in {"open", "shut"} /\ r.pend # 0 /\ n \in 1 .. r.left
        /\ kind = "can" => n = r.left
        /\ toServer' = [toServer EXCEPT ![c] = @ \o Chunk(r, n)]
        /\ UNCHANGED <<kind, tcp, given>>
    BY Zenon DEF SendStreamAvailable, Chunk
  <1>2. client' = [client EXCEPT ![c] = p]
    BY Zenon DEF SendStreamAvailable, CompletionInv
  <1>3. r \in Clients /\ q \in Seq(Pieces) /\ given \in Nat
    <2>1. r \in Clients /\ given \in Nat
      BY LinkAssumption, SMT DEF CompletionInv
    <2> QED BY <2>1, StreamIs
  <1>4. /\ r.pend \in Nat /\ r.queued \in Nat
        /\ p.queued = r.queued /\ p.left = r.left - n
        /\ p.pend = IF n = r.left THEN 0 ELSE r.pend
    BY <1>3, LinkAssumption, SMT DEF Clients
  <1>5. UNCHANGED <<buffer, onHardware, running, accepted>>
    BY Zenon DEF serverVars, sessionVars
  <1>6. SentInOrder(kind, c, q, onHardware, given, r) /\ onHardware \in Seq(Sent(kind))
        /\ SentIsWhole(c)
    BY DEF SentInv
  <1> HIDE DEF p, r, q
  <1>7. /\ SentInOrder(kind, c, t, onHardware, given, p)
        /\ t \in Seq(Pieces)
        /\ kind = "can" => t = q \o <<<<r.pend, 1>>, <<r.pend, 2>>>>
    <2>1. SentInOrder(kind, c, q \o Chunk(r, n), onHardware, given, p)
      BY <1>1, <1>3, <1>4, <1>6, ChunkFollows, Zenon
    <2>2. q \o Chunk(r, n) \in Seq(Pieces)
      BY <1>1, <1>3, <1>4, <1>6, ChunkFollows, Zenon
    <2>3. kind = "can" => q \o Chunk(r, n) = q \o <<<<r.pend, 1>>, <<r.pend, 2>>>>
      <3>1. kind = "can" => r.left = 2 /\ n = 2
        BY <1>1, <1>6, Zenon DEF SentInOrder
      <3>2. kind = "can" => Chunk(r, n) = <<<<r.pend, 1>>, <<r.pend, 2>>>>
        BY <3>1, SMT DEF Chunk
      <3> QED BY <3>2
    <2> QED BY <2>1, <2>2, <2>3
  <1>c. Chunk(r, n) \in Seq(Pieces)
    <2>1. r.left \in {1, 2} /\ r.pend \in Nat \ {0}
      BY <1>1, <1>4, <1>6, Zenon DEF SentInOrder
    <2>2. n \in Nat /\ \A h \in 1 .. n : (3 - r.left) + h - 1 \in Nat \ {0}
      BY <1>1, <2>1, SMT
    <2>3. \A h \in 1 .. n : <<r.pend, (3 - r.left) + h - 1>> \in Pieces
      BY <2>1, <2>2, Zenon DEF Pieces
    <2> QED BY <2>2, <2>3, IsASeq DEF Chunk
  <1>b. buffer[c] \in Seq(Pieces) /\ toServer[c] \in Seq(Pieces)
    BY StreamIs
  <1>8. /\ client'[c] = p /\ toServer'[c] = toServer[c] \o Chunk(r, n)
        /\ \A d \in Conns \ {c} : client'[d] = client[d] /\ toServer'[d] = toServer[d]
        /\ toServer' \in [Conns -> Seq(Pieces)]
    <2> DEFINE u == toServer[c] \o Chunk(r, n)
    <2>1. u \in Seq(Pieces) /\ toServer' = [toServer EXCEPT ![c] = u]
      BY <1>1, <1>b, <1>c, JoinType, Zenon DEF SentInv
    <2> HIDE DEF u
    <2>2. /\ toServer'[c] = u /\ \A d \in Conns \ {c} : toServer'[d] = toServer[d]
          /\ toServer' \in [Conns -> Seq(Pieces)]
      BY <2>1, Zenon DEF SentInv
    <2>3. client'[c] = p /\ \A d \in Conns \ {c} : client'[d] = client[d]
      BY <1>2, Zenon DEF CompletionInv
    <2> QED BY <2>2, <2>3 DEF u
  <1>s. Stream(c)' = t /\ \A d \in Conns \ {c} : Stream(d)' = Stream(d)
    <2> DEFINE x == buffer[c]
               y == toServer[c]
               z == Chunk(r, n)
    <2>1. (x \o y) \o z = x \o (y \o z)
      <3>1. x \in Seq(Pieces) /\ y \in Seq(Pieces) /\ z \in Seq(Pieces)
        BY <1>b, <1>c
      <3> HIDE DEF x, y, z
      <3> QED BY <3>1, Regroup
    <2> QED BY <1>5, <1>8, <2>1 DEF Stream, t, q
  <1> HIDE DEF t
  <1>9. SentIsWhole(c)'
    <2>1. 0 \in Nat
      OBVIOUS
    <2>2. r.pend \in Nat \ {0}
      BY <1>1, <1>4
    <2>3. kind = "can" /\ Aligned(q, 0) => Aligned(t, 0)
      BY <1>3, <1>7, <2>1, <2>2, FrameMoreIsAligned
    <2>4. kind = "can" /\ (c \in running \/ c \notin accepted) => Aligned(q, 0)
      BY <1>6 DEF SentIsWhole, q
    <2> QED BY <1>1, <1>5, <1>s, <2>3, <2>4, Zenon DEF SentIsWhole
  <1>10. ASSUME NEW d \in Conns \ {c}
         PROVE  /\ SentIsWhole(d)'
                /\ SentInOrder(kind, d, Stream(d), onHardware, given, client[d])'
    BY <1>1, <1>5, <1>8, <1>s, <1>10, Zenon DEF SentInv, SentIsWhole
  <1>11. \A d \in Conns : NotUp(d)' =>
           /\ Stream(d)' = <<>>
           /\ \A j \in DOMAIN onHardware : onHardware[j][3] # d
    <2>1. ~NotUp(c)
      BY <1>1, SMT DEF NotUp
    <2>2. \A d \in Conns : NotUp(d)' => NotUp(d) /\ d # c
      BY <1>1, <2>1, Zenon DEF NotUp
    <2> QED BY <1>s, <2>2, Zenon DEF SentInv
  <1>12. SentInOrder(kind, c, Stream(c), onHardware, given, client[c])'
    BY <1>1, <1>5, <1>7, <1>8, <1>s, Zenon
  <1> QED BY <1>1, <1>5, <1>8, <1>9, <1>10, <1>11, <1>12, Zenon DEF SentInv

\* The server's steps that leave what clients sent where it is.
LEMMA ServersKeepSentInv ==
  ASSUME CompletionInv, CompletionInv', SessionTypes, SentInv,
         \/ Start \/ StopWriter \/ StopHardware
         \/ \E c \in Conns : HandleClient(c) \/ Recv(c),
         \A d \in Conns : NotUp(d)' => NotUp(d)
  PROVE  SentInv'
  <1>1. UNCHANGED <<kind, toServer, buffer, onHardware, client, given>>
    BY Zenon DEF Start, StopWriter, StopHardware, HandleClient, Recv, KeepSession,
       clientVars, wireVars, sendVars, sessionVars
  <1>2. \A d \in Conns : d \in running' \/ d \notin accepted' => d \in running \/ d \notin accepted
    <2>1. CASE Start \/ StopWriter \/ StopHardware
      BY <2>1, Zenon DEF Start, StopWriter, StopHardware, sessionVars
    <2>2. ASSUME NEW c \in Conns, HandleClient(c)
          PROVE  \A d \in Conns : d \in running' \/ d \notin accepted'
                                    => d \in running \/ d \notin accepted
      <3>1. c \notin accepted /\ accepted' = accepted \cup {c}
            /\ (running' = running \/ running' = running \cup {c})
        BY <2>2, Zenon DEF HandleClient
      <3> QED BY <3>1
    <2>3. ASSUME NEW c \in Conns, Recv(c)
          PROVE  \A d \in Conns : d \in running' \/ d \notin accepted'
                                    => d \in running \/ d \notin accepted
      BY <2>3, Zenon DEF Recv, sessionVars
    <2> QED BY <2>1, <2>2, <2>3
  <1>3. given \in Nat
    BY LinkAssumption, SMT DEF CompletionInv
  <1>4. given <= given'
    BY <1>1, <1>3, SMT
  <1>5. \A d \in Conns : client'[d].pend <= given' /\ client'[d].queued <= given'
    BY <1>1, Zenon DEF SentInv, SentInOrder
  <1> QED BY <1>1, <1>2, <1>4, <1>5, QuietStepsKeepSentInv

\* One client's stream, or the server's part of one, changes.
LEMMA OneSessionKeepsSentInv ==
  ASSUME SentInv, NEW c \in Conns, NEW q \in Seq(Pieces), NEW b \in Seq(Pieces),
         toServer' = [toServer EXCEPT ![c] = q],
         buffer' = [buffer EXCEPT ![c] = b],
         UNCHANGED <<kind, client, given, accepted>>,
         running' \subseteq running,
         ~NotUp(c),
         \A d \in Conns : NotUp(d)' => NotUp(d),
         kind = "can" /\ c \in running' => Aligned(b \o q, 0),
         c \in accepted,
         \/ onHardware' = onHardware
         \/ \E e \in Sent(kind) : e[3] = c /\ onHardware' = Append(onHardware, e),
         SentInOrder(kind, c, b \o q, onHardware', given, client[c])
  PROVE  SentInv'
  <1>1. /\ toServer' \in [Conns -> Seq(Pieces)] /\ buffer' \in [Conns -> Seq(Pieces)]
        /\ toServer'[c] = q /\ buffer'[c] = b
        /\ \A d \in Conns \ {c} : toServer'[d] = toServer[d] /\ buffer'[d] = buffer[d]
    BY Zenon DEF SentInv
  <1>s. Stream(c)' = b \o q /\ \A d \in Conns \ {c} : Stream(d)' = Stream(d)
    BY <1>1 DEF Stream
  <1>2. onHardware \in Seq(Sent(kind))
    BY DEF SentInv
  <1> DEFINE Kept(w, x) ==
               /\ x \in Seq(Sent(kind))
               /\ \A d \in Conns \ {c} : \A j \in DOMAIN x : x[j][3] = d =>
                    j \in DOMAIN w /\ w[j][3] = d
               /\ \A d \in Conns \ {c} : \A t, g, r :
                    SentInOrder(kind, d, t, w, g, r) => SentInOrder(kind, d, t, x, g, r)
  <1>3. Kept(onHardware, onHardware')
    <2>1. CASE onHardware' = onHardware
      BY <1>2, <2>1, Zenon
    <2>2. ASSUME NEW e \in Sent(kind), e[3] = c, onHardware' = Append(onHardware, e)
          PROVE  Kept(onHardware, onHardware')
      <3> DEFINE w == onHardware
                 x == Append(w, e)
      <3>1. /\ x \in Seq(Sent(kind))
            /\ DOMAIN x = (DOMAIN w) \cup {Len(w) + 1}
            /\ \A n \in DOMAIN w : x[n] = w[n]
            /\ x[Len(w) + 1] = e
        BY <1>2, OneMore
      <3> HIDE DEF x, w
      <3>2. onHardware' = x
        BY <2>2 DEF x, w
      <3>3. \A d \in Conns \ {c} : \A j \in DOMAIN x : x[j][3] = d =>
             j \in DOMAIN w /\ w[j][3] = d
        BY <2>2, <3>1, Zenon
      <3>4. ASSUME NEW d \in Conns \ {c}, NEW t, NEW g, NEW r,
                   SentInOrder(kind, d, t, w, g, r)
            PROVE  SentInOrder(kind, d, t, x, g, r)
        BY <1>2, <2>2, <3>4, OthersKeepOrder DEF x, w
      <3> QED BY <3>1, <3>2, <3>3, <3>4, Zenon DEF w
    <2> QED BY <2>1, <2>2
  <1>4. ASSUME NEW d \in Conns \ {c}
        PROVE  /\ NotUp(d)' => /\ Stream(d)' = <<>>
                               /\ \A j \in DOMAIN onHardware' : onHardware'[j][3] # d
               /\ SentIsWhole(d)'
               /\ SentInOrder(kind, d, Stream(d), onHardware, given, client[d])'
    <2>1. NotUp(d)' => /\ Stream(d)' = <<>>
                       /\ \A j \in DOMAIN onHardware' : onHardware'[j][3] # d
      BY <1>s, <1>3, Zenon DEF SentInv
    <2>2. SentIsWhole(d)'
      BY <1>s, Zenon DEF SentInv, SentIsWhole
    <2>3. SentInOrder(kind, d, Stream(d), onHardware', given, client[d])
      BY <1>3, Zenon DEF SentInv
    <2> QED BY <1>s, <2>1, <2>2, <2>3, Zenon
  <1>5. SentIsWhole(c)' /\ ~NotUp(c)'
    BY <1>s, Zenon DEF SentIsWhole
  <1>6. SentInOrder(kind, c, Stream(c), onHardware, given, client[c])'
    BY <1>s, Zenon
  <1> QED BY <1>1, <1>3, <1>4, <1>5, <1>6, Zenon DEF SentInv

\* A session reads some of what its own client has sent.
LEMMA ReadKeepsSentInv ==
  ASSUME SessionTypes, SentInv, ~shared, NEW c \in Conns, Read(c)
  PROVE  SentInv'
  <1> DEFINE q == toServer[c]
  <1>0. c \in running /\ c \in accepted /\ ~NotUp(c)
    BY Zenon DEF Read, SessionTypes
  <1>1. Reader(c) = c
    <2>1. source[c] \in {0, c} /\ writer \in {0, c}
      BY <1>0, Zenon DEF SessionTypes, SlotTypes, Alone
    <2>2. Reader(c) # 0
      BY Zenon DEF Read
    <2> QED BY <2>1, <2>2 DEF Reader
  <1>2. PICK n \in 1 .. Len(q) :
          /\ buffer' = [buffer EXCEPT ![c] = buffer[c] \o SubSeq(q, 1, n)]
          /\ toServer' = [toServer EXCEPT ![c] = SubSeq(q, n + 1, Len(q))]
    BY <1>1, Zenon DEF Read, SentInv
  <1>3. /\ UNCHANGED <<kind, tcp, client, given, accepted, running, onHardware>>
        /\ \A d \in Conns : NotUp(d)' => NotUp(d)
    BY Zenon DEF Read, sendVars, NotUp
  <1> DEFINE b == buffer[c] \o SubSeq(q, 1, n)
             t == SubSeq(q, n + 1, Len(q))
  <1>4. b \in Seq(Pieces) /\ t \in Seq(Pieces) /\ b \o t = Stream(c)
    <2>1. buffer[c] \in Seq(Pieces) /\ q \in Seq(Pieces)
      BY StreamIs
    <2> QED BY <2>1, ReadKeepsStream, ZenonT(40) DEF Stream
  <1>5. /\ kind = "can" => Aligned(b \o t, 0)
        /\ SentInOrder(kind, c, b \o t, onHardware', given, client[c])
    <2>1. SentIsWhole(c) /\ SentInOrder(kind, c, Stream(c), onHardware, given, client[c])
      BY DEF SentInv
    <2> QED BY <1>0, <1>3, <1>4, <2>1 DEF SentIsWhole
  <1>6. buffer' = [buffer EXCEPT ![c] = b] /\ toServer' = [toServer EXCEPT ![c] = t]
    BY <1>2
  <1> HIDE DEF b, t
  <1> QED BY <1>0, <1>3, <1>4, <1>5, <1>6, OneSessionKeepsSentInv

\* A session that ends drops what it has read.
LEMMA EndsKeepSentInv ==
  ASSUME SessionTypes, SentInv, NEW c \in running, EndSession(c),
         UNCHANGED <<kind, toServer, client, given, accepted, onHardware>>,
         \A d \in Conns : NotUp(d)' => NotUp(d)
  PROVE  SentInv'
  <1> DEFINE q == toServer[c]
  <1>0. c \in Conns /\ c \in accepted /\ ~NotUp(c)
    BY DEF SessionTypes
  <1>1. /\ buffer' = [buffer EXCEPT ![c] = <<>>]
        /\ running' \subseteq running /\ c \notin running'
    BY DEF EndSession
  <1>2. /\ buffer[c] \in Seq(Pieces) /\ q \in Seq(Pieces)
        /\ toServer' = [toServer EXCEPT ![c] = q]
    BY <1>0, StreamIs, Zenon DEF SentInv
  <1>3. SentInOrder(kind, c, <<>> \o q, onHardware', given, client[c])
    <2>1. SentInOrder(kind, c, buffer[c] \o q, onHardware, given, client[c])
      BY <1>0, Zenon DEF SentInv, Stream
    <2> HIDE DEF q
    <2> QED BY <1>2, <2>1, WireStaysInOrder
  <1>4. <<>> \in Seq(Pieces)
    OBVIOUS
  <1> HIDE DEF q
  <1> QED BY <1>0, <1>1, <1>2, <1>3, <1>4, OneSessionKeepsSentInv

\* The first whole frame of the buffer goes to the hardware.
LEMMA SendKeepsSentInv ==
  ASSUME CompletionInv, SessionTypes, SentInv, NEW c \in Conns, ToHardware(c), hardware
  PROVE  SentInv'
  <1> DEFINE q == Stream(c)
             b == buffer[c]
             s == toServer[c]
             first == b[1]
             last == b[FrameSize]
             message == _decode_frame(Half(EncodeFrame(Typed(first[1])), first[2])
                                        \o Half(EncodeFrame(Typed(last[1])), last[2]))
             e == IF kind = "serial" THEN Append(first, c)
                  ELSE <<first[1], last[1], c, message>>
             d == SubSeq(b, FrameSize + 1, Len(b))
  <1>1. /\ c \in running /\ HoldsFrame(c)
        /\ buffer' = [buffer EXCEPT ![c] = d]
        /\ onHardware' = Append(onHardware, e)
        /\ UNCHANGED <<kind, tcp, toServer, client, given, accepted, running>>
    BY Zenon DEF ToHardware, clientVars, SentInv
  <1>2. /\ b \in Seq(Pieces) /\ s \in Seq(Pieces) /\ q \in Seq(Pieces) /\ q = b \o s
        /\ onHardware \in Seq(Sent(kind)) /\ toServer' = [toServer EXCEPT ![c] = s]
        /\ SentIsWhole(c) /\ SentInOrder(kind, c, q, onHardware, given, client[c])
    BY <1>1, StreamIs, Zenon DEF SentInv, Stream
  <1>3. c \in accepted /\ ~NotUp(c) /\ kind \in {"serial", "can"}
    BY <1>1 DEF SessionTypes
  <1>4. \A x \in Conns : NotUp(x)' => NotUp(x)
    BY <1>1 DEF NotUp
  <1>5. Len(b) \in Nat /\ Len(b) >= FrameSize /\ (b # <<>> => 1 \in DOMAIN b)
    BY <1>1, <1>2, DomainIs DEF HoldsFrame
  <1>6. b # <<>>
    BY <1>5, SMT DEF FrameSize
  <1>7. /\ q # <<>> /\ Head(q) = first /\ first \in Pieces
        /\ Tail(b) \in Seq(Pieces) /\ Tail(q) = Tail(b) \o s
        /\ Tail(b) = SubSeq(b, 2, Len(b))
    <2>1. first \in Pieces
      BY <1>2, <1>6, RestIs
    <2>2. Tail(b) = SubSeq(b, 2, Len(b))
      <3> HIDE DEF b
      <3> QED BY <1>2, <1>6, TailIsSubSeq
    <2>3. /\ b \o s # <<>> /\ Head(b \o s) = b[1]
          /\ Tail(b) \in Seq(Pieces) /\ Tail(b \o s) = Tail(b) \o s
      <3> HIDE DEF b, s
      <3> QED BY <1>2, <1>6, RestOfJoin, ZenonT(40)
    <2> HIDE DEF q
    <2> QED BY <1>2, <2>1, <2>2, <2>3
  <1>8. first[1] \in Nat \ {0} /\ first[2] \in Nat \ {0} /\ first = <<first[1], first[2]>>
    BY <1>7, PieceIs
  <1>9. client[c].pend \in Nat
    <2>1. client[c] \in Clients
      BY DEF CompletionInv
    <2> QED BY <2>1, SMT DEF Clients
  <1>10. ASSUME NEW u \in Seq(Pieces), d = u, kind = "can" => Aligned(u \o s, 0),
                e \in Sent(kind), e[3] = c,
                SentInOrder(kind, c, u \o s, Append(onHardware, e), given, client[c])
         PROVE  SentInv'
    <2>1. /\ \E x \in Sent(kind) : x[3] = c /\ onHardware' = Append(onHardware, x)
          /\ SentInOrder(kind, c, u \o s, onHardware', given, client[c])
          /\ buffer' = [buffer EXCEPT ![c] = u]
      BY <1>1, <1>10
    <2>2. running' \subseteq running
      BY <1>1
    <2> HIDE DEF d, e, s
    <2> QED BY <1>1, <1>2, <1>3, <1>4, <1>10, <2>1, <2>2, OneSessionKeepsSentInv
  <1>11. CASE kind = "serial"
    <2>1. FrameSize = 1 /\ 1 + 1 = 2
      BY <1>11, SMT DEF FrameSize
    <2>2. d = Tail(b)
      BY <1>7, <2>1
    <2>3. e = <<first[1], first[2], c>>
      <3>1. \A x, y, z \in Nat : Append(<<x, y>>, z) = <<x, y, z>>
        BY TripleIs
      <3>2. c \in Nat
        BY SMT DEF Conns
      <3>3. e = Append(first, c)
        BY <1>11
      <3> HIDE DEF first, e
      <3>4. Append(<<first[1], first[2]>>, c) = <<first[1], first[2], c>>
        BY <1>8, <3>1, <3>2, Zenon
      <3>5. Append(first, c) = Append(<<first[1], first[2]>>, c)
        BY <1>8, Zenon
      <3> QED BY <3>3, <3>4, <3>5, Zenon
    <2> HIDE DEF e
    <2>4. e \in Sent(kind) /\ e[3] = c /\ e[1] = first[1] /\ e[2] = first[2]
      <3>1. e \in {<<i, h, x>> : i \in Nat, h \in Nat, x \in Conns}
        BY <1>8, <2>3
      <3>2. kind # "can"
        BY <1>11
      <3> QED BY <2>3, <3>1, <3>2 DEF Sent
    <2> HIDE DEF q, first, b, s, d
    <2>5. SentInOrder(kind, c, Tail(q), Append(onHardware, e), given, client[c])
      BY <1>2, <1>7, <1>9, <1>11, <2>4, PiecePasses
    <2> QED BY <1>7, <1>10, <1>11, <2>2, <2>4, <2>5
  <1>12. CASE kind = "can"
    <2>1. FrameSize = 2 /\ 2 + 1 = 3
      BY <1>12, SMT DEF FrameSize
    <2>2. Aligned(q, 0)
      BY <1>1, <1>2, <1>12 DEF SentIsWhole
    <2> DEFINE f == first[1]
               a == Tail(b)
               t == Tail(q)
    <2>3. Aligned(t, f) /\ t \in Seq(Pieces)
      <3>1. 0 \in Nat
        OBVIOUS
      <3> HIDE DEF q, first
      <3>2. Aligned(Tail(q), Head(q)[1])
        BY <1>2, <1>7, <2>2, <3>1, RestIsAligned
      <3>3. Tail(q) \in Seq(Pieces)
        BY <1>2, <1>7, RestIs
      <3> QED BY <1>7, <3>2, <3>3
    <2>4. f \in Nat /\ f # 0
      BY <1>8
    <2>5. t # <<>>
      BY <2>3, <2>4 DEF Aligned
    <2>6. Aligned(Tail(t), 0) /\ Head(t) = <<f, 2>>
      <3> HIDE DEF t, f
      <3> QED BY <2>3, <2>4, <2>5, RestIsAligned
    <2>7. first[2] = 1
      <3>1. first = q[1]
        <4> HIDE DEF q, first
        <4> QED BY <1>2, <1>7, RestIs
      <3> QED BY <1>7, <2>2, <3>1 DEF Aligned
    <2>8. Len(a) = Len(b) - 1 /\ last = a[1] /\ a # <<>>
      <3>1. Len(a) = Len(b) - 1
        BY <1>2, <1>6, RestIs
      <3>2. Len(a) >= 1
        BY <1>5, <2>1, <3>1, SMT
      <3>3. \A i \in 1 .. Len(a) : a[i] = b[i + 1]
        BY <1>2, <1>6, HeadTailProperties
      <3> HIDE DEF a, b
      <3>4. 1 \in 1 .. Len(a) /\ 1 + 1 = 2 /\ a # <<>>
        BY <1>5, <3>1, <3>2, SMT
      <3> QED BY <2>1, <3>1, <3>3, <3>4 DEF b, a
    <2>9. /\ Head(t) = last /\ Tail(a) \in Seq(Pieces) /\ Tail(t) = Tail(a) \o s
      <3>1. a \in Seq(Pieces) /\ t = a \o s
        BY <1>7
      <3> HIDE DEF a, t, s, last
      <3> QED BY <1>2, <2>8, <3>1, RestOfJoin
    <2>10. d = Tail(a)
      <3>1. Len(b) >= 2 /\ 2 \in 1 .. Len(b) /\ Len(b) \in 2 .. Len(b)
        BY <1>5, <2>1, SMT
      <3>2. Tail(SubSeq(b, 2, Len(b))) = SubSeq(b, 2 + 1, Len(b))
        BY <1>2, <3>1, HeadTailOfSubSeq
      <3> QED BY <1>7, <2>1, <3>2
    <2>11. last[1] = f /\ last[2] = 2
      <3> HIDE DEF last, t, f
      <3> QED BY <2>6, <2>9
    <2>12. message = Typed(f)
      <3>1. message = _decode_frame(Half(EncodeFrame(Typed(f)), 1)
                                      \o Half(EncodeFrame(Typed(f)), 2))
        BY <2>7, <2>11
      <3> HIDE DEF message, f
      <3> QED BY <3>1, TypedIs, <2>4
    <2> HIDE DEF message
    <2>13. e = <<f, f, c, Typed(f)>>
      BY <1>12, <2>11, <2>12
    <2> HIDE DEF e
    <2>14. e \in Sent(kind) /\ e[3] = c /\ e[1] = f
      <3> DEFINE m == Typed(f)
      <3>1. e \in {<<i, i, x, Typed(i)>> : i \in Nat, x \in Conns}
        BY <2>4, <2>13
      <3> HIDE DEF m, f
      <3>2. e = <<f, f, c, m>>
        BY <2>13 DEF m
      <3>3. e[3] = c /\ e[1] = f
        BY <3>2
      <3> QED BY <1>12, <3>1, <3>3 DEF Sent
    <2>15. \A n \in DOMAIN t : t[n][2] \in {1, 2}
      BY <2>3, Zenon DEF Aligned
    <2>16. Head(t)[1] = f /\ Head(t)[2] = 2
      BY <2>9, <2>11
    <2> HIDE DEF f, b, s, first, last, d
    <2>17. SentInOrder(kind, c, t, onHardware, given, client[c])
      <3> HIDE DEF q
      <3> QED BY <1>2, <1>7, PieceTaken
    <2> HIDE DEF t
    <2>18. SentInOrder(kind, c, Tail(t), Append(onHardware, e), given, client[c])
      BY <1>2, <1>9, <1>12, <2>3, <2>5, <2>14, <2>15, <2>16, <2>17, PiecePasses
    <2> HIDE DEF a
    <2> QED BY <1>10, <2>6, <2>9, <2>10, <2>14, <2>18
  <1> QED BY <1>3, <1>11, <1>12

\* The end of a session drops what is unread.
LEMMA CloseSessionKeepsSentInv ==
  ASSUME SessionTypes, SentInv, NEW c \in Conns, CloseSession(c),
         \A d \in Conns : NotUp(d)' => NotUp(d)
  PROVE  SentInv'
  <1> DEFINE b == buffer[c]
             q == toServer[c]
  <1>1. /\ UNCHANGED <<kind, client, given, accepted, onHardware, running>>
        /\ toServer' = [toServer EXCEPT ![c] = <<>>]
        /\ buffer' = buffer /\ c \in ending
    BY Zenon DEF CloseSession, sendVars
  <1>2. c \notin running' /\ c \in accepted /\ ~NotUp(c)
    BY <1>1 DEF SessionTypes
  <1>3. /\ b \in Seq(Pieces) /\ q \in Seq(Pieces) /\ buffer' = [buffer EXCEPT ![c] = b]
        /\ SentInOrder(kind, c, b \o q, onHardware, given, client[c])
    BY <1>1, StreamIs, Zenon DEF SentInv, Stream
  <1>4. SentInOrder(kind, c, b \o <<>>, onHardware', given, client[c])
    <2> HIDE DEF b, q
    <2> QED BY <1>1, <1>3, ReadStaysInOrder
  <1>5. <<>> \in Seq(Pieces) /\ running' \subseteq running
    BY <1>1
  <1> HIDE DEF b
  <1> QED BY <1>1, <1>2, <1>3, <1>4, <1>5, OneSessionKeepsSentInv

LEMMA StepsKeepSentInv ==
  ASSUME CompletionInv, CompletionInv', SessionTypes, SentInv, ~shared, LinkNext
  PROVE  SentInv'
  <1>1. \A d \in Conns : NotUp(d)' => NotUp(d)
    BY PhasesGoOn
  <1>2. CASE ClientNext /\ UNCHANGED serverVars
    <2>1. PICK c \in Conns :
            \/ New(c) \/ ConnectionFailed(c) \/ SendData(c)
            \/ \E n \in 1 .. 2 : SendStreamAvailable(c, n)
            \/ DataReceived(c) \/ Close(c) \/ Detaching(c) \/ Destroy(c)
      BY <1>2 DEF ClientNext
    <2> QED BY <1>1, <1>2, <2>1, ClientsKeepSentInv, SendStreamKeepsSentInv
  <1>3. ASSUME NEW c \in Conns, Accept(c) PROVE SentInv'
    <2>1. ConnectionEstablished(c) /\ UNCHANGED serverVars
      BY <1>3 DEF Accept
    <2> QED BY <1>1, <2>1, ClientsKeepSentInv
  <1>4. ASSUME NEW c \in Conns,
               \/ ToClient(c) \/ RecvTimeout(c) \/ SessionFails(c) \/ ReadAgain(c)
               \/ ToHardware(c) /\ ~hardware
        PROVE  SentInv'
    <2>1. UNCHANGED <<kind, toServer, client, given, accepted, onHardware>>
      BY <1>4, Zenon DEF ToClient, RecvTimeout, SessionFails, ReadAgain, ToHardware,
         clientVars, sendVars
    <2>2. UNCHANGED <<running, buffer>> \/ (c \in running /\ EndSession(c))
      BY <1>4, Zenon DEF ToClient, RecvTimeout, SessionFails, ReadAgain, ToHardware,
         sessionVars
    <2>3. CASE UNCHANGED <<running, buffer>>
      <3>1. given \in Nat
        BY LinkAssumption, SMT DEF CompletionInv
      <3>2. given <= given'
        BY <2>1, <3>1, SMT
      <3>3. \A d \in Conns : client'[d].pend <= given' /\ client'[d].queued <= given'
        BY <2>1, Zenon DEF SentInv, SentInOrder
      <3> QED BY <1>1, <2>1, <2>3, <3>2, <3>3, QuietStepsKeepSentInv
    <2> QED BY <1>1, <2>1, <2>2, <2>3, EndsKeepSentInv
  <1>5. ASSUME NEW c \in Conns, CloseSession(c) PROVE SentInv'
    BY <1>1, <1>5, CloseSessionKeepsSentInv
  <1>6. CASE \/ Start \/ StopWriter \/ StopHardware
             \/ \E c \in Conns : HandleClient(c) \/ Recv(c)
    BY <1>1, <1>6, ServersKeepSentInv
  <1>7. ASSUME NEW c \in Conns, Read(c) \/ (ToHardware(c) /\ hardware) PROVE SentInv'
    BY <1>7, ReadKeepsSentInv, SendKeepsSentInv
  <1> QED BY <1>2, <1>3, <1>4, <1>5, <1>6, <1>7, Zenon DEF LinkNext, ServerNext

-----------------------------------------------------------------------------
(* What a client gets is in one place, and in order.                       *)

LEMMA GotIs ==
  ASSUME NEW k, NEW v \in Seq(Got(k)), NEW j \in DOMAIN v
  PROVE  /\ v[j][1] \in Nat
         /\ k = "can" => /\ v[j][1] = v[j][2] /\ Len(v[j]) = 3
                         /\ v[j][3] = OnBus(v[j][1])
  <1>1. v[j] \in Got(k)
    BY DomainIs
  <1>2. CASE k = "can"
    <2>0. v[j] \in {<<n, n, OnBus(n)>> : n \in Nat}
      BY <1>1, <1>2 DEF Got
    <2>1. PICK n \in Nat : v[j] = <<n, n, OnBus(n)>>
      BY <2>0
    <2> DEFINE m == OnBus(n)
    <2> HIDE DEF m
    <2>2. /\ <<n, n, m>>[1] = n /\ <<n, n, m>>[2] = n /\ <<n, n, m>>[3] = m
          /\ Len(<<n, n, m>>) = 3
      BY SMT
    <2> QED BY <2>1, <2>2, Zenon DEF m
  <1>3. CASE k # "can"
    <2>0. v[j] \in {<<n, n>> : n \in Nat}
      BY <1>1, <1>3 DEF Got
    <2> QED BY <1>3, <2>0
  <1> QED BY <1>2, <1>3

LEMMA PiecesAre ==
  ASSUME NEW q \in Seq(Pieces), NEW n \in DOMAIN q
  PROVE  q[n] \in Pieces /\ q[n][1] \in Nat \ {0} /\ q[n] = <<q[n][1], q[n][2]>>
  <1>1. q[n] \in Pieces
    BY DomainIs
  <1> QED BY <1>1, PieceIs

\* New frames are later than all before them.
LEMMA GotOnceStays ==
  ASSUME NEW k, NEW q \in Seq(Pieces), NEW v \in Seq(Got(k)), NEW t \in Nat, NEW F, NEW on,
         GotOnce(q, v, t, F, on),
         NEW u \in Nat, t <= u, NEW G, \A n \in G : n \in F \/ n = t + 1,
         NEW up, up => on \/ q = <<>>
  PROVE  GotOnce(q, v, u, G, up)
  <1>1. /\ \A n \in DOMAIN q : q[n][1] \in Nat
        /\ \A j \in DOMAIN v : v[j][1] \in Nat
    BY PiecesAre, GotIs
  <1>2. \A a \in Nat : a <= t => a <= u /\ a # t + 1
    BY SMT
  <1>3. /\ \A n \in DOMAIN q : q[n][1] <= u /\ q[n][1] \notin G
        /\ \A j \in DOMAIN v : v[j][1] <= u /\ v[j][1] \notin G
    BY <1>1, <1>2, Zenon DEF GotOnce
  <1>4. q = <<>> => \A n : n \notin DOMAIN q
    BY SMT
  <1> QED BY <1>3, <1>4, Zenon DEF GotOnce

LEMMA NothingLeftGot ==
  ASSUME NEW q, NEW v, NEW t, NEW F, NEW on, NEW up
  PROVE  /\ GotOnce(q, v, t, F, on) => GotOnce(<<>>, v, t, F, up)
         /\ GotInOrder(q, v, on) => GotInOrder(<<>>, v, up)
         /\ \A f : Newest(q, v, f) => Newest(<<>>, v, f)
  <1>1. \A n : n \notin DOMAIN <<>>
    BY SMT
  <1> QED BY <1>1, Zenon DEF GotOnce, GotInOrder, Newest

\* Queue x is q and the pieces of frame f.
Extends(q, x, f) ==
    /\ x \in Seq(Pieces)
    /\ \A n \in DOMAIN q : n \in DOMAIN x /\ x[n] = q[n]
    /\ \A n \in DOMAIN x : n \in DOMAIN q \/ x[n][1] = f
    /\ \A m, n \in DOMAIN x : m # n => m \in DOMAIN q \/ n \in DOMAIN q \/ x[m] # x[n]
    /\ \A m, n \in DOMAIN x : m < n /\ n \in DOMAIN q => m \in DOMAIN q

LEMMA HalvesExtend ==
  ASSUME NEW q \in Seq(Pieces), NEW f \in Nat \ {0}
  PROVE  Extends(q, q \o Halves(f), f)
  <1> DEFINE l == Len(q)
             x == <<f, 1>>
             y == <<f, 2>>
             z == <<f, f>>
  <1>1. /\ x \in Pieces /\ y \in Pieces /\ z \in Pieces
        /\ x[1] = f /\ y[1] = f /\ z[1] = f /\ x # y
    BY SMT DEF Pieces
  <1>2. l \in Nat /\ DOMAIN q = 1 .. l
    BY DomainIs
  <1>3. CASE kind = "can"
    <2>1. Halves(f) = <<x, y>>
      BY <1>3 DEF Halves
    <2> HIDE DEF x, y
    <2> DEFINE t == q \o <<x, y>>
    <2>2. TwoMore(q, x, y, t)
      BY <1>1, PiecesMore
    <2> HIDE DEF t
    <2>3. /\ t \in Seq(Pieces)
          /\ DOMAIN t = (DOMAIN q) \cup {l + 1, l + 2}
          /\ \A n \in DOMAIN q : t[n] = q[n]
          /\ t[l + 1] = x /\ t[l + 2] = y
      BY <2>2 DEF TwoMore
    <2> HIDE DEF l
    <2>4. \A m, n \in DOMAIN t : m < n /\ n \in DOMAIN q => m \in DOMAIN q
      BY <1>2, <2>3, SMT
    <2>5. \A n \in DOMAIN t : n \in DOMAIN q \/ t[n][1] = f
      BY <1>1, <2>3, Zenon
    <2>6. \A m, n \in DOMAIN t : m # n => m \in DOMAIN q \/ n \in DOMAIN q \/ t[m] # t[n]
      BY <1>1, <2>3, Zenon
    <2>7. Extends(q, t, f)
      BY <2>3, <2>4, <2>5, <2>6, Zenon DEF Extends
    <2> QED BY <2>1, <2>7 DEF t
  <1>4. CASE kind # "can"
    <2>1. Halves(f) = <<z>>
      BY <1>4 DEF Halves
    <2> HIDE DEF z
    <2> DEFINE t == Append(q, z)
    <2>2. /\ t \in Seq(Pieces)
          /\ DOMAIN t = (DOMAIN q) \cup {l + 1}
          /\ \A n \in DOMAIN q : t[n] = q[n]
          /\ t[l + 1] = z
      BY <1>1, OneMore
    <2>3. t = q \o <<z>>
      BY <1>1, AppendIsConcat
    <2> HIDE DEF t, l
    <2>4. \A m, n \in DOMAIN t : m < n /\ n \in DOMAIN q => m \in DOMAIN q
      BY <1>2, <2>2, SMT
    <2>5. \A n \in DOMAIN t : n \in DOMAIN q \/ t[n][1] = f
      BY <1>1, <2>2, Zenon
    <2>6. \A m, n \in DOMAIN t : m # n => m \in DOMAIN q \/ n \in DOMAIN q
      BY <2>2, Zenon
    <2>7. Extends(q, t, f)
      BY <2>2, <2>4, <2>5, <2>6, Zenon DEF Extends
    <2> QED BY <2>1, <2>3, <2>7
  <1> QED BY <1>3, <1>4

\* A thread's frame goes on the wire.
LEMMA FrameSentOnce ==
  ASSUME NEW q, NEW x, NEW f \in Nat, Extends(q, x, f), NEW v, NEW t, NEW F, NEW on,
         GotOnce(q, v, t, F, on), f \in F, f <= t, NEW G, G \subseteq F, f \notin G
  PROVE  GotOnce(x, v, t, G, on)
  <1>1. \A n \in DOMAIN x : x[n][1] <= t /\ x[n][1] \notin G
    BY Zenon DEF GotOnce, Extends
  <1>2. \A j \in DOMAIN v : v[j][1] <= t /\ v[j][1] \notin G /\ v[j][1] # f
    BY Zenon DEF GotOnce
  <1>3. \A m, n \in DOMAIN x : m # n => x[m] # x[n]
    <2>1. \A m \in DOMAIN q : x[m] = q[m] /\ q[m][1] # f
      BY Zenon DEF GotOnce, Extends
    <2> TAKE m, n \in DOMAIN x
    <2>2. CASE m \in DOMAIN q /\ n \in DOMAIN q
      <3>1. m # n => q[m] # q[n]
        BY <2>2, Zenon DEF GotOnce
      <3> QED BY <2>1, <2>2, <3>1, Zenon
    <2>3. CASE m \in DOMAIN q /\ n \notin DOMAIN q
      <3>1. x[n][1] = f
        BY <2>3, Zenon DEF Extends
      <3>2. x[m][1] # f
        BY <2>1, <2>3, Zenon
      <3> QED BY <3>1, <3>2, Zenon
    <2>4. CASE m \notin DOMAIN q /\ n \in DOMAIN q
      <3>1. x[m][1] = f
        BY <2>4, Zenon DEF Extends
      <3>2. x[n][1] # f
        BY <2>1, <2>4, Zenon
      <3> QED BY <3>1, <3>2, Zenon
    <2>5. CASE m \notin DOMAIN q /\ n \notin DOMAIN q
      BY <2>5, Zenon DEF Extends
    <2> QED BY <2>2, <2>3, <2>4, <2>5
  <1>4. on => \A j \in DOMAIN v, n \in DOMAIN x : v[j][1] # x[n][1]
    <2>1. on => \A j \in DOMAIN v, n \in DOMAIN q : v[j][1] # q[n][1]
      BY Zenon DEF GotOnce
    <2>2. \A n \in DOMAIN x : x[n][1] = f \/ (n \in DOMAIN q /\ x[n] = q[n])
      BY Zenon DEF Extends
    <2> QED BY <1>2, <2>1, <2>2, Zenon
  <1> QED BY <1>1, <1>2, <1>3, <1>4, Zenon DEF GotOnce

LEMMA FrameSentInOrder ==
  ASSUME NEW k, NEW q \in Seq(Pieces), NEW v \in Seq(Got(k)), NEW x, NEW f \in Nat, NEW on,
         Extends(q, x, f), GotInOrder(q, v, on), Newest(q, v, f)
  PROVE  GotInOrder(x, v, on)
  <1>1. /\ \A n \in DOMAIN q : q[n][1] \in Nat
        /\ \A j \in DOMAIN v : v[j][1] \in Nat
    BY PiecesAre, GotIs
  <1>2. /\ \A a \in Nat : a < f => a <= f
        /\ f <= f
    BY SMT
  <1>3. /\ \A n \in DOMAIN q : q[n][1] <= f
        /\ \A j \in DOMAIN v : v[j][1] <= f
    BY <1>1, <1>2, Zenon DEF Newest
  <1>4. \A m, n \in DOMAIN x : m < n => x[m][1] <= x[n][1]
    <2> TAKE m, n \in DOMAIN x
    <2> HAVE m < n
    <2>1. CASE n \in DOMAIN q
      BY <2>1, Zenon DEF GotInOrder, Extends
    <2>2. CASE n \notin DOMAIN q
      BY <1>2, <1>3, <2>2, Zenon DEF Extends
    <2> QED BY <2>1, <2>2
  <1>5. on => \A j \in DOMAIN v, n \in DOMAIN x : v[j][1] <= x[n][1]
    BY <1>3, Zenon DEF GotInOrder, Extends
  <1> QED BY <1>4, <1>5, Zenon DEF GotInOrder

\* The client takes a piece of it.
LEMMA GotPieceTaken ==
  ASSUME NEW q \in Seq(Pieces), q # <<>>, NEW v, NEW t, NEW F, NEW on
  PROVE  /\ GotOnce(q, v, t, F, on) => GotOnce(Tail(q), v, t, F, on)
         /\ GotInOrder(q, v, on) => GotInOrder(Tail(q), v, on)
         /\ \A f : Newest(q, v, f) => Newest(Tail(q), v, f)
  <1> DEFINE u == Tail(q)
  <1>1. \A n \in DOMAIN u : n + 1 \in DOMAIN q /\ u[n] = q[n + 1]
    BY RestIs
  <1>2. u \in Seq(Pieces)
    BY RestIs
  <1> HIDE DEF u
  <1>3. \A n \in DOMAIN u : n \in Nat
    BY <1>2, DomainIs
  <1>4. \A m, n \in DOMAIN u : (m < n => m + 1 < n + 1) /\ (m # n => m + 1 # n + 1)
    BY <1>3, SMT
  <1>5. GotOnce(q, v, t, F, on) => GotOnce(u, v, t, F, on)
    <2> SUFFICES ASSUME GotOnce(q, v, t, F, on) PROVE GotOnce(u, v, t, F, on)
      OBVIOUS
    <2>1. \A n \in DOMAIN u : u[n][1] <= t /\ u[n][1] \notin F
      BY <1>1, Zenon DEF GotOnce
    <2>2. ASSUME NEW m \in DOMAIN u, NEW n \in DOMAIN u, m # n PROVE u[m] # u[n]
      <3>1. q[m + 1] # q[n + 1]
        BY <1>1, <1>4, <2>2, Zenon DEF GotOnce
      <3>2. u[m] = q[m + 1] /\ u[n] = q[n + 1]
        BY <1>1
      <3> QED BY <3>1, <3>2, Zenon
    <2>3. on => \A j \in DOMAIN v, n \in DOMAIN u : v[j][1] # u[n][1]
      <3>1. on => \A j \in DOMAIN v, n \in DOMAIN q : v[j][1] # q[n][1]
        BY Zenon DEF GotOnce
      <3> QED BY <1>1, <3>1, Zenon
    <2> QED BY <2>1, <2>2, <2>3, Zenon DEF GotOnce
  <1>6. GotInOrder(q, v, on) => GotInOrder(u, v, on)
    BY <1>1, <1>4, Zenon DEF GotInOrder
  <1>7. \A f : Newest(q, v, f) => Newest(u, v, f)
    BY <1>1, Zenon DEF Newest
  <1> QED BY <1>5, <1>6, <1>7 DEF u

\* The piece completes a frame.
LEMMA FrameDelivered ==
  ASSUME NEW k, NEW q \in Seq(Pieces), q # <<>>, NEW v \in Seq(Got(k)),
         NEW t, NEW F, NEW on, on,
         NEW e \in Got(k), e[1] = Head(q)[1],
         \A n \in DOMAIN Tail(q) : Tail(q)[n][1] # e[1]
  PROVE  /\ GotOnce(q, v, t, F, on) => GotOnce(Tail(q), Append(v, e), t, F, on)
         /\ GotInOrder(q, v, on) => GotInOrder(Tail(q), Append(v, e), on)
         /\ \A f : Newest(q, v, f) => Newest(Tail(q), Append(v, e), f)
  <1> DEFINE u == Tail(q)
             x == Append(v, e)
             l == Len(v)
  <1>1. \A n \in DOMAIN u : n + 1 \in DOMAIN q /\ u[n] = q[n + 1]
    BY RestIs
  <1>2. u \in Seq(Pieces) /\ e[1] = q[1][1] /\ 1 \in DOMAIN q
    BY RestIs, DomainIs
  <1>3. /\ DOMAIN x = (DOMAIN v) \cup {l + 1}
        /\ \A n \in DOMAIN v : x[n] = v[n]
        /\ x[l + 1] = e
    BY OneMore
  <1>4. l \in Nat /\ DOMAIN v = 1 .. l
    BY DomainIs
  <1>5. \A n \in DOMAIN u : u[n][1] # e[1]
    OBVIOUS
  <1> HIDE DEF u, x, l
  <1>6. \A n \in DOMAIN u : n \in Nat /\ n >= 1
    BY <1>2, DomainIs
  <1>7. \A n \in DOMAIN u : 1 < n + 1
    BY <1>6, SMT
  <1>8. \A i, j \in DOMAIN x : i < j => i \in DOMAIN v /\ (j \in DOMAIN v \/ j = l + 1)
    BY <1>3, <1>4, SMT
  <1>9. ASSUME GotOnce(q, v, t, F, on) PROVE GotOnce(u, x, t, F, on)
    <2>1. GotOnce(u, v, t, F, on)
      BY <1>9, GotPieceTaken DEF u
    <2>2. \A j \in DOMAIN x : x[j][1] <= t /\ x[j][1] \notin F
      BY <1>2, <1>3, <1>9, Zenon DEF GotOnce
    <2>3. \A j \in DOMAIN v : v[j][1] # e[1]
      BY <1>2, <1>9, Zenon DEF GotOnce
    <2>4. \A i, j \in DOMAIN x : i # j => x[i][1] # x[j][1]
      <3>1. \A i, j \in DOMAIN v : i # j => v[i][1] # v[j][1]
        BY <1>9, Zenon DEF GotOnce
      <3> TAKE i, j \in DOMAIN x
      <3>2. CASE i \in DOMAIN v /\ j \in DOMAIN v
        BY <1>3, <3>1, <3>2, Zenon
      <3>3. CASE i = l + 1 /\ j \in DOMAIN v
        BY <1>3, <2>3, <3>3, Zenon
      <3>4. CASE i \in DOMAIN v /\ j = l + 1
        BY <1>3, <2>3, <3>4, Zenon
      <3> QED BY <1>3, <3>2, <3>3, <3>4, Zenon
    <2>5. \A j \in DOMAIN x, n \in DOMAIN u : x[j][1] # u[n][1]
      <3> TAKE j \in DOMAIN x, n \in DOMAIN u
      <3>1. CASE j \in DOMAIN v
        <4>1. v[j][1] # u[n][1] /\ x[j] = v[j]
          BY <1>3, <2>1, <3>1, Zenon DEF GotOnce
        <4> QED BY <4>1, Zenon
      <3>2. CASE j = l + 1
        <4>1. x[j] = e /\ u[n][1] # e[1]
          BY <1>3, <1>5, <3>2, Zenon
        <4> QED BY <4>1, Zenon
      <3> QED BY <1>3, <3>1, <3>2
    <2> QED BY <2>1, <2>2, <2>4, <2>5, Zenon DEF GotOnce
  <1>10. ASSUME GotInOrder(q, v, on) PROVE GotInOrder(u, x, on)
    <2>1. GotInOrder(u, v, on)
      BY <1>10, GotPieceTaken DEF u
    <2>2. \A i, j \in DOMAIN x : i < j => x[i][1] <= x[j][1]
      BY <1>2, <1>3, <1>8, <1>10, Zenon DEF GotInOrder
    <2>3. \A n \in DOMAIN u : e[1] <= u[n][1]
      BY <1>1, <1>2, <1>7, <1>10, Zenon DEF GotInOrder
    <2>4. \A j \in DOMAIN x, n \in DOMAIN u : x[j][1] <= u[n][1]
      BY <1>3, <2>1, <2>3, Zenon DEF GotInOrder
    <2> QED BY <2>1, <2>2, <2>4, Zenon DEF GotInOrder
  <1>11. ASSUME NEW f, Newest(q, v, f) PROVE Newest(u, x, f)
    BY <1>1, <1>2, <1>3, <1>11, Zenon DEF Newest
  <1> QED BY <1>9, <1>10, <1>11 DEF u, x

\* No piece of a whole frame comes after its last.
LEMMA LastPieceIs ==
  ASSUME NEW q \in Seq(Pieces), q # <<>>,
         \A m, n \in DOMAIN q : m # n => q[m] # q[n],
         \/ \A n \in DOMAIN q : q[n][1] = q[n][2]
         \/ \E b \in Nat \ {0} : Aligned(q, b)
  PROVE  \A n \in DOMAIN Tail(q) : Tail(q)[n][1] # Head(q)[1]
  <1> DEFINE u == Tail(q)
             a == Head(q)
  <1>1. /\ a = q[1] /\ 1 \in DOMAIN q /\ u \in Seq(Pieces)
        /\ \A n \in DOMAIN u : n + 1 \in DOMAIN q /\ u[n] = q[n + 1]
    BY RestIs, DomainIs
  <1> HIDE DEF u, a
  <1>2. \A n \in DOMAIN u : n \in Nat /\ n >= 1
    BY <1>1, DomainIs
  <1> SUFFICES ASSUME NEW n \in DOMAIN u, u[n][1] = a[1] PROVE FALSE
    BY DEF u, a
  <1>3. PICK m : m = n + 1
    OBVIOUS
  <1>4. m \in DOMAIN q /\ q[m][1] = q[1][1] /\ m # 1 /\ m + 1 # 1 /\ m \in Nat
    BY <1>1, <1>2, <1>3, SMT
  <1>5. q[m] = <<q[m][1], q[m][2]>> /\ q[1] = <<q[1][1], q[1][2]>>
    BY <1>1, <1>4, PiecesAre
  <1>6. CASE \A i \in DOMAIN q : q[i][1] = q[i][2]
    <2>1. q[m][2] = q[1][1] /\ q[1][2] = q[1][1]
      BY <1>1, <1>4, <1>6
    <2>2. q[m] = q[1]
      BY <1>4, <1>5, <2>1
    <2> QED BY <1>1, <1>4, <2>2, Zenon
  <1>7. ASSUME NEW b \in Nat \ {0}, Aligned(q, b)
        PROVE  FALSE
    <2>1. q[1] = <<b, 2>> /\ q[m][2] \in {1, 2}
          /\ (q[m][2] = 1 => m + 1 \in DOMAIN q /\ q[m + 1] = <<q[m][1], 2>>)
      BY <1>4, <1>7, SMT DEF Aligned
    <2>2. q[m][1] = b
      BY <1>4, <2>1
    <2>3. CASE q[m][2] = 2
      BY <1>1, <1>4, <1>5, <2>1, <2>2, <2>3, Zenon
    <2>4. CASE q[m][2] = 1
      BY <1>1, <1>4, <2>1, <2>2, <2>4, Zenon
    <2> QED BY <2>1, <2>3, <2>4
  <1> QED BY <1>6, <1>7

-----------------------------------------------------------------------------
(* What clients get, step by step.                                         *)

LEMMA GotInvHoldsAtFirst == LinkInit => GotInv
  <1> SUFFICES ASSUME LinkInit PROVE GotInv
    OBVIOUS
  <1>1. /\ toClient = [c \in Conns |-> <<>>] /\ delivered = [c \in Conns |-> <<>>]
        /\ client = [c \in Conns |-> NewClient]
        /\ reading = [c \in Conns |-> Idle]
        /\ running = {} /\ ending = {}
    BY DEF LinkInit, ClientInit, ServerInit
  <1>2. \A S : <<>> \in Seq(S)
    BY SMT
  <1>3. \A n : n \notin DOMAIN <<>>
    BY SMT
  <1>4. NewClient.half = 0 /\ NewClient.connected = FALSE
    BY SMT DEF NewClient
  <1>5. \A c \in Conns : ~Done(c)
    BY <1>1, SMT DEF Done, Idle
  <1>6. HandsDiffer
    BY <1>5 DEF HandsDiffer
  <1>7. ASSUME NEW c \in Conns
        PROVE  /\ toClient[c] = <<>> /\ delivered[c] = <<>> /\ client[c].half = 0
               /\ GotIsWhole(c)
               /\ GotOnce(toClient[c], delivered[c], taken, OnHand, client[c].connected)
               /\ OneSession(c)
    <2>1. /\ toClient[c] = <<>> /\ delivered[c] = <<>> /\ client[c] = NewClient
          /\ c \notin running \cup ending
      BY <1>1
    <2>2. GotIsWhole(c)
      BY <1>3, <1>4, <2>1, Zenon DEF GotIsWhole
    <2>3. GotOnce(<<>>, <<>>, taken, OnHand, FALSE)
      BY <1>3, Zenon DEF GotOnce
    <2>4. GotInOrder(<<>>, <<>>, FALSE)
      BY <1>3, Zenon DEF GotInOrder
    <2>5. client[c].connected = FALSE
      BY <1>4, <2>1
    <2> QED BY <1>4, <2>1, <2>2, <2>3, <2>4, <2>5, Zenon DEF OneSession
  <1> QED BY <1>1, <1>2, <1>6, <1>7, Zenon DEF GotInv

\* A step that sends and delivers nothing.
LEMMA QuietStepsKeepGotInv ==
  ASSUME CompletionInv, CompletionInv', GotInv,
         UNCHANGED <<kind, delivered>>,
         \A d \in Conns : NotUp(d)' => NotUp(d),
         toClient' \in [Conns -> Seq(Pieces)],
         \A d \in Conns :
           \/ /\ toClient'[d] = toClient[d] /\ client'[d].half = client[d].half
              /\ client'[d].connected => client[d].connected \/ NotUp(d)
           \/ toClient'[d] = <<>> /\ ~client'[d].connected /\ ~NotUp(d)',
         taken <= taken', \A n \in OnHand' : n \in OnHand \/ n = taken + 1, HandsDiffer',
         ~shared' =>
           /\ ~shared
           /\ \A d \in Conns : d \in running' /\ Done(d)' =>
                \/ d \in running /\ Done(d) /\ reading'[d] = reading[d]
                \/ reading'[d].frame = taken + 1
  PROVE  GotInv'
  <1>1. taken \in Nat /\ taken' \in Nat
    BY DEF CompletionInv, WireTypes
  <1>2. ASSUME NEW d \in Conns
        PROVE  /\ NotUp(d)' => /\ toClient'[d] = <<>> /\ delivered'[d] = <<>>
                               /\ client'[d].half = 0
               /\ GotIsWhole(d)'
               /\ GotOnce(toClient'[d], delivered[d], taken', OnHand', client'[d].connected)
               /\ GotInOrder(toClient[d], delivered[d], client[d].connected)
                    => GotInOrder(toClient'[d], delivered[d], client'[d].connected)
               /\ \A f : Newest(toClient[d], delivered[d], f)
                           => Newest(toClient'[d], delivered[d], f)
               /\ Newest(toClient'[d], delivered[d], taken + 1)
    <2> DEFINE q == toClient[d]
               v == delivered[d]
               on == client[d].connected
               up == client'[d].connected
               x == toClient'[d]
    <2>1. /\ q \in Seq(Pieces) /\ v \in Seq(Got(kind)) /\ x \in Seq(Pieces)
          /\ GotOnce(q, v, taken, OnHand, on)
          /\ NotUp(d) => q = <<>> /\ v = <<>> /\ client[d].half = 0
          /\ GotIsWhole(d)
      BY Zenon DEF GotInv
    <2>2. \/ x = q /\ client'[d].half = client[d].half /\ (up => on \/ NotUp(d))
          \/ x = <<>> /\ ~up /\ ~NotUp(d)'
      OBVIOUS
    <2>3. NotUp(d)' => x = <<>> /\ delivered'[d] = <<>> /\ client'[d].half = 0
      BY <2>1, <2>2
    <2>4. GotIsWhole(d)'
      <3>1. CASE x = q /\ client'[d].half = client[d].half /\ (up => on \/ NotUp(d))
        <4>1. kind = "can" /\ up => Aligned(x, client'[d].half)
          BY <2>1, <3>1, NothingIsAligned, Zenon DEF GotIsWhole
        <4> QED BY <2>1, <3>1, <4>1, Zenon DEF GotIsWhole
      <3>2. CASE x = <<>> /\ ~up
        <4>1. \A n : n \notin DOMAIN <<>>
          BY SMT
        <4> QED BY <3>2, <4>1, Zenon DEF GotIsWhole
      <3> QED BY <2>2, <3>1, <3>2
    <2> HIDE DEF q, v, on, up, x
    <2>5. GotOnce(x, v, taken', OnHand', up)
      <3>1. CASE x = q /\ (up => on \/ q = <<>>)
        <4>1. GotOnce(q, v, taken', OnHand', up)
          BY <1>1, <2>1, <3>1, GotOnceStays
        <4> QED BY <3>1, <4>1
      <3>2. CASE x = <<>>
        <4>1. GotOnce(x, v, taken, OnHand, up)
          BY <2>1, <3>2, NothingLeftGot
        <4> QED BY <1>1, <2>1, <4>1, GotOnceStays
      <3> QED BY <2>1, <2>2, <3>1, <3>2
    <2>6. GotInOrder(q, v, on) => GotInOrder(x, v, up)
      <3>1. CASE x = q /\ (up => on)
        BY <3>1, Zenon DEF GotInOrder
      <3>2. CASE x = <<>>
        BY <3>2, NothingLeftGot
      <3> QED BY <2>1, <2>2, <3>1, <3>2
    <2>7. \A f : Newest(q, v, f) => Newest(x, v, f)
      <3>1. CASE x = q
        BY <3>1
      <3>2. CASE x = <<>>
        BY <3>2, NothingLeftGot
      <3> QED BY <2>2, <3>1, <3>2
    <2>8. Newest(x, v, taken + 1)
      <3>1. /\ \A n \in DOMAIN q : q[n][1] \in Nat
            /\ \A j \in DOMAIN v : v[j][1] \in Nat
        BY <2>1, PiecesAre, GotIs
      <3>2. \A a \in Nat : a <= taken => a < taken + 1
        BY <1>1, SMT
      <3>3. Newest(q, v, taken + 1)
        BY <2>1, <3>1, <3>2, Zenon DEF GotOnce, Newest
      <3> QED BY <2>7, <3>3
    <2> QED BY <2>3, <2>4, <2>5, <2>6, <2>7, <2>8 DEF q, v, on, up, x
  <1>3. ASSUME ~shared', NEW d \in Conns
        PROVE  OneSession(d)'
    <2>1. OneSession(d)
      BY <1>3 DEF GotInv
    <2>2. GotInOrder(toClient'[d], delivered'[d], client'[d].connected)
      BY <1>2, <2>1, Zenon DEF OneSession
    <2>3. ASSUME d \in running', Done(d)'
          PROVE  Newest(toClient'[d], delivered'[d], reading'[d].frame)
      <3>1. CASE d \in running /\ Done(d) /\ reading'[d] = reading[d]
        BY <1>2, <2>1, <3>1, Zenon DEF OneSession
      <3>2. CASE reading'[d].frame = taken + 1
        BY <1>2, <3>2, Zenon
      <3> QED BY <1>3, <2>3, <3>1, <3>2
    <2> QED BY <1>3, <2>2, <2>3, Zenon DEF OneSession
  <1>4. delivered' \in [Conns -> Seq(Got(kind'))]
    BY Zenon DEF GotInv
  <1> QED BY <1>2, <1>3, <1>4, Zenon DEF GotInv

\* Hands only let go.
LEMMA HandsLetGo ==
  ASSUME HandsDiffer, taken' = taken,
         \A d \in Conns : Done(d)' => Done(d) /\ reading'[d] = reading[d]
  PROVE  HandsDiffer' /\ OnHand' \subseteq OnHand
  <1>1. HandsDiffer'
    BY Zenon DEF HandsDiffer
  <1>2. OnHand' \subseteq OnHand
    BY DEF OnHand
  <1> QED BY <1>1, <1>2

\* The client's steps but the one that receives.
LEMMA ClientsKeepGotInv ==
  ASSUME CompletionInv, CompletionInv', GotInv, NEW c \in Conns,
         \/ New(c) \/ ConnectionFailed(c) \/ SendData(c)
         \/ \E n \in 1 .. 2 : SendStreamAvailable(c, n)
         \/ Close(c) \/ Detaching(c) \/ Destroy(c) \/ ConnectionEstablished(c),
         UNCHANGED serverVars,
         \A d \in Conns : NotUp(d)' => NotUp(d)
  PROVE  GotInv'
  <1> DEFINE r == client[c]
             Same == /\ toClient' = toClient
                     /\ \E p : /\ client' = [client EXCEPT ![c] = p] /\ p.half = r.half
                               /\ p.connected => r.connected \/ NotUp(c)
             Gone == /\ toClient' = [toClient EXCEPT ![c] = <<>>]
                     /\ \E p : client' = [client EXCEPT ![c] = p] /\ ~p.connected
                     /\ ~NotUp(c)'
  <1>0. /\ r \in Clients
        /\ client = [client EXCEPT ![c] = r]
    BY Zenon DEF CompletionInv
  <1>1. UNCHANGED <<shared, running, reading, taken>>
    BY Zenon DEF serverVars, sessionVars
  <1>2. UNCHANGED <<kind, delivered>>
    BY Zenon DEF New, ConnectionFailed, SendData, SendStreamAvailable, Close, Detaching,
       Destroy, ConnectionEstablished, HandleDisconnected
  <1>3. ASSUME Same \/ Gone
        PROVE  GotInv'
    <2>1. toClient' \in [Conns -> Seq(Pieces)]
      <3>1. toClient \in [Conns -> Seq(Pieces)] /\ <<>> \in Seq(Pieces)
        BY DEF GotInv
      <3> QED BY <1>3, <3>1, Zenon
    <2>2. \A d \in Conns :
           \/ /\ toClient'[d] = toClient[d] /\ client'[d].half = client[d].half
              /\ client'[d].connected => client[d].connected \/ NotUp(d)
           \/ toClient'[d] = <<>> /\ ~client'[d].connected /\ ~NotUp(d)'
      <3> TAKE d \in Conns
      <3>1. CASE d # c
        BY <1>3, <3>1, Zenon DEF CompletionInv, GotInv
      <3>2. CASE d = c
        BY <1>3, <3>2, Zenon DEF CompletionInv, GotInv
      <3> QED BY <3>1, <3>2
    <2>3. HandsDiffer' /\ OnHand' \subseteq OnHand
      BY <1>1, HandsLetGo DEF Done, GotInv
    <2>4. taken <= taken'
      BY <1>1, SMT DEF CompletionInv, WireTypes
    <2> QED BY <1>1, <1>2, <2>1, <2>2, <2>3, <2>4, QuietStepsKeepGotInv DEF Done
  <1>4. CASE New(c)
    <2>1. toClient' = toClient /\ client' = [client EXCEPT ![c] = r]
      BY <1>0, <1>4, Zenon DEF New, wireVars
    <2> QED BY <1>3, <2>1, Zenon
  <1>5. CASE ConnectionFailed(c) \/ Close(c) \/ Detaching(c)
    <2>1. PICK clear \in BOOLEAN : HandleDisconnected(c, clear)
      BY <1>5, Zenon DEF ConnectionFailed, Close, Detaching
    <2>2. toClient' = toClient /\ client' = [client EXCEPT ![c] = Disconnected(c, clear)]
      BY <1>5, <2>1, Zenon DEF ConnectionFailed, Close, Detaching, HandleDisconnected
    <2> QED BY <1>3, <2>2, DisconnectedIs, Zenon
  <1>6. CASE Destroy(c)
    <2>1. /\ toClient' = [toClient EXCEPT ![c] = <<>>]
          /\ tcp' = [tcp EXCEPT ![c] = "destroyed"]
          /\ \/ client' = [client EXCEPT ![c] = Disconnected(c, TRUE)]
             \/ client' = [client EXCEPT ![c] = NewClient]
      BY <1>6, Zenon DEF Destroy, HandleDisconnected
    <2>2. Disconnected(c, TRUE).connected = FALSE
      BY DisconnectedIs
    <2>3. NewClient.connected = FALSE
      BY SMT DEF NewClient
    <2>4. \E p : client' = [client EXCEPT ![c] = p] /\ ~p.connected
      BY <2>1, <2>2, <2>3, Zenon
    <2>5. ~NotUp(c)'
      BY <2>1, SMT DEF NotUp, CompletionInv
    <2> QED BY <1>3, <2>1, <2>4, <2>5
  <1>7. CASE ConnectionEstablished(c)
    <2> DEFINE p == [r EXCEPT !.connected = TRUE, !.handler = TRUE, !.queued = 0,
                              !.pend = r.queued,
                              !.left = IF r.queued = 0 THEN 0 ELSE 2]
    <2>1. client' = [client EXCEPT ![c] = p] /\ toClient' = toClient /\ NotUp(c)
      BY <1>0, <1>7, Zenon DEF ConnectionEstablished, wireVars, NotUp
    <2>2. p.half = r.half
      BY <1>0, SMT DEF Clients
    <2> HIDE DEF p, r
    <2> QED BY <1>3, <2>1, <2>2, Zenon
  <1>8. ASSUME toClient' = toClient, NEW p, client' = [client EXCEPT ![c] = p],
               p.half = r.half, p.connected = r.connected
        PROVE  GotInv'
    BY <1>3, <1>8, Zenon
  <1>9. CASE SendData(c)
    <2> DEFINE i == given + 1
               p1 == [r EXCEPT !.pend = i, !.left = 2]
               p2 == [r EXCEPT !.queued = i]
    <2>1. toClient' = toClient
      BY <1>9, Zenon DEF SendData, wireVars
    <2>2. \/ client' = client
          \/ client' = [client EXCEPT ![c] = p1]
          \/ client' = [client EXCEPT ![c] = p2]
      BY <1>0, <1>9, Zenon DEF SendData, RequestSend, Queue, CompletionInv
    <2>3. /\ p1.half = r.half /\ p1.connected = r.connected
          /\ p2.half = r.half /\ p2.connected = r.connected
      BY <1>0, SMT DEF Clients
    <2> HIDE DEF p1, p2, r
    <2> QED BY <1>0, <1>8, <2>1, <2>2, <2>3, Zenon
  <1>10. ASSUME NEW n \in 1 .. 2, SendStreamAvailable(c, n)
         PROVE  GotInv'
    <2> DEFINE p == [r EXCEPT !.left = @ - n,
                              !.pend = IF n = r.left THEN 0 ELSE r.pend]
    <2>1. client' = [client EXCEPT ![c] = p] /\ toClient' = toClient
      BY <1>10, Zenon DEF SendStreamAvailable, CompletionInv
    <2>2. p.half = r.half /\ p.connected = r.connected
      BY <1>0, SMT DEF Clients
    <2> HIDE DEF p, r
    <2> QED BY <1>8, <2>1, <2>2, Zenon
  <1> QED BY <1>4, <1>5, <1>6, <1>7, <1>9, <1>10

\* A server step that sends and delivers nothing.
LEMMA QuietServersKeepGotInv ==
  ASSUME CompletionInv, CompletionInv', GotInv,
         UNCHANGED <<kind, delivered, toClient, client>>,
         \A d \in Conns : NotUp(d)' => NotUp(d),
         taken' \in {taken, taken + 1},
         HandsDiffer', \A n \in OnHand' : n \in OnHand \/ n = taken + 1,
         ~shared' =>
           /\ ~shared
           /\ \A d \in Conns : d \in running' /\ Done(d)' =>
                \/ d \in running /\ Done(d) /\ reading'[d] = reading[d]
                \/ reading'[d].frame = taken + 1
  PROVE  GotInv'
  <1>1. toClient' \in [Conns -> Seq(Pieces)]
    BY Zenon DEF GotInv
  <1>2. taken <= taken'
    BY SMT DEF CompletionInv, WireTypes
  <1>3. \A d \in Conns : /\ toClient'[d] = toClient[d] /\ client'[d].half = client[d].half
                         /\ client'[d].connected => client[d].connected \/ NotUp(d)
    OBVIOUS
  <1> QED BY <1>1, <1>2, <1>3, QuietStepsKeepGotInv

\* Hands let go, and sessions end or stay.
LEMMA EndsKeepGotInv ==
  ASSUME CompletionInv, CompletionInv', GotInv,
         UNCHANGED <<kind, delivered, toClient, client, taken, shared>>,
         \A d \in Conns : NotUp(d)' => NotUp(d),
         \A d \in Conns : Done(d)' => Done(d) /\ reading'[d] = reading[d],
         running' \subseteq running
  PROVE  GotInv'
  <1>1. HandsDiffer' /\ OnHand' \subseteq OnHand
    BY HandsLetGo DEF GotInv
  <1>2. ~shared' =>
           /\ ~shared
           /\ \A d \in Conns : d \in running' /\ Done(d)' =>
                d \in running /\ Done(d) /\ reading'[d] = reading[d]
    OBVIOUS
  <1> QED BY <1>1, <1>2, QuietServersKeepGotInv

\* What becomes of one connection's read.
LEMMA ReadIs ==
  ASSUME CompletionInv, NEW c \in Conns, NEW x, reading' = [reading EXCEPT ![c] = x]
  PROVE  /\ reading'[c] = x
         /\ \A d \in Conns \ {c} : reading'[d] = reading[d]
         /\ x \in {Idle, Blocked} =>
              \A d \in Conns : Done(d)' => Done(d) /\ reading'[d] = reading[d]
  <1>1. /\ reading'[c] = x
        /\ \A d \in Conns \ {c} : reading'[d] = reading[d]
    BY Zenon DEF CompletionInv, WireTypes
  <1>2. x \in {Idle, Blocked} => x.at # "done"
    BY SMT DEF Idle, Blocked
  <1> QED BY <1>1, <1>2, Zenon DEF Done

LEMMA ServersKeepGotInv ==
  ASSUME CompletionInv, CompletionInv', SessionTypes, GotInv,
         Start \/ StopWriter \/ StopHardware,
         \A d \in Conns : NotUp(d)' => NotUp(d)
  PROVE  GotInv'
  <1>1. UNCHANGED <<kind, delivered, toClient, client, taken, reading, shared, running>>
    BY Zenon DEF Start, StopWriter, StopHardware, KeepSession, clientVars, wireVars,
       sessionVars
  <1>2. \A d \in Conns : Done(d)' => Done(d) /\ reading'[d] = reading[d]
    BY <1>1 DEF Done
  <1> QED BY <1>1, <1>2, EndsKeepGotInv

LEMMA SessionsKeepGotInv ==
  ASSUME CompletionInv, CompletionInv', SessionTypes, GotInv, NEW c \in Conns,
         \/ RecvTimeout(c) \/ Read(c) \/ ReadAgain(c) \/ ToHardware(c) \/ SessionFails(c)
         \/ ToClient(c) /\ toClient' = toClient,
         \A d \in Conns : NotUp(d)' => NotUp(d)
  PROVE  GotInv'
  <1>1. UNCHANGED <<kind, delivered, toClient, client, taken, shared>>
    BY Zenon DEF RecvTimeout, Read, ReadAgain, ToHardware, SessionFails, ToClient, clientVars
  <1>2. reading' = reading \/ \E x \in {Idle, Blocked} : reading' = [reading EXCEPT ![c] = x]
    BY Zenon DEF RecvTimeout, Read, ReadAgain, ToHardware, SessionFails, ToClient
  <1>3. \A d \in Conns : Done(d)' => Done(d) /\ reading'[d] = reading[d]
    <2>1. CASE reading' = reading
      BY <2>1 DEF Done
    <2> QED BY <1>2, <2>1, ReadIs
  <1>4. running' = running \/ running' = running \ {c}
    BY Zenon DEF RecvTimeout, Read, ReadAgain, ToHardware, SessionFails, ToClient, EndSession,
       sessionVars
  <1>5. running' \subseteq running
    BY <1>4
  <1> QED BY <1>1, <1>3, <1>5, EndsKeepGotInv

LEMMA HandleClientKeepsGotInv ==
  ASSUME CompletionInv, CompletionInv', SessionTypes, GotInv, NEW c \in Conns,
         HandleClient(c),
         \A d \in Conns : NotUp(d)' => NotUp(d)
  PROVE  GotInv'
  <1>1. UNCHANGED <<kind, delivered, toClient, client, taken>>
    BY Zenon DEF HandleClient, KeepSession, wireVars
  <1>2. CASE writer # 0
    <2>1. UNCHANGED <<running, reading, shared>>
      BY <1>2, Zenon DEF HandleClient
    <2>2. \A d \in Conns : Done(d)' => Done(d) /\ reading'[d] = reading[d]
      BY <2>1 DEF Done
    <2> QED BY <1>1, <2>1, <2>2, EndsKeepGotInv
  <1>3. CASE writer = 0
    <2>1. /\ running' = running \cup {c} /\ (~shared' => ~shared)
          /\ reading' = [reading EXCEPT ![c] = Blocked]
      BY <1>3, Zenon DEF HandleClient
    <2>2. /\ \A d \in Conns : Done(d)' => Done(d) /\ reading'[d] = reading[d]
          /\ reading'[c] = Blocked
      BY <2>1, ReadIs
    <2>3. ~Done(c)'
      BY <2>2, SMT DEF Done, Blocked
    <2>4. HandsDiffer' /\ OnHand' \subseteq OnHand
      BY <1>1, <2>2, HandsLetGo DEF GotInv
    <2>5. ~shared' =>
           /\ ~shared
           /\ \A d \in Conns : d \in running' /\ Done(d)' =>
                d \in running /\ Done(d) /\ reading'[d] = reading[d]
      BY <2>1, <2>2, <2>3
    <2> QED BY <1>1, <2>4, <2>5, QuietServersKeepGotInv
  <1> QED BY <1>2, <1>3

LEMMA CloseSessionKeepsGotInv ==
  ASSUME CompletionInv, CompletionInv', GotInv, NEW c \in Conns, CloseSession(c),
         \A d \in Conns : NotUp(d)' => NotUp(d)
  PROVE  GotInv'
  <1>1. UNCHANGED <<kind, delivered, toClient, client, taken, shared, running, reading>>
    BY Zenon DEF CloseSession
  <1>2. \A d \in Conns : Done(d)' => Done(d) /\ reading'[d] = reading[d]
    BY <1>1 DEF Done
  <1> QED BY <1>1, <1>2, EndsKeepGotInv

\* A thread reads the next frame.
LEMMA RecvKeepsGotInv ==
  ASSUME CompletionInv, CompletionInv', GotInv, NEW c \in Conns, Recv(c),
         \A d \in Conns : NotUp(d)' => NotUp(d)
  PROVE  GotInv'
  <1> DEFINE f == taken + 1
             x == [at |-> "done", frame |-> f]
  <1>1. /\ UNCHANGED <<kind, delivered, toClient, client, shared, running>>
        /\ taken' = f /\ reading' = [reading EXCEPT ![c] = x]
    BY Zenon DEF Recv, clientVars, sessionVars
  <1>2. reading'[c] = x /\ \A d \in Conns \ {c} : reading'[d] = reading[d]
    <2> HIDE DEF x
    <2> QED BY <1>1, ReadIs, Zenon
  <1>3. x.at = "done" /\ x.frame = f
    OBVIOUS
  <1>4. taken \in Nat
    BY DEF CompletionInv, WireTypes
  <1>5. \A n \in 1 .. taken : n # f /\ n \in 1 .. f
    BY <1>4, SMT
  <1>6. f \in 1 .. f
    BY <1>4, SMT
  <1> HIDE DEF x, f
  <1>7. Done(c)' /\ \A d \in Conns \ {c} : Done(d)' <=> Done(d)
    BY <1>2, <1>3 DEF Done
  <1>8. HandsDiffer'
    <2>1. \A d \in Conns \ {c} : Done(d) => reading[d].frame \in 1 .. taken
      BY DEF GotInv, HandsDiffer
    <2>2. \A d \in Conns : Done(d)' => reading'[d].frame \in 1 .. taken'
      BY <1>1, <1>2, <1>3, <1>5, <1>6, <1>7, <2>1, Zenon
    <2>3. \A d \in Conns \ {c} : Done(d)' => reading'[d].frame # f
      BY <1>2, <1>5, <1>7, <2>1, Zenon
    <2>4. \A d \in Conns \ {c}, e \in Conns \ {c} :
            d # e /\ Done(d)' /\ Done(e)' => reading'[d].frame # reading'[e].frame
      BY <1>2, <1>7, Zenon DEF GotInv, HandsDiffer
    <2>5. \A d, e \in Conns :
            d # e /\ Done(d)' /\ Done(e)' => reading'[d].frame # reading'[e].frame
      BY <1>2, <1>3, <2>3, <2>4, Zenon
    <2> QED BY <2>2, <2>5, Zenon DEF HandsDiffer
  <1>9. \A n \in OnHand' : n \in OnHand \/ n = taken + 1
    <2> SUFFICES ASSUME NEW n \in OnHand', n # f PROVE n \in OnHand
      BY DEF f
    <2>1. n \in 1 .. taken' /\ \E d \in Conns : Done(d)' /\ reading'[d].frame = n
      BY DEF OnHand
    <2>2. n \in 1 .. taken
      BY <1>1, <1>4, <2>1, SMT DEF f
    <2>3. PICK d \in Conns : Done(d)' /\ reading'[d].frame = n
      BY <2>1
    <2>4. d # c
      BY <1>2, <1>3, <2>3, Zenon
    <2>5. Done(d) /\ reading[d].frame = n
      BY <1>2, <1>7, <2>3, <2>4, Zenon
    <2> QED BY <2>2, <2>5 DEF OnHand
  <1>10. ~shared' =>
           /\ ~shared
           /\ \A d \in Conns : d \in running' /\ Done(d)' =>
                \/ d \in running /\ Done(d) /\ reading'[d] = reading[d]
                \/ reading'[d].frame = taken + 1
    BY <1>1, <1>2, <1>3, <1>7 DEF f
  <1>11. taken' \in {taken, taken + 1}
    BY <1>1 DEF f
  <1> QED BY <1>1, <1>8, <1>9, <1>10, <1>11, QuietServersKeepGotInv

\* One connection passes on what was on its wire.
LEMMA OneConnectionKeepsGotInv ==
  ASSUME CompletionInv, GotInv, NEW c \in Conns, UNCHANGED <<kind, tcp, serverVars>>,
         NEW x \in Seq(Pieces), toClient' = [toClient EXCEPT ![c] = x],
         NEW y \in Seq(Got(kind)), delivered' = [delivered EXCEPT ![c] = y],
         NEW p, client' = [client EXCEPT ![c] = p], p.connected = client[c].connected,
         ~NotUp(c), GotIsWhole(c)',
         GotOnce(toClient[c], delivered[c], taken, OnHand, p.connected)
           => GotOnce(x, y, taken, OnHand, p.connected),
         GotInOrder(toClient[c], delivered[c], p.connected)
           => GotInOrder(x, y, p.connected),
         \A f : Newest(toClient[c], delivered[c], f) => Newest(x, y, f)
  PROVE  GotInv'
  <1>1. UNCHANGED <<shared, running, reading, taken>>
    BY Zenon DEF serverVars, sessionVars
  <1>2. /\ toClient' \in [Conns -> Seq(Pieces)]
        /\ delivered' \in [Conns -> Seq(Got(kind))]
        /\ toClient'[c] = x /\ delivered'[c] = y /\ client'[c] = p
        /\ \A d \in Conns \ {c} : /\ toClient'[d] = toClient[d]
                                  /\ delivered'[d] = delivered[d]
                                  /\ client'[d] = client[d]
    BY Zenon DEF GotInv, CompletionInv
  <1>3. HandsDiffer' /\ OnHand' = OnHand /\ \A d \in Conns : Done(d)' <=> Done(d)
    BY <1>1 DEF GotInv, HandsDiffer, OnHand, Done
  <1>4. \A d \in Conns : NotUp(d)' <=> NotUp(d)
    BY DEF NotUp
  <1>5. ASSUME NEW d \in Conns
        PROVE  /\ NotUp(d)' => /\ toClient'[d] = <<>> /\ delivered'[d] = <<>>
                               /\ client'[d].half = 0
               /\ GotIsWhole(d)'
               /\ GotOnce(toClient'[d], delivered'[d], taken', OnHand', client'[d].connected)
    <2>1. CASE d = c
      <3>1. GotOnce(toClient[c], delivered[c], taken, OnHand, client[c].connected)
        BY DEF GotInv
      <3> QED BY <1>1, <1>2, <1>3, <1>4, <2>1, <3>1, Zenon
    <2>2. CASE d # c
      <3>1. GotIsWhole(d)'
        <4>1. GotIsWhole(d)
          BY Zenon DEF GotInv
        <4>2. toClient'[d] = toClient[d] /\ client'[d] = client[d] /\ kind' = kind
          BY <1>2, <2>2, Zenon
        <4> QED BY <4>1, <4>2, Zenon DEF GotIsWhole
      <3> QED BY <1>1, <1>2, <1>3, <1>4, <2>2, <3>1, Zenon DEF GotInv
    <2> QED BY <2>1, <2>2
  <1>6. ASSUME ~shared', NEW d \in Conns
        PROVE  OneSession(d)'
    <2>1. OneSession(d)
      BY <1>1, <1>6 DEF GotInv
    <2>2. CASE d = c
      BY <1>1, <1>2, <1>3, <2>1, <2>2, Zenon DEF OneSession
    <2>3. CASE d # c
      BY <1>1, <1>2, <1>3, <2>1, <2>3, Zenon DEF OneSession
    <2> QED BY <2>2, <2>3
  <1> QED BY <1>2, <1>3, <1>5, <1>6, Zenon DEF GotInv

\* The client receives a piece.
LEMMA DataReceivedKeepsGotInv ==
  ASSUME CompletionInv, SessionTypes, GotInv, NEW c \in Conns, DataReceived(c),
         UNCHANGED serverVars
  PROVE  GotInv'
  <1> DEFINE q == toClient[c]
             v == delivered[c]
             a == Head(q)
             t == Tail(q)
             r == client[c]
             b == r.half
             message == DecodeFrame(Half(_encode_frame(OnBus(b)), 1)
                                      \o Half(_encode_frame(OnBus(a[1])), a[2]))
             e == IF kind = "can" THEN <<b, a[1], message>> ELSE a
             held == [r EXCEPT !.half = a[1]]
             free == [r EXCEPT !.half = 0]
  <1>1. /\ r.connected /\ q # <<>>
        /\ toClient' = [toClient EXCEPT ![c] = t]
        /\ UNCHANGED <<kind, tcp>>
    BY Zenon DEF DataReceived, GotInv
  <1>2. \/ /\ kind = "can" /\ b = 0
           /\ client' = [client EXCEPT ![c] = held] /\ delivered' = delivered
        \/ /\ kind # "can" \/ b # 0
           /\ client' = [client EXCEPT ![c] = free]
           /\ delivered' = [delivered EXCEPT ![c] = Append(v, e)]
    BY Zenon DEF DataReceived, CompletionInv, GotInv
  <1>3. /\ q \in Seq(Pieces) /\ v \in Seq(Got(kind)) /\ GotIsWhole(c)
        /\ GotOnce(q, v, taken, OnHand, r.connected)
        /\ delivered = [delivered EXCEPT ![c] = v]
    BY Zenon DEF GotInv
  <1>4. r \in Clients /\ ~NotUp(c) /\ kind \in {"serial", "can"}
    BY <1>1, Zenon DEF CompletionInv, HoldsOnePlace, NotUp, SessionTypes
  <1>5. /\ b \in Nat
        /\ held.connected = r.connected /\ held.half = a[1]
        /\ free.connected = r.connected /\ free.half = 0
    BY <1>4, SMT DEF Clients
  <1>6. /\ a = q[1] /\ a \in Pieces /\ t \in Seq(Pieces) /\ 1 \in DOMAIN q
        /\ \A n \in DOMAIN t : n + 1 \in DOMAIN q /\ t[n] = q[n + 1]
    BY <1>1, <1>3, RestIs, DomainIs
  <1>7. a[1] \in Nat \ {0} /\ a[2] \in Nat \ {0} /\ a = <<a[1], a[2]>>
    BY <1>6, PieceIs
  <1>8. kind = "can" => Aligned(q, b)
    BY <1>1, <1>3 DEF GotIsWhole
  <1>9. toClient'[c] = t
    BY <1>1, Zenon DEF GotInv
  <1>10. CASE kind = "can" /\ b = 0
    <2>1. client' = [client EXCEPT ![c] = held] /\ delivered' = [delivered EXCEPT ![c] = v]
      BY <1>2, <1>3, <1>10
    <2>2. Aligned(t, a[1])
      BY <1>1, <1>3, <1>5, <1>8, <1>10, RestIsAligned
    <2>3. client'[c] = held
      BY <2>1, Zenon DEF CompletionInv
    <2> HIDE DEF held
    <2>4. GotIsWhole(c)'
      <3>1. kind' = "can" /\ "can" # "serial"
        BY <1>1, <1>10
      <3> QED BY <1>5, <1>9, <2>2, <2>3, <3>1, Zenon DEF GotIsWhole
    <2>5. /\ GotOnce(q, v, taken, OnHand, held.connected)
               => GotOnce(t, v, taken, OnHand, held.connected)
          /\ GotInOrder(q, v, held.connected) => GotInOrder(t, v, held.connected)
          /\ \A f : Newest(q, v, f) => Newest(t, v, f)
      BY <1>1, <1>3, GotPieceTaken
    <2> HIDE DEF t
    <2> QED
      BY <1>1, <1>3, <1>4, <1>5, <1>6, <2>1, <2>4, <2>5, OneConnectionKeepsGotInv
  <1>11. ASSUME kind # "can" \/ b # 0, e \in Got(kind), e[1] = a[1],
                GotIsWhole(c)',
                \/ \A n \in DOMAIN q : q[n][1] = q[n][2]
                \/ \E f \in Nat \ {0} : Aligned(q, f)
         PROVE  GotInv'
    <2>1. /\ client' = [client EXCEPT ![c] = free]
          /\ delivered' = [delivered EXCEPT ![c] = Append(v, e)]
      BY <1>2, <1>11
    <2>2. \A m, n \in DOMAIN q : m # n => q[m] # q[n]
      BY <1>3, Zenon DEF GotOnce
    <2>3. \A n \in DOMAIN t : t[n][1] # a[1]
      BY <1>1, <1>3, <1>11, <2>2, LastPieceIs
    <2> HIDE DEF e
    <2>4. /\ Append(v, e) \in Seq(Got(kind))
      BY <1>3, <1>11, OneMore
    <2> HIDE DEF free
    <2>5. free.connected
      BY <1>1, <1>5
    <2>6. /\ GotOnce(q, v, taken, OnHand, free.connected)
               => GotOnce(t, Append(v, e), taken, OnHand, free.connected)
          /\ GotInOrder(q, v, free.connected)
               => GotInOrder(t, Append(v, e), free.connected)
          /\ \A f : Newest(q, v, f) => Newest(t, Append(v, e), f)
      BY <1>1, <1>3, <1>11, <2>3, <2>5, FrameDelivered
    <2> HIDE DEF t
    <2> QED
      BY <1>1, <1>4, <1>5, <1>6, <1>11, <2>1, <2>4, <2>6, OneConnectionKeepsGotInv
  <1>12. CASE kind = "can" /\ b # 0
    <2>1. Aligned(t, 0) /\ a = <<b, 2>>
      BY <1>1, <1>3, <1>5, <1>8, <1>12, RestIsAligned
    <2>2. a[1] = b /\ a[2] = 2
      BY <2>1
    <2>3. message = OnBus(b)
      <3>1. message = DecodeFrame(Half(_encode_frame(OnBus(b)), 1)
                                    \o Half(_encode_frame(OnBus(b)), 2))
        BY <2>2
      <3> QED BY <3>1, OnBusIs
    <2> HIDE DEF message
    <2>4. e = <<b, b, OnBus(b)>>
      BY <1>12, <2>2, <2>3
    <2>5. e \in Got(kind) /\ e[1] = a[1]
      <3> DEFINE m == OnBus(b)
      <3>1. e \in {<<n, n, OnBus(n)>> : n \in Nat}
        BY <1>5, <2>4
      <3> HIDE DEF m, e
      <3>2. e = <<b, b, m>>
        BY <2>4 DEF m
      <3>3. e[1] = b
        BY <3>2
      <3> QED BY <1>12, <2>2, <3>1, <3>3 DEF Got
    <2>6. client'[c] = free
      BY <1>2, <1>12, Zenon DEF CompletionInv
    <2> HIDE DEF free, e
    <2>7. GotIsWhole(c)'
      <3>1. kind' = "can" /\ "can" # "serial"
        BY <1>1, <1>12
      <3> QED BY <1>5, <1>9, <2>1, <2>6, <3>1, Zenon DEF GotIsWhole
    <2>8. \E f \in Nat \ {0} : Aligned(q, f)
      BY <1>5, <1>8, <1>12, Zenon
    <2> QED BY <1>11, <1>12, <2>5, <2>7, <2>8
  <1>13. CASE kind # "can"
    <2>1. kind = "serial" /\ e = a
      BY <1>4, <1>13
    <2>2. \A n \in DOMAIN q : q[n][1] = q[n][2]
      BY <1>3, <2>1 DEF GotIsWhole
    <2>3. a[1] = a[2]
      BY <1>6, <2>2
    <2> HIDE DEF e, a
    <2>4. e \in Got(kind) /\ e[1] = a[1]
      <3>1. a = <<a[1], a[1]>> /\ a[1] \in Nat
        BY <1>7, <2>3
      <3>2. a \in {<<n, n>> : n \in Nat}
        BY <3>1
      <3> QED BY <1>13, <2>1, <3>2 DEF Got
    <2>5. \A n \in DOMAIN t : t[n][1] = t[n][2]
      BY <1>6, <2>2, Zenon
    <2> HIDE DEF t
    <2>6. GotIsWhole(c)'
      BY <1>1, <1>9, <1>13, <2>5, Zenon DEF GotIsWhole
    <2> QED BY <1>11, <1>13, <2>2, <2>4, <2>6
  <1> QED BY <1>10, <1>12, <1>13

\* What was read is sent to the writer of the moment.
LEMMA FrameSentIsWhole ==
  ASSUME NEW w \in Conns, GotIsWhole(w), NEW f \in Nat \ {0}, UNCHANGED <<kind, client>>,
         CompletionInv, toClient[w] \in Seq(Pieces),
         toClient'[w] = toClient[w] \o Halves(f)
  PROVE  GotIsWhole(w)'
  <1> DEFINE q == toClient[w]
             x == toClient'[w]
             b == client[w].half
  <1>1. b \in Nat
    <2>1. client[w] \in Clients
      BY DEF CompletionInv
    <2> QED BY <2>1, SMT DEF Clients
  <1>2. CASE kind = "can"
    <2>1. x = q \o <<<<f, 1>>, <<f, 2>>>>
      BY <1>2 DEF Halves
    <2>2. client[w].connected => Aligned(x, b)
      BY <1>1, <1>2, <2>1, FrameMoreIsAligned DEF GotIsWhole
    <2>3. kind' = "can" /\ "can" # "serial"
      BY <1>2
    <2> QED BY <2>2, <2>3, Zenon DEF GotIsWhole
  <1>3. CASE kind # "can"
    <2> DEFINE z == <<f, f>>
    <2>1. Halves(f) = <<z>>
      BY <1>3 DEF Halves
    <2>2. z \in Pieces /\ z[1] = f /\ z[2] = f
      BY SMT DEF Pieces
    <2> HIDE DEF z
    <2>3. x = Append(q, z)
      BY <2>1, <2>2, AppendIsConcat
    <2> HIDE DEF x
    <2>4. /\ DOMAIN x = (DOMAIN q) \cup {Len(q) + 1}
          /\ \A n \in DOMAIN q : x[n] = q[n]
          /\ x[Len(q) + 1] = z
      BY <2>2, <2>3, OneMore
    <2>5. kind = "serial" => \A n \in DOMAIN x : x[n][1] = x[n][2]
      BY <2>2, <2>4, Zenon DEF GotIsWhole
    <2> QED BY <1>3, <2>5, Zenon DEF GotIsWhole, x
  <1> QED BY <1>2, <1>3

LEMMA ToClientKeepsGotInv ==
  ASSUME CompletionInv, SessionTypes, GotInv, NEW c \in Conns, ToClient(c),
         c \in running, writer # 0
  PROVE  GotInv'
  <1> DEFINE f == reading[c].frame
             w == writer
             q == toClient[w]
             v == delivered[w]
             on == client[w].connected
             x == q \o Halves(f)
  <1>1. /\ Done(c) /\ toClient' = [toClient EXCEPT ![w] = x]
        /\ reading' = [reading EXCEPT ![c] = Blocked]
        /\ UNCHANGED <<kind, tcp, client, delivered, taken, running, writer, shared>>
    BY Zenon DEF ToClient, Done, GotInv, sessionVars
  <1>2. w \in Conns /\ ~NotUp(w)
    BY Zenon DEF SessionTypes
  <1>3. taken \in Nat /\ f \in 1 .. taken
    BY <1>1, Zenon DEF GotInv, HandsDiffer, CompletionInv, WireTypes
  <1>4. f \in Nat /\ f \in Nat \ {0} /\ f <= taken /\ f \in OnHand
    <2>1. f \in OnHand
      BY <1>1, <1>3 DEF OnHand
    <2> HIDE DEF f
    <2> QED BY <1>3, <2>1, SMT
  <1>5. /\ reading'[c] = Blocked
        /\ \A d \in Conns : Done(d)' => Done(d) /\ reading'[d] = reading[d]
    BY <1>1, ReadIs
  <1>6. ~Done(c)'
    BY <1>5, SMT DEF Done, Blocked
  <1>7. HandsDiffer' /\ OnHand' \subseteq OnHand
    BY <1>1, <1>5, HandsLetGo DEF GotInv
  <1>8. f \notin OnHand'
    <2> SUFFICES ASSUME NEW d \in Conns, Done(d)', reading'[d].frame = f PROVE FALSE
      BY DEF OnHand
    <2>1. d # c /\ Done(d) /\ reading[d].frame = f
      BY <1>5, <1>6
    <2> QED BY <1>1, <2>1, Zenon DEF GotInv, HandsDiffer
  <1>9. /\ q \in Seq(Pieces) /\ v \in Seq(Got(kind)) /\ GotIsWhole(w)
        /\ GotOnce(q, v, taken, OnHand, on)
    BY <1>2, Zenon DEF GotInv
  <1>10. Extends(q, x, f)
    BY <1>4, <1>9, HalvesExtend
  <1>11. x \in Seq(Pieces)
    BY <1>10 DEF Extends
  <1>12. /\ toClient' \in [Conns -> Seq(Pieces)] /\ toClient'[w] = x
         /\ \A d \in Conns \ {w} : toClient'[d] = toClient[d]
    BY <1>1, <1>2, <1>11, Zenon DEF GotInv
  <1>13. GotIsWhole(w)'
    BY <1>1, <1>2, <1>4, <1>9, <1>12, FrameSentIsWhole
  <1>14. GotOnce(x, v, taken, OnHand', on)
    BY <1>4, <1>7, <1>8, <1>9, <1>10, FrameSentOnce
  <1>15. \A d \in Conns : NotUp(d)' <=> NotUp(d)
    BY <1>1 DEF NotUp
  <1>16. ASSUME NEW d \in Conns
         PROVE  /\ NotUp(d)' => /\ toClient'[d] = <<>> /\ delivered'[d] = <<>>
                                /\ client'[d].half = 0
                /\ GotIsWhole(d)'
                /\ GotOnce(toClient'[d], delivered'[d], taken', OnHand', client'[d].connected)
    <2>1. CASE d = w
      <3> HIDE DEF x, w
      <3> QED BY <1>1, <1>2, <1>12, <1>13, <1>14, <1>15, <2>1, Zenon DEF w
    <2>2. CASE d # w
      <3>1. toClient'[d] = toClient[d]
        BY <1>12, <2>2
      <3>2. GotIsWhole(d)'
        <4>1. GotIsWhole(d)
          BY Zenon DEF GotInv
        <4>2. kind' = kind /\ client' = client
          BY <1>1
        <4> QED BY <3>1, <4>1, <4>2, Zenon DEF GotIsWhole
      <3>3. /\ toClient[d] \in Seq(Pieces) /\ delivered[d] \in Seq(Got(kind))
            /\ GotOnce(toClient[d], delivered[d], taken, OnHand, client[d].connected)
        BY Zenon DEF GotInv
      <3>4. taken <= taken /\ \A n \in OnHand' : n \in OnHand \/ n = taken + 1
        BY <1>3, <1>7, SMT
      <3>5. GotOnce(toClient[d], delivered[d], taken, OnHand', client[d].connected)
        BY <1>3, <3>3, <3>4, GotOnceStays
      <3> QED BY <1>1, <1>15, <3>1, <3>2, <3>5, Zenon DEF GotInv
    <2> QED BY <2>1, <2>2
  <1>17. ASSUME ~shared', NEW d \in Conns
         PROVE  OneSession(d)'
    <2>1. OneSession(d) /\ OneSession(c)
      BY <1>1, <1>17 DEF GotInv
    <2>2. Alone
      BY <1>1, <1>17, Zenon DEF SessionTypes, SlotTypes
    <2>3. w = c /\ (d \in running => w = d)
      BY <2>2 DEF Alone
    <2>4. ~(d \in running' /\ Done(d)')
      BY <1>1, <1>6, <2>3
    <2>5. GotInOrder(toClient'[d], delivered'[d], client'[d].connected)
      <3>1. CASE d = w
        <4>1. Newest(q, v, f) /\ GotInOrder(q, v, on)
          BY <1>1, <2>1, <2>3 DEF OneSession
        <4>2. GotInOrder(x, v, on)
          BY <1>4, <1>9, <1>10, <4>1, FrameSentInOrder
        <4> HIDE DEF x, w
        <4> QED BY <1>1, <1>12, <3>1, <4>2, Zenon
      <3>2. CASE d # w
        BY <1>1, <1>12, <2>1, <3>2, Zenon DEF OneSession
      <3> QED BY <3>1, <3>2
    <2> QED BY <2>4, <2>5, Zenon DEF OneSession
  <1>18. delivered' \in [Conns -> Seq(Got(kind'))]
    BY <1>1, Zenon DEF GotInv
  <1> QED BY <1>7, <1>12, <1>16, <1>17, <1>18, Zenon DEF GotInv

LEMMA StepsKeepGotInv ==
  ASSUME CompletionInv, CompletionInv', SessionTypes, GotInv, LinkNext
  PROVE  GotInv'
  <1>1. \A d \in Conns : NotUp(d)' => NotUp(d)
    BY PhasesGoOn
  <1>2. CASE ClientNext /\ UNCHANGED serverVars
    <2>1. PICK c \in Conns :
            \/ New(c) \/ ConnectionFailed(c) \/ SendData(c)
            \/ \E n \in 1 .. 2 : SendStreamAvailable(c, n)
            \/ DataReceived(c) \/ Close(c) \/ Detaching(c) \/ Destroy(c)
      BY <1>2 DEF ClientNext
    <2> QED BY <1>1, <1>2, <2>1, ClientsKeepGotInv, DataReceivedKeepsGotInv
  <1>3. CASE Start \/ StopWriter \/ StopHardware
    BY <1>1, <1>3, ServersKeepGotInv
  <1>4. ASSUME NEW c \in Conns, Accept(c) PROVE GotInv'
    <2>1. ConnectionEstablished(c) /\ UNCHANGED serverVars
      BY <1>4 DEF Accept
    <2> QED BY <1>1, <2>1, ClientsKeepGotInv
  <1>5. ASSUME NEW c \in Conns, ToClient(c) PROVE GotInv'
    <2>1. CASE c \in running /\ writer # 0
      BY <1>5, <2>1, ToClientKeepsGotInv
    <2>2. CASE ~(c \in running /\ writer # 0)
      <3>1. toClient' = toClient
        BY <1>5, <2>2, Zenon DEF ToClient
      <3> QED BY <1>1, <1>5, <3>1, SessionsKeepGotInv
    <2> QED BY <2>1, <2>2
  <1>6. ASSUME NEW c \in Conns,
               RecvTimeout(c) \/ Read(c) \/ ReadAgain(c) \/ ToHardware(c) \/ SessionFails(c)
        PROVE  GotInv'
    BY <1>1, <1>6, SessionsKeepGotInv
  <1>7. ASSUME NEW c \in Conns, HandleClient(c) \/ CloseSession(c) \/ Recv(c)
        PROVE  GotInv'
    BY <1>1, <1>7, HandleClientKeepsGotInv, CloseSessionKeepsGotInv, RecvKeepsGotInv
  <1> QED
    BY <1>2, <1>3, <1>4, <1>5, <1>6, <1>7, Zenon DEF LinkNext, ServerNext

-----------------------------------------------------------------------------
(* Frames pass whole, once and in order.                                   *)

FramesInv == SessionTypes /\ (~shared => SentInv) /\ GotInv

LEMMA SharedStays ==
  ASSUME LinkNext, ~shared'
  PROVE  ~shared
  <1>1. CASE ClientNext /\ UNCHANGED serverVars
    BY <1>1 DEF serverVars
  <1>2. CASE Start \/ StopWriter \/ StopHardware
    BY <1>2, Zenon DEF Start, StopWriter, StopHardware
  <1>3. ASSUME NEW c \in Conns,
               \/ Accept(c) \/ HandleClient(c) \/ Recv(c) \/ ToClient(c) \/ RecvTimeout(c)
               \/ Read(c) \/ ReadAgain(c) \/ ToHardware(c) \/ SessionFails(c)
               \/ CloseSession(c)
        PROVE  ~shared
    <2>1. CASE Accept(c)
      BY <2>1 DEF Accept, serverVars
    <2>2. CASE HandleClient(c)
      BY <2>2, Zenon DEF HandleClient
    <2>3. CASE \/ Recv(c) \/ ToClient(c) \/ RecvTimeout(c) \/ Read(c) \/ ReadAgain(c)
               \/ ToHardware(c) \/ SessionFails(c) \/ CloseSession(c)
      BY <2>3, Zenon DEF Recv, ToClient, RecvTimeout, Read, ReadAgain, ToHardware, SessionFails,
         CloseSession
    <2> QED BY <1>3, <2>1, <2>2, <2>3
  <1> QED BY <1>1, <1>2, <1>3, Zenon DEF LinkNext, ServerNext

LEMMA OtherPartsKeepFramesInv ==
  ASSUME FramesInv, UNCHANGED linkVars
  PROVE  FramesInv'
  <1>1. /\ UNCHANGED <<kind, tcp, toServer, toClient, client, given, delivered>>
        /\ UNCHANGED <<server, writer, accepted, running, ending, source, reading, buffer,
                       taken, onHardware, shared>>
    BY DEF linkVars, clientVars, serverVars, sessionVars
  <1>2. \A c \in Conns : (NotUp(c)' <=> NotUp(c)) /\ (Done(c)' <=> Done(c))
    BY <1>1 DEF NotUp, Done
  <1>3. SessionTypes'
    <2>1. SlotTypes'
      BY <1>1, Zenon DEF FramesInv, SessionTypes, SlotTypes, Alone
    <2> QED BY <1>1, <1>2, <2>1, Zenon DEF FramesInv, SessionTypes
  <1>4. SentInv => SentInv'
    <2>1. \A c \in Conns : Stream(c)' = Stream(c)
      BY <1>1, Zenon DEF Stream
    <2>2. \A c \in Conns : SentIsWhole(c)' <=> SentIsWhole(c)
      BY <1>1, <2>1 DEF SentIsWhole
    <2> QED BY <1>1, <1>2, <2>1, <2>2, Zenon DEF SentInv
  <1>5. GotInv'
    <2>1. /\ OnHand' = OnHand
          /\ \A c \in Conns : GotIsWhole(c)' <=> GotIsWhole(c)
      BY <1>1, <1>2 DEF OnHand, GotIsWhole
    <2>2. \A c \in Conns : OneSession(c) => OneSession(c)'
      BY <1>1, <1>2, Zenon DEF OneSession
    <2>3. HandsDiffer'
      BY <1>1, <1>2, Zenon DEF FramesInv, GotInv, HandsDiffer
    <2> QED BY <1>1, <1>2, <2>1, <2>2, <2>3, Zenon DEF FramesInv, GotInv
  <1> QED BY <1>1, <1>3, <1>4, <1>5, Zenon DEF FramesInv

\* What the hardware has got, as long as no session began beside another one.
LEMMA SentInvMeansOrder ==
  ASSUME SentInv
  PROVE  WholeFrames(onHardware, Typed) /\ Once(onHardware) /\ InOrderByClient(onHardware)
  <1> DEFINE w == onHardware
  <1>1. /\ w \in Seq(Sent(kind))
        /\ \A j \in DOMAIN w : j \in Nat
        /\ \A j \in DOMAIN w :
             /\ w[j][1] \in Nat /\ w[j][2] \in Nat /\ w[j][3] \in Conns
             /\ kind = "can" => /\ w[j][1] = w[j][2] /\ Len(w[j]) = 4
                                /\ w[j][4] = Typed(w[j][1])
    <2>1. w \in Seq(Sent(kind))
      BY DEF SentInv
    <2> HIDE DEF w
    <2>2. \A j \in DOMAIN w : j \in Nat
      BY <2>1, DomainIs
    <2> QED BY <2>1, <2>2, SentIs
  <1>2. \A j, n \in DOMAIN w : j < n /\ w[j][3] = w[n][3] => Precedes(kind, w[j], w[n])
    <2>1. \A c \in Conns : SentInOrder(kind, c, Stream(c), w, given, client[c])
      BY DEF SentInv
    <2> QED BY <1>1, <2>1, Zenon DEF SentInOrder
  <1> HIDE DEF w
  <1>3. WholeFrames(w, Typed)
    BY <1>1, Zenon DEF WholeFrames
  <1>4. \A j, n \in DOMAIN w : Precedes(kind, w[j], w[n]) => w[j] # w[n] /\ w[j][1] <= w[n][1]
    <2> SUFFICES ASSUME NEW j \in DOMAIN w, NEW n \in DOMAIN w, Precedes(kind, w[j], w[n])
                 PROVE  w[j] # w[n] /\ w[j][1] <= w[n][1]
      OBVIOUS
    <2>1. w[j][1] \in Nat /\ w[n][1] \in Nat /\ w[j][2] \in Nat /\ w[n][2] \in Nat
      BY <1>1
    <2> QED BY <2>1, SMT DEF Precedes
  <1>5. \A j, n \in DOMAIN w : j < n \/ n < j \/ j = n
    BY <1>1, SMT
  <1>6. Once(w)
    BY <1>2, <1>4, <1>5, Zenon DEF Once
  <1>7. InOrderByClient(w)
    BY <1>2, <1>4, Zenon DEF InOrderByClient
  <1> QED BY <1>3, <1>6, <1>7 DEF w

LEMMA FramesInvMeansOrder ==
  ASSUME FramesInv
  PROVE  FramesArriveInOrder
  <1>1. ASSUME NEW c \in Conns
        PROVE  WholeFrames(delivered[c], OnBus) /\ Once(delivered[c])
    <2> DEFINE v == delivered[c]
    <2>1. /\ v \in Seq(Got(kind))
          /\ GotOnce(toClient[c], v, taken, OnHand, client[c].connected)
      BY Zenon DEF FramesInv, GotInv
    <2> HIDE DEF v
    <2>2. \A j \in DOMAIN v :
            kind = "can" => /\ v[j][1] = v[j][2] /\ Len(v[j]) = 3
                            /\ v[j][3] = OnBus(v[j][1])
      BY <2>1, GotIs
    <2>3. WholeFrames(v, OnBus)
      BY <2>2, Zenon DEF WholeFrames
    <2>4. Once(v)
      BY <2>1, Zenon DEF GotOnce, Once
    <2> QED BY <2>3, <2>4 DEF v
  <1>2. server = "listening" => ~shared
    <2>1. server = "listening" => server \in {"down", "listening"}
      OBVIOUS
    <2> QED BY <2>1, Zenon DEF FramesInv, SessionTypes, SlotTypes
  <1>3. ~shared => /\ WholeFrames(onHardware, Typed) /\ Once(onHardware)
                   /\ InOrderByClient(onHardware)
    BY SentInvMeansOrder DEF FramesInv
  <1>4. ~shared => \A c \in Conns : InOrder(delivered[c])
    <2>1. ~shared => \A c \in Conns : OneSession(c)
      BY DEF FramesInv, GotInv
    <2> QED BY <2>1, Zenon DEF OneSession, GotInOrder, InOrder
  <1> QED BY <1>1, <1>2, <1>3, <1>4, Zenon DEF FramesArriveInOrder

\* What the hardware sends reaches clients at most once, and CAN frames whole
\* and with the identifier, its length and the data they had, whatever clients
\* come, are turned away or break off inside a frame.  What clients send does,
\* and in order both ways, as long as no session has begun while the tasks of
\* another one were there, and while the server listens none has: for any
\* number of connections, sends and frames.
THEOREM FramesKeepTheirOrder == BridgeSpec => []FramesArriveInOrder
  <1> DEFINE Inv == CompletionInv /\ CompletionsAreKept /\ FramesInv
  <1>1. BridgeInit => Inv
    <2> SUFFICES ASSUME BridgeInit PROVE Inv
      OBVIOUS
    <2>1. LinkInit
      BY DEF BridgeInit
    <2>2. CompletionInv /\ Forgotten = {} /\ Destroyed = {}
      BY <2>1, CompletionInvHoldsAtFirst
    <2>3. CompletionsAreKept
      BY <2>2, FS_EmptySet, SMT DEF CompletionsAreKept
    <2> QED
      BY <2>1, <2>2, <2>3, SessionTypesHoldAtFirst, SentInvHoldsAtFirst, GotInvHoldsAtFirst
         DEF FramesInv
  <1>2. Inv /\ [BridgeNext]_bridgeVars => Inv'
    <2> SUFFICES ASSUME Inv, [BridgeNext]_bridgeVars PROVE Inv'
      OBVIOUS
    <2>1. CompletionInv' /\ CompletionsAreKept'
      BY BridgeKeepsBooks
    <2>2. CASE LinkNext
      <3>1. SessionTypes' /\ GotInv'
        BY <2>1, <2>2, StepsKeepSessionTypes, StepsKeepGotInv DEF FramesInv
      <3>2. ~shared' => SentInv'
        BY <2>1, <2>2, SharedStays, StepsKeepSentInv DEF FramesInv
      <3> QED BY <2>1, <3>1, <3>2 DEF FramesInv
    <2>3. CASE UNCHANGED linkVars
      BY <2>1, <2>3, OtherPartsKeepFramesInv
    <2>4. LinkNext \/ UNCHANGED linkVars
      BY Zenon DEF BridgeNext, bridgeVars
    <2> QED
      BY <2>1, <2>2, <2>3, <2>4
  <1>3. Inv => FramesArriveInOrder
    BY FramesInvMeansOrder
  <1> QED
    BY <1>1, <1>2, <1>3, PTL DEF BridgeSpec

-----------------------------------------------------------------------------
(* The types of the link: a completion is called at most once, because     *)
(* what a client holds has not been called and no other client holds it.   *)

NewSends == {i \in Items : given < i /\ i <= given'}

CalledOnce ==
    /\ calls \in [Items -> 0 .. 1]
    /\ result \in [Items -> {"none", "ok", "failed"}]
    /\ \A i \in Items : given < i => calls[i] = 0
    /\ \A c \in Conns : \A i \in Pending(c) : i \in Items /\ calls[i] = 0 /\ i <= given
    /\ \A c, d \in Conns : c # d => Pending(c) \cap Pending(d) = {}
    /\ \A c \in Conns : client[c].left \in 0 .. 2

\* A frame a read has got is one of those the hardware received.
ReadsAreFrames ==
    /\ taken \in 0 .. Frames
    /\ \A c \in Conns :
        reading[c] \in {Idle, Blocked} \cup [at : {"done"}, frame : 1 .. Frames]

LEMMA CalledOnceAtFirst == LinkInit => CalledOnce /\ ReadsAreFrames
  <1> SUFFICES ASSUME LinkInit PROVE CalledOnce /\ ReadsAreFrames
    OBVIOUS
  <1>1. /\ client = [c \in Conns |-> NewClient] /\ given = 0
        /\ calls = [i \in Items |-> 0] /\ result = [i \in Items |-> "none"]
        /\ taken = 0 /\ reading = [c \in Conns |-> Idle]
    BY Zenon DEF LinkInit, ClientInit, ServerInit
  <1>2. NewClient.pend = 0 /\ NewClient.queued = 0 /\ NewClient.left = 0
    BY Zenon DEF NewClient
  <1>3. \A c \in Conns : Pending(c) = {} /\ client[c].left = 0
    BY <1>1, <1>2, Zenon DEF Pending
  <1>4. 0 \in 0 .. 1 /\ 0 \in 0 .. 2 /\ 0 \in 0 .. Frames
    BY FramesAssumption, SMT
  <1>5. CalledOnce
    BY <1>1, <1>3, <1>4, Zenon DEF CalledOnce
  <1>6. ReadsAreFrames
    BY <1>1, <1>4, Zenon DEF ReadsAreFrames
  <1> QED BY <1>5, <1>6

\* What a client has held or was just given is held on or called, not both.
LEMMA CalledOrHeld ==
  ASSUME CompletionInv, CompletionInv', CalledOnce, NEW c \in Conns,
         NEW items \in SUBSET (Pending(c) \cup NewSends), NEW how \in {"ok", "failed"},
         \/ Complete(items, how)
         \/ items = {} /\ UNCHANGED <<calls, result>>,
         \A d \in Conns \ {c} : client'[d] = client[d],
         given' \in {given, given + 1},
         Pending(c)' \subseteq (Pending(c) \cup NewSends) \ items,
         client'[c].left \in 0 .. 2
  PROVE  CalledOnce'
  <1>0. given \in Nat /\ given' \in Nat /\ given <= given' /\ Items \subseteq Nat
    BY LinkAssumption, SMT DEF CompletionInv, Items
  <1>1. \A i \in items : i \in Items /\ calls[i] = 0
    BY Zenon DEF CalledOnce, NewSends
  <1>2. \A i \in Items : calls[i] \in 0 .. 1
    BY Zenon DEF CalledOnce
  <1>3. /\ calls' \in [Items -> 0 .. 1]
        /\ \A i \in Items \ items : calls'[i] = calls[i]
    <2>1. CASE Complete(items, how)
      <3>1. calls' = [i \in Items |-> calls[i] + (IF i \in items THEN 1 ELSE 0)]
        BY <2>1, Zenon DEF Complete
      <3>2. \A i \in items : calls[i] + 1 \in 0 .. 1
        BY <1>1, SMT
      <3>3. \A i \in Items : calls[i] + 0 = calls[i]
        BY <1>2, SMT
      <3> QED BY <1>2, <3>1, <3>2, <3>3, Zenon
    <2>2. CASE items = {} /\ UNCHANGED <<calls, result>>
      BY <2>2, Zenon DEF CalledOnce
    <2> QED BY <2>1, <2>2
  <1>4. result' \in [Items -> {"none", "ok", "failed"}]
    <2>1. \A i \in Items : result[i] \in {"none", "ok", "failed"}
      BY Zenon DEF CalledOnce
    <2> QED BY <2>1, Zenon DEF Complete, CalledOnce
  <1>5. \A i \in Items : given' < i => calls'[i] = 0
    <2> SUFFICES ASSUME NEW i \in Items, given' < i PROVE calls'[i] = 0
      BY Zenon
    <2>1. given < i /\ ~(i <= given')
      BY <1>0, SMT
    <2>2. i \notin items
      <3>1. i \notin NewSends
        BY <2>1, Zenon DEF NewSends
      <3>2. i \notin Pending(c)
        <4>1. ASSUME i \in Pending(c) PROVE FALSE
          <5>1. i <= given
            BY <4>1, Zenon DEF CalledOnce
          <5> QED BY <1>0, <2>1, <5>1, SMT
        <4> QED BY <4>1
      <3> QED BY <3>1, <3>2
    <2> QED BY <1>3, <2>1, <2>2, Zenon DEF CalledOnce
  <1>6. \A d \in Conns \ {c} : Pending(d)' = Pending(d)
    BY Zenon DEF Pending
  <1>7. \A d \in Conns \ {c} : Pending(d) \cap items = {} /\ Pending(d) \cap NewSends = {}
    <2> SUFFICES ASSUME NEW d \in Conns \ {c}, NEW i \in Pending(d)
                 PROVE  i \notin items /\ i \notin NewSends
      BY Zenon
    <2>1. i \in Items /\ i <= given
      BY Zenon DEF CalledOnce
    <2>2. i \notin NewSends
      BY <1>0, <2>1, SMT DEF NewSends
    <2>3. i \notin Pending(c)
      BY Zenon DEF CalledOnce
    <2> QED BY <2>2, <2>3
  <1>8. \A d \in Conns : \A i \in Pending(d)' : i \in Items /\ calls'[i] = 0 /\ i <= given'
    <2> SUFFICES ASSUME NEW d \in Conns, NEW i \in Pending(d)'
                 PROVE  i \in Items /\ calls'[i] = 0 /\ i <= given'
      BY Zenon
    <2>1. \A j \in Items : j <= given => j <= given'
      BY <1>0, SMT
    <2>2. ASSUME NEW j \in (Pending(d) \cup NewSends) \ items
          PROVE  j \in Items /\ calls'[j] = 0 /\ j <= given'
      <3>1. j \in Items /\ calls[j] = 0 /\ j <= given'
        BY <2>1, Zenon DEF CalledOnce, NewSends
      <3> QED BY <1>3, <3>1, Zenon
    <2>3. i \in (Pending(d) \cup NewSends) \ items
      BY <1>6, <1>7, Zenon
    <2> QED BY <2>2, <2>3
  <1>9. \A d, e \in Conns : d # e => Pending(d)' \cap Pending(e)' = {}
    <2>1. \A d \in Conns \ {c} : /\ Pending(d)' \cap Pending(c)' = {}
                                /\ Pending(c)' \cap Pending(d)' = {}
      <3> SUFFICES ASSUME NEW d \in Conns \ {c}, NEW i \in Pending(d)
                   PROVE  i \notin Pending(c)'
        BY <1>6, Zenon
      <3>1. i \notin Pending(c) /\ i \notin NewSends
        BY <1>7, Zenon DEF CalledOnce
      <3> QED BY <3>1, Zenon
    <2>2. \A d, e \in Conns \ {c} : d # e => Pending(d)' \cap Pending(e)' = {}
      BY <1>6, Zenon DEF CalledOnce
    <2> QED BY <2>1, <2>2, Zenon
  <1>10. \A d \in Conns : client'[d].left \in 0 .. 2
    BY Zenon DEF CalledOnce
  <1> QED
    BY <1>3, <1>4, <1>5, <1>8, <1>9, <1>10, Zenon DEF CalledOnce

LEMMA CalledOnceReads ==
  ASSUME CalledOnce, UNCHANGED <<client, calls, result, given>>
  PROVE  CalledOnce'
  <1>1. \A c : Pending(c)' = Pending(c)
    BY Zenon DEF Pending
  <1> QED BY <1>1, Zenon DEF CalledOnce

LEMMA FailureIs == Failure \in {"ok", "failed"}
  BY Zenon DEF Failure

LEMMA ClientsCallOnce ==
  ASSUME CompletionInv, CompletionInv', CalledOnce, NEW c \in Conns,
         \/ New(c) \/ ConnectionFailed(c) \/ SendData(c)
         \/ \E n \in 1 .. 2 : SendStreamAvailable(c, n)
         \/ DataReceived(c) \/ Close(c) \/ Detaching(c) \/ Destroy(c)
         \/ ConnectionEstablished(c)
  PROVE  CalledOnce'
  <1>0. /\ client \in [Conns -> Clients] /\ client[c] \in Clients
        /\ client[c].left \in 0 .. 2 /\ HoldsOnePlace(c)
        /\ given \in Nat /\ given' \in Nat
    BY LinkAssumption, SMT DEF CompletionInv, CalledOnce
  <1>00. 0 \in 0 .. 2 /\ 2 \in 0 .. 2 /\ {} \in SUBSET (Pending(c) \cup NewSends)
    BY SMT
  <1>1. CASE New(c)
    BY <1>1, CalledOnceReads, Zenon DEF New, sendVars
  <1>2. ASSUME NEW clear, HandleDisconnected(c, clear) PROVE CalledOnce'
    <2>1. /\ client' = [client EXCEPT ![c] = Disconnected(c, clear)]
          /\ Complete(Pending(c), Failure) /\ given' = given
      BY <1>2, Zenon DEF HandleDisconnected
    <2>2. /\ Disconnected(c, clear).pend = 0 /\ Disconnected(c, clear).queued = 0
          /\ Disconnected(c, clear).left = 0
      BY <1>0, Zenon DEF Disconnected, Clients
    <2>3. client'[c] = Disconnected(c, clear)
          /\ \A d \in Conns \ {c} : client'[d] = client[d]
      BY <1>0, <2>1, Zenon
    <2>4. Pending(c)' = {}
      BY <2>2, <2>3, Zenon DEF Pending
    <2>5. Pending(c) \in SUBSET (Pending(c) \cup NewSends)
      BY Zenon
    <2> QED
      BY <1>00, <2>1, <2>2, <2>3, <2>4, <2>5, FailureIs, CalledOrHeld, Zenon
  <1>3. CASE ConnectionFailed(c) \/ Close(c) \/ Detaching(c)
    BY <1>2, <1>3, Zenon DEF ConnectionFailed, Close, Detaching
  <1>4. CASE Destroy(c)
    <2>1. CASE client[c].handler
      BY <1>2, <1>4, <2>1, Zenon DEF Destroy
    <2>2. CASE ~client[c].handler
      <3>1. client' = [client EXCEPT ![c] = NewClient] /\ UNCHANGED <<given, calls, result>>
        BY <1>4, <2>2, Zenon DEF Destroy, sendVars
      <3>2. client'[c] = NewClient /\ \A d \in Conns \ {c} : client'[d] = client[d]
        BY <1>0, <3>1, Zenon
      <3>3. NewClient.pend = 0 /\ NewClient.queued = 0 /\ NewClient.left = 0
        BY Zenon DEF NewClient
      <3>4. Pending(c)' = {} /\ client'[c].left = 0
        BY <3>2, <3>3, Zenon DEF Pending
      <3> QED
        BY <1>00, <3>1, <3>2, <3>4, FailureIs, CalledOrHeld, Zenon
    <2> QED BY <2>1, <2>2
  <1>5. CASE ConnectionEstablished(c)
    <2> DEFINE l == IF client[c].queued = 0 THEN 0 ELSE 2
               r == [client[c] EXCEPT !.connected = TRUE, !.handler = TRUE,
                       !.queued = 0, !.pend = client[c].queued, !.left = l]
    <2>1. client' = [client EXCEPT ![c] = r] /\ UNCHANGED <<given, calls, result>>
          /\ tcp[c] = "connecting"
      BY <1>5, Zenon DEF ConnectionEstablished, sendVars
    <2>2. r.queued = 0 /\ r.pend = client[c].queued /\ r.left = l /\ l \in 0 .. 2
      BY <1>0, <1>00, Zenon DEF Clients
    <2>3. client[c].pend = 0
      BY <1>0, <2>1, Zenon DEF HoldsOnePlace
    <2> HIDE DEF r, l
    <2>4. client'[c] = r /\ \A d \in Conns \ {c} : client'[d] = client[d]
      BY <1>0, <2>1, Zenon
    <2>5. Pending(c)' \subseteq (Pending(c) \cup NewSends) \ {}
      BY <2>2, <2>3, <2>4, Zenon DEF Pending
    <2> QED
      BY <1>00, <2>1, <2>2, <2>4, <2>5, FailureIs, CalledOrHeld, Zenon
  <1>6. CASE SendData(c)
    <2> DEFINE i == given + 1
    <2>1. i \in Items /\ given' = i /\ i \in NewSends /\ i # 0 /\ i \notin Pending(c)
          /\ given' \in {given, given + 1}
      <3>1. i \in Items /\ given' = i
        BY <1>6, Zenon DEF SendData
      <3>2. given < i /\ i <= i /\ i # 0 /\ ~(i <= given)
        BY <1>0, SMT
      <3> QED BY <3>1, <3>2, Zenon DEF NewSends, CalledOnce
    <2> HIDE DEF i
    <2>2. ASSUME client' = client, Complete({i}, Failure) PROVE CalledOnce'
      <3>1. Pending(c)' = Pending(c) /\ client'[c].left \in 0 .. 2
        BY <1>0, <2>2, Zenon DEF Pending
      <3>2. {i} \in SUBSET (Pending(c) \cup NewSends)
            /\ Pending(c)' \subseteq (Pending(c) \cup NewSends) \ {i}
        BY <2>1, <3>1, Zenon
      <3> QED
        BY <2>1, <2>2, <3>1, <3>2, FailureIs, CalledOrHeld, Zenon
    <2>3. CASE client[c].connected
      <3>1. PICK room \in BOOLEAN : RequestSend(c, i, room)
        BY <1>6, <2>3, Zenon DEF SendData, i
      <3>2. CASE client[c].pend = 0 /\ room
        <4> DEFINE r == [client[c] EXCEPT !.pend = i, !.left = 2]
        <4>1. client' = [client EXCEPT ![c] = r] /\ Complete({}, Failure)
          BY <1>0, <3>1, <3>2, Zenon DEF RequestSend, Clients
        <4>2. r.pend = i /\ r.left = 2 /\ r.queued = client[c].queued
          BY <1>0, Zenon DEF Clients
        <4> HIDE DEF r
        <4>3. client'[c] = r /\ \A d \in Conns \ {c} : client'[d] = client[d]
          BY <1>0, <4>1, Zenon
        <4>4. Pending(c)' \subseteq (Pending(c) \cup NewSends) \ {}
              /\ client'[c].left \in 0 .. 2
          BY <1>00, <2>1, <4>2, <4>3, Zenon DEF Pending
        <4> QED
          BY <1>00, <2>1, <4>1, <4>3, <4>4, FailureIs, CalledOrHeld, Zenon
      <3>3. CASE ~(client[c].pend = 0 /\ room)
        BY <2>2, <3>1, <3>3, Zenon DEF RequestSend
      <3> QED BY <3>2, <3>3
    <2>4. CASE ~client[c].connected /\ kind = "serial"
      <3> DEFINE r == [client[c] EXCEPT !.queued = i]
                 items == {client[c].queued} \ {0}
      <3>1. client' = [client EXCEPT ![c] = r] /\ Complete(items, Failure)
        BY <1>6, <2>4, Zenon DEF SendData, Queue, i
      <3>2. r.pend = 0 /\ r.left \in 0 .. 2 /\ r.queued = i
        BY <1>0, <2>4, Zenon DEF Clients, HoldsOnePlace
      <3> HIDE DEF r
      <3>3. client'[c] = r /\ \A d \in Conns \ {c} : client'[d] = client[d]
        BY <1>0, <3>1, Zenon
      <3>4. Pending(c)' \subseteq (Pending(c) \cup NewSends) \ items
            /\ items \in SUBSET (Pending(c) \cup NewSends)
            /\ client'[c].left \in 0 .. 2
        BY <2>1, <3>2, <3>3, Zenon DEF Pending
      <3> HIDE DEF items
      <3> QED
        BY <2>1, <3>1, <3>3, <3>4, FailureIs, CalledOrHeld, Zenon
    <2>5. CASE ~client[c].connected /\ kind # "serial"
      BY <1>6, <2>2, <2>5, Zenon DEF SendData, i
    <2> QED BY <2>3, <2>4, <2>5
  <1>7. ASSUME NEW n \in 1 .. 2, SendStreamAvailable(c, n) PROVE CalledOnce'
    <2> DEFINE i == client[c].pend
               items == IF n = client[c].left THEN {i} ELSE {}
               p == IF n = client[c].left THEN 0 ELSE i
               m == client[c].left - n
               r == [client[c] EXCEPT !.left = m, !.pend = p]
    <2>1. /\ n \in 1 .. client[c].left /\ i # 0
          /\ client' = [client EXCEPT ![c] = r] /\ Complete(items, "ok")
          /\ given' = given
      BY <1>7, Zenon DEF SendStreamAvailable
    <2>2. m \in 0 .. 2
      BY <1>0, <2>1, SMT
    <2>3. r.pend = p /\ r.left = m /\ r.queued = client[c].queued
      BY <1>0, Zenon DEF Clients
    <2>0. client[c].queued = 0
      BY <1>0, <1>7, Zenon DEF SendStreamAvailable, HoldsOnePlace
    <2>4. items \in SUBSET {i} /\ {p} \ {0} \subseteq {i} \ items
      BY Zenon
    <2>5. i \in Pending(c)
      BY <2>1, Zenon DEF Pending
    <2> HIDE DEF i, items, p, m, r
    <2>6. client'[c] = r /\ \A d \in Conns \ {c} : client'[d] = client[d]
      BY <1>0, <2>1, Zenon
    <2>7. Pending(c)' = {p, 0} \ {0}
      BY <2>0, <2>3, <2>6, Zenon DEF Pending
    <2>8. Pending(c)' \subseteq (Pending(c) \cup NewSends) \ items
          /\ items \in SUBSET (Pending(c) \cup NewSends)
      BY <2>4, <2>5, <2>7, Zenon
    <2>9. client'[c].left \in 0 .. 2 /\ "ok" \in {"ok", "failed"}
          /\ given' \in {given, given + 1}
      BY <2>1, <2>2, <2>3, <2>6, Zenon
    <2> QED
      BY <2>1, <2>6, <2>8, <2>9, CalledOrHeld, Zenon
  <1>8. CASE DataReceived(c)
    <2>1. PICK h : client' = [client EXCEPT ![c] = [client[c] EXCEPT !.half = h]]
      BY <1>0, <1>8, Zenon DEF DataReceived
    <2> DEFINE r == [client[c] EXCEPT !.half = h]
    <2>2. r.pend = client[c].pend /\ r.queued = client[c].queued
          /\ r.left = client[c].left
      BY <1>0, Zenon DEF Clients
    <2>0. client' = [client EXCEPT ![c] = r]
      BY <2>1
    <2> HIDE DEF r
    <2>3. client'[c] = r /\ \A d \in Conns \ {c} : client'[d] = client[d]
      BY <1>0, <2>0, Zenon
    <2>4. Pending(c)' \subseteq (Pending(c) \cup NewSends) \ {}
          /\ client'[c].left \in 0 .. 2
      BY <1>0, <2>2, <2>3, Zenon DEF Pending
    <2>5. UNCHANGED <<given, calls, result>>
      BY <1>8, Zenon DEF DataReceived, sendVars
    <2> QED
      BY <1>00, <2>3, <2>4, <2>5, FailureIs, CalledOrHeld, Zenon
  <1> QED
    BY <1>1, <1>3, <1>4, <1>5, <1>6, <1>7, <1>8, Zenon

LEMMA LinkCallsOnce ==
  ASSUME CompletionInv, CompletionInv', CalledOnce, LinkNext
  PROVE  CalledOnce'
  <1>1. CASE ClientNext
    BY <1>1, ClientsCallOnce, Zenon DEF ClientNext
  <1>2. ASSUME NEW c \in Conns, Accept(c) PROVE CalledOnce'
    BY <1>2, ClientsCallOnce, Zenon DEF Accept
  <1>3. ASSUME NEW c \in Conns,
               \/ HandleClient(c) \/ Recv(c) \/ ToClient(c) \/ RecvTimeout(c)
               \/ Read(c) \/ ReadAgain(c) \/ ToHardware(c) \/ SessionFails(c)
               \/ CloseSession(c)
        PROVE  CalledOnce'
    BY <1>3, CalledOnceReads, Zenon DEF HandleClient, Recv, ToClient, RecvTimeout, Read,
       ReadAgain, ToHardware, SessionFails, CloseSession, KeepSession, clientVars, sendVars
  <1>4. CASE Start \/ StopWriter \/ StopHardware
    BY <1>4, CalledOnceReads, Zenon DEF Start, StopWriter, StopHardware, KeepSession,
       clientVars, sendVars
  <1> QED BY <1>1, <1>2, <1>3, <1>4, Zenon DEF LinkNext, ServerNext

LEMMA LinkKeepsReads ==
  ASSUME CompletionInv, ReadsAreFrames, LinkNext
  PROVE  ReadsAreFrames'
  <1>1. CASE UNCHANGED <<taken, reading>>
    BY <1>1, Zenon DEF ReadsAreFrames
  <1>2. CASE ClientNext /\ UNCHANGED serverVars
    BY <1>1, <1>2, Zenon DEF serverVars
  <1>3. CASE Start \/ StopWriter \/ StopHardware
    BY <1>1, <1>3, Zenon DEF Start, StopWriter, StopHardware
  <1>0. reading \in [Conns -> Reads]
    BY Zenon DEF CompletionInv, WireTypes
  <1>4. ASSUME NEW c \in Conns,
               \/ Accept(c) \/ Read(c) \/ ReadAgain(c) \/ ToHardware(c)
               \/ SessionFails(c) \/ CloseSession(c)
        PROVE  ReadsAreFrames'
    BY <1>1, <1>4, Zenon DEF Accept, serverVars, Read, ReadAgain, ToHardware, SessionFails,
       CloseSession
  <1>5. ASSUME NEW c \in Conns, HandleClient(c) \/ RecvTimeout(c) \/ ToClient(c)
        PROVE  ReadsAreFrames'
    <2>1. taken' = taken
          /\ \/ reading' = reading
             \/ \E r \in {Idle, Blocked} : reading' = [reading EXCEPT ![c] = r]
      BY <1>5, Zenon DEF HandleClient, RecvTimeout, ToClient
    <2> QED BY <1>0, <2>1, Zenon DEF ReadsAreFrames
  <1>6. ASSUME NEW c \in Conns, Recv(c) PROVE ReadsAreFrames'
    <2>1. taken' = taken + 1 /\ taken < Frames
          /\ reading' = [reading EXCEPT ![c] = [at |-> "done", frame |-> taken']]
      BY <1>6, Zenon DEF Recv
    <2>2. taken' \in 0 .. Frames /\ taken' \in 1 .. Frames
      BY <2>1, FramesAssumption, SMT DEF ReadsAreFrames
    <2>3. [at |-> "done", frame |-> taken'] \in [at : {"done"}, frame : 1 .. Frames]
      BY <2>2, Zenon
    <2> QED BY <1>0, <2>1, <2>2, <2>3, Zenon DEF ReadsAreFrames
  <1> QED
    BY <1>2, <1>3, <1>4, <1>5, <1>6, Zenon DEF LinkNext, ServerNext

LEMMA LinkTypesAre ==
  ASSUME CompletionInv, SessionTypes, CalledOnce, ReadsAreFrames
  PROVE  LinkTypeOK
  <1>1. \A c \in Conns :
          /\ client[c].pend \in Items \cup {0} /\ client[c].left \in 0 .. 2
          /\ client[c].connected => client[c].handler
    <2> SUFFICES ASSUME NEW c \in Conns
                 PROVE  /\ client[c].pend \in Items \cup {0} /\ client[c].left \in 0 .. 2
                        /\ client[c].connected => client[c].handler
      BY Zenon
    <2>1. client[c].pend \in 0 .. MaxItems
      BY Zenon DEF CompletionInv, Clients
    <2>2. client[c].pend \in Items \cup {0}
      BY <2>1, LinkAssumption, SMT DEF Items
    <2> QED BY <2>2, Zenon DEF CompletionInv, HoldsOnePlace, CalledOnce
  <1>2. tcp \in [Conns -> {"none", "connecting", "open", "shut", "detached", "destroyed"}]
    BY Zenon DEF CompletionInv, Phases
  <1>3. ClientTypeOK
    BY <1>1, <1>2, Zenon DEF ClientTypeOK, SessionTypes, CalledOnce
  <1> QED
    BY <1>3, Zenon DEF LinkTypeOK, SessionTypes, SlotTypes, ReadsAreFrames

-----------------------------------------------------------------------------
(* The types of the whole bridge.                                          *)

LEMMA StyledAgrees ==
  ASSUME NEW s, NEW x, Agree(x, s), NEW r \in Renditions
  PROVE  /\ Agree([x EXCEPT !.rendition = r], s)
         /\ Agree([x EXCEPT !.saved = r], s)
  <1>1. x \in Grids /\ Marked(x.grid, s.text) /\ Len(x.history) = s.history
    BY DEF Agree
  <1>2. /\ [x EXCEPT !.rendition = r] \in Grids
        /\ [x EXCEPT !.rendition = r].grid = x.grid
        /\ [x EXCEPT !.rendition = r].history = x.history
    BY <1>1, Zenon DEF Grids
  <1>3. /\ [x EXCEPT !.saved = r] \in Grids
        /\ [x EXCEPT !.saved = r].grid = x.grid
        /\ [x EXCEPT !.saved = r].history = x.history
    BY <1>1, Zenon DEF Grids
  <1> QED BY <1>1, <1>2, <1>3, Zenon DEF Agree

\* What leaves the cells as they are.
LEMMA CursorKeepsText ==
  ASSUME NEW s \in ScreenType
  PROVE  /\ CarriageReturn(s).text = s.text /\ CarriageReturn(s).history = s.history
         /\ Save(s).text = s.text /\ Save(s).history = s.history
         /\ Restore(s).text = s.text /\ Restore(s).history = s.history
         /\ \A n, m : /\ MoveTo(s, n, m).text = s.text
                      /\ MoveTo(s, n, m).history = s.history
                      /\ SetScrollRegion(s, n, m).text = s.text
                      /\ SetScrollRegion(s, n, m).history = s.history
  <1>1. /\ CarriageReturn(s).text = s.text /\ CarriageReturn(s).history = s.history
        /\ Save(s).text = s.text /\ Save(s).history = s.history
        /\ Restore(s).text = s.text /\ Restore(s).history = s.history
    BY Zenon DEF CarriageReturn, Save, Restore, ScreenType
  <1>2. ASSUME NEW n, NEW m
        PROVE  MoveTo(s, n, m).text = s.text /\ MoveTo(s, n, m).history = s.history
    BY Zenon DEF MoveTo, Settled, ScreenType
  <1>3. ASSUME NEW n, NEW m
        PROVE  /\ SetScrollRegion(s, n, m).text = s.text
               /\ SetScrollRegion(s, n, m).history = s.history
    BY Zenon DEF SetScrollRegion, ScreenType
  <1> QED BY <1>1, <1>2, <1>3, Zenon

LEMMA LineFeedAgrees ==
  ASSUME NEW s \in ScreenType, NEW x, Agree(x, s)
  PROVE  Agree(IndexCells(x, s), LineFeed(s))
  <1>1. Agree(IndexCells(x, s), Index(s)) /\ Index(s) \in ScreenType
    BY IndexAgrees, MovesAreSound DEF Sound
  <1>2. Agree(IndexCells(x, s), NextLine(s))
    BY <1>1, CursorKeepsText, AgreeReads DEF NextLine
  <1> QED BY <1>1, <1>2 DEF LineFeed

-----------------------------------------------------------------------------
(* The look each character was asked for.                                  *)

\* Every cell, of the screen and of the scrollback, is one of S.
Holds(x, S) == x.grid \in [Row -> [Col -> S]] /\ x.history \in Seq([Col -> S])

\* The cells that have the look asked for when they were drawn.
Fitting(asked) ==
    {k \in Cells : k.char # 0 => k.char \in DOMAIN asked /\ asked[k.char] = k.rendition}

\* The cells an operation leaves behind are cells from before and those it
\* makes: the blank, and the one it writes.
MadeFrom(x, y, S) ==
    Holds(y, S) /\ y.rendition = x.rendition /\ y.saved = x.saved

LEMMA AppendIs ==
  ASSUME NEW S, NEW s \in Seq(S), NEW x \in S
  PROVE  /\ Append(s, x) \in Seq(S) /\ Len(Append(s, x)) = Len(s) + 1
         /\ DOMAIN Append(s, x) = (DOMAIN s) \cup {Len(s) + 1}
         /\ \A n \in DOMAIN s : Append(s, x)[n] = s[n]
         /\ Append(s, x)[Len(s) + 1] = x
  <1> DEFINE t == Append(s, x)
  <1>1. t = Append(s, x)
    OBVIOUS
  <1> HIDE DEF t
  <1>2. /\ t \in Seq(S) /\ Len(t) = Len(s) + 1 /\ DOMAIN t = (DOMAIN s) \cup {Len(s) + 1}
        /\ \A n \in DOMAIN s : t[n] = s[n]
        /\ t[Len(s) + 1] = x
    BY <1>1, OneMore
  <1> QED BY <1>1, <1>2, Zenon

LEMMA HoldsMore ==
  ASSUME NEW x, NEW S, NEW T, S \subseteq T, Holds(x, S)
  PROVE  Holds(x, T)
  <1>1. [Col -> S] \subseteq [Col -> T]
    OBVIOUS
  <1> DEFINE R == [Col -> S]
             Q == [Col -> T]
  <1>2. x.history \in Seq(R) /\ x.grid \in [Row -> R] /\ R \subseteq Q
    BY <1>1 DEF Holds
  <1> HIDE DEF R, Q
  <1>3. x.history \in Seq(Q) /\ x.grid \in [Row -> Q]
    BY <1>2, SMT
  <1> QED BY <1>3 DEF Holds, Q

LEMMA Remade ==
  ASSUME NEW x \in Grids, NEW S, Holds(x, S),
         NEW g \in [Row -> [Col -> S]], NEW h \in Seq([Col -> S])
  PROVE  /\ MadeFrom(x, [x EXCEPT !.grid = g], S)
         /\ MadeFrom(x, [x EXCEPT !.history = h], S)
         /\ MadeFrom(x, [x EXCEPT !.grid = g, !.history = h], S)
  <1> DEFINE y == [x EXCEPT !.grid = g]
             z == [x EXCEPT !.history = h]
             w == [x EXCEPT !.grid = g, !.history = h]
  <1>1. /\ y.grid = g /\ y.history = x.history /\ y.rendition = x.rendition
        /\ y.saved = x.saved
        /\ z.grid = x.grid /\ z.history = h /\ z.rendition = x.rendition
        /\ z.saved = x.saved
        /\ w.grid = g /\ w.history = h /\ w.rendition = x.rendition
        /\ w.saved = x.saved
    BY Zenon DEF Grids
  <1> HIDE DEF y, z, w
  <1>2. MadeFrom(x, y, S) /\ MadeFrom(x, z, S) /\ MadeFrom(x, w, S)
    BY <1>1, Zenon DEF MadeFrom, Holds
  <1> QED BY <1>2 DEF y, z, w

LEMMA BlankRowHolds ==
  ASSUME NEW x, NEW S, Blank(x) \in S
  PROVE  BlankRow(x) \in [Col -> S]
  BY Zenon DEF BlankRow

LEMMA IndexMakes ==
  ASSUME NEW s \in ScreenType, NEW x \in Grids, NEW S, Holds(x, S), Blank(x) \in S
  PROVE  MadeFrom(x, IndexCells(x, s), S)
  <1>1. CASE s.row # s.bottom
    BY <1>1, Zenon DEF IndexCells, MadeFrom
  <1>2. CASE s.row = s.bottom
    <2> DEFINE R == [Col -> S]
               row(r) == IF ~InRegion(s, r) THEN x.grid[r]
                         ELSE IF r = s.bottom THEN BlankRow(x) ELSE x.grid[r + 1]
               g == [r \in Row |-> row(r)]
               a == Append(x.history, x.grid[0])
               h == IF WholeScreen(s) THEN LastOf(a) ELSE x.history
    <2>1. IndexCells(x, s) = [x EXCEPT !.grid = g, !.history = h]
      BY <1>2, Zenon DEF IndexCells, ScrollCellsUp
    <2>2. x.grid \in [Row -> R] /\ x.history \in Seq(R) /\ BlankRow(x) \in R
      BY BlankRowHolds DEF Holds
    <2>3. \A r \in Row : InRegion(s, r) /\ r # s.bottom => r + 1 \in Row
      <3>1. s.bottom \in Row
        BY FieldsAre
      <3> QED BY <3>1, ScreenAssumption, SMT DEF InRegion, Row
    <2> HIDE DEF R
    <2>4. \A r \in Row : row(r) \in R
      BY <2>2, <2>3, Zenon
    <2> HIDE DEF row
    <2>5. g \in [Row -> R]
      BY <2>4, Zenon
    <2>6. h \in Seq(R)
      <3>1. x.grid[0] \in R
        BY <2>2, Bounds, Zenon
      <3>2. a \in Seq(R)
        BY <2>2, <3>1, AppendIs, Zenon
      <3> HIDE DEF a
      <3>3. LastOf(a) \in Seq(R)
        BY <3>2, LastOfIs
      <3> QED BY <2>2, <3>3, Zenon
    <2> HIDE DEF g, h
    <2>7. g \in [Row -> [Col -> S]] /\ h \in Seq([Col -> S])
      BY <2>5, <2>6 DEF R
    <2>8. MadeFrom(x, [x EXCEPT !.grid = g, !.history = h], S)
      BY <2>7, Remade
    <2> QED BY <2>1, <2>8
  <1> QED BY <1>1, <1>2

LEMMA ReverseIndexMakes ==
  ASSUME NEW s \in ScreenType, NEW x \in Grids, NEW S, Holds(x, S), Blank(x) \in S
  PROVE  MadeFrom(x, ReverseIndexCells(x, s), S)
  <1>1. CASE s.row # s.top
    BY <1>1, Zenon DEF ReverseIndexCells, MadeFrom
  <1>2. CASE s.row = s.top
    <2> DEFINE R == [Col -> S]
               row(r) == IF ~InRegion(s, r) THEN x.grid[r]
                         ELSE IF r = s.top THEN BlankRow(x) ELSE x.grid[r - 1]
               g == [r \in Row |-> row(r)]
    <2>1. ReverseIndexCells(x, s) = [x EXCEPT !.grid = g]
      BY <1>2, Zenon DEF ReverseIndexCells, ScrollCellsDown
    <2>2. x.grid \in [Row -> R] /\ x.history \in Seq(R) /\ BlankRow(x) \in R
      BY BlankRowHolds DEF Holds
    <2>3. \A r \in Row : InRegion(s, r) /\ r # s.top => r - 1 \in Row
      <3>1. s.top \in Row
        BY FieldsAre
      <3> QED BY <3>1, ScreenAssumption, SMT DEF InRegion, Row
    <2> HIDE DEF R
    <2>4. \A r \in Row : row(r) \in R
      BY <2>2, <2>3, Zenon
    <2> HIDE DEF row
    <2>5. g \in [Row -> R]
      BY <2>4, Zenon
    <2> HIDE DEF g
    <2>6. g \in [Row -> [Col -> S]] /\ x.history \in Seq([Col -> S])
      BY <2>2, <2>5 DEF R
    <2> QED BY <2>1, <2>6, Remade, ZenonT(40)
  <1> QED BY <1>1, <1>2

LEMMA EraseMakes ==
  ASSUME NEW x \in Grids, NEW S, Holds(x, S), Blank(x) \in S
  PROVE  /\ \A places : MadeFrom(x, EraseCells(x, places), S)
         /\ \A s, mode : /\ MadeFrom(x, EraseLineCells(x, s, mode), S)
                         /\ MadeFrom(x, EraseDisplayCells(x, s, mode), S)
  <1>0. x.grid \in [Row -> [Col -> S]] /\ x.history \in Seq([Col -> S])
    BY DEF Holds
  <1>1. ASSUME NEW places
        PROVE  EraseCells(x, places) \in Grids /\ MadeFrom(x, EraseCells(x, places), S)
    <2> DEFINE g == [r \in Row |-> [c \in Col |-> IF <<r, c>> \in places THEN Blank(x)
                                                  ELSE x.grid[r][c]]]
    <2>1. EraseCells(x, places) = [x EXCEPT !.grid = g]
      BY Zenon DEF EraseCells
    <2>2. g \in [Row -> [Col -> S]]
      BY <1>0, Zenon
    <2>3. g \in [Row -> [Col -> Cells]]
      <3>1. Blank(x) \in Cells /\ x.grid \in [Row -> [Col -> Cells]]
        BY GridsAre, BlanksAre
      <3> QED BY <3>1, Zenon
    <2> HIDE DEF g
    <2>4. [x EXCEPT !.grid = g] \in Grids
      BY <2>3, GridIs
    <2> QED BY <1>0, <2>1, <2>2, <2>4, Remade, ZenonT(40)
  <1>2. ASSUME NEW s, NEW mode PROVE MadeFrom(x, EraseLineCells(x, s, mode), S)
    BY <1>1, Zenon DEF EraseLineCells
  <1>3. ASSUME NEW s, NEW mode PROVE MadeFrom(x, EraseDisplayCells(x, s, mode), S)
    <2>1. PICK places :
            EraseDisplayCells(x, s, mode)
              = [EraseCells(x, places) EXCEPT !.history = IF mode = 3 THEN <<>> ELSE @]
      BY Zenon DEF EraseDisplayCells
    <2> DEFINE y == EraseCells(x, places)
               h == IF mode = 3 THEN <<>> ELSE y.history
    <2>2. EraseDisplayCells(x, s, mode) = [y EXCEPT !.history = h]
      BY <2>1
    <2>3. y \in Grids /\ MadeFrom(x, y, S)
      BY <1>1
    <2> HIDE DEF y
    <2>4. h \in Seq([Col -> S])
      <3>1. <<>> \in Seq([Col -> S])
        BY EmptySeq
      <3>2. y.history \in Seq([Col -> S])
        BY <2>3 DEF MadeFrom, Holds
      <3> QED BY <3>1, <3>2, Zenon
    <2> HIDE DEF h
    <2>5. Holds(y, S) /\ y.grid \in [Row -> [Col -> S]]
      BY <2>3 DEF MadeFrom, Holds
    <2>6. MadeFrom(y, [y EXCEPT !.history = h], S)
      BY <2>3, <2>4, <2>5, Remade
    <2> QED BY <2>2, <2>3, <2>6, Zenon DEF MadeFrom
  <1> QED BY <1>1, <1>2, <1>3, Zenon

\* What is written is the character in the rendition of the moment.
LEMMA WriteMakes ==
  ASSUME NEW s \in ScreenType, NEW x, Agree(x, s), NEW S, Holds(x, S), Blank(x) \in S,
         NEW char, [char |-> char, rendition |-> x.rendition] \in S
  PROVE  /\ MadeFrom(x, WriteCell(x, s, char), S)
         /\ MadeFrom(x, FillCells(x, char), S)
  <1> DEFINE k == [char |-> char, rendition |-> x.rendition]
             wraps == s.wrap /\ s.autoWrap
             at == IF wraps THEN Index(CarriageReturn(s)) ELSE s
             y == IF wraps THEN IndexCells(x, s) ELSE x
             g == [y.grid EXCEPT ![at.row][at.col] = k]
             f == [r \in Row |-> [c \in Col |-> k]]
  <1>1. x \in Grids /\ k \in S
    BY DEF Agree
  <1>2. y \in Grids /\ MadeFrom(x, y, S)
    <2>1. MadeFrom(x, x, S) /\ MadeFrom(x, IndexCells(x, s), S)
      BY <1>1, IndexMakes, Zenon DEF MadeFrom
    <2>2. IndexCells(x, s) \in Grids
      BY IndexAgrees DEF Agree
    <2> QED BY <1>1, <2>1, <2>2, Zenon
  <1>3. WriteCell(x, s, char) = [y EXCEPT !.grid = g]
    BY Zenon DEF WriteCell
  <1>4. FillCells(x, char) = [x EXCEPT !.grid = f]
    BY Zenon DEF FillCells
  <1> HIDE DEF k, y, at
  <1>5. g \in [Row -> [Col -> S]]
    <2>1. y.grid \in [Row -> [Col -> S]]
      BY <1>2 DEF MadeFrom, Holds
    <2> QED BY <1>1, <2>1
  <1>6. f \in [Row -> [Col -> S]]
    BY <1>1, Zenon
  <1> HIDE DEF g, f
  <1>7. MadeFrom(x, WriteCell(x, s, char), S)
    <2>1. Holds(y, S) /\ y.history \in Seq([Col -> S])
      BY <1>2 DEF MadeFrom, Holds
    <2>2. MadeFrom(y, [y EXCEPT !.grid = g], S)
      BY <1>2, <1>5, <2>1, Remade
    <2> QED BY <1>2, <1>3, <2>2, Zenon DEF MadeFrom
  <1>8. MadeFrom(x, FillCells(x, char), S)
    <2>1. x.history \in Seq([Col -> S])
      BY DEF Holds
    <2> QED BY <1>1, <1>4, <1>6, <2>1, Remade, ZenonT(40)
  <1> QED BY <1>7, <1>8

LEMMA BlanksMake ==
  ASSUME NEW S, [char |-> 0, rendition |-> Plain] \in S
  PROVE  Holds(BlankCells, S) /\ BlankCells.rendition = Plain /\ BlankCells.saved = Plain
  <1> DEFINE p == [rendition |-> Plain]
             g == [r \in Row |-> BlankRow(p)]
  <1>1. BlankCells = [grid |-> g, history |-> <<>>, rendition |-> Plain, saved |-> Plain]
    BY Zenon DEF BlankCells
  <1>2. Blank(p) = [char |-> 0, rendition |-> Plain]
    BY Zenon DEF Blank
  <1> HIDE DEF p
  <1>3. BlankRow(p) \in [Col -> S]
    BY <1>2, BlankRowHolds
  <1>4. g \in [Row -> [Col -> S]] /\ <<>> \in Seq([Col -> S])
    BY <1>3, EmptySeq
  <1> HIDE DEF g
  <1> QED BY <1>1, <1>4, Zenon DEF Holds

\* The sender's pen is the terminal's, and each cell has the look asked for.
LooksKept ==
    /\ looks \in Seq(Renditions) /\ Len(looks) = drawn
    /\ pen \in [now : Renditions, saved : Renditions]
    /\ pen.now = cells.rendition /\ pen.saved = cells.saved
    /\ Holds(cells, Fitting(looks))

\* The cells a drawing event can leave: one more look has been asked for.
LEMMA OneMoreLook ==
  ASSUME LooksKept, NEW p, NEW x, Coloured(x, p)
  PROVE  /\ looks' \in Seq(Renditions) /\ Len(looks') = drawn'
         /\ Holds(cells, Fitting(looks'))
         /\ Blank(cells) \in Fitting(looks')
         /\ [char |-> 0, rendition |-> Plain] \in Fitting(looks')
         /\ [char |-> drawn + 1, rendition |-> cells.rendition] \in Fitting(looks')
         /\ drawn + 1 \in Nat
  <1> DEFINE k == [char |-> drawn + 1, rendition |-> cells.rendition]
  <1>1. /\ looks \in Seq(Renditions) /\ Len(looks) = drawn /\ pen.now \in Renditions
        /\ pen.now = cells.rendition /\ Holds(cells, Fitting(looks))
    BY Zenon DEF LooksKept
  <1>2. looks' = Append(looks, pen.now) /\ drawn' = drawn + 1
    BY DEF Coloured
  <1>3. /\ looks' \in Seq(Renditions) /\ Len(looks') = drawn + 1
        /\ DOMAIN looks' = (DOMAIN looks) \cup {drawn + 1}
        /\ \A n \in DOMAIN looks : looks'[n] = looks[n]
        /\ looks'[drawn + 1] = pen.now
    BY <1>1, <1>2, AppendIs
  <1>4. drawn \in Nat /\ drawn + 1 \in Nat
    <2>1. Len(looks) \in Nat
      BY <1>1, DomainIs
    <2> QED BY <1>1, <2>1, SMT
  <1>5. Fitting(looks) \subseteq Fitting(looks')
    BY <1>3, Zenon DEF Fitting
  <1>6. Holds(cells, Fitting(looks'))
    BY <1>1, <1>5, HoldsMore
  <1>7. \A r \in Renditions : [char |-> 0, rendition |-> r] \in Fitting(looks')
    <2>1. 0 \in Nat
      OBVIOUS
    <2> QED BY <2>1, CellIs, Zenon DEF Fitting
  <1>8. Blank(cells) \in Fitting(looks') /\ [char |-> 0, rendition |-> Plain] \in Fitting(looks')
    BY <1>1, <1>7, PlainIsARendition, Zenon DEF Blank
  <1>9. k \in Cells /\ k.char = drawn + 1 /\ k.rendition = cells.rendition
    BY <1>1, <1>4, CellIs, Zenon
  <1> HIDE DEF k
  <1>10. k \in Fitting(looks')
    BY <1>1, <1>3, <1>9, Zenon DEF Fitting
  <1> QED BY <1>2, <1>3, <1>4, <1>6, <1>8, <1>10 DEF k

\* An operation that leaves the pen alone.
LEMMA SamePen ==
  ASSUME LooksKept, NEW x, Colours(x), MadeFrom(cells, x, Fitting(looks'))
  PROVE  LooksKept'
  <1>1. Coloured(x, pen) /\ cells' = x /\ pen' = pen
    BY Zenon DEF Colours, Coloured
  <1>2. looks' \in Seq(Renditions) /\ Len(looks') = drawn'
    BY <1>1, OneMoreLook
  <1> QED BY <1>1, <1>2, Zenon DEF LooksKept, MadeFrom

\* An operation that changes the pen, or resets it, and no cell.
LEMMA OtherPen ==
  ASSUME LooksKept, NEW x, NEW p \in [now : Renditions, saved : Renditions],
         Coloured(x, p), Holds(x, Fitting(looks')),
         x.rendition = p.now, x.saved = p.saved
  PROVE  LooksKept'
  <1>1. cells' = x /\ pen' = p
    BY Zenon DEF Coloured
  <1>2. looks' \in Seq(Renditions) /\ Len(looks') = drawn'
    BY OneMoreLook
  <1> QED BY <1>1, <1>2, Zenon DEF LooksKept

LEMMA ResetKeepsLooks ==
  ASSUME LooksKept, Coloured(BlankCells, AllPlain)
  PROVE  LooksKept'
  <1>1. [char |-> 0, rendition |-> Plain] \in Fitting(looks')
    BY OneMoreLook
  <1>2. /\ AllPlain \in [now : Renditions, saved : Renditions]
        /\ AllPlain.now = Plain /\ AllPlain.saved = Plain
    BY PlainIsARendition, Zenon DEF AllPlain
  <1> QED BY <1>1, <1>2, BlanksMake, OtherPen, Zenon

\* The cells themselves, with their rendition and the saved one changed.
LEMMA StyledHolds ==
  ASSUME NEW x \in Grids, NEW S, Holds(x, S)
  PROVE  \A r : /\ Holds([x EXCEPT !.rendition = r], S)
                /\ [x EXCEPT !.rendition = r].rendition = r
                /\ [x EXCEPT !.rendition = r].saved = x.saved
                /\ Holds([x EXCEPT !.saved = r], S)
                /\ [x EXCEPT !.saved = r].rendition = x.rendition
                /\ [x EXCEPT !.saved = r].saved = r
  BY Zenon DEF Holds, Grids

\* While renditions are followed the cells go with the screen, no sum leaves
\* int, and nothing is followed otherwise.
CellsAsAsked ==
    ~overflowed /\ screen \in ScreenType /\ Agree(cells, screen) /\ LooksKept

CellsInv ==
    /\ drawn \in 0 .. MaxDrawn
    /\ part # "cells" => drawn = 0
    /\ part = "cells" => CellsAsAsked

LEMMA EscKeepsCells ==
  ASSUME CellsAsAsked, DrawEsc
  PROVE  Agree(cells', screen') /\ LooksKept' /\ ~overflowed'
  <1>0. /\ screen \in ScreenType /\ Agree(cells, screen) /\ LooksKept /\ cells \in Grids
        /\ cells.rendition \in Renditions /\ cells.saved \in Renditions
        /\ ~overflowed
    BY GridsAre DEF Agree, CellsAsAsked
  <1>p. /\ [pen EXCEPT !.saved = pen.now] \in [now : Renditions, saved : Renditions]
        /\ [pen EXCEPT !.saved = pen.now].now = cells.rendition
        /\ [pen EXCEPT !.saved = pen.now].saved = cells.rendition
        /\ [pen EXCEPT !.now = pen.saved] \in [now : Renditions, saved : Renditions]
        /\ [pen EXCEPT !.now = pen.saved].now = cells.saved
        /\ [pen EXCEPT !.now = pen.saved].saved = cells.saved
    BY <1>0, Zenon DEF LooksKept
  <1>1. CASE VtOnEsc("M") /\ Colours(ReverseIndexCells(cells, screen))
    <2>1. OnEsc(screen, "M") = ReverseIndex(screen)
      BY Zenon DEF OnEsc
    <2>2. MadeFrom(cells, ReverseIndexCells(cells, screen), Fitting(looks'))
      BY <1>0, <1>1, OneMoreLook, ReverseIndexMakes, Zenon DEF Colours
    <2>3. LooksKept'
      BY <1>0, <1>1, <2>2, SamePen
    <2> QED
      BY <1>0, <1>1, <2>1, <2>3, ReverseIndexAgrees, Zenon
         DEF VtOnEsc, Draw, Colours, Coloured
  <1>2. CASE VtOnEsc("7") /\ Coloured(SaveCells(cells), [pen EXCEPT !.saved = pen.now])
    <2>1. OnEsc(screen, "7") = Save(screen)
      BY Zenon DEF OnEsc
    <2>2. Agree(SaveCells(cells), screen)
      BY <1>0, StyledAgrees, Zenon DEF SaveCells
    <2>3. Agree(SaveCells(cells), Save(screen))
      BY <1>0, <2>2, CursorKeepsText, AgreeReads
    <2>4. LooksKept'
      <3>1. Holds(cells, Fitting(looks'))
        BY <1>0, <1>2, OneMoreLook
      <3> DEFINE x == SaveCells(cells)
      <3> DEFINE q == cells.rendition
      <3>2. x = [cells EXCEPT !.saved = q]
        BY DEF SaveCells
      <3> HIDE DEF q
      <3>3. Holds(x, Fitting(looks')) /\ x.rendition = cells.rendition /\ x.saved = cells.rendition
        <4>1. /\ Holds([cells EXCEPT !.saved = q], Fitting(looks'))
              /\ [cells EXCEPT !.saved = q].rendition = cells.rendition
              /\ [cells EXCEPT !.saved = q].saved = q
          BY <1>0, <3>1, StyledHolds, ZenonT(40)
        <4> QED BY <3>2, <4>1 DEF q
      <3> HIDE DEF x
      <3> QED BY <1>0, <1>2, <1>p, <3>3, OtherPen DEF x
    <2> QED BY <1>0, <1>2, <2>1, <2>3, <2>4, Zenon DEF VtOnEsc, Draw, Coloured
  <1>3. CASE VtOnEsc("8") /\ Coloured(RestoreCells(cells), [pen EXCEPT !.now = pen.saved])
    <2>1. OnEsc(screen, "8") = Restore(screen)
      BY Zenon DEF OnEsc
    <2>2. Agree(RestoreCells(cells), screen)
      BY <1>0, StyledAgrees, Zenon DEF RestoreCells
    <2>3. Agree(RestoreCells(cells), Restore(screen))
      BY <1>0, <2>2, CursorKeepsText, AgreeReads
    <2>4. LooksKept'
      <3>1. Holds(cells, Fitting(looks'))
        BY <1>0, <1>3, OneMoreLook
      <3> DEFINE x == RestoreCells(cells)
      <3> DEFINE q == cells.saved
      <3>2. x = [cells EXCEPT !.rendition = q]
        BY DEF RestoreCells
      <3> HIDE DEF q
      <3>3. Holds(x, Fitting(looks')) /\ x.rendition = cells.saved /\ x.saved = cells.saved
        <4>1. /\ Holds([cells EXCEPT !.rendition = q], Fitting(looks'))
              /\ [cells EXCEPT !.rendition = q].rendition = q
              /\ [cells EXCEPT !.rendition = q].saved = cells.saved
          BY <1>0, <3>1, StyledHolds, ZenonT(40)
        <4> QED BY <3>2, <4>1 DEF q
      <3> HIDE DEF x
      <3> QED BY <1>0, <1>3, <1>p, <3>3, OtherPen DEF x
    <2> QED BY <1>0, <1>3, <2>1, <2>3, <2>4, Zenon DEF VtOnEsc, Draw, Coloured
  <1>4. CASE VtOnEsc("c") /\ Coloured(BlankCells, AllPlain)
    <2>1. OnEsc(screen, "c") = BlankScreen
      BY Zenon DEF OnEsc
    <2>2. LooksKept'
      BY <1>0, <1>4, ResetKeepsLooks
    <2> QED BY <1>0, <1>4, <2>1, <2>2, BlanksAgree, Zenon DEF VtOnEsc, Draw, Coloured
  <1>5. CASE VtOnEsc("#8") /\ Colours(FillCells(cells, drawn + 1))
    <2>1. OnEsc(screen, "#8") = FillScreenWithAlignmentPattern(screen)
      BY Zenon DEF OnEsc
    <2>2. drawn + 1 \in Nat /\ MadeFrom(cells, FillCells(cells, drawn + 1), Fitting(looks'))
      BY <1>0, <1>5, OneMoreLook, WriteMakes, Zenon DEF Colours
    <2>3. LooksKept'
      BY <1>0, <1>5, <2>2, SamePen
    <2> QED BY <1>0, <1>5, <2>1, <2>2, <2>3, FillAgrees, Zenon
            DEF VtOnEsc, Draw, Colours, Coloured
  <1> QED BY <1>1, <1>2, <1>3, <1>4, <1>5 DEF DrawEsc

LEMMA CsiKeepsCells ==
  ASSUME CellsAsAsked, DrawCsi
  PROVE  Agree(cells', screen') /\ LooksKept' /\ ~overflowed'
  <1>0. /\ screen \in ScreenType /\ Agree(cells, screen) /\ LooksKept /\ cells \in Grids
        /\ cells.rendition \in Renditions /\ ~overflowed
    BY GridsAre DEF Agree, CellsAsAsked
  <1>o. ASSUME NEW final \in {"m", "J", "K", "H", "r"}, NEW params, VtOnCsi(final, params)
        PROVE  ~overflowed' /\ screen' = OnCsi(screen, final, params)
    <2>1. CursorSum(screen, final, params) = 0
      BY Zenon DEF CursorSum
    <2>2. ~(0 > IntMax)
      BY IntAssumption, SMT
    <2>3. ~overflowed'
      BY <1>o, <2>1, <2>2, Zenon DEF VtOnCsi
    <2> QED BY <1>o, <2>3, Zenon DEF VtOnCsi, Draw
  <1>1. ASSUME NEW params \in SgrParams, VtOnCsi("m", params),
               Coloured([cells EXCEPT !.rendition = ApplySgr(@, params)],
                        [pen EXCEPT !.now = ApplySgr(@, params)])
        PROVE  Agree(cells', screen') /\ LooksKept' /\ ~overflowed'
    <2> DEFINE q == ApplySgr(cells.rendition, params)
    <2>1. OnCsi(screen, "m", params) = screen
      BY Zenon DEF OnCsi
    <2>2. q \in Renditions
      BY <1>0, ParamsAreNumbers, SgrKeepsRenditions, Zenon
    <2>3. pen.now = cells.rendition /\ pen.saved = cells.saved
          /\ pen \in [now : Renditions, saved : Renditions]
      BY <1>0 DEF LooksKept
    <2>4. Coloured([cells EXCEPT !.rendition = q], [pen EXCEPT !.now = q])
      BY <1>1, <2>3
    <2> HIDE DEF q
    <2>5. Agree([cells EXCEPT !.rendition = q], screen)
      BY <1>0, <2>2, StyledAgrees
    <2>6. /\ [pen EXCEPT !.now = q] \in [now : Renditions, saved : Renditions]
          /\ [pen EXCEPT !.now = q].now = q /\ [pen EXCEPT !.now = q].saved = cells.saved
      BY <2>2, <2>3, Zenon
    <2>7. LooksKept'
      <3>1. Holds(cells, Fitting(looks'))
        BY <1>0, <2>4, OneMoreLook
      <3> DEFINE x == [cells EXCEPT !.rendition = q]
      <3>2. Holds(x, Fitting(looks')) /\ x.rendition = q /\ x.saved = cells.saved
        BY <1>0, <3>1, StyledHolds, ZenonT(40)
      <3> HIDE DEF x
      <3> QED BY <1>0, <2>4, <2>6, <3>2, OtherPen DEF x
    <2> QED BY <1>1, <1>o, <2>1, <2>4, <2>5, <2>7, Zenon DEF Coloured
  <1>2. ASSUME NEW params, VtOnCsi("J", params),
               Colours(EraseDisplayCells(cells, screen, ParamRaw(params, 1, 0)))
        PROVE  Agree(cells', screen') /\ LooksKept' /\ ~overflowed'
    <2>1. OnCsi(screen, "J", params) = EraseInDisplay(screen, ParamRaw(params, 1, 0))
      BY Zenon DEF OnCsi
    <2>2. MadeFrom(cells, EraseDisplayCells(cells, screen, ParamRaw(params, 1, 0)),
                   Fitting(looks'))
      BY <1>0, <1>2, OneMoreLook, EraseMakes, Zenon DEF Colours
    <2>3. LooksKept'
      BY <1>0, <1>2, <2>2, SamePen
    <2> QED BY <1>0, <1>2, <1>o, <2>1, <2>3, EraseDisplayAgrees, Zenon DEF Colours, Coloured
  <1>3. ASSUME NEW params, VtOnCsi("K", params),
               Colours(EraseLineCells(cells, screen, ParamRaw(params, 1, 0)))
        PROVE  Agree(cells', screen') /\ LooksKept' /\ ~overflowed'
    <2>1. OnCsi(screen, "K", params) = EraseInLine(screen, ParamRaw(params, 1, 0))
      BY Zenon DEF OnCsi
    <2>2. MadeFrom(cells, EraseLineCells(cells, screen, ParamRaw(params, 1, 0)),
                   Fitting(looks'))
      BY <1>0, <1>3, OneMoreLook, EraseMakes, Zenon DEF Colours
    <2>3. LooksKept'
      BY <1>0, <1>3, <2>2, SamePen
    <2> QED BY <1>0, <1>3, <1>o, <2>1, <2>3, EraseLineAgrees, Zenon DEF Colours, Coloured
  <1>4. ASSUME NEW final \in {"H", "r"}, NEW params, VtOnCsi(final, params), Colours(cells)
        PROVE  Agree(cells', screen') /\ LooksKept' /\ ~overflowed'
    <2>1. /\ OnCsi(screen, "H", params)
               = MoveTo(screen, Param(params, 1, 1), Param(params, 2, 1))
          /\ OnCsi(screen, "r", params)
               = SetScrollRegion(screen, ParamRaw(params, 1, 1), ParamRaw(params, 2, NumRows))
      BY Zenon DEF OnCsi
    <2> DEFINE go == MoveTo(screen, Param(params, 1, 1), Param(params, 2, 1))
               set == SetScrollRegion(screen, ParamRaw(params, 1, 1),
                                      ParamRaw(params, 2, NumRows))
    <2>a. /\ go.text = screen.text /\ go.history = screen.history
          /\ set.text = screen.text /\ set.history = screen.history
      BY <1>0, CursorKeepsText
    <2>b. OnCsi(screen, "H", params) = go /\ OnCsi(screen, "r", params) = set
      BY <2>1
    <2> HIDE DEF go, set
    <2>2. OnCsi(screen, final, params).text = screen.text
          /\ OnCsi(screen, final, params).history = screen.history
      <3>1. CASE final = "H"
        BY <2>a, <2>b, <3>1
      <3>2. CASE final = "r"
        BY <2>a, <2>b, <3>2
      <3> QED BY <1>4, <3>1, <3>2
    <2>3. Agree(cells, OnCsi(screen, final, params))
      BY <1>0, <2>2, AgreeReads
    <2>4. LooksKept'
      <3>1. MadeFrom(cells, cells, Fitting(looks'))
        BY <1>0, <1>4, OneMoreLook, Zenon DEF MadeFrom, Colours
      <3> QED BY <1>0, <1>4, <3>1, SamePen
    <2>5. final \in {"m", "J", "K", "H", "r"}
      BY <1>4
    <2> QED BY <1>4, <1>o, <2>3, <2>4, <2>5, Zenon DEF Colours, Coloured
  <1> QED BY <1>1, <1>2, <1>3, <1>4, Zenon DEF DrawCsi

LEMMA EventsKeepCells ==
  ASSUME CellsAsAsked, CellsNext
  PROVE  Agree(cells', screen') /\ LooksKept' /\ ~overflowed'
  <1>0. /\ screen \in ScreenType /\ Agree(cells, screen) /\ LooksKept /\ cells \in Grids
        /\ ~overflowed
    BY DEF Agree, CellsAsAsked
  <1>1. CASE DrawPrint
    <2>1. Coloured(WriteCell(cells, screen, drawn + 1), pen)
      BY <1>1, Zenon DEF DrawPrint, Colours
    <2>2. drawn + 1 \in Nat
          /\ MadeFrom(cells, WriteCell(cells, screen, drawn + 1), Fitting(looks'))
      BY <1>0, <2>1, OneMoreLook, WriteMakes, Zenon
    <2>3. LooksKept'
      BY <1>0, <2>1, <2>2, SamePen DEF Colours
    <2> QED BY <1>0, <1>1, <2>2, <2>3, WriteAgrees, Zenon
            DEF DrawPrint, OnPrint, Draw, Colours, Coloured
  <1>2. CASE VtOnExecute("LF") /\ Colours(IndexCells(cells, screen))
    <2>1. OnExecute(screen, "LF") = LineFeed(screen)
      BY Zenon DEF OnExecute
    <2>2. MadeFrom(cells, IndexCells(cells, screen), Fitting(looks'))
      BY <1>0, <1>2, OneMoreLook, IndexMakes, Zenon DEF Colours
    <2>3. LooksKept'
      BY <1>0, <1>2, <2>2, SamePen
    <2> QED BY <1>0, <1>2, <2>1, <2>3, LineFeedAgrees, Zenon
            DEF VtOnExecute, Draw, Colours, Coloured
  <1>3. CASE VtOnExecute("CR") /\ Colours(cells)
    <2>1. OnExecute(screen, "CR") = CarriageReturn(screen)
      BY Zenon DEF OnExecute
    <2>2. Agree(cells, CarriageReturn(screen))
      BY <1>0, CursorKeepsText, AgreeReads
    <2>3. LooksKept'
      <3>1. MadeFrom(cells, cells, Fitting(looks'))
        BY <1>0, <1>3, OneMoreLook, Zenon DEF MadeFrom, Colours
      <3> QED BY <1>0, <1>3, <3>1, SamePen
    <2> QED BY <1>0, <1>3, <2>1, <2>2, <2>3, Zenon DEF VtOnExecute, Draw, Colours, Coloured
  <1>4. CASE DrawClear
    <2>1. LooksKept'
      BY <1>0, <1>4, ResetKeepsLooks DEF DrawClear
    <2> QED BY <1>0, <1>4, <2>1, BlanksAgree, Zenon DEF DrawClear, Clear, Draw, Coloured
  <1> QED
    BY <1>1, <1>2, <1>3, <1>4, EscKeepsCells, CsiKeepsCells DEF CellsNext, DrawControl

\* Each part's own invariants, with what the types need besides.
TypesInv ==
    /\ Len(heard) <= MaxHeard /\ ParserInv
    /\ ScreenTypes /\ CellsInv
    /\ SlotInv /\ WindowFitsThread
    /\ CompletionInv /\ CompletionsAreKept /\ SessionTypes
    /\ CalledOnce /\ ReadsAreFrames

LEMMA TypesHoldAtFirst == BridgeInit => TypesInv
  <1> SUFFICES ASSUME BridgeInit PROVE TypesInv
    OBVIOUS
  <1>0. VtInit /\ CellsInit /\ ControllerInit /\ LinkInit
    BY DEF BridgeInit
  <1>1. Len(heard) <= MaxHeard /\ ParserInv
    <2>1. heard = <<>> /\ Len(<<>>) = 0
      BY <1>0, EmptySeq DEF VtInit
    <2>2. 0 <= MaxHeard
      BY HeardAssumption, SMT
    <2> QED BY <1>0, <2>1, <2>2, ParserInvHoldsAtFirst
  <1>2. ScreenTypes
    BY <1>0, BlankIsSound, BlankIsFramed DEF VtInit, ScreenTypes, Followed
  <1>3. CellsInv
    <2>1. 0 \in 0 .. MaxDrawn
      BY DrawnAssumption, SMT
    <2>2. LooksKept
      <3>1. looks = <<>> /\ drawn = 0 /\ pen = AllPlain /\ cells = BlankCells
        BY <1>0 DEF CellsInit
      <3>2. <<>> \in Seq(Renditions) /\ Len(<<>>) = 0
        BY EmptySeq
      <3>3. 0 \in Nat
        OBVIOUS
      <3>4. [char |-> 0, rendition |-> Plain] \in Fitting(looks)
        BY <3>3, CellIs, PlainIsARendition, Zenon DEF Fitting
      <3>5. Holds(cells, Fitting(looks)) /\ cells.rendition = Plain /\ cells.saved = Plain
        BY <3>1, <3>4, BlanksMake
      <3> QED BY <3>1, <3>2, <3>5, PlainIsARendition, Zenon DEF LooksKept, AllPlain
    <2>3. ~overflowed /\ screen \in ScreenType /\ Agree(cells, screen)
      BY <1>0, BlankIsSound, BlanksAgree DEF VtInit, CellsInit, Sound
    <2> QED BY <1>0, <2>1, <2>2, <2>3 DEF CellsInit, CellsInv, CellsAsAsked
  <1>4. CompletionInv /\ CompletionsAreKept
    <2>1. CompletionInv /\ Forgotten = {} /\ Destroyed = {}
      BY <1>0, CompletionInvHoldsAtFirst
    <2> QED BY <2>1, FS_EmptySet, SMT DEF CompletionsAreKept
  <1> QED
    BY <1>0, <1>1, <1>2, <1>3, <1>4, SlotInvHoldsAtFirst, WindowFitsAtFirst,
       SessionTypesHoldAtFirst, CalledOnceAtFirst DEF TypesInv

LEMMA BridgeKeepsScreen ==
  ASSUME Len(heard) <= MaxHeard, ScreenTypes, CellsInv, [BridgeNext]_bridgeVars
  PROVE  Len(heard') <= MaxHeard /\ ScreenTypes' /\ CellsInv'
  <1>1. UNCHANGED <<screen, overflowed, outgoing>> => ScreenTypes'
    BY Zenon DEF ScreenTypes
  <1>2. Len(heard') <= MaxHeard /\ ScreenTypes'
    <2>1. CASE VtBytes
      BY <1>1, <2>1, Zenon DEF VtBytes, VtFeedByte
    <2>2. CASE TakeOutgoing
      BY <2>2, Zenon DEF TakeOutgoing, ScreenTypes
    <2>3. CASE VtEvents /\ ~TakeOutgoing
      <3>1. ScreenTypes'
        BY <2>3, EventsKeepScreenTypes, ParamsAreNumbers, Zenon DEF VtEvents
      <3>2. heard' = heard
        BY <2>3, Zenon DEF VtEvents, OnPrint, VtOnExecute, VtOnEsc, VtOnCsi, Clear, Draw
      <3> QED BY <3>1, <3>2
    <2>4. CASE CellsNext
      <3>1. ScreenTypes'
        BY <2>4, EventsKeepScreenTypes, ParamsAreNumbers, Zenon
           DEF CellsNext, DrawPrint, DrawControl, DrawEsc, DrawCsi, DrawClear
      <3>2. heard' = heard
        BY <2>4, Zenon DEF CellsNext, DrawPrint, DrawControl, DrawEsc, DrawCsi,
           DrawClear, OnPrint, VtOnExecute, VtOnEsc, VtOnCsi, Clear, Draw
      <3> QED BY <3>1, <3>2
    <2>5. CASE UNCHANGED vtVars
      BY <1>1, <2>5 DEF vtVars
    <2> QED
      BY <2>1, <2>2, <2>3, <2>4, <2>5, Zenon DEF BridgeNext, bridgeVars
  <1>3. CellsInv'
    <2>1. CASE part = "cells" /\ CellsNext /\ UNCHANGED part
      <3>0. CellsAsAsked
        BY <2>1 DEF CellsInv
      <3>1. CellsAsAsked'
        <4>1. Agree(cells', screen') /\ LooksKept' /\ ~overflowed'
          BY <2>1, <3>0, EventsKeepCells
        <4>2. screen' \in ScreenType
          BY <1>2, <4>1 DEF ScreenTypes, Followed, Sound
        <4> QED BY <4>1, <4>2 DEF CellsAsAsked
      <3>2. drawn < MaxDrawn /\ drawn' = drawn + 1
        BY <2>1, Zenon DEF CellsNext, DrawPrint, DrawControl, DrawEsc, DrawCsi,
           DrawClear, Colours, Coloured
      <3>3. drawn' \in 0 .. MaxDrawn
        BY <3>2, DrawnAssumption, SMT DEF CellsInv
      <3> QED BY <2>1, <3>1, <3>3 DEF CellsInv
    <2>2. CASE part # "cells" /\ UNCHANGED <<part, drawn>>
      BY <2>2, Zenon DEF CellsInv
    <2>3. CASE UNCHANGED <<part, screen, overflowed, cells, drawn, pen, looks>>
      BY <2>3, Zenon DEF CellsInv, CellsAsAsked, LooksKept
    <2> QED
      BY <2>1, <2>2, <2>3, Zenon DEF BridgeNext, bridgeVars, vtVars, cellsVars, historyVars
  <1> QED BY <1>2, <1>3

LEMMA BridgeKeepsWindow ==
  ASSUME WindowFitsThread, [BridgeNext]_bridgeVars
  PROVE  WindowFitsThread'
  <1>1. CASE ControllerNext
    BY <1>1, ControllerKeepsWindow
  <1>2. CASE UNCHANGED controllerVars
    BY <1>2, Zenon DEF controllerVars, WindowFitsThread
  <1> QED BY <1>1, <1>2, Zenon DEF BridgeNext, bridgeVars

LEMMA BridgeKeepsLink ==
  ASSUME CompletionInv, CompletionInv', SessionTypes, CalledOnce, ReadsAreFrames,
         [BridgeNext]_bridgeVars
  PROVE  SessionTypes' /\ CalledOnce' /\ ReadsAreFrames'
  <1>1. CASE LinkNext
    BY <1>1, StepsKeepSessionTypes, LinkCallsOnce, LinkKeepsReads
  <1>2. CASE UNCHANGED linkVars
    <2>1. /\ UNCHANGED <<client, calls, result, given>> /\ UNCHANGED <<taken, reading>>
          /\ UNCHANGED <<kind, tcp, accepted, running, ending, writer, source, server, shared>>
      BY <1>2, Zenon DEF linkVars, clientVars, serverVars, sessionVars
    <2>2. SessionTypes'
      <3>1. SlotTypes'
        BY <2>1, Zenon DEF SessionTypes, SlotTypes, Alone
      <3> QED BY <2>1, <3>1, Zenon DEF SessionTypes, NotUp
    <2>3. ReadsAreFrames'
      BY <2>1, Zenon DEF ReadsAreFrames
    <2> QED BY <2>1, <2>2, <2>3, CalledOnceReads
  <1> QED BY <1>1, <1>2, Zenon DEF BridgeNext, bridgeVars

LEMMA StepsKeepTypes ==
  ASSUME TypesInv, [BridgeNext]_bridgeVars
  PROVE  TypesInv'
  <1>1. CompletionInv' /\ CompletionsAreKept'
    BY BridgeKeepsBooks DEF TypesInv
  <1>2. SessionTypes' /\ CalledOnce' /\ ReadsAreFrames'
    BY <1>1, BridgeKeepsLink DEF TypesInv
  <1>3. SlotInv' /\ WindowFitsThread' /\ ParserInv'
    BY BridgeKeepsSlotInv, BridgeKeepsWindow, BridgeKeepsParserInv DEF TypesInv
  <1>4. Len(heard') <= MaxHeard /\ ScreenTypes' /\ CellsInv'
    BY BridgeKeepsScreen DEF TypesInv
  <1> QED BY <1>1, <1>2, <1>3, <1>4, Zenon DEF TypesInv

\* The bridge's records keep their types: a parser is in one of its states,
\* the cursor is on the screen exactly until a sum of a movement has left int
\* and the scroll region always, with two rows at least, a row with a character
\* is one the screen counts as written to and the scrollback as long as it says, the window offers to connect only
\* without a thread, and a send's completion is called at most once: for every
\* size of the screen and number of connections, sends and frames.
THEOREM BridgeTypesAreKept == BridgeSpec => []BridgeTypeOK
  <1>1. BridgeInit => TypesInv
    BY TypesHoldAtFirst
  <1>2. TypesInv /\ [BridgeNext]_bridgeVars => TypesInv'
    BY StepsKeepTypes
  <1>3. TypesInv => BridgeTypeOK
    <2> SUFFICES ASSUME TypesInv PROVE BridgeTypeOK
      OBVIOUS
    <2>1. LinkTypeOK
      BY LinkTypesAre DEF TypesInv
    <2>2. ControllerTypeOK
      BY ControllerTypesAre DEF TypesInv
    <2>3. VtTypeOK
      <3>1. parser.state \in States
        <4>1. parser \in Parsers
          BY DEF TypesInv, ParserInv
        <4> QED BY <4>1, Zenon DEF Parsers
      <3>2. /\ screen.top < screen.bottom /\ outgoing \in BOOLEAN
            /\ Followed(screen, overflowed)
        BY DEF TypesInv, ScreenTypes, Framed
      <3>3. /\ [screen EXCEPT !.row = 0, !.col = 0] \in ScreenType
            /\ screen \in ScreenType <=> ~overflowed
        <4>1. CASE overflowed
          BY <3>2, <4>1 DEF Followed, Astray
        <4>2. CASE ~overflowed
          <5>1. screen \in ScreenType
            BY <3>2, <4>2 DEF Followed, Sound
          <5> QED BY <4>2, <5>1, Bounds, Zenon DEF ScreenType
        <4> QED BY <4>1, <4>2
      <3> QED BY <3>1, <3>2, <3>3 DEF TypesInv, VtTypeOK, States
    <2>4. CellsTypeOK
      <3> SUFFICES ASSUME drawn > 0 PROVE CellsTypeOK!2
        BY DEF CellsTypeOK
      <3>1. drawn \in 0 .. MaxDrawn /\ drawn <= MaxDrawn /\ drawn # 0
        BY DrawnAssumption, SMT DEF TypesInv, CellsInv
      <3>2. Agree(cells, screen)
        BY <3>1 DEF TypesInv, CellsInv, CellsAsAsked
      <3>3. /\ cells \in Grids /\ Marked(cells.grid, screen.text)
            /\ Len(cells.history) = screen.history
        BY <3>2 DEF Agree
      <3>4. cells.rendition \in Renditions /\ cells.saved \in Renditions
        BY <3>3, GridsAre
      <3>5. \A r \in Row, c \in Col : /\ cells.grid[r][c] \in Cells
                                      /\ cells.grid[r][c].char # 0 => r \in screen.text
        BY <3>3, Zenon DEF Marked
      <3> QED BY <3>1, <3>3, <3>4, <3>5
    <2> QED BY <2>1, <2>2, <2>3, <2>4 DEF BridgeTypeOK
  <1> QED BY <1>1, <1>2, <1>3, PTL DEF BridgeSpec

-----------------------------------------------------------------------------
(* The document the widget makes of the cells.                             *)

Glyphs == Nat \cup {LineBreak}

Runs == [start : Nat, length : Nat, rendition : Renditions]

Docs == [text : Seq(Glyphs), runs : Seq(Runs)]

End(run) == run.start + run.length

\* The runs lie one after the other within the text.
Neat(doc) ==
    /\ doc \in Docs
    /\ \A k \in DOMAIN doc.runs : End(doc.runs[k]) <= Len(doc.text)
    /\ \A j, k \in DOMAIN doc.runs : j < k => End(doc.runs[j]) <= doc.runs[k].start

\* The text at p is the cell, and a run with its rendition covers it.
ShowsAt(doc, p, cell) ==
    /\ p \in DOMAIN doc.text /\ doc.text[p] = cell.char
    /\ \E k \in DOMAIN doc.runs :
            /\ doc.runs[k].start < p /\ p <= End(doc.runs[k])
            /\ doc.runs[k].rendition = cell.rendition

\* What is in a document stays in it when more is added.
KeptIn(d, e) ==
    /\ Neat(e) /\ Len(d.text) <= Len(e.text)
    /\ \A p \in DOMAIN d.text : e.text[p] = d.text[p]
    /\ \A p, cell : ShowsAt(d, p, cell) => ShowsAt(e, p, cell)

\* The last run ends with the text.
EndsInRun(doc) ==
    /\ Len(doc.runs) > 0
    /\ End(doc.runs[Len(doc.runs)]) = Len(doc.text)

LEMMA DocIs ==
  ASSUME NEW d \in Docs
  PROVE  /\ Len(d.text) \in Nat /\ DOMAIN d.text = 1 .. Len(d.text)
         /\ d.text \in Seq(Glyphs)
         /\ Len(d.runs) \in Nat /\ DOMAIN d.runs = 1 .. Len(d.runs)
         /\ d.runs \in Seq(Runs)
         /\ \A k \in DOMAIN d.runs :
              /\ d.runs[k] \in Runs
              /\ d.runs[k].start \in Nat /\ d.runs[k].length \in Nat
              /\ d.runs[k].rendition \in Renditions /\ End(d.runs[k]) \in Nat
  <1>1. d.text \in Seq(Glyphs) /\ d.runs \in Seq(Runs)
    BY Zenon DEF Docs
  <1>2. Len(d.text) \in Nat /\ DOMAIN d.text = 1 .. Len(d.text)
    BY <1>1, DomainIs
  <1>3. /\ Len(d.runs) \in Nat /\ DOMAIN d.runs = 1 .. Len(d.runs)
        /\ \A k \in DOMAIN d.runs : d.runs[k] \in Runs
    <2> QED BY <1>1, DomainIs, Zenon
  <1>4. ASSUME NEW r \in Runs
        PROVE  r.start \in Nat /\ r.length \in Nat /\ r.rendition \in Renditions
               /\ End(r) \in Nat
    BY <1>4, SMT DEF End, Runs
  <1> QED BY <1>1, <1>2, <1>3, <1>4, Zenon

\* A document made of a text and runs.
LEMMA MadeIs ==
  ASSUME NEW t \in Seq(Glyphs),
         NEW u \in Seq(Runs)
  PROVE  /\ [text |-> t, runs |-> u] \in Docs
         /\ [text |-> t, runs |-> u].text = t /\ [text |-> t, runs |-> u].runs = u
  BY Zenon DEF Docs

LEMMA RunIs ==
  ASSUME NEW s \in Nat, NEW l \in Nat, NEW r \in Renditions
  PROVE  LET run == [start |-> s, length |-> l, rendition |-> r]
         IN  /\ run \in Runs
             /\ run.start = s /\ run.rendition = r /\ End(run) = s + l
  BY Zenon DEF End, Runs

\* More is added to what was added.
LEMMA KeptInTurn ==
  ASSUME NEW d \in Docs, NEW e \in Docs, NEW f, KeptIn(d, e), KeptIn(e, f)
  PROVE  KeptIn(d, f)
  <1>1. f \in Docs
    BY DEF KeptIn, Neat
  <1>2. Len(d.text) <= Len(f.text)
    <2>1. Len(d.text) \in Nat /\ Len(e.text) \in Nat /\ Len(f.text) \in Nat
      BY <1>1, DocIs
    <2>2. Len(d.text) <= Len(e.text) /\ Len(e.text) <= Len(f.text)
      BY DEF KeptIn
    <2> QED BY <2>1, <2>2, SMT
  <1>3. DOMAIN d.text \subseteq DOMAIN e.text
    <2>1. /\ DOMAIN d.text = 1 .. Len(d.text) /\ DOMAIN e.text = 1 .. Len(e.text)
          /\ Len(d.text) \in Nat /\ Len(e.text) \in Nat /\ Len(d.text) <= Len(e.text)
      BY DocIs DEF KeptIn
    <2> QED BY <2>1, SMT
  <1>4. \A p \in DOMAIN d.text : f.text[p] = d.text[p]
    BY <1>3, Zenon DEF KeptIn
  <1> QED BY <1>2, <1>4, Zenon DEF KeptIn

LEMMA KeptInItself ==
  ASSUME NEW d, Neat(d)
  PROVE  KeptIn(d, d)
  <1>1. Len(d.text) <= Len(d.text)
    <2>1. Len(d.text) \in Nat
      BY DocIs DEF Neat
    <2> QED BY <2>1, SMT
  <1> QED BY <1>1, Zenon DEF KeptIn

\* One more character, and the runs kept or made longer.
LEMMA GrownExtends ==
  ASSUME NEW d, Neat(d), NEW x \in Glyphs, NEW e, Neat(e),
         e.text = Append(d.text, x), DOMAIN d.runs \subseteq DOMAIN e.runs,
         \A k \in DOMAIN d.runs : /\ e.runs[k].start = d.runs[k].start
                                  /\ End(d.runs[k]) <= End(e.runs[k])
                                  /\ e.runs[k].rendition = d.runs[k].rendition
  PROVE  /\ KeptIn(d, e) /\ Len(e.text) = Len(d.text) + 1
         /\ Len(e.text) \in DOMAIN e.text /\ e.text[Len(e.text)] = x
  <1>0. d \in Docs /\ e \in Docs
    BY DEF Neat
  <1> DEFINE l == Len(d.text)
  <1>1. l \in Nat /\ DOMAIN d.text = 1 .. l /\ DOMAIN e.text = 1 .. Len(e.text)
    BY <1>0, DocIs, Zenon
  <1>2. /\ Len(e.text) = l + 1 /\ DOMAIN e.text = (DOMAIN d.text) \cup {l + 1}
        /\ e.text[l + 1] = x /\ \A p \in DOMAIN d.text : e.text[p] = d.text[p]
    <2>1. d.text \in Seq(Glyphs)
      BY <1>0, DocIs, Zenon
    <2> DEFINE t == Append(d.text, x)
    <2>2. /\ Len(t) = l + 1 /\ DOMAIN t = (DOMAIN d.text) \cup {l + 1}
          /\ t[l + 1] = x /\ \A p \in DOMAIN d.text : t[p] = d.text[p]
      BY <2>1, AppendIs
    <2>3. e.text = t
      OBVIOUS
    <2> QED BY <2>2, <2>3
  <1> HIDE DEF l
  <1>3. ASSUME NEW p, NEW cell, ShowsAt(d, p, cell) PROVE ShowsAt(e, p, cell)
    <2>1. p \in DOMAIN d.text /\ d.text[p] = cell.char
      BY <1>3, Zenon DEF ShowsAt
    <2>2. PICK k \in DOMAIN d.runs : /\ d.runs[k].start < p /\ p <= End(d.runs[k])
                                     /\ d.runs[k].rendition = cell.rendition
      BY <1>3, Zenon DEF ShowsAt
    <2>3. k \in DOMAIN e.runs /\ p \in Nat /\ End(d.runs[k]) \in Nat /\ End(e.runs[k]) \in Nat
      <3>1. k \in DOMAIN e.runs
        OBVIOUS
      <3>2. p \in Nat
        BY <1>1, <2>1, SMT
      <3> QED BY <1>0, <3>1, <3>2, DocIs, Zenon
    <2>4. p <= End(d.runs[k]) /\ End(d.runs[k]) <= End(e.runs[k])
      BY <2>2
    <2>5. p <= End(e.runs[k])
      BY <2>3, <2>4, SMT
    <2> QED BY <1>2, <2>1, <2>2, <2>3, <2>5, Zenon DEF ShowsAt
  <1>4. Len(d.text) <= Len(e.text)
    BY <1>1, <1>2, SMT DEF l
  <1>5. KeptIn(d, e)
    BY <1>2, <1>3, <1>4, Zenon DEF KeptIn
  <1>6. l + 1 \in DOMAIN e.text
    BY <1>2, Zenon
  <1> QED BY <1>2, <1>5, <1>6 DEF l

LEMMA NewLineIs ==
  ASSUME NEW d, Neat(d)
  PROVE  LET e == NewLine(d)
         IN  /\ KeptIn(d, e) /\ Len(e.text) = Len(d.text) + 1
             /\ Len(e.text) \in DOMAIN e.text /\ e.text[Len(e.text)] = LineBreak
  <1> DEFINE e == NewLine(d)
             t == Append(d.text, LineBreak)
  <1>0. d \in Docs
    BY DEF Neat
  <1>1. /\ Len(d.text) \in Nat /\ d.text \in Seq(Glyphs)
        /\ DOMAIN d.runs = 1 .. Len(d.runs) /\ Len(d.runs) \in Nat
        /\ d.runs \in Seq(Runs)
        /\ \A k \in DOMAIN d.runs : End(d.runs[k]) \in Nat
    BY <1>0, DocIs, Zenon
  <1>2. t \in Seq(Glyphs) /\ Len(t) = Len(d.text) + 1
    <2>1. LineBreak \in Glyphs
      BY DEF Glyphs
    <2> QED BY <1>1, <2>1, AppendIs
  <1>3. e.text = t /\ e.runs = d.runs /\ e \in Docs
    <2>1. e = [d EXCEPT !.text = t]
      BY DEF NewLine
    <2> HIDE DEF t, e
    <2> QED BY <1>0, <1>2, <2>1, Zenon DEF Docs
  <1> HIDE DEF e
  <1>4. \A k \in DOMAIN d.runs : End(d.runs[k]) <= Len(e.text)
    <2> SUFFICES ASSUME NEW k \in DOMAIN d.runs PROVE End(d.runs[k]) <= Len(e.text)
      OBVIOUS
    <2>1. End(d.runs[k]) <= Len(d.text) /\ End(d.runs[k]) \in Nat
      BY <1>1 DEF Neat
    <2> HIDE DEF t
    <2> QED BY <1>1, <1>2, <1>3, <2>1, SMT
  <1>5. Neat(e)
    BY <1>3, <1>4, Zenon DEF Neat
  <1>6. \A k \in DOMAIN d.runs : End(d.runs[k]) <= End(d.runs[k])
    BY <1>1, SMT
  <1>7. KeptIn(d, e) /\ Len(e.text) = Len(d.text) + 1
        /\ Len(e.text) \in DOMAIN e.text /\ e.text[Len(e.text)] = LineBreak
    <2>1. LineBreak \in Glyphs
      BY DEF Glyphs
    <2>2. \A k \in DOMAIN d.runs : /\ e.runs[k].start = d.runs[k].start
                                   /\ End(d.runs[k]) <= End(e.runs[k])
                                   /\ e.runs[k].rendition = d.runs[k].rendition
      BY <1>3, <1>6, Zenon
    <2>3. DOMAIN d.runs \subseteq DOMAIN e.runs /\ e.text = Append(d.text, LineBreak)
      BY <1>3 DEF t
    <2> HIDE DEF t
    <2> QED BY <1>5, <2>1, <2>2, <2>3, GrownExtends
  <1> QED BY <1>7 DEF e

\* A cell that starts a run.
LEMMA StartsRun ==
  ASSUME NEW d, Neat(d), NEW cell \in Cells, NEW run \in Runs, NEW e \in Docs,
         e.text = Append(d.text, cell.char), e.runs = Append(d.runs, run),
         run.start = Len(d.text), End(run) = Len(d.text) + 1,
         run.rendition = cell.rendition
  PROVE  /\ KeptIn(d, e) /\ Len(e.text) = Len(d.text) + 1
         /\ EndsInRun(e) /\ ShowsAt(e, Len(e.text), cell)
  <1> DEFINE l == Len(d.text)
             m == Len(d.runs)
             n == Len(e.text)
             w == End(run)
  <1>0. d \in Docs /\ cell.char \in Glyphs
    BY Zenon DEF Neat, Cells, Glyphs
  <1>1. /\ l \in Nat /\ d.text \in Seq(Glyphs)
        /\ m \in Nat /\ DOMAIN d.runs = 1 .. m /\ d.runs \in Seq(Runs)
        /\ \A k \in DOMAIN d.runs : End(d.runs[k]) \in Nat
    BY <1>0, DocIs
  <1>2. n = l + 1
    BY <1>0, <1>1, AppendIs
  <1>3. /\ Len(e.runs) = m + 1 /\ DOMAIN e.runs = (DOMAIN d.runs) \cup {m + 1}
        /\ e.runs[m + 1] = run /\ \A k \in DOMAIN d.runs : e.runs[k] = d.runs[k]
    BY <1>1, AppendIs
  <1>4. w = l + 1 /\ run.start = l
    OBVIOUS
  <1> HIDE DEF l, m, n, w
  <1>5. \A k \in DOMAIN e.runs : End(e.runs[k]) <= n
    <2>1. ASSUME NEW k \in DOMAIN d.runs PROVE End(e.runs[k]) <= n
      <3>1. End(d.runs[k]) <= l /\ End(d.runs[k]) \in Nat
        BY <1>1 DEF Neat, l
      <3>2. End(d.runs[k]) <= n
        BY <1>1, <1>2, <3>1, SMT
      <3> QED BY <1>3, <3>2, Zenon
    <2>2. End(e.runs[m + 1]) <= n
      <3>1. w <= n
        BY <1>1, <1>2, <1>4, SMT
      <3> QED BY <1>3, <3>1, Zenon DEF w
    <2>3. \A k \in DOMAIN e.runs : k \in DOMAIN d.runs \/ k = m + 1
      BY <1>3, Zenon
    <2> QED BY <2>1, <2>2, <2>3, Zenon
  <1>6. ASSUME NEW j \in DOMAIN e.runs, NEW k \in DOMAIN e.runs, j < k
        PROVE  End(e.runs[j]) <= e.runs[k].start
    <2>1. CASE k \in DOMAIN d.runs
      <3>1. j \in DOMAIN d.runs
        BY <1>1, <1>3, <1>6, <2>1, SMT
      <3> QED BY <1>3, <1>6, <2>1, <3>1, Zenon DEF Neat
    <2>2. CASE k = m + 1
      <3>1. j \in DOMAIN d.runs
        BY <1>1, <1>3, <1>6, <2>2, SMT
      <3>2. End(d.runs[j]) <= l
        BY <3>1 DEF Neat, l
      <3> QED BY <1>3, <1>4, <2>2, <3>1, <3>2, Zenon
    <2>3. k \in DOMAIN d.runs \/ k = m + 1
      BY <1>3, Zenon
    <2> QED BY <2>1, <2>2, <2>3
  <1>7. Neat(e)
    BY <1>5, <1>6, Zenon DEF Neat, n
  <1>8. \A k \in DOMAIN d.runs : /\ e.runs[k].start = d.runs[k].start
                                 /\ End(d.runs[k]) <= End(e.runs[k])
                                 /\ e.runs[k].rendition = d.runs[k].rendition
    <2>1. \A k \in DOMAIN d.runs : End(d.runs[k]) <= End(d.runs[k])
      BY <1>1, SMT
    <2> QED BY <1>3, <2>1, Zenon
  <1>9. DOMAIN d.runs \subseteq DOMAIN e.runs
    BY <1>3, Zenon
  <1>10. /\ KeptIn(d, e) /\ Len(e.text) = Len(d.text) + 1
         /\ Len(e.text) \in DOMAIN e.text /\ e.text[Len(e.text)] = cell.char
    <2> DEFINE x == cell.char
    <2>1. x \in Glyphs /\ e.text = Append(d.text, x)
      BY <1>0
    <2> HIDE DEF x
    <2>2. /\ KeptIn(d, e) /\ Len(e.text) = Len(d.text) + 1
          /\ Len(e.text) \in DOMAIN e.text /\ e.text[Len(e.text)] = x
      BY <1>7, <1>8, <1>9, <2>1, GrownExtends, Zenon
    <2> QED BY <2>2 DEF x
  <1>11. EndsInRun(e)
    <2>1. m + 1 > 0
      BY <1>1, SMT
    <2>2. w = n
      BY <1>2, <1>4
    <2> QED BY <1>3, <2>1, <2>2, Zenon DEF EndsInRun, w, n
  <1>12. ShowsAt(e, n, cell)
    <2>1. run.start < n /\ n <= w
      BY <1>1, <1>2, <1>4, SMT
    <2>2. m + 1 \in DOMAIN e.runs /\ e.runs[m + 1] = run
      BY <1>3, Zenon
    <2> QED BY <1>10, <2>1, <2>2, Zenon DEF ShowsAt, n, w
  <1> QED BY <1>10, <1>11, <1>12 DEF n

\* A cell that goes on with the last run.
LEMMA GoesOn ==
  ASSUME NEW d, Neat(d), EndsInRun(d), NEW cell \in Cells, NEW run \in Runs,
         NEW e \in Docs, e.text = Append(d.text, cell.char),
         DOMAIN e.runs = DOMAIN d.runs, e.runs[Len(d.runs)] = run,
         \A k \in DOMAIN d.runs : k # Len(d.runs) => e.runs[k] = d.runs[k],
         run.start = d.runs[Len(d.runs)].start,
         End(run) = Len(d.text) + 1,
         run.rendition = cell.rendition,
         cell.rendition = d.runs[Len(d.runs)].rendition
  PROVE  /\ KeptIn(d, e) /\ Len(e.text) = Len(d.text) + 1
         /\ EndsInRun(e) /\ ShowsAt(e, Len(e.text), cell)
  <1> DEFINE l == Len(d.text)
             m == Len(d.runs)
             n == Len(e.text)
             w == End(run)
  <1>0. d \in Docs /\ cell.char \in Glyphs
    BY Zenon DEF Neat, Cells, Glyphs
  <1>1. /\ l \in Nat /\ d.text \in Seq(Glyphs)
        /\ m \in Nat /\ DOMAIN d.runs = 1 .. m /\ d.runs \in Seq(Runs)
        /\ \A k \in DOMAIN d.runs : End(d.runs[k]) \in Nat /\ d.runs[k].start \in Nat
    BY <1>0, DocIs
  <1>2. n = l + 1
    BY <1>0, <1>1, AppendIs
  <1>3. m > 0 /\ m \in DOMAIN d.runs /\ End(d.runs[m]) = l
    BY <1>1, SMT DEF EndsInRun
  <1>4. /\ DOMAIN e.runs = DOMAIN d.runs /\ e.runs[m] = run
        /\ \A k \in DOMAIN d.runs : k # m => e.runs[k] = d.runs[k]
    BY <1>3, Zenon
  <1>5. Len(e.runs) = m
    <2>1. DOMAIN e.runs = 1 .. Len(e.runs) /\ Len(e.runs) \in Nat
      BY DocIs
    <2> QED BY <1>1, <1>4, <2>1, SMT
  <1>6. w = l + 1 /\ run.start = d.runs[m].start
    OBVIOUS
  <1> HIDE DEF l, m, n, w
  <1>7. \A k \in DOMAIN e.runs : End(e.runs[k]) <= n
    <2> SUFFICES ASSUME NEW k \in DOMAIN d.runs PROVE End(e.runs[k]) <= n
      BY <1>4, Zenon
    <2>1. CASE k # m
      <3>1. End(d.runs[k]) <= l /\ End(d.runs[k]) \in Nat
        BY <1>1 DEF Neat, l
      <3>2. End(d.runs[k]) <= n
        BY <1>1, <1>2, <3>1, SMT
      <3> QED BY <1>4, <2>1, <3>2, Zenon
    <2>2. CASE k = m
      <3>1. w <= n
        BY <1>1, <1>2, <1>6, SMT
      <3> QED BY <1>4, <2>2, <3>1, Zenon DEF w
    <2> QED BY <2>1, <2>2
  <1>8. \A j, k \in DOMAIN e.runs : j < k => End(e.runs[j]) <= e.runs[k].start
    <2> SUFFICES ASSUME NEW j \in DOMAIN d.runs, NEW k \in DOMAIN d.runs, j < k
                 PROVE  End(e.runs[j]) <= e.runs[k].start
      BY <1>4, Zenon
    <2>1. j # m
      BY <1>1, SMT
    <2>2. e.runs[k].start = d.runs[k].start
      BY <1>4, <1>6, Zenon
    <2>3. End(d.runs[j]) <= d.runs[k].start
      BY DEF Neat
    <2> QED BY <1>4, <2>1, <2>2, <2>3, Zenon
  <1>9. Neat(e)
    BY <1>7, <1>8, Zenon DEF Neat, n
  <1>10. \A k \in DOMAIN d.runs : /\ e.runs[k].start = d.runs[k].start
                                  /\ End(d.runs[k]) <= End(e.runs[k])
                                  /\ e.runs[k].rendition = d.runs[k].rendition
    <2> SUFFICES ASSUME NEW k \in DOMAIN d.runs
                 PROVE  /\ e.runs[k].start = d.runs[k].start
                        /\ End(d.runs[k]) <= End(e.runs[k])
                        /\ e.runs[k].rendition = d.runs[k].rendition
      BY Zenon
    <2>1. CASE k # m
      <3>1. End(d.runs[k]) <= End(d.runs[k])
        BY <1>1, SMT
      <3> QED BY <1>4, <2>1, <3>1, Zenon
    <2>2. CASE k = m
      <3>1. l <= w
        BY <1>1, <1>6, SMT
      <3> QED BY <1>3, <1>4, <2>2, <3>1, Zenon DEF w, m
    <2> QED BY <2>1, <2>2
  <1>11. /\ KeptIn(d, e) /\ Len(e.text) = Len(d.text) + 1
         /\ Len(e.text) \in DOMAIN e.text /\ e.text[Len(e.text)] = cell.char
    <2>1. DOMAIN d.runs \subseteq DOMAIN e.runs
      BY <1>4, Zenon
    <2> QED BY <1>0, <1>9, <1>10, <2>1, GrownExtends
  <1>12. EndsInRun(e)
    <2>1. w = n
      BY <1>2, <1>6
    <2> QED BY <1>3, <1>4, <1>5, <2>1, Zenon DEF EndsInRun, w, n
  <1>13. ShowsAt(e, n, cell)
    <2>1. run.start < n /\ n <= w
      <3>1. d.runs[m].start \in Nat /\ d.runs[m].start <= l
        <4>1. d.runs[m] \in Runs /\ End(d.runs[m]) = l
          BY <1>0, <1>3, DocIs, Zenon
        <4> QED BY <1>1, <4>1, SMT DEF Runs, End
      <3> QED BY <1>1, <1>2, <1>6, <3>1, SMT
    <2>2. m \in DOMAIN e.runs /\ e.runs[m] = run
      BY <1>3, <1>4, Zenon
    <2> QED BY <1>11, <2>1, <2>2, Zenon DEF ShowsAt, n, w
  <1> QED BY <1>11, <1>12, <1>13 DEF n

\* One more cell at the end of the text.
LEMMA AppendCellIs ==
  ASSUME NEW d, Neat(d), NEW row, NEW c \in Nat, row[c] \in Cells,
         c > 0 => EndsInRun(d)
  PROVE  LET e == AppendCell(d, row, c)
         IN  /\ KeptIn(d, e) /\ Len(e.text) = Len(d.text) + 1
             /\ EndsInRun(e) /\ ShowsAt(e, Len(e.text), row[c])
  <1> DEFINE cell == row[c]
             r == cell.rendition
             l == Len(d.text)
             m == Len(d.runs)
             t == Append(d.text, cell.char)
             e == AppendCell(d, row, c)
  <1>0. d \in Docs /\ cell.char \in Glyphs /\ r \in Renditions /\ cell \in Cells
    BY Zenon DEF Neat, Cells, Glyphs
  <1>1. /\ l \in Nat /\ d.text \in Seq(Glyphs)
        /\ m \in Nat /\ DOMAIN d.runs = 1 .. m /\ d.runs \in Seq(Runs)
        /\ \A k \in DOMAIN d.runs : /\ d.runs[k].start \in Nat /\ d.runs[k].length \in Nat
                                    /\ d.runs[k] \in Runs
    BY <1>0, DocIs
  <1>2. t \in Seq(Glyphs)
    BY <1>0, <1>1, AppendIs
  <1>3. CASE c > 0 /\ r = d.runs[m].rendition
    <2> DEFINE old == d.runs[m]
               run == [old EXCEPT !.length = @ + 1]
               u == [d.runs EXCEPT ![m] = run]
    <2>1. e = [text |-> t, runs |-> u]
      BY <1>3, Zenon DEF AppendCell, SameRun
    <2>2. EndsInRun(d) /\ m > 0 /\ m \in DOMAIN d.runs
      <3>1. EndsInRun(d) /\ m > 0
        BY <1>3 DEF EndsInRun
      <3> QED BY <1>1, <3>1, SMT
    <2>3. old \in Runs /\ old.start \in Nat /\ old.length \in Nat /\ old.start + old.length = l
      BY <1>1, <2>2, Zenon DEF EndsInRun, End
    <2> HIDE DEF old, l, m
    <2>4. /\ run \in Runs /\ run.start = old.start /\ run.length = old.length + 1
          /\ run.rendition = old.rendition
      BY <2>3, SMT DEF Runs
    <2>5. End(run) = l + 1
      BY <1>1, <2>3, <2>4, SMT DEF End
    <2> HIDE DEF run
    <2>6. /\ u \in Seq(Runs) /\ DOMAIN u = DOMAIN d.runs /\ u[m] = run
          /\ \A k \in DOMAIN d.runs : k # m => u[k] = d.runs[k]
      BY <1>1, <2>2, <2>4, SMT
    <2> HIDE DEF t, u, e
    <2>7. e \in Docs /\ e.text = t /\ e.runs = u
      BY <1>2, <2>1, <2>6, MadeIs
    <2>8. /\ e.text = Append(d.text, cell.char)
          /\ DOMAIN e.runs = DOMAIN d.runs /\ e.runs[Len(d.runs)] = run
          /\ \A k \in DOMAIN d.runs : k # Len(d.runs) => e.runs[k] = d.runs[k]
      BY <2>6, <2>7, Zenon DEF t, m
    <2>9. /\ run.start = d.runs[Len(d.runs)].start /\ End(run) = Len(d.text) + 1
          /\ run.rendition = cell.rendition
          /\ cell.rendition = d.runs[Len(d.runs)].rendition
      BY <1>3, <2>4, <2>5, Zenon DEF old, m, l
    <2> HIDE DEF cell
    <2> QED
      BY <1>0, <2>2, <2>4, <2>7, <2>8, <2>9, GoesOn, Zenon DEF cell, e
  <1>4. CASE ~ (c > 0 /\ r = d.runs[m].rendition)
    <2> DEFINE run == [start |-> l, length |-> 1, rendition |-> r]
               u == Append(d.runs, run)
    <2>1. e = [text |-> t, runs |-> u]
      BY <1>4, Zenon DEF AppendCell, SameRun
    <2>2. run \in Runs /\ run.start = l /\ run.rendition = r /\ End(run) = l + 1
      <3>1. 1 \in Nat
        BY SMT
      <3> QED BY <1>0, <1>1, <3>1, RunIs
    <2> HIDE DEF run
    <2>3. u \in Seq(Runs)
      BY <1>1, <2>2, AppendIs
    <2> HIDE DEF t, u, e
    <2>4. e \in Docs /\ e.text = t /\ e.runs = u
      BY <1>2, <2>1, <2>3, MadeIs
    <2> QED BY <1>0, <2>2, <2>4, StartsRun, Zenon DEF t, u, l, e
  <1> QED BY <1>3, <1>4

-----------------------------------------------------------------------------
(* A row of cells.                                                         *)

\* The documents after each of the first k cells of a row.
AfterCells(doc, row, k, f) ==
    f = [n \in 0 .. k |-> IF n = 0 THEN doc ELSE AppendCell(f[n - 1], row, n - 1)]

LEMMA CellsSoFar ==
  ASSUME NEW doc, NEW row, NEW l \in Nat
  PROVE  \E f : AfterCells(doc, row, l, f)
  <1> DEFINE T == {k \in 0 .. l : ~ \E f : AfterCells(doc, row, k, f)}
  <1>1. T = {}
    <2> SUFFICES ASSUME T # {} PROVE FALSE
      OBVIOUS
    <2>1. PICK k \in T : \A j \in T : k <= j
      <3>1. T \in SUBSET Nat
        BY SMT
      <3> HIDE DEF T
      <3> QED BY <3>1, LeastExists
    <2>2. CASE k = 0
      <3> DEFINE f == [n \in 0 .. 0 |-> doc]
      <3>1. \A n \in 0 .. 0 : n = 0
        BY SMT
      <3>2. f = [n \in 0 .. 0 |-> IF n = 0 THEN doc ELSE AppendCell(f[n - 1], row, n - 1)]
        BY <3>1, Zenon
      <3>3. AfterCells(doc, row, 0, f)
        <4> HIDE DEF f
        <4> QED BY <3>2 DEF AfterCells
      <3> HIDE DEF f
      <3> QED BY <2>1, <2>2, <3>3, Zenon
    <2>3. CASE k # 0
      <3>1. k \in 0 .. l /\ k - 1 \in 0 .. l /\ ~(k <= k - 1)
        BY <2>1, <2>3, SMT
      <3>2. PICK f : AfterCells(doc, row, k - 1, f)
        BY <2>1, <3>1, Zenon
      <3> DEFINE g == [n \in 0 .. k |-> IF n = k THEN AppendCell(f[k - 1], row, k - 1)
                                        ELSE f[n]]
      <3>3. ASSUME NEW n \in 0 .. k
            PROVE  g[n] = IF n = 0 THEN doc ELSE AppendCell(g[n - 1], row, n - 1)
        <4>1. CASE n = k
          <5>1. n # 0 /\ n - 1 = k - 1 /\ k - 1 \in 0 .. k /\ k - 1 # k
            BY <2>3, <3>1, <4>1, SMT
          <5>2. g[n] = AppendCell(f[k - 1], row, k - 1) /\ g[k - 1] = f[k - 1]
            BY <4>1, <5>1, Zenon
          <5> HIDE DEF g
          <5> QED BY <4>1, <5>1, <5>2
        <4>2. CASE n # k
          <5>1. n \in 0 .. k - 1 /\ (n # 0 => n - 1 \in 0 .. k /\ n - 1 # k)
            BY <3>1, <4>2, SMT
          <5>2. f[n] = IF n = 0 THEN doc ELSE AppendCell(f[n - 1], row, n - 1)
            BY <3>2, <5>1, Zenon DEF AfterCells
          <5>3. g[n] = f[n] /\ (n # 0 => g[n - 1] = f[n - 1])
            BY <4>2, <5>1, Zenon
          <5> HIDE DEF g
          <5> QED BY <5>2, <5>3, Zenon
        <4> QED BY <4>1, <4>2
      <3>4. g = [n \in 0 .. k |-> g[n]]
        BY Zenon
      <3>5. AfterCells(doc, row, k, g)
        <4> HIDE DEF g
        <4>1. g = [n \in 0 .. k |-> IF n = 0 THEN doc
                                     ELSE AppendCell(g[n - 1], row, n - 1)]
          BY <3>3, <3>4, Zenon
        <4> QED BY <4>1, Zenon DEF AfterCells
      <3> HIDE DEF g
      <3> QED BY <2>1, <3>5, Zenon
    <2> QED BY <2>2, <2>3
  <1>2. l \in 0 .. l
    BY SMT
  <1> QED BY <1>1, <1>2, Zenon

LEMMA MaxIs ==
  ASSUME NEW n \in Nat, NEW S, S \subseteq 0 .. n, S # {}
  PROVE  Max(S) \in S /\ \A y \in S : y <= Max(S)
  <1>1. PICK x \in S : \A y \in S : y <= x
    BY GreatestExists
  <1>2. \A y \in S : x >= y
    <2> SUFFICES ASSUME NEW y \in S PROVE x >= y
      OBVIOUS
    <2>1. y \in Int /\ x \in Int /\ y <= x
      BY <1>1, SMT
    <2> QED BY <2>1, SMT
  <1> DEFINE z == CHOOSE x2 \in S : \A y \in S : x2 >= y
  <1>3. z \in S /\ \A y \in S : z >= y
    BY <1>2, Zenon
  <1>4. z = Max(S)
    BY DEF Max
  <1> HIDE DEF z
  <1>5. \A y \in S : y <= z
    <2> SUFFICES ASSUME NEW y \in S PROVE y <= z
      OBVIOUS
    <2>1. y \in Int /\ z \in Int /\ z >= y
      BY <1>3, SMT
    <2> QED BY <2>1, SMT
  <1> QED BY <1>3, <1>4, <1>5

LEMMA LastColIs ==
  ASSUME NEW row \in [Col -> Cells]
  PROVE  /\ LastCol(row) \in 0 .. NumCols
         /\ \A c \in Filled(row) : c < LastCol(row)
         /\ \A c \in 0 .. LastCol(row) - 1 : c \in Col /\ row[c] \in Cells
  <1> DEFINE S == {c + 1 : c \in Filled(row)} \cup {0}
  <1>0. NumCols \in Nat
    BY ScreenAssumption
  <1>1. Filled(row) \subseteq 0 .. NumCols - 1
    BY DEF Filled, Col
  <1>2. S \subseteq 0 .. NumCols /\ S # {}
    <2>1. \A c \in Filled(row) : c + 1 \in 0 .. NumCols
      BY <1>0, <1>1, SMT
    <2>2. 0 \in 0 .. NumCols
      BY <1>0, SMT
    <2> QED BY <2>1, <2>2, Zenon
  <1>3. Max(S) \in S /\ \A y \in S : y <= Max(S)
    <2> HIDE DEF S
    <2> QED BY <1>0, <1>2, MaxIs
  <1>4. LastCol(row) = Max(S)
    BY DEF LastCol
  <1>5. \A c \in Filled(row) : c + 1 \in S
    BY Zenon
  <1> HIDE DEF S
  <1>6. LastCol(row) \in 0 .. NumCols /\ \A y \in S : y <= LastCol(row)
    BY <1>2, <1>3, <1>4, Zenon
  <1>7. ASSUME NEW c \in Filled(row) PROVE c < LastCol(row)
    <2>1. c + 1 <= LastCol(row) /\ c \in 0 .. NumCols - 1
      BY <1>1, <1>5, <1>6, Zenon
    <2> QED BY <1>0, <1>6, <2>1, SMT
  <1>8. ASSUME NEW c \in 0 .. LastCol(row) - 1 PROVE c \in Col /\ row[c] \in Cells
    <2>1. c \in Col
      BY <1>0, <1>6, SMT DEF Col
    <2> QED BY <2>1
  <1> QED BY <1>6, <1>7, <1>8

LEMMA AppendRowIs ==
  ASSUME NEW d, Neat(d), NEW row \in [Col -> Cells]
  PROVE  LET e == AppendRow(d, row)
         IN  /\ KeptIn(d, e) /\ Len(e.text) = Len(d.text) + LastCol(row)
             /\ \A c \in 0 .. LastCol(row) - 1 :
                  ShowsAt(e, Len(d.text) + c + 1, row[c])
  <1> DEFINE l == LastCol(row)
             m == Len(d.text)
             after == CHOOSE f : AfterCells(d, row, l, f)
             UpToCell(n) == /\ KeptIn(d, after[n]) /\ Len(after[n].text) = m + n
                            /\ n > 0 => EndsInRun(after[n])
                            /\ \A c \in 0 .. n - 1 : ShowsAt(after[n], m + c + 1, row[c])
  <1>0. l \in Nat /\ m \in Nat /\ \A c \in 0 .. l - 1 : row[c] \in Cells
    <2>1. l \in 0 .. NumCols /\ NumCols \in Nat
      BY LastColIs, ScreenAssumption
    <2>2. d \in Docs
      BY DEF Neat
    <2> HIDE DEF l
    <2>3. l \in Nat
      BY <2>1, SMT
    <2> QED BY <2>2, <2>3, DocIs, LastColIs, Zenon DEF l
  <1>1. AfterCells(d, row, l, after)
    <2> HIDE DEF l
    <2> QED BY <1>0, CellsSoFar, Zenon
  <1>2. AppendRow(d, row) = after[l]
    BY Zenon DEF AppendRow, AfterCells
  <1> HIDE DEF l, m, after
  <1> DEFINE T == {n \in 0 .. l : ~UpToCell(n)}
  <1>3. T = {}
    <2> SUFFICES ASSUME T # {} PROVE FALSE
      OBVIOUS
    <2>1. PICK k \in T : \A j \in T : k <= j
      <3>1. T \in SUBSET Nat
        <4> HIDE DEF UpToCell
        <4> QED BY <1>0, SMT
      <3> HIDE DEF T
      <3> QED BY <3>1, LeastExists
    <2>2. after[k] = IF k = 0 THEN d ELSE AppendCell(after[k - 1], row, k - 1)
      BY <1>1, Zenon DEF AfterCells
    <2>3. CASE k = 0
      <3>1. after[k] = d /\ KeptIn(d, d)
        BY <2>2, <2>3, KeptInItself
      <3>2. Len(d.text) = m + k /\ ~(k > 0) /\ 0 .. k - 1 = {}
        BY <1>0, <2>3, SMT DEF m
      <3> QED BY <2>1, <3>1, <3>2, Zenon
    <2>4. CASE k # 0
      <3> DEFINE p == after[k - 1]
                 e == AppendCell(p, row, k - 1)
      <3>1. /\ k - 1 \in 0 .. l /\ ~(k <= k - 1) /\ k - 1 \in Nat /\ k - 1 \in 0 .. l - 1
            /\ k \in Nat
        BY <1>0, <2>1, <2>4, SMT
      <3>2. UpToCell(k - 1)
        BY <2>1, <3>1, Zenon
      <3>3. d \in Docs /\ p \in Docs /\ Neat(p)
        BY <3>2 DEF KeptIn, Neat
      <3>4. k - 1 > 0 => EndsInRun(p)
        BY <3>2
      <3>5. after[k] = e
        BY <2>2, <2>4
      <3>6. /\ KeptIn(p, e) /\ Len(e.text) = Len(p.text) + 1
            /\ EndsInRun(e) /\ ShowsAt(e, Len(e.text), row[k - 1])
        <4> HIDE DEF UpToCell, p
        <4> QED BY <1>0, <3>1, <3>3, <3>4, AppendCellIs
      <3>7. KeptIn(d, p) /\ Len(p.text) = m + (k - 1)
            /\ \A c \in 0 .. k - 2 : ShowsAt(p, m + c + 1, row[c])
        <4>1. (k - 1) - 1 = k - 2
          BY <3>1, SMT
        <4> QED BY <3>2, <4>1
      <3> HIDE DEF UpToCell, p, e
      <3>8. KeptIn(d, e)
        BY <3>3, <3>6, <3>7, KeptInTurn
      <3>9. Len(e.text) = m + k /\ m + (k - 1) + 1 = m + k
        BY <1>0, <3>1, <3>6, <3>7, SMT
      <3>10. ASSUME NEW c \in 0 .. k - 1 PROVE ShowsAt(e, m + c + 1, row[c])
        <4>1. CASE c = k - 1
          <5>1. m + c + 1 = m + k
            BY <1>0, <3>1, <4>1, SMT
          <5> QED BY <3>6, <3>9, <4>1, <5>1
        <4>2. CASE c # k - 1
          <5>1. c \in 0 .. k - 2
            BY <3>1, <4>2, SMT
          <5> QED BY <3>6, <3>7, <5>1, Zenon DEF KeptIn
        <4> QED BY <4>1, <4>2
      <3>11. UpToCell(k)
        BY <3>5, <3>6, <3>8, <3>9, <3>10, Zenon DEF UpToCell
      <3> QED BY <2>1, <3>11
    <2> QED BY <2>3, <2>4
  <1>4. UpToCell(l)
    <2>1. l \in 0 .. l
      BY <1>0, SMT
    <2> HIDE DEF UpToCell
    <2> QED BY <1>3, <2>1, Zenon
  <1> QED BY <1>2, <1>4 DEF l, m

-----------------------------------------------------------------------------
(* The rows, each on a line of its own.                                    *)

Breaks(doc) == {p \in DOMAIN doc.text : doc.text[p] = LineBreak}

LEMMA NoTextIs == Neat(NoText) /\ Len(NoText.text) = 0 /\ Breaks(NoText) = {}
  <1> DEFINE t == <<>>
  <1>1. t \in Seq(Glyphs) /\ t \in Seq(Runs) /\ Len(t) = 0 /\ DOMAIN t = {}
    <2>1. <<>> \in Seq(Glyphs) /\ <<>> \in Seq(Runs) /\ Len(<<>>) = 0
      BY EmptySeq
    <2>2. DOMAIN <<>> = 1 .. Len(<<>>)
      BY <2>1, DomainIs
    <2>3. 1 .. 0 = {}
      BY SMT
    <2> QED BY <2>1, <2>2, <2>3
  <1> HIDE DEF t
  <1>2. NoText = [text |-> t, runs |-> t]
    BY DEF NoText, t
  <1>3. NoText \in Docs /\ NoText.text = t /\ NoText.runs = t
    BY <1>1, <1>2, MadeIs
  <1> QED BY <1>1, <1>3, Zenon DEF Neat, Breaks

\* A new line is one more break, and a row none.
LEMMA NewLineBreaks ==
  ASSUME NEW d, Neat(d)
  PROVE  Breaks(NewLine(d)) = Breaks(d) \cup {Len(d.text) + 1}
  <1> DEFINE e == NewLine(d)
             l == Len(d.text)
  <1>1. /\ KeptIn(d, e) /\ Len(e.text) = l + 1 /\ e.text[Len(e.text)] = LineBreak
        /\ Len(e.text) \in DOMAIN e.text
    BY NewLineIs
  <1>2. l \in Nat /\ DOMAIN d.text = 1 .. l /\ DOMAIN e.text = 1 .. Len(e.text)
    <2>1. d \in Docs /\ e \in Docs
      BY <1>1 DEF KeptIn, Neat
    <2> HIDE DEF e
    <2> QED BY <2>1, DocIs
  <1> HIDE DEF e, l
  <1>3. DOMAIN e.text = (DOMAIN d.text) \cup {l + 1}
    BY <1>1, <1>2, SMT
  <1>4. \A p \in DOMAIN d.text : e.text[p] = d.text[p]
    BY <1>1 DEF KeptIn
  <1>5. e.text[l + 1] = LineBreak
    BY <1>1, Zenon
  <1>6. Breaks(e) = Breaks(d) \cup {l + 1}
    <2> DEFINE b == LineBreak
    <2>1. Breaks(d) = {p \in DOMAIN d.text : d.text[p] = b}
          /\ Breaks(e) = {p \in DOMAIN e.text : e.text[p] = b}
      BY DEF Breaks
    <2> HIDE DEF b
    <2> QED BY <1>3, <1>4, <1>5, <2>1 DEF b
  <1> QED BY <1>6 DEF e, l

LEMMA RowHasNoBreaks ==
  ASSUME NEW d, Neat(d), NEW row \in [Col -> Cells]
  PROVE  Breaks(AppendRow(d, row)) = Breaks(d)
  <1> DEFINE e == AppendRow(d, row)
             l == Len(d.text)
             m == LastCol(row)
  <1>1. /\ KeptIn(d, e) /\ Len(e.text) = l + m
        /\ \A c \in 0 .. m - 1 : ShowsAt(e, l + c + 1, row[c])
    BY AppendRowIs
  <1>2. /\ l \in Nat /\ DOMAIN d.text = 1 .. l /\ DOMAIN e.text = 1 .. Len(e.text)
        /\ m \in Nat
    <2>1. d \in Docs /\ e \in Docs
      BY <1>1 DEF KeptIn, Neat
    <2>2. m \in 0 .. NumCols /\ NumCols \in Nat
      BY LastColIs, ScreenAssumption
    <2> HIDE DEF e, m
    <2>3. m \in Nat
      BY <2>2, SMT
    <2> QED BY <2>1, <2>3, DocIs
  <1>3. \A c \in 0 .. m - 1 : row[c] \in Cells
    BY LastColIs
  <1> HIDE DEF e, l, m
  <1>4. DOMAIN d.text \subseteq DOMAIN e.text
    BY <1>1, <1>2, SMT
  <1>5. \A p \in DOMAIN d.text : e.text[p] = d.text[p]
    BY <1>1 DEF KeptIn
  <1>6. ASSUME NEW p \in DOMAIN e.text, p \notin DOMAIN d.text PROVE e.text[p] # LineBreak
    <2> DEFINE c == p - l - 1
    <2>1. c \in 0 .. m - 1 /\ l + c + 1 = p
      BY <1>1, <1>2, <1>6, SMT
    <2> HIDE DEF c
    <2>2. e.text[p] = row[c].char
      BY <1>1, <2>1, Zenon DEF ShowsAt
    <2>3. row[c].char \in Nat
      BY <1>3, <2>1, Zenon DEF Cells
    <2> QED BY <2>2, <2>3, SMT DEF LineBreak
  <1>7. Breaks(e) = Breaks(d)
    BY <1>4, <1>5, <1>6, Zenon DEF Breaks
  <1> QED BY <1>7 DEF e

\* The documents after each of the first k rows.
AfterRows(rows, k, f) ==
    f = [i \in 1 .. k |-> AppendRow(IF i = 1 THEN NoText ELSE NewLine(f[i - 1]), rows[i])]

LEMMA RowsSoFar ==
  ASSUME NEW rows, NEW l \in Nat
  PROVE  \E f : AfterRows(rows, l, f)
  <1> DEFINE T == {k \in 0 .. l : ~ \E f : AfterRows(rows, k, f)}
  <1>1. T = {}
    <2> SUFFICES ASSUME T # {} PROVE FALSE
      OBVIOUS
    <2>1. PICK k \in T : \A j \in T : k <= j
      <3>1. T \in SUBSET Nat
        BY SMT
      <3> HIDE DEF T
      <3> QED BY <3>1, LeastExists
    <2>2. CASE k = 0
      <3> DEFINE f == [i \in 1 .. 0 |-> NoText]
      <3>1. 1 .. 0 = {}
        BY SMT
      <3>2. f = [i \in 1 .. 0 |->
                   AppendRow(IF i = 1 THEN NoText ELSE NewLine(f[i - 1]), rows[i])]
        BY <3>1, Zenon
      <3>3. AfterRows(rows, 0, f)
        <4> HIDE DEF f
        <4> QED BY <3>2 DEF AfterRows
      <3> HIDE DEF f
      <3> QED BY <2>1, <2>2, <3>3, Zenon
    <2>3. CASE k # 0
      <3>1. k \in 0 .. l /\ k - 1 \in 0 .. l /\ ~(k <= k - 1)
        BY <2>1, <2>3, SMT
      <3>2. PICK f : AfterRows(rows, k - 1, f)
        BY <2>1, <3>1, Zenon
      <3> DEFINE last == AppendRow(IF k = 1 THEN NoText ELSE NewLine(f[k - 1]), rows[k])
                 g == [i \in 1 .. k |-> IF i = k THEN last ELSE f[i]]
      <3>3. ASSUME NEW i \in 1 .. k
            PROVE  g[i] = AppendRow(IF i = 1 THEN NoText ELSE NewLine(g[i - 1]), rows[i])
        <4>1. CASE i = k
          <5>1. k # 1 => k - 1 \in 1 .. k /\ k - 1 # k
            BY <2>3, <3>1, SMT
          <5>2. g[i] = last /\ (k # 1 => g[k - 1] = f[k - 1])
            BY <4>1, <5>1, Zenon
          <5> HIDE DEF g
          <5> QED BY <4>1, <5>2, Zenon
        <4>2. CASE i # k
          <5>1. i \in 1 .. k - 1 /\ (i # 1 => i - 1 \in 1 .. k /\ i - 1 # k)
            BY <3>1, <4>2, SMT
          <5>2. f[i] = AppendRow(IF i = 1 THEN NoText ELSE NewLine(f[i - 1]), rows[i])
            BY <3>2, <5>1, Zenon DEF AfterRows
          <5>3. g[i] = f[i] /\ (i # 1 => g[i - 1] = f[i - 1])
            BY <4>2, <5>1, Zenon
          <5> HIDE DEF g
          <5> QED BY <5>2, <5>3, Zenon
        <4> QED BY <4>1, <4>2
      <3>4. g = [i \in 1 .. k |-> g[i]]
        BY Zenon
      <3>5. AfterRows(rows, k, g)
        <4> HIDE DEF g
        <4>1. g = [i \in 1 .. k |->
                     AppendRow(IF i = 1 THEN NoText ELSE NewLine(g[i - 1]), rows[i])]
          BY <3>3, <3>4, Zenon
        <4> QED BY <4>1, Zenon DEF AfterRows
      <3> HIDE DEF g
      <3> QED BY <2>1, <3>5, Zenon
    <2> QED BY <2>2, <2>3
  <1>2. l \in 0 .. l
    BY SMT
  <1> QED BY <1>1, <1>2, Zenon

\* Where the text of row i starts, counted from 0.
RowStart(f, i) == IF i = 1 THEN 0 ELSE Len(f[i - 1].text) + 1

\* After row i: what the earlier rows left is kept, the row is where it starts
\* and of its length, and there is one break before every row but the first.
Lines(rows, f, i) ==
    /\ \A j \in 1 .. i : KeptIn(f[j], f[i])
    /\ Len(f[i].text) = RowStart(f, i) + LastCol(rows[i])
    /\ \A c \in 0 .. LastCol(rows[i]) - 1 : ShowsAt(f[i], RowStart(f, i) + c + 1, rows[i][c])
    /\ IsFiniteSet(Breaks(f[i])) /\ Cardinality(Breaks(f[i])) = i - 1
    /\ \A p \in Breaks(f[i]) : p <= RowStart(f, i) /\ \E j \in 2 .. i : p = RowStart(f, j)
    /\ i > 1 => RowStart(f, i) \in Breaks(f[i])

AllLines(rows, f, m) == \A i \in 1 .. m : Lines(rows, f, i)

LEMMA FirstLine ==
  ASSUME NEW rows, NEW m \in Nat \ {0}, NEW f, AfterRows(rows, m, f),
         rows[1] \in [Col -> Cells]
  PROVE  Lines(rows, f, 1)
  <1> DEFINE row == rows[1]
             e == AppendRow(NoText, row)
             n == LastCol(row)
  <1>1. f[1] = e
    <2>1. 1 \in 1 .. m
      BY SMT
    <2> QED BY <2>1, Zenon DEF AfterRows
  <1>2. /\ KeptIn(NoText, e) /\ Len(e.text) = Len(NoText.text) + n
        /\ \A c \in 0 .. n - 1 : ShowsAt(e, Len(NoText.text) + c + 1, row[c])
    BY NoTextIs, AppendRowIs
  <1>3. Len(NoText.text) = 0 /\ RowStart(f, 1) = 0 /\ n \in Int
    <2>1. n \in 0 .. NumCols
      BY LastColIs
    <2> HIDE DEF n
    <2> QED BY <2>1, NoTextIs, SMT DEF RowStart
  <1>4. Breaks(e) = {}
    BY NoTextIs, RowHasNoBreaks
  <1>5. IsFiniteSet({}) /\ Cardinality({}) = 1 - 1
    BY FS_EmptySet, SMT
  <1>6. KeptIn(e, e)
    BY <1>2, KeptInItself DEF KeptIn
  <1>7. \A j \in 1 .. 1 : j = 1
    BY SMT
  <1> HIDE DEF e, n
  <1>8. Len(e.text) = RowStart(f, 1) + n
    BY <1>2, <1>3, SMT
  <1>9. \A c \in 0 .. n - 1 : ShowsAt(e, RowStart(f, 1) + c + 1, row[c])
    BY <1>2, <1>3, Zenon
  <1>10. ~(1 > 1)
    BY SMT
  <1> QED
    BY <1>1, <1>4, <1>5, <1>6, <1>7, <1>8, <1>9, <1>10, Zenon DEF Lines, n

LEMMA OneMoreLine ==
  ASSUME NEW rows, NEW m \in Nat, NEW f, AfterRows(rows, m, f),
         NEW i \in 2 .. m, \A j \in 1 .. i - 1 : Lines(rows, f, j),
         rows[i] \in [Col -> Cells]
  PROVE  Lines(rows, f, i)
  <1> DEFINE row == rows[i]
             d == f[i - 1]
             b == NewLine(d)
             e == AppendRow(b, row)
             l == Len(d.text)
             n == LastCol(row)
  <1>0. /\ i \in 1 .. m /\ i # 1 /\ i \in Int /\ i > 1 /\ i - 1 \in 1 .. i - 1
        /\ i - 1 \in 1 .. i /\ (i - 1) + 1 = i
    BY SMT
  <1>1. f[i] = e
    BY <1>0, Zenon DEF AfterRows
  <1>2. KeptIn(d, d) /\ Neat(d)
    BY <1>0, Zenon DEF Lines, KeptIn
  <1>3. KeptIn(d, b) /\ Len(b.text) = l + 1 /\ Neat(b)
    BY <1>2, NewLineIs DEF KeptIn
  <1>4. /\ KeptIn(b, e) /\ Len(e.text) = Len(b.text) + n
        /\ \A c \in 0 .. n - 1 : ShowsAt(e, Len(b.text) + c + 1, row[c])
    BY <1>3, AppendRowIs
  <1>5. Breaks(e) = Breaks(d) \cup {l + 1}
    BY <1>2, <1>3, NewLineBreaks, RowHasNoBreaks
  <1>6. d \in Docs /\ b \in Docs /\ e \in Docs /\ l \in Nat /\ n \in Int
    <2>1. d \in Docs /\ b \in Docs /\ e \in Docs
      BY <1>2, <1>3, <1>4 DEF KeptIn, Neat
    <2>2. n \in 0 .. NumCols
      BY LastColIs
    <2> HIDE DEF n, b, e
    <2>3. n \in Int
      BY <2>2, SMT
    <2>4. l \in Nat
      BY <2>1, DocIs
    <2> QED BY <2>1, <2>3, <2>4
  <1>7. RowStart(f, i) = l + 1
    BY <1>0, Zenon DEF RowStart
  <1>8. l + 1 \notin Breaks(d)
    <2>1. l + 1 \notin DOMAIN d.text
      <3>1. DOMAIN d.text = 1 .. l
        BY <1>6, DocIs
      <3> HIDE DEF l, d
      <3> QED BY <1>6, <3>1, SMT
    <2> QED BY <2>1, Zenon DEF Breaks
  <1> HIDE DEF d, b, e, l, n
  <1>9. KeptIn(d, e)
    BY <1>3, <1>4, <1>6, KeptInTurn
  <1>10. \A j \in 1 .. i : KeptIn(f[j], e)
    <2> SUFFICES ASSUME NEW j \in 1 .. i PROVE KeptIn(f[j], e)
      OBVIOUS
    <2>1. CASE j = i
      <3>1. Neat(e)
        BY <1>9 DEF KeptIn
      <3> QED BY <1>1, <2>1, <3>1, KeptInItself
    <2>2. CASE j # i
      <3>1. j \in 1 .. i - 1 /\ j \in 1 .. j
        BY <1>0, <2>2, SMT
      <3>2. KeptIn(f[j], d) /\ KeptIn(f[j], f[j])
        BY <1>0, <3>1, Zenon DEF Lines, d
      <3>3. f[j] \in Docs
        BY <3>2 DEF KeptIn, Neat
      <3> QED BY <1>6, <1>9, <3>2, <3>3, KeptInTurn
    <2> QED BY <2>1, <2>2
  <1>11. Len(e.text) = RowStart(f, i) + n
    BY <1>3, <1>4, <1>6, <1>7, SMT
  <1>12. \A c \in 0 .. n - 1 : ShowsAt(e, RowStart(f, i) + c + 1, row[c])
    BY <1>3, <1>4, <1>7, Zenon
  <1>13. IsFiniteSet(Breaks(e)) /\ Cardinality(Breaks(e)) = i - 1
    <2> DEFINE old == Breaks(d)
    <2>1. IsFiniteSet(old) /\ Cardinality(old) = (i - 1) - 1
      BY <1>0, Zenon DEF Lines, d
    <2>2. l + 1 \notin old /\ Breaks(e) = old \cup {l + 1}
      BY <1>5, <1>8
    <2> HIDE DEF old
    <2>3. /\ IsFiniteSet(old \cup {l + 1})
          /\ Cardinality(old \cup {l + 1}) = Cardinality(old) + 1
      BY <2>1, <2>2, FS_AddElement, Zenon
    <2>4. ((i - 1) - 1) + 1 = i - 1
      BY <1>0, SMT
    <2> QED BY <2>1, <2>2, <2>3, <2>4, Zenon
  <1>14. ASSUME NEW p \in Breaks(e)
         PROVE  p <= RowStart(f, i) /\ \E j \in 2 .. i : p = RowStart(f, j)
    <2>1. CASE p = l + 1
      <3>1. i \in 2 .. i /\ l + 1 <= l + 1
        BY <1>0, <1>6, SMT
      <3> QED BY <1>7, <2>1, <3>1, Zenon
    <2>2. CASE p \in Breaks(d)
      <3>1. PICK j \in 2 .. i - 1 : p = RowStart(f, j)
        BY <1>0, <2>2, Zenon DEF Lines, d
      <3>2. j \in 2 .. i
        BY <1>0, <3>1, SMT
      <3>3. p \in 1 .. l
        <4>1. DOMAIN d.text = 1 .. l
          BY <1>6, DocIs DEF l
        <4> QED BY <2>2, <4>1, Zenon DEF Breaks
      <3>4. p <= l + 1
        BY <1>6, <3>3, SMT
      <3> QED BY <1>7, <3>1, <3>2, <3>4, Zenon
    <2> QED BY <1>5, <2>1, <2>2
  <1>15. RowStart(f, i) \in Breaks(e)
    BY <1>5, <1>7, Zenon
  <1> QED
    BY <1>1, <1>10, <1>11, <1>12, <1>13, <1>14, <1>15, Zenon DEF Lines, n

LEMMA LinesAre ==
  ASSUME NEW rows \in Seq([Col -> Cells]), NEW f, AfterRows(rows, Len(rows), f)
  PROVE  AllLines(rows, f, Len(rows))
  <1> DEFINE m == Len(rows)
             T == {i \in 1 .. m : ~Lines(rows, f, i)}
  <1>0. m \in Nat /\ \A i \in 1 .. m : rows[i] \in [Col -> Cells]
    BY DomainIs, Zenon
  <1> HIDE DEF m
  <1> SUFFICES ASSUME T # {} PROVE FALSE
    BY DEF m, AllLines
  <1>1. PICK k \in T : \A j \in T : k <= j
    <2>1. T \in SUBSET Nat
      BY <1>0, SMT
    <2> HIDE DEF T
    <2> QED BY <2>1, LeastExists
  <1>2. k \in 1 .. m /\ m \in Nat \ {0} /\ 1 \in 1 .. m
    BY <1>0, <1>1, SMT
  <1>3. AfterRows(rows, m, f)
    BY DEF m
  <1>4. CASE k = 1
    <2>1. Lines(rows, f, 1)
      BY <1>0, <1>2, <1>3, FirstLine, Zenon
    <2> QED BY <1>1, <1>4, <2>1
  <1>5. CASE k # 1
    <2>1. k - 1 \in 1 .. m /\ ~(k <= k - 1) /\ k \in 2 .. m
      BY <1>0, <1>2, <1>5, SMT
    <2>2. \A j \in 1 .. k - 1 : Lines(rows, f, j)
      <3>1. \A j \in 1 .. k - 1 : j \in 1 .. m /\ ~(k <= j)
        BY <1>2, SMT
      <3> QED BY <1>1, <3>1, Zenon
    <2>3. Lines(rows, f, k)
      BY <1>0, <1>2, <1>3, <2>1, <2>2, OneMoreLine, Zenon
    <2> QED BY <1>1, <2>3
  <1> QED BY <1>4, <1>5

\* The break before line i, or 0 where there is none.
LineAt(newlines, i) ==
    Min({p \in {0} \cup newlines : Cardinality({q \in newlines : q <= p}) = i - 1})

\* Row i starts at its own break, and at no other.
LEMMA StartIs ==
  ASSUME NEW rows, NEW f, NEW m \in Nat, AllLines(rows, f, m),
         NEW i \in 1 .. m, NEW N, N = Breaks(f[m])
  PROVE  RowStart(f, i) = LineAt(N, i)
  <1> USE DEF AllLines
  <1> DEFINE Upto(p) == {q \in N : q <= p}
             X == {p \in {0} \cup N : Cardinality(Upto(p)) = i - 1}
  <1>1. ASSUME NEW j \in 1 .. m PROVE Cardinality(Upto(RowStart(f, j))) = j - 1
    <2> DEFINE s == RowStart(f, j)
    <2>1. Lines(rows, f, j) /\ Lines(rows, f, m)
      <3>1. m \in 1 .. m
        BY SMT
      <3> QED BY <3>1
    <2>2. KeptIn(f[j], f[m]) /\ Neat(f[j])
      <3>1. KeptIn(f[j], f[j])
        <4>1. j \in 1 .. j
          BY SMT
        <4> QED BY <2>1, <4>1, Zenon DEF Lines
      <3> QED BY <2>1, <3>1, Zenon DEF Lines, KeptIn
    <2>3. /\ f[j] \in Docs /\ f[m] \in Docs /\ Len(f[j].text) = s + LastCol(rows[j])
      BY <2>1, <2>2, Zenon DEF KeptIn, Neat, Lines
    <2>4. Breaks(f[j]) \subseteq Upto(s)
      <3> SUFFICES ASSUME NEW q \in Breaks(f[j]) PROVE q \in N /\ q <= s
        OBVIOUS
      <3>1. q <= s
        BY <2>1, Zenon DEF Lines
      <3>2. q \in DOMAIN f[j].text /\ f[j].text[q] = LineBreak
        BY Zenon DEF Breaks
      <3>3. q \in DOMAIN f[m].text
        <4>1. /\ DOMAIN f[j].text = 1 .. Len(f[j].text) /\ Len(f[j].text) \in Nat
              /\ DOMAIN f[m].text = 1 .. Len(f[m].text) /\ Len(f[m].text) \in Nat
          BY <2>3, DocIs
        <4>2. Len(f[j].text) <= Len(f[m].text)
          BY <2>2 DEF KeptIn
        <4> QED BY <3>2, <4>1, <4>2, SMT
      <3>4. f[m].text[q] = LineBreak
        BY <2>2, <3>2, Zenon DEF KeptIn
      <3> QED BY <3>1, <3>3, <3>4, Zenon DEF Breaks
    <2>5. Upto(s) \subseteq Breaks(f[j])
      <3> SUFFICES ASSUME NEW q \in N, q <= s PROVE q \in Breaks(f[j])
        OBVIOUS
      <3>1. q \in DOMAIN f[j].text
        <4>0. j = 1 => s = 0
          BY Zenon DEF RowStart
        <4>1. j > 1 => s \in DOMAIN f[j].text
          BY <2>1, Zenon DEF Lines, Breaks
        <4>2. DOMAIN f[j].text = 1 .. Len(f[j].text) /\ Len(f[j].text) \in Nat
              /\ DOMAIN f[m].text = 1 .. Len(f[m].text) /\ Len(f[m].text) \in Nat
          BY <2>3, DocIs
        <4>3. q \in DOMAIN f[m].text
          BY Zenon DEF Breaks
        <4> HIDE DEF s
        <4> QED BY <4>0, <4>1, <4>2, <4>3, SMT
      <3>2. f[j].text[q] = LineBreak
        BY <2>2, <3>1, Zenon DEF KeptIn, Breaks
      <3> QED BY <3>1, <3>2, Zenon DEF Breaks
    <2>6. Upto(s) = Breaks(f[j])
      BY <2>4, <2>5, Zenon
    <2> QED BY <2>1, <2>6, Zenon DEF Lines
  <1>2. RowStart(f, i) \in {0} \cup N
    <2>1. CASE i = 1
      BY <2>1, Zenon DEF RowStart
    <2>2. CASE i # 1
      <3>1. i > 1 /\ m \in 1 .. m
        BY <2>2, SMT
      <3>2. RowStart(f, i) \in Breaks(f[i]) /\ KeptIn(f[i], f[m])
        BY <3>1, Zenon DEF Lines
      <3>3. i \in 1 .. i
        BY SMT
      <3>4. Neat(f[i]) /\ Neat(f[m])
        BY <3>2, <3>3, Zenon DEF Lines, KeptIn
      <3>5. DOMAIN f[i].text \subseteq DOMAIN f[m].text
        <4>1. /\ DOMAIN f[i].text = 1 .. Len(f[i].text) /\ Len(f[i].text) \in Nat
              /\ DOMAIN f[m].text = 1 .. Len(f[m].text) /\ Len(f[m].text) \in Nat
          BY <3>4, DocIs DEF Neat
        <4>2. Len(f[i].text) <= Len(f[m].text)
          BY <3>2 DEF KeptIn
        <4> QED BY <4>1, <4>2, SMT
      <3> QED BY <3>2, <3>5, Zenon DEF Breaks, KeptIn
    <2> QED BY <2>1, <2>2
  <1>3. ASSUME NEW p \in X PROVE p = RowStart(f, i)
    <2>1. PICK j \in 1 .. m : p = RowStart(f, j)
      <3>1. CASE p = 0
        <4>1. 1 \in 1 .. m
          BY SMT
        <4> QED BY <3>1, <4>1, Zenon DEF RowStart
      <3>2. CASE p \in N
        <4>1. m \in 1 .. m /\ 2 .. m \subseteq 1 .. m
          BY SMT
        <4> QED BY <3>2, <4>1, Zenon DEF Lines
      <3> QED BY <3>1, <3>2, Zenon
    <2>2. Cardinality(Upto(p)) = j - 1 /\ Cardinality(Upto(p)) = i - 1
      BY <1>1, <2>1, Zenon
    <2>3. j = i
      <3> HIDE DEF Upto, X
      <3> QED BY <2>2, SMT
    <2> QED BY <2>1, <2>3
  <1>4. X = {RowStart(f, i)}
    <2>1. RowStart(f, i) \in X
      BY <1>1, <1>2, Zenon
    <2> HIDE DEF X
    <2> QED BY <1>3, <2>1, Zenon
  <1>5. RowStart(f, i) \in Nat
    <2>1. CASE i = 1
      BY <2>1, SMT DEF RowStart
    <2>2. CASE i # 1
      <3>1. i - 1 \in 1 .. m /\ i - 1 \in 1 .. i - 1
        BY <2>2, SMT
      <3>2. f[i - 1] \in Docs
        BY <3>1, Zenon DEF Lines, KeptIn, Neat
      <3>3. Len(f[i - 1].text) \in Nat
        BY <3>2, DocIs
      <3> QED BY <2>2, <3>3, SMT DEF RowStart
    <2> QED BY <2>1, <2>2
  <1> DEFINE s == RowStart(f, i)
  <1>6. s <= s
    <2>1. s \in Nat
      BY <1>5
    <2> HIDE DEF s
    <2> QED BY <2>1, SMT
  <1>7. Min({s}) = s
    <2> HIDE DEF s
    <2> QED BY <1>6, Zenon DEF Min
  <1>8. Min(X) = RowStart(f, i)
    BY <1>4, <1>7
  <1> QED BY <1>8, Zenon DEF LineAt

-----------------------------------------------------------------------------
(* The rows that are shown, and the theorem.                               *)

LEMMA ShownRowsAre ==
  ASSUME NEW C, Holds(cells, C), screen \in ScreenType
  PROVE  /\ ShownRows \in Seq([Col -> C]) /\ Len(ShownRows) \in Nat \ {0}
         /\ \A r \in Row : Filled(cells.grid[r]) # {} =>
              \E i \in 1 .. Len(ShownRows) : ShownRows[i] = cells.grid[r]
  <1> DEFINE S == {r \in Row : Filled(cells.grid[r]) # {}} \cup {screen.row}
             last == LastRow
             t == [i \in 1 .. last + 1 |-> cells.grid[i - 1]]
             h == cells.history
             all == h \o t
  <1>0. NumRows \in Nat
    BY ScreenAssumption
  <1>1. h \in Seq([Col -> C]) /\ cells.grid \in [Row -> [Col -> C]]
    BY DEF Holds
  <1>2. screen.row \in Row
    BY Zenon DEF ScreenType
  <1>3. S \subseteq 0 .. NumRows /\ S \subseteq Row /\ S # {}
    <2>1. S \subseteq Row /\ S # {}
      BY <1>2, Zenon
    <2>2. Row \subseteq 0 .. NumRows
      BY <1>0, SMT DEF Row
    <2> HIDE DEF S
    <2> QED BY <2>1, <2>2, Zenon
  <1>4. last \in Row /\ \A r \in S : r <= last
    <2>1. last = Max(S)
      BY DEF LastRow
    <2> HIDE DEF S, last
    <2>2. Max(S) \in S /\ \A r \in S : r <= Max(S)
      BY <1>0, <1>3, MaxIs
    <2> QED BY <1>3, <2>1, <2>2, Zenon
  <1>5. \A r \in Row : Filled(cells.grid[r]) # {} => r \in S
    BY Zenon
  <1> HIDE DEF S, last, h
  <1>6. last + 1 \in Nat /\ last + 1 > 0 /\ \A i \in 1 .. last + 1 : i - 1 \in Row
    BY <1>0, <1>4, SMT DEF Row
  <1>7. t \in Seq([Col -> C]) /\ Len(t) = last + 1
    <2> DEFINE R == [Col -> C]
               g == cells.grid
               k == last + 1
    <2>1. \A i \in 1 .. k : g[i - 1] \in R
      BY <1>1, <1>6, Zenon
    <2> HIDE DEF R, g, k
    <2>2. [i \in 1 .. k |-> g[i - 1]] \in Seq(R) /\ Len([i \in 1 .. k |-> g[i - 1]]) = k
      <3>1. k \in Nat
        BY <1>6 DEF k
      <3> QED BY <2>1, <3>1, SMT
    <2> QED BY <2>2 DEF R, g, k
  <1>8. \A i \in 1 .. last + 1 : t[i] = cells.grid[i - 1]
    BY Zenon
  <1> HIDE DEF t
  <1>9. /\ all \in Seq([Col -> C]) /\ Len(all) = Len(h) + (last + 1)
        /\ \A i \in 1 .. Len(t) : all[Len(h) + i] = t[i]
    <2> DEFINE R == [Col -> C]
    <2>1. h \in Seq(R) /\ t \in Seq(R)
      BY <1>1, <1>7
    <2> HIDE DEF R
    <2>2. /\ all \in Seq(R) /\ Len(all) = Len(h) + Len(t)
          /\ \A i \in 1 .. Len(t) : all[Len(h) + i] = t[i]
      BY <2>1, JoinIs
    <2> QED BY <1>7, <2>2 DEF R
  <1>10. ShownRows = all
    BY DEF ShownRows, t, h, last
  <1>11. Len(h) \in Nat
    BY <1>1, DomainIs
  <1> HIDE DEF all
  <1>12. ASSUME NEW r \in Row, Filled(cells.grid[r]) # {}
         PROVE  \E i \in 1 .. Len(all) : all[i] = cells.grid[r]
    <2>1. r \in Int /\ last \in Int /\ r <= last /\ 0 <= r
      <3>1. r <= last
        BY <1>4, <1>5, <1>12, Zenon
      <3> QED BY <1>4, <3>1, SMT DEF Row
    <2>2. /\ r + 1 \in 1 .. last + 1 /\ r + 1 \in 1 .. Len(t) /\ (r + 1) - 1 = r
          /\ Len(h) + (r + 1) \in 1 .. Len(all)
      BY <1>7, <1>9, <1>11, <2>1, SMT
    <2>3. all[Len(h) + (r + 1)] = t[r + 1] /\ t[r + 1] = cells.grid[(r + 1) - 1]
      BY <1>8, <1>9, <2>2, Zenon
    <2> QED BY <2>2, <2>3, Zenon
  <1>13. Len(all) \in Nat \ {0}
    BY <1>6, <1>9, <1>11, SMT
  <1> QED BY <1>9, <1>10, <1>12, <1>13, Zenon

\* A place in a neat document has one run at most.
LEMMA CoveredOnce ==
  ASSUME NEW d, Neat(d), NEW p \in Nat,
         NEW j \in DOMAIN d.runs, d.runs[j].start < p, p <= End(d.runs[j]),
         NEW k \in DOMAIN d.runs, d.runs[k].start < p, p <= End(d.runs[k])
  PROVE  j = k
  <1>0. d \in Docs
    BY DEF Neat
  <1>1. /\ j \in Nat /\ k \in Nat
        /\ d.runs[j].start \in Nat /\ End(d.runs[j]) \in Nat
        /\ d.runs[k].start \in Nat /\ End(d.runs[k]) \in Nat
    <2>1. DOMAIN d.runs = 1 .. Len(d.runs) /\ Len(d.runs) \in Nat
      BY <1>0, DocIs
    <2>2. j \in Nat /\ k \in Nat
      BY <2>1, SMT
    <2> QED BY <1>0, <2>2, DocIs, Zenon
  <1>2. j < k => End(d.runs[j]) <= d.runs[k].start
    BY Zenon DEF Neat
  <1>3. k < j => End(d.runs[k]) <= d.runs[j].start
    BY Zenon DEF Neat
  <1> QED BY <1>1, <1>2, <1>3, SMT

LEMMA LinesShow ==
  ASSUME NEW rows, NEW f, NEW m \in Nat, m # 0, AllLines(rows, f, m),
         NEW doc, doc = f[m], NEW N, N = Breaks(f[m])
  PROVE  /\ Neat(doc) /\ Cardinality(N) = m - 1
         /\ \A i \in 1 .. m : \A c \in 0 .. LastCol(rows[i]) - 1 :
              ShowsAt(doc, LineAt(N, i) + c + 1, rows[i][c])
  <1>1. \A i \in 1 .. m : Lines(rows, f, i)
    BY DEF AllLines
  <1>2. m \in 1 .. m
    BY SMT
  <1>3. Neat(doc) /\ Cardinality(N) = m - 1
    BY <1>1, <1>2, Zenon DEF Lines, KeptIn
  <1>4. ASSUME NEW i \in 1 .. m
        PROVE  RowStart(f, i) = LineAt(N, i)
    BY StartIs
  <1>5. ASSUME NEW i \in 1 .. m, NEW c \in 0 .. LastCol(rows[i]) - 1
        PROVE  ShowsAt(doc, RowStart(f, i) + c + 1, rows[i][c])
    <2>1. ShowsAt(f[i], RowStart(f, i) + c + 1, rows[i][c])
      BY <1>1, Zenon DEF Lines
    <2>2. KeptIn(f[i], doc)
      BY <1>1, <1>2, Zenon DEF Lines
    <2> QED BY <2>1, <2>2, Zenon DEF KeptIn
  <1> QED BY <1>3, <1>4, <1>5, Zenon

LEMMA DocumentIs ==
  ASSUME NEW rows \in Seq([Col -> Cells]), Len(rows) \in Nat \ {0}, rows = ShownRows,
         NEW doc, doc = Render, NEW N, N = Breaks(doc)
  PROVE  /\ Neat(doc) /\ Cardinality(N) = Len(rows) - 1
         /\ \A i \in 1 .. Len(rows) : \A c \in 0 .. LastCol(rows[i]) - 1 :
              ShowsAt(doc, LineAt(N, i) + c + 1, rows[i][c])
  <1> DEFINE m == Len(rows)
             f == CHOOSE g : AfterRows(rows, m, g)
  <1>1. AfterRows(rows, m, f)
    <2> HIDE DEF m
    <2> QED BY RowsSoFar, Zenon DEF m
  <1>2. doc = f[m]
    BY Zenon DEF Render, AfterRows
  <1>3. AllLines(rows, f, m)
    BY <1>1, LinesAre
  <1>4. m \in Nat /\ m # 0
    OBVIOUS
  <1> HIDE DEF f, m
  <1>5. N = Breaks(f[m])
    BY <1>2
  <1>6. /\ Neat(doc) /\ Cardinality(N) = m - 1
        /\ \A i \in 1 .. m : \A c \in 0 .. LastCol(rows[i]) - 1 :
             ShowsAt(doc, LineAt(N, i) + c + 1, rows[i][c])
    BY <1>2, <1>3, <1>4, <1>5, LinesShow, Zenon
  <1> QED BY <1>6 DEF m

LEMMA CellsAreShown ==
  ASSUME Agree(cells, screen), screen \in ScreenType, LooksKept
  PROVE  ShownAsDrawn
  <1> DEFINE doc == Render
             rows == ShownRows
             newlines == {p \in DOMAIN doc.text : doc.text[p] = LineBreak}
             LineStart(i) == LineAt(newlines, i)
             Covering(p) == {k \in DOMAIN doc.runs :
                               p \in doc.runs[k].start + 1
                                       .. doc.runs[k].start + doc.runs[k].length}
  <1>1. /\ rows \in Seq([Col -> Cells]) /\ Len(rows) \in Nat \ {0}
        /\ \A r \in Row : Filled(cells.grid[r]) # {} =>
             \E i \in 1 .. Len(rows) : rows[i] = cells.grid[r]
    <2>1. Holds(cells, Cells)
      BY GridsAre DEF Agree, Holds
    <2> QED BY <2>1, ShownRowsAre
  <1>2. DOMAIN rows = 1 .. Len(rows) /\ \A i \in DOMAIN rows : rows[i] \in [Col -> Cells]
    <2> DEFINE R == [Col -> Cells]
    <2> HIDE DEF R, rows
    <2> QED BY <1>1, DomainIs, Zenon DEF R
  <1>l. \A i \in DOMAIN rows : \A c \in Col : LookOf(rows[i][c]) = rows[i][c].rendition
    <2> DEFINE R == [Col -> Fitting(looks)]
    <2>1. rows \in Seq(R)
      BY ShownRowsAre DEF LooksKept
    <2> HIDE DEF R, rows
    <2>2. \A i \in DOMAIN rows : rows[i] \in R
      BY <2>1, DomainIs, Zenon
    <2> QED BY <2>2, Zenon DEF R, Fitting, LookOf
  <1>3. /\ Neat(doc) /\ Cardinality(newlines) = Len(rows) - 1
        /\ \A i \in 1 .. Len(rows) : \A c \in 0 .. LastCol(rows[i]) - 1 :
             ShowsAt(doc, LineStart(i) + c + 1, rows[i][c])
    <2>1. newlines = Breaks(doc)
      BY DEF Breaks
    <2> HIDE DEF newlines, rows, doc
    <2>2. rows = ShownRows /\ doc = Render
      BY DEF rows, doc
    <2> QED BY <1>1, <2>1, <2>2, DocumentIs
  <1> HIDE DEF doc, rows
  <1>4. ASSUME NEW i \in DOMAIN rows, NEW c \in Col, c < LastCol(rows[i])
        PROVE  LET p == LineStart(i) + c + 1
               IN  /\ doc.text[p] = rows[i][c].char
                   /\ \E k \in Covering(p) :
                        /\ Covering(p) = {k}
                        /\ Format(doc.runs[k].rendition) = Format(LookOf(rows[i][c]))
    <2> DEFINE p == LineStart(i) + c + 1
    <2> HIDE DEF newlines, LineStart
    <2>1. c \in 0 .. LastCol(rows[i]) - 1
      <3>1. LastCol(rows[i]) \in 0 .. NumCols /\ NumCols \in Nat
        BY <1>2, LastColIs, ScreenAssumption
      <3> QED BY <1>4, <3>1, SMT DEF Col
    <2>2. ShowsAt(doc, p, rows[i][c])
      BY <1>2, <1>3, <1>4, <2>1, Zenon
    <2> HIDE DEF p
    <2>3. doc \in Docs /\ p \in Nat
      <3>1. doc \in Docs
        BY <1>3 DEF Neat
      <3>2. p \in 1 .. Len(doc.text) /\ Len(doc.text) \in Nat
        BY <2>2, <3>1, DocIs, Zenon DEF ShowsAt
      <3> QED BY <3>1, <3>2, SMT
    <2>4. \A k \in DOMAIN doc.runs :
            k \in Covering(p) <=> doc.runs[k].start < p /\ p <= End(doc.runs[k])
      <3> SUFFICES ASSUME NEW k \in DOMAIN doc.runs
                   PROVE  k \in Covering(p)
                            <=> doc.runs[k].start < p /\ p <= End(doc.runs[k])
        BY Zenon
      <3>1. doc.runs[k].start \in Nat /\ doc.runs[k].length \in Nat
        BY <2>3, DocIs, Zenon
      <3> DEFINE s == doc.runs[k].start
                 l == doc.runs[k].length
      <3>2. k \in Covering(p) <=> p \in s + 1 .. s + l
        BY Zenon
      <3>3. s \in Nat /\ l \in Nat
        BY <3>1
      <3> HIDE DEF s, l, Covering
      <3>4. p \in s + 1 .. s + l <=> s < p /\ p <= s + l
        BY <2>3, <3>3, SMT
      <3> QED BY <3>2, <3>4 DEF End, s, l
    <2>5. Covering(p) \subseteq DOMAIN doc.runs
      BY Zenon
    <2> HIDE DEF Covering
    <2>6. PICK k \in DOMAIN doc.runs :
                /\ doc.runs[k].start < p /\ p <= End(doc.runs[k])
                /\ doc.runs[k].rendition = LookOf(rows[i][c])
      BY <1>4, <1>l, <2>2, Zenon DEF ShowsAt
    <2>7. \A j \in Covering(p) : j = k
      BY <1>3, <2>3, <2>4, <2>5, <2>6, CoveredOnce, Zenon
    <2>8. k \in Covering(p)
      BY <2>4, <2>6
    <2>9. Covering(p) = {k}
      BY <2>7, <2>8, Zenon
    <2>10. doc.text[p] = rows[i][c].char
      BY <2>2, Zenon DEF ShowsAt
    <2>11. /\ doc.text[p] = rows[i][c].char
           /\ \E j \in Covering(p) :
                /\ Covering(p) = {j}
                /\ Format(doc.runs[j].rendition) = Format(LookOf(rows[i][c]))
      BY <2>6, <2>8, <2>9, <2>10, Zenon
    <2> QED BY <2>11 DEF p
  <1>5. ASSUME NEW r \in Row, NEW c \in Filled(cells.grid[r])
        PROVE  \E i \in DOMAIN rows : rows[i] = cells.grid[r] /\ c < LastCol(rows[i])
    <2>1. PICK i \in 1 .. Len(rows) : rows[i] = cells.grid[r]
      BY <1>1, Zenon
    <2>2. c < LastCol(rows[i])
      BY <1>2, <2>1, LastColIs, Zenon
    <2> QED BY <1>2, <2>1, <2>2, Zenon
  <1>6. Cardinality(newlines) = Len(rows) - 1
    BY <1>3
  <1> QED BY <1>4, <1>5, <1>6, Zenon DEF ShownAsDrawn, doc, rows, LineAt

\* Every character of the scrollback and of the screen is in the document the
\* widget makes, on the line of its row and in its column, and the one run that
\* covers it has the look its sender had asked for when it was drawn, whatever
\* has been scrolled, erased, saved or restored since: for every size of the
\* screen and of the scrollback and every number of drawing events.
THEOREM DocumentShowsCells == BridgeSpec => []ShownAsDrawn
  <1>1. BridgeInit => TypesInv
    BY TypesHoldAtFirst
  <1>2. TypesInv /\ [BridgeNext]_bridgeVars => TypesInv'
    BY StepsKeepTypes
  <1>3. TypesInv => ShownAsDrawn
    <2> SUFFICES ASSUME TypesInv, drawn > 0 PROVE ShownAsDrawn
      BY DEF ShownAsDrawn
    <2>1. drawn # 0
      BY SMT DEF TypesInv, CellsInv
    <2>2. Agree(cells, screen) /\ screen \in ScreenType /\ LooksKept
      BY <2>1 DEF TypesInv, CellsInv, CellsAsAsked
    <2> QED BY <2>2, CellsAreShown
  <1> QED BY <1>1, <1>2, <1>3, PTL DEF BridgeSpec
=============================================================================
