------------------------------ MODULE Framing ------------------------------
(***************************************************************************)
(* What goes around the bytes of a request: the length cases of an APDU,   *)
(* the chunks of a chained one, the messages of an Aliro BLE SDU and their *)
(* attributes, and the block padding of the HomeKey secure channel.  The   *)
(* four header bytes of an APDU are left out but for its chaining bit.     *)
(***************************************************************************)
EXTENDS Octets

CONSTANTS
  MaxPayload,   \* kMaxPreChainingPayload
  BlockSize     \* cipher block of the secure channel: 16

ASSUME FramingAssumption == MaxPayload \in Nat /\ BlockSize \in Nat \ {0}

-----------------------------------------------------------------------------
\* ApduCommand::to_bytes after the header: Lc, data, Le, in the short form
\* unless the extended one is asked for or needed.  ne = 0 asks for no answer.
IsExtended(data, ne, force) == force \/ Len(data) >= Base \/ ne > Base

\* Faulty: 256 in the short form is Le = FF.
ShortLeCapped(ne) == IF ne = 0 THEN <<>> ELSE IF ne = Base THEN <<Base - 1>> ELSE <<ne>>

ShortLe(ne) == IF ne = 0 THEN <<>> ELSE IF ne = Base THEN <<0>> ELSE <<ne>>

ToBytes(data, ne, force) ==
  LET le == IF ne = 0 THEN <<>> ELSE BigEndian(ne, 2)
  IN  IF data = <<>>
      THEN IF ne # 0 /\ IsExtended(data, ne, force) THEN <<0>> \o le ELSE ShortLe(ne)
      ELSE IF IsExtended(data, ne, force)
           THEN <<0>> \o BigEndian(Len(data), 2) \o data \o le
           ELSE <<Len(data)>> \o data \o ShortLe(ne)

\* The chunks of a command: the bytes of each, and whether more follow.
Chunk(data, ne, force, more) ==
  [data |-> data, more |-> more,
   bytes |-> ToBytes(data, IF more THEN 0 ELSE ne, force)]

\* Faulty: a command that fills its last chunk gets an empty one more.
CountRounded(n, size) == n \div size + 1

Count(n, size) == IF n = 0 THEN 1 ELSE (n + size - 1) \div size

\* transceive_with_chaining, or nothing when the payload is over the limit.
Chained(data, ne, max) ==
  LET size  == IF max = 0 THEN Base - 1 ELSE max
      count == Count(Len(data), size)
      Part(k) == SubSeq(data, (k - 1) * size + 1,
                        IF k = count THEN Len(data) ELSE k * size)
  IN  IF Len(data) > MaxPayload THEN <<>>
      ELSE [k \in 1 .. count |->
              Chunk(Part(k), ne, Len(Part(k)) >= Base \/ (k = count /\ ne > Base),
                    k < count)]

-----------------------------------------------------------------------------
\* Message::encode.  The two top bits of the type are reserved.
Message(type, id, payload) == [type |-> type, id |-> id, payload |-> payload]

Encode(m) == <<m.type, m.id>> \o BigEndian(Len(m.payload), 2) \o m.payload

PackSdu(ms) == FlattenSeq([k \in DOMAIN ms |-> Encode(ms[k])])

\* Faulty: what came before a malformed message is kept.
MalformedKeeps == Done(<<>>)

Malformed == Stopped

\* Message::decode at i: whether a message is all there, and the message.
PayloadLength(b, i) == Number(Slice(b, i + 2, 2))

Whole(b, i) == i + 3 <= Len(b) /\ PayloadLength(b, i) \in 1 .. Len(b) - i - 3

Decoded(b, i) ==
  Message(b[i] % (Base \div 4), b[i + 1], Slice(b, i + 4, PayloadLength(b, i)))

\* unpack_sdu: each message in turn, or none of them.
UnpackSdu(b) ==
  LET U[i \in 1 .. Len(b) + 1] ==
        IF i > Len(b) THEN Done(<<>>)
        ELSE IF Whole(b, i)
             THEN Then(Decoded(b, i), U[i + 4 + PayloadLength(b, i)])
             ELSE Malformed
  IN  IF U[1].ok THEN U[1].items ELSE <<>>

Attribute(id, value) == [id |-> id, value |-> value]

EncodeAttributes(attrs) ==
  FlattenSeq([k \in DOMAIN attrs |->
    <<attrs[k].id, Len(attrs[k].value) % Base>> \o attrs[k].value])

ParseAttributes(b) ==
  LET P[i \in 1 .. Len(b) + 1] ==
        IF i > Len(b) THEN Done(<<>>)
        ELSE IF i + 1 > Len(b) THEN Stopped
        ELSE IF i + 1 + b[i + 1] > Len(b) THEN Stopped
        ELSE Then(Attribute(b[i], Slice(b, i + 2, b[i + 1])), P[i + 2 + b[i + 1]])
  IN  P[1]

-----------------------------------------------------------------------------
PadByte == Half

\* Faulty: no marker when the message fills its blocks.
PadIfNeeded(m) ==
  IF Len(m) % BlockSize = 0 THEN m
  ELSE m \o <<PadByte>>
         \o [k \in 1 .. (BlockSize - ((Len(m) + 1) % BlockSize)) |-> 0]

\* pad_mode_3: a marker, then 1 to BlockSize zeros.
Pad(m) ==
  m \o <<PadByte>> \o [k \in 1 .. (BlockSize - ((Len(m) + 1) % BlockSize)) |-> 0]

\* unpad_mode_3: what comes before the last marker, or all but the last byte.
Unpad(m) ==
  LET marks == {i \in DOMAIN m : m[i] = PadByte}
  IN  SubSeq(m, 1, (IF marks = {} THEN Len(m)
                    ELSE CHOOSE i \in marks : \A k \in marks : k <= i) - 1)
=============================================================================
