-------------------------------- MODULE Tlv --------------------------------
(***************************************************************************)
(* The tag-length-value codecs: TLV8 (HomeKit's, with its BER variant),    *)
(* BerTlvMessage, and the one-record writers simple_tlv and envelope().    *)
(* A record is a tag and a value; the tag of BerTlvMessage is a string of  *)
(* bytes.                                                                  *)
(***************************************************************************)
EXTENDS Octets

CONSTANTS
  TagMod,     \* 2 to the bits of a tag number in the first tag byte: 32
  WordBytes,  \* sizeof(size_t)
  Top         \* the position in a buffer, counted from 1, whose address is 2 to
              \* the bits of size_t: a pointer moved to it has wrapped

ASSUME TlvAssumption ==
  TagMod \in 3 .. Base /\ WordBytes \in 1 .. Half - 1 /\ Top \in Nat

Record(tag, value) == [tag |-> tag, value |-> value]

\* The check of a value's end, pos + len > end, lets a length pass whose sum
\* wraps.  What is then taken is undefined (the range is inverted: most likely
\* the vector throws), and the parser is not followed further.
Wraps(v, len) == v + len >= Top
Wild == <<Base>>

Defined(records) == \A k \in DOMAIN records : records[k].value # Wild

-----------------------------------------------------------------------------
\* read_length at position i: the length, and the bytes it takes (0: bad).
ReadLength(b, i) ==
  LET n == b[i] - Half
  IN  IF i > Len(b) THEN [len |-> 0, used |-> 0]
      ELSE IF b[i] < Half THEN [len |-> b[i], used |-> 1]
      ELSE IF n = 0 \/ n > WordBytes \/ i + n > Len(b)
           THEN [len |-> 0, used |-> 0]
           ELSE [len |-> Number(Slice(b, i + 1, n)), used |-> 1 + n]

\* Faulty: a value of 0x80 bytes is written in the short form.
WriteLengthShort(n) ==
  IF n <= Half THEN <<n>>
  ELSE LET w == CHOOSE w \in 1 .. n : Fits(n, w) /\ ~Fits(n, w - 1)
       IN  <<Half + w>> \o BigEndian(n, w)

\* write_length: the short form below 0x80, else as few bytes as n needs.
WriteLength(n) ==
  IF n < Half THEN <<n>>
  ELSE LET w == CHOOSE w \in 1 .. n : Fits(n, w) /\ ~Fits(n, w - 1)
       IN  <<Half + w>> \o BigEndian(n, w)

\* read_tag: the bytes of the tag at i; 0 if it does not end.
ReadTag(b, i) ==
  IF i > Len(b) THEN 0
  ELSE IF b[i] % TagMod # TagMod - 1 THEN 1
  ELSE LET ends == {j \in i + 1 .. Len(b) : b[j] < Half}
       IN  IF ends = {} THEN 0
           ELSE (CHOOSE j \in ends : \A k \in ends : j <= k) - i + 1

\* BerTlvMessage::from_bytes: the records up to the first that is malformed.
BerParse(b) ==
  LET P[i \in 1 .. Len(b) + 1] ==
        LET t == ReadTag(b, i)
            l == ReadLength(b, i + t)
            v == i + t + l.used
        IN  IF t = 0 \/ l.used = 0 THEN <<>>
            ELSE IF v + l.len <= Len(b) + 1
                 THEN <<Record(Slice(b, i, t), Slice(b, v, l.len))>> \o P[v + l.len]
            ELSE IF Wraps(v, l.len) THEN <<Record(Slice(b, i, t), Wild)>> ELSE <<>>
  IN  P[1]

BerPack(records) ==
  FlattenSeq([k \in DOMAIN records |->
    records[k].tag \o WriteLength(Len(records[k].value)) \o records[k].value])

-----------------------------------------------------------------------------
\* The length field of TLV8::parse at i: one byte, or BER's.
Tlv8Length(b, i, ber) ==
  IF i <= Len(b) /\ (~ber \/ b[i] < Half)
  THEN [len |-> b[i], used |-> 1]
  ELSE ReadLength(b, i)

Merges(tag, rest) == rest.items # <<>> /\ rest.items[1].tag = tag

\* TLV8::parse: not BER, a record goes into the one before it with its tag.
\* What was read before an error stays.  A length of one byte never wraps.
Tlv8Parse(b, ber) ==
  LET P[i \in 1 .. Len(b) + 1] ==
        IF i > Len(b) THEN Done(<<>>)
        ELSE LET l == Tlv8Length(b, i + 1, ber)
                 v == i + 1 + l.used
             IN  IF l.used = 0 THEN Stopped
                 ELSE IF v + l.len > Len(b) + 1
                      THEN IF ber /\ Wraps(v, l.len)
                           THEN Then(Record(b[i], Wild), Stopped) ELSE Stopped
                 ELSE LET value == Slice(b, v, l.len)
                          rest  == P[v + l.len]
                      IN  IF ~ber /\ Merges(b[i], rest)
                          THEN [rest EXCEPT !.items[1].value = value \o @]
                          ELSE Then(Record(b[i], value), rest)
  IN  P[1]

\* Faulty: an empty value has no chunk.
Tlv8CountFull(n) == (n + Base - 2) \div (Base - 1)

\* A record is written in chunks of at most 255 bytes, one at least.
Tlv8Count(n) == IF n = 0 THEN 1 ELSE (n + Base - 2) \div (Base - 1)

Tlv8Chunks(r) ==
  LET n == Len(r.value)
      count == Tlv8Count(n)
      Chunk(k) == SubSeq(r.value, (k - 1) * (Base - 1) + 1,
                         IF k = count THEN n ELSE k * (Base - 1))
  IN  FlattenSeq([k \in 1 .. count |-> <<r.tag, Len(Chunk(k))>> \o Chunk(k)])

\* TLV8::get.  BER lengths of 1 to 4 bytes are written as BerTlv's.
Tlv8Pack(records, ber) ==
  FlattenSeq([k \in DOMAIN records |->
    IF ber THEN <<records[k].tag>> \o WriteLength(Len(records[k].value))
                \o records[k].value
    ELSE Tlv8Chunks(records[k])])

\* What size_packed adds to a value of n bytes for its tags and lengths.
HeadSize(n, ber) ==
  IF ber THEN 1 + Len(WriteLength(n))
  ELSE 2 * Tlv8Count(n)

SizePacked(records, ber) ==
  LET N[k \in 0 .. Len(records)] ==
        IF k = 0 THEN 0
        ELSE LET n == Len(records[k].value) IN N[k - 1] + HeadSize(n, ber) + n
  IN  N[Len(records)]

-----------------------------------------------------------------------------
\* simple_tlv, for values that one length byte can count.
SimpleTlv(tag, value) ==
  <<tag>> \o (IF Len(value) >= Half THEN <<Half + 1>> ELSE <<>>)
  \o <<Len(value) % Base>> \o value

\* The 0x53 record of envelope().
EnvelopeTlv(tag, value) ==
  LET n == Len(value)
  IN  <<tag>> \o (IF n < Half THEN <<n>>
                  ELSE IF n < Base THEN <<Half + 1, n>>
                  ELSE <<Half + 2>> \o BigEndian(n, 2))
      \o value
=============================================================================
