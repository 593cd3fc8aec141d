------------------------------- MODULE Codecs -------------------------------
(***************************************************************************)
(* The codecs over every short string of bytes and over longer strings of  *)
(* zeros.  A string is taken both as input to the parsers and as a value   *)
(* to be written.                                                          *)
(***************************************************************************)
EXTENDS Select, Ndef, Framing

CONSTANTS
  Alphabet,     \* bound: bytes of the short strings
  MaxInput,     \* bound: their length
  MaxZeros      \* bound: the length of the strings of zeros

ASSUME CodecsAssumption ==
  Alphabet \subseteq Byte /\ MaxInput \in Nat /\ MaxZeros \in Nat

VARIABLES
  input

Init == input = <<>>

AnyByte == Len(input) < MaxInput /\ \E x \in Alphabet : input' = Append(input, x)

OneMoreZero ==
  /\ Len(input) \in MaxInput .. MaxZeros - 1
  /\ \A k \in DOMAIN input : input[k] = 0
  /\ input' = Append(input, 0)

Next == AnyByte \/ OneMoreZero

Spec == Init /\ [][Next]_input

-----------------------------------------------------------------------------
(***************************************************************************)
(* A value that is written is read back, by every writer and the reader at *)
(* the other end (TLV8.hpp:191-361, BerTlv.cpp:78-141, simple_tlv.hpp:5),  *)
(* on either side of each length's limit; chunks of equal tags are one     *)
(* value again, and the buffer size_packed asks for is the size written.   *)
(***************************************************************************)
Tags == {1, 2}

TlvValuesSurvive ==
  LET one == <<Record(1, input)>>
      two == <<Record(1, input), Record(2, <<>>), Record(1, input)>>
  IN  /\ \A ber \in BOOLEAN, rs \in {one, two} :
           /\ Tlv8Parse(Tlv8Pack(rs, ber), ber) = Done(rs)
           /\ Len(Tlv8Pack(rs, ber)) = SizePacked(rs, ber)
      /\ \A tag \in {<<1>>, <<TagMod - 1, Half + 1, 0>>} :
           LET rs == <<Record(tag, input), Record(tag, <<0>>)>>
           IN  BerParse(BerPack(rs)) = rs
      /\ BerParse(EnvelopeTlv(1, input)) = <<Record(<<1>>, input)>>
      /\ Len(input) < Base =>
           BerParse(SimpleTlv(1, input)) = <<Record(<<1>>, input)>>

(***************************************************************************)
(* Whatever bytes a parser is given, if no length in them wraps (below),   *)
(* what it keeps is a message: written again and parsed again it is the    *)
(* same (BerTlv.cpp:78-113, TLV8.hpp:276-361), with records of one tag     *)
(* apart or merged and lengths in more bytes than they need.  What         *)
(* BerTlv.cpp leaves out is a tail.                                        *)
(***************************************************************************)
TlvStable ==
  /\ \A ber \in BOOLEAN :
       LET p == Tlv8Parse(input, ber)
       IN  Defined(p.items) =>
             Tlv8Parse(Tlv8Pack(p.items, ber), ber) = Done(p.items)
  /\ LET kept == BerParse(input)
     IN  /\ Defined(kept) => BerParse(BerPack(kept)) = kept
         /\ \A n \in 0 .. Len(input) :
              LET part == BerParse(SubSeq(input, 1, n))
              IN  Defined(part) => IsPrefix(part, kept)

(***************************************************************************)
(* The two copies of the code that reads a device's proprietary            *)
(* information, over NFC (Profile.cpp:24-109) and over BLE                 *)
(* (BleFlow.cpp:25-41, 245-313), come to one chunk size and one transcript *)
(* for one information: NFC asks for more, a list of whole versions.  The  *)
(* transcript spells what was served.  A HomeKey version is found in a     *)
(* list of several chunks (homekey/Profile.cpp:22-60).                     *)
(***************************************************************************)
Served ==
  LET V(list) == Record(<<VersionTag>>, list)
  IN  {input, BerPack(<<V(input)>>), BerPack(<<V(input \o Aliro10)>>),
       BerPack(<<V(Aliro10), Record(ExtendedTag, input)>>),
       BerPack(<<V(Aliro10), Record(ExtendedTag,
                                    BerPack(<<Record(<<MaxCommandTag>>, input)>>))>>)}

\* No length wraps in what the reader looks into.
Readable(value) ==
  LET records == BerParse(value)
      ext     == Find(records, ExtendedTag)
  IN  Defined(records) /\ (ext # <<>> => Defined(BerParse(Head(ext).value)))

Fci(value) ==
  BerPack(<<Record(<<FciTag>>, BerPack(<<Record(<<ProprietaryTag>>, value)>>))>>)

WholeVersions(value) ==
  LET lists == Find(BerParse(value), <<VersionTag>>)
  IN  lists # <<>> /\ Head(lists).value # <<>> /\ Len(Head(lists).value) % 2 = 0

SelectAgrees ==
  /\ \A value \in Served : Readable(value) =>
       LET nfc == NfcSelect(Fci(value) \o SuccessWord)
           ble == BleSelect(BerPack(<<Record(<<ProprietaryTag>>, value)>>))
       IN  /\ nfc = IF WholeVersions(value) THEN ble ELSE {}
           /\ \A agreed \in ble :
                BerParse(agreed.transcript) = <<Record(<<ProprietaryTag>>, value)>>
  /\ LET list == Record(VersionTag, input \o HomeKey20)
     IN  Len(input) % 2 = 0 =>
           HomeKeySelect(Tlv8Pack(<<list>>, FALSE) \o SuccessWord)

(***************************************************************************)
(* A packed NDEF message is unpacked to its records (ndef.cpp:49-204): one *)
(* or several, with and without an id, on either side of the short form.   *)
(* Whatever bytes are unpacked, what comes out survives likewise; and no   *)
(* message is the beginning of another (ndef.cpp:134-201), so a truncated  *)
(* one is never taken for whole.                                           *)
(***************************************************************************)
NdefSurvives ==
  LET read == NdefUnpack(input)
  IN  /\ \A id \in {<<>>, <<0>>} :
           LET r == NdefRecord(<<1>>, id, input)
           IN  \A rs \in {<<r>>, <<r, r>>, <<r, NdefRecord(<<>>, <<>>, <<>>), r>>} :
                 NdefUnpack(NdefPack(rs)) = Done(rs)
      /\ read.ok =>
           /\ NdefUnpack(NdefPack(read.items)) = read
           /\ \A n \in 0 .. Len(input) - 1 : ~NdefUnpack(SubSeq(input, 1, n)).ok

(***************************************************************************)
(* The bytes of an APDU read in one way by the cases of ISO 7816-4         *)
(* (ApduChannel.h:21-24): the data and the answer that were asked for.     *)
(***************************************************************************)
ReadApdu(b) ==
  LET short(n) == IF n = 0 THEN Base ELSE n
      WithData(at, n) == [data |-> Slice(b, at, n),
                      ne |-> IF Len(b) = at + n - 1 THEN 0
                             ELSE IF Len(b) = at + n THEN short(b[at + n])
                             ELSE Number(Slice(b, at + n, 2))]
  IN  CASE b = <<>> -> [data |-> <<>>, ne |-> 0]
        [] Len(b) = 1 -> [data |-> <<>>, ne |-> short(b[1])]
        [] Len(b) = 3 /\ b[1] = 0 -> [data |-> <<>>, ne |-> Number(Slice(b, 2, 2))]
        [] Len(b) > 3 /\ b[1] = 0 -> WithData(4, Number(Slice(b, 2, 2)))
        [] OTHER -> WithData(2, b[1])

ApduReads ==
  \A ne \in {0, 1, Base - 1, Base, Base + 1}, force \in BOOLEAN :
    ReadApdu(ToBytes(input, ne, force)) = [data |-> input, ne |-> ne]

(***************************************************************************)
(* The chunks of a chained command carry its data, in order, none empty    *)
(* beyond the first and none over the size the device takes; the last one, *)
(* and no other, ends the chain and asks for the answer                    *)
(* (ApduChaining.h:18-58).                                                 *)
(***************************************************************************)
ChainingReassembles ==
  \A max \in {0, 1, 3, Base - 1, Base, Base + 2}, ne \in {0, Base, Base + 1} :
    LET chunks == Chained(input, ne, max)
    IN  Len(input) <= MaxPayload =>
          /\ FlattenSeq([k \in DOMAIN chunks |-> chunks[k].data]) = input
          /\ \A k \in DOMAIN chunks :
               /\ chunks[k].more <=> k < Len(chunks)
               /\ k > 1 => chunks[k].data # <<>>
               /\ max # 0 => Len(chunks[k].data) <= max
               /\ ReadApdu(chunks[k].bytes) =
                    [data |-> chunks[k].data, ne |-> IF chunks[k].more THEN 0 ELSE ne]

(***************************************************************************)
(* An SDU is unpacked to the messages that were packed in it, and one with *)
(* a malformed message anywhere, a cut one or one without payload, to none *)
(* (BleMessages.cpp:108-131); attributes likewise (45-69).                 *)
(***************************************************************************)
SduAllOrNothing ==
  LET ms == <<Message(1, 2, input), Message(3, 0, input)>>
      as == <<Attribute(1, input), Attribute(0, <<>>)>>
      got == UnpackSdu(input)
  IN  /\ UnpackSdu(PackSdu(ms)) = IF input = <<>> THEN <<>> ELSE ms
      /\ UnpackSdu(PackSdu(<<Message(1, 2, <<0>>)>>) \o input) #
           <<Message(1, 2, <<0>>)>> \/ input = <<>>
      /\ got # <<>> => Len(PackSdu(got)) = Len(input)
      /\ Len(input) < Base => ParseAttributes(EncodeAttributes(as)) = Done(as)
      /\ ParseAttributes(input).ok =>
           EncodeAttributes(ParseAttributes(input).items) = input

(***************************************************************************)
(* Padding fills blocks and comes off again, also from a message that ends *)
(* like padding (ScbSecureChannel.cpp:28-68).                              *)
(***************************************************************************)
PaddingComesOff == Len(Pad(input)) % BlockSize = 0 /\ Unpad(Pad(input)) = input
=============================================================================
