-------------------------------- MODULE Ndef --------------------------------
(***************************************************************************)
(* NDEF messages, as packed and unpacked for the device engagement of the  *)
(* HomeKey attestation.  The flags of a header byte keep their order; the  *)
(* type name format below them is carried along and left out.              *)
(***************************************************************************)
EXTENDS Octets

CONSTANTS
  LongWidth    \* bytes of a long payload length: 4

ASSUME NdefAssumption == LongWidth \in Nat \ {0}

\* Message begin and end, short record, id length present.
Bit(header, weight) == (header \div (Base \div weight)) % 2 = 1
MB(header) == Bit(header, 2)
ME(header) == Bit(header, 4)
SR(header) == Bit(header, 8)
IL(header) == Bit(header, 16)

Flag(set, weight) == IF set THEN Base \div weight ELSE 0

NdefRecord(type, id, data) == [type |-> type, id |-> id, data |-> data]

-----------------------------------------------------------------------------
\* Faulty: a payload of 256 bytes is still short.
IsShortLate(n) == n <= Base

IsShort(n) == n < Base

\* NDEFMessage::pack: record k of n.
PackRecord(r, k, n) ==
  LET short == IsShort(Len(r.data))
      named == r.id # <<>>
  IN  <<Flag(k = 1, 2) + Flag(k = n, 4) + Flag(short, 8) + Flag(named, 16),
        Len(r.type)>>
      \o BigEndian(Len(r.data), IF short THEN 1 ELSE LongWidth)
      \o (IF named THEN <<Len(r.id)>> ELSE <<>>)
      \o r.type \o r.id \o r.data

NdefPack(records) ==
  IF \E k \in DOMAIN records :
       Len(records[k].id) >= Base \/ Len(records[k].type) >= Base
  THEN <<>>
  ELSE FlattenSeq([k \in DOMAIN records |->
                     PackRecord(records[k], k, Len(records))])

\* The record at i: where its type starts, and the length fields before that.
Width(b, i) == IF SR(b[i]) THEN 1 ELSE LongWidth

Body(b, i) == i + 2 + Width(b, i) + (IF IL(b[i]) THEN 1 ELSE 0)

Lengths(b, i) ==
  [type |-> b[i + 1],
   data |-> Number(Slice(b, i + 2, Width(b, i))),
   id   |-> IF IL(b[i]) THEN b[i + 2 + Width(b, i)] ELSE 0]

\* Faulty: the end of the message is where the bytes end.
EndsAnywhere(b, i, next) == next = Len(b) + 1

\* The record that ends the message is the last, and the message needs one.
EndsAt(b, i, next) == ME(b[i]) /\ next = Len(b) + 1

\* NDEFMessage::unpack: every record of the message, or nothing.
NdefUnpack(b) ==
  LET P[i \in 1 .. Len(b) + 1] ==
        IF i + 1 > Len(b) \/ MB(b[i]) # (i = 1) \/ Body(b, i) > Len(b) + 1
        THEN Stopped
        ELSE LET n    == Lengths(b, i)
                 body == Body(b, i)
                 next == body + n.type + n.id + n.data
                 r == NdefRecord(Slice(b, body, n.type),
                                 Slice(b, body + n.type, n.id),
                                 Slice(b, body + n.type + n.id, n.data))
             IN  IF next > Len(b) + 1 THEN Stopped
                 ELSE IF EndsAt(b, i, next) THEN Done(<<r>>)
                 ELSE IF ME(b[i]) \/ ~P[next].ok THEN Stopped
                 ELSE Then(r, P[next])
  IN  P[1]
=============================================================================
