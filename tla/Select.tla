------------------------------- MODULE Select -------------------------------
(***************************************************************************)
(* What a reader takes from the device before a ladder: the answer to      *)
(* SELECT over NFC, the proprietary information of the initiation over     *)
(* BLE.  The check that the reader is provisioned at all is left out.      *)
(***************************************************************************)
EXTENDS Tlv

CONSTANTS
  FciTag,           \* 6F
  ProprietaryTag,   \* A5
  VersionTag,       \* 5C
  ExtendedTag,      \* 7F66
  MaxCommandTag     \* 02

\* A tag of two bytes, the others of one.
ASSUME SelectAssumption ==
  /\ \A t \in {FciTag, ProprietaryTag, VersionTag, MaxCommandTag} :
       t \in Byte /\ t % TagMod # TagMod - 1
  /\ ExtendedTag \in Byte \X Byte
  /\ ExtendedTag[1] % TagMod = TagMod - 1 /\ ExtendedTag[2] < Half

Aliro10   == <<1, 0>>
HomeKey20 == <<2, 0>>

SuccessWord == <<9 * (Base \div 16), 0>>

\* find and expect: the first record with the tag, alone; <<>> if there is none.
Find(records, tag) ==
  LET at == {k \in DOMAIN records : records[k].tag = tag}
  IN  IF at = {} THEN <<>> ELSE <<records[Min(at)]>>

WithoutSW(b) ==
  IF IsSuffix(SuccessWord, b) THEN SubSeq(b, 1, Len(b) - 2) ELSE b

\* The versions of a list are pairs of bytes.
Lists(list, version) ==
  \E i \in DOMAIN list : i % 2 = 1 /\ i < Len(list) /\ Slice(list, i, 2) = version

-----------------------------------------------------------------------------
(***************************************************************************)
(* Over NFC.                                                               *)
(***************************************************************************)
\* The chunk size of ENVELOPE, a size_t; 0xFF unless the device says.
NfcMaxCommand(proprietary) ==
  LET ext  == Find(proprietary, ExtendedTag)
      size == IF ext = <<>> THEN <<>>
              ELSE Find(BerParse(Head(ext).value), <<MaxCommandTag>>)
  IN  IF size = <<>> \/ Head(size).value = <<>> THEN Base - 1
      ELSE Number(Head(size).value) % Base ^ WordBytes

\* What goes into the transcript that both ends derive their keys from.
FciBuffer(value) ==
  LET n == Len(value)
  IN  <<ProprietaryTag>>
      \o (IF n < Half THEN <<n>>
          ELSE IF n < Base THEN <<Half + 1, n>>
          ELSE IF Fits(n, 2) THEN <<Half + 2>> \o BigEndian(n, 2) ELSE <<>>)
      \o value

\* Aliro's validate_select: what was agreed on, or nothing.  An FCI template
\* without proprietary information is undefined here, as it is in the code.
NfcSelect(b) ==
  LET fci    == Find(BerParse(WithoutSW(b)), <<FciTag>>)
      inside == Head(Find(BerParse(Head(fci).value), <<ProprietaryTag>>)).value
      lists  == Find(BerParse(inside), <<VersionTag>>)
  IN  IF \/ fci = <<>> \/ lists = <<>>
         \/ Len(Head(lists).value) % 2 = 1 \/ ~Lists(Head(lists).value, Aliro10)
      THEN {}
      ELSE {[max |-> NfcMaxCommand(BerParse(inside)), transcript |-> FciBuffer(inside)]}

-----------------------------------------------------------------------------
(***************************************************************************)
(* Over BLE, a second copy of the same.                                    *)
(***************************************************************************)
\* Faulty: the bytes of the size are not put together, the last one remains.
BleMaxCommandByte(proprietary) ==
  LET ext  == Find(proprietary, ExtendedTag)
      size == IF ext = <<>> THEN <<>>
              ELSE Find(BerParse(Head(ext).value), <<MaxCommandTag>>)
  IN  IF size = <<>> \/ Head(size).value = <<>> THEN Base - 1
      ELSE Number(Head(size).value) % Base

BleMaxCommand(proprietary) ==
  LET ext  == Find(proprietary, ExtendedTag)
      size == IF ext = <<>> THEN <<>>
              ELSE Find(BerParse(Head(ext).value), <<MaxCommandTag>>)
  IN  IF size = <<>> \/ Head(size).value = <<>> THEN Base - 1
      ELSE Number(Head(size).value) % Base ^ WordBytes

\* Faulty: no short form.  The device could still read it.
RewrapA5Long(value) ==
  LET n == Len(value)
  IN  <<ProprietaryTag>>
      \o (IF n < Base THEN <<Half + 1, n>>
          ELSE IF Fits(n, 2) THEN <<Half + 2>> \o BigEndian(n, 2) ELSE <<>>)
      \o value

\* rewrap_a5
RewrapA5(value) ==
  LET n == Len(value)
  IN  <<ProprietaryTag>>
      \o (IF n < Half THEN <<n>>
          ELSE IF n < Base THEN <<Half + 1, n>>
          ELSE IF Fits(n, 2) THEN <<Half + 2>> \o BigEndian(n, 2) ELSE <<>>)
      \o value

\* What establish() takes from it: a device need not list its versions.
BleSelect(b) ==
  LET found == Find(BerParse(b), <<ProprietaryTag>>)
      value == Head(found).value
      lists == Find(BerParse(value), <<VersionTag>>)
  IN  IF \/ found = <<>>
         \/ lists # <<>> /\ Head(lists).value # <<>>
            /\ ~Lists(Head(lists).value, Aliro10)
      THEN {}
      ELSE {[max |-> BleMaxCommand(BerParse(value)), transcript |-> RewrapA5(value)]}

-----------------------------------------------------------------------------
\* HomeKey's validate_select, in TLV8: whether the reader's version is listed.
\* What was read before a malformed record counts.
HomeKeySelect(b) ==
  LET lists == Find(Tlv8Parse(WithoutSW(b), FALSE).items, VersionTag)
  IN  lists # <<>> /\ Lists(Head(lists).value, HomeKey20)
=============================================================================
