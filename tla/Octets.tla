------------------------------- MODULE Octets -------------------------------
(***************************************************************************)
(* Byte strings, with a byte of Base values.  The codecs depend on the     *)
(* width of a byte only through its top bit, its largest value and the     *)
(* widths of length fields, so a narrow byte reaches all their boundaries. *)
(***************************************************************************)
EXTENDS Integers, SequencesExt

CONSTANTS
  Base      \* values of a byte: 256 in the code

ASSUME OctetAssumption == Base \in Nat /\ Base >= 16 /\ Base % 16 = 0

Byte == 0 .. Base - 1

\* The values that the top bit makes: 0x80.
Half == Base \div 2

\* n shifted right by each number of bytes up to w, and whether w bytes hold it.
Shifts(n, w) ==
  LET S[k \in 0 .. w] == IF k = 0 THEN n ELSE S[k - 1] \div Base IN S

Fits(n, w) == Shifts(n, w)[w] = 0

\* The w low bytes of n, most significant first, and the number they spell.
BigEndian(n, w) == LET S == Shifts(n, w) IN [k \in 1 .. w |-> S[w - k] % Base]

Number(s) ==
  LET N[k \in 0 .. Len(s)] == IF k = 0 THEN 0 ELSE N[k - 1] * Base + s[k]
  IN  N[Len(s)]

\* n bytes of b from position i.
Slice(b, i, n) == SubSeq(b, i, i + n - 1)

\* What a parser answers: whether it got to the end, and what it kept.
Done(items) == [ok |-> TRUE, items |-> items]
Stopped == [ok |-> FALSE, items |-> <<>>]
Then(item, rest) == [rest EXCEPT !.items = <<item>> \o @]
=============================================================================
