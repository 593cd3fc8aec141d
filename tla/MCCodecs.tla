------------------------------ MODULE MCCodecs ------------------------------
(* A byte of four bits, in which each of the symbols below is a length, a   *)
(* tag and a header: 15 starts a tag of several bytes, 8 and up give a long *)
(* length, and the four bits are the NDEF flags: 10 a short first record,   *)
(* 6 a short last one.                                                      *)
EXTENDS Codecs

Extended == <<15, 6>>

Symbols == {0, 1, 6, 8, 9, 10, 15}
=============================================================================
