------------------------- MODULE BleMessageSecurity -------------------------
(***************************************************************************)
(* The BleSK message layer: one object per end of the link, holding the    *)
(* clear-text window, the abort latch and the two GCM message counters.    *)
(* AES-GCM is abstracted to what its users tell apart: a protected payload *)
(* carries the counter it was sealed under, and opens only at an end that  *)
(* expects exactly that counter.  Counter 0 marks a payload in clear.      *)
(* Both ends hold the same keys, and encryption itself does not fail.      *)
(***************************************************************************)
EXTENDS Naturals

CONSTANT MaxCounter      \* kMaxCounter, 0xFFFF in the code

ASSUME MaxCounterAssumption == MaxCounter \in Nat \ {0}

Role == {"reader", "device"}

Peer(r) == IF r = "reader" THEN "device" ELSE "reader"

Clear == 0

\* counter[d] is this end's counter for the messages that role d seals:
\* counter_reader_ and counter_endpoint_ of the GCM channel.
SecurityState ==
  [secured : BOOLEAN, aborted : BOOLEAN, counter : [Role -> Nat \ {0}]]

FreshSecurity ==
  [secured |-> FALSE, aborted |-> FALSE, counter |-> [d \in Role |-> 1]]

\* AP-layer payloads, and everything before AP Completed, pass untouched.
Exempt(s, ap) == ap \/ ~s.secured

\* Faulty: the counter wraps to 0 and the session goes on.
UseCounterWrapping(s, d) ==
  [s EXCEPT !.counter[d] = (@ + 1) % (MaxCounter + 1)]

\* Faulty: the limit is noticed one message late.
UseCounterLate(s, d) ==
  [secured |-> s.secured,
   aborted |-> s.aborted \/ s.counter[d] > MaxCounter,
   counter |-> [s.counter EXCEPT ![d] = @ + 1]]

\* One use of direction d's counter.  The message that takes the counter past
\* the limit still goes through; the object is aborted from then on.
UseCounter(s, d) ==
  [secured |-> s.secured,
   aborted |-> s.aborted \/ s.counter[d] + 1 > MaxCounter,
   counter |-> [s.counter EXCEPT ![d] = @ + 1]]

Abort(s) == [s EXCEPT !.aborted = TRUE]

(***************************************************************************)
(* seal, at the end that plays role r.  An empty payload is refused.       *)
(***************************************************************************)
SealFails(s, ap, empty) == ~Exempt(s, ap) /\ empty

AfterSeal(s, r, ap, empty) ==
  IF Exempt(s, ap) THEN s
  ELSE IF empty THEN Abort(s) ELSE UseCounter(s, r)

SealedUnder(s, r, ap) == IF Exempt(s, ap) THEN Clear ELSE s.counter[r]

(***************************************************************************)
(* unseal, at the end that plays role r, of a payload carrying counter c.  *)
(***************************************************************************)
\* Faulty: a message that was skipped is made up for by a later one.
UnsealFailsLenient(s, r, ap, c) == ~Exempt(s, ap) /\ c < s.counter[Peer(r)]

UnsealFails(s, r, ap, c) == ~Exempt(s, ap) /\ c # s.counter[Peer(r)]

AfterUnseal(s, r, ap, c) ==
  IF Exempt(s, ap) THEN s
  ELSE IF UnsealFails(s, r, ap, c) THEN Abort(s) ELSE UseCounter(s, Peer(r))
=============================================================================
