------------------------ MODULE AuthenticatedStream ------------------------
(***************************************************************************)
(* What BleSK message security promises, without keys, counters or a wire: *)
(* in each direction a stream of protected payloads of which the other end *)
(* accepts a prefix - in order, none skipped, none repeated, none changed. *)
(* Streams may stop; nothing here says that a payload must arrive.         *)
(***************************************************************************)
EXTENDS Naturals, Sequences

CONSTANT Payload

VARIABLES
  protected,    \* protected[r]: the payloads role r has protected, in order
  accepted      \* accepted[r]: the payloads role r has accepted from its peer

Ends == {"reader", "device"}

Other(r) == IF r = "reader" THEN "device" ELSE "reader"

Init ==
  /\ protected = [r \in Ends |-> <<>>]
  /\ accepted = [r \in Ends |-> <<>>]

Protect(r) ==
  /\ \E b \in Payload : protected' = [protected EXCEPT ![r] = Append(@, b)]
  /\ UNCHANGED accepted

Accept(r) ==
  LET next == Len(accepted[r]) + 1
  IN  /\ next \in DOMAIN protected[Other(r)]
      /\ accepted' = [accepted EXCEPT ![r] = Append(@, protected[Other(r)][next])]
      /\ UNCHANGED protected

Next == \E r \in Ends : Protect(r) \/ Accept(r)

Spec == Init /\ [][Next]_<<protected, accepted>>
=============================================================================
