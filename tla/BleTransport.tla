---------------------------- MODULE BleTransport ----------------------------
(***************************************************************************)
(* The reader's message pump over one L2CAP channel, as operators on a     *)
(* record that holds the link and the AliroBleTransport object:            *)
(*   up        the link is connected             (BleLink, external)       *)
(*   full      connected, it takes no SDU: backpressure  (external)        *)
(*   inbox     SDUs the link has not delivered   (BleLink, external)       *)
(*   down      link_down_                                                  *)
(*   active    security_ holds a value                                     *)
(*   sec       the BleMessageSecurity object, fresh until then             *)
(*   rx        rx_, unsealed messages not yet popped                       *)
(*   deferred  deferred_, messages parked during the AP ladder             *)
(* A message names its kind and the counter it was sealed under; AP_RS     *)
(* adds the request it answers and how, other messages their number.  SDUs *)
(* whose framing does not parse leave no trace and are not modelled.       *)
(***************************************************************************)
EXTENDS BleMessageSecurity, Sequences

CONSTANT Oversize      \* kinds of message whose encoding exceeds max_sdu_size

FreshTransport ==
  [up |-> TRUE, full |-> FALSE, inbox |-> <<>>, down |-> FALSE,
   active |-> FALSE, sec |-> FreshSecurity, rx |-> <<>>, deferred |-> <<>>]

IsAp(kind) == kind \in {"AP_RQ", "AP_RS", "BadAp"}

\* What the owner of the object closes, it does not receive from any more.
\* send, and a failed unseal, close the link; close_link marks it down as well.
Closed(b) == [b EXCEPT !.up = FALSE, !.full = FALSE, !.inbox = <<>>]

CloseLink(b) == [Closed(b) EXCEPT !.down = TRUE]

\* activate_message_security, and set_secured(true): nothing to flip before.
Activate(b) == [b EXCEPT !.active = TRUE, !.sec = FreshSecurity]

\* Faulty: the window is flipped although there is no message security.
SetSecuredAlways(b) == [b EXCEPT !.sec.secured = TRUE]

SetSecured(b) == IF b.active THEN [b EXCEPT !.sec.secured = TRUE] ELSE b

(***************************************************************************)
(* send: sealed first, checked for size after, and put on the link last.   *)
(* A link that refuses the SDU is taken to be down, connected or not, with *)
(* the counter used; send itself does not ask whether it was before.       *)
(***************************************************************************)
\* Faulty: a refused SDU leaves the link as it was.
AfterSendUnmarked(b, kind, empty) ==
  LET s == [b EXCEPT !.sec = AfterSeal(@, "reader", IsAp(kind), empty)]
  IN  IF b.sec.aborted THEN Closed(b)
      ELSE IF SealFails(b.sec, IsAp(kind), empty) THEN Closed(s)
      ELSE IF kind \in Oversize THEN s
      ELSE [s EXCEPT !.down = @ \/ ~b.up]

SendOk(b, kind, empty) ==
  /\ ~b.sec.aborted
  /\ ~SealFails(b.sec, IsAp(kind), empty)
  /\ kind \notin Oversize
  /\ b.up /\ ~b.full

AfterSend(b, kind, empty) ==
  LET s == [b EXCEPT !.sec = AfterSeal(@, "reader", IsAp(kind), empty)]
  IN  IF b.sec.aborted THEN Closed(b)
      ELSE IF SealFails(b.sec, IsAp(kind), empty) THEN Closed(s)
      ELSE IF kind \in Oversize THEN s
      ELSE [s EXCEPT !.down = @ \/ ~b.up \/ b.full]

(***************************************************************************)
(* receive: a queued message comes first, even from a link that is down;   *)
(* else the next SDU is unsealed message by message, and a failure closes  *)
(* the link, leaving the messages before it queued.  NoMessage is nullopt: *)
(* timeout, or the link is down.                                           *)
(***************************************************************************)
NoMessage == [kind |-> "none"]

UnsealInto(b, m) ==
  LET ap == IsAp(m.kind)
      failed == b.sec.aborted \/ UnsealFails(b.sec, "reader", ap, m.c)
      s == [b EXCEPT !.sec = AfterUnseal(@, "reader", ap, m.c)]
  IN  IF b.down THEN b
      ELSE IF failed THEN [CloseLink(b) EXCEPT !.sec.aborted = TRUE]
      ELSE [s EXCEPT !.rx = Append(@, [m EXCEPT !.c = Clear])]

\* The messages of an SDU, one after the other.
Unsealed(b, sdu) ==
  LET after[n \in 0 .. Len(sdu)] ==
        IF n = 0 THEN b ELSE UnsealInto(after[n - 1], sdu[n])
  IN  after[Len(sdu)]

\* Faulty: of the messages packed in an SDU only the first is taken.
PumpFirst(b) ==
  IF b.down THEN b
  ELSE IF b.inbox # <<>>
       THEN UnsealInto([b EXCEPT !.inbox = Tail(@)], Head(Head(b.inbox)))
       ELSE [b EXCEPT !.down = ~b.up]

Pump(b) ==
  IF b.down THEN b
  ELSE IF b.inbox # <<>>
       THEN Unsealed([b EXCEPT !.inbox = Tail(@)], Head(b.inbox))
       ELSE [b EXCEPT !.down = ~b.up]

Received(b) ==
  LET p == IF b.rx # <<>> THEN b ELSE Pump(b)
  IN  IF p.rx # <<>> /\ (b.rx # <<>> \/ ~p.down)
      THEN [ble |-> [p EXCEPT !.rx = Tail(@)], msg |-> Head(p.rx)]
      ELSE [ble |-> p, msg |-> NoMessage]

\* Faulty: messages are parked, and then drained, last in first out.
ParkInFront(b, m) == [b EXCEPT !.deferred = <<m>> \o @]

Park(b, m) == [b EXCEPT !.deferred = Append(@, m)]
=============================================================================
