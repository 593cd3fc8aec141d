----------------------------- MODULE SecureLink -----------------------------
(***************************************************************************)
(* Two BleMessageSecurity objects, reader and device role, at the ends of  *)
(* one L2CAP channel, driven by the send and receive paths of the reader's *)
(* transport (the device's end is the same class in device role).  Each    *)
(* end flips its clear-text window on its own, so a message may cross the  *)
(* flip; a message may also be sealed and then not fit the SDU size.       *)
(***************************************************************************)
EXTENDS BleMessageSecurity, Sequences

CONSTANTS
  Payload,        \* contents of non-AP messages
  MaxSent         \* bound: messages put on the wire in each direction

VARIABLES
  security,       \* security[r]: the BleMessageSecurity object of role r
  wire,           \* wire[r]: what r has sent and its peer has not received
  open,           \* the L2CAP channel is up
  protected,      \* history: what r has sealed, with the counter it used
  accepted        \* history: the protected payloads r has accepted

vars == <<security, wire, open, protected, accepted>>

Packet == [ap : BOOLEAN, body : Payload, counter : Nat]

Sealing == [body : Payload, counter : Nat]

Init ==
  /\ security = [r \in Role |-> FreshSecurity]
  /\ wire = [r \in Role |-> <<>>]
  /\ open = TRUE
  /\ protected = [r \in Role |-> <<>>]
  /\ accepted = [r \in Role |-> <<>>]

-----------------------------------------------------------------------------
\* set_secured(true), at AP Completed: the reader before it sends it, the
\* device when it sees it.
FlipWindow(r) ==
  /\ ~security[r].secured
  /\ security' = [security EXCEPT ![r].secured = TRUE]
  /\ UNCHANGED <<wire, open, protected, accepted>>

\* Faulty: the counter of a message that was not sent is used again.
SendReusing(r, ap, b, fits) ==
  LET s == security[r]
      c == SealedUnder(s, r, ap)
  IN  /\ ~s.aborted
      /\ Len(protected[r]) + Len(wire[r]) < MaxSent
      /\ security' = IF fits /\ open
                     THEN [security EXCEPT ![r] = AfterSeal(s, r, ap, FALSE)]
                     ELSE security
      /\ wire' = IF fits /\ open
                 THEN [wire EXCEPT ![r] =
                         Append(@, [ap |-> ap, body |-> b, counter |-> c])]
                 ELSE wire
      /\ protected' = IF c = Clear
                      THEN protected
                      ELSE [protected EXCEPT ![r] =
                              Append(@, [body |-> b, counter |-> c])]
      /\ UNCHANGED <<open, accepted>>

\* send of a message that carries a payload.  It is sealed first; it is then not
\* sent if the encoded message exceeds max_sdu_size (~fits) or the link is down.
Send(r, ap, b, fits) ==
  LET s == security[r]
      c == SealedUnder(s, r, ap)
  IN  /\ ~s.aborted
      /\ Len(protected[r]) + Len(wire[r]) < MaxSent
      /\ security' = [security EXCEPT ![r] = AfterSeal(s, r, ap, FALSE)]
      /\ wire' = IF fits /\ open
                 THEN [wire EXCEPT ![r] =
                         Append(@, [ap |-> ap, body |-> b, counter |-> c])]
                 ELSE wire
      /\ protected' = IF c = Clear
                      THEN protected
                      ELSE [protected EXCEPT ![r] =
                              Append(@, [body |-> b, counter |-> c])]
      /\ UNCHANGED <<open, accepted>>

\* send of a message with no payload: seal refuses it and the link is closed.
SendEmpty(r) ==
  /\ ~security[r].aborted
  /\ SealFails(security[r], FALSE, TRUE)
  /\ security' = [security EXCEPT ![r] = AfterSeal(security[r], r, FALSE, TRUE)]
  /\ open' = FALSE
  /\ UNCHANGED <<wire, protected, accepted>>

\* Any send or receive on an aborted object closes the link instead.
CloseAborted(r) ==
  /\ open
  /\ security[r].aborted
  /\ open' = FALSE
  /\ UNCHANGED <<security, wire, protected, accepted>>

\* Faulty: what arrives after an abort is opened all the same.
ReceiveUnlatched(r) ==
  LET m == Head(wire[Peer(r)])
      s == security[r]
      failed == UnsealFails(s, r, m.ap, m.counter)
  IN  /\ open
      /\ wire[Peer(r)] # <<>>
      /\ wire' = [wire EXCEPT ![Peer(r)] = Tail(@)]
      /\ security' = [security EXCEPT ![r] = AfterUnseal(s, r, m.ap, m.counter)]
      /\ open' = ~failed
      /\ accepted' = IF failed \/ Exempt(s, m.ap)
                     THEN accepted
                     ELSE [accepted EXCEPT ![r] = Append(@, m.body)]
      /\ UNCHANGED protected

\* receive, while the link is up: the next message is unsealed; failing that,
\* the link is closed.
Receive(r) ==
  LET m == Head(wire[Peer(r)])
      s == security[r]
      failed == UnsealFails(s, r, m.ap, m.counter)
  IN  /\ open
      /\ ~s.aborted
      /\ wire[Peer(r)] # <<>>
      /\ wire' = [wire EXCEPT ![Peer(r)] = Tail(@)]
      /\ security' = [security EXCEPT ![r] = AfterUnseal(s, r, m.ap, m.counter)]
      /\ open' = ~failed
      /\ accepted' = IF failed \/ Exempt(s, m.ap)
                     THEN accepted
                     ELSE [accepted EXCEPT ![r] = Append(@, m.body)]
      /\ UNCHANGED protected

LinkLost ==
  /\ open
  /\ open' = FALSE
  /\ UNCHANGED <<security, wire, protected, accepted>>

Next ==
  \/ LinkLost
  \/ \E r \in Role :
       \/ FlipWindow(r)
       \/ \E ap, fits \in BOOLEAN, b \in Payload : Send(r, ap, b, fits)
       \/ SendEmpty(r)
       \/ CloseAborted(r)
       \/ Receive(r)

Spec == Init /\ [][Next]_vars

-----------------------------------------------------------------------------
TypeOK ==
  /\ security \in [Role -> SecurityState]
  /\ wire \in [Role -> Seq(Packet)]
  /\ open \in BOOLEAN
  /\ protected \in [Role -> Seq(Sealing)]
  /\ accepted \in [Role -> Seq(Payload)]

(***************************************************************************)
(* No GCM nonce is used twice: over a whole session an end never seals two *)
(* payloads under one counter (BleMessageSecurity.cpp:18-43), whatever was *)
(* dropped for its size, refused for being empty, or sent in clear.        *)
(***************************************************************************)
NoNonceReuse ==
  \A r \in Role : \A i, j \in DOMAIN protected[r] :
    protected[r][i].counter = protected[r][j].counter => i = j

(***************************************************************************)
(* No payload is sealed under a counter beyond kMaxCounter: the message    *)
(* that would need one finds the object aborted.                           *)
(***************************************************************************)
CounterWithinLimit ==
  \A r \in Role : \A i \in DOMAIN protected[r] :
    protected[r][i].counter <= MaxCounter

(***************************************************************************)
(* Once an end has aborted it neither seals nor accepts anything, however  *)
(* long its owner takes to tear the link down.                             *)
(***************************************************************************)
AbortIsFinal ==
  [][\A r \in Role : security[r].aborted =>
       /\ security'[r].aborted
       /\ protected'[r] = protected[r]
       /\ accepted'[r] = accepted[r]]_vars

(***************************************************************************)
(* The layer implements the authenticated stream: what an end accepts is a *)
(* prefix of what its peer protected - also across a window flip that      *)
(* overtakes a clear message, and after a sealed message was not sent.     *)
(***************************************************************************)
Bodies(r) == [i \in DOMAIN protected[r] |-> protected[r][i].body]

Stream == INSTANCE AuthenticatedStream
            WITH protected <- [r \in Role |-> Bodies(r)]

StreamSpec == Stream!Spec

-----------------------------------------------------------------------------
\* The strengthening that makes the properties above inductive.
CounterTracksHistory ==
  \A r \in Role :
    /\ security[r].counter[r] = Len(protected[r]) + 1
    /\ security[r].counter[Peer(r)] = Len(accepted[r]) + 1
    /\ security[r].counter[r] <= MaxCounter + 1
    /\ security[r].counter[r] = MaxCounter + 1 => security[r].aborted

CounterIsPosition ==
  \A r \in Role : \A i \in DOMAIN protected[r] : protected[r][i].counter = i

WireMatchesHistory ==
  \A r \in Role : \A i \in DOMAIN wire[r] :
    wire[r][i].counter # Clear =>
      /\ wire[r][i].counter \in DOMAIN protected[r]
      /\ wire[r][i].body = protected[r][wire[r][i].counter].body

AcceptedIsPrefix ==
  \A r \in Role :
    /\ Len(accepted[r]) <= Len(protected[Peer(r)])
    /\ \A i \in DOMAIN accepted[r] :
         accepted[r][i] = protected[Peer(r)][i].body

IInv ==
  /\ TypeOK
  /\ CounterTracksHistory
  /\ CounterIsPosition
  /\ WireMatchesHistory
  /\ AcceptedIsPrefix
=============================================================================
