--------------------------- MODULE BleFlow_proofs ---------------------------
(***************************************************************************)
(* Proofs about BleFlow, for every store, configuration, set of messages   *)
(* and bound, from the lemmas about the ladder and about the transport.    *)
(***************************************************************************)
EXTENDS BleFlow, AliroProfile_proofs, BleTransport_proofs

\* How far run() has come: ladder under way, or the post-AP loop.
BeforeCompletion == pc \in {"establish", "wait", "refused"}
Serving == pc \in {"serve", "listen", "stop"}

NoStepUp == ~config.stepUpOnFail /\ target # "StepUp"

DeviceState ==
  [asked : Nat, pending : Seq(Nat), sent : 0 .. MaxDeviceMsgs,
   sec : SecurityState]

EngineState == [armed : BOOLEAN, active : BOOLEAN, sent : Nat]

LogState == [events : Nat, last : Nat, misordered : BOOLEAN]

FlowTypes ==
  /\ pc \in Pc
  /\ ble \in TransportState(DeviceMessage)
  /\ dev \in DeviceState
  /\ engine \in EngineState
  /\ log \in LogState
  /\ target \in Targets \union {"Fast", "Standard"}

\* What the BLE configuration makes of the ladder.
LadderOverBle ==
  /\ config.ble /\ at # "CONTROL_FLOW"
  /\ at = "EXCHANGE_97" => flow = "Failed"
  /\ at = "EXCHANGE_98" => config.ursk
  /\ NoStepUp => at \notin StepUp

Phases ==
  /\ pc = "establish" => at = "Idle"
  /\ pc \in {"wait", "refused"} => at \in Request
  /\ Serving => at = "Done"
  /\ pc = "returned" => at \in Rest

\* Message security is there once somebody is authenticated, and in use once the
\* window is open.
Keyed ==
  /\ at \in {"Idle", "AUTH0", "AUTH1"} => ~ble.active
  /\ at = "EXCHANGE_98" => ble.active
  /\ NoStepUp /\ at = "Done" => ble.active
  /\ Serving => ble.sec.secured = ble.active
  /\ BeforeCompletion => ~ble.sec.secured

\* An engine is armed for a transaction that can only be granted from then on.
EngineKept ==
  /\ engine.active => engine.armed
  /\ engine.armed => /\ HasEngine /\ flow # "Failed" /\ ble.active
                     /\ at \in StepUp \union {"Done"}
  /\ pc = "returned" => ~engine.armed

-----------------------------------------------------------------------------
(***************************************************************************)
(* What holds of the transport b and the device d at the ends of the link, *)
(* between any two calls of the transport.                                 *)
(***************************************************************************)
\* An end whose window is shut has used no counter, and sealed nothing.
LinkOk(b, d) ==
  /\ b \in TransportState(DeviceMessage) /\ d \in DeviceState
  /\ ~b.active => ~b.sec.secured
  /\ ~b.sec.secured => b.sec = FreshSecurity
  /\ ~d.sec.secured =>
       /\ d.sec = FreshSecurity
       /\ \A a \in 1 .. Len(b.inbox) : \A i \in DOMAIN b.inbox[a] :
            b.inbox[a][i].c = Clear

\* There is one request outstanding, with one answer at most.
OneAnswer(b, d) ==
  /\ Sequenced(b, TRUE)
  /\ Len(d.pending) <= 1
  /\ \A i \in DOMAIN d.pending : d.pending[i] = d.asked /\ d.asked # 0
  /\ \A a \in Segments(b) : \A i \in DOMAIN Segment(b, a) :
       Segment(b, a)[i].kind = "AP_RS" =>
         Segment(b, a)[i].re = d.asked /\ d.asked # 0 /\ d.pending = <<>>

\* What is never parked.
Unparked == {"AP_RS", "GeneralError"}

\* Unsolicited messages are numbered upwards: handled up to last, parked, queued.
InOrder(b, d, last) ==
  /\ last <= d.sent
  /\ \A j \in DOMAIN b.deferred :
       /\ b.deferred[j].kind \notin Unparked
       /\ last < b.deferred[j].n /\ b.deferred[j].n <= d.sent
       /\ \A k \in DOMAIN b.deferred :
            j < k => b.deferred[j].n < b.deferred[k].n
  /\ Sequenced(b, FALSE)
  /\ \A a \in Segments(b) : \A i \in DOMAIN Segment(b, a) :
       Segment(b, a)[i].kind # "AP_RS" =>
         /\ last < Segment(b, a)[i].n /\ Segment(b, a)[i].n <= d.sent
         /\ \A j \in DOMAIN b.deferred : b.deferred[j].n < Segment(b, a)[i].n

\* The counters of both ends, as long as the link and both ends are well.
Together(b, d) ==
  b.up /\ ~b.down /\ ~b.sec.aborted /\ ~d.sec.aborted =>
    /\ b.sec.secured = d.sec.secured
    /\ b.sec.counter["reader"] = d.sec.counter["reader"]
    /\ b.sec.secured => Continues(b, d.sec.counter["device"])

AtOneAnswer ==
  /\ at = "Idle" => dev.asked = 0
  /\ at \in {"Idle", "AUTH0", "AUTH1", "EXCHANGE_98"} => OneAnswer(ble, dev)

Handled ==
  /\ ~log.misordered
  /\ BeforeCompletion => log.last = 0
  /\ pc = "listen" => ble.deferred = <<>>

FlowInv ==
  /\ IInv /\ FlowTypes /\ LadderOverBle /\ Phases
  /\ Keyed /\ EngineKept
  /\ LinkOk(ble, dev) /\ InOrder(ble, dev, log.last)
  /\ AtOneAnswer /\ Handled

-----------------------------------------------------------------------------
\* What one response does to a ladder over BLE: where it may lead, who is found
\* by then, and that a grant in the making is not taken back.
LadderMove(r) ==
  /\ config' = config /\ target' = target
  /\ at' \in Request \union {"Done", "Failed"} /\ at' # "AUTH0"
  /\ at' \in {"AUTH1", "EXCHANGE_98"} => at \in {"AUTH0", "AUTH1"} /\ r = "ok"
  /\ at' = "AUTH1" => found' = None
  /\ at' = "EXCHANGE_98" => found' # None
  /\ at \in {"AUTH0", "AUTH1"} /\ at' = "Done" => found' # None
  /\ at = "EXCHANGE_98" /\ at' # "Failed" =>
       flow' # "Failed" /\ at' \in StepUp \union {"Done"}
  /\ at \in StepUp /\ flow # "Failed" =>
       flow' # "Failed" /\ at' \in StepUp \union {"Done"}
  /\ at = "EXCHANGE_97" => at' = "Failed"

\* Settling over BLE ends the ladder, or sends a failure.
LEMMA SettleMove ==
  ASSUME config.ble, NEW i, NEW s, NEW f, NEW store, NEW c,
         Settle(i, s, f, store, c)
  PROVE  /\ config' = config /\ target' = target /\ found' = s /\ flow' = f
         /\ at' \in {"Done", "EXCHANGE_97", "Failed"}
         /\ at' = "Done" <=> f # "Failed"
BY DEF Settle, Complete

LEMMA AfterAuth1Move ==
  ASSUME config.ble, NEW i, NEW s, NEW f, NEW store, NEW c,
         AfterAuth1(i, s, f, store, c)
  PROVE  /\ config' = config /\ target' = target /\ found' = s /\ flow' = f
         /\ at' \in StepUp \union {"Done", "EXCHANGE_97", "Failed"}
         /\ at' = "Done" => f # "Failed"
         /\ at' \in StepUp => ~NoStepUp
         /\ f # "Failed" => at' \in StepUp \union {"Done"}
<1>1. CASE Settle(i, s, f, store, c)
  BY <1>1, SettleMove DEF StepUp
<1>2. CASE ~Settle(i, s, f, store, c)
  BY <1>2 DEF AfterAuth1, NoStepUp, StepUp
<1>3. QED
  BY <1>1, <1>2

LEMMA AuthenticatedMove ==
  ASSUME config.ble, NEW s, NEW f \in {"Fast", "Standard"}, Authenticated(s, f)
  PROVE  /\ config' = config /\ target' = target /\ found' = s /\ flow' = f
         /\ at' \in StepUp \union {"Done", "EXCHANGE_98"}
         /\ at' = "EXCHANGE_98" => config.ursk
         /\ at' \in StepUp => ~NoStepUp
<1>1. CASE OffersUrsk
  BY <1>1 DEF Authenticated, OffersUrsk, StepUp
<1>2. CASE ~OffersUrsk /\ f = "Fast"
  <2>1. Settle(s[1], s, f, mem, "exchange")
    BY <1>2 DEF Authenticated
  <2>2. /\ config' = config /\ target' = target /\ found' = s /\ flow' = f
        /\ at' \in {"Done", "EXCHANGE_97", "Failed"}
        /\ at' = "Done" <=> f # "Failed"
    BY <2>1, SettleMove
  <2>3. QED
    BY <1>2, <2>2 DEF StepUp
<1>3. CASE ~OffersUrsk /\ f # "Fast"
  <2>1. AfterAuth1(s[1], s, f, Rekeyed(mem, s), "exchange")
    BY <1>3 DEF Authenticated
  <2>2. /\ config' = config /\ target' = target /\ found' = s /\ flow' = f
        /\ at' \in StepUp => ~NoStepUp
        /\ f # "Failed" => at' \in StepUp \union {"Done"}
    BY <2>1, AfterAuth1Move
  <2>3. QED
    BY <1>3, <2>2 DEF StepUp
<1>4. QED
  BY <1>1, <1>2, <1>3

\* Every response of the ladder over BLE.
LEMMA LadderStep ==
  ASSUME IInv, LadderOverBle, NEW r \in Response, Respond(r)
  PROVE  IInv' /\ LadderOverBle' /\ LadderMove(r) /\ at \in Request
<1>1. IInv'
  BY StepInv DEF Next
<1>2. config.ble /\ TypeOK
  BY DEF LadderOverBle, IInv
<1> USE DEF Request, StepUp
<1>3. CASE Auth0(r)
  <2>1. at = "AUTH0" /\ found = None
    BY <1>3 DEF Auth0, IInv, UndecidedBlank
  <2>2. CASE /\ at' = "AUTH1" /\ r = "ok"
             /\ UNCHANGED <<config, target, flow, found>>
    BY <1>1, <1>2, <2>1, <2>2 DEF LadderOverBle, LadderMove, NoStepUp
  <2>3. ASSUME NEW s \in Slots, Authenticated(s, "Fast"), r = "ok"
        PROVE  LadderOverBle' /\ LadderMove(r)
    <3>1. s # None
      BY InvFacts
    <3>2. /\ config' = config /\ target' = target /\ found' = s /\ flow' = "Fast"
          /\ at' \in StepUp \union {"Done", "EXCHANGE_98"}
          /\ at' = "EXCHANGE_98" => config.ursk
          /\ at' \in StepUp => ~NoStepUp
      BY <1>2, <2>3, AuthenticatedMove
    <3>3. QED
      BY <1>2, <2>1, <2>3, <3>1, <3>2 DEF LadderOverBle, LadderMove, NoStepUp
  <2>4. CASE at' = "Failed" /\ UNCHANGED <<config, target, flow, found>>
    <3>1. LadderOverBle'
      BY <1>2, <2>4 DEF LadderOverBle
    <3>2. LadderMove(r)
      BY <2>1, <2>4 DEF LadderMove
    <3>3. QED
      BY <1>1, <2>1, <3>1, <3>2
  <2>5. QED
    BY <1>1, <1>2, <1>3, <2>1, <2>2, <2>3, <2>4 DEF Auth0
<1>4. CASE Auth1(r)
  <2>1. at = "AUTH1"
    BY <1>4 DEF Auth1
  <2>2. ASSUME NEW c, AfterAuth1(0, None, "Failed", mem, c)
        PROVE  LadderOverBle' /\ LadderMove(r)
    <3>1. /\ config' = config /\ target' = target /\ found' = None
          /\ flow' = "Failed"
          /\ at' \in StepUp \union {"EXCHANGE_97", "Failed"}
          /\ at' \in StepUp => ~NoStepUp
      BY <1>2, <2>2, AfterAuth1Move
    <3>2. QED
      BY <1>2, <2>1, <3>1 DEF LadderOverBle, LadderMove, NoStepUp
  <2>3. ASSUME NEW s \in Slots, Authenticated(s, "Standard"), r = "ok"
        PROVE  LadderOverBle' /\ LadderMove(r)
    <3>1. s # None
      BY InvFacts
    <3>2. /\ config' = config /\ target' = target /\ found' = s
          /\ flow' = "Standard"
          /\ at' \in StepUp \union {"Done", "EXCHANGE_98"}
          /\ at' = "EXCHANGE_98" => config.ursk
          /\ at' \in StepUp => ~NoStepUp
      BY <1>2, <2>3, AuthenticatedMove
    <3>3. QED
      BY <1>2, <2>1, <2>3, <3>1, <3>2 DEF LadderOverBle, LadderMove, NoStepUp
  <2>4. QED
    BY <1>1, <1>4, <2>1, <2>2, <2>3 DEF Auth1
<1>5. CASE Exchange98(r)
  <2>1. at = "EXCHANGE_98" /\ flow \in {"Fast", "Standard"}
    BY <1>5 DEF Exchange98, IInv, OfferNamesEndpoint
  <2>2. \/ /\ config' = config /\ target' = target /\ flow' = flow
           /\ at' \in StepUp \union {"Done"}
           /\ at' \in StepUp => ~NoStepUp
        \/ /\ config' = config /\ target' = target
           /\ at' = "Failed"
    BY <1>2, <1>5, <2>1, SettleMove, AfterAuth1Move DEF Exchange98
  <2>3. QED
    BY <1>1, <1>2, <2>1, <2>2 DEF LadderOverBle, LadderMove, NoStepUp
<1>6. CASE Select
  <2>1. /\ at = "SELECT" /\ at' = "ENVELOPE"
        /\ UNCHANGED <<config, target, flow>>
    BY <1>6 DEF Select
  <2>2. QED
    BY <1>1, <1>2, <2>1 DEF LadderOverBle, LadderMove, NoStepUp
<1>7. CASE Envelope(r) \/ GetResponse(r)
  <2>1. at \in {"ENVELOPE", "GET_RESPONSE"}
    BY <1>7 DEF Envelope, GetResponse
  <2>2. CASE StepUpFails \/ StepUpSucceeds
    <3>1. /\ config' = config /\ target' = target
          /\ flow' \in {flow, "Attestation"}
          /\ at' \in {"Done", "EXCHANGE_97", "Failed"}
          /\ at' = "Done" <=> flow' # "Failed"
      <4>1. CASE StepUpFails
        BY <1>2, <4>1, SettleMove DEF StepUpFails
      <4>2. CASE StepUpSucceeds
        <5>1. PICK i, s, store : Settle(i, s, "Attestation", store, ctx)
          BY <4>2 DEF StepUpSucceeds
        <5>2. QED
          BY <1>2, <5>1, SettleMove
      <4>3. QED
        BY <2>2, <4>1, <4>2
    <3>2. QED
      BY <1>1, <1>2, <2>1, <3>1 DEF LadderOverBle, LadderMove, NoStepUp
  <2>3. CASE /\ at' \in {"ENVELOPE", "GET_RESPONSE"}
             /\ UNCHANGED <<config, target, flow>>
    BY <1>1, <1>2, <2>1, <2>3 DEF LadderOverBle, LadderMove, NoStepUp
  <2>4. QED
    BY <1>7, <2>1, <2>2, <2>3 DEF Envelope, GetResponse, ladder
<1>8. CASE Exchange97(r)
  <2>1. /\ at = "EXCHANGE_97" /\ at' = "Failed"
        /\ UNCHANGED <<config, target, flow>>
    BY <1>2, <1>8 DEF Exchange97, Outcome, LadderOverBle
  <2>2. QED
    BY <1>1, <1>2, <2>1 DEF LadderOverBle, LadderMove, NoStepUp
<1>9. QED
  BY <1>3, <1>4, <1>5, <1>6, <1>7, <1>8 DEF Respond, ControlFlow, LadderOverBle

-----------------------------------------------------------------------------
\* What the device may say.
LEMMA Messages ==
  /\ Openable(DeviceMessage)
  /\ \A m \in DeviceMessage :
       /\ m.kind \in Notification \union {"AP_RS"} /\ m # NoMessage
       /\ m.c \in Nat
       /\ m.kind = "AP_RS" => m.re \in Nat /\ m.res \in DeviceResults
                              /\ m.c = Clear
       /\ m.kind # "AP_RS" => m.n \in Nat
<1>1. ASSUME NEW m \in [kind : {"AP_RS"}, c : {Clear}, re : Nat, res : DeviceResults]
      PROVE  Cleared(m) = m /\ m.kind = "AP_RS" /\ m.re \in Nat
             /\ m.res \in DeviceResults /\ m.c = Clear
  BY <1>1 DEF Cleared
<1>2. ASSUME NEW m \in [kind : Notification, c : Nat, n : 1 .. MaxDeviceMsgs]
      PROVE  /\ Cleared(m) = [kind |-> m.kind, c |-> Clear, n |-> m.n]
             /\ m.kind \in Notification /\ m.c \in Nat
             /\ m.n \in 1 .. MaxDeviceMsgs /\ m.n \in Nat
  BY <1>2, FlowAssumption DEF Cleared
<1>3. "AP_RS" \notin Notification /\ "none" \notin Notification /\ Clear \in Nat
  BY DEF Notification, Clear
<1>4. \A m \in DeviceMessage :
        /\ m.kind \in Notification \union {"AP_RS"}
        /\ m.c \in Nat
        /\ m.kind = "AP_RS" => m.re \in Nat /\ m.res \in DeviceResults
                               /\ m.c = Clear
        /\ m.kind # "AP_RS" => m.n \in Nat
  BY <1>1, <1>2, <1>3 DEF DeviceMessage
<1>5. \A m \in DeviceMessage : m.kind # "none" /\ m # NoMessage
  BY <1>3, <1>4 DEF NoMessage
<1>6. ASSUME NEW m \in DeviceMessage
      PROVE  /\ Cleared(m) \in DeviceMessage /\ Cleared(m).kind = m.kind
             /\ m.kind = "AP_RS" => Cleared(m).re = m.re /\ Cleared(m).res = m.res
             /\ m.kind # "AP_RS" => Cleared(m).n = m.n
  <2>1. CASE m \in [kind : {"AP_RS"}, c : {Clear}, re : Nat, res : DeviceResults]
    BY <1>1, <2>1
  <2>2. CASE m \in [kind : Notification, c : Nat, n : 1 .. MaxDeviceMsgs]
    BY <1>2, <1>3, <2>2 DEF DeviceMessage
  <2>3. QED
    BY <2>1, <2>2 DEF DeviceMessage
<1>7. Openable(DeviceMessage)
  BY <1>5, <1>6 DEF Openable
<1>8. QED
  BY <1>4, <1>5, <1>7

\* No request is outstanding: nothing is going to be taken for an answer.
NoAnswer(b, d) ==
  /\ d.pending = <<>>
  /\ Sequenced(b, TRUE)
  /\ \A a \in Segments(b) : \A i \in DOMAIN Segment(b, a) :
       Segment(b, a)[i].kind # "AP_RS"

\* What is to be received stays, but that the link may have dropped its part.
SameQueues(p, b) ==
  p.rx = b.rx /\ p.deferred = b.deferred /\ p.inbox \in {b.inbox, <<>>}

LEMMA QueuesKept ==
  ASSUME NEW b \in TransportState(DeviceMessage), NEW p, SameQueues(p, b),
         NEW d, NEW e, NEW last,
         e.asked = d.asked, e.pending = d.pending, e.sent = d.sent
  PROVE  /\ InOrder(b, d, last) => InOrder(p, e, last)
         /\ OneAnswer(b, d) => OneAnswer(p, e)
         /\ NoAnswer(b, d) => NoAnswer(p, e)
<1>1. Segments(p) \subseteq Segments(b)
      /\ \A a \in Segments(p) : Segment(p, a) = Segment(b, a)
  <2>1. CASE p.inbox = b.inbox
    BY <2>1 DEF SameQueues, Segments, Segment
  <2>2. CASE p.inbox = <<>>
    <3>1. Len(b.inbox) \in Nat
      BY SegmentFacts
    <3>2. Segments(p) = {0} /\ Segments(b) = 0 .. Len(b.inbox)
      BY <2>2 DEF Segments
    <3>3. QED
      BY <3>1, <3>2 DEF SameQueues, Segment
  <2>3. QED
    BY <2>1, <2>2 DEF SameQueues
<1>2. ASSUME NEW s, Sequenced(b, s) PROVE Sequenced(p, s)
  BY <1>1, <1>2 DEF Sequenced
<1>3. InOrder(b, d, last) => InOrder(p, e, last)
  BY <1>1, <1>2 DEF InOrder, SameQueues
<1>4. OneAnswer(b, d) => OneAnswer(p, e)
  BY <1>1, <1>2 DEF OneAnswer
<1>5. NoAnswer(b, d) => NoAnswer(p, e)
  BY <1>1, <1>2 DEF NoAnswer
<1>6. QED
  BY <1>3, <1>4, <1>5

\* What the transport holds was in its queues, with the same number and request.
LEMMA HeldFacts ==
  ASSUME NEW b \in TransportState(DeviceMessage), NEW x, Holds(b, x), NEW d, NEW last
  PROVE  /\ InOrder(b, d, last) /\ x.kind # "AP_RS" =>
              /\ last < x.n /\ x.n <= d.sent
              /\ \A j \in DOMAIN b.deferred : b.deferred[j].n < x.n
         /\ OneAnswer(b, d) /\ x.kind = "AP_RS" =>
              x.re = d.asked /\ d.asked # 0 /\ d.pending = <<>>
<1>1. PICK a \in Segments(b) : \E i \in DOMAIN Segment(b, a) :
        x = Segment(b, a)[i] \/ x = Cleared(Segment(b, a)[i])
  BY DEF Holds
<1>2. PICK i \in DOMAIN Segment(b, a) :
        x = Segment(b, a)[i] \/ x = Cleared(Segment(b, a)[i])
  BY <1>1
<1> DEFINE y == Segment(b, a)[i]
<1>3. y \in DeviceMessage
  BY SegmentFacts
<1>4. /\ x.kind = y.kind
      /\ x.kind = "AP_RS" => x.re = y.re
      /\ x.kind # "AP_RS" => x.n = y.n
  BY <1>2, <1>3, Messages DEF Openable
<1>5. InOrder(b, d, last) /\ x.kind # "AP_RS" =>
        /\ last < x.n /\ x.n <= d.sent
        /\ \A j \in DOMAIN b.deferred : b.deferred[j].n < x.n
  BY <1>4 DEF InOrder
<1>6. OneAnswer(b, d) /\ x.kind = "AP_RS" =>
        x.re = d.asked /\ d.asked # 0 /\ d.pending = <<>>
  BY <1>4 DEF OneAnswer
<1>7. QED
  BY <1>5, <1>6

\* One receive, with the device saying nothing meanwhile.
LEMMA ReceivedLink ==
  ASSUME NEW b, NEW d, NEW last \in Nat, LinkOk(b, d), InOrder(b, d, last)
  PROVE  LET p == Received(b).ble
             m == Received(b).msg
         IN  /\ SameOwner(p, b) /\ (p.up => b.up)
             /\ LinkOk(p, d) /\ InOrder(p, d, last)
             /\ m = NoMessage \/ m \in DeviceMessage
             /\ m # NoMessage /\ m.kind # "AP_RS" =>
                  /\ last < m.n /\ m.n <= d.sent
                  /\ \A j \in DOMAIN p.deferred : p.deferred[j].n < m.n
                  /\ Precedes(FALSE, m, p)
             /\ NoAnswer(b, d) => NoAnswer(p, d)
             /\ OneAnswer(b, d) =>
                  /\ OneAnswer(p, d)
                  /\ m # NoMessage /\ m.kind = "AP_RS" =>
                       NoAnswer(p, d) /\ m.re = d.asked
             /\ Together(b, d) => Together(p, d)
<1> DEFINE p == Received(b).ble
           m == Received(b).msg
           M == DeviceMessage
<1>1. /\ b \in TransportState(M) /\ Openable(M)
  BY Messages DEF LinkOk
<1>2. /\ p \in TransportState(M) /\ SameOwner(p, b)
      /\ b.down => p.down
      /\ p.up => b.up
      /\ Reception(p, b, m)
      /\ m = NoMessage \/ m \in M
  BY <1>1, ReceivedFacts
<1> HIDE DEF p, m, M
<1>3. \A s : Sequenced(b, s) =>
        Sequenced(p, s) /\ (m # NoMessage => Precedes(s, m, p))
  BY <1>1, <1>2, ReceptionInOrder
<1>4. /\ m # NoMessage => Holds(b, m)
      /\ \A a \in Segments(p) : \A i \in DOMAIN Segment(p, a) :
           Holds(b, Segment(p, a)[i])
  BY <1>1, <1>2, ReceptionOfHeld
<1>5. \A x : Holds(b, x) =>
        /\ x.kind # "AP_RS" =>
             /\ last < x.n /\ x.n <= d.sent
             /\ \A j \in DOMAIN b.deferred : b.deferred[j].n < x.n
        /\ OneAnswer(b, d) /\ x.kind = "AP_RS" =>
             x.re = d.asked /\ d.asked # 0 /\ d.pending = <<>>
  BY <1>1, HeldFacts DEF M
<1>6. p.deferred = b.deferred /\ p.active = b.active
      /\ p.sec.secured = b.sec.secured
      /\ p.sec.counter["reader"] = b.sec.counter["reader"]
      /\ (b.sec.aborted => p.sec.aborted)
      /\ (~b.sec.secured => p.sec = b.sec)
  BY <1>2 DEF SameOwner
<1>7. InOrder(p, d, last)
  BY <1>3, <1>4, <1>5, <1>6 DEF InOrder
<1>8. ASSUME m # NoMessage, m.kind # "AP_RS"
      PROVE  /\ last < m.n /\ m.n <= d.sent
             /\ \A j \in DOMAIN p.deferred : p.deferred[j].n < m.n
             /\ Precedes(FALSE, m, p)
  BY <1>3, <1>4, <1>5, <1>6, <1>8 DEF InOrder
<1>9. LinkOk(p, d)
  <2>1. \A a \in 1 .. Len(p.inbox) : \E e \in 1 .. Len(b.inbox) :
          p.inbox[a] = b.inbox[e]
    <3>1. Len(b.inbox) \in Nat /\ b.inbox \in Seq(Sdu(M))
      BY <1>1, SegmentFacts
    <3>2. p.inbox \in {b.inbox, <<>>} \/ (b.inbox # <<>> /\ p.inbox = Tail(b.inbox))
      <4>1. CASE Popped(p, b, m)
        <5> DEFINE tail == Tail(b.rx)
        <5> HIDE DEF tail
        <5>1. p = [b EXCEPT !.rx = tail]
          BY <4>1 DEF Popped, tail
        <5>2. p.inbox = b.inbox
          BY <1>1, <5>1, WithQueue
        <5>3. QED
          BY <5>2
      <4>2. QED
        BY <1>2, <4>1 DEF Reception, Unpacked, FoundNothing, GaveOut
    <3>3. CASE p.inbox = <<>>
      BY <3>3
    <3>4. CASE b.inbox # <<>> /\ p.inbox = Tail(b.inbox)
      BY <3>1, <3>4
    <3>5. QED
      BY <3>2, <3>3, <3>4
  <2>2. QED
    BY <1>1, <1>2, <1>6, <2>1 DEF LinkOk, M
<1>10. NoAnswer(b, d) => NoAnswer(p, d)
  <2> SUFFICES ASSUME NoAnswer(b, d) PROVE NoAnswer(p, d)
    OBVIOUS
  <2>1. \A x : Holds(b, x) => x.kind # "AP_RS"
    BY <1>1, SegmentFacts DEF Holds, NoAnswer, Openable
  <2>2. QED
    BY <1>3, <1>4, <2>1 DEF NoAnswer
<1>11. ASSUME OneAnswer(b, d)
       PROVE  /\ OneAnswer(p, d)
              /\ m # NoMessage /\ m.kind = "AP_RS" =>
                   NoAnswer(p, d) /\ m.re = d.asked
  <2>1. OneAnswer(p, d)
    BY <1>3, <1>4, <1>5, <1>11 DEF OneAnswer
  <2>2. ASSUME m # NoMessage, m.kind = "AP_RS"
        PROVE  NoAnswer(p, d) /\ m.re = d.asked
    <3>1. Precedes(TRUE, m, p) /\ Sequenced(p, TRUE)
      BY <1>3, <1>11, <2>2 DEF OneAnswer
    <3>2. m.re = d.asked /\ d.pending = <<>>
      BY <1>4, <1>5, <1>11, <2>2
    <3>3. QED
      BY <2>2, <3>1, <3>2 DEF NoAnswer, Precedes, Follows
  <2>3. QED
    BY <2>1, <2>2
<1>12. Together(b, d) => Together(p, d)
  <2> SUFFICES ASSUME Together(b, d), p.up, ~p.down, ~p.sec.aborted, ~d.sec.aborted
               PROVE  /\ p.sec.secured = d.sec.secured
                      /\ p.sec.counter["reader"] = d.sec.counter["reader"]
                      /\ p.sec.secured => Continues(p, d.sec.counter["device"])
    BY DEF Together
  <2>1. /\ b.sec.secured = d.sec.secured
        /\ b.sec.counter["reader"] = d.sec.counter["reader"]
        /\ b.sec.secured => Continues(b, d.sec.counter["device"])
    BY <1>2, <1>6 DEF Together
  <2>2. b.sec.secured => Continues(p, d.sec.counter["device"])
    BY <1>1, <1>2, <2>1, ReceptionContinues
  <2>3. QED
    BY <1>6, <2>1, <2>2
<1>13. QED
  BY <1>2, <1>7, <1>8, <1>9, <1>10, <1>11, <1>12 DEF p, m, M

-----------------------------------------------------------------------------
\* Another queue of parked messages is none of the link's business.
LEMMA DeferredLink ==
  ASSUME NEW b, NEW d, LinkOk(b, d), NEW q \in Seq(DeviceMessage)
  PROVE  LET p == [b EXCEPT !.deferred = q]
         IN  /\ p = [up |-> b.up, full |-> b.full, inbox |-> b.inbox,
                     down |-> b.down,
                     active |-> b.active, sec |-> b.sec, rx |-> b.rx,
                     deferred |-> q]
             /\ LinkOk(p, d)
             /\ \A s : Sequenced(b, s) => Sequenced(p, s)
             /\ Segments(p) = Segments(b)
             /\ \A a : Segment(p, a) = Segment(b, a)
             /\ OneAnswer(b, d) => OneAnswer(p, d)
             /\ NoAnswer(b, d) => NoAnswer(p, d)
             /\ Together(b, d) => Together(p, d)
<1> DEFINE p == [b EXCEPT !.deferred = q]
<1>1. b \in TransportState(DeviceMessage)
  BY DEF LinkOk
<1>2. p = [up |-> b.up, full |-> b.full, inbox |-> b.inbox, down |-> b.down,
           active |-> b.active, sec |-> b.sec, rx |-> b.rx, deferred |-> q]
  BY <1>1, WithQueue
<1> HIDE DEF p
<1>3. /\ p.up = b.up /\ p.inbox = b.inbox /\ p.down = b.down
      /\ p.active = b.active /\ p.sec = b.sec /\ p.rx = b.rx /\ p.deferred = q
  BY <1>2
<1>4. p \in TransportState(DeviceMessage)
  BY <1>1, <1>2 DEF TransportState
<1>5. LinkOk(p, d)
  BY <1>3, <1>4 DEF LinkOk
<1>6. Segments(p) = Segments(b) /\ \A a : Segment(p, a) = Segment(b, a)
  BY <1>3 DEF Segments, Segment
<1>7. \A s : Sequenced(b, s) => Sequenced(p, s)
  BY <1>6 DEF Sequenced
<1>8. (OneAnswer(b, d) => OneAnswer(p, d)) /\ (NoAnswer(b, d) => NoAnswer(p, d))
  BY <1>6, <1>7 DEF OneAnswer, NoAnswer
<1>9. \A k : Continues(b, k) => Continues(p, k)
  BY <1>3 DEF Continues, LastOfInbox
<1>10. Together(b, d) => Together(p, d)
  BY <1>3, <1>9 DEF Together
<1>11. QED
  BY <1>2, <1>5, <1>6, <1>7, <1>8, <1>10 DEF p

\* A message received is parked behind the others.
LEMMA ParkLink ==
  ASSUME NEW b, NEW d, NEW last \in Nat, LinkOk(b, d), InOrder(b, d, last),
         NEW m \in DeviceMessage, m.kind \notin Unparked,
         last < m.n, m.n <= d.sent,
         \A j \in DOMAIN b.deferred : b.deferred[j].n < m.n,
         Precedes(FALSE, m, b)
  PROVE  LET p == Park(b, m)
         IN  /\ LinkOk(p, d) /\ InOrder(p, d, last)
             /\ p.up = b.up /\ p.active = b.active /\ p.sec = b.sec
             /\ OneAnswer(b, d) => OneAnswer(p, d)
             /\ NoAnswer(b, d) => NoAnswer(p, d)
             /\ Together(b, d) => Together(p, d)
<1> DEFINE q == Append(b.deferred, m)
           p == Park(b, m)
<1>1. b.deferred \in Seq(DeviceMessage)
  BY DEF LinkOk, TransportState
<1>2. /\ q \in Seq(DeviceMessage)
      /\ DOMAIN q = 1 .. Len(b.deferred) + 1 /\ DOMAIN b.deferred = 1 .. Len(b.deferred)
      /\ Len(b.deferred) \in Nat
      /\ \A j \in DOMAIN b.deferred : q[j] = b.deferred[j]
      /\ q[Len(b.deferred) + 1] = m
  BY <1>1
<1> HIDE DEF q
<1>3. p = [b EXCEPT !.deferred = q]
  BY DEF Park, q
<1>4. /\ p = [up |-> b.up, full |-> b.full, inbox |-> b.inbox, down |-> b.down,
              active |-> b.active, sec |-> b.sec, rx |-> b.rx, deferred |-> q]
      /\ LinkOk(p, d)
      /\ \A s : Sequenced(b, s) => Sequenced(p, s)
      /\ Segments(p) = Segments(b)
      /\ \A a : Segment(p, a) = Segment(b, a)
      /\ OneAnswer(b, d) => OneAnswer(p, d)
      /\ NoAnswer(b, d) => NoAnswer(p, d)
      /\ Together(b, d) => Together(p, d)
  BY <1>2, <1>3, DeferredLink
<1> HIDE DEF p
<1>5. p.deferred = q /\ p.up = b.up /\ p.active = b.active /\ p.sec = b.sec
  BY <1>4
<1>6. ASSUME NEW j \in DOMAIN q
      PROVE  /\ q[j].kind \notin Unparked /\ last < q[j].n /\ q[j].n <= d.sent
             /\ \A k \in DOMAIN q : j < k => q[j].n < q[k].n
  <2>1. CASE j \in DOMAIN b.deferred
    <3>1. /\ b.deferred[j].kind \notin Unparked /\ last < b.deferred[j].n
          /\ b.deferred[j].n <= d.sent /\ b.deferred[j].n < m.n
          /\ \A k \in DOMAIN b.deferred :
               j < k => b.deferred[j].n < b.deferred[k].n
      BY <2>1 DEF InOrder
    <3>2. \A k \in DOMAIN q : j < k => q[j].n < q[k].n
      BY <1>2, <2>1, <3>1
    <3>3. QED
      BY <1>2, <2>1, <3>1, <3>2
  <2>2. CASE j = Len(b.deferred) + 1
    <3>1. \A k \in DOMAIN q : ~(j < k)
      BY <1>2, <2>2
    <3>2. QED
      BY <1>2, <2>2, <3>1
  <2>3. QED
    BY <1>2, <2>1, <2>2
<1>7. ASSUME NEW a \in Segments(p), NEW i \in DOMAIN Segment(p, a),
             Segment(p, a)[i].kind # "AP_RS"
      PROVE  /\ last < Segment(p, a)[i].n /\ Segment(p, a)[i].n <= d.sent
             /\ \A j \in DOMAIN q : q[j].n < Segment(p, a)[i].n
  <2>1. /\ last < Segment(b, a)[i].n /\ Segment(b, a)[i].n <= d.sent
        /\ \A j \in DOMAIN b.deferred : b.deferred[j].n < Segment(b, a)[i].n
    BY <1>4, <1>7 DEF InOrder
  <2>2. m.n < Segment(b, a)[i].n
    BY <1>4, <1>7 DEF Precedes, Follows, Unparked
  <2>3. \A j \in DOMAIN q : q[j].n < Segment(b, a)[i].n
    BY <1>2, <2>1, <2>2
  <2>4. Segment(p, a)[i] = Segment(b, a)[i]
    BY <1>4
  <2>5. QED
    BY <2>1, <2>3, <2>4
<1>8. InOrder(p, d, last)
  <2>1. last <= d.sent /\ Sequenced(p, FALSE)
    BY <1>4 DEF InOrder
  <2>2. \A j \in DOMAIN p.deferred :
          /\ p.deferred[j].kind \notin Unparked
          /\ last < p.deferred[j].n /\ p.deferred[j].n <= d.sent
          /\ \A k \in DOMAIN p.deferred :
               j < k => p.deferred[j].n < p.deferred[k].n
    BY <1>5, <1>6, Zenon
  <2>3. \A a \in Segments(p) : \A i \in DOMAIN Segment(p, a) :
          Segment(p, a)[i].kind # "AP_RS" =>
            /\ last < Segment(p, a)[i].n /\ Segment(p, a)[i].n <= d.sent
            /\ \A j \in DOMAIN p.deferred : p.deferred[j].n < Segment(p, a)[i].n
    BY <1>5, <1>7, Zenon
  <2>4. QED
    BY <2>1, <2>2, <2>3, Zenon DEF InOrder
<1>9. QED
  BY <1>4, <1>5, <1>8 DEF p

\* The first of the parked messages is handled, and the others kept or dropped.
LEMMA DrainLink ==
  ASSUME NEW b, NEW d, NEW last \in Nat, LinkOk(b, d), InOrder(b, d, last),
         b.deferred # <<>>, NEW q \in {Tail(b.deferred), <<>>}
  PROVE  LET p == [b EXCEPT !.deferred = q]
             m == Head(b.deferred)
         IN  /\ LinkOk(p, d) /\ InOrder(p, d, m.n)
             /\ p.up = b.up /\ p.active = b.active /\ p.sec = b.sec
             /\ m \in DeviceMessage /\ m.kind \notin Unparked /\ last < m.n
             /\ Together(b, d) => Together(p, d)
<1> DEFINE p == [b EXCEPT !.deferred = q]
           m == Head(b.deferred)
<1>1. b.deferred \in Seq(DeviceMessage)
  BY DEF LinkOk, TransportState
<1>2. /\ q \in Seq(DeviceMessage)
      /\ m = b.deferred[1] /\ 1 \in DOMAIN b.deferred /\ m \in DeviceMessage
      /\ \A j \in DOMAIN q : j + 1 \in DOMAIN b.deferred /\ j \in Nat /\ 1 < j + 1
                             /\ q[j] = b.deferred[j + 1]
  <2>1. CASE q = <<>>
    BY <1>1, <2>1
  <2>2. CASE q = Tail(b.deferred)
    BY <1>1, <2>2
  <2>3. QED
    BY <2>1, <2>2
<1> HIDE DEF m
<1>3. /\ p = [up |-> b.up, full |-> b.full, inbox |-> b.inbox, down |-> b.down,
              active |-> b.active, sec |-> b.sec, rx |-> b.rx, deferred |-> q]
      /\ LinkOk(p, d)
      /\ \A s : Sequenced(b, s) => Sequenced(p, s)
      /\ Segments(p) = Segments(b)
      /\ \A a : Segment(p, a) = Segment(b, a)
      /\ Together(b, d) => Together(p, d)
  BY <1>2, DeferredLink
<1> HIDE DEF p
<1>4. p.deferred = q /\ p.up = b.up /\ p.active = b.active /\ p.sec = b.sec
  BY <1>3
<1>5. m.kind \notin Unparked /\ last < m.n /\ m.n <= d.sent
  BY <1>2 DEF InOrder
<1>6. ASSUME NEW j \in DOMAIN q
      PROVE  /\ q[j].kind \notin Unparked /\ m.n < q[j].n /\ q[j].n <= d.sent
             /\ \A k \in DOMAIN q : j < k => q[j].n < q[k].n
  <2>1. j + 1 \in DOMAIN b.deferred /\ q[j] = b.deferred[j + 1] /\ 1 < j + 1
    BY <1>2
  <2>2. /\ q[j].kind \notin Unparked /\ m.n < q[j].n /\ q[j].n <= d.sent
    BY <1>2, <2>1 DEF InOrder
  <2>3. ASSUME NEW k \in DOMAIN q, j < k PROVE q[j].n < q[k].n
    <3>1. k + 1 \in DOMAIN b.deferred /\ q[k] = b.deferred[k + 1] /\ j + 1 < k + 1
      BY <1>2, <2>3
    <3>2. QED
      BY <2>1, <3>1 DEF InOrder
  <2>4. QED
    BY <2>2, <2>3
<1>7. ASSUME NEW a \in Segments(p), NEW i \in DOMAIN Segment(p, a),
             Segment(p, a)[i].kind # "AP_RS"
      PROVE  /\ m.n < Segment(p, a)[i].n /\ Segment(p, a)[i].n <= d.sent
             /\ \A j \in DOMAIN q : q[j].n < Segment(p, a)[i].n
  BY <1>2, <1>3, <1>7 DEF InOrder
<1>8. m.n <= d.sent /\ Sequenced(p, FALSE)
  BY <1>3, <1>5 DEF InOrder
<1>9. InOrder(p, d, m.n)
  <2>1. \A j \in DOMAIN p.deferred :
          /\ p.deferred[j].kind \notin Unparked
          /\ m.n < p.deferred[j].n /\ p.deferred[j].n <= d.sent
          /\ \A k \in DOMAIN p.deferred :
               j < k => p.deferred[j].n < p.deferred[k].n
    BY <1>4, <1>6, Zenon
  <2>2. \A a \in Segments(p) : \A i \in DOMAIN Segment(p, a) :
          Segment(p, a)[i].kind # "AP_RS" =>
            /\ m.n < Segment(p, a)[i].n /\ Segment(p, a)[i].n <= d.sent
            /\ \A j \in DOMAIN p.deferred : p.deferred[j].n < Segment(p, a)[i].n
    BY <1>4, <1>7, Zenon
  <2>3. QED
    BY <2>1, <2>2, <1>8, Zenon DEF InOrder
<1>10. QED
  BY <1>2, <1>3, <1>4, <1>5, <1>9 DEF p, m

\* With nothing parked, a message received is handled at once.
LEMMA HandledLink ==
  ASSUME NEW b, NEW d, NEW last, InOrder(b, d, last), b.deferred = <<>>,
         NEW m, m.kind # "AP_RS", m.n <= d.sent, Precedes(FALSE, m, b)
  PROVE  InOrder(b, d, m.n)
<1>1. DOMAIN b.deferred = {}
  OBVIOUS
<1>2. \A a \in Segments(b) : \A i \in DOMAIN Segment(b, a) :
        Segment(b, a)[i].kind # "AP_RS" =>
          m.n < Segment(b, a)[i].n /\ Segment(b, a)[i].n <= d.sent
  BY DEF InOrder, Precedes, Follows
<1>3. QED
  BY <1>1, <1>2 DEF InOrder

-----------------------------------------------------------------------------
\* What the reader sends.
Outgoing == {"AP_RQ", "GeneralError", "UwbFrame", "StatusChanged"}

\* What the device makes of what it hears: e is d after it.
HeardAs(d, kind, c, e) ==
  /\ e \in DeviceState /\ e.sent = d.sent
  /\ kind = "AP_RQ" =>
       /\ e.sec = d.sec /\ e.asked = d.asked + 1
       /\ e.pending = Append(d.pending, d.asked + 1)
  /\ kind # "AP_RQ" => e.asked = d.asked /\ e.pending = d.pending
  /\ kind # "AP_RQ" /\ kind # "ApCompleted" =>
       e.sec = AfterUnseal(d.sec, "device", FALSE, c)

LEMMA HeardFacts ==
  ASSUME NEW d \in DeviceState, NEW kind, NEW c
  PROVE  HeardAs(d, kind, c, Heard(d, kind, c))
<1> USE DEF HeardAs
<1> DEFINE e == Heard(d, kind, c)
<1>1. /\ d.asked \in Nat /\ d.pending \in Seq(Nat) /\ d.sent \in 0 .. MaxDeviceMsgs
      /\ d.sec \in SecurityState /\ d.sec.secured \in BOOLEAN
  BY DEF DeviceState, SecurityState
<1>2. CASE kind = "AP_RQ"
  <2>1. e = [asked |-> d.asked + 1, pending |-> Append(d.pending, d.asked + 1),
             sent |-> d.sent, sec |-> d.sec]
    BY <1>2 DEF Heard, DeviceState
  <2>2. d.asked + 1 \in Nat /\ Append(d.pending, d.asked + 1) \in Seq(Nat)
    BY <1>1
  <2>3. e \in DeviceState
    BY <1>1, <2>1, <2>2 DEF DeviceState
  <2> HIDE DEF e
  <2>4. /\ e.sent = d.sent /\ e.sec = d.sec /\ e.asked = d.asked + 1
        /\ e.pending = Append(d.pending, d.asked + 1)
    BY <2>1
  <2>5. QED
    BY <1>2, <2>3, <2>4 DEF e
<1>3. CASE kind # "AP_RQ"
  <2> DEFINE w == d.sec.secured \/ (kind = "ApCompleted" /\ c # Clear)
             s == [secured |-> w, aborted |-> d.sec.aborted,
                   counter |-> d.sec.counter]
             t == AfterUnseal(s, "device", FALSE, c)
  <2>1. s \in SecurityState
    BY <1>1 DEF SecurityState
  <2>2. [d.sec EXCEPT !.secured = w] = s
    BY <1>1 DEF SecurityState
  <2>3. t \in SecurityState
    BY <2>1, OpenFacts
  <2>4. e = [asked |-> d.asked, pending |-> d.pending, sent |-> d.sent, sec |-> t]
    BY <1>3, <2>2 DEF Heard, DeviceState
  <2>5. kind # "ApCompleted" => s = d.sec
    BY <1>1 DEF SecurityState
  <2> HIDE DEF s
  <2>6. kind # "ApCompleted" => t = AfterUnseal(d.sec, "device", FALSE, c)
    BY <2>5
  <2> HIDE DEF t, e
  <2>7. e \in DeviceState
    BY <1>1, <2>3, <2>4 DEF DeviceState
  <2>8. /\ e.asked = d.asked /\ e.pending = d.pending /\ e.sent = d.sent
        /\ e.sec = t
    BY <2>4
  <2>9. QED
    BY <1>3, <2>6, <2>7, <2>8 DEF e
<1>4. QED
  BY <1>2, <1>3

\* At AP Completed the device opens its window if the message was sealed.
LEMMA HeardCompleted ==
  ASSUME NEW d \in DeviceState, NEW c
  PROVE  LET e == Heard(d, "ApCompleted", c)
         IN  /\ e \in DeviceState /\ e.sent = d.sent
             /\ e.asked = d.asked /\ e.pending = d.pending
             /\ e.sec.secured = (d.sec.secured \/ c # Clear)
             /\ e.sec.counter["device"] = d.sec.counter["device"]
             /\ d.sec.aborted => e.sec.aborted
             /\ ~e.sec.secured => e.sec = d.sec
             /\ e.sec.secured /\ c = d.sec.counter["reader"] =>
                  e.sec.counter["reader"] = c + 1
<1> DEFINE w == d.sec.secured \/ c # Clear
           s == [secured |-> w, aborted |-> d.sec.aborted,
                 counter |-> d.sec.counter]
           t == AfterUnseal(s, "device", FALSE, c)
           e == Heard(d, "ApCompleted", c)
<1>1. /\ d.asked \in Nat /\ d.pending \in Seq(Nat) /\ d.sent \in 0 .. MaxDeviceMsgs
      /\ d.sec \in SecurityState /\ d.sec.secured \in BOOLEAN
  BY DEF DeviceState, SecurityState
<1>2. s \in SecurityState
  BY <1>1 DEF SecurityState
<1>3. [d.sec EXCEPT !.secured = w] = s
  BY <1>1 DEF SecurityState
<1>4. e = [asked |-> d.asked, pending |-> d.pending, sent |-> d.sent, sec |-> t]
  BY <1>3 DEF Heard, DeviceState
<1>5. ~s.secured => s = d.sec
  BY <1>1 DEF SecurityState
<1>6. /\ s.secured = w /\ s.aborted = d.sec.aborted /\ s.counter = d.sec.counter
  OBVIOUS
<1> HIDE DEF s
<1>7. /\ t \in SecurityState /\ t.secured = s.secured
      /\ t.counter["device"] = s.counter["device"]
      /\ s.aborted => t.aborted
      /\ ~s.secured => t = s
      /\ s.secured /\ c = s.counter["reader"] => t.counter["reader"] = c + 1
  BY <1>2, OpenFacts
<1> HIDE DEF t, e
<1>8. e \in DeviceState
  BY <1>1, <1>4, <1>7 DEF DeviceState
<1>9. /\ e.asked = d.asked /\ e.pending = d.pending /\ e.sent = d.sent
      /\ e.sec = t
  BY <1>4
<1>10. QED
  BY <1>5, <1>6, <1>7, <1>8, <1>9 DEF e

\* A send, and the device hearing it.
LEMMA SentLink ==
  ASSUME NEW b, NEW d, NEW last, LinkOk(b, d), InOrder(b, d, last),
         NEW kind \in Outgoing, NEW empty
  PROVE  LET x == Sent([ble |-> b, dev |-> d], kind, empty)
         IN  /\ LinkOk(x.ble, x.dev) /\ InOrder(x.ble, x.dev, last)
             /\ x.ble.deferred = b.deferred /\ x.ble.active = b.active
             /\ x.ble.sec.secured = b.sec.secured
             /\ x.ble.up => b.up
             /\ ~SendOk(b, kind, empty) => x.dev = d
             /\ kind # "AP_RQ" /\ OneAnswer(b, d) => OneAnswer(x.ble, x.dev)
             /\ kind = "AP_RQ" /\ NoAnswer(b, d) => OneAnswer(x.ble, x.dev)
             /\ Together(b, d) /\ (kind = "AP_RQ" \/ kind \notin Oversize) =>
                  Together(x.ble, x.dev)
<1> DEFINE x == Sent([ble |-> b, dev |-> d], kind, empty)
           p == AfterSend(b, kind, empty)
           c == SealedUnder(b.sec, "reader", IsAp(kind))
           e == IF SendOk(b, kind, empty) THEN Heard(d, kind, c) ELSE d
           t == AfterSeal(b.sec, "reader", IsAp(kind), empty)
           u == AfterUnseal(d.sec, "device", FALSE, c)
<1>1. x.ble = p /\ x.dev = e
  BY DEF Sent
<1>2. /\ b \in TransportState(DeviceMessage) /\ d \in DeviceState
      /\ b.sec \in SecurityState /\ d.sec \in SecurityState
  BY DEF LinkOk, TransportState, DeviceState
<1>3. /\ p \in TransportState(DeviceMessage)
      /\ p.rx = b.rx /\ p.deferred = b.deferred /\ p.active = b.active
      /\ p.inbox \in {b.inbox, <<>>}
      /\ p.sec \in {b.sec, t}
      /\ b.down => p.down
      /\ p.up =>
           /\ b.up /\ p.inbox = b.inbox /\ p.sec = t
           /\ ~SealFails(b.sec, IsAp(kind), empty)
           /\ ~p.down /\ kind \notin Oversize => SendOk(b, kind, empty)
  BY <1>2, AfterSendFacts
<1>4. /\ t \in SecurityState /\ t.secured = b.sec.secured
      /\ t.counter["device"] = b.sec.counter["device"]
      /\ b.sec.aborted => t.aborted
      /\ Exempt(b.sec, IsAp(kind)) => t = b.sec
      /\ ~Exempt(b.sec, IsAp(kind)) /\ ~empty =>
           /\ t.counter["reader"] = b.sec.counter["reader"] + 1
           /\ t.aborted = (b.sec.aborted \/ b.sec.counter["reader"] + 1 > MaxCounter)
  BY <1>2, SealFacts DEF Role, Peer
<1>5. /\ u \in SecurityState /\ u.secured = d.sec.secured
      /\ u.counter["device"] = d.sec.counter["device"]
      /\ d.sec.aborted => u.aborted
      /\ ~d.sec.secured => u = d.sec
      /\ d.sec.secured /\ c = d.sec.counter["reader"] =>
           /\ u.counter["reader"] = c + 1
           /\ u.aborted = (d.sec.aborted \/ c + 1 > MaxCounter)
  <2> HIDE DEF x, p, c, e, t
  <2>1. d.sec \in SecurityState
    BY <1>2
  <2>2. QED
    BY <2>1, OpenFacts
<1>6. /\ e \in DeviceState /\ e.sent = d.sent
      /\ kind = "AP_RQ" => e.sec = d.sec
      /\ kind # "AP_RQ" => e.asked = d.asked /\ e.pending = d.pending
      /\ kind # "AP_RQ" /\ SendOk(b, kind, empty) => e.sec = u
      /\ ~SendOk(b, kind, empty) => e = d
      /\ kind = "AP_RQ" /\ SendOk(b, kind, empty) =>
           e.asked = d.asked + 1 /\ e.pending = Append(d.pending, d.asked + 1)
  <2> HIDE DEF c
  <2> DEFINE h == Heard(d, kind, c)
  <2>1. /\ h \in DeviceState /\ h.sent = d.sent
        /\ kind = "AP_RQ" =>
             /\ h.sec = d.sec /\ h.asked = d.asked + 1
             /\ h.pending = Append(d.pending, d.asked + 1)
        /\ kind # "AP_RQ" => h.asked = d.asked /\ h.pending = d.pending
        /\ kind # "AP_RQ" /\ kind # "ApCompleted" => h.sec = u
    <3>1. HeardAs(d, kind, c, h)
      BY <1>2, HeardFacts
    <3> HIDE DEF h
    <3>2. QED
      BY <3>1 DEF HeardAs
  <2>2. kind # "ApCompleted"
    BY DEF Outgoing
  <2> HIDE DEF h, u
  <2>3. e = IF SendOk(b, kind, empty) THEN h ELSE d
    BY DEF h
  <2> HIDE DEF e
  <2>4. QED
    BY <1>2, <2>1, <2>2, <2>3
<1> HIDE DEF x, p, c, e, t, u
<1>7. p.sec.secured = b.sec.secured /\ (~b.sec.secured => p.sec = b.sec)
      /\ (b.sec.aborted => p.sec.aborted)
  <2>1. ~b.sec.secured => t = b.sec
    BY <1>4 DEF Exempt
  <2>2. QED
    BY <1>3, <1>4, <2>1
<1>8. e.sec.secured = d.sec.secured /\ (~d.sec.secured => e.sec = d.sec)
      /\ (d.sec.aborted => e.sec.aborted)
  BY <1>5, <1>6
<1>9. SameQueues(p, b)
  BY <1>3 DEF SameQueues
<1>10. LinkOk(p, e)
  <2>1. \A a \in 1 .. Len(p.inbox) : p.inbox[a] = b.inbox[a] /\ a \in 1 .. Len(b.inbox)
    <3>1. CASE p.inbox = b.inbox
      BY <3>1
    <3>2. CASE p.inbox = <<>>
      BY <3>2
    <3>3. QED
      BY <1>3, <3>1, <3>2
  <2>2. QED
    BY <1>3, <1>6, <1>7, <1>8, <2>1 DEF LinkOk
<1>11. InOrder(p, e, last)
  <2> DEFINE g == [asked |-> 0, pending |-> <<>>, sent |-> d.sent]
  <2>1. InOrder(b, g, last)
    BY DEF InOrder
  <2>2. InOrder(p, g, last)
    BY <1>2, <1>9, <2>1, QueuesKept
  <2>3. QED
    BY <1>6, <2>2 DEF InOrder
<1>12. kind # "AP_RQ" /\ OneAnswer(b, d) => OneAnswer(p, e)
  BY <1>2, <1>6, <1>9, QueuesKept
<1>13. ASSUME kind = "AP_RQ", NoAnswer(b, d) PROVE OneAnswer(p, e)
  <2>1. NoAnswer(p, d)
    BY <1>2, <1>9, <1>13, QueuesKept
  <2>2. d.asked \in Nat /\ d.pending = <<>>
    BY <1>2, <1>13 DEF NoAnswer, DeviceState
  <2>3. Len(e.pending) <= 1 /\ \A i \in DOMAIN e.pending :
          e.pending[i] = e.asked /\ e.asked # 0
    <3>1. CASE SendOk(b, kind, empty)
      <4>1. e.pending = <<d.asked + 1>> /\ e.asked = d.asked + 1
        BY <1>6, <1>13, <2>2, <3>1
      <4>2. QED
        BY <2>2, <4>1
    <3>2. CASE ~SendOk(b, kind, empty)
      BY <1>6, <2>2, <3>2
    <3>3. QED
      BY <3>1, <3>2
  <2>4. QED
    BY <2>1, <2>3 DEF NoAnswer, OneAnswer
<1>14. ASSUME Together(b, d), kind = "AP_RQ" \/ kind \notin Oversize
       PROVE  Together(p, e)
  <2> SUFFICES ASSUME p.up, ~p.down, ~p.sec.aborted, ~e.sec.aborted
               PROVE  /\ p.sec.secured = e.sec.secured
                      /\ p.sec.counter["reader"] = e.sec.counter["reader"]
                      /\ p.sec.secured => Continues(p, e.sec.counter["device"])
    BY DEF Together
  <2>1. /\ b.sec.secured = d.sec.secured
        /\ b.sec.counter["reader"] = d.sec.counter["reader"]
        /\ b.sec.secured => Continues(b, d.sec.counter["device"])
    BY <1>3, <1>7, <1>8, <1>14 DEF Together
  <2>2. p.sec = t /\ p.inbox = b.inbox /\ ~SealFails(b.sec, IsAp(kind), empty)
    BY <1>3
  <2>3. p.sec.counter["device"] = b.sec.counter["device"]
        /\ e.sec.counter["device"] = d.sec.counter["device"]
    BY <1>4, <1>5, <1>6, <2>2
  <2>4. p.sec.counter["reader"] = e.sec.counter["reader"]
    <3>1. CASE kind = "AP_RQ"
      <4>1. IsAp(kind)
        BY <3>1 DEF IsAp
      <4>2. t = b.sec /\ e.sec = d.sec
        BY <1>4, <1>6, <3>1, <4>1 DEF Exempt
      <4>3. QED
        BY <2>1, <2>2, <4>2
    <3>2. CASE kind # "AP_RQ" /\ ~b.sec.secured
      BY <1>7, <1>8, <2>1, <3>2
    <3>3. CASE kind # "AP_RQ" /\ b.sec.secured
      <4>1. ~IsAp(kind) /\ ~Exempt(b.sec, IsAp(kind)) /\ SendOk(b, kind, empty)
        BY <1>3, <1>14, <3>3 DEF Outgoing, IsAp, Exempt
      <4>2. ~empty /\ c = b.sec.counter["reader"]
        BY <2>2, <4>1 DEF SealFails, SealedUnder, c
      <4>3. QED
        BY <1>4, <1>5, <1>6, <2>1, <2>2, <3>3, <4>1, <4>2
    <3>4. QED
      BY <3>1, <3>2, <3>3
  <2>5. b.sec.secured => Continues(p, d.sec.counter["device"])
    BY <2>1, <2>2, <2>3 DEF Continues, LastOfInbox
  <2>6. QED
    BY <1>7, <1>8, <2>1, <2>3, <2>4, <2>5
<1>15. QED
  BY <1>1, <1>3, <1>6, <1>7, <1>10, <1>11, <1>12, <1>13, <1>14 DEF x


\* Message security is activated at an end that had none.
LEMMA KeyedLink ==
  ASSUME NEW b, NEW d, NEW last, LinkOk(b, d), InOrder(b, d, last), ~b.active
  PROVE  LET p == Activate(b)
         IN  /\ LinkOk(p, d) /\ InOrder(p, d, last)
             /\ p.active /\ p.sec = b.sec /\ p.deferred = b.deferred
             /\ OneAnswer(b, d) => OneAnswer(p, d)
             /\ NoAnswer(b, d) => NoAnswer(p, d)
             /\ Together(b, d) => Together(p, d)
<1> DEFINE p == Activate(b)
<1>1. /\ b \in TransportState(DeviceMessage) /\ b.sec = FreshSecurity
      /\ b = [up |-> b.up, full |-> b.full, inbox |-> b.inbox, down |-> b.down,
              active |-> b.active, sec |-> b.sec, rx |-> b.rx,
              deferred |-> b.deferred]
  BY DEF LinkOk, TransportState
<1>2. p = [up |-> b.up, full |-> b.full, inbox |-> b.inbox,
           down |-> b.down, active |-> TRUE,
           sec |-> b.sec, rx |-> b.rx, deferred |-> b.deferred]
  <2>1. p = [b EXCEPT !.active = TRUE, !.sec = b.sec]
    BY <1>1 DEF Activate
  <2>2. QED
    BY <1>1, <2>1
<1>3. p \in TransportState(DeviceMessage)
  BY <1>1, <1>2 DEF TransportState
<1> HIDE DEF p
<1>4. /\ p.up = b.up /\ p.inbox = b.inbox /\ p.down = b.down /\ p.active
      /\ p.sec = b.sec /\ p.rx = b.rx /\ p.deferred = b.deferred
  BY <1>2
<1>5. LinkOk(p, d)
  BY <1>3, <1>4 DEF LinkOk
<1>6. SameQueues(p, b)
  BY <1>4 DEF SameQueues
<1>7. \A k : Continues(b, k) => Continues(p, k)
  BY <1>4 DEF Continues, LastOfInbox
<1>8. Together(b, d) => Together(p, d)
  BY <1>4, <1>7 DEF Together
<1>9. QED
  BY <1>1, <1>4, <1>5, <1>6, <1>8, QueuesKept DEF p

\* The link goes down, by the reader's hand or not, with or without its queue.
LEMMA DownLink ==
  ASSUME NEW b, NEW d, NEW last, LinkOk(b, d), InOrder(b, d, last),
         NEW p, p = CloseLink(b) \/ p = [b EXCEPT !.up = FALSE, !.full = FALSE]
                \/ p = [b EXCEPT !.up = FALSE, !.full = FALSE, !.inbox = <<>>]
  PROVE  /\ LinkOk(p, d) /\ InOrder(p, d, last)
         /\ ~p.up /\ p.active = b.active /\ p.sec = b.sec
         /\ p.deferred = b.deferred
         /\ OneAnswer(b, d) => OneAnswer(p, d)
         /\ NoAnswer(b, d) => NoAnswer(p, d)
         /\ Together(p, d)
<1>1. /\ b \in TransportState(DeviceMessage)
      /\ b = [up |-> b.up, full |-> b.full, inbox |-> b.inbox, down |-> b.down,
              active |-> b.active, sec |-> b.sec, rx |-> b.rx,
              deferred |-> b.deferred]
  BY DEF LinkOk, TransportState
<1>2. PICK i \in {b.inbox, <<>>}, w \in {b.down, TRUE} :
        p = [up |-> FALSE, full |-> FALSE, inbox |-> i,
             down |-> w, active |-> b.active,
             sec |-> b.sec, rx |-> b.rx, deferred |-> b.deferred]
  BY <1>1 DEF CloseLink, Closed
<1>3. i \in Seq(Sdu(DeviceMessage)) /\ w \in BOOLEAN
  <2>1. <<>> \in Seq(Sdu(DeviceMessage))
    OBVIOUS
  <2>2. b.inbox \in Seq(Sdu(DeviceMessage)) /\ b.down \in BOOLEAN
    BY <1>1 DEF TransportState
  <2>3. QED
    BY <2>1, <2>2
<1>4. p \in TransportState(DeviceMessage)
  BY <1>1, <1>2, <1>3 DEF TransportState
<1>5. /\ p.up = FALSE /\ p.inbox = i /\ p.active = b.active
      /\ p.sec = b.sec /\ p.rx = b.rx /\ p.deferred = b.deferred
  BY <1>2
<1>6. \A a \in 1 .. Len(p.inbox) : p.inbox[a] = b.inbox[a] /\ a \in 1 .. Len(b.inbox)
  <2>1. CASE i = b.inbox
    BY <1>5, <2>1
  <2>2. CASE i = <<>>
    BY <1>5, <2>2
  <2>3. QED
    BY <2>1, <2>2
<1>7. LinkOk(p, d)
  BY <1>4, <1>5, <1>6 DEF LinkOk
<1>8. SameQueues(p, b)
  BY <1>5 DEF SameQueues
<1>9. QED
  BY <1>1, <1>5, <1>7, <1>8, QueuesKept DEF Together

\* ... as it is closed.
LEMMA ClosedLink ==
  ASSUME NEW b, NEW d, NEW last, LinkOk(b, d), InOrder(b, d, last)
  PROVE  /\ LinkOk(CloseLink(b), d) /\ InOrder(CloseLink(b), d, last)
         /\ CloseLink(b).active = b.active /\ CloseLink(b).sec = b.sec
         /\ OneAnswer(b, d) => OneAnswer(CloseLink(b), d)
         /\ Together(CloseLink(b), d)
<1> DEFINE p == CloseLink(b)
<1>1. p = CloseLink(b)
  OBVIOUS
<1> HIDE DEF p
<1>2. /\ LinkOk(p, d) /\ InOrder(p, d, last)
      /\ p.active = b.active /\ p.sec = b.sec
      /\ OneAnswer(b, d) => OneAnswer(p, d)
      /\ Together(p, d)
  BY <1>1, DownLink
<1>3. QED
  BY <1>1, <1>2

\* AP Completed: both ends open their windows, if the reader has keys.
LEMMA CompletedLink ==
  ASSUME NEW b, NEW d, NEW last, LinkOk(b, d), InOrder(b, d, last),
         ~b.sec.secured
  PROVE  LET x == Sent([ble |-> SetSecured(b), dev |-> d], "ApCompleted", FALSE)
         IN  /\ LinkOk(x.ble, x.dev) /\ InOrder(x.ble, x.dev, last)
             /\ x.ble.active = b.active /\ x.ble.sec.secured = b.active
             /\ Together(b, d) /\ "ApCompleted" \notin Oversize =>
                  Together(x.ble, x.dev)
<1> DEFINE empty == FALSE
           k == SetSecured(b)
           x == Sent([ble |-> k, dev |-> d], "ApCompleted", empty)
           p == AfterSend(k, "ApCompleted", empty)
           ap == IsAp("ApCompleted")
           c == SealedUnder(k.sec, "reader", ap)
           ok == SendOk(k, "ApCompleted", empty)
           h == Heard(d, "ApCompleted", c)
           e == IF ok THEN h ELSE d
           t == AfterSeal(k.sec, "reader", ap, empty)
           keyed == [secured |-> b.active, aborted |-> FALSE,
                     counter |-> [r \in Role |-> 1]]
<1>1. ~empty
  OBVIOUS
<1> HIDE DEF empty
<1>2. x.ble = p /\ x.dev = e
  BY DEF Sent
<1>3. /\ b \in TransportState(DeviceMessage) /\ d \in DeviceState
      /\ b.sec = FreshSecurity
      /\ b.active \in BOOLEAN /\ ~ap
      /\ b = [up |-> b.up, full |-> b.full, inbox |-> b.inbox, down |-> b.down,
              active |-> b.active, sec |-> b.sec, rx |-> b.rx,
              deferred |-> b.deferred]
  BY DEF LinkOk, TransportState, IsAp
<1>4. /\ keyed \in SecurityState /\ keyed.secured = b.active /\ ~keyed.aborted
      /\ keyed.counter["reader"] = 1 /\ keyed.counter["device"] = 1
      /\ ~b.active => keyed = FreshSecurity
      /\ b.active => [FreshSecurity EXCEPT !.secured = TRUE] = keyed
  <2>1. [r \in Role |-> 1] \in [Role -> Nat \ {0}]
        /\ [r \in Role |-> 1]["reader"] = 1 /\ [r \in Role |-> 1]["device"] = 1
    BY DEF Role
  <2>2. keyed \in SecurityState
    BY <1>3, <2>1 DEF SecurityState
  <2>3. ~b.active => keyed = FreshSecurity
    BY <1>3 DEF FreshSecurity
  <2>4. ASSUME b.active PROVE [FreshSecurity EXCEPT !.secured = TRUE] = keyed
    <3> DEFINE ones == [r \in Role |-> 1]
    <3>1. keyed = [secured |-> TRUE, aborted |-> FALSE, counter |-> ones]
      BY <1>3, <2>4
    <3>2. FreshSecurity = [secured |-> FALSE, aborted |-> FALSE, counter |-> ones]
      BY DEF FreshSecurity
    <3> HIDE DEF ones, keyed
    <3>3. ASSUME NEW u, NEW v, NEW w, NEW y
          PROVE  [[secured |-> u, aborted |-> v, counter |-> w]
                    EXCEPT !.secured = y]
                   = [secured |-> y, aborted |-> v, counter |-> w]
      OBVIOUS
    <3>4. QED
      BY <3>1, <3>2, <3>3
  <2>5. keyed.secured = b.active /\ ~keyed.aborted
        /\ keyed.counter["reader"] = 1 /\ keyed.counter["device"] = 1
    BY <2>1
  <2> HIDE DEF keyed
  <2>6. QED
    BY <2>2, <2>3, <2>4, <2>5
<1> HIDE DEF keyed
<1>5. k = [up |-> b.up, full |-> b.full, inbox |-> b.inbox, down |-> b.down,
           active |-> b.active, sec |-> keyed, rx |-> b.rx,
           deferred |-> b.deferred]
  <2>1. CASE b.active
    <3>1. k = [b EXCEPT !.sec = [b.sec EXCEPT !.secured = TRUE]]
      BY <2>1 DEF SetSecured
    <3>2. k = [b EXCEPT !.sec = keyed]
      BY <1>3, <1>4, <2>1, <3>1
    <3>3. QED
      BY <1>3, <3>2
  <2>2. CASE ~b.active
    BY <1>3, <1>4, <2>2 DEF SetSecured
  <2>3. QED
    BY <1>3, <2>1, <2>2
<1> HIDE DEF k
<1>6. /\ k.up = b.up /\ k.inbox = b.inbox /\ k.down = b.down
      /\ k.active = b.active /\ k.rx = b.rx /\ k.deferred = b.deferred
      /\ k.sec = keyed
  BY <1>5
<1>7. k \in TransportState(DeviceMessage)
  BY <1>3, <1>4, <1>5 DEF TransportState
<1>8. /\ p \in TransportState(DeviceMessage)
      /\ p.rx = k.rx /\ p.deferred = k.deferred /\ p.active = k.active
      /\ p.inbox \in {k.inbox, <<>>}
      /\ p.sec \in {k.sec, t}
      /\ k.down => p.down
      /\ p.up =>
           /\ k.up /\ p.inbox = k.inbox /\ p.sec = t
           /\ ~p.down /\ "ApCompleted" \notin Oversize => ok
  BY <1>7, AfterSendFacts
<1> HIDE DEF p, ok
<1>9. /\ t.secured = k.sec.secured
      /\ t.counter["device"] = k.sec.counter["device"]
      /\ Exempt(k.sec, ap) => t = k.sec
      /\ ~Exempt(k.sec, ap) => t.counter["reader"] = k.sec.counter["reader"] + 1
  <2>1. k.sec \in SecurityState /\ "reader" \in Role /\ Peer("reader") = "device"
    BY <1>4, <1>6 DEF Role, Peer
  <2>2. QED
    BY <1>1, <2>1, SealFacts
<1>10. /\ t.secured = b.active /\ t.counter["device"] = 1
       /\ ~b.active => t = FreshSecurity
       /\ b.active => t.counter["reader"] = 2
  <2>1. Exempt(k.sec, ap) = ~b.active
    BY <1>3, <1>4, <1>6 DEF Exempt
  <2> HIDE DEF t, ap
  <2>2. t.secured = b.active /\ t.counter["device"] = 1
    BY <1>4, <1>6, <1>9
  <2>3. CASE b.active
    <3>1. t.counter["reader"] = k.sec.counter["reader"] + 1
      BY <1>9, <2>1, <2>3
    <3>2. QED
      BY <1>4, <1>6, <2>2, <2>3, <3>1
  <2>4. CASE ~b.active
    BY <1>4, <1>6, <1>9, <2>1, <2>2, <2>4
  <2>5. QED
    BY <1>3, <2>3, <2>4
<1>11. c = IF b.active THEN 1 ELSE Clear
  BY <1>3, <1>4, <1>6 DEF SealedUnder, Exempt
<1> HIDE DEF t, c
<1>12. /\ h \in DeviceState /\ h.sent = d.sent
       /\ h.asked = d.asked /\ h.pending = d.pending
       /\ h.sec.secured = (d.sec.secured \/ c # Clear)
       /\ h.sec.counter["device"] = d.sec.counter["device"]
       /\ d.sec.aborted => h.sec.aborted
       /\ ~h.sec.secured => h.sec = d.sec
       /\ h.sec.secured /\ c = d.sec.counter["reader"] =>
            h.sec.counter["reader"] = c + 1
  BY <1>3, HeardCompleted
<1> HIDE DEF h
<1>13. /\ e \in DeviceState /\ e.sent = d.sent /\ e.asked = d.asked
       /\ e.pending = d.pending
       /\ ~e.sec.secured => ~d.sec.secured /\ e.sec = d.sec
       /\ d.sec.aborted => e.sec.aborted
       /\ ok => e = h
  <2>1. d.sec.secured \in BOOLEAN
    BY <1>3 DEF DeviceState, SecurityState
  <2>2. CASE ok
    BY <1>12, <2>1, <2>2
  <2>3. CASE ~ok
    BY <1>3, <2>3
  <2>4. QED
    BY <2>2, <2>3
<1> HIDE DEF e
<1>14. LinkOk(p, e)
  <2>1. \A a \in 1 .. Len(p.inbox) : p.inbox[a] = b.inbox[a] /\ a \in 1 .. Len(b.inbox)
    <3>1. CASE p.inbox = b.inbox
      BY <3>1
    <3>2. CASE p.inbox = <<>>
      BY <3>2
    <3>3. QED
      BY <1>6, <1>8, <3>1, <3>2
  <2>2. p.sec.secured = b.active /\ (~b.active => p.sec = FreshSecurity)
    BY <1>4, <1>6, <1>8, <1>10
  <2>3. p.active = b.active
    BY <1>6, <1>8
  <2>4. QED
    BY <1>8, <1>13, <2>1, <2>2, <2>3 DEF LinkOk
<1>15. InOrder(p, e, last)
  <2>1. SameQueues(p, b)
    BY <1>6, <1>8 DEF SameQueues
  <2>2. QED
    BY <1>3, <1>13, <2>1, QueuesKept
<1>16. ASSUME Together(b, d), "ApCompleted" \notin Oversize PROVE Together(p, e)
  <2> SUFFICES ASSUME p.up, ~p.down, ~p.sec.aborted, ~e.sec.aborted
               PROVE  /\ p.sec.secured = e.sec.secured
                      /\ p.sec.counter["reader"] = e.sec.counter["reader"]
                      /\ p.sec.secured => Continues(p, e.sec.counter["device"])
    BY DEF Together
  <2>1. b.up /\ ~b.down /\ p.inbox = b.inbox /\ p.sec = t /\ e = h /\ ~d.sec.aborted
    BY <1>6, <1>8, <1>13, <1>16
  <2>2. ~b.sec.secured /\ ~b.sec.aborted /\ FreshSecurity.counter["reader"] = 1
        /\ FreshSecurity.counter["device"] = 1 /\ ~FreshSecurity.secured
    BY <1>3 DEF FreshSecurity, Role
  <2>3. ~d.sec.secured
    BY <1>16, <2>1, <2>2 DEF Together
  <2>4. d.sec = FreshSecurity
        /\ \A a \in 1 .. Len(b.inbox) : \A i \in DOMAIN b.inbox[a] :
             b.inbox[a][i].c = Clear
    BY <2>3 DEF LinkOk
  <2>5. CASE ~b.active
    BY <1>10, <1>11, <1>12, <2>1, <2>2, <2>3, <2>4, <2>5
  <2>6. CASE b.active
    <3>1. /\ p.sec.secured /\ p.sec.counter["reader"] = 2
          /\ p.sec.counter["device"] = 1
      BY <1>10, <2>1, <2>6
    <3>2. c = 1 /\ c # Clear /\ d.sec.counter["reader"] = 1
          /\ d.sec.counter["device"] = 1
      BY <1>11, <2>2, <2>4, <2>6 DEF Clear
    <3>3. /\ e.sec.secured /\ e.sec.counter["reader"] = 2
          /\ e.sec.counter["device"] = 1
      <4>1. h.sec.secured
        BY <1>12, <3>2
      <4>2. h.sec.counter["reader"] = c + 1 /\ h.sec.counter["device"] = 1
        BY <1>12, <3>2, <4>1
      <4>3. QED
        BY <2>1, <3>2, <4>1, <4>2
    <3>4. Continues(p, 1)
      BY <2>1, <2>4, <3>1 DEF Continues, Clear
    <3>5. QED
      BY <3>1, <3>3, <3>4
  <2>7. QED
    BY <1>3, <2>5, <2>6
<1>17. p.sec.secured = b.active /\ p.active = b.active
  BY <1>4, <1>6, <1>8, <1>10
<1>18. QED
  BY <1>2, <1>14, <1>15, <1>16, <1>17 DEF k, empty

-----------------------------------------------------------------------------
\* The inbox with one message more, in an SDU of its own or packed in the last.
Delivery(b, m) ==
  {Append(b.inbox, <<m>>)} \union
  (IF b.inbox = <<>> THEN {}
   ELSE {Append(Front(b.inbox), Append(Last(b.inbox), m))})

\* Place (A, I) is the new one, behind all the others.
Newest(p, b, m, A, I) ==
  /\ A \in 1 .. Len(p.inbox) /\ I \in DOMAIN p.inbox[A] /\ p.inbox[A][I] = m
  /\ I \in Nat
  /\ \A a \in 1 .. Len(p.inbox) : \A i \in DOMAIN p.inbox[a] :
       \/ a = A /\ i = I
       \/ /\ a < A \/ (a = A /\ i < I)
          /\ a \in 1 .. Len(b.inbox) /\ i \in DOMAIN b.inbox[a]
          /\ p.inbox[a][i] = b.inbox[a][i]
  /\ \A a \in 1 .. Len(b.inbox) : \A i \in DOMAIN b.inbox[a] :
       /\ a \in 1 .. Len(p.inbox) /\ i \in DOMAIN p.inbox[a]
       /\ p.inbox[a][i] = b.inbox[a][i]
       /\ a < A \/ (a = A /\ i < I)

LEMMA DeliveryPlaces ==
  ASSUME NEW b \in TransportState(DeviceMessage), NEW m \in DeviceMessage,
         NEW q \in Delivery(b, m)
  PROVE  LET p == [b EXCEPT !.inbox = q]
         IN  /\ p = [up |-> b.up, full |-> b.full, inbox |-> q, down |-> b.down,
                     active |-> b.active, sec |-> b.sec, rx |-> b.rx,
                     deferred |-> b.deferred]
             /\ p \in TransportState(DeviceMessage)
             /\ \E A, I : Newest(p, b, m, A, I)
<1> DEFINE p == [b EXCEPT !.inbox = q]
           M == DeviceMessage
           old == b.inbox
<1>1. old \in Seq(Sdu(M)) /\ Len(old) \in Nat
  BY DEF TransportState
<1>2. p = [up |-> b.up, full |-> b.full, inbox |-> q,
           down |-> b.down, active |-> b.active,
           sec |-> b.sec, rx |-> b.rx, deferred |-> b.deferred]
  BY WithQueue
<1> HIDE DEF p
<1>3. p.inbox = q
  BY <1>2
<1>4. ASSUME q \in Seq(Sdu(M)) PROVE p \in TransportState(M)
  BY <1>2, <1>4 DEF TransportState
<1>5. CASE q = Append(old, <<m>>)
  <2> DEFINE A == Len(old) + 1
  <2>1. <<m>> \in Sdu(M)
    BY DEF Sdu
  <2>2. q \in Seq(Sdu(M)) /\ Len(q) = A /\ q[A] = <<m>>
        /\ \A a \in 1 .. Len(old) : q[a] = old[a]
    BY <1>1, <1>5, <2>1
  <2>3. Newest(p, b, m, A, 1)
    <3>1. \A a \in 1 .. Len(q) : a = A \/ (a \in 1 .. Len(old) /\ a < A)
      BY <1>1, <2>2
    <3>2. \A a \in 1 .. Len(old) : a \in 1 .. Len(q) /\ a < A
      BY <1>1, <2>2
    <3>3. A \in 1 .. Len(q) /\ DOMAIN q[A] = {1} /\ q[A][1] = m
      BY <1>1, <2>2
    <3> HIDE DEF A
    <3>4. QED
      BY <1>3, <2>2, <3>1, <3>2, <3>3 DEF Newest
  <2> HIDE DEF A, M
  <2>4. QED
    BY <1>2, <1>4, <2>2, <2>3 DEF p, M
<1>6. CASE old # <<>> /\ q = Append(Front(old), Append(Last(old), m))
  <2> DEFINE A == Len(old)
             I == Len(old[A]) + 1
  <2>1. A \in Nat /\ A >= 1 /\ old[A] \in Seq(M)
    BY <1>1, <1>6 DEF Sdu
  <2>2. Append(old[A], m) \in Sdu(M) /\ Len(old[A]) \in Nat
    BY <2>1 DEF Sdu
  <2>3. /\ Front(old) \in Seq(Sdu(M)) /\ Len(Front(old)) = A - 1
        /\ \A a \in 1 .. A - 1 : Front(old)[a] = old[a]
    BY <1>1, <2>1 DEF Front
  <2>4. /\ q \in Seq(Sdu(M)) /\ Len(q) = A /\ q[A] = Append(old[A], m)
        /\ \A a \in 1 .. A - 1 : q[a] = old[a]
    <3>1. Last(old) = old[A]
      BY DEF Last
    <3>2. q = Append(Front(old), Append(old[A], m))
      BY <1>6, <3>1
    <3> DEFINE f == Front(old)
               z == Append(old[A], m)
    <3> HIDE DEF f, z, A
    <3>3. f \in Seq(Sdu(M)) /\ z \in Sdu(M) /\ q = Append(f, z) /\ Len(f) = A - 1
          /\ A \in Nat /\ A >= 1
          /\ \A a \in 1 .. A - 1 : f[a] = old[a]
      BY <2>1, <2>2, <2>3, <3>2 DEF f, z
    <3>4. /\ q \in Seq(Sdu(M)) /\ Len(q) = A /\ q[A] = z
          /\ \A a \in 1 .. A - 1 : q[a] = old[a]
      BY <3>3
    <3>5. QED
      BY <3>4 DEF z
  <2>5. /\ DOMAIN q[A] = 1 .. I /\ q[A][I] = m /\ I \in Nat /\ I >= 1
        /\ DOMAIN old[A] = 1 .. I - 1
        /\ \A i \in 1 .. I - 1 : q[A][i] = old[A][i]
    BY <2>1, <2>4
  <2>6. Newest(p, b, m, A, I)
    <3>1. \A a \in 1 .. Len(q) : a = A \/ (a \in 1 .. A - 1 /\ a < A)
      BY <2>1, <2>4
    <3>2. \A a \in 1 .. Len(old) : a = A \/ (a \in 1 .. A - 1 /\ a < A)
      BY <2>1
    <3>3. \A a \in 1 .. A - 1 : a \in 1 .. Len(q) /\ a \in 1 .. Len(old)
      BY <2>1, <2>4
    <3>4. A \in 1 .. Len(q) /\ A \in 1 .. Len(old) /\ I \in 1 .. I
      BY <2>1, <2>4, <2>5
    <3>5. \A i \in 1 .. I : i = I \/ (i \in 1 .. I - 1 /\ i < I)
      BY <2>5
    <3>6. \A i \in 1 .. I - 1 : i \in 1 .. I /\ i < I
      BY <2>5
    <3> HIDE DEF A, I
    <3>7. ASSUME NEW a \in 1 .. Len(q), NEW i \in DOMAIN q[a]
          PROVE  (a = A /\ i = I) \/
                 (/\ a < A \/ (a = A /\ i < I)
                  /\ a \in 1 .. Len(old) /\ i \in DOMAIN old[a]
                  /\ q[a][i] = old[a][i])
      BY <2>4, <2>5, <3>1, <3>3, <3>4, <3>5
    <3>8. ASSUME NEW a \in 1 .. Len(old), NEW i \in DOMAIN old[a]
          PROVE  /\ a \in 1 .. Len(q) /\ i \in DOMAIN q[a]
                 /\ q[a][i] = old[a][i]
                 /\ a < A \/ (a = A /\ i < I)
      BY <2>4, <2>5, <3>2, <3>3, <3>4, <3>6
    <3>9. A \in 1 .. Len(q) /\ I \in DOMAIN q[A] /\ q[A][I] = m /\ I \in Nat
      BY <2>5, <3>4
    <3>10. QED
      BY <1>3, <3>7, <3>8, <3>9 DEF Newest
  <2> HIDE DEF A, I, M
  <2>7. QED
    BY <1>2, <1>4, <2>4, <2>6 DEF p, M
<1>7. QED
  BY <1>2, <1>5, <1>6 DEF p, Delivery

\* The device e, that d becomes by saying m.
Said(d, e, m) ==
  /\ e \in DeviceState /\ e.asked = d.asked
  /\ e.sec.secured = d.sec.secured
  /\ e.sec.counter["reader"] = d.sec.counter["reader"]
  /\ d.sec.aborted => e.sec.aborted
  /\ ~d.sec.secured => e.sec = d.sec /\ m.c = Clear
  /\ d.sec.secured /\ ~IsAp(m.kind) => e.sec.counter["device"] = m.c + 1
  /\ IsAp(m.kind) => e.sec.counter["device"] = d.sec.counter["device"]
  /\ m.kind # "AP_RS" =>
       m.n = d.sent + 1 /\ e.sent = d.sent + 1 /\ e.pending = d.pending
  /\ m.kind = "AP_RS" =>
       /\ e.sent = d.sent /\ d.pending # <<>>
       /\ Len(d.pending) <= 1 => e.pending = <<>> /\ m.re = d.pending[1]

LEMMA DeliveredLink ==
  ASSUME NEW b, NEW d, NEW last \in Nat, LinkOk(b, d), InOrder(b, d, last),
         NEW m \in DeviceMessage, NEW q \in Delivery(b, m), NEW e, Said(d, e, m)
  PROVE  LET p == [b EXCEPT !.inbox = q]
         IN  /\ LinkOk(p, e) /\ InOrder(p, e, last)
             /\ p.active = b.active /\ p.sec = b.sec /\ p.deferred = b.deferred
             /\ p.up = b.up
             /\ OneAnswer(b, d) => OneAnswer(p, e)
             /\ Together(b, d) => Together(p, e)
<1> DEFINE p == [b EXCEPT !.inbox = q]
<1>1. b \in TransportState(DeviceMessage) /\ d \in DeviceState
  BY DEF LinkOk
<1>2. /\ p = [up |-> b.up, full |-> b.full, inbox |-> q,
              down |-> b.down, active |-> b.active,
              sec |-> b.sec, rx |-> b.rx, deferred |-> b.deferred]
      /\ p \in TransportState(DeviceMessage)
      /\ \E A, I : Newest(p, b, m, A, I)
  BY <1>1, DeliveryPlaces
<1> HIDE DEF p
<1>3. /\ p.active = b.active /\ p.sec = b.sec /\ p.deferred = b.deferred
      /\ p.up = b.up /\ p.rx = b.rx /\ p.down = b.down
  BY <1>2
<1>4. PICK A, I : Newest(p, b, m, A, I)
  BY <1>2
<1>5. Len(p.inbox) \in Nat /\ Len(b.inbox) \in Nat /\ A \in 1 .. Len(p.inbox) /\ I \in Nat
  BY <1>1, <1>2, <1>4, SegmentFacts DEF Newest
<1>6. ASSUME NEW a \in Segments(p), NEW i \in DOMAIN Segment(p, a)
      PROVE  \/ a = A /\ i = I /\ Segment(p, a)[i] = m
             \/ /\ a \in Segments(b) /\ i \in DOMAIN Segment(b, a)
                /\ Segment(p, a)[i] = Segment(b, a)[i]
                /\ a < A \/ (a = A /\ i < I)
  <2>1. CASE a = 0
    BY <1>3, <1>5, <1>6, <2>1 DEF Segments, Segment
  <2>2. CASE a # 0
    <3>1. a \in 1 .. Len(p.inbox) /\ Segment(p, a) = p.inbox[a]
      BY <1>5, <2>2 DEF Segments, Segment
    <3>2. \/ a = A /\ i = I /\ p.inbox[a][i] = m
          \/ /\ a < A \/ (a = A /\ i < I)
             /\ a \in 1 .. Len(b.inbox) /\ i \in DOMAIN b.inbox[a]
             /\ p.inbox[a][i] = b.inbox[a][i]
      BY <1>4, <1>6, <3>1 DEF Newest
    <3>3. a \in 1 .. Len(b.inbox) => a \in Segments(b) /\ Segment(b, a) = b.inbox[a]
      BY <1>5, <2>2 DEF Segments, Segment
    <3>4. QED
      BY <3>1, <3>2, <3>3
  <2>3. QED
    BY <2>1, <2>2
<1>7. ASSUME NEW a \in Segments(p), NEW i \in DOMAIN Segment(p, a),
             NEW c \in Segments(p), NEW k \in DOMAIN Segment(p, c),
             a < c \/ (a = c /\ i < k)
      PROVE  /\ a \in Segments(b) /\ i \in DOMAIN Segment(b, a)
             /\ Segment(p, a)[i] = Segment(b, a)[i]
             /\ \/ Segment(p, c)[k] = m
                \/ /\ c \in Segments(b) /\ k \in DOMAIN Segment(b, c)
                   /\ Segment(p, c)[k] = Segment(b, c)[k]
  <2>1. a \in Nat /\ c \in Nat /\ i \in Nat /\ k \in Nat
    <3>1. \A z \in Segments(p) : z \in Nat /\ Segment(p, z) \in Seq(DeviceMessage)
      BY <1>2, <1>5, SegmentFacts DEF Segments
    <3>2. QED
      BY <3>1
  <2>2. ~(a = A /\ i = I)
    <3>1. c = A \/ c < A
      BY <1>6
    <3>2. c = A => k = I \/ k < I
      BY <1>5, <1>6, <2>1
    <3>3. QED
      BY <1>5, <1>7, <2>1, <3>1, <3>2
  <2>3. QED
    BY <1>6, <2>2
<1>8. d.sent \in Nat /\ e.sent \in Nat /\ d.sent <= e.sent
  BY <1>1, FlowAssumption DEF Said, DeviceState
<1>9. InOrder(p, e, last)
  <2>1. Sequenced(p, FALSE)
    <3> SUFFICES ASSUME NEW a \in Segments(p), NEW c \in Segments(p),
                        NEW i \in DOMAIN Segment(p, a), NEW k \in DOMAIN Segment(p, c),
                        a < c \/ (a = c /\ i < k)
                 PROVE  Follows(FALSE, Segment(p, a)[i], Segment(p, c)[k])
      BY DEF Sequenced
    <3>1. /\ a \in Segments(b) /\ i \in DOMAIN Segment(b, a)
          /\ Segment(p, a)[i] = Segment(b, a)[i]
          /\ \/ Segment(p, c)[k] = m
             \/ /\ c \in Segments(b) /\ k \in DOMAIN Segment(b, c)
                /\ Segment(p, c)[k] = Segment(b, c)[k]
      BY <1>7
    <3>2. CASE /\ c \in Segments(b) /\ k \in DOMAIN Segment(b, c)
               /\ Segment(p, c)[k] = Segment(b, c)[k]
      BY <3>1, <3>2 DEF InOrder, Sequenced
    <3>3. CASE Segment(p, c)[k] = m
      <4>1. Segment(b, a)[i] \in DeviceMessage
        BY <1>1, <3>1, SegmentFacts
      <4>2. Segment(b, a)[i].kind # "AP_RS" =>
              Segment(b, a)[i].n <= d.sent /\ Segment(b, a)[i].n \in Nat
        BY <3>1, <4>1, Messages DEF InOrder
      <4>3. QED
        BY <1>8, <3>1, <3>3, <4>2 DEF Follows, Said
    <3>4. QED
      BY <3>1, <3>2, <3>3
  <2>2. ASSUME NEW j \in DOMAIN b.deferred
        PROVE  /\ b.deferred[j].kind # "AP_RS"
               /\ last < b.deferred[j].n /\ b.deferred[j].n <= d.sent
               /\ b.deferred[j].n \in Nat
               /\ \A k \in DOMAIN b.deferred :
                    j < k => b.deferred[j].n < b.deferred[k].n
    <3>1. b.deferred \in Seq(DeviceMessage)
      BY <1>1 DEF TransportState
    <3>2. b.deferred[j] \in DeviceMessage
      BY <3>1
    <3>3. QED
      BY <3>2, Messages DEF InOrder, Unparked
  <2>3. ASSUME NEW a \in Segments(p), NEW i \in DOMAIN Segment(p, a),
               Segment(p, a)[i].kind # "AP_RS"
        PROVE  /\ last < Segment(p, a)[i].n /\ Segment(p, a)[i].n <= e.sent
               /\ \A j \in DOMAIN b.deferred : b.deferred[j].n < Segment(p, a)[i].n
    <3>1. CASE Segment(p, a)[i] = m
      <4>1. m.n = d.sent + 1 /\ e.sent = d.sent + 1 /\ last <= d.sent
        BY <2>3, <3>1 DEF Said, InOrder
      <4>2. QED
        BY <1>8, <2>2, <3>1, <4>1
    <3>2. CASE /\ a \in Segments(b) /\ i \in DOMAIN Segment(b, a)
               /\ Segment(p, a)[i] = Segment(b, a)[i]
      <4>1. Segment(b, a)[i] \in DeviceMessage
        BY <1>1, <3>2, SegmentFacts
      <4>2. /\ last < Segment(b, a)[i].n /\ Segment(b, a)[i].n <= d.sent
            /\ \A j \in DOMAIN b.deferred : b.deferred[j].n < Segment(b, a)[i].n
        BY <2>3, <3>2 DEF InOrder
      <4>3. Segment(b, a)[i].n \in Nat
        BY <2>3, <3>2, <4>1, Messages
      <4>4. QED
        BY <1>8, <3>2, <4>2, <4>3
    <3>3. QED
      BY <1>6, <3>1, <3>2
  <2>4. last <= e.sent
    BY <1>8 DEF InOrder
  <2>5. \A j \in DOMAIN b.deferred : b.deferred[j].n <= e.sent
    BY <1>8, <2>2
  <2>6. QED
    BY <1>3, <2>1, <2>2, <2>3, <2>4, <2>5 DEF InOrder
<1>10. LinkOk(p, e)
  <2>1. ASSUME ~e.sec.secured
        PROVE  /\ e.sec = FreshSecurity
               /\ \A a \in 1 .. Len(p.inbox) : \A i \in DOMAIN p.inbox[a] :
                    p.inbox[a][i].c = Clear
    <3>1. ~d.sec.secured /\ e.sec = d.sec /\ m.c = Clear
      BY <2>1 DEF Said
    <3>2. /\ d.sec = FreshSecurity
          /\ \A a \in 1 .. Len(b.inbox) : \A i \in DOMAIN b.inbox[a] :
               b.inbox[a][i].c = Clear
      BY <3>1 DEF LinkOk
    <3>3. QED
      BY <1>4, <3>1, <3>2 DEF Newest
  <2>2. e \in DeviceState
    BY DEF Said
  <2>3. QED
    BY <1>2, <1>3, <2>1, <2>2 DEF LinkOk
<1>11. ASSUME OneAnswer(b, d) PROVE OneAnswer(p, e)
  <2>1. Sequenced(b, TRUE) /\ Len(d.pending) <= 1
    BY <1>11 DEF OneAnswer
  <2>2. m.kind = "AP_RS" =>
          /\ \A a \in Segments(b) : \A i \in DOMAIN Segment(b, a) :
               Segment(b, a)[i].kind # "AP_RS"
          /\ e.pending = <<>> /\ m.re = d.asked /\ d.asked # 0
    <3> SUFFICES ASSUME m.kind = "AP_RS"
                 PROVE  /\ \A a \in Segments(b) : \A i \in DOMAIN Segment(b, a) :
                             Segment(b, a)[i].kind # "AP_RS"
                        /\ e.pending = <<>> /\ m.re = d.asked /\ d.asked # 0
      OBVIOUS
    <3>1. d.pending # <<>> /\ e.pending = <<>> /\ m.re = d.pending[1]
      BY <2>1 DEF Said
    <3>2. d.pending \in Seq(Nat)
      BY <1>1 DEF DeviceState
    <3>3. 1 \in DOMAIN d.pending
      BY <3>1, <3>2
    <3>4. QED
      BY <1>11, <3>1, <3>3 DEF OneAnswer
  <2>3. Sequenced(p, TRUE)
    <3> SUFFICES ASSUME NEW a \in Segments(p), NEW c \in Segments(p),
                        NEW i \in DOMAIN Segment(p, a), NEW k \in DOMAIN Segment(p, c),
                        a < c \/ (a = c /\ i < k)
                 PROVE  Follows(TRUE, Segment(p, a)[i], Segment(p, c)[k])
      BY DEF Sequenced
    <3>1. Follows(FALSE, Segment(p, a)[i], Segment(p, c)[k])
      BY <1>9 DEF InOrder, Sequenced
    <3>2. /\ a \in Segments(b) /\ i \in DOMAIN Segment(b, a)
          /\ Segment(p, a)[i] = Segment(b, a)[i]
          /\ \/ Segment(p, c)[k] = m
             \/ /\ c \in Segments(b) /\ k \in DOMAIN Segment(b, c)
                /\ Segment(p, c)[k] = Segment(b, c)[k]
      BY <1>7
    <3>3. CASE /\ c \in Segments(b) /\ k \in DOMAIN Segment(b, c)
               /\ Segment(p, c)[k] = Segment(b, c)[k]
      BY <2>1, <3>2, <3>3 DEF Sequenced
    <3>4. CASE Segment(p, c)[k] = m
      BY <2>2, <3>1, <3>2, <3>4 DEF Follows
    <3>5. QED
      BY <3>2, <3>3, <3>4
  <2>4. ASSUME NEW a \in Segments(p), NEW i \in DOMAIN Segment(p, a),
               Segment(p, a)[i].kind = "AP_RS"
        PROVE  Segment(p, a)[i].re = e.asked /\ e.asked # 0 /\ e.pending = <<>>
    <3>1. CASE Segment(p, a)[i] = m
      BY <2>2, <2>4, <3>1 DEF Said
    <3>2. CASE /\ a \in Segments(b) /\ i \in DOMAIN Segment(b, a)
               /\ Segment(p, a)[i] = Segment(b, a)[i]
      <4>1. m.kind # "AP_RS"
        BY <2>2, <2>4, <3>2
      <4>2. Segment(b, a)[i].re = d.asked /\ d.asked # 0 /\ d.pending = <<>>
        BY <1>11, <2>4, <3>2 DEF OneAnswer
      <4>3. QED
        BY <3>2, <4>1, <4>2 DEF Said
    <3>3. QED
      BY <1>6, <3>1, <3>2
  <2>5. Len(e.pending) <= 1 /\ \A i \in DOMAIN e.pending :
          e.pending[i] = e.asked /\ e.asked # 0
    <3>1. CASE m.kind = "AP_RS"
      BY <2>2, <3>1
    <3>2. CASE m.kind # "AP_RS"
      BY <1>11, <3>2 DEF OneAnswer, Said
    <3>3. QED
      BY <3>1, <3>2
  <2>6. QED
    BY <2>3, <2>4, <2>5 DEF OneAnswer
<1>12. ASSUME Together(b, d) PROVE Together(p, e)
  <2> SUFFICES ASSUME p.up, ~p.down, ~p.sec.aborted, ~e.sec.aborted
               PROVE  /\ p.sec.secured = e.sec.secured
                      /\ p.sec.counter["reader"] = e.sec.counter["reader"]
                      /\ p.sec.secured => Continues(p, e.sec.counter["device"])
    BY DEF Together
  <2>1. /\ b.sec.secured = d.sec.secured
        /\ b.sec.counter["reader"] = d.sec.counter["reader"]
        /\ b.sec.secured => Continues(b, d.sec.counter["device"])
    BY <1>3, <1>12 DEF Together, Said
  <2>2. ASSUME b.sec.secured PROVE Continues(p, e.sec.counter["device"])
    <3>1. d.sec.secured /\ Continues(b, d.sec.counter["device"])
      BY <2>1, <2>2
    <3>2. CASE IsAp(m.kind)
      <4>1. e.sec.counter["device"] = d.sec.counter["device"]
        BY <3>2 DEF Said
      <4>2. ASSUME NEW a \in 1 .. Len(p.inbox), NEW i \in DOMAIN p.inbox[a],
                   LastOfInbox(p, a, i)
            PROVE  d.sec.counter["device"] = p.inbox[a][i].c + 1
        <5>1. ~(a = A /\ i = I)
          BY <1>4, <3>2, <4>2 DEF Newest, LastOfInbox
        <5>2. /\ a \in 1 .. Len(b.inbox) /\ i \in DOMAIN b.inbox[a]
              /\ p.inbox[a][i] = b.inbox[a][i]
          BY <1>4, <4>2, <5>1 DEF Newest
        <5>3. LastOfInbox(b, a, i)
          BY <1>4, <4>2, <5>2 DEF Newest, LastOfInbox
        <5>4. QED
          BY <3>1, <5>2, <5>3 DEF Continues
      <4>3. ASSUME \A a \in 1 .. Len(p.inbox) : \A i \in DOMAIN p.inbox[a] :
                     IsAp(p.inbox[a][i].kind)
            PROVE  d.sec.counter["device"] = p.sec.counter["device"]
        <5>1. \A a \in 1 .. Len(b.inbox) : \A i \in DOMAIN b.inbox[a] :
                IsAp(b.inbox[a][i].kind)
          BY <1>4, <4>3 DEF Newest
        <5>2. QED
          BY <1>3, <3>1, <5>1 DEF Continues
      <4>4. QED
        BY <4>1, <4>2, <4>3 DEF Continues
    <3>3. CASE ~IsAp(m.kind)
      <4>1. e.sec.counter["device"] = m.c + 1
        BY <3>1, <3>3 DEF Said
      <4>2. ASSUME NEW a \in 1 .. Len(p.inbox), NEW i \in DOMAIN p.inbox[a],
                   LastOfInbox(p, a, i)
            PROVE  p.inbox[a][i] = m
        <5>1. A \in 1 .. Len(p.inbox) /\ I \in DOMAIN p.inbox[A] /\ p.inbox[A][I] = m
          BY <1>4 DEF Newest
        <5>2. ~(a < A \/ (a = A /\ i < I))
          BY <3>3, <4>2, <5>1 DEF LastOfInbox
        <5>3. a = A /\ i = I
          BY <1>4, <4>2, <5>2 DEF Newest
        <5>4. QED
          BY <5>1, <5>3
      <4>3. ~(\A a \in 1 .. Len(p.inbox) : \A i \in DOMAIN p.inbox[a] :
                IsAp(p.inbox[a][i].kind))
        BY <1>4, <3>3 DEF Newest
      <4>4. QED
        BY <4>1, <4>2, <4>3 DEF Continues
    <3>4. QED
      BY <3>2, <3>3
  <2>3. QED
    BY <1>3, <2>1, <2>2 DEF Said
<1>13. QED
  BY <1>3, <1>9, <1>10, <1>11, <1>12 DEF p

\* Whatever the device says is delivered as Said has it.
LEMMA DeviceSays ==
  ASSUME LinkOk(ble, dev), DeviceAnswers \/ \E kind \in DeviceKinds : DeviceNotifies(kind)
  PROVE  /\ UNCHANGED <<ladder, pc, engine, log>> /\ ble.up
         /\ \E m \in DeviceMessage :
              /\ Said(dev, dev', m)
              /\ \E q \in Delivery(ble, m) : ble' = [ble EXCEPT !.inbox = q]
<1>1. /\ dev \in DeviceState /\ dev.sec \in SecurityState
      /\ dev.asked \in Nat /\ dev.pending \in Seq(Nat)
      /\ dev.sent \in 0 .. MaxDeviceMsgs
      /\ dev = [asked |-> dev.asked, pending |-> dev.pending,
                sent |-> dev.sent, sec |-> dev.sec]
      /\ \A r \in Role : dev.sec.counter[r] \in Nat
      /\ ~dev.sec.secured => dev.sec = FreshSecurity
  BY DEF LinkOk, DeviceState, SecurityState
<1>2. ASSUME NEW m, Deliver(m)
      PROVE  ble.up /\ \E q \in Delivery(ble, m) : ble' = [ble EXCEPT !.inbox = q]
  BY <1>2 DEF Deliver, Delivery
<1>3. CASE DeviceAnswers
  <2>1. PICK i \in DOMAIN dev.pending, res \in DeviceResults :
          /\ Deliver([kind |-> "AP_RS", c |-> Clear, re |-> dev.pending[i], res |-> res])
          /\ dev' = [dev EXCEPT !.pending = SubSeq(@, i + 1, Len(@))]
          /\ UNCHANGED <<ladder, pc, engine, log>>
    BY <1>3 DEF DeviceAnswers
  <2> DEFINE m == [kind |-> "AP_RS", c |-> Clear, re |-> dev.pending[i], res |-> res]
             q == SubSeq(dev.pending, i + 1, Len(dev.pending))
  <2>2. /\ i \in 1 .. Len(dev.pending) /\ Len(dev.pending) \in Nat
        /\ dev.pending[i] \in Nat /\ dev.pending # <<>>
    BY <1>1
  <2>3. q \in Seq(Nat) /\ (Len(dev.pending) <= 1 => q = <<>> /\ i = 1)
    BY <1>1, <2>2
  <2>4. m \in DeviceMessage /\ m.kind = "AP_RS" /\ m.re = dev.pending[i] /\ m.c = Clear
    BY <2>2 DEF DeviceMessage
  <2>5. Deliver(m)
    BY <2>1
  <2> HIDE DEF q, m
  <2>6. dev' = [asked |-> dev.asked, pending |-> q, sent |-> dev.sent, sec |-> dev.sec]
    BY <1>1, <2>1 DEF q
  <2>7. Said(dev, dev', m)
    BY <1>1, <2>2, <2>3, <2>4, <2>6 DEF Said, DeviceState, IsAp
  <2>8. QED
    BY <1>2, <2>1, <2>4, <2>5, <2>7
<1>4. ASSUME NEW kind \in DeviceKinds, DeviceNotifies(kind)
      PROVE  /\ UNCHANGED <<ladder, pc, engine, log>> /\ ble.up
             /\ \E m \in DeviceMessage :
                  /\ Said(dev, dev', m)
                  /\ \E q \in Delivery(ble, m) : ble' = [ble EXCEPT !.inbox = q]
  <2> DEFINE empty == FALSE
             ap == IsAp(kind)
             c == SealedUnder(dev.sec, "device", ap)
             m == [kind |-> kind, c |-> c, n |-> dev.sent + 1]
             t == AfterSeal(dev.sec, "device", ap, empty)
  <2>1. /\ dev.sent < MaxDeviceMsgs
        /\ Deliver(m)
        /\ dev' = [dev EXCEPT !.sent = @ + 1, !.sec = t]
        /\ UNCHANGED <<ladder, pc, engine, log>>
    BY <1>4 DEF DeviceNotifies
  <2>2. kind \in Notification /\ kind # "AP_RS" /\ dev.sent + 1 \in 1 .. MaxDeviceMsgs
        /\ dev.sent + 1 \in 0 .. MaxDeviceMsgs
    BY <1>1, <2>1, FlowAssumption DEF Notification
  <2>3. /\ c \in Nat
        /\ ~dev.sec.secured => c = Clear
        /\ dev.sec.secured /\ ~ap => c = dev.sec.counter["device"]
    BY <1>1 DEF SealedUnder, Exempt, Clear, Role
  <2>4. ~empty
    OBVIOUS
  <2> HIDE DEF empty
  <2>5. /\ t \in SecurityState
        /\ t.secured = dev.sec.secured
        /\ t.counter["reader"] = dev.sec.counter["reader"]
        /\ dev.sec.aborted => t.aborted
        /\ Exempt(dev.sec, ap) => t = dev.sec
        /\ ~Exempt(dev.sec, ap) => t.counter["device"] = dev.sec.counter["device"] + 1
    <3>1. "device" \in Role /\ Peer("device") = "reader"
      BY DEF Role, Peer
    <3>2. QED
      BY <1>1, <2>4, <3>1, SealFacts
  <2> HIDE DEF t, c
  <2>6. m \in DeviceMessage /\ m.kind = kind /\ m.n = dev.sent + 1 /\ m.c = c
    BY <2>2, <2>3 DEF DeviceMessage
  <2> HIDE DEF m
  <2>7. dev' = [asked |-> dev.asked, pending |-> dev.pending,
                sent |-> dev.sent + 1, sec |-> t]
    BY <1>1, <2>1
  <2>8. dev' \in DeviceState
    BY <1>1, <2>2, <2>5, <2>7 DEF DeviceState
  <2>9. Said(dev, dev', m)
    BY <1>1, <2>2, <2>3, <2>5, <2>6, <2>7, <2>8 DEF Said, Exempt
  <2>10. QED
    BY <1>2, <2>1, <2>6, <2>9
<1>5. QED
  BY <1>3, <1>4

\* The device's steps.
LEMMA DeviceStep ==
  ASSUME FlowInv, pc # "returned",
         DeviceAnswers \/ \E kind \in DeviceKinds : DeviceNotifies(kind)
  PROVE  FlowInv' /\ (Together(ble, dev) => Together(ble, dev)')
<1>1. LinkOk(ble, dev) /\ InOrder(ble, dev, log.last) /\ log.last \in Nat
  BY DEF FlowInv, FlowTypes, LogState
<1>2. UNCHANGED <<ladder, pc, engine, log>>
  BY <1>1, DeviceSays
<1>3. PICK m \in DeviceMessage :
        /\ Said(dev, dev', m)
        /\ \E q \in Delivery(ble, m) : ble' = [ble EXCEPT !.inbox = q]
  BY <1>1, DeviceSays
<1>4. PICK q \in Delivery(ble, m) : ble' = [ble EXCEPT !.inbox = q]
  BY <1>3
<1>5. /\ LinkOk(ble', dev') /\ InOrder(ble', dev', log.last)
      /\ ble'.active = ble.active /\ ble'.sec = ble.sec
      /\ ble'.deferred = ble.deferred /\ ble'.up = ble.up
      /\ OneAnswer(ble, dev) => OneAnswer(ble', dev')
      /\ Together(ble, dev) => Together(ble', dev')
  BY <1>1, <1>3, <1>4, DeliveredLink
<1>6. IInv' /\ LadderOverBle' /\ Phases'
  <2>1. IInv'
    BY <1>2, StepInv DEF FlowInv
  <2>2. QED
    BY <1>2, <2>1 DEF FlowInv, LadderOverBle, Phases, ladder, NoStepUp, Serving, StepUp, Request
<1>7. FlowTypes' /\ Keyed' /\ EngineKept' /\ Handled'
  BY <1>2, <1>5
     DEF FlowInv, LinkOk, FlowTypes, Keyed, EngineKept, Handled, ladder,
         NoStepUp, Serving, BeforeCompletion
<1>8. AtOneAnswer'
  BY <1>2, <1>3, <1>5 DEF FlowInv, AtOneAnswer, ladder, Said
<1>9. QED
  BY <1>2, <1>5, <1>6, <1>7, <1>8 DEF FlowInv

-----------------------------------------------------------------------------
\* The event log after a failure event, which is counted if it was sent.
Counted == [log EXCEPT !.events = @ + 1]

LEMMA EventCounted ==
  ASSUME FlowInv, NEW b
  PROVE  WithEvent(b, log) \in {log, Counted}
<1>1. log = [log EXCEPT !.events = log.events]
  BY DEF FlowInv, FlowTypes, LogState
<1>2. CASE SendOk(b, "GeneralError", FALSE)
  BY <1>2 DEF WithEvent, Counted
<1>3. CASE ~SendOk(b, "GeneralError", FALSE)
  BY <1>1, <1>3 DEF WithEvent
<1>4. QED
  BY <1>2, <1>3

\* What one answer of the ladder does to the flow, from the transport b that has
\* taken it out of its queues.
LEMMA AdvanceStep ==
  ASSUME FlowInv, pc \in {"wait", "refused"}, NEW r \in Response, NEW b,
         LinkOk(b, dev), InOrder(b, dev, log.last),
         b.active = ble.active, b.sec.secured = ble.sec.secured,
         r = "ok" /\ at \in {"AUTH0", "AUTH1"} => NoAnswer(b, dev),
         Advance(r, b)
  PROVE  /\ FlowInv'
         /\ Together(b, dev) /\ Oversize \subseteq {"AP_RQ"} => Together(ble', dev')
<1> DEFINE k == IF KeyedNow THEN Activate(b) ELSE b
           x == [ble |-> k, dev |-> dev]
           empty == FALSE
<1>1. /\ IInv' /\ LadderOverBle' /\ LadderMove(r) /\ at \in Request
      /\ ~ble.sec.secured
  BY LadderStep DEF FlowInv, Advance, Keyed, BeforeCompletion
<1>2. /\ LinkOk(k, dev) /\ InOrder(k, dev, log.last)
      /\ k.active = (KeyedNow \/ ble.active) /\ ~k.sec.secured
      /\ NoAnswer(b, dev) => NoAnswer(k, dev)
      /\ Together(b, dev) => Together(k, dev)
  <2>1. CASE ~KeyedNow
    <3>1. b.active \in BOOLEAN
      BY DEF LinkOk, TransportState
    <3>2. QED
      BY <1>1, <2>1, <3>1
  <2>2. CASE KeyedNow
    <3>1. ~b.active
      BY <2>2 DEF FlowInv, Keyed, KeyedNow
    <3>2. QED
      BY <1>1, <2>2, <3>1, KeyedLink
  <2>3. QED
    BY <2>1, <2>2
<1>3. /\ \/ at' \in Request /\ Ask(x) /\ UNCHANGED log
         \/ at' = "Done" /\ Completed(x)
         \/ at' = "Failed" /\ Failed(x)
      /\ engine' = IF HasEngine /\ at = "EXCHANGE_98" /\ at' # "Failed"
                   THEN [engine EXCEPT !.armed = TRUE] ELSE engine
  BY DEF Advance
<1> HIDE DEF k
<1>4. x.ble = k /\ x.dev = dev
  OBVIOUS
<1> DEFINE Result ==
      /\ LinkOk(ble', dev') /\ InOrder(ble', dev', log.last)
      /\ ble'.active = k.active
      /\ \/ /\ at' \in Request /\ pc' \in {"wait", "refused"} /\ log' = log
            /\ ~ble'.sec.secured
            /\ NoAnswer(k, dev) => OneAnswer(ble', dev')
         \/ /\ at' = "Done" /\ pc' = "serve" /\ log' = log
            /\ ble'.sec.secured = ble'.active
         \/ /\ at' = "Failed" /\ pc' = "returned"
            /\ log' \in {log, Counted}
      /\ Together(k, dev) /\ Oversize \subseteq {"AP_RQ"} => Together(ble', dev')
<1> HIDE DEF Result
<1>5. ASSUME at' \in Request, Ask(x), UNCHANGED log PROVE Result
  <2> DEFINE y == Sent(x, "AP_RQ", empty)
  <2>1. /\ ble' = y.ble /\ dev' = y.dev
        /\ pc' \in {"wait", "refused"}
    BY <1>5 DEF Ask, Put
  <2>2. "AP_RQ" \in Outgoing
    BY DEF Outgoing
  <2> HIDE DEF empty
  <2>3. /\ LinkOk(y.ble, y.dev) /\ InOrder(y.ble, y.dev, log.last)
        /\ y.ble.active = k.active
        /\ y.ble.sec.secured = k.sec.secured
        /\ NoAnswer(k, dev) => OneAnswer(y.ble, y.dev)
        /\ Together(k, dev) => Together(y.ble, y.dev)
    BY <1>2, <2>2, SentLink
  <2> HIDE DEF y
  <2>4. QED
    BY <1>2, <1>5, <2>1, <2>3 DEF Result
<1>6. ASSUME at' = "Done", Completed(x) PROVE Result
  <2> DEFINE y == Sent([ble |-> SetSecured(k), dev |-> dev], "ApCompleted", FALSE)
             z == [x EXCEPT !.ble = SetSecured(@)]
  <2>1. ble' = y.ble /\ dev' = y.dev /\ pc' = "serve" /\ log' = log
    <3>1. z = [ble |-> SetSecured(k), dev |-> dev]
      OBVIOUS
    <3> HIDE DEF z
    <3>2. QED
      BY <1>6, <3>1 DEF Completed, Put, z
  <2>2. /\ LinkOk(y.ble, y.dev) /\ InOrder(y.ble, y.dev, log.last)
        /\ y.ble.active = k.active /\ y.ble.sec.secured = k.active
        /\ Together(k, dev) /\ "ApCompleted" \notin Oversize =>
             Together(y.ble, y.dev)
    BY <1>2, CompletedLink
  <2> HIDE DEF y
  <2>3. QED
    BY <1>6, <2>1, <2>2 DEF Result
<1>7. ASSUME at' = "Failed", Failed(x) PROVE Result
  <2> DEFINE y == Sent(x, "GeneralError", empty)
             z == IF at = "EXCHANGE_98" THEN x ELSE y
             p == CloseLink(z.ble)
  <2>1. /\ ble' = p /\ dev' = z.dev
        /\ pc' = "returned"
        /\ log' \in {log, Counted}
    <3>1. y = [ble |-> y.ble, dev |-> y.dev]
      BY DEF Sent
    <3> HIDE DEF y
    <3>2. WithEvent(k, log) \in {log, Counted}
      BY EventCounted
    <3>3. QED
      BY <1>4, <1>7, <3>1, <3>2 DEF Failed, Put, y
  <2>2. "GeneralError" \in Outgoing
    BY DEF Outgoing
  <2> HIDE DEF empty
  <2>3. /\ LinkOk(y.ble, y.dev) /\ InOrder(y.ble, y.dev, log.last)
        /\ y.ble.active = k.active
    BY <1>2, <2>2, SentLink
  <2>4. /\ LinkOk(z.ble, z.dev) /\ InOrder(z.ble, z.dev, log.last)
        /\ z.ble.active = k.active
    BY <1>2, <1>4, <2>3
  <2> HIDE DEF y, z
  <2>5. ASSUME NEW g, NEW h, LinkOk(g, h), InOrder(g, h, log.last)
        PROVE  /\ LinkOk(CloseLink(g), h) /\ InOrder(CloseLink(g), h, log.last)
               /\ CloseLink(g).active = g.active /\ Together(CloseLink(g), h)
    BY <2>5, ClosedLink
  <2>6. /\ LinkOk(p, z.dev) /\ InOrder(p, z.dev, log.last)
        /\ p.active = z.ble.active /\ Together(p, z.dev)
    BY <2>4, <2>5
  <2> HIDE DEF p
  <2>7. QED
    BY <1>7, <2>1, <2>4, <2>6 DEF Result
<1>8. Result
  BY <1>3, <1>5, <1>6, <1>7
<1> HIDE DEF x, empty
<1> USE DEF Result
<1> USE DEF Request, StepUp
<1>9. /\ config' = config /\ target' = target /\ (NoStepUp' <=> NoStepUp)
      /\ at' # "Idle"
      /\ at' \in {"AUTH0", "AUTH1", "EXCHANGE_98"} =>
           at \in {"AUTH0", "AUTH1"} /\ r = "ok"
  BY <1>1 DEF LadderMove, NoStepUp
<1>10. log'.last = log.last /\ log'.misordered = log.misordered /\ log' \in LogState
  <2>1. /\ log \in LogState
        /\ log.events \in Nat /\ log.last \in Nat
        /\ log.misordered \in BOOLEAN
    BY DEF FlowInv, FlowTypes, LogState
  <2>2. Counted = [events |-> log.events + 1, last |-> log.last,
                   misordered |-> log.misordered]
    BY <2>1 DEF Counted, LogState
  <2>3. CASE log' = log
    BY <2>1, <2>3
  <2>4. CASE log' = Counted
    BY <2>1, <2>2, <2>4 DEF LogState
  <2>5. QED
    BY <1>8, <2>3, <2>4
<1>11. /\ engine' \in EngineState
       /\ engine'.active = engine.active
       /\ engine'.armed =
            (engine.armed \/ (HasEngine /\ at = "EXCHANGE_98" /\ at' # "Failed"))
  <2>1. /\ engine \in EngineState
        /\ engine.armed \in BOOLEAN /\ engine.active \in BOOLEAN
        /\ engine.sent \in Nat
        /\ engine = [armed |-> engine.armed, active |-> engine.active,
                     sent |-> engine.sent]
    BY DEF FlowInv, FlowTypes, EngineState
  <2>2. CASE HasEngine /\ at = "EXCHANGE_98" /\ at' # "Failed"
    <3>1. engine' = [armed |-> TRUE, active |-> engine.active,
                     sent |-> engine.sent]
      BY <1>3, <2>1, <2>2
    <3>2. QED
      BY <2>1, <2>2, <3>1 DEF EngineState
  <2>3. CASE ~(HasEngine /\ at = "EXCHANGE_98" /\ at' # "Failed")
    BY <1>3, <2>1, <2>3
  <2>4. QED
    BY <2>2, <2>3
<1>12. FlowTypes'
  BY <1>8, <1>9, <1>10, <1>11 DEF FlowInv, FlowTypes, LinkOk, Pc
<1>13. Phases'
  BY <1>8 DEF Phases, Serving, Rest
<1>14. Keyed'
  BY <1>1, <1>2, <1>8, <1>9
     DEF FlowInv, Keyed, KeyedNow, LadderMove, LadderOverBle, Serving,
         BeforeCompletion
<1>15. EngineKept'
  BY <1>1, <1>2, <1>8, <1>9, <1>11 DEF FlowInv, EngineKept, Keyed, LadderMove
<1>16. AtOneAnswer'
  BY <1>2, <1>8, <1>9 DEF AtOneAnswer
<1>17. Handled'
  BY <1>8, <1>10 DEF FlowInv, Handled, BeforeCompletion
<1>18. LinkOk(ble', dev') /\ InOrder(ble', dev', log'.last)
  BY <1>8, <1>10
<1>19. QED
  BY <1>1, <1>2, <1>8, <1>12, <1>13, <1>14, <1>15, <1>16, <1>17, <1>18
     DEF FlowInv

\* A step that leaves the ladder alone.
LEMMA LadderKept ==
  ASSUME FlowInv, UNCHANGED ladder
  PROVE  /\ IInv' /\ LadderOverBle'
         /\ at' = at /\ config' = config /\ flow' = flow /\ target' = target
         /\ NoStepUp' <=> NoStepUp
<1>1. IInv'
  BY StepInv DEF FlowInv
<1>2. QED
  BY <1>1 DEF FlowInv, LadderOverBle, ladder, NoStepUp, StepUp

\* A step in which only the transport changes, and run() stays where it is.
LEMMA QuietStep ==
  ASSUME FlowInv, UNCHANGED <<ladder, pc, dev, engine, log>>,
         LinkOk(ble', dev), InOrder(ble', dev, log.last),
         ble'.active = ble.active, ble'.sec.secured = ble.sec.secured,
         OneAnswer(ble, dev) => OneAnswer(ble', dev),
         pc = "listen" => ble'.deferred = ble.deferred
  PROVE  FlowInv'
<1>1. /\ IInv' /\ LadderOverBle'
      /\ at' = at /\ config' = config /\ flow' = flow /\ target' = target
      /\ NoStepUp' <=> NoStepUp
  BY LadderKept
<1>2. FlowTypes' /\ Phases' /\ Keyed' /\ EngineKept'
  BY <1>1
     DEF FlowInv, LinkOk, FlowTypes, Phases, Keyed, EngineKept,
         Serving, BeforeCompletion
<1>3. AtOneAnswer' /\ Handled'
  BY <1>1 DEF FlowInv, AtOneAnswer, Handled, BeforeCompletion
<1>4. QED
  BY <1>1, <1>2, <1>3 DEF FlowInv

\* A step of the post-AP loop: the engine is not armed there.
LEMMA ServeStep ==
  ASSUME FlowInv, Serving, UNCHANGED ladder,
         pc' \in {"serve", "listen", "stop", "returned"},
         LinkOk(ble', dev'), InOrder(ble', dev', log'.last),
         ble'.active = ble.active, ble'.sec.secured = ble.sec.secured,
         log' \in LogState, ~log'.misordered,
         pc' = "listen" => ble'.deferred = <<>>,
         engine' \in EngineState,
         engine'.active => engine'.armed, engine'.armed => engine.armed,
         pc' = "returned" => ~engine'.armed
  PROVE  FlowInv'
<1>1. /\ IInv' /\ LadderOverBle'
      /\ at' = "Done" /\ config' = config /\ flow' = flow /\ target' = target
      /\ NoStepUp' <=> NoStepUp
      /\ at = "Done"
  BY LadderKept DEF FlowInv, Phases
<1>2. FlowTypes'
  BY <1>1 DEF FlowInv, FlowTypes, LinkOk, Pc
<1>3. Phases'
  BY <1>1 DEF Phases, Serving, BeforeCompletion, Rest
<1>4. Keyed'
  BY <1>1 DEF FlowInv, Keyed, Serving, BeforeCompletion
<1>5. EngineKept'
  BY <1>1 DEF FlowInv, EngineKept
<1>6. AtOneAnswer' /\ Handled'
  BY <1>1 DEF AtOneAnswer, Handled, BeforeCompletion
<1>7. QED
  BY <1>1, <1>2, <1>3, <1>4, <1>5, <1>6 DEF FlowInv

\* run() gives up before the first request.
LEMMA GiveUpStep ==
  ASSUME FlowInv, pc = "establish", NEW b, LinkOk(b, dev), InOrder(b, dev, log.last),
         b.active = ble.active, b.sec.secured = ble.sec.secured,
         OneAnswer(b, dev),
         NEW l \in {log, Counted}, GiveUp(b, l)
  PROVE  FlowInv' /\ Together(ble', dev')
<1>1. /\ UNCHANGED <<ladder, dev, engine>> /\ pc' = "returned"
      /\ ble' = CloseLink(b) /\ log' = l
  BY DEF GiveUp
<1>2. /\ IInv' /\ LadderOverBle'
      /\ at' = "Idle" /\ at = "Idle" /\ config' = config /\ target' = target
      /\ NoStepUp' <=> NoStepUp
  BY <1>1, LadderKept DEF FlowInv, Phases
<1>3. /\ LinkOk(CloseLink(b), dev) /\ InOrder(CloseLink(b), dev, log.last)
      /\ CloseLink(b).active = b.active
      /\ OneAnswer(CloseLink(b), dev) /\ Together(CloseLink(b), dev)
  BY ClosedLink
<1>4. l \in LogState /\ l.last = log.last /\ l.misordered = log.misordered
  BY DEF Counted, LogState, FlowInv, FlowTypes
<1>5. FlowTypes'
  BY <1>1, <1>2, <1>3, <1>4 DEF FlowInv, FlowTypes, LinkOk, Pc
<1>6. Phases'
  BY <1>1, <1>2 DEF Phases, Serving, BeforeCompletion, Rest
<1>7. Keyed'
  BY <1>1, <1>2, <1>3 DEF FlowInv, Keyed, Serving, BeforeCompletion
<1>8. EngineKept'
  BY <1>1, <1>2 DEF FlowInv, EngineKept, StepUp
<1>9. AtOneAnswer' /\ Handled'
  BY <1>1, <1>2, <1>3, <1>4 DEF FlowInv, AtOneAnswer, Handled, BeforeCompletion
<1>10. QED
  BY <1>1, <1>2, <1>3, <1>4, <1>5, <1>6, <1>7, <1>8, <1>9 DEF FlowInv

\* The refusal of a BLE-only flow, before the window is open.
LEMMA RefusalLink ==
  ASSUME NEW b, NEW d, NEW last, LinkOk(b, d), InOrder(b, d, last), OneAnswer(b, d),
         ~b.sec.secured, NEW empty
  PROVE  LET p == AfterSend(b, "GeneralError", empty)
         IN  /\ LinkOk(p, d) /\ InOrder(p, d, last) /\ OneAnswer(p, d)
             /\ p.active = b.active /\ p.sec.secured = b.sec.secured
<1> DEFINE p == AfterSend(b, "GeneralError", empty)
           t == AfterSeal(b.sec, "reader", IsAp("GeneralError"), empty)
<1>1. /\ b \in TransportState(DeviceMessage)
      /\ b.sec = FreshSecurity /\ b.inbox \in Seq(Sdu(DeviceMessage))
  BY DEF LinkOk, TransportState
<1>2. /\ p \in TransportState(DeviceMessage)
      /\ p.rx = b.rx /\ p.deferred = b.deferred /\ p.active = b.active
      /\ p.inbox \in {b.inbox, <<>>}
      /\ p.sec \in {b.sec, t}
  BY <1>1, AfterSendFacts
<1>3. t = b.sec
  BY DEF AfterSeal, Exempt
<1> HIDE DEF p, t
<1>4. InOrder(p, d, last) /\ OneAnswer(p, d)
  BY <1>1, <1>2, QueuesKept DEF SameQueues
<1>5. \A a \in 1 .. Len(p.inbox) : a \in 1 .. Len(b.inbox) /\ p.inbox[a] = b.inbox[a]
  BY <1>1, <1>2
<1>6. LinkOk(p, d)
  BY <1>1, <1>2, <1>3, <1>5 DEF LinkOk
<1>7. QED
  BY <1>2, <1>3, <1>4, <1>6 DEF p

\* Up to the first request.
LEMMA EstablishStep ==
  ASSUME FlowInv, Establish \/ EstablishFails
  PROVE  FlowInv' /\ (Together(ble, dev) => Together(ble', dev'))
<1> DEFINE p == Received(ble).ble
           m == Received(ble).msg
           x == [ble |-> p, dev |-> dev]
           empty == FALSE
<1>1. /\ pc = "establish" /\ at = "Idle" /\ ~ble.sec.secured /\ ~ble.active
      /\ LinkOk(ble, dev) /\ InOrder(ble, dev, log.last) /\ log.last \in Nat
      /\ OneAnswer(ble, dev) /\ dev.asked = 0
  BY DEF Establish, EstablishFails, FlowInv, Phases, Keyed, BeforeCompletion,
         FlowTypes, LogState, AtOneAnswer
<1>2. /\ LinkOk(p, dev) /\ InOrder(p, dev, log.last)
      /\ SameOwner(p, ble)
      /\ OneAnswer(p, dev)
      /\ Together(ble, dev) => Together(p, dev)
  BY <1>1, ReceivedLink
<1>3. /\ p.active = ble.active /\ p.sec.secured = ble.sec.secured
      /\ p.deferred = ble.deferred
  BY <1>2 DEF SameOwner
<1>4. CASE EstablishFails
  BY <1>1, <1>4, GiveUpStep DEF EstablishFails
<1>5. CASE GiveUp(p, log)
  BY <1>1, <1>2, <1>3, <1>5, GiveUpStep
<1>6. CASE GiveUp(AfterSend(p, "GeneralError", empty), WithEvent(p, log))
  <2> HIDE DEF p, empty
  <2>1. /\ LinkOk(AfterSend(p, "GeneralError", empty), dev)
        /\ InOrder(AfterSend(p, "GeneralError", empty), dev, log.last)
        /\ OneAnswer(AfterSend(p, "GeneralError", empty), dev)
        /\ AfterSend(p, "GeneralError", empty).active = p.active
        /\ AfterSend(p, "GeneralError", empty).sec.secured = p.sec.secured
    BY <1>1, <1>2, <1>3, RefusalLink
  <2>2. WithEvent(p, log) \in {log, Counted}
    BY EventCounted
  <2>3. QED
    BY <1>1, <1>3, <1>6, <2>1, <2>2, GiveUpStep
<1>7. CASE ble' = p /\ UNCHANGED <<ladder, pc, dev, engine, log>>
  <2> HIDE DEF p
  <2>1. FlowInv'
    BY <1>1, <1>2, <1>3, <1>7, QuietStep
  <2>2. QED
    BY <1>2, <1>7, <2>1
<1>8. ASSUME NEW t \in Targets, Begin(IF m.kind = "InitiateRke" /\ t = "Fast"
                                      THEN "Standard" ELSE t),
             Ask(x), UNCHANGED <<engine, log>>
      PROVE  FlowInv' /\ (Together(ble, dev) => Together(ble', dev'))
  <2> DEFINE g == IF m.kind = "InitiateRke" /\ t = "Fast" THEN "Standard" ELSE t
             y == Sent(x, "AP_RQ", empty)
  <2>1. g \in Targets \union {"Standard"} /\ g \in Target /\ Begin(g)
    BY <1>8, FlowAssumption DEF Target
  <2> HIDE DEF g
  <2>2. IInv' /\ at' = "AUTH0" /\ target' = g /\ config' = config /\ flow' = "Failed"
    <3>1. IInv'
      BY <2>1, RestingFacts DEF FlowInv
    <3>2. QED
      BY <2>1, <3>1 DEF Begin, FreshSession
  <2>3. NoAnswer(p, dev)
    <3>1. dev.pending \in Seq(Nat) /\ \A i \in DOMAIN dev.pending : FALSE
      BY <1>1 DEF LinkOk, DeviceState, OneAnswer
    <3>2. dev.pending = <<>>
      <4>1. ASSUME NEW q \in Seq(Nat), q # <<>> PROVE 1 \in DOMAIN q
        BY <4>1
      <4>2. QED
        BY <3>1, <4>1
    <3> HIDE DEF p
    <3>3. QED
      BY <1>1, <1>2, <3>2 DEF OneAnswer, NoAnswer
  <2>4. /\ ble' = y.ble /\ dev' = y.dev
        /\ pc' \in {"wait", "refused"}
    BY <1>8 DEF Ask, Put
  <2>5. "AP_RQ" \in Outgoing
    BY DEF Outgoing
  <2> HIDE DEF empty, p
  <2>6. /\ LinkOk(y.ble, y.dev) /\ InOrder(y.ble, y.dev, log.last)
        /\ y.ble.active = p.active
        /\ y.ble.sec.secured = p.sec.secured
        /\ OneAnswer(y.ble, y.dev)
        /\ Together(p, dev) => Together(y.ble, y.dev)
    BY <1>2, <2>3, <2>5, SentLink
  <2> HIDE DEF y, x
  <2>7. LadderOverBle' /\ Phases'
    BY <2>2, <2>4 DEF FlowInv, LadderOverBle, Phases, Request, Serving, StepUp
  <2>8. FlowTypes'
    BY <1>8, <2>1, <2>2, <2>4, <2>6 DEF FlowInv, FlowTypes, LinkOk, Pc
  <2>9. Keyed'
    BY <1>1, <1>3, <2>2, <2>4, <2>6 DEF Keyed, Serving, BeforeCompletion
  <2>10. EngineKept'
    BY <1>1, <1>8, <2>2, <2>4
       DEF FlowInv, EngineKept, BeforeCompletion, StepUp
  <2>11. AtOneAnswer' /\ Handled'
    BY <1>1, <1>8, <2>2, <2>4, <2>6
       DEF FlowInv, AtOneAnswer, Handled, BeforeCompletion
  <2>12. LinkOk(ble', dev') /\ InOrder(ble', dev', log'.last)
    BY <1>8, <2>4, <2>6
  <2>13. QED
    BY <1>2, <2>2, <2>4, <2>6, <2>7, <2>8, <2>9, <2>10, <2>11, <2>12 DEF FlowInv
<1>9. CASE Establish
  BY <1>5, <1>6, <1>7, <1>8, <1>9 DEF Establish
<1>10. QED
  BY <1>4, <1>9

\* One message of the wait for an answer, or none.
LEMMA WaitStep ==
  ASSUME FlowInv, Wait
  PROVE  /\ FlowInv'
         /\ Together(ble, dev) /\ Oversize \subseteq {"AP_RQ"} =>
              Together(ble', dev')
<1> DEFINE p == Received(ble).ble
           m == Received(ble).msg
<1>1. /\ pc = "wait" /\ log.last \in Nat
      /\ LinkOk(ble, dev) /\ InOrder(ble, dev, log.last)
      /\ at \in {"AUTH0", "AUTH1"} => OneAnswer(ble, dev)
  BY DEF Wait, FlowInv, FlowTypes, LogState, AtOneAnswer
<1>2. /\ LinkOk(p, dev) /\ InOrder(p, dev, log.last)
      /\ SameOwner(p, ble)
      /\ m = NoMessage \/ m \in DeviceMessage
      /\ m # NoMessage /\ m.kind # "AP_RS" =>
           /\ log.last < m.n /\ m.n <= dev.sent
           /\ \A j \in DOMAIN p.deferred : p.deferred[j].n < m.n
           /\ Precedes(FALSE, m, p)
      /\ OneAnswer(ble, dev) =>
           /\ OneAnswer(p, dev)
           /\ m # NoMessage /\ m.kind = "AP_RS" => NoAnswer(p, dev)
      /\ Together(ble, dev) => Together(p, dev)
  BY <1>1, ReceivedLink
<1>3. p.active = ble.active /\ p.sec.secured = ble.sec.secured
  BY <1>2 DEF SameOwner
<1>4. "bad" \in Response /\ "stray" \in Response /\ DeviceResults \subseteq Response
  BY FlowAssumption DEF Response
<1>5. m.kind # "none" => m \in DeviceMessage /\ m # NoMessage
  BY <1>2 DEF NoMessage
<1>6. /\ LinkOk(CloseLink(p), dev) /\ InOrder(CloseLink(p), dev, log.last)
      /\ CloseLink(p).active = p.active /\ CloseLink(p).sec = p.sec
      /\ Together(CloseLink(p), dev)
  BY <1>2, DownLink
<1>7. Wait
  OBVIOUS
<1> DEFINE Cases ==
      /\ pc = "wait"
      /\ \/ /\ m.kind = "none"
            /\ Advance("bad", IF p.down \/ p.sec.aborted THEN CloseLink(p) ELSE p)
         \/ /\ m.kind = "AP_RS"
            /\ Advance(IF m.re # dev.asked /\ m.res = "ok" THEN "stray" ELSE m.res, p)
         \/ m.kind = "BadAp" /\ Advance("bad", p)
         \/ m.kind = "GeneralError" /\ Advance("bad", CloseLink(p))
         \/ /\ m.kind = "Busy"
            /\ ble' = p
            /\ UNCHANGED <<ladder, pc, dev, engine, log>>
         \/ /\ m.kind \in Notification \ {"BadAp", "GeneralError", "Busy"}
            /\ \/ /\ ble' = Park(p, m)
                  /\ UNCHANGED <<ladder, pc, dev, engine, log>>
               \/ Advance("bad", CloseLink(Park(p, m)))
<1>8. Cases
  BY <1>7 DEF Wait
<1> HIDE DEF p, m
<1>9. ASSUME Advance("bad", p) PROVE
           /\ FlowInv'
           /\ Together(ble, dev) /\ Oversize \subseteq {"AP_RQ"} =>
                Together(ble', dev')
  BY <1>1, <1>2, <1>3, <1>4, <1>9, AdvanceStep
<1>10. ASSUME Advance("bad", CloseLink(p)) PROVE
           /\ FlowInv'
           /\ Together(ble, dev) /\ Oversize \subseteq {"AP_RQ"} =>
                Together(ble', dev')
  BY <1>1, <1>3, <1>4, <1>6, <1>10, AdvanceStep
<1>11. CASE m.kind = "AP_RS"
  <2> DEFINE r == IF m.re # dev.asked /\ m.res = "ok" THEN "stray" ELSE m.res
  <2>1. Advance(r, p)
    BY <1>8, <1>11 DEF Notification
  <2>2. r \in Response
    BY <1>4, <1>5, <1>11, Messages
  <2>3. at \in {"AUTH0", "AUTH1"} => NoAnswer(p, dev)
    BY <1>1, <1>2, <1>5, <1>11
  <2> HIDE DEF r
  <2>4. QED
    BY <1>1, <1>2, <1>3, <2>1, <2>2, <2>3, AdvanceStep
<1>12. CASE ble' = p /\ UNCHANGED <<ladder, pc, dev, engine, log>>
  BY <1>1, <1>2, <1>3, <1>12, QuietStep
<1>13. CASE m.kind \in Notification \ {"BadAp", "GeneralError", "Busy"}
  <2> DEFINE q == Park(p, m)
  <2>1. m \in DeviceMessage /\ m # NoMessage /\ m.kind \notin Unparked /\ m.kind # "AP_RS"
    BY <1>5, <1>13 DEF Notification, Unparked
  <2>2. /\ LinkOk(q, dev) /\ InOrder(q, dev, log.last)
        /\ q.active = p.active /\ q.sec = p.sec
        /\ OneAnswer(p, dev) => OneAnswer(q, dev)
        /\ Together(p, dev) => Together(q, dev)
    BY <1>1, <1>2, <2>1, ParkLink
  <2>3. \/ /\ ble' = q
           /\ UNCHANGED <<ladder, pc, dev, engine, log>>
        \/ Advance("bad", CloseLink(q))
    BY <1>8, <1>13, <2>1 DEF Notification
  <2> HIDE DEF q
  <2>4. CASE ble' = q /\ UNCHANGED <<ladder, pc, dev, engine, log>>
    BY <1>1, <1>2, <1>3, <2>2, <2>4, QuietStep
  <2>5. CASE Advance("bad", CloseLink(q))
    <3>1. /\ LinkOk(CloseLink(q), dev) /\ InOrder(CloseLink(q), dev, log.last)
          /\ CloseLink(q).active = q.active /\ CloseLink(q).sec = q.sec
          /\ Together(CloseLink(q), dev)
      BY <2>2, ClosedLink
    <3>2. QED
      BY <1>1, <1>3, <1>4, <2>2, <2>5, <3>1, AdvanceStep
  <2>6. QED
    BY <2>3, <2>4, <2>5
<1>14. CASE m.kind = "none"
  BY <1>8, <1>9, <1>10, <1>14 DEF Notification
<1>15. QED
  BY <1>8, <1>9, <1>10, <1>11, <1>12, <1>13, <1>14

LEMMA RefusedStep ==
  ASSUME FlowInv, Refused
  PROVE  /\ FlowInv'
         /\ Together(ble, dev) /\ Oversize \subseteq {"AP_RQ"} =>
              Together(ble', dev')
<1>1. LinkOk(ble, dev) /\ InOrder(ble, dev, log.last)
  BY DEF FlowInv
<1>2. pc = "refused" /\ Advance("bad", ble) /\ "bad" \in Response
  BY DEF Refused, Response
<1>3. QED
  BY <1>1, <1>2, AdvanceStep

LEMMA LinkLostStep ==
  ASSUME FlowInv, LinkLost
  PROVE  FlowInv' /\ Together(ble', dev')
<1>1. LinkOk(ble, dev) /\ InOrder(ble, dev, log.last)
  BY DEF FlowInv
<1>2. /\ UNCHANGED <<ladder, pc, dev, engine, log>>
      /\ \/ ble' = [ble EXCEPT !.up = FALSE, !.full = FALSE]
         \/ ble' = [ble EXCEPT !.up = FALSE, !.full = FALSE, !.inbox = <<>>]
  <2>1. PICK inbox \in {ble.inbox, <<>>} :
          ble' = [ble EXCEPT !.up = FALSE, !.full = FALSE, !.inbox = inbox]
    BY DEF LinkLost
  <2>2. ble = [up |-> ble.up, full |-> ble.full, inbox |-> ble.inbox,
               down |-> ble.down,
               active |-> ble.active, sec |-> ble.sec, rx |-> ble.rx,
               deferred |-> ble.deferred]
    BY <1>1 DEF LinkOk, TransportState
  <2>3. CASE inbox = <<>>
    BY <2>1, <2>3 DEF LinkLost
  <2>4. CASE inbox = ble.inbox
    <3>1. [ble EXCEPT !.up = FALSE, !.full = FALSE, !.inbox = ble.inbox]
            = [ble EXCEPT !.up = FALSE, !.full = FALSE]
      BY <2>2
    <3>2. QED
      BY <2>1, <2>4, <3>1 DEF LinkLost
  <2>5. QED
    BY <2>3, <2>4
<1>3. /\ LinkOk(ble', dev) /\ InOrder(ble', dev, log.last)
      /\ ble'.active = ble.active /\ ble'.sec = ble.sec
      /\ ble'.deferred = ble.deferred
      /\ OneAnswer(ble, dev) => OneAnswer(ble', dev)
      /\ Together(ble', dev)
  BY <1>1, <1>2, DownLink
<1>4. QED
  BY <1>2, <1>3, QuietStep

\* A link that stops taking SDUs has the queues it had.
LEMMA BackpressureStep ==
  ASSUME FlowInv, Backpressure
  PROVE  FlowInv' /\ (Together(ble, dev) => Together(ble', dev'))
<1>1. /\ LinkOk(ble, dev) /\ InOrder(ble, dev, log.last)
      /\ ble \in TransportState(DeviceMessage) /\ ble.full \in BOOLEAN
      /\ UNCHANGED <<ladder, pc, dev, engine, log>>
  BY DEF FlowInv, LinkOk, TransportState, Backpressure
<1>2. ble' = [up |-> ble.up, full |-> ~ble.full, inbox |-> ble.inbox,
              down |-> ble.down, active |-> ble.active, sec |-> ble.sec,
              rx |-> ble.rx, deferred |-> ble.deferred]
  <2>1. ble = [up |-> ble.up, full |-> ble.full, inbox |-> ble.inbox,
               down |-> ble.down, active |-> ble.active, sec |-> ble.sec,
               rx |-> ble.rx, deferred |-> ble.deferred]
    BY <1>1 DEF TransportState
  <2>2. QED
    BY <2>1 DEF Backpressure
<1>3. ble' \in TransportState(DeviceMessage)
  BY <1>1, <1>2 DEF TransportState
<1>4. /\ ble'.up = ble.up /\ ble'.inbox = ble.inbox /\ ble'.down = ble.down
      /\ ble'.active = ble.active /\ ble'.sec = ble.sec /\ ble'.rx = ble.rx
      /\ ble'.deferred = ble.deferred
  BY <1>2
<1>5. LinkOk(ble', dev)
  BY <1>1, <1>3, <1>4 DEF LinkOk
<1>6. SameQueues(ble', ble)
  BY <1>4 DEF SameQueues
<1>7. InOrder(ble', dev, log.last) /\ (OneAnswer(ble, dev) => OneAnswer(ble', dev))
  BY <1>1, <1>6, QueuesKept
<1>8. FlowInv'
  BY <1>1, <1>4, <1>5, <1>7, QuietStep
<1>9. \A n : Continues(ble, n) => Continues(ble', n)
  BY <1>4 DEF Continues, LastOfInbox
<1>10. Together(ble, dev) => Together(ble', dev)
  BY <1>4, <1>9 DEF Together
<1>11. QED
  BY <1>1, <1>8, <1>10

-----------------------------------------------------------------------------
\* What a handler leaves behind that says nothing, or sends one message.
LEMMA PutLink ==
  ASSUME NEW b, NEW last, LinkOk(b, dev), InOrder(b, dev, last),
         \/ Put(Pair(b))
         \/ \E kind \in Outgoing \ {"AP_RQ"} : \E empty \in BOOLEAN :
              Put(Sent(Pair(b), kind, empty))
  PROVE  /\ LinkOk(ble', dev') /\ InOrder(ble', dev', last)
         /\ ble'.active = b.active /\ ble'.sec.secured = b.sec.secured
         /\ ble'.deferred = b.deferred
         /\ Together(b, dev) /\ Oversize \subseteq {"AP_RQ"} =>
              Together(ble', dev')
<1>1. CASE Put(Pair(b))
  BY <1>1 DEF Put, Pair
<1>2. ASSUME NEW kind \in Outgoing \ {"AP_RQ"}, NEW empty \in BOOLEAN,
             Put(Sent(Pair(b), kind, empty))
      PROVE  /\ LinkOk(ble', dev') /\ InOrder(ble', dev', last)
             /\ ble'.active = b.active /\ ble'.sec.secured = b.sec.secured
             /\ ble'.deferred = b.deferred
             /\ Together(b, dev) /\ Oversize \subseteq {"AP_RQ"} =>
                  Together(ble', dev')
  <2> DEFINE x == Sent([ble |-> b, dev |-> dev], kind, empty)
  <2>1. ble' = x.ble /\ dev' = x.dev
    BY <1>2 DEF Put, Pair
  <2>2. /\ LinkOk(x.ble, x.dev) /\ InOrder(x.ble, x.dev, last)
        /\ x.ble.deferred = b.deferred /\ x.ble.active = b.active
        /\ x.ble.sec.secured = b.sec.secured
        /\ Together(b, dev) /\ kind \notin Oversize => Together(x.ble, x.dev)
    BY SentLink
  <2> HIDE DEF x
  <2>3. QED
    BY <2>1, <2>2
<1>3. QED
  BY <1>1, <1>2

\* What the ranging engine does.
LEMMA EngineLink ==
  ASSUME NEW b, NEW last, LinkOk(b, dev), InOrder(b, dev, last),
         engine \in EngineState, engine.active => engine.armed, EngineActs(b)
  PROVE  /\ LinkOk(ble', dev') /\ InOrder(ble', dev', last)
         /\ ble'.active = b.active /\ ble'.sec.secured = b.sec.secured
         /\ ble'.deferred = b.deferred
         /\ Together(b, dev) /\ Oversize \subseteq {"AP_RQ"} =>
              Together(ble', dev')
         /\ engine' \in EngineState
         /\ engine'.active => engine'.armed
         /\ engine'.armed => engine.armed
<1>1. /\ engine.armed \in BOOLEAN /\ engine.active \in BOOLEAN
      /\ engine.sent \in Nat
      /\ engine = [armed |-> engine.armed, active |-> engine.active,
                   sent |-> engine.sent]
  BY DEF EngineState
<1>2. "UwbFrame" \in Outgoing \ {"AP_RQ"}
  BY DEF Outgoing
<1>3. \/ Put(Pair(b))
      \/ \E kind \in Outgoing \ {"AP_RQ"} : \E empty \in BOOLEAN :
           Put(Sent(Pair(b), kind, empty))
  BY <1>2 DEF EngineActs
<1>4. /\ LinkOk(ble', dev') /\ InOrder(ble', dev', last)
      /\ ble'.active = b.active /\ ble'.sec.secured = b.sec.secured
      /\ ble'.deferred = b.deferred
      /\ Together(b, dev) /\ Oversize \subseteq {"AP_RQ"} =>
           Together(ble', dev')
  BY <1>3, PutLink
<1>5. /\ engine' \in EngineState
      /\ engine'.active => engine'.armed
      /\ engine'.armed => engine.armed
  <2>1. CASE \E a \in {FALSE, engine.armed} : engine' = [engine EXCEPT !.active = a]
    <3>1. PICK a \in {FALSE, engine.armed} : engine' = [engine EXCEPT !.active = a]
      BY <2>1
    <3>2. /\ engine' = [armed |-> engine.armed, active |-> a,
                        sent |-> engine.sent]
          /\ a \in BOOLEAN /\ (a => engine.armed)
      BY <1>1, <3>1
    <3>3. QED
      BY <1>1, <3>2 DEF EngineState
  <2>2. CASE engine' = [engine EXCEPT !.sent = @ + 1]
    <3>1. engine' = [armed |-> engine.armed, active |-> engine.active,
                     sent |-> engine.sent + 1]
      BY <1>1, <2>2
    <3>2. QED
      BY <1>1, <3>1 DEF EngineState
  <2>3. QED
    BY <2>1, <2>2 DEF EngineActs
<1>6. QED
  BY <1>4, <1>5

\* One message handled after AP Completed.
LEMMA HandleLink ==
  ASSUME FlowInv, NEW b, NEW m, NEW go, NEW last,
         LinkOk(b, dev), InOrder(b, dev, last),
         m.kind # "AP_RS" => log.last < m.n /\ m.n \in Nat /\ last = m.n,
         m.kind = "AP_RS" => last = log.last,
         Handle(m, b, go)
  PROVE  /\ LinkOk(ble', dev') /\ InOrder(ble', dev', log'.last)
         /\ ble'.active = b.active /\ ble'.sec.secured = b.sec.secured
         /\ ble'.deferred = b.deferred
         /\ Together(b, dev) /\ Oversize \subseteq {"AP_RQ"} =>
              Together(ble', dev')
         /\ engine' \in EngineState
         /\ engine'.active => engine'.armed
         /\ engine'.armed => engine.armed
         /\ log' \in LogState /\ ~log'.misordered
<1> DEFINE routed == HasEngine /\ m.kind \in {"UwbFrame", "Ranging", "TimeSync"}
<1>1. /\ IF routed THEN EngineActs(b) /\ go ELSE Dispatch(m, b, go)
      /\ log' = IF m.kind = "AP_RS" THEN log
                ELSE [log EXCEPT !.last = m.n, !.misordered = @ \/ m.n <= log.last]
  BY DEF Handle
<1>3. /\ engine \in EngineState /\ (engine.active => engine.armed)
      /\ ~log.misordered
      /\ log.events \in Nat /\ log.last \in Nat
      /\ log \in LogState
      /\ log = [events |-> log.events, last |-> log.last,
                misordered |-> log.misordered]
  BY DEF FlowInv, EngineKept, FlowTypes, Handled, LogState
<1> HIDE DEF routed
<1>4. log' \in LogState /\ ~log'.misordered /\ log'.last = last
  <2>1. CASE m.kind = "AP_RS"
    BY <1>1, <1>3, <2>1
  <2>2. CASE m.kind # "AP_RS"
    <3> DEFINE w == log.misordered \/ m.n <= log.last
    <3>1. ~w /\ w \in BOOLEAN
      BY <1>3, <2>2
    <3> HIDE DEF w
    <3>2. log' = [events |-> log.events, last |-> m.n, misordered |-> w]
      BY <1>1, <1>3, <2>2 DEF w
    <3>3. QED
      BY <1>3, <2>2, <3>1, <3>2 DEF LogState
  <2>3. QED
    BY <2>1, <2>2
<1>5. CASE routed
  BY <1>1, <1>3, <1>4, <1>5, EngineLink
<1>6. CASE ~routed
  <2>1. UNCHANGED engine
    BY <1>1, <1>6 DEF Dispatch
  <2>2. \/ Put(Pair(b))
        \/ \E kind \in Outgoing \ {"AP_RQ"} : \E empty \in BOOLEAN :
             Put(Sent(Pair(b), kind, empty))
    <3>1. /\ {"GeneralError", "StatusChanged"} \subseteq Outgoing \ {"AP_RQ"}
          /\ FALSE \in BOOLEAN
      BY DEF Outgoing
    <3>2. \/ Put(Pair(b))
          \/ Put(Sent(Pair(b), "GeneralError", FALSE))
          \/ Put(Sent(Pair(b), "StatusChanged", FALSE))
      BY <1>1, <1>6 DEF Dispatch, HandleRke
    <3>3. QED
      BY <3>1, <3>2
  <2>3. /\ LinkOk(ble', dev') /\ InOrder(ble', dev', last)
        /\ ble'.active = b.active /\ ble'.sec.secured = b.sec.secured
        /\ ble'.deferred = b.deferred
        /\ Together(b, dev) /\ Oversize \subseteq {"AP_RQ"} =>
             Together(ble', dev')
    BY <2>2, PutLink
  <2>4. QED
    BY <1>3, <1>4, <2>1, <2>3
<1>7. QED
  BY <1>5, <1>6

\* Messages parked during the ladder.
LEMMA DrainStep ==
  ASSUME FlowInv, Drain
  PROVE  /\ FlowInv'
         /\ Together(ble, dev) /\ Oversize \subseteq {"AP_RQ"} =>
              Together(ble', dev')
<1> DEFINE m == Head(ble.deferred)
<1>1. /\ pc = "serve" /\ ble.deferred # <<>> /\ UNCHANGED <<ladder, pc>>
      /\ LinkOk(ble, dev) /\ InOrder(ble, dev, log.last) /\ log.last \in Nat
  BY DEF Drain, FlowInv, FlowTypes, LogState
<1>2. PICK q \in {Tail(ble.deferred), <<>>} :
        \E go : Handle(m, [ble EXCEPT !.deferred = q], go)
  BY DEF Drain
<1> DEFINE p == [ble EXCEPT !.deferred = q]
<1>3. /\ LinkOk(p, dev) /\ InOrder(p, dev, m.n)
      /\ p.active = ble.active /\ p.sec = ble.sec
      /\ m \in DeviceMessage /\ m.kind # "AP_RS" /\ log.last < m.n
      /\ Together(ble, dev) => Together(p, dev)
  BY <1>1, DrainLink DEF Unparked
<1>4. m.n \in Nat
  BY <1>3, Messages
<1>5. PICK go : Handle(m, p, go)
  BY <1>2
<1> HIDE DEF p, m
<1>6. /\ LinkOk(ble', dev') /\ InOrder(ble', dev', log'.last)
      /\ ble'.active = p.active /\ ble'.sec.secured = p.sec.secured
      /\ Together(p, dev) /\ Oversize \subseteq {"AP_RQ"} =>
           Together(ble', dev')
      /\ engine' \in EngineState
      /\ engine'.active => engine'.armed
      /\ engine'.armed => engine.armed
      /\ log' \in LogState /\ ~log'.misordered
  BY <1>3, <1>4, <1>5, HandleLink
<1>7. FlowInv'
  BY <1>1, <1>3, <1>6, ServeStep DEF Serving
<1>8. QED
  BY <1>3, <1>6, <1>7

\* One message of the post-AP loop, or none.
LEMMA ListenStep ==
  ASSUME FlowInv, Listen
  PROVE  /\ FlowInv'
         /\ Together(ble, dev) /\ Oversize \subseteq {"AP_RQ"} =>
              Together(ble', dev')
<1> DEFINE p == Received(ble).ble
           m == Received(ble).msg
<1>1. /\ pc = "listen" /\ UNCHANGED ladder /\ log.last \in Nat
      /\ LinkOk(ble, dev) /\ InOrder(ble, dev, log.last)
      /\ log \in LogState /\ ~log.misordered
      /\ engine \in EngineState /\ (engine.active => engine.armed)
      /\ ble.deferred = <<>>
  BY DEF Listen, FlowInv, FlowTypes, LogState, Handled, EngineKept
<1>2. /\ LinkOk(p, dev) /\ InOrder(p, dev, log.last)
      /\ SameOwner(p, ble)
      /\ m = NoMessage \/ m \in DeviceMessage
      /\ m # NoMessage /\ m.kind # "AP_RS" =>
           log.last < m.n /\ m.n <= dev.sent /\ Precedes(FALSE, m, p)
      /\ Together(ble, dev) => Together(p, dev)
  BY <1>1, ReceivedLink
<1>3. /\ p.active = ble.active /\ p.sec.secured = ble.sec.secured
      /\ p.deferred = <<>>
  BY <1>1, <1>2 DEF SameOwner
<1>4. \/ ble' = p /\ pc' = "serve" /\ UNCHANGED <<dev, engine, log>>
      \/ /\ m.kind # "none"
         /\ \E go : Handle(m, p, go)
         /\ pc' \in {"serve", "stop"}
  BY DEF Listen
<1> HIDE DEF p, m
<1>5. CASE ble' = p /\ pc' = "serve" /\ UNCHANGED <<dev, engine, log>>
  <2>1. FlowInv'
    BY <1>1, <1>2, <1>3, <1>5, ServeStep DEF Serving
  <2>2. QED
    BY <1>2, <1>5, <2>1
<1>6. ASSUME m.kind # "none", NEW go, Handle(m, p, go), pc' \in {"serve", "stop"}
      PROVE  /\ FlowInv'
             /\ Together(ble, dev) /\ Oversize \subseteq {"AP_RQ"} =>
                  Together(ble', dev')
  <2> DEFINE last == IF m.kind = "AP_RS" THEN log.last ELSE m.n
  <2>1. m \in DeviceMessage /\ m # NoMessage
    BY <1>2, <1>6 DEF NoMessage
  <2>2. m.kind # "AP_RS" => m.n \in Nat
    BY <2>1, Messages
  <2>3. InOrder(p, dev, last)
    <3>1. CASE m.kind = "AP_RS"
      BY <1>2, <3>1
    <3>2. CASE m.kind # "AP_RS"
      <4>1. InOrder(p, dev, m.n)
        BY <1>2, <1>3, <2>1, <3>2, HandledLink
      <4>2. QED
        BY <3>2, <4>1
    <3>3. QED
      BY <3>1, <3>2
  <2>4. /\ m.kind # "AP_RS" => log.last < m.n /\ m.n \in Nat /\ last = m.n
        /\ m.kind = "AP_RS" => last = log.last
    BY <1>2, <2>1, <2>2
  <2> HIDE DEF last
  <2>5. /\ LinkOk(ble', dev') /\ InOrder(ble', dev', log'.last)
        /\ ble'.active = p.active /\ ble'.sec.secured = p.sec.secured
        /\ Together(p, dev) /\ Oversize \subseteq {"AP_RQ"} =>
             Together(ble', dev')
        /\ engine' \in EngineState
        /\ engine'.active => engine'.armed
        /\ engine'.armed => engine.armed
        /\ log' \in LogState /\ ~log'.misordered
    BY <1>2, <1>6, <2>3, <2>4, HandleLink
  <2>6. FlowInv'
    BY <1>1, <1>3, <1>6, <2>5, ServeStep DEF Serving
  <2>7. QED
    BY <1>2, <2>5, <2>6
<1>7. QED
  BY <1>4, <1>5, <1>6

\* The rest of the post-AP loop.
LEMMA LoopStep ==
  ASSUME FlowInv, LoopEnds \/ IdleExpires \/ Poll \/ Stop
  PROVE  /\ FlowInv'
         /\ Together(ble, dev) /\ Oversize \subseteq {"AP_RQ"} =>
              Together(ble', dev')
<1>1. /\ pc \in {"serve", "stop"} /\ UNCHANGED ladder
      /\ LinkOk(ble, dev) /\ InOrder(ble, dev, log.last)
      /\ log \in LogState /\ ~log.misordered
      /\ engine \in EngineState /\ (engine.active => engine.armed)
      /\ engine.armed => HasEngine
  BY DEF LoopEnds, IdleExpires, Poll, Stop, FlowInv, FlowTypes, Handled, EngineKept
<1>2. CASE Poll
  <2>1. /\ ble.deferred = <<>> /\ pc' = "listen" /\ log' = log
        /\ \/ EngineActs(ble)
           \/ UNCHANGED <<ble, dev, engine>>
    BY <1>2 DEF Poll
  <2>2. CASE EngineActs(ble)
    <3>1. /\ LinkOk(ble', dev') /\ InOrder(ble', dev', log.last)
          /\ ble'.active = ble.active /\ ble'.sec.secured = ble.sec.secured
          /\ ble'.deferred = ble.deferred
          /\ Together(ble, dev) /\ Oversize \subseteq {"AP_RQ"} =>
               Together(ble', dev')
          /\ engine' \in EngineState
          /\ engine'.active => engine'.armed
          /\ engine'.armed => engine.armed
      BY <1>1, <2>2, EngineLink
    <3>2. FlowInv'
      BY <1>1, <2>1, <3>1, ServeStep DEF Serving
    <3>3. QED
      BY <3>1, <3>2
  <2>3. CASE UNCHANGED <<ble, dev, engine>>
    <3>1. FlowInv'
      BY <1>1, <2>1, <2>3, ServeStep DEF Serving
    <3>2. QED
      BY <2>3, <3>1
  <2>4. QED
    BY <2>1, <2>2, <2>3
<1>3. CASE LoopEnds \/ IdleExpires \/ Stop
  <2>1. pc' = "returned" /\ engine' = StoppedEngine /\ UNCHANGED <<ble, dev, log>>
    BY <1>3 DEF LoopEnds, IdleExpires, Stop
  <2>2. engine' \in EngineState /\ ~engine'.armed /\ ~engine'.active
    BY <1>1, <2>1 DEF StoppedEngine, EngineState
  <2>3. FlowInv'
    BY <1>1, <2>1, <2>2, ServeStep DEF Serving
  <2>4. QED
    BY <2>1, <2>3
<1>4. QED
  BY <1>2, <1>3

-----------------------------------------------------------------------------
\* A fresh connection.
LEMMA FlowStart == FlowInit => FlowInv /\ Together(ble, dev)
<1> SUFFICES ASSUME FlowInit PROVE FlowInv /\ Together(ble, dev)
  OBVIOUS
<1>1. /\ IInv /\ config.ble /\ at = "Idle" /\ flow = "Failed" /\ target = "Fast"
      /\ pc = "establish" /\ ble = FreshTransport /\ dev = FreshDevice
      /\ engine = [armed |-> FALSE, active |-> FALSE, sent |-> 0]
      /\ log = FreshLog
  BY InitInv DEF FlowInit, Init
<1>2. FreshSecurity \in SecurityState
  BY DEF FreshSecurity, SecurityState
<1>3. ble \in TransportState(DeviceMessage)
  BY <1>1, <1>2 DEF FreshTransport, TransportState
<1>4. dev \in DeviceState
  <2>1. 0 \in 0 .. MaxDeviceMsgs
    BY FlowAssumption
  <2>2. QED
    BY <1>1, <1>2, <2>1 DEF FreshDevice, DeviceState
<1>5. engine \in EngineState /\ log \in LogState
  BY <1>1 DEF EngineState, LogState, FreshLog
<1>6. FlowTypes /\ LadderOverBle /\ Phases
  BY <1>1, <1>3, <1>4, <1>5
     DEF FlowTypes, Pc, LadderOverBle, StepUp, Phases, Serving
<1>7. Keyed /\ EngineKept /\ Handled
  BY <1>1 DEF FreshTransport, FreshSecurity, FreshLog, Keyed, EngineKept,
              Handled, Serving, BeforeCompletion
<1>8. /\ ble.inbox = <<>> /\ ble.rx = <<>> /\ ble.deferred = <<>>
      /\ dev.pending = <<>> /\ dev.asked = 0 /\ dev.sent = 0 /\ log.last = 0
      /\ ble.sec = FreshSecurity /\ dev.sec = FreshSecurity
      /\ ~ble.active /\ ~ble.down /\ ~ble.sec.secured
  BY <1>1 DEF FreshTransport, FreshSecurity, FreshDevice, FreshLog
<1>9. Segments(ble) = {0} /\ Segment(ble, 0) = <<>> /\ Len(ble.inbox) = 0
  BY <1>8 DEF Segments, Segment
<1>10. /\ \A a \in Segments(ble) : DOMAIN Segment(ble, a) = {}
       /\ DOMAIN ble.deferred = {} /\ DOMAIN dev.pending = {}
       /\ Len(dev.pending) = 0
  BY <1>8, <1>9
<1>11. LinkOk(ble, dev)
  BY <1>3, <1>4, <1>8, <1>9 DEF LinkOk
<1>12. Sequenced(ble, TRUE) /\ Sequenced(ble, FALSE)
  BY <1>9, <1>10 DEF Sequenced
<1>13. InOrder(ble, dev, log.last)
  <2>1. log.last <= dev.sent
    BY <1>8
  <2>2. QED
    BY <1>10, <1>12, <2>1 DEF InOrder
<1>14. OneAnswer(ble, dev)
  <2>1. Len(dev.pending) <= 1
    BY <1>10
  <2>2. \A i \in DOMAIN dev.pending : FALSE
    BY <1>10
  <2>3. \A a \in Segments(ble) : \A i \in DOMAIN Segment(ble, a) : FALSE
    BY <1>10
  <2>4. QED
    BY <1>12, <2>1, <2>2, <2>3 DEF OneAnswer
<1>15. Together(ble, dev)
  BY <1>8 DEF Together
<1>16. QED
  BY <1>1, <1>6, <1>7, <1>8, <1>11, <1>13, <1>14, <1>15 DEF FlowInv, AtOneAnswer

\* Every step keeps FlowInv; and the ends in step, unless a message is sealed that
\* is then too large for the link.
LEMMA FlowStep ==
  ASSUME FlowInv, [FlowNext]_vars
  PROVE  /\ FlowInv'
         /\ Together(ble, dev) /\ Oversize \subseteq {"AP_RQ"} =>
              Together(ble', dev')
<1>1. CASE UNCHANGED vars
  <2>1. UNCHANGED <<ladder, pc, dev, engine, log>> /\ ble' = ble
    BY <1>1 DEF vars
  <2>2. LinkOk(ble, dev) /\ InOrder(ble, dev, log.last)
    BY DEF FlowInv
  <2>3. FlowInv'
    BY <2>1, <2>2, QuietStep
  <2>4. QED
    BY <2>1, <2>3
<1>2. CASE Reader
  BY <1>2, EstablishStep, RefusedStep, WaitStep, DrainStep, LoopStep, ListenStep
     DEF Reader
<1>3. CASE World
  BY <1>3, DeviceStep, LinkLostStep, BackpressureStep DEF World
<1>4. QED
  BY <1>1, <1>2, <1>3 DEF FlowNext

LEMMA FlowInvariance == FlowSpec => []FlowInv
<1>1. FlowInit => FlowInv
  BY FlowStart
<1>2. FlowInv /\ [FlowNext]_vars => FlowInv'
  BY FlowStep
<1>3. QED
  BY <1>1, <1>2, PTL DEF FlowSpec

(***************************************************************************)
(* What run(), the transport, the engine and the history may hold, from    *)
(* the reader's and the device's messages in any order (BleFlow.cpp).      *)
(***************************************************************************)
THEOREM FlowTypeCorrect == FlowSpec => []FlowTypeOK
<1>1. FlowInv => FlowTypeOK
  <2> SUFFICES ASSUME FlowInv PROVE FlowTypeOK
    OBVIOUS
  <2>1. /\ TypeOK /\ pc \in Pc /\ LinkOk(ble, dev)
        /\ ble \in TransportState(DeviceMessage) /\ dev \in DeviceState
    BY DEF FlowInv, IInv, FlowTypes
  <2>2. /\ ble.up \in BOOLEAN /\ ble.full \in BOOLEAN
        /\ ble.down \in BOOLEAN /\ ble.active \in BOOLEAN
        /\ ble.sec \in SecurityState /\ ble.inbox \in Seq(Sdu(DeviceMessage))
        /\ ble.rx \in Seq(DeviceMessage) /\ ble.deferred \in Seq(DeviceMessage)
        /\ dev.sec \in SecurityState
    BY <2>1 DEF TransportState, DeviceState
  <2>3. \A i \in DOMAIN ble.inbox : ble.inbox[i] \in Seq(DeviceMessage)
    BY <2>2 DEF Sdu
  <2>4. ble.active \/ ble.sec = FreshSecurity
    BY <2>1 DEF LinkOk
  <2>5. QED
    BY <2>1, <2>2, <2>3, <2>4 DEF FlowTypeOK
<1>2. QED
  BY <1>1, FlowInvariance, PTL

(***************************************************************************)
(* Unsolicited messages are handled in the order the device sent them and  *)
(* each at most once, through the SDU queue, the parking of the ladder and *)
(* the draining after it (BleChannel.cpp:87, BleFlow.cpp:416-450).         *)
(***************************************************************************)
THEOREM InOrderHandled == FlowSpec => []HandledInOrder
<1>1. FlowInv => HandledInOrder
  BY DEF FlowInv, Handled, HandledInOrder
<1>2. QED
  BY <1>1, FlowInvariance, PTL

(***************************************************************************)
(* Until step-up no answer to an earlier request is ever queued when the   *)
(* next one is asked, although transceive does not correlate them          *)
(* (BleChannel.cpp:47-68).                                                 *)
(***************************************************************************)
THEOREM NoStaleAnswer == FlowSpec => []AnswersCurrent
<1>1. FlowInv => AnswersCurrent
  <2> SUFFICES ASSUME FlowInv, at \in {"AUTH0", "AUTH1", "EXCHANGE_98"},
                      NEW sdu \in Range(ble.inbox) \union {ble.rx},
                      NEW m \in Range(sdu), m.kind = "AP_RS"
               PROVE  m.re = dev.asked
    BY DEF AnswersCurrent
  <2>1. OneAnswer(ble, dev) /\ ble.inbox \in Seq(Sdu(DeviceMessage))
    BY DEF FlowInv, AtOneAnswer, LinkOk, TransportState
  <2>2. \E a \in Segments(ble) : sdu = Segment(ble, a)
    <3>1. CASE sdu = ble.rx
      <4>1. 0 \in Segments(ble)
        BY <2>1 DEF Segments
      <4>2. QED
        BY <3>1, <4>1 DEF Segment
    <3>2. CASE sdu \in Range(ble.inbox)
      <4>1. PICK a \in 1 .. Len(ble.inbox) : sdu = ble.inbox[a]
        BY <2>1, <3>2 DEF Range
      <4>2. a \in Segments(ble) /\ a # 0
        BY <2>1, <4>1 DEF Segments
      <4>3. QED
        BY <4>1, <4>2 DEF Segment
    <3>3. QED
      BY <3>1, <3>2
  <2>3. PICK a \in Segments(ble) : sdu = Segment(ble, a)
    BY <2>2
  <2>4. PICK i \in DOMAIN sdu : m = sdu[i]
    BY DEF Range
  <2>5. QED
    BY <2>1, <2>3, <2>4 DEF OneAnswer
<1>2. QED
  BY <1>1, FlowInvariance, PTL

(***************************************************************************)
(* A ranging engine that was armed is stopped when run() returns, however  *)
(* the session ended (BleFlow.cpp:171-175,452).                            *)
(***************************************************************************)
THEOREM EngineLeftStopped == FlowSpec => []EngineStopped
<1>1. FlowInv => EngineStopped
  BY DEF FlowInv, EngineKept, EngineStopped
<1>2. QED
  BY <1>1, FlowInvariance, PTL

(***************************************************************************)
(* Unless the flow may grant by step-up, AP Completed and all that follows *)
(* it is sealed (BleFlow.cpp:111-112).                                     *)
(***************************************************************************)
THEOREM SealedUnlessStepUp == FlowSpec => [](NoStepUp => CompletionSealed)
<1>1. FlowInv => (NoStepUp => CompletionSealed)
  BY DEF FlowInv, Keyed, Phases, Serving, CompletionSealed
<1>2. QED
  BY <1>1, FlowInvariance, PTL

(***************************************************************************)
(* Both ends expect the same counters when nothing is under way, whatever  *)
(* was lost or packed, for as long as the reader takes the link to be up:  *)
(* a sealed SDU the link refuses has used a counter, and marks the link    *)
(* down.  A message too large for the link uses one up too and marks       *)
(* nothing (BleTransport.cpp:16-26,30-54): no sealed message may be.       *)
(***************************************************************************)
THEOREM CountersInStep ==
  ASSUME Oversize \subseteq {"AP_RQ"} PROVE FlowSpec => []InStep
<1>1. FlowInit => FlowInv /\ Together(ble, dev)
  BY FlowStart
<1>2. FlowInv /\ Together(ble, dev) /\ [FlowNext]_vars =>
        FlowInv' /\ Together(ble, dev)'
  BY FlowStep
<1>3. FlowInv /\ Together(ble, dev) => InStep
  <2> SUFFICES ASSUME FlowInv, Together(ble, dev),
                      ble.up, ~ble.down, ble.inbox = <<>>, ble.sec.secured,
                      ~ble.sec.aborted, ~dev.sec.aborted
               PROVE  ble.sec = dev.sec
    BY DEF InStep
  <2>1. /\ ble.sec \in SecurityState /\ dev.sec \in SecurityState
    BY DEF FlowInv, LinkOk, TransportState, DeviceState
  <2>2. /\ ble.sec.secured = dev.sec.secured
        /\ ble.sec.counter["reader"] = dev.sec.counter["reader"]
        /\ Continues(ble, dev.sec.counter["device"])
    BY DEF Together
  <2>3. \A a \in 1 .. Len(ble.inbox) : FALSE
    OBVIOUS
  <2>4. ble.sec.counter["device"] = dev.sec.counter["device"]
    BY <2>2, <2>3 DEF Continues
  <2>5. ble.sec.counter = dev.sec.counter
    <3>1. /\ ble.sec.counter \in [Role -> Nat \ {0}]
          /\ dev.sec.counter \in [Role -> Nat \ {0}]
      BY <2>1 DEF SecurityState
    <3>2. \A r \in Role : ble.sec.counter[r] = dev.sec.counter[r]
      BY <2>2, <2>4 DEF Role
    <3>3. QED
      BY <3>1, <3>2
  <2>6. QED
    BY <2>1, <2>2, <2>5 DEF SecurityState
<1>4. QED
  BY <1>1, <1>2, <1>3, PTL DEF FlowSpec

(***************************************************************************)
(* A live ranging session holds the connection open: only a link that is   *)
(* lost or refused an SDU, the end of message security, or a General Error *)
(* ends it (BleFlow.cpp:427-437, BleTransport.cpp:22-26), provided that a  *)
(* status report fits the link.                                            *)
(***************************************************************************)
THEOREM RangingHeld ==
  ASSUME ~BleOnly \/ "StatusChanged" \notin Oversize
  PROVE  FlowSpec => RangingHolds
<1> DEFINE Hold == engine.active /\ pc \in {"serve", "listen"} /\ pc' \in {"returned", "stop"}
                   => ~ble'.up \/ ble'.down \/ ble'.sec.aborted \/ GotGeneralError
<1>1. FlowInv /\ [FlowNext]_vars => Hold
  <2> SUFFICES ASSUME FlowInv, [FlowNext]_vars, engine.active,
                      pc \in {"serve", "listen"}, pc' \in {"returned", "stop"}
               PROVE  ~ble'.up \/ ble'.down \/ ble'.sec.aborted \/ GotGeneralError
    OBVIOUS
  <2>1. /\ HasEngine /\ ble.active /\ ble.sec.secured
        /\ LinkOk(ble, dev) /\ InOrder(ble, dev, log.last)
        /\ log.last \in Nat
    BY DEF FlowInv, EngineKept, Keyed, Serving, LinkOk, FlowTypes, LogState
  <2>2. \/ LoopEnds \/ IdleExpires
        \/ \E b, m : /\ b = Received(ble).ble /\ m = Received(ble).msg
                     /\ pc = "listen" /\ Handle(m, b, FALSE)
    BY DEF FlowNext, Reader, World, EstablishFails, Establish, Refused, Wait, Drain,
           Poll, Listen, Stop, DeviceAnswers, DeviceNotifies, LinkLost, Backpressure, vars
  <2>3. CASE LoopEnds
    BY <2>1, <2>3 DEF LoopEnds, Ended
  <2>4. CASE IdleExpires
    BY <2>1, <2>4 DEF IdleExpires
  <2>5. ASSUME NEW b, NEW m, b = Received(ble).ble, m = Received(ble).msg,
               pc = "listen", Handle(m, b, FALSE)
        PROVE  ~ble'.up \/ ble'.down \/ ble'.sec.aborted \/ GotGeneralError
    <3> DEFINE no == FALSE
    <3>1. b.sec.secured /\ LinkOk(b, dev)
      <4>1. LinkOk(Received(ble).ble, dev) /\ SameOwner(Received(ble).ble, ble)
        BY <2>1, ReceivedLink
      <4>2. QED
        BY <2>1, <2>5, <4>1 DEF SameOwner
    <3>2. Dispatch(m, b, FALSE) /\ m.kind # "Ranging"
      BY <2>1, <2>5 DEF Handle
    <3>3. CASE m.kind = "GeneralError"
      BY <2>5, <3>3 DEF GotGeneralError
    <3>4. CASE m.kind # "GeneralError"
      <4>1. HandleRke(b, FALSE) /\ BleOnly
        BY <3>2, <3>4 DEF Dispatch
      <4>2. /\ ble' = Sent(Pair(b), "StatusChanged", no).ble
            /\ ~SendOk(b, "StatusChanged", no)
        BY <3>1, <4>1 DEF HandleRke, Put
      <4>3. ble' = AfterSend(b, "StatusChanged", no) /\ ~no
        BY <4>2 DEF Sent, Pair
      <4> HIDE DEF no
      <4>4. b \in TransportState(DeviceMessage)
        BY <3>1 DEF LinkOk
      <4>5. "StatusChanged" \notin Oversize
        BY <4>1
      <4>6. ble'.up /\ ~ble'.down => SendOk(b, "StatusChanged", no)
        BY <4>3, <4>4, <4>5, AfterSendFacts
      <4>7. QED
        BY <4>2, <4>6
    <3>5. QED
      BY <3>3, <3>4
  <2>6. QED
    BY <2>2, <2>3, <2>4, <2>5
<1>2. QED
  BY <1>1, FlowInvariance, PTL DEF FlowSpec, RangingHolds

(***************************************************************************)
(* The messages parked behind one are dropped with it only when the link   *)
(* or message security is gone, when the answer to it was refused by the   *)
(* link, or when it asks for ranging and there is no engine (BleFlow.cpp:  *)
(* 416-421), provided that a status report fits the link.                  *)
(***************************************************************************)
THEOREM ParkedServed ==
  ASSUME ~BleOnly \/ "StatusChanged" \notin Oversize
  PROVE  FlowSpec => ParkedKept
<1> DEFINE Kept == pc = "serve" /\ Len(ble'.deferred) < Len(ble.deferred) - 1
                   => \/ ~ble'.up \/ ble'.down \/ ble'.sec.aborted \/ ~ble.sec.secured
                      \/ ~HasEngine /\ Head(ble.deferred).kind = "Ranging"
<1>1. FlowInv /\ [FlowNext]_vars => Kept
  <2> SUFFICES ASSUME FlowInv, [FlowNext]_vars, pc = "serve", ble.sec.secured,
                      Len(ble'.deferred) < Len(ble.deferred) - 1
               PROVE  \/ ~ble'.up \/ ble'.down \/ ble'.sec.aborted
                      \/ ~HasEngine /\ Head(ble.deferred).kind = "Ranging"
    OBVIOUS
  <2>1. /\ LinkOk(ble, dev) /\ InOrder(ble, dev, log.last)
        /\ log.last \in Nat /\ ble.deferred \in Seq(DeviceMessage)
    BY DEF FlowInv, FlowTypes, LogState, LinkOk, TransportState
  <2> DEFINE l == Len(ble.deferred)
             m == Head(ble.deferred)
  <2>2. l \in Nat /\ ble'.deferred # ble.deferred
    BY <2>1
  <2>3. \/ Drain
        \/ Poll /\ EngineActs(ble)
    <3>1. DeviceAnswers \/ LinkLost \/ Backpressure \/ (\E kind \in DeviceKinds : DeviceNotifies(kind))
          => ble'.deferred = ble.deferred
      BY <2>1 DEF DeviceAnswers, LinkLost, Backpressure, DeviceNotifies, Deliver, LinkOk, TransportState
    <3>2. QED
      BY <2>2, <3>1 DEF FlowNext, Reader, World, EstablishFails, Establish, Refused, Wait,
         LoopEnds, IdleExpires, Poll, Listen, Stop, vars
  <2>4. CASE Poll /\ EngineActs(ble)
    <3>1. engine \in EngineState /\ (engine.active => engine.armed)
      BY DEF FlowInv, FlowTypes, EngineKept
    <3>2. ble'.deferred = ble.deferred
      BY <2>1, <2>4, <3>1, EngineLink
    <3>3. QED
      BY <2>2, <3>2
  <2>5. CASE Drain
    <3>1. PICK q \in {Tail(ble.deferred), <<>>}, go \in BOOLEAN :
            /\ Handle(m, [ble EXCEPT !.deferred = q], go)
            /\ ble.deferred # <<>>
            /\ go => q = Tail(ble.deferred)
      BY <2>5 DEF Drain
    <3> DEFINE b == [ble EXCEPT !.deferred = q]
               no == FALSE
    <3>2. /\ LinkOk(b, dev) /\ InOrder(b, dev, m.n) /\ b.sec.secured
          /\ m.kind \notin Unparked
      BY <2>1, <3>1, DrainLink
    <3>3. b.deferred = q /\ (go => Len(q) = l - 1)
      BY <2>1, <3>1 DEF LinkOk, TransportState
    <3> HIDE DEF b
    <3>4. CASE HasEngine /\ m.kind \in {"UwbFrame", "Ranging", "TimeSync"}
      <4>1. EngineActs(b) /\ go
        BY <3>1, <3>4 DEF Handle, b
      <4>2. engine \in EngineState /\ (engine.active => engine.armed)
        BY DEF FlowInv, FlowTypes, EngineKept
      <4>3. ble'.deferred = b.deferred
        BY <3>2, <4>1, <4>2, EngineLink
      <4>4. QED
        BY <2>2, <3>3, <4>1, <4>3
    <3>5. CASE ~(HasEngine /\ m.kind \in {"UwbFrame", "Ranging", "TimeSync"})
      <4>1. Dispatch(m, b, go)
        BY <3>1, <3>5 DEF Handle, b
      <4>2. \/ m.kind = "Ranging" /\ ~HasEngine
            \/ go /\ ble' = b
            \/ BleOnly /\ HandleRke(b, go)
        BY <3>2, <3>5, <4>1 DEF Dispatch, Unparked, Put, Pair
      <4>3. CASE go /\ ble' = b
        BY <2>2, <3>3, <4>3
      <4>4. CASE BleOnly /\ HandleRke(b, go)
        <5>1. \/ go /\ ble' = b
              \/ /\ ble' = Sent(Pair(b), "StatusChanged", no).ble
                 /\ go = SendOk(b, "StatusChanged", no)
          BY <3>2, <4>4 DEF HandleRke, Put, Pair
        <5>2. CASE /\ ble' = Sent(Pair(b), "StatusChanged", no).ble
                   /\ go = SendOk(b, "StatusChanged", no)
          <6>1. ble' = AfterSend(b, "StatusChanged", no)
            BY <5>2 DEF Sent, Pair
          <6> HIDE DEF no
          <6>2. b \in TransportState(DeviceMessage)
            BY <3>2 DEF LinkOk
          <6>3. "StatusChanged" \notin Oversize
            BY <4>4
          <6>4. /\ ble'.deferred = b.deferred
                /\ ble'.up /\ ~ble'.down => SendOk(b, "StatusChanged", no)
            BY <6>1, <6>2, <6>3, AfterSendFacts
          <6>5. CASE ~go
            BY <5>2, <6>4, <6>5
          <6>6. CASE go
            BY <2>2, <3>3, <6>4, <6>6
          <6>7. QED
            BY <6>5, <6>6
        <5>3. CASE go /\ ble' = b
          BY <2>2, <3>3, <5>3
        <5>4. QED
          BY <5>1, <5>2, <5>3
      <4>5. QED
        BY <4>2, <4>3, <4>4
    <3>6. QED
      BY <3>4, <3>5
  <2>6. QED
    BY <2>3, <2>4, <2>5
<1>2. QED
  BY <1>1, FlowInvariance, PTL DEF FlowSpec, ParkedKept

-----------------------------------------------------------------------------
\* The flow takes the ladder through its own steps and no others.
LEMMA FlowLadder == FlowInv /\ [FlowNext]_vars => [Next]_ladder
<1> SUFFICES ASSUME FlowInv, [FlowNext]_vars PROVE [Next]_ladder
  OBVIOUS
<1>1. ASSUME NEW r \in Response, NEW b, Advance(r, b) PROVE Next
  BY <1>1 DEF Advance, Next
<1>2. "bad" \in Response /\ "stray" \in Response /\ DeviceResults \subseteq Response
  BY FlowAssumption DEF Response
<1>3. CASE Establish
  <2>1. \/ UNCHANGED ladder
        \/ \E t \in Targets : \E k :
             Begin(IF k = "InitiateRke" /\ t = "Fast" THEN "Standard" ELSE t)
    BY <1>3 DEF Establish, GiveUp
  <2>2. QED
    BY <2>1, FlowAssumption DEF Next, Target
<1>4. CASE Refused
  BY <1>1, <1>2, <1>4 DEF Refused
<1>5. CASE Wait
  <2> DEFINE m == Received(ble).msg
             r == IF m.re # dev.asked /\ m.res = "ok" THEN "stray" ELSE m.res
  <2>1. \/ UNCHANGED ladder
        \/ \E b : Advance("bad", b)
        \/ m.kind = "AP_RS" /\ \E b : Advance(r, b)
    BY <1>5 DEF Wait
  <2>2. m.kind = "AP_RS" => r \in Response
    <3>1. LinkOk(ble, dev) /\ InOrder(ble, dev, log.last) /\ log.last \in Nat
      BY DEF FlowInv, FlowTypes, LogState
    <3>2. m = NoMessage \/ m \in DeviceMessage
      BY <3>1, ReceivedLink
    <3> HIDE DEF m
    <3>3. m.kind = "AP_RS" => m.res \in Response
      BY <1>2, <3>2, Messages DEF NoMessage
    <3>4. QED
      BY <1>2, <3>3
  <2> HIDE DEF r
  <2>3. QED
    BY <1>1, <1>2, <2>1, <2>2
<1>6. CASE UNCHANGED ladder
  BY <1>6
<1>7. QED
  BY <1>3, <1>4, <1>5, <1>6
     DEF FlowNext, Reader, World, EstablishFails, GiveUp, Drain, LoopEnds,
         IdleExpires, Poll, Listen, Stop, DeviceAnswers, DeviceNotifies, LinkLost,
         Backpressure, vars

(***************************************************************************)
(* Over BLE too the ladder implements the abstract access transaction: one *)
(* decision, one key or one endpoint saved by a grant, nothing by anything *)
(* else that arrives, is late, is lost or is never answered                *)
(* (BleFlow.cpp:318-412).                                                  *)
(***************************************************************************)
THEOREM FlowImplementsTransaction == FlowSpec => TransactionSpec
<1>1. FlowInit => Transaction!Init
  BY InitInv DEF FlowInit
<1>2. FlowInv /\ [FlowNext]_vars => [Transaction!Next]_<<Decision, nvs>>
  BY FlowLadder, StepInv DEF FlowInv, TransactionStep
<1>3. QED
  BY <1>1, <1>2, FlowInvariance, PTL DEF FlowSpec, TransactionSpec, Transaction!Spec

(***************************************************************************)
(* Whatever the device and the link do, the store is saved whenever the    *)
(* ladder rests, and the outcome names the device that was authenticated   *)
(* (Profile.cpp:263-265,310-322).                                          *)
(***************************************************************************)
THEOREM FlowGrants == FlowSpec => [](StoreDurable /\ OutcomeNamesDevice)
<1>1. FlowInit => FoundStays
  BY DEF FlowInit, Init, FoundStays
<1>2. FlowInv /\ FoundStays /\ [FlowNext]_vars => FoundStays'
  BY FlowLadder, FoundInv DEF FlowInv
<1>3. FlowInv => StoreDurable
  BY DEF FlowInv, IInv, UnsavedIsOneKey, StoreDurable, StepUp, Rest
<1>4. FlowInv /\ FoundStays => OutcomeNamesDevice
  BY NamedIsFound DEF FlowInv
<1>5. QED
  BY <1>1, <1>2, <1>3, <1>4, FlowInvariance, PTL DEF FlowSpec
=============================================================================
