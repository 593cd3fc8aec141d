------------------------------ MODULE BleFlow ------------------------------
(***************************************************************************)
(* One Aliro transaction over BLE: BleFlow::run drives the access ladder   *)
(* through BleChannel and the transport, hands the URSK to the ranging     *)
(* engine, completes, and serves the connection afterwards.  The user      *)
(* device, the link and the engine are external; they act between any two  *)
(* steps of the reader.  What the reader sends reaches the device at once, *)
(* what the device sends waits in the link's inbox: every delay the reader *)
(* can notice is a delay of the inbox.                                     *)
(***************************************************************************)
EXTENDS AliroProfile, BleTransport, SequencesExt

CONSTANTS
  Targets,          \* target_flow of the session configuration
  BleOnly,          \* config_.ble_only_flow_supported
  HasEngine,        \* set_uwb_ranging_channel was called
  DeviceKinds,      \* kinds of unsolicited message the device may send
  DeviceResults,    \* status words it answers requests with
  MaxDeviceMsgs,    \* bound: how many of them
  MaxAnswers,       \* bound: requests it answers, before it falls silent
  MaxPacked,        \* bound: messages in one SDU
  MaxFrames         \* bound: frames the engine sends

VARIABLES
  pc,               \* where run() is
  ble,              \* transport_ and the link under it
  dev,              \* the user device (external)
  engine,           \* the UwbRangingChannel (external)
  log               \* history, for the properties

vars == <<ladder, pc, ble, dev, engine, log>>

\* What the device sends unasked.
Notification == {"Initiate", "InitiateRke", "Busy", "GeneralError", "TimeSync",
                 "RkeRequest", "Ranging", "UwbFrame", "BadAp"}

ASSUME FlowAssumption ==
  /\ Targets \subseteq Target
  /\ BleOnly \in BOOLEAN /\ HasEngine \in BOOLEAN
  /\ DeviceKinds \subseteq Notification
  /\ DeviceResults \subseteq {"ok", "more", "bad"}
  /\ MaxDeviceMsgs \in Nat /\ MaxFrames \in Nat

\* wait, refused: an AP_RQ awaits its AP_RS, could not be sent.  serve, listen,
\* stop: the top of the post-AP loop, its receive, and past its end.
Pc == {"establish", "wait", "refused", "serve", "listen", "stop",
       "returned"}

\* What the properties look back on: failure events that were delivered, the last
\* message handled after AP Completed, and whether one was handled after a later
\* one.
FreshLog == [events |-> 0, last |-> 0, misordered |-> FALSE]

\* Requests heard, those not answered, messages sent, and the device's own message
\* security.
FreshDevice ==
  [asked |-> 0, pending |-> <<>>, sent |-> 0, sec |-> FreshSecurity]

FlowInit ==
  /\ Init
  /\ config.ble
  /\ pc = "establish"
  /\ ble = FreshTransport
  /\ dev = FreshDevice
  /\ engine = [armed |-> FALSE, active |-> FALSE, sent |-> 0]
  /\ log = FreshLog

-----------------------------------------------------------------------------
(***************************************************************************)
(* Sending.  x is the pair of the transport and the device that hears it.  *)
(* The device opens its window at a sealed AP Completed.                   *)
(***************************************************************************)
Heard(d, kind, c) ==
  IF kind = "AP_RQ"
  THEN [d EXCEPT !.asked = @ + 1, !.pending = Append(@, d.asked + 1)]
  ELSE LET s == [d.sec EXCEPT !.secured = @ \/ (kind = "ApCompleted" /\ c # Clear)]
       IN  [d EXCEPT !.sec = AfterUnseal(s, "device", FALSE, c)]

Sent(x, kind, empty) ==
  LET c == SealedUnder(x.ble.sec, "reader", IsAp(kind))
  IN  [ble |-> AfterSend(x.ble, kind, empty),
       dev |-> IF SendOk(x.ble, kind, empty) THEN Heard(x.dev, kind, c)
               ELSE x.dev]

Put(x) == ble' = x.ble /\ dev' = x.dev

\* send_failure_event with transport b, counted.
WithEvent(b, l) ==
  [l EXCEPT !.events = IF SendOk(b, "GeneralError", FALSE) THEN @ + 1 ELSE @]

\* transceive up to its wait.
Ask(x) ==
  /\ Put(Sent(x, "AP_RQ", FALSE))
  /\ pc' = IF SendOk(x.ble, "AP_RQ", FALSE) THEN "wait" ELSE "refused"

-----------------------------------------------------------------------------
\* establish.  Returning from run() before AP Completed closes the link.
GiveUp(b, l) ==
  /\ pc' = "returned"
  /\ ble' = CloseLink(b)
  /\ log' = l
  /\ UNCHANGED <<ladder, dev, engine>>

\* Bad identity or version, initiate_wait_ms gone by, or the link went down.
EstablishFails == pc = "establish" /\ GiveUp(ble, log)

Establish ==
  LET got == Received(ble)
      kind == got.msg.kind
      x == [ble |-> got.ble, dev |-> dev]
  IN  /\ pc = "establish"
      /\ kind # "none"
      /\ \/ /\ kind = "Initiate" \/ (kind = "InitiateRke" /\ BleOnly)
            /\ \/ GiveUp(got.ble, log)       \* proprietary data or version
               \/ /\ \E t \in Targets :         \* no fast flow for RKE
                       Begin(IF kind = "InitiateRke" /\ t = "Fast"
                                    THEN "Standard" ELSE t)
                  /\ Ask(x)
                  /\ UNCHANGED <<engine, log>>
         \/ /\ kind = "InitiateRke" /\ ~BleOnly
            /\ GiveUp(AfterSend(got.ble, "GeneralError", FALSE), WithEvent(got.ble, log))
         \/ kind = "GeneralError" /\ GiveUp(got.ble, log)
         \/ /\ kind \notin {"Initiate", "InitiateRke", "GeneralError"}
            /\ ble' = got.ble
            /\ UNCHANGED <<ladder, pc, dev, engine, log>>

-----------------------------------------------------------------------------
(***************************************************************************)
(* The ladder takes response r to its outstanding request, with transport  *)
(* b, and does what BleProfile and the flow's hooks do on the way.         *)
(***************************************************************************)
\* Faulty: message security is activated by the flow that offers a URSK only.
KeyedForUrskOnly == config.ursk /\ at \in {"AUTH0", "AUTH1"} /\ found' # None

\* on_auth_success activates message security, whatever becomes of the URSK.
KeyedNow == at \in {"AUTH0", "AUTH1"} /\ found' # None

\* AP Completed: the window is flipped first.
Completed(x) ==
  /\ Put(Sent([x EXCEPT !.ble = SetSecured(@)], "ApCompleted", FALSE))
  /\ pc' = "serve"
  /\ UNCHANGED log

\* The failure event, and the end of run(); a URSK refusal has no event.
Failed(x) ==
  LET silent == at = "EXCHANGE_98"
      y == IF silent THEN x ELSE Sent(x, "GeneralError", FALSE)
  IN  /\ Put([y EXCEPT !.ble = CloseLink(@)])
      /\ pc' = "returned"
      /\ log' = IF silent THEN log ELSE WithEvent(x.ble, log)

Advance(r, b) ==
  /\ Respond(r)
  /\ LET x == [ble |-> IF KeyedNow THEN Activate(b) ELSE b, dev |-> dev]
     IN  \/ at' \in Request /\ Ask(x) /\ UNCHANGED log
         \/ at' = "Done" /\ Completed(x)
         \/ at' = "Failed" /\ Failed(x)
  /\ engine' = IF HasEngine /\ at = "EXCHANGE_98" /\ at' # "Failed"
               THEN [engine EXCEPT !.armed = TRUE] ELSE engine

\* An undelivered request is answered 6F00.
Refused == pc = "refused" /\ Advance("bad", ble)

\* transceive, one message of its wait.  A late answer to an earlier request is
\* taken for the answer to this one.
Wait ==
  LET got == Received(ble)
      m == got.msg
      b == got.ble
  IN  /\ pc = "wait"
      /\ \/ /\ m.kind = "none"
            /\ Advance("bad", IF b.down \/ b.sec.aborted THEN CloseLink(b) ELSE b)
         \/ /\ m.kind = "AP_RS"
            /\ Advance(IF m.re # dev.asked /\ m.res = "ok" THEN "stray" ELSE m.res, b)
         \/ m.kind = "BadAp" /\ Advance("bad", b)
         \/ m.kind = "GeneralError" /\ Advance("bad", CloseLink(b))
         \/ /\ m.kind = "Busy"
            /\ ble' = b
            /\ UNCHANGED <<ladder, pc, dev, engine, log>>
         \/ /\ m.kind \in Notification \ {"BadAp", "GeneralError", "Busy"}
            /\ \/ /\ ble' = Park(b, m)
                  /\ UNCHANGED <<ladder, pc, dev, engine, log>>
               \/ \* responseTimeout is over by the next turn of the loop
                  Advance("bad", CloseLink(Park(b, m)))

-----------------------------------------------------------------------------
(***************************************************************************)
(* Serving after AP Completed.  Handle(m, b, go) is handle_post_ap of m    *)
(* with transport b, returning go.                                         *)
(***************************************************************************)
Pair(b) == [ble |-> b, dev |-> dev]

\* What the engine does when it is given a frame or polled: start or stop
\* ranging, or send a frame - possibly one that is all header.
EngineActs(b) ==
  \/ /\ Put(Pair(b))
     /\ \E a \in {FALSE, engine.armed} : engine' = [engine EXCEPT !.active = a]
  \/ /\ engine.sent < MaxFrames
     /\ \E empty \in BOOLEAN : Put(Sent(Pair(b), "UwbFrame", empty))
     /\ engine' = [engine EXCEPT !.sent = @ + 1]

\* handle_rke_request: malformed, or told to the device, which needs the window.
HandleRke(b, go) ==
  \/ Put(Pair(b)) /\ go
  \/ ~b.sec.secured /\ Put(Pair(b)) /\ ~go
  \/ /\ b.sec.secured
     /\ Put(Sent(Pair(b), "StatusChanged", FALSE))
     /\ go = SendOk(b, "StatusChanged", FALSE)

Dispatch(m, b, go) ==
  /\ UNCHANGED engine
  /\ \/ /\ m.kind = "GeneralError"
        /\ Put(Pair(b)) /\ ~go
     \/ m.kind = "RkeRequest" /\ BleOnly /\ HandleRke(b, go)
     \/ /\ m.kind = "Ranging" /\ config.ursk
        /\ Put(Sent(Pair(b), "GeneralError", FALSE)) /\ ~go
     \/ \* ignored
        /\ m.kind # "GeneralError" /\ ~(m.kind = "Ranging" /\ config.ursk)
        /\ ~(m.kind = "RkeRequest" /\ BleOnly)
        /\ Put(Pair(b)) /\ go

\* Frames for ranging go to the engine, if there is one.  The application is only
\* called back for a time synchronisation.
Handle(m, b, go) ==
  LET routed == HasEngine /\ m.kind \in {"UwbFrame", "Ranging", "TimeSync"}
  IN  /\ IF routed THEN EngineActs(b) /\ go ELSE Dispatch(m, b, go)
      /\ log' = IF m.kind = "AP_RS" THEN log
                ELSE [log EXCEPT !.last = m.n, !.misordered = @ \/ m.n <= log.last]

\* Faulty: the rest go with the first, whatever becomes of it.
DrainFirst ==
  LET m == Head(ble.deferred)
  IN  /\ pc = "serve"
      /\ ble.deferred # <<>>
      /\ \E go \in BOOLEAN : Handle(m, [ble EXCEPT !.deferred = <<>>], go)
      /\ UNCHANGED <<ladder, pc>>

\* Messages parked during the ladder come first.  One that asks to end makes
\* the rest of them go, and the loop starts all the same.
Drain ==
  LET m == Head(ble.deferred)
  IN  /\ pc = "serve"
      /\ ble.deferred # <<>>
      /\ \/ Handle(m, [ble EXCEPT !.deferred = Tail(@)], TRUE)
         \/ Handle(m, [ble EXCEPT !.deferred = <<>>], FALSE)
      /\ UNCHANGED <<ladder, pc>>

\* Faulty: an engine armed for a device that never ranged is left armed.
StoppedIfActive ==
  IF HasEngine /\ engine.active
  THEN [engine EXCEPT !.armed = FALSE, !.active = FALSE] ELSE engine

\* The loop ends, by its condition, idleness or a message.  The engine is
\* stopped; the link is left as it is.
StoppedEngine ==
  IF HasEngine THEN [engine EXCEPT !.armed = FALSE, !.active = FALSE] ELSE engine

Ended == ble.down \/ ble.sec.aborted

LoopEnds ==
  /\ pc = "serve" /\ ble.deferred = <<>> /\ Ended
  /\ pc' = "returned" /\ engine' = StoppedEngine
  /\ UNCHANGED <<ladder, ble, dev, log>>

\* Faulty: an engine that is armed, ranging or not, holds the link open.
IdleExpiresUnarmed ==
  /\ pc = "serve" /\ ble.deferred = <<>> /\ ~Ended
  /\ ~(HasEngine /\ engine.armed)
  /\ pc' = "returned" /\ engine' = StoppedEngine
  /\ UNCHANGED <<ladder, ble, dev, log>>

\* Faulty: a live ranging session does not hold the link open.
IdleExpiresAlways ==
  /\ pc = "serve" /\ ble.deferred = <<>> /\ ~Ended
  /\ pc' = "returned" /\ engine' = StoppedEngine
  /\ UNCHANGED <<ladder, ble, dev, log>>

\* post_ap_idle_ms without a message; a live ranging session pushes it out.
IdleExpires ==
  /\ pc = "serve" /\ ble.deferred = <<>> /\ ~Ended
  /\ ~(HasEngine /\ engine.active)
  /\ pc' = "returned" /\ engine' = StoppedEngine
  /\ UNCHANGED <<ladder, ble, dev, log>>

Poll ==
  /\ pc = "serve" /\ ble.deferred = <<>> /\ ~Ended
  /\ pc' = "listen"
  /\ IF HasEngine THEN EngineActs(ble) ELSE UNCHANGED <<ble, dev, engine>>
  /\ UNCHANGED <<ladder, log>>

\* The end by a message, in two halves: it is handled, then the engine stopped.
Listen ==
  LET got == Received(ble)
  IN  /\ pc = "listen"
      /\ \/ /\ got.msg.kind = "none"
            /\ ble' = got.ble /\ pc' = "serve"
            /\ UNCHANGED <<dev, engine, log>>
         \/ /\ got.msg.kind # "none"
            /\ \/ Handle(got.msg, got.ble, TRUE) /\ pc' = "serve"
               \/ Handle(got.msg, got.ble, FALSE) /\ pc' = "stop"
      /\ UNCHANGED ladder

Stop ==
  /\ pc = "stop"
  /\ pc' = "returned" /\ engine' = StoppedEngine
  /\ UNCHANGED <<ladder, ble, dev, log>>

Reader ==
  \/ EstablishFails \/ Establish
  \/ Refused \/ Wait
  \/ Drain \/ LoopEnds \/ IdleExpires \/ Poll \/ Listen \/ Stop

-----------------------------------------------------------------------------
(***************************************************************************)
(* The user device and the link (external).  A message travels in an SDU   *)
(* of its own or with the one before it.                                   *)
(***************************************************************************)
Deliver(m) ==
  /\ ble.up
  /\ \/ ble' = [ble EXCEPT !.inbox = Append(@, <<m>>)]
     \/ /\ ble.inbox # <<>> /\ Len(Last(ble.inbox)) < MaxPacked
        /\ ble' = [ble EXCEPT !.inbox = Append(Front(@), Append(Last(@), m))]

\* Answers may be late, and requests left unanswered.
DeviceAnswers ==
  \E i \in DOMAIN dev.pending, res \in DeviceResults :
    /\ dev.pending[i] <= MaxAnswers
    /\ Deliver([kind |-> "AP_RS", c |-> Clear, re |-> dev.pending[i], res |-> res])
    /\ dev' = [dev EXCEPT !.pending = SubSeq(@, i + 1, Len(@))]
    /\ UNCHANGED <<ladder, pc, engine, log>>

DeviceNotifies(kind) ==
  LET ap == IsAp(kind)
  IN  /\ dev.sent < MaxDeviceMsgs
      /\ ~dev.sec.aborted
      /\ Deliver([kind |-> kind, c |-> SealedUnder(dev.sec, "device", ap),
                  n |-> dev.sent + 1])
      /\ dev' = [dev EXCEPT !.sent = @ + 1,
                            !.sec = AfterSeal(@, "device", ap, FALSE)]
      /\ UNCHANGED <<ladder, pc, engine, log>>

LinkLost ==
  /\ ble.up
  /\ \E inbox \in {ble.inbox, <<>>} :
       ble' = [ble EXCEPT !.up = FALSE, !.full = FALSE, !.inbox = inbox]
  /\ UNCHANGED <<ladder, pc, dev, engine, log>>

\* The link stops taking SDUs, its queue full, or takes them again.
Backpressure ==
  /\ ble.up
  /\ ble' = [ble EXCEPT !.full = ~@]
  /\ UNCHANGED <<ladder, pc, dev, engine, log>>

World ==
  /\ pc # "returned"
  /\ \/ DeviceAnswers
     \/ \E kind \in DeviceKinds : DeviceNotifies(kind)
     \/ LinkLost
     \/ Backpressure

FlowNext == Reader \/ World

\* The reader's thread runs, and time passes: every wait is bounded, and a loop
\* that is neither fed nor held open by ranging sees its idle deadline go by.
FlowFairness == WF_vars(Reader) /\ (SF_vars(IdleExpires) \/ []<>engine.active)

FlowSpec == FlowInit /\ [][FlowNext]_vars /\ FlowFairness

-----------------------------------------------------------------------------
DeviceMessage ==
  [kind : {"AP_RS"}, c : {Clear}, re : Nat, res : DeviceResults]
    \union [kind : Notification, c : Nat, n : 1 .. MaxDeviceMsgs]

FlowTypeOK ==
  /\ TypeOK
  /\ pc \in Pc
  /\ ble.up \in BOOLEAN /\ ble.full \in BOOLEAN
  /\ ble.down \in BOOLEAN /\ ble.active \in BOOLEAN
  /\ ble.sec \in SecurityState /\ (ble.active \/ ble.sec = FreshSecurity)
  /\ \A i \in DOMAIN ble.inbox : ble.inbox[i] \in Seq(DeviceMessage)
  /\ ble.rx \in Seq(DeviceMessage) /\ ble.deferred \in Seq(DeviceMessage)
  /\ dev.sec \in SecurityState

(***************************************************************************)
(* Unsolicited messages are handled in the order the device sent them and  *)
(* each at most once, whether they came during the ladder, in the SDU of   *)
(* an AP_RS, or later (BleChannel.cpp:87, BleFlow.cpp:416-421,436-450).    *)
(***************************************************************************)
HandledInOrder == ~log.misordered

(***************************************************************************)
(* With nothing under way both ends expect the same counters, so the next  *)
(* message of either opens at the other (BleTransport.cpp:30-54,69-119),   *)
(* for as long as the reader takes the link to be up: an SDU that a live   *)
(* link refuses has used a counter, and must be the last it relies on.     *)
(***************************************************************************)
InStep ==
  /\ ble.up /\ ~ble.down /\ ble.inbox = <<>> /\ ble.sec.secured
  /\ ~ble.sec.aborted /\ ~dev.sec.aborted
  => ble.sec = dev.sec

(***************************************************************************)
(* A ranging engine that was armed is stopped when run() returns, however  *)
(* the session ended (BleFlow.cpp:171-175,452).                            *)
(***************************************************************************)
EngineStopped == pc = "returned" => ~engine.armed /\ ~engine.active

(***************************************************************************)
(* A live ranging session holds the connection open: only a link that is   *)
(* lost or refused an SDU, the end of message security, or a General Error *)
(* ends it (BleFlow.cpp:427-437, BleTransport.cpp:22-26).                  *)
(***************************************************************************)
GotGeneralError == pc = "listen" /\ Received(ble).msg.kind = "GeneralError"

RangingHolds ==
  [][engine.active /\ pc \in {"serve", "listen"} /\ pc' \in {"returned", "stop"}
     => ~ble'.up \/ ble'.down \/ ble'.sec.aborted \/ GotGeneralError]_vars

(***************************************************************************)
(* After AP Completed everything is BleSK-encrypted (BleFlow.cpp:111-112). *)
(***************************************************************************)
CompletionSealed == pc \in {"serve", "listen", "stop"} => ble.sec.secured

(***************************************************************************)
(* Failures end with a General Error event (BleProfile.h:8-9): a ladder    *)
(* that fails on an answer of the device, over a link that takes messages, *)
(* does not return without the device having got one.                      *)
(***************************************************************************)
FailureHeard ==
  [][/\ pc = "wait" /\ pc' = "returned" /\ Received(ble).msg.kind = "AP_RS"
     /\ ble.up /\ ~ble.full
     => log'.events > log.events]_vars

(***************************************************************************)
(* When the responseTimeout expires the connection is torn down: the       *)
(* device hears no further request (BleChannel.h:10-11).                   *)
(***************************************************************************)
NoRequestAfterExpiry ==
  [][pc = "wait" /\ Received(ble).msg = NoMessage => dev'.asked = dev.asked]_vars

(***************************************************************************)
(* Until step-up, every answer that has arrived or is queued is to the     *)
(* outstanding request: transceive does not correlate them, so a request   *)
(* given up on must end the ladder (BleChannel.cpp:47-68).                 *)
(***************************************************************************)
AnswersCurrent ==
  at \in {"AUTH0", "AUTH1", "EXCHANGE_98"} =>
    \A sdu \in Range(ble.inbox) \union {ble.rx} : \A m \in Range(sdu) :
      m.kind = "AP_RS" => m.re = dev.asked

(***************************************************************************)
(* When message security has been aborted, by a counter at its limit as by *)
(* a tag that fails, the connection is torn down before run() returns      *)
(* (BleMessageSecurity.h:17-18).                                           *)
(***************************************************************************)
AbortTearsDown == pc = "returned" /\ ble.sec.aborted => ~ble.up

(***************************************************************************)
(* The messages parked behind one are dropped with it only when the link   *)
(* or message security is gone, when the answer to it was refused by the   *)
(* link, or when it asks for ranging and there is no engine                *)
(* (BleFlow.cpp:416-421).                                                  *)
(***************************************************************************)
ParkedKept ==
  [][pc = "serve" /\ Len(ble'.deferred) < Len(ble.deferred) - 1
     => \/ ~ble'.up \/ ble'.down \/ ble'.sec.aborted \/ ~ble.sec.secured
        \/ ~HasEngine /\ Head(ble.deferred).kind = "Ranging"]_vars

(***************************************************************************)
(* run() returns, or a ranging session is live.                            *)
(***************************************************************************)
Terminates == pc # "returned" ~> pc = "returned" \/ engine.active
=============================================================================
