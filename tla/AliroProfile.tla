---------------------------- MODULE AliroProfile ----------------------------
(***************************************************************************)
(* The Aliro access ladder (AUTH0, AUTH1, step-up, completion) and what it *)
(* does to the credential store, over NFC and, with the BLE profile's      *)
(* hooks, over BLE.  One action per response of the user device, taking    *)
(* the ladder to its next request.  Transactions follow one another on one *)
(* store; power may be lost in any of them.                                *)
(*                                                                         *)
(* Cryptography is the choice of its result: whether an answer opens, what *)
(* it proves, and for whom.  An endpoint is its public key (its identifier *)
(* is a hash of that) and whether a persistent key is stored with it.      *)
(***************************************************************************)
EXTENDS Naturals, Sequences

CONSTANTS
  NumIssuers,     \* issuers in the store, in its order
  Devices,        \* public keys of user devices
  Configs,        \* reader configurations, see Config
  MaxEndpoints,   \* bound: endpoints enrolled per issuer
  MaxChunks,      \* bound: chunks of an ENVELOPE command
  MaxAssembled    \* kMaxPreChainingPayload, in response chunks

Issuers == 1 .. NumIssuers

\* ble: BLE transport, else NFC.  ursk: ble_uwb_flow_supported.
\* stepUpOnFail: step_up_standard_fail.
Config == [ble : BOOLEAN, ursk : BOOLEAN, stepUpOnFail : BOOLEAN]

ASSUME ConfigAssumption ==
  /\ NumIssuers \in Nat /\ MaxEndpoints \in Nat
  /\ MaxChunks \in Nat \ {0} /\ MaxAssembled \in Nat \ {0}
  /\ Configs \subseteq Config

VARIABLES
  config,         \* this transaction's configuration
  target,         \* target_flow
  at,             \* the request being answered, or where the ladder rests
  ctx,            \* the secure context: none, keyless, or its active channel
  flow,           \* flowUsed
  issuer,         \* foundIssuer, 0 for nullptr
  found,          \* foundEndpoint, as <<issuer, index>>
  mem, nvs,       \* the store: in memory, and as last saved
  chunks,         \* ENVELOPE chunks not yet answered
  assembled       \* response chunks collected by GET RESPONSE

ladder == <<config, target, at, ctx, flow, issuer, found, mem, nvs, chunks,
            assembled>>

Target == {"Fast", "Standard", "StepUp"}

Rest == {"Idle", "Done", "Failed"}

Request == {"AUTH0", "AUTH1", "EXCHANGE_98", "SELECT", "ENVELOPE",
            "GET_RESPONSE", "EXCHANGE_97", "CONTROL_FLOW"}

\* What a request comes back with: SW 9000, SW 61xx, any other outcome (no
\* answer included), or SW 9000 on content of no use to this request, such as
\* the late answer to another one.
Response == {"ok", "more", "bad", "stray"}

Endpoint == [pk : Devices, key : {"none", "set"}]

None == <<0, 0>>

Init ==
  /\ config \in Configs
  /\ target = "Fast"
  /\ at = "Idle"
  /\ ctx = "none"
  /\ flow = "Failed"
  /\ issuer = 0
  /\ found = None
  /\ mem \in [Issuers -> {<<>>} \union {<<[pk |-> d, key |-> k]>> :
                                         d \in Devices, k \in {"none", "set"}}]
  /\ nvs = mem
  /\ chunks = 0
  /\ assembled = 0

-----------------------------------------------------------------------------
\* The positions in the store that hold an endpoint, and the first of them, in
\* store order, that a public key matches.
Slots == {s \in Issuers \X (1 .. MaxEndpoints) : s[2] \in DOMAIN mem[s[1]]}

At(slot) == mem[slot[1]][slot[2]]

Before(s, t) == s[1] < t[1] \/ (s[1] = t[1] /\ s[2] < t[2])

Matches(d) == {s \in Slots : At(s).pk = d}

\* Faulty: the last endpoint that matches, not the first.
IsLastMatch(s, d) ==
  s \in Matches(d) /\ \A t \in Matches(d) : t = s \/ Before(t, s)

IsFirstMatch(s, d) ==
  s \in Matches(d) /\ \A t \in Matches(d) : t = s \/ Before(s, t)

\* The store with a persistent key at slot s, and with a new endpoint for d.
Rekeyed(store, s) == [store EXCEPT ![s[1]][s[2]].key = "set"]

Enrolled(store, j, d) ==
  [store EXCEPT ![j] = Append(@, [pk |-> d, key |-> "set"])]

\* exchange() finds an active channel.
ChannelActive(c) == c \in {"exchange", "stepup"}

\* on_auth_success: over BLE+UWB it offers the URSK, in an EXCHANGE.
OffersUrsk == config.ble /\ config.ursk

-----------------------------------------------------------------------------
\* complete, with the result already decided: a 0x97 EXCHANGE and CONTROL FLOW
\* over NFC; over BLE the AP Completed and General Error notifications, with an
\* EXCHANGE for a failure only.
Complete(success, c) ==
  at' = IF config.ble /\ success THEN "Done"
        ELSE IF ChannelActive(c) THEN "EXCHANGE_97"
        ELSE IF config.ble THEN "Failed" ELSE "CONTROL_FLOW"

Outcome == IF flow = "Failed" THEN "Failed" ELSE "Done"

\* Faulty: what step-up changed in the store is not saved.
SettleUnsaved(i, s, f, store, c) ==
  /\ issuer' = i /\ found' = s /\ flow' = f /\ mem' = store /\ ctx' = c
  /\ nvs' = IF f = "Standard" THEN store ELSE nvs
  /\ Complete(f # "Failed", c)
  /\ UNCHANGED <<config, target>>
  /\ chunks' = 0 /\ assembled' = 0

\* The end of step(): save what a standard or step-up flow changed, complete.
Settle(i, s, f, store, c) ==
  /\ issuer' = i /\ found' = s /\ flow' = f /\ mem' = store /\ ctx' = c
  /\ nvs' = IF f \in {"Standard", "Attestation"} THEN store ELSE nvs
  /\ Complete(f # "Failed", c)
  /\ UNCHANGED <<config, target>>
  /\ chunks' = 0 /\ assembled' = 0

\* After AUTH1, with result (i, s, f) so far and the store as it then is: step
\* up when that is configured and there are documents to ask for.
AfterAuth1(i, s, f, store, c) ==
  \/ Settle(i, s, f, store, c)
  \/ /\ config.stepUpOnFail \/ target = "StepUp"
     /\ issuer' = i /\ found' = s /\ flow' = f /\ mem' = store
     /\ \/ at' = "SELECT" /\ ctx' = c
        \/ at' = "ENVELOPE" /\ ctx' = "stepup"
     /\ chunks' \in 1 .. MaxChunks
     /\ UNCHANGED <<config, target, nvs, assembled>>

-----------------------------------------------------------------------------
FreshSession ==
  /\ ctx' = "none" /\ flow' = "Failed" /\ issuer' = 0 /\ found' = None
  /\ chunks' = 0 /\ assembled' = 0

Begin(t) ==
  /\ at \in Rest
  /\ at' = "AUTH0"
  /\ target' = t
  /\ FreshSession
  /\ UNCHANGED <<config, mem, nvs>>

\* An endpoint is authenticated; its key is stored once the URSK, if one is to
\* be offered, is accepted.
Authenticated(s, f) ==
  IF OffersUrsk
  THEN /\ at' = "EXCHANGE_98"
       /\ ctx' = "exchange" /\ flow' = f /\ issuer' = s[1] /\ found' = s
       /\ UNCHANGED <<config, target, mem, nvs, chunks, assembled>>
  ELSE IF f = "Fast"
       THEN Settle(s[1], s, f, mem, "exchange")
       ELSE AfterAuth1(s[1], s, f, Rekeyed(mem, s), "exchange")

\* Faulty: AUTH1 is tried although AUTH0 went unanswered.
Auth0FallsBack(r) ==
  /\ at = "AUTH0"
  /\ at' = "AUTH1"
  /\ UNCHANGED <<config, target, ctx, flow, issuer, found, mem, nvs,
                 chunks, assembled>>

Auth0(r) ==
  /\ at = "AUTH0"
  /\ \/ /\ r = "ok"
        /\ at' = "AUTH1"
        /\ UNCHANGED <<config, target, ctx, flow, issuer, found, mem, nvs,
                       chunks, assembled>>
     \/ /\ r = "ok" /\ target = "Fast"
        /\ \E s \in Slots : At(s).key = "set" /\ Authenticated(s, "Fast")
     \/ \* a malformed answer, whatever its SW: control_flow, no context
        /\ at' = IF config.ble THEN "Failed" ELSE "CONTROL_FLOW"
        /\ UNCHANGED <<config, target, ctx, flow, issuer, found, mem, nvs,
                       chunks, assembled>>

\* Faulty: an AUTH1 that fails starts over with AUTH0.
Auth1StartsOver(r) ==
  /\ at = "AUTH1"
  /\ \/ /\ at' = "AUTH0" /\ ctx' = "keyless"
        /\ UNCHANGED <<config, target, flow, issuer, found, mem, nvs, chunks,
                       assembled>>
     \/ /\ r = "ok"
        /\ \E d \in Devices, s \in Slots :
             IsFirstMatch(s, d) /\ Authenticated(s, "Standard")

Auth1(r) ==
  /\ at = "AUTH1"
  /\ \/ AfterAuth1(0, None, "Failed", mem, "keyless")   \* nothing decrypted
     \/ /\ r = "ok"
        /\ \/ AfterAuth1(0, None, "Failed", mem, "exchange")  \* no valid proof
           \/ \E d \in Devices, s \in Slots :
                IsFirstMatch(s, d) /\ Authenticated(s, "Standard")

\* Faulty: an offer that was not answered counts as accepted.
Exchange98Unanswered(r) ==
  /\ at = "EXCHANGE_98"
  /\ IF flow = "Fast"
     THEN Settle(issuer, found, flow, mem, ctx)
     ELSE AfterAuth1(issuer, found, flow, Rekeyed(mem, found), ctx)

\* Faulty: 61xx counts as acceptance, as it does in complete().
Exchange98TakesMore(r) ==
  /\ at = "EXCHANGE_98"
  /\ IF r # "bad"
     THEN IF flow = "Fast"
          THEN Settle(issuer, found, flow, mem, ctx)
          ELSE AfterAuth1(issuer, found, flow, Rekeyed(mem, found), ctx)
     ELSE /\ at' = "Failed"
          /\ UNCHANGED <<config, target, ctx, flow, issuer, found, mem, nvs,
                         chunks, assembled>>

\* offer_ursk: a refusal fails the transaction with nothing sent or stored.
Exchange98(r) ==
  /\ at = "EXCHANGE_98"
  /\ \/ /\ r \in {"ok", "stray"}
        /\ IF flow = "Fast"
           THEN Settle(issuer, found, flow, mem, ctx)
           ELSE AfterAuth1(issuer, found, flow, Rekeyed(mem, found), ctx)
     \/ /\ r \in {"bad", "more"}
        /\ at' = "Failed"
        /\ UNCHANGED <<config, target, ctx, flow, issuer, found, mem, nvs,
                       chunks, assembled>>

\* The answer to the step-up SELECT is not looked at.
Select ==
  /\ at = "SELECT"
  /\ at' = "ENVELOPE" /\ ctx' = "stepup"
  /\ UNCHANGED <<config, target, flow, issuer, found, mem, nvs, chunks, assembled>>

\* What the ladder had before step-up stands.
StepUpFails == Settle(issuer, found, flow, mem, ctx)

\* A document of issuer j for the key of d.  An endpoint found by AUTH1 keeps
\* its identity; otherwise d is enrolled under j.
StepUpSucceeds ==
  \E j \in Issuers, d \in Devices :
    IF found = None
    THEN /\ Len(mem[j]) < MaxEndpoints
         /\ Settle(j, <<j, Len(mem[j]) + 1>>, "Attestation",
                   Enrolled(mem, j, d), ctx)
    ELSE Settle(j, found, "Attestation", Rekeyed(mem, found), ctx)

\* An ENVELOPE chunk: one before the last needs SW 9000, its content is ignored.
Envelope(r) ==
  /\ at = "ENVELOPE"
  /\ \/ /\ chunks > 1 /\ r \in {"ok", "stray"}
        /\ chunks' = chunks - 1
        /\ UNCHANGED <<config, target, at, ctx, flow, issuer, found, mem, nvs,
                       assembled>>
     \/ /\ chunks > 1 /\ r \in {"bad", "more"} /\ StepUpFails
     \/ /\ chunks = 1 /\ r = "more"
        /\ at' = "GET_RESPONSE" /\ assembled' \in {0, 1}
        /\ UNCHANGED <<config, target, ctx, flow, issuer, found, mem, nvs, chunks>>
     \/ chunks = 1 /\ r # "more" /\ StepUpFails
     \/ chunks = 1 /\ r = "ok" /\ StepUpSucceeds

\* Faulty: the assembly limit is one chunk too high.
GetResponseOverLimit(r) ==
  /\ at = "GET_RESPONSE"
  /\ \/ /\ r = "more" /\ assembled <= MaxAssembled
        /\ assembled' = assembled + 1
        /\ UNCHANGED <<config, target, at, ctx, flow, issuer, found, mem, nvs,
                       chunks>>
     \/ r = "more" /\ assembled > MaxAssembled /\ StepUpFails
     \/ r # "more" /\ StepUpFails
     \/ r = "ok" /\ StepUpSucceeds

\* GET RESPONSE goes on while there is more, up to the assembly limit.  An
\* empty 61xx answer counts nothing, and the next GET RESPONSE follows.
GetResponse(r) ==
  /\ at = "GET_RESPONSE"
  /\ \/ /\ r = "more" /\ assembled < MaxAssembled
        /\ assembled' = assembled + 1
        /\ UNCHANGED <<config, target, at, ctx, flow, issuer, found, mem, nvs,
                       chunks>>
     \/ r = "more" /\ UNCHANGED ladder
     \/ r = "more" /\ assembled >= MaxAssembled /\ StepUpFails
     \/ r # "more" /\ StepUpFails
     \/ r = "ok" /\ StepUpSucceeds

\* Faulty: a result that is not delivered is a failure.
Exchange97Decides(r) ==
  /\ at = "EXCHANGE_97"
  /\ at' = IF r = "bad" THEN "Failed" ELSE Outcome
  /\ UNCHANGED <<config, target, ctx, flow, issuer, found, mem, nvs, chunks,
                 assembled>>

\* Faulty: no CONTROL FLOW after a 0x97 EXCHANGE that failed.
Exchange97NoFallback(r) ==
  /\ at = "EXCHANGE_97"
  /\ at' = Outcome
  /\ UNCHANGED <<config, target, ctx, flow, issuer, found, mem, nvs, chunks,
                 assembled>>

\* complete(): what was decided stands, delivered or not.
Exchange97(r) ==
  /\ at = "EXCHANGE_97"
  /\ at' = IF config.ble \/ r # "bad" THEN Outcome ELSE "CONTROL_FLOW"
  /\ UNCHANGED <<config, target, ctx, flow, issuer, found, mem, nvs, chunks,
                 assembled>>

ControlFlow ==
  /\ at = "CONTROL_FLOW"
  /\ at' = Outcome
  /\ UNCHANGED <<config, target, ctx, flow, issuer, found, mem, nvs, chunks,
                 assembled>>

\* Power loss: memory is read back from what was last saved.
Crash ==
  /\ at' = "Idle"
  /\ FreshSession
  /\ mem' = nvs
  /\ UNCHANGED <<config, target, nvs>>

\* The response to the outstanding request.
Respond(r) ==
  \/ Auth0(r)
  \/ Auth1(r)
  \/ Exchange98(r)
  \/ Select
  \/ Envelope(r)
  \/ GetResponse(r)
  \/ Exchange97(r)
  \/ ControlFlow

Next ==
  \/ \E t \in Target : Begin(t)
  \/ \E r \in Response : Respond(r)
  \/ Crash

\* Each request is answered or times out.  Nothing is assumed of GET RESPONSE:
\* empty 61xx answers, steps that change nothing, may keep it going for ever.
Fairness ==
  WF_ladder(at # "GET_RESPONSE" /\ \E r \in Response : Respond(r))

Spec == Init /\ [][Next]_ladder /\ Fairness

-----------------------------------------------------------------------------
TypeOK ==
  /\ config \in Configs
  /\ target \in Target
  /\ at \in Rest \union Request
  /\ ctx \in {"none", "keyless", "exchange", "stepup"}
  /\ flow \in {"Failed", "Fast", "Standard", "Attestation"}
  /\ issuer \in Issuers \union {0}
  /\ found \in Slots \union {None}
  /\ mem \in [Issuers -> Seq(Endpoint)]
  /\ nvs \in [Issuers -> Seq(Endpoint)]
  /\ chunks \in 0 .. MaxChunks
  /\ assembled \in 0 .. MaxAssembled

(***************************************************************************)
(* What a transaction changed in the store is saved by the time step()     *)
(* returns (Profile.cpp:263-265), whichever way the ladder went: a reader  *)
(* at rest has nothing to lose to a power cut.                             *)
(***************************************************************************)
StoreDurable == at \in Rest => mem = nvs

(***************************************************************************)
(* finalize looks the result up again, by issuer and endpoint identifier   *)
(* (Profile.cpp:310-322).  Whoever is let in has an entry with a key.      *)
(* Only step-up may go by another issuer than that of the entry; otherwise *)
(* the outcome names the device that was authenticated, after a standard   *)
(* flow the very entry that got the new key.                               *)
(***************************************************************************)
Named ==
  LET same == {s \in Matches(At(found).pk) : s[1] = issuer}
  IN  IF same = {} THEN None
      ELSE CHOOSE s \in same : \A t \in same : t = s \/ Before(s, t)

OutcomeNamesDevice ==
  at = "Done" =>
    /\ found \in Slots /\ At(found).key = "set"
    /\ issuer = found[1] \/ flow = "Attestation"
    /\ issuer = found[1] => Named # None /\ At(Named).pk = At(found).pk
    /\ flow = "Standard" => Named = found

(***************************************************************************)
(* The ladder implements the abstract transaction: one decision, the saved *)
(* store changed by a grant alone and by one endpoint at most, the result  *)
(* the decision's however its delivery goes.                               *)
(***************************************************************************)
Decision ==
  IF at = "Idle" THEN "none"
  ELSE IF at = "Done" THEN "done"
  ELSE IF at = "Failed" THEN "failed"
  ELSE IF at \notin {"EXCHANGE_97", "CONTROL_FLOW"} THEN "pending"
  ELSE IF flow = "Failed" THEN "refused" ELSE "granted"

Transaction == INSTANCE AccessTransaction
  WITH decision <- Decision, store <- nvs, DeliveryDecides <- FALSE

TransactionSpec == Transaction!Spec

(***************************************************************************)
(* A transaction ends, or is for ever at GET RESPONSE: the one loop of the *)
(* ladder has no bound but the size of what it has collected, which empty  *)
(* 61xx answers do not increase (ApduChaining.h:67-90).                    *)
(***************************************************************************)
TransactionEnds == at = "AUTH0" ~> (at \in Rest \/ [](at = "GET_RESPONSE"))
=============================================================================
