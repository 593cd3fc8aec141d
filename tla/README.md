# DigitalDoorKey: specifications

TLA+ specifications of the reader side of DigitalDoorKey, a C++ library that speaks two
access protocols with a user's phone: Aliro (over NFC, and over BLE with a seam for UWB
ranging) and Apple HomeKey (over NFC, with provisioning over HAP). One of the two stacks is
compiled into a build. Paths below are relative to the root of the repository.

- [Inventory](#inventory)
- [Modules](#modules)
- [How the models correspond to the code](#how-the-models-correspond-to-the-code)
- [Properties and runs](#properties-and-runs)
- [Disagreements found](#disagreements-found)
- [Bounds](#bounds)
- [Fairness](#fairness)
- [Proofs](#proofs)
- [Not modelled](#not-modelled)
- [Plan](#plan)

## Inventory

| Component | State | Operations | Interacts with | What makes it correct |
|---|---|---|---|---|
| BleSK message security (`BleMessageSecurity`, `GcmSecureChannel`) | window flag, abort latch, two message counters | `seal`, `unseal`, `set_secured` | owned by the transport; mirrored on the device | no nonce twice; limit respected; what is accepted is a prefix of what was sent; abort is final |
| BLE transport (`AliroBleTransport`) | `security_`, `rx_`, `deferred_`, `link_down_` | `send`, `receive`, `pump`, `activate_message_security`, `close_link` | BleLink below; BleChannel and BleFlow above | messages delivered in order, both ends' counters in step, teardown on failure |
| BLE APDU channel (`BleChannel`) | none of its own | `transceive` | transport; ladder | an answer belongs to its request; responseTimeout tears down; other messages are parked, not lost |
| BLE flow (`BleFlow`) | transaction flags, session, profile | `run` (establish, ladder, post-AP loop), `notify_status` | all of the above, the ranging engine, application callbacks | after AP Completed everything is sealed; a failure reaches the device; the engine is stopped; `run` returns |
| Aliro ladder (`aliro::Profile`, `BleProfile`, `AliroFastAuth`, `AliroStdAuth`, `AliroStepUp`) | `ran_`, `result_`, session context, persistent keys in the store | `step`, `complete`, `finalize`, `control_flow` | APDU channel, credential store | one decision per transaction; the saved store changes by a grant alone; outcome names who was authenticated |
| APDU chaining (`ApduChaining.h`) | none between calls | `transceive_with_chaining` | any APDU channel | follows 61xx up; respects the assembly limit |
| Aliro secure context (`AliroSecureContext`) | exchange and step-up channels, active channel | `exchange`, `envelope` | APDU channel | uses the active channel; counters of both ends in step |
| Session | transcript, config, context | constructor, accessors | ladder | lives as long as the store it points into |
| HomeKey ladder (`homekey::Profile`, `HKFastAuth`, `HKStandardAuth`, `AttestationAuth`) | as the Aliro ladder | `step`, `finalize` | APDU channel, store | as the Aliro ladder |
| HomeKey channels (`ScbSecureChannel`, `ISO18013SecureContext`) | counters | encrypt, decrypt | ladder | counters of both ends in step |
| HAP provisioning (`HK_HomeKit`) | a static mutex; the store | add and remove device credentials, set and remove the reader key | store, from another thread than a transaction | answers match effects; no torn store |
| Codecs (`BleMessages`, `TLV8`, `BerTlv`, `ndef`, `CoseSign1`, `ApduCommand`) | none | encode, parse | everywhere | round trips; lengths in range |
| Key schedules, crypto wrappers, advertising, factories | none | pure functions | everywhere | agree with the device's (not a question for a model) |

`BleFlow` is single-threaded: `run()` and all callbacks execute on the caller's thread
(`include/ddk/aliro/BleFlow.h:52`). The concurrency is between that thread and the world:
the device sends whenever it likes, answers late or never, the link goes down between any
two steps, power goes at any moment. HAP provisioning does run on another thread than an NFC
transaction.

The behaviours that are hard: a message that crosses the switch from clear to sealed; one
that is sealed and then not sent; a late answer taken for the next one; messages in three
queues that must come out in one order; a ladder left by an early return in the middle; a
store changed in memory and saved later; a loop whose end depends on idleness, ranging, the
link and message security together. `PROJECT.json` lists each hazard at its line.

## Modules

| Module | Models |
|---|---|
| `BleMessageSecurity` | one end of message security as operators on a record; the counter limit is a constant |
| `SecureLink` | two such ends and the channel between them, one action per operation |
| `AuthenticatedStream` | abstract: two streams of which the other end accepts a prefix |
| `SecureLink_proofs` | the theorems about `SecureLink` |
| `AliroProfile` | the access ladder, over NFC and BLE, with the credential store and power loss |
| `AliroChannels` | extends `AliroProfile`: the expedited and the step-up channel at both ends, under each action of the ladder |
| `HomeKeyProfile` | the HomeKey ladder with the credential store and power loss |
| `HapProvisioning` | extends `HomeKeyProfile`: HomeKit requests between any two of its steps |
| `AccessTransaction` | abstract: one decision, its report, and what it may do to the saved store |
| `AliroProfile_proofs`, `HomeKeyProfile_proofs` | the theorems about the two ladders |
| `AliroChannels_proofs`, `HapProvisioning_proofs` | the theorems about their extensions, from the lemmas about the ladders |
| `BleTransport_proofs` | lemmas about the transport's operators |
| `BleFlow_proofs` | the theorems about the flow, from those lemmas and the ones about the ladder |
| `Codecs_proofs` | the theorems about the codecs, and the inductions on positions they rest on |
| `Octets` | byte strings with a byte of `Base` values, numbers in them, the answer of a parser |
| `Tlv`, `Ndef`, `Framing` | the codecs as pure operators: TLV8, BerTlv and the single-record writers; NDEF; APDU, chaining, BLE messages, padding |
| `Select` | what a reader takes from the answer to SELECT (`validate_select`, both stacks) and from the BLE initiation, over `Tlv` |
| `Codecs` | the codecs over every short input: the properties, and an APDU reader for reference |
| `BleTransport` | the transport and its link as operators on a record, over `BleMessageSecurity` |
| `BleFlow` | `run()`: composes `BleTransport` and the ladder (it extends `AliroProfile`) with the device, the link and the ranging engine |
| `MC*` | the instances TLC checks |

```
AuthenticatedStream <- refined by - SecureLink -+
                                                +- BleMessageSecurity
              BleFlow - BleTransport -----------+
                 |
                 +- AliroProfile -- refines ----+
                      |                         +-> AccessTransaction
                 AliroChannels                  |
                    HomeKeyProfile -- refines --+
                      |
                 HapProvisioning

Codecs - Select - Tlv - Octets
      \- Ndef, Framing -/
```

## How the models correspond to the code

**Message security.** The record `[secured, aborted, counter]` is the object's `secured_`,
`aborted_` and the two counters of its `GcmSecureChannel`. AES-GCM is reduced to what
matters to its users: a sealed payload carries the counter it was sealed under and opens
only where exactly that counter is expected. `seal` and `unseal` are pairs of operators, one
for whether they fail and one for the state they leave. As in the code, a failed `unseal`
leaves the counter, and the message that takes a counter past the limit still goes through
with the object aborted.

**Transport.** `send` seals, then checks the size, then looks at the link, in that order, so
a message that is too long has used up a counter. So has one that the link refuses, its own
queue full (`full`, which the world turns on and off, as `tests/harness/ble_loopback.cpp:31`
does): the transport then counts as down for good (`link_down_`) under a link that is up.
`receive` returns a queued message first,
also when the link is down; `pump` unseals an SDU message by message and, when one fails,
closes the link and leaves those before it queued.

**Ladder.** `at` is the request the ladder is waiting on, and each action takes the response
to it and does everything `step()` does up to its next request. A response is `ok` (SW
9000), `more` (61xx), `bad` (anything else, or none) or `stray` (SW 9000 with content that
is of no use to this request). What an answer proves, and for which endpoint, is a
nondeterministic choice, restricted as the code restricts it: a fast match needs a stored
key, a standard match is the first in store order, a step-up document names an issuer of the
store. `mem` and `nvs` are the store in memory and as last saved; `Crash` goes back to
`nvs`.

**Secure channels.** `AliroChannels` conjoins to each step of the ladder what it does to the
channels. `chan` has four counters per channel, two at each end; the ones of the reader move
where `GcmSecureChannel` moves them: with every command sealed, sent or not, and with every
answer that opens. A tag fails exactly when the counters differ, since the IV is the
counter. An answer that does not open is still taken by its status word, as in
`AliroSecureContext.cpp:50`, and an ENVELOPE is sealed whole before it is cut into chunks.
An EXCHANGE that is answered 61xx is not followed up and its answer not opened
(`AliroSecureContext.cpp:46`), sealed data or not: the counters then part, which is why
`ChannelsInStep` has to show that the ladder asks nothing more on that channel.
The device is not in this repository; what is assumed of it is that it answers 9000 or 61xx
only to a command it opened, and seals no empty answer. `faults` remembers whether a message
was lost, or an answer came late in place of another.

**HomeKey ladder.** As the Aliro ladder, with the differences of the code: FAST is tried on
the first rung only, a device that STANDARD does not know is asked for an attestation, which
enrols it, and CONTROL FLOW comes after the key was saved and decides what is reported.
`found` is the pointer `foundEndpoint`, as issuer and index. A key of an entry is absent,
the one its phone has (`shared`), or one it no longer has (`stale`): AUTH1 lets the phone
take a new one or not, whatever becomes of its answer. A response is `ok`, `more`, `bad`, or
`odd`: SW 9000 on content that is malformed or does not verify; an `odd` CONTROL FLOW or
SELECT is as good as `ok`, since nothing looks at its content.

**HomeKit provisioning.** Each request of `processResult` is an action, taken under the
static mutex and therefore whole. A transaction does not take the mutex: requests come
between any two of its steps, a step being what runs from one response to the next request.
`found` stays where it is when entries move, as an address does: after an erase it may be
another device's entry or past the end, after a reallocation it is index 0, which is no
entry, and what is read through it is arbitrary. `told` and `raced` are history: what
HomeKit was last told of one entry that is followed, and whether the list under `found`, or
an entry of the phone, was changed in this transaction. Two threads inside the store at the
same time are a data race, and not modelled.

**Codecs.** Each parser and writer is an operator on sequences of bytes, with its early
returns. A byte has `Base` values: the codecs depend on its width through the top bit, the
largest value and the widths of the length fields only, so all their boundaries are reached
with a byte of 16 values and strings of a few dozen bytes. Parsers with a cursor are
recursive functions of the position.

The two TLV parsers compare `pos + len` with the end of their buffer, a sum that wraps for a
length near `SIZE_MAX`; the check then passes and an inverted range is assigned, which is
undefined and most likely ends in an exception of the vector. `Top` is where sums wrap: a
record whose length does gets the value `Wild`, and the parser is not followed further.
Nothing is claimed of what is read then (`Defined`, `Readable`). One `Top` for all buffers
is a simplification: it depends on where a buffer lies, and the value of a record is copied
before it is parsed again. The theorems hold for every `Top`.

`Select` is written with these parsers; the tags it looks for are constants, since a byte of
16 values has no A5. The code that reads a device's proprietary information is there twice,
as it is in the repository: `NfcMaxCommand` and `FciBuffer` from `Profile.cpp`,
`BleMaxCommand` and `RewrapA5` from `BleFlow.cpp`. Nothing but `SelectAgrees` ties them.

**Flow.** `pc` is the place in `run()`. Each action is one pass of the loop that stands
there: one message waited for in `establish`, one in `transceive`, one parked message
drained, one receive of the post-AP loop. A step of the ladder, with the hooks it calls, is
part of the `Wait` action that received its response. What the reader sends reaches the
device at once; what the device sends waits in `inbox`, so that every delay the reader can
notice is a delay there. The device answers any request it heard, or skips some, at any
time, and sends other messages whenever it likes; it plays its own end of message security.

Timeouts are the freedom to take the timeout branch: a wait may end without a message
whenever there is none in the inbox, and an arriving message may be the last before the
deadline.

Definitions introduced by a comment "Faulty:" are not part of the specifications. They are
variants of the definition after them with a plausible mistake, kept to show that a property
does depend on it: with the variant in its place TLC reports the property violated
(`mutants` in `PROJECT.json`).

## Properties and runs

| Run | Checks | Distinct states |
|---|---|---|
| `secure_link` | `TypeOK`; `NoNonceReuse`; `CounterWithinLimit`; `AbortIsFinal`; `StreamSpec`: refines `AuthenticatedStream` | 388 k |
| `aliro_profile` | `TypeOK`; `StoreDurable`: at rest nothing is unsaved; `OutcomeNamesDevice`; `TransactionSpec`: refines `AccessTransaction`; `TransactionEnds`: a transaction ends, or the device answers GET RESPONSE with 61xx for ever; `ChannelsInStep`: without a fault no request follows on a channel out of step; `UrskHeard`: a grant over BLE means the offer of the URSK was opened; `DeviceTold`: over NFC the device learns the result | 815 k |
| `homekey_profile` | `TypeOK`; `StoreDurable`: at no request is anything unsaved; `OutcomeNamesDevice`; `RecoversKey`: a known phone gets in whatever became of its key; `TransactionSpec`; `TransactionEnds` | 137 k |
| `hap_provisioning` | `ToldTrue`: what HomeKit was told is what is saved; `OutcomeUnlessRaced`; `KeyGoesToPhone`: a new key goes to an entry of the phone in the field | 1.45 M |
| `codecs` | `TlvValuesSurvive`, `NdefSurvives`, `PaddingComesOff`: round trips; `TlvStable`, `NdefSurvives`, `SduAllOrNothing`: parsers on arbitrary bytes; `SelectAgrees`: the copies of the code for NFC and for BLE read the same from one device; `ApduReads`, `ChainingReassembles`: the reader of APDUs gets what was sent | 137 k |
| `ble_flow_uwb` | `HandledInOrder`; `InStep`: both ends expect the same counters; `EngineStopped`; `RangingHolds` | 2.3 M |
| `ble_flow_step_up` | `FlowTypeOK`; `AnswersCurrent`: before step-up no queued answer is to an older request | 4.6 M |
| `ble_flow_ends` | `CompletionSealed`; `ParkedKept`: what became of parked messages; `Terminates` | 251 k |

`CompletionSealed` holds with step-up off only, and `step_up_unsealed` shows the other side.
`InStep` is checked where every message fits the SDU; with one that does not the counters
part, and the next message aborts the session, which `SecureLink` covers: nothing wrong is
accepted. A message that a live link refuses parts them too, but the transport then counts
as down and opens nothing more: `InStep` is stated for as long as it does not.

A refused message takes the rest of the session along: the loop ends, parked messages are
dropped, and so is a live ranging session, under a link that is up. `RangingHolds` and
`ParkedKept` name this way out; the comment at `src/aliro/BleFlow.cpp:427-429` knows of link
loss and a General Error only. `run()` closes such a link when the ladder fails, not after
the loop.

`AnswersCurrent` is why a transport without request numbers is good enough on the ladder:
any request that is given up on ends it. It stops at step-up, whose requests do follow an
unanswered one. `UrskHeard` leaves out transactions with a late answer for the same reason:
one to an earlier request would count as acceptance of the offer. It says that there is no
other way, and the hazard itself is listed without a property.

`DeviceTold` is why `complete` falls back to CONTROL FLOW: a lost ENVELOPE, or a lost
answer, leaves the channel out of step, so that the device cannot open the result sealed on
it.

Three of the HomeKit properties hold only up to something the code lets happen, which
their statements name; those hazards are reached by the model and listed without a
property. A device provisioned between its AUTH1 and its attestation is enrolled a
second time, and a removal then removes the first entry only (`doubled`). A removal from
the list that `foundEndpoint` points into moves another device up to its address, which
then gets the key; and a removal of the very endpoint leaves a grant with an outcome
that names nobody (`raced`). A step-up or an attestation by another issuer than that of
the entry found leaves an outcome with an issuer and no endpoint, in both ladders: of it
`OutcomeNamesDevice` says that nothing else leads there, and that the device has an
entry all the same (in Aliro's ladder one with a key, whichever way it was let in).

## Disagreements found

Each is a run that must end in a violation; the shortest behaviours are a dozen steps or so.

| Run | What happens | What is said |
|---|---|---|
| `step_up_unsealed` | a device that failed AUTH1 and was enrolled by step-up gets AP Completed, and all that follows, in clear | everything from AP Completed on is encrypted (`src/aliro/BleFlow.cpp:111`) |
| `request_after_expiry` | an expired responseTimeout leaves the link open, and the ladder goes on to SELECT and ENVELOPE | timeout expiry forces teardown (`priv/BleChannel.h:10`) |
| `abort_left_up` | a message of the post-AP loop that takes the last counter aborts message security, and `run()` returns with the link up (`src/aliro/BleFlow.cpp:436`) | the owner must tear the connection down (`priv/BleMessageSecurity.h:17-18`) |
| `failure_unheard` | a refused URSK ends the ladder past `complete` and `control_flow`, and the link is closed without an event (`src/aliro/Profile.cpp:170,186`) | failures end with a General Error event (`priv/aliro/BleProfile.h:8-9`) |

More were met while reading, each in one place and plain without a run:

- Over BLE a grant goes to AP Completed at once, and the EXCHANGE 0x97 is sent for failures
  only (`src/aliro/BleProfile.cpp:12-15`); success is said to end with it
  (`priv/aliro/BleProfile.h:6-8`).
- Without an engine, a parked ranging request is declined and takes the parked messages
  behind it along (`src/aliro/BleFlow.cpp:420`), though the loop starts all the same; they
  are said never to be dropped (`priv/BleTransport.h:30`). `ParkedKept` names this case and
  shows that there is no other while the link is up, sealed and takes what it is given.
- A length near the top of `size_t` passes the check of the value's end
  (`src/utils/BerTlv.cpp:100`, `priv/TLV8.hpp:328`), which is there to refuse a value longer
  than what is left; `src/utils/ndef.cpp:134` compares with what is left instead.
- Without a ranging engine `on_time_sync` is called by `handle_post_ap` and again by
  `dispatch` (`src/aliro/BleFlow.cpp:399-402,387-388`); the test, whose rig attaches no
  engine, requires one call (`tests/aliro_ble_flow_test.cpp:230`).
- `TLV8::expect` and `get` find items after a failed parse: those before the error are kept
  (`priv/TLV8.hpp:276-361`, and so in `Tlv8Parse`); the comments promise nullptr and false
  (`priv/TLV8.hpp:95-97,107-108`).
- AP Completed carries StateUnknown (`src/aliro/BleFlow.cpp:117`); the test expects
  StateUnsecure (`tests/aliro_ble_flow_test.cpp:115`).

## Bounds

- `MaxCounter` 2 or 3 (3 where two sealed messages share an SDU) stands for 0xFFFF: small
  enough that the limit is reached, in either direction, with messages before and after it.
  The theorems hold for any value.
- `MaxSent` 3: a message before, at and after the limit in each direction.
- `NumIssuers` 2, `Devices` 2, `MaxEndpoints` 2 in the ladders: first and later match, one
  device enrolled twice, under one issuer or two. One of each in the flow, whose properties
  do not look at the store.
- `MaxChunks`, `MaxAssembled` 2: a chunk before the last, and the assembly limit reached and
  passed.
- `MaxDeviceMsgs` 4: an initiation and three more, which is enough for one message in each
  of the three queues. 3 in `ble_flow_ends`, where liveness is checked, and 2 with step-up,
  for which the ladder is longer.
  `MaxPacked` 2: an SDU with a message behind another. A message of AP kind that the reader
  does not expect is among those of `ble_flow_uwb`.
- `MaxAnswers` 4 or 6: the requests of the longest ladder of the run.
- `MaxFrames` 2: frames of the engine on both sides of the counter limit.
- `MaxChanges` 2 HomeKit requests that change the store: a removal and a provisioning, in
  either order, at different steps of one transaction or of two. `Targets` there are Fast
  and StepUp, which between them take every path. `Between`: from EXCHANGE until the
  attestation ends a transaction does not look at the store, so requests come at the first
  of these steps and not at each. `MaxAssembled` 1 there, 2 in `homekey_profile`.
- `Watched` is one entry, the second device list's; the properties say nothing of which one
  it is.
- Codecs: `Base` 16, `TagMod` 8, `LongWidth`, `WordBytes` 2, `BlockSize` 4, `MaxPayload` 40.
  `MaxInput` 6 bytes out of seven that are each a length, a tag and a header, among them 0,
  1, the byte below and at the top bit, and the largest: two records, nested and cut
  lengths. `Top` 250 of the 255 a length field of two bytes can say: lengths that wrap, and
  long ones that do not. Strings of zeros up to `MaxZeros` 48 pass every boundary of the
  lengths: 8, 15, 16, 30, 31, 32, 45. `Served` puts each input in every place of a device's
  proprietary information: the whole of it, a list of versions or the end of one, the
  extended information, and the chunk size in that.

Deadlock is checked for the ladders, which start over for ever. The inputs of the codecs end
at their bound. The link and the flow really stop: an aborted, closed link has nothing to
do, and `run()` returns.

## Fairness

The ladders: each outstanding request gets some response, since every transport bounds its
wait, and the ladder acts on it. GET RESPONSE is the one request that may be repeated
without end: a device that answers it with empty 61xx for ever is stopped by nothing in
`ApduChaining.h:67-90`. No fairness takes that away (`WF` of the steps from every other
request), so `TransactionEnds` says that a transaction ends or stays in this loop for ever.
With the channels (`ChannelFairness`) the response comes with its effect on them.

The flow: the reader's thread runs (`WF` of its actions: each receive has a timeout), and
the idle deadline, being a point in time, is reached unless the engine keeps ranging again
and again (`SF(IdleExpires) \/ []<>engine.active`). The device and the link, its refusals
included, are under no fairness at all.

## Proofs

`SecureLink_proofs` proves, for every `MaxCounter` and `Payload` and any number of messages:

| Theorem | States |
|---|---|
| `TypeCorrect` | `Spec => []TypeOK` |
| `NonceUnique` | `Spec => []NoNonceReuse` |
| `CounterLimited` | `Spec => []CounterWithinLimit` |
| `AbortFinal` | `Spec => AbortIsFinal` |
| `ImplementsStream` | `Spec => StreamSpec` |

The one assumption is `MaxCounterAssumption` (a positive number). The properties are not
inductive: a counter alone does not say what was sealed under earlier values. `IInv` adds
what ties the counters to the history: each counter is one more than the number of payloads
sealed or accepted in its direction and at most one past the limit (`CounterTracksHistory`),
the payload at a position was sealed under that position (`CounterIsPosition`), a sealed
payload on the wire is the one at its position (`WireMatchesHistory`), and what was accepted
is a prefix of what was protected (`AcceptedIsPrefix`). The proof shows `IInv` initially and
preserved by each action, then each property from `IInv`; the refinement maps `Send` to
`Protect` or a stutter and `Receive` to `Accept` or a stutter. Actions that do not touch a
counter are shared lemmas.

`AliroProfile_proofs` proves, for any number of issuers and devices, any set of
configurations and any bounds:

| Theorem | States |
|---|---|
| `TypeCorrect` | `Spec => []TypeOK` |
| `Durable` | `Spec => []StoreDurable` |
| `OutcomeNames` | `Spec => []OutcomeNamesDevice` |
| `ImplementsTransaction` | `Spec => TransactionSpec` |

The assumption is `ConfigAssumption` (the bounds are numbers, two of them positive, and the
configurations are records of flags). `StoreDurable` speaks of a reader at rest and says
nothing of a transaction under way, so `IInv` adds what the ladder has changed in memory and
not saved at each request: nothing, except in step-up after a standard flow, when it is
exactly the key of the endpoint found (`UnsavedIsOneKey`); that nobody is authenticated
before AUTH1 is answered or AUTH0 matched (`UndecidedBlank`); whom the URSK is offered to
(`OfferNamesEndpoint`); and that whatever ends in Done was granted. Each action is shown at
once to preserve `IInv` and to be a step or a stutter of the abstract transaction; all
actions that decide go through one lemma about `Settle`. The outcome needs one invariant
more, `FoundStays`: the endpoint found stays in the store, and the first of its public key
if it was, because step-up and keying leave public keys and positions alone. That the lookup
of `finalize` comes to an entry at all rests on the least-number principle.

`HomeKeyProfile_proofs` proves, for any number of issuers and devices, any set of target
flows and any bounds:

| Theorem | States |
|---|---|
| `TypeCorrect` | `Spec => []TypeOK` |
| `Durable` | `Spec => []StoreDurable` |
| `Recovers` | `Spec => []RecoversKey` |
| `OutcomeNames` | `Spec => []OutcomeNamesDevice` |
| `ImplementsTransaction` | `Spec => TransactionSpec` |

The assumptions are `HomeKeyAssumption` (the bounds are numbers, and "none" is no device)
and `TargetAssumption`. `IInv` adds to the properties what the ladder carries from one
request to the next: while it attests it has a new key and, if anything, the result of
STANDARD (`Carried`); what it found is an entry of the phone in the field, after STANDARD
the first one (`FoundIsPhone`); the result is of that entry (`ResultIsFound`); and, as long
as nothing disturbed the phone, whoever is refused or attests without an entry is not in the
store (`RefusedUnknown`), which is `RecoversKey` before its end. Each action is shown at
once to preserve `IInv` and to be a step or a stutter of the abstract transaction. The
lemmas are about the operators on stores: rekeying and forgetting leave public keys and
positions alone (`SamePksFacts`, `ForgottenFacts`), enrolment appends, and a lookup that has
anything to find finds a first (the least-number principle). Both ladders refine one abstract
transaction, `AccessTransaction`; its constant `DeliveryDecides` is TRUE for the HomeKey
ladder, where a grant that is not delivered is reported as failed.

`AliroChannels_proofs` proves, for the same constants:

| Theorem | States |
|---|---|
| `CountersAgree` | `ChannelSpec => []ChannelsInStep` |
| `OfferOpened` | `ChannelSpec => []UrskHeard` |
| `ResultTold` | `ChannelSpec => []DeviceTold` |
| `ChannelsImplementTransaction` | `ChannelSpec => TransactionSpec` |
| `ChannelGrants` | `ChannelSpec => [](StoreDurable /\ OutcomeNamesDevice)` |

There is no assumption beyond those of the ladder; what the device does is part of the
model. `ChannelInv` adds to the ladder's `IInv` which context serves which request
(`ContextFits`), without which a step could seal on a channel the answer does not come back
on, and, for a transaction without a late answer, that the offer of the URSK is the one
command of the expedited channel that may be unheard, and only while it is outstanding
((`OfferHeard`). Where one response leads, and with which context, is one lemma about the
ladder (`ContextStep`); the effects on the counters are then a case each of one answer.

`HapProvisioning_proofs` proves, for any number of issuers, devices and requests and
whichever entry is followed:

| Theorem | States |
|---|---|
| `AnswersHold` | `HapSpec => []ToldTrue` |
| `UnracedOutcome` | `HapSpec => []OutcomeUnlessRaced` |
| `OwnKey` | `HapSpec => KeyGoesToPhone` |

The assumptions are those of the HomeKey ladder and `HapAssumption` (`MaxChanges` is a
number and `Watched` an issuer and a device). The ladder's `IInv` does not survive a raced
transaction: `found` may then name another phone's entry, or none. `HapInv` therefore has
two layers. `Undisputed` is what no race takes away: the store is well formed and is the
saved one, and an attestation has a key to store; with `OneEntry` (the entry followed is
there once, unless `doubled`) that is enough for `ToldTrue`. The second layer is
`~raced => IInv`: a request that leaves the transaction unraced has not moved what the
transaction refers to, which is shown from what appending to a list and removing from one do
to lookups. Removal is reasoned about element by element (`WithoutOne`).

`BleFlow_proofs` proves, for any set of messages of the device, sizes, configurations and
bounds:

| Theorem | States |
|---|---|
| `FlowTypeCorrect` | `FlowSpec => []FlowTypeOK` |
| `InOrderHandled` | `FlowSpec => []HandledInOrder` |
| `NoStaleAnswer` | `FlowSpec => []AnswersCurrent` |
| `EngineLeftStopped` | `FlowSpec => []EngineStopped` |
| `SealedUnlessStepUp` | `FlowSpec => [](NoStepUp => CompletionSealed)` |
| `CountersInStep` | `FlowSpec => []InStep`, where no sealed message is oversize |
| `RangingHeld` | `FlowSpec => RangingHolds`, where a status report fits the link or RKE requests are not served |
| `ParkedServed` | `FlowSpec => ParkedKept`, where a status report fits the link or RKE requests are not served |
| `FlowImplementsTransaction` | `FlowSpec => TransactionSpec` |
| `FlowGrants` | `FlowSpec => [](StoreDurable /\ OutcomeNamesDevice)` |

The assumptions are `FlowAssumption` (what the device may send is among the kinds the
reader tells apart, and the bounds are numbers) and those of the ladder and of message
security. The two conditions on sizes are the code's: a sealed message too large for the
link has used up a counter the device never sees, and a status report that cannot be sent
ends the loop. The one on the configuration, in `SealedUnlessStepUp`, is that of the run,
stated of a single transaction: a build that allows step-up keeps the guarantee in every
transaction that does not use it. An SDU that a live link refuses needs no condition: it is
in the model, and what each of the three says of it is in their statements.

`FlowInv` consists of what the parts need of each other. `Phases` and `LadderOverBle` say at
which request of the ladder `run()` can be where; `Keyed` ties message security to it (there
from the moment somebody is authenticated, in use from AP Completed on) and `EngineKept` the
engine. `InOrder` numbers the unsolicited messages across the three queues: those handled,
then those parked, then those received and not yet looked at, then those in the inbox, each
in order. `OneAnswer` does the same for answers, and holds until step-up only: there is one
request outstanding, and in all queues together at most one answer, to it. `LinkOk` and
`Together` are about the two ends of the link, the latter between calls of the transport.
Each is a predicate of a transport and a device rather than of variables, so that the
transport's operations are lemmas (`BleTransport_proofs`: what one SDU opened message by
message, and one receive, may do to queues and counters), and one action of the flow, which
calls several in a row, is their composition. The ladder's part of a step comes from
`AliroProfile_proofs` unchanged.

`Codecs_proofs` proves, for every width of a byte, block size, length bound and alphabet:

| Theorem | States |
|---|---|
| `TypeCorrect` | `Spec => []InputIs`: strings of bytes within the bounds |
| `PaddingRight` | `Spec => []PaddingComesOff` |
| `ApduRight` | `Spec => []ApduReads`, where lengths fit two bytes |
| `ChainingRight` | `Spec => []ChainingReassembles` |
| `SduRight` | `Spec => []SduAllOrNothing`, where lengths fit two bytes |
| `NdefRight` | `Spec => []NdefSurvives`, where the long length field can count the payloads |
| `TlvStableRight` | `Spec => []TlvStable`, which speaks of strings in which no length wraps |
| `TlvValuesRight` | `Spec => []TlvValuesSurvive`, where a word and two bytes can count the values |
| `SelectRight` | `Spec => []SelectAgrees`, where they can count what is served as it is wrapped, and no length in it wraps |

The assumptions are those of `Octets`, `Framing`, `Tlv`, `Select`, `Ndef` and `Codecs`
(a byte has a multiple of 16 values, bounds are numbers, a tag number of two or more
bits is a part of a byte, a length field's own length has seven bits, the tags looked
for are tags, `Top` is a number). The conditions on lengths are that the strings tried (`MaxInput`,
`MaxZeros`) are of lengths that the length fields can count: fields of two bytes below
`Base * Base`, those of TLV and NDEF as their word can, and for `SelectRight` with what
is wrapped around the string (`Wrapped`). The run meets all of them, and so does the code,
whose buffers are far below. There is little to a state machine whose variable is
the input, so the work is in the operators. A recursive function of a position exists
and has its equation by induction on the positions, from the end down (`Parser`,
`TheParser`; the induction is the least-number principle on a set of positions). Two
predicates then tie a parser to a writer, one code per item: `Reads` (wherever the code
of an item comes, the parser takes it for that item) gives back what was packed
(`Unpacked`); `Copies` and `Consumes` (what the parser takes for an item is its code, or
is as long) give back the bytes or their number (`Repacked`, `RepackedLength`). They are
shown of messages and of attributes. Numbers and their bytes are `ShiftsAre`, `NumberIs`
and `BigEndianIs`.

An NDEF message goes by position: record i is found behind the concatenation of those
before it (`NdefIsRead`). Its header byte is a multiple of `Base \div 16` whose bits are the
four flags (`FlagsAre`), its six fields are cut out where they were put (`SixParts`,
`FieldsAre`). That a message cut short is refused (`NdefPrefix`) is an induction from the
last position on: a parse of the shorter string follows that of the whole one as far as it
goes, and only the whole one meets the record marked as the end.

A TLV record has many encodings, since a length may take more bytes than it needs, so its
bytes are a relation (`IsTlv`, `IsTlv8`): the reader takes each of them for the record
wherever they come (`BerTaken`, `Tlv8Taken`), and whatever it takes is one of them
(`BerFound`, `Tlv8Found`). A round trip is then an induction from the last record back
(`Backward`). A TLV8 parse merges records of one tag that follow each other, so what it
keeps is `Apart`; reading the chunks of a long value is a round trip of chunks that merge
(`Chunks8Read`). `TlvStableRight` is the round trip of what was kept (`BerKept`,
`Tlv8Kept`): its lengths are those a word can hold because they were read by one. The size
of the buffer is counted record by record (`SizeIs`). `SelectRight` composes these: the
records that wrap what is served come off one by one (`SameSelect`), if the length of each
can be counted, which `ServedIs` bounds; that the two copies read alike is `SameCopies`.

Only model-checked:

- Liveness, `TransactionEnds` of both ladders and `Terminates` of the flow: the proof system
  does neither fairness nor ENABLED.
- The disagreements, which are counterexamples.

## Not modelled

- Cryptographic primitives, key schedules and signatures: a choice of result. They are
  wrappers of mbedTLS and libsodium and deterministic derivations, without state.
- CBOR and COSE (`CoseSign1`, the documents of step-up and attestation): likewise. They are
  calls of a library, and what the ladders need of them is the issuer and device they name.
- The counter of `ScbSecureChannel`, of which a transaction uses one answer and one exchange
  (its MAC chaining value never changes), and those of `ISO18013SecureContext`, a fresh
  object with one message each way.
- Advertising bytes, factories, logging.
- Data races between a HomeKit request and a transaction inside the store: undefined
  behaviour whose outcomes the code does not bound.

## Plan

1. Done: message security, the Aliro ladder and its channels, the HomeKey ladder, with their
   refinements and proofs; the BLE flow; HomeKit provisioning; the codecs.
2. `ScbSecureChannel`: the counter of both ends, for users with more than one exchange.
3. Done: proofs about the flow, the channels of the Aliro ladder and HomeKit provisioning.
4. Properties for the hazards that have none: a second `run()` on one object, a late answer
   taken for acceptance of the URSK, and what a raced or an ambiguous outcome should be, once
   the code says it.
5. Done: theorems about the TLV codecs.
