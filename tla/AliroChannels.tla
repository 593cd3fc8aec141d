--------------------------- MODULE AliroChannels ---------------------------
(***************************************************************************)
(* The two GCM channels of an Aliro transaction, at both ends, under the   *)
(* ladder of AliroProfile: the expedited channel (opened by the AUTH1      *)
(* answer, used by the 0x98 and 0x97 EXCHANGE) and the step-up channel     *)
(* (ENVELOPE, and the 0x97 EXCHANGE once it is the active one).  A command *)
(* or an answer may be lost; over BLE a late answer may stand in for the   *)
(* awaited one.                                                            *)
(*                                                                         *)
(* A counter is the number of messages sealed or opened on the channel in  *)
(* this transaction.  The device opens a command under the counter it      *)
(* expects, refuses any other in clear, answers SW 9000 or 61xx only to    *)
(* what it opened, and seals no empty answer.                              *)
(***************************************************************************)
EXTENDS AliroProfile

VARIABLES
  chan,     \* the counters: out and in the reader's, heard and said the device's
  told,     \* how the device learned the result, see Tell
  faults    \* whether a message was lost, or a late answer taken, so far

channels == <<chan, told, faults>>

Channel == {"exchange", "stepup"}

Fresh == [out |-> 0, heard |-> 0, said |-> 0, in |-> 0]

FreshChannels ==
  chan' = [c \in Channel |-> Fresh] /\ told' = "no" /\ faults' = {}

ChannelInit ==
  Init /\ chan = [c \in Channel |-> Fresh] /\ told = "no" /\ faults = {}

-----------------------------------------------------------------------------
\* encrypt_reader_data: the counter moves with every command sealed, sent or
\* not.  An ENVELOPE is sealed whole, before it is cut into chunks.
Sealed(request) == request \in {"EXCHANGE_98", "ENVELOPE", "EXCHANGE_97"}

Sent(k) ==
  IF Sealed(at') /\ at' # at THEN [k EXCEPT ![ctx'].out = @ + 1] ELSE k

\* The device gets the command: it opens the one it expects.
Gets(k, c) == IF k[c].heard + 1 = k[c].out THEN [k EXCEPT ![c].heard = @ + 1] ELSE k

Opens(k, c) == k[c].heard + 1 = k[c].out

\* decrypt_endpoint_data on the device's last answer: the counter moves if the
\* answer is the one sealed under it, and stays if the tag does not match.
Opened(k, c) ==
  IF k[c].said = k[c].in + 1 THEN [k EXCEPT ![c].in = @ + 1] ELSE k

Says(k, c) == [k EXCEPT ![c].said = @ + 1]

\* The first answer that is opened with the expedited keys is AUTH1's.
AnswersAuth(k) ==
  /\ \/ (at = "AUTH0" \/ ctx' # "exchange") /\ chan' = Sent(k)
     \/ /\ at = "AUTH1" /\ ctx' # "keyless"
        /\ chan' = Sent(Opened(Says(k, "exchange"), "exchange"))
  /\ UNCHANGED faults

\* SW 9000: opened by the device, which answers with sealed data or with none.
Accepted(c) ==
  /\ Opens(chan, c)
  /\ LET k == Gets(chan, c)
     IN  chan' = Sent(Opened(k, c)) \/ chan' = Sent(Opened(Says(k, c), c))
  /\ UNCHANGED faults

\* 61xx, not followed up: opened by the device.  The reader opens nothing of it,
\* sealed data or none.
Unread(c) ==
  /\ Opens(chan, c)
  /\ LET k == Gets(chan, c)
     IN  chan' = Sent(k) \/ chan' = Sent(Says(k, c))
  /\ UNCHANGED faults

\* Any other status: the device opened the command, if it could, and refused.
Refused(c) == chan' = Sent(Gets(chan, c)) /\ UNCHANGED faults

\* The command did not get to be opened, or its answer was lost.
Unanswered(c) ==
  /\ \/ chan' = Sent(chan)
     \/ Opens(chan, c) /\ chan' = Sent(Says(Gets(chan, c), c))
  /\ faults' = faults \union {"lost"}

\* Over BLE, the answer to an earlier request in place of the awaited one; k is
\* what it leaves of the channels.
LateAnswer(k, c) ==
  /\ config.ble
  /\ \/ chan' = Sent(k)
     \/ Opens(chan, c) /\ chan' = Sent(Says(Gets(k, c), c))
  /\ faults' = faults \union {"late"}

Answered(c, r) ==
  \/ r = "ok" /\ Accepted(c)
  \/ r = "more" /\ (Unread(c) \/ LateAnswer(chan, c))
  \/ r = "bad" /\ (Refused(c) \/ Unanswered(c))
  \/ r = "stray" /\ (Accepted(c) \/ LateAnswer(Opened(chan, c), c))

\* An ENVELOPE is opened when its last chunk is there; 61xx is followed up by
\* GET RESPONSE, and the assembled answer opened.
Channels(r) ==
  \/ at \in {"AUTH0", "AUTH1"} /\ AnswersAuth(chan)
  \/ at \in {"EXCHANGE_98", "EXCHANGE_97"} /\ Answered(ctx, r)
  \/ at = "ENVELOPE" /\ chunks = 1 /\ r # "more" /\ Answered(ctx, r)
  \/ /\ at = "ENVELOPE" /\ chunks = 1 /\ r = "more" /\ Opens(chan, ctx)
     /\ chan' = Gets(chan, ctx) /\ UNCHANGED faults
  \/ /\ at = "ENVELOPE" /\ chunks > 1
     /\ chan' = Sent(chan)
     /\ faults' = IF at' = at THEN faults ELSE faults \union {"lost"}
  \/ /\ at = "GET_RESPONSE" /\ at' = at /\ UNCHANGED <<chan, faults>>
  \/ /\ at = "GET_RESPONSE" /\ at' # at /\ r = "ok"
     /\ chan' = Sent(Opened(Says(chan, ctx), ctx)) /\ UNCHANGED faults
  \/ /\ at = "GET_RESPONSE" /\ at' # at /\ r # "ok"
     /\ chan' = Sent(Says(chan, ctx)) /\ faults' = faults \union {"lost"}
  \/ at \in {"SELECT", "CONTROL_FLOW"} /\ chan' = Sent(chan) /\ UNCHANGED faults

\* The device learns the result by opening the 0x97 EXCHANGE, or by CONTROL
\* FLOW, in clear; it does not when neither arrives.
Tell(r) ==
  told' \in IF at = "EXCHANGE_97" /\ chan'[ctx].heard > chan[ctx].heard
            THEN {"result"}
            ELSE IF at = "CONTROL_FLOW"
                 THEN {"control"} \union (IF r = "bad" THEN {"lost"} ELSE {})
                 ELSE {told}

ChannelNext ==
  \/ \E t \in Target : Begin(t) /\ FreshChannels
  \/ \E r \in Response : Respond(r) /\ Channels(r) /\ Tell(r)
  \/ Crash /\ FreshChannels

ChannelFairness ==
  WF_<<ladder, channels>>(at # "GET_RESPONSE" /\
    \E r \in Response : Respond(r) /\ Channels(r) /\ Tell(r))

ChannelSpec ==
  ChannelInit /\ [][ChannelNext]_<<ladder, channels>> /\ ChannelFairness

-----------------------------------------------------------------------------
(***************************************************************************)
(* Without a lost message or a late answer the counters of both ends move  *)
(* together (GcmSecureChannel.cpp:34-54): answers with data and without,   *)
(* chunked or refused, and the switch between the channels leave none      *)
(* behind.  A 61xx answer to an EXCHANGE is not opened                     *)
(* (AliroSecureContext.cpp:46-48): the ladder must be at its end then, and *)
(* no other request follow on a channel whose counters have parted.        *)
(***************************************************************************)
ChannelsInStep ==
  faults = {} =>
    \A c \in Channel :
      /\ chan[c].said = chan[c].in \/ at \in Rest
      /\ chan[c].out = chan[c].heard + IF Sealed(at) /\ ctx = c THEN 1 ELSE 0

(***************************************************************************)
(* Over BLE a device that is granted access after it was offered the URSK  *)
(* has opened the offer (BleFlow.cpp:152-163), unless a late answer stood  *)
(* in for its own: the reader arms ranging only with a key both ends hold. *)
(***************************************************************************)
UrskHeard ==
  at = "Done" /\ config.ble /\ "late" \notin faults
    => chan["exchange"].heard = chan["exchange"].out

(***************************************************************************)
(* Over NFC no transaction ends with the device in the dark: it opened the *)
(* 0x97 EXCHANGE, or, when a lost or failed step-up has left its channel   *)
(* out of step, got CONTROL FLOW (Profile.cpp:285-301), or that was lost.  *)
(***************************************************************************)
DeviceTold == at \in {"Done", "Failed"} /\ ~config.ble => told # "no"
=============================================================================
