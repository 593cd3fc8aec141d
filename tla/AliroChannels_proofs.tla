------------------------ MODULE AliroChannels_proofs ------------------------
(***************************************************************************)
(* Proofs about AliroChannels, for every store, reader configuration and   *)
(* bound.                                                                  *)
(***************************************************************************)
EXTENDS AliroChannels, AliroProfile_proofs

Counters == [out : Nat, heard : Nat, said : Nat, in : Nat]

ChannelTypes == chan \in [Channel -> Counters]

\* Which context serves which request, and what EXCHANGE 0x97 is for over BLE.
ContextFits ==
  /\ at \in {"Idle", "AUTH0", "AUTH1"} => ctx = "none"
  /\ at = "EXCHANGE_98" => ctx = "exchange" /\ config.ble
  /\ at \in {"ENVELOPE", "GET_RESPONSE"} => ctx = "stepup"
  /\ at = "EXCHANGE_97" => ctx \in Channel
  /\ config.ble /\ at = "EXCHANGE_97" => flow = "Failed"
  /\ at = "CONTROL_FLOW" => ~config.ble

\* The offer of the URSK is the only thing sealed on the expedited channel before
\* a grant over BLE.
OfferHeard ==
  config.ble /\ "late" \notin faults =>
    /\ at = "EXCHANGE_98" =>
         chan["exchange"].out = chan["exchange"].heard + 1
    /\ at \in {"AUTH0", "AUTH1", "Done"} \union StepUp =>
         chan["exchange"].out = chan["exchange"].heard

ChannelInv ==
  /\ IInv /\ ChannelTypes /\ ContextFits
  /\ ChannelsInStep /\ OfferHeard /\ DeviceTold

-----------------------------------------------------------------------------
\* The ladder's part: where one response may lead, and with which context.
Leads(r) ==
  /\ config' = config
  /\ at' # "AUTH0" /\ at' # "Idle"
  /\ at' = at => at \in {"ENVELOPE", "GET_RESPONSE"}
  /\ at' = "EXCHANGE_98" => at \in {"AUTH0", "AUTH1"}
  /\ at' = "GET_RESPONSE" => at \in {"ENVELOPE", "GET_RESPONSE"}
  /\ at = "EXCHANGE_98" /\ r \in {"bad", "more"} => at' = "Failed"
  /\ at = "EXCHANGE_97" /\ r = "more" => at' \in {"Done", "Failed"}
  /\ at = "ENVELOPE" /\ chunks = 1 => at' # "ENVELOPE"
  /\ at = "ENVELOPE" /\ chunks = 1 /\ r = "more" => at' = "GET_RESPONSE"
  /\ config.ble /\ at = "EXCHANGE_97" => at' = "Failed"
  /\ ~config.ble /\ at' \in {"Done", "Failed"} =>
       at = "CONTROL_FLOW" \/ (at = "EXCHANGE_97" /\ r # "bad")
  /\ at = "SELECT" => at' = "ENVELOPE"
  /\ at \in {"EXCHANGE_97", "CONTROL_FLOW"} => at' \notin {"SELECT", "ENVELOPE", "AUTH1"}

\* Settling leads to the report, over the active channel if there is one.
LEMMA SettleLeads ==
  ASSUME NEW i, NEW s, NEW f, NEW store, NEW c, Settle(i, s, f, store, c)
  PROVE  /\ config' = config /\ flow' = f /\ ctx' = c
         /\ at' \in {"Done", "EXCHANGE_97", "Failed", "CONTROL_FLOW"}
         /\ at' \in {"Done", "Failed"} => config.ble
         /\ at' = "EXCHANGE_97" => c \in Channel
         /\ at' = "EXCHANGE_97" /\ config.ble => f = "Failed"
         /\ at' = "CONTROL_FLOW" => ~config.ble
BY DEF Settle, Complete, ChannelActive, Channel

LEMMA AfterAuth1Leads ==
  ASSUME NEW i, NEW s, NEW f, NEW store, NEW c, AfterAuth1(i, s, f, store, c)
  PROVE  /\ config' = config /\ flow' = f
         /\ at' \in {"Done", "EXCHANGE_97", "Failed", "CONTROL_FLOW", "SELECT",
                     "ENVELOPE"}
         /\ at' \in {"Done", "Failed"} => config.ble
         /\ at' = "EXCHANGE_97" => ctx' \in Channel
         /\ at' = "EXCHANGE_97" /\ config.ble => f = "Failed"
         /\ at' = "CONTROL_FLOW" => ~config.ble
         /\ at' = "ENVELOPE" => ctx' = "stepup"
<1>1. CASE Settle(i, s, f, store, c)
  BY <1>1, SettleLeads
<1>2. CASE ~Settle(i, s, f, store, c)
  BY <1>2 DEF AfterAuth1
<1>3. QED
  BY <1>1, <1>2

LEMMA AuthenticatedLeads ==
  ASSUME NEW s, NEW f, Authenticated(s, f)
  PROVE  /\ config' = config /\ flow' = f
         /\ at' \in {"Done", "EXCHANGE_97", "Failed", "CONTROL_FLOW", "SELECT",
                     "ENVELOPE", "EXCHANGE_98"}
         /\ at' \in {"Done", "Failed"} => config.ble
         /\ at' = "EXCHANGE_97" => ctx' \in Channel
         /\ at' = "EXCHANGE_97" /\ config.ble => f = "Failed"
         /\ at' = "CONTROL_FLOW" => ~config.ble
         /\ at' = "ENVELOPE" => ctx' = "stepup"
         /\ at' = "EXCHANGE_98" => ctx' = "exchange" /\ config.ble
<1>1. CASE OffersUrsk
  BY <1>1 DEF Authenticated, OffersUrsk
<1>2. CASE ~OffersUrsk /\ f = "Fast"
  <2>1. Settle(s[1], s, f, mem, "exchange")
    BY <1>2 DEF Authenticated
  <2>2. QED
    BY <2>1, SettleLeads
<1>3. CASE ~OffersUrsk /\ f # "Fast"
  <2>1. AfterAuth1(s[1], s, f, Rekeyed(mem, s), "exchange")
    BY <1>3 DEF Authenticated
  <2>2. QED
    BY <2>1, AfterAuth1Leads
<1>4. QED
  BY <1>1, <1>2, <1>3

LEMMA ContextStep ==
  ASSUME IInv, ContextFits, NEW r \in Response, Respond(r)
  PROVE  IInv' /\ ContextFits' /\ Leads(r)
<1>1. IInv'
  BY StepInv DEF Next
<1> USE DEF Channel
<1>2. CASE Auth0(r)
  <2>1. at = "AUTH0" /\ ctx = "none"
    BY <1>2 DEF Auth0, ContextFits
  <2>2. CASE \E s \in Slots : Authenticated(s, "Fast")
    BY <1>1, <2>1, <2>2, AuthenticatedLeads DEF ContextFits, Leads
  <2>3. CASE /\ \/ at' = "AUTH1"
                \/ at' = IF config.ble THEN "Failed" ELSE "CONTROL_FLOW"
             /\ UNCHANGED <<config, ctx, flow>>
    BY <1>1, <2>1, <2>3 DEF ContextFits, Leads
  <2>4. QED
    BY <1>2, <2>2, <2>3 DEF Auth0
<1>3. CASE Auth1(r)
  <2>1. at = "AUTH1"
    BY <1>3 DEF Auth1
  <2>2. ASSUME NEW c, AfterAuth1(0, None, "Failed", mem, c)
        PROVE  ContextFits' /\ Leads(r)
    BY <2>1, <2>2, AfterAuth1Leads DEF ContextFits, Leads
  <2>3. ASSUME NEW s, Authenticated(s, "Standard")
        PROVE  ContextFits' /\ Leads(r)
    BY <2>1, <2>3, AuthenticatedLeads DEF ContextFits, Leads
  <2>4. QED
    BY <1>1, <1>3, <2>2, <2>3 DEF Auth1
<1>4. CASE Exchange98(r)
  <2>1. at = "EXCHANGE_98" /\ config.ble
    BY <1>4 DEF Exchange98, ContextFits
  <2>2. CASE /\ r \in {"bad", "more"} /\ at' = "Failed"
             /\ UNCHANGED <<config, ctx, flow>>
    BY <1>1, <2>1, <2>2 DEF ContextFits, Leads
  <2>3. CASE r \in {"ok", "stray"} /\ Settle(issuer, found, flow, mem, ctx)
    BY <1>1, <2>1, <2>3, SettleLeads DEF ContextFits, Leads
  <2>4. CASE /\ r \in {"ok", "stray"}
             /\ AfterAuth1(issuer, found, flow, Rekeyed(mem, found), ctx)
    BY <1>1, <2>1, <2>4, AfterAuth1Leads DEF ContextFits, Leads
  <2>5. QED
    BY <1>4, <2>2, <2>3, <2>4 DEF Exchange98
<1>5. CASE Select
  <2>1. at = "SELECT" /\ at' = "ENVELOPE" /\ ctx' = "stepup" /\ config' = config
    BY <1>5 DEF Select
  <2>2. QED
    BY <1>1, <2>1 DEF ContextFits, Leads
<1>6. CASE Envelope(r) \/ GetResponse(r)
  <2>1. at \in {"ENVELOPE", "GET_RESPONSE"} /\ ctx = "stepup"
    BY <1>6 DEF Envelope, GetResponse, ContextFits
  <2>2. ASSUME StepUpFails \/ StepUpSucceeds, ~(at = "ENVELOPE" /\ chunks = 1 /\ r = "more")
        PROVE  ContextFits' /\ Leads(r)
    <3>1. PICK i, s, f, store : Settle(i, s, f, store, ctx)
      BY <2>2 DEF StepUpFails, StepUpSucceeds
    <3>2. QED
      BY <2>1, <2>2, <3>1, SettleLeads DEF ContextFits, Leads
  <2>3. CASE /\ at = "ENVELOPE" /\ chunks > 1
             /\ UNCHANGED <<config, at, ctx, flow>>
    <3>1. chunks # 1
      BY <2>3
    <3>2. QED
      BY <1>1, <2>1, <2>3, <3>1 DEF ContextFits, Leads
  <2>4. CASE at' = "GET_RESPONSE" /\ UNCHANGED <<config, ctx, flow>>
    BY <1>1, <2>1, <2>4 DEF ContextFits, Leads
  <2>5. CASE Envelope(r)
    <3>1. at = "ENVELOPE" /\ ~(chunks > 1 /\ chunks = 1)
      BY <2>5 DEF Envelope
    <3>2. QED
      BY <1>1, <2>2, <2>3, <2>4, <2>5, <3>1 DEF Envelope
  <2>6. CASE GetResponse(r)
    <3>1. at = "GET_RESPONSE"
      BY <2>6 DEF GetResponse
    <3>2. QED
      BY <1>1, <2>2, <2>4, <2>6, <3>1 DEF GetResponse, ladder
  <2>7. QED
    BY <1>6, <2>5, <2>6
<1>7. CASE Exchange97(r)
  <2>1. /\ at = "EXCHANGE_97"
        /\ at' = IF config.ble \/ r # "bad" THEN Outcome ELSE "CONTROL_FLOW"
        /\ UNCHANGED <<config, ctx, flow>>
    BY <1>7 DEF Exchange97
  <2>2. QED
    BY <1>1, <2>1 DEF Outcome, ContextFits, Leads
<1>8. CASE ControlFlow
  <2>1. at = "CONTROL_FLOW" /\ at' = Outcome /\ UNCHANGED <<config, ctx, flow>>
    BY <1>8 DEF ControlFlow
  <2>2. QED
    BY <1>1, <2>1 DEF Outcome, ContextFits, Leads
<1>9. QED
  BY <1>2, <1>3, <1>4, <1>5, <1>6, <1>7, <1>8 DEF Respond

-----------------------------------------------------------------------------
\* What sealing, opening and answering do to the counters.
LEMMA CounterFacts ==
  ASSUME NEW k \in [Channel -> Counters], NEW c \in Channel
  PROVE  /\ \A g \in {Says(k, c), Gets(k, c), Opened(k, c)} :
              /\ g \in [Channel -> Counters]
              /\ \A d \in Channel \ {c} : g[d] = k[d]
              /\ g[c].out = k[c].out
         /\ Says(k, c)[c].said = k[c].said + 1 /\ Says(k, c)[c].in = k[c].in
         /\ Says(k, c)[c].heard = k[c].heard
         /\ Gets(k, c)[c].said = k[c].said /\ Gets(k, c)[c].in = k[c].in
         /\ Gets(k, c)[c].heard = IF Opens(k, c) THEN k[c].heard + 1 ELSE k[c].heard
         /\ Opened(k, c)[c].said = k[c].said /\ Opened(k, c)[c].heard = k[c].heard
         /\ Opened(k, c)[c].in = IF k[c].said = k[c].in + 1 THEN k[c].in + 1 ELSE k[c].in
<1> DEFINE e == k[c]
           With(v) == [k EXCEPT ![c] = v]
<1>1. /\ e \in Counters
      /\ e.out \in Nat /\ e.heard \in Nat /\ e.said \in Nat /\ e.in \in Nat
      /\ e = [out |-> e.out, heard |-> e.heard, said |-> e.said, in |-> e.in]
  BY DEF Counters
<1>2. ASSUME NEW v \in Counters
      PROVE  /\ With(v) \in [Channel -> Counters] /\ With(v)[c] = v
             /\ \A d \in Channel \ {c} : With(v)[d] = k[d]
  OBVIOUS
<1> DEFINE said == [out |-> e.out, heard |-> e.heard, said |-> e.said + 1, in |-> e.in]
           heard == [out |-> e.out, heard |-> e.heard + 1, said |-> e.said, in |-> e.in]
           opened == [out |-> e.out, heard |-> e.heard, said |-> e.said, in |-> e.in + 1]
<1>3. said \in Counters /\ heard \in Counters /\ opened \in Counters
  BY <1>1 DEF Counters
<1>4. /\ Says(k, c) = With(said)
      /\ Gets(k, c) = IF Opens(k, c) THEN With(heard) ELSE k
      /\ Opened(k, c) = IF k[c].said = k[c].in + 1 THEN With(opened) ELSE k
  <2>1. /\ [e EXCEPT !.said = e.said + 1] = said
        /\ [e EXCEPT !.heard = e.heard + 1] = heard
        /\ [e EXCEPT !.in = e.in + 1] = opened
    BY <1>1
  <2>2. /\ Says(k, c) = With([e EXCEPT !.said = e.said + 1])
        /\ Gets(k, c) = IF Opens(k, c) THEN With([e EXCEPT !.heard = e.heard + 1]) ELSE k
        /\ Opened(k, c) = IF k[c].said = k[c].in + 1
                           THEN With([e EXCEPT !.in = e.in + 1]) ELSE k
    BY DEF Says, Gets, Opened, Opens
  <2> HIDE DEF With, said, heard, opened
  <2>3. QED
    BY <2>1, <2>2
<1>5. /\ said.out = e.out /\ said.heard = e.heard /\ said.said = e.said + 1 /\ said.in = e.in
      /\ heard.out = e.out /\ heard.heard = e.heard + 1 /\ heard.said = e.said
      /\ heard.in = e.in
      /\ opened.out = e.out /\ opened.heard = e.heard /\ opened.said = e.said
      /\ opened.in = e.in + 1
  OBVIOUS
<1> HIDE DEF With, said, heard, opened
<1>6. /\ Says(k, c) \in [Channel -> Counters] /\ Says(k, c)[c] = said
      /\ \A d \in Channel \ {c} : Says(k, c)[d] = k[d]
  BY <1>2, <1>3, <1>4
<1>7. /\ Gets(k, c) \in [Channel -> Counters]
      /\ Gets(k, c)[c] = IF Opens(k, c) THEN heard ELSE e
      /\ \A d \in Channel \ {c} : Gets(k, c)[d] = k[d]
  BY <1>2, <1>3, <1>4
<1>8. /\ Opened(k, c) \in [Channel -> Counters]
      /\ Opened(k, c)[c] = IF k[c].said = k[c].in + 1 THEN opened ELSE e
      /\ \A d \in Channel \ {c} : Opened(k, c)[d] = k[d]
  BY <1>2, <1>3, <1>4
<1>9. QED
  BY <1>5, <1>6, <1>7, <1>8

\* Sealing the next command.
LEMMA SentFacts ==
  ASSUME NEW k \in [Channel -> Counters], Sealed(at') => ctx' \in Channel
  PROVE  /\ Sent(k) \in [Channel -> Counters]
         /\ \A c \in Channel :
              /\ Sent(k)[c].heard = k[c].heard /\ Sent(k)[c].said = k[c].said
              /\ Sent(k)[c].in = k[c].in
              /\ Sent(k)[c].out = k[c].out +
                   IF Sealed(at') /\ at' # at /\ c = ctx' THEN 1 ELSE 0
<1>1. CASE ~(Sealed(at') /\ at' # at)
  <2>1. \A c \in Channel : k[c].out \in Nat
    BY DEF Counters
  <2>2. QED
    BY <1>1, <2>1 DEF Sent
<1>2. CASE Sealed(at') /\ at' # at
  <2> DEFINE c == ctx'
             e == k[c]
             v == [out |-> e.out + 1, heard |-> e.heard, said |-> e.said, in |-> e.in]
             g == [k EXCEPT ![c] = v]
  <2>1. c \in Channel
    BY <1>2
  <2>2. /\ e.out \in Nat /\ e.heard \in Nat /\ e.said \in Nat /\ e.in \in Nat
        /\ e = [out |-> e.out, heard |-> e.heard, said |-> e.said, in |-> e.in]
        /\ \A d \in Channel : k[d].out \in Nat
    BY <2>1 DEF Counters
  <2>3. Sent(k) = g
    <3>1. [e EXCEPT !.out = e.out + 1] = v
      BY <2>2
    <3>2. Sent(k) = [k EXCEPT ![c] = [e EXCEPT !.out = e.out + 1]]
      BY <1>2 DEF Sent
    <3> HIDE DEF v
    <3>3. QED
      BY <3>1, <3>2
  <2>4. /\ v \in Counters /\ v.out = e.out + 1 /\ v.heard = e.heard
        /\ v.said = e.said /\ v.in = e.in
    BY <2>2 DEF Counters
  <2> HIDE DEF v
  <2>5. /\ g \in [Channel -> Counters] /\ g[c] = v
        /\ \A d \in Channel \ {c} : g[d] = k[d]
    BY <2>1, <2>4
  <2> HIDE DEF g
  <2>6. QED
    BY <1>2, <2>1, <2>2, <2>3, <2>4, <2>5
<1>3. QED
  BY <1>1, <1>2

-----------------------------------------------------------------------------
\* The counters g when an answer is dealt with, before the next command is sealed:
\* one that was not opened is the last.
Even(g, c) == (g[c].said = g[c].in \/ at' \in Rest) /\ g[c].out = g[c].heard

Dealt(g) ==
  /\ g \in [Channel -> Counters] /\ chan' = Sent(g)
  /\ faults \subseteq faults'
  /\ faults' = {} => IF at' = at THEN g = chan ELSE \A c \in Channel : Even(g, c)
  /\ /\ config.ble /\ "late" \notin faults'
     /\ at' \in {"EXCHANGE_98", "AUTH1", "Done"} \union StepUp
     => g["exchange"].out = g["exchange"].heard

\* Sealing the next command keeps the channels as they should be.
LEMMA DealtFacts ==
  ASSUME ContextFits, ContextFits', NEW r, Leads(r), NEW g, Dealt(g), ChannelsInStep
  PROVE  ChannelTypes' /\ ChannelsInStep' /\ OfferHeard'
<1>1. Sealed(at') => ctx' \in Channel
  BY DEF Sealed, ContextFits, Channel
<1>2. /\ chan' \in [Channel -> Counters]
      /\ \A c \in Channel :
           /\ chan'[c].heard = g[c].heard /\ chan'[c].said = g[c].said
           /\ chan'[c].in = g[c].in
           /\ chan'[c].out = g[c].out +
                IF Sealed(at') /\ at' # at /\ c = ctx' THEN 1 ELSE 0
  BY <1>1, SentFacts DEF Dealt
<1>3. /\ "exchange" \in Channel /\ "stepup" \in Channel /\ "exchange" # "stepup"
      /\ \A c \in Channel : g[c].out \in Nat /\ g[c].heard \in Nat
  BY DEF Channel, Counters, Dealt
<1>4. ChannelsInStep'
  <2> SUFFICES ASSUME faults' = {}, NEW c \in Channel
               PROVE  /\ chan'[c].said = chan'[c].in \/ at' \in Rest
                      /\ chan'[c].out = chan'[c].heard +
                           IF Sealed(at') /\ ctx' = c THEN 1 ELSE 0
    BY DEF ChannelsInStep
  <2>1. CASE at' = at
    <3>1. at \in {"ENVELOPE", "GET_RESPONSE"} /\ ctx' = ctx
      BY <2>1 DEF Leads, ContextFits
    <3>2. g = chan /\ faults = {}
      BY <2>1 DEF Dealt
    <3>3. /\ chan[c].said = chan[c].in \/ at \in Rest
          /\ chan[c].out = chan[c].heard + IF Sealed(at) /\ ctx = c THEN 1 ELSE 0
      BY <3>2 DEF ChannelsInStep
    <3>4. /\ chan'[c].said = chan[c].said /\ chan'[c].in = chan[c].in
          /\ chan'[c].heard = chan[c].heard /\ chan'[c].out = chan[c].out + 0
      BY <1>2, <2>1, <3>2
    <3>5. chan'[c].out = chan[c].out
      BY <1>3, <3>2, <3>4
    <3>6. Sealed(at') = Sealed(at)
      BY <2>1
    <3>7. QED
      BY <2>1, <3>1, <3>3, <3>4, <3>5, <3>6
  <2>2. CASE at' # at
    <3>1. Even(g, c)
      BY <2>2 DEF Dealt
    <3>2. QED
      BY <1>2, <1>3, <2>2, <3>1 DEF Even
  <2>3. QED
    BY <2>1, <2>2
<1>5. OfferHeard'
  <2> SUFFICES ASSUME config'.ble, "late" \notin faults'
               PROVE  /\ at' = "EXCHANGE_98" =>
                           chan'["exchange"].out = chan'["exchange"].heard + 1
                      /\ at' \in {"AUTH0", "AUTH1", "Done"} \union StepUp =>
                           chan'["exchange"].out = chan'["exchange"].heard
    BY DEF OfferHeard, StepUp
  <2>1. config.ble /\ at' # "AUTH0"
    BY DEF Leads
  <2>2. at' = "EXCHANGE_98" => ctx' = "exchange" /\ at' # at
    BY DEF ContextFits, Leads
  <2>3. at' \in {"AUTH1", "Done"} \union StepUp =>
          ~(Sealed(at') /\ "exchange" = ctx')
    BY <1>3 DEF ContextFits, Sealed, StepUp
  <2>4. CASE at' = "EXCHANGE_98"
    BY <1>2, <1>3, <2>1, <2>2, <2>4 DEF Dealt, Sealed, StepUp
  <2>5. CASE at' \in {"AUTH1", "Done"} \union StepUp
    <3>1. g["exchange"].out = g["exchange"].heard
      BY <2>1, <2>5 DEF Dealt
    <3>2. at' # "EXCHANGE_98"
      BY <2>5 DEF StepUp
    <3>3. QED
      BY <1>2, <1>3, <2>3, <2>5, <3>1, <3>2
  <2>6. QED
    BY <2>1, <2>4, <2>5
<1>6. QED
  BY <1>2, <1>4, <1>5 DEF ChannelTypes

\* A sealed command that is dealt with: its channel is the only one that moved.
LEMMA SealedDealt ==
  ASSUME ChannelInv, NEW r, Leads(r), Sealed(at), at' # at, ctx \in Channel,
         NEW g \in [Channel -> Counters], chan' = Sent(g), faults \subseteq faults',
         \A d \in Channel \ {ctx} : g[d] = chan[d],
         faults' = {} => Even(g, ctx),
         at = "EXCHANGE_98" /\ r \notin {"bad", "more"} /\ "late" \notin faults' =>
           g[ctx].heard = chan[ctx].heard + 1 /\ g[ctx].out = chan[ctx].out
  PROVE  Dealt(g)
<1>1. ASSUME faults' = {}, NEW c \in Channel
      PROVE  Even(g, c)
  <2>1. faults = {}
    BY <1>1
  <2>2. CASE c # ctx
    <3>1. /\ chan[c].said = chan[c].in
          /\ chan[c].out = chan[c].heard + 0
      BY <2>1, <2>2 DEF ChannelInv, ChannelsInStep, Sealed, Rest
    <3>2. chan[c].heard \in Nat
      BY DEF ChannelInv, ChannelTypes, Counters
    <3>3. QED
      BY <2>2, <3>1, <3>2 DEF Even
  <2>3. QED
    BY <1>1, <2>2
<1>2. ASSUME config.ble, "late" \notin faults',
             at' \in {"EXCHANGE_98", "AUTH1", "Done"} \union StepUp
      PROVE  g["exchange"].out = g["exchange"].heard
  <2>1. "late" \notin faults /\ "exchange" \in Channel /\ at' # "Failed"
    BY <1>2 DEF Channel, StepUp
  <2>2. at \in {"EXCHANGE_98", "ENVELOPE"}
    BY <1>2, <2>1 DEF Sealed, Leads
  <2>3. CASE at = "EXCHANGE_98"
    <3>1. ctx = "exchange" /\ chan[ctx].out = chan[ctx].heard + 1
      BY <1>2, <2>1, <2>3 DEF ChannelInv, ContextFits, OfferHeard
    <3>2. g[ctx].heard = chan[ctx].heard + 1 /\ g[ctx].out = chan[ctx].out
      BY <1>2, <2>1, <2>3 DEF Leads
    <3>3. QED
      BY <3>1, <3>2
  <2>4. CASE at = "ENVELOPE"
    <3>1. ctx = "stepup" /\ chan["exchange"].out = chan["exchange"].heard
      BY <1>2, <2>1, <2>4 DEF ChannelInv, ContextFits, OfferHeard, StepUp
    <3>2. QED
      BY <2>1, <3>1
  <2>5. QED
    BY <2>2, <2>3, <2>4
<1>3. QED
  BY <1>1, <1>2 DEF Dealt

\* Before a sealed command is dealt with, its channel is one message ahead.
LEMMA OneAhead ==
  ASSUME ChannelInv, Sealed(at), ctx \in Channel, faults = {}
  PROVE  chan[ctx].said = chan[ctx].in /\ Opens(chan, ctx)
BY DEF ChannelInv, ChannelsInStep, Opens, Sealed, Rest

LEMMA AnsweredDeals ==
  ASSUME ChannelInv, NEW r, Leads(r), Sealed(at), at' # at, ctx \in Channel,
         at = "ENVELOPE" => r # "more", Answered(ctx, r)
  PROVE  \E g : Dealt(g)
<1>1. chan \in [Channel -> Counters]
  BY DEF ChannelInv, ChannelTypes
<1> DEFINE c == ctx
           gets == Gets(chan, c)
<1>2. /\ \A d \in Channel : /\ chan[d].out \in Nat /\ chan[d].heard \in Nat
                            /\ chan[d].said \in Nat /\ chan[d].in \in Nat
  BY <1>1 DEF Counters
<1>3. /\ gets \in [Channel -> Counters]
      /\ \A d \in Channel \ {c} : gets[d] = chan[d]
      /\ gets[c].out = chan[c].out /\ gets[c].said = chan[c].said
      /\ gets[c].in = chan[c].in
      /\ Opens(chan, c) => gets[c].heard = chan[c].heard + 1
  BY <1>1, CounterFacts
<1>4. faults = {} => /\ chan[c].said = chan[c].in /\ Opens(chan, c)
                     /\ gets[c].out = gets[c].heard
  BY <1>3, OneAhead DEF Opens
<1>5. CASE r \in {"ok", "stray"} /\ Accepted(c)
  <2>1. Opens(chan, c) /\ faults' = faults
    BY <1>5 DEF Accepted
  <2>2. CASE chan' = Sent(Opened(gets, c))
    <3> DEFINE g == Opened(gets, c)
    <3>1. /\ g \in [Channel -> Counters]
          /\ \A d \in Channel \ {c} : g[d] = gets[d]
          /\ g[c].out = gets[c].out /\ g[c].heard = gets[c].heard
          /\ g[c].said = gets[c].said
          /\ g[c].in = IF gets[c].said = gets[c].in + 1 THEN gets[c].in + 1 ELSE gets[c].in
      BY <1>3, CounterFacts
    <3> HIDE DEF g, gets
    <3>2. /\ \A d \in Channel \ {c} : g[d] = chan[d]
          /\ g[c].heard = chan[c].heard + 1 /\ g[c].out = chan[c].out
      BY <1>3, <2>1, <3>1
    <3>3. faults' = {} => Even(g, c)
      BY <1>2, <1>3, <1>4, <2>1, <3>1 DEF Even
    <3>4. chan' = Sent(g)
      BY <2>2 DEF g
    <3>5. Dealt(g)
      BY <2>1, <3>1, <3>2, <3>3, <3>4, SealedDealt
    <3>6. QED
      BY <3>5
  <2>3. CASE chan' = Sent(Opened(Says(gets, c), c))
    <3> DEFINE h == Says(gets, c)
               g == Opened(h, c)
    <3>1. /\ h \in [Channel -> Counters]
          /\ \A d \in Channel \ {c} : h[d] = gets[d]
          /\ h[c].out = gets[c].out /\ h[c].heard = gets[c].heard
          /\ h[c].said = gets[c].said + 1 /\ h[c].in = gets[c].in
      BY <1>3, CounterFacts
    <3> HIDE DEF h
    <3>2. /\ g \in [Channel -> Counters]
          /\ \A d \in Channel \ {c} : g[d] = h[d]
          /\ g[c].out = h[c].out /\ g[c].heard = h[c].heard
          /\ g[c].said = h[c].said
          /\ g[c].in = IF h[c].said = h[c].in + 1 THEN h[c].in + 1 ELSE h[c].in
      BY <3>1, CounterFacts
    <3> HIDE DEF g, gets
    <3>3. /\ \A d \in Channel \ {c} : g[d] = chan[d]
          /\ g[c].heard = chan[c].heard + 1 /\ g[c].out = chan[c].out
      BY <1>3, <2>1, <3>1, <3>2
    <3>4. faults' = {} => Even(g, c)
      BY <1>2, <1>3, <1>4, <2>1, <3>1, <3>2 DEF Even
    <3>5. chan' = Sent(g)
      BY <2>3 DEF g, h, gets
    <3>6. Dealt(g)
      BY <2>1, <3>2, <3>3, <3>4, <3>5, SealedDealt
    <3>7. QED
      BY <3>6
  <2>4. QED
    BY <1>5, <2>2, <2>3 DEF Accepted
<1>6. CASE r = "bad" /\ Refused(c)
  <2>1. faults' = faults /\ chan' = Sent(gets)
    BY <1>6 DEF Refused
  <2>2. faults' = {} => Even(gets, c)
    BY <1>3, <1>4, <2>1 DEF Even
  <2> HIDE DEF gets
  <2>3. Dealt(gets)
    BY <1>3, <1>6, <2>1, <2>2, SealedDealt
  <2>4. QED
    BY <2>3
<1>7. CASE r = "bad" /\ Unanswered(c)
  <2>1. faults' # {} /\ faults \subseteq faults'
    BY <1>7 DEF Unanswered
  <2>2. PICK g : chan' = Sent(g) /\ (g = chan \/ g = Says(gets, c))
    BY <1>7 DEF Unanswered
  <2>3. /\ Says(gets, c) \in [Channel -> Counters]
        /\ \A d \in Channel \ {c} : Says(gets, c)[d] = gets[d]
    BY <1>3, CounterFacts
  <2>4. g \in [Channel -> Counters] /\ \A d \in Channel \ {c} : g[d] = chan[d]
    BY <1>1, <1>3, <2>2, <2>3
  <2>5. Dealt(g)
    BY <1>7, <2>1, <2>2, <2>4, SealedDealt
  <2>6. QED
    BY <2>5
<1>8. ASSUME NEW o \in {chan, Opened(chan, c)}, LateAnswer(o, c)
      PROVE  \E g : Dealt(g)
  <2>1. faults' # {} /\ faults \subseteq faults' /\ "late" \in faults'
    BY <1>8 DEF LateAnswer
  <2> DEFINE h == Gets(o, c)
             k == Says(h, c)
  <2>2. PICK g : chan' = Sent(g) /\ (g = o \/ g = k)
    BY <1>8 DEF LateAnswer
  <2>3. o \in [Channel -> Counters] /\ \A d \in Channel \ {c} : o[d] = chan[d]
    BY <1>1, <1>8, CounterFacts
  <2>4. h \in [Channel -> Counters] /\ \A d \in Channel \ {c} : h[d] = o[d]
    BY <2>3, CounterFacts
  <2> HIDE DEF h
  <2>5. k \in [Channel -> Counters] /\ \A d \in Channel \ {c} : k[d] = h[d]
    BY <2>4, CounterFacts
  <2> HIDE DEF k
  <2>6. g \in [Channel -> Counters] /\ \A d \in Channel \ {c} : g[d] = chan[d]
    BY <2>2, <2>3, <2>4, <2>5
  <2>7. Dealt(g)
    BY <1>8, <2>1, <2>2, <2>6, SealedDealt
  <2>8. QED
    BY <2>7
<1>9. CASE r = "more" /\ Unread(c)
  <2>1. Opens(chan, c) /\ faults' = faults /\ at' \in Rest
    BY <1>9 DEF Unread, Leads, Sealed, Rest
  <2> DEFINE h == Says(gets, c)
  <2>2. PICK g : chan' = Sent(g) /\ (g = gets \/ g = h)
    BY <1>9 DEF Unread
  <2>3. /\ h \in [Channel -> Counters]
        /\ \A d \in Channel \ {c} : h[d] = gets[d]
        /\ h[c].out = gets[c].out /\ h[c].heard = gets[c].heard
    BY <1>3, CounterFacts
  <2> HIDE DEF h, gets
  <2>4. /\ g \in [Channel -> Counters]
        /\ \A d \in Channel \ {c} : g[d] = chan[d]
        /\ g[c].heard = chan[c].heard + 1 /\ g[c].out = chan[c].out
        /\ faults' = {} => g[c].out = g[c].heard
    BY <1>3, <1>4, <2>1, <2>2, <2>3
  <2>5. faults' = {} => Even(g, c)
    BY <2>1, <2>4 DEF Even
  <2>6. Dealt(g)
    BY <2>1, <2>2, <2>4, <2>5, SealedDealt
  <2>7. QED
    BY <2>6
<1>10. QED
  BY <1>5, <1>6, <1>7, <1>8, <1>9 DEF Answered

\* With nothing sealed under way, the channels are even.
LEMMA UnsealedDealt ==
  ASSUME ChannelInv, NEW r, Leads(r), at \in Request, ~Sealed(at), at' # at,
         NEW c \in Channel, c = "exchange" => at \in {"AUTH0", "AUTH1"},
         NEW g \in [Channel -> Counters], chan' = Sent(g), faults \subseteq faults',
         \A d \in Channel \ {c} : g[d] = chan[d],
         g[c].out = chan[c].out /\ g[c].heard = chan[c].heard,
         faults' = {} /\ chan[c].said = chan[c].in => g[c].said = g[c].in
  PROVE  Dealt(g)
<1>1. ASSUME faults' = {}, NEW d \in Channel
      PROVE  Even(g, d)
  <2>1. faults = {}
    BY <1>1
  <2>2. /\ chan[d].said = chan[d].in /\ chan[d].out = chan[d].heard + 0
        /\ chan[d].heard \in Nat
    BY <2>1 DEF ChannelInv, ChannelsInStep, ChannelTypes, Counters, Request, Rest
  <2>3. CASE d = c
    BY <1>1, <2>2, <2>3 DEF Even
  <2>4. CASE d # c
    BY <2>2, <2>4 DEF Even
  <2>5. QED
    BY <2>3, <2>4
<1>2. ASSUME config.ble, "late" \notin faults',
             at' \in {"EXCHANGE_98", "AUTH1", "Done"} \union StepUp
      PROVE  g["exchange"].out = g["exchange"].heard
  <2>1. "late" \notin faults /\ "exchange" \in Channel
    BY <1>2 DEF Channel
  <2>2. at \notin {"EXCHANGE_98", "EXCHANGE_97"}
    BY DEF Sealed
  <2>3. at \in {"AUTH0", "AUTH1"} \union StepUp
    <3>1. at # "CONTROL_FLOW"
      BY <1>2 DEF ChannelInv, ContextFits
    <3>2. QED
      BY <2>2, <3>1 DEF Request, StepUp
  <2>4. chan["exchange"].out = chan["exchange"].heard
    BY <1>2, <2>1, <2>3 DEF ChannelInv, OfferHeard
  <2>5. QED
    BY <2>1, <2>4
<1>3. QED
  BY <1>1, <1>2 DEF Dealt

LEMMA ResponseDeals ==
  ASSUME ChannelInv, NEW r \in Response, Leads(r), ContextFits', at \in Request,
         Channels(r)
  PROVE  \E g : Dealt(g)
<1> USE DEF Channel
<1>1. chan \in [Channel -> Counters] /\ ContextFits
  BY DEF ChannelInv, ChannelTypes
<1>2. CASE at \in {"AUTH0", "AUTH1"} /\ AnswersAuth(chan)
  <2>1. faults' = faults /\ at' # at /\ ~Sealed(at)
    BY <1>2 DEF AnswersAuth, Leads, Sealed
  <2>2. CASE chan' = Sent(chan)
    <3>1. Dealt(chan)
      BY <1>1, <1>2, <2>1, <2>2, UnsealedDealt
    <3>2. QED
      BY <3>1
  <2>3. CASE chan' = Sent(Opened(Says(chan, "exchange"), "exchange"))
    <3> DEFINE c == "exchange"
               h == Says(chan, c)
               g == Opened(h, c)
    <3>1. /\ h \in [Channel -> Counters]
          /\ \A d \in Channel \ {c} : h[d] = chan[d]
          /\ h[c].out = chan[c].out /\ h[c].heard = chan[c].heard
          /\ h[c].said = chan[c].said + 1 /\ h[c].in = chan[c].in
      BY <1>1, CounterFacts
    <3> HIDE DEF h
    <3>2. /\ g \in [Channel -> Counters]
          /\ \A d \in Channel \ {c} : g[d] = h[d]
          /\ g[c].out = h[c].out /\ g[c].heard = h[c].heard
          /\ g[c].said = h[c].said
          /\ g[c].in = IF h[c].said = h[c].in + 1 THEN h[c].in + 1 ELSE h[c].in
      BY <3>1, CounterFacts
    <3>3. chan' = Sent(g)
      BY <2>3 DEF h
    <3> HIDE DEF g
    <3>4. chan[c].said \in Nat /\ chan[c].in \in Nat
      BY <1>1 DEF Counters
    <3>5. /\ \A d \in Channel \ {c} : g[d] = chan[d]
          /\ g[c].out = chan[c].out /\ g[c].heard = chan[c].heard
          /\ chan[c].said = chan[c].in => g[c].said = g[c].in
      BY <3>1, <3>2, <3>4
    <3>6. Dealt(g)
      BY <1>2, <2>1, <3>2, <3>3, <3>5, UnsealedDealt
    <3>7. QED
      BY <3>6
  <2>4. QED
    BY <1>2, <2>2, <2>3 DEF AnswersAuth
<1>3. CASE /\ \/ at \in {"EXCHANGE_98", "EXCHANGE_97"}
              \/ at = "ENVELOPE" /\ chunks = 1 /\ r # "more"
           /\ Answered(ctx, r)
  <2>1. /\ Sealed(at) /\ at' # at /\ ctx \in Channel
        /\ at = "ENVELOPE" => r # "more"
    BY <1>1, <1>3 DEF Sealed, Leads, ContextFits
  <2>2. QED
    BY <1>3, <2>1, AnsweredDeals
<1>4. CASE /\ at = "ENVELOPE" /\ chunks = 1 /\ r = "more" /\ Opens(chan, ctx)
           /\ chan' = Gets(chan, ctx) /\ UNCHANGED faults
  <2> DEFINE g == Gets(chan, ctx)
  <2>1. /\ at' = "GET_RESPONSE" /\ Sealed(at) /\ at' # at
        /\ ctx = "stepup" /\ ctx \in Channel
    BY <1>1, <1>4 DEF Sealed, Leads, ContextFits
  <2>2. chan' = Sent(g) /\ Opens(chan, ctx) /\ faults' = faults
    BY <1>4, <2>1 DEF Sent, Sealed
  <2>3. /\ g \in [Channel -> Counters]
        /\ \A d \in Channel \ {ctx} : g[d] = chan[d]
        /\ g[ctx].out = chan[ctx].out /\ g[ctx].said = chan[ctx].said
        /\ g[ctx].in = chan[ctx].in
        /\ g[ctx].heard = chan[ctx].heard + 1
    BY <1>1, <2>1, <2>2, CounterFacts
  <2> HIDE DEF g
  <2>4. faults' = {} => Even(g, ctx)
    BY <2>1, <2>2, <2>3, OneAhead DEF Even, Opens
  <2>5. Dealt(g)
    BY <2>1, <2>2, <2>3, <2>4, SealedDealt
  <2>6. QED
    BY <2>5
<1>5. CASE at' = at /\ chan' = chan /\ faults' = faults
  <2>1. at \in StepUp
    BY <1>5 DEF Leads, StepUp
  <2>2. chan' = Sent(chan)
    BY <1>5 DEF Sent
  <2>3. config.ble /\ "late" \notin faults =>
          chan["exchange"].out = chan["exchange"].heard
    BY <2>1 DEF ChannelInv, OfferHeard
  <2>4. Dealt(chan)
    BY <1>1, <1>5, <2>2, <2>3 DEF Dealt
  <2>5. QED
    BY <2>4
<1>6. CASE /\ at = "ENVELOPE" /\ chunks > 1
           /\ chan' = Sent(chan)
           /\ faults' = IF at' = at THEN faults ELSE faults \union {"lost"}
  <2>1. CASE at' = at
    BY <1>5, <1>6, <2>1 DEF Sent
  <2>2. CASE at' # at
    <3>1. Sealed(at) /\ ctx \in Channel /\ faults \subseteq faults' /\ faults' # {}
      BY <1>1, <1>6, <2>2 DEF Sealed, ContextFits
    <3>2. Dealt(chan)
      BY <1>1, <1>6, <2>2, <3>1, SealedDealt
    <3>3. QED
      BY <3>2
  <2>3. QED
    BY <2>1, <2>2
<1>7. CASE at = "GET_RESPONSE" /\ at' # at
  <2> DEFINE c == ctx
             h == Says(chan, c)
             g == Opened(h, c)
  <2>1. c = "stepup" /\ c \in Channel /\ ~Sealed(at)
    BY <1>1, <1>7 DEF ContextFits, Sealed
  <2>2. /\ h \in [Channel -> Counters]
        /\ \A d \in Channel \ {c} : h[d] = chan[d]
        /\ h[c].out = chan[c].out /\ h[c].heard = chan[c].heard
        /\ h[c].said = chan[c].said + 1 /\ h[c].in = chan[c].in
    BY <1>1, <2>1, CounterFacts
  <2> HIDE DEF h
  <2>3. /\ g \in [Channel -> Counters]
        /\ \A d \in Channel \ {c} : g[d] = h[d]
        /\ g[c].out = h[c].out /\ g[c].heard = h[c].heard
        /\ g[c].said = h[c].said
        /\ g[c].in = IF h[c].said = h[c].in + 1 THEN h[c].in + 1 ELSE h[c].in
    BY <2>1, <2>2, CounterFacts
  <2> HIDE DEF g
  <2>4. chan[c].said \in Nat /\ chan[c].in \in Nat
    BY <1>1, <2>1 DEF Counters
  <2>5. CASE chan' = Sent(g) /\ faults' = faults
    <3>1. /\ \A d \in Channel \ {c} : g[d] = chan[d]
          /\ g[c].out = chan[c].out /\ g[c].heard = chan[c].heard
          /\ chan[c].said = chan[c].in => g[c].said = g[c].in
      BY <2>2, <2>3, <2>4
    <3>2. Dealt(g)
      BY <1>7, <2>1, <2>3, <2>5, <3>1, UnsealedDealt
    <3>3. QED
      BY <3>2
  <2>6. CASE chan' = Sent(h) /\ faults' = faults \union {"lost"}
    <3>1. faults \subseteq faults' /\ faults' # {}
      BY <2>6
    <3>2. Dealt(h)
      BY <1>7, <2>1, <2>2, <2>6, <3>1, UnsealedDealt
    <3>3. QED
      BY <3>2
  <2>7. QED
    BY <1>7, <2>5, <2>6 DEF Channels, g, h
<1>8. CASE at \in {"SELECT", "CONTROL_FLOW"} /\ chan' = Sent(chan) /\ UNCHANGED faults
  <2>1. ~Sealed(at) /\ at' # at /\ "stepup" \in Channel /\ "stepup" # "exchange"
    BY <1>8 DEF Sealed, Leads
  <2>2. Dealt(chan)
    BY <1>1, <1>8, <2>1, UnsealedDealt
  <2>3. QED
    BY <2>2
<1>9. QED
  BY <1>2, <1>3, <1>4, <1>5, <1>6, <1>7, <1>8 DEF Channels

\* Over NFC the last request told the device.
LEMMA ToldAtEnd ==
  ASSUME ChannelInv, NEW r \in Response, Leads(r), ContextFits', Channels(r), Tell(r)
  PROVE  DeviceTold'
<1> SUFFICES ASSUME at' \in {"Done", "Failed"}, ~config.ble
             PROVE  told' # "no"
  BY DEF DeviceTold, Leads
<1>1. CASE at = "CONTROL_FLOW"
  BY <1>1 DEF Tell
<1>2. CASE at = "EXCHANGE_97" /\ r # "bad"
  <2>1. (Accepted(ctx) \/ Unread(ctx)) /\ ctx \in Channel
    BY <1>2 DEF Channels, Answered, LateAnswer, ChannelInv, ContextFits, Response
  <2>2. ~Sealed(at') /\ chan \in [Channel -> Counters]
    BY DEF Sealed, ChannelInv, ChannelTypes
  <2> DEFINE h == Gets(chan, ctx)
             k == Says(h, ctx)
  <2>3. h \in [Channel -> Counters] /\ h[ctx].heard = chan[ctx].heard + 1
    BY <2>1, <2>2, CounterFacts DEF Accepted, Unread
  <2>4. chan' \in {h, k, Opened(h, ctx), Opened(k, ctx)}
    BY <2>1, <2>2 DEF Accepted, Unread, Sent
  <2> HIDE DEF h
  <2>5. k \in [Channel -> Counters] /\ k[ctx].heard = h[ctx].heard
    BY <2>1, <2>3, CounterFacts
  <2> HIDE DEF k
  <2>6. Opened(h, ctx)[ctx].heard = h[ctx].heard
    BY <2>1, <2>3, CounterFacts
  <2>7. Opened(k, ctx)[ctx].heard = k[ctx].heard
    BY <2>1, <2>5, CounterFacts
  <2>8. chan[ctx].heard \in Nat /\ chan'[ctx].heard = chan[ctx].heard + 1
    BY <2>1, <2>2, <2>3, <2>4, <2>5, <2>6, <2>7 DEF Counters
  <2>9. chan'[ctx].heard > chan[ctx].heard
    BY <2>8
  <2>10. QED
    BY <1>2, <2>9 DEF Tell
<1>3. QED
  BY <1>1, <1>2 DEF Leads

LEMMA ChannelResponseInv ==
  ASSUME ChannelInv, NEW r \in Response, Respond(r), Channels(r), Tell(r)
  PROVE  ChannelInv'
<1>1. IInv' /\ ContextFits' /\ Leads(r)
  BY ContextStep DEF ChannelInv
<1>2. at \in Request
  BY DEF Respond, Auth0, Auth1, Exchange98, Select, Envelope, GetResponse, Exchange97,
         ControlFlow, Request
<1>3. PICK g : Dealt(g)
  BY <1>1, <1>2, ResponseDeals
<1>4. ChannelTypes' /\ ChannelsInStep' /\ OfferHeard'
  BY <1>1, <1>3, DealtFacts DEF ChannelInv
<1>5. DeviceTold'
  BY <1>1, ToldAtEnd
<1>6. QED
  BY <1>1, <1>4, <1>5 DEF ChannelInv

LEMMA FreshFacts ==
  /\ [c \in Channel |-> Fresh] \in [Channel -> Counters]
  /\ \A c \in Channel :
       LET k == [d \in Channel |-> Fresh]
       IN  k[c].out = 0 /\ k[c].heard = 0 /\ k[c].said = 0 /\ k[c].in = 0
BY DEF Fresh, Counters

LEMMA ChannelStart == ChannelInit => ChannelInv
<1> SUFFICES ASSUME ChannelInit PROVE ChannelInv
  OBVIOUS
<1>1. IInv /\ at = "Idle" /\ ctx = "none" /\ chan = [c \in Channel |-> Fresh]
  BY InitInv DEF ChannelInit, Init
<1>2. ~Sealed(at) /\ "exchange" \in Channel
  BY <1>1 DEF Sealed, Channel
<1>3. QED
  BY <1>1, <1>2, FreshFacts
     DEF ChannelInv, ChannelTypes, ContextFits, ChannelsInStep, OfferHeard, DeviceTold,
         StepUp

\* A transaction begins with fresh channels; after a crash there is none.
LEMMA ChannelFresh ==
  ASSUME ChannelInv, FreshChannels, Crash \/ \E t \in Target : Begin(t)
  PROVE  ChannelInv'
<1>1. IInv' /\ at' \in {"Idle", "AUTH0"} /\ ctx' = "none"
  BY StepInv DEF Next, Begin, Crash, FreshSession, ChannelInv
<1>2. ~Sealed(at') /\ "exchange" \in Channel /\ chan' = [c \in Channel |-> Fresh]
  BY <1>1 DEF Sealed, Channel, FreshChannels
<1>3. QED
  BY <1>1, <1>2, FreshFacts
     DEF ChannelInv, ChannelTypes, ContextFits, ChannelsInStep, OfferHeard, DeviceTold,
         StepUp

LEMMA ChannelStep == ChannelInv /\ [ChannelNext]_<<ladder, channels>> => ChannelInv'
<1> SUFFICES ASSUME ChannelInv, [ChannelNext]_<<ladder, channels>> PROVE ChannelInv'
  OBVIOUS
<1>1. CASE ChannelNext
  BY <1>1, ChannelResponseInv, ChannelFresh DEF ChannelNext
<1>2. CASE UNCHANGED <<ladder, channels>>
  <2>1. UNCHANGED ladder /\ IInv'
    BY <1>2, StepInv DEF ChannelInv
  <2>2. /\ config' = config /\ at' = at /\ ctx' = ctx /\ flow' = flow
        /\ chan' = chan /\ told' = told /\ faults' = faults
    BY <1>2 DEF ladder, channels
  <2>3. Sealed(at') = Sealed(at)
    BY <2>2
  <2>4. ChannelsInStep'
    BY <2>2, <2>3 DEF ChannelInv, ChannelsInStep
  <2>5. QED
    BY <2>1, <2>2, <2>4
       DEF ChannelInv, ChannelTypes, ContextFits, OfferHeard, DeviceTold
<1>3. QED
  BY <1>1, <1>2

LEMMA ChannelInvariance == ChannelSpec => []ChannelInv
BY ChannelStart, ChannelStep, PTL DEF ChannelSpec

(***************************************************************************)
(* Without a lost message or a late answer the counters of both ends of    *)
(* both channels move together (GcmSecureChannel.cpp:34-54), whatever      *)
(* answers come, in however many chunks; a 61xx answer to an EXCHANGE,     *)
(* which is not opened (AliroSecureContext.cpp:46-48), is the last.        *)
(***************************************************************************)
THEOREM CountersAgree == ChannelSpec => []ChannelsInStep
<1>1. ChannelInv => ChannelsInStep
  BY DEF ChannelInv
<1>2. QED
  BY <1>1, ChannelInvariance, PTL

(***************************************************************************)
(* A device granted access over BLE after it was offered the URSK opened   *)
(* that offer (BleFlow.cpp:152-163), unless a late answer stood in for its *)
(* own.                                                                    *)
(***************************************************************************)
THEOREM OfferOpened == ChannelSpec => []UrskHeard
<1>1. ChannelInv => UrskHeard
  BY DEF ChannelInv, OfferHeard, UrskHeard
<1>2. QED
  BY <1>1, ChannelInvariance, PTL

(***************************************************************************)
(* Over NFC every transaction that comes to its end has told the device    *)
(* its result, or sent it CONTROL FLOW last (Profile.cpp:285-301).         *)
(***************************************************************************)
THEOREM ResultTold == ChannelSpec => []DeviceTold
<1>1. ChannelInv => DeviceTold
  BY DEF ChannelInv
<1>2. QED
  BY <1>1, ChannelInvariance, PTL

LEMMA LadderStep == [ChannelNext]_<<ladder, channels>> => [Next]_ladder
BY DEF ChannelNext, Next

(***************************************************************************)
(* The channels leave the ladder its decisions: with them too, an access   *)
(* transaction is decided once, and the saved store changes by a grant     *)
(* alone (AliroProfile's TransactionSpec).                                 *)
(***************************************************************************)
THEOREM ChannelsImplementTransaction == ChannelSpec => TransactionSpec
<1>1. ChannelInit => Transaction!Init
  BY InitInv DEF ChannelInit
<1>2. ChannelInv /\ [ChannelNext]_<<ladder, channels>>
        => [Transaction!Next]_<<Decision, nvs>>
  BY StepInv, LadderStep DEF ChannelInv, TransactionStep
<1>3. QED
  BY <1>1, <1>2, ChannelInvariance, PTL DEF ChannelSpec, TransactionSpec, Transaction!Spec

(***************************************************************************)
(* ... and what the ladder guarantees of the store and of its outcome.     *)
(***************************************************************************)
THEOREM ChannelGrants == ChannelSpec => [](StoreDurable /\ OutcomeNamesDevice)
<1>1. ChannelInv => StoreDurable
  BY DEF ChannelInv, IInv, UnsavedIsOneKey, StoreDurable, StepUp, Rest
<1>2. ChannelInit => FoundStays
  BY DEF ChannelInit, Init, FoundStays
<1>3. ChannelInv /\ FoundStays /\ [ChannelNext]_<<ladder, channels>> => FoundStays'
  BY FoundInv, LadderStep DEF ChannelInv
<1>4. ChannelInv /\ FoundStays => OutcomeNamesDevice
  BY NamedIsFound DEF ChannelInv
<1>5. QED
  BY <1>1, <1>2, <1>3, <1>4, ChannelInvariance, PTL DEF ChannelSpec
=============================================================================
