------------------------ MODULE AliroProfile_proofs ------------------------
(***************************************************************************)
(* Proofs about AliroProfile, for every store, reader configuration and    *)
(* bound.  Every action is shown at once to preserve the invariant and to  *)
(* be a step, or a stutter, of the abstract transaction.                   *)
(***************************************************************************)
EXTENDS AliroProfile, WellFoundedInduction, TLAPS

StepUp == {"SELECT", "ENVELOPE", "GET_RESPONSE"}

\* Nobody is authenticated before AUTH1 is answered, or AUTH0 with a fast match.
UndecidedBlank == at \in {"AUTH0", "AUTH1"} => flow = "Failed" /\ found = None

OfferNamesEndpoint ==
  at = "EXCHANGE_98" => flow \in {"Fast", "Standard"} /\ found \in Slots

DoneIsGranted == at = "Done" => flow # "Failed"

\* Step-up is the only place with something unsaved, the key of the endpoint that
\* a standard flow found.
UnsavedIsOneKey ==
  IF at \in StepUp
  THEN \/ flow = "Failed" /\ found = None /\ mem = nvs
       \/ flow = "Standard" /\ found \in Slots /\ mem = Rekeyed(nvs, found)
  ELSE mem = nvs

IInv ==
  /\ TypeOK
  /\ UndecidedBlank /\ OfferNamesEndpoint /\ DoneIsGranted
  /\ UnsavedIsOneKey

Stores == [Issuers -> Seq(Endpoint)]

SlotsOf(store) ==
  {s \in Issuers \X (1 .. MaxEndpoints) : s[2] \in DOMAIN store[s[1]]}

TransactionStep == [Transaction!Next]_<<Decision, nvs>>

-----------------------------------------------------------------------------
\* Keying an endpoint leaves every slot in place, and keying it again does nothing.
LEMMA RekeyedFacts ==
  ASSUME NEW store \in Stores, NEW s \in SlotsOf(store)
  PROVE  LET g == Rekeyed(store, s)
         IN  /\ g \in Stores
             /\ SlotsOf(g) = SlotsOf(store)
             /\ g[s[1]][s[2]].key = "set"
             /\ Rekeyed(g, s) = g
             /\ \E i \in Issuers : \E k \in DOMAIN store[i] :
                  g = [store EXCEPT ![i][k] = Transaction!Keyed(@)]
<1> DEFINE i == s[1]
           k == s[2]
           e == [store[i][k] EXCEPT !.key = "set"]
           q == [store[i] EXCEPT ![k] = e]
           g == [store EXCEPT ![i] = q]
<1>1. i \in Issuers /\ k \in DOMAIN store[i] /\ store[i] \in Seq(Endpoint)
  BY DEF Stores, SlotsOf
<1>2. store[i][k] \in Endpoint
  BY <1>1
<1>3. e \in Endpoint /\ e.key = "set" /\ [e EXCEPT !.key = "set"] = e
  BY <1>2 DEF Endpoint
<1>4. q \in Seq(Endpoint) /\ DOMAIN q = DOMAIN store[i] /\ q[k] = e
  BY <1>1, <1>3
<1>5. [q EXCEPT ![k] = [q[k] EXCEPT !.key = "set"]] = q
  BY <1>3, <1>4
<1>6. g \in Stores /\ g[i] = q /\ \A j \in Issuers : DOMAIN g[j] = DOMAIN store[j]
  BY <1>1, <1>4 DEF Stores
<1>7. Rekeyed(store, s) = g
  BY <1>1 DEF Rekeyed
<1>8. Rekeyed(g, s) = g
  BY <1>5, <1>6 DEF Rekeyed, Stores
<1>9. SlotsOf(g) = SlotsOf(store)
  BY <1>6 DEF SlotsOf
<1>10. \E j \in Issuers : \E m \in DOMAIN store[j] :
         g = [store EXCEPT ![j][m] = Transaction!Keyed(@)]
  <2>1. g = [store EXCEPT ![i][k] = Transaction!Keyed(@)]
    BY <1>1 DEF Transaction!Keyed
  <2>2. QED
    BY <1>1, <2>1
<1>11. g[s[1]][s[2]].key = "set"
  BY <1>3, <1>4, <1>6
<1> HIDE DEF g
<1>12. QED
  BY <1>6, <1>7, <1>8, <1>9, <1>10, <1>11

\* Enrolling an endpoint adds a slot at the end of its issuer's.
LEMMA EnrolledFacts ==
  ASSUME NEW store \in Stores, NEW j \in Issuers, NEW d \in Devices,
         Len(store[j]) < MaxEndpoints
  PROVE  LET g == Enrolled(store, j, d)
         IN  /\ g \in Stores
             /\ <<j, Len(store[j]) + 1>> \in SlotsOf(g)
             /\ g[j][Len(store[j]) + 1].key = "set"
<1> DEFINE e == [pk |-> d, key |-> "set"]
           g == [store EXCEPT ![j] = Append(store[j], e)]
<1>1. e \in Endpoint /\ store[j] \in Seq(Endpoint)
  BY DEF Endpoint, Stores
<1>2. g \in Stores /\ g[j] = Append(store[j], e)
  BY <1>1 DEF Stores
<1>3. Len(store[j]) + 1 \in DOMAIN g[j] /\ Len(store[j]) + 1 \in 1 .. MaxEndpoints
  BY <1>1, <1>2, ConfigAssumption
<1>4. QED
  BY <1>2, <1>3 DEF Enrolled, SlotsOf

-----------------------------------------------------------------------------
\* What the saved store may become in a step that grants.
Granted(store) ==
  \/ store = nvs
  \/ \E i \in Issuers : \E k \in DOMAIN nvs[i] :
       store = [nvs EXCEPT ![i][k] = Transaction!Keyed(@)]
  \/ \E i \in Issuers, d \in Devices :
       store = [nvs EXCEPT ![i] = Append(@, [pk |-> d, key |-> "set"])]

Undecided == Request \ {"EXCHANGE_97", "CONTROL_FLOW"}

\* The requests before a decision stand for one pending transaction.
LEMMA StillPending ==
  ASSUME at \in Undecided, at' \in Undecided, nvs' = nvs
  PROVE  TransactionStep
BY DEF Undecided, Request, Decision, TransactionStep

\* Settling is the abstract decision, and leaves nothing unsaved.
LEMMA SettleFacts ==
  ASSUME TypeOK, at \in Undecided,
         NEW i \in Issuers \union {0}, NEW s,
         NEW f \in {"Failed", "Fast", "Standard", "Attestation"},
         NEW store \in Stores,
         NEW c \in {"none", "keyless", "exchange", "stepup"},
         s \in SlotsOf(store) \union {None},
         IF f \in {"Standard", "Attestation"} THEN Granted(store) ELSE store = nvs,
         Settle(i, s, f, store, c)
  PROVE  IInv' /\ TransactionStep
<1>1. /\ issuer' = i /\ found' = s /\ flow' = f /\ mem' = store /\ ctx' = c
      /\ config' = config /\ target' = target /\ chunks' = 0 /\ assembled' = 0
      /\ nvs' = store
      /\ Complete(f # "Failed", c)
  BY DEF Settle
<1>2. at' \in {"Done", "EXCHANGE_97", "Failed", "CONTROL_FLOW"}
  BY <1>1 DEF Complete
<1>3. f = "Failed" => at' # "Done"
  BY <1>1 DEF Complete
<1>4. f # "Failed" => at' # "Failed"
  BY <1>1 DEF Complete
<1>5. TypeOK'
  <2>1. 0 \in 0 .. MaxChunks /\ 0 \in 0 .. MaxAssembled
    BY ConfigAssumption
  <2>2. found' \in Slots' \union {None}
    BY <1>1 DEF Slots, SlotsOf
  <2>3. at' \in Rest \union Request
    BY <1>2 DEF Rest, Request
  <2>4. mem' \in Stores /\ nvs' \in Stores
    BY <1>1
  <2>5. QED
    BY <1>1, <2>1, <2>2, <2>3, <2>4 DEF TypeOK, Stores
<1>6. IInv'
  BY <1>1, <1>2, <1>3, <1>5
     DEF IInv, UndecidedBlank, OfferNamesEndpoint, DoneIsGranted,
         UnsavedIsOneKey, StepUp
<1>7. Decision = "pending"
  BY DEF Undecided, Request, Decision
<1>8. CASE f = "Failed"
  <2>1. Decision' \in {"refused", "failed"}
    BY <1>1, <1>2, <1>3, <1>8 DEF Decision
  <2>2. QED
    BY <1>1, <1>6, <1>7, <1>8, <2>1
       DEF TransactionStep, Transaction!Next, Transaction!Refuse
<1>9. CASE f # "Failed"
  <2>1. Decision' \in {"granted", "done"}
    BY <1>1, <1>2, <1>4, <1>9 DEF Decision
  <2>2. Granted(nvs')
    BY <1>1 DEF Granted
  <2>3. nvs' = nvs \/ Transaction!KeyOne \/ Transaction!EnrolOne
    BY <2>2 DEF Granted, Transaction!KeyOne, Transaction!EnrolOne
  <2>4. QED
    BY <1>6, <1>7, <2>1, <2>3 DEF TransactionStep, Transaction!Next, Transaction!Grant
<1>10. QED
  BY <1>8, <1>9

\* The slots of the stores the invariant speaks of.
LEMMA InvFacts ==
  ASSUME IInv
  PROVE  /\ mem \in Stores /\ nvs \in Stores
         /\ Slots = SlotsOf(mem)
         /\ at \notin StepUp => mem = nvs
         /\ found # None => found \in Slots
         /\ \A s \in Slots : s \in SlotsOf(mem) /\ s[1] \in Issuers /\ s # None
<1>1. TypeOK
  BY DEF IInv
<1>2. mem \in Stores /\ nvs \in Stores
  BY <1>1 DEF TypeOK, Stores
<1>3. Slots = SlotsOf(mem)
  BY DEF Slots, SlotsOf
<1>4. \A s \in Slots : s[1] \in Issuers /\ s # None
  BY DEF Slots, None, Issuers
<1>5. at \notin StepUp => mem = nvs
  BY DEF IInv, UnsavedIsOneKey
<1>6. found # None => found \in Slots
  BY <1>1 DEF TypeOK
<1>7. QED
  BY <1>2, <1>3, <1>4, <1>5, <1>6

\* After AUTH1: with nothing found, or with the endpoint found given its new key.
LEMMA AfterAuth1Facts ==
  ASSUME IInv, at \in {"AUTH1", "EXCHANGE_98"},
         NEW i \in Issuers \union {0}, NEW s, NEW f, NEW store,
         NEW c \in {"none", "keyless", "exchange", "stepup"},
         \/ f = "Failed" /\ s = None /\ store = nvs
         \/ f = "Standard" /\ s \in Slots /\ store = Rekeyed(nvs, s),
         AfterAuth1(i, s, f, store, c)
  PROVE  IInv' /\ TransactionStep
<1>1. TypeOK /\ at \in Undecided
  BY DEF IInv, Undecided, Request
<1>2. mem = nvs /\ nvs \in Stores /\ Slots = SlotsOf(nvs)
  BY InvFacts DEF StepUp
<1>3. store \in Stores /\ Granted(store) /\ s \in SlotsOf(store) \union {None}
      /\ (f = "Standard" => s \in SlotsOf(store))
  <2>1. CASE f = "Failed"
    BY <1>2, <2>1 DEF Granted
  <2>2. CASE f = "Standard"
    <3>1. s \in SlotsOf(nvs) /\ store = Rekeyed(nvs, s)
      BY <1>2, <2>2
    <3>2. /\ store \in Stores /\ SlotsOf(store) = SlotsOf(nvs)
          /\ \E j \in Issuers : \E k \in DOMAIN nvs[j] :
               store = [nvs EXCEPT ![j][k] = Transaction!Keyed(@)]
      BY <1>2, <3>1, RekeyedFacts
    <3>3. QED
      BY <3>1, <3>2 DEF Granted
  <2>3. QED
    BY <2>1, <2>2
<1>4. CASE Settle(i, s, f, store, c)
  BY <1>1, <1>3, <1>4, SettleFacts
<1>5. CASE ~Settle(i, s, f, store, c)
  <2>1. /\ issuer' = i /\ found' = s /\ flow' = f /\ mem' = store
        /\ at' \in {"SELECT", "ENVELOPE"} /\ ctx' \in {c, "stepup"}
        /\ chunks' \in 1 .. MaxChunks
        /\ config' = config /\ target' = target /\ nvs' = nvs
        /\ assembled' = assembled
    BY <1>5 DEF AfterAuth1
  <2>2. TypeOK'
    <3>1. found' \in Slots' \union {None}
      BY <1>3, <2>1 DEF Slots, SlotsOf
    <3>2. at' \in Rest \union Request
      BY <2>1 DEF Request
    <3>3. chunks' \in 0 .. MaxChunks
      BY <2>1, ConfigAssumption
    <3>4. mem' \in Stores
      BY <1>3, <2>1
    <3>5. QED
      BY <1>1, <2>1, <3>1, <3>2, <3>3, <3>4 DEF TypeOK, Stores
  <2>3. UnsavedIsOneKey'
    <3>1. f = "Standard" => s \in Slots'
      BY <1>3, <2>1 DEF Slots, SlotsOf
    <3>2. QED
      BY <2>1, <3>1 DEF UnsavedIsOneKey, StepUp, Rekeyed
  <2>4. IInv'
    BY <2>1, <2>2, <2>3 DEF IInv, UndecidedBlank, OfferNamesEndpoint, DoneIsGranted
  <2>5. TransactionStep
    <3>1. at' \in Undecided
      BY <2>1 DEF Undecided, Request
    <3>2. QED
      BY <1>1, <2>1, <3>1, StillPending
  <2>6. QED
    BY <2>4, <2>5
<1>6. QED
  BY <1>4, <1>5

\* A step that stays where nothing is decided and leaves the store and what was
\* found alone.
LEMMA WaitsOn ==
  ASSUME IInv, TypeOK', at \in Undecided, at' \in Undecided,
         \/ at \in StepUp /\ at' \in StepUp
         \/ at = "AUTH0" /\ at' = "AUTH1",
         UNCHANGED <<flow, found, mem, nvs>>
  PROVE  IInv' /\ TransactionStep
<1>1. TransactionStep
  BY StillPending
<1>2. Slots' = Slots
  BY DEF Slots
<1>3. IInv'
  BY <1>2 DEF IInv, UndecidedBlank, OfferNamesEndpoint, DoneIsGranted,
              UnsavedIsOneKey, StepUp,
              Rekeyed
<1>4. QED
  BY <1>1, <1>3

\* An authenticated endpoint: the URSK is offered, or the ladder goes on or settles.
LEMMA AuthenticatedFacts ==
  ASSUME IInv, at \in {"AUTH0", "AUTH1"}, NEW s \in Slots,
         NEW f \in {"Fast", "Standard"}, f = "Standard" => at = "AUTH1",
         Authenticated(s, f)
  PROVE  IInv' /\ TransactionStep
<1>1. TypeOK /\ at \in Undecided
  BY DEF IInv, Undecided, Request
<1>2. mem = nvs /\ nvs \in Stores /\ s \in SlotsOf(nvs) /\ s[1] \in Issuers
  BY InvFacts DEF StepUp
<1>3. CASE OffersUrsk
  <2>1. /\ at' = "EXCHANGE_98" /\ ctx' = "exchange" /\ flow' = f
        /\ issuer' = s[1] /\ found' = s
        /\ UNCHANGED <<config, target, mem, nvs, chunks, assembled>>
    BY <1>3 DEF Authenticated
  <2>2. Slots' = Slots
    BY <2>1 DEF Slots
  <2>3. TypeOK'
    BY <1>1, <1>2, <2>1, <2>2 DEF TypeOK, Request
  <2>4. IInv'
    BY <1>2, <2>1, <2>2, <2>3
       DEF IInv, UndecidedBlank, OfferNamesEndpoint, DoneIsGranted,
           UnsavedIsOneKey, StepUp
  <2>5. at' \in Undecided
    BY <2>1 DEF Undecided, Request
  <2>6. QED
    BY <1>1, <2>1, <2>4, <2>5, StillPending
<1>4. CASE ~OffersUrsk /\ f = "Fast"
  <2>1. Settle(s[1], s, f, nvs, "exchange")
    BY <1>2, <1>4 DEF Authenticated
  <2>2. QED
    BY <1>1, <1>2, <1>4, <2>1, SettleFacts
<1>5. CASE ~OffersUrsk /\ f = "Standard"
  <2>1. AfterAuth1(s[1], s, f, Rekeyed(nvs, s), "exchange")
    BY <1>2, <1>5 DEF Authenticated
  <2>2. QED
    BY <1>2, <1>5, <2>1, AfterAuth1Facts
<1>6. QED
  BY <1>3, <1>4, <1>5

-----------------------------------------------------------------------------
\* One lemma per action from here on: it keeps IInv and is an abstract step.
LEMMA Auth0Facts ==
  ASSUME IInv, NEW r \in Response, Auth0(r)
  PROVE  IInv' /\ TransactionStep
<1>1. at = "AUTH0" /\ TypeOK /\ at \in Undecided /\ mem = nvs
  BY InvFacts DEF Auth0, IInv, Undecided, Request, StepUp
<1>2. CASE /\ at' = "AUTH1"
           /\ UNCHANGED <<config, target, ctx, flow, issuer, found, mem, nvs,
                          chunks, assembled>>
  <2>1. Slots' = Slots
    BY <1>2 DEF Slots
  <2>2. TypeOK' /\ at' \in Undecided
    BY <1>1, <1>2, <2>1 DEF TypeOK, Undecided, Request
  <2>3. QED
    BY <1>1, <1>2, <2>2, WaitsOn
<1>3. ASSUME NEW s \in Slots, Authenticated(s, "Fast")
      PROVE  IInv' /\ TransactionStep
  BY <1>1, <1>3, AuthenticatedFacts
<1>4. CASE /\ at' \in {"Failed", "CONTROL_FLOW"}
           /\ UNCHANGED <<config, target, ctx, flow, issuer, found, mem, nvs,
                          chunks, assembled>>
  <2>1. Slots' = Slots
    BY <1>4 DEF Slots
  <2>2. TypeOK'
    BY <1>1, <1>4, <2>1 DEF TypeOK, Rest, Request
  <2>3. IInv'
    BY <1>1, <1>4, <2>2
       DEF IInv, UndecidedBlank, OfferNamesEndpoint, DoneIsGranted,
           UnsavedIsOneKey, StepUp
  <2>4. flow = "Failed"
    BY <1>1 DEF IInv, UndecidedBlank
  <2>5. Decision = "pending" /\ Decision' \in {"refused", "failed"}
    BY <1>1, <1>4, <2>4 DEF Decision
  <2>6. QED
    BY <1>4, <2>3, <2>5 DEF TransactionStep, Transaction!Next, Transaction!Refuse
<1>5. QED
  BY <1>2, <1>3, <1>4 DEF Auth0

\* AUTH1 fails with nothing found, or finds the first match.
LEMMA Auth1Facts ==
  ASSUME IInv, NEW r \in Response, Auth1(r)
  PROVE  IInv' /\ TransactionStep
<1>1. at = "AUTH1" /\ mem = nvs
  BY InvFacts DEF Auth1, StepUp
<1>2. ASSUME NEW c \in {"keyless", "exchange"}, AfterAuth1(0, None, "Failed", mem, c)
      PROVE  IInv' /\ TransactionStep
  <2>1. AfterAuth1(0, None, "Failed", nvs, c)
    BY <1>1, <1>2
  <2>2. QED
    BY <1>1, <2>1, AfterAuth1Facts
<1>3. ASSUME NEW s \in Slots, Authenticated(s, "Standard")
      PROVE  IInv' /\ TransactionStep
  BY <1>1, <1>3, AuthenticatedFacts
<1>4. QED
  BY <1>2, <1>3 DEF Auth1

\* The URSK is refused, or the ladder goes on from where it offered it.
LEMMA Exchange98Facts ==
  ASSUME IInv, NEW r \in Response, Exchange98(r)
  PROVE  IInv' /\ TransactionStep
<1>1. /\ at = "EXCHANGE_98" /\ TypeOK /\ at \in Undecided /\ mem = nvs
      /\ flow \in {"Fast", "Standard"} /\ found \in Slots
      /\ found \in SlotsOf(nvs) /\ nvs \in Stores
      /\ issuer \in Issuers \union {0}
      /\ ctx \in {"none", "keyless", "exchange", "stepup"}
  BY InvFacts
     DEF Exchange98, IInv, OfferNamesEndpoint, TypeOK, Undecided, Request, StepUp
<1>2. CASE flow = "Fast" /\ Settle(issuer, found, flow, mem, ctx)
  <2>1. Settle(issuer, found, flow, nvs, ctx)
    BY <1>1, <1>2
  <2>2. QED
    BY <1>1, <1>2, <2>1, SettleFacts
<1>3. CASE flow # "Fast" /\ AfterAuth1(issuer, found, flow, Rekeyed(mem, found), ctx)
  <2>1. AfterAuth1(issuer, found, flow, Rekeyed(nvs, found), ctx)
    BY <1>1, <1>3
  <2>2. QED
    BY <1>1, <1>3, <2>1, AfterAuth1Facts
<1>4. CASE /\ at' = "Failed"
           /\ UNCHANGED <<config, target, ctx, flow, issuer, found, mem, nvs,
                          chunks, assembled>>
  <2>1. Slots' = Slots
    BY <1>4 DEF Slots
  <2>2. TypeOK'
    BY <1>1, <1>4, <2>1 DEF TypeOK, Rest
  <2>3. IInv'
    BY <1>1, <1>4, <2>2
       DEF IInv, UndecidedBlank, OfferNamesEndpoint, DoneIsGranted,
           UnsavedIsOneKey, StepUp
  <2>4. Decision = "pending" /\ Decision' = "failed"
    BY <1>1, <1>4 DEF Decision
  <2>5. QED
    BY <1>4, <2>3, <2>4 DEF TransactionStep, Transaction!Next, Transaction!Refuse
<1>5. QED
  BY <1>2, <1>3, <1>4 DEF Exchange98

\* The step-up SELECT decides nothing.
LEMMA SelectFacts ==
  ASSUME IInv, Select
  PROVE  IInv' /\ TransactionStep
<1>1. at = "SELECT" /\ TypeOK
  BY DEF Select, IInv
<1>2. Slots' = Slots
  BY DEF Select, Slots
<1>3. TypeOK'
  BY <1>1, <1>2 DEF Select, TypeOK, Request
<1>4. at \in Undecided /\ at' \in Undecided /\ at \in StepUp /\ at' \in StepUp
  BY <1>1 DEF Select, Undecided, Request, StepUp
<1>5. QED
  BY <1>3, <1>4, WaitsOn DEF Select

-----------------------------------------------------------------------------
\* In step-up the store in memory is the saved one, but for the key of the
\* endpoint that was found.
LEMMA StepUpStore ==
  ASSUME IInv, at \in StepUp
  PROVE  /\ mem \in Stores /\ nvs \in Stores
         /\ \/ flow = "Failed" /\ found = None /\ mem = nvs
            \/ flow = "Standard" /\ found \in SlotsOf(nvs) /\ found \in SlotsOf(mem)
               /\ found # None /\ mem = Rekeyed(nvs, found) /\ Rekeyed(mem, found) = mem
         /\ Granted(mem)
<1>1. mem \in Stores /\ nvs \in Stores /\ Slots = SlotsOf(mem)
  BY InvFacts
<1>2. CASE flow = "Failed" /\ found = None /\ mem = nvs
  BY <1>1, <1>2 DEF Granted
<1>3. CASE flow = "Standard" /\ found \in Slots /\ mem = Rekeyed(nvs, found)
  <2>1. found \in Issuers \X (1 .. MaxEndpoints) /\ found # None
    BY <1>3 DEF Slots, None, Issuers
  <2>2. found[2] \in DOMAIN nvs[found[1]]
    <3> DEFINE e == [nvs[found[1]][found[2]] EXCEPT !.key = "set"]
               q == [nvs[found[1]] EXCEPT ![found[2]] = e]
    <3>1. mem = [nvs EXCEPT ![found[1]] = q] /\ DOMAIN q = DOMAIN nvs[found[1]]
      BY <1>3 DEF Rekeyed
    <3>2. DOMAIN mem[found[1]] = DOMAIN nvs[found[1]]
      BY <1>1, <2>1, <3>1 DEF Stores
    <3>3. QED
      BY <1>3, <3>2 DEF Slots
  <2>3. found \in SlotsOf(nvs)
    BY <2>1, <2>2 DEF SlotsOf
  <2>4. /\ Rekeyed(mem, found) = mem
        /\ \E i \in Issuers : \E k \in DOMAIN nvs[i] :
             mem = [nvs EXCEPT ![i][k] = Transaction!Keyed(@)]
    BY <1>1, <1>3, <2>3, RekeyedFacts
  <2>5. QED
    BY <1>1, <1>3, <2>1, <2>3, <2>4 DEF Granted
<1>4. QED
  BY <1>2, <1>3 DEF IInv, UnsavedIsOneKey

\* Step-up settles, with or without a document.
LEMMA StepUpEnds ==
  ASSUME IInv, at \in StepUp, StepUpFails \/ StepUpSucceeds
  PROVE  IInv' /\ TransactionStep
<1>1. /\ TypeOK /\ at \in Undecided
      /\ issuer \in Issuers \union {0}
      /\ ctx \in {"none", "keyless", "exchange", "stepup"}
  BY DEF IInv, TypeOK, StepUp, Undecided, Request
<1>2. CASE StepUpFails
  <2>1. Settle(issuer, found, flow, mem, ctx)
    BY <1>2 DEF StepUpFails
  <2>2. found \in SlotsOf(mem) \union {None} /\ mem \in Stores
        /\ ((flow = "Standard" /\ Granted(mem)) \/ (flow = "Failed" /\ mem = nvs))
    BY StepUpStore
  <2>3. QED
    BY <1>1, <2>1, <2>2, SettleFacts
<1>3. CASE StepUpSucceeds
  <2>1. PICK j \in Issuers, d \in Devices :
          IF found = None
          THEN /\ Len(mem[j]) < MaxEndpoints
               /\ Settle(j, <<j, Len(mem[j]) + 1>>, "Attestation",
                         Enrolled(mem, j, d), ctx)
          ELSE Settle(j, found, "Attestation", Rekeyed(mem, found), ctx)
    BY <1>3 DEF StepUpSucceeds
  <2>2. CASE found = None
    <3>1. mem = nvs /\ mem \in Stores
      BY <2>2, StepUpStore
    <3>2. /\ Enrolled(mem, j, d) \in Stores
          /\ <<j, Len(mem[j]) + 1>> \in SlotsOf(Enrolled(mem, j, d))
      BY <2>1, <2>2, <3>1, EnrolledFacts
    <3>3. Granted(Enrolled(mem, j, d))
      BY <3>1 DEF Granted, Enrolled
    <3>4. QED
      BY <1>1, <2>1, <2>2, <3>2, <3>3, SettleFacts
  <2>3. CASE found # None
    <3>1. Rekeyed(mem, found) = mem /\ mem \in Stores /\ found \in SlotsOf(mem)
          /\ Granted(mem)
      BY <2>3, StepUpStore
    <3>2. Settle(j, found, "Attestation", mem, ctx)
      BY <2>1, <2>3, <3>1
    <3>3. QED
      BY <1>1, <3>1, <3>2, SettleFacts
  <2>4. QED
    BY <2>2, <2>3
<1>4. QED
  BY <1>2, <1>3

\* An ENVELOPE chunk waits for the next, collects, or ends step-up.
LEMMA EnvelopeFacts ==
  ASSUME IInv, NEW r \in Response, Envelope(r)
  PROVE  IInv' /\ TransactionStep
<1>1. at = "ENVELOPE" /\ TypeOK /\ at \in StepUp /\ at \in Undecided
  BY DEF Envelope, IInv, StepUp, Undecided, Request
<1>2. ASSUME /\ at' \in {"ENVELOPE", "GET_RESPONSE"}
             /\ UNCHANGED <<config, target, ctx, flow, issuer, found, mem, nvs>>
             /\ chunks' \in 0 .. MaxChunks /\ assembled' \in 0 .. MaxAssembled
      PROVE  IInv' /\ TransactionStep
  <2>1. Slots' = Slots
    BY <1>2 DEF Slots
  <2>2. TypeOK'
    BY <1>1, <1>2, <2>1 DEF TypeOK, Request
  <2>3. at' \in Undecided /\ at' \in StepUp
    BY <1>2 DEF Undecided, Request, StepUp
  <2>4. QED
    BY <1>1, <1>2, <2>2, <2>3, WaitsOn
<1>3. CASE StepUpFails \/ StepUpSucceeds
  BY <1>1, <1>3, StepUpEnds
<1>4. CASE /\ chunks > 1 /\ chunks' = chunks - 1
           /\ UNCHANGED <<config, target, at, ctx, flow, issuer, found, mem, nvs,
                          assembled>>
  <2>1. chunks' \in 0 .. MaxChunks /\ assembled' \in 0 .. MaxAssembled
    BY <1>1, <1>4, ConfigAssumption DEF TypeOK
  <2>2. QED
    BY <1>1, <1>2, <1>4, <2>1
<1>5. CASE /\ at' = "GET_RESPONSE" /\ assembled' \in {0, 1}
           /\ UNCHANGED <<config, target, ctx, flow, issuer, found, mem, nvs, chunks>>
  <2>1. chunks' \in 0 .. MaxChunks /\ assembled' \in 0 .. MaxAssembled
    BY <1>1, <1>5, ConfigAssumption DEF TypeOK
  <2>2. QED
    BY <1>2, <1>5, <2>1
<1>6. QED
  BY <1>3, <1>4, <1>5 DEF Envelope

\* GET RESPONSE collects, or ends step-up.
LEMMA GetResponseFacts ==
  ASSUME IInv, NEW r \in Response, GetResponse(r)
  PROVE  IInv' /\ TransactionStep
<1>1. at = "GET_RESPONSE" /\ TypeOK /\ at \in StepUp /\ at \in Undecided
  BY DEF GetResponse, IInv, StepUp, Undecided, Request
<1>2. CASE StepUpFails \/ StepUpSucceeds
  BY <1>1, <1>2, StepUpEnds
<1>3. CASE /\ UNCHANGED <<config, target, at, ctx, flow, issuer, found, mem, nvs,
                          chunks>>
           /\ (assembled' = assembled \/
               (assembled < MaxAssembled /\ assembled' = assembled + 1))
  <2>1. assembled' \in 0 .. MaxAssembled
    BY <1>1, <1>3, ConfigAssumption DEF TypeOK
  <2>2. Slots' = Slots
    BY <1>3 DEF Slots
  <2>3. TypeOK'
    BY <1>1, <1>3, <2>1, <2>2 DEF TypeOK
  <2>4. QED
    BY <1>1, <1>3, <2>3, WaitsOn
<1>4. QED
  BY <1>2, <1>3 DEF GetResponse, ladder

-----------------------------------------------------------------------------
\* From a decision to its report, or straight to rest.
LEMMA ReportFacts ==
  ASSUME IInv, at \in {"EXCHANGE_97", "CONTROL_FLOW"},
         at' \in {Outcome, "CONTROL_FLOW"},
         UNCHANGED <<config, target, ctx, flow, issuer, found, mem, nvs, chunks,
                     assembled>>
  PROVE  IInv' /\ TransactionStep
<1>1. at' \in {"Done", "Failed", "CONTROL_FLOW"}
  BY DEF Outcome
<1>2. TypeOK /\ mem = nvs
  BY InvFacts DEF IInv, StepUp
<1>3. Slots' = Slots
  BY DEF Slots
<1>4. TypeOK'
  BY <1>1, <1>2, <1>3 DEF TypeOK, Rest, Request
<1>5. IInv'
  BY <1>1, <1>2, <1>4
     DEF IInv, UndecidedBlank, OfferNamesEndpoint, DoneIsGranted,
         UnsavedIsOneKey, StepUp, Outcome
<1>6. CASE at' = "CONTROL_FLOW"
  BY <1>5, <1>6 DEF Decision, TransactionStep
<1>7. CASE at' = Outcome
  <2>1. CASE flow = "Failed"
    BY <1>5, <1>7, <2>1
       DEF Outcome, Decision, TransactionStep, Transaction!Next, Transaction!Report
  <2>2. CASE flow # "Failed"
    BY <1>5, <1>7, <2>2
       DEF Outcome, Decision, TransactionStep, Transaction!Next, Transaction!Report
  <2>3. QED
    BY <2>1, <2>2
<1>8. QED
  BY <1>6, <1>7

\* Leaving rest, and power loss.
LEMMA RestingFacts ==
  ASSUME IInv
  PROVE  /\ \A t \in Target : Begin(t) => IInv' /\ TransactionStep
         /\ Crash => IInv' /\ TransactionStep
<1>1. TypeOK /\ nvs \in Stores
  BY InvFacts DEF IInv
<1>2. 0 \in 0 .. MaxChunks /\ 0 \in 0 .. MaxAssembled
  BY ConfigAssumption
<1>3. ASSUME NEW t \in Target, Begin(t) PROVE IInv' /\ TransactionStep
  <2>1. /\ at \in Rest /\ at' = "AUTH0" /\ target' = t
        /\ mem' = mem /\ nvs' = nvs /\ config' = config
        /\ ctx' = "none" /\ flow' = "Failed" /\ issuer' = 0 /\ found' = None
        /\ chunks' = 0 /\ assembled' = 0
    BY <1>3 DEF Begin, FreshSession
  <2>2. TypeOK'
    BY <1>1, <1>2, <2>1 DEF TypeOK, Request
  <2>3. mem = nvs
    BY <2>1, InvFacts DEF Rest, StepUp
  <2>4. IInv'
    BY <2>1, <2>2, <2>3
       DEF IInv, UndecidedBlank, OfferNamesEndpoint, DoneIsGranted,
           UnsavedIsOneKey, StepUp
  <2>5. QED
    BY <2>1, <2>4
       DEF Rest, Decision, TransactionStep, Transaction!Next, Transaction!Start
<1>4. ASSUME Crash PROVE IInv' /\ TransactionStep
  <2>1. /\ at' = "Idle" /\ mem' = nvs /\ nvs' = nvs /\ config' = config
        /\ target' = target
        /\ ctx' = "none" /\ flow' = "Failed" /\ issuer' = 0 /\ found' = None
        /\ chunks' = 0 /\ assembled' = 0
    BY <1>4 DEF Crash, FreshSession
  <2>2. TypeOK'
    BY <1>1, <1>2, <2>1 DEF TypeOK, Rest, Stores
  <2>3. IInv'
    BY <2>1, <2>2
       DEF IInv, UndecidedBlank, OfferNamesEndpoint, DoneIsGranted,
           UnsavedIsOneKey, StepUp
  <2>4. QED
    BY <2>1, <2>3 DEF Decision, TransactionStep, Transaction!Next, Transaction!PowerLoss
<1>5. QED
  BY <1>3, <1>4

-----------------------------------------------------------------------------
\* A fresh reader has nothing unsaved and has decided nothing.
LEMMA InitInv == Init => IInv /\ Transaction!Init
<1> SUFFICES ASSUME Init PROVE IInv /\ Transaction!Init
  OBVIOUS
<1>1. 0 \in 0 .. MaxChunks /\ 0 \in 0 .. MaxAssembled
  BY ConfigAssumption
<1>2. \A i \in Issuers : mem[i] \in Seq(Endpoint) /\ Len(mem[i]) <= 1
  <2>1. ASSUME NEW i \in Issuers
        PROVE  mem[i] \in Seq(Endpoint) /\ Len(mem[i]) <= 1
    <3>1. CASE mem[i] = <<>>
      BY <3>1
    <3>2. ASSUME NEW d \in Devices, NEW k \in {"none", "set"},
                 mem[i] = <<[pk |-> d, key |-> k]>>
          PROVE  mem[i] \in Seq(Endpoint) /\ Len(mem[i]) <= 1
      <4> DEFINE e == [pk |-> d, key |-> k]
      <4>1. e \in Endpoint
        BY DEF Endpoint
      <4>2. mem[i] = <<e>>
        BY <3>2
      <4> HIDE DEF e
      <4>3. QED
        BY <4>1, <4>2
    <3>3. QED
      BY <3>1, <3>2 DEF Init
  <2>2. QED
    BY <2>1
<1>3. mem \in [Issuers -> Seq(Endpoint)]
  <2>1. mem = [i \in Issuers |-> mem[i]]
    BY DEF Init
  <2>2. QED
    BY <1>2, <2>1
<1>4. TypeOK
  BY <1>1, <1>3 DEF Init, TypeOK, Target, Rest
<1>5. IInv
  BY <1>4
     DEF Init, IInv, UndecidedBlank, OfferNamesEndpoint, DoneIsGranted,
         UnsavedIsOneKey, StepUp
<1>6. Transaction!Init
  BY <1>2 DEF Init, Transaction!Init, Decision
<1>7. QED
  BY <1>5, <1>6

\* Every step keeps IInv and is an abstract step or a stutter.
LEMMA StepInv == IInv /\ [Next]_ladder => IInv' /\ TransactionStep
<1> SUFFICES ASSUME IInv, [Next]_ladder PROVE IInv' /\ TransactionStep
  OBVIOUS
<1>1. CASE UNCHANGED ladder
  BY <1>1 DEF ladder, IInv, TypeOK, Slots, UndecidedBlank, OfferNamesEndpoint, DoneIsGranted,
              UnsavedIsOneKey, Rekeyed, Decision, TransactionStep
<1>2. ASSUME NEW r \in Response, Respond(r) PROVE IInv' /\ TransactionStep
  <2>1. CASE Exchange97(r) \/ ControlFlow
    BY <2>1, ReportFacts DEF Exchange97, ControlFlow
  <2>2. QED
    BY <1>2, <2>1, Auth0Facts, Auth1Facts, Exchange98Facts, SelectFacts,
       EnvelopeFacts, GetResponseFacts
       DEF Respond
<1>3. QED
  BY <1>1, <1>2, RestingFacts DEF Next

\* IInv is invariant.
LEMMA Invariance == Spec => []IInv
BY InitInv, StepInv, PTL DEF Spec

(***************************************************************************)
(* Every value the ladder and its store take is one the code's types have. *)
(***************************************************************************)
THEOREM TypeCorrect == Spec => []TypeOK
<1>1. IInv => TypeOK
  BY DEF IInv
<1>2. QED
  BY <1>1, Invariance, PTL

(***************************************************************************)
(* Between transactions the saved store is the store in memory, however    *)
(* the last one ended (Profile.cpp:263-265).                               *)
(***************************************************************************)
THEOREM Durable == Spec => []StoreDurable
<1>1. IInv => StoreDurable
  BY DEF IInv, UnsavedIsOneKey, StoreDurable, StepUp, Rest
<1>2. QED
  BY <1>1, Invariance, PTL

(***************************************************************************)
(* The ladder implements the abstract transaction: one decision, one key   *)
(* or one endpoint saved by a grant, nothing by a refusal or power loss.   *)
(***************************************************************************)
THEOREM ImplementsTransaction == Spec => TransactionSpec
<1>1. Init => Transaction!Init
  BY InitInv
<1>2. IInv /\ [Next]_ladder => [Transaction!Next]_<<Decision, nvs>>
  BY StepInv DEF TransactionStep
<1>3. QED
  BY <1>1, <1>2, Invariance, PTL DEF Spec, TransactionSpec, Transaction!Spec

-----------------------------------------------------------------------------
(***************************************************************************)
(* What finalize names: the endpoint found stays in the store, and the one *)
(* a standard flow found stays the first of its public key.                *)
(***************************************************************************)
FirstIn(store, s) ==
  /\ s \in SlotsOf(store)
  /\ \A t \in SlotsOf(store) :
       store[t[1]][t[2]].pk = store[s[1]][s[2]].pk => t = s \/ Before(s, t)

KeyedIn(store, s) == store[s[1]][s[2]].key = "set"

\* Where a standard flow has no key in the store yet, or never will have.
Unkeyed == {"EXCHANGE_98", "Failed"}

FoundStays ==
  /\ flow # "Failed" =>
       /\ found \in SlotsOf(mem)
       /\ issuer = found[1] \/ flow = "Attestation"
       /\ KeyedIn(mem, found) \/ (flow = "Standard" /\ at \in Unkeyed)
  /\ flow = "Standard" => FirstIn(mem, found)

\* Keying any endpoint leaves the first of a public key the first.
LEMMA RekeyedKeepsFirst ==
  ASSUME NEW store \in Stores, NEW r \in SlotsOf(store), NEW s, FirstIn(store, s)
  PROVE  FirstIn(Rekeyed(store, r), s)
<1> DEFINE i == r[1]
           k == r[2]
           e == [store[i][k] EXCEPT !.key = "set"]
           q == [store[i] EXCEPT ![k] = e]
           g == [store EXCEPT ![i] = q]
<1>1. i \in Issuers /\ k \in DOMAIN store[i] /\ store[i] \in Seq(Endpoint)
  BY DEF Stores, SlotsOf
<1>2. store[i][k] \in Endpoint
  BY <1>1
<1>3. e.pk = store[i][k].pk
  BY <1>2 DEF Endpoint
<1>4. ASSUME NEW t \in SlotsOf(store) PROVE g[t[1]][t[2]].pk = store[t[1]][t[2]].pk
  <2>1. t[1] \in Issuers /\ t[2] \in DOMAIN store[t[1]]
    BY DEF SlotsOf
  <2>2. CASE t[1] = i /\ t[2] = k
    <3>1. g[i] = q /\ q[k] = e
      BY <1>1 DEF Stores
    <3>2. QED
      BY <1>3, <2>2, <3>1
  <2>3. CASE t[1] = i /\ t[2] # k
    <3>1. g[i] = q /\ q[t[2]] = store[i][t[2]]
      BY <1>1, <2>1, <2>3 DEF Stores
    <3>2. QED
      BY <2>3, <3>1
  <2>4. CASE t[1] # i
    BY <2>1, <2>4 DEF Stores
  <2>5. QED
    BY <2>2, <2>3, <2>4
<1>5. Rekeyed(store, r) = g
  BY <1>1 DEF Rekeyed
<1>6. SlotsOf(Rekeyed(store, r)) = SlotsOf(store)
  BY RekeyedFacts
<1> HIDE DEF g
<1>7. QED
  BY <1>4, <1>5, <1>6 DEF FirstIn

\* How a step may change what was found, and the store it was found in.
FoundStep ==
  \/ flow' = "Failed"
  \/ /\ UNCHANGED <<flow, issuer, found, mem>>
     /\ flow = "Standard" /\ at \in Unkeyed => at' \in Unkeyed
  \/ /\ flow' = "Fast" /\ found' \in SlotsOf(mem) /\ mem' = mem
     /\ issuer' = found'[1] /\ KeyedIn(mem, found')
  \/ /\ flow' = "Standard" /\ FirstIn(mem, found') /\ issuer' = found'[1]
     /\ (mem' = mem /\ at' \in Unkeyed) \/ mem' = Rekeyed(mem, found')
  \/ flow' = "Attestation" /\ found' \in SlotsOf(mem') /\ KeyedIn(mem', found')

\* Each of these keeps what was found in the store, and first if it was.
LEMMA FoundStepFacts ==
  ASSUME IInv, FoundStays, FoundStep
  PROVE  FoundStays'
<1>1. mem \in Stores
  BY InvFacts
<1>2. CASE flow' = "Failed"
  BY <1>2 DEF FoundStays
<1>3. CASE /\ UNCHANGED <<flow, issuer, found, mem>>
           /\ flow = "Standard" /\ at \in Unkeyed => at' \in Unkeyed
  BY <1>3 DEF FoundStays, FirstIn, SlotsOf, KeyedIn
<1>4. CASE /\ flow' = "Fast" /\ found' \in SlotsOf(mem) /\ mem' = mem
           /\ issuer' = found'[1] /\ KeyedIn(mem, found')
  BY <1>4 DEF FoundStays, KeyedIn
<1>5. CASE /\ flow' = "Standard" /\ FirstIn(mem, found') /\ issuer' = found'[1]
           /\ (mem' = mem /\ at' \in Unkeyed) \/ mem' = Rekeyed(mem, found')
  <2>1. FirstIn(mem', found')
    BY <1>1, <1>5, RekeyedKeepsFirst DEF FirstIn
  <2>2. found' \in SlotsOf(mem')
    BY <2>1 DEF FirstIn
  <2>3. KeyedIn(mem', found') \/ at' \in Unkeyed
    <3>1. found' \in SlotsOf(mem)
      BY <1>5 DEF FirstIn
    <3>2. QED
      BY <1>1, <1>5, <3>1, RekeyedFacts DEF KeyedIn
  <2>4. QED
    BY <1>5, <2>1, <2>2, <2>3 DEF FoundStays
<1>6. CASE flow' = "Attestation" /\ found' \in SlotsOf(mem') /\ KeyedIn(mem', found')
  BY <1>6 DEF FoundStays
<1>7. QED
  BY <1>2, <1>3, <1>4, <1>5, <1>6 DEF FoundStep

\* After AUTH1 the result so far stands for what was found.
LEMMA AfterAuth1Found ==
  ASSUME NEW i, NEW s, NEW f, NEW store, NEW c, AfterAuth1(i, s, f, store, c)
  PROVE  flow' = f /\ issuer' = i /\ found' = s /\ mem' = store
BY DEF AfterAuth1, Settle

\* Step-up keeps what AUTH1 found, or finds what it enrols.
LEMMA StepUpFound ==
  ASSUME IInv, at \in StepUp, FoundStays, StepUpFails \/ StepUpSucceeds
  PROVE  FoundStep
<1>1. CASE StepUpFails
  BY <1>1 DEF StepUpFails, Settle, FoundStep, StepUp, Unkeyed
<1>2. CASE StepUpSucceeds
  <2>1. PICK j \in Issuers, d \in Devices :
          IF found = None
          THEN /\ Len(mem[j]) < MaxEndpoints
               /\ Settle(j, <<j, Len(mem[j]) + 1>>, "Attestation",
                         Enrolled(mem, j, d), ctx)
          ELSE Settle(j, found, "Attestation", Rekeyed(mem, found), ctx)
    BY <1>2 DEF StepUpSucceeds
  <2>2. CASE found = None
    <3>1. flow' = "Attestation" /\ found' = <<j, Len(mem[j]) + 1>>
          /\ mem' = Enrolled(mem, j, d) /\ Len(mem[j]) < MaxEndpoints
      BY <2>1, <2>2 DEF Settle
    <3>2. mem \in Stores
      BY InvFacts
    <3>3. QED
      BY <3>1, <3>2, EnrolledFacts DEF FoundStep, KeyedIn
  <2>3. CASE found # None
    <3>1. flow' = "Attestation" /\ found' = found /\ mem' = Rekeyed(mem, found)
      BY <2>1, <2>3 DEF Settle
    <3>2. Rekeyed(mem, found) = mem /\ found \in SlotsOf(mem)
      BY <2>3, StepUpStore
    <3>3. KeyedIn(mem, found)
      BY <2>3, StepUpStore DEF FoundStays, StepUp, Unkeyed
    <3>4. QED
      BY <3>1, <3>2, <3>3 DEF FoundStep
  <2>4. QED
    BY <2>2, <2>3
<1>3. QED
  BY <1>1, <1>2

\* FoundStays is inductive, given IInv.
LEMMA FoundInv == IInv /\ FoundStays /\ [Next]_ladder => FoundStays'
<1> SUFFICES ASSUME IInv, FoundStays, [Next]_ladder PROVE FoundStep
  BY FoundStepFacts
<1>1. Slots = SlotsOf(mem)
  BY InvFacts
<1>2. CASE UNCHANGED ladder \/ Select \/ ControlFlow
           \/ \E r \in Response : Exchange97(r)
  BY <1>2 DEF ladder, Select, ControlFlow, Exchange97, Outcome, FoundStep, Unkeyed
<1>3. CASE Crash \/ \E t \in Target : Begin(t)
  BY <1>3 DEF Crash, Begin, FreshSession, FoundStep
<1>4. ASSUME NEW r \in Response, Auth0(r) PROVE FoundStep
  <2>1. CASE UNCHANGED <<flow, issuer, found, mem>> /\ at = "AUTH0"
    BY <2>1 DEF FoundStep, Unkeyed
  <2>2. ASSUME NEW s \in Slots, At(s).key = "set", Authenticated(s, "Fast")
        PROVE  FoundStep
    BY <1>1, <2>2 DEF Authenticated, Settle, FoundStep, KeyedIn, At
  <2>3. QED
    BY <1>4, <2>1, <2>2 DEF Auth0
<1>5. ASSUME NEW r \in Response, Auth1(r) PROVE FoundStep
  <2>1. ASSUME NEW d \in Devices, NEW s \in Slots, IsFirstMatch(s, d),
               Authenticated(s, "Standard")
        PROVE  FoundStep
    <3>1. FirstIn(mem, s)
      BY <1>1, <2>1 DEF IsFirstMatch, Matches, At, FirstIn
    <3>2. /\ flow' = "Standard" /\ found' = s /\ issuer' = s[1]
          /\ (mem' = mem /\ at' \in Unkeyed) \/ mem' = Rekeyed(mem, s)
      BY <2>1, AfterAuth1Found DEF Authenticated, Unkeyed
    <3>3. QED
      BY <3>1, <3>2 DEF FoundStep
  <2>2. QED
    BY <1>5, <2>1, AfterAuth1Found DEF Auth1, FoundStep
<1>6. ASSUME NEW r \in Response, Exchange98(r) PROVE FoundStep
  <2>1. flow \in {"Fast", "Standard"}
    BY <1>6 DEF Exchange98, IInv, OfferNamesEndpoint
  <2>2. CASE flow = "Fast"
    BY <1>6, <2>2 DEF Exchange98, Settle, FoundStep
  <2>3. CASE flow = "Standard"
    <3>1. FirstIn(mem, found)
      BY <2>3 DEF FoundStays
    <3>2. /\ UNCHANGED <<flow, issuer, found>>
          /\ (mem' = mem /\ at' \in Unkeyed) \/ mem' = Rekeyed(mem, found)
      BY <1>6, <2>3, AfterAuth1Found DEF Exchange98, Unkeyed
    <3>3. issuer = found[1]
      BY <2>3 DEF FoundStays
    <3>4. QED
      BY <2>3, <3>1, <3>2, <3>3 DEF FoundStep
  <2>4. QED
    BY <2>1, <2>2, <2>3
<1>7. ASSUME NEW r \in Response, Envelope(r) \/ GetResponse(r) PROVE FoundStep
  <2>1. at \in StepUp
    BY <1>7 DEF Envelope, GetResponse, StepUp
  <2>2. CASE StepUpFails \/ StepUpSucceeds
    BY <2>1, <2>2, StepUpFound
  <2>3. CASE UNCHANGED <<flow, issuer, found, mem>>
    BY <2>1, <2>3 DEF FoundStep, StepUp, Unkeyed
  <2>4. QED
    BY <1>7, <2>2, <2>3 DEF Envelope, GetResponse, ladder
<1>8. QED
  BY <1>2, <1>3, <1>4, <1>5, <1>6, <1>7 DEF Next, Respond

\* The entry that a lookup by issuer and public key comes to.
LEMMA LookupFinds ==
  ASSUME NEW same, same \subseteq Issuers \X (1 .. MaxEndpoints), same # {},
         NEW i, \A s \in same : s[1] = i
  PROVE  \E s \in same : \A t \in same : t = s \/ Before(s, t)
<1> DEFINE T == {k \in 1 .. MaxEndpoints : <<i, k>> \in same}
<1>1. \A s \in same : s = <<i, s[2]>> /\ s[2] \in T
  OBVIOUS
<1>2. T \subseteq Nat /\ T # {}
  BY <1>1, ConfigAssumption
<1>3. PICK m \in T : \A k \in T : m <= k
  <2> HIDE DEF T
  <2>1. PICK m \in T : \A k \in T : ~ (<<k, m>> \in OpToRel(<, Nat))
    BY <1>2, WFMin, NatLessThanWellFounded, Zenon
  <2>2. ASSUME NEW k \in T PROVE m <= k
    <3>1. k \in Nat /\ m \in Nat
      BY <1>2
    <3>2. ~ (k < m)
      BY <2>1, <3>1 DEF OpToRel
    <3>3. QED
      BY <3>1, <3>2
  <2>3. QED
    BY <2>2
<1>4. <<i, m>> \in same
  OBVIOUS
<1>5. ASSUME NEW t \in same PROVE t = <<i, m>> \/ Before(<<i, m>>, t)
  <2>1. t = <<i, t[2]>> /\ t[2] \in Nat /\ m \in Nat /\ m <= t[2]
    BY <1>1, <1>2, <1>3
  <2>2. t[2] = m \/ m < t[2]
    BY <2>1
  <2>3. QED
    BY <2>1, <2>2 DEF Before
<1>6. QED
  BY <1>4, <1>5

\* The endpoint that was found has a key, and is the one that is named.
LEMMA NamedIsFound == IInv /\ FoundStays => OutcomeNamesDevice
<1> SUFFICES ASSUME IInv, FoundStays, at = "Done", flow # "Failed",
                    flow = "Standard" => issuer = found[1]
             PROVE  /\ found \in Slots /\ At(found).key = "set"
                    /\ issuer = found[1] =>
                         Named # None /\ At(Named).pk = At(found).pk
                    /\ flow = "Standard" => Named = found
  BY DEF OutcomeNamesDevice, IInv, DoneIsGranted, FoundStays
<1>0. found \in Slots /\ At(found).key = "set"
  BY InvFacts DEF FoundStays, KeyedIn, At, Unkeyed
<1> SUFFICES ASSUME issuer = found[1]
             PROVE  /\ Named # None
                    /\ At(Named).pk = At(found).pk
                    /\ flow = "Standard" => Named = found
  BY <1>0
<1> DEFINE same == {s \in Matches(At(found).pk) : s[1] = issuer}
           First(s) == \A t \in same : t = s \/ Before(s, t)
<1>1. Slots = SlotsOf(mem) /\ found \in Slots
  BY InvFacts DEF FoundStays
<1>2. same \subseteq Slots /\ found \in same
      /\ \A s \in same : At(s).pk = At(found).pk
  BY <1>1 DEF Matches
<1>3. \E s \in same : First(s)
  BY <1>2, LookupFinds DEF Slots
<1>4. Named = CHOOSE s \in same : First(s)
  BY <1>2 DEF Named
<1>5. Named \in same /\ First(Named)
  BY <1>3, <1>4
<1>6. Named # None /\ At(Named).pk = At(found).pk
  BY <1>2, <1>5 DEF Slots, None, Issuers
<1>7. ASSUME flow = "Standard" PROVE Named = found
  <2>1. Named = found \/ Before(found, Named)
    BY <1>1, <1>2, <1>5, <1>7 DEF FoundStays, FirstIn, At
  <2>2. found = Named \/ Before(Named, found)
    BY <1>2, <1>5
  <2>3. /\ Named \in Issuers \X (1 .. MaxEndpoints)
        /\ found \in Issuers \X (1 .. MaxEndpoints)
    BY <1>2, <1>5 DEF Slots
  <2>4. ~(Before(found, Named) /\ Before(Named, found))
    BY <2>3, ConfigAssumption DEF Before, Issuers
  <2>5. QED
    BY <2>1, <2>2, <2>4
<1>8. QED
  BY <1>6, <1>7

(***************************************************************************)
(* What finalize reports names the device that was authenticated, and      *)
(* after a standard flow the entry that got the new key, unless step-up    *)
(* went by another issuer (Profile.cpp:310-322).                           *)
(***************************************************************************)
THEOREM OutcomeNames == Spec => []OutcomeNamesDevice
<1>1. Init => FoundStays
  BY DEF Init, FoundStays
<1>2. QED
  BY <1>1, NamedIsFound, FoundInv, Invariance, PTL DEF Spec
=============================================================================
