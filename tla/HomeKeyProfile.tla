--------------------------- MODULE HomeKeyProfile ---------------------------
(***************************************************************************)
(* The HomeKey ladder over NFC: AUTH0 (FAST), AUTH1 (STANDARD), attestation*)
(* and CONTROL FLOW, and what it does to the credential store.  One action *)
(* per response of the user device, taking step() to its next request or   *)
(* to its return.  Transactions follow one another on one store; power may *)
(* be lost in any of them.                                                 *)
(*                                                                         *)
(* Cryptography is the choice of its result.  A device answers for itself: *)
(* what it proves, and the document it presents, is about its own key.     *)
(***************************************************************************)
EXTENDS Naturals, Sequences

CONSTANTS
  NumIssuers,     \* issuers in the store, in its order
  Devices,        \* public keys of user devices
  Targets,        \* rungs the reader may be configured to aim at
  MaxEndpoints,   \* bound: endpoints enrolled per issuer
  MaxAssembled    \* kMaxPreChainingPayload, in response chunks

Issuers == 1 .. NumIssuers

ASSUME HomeKeyAssumption ==
  /\ NumIssuers \in Nat /\ MaxEndpoints \in Nat /\ MaxAssembled \in Nat \ {0}
  /\ "none" \notin Devices

VARIABLES
  target,         \* target_flow
  phone,          \* the device in the field, or none yet
  at,             \* the request being answered, or where step() returned
  flow,           \* flowUsed
  issuer,         \* foundIssuer, 0 for nullptr
  found,          \* foundEndpoint, as <<issuer, index>>
  fresh,          \* persistentKey: none, or a key that the phone has or lost
  result,         \* result_: the flow and the identifiers step() returned
  mem, nvs,       \* the store: in memory, and as last saved
  assembled,      \* response chunks collected by GET RESPONSE
  disturbed       \* history: some response was not what the phone would say

choices == <<target, phone>>
progress == <<flow, issuer, found, fresh>>
saved == <<mem, nvs>>
ladder == <<choices, at, progress, result, saved, assembled, disturbed>>

Target == {"Fast", "Standard", "StepUp"}

ASSUME TargetAssumption == Targets \subseteq Target

Rest == {"Idle", "Done", "Failed"}

Request == {"AUTH0", "AUTH1", "EXCHANGE", "ATTESTATION", "SELECT", "ENVELOPE1",
            "ENVELOPE2", "GET_RESPONSE", "SUCCESS", "FAILURE"}

\* SW 9000, SW 61xx, any other outcome (no answer included), or SW 9000 on
\* content that is malformed or does not verify.
Response == {"ok", "more", "bad", "odd"}

\* A persistent key: absent, one its device no longer has, one it shares.
Key == {"none", "stale", "shared"}

Endpoint == [pk : Devices, key : Key]

None == <<0, 0>>

NoResult == [flow |-> "Failed", issuer |-> 0, pk |-> {}]

\* step()'s own variables, at its start and once it has failed.
NoProgress == flow' = "Failed" /\ issuer' = 0 /\ found' = None /\ fresh' = "none"

FreshSession ==
  /\ NoProgress
  /\ result' = NoResult /\ assembled' = 0 /\ disturbed' = FALSE

Init ==
  /\ target = "Fast" /\ phone = "none"
  /\ at = "Idle"
  /\ flow = "Failed" /\ issuer = 0 /\ found = None /\ fresh = "none"
  /\ result = NoResult /\ assembled = 0 /\ disturbed = FALSE
  /\ mem \in [Issuers -> {<<>>} \union {<<[pk |-> d, key |-> k]>> :
                                         d \in Devices, k \in {"none", "shared"}}]
  /\ nvs = mem

-----------------------------------------------------------------------------
Slots(st) == {s \in Issuers \X (1 .. MaxEndpoints) : s[2] \in DOMAIN st[s[1]]}

At(st, s) == st[s[1]][s[2]]

Before(s, t) == s[1] < t[1] \/ (s[1] = t[1] /\ s[2] < t[2])

\* HomeKeyStdAuth: the entries with the identifier of device d.
Matches(st, d) == {s \in Slots(st) : At(st, s).pk = d}

\* HomeKeyFastAuth: the entries whose persistent key answers its cryptogram.
Opening(st, d) == {s \in Matches(st, d) : At(st, s).key = "shared"}

IsFirst(s, S) == s \in S /\ \A t \in S : t = s \/ Before(s, t)

\* Faulty: the search goes on after a match.
LookedUpLast(s, S) == s \in S /\ \A t \in S : t = s \/ Before(t, s)

\* The search through issuers and endpoints stops at the first that fits.
LookedUp(s, S) == IsFirst(s, S)

\* The entry at s gets the key k of this transaction, which is the phone's.
Rekeyed(st, s, k) ==
  [st EXCEPT ![s[1]][s[2]] =
     [pk |-> At(st, s).pk, key |-> IF At(st, s).pk = phone THEN k ELSE "stale"]]

\* When the phone takes a new key (c) it no longer has the former one.
Forgotten(st, c) ==
  [i \in Issuers |-> [k \in DOMAIN st[i] |->
     IF c /\ st[i][k] = [pk |-> phone, key |-> "shared"]
     THEN [pk |-> phone, key |-> "stale"] ELSE st[i][k]]]

\* The phone is enrolled under issuer j, last and without a key.
Enrolled(st, j) ==
  [st EXCEPT ![j] = Append(@, [pk |-> phone, key |-> "none"])]

\* What is read as an identifier through foundEndpoint: a dangling pointer
\* reads anything.
ReadThrough(st, s) == IF s \in Slots(st) THEN {At(st, s).pk} ELSE Devices \union {{}}

-----------------------------------------------------------------------------
\* The next request, with what is known so far.
Proceed(next, f, i, s, k, st) ==
  /\ at' = next
  /\ flow' = f /\ issuer' = i /\ found' = s /\ fresh' = k
  /\ mem' = st
  /\ UNCHANGED result

\* control_flow(kCmdFlowFailed).
Refuse == at' = "FAILURE" /\ UNCHANGED <<progress, result, saved>>

Return(f, i, s, st) ==
  /\ at' = "Done"
  /\ \E d \in ReadThrough(st, s) : result' = [flow |-> f, issuer |-> i, pk |-> d]

\* Faulty: a key that CONTROL FLOW has yet to confirm is not saved.
SettleUnsaved(f, i, s, k, st) ==
  /\ flow' = f /\ issuer' = i /\ found' = s /\ fresh' = k
  /\ mem' = IF k # "none" /\ s \in Slots(st) THEN Rekeyed(st, s, k) ELSE st
  /\ IF f = "Attestation"
     THEN nvs' = mem' /\ Return(f, i, s, st)
     ELSE nvs' = nvs /\ at' = "SUCCESS" /\ UNCHANGED result

\* The end of the ladder at issuer i and entry s of the store st: the key of
\* this transaction, if it has one, is stored and saved; then CONTROL FLOW,
\* unless attestation sent its own.
Settle(f, i, s, k, st) ==
  /\ flow' = f /\ issuer' = i /\ found' = s /\ fresh' = k
  /\ mem' = IF k # "none" /\ s \in Slots(st) THEN Rekeyed(st, s, k) ELSE st
  /\ nvs' = IF k # "none" THEN mem' ELSE nvs
  /\ IF f = "Attestation"
     THEN Return(f, i, s, st)
     ELSE at' = "SUCCESS" /\ UNCHANGED result

-----------------------------------------------------------------------------
Begin(t, d) ==
  /\ at \in Rest
  /\ at' = "AUTH0"
  /\ target' = t /\ phone' = d
  /\ FreshSession
  /\ UNCHANGED saved

\* Faulty: a cryptogram that no entry answers ends the transaction.
Auth0FastOnly(r) ==
  /\ at = "AUTH0"
  /\ \/ r # "ok" /\ Refuse
     \/ /\ r \in {"ok", "odd"} /\ target # "Fast"
        /\ at' = "AUTH1" /\ UNCHANGED <<progress, result, saved>>
     \/ /\ r = "ok" /\ target = "Fast"
        /\ IF Opening(mem, phone) = {}
           THEN Refuse
           ELSE \E s \in Slots(mem) :
                  LookedUp(s, Opening(mem, phone)) /\ Settle("Fast", s[1], s, "none", mem)
  /\ UNCHANGED assembled

\* AUTH0.  FAST is tried on the first rung only and is missed in silence.
Auth0(r) ==
  /\ at = "AUTH0"
  /\ \/ r # "ok" /\ Refuse
     \/ /\ r = "odd" \/ (r = "ok" /\ (target # "Fast" \/ Opening(mem, phone) = {}))
        /\ at' = "AUTH1" /\ UNCHANGED <<progress, result, saved>>
     \/ /\ r = "ok" /\ target = "Fast"
        /\ \E s \in Slots(mem) :
             LookedUp(s, Opening(mem, phone)) /\ Settle("Fast", s[1], s, "none", mem)
  /\ UNCHANGED assembled

\* AUTH1.  The phone takes the new key (c) or keeps the one it had.  An unknown
\* device, or one whose signature fails, is asked for an attestation.
Auth1(r, c) ==
  LET st == Forgotten(mem, c)
      k == IF c THEN "shared" ELSE "stale"
  IN  /\ at = "AUTH1"
      /\ \/ /\ r # "ok"
            /\ at' = "FAILURE" /\ mem' = st /\ nvs' = Forgotten(nvs, c)
            /\ UNCHANGED <<progress, result>>
         \/ /\ r = "odd" \/ (r = "ok" /\ Matches(st, phone) = {})
            /\ Proceed("EXCHANGE", "Failed", 0, None, k, st)
            /\ nvs' = Forgotten(nvs, c)
         \/ /\ r = "ok"
            /\ \E s \in Slots(st) :
                 /\ LookedUp(s, Matches(st, phone))
                 /\ IF target = "StepUp"
                    THEN /\ Proceed("EXCHANGE", "Standard", s[1], s, k, st)
                         /\ nvs' = Forgotten(nvs, c)
                    ELSE Settle("Standard", s[1], s, k, st)
      /\ UNCHANGED assembled

-----------------------------------------------------------------------------
\* Faulty: an attestation that failed is tried again.
AttestationRetries ==
  /\ at' = "SELECT" /\ assembled' = 0
  /\ UNCHANGED <<progress, result, saved>>

\* Attestation, after which the result of STANDARD, if there is one, stands.
AttestationFails ==
  /\ IF found = None THEN Refuse ELSE Settle(flow, issuer, found, fresh, mem)
  /\ assembled' = 0

\* Faulty: foundEndpoint is where the list ended before the phone was enrolled.
AttestationSucceedsMisplaced ==
  /\ \E j \in Issuers :
       IF found # None
       THEN Settle("Attestation", j, found, fresh, mem)
       ELSE /\ Len(mem[j]) < MaxEndpoints
            /\ Settle("Attestation", j, <<j, Len(mem[j])>>, fresh, Enrolled(mem, j))
  /\ assembled' = 0

\* A document signed by issuer j: an entry that STANDARD found keeps its place,
\* otherwise the phone is enrolled under j.
AttestationSucceeds ==
  /\ \E j \in Issuers :
       IF found # None
       THEN Settle("Attestation", j, found, fresh, mem)
       ELSE /\ Len(mem[j]) < MaxEndpoints
            /\ Settle("Attestation", j, <<j, Len(mem[j]) + 1>>, fresh, Enrolled(mem, j))
  /\ assembled' = 0

\* A request of the attestation that needs SW 9000 and looks no further.
Passes(request, next, r) ==
  /\ at = request
  /\ IF r \in {"ok", "odd"}
     THEN at' = next /\ UNCHANGED <<progress, result, saved, assembled>>
     ELSE AttestationFails

\* EXCHANGE of the attestation's secret: an answer that does not decrypt keeps
\* its status word.
Exchange(r) == Passes("EXCHANGE", "ATTESTATION", r)

\* ENVELOPE 1: its answer gives the salt, or the device engagement is missing.
Envelope1(r) ==
  \/ Passes("ENVELOPE1", "ENVELOPE2", r)
  \/ at = "ENVELOPE1" /\ r = "odd" /\ AttestationFails

\* Faulty: the assembly limit is one chunk too high.
Envelope2OverLimit(r) ==
  /\ at \in {"ENVELOPE2", "GET_RESPONSE"}
  /\ \/ /\ r = "more" /\ assembled <= MaxAssembled
        /\ at' = "GET_RESPONSE" /\ assembled' \in {assembled, assembled + 1}
        /\ UNCHANGED <<progress, result, saved>>
     \/ r # "more" /\ AttestationFails

\* ENVELOPE 2, and GET RESPONSE while there is more, up to the assembly limit.  An
\* empty 61xx answer counts nothing, and the next GET RESPONSE follows.
Envelope2(r) ==
  /\ at \in {"ENVELOPE2", "GET_RESPONSE"}
  /\ \/ /\ r = "more"
        /\ at' = "GET_RESPONSE"
        /\ assembled' \in {assembled, assembled + 1} /\ assembled' <= MaxAssembled
        /\ UNCHANGED <<progress, result, saved>>
     \/ r # "more" /\ AttestationFails
     \/ r = "more" /\ assembled = MaxAssembled /\ AttestationFails
     \/ r = "ok" /\ AttestationSucceeds

-----------------------------------------------------------------------------
\* CONTROL FLOW for a success: refused, the transaction has failed, although
\* its key is already stored.
Success(r) ==
  /\ at = "SUCCESS"
  /\ IF r \in {"ok", "odd"}
     THEN Return(flow, issuer, found, mem) /\ UNCHANGED progress
     ELSE at' = "Failed" /\ NoProgress /\ UNCHANGED result
  /\ UNCHANGED <<saved, assembled>>

\* Faulty: the answer to CONTROL FLOW decides.
FailureDecides(r) ==
  /\ at = "FAILURE"
  /\ at' = IF r = "ok" THEN "Done" ELSE "Failed"
  /\ NoProgress
  /\ UNCHANGED <<result, saved, assembled>>

Failure(r) ==
  /\ at = "FAILURE"
  /\ at' = "Failed" /\ NoProgress
  /\ UNCHANGED <<result, saved, assembled>>

\* Power loss: memory is read back from what was last saved.
Crash ==
  /\ at' = "Idle"
  /\ target' = "Fast" /\ phone' = "none"
  /\ FreshSession
  /\ mem' = nvs
  /\ UNCHANGED nvs

\* What the phone says when nothing disturbs it.
Expected(r) == r = "ok" \/ (r = "more" /\ at \in {"ENVELOPE2", "GET_RESPONSE"})

Respond(r) ==
  /\ \/ Auth0(r)
     \/ \E c \in BOOLEAN : Auth1(r, c)
     \/ Exchange(r)
     \/ Passes("ATTESTATION", "SELECT", r)
     \/ Passes("SELECT", "ENVELOPE1", r)
     \/ Envelope1(r)
     \/ Envelope2(r)
     \/ Success(r)
     \/ Failure(r)
  /\ disturbed' = (disturbed \/ ~Expected(r))
  /\ UNCHANGED choices

Next ==
  \/ \E t \in Targets, d \in Devices : Begin(t, d)
  \/ \E r \in Response : Respond(r)
  \/ Crash

\* Each request is answered or times out.  Nothing is assumed of GET RESPONSE:
\* empty 61xx answers, steps that change nothing, may keep it going for ever.
Fairness ==
  WF_ladder(at # "GET_RESPONSE" /\ \E r \in Response : Respond(r))

Spec == Init /\ [][Next]_ladder /\ Fairness

-----------------------------------------------------------------------------
TypeOK ==
  /\ target \in Target /\ phone \in Devices \union {"none"}
  /\ phone = "none" => at = "Idle"
  /\ at \in Rest \union Request
  /\ flow \in {"Failed", "Fast", "Standard", "Attestation"}
  /\ issuer \in Issuers \union {0}
  /\ found \in Slots(mem) \union {None}
  /\ fresh \in Key
  /\ result \in {NoResult} \union [flow : {"Fast", "Standard", "Attestation"},
                                   issuer : Issuers, pk : Devices]
  /\ mem \in [Issuers -> Seq(Endpoint)]
  /\ nvs \in [Issuers -> Seq(Endpoint)]
  /\ assembled \in 0 .. MaxAssembled
  /\ disturbed \in BOOLEAN

(***************************************************************************)
(* A transaction changes the store in memory at several points, and saves  *)
(* once, before CONTROL FLOW (Profile.cpp:203-207).  At no request and at  *)
(* no end of a transaction is there a change that a power cut would lose.  *)
(***************************************************************************)
StoreDurable == mem = nvs

(***************************************************************************)
(* finalize looks the result up by identifiers that step() read through    *)
(* its pointers (Profile.cpp:220-245).  Whoever is let in is the device in *)
(* the field and has an entry.  Only the attestation may go by another     *)
(* issuer than that of the entry; otherwise the outcome names the device,  *)
(* after a standard flow the entry with its key.                           *)
(***************************************************************************)
Named == {s \in Matches(mem, result.pk) : s[1] = result.issuer}

OutcomeNamesDevice ==
  at = "Done" =>
    /\ result.pk = phone /\ found \in Matches(mem, phone)
    /\ result.issuer = found[1] \/ result.flow = "Attestation"
    /\ result.issuer = found[1] =>
         \E s \in Named : IsFirst(s, Named) /\ (flow = "Standard" => s = found)

(***************************************************************************)
(* The two ends may come to hold different persistent keys (power lost, a  *)
(* response lost after the phone took the new one).  A phone that is in    *)
(* the store and answers undisturbed gets in all the same: FAST is missed, *)
(* STANDARD does not need the key (Profile.cpp:123-150).                   *)
(***************************************************************************)
RecoversKey == at = "Failed" /\ ~disturbed => Matches(mem, phone) = {}

(***************************************************************************)
(* The ladder implements the abstract transaction, in the variant where    *)
(* what was granted is reported failed when its last request is refused.   *)
(***************************************************************************)
Decision ==
  IF at = "Idle" THEN "none"
  ELSE IF at = "Done" THEN "done"
  ELSE IF at = "Failed" THEN "failed"
  ELSE IF at = "SUCCESS" THEN "granted"
  ELSE IF at = "FAILURE" THEN "refused" ELSE "pending"

Keys(st) ==
  [i \in Issuers |-> [k \in DOMAIN st[i] |->
     [pk |-> st[i][k].pk,
      key |-> IF st[i][k].key = "none" THEN "none" ELSE "set"]]]

Transaction == INSTANCE AccessTransaction
  WITH decision <- Decision, store <- Keys(nvs), DeliveryDecides <- TRUE

TransactionSpec == Transaction!Spec

(***************************************************************************)
(* A transaction ends, or is for ever at GET RESPONSE: the one loop of the *)
(* ladder has no bound but the size of what it has collected, which empty  *)
(* 61xx answers do not increase (ApduChaining.h:67-90).                    *)
(***************************************************************************)
TransactionEnds == at = "AUTH0" ~> (at \in Rest \/ [](at = "GET_RESPONSE"))
=============================================================================
