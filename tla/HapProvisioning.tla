-------------------------- MODULE HapProvisioning --------------------------
(***************************************************************************)
(* HomeKit requests (HK_HomeKit) that reach the credential store while a   *)
(* HomeKey transaction waits for its device, or between transactions.      *)
(* Requests exclude one another by a mutex that transactions do not take.  *)
(* A transaction runs undivided between two of its requests here; races    *)
(* inside that code are data races, and are not modelled.                  *)
(*                                                                         *)
(* foundEndpoint is an address in the vector of its issuer, so it stays    *)
(* where it was when entries move: past the end it dangles, and when the   *)
(* vector is reallocated it becomes <<issuer, 0>>, which is no entry.      *)
(***************************************************************************)
EXTENDS HomeKeyProfile

CONSTANTS
  MaxChanges,     \* bound: HomeKit requests that change the store
  Watched         \* an issuer and a device whose entry is followed

ASSUME HapAssumption == MaxChanges \in Nat /\ Watched \in Issuers \X Devices

VARIABLES
  changes,        \* requests that changed the store
  swapped,        \* the reader identity changed since this session took it
  told,           \* history: what the last answer said of the followed entry
  doubled,        \* history: there have been two of it
  raced           \* history: the store changed under this transaction

hap == <<changes, swapped, told, doubled, raced>>

HapInit ==
  /\ Init
  /\ \A s \in Slots(mem) : At(mem, s).key = "shared"
  /\ swapped = FALSE /\ told = "unknown" /\ doubled = FALSE /\ raced = FALSE
  /\ changes = 0

-----------------------------------------------------------------------------
Entries(st, w) == {s \in Matches(st, w[2]) : s[1] = w[1]}

\* The outcome is looked up after step() returns.
InTransaction == at # "Idle"

\* What is told when entries of the devices D, of issuer i, are said to be in
\* or out.
Tell(i, D, what) ==
  told' = IF Watched[1] = i /\ Watched[2] \in D THEN what ELSE told

Doubling == doubled' = (doubled \/ \E s, t \in Entries(mem', Watched) : s # t)

\* The list of issuer i changed, as to devices D, while a transaction holds a
\* pointer into it or has the phone among them.
Racing(i, D) ==
  raced' = (raced \/ (InTransaction /\ (found[1] = i \/ phone \in D)))

Stored(st, i, D) ==
  /\ changes < MaxChanges /\ changes' = changes + 1
  /\ mem' = st /\ nvs' = st
  /\ Racing(i, D) /\ Doubling
  /\ UNCHANGED <<choices, at, flow, issuer, fresh, result, assembled, disturbed,
                 swapped>>

Answered == UNCHANGED <<ladder, changes, swapped, doubled, raced>>

-----------------------------------------------------------------------------
\* Faulty: an entry is looked for in the first issuer only.
ProvisionAnywhere(i, d) ==
  \/ Entries(mem, <<1, d>>) # {} /\ Answered /\ Tell(i, {d}, "in")
  \/ /\ Entries(mem, <<1, d>>) = {} /\ Len(mem[i]) < MaxEndpoints
     /\ Stored([mem EXCEPT ![i] = Append(@, [pk |-> d, key |-> "none"])], i, {d})
     /\ found' \in {found} \union {<<j, 0>> : j \in {i} \intersect {found[1]}}
     /\ Tell(i, {d}, "in")

\* provision_device_cred of device d to issuer i: DUPLICATE or SUCCESS.  A
\* request without issuer, public key or key type, or to an unknown issuer,
\* changes nothing.  The vector may have to move.
Provision(i, d) ==
  \/ Entries(mem, <<i, d>>) # {} /\ Answered /\ Tell(i, {d}, "in")
  \/ /\ Entries(mem, <<i, d>>) = {} /\ Len(mem[i]) < MaxEndpoints
     /\ Stored([mem EXCEPT ![i] = Append(@, [pk |-> d, key |-> "none"])], i, {d})
     /\ found' \in {found} \union {<<j, 0>> : j \in {i} \intersect {found[1]}}
     /\ Tell(i, {d}, "in")

\* vector::erase: the entries behind move up.
Erased(st, s) ==
  [st EXCEPT ![s[1]] = SubSeq(@, 1, s[2] - 1) \o SubSeq(@, s[2] + 1, Len(@))]

\* remove_device_cred: the first entry, of issuer i or of all (0), that the key
\* identifier or the public key in the request names.  The two may name two
\* devices, of which only the one removed has been answered for.
RemoveOne(i, named) ==
  LET hits == {s \in Slots(mem) : (i = 0 \/ s[1] = i) /\ At(mem, s).pk \in named}
  IN  \/ \E s \in hits :
           /\ IsFirst(s, hits)
           /\ Stored(Erased(mem, s), s[1], {At(mem, s).pk})
           /\ UNCHANGED found
           /\ Tell(s[1], {At(mem, s).pk}, "out")
      \/ /\ hits = {} /\ Answered
         /\ Tell(IF i = 0 THEN Watched[1] ELSE i, named, "out")

\* remove_device_cred with an issuer and no key.
RemoveAll(i) ==
  /\ Stored([mem EXCEPT ![i] = <<>>], i, Devices)
  /\ UNCHANGED found
  /\ Tell(i, Devices, "out")

\* set_reader_key, or what the application does when told to remove the key.
ReplaceIdentity ==
  /\ swapped' = (at \in {"AUTH0", "AUTH1"})
  /\ UNCHANGED <<ladder, changes, told, doubled, raced>>

\* Bound: from EXCHANGE until the attestation ends, a transaction neither reads
\* nor writes the store: a request between is as good as one at EXCHANGE.
Between == {"ATTESTATION", "SELECT", "ENVELOPE1", "ENVELOPE2", "GET_RESPONSE"}

\* processResult.  A request to read the key, and one that cannot be parsed or
\* names nothing, changes nothing.
HapRequest ==
  /\ at \notin Between
  /\ \/ \E i \in Issuers, d \in Devices : Provision(i, d)
     \/ \E i \in Issuers \union {0}, named \in SUBSET Devices \ {{}} :
          RemoveOne(i, named)
     \/ \E i \in Issuers : RemoveAll(i)
     \/ ReplaceIdentity

-----------------------------------------------------------------------------
\* Keys derived from the new identity answer nothing the phone says; after
\* AUTH1 the identity is not used.
Understood(r) == r = "ok" => ~swapped

\* An attestation enrols: whatever was said of the phone is out of date.
Enrols == found = None /\ flow' = "Attestation"

TransactionStep ==
  /\ \/ \E t \in Targets, d \in Devices :
          Begin(t, d) /\ swapped' = FALSE /\ raced' = FALSE
     \/ /\ \E r \in Response : Understood(r) /\ Respond(r)
        /\ swapped' = (swapped /\ at' = "AUTH1")
        /\ UNCHANGED raced
     \/ Crash /\ swapped' = FALSE /\ raced' = FALSE
  /\ IF Enrols THEN Tell(issuer', {phone}, "unknown") ELSE UNCHANGED told
  /\ Doubling
  /\ UNCHANGED changes

HapNext == HapRequest \/ TransactionStep

HapSpec == HapInit /\ [][HapNext]_<<ladder, hap>>

-----------------------------------------------------------------------------
(***************************************************************************)
(* What HomeKit was last told of an entry is what is saved: neither the    *)
(* transactions that save the store around it (Profile.cpp:206) nor power  *)
(* loss undo it (HK_HomeKit.cpp:186-191, 277-288, 310-316).  Not so once a *)
(* device has two entries under one issuer: removal removes the first.     *)
(***************************************************************************)
ToldTrue ==
  /\ told = "in" => Entries(nvs, Watched) # {}
  /\ told = "out" /\ ~doubled => Entries(nvs, Watched) = {}

(***************************************************************************)
(* Requests that touch neither the phone's entries nor the list that       *)
(* foundEndpoint points into leave the transaction its guarantees: a phone *)
(* in the store gets in, and the outcome names it.                         *)
(***************************************************************************)
OutcomeUnlessRaced == ~raced => OutcomeNamesDevice /\ RecoversKey

(***************************************************************************)
(* ... and its new key goes to an entry of the phone in the field and to   *)
(* no other (Profile.cpp:204).                                             *)
(***************************************************************************)
KeyGoesToPhone ==
  [][at' # at /\ ~raced =>
       \A s \in Slots(mem) :
         At(mem', s) # At(mem, s) => At(mem, s).pk = phone]_<<ladder, hap>>
=============================================================================
