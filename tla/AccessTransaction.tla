------------------------- MODULE AccessTransaction -------------------------
(***************************************************************************)
(* What an access transaction promises about its decision and the saved    *)
(* credential store, without requests, responses or keys.  A decision is   *)
(* made once and then reported, delivered or not.  Granting may store a    *)
(* key with one endpoint or enrol one; refusing changes nothing; power     *)
(* loss forgets the decision and loses nothing that was saved.             *)
(***************************************************************************)
EXTENDS Naturals, Sequences

CONSTANTS
  Issuers, Devices,
  DeliveryDecides   \* a grant that cannot be delivered counts as a failure

VARIABLES decision, store

Keyed(e) == [e EXCEPT !.key = "set"]

Init ==
  /\ decision = "none"
  /\ \A i \in Issuers : Len(store[i]) <= 1

Start ==
  /\ decision \in {"none", "done", "failed"}
  /\ decision' = "pending"
  /\ UNCHANGED store

KeyOne ==
  \E i \in Issuers : \E k \in DOMAIN store[i] :
    store' = [store EXCEPT ![i][k] = Keyed(@)]

EnrolOne ==
  \E i \in Issuers, d \in Devices :
    store' = [store EXCEPT ![i] = Append(@, [pk |-> d, key |-> "set"])]

Grant ==
  /\ decision = "pending"
  /\ decision' \in {"granted", "done"}
  /\ UNCHANGED store \/ KeyOne \/ EnrolOne

Refuse ==
  /\ decision = "pending"
  /\ decision' \in {"refused", "failed"}
  /\ UNCHANGED store

Report ==
  /\ \/ decision = "granted" /\ decision' = "done"
     \/ DeliveryDecides /\ decision = "granted" /\ decision' = "failed"
     \/ decision = "refused" /\ decision' = "failed"
  /\ UNCHANGED store

PowerLoss == decision' = "none" /\ UNCHANGED store

Next == Start \/ Grant \/ Refuse \/ Report \/ PowerLoss

Spec == Init /\ [][Next]_<<decision, store>>
=============================================================================
