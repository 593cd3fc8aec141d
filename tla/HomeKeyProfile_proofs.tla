----------------------- MODULE HomeKeyProfile_proofs -----------------------
(***************************************************************************)
(* Proofs about HomeKeyProfile, for every store, set of devices and bound. *)
(* As in AliroProfile_proofs, each action is shown at once to preserve the *)
(* invariant and to be a step, or a stutter, of the abstract transaction.  *)
(***************************************************************************)
EXTENDS HomeKeyProfile, WellFoundedInduction, TLAPS

Stores == [Issuers -> Seq(Endpoint)]

Entering == {"AUTH0", "AUTH1"}

Attesting == {"EXCHANGE", "ATTESTATION", "SELECT", "ENVELOPE1", "ENVELOPE2",
              "GET_RESPONSE"}

\* STANDARD's result and key are carried through the attestation.
Carried ==
  /\ at \in Entering => flow = "Failed" /\ found = None
  /\ at \in Attesting =>
       /\ fresh # "none"
       /\ \/ flow = "Failed" /\ found = None
          \/ flow = "Standard" /\ found # None
  /\ at = "SUCCESS" =>
       flow \in {"Fast", "Standard"} /\ issuer \in Issuers /\ found # None

\* What was found is an entry of the phone, after STANDARD the first one.
FoundIsPhone ==
  /\ found # None => At(mem, found).pk = phone
  /\ flow \in {"Fast", "Standard"} => issuer = found[1]
  /\ flow = "Standard" => IsFirst(found, Matches(mem, phone))

ResultIsFound ==
  at = "Done" =>
    /\ found # None /\ flow # "Failed"
    /\ result.pk = phone /\ result.issuer = issuer /\ result.flow = flow

\* Undisturbed, a phone that attests or is refused is not in the store.
RefusedUnknown ==
  ~disturbed =>
    ((at \in {"FAILURE", "Failed"} \/ (at \in Attesting /\ found = None)) =>
       Matches(mem, phone) = {})

IInv ==
  /\ TypeOK /\ StoreDurable
  /\ Carried /\ FoundIsPhone /\ ResultIsFound /\ RefusedUnknown

LadderStep == [Transaction!Next]_<<Decision, Keys(nvs)>>

-----------------------------------------------------------------------------
\* Two stores that differ in keys only.
SamePks(st, g) ==
  \A i \in Issuers :
    /\ DOMAIN g[i] = DOMAIN st[i]
    /\ \A k \in DOMAIN st[i] : g[i][k].pk = st[i][k].pk

\* Lookups by device find the same in stores that differ in keys only.
LEMMA SamePksFacts ==
  ASSUME NEW st, NEW g, SamePks(st, g)
  PROVE  /\ Slots(g) = Slots(st)
         /\ \A s \in Slots(st) : At(g, s).pk = At(st, s).pk
         /\ \A d : Matches(g, d) = Matches(st, d)
<1>1. Slots(g) = Slots(st)
  BY DEF SamePks, Slots
<1>2. \A s \in Slots(st) : At(g, s).pk = At(st, s).pk
  BY DEF SamePks, Slots, At
<1>3. QED
  BY <1>1, <1>2 DEF Matches

\* An entry is a device and a key.
LEMMA EntryFacts ==
  /\ \A d \in Devices, k \in Key :
       LET e == [pk |-> d, key |-> k] IN e \in Endpoint /\ e.pk = d /\ e.key = k
  /\ \A e \in Endpoint : e.pk \in Devices /\ e.key \in Key
  /\ \A st \in Stores : \A i \in Issuers :
       /\ st[i] \in Seq(Endpoint) /\ Len(st[i]) \in Nat
       /\ DOMAIN st[i] = 1 .. Len(st[i])
       /\ \A k \in DOMAIN st[i] : st[i][k] \in Endpoint
<1>1. \A d \in Devices, k \in Key :
        LET e == [pk |-> d, key |-> k] IN e \in Endpoint /\ e.pk = d /\ e.key = k
  BY DEF Endpoint
<1>2. \A e \in Endpoint : e.pk \in Devices /\ e.key \in Key
  BY DEF Endpoint
<1>3. ASSUME NEW st \in Stores, NEW i \in Issuers
      PROVE  /\ st[i] \in Seq(Endpoint) /\ Len(st[i]) \in Nat
             /\ DOMAIN st[i] = 1 .. Len(st[i])
             /\ \A k \in DOMAIN st[i] : st[i][k] \in Endpoint
  <2>1. st[i] \in Seq(Endpoint)
    BY DEF Stores
  <2>2. QED
    BY <2>1
<1>4. QED
  BY <1>1, <1>2, <1>3

\* Forgetting a key leaves a key in its place.
LEMMA ForgottenFacts ==
  ASSUME NEW st \in Stores, NEW c \in BOOLEAN, phone \in Devices
  PROVE  LET g == Forgotten(st, c)
         IN  g \in Stores /\ SamePks(st, g) /\ Keys(g) = Keys(st)
<1> DEFINE Entry(i, k) == IF c /\ st[i][k] = [pk |-> phone, key |-> "shared"]
                          THEN [pk |-> phone, key |-> "stale"] ELSE st[i][k]
           g == Forgotten(st, c)
<1>1. \A i \in Issuers : \A k \in DOMAIN st[i] :
        /\ st[i][k] \in Endpoint /\ Entry(i, k) \in Endpoint
        /\ Entry(i, k).pk = st[i][k].pk
        /\ (Entry(i, k).key = "none") = (st[i][k].key = "none")
  <2> SUFFICES ASSUME NEW i \in Issuers, NEW k \in DOMAIN st[i]
               PROVE  /\ st[i][k] \in Endpoint /\ Entry(i, k) \in Endpoint
                      /\ Entry(i, k).pk = st[i][k].pk
                      /\ (Entry(i, k).key = "none") = (st[i][k].key = "none")
    OBVIOUS
  <2>1. st[i][k] \in Endpoint
    BY EntryFacts
  <2>2. CASE c /\ st[i][k] = [pk |-> phone, key |-> "shared"]
    <3>1. Entry(i, k) = [pk |-> phone, key |-> "stale"]
      BY <2>2
    <3>2. "stale" \in Key /\ "shared" \in Key
      BY DEF Key
    <3>3. Entry(i, k) \in Endpoint /\ Entry(i, k).pk = phone /\ Entry(i, k).key = "stale"
      BY <3>1, <3>2, EntryFacts
    <3>4. st[i][k].pk = phone /\ st[i][k].key = "shared"
      BY <2>2
    <3>5. QED
      BY <2>1, <3>3, <3>4
  <2>3. CASE ~(c /\ st[i][k] = [pk |-> phone, key |-> "shared"])
    BY <2>1, <2>3
  <2>4. QED
    BY <2>2, <2>3
<1>2. \A i \in Issuers : DOMAIN st[i] = 1 .. Len(st[i]) /\ Len(st[i]) \in Nat
  BY EntryFacts
<1>3. g = [i \in Issuers |-> [k \in DOMAIN st[i] |-> Entry(i, k)]]
  BY DEF Forgotten
<1>4. \A i \in Issuers : g[i] = [k \in DOMAIN st[i] |-> Entry(i, k)]
  BY <1>3
<1> HIDE DEF Entry, g
<1>5. ASSUME NEW i \in Issuers PROVE g[i] \in Seq(Endpoint)
  <2>1. g[i] = [k \in 1 .. Len(st[i]) |-> Entry(i, k)]
    BY <1>2, <1>4
  <2>2. \A k \in 1 .. Len(st[i]) : Entry(i, k) \in Endpoint
    BY <1>1, <1>2
  <2>3. Len(st[i]) \in Nat
    BY <1>2
  <2>4. QED
    BY <2>1, <2>2, <2>3
<1>6. g \in Stores
  BY <1>3, <1>4, <1>5 DEF Stores
<1>7. SamePks(st, g)
  BY <1>1, <1>4 DEF SamePks
<1>8. Keys(g) = Keys(st)
  <2>1. ASSUME NEW i \in Issuers, NEW k \in DOMAIN st[i]
        PROVE  /\ k \in DOMAIN g[i] /\ g[i][k].pk = st[i][k].pk
               /\ (g[i][k].key = "none") = (st[i][k].key = "none")
    BY <1>1, <1>4
  <2>2. \A i \in Issuers : DOMAIN g[i] = DOMAIN st[i]
    BY <1>7 DEF SamePks
  <2>3. QED
    BY <2>1, <2>2 DEF Keys
<1>9. QED
  BY <1>6, <1>7, <1>8 DEF g

\* What the saved keys may become in a step that grants.
Granted(ks) ==
  \/ ks = Keys(nvs)
  \/ \E i \in Issuers : \E k \in DOMAIN Keys(nvs)[i] :
       ks = [Keys(nvs) EXCEPT ![i][k] = Transaction!Keyed(@)]
  \/ \E i \in Issuers, d \in Devices :
       ks = [Keys(nvs) EXCEPT ![i] = Append(@, [pk |-> d, key |-> "set"])]

\* Storing a key changes the keys alone, by one that is set.
LEMMA RekeyedFacts ==
  ASSUME NEW st \in Stores, NEW s \in Slots(st), NEW k \in {"stale", "shared"}
  PROVE  LET g == Rekeyed(st, s, k)
         IN  /\ g \in Stores /\ SamePks(st, g)
             /\ Keys(st) = Keys(nvs) => Granted(Keys(g))
<1> DEFINE i == s[1]
           n == s[2]
           e == [pk |-> st[i][n].pk,
                 key |-> IF st[i][n].pk = phone THEN k ELSE "stale"]
           q == [st[i] EXCEPT ![n] = e]
           g == [st EXCEPT ![i] = q]
<1>1. i \in Issuers /\ n \in DOMAIN st[i] /\ st[i] \in Seq(Endpoint)
  BY DEF Stores, Slots
<1>2. e \in Endpoint /\ e.pk = st[i][n].pk /\ e.key # "none"
  <2>1. st[i][n].pk \in Devices
    BY <1>1, EntryFacts
  <2>2. (IF st[i][n].pk = phone THEN k ELSE "stale") \in Key \ {"none"}
    BY DEF Key
  <2>3. QED
    BY <2>1, <2>2, EntryFacts
<1>3. q \in Seq(Endpoint) /\ DOMAIN q = DOMAIN st[i] /\ q[n] = e
      /\ \A m \in DOMAIN st[i] : m # n => q[m] = st[i][m]
  BY <1>1, <1>2
<1>4. g \in Stores /\ g[i] = q /\ \A j \in Issuers : j # i => g[j] = st[j]
  BY <1>1, <1>3 DEF Stores
<1>5. Rekeyed(st, s, k) = g
  BY <1>1 DEF Rekeyed, At
<1>6. SamePks(st, g)
  <2>1. ASSUME NEW j \in Issuers, NEW m \in DOMAIN st[j]
        PROVE  m \in DOMAIN g[j] /\ g[j][m].pk = st[j][m].pk
    <3>1. CASE j = i /\ m = n
      BY <1>2, <1>3, <1>4, <3>1
    <3>2. CASE j = i /\ m # n
      BY <1>3, <1>4, <3>2
    <3>3. CASE j # i
      BY <1>4, <3>3
    <3>4. QED
      BY <3>1, <3>2, <3>3
  <2>2. \A j \in Issuers : DOMAIN g[j] = DOMAIN st[j]
    BY <1>3, <1>4
  <2>3. QED
    BY <2>1, <2>2 DEF SamePks
<1>7. ASSUME Keys(st) = Keys(nvs) PROVE Granted(Keys(g))
  <2> DEFINE ks == Keys(st)
             x == [pk |-> ks[i][n].pk, key |-> "set"]
  <2>1. n \in DOMAIN ks[i] /\ ks[i][n].pk = st[i][n].pk
    BY <1>1 DEF Keys
  <2>2. \A j \in Issuers : DOMAIN ks[j] = DOMAIN st[j]
    BY DEF Keys
  <2>3. Transaction!Keyed(ks[i][n]) = x
    BY <1>1 DEF Transaction!Keyed, Keys
  <2>4. ASSUME NEW j \in Issuers
        PROVE  Keys(g)[j] = [ks EXCEPT ![i] = [ks[i] EXCEPT ![n] = x]][j]
    <3>1. CASE j = i
      <4>1. Keys(g)[i] = [m \in DOMAIN st[i] |->
                            [pk |-> q[m].pk,
                             key |-> IF q[m].key = "none" THEN "none" ELSE "set"]]
        <5> HIDE DEF g, q
        <5>1. QED
          BY <1>1, <1>3, <1>4 DEF Keys
      <4>2. ASSUME NEW m \in DOMAIN st[i]
            PROVE  Keys(g)[i][m] = [ks[i] EXCEPT ![n] = x][m]
        <5>1. CASE m = n
          <6>1. Keys(g)[i][n] = [pk |-> q[n].pk,
                                 key |-> IF q[n].key = "none" THEN "none" ELSE "set"]
            BY <1>1, <4>1
          <6>2. Keys(g)[i][n] = x
            BY <1>2, <1>3, <2>1, <6>1
          <6>3. QED
            BY <2>1, <5>1, <6>2
        <5>2. CASE m # n
          <6>1. q[m] = st[i][m]
            BY <1>3, <5>2
          <6>2. Keys(g)[i][m] = [pk |-> q[m].pk,
                                 key |-> IF q[m].key = "none" THEN "none" ELSE "set"]
            BY <4>1
          <6>3. ks[i][m] = [pk |-> st[i][m].pk,
                            key |-> IF st[i][m].key = "none" THEN "none" ELSE "set"]
            BY <1>1 DEF Keys
          <6>4. m \in DOMAIN ks[i]
            BY <1>1, <2>2
          <6> HIDE DEF ks, x
          <6>5. [ks[i] EXCEPT ![n] = x][m] = ks[i][m]
            BY <5>2, <6>4
          <6>6. QED
            BY <6>1, <6>2, <6>3, <6>5
        <5>3. QED
          BY <5>1, <5>2
      <4>3. ks[i] = [m \in DOMAIN st[i] |-> ks[i][m]]
        BY <1>1 DEF Keys
      <4>4. Keys(g)[i] = [ks[i] EXCEPT ![n] = x]
        BY <4>1, <4>2, <4>3
      <4>5. QED
        BY <1>1, <3>1, <4>4 DEF Keys
    <3>2. CASE j # i
      BY <1>4, <3>2 DEF Keys
    <3>3. QED
      BY <3>1, <3>2
  <2>5. Keys(g) = [j \in Issuers |-> Keys(g)[j]] /\ ks = [j \in Issuers |-> ks[j]]
    BY DEF Keys
  <2>6. Keys(g) = [ks EXCEPT ![i] = [ks[i] EXCEPT ![n] = x]]
    BY <2>4, <2>5
  <2> HIDE DEF ks
  <2>7. [ks EXCEPT ![i] = [ks[i] EXCEPT ![n] = x]] =
          [ks EXCEPT ![i][n] = Transaction!Keyed(@)]
    BY <2>3
  <2>8. ks = Keys(nvs)
    BY <1>7 DEF ks
  <2>9. \E j \in Issuers : \E m \in DOMAIN ks[j] :
          Keys(g) = [ks EXCEPT ![j][m] = Transaction!Keyed(@)]
    <3> DEFINE kg == Keys(g)
    <3>1. kg = [ks EXCEPT ![i][n] = Transaction!Keyed(@)]
      BY <2>6, <2>7
    <3> HIDE DEF kg, i, n
    <3>2. \E j \in Issuers : \E m \in DOMAIN ks[j] :
            kg = [ks EXCEPT ![j][m] = Transaction!Keyed(@)]
      BY <1>1, <2>1, <3>1
    <3>3. QED
      BY <3>2 DEF kg
  <2>10. QED
    BY <2>8, <2>9, Zenon DEF Granted
<1> HIDE DEF g
<1>8. QED
  BY <1>4, <1>5, <1>6, <1>7

\* Enrolling a device and storing a key with it adds one entry, keyed.
LEMMA EnrolledFacts ==
  ASSUME NEW st \in Stores, NEW j \in Issuers, NEW d \in Devices,
         NEW k \in {"stale", "shared"}, Len(st[j]) < MaxEndpoints,
         Keys(st) = Keys(nvs)
  PROVE  LET g == [st EXCEPT ![j] = Append(@, [pk |-> d, key |-> "none"])]
             s == <<j, Len(st[j]) + 1>>
         IN  /\ g \in Stores /\ s \in Slots(g) /\ At(g, s).pk = d
             /\ Granted(Keys(Rekeyed(g, s, k)))
<1> DEFINE n == Len(st[j])
           e == [pk |-> d, key |-> "none"]
           q == Append(st[j], e)
           g == [st EXCEPT ![j] = q]
           s == <<j, n + 1>>
           h == Rekeyed(g, s, k)
           f == [pk |-> d, key |-> IF d = phone THEN k ELSE "stale"]
           ks == Keys(st)
           x == [pk |-> d, key |-> "set"]
<1>1. e \in Endpoint /\ st[j] \in Seq(Endpoint) /\ n \in Nat
  <2>1. "none" \in Key
    BY DEF Key
  <2>2. QED
    BY <2>1, EntryFacts
<1>2. /\ q \in Seq(Endpoint) /\ DOMAIN q = 1 .. n + 1 /\ q[n + 1] = e
      /\ \A m \in 1 .. n : q[m] = st[j][m]
  BY <1>1
<1>3. g \in Stores /\ g[j] = q /\ \A i \in Issuers : i # j => g[i] = st[i]
  BY <1>2 DEF Stores
<1>4. n + 1 \in DOMAIN g[j] /\ n + 1 \in 1 .. MaxEndpoints
  BY <1>1, <1>2, <1>3, HomeKeyAssumption
<1>5. s \in Slots(g) /\ At(g, s) = e
  BY <1>2, <1>3, <1>4 DEF Slots, At
<1>6. h = [g EXCEPT ![j] = [q EXCEPT ![n + 1] = f]]
  BY <1>3, <1>5 DEF Rekeyed
<1>7. h[j] = [q EXCEPT ![n + 1] = f] /\ \A i \in Issuers : i # j => h[i] = st[i]
  BY <1>3, <1>6 DEF Stores
<1>8. /\ DOMAIN h[j] = 1 .. n + 1 /\ h[j][n + 1] = f
      /\ \A m \in 1 .. n : h[j][m] = st[j][m]
  <2>1. n + 1 \in 1 .. n + 1 /\ \A m \in 1 .. n : m \in 1 .. n + 1 /\ m # n + 1
    BY <1>1
  <2> HIDE DEF n, q, h, f
  <2>2. QED
    BY <1>2, <1>7, <2>1
<1>9. f.pk = d /\ f.key # "none"
  OBVIOUS
<1>10. Keys(h)[j] = Append(ks[j], x)
  <2> DEFINE a == Append(ks[j], x)
  <2> DEFINE Set(v) == [pk |-> v.pk, key |-> IF v.key = "none" THEN "none" ELSE "set"]
  <2>1. DOMAIN st[j] = 1 .. n
    BY EntryFacts
  <2>2. ks[j] = [m \in 1 .. n |-> Set(st[j][m])]
    BY <2>1 DEF Keys
  <2>3. Keys(h)[j] = [m \in 1 .. n + 1 |-> Set(h[j][m])]
    BY <1>8 DEF Keys
  <2>4. Set(f) = x
    BY <1>9
  <2> HIDE DEF Set, x, f, h, ks
  <2>5. ks[j] \in Seq({Set(st[j][m]) : m \in 1 .. n}) /\ Len(ks[j]) = n
    BY <1>1, <2>2
  <2>6. /\ a = [m \in 1 .. n + 1 |-> a[m]] /\ a[n + 1] = x
        /\ \A m \in 1 .. n : a[m] = ks[j][m]
    BY <1>1, <2>5
  <2> HIDE DEF a
  <2>7. ASSUME NEW m \in 1 .. n + 1 PROVE Set(h[j][m]) = a[m]
    <3>1. CASE m = n + 1
      BY <1>8, <2>4, <2>6, <3>1
    <3>2. CASE m \in 1 .. n
      <4>1. h[j][m] = st[j][m] /\ a[m] = ks[j][m]
        BY <1>8, <2>6, <3>2
      <4>2. ks[j][m] = Set(st[j][m])
        BY <2>2, <3>2
      <4>3. QED
        BY <4>1, <4>2
    <3>3. QED
      BY <1>1, <3>1, <3>2
  <2>8. Keys(h)[j] = a
    BY <2>3, <2>6, <2>7
  <2>9. QED
    BY <2>8 DEF a
<1>11. \A i \in Issuers : i # j => Keys(h)[i] = ks[i]
  BY <1>7 DEF Keys
<1>12. Keys(h) = [i \in Issuers |-> Keys(h)[i]] /\ ks = [i \in Issuers |-> ks[i]]
  BY DEF Keys
<1>13. Keys(h) = [ks EXCEPT ![j] = Append(@, x)]
  BY <1>10, <1>11, <1>12
<1>14. Granted(Keys(h))
  BY <1>13 DEF Granted
<1> HIDE DEF h
<1>15. QED
  BY <1>3, <1>5, <1>14 DEF h

-----------------------------------------------------------------------------
\* Where the phone is known, and nothing is decided.
Pending == Entering \union Attesting

\* A step from request to request is a stutter of the abstract transaction.
LEMMA StillPending ==
  ASSUME at \in Pending, at' \in Pending, Keys(nvs') = Keys(nvs)
  PROVE  LadderStep
<1>1. Decision = "pending" /\ Decision' = "pending"
  BY DEF Pending, Entering, Attesting, Decision
<1>2. Keys(nvs)' = Keys(nvs)
  BY DEF Keys
<1>3. QED
  BY <1>1, <1>2 DEF LadderStep

\* Settling grants, with at most one key stored, and leaves nothing unsaved.
LEMMA SettleFacts ==
  ASSUME IInv, at \in Pending, UNCHANGED choices,
         disturbed' \in BOOLEAN, assembled' \in 0 .. MaxAssembled,
         NEW f \in {"Fast", "Standard", "Attestation"}, NEW i \in Issuers,
         NEW st \in Stores, NEW s \in Slots(st), NEW k \in Key,
         Settle(f, i, s, k, st),
         At(st, s).pk = phone,
         f \in {"Fast", "Standard"} => i = s[1],
         f = "Standard" => IsFirst(s, Matches(st, phone)),
         k = "none" => st = mem,
         k # "none" => Granted(Keys(Rekeyed(st, s, k)))
  PROVE  IInv' /\ LadderStep
<1> DEFINE g == IF k # "none" THEN Rekeyed(st, s, k) ELSE st
<1>1. /\ TypeOK /\ mem = nvs /\ phone \in Devices
      /\ target' = target /\ phone' = phone
  <2>1. TypeOK /\ mem = nvs
    BY DEF IInv, StoreDurable
  <2>2. at # "Idle"
    BY DEF Pending, Entering, Attesting
  <2>3. QED
    BY <2>1, <2>2 DEF TypeOK, choices
<1>2. flow' = f /\ issuer' = i /\ found' = s /\ fresh' = k /\ mem' = g /\ nvs' = g
  BY <1>1 DEF Settle
<1>3. g \in Stores /\ SamePks(st, g)
  <2>1. CASE k = "none"
    BY <2>1 DEF SamePks
  <2>2. CASE k # "none"
    <3>1. k \in {"stale", "shared"}
      BY <2>2 DEF Key
    <3>2. QED
      BY <2>2, <3>1, RekeyedFacts
  <2>3. QED
    BY <2>1, <2>2
<1>4. Slots(g) = Slots(st) /\ At(g, s).pk = phone
      /\ Matches(g, phone) = Matches(st, phone)
  BY <1>3, SamePksFacts
<1>5. s # None
  BY DEF Slots, None, Issuers
<1>6. \/ f = "Attestation" /\ at' = "Done"
         /\ result' = [flow |-> f, issuer |-> i, pk |-> phone]
      \/ f # "Attestation" /\ at' = "SUCCESS" /\ result' = result
  BY DEF Settle, Return, ReadThrough
<1>7. result' \in {NoResult} \union [flow : {"Fast", "Standard", "Attestation"},
                                     issuer : Issuers, pk : Devices]
  <2>1. CASE f = "Attestation"
    BY <1>1, <1>6, <2>1
  <2>2. CASE f # "Attestation"
    BY <1>1, <1>6, <2>2 DEF TypeOK
  <2>3. QED
    BY <2>1, <2>2
<1>8. TypeOK'
  <2>1. at' \in Rest \union Request
    BY <1>6 DEF Rest, Request
  <2>2. found' \in Slots(mem')
    BY <1>2, <1>4
  <2>3. mem' \in [Issuers -> Seq(Endpoint)] /\ nvs' \in [Issuers -> Seq(Endpoint)]
    BY <1>2, <1>3 DEF Stores
  <2>4. target' \in Target /\ phone' \in Devices /\ phone' # "none"
    BY <1>1, HomeKeyAssumption DEF TypeOK
  <2>5. QED
    BY <1>2, <1>7, <2>1, <2>2, <2>3, <2>4 DEF TypeOK
<1>9. StoreDurable'
  BY <1>2 DEF StoreDurable
<1>10. Carried'
  BY <1>2, <1>5, <1>6 DEF Carried, Entering, Attesting
<1>11. FoundIsPhone'
  BY <1>1, <1>2, <1>4 DEF FoundIsPhone
<1>12. ResultIsFound'
  BY <1>1, <1>2, <1>5, <1>6 DEF ResultIsFound
<1>13. RefusedUnknown'
  BY <1>6 DEF RefusedUnknown, Attesting
<1>14. Decision = "pending" /\ Decision' \in {"granted", "done"}
  BY <1>6 DEF Pending, Entering, Attesting, Decision
<1>15. Granted(Keys(nvs'))
  <2>1. CASE k = "none"
    BY <1>1, <1>2, <2>1 DEF Granted
  <2>2. CASE k # "none"
    BY <1>2, <2>2
  <2>3. QED
    BY <2>1, <2>2
<1>16. Keys(nvs)' = Keys(nvs')
  BY DEF Keys
<1>17. Transaction!Grant
  BY <1>14, <1>15, <1>16, Zenon
     DEF Granted, Transaction!Grant, Transaction!KeyOne, Transaction!EnrolOne
<1>18. QED
  BY <1>8, <1>9, <1>10, <1>11, <1>12, <1>13, <1>17
     DEF IInv, LadderStep, Transaction!Next

\* Refusing: nothing was found, and the phone was disturbed or is not known.
LEMMA RefuseFacts ==
  ASSUME IInv, at \in Pending, UNCHANGED <<choices, progress, result>>,
         at' = "FAILURE", NEW c \in BOOLEAN,
         mem' \in {mem, Forgotten(mem, c)}, nvs' = mem',
         disturbed' \in BOOLEAN, assembled' \in 0 .. MaxAssembled,
         found = None, disturbed' \/ Matches(mem, phone) = {}
  PROVE  IInv' /\ LadderStep
<1>1. TypeOK /\ mem = nvs /\ mem \in Stores /\ phone \in Devices
  <2>1. TypeOK /\ mem = nvs
    BY DEF IInv, StoreDurable
  <2>2. at # "Idle"
    BY DEF Pending, Entering, Attesting
  <2>3. QED
    BY <2>1, <2>2 DEF TypeOK, Stores
<1>2. mem' \in Stores /\ SamePks(mem, mem') /\ Keys(nvs') = Keys(nvs)
  BY <1>1, ForgottenFacts DEF SamePks
<1>3. Matches(mem', phone) = Matches(mem, phone)
  BY <1>2, SamePksFacts
<1>4. flow = "Failed"
  <2>1. flow = "Standard" => found # None
    BY <1>1 DEF IInv, FoundIsPhone, IsFirst, Matches, Slots, None, Issuers
  <2>2. QED
    BY <2>1 DEF IInv, Carried, Pending
<1>5. TypeOK'
  <2>1. at' \in Rest \union Request /\ at' # "Idle"
    BY DEF Rest, Request
  <2>2. /\ target' = target /\ phone' = phone /\ flow' = flow /\ issuer' = issuer
        /\ found' = None /\ fresh' = fresh /\ result' = result
    BY DEF choices, progress
  <2>3. mem' \in [Issuers -> Seq(Endpoint)] /\ nvs' \in [Issuers -> Seq(Endpoint)]
    BY <1>2 DEF Stores
  <2>4. phone' # "none"
    BY <1>1, <2>2, HomeKeyAssumption
  <2>5. QED
    BY <1>1, <2>1, <2>2, <2>3, <2>4 DEF TypeOK
<1>6. IInv'
  BY <1>3, <1>4, <1>5
     DEF IInv, StoreDurable, Carried, FoundIsPhone, ResultIsFound, RefusedUnknown,
         Entering, Attesting, choices, progress
<1>7. Decision = "pending" /\ Decision' = "refused"
  BY DEF Pending, Entering, Attesting, Decision
<1>8. Keys(nvs)' = Keys(nvs)
  BY <1>2 DEF Keys
<1>9. QED
  BY <1>6, <1>7, <1>8 DEF LadderStep, Transaction!Next, Transaction!Refuse

\* What the invariant says of a transaction under way.
LEMMA InvFacts ==
  ASSUME IInv
  PROVE  /\ TypeOK /\ mem = nvs /\ mem \in Stores
         /\ at # "Idle" => phone \in Devices
         /\ found \in Slots(mem) \union {None} /\ None \notin Slots(mem)
<1>1. TypeOK /\ mem = nvs
  BY DEF IInv, StoreDurable
<1>2. None \notin Slots(mem)
  BY DEF Slots, None, Issuers
<1>3. QED
  BY <1>1, <1>2 DEF TypeOK, Stores

\* Waiting on: between requests of the attestation nothing changes.
LEMMA AttestingOn ==
  ASSUME IInv, at \in Attesting, at' \in Attesting, disturbed' \in BOOLEAN,
         disturbed => disturbed', assembled' \in 0 .. MaxAssembled,
         UNCHANGED <<choices, progress, result, saved>>
  PROVE  IInv' /\ LadderStep
<1>1. /\ UNCHANGED <<target, phone, flow, issuer, found, fresh, result, mem, nvs>>
      /\ TypeOK /\ at # "Idle" /\ at' # "Idle" /\ at' \in Request
  BY InvFacts DEF choices, progress, saved, Attesting, Request
<1>2. Slots(mem)' = Slots(mem) /\ Matches(mem, phone)' = Matches(mem, phone)
      /\ Keys(nvs') = Keys(nvs)
  BY <1>1 DEF Slots, Matches, At
<1>3. TypeOK'
  BY <1>1, <1>2 DEF TypeOK
<1>4. IInv'
  BY <1>1, <1>2, <1>3
     DEF IInv, StoreDurable, Carried, FoundIsPhone, ResultIsFound, RefusedUnknown,
         Entering, Attesting, At, IsFirst
<1>5. QED
  BY <1>2, <1>4, StillPending DEF Pending

\* One lemma per action from here on: it keeps IInv and is an abstract step.
LEMMA Auth0Facts ==
  ASSUME IInv, NEW r \in Response, Auth0(r), UNCHANGED choices,
         disturbed' = (disturbed \/ ~Expected(r))
  PROVE  IInv' /\ LadderStep
<1>1. /\ TypeOK /\ mem = nvs /\ mem \in Stores /\ at = "AUTH0" /\ at \in Pending
      /\ flow = "Failed" /\ found = None /\ phone \in Devices
      /\ assembled' = assembled /\ assembled \in 0 .. MaxAssembled
      /\ disturbed' \in BOOLEAN
  BY InvFacts DEF Auth0, IInv, Carried, Entering, Pending, TypeOK, Expected
<1>2. CASE r # "ok" /\ Refuse
  <2>1. disturbed'
    BY <1>1, <1>2 DEF Expected
  <2>2. /\ UNCHANGED <<choices, progress, result>> /\ at' = "FAILURE"
        /\ mem' = mem /\ nvs' = mem' /\ FALSE \in BOOLEAN
    BY <1>1, <1>2 DEF Refuse, saved
  <2>3. QED
    BY <1>1, <2>1, <2>2, RefuseFacts
<1>3. CASE at' = "AUTH1" /\ UNCHANGED <<progress, result, saved>>
  <2>1. UNCHANGED <<target, phone, flow, issuer, found, fresh, result, mem, nvs>>
    BY <1>3 DEF choices, progress, saved
  <2>2. Slots(mem)' = Slots(mem) /\ Keys(nvs') = Keys(nvs)
    BY <2>1 DEF Slots
  <2>3. TypeOK'
    BY <1>1, <1>3, <2>1, <2>2 DEF TypeOK, Request
  <2>4. IInv'
    BY <1>1, <1>3, <2>1, <2>3
       DEF IInv, StoreDurable, Carried, FoundIsPhone, ResultIsFound,
           RefusedUnknown, Entering, Attesting
  <2>5. QED
    BY <1>1, <1>3, <2>2, <2>4, StillPending DEF Pending, Entering
<1>4. ASSUME NEW s \in Slots(mem), LookedUp(s, Opening(mem, phone)),
             Settle("Fast", s[1], s, "none", mem)
      PROVE  IInv' /\ LadderStep
  <2>1. s \in Opening(mem, phone)
    BY <1>4 DEF LookedUp, IsFirst
  <2>2. At(mem, s).pk = phone /\ s[1] \in Issuers /\ "none" \in Key
    BY <2>1 DEF Opening, Matches, Slots, Key
  <2>3. QED
    BY <1>1, <1>4, <2>2, SettleFacts
<1>5. QED
  BY <1>2, <1>3, <1>4 DEF Auth0

\* A step that changes nothing.
LEMMA StutterFacts ==
  ASSUME IInv, UNCHANGED ladder
  PROVE  IInv' /\ LadderStep
<1>1. /\ UNCHANGED <<target, phone, flow, issuer, found, fresh, result, mem, nvs>>
      /\ UNCHANGED <<at, assembled, disturbed>>
  BY DEF ladder, choices, progress, saved
<1>2. /\ Slots(mem)' = Slots(mem) /\ Matches(mem, phone)' = Matches(mem, phone)
      /\ At(mem, found)' = At(mem, found) /\ Keys(nvs)' = Keys(nvs)
  BY <1>1 DEF Slots, Matches, At, Keys
<1>3. TypeOK'
  BY <1>1, <1>2 DEF IInv, TypeOK
<1>4. IInv'
  BY <1>1, <1>2, <1>3
     DEF IInv, StoreDurable, Carried, FoundIsPhone, ResultIsFound, RefusedUnknown,
         IsFirst
<1>5. Decision' = Decision
  BY <1>1 DEF Decision
<1>6. QED
  BY <1>2, <1>4, <1>5 DEF LadderStep

\* AUTH1: refused, or not known to the store, or found there.
LEMMA Auth1Facts ==
  ASSUME IInv, NEW r \in Response, NEW c \in BOOLEAN, Auth1(r, c),
         UNCHANGED choices, disturbed' = (disturbed \/ ~Expected(r))
  PROVE  IInv' /\ LadderStep
<1> DEFINE st == Forgotten(mem, c)
           k == IF c THEN "shared" ELSE "stale"
<1>1. /\ TypeOK /\ mem = nvs /\ mem \in Stores /\ at = "AUTH1" /\ at \in Pending
      /\ flow = "Failed" /\ found = None /\ phone \in Devices
      /\ target' = target /\ phone' = phone
      /\ assembled' = assembled /\ assembled \in 0 .. MaxAssembled
      /\ disturbed' \in BOOLEAN
  BY InvFacts
     DEF Auth1, IInv, Carried, Entering, Pending, TypeOK, Expected, choices
<1>2. /\ st \in Stores /\ SamePks(mem, st) /\ Keys(st) = Keys(nvs)
      /\ Forgotten(nvs, c) = st
  BY <1>1, ForgottenFacts
<1>3. Matches(st, phone) = Matches(mem, phone)
  BY <1>2, SamePksFacts
<1>4. k \in {"stale", "shared"} /\ k \in Key /\ k # "none"
  BY DEF Key
<1> HIDE DEF k
<1>5. CASE /\ r # "ok"
           /\ at' = "FAILURE" /\ mem' = st /\ nvs' = Forgotten(nvs, c)
           /\ UNCHANGED <<progress, result>>
  <2>1. disturbed'
    BY <1>1, <1>5 DEF Expected
  <2>2. UNCHANGED <<choices, progress, result>>
    BY <1>5
  <2>3. mem' \in {mem, Forgotten(mem, c)} /\ nvs' = mem'
    BY <1>2, <1>5
  <2>4. QED
    BY <1>1, <1>5, <2>1, <2>2, <2>3, RefuseFacts
<1> DEFINE Goes(f, i, s) == Proceed("EXCHANGE", f, i, s, k, st) /\ nvs' = st
<1>6. ASSUME NEW f, NEW i, NEW s, Goes(f, i, s),
             \/ f = "Failed" /\ i = 0 /\ s = None
                /\ (disturbed' \/ Matches(st, phone) = {})
             \/ f = "Standard" /\ s \in Slots(st) /\ i = s[1]
                /\ IsFirst(s, Matches(st, phone))
      PROVE  IInv' /\ LadderStep
  <2>1. /\ at' = "EXCHANGE" /\ flow' = f /\ issuer' = i /\ found' = s /\ fresh' = k
        /\ mem' = st /\ nvs' = st /\ result' = result
    BY <1>6 DEF Proceed
  <2> HIDE DEF st
  <2>2. TypeOK'
    <3>1. issuer' \in Issuers \union {0} /\ found' \in Slots(mem') \union {None}
          /\ flow' \in {"Failed", "Standard"}
      BY <1>6, <2>1 DEF Slots
    <3>2. at' \in Request /\ at' # "Idle"
      BY <2>1 DEF Request
    <3>3. mem' \in [Issuers -> Seq(Endpoint)] /\ nvs' \in [Issuers -> Seq(Endpoint)]
      BY <1>2, <2>1 DEF Stores
    <3>4. QED
      BY <1>1, <1>4, <2>1, <3>1, <3>2, <3>3, HomeKeyAssumption DEF TypeOK
  <2>3. f = "Standard" => At(st, s).pk = phone /\ s # None
    BY <1>6 DEF IsFirst, Matches, Slots, None, Issuers
  <2>4. IInv'
    BY <1>1, <1>4, <1>6, <2>1, <2>2, <2>3
       DEF IInv, StoreDurable, Carried, FoundIsPhone, ResultIsFound, RefusedUnknown,
           Entering, Attesting
  <2>5. Keys(nvs') = Keys(nvs) /\ at' \in Pending
    BY <1>2, <2>1 DEF Pending, Attesting
  <2>6. QED
    BY <1>1, <2>4, <2>5, StillPending
<1>7. CASE /\ r = "odd" \/ (r = "ok" /\ Matches(st, phone) = {})
           /\ Goes("Failed", 0, None)
  <2>1. disturbed' \/ Matches(st, phone) = {}
    BY <1>1, <1>7 DEF Expected
  <2>2. QED
    BY <1>6, <1>7, <2>1
<1>8. ASSUME NEW s \in Slots(st), LookedUp(s, Matches(st, phone)),
             \/ Goes("Standard", s[1], s)
             \/ Settle("Standard", s[1], s, k, st)
      PROVE  IInv' /\ LadderStep
  <2>1. /\ IsFirst(s, Matches(st, phone)) /\ At(st, s).pk = phone
        /\ s[1] \in Issuers
    BY <1>8 DEF LookedUp, IsFirst, Matches, Slots
  <2>2. CASE Goes("Standard", s[1], s)
    BY <1>6, <2>1, <2>2
  <2>3. CASE Settle("Standard", s[1], s, k, st)
    <3>1. Granted(Keys(Rekeyed(st, s, k)))
      BY <1>2, <1>4, RekeyedFacts
    <3>2. QED
      BY <1>1, <1>2, <1>4, <2>1, <2>3, <3>1, SettleFacts
  <2>4. QED
    BY <1>8, <2>2, <2>3
<1>9. \/ /\ r # "ok"
         /\ at' = "FAILURE" /\ mem' = st /\ nvs' = Forgotten(nvs, c)
         /\ UNCHANGED <<progress, result>>
      \/ /\ r = "odd" \/ (r = "ok" /\ Matches(st, phone) = {})
         /\ Goes("Failed", 0, None)
      \/ \E s \in Slots(st) :
           /\ LookedUp(s, Matches(st, phone))
           /\ \/ Goes("Standard", s[1], s)
              \/ Settle("Standard", s[1], s, k, st)
  BY <1>2, <1>3 DEF Auth1, k
<1> HIDE DEF Goes, st
<1>10. QED
  BY <1>5, <1>7, <1>8, <1>9

\* The attestation failed: what AUTH1 found stands, or the phone is refused.
LEMMA AttestationFailsFacts ==
  ASSUME IInv, at \in Attesting, AttestationFails, UNCHANGED choices,
         disturbed' \in BOOLEAN, disturbed => disturbed'
  PROVE  IInv' /\ LadderStep
<1>1. /\ TypeOK /\ mem = nvs /\ mem \in Stores /\ at \in Pending
      /\ fresh \in {"stale", "shared"} /\ fresh \in Key
      /\ found \in Slots(mem) \union {None}
  BY InvFacts DEF IInv, Carried, TypeOK, Pending, Key
<1>2. assembled' = 0 /\ 0 \in 0 .. MaxAssembled
  BY HomeKeyAssumption DEF AttestationFails
<1>3. CASE found = None
  <2>1. /\ UNCHANGED <<choices, progress, result>> /\ at' = "FAILURE"
        /\ mem' = mem /\ nvs' = mem' /\ FALSE \in BOOLEAN
    BY <1>1, <1>3 DEF AttestationFails, Refuse, saved
  <2>2. disturbed' \/ Matches(mem, phone) = {}
    BY <1>3 DEF IInv, RefusedUnknown
  <2>3. QED
    BY <1>1, <1>2, <1>3, <2>1, <2>2, RefuseFacts
<1>4. CASE found # None
  <2>1. /\ flow = "Standard" /\ found \in Slots(mem) /\ At(mem, found).pk = phone
        /\ IsFirst(found, Matches(mem, phone)) /\ issuer = found[1]
        /\ issuer \in Issuers
    BY <1>1, <1>4 DEF IInv, Carried, FoundIsPhone, Slots
  <2>2. Granted(Keys(Rekeyed(mem, found, fresh)))
    BY <1>1, <2>1, RekeyedFacts
  <2>3. Settle("Standard", issuer, found, fresh, mem)
    BY <1>4, <2>1 DEF AttestationFails
  <2>4. QED
    BY <1>1, <1>2, <2>1, <2>2, <2>3, SettleFacts
<1>5. QED
  BY <1>3, <1>4

\* The attestation succeeded: the phone keeps its place or gets one.
LEMMA AttestationSucceedsFacts ==
  ASSUME IInv, at \in Attesting, AttestationSucceeds, UNCHANGED choices,
         disturbed' \in BOOLEAN
  PROVE  IInv' /\ LadderStep
<1>1. /\ TypeOK /\ mem = nvs /\ mem \in Stores /\ at \in Pending
      /\ fresh \in {"stale", "shared"} /\ fresh \in Key /\ fresh # "none"
      /\ found \in Slots(mem) \union {None} /\ at # "Idle" /\ phone \in Devices
  BY InvFacts DEF IInv, Carried, TypeOK, Pending, Key, Attesting
<1>2. assembled' = 0 /\ 0 \in 0 .. MaxAssembled
  BY HomeKeyAssumption DEF AttestationSucceeds
<1>3. PICK j \in Issuers :
        IF found # None
        THEN Settle("Attestation", j, found, fresh, mem)
        ELSE /\ Len(mem[j]) < MaxEndpoints
             /\ Settle("Attestation", j, <<j, Len(mem[j]) + 1>>, fresh,
                       [mem EXCEPT ![j] = Append(@, [pk |-> phone, key |-> "none"])])
  BY DEF AttestationSucceeds, Enrolled
<1>4. CASE found # None
  <2>1. found \in Slots(mem) /\ At(mem, found).pk = phone
    BY <1>1, <1>4 DEF IInv, FoundIsPhone
  <2>2. Granted(Keys(Rekeyed(mem, found, fresh)))
    BY <1>1, <2>1, RekeyedFacts
  <2>3. QED
    BY <1>1, <1>2, <1>3, <1>4, <2>1, <2>2, SettleFacts
<1>5. CASE found = None
  <2> DEFINE g == [mem EXCEPT ![j] = Append(@, [pk |-> phone, key |-> "none"])]
             s == <<j, Len(mem[j]) + 1>>
  <2>1. Len(mem[j]) < MaxEndpoints /\ Settle("Attestation", j, s, fresh, g)
    BY <1>3, <1>5
  <2>2. /\ g \in Stores /\ s \in Slots(g) /\ At(g, s).pk = phone
        /\ Granted(Keys(Rekeyed(g, s, fresh)))
    BY <1>1, <2>1, EnrolledFacts
  <2> HIDE DEF g, s
  <2>3. QED
    BY <1>1, <1>2, <2>1, <2>2, SettleFacts
<1>6. QED
  BY <1>4, <1>5

\* A request of the attestation: passed, or the end of it.
LEMMA PassesFacts ==
  ASSUME IInv, NEW request \in Attesting, NEW next \in Attesting, NEW r \in Response,
         Passes(request, next, r), UNCHANGED choices,
         disturbed' = (disturbed \/ ~Expected(r))
  PROVE  IInv' /\ LadderStep
<1>1. /\ at \in Attesting /\ disturbed' \in BOOLEAN /\ (disturbed => disturbed')
      /\ assembled \in 0 .. MaxAssembled
  BY InvFacts DEF Passes, TypeOK, Expected
<1>2. CASE AttestationFails
  BY <1>1, <1>2, AttestationFailsFacts
<1>3. CASE at' = next /\ UNCHANGED <<progress, result, saved, assembled>>
  <2>1. at' \in Attesting /\ UNCHANGED <<choices, progress, result, saved>>
        /\ assembled' \in 0 .. MaxAssembled
    BY <1>1, <1>3
  <2>2. QED
    BY <1>1, <2>1, AttestingOn
<1>4. QED
  BY <1>2, <1>3 DEF Passes

\* ENVELOPE 1 has one more way to fail.
LEMMA Envelope1Facts ==
  ASSUME IInv, NEW r \in Response, Envelope1(r), UNCHANGED choices,
         disturbed' = (disturbed \/ ~Expected(r))
  PROVE  IInv' /\ LadderStep
<1>1. "ENVELOPE1" \in Attesting /\ "ENVELOPE2" \in Attesting
  BY DEF Attesting
<1>2. CASE Passes("ENVELOPE1", "ENVELOPE2", r)
  BY <1>1, <1>2, PassesFacts
<1>3. CASE at = "ENVELOPE1" /\ r = "odd" /\ AttestationFails
  <2>1. disturbed' \in BOOLEAN /\ (disturbed => disturbed')
    BY InvFacts DEF TypeOK, Expected
  <2>2. QED
    BY <1>1, <1>3, <2>1, AttestationFailsFacts
<1>4. QED
  BY <1>2, <1>3 DEF Envelope1

\* ENVELOPE 2 and GET RESPONSE: more to come, the end, or the document.
LEMMA Envelope2Facts ==
  ASSUME IInv, NEW r \in Response, Envelope2(r), UNCHANGED choices,
         disturbed' = (disturbed \/ ~Expected(r))
  PROVE  IInv' /\ LadderStep
<1>1. /\ at \in Attesting /\ disturbed' \in BOOLEAN /\ (disturbed => disturbed')
      /\ assembled \in 0 .. MaxAssembled /\ "GET_RESPONSE" \in Attesting
  BY InvFacts DEF Envelope2, Attesting, TypeOK, Expected
<1>2. CASE AttestationFails
  BY <1>1, <1>2, AttestationFailsFacts
<1>3. CASE AttestationSucceeds
  BY <1>1, <1>3, AttestationSucceedsFacts
<1>4. CASE /\ at' = "GET_RESPONSE" /\ UNCHANGED <<progress, result, saved>>
           /\ assembled' \in {assembled, assembled + 1} /\ assembled' <= MaxAssembled
  <2>1. assembled' \in 0 .. MaxAssembled
    BY <1>1, <1>4, HomeKeyAssumption
  <2>2. UNCHANGED <<choices, progress, result, saved>>
    BY <1>4
  <2>3. QED
    BY <1>1, <1>4, <2>1, <2>2, AttestingOn
<1>5. QED
  BY <1>2, <1>3, <1>4 DEF Envelope2

\* CONTROL FLOW for a success reports what was granted, or fails it.
LEMMA SuccessFacts ==
  ASSUME IInv, NEW r \in Response, Success(r), UNCHANGED choices,
         disturbed' = (disturbed \/ ~Expected(r))
  PROVE  IInv' /\ LadderStep
<1>1. /\ TypeOK /\ mem = nvs /\ mem \in Stores /\ at = "SUCCESS" /\ phone \in Devices
      /\ flow \in {"Fast", "Standard"} /\ issuer \in Issuers
      /\ found # None /\ found \in Slots(mem) /\ At(mem, found).pk = phone
      /\ target' = target /\ phone' = phone /\ mem' = mem /\ nvs' = nvs
      /\ assembled' = assembled /\ disturbed' \in BOOLEAN
  BY InvFacts
     DEF Success, IInv, Carried, FoundIsPhone, TypeOK, Expected, choices, saved
<1>2. /\ Slots(mem)' = Slots(mem) /\ Keys(nvs)' = Keys(nvs)
      /\ Matches(mem, phone)' = Matches(mem, phone) /\ At(mem, found)' = At(mem, found')
  BY <1>1 DEF Slots, Keys, Matches, At
<1>3. CASE Return(flow, issuer, found, mem) /\ UNCHANGED progress
  <2>1. /\ at' = "Done" /\ result' = [flow |-> flow, issuer |-> issuer, pk |-> phone]
        /\ flow' = flow /\ issuer' = issuer /\ found' = found /\ fresh' = fresh
    BY <1>1, <1>3 DEF Return, ReadThrough, progress
  <2>2. result' \in [flow : {"Fast", "Standard", "Attestation"},
                     issuer : Issuers, pk : Devices]
        /\ result'.pk = phone /\ result'.issuer = issuer
    BY <1>1, <2>1
  <2>3. TypeOK'
    BY <1>1, <1>2, <2>1, <2>2 DEF TypeOK, Rest
  <2>4. IInv'
    BY <1>1, <1>2, <2>1, <2>2, <2>3
       DEF IInv, StoreDurable, Carried, FoundIsPhone, ResultIsFound, RefusedUnknown,
           Entering, Attesting, IsFirst
  <2>5. Decision = "granted" /\ Decision' = "done"
    BY <1>1, <2>1 DEF Decision
  <2>6. QED
    BY <1>2, <2>4, <2>5 DEF LadderStep, Transaction!Next, Transaction!Report
<1>4. CASE r \notin {"ok", "odd"} /\ at' = "Failed" /\ NoProgress /\ UNCHANGED result
  <2>1. /\ flow' = "Failed" /\ issuer' = 0 /\ found' = None /\ fresh' = "none"
        /\ "none" \in Key /\ result' = result
    BY <1>4 DEF NoProgress, Key
  <2>2. disturbed'
    BY <1>1, <1>4 DEF Expected
  <2>3. TypeOK'
    BY <1>1, <1>2, <1>4, <2>1 DEF TypeOK, Rest
  <2>4. IInv'
    BY <1>1, <1>4, <2>1, <2>2, <2>3
       DEF IInv, StoreDurable, Carried, FoundIsPhone, ResultIsFound, RefusedUnknown,
           Entering, Attesting
  <2>5. Decision = "granted" /\ Decision' = "failed"
    BY <1>1, <1>4 DEF Decision
  <2>6. QED
    BY <1>2, <2>4, <2>5 DEF LadderStep, Transaction!Next, Transaction!Report
<1>5. QED
  BY <1>3, <1>4 DEF Success

\* Whatever the device says to CONTROL FLOW for a failure, it has failed.
LEMMA FailureFacts ==
  ASSUME IInv, NEW r \in Response, Failure(r), UNCHANGED choices,
         disturbed' = (disturbed \/ ~Expected(r))
  PROVE  IInv' /\ LadderStep
<1>1. /\ TypeOK /\ mem = nvs /\ mem \in Stores /\ at = "FAILURE" /\ phone \in Devices
      /\ target' = target /\ phone' = phone /\ mem' = mem /\ nvs' = nvs
      /\ assembled' = assembled /\ disturbed' \in BOOLEAN /\ (disturbed => disturbed')
      /\ at' = "Failed" /\ result' = result
      /\ flow' = "Failed" /\ issuer' = 0 /\ found' = None /\ fresh' = "none"
      /\ "none" \in Key
  BY InvFacts DEF Failure, NoProgress, Key, TypeOK, Expected, choices, saved
<1>2. Keys(nvs)' = Keys(nvs) /\ Matches(mem, phone)' = Matches(mem, phone)
  BY <1>1 DEF Keys, Matches, Slots, At
<1>3. TypeOK'
  BY <1>1 DEF TypeOK, Rest
<1>4. IInv'
  BY <1>1, <1>2, <1>3
     DEF IInv, StoreDurable, Carried, FoundIsPhone, ResultIsFound, RefusedUnknown,
         Entering, Attesting
<1>5. Decision = "refused" /\ Decision' = "failed"
  BY <1>1 DEF Decision
<1>6. QED
  BY <1>2, <1>4, <1>5 DEF LadderStep, Transaction!Next, Transaction!Report

\* A new transaction, or power loss, which forgets one.
LEMMA BeginCrashFacts ==
  ASSUME IInv, Crash \/ \E t \in Targets, d \in Devices : Begin(t, d)
  PROVE  IInv' /\ LadderStep
<1>1. /\ TypeOK /\ mem = nvs /\ mem \in Stores /\ mem' = mem /\ nvs' = nvs
      /\ flow' = "Failed" /\ issuer' = 0 /\ found' = None /\ fresh' = "none"
      /\ "none" \in Key /\ result' = NoResult /\ assembled' = 0
      /\ 0 \in 0 .. MaxAssembled /\ disturbed' = FALSE
  BY InvFacts, HomeKeyAssumption DEF Begin, Crash, FreshSession, NoProgress, saved, Key
<1>2. Keys(nvs)' = Keys(nvs)
  BY <1>1 DEF Keys
<1>3. CASE Crash
  <2>1. at' = "Idle" /\ target' = "Fast" /\ phone' = "none"
    BY <1>3 DEF Crash
  <2>2. TypeOK'
    BY <1>1, <2>1 DEF TypeOK, Rest, Target
  <2>3. IInv'
    BY <1>1, <2>1, <2>2
       DEF IInv, StoreDurable, Carried, FoundIsPhone, ResultIsFound, RefusedUnknown,
           Entering, Attesting
  <2>4. Decision' = "none"
    BY <2>1 DEF Decision
  <2>5. QED
    BY <1>2, <2>3, <2>4 DEF LadderStep, Transaction!Next, Transaction!PowerLoss
<1>4. ASSUME NEW t \in Targets, NEW d \in Devices, Begin(t, d)
      PROVE  IInv' /\ LadderStep
  <2>1. at \in Rest /\ at' = "AUTH0" /\ target' = t /\ phone' = d
    BY <1>4 DEF Begin
  <2>2. TypeOK'
    BY <1>1, <2>1, HomeKeyAssumption, TargetAssumption DEF TypeOK, Request
  <2>3. IInv'
    BY <1>1, <2>1, <2>2
       DEF IInv, StoreDurable, Carried, FoundIsPhone, ResultIsFound, RefusedUnknown,
           Entering, Attesting
  <2>4. Decision \in {"none", "done", "failed"} /\ Decision' = "pending"
    BY <2>1 DEF Rest, Decision
  <2>5. QED
    BY <1>2, <2>3, <2>4 DEF LadderStep, Transaction!Next, Transaction!Start
<1>5. QED
  BY <1>3, <1>4

-----------------------------------------------------------------------------
\* The stores of Init, and their keys, are stores.
LEMMA InitFacts ==
  ASSUME Init
  PROVE  IInv /\ Transaction!Init
<1>1. mem \in Stores
  <2>1. \A d \in Devices, k \in {"none", "shared"} : [pk |-> d, key |-> k] \in Endpoint
    BY DEF Endpoint, Key
  <2>2. ASSUME NEW i \in Issuers PROVE mem[i] \in Seq(Endpoint)
    <3>1. mem[i] \in {<<>>} \union {<<[pk |-> d, key |-> k]>> :
                                      d \in Devices, k \in {"none", "shared"}}
      BY DEF Init
    <3>2. CASE mem[i] = <<>>
      BY <3>2
    <3>3. ASSUME NEW e \in Endpoint, mem[i] = <<e>> PROVE mem[i] \in Seq(Endpoint)
      BY <3>3
    <3>4. mem[i] = <<>> \/ \E e \in Endpoint : mem[i] = <<e>>
      <4>1. CASE mem[i] # <<>>
        <5>1. PICK d \in Devices, k \in {"none", "shared"} :
                mem[i] = <<[pk |-> d, key |-> k]>>
          BY <3>1, <4>1
        <5>2. QED
          BY <2>1, <5>1
      <4>2. QED
        BY <4>1
    <3>5. QED
      BY <3>2, <3>3, <3>4
  <2>3. mem = [i \in Issuers |-> mem[i]]
    BY DEF Init
  <2>4. QED
    BY <2>2, <2>3 DEF Stores
<1>2. TypeOK
  <2>1. 0 \in 0 .. MaxAssembled /\ "none" \in Key
    BY HomeKeyAssumption DEF Key
  <2>2. QED
    BY <1>1, <2>1 DEF Init, TypeOK, Stores, Target, Rest
<1>3. IInv
  BY <1>2
     DEF IInv, Init, StoreDurable, Carried, FoundIsPhone, ResultIsFound,
         RefusedUnknown, Entering, Attesting
<1>4. ASSUME NEW i \in Issuers PROVE Len(Keys(nvs)[i]) <= 1
  <2>1. mem[i] \in {<<>>} \union {<<[pk |-> d, key |-> k]>> :
                                    d \in Devices, k \in {"none", "shared"}}
    BY DEF Init
  <2>2. Len(mem[i]) \in 0 .. 1 /\ DOMAIN mem[i] = 1 .. Len(mem[i])
    BY <2>1
  <2>3. DOMAIN Keys(nvs)[i] = 1 .. Len(mem[i])
    BY <2>2 DEF Init, Keys
  <2>4. Len(Keys(nvs)[i]) = Len(mem[i])
    BY <2>2, <2>3
  <2> DEFINE n == Len(mem[i])
             m == Len(Keys(nvs)[i])
  <2>5. n \in 0 .. 1 /\ m = n
    BY <2>2, <2>4
  <2> HIDE DEF n, m
  <2>6. m <= 1
    BY <2>5
  <2>7. QED
    BY <2>6 DEF m
<1>5. Decision = "none"
  BY DEF Init, Decision
<1>6. QED
  BY <1>3, <1>4, <1>5 DEF Transaction!Init

\* Every step keeps the invariant and is an abstract step.
LEMMA NextFacts == IInv /\ [Next]_ladder => IInv' /\ LadderStep
<1> SUFFICES ASSUME IInv, [Next]_ladder PROVE IInv' /\ LadderStep
  OBVIOUS
<1>1. CASE UNCHANGED ladder
  BY <1>1, StutterFacts
<1>2. CASE Crash \/ \E t \in Targets, d \in Devices : Begin(t, d)
  BY <1>2, BeginCrashFacts
<1>3. ASSUME NEW r \in Response, Respond(r) PROVE IInv' /\ LadderStep
  <2>1. UNCHANGED choices /\ disturbed' = (disturbed \/ ~Expected(r))
    BY <1>3 DEF Respond
  <2>2. CASE Auth0(r)
    BY <2>1, <2>2, Auth0Facts
  <2>3. CASE \E c \in BOOLEAN : Auth1(r, c)
    BY <2>1, <2>3, Auth1Facts
  <2>4. CASE \/ Passes("EXCHANGE", "ATTESTATION", r)
             \/ Passes("ATTESTATION", "SELECT", r)
             \/ Passes("SELECT", "ENVELOPE1", r)
    <3>1. {"EXCHANGE", "ATTESTATION", "SELECT", "ENVELOPE1"} \subseteq Attesting
      BY DEF Attesting
    <3>2. QED
      BY <2>1, <2>4, <3>1, PassesFacts
  <2>5. CASE Envelope1(r)
    BY <2>1, <2>5, Envelope1Facts
  <2>6. CASE Envelope2(r)
    BY <2>1, <2>6, Envelope2Facts
  <2>7. CASE Success(r)
    BY <2>1, <2>7, SuccessFacts
  <2>8. CASE Failure(r)
    BY <2>1, <2>8, FailureFacts
  <2>9. QED
    BY <1>3, <2>2, <2>3, <2>4, <2>5, <2>6, <2>7, <2>8 DEF Respond, Exchange
<1>4. QED
  BY <1>1, <1>2, <1>3 DEF Next

\* IInv holds in every state.
LEMMA Invariance == Spec => []IInv
<1>1. Init => IInv
  BY InitFacts
<1>2. QED
  BY <1>1, NextFacts, PTL DEF Spec

(***************************************************************************)
(* Type correctness of the ladder and of its store (Profile.cpp:62-224).   *)
(***************************************************************************)
THEOREM TypeCorrect == Spec => []TypeOK
<1>1. IInv => TypeOK
  BY DEF IInv
<1>2. QED
  BY <1>1, Invariance, PTL

(***************************************************************************)
(* No request of a transaction and no end of one leaves a change of the    *)
(* store that a power cut would lose (Profile.cpp:203-207).                *)
(***************************************************************************)
THEOREM Durable == Spec => []StoreDurable
<1>1. IInv => StoreDurable
  BY DEF IInv
<1>2. QED
  BY <1>1, Invariance, PTL

(***************************************************************************)
(* A phone in the store that answers undisturbed is never refused, whether *)
(* or not its persistent key is the one in the store                       *)
(* (Profile.cpp:123-150).                                                  *)
(***************************************************************************)
THEOREM Recovers == Spec => []RecoversKey
<1>1. IInv => RecoversKey
  BY DEF IInv, RefusedUnknown, RecoversKey
<1>2. QED
  BY <1>1, Invariance, PTL

(***************************************************************************)
(* The ladder implements the abstract transaction: one decision, reported  *)
(* once, at most one key or one enrolment saved with it, nothing saved on  *)
(* a refusal (Profile.cpp:62-224).                                         *)
(***************************************************************************)
THEOREM ImplementsTransaction == Spec => TransactionSpec
<1>1. Init => Transaction!Init
  BY InitFacts
<1>2. QED
  BY <1>1, Invariance, NextFacts, PTL
     DEF Spec, TransactionSpec, Transaction!Spec, LadderStep

\* The entry that a lookup by issuer and public key comes to.
LEMMA LookupFinds ==
  ASSUME NEW same, same \subseteq Issuers \X (1 .. MaxEndpoints), same # {},
         NEW i, \A s \in same : s[1] = i
  PROVE  \E s \in same : IsFirst(s, same)
<1> DEFINE T == {k \in 1 .. MaxEndpoints : <<i, k>> \in same}
<1>1. \A s \in same : s = <<i, s[2]>> /\ s[2] \in T
  OBVIOUS
<1>2. T \subseteq Nat /\ T # {}
  BY <1>1, HomeKeyAssumption
<1>3. PICK m \in T : \A k \in T : m <= k
  <2> HIDE DEF T
  <2>1. PICK m \in T : \A k \in T : ~ (<<k, m>> \in OpToRel(<, Nat))
    BY <1>2, WFMin, NatLessThanWellFounded, Zenon
  <2>2. ASSUME NEW k \in T PROVE m <= k
    <3>1. k \in Nat /\ m \in Nat
      BY <1>2
    <3>2. ~ (k < m)
      BY <2>1, <3>1 DEF OpToRel
    <3>3. QED
      BY <3>1, <3>2
  <2>3. QED
    BY <2>2
<1>4. <<i, m>> \in same
  OBVIOUS
<1>5. ASSUME NEW t \in same PROVE t = <<i, m>> \/ Before(<<i, m>>, t)
  <2>1. t = <<i, t[2]>> /\ t[2] \in Nat /\ m \in Nat /\ m <= t[2]
    BY <1>1, <1>2, <1>3
  <2>2. t[2] = m \/ m < t[2]
    BY <2>1
  <2>3. QED
    BY <2>1, <2>2 DEF Before
<1>6. QED
  BY <1>4, <1>5 DEF IsFirst

\* The entry that was found is the one that is looked up.
LEMMA OutcomeFollows == IInv => OutcomeNamesDevice
<1> SUFFICES ASSUME IInv, at = "Done"
             PROVE  /\ result.pk = phone /\ found \in Matches(mem, phone)
                    /\ result.issuer = found[1] \/ result.flow = "Attestation"
                    /\ result.issuer = found[1] =>
                         \E s \in Named :
                           IsFirst(s, Named) /\ (flow = "Standard" => s = found)
  BY DEF OutcomeNamesDevice
<1>0. /\ result.pk = phone
      /\ found \in Slots(mem) /\ At(mem, found).pk = phone
      /\ result.issuer = found[1] \/ result.flow = "Attestation"
  BY InvFacts DEF IInv, TypeOK, ResultIsFound, FoundIsPhone
<1> SUFFICES ASSUME result.issuer = found[1]
             PROVE  \E s \in Named : IsFirst(s, Named) /\ (flow = "Standard" => s = found)
  BY <1>0 DEF Matches
<1>1. /\ result.pk = phone /\ result.issuer = found[1]
      /\ found \in Slots(mem) /\ At(mem, found).pk = phone
  BY <1>0
<1>2. /\ Named = {s \in Matches(mem, phone) : s[1] = found[1]}
      /\ found \in Named /\ Named \subseteq Issuers \X (1 .. MaxEndpoints)
  BY <1>1 DEF Named, Matches, Slots
<1>3. CASE flow = "Standard"
  <2>1. IsFirst(found, Matches(mem, phone))
    BY <1>3 DEF IInv, FoundIsPhone
  <2>2. QED
    BY <1>1, <1>2, <2>1 DEF IsFirst
<1>4. CASE flow # "Standard"
  <2>1. \E s \in Named : IsFirst(s, Named)
    BY <1>2, LookupFinds
  <2>2. QED
    BY <1>1, <1>4, <2>1
<1>5. QED
  BY <1>3, <1>4

(***************************************************************************)
(* The outcome that finalize looks up names the phone in the field, after  *)
(* a standard flow by the entry with its key, unless the attestation went  *)
(* by another issuer (Profile.cpp:220-245).                                *)
(***************************************************************************)
THEOREM OutcomeNames == Spec => []OutcomeNamesDevice
BY OutcomeFollows, Invariance, PTL
=============================================================================
