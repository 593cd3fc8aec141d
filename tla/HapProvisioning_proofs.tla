----------------------- MODULE HapProvisioning_proofs -----------------------
(***************************************************************************)
(* Proofs about HapProvisioning, for every store, set of devices and bound *)
(* and every entry followed.  While a transaction is not raced it keeps    *)
(* the invariant of the ladder alone (HomeKeyProfile_proofs); whatever     *)
(* races it, the store stays the saved one and no request is undone.       *)
(***************************************************************************)
EXTENDS HapProvisioning, HomeKeyProfile_proofs, SequenceTheorems

\* Unless the bound leaves no room for an entry, no list is longer than it.
Fits(st) == MaxEndpoints # 0 => \A i \in Issuers : DOMAIN st[i] \subseteq 1 .. MaxEndpoints

\* What no race takes away: the store is a saved store, and an attestation has
\* a key to store with what it enrols.
Undisputed ==
  /\ target \in Target /\ phone \in Devices \union {"none"}
  /\ phone = "none" => at = "Idle"
  /\ at \in Rest \union Request
  /\ fresh \in Key
  /\ at \in Attesting => fresh # "none"
  /\ at = "Idle" => found = None /\ flow = "Failed"
  /\ mem \in Stores /\ mem = nvs /\ Fits(mem)

OneEntry == ~doubled => \A s, t \in Entries(mem, Watched) : s = t

HapInv ==
  /\ Undisputed /\ OneEntry /\ ToldTrue
  /\ raced \in BOOLEAN /\ doubled \in BOOLEAN
  /\ ~raced => IInv

-----------------------------------------------------------------------------
\* A list without its k-th element.
LEMMA WithoutOne ==
  ASSUME NEW S, NEW q \in Seq(S), NEW k \in 1 .. Len(q)
  PROVE  LET e == SubSeq(q, 1, k - 1) \o SubSeq(q, k + 1, Len(q))
         IN  /\ e \in Seq(S) /\ DOMAIN e = 1 .. Len(q) - 1
             /\ \A n \in 1 .. Len(q) - 1 : e[n] = IF n < k THEN q[n] ELSE q[n + 1]
<1> DEFINE l == SubSeq(q, 1, k - 1)
           u == SubSeq(q, k + 1, Len(q))
           e == l \o u
<1>1. Len(q) \in Nat /\ k \in Nat /\ \A n \in 1 .. Len(q) : q[n] \in S
  OBVIOUS
<1>2. /\ l \in Seq(S) /\ Len(l) = k - 1
      /\ \A n \in 1 .. k - 1 : l[n] = q[n]
  <2>1. \A n \in 1 .. k - 1 : q[n] \in S
    BY <1>1
  <2>2. /\ l \in Seq(S)
        /\ Len(l) = IF 1 <= k - 1 THEN k - 1 - 1 + 1 ELSE 0
        /\ \A n \in 1 .. k - 1 - 1 + 1 : l[n] = q[1 + n - 1]
    BY <1>1, <2>1, SubSeqProperties
  <2> HIDE DEF l
  <2>3. k >= 1
    OBVIOUS
  <2>4. \A n \in 1 .. k - 1 : l[n] = q[n]
    BY <1>1, <2>2
  <2>5. QED
    BY <1>1, <2>2, <2>3, <2>4
<1>3. /\ u \in Seq(S) /\ Len(u) = Len(q) - k
      /\ \A n \in 1 .. Len(q) - k : u[n] = q[k + n]
  <2>1. \A n \in k + 1 .. Len(q) : q[n] \in S
    BY <1>1
  <2>2. /\ u \in Seq(S)
        /\ Len(u) = IF k + 1 <= Len(q) THEN Len(q) - (k + 1) + 1 ELSE 0
        /\ \A n \in 1 .. Len(q) - (k + 1) + 1 : u[n] = q[k + 1 + n - 1]
    BY <1>1, <2>1, SubSeqProperties
  <2> HIDE DEF u
  <2>3. k <= Len(q)
    OBVIOUS
  <2>4. \A n \in 1 .. Len(q) - k : u[n] = q[k + n]
    <3> SUFFICES ASSUME NEW n \in 1 .. Len(q) - k PROVE u[n] = q[k + n]
      OBVIOUS
    <3>1. n \in 1 .. Len(q) - (k + 1) + 1 /\ k + 1 + n - 1 = k + n
      BY <1>1
    <3>2. QED
      BY <2>2, <3>1
  <2>5. QED
    BY <1>1, <2>2, <2>3, <2>4
<1> HIDE DEF l, u
<1>4. /\ e \in Seq(S) /\ Len(e) = Len(l) + Len(u)
      /\ \A n \in 1 .. Len(l) + Len(u) : e[n] = IF n <= Len(l) THEN l[n] ELSE u[n - Len(l)]
  BY <1>2, <1>3, ConcatProperties
<1> HIDE DEF e
<1>5. Len(e) = Len(q) - 1 /\ DOMAIN e = 1 .. Len(q) - 1
  BY <1>1, <1>2, <1>3, <1>4
<1>6. ASSUME NEW n \in 1 .. Len(q) - 1
      PROVE  e[n] = IF n < k THEN q[n] ELSE q[n + 1]
  <2>1. n \in 1 .. Len(l) + Len(u)
    BY <1>1, <1>2, <1>3
  <2>2. CASE n < k
    <3>1. n <= Len(l) /\ n \in 1 .. k - 1
      BY <1>1, <1>2, <2>2
    <3>2. QED
      BY <1>2, <1>4, <2>1, <2>2, <3>1
  <2>3. CASE ~(n < k)
    <3>1. ~(n <= Len(l)) /\ n - Len(l) \in 1 .. Len(q) - k /\ k + (n - Len(l)) = n + 1
      BY <1>1, <1>2, <2>3
    <3>2. e[n] = u[n - Len(l)]
      BY <1>4, <2>1, <3>1
    <3>3. u[n - Len(l)] = q[k + (n - Len(l))]
      BY <1>3, <3>1
    <3>4. QED
      BY <2>3, <3>1, <3>2, <3>3
  <2>4. QED
    BY <2>2, <2>3
<1>7. QED
  BY <1>4, <1>5, <1>6 DEF e, l, u

\* Removing an entry keeps every other, in the list it is in.
LEMMA ErasedFacts ==
  ASSUME NEW st \in Stores, NEW s \in Slots(st), Fits(st)
  PROVE  LET g == Erased(st, s)
         IN  /\ g \in Stores /\ Fits(g)
             /\ \A u \in Slots(st) : u[1] # s[1] => u \in Slots(g) /\ At(g, u) = At(st, u)
             /\ \A t \in Slots(g) : t[1] # s[1] => t \in Slots(st)
             /\ \A t \in Slots(g) : \E u \in Slots(st) :
                  u # s /\ u[1] = t[1] /\ At(g, t) = At(st, u)
             /\ \A u \in Slots(st) : u = s \/
                  \E t \in Slots(g) : t[1] = u[1] /\ At(g, t) = At(st, u)
<1> DEFINE i == s[1]
           k == s[2]
           q == st[i]
           e == SubSeq(q, 1, k - 1) \o SubSeq(q, k + 1, Len(q))
           g == Erased(st, s)
<1>1. /\ s = <<i, k>> /\ i \in Issuers /\ k \in 1 .. MaxEndpoints
      /\ MaxEndpoints \in Nat /\ MaxEndpoints # 0
  BY HomeKeyAssumption DEF Slots
<1>2. q \in Seq(Endpoint) /\ Len(q) \in Nat /\ DOMAIN q = 1 .. Len(q) /\ k \in 1 .. Len(q)
  BY <1>1, EntryFacts DEF Slots
<1>3. /\ e \in Seq(Endpoint) /\ DOMAIN e = 1 .. Len(q) - 1
      /\ \A n \in 1 .. Len(q) - 1 : e[n] = IF n < k THEN q[n] ELSE q[n + 1]
  BY <1>2, WithoutOne
<1>4. /\ g = [st EXCEPT ![i] = e]
      /\ st \in [Issuers -> Seq(Endpoint)]
  BY DEF Erased, Stores
<1>5. 1 .. Len(q) \subseteq 1 .. MaxEndpoints
  BY <1>1, <1>2 DEF Fits
<1> HIDE DEF e, g
<1>6. g \in Stores /\ g[i] = e /\ \A j \in Issuers \ {i} : g[j] = st[j]
  BY <1>1, <1>3, <1>4 DEF Stores
<1>7. Fits(g)
  <2> SUFFICES ASSUME NEW j \in Issuers PROVE DOMAIN g[j] \subseteq 1 .. MaxEndpoints
    BY DEF Fits
  <2>1. CASE j = i
    <3>1. 1 .. Len(q) - 1 \subseteq 1 .. Len(q)
      BY <1>2
    <3>2. QED
      BY <1>3, <1>5, <1>6, <2>1, <3>1
  <2>2. CASE j # i
    BY <1>1, <1>6, <2>2 DEF Fits
  <2>3. QED
    BY <2>1, <2>2
<1>8. ASSUME NEW t \in Slots(g)
      PROVE  \E u \in Slots(st) : u # s /\ u[1] = t[1] /\ At(g, t) = At(st, u)
  <2>1. t \in Issuers \X (1 .. MaxEndpoints) /\ t = <<t[1], t[2]>> /\ t[2] \in DOMAIN g[t[1]]
    BY DEF Slots
  <2>2. CASE t[1] # i
    <3>1. t \in Slots(st) /\ At(g, t) = At(st, t) /\ t # s
      BY <1>6, <2>1, <2>2 DEF Slots, At
    <3>2. QED
      BY <3>1
  <2>3. CASE t[1] = i
    <3> DEFINE n == t[2]
               m == IF n < k THEN n ELSE n + 1
               u == <<i, m>>
    <3>1. n \in 1 .. Len(q) - 1 /\ e[n] = q[m]
      BY <1>3, <1>6, <2>1, <2>3
    <3>2. m \in 1 .. Len(q) /\ m # k
      BY <1>2, <3>1
    <3>3. m \in 1 .. MaxEndpoints
      BY <1>5, <3>2
    <3> HIDE DEF m
    <3>4. u \in Slots(st) /\ u # s /\ u[1] = t[1]
      BY <1>1, <1>2, <2>3, <3>2, <3>3 DEF Slots
    <3>5. At(g, t) = e[n] /\ At(st, u) = q[m]
      BY <1>6, <2>3 DEF At
    <3> HIDE DEF u
    <3>6. QED
      BY <3>1, <3>4, <3>5
  <2>4. QED
    BY <2>2, <2>3
<1>9. ASSUME NEW u \in Slots(st), u # s
      PROVE  \E t \in Slots(g) : t[1] = u[1] /\ At(g, t) = At(st, u)
  <2>1. u \in Issuers \X (1 .. MaxEndpoints) /\ u = <<u[1], u[2]>> /\ u[2] \in DOMAIN st[u[1]]
    BY DEF Slots
  <2>2. CASE u[1] # i
    <3>1. u \in Slots(g) /\ At(g, u) = At(st, u)
      BY <1>6, <2>1, <2>2 DEF Slots, At
    <3>2. QED
      BY <3>1
  <2>3. CASE u[1] = i
    <3> DEFINE m == u[2]
               n == IF m < k THEN m ELSE m - 1
               t == <<i, n>>
    <3>1. m \in 1 .. Len(q) /\ m # k
      BY <1>1, <1>2, <1>9, <2>1, <2>3
    <3>2. n \in 1 .. Len(q) - 1 /\ n \in 1 .. Len(q) /\ e[n] = q[m]
      <4>1. n \in 1 .. Len(q) - 1 /\ n \in 1 .. Len(q)
        BY <1>2, <3>1
      <4>2. m = IF n < k THEN n ELSE n + 1
        BY <1>2, <3>1
      <4> HIDE DEF m, n
      <4>3. e[n] = IF n < k THEN q[n] ELSE q[n + 1]
        BY <1>3, <4>1
      <4>4. QED
        BY <4>1, <4>2, <4>3
    <3>3. n \in 1 .. MaxEndpoints
      BY <1>5, <3>2
    <3> HIDE DEF n
    <3>4. t \in Slots(g) /\ t[1] = u[1]
      BY <1>1, <1>3, <1>6, <2>3, <3>2, <3>3 DEF Slots
    <3>5. At(g, t) = e[n] /\ At(st, u) = q[m]
      BY <1>6, <2>3 DEF At
    <3> HIDE DEF t
    <3>6. QED
      BY <3>2, <3>4, <3>5
  <2>4. QED
    BY <2>2, <2>3
<1>10. /\ \A u \in Slots(st) : u[1] # i => u \in Slots(g) /\ At(g, u) = At(st, u)
       /\ \A t \in Slots(g) : t[1] # i => t \in Slots(st)
  BY <1>6 DEF Slots, At
<1>11. QED
  BY <1>6, <1>7, <1>8, <1>9, <1>10 DEF g

Appended(st, j, e) == [st EXCEPT ![j] = Append(@, e)]

Emptied(st, j) == [st EXCEPT ![j] = <<>>]

\* A new entry goes last in its list.
LEMMA AppendedFacts ==
  ASSUME NEW st \in Stores, Fits(st), NEW j \in Issuers, NEW e \in Endpoint,
         Len(st[j]) < MaxEndpoints
  PROVE  LET g == Appended(st, j, e)
             n == <<j, Len(st[j]) + 1>>
         IN  /\ g \in Stores /\ Fits(g)
             /\ Slots(g) = Slots(st) \union {n} /\ At(g, n) = e
             /\ \A s \in Slots(st) : At(g, s) = At(st, s)
<1> DEFINE q == st[j]
           l == Len(q)
           p == Append(q, e)
           g == Appended(st, j, e)
           n == <<j, l + 1>>
<1>1. /\ q \in Seq(Endpoint) /\ l \in Nat /\ DOMAIN q = 1 .. l
      /\ MaxEndpoints \in Nat /\ MaxEndpoints # 0
  BY EntryFacts, HomeKeyAssumption
<1>2. /\ p \in Seq(Endpoint) /\ DOMAIN p = 1 .. l + 1 /\ p[l + 1] = e
      /\ \A k \in 1 .. l : p[k] = q[k]
  BY <1>1, AppendProperties
<1> HIDE DEF p
<1>3. g \in Stores /\ g[j] = p /\ \A i \in Issuers \ {j} : g[i] = st[i]
  BY <1>2 DEF Appended, p, Stores
<1> HIDE DEF g
<1>4. /\ 1 .. l + 1 = (1 .. l) \union {l + 1} /\ l + 1 \notin 1 .. l
      /\ 1 .. l + 1 \subseteq 1 .. MaxEndpoints /\ l + 1 \in 1 .. MaxEndpoints
  BY <1>1
<1> HIDE DEF l
<1>5. Fits(g)
  <2>1. ASSUME NEW i \in Issuers PROVE DOMAIN g[i] \subseteq 1 .. MaxEndpoints
    <3>1. CASE i = j
      BY <1>2, <1>3, <1>4, <3>1
    <3>2. CASE i # j
      BY <1>1, <1>3, <3>2 DEF Fits
    <3>3. QED
      BY <3>1, <3>2
  <2>2. QED
    BY <2>1 DEF Fits
<1>6. n \in Slots(g) /\ At(g, n) = e
  BY <1>1, <1>2, <1>3, <1>4 DEF Slots, At
<1>7. ASSUME NEW s \in Slots(st) PROVE s \in Slots(g) /\ At(g, s) = At(st, s)
  <2>1. s \in Issuers \X (1 .. MaxEndpoints) /\ s = <<s[1], s[2]>> /\ s[2] \in DOMAIN st[s[1]]
    BY DEF Slots
  <2>2. CASE s[1] = j
    BY <1>1, <1>2, <1>3, <1>4, <2>1, <2>2 DEF Slots, At
  <2>3. CASE s[1] # j
    BY <1>3, <2>1, <2>3 DEF Slots, At
  <2>4. QED
    BY <2>2, <2>3
<1>8. ASSUME NEW s \in Slots(g), s # n PROVE s \in Slots(st)
  <2>1. s \in Issuers \X (1 .. MaxEndpoints) /\ s = <<s[1], s[2]>> /\ s[2] \in DOMAIN g[s[1]]
    BY DEF Slots
  <2>2. CASE s[1] = j
    <3>1. s[2] # l + 1 /\ s[2] \in DOMAIN p
      BY <1>3, <1>8, <2>1, <2>2
    <3>2. QED
      BY <1>1, <1>2, <1>4, <2>1, <2>2, <3>1 DEF Slots
  <2>3. CASE s[1] # j
    BY <1>3, <2>1, <2>3 DEF Slots
  <2>4. QED
    BY <2>2, <2>3
<1>9. QED
  BY <1>3, <1>5, <1>6, <1>7, <1>8 DEF g, p, l

\* Emptying a list leaves the entries of the others.
LEMMA EmptiedFacts ==
  ASSUME NEW st \in Stores, Fits(st), NEW j \in Issuers
  PROVE  LET g == Emptied(st, j)
         IN  /\ g \in Stores /\ Fits(g)
             /\ Slots(g) = {s \in Slots(st) : s[1] # j}
             /\ \A s \in Slots(g) : At(g, s) = At(st, s)
<1> DEFINE g == Emptied(st, j)
<1>1. <<>> \in Seq(Endpoint) /\ DOMAIN <<>> = {}
  BY EmptySeq
<1>2. g \in Stores /\ DOMAIN g[j] = {} /\ \A i \in Issuers \ {j} : g[i] = st[i]
  BY <1>1 DEF Emptied, Stores
<1> HIDE DEF g
<1>3. Fits(g)
  BY <1>2 DEF Fits
<1>4. Slots(g) = {s \in Slots(st) : s[1] # j}
  BY <1>2 DEF Slots
<1>5. \A s \in Slots(g) : At(g, s) = At(st, s)
  BY <1>2, <1>4 DEF At, Slots
<1>6. QED
  BY <1>2, <1>3, <1>4, <1>5 DEF g

\* Where an entry is, and its device.
LEMMA EntriesFacts ==
  ASSUME NEW st \in Stores, NEW w
  PROVE  /\ Entries(st, w) = {s \in Slots(st) : s[1] = w[1] /\ At(st, s).pk = w[2]}
         /\ \A s \in Slots(st) : /\ s[1] \in Issuers /\ s = <<s[1], s[2]>>
                                 /\ At(st, s) \in Endpoint /\ At(st, s).pk \in Devices
BY EntryFacts DEF Entries, Matches, Slots, At

-----------------------------------------------------------------------------
\* The ladder, raced or not: what it does to the store.  Unless it enrols the
\* phone, with the store's other entries where they were, it changes keys alone.
Enrolment ==
  /\ found = None /\ flow' = "Attestation"
  /\ \E n \in Slots(mem') :
       /\ n[1] = issuer' /\ At(mem', n).pk = phone
       /\ Slots(mem') = Slots(mem) \union {n}
       /\ \A s \in Slots(mem) : At(mem', s).pk = At(mem, s).pk

Keeps == Undisputed' /\ (SamePks(mem, mem') \/ Enrolment)

LEMMA SamePksFits ==
  ASSUME NEW st, NEW g, SamePks(st, g)
  PROVE  Fits(st) => Fits(g)
BY DEF SamePks, Fits

LEMMA SamePksTransitive ==
  ASSUME NEW st, NEW g, NEW h, SamePks(st, g), SamePks(g, h)
  PROVE  SamePks(st, h)
BY DEF SamePks

LEMMA StaysUndisputed ==
  ASSUME Undisputed, at # "Idle", UNCHANGED choices,
         at' \in Rest \union Request, at' # "Idle",
         fresh' \in Key, at' \in Attesting => fresh' # "none",
         mem' \in Stores, nvs' = mem', Fits(mem')
  PROVE  Undisputed'
<1>1. phone \in Devices /\ "none" \notin Devices /\ target' = target /\ phone' = phone
  BY HomeKeyAssumption DEF Undisputed, choices
<1>2. QED
  BY <1>1 DEF Undisputed

\* Settling stores at most a key, and saves it.
LEMMA SettleKeeps ==
  ASSUME NEW f, NEW i, NEW s, NEW k \in Key, NEW st \in Stores, Settle(f, i, s, k, st),
         k = "none" => st = mem, mem = nvs
  PROVE  /\ mem' \in Stores /\ SamePks(st, mem') /\ nvs' = mem'
         /\ flow' = f /\ issuer' = i /\ fresh' = k /\ at' \in {"Done", "SUCCESS"}
<1>1. SamePks(st, st)
  BY DEF SamePks
<1>2. /\ flow' = f /\ issuer' = i /\ fresh' = k /\ at' \in {"Done", "SUCCESS"}
      /\ mem' = IF k # "none" /\ s \in Slots(st) THEN Rekeyed(st, s, k) ELSE st
      /\ nvs' = IF k # "none" THEN mem' ELSE nvs
  BY DEF Settle, Return
<1>3. CASE k # "none" /\ s \in Slots(st)
  <2>1. k \in {"stale", "shared"}
    BY <1>3 DEF Key
  <2>2. QED
    BY <1>2, <1>3, <2>1, RekeyedFacts
<1>4. CASE ~(k # "none" /\ s \in Slots(st))
  BY <1>1, <1>2, <1>4
<1>5. QED
  BY <1>3, <1>4

\* Settling at a store that differs from this one in keys.
LEMMA SettleOn ==
  ASSUME Undisputed, at # "Idle", UNCHANGED choices,
         NEW f, NEW i, NEW s, NEW k \in Key, NEW st \in Stores, SamePks(mem, st),
         Settle(f, i, s, k, st), k = "none" => st = mem
  PROVE  Keeps
<1>1. /\ mem' \in Stores /\ SamePks(st, mem') /\ nvs' = mem'
      /\ fresh' = k /\ at' \in {"Done", "SUCCESS"}
  BY SettleKeeps DEF Undisputed
<1>2. SamePks(mem, mem') /\ Fits(mem')
  BY <1>1, SamePksTransitive, SamePksFits DEF Undisputed
<1>3. at' \in Rest \union Request /\ at' # "Idle" /\ at' \notin Attesting
  BY <1>1 DEF Rest, Request, Attesting
<1>4. QED
  BY <1>1, <1>2, <1>3, StaysUndisputed DEF Keeps

\* Going on to another request with the store as it is.
LEMMA OnwardKeeps ==
  ASSUME Undisputed, at # "Idle", UNCHANGED choices, UNCHANGED saved,
         at' \in Rest \union Request, at' # "Idle",
         \/ UNCHANGED progress /\ (at' \in Attesting => at \in Attesting)
         \/ fresh' \in Key /\ at' \notin Attesting
  PROVE  Keeps
<1>1. /\ mem' = mem /\ nvs' = nvs /\ SamePks(mem, mem)
      /\ mem \in Stores /\ mem = nvs /\ Fits(mem) /\ fresh \in Key
  BY DEF saved, SamePks, Undisputed
<1>2. mem' \in Stores /\ nvs' = mem' /\ Fits(mem') /\ SamePks(mem, mem')
  BY <1>1
<1>3. fresh' \in Key /\ (at' \in Attesting => fresh' # "none")
  BY <1>1 DEF progress, Undisputed
<1>4. QED
  BY <1>2, <1>3, StaysUndisputed DEF Keeps

LEMMA AttestationFailsKeeps ==
  ASSUME Undisputed, at \in Attesting, AttestationFails, UNCHANGED choices
  PROVE  Keeps
<1>1. at # "Idle" /\ "FAILURE" \in Rest \union Request /\ SamePks(mem, mem)
      /\ "FAILURE" \notin Attesting /\ "FAILURE" # "Idle"
  BY DEF Attesting, Request, SamePks
<1>2. CASE Refuse
  <2>1. at' = "FAILURE" /\ UNCHANGED progress /\ UNCHANGED saved
    BY <1>2 DEF Refuse
  <2>2. QED
    BY <1>1, <2>1, OnwardKeeps
<1>3. CASE Settle(flow, issuer, found, fresh, mem)
  <2>1. fresh \in Key /\ mem \in Stores
    BY DEF Undisputed
  <2>2. QED
    BY <1>1, <1>3, <2>1, SettleOn
<1>4. QED
  BY <1>2, <1>3 DEF AttestationFails

LEMMA AttestationSucceedsKeeps ==
  ASSUME Undisputed, at \in Attesting, AttestationSucceeds, UNCHANGED choices
  PROVE  Keeps
<1>1. /\ at # "Idle" /\ SamePks(mem, mem) /\ phone \in Devices
      /\ fresh \in Key /\ fresh # "none" /\ mem \in Stores /\ mem = nvs /\ Fits(mem)
  BY DEF Attesting, SamePks, Undisputed
<1>2. PICK j \in Issuers :
        IF found # None
        THEN Settle("Attestation", j, found, fresh, mem)
        ELSE /\ Len(mem[j]) < MaxEndpoints
             /\ Settle("Attestation", j, <<j, Len(mem[j]) + 1>>, fresh, Enrolled(mem, j))
  BY DEF AttestationSucceeds
<1>3. CASE found # None
  BY <1>1, <1>2, <1>3, SettleOn
<1>4. CASE found = None
  <2> DEFINE e == [pk |-> phone, key |-> "none"]
             g == Enrolled(mem, j)
             n == <<j, Len(mem[j]) + 1>>
  <2>1. e \in Endpoint /\ e.pk = phone
    BY <1>1, EntryFacts DEF Key
  <2> HIDE DEF e
  <2>2. /\ g = Appended(mem, j, e)
        /\ Len(mem[j]) < MaxEndpoints /\ j \in Issuers
    BY <1>2, <1>4 DEF Enrolled, Appended, e
  <2> HIDE DEF g
  <2>3. /\ g \in Stores /\ Fits(g)
        /\ Slots(g) = Slots(mem) \union {n} /\ At(g, n) = e
        /\ \A s \in Slots(mem) : At(g, s) = At(mem, s)
    BY <1>1, <2>1, <2>2, AppendedFacts
  <2>4. Settle("Attestation", j, n, fresh, g)
    BY <1>2, <1>4 DEF g
  <2>5. /\ mem' \in Stores /\ SamePks(g, mem') /\ nvs' = mem'
        /\ flow' = "Attestation" /\ issuer' = j /\ fresh' = fresh
        /\ at' \in {"Done", "SUCCESS"}
    BY <1>1, <2>3, <2>4, SettleKeeps
  <2>6. /\ Slots(mem') = Slots(g)
        /\ \A s \in Slots(g) : At(mem', s).pk = At(g, s).pk
    BY <2>5, SamePksFacts
  <2>7. Fits(mem')
    BY <2>3, <2>5, SamePksFits
  <2>8. at' \in Rest \union Request /\ at' # "Idle" /\ at' \notin Attesting
    BY <2>5 DEF Rest, Request, Attesting
  <2>9. Undisputed'
    BY <1>1, <2>5, <2>7, <2>8, StaysUndisputed
  <2>10. Enrolment
    <3>1. n \in Slots(mem') /\ n[1] = issuer' /\ At(mem', n).pk = phone
      BY <2>1, <2>3, <2>5, <2>6
    <3>2. Slots(mem') = Slots(mem) \union {n}
          /\ \A s \in Slots(mem) : At(mem', s).pk = At(mem, s).pk
      BY <2>3, <2>6
    <3>3. QED
      BY <1>4, <2>5, <3>1, <3>2 DEF Enrolment
  <2>11. QED
    BY <2>9, <2>10 DEF Keeps
<1>5. QED
  BY <1>3, <1>4

LEMMA PassesKeeps ==
  ASSUME Undisputed, NEW request \in Attesting, NEW next \in Attesting, NEW r,
         Passes(request, next, r), UNCHANGED choices
  PROVE  Keeps
<1>1. at \in Attesting /\ at # "Idle" /\ next \in Rest \union Request /\ next # "Idle"
  BY DEF Passes, Attesting, Request
<1>2. CASE AttestationFails
  BY <1>1, <1>2, AttestationFailsKeeps
<1>3. CASE at' = next /\ UNCHANGED <<progress, result, saved, assembled>>
  <2>1. UNCHANGED progress /\ UNCHANGED saved
    BY <1>3
  <2>2. QED
    BY <1>1, <1>3, <2>1, OnwardKeeps
<1>4. QED
  BY <1>2, <1>3 DEF Passes

LEMMA Auth0Keeps ==
  ASSUME Undisputed, NEW r, Auth0(r), UNCHANGED choices
  PROVE  Keeps
<1>1. at # "Idle" /\ SamePks(mem, mem) /\ mem \in Stores /\ "none" \in Key
  BY DEF Auth0, SamePks, Undisputed, Key
<1>2. CASE at' \in {"FAILURE", "AUTH1"} /\ UNCHANGED progress /\ UNCHANGED saved
  <2>1. at' \in Rest \union Request /\ at' # "Idle" /\ at' \notin Attesting
    BY <1>2 DEF Request, Attesting
  <2>2. QED
    BY <1>1, <1>2, <2>1, OnwardKeeps
<1>3. ASSUME NEW s, Settle("Fast", s[1], s, "none", mem)
      PROVE  Keeps
  BY <1>1, <1>3, SettleOn
<1>4. CASE \E s \in Slots(mem) :
             LookedUp(s, Opening(mem, phone)) /\ Settle("Fast", s[1], s, "none", mem)
  BY <1>3, <1>4
<1>5. QED
  BY <1>2, <1>4 DEF Auth0, Refuse

LEMMA Auth1Keeps ==
  ASSUME Undisputed, NEW r, NEW c \in BOOLEAN, Auth1(r, c), UNCHANGED choices
  PROVE  Keeps
<1> DEFINE st == Forgotten(mem, c)
           k == IF c THEN "shared" ELSE "stale"
<1>1. /\ at # "Idle" /\ phone \in Devices /\ fresh \in Key
      /\ mem \in Stores /\ mem = nvs /\ Fits(mem)
  BY DEF Auth1, Undisputed
<1>2. st \in Stores /\ SamePks(mem, st) /\ Fits(st) /\ k \in Key /\ k # "none"
  BY <1>1, ForgottenFacts, SamePksFits DEF Key
<1>3. Forgotten(nvs, c) = st
  BY <1>1
<1> HIDE DEF st, k
<1>4. ASSUME mem' = st, nvs' = st, at' \in {"FAILURE", "EXCHANGE"}, fresh' \in Key,
             at' = "EXCHANGE" => fresh' # "none"
      PROVE  Keeps
  <2>1. at' \in Rest \union Request /\ at' # "Idle" /\ (at' \in Attesting => at' = "EXCHANGE")
    BY <1>4 DEF Request, Attesting
  <2>2. mem' \in Stores /\ nvs' = mem' /\ Fits(mem') /\ SamePks(mem, mem')
    BY <1>2, <1>4
  <2>3. at' \in Attesting => fresh' # "none"
    BY <1>4, <2>1
  <2>4. QED
    BY <1>1, <1>4, <2>1, <2>2, <2>3, StaysUndisputed DEF Keeps
<1>5. CASE at' = "FAILURE" /\ mem' = st /\ nvs' = Forgotten(nvs, c)
           /\ UNCHANGED <<progress, result>>
  BY <1>1, <1>3, <1>4, <1>5 DEF progress
<1>6. ASSUME NEW f, NEW i, NEW s, Proceed("EXCHANGE", f, i, s, k, st),
             nvs' = Forgotten(nvs, c)
      PROVE  Keeps
  BY <1>2, <1>3, <1>4, <1>6 DEF Proceed
<1>7. ASSUME NEW s, Settle("Standard", s[1], s, k, st)
      PROVE  Keeps
  BY <1>1, <1>2, <1>7, SettleOn
<1>8. QED
  BY <1>5, <1>6, <1>7 DEF Auth1, st, k

LEMMA Envelope2Keeps ==
  ASSUME Undisputed, NEW r, Envelope2(r), UNCHANGED choices
  PROVE  Keeps
<1>1. at \in Attesting /\ at # "Idle" /\ "GET_RESPONSE" \in Request
      /\ "GET_RESPONSE" # "Idle"
  BY DEF Envelope2, Attesting, Request
<1>2. CASE AttestationFails
  BY <1>1, <1>2, AttestationFailsKeeps
<1>3. CASE AttestationSucceeds
  BY <1>1, <1>3, AttestationSucceedsKeeps
<1>4. CASE at' = "GET_RESPONSE" /\ UNCHANGED progress /\ UNCHANGED saved
  BY <1>1, <1>4, OnwardKeeps
<1>5. QED
  BY <1>2, <1>3, <1>4 DEF Envelope2

LEMMA EndKeeps ==
  ASSUME Undisputed, NEW r, Success(r) \/ Failure(r), UNCHANGED choices
  PROVE  Keeps
<1>1. at # "Idle" /\ at' \in {"Done", "Failed"} /\ UNCHANGED saved
  BY DEF Success, Failure, Return
<1>2. at' \in Rest \union Request /\ at' # "Idle" /\ at' \notin Attesting
  BY <1>1 DEF Rest, Attesting
<1>3. fresh' \in Key
  BY DEF Success, Failure, NoProgress, progress, Undisputed, Key
<1>4. QED
  BY <1>1, <1>2, <1>3, OnwardKeeps

LEMMA RespondKeeps ==
  ASSUME Undisputed, NEW r \in Response, Respond(r)
  PROVE  Keeps
<1>1. UNCHANGED choices
  BY DEF Respond
<1>2. CASE Auth0(r)
  BY <1>1, <1>2, Auth0Keeps
<1>3. CASE \E c \in BOOLEAN : Auth1(r, c)
  BY <1>1, <1>3, Auth1Keeps
<1>4. ASSUME NEW request \in Attesting, NEW next \in Attesting, Passes(request, next, r)
      PROVE  Keeps
  BY <1>1, <1>4, PassesKeeps
<1>5. CASE \/ Exchange(r) \/ Passes("ATTESTATION", "SELECT", r)
           \/ Passes("SELECT", "ENVELOPE1", r) \/ Passes("ENVELOPE1", "ENVELOPE2", r)
  BY <1>4, <1>5 DEF Exchange, Attesting
<1>6. CASE at = "ENVELOPE1" /\ r = "odd" /\ AttestationFails
  BY <1>1, <1>6, AttestationFailsKeeps DEF Attesting
<1>7. CASE Envelope2(r)
  BY <1>1, <1>7, Envelope2Keeps
<1>8. CASE Success(r) \/ Failure(r)
  BY <1>1, <1>8, EndKeeps
<1>9. QED
  BY <1>2, <1>3, <1>5, <1>6, <1>7, <1>8 DEF Respond, Envelope1

\* A transaction that begins, and a reader that starts again, have no past but
\* the store.
LEMMA AfreshKeeps ==
  ASSUME Undisputed, Crash \/ \E t \in Targets, d \in Devices : Begin(t, d)
  PROVE  Undisputed' /\ IInv' /\ SamePks(mem, mem')
<1>1. /\ mem' = mem /\ nvs' = nvs /\ mem = nvs /\ mem \in Stores /\ Fits(mem)
      /\ flow' = "Failed" /\ issuer' = 0 /\ found' = None /\ fresh' = "none"
      /\ "none" \in Key /\ result' = NoResult /\ assembled' = 0
      /\ 0 \in 0 .. MaxAssembled /\ disturbed' = FALSE
  BY HomeKeyAssumption DEF Begin, Crash, FreshSession, NoProgress, saved, Key, Undisputed
<1>2. /\ at' \in {"AUTH0", "Idle"} /\ target' \in Target
      /\ phone' \in Devices \union {"none"}
      /\ phone' = "none" => at' = "Idle"
  BY TargetAssumption, HomeKeyAssumption DEF Begin, Crash, Target
<1>3. at' \in Rest \union Request /\ at' \notin Attesting
  BY <1>2 DEF Rest, Request, Attesting
<1>4. SamePks(mem, mem')
  BY <1>1 DEF SamePks
<1>5. Undisputed'
  BY <1>1, <1>2, <1>3 DEF Undisputed
<1>6. TypeOK' /\ StoreDurable'
  BY <1>1, <1>2, <1>3 DEF TypeOK, StoreDurable, Stores
<1>7. QED
  BY <1>1, <1>2, <1>4, <1>5, <1>6
     DEF IInv, Carried, FoundIsPhone, ResultIsFound, RefusedUnknown, Entering, Attesting

-----------------------------------------------------------------------------
\* What HomeKit was told, and the steps of a transaction.
LEMMA TransactionTells ==
  ASSUME HapInv, Undisputed', SamePks(mem, mem') \/ Enrolment, Doubling,
         IF Enrols THEN Tell(issuer', {phone}, "unknown") ELSE UNCHANGED told
  PROVE  ToldTrue' /\ OneEntry' /\ doubled' \in BOOLEAN
<1>1. /\ mem = nvs /\ mem' = nvs' /\ mem \in Stores /\ mem' \in Stores
      /\ ToldTrue /\ Watched = <<Watched[1], Watched[2]>>
  BY HapAssumption DEF HapInv, Undisputed
<1>2. OneEntry' /\ doubled' \in BOOLEAN /\ (~doubled' => ~doubled)
  BY DEF Doubling, OneEntry
<1>3. told' = told \/ told' = "unknown"
  BY DEF Tell
<1>4. CASE Entries(mem', Watched) = Entries(mem, Watched)
  BY <1>1, <1>2, <1>3, <1>4 DEF ToldTrue
<1>5. CASE SamePks(mem, mem')
  BY <1>4, <1>5, SamePksFacts DEF Entries
<1>6. CASE Enrolment /\ ~(Watched[1] = issuer' /\ Watched[2] = phone)
  <2>1. PICK n \in Slots(mem') :
          /\ n[1] = issuer' /\ At(mem', n).pk = phone
          /\ Slots(mem') = Slots(mem) \union {n}
          /\ \A s \in Slots(mem) : At(mem', s).pk = At(mem, s).pk
    BY <1>6 DEF Enrolment
  <2> DEFINE of(st) == {s \in Slots(st) : s[1] = Watched[1] /\ At(st, s).pk = Watched[2]}
  <2>2. of(mem') = of(mem)
    BY <1>6, <2>1
  <2>3. Entries(mem', Watched) = of(mem') /\ Entries(mem, Watched) = of(mem)
    BY <1>1, EntriesFacts
  <2> HIDE DEF of
  <2>4. QED
    BY <1>4, <2>2, <2>3
<1>7. CASE Enrolment /\ Watched[1] = issuer' /\ Watched[2] = phone
  <2>1. told' = "unknown"
    BY <1>7 DEF Enrolment, Enrols, Tell
  <2>2. QED
    BY <1>2, <2>1 DEF ToldTrue
<1>8. QED
  BY <1>5, <1>6, <1>7

\* A transaction that is not raced keeps the invariant of the ladder.
LEMMA TransactionKeeps ==
  ASSUME HapInv, TransactionStep
  PROVE  HapInv'
<1>1. /\ Doubling
      /\ IF Enrols THEN Tell(issuer', {phone}, "unknown") ELSE UNCHANGED told
      /\ raced \in BOOLEAN /\ Undisputed
  BY DEF TransactionStep, HapInv
<1>2. CASE (Crash \/ \E t \in Targets, d \in Devices : Begin(t, d)) /\ raced' = FALSE
  <2>1. Undisputed' /\ IInv' /\ SamePks(mem, mem')
    BY <1>1, <1>2, AfreshKeeps
  <2>2. ToldTrue' /\ OneEntry' /\ doubled' \in BOOLEAN
    BY <1>1, <2>1, TransactionTells
  <2>3. QED
    BY <1>2, <2>1, <2>2 DEF HapInv
<1>3. CASE raced' = raced /\ \E r \in Response : Respond(r)
  <2>1. Keeps
    BY <1>1, <1>3, RespondKeeps
  <2>2. ToldTrue' /\ OneEntry' /\ doubled' \in BOOLEAN
    BY <1>1, <2>1, TransactionTells DEF Keeps
  <2>3. ~raced => IInv'
    BY <1>3, NextFacts DEF Next, HapInv
  <2>4. QED
    BY <1>1, <1>3, <2>1, <2>2, <2>3 DEF HapInv, Keeps
<1>4. QED
  BY <1>2, <1>3 DEF TransactionStep

-----------------------------------------------------------------------------
\* A request that changes nothing answers what is there.
LEMMA AnsweredKeeps ==
  ASSUME HapInv, Answered,
         told' = "in" => told = "in" \/ Entries(mem, Watched) # {},
         told' = "out" => told = "out" \/ Entries(mem, Watched) = {}
  PROVE  HapInv'
<1>1. UNCHANGED ladder /\ doubled' = doubled /\ raced' = raced
  BY DEF Answered
<1>2. /\ target' = target /\ phone' = phone /\ at' = at /\ fresh' = fresh
      /\ found' = found /\ flow' = flow /\ mem' = mem /\ nvs' = nvs
  BY <1>1 DEF ladder, choices, progress, saved
<1>3. Undisputed'
  BY <1>2 DEF Undisputed, HapInv
<1>4. Entries(mem, Watched)' = Entries(mem, Watched) /\ mem = nvs
  BY <1>2 DEF Entries, Matches, Slots, At, HapInv, Undisputed
<1>5. OneEntry'
  BY <1>1, <1>4 DEF OneEntry, HapInv
<1>6. ToldTrue'
  BY <1>1, <1>2, <1>4 DEF ToldTrue, HapInv
<1>7. ~raced' => IInv'
  BY <1>1, StutterFacts DEF HapInv
<1>8. QED
  BY <1>1, <1>3, <1>5, <1>6, <1>7 DEF HapInv

\* The entries outside the list of issuer i stay, and the phone's stay in theirs.
OthersStay(i) ==
  /\ \A u \in Slots(mem) : u[1] # i => u \in Slots(mem') /\ At(mem', u) = At(mem, u)
  /\ \A t \in Slots(mem') : t[1] # i => t \in Slots(mem)
  /\ \A t \in Matches(mem', phone) : \E u \in Matches(mem, phone) : u[1] = t[1]

\* A change elsewhere leaves a transaction what its invariant says.
LEMMA UnracedKeeps ==
  ASSUME IInv, Undisputed, Undisputed', NEW i \in Issuers, OthersStay(i), found[1] # i,
         UNCHANGED <<choices, at, flow, issuer, found, fresh, result, assembled, disturbed>>
  PROVE  IInv'
<1>1. /\ target' = target /\ phone' = phone /\ at' = at /\ flow' = flow
      /\ issuer' = issuer /\ found' = found /\ fresh' = fresh /\ result' = result
      /\ assembled' = assembled /\ disturbed' = disturbed
      /\ mem' \in Stores /\ nvs' = mem' /\ mem \in Stores
  BY DEF choices, Undisputed
<1>2. found # None =>
        /\ found \in Slots(mem) /\ found \in Slots(mem') /\ At(mem', found) = At(mem, found)
  BY DEF IInv, TypeOK, OthersStay
<1>3. TypeOK' /\ StoreDurable' /\ Carried' /\ ResultIsFound'
  BY <1>1, <1>2 DEF IInv, TypeOK, StoreDurable, Carried, ResultIsFound, Stores
<1>4. RefusedUnknown'
  <2>1. Matches(mem, phone) = {} => Matches(mem', phone') = {}
    BY <1>1 DEF OthersStay
  <2>2. QED
    BY <1>1, <2>1 DEF IInv, RefusedUnknown
<1>5. ASSUME flow = "Standard", IsFirst(found, Matches(mem, phone)),
             NEW t \in Matches(mem', phone), t # found
      PROVE  Before(found, t)
  <2>1. PICK u \in Matches(mem, phone) : u[1] = t[1]
    BY DEF OthersStay
  <2>2. /\ t \in Slots(mem') /\ t[1] \in Issuers /\ t = <<t[1], t[2]>>
        /\ found \in Slots(mem) /\ found[1] \in Issuers
    BY <1>1, <1>5 DEF Matches, Slots, IsFirst
  <2>3. CASE t[1] = found[1]
    <3>1. t \in Slots(mem) /\ At(mem', t) = At(mem, t)
      BY <2>2, <2>3 DEF OthersStay
    <3>2. t \in Matches(mem, phone)
      BY <3>1 DEF Matches
    <3>3. QED
      BY <1>5, <3>2 DEF IsFirst
  <2>4. CASE t[1] # found[1]
    <3>1. Before(found, u)
      BY <1>5, <2>1, <2>4 DEF IsFirst
    <3>2. QED
      BY <2>1, <2>4, <3>1 DEF Before
  <2>5. QED
    BY <2>3, <2>4
<1>6. FoundIsPhone'
  <2>1. found' # None => At(mem', found').pk = phone'
    BY <1>1, <1>2 DEF IInv, FoundIsPhone
  <2>2. ASSUME flow = "Standard"
        PROVE  IsFirst(found, Matches(mem', phone))
    <3>1. IsFirst(found, Matches(mem, phone))
      BY <2>2 DEF IInv, FoundIsPhone
    <3>2. found \in Matches(mem, phone)
      BY <3>1 DEF IsFirst
    <3>3. found \in Matches(mem', phone)
      BY <3>2 DEF OthersStay, Matches
    <3>4. QED
      BY <1>5, <2>2, <3>1, <3>3 DEF IsFirst
  <2>3. flow' \in {"Fast", "Standard"} => issuer' = found'[1]
    BY <1>1 DEF IInv, FoundIsPhone
  <2>4. QED
    BY <1>1, <2>1, <2>2, <2>3 DEF FoundIsPhone
<1>7. QED
  BY <1>3, <1>4, <1>6 DEF IInv

\* At rest after a start there is no transaction to disturb.
LEMMA IdleKeeps ==
  ASSUME IInv, Undisputed, Undisputed', at = "Idle",
         UNCHANGED <<choices, at, flow, issuer, found, fresh, result, assembled, disturbed>>
  PROVE  IInv'
<1>1. /\ target' = target /\ phone' = phone /\ at' = "Idle" /\ flow' = "Failed"
      /\ issuer' = issuer /\ found' = None /\ fresh' = fresh /\ result' = result
      /\ assembled' = assembled /\ disturbed' = disturbed
      /\ mem' \in Stores /\ nvs' = mem'
  BY DEF choices, Undisputed
<1>2. TypeOK' /\ StoreDurable'
  BY <1>1 DEF IInv, TypeOK, StoreDurable, Stores
<1>3. QED
  BY <1>1, <1>2
     DEF IInv, Carried, FoundIsPhone, ResultIsFound, RefusedUnknown, Entering, Attesting

\* A request that changes list i, as to the devices D.
LEMMA StoredKeeps ==
  ASSUME HapInv, NEW st \in Stores, Fits(st), NEW i \in Issuers, NEW D, Stored(st, i, D),
         found' \in {found} \union {<<j, 0>> : j \in {i} \intersect {found[1]}},
         told' = "in" => Entries(st, Watched) # {},
         told' = "out" /\ ~doubled' => Entries(st, Watched) = {},
         phone \in Devices \ D => OthersStay(i)
  PROVE  HapInv'
<1>1. /\ mem' = st /\ nvs' = st /\ Doubling /\ Racing(i, D)
      /\ UNCHANGED <<choices, at, flow, issuer, fresh, result, assembled, disturbed>>
  BY DEF Stored
<1>2. /\ target' = target /\ phone' = phone /\ at' = at /\ flow' = flow
      /\ fresh' = fresh /\ Undisputed
  BY <1>1 DEF choices, HapInv
<1>3. i # 0 /\ None[1] = 0
  BY DEF Issuers, None
<1>4. found[1] # i => found' = found
  OBVIOUS
<1>5. Undisputed'
  BY <1>1, <1>2, <1>3, <1>4 DEF Undisputed
<1>6. OneEntry' /\ doubled' \in BOOLEAN
  BY <1>1 DEF Doubling, OneEntry
<1>7. ToldTrue'
  BY <1>1 DEF ToldTrue
<1>8. raced' \in BOOLEAN /\ (~raced' => ~raced /\ ~(InTransaction /\ (found[1] = i \/ phone \in D)))
  BY <1>1 DEF Racing, HapInv
<1>9. ASSUME ~raced' PROVE IInv'
  <2>1. IInv
    BY <1>8, <1>9 DEF HapInv
  <2>2. CASE at = "Idle"
    <3>1. found = None
      BY <1>2, <2>2 DEF Undisputed
    <3>2. found' = found
      BY <1>3, <1>4, <3>1
    <3>3. QED
      BY <1>1, <1>2, <1>5, <2>1, <2>2, <3>2, IdleKeeps
  <2>3. CASE at # "Idle"
    <3>1. found[1] # i /\ phone \notin D
      BY <1>8, <1>9, <2>3 DEF InTransaction
    <3>2. phone \in Devices
      BY <1>2, <2>3 DEF Undisputed
    <3>3. OthersStay(i)
      BY <3>1, <3>2
    <3>4. QED
      BY <1>1, <1>2, <1>4, <1>5, <2>1, <3>1, <3>3, UnracedKeeps
  <2>4. QED
    BY <2>2, <2>3
<1>10. QED
  BY <1>5, <1>6, <1>7, <1>8, <1>9 DEF HapInv

LEMMA ProvisionKeeps ==
  ASSUME HapInv, NEW i \in Issuers, NEW d \in Devices, Provision(i, d)
  PROVE  HapInv'
<1>1. /\ Watched = <<Watched[1], Watched[2]>> /\ mem \in Stores /\ Fits(mem) /\ mem = nvs
      /\ ToldTrue
  BY HapAssumption DEF HapInv, Undisputed
<1>2. CASE Entries(mem, <<i, d>>) # {} /\ Answered /\ Tell(i, {d}, "in")
  <2>1. told' = told \/ (Watched = <<i, d>> /\ told' = "in")
    BY <1>1, <1>2 DEF Tell
  <2>2. told' = "in" => told = "in" \/ Entries(mem, Watched) # {}
    BY <1>2, <2>1
  <2>3. told' = "out" => told = "out"
    BY <2>1
  <2>4. QED
    BY <1>2, <2>2, <2>3, AnsweredKeeps
<1>3. CASE /\ Entries(mem, <<i, d>>) = {} /\ Len(mem[i]) < MaxEndpoints
           /\ Stored([mem EXCEPT ![i] = Append(@, [pk |-> d, key |-> "none"])], i, {d})
           /\ found' \in {found} \union {<<j, 0>> : j \in {i} \intersect {found[1]}}
           /\ Tell(i, {d}, "in")
  <2> DEFINE e == [pk |-> d, key |-> "none"]
             g == Appended(mem, i, e)
             n == <<i, Len(mem[i]) + 1>>
  <2>1. e \in Endpoint /\ e.pk = d
    BY EntryFacts DEF Key
  <2> HIDE DEF e
  <2>2. Stored(g, i, {d}) /\ mem' = g
    BY <1>3 DEF Appended, Stored, e
  <2> HIDE DEF g
  <2>3. /\ g \in Stores /\ Fits(g)
        /\ Slots(g) = Slots(mem) \union {n} /\ At(g, n) = e
        /\ \A s \in Slots(mem) : At(g, s) = At(mem, s)
    BY <1>1, <1>3, <2>1, AppendedFacts DEF g
  <2>4. OthersStay(i) \/ phone = d
    BY <2>1, <2>2, <2>3 DEF OthersStay, Matches
  <2>5. n \in Entries(g, <<i, d>>)
    BY <2>1, <2>3, EntriesFacts
  <2>6. /\ told' = told \/ (Watched = <<i, d>> /\ told' = "in")
        /\ Watched = <<i, d>> => told' = "in"
    BY <1>1, <1>3 DEF Tell
  <2>7. ASSUME Watched # <<i, d>>
        PROVE  Entries(g, Watched) = Entries(mem, Watched)
    <3> DEFINE of(st) == {s \in Slots(st) : s[1] = Watched[1] /\ At(st, s).pk = Watched[2]}
    <3>1. ~(Watched[1] = i /\ Watched[2] = d)
      BY <1>1, <2>7
    <3>2. of(g) = of(mem)
      BY <2>1, <2>3, <3>1
    <3>3. Entries(g, Watched) = of(g) /\ Entries(mem, Watched) = of(mem)
      BY <1>1, <2>3, EntriesFacts
    <3> HIDE DEF of
    <3>4. QED
      BY <3>2, <3>3
  <2>8. ~doubled' => ~doubled
    BY <2>2 DEF Stored, Doubling
  <2>9. /\ told' = "in" => Entries(g, Watched) # {}
        /\ told' = "out" /\ ~doubled' => Entries(g, Watched) = {}
    <3>1. CASE Watched = <<i, d>>
      BY <2>5, <2>6, <3>1
    <3>2. CASE Watched # <<i, d>>
      BY <1>1, <2>6, <2>7, <2>8, <3>2 DEF ToldTrue
    <3>3. QED
      BY <3>1, <3>2
  <2>10. QED
    BY <1>3, <2>2, <2>3, <2>4, <2>9, StoredKeeps
<1>4. QED
  BY <1>2, <1>3 DEF Provision

LEMMA RemoveAllKeeps ==
  ASSUME HapInv, NEW i \in Issuers, RemoveAll(i)
  PROVE  HapInv'
<1> DEFINE g == Emptied(mem, i)
<1>1. /\ Watched[2] \in Devices /\ mem \in Stores /\ Fits(mem) /\ mem = nvs /\ ToldTrue
  BY HapAssumption DEF HapInv, Undisputed
<1>2. /\ Stored(g, i, Devices) /\ found' = found /\ Tell(i, Devices, "out")
  BY DEF RemoveAll, Emptied
<1>3. /\ g \in Stores /\ Fits(g) /\ Slots(g) = {s \in Slots(mem) : s[1] # i}
      /\ \A s \in Slots(g) : At(g, s) = At(mem, s)
  BY <1>1, EmptiedFacts
<1> HIDE DEF g
<1>4. ~doubled' => ~doubled
  BY <1>2 DEF Stored, Doubling
<1>5. CASE Watched[1] = i
  <2>1. told' = "out"
    BY <1>1, <1>2, <1>5 DEF Tell
  <2>2. Entries(g, Watched) = {}
    BY <1>3, <1>5, EntriesFacts
  <2>3. QED
    BY <1>2, <1>3, <2>1, <2>2, StoredKeeps
<1>6. CASE Watched[1] # i
  <2>1. told' = told
    BY <1>2, <1>6 DEF Tell
  <2> DEFINE of(st) == {s \in Slots(st) : s[1] = Watched[1] /\ At(st, s).pk = Watched[2]}
  <2>2. of(g) = of(mem)
    BY <1>3, <1>6
  <2>3. Entries(g, Watched) = of(g) /\ Entries(mem, Watched) = of(mem)
    BY <1>1, <1>3, EntriesFacts
  <2> HIDE DEF of
  <2>4. /\ told' = "in" => Entries(g, Watched) # {}
        /\ told' = "out" /\ ~doubled' => Entries(g, Watched) = {}
    BY <1>1, <1>4, <2>1, <2>2, <2>3 DEF ToldTrue
  <2>5. QED
    BY <1>2, <1>3, <2>4, StoredKeeps
<1>7. QED
  BY <1>5, <1>6

LEMMA RemoveOneKeeps ==
  ASSUME HapInv, NEW i \in Issuers \union {0}, NEW named \in SUBSET Devices,
         RemoveOne(i, named)
  PROVE  HapInv'
<1> DEFINE hits == {s \in Slots(mem) : (i = 0 \/ s[1] = i) /\ At(mem, s).pk \in named}
<1>1. /\ Watched[1] \in Issuers /\ mem \in Stores /\ Fits(mem) /\ mem = nvs
      /\ ToldTrue /\ OneEntry
  BY HapAssumption DEF HapInv, Undisputed
<1>2. CASE /\ hits = {} /\ Answered
           /\ Tell(IF i = 0 THEN Watched[1] ELSE i, named, "out")
  <2>1. told' = told \/ (told' = "out" /\ (i = 0 \/ Watched[1] = i) /\ Watched[2] \in named)
    BY <1>2 DEF Tell
  <2>2. ASSUME (i = 0 \/ Watched[1] = i) /\ Watched[2] \in named
        PROVE  Entries(mem, Watched) = {}
    <3>1. \A s \in Entries(mem, Watched) : s \in hits
      BY <1>1, <2>2, EntriesFacts
    <3>2. QED
      BY <1>2, <3>1
  <2>3. told' = "in" => told = "in"
    BY <2>1
  <2>4. told' = "out" => told = "out" \/ Entries(mem, Watched) = {}
    BY <2>1, <2>2
  <2>5. QED
    BY <1>2, <2>3, <2>4, AnsweredKeeps
<1>3. CASE \E s \in hits :
             /\ IsFirst(s, hits)
             /\ Stored(Erased(mem, s), s[1], {At(mem, s).pk})
             /\ UNCHANGED found
             /\ Tell(s[1], {At(mem, s).pk}, "out")
  <2>1. PICK s \in Slots(mem) :
          /\ Stored(Erased(mem, s), s[1], {At(mem, s).pk})
          /\ found' = found
          /\ Tell(s[1], {At(mem, s).pk}, "out")
    BY <1>3
  <2> DEFINE g == Erased(mem, s)
             d == At(mem, s).pk
  <2>2. /\ g \in Stores /\ Fits(g)
        /\ \A u \in Slots(mem) : u[1] # s[1] => u \in Slots(g) /\ At(g, u) = At(mem, u)
        /\ \A t \in Slots(g) : t[1] # s[1] => t \in Slots(mem)
        /\ \A t \in Slots(g) : \E u \in Slots(mem) :
             u # s /\ u[1] = t[1] /\ At(g, t) = At(mem, u)
        /\ \A u \in Slots(mem) : u = s \/
             \E t \in Slots(g) : t[1] = u[1] /\ At(g, t) = At(mem, u)
    BY <1>1, ErasedFacts
  <2> HIDE DEF g
  <2>3. s[1] \in Issuers /\ mem' = g /\ (~doubled' => ~doubled)
    BY <1>1, <2>1, EntriesFacts DEF Stored, Doubling, g
  <2>4. OthersStay(s[1])
    <3>1. ASSUME NEW t \in Matches(g, phone)
          PROVE  \E u \in Matches(mem, phone) : u[1] = t[1]
      <4>1. t \in Slots(g) /\ At(g, t).pk = phone
        BY DEF Matches
      <4>2. PICK u \in Slots(mem) : u[1] = t[1] /\ At(g, t) = At(mem, u)
        BY <2>2, <4>1
      <4>3. u \in Matches(mem, phone)
        BY <4>1, <4>2 DEF Matches
      <4>4. QED
        BY <4>2, <4>3
    <3>2. QED
      BY <2>2, <2>3, <3>1 DEF OthersStay
  \* What is left of the followed entry, and what was there.
  <2>5. \A t \in Entries(g, Watched) : \E u \in Entries(mem, Watched) : u # s
    <3>1. SUFFICES ASSUME NEW t \in Entries(g, Watched)
                   PROVE  \E u \in Entries(mem, Watched) : u # s
      OBVIOUS
    <3>2. t \in Slots(g) /\ t[1] = Watched[1] /\ At(g, t).pk = Watched[2]
      BY <2>2, EntriesFacts
    <3>3. PICK u \in Slots(mem) : u # s /\ u[1] = t[1] /\ At(g, t) = At(mem, u)
      BY <2>2, <3>2
    <3>4. u \in Entries(mem, Watched)
      BY <1>1, <3>2, <3>3, EntriesFacts
    <3>5. QED
      BY <3>3, <3>4
  <2>6. \A u \in Entries(mem, Watched) : u = s \/ Entries(g, Watched) # {}
    <3>1. SUFFICES ASSUME NEW u \in Entries(mem, Watched), u # s
                   PROVE  Entries(g, Watched) # {}
      OBVIOUS
    <3>2. u \in Slots(mem) /\ u[1] = Watched[1] /\ At(mem, u).pk = Watched[2]
      BY <1>1, EntriesFacts
    <3>3. PICK t \in Slots(g) : t[1] = u[1] /\ At(g, t) = At(mem, u)
      BY <2>2, <3>1, <3>2
    <3>4. t \in Entries(g, Watched)
      BY <2>2, <3>2, <3>3, EntriesFacts
    <3>5. QED
      BY <3>4
  <2>7. CASE Watched[1] = s[1] /\ Watched[2] = d
    <3>1. told' = "out"
      BY <2>1, <2>7 DEF Tell
    <3>2. s \in Entries(mem, Watched)
      BY <1>1, <2>7, EntriesFacts
    <3>3. ~doubled' => Entries(g, Watched) = {}
      BY <1>1, <2>3, <2>5, <3>2 DEF OneEntry
    <3>4. QED
      BY <2>1, <2>2, <2>3, <2>4, <3>1, <3>3, StoredKeeps DEF g
  <2>8. CASE ~(Watched[1] = s[1] /\ Watched[2] = d)
    <3>1. told' = told
      BY <2>1, <2>8 DEF Tell
    <3>2. s \notin Entries(mem, Watched)
      BY <1>1, <2>8, EntriesFacts
    <3>3. told' = "in" => Entries(g, Watched) # {}
      BY <1>1, <2>6, <3>1, <3>2 DEF ToldTrue
    <3>4. told' = "out" /\ ~doubled' => Entries(g, Watched) = {}
      BY <1>1, <2>3, <2>5, <3>1 DEF ToldTrue
    <3>5. QED
      BY <2>1, <2>2, <2>3, <2>4, <3>3, <3>4, StoredKeeps DEF g
  <2>9. QED
    BY <2>7, <2>8
<1>4. QED
  BY <1>2, <1>3 DEF RemoveOne

LEMMA RequestKeeps ==
  ASSUME HapInv, HapRequest
  PROVE  HapInv'
<1>1. CASE \E i \in Issuers, d \in Devices : Provision(i, d)
  BY <1>1, ProvisionKeeps
<1>2. CASE \E i \in Issuers \union {0}, named \in SUBSET Devices \ {{}} : RemoveOne(i, named)
  BY <1>2, RemoveOneKeeps
<1>3. CASE \E i \in Issuers : RemoveAll(i)
  BY <1>3, RemoveAllKeeps
<1>4. CASE ReplaceIdentity
  <2>1. /\ UNCHANGED ladder
        /\ changes' = changes /\ told' = told /\ doubled' = doubled /\ raced' = raced
    BY <1>4 DEF ReplaceIdentity
  <2>2. /\ target' = target /\ phone' = phone /\ at' = at /\ fresh' = fresh
        /\ found' = found /\ flow' = flow /\ mem' = mem /\ nvs' = nvs
    BY <2>1 DEF ladder, choices, progress, saved
  <2>3. Undisputed'
    BY <2>2 DEF Undisputed, HapInv
  <2>4. Entries(mem, Watched)' = Entries(mem, Watched)
    BY <2>2 DEF Entries, Matches, Slots, At
  <2>5. Entries(nvs, Watched)' = Entries(nvs, Watched)
    BY <2>2 DEF Entries, Matches, Slots, At
  <2>6. OneEntry' /\ ToldTrue'
    BY <2>1, <2>4, <2>5 DEF OneEntry, ToldTrue, HapInv
  <2>7. ~raced' => IInv'
    BY <2>1, StutterFacts DEF HapInv
  <2>8. QED
    BY <2>1, <2>3, <2>6, <2>7 DEF HapInv
<1>5. QED
  BY <1>1, <1>2, <1>3, <1>4 DEF HapRequest

LEMMA HapStart == HapInit => HapInv
<1> SUFFICES ASSUME HapInit PROVE HapInv
  OBVIOUS
<1>1. /\ IInv /\ mem \in Stores /\ mem = nvs /\ at = "Idle" /\ found = None
      /\ flow = "Failed" /\ fresh = "none" /\ target = "Fast" /\ phone = "none"
      /\ told = "unknown" /\ doubled = FALSE /\ raced = FALSE
  <2>1. Init
    BY DEF HapInit
  <2>2. IInv
    BY <2>1, InitFacts
  <2>3. mem \in Stores /\ mem = nvs
    BY <2>2, InvFacts
  <2>4. QED
    BY <2>1, <2>2, <2>3 DEF HapInit, Init
<1>2. ASSUME NEW i \in Issuers PROVE DOMAIN mem[i] \subseteq {1}
  <2>1. mem[i] \in {<<>>} \union {<<[pk |-> d, key |-> k]>> :
                                    d \in Devices, k \in {"none", "shared"}}
    BY DEF HapInit, Init
  <2>2. Len(mem[i]) \in 0 .. 1 /\ DOMAIN mem[i] = 1 .. Len(mem[i])
    BY <2>1
  <2> DEFINE n == Len(mem[i])
  <2> HIDE DEF n
  <2>3. n = 0 \/ n = 1
    BY <2>2 DEF n
  <2>4. 1 .. n \subseteq {1}
    BY <2>3
  <2>5. QED
    BY <2>2, <2>4 DEF n
<1>3. Fits(mem)
  BY <1>2, HomeKeyAssumption DEF Fits
<1>4. \A s, t \in Entries(mem, Watched) : s = t
  BY <1>2 DEF Entries, Matches, Slots
<1>5. Undisputed
  BY <1>1, <1>3 DEF Undisputed, Key, Target, Rest, Attesting
<1>6. QED
  BY <1>1, <1>4, <1>5 DEF HapInv, OneEntry, ToldTrue

LEMMA HapStep == HapInv /\ [HapNext]_<<ladder, hap>> => HapInv'
<1> SUFFICES ASSUME HapInv, [HapNext]_<<ladder, hap>> PROVE HapInv'
  OBVIOUS
<1>1. CASE HapRequest
  BY <1>1, RequestKeeps
<1>2. CASE TransactionStep
  BY <1>2, TransactionKeeps
<1>3. CASE UNCHANGED <<ladder, hap>>
  <2>1. Answered /\ told' = told
    BY <1>3 DEF Answered, hap
  <2>2. QED
    BY <2>1, AnsweredKeeps
<1>4. QED
  BY <1>1, <1>2, <1>3 DEF HapNext

LEMMA HapInvariance == HapSpec => []HapInv
BY HapStart, HapStep, PTL DEF HapSpec

(***************************************************************************)
(* What HomeKit was last told of an entry is what is saved, whatever       *)
(* transactions and power losses came since (HK_HomeKit.cpp:186-191,       *)
(* 277-288, 310-316), unless its device had two entries under one issuer.  *)
(***************************************************************************)
THEOREM AnswersHold == HapSpec => []ToldTrue
<1>1. HapInv => ToldTrue
  BY DEF HapInv
<1>2. QED
  BY <1>1, HapInvariance, PTL

\* The ladder's guarantees follow from its invariant alone.
LEMMA LadderGuarantees == IInv => OutcomeNamesDevice /\ RecoversKey
BY OutcomeFollows DEF IInv, RefusedUnknown, RecoversKey

(***************************************************************************)
(* A transaction under which neither the phone's entries nor the list of   *)
(* the entry it found changed keeps the guarantees it has alone: a phone   *)
(* in the store gets in, and the outcome names it (Profile.cpp:196-245).   *)
(***************************************************************************)
THEOREM UnracedOutcome == HapSpec => []OutcomeUnlessRaced
<1>1. HapInv => OutcomeUnlessRaced
  BY LadderGuarantees DEF HapInv, OutcomeUnlessRaced
<1>2. QED
  BY <1>1, HapInvariance, PTL

-----------------------------------------------------------------------------
\* Which entries a transaction touches: those of the phone.
PhoneOnly(st) ==
  \A s \in Slots(mem) : /\ s \in Slots(st) /\ At(st, s).pk = At(mem, s).pk
                        /\ At(st, s) # At(mem, s) => At(mem, s).pk = phone

LEMMA ForgottenTouches ==
  ASSUME mem \in Stores, NEW c \in BOOLEAN, phone \in Devices
  PROVE  PhoneOnly(Forgotten(mem, c))
<1> DEFINE g == Forgotten(mem, c)
<1>1. SamePks(mem, g)
  BY ForgottenFacts
<1>2. Slots(g) = Slots(mem) /\ \A s \in Slots(mem) : At(g, s).pk = At(mem, s).pk
  BY <1>1, SamePksFacts
<1>3. ASSUME NEW s \in Slots(mem), At(mem, s).pk # phone PROVE At(g, s) = At(mem, s)
  <2>1. s[1] \in Issuers /\ s[2] \in DOMAIN mem[s[1]]
    BY DEF Slots
  <2>2. mem[s[1]][s[2]] # [pk |-> phone, key |-> "shared"]
    BY <1>3 DEF At
  <2>3. QED
    BY <2>1, <2>2 DEF Forgotten, At
<1> HIDE DEF g
<1>4. QED
  BY <1>2, <1>3 DEF PhoneOnly, g

LEMMA RekeyedTouches ==
  ASSUME NEW st \in Stores, NEW s \in Slots(st), NEW k \in {"stale", "shared"},
         mem \in Stores, PhoneOnly(st), At(st, s).pk = phone
  PROVE  PhoneOnly(Rekeyed(st, s, k))
<1> DEFINE g == Rekeyed(st, s, k)
           e == [pk |-> At(st, s).pk, key |-> IF At(st, s).pk = phone THEN k ELSE "stale"]
<1>1. SamePks(st, g)
  BY RekeyedFacts
<1>2. Slots(g) = Slots(st) /\ \A t \in Slots(st) : At(g, t).pk = At(st, t).pk
  BY <1>1, SamePksFacts
<1>3. ASSUME NEW t \in Slots(st), t # s PROVE At(g, t) = At(st, t)
  <2>1. /\ t = <<t[1], t[2]>> /\ t[1] \in Issuers /\ t[2] \in DOMAIN st[t[1]]
        /\ s = <<s[1], s[2]>> /\ s[1] \in Issuers /\ s[2] \in DOMAIN st[s[1]]
        /\ st[s[1]] \in Seq(Endpoint) /\ st \in [Issuers -> Seq(Endpoint)]
    BY DEF Slots, Stores
  <2> DEFINE q == [st[s[1]] EXCEPT ![s[2]] = e]
  <2>2. g = [st EXCEPT ![s[1]] = q]
    BY <2>1 DEF Rekeyed
  <2>3. \A m \in DOMAIN st[s[1]] : m # s[2] => q[m] = st[s[1]][m]
    BY <2>1
  <2> HIDE DEF q, g
  <2>4. g[s[1]] = q /\ (t[1] # s[1] => g[t[1]] = st[t[1]])
    BY <2>1, <2>2
  <2>5. QED
    BY <1>3, <2>1, <2>3, <2>4 DEF At
<1> HIDE DEF g
<1>4. ASSUME NEW t \in Slots(mem)
      PROVE  /\ t \in Slots(g) /\ At(g, t).pk = At(mem, t).pk
             /\ At(g, t) # At(mem, t) => At(mem, t).pk = phone
  <2>1. t \in Slots(st) /\ At(st, t).pk = At(mem, t).pk
        /\ (At(st, t) # At(mem, t) => At(mem, t).pk = phone)
    BY DEF PhoneOnly
  <2>2. QED
    BY <1>2, <1>3, <2>1
<1>5. QED
  BY <1>4 DEF PhoneOnly, g

LEMMA SettleTouches ==
  ASSUME NEW f, NEW i, NEW s, NEW k \in Key, NEW st \in Stores, Settle(f, i, s, k, st),
         mem \in Stores, PhoneOnly(st), s \in Slots(st) => At(st, s).pk = phone
  PROVE  PhoneOnly(mem')
<1>1. mem' = IF k # "none" /\ s \in Slots(st) THEN Rekeyed(st, s, k) ELSE st
  BY DEF Settle
<1>2. CASE k # "none" /\ s \in Slots(st)
  <2>1. k \in {"stale", "shared"} /\ mem' = Rekeyed(st, s, k)
    BY <1>1, <1>2 DEF Key
  <2>2. PhoneOnly(Rekeyed(st, s, k))
    BY <1>2, <2>1, RekeyedTouches
  <2>3. QED
    BY <2>1, <2>2
<1>3. CASE ~(k # "none" /\ s \in Slots(st))
  BY <1>1, <1>3
<1>4. QED
  BY <1>2, <1>3

LEMMA SameTouches ==
  ASSUME mem' = mem
  PROVE  PhoneOnly(mem')
BY DEF PhoneOnly

LEMMA AttestationTouches ==
  ASSUME IInv, at \in Attesting, AttestationFails \/ AttestationSucceeds
  PROVE  PhoneOnly(mem')
<1>1. /\ mem \in Stores /\ fresh \in Key /\ phone \in Devices /\ PhoneOnly(mem)
      /\ fresh # "none"
  BY InvFacts DEF IInv, TypeOK, Carried, Attesting, PhoneOnly
<1>2. found \in Slots(mem) => At(mem, found).pk = phone
  BY InvFacts DEF IInv, FoundIsPhone
<1>3. ASSUME NEW f, NEW i, Settle(f, i, found, fresh, mem)
      PROVE  PhoneOnly(mem')
  BY <1>1, <1>2, <1>3, SettleTouches
<1>4. CASE AttestationFails
  <2>1. CASE found = None
    BY <1>4, <2>1, SameTouches DEF AttestationFails, Refuse, saved
  <2>2. CASE found # None
    BY <1>3, <1>4, <2>2 DEF AttestationFails
  <2>3. QED
    BY <2>1, <2>2
<1>5. CASE AttestationSucceeds /\ found # None
  BY <1>3, <1>5 DEF AttestationSucceeds
<1>6. CASE AttestationSucceeds /\ found = None
  <2>1. PICK j \in Issuers :
          /\ Len(mem[j]) < MaxEndpoints
          /\ Settle("Attestation", j, <<j, Len(mem[j]) + 1>>, fresh, Enrolled(mem, j))
    BY <1>6 DEF AttestationSucceeds
  <2> DEFINE l == Len(mem[j])
             e == [pk |-> phone, key |-> "none"]
             q == Append(mem[j], e)
             g == Enrolled(mem, j)
             n == <<j, l + 1>>
  <2>2. e \in Endpoint /\ e.pk = phone
    BY <1>1, EntryFacts DEF Key
  <2>3. /\ mem[j] \in Seq(Endpoint) /\ l \in Nat /\ DOMAIN mem[j] = 1 .. l
        /\ mem \in [Issuers -> Seq(Endpoint)]
    BY <1>1, EntryFacts DEF Stores
  <2> HIDE DEF e
  <2>4. /\ q \in Seq(Endpoint) /\ DOMAIN q = 1 .. l + 1 /\ q[l + 1] = e
        /\ \A k \in 1 .. l : q[k] = mem[j][k]
    BY <2>2, <2>3, AppendProperties
  <2>5. g = [mem EXCEPT ![j] = q]
    BY DEF Enrolled, e
  <2> HIDE DEF g, q
  <2>6. g \in Stores /\ g[j] = q /\ \A i \in Issuers : i # j => g[i] = mem[i]
    BY <2>3, <2>4, <2>5 DEF Stores
  <2>7. ASSUME NEW s \in Slots(mem) PROVE s \in Slots(g) /\ At(g, s) = At(mem, s)
    <3>1. s \in Issuers \X (1 .. MaxEndpoints) /\ s = <<s[1], s[2]>> /\ s[2] \in DOMAIN mem[s[1]]
      BY DEF Slots
    <3>2. CASE s[1] = j
      <4>1. s[2] \in 1 .. l /\ 1 .. l \subseteq 1 .. l + 1
        BY <2>3, <3>1, <3>2
      <4>2. QED
        BY <2>4, <2>6, <3>1, <3>2, <4>1 DEF Slots, At
    <3>3. CASE s[1] # j
      BY <2>6, <3>1, <3>3 DEF Slots, At
    <3>4. QED
      BY <3>2, <3>3
  <2>8. PhoneOnly(g)
    BY <2>7 DEF PhoneOnly
  <2>9. At(g, n).pk = phone
    BY <2>2, <2>4, <2>6 DEF At
  <2>10. Settle("Attestation", j, n, fresh, g)
    BY <2>1 DEF g
  <2>11. QED
    BY <1>1, <2>6, <2>8, <2>9, <2>10, SettleTouches
<1>7. QED
  BY <1>4, <1>5, <1>6

LEMMA Auth1Touches ==
  ASSUME IInv, NEW r, NEW c \in BOOLEAN, Auth1(r, c)
  PROVE  PhoneOnly(mem')
<1> DEFINE st == Forgotten(mem, c)
           k == IF c THEN "shared" ELSE "stale"
<1>1. mem \in Stores /\ phone \in Devices
  BY InvFacts DEF Auth1
<1>2. st \in Stores /\ PhoneOnly(st) /\ k \in Key
  BY <1>1, ForgottenFacts, ForgottenTouches DEF Key
<1> HIDE DEF st, k
<1>3. CASE mem' = st
  BY <1>2, <1>3
<1>4. ASSUME NEW s \in Slots(st), LookedUp(s, Matches(st, phone)),
             Settle("Standard", s[1], s, k, st)
      PROVE  PhoneOnly(mem')
  <2>1. At(st, s).pk = phone
    BY <1>4 DEF LookedUp, IsFirst, Matches
  <2>2. QED
    BY <1>1, <1>2, <1>4, <2>1, SettleTouches
<1>5. QED
  BY <1>3, <1>4 DEF Auth1, Proceed, st, k

LEMMA TransactionTouches ==
  ASSUME IInv, TransactionStep
  PROVE  PhoneOnly(mem')
<1>1. mem \in Stores /\ mem = nvs /\ PhoneOnly(mem)
  BY InvFacts DEF PhoneOnly
<1>2. CASE Crash \/ \E t \in Targets, d \in Devices : Begin(t, d)
  BY <1>1, <1>2, SameTouches DEF Crash, Begin, saved
<1>3. ASSUME NEW r \in Response, Respond(r) PROVE PhoneOnly(mem')
  <2>1. CASE Auth0(r)
    <3>1. ASSUME NEW s \in Slots(mem), LookedUp(s, Opening(mem, phone)),
                 Settle("Fast", s[1], s, "none", mem)
          PROVE  PhoneOnly(mem')
      <4>1. At(mem, s).pk = phone /\ "none" \in Key
        BY <3>1 DEF LookedUp, IsFirst, Opening, Matches, Key
      <4>2. QED
        BY <1>1, <3>1, <4>1, SettleTouches
    <3>2. QED
      BY <2>1, <3>1, SameTouches DEF Auth0, Refuse, saved
  <2>2. CASE \E c \in BOOLEAN : Auth1(r, c)
    BY <2>2, Auth1Touches
  <2>3. ASSUME NEW request \in Attesting, NEW next, Passes(request, next, r)
        PROVE  PhoneOnly(mem')
    BY <2>3, AttestationTouches, SameTouches DEF Passes, saved
  <2>4. CASE \/ Exchange(r) \/ Passes("ATTESTATION", "SELECT", r)
             \/ Passes("SELECT", "ENVELOPE1", r) \/ Passes("ENVELOPE1", "ENVELOPE2", r)
    BY <2>3, <2>4 DEF Exchange, Attesting
  <2>5. CASE at = "ENVELOPE1" /\ r = "odd" /\ AttestationFails
    BY <2>5, AttestationTouches DEF Attesting
  <2>6. CASE Envelope2(r)
    <3>1. at \in Attesting
      BY <2>6 DEF Envelope2, Attesting
    <3>2. \/ UNCHANGED saved \/ UNCHANGED ladder
          \/ AttestationFails \/ AttestationSucceeds
      BY <2>6 DEF Envelope2
    <3>3. QED
      BY <3>1, <3>2, AttestationTouches, SameTouches DEF saved, ladder
  <2>7. CASE Success(r) \/ Failure(r)
    BY <2>7, SameTouches DEF Success, Failure, saved
  <2>8. QED
    BY <1>3, <2>1, <2>2, <2>4, <2>5, <2>6, <2>7 DEF Respond, Envelope1
<1>4. QED
  BY <1>2, <1>3 DEF TransactionStep

(***************************************************************************)
(* A transaction that is not raced gives its new key to entries of the     *)
(* phone in the field alone (Profile.cpp:204), wherever HomeKit requests   *)
(* come between its steps.                                                 *)
(***************************************************************************)
THEOREM OwnKey == HapSpec => KeyGoesToPhone
<1>1. HapInv /\ [HapNext]_<<ladder, hap>>
        => [at' # at /\ ~raced =>
              \A s \in Slots(mem) :
                At(mem', s) # At(mem, s) => At(mem, s).pk = phone]_<<ladder, hap>>
  <2> SUFFICES ASSUME HapInv, HapNext, at' # at, ~raced
               PROVE  \A s \in Slots(mem) :
                        At(mem', s) # At(mem, s) => At(mem, s).pk = phone
    OBVIOUS
  <2>1. TransactionStep
    <3>1. CASE HapRequest
      <4>1. at' = at
        BY <3>1 DEF HapRequest, Provision, RemoveOne, RemoveAll, ReplaceIdentity,
                    Answered, Stored, ladder
      <4>2. QED
        BY <4>1
    <3>2. QED
      BY <3>1 DEF HapNext
  <2>2. PhoneOnly(mem')
    BY <2>1, TransactionTouches DEF HapInv
  <2>3. QED
    BY <2>2 DEF PhoneOnly
<1>2. QED
  BY <1>1, HapInvariance, PTL DEF HapSpec, KeyGoesToPhone
=============================================================================
