------------------------- MODULE BleTransport_proofs -------------------------
(***************************************************************************)
(* Lemmas about the transport's operators: what one SDU, and one receive,  *)
(* may do to the queues, the counters and the link.                        *)
(***************************************************************************)
EXTENDS BleTransport, WellFoundedInduction, TLAPS

\* A set of naturals that is not empty has a least element.
LEMMA LeastNatural ==
  ASSUME NEW T, T \subseteq Nat, T # {}
  PROVE  \E m \in T : \A k \in T : m <= k
<1>1. PICK m \in T : \A k \in T : ~ (<<k, m>> \in OpToRel(<, Nat))
  BY WFMin, NatLessThanWellFounded, Zenon
<1>2. \A k \in T : ~ (k < m)
  BY <1>1 DEF OpToRel
<1>3. QED
  BY <1>2

\* Induction up to N, on membership in a set.
LEMMA InductionUpTo ==
  ASSUME NEW N \in Nat, NEW T, 0 \in T,
         \A n \in 0 .. N : n \in T /\ n # N => n + 1 \in T
  PROVE  \A n \in 0 .. N : n \in T
<1> DEFINE U == {n \in 0 .. N : n \notin T}
<1>1. SUFFICES ASSUME U # {} PROVE FALSE
  OBVIOUS
<1>2. PICK m \in U : \A k \in U : m <= k
  <2>1. U \subseteq Nat
    OBVIOUS
  <2>2. QED
    BY <1>1, <2>1, LeastNatural
<1>3. m # 0 /\ m - 1 \in 0 .. N /\ m - 1 # N /\ (m - 1) + 1 = m
  OBVIOUS
<1>4. m - 1 \notin U
  BY <1>2, <1>3
<1>5. m \in T
  BY <1>3, <1>4
<1>6. QED
  BY <1>5

-----------------------------------------------------------------------------
\* A message with its payload opened.
Cleared(m) == [m EXCEPT !.c = Clear]

\* The messages of a set keep their kind, and what else they say, when opened.
Openable(M) ==
  \A m \in M :
    /\ Cleared(m) \in M /\ Cleared(m).kind = m.kind /\ m.kind # "none"
    /\ m.kind = "AP_RS" => Cleared(m).re = m.re /\ Cleared(m).res = m.res
    /\ m.kind # "AP_RS" => Cleared(m).n = m.n

\* An SDU that is delivered holds a message.
Sdu(M) == Seq(M) \ {<<>>}

TransportState(M) ==
  [up : BOOLEAN, full : BOOLEAN, inbox : Seq(Sdu(M)), down : BOOLEAN,
   active : BOOLEAN, sec : SecurityState, rx : Seq(M), deferred : Seq(M)]

\* What no message that arrives may change.
SameOwner(p, b) ==
  /\ p.active = b.active /\ p.deferred = b.deferred
  /\ p.sec.secured = b.sec.secured
  /\ p.sec.counter["reader"] = b.sec.counter["reader"]
  /\ b.sec.aborted => p.sec.aborted
  /\ ~b.sec.secured => p.sec = b.sec

-----------------------------------------------------------------------------
\* One use of a counter, and an abort, leave a security state of the right type.
LEMMA SecurityFacts ==
  ASSUME NEW s \in SecurityState, NEW ap, NEW c
  PROVE  LET t == AfterUnseal(s, "reader", ap, c)
         IN  /\ t \in SecurityState
             /\ t.secured = s.secured
             /\ t.counter["reader"] = s.counter["reader"]
             /\ s.aborted => t.aborted
             /\ Exempt(s, ap) => t = s
             /\ ~Exempt(s, ap) /\ ~UnsealFails(s, "reader", ap, c) =>
                  c \in Nat /\ t.counter["device"] = c + 1
<1> DEFINE t == AfterUnseal(s, "reader", ap, c)
<1>1. /\ s.secured \in BOOLEAN /\ s.aborted \in BOOLEAN
      /\ s.counter \in [Role -> Nat \ {0}]
      /\ "reader" \in Role /\ "device" \in Role
  BY DEF SecurityState, Role
<1>2. CASE Exempt(s, ap)
  BY <1>2 DEF AfterUnseal
<1>3. CASE ~Exempt(s, ap) /\ UnsealFails(s, "reader", ap, c)
  <2>1. t = [secured |-> s.secured, aborted |-> TRUE, counter |-> s.counter]
    BY <1>3 DEF AfterUnseal, Abort, SecurityState
  <2>2. ~(~Exempt(s, ap) /\ ~UnsealFails(s, "reader", ap, c)) /\ ~Exempt(s, ap)
    BY <1>3
  <2> HIDE DEF t
  <2>3. /\ t \in SecurityState /\ t.secured = s.secured /\ t.aborted
        /\ t.counter = s.counter
    BY <1>1, <2>1 DEF SecurityState
  <2>4. QED
    BY <2>2, <2>3 DEF t
<1>4. CASE ~Exempt(s, ap) /\ ~UnsealFails(s, "reader", ap, c)
  <2> DEFINE k == [s.counter EXCEPT !["device"] = s.counter["device"] + 1]
             a == s.aborted \/ s.counter["device"] + 1 > MaxCounter
  <2>1. AfterUnseal(s, "reader", ap, c)
          = [secured |-> s.secured, aborted |-> a, counter |-> k]
    BY <1>4 DEF AfterUnseal, UseCounter, Peer
  <2>2. /\ k \in [Role -> Nat \ {0}] /\ k["reader"] = s.counter["reader"]
        /\ k["device"] = s.counter["device"] + 1
    BY <1>1
  <2>3. a \in BOOLEAN /\ (s.aborted => a)
    BY <1>1
  <2>4. c = s.counter["device"] /\ c \in Nat
    BY <1>1, <1>4 DEF UnsealFails, Peer
  <2> HIDE DEF k, a
  <2>5. QED
    BY <1>4, <2>1, <2>2, <2>3, <2>4, <1>1 DEF SecurityState
<1>5. QED
  BY <1>2, <1>3, <1>4

\* Sealing uses the counter of the end that seals, and no other.
LEMMA SealFacts ==
  ASSUME NEW s \in SecurityState, NEW r \in Role, NEW ap, NEW empty
  PROVE  LET t == AfterSeal(s, r, ap, empty)
         IN  /\ t \in SecurityState
             /\ t.secured = s.secured
             /\ t.counter[Peer(r)] = s.counter[Peer(r)]
             /\ s.aborted => t.aborted
             /\ Exempt(s, ap) => t = s
             /\ ~Exempt(s, ap) /\ ~empty =>
                  /\ t.counter[r] = s.counter[r] + 1
                  /\ t.aborted = (s.aborted \/ s.counter[r] + 1 > MaxCounter)
<1> DEFINE t == AfterSeal(s, r, ap, empty)
<1>1. /\ s.secured \in BOOLEAN /\ s.aborted \in BOOLEAN
      /\ s.counter \in [Role -> Nat \ {0}]
      /\ Peer(r) \in Role /\ Peer(r) # r
  BY DEF SecurityState, Role, Peer
<1>2. CASE Exempt(s, ap)
  BY <1>2 DEF AfterSeal
<1>3. CASE ~Exempt(s, ap) /\ empty
  <2>1. t = [secured |-> s.secured, aborted |-> TRUE, counter |-> s.counter]
    BY <1>3 DEF AfterSeal, Abort, SecurityState
  <2> HIDE DEF t
  <2>2. /\ t \in SecurityState /\ t.secured = s.secured /\ t.aborted
        /\ t.counter = s.counter
    BY <1>1, <2>1 DEF SecurityState
  <2>3. QED
    BY <1>3, <2>2 DEF t
<1>4. CASE ~Exempt(s, ap) /\ ~empty
  <2> DEFINE k == [s.counter EXCEPT ![r] = s.counter[r] + 1]
             a == s.aborted \/ s.counter[r] + 1 > MaxCounter
  <2>1. t = [secured |-> s.secured, aborted |-> a, counter |-> k]
    BY <1>4 DEF AfterSeal, UseCounter
  <2>2. /\ k \in [Role -> Nat \ {0}] /\ k[Peer(r)] = s.counter[Peer(r)]
        /\ k[r] = s.counter[r] + 1
    BY <1>1
  <2>3. a \in BOOLEAN /\ (s.aborted => a)
    BY <1>1
  <2> HIDE DEF k, t
  <2>4. /\ t.secured = s.secured /\ t.aborted = a /\ t.counter = k
    BY <2>1
  <2>5. t \in SecurityState
    BY <1>1, <2>1, <2>2, <2>3 DEF SecurityState
  <2>6. QED
    BY <1>4, <2>2, <2>3, <2>4, <2>5 DEF t
<1>5. QED
  BY <1>2, <1>3, <1>4

\* Opening, at the device, uses the reader's counter if it is the one expected.
LEMMA OpenFacts ==
  ASSUME NEW s \in SecurityState, NEW c
  PROVE  LET t == AfterUnseal(s, "device", FALSE, c)
         IN  /\ t \in SecurityState
             /\ t.secured = s.secured
             /\ t.counter["device"] = s.counter["device"]
             /\ s.aborted => t.aborted
             /\ ~s.secured => t = s
             /\ s.secured /\ c = s.counter["reader"] =>
                  /\ t.counter["reader"] = c + 1
                  /\ t.aborted = (s.aborted \/ c + 1 > MaxCounter)
<1> DEFINE t == AfterUnseal(s, "device", FALSE, c)
<1>1. /\ s.secured \in BOOLEAN /\ s.aborted \in BOOLEAN
      /\ s.counter \in [Role -> Nat \ {0}]
      /\ "reader" \in Role /\ "device" \in Role /\ Peer("device") = "reader"
  BY DEF SecurityState, Role, Peer
<1>2. CASE ~s.secured
  BY <1>2 DEF AfterUnseal, Exempt
<1>3. CASE s.secured /\ c # s.counter["reader"]
  <2>1. t = [secured |-> s.secured, aborted |-> TRUE, counter |-> s.counter]
    BY <1>1, <1>3 DEF AfterUnseal, UnsealFails, Exempt, Abort, SecurityState
  <2> HIDE DEF t
  <2>2. /\ t \in SecurityState /\ t.secured = s.secured /\ t.aborted
        /\ t.counter = s.counter
    BY <1>1, <2>1 DEF SecurityState
  <2>3. QED
    BY <1>3, <2>2 DEF t
<1>4. CASE s.secured /\ c = s.counter["reader"]
  <2> DEFINE k == [s.counter EXCEPT !["reader"] = s.counter["reader"] + 1]
             a == s.aborted \/ s.counter["reader"] + 1 > MaxCounter
  <2>1. t = [secured |-> s.secured, aborted |-> a, counter |-> k]
    BY <1>1, <1>4 DEF AfterUnseal, UnsealFails, Exempt, UseCounter
  <2>2. /\ k \in [Role -> Nat \ {0}] /\ k["device"] = s.counter["device"]
        /\ k["reader"] = c + 1
    BY <1>1, <1>4
  <2>3. a \in BOOLEAN /\ (s.aborted => a)
        /\ a = (s.aborted \/ c + 1 > MaxCounter)
    BY <1>1, <1>4
  <2> HIDE DEF k, t, a
  <2>4. /\ t.secured = s.secured /\ t.aborted = a /\ t.counter = k
    BY <2>1
  <2>5. t \in SecurityState
    BY <1>1, <2>1, <2>2, <2>3 DEF SecurityState
  <2>6. QED
    BY <1>4, <2>2, <2>3, <2>4, <2>5 DEF t
<1>5. QED
  BY <1>2, <1>3, <1>4

\* send may close the link, and leaves what is to be received alone; a link that
\* is still up, and not marked down, heard what was sent, unless that was too
\* large.
LEMMA AfterSendFacts ==
  ASSUME NEW M, NEW b \in TransportState(M), NEW kind, NEW empty
  PROVE  LET p == AfterSend(b, kind, empty)
             t == AfterSeal(b.sec, "reader", IsAp(kind), empty)
         IN  /\ p \in TransportState(M)
             /\ p.rx = b.rx /\ p.deferred = b.deferred /\ p.active = b.active
             /\ p.inbox \in {b.inbox, <<>>}
             /\ p.sec \in {b.sec, t}
             /\ b.down => p.down
             /\ p.up =>
                  /\ b.up /\ p.inbox = b.inbox /\ p.sec = t
                  /\ ~SealFails(b.sec, IsAp(kind), empty)
                  /\ ~p.down /\ kind \notin Oversize => SendOk(b, kind, empty)
<1> DEFINE t == AfterSeal(b.sec, "reader", IsAp(kind), empty)
           p == AfterSend(b, kind, empty)
           Fields(u, f, i, w, s) ==
             [up |-> u, full |-> f, inbox |-> i, down |-> w, active |-> b.active, sec |-> s,
              rx |-> b.rx, deferred |-> b.deferred]
<1>1. /\ b.up \in BOOLEAN /\ b.inbox \in Seq(Sdu(M)) /\ b.down \in BOOLEAN
      /\ b.active \in BOOLEAN /\ b.sec \in SecurityState /\ b.rx \in Seq(M)
      /\ b.deferred \in Seq(M) /\ b.full \in BOOLEAN
      /\ b = Fields(b.up, b.full, b.inbox, b.down, b.sec)
  BY DEF TransportState
<1>2. t \in SecurityState
  BY <1>1, SealFacts DEF Role
<1>3. <<>> \in Seq(Sdu(M))
  OBVIOUS
<1>4. CASE b.sec.aborted
  <2>1. p = Fields(FALSE, FALSE, <<>>, b.down, b.sec)
    BY <1>1, <1>4 DEF AfterSend, Closed
  <2> HIDE DEF p
  <2>2. QED
    BY <1>1, <1>2, <1>3, <2>1 DEF TransportState, p
<1>5. CASE ~b.sec.aborted /\ SealFails(b.sec, IsAp(kind), empty)
  <2>1. p = Fields(FALSE, FALSE, <<>>, b.down, t)
    BY <1>1, <1>5 DEF AfterSend, Closed
  <2> HIDE DEF p, t
  <2>2. QED
    BY <1>1, <1>2, <1>3, <2>1 DEF TransportState, p, t
<1>6. CASE /\ ~b.sec.aborted /\ ~SealFails(b.sec, IsAp(kind), empty)
           /\ kind \in Oversize
  <2>1. p = Fields(b.up, b.full, b.inbox, b.down, t)
    BY <1>1, <1>6 DEF AfterSend
  <2> HIDE DEF p, t
  <2>2. QED
    BY <1>1, <1>2, <1>6, <2>1 DEF TransportState, p, t
<1>7. CASE /\ ~b.sec.aborted /\ ~SealFails(b.sec, IsAp(kind), empty)
           /\ kind \notin Oversize
  <2>1. p = Fields(b.up, b.full, b.inbox, b.down \/ ~b.up \/ b.full, t)
    BY <1>1, <1>7 DEF AfterSend
  <2> HIDE DEF p, t
  <2>2. QED
    BY <1>1, <1>2, <1>7, <2>1 DEF TransportState, SendOk, p, t
<1>8. QED
  BY <1>4, <1>5, <1>6, <1>7

\* One message of an SDU: ignored by a link that is down; else queued, under the
\* counter expected of it if it has to have one; else the end of the link.
LEMMA UnsealIntoFacts ==
  ASSUME NEW M, Openable(M), NEW b \in TransportState(M), NEW m \in M
  PROVE  LET p == UnsealInto(b, m)
         IN  /\ p \in TransportState(M)
             /\ SameOwner(p, b)
             /\ b.down => p = b
             /\ ~b.down /\ p.down =>
                  ~p.up /\ p.inbox = <<>> /\ p.rx = b.rx /\ p.sec.aborted
             /\ ~p.down =>
                  /\ ~b.down /\ p.up = b.up /\ p.inbox = b.inbox
                  /\ p.rx = Append(b.rx, Cleared(m))
                  /\ IF Exempt(b.sec, IsAp(m.kind)) THEN p.sec = b.sec
                     ELSE m.c \in Nat /\ p.sec.counter["device"] = m.c + 1
<1> DEFINE ap == IsAp(m.kind)
           failed == b.sec.aborted \/ UnsealFails(b.sec, "reader", ap, m.c)
           t == AfterUnseal(b.sec, "reader", ap, m.c)
           x == [b.sec EXCEPT !.aborted = TRUE]
<1>1. /\ t \in SecurityState /\ t.secured = b.sec.secured
      /\ t.counter["reader"] = b.sec.counter["reader"]
      /\ b.sec.aborted => t.aborted
      /\ Exempt(b.sec, ap) => t = b.sec
      /\ ~Exempt(b.sec, ap) /\ ~UnsealFails(b.sec, "reader", ap, m.c) =>
           m.c \in Nat /\ t.counter["device"] = m.c + 1
  BY SecurityFacts DEF TransportState
<1>2. /\ x \in SecurityState /\ x.secured = b.sec.secured /\ x.aborted
      /\ x.counter = b.sec.counter
      /\ b.sec.aborted => x = b.sec
  BY DEF TransportState, SecurityState
<1>3. Cleared(m) \in M
  BY DEF Openable
<1>4. CASE b.down
  BY <1>4 DEF UnsealInto, SameOwner
<1>5. CASE ~b.down /\ failed
  <2>1. UnsealInto(b, m) = [up |-> FALSE, full |-> FALSE, inbox |-> <<>>, down |-> TRUE,
                            active |-> b.active, sec |-> x, rx |-> b.rx,
                            deferred |-> b.deferred]
    BY <1>5 DEF UnsealInto, CloseLink, Closed, TransportState
  <2>2. <<>> \in Seq(Sdu(M))
    OBVIOUS
  <2>3. ~b.sec.secured => b.sec.aborted
    BY <1>5 DEF UnsealFails, Exempt
  <2> HIDE DEF x, t, failed, ap
  <2>4. QED
    BY <1>2, <1>5, <2>1, <2>2, <2>3 DEF TransportState, SameOwner
<1>6. CASE ~b.down /\ ~failed
  <2>1. UnsealInto(b, m) = [up |-> b.up, full |-> b.full, inbox |-> b.inbox, down |-> b.down,
                            active |-> b.active, sec |-> t,
                            rx |-> Append(b.rx, Cleared(m)),
                            deferred |-> b.deferred]
    BY <1>6 DEF UnsealInto, TransportState, Cleared
  <2>2. ~b.sec.secured => Exempt(b.sec, ap)
    BY DEF Exempt
  <2>3. ~UnsealFails(b.sec, "reader", ap, m.c)
    BY <1>6
  <2>4. b.rx \in Seq(M) /\ Append(b.rx, Cleared(m)) \in Seq(M)
    BY <1>3 DEF TransportState
  <2> HIDE DEF x, t, failed
  <2>5. QED
    BY <1>1, <1>6, <2>1, <2>2, <2>3, <2>4 DEF TransportState, SameOwner
<1>7. QED
  BY <1>4, <1>5, <1>6

\* The recursion behind Unsealed: one message after the other.
LEMMA UnsealedRecursion ==
  ASSUME NEW b, NEW sdu, Len(sdu) \in Nat
  PROVE  \E after : /\ after[0] = b
                    /\ \A n \in 1 .. Len(sdu) :
                         after[n] = UnsealInto(after[n - 1], sdu[n])
                    /\ Unsealed(b, sdu) = after[Len(sdu)]
<1> DEFINE N == Len(sdu)
           Step(f, n) == IF n = 0 THEN b ELSE UnsealInto(f[n - 1], sdu[n])
           Is(f, m) == f = [n \in 0 .. m |-> Step(f, n)]
           T == {m \in 0 .. N : \E f : Is(f, m)}
<1>1. 0 \in T
  <2>1. Is([n \in 0 .. 0 |-> b], 0)
    OBVIOUS
  <2> HIDE DEF Is
  <2>2. \E f : Is(f, 0)
    BY <2>1
  <2>3. QED
    BY <2>2
<1>2. ASSUME NEW m \in 0 .. N, m \in T, m # N PROVE m + 1 \in T
  <2>1. PICK h : Is(h, m)
    BY <1>2
  <2> DEFINE g == [n \in 0 .. m + 1 |-> IF n = m + 1 THEN Step(h, n) ELSE h[n]]
  <2>2. \A n \in 0 .. m + 1 : g[n] = Step(g, n)
    <3>1. ASSUME NEW n \in 0 .. m + 1, n # 0
          PROVE  n - 1 \in 0 .. m + 1 /\ n - 1 # m + 1
      BY <3>1
    <3>2. \A n \in 0 .. m + 1 : n # 0 => g[n - 1] = h[n - 1]
      BY <3>1
    <3>3. \A n \in 0 .. m + 1 : Step(g, n) = Step(h, n)
      BY <3>2
    <3>4. \A n \in 0 .. m : h[n] = Step(h, n)
      BY <2>1
    <3>5. \A n \in 0 .. m + 1 : n # m + 1 => n \in 0 .. m
      OBVIOUS
    <3>6. \A n \in 0 .. m + 1 : g[n] = Step(h, n)
      BY <3>4, <3>5
    <3>7. QED
      BY <3>3, <3>6
  <2>3. Is(g, m + 1)
    BY <2>2
  <2> HIDE DEF Is, g
  <2>4. \E f : Is(f, m + 1)
    BY <2>3
  <2>5. QED
    BY <1>2, <2>4
<1>3. \E f : Is(f, N)
  <2>1. N \in T
    <3> HIDE DEF T
    <3>1. N \in 0 .. N
      OBVIOUS
    <3> HIDE DEF N
    <3>2. \A n \in 0 .. N : n \in T
      BY <1>1, <1>2, InductionUpTo, Len(sdu) \in Nat DEF N
    <3>3. QED
      BY <3>1, <3>2
  <2>2. QED
    BY <2>1
<1> DEFINE after == CHOOSE e : Is(e, N)
<1>4. Is(after, N)
  BY <1>3
<1>5. Unsealed(b, sdu) = after[N]
  BY DEF Unsealed
<1>6. QED
  <2> HIDE DEF after
  <2>1. after[0] = b
    BY <1>4
  <2>2. \A n \in 1 .. N : after[n] = UnsealInto(after[n - 1], sdu[n])
    BY <1>4
  <2>3. QED
    BY <1>5, <2>1, <2>2

\* Position j holds the last of the first n messages that has to be sealed.
LastSealed(sdu, n, j) ==
  ~IsAp(sdu[j].kind) /\ \A l \in j + 1 .. n : IsAp(sdu[l].kind)

\* The counter expected of the device after n messages of an SDU.
CounterAfter(p, b, sdu, n) ==
  /\ (\A j \in 1 .. n : IsAp(sdu[j].kind)) =>
       p.sec.counter["device"] = b.sec.counter["device"]
  /\ \A j \in 1 .. n : LastSealed(sdu, n, j) =>
       p.sec.counter["device"] = sdu[j].c + 1

\* The transport p after n messages of an SDU that b takes.
Progress(p, b, sdu, n, M) ==
  /\ p \in TransportState(M) /\ SameOwner(p, b)
  /\ Len(p.rx) <= n
  /\ \A i \in 1 .. Len(p.rx) : p.rx[i] = Cleared(sdu[i])
  /\ p.down => ~p.up /\ p.inbox = <<>> /\ p.sec.aborted
  /\ ~p.down =>
       /\ p.up = b.up /\ p.inbox = b.inbox /\ Len(p.rx) = n
       /\ b.sec.secured => CounterAfter(p, b, sdu, n)

\* One more message of the SDU.
LEMMA ProgressStep ==
  ASSUME NEW M, Openable(M), NEW b \in TransportState(M), NEW sdu \in Seq(M),
         NEW n \in 0 .. Len(sdu), n # Len(sdu), NEW p,
         Progress(p, b, sdu, n, M)
  PROVE  Progress(UnsealInto(p, sdu[n + 1]), b, sdu, n + 1, M)
<1> DEFINE m == sdu[n + 1]
           q == UnsealInto(p, m)
<1> SUFFICES Progress(q, b, sdu, n + 1, M)
  OBVIOUS
<1>1. m \in M /\ n \in Nat /\ n + 1 \in 1 .. Len(sdu)
  OBVIOUS
<1>2. p \in TransportState(M) /\ p.rx \in Seq(M) /\ SameOwner(p, b)
  BY DEF Progress, TransportState
<1>3. /\ q \in TransportState(M)
      /\ SameOwner(q, p)
      /\ p.down => q = p
      /\ ~p.down /\ q.down =>
           ~q.up /\ q.inbox = <<>> /\ q.rx = p.rx /\ q.sec.aborted
      /\ ~q.down =>
           /\ ~p.down /\ q.up = p.up /\ q.inbox = p.inbox
           /\ q.rx = Append(p.rx, Cleared(m))
           /\ IF Exempt(p.sec, IsAp(m.kind)) THEN q.sec = p.sec
              ELSE m.c \in Nat /\ q.sec.counter["device"] = m.c + 1
  <2> HIDE DEF m
  <2>1. QED
    BY <1>1, <1>2, UnsealIntoFacts, Zenon
<1> HIDE DEF q
<1>4. SameOwner(q, b)
  BY <1>2, <1>3 DEF SameOwner
<1>5. CASE p.down
  <2>1. Len(p.rx) <= n + 1
    BY <1>1, <1>2 DEF Progress
  <2>2. QED
    BY <1>3, <1>5, <2>1 DEF Progress
<1>6. CASE ~p.down /\ q.down
  <2>1. Len(p.rx) <= n + 1
    BY <1>1, <1>2 DEF Progress
  <2>2. QED
    BY <1>3, <1>4, <1>6, <2>1 DEF Progress
<1>7. CASE ~q.down
  <2>1. Len(q.rx) = n + 1 /\ \A i \in 1 .. n + 1 : q.rx[i] = Cleared(sdu[i])
    <3>1. q.rx = Append(p.rx, Cleared(m)) /\ Len(p.rx) = n
          /\ \A i \in 1 .. n : p.rx[i] = Cleared(sdu[i])
      BY <1>3, <1>7 DEF Progress
    <3>2. Len(q.rx) = n + 1 /\ q.rx[n + 1] = Cleared(m)
          /\ \A i \in 1 .. n : q.rx[i] = p.rx[i]
      BY <1>1, <1>2, <3>1
    <3>3. \A i \in 1 .. n + 1 : i = n + 1 \/ i \in 1 .. n
      BY <1>1
    <3>4. QED
      BY <3>1, <3>2, <3>3
  <2>2. ASSUME b.sec.secured PROVE CounterAfter(q, b, sdu, n + 1)
    <3>1. CounterAfter(p, b, sdu, n) /\ p.sec.secured
      BY <1>2, <1>3, <1>7, <2>2 DEF Progress, SameOwner
    <3>2. CASE IsAp(m.kind)
      <4>1. q.sec = p.sec
        BY <1>3, <1>7, <3>2 DEF Exempt
      <4>2. \A j \in 1 .. n + 1 : LastSealed(sdu, n + 1, j) =>
              j \in 1 .. n /\ LastSealed(sdu, n, j)
        BY <1>1, <3>2 DEF LastSealed
      <4>3. \A j \in 1 .. n : j \in 1 .. n + 1
        BY <1>1
      <4>4. QED
        BY <3>1, <4>1, <4>2, <4>3 DEF CounterAfter
    <3>3. CASE ~IsAp(m.kind)
      <4>1. q.sec.counter["device"] = m.c + 1
        BY <1>3, <1>7, <3>1, <3>3 DEF Exempt
      <4>2. \A j \in 1 .. n + 1 : LastSealed(sdu, n + 1, j) => j = n + 1
        BY <1>1, <3>3 DEF LastSealed
      <4>3. ~\A j \in 1 .. n + 1 : IsAp(sdu[j].kind)
        BY <1>1, <3>3
      <4>4. QED
        BY <4>1, <4>2, <4>3 DEF CounterAfter
    <3>4. QED
      BY <3>2, <3>3
  <2>3. q.up = b.up /\ q.inbox = b.inbox
    BY <1>3, <1>7 DEF Progress
  <2>4. QED
    BY <1>3, <1>4, <1>7, <2>1, <2>2, <2>3 DEF Progress
<1>8. QED
  BY <1>5, <1>6, <1>7

\* A whole SDU.
LEMMA UnsealedFacts ==
  ASSUME NEW M, Openable(M), NEW b \in TransportState(M), NEW sdu \in Seq(M),
         ~b.down, b.rx = <<>>
  PROVE  Progress(Unsealed(b, sdu), b, sdu, Len(sdu), M)
<1>1. Len(sdu) \in Nat
  OBVIOUS
<1>2. PICK after : /\ after[0] = b
                   /\ \A n \in 1 .. Len(sdu) :
                        after[n] = UnsealInto(after[n - 1], sdu[n])
                   /\ Unsealed(b, sdu) = after[Len(sdu)]
  BY <1>1, UnsealedRecursion
<1> DEFINE T == {n \in 0 .. Len(sdu) : Progress(after[n], b, sdu, n, M)}
<1>3. 0 \in T
  <2>1. Progress(b, b, sdu, 0, M)
    BY DEF Progress, SameOwner, CounterAfter
  <2>2. QED
    BY <1>1, <1>2, <2>1
<1>4. \A n \in 0 .. Len(sdu) : n \in T /\ n # Len(sdu) => n + 1 \in T
  <2> SUFFICES ASSUME NEW n \in 0 .. Len(sdu), n \in T, n # Len(sdu)
               PROVE  n + 1 \in T
    OBVIOUS
  <2>1. n + 1 \in 1 .. Len(sdu) /\ (n + 1) - 1 = n
    OBVIOUS
  <2>2. after[n + 1] = UnsealInto(after[n], sdu[n + 1])
    BY <1>2, <2>1
  <2>3. Progress(UnsealInto(after[n], sdu[n + 1]), b, sdu, n + 1, M)
    BY ProgressStep
  <2>4. QED
    BY <2>1, <2>2, <2>3
<1>5. \A n \in 0 .. Len(sdu) : n \in T
  <2> HIDE DEF T
  <2>1. QED
    BY <1>1, <1>3, <1>4, InductionUpTo
<1>6. Len(sdu) \in T
  <2> HIDE DEF T
  <2>1. QED
    BY <1>1, <1>5
<1>7. QED
  BY <1>2, <1>6

-----------------------------------------------------------------------------
\* receive returns a message that was queued,
Popped(p, b, m) ==
  /\ b.rx # <<>> /\ m = b.rx[1] /\ p = [b EXCEPT !.rx = Tail(b.rx)]

\* or the first of an SDU, all of which opened, and queues the rest of it,
Unpacked(p, b, m) ==
  LET sdu == b.inbox[1]
  IN  /\ b.rx = <<>> /\ b.inbox # <<>> /\ sdu # <<>> /\ m = Cleared(sdu[1])
      /\ ~p.down /\ p.up = b.up /\ p.inbox = Tail(b.inbox)
      /\ Len(p.rx) + 1 = Len(sdu)
      /\ \A i \in 1 .. Len(p.rx) : p.rx[i] = Cleared(sdu[i + 1])
      /\ b.sec.secured => CounterAfter(p, b, sdu, Len(sdu))

\* or finds nothing, with nothing changed but perhaps the link known to be down,
FoundNothing(p, b) ==
  /\ b.rx = <<>> /\ p.rx = <<>> /\ p.inbox = b.inbox /\ p.up = b.up
  /\ p.sec = b.sec

\* or closes the link at a message that does not open.
GaveOut(p, b) ==
  LET sdu == b.inbox[1]
  IN  /\ b.rx = <<>> /\ b.inbox # <<>>
      /\ p.down /\ ~p.up /\ p.inbox = <<>> /\ p.sec.aborted
      /\ Len(p.rx) <= Len(sdu)
      /\ \A i \in 1 .. Len(p.rx) : p.rx[i] = Cleared(sdu[i])

Reception(p, b, m) ==
  \/ Popped(p, b, m)
  \/ Unpacked(p, b, m)
  \/ m = NoMessage /\ (FoundNothing(p, b) \/ GaveOut(p, b))

\* A transport with another queue, field by field.
LEMMA WithQueue ==
  ASSUME NEW M, NEW b \in TransportState(M), NEW x
  PROVE  /\ [b EXCEPT !.rx = x]
              = [up |-> b.up, full |-> b.full, inbox |-> b.inbox, down |-> b.down,
                 active |-> b.active, sec |-> b.sec, rx |-> x, deferred |-> b.deferred]
         /\ [b EXCEPT !.inbox = x]
              = [up |-> b.up, full |-> b.full, inbox |-> x, down |-> b.down,
                 active |-> b.active, sec |-> b.sec, rx |-> b.rx, deferred |-> b.deferred]
         /\ [b EXCEPT !.deferred = x]
              = [up |-> b.up, full |-> b.full, inbox |-> b.inbox, down |-> b.down,
                 active |-> b.active, sec |-> b.sec, rx |-> b.rx, deferred |-> x]
<1>1. [b EXCEPT !.rx = x]
        = [up |-> b.up, full |-> b.full, inbox |-> b.inbox, down |-> b.down,
           active |-> b.active, sec |-> b.sec, rx |-> x, deferred |-> b.deferred]
  BY DEF TransportState
<1>2. [b EXCEPT !.inbox = x]
        = [up |-> b.up, full |-> b.full, inbox |-> x, down |-> b.down,
           active |-> b.active, sec |-> b.sec, rx |-> b.rx, deferred |-> b.deferred]
  BY DEF TransportState
<1>3. [b EXCEPT !.deferred = x]
        = [up |-> b.up, full |-> b.full, inbox |-> b.inbox, down |-> b.down,
           active |-> b.active, sec |-> b.sec, rx |-> b.rx, deferred |-> x]
  BY DEF TransportState
<1>4. QED
  BY <1>1, <1>2, <1>3

\* What receive may come to.
LEMMA ReceivedFacts ==
  ASSUME NEW M, Openable(M), NEW b \in TransportState(M)
  PROVE  LET p == Received(b).ble
             m == Received(b).msg
         IN  /\ p \in TransportState(M) /\ SameOwner(p, b)
             /\ b.down => p.down
             /\ p.up => b.up
             /\ Reception(p, b, m)
             /\ m = NoMessage \/ (m \in M /\ m.kind # "none")
<1> DEFINE R == Received(b)
           q == Pump(b)
<1>1. /\ b.rx \in Seq(M) /\ b.inbox \in Seq(Sdu(M)) /\ b.up \in BOOLEAN
      /\ b.down \in BOOLEAN /\ b.full \in BOOLEAN
  BY DEF TransportState
<1>2. CASE b.rx # <<>>
  <2>1. R = [ble |-> [b EXCEPT !.rx = Tail(b.rx)], msg |-> b.rx[1]]
    BY <1>2 DEF Received
  <2>2. [b EXCEPT !.rx = Tail(b.rx)]
          = [up |-> b.up, full |-> b.full, inbox |-> b.inbox, down |-> b.down, active |-> b.active,
             sec |-> b.sec, rx |-> Tail(b.rx), deferred |-> b.deferred]
    <3> DEFINE tail == Tail(b.rx)
    <3> HIDE DEF tail
    <3>1. [b EXCEPT !.rx = tail]
          = [up |-> b.up, full |-> b.full, inbox |-> b.inbox, down |-> b.down, active |-> b.active,
             sec |-> b.sec, rx |-> tail, deferred |-> b.deferred]
      BY WithQueue
    <3>2. QED
      BY <3>1 DEF tail
  <2>3. Tail(b.rx) \in Seq(M) /\ b.rx[1] \in M
    BY <1>1, <1>2
  <2>4. R.ble \in TransportState(M)
    <3> DEFINE tail == Tail(b.rx)
               rec == [up |-> b.up, full |-> b.full, inbox |-> b.inbox, down |-> b.down,
                       active |-> b.active, sec |-> b.sec, rx |-> tail,
                       deferred |-> b.deferred]
    <3>1. R.ble = rec
      BY <2>1, <2>2
    <3> HIDE DEF tail
    <3>2. rec \in TransportState(M)
      BY <2>3 DEF TransportState, tail
    <3>3. QED
      BY <3>1, <3>2
  <2>5. R.ble.sec = b.sec /\ R.ble.active = b.active /\ R.ble.deferred = b.deferred
        /\ R.ble.down = b.down /\ R.ble.up = b.up
    BY <2>1, <2>2
  <2>6. Popped(R.ble, b, R.msg)
    BY <1>2, <2>1 DEF Popped
  <2>7. b.rx[1].kind # "none"
    BY <2>3 DEF Openable
  <2> HIDE DEF R
  <2>8. R.msg = b.rx[1]
    BY <2>6 DEF Popped
  <2>9. QED
    BY <2>3, <2>4, <2>5, <2>6, <2>7, <2>8 DEF Reception, SameOwner, R
<1>3. CASE b.rx = <<>> /\ (b.down \/ b.inbox = <<>>)
  <2>1. q = IF b.down THEN b ELSE [b EXCEPT !.down = ~b.up]
    BY <1>3 DEF Pump
  <2>2. /\ q \in TransportState(M) /\ q.rx = <<>> /\ q.inbox = b.inbox
        /\ q.up = b.up /\ q.sec = b.sec /\ q.active = b.active
        /\ q.deferred = b.deferred
    BY <1>1, <1>3, <2>1 DEF TransportState
  <2>3. b.down => q.down
    BY <2>1
  <2>4. R = [ble |-> q, msg |-> NoMessage]
    BY <1>3, <2>2 DEF Received
  <2> HIDE DEF q
  <2>5. R.ble = q /\ R.msg = NoMessage
    BY <2>4
  <2>6. FoundNothing(R.ble, b)
    BY <1>3, <2>2, <2>5 DEF FoundNothing
  <2> HIDE DEF R
  <2>7. QED
    BY <2>2, <2>3, <2>5, <2>6 DEF Reception, SameOwner, R
<1>4. CASE b.rx = <<>> /\ ~b.down /\ b.inbox # <<>>
  <2> DEFINE sdu == b.inbox[1]
             c == [b EXCEPT !.inbox = Tail(b.inbox)]
  <2>1. c = [up |-> b.up, full |-> b.full, inbox |-> Tail(b.inbox), down |-> b.down,
             active |-> b.active, sec |-> b.sec, rx |-> b.rx,
             deferred |-> b.deferred]
    <3> DEFINE tail == Tail(b.inbox)
    <3> HIDE DEF tail
    <3>1. [b EXCEPT !.inbox = tail]
            = [up |-> b.up, full |-> b.full, inbox |-> tail, down |-> b.down,
               active |-> b.active, sec |-> b.sec, rx |-> b.rx,
               deferred |-> b.deferred]
      BY WithQueue
    <3>2. QED
      BY <3>1 DEF tail
  <2>2. sdu \in Sdu(M) /\ Tail(b.inbox) \in Seq(Sdu(M))
    BY <1>1, <1>4
  <2>3. sdu \in Seq(M) /\ sdu # <<>>
    BY <2>2 DEF Sdu
  <2>4. c \in TransportState(M) /\ ~c.down /\ c.rx = <<>> /\ c.sec = b.sec
        /\ c.active = b.active /\ c.deferred = b.deferred /\ c.up = b.up
        /\ c.inbox = Tail(b.inbox)
    BY <1>4, <2>1, <2>2 DEF TransportState
  <2>5. q = Unsealed(c, sdu)
    BY <1>4 DEF Pump
  <2> HIDE DEF c, sdu
  <2>6. Progress(q, c, sdu, Len(sdu), M)
    BY <2>3, <2>4, <2>5, UnsealedFacts
  <2> HIDE DEF q
  <2>7. SameOwner(q, b) /\ q \in TransportState(M)
    BY <2>4, <2>6 DEF Progress, SameOwner
  <2>8. q.rx \in Seq(M)
    BY <2>7 DEF TransportState
  <2>9. CASE q.down
    <3>1. R = [ble |-> q, msg |-> NoMessage]
      BY <1>4, <2>9 DEF Received, q
    <3>2. R.ble = q /\ R.msg = NoMessage
      BY <3>1
    <3>3. GaveOut(q, b)
      BY <1>4, <2>6, <2>9 DEF Progress, GaveOut, sdu
    <3>4. ~q.up
      BY <3>3 DEF GaveOut
    <3> HIDE DEF R
    <3>5. QED
      BY <1>4, <2>7, <3>2, <3>3, <3>4 DEF Reception, R
  <2>10. CASE ~q.down
    <3>1. /\ q.up = b.up /\ q.inbox = Tail(b.inbox) /\ Len(q.rx) = Len(sdu)
          /\ \A i \in 1 .. Len(q.rx) : q.rx[i] = Cleared(sdu[i])
          /\ b.sec.secured => CounterAfter(q, c, sdu, Len(sdu))
      BY <2>4, <2>6, <2>10 DEF Progress
    <3>2. q.rx # <<>> /\ Len(sdu) \in Nat \ {0}
      BY <2>3, <2>8, <3>1
    <3> DEFINE p == [q EXCEPT !.rx = Tail(q.rx)]
    <3>3. R = [ble |-> p, msg |-> q.rx[1]]
      BY <1>4, <2>10, <3>2 DEF Received, q
    <3>4. R.ble = p /\ R.msg = q.rx[1]
      BY <3>3
    <3>5. p = [up |-> q.up, full |-> q.full, inbox |-> q.inbox, down |-> q.down,
               active |-> q.active, sec |-> q.sec, rx |-> Tail(q.rx),
               deferred |-> q.deferred]
      <4> DEFINE tail == Tail(q.rx)
      <4> HIDE DEF tail
      <4>1. [q EXCEPT !.rx = tail]
              = [up |-> q.up, full |-> q.full, inbox |-> q.inbox, down |-> q.down,
                 active |-> q.active, sec |-> q.sec, rx |-> tail,
                 deferred |-> q.deferred]
        BY <2>7, WithQueue
      <4>2. QED
        BY <4>1 DEF tail
    <3>6. /\ Tail(q.rx) \in Seq(M) /\ Len(Tail(q.rx)) + 1 = Len(sdu)
          /\ \A i \in 1 .. Len(Tail(q.rx)) :
               i + 1 \in 1 .. Len(q.rx) /\ Tail(q.rx)[i] = q.rx[i + 1]
          /\ q.rx[1] \in M
      BY <2>8, <3>1, <3>2
    <3> HIDE DEF p
    <3>7. /\ p \in TransportState(M) /\ p.up = q.up /\ p.inbox = q.inbox
          /\ p.down = q.down /\ p.active = q.active /\ p.sec = q.sec
          /\ p.rx = Tail(q.rx) /\ p.deferred = q.deferred
      BY <2>7, <3>5, <3>6 DEF TransportState
    <3>8. q.rx[1] = Cleared(sdu[1])
      BY <3>1, <3>2
    <3>9. \A i \in 1 .. Len(p.rx) : p.rx[i] = Cleared(sdu[i + 1])
      BY <3>1, <3>6, <3>7
    <3>10. b.sec.secured => CounterAfter(p, b, sdu, Len(sdu))
      BY <2>4, <3>1, <3>7 DEF CounterAfter
    <3>11. Unpacked(p, b, q.rx[1])
      BY <1>4, <2>3, <2>10, <3>1, <3>6, <3>7, <3>8, <3>9, <3>10 DEF Unpacked, sdu
    <3>12. q.rx[1].kind # "none"
      BY <3>6 DEF Openable
    <3>13. SameOwner(p, b)
      BY <2>7, <3>7 DEF SameOwner
    <3> HIDE DEF R
    <3>14. QED
      BY <1>4, <2>10, <3>1, <3>4, <3>6, <3>7, <3>11, <3>12, <3>13
         DEF Reception, R
  <2>11. QED
    BY <2>9, <2>10
<1>5. QED
  BY <1>2, <1>3, <1>4

-----------------------------------------------------------------------------
(***************************************************************************)
(* The messages not yet handled, in their order: segment 0 is rx, segment  *)
(* a > 0 the SDU at place a of the inbox.                                  *)
(***************************************************************************)
Segments(b) == 0 .. Len(b.inbox)

Segment(b, a) == IF a = 0 THEN b.rx ELSE b.inbox[a]

\* What holds of a message x and a later one y: unsolicited messages are numbered
\* upwards, and (if single) there is one answer at most.
Follows(single, x, y) ==
  /\ x.kind # "AP_RS" /\ y.kind # "AP_RS" => x.n < y.n
  /\ single => ~(x.kind = "AP_RS" /\ y.kind = "AP_RS")

Sequenced(b, single) ==
  \A a, c \in Segments(b) :
    \A i \in DOMAIN Segment(b, a), k \in DOMAIN Segment(b, c) :
      a < c \/ (a = c /\ i < k) =>
        Follows(single, Segment(b, a)[i], Segment(b, c)[k])

\* Message x comes before everything in b.
Precedes(single, x, b) ==
  \A a \in Segments(b) : \A i \in DOMAIN Segment(b, a) :
    Follows(single, x, Segment(b, a)[i])

\* Message x is in b, or was before it was opened.
Holds(b, x) ==
  \E a \in Segments(b) : \E i \in DOMAIN Segment(b, a) :
    x = Segment(b, a)[i] \/ x = Cleared(Segment(b, a)[i])

\* Opening messages does not change how they follow.
LEMMA FollowsCleared ==
  ASSUME NEW M, Openable(M), NEW s, NEW x \in M, NEW y \in M, Follows(s, x, y)
  PROVE  Follows(s, Cleared(x), Cleared(y)) /\ Follows(s, Cleared(x), y)
BY DEF Openable, Follows

LEMMA SegmentFacts ==
  ASSUME NEW M, NEW b \in TransportState(M)
  PROVE  /\ Len(b.inbox) \in Nat
         /\ b.rx \in Seq(M) /\ b.inbox \in Seq(Sdu(M))
         /\ \A a \in Segments(b) :
              /\ Segment(b, a) \in Seq(M)
              /\ \A i \in DOMAIN Segment(b, a) : Segment(b, a)[i] \in M
<1>1. b.rx \in Seq(M) /\ b.inbox \in Seq(Sdu(M)) /\ Len(b.inbox) \in Nat
  BY DEF TransportState
<1>2. ASSUME NEW a \in Segments(b) PROVE Segment(b, a) \in Seq(M)
  <2>1. CASE a = 0
    BY <1>1, <2>1 DEF Segment
  <2>2. CASE a # 0
    <3>1. a \in 1 .. Len(b.inbox)
      BY <1>1, <2>2 DEF Segments
    <3>2. b.inbox[a] \in Sdu(M)
      BY <1>1, <3>1
    <3>3. QED
      BY <2>2, <3>2 DEF Segment, Sdu
  <2>3. QED
    BY <2>1, <2>2
<1>3. ASSUME NEW q \in Seq(M) PROVE \A i \in DOMAIN q : q[i] \in M
  OBVIOUS
<1>4. QED
  BY <1>1, <1>2, <1>3

\* How the places of p are places of b, in each case of a reception.
LEMMA PoppedPlaces ==
  ASSUME NEW M, NEW b \in TransportState(M), NEW p, NEW m, Popped(p, b, m)
  PROVE  /\ Segments(p) = Segments(b) /\ p.inbox = b.inbox /\ p.sec = b.sec
         /\ 0 \in Segments(b) /\ 1 \in DOMAIN Segment(b, 0) /\ m = Segment(b, 0)[1]
         /\ \A i \in DOMAIN Segment(p, 0) :
              /\ i + 1 \in DOMAIN Segment(b, 0) /\ i \in Nat /\ i + 1 > 1
              /\ Segment(p, 0)[i] = Segment(b, 0)[i + 1]
         /\ \A a \in Segments(p) : a # 0 => Segment(p, a) = Segment(b, a)
<1> DEFINE tail == Tail(b.rx)
<1>1. /\ b.rx \in Seq(M) /\ b.rx # <<>> /\ m = b.rx[1] /\ p = [b EXCEPT !.rx = tail]
      /\ Len(b.inbox) \in Nat
  BY SegmentFacts DEF Popped
<1>2. \A i \in DOMAIN tail : i \in Nat /\ i + 1 > 1 /\ i + 1 \in DOMAIN b.rx
                              /\ tail[i] = b.rx[i + 1]
  BY <1>1
<1> HIDE DEF tail
<1>3. p.rx = tail /\ p.inbox = b.inbox /\ p.sec = b.sec
  BY <1>1, WithQueue
<1>4. 1 \in DOMAIN b.rx
  BY <1>1
<1>5. QED
  BY <1>1, <1>2, <1>3, <1>4 DEF Segments, Segment

LEMMA UnpackedPlaces ==
  ASSUME NEW M, NEW b \in TransportState(M), NEW p \in TransportState(M), NEW m,
         Unpacked(p, b, m)
  PROVE  /\ 1 \in Segments(b) /\ 1 \in DOMAIN Segment(b, 1)
         /\ m = Cleared(Segment(b, 1)[1])
         /\ \A i \in DOMAIN Segment(p, 0) :
              /\ i + 1 \in DOMAIN Segment(b, 1) /\ i \in Nat /\ i + 1 > 1
              /\ Segment(p, 0)[i] = Cleared(Segment(b, 1)[i + 1])
         /\ \A a \in Segments(p) :
              a # 0 => a \in Nat /\ a + 1 \in Segments(b) /\ a + 1 > 1
                       /\ Segment(p, a) = Segment(b, a + 1)
<1> DEFINE sdu == b.inbox[1]
           tail == Tail(b.inbox)
<1>1. /\ b.inbox \in Seq(Sdu(M)) /\ b.inbox # <<>> /\ p.rx \in Seq(M)
      /\ Len(p.rx) + 1 = Len(sdu) /\ m = Cleared(sdu[1]) /\ p.inbox = tail
      /\ \A i \in 1 .. Len(p.rx) : p.rx[i] = Cleared(sdu[i + 1])
  BY SegmentFacts DEF Unpacked
<1>2. sdu \in Sdu(M) /\ 1 \in 1 .. Len(b.inbox)
  BY <1>1
<1>3. sdu \in Seq(M) /\ sdu # <<>>
  BY <1>2 DEF Sdu
<1>4. 1 \in DOMAIN sdu
  BY <1>3
<1>5. \A i \in DOMAIN p.rx : i \in Nat /\ i + 1 > 1 /\ i + 1 \in DOMAIN sdu
                              /\ p.rx[i] = Cleared(sdu[i + 1])
  <2> HIDE DEF sdu
  <2>1. /\ Len(p.rx) \in Nat /\ DOMAIN p.rx = 1 .. Len(p.rx)
        /\ DOMAIN sdu = 1 .. Len(p.rx) + 1
    BY <1>1, <1>3
  <2>2. ASSUME NEW i \in DOMAIN p.rx
        PROVE  i \in Nat /\ i + 1 > 1 /\ i + 1 \in DOMAIN sdu
    BY <2>1
  <2>3. QED
    BY <1>1, <2>1, <2>2
<1>6. /\ Len(tail) = Len(b.inbox) - 1
      /\ \A a \in 1 .. Len(tail) : tail[a] = b.inbox[a + 1]
  BY <1>1
<1>7. Len(b.inbox) \in Nat
  BY <1>1
<1>8. Segment(b, 1) = sdu /\ Segment(p, 0) = p.rx
  BY DEF Segment
<1>9. ASSUME NEW a \in Segments(p), a # 0
      PROVE  a \in Nat /\ a + 1 \in Segments(b) /\ a + 1 > 1
             /\ Segment(p, a) = Segment(b, a + 1)
  <2> HIDE DEF tail, sdu
  <2>1. a \in 1 .. Len(tail)
    BY <1>1, <1>6, <1>7, <1>9 DEF Segments
  <2>2. QED
    BY <1>1, <1>6, <1>7, <2>1 DEF Segments, Segment
<1> HIDE DEF sdu
<1>10. QED
  BY <1>1, <1>2, <1>4, <1>5, <1>8, <1>9 DEF Segments

LEMMA GaveOutPlaces ==
  ASSUME NEW M, NEW b \in TransportState(M), NEW p \in TransportState(M),
         GaveOut(p, b)
  PROVE  /\ Segments(p) = {0} /\ 1 \in Segments(b)
         /\ \A i \in DOMAIN Segment(p, 0) :
              /\ i \in DOMAIN Segment(b, 1)
              /\ Segment(p, 0)[i] = Cleared(Segment(b, 1)[i])
<1> DEFINE sdu == b.inbox[1]
<1>1. /\ b.inbox \in Seq(Sdu(M)) /\ b.inbox # <<>> /\ p.rx \in Seq(M)
      /\ Len(p.rx) <= Len(sdu) /\ p.inbox = <<>>
      /\ \A i \in 1 .. Len(p.rx) : p.rx[i] = Cleared(sdu[i])
  BY SegmentFacts DEF GaveOut
<1>2. sdu \in Sdu(M) /\ 1 \in 1 .. Len(b.inbox)
  BY <1>1
<1>3. sdu \in Seq(M)
  BY <1>2 DEF Sdu
<1>4. \A i \in DOMAIN p.rx : i \in DOMAIN sdu /\ p.rx[i] = Cleared(sdu[i])
  <2> HIDE DEF sdu
  <2>1. QED
    BY <1>1, <1>3
<1>5. Segments(p) = {0}
  BY <1>1 DEF Segments
<1>6. 1 \in Segments(b)
  BY <1>2 DEF Segments
<1>7. QED
  BY <1>4, <1>5, <1>6 DEF Segment

\* receive takes the first message there is, and keeps the others in their order.
LEMMA ReceptionInOrder ==
  ASSUME NEW M, Openable(M), NEW b \in TransportState(M),
         NEW p \in TransportState(M), NEW m, Reception(p, b, m),
         NEW s, Sequenced(b, s)
  PROVE  Sequenced(p, s) /\ (m # NoMessage => Precedes(s, m, p))
<1>1. \A a \in Segments(b) : \A i \in DOMAIN Segment(b, a) : Segment(b, a)[i] \in M
  BY SegmentFacts
<1>2. CASE Popped(p, b, m)
  <2>1. /\ Segments(p) = Segments(b)
        /\ 0 \in Segments(b) /\ 1 \in DOMAIN Segment(b, 0) /\ m = Segment(b, 0)[1]
        /\ \A i \in DOMAIN Segment(p, 0) :
              /\ i + 1 \in DOMAIN Segment(b, 0) /\ i \in Nat /\ i + 1 > 1
              /\ Segment(p, 0)[i] = Segment(b, 0)[i + 1]
        /\ \A a \in Segments(p) : a # 0 => Segment(p, a) = Segment(b, a)
    BY <1>2, PoppedPlaces
  <2>2. ASSUME NEW a \in Segments(p), NEW c \in Segments(p),
               NEW i \in DOMAIN Segment(p, a), NEW k \in DOMAIN Segment(p, c),
               a < c \/ (a = c /\ i < k)
        PROVE  Follows(s, Segment(p, a)[i], Segment(p, c)[k])
    <3>1. CASE a = 0 /\ c = 0
      BY <2>1, <2>2, <3>1 DEF Sequenced
    <3>2. CASE a = 0 /\ c # 0
      BY <2>1, <2>2, <3>2 DEF Sequenced
    <3>3. CASE a # 0 /\ c # 0
      BY <2>1, <2>2, <3>3 DEF Sequenced
    <3>4. CASE a # 0 /\ c = 0
      BY <2>2, <3>4 DEF Segments
    <3>5. QED
      BY <3>1, <3>2, <3>3, <3>4
  <2>3. ASSUME NEW a \in Segments(p), NEW i \in DOMAIN Segment(p, a)
        PROVE  Follows(s, m, Segment(p, a)[i])
    <3>1. CASE a = 0
      BY <2>1, <2>3, <3>1 DEF Sequenced
    <3>2. CASE a # 0
      <4>1. 0 < a
        BY <3>2 DEF Segments
      <4>2. QED
        BY <2>1, <2>3, <3>2, <4>1 DEF Sequenced
    <3>3. QED
      BY <3>1, <3>2
  <2>4. QED
    BY <2>2, <2>3 DEF Sequenced, Precedes
<1>3. CASE Unpacked(p, b, m)
  <2>1. /\ 1 \in Segments(b) /\ 1 \in DOMAIN Segment(b, 1)
        /\ m = Cleared(Segment(b, 1)[1])
        /\ \A i \in DOMAIN Segment(p, 0) :
              /\ i + 1 \in DOMAIN Segment(b, 1) /\ i \in Nat /\ i + 1 > 1
              /\ Segment(p, 0)[i] = Cleared(Segment(b, 1)[i + 1])
        /\ \A a \in Segments(p) :
              a # 0 => a \in Nat /\ a + 1 \in Segments(b) /\ a + 1 > 1
                       /\ Segment(p, a) = Segment(b, a + 1)
    BY <1>3, UnpackedPlaces
  <2>2. ASSUME NEW a \in Segments(p), NEW c \in Segments(p),
               NEW i \in DOMAIN Segment(p, a), NEW k \in DOMAIN Segment(p, c),
               a < c \/ (a = c /\ i < k)
        PROVE  Follows(s, Segment(p, a)[i], Segment(p, c)[k])
    <3>1. CASE a = 0 /\ c = 0
      <4>1. /\ i + 1 \in DOMAIN Segment(b, 1) /\ k + 1 \in DOMAIN Segment(b, 1)
            /\ i + 1 < k + 1
        BY <2>1, <2>2, <3>1
      <4>2. Follows(s, Segment(b, 1)[i + 1], Segment(b, 1)[k + 1])
        BY <2>1, <4>1 DEF Sequenced
      <4>3. QED
        BY <1>1, <2>1, <3>1, <4>1, <4>2, FollowsCleared
    <3>2. CASE a = 0 /\ c # 0
      <4>1. /\ i + 1 \in DOMAIN Segment(b, 1) /\ c + 1 \in Segments(b)
            /\ 1 < c + 1 /\ k \in DOMAIN Segment(b, c + 1)
        BY <2>1, <2>2, <3>2
      <4>2. Follows(s, Segment(b, 1)[i + 1], Segment(b, c + 1)[k])
        BY <2>1, <4>1 DEF Sequenced
      <4>3. QED
        BY <1>1, <2>1, <3>2, <4>1, <4>2, FollowsCleared
    <3>3. CASE a # 0 /\ c # 0
      <4>1. /\ a + 1 \in Segments(b) /\ c + 1 \in Segments(b)
            /\ a + 1 < c + 1 \/ (a + 1 = c + 1 /\ i < k)
            /\ Segment(p, a) = Segment(b, a + 1)
            /\ Segment(p, c) = Segment(b, c + 1)
        BY <2>1, <2>2, <3>3
      <4>2. QED
        BY <4>1 DEF Sequenced
    <3>4. CASE a # 0 /\ c = 0
      BY <2>2, <3>4 DEF Segments
    <3>5. QED
      BY <3>1, <3>2, <3>3, <3>4
  <2>3. ASSUME NEW a \in Segments(p), NEW i \in DOMAIN Segment(p, a)
        PROVE  Follows(s, m, Segment(p, a)[i])
    <3>1. CASE a = 0
      <4>1. Follows(s, Segment(b, 1)[1], Segment(b, 1)[i + 1])
        BY <2>1, <3>1 DEF Sequenced
      <4>2. QED
        BY <1>1, <2>1, <3>1, <4>1, FollowsCleared
    <3>2. CASE a # 0
      <4>1. Follows(s, Segment(b, 1)[1], Segment(b, a + 1)[i])
        BY <2>1, <3>2 DEF Sequenced
      <4>2. QED
        BY <1>1, <2>1, <3>2, <4>1, FollowsCleared
    <3>3. QED
      BY <3>1, <3>2
  <2>4. QED
    BY <2>2, <2>3 DEF Sequenced, Precedes
<1>4. CASE m = NoMessage /\ FoundNothing(p, b)
  BY <1>4 DEF FoundNothing, Sequenced, Segments, Segment
<1>5. CASE m = NoMessage /\ GaveOut(p, b)
  <2>1. /\ Segments(p) = {0} /\ 1 \in Segments(b)
        /\ \A i \in DOMAIN Segment(p, 0) :
              /\ i \in DOMAIN Segment(b, 1)
              /\ Segment(p, 0)[i] = Cleared(Segment(b, 1)[i])
    BY <1>5, GaveOutPlaces
  <2>2. ASSUME NEW i \in DOMAIN Segment(p, 0), NEW k \in DOMAIN Segment(p, 0), i < k
        PROVE  Follows(s, Segment(p, 0)[i], Segment(p, 0)[k])
    <3>1. Follows(s, Segment(b, 1)[i], Segment(b, 1)[k])
      BY <2>1, <2>2 DEF Sequenced
    <3>2. QED
      BY <1>1, <2>1, <2>2, <3>1, FollowsCleared
  <2>3. QED
    BY <1>5, <2>1, <2>2 DEF Sequenced
<1>6. QED
  BY <1>2, <1>3, <1>4, <1>5 DEF Reception

\* What it leaves, and what it returns, was there.
LEMMA ReceptionOfHeld ==
  ASSUME NEW M, NEW b \in TransportState(M), NEW p \in TransportState(M), NEW m,
         Reception(p, b, m)
  PROVE  /\ m # NoMessage => Holds(b, m)
         /\ \A a \in Segments(p) : \A i \in DOMAIN Segment(p, a) :
              Holds(b, Segment(p, a)[i])
<1>1. CASE Popped(p, b, m)
  BY <1>1, PoppedPlaces DEF Holds
<1>2. CASE Unpacked(p, b, m)
  BY <1>2, UnpackedPlaces DEF Holds
<1>3. CASE m = NoMessage /\ FoundNothing(p, b)
  BY <1>3 DEF FoundNothing, Segments, Segment, Holds
<1>4. CASE m = NoMessage /\ GaveOut(p, b)
  BY <1>4, GaveOutPlaces DEF Holds
<1>5. QED
  BY <1>1, <1>2, <1>3, <1>4 DEF Reception

-----------------------------------------------------------------------------
\* The message at (a, i) is the last in the inbox that has to be sealed.
LastOfInbox(b, a, i) ==
  /\ ~IsAp(b.inbox[a][i].kind)
  /\ \A c \in 1 .. Len(b.inbox) : \A l \in DOMAIN b.inbox[c] :
       a < c \/ (a = c /\ i < l) => IsAp(b.inbox[c][l].kind)

\* The device's next counter k continues the inbox, or what was received last.
Continues(b, k) ==
  /\ \A a \in 1 .. Len(b.inbox) : \A i \in DOMAIN b.inbox[a] :
       LastOfInbox(b, a, i) => k = b.inbox[a][i].c + 1
  /\ (\A a \in 1 .. Len(b.inbox) : \A i \in DOMAIN b.inbox[a] :
         IsAp(b.inbox[a][i].kind)) => k = b.sec.counter["device"]

\* An SDU has a last message that has to be sealed, or none.
LEMMA LastSealedExists ==
  ASSUME NEW sdu, Len(sdu) \in Nat, \E j \in 1 .. Len(sdu) : ~IsAp(sdu[j].kind)
  PROVE  \E j \in 1 .. Len(sdu) : LastSealed(sdu, Len(sdu), j)
<1> DEFINE N == Len(sdu)
           T == {d \in 0 .. N : N - d \in 1 .. N /\ ~IsAp(sdu[N - d].kind)}
<1>1. T # {}
  <2>1. PICK j \in 1 .. N : ~IsAp(sdu[j].kind)
    OBVIOUS
  <2>2. N - j \in 0 .. N /\ N - (N - j) = j
    BY <2>1
  <2>3. N - j \in T
    BY <2>1, <2>2
  <2>4. QED
    BY <2>3
<1>2. PICK d \in T : \A e \in T : d <= e
  <2>1. T \subseteq Nat
    OBVIOUS
  <2> HIDE DEF T
  <2>2. QED
    BY <1>1, <2>1, LeastNatural
<1>3. ASSUME NEW l \in (N - d) + 1 .. N PROVE IsAp(sdu[l].kind)
  <2>1. N - l \in 0 .. N /\ N - (N - l) = l /\ l \in 1 .. N /\ ~(d <= N - l)
    BY <1>2
  <2>2. N - l \notin T
    BY <1>2, <2>1
  <2>3. QED
    BY <2>1, <2>2
<1>4. N - d \in 1 .. N /\ ~IsAp(sdu[N - d].kind)
  BY <1>2
<1>5. LastSealed(sdu, N, N - d)
  BY <1>3, <1>4 DEF LastSealed
<1>6. QED
  BY <1>4, <1>5

\* A reception after which the link is still up keeps the two ends' counters
\* continuous.
LEMMA ReceptionContinues ==
  ASSUME NEW M, NEW b \in TransportState(M), NEW p \in TransportState(M), NEW m,
         NEW k, Reception(p, b, m), b.sec.secured, p.up, Continues(b, k)
  PROVE  Continues(p, k)
<1>1. CASE Popped(p, b, m)
  <2>1. p.inbox = b.inbox /\ p.sec = b.sec
    BY <1>1, PoppedPlaces
  <2>2. QED
    BY <2>1 DEF Continues, LastOfInbox
<1>2. CASE m = NoMessage /\ FoundNothing(p, b)
  BY <1>2 DEF FoundNothing, Continues, LastOfInbox
<1>3. CASE m = NoMessage /\ GaveOut(p, b)
  BY <1>3 DEF GaveOut
<1>4. CASE Unpacked(p, b, m)
  <2> DEFINE sdu == b.inbox[1]
             tail == Tail(b.inbox)
  <2>1. b.inbox \in Seq(Sdu(M)) /\ b.inbox # <<>> /\ p.inbox = tail
        /\ CounterAfter(p, b, sdu, Len(sdu))
    BY <1>4 DEF Unpacked, TransportState
  <2>2. sdu \in Sdu(M)
    BY <2>1
  <2>3. sdu \in Seq(M)
    BY <2>2 DEF Sdu
  <2>4. Len(sdu) \in Nat /\ DOMAIN sdu = 1 .. Len(sdu)
    <3> HIDE DEF sdu
    <3>1. QED
      BY <2>3
  <2>5. /\ Len(b.inbox) \in Nat /\ Len(tail) = Len(b.inbox) - 1
        /\ \A a \in 1 .. Len(tail) : tail[a] = b.inbox[a + 1]
    BY <2>1
  <2>6. \A a \in 1 .. Len(tail) : a + 1 \in 1 .. Len(b.inbox) /\ a \in Nat
    BY <2>5
  <2>7. \A c \in 1 .. Len(b.inbox) : c = 1 \/ (c - 1 \in 1 .. Len(tail) /\ (c - 1) + 1 = c)
    BY <2>5
  <2>8. 1 \in 1 .. Len(b.inbox)
    BY <2>1
  <2> HIDE DEF tail, sdu
  <2>9. ASSUME NEW a \in 1 .. Len(tail), NEW i \in DOMAIN tail[a],
               LastOfInbox(p, a, i)
        PROVE  k = tail[a][i].c + 1
    <3>1. tail[a] = b.inbox[a + 1] /\ a + 1 \in 1 .. Len(b.inbox)
      BY <2>5, <2>6
    <3>2. ASSUME NEW c \in 1 .. Len(b.inbox), NEW l \in DOMAIN b.inbox[c],
                 a + 1 < c \/ (a + 1 = c /\ i < l)
          PROVE  IsAp(b.inbox[c][l].kind)
      <4>1. c # 1 /\ c - 1 \in 1 .. Len(tail) /\ (c - 1) + 1 = c
        BY <2>6, <2>7, <3>2
      <4>2. tail[c - 1] = b.inbox[c]
        BY <2>5, <4>1
      <4>3. a < c - 1 \/ (a = c - 1 /\ i < l)
        BY <2>6, <3>2, <4>1
      <4>4. QED
        BY <2>1, <2>9, <3>2, <4>1, <4>2, <4>3 DEF LastOfInbox
    <3>3. LastOfInbox(b, a + 1, i)
      BY <2>1, <2>9, <3>1, <3>2 DEF LastOfInbox
    <3>4. QED
      BY <3>1, <3>3 DEF Continues
  <2>10. ASSUME \A a \in 1 .. Len(tail) : \A i \in DOMAIN tail[a] :
                  IsAp(tail[a][i].kind)
         PROVE  k = p.sec.counter["device"]
    <3>1. \A c \in 1 .. Len(b.inbox) : c # 1 =>
            \A l \in DOMAIN b.inbox[c] : IsAp(b.inbox[c][l].kind)
      <4>1. SUFFICES ASSUME NEW c \in 1 .. Len(b.inbox), c # 1,
                            NEW l \in DOMAIN b.inbox[c]
                     PROVE  IsAp(b.inbox[c][l].kind)
        OBVIOUS
      <4>2. c - 1 \in 1 .. Len(tail) /\ (c - 1) + 1 = c
        BY <2>7, <4>1
      <4>3. tail[c - 1] = b.inbox[c]
        BY <2>5, <4>2
      <4>4. QED
        BY <2>10, <4>2, <4>3
    <3>2. CASE \A j \in 1 .. Len(sdu) : IsAp(sdu[j].kind)
      <4>1. p.sec.counter["device"] = b.sec.counter["device"]
        BY <2>1, <3>2 DEF CounterAfter
      <4>2. k = b.sec.counter["device"]
        BY <2>4, <3>1, <3>2 DEF Continues, sdu
      <4>3. QED
        BY <4>1, <4>2
    <3>3. CASE \E j \in 1 .. Len(sdu) : ~IsAp(sdu[j].kind)
      <4>1. PICK j \in 1 .. Len(sdu) : LastSealed(sdu, Len(sdu), j)
        BY <2>4, <3>3, LastSealedExists
      <4>2. p.sec.counter["device"] = sdu[j].c + 1
        BY <2>1, <4>1 DEF CounterAfter
      <4>3. \A l \in DOMAIN sdu : j < l => IsAp(sdu[l].kind)
        BY <2>4, <4>1 DEF LastSealed
      <4>4. LastOfInbox(b, 1, j)
        BY <3>1, <4>1, <4>3 DEF LastOfInbox, LastSealed, sdu
      <4>5. k = sdu[j].c + 1
        BY <2>4, <2>8, <4>4 DEF Continues, sdu
      <4>6. QED
        BY <4>2, <4>5
    <3>4. QED
      BY <3>2, <3>3
  <2>11. QED
    BY <2>1, <2>9, <2>10 DEF Continues
<1>5. QED
  BY <1>1, <1>2, <1>3, <1>4 DEF Reception
=============================================================================
