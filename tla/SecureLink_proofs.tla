-------------------------- MODULE SecureLink_proofs --------------------------
(***************************************************************************)
(* Proofs about SecureLink, for every set of payloads and every limit.     *)
(***************************************************************************)
EXTENDS SecureLink, SequenceTheorems, TLAPS

\* The two roles are each other's peers.
LEMMA RoleFacts ==
  /\ "reader" \in Role /\ "device" \in Role
  /\ \A r \in Role : Peer(r) \in Role /\ Peer(r) # r /\ Peer(Peer(r)) = r
  /\ \A r, q \in Role : q # r => q = Peer(r)
BY DEF Role, Peer

\* What appending one element to one role's sequence does, and leaves alone.
LEMMA AppendFacts ==
  ASSUME NEW S, NEW f \in [Role -> Seq(S)], NEW r \in Role, NEW e \in S
  PROVE  LET g == [f EXCEPT ![r] = Append(@, e)]
             n == Len(f[r]) + 1
         IN  /\ g \in [Role -> Seq(S)]
             /\ n \in Nat /\ n \in DOMAIN g[r] /\ g[r][n] = e
             /\ Len(g[r]) = n
             /\ \A q \in Role : q # r => g[q] = f[q]
             /\ \A q \in Role : \A i \in DOMAIN f[q] :
                  i \in DOMAIN g[q] /\ g[q][i] = f[q][i]
             /\ \A q \in Role : \A i \in DOMAIN g[q] :
                  i \in DOMAIN f[q] \/ (q = r /\ i = n)
<1> DEFINE g == [f EXCEPT ![r] = Append(@, e)]
           n == Len(f[r]) + 1
<1>1. g \in [Role -> Seq(S)] /\ g[r] = Append(f[r], e) /\ f[r] \in Seq(S)
  OBVIOUS
<1>2. \A q \in Role : q # r => g[q] = f[q]
  OBVIOUS
<1>3. n \in Nat /\ n \in DOMAIN g[r] /\ g[r][n] = e /\ Len(g[r]) = n
  BY <1>1
<1>4. \A i \in DOMAIN f[r] : i \in DOMAIN g[r] /\ g[r][i] = f[r][i]
  BY <1>1
<1>5. \A i \in DOMAIN g[r] : i \in DOMAIN f[r] \/ i = n
  BY <1>1
<1>6. \A q \in Role : \A i \in DOMAIN f[q] : i \in DOMAIN g[q] /\ g[q][i] = f[q][i]
  BY <1>2, <1>4
<1>7. \A q \in Role : \A i \in DOMAIN g[q] : i \in DOMAIN f[q] \/ (q = r /\ i = n)
  BY <1>2, <1>5
<1>8. QED
  BY <1>1, <1>2, <1>3, <1>6, <1>7

\* One use of a counter moves that counter, and only that one, by one.
LEMMA UseCounterFacts ==
  ASSUME NEW s \in SecurityState, NEW d \in Role
  PROVE  LET t == UseCounter(s, d)
         IN  /\ t \in SecurityState
             /\ t.counter[d] = s.counter[d] + 1
             /\ \A e \in Role : e # d => t.counter[e] = s.counter[e]
             /\ t.secured = s.secured
             /\ t.aborted <=> s.aborted \/ s.counter[d] + 1 > MaxCounter
<1> DEFINE t == UseCounter(s, d)
<1>1. t.counter = [s.counter EXCEPT ![d] = @ + 1]
  BY DEF UseCounter, SecurityState
<1>2. t.secured = s.secured
  BY DEF UseCounter, SecurityState
<1>3. t.aborted <=> s.aborted \/ s.counter[d] + 1 > MaxCounter
  BY DEF UseCounter, SecurityState
<1>4. t \in SecurityState
  <2>1. (s.aborted \/ s.counter[d] + 1 > MaxCounter) \in BOOLEAN
    OBVIOUS
  <2>2. [s.counter EXCEPT ![d] = @ + 1] \in [Role -> Nat \ {0}]
    BY DEF SecurityState
  <2>3. s.secured \in BOOLEAN
    BY DEF SecurityState
  <2>4. QED
    BY <2>1, <2>2, <2>3 DEF UseCounter, SecurityState
<1>5. QED
  BY <1>1, <1>2, <1>3, <1>4 DEF SecurityState

\* Aborting leaves the counters alone.
LEMMA AbortFacts ==
  ASSUME NEW s \in SecurityState
  PROVE  /\ Abort(s) \in SecurityState
         /\ Abort(s).counter = s.counter
         /\ Abort(s).aborted
BY DEF Abort, SecurityState

\* Sealing either leaves the object alone or uses its own counter once.
LEMMA SealFacts ==
  ASSUME NEW s \in SecurityState, NEW r \in Role, NEW ap
  PROVE  LET t == AfterSeal(s, r, ap, FALSE)
             c == SealedUnder(s, r, ap)
         IN  /\ c = Clear => t = s
             /\ c # Clear => c = s.counter[r] /\ t = UseCounter(s, r)
             /\ c \in Nat
<1>1. s.counter[r] \in Nat /\ s.counter[r] # Clear
  BY DEF SecurityState, Clear
<1>2. CASE Exempt(s, ap)
  BY <1>2 DEF AfterSeal, SealedUnder, Clear
<1>3. CASE ~Exempt(s, ap)
  BY <1>1, <1>3 DEF AfterSeal, SealedUnder, SealFails
<1>4. QED
  BY <1>2, <1>3

\* Unsealing leaves the object alone, aborts it, or uses the peer's counter
\* once - the last only for a payload sealed under exactly that counter.
LEMMA UnsealFacts ==
  ASSUME NEW s \in SecurityState, NEW r \in Role, NEW ap, NEW c
  PROVE  LET t == AfterUnseal(s, r, ap, c)
             failed == UnsealFails(s, r, ap, c)
         IN  /\ Exempt(s, ap) => ~failed /\ t = s
             /\ failed => t = Abort(s)
             /\ ~failed /\ ~Exempt(s, ap) =>
                  /\ c = s.counter[Peer(r)]
                  /\ c # Clear
                  /\ t = UseCounter(s, Peer(r))
<1>1. s.counter[Peer(r)] # Clear
  BY RoleFacts DEF SecurityState, Clear
<1>2. CASE Exempt(s, ap)
  BY <1>2 DEF AfterUnseal, UnsealFails
<1>3. CASE ~Exempt(s, ap)
  BY <1>1, <1>3 DEF AfterUnseal, UnsealFails
<1>4. QED
  BY <1>2, <1>3

-----------------------------------------------------------------------------
\* A payload accepted at q has a position in what its peer has protected.
LEMMA AcceptedDomain ==
  ASSUME TypeOK, AcceptedIsPrefix, NEW q \in Role
  PROVE  DOMAIN accepted[q] \subseteq DOMAIN protected[Peer(q)]
<1>1. Peer(q) \in Role
  BY RoleFacts
<1>2. /\ accepted[q] \in Seq(Payload) /\ Len(accepted[q]) \in Nat
      /\ DOMAIN accepted[q] = 1 .. Len(accepted[q])
  BY DEF TypeOK
<1>3. /\ Len(protected[Peer(q)]) \in Nat
      /\ DOMAIN protected[Peer(q)] = 1 .. Len(protected[Peer(q)])
  BY <1>1 DEF TypeOK
<1>4. QED
  BY <1>2, <1>3 DEF AcceptedIsPrefix

\* Nothing is sealed, sent or accepted at first.
LEMMA InitInv == Init => IInv
<1> SUFFICES ASSUME Init PROVE IInv
  OBVIOUS
<1>1. FreshSecurity \in SecurityState
  BY DEF FreshSecurity, SecurityState
<1>2. TypeOK
  BY <1>1 DEF Init, TypeOK
<1>3. CounterTracksHistory
  BY MaxCounterAssumption, RoleFacts DEF Init, CounterTracksHistory, FreshSecurity
<1>4. CounterIsPosition /\ WireMatchesHistory
  BY DEF Init, CounterIsPosition, WireMatchesHistory
<1>5. AcceptedIsPrefix
  BY RoleFacts DEF Init, AcceptedIsPrefix
<1>6. QED
  BY <1>2, <1>3, <1>4, <1>5 DEF IInv

\* Opening the window touches no counter and no history.
LEMMA FlipWindowInv ==
  ASSUME IInv, NEW r \in Role, FlipWindow(r)
  PROVE  IInv'
<1> USE DEF IInv, FlipWindow
<1>1. TypeOK'
  BY DEF TypeOK, SecurityState
<1>2. \A q \in Role : /\ security'[q].counter = security[q].counter
                      /\ security'[q].aborted = security[q].aborted
  BY DEF TypeOK, SecurityState
<1>3. CounterTracksHistory'
  BY <1>2 DEF CounterTracksHistory
<1>4. CounterIsPosition' /\ WireMatchesHistory' /\ AcceptedIsPrefix'
  BY DEF CounterIsPosition, WireMatchesHistory, AcceptedIsPrefix
<1>5. QED
  BY <1>1, <1>3, <1>4

\* Losing or closing the link empties the wire.
LEMMA LinkInv ==
  ASSUME IInv, UNCHANGED <<security, wire, protected, accepted>>, open' \in BOOLEAN
  PROVE  IInv'
BY DEF IInv, TypeOK, CounterTracksHistory, CounterIsPosition, WireMatchesHistory,
       AcceptedIsPrefix

\* A step that aborts one end and touches no counter, history or wire message.
LEMMA SendEmptyInv ==
  ASSUME IInv, NEW r \in Role, SendEmpty(r)
  PROVE  IInv'
<1> USE DEF IInv
<1>1. AfterSeal(security[r], r, FALSE, TRUE) = Abort(security[r])
  BY DEF SendEmpty, AfterSeal, SealFails
<1>2. security' = [security EXCEPT ![r] = Abort(security[r])]
  BY <1>1 DEF SendEmpty
<1>3. security[r] \in SecurityState
  BY DEF TypeOK
<1>4. TypeOK'
  BY <1>2, <1>3, AbortFacts DEF TypeOK, SendEmpty
<1>5. \A q \in Role : /\ security'[q].counter = security[q].counter
                      /\ security[q].aborted => security'[q].aborted
  BY <1>2, <1>3, AbortFacts DEF TypeOK
<1>6. CounterTracksHistory'
  BY <1>5 DEF CounterTracksHistory, SendEmpty
<1>7. CounterIsPosition' /\ WireMatchesHistory' /\ AcceptedIsPrefix'
  BY DEF SendEmpty, CounterIsPosition, WireMatchesHistory, AcceptedIsPrefix
<1>8. QED
  BY <1>4, <1>6, <1>7

\* A message in clear changes nothing but the wire.
LEMMA SendClearInv ==
  ASSUME IInv, NEW r \in Role, NEW ap \in BOOLEAN, NEW b \in Payload,
         NEW fits \in BOOLEAN, Send(r, ap, b, fits),
         SealedUnder(security[r], r, ap) = Clear
  PROVE  IInv'
<1> DEFINE p == [ap |-> ap, body |-> b, counter |-> Clear]
<1>1. security' = security
  BY SealFacts DEF IInv, TypeOK, Send
<1>2. UNCHANGED <<open, protected, accepted>>
  BY DEF Send
<1>3. wire' = wire \/ wire' = [wire EXCEPT ![r] = Append(@, p)]
  BY DEF Send
<1>4. p \in Packet /\ p.counter = Clear /\ wire \in [Role -> Seq(Packet)]
  BY DEF Packet, Clear, IInv, TypeOK
<1>5. /\ wire' \in [Role -> Seq(Packet)]
      /\ \A q \in Role : \A i \in DOMAIN wire'[q] :
           \/ wire'[q][i].counter = Clear
           \/ i \in DOMAIN wire[q] /\ wire'[q][i] = wire[q][i]
  <2>1. CASE wire' = wire
    BY <2>1, <1>4
  <2>2. CASE wire' = [wire EXCEPT ![r] = Append(@, p)]
    BY <2>2, <1>4, AppendFacts
  <2>3. QED
    BY <1>3, <2>1, <2>2
<1>6. TypeOK'
  BY <1>1, <1>2, <1>5 DEF IInv, TypeOK
<1>7. WireMatchesHistory'
  BY <1>2, <1>5 DEF IInv, WireMatchesHistory
<1>8. (CounterTracksHistory /\ CounterIsPosition /\ AcceptedIsPrefix)'
  BY <1>1, <1>2 DEF IInv, CounterTracksHistory, CounterIsPosition, AcceptedIsPrefix
<1>9. QED
  BY <1>6, <1>7, <1>8 DEF IInv

\* A protected message is recorded at the position its counter names.
LEMMA SendSealedInv ==
  ASSUME IInv, NEW r \in Role, NEW ap \in BOOLEAN, NEW b \in Payload,
         NEW fits \in BOOLEAN, Send(r, ap, b, fits),
         SealedUnder(security[r], r, ap) # Clear
  PROVE  IInv'
<1> DEFINE s == security[r]
           c == SealedUnder(s, r, ap)
           p == [ap |-> ap, body |-> b, counter |-> c]
           h == [body |-> b, counter |-> c]
<1>0. s \in SecurityState /\ ~s.aborted
  BY DEF IInv, TypeOK, Send
<1>1. c = s.counter[r] /\ AfterSeal(s, r, ap, FALSE) = UseCounter(s, r)
  BY <1>0, SealFacts
<1>2. c = Len(protected[r]) + 1 /\ c \in Nat /\ c <= MaxCounter
  BY <1>0, <1>1, MaxCounterAssumption DEF IInv, TypeOK, CounterTracksHistory
<1>3. security' = [security EXCEPT ![r] = UseCounter(s, r)]
  BY <1>1 DEF Send
<1>4. protected' = [protected EXCEPT ![r] = Append(@, h)]
  BY DEF Send
<1>5. wire' = wire \/ wire' = [wire EXCEPT ![r] = Append(@, p)]
  BY DEF Send
<1>6. UNCHANGED <<open, accepted>>
  BY DEF Send
<1>7. p \in Packet /\ h \in Sealing
  BY <1>2 DEF Packet, Sealing
<1>8. /\ protected' \in [Role -> Seq(Sealing)]
      /\ Len(protected'[r]) = c /\ c \in DOMAIN protected'[r] /\ protected'[r][c] = h
      /\ \A q \in Role : q # r => protected'[q] = protected[q]
      /\ \A q \in Role : \A i \in DOMAIN protected[q] :
           i \in DOMAIN protected'[q] /\ protected'[q][i] = protected[q][i]
      /\ \A q \in Role : \A i \in DOMAIN protected'[q] :
           i \in DOMAIN protected[q] \/ (q = r /\ i = c)
  <2>1. protected \in [Role -> Seq(Sealing)]
    BY DEF IInv, TypeOK
  <2>2. QED
    BY <1>2, <1>4, <1>7, <2>1, AppendFacts
<1>9. /\ wire' \in [Role -> Seq(Packet)]
      /\ \A q \in Role : \A i \in DOMAIN wire'[q] :
           \/ i \in DOMAIN wire[q] /\ wire'[q][i] = wire[q][i]
           \/ q = r /\ wire'[q][i] = p
  <2>0. wire \in [Role -> Seq(Packet)]
    BY DEF IInv, TypeOK
  <2>1. CASE wire' = wire
    BY <2>0, <2>1
  <2>2. CASE wire' = [wire EXCEPT ![r] = Append(@, p)]
    BY <2>0, <2>2, <1>7, AppendFacts
  <2>3. QED
    BY <1>5, <2>1, <2>2
<1>10. /\ security' \in [Role -> SecurityState]
       /\ security'[r] = UseCounter(s, r)
       /\ \A q \in Role : q # r => security'[q] = security[q]
  BY <1>0, <1>3, UseCounterFacts DEF IInv, TypeOK
<1>11. TypeOK'
  BY <1>6, <1>8, <1>9, <1>10 DEF IInv, TypeOK
<1>12. CounterTracksHistory'
  <2>1. /\ UseCounter(s, r).counter[r] = c + 1
        /\ UseCounter(s, r).counter[Peer(r)] = s.counter[Peer(r)]
        /\ UseCounter(s, r).aborted <=> s.aborted \/ c + 1 > MaxCounter
    <3>1. Peer(r) \in Role /\ Peer(r) # r
      BY RoleFacts
    <3>2. /\ UseCounter(s, r).counter[r] = c + 1
          /\ UseCounter(s, r).counter[Peer(r)] = s.counter[Peer(r)]
      BY <1>0, <1>1, <3>1, UseCounterFacts
    <3>3. UseCounter(s, r).aborted <=> s.aborted \/ c + 1 > MaxCounter
      BY <1>1 DEF UseCounter
    <3>4. QED
      BY <3>2, <3>3
  <2>2. /\ security'[r].counter[r] = c + 1
        /\ security'[r].counter[Peer(r)] = s.counter[Peer(r)]
        /\ security'[r].aborted <=> s.aborted \/ c + 1 > MaxCounter
    BY <1>10, <2>1
  <2>3. \A q \in Role :
          /\ security'[q].counter[q] = Len(protected'[q]) + 1
          /\ security'[q].counter[Peer(q)] = Len(accepted'[q]) + 1
    BY <2>2, <1>6, <1>8, <1>10 DEF IInv, CounterTracksHistory
  <2>4. \A q \in Role :
          /\ security'[q].counter[q] <= MaxCounter + 1
          /\ security'[q].counter[q] = MaxCounter + 1 => security'[q].aborted
    BY <2>2, <1>2, <1>10, MaxCounterAssumption DEF IInv, CounterTracksHistory
  <2>5. QED
    BY <2>3, <2>4 DEF CounterTracksHistory
<1>13. CounterIsPosition'
  BY <1>8 DEF IInv, CounterIsPosition
<1>14. WireMatchesHistory'
  <2>1. SUFFICES ASSUME NEW q \in Role, NEW i \in DOMAIN wire'[q],
                        wire'[q][i].counter # Clear
                 PROVE  /\ wire'[q][i].counter \in DOMAIN protected'[q]
                        /\ wire'[q][i].body = protected'[q][wire'[q][i].counter].body
    BY DEF WireMatchesHistory
  <2>2. CASE i \in DOMAIN wire[q] /\ wire'[q][i] = wire[q][i]
    BY <1>8, <2>1, <2>2 DEF IInv, WireMatchesHistory
  <2>3. CASE q = r /\ wire'[q][i] = p
    BY <1>8, <2>3
  <2>4. QED
    BY <1>9, <2>2, <2>3
<1>15. AcceptedIsPrefix'
  <2>1. \A q \in Role : Len(protected[q]) <= Len(protected'[q])
    <3>1. \A q \in Role : protected[q] \in Seq(Sealing) /\ Len(protected[q]) \in Nat
      BY DEF IInv, TypeOK
    <3>2. Len(protected[r]) <= Len(protected'[r])
      BY <1>2, <1>8, <3>1
    <3>3. QED
      BY <1>8, <3>1, <3>2
  <2>2. \A q \in Role : /\ Peer(q) \in Role
                        /\ DOMAIN accepted[q] \subseteq DOMAIN protected[Peer(q)]
    BY AcceptedDomain, RoleFacts DEF IInv
  <2>3. \A q \in Role : Len(accepted'[q]) <= Len(protected'[Peer(q)])
    BY <1>6, <1>8, <2>1, <2>2 DEF IInv, TypeOK, AcceptedIsPrefix
  <2>4. \A q \in Role : \A i \in DOMAIN accepted[q] :
          accepted[q][i] = protected'[Peer(q)][i].body
    BY <1>8, <2>2 DEF IInv, AcceptedIsPrefix
  <2>5. QED
    BY <1>6, <2>3, <2>4 DEF AcceptedIsPrefix
<1>16. QED
  BY <1>11, <1>12, <1>13, <1>14, <1>15 DEF IInv

\* A received message leaves the wire; an accepted one was the next in order.
LEMMA ReceiveInv ==
  ASSUME IInv, NEW r \in Role, Receive(r)
  PROVE  IInv'
<1> DEFINE s == security[r]
           m == Head(wire[Peer(r)])
           t == AfterUnseal(s, r, m.ap, m.counter)
           failed == UnsealFails(s, r, m.ap, m.counter)
<1>0. s \in SecurityState /\ Peer(r) \in Role /\ Peer(r) # r /\ ~s.aborted
  BY RoleFacts DEF IInv, TypeOK, Receive
<1>1. wire[Peer(r)] \in Seq(Packet) /\ wire[Peer(r)] # <<>>
  BY <1>0 DEF IInv, TypeOK, Receive
<1>2. /\ m \in Packet /\ 1 \in DOMAIN wire[Peer(r)] /\ m = wire[Peer(r)][1]
      /\ Tail(wire[Peer(r)]) \in Seq(Packet)
      /\ \A i \in DOMAIN Tail(wire[Peer(r)]) :
           i + 1 \in DOMAIN wire[Peer(r)] /\ Tail(wire[Peer(r)])[i] = wire[Peer(r)][i + 1]
  BY <1>1
<1>3. /\ wire' = [wire EXCEPT ![Peer(r)] = Tail(@)]
      /\ security' = [security EXCEPT ![r] = t]
      /\ open' \in BOOLEAN
      /\ protected' = protected
  BY DEF Receive
<1>4. /\ wire' \in [Role -> Seq(Packet)]
      /\ wire'[Peer(r)] = Tail(wire[Peer(r)])
      /\ \A q \in Role : q # Peer(r) => wire'[q] = wire[q]
  BY <1>0, <1>2, <1>3 DEF IInv, TypeOK
<1>5. WireMatchesHistory'
  <2>1. SUFFICES ASSUME NEW q \in Role, NEW i \in DOMAIN wire'[q],
                        wire'[q][i].counter # Clear
                 PROVE  /\ wire'[q][i].counter \in DOMAIN protected[q]
                        /\ wire'[q][i].body = protected[q][wire'[q][i].counter].body
    BY <1>3 DEF WireMatchesHistory
  <2>2. CASE q = Peer(r)
    <3>1. i + 1 \in DOMAIN wire[q] /\ wire'[q][i] = wire[q][i + 1]
      BY <1>2, <1>4, <2>2
    <3>2. QED
      BY <2>1, <3>1 DEF IInv, WireMatchesHistory
  <2>3. CASE q # Peer(r)
    BY <1>4, <2>1, <2>3 DEF IInv, WireMatchesHistory
  <2>4. QED
    BY <2>2, <2>3
<1>6. CounterIsPosition'
  BY <1>3 DEF IInv, CounterIsPosition
<1>7. /\ security'[r] = t
      /\ \A q \in Role : q # r => security'[q] = security[q]
  BY <1>3 DEF IInv, TypeOK
<1>8. CASE failed \/ Exempt(s, m.ap)
  <2>1. accepted' = accepted
    BY <1>8 DEF Receive
  <2>2. /\ t \in SecurityState /\ t.counter = s.counter
    BY <1>0, <1>8, AbortFacts, UnsealFacts
  <2>3. s.aborted => t.aborted
    BY <1>0
  <2>4. TypeOK'
    BY <1>3, <1>4, <2>1, <2>2 DEF IInv, TypeOK
  <2>5. \A q \in Role : security'[q].counter = security[q].counter
    BY <1>7, <2>2
  <2>6. \A q \in Role : security[q].aborted => security'[q].aborted
    BY <1>0, <1>7
  <2>7. CounterTracksHistory'
    BY <1>3, <2>1, <2>5, <2>6 DEF IInv, CounterTracksHistory
  <2>8. AcceptedIsPrefix'
    BY <1>3, <2>1 DEF IInv, AcceptedIsPrefix
  <2>9. QED
    BY <1>5, <1>6, <2>4, <2>7, <2>8 DEF IInv
<1>9. CASE ~(failed \/ Exempt(s, m.ap))
  <2> DEFINE n == Len(accepted[r]) + 1
  <2>1. /\ m.counter = s.counter[Peer(r)] /\ m.counter # Clear
        /\ t = UseCounter(s, Peer(r))
    BY <1>0, <1>9, UnsealFacts
  <2>2. m.counter = n
    BY <2>1 DEF IInv, CounterTracksHistory
  <2>3. n \in DOMAIN protected[Peer(r)] /\ m.body = protected[Peer(r)][n].body
    BY <1>0, <1>2, <2>1, <2>2 DEF IInv, WireMatchesHistory
  <2>4. m.body \in Payload
    BY <1>2 DEF Packet
  <2>5. accepted' = [accepted EXCEPT ![r] = Append(@, m.body)]
    BY <1>9 DEF Receive
  <2>6. /\ accepted' \in [Role -> Seq(Payload)]
        /\ Len(accepted'[r]) = n /\ accepted'[r][n] = m.body /\ n \in Nat
        /\ \A q \in Role : q # r => accepted'[q] = accepted[q]
        /\ \A q \in Role : \A i \in DOMAIN accepted[q] : accepted'[q][i] = accepted[q][i]
        /\ \A q \in Role : \A i \in DOMAIN accepted'[q] :
             i \in DOMAIN accepted[q] \/ (q = r /\ i = n)
    <3>1. accepted \in [Role -> Seq(Payload)]
      BY DEF IInv, TypeOK
    <3>2. QED
      BY <2>4, <2>5, <3>1, AppendFacts
  <2>7. TypeOK'
    <3>1. t \in SecurityState
      BY <1>0, <2>1, UseCounterFacts
    <3>2. QED
      BY <1>3, <1>4, <2>6, <3>1 DEF IInv, TypeOK
  <2>8. CounterTracksHistory'
    <3>1. Peer(Peer(r)) = r
      BY RoleFacts
    <3>2. /\ t.counter[Peer(r)] = n + 1
          /\ t.counter[r] = s.counter[r]
      BY <1>0, <2>1, <2>2, UseCounterFacts
    <3>3. t.counter[r] = MaxCounter + 1 => t.aborted
      BY <1>0, <2>1, <3>2 DEF IInv, CounterTracksHistory, UseCounter
    <3>4. SUFFICES ASSUME NEW q \in Role
                   PROVE  /\ security'[q].counter[q] = Len(protected[q]) + 1
                          /\ security'[q].counter[Peer(q)] = Len(accepted'[q]) + 1
                          /\ security'[q].counter[q] <= MaxCounter + 1
                          /\ security'[q].counter[q] = MaxCounter + 1 => security'[q].aborted
      BY <1>3 DEF CounterTracksHistory
    <3>5. CASE q = r
      <4>1. /\ security'[q].counter[q] = Len(protected[q]) + 1
            /\ security'[q].counter[Peer(q)] = Len(accepted'[q]) + 1
            /\ security'[q].counter[q] <= MaxCounter + 1
        BY <1>7, <2>6, <3>2, <3>5 DEF IInv, CounterTracksHistory
      <4>2. QED
        BY <1>7, <3>3, <3>5, <4>1
    <3>6. CASE q # r
      BY <1>7, <2>6, <3>6 DEF IInv, CounterTracksHistory
    <3>7. QED
      BY <3>5, <3>6
  <2>9. AcceptedIsPrefix'
    <3>1. SUFFICES ASSUME NEW q \in Role
                   PROVE  /\ Len(accepted'[q]) <= Len(protected[Peer(q)])
                          /\ \A i \in DOMAIN accepted'[q] :
                               accepted'[q][i] = protected[Peer(q)][i].body
      BY <1>3 DEF AcceptedIsPrefix
    <3>2. CASE q = r
      <4>1. n <= Len(protected[Peer(r)])
        BY <1>0, <2>3 DEF IInv, TypeOK
      <4>2. QED
        BY <2>3, <2>6, <3>2, <4>1 DEF IInv, AcceptedIsPrefix
    <3>3. CASE q # r
      BY <2>6, <3>3 DEF IInv, AcceptedIsPrefix
    <3>4. QED
      BY <3>2, <3>3
  <2>10. QED
    BY <1>5, <1>6, <2>7, <2>8, <2>9 DEF IInv
<1>10. QED
  BY <1>8, <1>9

-----------------------------------------------------------------------------
\* The two histories, the counters and the wire agree in every reachable state.
THEOREM Invariance == Spec => []IInv
<1>1. Init => IInv
  BY InitInv
<1>2. IInv /\ [Next]_vars => IInv'
  <2>1. SUFFICES ASSUME IInv, [Next]_vars PROVE IInv'
    OBVIOUS
  <2>2. CASE UNCHANGED vars
    BY <2>1, <2>2, LinkInv DEF vars, IInv, TypeOK
  <2>3. CASE LinkLost
    BY <2>1, <2>3, LinkInv DEF LinkLost
  <2>4. ASSUME NEW r \in Role, FlipWindow(r) PROVE IInv'
    BY <2>1, <2>4, FlipWindowInv
  <2>5. ASSUME NEW r \in Role, NEW ap \in BOOLEAN, NEW fits \in BOOLEAN,
               NEW b \in Payload, Send(r, ap, b, fits)
        PROVE  IInv'
    BY <2>1, <2>5, SendClearInv, SendSealedInv
  <2>6. ASSUME NEW r \in Role, SendEmpty(r) PROVE IInv'
    BY <2>1, <2>6, SendEmptyInv
  <2>7. ASSUME NEW r \in Role, CloseAborted(r) PROVE IInv'
    BY <2>1, <2>7, LinkInv DEF CloseAborted
  <2>8. ASSUME NEW r \in Role, Receive(r) PROVE IInv'
    BY <2>1, <2>8, ReceiveInv
  <2>9. QED
    BY <2>1, <2>2, <2>3, <2>4, <2>5, <2>6, <2>7, <2>8 DEF Next
<1>3. QED
  BY <1>1, <1>2, PTL DEF Spec

\* Every variable of the link keeps its type.
THEOREM TypeCorrect == Spec => []TypeOK
<1>1. IInv => TypeOK
  BY DEF IInv
<1>2. QED
  BY <1>1, Invariance, PTL

\* No end ever seals two payloads under one counter.
THEOREM NonceUnique == Spec => []NoNonceReuse
<1>1. IInv => NoNonceReuse
  BY DEF IInv, CounterIsPosition, NoNonceReuse
<1>2. QED
  BY <1>1, Invariance, PTL

\* No payload is sealed under a counter beyond the limit.
THEOREM CounterLimited == Spec => []CounterWithinLimit
<1>1. IInv => CounterWithinLimit
  <2>1. SUFFICES ASSUME IInv, NEW r \in Role, NEW i \in DOMAIN protected[r]
                 PROVE  protected[r][i].counter <= MaxCounter
    BY DEF CounterWithinLimit
  <2>2. i \in Nat /\ i <= Len(protected[r]) /\ Len(protected[r]) \in Nat
    BY <2>1 DEF IInv, TypeOK
  <2>3. Len(protected[r]) + 1 <= MaxCounter + 1
    BY <2>1 DEF IInv, CounterTracksHistory
  <2>4. protected[r][i].counter = i
    BY <2>1 DEF IInv, CounterIsPosition
  <2>5. QED
    BY <2>2, <2>3, <2>4, MaxCounterAssumption
<1>2. QED
  BY <1>1, Invariance, PTL

-----------------------------------------------------------------------------
\* An end that has aborted stays aborted, seals nothing and accepts nothing.
THEOREM AbortFinal == Spec => AbortIsFinal
<1> DEFINE Kept == \A r \in Role : security[r].aborted =>
                     /\ security'[r].aborted
                     /\ protected'[r] = protected[r]
                     /\ accepted'[r] = accepted[r]
<1>1. IInv /\ [Next]_vars => [Kept]_vars
  <2>1. SUFFICES ASSUME IInv, Next PROVE Kept
    BY DEF vars
  <2>2. security \in [Role -> SecurityState] /\ protected \in [Role -> Seq(Sealing)]
        /\ accepted \in [Role -> Seq(Payload)]
    BY <2>1 DEF IInv, TypeOK
  <2>3. CASE LinkLost
    BY <2>3 DEF LinkLost
  <2>4. ASSUME NEW q \in Role, FlipWindow(q) PROVE Kept
    BY <2>2, <2>4 DEF FlipWindow, SecurityState
  <2>5. ASSUME NEW q \in Role, NEW ap \in BOOLEAN, NEW fits \in BOOLEAN,
               NEW b \in Payload, Send(q, ap, b, fits)
        PROVE  Kept
    <3>1. /\ ~security[q].aborted /\ accepted' = accepted
          /\ \A r \in Role : r # q => security'[r] = security[r] /\ protected'[r] = protected[r]
      BY <2>2, <2>5 DEF Send
    <3>2. QED
      BY <3>1
  <2>6. ASSUME NEW q \in Role, SendEmpty(q) PROVE Kept
    BY <2>2, <2>6 DEF SendEmpty
  <2>7. ASSUME NEW q \in Role, CloseAborted(q) PROVE Kept
    BY <2>7 DEF CloseAborted
  <2>8. ASSUME NEW q \in Role, Receive(q) PROVE Kept
    <3>1. /\ ~security[q].aborted /\ protected' = protected
          /\ \A r \in Role : r # q => security'[r] = security[r] /\ accepted'[r] = accepted[r]
      BY <2>2, <2>8 DEF Receive
    <3>2. QED
      BY <3>1
  <2>9. QED
    BY <2>1, <2>3, <2>4, <2>5, <2>6, <2>7, <2>8 DEF Next
<1>2. QED
  BY <1>1, Invariance, PTL DEF Spec, AbortIsFinal

\* The ends of the stream are the roles of the link.
LEMMA StreamRoles == Stream!Ends = Role /\ \A r : Stream!Other(r) = Peer(r)
BY DEF Stream!Ends, Stream!Other, Role, Peer

\* Append, as a function.
LEMMA AppendDef ==
  ASSUME NEW S, NEW f \in Seq(S), NEW e \in S
  PROVE  Append(f, e) =
           [i \in 1 .. Len(f) + 1 |-> IF i = Len(f) + 1 THEN e ELSE f[i]]
<1> DEFINE g == [i \in 1 .. Len(f) + 1 |-> IF i = Len(f) + 1 THEN e ELSE f[i]]
<1>1. g \in Seq(S) /\ Len(g) = Len(f) + 1
  OBVIOUS
<1>2. \A i \in 1 .. Len(g) : g[i] = Append(f, e)[i]
  OBVIOUS
<1>3. Append(f, e) \in Seq(S) /\ Len(g) = Len(Append(f, e))
  BY <1>1
<1>4. QED
  BY <1>1, <1>2, <1>3, SeqEqual

\* The protected payloads, without their counters, are a sequence of payloads.
LEMMA BodiesFacts ==
  ASSUME TypeOK, NEW r \in Role
  PROVE  /\ Bodies(r) \in Seq(Payload)
         /\ DOMAIN Bodies(r) = DOMAIN protected[r]
         /\ Len(Bodies(r)) = Len(protected[r])
         /\ \A i \in DOMAIN protected[r] : Bodies(r)[i] = protected[r][i].body
<1>1. /\ protected[r] \in Seq(Sealing) /\ Len(protected[r]) \in Nat
      /\ DOMAIN protected[r] = 1 .. Len(protected[r])
  BY DEF TypeOK
<1>2. \A i \in DOMAIN protected[r] : protected[r][i].body \in Payload
  <2>1. \A i \in DOMAIN protected[r] : protected[r][i] \in Sealing
    BY <1>1
  <2>2. \A h \in Sealing : h.body \in Payload
    BY DEF Sealing
  <2>3. QED
    BY <2>1, <2>2
<1>3. QED
  BY <1>1, <1>2 DEF Bodies

\* What either end accepts is a prefix of what the other one protected, in order and
\* without gaps: the link implements the authenticated stream.
THEOREM ImplementsStream == Spec => StreamSpec
<1> DEFINE bodies == [r \in Role |-> Bodies(r)]
           StreamStep == [Stream!Next]_<<bodies, accepted>>
<1>1. Init => Stream!Init
  <2>1. SUFFICES ASSUME Init PROVE Stream!Init
    OBVIOUS
  <2>2. TypeOK /\ \A r \in Role : protected[r] = <<>>
    BY <2>1, InitInv DEF Init, IInv
  <2>3. \A r \in Role : Bodies(r) = <<>>
    BY <2>2, BodiesFacts
  <2>4. QED
    BY <2>1, <2>3, StreamRoles DEF Init, Stream!Init
<1>2. IInv /\ IInv' /\ [Next]_vars => StreamStep
  <2>1. SUFFICES ASSUME IInv, IInv', [Next]_vars PROVE StreamStep
    OBVIOUS
  <2>2. ASSUME protected' = protected, accepted' = accepted PROVE StreamStep
    BY <2>2 DEF Bodies
  <2>3. ASSUME NEW r \in Role, NEW ap \in BOOLEAN, NEW fits \in BOOLEAN,
               NEW b \in Payload, Send(r, ap, b, fits)
        PROVE  StreamStep
    <3> DEFINE h == [body |-> b, counter |-> SealedUnder(security[r], r, ap)]
    <3>1. CASE SealedUnder(security[r], r, ap) = Clear
      BY <2>2, <2>3, <3>1 DEF Send
    <3>2. CASE SealedUnder(security[r], r, ap) # Clear
      <4>1. accepted' = accepted /\ protected' = [protected EXCEPT ![r] = Append(@, h)]
        BY <2>3, <3>2 DEF Send
      <4>2. bodies' = [bodies EXCEPT ![r] = Append(@, b)]
        <5>1. protected \in [Role -> Seq(Sealing)] /\ protected' \in [Role -> Seq(Sealing)]
          BY <2>1 DEF IInv, TypeOK
        <5>2. \A q \in Role : q # r => Bodies(q)' = Bodies(q)
          BY <4>1, <5>1 DEF Bodies
        <5>3. Bodies(r)' = Append(Bodies(r), b)
          <6>1. protected'[r] = Append(protected[r], h) /\ protected[r] \in Seq(Sealing)
            BY <4>1, <5>1
          <6>2. h.body = b
            OBVIOUS
          <6>3. Bodies(r)' = [i \in DOMAIN protected'[r] |-> protected'[r][i].body]
            BY DEF Bodies
          <6>4. Bodies(r) \in Seq(Payload) /\ Len(Bodies(r)) = Len(protected[r])
                /\ \A i \in 1 .. Len(protected[r]) : Bodies(r)[i] = protected[r][i].body
            BY <2>1, <6>1, BodiesFacts DEF IInv
          <6>5. \A i \in 1 .. Len(protected[r]) + 1 :
                  protected'[r][i].body =
                    IF i = Len(protected[r]) + 1 THEN b ELSE Bodies(r)[i]
            BY <6>1, <6>2, <6>4
          <6>6. DOMAIN protected'[r] = 1 .. Len(protected[r]) + 1
            BY <6>1
          <6>7. Bodies(r)' = [i \in 1 .. Len(Bodies(r)) + 1 |->
                               IF i = Len(Bodies(r)) + 1 THEN b ELSE Bodies(r)[i]]
            BY <6>3, <6>4, <6>5, <6>6
          <6>8. QED
            BY <6>4, <6>7, AppendDef
        <5>4. QED
          BY <5>2, <5>3
      <4>3. Stream!Protect(r)
        BY <4>1, <4>2 DEF Stream!Protect
      <4>4. QED
        BY <4>3, StreamRoles DEF Stream!Next
    <3>3. QED
      BY <3>1, <3>2
  <2>4. ASSUME NEW r \in Role, Receive(r) PROVE StreamStep
    <3> DEFINE m == Head(wire[Peer(r)])
               n == Len(accepted[r]) + 1
    <3>1. CASE accepted' = accepted
      BY <2>2, <2>4, <3>1 DEF Receive
    <3>2. CASE accepted' # accepted
      <4>1. /\ ~UnsealFails(security[r], r, m.ap, m.counter)
            /\ ~Exempt(security[r], m.ap)
            /\ accepted' = [accepted EXCEPT ![r] = Append(@, m.body)]
            /\ protected' = protected
            /\ wire[Peer(r)] # <<>>
        BY <2>4, <3>2 DEF Receive
      <4>2. /\ Peer(r) \in Role /\ security[r] \in SecurityState
            /\ wire[Peer(r)] \in Seq(Packet)
        BY <2>1, RoleFacts DEF IInv, TypeOK
      <4>3. m.counter = security[r].counter[Peer(r)] /\ m.counter # Clear
        BY <4>1, <4>2, UnsealFacts
      <4>4. m.counter = n
        BY <2>1, <4>3 DEF IInv, CounterTracksHistory
      <4>5. m = wire[Peer(r)][1] /\ 1 \in DOMAIN wire[Peer(r)]
        BY <4>1, <4>2
      <4>6. n \in DOMAIN protected[Peer(r)] /\ m.body = protected[Peer(r)][n].body
        BY <2>1, <4>2, <4>3, <4>4, <4>5 DEF IInv, WireMatchesHistory
      <4>7. n \in DOMAIN bodies[Peer(r)] /\ m.body = bodies[Peer(r)][n]
        BY <2>1, <4>2, <4>6, BodiesFacts DEF IInv
      <4>8. bodies' = bodies
        BY <4>1 DEF Bodies
      <4>9. Stream!Accept(r)
        BY <4>1, <4>7, <4>8, StreamRoles DEF Stream!Accept
      <4>10. QED
        BY <4>9, StreamRoles DEF Stream!Next
    <3>3. QED
      BY <3>1, <3>2
  <2>5. QED
    BY <2>1, <2>2, <2>3, <2>4
       DEF Next, vars, LinkLost, FlipWindow, SendEmpty, CloseAborted
<1>3. QED
  BY <1>1, <1>2, Invariance, PTL DEF Spec, StreamSpec, Stream!Spec
=============================================================================
