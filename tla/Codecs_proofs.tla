---------------------------- MODULE Codecs_proofs ----------------------------
(***************************************************************************)
(* Proofs about the codecs, for every byte width, bound and alphabet.      *)
(* What a recursive function computes is shown by induction on a set of    *)
(* positions, for which the least-number principle is enough.              *)
(***************************************************************************)
EXTENDS Codecs, SequenceTheorems, WellFoundedInduction, TLAPS

\* A set of naturals that is not empty has a least element.
LEMMA LeastOf ==
  ASSUME NEW T, T \subseteq Nat, T # {}
  PROVE  \E m \in T : \A k \in T : m <= k
<1>1. PICK m \in T : \A k \in T : ~ (<<k, m>> \in OpToRel(<, Nat))
  BY WFMin, NatLessThanWellFounded, Zenon
<1>2. \A k \in T : ~ (k < m)
  BY <1>1 DEF OpToRel
<1>3. QED
  BY <1>2

\* Induction up to N, on membership in a set.
LEMMA UpTo ==
  ASSUME NEW N \in Nat, NEW T, 0 \in T,
         \A n \in 0 .. N : n \in T /\ n # N => n + 1 \in T
  PROVE  \A n \in 0 .. N : n \in T
<1> DEFINE U == {n \in 0 .. N : n \notin T}
<1>1. SUFFICES ASSUME U # {} PROVE FALSE
  OBVIOUS
<1>2. PICK m \in U : \A k \in U : m <= k
  <2>1. U \subseteq Nat
    OBVIOUS
  <2>2. QED
    BY <1>1, <2>1, LeastOf
<1>3. m # 0 /\ m - 1 \in 0 .. N /\ m - 1 # N /\ (m - 1) + 1 = m
  OBVIOUS
<1>4. m - 1 \notin U
  BY <1>2, <1>3
<1>5. m \in T
  BY <1>3, <1>4
<1>6. QED
  BY <1>5

\* A function given by its value at 0 and by steps exists.
AreSteps(step, N, V) == step \in [1 .. N -> [V -> V]]

Iterates(f, z, step, N, V) ==
  f \in [0 .. N -> V] /\ f[0] = z /\ \A k \in 1 .. N : f[k] = step[k][f[k - 1]]

\* Such a function is there: one more step extends it.
LEMMA Iteration ==
  ASSUME NEW N \in Nat, NEW V, NEW z \in V, NEW step, AreSteps(step, N, V)
  PROVE  \E f : Iterates(f, z, step, N, V)
<1> USE DEF AreSteps
<1> DEFINE Is(f, n) == /\ f \in [0 .. n -> V] /\ f[0] = z
                       /\ \A k \in 1 .. n : f[k] = step[k][f[k - 1]]
           T == {n \in 0 .. N : \E f : Is(f, n)}
<1>1. 0 \in T
  <2>1. Is([k \in 0 .. 0 |-> z], 0)
    OBVIOUS
  <2> HIDE DEF Is
  <2>2. \E f : Is(f, 0)
    BY <2>1
  <2>3. QED
    BY <2>2
<1>2. ASSUME NEW n \in 0 .. N, n \in T, n # N PROVE n + 1 \in T
  <2>1. PICK f : Is(f, n)
    BY <1>2
  <2> DEFINE g == [k \in 0 .. n + 1 |-> IF k = n + 1 THEN step[k][f[n]] ELSE f[k]]
  <2>2. n + 1 \in 1 .. N /\ n \in 0 .. n /\ f[n] \in V
    BY <1>2, <2>1
  <2>3. step[n + 1][f[n]] \in V
    BY <2>2
  <2>4. g \in [0 .. n + 1 -> V] /\ g[0] = z
    BY <2>1, <2>3
  <2>5. ASSUME NEW k \in 1 .. n + 1 PROVE g[k] = step[k][g[k - 1]]
    BY <2>1
  <2>6. Is(g, n + 1)
    BY <2>4, <2>5
  <2> HIDE DEF Is, g
  <2>7. \E h : Is(h, n + 1)
    BY <2>6
  <2>8. QED
    BY <1>2, <2>7
<1>3. N \in T
  <2> HIDE DEF T
  <2>1. \A n \in 0 .. N : n \in T
    BY <1>1, <1>2, UpTo
  <2>2. QED
    BY <2>1
<1>4. QED
  BY <1>3 DEF Iterates

-----------------------------------------------------------------------------
\* Numbers and their bytes.
LEMMA ShiftsAre ==
  ASSUME NEW n \in Nat, NEW w \in Nat
  PROVE  /\ Shifts(n, w) \in [0 .. w -> Nat]
         /\ Shifts(n, w)[0] = n
         /\ \A k \in 1 .. w : Shifts(n, w)[k] = Shifts(n, w)[k - 1] \div Base
<1> DEFINE Is(f) == f = [k \in 0 .. w |-> IF k = 0 THEN n ELSE f[k - 1] \div Base]
           step == [k \in 1 .. w |-> [v \in Nat |-> v \div Base]]
<1>1. \E f : Is(f)
  <2>1. AreSteps(step, w, Nat)
    BY OctetAssumption DEF AreSteps
  <2>2. \A k \in 1 .. w, v \in Nat : step[k][v] = v \div Base
    OBVIOUS
  <2> HIDE DEF step
  <2>3. PICK f : Iterates(f, n, step, w, Nat)
    BY <2>1, Iteration
  <2>4. Is(f)
    BY <2>2, <2>3 DEF Iterates
  <2> HIDE DEF Is
  <2>5. QED
    BY <2>4
<1>2. Is(CHOOSE f : Is(f))
  <2> HIDE DEF Is
  <2>1. QED
    BY <1>1
<1>3. Shifts(n, w) = CHOOSE f : Is(f)
  BY DEF Shifts
<1> DEFINE S == Shifts(n, w)
<1>4. S = [k \in 0 .. w |-> IF k = 0 THEN n ELSE S[k - 1] \div Base]
  BY <1>2, <1>3
<1> HIDE DEF S, Is
<1>5. S[0] = n /\ \A k \in 1 .. w : S[k] = S[k - 1] \div Base
  BY <1>4
<1>6. \A k \in 0 .. w : S[k] \in Nat
  <2> DEFINE T == {k \in 0 .. w : S[k] \in Nat}
  <2>1. 0 \in T
    BY <1>5
  <2>2. ASSUME NEW k \in 0 .. w, k \in T, k # w PROVE k + 1 \in T
    <3>1. k + 1 \in 1 .. w /\ S[k + 1] = S[k] \div Base
      BY <1>5, <2>2
    <3>2. QED
      BY <2>2, <3>1, OctetAssumption
  <2>3. \A k \in 0 .. w : k \in T
    <3> HIDE DEF T
    <3>1. QED
      BY <2>1, <2>2, UpTo
  <2>4. QED
    BY <2>3
<1>7. S \in [0 .. w -> Nat]
  BY <1>4, <1>6
<1>8. QED
  BY <1>5, <1>7 DEF S

\* The number that the first bytes spell, one byte after the other.
Spells(s, N) ==
  /\ N \in [0 .. Len(s) -> Nat]
  /\ N[0] = 0
  /\ \A k \in 1 .. Len(s) : N[k] = N[k - 1] * Base + s[k]
  /\ Number(s) = N[Len(s)]

\* Number is the last value of the function that spells s byte by byte.
LEMMA NumberIs ==
  ASSUME NEW s \in Seq(Byte)
  PROVE  \E N : Spells(s, N)
<1> DEFINE w == Len(s)
           Is(f) == f = [k \in 0 .. Len(s) |-> IF k = 0 THEN 0 ELSE f[k - 1] * Base + s[k]]
           step == [k \in 1 .. w |-> [v \in Nat |-> v * Base + s[k]]]
<1>1. w \in Nat /\ \A k \in 1 .. w : s[k] \in Nat
  BY OctetAssumption DEF Byte
<1>2. PICK f : Iterates(f, 0, step, w, Nat)
  <2>1. AreSteps(step, w, Nat)
    BY <1>1, OctetAssumption DEF AreSteps
  <2> HIDE DEF step, w
  <2>2. QED
    BY <1>1, <2>1, Iteration
<1>3. Is(f)
  <2>1. f \in [0 .. w -> Nat] /\ f[0] = 0 /\ \A k \in 1 .. w : f[k] = step[k][f[k - 1]]
    BY <1>2 DEF Iterates
  <2>2. \A k \in 1 .. w : step[k] = [v \in Nat |-> v * Base + s[k]]
    OBVIOUS
  <2> HIDE DEF step
  <2>3. \A k \in 0 .. w : k # 0 => f[k] = f[k - 1] * Base + s[k]
    <3> SUFFICES ASSUME NEW k \in 0 .. w, k # 0 PROVE f[k] = f[k - 1] * Base + s[k]
      OBVIOUS
    <3>1. k \in 1 .. w /\ k - 1 \in 0 .. w
      BY <1>1
    <3>2. f[k - 1] \in Nat
      BY <2>1, <3>1
    <3>3. QED
      BY <2>1, <2>2, <3>1, <3>2
  <2>4. QED
    BY <2>1, <2>3
<1>4. Is(CHOOSE g : Is(g))
  <2> HIDE DEF Is
  <2>1. QED
    BY <1>3
<1> DEFINE N == CHOOSE g : Is(g)
<1>5. Number(s) = N[w]
  BY DEF Number
<1>6. N = [k \in 0 .. w |-> IF k = 0 THEN 0 ELSE N[k - 1] * Base + s[k]]
  BY <1>4
<1> HIDE DEF N, Is
<1>7. N[0] = 0 /\ \A k \in 1 .. w : N[k] = N[k - 1] * Base + s[k]
  BY <1>6, <1>1
<1>8. \A k \in 0 .. w : N[k] \in Nat
  <2> DEFINE T == {k \in 0 .. w : N[k] \in Nat}
  <2>1. 0 \in T
    BY <1>1, <1>7
  <2>2. ASSUME NEW k \in 0 .. w, k \in T, k # w PROVE k + 1 \in T
    <3>1. k + 1 \in 1 .. w /\ N[k + 1] = N[k] * Base + s[k + 1] /\ s[k + 1] \in Nat
      BY <1>1, <1>7, <2>2
    <3>2. QED
      BY <2>2, <3>1, OctetAssumption
  <2>3. \A k \in 0 .. w : k \in T
    <3> HIDE DEF T
    <3>1. QED
      BY <1>1, <2>1, <2>2, UpTo
  <2>4. QED
    BY <2>3
<1>9. Spells(s, N)
  BY <1>5, <1>6, <1>7, <1>8 DEF Spells
<1>10. QED
  BY <1>9

\* A number that w bytes hold is what its w bytes spell.
LEMMA BigEndianIs ==
  ASSUME NEW n \in Nat, NEW w \in Nat
  PROVE  /\ BigEndian(n, w) \in Seq(Byte)
         /\ Len(BigEndian(n, w)) = w
         /\ Fits(n, w) => Number(BigEndian(n, w)) = n
<1> DEFINE S == Shifts(n, w)
           b == BigEndian(n, w)
<1>1. /\ S \in [0 .. w -> Nat] /\ S[0] = n
      /\ \A k \in 1 .. w : S[k] = S[k - 1] \div Base
  BY ShiftsAre
<1> HIDE DEF S
<1>2. b = [k \in 1 .. w |-> S[w - k] % Base]
  BY DEF BigEndian, S
<1>3. \A k \in 1 .. w : w - k \in 0 .. w /\ S[w - k] \in Nat /\ S[w - k] % Base \in Byte
  BY <1>1, OctetAssumption DEF Byte
<1> HIDE DEF b
<1>4. b \in Seq(Byte) /\ Len(b) = w /\ \A k \in 1 .. w : b[k] = S[w - k] % Base
  BY <1>2, <1>3
<1>5. ASSUME Fits(n, w) PROVE Number(b) = n
  <2>1. PICK N : Spells(b, N)
    BY <1>4, NumberIs
  <2>2. S[w] = 0
    BY <1>5 DEF Fits, S
  <2> DEFINE T == {k \in 0 .. w : N[k] = S[w - k]}
  <2>3. 0 \in T
    BY <2>1, <2>2 DEF Spells
  <2>4. ASSUME NEW k \in 0 .. w, k \in T, k # w PROVE k + 1 \in T
    <3>1. k + 1 \in 1 .. w /\ w - k \in 1 .. w /\ w - (k + 1) \in 0 .. w
          /\ w - k - 1 = w - (k + 1)
      BY <2>4
    <3>2. b[k + 1] = S[w - (k + 1)] % Base
      BY <1>4, <3>1
    <3>3. N[k + 1] = S[w - k] * Base + (S[w - (k + 1)] % Base)
      BY <1>4, <2>1, <2>4, <3>1, <3>2 DEF Spells
    <3>4. N[k + 1] = S[w - (k + 1)]
      <4> DEFINE a == S[w - (k + 1)]
      <4>1. a \in Nat /\ S[w - k] = a \div Base
        BY <1>1, <3>1
      <4>2. N[k + 1] = (a \div Base) * Base + (a % Base)
        BY <3>3, <4>1
      <4> HIDE DEF a
      <4>3. a = Base * (a \div Base) + (a % Base) /\ a \div Base \in Nat
        BY <4>1, OctetAssumption
      <4>4. (a \div Base) * Base = Base * (a \div Base)
        BY <4>3, OctetAssumption
      <4>5. N[k + 1] = a
        BY <4>2, <4>3, <4>4
      <4>6. QED
        BY <4>5 DEF a
    <3>5. QED
      BY <3>1, <3>4
  <2>5. \A k \in 0 .. w : k \in T
    <3> HIDE DEF T
    <3>1. QED
      BY <2>3, <2>4, UpTo
  <2>6. N[w] = S[0]
    <3>1. w \in T
      BY <2>5
    <3>2. QED
      BY <3>1
  <2>7. QED
    BY <1>1, <1>4, <2>1, <2>6 DEF Spells
<1>6. QED
  BY <1>4, <1>5 DEF b

\* What one byte and two bytes hold.
LEMMA FitsShort ==
  ASSUME NEW n \in Nat
  PROVE  /\ n < Base => Fits(n, 1) /\ BigEndian(n, 1) = <<n>>
         /\ n < Base * Base => Fits(n, 2)
<1>1. /\ Shifts(n, 1)[0] = n /\ Shifts(n, 1)[1] = n \div Base
      /\ Shifts(n, 2)[0] = n /\ Shifts(n, 2)[2] = (n \div Base) \div Base
  <2>1. \A k \in 1 .. 1 : Shifts(n, 1)[k] = Shifts(n, 1)[k - 1] \div Base
    BY ShiftsAre
  <2>2. \A k \in 1 .. 2 : Shifts(n, 2)[k] = Shifts(n, 2)[k - 1] \div Base
    <3>1. 2 \in Nat
      OBVIOUS
    <3>2. QED
      BY <3>1, ShiftsAre
  <2>3. Shifts(n, 1)[0] = n /\ Shifts(n, 2)[0] = n
    BY ShiftsAre
  <2>4. Shifts(n, 1)[1] = Shifts(n, 1)[0] \div Base
    BY <2>1
  <2>5. /\ Shifts(n, 2)[1] = Shifts(n, 2)[0] \div Base
        /\ Shifts(n, 2)[2] = Shifts(n, 2)[1] \div Base
    BY <2>2
  <2>6. QED
    BY <2>3, <2>4, <2>5
<1>2. ASSUME n < Base PROVE n \div Base = 0 /\ n % Base = n
  BY <1>2, OctetAssumption
<1>3. ASSUME n < Base * Base PROVE (n \div Base) \div Base = 0
  <2>1. n \div Base \in Nat /\ n \div Base < Base
    BY <1>3, OctetAssumption
  <2>2. QED
    BY <2>1, OctetAssumption
<1>4. ASSUME n < Base PROVE BigEndian(n, 1) = <<n>>
  <2>1. BigEndian(n, 1) \in Seq(Byte) /\ Len(BigEndian(n, 1)) = 1
    BY BigEndianIs
  <2>2. BigEndian(n, 1)[1] = n
    BY <1>1, <1>2, <1>4 DEF BigEndian
  <2>3. QED
    BY <2>1, <2>2
<1>5. QED
  BY <1>1, <1>2, <1>3, <1>4 DEF Fits

-----------------------------------------------------------------------------
\* The next multiple of b is at most b away.
LEMMA ToNextBlock ==
  ASSUME NEW b \in Nat \ {0}, NEW a \in Nat
  PROVE  a % b \in 0 .. b - 1 /\ (a + (b - (a % b))) % b = 0
<1>1. a % b \in 0 .. b - 1
  OBVIOUS
<1>2. (a + (b - (a % b))) % b = 0
  OBVIOUS
<1>3. QED
  BY <1>1, <1>2

(***************************************************************************)
(* Padding fills blocks and comes off again, whatever the message and the  *)
(* block size, also from a message that ends like padding                  *)
(* (ScbSecureChannel.cpp:28-68).                                           *)
(***************************************************************************)
LEMMA PaddingOf ==
  ASSUME NEW m \in Seq(Byte)
  PROVE  Len(Pad(m)) % BlockSize = 0 /\ Unpad(Pad(m)) = m
<1> DEFINE n == Len(m)
           z == BlockSize - ((n + 1) % BlockSize)
           zeros == [k \in 1 .. z |-> 0]
           p == Pad(m)
<1>1. n \in Nat /\ z \in 1 .. BlockSize /\ (n + 1 + z) % BlockSize = 0
  <2>1. n \in Nat
    OBVIOUS
  <2>2. \A a \in Nat : a % BlockSize \in 0 .. BlockSize - 1
                      /\ (a + (BlockSize - (a % BlockSize))) % BlockSize = 0
    <3>1. BlockSize \in Nat \ {0}
      BY FramingAssumption
    <3>2. QED
      BY <3>1, ToNextBlock
  <2>3. n + 1 \in Nat
    BY <2>1
  <2>4. (n + 1) % BlockSize \in 0 .. BlockSize - 1 /\ (n + 1 + z) % BlockSize = 0
    BY <2>2, <2>3
  <2>5. QED
    BY <2>1, <2>4, FramingAssumption
<1>2. 0 \in Byte /\ PadByte \in Byte /\ PadByte # 0
  BY OctetAssumption DEF Byte, PadByte, Half
<1> HIDE DEF z
<1>3. zeros \in Seq(Byte) /\ Len(zeros) = z /\ \A k \in 1 .. z : zeros[k] = 0
  BY <1>1, <1>2
<1>4. p = m \o <<PadByte>> \o zeros
  BY DEF Pad, z
<1> HIDE DEF zeros, p
<1>5. /\ p \in Seq(Byte) /\ Len(p) = n + 1 + z
      /\ \A k \in 1 .. n : p[k] = m[k]
      /\ p[n + 1] = PadByte
      /\ \A k \in n + 2 .. n + 1 + z : p[k] = 0
  <2> DEFINE q == m \o <<PadByte>>
  <2>1. /\ q \in Seq(Byte) /\ Len(q) = n + 1
        /\ \A k \in 1 .. n : q[k] = m[k]
        /\ q[n + 1] = PadByte
    BY <1>1, <1>2
  <2> HIDE DEF q
  <2>2. p = q \o zeros
    BY <1>4 DEF q
  <2>3. /\ p \in Seq(Byte) /\ Len(p) = n + 1 + z
        /\ \A k \in 1 .. n + 1 + z : p[k] = IF k <= n + 1 THEN q[k] ELSE zeros[k - (n + 1)]
    <3>1. /\ q \o zeros \in Seq(Byte) /\ Len(q \o zeros) = Len(q) + Len(zeros)
          /\ \A k \in 1 .. Len(q) + Len(zeros) :
               (q \o zeros)[k] = IF k <= Len(q) THEN q[k] ELSE zeros[k - Len(q)]
      BY <1>3, <2>1, ConcatProperties
    <3>2. QED
      BY <1>3, <2>1, <2>2, <3>1
  <2>4. \A k \in n + 2 .. n + 1 + z : p[k] = 0
    BY <1>1, <1>3, <2>3
  <2>5. QED
    BY <1>1, <2>1, <2>3, <2>4
<1> DEFINE marks == {i \in DOMAIN p : p[i] = PadByte}
           IsLast(i) == \A k \in marks : k <= i
<1>6. n + 1 \in marks /\ IsLast(n + 1)
  BY <1>1, <1>2, <1>5
<1>7. \A i \in marks : IsLast(i) => i = n + 1
  BY <1>1, <1>5, <1>6
<1>8. (CHOOSE i \in marks : IsLast(i)) = n + 1
  <2> HIDE DEF marks, IsLast
  <2>1. QED
    BY <1>6, <1>7
<1>9. Unpad(p) = SubSeq(p, 1, n)
  <2>1. Unpad(p) = SubSeq(p, 1, (IF marks = {} THEN Len(p)
                                 ELSE CHOOSE i \in marks : IsLast(i)) - 1)
    BY DEF Unpad
  <2> HIDE DEF marks, IsLast
  <2>2. marks # {}
    BY <1>6
  <2>3. Unpad(p) = SubSeq(p, 1, (n + 1) - 1)
    BY <1>8, <2>1, <2>2
  <2>4. QED
    BY <1>1, <2>3
<1>10. SubSeq(p, 1, n) = m
  BY <1>1, <1>5
<1>11. QED
  BY <1>1, <1>5, <1>9, <1>10 DEF p

-----------------------------------------------------------------------------
\* What every state's string is: bytes, no more than a bound allows.
InputIs ==
  input \in Seq(Byte) /\ (Len(input) <= MaxInput \/ Len(input) <= MaxZeros)

(***************************************************************************)
(* The strings the codecs are given are bytes, within the bounds.          *)
(***************************************************************************)
THEOREM TypeCorrect == Spec => []InputIs
<1>1. Init => InputIs
  BY CodecsAssumption DEF Init, InputIs
<1>2. ASSUME InputIs, [Next]_input PROVE InputIs'
  <2>1. CASE AnyByte
    <3>1. PICK x \in Alphabet : input' = Append(input, x)
      BY <2>1 DEF AnyByte
    <3>2. input' \in Seq(Byte) /\ Len(input') = Len(input) + 1
      BY <1>2, <3>1, CodecsAssumption DEF InputIs
    <3>3. QED
      BY <1>2, <2>1, <3>2, CodecsAssumption DEF InputIs, AnyByte
  <2>2. CASE OneMoreZero
    <3>1. 0 \in Byte
      BY OctetAssumption DEF Byte
    <3>2. input' \in Seq(Byte) /\ Len(input') = Len(input) + 1
      BY <1>2, <2>2, <3>1 DEF InputIs, OneMoreZero
    <3>3. QED
      BY <1>2, <2>2, <3>2, CodecsAssumption DEF InputIs, OneMoreZero
  <2>3. CASE UNCHANGED input
    BY <1>2, <2>3 DEF InputIs
  <2>4. QED
    BY <1>2, <2>1, <2>2, <2>3 DEF Next
<1>3. QED
  BY <1>1, <1>2, PTL DEF Spec

(***************************************************************************)
(* A padded message fills its blocks and is unpadded to itself, also when  *)
(* it ends like padding (ScbSecureChannel.cpp:28-68), for every block      *)
(* size.                                                                   *)
(***************************************************************************)
THEOREM PaddingRight == Spec => []PaddingComesOff
<1>1. InputIs => PaddingComesOff
  BY PaddingOf DEF InputIs, PaddingComesOff
<1>2. QED
  BY <1>1, TypeCorrect, PTL

-----------------------------------------------------------------------------
\* Where the parts of a concatenation are found again.
\* A string that is n elements of another from i on.
IsSlice(s, S, b, i, n) ==
  s \in Seq(S) /\ Len(s) = n /\ \A k \in 1 .. n : s[k] = b[i + k - 1]

\* A slice is.
LEMMA SlicedIs ==
  ASSUME NEW S, NEW b \in Seq(S), NEW i \in Nat \ {0}, NEW n \in Nat,
         i + n <= Len(b) + 1
  PROVE  IsSlice(Slice(b, i, n), S, b, i, n)
<1> DEFINE s == Slice(b, i, n)
<1>1. \A k \in i .. i + n - 1 : b[k] \in S
  OBVIOUS
<1>2. i + n - 1 \in Int /\ i \in Int
  OBVIOUS
<1>3. /\ s \in Seq(S)
      /\ Len(s) = IF i <= i + n - 1 THEN (i + n - 1) - i + 1 ELSE 0
      /\ \A k \in 1 .. (i + n - 1) - i + 1 : s[k] = b[i + k - 1]
  BY <1>1, <1>2, SubSeqProperties DEF Slice
<1>4. (i + n - 1) - i + 1 = n /\ (i <= i + n - 1 <=> n # 0)
  OBVIOUS
<1> HIDE DEF s
<1>5. s \in Seq(S) /\ Len(s) = n /\ \A k \in 1 .. n : s[k] = b[i + k - 1]
  BY <1>3, <1>4
<1>6. IsSlice(s, S, b, i, n)
  BY <1>5, Zenon DEF IsSlice
<1>7. QED
  BY <1>6 DEF s

LEMMA SliceIs ==
  ASSUME NEW S, NEW b \in Seq(S), NEW i \in Nat \ {0}, NEW n \in Nat,
         i + n <= Len(b) + 1
  PROVE  /\ Slice(b, i, n) \in Seq(S)
         /\ Len(Slice(b, i, n)) = n
         /\ \A k \in 1 .. n : Slice(b, i, n)[k] = b[i + k - 1]
<1>1. IsSlice(Slice(b, i, n), S, b, i, n)
  BY SlicedIs
<1>2. QED
  BY <1>1, Zenon DEF IsSlice

\* Three strings one after the other, and each of them found again by position.
LEMMA Parts ==
  ASSUME NEW S, NEW s \in Seq(S), NEW t \in Seq(S), NEW u \in Seq(S)
  PROVE  /\ s \o t \o u \in Seq(S)
         /\ Len(s \o t \o u) = Len(s) + Len(t) + Len(u)
         /\ \A k \in 1 .. Len(s) : (s \o t \o u)[k] = s[k]
         /\ \A k \in 1 .. Len(t) : (s \o t \o u)[Len(s) + k] = t[k]
         /\ \A k \in 1 .. Len(u) : (s \o t \o u)[Len(s) + Len(t) + k] = u[k]
         /\ Slice(s \o t \o u, Len(s) + 1, Len(t)) = t
         /\ Slice(s \o t \o u, Len(s) + Len(t) + 1, Len(u)) = u
<1> DEFINE q == s \o t
           b == q \o u
<1>1. Len(s) \in Nat /\ Len(t) \in Nat /\ Len(u) \in Nat
  OBVIOUS
<1>2. /\ q \in Seq(S) /\ Len(q) = Len(s) + Len(t)
      /\ \A k \in 1 .. Len(s) + Len(t) : q[k] = IF k <= Len(s) THEN s[k] ELSE t[k - Len(s)]
  BY ConcatProperties
<1> HIDE DEF q
<1>3. /\ b \in Seq(S) /\ Len(b) = Len(q) + Len(u)
      /\ \A k \in 1 .. Len(q) + Len(u) : b[k] = IF k <= Len(q) THEN q[k] ELSE u[k - Len(q)]
  <2>1. q \in Seq(S)
    BY <1>2
  <2>2. QED
    BY <2>1, ConcatProperties
<1> HIDE DEF b
<1>4. \A k \in 1 .. Len(s) : b[k] = s[k]
  BY <1>1, <1>2, <1>3
<1>5. ASSUME NEW k \in 1 .. Len(t) PROVE b[Len(s) + k] = t[k]
  <2>1. Len(s) + k \in 1 .. Len(s) + Len(t) /\ ~(Len(s) + k <= Len(s))
        /\ (Len(s) + k) - Len(s) = k
    BY <1>1
  <2>2. b[Len(s) + k] = q[Len(s) + k]
    BY <1>1, <1>2, <1>3, <2>1
  <2>3. QED
    BY <1>2, <2>1, <2>2
<1>6. ASSUME NEW k \in 1 .. Len(u) PROVE b[Len(s) + Len(t) + k] = u[k]
  <2>1. Len(q) + k \in 1 .. Len(q) + Len(u) /\ ~(Len(q) + k <= Len(q))
        /\ (Len(q) + k) - Len(q) = k
    BY <1>1, <1>2
  <2>2. QED
    BY <1>2, <1>3, <2>1
<1>7. Slice(b, Len(s) + 1, Len(t)) = t
  <2> DEFINE i == Len(s) + 1
             v == Slice(b, i, Len(t))
  <2>1. \A k \in 1 .. Len(t) : i + k - 1 = Len(s) + k
    BY <1>1
  <2>2. i \in Nat \ {0} /\ i + Len(t) <= Len(b) + 1
    BY <1>1, <1>2, <1>3
  <2> HIDE DEF i
  <2>3. v \in Seq(S) /\ Len(v) = Len(t) /\ \A k \in 1 .. Len(t) : v[k] = b[i + k - 1]
    BY <1>1, <1>3, <2>2, SliceIs
  <2> HIDE DEF v
  <2>4. \A k \in 1 .. Len(t) : v[k] = t[k]
    BY <1>5, <2>1, <2>3
  <2>5. v = t
    BY <2>3, <2>4, SeqEqual
  <2>6. QED
    BY <2>5 DEF v, i
<1>8. Slice(b, Len(s) + Len(t) + 1, Len(u)) = u
  <2> DEFINE i == Len(s) + Len(t) + 1
             v == Slice(b, i, Len(u))
  <2>1. \A k \in 1 .. Len(u) : i + k - 1 = Len(s) + Len(t) + k
    BY <1>1
  <2>2. i \in Nat \ {0} /\ i + Len(u) <= Len(b) + 1
    BY <1>1, <1>2, <1>3
  <2> HIDE DEF i
  <2>3. v \in Seq(S) /\ Len(v) = Len(u) /\ \A k \in 1 .. Len(u) : v[k] = b[i + k - 1]
    <3> DEFINE n == Len(u)
    <3>1. n \in Nat /\ b \in Seq(S)
      BY <1>1, <1>3
    <3>2. i + n <= Len(b) + 1
      BY <2>2
    <3> HIDE DEF n
    <3>3. /\ Slice(b, i, n) \in Seq(S) /\ Len(Slice(b, i, n)) = n
          /\ \A k \in 1 .. n : Slice(b, i, n)[k] = b[i + k - 1]
      <4>1. IsSlice(Slice(b, i, n), S, b, i, n)
        BY <2>2, <3>1, <3>2, SlicedIs
      <4>2. QED
        BY <4>1, Zenon DEF IsSlice
    <3>4. QED
      BY <3>3 DEF n
  <2> HIDE DEF v
  <2>4. \A k \in 1 .. Len(u) : v[k] = u[k]
    BY <1>6, <2>1, <2>3
  <2>5. v = u
    BY <2>3, <2>4, SeqEqual
  <2>6. QED
    BY <2>5 DEF v, i
<1>9. QED
  BY <1>2, <1>3, <1>4, <1>5, <1>6, <1>7, <1>8 DEF b, q

\* A slice inside one part of a concatenation is a slice of that part.
LEMMA SliceWithin ==
  ASSUME NEW S, NEW s \in Seq(S), NEW t \in Seq(S), NEW i \in Nat \ {0}, NEW n \in Nat
  PROVE  /\ i + n <= Len(s) + 1 => Slice(s \o t, i, n) = Slice(s, i, n)
         /\ i + n <= Len(t) + 1 => Slice(s \o t, Len(s) + i, n) = Slice(t, i, n)
         /\ Slice(s, 1, Len(s)) = s
<1> DEFINE b == s \o t
           m == Len(s)
<1>1. m \in Nat /\ Len(t) \in Nat
  OBVIOUS
<1>2. /\ b \in Seq(S) /\ Len(b) = m + Len(t)
      /\ \A k \in 1 .. m + Len(t) : b[k] = IF k <= m THEN s[k] ELSE t[k - m]
  BY ConcatProperties
<1> HIDE DEF b
<1>3. ASSUME i + n <= m + 1 PROVE Slice(b, i, n) = Slice(s, i, n)
  <2> DEFINE v == Slice(b, i, n)
             w == Slice(s, i, n)
  <2>1. v \in Seq(S) /\ Len(v) = n /\ \A k \in 1 .. n : v[k] = b[i + k - 1]
    <3>1. b \in Seq(S) /\ i + n <= Len(b) + 1
      BY <1>1, <1>2, <1>3
    <3>2. IsSlice(v, S, b, i, n)
      BY <3>1, SlicedIs
    <3> HIDE DEF v
    <3>3. QED
      BY <3>2, Zenon DEF IsSlice
  <2>2. w \in Seq(S) /\ Len(w) = n /\ \A k \in 1 .. n : w[k] = s[i + k - 1]
    BY <1>1, <1>3, SliceIs
  <2>3. \A k \in 1 .. n : i + k - 1 \in 1 .. m + Len(t) /\ i + k - 1 <= m
    BY <1>1, <1>3
  <2> HIDE DEF v, w
  <2>4. \A k \in 1 .. n : v[k] = w[k]
    BY <1>2, <2>1, <2>2, <2>3
  <2>5. v = w
    BY <2>1, <2>2, <2>4, SeqEqual
  <2>6. QED
    BY <2>5 DEF v, w
<1>4. ASSUME i + n <= Len(t) + 1 PROVE Slice(b, m + i, n) = Slice(t, i, n)
  <2> DEFINE j == m + i
             v == Slice(b, j, n)
             w == Slice(t, i, n)
  <2>1. j \in Nat \ {0} /\ j + n <= Len(b) + 1
    BY <1>1, <1>2, <1>4
  <2>2. \A k \in 1 .. n : /\ j + k - 1 \in 1 .. m + Len(t) /\ ~ (j + k - 1 <= m)
                          /\ (j + k - 1) - m = i + k - 1
    BY <1>1, <1>4
  <2> HIDE DEF j
  <2>3. v \in Seq(S) /\ Len(v) = n /\ \A k \in 1 .. n : v[k] = b[j + k - 1]
    BY <1>2, <2>1, SliceIs
  <2>4. w \in Seq(S) /\ Len(w) = n /\ \A k \in 1 .. n : w[k] = t[i + k - 1]
    BY <1>1, <1>4, SliceIs
  <2> HIDE DEF v, w
  <2>5. ASSUME NEW k \in 1 .. n PROVE v[k] = w[k]
    <3>1. v[k] = b[j + k - 1] /\ w[k] = t[i + k - 1]
      BY <2>3, <2>4
    <3>2. b[j + k - 1] = t[(j + k - 1) - m]
      BY <1>2, <2>2
    <3>3. QED
      BY <2>2, <3>1, <3>2
  <2>6. v = w
    BY <2>3, <2>4, <2>5, SeqEqual
  <2>7. QED
    BY <2>6 DEF v, w, j
<1>5. Slice(s, 1, m) = s
  <2>1. 1 + m - 1 = m
    BY <1>1
  <2>2. QED
    BY <2>1, SubSeqFull DEF Slice
<1>6. QED
  BY <1>3, <1>4, <1>5 DEF b

\* One element before the others.
LEMMA OneThen ==
  ASSUME NEW S, NEW x \in S, NEW e \in Seq(S)
  PROVE  /\ <<x>> \o e \in Seq(S) /\ Len(<<x>> \o e) = Len(e) + 1
         /\ (<<x>> \o e)[1] = x
         /\ \A k \in 1 .. Len(e) : (<<x>> \o e)[k + 1] = e[k]
         /\ Slice(<<x>> \o e, 2, Len(e)) = e
<1> DEFINE z == <<x>>
           one == 1
           n == Len(e)
<1>1. z \in Seq(S) /\ Len(z) = one /\ z[1] = x
  OBVIOUS
<1>2. one \in Nat \ {0} /\ n \in Nat /\ one + n <= n + 1
  OBVIOUS
<1>3. Slice(e, one, n) = e
  BY SubSeqFull DEF Slice
<1> HIDE DEF z, one
<1>4. /\ z \o e \in Seq(S) /\ Len(z \o e) = Len(z) + Len(e)
      /\ \A i \in 1 .. Len(z) + Len(e) :
           (z \o e)[i] = IF i <= Len(z) THEN z[i] ELSE e[i - Len(z)]
  BY <1>1, ConcatProperties
<1>5. Slice(z \o e, Len(z) + one, n) = Slice(e, one, n)
  <2>1. z \in Seq(S)
    BY <1>1
  <2>2. QED
    BY <1>2, <2>1, SliceWithin
<1>6. Len(z) = 1 /\ one = 1
  BY <1>1 DEF one
<1>7. \A k \in 1 .. n : /\ k + 1 \in 1 .. 1 + n /\ ~(k + 1 <= 1) /\ (k + 1) - 1 = k
  BY <1>2
<1>8. \A k \in 1 .. n : (z \o e)[k + 1] = e[k]
  BY <1>4, <1>6, <1>7
<1>9. QED
  BY <1>1, <1>2, <1>3, <1>4, <1>5, <1>6, <1>8 DEF z

-----------------------------------------------------------------------------
(***************************************************************************)
(* An APDU is read as it was meant (ApduChannel.h:21-24), with any data    *)
(* and any answer that two bytes can count.                                *)
(***************************************************************************)
LEMMA ApduOf ==
  ASSUME NEW data \in Seq(Byte), Len(data) < Base * Base,
         NEW ne \in Nat, ne < Base * Base, NEW force \in BOOLEAN
  PROVE  ReadApdu(ToBytes(data, ne, force)) = [data |-> data, ne |-> ne]
<1> DEFINE n == Len(data)
           L == BigEndian(n, 2)
           le == IF ne = 0 THEN <<>> ELSE BigEndian(ne, 2)
           b == ToBytes(data, ne, force)
<1>1. n \in Nat /\ (data = <<>> <=> n = 0) /\ 0 \in Byte /\ 0 < Base /\ Base \in Nat
  BY OctetAssumption DEF Byte
<1>2. /\ L \in Seq(Byte) /\ Len(L) = 2 /\ Number(L) = n
      /\ BigEndian(ne, 2) \in Seq(Byte) /\ Len(BigEndian(ne, 2)) = 2
      /\ Number(BigEndian(ne, 2)) = ne
  BY <1>1, BigEndianIs, FitsShort
<1>3. CASE data = <<>>
  <2>1. CASE ne # 0 /\ IsExtended(data, ne, force)
    <3> DEFINE e == BigEndian(ne, 2)
    <3>1. e \in Seq(Byte) /\ Len(e) = 2 /\ Number(e) = ne
      BY <1>2
    <3>2. b = <<0>> \o e
      BY <1>3, <2>1 DEF ToBytes
    <3> HIDE DEF e, b
    <3>3. Len(b) = 3 /\ b[1] = 0 /\ Slice(b, 2, 2) = e
      <4>1. 0 \in Byte /\ e \in Seq(Byte)
        BY <1>1, <3>1
      <4>2. /\ Len(<<0>> \o e) = Len(e) + 1 /\ (<<0>> \o e)[1] = 0
            /\ Slice(<<0>> \o e, 2, Len(e)) = e
        BY <4>1, OneThen
      <4>3. QED
        BY <3>1, <3>2, <4>2
    <3>4. ReadApdu(b) = [data |-> <<>>, ne |-> Number(Slice(b, 2, 2))]
      BY <3>3 DEF ReadApdu
    <3>5. QED
      BY <1>3, <3>1, <3>3, <3>4 DEF b
  <2>2. CASE ne = 0
    <3>1. b = <<>>
      BY <1>3, <2>2 DEF ToBytes, ShortLe
    <3> HIDE DEF b
    <3>2. ReadApdu(b) = [data |-> <<>>, ne |-> 0]
      BY <3>1 DEF ReadApdu
    <3>3. QED
      BY <1>3, <2>2, <3>2 DEF b
  <2>3. CASE ne # 0 /\ ~IsExtended(data, ne, force)
    <3>1. ne <= Base
      BY <1>1, <2>3 DEF IsExtended
    <3>2. b = IF ne = Base THEN <<0>> ELSE <<ne>>
      BY <1>3, <2>3 DEF ToBytes, ShortLe
    <3> HIDE DEF b
    <3>3. b # <<>> /\ Len(b) = 1 /\ b[1] = IF ne = Base THEN 0 ELSE ne
      BY <3>2
    <3>4. ReadApdu(b) = [data |-> <<>>, ne |-> IF b[1] = 0 THEN Base ELSE b[1]]
      BY <3>3 DEF ReadApdu
    <3>5. (IF b[1] = 0 THEN Base ELSE b[1]) = ne
      BY <2>3, <3>3
    <3>6. QED
      BY <1>3, <3>4, <3>5 DEF b
  <2>4. QED
    BY <2>1, <2>2, <2>3
<1>4. CASE data # <<>> /\ IsExtended(data, ne, force)
  <2> DEFINE s == <<0>> \o L
  <2>1. s \in Seq(Byte) /\ Len(s) = 3 /\ s[1] = 0 /\ Slice(s, 2, 2) = L
    <3> HIDE DEF L
    <3>1. 0 \in Byte /\ L \in Seq(Byte)
      BY <1>1, <1>2
    <3>2. /\ s \in Seq(Byte) /\ Len(s) = Len(L) + 1 /\ s[1] = 0
          /\ Slice(s, 2, Len(L)) = L
      BY <3>1, OneThen
    <3>3. QED
      BY <1>2, <3>2
  <2>2. le \in Seq(Byte) /\ Len(le) = IF ne = 0 THEN 0 ELSE 2
    <3>1. <<>> \in Seq(Byte) /\ Len(<<>>) = 0
      OBVIOUS
    <3>2. QED
      BY <1>2, <3>1
  <2>3. b = s \o data \o le
    BY <1>4 DEF ToBytes
  <2> HIDE DEF b, s, le, L
  <2>4. /\ b \in Seq(Byte) /\ Len(b) = 3 + n + Len(le)
        /\ b[1] = 0
        /\ Slice(b, 4, n) = data
        /\ Slice(b, 4 + n, Len(le)) = le
    <3>1. /\ s \o data \o le \in Seq(Byte)
          /\ Len(s \o data \o le) = Len(s) + Len(data) + Len(le)
          /\ \A k \in 1 .. Len(s) : (s \o data \o le)[k] = s[k]
          /\ Slice(s \o data \o le, Len(s) + 1, Len(data)) = data
          /\ Slice(s \o data \o le, Len(s) + Len(data) + 1, Len(le)) = le
      <4>1. s \in Seq(Byte) /\ le \in Seq(Byte)
        BY <2>1, <2>2
      <4>2. QED
        BY <4>1, Parts
    <3>2. Len(s) + Len(data) + 1 = 4 + n /\ Len(s) + 1 = 4 /\ 1 \in 1 .. Len(s)
      BY <1>1, <2>1
    <3>3. QED
      BY <2>1, <2>3, <3>1, <3>2
  <2>5. Slice(b, 2, 2) = L
    <3> DEFINE q == s \o data
               i == 2
    <3>1. q \in Seq(Byte) /\ Len(q) = Len(s) + Len(data)
      BY <2>1, ConcatProperties
    <3>2. i \in Nat \ {0} /\ i \in Nat /\ i + i <= Len(s) + 1 /\ i + i <= Len(q) + 1
      BY <1>1, <2>1, <3>1
    <3> HIDE DEF i
    <3>3. Slice(s \o data, i, i) = Slice(s, i, i)
      <4>1. s \in Seq(Byte)
        BY <2>1
      <4>2. QED
        BY <3>2, <4>1, SliceWithin
    <3> HIDE DEF q
    <3>4. Slice(q \o le, i, i) = Slice(q, i, i)
      BY <2>2, <3>1, <3>2, SliceWithin
    <3>5. QED
      BY <2>1, <2>3, <3>3, <3>4 DEF q, i
  <2>6. Number(Slice(b, 2, 2)) = n
    BY <1>2, <2>5
  <2>7. Len(b) > 3
    BY <1>1, <1>4, <2>2, <2>4
  <2>8. ReadApdu(b) = [data |-> Slice(b, 4, n),
                       ne |-> IF Len(b) = 4 + n - 1 THEN 0
                              ELSE IF Len(b) = 4 + n
                              THEN IF b[4 + n] = 0 THEN Base ELSE b[4 + n]
                              ELSE Number(Slice(b, 4 + n, 2))]
    BY <2>4, <2>6, <2>7 DEF ReadApdu
  <2>9. CASE ne = 0
    <3>1. Len(b) = 4 + n - 1
      BY <1>1, <2>2, <2>4, <2>9
    <3>2. QED
      BY <2>4, <2>8, <2>9, <3>1 DEF b
  <2>10. CASE ne # 0
    <3>1. Len(b) # 4 + n - 1 /\ Len(b) # 4 + n /\ Len(le) = 2
      BY <1>1, <2>2, <2>4, <2>10
    <3>2. Number(le) = ne
      BY <1>2, <2>10 DEF le
    <3>3. QED
      BY <2>4, <2>8, <3>1, <3>2 DEF b
  <2>11. QED
    BY <2>9, <2>10
<1>5. CASE data # <<>> /\ ~IsExtended(data, ne, force)
  <2> DEFINE s == <<n>>
             e == ShortLe(ne)
  <2>1. n < Base /\ n > 0 /\ ne <= Base
    BY <1>1, <1>5 DEF IsExtended
  <2>2. s \in Seq(Byte) /\ Len(s) = 1 /\ s[1] = n
    <3>1. n \in Byte
      BY <1>1, <2>1 DEF Byte
    <3>2. QED
      BY <3>1
  <2>3. /\ e \in Seq(Byte) /\ Len(e) = IF ne = 0 THEN 0 ELSE 1
        /\ ne # 0 => e[1] = IF ne = Base THEN 0 ELSE ne
    <3>1. CASE ne = 0
      <4>1. e = <<>>
        BY <3>1 DEF ShortLe
      <4>2. <<>> \in Seq(Byte) /\ Len(<<>>) = 0
        OBVIOUS
      <4> HIDE DEF e
      <4>3. QED
        BY <3>1, <4>1, <4>2
    <3>2. CASE ne # 0
      <4> DEFINE x == IF ne = Base THEN 0 ELSE ne
      <4>1. e = <<x>>
        BY <3>2 DEF ShortLe
      <4>2. x \in Byte
        BY <1>1, <2>1 DEF Byte
      <4> HIDE DEF x
      <4>3. e \in Seq(Byte) /\ Len(e) = 1 /\ e[1] = x
        BY <4>1, <4>2
      <4>4. QED
        BY <3>2, <4>3 DEF x
    <3>3. QED
      BY <3>1, <3>2
  <2>4. b = s \o data \o e
    BY <1>5 DEF ToBytes
  <2> HIDE DEF b, s, e
  <2>5. /\ b \in Seq(Byte) /\ Len(b) = 1 + n + Len(e)
        /\ b[1] = n
        /\ Slice(b, 2, n) = data
        /\ ne # 0 => b[2 + n] = e[1]
    <3>1. /\ s \o data \o e \in Seq(Byte)
          /\ Len(s \o data \o e) = Len(s) + Len(data) + Len(e)
          /\ \A k \in 1 .. Len(s) : (s \o data \o e)[k] = s[k]
          /\ \A k \in 1 .. Len(e) : (s \o data \o e)[Len(s) + Len(data) + k] = e[k]
          /\ Slice(s \o data \o e, Len(s) + 1, Len(data)) = data
      <4>1. s \in Seq(Byte) /\ e \in Seq(Byte)
        BY <2>2, <2>3
      <4>2. QED
        BY <4>1, Parts
    <3>2. Len(s) + 1 = 2 /\ 1 \in 1 .. Len(s) /\ Len(s) + Len(data) + 1 = 2 + n
      BY <1>1, <2>2
    <3>3. ne # 0 => 1 \in 1 .. Len(e)
      BY <2>3
    <3>4. QED
      BY <2>2, <2>4, <3>1, <3>2, <3>3
  <2>6. b # <<>> /\ Len(b) # 1 /\ b[1] # 0
    BY <1>1, <2>1, <2>3, <2>5
  <2>7. ReadApdu(b) = [data |-> Slice(b, 2, n),
                       ne |-> IF Len(b) = 2 + n - 1 THEN 0
                              ELSE IF Len(b) = 2 + n
                              THEN IF b[2 + n] = 0 THEN Base ELSE b[2 + n]
                              ELSE Number(Slice(b, 2 + n, 2))]
    BY <2>5, <2>6 DEF ReadApdu
  <2>8. CASE ne = 0
    <3>1. Len(b) = 2 + n - 1
      BY <1>1, <2>3, <2>5, <2>8
    <3>2. QED
      BY <2>5, <2>7, <2>8, <3>1 DEF b
  <2>9. CASE ne # 0
    <3>1. Len(b) # 2 + n - 1 /\ Len(b) = 2 + n
      BY <1>1, <2>3, <2>5, <2>9
    <3>2. (IF b[2 + n] = 0 THEN Base ELSE b[2 + n]) = ne
      BY <1>1, <2>3, <2>5, <2>9
    <3>3. QED
      BY <2>5, <2>7, <3>1, <3>2 DEF b
  <2>10. QED
    BY <2>8, <2>9
<1>6. QED
  BY <1>3, <1>4, <1>5

(***************************************************************************)
(* The bytes of a command are read in one way, to the data and Ne it was   *)
(* made of (ApduChannel.h:21-24), wherever the data's length fits two      *)
(* bytes.                                                                  *)
(***************************************************************************)
THEOREM ApduRight ==
  ASSUME MaxInput < Base * Base, MaxZeros < Base * Base
  PROVE  Spec => []ApduReads
<1>1. InputIs => Len(input) < Base * Base
  BY OctetAssumption, CodecsAssumption DEF InputIs
<1>2. \A ne \in {0, 1, Base - 1, Base, Base + 1} : ne \in Nat /\ ne < Base * Base
  BY OctetAssumption
<1>3. InputIs => ApduReads
  BY <1>1, <1>2, ApduOf DEF InputIs, ApduReads
<1>4. QED
  BY <1>3, TypeCorrect, PTL

-----------------------------------------------------------------------------
\* FlattenSeq, one part after the other.
Flattens(f, ss, S) ==
  /\ f \in [0 .. Len(ss) -> Seq(S)]
  /\ f[0] = <<>>
  /\ \A k \in 1 .. Len(ss) : f[k] = f[k - 1] \o ss[k]
  /\ FlattenSeq(ss) = f[Len(ss)]

\* FlattenSeq is the last of the concatenations of the first parts.
LEMMA FlattenIs ==
  ASSUME NEW S, NEW ss \in Seq(Seq(S))
  PROVE  \E f : Flattens(f, ss, S)
<1> DEFINE w == Len(ss)
           Is(g) == g = [i \in 1 .. Len(ss) |-> IF i = 1 THEN ss[i] ELSE g[i - 1] \o ss[i]]
           step == [k \in 1 .. w |-> [v \in Seq(S) |-> v \o ss[k]]]
<1>1. w \in Nat /\ (\A k \in 1 .. w : ss[k] \in Seq(S)) /\ <<>> \in Seq(S)
  OBVIOUS
<1>2. PICK e : Iterates(e, <<>>, step, w, Seq(S))
  <2>1. \A k \in 1 .. w, v \in Seq(S) : v \o ss[k] \in Seq(S)
    BY <1>1, ConcatProperties
  <2>2. AreSteps(step, w, Seq(S))
    BY <2>1 DEF AreSteps
  <2> HIDE DEF step, w
  <2>3. QED
    BY <1>1, <2>2, Iteration
<1>3. Is([i \in 1 .. w |-> e[i]])
  <2> DEFINE g == [i \in 1 .. w |-> e[i]]
  <2>1. e[0] = <<>> /\ e \in [0 .. w -> Seq(S)]
    BY <1>2 DEF Iterates
  <2>2. ASSUME NEW i \in 1 .. w
        PROVE  g[i] = IF i = 1 THEN ss[i] ELSE g[i - 1] \o ss[i]
    <3>1. i - 1 \in 0 .. w
      BY <1>1
    <3>2. e[i] = e[i - 1] \o ss[i]
      <4>1. e[i - 1] \in Seq(S)
        BY <2>1, <3>1
      <4>2. e[i] = step[i][e[i - 1]]
        <5> HIDE DEF step, w
        <5>1. QED
          BY <1>2 DEF Iterates
      <4>3. QED
        BY <4>1, <4>2
    <3>3. CASE i = 1
      <4>1. <<>> \o ss[i] = ss[i]
        BY <1>1, ConcatEmptySeq
      <4>2. e[i - 1] = <<>> /\ g[i] = e[i]
        BY <2>1, <3>3
      <4>3. QED
        BY <3>2, <3>3, <4>1, <4>2
    <3>4. CASE i # 1
      <4>1. i - 1 \in 1 .. w
        BY <3>4
      <4>2. QED
        BY <3>2, <3>4, <4>1
    <3>5. QED
      BY <3>3, <3>4
  <2> HIDE DEF step
  <2>3. QED
    BY <2>2
<1>4. Is(CHOOSE g : Is(g))
  <2> DEFINE g0 == [i \in 1 .. w |-> e[i]]
  <2> HIDE DEF Is, g0
  <2>1. Is(g0)
    BY <1>3 DEF g0
  <2>2. QED
    BY <2>1
<1> DEFINE h == CHOOSE g : Is(g)
<1>5. FlattenSeq(ss) = IF w = 0 THEN ss ELSE h[w]
  BY DEF FlattenSeq
<1>6. h = [i \in 1 .. w |-> IF i = 1 THEN ss[i] ELSE h[i - 1] \o ss[i]]
  BY <1>4
<1> HIDE DEF h, Is, step
<1> DEFINE f == [k \in 0 .. w |-> IF k = 0 THEN <<>> ELSE h[k]]
<1>7. f[0] = <<>> /\ f[w] = FlattenSeq(ss)
  <2>1. w = 0 => ss = <<>>
    OBVIOUS
  <2>2. 0 \in 0 .. w /\ w \in 0 .. w
    BY <1>1
  <2>3. QED
    BY <1>5, <2>1, <2>2
<1>8. ASSUME NEW k \in 1 .. w PROVE f[k] = f[k - 1] \o ss[k]
  <2>1. k \in 0 .. w /\ k # 0 /\ k - 1 \in 0 .. w /\ f[k] = h[k]
    OBVIOUS
  <2>2. h[k] = IF k = 1 THEN ss[k] ELSE h[k - 1] \o ss[k]
    BY <1>6
  <2>3. CASE k = 1
    <3>1. <<>> \o ss[k] = ss[k]
      BY <1>1, ConcatEmptySeq
    <3>2. f[k - 1] = <<>>
      BY <2>3
    <3>3. QED
      BY <2>1, <2>2, <2>3, <3>1, <3>2
  <2>4. CASE k # 1
    <3>1. f[k - 1] = h[k - 1]
      BY <2>4
    <3>2. QED
      BY <2>1, <2>2, <2>4, <3>1
  <2>5. QED
    BY <2>3, <2>4
<1>9. f = [k \in 0 .. w |-> f[k]]
  OBVIOUS
<1> HIDE DEF f
<1>10. \A k \in 0 .. w : f[k] \in Seq(S)
  <2> DEFINE T == {k \in 0 .. w : f[k] \in Seq(S)}
  <2>1. 0 \in T
    <3>1. 0 \in 0 .. w
      BY <1>1
    <3>2. f[0] \in Seq(S)
      BY <1>7, EmptySeq
    <3>3. QED
      BY <3>1, <3>2
  <2>2. ASSUME NEW k \in 0 .. w, k \in T, k # w PROVE k + 1 \in T
    <3>1. k + 1 \in 1 .. w /\ (k + 1) - 1 = k
      BY <1>1, <2>2
    <3>2. f[k + 1] = f[(k + 1) - 1] \o ss[k + 1] /\ ss[k + 1] \in Seq(S)
      BY <1>1, <1>8, <3>1
    <3>3. f[k] \in Seq(S)
      BY <2>2
    <3>4. f[k] \o ss[k + 1] \in Seq(S)
      BY <3>2, <3>3, ConcatProperties
    <3>5. f[k + 1] \in Seq(S)
      BY <3>1, <3>2, <3>4
    <3>6. QED
      BY <3>1, <3>5
  <2>3. \A k \in 0 .. w : k \in T
    <3> HIDE DEF T
    <3>1. QED
      BY <1>1, <2>1, <2>2, UpTo
  <2>4. QED
    BY <2>3
<1>11. Flattens(f, ss, S)
  BY <1>7, <1>8, <1>9, <1>10 DEF Flattens
<1>12. QED
  BY <1>11

-----------------------------------------------------------------------------
\* n things in parts of size: every part but the last is full.
LEMMA CountIs ==
  ASSUME NEW n \in Nat, NEW size \in Nat \ {0}
  PROVE  /\ Count(n, size) \in Nat \ {0}
         /\ n <= Count(n, size) * size
         /\ \A k \in 0 .. Count(n, size) - 1 : k * size \in Nat /\ k * size <= n
         /\ \A k \in 1 .. Count(n, size) - 1 : k * size < n
<1> DEFINE c == Count(n, size)
<1>1. CASE n = 0
  <2>1. c = 1
    BY <1>1 DEF Count
  <2>2. 0 * size = 0 /\ 1 * size = size
    OBVIOUS
  <2>3. \A k \in 0 .. 1 - 1 : k = 0
    OBVIOUS
  <2> HIDE DEF c
  <2>4. /\ n <= c * size
        /\ \A k \in 0 .. c - 1 : k * size \in Nat /\ k * size <= n
        /\ \A k \in 1 .. c - 1 : k * size < n
    BY <1>1, <2>1, <2>2, <2>3
  <2>5. QED
    BY <2>1, <2>4 DEF c
<1>2. CASE n # 0
  <2> DEFINE a == n + size - 1
  <2>1. c = a \div size
    BY <1>2 DEF Count
  <2>2. a \in Nat /\ a >= size
    BY <1>2
  <2> HIDE DEF a, c
  <2>3. a = size * (a \div size) + (a % size) /\ a \div size \in Nat
        /\ a % size \in 0 .. size - 1
    BY <2>2
  <2>4. a = size * c + (a % size) /\ c \in Nat
    BY <2>1, <2>3
  <2>5. size * c = c * size /\ c * size \in Nat
    BY <2>4
  <2>6. n <= c * size /\ c * size <= n + size - 1
    BY <2>3, <2>4, <2>5 DEF a
  <2>7. c # 0
    BY <1>2, <2>6
  <2>8. ASSUME NEW k \in 0 .. c - 1 PROVE k * size \in Nat /\ k * size < n
    <3>1. k * size \in Nat /\ (k + 1) * size = k * size + size /\ k + 1 <= c
      BY <2>4
    <3>2. (k + 1) * size <= c * size
      BY <2>4, <3>1
    <3>3. QED
      BY <2>5, <2>6, <3>1, <3>2
  <2>9. QED
    BY <2>4, <2>6, <2>7, <2>8 DEF c
<1>3. QED
  BY <1>1, <1>2

(***************************************************************************)
(* The chunks of a command, at any size a device may ask for              *)
(* (ApduChaining.h:18-58).                                                 *)
(***************************************************************************)
LEMMA ChainOf ==
  ASSUME NEW data \in Seq(Byte), Len(data) <= MaxPayload,
         NEW max \in Nat, max < Base * Base, NEW ne \in Nat, ne < Base * Base
  PROVE  LET chunks == Chained(data, ne, max)
         IN  /\ FlattenSeq([k \in DOMAIN chunks |-> chunks[k].data]) = data
             /\ \A k \in DOMAIN chunks :
                  /\ chunks[k].more <=> k < Len(chunks)
                  /\ k > 1 => chunks[k].data # <<>>
                  /\ max # 0 => Len(chunks[k].data) <= max
                  /\ ReadApdu(chunks[k].bytes) =
                       [data |-> chunks[k].data, ne |-> IF chunks[k].more THEN 0 ELSE ne]
<1> DEFINE n == Len(data)
           size == IF max = 0 THEN Base - 1 ELSE max
           c == Count(n, size)
           End(k) == IF k = c THEN n ELSE k * size
           Part(k) == SubSeq(data, (k - 1) * size + 1, End(k))
           Long(k) == Len(Part(k)) >= Base \/ (k = c /\ ne > Base)
           chunks == Chained(data, ne, max)
<1>1. size \in Nat \ {0} /\ size < Base * Base /\ n \in Nat
  BY OctetAssumption
<1>2. chunks = [k \in 1 .. c |-> Chunk(Part(k), ne, Long(k), k < c)]
  <2>1. ~ (Len(data) > MaxPayload)
    BY FramingAssumption
  <2>2. QED
    BY <2>1 DEF Chained
<1> HIDE DEF chunks, size
<1>3. /\ c \in Nat \ {0} /\ n <= c * size
      /\ \A k \in 0 .. c - 1 : k * size \in Nat /\ k * size <= n
      /\ \A k \in 1 .. c - 1 : k * size < n
  BY <1>1, CountIs
<1> HIDE DEF c
<1>4. ASSUME NEW k \in 1 .. c
      PROVE  /\ (k - 1) * size \in Nat /\ (k - 1) * size <= End(k)
             /\ End(k) <= n /\ End(k) <= (k - 1) * size + size
             /\ End(k) \in Nat
             /\ k > 1 => (k - 1) * size < End(k)
  <2>1. k - 1 \in 0 .. c - 1 /\ (k - 1) * size \in Nat /\ (k - 1) * size <= n
    BY <1>3
  <2>2. (k - 1) * size + size = k * size /\ k * size \in Nat
    BY <1>1
  <2>3. CASE k = c
    <3>1. k > 1 => (k - 1) * size < n
      BY <1>3
    <3>2. QED
      BY <1>1, <1>3, <2>1, <2>2, <2>3, <3>1
  <2>4. CASE k # c
    <3>1. k \in 1 .. c - 1
      BY <1>3, <2>4
    <3>2. k * size < n
      BY <1>3, <3>1
    <3>3. QED
      BY <1>1, <2>1, <2>2, <2>4, <3>2
  <2>5. QED
    BY <2>3, <2>4
<1>5. ASSUME NEW k \in 1 .. c
      PROVE  /\ Part(k) \in Seq(Byte) /\ Len(Part(k)) = End(k) - (k - 1) * size
             /\ Len(Part(k)) <= size
             /\ k > 1 => Part(k) # <<>>
  <2> DEFINE lo == (k - 1) * size
             hi == End(k)
  <2>1. /\ lo \in Nat /\ hi \in Nat /\ lo <= hi /\ hi <= n /\ hi <= lo + size
        /\ k > 1 => lo < hi
    BY <1>4
  <2> HIDE DEF lo, hi
  <2>2. /\ SubSeq(data, lo + 1, hi) \in Seq(Byte)
        /\ Len(SubSeq(data, lo + 1, hi)) = IF lo + 1 <= hi THEN hi - (lo + 1) + 1 ELSE 0
    <3>1. \A i \in lo + 1 .. hi : data[i] \in Byte
      BY <2>1
    <3>2. lo + 1 \in Int /\ hi \in Int
      BY <2>1
    <3>3. QED
      BY <3>1, <3>2, SubSeqProperties
  <2>3. Part(k) = SubSeq(data, lo + 1, hi)
    BY DEF lo, hi
  <2>4. Len(SubSeq(data, lo + 1, hi)) = hi - lo
    BY <2>1, <2>2
  <2>5. Part(k) \in Seq(Byte) /\ Len(Part(k)) = hi - lo
    BY <2>2, <2>3, <2>4
  <2> HIDE DEF Part
  <2>6. k > 1 => Part(k) # <<>>
    <3>1. k > 1 => Len(Part(k)) # 0
      BY <2>1, <2>5
    <3>2. QED
      BY <3>1
  <2>7. QED
    BY <1>1, <2>1, <2>5, <2>6 DEF lo, hi
<1>6. DOMAIN chunks = 1 .. c /\ Len(chunks) = c
  BY <1>2, <1>3
<1>7. ASSUME NEW k \in 1 .. c
      PROVE  /\ chunks[k].data = Part(k)
             /\ chunks[k].more = (k < c)
             /\ chunks[k].bytes = ToBytes(Part(k), IF k < c THEN 0 ELSE ne, Long(k))
  BY <1>2 DEF Chunk
<1> HIDE DEF Part, Long, End
<1>8. ASSUME NEW k \in 1 .. c
      PROVE  /\ chunks[k].more <=> k < Len(chunks)
             /\ k > 1 => chunks[k].data # <<>>
             /\ max # 0 => Len(chunks[k].data) <= max
             /\ ReadApdu(chunks[k].bytes) =
                  [data |-> chunks[k].data, ne |-> IF chunks[k].more THEN 0 ELSE ne]
  <2> DEFINE e == IF k < c THEN 0 ELSE ne
  <2>1. e \in Nat /\ e < Base * Base
    BY OctetAssumption
  <2>2. Part(k) \in Seq(Byte) /\ Len(Part(k)) < Base * Base
    BY <1>1, <1>5, OctetAssumption
  <2>3. Long(k) \in BOOLEAN
    BY DEF Long
  <2> HIDE DEF e
  <2>4. ReadApdu(ToBytes(Part(k), e, Long(k))) = [data |-> Part(k), ne |-> e]
    BY <2>1, <2>2, <2>3, ApduOf
  <2>5. QED
    BY <1>5, <1>6, <1>7, <2>4 DEF e, size
<1>9. FlattenSeq([k \in DOMAIN chunks |-> chunks[k].data]) = data
  <2> DEFINE ss == [k \in DOMAIN chunks |-> chunks[k].data]
  <2>1. ss = [k \in 1 .. c |-> Part(k)]
    BY <1>6, <1>7
  <2> HIDE DEF ss
  <2>2. ss \in Seq(Seq(Byte)) /\ Len(ss) = c /\ \A k \in 1 .. c : ss[k] = Part(k)
    BY <1>3, <1>5, <2>1
  <2>3. PICK f : Flattens(f, ss, Byte)
    BY <2>2, FlattenIs
  <2>4. /\ f[0] = <<>> /\ FlattenSeq(ss) = f[c]
        /\ \A k \in 1 .. c : f[k] = f[k - 1] \o Part(k)
    BY <2>2, <2>3 DEF Flattens
  <2> DEFINE To(k) == IF k = c THEN n ELSE k * size
             T == {k \in 0 .. c : f[k] = SubSeq(data, 1, To(k))}
  <2>5. 0 \in T
    <3>1. 0 \in 0 .. c /\ To(0) = 0
      BY <1>1, <1>3
    <3>2. SubSeq(data, 1, 0) = <<>>
      OBVIOUS
    <3>3. QED
      BY <2>4, <3>1, <3>2
  <2>6. ASSUME NEW k \in 0 .. c, k \in T, k # c PROVE k + 1 \in T
    <3>1. k + 1 \in 1 .. c /\ (k + 1) - 1 = k
      BY <1>3, <2>6
    <3>2. f[k + 1] = f[(k + 1) - 1] \o Part(k + 1)
      BY <2>4, <3>1
    <3> DEFINE lo == k * size
               hi == To(k + 1)
    <3>3. f[k] = SubSeq(data, 1, lo)
      BY <2>6
    <3>4. Part(k + 1) = SubSeq(data, lo + 1, hi)
      BY <3>1 DEF Part, End
    <3>5. lo \in Nat /\ hi \in Nat /\ lo <= hi /\ hi <= n
      BY <1>4, <3>1 DEF End
    <3> HIDE DEF lo, hi
    <3>6. SubSeq(data, 1, lo) \o SubSeq(data, lo + 1, hi) = SubSeq(data, 1, hi)
      <4>1. 1 \in 1 .. Len(data) + 1 /\ lo \in 1 - 1 .. Len(data) /\ hi \in lo .. Len(data)
        BY <1>1, <3>5
      <4>2. QED
        BY <4>1, ConcatAdjacentSubSeq
    <3>7. f[k + 1] = SubSeq(data, 1, hi)
      BY <3>1, <3>2, <3>3, <3>4, <3>6
    <3>8. QED
      BY <3>1, <3>7 DEF hi
  <2>7. \A k \in 0 .. c : k \in T
    <3> HIDE DEF T
    <3>1. QED
      BY <1>3, <2>5, <2>6, UpTo
  <2>8. f[c] = SubSeq(data, 1, n)
    BY <1>3, <2>7
  <2>9. QED
    BY <2>4, <2>8, SubSeqFull DEF ss
<1>10. QED
  BY <1>6, <1>8, <1>9 DEF chunks

(***************************************************************************)
(* The chunks of a chained command carry its data in order, within the     *)
(* limit, and the last alone ends the chain (ApduChaining.h:18-58). No     *)
(* bound is assumed: two bytes count every chunk.                          *)
(***************************************************************************)
THEOREM ChainingRight == Spec => []ChainingReassembles
<1>1. /\ \A max \in {0, 1, 3, Base - 1, Base, Base + 2} : max \in Nat /\ max < Base * Base
      /\ \A ne \in {0, Base, Base + 1} : ne \in Nat /\ ne < Base * Base
  BY OctetAssumption
<1>2. InputIs => ChainingReassembles
  BY <1>1, ChainOf DEF InputIs, ChainingReassembles
<1>3. QED
  BY <1>2, TypeCorrect, PTL

-----------------------------------------------------------------------------
\* A parser as a function of the position: where it ends it has a result, and
\* elsewhere it makes one of the result at a later position.
AreParts(ends, next, base, step, N, V) ==
  /\ base \in [1 .. N -> V]
  /\ \A i \in 1 .. N : \/ i \in ends
                       \/ next[i] \in i + 1 .. N /\ step[i] \in [V -> V]

Parses(f, ends, next, base, step, N, V) ==
  /\ f \in [1 .. N -> V]
  /\ \A i \in 1 .. N : f[i] = IF i \in ends THEN base[i] ELSE step[i][f[next[i]]]

\* A function with a parser's equation exists: the results from the end down.
LEMMA Parser ==
  ASSUME NEW N \in Nat, NEW V, NEW ends, NEW next, NEW base, NEW step,
         AreParts(ends, next, base, step, N, V)
  PROVE  \E f : Parses(f, ends, next, base, step, N, V)
<1> USE DEF AreParts
<1> DEFINE From(n) == N - n + 1 .. N
           Is(f, n) == /\ f \in [From(n) -> V]
                       /\ \A i \in From(n) :
                            f[i] = IF i \in ends THEN base[i] ELSE step[i][f[next[i]]]
           T == {n \in 0 .. N : \E f : Is(f, n)}
<1>1. 0 \in T
  <2>1. From(0) = {}
    OBVIOUS
  <2>2. Is([i \in From(0) |-> 0], 0)
    BY <2>1
  <2> HIDE DEF Is
  <2>3. \E f : Is(f, 0)
    BY <2>2
  <2>4. QED
    BY <2>3
<1>2. ASSUME NEW n \in 0 .. N, n \in T, n # N PROVE n + 1 \in T
  <2>1. PICK f : Is(f, n)
    BY <1>2
  <2> DEFINE p == N - n
             value == IF p \in ends THEN base[p] ELSE step[p][f[next[p]]]
             g == [i \in From(n + 1) |-> IF i = p THEN value ELSE f[i]]
  <2>2. /\ p \in 1 .. N /\ From(n) = p + 1 .. N
        /\ \A i : i \in From(n + 1) <=> i = p \/ i \in From(n)
    BY <1>2
  <2>3. value \in V
    <3>1. CASE p \in ends
      BY <2>2, <3>1
    <3>2. CASE p \notin ends
      <4>1. next[p] \in From(n)
        BY <2>2, <3>2
      <4>2. f[next[p]] \in V
        BY <2>1, <4>1
      <4>3. QED
        BY <2>2, <3>2, <4>2
    <3>3. QED
      BY <3>1, <3>2
  <2>4. \A i \in From(n) : i # p /\ f[i] \in V
    BY <2>1, <2>2
  <2> HIDE DEF From, p, value
  <2>5. g \in [From(n + 1) -> V]
    BY <2>2, <2>3, <2>4
  <2>6. \A i \in From(n) : g[i] = f[i] /\ i \in From(n + 1)
    BY <2>2, <2>4
  <2>7. g[p] = value
    BY <2>2
  <2>8. ASSUME NEW i \in From(n + 1)
        PROVE  g[i] = IF i \in ends THEN base[i] ELSE step[i][g[next[i]]]
    <3>1. i \in 1 .. N
      BY <1>2 DEF From
    <3>2. i \in ends \/ next[i] \in From(n)
      <4>1. i \in p .. N
        BY <1>2 DEF From, p
      <4>2. i \in ends \/ next[i] \in i + 1 .. N
        BY <3>1
      <4>3. QED
        BY <1>2, <4>1, <4>2 DEF From, p
    <3>3. i \in ends \/ g[next[i]] = f[next[i]]
      BY <2>6, <3>2
    <3>4. CASE i = p
      BY <2>7, <3>3, <3>4 DEF value
    <3>5. CASE i \in From(n)
      BY <2>1, <2>6, <3>3, <3>5
    <3>6. QED
      BY <2>2, <3>4, <3>5
  <2> HIDE DEF g
  <2>9. Is(g, n + 1)
    BY <2>5, <2>8
  <2> HIDE DEF Is
  <2>10. \E h : Is(h, n + 1)
    BY <2>9
  <2>11. QED
    BY <1>2, <2>10
<1>3. N \in T
  <2> HIDE DEF T
  <2>1. \A n \in 0 .. N : n \in T
    BY <1>1, <1>2, UpTo
  <2>2. QED
    BY <2>1
<1>4. PICK f : Is(f, N)
  BY <1>3
<1>5. From(N) = 1 .. N
  OBVIOUS
<1>6. Parses(f, ends, next, base, step, N, V)
  BY <1>4, <1>5 DEF Parses
<1>7. QED
  BY <1>6

\* What holds from the last position on, if it holds at a position whenever it
\* holds at the later ones, holds at all.
LEMMA Downward ==
  ASSUME NEW N \in Nat, NEW T,
         \A i \in 1 .. N : (\A j \in i + 1 .. N : j \in T) => i \in T
  PROVE  \A i \in 1 .. N : i \in T
<1> DEFINE U == {n \in 0 .. N : \A j \in N - n + 1 .. N : j \in T}
<1>1. 0 \in U
  OBVIOUS
<1>2. ASSUME NEW n \in 0 .. N, n \in U, n # N PROVE n + 1 \in U
  <2>1. N - n \in 1 .. N /\ (N - n) + 1 = N - n + 1 /\ N - (n + 1) + 1 = N - n
    BY <1>2
  <2>2. \A j \in (N - n) + 1 .. N : j \in T
    BY <1>2, <2>1
  <2>3. N - n \in T
    BY <2>1, <2>2
  <2>4. \A j \in N - n .. N : j = N - n \/ j \in N - n + 1 .. N
    BY <2>1
  <2>5. QED
    BY <1>2, <2>1, <2>3, <2>4
<1>3. \A n \in 0 .. N : n \in U
  <2> HIDE DEF U
  <2>1. QED
    BY <1>1, <1>2, UpTo
<1>4. N \in U
  BY <1>3
<1>5. N - N + 1 = 1
  OBVIOUS
<1>6. QED
  BY <1>4, <1>5

-----------------------------------------------------------------------------
\* What parsers answer, and the codes of items one after the other.
Answers(X) == [ok : BOOLEAN, items : Seq(X)]

\* Then puts an item before those of an answer, and all three forms are answers.
LEMMA ThenIs ==
  ASSUME NEW X, NEW x \in X, NEW r \in Answers(X)
  PROVE  /\ Then(x, r) \in Answers(X)
         /\ Then(x, r).ok = r.ok
         /\ Then(x, r).items = <<x>> \o r.items
         /\ Done(<<>>) \in Answers(X)
         /\ Stopped \in Answers(X)
<1>1. r.items \in Seq(X) /\ r.ok \in BOOLEAN /\ r = [ok |-> r.ok, items |-> r.items]
  BY DEF Answers
<1>2. <<x>> \o r.items \in Seq(X)
  BY <1>1
<1>3. Then(x, r) = [ok |-> r.ok, items |-> <<x>> \o r.items]
  <2> DEFINE o == r.ok
             y == r.items
             z == <<x>> \o y
  <2>1. r = [ok |-> o, items |-> y]
    BY <1>1
  <2> HIDE DEF o, y
  <2>2. Then(x, [ok |-> o, items |-> y]) = [ok |-> o, items |-> z]
    <3> HIDE DEF z
    <3>1. [[ok |-> o, items |-> y] EXCEPT !.items = z] = [ok |-> o, items |-> z]
      OBVIOUS
    <3>2. QED
      BY <3>1 DEF Then, z
  <2>3. QED
    BY <2>1, <2>2 DEF o, y
<1>4. <<>> \in Seq(X)
  OBVIOUS
<1>5. QED
  BY <1>1, <1>2, <1>3, <1>4 DEF Answers, Done, Stopped

\* Then of a complete answer is complete.
LEMMA ThenDone == \A x, u : Then(x, Done(u)) = Done(<<x>> \o u)
<1>1. \A t, v, w : [[ok |-> t, items |-> v] EXCEPT !.items = w] = [ok |-> t, items |-> w]
  OBVIOUS
<1>2. ASSUME NEW x, NEW u PROVE Then(x, Done(u)) = Done(<<x>> \o u)
  <2> DEFINE d == [ok |-> TRUE, items |-> u]
             w == <<x>> \o u
  <2>1. d.items = u
    OBVIOUS
  <2>2. [d EXCEPT !.items = <<x>> \o @] = [d EXCEPT !.items = w]
    BY <2>1
  <2>3. [d EXCEPT !.items = w] = [ok |-> TRUE, items |-> w]
    BY <1>1, Zenon
  <2>4. QED
    BY <2>2, <2>3, Zenon DEF Then, Done
<1>3. QED
  BY <1>2

Encodes(enc, X, S) == enc \in [X -> Seq(S)]

CodesOf(enc, xs) == [k \in DOMAIN xs |-> enc[xs[k]]]

Packs(enc, xs) == FlattenSeq(CodesOf(enc, xs))

\* The codes of a sequence of items, one for each.
LEMMA CodesAre ==
  ASSUME NEW X, NEW S, NEW enc, Encodes(enc, X, S), NEW xs \in Seq(X)
  PROVE  /\ CodesOf(enc, xs) \in Seq(Seq(S))
         /\ Len(CodesOf(enc, xs)) = Len(xs)
         /\ \A k \in 1 .. Len(xs) : CodesOf(enc, xs)[k] = enc[xs[k]]
<1>1. Len(xs) \in Nat /\ DOMAIN xs = 1 .. Len(xs)
  OBVIOUS
<1>2. \A k \in 1 .. Len(xs) : enc[xs[k]] \in Seq(S)
  BY DEF Encodes
<1>3. QED
  BY <1>1, <1>2 DEF CodesOf

\* Nothing is packed to nothing.
LEMMA PackNil == \A enc : Packs(enc, <<>>) = <<>>
<1>1. ASSUME NEW enc PROVE Packs(enc, <<>>) = <<>>
  <2> DEFINE ss == CodesOf(enc, <<>>)
  <2>1. DOMAIN <<>> = {}
    OBVIOUS
  <2>2. ss = <<>>
    BY <2>1 DEF CodesOf
  <2>3. Len(ss) = 0
    BY <2>2
  <2> HIDE DEF ss
  <2>4. FlattenSeq(ss) = <<>>
    BY <2>2, <2>3 DEF FlattenSeq
  <2>5. QED
    BY <2>4 DEF Packs, ss
<1>2. QED
  BY <1>1

\* FlattenSeq of one string before others.
LEMMA FlattenCons ==
  ASSUME NEW S, NEW x \in Seq(S), NEW ss \in Seq(Seq(S))
  PROVE  /\ FlattenSeq(<<x>> \o ss) = x \o FlattenSeq(ss)
         /\ FlattenSeq(ss) \in Seq(S)
<1> DEFINE tt == <<x>> \o ss
           n == Len(ss)
<1>1. /\ n \in Nat /\ tt \in Seq(Seq(S)) /\ Len(tt) = n + 1 /\ tt[1] = x
      /\ \A k \in 1 .. n : tt[k + 1] = ss[k]
  BY OneThen
<1> HIDE DEF tt
<1>2. PICK f : Flattens(f, tt, S)
  BY <1>1, FlattenIs
<1>3. PICK g : Flattens(g, ss, S)
  BY FlattenIs
<1>4. /\ f \in [0 .. n + 1 -> Seq(S)] /\ f[0] = <<>> /\ FlattenSeq(tt) = f[n + 1]
      /\ \A k \in 1 .. n + 1 : f[k] = f[k - 1] \o tt[k]
  BY <1>1, <1>2 DEF Flattens
<1>5. /\ g \in [0 .. n -> Seq(S)] /\ g[0] = <<>> /\ FlattenSeq(ss) = g[n]
      /\ \A k \in 1 .. n : g[k] = g[k - 1] \o ss[k]
  BY <1>3 DEF Flattens
<1>6. (\A k \in 0 .. n : g[k] \in Seq(S)) /\ \A k \in 1 .. n : ss[k] \in Seq(S)
  <2>1. \A k \in 0 .. n : g[k] \in Seq(S)
    BY <1>5
  <2>2. QED
    BY <2>1
<1> DEFINE T == {k \in 0 .. n : f[k + 1] = x \o g[k]}
<1>7. 0 \in T
  <2>1. f[1] = f[1 - 1] \o tt[1]
    BY <1>1, <1>4
  <2>2. <<>> \o x = x /\ x \o <<>> = x
    BY ConcatEmptySeq
  <2>3. f[1] = x
    <3>1. 1 - 1 = 0
      OBVIOUS
    <3>2. f[1] = <<>> \o x
      BY <1>1, <1>4, <2>1, <3>1
    <3>3. QED
      BY <2>2, <3>2
  <2>4. x \o g[0] = x
    BY <1>5, <2>2
  <2>5. 0 + 1 = 1 /\ 0 \in 0 .. n
    BY <1>1
  <2>6. QED
    BY <2>3, <2>4, <2>5
<1>8. ASSUME NEW k \in 0 .. n, k \in T, k # n PROVE k + 1 \in T
  <2> DEFINE i == k + 1
  <2>1. i \in 1 .. n /\ i + 1 \in 1 .. n + 1 /\ i - 1 = k /\ (i + 1) - 1 = i
    BY <1>1, <1>8
  <2> HIDE DEF i
  <2>2. f[i + 1] = f[(i + 1) - 1] \o tt[i + 1] /\ tt[i + 1] = ss[i]
    BY <1>1, <1>4, <2>1
  <2>3. g[i] = g[i - 1] \o ss[i]
    BY <1>5, <2>1
  <2>4. f[i] = x \o g[k]
    BY <1>8 DEF i
  <2>5. f[i + 1] = (x \o g[k]) \o ss[i] /\ g[i] = g[k] \o ss[i]
    BY <2>1, <2>2, <2>3, <2>4
  <2>6. g[k] \in Seq(S) /\ ss[i] \in Seq(S)
    BY <1>6, <2>1
  <2>7. (x \o g[k]) \o ss[i] = x \o (g[k] \o ss[i])
    <3> DEFINE v == g[k]
               u == ss[i]
    <3>1. v \in Seq(S) /\ u \in Seq(S)
      BY <2>6
    <3> HIDE DEF v, u
    <3>2. (x \o v) \o u = x \o (v \o u)
      BY <3>1, ConcatAssociative
    <3>3. QED
      BY <3>2 DEF v, u
  <2>8. f[i + 1] = x \o g[i]
    BY <2>5, <2>7
  <2>9. f[(k + 1) + 1] = x \o g[k + 1]
    BY <2>8 DEF i
  <2>10. k + 1 \in 0 .. n
    BY <1>1, <2>1 DEF i
  <2>11. QED
    BY <2>9, <2>10
<1>9. \A k \in 0 .. n : k \in T
  <2> HIDE DEF T
  <2>1. QED
    BY <1>1, <1>7, <1>8, UpTo
<1>10. f[n + 1] = x \o g[n] /\ g[n] \in Seq(S)
  <2>1. n \in 0 .. n
    BY <1>1
  <2>2. QED
    BY <1>6, <1>9, <2>1
<1>11. QED
  BY <1>4, <1>5, <1>10 DEF tt

\* One item before others: its code before theirs.
LEMMA PackCons ==
  ASSUME NEW X, NEW S, NEW enc, Encodes(enc, X, S), NEW x \in X, NEW xs \in Seq(X)
  PROVE  /\ Packs(enc, <<x>> \o xs) = enc[x] \o Packs(enc, xs)
         /\ Packs(enc, xs) \in Seq(S)
<1> DEFINE ys == <<x>> \o xs
           n == Len(xs)
           ss == CodesOf(enc, xs)
           tt == CodesOf(enc, ys)
<1>1. /\ n \in Nat /\ ys \in Seq(X) /\ Len(ys) = n + 1 /\ ys[1] = x
      /\ \A k \in 1 .. n : ys[k + 1] = xs[k]
  BY OneThen
<1> HIDE DEF ys
<1>2. ss \in Seq(Seq(S)) /\ Len(ss) = n /\ \A k \in 1 .. n : ss[k] = enc[xs[k]]
  BY CodesAre
<1>3. tt \in Seq(Seq(S)) /\ Len(tt) = n + 1 /\ \A k \in 1 .. n + 1 : tt[k] = enc[ys[k]]
  <2>1. ys \in Seq(X)
    BY <1>1
  <2>2. tt \in Seq(Seq(S)) /\ Len(tt) = Len(ys) /\ \A k \in 1 .. Len(ys) : tt[k] = enc[ys[k]]
    BY <2>1, CodesAre
  <2>3. QED
    BY <1>1, <2>2
<1> HIDE DEF ss, tt
<1> DEFINE uu == <<enc[x]>> \o ss
<1>4. enc[x] \in Seq(S)
  BY DEF Encodes
<1>5. /\ uu \in Seq(Seq(S)) /\ Len(uu) = Len(ss) + 1 /\ uu[1] = enc[x]
      /\ \A k \in 1 .. Len(ss) : uu[k + 1] = ss[k]
  BY <1>2, <1>4, OneThen
<1> HIDE DEF uu
<1>6. tt = uu
  <2>1. ASSUME NEW k \in 1 .. n + 1 PROVE tt[k] = uu[k]
    <3>1. CASE k = 1
      BY <1>1, <1>3, <1>5, <3>1
    <3>2. CASE k # 1
      <4>1. k - 1 \in 1 .. n /\ (k - 1) + 1 = k
        BY <1>1, <3>2
      <4>2. ys[(k - 1) + 1] = xs[k - 1] /\ uu[(k - 1) + 1] = enc[xs[k - 1]]
        BY <1>1, <1>2, <1>5, <4>1
      <4>3. QED
        BY <1>3, <4>1, <4>2
    <3>3. QED
      BY <3>1, <3>2
  <2>2. Len(uu) = n + 1
    BY <1>2, <1>5
  <2>3. QED
    BY <1>3, <1>5, <2>1, <2>2, SeqEqual
<1>7. FlattenSeq(uu) = enc[x] \o FlattenSeq(ss) /\ FlattenSeq(ss) \in Seq(S)
  BY <1>2, <1>4, FlattenCons DEF uu
<1>8. QED
  BY <1>6, <1>7 DEF Packs, tt, ss, ys

\* A parser that takes an item's code for the item wherever it comes, reads
\* back what was packed.
Reads(f, enc, b, X, S) ==
  /\ f[Len(b) + 1] = Done(<<>>)
  /\ \A pre \in Seq(S), post \in Seq(S), x \in X :
       b = pre \o enc[x] \o post
         => f[Len(pre) + 1] = Then(x, f[Len(pre) + Len(enc[x]) + 1])

\* By induction from the last item to the first, what Reads says of each.
LEMMA Unpacked ==
  ASSUME NEW X, NEW S, NEW enc, Encodes(enc, X, S), NEW xs \in Seq(X), NEW f,
         Reads(f, enc, Packs(enc, xs), X, S)
  PROVE  f[1] = Done(xs)
<1> DEFINE n == Len(xs)
           ss == CodesOf(enc, xs)
           b == Packs(enc, xs)
<1>1. n \in Nat
  OBVIOUS
<1>2. ss \in Seq(Seq(S)) /\ Len(ss) = n /\ \A k \in 1 .. n : ss[k] = enc[xs[k]]
  BY CodesAre
<1>3. PICK F : Flattens(F, ss, S)
  <2>1. ss \in Seq(Seq(S))
    BY <1>2
  <2>2. QED
    BY <2>1, FlattenIs
<1>4. /\ \A k \in 0 .. n : F[k] \in Seq(S)
      /\ F[0] = <<>> /\ F[n] = b
      /\ \A k \in 1 .. n : F[k] = F[k - 1] \o enc[xs[k]]
      /\ \A k \in 1 .. n : enc[xs[k]] \in Seq(S)
  <2> HIDE DEF ss
  <2>1. F \in [0 .. n -> Seq(S)] /\ F[0] = <<>> /\ F[n] = b
        /\ \A k \in 1 .. n : F[k] = F[k - 1] \o ss[k]
    BY <1>2, <1>3 DEF Flattens, Packs, ss
  <2>2. \A k \in 1 .. n : enc[xs[k]] \in Seq(S)
    BY DEF Encodes
  <2>3. QED
    BY <1>2, <2>1, <2>2
<1> HIDE DEF b, ss
<1> DEFINE Starts(k) == \E r \in Seq(S) : b = F[n - k] \o r
           T == {k \in 0 .. n : Starts(k)}
           U == {k \in 0 .. n : f[Len(F[n - k]) + 1] = Done(SubSeq(xs, n - k + 1, n))}
<1>5. 0 \in T
  <2>1. F[n - 0] = b /\ b \in Seq(S) /\ <<>> \in Seq(S)
    <3>1. n - 0 = n /\ n \in 0 .. n
      BY <1>1
    <3>2. QED
      BY <1>4, <3>1
  <2>2. b = F[n - 0] \o <<>>
    BY <2>1, ConcatEmptySeq
  <2>3. Starts(0) /\ 0 \in 0 .. n
    <3> DEFINE nil == <<>>
    <3>1. nil \in Seq(S) /\ b = F[n - 0] \o nil
      BY <2>1, <2>2
    <3> HIDE DEF nil
    <3>2. Starts(0)
      BY <3>1
    <3>3. 0 \in 0 .. n
      BY <1>1
    <3>4. QED
      BY <3>2, <3>3
  <2> HIDE DEF Starts
  <2>4. QED
    BY <2>3
<1>6. ASSUME NEW k \in 0 .. n, k \in T, k # n PROVE k + 1 \in T
  <2> DEFINE j == n - k
             e == enc[xs[j]]
             g == F[j - 1]
  <2>1. j \in 1 .. n /\ j - 1 \in 0 .. n /\ n - (k + 1) = j - 1
    BY <1>1, <1>6
  <2>2. PICK r \in Seq(S) : b = F[j] \o r
    BY <1>6
  <2> HIDE DEF j
  <2>3. F[j] = g \o e /\ g \in Seq(S) /\ e \in Seq(S)
    BY <1>4, <2>1
  <2> HIDE DEF g, e
  <2>4. b = g \o (e \o r) /\ e \o r \in Seq(S)
    <3>1. (g \o e) \o r = g \o (e \o r)
      BY <2>3, ConcatAssociative
    <3>2. e \o r \in Seq(S)
      BY <2>3, ConcatProperties
    <3>3. QED
      BY <2>2, <2>3, <3>1, <3>2
  <2>5. Starts(k + 1) /\ k + 1 \in 0 .. n
    <3> DEFINE q == e \o r
    <3>1. q \in Seq(S) /\ b = F[n - (k + 1)] \o q
      BY <2>1, <2>4 DEF g
    <3> HIDE DEF q
    <3>2. Starts(k + 1)
      BY <3>1
    <3>3. k + 1 \in 0 .. n
      BY <1>1, <1>6
    <3>4. QED
      BY <3>2, <3>3
  <2> HIDE DEF Starts
  <2>6. QED
    BY <2>5
<1>7. \A k \in 0 .. n : k \in T
  <2> HIDE DEF T
  <2>1. QED
    BY <1>1, <1>5, <1>6, UpTo
<1>8. 0 \in U
  <2>1. f[Len(b) + 1] = Done(<<>>)
    BY DEF Reads, b
  <2>2. n - 0 = n /\ 0 \in 0 .. n /\ SubSeq(xs, n + 1, n) = <<>>
    BY <1>1
  <2>3. QED
    BY <1>4, <2>1, <2>2
<1>9. ASSUME NEW k \in 0 .. n, k \in U, k # n PROVE k + 1 \in U
  <2> DEFINE j == n - k
             x == xs[j]
             g == F[j - 1]
  <2>1. j \in 1 .. n /\ j - 1 \in 0 .. n /\ n - (k + 1) = j - 1 /\ n - (k + 1) + 1 = j
    BY <1>1, <1>9
  <2>2. k \in T
    BY <1>7
  <2>3. PICK r \in Seq(S) : b = F[j] \o r
    BY <2>2
  <2>4. f[Len(F[j]) + 1] = Done(SubSeq(xs, j + 1, n))
    BY <1>9
  <2> HIDE DEF j
  <2>5. F[j] = g \o enc[x] /\ g \in Seq(S) /\ enc[x] \in Seq(S) /\ x \in X
    <3>1. F[j] = g \o enc[x] /\ enc[x] \in Seq(S)
      BY <1>4, <2>1
    <3>2. g \in Seq(S)
      BY <1>4, <2>1
    <3>3. x \in X
      BY <2>1
    <3>4. QED
      BY <3>1, <3>2, <3>3
  <2> HIDE DEF g, x
  <2>6. f[Len(g) + 1] = Then(x, f[Len(g) + Len(enc[x]) + 1])
    <3>1. b = g \o enc[x] \o r
      BY <2>3, <2>5
    <3>2. QED
      BY <2>5, <3>1 DEF Reads, b
  <2>7. Len(F[j]) = Len(g) + Len(enc[x])
    BY <2>5, ConcatProperties
  <2>8. f[Len(g) + 1] = Then(x, Done(SubSeq(xs, j + 1, n)))
    BY <2>4, <2>6, <2>7
  <2>9. Then(x, Done(SubSeq(xs, j + 1, n))) = Done(SubSeq(xs, j, n))
    <3>1. j \in 1 .. Len(xs) /\ n \in j .. Len(xs)
      BY <1>1, <2>1
    <3>2. SubSeq(xs, j, n) = <<x>> \o SubSeq(xs, j + 1, n)
      BY <3>1, SubSeqRecursiveFirst DEF x
    <3> DEFINE u == SubSeq(xs, j + 1, n)
               v == SubSeq(xs, j, n)
    <3>3. v = <<x>> \o u
      BY <3>2
    <3> HIDE DEF u, v
    <3>4. Then(x, Done(u)) = Done(<<x>> \o u)
      BY ThenDone
    <3>5. QED
      BY <3>3, <3>4 DEF u, v
  <2>10. f[Len(F[n - (k + 1)]) + 1] = Done(SubSeq(xs, n - (k + 1) + 1, n))
    BY <2>1, <2>8, <2>9 DEF g
  <2>11. k + 1 \in 0 .. n
    BY <1>1, <1>9
  <2>12. QED
    BY <2>10, <2>11
<1>10. \A k \in 0 .. n : k \in U
  <2> HIDE DEF U
  <2>1. QED
    BY <1>1, <1>8, <1>9, UpTo
<1>11. f[Len(F[0]) + 1] = Done(SubSeq(xs, 1, n))
  <2>1. n \in U
    BY <1>1, <1>10
  <2>2. n - n = 0 /\ n - n + 1 = 1
    BY <1>1
  <2>3. QED
    BY <2>1, <2>2
<1>12. Len(<<>>) + 1 = 1 /\ SubSeq(xs, 1, n) = xs
  BY SubSeqFull
<1>13. QED
  BY <1>4, <1>11, <1>12

\* A parser that takes, at each position, as much as the item's code is long,
\* or that code, answers with items whose codes are as long as the rest, or the
\* rest.
Consumes(f, enc, b, X) ==
  /\ f \in [1 .. Len(b) + 1 -> Answers(X)]
  /\ \A i \in 1 .. Len(b) + 1 :
       f[i].ok => \/ i = Len(b) + 1 /\ f[i] = Done(<<>>)
                  \/ \E x \in X, j \in i + 1 .. Len(b) + 1 :
                       f[i] = Then(x, f[j]) /\ Len(enc[x]) = j - i

Copies(f, enc, b, X) ==
  /\ f \in [1 .. Len(b) + 1 -> Answers(X)]
  /\ \A i \in 1 .. Len(b) + 1 :
       f[i].ok => \/ i = Len(b) + 1 /\ f[i] = Done(<<>>)
                  \/ \E x \in X, j \in i + 1 .. Len(b) + 1 :
                       f[i] = Then(x, f[j]) /\ enc[x] = SubSeq(b, i, j - 1)

\* By induction from the last position down, what Consumes says of each.
LEMMA RepackedLength ==
  ASSUME NEW X, NEW S, NEW enc, Encodes(enc, X, S), NEW b \in Seq(S), NEW f,
         Consumes(f, enc, b, X), f[1].ok
  PROVE  Len(Packs(enc, f[1].items)) = Len(b)
<1> DEFINE N == Len(b) + 1
           T == {i \in 1 .. N : f[i].ok => Len(Packs(enc, f[i].items)) = N - i}
<1>1. N \in Nat \ {0} /\ \A i \in 1 .. N : f[i] \in Answers(X)
  BY DEF Consumes
<1> HIDE DEF N
<1>2. ASSUME NEW i \in 1 .. N, \A j \in i + 1 .. N : j \in T PROVE i \in T
  <2>1. CASE ~ f[i].ok
    BY <2>1
  <2>2. CASE f[i].ok /\ i = N /\ f[i] = Done(<<>>)
    <3>1. f[i].items = <<>>
      BY <2>2 DEF Done
    <3>2. Len(Packs(enc, f[i].items)) = 0
      BY <3>1, PackNil
    <3>3. QED
      BY <1>1, <2>2, <3>2
  <2>3. CASE f[i].ok /\ \E x \in X, j \in i + 1 .. N :
                          f[i] = Then(x, f[j]) /\ Len(enc[x]) = j - i
    <3>1. PICK x \in X, j \in i + 1 .. N : f[i] = Then(x, f[j]) /\ Len(enc[x]) = j - i
      BY <2>3
    <3>2. f[j] \in Answers(X) /\ j \in 1 .. N
      BY <1>1
    <3>3. f[i].ok = f[j].ok /\ f[i].items = <<x>> \o f[j].items
      <4> DEFINE r == f[j]
      <4>1. r \in Answers(X)
        BY <3>2
      <4> HIDE DEF r
      <4>2. Then(x, r).ok = r.ok /\ Then(x, r).items = <<x>> \o r.items
        BY <4>1, ThenIs
      <4>3. QED
        BY <3>1, <4>2 DEF r
    <3>4. f[j].items \in Seq(X)
      BY <3>2 DEF Answers
    <3>5. /\ Packs(enc, f[i].items) = enc[x] \o Packs(enc, f[j].items)
          /\ Packs(enc, f[j].items) \in Seq(S)
      <4> DEFINE ys == f[j].items
      <4>1. ys \in Seq(X)
        BY <3>4
      <4> HIDE DEF ys
      <4>2. /\ Packs(enc, <<x>> \o ys) = enc[x] \o Packs(enc, ys)
            /\ Packs(enc, ys) \in Seq(S)
        BY <4>1, PackCons
      <4>3. QED
        BY <3>3, <4>2 DEF ys
    <3>6. enc[x] \in Seq(S)
      BY DEF Encodes
    <3>7. Len(Packs(enc, f[i].items)) = Len(enc[x]) + Len(Packs(enc, f[j].items))
      BY <3>5, <3>6, ConcatProperties
    <3>8. Len(Packs(enc, f[j].items)) = N - j
      BY <1>2, <2>3, <3>3
    <3>9. QED
      BY <1>1, <3>1, <3>2, <3>7, <3>8
  <2>4. QED
    BY <2>1, <2>2, <2>3 DEF Consumes, N
<1>3. \A i \in 1 .. N : i \in T
  <2> HIDE DEF T
  <2>1. QED
    BY <1>1, <1>2, Downward
<1>4. 1 \in T
  BY <1>1, <1>3
<1>5. QED
  BY <1>1, <1>4 DEF N

\* Likewise with Copies.
LEMMA Repacked ==
  ASSUME NEW X, NEW S, NEW enc, Encodes(enc, X, S), NEW b \in Seq(S), NEW f,
         Copies(f, enc, b, X), f[1].ok
  PROVE  Packs(enc, f[1].items) = b
<1> DEFINE N == Len(b) + 1
           T == {i \in 1 .. N : f[i].ok => Packs(enc, f[i].items) = SubSeq(b, i, N - 1)}
<1>1. N \in Nat \ {0} /\ N - 1 = Len(b) /\ \A i \in 1 .. N : f[i] \in Answers(X)
  <2>1. N \in Nat \ {0} /\ N - 1 = Len(b)
    OBVIOUS
  <2>2. f \in [1 .. N -> Answers(X)]
    BY DEF Copies
  <2> HIDE DEF N
  <2>3. QED
    BY <2>1, <2>2
<1> HIDE DEF N
<1>2. ASSUME NEW i \in 1 .. N, \A j \in i + 1 .. N : j \in T PROVE i \in T
  <2>1. CASE ~ f[i].ok
    BY <2>1
  <2>2. CASE f[i].ok /\ i = N /\ f[i] = Done(<<>>)
    <3>1. f[i].items = <<>>
      BY <2>2 DEF Done
    <3>2. Packs(enc, f[i].items) = <<>>
      BY <3>1, PackNil
    <3>3. SubSeq(b, i, N - 1) = <<>>
      BY <1>1, <2>2, SubSeqEmpty
    <3>4. QED
      BY <3>2, <3>3
  <2>3. CASE f[i].ok /\ \E x \in X, j \in i + 1 .. N :
                          f[i] = Then(x, f[j]) /\ enc[x] = SubSeq(b, i, j - 1)
    <3>1. PICK x \in X, j \in i + 1 .. N :
                 f[i] = Then(x, f[j]) /\ enc[x] = SubSeq(b, i, j - 1)
      BY <2>3
    <3>2. f[j] \in Answers(X) /\ j \in 1 .. N
      BY <1>1
    <3>3. f[i].ok = f[j].ok /\ f[i].items = <<x>> \o f[j].items
      <4> DEFINE r == f[j]
      <4>1. r \in Answers(X)
        BY <3>2
      <4> HIDE DEF r
      <4>2. Then(x, r).ok = r.ok /\ Then(x, r).items = <<x>> \o r.items
        BY <4>1, ThenIs
      <4>3. QED
        BY <3>1, <4>2 DEF r
    <3>4. f[j].items \in Seq(X)
      BY <3>2 DEF Answers
    <3>5. Packs(enc, f[i].items) = enc[x] \o Packs(enc, f[j].items)
      <4> DEFINE ys == f[j].items
      <4>1. ys \in Seq(X)
        BY <3>4
      <4> HIDE DEF ys
      <4>2. /\ Packs(enc, <<x>> \o ys) = enc[x] \o Packs(enc, ys)
            /\ Packs(enc, ys) \in Seq(S)
        BY <4>1, PackCons
      <4>3. QED
        BY <3>3, <4>2 DEF ys
    <3>6. Packs(enc, f[j].items) = SubSeq(b, j, N - 1)
      BY <1>2, <2>3, <3>3
    <3>7. SubSeq(b, i, j - 1) \o SubSeq(b, (j - 1) + 1, N - 1) = SubSeq(b, i, N - 1)
      <4>1. i \in 1 .. Len(b) + 1 /\ j - 1 \in i - 1 .. Len(b) /\ N - 1 \in j - 1 .. Len(b)
        BY <1>1, <3>2
      <4>2. QED
        BY <4>1, ConcatAdjacentSubSeq
    <3>8. (j - 1) + 1 = j
      BY <3>2
    <3>9. QED
      BY <3>1, <3>5, <3>6, <3>7, <3>8
  <2>4. QED
    BY <2>1, <2>2, <2>3 DEF Copies, N
<1>3. \A i \in 1 .. N : i \in T
  <2> HIDE DEF T
  <2>1. QED
    BY <1>1, <1>2, Downward
<1>4. 1 \in T
  BY <1>1, <1>3
<1>5. QED
  BY <1>1, <1>4, SubSeqFull

-----------------------------------------------------------------------------
\* unpack_sdu, position by position.
LEMMA NumberIsNat ==
  ASSUME NEW s \in Seq(Byte)
  PROVE  Number(s) \in Nat
<1>1. PICK N : Spells(s, N)
  BY NumberIs
<1>2. Len(s) \in 0 .. Len(s)
  OBVIOUS
<1>3. QED
  BY <1>1, <1>2 DEF Spells

Messages == [type : Byte, id : Byte, payload : Seq(Byte)]

Sdu(U, b) ==
  /\ U \in [1 .. Len(b) + 1 -> Answers(Messages)]
  /\ \A i \in 1 .. Len(b) + 1 :
       U[i] = IF i > Len(b) THEN Done(<<>>)
              ELSE IF Whole(b, i)
                   THEN Then(Decoded(b, i), U[i + 4 + PayloadLength(b, i)])
                   ELSE Malformed
  /\ UnpackSdu(b) = IF U[1].ok THEN U[1].items ELSE <<>>

\* Where a message is all there, it is a message and the next one starts later.
LEMMA WholeIs ==
  ASSUME NEW b \in Seq(Byte), NEW i \in 1 .. Len(b) + 1, Whole(b, i)
  PROVE  /\ PayloadLength(b, i) \in Nat \ {0}
         /\ i + 4 + PayloadLength(b, i) \in i + 1 .. Len(b) + 1
         /\ Decoded(b, i) \in Messages
         /\ Len(Decoded(b, i).payload) = PayloadLength(b, i)
<1> DEFINE n == PayloadLength(b, i)
           p == Slice(b, i + 4, n)
<1>1. i + 3 <= Len(b) /\ n \in 1 .. Len(b) - i - 3 /\ Len(b) \in Nat
  BY DEF Whole
<1> HIDE DEF n
<1>2. p \in Seq(Byte) /\ Len(p) = n
  <2> DEFINE j == i + 4
  <2>1. j \in Nat \ {0} /\ n \in Nat /\ j + n <= Len(b) + 1
    BY <1>1
  <2> HIDE DEF j
  <2>2. Slice(b, j, n) \in Seq(Byte) /\ Len(Slice(b, j, n)) = n
    BY <2>1, SliceIs
  <2>3. QED
    BY <2>2 DEF j
<1> HIDE DEF p
<1>3. b[i + 1] \in Byte /\ b[i] % (Base \div 4) \in Byte
  <2>1. i \in 1 .. Len(b) /\ i + 1 \in 1 .. Len(b)
    BY <1>1
  <2>2. b[i] \in Byte /\ b[i + 1] \in Byte
    BY <2>1
  <2>3. b[i] \in Nat /\ Base \div 4 \in Nat \ {0} /\ Base \div 4 <= Base
    BY <2>2, OctetAssumption DEF Byte
  <2>4. b[i] % (Base \div 4) \in 0 .. (Base \div 4) - 1
    <3> DEFINE q == Base \div 4
    <3> HIDE DEF q
    <3>1. q \in Nat \ {0}
      BY <2>3 DEF q
    <3>2. b[i] % q \in 0 .. q - 1
      BY <2>3, <3>1
    <3>3. QED
      BY <3>2 DEF q
  <2>5. QED
    BY <2>2, <2>3, <2>4, OctetAssumption DEF Byte
<1>4. Decoded(b, i) = [type |-> b[i] % (Base \div 4), id |-> b[i + 1], payload |-> p]
  BY DEF Decoded, Message, p, n
<1>5. Decoded(b, i) \in Messages /\ Decoded(b, i).payload = p
  BY <1>2, <1>3, <1>4 DEF Messages
<1>6. QED
  BY <1>1, <1>2, <1>5 DEF n

\* The recursive function of UnpackSdu has its equation at every position.
LEMMA SduIs ==
  ASSUME NEW b \in Seq(Byte)
  PROVE  \E U : Sdu(U, b)
<1> DEFINE N == Len(b) + 1
           V == Answers(Messages)
           Is(g) == g = [i \in 1 .. Len(b) + 1 |->
                          IF i > Len(b) THEN Done(<<>>)
                          ELSE IF Whole(b, i)
                               THEN Then(Decoded(b, i), g[i + 4 + PayloadLength(b, i)])
                               ELSE Malformed]
           ends == {i \in 1 .. N : i > Len(b) \/ ~ Whole(b, i)}
           next == [i \in 1 .. N |-> i + 4 + PayloadLength(b, i)]
           base == [i \in 1 .. N |-> IF i > Len(b) THEN Done(<<>>) ELSE Malformed]
           step == [i \in 1 .. N |-> [v \in V |-> Then(Decoded(b, i), v)]]
<1>1. N \in Nat /\ Len(b) \in Nat
  OBVIOUS
<1>2. Done(<<>>) \in V /\ Malformed \in V
  BY DEF Answers, Done, Malformed, Stopped
<1>3. AreParts(ends, next, base, step, N, V)
  <2>1. base \in [1 .. N -> V]
    <3> HIDE DEF V
    <3>1. QED
      BY <1>2
  <2>2. ASSUME NEW i \in 1 .. N, i \notin ends
        PROVE  next[i] \in i + 1 .. N /\ step[i] \in [V -> V]
    <3>1. Whole(b, i)
      BY <2>2
    <3>2. i + 4 + PayloadLength(b, i) \in i + 1 .. Len(b) + 1 /\ Decoded(b, i) \in Messages
      BY <3>1, WholeIs
    <3>3. \A v \in V : Then(Decoded(b, i), v) \in V
      BY <3>2, ThenIs
    <3> HIDE DEF V
    <3>4. QED
      BY <3>2, <3>3
  <2> HIDE DEF ends, next, base, step, V
  <2>3. QED
    BY <2>1, <2>2 DEF AreParts
<1>4. PICK f : Parses(f, ends, next, base, step, N, V)
  <2> HIDE DEF ends, next, base, step, V, N
  <2>1. QED
    BY <1>1, <1>3, Parser
<1>5. f \in [1 .. N -> V] /\ \A i \in 1 .. N :
        f[i] = IF i > Len(b) THEN Done(<<>>)
               ELSE IF Whole(b, i) THEN Then(Decoded(b, i), f[i + 4 + PayloadLength(b, i)])
                    ELSE Malformed
  <2>1. /\ f \in [1 .. N -> V]
        /\ \A i \in 1 .. N : f[i] = IF i \in ends THEN base[i] ELSE step[i][f[next[i]]]
    <3> HIDE DEF ends, next, base, step, V, N
    <3>1. QED
      BY <1>4 DEF Parses
  <2>2. ASSUME NEW i \in 1 .. N, Whole(b, i), ~(i > Len(b))
        PROVE  f[i] = Then(Decoded(b, i), f[i + 4 + PayloadLength(b, i)])
    <3>1. i + 4 + PayloadLength(b, i) \in 1 .. N
      <4>1. i + 4 + PayloadLength(b, i) \in i + 1 .. Len(b) + 1
        BY <2>2, WholeIs
      <4>2. QED
        BY <4>1
    <3>2. i \notin ends /\ next[i] = i + 4 + PayloadLength(b, i)
      BY <2>2
    <3>3. f[i + 4 + PayloadLength(b, i)] \in V
      BY <2>1, <3>1
    <3> HIDE DEF V
    <3>4. step[i][f[i + 4 + PayloadLength(b, i)]]
            = Then(Decoded(b, i), f[i + 4 + PayloadLength(b, i)])
      BY <3>3
    <3> HIDE DEF ends, next, base, step
    <3>5. QED
      BY <2>1, <3>2, <3>4
  <2>3. ASSUME NEW i \in 1 .. N, i > Len(b) \/ ~ Whole(b, i)
        PROVE  f[i] = IF i > Len(b) THEN Done(<<>>) ELSE Malformed
    <3>1. i \in ends
      BY <2>3
    <3>2. base[i] = IF i > Len(b) THEN Done(<<>>) ELSE Malformed
      OBVIOUS
    <3> HIDE DEF ends, next, base, step
    <3>3. QED
      BY <2>1, <3>1, <3>2
  <2>4. f \in [1 .. N -> V]
    BY <2>1
  <2> HIDE DEF V
  <2>5. QED
    BY <2>2, <2>3, <2>4
<1> HIDE DEF ends, next, base, step, V
<1>6. Is(f)
  BY <1>5
<1>7. Is(CHOOSE g : Is(g))
  <2> HIDE DEF Is
  <2>1. QED
    BY <1>6
<1> DEFINE U == CHOOSE g : Is(g)
<1>8. UnpackSdu(b) = IF U[1].ok THEN U[1].items ELSE <<>>
  BY DEF UnpackSdu
<1>9. \A i \in 1 .. N :
        U[i] = IF i > Len(b) THEN Done(<<>>)
               ELSE IF Whole(b, i) THEN Then(Decoded(b, i), U[i + 4 + PayloadLength(b, i)])
                    ELSE Malformed
  BY <1>7
<1>10. U = [i \in 1 .. N |-> U[i]]
  BY <1>7
<1> HIDE DEF U, Is
<1> DEFINE T == {i \in 1 .. N : U[i] \in V}
<1>11. ASSUME NEW i \in 1 .. N, \A j \in i + 1 .. N : j \in T PROVE i \in T
  <2>1. CASE ~(i > Len(b)) /\ Whole(b, i)
    <3>1. i + 4 + PayloadLength(b, i) \in i + 1 .. N /\ Decoded(b, i) \in Messages
      BY <2>1, WholeIs
    <3>2. U[i + 4 + PayloadLength(b, i)] \in V
      BY <1>11, <3>1
    <3>3. Then(Decoded(b, i), U[i + 4 + PayloadLength(b, i)]) \in V
      BY <3>1, <3>2, ThenIs DEF V
    <3>4. QED
      BY <1>9, <2>1, <3>3
  <2>2. CASE i > Len(b) \/ ~ Whole(b, i)
    BY <1>2, <1>9, <2>2
  <2>3. QED
    BY <2>1, <2>2
<1>12. \A i \in 1 .. N : i \in T
  <2> HIDE DEF T, N
  <2>1. QED
    BY <1>1, <1>11, Downward
<1>13. U \in [1 .. N -> V]
  BY <1>10, <1>12
<1>14. Sdu(U, b)
  BY <1>8, <1>9, <1>13 DEF Sdu, V
<1>15. QED
  BY <1>14

\* A slice of the middle part of a concatenation.
LEMMA Inside ==
  ASSUME NEW S, NEW pre \in Seq(S), NEW e \in Seq(S), NEW post \in Seq(S),
         NEW j \in Nat \ {0}, NEW n \in Nat, j + n <= Len(e) + 1
  PROVE  Slice(pre \o e \o post, Len(pre) + j, n) = Slice(e, j, n)
<1> DEFINE q == pre \o e
           i == Len(pre) + j
<1>1. q \in Seq(S) /\ Len(q) = Len(pre) + Len(e)
  BY ConcatProperties
<1>2. Slice(q, i, n) = Slice(e, j, n)
  BY SliceWithin
<1>3. i \in Nat \ {0} /\ i + n <= Len(pre) + Len(e) + 1
  OBVIOUS
<1>4. i + n <= Len(q) + 1
  <2> HIDE DEF q, i
  <2>1. QED
    BY <1>1, <1>3
<1>5. Slice(q \o post, i, n) = Slice(q, i, n)
  <2>1. q \in Seq(S)
    BY <1>1
  <2> HIDE DEF q, i
  <2>2. QED
    BY <1>3, <1>4, <2>1, SliceWithin
<1>6. QED
  BY <1>2, <1>5

GoodMessages ==
  {m \in Messages : m.type < Base \div 4 /\ Len(m.payload) \in 1 .. Base * Base - 1}

\* The parts of an encoded message.
LEMMA EncodeIs ==
  ASSUME NEW m \in Messages
  PROVE  /\ Encode(m) \in Seq(Byte)
         /\ Len(Encode(m)) = 4 + Len(m.payload)
         /\ Encode(m)[1] = m.type
         /\ Encode(m)[2] = m.id
         /\ Slice(Encode(m), 3, 2) = BigEndian(Len(m.payload), 2)
         /\ Slice(Encode(m), 5, Len(m.payload)) = m.payload
<1> DEFINE p == m.payload
           h == <<m.type, m.id>>
           L == BigEndian(Len(p), 2)
           e == Encode(m)
<1>1. p \in Seq(Byte) /\ m.type \in Byte /\ m.id \in Byte
  BY DEF Messages
<1>2. h \in Seq(Byte) /\ Len(h) = 2 /\ h[1] = m.type /\ h[2] = m.id
  BY <1>1
<1>3. L \in Seq(Byte) /\ Len(L) = 2
  <2>1. Len(p) \in Nat /\ 2 \in Nat
    BY <1>1
  <2>2. QED
    BY <2>1, BigEndianIs
<1>4. e = h \o L \o p
  BY DEF Encode
<1> HIDE DEF h, L, e, p
<1>5. /\ h \o L \o p \in Seq(Byte)
      /\ Len(h \o L \o p) = Len(h) + Len(L) + Len(p)
      /\ \A k \in 1 .. Len(h) : (h \o L \o p)[k] = h[k]
      /\ Slice(h \o L \o p, Len(h) + 1, Len(L)) = L
      /\ Slice(h \o L \o p, Len(h) + Len(L) + 1, Len(p)) = p
  <2>1. h \in Seq(Byte) /\ L \in Seq(Byte) /\ p \in Seq(Byte)
    BY <1>1, <1>2, <1>3
  <2>2. QED
    BY <2>1, Parts
<1>6. Len(e) = 4 + Len(p)
  <2>1. Len(p) \in Nat /\ Len(e) = Len(h) + Len(L) + Len(p)
    BY <1>1, <1>4, <1>5
  <2>2. QED
    BY <1>2, <1>3, <2>1
<1>7. e[1] = m.type /\ e[2] = m.id
  <2>1. 1 \in 1 .. Len(h) /\ 2 \in 1 .. Len(h)
    BY <1>2
  <2>2. e[1] = h[1] /\ e[2] = h[2]
    BY <1>4, <1>5, <2>1
  <2>3. QED
    BY <1>2, <2>2
<1>8. Slice(e, 3, 2) = L /\ Slice(e, 5, Len(p)) = p
  <2>1. Len(h) + 1 = 3 /\ Len(L) = 2 /\ Len(h) + Len(L) + 1 = 5
    BY <1>2, <1>3
  <2>2. Slice(e, Len(h) + 1, Len(L)) = L /\ Slice(e, Len(h) + Len(L) + 1, Len(p)) = p
    BY <1>4, <1>5
  <2>3. QED
    BY <2>1, <2>2
<1>9. QED
  BY <1>4, <1>5, <1>6, <1>7, <1>8 DEF e, L, p

\* Wherever the code of a message comes, unpack_sdu takes it for that message.
LEMMA GoodReads ==
  ASSUME NEW b \in Seq(Byte), NEW U, Sdu(U, b)
  PROVE  Reads(U, [m \in GoodMessages |-> Encode(m)], b, GoodMessages, Byte)
<1> DEFINE enc == [m \in GoodMessages |-> Encode(m)]
<1>1. U[Len(b) + 1] = Done(<<>>)
  <2>1. Len(b) + 1 \in 1 .. Len(b) + 1 /\ Len(b) + 1 > Len(b)
    OBVIOUS
  <2>2. QED
    BY <2>1 DEF Sdu
<1>2. ASSUME NEW pre \in Seq(Byte), NEW post \in Seq(Byte), NEW x \in GoodMessages,
             b = pre \o enc[x] \o post
      PROVE  U[Len(pre) + 1] = Then(x, U[Len(pre) + Len(enc[x]) + 1])
  <2> DEFINE e == Encode(x)
             n == Len(x.payload)
             a == Len(pre)
             i == a + 1
  <2>1. x \in Messages /\ x.type < Base \div 4 /\ n \in 1 .. Base * Base - 1
    BY DEF GoodMessages
  <2>2. /\ e \in Seq(Byte) /\ Len(e) = 4 + n /\ e[1] = x.type /\ e[2] = x.id
        /\ Slice(e, 3, 2) = BigEndian(n, 2) /\ Slice(e, 5, n) = x.payload
    BY <2>1, EncodeIs
  <2>3. b = pre \o e \o post /\ enc[x] = e
    BY <1>2
  <2> HIDE DEF e, enc
  <2>4. /\ Len(b) = Len(pre) + Len(e) + Len(post)
        /\ \A k \in 1 .. Len(e) : b[Len(pre) + k] = e[k]
    <3>1. e \in Seq(Byte)
      BY <2>2
    <3>2. /\ Len(pre \o e \o post) = Len(pre) + Len(e) + Len(post)
          /\ \A k \in 1 .. Len(e) : (pre \o e \o post)[Len(pre) + k] = e[k]
      BY <3>1, Parts
    <3>3. QED
      BY <2>3, <3>2
  <2>5. a \in Nat /\ Len(post) \in Nat /\ n \in Nat
    BY <2>1
  <2>6. b[i] = x.type /\ b[i + 1] = x.id
    <3>1. 1 \in 1 .. Len(e) /\ 2 \in 1 .. Len(e) /\ i + 1 = a + 2
      BY <2>2, <2>5
    <3>2. b[Len(pre) + 1] = e[1] /\ b[Len(pre) + 2] = e[2]
      BY <2>4, <3>1
    <3>3. QED
      BY <2>2, <3>1, <3>2
  <2>7. \A j \in Nat \ {0}, w \in Nat :
          j + w <= Len(e) + 1 => Slice(b, a + j, w) = Slice(e, j, w)
    <3>1. e \in Seq(Byte)
      BY <2>2
    <3>2. ASSUME NEW j \in Nat \ {0}, NEW w \in Nat, j + w <= Len(e) + 1
          PROVE  Slice(pre \o e \o post, Len(pre) + j, w) = Slice(e, j, w)
      BY <3>1, <3>2, Inside
    <3>3. QED
      BY <2>3, <3>2
  <2> HIDE DEF a
  <2>8. Slice(b, i + 2, 2) = BigEndian(n, 2) /\ Slice(b, i + 4, n) = x.payload
    <3>1. 3 + 2 <= Len(e) + 1 /\ 5 + n <= Len(e) + 1 /\ i + 2 = a + 3 /\ i + 4 = a + 5
      BY <2>2, <2>5
    <3>2. Slice(b, a + 3, 2) = Slice(e, 3, 2)
      BY <2>7, <3>1
    <3>3. Slice(b, a + 5, n) = Slice(e, 5, n)
      BY <2>5, <2>7, <3>1
    <3>4. QED
      BY <2>2, <3>1, <3>2, <3>3
  <2>9. PayloadLength(b, i) = n
    <3>1. Fits(n, 2)
      BY <2>1, <2>5, FitsShort, OctetAssumption
    <3>2. Number(BigEndian(n, 2)) = n
      BY <2>5, <3>1, BigEndianIs
    <3>3. QED
      BY <2>8, <3>2 DEF PayloadLength
  <2>10. Len(b) = a + 4 + n + Len(post)
    <3>1. Len(b) = a + Len(e) + Len(post) /\ Len(e) = 4 + n
      BY <2>2, <2>4 DEF a
    <3> HIDE DEF n, i
    <3>2. QED
      BY <2>5, <3>1
  <2>11. Whole(b, i) /\ i \in 1 .. Len(b) + 1 /\ ~(i > Len(b))
    <3>1. i + 3 <= Len(b) /\ n \in 1 .. Len(b) - i - 3 /\ i \in 1 .. Len(b) + 1
          /\ ~(i > Len(b))
      <4>1. n \in Nat \ {0}
        BY <2>1
      <4> DEFINE l == Len(b)
                 r == Len(post)
      <4>2. l = a + 4 + n + r /\ r \in Nat
        BY <2>5, <2>10
      <4> HIDE DEF n, l
      <4>3. i + 3 <= l /\ n \in 1 .. l - i - 3 /\ i \in 1 .. l + 1 /\ ~(i > l)
        BY <2>5, <4>1, <4>2
      <4>4. QED
        BY <4>3 DEF l
    <3>2. QED
      BY <2>9, <3>1 DEF Whole
  <2>12. Decoded(b, i) = x
    <3>1. x.type \in Nat /\ x.type % (Base \div 4) = x.type
      <4>1. x.type \in Nat /\ Base \div 4 \in Nat \ {0}
        BY <2>1, OctetAssumption DEF Messages, Byte
      <4> DEFINE q == Base \div 4
                 t == x.type
      <4> HIDE DEF q, t
      <4>2. q \in Nat \ {0} /\ t \in Nat /\ t < q
        BY <2>1, <4>1 DEF q, t
      <4>3. t % q = t
        BY <4>2
      <4>4. QED
        BY <4>2, <4>3 DEF q, t
    <3>2. Decoded(b, i) = [type |-> x.type, id |-> x.id, payload |-> x.payload]
      BY <2>6, <2>8, <2>9, <3>1 DEF Decoded, Message
    <3>3. QED
      BY <2>1, <3>2 DEF Messages
  <2>13. U[i] = Then(x, U[i + 4 + n])
    BY <2>9, <2>11, <2>12 DEF Sdu
  <2>14. i + 4 + n = Len(pre) + Len(enc[x]) + 1
    <3>1. Len(pre) = a /\ Len(enc[x]) = 4 + n
      BY <2>2, <2>3 DEF a
    <3> HIDE DEF n
    <3>2. QED
      BY <2>5, <3>1
  <2>15. QED
    BY <2>13, <2>14 DEF a
<1>3. QED
  BY <1>1, <1>2 DEF Reads

\* A function that satisfies a parser's equation wherever the later result is
\* one, is the parser.
Satisfies(h, ends, next, base, step, N, V) ==
  /\ h = [i \in 1 .. N |-> h[i]]
  /\ \A i \in 1 .. N : \/ i \in ends /\ h[i] = base[i]
                       \/ i \notin ends /\ (h[next[i]] \in V => h[i] = step[i][h[next[i]]])

\* Such a function has its values in V: from the end down.
LEMMA TheParser ==
  ASSUME NEW N \in Nat, NEW V, NEW ends, NEW next, NEW base, NEW step, NEW h,
         AreParts(ends, next, base, step, N, V),
         Satisfies(h, ends, next, base, step, N, V)
  PROVE  Parses(h, ends, next, base, step, N, V)
<1> DEFINE T == {i \in 1 .. N : h[i] \in V}
<1>1. \A i \in 1 .. N : \/ i \in ends /\ h[i] = base[i] /\ base[i] \in V
                        \/ /\ i \notin ends /\ next[i] \in i + 1 .. N
                           /\ step[i] \in [V -> V]
                           /\ h[next[i]] \in V => h[i] = step[i][h[next[i]]]
  BY DEF AreParts, Satisfies
<1>2. ASSUME NEW i \in 1 .. N, \A j \in i + 1 .. N : j \in T PROVE i \in T
  <2>1. CASE i \in ends
    BY <1>1, <2>1
  <2>2. CASE i \notin ends
    <3>1. next[i] \in i + 1 .. N /\ step[i] \in [V -> V]
          /\ (h[next[i]] \in V => h[i] = step[i][h[next[i]]])
      BY <1>1, <2>2
    <3>2. h[next[i]] \in V
      BY <1>2, <3>1
    <3>3. h[i] \in V
      BY <3>1, <3>2
    <3>4. QED
      BY <3>3
  <2>3. QED
    BY <2>1, <2>2
<1>3. \A i \in 1 .. N : i \in T
  <2> HIDE DEF T
  <2>1. QED
    BY <1>2, Downward
<1>4. \A i \in 1 .. N : h[i] \in V
  BY <1>3
<1>5. \A i \in 1 .. N : h[i] = IF i \in ends THEN base[i] ELSE step[i][h[next[i]]]
  <2>1. ASSUME NEW i \in 1 .. N
        PROVE  h[i] = IF i \in ends THEN base[i] ELSE step[i][h[next[i]]]
    <3>1. CASE i \in ends
      BY <1>1, <3>1
    <3>2. CASE i \notin ends
      <4>1. next[i] \in i + 1 .. N
        BY <1>1, <3>2
      <4>2. h[next[i]] \in V
        BY <1>4, <4>1
      <4>3. QED
        BY <1>1, <3>2, <4>2
    <3>3. QED
      BY <3>1, <3>2
  <2>2. QED
    BY <2>1
<1>6. h \in [1 .. N -> V]
  BY <1>4 DEF Satisfies
<1>7. QED
  BY <1>5, <1>6 DEF Parses

-----------------------------------------------------------------------------
\* The attributes of a message, position by position.
Attributes == [id : Byte, value : Seq(Byte)]

GoodAttributes == {a \in Attributes : Len(a.value) < Base}

AttributeAt(b, i) == i + 1 <= Len(b) /\ i + 1 + b[i + 1] <= Len(b)

TheAttribute(b, i) == Attribute(b[i], Slice(b, i + 2, b[i + 1]))

AttributesAre(P, b) ==
  /\ P \in [1 .. Len(b) + 1 -> Answers(GoodAttributes)]
  /\ \A i \in 1 .. Len(b) + 1 :
       P[i] = IF i > Len(b) THEN Done(<<>>)
              ELSE IF AttributeAt(b, i)
                   THEN Then(TheAttribute(b, i), P[i + 2 + b[i + 1]])
                   ELSE Stopped
  /\ ParseAttributes(b) = P[1]

\* Where an attribute is all there, it can be written, and the next starts later.
LEMMA AttributeIs ==
  ASSUME NEW b \in Seq(Byte), NEW i \in 1 .. Len(b) + 1, AttributeAt(b, i)
  PROVE  /\ i \in 1 .. Len(b) /\ i + 1 \in 1 .. Len(b)
         /\ b[i + 1] \in Byte /\ b[i + 1] \in Nat /\ b[i + 1] < Base /\ b[i] \in Byte
         /\ i + 2 + b[i + 1] \in i + 1 .. Len(b) + 1
         /\ TheAttribute(b, i) \in GoodAttributes
         /\ TheAttribute(b, i) = [id |-> b[i], value |-> Slice(b, i + 2, b[i + 1])]
         /\ Len(Slice(b, i + 2, b[i + 1])) = b[i + 1]
<1> DEFINE n == b[i + 1]
           j == i + 2
<1>1. i \in 1 .. Len(b) /\ i + 1 \in 1 .. Len(b) /\ Len(b) \in Nat
  BY DEF AttributeAt
<1>2. n \in Byte /\ b[i] \in Byte
  BY <1>1
<1>3. n \in Nat /\ n < Base
  BY <1>2, OctetAssumption DEF Byte
<1>4. i + 1 + n <= Len(b)
  BY DEF AttributeAt
<1> HIDE DEF n
<1>5. j \in Nat \ {0} /\ j + n <= Len(b) + 1 /\ j + n \in i + 1 .. Len(b) + 1
  BY <1>1, <1>3, <1>4
<1> HIDE DEF j
<1>6. Slice(b, j, n) \in Seq(Byte) /\ Len(Slice(b, j, n)) = n
  BY <1>3, <1>5, SliceIs
<1>7. TheAttribute(b, i) = [id |-> b[i], value |-> Slice(b, j, n)]
  BY DEF TheAttribute, Attribute, j, n
<1> DEFINE v == Slice(b, j, n)
<1> HIDE DEF v
<1>8. [id |-> b[i], value |-> v] \in GoodAttributes
  <2>1. v \in Seq(Byte) /\ Len(v) < Base
    BY <1>3, <1>6 DEF v
  <2>2. QED
    BY <1>2, <2>1 DEF GoodAttributes, Attributes
<1>9. QED
  BY <1>1, <1>2, <1>3, <1>5, <1>6, <1>7, <1>8 DEF j, n, v

\* The recursive function of ParseAttributes has its equation at every position.
LEMMA AttributesAreRead ==
  ASSUME NEW b \in Seq(Byte)
  PROVE  \E P : AttributesAre(P, b)
<1> DEFINE N == Len(b) + 1
           V == Answers(GoodAttributes)
           Is(g) == g = [i \in 1 .. Len(b) + 1 |->
                          IF i > Len(b) THEN Done(<<>>)
                          ELSE IF i + 1 > Len(b) THEN Stopped
                          ELSE IF i + 1 + b[i + 1] > Len(b) THEN Stopped
                          ELSE Then(Attribute(b[i], Slice(b, i + 2, b[i + 1])),
                                    g[i + 2 + b[i + 1]])]
           ends == {i \in 1 .. N : i > Len(b) \/ ~ AttributeAt(b, i)}
           next == [i \in 1 .. N |-> i + 2 + b[i + 1]]
           base == [i \in 1 .. N |-> IF i > Len(b) THEN Done(<<>>) ELSE Stopped]
           step == [i \in 1 .. N |-> [v \in V |-> Then(TheAttribute(b, i), v)]]
           Fits1(g) == \A i \in 1 .. N :
                         g[i] = IF i > Len(b) THEN Done(<<>>)
                                ELSE IF AttributeAt(b, i)
                                     THEN Then(TheAttribute(b, i), g[i + 2 + b[i + 1]])
                                     ELSE Stopped
<1>1. N \in Nat /\ Len(b) \in Nat
  OBVIOUS
<1>2. Done(<<>>) \in V /\ Stopped \in V
  BY DEF Answers, Done, Stopped
<1>3. \A i \in 1 .. N : i \notin ends =>
        /\ AttributeAt(b, i) /\ ~(i > Len(b))
        /\ next[i] = i + 2 + b[i + 1] /\ next[i] \in i + 1 .. N
        /\ TheAttribute(b, i) \in GoodAttributes
  BY AttributeIs
<1>4. ASSUME NEW i \in 1 .. N, i \notin ends
      PROVE  step[i] \in [V -> V] /\ \A v \in V : step[i][v] = Then(TheAttribute(b, i), v)
  <2>1. \A v \in V : Then(TheAttribute(b, i), v) \in V
    BY <1>3, <1>4, ThenIs
  <2> HIDE DEF V
  <2>2. QED
    BY <2>1
<1>5. \A i \in 1 .. N : /\ base[i] = IF i > Len(b) THEN Done(<<>>) ELSE Stopped
                        /\ i \in ends <=> i > Len(b) \/ ~ AttributeAt(b, i)
  OBVIOUS
<1>6. base \in [1 .. N -> V]
  <2> HIDE DEF V
  <2>1. QED
    BY <1>2
<1>7. \A g : Is(g) <=> g = [i \in 1 .. N |-> g[i]] /\ Fits1(g)
  <2>1. ASSUME NEW g, NEW i \in 1 .. N
        PROVE  (IF i > Len(b) THEN Done(<<>>)
                ELSE IF i + 1 > Len(b) THEN Stopped
                ELSE IF i + 1 + b[i + 1] > Len(b) THEN Stopped
                ELSE Then(Attribute(b[i], Slice(b, i + 2, b[i + 1])), g[i + 2 + b[i + 1]]))
               = IF i > Len(b) THEN Done(<<>>)
                 ELSE IF AttributeAt(b, i)
                      THEN Then(TheAttribute(b, i), g[i + 2 + b[i + 1]])
                      ELSE Stopped
    <3>1. i + 1 <= Len(b) => b[i + 1] \in Nat
      BY OctetAssumption DEF Byte
    <3>2. QED
      BY <3>1 DEF AttributeAt, TheAttribute
  <2>2. QED
    BY <2>1
<1> HIDE DEF Is, ends, next, base, step, V
<1>8. AreParts(ends, next, base, step, N, V)
  BY <1>3, <1>4, <1>6 DEF AreParts
<1>9. PICK f : Parses(f, ends, next, base, step, N, V)
  <2> HIDE DEF N
  <2>1. QED
    BY <1>1, <1>8, Parser
<1>10. Is(f)
  <2>1. f \in [1 .. N -> V] /\ \A i \in 1 .. N :
          f[i] = IF i \in ends THEN base[i] ELSE step[i][f[next[i]]]
    BY <1>9 DEF Parses
  <2>2. ASSUME NEW i \in 1 .. N, i \notin ends
        PROVE  f[i] = Then(TheAttribute(b, i), f[i + 2 + b[i + 1]])
    <3>1. next[i] \in 1 .. N /\ next[i] = i + 2 + b[i + 1]
      BY <1>3, <2>2
    <3>2. f[next[i]] \in V
      BY <2>1, <3>1
    <3>3. step[i][f[next[i]]] = Then(TheAttribute(b, i), f[next[i]])
      BY <1>4, <2>2, <3>2
    <3>4. QED
      BY <2>1, <2>2, <3>1, <3>3
  <2>3. Fits1(f)
    BY <1>3, <1>5, <2>1, <2>2
  <2>4. f = [i \in 1 .. N |-> f[i]]
    BY <2>1
  <2> HIDE DEF Fits1
  <2>5. QED
    BY <1>7, <2>3, <2>4
<1> DEFINE P == CHOOSE g : Is(g)
<1>11. Is(P)
  BY <1>10
<1>12. ParseAttributes(b) = P[1]
  BY DEF ParseAttributes, Is
<1> HIDE DEF P
<1>13. P = [i \in 1 .. N |-> P[i]] /\ Fits1(P)
  <2> HIDE DEF Fits1
  <2>1. QED
    BY <1>7, <1>11
<1>14. Satisfies(P, ends, next, base, step, N, V)
  BY <1>3, <1>4, <1>5, <1>13 DEF Satisfies
<1>15. Parses(P, ends, next, base, step, N, V)
  <2> HIDE DEF N
  <2>1. QED
    BY <1>1, <1>8, <1>14, TheParser
<1>16. P \in [1 .. N -> V]
  BY <1>15 DEF Parses
<1>17. AttributesAre(P, b)
  BY <1>12, <1>13, <1>16 DEF AttributesAre, V
<1>18. QED
  BY <1>17

\* Attributes are taken for what they are, and what is taken is what was written.
LEMMA GoodAttributesRead ==
  ASSUME NEW b \in Seq(Byte), NEW P, AttributesAre(P, b)
  PROVE  LET enc == [a \in GoodAttributes |-> <<a.id, Len(a.value) % Base>> \o a.value]
         IN  /\ Encodes(enc, GoodAttributes, Byte)
             /\ Reads(P, enc, b, GoodAttributes, Byte)
             /\ Copies(P, enc, b, GoodAttributes)
<1> DEFINE X == GoodAttributes
           enc == [a \in X |-> <<a.id, Len(a.value) % Base>> \o a.value]
           N == Len(b) + 1
<1>1. ASSUME NEW a \in X
      PROVE  /\ a.id \in Byte /\ a.value \in Seq(Byte) /\ Len(a.value) \in Nat
             /\ Len(a.value) < Base /\ Len(a.value) \in Byte
             /\ Len(a.value) % Base = Len(a.value)
             /\ a = [id |-> a.id, value |-> a.value]
  <2>1. /\ a.id \in Byte /\ a.value \in Seq(Byte) /\ Len(a.value) < Base
        /\ a = [id |-> a.id, value |-> a.value]
    BY DEF GoodAttributes, Attributes
  <2> DEFINE n == Len(a.value)
  <2>2. n \in Nat /\ n < Base
    BY <2>1
  <2> HIDE DEF n
  <2>3. n % Base = n /\ n \in Byte
    BY <2>2, OctetAssumption DEF Byte
  <2>4. QED
    BY <2>1, <2>2, <2>3 DEF n
<1>2. ASSUME NEW a \in X
      PROVE  LET e == enc[a]
                 n == Len(a.value)
             IN  /\ e \in Seq(Byte) /\ Len(e) = n + 2 /\ e[1] = a.id /\ e[2] = n
                 /\ Slice(e, 3, n) = a.value
                 /\ \A k \in 1 .. n : e[k + 2] = a.value[k]
  <2> DEFINE v == a.value
             n == Len(v)
             h == <<a.id, n>>
             e == h \o v
  <2>1. v \in Seq(Byte) /\ n \in Nat /\ n \in Byte /\ a.id \in Byte /\ enc[a] = e
    BY <1>1
  <2> HIDE DEF v, n
  <2>2. h \in Seq(Byte) /\ Len(h) = 2 /\ h[1] = a.id /\ h[2] = n
    BY <2>1
  <2>3. <<>> \in Seq(Byte)
    OBVIOUS
  <2> HIDE DEF h
  <2>4. /\ h \o v \in Seq(Byte) /\ Len(h \o v) = Len(h) + Len(v)
        /\ \A k \in 1 .. Len(h) + Len(v) :
             (h \o v)[k] = IF k <= Len(h) THEN h[k] ELSE v[k - Len(h)]
    <3>1. h \in Seq(Byte) /\ v \in Seq(Byte)
      BY <2>1, <2>2
    <3>2. QED
      BY <3>1, ConcatProperties
  <2>5. Slice(e, 3, n) = v
    <3> DEFINE one == 1
    <3>1. h \in Seq(Byte) /\ v \in Seq(Byte) /\ one \in Nat \ {0}
      BY <2>1, <2>2
    <3>2. one + n <= Len(v) + 1 /\ n \in Nat /\ n = Len(v)
      BY <2>1 DEF n
    <3> HIDE DEF one
    <3>3. Slice(h \o v, Len(h) + one, n) = Slice(v, one, n)
      BY <3>1, <3>2, SliceWithin
    <3>4. Slice(v, 1, Len(v)) = v
      BY <3>1, SubSeqFull DEF Slice
    <3>5. QED
      BY <2>2, <3>2, <3>3, <3>4 DEF one
  <2>6. Len(e) = n + 2 /\ e \in Seq(Byte)
    BY <2>1, <2>2, <2>4 DEF n
  <2>7. e[1] = a.id /\ e[2] = n
    BY <2>1, <2>2, <2>4 DEF n
  <2>8. ASSUME NEW k \in 1 .. n PROVE e[k + 2] = v[k]
    <3>1. k + 2 \in 1 .. 2 + n /\ ~(k + 2 <= 2) /\ (k + 2) - 2 = k
      BY <2>1
    <3>2. QED
      BY <2>2, <2>4, <3>1 DEF n
  <2>9. QED
    BY <2>1, <2>5, <2>6, <2>7, <2>8 DEF n, v
<1> HIDE DEF enc, X
<1>3. Encodes(enc, X, Byte)
  <2>1. \A a \in X : enc[a] \in Seq(Byte)
    BY <1>2
  <2>2. enc = [a \in X |-> enc[a]]
    BY DEF enc
  <2>3. QED
    BY <2>1, <2>2 DEF Encodes
<1>4. Reads(P, enc, b, X, Byte)
  <2>1. P[Len(b) + 1] = Done(<<>>)
    <3>1. Len(b) + 1 \in 1 .. Len(b) + 1 /\ Len(b) + 1 > Len(b)
      OBVIOUS
    <3>2. QED
      BY <3>1 DEF AttributesAre
  <2>2. ASSUME NEW pre \in Seq(Byte), NEW post \in Seq(Byte), NEW a \in X,
               b = pre \o enc[a] \o post
        PROVE  P[Len(pre) + 1] = Then(a, P[Len(pre) + Len(enc[a]) + 1])
    <3> DEFINE e == enc[a]
               n == Len(a.value)
               l == Len(pre)
               r == Len(post)
               i == l + 1
    <3>1. e \in Seq(Byte) /\ Len(e) = n + 2 /\ e[1] = a.id /\ e[2] = n
          /\ Slice(e, 3, n) = a.value
      BY <1>2
    <3>2. l \in Nat /\ r \in Nat /\ n \in Nat
      BY <1>1
    <3>3. b = pre \o e \o post
      BY <2>2
    <3> HIDE DEF e
    <3>4. /\ Len(b) = l + Len(e) + r
          /\ \A k \in 1 .. Len(e) : b[l + k] = e[k]
      <4>1. e \in Seq(Byte)
        BY <3>1
      <4>2. /\ Len(pre \o e \o post) = Len(pre) + Len(e) + Len(post)
            /\ \A k \in 1 .. Len(e) : (pre \o e \o post)[Len(pre) + k] = e[k]
        BY <4>1, Parts
      <4>3. QED
        BY <3>3, <4>2
    <3>5. Slice(b, l + 3, n) = a.value
      <4> DEFINE j == 3
      <4>1. e \in Seq(Byte) /\ j \in Nat \ {0} /\ n \in Nat /\ j + n <= Len(e) + 1
        BY <3>1, <3>2
      <4> HIDE DEF j, n
      <4>2. Slice(pre \o e \o post, Len(pre) + j, n) = Slice(e, j, n)
        BY <4>1, Inside
      <4>3. QED
        BY <3>1, <3>3, <4>2 DEF j
    <3> HIDE DEF l, r, n
    <3>6. b[i] = a.id /\ b[i + 1] = n
      <4>1. 1 \in 1 .. Len(e) /\ 2 \in 1 .. Len(e) /\ i + 1 = l + 2
        BY <3>1, <3>2
      <4>2. b[l + 1] = e[1] /\ b[l + 2] = e[2]
        BY <3>4, <4>1
      <4>3. QED
        BY <3>1, <4>1, <4>2
    <3>7. Len(b) = l + (n + 2) + r
      BY <3>1, <3>4
    <3>8. i \in 1 .. Len(b) + 1 /\ ~(i > Len(b)) /\ AttributeAt(b, i)
      <4>1. i \in 1 .. Len(b) + 1 /\ ~(i > Len(b)) /\ i + 1 <= Len(b)
            /\ i + 1 + n <= Len(b)
        BY <3>2, <3>7
      <4>2. QED
        BY <3>6, <4>1 DEF AttributeAt
    <3>9. TheAttribute(b, i) = a
      <4>1. i + 2 = l + 3
        BY <3>2
      <4>2. TheAttribute(b, i) = [id |-> a.id, value |-> a.value]
        BY <3>5, <3>6, <4>1 DEF TheAttribute, Attribute
      <4>3. QED
        BY <1>1, <4>2
    <3>10. P[i] = Then(a, P[i + 2 + n])
      BY <3>6, <3>8, <3>9 DEF AttributesAre
    <3>11. i + 2 + n = l + Len(e) + 1
      BY <3>1, <3>2
    <3>12. QED
      BY <3>10, <3>11 DEF l, e
  <2>3. QED
    BY <2>1, <2>2 DEF Reads
<1>5. Copies(P, enc, b, X)
  <2>1. P \in [1 .. N -> Answers(X)]
    BY DEF AttributesAre, X
  <2>2. ASSUME NEW i \in 1 .. N, P[i].ok
        PROVE  \/ i = N /\ P[i] = Done(<<>>)
               \/ \E x \in X, j \in i + 1 .. N :
                    P[i] = Then(x, P[j]) /\ enc[x] = SubSeq(b, i, j - 1)
    <3>1. CASE i > Len(b)
      BY <3>1 DEF AttributesAre
    <3>2. CASE ~(i > Len(b)) /\ ~ AttributeAt(b, i)
      <4>1. P[i] = Stopped
        BY <3>2 DEF AttributesAre
      <4>2. QED
        BY <2>2, <4>1 DEF Stopped
    <3>3. CASE ~(i > Len(b)) /\ AttributeAt(b, i)
      <4> DEFINE n == b[i + 1]
                 v == Slice(b, i + 2, n)
                 x == TheAttribute(b, i)
                 j == i + 2 + n
                 u == SubSeq(b, i, j - 1)
      <4>1. /\ i \in 1 .. Len(b) /\ i + 1 \in 1 .. Len(b)
            /\ n \in Byte /\ n \in Nat /\ n < Base /\ b[i] \in Byte
            /\ j \in i + 1 .. N /\ x \in X
            /\ x = [id |-> b[i], value |-> v] /\ Len(v) = n
        BY <3>3, AttributeIs DEF X
      <4>2. P[i] = Then(x, P[j])
        BY <3>3 DEF AttributesAre
      <4>3. v \in Seq(Byte) /\ \A k \in 1 .. n : v[k] = b[i + 2 + k - 1]
        <5> DEFINE m == i + 2
        <5>1. m \in Nat \ {0} /\ n \in Nat /\ m + n <= Len(b) + 1
          BY <4>1
        <5> HIDE DEF m, n
        <5>2. /\ Slice(b, m, n) \in Seq(Byte)
              /\ \A k \in 1 .. n : Slice(b, m, n)[k] = b[m + k - 1]
          BY <5>1, SliceIs
        <5>3. QED
          BY <5>2 DEF m
      <4> DEFINE e == enc[x]
      <4>4. x.id = b[i] /\ x.value = v
        BY <4>1
      <4>5. e \in Seq(Byte) /\ Len(e) = n + 2 /\ e[1] = b[i] /\ e[2] = n
            /\ \A k \in 1 .. n : e[k + 2] = v[k]
        <5>1. x \in X
          BY <4>1
        <5> HIDE DEF x, v, n, j
        <5>2. QED
          BY <1>2, <4>1, <4>4, <5>1
      <4> HIDE DEF e
      <4>6. u \in Seq(Byte) /\ Len(u) = n + 2 /\ \A k \in 1 .. n + 2 : u[k] = b[i + k - 1]
        <5> DEFINE w == n + 2
        <5>1. w \in Nat /\ i \in Nat \ {0} /\ i + w <= Len(b) + 1 /\ i + w - 1 = j - 1
          BY <4>1
        <5> HIDE DEF w, j, u, e, v, x, n
        <5>2. /\ Slice(b, i, w) \in Seq(Byte) /\ Len(Slice(b, i, w)) = w
              /\ \A k \in 1 .. w : Slice(b, i, w)[k] = b[i + k - 1]
          <6>1. w \in Nat /\ i \in Nat \ {0} /\ i + w <= Len(b) + 1
            BY <5>1
          <6>2. IsSlice(Slice(b, i, w), Byte, b, i, w)
            BY <6>1, SlicedIs
          <6>3. QED
            BY <6>2, Zenon DEF IsSlice
        <5>3. Slice(b, i, w) = u
          BY <5>1 DEF Slice, u
        <5>4. QED
          BY <5>2, <5>3 DEF w
      <4> HIDE DEF x, v, j, u
      <4>7. ASSUME NEW k \in 1 .. n + 2 PROVE e[k] = u[k]
        <5>1. CASE k = 1
          <6>1. u[1] = b[i + 1 - 1] /\ i + 1 - 1 = i
            BY <4>1, <4>6
          <6>2. QED
            BY <4>5, <5>1, <6>1
        <5>2. CASE k = 2
          <6>1. u[2] = b[i + 2 - 1] /\ i + 2 - 1 = i + 1
            BY <4>1, <4>6
          <6>2. QED
            BY <4>5, <5>2, <6>1
        <5>3. CASE k > 2
          <6>1. k - 2 \in 1 .. n /\ (k - 2) + 2 = k /\ i + 2 + (k - 2) - 1 = i + k - 1
            BY <4>1, <5>3
          <6>2. e[(k - 2) + 2] = b[i + 2 + (k - 2) - 1]
            BY <4>3, <4>5, <6>1
          <6>3. QED
            BY <4>6, <6>1, <6>2
        <5>4. QED
          BY <4>1, <5>1, <5>2, <5>3
      <4>8. e = u
        <5>1. Len(e) = Len(u) /\ \A k \in 1 .. Len(e) : e[k] = u[k]
          BY <4>5, <4>6, <4>7
        <5>2. QED
          BY <4>5, <4>6, <5>1, SeqEqual
      <4>9. QED
        BY <4>1, <4>2, <4>8 DEF e, u
    <3>4. QED
      BY <3>1, <3>2, <3>3
  <2>3. QED
    BY <2>1, <2>2 DEF Copies
<1>6. QED
  BY <1>3, <1>4, <1>5 DEF X, enc

\* Packed items are a string over the alphabet of their codes.
LEMMA PacksIs ==
  ASSUME NEW X, NEW S, NEW enc, Encodes(enc, X, S), NEW xs \in Seq(X)
  PROVE  Packs(enc, xs) \in Seq(S)
<1> DEFINE ss == CodesOf(enc, xs)
<1>1. ss \in Seq(Seq(S))
  BY CodesAre
<1> HIDE DEF ss
<1>2. PICK F : Flattens(F, ss, S)
  BY <1>1, FlattenIs
<1>3. Len(ss) \in 0 .. Len(ss)
  BY <1>1
<1>4. QED
  BY <1>2, <1>3 DEF Flattens, Packs, ss

\* PackSdu and EncodeAttributes put codes one after the other.
LEMMA PackSduIs ==
  ASSUME NEW X, NEW ms \in Seq(X)
  PROVE  PackSdu(ms) = Packs([m \in X |-> Encode(m)], ms)
<1>1. \A k \in DOMAIN ms : ms[k] \in X
  OBVIOUS
<1>2. CodesOf([m \in X |-> Encode(m)], ms) = [k \in DOMAIN ms |-> Encode(ms[k])]
  BY <1>1 DEF CodesOf
<1>3. QED
  BY <1>2 DEF PackSdu, Packs

\* Likewise for attributes.
LEMMA EncodeAttributesIs ==
  ASSUME NEW X, NEW as \in Seq(X)
  PROVE  EncodeAttributes(as)
           = Packs([a \in X |-> <<a.id, Len(a.value) % Base>> \o a.value], as)
<1>1. \A k \in DOMAIN as : as[k] \in X
  OBVIOUS
<1>2. CodesOf([a \in X |-> <<a.id, Len(a.value) % Base>> \o a.value], as)
        = [k \in DOMAIN as |-> <<as[k].id, Len(as[k].value) % Base>> \o as[k].value]
  BY <1>1 DEF CodesOf
<1>3. QED
  BY <1>2 DEF EncodeAttributes, Packs

\* Messages one after the other are unpacked to themselves.
LEMMA SduSurvives ==
  ASSUME NEW ms \in Seq(GoodMessages)
  PROVE  UnpackSdu(PackSdu(ms)) = ms
<1> DEFINE enc == [m \in GoodMessages |-> Encode(m)]
           b == Packs(enc, ms)
<1>1. Encodes(enc, GoodMessages, Byte)
  <2>1. \A m \in GoodMessages : Encode(m) \in Seq(Byte)
    BY EncodeIs DEF GoodMessages
  <2>2. QED
    BY <2>1 DEF Encodes
<1>2. PackSdu(ms) = b
  BY PackSduIs
<1>3. b \in Seq(Byte)
  <2> HIDE DEF enc
  <2>1. QED
    BY <1>1, PacksIs
<1> HIDE DEF b
<1>4. PICK U : Sdu(U, b)
  BY <1>3, SduIs
<1>5. Reads(U, enc, b, GoodMessages, Byte)
  BY <1>3, <1>4, GoodReads
<1>6. U[1] = Done(ms)
  <2> HIDE DEF enc
  <2>1. QED
    BY <1>1, <1>5, Unpacked DEF b
<1>7. QED
  BY <1>2, <1>4, <1>6 DEF Sdu, Done

\* A message that is malformed right after a good one empties the SDU.
LEMMA AfterOne ==
  ASSUME NEW m \in GoodMessages, NEW rest \in Seq(Byte), NEW U,
         Sdu(U, Encode(m) \o rest)
  PROVE  /\ U[1] = Then(m, U[Len(Encode(m)) + 1])
         /\ Encode(m) \o rest \in Seq(Byte)
         /\ Len(Encode(m) \o rest) = Len(Encode(m)) + Len(rest)
         /\ Encode(m) \in Seq(Byte)
<1> DEFINE enc == [x \in GoodMessages |-> Encode(x)]
           e == Encode(m)
           nil == <<>>
<1>1. e \in Seq(Byte) /\ enc[m] = e /\ nil \in Seq(Byte)
  BY EncodeIs DEF GoodMessages
<1> HIDE DEF e
<1>2. e \o rest \in Seq(Byte) /\ Len(e \o rest) = Len(e) + Len(rest)
  BY <1>1, ConcatProperties
<1>3. Reads(U, enc, e \o rest, GoodMessages, Byte)
  BY <1>2, GoodReads DEF e
<1>4. nil \o enc[m] \o rest = e \o rest
  BY <1>1
<1>5. Len(nil) = 0
  OBVIOUS
<1> HIDE DEF nil, enc
<1>6. U[Len(nil) + 1] = Then(m, U[Len(nil) + Len(enc[m]) + 1])
  BY <1>1, <1>3, <1>4 DEF Reads
<1>7. Len(e) \in Nat
  BY <1>1
<1>8. QED
  BY <1>1, <1>2, <1>5, <1>6, <1>7 DEF e

\* A message without payload at the start empties the SDU.
LEMMA NoPayload ==
  ASSUME NEW m \in Messages, m.payload = <<>>, NEW rest \in Seq(Byte)
  PROVE  UnpackSdu(Encode(m) \o rest) = <<>>
<1> DEFINE e == Encode(m)
           b == e \o rest
           j == 3
           w == 2
<1>1. e \in Seq(Byte) /\ Len(e) = 4 /\ Slice(e, j, w) = BigEndian(0, 2)
  <2>1. Len(m.payload) = 0
    OBVIOUS
  <2>2. /\ e \in Seq(Byte) /\ Len(e) = 4 + Len(m.payload)
        /\ Slice(e, 3, 2) = BigEndian(Len(m.payload), 2)
    BY EncodeIs
  <2> HIDE DEF e
  <2>3. QED
    BY <2>1, <2>2
<1>2. j \in Nat \ {0} /\ w \in Nat /\ j + w <= Len(e) + 1
  BY <1>1
<1> HIDE DEF e, j, w
<1>3. b \in Seq(Byte) /\ Len(b) = Len(e) + Len(rest)
  BY <1>1, ConcatProperties
<1>4. Slice(b, j, w) = Slice(e, j, w)
  <2>1. e \in Seq(Byte)
    BY <1>1
  <2>2. QED
    BY <1>2, <2>1, SliceWithin
<1> HIDE DEF b
<1>5. Number(BigEndian(0, 2)) = 0
  <2> DEFINE z == 0
  <2>1. z \in Nat /\ z < Base * Base /\ w \in Nat
    BY OctetAssumption DEF w
  <2> HIDE DEF z
  <2>2. Fits(z, 2)
    BY <2>1, FitsShort
  <2>3. Number(BigEndian(z, 2)) = z
    BY <2>1, <2>2, BigEndianIs DEF w
  <2>4. QED
    BY <2>3 DEF z
<1>6. PayloadLength(b, 1) = 0
  BY <1>1, <1>4, <1>5 DEF PayloadLength, j, w
<1>7. ~ Whole(b, 1)
  BY <1>6 DEF Whole
<1>8. 1 \in 1 .. Len(b) + 1 /\ ~(1 > Len(b))
  BY <1>1, <1>3
<1>9. PICK U : Sdu(U, b)
  BY <1>3, SduIs
<1>10. U[1] = Malformed
  BY <1>7, <1>8, <1>9 DEF Sdu
<1>11. QED
  BY <1>9, <1>10 DEF Sdu, Malformed, Stopped, b, e

\* One message and more bytes are never unpacked to that message alone.
LEMMA NeverAlone ==
  ASSUME NEW m \in GoodMessages, NEW rest \in Seq(Byte), rest # <<>>
  PROVE  UnpackSdu(Encode(m) \o rest) # <<m>>
<1> DEFINE e == Encode(m)
           b == e \o rest
           i == Len(e) + 1
<1>1. e \in Seq(Byte) /\ m \in Messages
  BY EncodeIs DEF GoodMessages
<1> HIDE DEF e
<1>2. b \in Seq(Byte) /\ Len(b) = Len(e) + Len(rest)
  BY <1>1, ConcatProperties
<1>3. PICK U : Sdu(U, b)
  BY <1>2, SduIs
<1>4. U[1] = Then(m, U[i])
  BY <1>3, AfterOne DEF b, e
<1>5. i \in 1 .. Len(b) + 1 /\ ~(i > Len(b)) /\ 1 \in 1 .. Len(b) + 1
  <2> DEFINE l == Len(e)
             r == Len(rest)
  <2>1. l \in Nat /\ r \in Nat \ {0}
    BY <1>1
  <2>2. Len(b) = l + r
    BY <1>2
  <2> HIDE DEF l, r, b
  <2>3. QED
    BY <2>1, <2>2 DEF l
<1> HIDE DEF b, i
<1>6. U[i] \in Answers(Messages)
  BY <1>3, <1>5 DEF Sdu
<1> DEFINE r == U[i]
<1>7. r \in Answers(Messages)
  BY <1>6
<1>8. r.ok => r.items # <<>>
  <2>1. CASE Whole(b, i)
    <3> DEFINE j == i + 4 + PayloadLength(b, i)
               d == Decoded(b, i)
    <3>1. d \in Messages /\ j \in i + 1 .. Len(b) + 1
      BY <1>2, <1>5, <2>1, WholeIs
    <3>2. r = Then(d, U[j])
      BY <1>3, <1>5, <2>1 DEF Sdu
    <3>3. j \in 1 .. Len(b) + 1
      BY <1>5, <3>1
    <3> HIDE DEF j, d
    <3>4. U[j] \in Answers(Messages)
      BY <1>3, <3>3 DEF Sdu
    <3> DEFINE q == U[j]
    <3>5. q \in Answers(Messages)
      BY <3>4
    <3> HIDE DEF q
    <3>6. Then(d, q).items = <<d>> \o q.items /\ q.items \in Seq(Messages)
      <4>1. d \in Messages
        BY <3>1
      <4>2. Then(d, q).items = <<d>> \o q.items
        BY <3>5, <4>1, ThenIs
      <4>3. q.items \in Seq(Messages)
        BY <3>5 DEF Answers
      <4>4. QED
        BY <4>2, <4>3
    <3> DEFINE ys == q.items
    <3>7. ys \in Seq(Messages) /\ Len(<<d>> \o ys) = Len(ys) + 1
      <4>1. ys \in Seq(Messages)
        BY <3>6
      <4> HIDE DEF ys
      <4>2. QED
        BY <3>1, <4>1, OneThen
    <3>8. r.items = <<d>> \o ys
      BY <3>2, <3>6 DEF q
    <3>9. Len(<<d>> \o ys) # 0
      BY <3>7
    <3>10. QED
      BY <3>8, <3>9
  <2>2. CASE ~ Whole(b, i)
    BY <1>3, <1>5, <2>2 DEF Sdu, Malformed, Stopped
  <2>3. QED
    BY <2>1, <2>2
<1> HIDE DEF r
<1>9. Then(m, r).ok = r.ok /\ Then(m, r).items = <<m>> \o r.items
  BY <1>1, <1>7, ThenIs
<1>10. CASE r.ok
  <2> DEFINE ys == r.items
  <2>1. ys \in Seq(Messages) /\ ys # <<>>
    BY <1>7, <1>8, <1>10 DEF Answers
  <2> HIDE DEF ys
  <2>2. Len(<<m>> \o ys) = Len(ys) + 1 /\ Len(ys) \in Nat \ {0}
    BY <1>1, <2>1, OneThen
  <2>3. Len(<<m>> \o ys) # Len(<<m>>)
    <3>1. Len(<<m>>) = 1
      OBVIOUS
    <3>2. QED
      BY <2>2, <3>1
  <2>4. UnpackSdu(b) = <<m>> \o ys
    BY <1>3, <1>4, <1>9, <1>10 DEF Sdu, r, ys
  <2>5. QED
    BY <2>3, <2>4 DEF b, e
<1>11. CASE ~ r.ok
  <2>1. UnpackSdu(b) = <<>>
    BY <1>3, <1>4, <1>9, <1>11 DEF Sdu, r
  <2>2. <<>> # <<m>>
    OBVIOUS
  <2>3. QED
    BY <2>1, <2>2 DEF b, e
<1>12. QED
  BY <1>10, <1>11

\* What an SDU is unpacked to is as long as the SDU when packed again.
LEMMA SduLength ==
  ASSUME NEW b \in Seq(Byte), UnpackSdu(b) # <<>>
  PROVE  Len(PackSdu(UnpackSdu(b))) = Len(b)
<1> DEFINE enc == [m \in Messages |-> Encode(m)]
<1>1. PICK U : Sdu(U, b)
  BY SduIs
<1>2. U[1].ok /\ UnpackSdu(b) = U[1].items
  BY <1>1 DEF Sdu
<1>3. Encodes(enc, Messages, Byte)
  <2>1. \A m \in Messages : Encode(m) \in Seq(Byte)
    BY EncodeIs
  <2>2. QED
    BY <2>1 DEF Encodes
<1>4. Consumes(U, enc, b, Messages)
  <2>1. U \in [1 .. Len(b) + 1 -> Answers(Messages)]
    BY <1>1 DEF Sdu
  <2>2. ASSUME NEW i \in 1 .. Len(b) + 1, U[i].ok
        PROVE  \/ i = Len(b) + 1 /\ U[i] = Done(<<>>)
               \/ \E x \in Messages, j \in i + 1 .. Len(b) + 1 :
                    U[i] = Then(x, U[j]) /\ Len(enc[x]) = j - i
    <3>1. CASE i > Len(b)
      BY <1>1, <3>1 DEF Sdu
    <3>2. CASE ~(i > Len(b)) /\ Whole(b, i)
      <4> DEFINE n == PayloadLength(b, i)
                 j == i + 4 + n
                 x == Decoded(b, i)
      <4>1. j \in i + 1 .. Len(b) + 1 /\ x \in Messages /\ Len(x.payload) = n /\ n \in Nat
        BY <3>2, WholeIs
      <4>2. U[i] = Then(x, U[j])
        BY <1>1, <3>2 DEF Sdu
      <4> HIDE DEF x, n
      <4>3. Len(enc[x]) = 4 + Len(x.payload)
        BY <4>1, EncodeIs
      <4>4. Len(enc[x]) = j - i
        BY <4>1, <4>3
      <4>5. QED
        BY <4>1, <4>2, <4>4
    <3>3. CASE ~(i > Len(b)) /\ ~ Whole(b, i)
      BY <1>1, <2>2, <3>3 DEF Sdu, Malformed, Stopped
    <3>4. QED
      BY <3>1, <3>2, <3>3
  <2>3. QED
    BY <2>1, <2>2 DEF Consumes
<1>5. U[1].items \in Seq(Messages)
  <2>1. 1 \in 1 .. Len(b) + 1
    OBVIOUS
  <2>2. U[1] \in Answers(Messages)
    BY <1>1, <2>1 DEF Sdu
  <2>3. QED
    BY <2>2 DEF Answers
<1>6. PackSdu(U[1].items) = Packs(enc, U[1].items)
  BY <1>5, PackSduIs
<1>7. Len(Packs(enc, U[1].items)) = Len(b)
  <2> HIDE DEF enc
  <2>1. QED
    BY <1>2, <1>3, <1>4, RepackedLength
<1>8. QED
  BY <1>2, <1>6, <1>7

\* Attributes that were written are read, and those that were read are what
\* was written.
LEMMA AttributesSurvive ==
  ASSUME NEW as \in Seq(GoodAttributes)
  PROVE  ParseAttributes(EncodeAttributes(as)) = Done(as)
<1> DEFINE enc == [a \in GoodAttributes |-> <<a.id, Len(a.value) % Base>> \o a.value]
           b == Packs(enc, as)
<1>1. EncodeAttributes(as) = b
  BY EncodeAttributesIs
<1>2. Encodes(enc, GoodAttributes, Byte)
  <2>1. <<>> \in Seq(Byte)
    OBVIOUS
  <2>2. PICK P : AttributesAre(P, <<>>)
    BY <2>1, AttributesAreRead
  <2>3. QED
    BY <2>1, <2>2, GoodAttributesRead
<1>3. b \in Seq(Byte)
  <2> HIDE DEF enc
  <2>1. QED
    BY <1>2, PacksIs
<1> HIDE DEF b
<1>4. PICK P : AttributesAre(P, b)
  BY <1>3, AttributesAreRead
<1>5. Reads(P, enc, b, GoodAttributes, Byte)
  BY <1>3, <1>4, GoodAttributesRead
<1>6. P[1] = Done(as)
  <2> HIDE DEF enc
  <2>1. QED
    BY <1>2, <1>5, Unpacked DEF b
<1>7. QED
  BY <1>1, <1>4, <1>6 DEF AttributesAre

\* Bytes that are read as attributes are what the attributes are written as.
LEMMA AttributesStay ==
  ASSUME NEW b \in Seq(Byte), ParseAttributes(b).ok
  PROVE  EncodeAttributes(ParseAttributes(b).items) = b
<1> DEFINE enc == [a \in GoodAttributes |-> <<a.id, Len(a.value) % Base>> \o a.value]
<1>1. PICK P : AttributesAre(P, b)
  BY AttributesAreRead
<1>2. ParseAttributes(b) = P[1]
  BY <1>1 DEF AttributesAre
<1>3. Encodes(enc, GoodAttributes, Byte) /\ Copies(P, enc, b, GoodAttributes)
  BY <1>1, GoodAttributesRead
<1>4. P[1].items \in Seq(GoodAttributes)
  <2>1. 1 \in 1 .. Len(b) + 1
    OBVIOUS
  <2>2. P[1] \in Answers(GoodAttributes)
    BY <1>1, <2>1 DEF AttributesAre
  <2>3. QED
    BY <2>2 DEF Answers
<1>5. EncodeAttributes(P[1].items) = Packs(enc, P[1].items)
  BY <1>4, EncodeAttributesIs
<1>6. Packs(enc, P[1].items) = b
  <2> HIDE DEF enc
  <2>1. QED
    BY <1>2, <1>3, Repacked
<1>7. QED
  BY <1>2, <1>5, <1>6

\* A pair, element by element.
LEMMA PairIs ==
  ASSUME NEW X, NEW x \in X, NEW y \in X
  PROVE  <<x>> \o <<y>> = <<x, y>>
<1> DEFINE e == <<y>>
           p == <<x, y>>
<1>1. e \in Seq(X) /\ Len(e) = 1 /\ e[1] = y
  OBVIOUS
<1>2. p \in Seq(X) /\ Len(p) = 2 /\ p[1] = x /\ p[2] = y
  OBVIOUS
<1> HIDE DEF e, p
<1> DEFINE q == <<x>> \o e
<1>3. q \in Seq(X) /\ Len(q) = Len(e) + 1 /\ q[1] = x
      /\ \A k \in 1 .. Len(e) : q[k + 1] = e[k]
  <2>1. e \in Seq(X)
    BY <1>1
  <2>2. QED
    BY <2>1, OneThen
<1> HIDE DEF q
<1>4. Len(q) = 2 /\ q[2] = y
  <2>1. 1 \in 1 .. Len(e) /\ 1 + 1 = 2
    BY <1>1
  <2>2. QED
    BY <1>1, <1>3, <2>1
<1>5. \A k \in 1 .. 2 : q[k] = p[k]
  BY <1>2, <1>3, <1>4
<1>6. q = p
  BY <1>2, <1>3, <1>4, <1>5, SeqEqual
<1>7. QED
  BY <1>6 DEF q, e, p

\* The clauses of SduAllOrNothing, for one string.
LEMMA SduOf ==
  ASSUME InputIs, Len(input) < Base * Base
  PROVE  SduAllOrNothing
<1> DEFINE m1 == Message(1, 2, input)
           m2 == Message(3, 0, input)
           m0 == Message(1, 2, <<0>>)
           as == <<Attribute(1, input), Attribute(0, <<>>)>>
<1>1. input \in Seq(Byte) /\ Len(input) \in Nat
  BY DEF InputIs
<1>2. 0 \in Byte /\ 1 \in Byte /\ 2 \in Byte /\ 3 \in Byte /\ 3 < Base \div 4 /\ 1 < Base * Base
  BY OctetAssumption DEF Byte
<1>3. m1 \in Messages /\ m2 \in Messages /\ m1.payload = input /\ m2.payload = input
      /\ m1.type = 1 /\ m2.type = 3
  BY <1>1, <1>2 DEF Message, Messages
<1>4. m0 \in GoodMessages
  <2>1. <<0>> \in Seq(Byte) /\ Len(<<0>>) = 1
    BY <1>2
  <2>2. m0 \in Messages /\ m0.type = 1 /\ m0.payload = <<0>>
    BY <1>2, <2>1 DEF Message, Messages
  <2>3. 1 \in 1 .. Base * Base - 1 /\ 1 < Base \div 4
    BY OctetAssumption
  <2>4. QED
    BY <2>1, <2>2, <2>3 DEF GoodMessages
<1> HIDE DEF m1, m2, m0
<1>5. UnpackSdu(PackSdu(<<m1, m2>>)) = IF input = <<>> THEN <<>> ELSE <<m1, m2>>
  <2>1. CASE input # <<>>
    <3>1. Len(input) \in 1 .. Base * Base - 1
      <4> DEFINE n == Len(input)
                 q == Base * Base
      <4>1. n \in Nat \ {0} /\ n < q /\ q \in Nat
        BY <1>1, <2>1, OctetAssumption
      <4> HIDE DEF n, q
      <4>2. n \in 1 .. q - 1
        BY <4>1
      <4>3. QED
        BY <4>2 DEF n, q
    <3>2. m1 \in GoodMessages /\ m2 \in GoodMessages
      <4>1. 1 < Base \div 4
        BY OctetAssumption
      <4>2. QED
        BY <1>2, <1>3, <3>1, <4>1 DEF GoodMessages
    <3>3. <<m1, m2>> \in Seq(GoodMessages)
      BY <3>2
    <3>4. QED
      BY <2>1, <3>3, SduSurvives
  <2>2. CASE input = <<>>
    <3> DEFINE enc == [m \in Messages |-> Encode(m)]
               xs == <<m2>>
               rest == Packs(enc, xs)
    <3>1. Encodes(enc, Messages, Byte)
      <4>1. \A m \in Messages : Encode(m) \in Seq(Byte)
        BY EncodeIs
      <4>2. QED
        BY <4>1 DEF Encodes
    <3>2. xs \in Seq(Messages) /\ <<m1>> \o xs = <<m1, m2>> /\ enc[m1] = Encode(m1)
      <4>1. m1 \in Messages /\ m2 \in Messages
        BY <1>3
      <4>2. enc[m1] = Encode(m1) /\ xs \in Seq(Messages)
        BY <4>1
      <4>3. <<m1>> \o xs = <<m1, m2>>
        BY <4>1, PairIs
      <4>4. QED
        BY <4>2, <4>3
    <3>3. PackSdu(<<m1>> \o xs) = Packs(enc, <<m1>> \o xs)
      <4>1. <<m1>> \o xs \in Seq(Messages)
        BY <1>3
      <4> HIDE DEF xs
      <4>2. QED
        BY <4>1, PackSduIs
    <3> HIDE DEF xs, enc
    <3>4. Packs(enc, <<m1>> \o xs) = enc[m1] \o rest /\ rest \in Seq(Byte)
      <4>1. m1 \in Messages /\ xs \in Seq(Messages)
        BY <1>3, <3>2
      <4>2. QED
        BY <3>1, <4>1, PackCons
    <3> HIDE DEF rest
    <3>5. UnpackSdu(Encode(m1) \o rest) = <<>>
      BY <1>3, <2>2, <3>4, NoPayload
    <3>6. QED
      BY <2>2, <3>2, <3>3, <3>4, <3>5
  <2>3. QED
    BY <2>1, <2>2
<1>6. UnpackSdu(PackSdu(<<m0>>) \o input) # <<m0>> \/ input = <<>>
  <2> DEFINE enc == [m \in Messages |-> Encode(m)]
             nil == <<>>
  <2>1. Encodes(enc, Messages, Byte)
    <3>1. \A m \in Messages : Encode(m) \in Seq(Byte)
      BY EncodeIs
    <3>2. QED
      BY <3>1 DEF Encodes
  <2>2. m0 \in Messages /\ nil \in Seq(Messages) /\ enc[m0] = Encode(m0)
        /\ <<m0>> \in Seq(Messages)
    BY <1>4 DEF GoodMessages
  <2>3. PackSdu(<<m0>>) = Packs(enc, <<m0>>)
    BY <2>2, PackSduIs
  <2>4. <<m0>> \o nil = <<m0>>
    <3> DEFINE one == <<m0>>
    <3>1. one \in Seq(Messages)
      BY <2>2
    <3> HIDE DEF one
    <3>2. one \o <<>> = one
      BY <3>1, ConcatEmptySeq
    <3>3. QED
      BY <3>2 DEF one
  <2> HIDE DEF enc, nil
  <2>5. /\ Packs(enc, <<m0>> \o nil) = enc[m0] \o Packs(enc, nil)
        /\ Packs(enc, nil) \in Seq(Byte)
    <3>1. m0 \in Messages /\ nil \in Seq(Messages)
      BY <2>2
    <3>2. QED
      BY <2>1, <3>1, PackCons
  <2>6. Packs(enc, nil) = <<>>
    BY PackNil DEF nil
  <2>7. Encode(m0) \in Seq(Byte)
    BY <2>2, EncodeIs
  <2>8. Encode(m0) \o <<>> = Encode(m0)
    BY <2>7, ConcatEmptySeq
  <2>9. PackSdu(<<m0>>) = Encode(m0)
    BY <2>2, <2>3, <2>4, <2>5, <2>6, <2>8
  <2>10. CASE input # <<>>
    <3>1. UnpackSdu(Encode(m0) \o input) # <<m0>>
      BY <1>1, <1>4, <2>10, NeverAlone
    <3>2. QED
      BY <2>9, <3>1
  <2>11. QED
    BY <2>10
<1>7. UnpackSdu(input) # <<>> => Len(PackSdu(UnpackSdu(input))) = Len(input)
  BY <1>1, SduLength
<1>8. Len(input) < Base => ParseAttributes(EncodeAttributes(as)) = Done(as)
  <2>1. CASE Len(input) < Base
    <3> DEFINE a1 == Attribute(1, input)
               a2 == Attribute(0, <<>>)
    <3>1. a1 \in GoodAttributes
      BY <1>1, <1>2, <2>1 DEF Attribute, GoodAttributes, Attributes
    <3>2. a2 \in GoodAttributes
      <4>1. <<>> \in Seq(Byte) /\ Len(<<>>) = 0 /\ 0 < Base
        BY OctetAssumption
      <4>2. QED
        BY <1>2, <4>1 DEF Attribute, GoodAttributes, Attributes
    <3> HIDE DEF a1, a2
    <3>3. <<a1, a2>> \in Seq(GoodAttributes)
      BY <3>1, <3>2
    <3>4. as = <<a1, a2>>
      BY DEF a1, a2
    <3> HIDE DEF as
    <3>5. QED
      BY <3>3, <3>4, AttributesSurvive
  <2>2. QED
    BY <2>1
<1>9. ParseAttributes(input).ok => EncodeAttributes(ParseAttributes(input).items) = input
  BY <1>1, AttributesStay
<1>10. QED
  BY <1>5, <1>6, <1>7, <1>8, <1>9 DEF SduAllOrNothing, m0, m1, m2

(***************************************************************************)
(* An SDU of messages is unpacked to them, one with a malformed message to *)
(* nothing, and attributes are read as written and written as read         *)
(* (BleMessages.cpp:45-131), when payload lengths fit their two bytes.     *)
(***************************************************************************)
THEOREM SduRight ==
  ASSUME MaxInput < Base * Base, MaxZeros < Base * Base
  PROVE  Spec => []SduAllOrNothing
<1>1. InputIs => Len(input) < Base * Base
  BY OctetAssumption, CodecsAssumption DEF InputIs
<1>2. InputIs => SduAllOrNothing
  BY <1>1, SduOf
<1>3. QED
  BY <1>2, TypeCorrect, PTL

-----------------------------------------------------------------------------
\* A quotient is the number whose multiple is not above, and the next one's is.
LEMMA QuotientIs ==
  ASSUME NEW x \in Nat, NEW d \in Nat \ {0}, NEW y \in Nat,
         y * d <= x, x < (y + 1) * d
  PROVE  x \div d = y
<1> DEFINE z == x \div d
<1>1. z \in Nat /\ z * d <= x /\ x < z * d + d
  OBVIOUS
<1>2. (y + 1) * d = y * d + d /\ y * d \in Nat
  OBVIOUS
<1> HIDE DEF z
<1>3. z * d \in Nat
  BY <1>1
<1>4. CASE y < z
  <2>1. PICK t \in Nat : z = (y + 1) + t
    <3>1. z - (y + 1) \in Nat /\ z = (y + 1) + (z - (y + 1))
      BY <1>1, <1>4
    <3>2. QED
      BY <3>1
  <2>2. z * d = (y + 1) * d + t * d /\ t * d >= 0
    BY <2>1
  <2>3. QED
    BY <1>1, <1>2, <1>3, <2>2
<1>5. CASE z < y
  <2>1. PICK t \in Nat : y = (z + 1) + t
    <3>1. y - (z + 1) \in Nat /\ y = (z + 1) + (y - (z + 1))
      BY <1>1, <1>5
    <3>2. QED
      BY <3>1
  <2>2. y * d = z * d + d + t * d /\ t * d >= 0
    BY <1>1, <2>1
  <2>3. QED
    BY <1>1, <1>2, <1>3, <2>2
<1>6. QED
  BY <1>1, <1>4, <1>5 DEF z

\* The four flags of a header byte are read as they were set.
LEMMA FlagsAre ==
  ASSUME NEW mb \in BOOLEAN, NEW me \in BOOLEAN, NEW sr \in BOOLEAN, NEW il \in BOOLEAN
  PROVE  LET h == Flag(mb, 2) + Flag(me, 4) + Flag(sr, 8) + Flag(il, 16)
         IN  h \in Byte /\ (MB(h) <=> mb) /\ (ME(h) <=> me) /\ (SR(h) <=> sr) /\ (IL(h) <=> il)
<1> DEFINE q == Base \div 16
           N(x) == IF x THEN 1 ELSE 0
           m == 8 * N(mb) + 4 * N(me) + 2 * N(sr) + N(il)
           h == Flag(mb, 2) + Flag(me, 4) + Flag(sr, 8) + Flag(il, 16)
<1>1. /\ q \in Nat \ {0} /\ Base = 16 * q /\ Base \div 2 = 8 * q /\ Base \div 4 = 4 * q
      /\ Base \div 8 = 2 * q /\ Base \div 16 = q
  BY OctetAssumption
<1> HIDE DEF q
<1>2. m \in 0 .. 15 /\ h = m * q
  <2>1. /\ Flag(mb, 2) = (8 * N(mb)) * q /\ Flag(me, 4) = (4 * N(me)) * q
        /\ Flag(sr, 8) = (2 * N(sr)) * q /\ Flag(il, 16) = N(il) * q
    BY <1>1 DEF Flag
  <2>2. /\ N(mb) \in 0 .. 1 /\ N(me) \in 0 .. 1 /\ N(sr) \in 0 .. 1 /\ N(il) \in 0 .. 1
    OBVIOUS
  <2> HIDE DEF N
  <2>3. QED
    BY <1>1, <2>1, <2>2
<1>3. /\ m = 8 * N(mb) + 4 * N(me) + 2 * N(sr) + N(il)
      /\ N(mb) \in 0 .. 1 /\ N(me) \in 0 .. 1 /\ N(sr) \in 0 .. 1 /\ N(il) \in 0 .. 1
      /\ (N(mb) = 1 <=> mb) /\ (N(me) = 1 <=> me) /\ (N(sr) = 1 <=> sr) /\ (N(il) = 1 <=> il)
  OBVIOUS
<1> HIDE DEF N, m, h
<1>4. h \in Byte
  BY <1>1, <1>2 DEF Byte
<1>5. ASSUME NEW w \in Nat \ {0} PROVE h \div (w * q) = m \div w
  <2> DEFINE y == m \div w
  <2>1. y \in Nat /\ y * w <= m /\ m + 1 <= (y + 1) * w
    BY <1>2
  <2> HIDE DEF y
  <2>2. w * q \in Nat \ {0} /\ h \in Nat
    BY <1>1, <1>2
  <2>3. y * (w * q) <= h
    <3>1. y * (w * q) = (y * w) * q
      BY <1>1, <2>1
    <3>2. PICK t \in Nat : m = y * w + t
      BY <1>2, <2>1
    <3> DEFINE u == y * w
    <3>3. u \in Nat /\ m = u + t /\ y * (w * q) = u * q
      BY <2>1, <3>1, <3>2
    <3> HIDE DEF u
    <3>4. m * q = u * q + t * q /\ t * q \in Nat /\ u * q \in Int
      BY <1>1, <3>3
    <3>5. u * q <= m * q
      BY <3>4
    <3>6. QED
      BY <1>2, <3>3, <3>5
  <2>4. h < (y + 1) * (w * q)
    <3>1. (y + 1) * (w * q) = ((y + 1) * w) * q
      BY <1>1, <2>1
    <3>2. PICK t \in Nat : (y + 1) * w = m + 1 + t
      BY <1>2, <2>1
    <3>3. ((y + 1) * w) * q = m * q + q + t * q /\ t * q >= 0 /\ m * q \in Int
      BY <1>1, <1>2, <3>2
    <3>4. QED
      BY <1>1, <1>2, <3>1, <3>3
  <2>5. QED
    BY <2>1, <2>2, <2>3, <2>4, QuotientIs DEF y
<1>6. /\ h \div (8 * q) = m \div 8 /\ h \div (4 * q) = m \div 4
      /\ h \div (2 * q) = m \div 2 /\ h \div q = m
  <2>1. h \div (1 * q) = m \div 1
    BY <1>5
  <2>2. 1 * q = q /\ m \div 1 = m
    BY <1>1, <1>2
  <2>3. QED
    BY <1>5, <2>1, <2>2
<1>7. /\ m \div 8 % 2 = N(mb) /\ m \div 4 % 2 = N(me)
      /\ m \div 2 % 2 = N(sr) /\ m % 2 = N(il)
  <2>1. m \div 8 % 2 = N(mb)
    BY <1>3
  <2>2. m \div 4 % 2 = N(me)
    BY <1>3
  <2>3. m \div 2 % 2 = N(sr)
    BY <1>3
  <2>4. m % 2 = N(il)
    BY <1>3
  <2>5. QED
    BY <2>1, <2>2, <2>3, <2>4
<1>8. /\ h \div (Base \div 2) % 2 = N(mb) /\ h \div (Base \div 4) % 2 = N(me)
      /\ h \div (Base \div 8) % 2 = N(sr) /\ h \div (Base \div 16) % 2 = N(il)
  BY <1>1, <1>6, <1>7
<1>9. (MB(h) <=> mb) /\ (ME(h) <=> me) /\ (SR(h) <=> sr) /\ (IL(h) <=> il)
  BY <1>3, <1>8 DEF MB, ME, SR, IL, Bit
<1>10. QED
  BY <1>4, <1>9 DEF h

\* z is q behind p: found there, and nothing before it has moved.
Adds(S, p, q, z) ==
  /\ z \in Seq(S) /\ Len(z) = Len(p) + Len(q)
  /\ \A k \in 1 .. Len(p) : z[k] = p[k]
  /\ \A k \in 1 .. Len(q) : z[Len(p) + k] = q[k]
  /\ Slice(z, Len(p) + 1, Len(q)) = q
  /\ \A i \in Nat \ {0}, n \in Nat :
       i + n <= Len(p) + 1 => Slice(z, i, n) = Slice(p, i, n)

\* A part added behind a string is.
LEMMA AddPart ==
  ASSUME NEW S, NEW s \in Seq(S), NEW t \in Seq(S)
  PROVE  Adds(S, s, t, s \o t)
<1> DEFINE z == s \o t
<1>1. Len(s) \in Nat /\ Len(t) \in Nat
  OBVIOUS
<1>2. s \o t \in Seq(S) /\ Len(s \o t) = Len(s) + Len(t)
  BY ConcatProperties
<1>3. /\ \A k \in 1 .. Len(s) : (s \o t)[k] = s[k]
      /\ \A k \in 1 .. Len(t) : (s \o t)[Len(s) + k] = t[k]
  OBVIOUS
<1>4. Slice(s \o t, Len(s) + 1, Len(t)) = t
  <2>1. Slice(t, 1, Len(t)) = t
    BY SliceWithin
  <2>2. Slice(s \o t, Len(s) + 1, Len(t)) = Slice(t, 1, Len(t))
    <3> DEFINE n == Len(t)
    <3>1. n \in Nat /\ 1 \in Nat \ {0} /\ 1 + n <= Len(t) + 1
      BY <1>1
    <3> HIDE DEF n
    <3>2. Slice(s \o t, Len(s) + 1, n) = Slice(t, 1, n)
      BY <3>1, SliceWithin
    <3>3. QED
      BY <3>2 DEF n
  <2>3. QED
    BY <2>1, <2>2
<1>5. ASSUME NEW i \in Nat \ {0}, NEW n \in Nat, i + n <= Len(s) + 1
      PROVE  Slice(s \o t, i, n) = Slice(s, i, n)
  BY <1>5, SliceWithin
<1>6. /\ z \in Seq(S) /\ Len(z) = Len(s) + Len(t)
      /\ \A k \in 1 .. Len(s) : z[k] = s[k]
      /\ \A k \in 1 .. Len(t) : z[Len(s) + k] = t[k]
  BY <1>2, <1>3
<1>7. Slice(z, Len(s) + 1, Len(t)) = t
  BY <1>4
<1>8. \A i \in Nat \ {0}, n \in Nat :
        i + n <= Len(s) + 1 => Slice(z, i, n) = Slice(s, i, n)
  BY <1>5
<1> HIDE DEF z
<1>9. Adds(S, s, t, z)
  BY <1>6, <1>7, <1>8, Zenon DEF Adds
<1>10. QED
  BY <1>9 DEF z

\* Six strings one after the other in e, the first and the third byte by byte.
LaidOut(e, S, s, t, u, v, w, x) ==
  LET a == Len(s) + 1
      c == a + Len(t)
      d == c + Len(u)
      f == d + Len(v)
      g == f + Len(w)
  IN  /\ e \in Seq(S) /\ Len(e) + 1 = g + Len(x)
      /\ \A k \in 1 .. Len(s) : e[k] = s[k]
      /\ Slice(e, a, Len(t)) = t
      /\ \A k \in 1 .. Len(u) : e[c - 1 + k] = u[k]
      /\ Slice(e, d, Len(v)) = v
      /\ Slice(e, f, Len(w)) = w
      /\ Slice(e, g, Len(x)) = x

\* So they are when they are concatenated.
LEMMA SixParts ==
  ASSUME NEW S, NEW s \in Seq(S), NEW t \in Seq(S), NEW u \in Seq(S), NEW v \in Seq(S),
         NEW w \in Seq(S), NEW x \in Seq(S)
  PROVE  LaidOut(s \o t \o u \o v \o w \o x, S, s, t, u, v, w, x)
<1> DEFINE e2 == s \o t
           e3 == e2 \o u
           e4 == e3 \o v
           e5 == e4 \o w
           e == e5 \o x
           a == Len(s) + 1
           c == a + Len(t)
           d == c + Len(u)
           f == d + Len(v)
           g == f + Len(w)
<1>1. \A p, q \in Seq(S) : Adds(S, p, q, p \o q)
  BY AddPart
<1>2. Adds(S, s, t, e2) /\ e2 \in Seq(S)
  <2>1. Adds(S, s, t, e2)
    BY <1>1
  <2>2. QED
    BY <2>1 DEF Adds
<1> HIDE DEF e2
<1>3. Adds(S, e2, u, e3) /\ e3 \in Seq(S)
  <2>1. Adds(S, e2, u, e3)
    BY <1>1, <1>2
  <2>2. QED
    BY <2>1 DEF Adds
<1> HIDE DEF e3
<1>4. Adds(S, e3, v, e4) /\ e4 \in Seq(S)
  <2>1. Adds(S, e3, v, e4)
    BY <1>1, <1>3
  <2>2. QED
    BY <2>1 DEF Adds
<1> HIDE DEF e4
<1>5. Adds(S, e4, w, e5) /\ e5 \in Seq(S)
  <2>1. Adds(S, e4, w, e5)
    BY <1>1, <1>4
  <2>2. QED
    BY <2>1 DEF Adds
<1> HIDE DEF e5
<1>6. Adds(S, e5, x, e) /\ e \in Seq(S)
  <2>1. Adds(S, e5, x, e)
    BY <1>1, <1>5
  <2>2. QED
    BY <2>1 DEF Adds
<1> HIDE DEF e
<1>7. /\ Len(s) \in Nat /\ Len(t) \in Nat /\ Len(u) \in Nat /\ Len(v) \in Nat
      /\ Len(w) \in Nat /\ Len(x) \in Nat
  OBVIOUS
<1>8. /\ Len(e2) + 1 = c /\ Len(e3) + 1 = d /\ Len(e4) + 1 = f /\ Len(e5) + 1 = g
      /\ Len(e) + 1 = g + Len(x)
  <2>1. /\ Len(e2) = Len(s) + Len(t) /\ Len(e3) = Len(e2) + Len(u)
        /\ Len(e4) = Len(e3) + Len(v) /\ Len(e5) = Len(e4) + Len(w)
        /\ Len(e) = Len(e5) + Len(x)
    BY <1>2, <1>3, <1>4, <1>5, <1>6 DEF Adds
  <2>2. QED
    BY <1>7, <2>1
<1>9. /\ a \in Nat \ {0} /\ c \in Nat \ {0} /\ d \in Nat \ {0} /\ f \in Nat \ {0}
      /\ g \in Nat \ {0}
      /\ a + Len(t) = c /\ c + Len(u) = d /\ d + Len(v) = f /\ f + Len(w) = g
      /\ a <= c /\ c <= d /\ d <= f /\ f <= g
  BY <1>7
<1>10. \A k \in 1 .. Len(s) : e[k] = s[k]
  <2> SUFFICES ASSUME NEW k \in 1 .. Len(s) PROVE e[k] = s[k]
    OBVIOUS
  <2>1. k \in 1 .. Len(e2) /\ k \in 1 .. Len(e3) /\ k \in 1 .. Len(e4) /\ k \in 1 .. Len(e5)
    <3> DEFINE n == Len(s)
               l2 == Len(e2)
               l3 == Len(e3)
               l4 == Len(e4)
               l5 == Len(e5)
    <3>1. /\ n \in Nat /\ l2 \in Nat /\ l3 \in Nat /\ l4 \in Nat /\ l5 \in Nat
          /\ k \in 1 .. n
      BY <1>2, <1>3, <1>4, <1>5, <1>7
    <3>2. l2 + 1 = c /\ l3 + 1 = d /\ l4 + 1 = f /\ l5 + 1 = g
      BY <1>8
    <3>3. a <= c /\ c <= d /\ d <= f /\ f <= g /\ a = n + 1
      BY <1>9
    <3> HIDE DEF n, l2, l3, l4, l5, a, c, d, f, g
    <3>4. k \in 1 .. l2 /\ k \in 1 .. l3 /\ k \in 1 .. l4 /\ k \in 1 .. l5
      BY <3>1, <3>2, <3>3
    <3>5. QED
      BY <3>4 DEF l2, l3, l4, l5
  <2>2. e2[k] = s[k] /\ e3[k] = e2[k] /\ e4[k] = e3[k] /\ e5[k] = e4[k] /\ e[k] = e5[k]
    BY <1>2, <1>3, <1>4, <1>5, <1>6, <2>1 DEF Adds
  <2>3. QED
    BY <2>2
<1>11. \A k \in 1 .. Len(u) : e[c - 1 + k] = u[k]
  <2> SUFFICES ASSUME NEW k \in 1 .. Len(u) PROVE e[c - 1 + k] = u[k]
    OBVIOUS
  <2> DEFINE j == Len(e2) + k
  <2>1. j = c - 1 + k /\ j \in 1 .. Len(e3) /\ j \in 1 .. Len(e4) /\ j \in 1 .. Len(e5)
    <3> DEFINE l2 == Len(e2)
               l3 == Len(e3)
               l4 == Len(e4)
               l5 == Len(e5)
               n == Len(u)
    <3>1. /\ l2 \in Nat /\ l3 \in Nat /\ l4 \in Nat /\ l5 \in Nat /\ n \in Nat /\ k \in 1 .. n
          /\ l2 + 1 = c /\ l3 + 1 = d /\ l4 + 1 = f /\ l5 + 1 = g
      <4>1. l2 \in Nat /\ l3 \in Nat /\ l4 \in Nat /\ l5 \in Nat
        BY <1>2, <1>3, <1>4, <1>5
      <4>2. l2 + 1 = c /\ l3 + 1 = d /\ l4 + 1 = f /\ l5 + 1 = g
        BY <1>8
      <4>3. QED
        BY <1>7, <4>1, <4>2
    <3>2. c + n = d /\ d <= f /\ f <= g /\ c \in Nat /\ d \in Nat /\ f \in Nat /\ g \in Nat
      BY <1>9
    <3> HIDE DEF l2, l3, l4, l5, n, c, d, f, g
    <3>3. l2 + k = c - 1 + k /\ l2 + k \in 1 .. l3 /\ l2 + k \in 1 .. l4 /\ l2 + k \in 1 .. l5
      BY <3>1, <3>2
    <3>4. QED
      BY <3>3 DEF l2, l3, l4, l5
  <2>2. e3[j] = u[k]
    BY <1>3 DEF Adds
  <2> HIDE DEF j
  <2>3. e4[j] = e3[j] /\ e5[j] = e4[j] /\ e[j] = e5[j]
    BY <1>4, <1>5, <1>6, <2>1 DEF Adds
  <2>4. QED
    BY <2>1, <2>2, <2>3
<1>12. \A i \in Nat \ {0}, n \in Nat :
         /\ i + n <= c => Slice(e3, i, n) = Slice(e2, i, n)
         /\ i + n <= d => Slice(e4, i, n) = Slice(e3, i, n)
         /\ i + n <= f => Slice(e5, i, n) = Slice(e4, i, n)
         /\ i + n <= g => Slice(e, i, n) = Slice(e5, i, n)
  BY <1>3, <1>4, <1>5, <1>6, <1>8 DEF Adds
<1>13. /\ Slice(e2, a, Len(t)) = t /\ Slice(e4, d, Len(v)) = v
       /\ Slice(e5, f, Len(w)) = w /\ Slice(e, g, Len(x)) = x
  BY <1>2, <1>4, <1>5, <1>6, <1>8 DEF Adds
<1> HIDE DEF a, c, d, f, g
<1>14. Slice(e, a, Len(t)) = t
  <2> DEFINE n == Len(t)
  <2>1. n \in Nat /\ a + n <= c /\ a + n <= d /\ a + n <= f /\ a + n <= g
    BY <1>7, <1>9
  <2>2. Slice(e2, a, n) = t
    BY <1>13
  <2> HIDE DEF n
  <2>3. Slice(e, a, n) = t
    BY <1>9, <1>12, <2>1, <2>2
  <2>4. QED
    BY <2>3 DEF n
<1>15. Slice(e, d, Len(v)) = v
  <2> DEFINE n == Len(v)
  <2>1. n \in Nat /\ d + n <= f /\ d + n <= g
    BY <1>7, <1>9
  <2>2. Slice(e4, d, n) = v
    BY <1>13
  <2> HIDE DEF n
  <2>3. Slice(e, d, n) = v
    BY <1>9, <1>12, <2>1, <2>2
  <2>4. QED
    BY <2>3 DEF n
<1>16. Slice(e, f, Len(w)) = w
  <2> DEFINE n == Len(w)
  <2>1. n \in Nat /\ f + n <= g
    BY <1>7, <1>9
  <2>2. Slice(e5, f, n) = w
    BY <1>13
  <2> HIDE DEF n
  <2>3. Slice(e, f, n) = w
    BY <1>9, <1>12, <2>1, <2>2
  <2>4. QED
    BY <2>3 DEF n
<1> DEFINE Laid(y) == /\ y \in Seq(S) /\ Len(y) + 1 = g + Len(x)
                      /\ \A k \in 1 .. Len(s) : y[k] = s[k]
                      /\ Slice(y, a, Len(t)) = t
                      /\ \A k \in 1 .. Len(u) : y[c - 1 + k] = u[k]
                      /\ Slice(y, d, Len(v)) = v
                      /\ Slice(y, f, Len(w)) = w
                      /\ Slice(y, g, Len(x)) = x
<1>17. Laid(e)
  BY <1>6, <1>8, <1>10, <1>11, <1>13, <1>14, <1>15, <1>16
<1>18. e = s \o t \o u \o v \o w \o x
  BY DEF e, e5, e4, e3, e2
<1>19. Laid(s \o t \o u \o v \o w \o x)
  <2> HIDE DEF Laid
  <2>1. QED
    BY <1>17, <1>18
<1>20. QED
  BY <1>19 DEF LaidOut, a, c, d, f, g

-----------------------------------------------------------------------------
\* NDEF records, and those that can be packed.
NdefRecords == [type : Seq(Byte), id : Seq(Byte), data : Seq(Byte)]

GoodRecords ==
  {r \in NdefRecords : /\ Len(r.type) < Base /\ Len(r.id) < Base
                       /\ IsShort(Len(r.data)) \/ Fits(Len(r.data), LongWidth)}

\* The bytes of a record's payload length, and of its id length.
LongOf(r) == IF IsShort(Len(r.data)) THEN 1 ELSE LongWidth

NamedBy(r) == IF r.id # <<>> THEN 1 ELSE 0

\* What a parser finds in e, the code of r as first or last or neither.
IsPacked(e, r, first, last) ==
  LET g == 3 + LongOf(r)
      f == g + NamedBy(r)
  IN  /\ e \in Seq(Byte)
      /\ (MB(e[1]) <=> first) /\ (ME(e[1]) <=> last)
      /\ (SR(e[1]) <=> IsShort(Len(r.data))) /\ (IL(e[1]) <=> r.id # <<>>)
      /\ e[2] = Len(r.type)
      /\ Number(Slice(e, 3, LongOf(r))) = Len(r.data)
      /\ r.id # <<>> => e[g] = Len(r.id)
      /\ Slice(e, f, Len(r.type)) = r.type
      /\ Slice(e, f + Len(r.type), Len(r.id)) = r.id
      /\ Slice(e, f + Len(r.type) + Len(r.id), Len(r.data)) = r.data
      /\ Len(e) + 1 = f + Len(r.type) + Len(r.id) + Len(r.data)

\* The parts of a packed record.
LEMMA PackedIs ==
  ASSUME NEW r \in GoodRecords, NEW k \in Nat, NEW n \in Nat
  PROVE  IsPacked(PackRecord(r, k, n), r, k = 1, k = n)
<1> DEFINE short == IsShort(Len(r.data))
           named == r.id # <<>>
           h == Flag(k = 1, 2) + Flag(k = n, 4) + Flag(short, 8) + Flag(named, 16)
           s == <<h, Len(r.type)>>
           t == BigEndian(Len(r.data), LongOf(r))
           u == IF named THEN <<Len(r.id)>> ELSE <<>>
           ty == r.type
           id == r.id
           da == r.data
           e == PackRecord(r, k, n)
<1>1. /\ ty \in Seq(Byte) /\ id \in Seq(Byte) /\ da \in Seq(Byte)
      /\ Len(ty) \in Byte /\ Len(id) \in Byte
      /\ short \/ Fits(Len(da), LongWidth)
  <2>1. /\ ty \in Seq(Byte) /\ id \in Seq(Byte) /\ da \in Seq(Byte)
        /\ Len(ty) < Base /\ Len(id) < Base /\ (short \/ Fits(Len(da), LongWidth))
    BY DEF GoodRecords, NdefRecords
  <2>2. Len(ty) \in Nat /\ Len(id) \in Nat
    BY <2>1
  <2>3. QED
    BY <2>1, <2>2, OctetAssumption DEF Byte
<1>2. e = s \o t \o u \o ty \o id \o da
  BY DEF PackRecord, LongOf
<1>3. /\ h \in Byte /\ (MB(h) <=> k = 1) /\ (ME(h) <=> k = n)
      /\ (SR(h) <=> short) /\ (IL(h) <=> named)
  <2>1. (k = 1) \in BOOLEAN /\ (k = n) \in BOOLEAN /\ named \in BOOLEAN
    OBVIOUS
  <2>2. short \in BOOLEAN
    BY DEF IsShort
  <2> DEFINE a == k = 1
             c == k = n
  <2> HIDE DEF a, c, short, named
  <2>3. a \in BOOLEAN /\ c \in BOOLEAN
    BY <2>1 DEF a, c
  <2> DEFINE hh == Flag(a, 2) + Flag(c, 4) + Flag(short, 8) + Flag(named, 16)
  <2>4. /\ hh \in Byte /\ (MB(hh) <=> a) /\ (ME(hh) <=> c)
        /\ (SR(hh) <=> short) /\ (IL(hh) <=> named)
    BY <2>1, <2>2, <2>3, FlagsAre
  <2>5. hh = h
    BY DEF a, c
  <2> HIDE DEF hh, h
  <2>6. QED
    BY <2>4, <2>5 DEF a, c
<1>4. /\ LongOf(r) \in Nat \ {0} /\ t \in Seq(Byte) /\ Len(t) = LongOf(r)
      /\ Number(t) = Len(da)
  <2>1. LongOf(r) \in Nat \ {0} /\ Len(da) \in Nat
    BY <1>1, NdefAssumption DEF LongOf
  <2>2. Fits(Len(da), LongOf(r))
    <3> DEFINE m == Len(da)
    <3>1. m \in Nat
      BY <2>1
    <3> HIDE DEF m
    <3>2. m < Base => Fits(m, 1)
      BY <3>1, FitsShort
    <3>3. QED
      BY <1>1, <3>2 DEF LongOf, IsShort, m
  <2> DEFINE w == LongOf(r)
             m == Len(da)
  <2>3. w \in Nat /\ m \in Nat /\ Fits(m, w)
    BY <2>1, <2>2
  <2> HIDE DEF w, m
  <2>4. BigEndian(m, w) \in Seq(Byte) /\ Len(BigEndian(m, w)) = w /\ Number(BigEndian(m, w)) = m
    BY <2>3, BigEndianIs
  <2>5. QED
    BY <2>1, <2>4 DEF w, m
<1>5. s \in Seq(Byte) /\ Len(s) = 2 /\ s[1] = h /\ s[2] = Len(ty)
  <2> HIDE DEF h
  <2>1. QED
    BY <1>1, <1>3
<1>6. u \in Seq(Byte) /\ Len(u) = NamedBy(r) /\ (named => u[1] = Len(id))
  BY <1>1 DEF NamedBy
<1> HIDE DEF s, t, u, h, e, short, named
<1> DEFINE a == Len(s) + 1
           c == a + Len(t)
           d == c + Len(u)
           f == d + Len(ty)
           g == f + Len(id)
<1>7. /\ e \in Seq(Byte) /\ Len(e) + 1 = g + Len(da)
      /\ \A j \in 1 .. Len(s) : e[j] = s[j]
      /\ Slice(e, a, Len(t)) = t
      /\ \A j \in 1 .. Len(u) : e[c - 1 + j] = u[j]
      /\ Slice(e, d, Len(ty)) = ty
      /\ Slice(e, f, Len(id)) = id
      /\ Slice(e, g, Len(da)) = da
  <2> HIDE DEF ty, id, da
  <2>1. /\ s \in Seq(Byte) /\ t \in Seq(Byte) /\ u \in Seq(Byte) /\ ty \in Seq(Byte)
        /\ id \in Seq(Byte) /\ da \in Seq(Byte)
    BY <1>1, <1>4, <1>5, <1>6
  <2>2. LaidOut(s \o t \o u \o ty \o id \o da, Byte, s, t, u, ty, id, da)
    BY <2>1, SixParts
  <2>3. LaidOut(e, Byte, s, t, u, ty, id, da)
    BY <1>2, <2>2
  <2>4. QED
    BY <2>3 DEF LaidOut
<1>8. a = 3 /\ c = 3 + LongOf(r) /\ d = 3 + LongOf(r) + NamedBy(r)
  BY <1>4, <1>5, <1>6
<1>9. e[1] = h /\ e[2] = Len(ty)
  BY <1>5, <1>7
<1>10. named => e[3 + LongOf(r)] = Len(id)
  <2> SUFFICES ASSUME named PROVE e[3 + LongOf(r)] = Len(id)
    OBVIOUS
  <2>1. Len(u) = 1 /\ u[1] = Len(id)
    BY <1>6 DEF NamedBy, named
  <2>2. e[c - 1 + 1] = u[1]
    BY <1>7, <2>1
  <2> HIDE DEF c
  <2>3. c - 1 + 1 = 3 + LongOf(r)
    BY <1>4, <1>8
  <2>4. QED
    BY <2>1, <2>2, <2>3
<1>11. Slice(e, 3, LongOf(r)) = t
  <2> HIDE DEF a
  <2>1. QED
    BY <1>4, <1>7, <1>8
<1>12. QED
  <2> HIDE DEF a, c, d, ty, id, da
  <2>1. /\ f = d + Len(ty) /\ g = d + Len(ty) + Len(id)
    OBVIOUS
  <2> HIDE DEF f, g
  <2>2. IsPacked(e, r, k = 1, k = n)
    BY <1>3, <1>4, <1>7, <1>8, <1>9, <1>10, <1>11, <2>1
    DEF IsPacked, ty, id, da, short, named
  <2>3. QED
    BY <2>2 DEF e

\* The number a string spells fits as many bytes.
LEMMA NumberFits ==
  ASSUME NEW s \in Seq(Byte)
  PROVE  Number(s) \in Nat /\ Fits(Number(s), Len(s))
<1> DEFINE w == Len(s)
<1>1. w \in Nat /\ \A k \in 1 .. w : s[k] \in Nat /\ s[k] < Base
  BY OctetAssumption DEF Byte
<1>2. PICK N : Spells(s, N)
  BY NumberIs
<1>3. /\ N \in [0 .. w -> Nat] /\ N[0] = 0 /\ Number(s) = N[w]
      /\ \A k \in 1 .. w : N[k] = N[k - 1] * Base + s[k]
  BY <1>2 DEF Spells
<1> HIDE DEF w
<1>4. Number(s) \in Nat
  BY <1>1, <1>3
<1> DEFINE S == Shifts(Number(s), w)
<1>5. S \in [0 .. w -> Nat] /\ S[0] = Number(s) /\ \A k \in 1 .. w : S[k] = S[k - 1] \div Base
  BY <1>1, <1>4, ShiftsAre
<1> HIDE DEF S
<1> DEFINE T == {j \in 0 .. w : S[j] = N[w - j]}
<1>6. 0 \in T
  <2>1. w - 0 = w /\ 0 \in 0 .. w
    BY <1>1
  <2>2. QED
    BY <1>3, <1>5, <2>1
<1>7. ASSUME NEW j \in 0 .. w, j \in T, j # w PROVE j + 1 \in T
  <2> DEFINE k == w - j
  <2>1. k \in 1 .. w /\ k - 1 \in 0 .. w /\ k - 1 = w - (j + 1) /\ j + 1 \in 1 .. w
        /\ (j + 1) - 1 = j
    BY <1>1, <1>7
  <2>2. S[j] = N[k]
    BY <1>7
  <2> HIDE DEF k
  <2> DEFINE x == N[k]
             y == N[k - 1]
             z == s[k]
  <2>3. x = y * Base + z /\ y \in Nat /\ z \in Nat /\ z < Base /\ Base \in Nat \ {0}
    BY <1>1, <1>3, <2>1, OctetAssumption
  <2>4. S[j + 1] = x \div Base
    BY <1>5, <2>1, <2>2
  <2> HIDE DEF x, y, z
  <2>5. x \div Base = y
    <3> DEFINE p == y * Base
    <3>1. p \in Nat /\ (y + 1) * Base = p + Base
      BY <2>3
    <3> HIDE DEF p
    <3>2. p <= x /\ x < p + Base /\ x \in Nat
      <4>1. x = p + z
        BY <2>3 DEF p
      <4>2. QED
        BY <2>3, <3>1, <4>1
    <3>3. QED
      BY <2>3, <3>1, <3>2, QuotientIs DEF p
  <2>6. S[j + 1] = N[w - (j + 1)]
    BY <2>1, <2>4, <2>5 DEF y
  <2>7. j + 1 \in 0 .. w
    BY <1>1, <2>1
  <2>8. QED
    BY <2>6, <2>7
<1>8. \A j \in 0 .. w : j \in T
  <2> HIDE DEF T
  <2>1. QED
    BY <1>1, <1>6, <1>7, UpTo
<1>9. S[w] = 0
  <2>1. w \in T /\ w - w = 0
    BY <1>1, <1>8
  <2>2. QED
    BY <1>3, <2>1
<1>10. QED
  BY <1>4, <1>9 DEF Fits, S, w

-----------------------------------------------------------------------------
\* Whether the record at i is malformed, where the next one starts, and the record.
NdefNext(b, i) == Body(b, i) + Lengths(b, i).type + Lengths(b, i).id + Lengths(b, i).data

NdefOver(b, i) ==
  \/ i + 1 > Len(b) \/ MB(b[i]) # (i = 1) \/ Body(b, i) > Len(b) + 1
  \/ NdefNext(b, i) > Len(b) + 1

NdefAt(b, i) ==
  LET n    == Lengths(b, i)
      body == Body(b, i)
  IN  NdefRecord(Slice(b, body, n.type), Slice(b, body + n.type, n.id),
                 Slice(b, body + n.type + n.id, n.data))

\* The function of NdefUnpack, position by position.
NdefIs(P, b) ==
  /\ P \in [1 .. Len(b) + 1 -> Answers(GoodRecords)]
  /\ \A i \in 1 .. Len(b) + 1 :
       P[i] = IF NdefOver(b, i) THEN Stopped
              ELSE IF EndsAt(b, i, NdefNext(b, i)) THEN Done(<<NdefAt(b, i)>>)
              ELSE IF ME(b[i]) \/ ~P[NdefNext(b, i)].ok THEN Stopped
              ELSE Then(NdefAt(b, i), P[NdefNext(b, i)])
  /\ NdefUnpack(b) = P[1]

\* The length fields at i are numbers, where they are all there.
LEMMA FieldsAre ==
  ASSUME NEW b \in Seq(Byte), NEW i \in 1 .. Len(b) + 1,
         ~(i + 1 > Len(b)), ~(Body(b, i) > Len(b) + 1)
  PROVE  /\ i \in 1 .. Len(b) /\ i + 1 \in 1 .. Len(b) /\ b[i] \in Byte
         /\ Width(b, i) \in Nat \ {0}
         /\ Body(b, i) = i + 2 + Width(b, i) + (IF IL(b[i]) THEN 1 ELSE 0)
         /\ Body(b, i) \in i + 3 .. Len(b) + 1
         /\ Slice(b, i + 2, Width(b, i)) \in Seq(Byte)
         /\ Len(Slice(b, i + 2, Width(b, i))) = Width(b, i)
         /\ Lengths(b, i).type = b[i + 1] /\ b[i + 1] \in Byte
         /\ Lengths(b, i).data = Number(Slice(b, i + 2, Width(b, i)))
         /\ Lengths(b, i).id = IF IL(b[i]) THEN b[i + 2 + Width(b, i)] ELSE 0
         /\ Lengths(b, i).id \in Byte
         /\ Lengths(b, i).data \in Nat
         /\ Fits(Lengths(b, i).data, Width(b, i))
<1> DEFINE w == Width(b, i)
           o == IF IL(b[i]) THEN 1 ELSE 0
           l == Len(b)
           d == Slice(b, i + 2, w)
<1>1. w \in Nat \ {0} /\ o \in 0 .. 1 /\ l \in Nat
  BY NdefAssumption DEF Width
<1>2. Body(b, i) = i + 2 + w + o
  BY DEF Body
<1>3. i \in 1 .. Len(b) + 1 /\ i + 1 <= l /\ i + 2 + w + o <= l + 1
  <2>1. Body(b, i) <= Len(b) + 1
    BY <1>1, <1>2
  <2>2. QED
    BY <1>1, <1>2, <2>1
<1> HIDE DEF w, o, l
<1>4. /\ i \in 1 .. l /\ i + 1 \in 1 .. l /\ i + 2 + w + o \in i + 3 .. l + 1
      /\ i + 2 \in Nat \ {0} /\ i + 2 + w <= l + 1 /\ i \in Nat \ {0}
  BY <1>1, <1>3 DEF l
<1>5. b[i] \in Byte /\ b[i + 1] \in Byte
  BY <1>4 DEF l
<1>6. d \in Seq(Byte) /\ Len(d) = w
  <2> DEFINE j == i + 2
  <2>1. j \in Nat \ {0} /\ w \in Nat /\ j + w <= Len(b) + 1
    BY <1>1, <1>4 DEF l
  <2> HIDE DEF j
  <2>2. Slice(b, j, w) \in Seq(Byte) /\ Len(Slice(b, j, w)) = w
    BY <2>1, SliceIs
  <2>3. QED
    BY <2>2 DEF j
<1>7. Number(d) \in Nat /\ Fits(Number(d), w)
  <2> HIDE DEF d
  <2>1. Number(d) \in Nat /\ Fits(Number(d), Len(d))
    BY <1>6, NumberFits
  <2>2. QED
    BY <1>6, <2>1
<1>8. /\ Lengths(b, i).type = b[i + 1]
      /\ Lengths(b, i).data = Number(d)
      /\ Lengths(b, i).id = IF IL(b[i]) THEN b[i + 2 + w] ELSE 0
  BY DEF Lengths, w, d
<1>9. Lengths(b, i).id \in Byte
  <2>1. CASE IL(b[i])
    <3>1. i + 2 + w \in 1 .. l
      BY <1>1, <1>3, <1>4, <2>1 DEF o
    <3>2. b[i + 2 + w] \in Byte
      BY <3>1 DEF l
    <3>3. QED
      BY <1>8, <2>1, <3>2
  <2>2. CASE ~IL(b[i])
    <3>1. 0 \in Byte
      BY OctetAssumption DEF Byte
    <3>2. QED
      BY <1>8, <2>2, <3>1
  <2>3. QED
    BY <2>1, <2>2
<1>10. QED
  BY <1>1, <1>2, <1>4, <1>5, <1>6, <1>7, <1>8, <1>9 DEF w, o, l, d

\* A record that is all there can be packed, and the next one starts later.
LEMMA NdefAtIs ==
  ASSUME NEW b \in Seq(Byte), NEW i \in 1 .. Len(b) + 1, ~NdefOver(b, i)
  PROVE  /\ NdefAt(b, i) \in GoodRecords
         /\ NdefNext(b, i) \in i + 1 .. Len(b) + 1
<1> DEFINE p == Body(b, i)
           t == Lengths(b, i).type
           n == Lengths(b, i).id
           d == Lengths(b, i).data
           w == Width(b, i)
           l == Len(b)
<1>1. ~(i + 1 > Len(b)) /\ ~(Body(b, i) > Len(b) + 1) /\ ~(NdefNext(b, i) > Len(b) + 1)
  BY DEF NdefOver
<1>2. /\ p \in i + 3 .. l + 1 /\ t \in Byte /\ n \in Byte /\ d \in Nat /\ l \in Nat
      /\ Fits(d, w) /\ i \in 1 .. l
  BY <1>1, FieldsAre
<1>3. NdefNext(b, i) = p + t + n + d
  BY DEF NdefNext
<1>4. NdefAt(b, i) = [type |-> Slice(b, p, t), id |-> Slice(b, p + t, n),
                      data |-> Slice(b, p + t + n, d)]
  BY DEF NdefAt, NdefRecord
<1>5. w = 1 \/ w = LongWidth
  BY DEF Width
<1> HIDE DEF p, t, n, d, w
<1>6. t \in Nat /\ t < Base /\ n \in Nat /\ n < Base
  BY <1>2, OctetAssumption DEF Byte
<1>7. p + t + n + d <= l + 1
  <2>1. ~(p + t + n + d > l + 1)
    BY <1>1, <1>3
  <2>2. p \in Nat /\ l \in Nat
    BY <1>2
  <2>3. QED
    BY <1>2, <1>6, <2>1, <2>2
<1> HIDE DEF l
<1>8. /\ p \in Nat \ {0} /\ p + t \in Nat \ {0} /\ p + t + n \in Nat \ {0}
      /\ p + t <= l + 1 /\ (p + t) + n <= l + 1 /\ (p + t + n) + d <= l + 1
      /\ p + t + n + d \in i + 1 .. l + 1
  BY <1>2, <1>6, <1>7
<1>9. \A j \in Nat \ {0}, m \in Nat : j + m <= l + 1 =>
        Slice(b, j, m) \in Seq(Byte) /\ Len(Slice(b, j, m)) = m
  <2>1. ASSUME NEW j \in Nat \ {0}, NEW m \in Nat, j + m <= Len(b) + 1
        PROVE  Slice(b, j, m) \in Seq(Byte) /\ Len(Slice(b, j, m)) = m
    BY <2>1, SliceIs
  <2>2. QED
    BY <2>1 DEF l
<1> DEFINE x == Slice(b, p, t)
           y == Slice(b, p + t, n)
           z == Slice(b, p + t + n, d)
<1>10. x \in Seq(Byte) /\ Len(x) = t
  BY <1>6, <1>8, <1>9
<1>11. y \in Seq(Byte) /\ Len(y) = n
  BY <1>6, <1>8, <1>9
<1>12. z \in Seq(Byte) /\ Len(z) = d
  BY <1>2, <1>8, <1>9
<1>13. d < Base \/ Fits(d, LongWidth)
  <2>1. CASE w = LongWidth
    BY <1>2, <2>1
  <2>2. CASE w = 1
    <3>1. Shifts(d, 1) \in [0 .. 1 -> Nat] /\ Shifts(d, 1)[0] = d
          /\ \A k \in 1 .. 1 : Shifts(d, 1)[k] = Shifts(d, 1)[k - 1] \div Base
      <4> DEFINE o == 1
      <4>1. d \in Nat /\ o \in Nat
        BY <1>2
      <4> HIDE DEF o
      <4>2. Shifts(d, o) \in [0 .. o -> Nat] /\ Shifts(d, o)[0] = d
            /\ \A k \in 1 .. o : Shifts(d, o)[k] = Shifts(d, o)[k - 1] \div Base
        BY <4>1, ShiftsAre
      <4>3. QED
        BY <4>2 DEF o
    <3>2. Shifts(d, 1)[1] = d \div Base
      <4>1. 1 \in 1 .. 1 /\ 1 - 1 = 0
        OBVIOUS
      <4>2. QED
        BY <3>1, <4>1
    <3>3. d \div Base = 0
      BY <1>2, <2>2, <3>2 DEF Fits
    <3>4. d < Base
      BY <1>2, <3>3, OctetAssumption
    <3>5. QED
      BY <3>4
  <2>3. QED
    BY <1>5, <2>1, <2>2
<1> HIDE DEF x, y, z
<1>14. [type |-> x, id |-> y, data |-> z] \in GoodRecords
  <2>1. /\ Len(x) < Base /\ Len(y) < Base /\ (IsShort(Len(z)) \/ Fits(Len(z), LongWidth))
    BY <1>6, <1>10, <1>11, <1>12, <1>13 DEF IsShort
  <2>2. QED
    BY <1>10, <1>11, <1>12, <2>1 DEF GoodRecords, NdefRecords
<1>15. QED
  BY <1>3, <1>4, <1>8, <1>14 DEF x, y, z, l

\* The recursive function of NdefUnpack has its equation at every position.
LEMMA NdefIsRead ==
  ASSUME NEW b \in Seq(Byte)
  PROVE  \E P : NdefIs(P, b)
<1> DEFINE N == Len(b) + 1
           V == Answers(GoodRecords)
           R(i) == NdefAt(b, i)
           X(i) == NdefNext(b, i)
           Is(g) == g = [i \in 1 .. Len(b) + 1 |->
             IF i + 1 > Len(b) \/ MB(b[i]) # (i = 1) \/ Body(b, i) > Len(b) + 1
             THEN Stopped
             ELSE LET n    == Lengths(b, i)
                      body == Body(b, i)
                      next == body + n.type + n.id + n.data
                      r == NdefRecord(Slice(b, body, n.type),
                                      Slice(b, body + n.type, n.id),
                                      Slice(b, body + n.type + n.id, n.data))
                  IN  IF next > Len(b) + 1 THEN Stopped
                      ELSE IF EndsAt(b, i, next) THEN Done(<<r>>)
                      ELSE IF ME(b[i]) \/ ~g[next].ok THEN Stopped
                      ELSE Then(r, g[next])]
           ends == {i \in 1 .. N : NdefOver(b, i) \/ EndsAt(b, i, X(i)) \/ ME(b[i])}
           next == [i \in 1 .. N |-> X(i)]
           First(i) == IF NdefOver(b, i) THEN Stopped
                       ELSE IF EndsAt(b, i, X(i)) THEN Done(<<R(i)>>) ELSE Stopped
           base == [i \in 1 .. N |-> First(i)]
           Put(i, v) == IF ~v.ok THEN Stopped ELSE Then(R(i), v)
           step == [i \in 1 .. N |-> [v \in V |-> Put(i, v)]]
           Fits1(g) == \A i \in 1 .. N :
                         g[i] = IF NdefOver(b, i) THEN Stopped
                                ELSE IF EndsAt(b, i, X(i)) THEN Done(<<R(i)>>)
                                ELSE IF ME(b[i]) \/ ~g[X(i)].ok THEN Stopped
                                ELSE Then(R(i), g[X(i)])
<1>1. N \in Nat /\ Len(b) \in Nat
  OBVIOUS
<1>2. Stopped \in V /\ \A r \in GoodRecords : Done(<<r>>) \in V
  BY DEF Answers, Done, Stopped
<1>3. \A i \in 1 .. N : ~NdefOver(b, i) => X(i) \in i + 1 .. N /\ R(i) \in GoodRecords
  BY NdefAtIs
<1>4. ASSUME NEW i \in 1 .. N, i \notin ends
      PROVE  step[i] \in [V -> V] /\ \A v \in V : step[i][v] = Put(i, v)
  <2>1. R(i) \in GoodRecords
    BY <1>3, <1>4
  <2>2. \A v \in V : Put(i, v) \in V
    <3> SUFFICES ASSUME NEW v \in V PROVE Put(i, v) \in V
      OBVIOUS
    <3>1. Then(R(i), v) \in V
      <4> HIDE DEF R
      <4>1. QED
        BY <2>1, ThenIs
    <3> HIDE DEF V, R
    <3>2. QED
      BY <1>2, <3>1
  <2> HIDE DEF V, Put
  <2>3. QED
    BY <2>2
<1>5. \A i \in 1 .. N :
        /\ base[i] = First(i) /\ next[i] = X(i)
        /\ i \in ends <=> NdefOver(b, i) \/ EndsAt(b, i, X(i)) \/ ME(b[i])
  OBVIOUS
<1>6. \A i \in 1 .. N : base[i] \in V
  <2> HIDE DEF V, R, X, base
  <2>1. QED
    BY <1>2, <1>3, <1>5
<1>7. \A g : Is(g) <=> g = [i \in 1 .. N |-> g[i]] /\ Fits1(g)
  <2> DEFINE B(g, i) ==
               IF i + 1 > Len(b) \/ MB(b[i]) # (i = 1) \/ Body(b, i) > Len(b) + 1
               THEN Stopped
               ELSE LET n    == Lengths(b, i)
                        body == Body(b, i)
                        nx == body + n.type + n.id + n.data
                        r == NdefRecord(Slice(b, body, n.type),
                                        Slice(b, body + n.type, n.id),
                                        Slice(b, body + n.type + n.id, n.data))
                    IN  IF nx > Len(b) + 1 THEN Stopped
                        ELSE IF EndsAt(b, i, nx) THEN Done(<<r>>)
                        ELSE IF ME(b[i]) \/ ~g[nx].ok THEN Stopped
                        ELSE Then(r, g[nx])
             C(g, i) == IF NdefOver(b, i) THEN Stopped
                        ELSE IF EndsAt(b, i, X(i)) THEN Done(<<R(i)>>)
                        ELSE IF ME(b[i]) \/ ~g[X(i)].ok THEN Stopped
                        ELSE Then(R(i), g[X(i)])
  <2>1. ASSUME NEW g, NEW i \in 1 .. N PROVE B(g, i) = C(g, i)
    BY DEF NdefOver, NdefNext, NdefAt
  <2>2. \A g : Is(g) <=> g = [i \in 1 .. N |-> B(g, i)]
    OBVIOUS
  <2>3. \A g : Fits1(g) <=> \A i \in 1 .. N : g[i] = C(g, i)
    OBVIOUS
  <2> HIDE DEF Is, Fits1, B, C, N
  <2>4. QED
    BY <2>1, <2>2, <2>3
<1> HIDE DEF Is, ends, next, base, step, V, R, X
<1>8. AreParts(ends, next, base, step, N, V)
  <2>1. base = [i \in 1 .. N |-> base[i]]
    BY DEF base
  <2>2. base \in [1 .. N -> V]
    BY <1>6, <2>1
  <2>3. QED
    BY <1>3, <1>4, <1>5, <2>2 DEF AreParts
<1>9. PICK f : Parses(f, ends, next, base, step, N, V)
  <2> HIDE DEF N
  <2>1. QED
    BY <1>1, <1>8, Parser
<1>10. Is(f)
  <2>1. f \in [1 .. N -> V] /\ \A i \in 1 .. N :
          f[i] = IF i \in ends THEN base[i] ELSE step[i][f[next[i]]]
    BY <1>9 DEF Parses
  <2>2. ASSUME NEW i \in 1 .. N, i \notin ends
        PROVE  f[i] = Put(i, f[X(i)])
    <3>1. X(i) \in 1 .. N /\ next[i] = X(i)
      <4>1. ~NdefOver(b, i) /\ next[i] = X(i)
        BY <1>5, <2>2
      <4>2. X(i) \in i + 1 .. N
        BY <1>3, <4>1
      <4> DEFINE x == X(i)
      <4> HIDE DEF x, N
      <4>3. x \in i + 1 .. N
        BY <4>2 DEF x
      <4>4. x \in 1 .. N
        BY <1>1, <4>3
      <4>5. QED
        BY <4>1, <4>4 DEF x
    <3>2. f[X(i)] \in V
      BY <2>1, <3>1
    <3>3. step[i][f[X(i)]] = Put(i, f[X(i)])
      BY <1>4, <2>2, <3>2
    <3>4. QED
      BY <2>1, <2>2, <3>1, <3>3
  <2>3. Fits1(f)
    BY <1>5, <2>1, <2>2
  <2>4. f = [i \in 1 .. N |-> f[i]]
    BY <2>1
  <2> HIDE DEF Fits1
  <2>5. QED
    BY <1>7, <2>3, <2>4
<1> DEFINE P == CHOOSE g : Is(g)
<1>11. Is(P)
  BY <1>10
<1>12. NdefUnpack(b) = P[1]
  BY DEF NdefUnpack, Is
<1> HIDE DEF P
<1>13. P = [i \in 1 .. N |-> P[i]] /\ Fits1(P)
  <2> HIDE DEF Fits1
  <2>1. QED
    BY <1>7, <1>11
<1>14. Satisfies(P, ends, next, base, step, N, V)
  <2>1. ASSUME NEW i \in 1 .. N
        PROVE  \/ i \in ends /\ P[i] = base[i]
               \/ i \notin ends /\ (P[next[i]] \in V => P[i] = step[i][P[next[i]]])
    <3>1. CASE i \in ends
      BY <1>5, <1>13, <3>1
    <3>2. CASE i \notin ends
      <4>1. P[i] = Put(i, P[X(i)])
        BY <1>5, <1>13, <3>2
      <4>2. next[i] = X(i) /\ \A v \in V : step[i][v] = Put(i, v)
        BY <1>4, <1>5, <3>2
      <4> HIDE DEF Put
      <4>3. QED
        BY <3>2, <4>1, <4>2
    <3>3. QED
      BY <3>1, <3>2
  <2>2. QED
    BY <1>13, <2>1 DEF Satisfies
<1>15. Parses(P, ends, next, base, step, N, V)
  <2> HIDE DEF N
  <2>1. QED
    BY <1>1, <1>8, <1>14, TheParser
<1>16. P \in [1 .. N -> V]
  BY <1>15 DEF Parses
<1>17. NdefIs(P, b)
  BY <1>12, <1>13, <1>16 DEF NdefIs, V, R, X
<1>18. QED
  BY <1>17

\* A record read at i: the last of the message, or before what is read at next.
ReadsOn(P, i, next, r, last) ==
  /\ last => P[i] = Done(<<r>>)
  /\ ~last => P[i] = IF P[next].ok THEN Then(r, P[next]) ELSE Stopped

\* A packed record is read wherever it comes: the last one ends the message, and
\* the others come before what is read behind them.
LEMMA NdefReads ==
  ASSUME NEW pre \in Seq(Byte), NEW e, NEW post \in Seq(Byte), NEW r \in GoodRecords,
         NEW first \in BOOLEAN, NEW last \in BOOLEAN, IsPacked(e, r, first, last),
         first <=> pre = <<>>, last <=> post = <<>>,
         NEW b, b = pre \o e \o post, NEW P, NdefIs(P, b)
  PROVE  ReadsOn(P, Len(pre) + 1, Len(pre) + Len(e) + 1, r, last)
<1> DEFINE a == Len(pre)
           i == a + 1
           w == LongOf(r)
           o == NamedBy(r)
           g == 3 + w
           f == g + o
           t == Len(r.type)
           n == Len(r.id)
           d == Len(r.data)
           z == Len(post)
           l == Len(b)
           m == Len(e)
<1>1. /\ r.type \in Seq(Byte) /\ r.id \in Seq(Byte) /\ r.data \in Seq(Byte)
      /\ r = [type |-> r.type, id |-> r.id, data |-> r.data]
  BY DEF GoodRecords, NdefRecords
<1>2. /\ t \in Nat /\ n \in Nat /\ d \in Nat /\ w \in Nat \ {0} /\ o \in 0 .. 1 /\ a \in Nat
      /\ z \in Nat
  BY <1>1, NdefAssumption DEF LongOf, NamedBy
<1>3. /\ e \in Seq(Byte)
      /\ (MB(e[1]) <=> first) /\ (ME(e[1]) <=> last)
      /\ (SR(e[1]) <=> IsShort(Len(r.data))) /\ (IL(e[1]) <=> r.id # <<>>)
      /\ e[2] = t
      /\ Number(Slice(e, 3, w)) = d
      /\ r.id # <<>> => e[g] = n
      /\ Slice(e, f, t) = r.type
      /\ Slice(e, f + t, n) = r.id
      /\ Slice(e, f + t + n, d) = r.data
      /\ m + 1 = f + t + n + d
  BY DEF IsPacked
<1> HIDE DEF a, w, o, t, n, d, z, l, m
<1>4. m \in Nat /\ m = 2 + w + o + t + n + d /\ m >= 3
  <2>1. m \in Nat
    BY <1>3 DEF m
  <2>2. QED
    BY <1>2, <1>3, <2>1
<1>5. /\ b \in Seq(Byte) /\ l = a + m + z
      /\ \A k \in 1 .. m : b[a + k] = e[k]
  <2>1. /\ pre \o e \o post \in Seq(Byte)
        /\ Len(pre \o e \o post) = Len(pre) + Len(e) + Len(post)
        /\ \A k \in 1 .. Len(e) : (pre \o e \o post)[Len(pre) + k] = e[k]
    BY <1>3, Parts
  <2>2. QED
    BY <2>1 DEF a, m, z, l
<1>6. \A j \in Nat \ {0}, v \in Nat :
        j + v <= m + 1 => Slice(b, a + j, v) = Slice(e, j, v)
  <2>1. e \in Seq(Byte)
    BY <1>3
  <2>2. ASSUME NEW j \in Nat \ {0}, NEW v \in Nat, j + v <= Len(e) + 1
        PROVE  Slice(pre \o e \o post, Len(pre) + j, v) = Slice(e, j, v)
    BY <2>1, <2>2, Inside
  <2>3. QED
    BY <2>2 DEF a, m
<1>7. b[i] = e[1] /\ b[i + 1] = t
  <2>1. 1 \in 1 .. m /\ 2 \in 1 .. m /\ a + 1 = i /\ a + 2 = i + 1
    BY <1>2, <1>4
  <2>2. QED
    BY <1>3, <1>5, <2>1
<1>8. Width(b, i) = w /\ (IL(b[i]) <=> r.id # <<>>)
  BY <1>3, <1>7 DEF Width, w, LongOf
<1>9. Body(b, i) = a + f
  <2>1. o = IF IL(b[i]) THEN 1 ELSE 0
    BY <1>8 DEF o, NamedBy
  <2>2. Body(b, i) = i + 2 + w + o
    BY <1>8, <2>1 DEF Body
  <2>3. QED
    BY <1>2, <2>2
<1>10. Lengths(b, i) = [type |-> t, data |-> d, id |-> n]
  <2>1. Slice(b, i + 2, w) = Slice(e, 3, w)
    <3>1. i + 2 = a + 3 /\ 3 + w <= m + 1 /\ 3 \in Nat \ {0}
      BY <1>2, <1>4
    <3>2. QED
      BY <1>2, <1>6, <3>1
  <2>2. (IF IL(b[i]) THEN b[i + 2 + w] ELSE 0) = n
    <3>1. CASE r.id # <<>>
      <4>1. o = 1
        BY <3>1 DEF o, NamedBy
      <4>2. g \in 1 .. m /\ a + g = i + 2 + w
        BY <1>2, <1>4, <4>1
      <4>3. b[a + g] = e[g]
        BY <1>5, <4>2
      <4>4. QED
        BY <1>3, <1>8, <3>1, <4>2, <4>3
    <3>2. CASE r.id = <<>>
      <4>1. n = 0
        BY <3>2 DEF n
      <4>2. QED
        BY <1>8, <3>2, <4>1
    <3>3. QED
      BY <3>1, <3>2
  <2>3. QED
    BY <1>3, <1>7, <1>8, <2>1, <2>2 DEF Lengths
<1>11. NdefNext(b, i) = a + m + 1
  <2>1. NdefNext(b, i) = a + f + t + n + d
    BY <1>9, <1>10 DEF NdefNext
  <2>2. QED
    BY <1>2, <1>4, <2>1
<1>12. NdefAt(b, i) = r
  <2>1. /\ Slice(b, a + f, t) = r.type
        /\ Slice(b, a + f + t, n) = r.id
        /\ Slice(b, a + f + t + n, d) = r.data
    <3>1. /\ f \in Nat \ {0} /\ f + t \in Nat \ {0} /\ f + t + n \in Nat \ {0}
          /\ f + t <= m + 1 /\ (f + t) + n <= m + 1 /\ (f + t + n) + d <= m + 1
          /\ a + f + t = a + (f + t) /\ a + f + t + n = a + (f + t + n)
      BY <1>2, <1>4
    <3> HIDE DEF f
    <3>2. Slice(b, a + f, t) = Slice(e, f, t)
      BY <1>2, <1>6, <3>1
    <3>3. Slice(b, a + (f + t), n) = Slice(e, f + t, n)
      BY <1>2, <1>6, <3>1
    <3>4. Slice(b, a + (f + t + n), d) = Slice(e, f + t + n, d)
      BY <1>2, <1>6, <3>1
    <3>5. QED
      BY <1>3, <3>1, <3>2, <3>3, <3>4
  <2>2. NdefAt(b, i) = [type |-> r.type, id |-> r.id, data |-> r.data]
    <3> HIDE DEF f
    <3>1. QED
      BY <1>9, <1>10, <2>1 DEF NdefAt, NdefRecord
  <2>3. QED
    BY <1>1, <2>2
<1>13. i \in 1 .. l + 1 /\ ~NdefOver(b, i)
  <2>1. /\ i \in 1 .. l + 1 /\ ~(i + 1 > l) /\ ~(a + f > l + 1) /\ ~(a + m + 1 > l + 1)
    BY <1>2, <1>4, <1>5
  <2>2. MB(b[i]) <=> i = 1
    <3>1. pre = <<>> <=> a = 0
      BY DEF a
    <3>2. a = 0 <=> i = 1
      BY <1>2
    <3>3. QED
      BY <1>3, <1>7, <3>1, <3>2
  <2> HIDE DEF i, f
  <2>3. MB(b[i]) = (i = 1)
    BY <2>2 DEF MB, Bit
  <2>4. QED
    BY <1>9, <1>11, <2>1, <2>3 DEF NdefOver, l
<1>14. (ME(b[i]) <=> last) /\ (EndsAt(b, i, NdefNext(b, i)) <=> last)
  <2>1. ME(b[i]) <=> last
    BY <1>3, <1>7
  <2>2. a + m + 1 = l + 1 <=> last
    <3>1. post = <<>> <=> z = 0
      BY DEF z
    <3>2. a + m + 1 = l + 1 <=> z = 0
      BY <1>2, <1>4, <1>5
    <3>3. QED
      BY <3>1, <3>2
  <2>3. QED
    BY <1>11, <2>1, <2>2 DEF EndsAt, l
<1> HIDE DEF i
<1>15. P[i] = IF NdefOver(b, i) THEN Stopped
              ELSE IF EndsAt(b, i, NdefNext(b, i)) THEN Done(<<NdefAt(b, i)>>)
              ELSE IF ME(b[i]) \/ ~P[NdefNext(b, i)].ok THEN Stopped
              ELSE Then(NdefAt(b, i), P[NdefNext(b, i)])
  BY <1>13 DEF NdefIs, l
<1>16. /\ last => P[i] = Done(<<r>>)
       /\ ~last => P[i] = IF P[a + m + 1].ok THEN Then(r, P[a + m + 1]) ELSE Stopped
  BY <1>11, <1>12, <1>13, <1>14, <1>15
<1>17. QED
  BY <1>16 DEF ReadsOn, a, m, i

\* Each of the first concatenations begins the whole.
LEMMA Begins ==
  ASSUME NEW S, NEW ss \in Seq(Seq(S)), NEW F, Flattens(F, ss, S)
  PROVE  \A k \in 0 .. Len(ss) :
           F[k] \in Seq(S) /\ \E r \in Seq(S) : FlattenSeq(ss) = F[k] \o r
<1> DEFINE n == Len(ss)
           b == FlattenSeq(ss)
           Starts(k) == \E r \in Seq(S) : b = F[n - k] \o r
           T == {k \in 0 .. n : Starts(k)}
<1>1. n \in Nat
  OBVIOUS
<1>2. /\ \A k \in 0 .. n : F[k] \in Seq(S)
      /\ F[n] = b
      /\ \A k \in 1 .. n : F[k] = F[k - 1] \o ss[k] /\ ss[k] \in Seq(S)
  <2>1. /\ F \in [0 .. n -> Seq(S)] /\ b = F[n]
        /\ \A k \in 1 .. n : F[k] = F[k - 1] \o ss[k]
    BY DEF Flattens
  <2>2. \A k \in 1 .. n : ss[k] \in Seq(S)
    OBVIOUS
  <2> HIDE DEF n, b
  <2>3. QED
    BY <2>1, <2>2
<1> HIDE DEF n, b
<1>3. 0 \in T
  <2> DEFINE nil == <<>>
  <2>1. n - 0 = n /\ n \in 0 .. n /\ 0 \in 0 .. n
    BY <1>1
  <2>2. b \in Seq(S) /\ nil \in Seq(S)
    BY <1>2, <2>1
  <2>3. b = F[n - 0] \o nil
    BY <1>2, <2>1, <2>2, ConcatEmptySeq
  <2> HIDE DEF nil
  <2>4. Starts(0)
    BY <2>2, <2>3
  <2> HIDE DEF Starts
  <2>5. QED
    BY <2>1, <2>4
<1>4. ASSUME NEW k \in 0 .. n, k \in T, k # n PROVE k + 1 \in T
  <2> DEFINE j == n - k
             e == ss[j]
             g == F[j - 1]
  <2>1. j \in 1 .. n /\ j - 1 \in 0 .. n /\ n - (k + 1) = j - 1 /\ k + 1 \in 0 .. n
    BY <1>1, <1>4
  <2>2. PICK r \in Seq(S) : b = F[j] \o r
    BY <1>4
  <2> HIDE DEF j
  <2>3. F[j] = g \o e /\ g \in Seq(S) /\ e \in Seq(S)
    BY <1>2, <2>1
  <2> HIDE DEF g, e
  <2>4. b = g \o (e \o r) /\ e \o r \in Seq(S)
    <3>1. (g \o e) \o r = g \o (e \o r)
      BY <2>3, ConcatAssociative
    <3>2. e \o r \in Seq(S)
      BY <2>3, ConcatProperties
    <3>3. QED
      BY <2>2, <2>3, <3>1, <3>2
  <2> DEFINE q == e \o r
  <2>5. q \in Seq(S) /\ b = F[n - (k + 1)] \o q
    BY <2>1, <2>4 DEF g
  <2> HIDE DEF q
  <2>6. Starts(k + 1)
    BY <2>5
  <2> HIDE DEF Starts
  <2>7. QED
    BY <2>1, <2>6
<1>5. \A k \in 0 .. n : k \in T
  <2> HIDE DEF T
  <2>1. QED
    BY <1>1, <1>3, <1>4, UpTo
<1>6. ASSUME NEW k \in 0 .. n PROVE \E r \in Seq(S) : b = F[k] \o r
  <2>1. n - k \in 0 .. n /\ n - (n - k) = k
    BY <1>1
  <2>2. n - k \in T
    BY <1>5, <2>1
  <2>3. \E r \in Seq(S) : b = F[n - (n - k)] \o r
    BY <2>2
  <2>4. QED
    BY <2>1, <2>3
<1>7. QED
  BY <1>2, <1>6 DEF n, b

\* A packed record has bytes.
LEMMA PackedLong ==
  ASSUME NEW r \in GoodRecords, NEW first, NEW last, NEW e, IsPacked(e, r, first, last)
  PROVE  Len(e) \in Nat /\ Len(e) # 0
<1> DEFINE t == Len(r.type)
           n == Len(r.id)
           d == Len(r.data)
           w == LongOf(r)
           o == NamedBy(r)
<1>1. /\ t \in Nat /\ n \in Nat /\ d \in Nat /\ w \in Nat \ {0} /\ o \in 0 .. 1
  <2>1. r.type \in Seq(Byte) /\ r.id \in Seq(Byte) /\ r.data \in Seq(Byte)
    BY DEF GoodRecords, NdefRecords
  <2>2. QED
    BY <2>1, NdefAssumption DEF LongOf, NamedBy
<1>2. e \in Seq(Byte) /\ Len(e) + 1 = 3 + w + o + t + n + d
  BY DEF IsPacked
<1>3. Len(e) \in Nat
  BY <1>2
<1> HIDE DEF t, n, d, w, o
<1>4. QED
  BY <1>1, <1>2, <1>3

\* Records that can be packed are read back, if there are any.
LEMMA NdefRoundTrip ==
  ASSUME NEW rs \in Seq(GoodRecords), rs # <<>>
  PROVE  NdefUnpack(NdefPack(rs)) = Done(rs)
<1> DEFINE n == Len(rs)
           ss == [k \in DOMAIN rs |-> PackRecord(rs[k], k, n)]
           b == NdefPack(rs)
<1>1. n \in Nat \ {0} /\ DOMAIN rs = 1 .. n /\ \A k \in 1 .. n : rs[k] \in GoodRecords
  <2>1. n # 0
    BY EmptySeq
  <2>2. QED
    BY <2>1
<1>2. \A k \in 1 .. n : Len(rs[k].id) < Base /\ Len(rs[k].type) < Base
  BY <1>1 DEF GoodRecords
<1>3. \A k \in 1 .. n : ~(Len(rs[k].id) >= Base \/ Len(rs[k].type) >= Base)
  <2> SUFFICES ASSUME NEW k \in 1 .. n
               PROVE  ~(Len(rs[k].id) >= Base \/ Len(rs[k].type) >= Base)
    OBVIOUS
  <2>1. rs[k].id \in Seq(Byte) /\ rs[k].type \in Seq(Byte)
    BY <1>1 DEF GoodRecords, NdefRecords
  <2>2. Len(rs[k].id) \in Nat /\ Len(rs[k].type) \in Nat
    BY <2>1
  <2>3. QED
    BY <1>2, <2>2, OctetAssumption
<1>4. b = FlattenSeq(ss)
  BY <1>1, <1>3 DEF NdefPack
<1>5. ASSUME NEW k \in 1 .. n
      PROVE  IsPacked(ss[k], rs[k], k = 1, k = n) /\ ss[k] \in Seq(Byte)
             /\ Len(ss[k]) \in Nat \ {0}
  <2>1. rs[k] \in GoodRecords /\ ss[k] = PackRecord(rs[k], k, n)
    BY <1>1
  <2>2. IsPacked(PackRecord(rs[k], k, n), rs[k], k = 1, k = n)
    <3> DEFINE r == rs[k]
    <3>1. r \in GoodRecords /\ k \in Nat /\ n \in Nat
      BY <1>1, <2>1
    <3> HIDE DEF r, n
    <3>2. IsPacked(PackRecord(r, k, n), r, k = 1, k = n)
      BY <3>1, PackedIs
    <3>3. QED
      BY <3>2 DEF r
  <2> DEFINE r == rs[k]
             e == ss[k]
  <2>3. IsPacked(e, r, k = 1, k = n) /\ r \in GoodRecords
    BY <2>1, <2>2
  <2> HIDE DEF r, e, n, ss
  <2>4. Len(e) \in Nat /\ Len(e) # 0
    BY <2>3, PackedLong
  <2>5. e \in Seq(Byte)
    BY <2>3 DEF IsPacked
  <2>6. QED
    BY <2>3, <2>4, <2>5 DEF r, e
<1>6. ss \in Seq(Seq(Byte)) /\ Len(ss) = n
  <2>1. ss = [k \in 1 .. n |-> ss[k]] /\ \A k \in 1 .. n : ss[k] \in Seq(Byte)
    BY <1>1, <1>5
  <2> HIDE DEF ss, n
  <2>2. QED
    BY <1>1, <2>1
<1> HIDE DEF ss, b, n
<1>7. PICK F : Flattens(F, ss, Byte)
  BY <1>6, FlattenIs
<1>8. /\ F[0] = <<>> /\ F[n] = b
      /\ \A k \in 1 .. n : F[k] = F[k - 1] \o ss[k]
  BY <1>4, <1>6, <1>7 DEF Flattens
<1>9. \A k \in 0 .. n : F[k] \in Seq(Byte) /\ \E r \in Seq(Byte) : b = F[k] \o r
  <2>1. \A k \in 0 .. Len(ss) :
          F[k] \in Seq(Byte) /\ \E r \in Seq(Byte) : FlattenSeq(ss) = F[k] \o r
    BY <1>6, <1>7, Begins
  <2>2. QED
    BY <1>4, <1>6, <2>1
<1>10. \A k \in 1 .. n : Len(F[k]) = Len(F[k - 1]) + Len(ss[k])
                         /\ Len(F[k]) \in Nat /\ Len(F[k - 1]) \in Nat
  <2> SUFFICES ASSUME NEW k \in 1 .. n
               PROVE  Len(F[k]) = Len(F[k - 1]) + Len(ss[k])
                      /\ Len(F[k]) \in Nat /\ Len(F[k - 1]) \in Nat
    OBVIOUS
  <2>1. k - 1 \in 0 .. n /\ k \in 0 .. n
    BY <1>1
  <2>2. F[k - 1] \in Seq(Byte) /\ F[k] \in Seq(Byte) /\ ss[k] \in Seq(Byte)
    BY <1>5, <1>9, <2>1
  <2>3. Len(F[k - 1] \o ss[k]) = Len(F[k - 1]) + Len(ss[k])
    BY <2>2, ConcatProperties
  <2>4. F[k] = F[k - 1] \o ss[k]
    BY <1>8
  <2> DEFINE x == F[k - 1]
             y == F[k]
  <2>5. x \in Seq(Byte) /\ y \in Seq(Byte) /\ Len(y) = Len(x) + Len(ss[k])
    BY <2>2, <2>3, <2>4
  <2> HIDE DEF x, y
  <2>6. Len(x) \in Nat /\ Len(y) \in Nat
    BY <2>5
  <2>7. QED
    BY <2>5, <2>6 DEF x, y
<1>11. b \in Seq(Byte)
  <2>1. n \in 0 .. n
    BY <1>1
  <2>2. QED
    BY <1>8, <1>9, <2>1
<1>12. PICK P : NdefIs(P, b)
  BY <1>11, NdefIsRead
<1>13. ASSUME NEW k \in 1 .. n
       PROVE  /\ k = n => P[Len(F[k - 1]) + 1] = Done(<<rs[k]>>)
              /\ k # n => P[Len(F[k - 1]) + 1] =
                            IF P[Len(F[k]) + 1].ok THEN Then(rs[k], P[Len(F[k]) + 1])
                            ELSE Stopped
  <2> DEFINE pre == F[k - 1]
             e == ss[k]
             r == rs[k]
             first == k = 1
             last == k = n
  <2>1. k - 1 \in 0 .. n /\ k \in 0 .. n
    BY <1>1
  <2>2. PICK post \in Seq(Byte) : b = F[k] \o post
    BY <1>9, <2>1
  <2>3. pre \in Seq(Byte) /\ b = pre \o e \o post /\ IsPacked(e, r, first, last)
        /\ r \in GoodRecords
    BY <1>1, <1>5, <1>8, <1>9, <2>1, <2>2
  <2>4. first <=> pre = <<>>
    <3>1. CASE k = 1
      BY <1>8, <3>1
    <3>2. CASE k # 1
      <4>1. k - 1 \in 1 .. n
        BY <1>1, <3>2
      <4>2. Len(F[k - 1]) = Len(F[(k - 1) - 1]) + Len(ss[k - 1])
            /\ Len(F[(k - 1) - 1]) \in Nat /\ Len(ss[k - 1]) \in Nat \ {0}
        BY <1>5, <1>10, <4>1
      <4>3. Len(F[k - 1]) # 0
        <5> DEFINE x == Len(F[k - 1])
                   y == Len(F[(k - 1) - 1])
                   z == Len(ss[k - 1])
        <5>1. x = y + z /\ y \in Nat /\ z \in Nat \ {0}
          BY <4>2
        <5> HIDE DEF x, y, z
        <5>2. x # 0
          BY <5>1
        <5>3. QED
          BY <5>2 DEF x
      <4>4. F[k - 1] # <<>>
        BY <4>3
      <4>5. QED
        BY <3>2, <4>4
    <3>3. QED
      BY <3>1, <3>2
  <2>5. Len(b) = Len(F[k]) + Len(post)
    <3>1. F[k] \in Seq(Byte)
      BY <1>9, <2>1
    <3>2. Len(F[k] \o post) = Len(F[k]) + Len(post)
      BY <3>1, ConcatProperties
    <3>3. QED
      BY <2>2, <3>2
  <2>6. Len(post) \in Nat /\ (post = <<>> <=> Len(post) = 0)
    BY EmptySeq
  <2>7. last <=> post = <<>>
    <3>1. CASE k = n
      <4>1. Len(F[k]) = Len(b) /\ Len(F[k]) \in Nat
        BY <1>8, <1>10, <3>1
      <4>2. Len(post) = 0
        BY <2>5, <2>6, <4>1
      <4>3. QED
        BY <2>6, <3>1, <4>2
    <3>2. CASE k # n
      <4>1. k + 1 \in 1 .. n /\ (k + 1) - 1 = k /\ k + 1 \in 0 .. n
        BY <1>1, <3>2
      <4>2. Len(F[k + 1]) = Len(F[k]) + Len(ss[k + 1]) /\ Len(ss[k + 1]) \in Nat \ {0}
            /\ Len(F[k]) \in Nat
        BY <1>5, <1>10, <4>1
      <4>3. PICK q \in Seq(Byte) : b = F[k + 1] \o q
        BY <1>9, <4>1
      <4>4. Len(b) = Len(F[k + 1]) + Len(q) /\ Len(q) \in Nat
        <5>1. F[k + 1] \in Seq(Byte)
          BY <1>9, <4>1
        <5>2. Len(F[k + 1] \o q) = Len(F[k + 1]) + Len(q)
          BY <5>1, ConcatProperties
        <5>3. QED
          BY <4>3, <5>2
      <4>5. Len(post) # 0
        BY <2>5, <4>2, <4>4
      <4>6. QED
        BY <2>6, <3>2, <4>5
    <3>3. QED
      BY <3>1, <3>2
  <2>8. Len(F[k]) = Len(pre) + Len(e)
    BY <1>10
  <2>9. first \in BOOLEAN /\ last \in BOOLEAN
    OBVIOUS
  <2> HIDE DEF pre, e, r, first, last
  <2>10. ReadsOn(P, Len(pre) + 1, Len(pre) + Len(e) + 1, r, last)
    BY <1>12, <2>3, <2>4, <2>7, <2>9, NdefReads
  <2>11. QED
    BY <2>8, <2>10 DEF ReadsOn, pre, e, r, last
<1> DEFINE T == {k \in 1 .. n : P[Len(F[k - 1]) + 1] = Done(SubSeq(rs, k, n))}
<1>14. ASSUME NEW k \in 1 .. n, \A j \in k + 1 .. n : j \in T PROVE k \in T
  <2>1. CASE k = n
    <3>1. SubSeq(rs, n, n) = <<rs[n]>>
      <4>1. n \in 1 .. Len(rs) /\ n \in Nat /\ SubSeq(rs, n + 1, n) = <<>>
        BY <1>1 DEF n
      <4>2. SubSeq(rs, n, n) = <<rs[n]>> \o SubSeq(rs, n + 1, n)
        BY <4>1, SubSeqRecursiveFirst
      <4> DEFINE x == rs[n]
      <4>3. <<x>> \o <<>> = <<x>>
        <5>1. <<x>> \in Seq({x})
          OBVIOUS
        <5>2. QED
          BY <5>1, ConcatEmptySeq
      <4>4. QED
        BY <4>1, <4>2, <4>3
    <3>2. QED
      BY <1>13, <2>1, <3>1
  <2>2. CASE k # n
    <3> DEFINE u == SubSeq(rs, k + 1, n)
               x == rs[k]
    <3>1. k + 1 \in k + 1 .. n /\ (k + 1) - 1 = k
      BY <1>1, <2>2
    <3>2. P[Len(F[k]) + 1] = Done(u)
      BY <1>14, <3>1
    <3>3. SubSeq(rs, k, n) = <<x>> \o u
      <4>1. k \in 1 .. Len(rs) /\ n \in k .. Len(rs)
        BY <1>1 DEF n
      <4>2. QED
        BY <4>1, SubSeqRecursiveFirst
    <3> HIDE DEF u
    <3>4. Then(x, Done(u)) = Done(<<x>> \o u) /\ Done(u).ok
      BY ThenDone DEF Done
    <3>5. P[Len(F[k - 1]) + 1] = Then(x, Done(u))
      BY <1>13, <2>2, <3>2, <3>4
    <3>6. QED
      BY <3>3, <3>4, <3>5
  <2>3. QED
    BY <2>1, <2>2
<1>15. \A k \in 1 .. n : k \in T
  <2> HIDE DEF T
  <2>1. QED
    BY <1>1, <1>14, Downward
<1>16. P[1] = Done(rs)
  <2>1. 1 \in T /\ 1 - 1 = 0
    BY <1>1, <1>15
  <2>2. Len(F[0]) + 1 = 1
    BY <1>8
  <2>3. SubSeq(rs, 1, n) = rs
    BY <1>1 DEF n
  <2>4. QED
    BY <2>1, <2>2, <2>3
<1>17. QED
  BY <1>12, <1>16 DEF NdefIs, b

\* What NdefUnpack keeps are records that can be packed, one at least.
LEMMA NdefKept ==
  ASSUME NEW b \in Seq(Byte), NdefUnpack(b).ok
  PROVE  /\ NdefUnpack(b).items \in Seq(GoodRecords)
         /\ NdefUnpack(b).items # <<>>
         /\ NdefUnpack(b) = Done(NdefUnpack(b).items)
<1>1. PICK P : NdefIs(P, b)
  BY NdefIsRead
<1> DEFINE x == NdefAt(b, 1)
           j == NdefNext(b, 1)
           v == P[j]
           r == P[1]
<1>2. 1 \in 1 .. Len(b) + 1
  OBVIOUS
<1>3. r \in Answers(GoodRecords) /\ NdefUnpack(b) = r
  BY <1>1, <1>2 DEF NdefIs
<1>4. r = IF NdefOver(b, 1) THEN Stopped
          ELSE IF EndsAt(b, 1, j) THEN Done(<<x>>)
          ELSE IF ME(b[1]) \/ ~v.ok THEN Stopped ELSE Then(x, v)
  BY <1>1, <1>2 DEF NdefIs
<1>5. ~NdefOver(b, 1)
  BY <1>3, <1>4 DEF Stopped
<1>6. x \in GoodRecords /\ j \in 1 + 1 .. Len(b) + 1
  BY <1>2, <1>5, NdefAtIs
<1>7. v \in Answers(GoodRecords)
  <2>1. j \in 1 .. Len(b) + 1
    BY <1>6
  <2> HIDE DEF j
  <2>2. QED
    BY <1>1, <2>1 DEF NdefIs
<1>8. r.items # <<>>
  <2> HIDE DEF x, v, r, j
  <2>1. CASE EndsAt(b, 1, j)
    <3>1. r.items = <<x>>
      BY <1>4, <1>5, <2>1 DEF Done
    <3>2. QED
      BY <3>1
  <2>2. CASE ~EndsAt(b, 1, j)
    <3>1. r = Then(x, v)
      BY <1>3, <1>4, <1>5, <2>2 DEF Stopped
    <3>2. Then(x, v).items = <<x>> \o v.items
      BY <1>6, <1>7, ThenIs
    <3> DEFINE y == v.items
    <3>3. y \in Seq(GoodRecords)
      BY <1>7 DEF Answers
    <3> HIDE DEF y
    <3>4. Len(<<x>> \o y) = Len(y) + 1 /\ Len(y) \in Nat
      BY <1>6, <3>3, OneThen
    <3>5. <<x>> \o y # <<>>
      BY <3>4
    <3>6. QED
      BY <3>1, <3>2, <3>5 DEF y
  <2>3. QED
    BY <2>1, <2>2
<1>9. r.ok = TRUE
  BY <1>3 DEF Answers
<1>10. r = [ok |-> r.ok, items |-> r.items] /\ r.items \in Seq(GoodRecords)
  BY <1>3 DEF Answers
<1> HIDE DEF r
<1>11. QED
  BY <1>3, <1>8, <1>9, <1>10 DEF Done

\* A message ends with its last record, so none of its beginnings is one.
LEMMA NdefPrefix ==
  ASSUME NEW b \in Seq(Byte), NEW n \in 0 .. Len(b) - 1
  PROVE  ~(NdefUnpack(b).ok /\ NdefUnpack(SubSeq(b, 1, n)).ok)
<1> DEFINE c == SubSeq(b, 1, n)
           l == Len(b)
<1>1. n \in Nat /\ l \in Nat /\ n < l
  OBVIOUS
<1>2. /\ c \in Seq(Byte) /\ Len(c) = n
      /\ \A i \in 1 .. n : c[i] = b[i]
      /\ \A i \in Nat \ {0}, m \in Nat : i + m <= n + 1 => Slice(c, i, m) = Slice(b, i, m)
  <2>1. 1 \in Nat \ {0} /\ 1 + n <= l + 1 /\ c = Slice(b, 1, n)
    BY <1>1 DEF Slice
  <2>2. /\ Slice(b, 1, n) \in Seq(Byte) /\ Len(Slice(b, 1, n)) = n
        /\ \A i \in 1 .. n : Slice(b, 1, n)[i] = b[1 + i - 1]
    BY <1>1, <2>1, SliceIs
  <2>3. c \in Seq(Byte) /\ Len(c) = n /\ \A i \in 1 .. n : c[i] = b[i]
    <3>1. \A i \in 1 .. n : 1 + i - 1 = i
      OBVIOUS
    <3> HIDE DEF c
    <3>2. QED
      BY <2>1, <2>2, <3>1
  <2> HIDE DEF c
  <2>4. ASSUME NEW i \in Nat \ {0}, NEW m \in Nat, i + m <= n + 1
        PROVE  Slice(c, i, m) = Slice(b, i, m)
    <3> DEFINE x == Slice(c, i, m)
               y == Slice(b, i, m)
    <3>1. i + m <= Len(c) + 1 /\ i + m <= Len(b) + 1
      BY <1>1, <2>3, <2>4 DEF l
    <3>2. x \in Seq(Byte) /\ Len(x) = m /\ \A k \in 1 .. m : x[k] = c[i + k - 1]
      BY <2>3, <3>1, SliceIs
    <3>3. y \in Seq(Byte) /\ Len(y) = m /\ \A k \in 1 .. m : y[k] = b[i + k - 1]
      BY <3>1, SliceIs
    <3>4. \A k \in 1 .. m : i + k - 1 \in 1 .. n
      BY <1>1, <2>4
    <3> HIDE DEF x, y
    <3>5. \A k \in 1 .. m : x[k] = y[k]
      BY <2>3, <3>2, <3>3, <3>4
    <3>6. x = y
      BY <3>2, <3>3, <3>5, SeqEqual
    <3>7. QED
      BY <3>6 DEF x, y
  <2>5. QED
    BY <2>3, <2>4
<1> HIDE DEF c
<1>3. PICK P : NdefIs(P, b)
  BY NdefIsRead
<1>4. PICK Q : NdefIs(Q, c)
  BY <1>2, NdefIsRead
<1> DEFINE N == n + 1
           T == {i \in 1 .. N : ~(P[i].ok /\ Q[i].ok)}
<1>5. ASSUME NEW i \in 1 .. N, \A j \in i + 1 .. N : j \in T PROVE i \in T
  <2> SUFFICES ASSUME P[i].ok, Q[i].ok PROVE FALSE
    OBVIOUS
  <2> DEFINE p == NdefNext(b, i)
             q == NdefNext(c, i)
  <2>1. i \in 1 .. Len(b) + 1 /\ i \in 1 .. Len(c) + 1
    BY <1>1, <1>2 DEF l
  <2>2. P[i] = IF NdefOver(b, i) THEN Stopped
               ELSE IF EndsAt(b, i, p) THEN Done(<<NdefAt(b, i)>>)
               ELSE IF ME(b[i]) \/ ~P[p].ok THEN Stopped ELSE Then(NdefAt(b, i), P[p])
    BY <1>3, <2>1 DEF NdefIs
  <2>3. Q[i] = IF NdefOver(c, i) THEN Stopped
               ELSE IF EndsAt(c, i, q) THEN Done(<<NdefAt(c, i)>>)
               ELSE IF ME(c[i]) \/ ~Q[q].ok THEN Stopped ELSE Then(NdefAt(c, i), Q[q])
    BY <1>4, <2>1 DEF NdefIs
  <2>4. ~NdefOver(b, i) /\ ~NdefOver(c, i)
    BY <2>2, <2>3 DEF Stopped
  <2>5. ~(i + 1 > Len(c)) /\ ~(Body(c, i) > Len(c) + 1)
    BY <2>4 DEF NdefOver
  <2>6. q \in i + 1 .. N
    <3>1. q \in i + 1 .. Len(c) + 1
      BY <1>2, <2>1, <2>4, NdefAtIs
    <3>2. QED
      BY <1>2, <3>1
  <2> DEFINE w == Width(c, i)
             o == IF IL(c[i]) THEN 1 ELSE 0
  <2>7. /\ i \in 1 .. n /\ i + 1 \in 1 .. n /\ w \in Nat \ {0}
        /\ Body(c, i) = i + 2 + w + o /\ i + 2 + w + o <= n + 1
    <3>1. /\ i \in 1 .. Len(c) /\ i + 1 \in 1 .. Len(c) /\ w \in Nat \ {0}
          /\ Body(c, i) = i + 2 + w + o /\ Body(c, i) \in i + 3 .. Len(c) + 1
      BY <1>2, <2>1, <2>5, FieldsAre
    <3> HIDE DEF w, o
    <3>2. QED
      BY <1>1, <1>2, <3>1
  <2>8. c[i] = b[i] /\ c[i + 1] = b[i + 1]
    BY <1>2, <2>7
  <2>9. Width(b, i) = w /\ o = IF IL(b[i]) THEN 1 ELSE 0
    BY <2>8 DEF Width
  <2>10. Body(b, i) = i + 2 + w + o
    BY <2>9 DEF Body
  <2>11. Lengths(b, i) = Lengths(c, i)
    <3>1. Slice(c, i + 2, w) = Slice(b, i + 2, w)
      <4> HIDE DEF w
      <4>1. i + 2 \in Nat \ {0} /\ i + 2 + w <= n + 1
        <5>1. o \in 0 .. 1
          OBVIOUS
        <5> HIDE DEF o
        <5>2. QED
          BY <1>1, <2>7, <5>1
      <4>2. QED
        BY <1>2, <2>7, <4>1
    <3>2. IL(b[i]) => b[i + 2 + w] = c[i + 2 + w]
      <4> SUFFICES ASSUME IL(b[i]) PROVE b[i + 2 + w] = c[i + 2 + w]
        OBVIOUS
      <4>1. o = 1
        BY <2>9
      <4> HIDE DEF o, w
      <4>2. i + 2 + w \in 1 .. n
        BY <1>1, <2>7, <4>1
      <4>3. QED
        BY <1>2, <4>2
    <3> HIDE DEF w
    <3>3. Width(c, i) = w
      BY DEF w
    <3>4. QED
      BY <2>8, <2>9, <3>1, <3>2, <3>3 DEF Lengths
  <2>12. p = q
    BY <2>7, <2>10, <2>11 DEF NdefNext
  <2>13. CASE EndsAt(c, i, q)
    <3>1. ME(b[i]) /\ q = n + 1
      BY <1>2, <2>8, <2>13 DEF EndsAt
    <3>2. ~EndsAt(b, i, p)
      <4>1. p # l + 1
        BY <1>1, <2>12, <3>1
      <4>2. QED
        BY <4>1 DEF EndsAt, l
    <3>3. P[i] = Stopped
      BY <2>2, <3>1, <3>2
    <3>4. QED
      BY <3>3 DEF Stopped
  <2>14. CASE ~EndsAt(c, i, q)
    <3>1. ~ME(c[i]) /\ Q[q].ok
      BY <2>3, <2>4, <2>14 DEF Stopped
    <3>2. ~EndsAt(b, i, p)
      BY <2>8, <3>1 DEF EndsAt
    <3>3. P[p].ok
      BY <2>2, <2>4, <3>2 DEF Stopped
    <3>4. q \in T
      BY <1>5, <2>6
    <3>5. QED
      BY <2>12, <3>1, <3>3, <3>4
  <2>15. QED
    BY <2>13, <2>14
<1>6. \A i \in 1 .. N : i \in T
  <2>1. N \in Nat
    BY <1>1
  <2> HIDE DEF T, N
  <2>2. QED
    BY <1>5, <2>1, Downward
<1>7. ~(P[1].ok /\ Q[1].ok)
  <2>1. 1 \in 1 .. N
    BY <1>1
  <2>2. 1 \in T
    BY <1>6, <2>1
  <2>3. QED
    BY <2>2
<1>8. NdefUnpack(b) = P[1] /\ NdefUnpack(c) = Q[1]
  BY <1>3, <1>4 DEF NdefIs
<1>9. QED
  BY <1>7, <1>8 DEF c

\* Smaller numbers fit where a larger one does.
LEMMA FitsBelow ==
  ASSUME NEW n \in Nat, NEW m \in Nat, m <= n, NEW w \in Nat, Fits(n, w)
  PROVE  Fits(m, w)
<1> DEFINE S == Shifts(n, w)
           U == Shifts(m, w)
           T == {k \in 0 .. w : U[k] <= S[k]}
<1>1. S \in [0 .. w -> Nat] /\ S[0] = n /\ \A k \in 1 .. w : S[k] = S[k - 1] \div Base
  BY ShiftsAre
<1>2. U \in [0 .. w -> Nat] /\ U[0] = m /\ \A k \in 1 .. w : U[k] = U[k - 1] \div Base
  BY ShiftsAre
<1>3. S[w] = 0
  BY DEF Fits
<1> HIDE DEF S, U
<1>4. 0 \in T
  BY <1>1, <1>2
<1>5. ASSUME NEW k \in 0 .. w, k \in T, k # w PROVE k + 1 \in T
  <2> DEFINE x == U[k]
             y == S[k]
  <2>1. k + 1 \in 1 .. w /\ (k + 1) - 1 = k /\ k + 1 \in 0 .. w
    BY <1>5
  <2>2. U[k + 1] = x \div Base /\ S[k + 1] = y \div Base
    BY <1>1, <1>2, <2>1
  <2>3. x \in Nat /\ y \in Nat /\ x <= y
    BY <1>1, <1>2, <1>5
  <2> HIDE DEF x, y
  <2>4. x \div Base <= y \div Base
    BY <2>3, OctetAssumption
  <2>5. QED
    BY <2>1, <2>2, <2>4
<1>6. w \in T
  <2>1. \A k \in 0 .. w : k \in T
    <3> HIDE DEF T
    <3>1. QED
      BY <1>4, <1>5, UpTo
  <2>2. QED
    BY <2>1
<1>7. U[w] = 0
  <2>1. U[w] \in Nat /\ U[w] <= S[w]
    BY <1>2, <1>6
  <2>2. QED
    BY <1>3, <2>1
<1>8. QED
  BY <1>7 DEF Fits, U

\* NdefSurvives for one input, whose length the long form can count.
LEMMA NdefOf ==
  ASSUME InputIs, Fits(Len(input), LongWidth)
  PROVE  NdefSurvives
<1>1. input \in Seq(Byte)
  BY DEF InputIs
<1> DEFINE Ids == {<<>>, <<0>>}
           Written(id) == LET r == NdefRecord(<<1>>, id, input)
                          IN  {<<r>>, <<r, r>>, <<r, NdefRecord(<<>>, <<>>, <<>>), r>>}
<1>2. ASSUME NEW id \in Ids, NEW rs, rs \in Written(id)
      PROVE  NdefUnpack(NdefPack(rs)) = Done(rs)
  <2> DEFINE one == <<1>>
             nil == <<>>
             r == NdefRecord(one, id, input)
             o == NdefRecord(nil, nil, nil)
  <2>1. /\ 0 \in Byte /\ 1 \in Byte /\ 1 < Base /\ 0 < Base
    BY OctetAssumption DEF Byte
  <2>2. one \in Seq(Byte) /\ Len(one) = 1 /\ nil \in Seq(Byte) /\ Len(nil) = 0
    BY <2>1
  <2>3. id \in Seq(Byte) /\ Len(id) < Base
    <3>1. CASE id = <<>>
      BY <2>1, <2>2, <3>1
    <3>2. CASE id = <<0>>
      <4>1. <<0>> \in Seq(Byte) /\ Len(<<0>>) = 1
        BY <2>1
      <4>2. QED
        BY <2>1, <3>2, <4>1
    <3>3. QED
      BY <3>1, <3>2
  <2> HIDE DEF one, nil
  <2>4. r \in GoodRecords
    <3>1. r = [type |-> one, id |-> id, data |-> input]
      BY DEF NdefRecord
    <3>2. r \in NdefRecords
      BY <1>1, <2>2, <2>3, <3>1 DEF NdefRecords
    <3>3. r.type = one /\ r.id = id /\ r.data = input
      BY <3>1
    <3> HIDE DEF r
    <3>4. QED
      BY <2>1, <2>2, <2>3, <3>2, <3>3 DEF GoodRecords
  <2>5. o \in GoodRecords
    <3>1. o = [type |-> nil, id |-> nil, data |-> nil]
      BY DEF NdefRecord
    <3>2. o \in NdefRecords
      BY <2>2, <3>1 DEF NdefRecords
    <3>3. o.type = nil /\ o.id = nil /\ o.data = nil
      BY <3>1
    <3> HIDE DEF o
    <3>4. QED
      BY <2>1, <2>2, <3>2, <3>3 DEF GoodRecords, IsShort
  <2>6. rs \in {<<r>>, <<r, r>>, <<r, o, r>>}
    BY <1>2 DEF one, nil
  <2> HIDE DEF r, o
  <2>7. rs \in Seq(GoodRecords) /\ rs # <<>>
    <3>1. CASE rs = <<r>>
      BY <2>4, <3>1
    <3>2. CASE rs = <<r, r>>
      BY <2>4, <3>2
    <3>3. CASE rs = <<r, o, r>>
      BY <2>4, <2>5, <3>3
    <3>4. QED
      BY <2>6, <3>1, <3>2, <3>3
  <2>8. QED
    BY <2>7, NdefRoundTrip
<1>3. ASSUME NdefUnpack(input).ok
      PROVE  /\ NdefUnpack(NdefPack(NdefUnpack(input).items)) = NdefUnpack(input)
             /\ \A n \in 0 .. Len(input) - 1 : ~NdefUnpack(SubSeq(input, 1, n)).ok
  <2> DEFINE kept == NdefUnpack(input).items
  <2>1. kept \in Seq(GoodRecords) /\ kept # <<>> /\ NdefUnpack(input) = Done(kept)
    BY <1>1, <1>3, NdefKept
  <2> HIDE DEF kept
  <2>2. NdefUnpack(NdefPack(kept)) = Done(kept)
    BY <2>1, NdefRoundTrip
  <2>3. \A n \in 0 .. Len(input) - 1 : ~NdefUnpack(SubSeq(input, 1, n)).ok
    BY <1>1, <1>3, NdefPrefix
  <2>4. QED
    BY <2>1, <2>2, <2>3 DEF kept
<1>4. QED
  BY <1>2, <1>3 DEF NdefSurvives

(***************************************************************************)
(* Packed NDEF records are read back, and what is read at all is a message *)
(* that no other begins, for payloads the long length field can count.     *)
(***************************************************************************)
THEOREM NdefRight ==
  ASSUME Fits(MaxInput, LongWidth), Fits(MaxZeros, LongWidth)
  PROVE  Spec => []NdefSurvives
<1>1. InputIs => NdefSurvives
  <2> SUFFICES ASSUME InputIs PROVE NdefSurvives
    OBVIOUS
  <2>1. Fits(Len(input), LongWidth)
    <3> DEFINE l == Len(input)
    <3>1. l \in Nat /\ (l <= MaxInput \/ l <= MaxZeros)
      BY DEF InputIs
    <3>2. MaxInput \in Nat /\ MaxZeros \in Nat /\ LongWidth \in Nat
      BY CodecsAssumption, NdefAssumption
    <3> HIDE DEF l
    <3>3. Fits(l, LongWidth)
      BY <3>1, <3>2, FitsBelow
    <3>4. QED
      BY <3>3 DEF l
  <2>2. QED
    BY <2>1, NdefOf
<1>2. QED
  BY <1>1, TypeCorrect, PTL

-----------------------------------------------------------------------------
\* The first shifts are the same, however many there are.
LEMMA ShiftsAgree ==
  ASSUME NEW n \in Nat, NEW w \in Nat, NEW v \in Nat, w <= v
  PROVE  \A k \in 0 .. w : Shifts(n, v)[k] = Shifts(n, w)[k]
<1> DEFINE S == Shifts(n, w)
           U == Shifts(n, v)
           T == {k \in 0 .. w : U[k] = S[k]}
<1>1. S[0] = n /\ \A k \in 1 .. w : S[k] = S[k - 1] \div Base
  BY ShiftsAre
<1>2. U[0] = n /\ \A k \in 1 .. v : U[k] = U[k - 1] \div Base
  BY ShiftsAre
<1> HIDE DEF S, U
<1>3. 0 \in T
  BY <1>1, <1>2
<1>4. ASSUME NEW k \in 0 .. w, k \in T, k # w PROVE k + 1 \in T
  <2>1. k + 1 \in 1 .. w /\ k + 1 \in 1 .. v /\ (k + 1) - 1 = k /\ k + 1 \in 0 .. w
    BY <1>4
  <2>2. U[k + 1] = U[k] \div Base /\ S[k + 1] = S[k] \div Base
    BY <1>1, <1>2, <2>1
  <2>3. QED
    BY <1>4, <2>1, <2>2
<1>5. \A k \in 0 .. w : k \in T
  <2> HIDE DEF T
  <2>1. QED
    BY <1>3, <1>4, UpTo
<1>6. QED
  BY <1>5 DEF S, U

\* What some bytes hold, more bytes hold; and n bytes hold n.
LEMMA FitsWider ==
  ASSUME NEW n \in Nat, NEW w \in Nat, NEW v \in Nat, w <= v, Fits(n, w)
  PROVE  Fits(n, v)
<1> DEFINE U == Shifts(n, v)
           d == v - w
           T == {k \in 0 .. d : U[w + k] = 0}
<1>1. U[w] = 0
  BY ShiftsAgree DEF Fits
<1>2. \A k \in 1 .. v : U[k] = U[k - 1] \div Base
  BY ShiftsAre
<1> HIDE DEF U
<1>3. d \in Nat /\ 0 \in T
  BY <1>1
<1>4. ASSUME NEW k \in 0 .. d, k \in T, k # d PROVE k + 1 \in T
  <2>1. k + 1 \in 0 .. d /\ w + (k + 1) \in 1 .. v /\ (w + (k + 1)) - 1 = w + k
    BY <1>4
  <2>2. U[w + (k + 1)] = U[w + k] \div Base
    BY <1>2, <2>1
  <2>3. U[w + k] = 0 /\ 0 \div Base = 0
    BY <1>4, OctetAssumption
  <2>4. QED
    BY <2>1, <2>2, <2>3
<1>5. d \in T
  <2>1. \A k \in 0 .. d : k \in T
    <3> HIDE DEF T, d
    <3>1. QED
      BY <1>3, <1>4, UpTo
  <2>2. QED
    BY <1>3, <2>1
<1>6. w + d = v
  OBVIOUS
<1>7. QED
  BY <1>5, <1>6 DEF Fits, U

LEMMA FitsItself ==
  ASSUME NEW n \in Nat
  PROVE  Fits(n, n)
<1> DEFINE S == Shifts(n, n)
           T == {k \in 0 .. n : S[k] <= n - k}
<1>1. S \in [0 .. n -> Nat] /\ S[0] = n /\ \A k \in 1 .. n : S[k] = S[k - 1] \div Base
  BY ShiftsAre
<1> HIDE DEF S
<1>2. 0 \in T
  BY <1>1
<1>3. ASSUME NEW k \in 0 .. n, k \in T, k # n PROVE k + 1 \in T
  <2> DEFINE x == S[k]
  <2>1. k + 1 \in 1 .. n /\ (k + 1) - 1 = k /\ k + 1 \in 0 .. n
    BY <1>3
  <2>2. S[k + 1] = x \div Base /\ x \in Nat /\ x <= n - k
    BY <1>1, <1>3, <2>1
  <2> HIDE DEF x
  <2>3. x \div Base <= n - (k + 1)
    <3>1. CASE x = 0
      <4>1. 0 \div Base = 0
        BY OctetAssumption
      <4>2. QED
        BY <2>1, <3>1, <4>1
    <3>2. CASE x # 0
      <4>1. x \div Base <= x - 1
        BY <2>2, <3>2, OctetAssumption
      <4>2. x \div Base \in Int
        BY <2>2, OctetAssumption
      <4>3. QED
        BY <2>2, <4>1, <4>2
    <3>3. QED
      BY <3>1, <3>2
  <2>4. QED
    BY <2>1, <2>2, <2>3
<1>4. n \in T
  <2>1. \A k \in 0 .. n : k \in T
    <3> HIDE DEF T
    <3>1. QED
      BY <1>2, <1>3, UpTo
  <2>2. QED
    BY <2>1
<1>5. S[n] = 0
  BY <1>1, <1>4
<1>6. QED
  BY <1>5 DEF Fits, S

-----------------------------------------------------------------------------
\* A length field that is read as n: n itself, or the bytes that spell it and
\* before them how many they are.
IsLength(e, n) ==
  \/ n \in 0 .. Half - 1 /\ e = <<n>>
  \/ \E s \in Seq(Byte) :
       Len(s) \in 1 .. WordBytes /\ n = Number(s) /\ e = <<Half + Len(s)>> \o s

\* The fields in the code are strings of bytes, and numbers of them can be written.
LEMMA LengthIs ==
  ASSUME NEW e, NEW n, IsLength(e, n)
  PROVE  /\ e \in Seq(Byte) /\ Len(e) \in Nat \ {0}
         /\ n \in Nat /\ Fits(n, WordBytes)
<1>1. Half \in Nat /\ Half >= 8 /\ Half + Half = Base /\ WordBytes \in 1 .. Half - 1
  BY OctetAssumption, TlvAssumption DEF Half
<1>2. CASE n \in 0 .. Half - 1 /\ e = <<n>>
  <2>1. n \in Byte /\ n \in Nat /\ n < Base
    BY <1>1, <1>2 DEF Byte
  <2>2. Fits(n, 1)
    BY <2>1, FitsShort
  <2>3. Fits(n, WordBytes)
    <3>1. 1 \in Nat /\ WordBytes \in Nat /\ 1 <= WordBytes
      BY <1>1
    <3>2. QED
      BY <2>1, <2>2, <3>1, FitsWider
  <2>4. QED
    BY <1>2, <2>1, <2>3
<1>3. CASE \E s \in Seq(Byte) : /\ Len(s) \in 1 .. WordBytes /\ n = Number(s)
                                /\ e = <<Half + Len(s)>> \o s
  <2>1. PICK s \in Seq(Byte) :
          Len(s) \in 1 .. WordBytes /\ n = Number(s) /\ e = <<Half + Len(s)>> \o s
    BY <1>3
  <2> DEFINE w == Len(s)
             x == Half + w
  <2>2. w \in Nat /\ w <= WordBytes /\ WordBytes \in Nat /\ x \in Byte
    BY <1>1, <2>1 DEF Byte
  <2>3. n \in Nat /\ Fits(n, w)
    BY <2>1, NumberFits
  <2>4. Fits(n, WordBytes)
    <3> HIDE DEF w, x
    <3>1. QED
      BY <2>2, <2>3, FitsWider
  <2>5. <<x>> \o s \in Seq(Byte) /\ Len(<<x>> \o s) = w + 1
    <3> HIDE DEF x
    <3>1. QED
      BY <2>1, <2>2, OneThen
  <2>6. QED
    BY <2>1, <2>2, <2>3, <2>4, <2>5
<1>4. QED
  BY <1>2, <1>3 DEF IsLength

\* write_length writes such a field.
LEMMA LengthWritten ==
  ASSUME NEW n \in Nat, Fits(n, WordBytes)
  PROVE  IsLength(WriteLength(n), n)
<1>1. Half \in Nat /\ Half >= 8 /\ WordBytes \in Nat
  BY OctetAssumption, TlvAssumption DEF Half
<1>2. CASE n < Half
  BY <1>1, <1>2 DEF WriteLength, IsLength
<1>3. CASE ~(n < Half)
  <2> DEFINE Least(w) == w \in 1 .. n /\ Fits(n, w) /\ ~Fits(n, w - 1)
             T == {w \in Nat : Fits(n, w)}
             w == CHOOSE w \in 1 .. n : Fits(n, w) /\ ~Fits(n, w - 1)
  <2>1. PICK m \in T : \A k \in T : m <= k
    <3>1. T \subseteq Nat /\ T # {}
      BY <1>1
    <3>2. QED
      BY <3>1, LeastOf
  <2>2. ~Fits(n, 0)
    <3>1. 0 \in Nat
      OBVIOUS
    <3>2. Shifts(n, 0)[0] = n
      BY <3>1, ShiftsAre
    <3>3. QED
      BY <1>1, <1>3, <3>2 DEF Fits
  <2>3. m \in Nat /\ m # 0 /\ Fits(n, m)
    BY <2>1, <2>2
  <2>4. m <= n
    BY <2>1, FitsItself
  <2>5. ~Fits(n, m - 1)
    <3>1. m - 1 \in Nat /\ ~(m <= m - 1)
      BY <2>3
    <3>2. m - 1 \notin T
      BY <2>1, <3>1
    <3>3. QED
      BY <3>1, <3>2
  <2>6. Least(m)
    BY <2>3, <2>4, <2>5
  <2>7. Least(w)
    BY <2>6
  <2> HIDE DEF w
  <2>8. w <= WordBytes
    <3>1. SUFFICES ASSUME ~(w <= WordBytes) PROVE FALSE
      OBVIOUS
    <3>2. w - 1 \in Nat /\ WordBytes <= w - 1
      BY <1>1, <2>7, <3>1
    <3> DEFINE v == w - 1
    <3> HIDE DEF v
    <3>3. v \in Nat /\ WordBytes <= v
      BY <3>2 DEF v
    <3>4. Fits(n, v)
      BY <1>1, <3>3, FitsWider
    <3>5. QED
      BY <2>7, <3>4 DEF v
  <2> DEFINE s == BigEndian(n, w)
  <2>9. s \in Seq(Byte) /\ Len(s) = w /\ Number(s) = n
    BY <2>7, BigEndianIs
  <2>10. WriteLength(n) = <<Half + w>> \o s
    BY <1>3 DEF WriteLength, w
  <2> HIDE DEF s
  <2>11. WriteLength(n) = <<Half + Len(s)>> \o s /\ Len(s) \in 1 .. WordBytes
    BY <1>1, <2>7, <2>8, <2>9, <2>10
  <2>12. QED
    BY <2>9, <2>11 DEF IsLength
<1>4. QED
  BY <1>2, <1>3

\* Three strings one after the other in b.
Joined(b, S, s, t, u) ==
  /\ b \in Seq(S) /\ Len(b) = Len(s) + Len(t) + Len(u)
  /\ \A k \in 1 .. Len(s) : b[k] = s[k]
  /\ \A k \in 1 .. Len(t) : b[Len(s) + k] = t[k]
  /\ \A k \in 1 .. Len(u) : b[Len(s) + Len(t) + k] = u[k]

\* So they are when they are concatenated.
LEMMA JoinedIs ==
  ASSUME NEW S, NEW s \in Seq(S), NEW t \in Seq(S), NEW u \in Seq(S),
         NEW b, b = s \o t \o u
  PROVE  Joined(b, S, s, t, u)
<1> DEFINE c == s \o t \o u
<1>1. c \in Seq(S) /\ Len(c) = Len(s) + Len(t) + Len(u)
  BY Parts
<1>2. \A k \in 1 .. Len(s) : c[k] = s[k]
  BY Parts
<1>3. \A k \in 1 .. Len(t) : c[Len(s) + k] = t[k]
  BY Parts
<1>4. \A k \in 1 .. Len(u) : c[Len(s) + Len(t) + k] = u[k]
  BY Parts
<1> HIDE DEF c
<1>5. Joined(c, S, s, t, u)
  BY <1>1, <1>2, <1>3, <1>4, Zenon DEF Joined
<1>6. QED
  BY <1>5 DEF c

\* A string cut in three, n elements from i on in the middle.
IsCut(b, S, i, n, p, e, q) ==
  /\ p \in Seq(S) /\ Len(p) = i - 1
  /\ e \in Seq(S) /\ Len(e) = n
  /\ q \in Seq(S)
  /\ b = p \o e \o q

\* What is in front, the part, and what is behind.
LEMMA CutOut ==
  ASSUME NEW S, NEW b \in Seq(S), NEW i \in Nat \ {0}, NEW n \in Nat,
         i + n <= Len(b) + 1
  PROVE  IsCut(b, S, i, n, SubSeq(b, 1, i - 1), Slice(b, i, n), SubSeq(b, i + n, Len(b)))
<1> DEFINE l == Len(b)
           p == SubSeq(b, 1, i - 1)
           e == Slice(b, i, n)
           q == SubSeq(b, i + n, l)
<1>1. l \in Nat
  OBVIOUS
<1>2. p \in Seq(S) /\ Len(p) = i - 1 /\ \A k \in 1 .. i - 1 : p[k] = b[k]
  BY <1>1
<1>3. e \in Seq(S) /\ Len(e) = n /\ \A k \in 1 .. n : e[k] = b[i + k - 1]
  <2>1. IsSlice(e, S, b, i, n)
    BY SlicedIs
  <2> HIDE DEF e
  <2>2. QED
    BY <2>1, Zenon DEF IsSlice
<1>4. q \in Seq(S) /\ Len(q) = l - (i + n) + 1
      /\ \A k \in 1 .. l - (i + n) + 1 : q[k] = b[i + n + k - 1]
  BY <1>1
<1> HIDE DEF p, e, q
<1> DEFINE z == p \o e \o q
<1> HIDE DEF l
<1>5. /\ z \in Seq(S) /\ Len(z) = Len(p) + Len(e) + Len(q)
      /\ \A k \in 1 .. i - 1 : z[k] = p[k]
      /\ \A k \in 1 .. n : z[i - 1 + k] = e[k]
      /\ \A k \in 1 .. l - (i + n) + 1 : z[i - 1 + n + k] = q[k]
  <2>1. p \in Seq(S) /\ e \in Seq(S) /\ q \in Seq(S)
    BY <1>2, <1>3, <1>4
  <2>2. Joined(z, S, p, e, q)
    BY <2>1, JoinedIs
  <2> HIDE DEF z
  <2>3. QED
    BY <1>2, <1>3, <1>4, <2>2 DEF Joined
<1> HIDE DEF z
<1>6. Len(z) = l
  <2>1. /\ Len(z) = Len(p) + Len(e) + Len(q)
        /\ Len(p) = i - 1 /\ Len(e) = n /\ Len(q) = l - (i + n) + 1
    BY <1>2, <1>3, <1>4, <1>5, Zenon
  <2>2. QED
    BY <1>1, <2>1
<1>7. ASSUME NEW k \in 1 .. l PROVE z[k] = b[k]
  <2>1. CASE k < i
    <3>1. k \in 1 .. i - 1
      BY <2>1
    <3>2. z[k] = p[k] /\ p[k] = b[k]
      BY <1>2, <1>5, <3>1, Zenon
    <3>3. QED
      BY <3>2
  <2>2. CASE k >= i /\ k < i + n
    <3>1. k - i + 1 \in 1 .. n /\ (i - 1) + (k - i + 1) = k /\ i + (k - i + 1) - 1 = k
      BY <2>2
    <3>2. QED
      <4> DEFINE j == k - i + 1
      <4>1. j \in 1 .. n /\ i - 1 + j = k /\ i + j - 1 = k
        BY <3>1
      <4> HIDE DEF j
      <4>2. z[i - 1 + j] = e[j] /\ e[j] = b[i + j - 1]
        BY <1>3, <1>5, <4>1
      <4>3. QED
        BY <4>1, <4>2
  <2>3. CASE k >= i + n
    <3>1. k - (i + n) + 1 \in 1 .. l - (i + n) + 1
          /\ (i - 1) + n + (k - (i + n) + 1) = k /\ (i + n) + (k - (i + n) + 1) - 1 = k
      BY <1>1, <2>3
    <3>2. QED
      <4> DEFINE j == k - (i + n) + 1
      <4>1. j \in 1 .. l - (i + n) + 1 /\ i - 1 + n + j = k /\ i + n + j - 1 = k
        BY <1>1, <3>1
      <4> HIDE DEF j
      <4>2. z[i - 1 + n + j] = q[j] /\ q[j] = b[i + n + j - 1]
        BY <1>4, <1>5, <4>1
      <4>3. QED
        BY <4>1, <4>2
  <2>4. QED
    BY <2>1, <2>2, <2>3
<1>8. z = b
  <2>1. \A k \in 1 .. Len(z) : z[k] = b[k]
    BY <1>6, <1>7
  <2>2. Len(z) = Len(b)
    BY <1>6 DEF l
  <2>3. QED
    BY <1>5, <2>1, <2>2, SeqEqual
<1>9. QED
  BY <1>2, <1>3, <1>4, <1>8 DEF IsCut, z, p, e, q, l

\* A length field is read as its number wherever it comes.
LEMMA LengthRead ==
  ASSUME NEW pre \in Seq(Byte), NEW e, NEW n, IsLength(e, n), NEW post \in Seq(Byte),
         NEW b, b = pre \o e \o post
  PROVE  ReadLength(b, Len(pre) + 1) = [len |-> n, used |-> Len(e)]
<1> DEFINE i == Len(pre) + 1
<1>1. /\ Half \in Nat /\ Half >= 8 /\ Half + Half = Base /\ WordBytes \in 1 .. Half - 1
      /\ Base \in Nat
  BY OctetAssumption, TlvAssumption DEF Half
<1>2. e \in Seq(Byte) /\ Len(e) \in Nat \ {0}
  BY LengthIs
<1>3. /\ b \in Seq(Byte) /\ Len(b) = Len(pre) + Len(e) + Len(post)
      /\ \A k \in 1 .. Len(e) : b[Len(pre) + k] = e[k]
  <2>1. Joined(b, Byte, pre, e, post)
    BY <1>2, JoinedIs
  <2>2. QED
    BY <2>1 DEF Joined
<1>4. /\ i \in Nat \ {0} /\ Len(pre) \in Nat /\ Len(post) \in Nat
      /\ i + Len(e) <= Len(b) + 1 /\ Len(b) \in Nat
  BY <1>2, <1>3
<1>5. i <= Len(b) /\ b[i] = e[1]
  <2>1. 1 \in 1 .. Len(e)
    BY <1>2
  <2>2. QED
    BY <1>2, <1>3, <1>4, <2>1
<1>6. CASE n \in 0 .. Half - 1 /\ e = <<n>>
  <2>1. e[1] = n /\ Len(e) = 1 /\ n < Half
    BY <1>1, <1>6
  <2>2. QED
    BY <1>4, <1>5, <2>1 DEF ReadLength
<1>7. CASE \E s \in Seq(Byte) : /\ Len(s) \in 1 .. WordBytes /\ n = Number(s)
                                /\ e = <<Half + Len(s)>> \o s
  <2>1. PICK s \in Seq(Byte) :
          Len(s) \in 1 .. WordBytes /\ n = Number(s) /\ e = <<Half + Len(s)>> \o s
    BY <1>7
  <2> DEFINE w == Len(s)
             x == Half + w
  <2>2. w \in Nat \ {0} /\ w <= WordBytes /\ x \in Byte /\ x - Half = w /\ ~(x < Half)
        /\ x \in Nat
    BY <1>1, <2>1 DEF Byte
  <2>3. Len(e) = w + 1 /\ e[1] = x /\ Slice(e, 2, w) = s
    <3> HIDE DEF x
    <3>1. <<x>> \o s \in Seq(Byte) /\ Len(<<x>> \o s) = Len(s) + 1
          /\ (<<x>> \o s)[1] = x /\ Slice(<<x>> \o s, 2, Len(s)) = s
      BY <2>1, <2>2, OneThen
    <3>2. QED
      BY <2>1, <3>1 DEF x
  <2>4. Slice(b, i + 1, w) = s
    <3> DEFINE j == 2
    <3>1. Len(pre) + j = i + 1 /\ j \in Nat \ {0} /\ w \in Nat /\ j + w <= Len(e) + 1
      BY <1>4, <2>2, <2>3
    <3>2. j = 2
      OBVIOUS
    <3> HIDE DEF j, w
    <3>3. Slice(pre \o e \o post, Len(pre) + j, w) = Slice(e, j, w)
      BY <1>2, <3>1, Inside
    <3>4. QED
      BY <2>3, <3>1, <3>2, <3>3
  <2>5. ~(i + w > Len(b))
    <3> HIDE DEF w
    <3>1. QED
      BY <1>4, <2>2, <2>3
  <2>6. b[i] = x
    BY <1>5, <2>3
  <2> HIDE DEF w, x, i
  <2>7. ReadLength(b, i) = [len |-> Number(Slice(b, i + 1, w)), used |-> 1 + w]
    <3>1. b[i] - Half = w /\ ~(i > Len(b)) /\ ~(b[i] < Half) /\ ~(w = 0)
          /\ ~(w > WordBytes)
      BY <1>1, <1>4, <1>5, <2>2, <2>6
    <3>2. QED
      BY <2>5, <3>1 DEF ReadLength
  <2>8. 1 + w = Len(e)
    BY <2>2, <2>3
  <2>9. QED
    BY <2>1, <2>4, <2>7, <2>8 DEF i
<1>8. QED
  BY <1>6, <1>7 DEF IsLength

\* Where a length is read, there is a length field.
LEMMA LengthFound ==
  ASSUME NEW b \in Seq(Byte), NEW i \in Nat \ {0}, ReadLength(b, i).used # 0
  PROVE  LET l == ReadLength(b, i)
         IN  /\ l.used \in Nat \ {0} /\ l.len \in Nat
             /\ i + l.used <= Len(b) + 1
             /\ IsLength(Slice(b, i, l.used), l.len)
<1> DEFINE l == ReadLength(b, i)
           w == b[i] - Half
<1>1. /\ Half \in Nat /\ Half >= 8 /\ Half + Half = Base /\ WordBytes \in 1 .. Half - 1
      /\ Base \in Nat /\ Len(b) \in Nat
  BY OctetAssumption, TlvAssumption DEF Half
<1>2. i <= Len(b)
  <2>1. SUFFICES ASSUME ~(i <= Len(b)) PROVE FALSE
    OBVIOUS
  <2>2. i > Len(b)
    BY <1>1, <2>1
  <2>3. l.used = 0
    BY <2>2 DEF ReadLength
  <2>4. QED
    BY <2>3
<1>3. b[i] \in Byte /\ b[i] \in Nat /\ b[i] < Base
  <2>1. b[i] \in Byte
    BY <1>1, <1>2
  <2>2. QED
    BY <1>1, <2>1 DEF Byte
<1>4. CASE b[i] < Half
  <2> DEFINE e == Slice(b, i, 1)
  <2>1. l = [len |-> b[i], used |-> 1]
    BY <1>1, <1>2, <1>4 DEF ReadLength
  <2>2. e \in Seq(Byte) /\ Len(e) = 1 /\ e[1] = b[i]
    <3> DEFINE o == 1
    <3>1. o \in Nat /\ i + o <= Len(b) + 1 /\ o = 1
      BY <1>1, <1>2
    <3> HIDE DEF o
    <3>2. Slice(b, i, o) \in Seq(Byte) /\ Len(Slice(b, i, o)) = o
          /\ \A k \in 1 .. o : Slice(b, i, o)[k] = b[i + k - 1]
      <4>1. IsSlice(Slice(b, i, o), Byte, b, i, o)
        BY <3>1, SlicedIs
      <4>2. QED
        BY <4>1, Zenon DEF IsSlice
    <3>3. 1 \in 1 .. o /\ i + 1 - 1 = i
      BY <3>1
    <3>4. QED
      BY <3>1, <3>2, <3>3
  <2> HIDE DEF e
  <2>3. e = <<b[i]>>
    BY <2>2
  <2>4. IsLength(e, b[i])
    <3>1. b[i] \in 0 .. Half - 1
      BY <1>1, <1>3, <1>4
    <3>2. QED
      BY <2>3, <3>1 DEF IsLength
  <2>5. QED
    BY <1>1, <1>2, <1>3, <2>1, <2>4 DEF e
<1>5. CASE ~(b[i] < Half)
  <2>1. ~(w = 0 \/ w > WordBytes \/ i + w > Len(b))
    <3>1. SUFFICES ASSUME w = 0 \/ w > WordBytes \/ i + w > Len(b) PROVE FALSE
      OBVIOUS
    <3>2. l.used = 0
      BY <1>1, <1>2, <1>5, <3>1 DEF ReadLength
    <3>3. QED
      BY <3>2
  <2>2. l = [len |-> Number(Slice(b, i + 1, w)), used |-> 1 + w]
    BY <1>1, <1>2, <1>5, <2>1 DEF ReadLength
  <2>3. w \in Nat \ {0} /\ w <= WordBytes /\ i + w <= Len(b) /\ Half + w = b[i]
    BY <1>1, <1>3, <1>5, <2>1
  <2> HIDE DEF w
  <2> DEFINE s == Slice(b, i + 1, w)
             e == Slice(b, i, 1 + w)
  <2>4. s \in Seq(Byte) /\ Len(s) = w /\ \A k \in 1 .. w : s[k] = b[(i + 1) + k - 1]
    <3> DEFINE j == i + 1
    <3>1. j \in Nat \ {0} /\ w \in Nat /\ j + w <= Len(b) + 1
      BY <1>1, <2>3
    <3> HIDE DEF j
    <3>2. Slice(b, j, w) \in Seq(Byte) /\ Len(Slice(b, j, w)) = w
          /\ \A k \in 1 .. w : Slice(b, j, w)[k] = b[j + k - 1]
      BY <3>1, SliceIs
    <3>3. QED
      BY <3>2 DEF j
  <2>5. e \in Seq(Byte) /\ Len(e) = 1 + w /\ \A k \in 1 .. 1 + w : e[k] = b[i + k - 1]
    <3> DEFINE v == 1 + w
    <3>1. v \in Nat /\ i + v <= Len(b) + 1
      BY <1>1, <2>3
    <3> HIDE DEF v
    <3>2. Slice(b, i, v) \in Seq(Byte) /\ Len(Slice(b, i, v)) = v
          /\ \A k \in 1 .. v : Slice(b, i, v)[k] = b[i + k - 1]
      BY <3>1, SliceIs
    <3>3. QED
      BY <3>2 DEF v
  <2> HIDE DEF s, e
  <2> DEFINE x == b[i]
             z == <<x>> \o s
  <2>6. x \in Byte /\ x = Half + w
    BY <1>3, <2>3
  <2> HIDE DEF x
  <2>7. z \in Seq(Byte) /\ Len(z) = w + 1 /\ z[1] = x
        /\ \A k \in 1 .. w : z[k + 1] = s[k]
    BY <2>4, <2>6, OneThen
  <2> HIDE DEF z
  <2>8. e = z
    <3>1. Len(e) = Len(z)
      BY <2>3, <2>5, <2>7
    <3>2. ASSUME NEW k \in 1 .. Len(e) PROVE e[k] = z[k]
      <4>1. CASE k = 1
        <5>1. 1 \in 1 .. 1 + w /\ i + 1 - 1 = i
          BY <2>3
        <5>2. QED
          BY <2>5, <2>7, <4>1, <5>1 DEF x
      <4>2. CASE k # 1
        <5>1. k - 1 \in 1 .. w /\ (k - 1) + 1 = k /\ (i + 1) + (k - 1) - 1 = i + k - 1
              /\ k \in 1 .. 1 + w
          BY <2>3, <2>5, <4>2
        <5>2. e[k] = b[i + k - 1] /\ z[k] = s[k - 1] /\ s[k - 1] = b[i + k - 1]
          BY <2>4, <2>5, <2>7, <5>1
        <5>3. QED
          BY <5>2
      <4>3. QED
        BY <4>1, <4>2
    <3>3. QED
      BY <2>5, <2>7, <3>1, <3>2, SeqEqual
  <2>9. e = <<Half + Len(s)>> \o s /\ Len(s) \in 1 .. WordBytes
    BY <1>1, <2>3, <2>4, <2>6, <2>8 DEF z
  <2>10. IsLength(e, Number(s))
    BY <2>4, <2>9 DEF IsLength
  <2>11. l.used = 1 + w /\ l.len = Number(s)
    BY <2>2 DEF s
  <2>12. Number(s) \in Nat
    BY <2>4, NumberFits
  <2> HIDE DEF l
  <2>13. l.used \in Nat \ {0} /\ l.len \in Nat /\ i + l.used <= Len(b) + 1
    BY <1>1, <2>3, <2>11, <2>12
  <2>14. Slice(b, i, l.used) = e
    BY <2>11 DEF e
  <2>15. QED
    BY <2>10, <2>11, <2>13, <2>14 DEF l
<1>6. QED
  BY <1>4, <1>5

-----------------------------------------------------------------------------
\* A tag: one byte, or a first one that says more follow, of which the last alone
\* has no top bit.
IsTag(t) ==
  /\ t \in Seq(Byte) /\ t # <<>>
  /\ IF t[1] % TagMod # TagMod - 1 THEN Len(t) = 1
     ELSE /\ Len(t) >= 2 /\ t[Len(t)] < Half
          /\ \A k \in 2 .. Len(t) - 1 : ~(t[k] < Half)

\* It is read as long as it is wherever it comes.
LEMMA TagRead ==
  ASSUME NEW pre \in Seq(Byte), NEW t, IsTag(t), NEW post \in Seq(Byte),
         NEW b, b = pre \o t \o post
  PROVE  ReadTag(b, Len(pre) + 1) = Len(t)
<1> DEFINE i == Len(pre) + 1
           n == Len(t)
<1>1. t \in Seq(Byte) /\ n \in Nat \ {0}
  BY DEF IsTag
<1>2. /\ b \in Seq(Byte) /\ Len(b) = Len(pre) + n + Len(post)
      /\ \A k \in 1 .. n : b[Len(pre) + k] = t[k]
  <2>1. Joined(b, Byte, pre, t, post)
    BY <1>1, JoinedIs
  <2>2. QED
    BY <2>1 DEF Joined
<1>3. /\ Len(pre) \in Nat /\ Len(post) \in Nat /\ Len(b) \in Nat /\ i \in Nat \ {0}
      /\ i + n - 1 <= Len(b) /\ i <= Len(b)
  BY <1>1, <1>2
<1>4. b[i] = t[1]
  <2>1. 1 \in 1 .. n
    BY <1>1
  <2>2. QED
    BY <1>2, <2>1
<1>5. CASE t[1] % TagMod # TagMod - 1
  <2>1. n = 1
    BY <1>5 DEF IsTag
  <2>2. QED
    BY <1>3, <1>4, <1>5, <2>1 DEF ReadTag
<1>6. CASE ~(t[1] % TagMod # TagMod - 1)
  <2> DEFINE ends == {j \in i + 1 .. Len(b) : b[j] < Half}
             z == i + n - 1
             First(j) == j \in ends /\ \A k \in ends : j <= k
             y == CHOOSE j \in ends : \A k \in ends : j <= k
  <2>1. n >= 2 /\ t[n] < Half /\ \A k \in 2 .. n - 1 : ~(t[k] < Half)
    BY <1>6 DEF IsTag
  <2>2. b[z] < Half /\ z \in i + 1 .. Len(b)
    <3>1. n \in 1 .. n /\ Len(pre) + n = z
      BY <1>1, <1>3
    <3>2. b[z] = t[n]
      BY <1>2, <3>1
    <3>3. QED
      BY <1>1, <1>3, <2>1, <3>2
  <2>3. ASSUME NEW k \in ends PROVE z <= k
    <3>1. SUFFICES ASSUME ~(z <= k) PROVE FALSE
      OBVIOUS
    <3> DEFINE m == k - Len(pre)
    <3>2. m \in 2 .. n - 1 /\ m \in 1 .. n /\ Len(pre) + m = k
      BY <1>1, <1>3, <2>3, <3>1
    <3>3. b[k] = t[m]
      BY <1>2, <3>2
    <3>4. ~(b[k] < Half)
      BY <2>1, <3>2, <3>3
    <3>5. QED
      BY <2>3, <3>4
  <2>4. First(z)
    BY <2>2, <2>3
  <2>5. First(y)
    BY <2>4
  <2> HIDE DEF y
  <2>6. y = z
    <3>1. y <= z /\ z <= y
      BY <2>2, <2>3, <2>5
    <3>2. z \in Int /\ y \in Int
      <4>1. y \in i + 1 .. Len(b)
        BY <2>5
      <4>2. QED
        BY <1>3, <2>2, <4>1
    <3> HIDE DEF z
    <3>3. QED
      BY <3>1, <3>2
  <2>7. ReadTag(b, i) = y - i + 1
    <3>1. ends # {} /\ ~(i > Len(b)) /\ ~(b[i] % TagMod # TagMod - 1)
      <4>1. ends # {}
        BY <2>2
      <4>2. QED
        BY <1>3, <1>4, <1>6, <4>1
    <3>2. QED
      BY <3>1 DEF ReadTag, y
  <2>8. z - i + 1 = n
    BY <1>1, <1>3
  <2>9. QED
    BY <2>6, <2>7, <2>8
<1>7. QED
  BY <1>5, <1>6

\* Where a tag is read, there is one.
LEMMA TagFound ==
  ASSUME NEW b \in Seq(Byte), NEW i \in Nat \ {0}, ReadTag(b, i) # 0
  PROVE  /\ ReadTag(b, i) \in Nat \ {0}
         /\ i + ReadTag(b, i) <= Len(b) + 1
         /\ IsTag(Slice(b, i, ReadTag(b, i)))
<1> DEFINE n == ReadTag(b, i)
           t == Slice(b, i, n)
           ends == {j \in i + 1 .. Len(b) : b[j] < Half}
           First(j) == j \in ends /\ \A k \in ends : j <= k
           y == CHOOSE j \in ends : \A k \in ends : j <= k
<1>1. Len(b) \in Nat /\ i <= Len(b)
  BY DEF ReadTag
<1>2. \/ b[i] % TagMod # TagMod - 1 /\ n = 1
      \/ ~(b[i] % TagMod # TagMod - 1) /\ ends # {} /\ n = y - i + 1
  BY <1>1 DEF ReadTag
<1>3. ends # {} => First(y)
  <2>1. SUFFICES ASSUME ends # {} PROVE First(y)
    OBVIOUS
  <2>2. ends \subseteq Nat
    OBVIOUS
  <2>3. \E j \in ends : \A k \in ends : j <= k
    <3> HIDE DEF ends
    <3>1. QED
      BY <2>1, <2>2, LeastOf
  <2>4. QED
    BY <2>3
<1> HIDE DEF n, y
<1>4. n \in Nat \ {0} /\ i + n <= Len(b) + 1
  BY <1>1, <1>2, <1>3
<1>5. t \in Seq(Byte) /\ Len(t) = n /\ \A k \in 1 .. n : t[k] = b[i + k - 1]
  <2>1. IsSlice(t, Byte, b, i, n)
    BY <1>4, SlicedIs
  <2>2. QED
    BY <2>1, Zenon DEF IsSlice
<1> HIDE DEF t
<1>6. t[1] = b[i] /\ t # <<>>
  <2>1. 1 \in 1 .. n /\ i + 1 - 1 = i
    BY <1>4
  <2>2. QED
    BY <1>4, <1>5, <2>1
<1>7. IsTag(t)
  <2>1. CASE b[i] % TagMod # TagMod - 1 /\ n = 1
    BY <1>5, <1>6, <2>1 DEF IsTag
  <2>2. CASE ~(b[i] % TagMod # TagMod - 1) /\ ends # {} /\ n = y - i + 1
    <3>1. First(y)
      BY <1>3, <2>2
    <3>2. y \in i + 1 .. Len(b) /\ b[y] < Half /\ \A k \in ends : y <= k
      BY <3>1
    <3>3. n >= 2 /\ i + n - 1 = y
      BY <1>4, <2>2, <3>2
    <3>4. t[n] = b[y]
      <4>1. n \in 1 .. n
        BY <1>4
      <4>2. QED
        BY <1>5, <3>3, <4>1
    <3>5. ASSUME NEW k \in 2 .. n - 1 PROVE ~(t[k] < Half)
      <4>1. k \in 1 .. n /\ i + k - 1 \in i + 1 .. Len(b) /\ ~(y <= i + k - 1)
        BY <1>1, <1>4, <3>2, <3>3, <3>5
      <4>2. t[k] = b[i + k - 1]
        BY <1>5, <4>1
      <4>3. i + k - 1 \notin ends
        BY <3>2, <4>1
      <4>4. QED
        BY <4>1, <4>2, <4>3
    <3>6. QED
      BY <1>5, <1>6, <2>2, <3>2, <3>3, <3>4, <3>5 DEF IsTag
  <2>3. QED
    BY <1>2, <2>1, <2>2
<1>8. QED
  BY <1>4, <1>7 DEF t, n

-----------------------------------------------------------------------------
\* A part of a string is its two parts one after the other.
LEMMA SliceParts ==
  ASSUME NEW S, NEW b \in Seq(S), NEW i \in Nat \ {0}, NEW m \in Nat, NEW n \in Nat,
         i + m + n <= Len(b) + 1
  PROVE  Slice(b, i, m + n) = Slice(b, i, m) \o Slice(b, i + m, n)
<1> DEFINE l == Len(b)
<1>1. l \in Nat
  OBVIOUS
<1> HIDE DEF l
<1>2. i \in 1 .. l + 1 /\ i + m - 1 \in i - 1 .. l /\ i + (m + n) - 1 \in i + m - 1 .. l
      /\ (i + m) + n - 1 = i + (m + n) - 1 /\ (i + m - 1) + 1 = i + m
  BY <1>1 DEF l
<1>3. SubSeq(b, i, i + m - 1) \o SubSeq(b, (i + m - 1) + 1, i + (m + n) - 1)
        = SubSeq(b, i, i + (m + n) - 1)
  <2> DEFINE k == i + m - 1
             j == i + (m + n) - 1
  <2>1. i \in 1 .. l + 1 /\ k \in i - 1 .. l /\ j \in k .. l
    BY <1>2
  <2> HIDE DEF k, j
  <2>2. i \in 1 .. Len(b) + 1 /\ k \in i - 1 .. Len(b) /\ j \in k .. Len(b)
    BY <2>1 DEF l
  <2>3. SubSeq(b, i, k) \o SubSeq(b, k + 1, j) = SubSeq(b, i, j)
    BY <2>2, ConcatAdjacentSubSeq
  <2>4. QED
    BY <2>3 DEF k, j
<1>4. QED
  BY <1>2, <1>3 DEF Slice

\* Concatenation is associative.
Assoc(x, y, z) == (x \o y) \o z = x \o (y \o z)

LEMMA AssocIs ==
  ASSUME NEW S, NEW x \in Seq(S), NEW y \in Seq(S), NEW z \in Seq(S)
  PROVE  Assoc(x, y, z)
  BY ConcatAssociative DEF Assoc

\* Of five strings one after the other in b, the middle three in e.
FiveParts(b, e, S, pre, t, f, v, post) ==
  /\ b = pre \o t \o (f \o v \o post) /\ b = (pre \o t) \o f \o (v \o post)
  /\ f \o v \o post \in Seq(S) /\ v \o post \in Seq(S)
  /\ pre \o t \in Seq(S) /\ Len(pre \o t) = Len(pre) + Len(t)
  /\ e \in Seq(S) /\ Len(e) = Len(t) + Len(f) + Len(v)
  /\ Slice(e, Len(t) + Len(f) + 1, Len(v)) = v
  /\ Slice(e, 1, Len(t)) = t

\* So they are when they are concatenated.
LEMMA FivePartsAre ==
  ASSUME NEW S, NEW pre \in Seq(S), NEW t \in Seq(S), NEW f \in Seq(S), NEW v \in Seq(S),
         NEW post \in Seq(S), NEW e, e = t \o f \o v, NEW b, b = pre \o e \o post
  PROVE  FiveParts(b, e, S, pre, t, f, v, post)
<1> DEFINE tf == t \o f
           pt == pre \o t
           vp == v \o post
           fv == f \o v
<1>1. tf \in Seq(S) /\ pt \in Seq(S) /\ vp \in Seq(S) /\ fv \in Seq(S)
  BY ConcatProperties
<1>2. tf \o v \in Seq(S) /\ fv \o post \in Seq(S)
  <2> HIDE DEF tf, fv
  <2>1. QED
    BY <1>1, ConcatProperties
<1>3. (t \o f) \o v = t \o fv /\ (f \o v) \o post = f \o vp /\ (pre \o t) \o f = pre \o tf
  <2>1. Assoc(t, f, v) /\ Assoc(f, v, post) /\ Assoc(pre, t, f)
    BY AssocIs
  <2>2. QED
    BY <2>1 DEF Assoc
<1>4. pt \o f \in Seq(S)
  <2> HIDE DEF pt
  <2>1. QED
    BY <1>1, ConcatProperties
<1> DEFINE q == pt \o f
<1>5. /\ (pre \o tf) \o v = pre \o (tf \o v) /\ pt \o fv = pre \o (t \o fv)
      /\ (pt \o fv) \o post = pt \o (fv \o post)
      /\ (q \o v) \o post = q \o vp
  <2>1. Assoc(pre, tf, v) /\ Assoc(pre, t, fv) /\ Assoc(pt, fv, post) /\ Assoc(q, v, post)
    <3>1. q \in Seq(S)
      BY <1>4
    <3> HIDE DEF tf, fv, pt, q
    <3>2. QED
      BY <1>1, <3>1, AssocIs
  <2>2. QED
    BY <2>1 DEF Assoc
<1>6. Len(pt) = Len(pre) + Len(t)
  BY ConcatProperties
<1>7. /\ Len(tf \o v) = Len(t) + Len(f) + Len(v)
      /\ Slice(tf \o v, Len(t) + Len(f) + 1, Len(v)) = v
  BY Parts
<1>8. Slice(tf \o v, 1, Len(t)) = t
  <2>1. tf \o v = t \o fv
    BY <1>3
  <2> HIDE DEF fv
  <2>2. 1 \in Nat \ {0} /\ Len(t) \in Nat /\ 1 + Len(t) <= Len(t) + 1
    OBVIOUS
  <2>3. Slice(t \o fv, 1, Len(t)) = Slice(t, 1, Len(t)) /\ Slice(t, 1, Len(t)) = t
    <3> DEFINE o == 1
               n == Len(t)
    <3>1. o \in Nat \ {0} /\ n \in Nat /\ o + n <= Len(t) + 1
      BY <2>2
    <3> HIDE DEF o, n
    <3>2. Slice(t \o fv, o, n) = Slice(t, o, n)
      BY <1>1, <3>1, SliceWithin
    <3>3. Slice(t, 1, Len(t)) = t
      BY <3>1, SliceWithin
    <3>4. QED
      BY <3>2, <3>3 DEF o, n
  <2>4. QED
    BY <2>1, <2>3
<1>9. /\ pre \o e \o post = pre \o t \o (f \o v \o post)
      /\ pre \o e \o post = (pre \o t) \o f \o (v \o post)
  BY <1>3, <1>5
<1>10. QED
  BY <1>1, <1>2, <1>6, <1>7, <1>8, <1>9 DEF FiveParts

-----------------------------------------------------------------------------
\* The records of BerTlvMessage, and those that are written so that they can be
\* read: with a tag, and a length that the reader's word holds.
Tlvs == [tag : Seq(Byte), value : Seq(Byte)]
GoodTlvs == {r \in Tlvs : IsTag(r.tag) /\ Fits(Len(r.value), WordBytes)}

\* What is read of a record whose length wraps, and all that is read.
WildTlvs == [tag : Seq(Byte), value : {Wild}]
ReadTlvs == GoodTlvs \cup WildTlvs

\* The bytes of a record, with any length field that is read as its length.
IsTlv(e, r) ==
  \E f : IsLength(f, Len(r.value)) /\ e = r.tag \o f \o r.value

\* Where the length at i is, where the value, where the next record, whether there
\* is none at i, and the record.
BerLength(b, i) == ReadLength(b, i + ReadTag(b, i))
BerValue(b, i)  == i + ReadTag(b, i) + BerLength(b, i).used
BerNext(b, i)   == BerValue(b, i) + BerLength(b, i).len
BerOver(b, i)   ==
  ReadTag(b, i) = 0 \/ BerLength(b, i).used = 0 \/ BerNext(b, i) > Len(b) + 1
BerWraps(b, i) ==
  /\ ReadTag(b, i) # 0 /\ BerLength(b, i).used # 0
  /\ Wraps(BerValue(b, i), BerLength(b, i).len)
BerAt(b, i) ==
  Record(Slice(b, i, ReadTag(b, i)), Slice(b, BerValue(b, i), BerLength(b, i).len))

\* What is read at i if there is none.
BerEnd(b, i) ==
  IF BerWraps(b, i) THEN <<Record(Slice(b, i, ReadTag(b, i)), Wild)>> ELSE <<>>

\* A record that is read at i: what it is, where it ends.
BerReads(b, i, r, next) == ~BerOver(b, i) /\ BerAt(b, i) = r /\ BerNext(b, i) = next

\* A record is read wherever its bytes come.
LEMMA BerTaken ==
  ASSUME NEW pre \in Seq(Byte), NEW e, NEW post \in Seq(Byte), NEW r \in GoodTlvs,
         IsTlv(e, r), NEW b, b = pre \o e \o post
  PROVE  /\ BerReads(b, Len(pre) + 1, r, Len(pre) + Len(e) + 1)
         /\ e \in Seq(Byte) /\ Len(e) \in Nat \ {0}
<1> DEFINE t == r.tag
           v == r.value
           n == Len(v)
           i == Len(pre) + 1
<1>1. t \in Seq(Byte) /\ v \in Seq(Byte) /\ IsTag(t) /\ n \in Nat /\ r = Record(t, v)
  BY DEF GoodTlvs, Tlvs, Record
<1>2. PICK f : IsLength(f, n) /\ e = t \o f \o v
  BY DEF IsTlv
<1> HIDE DEF t, v
<1>3. f \in Seq(Byte) /\ Len(f) \in Nat \ {0} /\ Len(t) \in Nat \ {0}
  <2>1. f \in Seq(Byte) /\ Len(f) \in Nat \ {0}
    BY <1>2, LengthIs
  <2>2. QED
    BY <1>1, <2>1 DEF IsTag
<1>4. /\ b = pre \o t \o (f \o v \o post) /\ b = (pre \o t) \o f \o (v \o post)
      /\ f \o v \o post \in Seq(Byte) /\ v \o post \in Seq(Byte)
      /\ pre \o t \in Seq(Byte) /\ Len(pre \o t) = Len(pre) + Len(t)
      /\ e \in Seq(Byte) /\ Len(e) = Len(t) + Len(f) + n
      /\ Slice(e, Len(t) + Len(f) + 1, n) = v /\ Slice(e, 1, Len(t)) = t
  <2>1. FiveParts(b, e, Byte, pre, t, f, v, post)
    BY <1>1, <1>2, <1>3, FivePartsAre
  <2>2. QED
    BY <2>1 DEF FiveParts
<1>5. ReadTag(b, i) = Len(t)
  <2> DEFINE q == f \o v \o post
  <2>1. q \in Seq(Byte) /\ b = pre \o t \o q
    BY <1>4
  <2> HIDE DEF q
  <2>2. QED
    <3>1. IsTag(t)
      BY <1>1
    <3> DEFINE c == pre \o t \o q
    <3>2. ReadTag(c, Len(pre) + 1) = Len(t)
      BY <2>1, <3>1, TagRead
    <3>3. QED
      BY <2>1, <3>2
<1>6. ReadLength(b, i + Len(t)) = [len |-> n, used |-> Len(f)]
  <2> DEFINE p == pre \o t
             q == v \o post
  <2>1. p \in Seq(Byte) /\ q \in Seq(Byte) /\ b = p \o f \o q /\ Len(p) + 1 = i + Len(t)
    BY <1>4
  <2> HIDE DEF p, q
  <2>2. ReadLength(b, Len(p) + 1) = [len |-> n, used |-> Len(f)]
    <3>1. IsLength(f, n)
      BY <1>2
    <3> DEFINE c == p \o f \o q
    <3>2. ReadLength(c, Len(p) + 1) = [len |-> n, used |-> Len(f)]
      <4> HIDE DEF n
      <4>1. QED
        BY <2>1, <3>1, LengthRead
    <3>3. QED
      BY <2>1, <3>2
  <2>3. QED
    BY <2>1, <2>2
<1>7. /\ \A j \in Nat \ {0}, m \in Nat : j + m <= Len(e) + 1 =>
           Slice(b, Len(pre) + j, m) = Slice(e, j, m)
      /\ Len(b) = Len(pre) + Len(e) + Len(post)
  <2>1. ASSUME NEW j \in Nat \ {0}, NEW m \in Nat, j + m <= Len(e) + 1
        PROVE  Slice(b, Len(pre) + j, m) = Slice(e, j, m)
    <3>1. e \in Seq(Byte)
      BY <1>4
    <3>2. QED
      BY <2>1, <3>1, Inside
  <2>2. Joined(b, Byte, pre, e, post)
    BY <1>4, JoinedIs
  <2>3. QED
    BY <2>1, <2>2 DEF Joined
<1> DEFINE x == Len(t)
           y == Len(f)
           p == Len(pre)
<1>8. x \in Nat \ {0} /\ y \in Nat \ {0} /\ p \in Nat /\ n \in Nat /\ Len(post) \in Nat
      /\ Len(e) = x + y + n
  BY <1>1, <1>3, <1>4
<1>9. Slice(b, p + 1, x) = t /\ Slice(b, p + (x + y + 1), n) = v
  <2>1. Slice(b, p + 1, x) = Slice(e, 1, x)
    <3> DEFINE o == 1
    <3>1. o \in Nat \ {0} /\ x \in Nat /\ o + x <= Len(e) + 1
      BY <1>8
    <3> HIDE DEF o, x, p
    <3>2. Slice(b, Len(pre) + o, x) = Slice(e, o, x)
      BY <1>7, <3>1
    <3>3. QED
      BY <3>2 DEF o, p
  <2>2. Slice(b, p + (x + y + 1), n) = Slice(e, x + y + 1, n)
    <3> DEFINE o == x + y + 1
    <3>1. o \in Nat \ {0} /\ n \in Nat /\ o + n <= Len(e) + 1
      BY <1>8
    <3> HIDE DEF o, n, p
    <3>2. Slice(b, Len(pre) + o, n) = Slice(e, o, n)
      BY <1>7, <3>1
    <3>3. QED
      BY <3>2 DEF o, p
  <2>3. QED
    BY <1>4, <2>1, <2>2
<1>10. /\ BerLength(b, i) = [len |-> n, used |-> y]
       /\ ReadTag(b, i) = x
  BY <1>5, <1>6 DEF BerLength
<1> HIDE DEF x, y, n, p
<1>11. BerValue(b, i) = i + x + y /\ BerNext(b, i) = i + x + y + n
  BY <1>10 DEF BerValue, BerNext
<1>12. p + (x + y + 1) = i + x + y /\ p + 1 = i /\ i + x + y + n = p + Len(e) + 1
       /\ i + x + y + n <= Len(b) + 1 /\ Len(b) \in Nat /\ i \in Nat
  BY <1>7, <1>8 DEF p
<1>13. ~BerOver(b, i)
  BY <1>8, <1>10, <1>11, <1>12 DEF BerOver
<1>14. BerAt(b, i) = Record(t, v)
  BY <1>9, <1>10, <1>11, <1>12 DEF BerAt
<1>15. Len(e) \in Nat \ {0}
  BY <1>8
<1>16. QED
  BY <1>1, <1>4, <1>11, <1>12, <1>13, <1>14, <1>15 DEF BerReads, p

\* What is read at i can be written, is there, and takes some bytes.
LEMMA BerFound ==
  ASSUME NEW b \in Seq(Byte), NEW i \in Nat \ {0}, ~BerOver(b, i)
  PROVE  /\ BerAt(b, i) \in GoodTlvs
         /\ BerNext(b, i) \in i + 1 .. Len(b) + 1
         /\ IsTlv(Slice(b, i, BerNext(b, i) - i), BerAt(b, i))
<1> DEFINE x == ReadTag(b, i)
           l == BerLength(b, i)
           y == l.used
           n == l.len
           t == Slice(b, i, x)
           f == Slice(b, i + x, y)
           v == Slice(b, i + x + y, n)
<1>1. x # 0 /\ y # 0 /\ ~(i + x + y + n > Len(b) + 1)
  BY DEF BerOver, BerValue, BerNext
<1>2. x \in Nat \ {0} /\ i + x <= Len(b) + 1 /\ IsTag(t)
  BY <1>1, TagFound
<1> HIDE DEF x, t
<1>3. y \in Nat \ {0} /\ n \in Nat /\ i + x + y <= Len(b) + 1 /\ IsLength(f, n)
  <2> DEFINE j == i + x
  <2>1. j \in Nat \ {0}
    BY <1>2
  <2>2. l = ReadLength(b, j)
    BY DEF BerLength, x
  <2> HIDE DEF j, l
  <2>3. ReadLength(b, j).used # 0
    BY <1>1, <2>2
  <2>4. LET k == ReadLength(b, j)
        IN  /\ k.used \in Nat \ {0} /\ k.len \in Nat
            /\ j + k.used <= Len(b) + 1 /\ IsLength(Slice(b, j, k.used), k.len)
    BY <2>1, <2>3, LengthFound
  <2>5. QED
    BY <2>2, <2>4 DEF j
<1> HIDE DEF y, n, f, l
<1> DEFINE m == Len(b)
<1>4. m \in Nat /\ i + x + y + n <= m + 1
  <2>1. m \in Nat
    OBVIOUS
  <2>2. QED
    BY <1>1, <1>2, <1>3, <2>1
<1> HIDE DEF m
<1>5. v \in Seq(Byte) /\ Len(v) = n
  <2> DEFINE j == i + x + y
  <2>1. j \in Nat \ {0} /\ j + n <= m + 1
    BY <1>2, <1>3, <1>4
  <2> HIDE DEF j
  <2>2. Slice(b, j, n) \in Seq(Byte) /\ Len(Slice(b, j, n)) = n
    BY <1>3, <2>1, SliceIs DEF m
  <2>3. QED
    BY <2>2 DEF j
<1>6. Slice(b, i, x + y + n) = t \o f \o v
  <2> DEFINE j == x + y
  <2>1. j \in Nat /\ x \in Nat /\ y \in Nat /\ i + j + n <= m + 1 /\ i + x + y <= m + 1
        /\ i + j = i + x + y
    BY <1>2, <1>3, <1>4
  <2>2. Slice(b, i, x + y) = Slice(b, i, x) \o Slice(b, i + x, y)
    BY <2>1, SliceParts DEF m
  <2> HIDE DEF j
  <2>3. Slice(b, i, j + n) = Slice(b, i, j) \o Slice(b, i + j, n)
    BY <1>3, <2>1, SliceParts DEF m
  <2>4. QED
    BY <2>1, <2>2, <2>3 DEF j, t, f
<1> HIDE DEF v
<1>7. BerAt(b, i) = Record(t, v) /\ BerNext(b, i) = i + x + y + n
  BY DEF BerAt, BerNext, BerValue, t, v, x, y, n, l
<1>8. Fits(n, WordBytes)
  BY <1>3, LengthIs
<1>9. Record(t, v) \in GoodTlvs
  <2>1. t \in Seq(Byte)
    BY <1>2 DEF IsTag
  <2>2. QED
    BY <1>2, <1>5, <1>8, <2>1 DEF GoodTlvs, Tlvs, Record
<1>10. IsTlv(t \o f \o v, Record(t, v))
  <2>1. Record(t, v).tag = t /\ Record(t, v).value = v
    BY DEF Record
  <2>2. QED
    BY <1>3, <1>5, <2>1 DEF IsTlv
<1>11. i + x + y + n - i = x + y + n /\ i + x + y + n \in i + 1 .. m + 1
  BY <1>2, <1>3, <1>4
<1>12. BerNext(b, i) - i = x + y + n /\ BerNext(b, i) \in i + 1 .. m + 1
  <2> DEFINE k == i + x + y + n
  <2>1. BerNext(b, i) = k
    BY <1>7
  <2>2. k - i = x + y + n /\ k \in i + 1 .. m + 1
    BY <1>2, <1>3, <1>4, <1>11
  <2> HIDE DEF k
  <2>3. QED
    BY <2>1, <2>2
<1>13. QED
  BY <1>6, <1>7, <1>9, <1>10, <1>12 DEF m

\* The function of from_bytes, position by position.
BerIs(P, b) ==
  /\ P \in [1 .. Len(b) + 1 -> Seq(ReadTlvs)]
  /\ \A i \in 1 .. Len(b) + 1 :
       P[i] = IF BerOver(b, i) THEN BerEnd(b, i) ELSE <<BerAt(b, i)>> \o P[BerNext(b, i)]
  /\ BerParse(b) = P[1]

\* What is read at an end.
LEMMA BerEndIs ==
  ASSUME NEW b \in Seq(Byte), NEW i \in Nat \ {0}
  PROVE  BerEnd(b, i) \in Seq(ReadTlvs)
<1> DEFINE t == Slice(b, i, ReadTag(b, i))
<1>1. CASE BerWraps(b, i)
  <2>1. t \in Seq(Byte)
    <3>1. ReadTag(b, i) # 0
      BY <1>1 DEF BerWraps
    <3>2. IsTag(t)
      BY <3>1, TagFound
    <3>3. QED
      BY <3>2 DEF IsTag
  <2>2. BerEnd(b, i) = <<Record(t, Wild)>>
    BY <1>1 DEF BerEnd
  <2> HIDE DEF t
  <2>3. Record(t, Wild) \in ReadTlvs
    BY <2>1 DEF Record, WildTlvs, ReadTlvs
  <2> DEFINE w == Record(t, Wild)
  <2> HIDE DEF w
  <2>4. <<w>> \in Seq(ReadTlvs)
    BY <2>3 DEF w
  <2>5. QED
    BY <2>2, <2>4 DEF w
<1>2. CASE ~BerWraps(b, i)
  BY <1>2 DEF BerEnd
<1>3. QED
  BY <1>1, <1>2

\* The recursive function of BerParse has its equation at every position.
LEMMA BerIsRead ==
  ASSUME NEW b \in Seq(Byte)
  PROVE  \E P : BerIs(P, b)
<1> DEFINE N == Len(b) + 1
           V == Seq(ReadTlvs)
           R(i) == BerAt(b, i)
           X(i) == BerNext(b, i)
           Is(g) == g = [i \in 1 .. Len(b) + 1 |->
             LET t == ReadTag(b, i)
                 l == ReadLength(b, i + t)
                 v == i + t + l.used
             IN  IF t = 0 \/ l.used = 0 THEN <<>>
                 ELSE IF v + l.len <= Len(b) + 1
                      THEN <<Record(Slice(b, i, t), Slice(b, v, l.len))>> \o g[v + l.len]
                 ELSE IF Wraps(v, l.len) THEN <<Record(Slice(b, i, t), Wild)>>
                 ELSE <<>>]
           Put(i, v) == <<R(i)>> \o v
           End(i) == BerEnd(b, i)
           ends == {i \in 1 .. N : BerOver(b, i)}
           next == [i \in 1 .. N |-> X(i)]
           base == [i \in 1 .. N |-> End(i)]
           step == [i \in 1 .. N |-> [v \in V |-> Put(i, v)]]
           Eqn(g) == \A i \in 1 .. N : g[i] = IF BerOver(b, i) THEN End(i) ELSE Put(i, g[X(i)])
<1>1. N \in Nat /\ Len(b) \in Nat /\ \A i \in 1 .. N : End(i) \in V
  <2>1. N \in Nat /\ Len(b) \in Nat
    OBVIOUS
  <2>2. ASSUME NEW i \in 1 .. N PROVE End(i) \in V
    BY BerEndIs
  <2>3. QED
    BY <2>1, <2>2
<1>2. \A i \in 1 .. N : ~BerOver(b, i) => X(i) \in i + 1 .. N /\ R(i) \in ReadTlvs
  <2> SUFFICES ASSUME NEW i \in 1 .. N, ~BerOver(b, i)
               PROVE  X(i) \in i + 1 .. N /\ R(i) \in ReadTlvs
    OBVIOUS
  <2>1. i \in Nat \ {0}
    OBVIOUS
  <2>2. QED
    BY <2>1, BerFound DEF ReadTlvs
<1>3. ASSUME NEW i \in 1 .. N, i \notin ends
      PROVE  step[i] \in [V -> V] /\ \A v \in V : step[i][v] = Put(i, v)
  <2>1. R(i) \in ReadTlvs
    BY <1>2, <1>3
  <2>2. \A v \in V : Put(i, v) \in V
    <3> SUFFICES ASSUME NEW v \in V PROVE Put(i, v) \in V
      OBVIOUS
    <3> HIDE DEF R
    <3>1. QED
      BY <2>1, OneThen
  <2> HIDE DEF V, Put
  <2>3. QED
    BY <2>2
<1>4. \A i \in 1 .. N : base[i] = End(i) /\ next[i] = X(i) /\ (i \in ends <=> BerOver(b, i))
  OBVIOUS
<1>5. \A g : Is(g) <=> g = [i \in 1 .. N |-> g[i]] /\ Eqn(g)
  <2> DEFINE B(g, i) ==
               LET t == ReadTag(b, i)
                   l == ReadLength(b, i + t)
                   v == i + t + l.used
               IN  IF t = 0 \/ l.used = 0 THEN <<>>
                   ELSE IF v + l.len <= Len(b) + 1
                        THEN <<Record(Slice(b, i, t), Slice(b, v, l.len))>> \o g[v + l.len]
                   ELSE IF Wraps(v, l.len) THEN <<Record(Slice(b, i, t), Wild)>>
                   ELSE <<>>
             C(g, i) == IF BerOver(b, i) THEN End(i) ELSE Put(i, g[X(i)])
  <2>1. ASSUME NEW g, NEW i \in 1 .. N PROVE B(g, i) = C(g, i)
    <3> DEFINE t == ReadTag(b, i)
               l == ReadLength(b, i + t)
               v == i + t + l.used
               w == v + l.len
               one == <<Record(Slice(b, i, t), Slice(b, v, l.len))>> \o g[w]
               wild == <<Record(Slice(b, i, t), Wild)>>
    <3>1. /\ BerOver(b, i) <=> t = 0 \/ l.used = 0 \/ w > Len(b) + 1
          /\ BerWraps(b, i) <=> t # 0 /\ l.used # 0 /\ Wraps(v, l.len)
          /\ Put(i, g[X(i)]) = one
          /\ End(i) = IF BerWraps(b, i) THEN wild ELSE <<>>
      BY DEF BerOver, BerWraps, BerEnd, BerNext, BerValue, BerLength, BerAt
    <3>2. B(g, i) = IF t = 0 \/ l.used = 0 THEN <<>>
                    ELSE IF w <= Len(b) + 1 THEN one
                    ELSE IF Wraps(v, l.len) THEN wild ELSE <<>>
      OBVIOUS
    <3>3. C(g, i) = IF BerOver(b, i) THEN End(i) ELSE Put(i, g[X(i)])
      OBVIOUS
    <3>4. t # 0 /\ l.used # 0 => (w <= Len(b) + 1 <=> ~(w > Len(b) + 1))
      <4> SUFFICES ASSUME t # 0, l.used # 0 PROVE w <= Len(b) + 1 <=> ~(w > Len(b) + 1)
        OBVIOUS
      <4>1. i \in Nat \ {0}
        BY <1>1
      <4>2. t \in Nat \ {0}
        BY <4>1, TagFound
      <4> DEFINE j == i + t
      <4>3. j \in Nat \ {0}
        BY <4>1, <4>2
      <4>4. l = ReadLength(b, j)
        OBVIOUS
      <4> HIDE DEF j, l
      <4>5. LET k == ReadLength(b, j) IN k.used \in Nat /\ k.len \in Nat
        BY <4>3, <4>4, LengthFound
      <4>6. l.used \in Nat /\ l.len \in Nat
        BY <4>4, <4>5
      <4> HIDE DEF t
      <4>7. w \in Nat
        BY <4>1, <4>2, <4>6
      <4> HIDE DEF w
      <4>8. QED
        BY <1>1, <4>7
    <3> HIDE DEF B, C, End, Put, X, one, wild, w, v, t, l
    <3>5. QED
      BY <3>1, <3>2, <3>3, <3>4
  <2>2. \A g : Is(g) <=> g = [i \in 1 .. N |-> B(g, i)]
    OBVIOUS
  <2>3. \A g : Eqn(g) <=> \A i \in 1 .. N : g[i] = C(g, i)
    OBVIOUS
  <2> HIDE DEF Is, Eqn, B, C, N
  <2>4. QED
    BY <2>1, <2>2, <2>3
<1> HIDE DEF Is, ends, next, base, step, V, R, X, End
<1>6. AreParts(ends, next, base, step, N, V)
  <2>1. base = [i \in 1 .. N |-> base[i]]
    BY DEF base
  <2>2. base \in [1 .. N -> V]
    BY <1>1, <1>4, <2>1
  <2>3. QED
    BY <1>2, <1>3, <1>4, <2>2 DEF AreParts
<1>7. PICK f : Parses(f, ends, next, base, step, N, V)
  <2> HIDE DEF N
  <2>1. QED
    BY <1>1, <1>6, Parser
<1>8. Is(f)
  <2>1. f \in [1 .. N -> V] /\ \A i \in 1 .. N :
          f[i] = IF i \in ends THEN base[i] ELSE step[i][f[next[i]]]
    BY <1>7 DEF Parses
  <2>2. ASSUME NEW i \in 1 .. N, i \notin ends
        PROVE  f[i] = Put(i, f[X(i)])
    <3>1. X(i) \in 1 .. N /\ next[i] = X(i)
      <4>1. ~BerOver(b, i) /\ next[i] = X(i)
        BY <1>4, <2>2
      <4>2. X(i) \in i + 1 .. N
        BY <1>2, <4>1
      <4> DEFINE x == X(i)
      <4> HIDE DEF x, N
      <4>3. x \in i + 1 .. N
        BY <4>2 DEF x
      <4>4. x \in 1 .. N
        BY <1>1, <4>3
      <4>5. QED
        BY <4>1, <4>4 DEF x
    <3>2. f[X(i)] \in V
      BY <2>1, <3>1
    <3>3. step[i][f[X(i)]] = Put(i, f[X(i)])
      BY <1>3, <2>2, <3>2
    <3>4. QED
      BY <2>1, <2>2, <3>1, <3>3
  <2>3. Eqn(f)
    <3> HIDE DEF Put
    <3>1. QED
      BY <1>4, <2>1, <2>2
  <2>4. f = [i \in 1 .. N |-> f[i]]
    BY <2>1
  <2> HIDE DEF Eqn
  <2>5. QED
    BY <1>5, <2>3, <2>4
<1> DEFINE P == CHOOSE g : Is(g)
<1>9. Is(P)
  BY <1>8
<1>10. BerParse(b) = P[1]
  BY Zenon DEF BerParse, Is
<1> HIDE DEF P
<1>11. P = [i \in 1 .. N |-> P[i]] /\ Eqn(P)
  <2> HIDE DEF Eqn
  <2>1. QED
    BY <1>5, <1>9
<1>12. Satisfies(P, ends, next, base, step, N, V)
  <2>1. ASSUME NEW i \in 1 .. N
        PROVE  \/ i \in ends /\ P[i] = base[i]
               \/ i \notin ends /\ (P[next[i]] \in V => P[i] = step[i][P[next[i]]])
    <3>1. CASE i \in ends
      BY <1>4, <1>11, <3>1
    <3>2. CASE i \notin ends
      <4> HIDE DEF Put
      <4>1. P[i] = Put(i, P[X(i)])
        BY <1>4, <1>11, <3>2
      <4>2. next[i] = X(i) /\ \A v \in V : step[i][v] = Put(i, v)
        BY <1>3, <1>4, <3>2
      <4>3. QED
        BY <3>2, <4>1, <4>2
    <3>3. QED
      BY <3>1, <3>2
  <2>2. QED
    BY <1>11, <2>1 DEF Satisfies
<1>13. P \in [1 .. N -> V]
  <2>1. Parses(P, ends, next, base, step, N, V)
    <3> HIDE DEF N
    <3>1. QED
      BY <1>1, <1>6, <1>12, TheParser
  <2>2. QED
    BY <2>1 DEF Parses
<1>14. BerIs(P, b)
  BY <1>10, <1>11, <1>13 DEF BerIs, V, R, X, End
<1>15. QED
  BY <1>14

\* The bytes of a record as BerTlvMessage writes it.
BerCodes == [r \in GoodTlvs |-> r.tag \o WriteLength(Len(r.value)) \o r.value]

\* They are a record's bytes.
LEMMA BerCodesAre ==
  /\ Encodes(BerCodes, GoodTlvs, Byte)
  /\ \A r \in GoodTlvs : IsTlv(BerCodes[r], r)
<1>1. ASSUME NEW r \in GoodTlvs PROVE IsTlv(BerCodes[r], r) /\ BerCodes[r] \in Seq(Byte)
  <2>1. Len(r.value) \in Nat /\ Fits(Len(r.value), WordBytes)
    BY DEF GoodTlvs, Tlvs
  <2>2. IsLength(WriteLength(Len(r.value)), Len(r.value))
    BY <2>1, LengthWritten
  <2>3. BerCodes[r] = r.tag \o WriteLength(Len(r.value)) \o r.value
    BY DEF BerCodes
  <2>4. IsTlv(BerCodes[r], r)
    BY <2>2, <2>3 DEF IsTlv
  <2> DEFINE e == BerCodes[r]
             nil == <<>>
  <2>5. e \in Seq(Byte)
    <3>1. IsTlv(e, r) /\ nil \in Seq(Byte)
      BY <2>4
    <3> HIDE DEF e, nil
    <3>2. QED
      BY <3>1, BerTaken
  <2>6. QED
    BY <2>4, <2>5
<1>2. BerCodes \in [GoodTlvs -> Seq(Byte)]
  <2>1. BerCodes = [r \in GoodTlvs |-> BerCodes[r]]
    BY DEF BerCodes
  <2>2. QED
    BY <1>1, <2>1
<1>3. QED
  BY <1>1, <1>2 DEF Encodes

\* to_bytes puts them one after the other.
LEMMA BerPackIs ==
  ASSUME NEW rs \in Seq(GoodTlvs)
  PROVE  BerPack(rs) = Packs(BerCodes, rs)
<1>1. \A k \in DOMAIN rs : rs[k] \in GoodTlvs
  OBVIOUS
<1>2. [k \in DOMAIN rs |-> BerCodes[rs[k]]]
        = [k \in DOMAIN rs |-> rs[k].tag \o WriteLength(Len(rs[k].value)) \o rs[k].value]
  BY <1>1 DEF BerCodes
<1>3. QED
  BY <1>2 DEF BerPack, Packs, CodesOf

\* Records that can be written are read back.
LEMMA BerRoundTrip ==
  ASSUME NEW rs \in Seq(GoodTlvs)
  PROVE  BerParse(BerPack(rs)) = rs
<1> DEFINE b == BerPack(rs)
<1>1. b = Packs(BerCodes, rs) /\ b \in Seq(Byte)
  BY BerPackIs, BerCodesAre, PacksIs
<1> HIDE DEF b
<1>2. PICK P : BerIs(P, b)
  BY <1>1, BerIsRead
<1> DEFINE f == [i \in 1 .. Len(b) + 1 |-> Done(P[i])]
<1>3. /\ \A i \in 1 .. Len(b) + 1 :
           P[i] = IF BerOver(b, i) THEN BerEnd(b, i) ELSE <<BerAt(b, i)>> \o P[BerNext(b, i)]
      /\ BerParse(b) = P[1]
  BY <1>2 DEF BerIs
<1>4. Len(b) \in Nat /\ \A i \in 1 .. Len(b) + 1 : f[i] = Done(P[i])
  BY <1>1
<1>5. f[Len(b) + 1] = Done(<<>>)
  <2>1. Len(b) + 1 \in 1 .. Len(b) + 1 /\ Len(b) + 1 > Len(b)
    BY <1>4
  <2>2. BerOver(b, Len(b) + 1) /\ BerEnd(b, Len(b) + 1) = <<>>
    BY <2>1 DEF BerOver, BerEnd, BerWraps, ReadTag
  <2>3. P[Len(b) + 1] = <<>>
    BY <1>3, <2>1, <2>2
  <2>4. QED
    BY <1>4, <2>1, <2>3
<1>6. ASSUME NEW pre \in Seq(Byte), NEW post \in Seq(Byte), NEW r \in GoodTlvs,
             b = pre \o BerCodes[r] \o post
      PROVE  f[Len(pre) + 1] = Then(r, f[Len(pre) + Len(BerCodes[r]) + 1])
  <2> DEFINE e == BerCodes[r]
             i == Len(pre) + 1
             j == Len(pre) + Len(e) + 1
  <2>1. IsTlv(e, r) /\ b = pre \o e \o post
    BY <1>6, BerCodesAre
  <2> HIDE DEF e
  <2>2. BerReads(b, i, r, j) /\ e \in Seq(Byte) /\ Len(e) \in Nat \ {0}
    BY <2>1, BerTaken
  <2>3. i \in 1 .. Len(b) + 1 /\ j \in 1 .. Len(b) + 1
    <3>1. Joined(b, Byte, pre, e, post)
      BY <2>1, <2>2, JoinedIs
    <3>2. Len(b) = Len(pre) + Len(e) + Len(post) /\ Len(pre) \in Nat /\ Len(post) \in Nat
      BY <3>1 DEF Joined
    <3>3. QED
      BY <2>2, <3>2
  <2> HIDE DEF i, j, f
  <2>4. P[i] = <<r>> \o P[j]
    BY <1>3, <2>2, <2>3 DEF BerReads
  <2> DEFINE u == P[j]
  <2>5. f[i] = Done(<<r>> \o u) /\ f[j] = Done(u)
    BY <1>4, <2>3, <2>4
  <2> HIDE DEF u
  <2>6. f[i] = Then(r, f[j])
    BY <2>5, ThenDone
  <2>7. QED
    BY <2>6 DEF i, j, e
<1> HIDE DEF f
<1>7. Reads(f, BerCodes, b, GoodTlvs, Byte)
  BY <1>5, <1>6 DEF Reads
<1>8. f[1] = Done(rs)
  <2>1. Encodes(BerCodes, GoodTlvs, Byte)
    BY BerCodesAre
  <2>2. Reads(f, BerCodes, Packs(BerCodes, rs), GoodTlvs, Byte)
    BY <1>1, <1>7
  <2>3. QED
    BY <2>1, <2>2, Unpacked
<1>9. P[1] = rs
  <2>1. 1 \in 1 .. Len(b) + 1
    BY <1>4
  <2>2. Done(P[1]) = Done(rs)
    BY <1>4, <1>8, <2>1
  <2>3. QED
    BY <2>2 DEF Done
<1>10. QED
  BY <1>3, <1>9 DEF b

\* What is read without a length that wraps can be written.
LEMMA DefinedGood ==
  ASSUME NEW rs \in Seq(ReadTlvs), Defined(rs)
  PROVE  rs \in Seq(GoodTlvs)
<1>1. ASSUME NEW k \in 1 .. Len(rs) PROVE rs[k] \in GoodTlvs
  <2>1. rs[k] \in ReadTlvs /\ rs[k].value # Wild
    BY DEF Defined
  <2>2. QED
    BY <2>1 DEF ReadTlvs, WildTlvs
<1>2. QED
  BY <1>1

LEMMA BerKept ==
  ASSUME NEW b \in Seq(Byte), Defined(BerParse(b))
  PROVE  BerParse(b) \in Seq(GoodTlvs)
<1>1. PICK P : BerIs(P, b)
  BY BerIsRead
<1>2. 1 \in 1 .. Len(b) + 1
  OBVIOUS
<1>3. BerParse(b) \in Seq(ReadTlvs)
  BY <1>1, <1>2 DEF BerIs
<1>4. QED
  BY <1>3, DefinedGood

\* One record before a prefix of others.
LEMMA PrefixThen ==
  ASSUME NEW X, NEW x \in X, NEW s \in Seq(X), NEW t \in Seq(X), IsPrefix(s, t)
  PROVE  IsPrefix(<<x>> \o s, <<x>> \o t)
<1> DEFINE u == <<x>> \o s
           v == <<x>> \o t
           n == Len(s)
<1>1. n \in Nat /\ n <= Len(t) /\ SubSeq(s, 1, n) = SubSeq(t, 1, n)
  BY DEF IsPrefix
<1>2. u \in Seq(X) /\ Len(u) = n + 1 /\ u[1] = x /\ \A k \in 1 .. n : u[k + 1] = s[k]
  BY OneThen
<1>3. v \in Seq(X) /\ Len(v) = Len(t) + 1 /\ v[1] = x
      /\ \A k \in 1 .. Len(t) : v[k + 1] = t[k]
  BY OneThen
<1>4. \A k \in 1 .. n : s[k] = t[k]
  <2>1. \A k \in 1 .. n : SubSeq(s, 1, n)[k] = s[k] /\ SubSeq(t, 1, n)[k] = t[k]
    BY <1>1
  <2>2. QED
    BY <1>1, <2>1
<1> HIDE DEF u, v, n
<1>5. \A k \in 1 .. n + 1 : u[k] = v[k]
  <2> SUFFICES ASSUME NEW k \in 1 .. n + 1 PROVE u[k] = v[k]
    OBVIOUS
  <2>1. CASE k = 1
    BY <1>2, <1>3, <2>1
  <2>2. CASE k # 1
    <3>1. k - 1 \in 1 .. n /\ k - 1 \in 1 .. Len(t) /\ (k - 1) + 1 = k
      BY <1>1, <2>2
    <3>2. QED
      BY <1>2, <1>3, <1>4, <3>1
  <2>3. QED
    BY <2>1, <2>2
<1>6. Len(u) <= Len(v)
  BY <1>1, <1>2, <1>3
<1>7. SubSeq(u, 1, Len(u)) = SubSeq(v, 1, Len(u))
  BY <1>1, <1>2, <1>3, <1>5
<1>8. QED
  BY <1>6, <1>7 DEF IsPrefix, u, v

\* What a record's bytes are read as does not change when more bytes follow.
LEMMA BerStays ==
  ASSUME NEW c \in Seq(Byte), NEW rest \in Seq(Byte), NEW b, b = c \o rest,
         NEW i \in Nat \ {0}, ~BerOver(c, i)
  PROVE  BerReads(b, i, BerAt(c, i), BerNext(c, i))
<1> DEFINE r == BerAt(c, i)
           j == BerNext(c, i)
           n == j - i
           pre == SubSeq(c, 1, i - 1)
           e == Slice(c, i, n)
           post == SubSeq(c, i + n, Len(c))
           q == post \o rest
<1>1. r \in GoodTlvs /\ j \in i + 1 .. Len(c) + 1 /\ IsTlv(e, r)
  BY BerFound
<1>2. n \in Nat /\ i + n <= Len(c) + 1 /\ i + n = j
  <2> HIDE DEF j, r
  <2>1. QED
    BY <1>1
<1> HIDE DEF j, r, n
<1>3. /\ pre \in Seq(Byte) /\ Len(pre) = i - 1 /\ e \in Seq(Byte) /\ Len(e) = n
      /\ post \in Seq(Byte) /\ c = pre \o e \o post
  <2>1. IsCut(c, Byte, i, n, pre, e, post)
    BY <1>2, CutOut
  <2>2. QED
    BY <2>1 DEF IsCut
<1> HIDE DEF pre, e, post
<1>4. b = pre \o e \o q /\ q \in Seq(Byte)
  <2> DEFINE d == pre \o e
  <2>1. d \in Seq(Byte) /\ q \in Seq(Byte)
    BY <1>3, ConcatProperties
  <2> HIDE DEF d
  <2>2. Assoc(d, post, rest)
    BY <1>3, <2>1, AssocIs
  <2>3. QED
    BY <1>3, <2>1, <2>2 DEF Assoc, d
<1> HIDE DEF q
<1>5. BerReads(b, Len(pre) + 1, r, Len(pre) + Len(e) + 1)
  BY <1>1, <1>3, <1>4, BerTaken
<1>6. Len(pre) + 1 = i /\ Len(pre) + Len(e) + 1 = j
  BY <1>2, <1>3
<1>7. QED
  BY <1>5, <1>6 DEF r, j

\* What is read of a beginning is read of the whole.
LEMMA BerPrefix ==
  ASSUME NEW b \in Seq(Byte), NEW n \in 0 .. Len(b),
         Defined(BerParse(SubSeq(b, 1, n)))
  PROVE  IsPrefix(BerParse(SubSeq(b, 1, n)), BerParse(b))
<1> DEFINE c == SubSeq(b, 1, n)
           rest == SubSeq(b, n + 1, Len(b))
           N == n + 1
<1>1. /\ n \in Nat /\ c \in Seq(Byte) /\ Len(c) = n /\ rest \in Seq(Byte)
      /\ b = c \o rest /\ n <= Len(b) /\ Len(b) \in Nat
  <2>1. n \in Nat /\ n <= Len(b) /\ Len(b) \in Nat
    OBVIOUS
  <2>2. c \in Seq(Byte) /\ Len(c) = n /\ rest \in Seq(Byte)
    BY <2>1
  <2>3. b = c \o rest
    <3> DEFINE o == 1
               l == Len(b)
    <3>1. o \in 1 .. l + 1 /\ n \in o - 1 .. l /\ l \in n .. l
      BY <2>1
    <3> HIDE DEF o, l
    <3>2. o \in 1 .. Len(b) + 1 /\ n \in o - 1 .. Len(b) /\ l \in n .. Len(b)
      BY <3>1 DEF l
    <3>3. SubSeq(b, o, n) \o SubSeq(b, n + 1, l) = SubSeq(b, o, l)
      BY <3>2, ConcatAdjacentSubSeq
    <3>4. QED
      BY <3>3, SubSeqFull DEF o, l
  <2>4. QED
    BY <2>1, <2>2, <2>3
<1> HIDE DEF c, rest
<1>2. PICK P : BerIs(P, b)
  BY BerIsRead
<1>3. PICK Q : BerIs(Q, c)
  BY <1>1, BerIsRead
<1>4. /\ \A i \in 1 .. Len(b) + 1 : P[i] \in Seq(ReadTlvs) /\
           P[i] = IF BerOver(b, i) THEN BerEnd(b, i) ELSE <<BerAt(b, i)>> \o P[BerNext(b, i)]
      /\ BerParse(b) = P[1]
  BY <1>2 DEF BerIs
<1>5. /\ \A i \in 1 .. n + 1 : Q[i] \in Seq(ReadTlvs) /\
           Q[i] = IF BerOver(c, i) THEN BerEnd(c, i) ELSE <<BerAt(c, i)>> \o Q[BerNext(c, i)]
      /\ BerParse(c) = Q[1]
  BY <1>1, <1>3 DEF BerIs
<1> DEFINE T == {i \in 1 .. N : Defined(Q[i]) => IsPrefix(Q[i], P[i])}
<1>6. ASSUME NEW i \in 1 .. N, \A j \in i + 1 .. N : j \in T, Defined(Q[i])
      PROVE  IsPrefix(Q[i], P[i])
  <2>1. i \in Nat \ {0} /\ i \in 1 .. n + 1 /\ i \in 1 .. Len(b) + 1
    BY <1>1
  <2>2. CASE BerOver(c, i)
    <3> DEFINE p == P[i]
    <3> DEFINE w == Record(Slice(c, i, ReadTag(c, i)), Wild)
    <3>a. Q[i] # <<w>>
      <4>1. CASE Q[i] = <<w>>
        <5>1. w.value = Wild
          BY DEF Record
        <5> HIDE DEF w
        <5>2. 1 \in DOMAIN Q[i] /\ Q[i][1] = w
          BY <4>1
        <5>3. QED
          BY <1>6, <5>1, <5>2 DEF Defined
      <4>2. QED
        BY <4>1
    <3>b. Q[i] = BerEnd(c, i)
      BY <1>5, <2>1, <2>2
    <3>1. Q[i] = <<>> /\ p \in Seq(ReadTlvs)
      BY <1>4, <2>1, <3>a, <3>b DEF BerEnd
    <3> HIDE DEF p
    <3>2. IsPrefix(<<>>, p)
      BY <3>1 DEF IsPrefix
    <3>3. QED
      BY <3>1, <3>2 DEF p
  <2>3. CASE ~BerOver(c, i)
    <3> DEFINE r == BerAt(c, i)
               j == BerNext(c, i)
    <3>1. BerReads(b, i, r, j)
      BY <1>1, <2>1, <2>3, BerStays
    <3>2. r \in ReadTlvs /\ j \in i + 1 .. Len(c) + 1
      BY <1>1, <2>1, <2>3, BerFound DEF ReadTlvs
    <3> HIDE DEF r, j
    <3>3. j \in i + 1 .. N /\ j \in 1 .. n + 1 /\ j \in 1 .. Len(b) + 1
      BY <1>1, <2>1, <3>2
    <3>4. P[i] = <<r>> \o P[j] /\ P[j] \in Seq(ReadTlvs)
      BY <1>4, <2>1, <3>1, <3>3 DEF BerReads
    <3>5. Q[i] = <<r>> \o Q[j] /\ Q[j] \in Seq(ReadTlvs)
      BY <1>5, <2>1, <2>3, <3>3 DEF r, j
    <3> DEFINE s == Q[j]
               t == P[j]
    <3>6. IsPrefix(Q[j], P[j])
      <4>1. s \in Seq(ReadTlvs) /\ Q[i] = <<r>> \o s
        BY <3>5
      <4> HIDE DEF s
      <4>2. LET d == <<r>> \o s
            IN  /\ Len(d) = Len(s) + 1 /\ d \in Seq(ReadTlvs)
                /\ \A k \in 1 .. Len(s) : d[k + 1] = s[k]
        BY <3>2, <4>1, OneThen
      <4>3. ASSUME NEW k \in 1 .. Len(s) PROVE s[k].value # Wild
        <5>1. k + 1 \in DOMAIN Q[i] /\ Q[i][k + 1] = s[k]
          BY <4>1, <4>2
        <5>2. QED
          BY <1>6, <5>1 DEF Defined
      <4>4. Defined(s)
        BY <4>1, <4>3 DEF Defined
      <4>5. QED
        BY <1>6, <3>3, <4>4 DEF s
    <3>7. IsPrefix(<<r>> \o s, <<r>> \o t)
      <4>1. s \in Seq(ReadTlvs) /\ t \in Seq(ReadTlvs) /\ IsPrefix(s, t)
        BY <3>4, <3>5, <3>6
      <4> HIDE DEF s, t
      <4>2. QED
        BY <3>2, <4>1, PrefixThen
    <3>8. QED
      BY <3>4, <3>5, <3>7
  <2>4. QED
    BY <2>2, <2>3
<1>7. 1 \in T
  <2>1. N \in Nat /\ 1 \in 1 .. N
    BY <1>1
  <2>2. \A i \in 1 .. N : i \in T
    <3>1. ASSUME NEW i \in 1 .. N, \A j \in i + 1 .. N : j \in T PROVE i \in T
      BY <1>6, <3>1
    <3> HIDE DEF T, N
    <3>2. QED
      BY <2>1, <3>1, Downward
  <2>3. QED
    BY <2>1, <2>2
<1>8. QED
  <2>1. Defined(Q[1])
    BY <1>5 DEF c
  <2>2. QED
    BY <1>4, <1>5, <1>7, <2>1 DEF c

-----------------------------------------------------------------------------
\* A function of positions that has what is expected at one part of b whenever it
\* has what is expected right behind that part.
Follows(f, expected, ss, b, S) ==
  \A k \in 1 .. Len(ss), p \in Seq(S), q \in Seq(S) :
    b = p \o ss[k] \o q /\ f[Len(p) + Len(ss[k]) + 1] = expected[k + 1]
      => f[Len(p) + 1] = expected[k]

\* The parts come one after the other in b, and behind the last of them the function
\* has what is expected.
Expects(f, expected, ss, pre, post, b, S) ==
  /\ b = pre \o FlattenSeq(ss) \o post
  /\ Follows(f, expected, ss, b, S)
  /\ f[Len(pre) + Len(FlattenSeq(ss)) + 1] = expected[Len(ss) + 1]

\* Then it has what is expected at the first.
LEMMA Backward ==
  ASSUME NEW S, NEW ss \in Seq(Seq(S)), NEW pre \in Seq(S), NEW post \in Seq(S),
         NEW b, NEW f, NEW expected, Expects(f, expected, ss, pre, post, b, S)
  PROVE  f[Len(pre) + 1] = expected[1]
<1> USE DEF Expects
<1> DEFINE n == Len(ss)
<1>1. n \in Nat
  OBVIOUS
<1>2. PICK F : Flattens(F, ss, S)
  BY FlattenIs
<1>3. /\ \A k \in 0 .. n : F[k] \in Seq(S)
      /\ F[0] = <<>> /\ F[n] = FlattenSeq(ss)
      /\ \A k \in 1 .. n : F[k] = F[k - 1] \o ss[k]
      /\ \A k \in 1 .. n : ss[k] \in Seq(S)
  <2>1. /\ F \in [0 .. n -> Seq(S)] /\ F[0] = <<>> /\ F[n] = FlattenSeq(ss)
        /\ \A k \in 1 .. n : F[k] = F[k - 1] \o ss[k]
    BY <1>2 DEF Flattens
  <2>2. \A k \in 1 .. n : ss[k] \in Seq(S)
    OBVIOUS
  <2> HIDE DEF n
  <2>3. QED
    BY <2>1, <2>2
<1> HIDE DEF n
<1> DEFINE Starts(k, r) == b = pre \o F[k] \o r
           T == {k \in 0 .. n : /\ \E r \in Seq(S) : Starts(n - k, r)
                                /\ f[Len(pre) + Len(F[n - k]) + 1] = expected[n - k + 1]}
<1>4. 0 \in T
  <2>1. n - 0 = n /\ 0 \in 0 .. n
    BY <1>1
  <2>2. Starts(n - 0, post)
    BY <1>3, <2>1
  <2>3. f[Len(pre) + Len(F[n - 0]) + 1] = expected[n - 0 + 1]
    BY <1>3, <2>1 DEF n
  <2> HIDE DEF Starts
  <2>4. QED
    BY <2>1, <2>2, <2>3
<1>5. ASSUME NEW k \in 0 .. n, k \in T, k # n PROVE k + 1 \in T
  <2> DEFINE j == n - k
             e == ss[j]
             g == F[j - 1]
             p == pre \o g
  <2>1. j \in 1 .. n /\ j - 1 \in 0 .. n /\ n - (k + 1) = j - 1 /\ n - (k + 1) + 1 = j
        /\ k + 1 \in 0 .. n
    BY <1>1, <1>5
  <2>2. PICK r \in Seq(S) : Starts(j, r)
    BY <1>5
  <2>3. f[Len(pre) + Len(F[j]) + 1] = expected[j + 1]
    BY <1>5
  <2> HIDE DEF j
  <2>4. F[j] = g \o e /\ g \in Seq(S) /\ e \in Seq(S)
    BY <1>3, <2>1
  <2> HIDE DEF g, e
  <2>5. /\ p \in Seq(S) /\ Len(p) = Len(pre) + Len(g)
        /\ Len(F[j]) = Len(g) + Len(e)
        /\ Len(pre) \in Nat /\ Len(g) \in Nat /\ Len(e) \in Nat
    BY <2>4, ConcatProperties
  <2>6. pre \o (g \o e) = p \o e
    <3>1. Assoc(pre, g, e)
      BY <2>4, AssocIs
    <3>2. QED
      BY <3>1 DEF Assoc
  <2>7. b = p \o e \o r
    BY <2>2, <2>4, <2>6
  <2>8. p \o e \o r = p \o (e \o r) /\ e \o r \in Seq(S)
    <3>1. e \o r \in Seq(S)
      BY <2>4, ConcatProperties
    <3> HIDE DEF p
    <3>2. Assoc(p, e, r)
      BY <2>4, <2>5, AssocIs
    <3>3. QED
      BY <3>1, <3>2 DEF Assoc
  <2>9. Starts(j - 1, e \o r)
    BY <2>7, <2>8 DEF g
  <2> HIDE DEF p
  <2>10. f[Len(p) + 1] = expected[j]
    <3>1. Len(p) + Len(e) + 1 = Len(pre) + Len(F[j]) + 1
      BY <2>5
    <3>2. f[Len(p) + Len(ss[j]) + 1] = expected[j + 1] /\ b = p \o ss[j] \o r
      BY <2>3, <2>7, <3>1 DEF e
    <3>3. j \in 1 .. Len(ss)
      BY <2>1 DEF n
    <3>4. QED
      BY <2>5, <3>2, <3>3 DEF Follows
  <2>11. f[Len(pre) + Len(F[j - 1]) + 1] = expected[j]
    BY <2>5, <2>10 DEF g
  <2> HIDE DEF Starts
  <2>12. QED
    BY <2>1, <2>8, <2>9, <2>11
<1>6. n \in T
  <2>1. \A k \in 0 .. n : k \in T
    <3> HIDE DEF T
    <3>1. QED
      BY <1>1, <1>4, <1>5, UpTo
  <2>2. n \in 0 .. n
    BY <1>1
  <2> HIDE DEF T
  <2>3. QED
    BY <2>1, <2>2
<1>7. n - n = 0 /\ n - n + 1 = 1 /\ Len(<<>>) = 0
  BY <1>1
<1>8. f[Len(pre) + Len(F[0]) + 1] = expected[1]
  BY <1>6, <1>7
<1>9. QED
  BY <1>3, <1>7, <1>8

-----------------------------------------------------------------------------
\* The length fields of TLV8: one byte, or those of BER.
IsField(f, n, ber) ==
  \/ ber /\ IsLength(f, n)
  \/ ~ber /\ n \in Byte /\ f = <<n>>

\* What they are made of, and which numbers they hold.
LEMMA FieldIs ==
  ASSUME NEW f, NEW n, NEW ber \in BOOLEAN, IsField(f, n, ber)
  PROVE  /\ f \in Seq(Byte) /\ Len(f) \in Nat \ {0} /\ n \in Nat
         /\ ber => Fits(n, WordBytes)
<1>1. CASE ber /\ IsLength(f, n)
  BY <1>1, LengthIs
<1>2. CASE ~ber /\ n \in Byte /\ f = <<n>>
  <2>1. n \in Nat
    BY <1>2, OctetAssumption DEF Byte
  <2>2. QED
    BY <1>2, <2>1
<1>3. QED
  BY <1>1, <1>2 DEF IsField

\* In BER the short form is what ReadLength makes of it.
LEMMA LongerForm ==
  ASSUME NEW b \in Seq(Byte), NEW i \in Nat
  PROVE  Tlv8Length(b, i, TRUE) = ReadLength(b, i)
<1>1. CASE i <= Len(b) /\ b[i] < Half
  <2>1. ~(i > Len(b))
    BY <1>1
  <2>2. QED
    BY <1>1, <2>1 DEF Tlv8Length, ReadLength
<1>2. CASE ~(i <= Len(b) /\ b[i] < Half)
  BY <1>2 DEF Tlv8Length
<1>3. QED
  BY <1>1, <1>2

\* The field that is read at i: its number and its length.
ReadsField(b, i, n, w, ber) == Tlv8Length(b, i, ber) = [len |-> n, used |-> w]

\* A field is read as its number wherever it comes.
LEMMA FieldRead ==
  ASSUME NEW pre \in Seq(Byte), NEW f, NEW n, NEW ber \in BOOLEAN, IsField(f, n, ber),
         NEW post \in Seq(Byte), NEW b, b = pre \o f \o post
  PROVE  ReadsField(b, Len(pre) + 1, n, Len(f), ber)
<1> DEFINE i == Len(pre) + 1
<1>1. f \in Seq(Byte) /\ Len(f) \in Nat \ {0}
  BY FieldIs
<1>2. /\ b \in Seq(Byte) /\ Len(b) = Len(pre) + Len(f) + Len(post)
      /\ \A k \in 1 .. Len(f) : b[Len(pre) + k] = f[k]
  <2>1. Joined(b, Byte, pre, f, post)
    BY <1>1, JoinedIs
  <2>2. QED
    BY <2>1 DEF Joined
<1>3. i \in Nat
  OBVIOUS
<1>4. CASE ber /\ IsLength(f, n)
  <2>1. ReadLength(b, i) = [len |-> n, used |-> Len(f)]
    <3> DEFINE c == pre \o f \o post
    <3>1. IsLength(f, n)
      BY <1>4
    <3>2. ReadLength(c, Len(pre) + 1) = [len |-> n, used |-> Len(f)]
      BY <3>1, LengthRead
    <3>3. QED
      BY <3>2
  <2> HIDE DEF i
  <2>2. Tlv8Length(b, i, TRUE) = ReadLength(b, i)
    BY <1>2, <1>3, LongerForm
  <2>3. ber = TRUE
    BY <1>4
  <2>4. QED
    BY <2>1, <2>2, <2>3 DEF i, ReadsField
<1>5. CASE ~ber /\ n \in Byte /\ f = <<n>>
  <2>1. Len(f) = 1 /\ f[1] = n /\ 1 \in 1 .. Len(f)
    BY <1>5
  <2>2. b[i] = n /\ i <= Len(b)
    BY <1>2, <2>1
  <2> HIDE DEF i
  <2>3. Tlv8Length(b, i, ber) = [len |-> b[i], used |-> 1]
    BY <1>5, <2>2 DEF Tlv8Length
  <2>4. QED
    BY <2>1, <2>2, <2>3 DEF i, ReadsField
<1>6. QED
  BY <1>4, <1>5 DEF IsField

\* Where TLV8 reads a length, it is one a field holds.
LEMMA FieldFound ==
  ASSUME NEW b \in Seq(Byte), NEW i \in Nat \ {0}, NEW ber \in BOOLEAN,
         Tlv8Length(b, i, ber).used # 0
  PROVE  LET l == Tlv8Length(b, i, ber)
         IN  l.used \in Nat \ {0} /\ l.len \in Nat /\ (ber => Fits(l.len, WordBytes))
<1>1. CASE ber
  <2>1. Tlv8Length(b, i, ber) = ReadLength(b, i)
    BY <1>1, LongerForm
  <2> DEFINE l == ReadLength(b, i)
  <2>2. l.used \in Nat \ {0} /\ l.len \in Nat /\ IsLength(Slice(b, i, l.used), l.len)
    BY <2>1, LengthFound
  <2> HIDE DEF l
  <2>3. Fits(l.len, WordBytes)
    BY <2>2, LengthIs
  <2>4. QED
    BY <2>1, <2>2, <2>3 DEF l
<1>2. CASE ~ber
  <2>1. CASE i <= Len(b)
    <3>1. Tlv8Length(b, i, ber) = [len |-> b[i], used |-> 1]
      BY <1>2, <2>1 DEF Tlv8Length
    <3>2. b[i] \in Nat
      BY <2>1, OctetAssumption DEF Byte
    <3>3. QED
      BY <1>2, <3>1, <3>2
  <2>2. CASE ~(i <= Len(b))
    <3>1. i > Len(b)
      BY <2>2
    <3>2. Tlv8Length(b, i, ber) = ReadLength(b, i)
      BY <2>2 DEF Tlv8Length
    <3>3. ReadLength(b, i).used = 0
      BY <3>1 DEF ReadLength
    <3>4. QED
      BY <3>2, <3>3
  <2>3. QED
    BY <2>1, <2>2
<1>3. QED
  BY <1>1, <1>2

-----------------------------------------------------------------------------
\* The records of TLV8, with the values that a BER length can count, and their
\* bytes with any length field that is read as the length.
Tlv8s(ber) ==
  {r \in [tag : Byte, value : Seq(Byte)] : ber => Fits(Len(r.value), WordBytes)}

IsTlv8(e, r, ber) ==
  \E f : IsField(f, Len(r.value), ber) /\ e = <<r.tag>> \o f \o r.value

\* Where the value of the record at i is, and the next record; whether there is
\* none at i; and the record.
Tlv8Value(b, i, ber) == i + 1 + Tlv8Length(b, i + 1, ber).used
Tlv8Next(b, i, ber)  == Tlv8Value(b, i, ber) + Tlv8Length(b, i + 1, ber).len
Tlv8Over(b, i, ber)  ==
  Tlv8Length(b, i + 1, ber).used = 0 \/ Tlv8Next(b, i, ber) > Len(b) + 1
Tlv8At(b, i, ber)    ==
  Record(b[i], Slice(b, Tlv8Value(b, i, ber), Tlv8Length(b, i + 1, ber).len))

\* A record that is read at i: what it is, where it ends.
Tlv8Reads(b, i, r, next, ber) ==
  /\ i <= Len(b) /\ ~Tlv8Over(b, i, ber)
  /\ Tlv8At(b, i, ber) = r /\ Tlv8Next(b, i, ber) = next

\* A record is read wherever its bytes come.
LEMMA Tlv8Taken ==
  ASSUME NEW ber \in BOOLEAN, NEW pre \in Seq(Byte), NEW e, NEW post \in Seq(Byte),
         NEW r \in Tlv8s(ber), IsTlv8(e, r, ber), NEW b, b = pre \o e \o post
  PROVE  /\ Tlv8Reads(b, Len(pre) + 1, r, Len(pre) + Len(e) + 1, ber)
         /\ e \in Seq(Byte) /\ Len(e) \in Nat \ {0}
<1> DEFINE g == r.tag
           t == <<g>>
           v == r.value
           n == Len(v)
           i == Len(pre) + 1
<1>1. g \in Byte /\ v \in Seq(Byte) /\ n \in Nat /\ r = Record(g, v)
  BY DEF Tlv8s, Record
<1>2. PICK f : IsField(f, n, ber) /\ e = t \o f \o v
  BY DEF IsTlv8
<1> HIDE DEF g, v
<1>3. /\ f \in Seq(Byte) /\ Len(f) \in Nat \ {0}
      /\ t \in Seq(Byte) /\ Len(t) = 1 /\ t[1] = g
  <2>1. f \in Seq(Byte) /\ Len(f) \in Nat \ {0}
    BY <1>2, FieldIs
  <2>2. QED
    BY <1>1, <2>1
<1> HIDE DEF t
<1>4. /\ b = pre \o t \o (f \o v \o post) /\ b = (pre \o t) \o f \o (v \o post)
      /\ f \o v \o post \in Seq(Byte) /\ v \o post \in Seq(Byte)
      /\ pre \o t \in Seq(Byte) /\ Len(pre \o t) = Len(pre) + Len(t)
      /\ e \in Seq(Byte) /\ Len(e) = Len(t) + Len(f) + n
      /\ Slice(e, Len(t) + Len(f) + 1, n) = v
  <2>1. FiveParts(b, e, Byte, pre, t, f, v, post)
    BY <1>1, <1>2, <1>3, FivePartsAre
  <2>2. QED
    BY <2>1 DEF FiveParts
<1>5. b[i] = g
  <2> DEFINE q == f \o v \o post
  <2>1. q \in Seq(Byte) /\ b = pre \o t \o q
    BY <1>4
  <2> HIDE DEF q
  <2>2. Joined(b, Byte, pre, t, q)
    BY <1>3, <2>1, JoinedIs
  <2>3. \A k \in 1 .. Len(t) : b[Len(pre) + k] = t[k]
    BY <2>2 DEF Joined
  <2>4. 1 \in 1 .. Len(t)
    BY <1>3
  <2> HIDE DEF q
  <2>5. b[Len(pre) + 1] = t[1]
    BY <2>3, <2>4
  <2>6. QED
    BY <1>3, <2>5
<1>6. Tlv8Length(b, i + 1, ber) = [len |-> n, used |-> Len(f)]
  <2> DEFINE p == pre \o t
             q == v \o post
             c == p \o f \o q
  <2>1. p \in Seq(Byte) /\ q \in Seq(Byte) /\ b = c /\ Len(p) + 1 = i + 1
    BY <1>3, <1>4
  <2>2. IsField(f, n, ber)
    BY <1>2
  <2> HIDE DEF p, q, n
  <2>3. Tlv8Length(c, Len(p) + 1, ber) = [len |-> n, used |-> Len(f)]
    <3>1. p \in Seq(Byte) /\ q \in Seq(Byte)
      BY <2>1
    <3>2. ReadsField(c, Len(p) + 1, n, Len(f), ber)
      BY <2>2, <3>1, FieldRead
    <3>3. QED
      BY <3>2 DEF ReadsField
  <2> HIDE DEF c
  <2>4. QED
    BY <2>1, <2>3
<1>7. /\ \A j \in Nat \ {0}, m \in Nat : j + m <= Len(e) + 1 =>
           Slice(b, Len(pre) + j, m) = Slice(e, j, m)
      /\ Len(b) = Len(pre) + Len(e) + Len(post)
  <2>1. ASSUME NEW j \in Nat \ {0}, NEW m \in Nat, j + m <= Len(e) + 1
        PROVE  Slice(b, Len(pre) + j, m) = Slice(e, j, m)
    <3>1. e \in Seq(Byte)
      BY <1>4
    <3>2. QED
      BY <2>1, <3>1, Inside
  <2>2. Joined(b, Byte, pre, e, post)
    BY <1>4, JoinedIs
  <2>3. QED
    BY <2>1, <2>2 DEF Joined
<1> DEFINE y == Len(f)
           p == Len(pre)
<1>8. y \in Nat \ {0} /\ p \in Nat /\ n \in Nat /\ Len(post) \in Nat
      /\ Len(e) = 1 + y + n
  BY <1>1, <1>3, <1>4
<1>9. Slice(b, p + (1 + y + 1), n) = v
  <2> DEFINE o == 1 + y + 1
  <2>1. o \in Nat \ {0} /\ n \in Nat /\ o + n <= Len(e) + 1 /\ o = Len(t) + y + 1
    BY <1>3, <1>8
  <2> HIDE DEF o, n, p
  <2>2. Slice(b, Len(pre) + o, n) = Slice(e, o, n)
    BY <1>7, <2>1
  <2>3. Slice(e, o, n) = v
    BY <1>4, <2>1 DEF n
  <2>4. QED
    BY <2>2, <2>3 DEF o, p
<1> HIDE DEF y, n, p, i
<1>10. Tlv8Value(b, i, ber) = i + 1 + y /\ Tlv8Next(b, i, ber) = i + 1 + y + n
  BY <1>6 DEF Tlv8Value, Tlv8Next, y
<1>11. p + (1 + y + 1) = i + 1 + y /\ p + 1 = i /\ i + 1 + y + n = p + Len(e) + 1
       /\ i + 1 + y + n <= Len(b) + 1 /\ Len(b) \in Nat /\ i \in Nat /\ i <= Len(b)
  BY <1>7, <1>8 DEF p, i
<1>12. ~Tlv8Over(b, i, ber)
  BY <1>6, <1>8, <1>10, <1>11 DEF Tlv8Over, y
<1>13. Tlv8At(b, i, ber) = Record(g, v)
  <2>1. Slice(b, i + 1 + y, n) = v
    BY <1>9, <1>11
  <2>2. QED
    BY <1>5, <1>6, <1>10, <2>1 DEF Tlv8At
<1>14. Len(e) \in Nat \ {0}
  BY <1>8
<1>15. QED
  BY <1>1, <1>4, <1>10, <1>11, <1>12, <1>13, <1>14 DEF Tlv8Reads, p, i

\* What is read at i is a record, and takes some bytes.
LEMMA Tlv8Found ==
  ASSUME NEW ber \in BOOLEAN, NEW b \in Seq(Byte), NEW i \in 1 .. Len(b),
         ~Tlv8Over(b, i, ber)
  PROVE  Tlv8At(b, i, ber) \in Tlv8s(ber) /\ Tlv8Next(b, i, ber) \in i + 1 .. Len(b) + 1
<1> DEFINE l == Tlv8Length(b, i + 1, ber)
           j == i + 1
           m == Len(b)
           y == l.used
           n == l.len
           v == Slice(b, i + 1 + y, n)
<1>1. y # 0 /\ ~(i + 1 + y + n > m + 1)
  BY DEF Tlv8Over, Tlv8Value, Tlv8Next
<1>2. m \in Nat /\ i \in Nat \ {0} /\ j \in Nat \ {0} /\ b[i] \in Byte /\ i <= m
  OBVIOUS
<1> HIDE DEF m
<1>3. y \in Nat \ {0} /\ n \in Nat /\ (ber => Fits(n, WordBytes))
  <2>1. l = Tlv8Length(b, j, ber)
    OBVIOUS
  <2> HIDE DEF j, l
  <2>2. Tlv8Length(b, j, ber).used # 0
    BY <1>1, <2>1
  <2>3. LET k == Tlv8Length(b, j, ber)
        IN  k.used \in Nat \ {0} /\ k.len \in Nat /\ (ber => Fits(k.len, WordBytes))
    BY <1>2, <2>2, FieldFound
  <2>4. QED
    BY <2>1, <2>3
<1>4. Tlv8At(b, i, ber) = Record(b[i], v) /\ Tlv8Next(b, i, ber) = i + 1 + y + n
  BY DEF Tlv8At, Tlv8Next, Tlv8Value
<1> HIDE DEF l, y, n, v, j
<1>5. v \in Seq(Byte) /\ Len(v) = n
  <2> DEFINE o == i + 1 + y
  <2>1. o \in Nat \ {0} /\ o + n <= m + 1
    BY <1>1, <1>2, <1>3
  <2> HIDE DEF o
  <2>2. Slice(b, o, n) \in Seq(Byte) /\ Len(Slice(b, o, n)) = n
    BY <1>3, <2>1, SliceIs DEF m
  <2>3. QED
    BY <2>2 DEF o, v
<1>6. Record(b[i], v) \in Tlv8s(ber)
  BY <1>2, <1>3, <1>5 DEF Tlv8s, Record
<1>7. i + 1 + y + n \in i + 1 .. m + 1
  BY <1>1, <1>2, <1>3
<1>8. QED
  BY <1>4, <1>6, <1>7 DEF m

-----------------------------------------------------------------------------
\* What is read of a record whose length wraps, and all that is read.
Wild8s == [tag : Byte, value : {Wild}]
Read8s(ber) == IF ber THEN Tlv8s(ber) \cup Wild8s ELSE Tlv8s(ber)

\* What TLV8::parse answers: records, not in BER none after one of its tag.
Apart(rs, ber) == ber \/ \A k \in 1 .. Len(rs) - 1 : rs[k].tag # rs[k + 1].tag

Answers8(ber) == {a \in Answers(Read8s(ber)) : Apart(a.items, ber)}

\* The answer at i if no record is read there.
End8(b, i, ber) ==
  IF /\ ber /\ Tlv8Length(b, i + 1, ber).used # 0
     /\ Wraps(i + 1 + Tlv8Length(b, i + 1, ber).used, Tlv8Length(b, i + 1, ber).len)
  THEN Then(Record(b[i], Wild), Stopped) ELSE Stopped

\* A value before that of the first record; a record before the others.
Merged(value, rest) == [rest EXCEPT !.items[1].value = value \o @]

Put8(r, rest, ber) ==
  IF ~ber /\ Merges(r.tag, rest) THEN Merged(r.value, rest) ELSE Then(r, rest)

\* The value that a record has and the one put before it are one value.
LEMMA MergedIs ==
  ASSUME NEW R, NEW x \in Answers(R), NEW t, NEW u, NEW v, Record(t, v) \in R
  PROVE  Merged(u, Then(Record(t, v), x)) = Then(Record(t, u \o v), x)
<1> DEFINE o == x.ok
           s == x.items
           q == Record(t, v)
           p == Record(t, u \o v)
           d == <<q>> \o s
           e == <<p>> \o s
<1>1. x = [ok |-> o, items |-> s] /\ s \in Seq(R) /\ q \in R
  BY DEF Answers
<1>2. Then(q, x) = [ok |-> o, items |-> d] /\ Then(p, x) = [ok |-> o, items |-> e]
  <2> HIDE DEF o, s, q, p
  <2>1. x.items = s
    BY DEF s
  <2>2. Then(q, x) = [x EXCEPT !.items = d] /\ Then(p, x) = [x EXCEPT !.items = e]
    BY <2>1 DEF Then
  <2> HIDE DEF d, e
  <2>3. \A w : [x EXCEPT !.items = w] = [ok |-> o, items |-> w]
    BY <1>1
  <2>4. QED
    BY <2>2, <2>3
<1>3. [d EXCEPT ![1] = p] = e
  <2> HIDE DEF q, p, s
  <2>1. Len(d) = Len(s) + 1 /\ d[1] = q /\ (\A k \in 1 .. Len(s) : d[k + 1] = s[k])
        /\ d \in Seq(R)
    BY <1>1, OneThen
  <2> DEFINE A == R \cup {p}
  <2>2. p \in A /\ s \in Seq(A) /\ q \in A
    BY <1>1
  <2> HIDE DEF A
  <2>3. Len(e) = Len(s) + 1 /\ e[1] = p /\ (\A k \in 1 .. Len(s) : e[k + 1] = s[k])
        /\ e \in Seq(A)
    BY <2>2, OneThen
  <2>4. d \in Seq(A)
    BY <2>2, OneThen
  <2> DEFINE h == [d EXCEPT ![1] = p]
  <2> HIDE DEF d, e
  <2>5. h \in Seq(A) /\ Len(h) = Len(d)
    BY <2>1, <2>2, <2>4, ExceptSeq
  <2>6. \A k \in 1 .. Len(h) : h[k] = e[k]
    <3> SUFFICES ASSUME NEW k \in 1 .. Len(h) PROVE h[k] = e[k]
      OBVIOUS
    <3>1. k \in 1 .. Len(d) /\ k \in DOMAIN d
      BY <2>4, <2>5
    <3>2. CASE k = 1
      BY <2>3, <3>1, <3>2
    <3>3. CASE k # 1
      <4>1. k - 1 \in 1 .. Len(s) /\ (k - 1) + 1 = k
        BY <1>1, <2>1, <3>1, <3>3
      <4>2. h[k] = d[k] /\ d[k] = s[k - 1] /\ e[k] = s[k - 1]
        BY <2>1, <2>3, <3>1, <3>3, <4>1
      <4>3. QED
        BY <4>2
    <3>4. QED
      BY <3>2, <3>3
  <2>7. QED
    <3> HIDE DEF h
    <3>1. h = e
      BY <2>1, <2>3, <2>5, <2>6, SeqEqual
    <3>2. QED
      BY <3>1 DEF h
<1>4. d[1] = q
  <2> HIDE DEF q, s
  <2>1. QED
    BY <1>1, OneThen
<1>5. [q EXCEPT !.value = u \o @] = p
  <2> DEFINE w == u \o v
  <2>1. q.value = v
    BY DEF Record
  <2>2. [q EXCEPT !.value = u \o @] = [q EXCEPT !.value = w]
    BY <2>1
  <2> HIDE DEF w
  <2>3. [q EXCEPT !.value = w] = Record(t, w)
    BY DEF Record
  <2>4. QED
    BY <2>2, <2>3 DEF w
<1>6. Merged(u, [ok |-> o, items |-> d]) = [ok |-> o, items |-> e]
  <2> HIDE DEF d, e, o, q, p
  <2> DEFINE a == [ok |-> o, items |-> d]
  <2>1. a.items = d
    OBVIOUS
  <2>2. Merged(u, a) = [a EXCEPT !.items = [d EXCEPT ![1] = [q EXCEPT !.value = u \o @]]]
    BY <1>4, <2>1 DEF Merged
  <2>3. QED
    BY <1>3, <1>5, <2>2
<1>7. QED
  BY <1>2, <1>6

\* An answer with a record is one that Then gives.
LEMMA FirstIs ==
  ASSUME NEW R, NEW a \in Answers(R), a.items # <<>>
  PROVE  /\ a.items[1] \in R
         /\ \E x \in Answers(R) : a = Then(a.items[1], x)
<1> DEFINE o == a.ok
           s == a.items
           n == Len(s)
           u == SubSeq(s, 2, n)
           q == s[1]
           x == [ok |-> o, items |-> u]
<1>1. a = [ok |-> o, items |-> s] /\ s \in Seq(R) /\ o \in BOOLEAN
  BY DEF Answers
<1>2. s # <<>> /\ n \in Nat /\ n # 0 /\ q \in R
  BY <1>1
<1>3. u \in Seq(R) /\ s = <<q>> \o u
  <2>1. 1 \in 1 .. n /\ n \in 1 .. n
    BY <1>2
  <2> HIDE DEF s
  <2>2. SubSeq(s, 1, n) = <<s[1]>> \o SubSeq(s, 1 + 1, n)
    BY <1>1, <2>1, SubSeqRecursiveFirst
  <2>3. SubSeq(s, 1, n) = s
    BY <1>1, SubSeqFull
  <2>4. u \in Seq(R)
    BY <1>1, <1>2
  <2>5. QED
    BY <2>2, <2>3, <2>4
<1> HIDE DEF u, s, o, q
<1>4. x \in Answers(R)
  BY <1>1, <1>3 DEF Answers
<1>5. Then(q, x) = a
  <2> DEFINE e == <<q>> \o u
  <2>1. x.items = u
    OBVIOUS
  <2>2. Then(q, x) = [x EXCEPT !.items = e]
    BY <2>1 DEF Then
  <2> HIDE DEF e
  <2>3. [x EXCEPT !.items = e] = [ok |-> o, items |-> e]
    OBVIOUS
  <2>4. QED
    BY <1>1, <1>3, <2>2, <2>3 DEF e
<1>6. QED
  BY <1>2, <1>4, <1>5 DEF q, s

\* Of records that are apart: one more in front is apart if its tag is another.
LEMMA ApartThen ==
  ASSUME NEW R, NEW r \in R, NEW s \in Seq(R), NEW ber \in BOOLEAN
  PROVE  Apart(<<r>> \o s, ber)
           <=> Apart(s, ber) /\ (ber \/ s = <<>> \/ s[1].tag # r.tag)
<1> DEFINE d == <<r>> \o s
           n == Len(s)
<1>1. /\ n \in Nat /\ Len(d) = n + 1 /\ d[1] = r /\ \A k \in 1 .. n : d[k + 1] = s[k]
      /\ (s = <<>> <=> n = 0)
  BY OneThen
<1> HIDE DEF d, n
<1>2. CASE ber
  BY <1>2 DEF Apart
<1>3. CASE ~ber
  <2>1. ASSUME Apart(d, ber)
        PROVE  Apart(s, ber) /\ (s = <<>> \/ s[1].tag # r.tag)
    <3>1. \A k \in 1 .. n : d[k].tag # d[k + 1].tag
      BY <1>1, <1>3, <2>1 DEF Apart
    <3>2. ASSUME NEW k \in 1 .. n - 1 PROVE s[k].tag # s[k + 1].tag
      <4>1. k \in 1 .. n /\ k + 1 \in 1 .. n
        BY <1>1
      <4>2. d[k + 1].tag # d[(k + 1) + 1].tag
        BY <3>1, <4>1
      <4>3. QED
        BY <1>1, <4>1, <4>2
    <3>3. s = <<>> \/ s[1].tag # r.tag
      <4>1. CASE n # 0
        <5>1. 1 \in 1 .. n
          BY <1>1, <4>1
        <5>2. d[1].tag # d[1 + 1].tag /\ d[1 + 1] = s[1]
          BY <1>1, <3>1, <5>1
        <5>3. QED
          BY <1>1, <5>2
      <4>2. QED
        BY <1>1, <4>1
    <3>4. QED
      BY <3>2, <3>3 DEF Apart, n
  <2>2. ASSUME Apart(s, ber), s = <<>> \/ s[1].tag # r.tag
        PROVE  Apart(d, ber)
    <3>1. \A k \in 1 .. n - 1 : s[k].tag # s[k + 1].tag
      BY <1>3, <2>2 DEF Apart, n
    <3>2. ASSUME NEW k \in 1 .. (n + 1) - 1 PROVE d[k].tag # d[k + 1].tag
      <4>1. k \in 1 .. n
        BY <1>1
      <4>2. CASE k = 1
        BY <1>1, <2>2, <4>1, <4>2
      <4>3. CASE k # 1
        <5>1. k - 1 \in 1 .. n - 1 /\ k - 1 \in 1 .. n /\ (k - 1) + 1 = k
          BY <1>1, <4>1, <4>3
        <5>2. d[k] = s[k - 1] /\ d[k + 1] = s[k]
          BY <1>1, <4>1, <5>1
        <5>3. QED
          BY <3>1, <5>1, <5>2
      <4>4. QED
        BY <4>2, <4>3
    <3>3. QED
      BY <1>1, <3>2 DEF Apart
  <2>3. QED
    <3>1. Apart(d, ber) <=> Apart(s, ber) /\ (s = <<>> \/ s[1].tag # r.tag)
      BY <2>1, <2>2, Zenon
    <3>2. QED
      BY <1>3, <3>1, Zenon DEF d
<1>4. QED
  BY <1>2, <1>3 DEF d

\* A record more in front of an answer: an answer again.
LEMMA Put8Is ==
  ASSUME NEW ber \in BOOLEAN, NEW r \in Tlv8s(ber), NEW a \in Answers8(ber)
  PROVE  Put8(r, a, ber) \in Answers8(ber)
<1> DEFINE R == Read8s(ber)
           s == a.items
<1>1. a \in Answers(R) /\ s \in Seq(R) /\ Apart(s, ber)
  BY DEF Answers8, Answers
<1> HIDE DEF R
<1>2. r \in R /\ (~ber => R = Tlv8s(ber))
  BY DEF R, Read8s
<1>3. CASE ~ber /\ Merges(r.tag, a)
  <2> DEFINE q == s[1]
             w == r.value \o q.value
             p == Record(q.tag, w)
  <2>1. s # <<>> /\ q.tag = r.tag
    BY <1>3 DEF Merges
  <2>2. q \in R /\ \E x \in Answers(R) : a = Then(q, x)
    BY <1>1, <2>1, FirstIs
  <2> HIDE DEF q
  <2>3. PICK x \in Answers(R) : a = Then(q, x)
    BY <2>2
  <2> HIDE DEF s
  <2>4. q.tag \in Byte /\ q.value \in Seq(Byte) /\ q = Record(q.tag, q.value)
        /\ r.value \in Seq(Byte)
    <3>1. R = Tlv8s(ber)
      BY <1>2, <1>3
    <3> HIDE DEF R
    <3>2. q \in Tlv8s(ber)
      BY <2>2, <3>1
    <3>3. QED
      BY <3>2 DEF Tlv8s, Record
  <2>5. w \in Seq(Byte)
    BY <2>4, ConcatProperties
  <2> HIDE DEF w
  <2>6. p \in R /\ p.tag = q.tag
    <3>1. R = Tlv8s(ber)
      BY <1>2, <1>3
    <3> HIDE DEF R
    <3>2. p \in Tlv8s(ber) /\ p.tag = q.tag
      BY <1>3, <2>4, <2>5 DEF Tlv8s, Record
    <3>3. QED
      BY <3>1, <3>2
  <2>7. Put8(r, a, ber) = Then(p, x)
    <3> DEFINE t == q.tag
               v == q.value
               u == r.value
    <3>1. Record(t, v) \in R /\ a = Then(Record(t, v), x)
      BY <2>2, <2>3, <2>4
    <3> HIDE DEF t, v, u
    <3>2. Merged(u, Then(Record(t, v), x)) = Then(Record(t, u \o v), x)
      BY <3>1, MergedIs
    <3>3. Put8(r, a, ber) = Merged(u, a)
      BY <1>3 DEF Put8, u
    <3>4. QED
      BY <3>1, <3>2, <3>3 DEF w, t, v, u
  <2>8. a.items = <<q>> \o x.items /\ Then(p, x) \in Answers(R)
        /\ Then(p, x).items = <<p>> \o x.items /\ x.items \in Seq(R)
    <3>1. x.items \in Seq(R)
      BY DEF Answers
    <3> HIDE DEF p
    <3>2. QED
      BY <2>2, <2>3, <2>6, <3>1, ThenIs
  <2>9. Apart(<<p>> \o x.items, ber)
    <3> DEFINE z == x.items
    <3>1. z \in Seq(R) /\ Apart(<<q>> \o z, ber)
      BY <1>1, <2>8 DEF s
    <3> HIDE DEF z, p
    <3>2. Apart(z, ber) /\ (ber \/ z = <<>> \/ z[1].tag # q.tag)
      BY <2>2, <3>1, ApartThen
    <3>3. Apart(z, ber) /\ (ber \/ z = <<>> \/ z[1].tag # p.tag)
      BY <2>6, <3>2
    <3>4. Apart(<<p>> \o z, ber)
      BY <2>6, <3>1, <3>3, ApartThen
    <3>5. QED
      BY <3>4 DEF z
  <2> HIDE DEF p
  <2>10. QED
    BY <2>7, <2>8, <2>9 DEF Answers8, R
<1>4. CASE ~(~ber /\ Merges(r.tag, a))
  <2>1. Put8(r, a, ber) = Then(r, a)
    BY <1>4 DEF Put8
  <2>2. Then(r, a) \in Answers(R) /\ Then(r, a).items = <<r>> \o s
    BY <1>1, <1>2, ThenIs
  <2>3. Apart(<<r>> \o s, ber)
    <3>1. ber \/ s = <<>> \/ s[1].tag # r.tag
      BY <1>4 DEF Merges
    <3> HIDE DEF s
    <3>2. QED
      BY <1>1, <1>2, <3>1, ApartThen
  <2>4. QED
    BY <2>1, <2>2, <2>3 DEF Answers8, R
<1>5. QED
  BY <1>3, <1>4

\* The function of TLV8::parse, position by position.
Tlv8Is(P, b, ber) ==
  /\ P \in [1 .. Len(b) + 1 -> Answers8(ber)]
  /\ P[Len(b) + 1] = Done(<<>>)
  /\ \A i \in 1 .. Len(b) :
       P[i] = IF Tlv8Over(b, i, ber) THEN End8(b, i, ber)
              ELSE Put8(Tlv8At(b, i, ber), P[Tlv8Next(b, i, ber)], ber)
  /\ Tlv8Parse(b, ber) = P[1]

\* An answer at an end is one.
LEMMA End8Is ==
  ASSUME NEW b \in Seq(Byte), NEW ber \in BOOLEAN, NEW i \in 1 .. Len(b)
  PROVE  End8(b, i, ber) \in Answers8(ber) /\ Stopped \in Answers8(ber)
<1> DEFINE R == Read8s(ber)
           w == Record(b[i], Wild)
           nil == <<>>
           one == <<w>>
<1>1. nil \in Seq(R) /\ Apart(nil, ber)
  BY DEF Apart
<1>2. ber => w \in R
  <2>1. b[i] \in Byte
    OBVIOUS
  <2>2. w \in Wild8s
    BY <2>1 DEF Wild8s, Record
  <2> HIDE DEF w
  <2>3. QED
    BY <2>2 DEF Read8s
<1> HIDE DEF w, R, nil
<1>3. Stopped \in Answers(R) /\ Stopped.items = nil
  BY <1>1 DEF Answers, Stopped, nil
<1>4. Stopped \in Answers8(ber)
  BY <1>1, <1>3 DEF Answers8, R
<1>5. ASSUME ber PROVE Then(w, Stopped) \in Answers8(ber)
  <2>1. w \in R
    BY <1>2, <1>5
  <2>2. Then(w, Stopped) \in Answers(R)
    BY <1>1, <1>3, <2>1, ThenIs
  <2> DEFINE a == Then(w, Stopped)
  <2> HIDE DEF a
  <2>3. Apart(a.items, ber)
    BY <1>5 DEF Apart
  <2>4. QED
    BY <2>2, <2>3 DEF Answers8, R, a
<1>6. QED
  BY <1>4, <1>5 DEF End8, w

\* The recursive function of Tlv8Parse has its equation at every position.
LEMMA Tlv8IsRead ==
  ASSUME NEW b \in Seq(Byte), NEW ber \in BOOLEAN
  PROVE  \E P : Tlv8Is(P, b, ber)
<1> DEFINE m == Len(b)
           N == Len(b) + 1
           V == Answers8(ber)
           R(i) == Tlv8At(b, i, ber)
           X(i) == Tlv8Next(b, i, ber)
           Over(i) == i > Len(b) \/ Tlv8Over(b, i, ber)
           Base8(i) == IF i > Len(b) THEN Done(<<>>) ELSE End8(b, i, ber)
           Put(i, v) == Put8(R(i), v, ber)
           Is(g) == g = [i \in 1 .. Len(b) + 1 |->
             IF i > Len(b) THEN Done(<<>>)
             ELSE LET l == Tlv8Length(b, i + 1, ber)
                      v == i + 1 + l.used
                  IN  IF l.used = 0 THEN Stopped
                      ELSE IF v + l.len > Len(b) + 1
                           THEN IF ber /\ Wraps(v, l.len)
                                THEN Then(Record(b[i], Wild), Stopped) ELSE Stopped
                      ELSE LET value == Slice(b, v, l.len)
                               rest  == g[v + l.len]
                           IN  IF ~ber /\ Merges(b[i], rest)
                               THEN [rest EXCEPT !.items[1].value = value \o @]
                               ELSE Then(Record(b[i], value), rest)]
           ends == {i \in 1 .. N : Over(i)}
           next == [i \in 1 .. N |-> X(i)]
           base == [i \in 1 .. N |-> Base8(i)]
           step == [i \in 1 .. N |-> [v \in V |-> Put(i, v)]]
           Eqn(g) == \A i \in 1 .. N : g[i] = IF Over(i) THEN Base8(i) ELSE Put(i, g[X(i)])
<1>1. N \in Nat /\ m \in Nat
  OBVIOUS
<1>2. \A i \in 1 .. N : ~Over(i) => X(i) \in i + 1 .. N /\ R(i) \in Tlv8s(ber)
  <2> SUFFICES ASSUME NEW i \in 1 .. N, ~Over(i)
               PROVE  X(i) \in i + 1 .. N /\ R(i) \in Tlv8s(ber)
    OBVIOUS
  <2>1. i \in 1 .. Len(b) /\ ~Tlv8Over(b, i, ber)
    BY <1>1
  <2>2. QED
    BY <2>1, Tlv8Found
<1>3. ASSUME NEW i \in 1 .. N, i \notin ends
      PROVE  step[i] \in [V -> V] /\ \A v \in V : step[i][v] = Put(i, v)
  <2>1. R(i) \in Tlv8s(ber)
    BY <1>2, <1>3
  <2>2. \A v \in V : Put(i, v) \in V
    <3> SUFFICES ASSUME NEW v \in V PROVE Put(i, v) \in V
      OBVIOUS
    <3> HIDE DEF R
    <3>1. QED
      BY <2>1, Put8Is
  <2> HIDE DEF V, Put
  <2>3. QED
    BY <2>2
<1>4. \A i \in 1 .. N : base[i] = Base8(i) /\ next[i] = X(i) /\ (i \in ends <=> Over(i))
  OBVIOUS
<1>5. \A g : Is(g) <=> g = [i \in 1 .. N |-> g[i]] /\ Eqn(g)
  <2> DEFINE B(g, i) ==
               IF i > Len(b) THEN Done(<<>>)
               ELSE LET l == Tlv8Length(b, i + 1, ber)
                        v == i + 1 + l.used
                    IN  IF l.used = 0 THEN Stopped
                        ELSE IF v + l.len > Len(b) + 1
                             THEN IF ber /\ Wraps(v, l.len)
                                  THEN Then(Record(b[i], Wild), Stopped) ELSE Stopped
                        ELSE LET value == Slice(b, v, l.len)
                                 rest  == g[v + l.len]
                             IN  IF ~ber /\ Merges(b[i], rest)
                                 THEN [rest EXCEPT !.items[1].value = value \o @]
                                 ELSE Then(Record(b[i], value), rest)
             C(g, i) == IF Over(i) THEN Base8(i) ELSE Put(i, g[X(i)])
  <2>1. ASSUME NEW g, NEW i \in 1 .. N PROVE B(g, i) = C(g, i)
    <3>1. CASE i > Len(b)
      BY <3>1
    <3>2. CASE ~(i > Len(b))
      <4> DEFINE l == Tlv8Length(b, i + 1, ber)
                 v == i + 1 + l.used
                 value == Slice(b, v, l.len)
                 rest == g[v + l.len]
                 p == Merged(value, rest)
                 q == Then(Record(b[i], value), rest)
                 wild == Then(Record(b[i], Wild), Stopped)
                 E == IF ber /\ l.used # 0 /\ Wraps(v, l.len) THEN wild ELSE Stopped
      <4>1. B(g, i) = IF l.used = 0 \/ v + l.len > Len(b) + 1 THEN E
                      ELSE IF ~ber /\ Merges(b[i], rest) THEN p ELSE q
        <5>1. B(g, i) = IF l.used = 0 THEN Stopped
                        ELSE IF v + l.len > Len(b) + 1
                             THEN IF ber /\ Wraps(v, l.len) THEN wild ELSE Stopped
                        ELSE IF ~ber /\ Merges(b[i], rest) THEN p ELSE q
          BY <3>2 DEF Merged
        <5> HIDE DEF B, p, q, wild, l, v, rest
        <5>2. QED
          BY <5>1
      <4>2. R(i) = Record(b[i], value) /\ X(i) = v + l.len
            /\ (Over(i) <=> l.used = 0 \/ v + l.len > Len(b) + 1)
            /\ Base8(i) = E
        BY <3>2 DEF Tlv8At, Tlv8Next, Tlv8Value, Tlv8Over, End8
      <4>3. Record(b[i], value).tag = b[i] /\ Record(b[i], value).value = value
        BY DEF Record
      <4> HIDE DEF R, X, Over, Base8, B, E
      <4>4. Put(i, g[X(i)]) = IF ~ber /\ Merges(b[i], rest) THEN p ELSE q
        BY <4>2, <4>3 DEF Put8
      <4>5. C(g, i) = IF l.used = 0 \/ v + l.len > Len(b) + 1 THEN E
                      ELSE IF ~ber /\ Merges(b[i], rest) THEN p ELSE q
        <5> HIDE DEF Put, p, q, rest
        <5>1. QED
          BY <3>2, <4>2, <4>4
      <4>6. QED
        BY <4>1, <4>5
    <3>3. QED
      BY <3>1, <3>2
  <2>2. \A g : Is(g) <=> g = [i \in 1 .. N |-> B(g, i)]
    OBVIOUS
  <2>3. \A g : Eqn(g) <=> \A i \in 1 .. N : g[i] = C(g, i)
    OBVIOUS
  <2> HIDE DEF Is, Eqn, B, C, N
  <2>4. QED
    BY <2>1, <2>2, <2>3
<1>6. \A i \in 1 .. N : Base8(i) \in V
  <2>1. ASSUME NEW i \in 1 .. N PROVE Base8(i) \in V
    <3>1. CASE i > Len(b)
      <4> DEFINE R8 == Read8s(ber)
                 nil == <<>>
      <4>1. nil \in Seq(R8) /\ Apart(nil, ber)
        BY DEF Apart
      <4> HIDE DEF R8, nil
      <4>2. Done(nil) \in Answers(R8) /\ Done(nil).items = nil
        BY <4>1 DEF Answers, Done
      <4>3. Done(nil) \in V
        BY <4>1, <4>2 DEF Answers8, R8
      <4>4. QED
        BY <3>1, <4>3 DEF nil
    <3>2. CASE ~(i > Len(b))
      <4>1. i \in 1 .. Len(b)
        BY <1>1, <3>2
      <4>2. End8(b, i, ber) \in V
        BY <4>1, End8Is
      <4>3. QED
        BY <3>2, <4>2
    <3>3. QED
      BY <3>1, <3>2
  <2>2. QED
    BY <2>1
<1> HIDE DEF Is, ends, next, base, step, V, R, X, Over, Base8
<1>7. AreParts(ends, next, base, step, N, V)
  <2>1. base = [i \in 1 .. N |-> base[i]]
    BY DEF base
  <2>2. base \in [1 .. N -> V]
    BY <1>4, <1>6, <2>1
  <2>3. QED
    BY <1>2, <1>3, <1>4, <2>2 DEF AreParts
<1>8. PICK f : Parses(f, ends, next, base, step, N, V)
  <2> HIDE DEF N
  <2>1. QED
    BY <1>1, <1>7, Parser
<1>9. Is(f)
  <2>1. f \in [1 .. N -> V] /\ \A i \in 1 .. N :
          f[i] = IF i \in ends THEN base[i] ELSE step[i][f[next[i]]]
    BY <1>8 DEF Parses
  <2>2. ASSUME NEW i \in 1 .. N, i \notin ends
        PROVE  f[i] = Put(i, f[X(i)])
    <3>1. X(i) \in 1 .. N /\ next[i] = X(i)
      <4>1. ~Over(i) /\ next[i] = X(i)
        BY <1>4, <2>2
      <4>2. X(i) \in i + 1 .. N
        BY <1>2, <4>1
      <4> DEFINE x == X(i)
      <4> HIDE DEF x, N
      <4>3. x \in i + 1 .. N
        BY <4>2 DEF x
      <4>4. x \in 1 .. N
        BY <1>1, <4>3
      <4>5. QED
        BY <4>1, <4>4 DEF x
    <3>2. f[X(i)] \in V
      BY <2>1, <3>1
    <3>3. step[i][f[X(i)]] = Put(i, f[X(i)])
      BY <1>3, <2>2, <3>2
    <3>4. QED
      BY <2>1, <2>2, <3>1, <3>3
  <2>3. Eqn(f)
    <3> HIDE DEF Put
    <3>1. QED
      BY <1>4, <2>1, <2>2
  <2>4. f = [i \in 1 .. N |-> f[i]]
    BY <2>1
  <2> HIDE DEF Eqn
  <2>5. QED
    BY <1>5, <2>3, <2>4
<1> DEFINE P == CHOOSE g : Is(g)
<1>10. Is(P)
  BY <1>9
<1>11. Tlv8Parse(b, ber) = P[1]
  BY DEF Tlv8Parse, Is
<1> HIDE DEF P
<1>12. P = [i \in 1 .. N |-> P[i]] /\ Eqn(P)
  <2> HIDE DEF Eqn
  <2>1. QED
    BY <1>5, <1>10
<1>13. Satisfies(P, ends, next, base, step, N, V)
  <2>1. ASSUME NEW i \in 1 .. N
        PROVE  \/ i \in ends /\ P[i] = base[i]
               \/ i \notin ends /\ (P[next[i]] \in V => P[i] = step[i][P[next[i]]])
    <3>1. CASE i \in ends
      BY <1>4, <1>12, <3>1
    <3>2. CASE i \notin ends
      <4> HIDE DEF Put
      <4>1. P[i] = Put(i, P[X(i)])
        BY <1>4, <1>12, <3>2
      <4>2. next[i] = X(i) /\ \A v \in V : step[i][v] = Put(i, v)
        BY <1>3, <1>4, <3>2
      <4>3. QED
        BY <3>2, <4>1, <4>2
    <3>3. QED
      BY <3>1, <3>2
  <2>2. QED
    BY <1>12, <2>1 DEF Satisfies
<1>14. P \in [1 .. N -> V]
  <2>1. Parses(P, ends, next, base, step, N, V)
    <3> HIDE DEF N
    <3>1. QED
      BY <1>1, <1>7, <1>13, TheParser
  <2>2. QED
    BY <2>1 DEF Parses
<1>15. P[Len(b) + 1] = Done(<<>>)
  <2>1. m + 1 \in 1 .. N /\ m + 1 > m
    BY <1>1
  <2>2. Over(m + 1) /\ Base8(m + 1) = Done(<<>>)
    BY <2>1 DEF Over, Base8
  <2> HIDE DEF Put
  <2>3. P[m + 1] = Done(<<>>)
    BY <1>12, <2>1, <2>2
  <2>4. QED
    BY <2>3
<1>16. ASSUME NEW i \in 1 .. Len(b)
       PROVE  P[i] = IF Tlv8Over(b, i, ber) THEN End8(b, i, ber)
                     ELSE Put8(Tlv8At(b, i, ber), P[Tlv8Next(b, i, ber)], ber)
  <2>1. i \in 1 .. N /\ ~(i > m)
    BY <1>1
  <2>2. (Over(i) <=> Tlv8Over(b, i, ber)) /\ Base8(i) = End8(b, i, ber)
    BY <2>1 DEF Over, Base8
  <2>3. P[i] = IF Over(i) THEN Base8(i) ELSE Put(i, P[X(i)])
    <3> HIDE DEF Put
    <3>1. QED
      BY <1>12, <2>1
  <2>4. QED
    BY <2>2, <2>3 DEF R, X
<1>17. Tlv8Is(P, b, ber)
  BY <1>11, <1>14, <1>15, <1>16 DEF Tlv8Is, V
<1>18. QED
  BY <1>17

-----------------------------------------------------------------------------
\* The k-th chunk of a value, what is left of the value from there on, and the
\* bytes of the chunks.
Chunk8(v, k) ==
  SubSeq(v, (k - 1) * (Base - 1) + 1,
         IF k = Tlv8Count(Len(v)) THEN Len(v) ELSE k * (Base - 1))
Rest8(v, k) == SubSeq(v, (k - 1) * (Base - 1) + 1, Len(v))

Chunks8(r) ==
  [k \in 1 .. Tlv8Count(Len(r.value)) |->
     <<r.tag, Len(Chunk8(r.value, k))>> \o Chunk8(r.value, k)]

\* A chunk is what is left but for the rest behind it, and one byte counts it.
IsChunk8(v, k, count) ==
  /\ Chunk8(v, k) \in Seq(Byte) /\ Rest8(v, k) \in Seq(Byte)
  /\ Len(Chunk8(v, k)) \in Byte
  /\ Len(Chunk8(v, k))
       = IF k = count THEN Len(v) - (k - 1) * (Base - 1) ELSE Base - 1
  /\ Rest8(v, k) = IF k = count THEN Chunk8(v, k) ELSE Chunk8(v, k) \o Rest8(v, k + 1)

\* The chunks of a value make the value.
LEMMA Chunks8Are ==
  ASSUME NEW v \in Seq(Byte)
  PROVE  LET count == Tlv8Count(Len(v))
         IN  /\ count \in Nat \ {0} /\ Rest8(v, 1) = v
             /\ \A k \in 1 .. count : IsChunk8(v, k, count)
<1> DEFINE n == Len(v)
           d == Base - 1
           count == Tlv8Count(n)
<1>1. n \in Nat /\ d \in Nat \ {0} /\ Base \in Nat /\ d < Base
  BY OctetAssumption
<1>2. count = Count(n, d)
  <2>1. n + Base - 2 = n + d - 1
    BY <1>1
  <2>2. QED
    BY <2>1 DEF Tlv8Count, Count
<1>3. /\ count \in Nat \ {0} /\ n <= count * d
      /\ \A k \in 0 .. count - 1 : k * d \in Nat /\ k * d <= n
      /\ \A k \in 1 .. count - 1 : k * d < n
  <2> HIDE DEF n, d, count
  <2>1. QED
    BY <1>1, <1>2, CountIs
<1> HIDE DEF count
<1>4. Rest8(v, 1) = v
  <2>1. (1 - 1) * d + 1 = 1
    BY <1>1
  <2>2. Rest8(v, 1) = SubSeq(v, 1, Len(v))
    BY <2>1 DEF Rest8
  <2>3. QED
    BY <2>2, SubSeqFull
<1>5. ASSUME NEW k \in 1 .. count PROVE IsChunk8(v, k, count)
  <2> DEFINE a == (k - 1) * d
             z == k * d
  <2>1. a \in Nat /\ a <= n
    <3>1. k - 1 \in 0 .. count - 1
      BY <1>3
    <3>2. QED
      BY <1>3, <3>1
  <2>2. z = a + d /\ z \in Nat
    <3>1. k \in Nat \ {0}
      BY <1>3
    <3>2. QED
      BY <1>1, <3>1
  <2>3. k # count => z < n
    <3>1. k # count => k \in 1 .. count - 1
      BY <1>3
    <3>2. QED
      BY <1>3, <3>1
  <2>4. k = count => n <= z
    BY <1>3
  <2>5. Chunk8(v, k) = SubSeq(v, a + 1, IF k = count THEN n ELSE z)
        /\ Rest8(v, k) = SubSeq(v, a + 1, n)
    BY DEF Chunk8, Rest8, count
  <2>6. Rest8(v, k + 1) = SubSeq(v, z + 1, n)
    <3>1. (k + 1) - 1 = k
      OBVIOUS
    <3>2. QED
      BY <3>1 DEF Rest8
  <2>7. IF k = count THEN n - a = Len(v) - (k - 1) * (Base - 1) ELSE TRUE
    OBVIOUS
  <2> HIDE DEF a, z
  <2>8. CASE k = count
    <3> DEFINE s == SubSeq(v, a + 1, n)
    <3>1. s \in Seq(Byte) /\ Len(s) = n - a
      <4>1. \A i \in a + 1 .. n : v[i] \in Byte
        BY <2>1
      <4> HIDE DEF n
      <4>2. a + 1 \in Int /\ n \in Int
        BY <1>1, <2>1
      <4>3. s \in Seq(Byte) /\ Len(s) = IF a + 1 <= n THEN n - (a + 1) + 1 ELSE 0
        BY <4>1, <4>2, SubSeqProperties
      <4>4. QED
        BY <1>1, <2>1, <4>3
    <3>2. n - a \in Byte
      BY <1>1, <2>1, <2>2, <2>4, <2>8 DEF Byte
    <3> HIDE DEF s
    <3>3. Chunk8(v, k) = s /\ Rest8(v, k) = s
      BY <2>5, <2>8 DEF s
    <3>4. Len(s) = Len(v) - (k - 1) * (Base - 1)
      BY <3>1 DEF a
    <3>5. QED
      BY <2>8, <3>1, <3>2, <3>3, <3>4 DEF IsChunk8
  <2>9. CASE k # count
    <3> DEFINE s == SubSeq(v, a + 1, z)
               t == SubSeq(v, a + 1, n)
               u == SubSeq(v, z + 1, n)
    <3>1. z < n /\ a + 1 \in 1 .. n + 1 /\ z \in (a + 1) - 1 .. n /\ n \in z .. n
      BY <1>1, <2>1, <2>2, <2>3, <2>9
    <3>2. s \in Seq(Byte) /\ Len(s) = d
      <4>1. \A i \in a + 1 .. z : v[i] \in Byte
        BY <2>1, <2>2, <3>1
      <4>2. a + 1 \in Int /\ z \in Int
        BY <2>1, <2>2
      <4>3. s \in Seq(Byte) /\ Len(s) = IF a + 1 <= z THEN z - (a + 1) + 1 ELSE 0
        BY <4>1, <4>2, SubSeqProperties
      <4>4. QED
        BY <1>1, <2>1, <2>2, <4>3
    <3>3. t \in Seq(Byte)
      BY <2>1
    <3>4. s \o u = t
      <4> DEFINE o == a + 1
      <4>1. o \in 1 .. Len(v) + 1 /\ z \in o - 1 .. Len(v) /\ n \in z .. Len(v)
        BY <3>1
      <4> HIDE DEF o, n
      <4>2. SubSeq(v, o, z) \o SubSeq(v, z + 1, n) = SubSeq(v, o, n)
        BY <4>1, ConcatAdjacentSubSeq
      <4>3. QED
        BY <4>2 DEF o
    <3>5. d \in Byte
      BY <1>1 DEF Byte
    <3> HIDE DEF s, t, u
    <3>6. Chunk8(v, k) = s /\ Rest8(v, k) = t /\ Rest8(v, k + 1) = u
      BY <2>5, <2>6, <2>9 DEF s, t, u
    <3>7. QED
      BY <2>9, <3>2, <3>3, <3>4, <3>5, <3>6 DEF IsChunk8
  <2>10. QED
    BY <2>8, <2>9
<1>6. QED
  BY <1>3, <1>4, <1>5 DEF count

\* Outside BER a record with a value that one byte counts is its tag, the count and
\* the value.
LEMMA ShortIs ==
  ASSUME NEW t \in Byte, NEW c \in Seq(Byte), Len(c) \in Byte
  PROVE  /\ IsTlv8(<<t, Len(c)>> \o c, Record(t, c), FALSE)
         /\ Record(t, c) \in Tlv8s(FALSE)
<1> DEFINE n == Len(c)
           f == <<n>>
<1>1. <<t, n>> = <<t>> \o f
  OBVIOUS
<1>2. IsField(f, n, FALSE)
  BY DEF IsField
<1>3. Record(t, c).tag = t /\ Record(t, c).value = c
  BY DEF Record
<1>4. IsTlv8(<<t, n>> \o c, Record(t, c), FALSE)
  <2> HIDE DEF f
  <2>1. <<t, n>> \o c = <<t>> \o f \o c
    BY <1>1
  <2>2. QED
    BY <1>2, <1>3, <2>1 DEF IsTlv8
<1>5. Record(t, c) \in Tlv8s(FALSE)
  BY DEF Tlv8s, Record
<1>6. QED
  BY <1>4, <1>5

\* The chunks are strings of bytes.
LEMMA Chunks8Bytes ==
  ASSUME NEW r \in Tlv8s(FALSE)
  PROVE  /\ Chunks8(r) \in Seq(Seq(Byte))
         /\ Len(Chunks8(r)) = Tlv8Count(Len(r.value))
         /\ \A k \in 1 .. Tlv8Count(Len(r.value)) :
              Len(Chunks8(r)[k]) = 2 + Len(Chunk8(r.value, k))
         /\ Tlv8Chunks(r) = FlattenSeq(Chunks8(r))
         /\ Tlv8Chunks(r) \in Seq(Byte)
<1> DEFINE v == r.value
           t == r.tag
           count == Tlv8Count(Len(v))
           ss == Chunks8(r)
           E(k) == <<t, Len(Chunk8(v, k))>> \o Chunk8(v, k)
<1>1. v \in Seq(Byte) /\ t \in Byte
  BY DEF Tlv8s
<1>2. count \in Nat \ {0} /\ \A k \in 1 .. count : IsChunk8(v, k, count)
  <2> HIDE DEF v
  <2>1. QED
    BY <1>1, Chunks8Are
<1>3. ss = [k \in 1 .. count |-> E(k)]
  BY DEF Chunks8
<1>4. ASSUME NEW k \in 1 .. count
      PROVE  E(k) \in Seq(Byte) /\ Len(E(k)) = 2 + Len(Chunk8(v, k))
  <2> DEFINE c == Chunk8(v, k)
             h == <<t, Len(c)>>
  <2>1. c \in Seq(Byte) /\ Len(c) \in Byte
    BY <1>2 DEF IsChunk8
  <2>2. h \in Seq(Byte) /\ Len(h) = 2
    <3> HIDE DEF c, t
    <3>1. QED
      BY <1>1, <2>1
  <2> HIDE DEF h, c
  <2>3. h \o c \in Seq(Byte) /\ Len(h \o c) = Len(h) + Len(c)
    BY <2>1, <2>2, ConcatProperties
  <2>4. QED
    BY <2>2, <2>3 DEF h, c
<1> HIDE DEF count, E, ss
<1>5. ss \in Seq(Seq(Byte)) /\ Len(ss) = count /\ \A k \in 1 .. count : ss[k] = E(k)
  <2>1. \A k \in 1 .. count : E(k) \in Seq(Byte)
    BY <1>4
  <2>2. QED
    BY <1>2, <1>3, <2>1
<1>6. Tlv8Chunks(r) = FlattenSeq(ss)
  BY DEF Tlv8Chunks, Chunks8, Chunk8, ss
<1>7. FlattenSeq(ss) \in Seq(Byte)
  <2>1. <<>> \in Seq(Byte)
    OBVIOUS
  <2>2. QED
    BY <1>5, <2>1, FlattenCons
<1>8. QED
  BY <1>4, <1>5, <1>6, <1>7 DEF count, ss

\* In b come the chunks of r, and behind them x, with another tag or nothing.
Chunked8(P, b, pre, r, post, x) ==
  /\ Tlv8Is(P, b, FALSE)
  /\ b = pre \o Tlv8Chunks(r) \o post
  /\ x = P[Len(pre) + Len(Tlv8Chunks(r)) + 1] /\ ~Merges(r.tag, x)

\* The answer from i on: a record and then x.
Answers8At(P, i, r, x) == P[i] = Then(r, x)

\* Such chunks are read as one record.
LEMMA Chunks8Read ==
  ASSUME NEW pre \in Seq(Byte), NEW post \in Seq(Byte), NEW r \in Tlv8s(FALSE),
         NEW b, NEW P, NEW x, Chunked8(P, b, pre, r, post, x)
  PROVE  Answers8At(P, Len(pre) + 1, r, x)
<1> DEFINE v == r.value
           t == r.tag
           count == Tlv8Count(Len(v))
           ss == Chunks8(r)
           Q == [k \in 1 .. count + 1 |->
                   IF k = count + 1 THEN x ELSE Then(Record(t, Rest8(v, k)), x)]
<1>1. v \in Seq(Byte) /\ t \in Byte /\ r = Record(t, v)
  BY DEF Tlv8s, Record
<1>2. count \in Nat \ {0} /\ Rest8(v, 1) = v /\ \A k \in 1 .. count : IsChunk8(v, k, count)
  <2> HIDE DEF v
  <2>1. QED
    BY <1>1, Chunks8Are
<1>3. /\ ss \in Seq(Seq(Byte)) /\ Len(ss) = count
      /\ Tlv8Chunks(r) = FlattenSeq(ss) /\ Tlv8Chunks(r) \in Seq(Byte)
  BY Chunks8Bytes
<1>4. \A k \in 1 .. count : ss[k] = <<t, Len(Chunk8(v, k))>> \o Chunk8(v, k)
  BY DEF Chunks8
<1>5. /\ P \in [1 .. Len(b) + 1 -> Answers8(FALSE)]
      /\ \A i \in 1 .. Len(b) :
           P[i] = IF Tlv8Over(b, i, FALSE) THEN End8(b, i, FALSE)
                  ELSE Put8(Tlv8At(b, i, FALSE), P[Tlv8Next(b, i, FALSE)], FALSE)
  BY DEF Tlv8Is, Chunked8
<1>6. x \in Answers(Tlv8s(FALSE))
  <2> DEFINE w == Tlv8Chunks(r)
             j == Len(pre) + Len(w) + 1
  <2>1. w \in Seq(Byte) /\ b = pre \o w \o post
    BY <1>3 DEF Chunked8
  <2>2. x = P[j]
    BY DEF Chunked8
  <2> HIDE DEF w
  <2>3. Joined(b, Byte, pre, w, post)
    BY <2>1, JoinedIs
  <2>4. j \in 1 .. Len(b) + 1
    <3>1. Len(b) = Len(pre) + Len(w) + Len(post)
      BY <2>3 DEF Joined
    <3>2. QED
      BY <2>1, <3>1
  <2> HIDE DEF j
  <2>5. QED
    BY <1>5, <2>2, <2>4 DEF Answers8, Read8s
<1> HIDE DEF v, t, count, ss
<1>7. Follows(P, Q, ss, b, Byte)
  <2> SUFFICES ASSUME NEW k \in 1 .. count, NEW p \in Seq(Byte), NEW q \in Seq(Byte),
                      b = p \o ss[k] \o q, P[Len(p) + Len(ss[k]) + 1] = Q[k + 1]
               PROVE  P[Len(p) + 1] = Q[k]
    BY <1>3 DEF Follows
  <2> DEFINE c == Chunk8(v, k)
             s == Rest8(v, k + 1)
             e == ss[k]
             i == Len(p) + 1
             j == Len(p) + Len(e) + 1
             g == Record(t, c)
  <2>1. /\ c \in Seq(Byte) /\ Len(c) \in Byte
        /\ Rest8(v, k) = IF k = count THEN c ELSE c \o s
    BY <1>2 DEF IsChunk8
  <2>2. IsTlv8(e, g, FALSE) /\ g \in Tlv8s(FALSE)
    <3>1. e = <<t, Len(c)>> \o c
      BY <1>4
    <3> HIDE DEF c, e
    <3>2. QED
      BY <1>1, <2>1, <3>1, ShortIs
  <2>3. Tlv8Reads(b, i, g, j, FALSE)
    <3>1. b = p \o e \o q
      OBVIOUS
    <3> HIDE DEF e, g
    <3>2. QED
      BY <2>2, <3>1, Tlv8Taken
  <2>4. i \in 1 .. Len(b)
    <3>1. i <= Len(b)
      BY <2>3 DEF Tlv8Reads
    <3>2. i \in Nat \ {0} /\ Len(b) \in Nat
      <4>1. Joined(b, Byte, p, e, q)
        <5>1. e \in Seq(Byte) /\ b = p \o e \o q
          BY <1>3
        <5> HIDE DEF e
        <5>2. QED
          BY <5>1, JoinedIs
      <4>2. QED
        BY <4>1 DEF Joined
    <3> HIDE DEF i
    <3>3. QED
      BY <3>1, <3>2
  <2>5. P[j] = Q[k + 1]
    OBVIOUS
  <2> HIDE DEF i, j, g, c, s, e
  <2>6. P[i] = Put8(g, P[j], FALSE)
    BY <1>5, <2>3, <2>4 DEF Tlv8Reads
  <2>7. g.tag = t /\ g.value = c
    BY DEF g, Record
  <2>8. CASE k = count
    <3>1. k + 1 \in 1 .. count + 1 /\ k + 1 = count + 1 /\ k # count + 1
          /\ k \in 1 .. count + 1
      BY <1>2, <2>8
    <3>2. Q[k + 1] = x /\ Q[k] = Then(Record(t, c), x)
      BY <2>1, <2>8, <3>1
    <3> HIDE DEF Q
    <3>3. ~Merges(g.tag, P[j])
      BY <2>5, <2>7, <3>2 DEF t, Chunked8
    <3>4. P[i] = Then(g, P[j])
      BY <2>6, <3>3 DEF Put8
    <3>5. QED
      BY <2>5, <3>2, <3>4 DEF g, i
  <2>9. CASE k # count
    <3>1. k + 1 \in 1 .. count + 1 /\ k + 1 # count + 1 /\ k # count + 1
          /\ k \in 1 .. count + 1 /\ k + 1 \in 1 .. count
      BY <1>2, <2>9
    <3>2. Q[k + 1] = Then(Record(t, s), x) /\ Q[k] = Then(Record(t, c \o s), x)
      BY <2>1, <2>9, <3>1 DEF s
    <3> HIDE DEF Q
    <3> DEFINE R == Tlv8s(FALSE)
               h == Record(t, s)
    <3>3. h \in R
      <4>1. s \in Seq(Byte)
        BY <1>2, <3>1 DEF s, IsChunk8
      <4>2. QED
        BY <1>1, <4>1 DEF Tlv8s, Record
    <3>4. Merges(t, Then(h, x))
      <4>1. Then(h, x).items = <<h>> \o x.items
        <5>1. x \in Answers(R) /\ h \in R
          BY <1>6, <3>3
        <5> HIDE DEF h, R
        <5>2. Then(h, x).items = <<h>> \o x.items
          BY <5>1, ThenIs
        <5>3. QED
          BY <5>2
      <4>2. <<h>> \o x.items # <<>> /\ (<<h>> \o x.items)[1] = h
        <5> DEFINE z == x.items
        <5>1. z \in Seq(R)
          BY <1>6 DEF Answers
        <5> HIDE DEF z, h, R
        <5>2. <<h>> \o z \in Seq(R) /\ Len(<<h>> \o z) = Len(z) + 1
              /\ (<<h>> \o z)[1] = h /\ Len(z) \in Nat
          BY <3>3, <5>1, OneThen
        <5>3. <<h>> \o z # <<>>
          BY <5>2
        <5>4. QED
          BY <5>2, <5>3 DEF z
      <4>3. h.tag = t
        BY DEF Record
      <4> HIDE DEF h
      <4>4. QED
        BY <4>1, <4>2, <4>3 DEF Merges
    <3>5. P[i] = Merged(c, Then(h, x))
      <4> HIDE DEF h
      <4>1. P[j] = Then(h, x)
        BY <2>5, <3>2 DEF h
      <4>2. QED
        BY <2>6, <2>7, <3>4, <4>1 DEF Put8
    <3>6. Merged(c, Then(h, x)) = Then(Record(t, c \o s), x)
      <4>1. Record(t, s) \in R /\ x \in Answers(R)
        BY <1>6, <3>3
      <4> HIDE DEF R
      <4>2. QED
        BY <4>1, MergedIs
    <3>7. QED
      BY <3>2, <3>5, <3>6 DEF i
  <2>10. QED
    BY <2>8, <2>9
<1>8. Q[count + 1] = x /\ Q[1] = Then(Record(t, v), x)
  <2>1. count + 1 \in 1 .. count + 1 /\ 1 \in 1 .. count + 1 /\ 1 # count + 1
    BY <1>2
  <2>2. QED
    BY <1>2, <2>1
<1> HIDE DEF Q
<1>9. P[Len(pre) + 1] = Q[1]
  <2>1. b = pre \o FlattenSeq(ss) \o post
        /\ P[Len(pre) + Len(FlattenSeq(ss)) + 1] = Q[Len(ss) + 1]
    BY <1>3, <1>8 DEF Chunked8
  <2>2. ss \in Seq(Seq(Byte))
    BY <1>3
  <2>3. Expects(P, Q, ss, pre, post, b, Byte)
    BY <1>7, <2>1 DEF Expects
  <2>4. QED
    BY <2>2, <2>3, Backward
<1>10. QED
  BY <1>1, <1>8, <1>9 DEF Answers8At

-----------------------------------------------------------------------------
\* The bytes of a record as TLV8::get writes it.
Code8(r, ber) ==
  IF ber THEN <<r.tag>> \o WriteLength(Len(r.value)) \o r.value ELSE Tlv8Chunks(r)

Codes8(rs, ber) == [k \in DOMAIN rs |-> Code8(rs[k], ber)]

\* In BER they are a record's bytes, with a length as short as can be.
LEMMA LongIs ==
  ASSUME NEW r \in Tlv8s(TRUE)
  PROVE  IsTlv8(Code8(r, TRUE), r, TRUE) /\ Code8(r, TRUE) \in Seq(Byte)
<1> DEFINE n == Len(r.value)
           f == WriteLength(n)
           e == Code8(r, TRUE)
           nil == <<>>
<1>1. n \in Nat /\ Fits(n, WordBytes)
  BY DEF Tlv8s
<1> HIDE DEF n
<1>2. IsField(f, n, TRUE)
  BY <1>1, LengthWritten DEF IsField
<1>3. e = <<r.tag>> \o f \o r.value
  BY DEF Code8, n
<1>4. IsTlv8(e, r, TRUE)
  BY <1>2, <1>3 DEF IsTlv8, n
<1>5. nil \in Seq(Byte) /\ nil \o e \o nil = nil \o e \o nil
  OBVIOUS
<1> HIDE DEF e, nil
<1>6. e \in Seq(Byte)
  BY <1>4, <1>5, Tlv8Taken
<1>7. QED
  BY <1>4, <1>6 DEF e

\* All of them: strings of bytes one after the other.
LEMMA Codes8Are ==
  ASSUME NEW ber \in BOOLEAN, NEW rs \in Seq(Tlv8s(ber))
  PROVE  /\ Codes8(rs, ber) \in Seq(Seq(Byte)) /\ Len(Codes8(rs, ber)) = Len(rs)
         /\ \A k \in 1 .. Len(rs) : Codes8(rs, ber)[k] = Code8(rs[k], ber)
         /\ Tlv8Pack(rs, ber) = FlattenSeq(Codes8(rs, ber))
         /\ Tlv8Pack(rs, ber) \in Seq(Byte)
<1> DEFINE n == Len(rs)
           ss == Codes8(rs, ber)
           C(k) == Code8(rs[k], ber)
<1>1. n \in Nat /\ DOMAIN rs = 1 .. n
  OBVIOUS
<1>2. ASSUME NEW k \in 1 .. n PROVE C(k) \in Seq(Byte)
  <2> DEFINE r == rs[k]
  <2>1. r \in Tlv8s(ber)
    OBVIOUS
  <2> HIDE DEF r
  <2>2. CASE ber = TRUE
    BY <2>1, <2>2, LongIs DEF r
  <2>3. CASE ber = FALSE
    <3>1. Tlv8Chunks(r) \in Seq(Byte)
      BY <2>1, <2>3, Chunks8Bytes
    <3>2. QED
      BY <2>3, <3>1 DEF Code8, r
  <2>4. QED
    BY <2>2, <2>3
<1> HIDE DEF C
<1>3. ss = [k \in 1 .. n |-> C(k)]
  BY <1>1 DEF Codes8, C
<1>4. Tlv8Pack(rs, ber) = FlattenSeq(ss)
  BY DEF Tlv8Pack, Codes8, Code8
<1> HIDE DEF ss, n
<1>5. ss \in Seq(Seq(Byte)) /\ Len(ss) = n /\ \A k \in 1 .. n : ss[k] = C(k)
  BY <1>1, <1>2, <1>3
<1>6. FlattenSeq(ss) \in Seq(Byte)
  <2>1. <<>> \in Seq(Byte)
    OBVIOUS
  <2>2. QED
    BY <1>5, <2>1, FlattenCons
<1>7. QED
  BY <1>4, <1>5, <1>6 DEF C, ss, n

\* Records that are apart, and whose values a length can count, are read back.
LEMMA Tlv8RoundTrip ==
  ASSUME NEW ber \in BOOLEAN, NEW rs \in Seq(Tlv8s(ber)), Apart(rs, ber)
  PROVE  Tlv8Parse(Tlv8Pack(rs, ber), ber) = Done(rs)
<1> DEFINE n == Len(rs)
           ss == Codes8(rs, ber)
           b == Tlv8Pack(rs, ber)
           Q == [k \in 1 .. n + 1 |-> Done(SubSeq(rs, k, n))]
<1>1. n \in Nat
  OBVIOUS
<1>2. /\ ss \in Seq(Seq(Byte)) /\ Len(ss) = n
      /\ \A k \in 1 .. n : ss[k] = Code8(rs[k], ber)
      /\ b = FlattenSeq(ss) /\ b \in Seq(Byte)
  BY Codes8Are
<1> HIDE DEF b, ss
<1>3. PICK P : Tlv8Is(P, b, ber)
  BY <1>2, Tlv8IsRead
<1>4. /\ P[Len(b) + 1] = Done(<<>>) /\ Tlv8Parse(b, ber) = P[1]
      /\ \A i \in 1 .. Len(b) :
           P[i] = IF Tlv8Over(b, i, ber) THEN End8(b, i, ber)
                  ELSE Put8(Tlv8At(b, i, ber), P[Tlv8Next(b, i, ber)], ber)
  BY <1>3 DEF Tlv8Is
<1>5. Follows(P, Q, ss, b, Byte)
  <2> SUFFICES ASSUME NEW k \in 1 .. n, NEW p \in Seq(Byte), NEW q \in Seq(Byte),
                      b = p \o ss[k] \o q, P[Len(p) + Len(ss[k]) + 1] = Q[k + 1]
               PROVE  P[Len(p) + 1] = Q[k]
    BY <1>2 DEF Follows
  <2> DEFINE e == ss[k]
             r == rs[k]
             i == Len(p) + 1
             j == Len(p) + Len(e) + 1
             u == SubSeq(rs, k + 1, n)
             x == Done(u)
  <2>1. r \in Tlv8s(ber) /\ e = Code8(r, ber) /\ e \in Seq(Byte) /\ b = p \o e \o q
    BY <1>2
  <2>2. k \in 1 .. n + 1 /\ k + 1 \in 1 .. n + 1
    BY <1>1
  <2>3. Q[k + 1] = x /\ Q[k] = Done(SubSeq(rs, k, n)) /\ P[j] = Q[k + 1]
    BY <2>2
  <2> HIDE DEF Q, e
  <2>4. Then(r, x) = Done(SubSeq(rs, k, n))
    <3>1. k \in 1 .. Len(rs) /\ n \in k .. Len(rs)
      BY <1>1
    <3>2. SubSeq(rs, k, n) = <<r>> \o u
      BY <3>1, SubSeqRecursiveFirst
    <3> DEFINE v == SubSeq(rs, k, n)
    <3>3. v = <<r>> \o u
      BY <3>2
    <3> HIDE DEF u, v, r
    <3>4. Then(r, Done(u)) = Done(<<r>> \o u)
      BY ThenDone
    <3>5. QED
      BY <3>3, <3>4 DEF v
  <2>5. P[i] = Then(r, P[j])
    <3>1. CASE ber = TRUE
      <4>1. Tlv8Reads(b, i, r, j, ber)
        <5>1. IsTlv8(e, r, ber)
          BY <2>1, <3>1, LongIs
        <5> HIDE DEF r
        <5>2. QED
          BY <2>1, <5>1, Tlv8Taken
      <4>2. i \in 1 .. Len(b)
        <5>1. i <= Len(b)
          BY <4>1 DEF Tlv8Reads
        <5>2. i \in Nat \ {0} /\ Len(b) \in Nat
          BY <1>2
        <5> HIDE DEF i
        <5>3. QED
          BY <5>1, <5>2
      <4> HIDE DEF i, j, r
      <4>3. P[i] = Put8(r, P[j], ber)
        BY <1>4, <4>1, <4>2 DEF Tlv8Reads
      <4>4. QED
        BY <3>1, <4>3 DEF Put8
    <3>2. CASE ber = FALSE
      <4>1. e = Tlv8Chunks(r) /\ r \in Tlv8s(FALSE) /\ Tlv8Is(P, b, FALSE)
        BY <1>3, <2>1, <3>2 DEF Code8
      <4>2. ~Merges(r.tag, x)
        <5>1. CASE k = n
          <6>1. u = <<>>
            BY <1>1, <5>1
          <6>2. x.items = <<>>
            BY <6>1 DEF Done
          <6>3. QED
            BY <6>2 DEF Merges
        <5>2. CASE k # n
          <6>1. k + 1 \in 1 .. n /\ k \in 1 .. n - 1
            BY <1>1, <5>2
          <6>2. u[1] = rs[k + 1]
            BY <1>1, <6>1
          <6>3. rs[k].tag # rs[k + 1].tag
            BY <3>2, <6>1 DEF Apart
          <6>4. x.items = u
            BY DEF Done
          <6> HIDE DEF u, x
          <6>5. QED
            BY <6>2, <6>3, <6>4 DEF Merges
        <5>3. QED
          BY <5>1, <5>2
      <4>3. P[j] = x
        BY <2>3
      <4> HIDE DEF x, r
      <4>4. b = p \o Tlv8Chunks(r) \o q /\ x = P[Len(p) + Len(Tlv8Chunks(r)) + 1]
        BY <2>1, <4>1, <4>3
      <4>5. Chunked8(P, b, p, r, q, x) /\ r \in Tlv8s(FALSE)
        BY <4>1, <4>2, <4>4 DEF Chunked8
      <4>6. Answers8At(P, Len(p) + 1, r, x)
        BY <4>5, Chunks8Read
      <4>7. QED
        BY <4>3, <4>6 DEF Answers8At
    <3>3. QED
      BY <3>1, <3>2
  <2>6. QED
    BY <2>3, <2>4, <2>5
<1>6. Q[n + 1] = Done(<<>>) /\ Q[1] = Done(rs)
  <2>1. n + 1 \in 1 .. n + 1 /\ 1 \in 1 .. n + 1
    BY <1>1
  <2>2. SubSeq(rs, n + 1, n) = <<>> /\ SubSeq(rs, 1, n) = rs
    BY <1>1, SubSeqFull
  <2>3. QED
    BY <2>1, <2>2
<1> HIDE DEF Q
<1>7. P[1] = Q[1]
  <2> DEFINE nil == <<>>
             N == Len(b) + 1
  <2>1. nil \in Seq(Byte) /\ Len(nil) = 0
    OBVIOUS
  <2>2. nil \o b \o nil = b
    BY <1>2, ConcatEmptySeq
  <2> HIDE DEF nil
  <2>3. Len(nil) + Len(b) + 1 = N /\ Len(nil) + 1 = 1
    BY <1>2, <2>1
  <2>4. P[Len(nil) + Len(b) + 1] = Q[n + 1]
    BY <1>4, <1>6, <2>3
  <2>5. Expects(P, Q, ss, nil, nil, b, Byte)
    BY <1>2, <1>5, <2>2, <2>4 DEF Expects
  <2>6. P[Len(nil) + 1] = Q[1]
    <3>1. ss \in Seq(Seq(Byte)) /\ nil \in Seq(Byte)
      BY <1>2, <2>1
    <3>2. QED
      BY <2>5, <3>1, Backward
  <2>7. QED
    BY <2>3, <2>6
<1>8. QED
  BY <1>4, <1>6, <1>7 DEF b

\* What TLV8::parse keeps is such records.
LEMMA Tlv8Kept ==
  ASSUME NEW b \in Seq(Byte), NEW ber \in BOOLEAN, Defined(Tlv8Parse(b, ber).items)
  PROVE  LET kept == Tlv8Parse(b, ber).items
         IN  kept \in Seq(Tlv8s(ber)) /\ Apart(kept, ber)
<1> DEFINE kept == Tlv8Parse(b, ber).items
<1>1. PICK P : Tlv8Is(P, b, ber)
  BY Tlv8IsRead
<1>2. 1 \in 1 .. Len(b) + 1
  OBVIOUS
<1>3. Tlv8Parse(b, ber) \in Answers8(ber)
  BY <1>1, <1>2 DEF Tlv8Is
<1>4. kept \in Seq(Read8s(ber)) /\ Apart(kept, ber) /\ Defined(kept)
  BY <1>3 DEF Answers8, Answers
<1> HIDE DEF kept
<1>5. ASSUME NEW k \in 1 .. Len(kept) PROVE kept[k] \in Tlv8s(ber)
  <2>1. kept[k] \in Read8s(ber) /\ kept[k].value # Wild
    BY <1>4 DEF Defined
  <2>2. QED
    BY <2>1 DEF Read8s, Wild8s
<1>6. kept \in Seq(Tlv8s(ber))
  BY <1>4, <1>5
<1>7. QED
  BY <1>4, <1>6 DEF kept

(***************************************************************************)
(* Whatever bytes a parser is given, if no length in them wraps, what it   *)
(* keeps is written and parsed again to the same, and what BerTlv.cpp      *)
(* keeps of a beginning is a beginning of what it keeps of the whole       *)
(* (BerTlv.cpp:78-113, TLV8.hpp:276-361): for a byte of any width, buffers *)
(* anywhere below the top of memory, and with no bound on what is read.    *)
(* What is kept has lengths that a word holds, because it was read by      *)
(* them, and no two records of one tag that TLV8 would merge.              *)
(***************************************************************************)
THEOREM TlvStableRight == Spec => []TlvStable
<1>1. ASSUME NEW b \in Seq(Byte), NEW ber \in BOOLEAN
      PROVE  LET p == Tlv8Parse(b, ber)
             IN  Defined(p.items) =>
                   Tlv8Parse(Tlv8Pack(p.items, ber), ber) = Done(p.items)
  <2> DEFINE kept == Tlv8Parse(b, ber).items
  <2>1. SUFFICES ASSUME Defined(kept)
                 PROVE  Tlv8Parse(Tlv8Pack(kept, ber), ber) = Done(kept)
    BY Zenon
  <2>2. kept \in Seq(Tlv8s(ber)) /\ Apart(kept, ber)
    BY <2>1, Tlv8Kept
  <2> HIDE DEF kept
  <2>3. QED
    BY <2>2, Tlv8RoundTrip
<1>2. ASSUME NEW b \in Seq(Byte)
      PROVE  LET kept == BerParse(b)
             IN  Defined(kept) => BerParse(BerPack(kept)) = kept
  <2> DEFINE kept == BerParse(b)
  <2>1. SUFFICES ASSUME Defined(kept) PROVE BerParse(BerPack(kept)) = kept
    BY Zenon
  <2>2. kept \in Seq(GoodTlvs)
    BY <2>1, BerKept
  <2> HIDE DEF kept
  <2>3. QED
    BY <2>2, BerRoundTrip
<1>3. ASSUME NEW b \in Seq(Byte), NEW n \in 0 .. Len(b)
      PROVE  LET part == BerParse(SubSeq(b, 1, n))
             IN  Defined(part) => IsPrefix(part, BerParse(b))
  BY BerPrefix, Zenon
<1>4. InputIs => TlvStable
  BY <1>1, <1>2, <1>3 DEF InputIs, TlvStable
<1>5. QED
  BY <1>4, TypeCorrect, PTL

-----------------------------------------------------------------------------
\* How long parts are from each of them on.
Sizes(size, ss) ==
  /\ size[Len(ss) + 1] = 0
  /\ \A k \in 1 .. Len(ss) : size[k] = Len(ss[k]) + size[k + 1]

\* FlattenSeq of them is as long as they are from the first on.
LEMMA FlattenLength ==
  ASSUME NEW S, NEW ss \in Seq(Seq(S)), NEW size, Sizes(size, ss)
  PROVE  Len(FlattenSeq(ss)) = size[1]
<1> DEFINE b == FlattenSeq(ss)
           m == Len(b)
           f == [i \in 1 .. m + 1 |-> m + 1 - i]
           nil == <<>>
           n == Len(ss)
<1>1. nil \in Seq(S) /\ Len(nil) = 0
  OBVIOUS
<1>2. b \in Seq(S) /\ m \in Nat
  <2>1. b \in Seq(S)
    BY <1>1, FlattenCons
  <2>2. QED
    BY <2>1
<1> HIDE DEF b
<1>3. nil \o b \o nil = b
  BY <1>2, ConcatEmptySeq
<1>4. Follows(f, size, ss, b, S)
  <2> SUFFICES ASSUME NEW k \in 1 .. n, NEW p \in Seq(S), NEW q \in Seq(S),
                      b = p \o ss[k] \o q, f[Len(p) + Len(ss[k]) + 1] = size[k + 1]
               PROVE  f[Len(p) + 1] = size[k]
    BY DEF Follows
  <2> DEFINE e == ss[k]
             x == Len(p)
             y == Len(e)
  <2>1. e \in Seq(S) /\ b = p \o e \o q
    OBVIOUS
  <2> HIDE DEF e
  <2>2. Joined(b, S, p, e, q)
    BY <2>1, JoinedIs
  <2>3. m = x + y + Len(q) /\ x \in Nat /\ y \in Nat /\ Len(q) \in Nat
    BY <2>1, <2>2 DEF Joined
  <2>4. size[k] = y + size[k + 1] /\ f[x + y + 1] = size[k + 1]
    BY DEF Sizes, e
  <2> HIDE DEF x, y, m
  <2>5. x + y + 1 \in 1 .. m + 1 /\ x + 1 \in 1 .. m + 1
    BY <1>2, <2>3
  <2>6. f[x + y + 1] = m + 1 - (x + y + 1) /\ f[x + 1] = m + 1 - (x + 1)
    BY <2>5
  <2>7. m + 1 - (x + 1) = y + (m + 1 - (x + y + 1))
    BY <1>2, <2>3
  <2>8. f[x + 1] = size[k]
    BY <2>4, <2>6, <2>7
  <2>9. QED
    BY <2>8 DEF x
<1>5. f[m + 1] = 0 /\ f[1] = m
  <2>1. m + 1 \in 1 .. m + 1 /\ 1 \in 1 .. m + 1
    BY <1>2
  <2>2. m + 1 - (m + 1) = 0 /\ m + 1 - 1 = m
    BY <1>2
  <2> HIDE DEF m
  <2>3. QED
    BY <2>1, <2>2
<1>6. Expects(f, size, ss, nil, nil, b, S)
  <2>1. Len(nil) + Len(b) + 1 = m + 1
    BY <1>1, <1>2
  <2>2. f[Len(nil) + Len(b) + 1] = size[n + 1]
    BY <1>5, <2>1 DEF Sizes
  <2> HIDE DEF f, nil
  <2>3. QED
    BY <1>3, <1>4, <2>2 DEF Expects, b
<1> HIDE DEF f, nil
<1>7. f[Len(nil) + 1] = size[1]
  <2>1. nil \in Seq(S)
    BY <1>1
  <2>2. QED
    BY <1>6, <2>1, Backward
<1>8. Len(nil) + 1 = 1
  BY <1>1
<1>9. QED
  BY <1>5, <1>7, <1>8 DEF b

\* The chunks of a value are as long as it and two bytes for each.
LEMMA Chunks8Length ==
  ASSUME NEW r \in Tlv8s(FALSE)
  PROVE  Len(Tlv8Chunks(r)) = 2 * Tlv8Count(Len(r.value)) + Len(r.value)
<1> DEFINE v == r.value
           count == Tlv8Count(Len(v))
           ss == Chunks8(r)
           size == [k \in 1 .. count + 1 |->
                      IF k = count + 1 THEN 0 ELSE 2 * (count + 1 - k) + Len(Rest8(v, k))]
<1>1. v \in Seq(Byte)
  BY DEF Tlv8s
<1>2. count \in Nat \ {0} /\ Rest8(v, 1) = v /\ \A k \in 1 .. count : IsChunk8(v, k, count)
  <2> HIDE DEF v
  <2>1. QED
    BY <1>1, Chunks8Are
<1>3. /\ ss \in Seq(Seq(Byte)) /\ Len(ss) = count
      /\ Tlv8Chunks(r) = FlattenSeq(ss)
      /\ \A k \in 1 .. count : Len(ss[k]) = 2 + Len(Chunk8(v, k))
  BY Chunks8Bytes
<1> HIDE DEF v, count, ss
<1>4. ASSUME NEW k \in 1 .. count PROVE size[k] = Len(ss[k]) + size[k + 1]
  <2> DEFINE c == Chunk8(v, k)
             t == Rest8(v, k)
             s == Rest8(v, k + 1)
  <2>1. c \in Seq(Byte) /\ t \in Seq(Byte) /\ t = IF k = count THEN c ELSE c \o s
    BY <1>2 DEF IsChunk8
  <2>2. k \in 1 .. count + 1 /\ k + 1 \in 1 .. count + 1 /\ k # count + 1
        /\ (k + 1 = count + 1 <=> k = count)
    BY <1>2
  <2>3. size[k] = 2 * (count + 1 - k) + Len(t)
        /\ size[k + 1] = IF k = count THEN 0 ELSE 2 * (count + 1 - (k + 1)) + Len(s)
    BY <2>2
  <2> HIDE DEF size
  <2>4. Len(ss[k]) = 2 + Len(c) /\ Len(c) \in Nat
    BY <1>3, <2>1
  <2>5. CASE k = count
    <3> HIDE DEF c, t, s
    <3>1. Len(t) = Len(c)
      BY <2>1, <2>5
    <3>2. 2 * (count + 1 - k) = 2
      BY <1>2, <2>5
    <3>3. QED
      BY <2>3, <2>4, <2>5, <3>1, <3>2
  <2>6. CASE k # count
    <3>1. k + 1 \in 1 .. count
      BY <1>2, <2>6
    <3>2. s \in Seq(Byte)
      BY <1>2, <3>1 DEF IsChunk8
    <3> HIDE DEF c, t, s
    <3>3. Len(t) = Len(c) + Len(s) /\ Len(s) \in Nat
      BY <2>1, <2>6, <3>2, ConcatProperties
    <3>4. 2 * (count + 1 - k) = 2 + 2 * (count + 1 - (k + 1))
      BY <1>2
    <3> DEFINE w == 2 * (count + 1 - (k + 1))
    <3>5. w \in Int
      BY <1>2
    <3>6. size[k] = (2 + w) + (Len(c) + Len(s)) /\ size[k + 1] = w + Len(s)
      BY <2>3, <2>6, <3>3, <3>4
    <3> HIDE DEF w
    <3>7. QED
      BY <2>4, <3>3, <3>5, <3>6
  <2>7. QED
    BY <2>5, <2>6
<1>5. size[count + 1] = 0 /\ size[1] = 2 * count + Len(v)
  <2>1. count + 1 \in 1 .. count + 1 /\ 1 \in 1 .. count + 1 /\ 1 # count + 1
        /\ count + 1 - 1 = count
    BY <1>2
  <2>2. QED
    BY <1>2, <2>1
<1> HIDE DEF size
<1>6. Sizes(size, ss)
  BY <1>3, <1>4, <1>5 DEF Sizes
<1>7. Len(FlattenSeq(ss)) = size[1]
  BY <1>3, <1>6, FlattenLength
<1>8. QED
  BY <1>3, <1>5, <1>7 DEF count, v

\* A record is as long as its value and what size_packed adds for its head.
LEMMA Code8Length ==
  ASSUME NEW ber \in BOOLEAN, NEW r \in Tlv8s(ber)
  PROVE  /\ HeadSize(Len(r.value), ber) \in Nat
         /\ Len(Code8(r, ber)) = HeadSize(Len(r.value), ber) + Len(r.value)
<1> DEFINE v == r.value
           n == Len(v)
<1>1. v \in Seq(Byte) /\ r.tag \in Byte /\ n \in Nat
  BY DEF Tlv8s
<1>2. CASE ber = TRUE
  <2> DEFINE f == WriteLength(n)
             t == <<r.tag>>
  <2>1. IsLength(f, n)
    <3>1. Fits(n, WordBytes)
      BY <1>2 DEF Tlv8s
    <3> HIDE DEF n
    <3>2. QED
      BY <1>1, <3>1, LengthWritten
  <2> HIDE DEF f, n
  <2>2. f \in Seq(Byte) /\ Len(f) \in Nat
    BY <2>1, LengthIs
  <2>3. t \in Seq(Byte) /\ Len(t) = 1
    BY <1>1
  <2>4. Code8(r, ber) = t \o f \o v
    BY <1>2 DEF Code8, f, n
  <2> HIDE DEF t, v
  <2>5. Len(t \o f \o v) = Len(t) + Len(f) + Len(v)
    <3> DEFINE c == t \o f \o v
    <3>1. t \in Seq(Byte) /\ f \in Seq(Byte) /\ v \in Seq(Byte)
      BY <1>1, <2>2, <2>3
    <3>2. Joined(c, Byte, t, f, v)
      BY <3>1, JoinedIs
    <3>3. QED
      BY <3>2 DEF Joined
  <2>6. HeadSize(n, ber) = 1 + Len(f)
    BY <1>2 DEF HeadSize, f
  <2>7. QED
    BY <1>1, <2>2, <2>3, <2>4, <2>5, <2>6 DEF n, v
<1>3. CASE ber = FALSE
  <2>1. r \in Tlv8s(FALSE)
    BY <1>3
  <2>2. Len(Tlv8Chunks(r)) = 2 * Tlv8Count(n) + n
    BY <2>1, Chunks8Length
  <2>3. Tlv8Count(n) \in Nat
    <3> HIDE DEF v
    <3>1. QED
      BY <1>1, Chunks8Are
  <2>4. HeadSize(n, ber) = 2 * Tlv8Count(n) /\ Code8(r, ber) = Tlv8Chunks(r)
    BY <1>3 DEF HeadSize, Code8
  <2>5. QED
    BY <2>2, <2>3, <2>4
<1>4. QED
  BY <1>2, <1>3

\* The buffer that size_packed asks for is as long as what is written.
LEMMA SizeIs ==
  ASSUME NEW ber \in BOOLEAN, NEW rs \in Seq(Tlv8s(ber))
  PROVE  Len(Tlv8Pack(rs, ber)) = SizePacked(rs, ber)
<1> DEFINE n == Len(rs)
           ss == Codes8(rs, ber)
           H(k) == HeadSize(Len(rs[k].value), ber)
           L(k) == Len(rs[k].value)
           Is(g) == g = [k \in 0 .. Len(rs) |->
             IF k = 0 THEN 0
             ELSE LET l == Len(rs[k].value) IN g[k - 1] + HeadSize(l, ber) + l]
           step == [k \in 1 .. n |-> [v \in Nat |-> v + H(k) + L(k)]]
<1>1. n \in Nat
  OBVIOUS
<1>2. \A k \in 1 .. n : H(k) \in Nat /\ L(k) \in Nat
                        /\ Len(Code8(rs[k], ber)) = H(k) + L(k)
  <2> SUFFICES ASSUME NEW k \in 1 .. n
               PROVE  H(k) \in Nat /\ L(k) \in Nat /\ Len(Code8(rs[k], ber)) = H(k) + L(k)
    OBVIOUS
  <2> DEFINE r == rs[k]
  <2>1. r \in Tlv8s(ber)
    OBVIOUS
  <2>2. Len(r.value) \in Nat
    BY <2>1 DEF Tlv8s
  <2> HIDE DEF r
  <2>3. HeadSize(Len(r.value), ber) \in Nat
        /\ Len(Code8(r, ber)) = HeadSize(Len(r.value), ber) + Len(r.value)
    BY <2>1, Code8Length
  <2>4. QED
    BY <2>2, <2>3 DEF r
<1>3. /\ ss \in Seq(Seq(Byte)) /\ Len(ss) = n
      /\ \A k \in 1 .. n : ss[k] = Code8(rs[k], ber)
      /\ Tlv8Pack(rs, ber) = FlattenSeq(ss)
  BY Codes8Are
<1> HIDE DEF ss
<1>4. PICK f : Iterates(f, 0, step, n, Nat)
  <2>1. AreSteps(step, n, Nat)
    <3> HIDE DEF H, L, n
    <3>1. QED
      BY <1>2 DEF AreSteps
  <2> HIDE DEF step, n
  <2>2. QED
    BY <1>1, <2>1, Iteration
<1>5. Is(f)
  <2>1. f \in [0 .. n -> Nat] /\ f[0] = 0 /\ \A k \in 1 .. n : f[k] = step[k][f[k - 1]]
    BY <1>4 DEF Iterates
  <2>2. \A k \in 1 .. n : f[k] = f[k - 1] + H(k) + L(k)
    <3> HIDE DEF H, L, n
    <3>1. \A k \in 1 .. n : k - 1 \in 0 .. n
      BY <1>1
    <3>2. QED
      BY <2>1, <3>1
  <2>3. f = [k \in 0 .. n |-> IF k = 0 THEN 0 ELSE f[k - 1] + H(k) + L(k)]
    <3> HIDE DEF H, L, n
    <3>1. QED
      BY <1>1, <2>1, <2>2
  <2>4. QED
    BY <2>3
<1> DEFINE N == CHOOSE g : Is(g)
<1>6. Is(N)
  <2> HIDE DEF Is
  <2>1. QED
    BY <1>5
<1>7. SizePacked(rs, ber) = N[n]
  BY DEF SizePacked
<1>8. N[0] = 0 /\ \A k \in 1 .. n : N[k] = N[k - 1] + H(k) + L(k)
  <2>1. N = [k \in 0 .. n |-> IF k = 0 THEN 0 ELSE N[k - 1] + H(k) + L(k)]
    BY <1>6
  <2> HIDE DEF N, H, L, n
  <2>2. QED
    BY <1>1, <2>1
<1> HIDE DEF N, Is, H, L, step
<1>9. \A k \in 0 .. n : N[k] \in Nat
  <2> DEFINE T == {k \in 0 .. n : N[k] \in Nat}
  <2> HIDE DEF n
  <2>1. 0 \in T
    BY <1>1, <1>8
  <2>2. ASSUME NEW k \in 0 .. n, k \in T, k # n PROVE k + 1 \in T
    <3>1. k + 1 \in 1 .. n /\ (k + 1) - 1 = k /\ k + 1 \in 0 .. n
      BY <1>1, <2>2
    <3>2. N[k + 1] = N[k] + H(k + 1) + L(k + 1)
      BY <1>8, <3>1
    <3>3. QED
      BY <1>2, <2>2, <3>1, <3>2
  <2>3. \A k \in 0 .. n : k \in T
    <3> HIDE DEF T
    <3>1. QED
      BY <1>1, <2>1, <2>2, UpTo
  <2>4. QED
    BY <2>3
<1> DEFINE size == [k \in 1 .. n + 1 |-> N[n] - N[k - 1]]
<1>10. Sizes(size, ss)
  <2> HIDE DEF n
  <2>1. size[n + 1] = 0
    <3>1. n + 1 \in 1 .. n + 1 /\ (n + 1) - 1 = n /\ n \in 0 .. n
      BY <1>1
    <3>2. N[n] - N[n] = 0
      BY <1>9, <3>1
    <3>3. QED
      BY <3>1, <3>2
  <2>2. ASSUME NEW k \in 1 .. n PROVE size[k] = Len(ss[k]) + size[k + 1]
    <3>1. k \in 1 .. n + 1 /\ k + 1 \in 1 .. n + 1 /\ (k + 1) - 1 = k
          /\ k - 1 \in 0 .. n /\ k \in 0 .. n /\ n \in 0 .. n
      BY <1>1
    <3>2. size[k] = N[n] - N[k - 1] /\ size[k + 1] = N[n] - N[k]
      BY <3>1
    <3>3. N[k] = N[k - 1] + H(k) + L(k) /\ Len(ss[k]) = H(k) + L(k)
          /\ H(k) \in Nat /\ L(k) \in Nat
      BY <1>2, <1>3, <1>8
    <3>4. N[n] \in Nat /\ N[k] \in Nat /\ N[k - 1] \in Nat
      BY <1>9, <3>1
    <3> HIDE DEF size
    <3>5. QED
      BY <3>2, <3>3, <3>4
  <2> HIDE DEF size
  <2>3. QED
    BY <1>3, <2>1, <2>2 DEF Sizes
<1>11. size[1] = N[n]
  <2> HIDE DEF n
  <2>1. 1 \in 1 .. n + 1 /\ 1 - 1 = 0 /\ n \in 0 .. n
    BY <1>1
  <2>2. N[n] \in Nat
    BY <1>9, <2>1
  <2>3. QED
    BY <1>8, <2>1, <2>2
<1> HIDE DEF size
<1>12. Len(FlattenSeq(ss)) = size[1]
  BY <1>3, <1>10, FlattenLength
<1>13. QED
  BY <1>3, <1>7, <1>11, <1>12

-----------------------------------------------------------------------------
\* A string that is one record's bytes is parsed to that record.
LEMMA BerOne ==
  ASSUME NEW r \in GoodTlvs, NEW e, IsTlv(e, r)
  PROVE  BerParse(e) = <<r>>
<1> DEFINE nil == <<>>
           n == Len(e)
           end == n + 1
<1>1. nil \in Seq(Byte) /\ Len(nil) = 0
  OBVIOUS
<1> HIDE DEF nil
<1>2. e \in Seq(Byte)
  BY <1>1, BerTaken
<1>3. nil \o e \o nil = e
  BY <1>2, ConcatEmptySeq DEF nil
<1>4. BerReads(e, 1, r, end) /\ n \in Nat \ {0}
  <2> DEFINE c == nil \o e \o nil
  <2>1. BerReads(c, Len(nil) + 1, r, Len(nil) + Len(e) + 1) /\ Len(e) \in Nat \ {0}
    BY <1>1, BerTaken
  <2>2. Len(nil) + 1 = 1 /\ Len(nil) + Len(e) + 1 = end
    BY <1>1, <2>1
  <2>3. QED
    BY <1>3, <2>1, <2>2
<1>5. PICK P : BerIs(P, e)
  BY <1>2, BerIsRead
<1> HIDE DEF n
<1>6. 1 \in 1 .. n + 1 /\ end \in 1 .. n + 1 /\ end > n
  BY <1>4
<1>7. /\ \A i \in 1 .. n + 1 :
           P[i] = IF BerOver(e, i) THEN BerEnd(e, i) ELSE <<BerAt(e, i)>> \o P[BerNext(e, i)]
      /\ BerParse(e) = P[1]
  BY <1>5 DEF BerIs, n
<1>8. P[1] = <<r>> \o P[end]
  <2> HIDE DEF end
  <2>1. QED
    BY <1>4, <1>6, <1>7 DEF BerReads
<1>9. P[end] = <<>>
  <2>1. BerOver(e, end) /\ BerEnd(e, end) = <<>>
    BY <1>6 DEF BerOver, BerEnd, BerWraps, ReadTag, n
  <2> HIDE DEF end
  <2>2. QED
    BY <1>6, <1>7, <2>1
<1>10. QED
  BY <1>7, <1>8, <1>9

\* The length of a value as envelope() writes it, and simple_tlv for one byte.
Length2(n) ==
  IF n < Half THEN <<n>>
  ELSE IF n < Base THEN <<Half + 1, n>> ELSE <<Half + 2>> \o BigEndian(n, 2)

\* It is a length field for what two bytes count.
LEMMA Length2Is ==
  ASSUME NEW n \in Nat, Fits(n, WordBytes), n < Base * Base
  PROVE  IsLength(Length2(n), n)
<1>1. /\ Half \in Nat /\ Half >= 8 /\ Half + Half = Base /\ WordBytes \in 1 .. Half - 1
      /\ Base \in Nat
  BY OctetAssumption, TlvAssumption DEF Half
<1>2. CASE n < Half
  <2>1. n \in 0 .. Half - 1
    BY <1>1, <1>2
  <2>2. QED
    BY <1>2, <2>1 DEF IsLength, Length2
<1>3. CASE ~(n < Half) /\ n < Base
  <2> DEFINE s == <<n>>
             x == Half + 1
  <2>1. n \in Byte /\ x \in Byte
    BY <1>1, <1>3 DEF Byte
  <2>2. s \in Seq(Byte) /\ Len(s) = 1
    BY <2>1
  <2>3. Number(s) = n
    <3>1. Fits(n, 1) /\ BigEndian(n, 1) = s
      BY <1>3, FitsShort
    <3> DEFINE w == 1
    <3>2. w \in Nat /\ w = 1
      OBVIOUS
    <3> HIDE DEF w, s
    <3>3. Fits(n, w) => Number(BigEndian(n, w)) = n
      BY <3>2, BigEndianIs
    <3>4. QED
      BY <3>1, <3>2, <3>3
  <2>4. <<x, n>> = <<x>> \o s
    <3>1. <<x>> \o <<n>> = <<x, n>>
      BY <2>1, PairIs
    <3>2. QED
      BY <3>1
  <2>5. Length2(n) = <<Half + Len(s)>> \o s
    BY <1>3, <2>2, <2>4 DEF Length2
  <2>6. Len(s) \in 1 .. WordBytes
    BY <1>1, <2>2
  <2> HIDE DEF s
  <2>7. QED
    BY <2>2, <2>3, <2>5, <2>6 DEF IsLength
<1>4. CASE ~(n < Half) /\ ~(n < Base)
  <2> DEFINE s == BigEndian(n, 2)
  <2>1. Fits(n, 2)
    BY FitsShort
  <2>2. s \in Seq(Byte) /\ Len(s) = 2 /\ Number(s) = n
    <3> DEFINE w == 2
    <3>1. w \in Nat /\ w = 2
      OBVIOUS
    <3> HIDE DEF w
    <3>2. /\ BigEndian(n, w) \in Seq(Byte) /\ Len(BigEndian(n, w)) = w
          /\ Fits(n, w) => Number(BigEndian(n, w)) = n
      BY <3>1, BigEndianIs
    <3>3. QED
      BY <2>1, <3>1, <3>2
  <2>3. WordBytes # 1
    <3>1. SUFFICES ASSUME WordBytes = 1 PROVE FALSE
      OBVIOUS
    <3>2. Fits(n, 1)
      BY <3>1
    <3>3. Shifts(n, 1)[1] = n \div Base
      <4> DEFINE w == 1
      <4>1. w \in Nat /\ w = 1 /\ 1 \in 1 .. w /\ 1 - 1 = 0
        OBVIOUS
      <4> HIDE DEF w
      <4>2. Shifts(n, w)[0] = n
            /\ \A k \in 1 .. w : Shifts(n, w)[k] = Shifts(n, w)[k - 1] \div Base
        BY <4>1, ShiftsAre
      <4>3. QED
        BY <4>1, <4>2
    <3>4. n \div Base = 0
      BY <3>2, <3>3 DEF Fits
    <3>5. n < Base
      BY <1>1, <3>4
    <3>6. QED
      BY <1>4, <3>5
  <2>4. Len(s) \in 1 .. WordBytes
    <3>1. WordBytes \in Nat /\ WordBytes >= 1
      BY <1>1
    <3>2. 2 \in 1 .. WordBytes
      BY <2>3, <3>1
    <3> HIDE DEF s
    <3>3. QED
      BY <2>2, <3>2
  <2>5. Length2(n) = <<Half + Len(s)>> \o s
    BY <1>4, <2>2 DEF Length2
  <2> HIDE DEF s
  <2>6. QED
    BY <2>2, <2>4, <2>5 DEF IsLength
<1>5. QED
  BY <1>2, <1>3, <1>4

\* envelope() writes a record's bytes.
LEMMA EnvelopeIs ==
  ASSUME NEW t \in Byte, NEW v \in Seq(Byte), Fits(Len(v), WordBytes),
         Len(v) < Base * Base
  PROVE  IsTlv(EnvelopeTlv(t, v), Record(<<t>>, v))
<1> DEFINE n == Len(v)
           f == Length2(n)
           r == Record(<<t>>, v)
<1>1. n \in Nat /\ Fits(n, WordBytes) /\ n < Base * Base
  OBVIOUS
<1>2. EnvelopeTlv(t, v) = <<t>> \o f \o v
  BY DEF EnvelopeTlv, Length2
<1>3. r.tag = <<t>> /\ r.value = v
  BY DEF Record
<1> HIDE DEF n, f
<1>4. IsLength(f, n)
  BY <1>1, Length2Is DEF f
<1>5. IsLength(f, Len(r.value)) /\ EnvelopeTlv(t, v) = r.tag \o f \o r.value
  BY <1>2, <1>3, <1>4 DEF n
<1> HIDE DEF r
<1>6. QED
  BY <1>5 DEF IsTlv, r

\* So does simple_tlv, for what one byte counts.
LEMMA SimpleIs ==
  ASSUME NEW t \in Byte, NEW v \in Seq(Byte), Fits(Len(v), WordBytes), Len(v) < Base
  PROVE  IsTlv(SimpleTlv(t, v), Record(<<t>>, v))
<1> DEFINE n == Len(v)
           f == Length2(n)
           r == Record(<<t>>, v)
           a == IF n >= Half THEN <<Half + 1>> ELSE <<>>
           z == <<t>>
           o == <<n>>
<1>1. n \in Nat /\ Fits(n, WordBytes) /\ n < Base /\ n % Base = n
  BY OctetAssumption
<1>2. n < Base * Base
  <2> HIDE DEF n
  <2>1. Base \in Nat /\ Base >= 16
    BY OctetAssumption
  <2>2. Base <= Base * Base
    BY <2>1
  <2>3. QED
    BY <1>1, <2>1, <2>2
<1>3. SimpleTlv(t, v) = z \o a \o o \o v
  BY <1>1 DEF SimpleTlv
<1>4. /\ Half \in Nat /\ Half >= 8 /\ Half + Half = Base
  BY OctetAssumption DEF Half
<1>5. a \in Seq(Byte) /\ z \in Seq(Byte) /\ o \in Seq(Byte)
  <2>1. Half + 1 \in Byte /\ n \in Byte
    BY <1>1, <1>4 DEF Byte
  <2>2. <<Half + 1>> \in Seq(Byte) /\ <<>> \in Seq(Byte)
    BY <2>1
  <2>3. QED
    BY <2>1, <2>2
<1>6. a \o o = f
  <2>1. CASE n >= Half
    <3>1. ~(n < Half) /\ a = <<Half + 1>>
      BY <1>1, <1>4, <2>1
    <3>2. Half + 1 \in Byte /\ n \in Byte
      BY <1>1, <1>4 DEF Byte
    <3>3. <<Half + 1>> \o <<n>> = <<Half + 1, n>>
      <4> DEFINE x == Half + 1
      <4>1. x \in Byte
        BY <3>2
      <4> HIDE DEF x, n
      <4>2. <<x>> \o <<n>> = <<x, n>>
        BY <3>2, <4>1, PairIs
      <4>3. QED
        BY <4>2 DEF x
    <3>4. QED
      BY <1>1, <3>1, <3>3 DEF Length2
  <2>2. CASE ~(n >= Half)
    <3>1. n < Half /\ a = <<>>
      BY <1>1, <1>4, <2>2
    <3>2. <<>> \o o = o
      BY <1>5, ConcatEmptySeq
    <3>3. QED
      BY <3>1, <3>2 DEF Length2
  <2>3. QED
    BY <2>1, <2>2
<1>7. r.tag = z /\ r.value = v
  BY DEF Record
<1> HIDE DEF n, f, a, z, o, r
<1>8. z \o a \o o = z \o (a \o o)
  <2>1. Assoc(z, a, o)
    BY <1>5, AssocIs
  <2>2. QED
    BY <2>1 DEF Assoc
<1>9. IsLength(f, n)
  BY <1>1, <1>2, Length2Is DEF f
<1>10. IsLength(f, Len(r.value)) /\ SimpleTlv(t, v) = r.tag \o f \o r.value
  BY <1>3, <1>6, <1>7, <1>8, <1>9 DEF n
<1>11. QED
  BY <1>10 DEF IsTlv, r

-----------------------------------------------------------------------------
\* The TLV8 records that TlvValuesSurvive writes are records it reads.
LEMMA Tlv8Of ==
  ASSUME NEW v \in Seq(Byte), Fits(Len(v), WordBytes), NEW ber \in BOOLEAN,
         NEW rs, rs = <<Record(1, v)>>
                 \/ rs = <<Record(1, v), Record(2, <<>>), Record(1, v)>>
  PROVE  rs \in Seq(Tlv8s(ber)) /\ Apart(rs, ber)
<1> DEFINE nil == <<>>
           r == Record(1, v)
           o == Record(2, nil)
<1>1. 1 \in Byte /\ 2 \in Byte
  BY OctetAssumption DEF Byte
<1>2. nil \in Seq(Byte) /\ Len(nil) = 0
  OBVIOUS
<1>3. Fits(0, WordBytes)
  <2>1. Len(v) \in Nat /\ 0 <= Len(v) /\ WordBytes \in Nat
    BY TlvAssumption
  <2> DEFINE n == Len(v)
             m == 0
  <2>2. n \in Nat /\ m \in Nat /\ m <= n /\ Fits(n, WordBytes)
    BY <2>1
  <2> HIDE DEF n, m
  <2>3. Fits(m, WordBytes)
    BY <2>1, <2>2, FitsBelow
  <2>4. QED
    BY <2>3 DEF m
<1>4. rs = <<r>> \/ rs = <<r, o, r>>
  OBVIOUS
<1>5. /\ r = [tag |-> 1, value |-> v] /\ r.tag = 1
      /\ o = [tag |-> 2, value |-> nil] /\ o.tag = 2
  BY DEF Record
<1> HIDE DEF nil
<1>6. r \in Tlv8s(ber) /\ o \in Tlv8s(ber)
  <2> DEFINE R == [tag : Byte, value : Seq(Byte)]
  <2>1. r \in R /\ o \in R
    <3>1. [tag |-> 1, value |-> v] \in R /\ [tag |-> 2, value |-> nil] \in R
      BY <1>1, <1>2
    <3> HIDE DEF R, r, o
    <3>2. QED
      BY <1>5, <3>1
  <2>2. r.value = v /\ o.value = nil
    BY <1>5
  <2> HIDE DEF r, o
  <2>3. Fits(Len(r.value), WordBytes) /\ Fits(Len(o.value), WordBytes)
    BY <1>2, <1>3, <2>2
  <2>4. QED
    BY <2>1, <2>3 DEF Tlv8s
<1> HIDE DEF r, o
<1>7. CASE rs = <<r>>
  <2>1. rs \in Seq(Tlv8s(ber)) /\ Len(rs) = 1
    BY <1>6, <1>7
  <2>2. QED
    BY <2>1 DEF Apart
<1>8. CASE rs = <<r, o, r>>
  <2>1. rs \in Seq(Tlv8s(ber)) /\ Len(rs) = 3 /\ rs[1] = r /\ rs[2] = o /\ rs[3] = r
    BY <1>6, <1>8
  <2>2. \A k \in 1 .. Len(rs) - 1 : rs[k].tag # rs[k + 1].tag
    <3> SUFFICES ASSUME NEW k \in 1 .. 2 PROVE rs[k].tag # rs[k + 1].tag
      BY <2>1
    <3>1. CASE k = 1
      BY <1>5, <2>1, <3>1
    <3>2. CASE k = 2
      BY <1>5, <2>1, <3>2
    <3>3. QED
      BY <3>1, <3>2
  <2>3. QED
    BY <2>1, <2>2 DEF Apart
<1>9. QED
  BY <1>4, <1>7, <1>8

\* The tags of one byte and of three that TlvValuesSurvive writes are tags.
LEMMA TagsAre ==
  IsTag(<<1>>) /\ IsTag(<<TagMod - 1, Half + 1, 0>>)
<1>1. /\ Base \in Nat /\ TagMod \in Nat /\ TagMod >= 3 /\ TagMod <= Base
      /\ Half \in Nat /\ Half >= 8 /\ Half + Half = Base
  BY OctetAssumption, TlvAssumption DEF Half
<1>2. IsTag(<<1>>)
  <2> DEFINE t == <<1>>
  <2>1. 1 \in Byte
    BY <1>1 DEF Byte
  <2>2. t \in Seq(Byte) /\ Len(t) = 1 /\ t[1] = 1 /\ t # <<>>
    BY <2>1
  <2>3. 1 % TagMod = 1 /\ 1 # TagMod - 1
    BY <1>1
  <2> HIDE DEF t
  <2>4. t[1] % TagMod # TagMod - 1
    BY <2>2, <2>3
  <2>5. IsTag(t)
    BY <2>2, <2>4 DEF IsTag
  <2>6. QED
    BY <2>5 DEF t
<1>3. IsTag(<<TagMod - 1, Half + 1, 0>>)
  <2> DEFINE x == TagMod - 1
             y == Half + 1
             t == <<x, y, 0>>
  <2>1. x \in Byte /\ y \in Byte /\ 0 \in Byte
    BY <1>1 DEF Byte
  <2>2. x % TagMod = TagMod - 1
    BY <1>1
  <2>3. y >= Half /\ 0 < Half
    BY <1>1
  <2> HIDE DEF x, y
  <2>4. t \in Seq(Byte) /\ Len(t) = 3 /\ t[1] = x /\ t[2] = y /\ t[3] = 0
        /\ t # <<>>
    BY <2>1
  <2> HIDE DEF t
  <2>5. t[1] % TagMod = TagMod - 1
    BY <2>2, <2>4
  <2>6. Len(t) >= 2 /\ t[Len(t)] < Half
    BY <2>3, <2>4
  <2>7. \A k \in 2 .. Len(t) - 1 : ~(t[k] < Half)
    <3> SUFFICES ASSUME NEW k \in 2 .. Len(t) - 1 PROVE ~(t[k] < Half)
      OBVIOUS
    <3>1. k = 2 /\ y \in Nat
      BY <2>1, <2>4 DEF Byte
    <3>2. QED
      BY <1>1, <2>3, <2>4, <3>1
  <2>8. IsTag(t)
    BY <2>4, <2>5, <2>6, <2>7 DEF IsTag
  <2>9. QED
    BY <2>8 DEF t, x, y
<1>4. QED
  BY <1>2, <1>3

\* TlvValuesSurvive for one input, whose length the readers' words and the two
\* bytes of envelope() can count.
LEMMA TlvOf ==
  ASSUME InputIs, Fits(Len(input), WordBytes), Len(input) < Base * Base
  PROVE  TlvValuesSurvive
<1> DEFINE one == <<Record(1, input)>>
           two == <<Record(1, input), Record(2, <<>>), Record(1, input)>>
           zero == <<0>>
<1>1. input \in Seq(Byte)
  BY DEF InputIs
<1>2. ASSUME NEW ber \in BOOLEAN, NEW rs \in {one, two}
      PROVE  /\ Tlv8Parse(Tlv8Pack(rs, ber), ber) = Done(rs)
             /\ Len(Tlv8Pack(rs, ber)) = SizePacked(rs, ber)
  <2>1. rs = one \/ rs = two
    OBVIOUS
  <2>2. rs \in Seq(Tlv8s(ber)) /\ Apart(rs, ber)
    BY <1>1, <2>1, Tlv8Of
  <2> HIDE DEF one, two
  <2>3. QED
    BY <2>2, Tlv8RoundTrip, SizeIs
<1>3. 0 \in Byte /\ 1 \in Byte
  BY OctetAssumption DEF Byte
<1>4. zero \in Seq(Byte) /\ Fits(Len(zero), WordBytes)
  <2>1. zero \in Seq(Byte) /\ Len(zero) = 1
    BY <1>3
  <2>2. Fits(1, WordBytes)
    <3> DEFINE m == 1
               w == 1
    <3>1. m \in Nat /\ m < Base /\ w \in Nat /\ WordBytes \in Nat /\ w <= WordBytes
      BY OctetAssumption, TlvAssumption
    <3>2. Fits(m, 1)
      <4> HIDE DEF m
      <4>1. QED
        BY <3>1, FitsShort
    <3>3. Fits(m, w)
      BY <3>2
    <3> HIDE DEF m, w
    <3>4. Fits(m, WordBytes)
      BY <3>1, <3>3, FitsWider
    <3>5. QED
      BY <3>4 DEF m
  <2> HIDE DEF zero
  <2>3. QED
    BY <2>1, <2>2
<1> HIDE DEF zero
<1>5. ASSUME NEW tag, IsTag(tag), NEW v \in Seq(Byte), Fits(Len(v), WordBytes)
      PROVE  Record(tag, v) \in GoodTlvs
  <2> DEFINE r == Record(tag, v)
  <2>1. r = [tag |-> tag, value |-> v] /\ r.tag = tag /\ r.value = v
    BY DEF Record
  <2>2. tag \in Seq(Byte)
    BY <1>5 DEF IsTag
  <2>3. [tag |-> tag, value |-> v] \in Tlvs
    BY <1>5, <2>2 DEF Tlvs
  <2> HIDE DEF r
  <2>4. r \in Tlvs
    BY <2>1, <2>3
  <2>5. IsTag(r.tag) /\ Fits(Len(r.value), WordBytes)
    BY <1>5, <2>1
  <2>6. r \in GoodTlvs
    BY <2>4, <2>5 DEF GoodTlvs
  <2>7. QED
    BY <2>6 DEF r
<1>6. ASSUME NEW tag, IsTag(tag)
      PROVE  LET rs == <<Record(tag, input), Record(tag, zero)>>
             IN  BerParse(BerPack(rs)) = rs
  <2> DEFINE r == Record(tag, input)
             o == Record(tag, zero)
             rs == <<r, o>>
  <2>1. r \in GoodTlvs /\ o \in GoodTlvs
    BY <1>1, <1>4, <1>5, <1>6
  <2> HIDE DEF r, o
  <2>2. rs \in Seq(GoodTlvs)
    BY <2>1
  <2> HIDE DEF rs
  <2>3. BerParse(BerPack(rs)) = rs
    BY <2>2, BerRoundTrip
  <2>4. QED
    BY <2>3 DEF rs, r, o
<1>7. \A tag \in {<<1>>, <<TagMod - 1, Half + 1, 0>>} : IsTag(tag)
  BY TagsAre, Zenon
<1>8. Record(<<1>>, input) \in GoodTlvs
  BY <1>1, <1>5, TagsAre
<1>9. BerParse(EnvelopeTlv(1, input)) = <<Record(<<1>>, input)>>
  <2> DEFINE e == EnvelopeTlv(1, input)
             r == Record(<<1>>, input)
  <2>1. IsTlv(e, r)
    BY <1>1, <1>3, EnvelopeIs
  <2>2. r \in GoodTlvs
    BY <1>8
  <2> HIDE DEF e, r
  <2>3. BerParse(e) = <<r>>
    BY <2>1, <2>2, BerOne
  <2>4. QED
    BY <2>3 DEF e, r
<1>10. ASSUME Len(input) < Base
       PROVE  BerParse(SimpleTlv(1, input)) = <<Record(<<1>>, input)>>
  <2> DEFINE e == SimpleTlv(1, input)
             r == Record(<<1>>, input)
  <2>1. IsTlv(e, r)
    BY <1>1, <1>3, <1>10, SimpleIs
  <2>2. r \in GoodTlvs
    BY <1>8
  <2> HIDE DEF e, r
  <2>3. BerParse(e) = <<r>>
    BY <2>1, <2>2, BerOne
  <2>4. QED
    BY <2>3 DEF e, r
<1>11. \A ber \in BOOLEAN, rs \in {one, two} :
         /\ Tlv8Parse(Tlv8Pack(rs, ber), ber) = Done(rs)
         /\ Len(Tlv8Pack(rs, ber)) = SizePacked(rs, ber)
  BY <1>2
<1>12. \A tag \in {<<1>>, <<TagMod - 1, Half + 1, 0>>} :
         LET rs == <<Record(tag, input), Record(tag, <<0>>)>>
         IN  BerParse(BerPack(rs)) = rs
  BY <1>6, <1>7, Zenon DEF zero
<1>13. QED
  BY <1>9, <1>10, <1>11, <1>12, Zenon DEF TlvValuesSurvive

(***************************************************************************)
(* A value that is written is read back, by every writer and the reader at *)
(* the other end (TLV8.hpp:191-361, BerTlv.cpp:78-141, simple_tlv.hpp:5),  *)
(* and the buffer size_packed asks for is the size written, for a byte of  *)
(* any width and values of any length that a word and the two length bytes *)
(* of envelope() can count.                                                *)
(***************************************************************************)
THEOREM TlvValuesRight ==
  ASSUME Fits(MaxInput, WordBytes), Fits(MaxZeros, WordBytes),
         MaxInput < Base * Base, MaxZeros < Base * Base
  PROVE  Spec => []TlvValuesSurvive
<1>1. InputIs => TlvValuesSurvive
  <2> SUFFICES ASSUME InputIs PROVE TlvValuesSurvive
    OBVIOUS
  <2>1. Fits(Len(input), WordBytes) /\ Len(input) < Base * Base
    <3> DEFINE l == Len(input)
               s == Base * Base
    <3>1. l \in Nat /\ (l <= MaxInput \/ l <= MaxZeros)
      BY DEF InputIs
    <3>2. MaxInput \in Nat /\ MaxZeros \in Nat /\ WordBytes \in Nat
      BY CodecsAssumption, TlvAssumption
    <3>3. MaxInput < s /\ MaxZeros < s /\ s \in Nat
      BY OctetAssumption
    <3> HIDE DEF l, s
    <3>4. Fits(l, WordBytes)
      BY <3>1, <3>2, FitsBelow
    <3>5. l < s
      BY <3>1, <3>2, <3>3
    <3>6. QED
      BY <3>4, <3>5 DEF l, s
  <2>2. QED
    BY <2>1, TlvOf
<1>2. QED
  BY <1>1, TypeCorrect, PTL

-----------------------------------------------------------------------------
\* What is found is one of the records, or nothing is; of one record, that one.
LEMMA FindIs ==
  ASSUME NEW R, NEW rs \in Seq(R), NEW tag
  PROVE  Find(rs, tag) = <<>> \/ \E r \in R : Find(rs, tag) = <<r>>
<1> DEFINE at == {k \in DOMAIN rs : rs[k].tag = tag}
<1>1. CASE at = {}
  BY <1>1 DEF Find
<1>2. CASE at # {}
  <2>1. at \subseteq Nat
    OBVIOUS
  <2>2. \E k \in at : \A j \in at : k <= j
    <3> HIDE DEF at
    <3>1. QED
      BY <1>2, <2>1, LeastOf
  <2>3. Min(at) \in at
    <3> HIDE DEF at
    <3>1. QED
      BY <2>2 DEF Min
  <2> DEFINE m == Min(at)
  <2>4. Find(rs, tag) = <<rs[m]>>
    BY <1>2 DEF Find
  <2>5. m \in DOMAIN rs
    BY <2>3
  <2> HIDE DEF m
  <2>6. rs[m] \in R
    BY <2>5
  <2>7. QED
    BY <2>4, <2>6
<1>3. QED
  BY <1>1, <1>2

LEMMA FindOne ==
  ASSUME NEW R, NEW r \in R
  PROVE  Find(<<r>>, r.tag) = <<r>>
<1> DEFINE rs == <<r>>
           at == {k \in DOMAIN rs : rs[k].tag = r.tag}
<1>1. DOMAIN rs = {1} /\ rs[1] = r
  OBVIOUS
<1>2. at = {1}
  <2> HIDE DEF rs
  <2>1. QED
    BY <1>1
<1>3. Min(at) = 1
  BY <1>2 DEF Min
<1>4. Find(rs, r.tag) = <<rs[Min(at)]>>
  BY <1>2 DEF Find
<1>5. QED
  BY <1>1, <1>3, <1>4

-----------------------------------------------------------------------------
\* A record is not longer than its tag, the longest length field and its value.
LEMMA CodeLength ==
  ASSUME NEW r \in GoodTlvs
  PROVE  /\ BerCodes[r] \in Seq(Byte)
         /\ Len(BerCodes[r]) <= Len(r.tag) + 1 + WordBytes + Len(r.value)
<1> DEFINE f == WriteLength(Len(r.value))
           c == BerCodes[r]
<1>1. r.tag \in Seq(Byte) /\ r.value \in Seq(Byte) /\ Fits(Len(r.value), WordBytes)
      /\ Len(r.value) \in Nat
  BY DEF GoodTlvs, Tlvs
<1>2. IsLength(f, Len(r.value))
  BY <1>1, LengthWritten
<1>3. WordBytes \in Nat /\ WordBytes >= 1 /\ Half + Half = Base /\ WordBytes < Half
      /\ Half \in Nat /\ Base \in Nat
  BY OctetAssumption, TlvAssumption DEF Half
<1>4. f \in Seq(Byte) /\ Len(f) <= 1 + WordBytes
  <2>1. f \in Seq(Byte)
    BY <1>2, LengthIs
  <2>2. CASE f = <<Len(r.value)>>
    <3>1. Len(<<Len(r.value)>>) = 1
      OBVIOUS
    <3> HIDE DEF f
    <3>2. QED
      BY <1>3, <2>1, <2>2, <3>1
  <2>3. CASE \E s \in Seq(Byte) : Len(s) \in 1 .. WordBytes /\ f = <<Half + Len(s)>> \o s
    <3> HIDE DEF f
    <3>1. PICK s \in Seq(Byte) : Len(s) \in 1 .. WordBytes /\ f = <<Half + Len(s)>> \o s
      BY <2>3
    <3> DEFINE x == Half + Len(s)
    <3>2. x \in Byte
      BY <1>3, <3>1 DEF Byte
    <3>3. f = <<x>> \o s
      BY <3>1
    <3> HIDE DEF x
    <3>4. Len(<<x>> \o s) = Len(s) + 1
      BY <3>2, OneThen
    <3>5. QED
      BY <1>3, <2>1, <3>1, <3>3, <3>4
  <2>4. QED
    <3> HIDE DEF f
    <3>1. QED
      BY <1>2, <2>1, <2>2, <2>3 DEF IsLength
<1>5. c = r.tag \o f \o r.value
  BY DEF BerCodes
<1> HIDE DEF f, c
<1>6. Joined(c, Byte, r.tag, f, r.value)
  BY <1>1, <1>4, <1>5, JoinedIs
<1>7. c \in Seq(Byte) /\ Len(c) = Len(r.tag) + Len(f) + Len(r.value)
  BY <1>6 DEF Joined
<1>8. Len(c) <= Len(r.tag) + 1 + WordBytes + Len(r.value)
  <2>1. Len(r.tag) \in Nat /\ Len(f) \in Nat
    BY <1>1, <1>4
  <2>2. QED
    BY <1>1, <1>3, <1>4, <1>7, <2>1
<1>9. QED
  BY <1>7, <1>8 DEF c

\* Of one record and of two, what is written is as long as their bytes together.
LEMMA PackedLength ==
  ASSUME NEW rs \in Seq(GoodTlvs), Len(rs) \in {1, 2}
  PROVE  /\ BerPack(rs) \in Seq(Byte)
         /\ Len(rs) = 1 => Len(BerPack(rs)) = Len(BerCodes[rs[1]])
         /\ Len(rs) = 2 => Len(BerPack(rs)) = Len(BerCodes[rs[1]]) + Len(BerCodes[rs[2]])
<1> DEFINE ss == CodesOf(BerCodes, rs)
<1>1. BerPack(rs) = FlattenSeq(ss)
  BY BerPackIs DEF Packs
<1>2. BerPack(rs) \in Seq(Byte)
  BY BerPackIs, BerCodesAre, PacksIs
<1>3. /\ ss \in Seq(Seq(Byte)) /\ Len(ss) = Len(rs)
      /\ \A k \in 1 .. Len(rs) : ss[k] = BerCodes[rs[k]]
  BY BerCodesAre, CodesAre
<1> HIDE DEF ss
<1> DEFINE a == Len(ss[1])
           b == Len(ss[2])
<1>4. CASE Len(rs) = 1
  <2> DEFINE size == [k \in {1, 2} |-> IF k = 1 THEN a ELSE 0]
  <2>1. 1 \in 1 .. Len(rs) /\ a \in Nat
    BY <1>3, <1>4
  <2>2. size[1] = a /\ size[2] = 0
    OBVIOUS
  <2> HIDE DEF size
  <2>3. Sizes(size, ss)
    BY <1>3, <1>4, <2>1, <2>2 DEF Sizes
  <2>4. Len(FlattenSeq(ss)) = size[1]
    BY <1>3, <2>3, FlattenLength
  <2>5. QED
    BY <1>1, <1>2, <1>3, <1>4, <2>1, <2>2, <2>4
<1>5. CASE Len(rs) = 2
  <2> DEFINE size == [k \in {1, 2, 3} |-> IF k = 1 THEN a + b ELSE IF k = 2 THEN b ELSE 0]
  <2>1. 1 \in 1 .. Len(rs) /\ 2 \in 1 .. Len(rs) /\ a \in Nat /\ b \in Nat
    BY <1>3, <1>5
  <2>2. size[1] = a + b /\ size[2] = b /\ size[3] = 0
    OBVIOUS
  <2> HIDE DEF size
  <2>3. Sizes(size, ss)
    <3>1. \A k \in 1 .. Len(ss) : k = 1 \/ k = 2
      BY <1>3, <1>5
    <3>2. Len(ss) + 1 = 3
      BY <1>3, <1>5
    <3>3. b = b + 0
      BY <2>1
    <3>4. ASSUME NEW k \in 1 .. Len(ss) PROVE size[k] = Len(ss[k]) + size[k + 1]
      <4>1. CASE k = 1
        <5>1. k + 1 = 2 /\ Len(ss[k]) = a
          BY <4>1
        <5> HIDE DEF a, b
        <5>2. size[k] = a + b /\ size[k + 1] = b
          BY <2>2, <4>1, <5>1
        <5>3. QED
          BY <5>1, <5>2
      <4>2. CASE k = 2
        BY <2>2, <3>3, <4>2
      <4>3. QED
        BY <3>1, <4>1, <4>2
    <3>5. QED
      BY <2>2, <3>2, <3>4 DEF Sizes
  <2>4. Len(FlattenSeq(ss)) = size[1]
    BY <1>3, <2>3, FlattenLength
  <2>5. QED
    BY <1>1, <1>2, <1>3, <1>5, <2>1, <2>2, <2>4
<1>6. QED
  BY <1>4, <1>5

\* The status word at the end of an answer comes off.
LEMMA StatusComesOff ==
  ASSUME NEW b \in Seq(Byte)
  PROVE  WithoutSW(b \o SuccessWord) = b
<1> DEFINE x == 9 * (Base \div 16)
           w == <<x, 0>>
           c == b \o w
           n == Len(b)
           rw == Reverse(w)
           rc == Reverse(c)
           two == 2
<1>1. x \in Byte /\ 0 \in Byte
  BY OctetAssumption DEF Byte
<1>2. two \in Nat /\ two = 2
  OBVIOUS
<1> HIDE DEF x, two
<1>3. w \in Seq(Byte) /\ Len(w) = two /\ w[1] = x /\ w[2] = 0
  BY <1>1, <1>2
<1> HIDE DEF w
<1>4. n \in Nat
  OBVIOUS
<1>5. Adds(Byte, b, w, c)
  BY <1>3, AddPart
<1> HIDE DEF c
<1>6. /\ c \in Seq(Byte) /\ Len(c) = n + two
      /\ \A k \in 1 .. n : c[k] = b[k]
      /\ \A k \in 1 .. two : c[n + k] = w[k]
  <2>1. Len(c) = n + Len(w) /\ \A k \in 1 .. Len(w) : c[n + k] = w[k]
    BY <1>5 DEF Adds
  <2>2. c \in Seq(Byte) /\ \A k \in 1 .. n : c[k] = b[k]
    BY <1>5 DEF Adds
  <2>3. QED
    BY <1>3, <2>1, <2>2
<1>7. c[n + 1] = x /\ c[n + 2] = 0
  <2>1. 1 \in 1 .. two /\ 2 \in 1 .. two
    BY <1>2
  <2>2. QED
    BY <1>3, <1>6, <2>1
<1>8. rw \in Seq(Byte) /\ Len(rw) = 2 /\ rw[1] = 0 /\ rw[2] = x
  <2>1. rw = [i \in 1 .. 2 |-> w[(2 - i) + 1]]
    BY <1>2, <1>3 DEF Reverse
  <2>2. rw = [i \in 1 .. 2 |-> IF i = 1 THEN 0 ELSE x]
    <3>1. ASSUME NEW i \in 1 .. 2 PROVE w[(2 - i) + 1] = IF i = 1 THEN 0 ELSE x
      <4>1. CASE i = 1
        BY <1>3, <4>1
      <4>2. CASE i = 2
        BY <1>3, <4>2
      <4>3. QED
        BY <4>1, <4>2
    <3> HIDE DEF rw
    <3>2. QED
      BY <2>1, <3>1
  <2> HIDE DEF rw
  <2>3. QED
    BY <1>1, <2>2
<1>9. rc \in Seq(Byte) /\ Len(rc) = n + 2 /\ rc[1] = 0 /\ rc[2] = x
  <2>1. rc = [i \in 1 .. n + 2 |-> c[(n + 2 - i) + 1]]
    BY <1>2, <1>6 DEF Reverse
  <2> HIDE DEF rc
  <2>2. \A i \in 1 .. n + 2 : c[(n + 2 - i) + 1] \in Byte
    <3> SUFFICES ASSUME NEW i \in 1 .. n + 2 PROVE c[(n + 2 - i) + 1] \in Byte
      OBVIOUS
    <3>1. (n + 2 - i) + 1 \in 1 .. Len(c)
      BY <1>2, <1>4, <1>6
    <3>2. QED
      BY <1>6, <3>1
  <2>3. rc \in Seq(Byte) /\ Len(rc) = n + 2
    BY <1>4, <2>1, <2>2
  <2>4. rc[1] = c[n + 2] /\ rc[2] = c[n + 1]
    <3>1. 1 \in 1 .. n + 2 /\ 2 \in 1 .. n + 2 /\ (n + 2 - 1) + 1 = n + 2
          /\ (n + 2 - 2) + 1 = n + 1
      BY <1>4
    <3>2. QED
      BY <2>1, <3>1
  <2>5. QED
    BY <1>7, <2>3, <2>4
<1> HIDE DEF rw, rc, n
<1>10. IsPrefix(rw, rc)
  <2>1. ASSUME NEW s \in Seq(Byte), Len(s) >= 2, s[1] = 0, s[2] = x
        PROVE  SubSeq(s, 1, 2) \in Seq(Byte) /\ Len(SubSeq(s, 1, 2)) = 2
               /\ SubSeq(s, 1, 2)[1] = 0 /\ SubSeq(s, 1, 2)[2] = x
    <3> DEFINE g == SubSeq(s, 1, 2)
    <3>1. g \in Seq(Byte) /\ Len(g) = 2 /\ \A k \in 1 .. 2 : g[k] = s[k]
      BY <2>1
    <3>2. 1 \in 1 .. 2 /\ 2 \in 1 .. 2
      OBVIOUS
    <3> HIDE DEF g
    <3>3. QED
      BY <2>1, <3>1, <3>2 DEF g
  <2>2. Len(rw) >= 2 /\ Len(rc) >= 2
    BY <1>4, <1>8, <1>9
  <2> DEFINE p == SubSeq(rw, 1, 2)
             q == SubSeq(rc, 1, 2)
  <2>3. p \in Seq(Byte) /\ Len(p) = 2 /\ p[1] = 0 /\ p[2] = x
    BY <1>8, <2>1, <2>2
  <2>4. q \in Seq(Byte) /\ Len(q) = 2 /\ q[1] = 0 /\ q[2] = x
    BY <1>9, <2>1, <2>2
  <2> HIDE DEF p, q
  <2>5. Len(p) = Len(q) /\ \A i \in 1 .. Len(p) : p[i] = q[i]
    BY <2>3, <2>4
  <2>6. p = q
    BY <2>3, <2>4, <2>5, SeqEqual
  <2>7. Len(rw) <= Len(rc)
    BY <1>4, <1>8, <1>9
  <2>8. QED
    BY <1>8, <2>6, <2>7 DEF IsPrefix, p, q
<1>11. WithoutSW(c) = SubSeq(c, 1, Len(c) - 2)
  BY <1>10 DEF WithoutSW, IsSuffix, SuccessWord, rw, rc, w, x
<1>12. SubSeq(c, 1, Len(c) - 2) = b
  <2> DEFINE d == SubSeq(c, 1, n)
  <2>1. Len(c) - 2 = n
    BY <1>2, <1>4, <1>6
  <2>2. d \in Seq(Byte) /\ Len(d) = n /\ \A k \in 1 .. n : d[k] = c[k]
    BY <1>2, <1>4, <1>6
  <2> HIDE DEF d
  <2>3. d = b
    <3>1. Len(d) = Len(b) /\ \A k \in 1 .. Len(d) : d[k] = b[k]
      BY <1>6, <2>2 DEF n
    <3>2. QED
      BY <2>2, <3>1, SeqEqual
  <2>4. QED
    BY <2>1, <2>3 DEF d
<1>13. QED
  BY <1>11, <1>12 DEF c, w, x, SuccessWord

\* What goes into the transcript is one record.
LEMMA RewrapIs ==
  ASSUME NEW v \in Seq(Byte), Fits(Len(v), WordBytes), Len(v) < Base * Base
  PROVE  BerParse(RewrapA5(v)) = <<Record(<<ProprietaryTag>>, v)>>
<1> DEFINE t == ProprietaryTag
           tag == <<t>>
           r == Record(tag, v)
           e == RewrapA5(v)
           n == Len(v)
<1>1. t \in Byte /\ t % TagMod # TagMod - 1
  BY SelectAssumption
<1> HIDE DEF t
<1>2. tag \in Seq(Byte) /\ Len(tag) = 1 /\ tag[1] = t /\ tag # <<>>
  BY <1>1
<1> HIDE DEF tag
<1>3. IsTag(tag)
  <2>1. tag[1] % TagMod # TagMod - 1
    BY <1>1, <1>2
  <2>2. QED
    BY <1>2, <2>1 DEF IsTag
<1>4. r \in GoodTlvs
  <2>1. r = [tag |-> tag, value |-> v] /\ r.tag = tag /\ r.value = v
    BY DEF Record
  <2>2. [tag |-> tag, value |-> v] \in Tlvs
    BY <1>2 DEF Tlvs
  <2> HIDE DEF r
  <2>3. r \in Tlvs
    BY <2>1, <2>2
  <2>4. IsTag(r.tag) /\ Fits(Len(r.value), WordBytes)
    BY <1>3, <2>1
  <2>5. QED
    BY <2>3, <2>4 DEF GoodTlvs
<1>5. Fits(n, 2)
  <2>1. n \in Nat /\ n < Base * Base
    OBVIOUS
  <2> HIDE DEF n
  <2>2. QED
    BY <2>1, FitsShort
<1>6. RewrapA5(v) = EnvelopeTlv(t, v)
  BY <1>5 DEF RewrapA5, EnvelopeTlv, t
<1>7. IsTlv(EnvelopeTlv(t, v), Record(<<t>>, v))
  BY <1>1, EnvelopeIs
<1>8. IsTlv(e, r)
  BY <1>6, <1>7 DEF tag
<1> HIDE DEF e, r
<1>9. BerParse(e) = <<r>>
  BY <1>4, <1>8, BerOne
<1>10. QED
  BY <1>9 DEF e, r, tag, t

-----------------------------------------------------------------------------
\* HomeKey's version at the end of a list of versions is found there.
LEMMA ListsLast ==
  ASSUME NEW s \in Seq(Byte), Len(s) % 2 = 0
  PROVE  s \o HomeKey20 \in Seq(Byte) /\ Lists(s \o HomeKey20, HomeKey20)
<1> DEFINE v == <<2, 0>>
           c == s \o v
           n == Len(s)
           i == n + 1
<1>1. 2 \in Byte /\ 0 \in Byte
  BY OctetAssumption DEF Byte
<1>2. v \in Seq(Byte) /\ Len(v) = 2
  BY <1>1
<1>3. n \in Nat /\ n % 2 = 0
  OBVIOUS
<1> HIDE DEF v
<1>4. Adds(Byte, s, v, c)
  BY <1>2, AddPart
<1> HIDE DEF c
<1>5. c \in Seq(Byte) /\ Len(c) = n + 2 /\ Slice(c, i, 2) = v
  BY <1>2, <1>4 DEF Adds
<1>6. i % 2 = 1 /\ i < Len(c) /\ i \in DOMAIN c
  <2> HIDE DEF n
  <2>1. QED
    BY <1>3, <1>5
<1> HIDE DEF i
<1>7. Lists(c, v)
  BY <1>5, <1>6 DEF Lists
<1>8. QED
  BY <1>5, <1>7 DEF c, v, HomeKey20

-----------------------------------------------------------------------------
\* A record with a tag of one byte can be written, and with how much around it.
LEMMA OneByteTag ==
  ASSUME NEW t \in Byte, t % TagMod # TagMod - 1,
         NEW v \in Seq(Byte), Fits(Len(v), WordBytes)
  PROVE  LET r == Record(<<t>>, v)
         IN  /\ r \in GoodTlvs /\ r.tag = <<t>> /\ r.value = v
             /\ BerPack(<<r>>) \in Seq(Byte)
             /\ Len(BerPack(<<r>>)) <= Len(v) + 2 + WordBytes
<1> DEFINE tag == <<t>>
           r == Record(tag, v)
           rs == <<r>>
<1>1. tag \in Seq(Byte) /\ Len(tag) = 1 /\ tag[1] = t /\ tag # <<>>
  OBVIOUS
<1> HIDE DEF tag
<1>2. IsTag(tag)
  <2>1. tag[1] % TagMod # TagMod - 1
    BY <1>1
  <2>2. QED
    BY <1>1, <2>1 DEF IsTag
<1>3. r = [tag |-> tag, value |-> v] /\ r.tag = tag /\ r.value = v
  BY DEF Record
<1>4. [tag |-> tag, value |-> v] \in Tlvs
  BY <1>1 DEF Tlvs
<1> HIDE DEF r
<1>5. r \in GoodTlvs
  <2>1. r \in Tlvs
    BY <1>3, <1>4
  <2>2. IsTag(r.tag) /\ Fits(Len(r.value), WordBytes)
    BY <1>2, <1>3
  <2>3. QED
    BY <2>1, <2>2 DEF GoodTlvs
<1>6. rs \in Seq(GoodTlvs) /\ Len(rs) = 1 /\ rs[1] = r
  BY <1>5
<1> HIDE DEF rs
<1>7. BerPack(rs) \in Seq(Byte) /\ Len(BerPack(rs)) = Len(BerCodes[r])
  BY <1>6, PackedLength
<1>8. Len(BerCodes[r]) <= 1 + 1 + WordBytes + Len(v)
  <2>1. Len(BerCodes[r]) <= Len(r.tag) + 1 + WordBytes + Len(r.value)
    BY <1>5, CodeLength
  <2>2. QED
    BY <1>1, <1>3, <2>1
<1>9. Len(BerPack(rs)) <= Len(v) + 2 + WordBytes
  <2> DEFINE l == Len(v)
             m == Len(BerPack(rs))
  <2>1. l \in Nat /\ m \in Nat /\ WordBytes \in Nat /\ m <= 1 + 1 + WordBytes + l
    BY <1>7, <1>8, TlvAssumption
  <2> HIDE DEF l, m
  <2>2. m <= l + 2 + WordBytes
    BY <2>1
  <2>3. QED
    BY <2>2 DEF l, m
<1>10. /\ r \in GoodTlvs /\ r.tag = tag /\ r.value = v
       /\ BerPack(rs) \in Seq(Byte)
       /\ Len(BerPack(rs)) <= Len(v) + 2 + WordBytes
  BY <1>3, <1>5, <1>7, <1>9
<1>11. QED
  BY <1>10, Zenon DEF rs, r, tag

\* The two copies compute the same.
LEMMA SameCopies ==
  ASSUME NEW value
  PROVE  /\ FciBuffer(value) = RewrapA5(value)
         /\ NfcMaxCommand(value) = BleMaxCommand(value)
<1>1. FciBuffer(value) = RewrapA5(value)
  BY DEF FciBuffer, RewrapA5
<1>2. NfcMaxCommand(value) = BleMaxCommand(value)
  BY DEF NfcMaxCommand, BleMaxCommand
<1>3. QED
  BY <1>1, <1>2

\* For one proprietary information the reader comes to the same over NFC and over
\* BLE, if what wraps it can be counted.
LEMMA SameSelect ==
  ASSUME NEW value \in Seq(Byte), Len(value) < Base * Base,
         Fits(Len(value) + 2 + WordBytes, WordBytes), Readable(value)
  PROVE  LET nfc == NfcSelect(Fci(value) \o SuccessWord)
             ble == BleSelect(BerPack(<<Record(<<ProprietaryTag>>, value)>>))
         IN  /\ nfc = IF WholeVersions(value) THEN ble ELSE {}
             /\ \A agreed \in ble :
                  BerParse(agreed.transcript) = <<Record(<<ProprietaryTag>>, value)>>
<1> DEFINE pt == <<ProprietaryTag>>
           ft == <<FciTag>>
           p == Record(pt, value)
           w == BerPack(<<p>>)
           f == Record(ft, w)
           b == BerPack(<<f>>)
           L == Find(BerParse(value), <<VersionTag>>)
           list == Head(L).value
           nfc == NfcSelect(Fci(value) \o SuccessWord)
           ble == BleSelect(w)
           Agreed(m, t) == [max |-> m, transcript |-> t]
           agree == Agreed(BleMaxCommand(BerParse(value)), RewrapA5(value))
<1>1. /\ ProprietaryTag \in Byte /\ ProprietaryTag % TagMod # TagMod - 1
      /\ FciTag \in Byte /\ FciTag % TagMod # TagMod - 1
  BY SelectAssumption
<1>2. WordBytes \in Nat
  BY TlvAssumption
<1>3. Fits(Len(value), WordBytes)
  <2> DEFINE n == Len(value)
             m == n + 2 + WordBytes
  <2>1. n \in Nat /\ m \in Nat /\ n <= m /\ Fits(m, WordBytes)
    BY <1>2
  <2> HIDE DEF n, m
  <2>2. Fits(n, WordBytes)
    BY <1>2, <2>1, FitsBelow
  <2>3. QED
    BY <2>2 DEF n
<1>4. /\ p \in GoodTlvs /\ p.tag = pt /\ p.value = value
      /\ w \in Seq(Byte) /\ Len(w) <= Len(value) + 2 + WordBytes
  BY <1>1, <1>3, OneByteTag, Zenon
<1> HIDE DEF p, w
<1>5. Fits(Len(w), WordBytes)
  <2> DEFINE n == Len(w)
             m == Len(value) + 2 + WordBytes
  <2>1. n \in Nat /\ m \in Nat /\ n <= m /\ Fits(m, WordBytes)
    BY <1>2, <1>4
  <2> HIDE DEF n, m
  <2>2. Fits(n, WordBytes)
    BY <1>2, <2>1, FitsBelow
  <2>3. QED
    BY <2>2 DEF n
<1>6. f \in GoodTlvs /\ f.tag = ft /\ f.value = w /\ b \in Seq(Byte)
  BY <1>1, <1>4, <1>5, OneByteTag, Zenon
<1> HIDE DEF f, pt, ft
<1>7. BerParse(w) = <<p>> /\ BerParse(b) = <<f>>
  <2>1. <<p>> \in Seq(GoodTlvs) /\ <<f>> \in Seq(GoodTlvs)
    BY <1>4, <1>6
  <2> DEFINE ps == <<p>>
             fs == <<f>>
  <2>2. ps \in Seq(GoodTlvs) /\ fs \in Seq(GoodTlvs)
    BY <2>1
  <2> HIDE DEF ps, fs
  <2>3. BerParse(BerPack(ps)) = ps /\ BerParse(BerPack(fs)) = fs
    BY <2>2, BerRoundTrip
  <2>4. QED
    BY <2>3 DEF ps, fs, w
<1>8. Find(BerParse(w), pt) = <<p>> /\ Find(BerParse(b), ft) = <<f>>
  BY <1>4, <1>6, <1>7, FindOne
<1>9. WithoutSW(b \o SuccessWord) = b
  BY <1>6, StatusComesOff
<1>10. Fci(value) = b
  BY DEF Fci, b, f, w, p, pt, ft
<1> HIDE DEF b
<1>11. Head(<<p>>) = p /\ Head(<<f>>) = f /\ <<p>> # <<>> /\ <<f>> # <<>>
  OBVIOUS
<1>12. L = <<>> \/ list \in Seq(Byte)
  <2>1. BerParse(value) \in Seq(GoodTlvs)
    BY BerKept DEF Readable
  <2>2. L = <<>> \/ \E r \in GoodTlvs : L = <<r>>
    BY <2>1, FindIs
  <2>3. ASSUME NEW r \in GoodTlvs, L = <<r>> PROVE list \in Seq(Byte)
    <3>1. Head(<<r>>) = r
      OBVIOUS
    <3>2. r.value \in Seq(Byte)
      BY DEF GoodTlvs, Tlvs
    <3>3. QED
      BY <2>3, <3>1, <3>2
  <2>4. QED
    BY <2>2, <2>3
<1>13. ASSUME list = <<>> PROVE ~Lists(list, Aliro10)
  <2>1. DOMAIN list = {}
    BY <1>13
  <2>2. QED
    BY <2>1 DEF Lists
<1>14. nfc = IF L = <<>> \/ Len(list) % 2 = 1 \/ ~Lists(list, Aliro10)
             THEN {} ELSE {agree}
  <2>1. Find(BerParse(Head(<<f>>).value), pt) = <<p>>
    BY <1>6, <1>8, <1>11
  <2>2. Head(<<p>>).value = value
    BY <1>4, <1>11
  <2>3. nfc = IF L = <<>> \/ Len(list) % 2 = 1 \/ ~Lists(list, Aliro10) THEN {}
              ELSE {Agreed(NfcMaxCommand(BerParse(value)), FciBuffer(value))}
    BY <1>8, <1>9, <1>10, <1>11, <2>1, <2>2 DEF NfcSelect, pt, ft
  <2> DEFINE records == BerParse(value)
  <2>4. /\ FciBuffer(value) = RewrapA5(value)
        /\ NfcMaxCommand(records) = BleMaxCommand(records)
    BY SameCopies
  <2>5. Agreed(NfcMaxCommand(BerParse(value)), FciBuffer(value)) = agree
    BY <2>4
  <2>6. QED
    BY <2>3, <2>5, Zenon
<1>15. ble = IF L # <<>> /\ list # <<>> /\ ~Lists(list, Aliro10)
             THEN {} ELSE {agree}
  <2>1. Head(<<p>>).value = value
    BY <1>4, <1>11
  <2>2. QED
    BY <1>8, <1>11, <2>1 DEF BleSelect, pt
<1>16. WholeVersions(value) <=> L # <<>> /\ list # <<>> /\ Len(list) % 2 = 0
  BY DEF WholeVersions
<1> HIDE DEF nfc, ble, L, list, agree
<1>17. L # <<>> => (Len(list) % 2 = 0 <=> ~(Len(list) % 2 = 1))
  <2>1. ASSUME list \in Seq(Byte) PROVE Len(list) % 2 = 0 <=> ~(Len(list) % 2 = 1)
    <3> DEFINE n == Len(list)
    <3>1. n \in Nat
      BY <2>1
    <3> HIDE DEF n
    <3>2. n % 2 = 0 <=> ~(n % 2 = 1)
      BY <3>1
    <3>3. QED
      BY <3>2 DEF n
  <2>2. QED
    BY <1>12, <2>1
<1>18. nfc = IF WholeVersions(value) THEN ble ELSE {}
  BY <1>13, <1>14, <1>15, <1>16, <1>17
<1>19. ASSUME NEW agreed \in ble PROVE BerParse(agreed.transcript) = <<p>>
  <2>1. agreed = agree
    BY <1>15, <1>19
  <2>2. agreed.transcript = RewrapA5(value)
    BY <2>1 DEF agree
  <2>3. BerParse(RewrapA5(value)) = <<p>>
    BY <1>3, RewrapIs DEF p, pt
  <2>4. QED
    BY <2>2, <2>3
<1>20. QED
  BY <1>18, <1>19, Zenon DEF nfc, ble, w, p, pt

-----------------------------------------------------------------------------
\* How long n bytes are at most with what SelectAgrees wraps around them.
Wrapped(n) == n + 4 * (WordBytes + 3)

\* The versions and what is put into the extended information behind them.
LEMMA ExtendedIs ==
  ASSUME NEW v \in Seq(Byte), Fits(Len(v), WordBytes), Fits(2, WordBytes)
  PROVE  LET b == BerPack(<<Record(<<VersionTag>>, Aliro10), Record(ExtendedTag, v)>>)
         IN  b \in Seq(Byte) /\ Len(b) <= Len(v) + 2 * WordBytes + 7
<1> DEFINE n == Len(v)
           t == VersionTag
           a == Aliro10
           x == ExtendedTag
           va == Record(<<t>>, a)
           xi == Record(x, v)
           both == <<va, xi>>
           W == WordBytes
<1>1. n \in Nat /\ W \in Nat
  BY TlvAssumption
<1>2. t \in Byte /\ t % TagMod # TagMod - 1
  BY SelectAssumption
<1>3. a \in Seq(Byte) /\ Len(a) = 2
  <2>1. 1 \in Byte /\ 0 \in Byte
    BY OctetAssumption DEF Byte
  <2>2. QED
    BY <2>1 DEF Aliro10
<1>4. x \in Seq(Byte) /\ Len(x) = 2 /\ IsTag(x)
  <2>1. x \in Byte \X Byte /\ x[1] % TagMod = TagMod - 1 /\ x[2] < Half
    BY SelectAssumption
  <2>2. x \in Seq(Byte) /\ Len(x) = 2 /\ x # <<>>
    <3>1. PICK y \in Byte, z \in Byte : x = <<y, z>>
      BY <2>1
    <3>2. <<y, z>> \in Seq(Byte) /\ Len(<<y, z>>) = 2 /\ <<y, z>> # <<>>
      OBVIOUS
    <3> HIDE DEF x
    <3>3. QED
      BY <3>1, <3>2
  <2> HIDE DEF x
  <2>3. Len(x) >= 2 /\ x[Len(x)] < Half /\ ~(x[1] % TagMod # TagMod - 1)
        /\ \A k \in 2 .. Len(x) - 1 : ~(x[k] < Half)
    BY <2>1, <2>2
  <2>4. QED
    BY <2>2, <2>3 DEF IsTag
<1>5. Fits(Len(v), WordBytes) /\ Fits(Len(a), WordBytes)
  BY <1>3
<1> HIDE DEF n, t, a, x, W
<1>6. va \in GoodTlvs /\ Len(BerCodes[va]) <= W + 4 /\ Len(BerCodes[va]) \in Nat
  <2>1. va \in GoodTlvs /\ va.tag = <<t>> /\ va.value = a
    BY <1>2, <1>3, <1>5, OneByteTag, Zenon
  <2>2. Len(<<t>>) = 1
    OBVIOUS
  <2> HIDE DEF va
  <2>3. /\ BerCodes[va] \in Seq(Byte)
        /\ Len(BerCodes[va]) <= Len(va.tag) + 1 + WordBytes + Len(va.value)
    BY <2>1, CodeLength
  <2>4. Len(BerCodes[va]) <= 1 + 1 + W + 2
    BY <1>3, <2>1, <2>2, <2>3 DEF W
  <2> DEFINE l == Len(BerCodes[va])
  <2>5. l \in Nat /\ l <= 1 + 1 + W + 2
    BY <2>3, <2>4
  <2> HIDE DEF l
  <2>6. l <= W + 4 /\ l \in Nat
    BY <1>1, <2>5
  <2>7. QED
    BY <2>1, <2>6 DEF l
<1>7. xi \in GoodTlvs /\ Len(BerCodes[xi]) <= n + W + 3 /\ Len(BerCodes[xi]) \in Nat
  <2>1. xi = [tag |-> x, value |-> v] /\ xi.tag = x /\ xi.value = v
    BY DEF Record
  <2>2. [tag |-> x, value |-> v] \in Tlvs
    BY <1>4 DEF Tlvs
  <2> HIDE DEF xi
  <2>3. xi \in GoodTlvs
    <3>1. xi \in Tlvs
      BY <2>1, <2>2
    <3>2. IsTag(xi.tag) /\ Fits(Len(xi.value), WordBytes)
      BY <1>4, <1>5, <2>1
    <3>3. QED
      BY <3>1, <3>2 DEF GoodTlvs
  <2>4. /\ BerCodes[xi] \in Seq(Byte)
        /\ Len(BerCodes[xi]) <= Len(xi.tag) + 1 + WordBytes + Len(xi.value)
    BY <2>3, CodeLength
  <2>5. Len(BerCodes[xi]) <= 2 + 1 + W + n
    BY <1>4, <2>1, <2>4 DEF W, n
  <2> DEFINE l == Len(BerCodes[xi])
  <2>6. l \in Nat /\ l <= 2 + 1 + W + n
    BY <2>4, <2>5
  <2> HIDE DEF l
  <2>7. l <= n + W + 3 /\ l \in Nat
    BY <1>1, <2>6
  <2>8. QED
    BY <2>3, <2>7 DEF l
<1> HIDE DEF va, xi
<1>8. BerPack(both) \in Seq(Byte) /\ Len(BerPack(both)) <= n + 2 * W + 7
  <2>1. both \in Seq(GoodTlvs) /\ Len(both) = 2 /\ both[1] = va /\ both[2] = xi
    BY <1>6, <1>7
  <2> HIDE DEF both
  <2>2. BerPack(both) \in Seq(Byte)
        /\ Len(BerPack(both)) = Len(BerCodes[va]) + Len(BerCodes[xi])
    BY <2>1, PackedLength
  <2> DEFINE l == Len(BerCodes[va])
             m == Len(BerCodes[xi])
             o == Len(BerPack(both))
  <2>3. l \in Nat /\ m \in Nat /\ l <= W + 4 /\ m <= n + W + 3 /\ o = l + m
    BY <1>6, <1>7, <2>2
  <2> HIDE DEF l, m, o
  <2>4. o <= n + 2 * W + 7
    BY <1>1, <2>3
  <2>5. QED
    BY <2>2, <2>4 DEF o
<1>9. QED
  BY <1>8 DEF both, va, xi, t, a, x, n, W

\* What is served is not longer than can be wrapped twice more.
LEMMA ServedIs ==
  ASSUME input \in Seq(Byte), Fits(Wrapped(Len(input)), WordBytes),
         NEW value \in Served
  PROVE  value \in Seq(Byte) /\ Len(value) + 2 + WordBytes <= Wrapped(Len(input))
<1> DEFINE n == Len(input)
           t == VersionTag
           a == Aliro10
           x == ExtendedTag
           mt == MaxCommandTag
           ia == input \o a
           one == BerPack(<<Record(<<t>>, input)>>)
           more == BerPack(<<Record(<<t>>, ia)>>)
           va == Record(<<t>>, a)
           inner == BerPack(<<Record(<<mt>>, input)>>)
           short == BerPack(<<va, Record(x, input)>>)
           long == BerPack(<<va, Record(x, inner)>>)
           W == WordBytes
<1>1. n \in Nat /\ W \in Nat
  BY TlvAssumption
<1>2. t \in Byte /\ t % TagMod # TagMod - 1
  BY SelectAssumption
<1>3. a \in Seq(Byte) /\ Len(a) = 2
  <2>1. 1 \in Byte /\ 0 \in Byte
    BY OctetAssumption DEF Byte
  <2>2. QED
    BY <2>1 DEF Aliro10
<1>4. mt \in Byte /\ mt % TagMod # TagMod - 1
  BY SelectAssumption
<1> HIDE DEF n, t, a, mt, W
<1>5. ASSUME NEW m \in Nat, m <= n + 2 + W PROVE Fits(m, WordBytes)
  <2> DEFINE l == Wrapped(n)
  <2>1. l \in Nat /\ m <= l /\ WordBytes \in Nat
    BY <1>1, <1>5 DEF Wrapped, W
  <2>2. Fits(l, WordBytes)
    BY DEF n
  <2> HIDE DEF l
  <2>3. QED
    BY <2>1, <2>2, FitsBelow
<1>6. Fits(Len(input), WordBytes) /\ Fits(Len(a), WordBytes)
  <2>1. n \in Nat /\ n <= n + 2 + W /\ 2 \in Nat /\ 2 <= n + 2 + W
    BY <1>1
  <2>2. Fits(n, WordBytes) /\ Fits(2, WordBytes)
    BY <1>5, <2>1
  <2>3. QED
    BY <1>3, <2>2 DEF n
<1>7. ia \in Seq(Byte) /\ Len(ia) = n + 2
  <2>1. Adds(Byte, input, a, ia)
    BY <1>3, AddPart
  <2> HIDE DEF ia
  <2>2. QED
    BY <1>3, <2>1 DEF Adds, n
<1> HIDE DEF ia
<1>8. Fits(Len(ia), WordBytes)
  <2>1. n + 2 \in Nat /\ n + 2 <= n + 2 + W
    BY <1>1
  <2>2. Fits(n + 2, WordBytes)
    BY <1>5, <2>1
  <2>3. QED
    BY <1>7, <2>2
<1>9. one \in Seq(Byte) /\ Len(one) <= n + 2 + W
  <2>1. one \in Seq(Byte) /\ Len(one) <= Len(input) + 2 + WordBytes
    BY <1>2, <1>6, OneByteTag, Zenon
  <2>2. QED
    BY <2>1 DEF n, W
<1>10. more \in Seq(Byte) /\ Len(more) <= n + 4 + W
  <2>1. more \in Seq(Byte) /\ Len(more) <= Len(ia) + 2 + WordBytes
    BY <1>2, <1>7, <1>8, OneByteTag, Zenon
  <2> HIDE DEF more
  <2>2. Len(more) \in Nat /\ Len(more) <= n + 2 + 2 + W
    BY <1>7, <2>1 DEF W
  <2>3. QED
    BY <1>1, <2>1, <2>2
<1>11. inner \in Seq(Byte) /\ Len(inner) <= n + 2 + W
  <2>1. inner \in Seq(Byte) /\ Len(inner) <= Len(input) + 2 + WordBytes
    BY <1>4, <1>6, OneByteTag, Zenon
  <2>2. QED
    BY <2>1 DEF n, W
<1> HIDE DEF inner
<1>12. Fits(Len(inner), WordBytes)
  <2> DEFINE l == Len(inner)
  <2>1. l \in Nat /\ l <= n + 2 + W
    BY <1>11
  <2> HIDE DEF l
  <2>2. Fits(l, WordBytes)
    BY <1>5, <2>1
  <2>3. QED
    BY <2>2 DEF l
<1>13. /\ short \in Seq(Byte) /\ Len(short) <= n + 2 * W + 7
       /\ long \in Seq(Byte) /\ Len(long) <= n + 3 * W + 9
  <2>1. Fits(2, WordBytes)
    BY <1>3, <1>6
  <2>2. short \in Seq(Byte) /\ Len(short) <= Len(input) + 2 * WordBytes + 7
    BY <1>6, <2>1, ExtendedIs DEF t, a
  <2>3. long \in Seq(Byte) /\ Len(long) <= Len(inner) + 2 * WordBytes + 7
    BY <1>11, <1>12, <2>1, ExtendedIs DEF t, a
  <2> DEFINE l == Len(inner)
             m == Len(long)
  <2>4. l \in Nat /\ m \in Nat /\ l <= n + 2 + W /\ m <= l + 2 * W + 7
    BY <1>11, <2>3 DEF W
  <2> HIDE DEF l, m
  <2>5. m <= n + 3 * W + 9
    BY <1>1, <2>4
  <2>6. QED
    BY <2>2, <2>3, <2>5 DEF m, n, W
<1>14. \/ value = input \/ value = one \/ value = more
       \/ value = short \/ value = long
  BY DEF Served, one, more, short, long, inner, va, ia, t, a, x, mt
<1> HIDE DEF one, more, short, long
<1>15. value \in Seq(Byte) /\ Len(value) <= n + 3 * W + 9
  <2>1. ASSUME NEW s \in Seq(Byte), Len(s) <= n \/ Len(s) <= n + 2 + W
                                    \/ Len(s) <= n + 4 + W
                                    \/ Len(s) <= n + 2 * W + 7
        PROVE  Len(s) <= n + 3 * W + 9
    <3> DEFINE l == Len(s)
    <3>1. l \in Nat /\ (\/ l <= n \/ l <= n + 2 + W
                       \/ l <= n + 4 + W \/ l <= n + 2 * W + 7)
      BY <2>1
    <3> HIDE DEF l
    <3>2. l <= n + 3 * W + 9
      BY <1>1, <3>1
    <3>3. QED
      BY <3>2 DEF l
  <2>2. input \in Seq(Byte) /\ Len(input) <= n
    BY <1>1 DEF n
  <2>3. QED
    BY <1>9, <1>10, <1>13, <1>14, <2>1, <2>2
<1>16. Len(value) + 2 + WordBytes <= Wrapped(n)
  <2> DEFINE l == Len(value)
  <2>1. l \in Nat /\ l <= n + 3 * W + 9
    BY <1>15
  <2> HIDE DEF l
  <2>2. l + 2 + W <= n + 4 * (W + 3)
    BY <1>1, <2>1
  <2>3. QED
    BY <2>2 DEF l, Wrapped, W
<1>17. QED
  BY <1>15, <1>16 DEF n

\* HomeKey's version is found in a list of any number of chunks.
LEMMA HomeKeyFinds ==
  ASSUME NEW s \in Seq(Byte), Len(s) % 2 = 0
  PROVE  HomeKeySelect(Tlv8Pack(<<Record(VersionTag, s \o HomeKey20)>>, FALSE)
                       \o SuccessWord)
<1> DEFINE v == s \o HomeKey20
           r == Record(VersionTag, v)
           rs == <<r>>
           b == Tlv8Pack(rs, FALSE)
<1>1. v \in Seq(Byte) /\ Lists(v, HomeKey20)
  BY ListsLast
<1> HIDE DEF v
<1>2. r = [tag |-> VersionTag, value |-> v] /\ r.tag = VersionTag /\ r.value = v
  BY DEF Record
<1>3. r \in Tlv8s(FALSE)
  <2>1. VersionTag \in Byte
    BY SelectAssumption
  <2>2. [tag |-> VersionTag, value |-> v] \in [tag : Byte, value : Seq(Byte)]
    BY <1>1, <2>1
  <2> HIDE DEF r
  <2>3. QED
    BY <1>2, <2>2 DEF Tlv8s
<1> HIDE DEF r
<1>4. rs \in Seq(Tlv8s(FALSE)) /\ Len(rs) = 1 /\ Head(rs) = r /\ rs # <<>>
  <2>1. rs \in Seq(Tlv8s(FALSE)) /\ Len(rs) = 1
    <3> DEFINE R == Tlv8s(FALSE)
    <3>1. r \in R
      BY <1>3
    <3> HIDE DEF R
    <3>2. rs \in Seq(R) /\ Len(rs) = 1
      BY <3>1
    <3>3. QED
      BY <3>2 DEF R
  <2>2. Head(rs) = r /\ rs # <<>>
    OBVIOUS
  <2>3. QED
    BY <2>1, <2>2
<1>5. Find(rs, VersionTag) = rs
  <2>1. Find(<<r>>, r.tag) = <<r>>
    BY <1>3, FindOne
  <2>2. QED
    BY <1>2, <2>1
<1> HIDE DEF rs
<1>6. Apart(rs, FALSE)
  BY <1>4 DEF Apart
<1>7. Tlv8Parse(b, FALSE) = Done(rs)
  <2> DEFINE no == FALSE
  <2>1. no \in BOOLEAN /\ rs \in Seq(Tlv8s(no)) /\ Apart(rs, no)
    BY <1>4, <1>6
  <2> HIDE DEF no
  <2>2. Tlv8Parse(Tlv8Pack(rs, no), no) = Done(rs)
    BY <2>1, Tlv8RoundTrip
  <2>3. QED
    BY <2>2 DEF no
<1>8. b \in Seq(Byte)
  <2> DEFINE no == FALSE
  <2>1. no \in BOOLEAN /\ rs \in Seq(Tlv8s(no))
    BY <1>4
  <2> HIDE DEF no
  <2>2. Tlv8Pack(rs, no) \in Seq(Byte)
    BY <2>1, Codes8Are
  <2>3. QED
    BY <2>2 DEF no
<1> HIDE DEF b
<1>9. WithoutSW(b \o SuccessWord) = b
  BY <1>8, StatusComesOff
<1>10. Find(Tlv8Parse(WithoutSW(b \o SuccessWord), FALSE).items, VersionTag) = rs
  <2>1. Done(rs).items = rs
    BY DEF Done
  <2>2. QED
    BY <1>5, <1>7, <1>9, <2>1
<1>11. HomeKeySelect(b \o SuccessWord)
  BY <1>1, <1>2, <1>4, <1>10 DEF HomeKeySelect
<1>12. QED
  BY <1>11 DEF b, rs, r, v

(***************************************************************************)
(* The copy of the reading code for NFC (Profile.cpp:24-109) and the one   *)
(* for BLE (BleFlow.cpp:25-41, 245-313) come to one chunk size and one     *)
(* transcript for one proprietary information, and a HomeKey version is    *)
(* found in a list of any number of chunks (homekey/Profile.cpp:22-60):    *)
(* for what is served of any length that a word and the two length bytes   *)
(* of the transcript can count when it is wrapped, if no length in it      *)
(* wraps.                                                                  *)
(***************************************************************************)
THEOREM SelectRight ==
  ASSUME Fits(Wrapped(MaxInput), WordBytes), Fits(Wrapped(MaxZeros), WordBytes),
         Wrapped(MaxInput) < Base * Base, Wrapped(MaxZeros) < Base * Base
  PROVE  Spec => []SelectAgrees
<1>1. InputIs => SelectAgrees
  <2> SUFFICES ASSUME InputIs PROVE SelectAgrees
    OBVIOUS
  <2> DEFINE n == Len(input)
             l == Wrapped(n)
             s == Base * Base
             W == WordBytes
  <2>1. input \in Seq(Byte) /\ n \in Nat /\ (n <= MaxInput \/ n <= MaxZeros)
    BY DEF InputIs
  <2>2. MaxInput \in Nat /\ MaxZeros \in Nat /\ W \in Nat
    BY CodecsAssumption, TlvAssumption
  <2>3. Fits(l, W) /\ l < s /\ l \in Nat /\ s \in Nat
    <3> DEFINE p == Wrapped(MaxInput)
               q == Wrapped(MaxZeros)
    <3>1. p \in Nat /\ q \in Nat /\ l \in Nat /\ (l <= p \/ l <= q)
      <4> HIDE DEF n, W
      <4>1. QED
        BY <2>1, <2>2 DEF Wrapped, W
    <3>2. Fits(p, W) /\ Fits(q, W) /\ p < s /\ q < s /\ s \in Nat
      BY OctetAssumption
    <3> HIDE DEF l, p, q, s, W
    <3>3. Fits(l, W)
      BY <2>2, <3>1, <3>2, FitsBelow
    <3>4. QED
      BY <3>1, <3>2, <3>3
  <2>4. ASSUME NEW value \in Served, Readable(value)
        PROVE  LET nfc == NfcSelect(Fci(value) \o SuccessWord)
                   ble == BleSelect(BerPack(<<Record(<<ProprietaryTag>>, value)>>))
               IN  /\ nfc = IF WholeVersions(value) THEN ble ELSE {}
                   /\ \A agreed \in ble : BerParse(agreed.transcript)
                                            = <<Record(<<ProprietaryTag>>, value)>>
    <3>1. value \in Seq(Byte) /\ Len(value) + 2 + W <= l
      BY <2>1, <2>3, ServedIs
    <3> DEFINE m == Len(value)
               k == m + 2 + W
    <3>2. m \in Nat /\ k \in Nat /\ k <= l /\ m <= l
      <4>1. m \in Nat /\ m + 2 + W <= l
        BY <3>1
      <4> HIDE DEF m, l, W
      <4>2. QED
        BY <2>2, <2>3, <4>1
    <3>3. Fits(k, W)
      <4> HIDE DEF k, l, W
      <4>1. QED
        BY <2>2, <2>3, <3>2, FitsBelow
    <3>4. m < s
      <4> HIDE DEF m, l, s
      <4>1. QED
        BY <2>3, <3>2
    <3>5. Len(value) < Base * Base /\ Fits(Len(value) + 2 + WordBytes, WordBytes)
      BY <3>3, <3>4
    <3>6. QED
      BY <2>4, <3>1, <3>5, SameSelect, Zenon
  <2>5. Len(input) % 2 = 0 =>
          HomeKeySelect(Tlv8Pack(<<Record(VersionTag, input \o HomeKey20)>>, FALSE)
                        \o SuccessWord)
    BY <2>1, HomeKeyFinds
  <2>6. QED
    BY <2>4, <2>5, Zenon DEF SelectAgrees
<1>2. QED
  BY <1>1, TypeCorrect, PTL
=============================================================================
