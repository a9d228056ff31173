-------------------------- MODULE KnockWireProofs ---------------------------
(***************************************************************************)
(* What a knock means, from the client that encodes it to the gate that    *)
(* reads it, for all key pairs, tokens, requests and lengths of the        *)
(* fields, over ideal primitives.  Encoding and decoding are inverse to    *)
(* each other on every buffer and every authorization; an authorization    *)
(* that verifies is one that was authenticated; an honest knock opens.     *)
(***************************************************************************)
EXTENDS KnockWire, TLAPS, SequenceTheorems, WellFoundedInduction

-----------------------------------------------------------------------------
(***************************************************************************)
(* Induction and recursion over the numbers                                *)
(***************************************************************************)
\* A byte takes more than one value.
LEMMA BaseFacts == Base \in Nat \ {0} /\ Base > 1 /\ Byte = 0..Base-1 /\ Byte \subseteq Nat
BY WireAssumption DEF Byte

\* A nonempty set of numbers has a least element: < is well founded on Nat.
LEMMA Least ==
    ASSUME NEW T \in SUBSET Nat, T # {}
    PROVE  \E x \in T : \A y \in T : x <= y
<1> DEFINE R == OpToRel(<, Nat)
<1>1. IsWellFoundedOn(R, Nat) BY NatLessThanWellFounded
<1>2. \A x, y \in Nat : x < y => <<x, y>> \in R BY DEF OpToRel
<1> HIDE DEF R
<1>3. PICK x \in T : \A y \in T : <<y, x>> \notin R BY <1>1, WFMin
<1>4. \A y \in T : ~(y < x) BY <1>2, <1>3
<1>5. \A y \in T : x <= y BY <1>4
<1> QED BY <1>5

\* Induction over the numbers, stated of the set of those a property holds for.
LEMMA Induction ==
    ASSUME NEW S \in SUBSET Nat, 0 \in S, \A n \in S : n + 1 \in S
    PROVE  S = Nat
<1> SUFFICES ASSUME Nat \ S # {} PROVE FALSE OBVIOUS
<1>1. PICK x \in Nat \ S : \A y \in Nat \ S : x <= y BY Least
<1>2. x # 0 /\ x - 1 \in Nat BY <1>1
<1>3. x - 1 \in S BY <1>1, <1>2
<1>4. x - 1 + 1 = x BY <1>2
<1> QED BY <1>3, <1>4

\* v is the function of 0..m that begins with d and goes on with F.
Follows(v, d, F, m) ==
    /\ v \in [0..m -> Nat] /\ v[0] = d
    /\ \A i \in 1..m : v[i] = F[<<v[i - 1], i>>]

\* Such a function exists, however long.
LEMMA Recursion ==
    ASSUME NEW d \in Nat, NEW F \in [Nat \X Nat -> Nat], NEW m \in Nat
    PROVE  \E v : Follows(v, d, F, m)
<1> DEFINE S == {n \in Nat : \E v : Follows(v, d, F, n)}
<1>1. 0 \in S
  <2>1. Follows([i \in 0..0 |-> d], d, F, 0) BY DEF Follows
  <2> QED BY <2>1
<1>2. ASSUME NEW n \in S PROVE n + 1 \in S
  <2>1. PICK v : Follows(v, d, F, n) BY <1>2
  <2> DEFINE u == [i \in 0..n+1 |-> IF i <= n THEN v[i] ELSE F[<<v[n], n + 1>>]]
  <2>2. v[n] \in Nat BY <2>1 DEF Follows
  <2>3. F[<<v[n], n + 1>>] \in Nat BY <2>2
  <2>4. u \in [0..n+1 -> Nat]
    <3>1. ASSUME NEW i \in 0..n+1 PROVE u[i] \in Nat BY <2>1, <2>3 DEF Follows
    <3> QED BY <3>1
  <2>5. u[0] = d BY <2>1 DEF Follows
  <2>6. ASSUME NEW i \in 1..n+1 PROVE u[i] = F[<<u[i - 1], i>>]
    <3>1. CASE i = n + 1
      <4>1. u[n + 1] = F[<<v[n], n + 1>>] /\ u[n] = v[n] OBVIOUS
      <4>2. i - 1 = n BY <3>1
      <4> QED BY <3>1, <4>1, <4>2
    <3>2. CASE i # n + 1
      <4>1. i \in 1..n /\ i - 1 \in 0..n BY <3>2
      <4>2. u[i] = v[i] /\ u[i - 1] = v[i - 1] BY <4>1
      <4> QED BY <2>1, <4>1, <4>2 DEF Follows
    <3> QED BY <3>1, <3>2
  <2> HIDE DEF u
  <2>7. Follows(u, d, F, n + 1) BY <2>4, <2>5, <2>6 DEF Follows
  <2> QED BY <2>7
<1> HIDE DEF S
<1>3. S = Nat
  <2>1. S \in SUBSET Nat BY DEF S
  <2> QED BY <1>1, <1>2, <2>1, Induction
<1>4. \E v : Follows(v, d, F, m) BY <1>3 DEF S
<1> QED BY <1>4

-----------------------------------------------------------------------------
(***************************************************************************)
(* Unsigned integers as bytes: from_be_bytes and to_be_bytes               *)
(***************************************************************************)
\* The values from_be_bytes runs through satisfy its recurrence: the CHOOSE that
\* defines a recursive function has something to choose.
LEMMA ValuesDef ==
    ASSUME NEW s \in Seq(Byte)
    PROVE  /\ Values(s) \in [0..Len(s) -> Nat] /\ Values(s)[0] = 0
           /\ \A i \in 1..Len(s) : Values(s)[i] = Values(s)[i - 1] * Base + s[i]
<1> DEFINE n == Len(s)
           E(v) == v = [i \in 0..n |-> IF i = 0 THEN 0 ELSE v[i - 1] * Base + s[i]]
           F == [p \in Nat \X Nat |-> IF p[2] \in 1..n THEN p[1] * Base + s[p[2]] ELSE 0]
<1>1. Values(s) = CHOOSE v : E(v) BY DEF Values
<1>2. n \in Nat /\ \A i \in 1..n : s[i] \in Nat BY BaseFacts
<1>3. F \in [Nat \X Nat -> Nat]
  <2>1. ASSUME NEW x \in Nat, NEW y \in Nat
        PROVE  (IF y \in 1..n THEN x * Base + s[y] ELSE 0) \in Nat
    <3>1. x * Base \in Nat BY BaseFacts
    <3> QED BY <1>2, <3>1
  <2> QED BY <2>1
<1>4. \A x \in Nat, i \in 1..n : F[<<x, i>>] = x * Base + s[i] BY <1>2
<1> HIDE DEF F, n
<1>5. PICK v : Follows(v, 0, F, n) BY <1>2, <1>3, Recursion
<1>6. ASSUME NEW i \in 0..n PROVE v[i] = IF i = 0 THEN 0 ELSE v[i - 1] * Base + s[i]
  <2>1. CASE i = 0 BY <1>5, <2>1 DEF Follows
  <2>2. CASE i # 0
    <3>1. i \in 1..n /\ v[i - 1] \in Nat BY <1>2, <1>5, <2>2 DEF Follows
    <3> QED BY <1>4, <1>5, <2>2, <3>1 DEF Follows
  <2> QED BY <2>1, <2>2
<1>7. E(v) BY <1>5, <1>6 DEF Follows
<1>8. E(Values(s)) BY <1>1, <1>7
<1> DEFINE u == Values(s)
<1>9. u = [i \in 0..n |-> IF i = 0 THEN 0 ELSE u[i - 1] * Base + s[i]] BY <1>8
<1> HIDE DEF u
<1>10. u[0] = 0 /\ \A i \in 1..n : u[i] = u[i - 1] * Base + s[i]
  <2> DEFINE g == [i \in 0..n |-> IF i = 0 THEN 0 ELSE u[i - 1] * Base + s[i]]
  <2>1. u = g BY <1>9
  <2>2. g[0] = 0 BY <1>2
  <2>3. ASSUME NEW i \in 1..n PROVE g[i] = u[i - 1] * Base + s[i]
    <3>1. i \in 0..n /\ i # 0 BY <1>2
    <3> QED BY <3>1
  <2> HIDE DEF g
  <2> QED BY <2>1, <2>2, <2>3
<1>11. u \in [0..n -> Nat]
  <2> DEFINE T == {i \in Nat : i <= n => u[i] \in Nat}
  <2>1. 0 \in T BY <1>10
  <2>2. ASSUME NEW i \in T PROVE i + 1 \in T
    <3> SUFFICES ASSUME i + 1 <= n PROVE u[i + 1] \in Nat OBVIOUS
    <3>1. i + 1 \in 1..n /\ i + 1 - 1 = i /\ u[i] \in Nat BY <1>2
    <3>2. u[i + 1] = u[i] * Base + s[i + 1] BY <1>10, <3>1
    <3>3. u[i] * Base \in Nat BY <3>1, BaseFacts
    <3> QED BY <1>2, <3>1, <3>2, <3>3
  <2>3. T \in SUBSET Nat OBVIOUS
  <2> HIDE DEF T
  <2>4. T = Nat BY <2>1, <2>2, <2>3, Induction
  <2>5. \A i \in 0..n : u[i] \in Nat BY <1>2, <2>4 DEF T
  <2> QED BY <1>9, <2>5
<1> QED BY <1>10, <1>11 DEF n, u

\* So do the shifts to_be_bytes takes the low bytes of.
LEMMA ShiftsDef ==
    ASSUME NEW n \in Nat, NEW w \in Nat
    PROVE  /\ Shifts(n, w)[0] = n
           /\ \A k \in 1..w : Shifts(n, w)[k] = Shifts(n, w)[k - 1] \div Base
<1> DEFINE E(v) == v = [k \in 0..w |-> IF k = 0 THEN n ELSE v[k - 1] \div Base]
           F == [p \in Nat \X Nat |-> p[1] \div Base]
<1>1. Shifts(n, w) = CHOOSE v : E(v) BY DEF Shifts
<1>2. F \in [Nat \X Nat -> Nat]
  <2>1. ASSUME NEW x \in Nat PROVE x \div Base \in Nat BY BaseFacts
  <2> QED BY <2>1
<1>3. \A x \in Nat, k \in 1..w : F[<<x, k>>] = x \div Base OBVIOUS
<1> HIDE DEF F
<1>4. PICK v : Follows(v, n, F, w) BY <1>2, Recursion
<1>5. ASSUME NEW k \in 0..w PROVE v[k] = IF k = 0 THEN n ELSE v[k - 1] \div Base
  <2>1. CASE k = 0 BY <1>4, <2>1 DEF Follows
  <2>2. CASE k # 0
    <3>1. k \in 1..w /\ v[k - 1] \in Nat BY <1>4, <2>2 DEF Follows
    <3> QED BY <1>3, <1>4, <2>2, <3>1 DEF Follows
  <2> QED BY <2>1, <2>2
<1>6. E(v) BY <1>4, <1>5 DEF Follows
<1>7. E(Shifts(n, w)) BY <1>1, <1>6
<1> DEFINE u == Shifts(n, w)
<1>8. u = [k \in 0..w |-> IF k = 0 THEN n ELSE u[k - 1] \div Base] BY <1>7
<1> HIDE DEF u
<1>9. u[0] = n /\ \A k \in 1..w : u[k] = u[k - 1] \div Base
  <2> DEFINE g == [k \in 0..w |-> IF k = 0 THEN n ELSE u[k - 1] \div Base]
  <2>1. u = g BY <1>8
  <2>2. g[0] = n OBVIOUS
  <2>3. ASSUME NEW k \in 1..w PROVE g[k] = u[k - 1] \div Base
    <3>1. k \in 0..w /\ k # 0 OBVIOUS
    <3> QED BY <3>1
  <2> HIDE DEF g
  <2> QED BY <2>1, <2>2, <2>3
<1> QED BY <1>9 DEF u

\* A number that ends in the digit d: what is before it, and d itself.
LEMMA Digit ==
    ASSUME NEW B \in Nat \ {0}, NEW v \in Nat, NEW d \in 0..B-1
    PROVE  (v * B + d) \div B = v /\ (v * B + d) % B = d
<1> DEFINE x == v * B + d
           q == x \div B
           r == x % B
<1>1. x \in Nat OBVIOUS
<1>2. q \in Nat /\ r \in 0..B-1 /\ x = q * B + r BY <1>1
<1> HIDE DEF q, r
<1>3. q = v
  <2>1. CASE q >= v + 1
    <3>1. q * B >= (v + 1) * B BY <1>2, <2>1
    <3>2. (v + 1) * B = v * B + B OBVIOUS
    <3> QED BY <1>2, <3>1, <3>2
  <2>2. CASE v >= q + 1
    <3>1. v * B >= (q + 1) * B BY <1>2, <2>2
    <3>2. (q + 1) * B = q * B + B BY <1>2
    <3> QED BY <1>2, <3>1, <3>2
  <2> QED BY <1>2, <2>1, <2>2
<1>4. r = d BY <1>2, <1>3
<1> QED BY <1>3, <1>4 DEF q, r

\* The same of a byte in base Base.
LEMMA LowByte ==
    ASSUME NEW v \in Nat, NEW d \in Byte, NEW x, x = v * Base + d
    PROVE  x \div Base = v /\ x % Base = d
<1>1. Base \in Nat \ {0} /\ d \in 0..Base-1 BY BaseFacts
<1> QED BY <1>1, Digit

\* to_be_bytes undoes from_be_bytes: the shifts of the value of w bytes are the values
\* of their prefixes, the longest first.
LEMMA RoundTrip ==
    ASSUME NEW w \in Nat, NEW s \in Bytes(w)
    PROVE  Number(s) \in Nat /\ BigEndian(Number(s), w) = s
<1>1. s \in Seq(Byte) /\ Len(s) = w /\ \A i \in 1..w : s[i] \in Byte BY DEF Bytes
<1> DEFINE v == Values(s)
           n == Number(s)
           h == Shifts(n, w)
<1>2. v \in [0..w -> Nat] /\ n = v[w]
      /\ \A i \in 1..w : v[i] = v[i - 1] * Base + s[i]
      BY <1>1, ValuesDef DEF Number
<1>3. n \in Nat BY <1>2
<1>4. h[0] = n /\ \A k \in 1..w : h[k] = h[k - 1] \div Base BY <1>3, ShiftsDef
<1>5. BigEndian(n, w) = [i \in 1..w |-> h[w - i] % Base] BY DEF BigEndian
<1> HIDE DEF v, n, h
<1>6. \A k \in 0..w : h[k] = v[w - k]
  <2> DEFINE T == {k \in Nat : k <= w => h[k] = v[w - k]}
  <2>1. 0 \in T BY <1>2, <1>4
  <2>2. ASSUME NEW k \in T PROVE k + 1 \in T
    <3> SUFFICES ASSUME k + 1 <= w PROVE h[k + 1] = v[w - (k + 1)] OBVIOUS
    <3> DEFINE i == w - k
    <3>1. i \in 1..w /\ i - 1 = w - (k + 1) /\ i - 1 \in 0..w /\ k + 1 \in 1..w /\ k + 1 - 1 = k
          OBVIOUS
    <3>2. h[k] = v[i] BY <3>1
    <3> HIDE DEF i
    <3>3. v[i] = v[i - 1] * Base + s[i] /\ v[i - 1] \in Nat /\ s[i] \in Byte
          BY <1>1, <1>2, <3>1
    <3>4. v[i] \div Base = v[i - 1] BY <3>3, LowByte
    <3>5. h[k + 1] = h[k] \div Base BY <1>4, <3>1
    <3> QED BY <3>1, <3>2, <3>4, <3>5
  <2>3. T \in SUBSET Nat OBVIOUS
  <2> HIDE DEF T
  <2>4. T = Nat BY <2>1, <2>2, <2>3, Induction
  <2> QED BY <2>4 DEF T
<1>7. ASSUME NEW i \in 1..w PROVE h[w - i] % Base = s[i]
  <2>1. w - i \in 0..w /\ w - (w - i) = i /\ i - 1 \in 0..w BY <1>7
  <2>2. h[w - i] = v[i] BY <1>6, <2>1
  <2>3. v[i] = v[i - 1] * Base + s[i] /\ v[i - 1] \in Nat /\ s[i] \in Byte BY <1>1, <1>2, <2>1
  <2> QED BY <2>2, <2>3, LowByte
<1>8. [i \in 1..w |-> h[w - i] % Base] = [i \in 1..w |-> s[i]] BY <1>7
<1>9. s = [i \in 1..w |-> s[i]] BY DEF Bytes
<1>10. BigEndian(n, w) = s BY <1>5, <1>8, <1>9
<1> QED BY <1>3, <1>10 DEF n

-----------------------------------------------------------------------------
(***************************************************************************)
(* The layout: fields one after the other, ports of equal width            *)
(***************************************************************************)
\* The lengths are numbers, and the version and the number of ports fit in a byte.
LEMMA Lengths ==
    /\ NonceLen \in Nat /\ TimeLen \in Nat /\ GateIdLen \in Nat /\ ThumbprintLen \in Nat
    /\ PortLen \in Nat /\ SigLen \in Nat /\ TagLen \in Nat /\ MaxPorts \in Nat
    /\ FixedLen \in Nat /\ FixedLen >= 1 /\ Base \in Nat /\ Version \in Byte
    /\ 1..MaxPorts \subseteq Byte
<1>1. /\ NonceLen \in Nat /\ TimeLen \in Nat /\ GateIdLen \in Nat /\ ThumbprintLen \in Nat
      /\ PortLen \in Nat /\ SigLen \in Nat /\ TagLen \in Nat
      BY WireAssumption
<1>2. Base \in Nat /\ Version \in Byte /\ MaxPorts \in Byte BY WireAssumption
<1>3. FixedLen \in Nat /\ FixedLen >= 1 BY <1>1 DEF FixedLen
<1>4. MaxPorts \in Nat /\ 1..MaxPorts \subseteq Byte BY <1>2 DEF Byte
<1> QED BY <1>1, <1>2, <1>3, <1>4

\* from_be_bytes undoes to_be_bytes, on the unsigned integers of w bytes.
LEMMA UnsignedFacts ==
    ASSUME NEW w \in Nat, NEW n \in Unsigned(w)
    PROVE  BigEndian(n, w) \in Bytes(w) /\ Number(BigEndian(n, w)) = n
<1>1. PICK s \in Bytes(w) : n = Number(s) BY DEF Unsigned
<1> QED BY <1>1, RoundTrip

\* w bytes are a sequence of length w.
LEMMA BytesFacts ==
    ASSUME NEW w \in Nat, NEW s \in Bytes(w)
    PROVE  s \in Seq(Byte) /\ Len(s) = w
BY DEF Bytes

\* Reader::take inside the buffer: n bytes, those after position p.
LEMMA TakeFacts ==
    ASSUME NEW s \in Seq(Byte), NEW p \in Nat, NEW n \in Nat, p + n <= Len(s)
    PROVE  /\ Take(s, p, n) \in Seq(Byte) /\ Take(s, p, n) \in [1..n -> Byte]
           /\ Len(Take(s, p, n)) = n
           /\ \A i \in 1..n : Take(s, p, n)[i] = s[p + i]
<1>1. \A i \in (p + 1)..(p + n) : s[i] \in Byte OBVIOUS
<1>2. p + 1 \in Int /\ p + n \in Int OBVIOUS
<1>3. /\ SubSeq(s, p + 1, p + n) \in Seq(Byte)
      /\ Len(SubSeq(s, p + 1, p + n)) = IF p + 1 <= p + n THEN (p + n) - (p + 1) + 1 ELSE 0
      /\ \A i \in 1..((p + n) - (p + 1) + 1) :
            SubSeq(s, p + 1, p + n)[i] = s[(p + 1) + i - 1]
      BY <1>1, <1>2, SubSeqProperties
<1> DEFINE t == SubSeq(s, p + 1, p + n)
<1> HIDE DEF t
<1>4. t \in Seq(Byte) /\ Len(t) = n BY <1>3 DEF t
<1>5. ASSUME NEW i \in 1..n PROVE t[i] = s[p + i]
  <2>1. i \in 1..((p + n) - (p + 1) + 1) /\ (p + 1) + i - 1 = p + i OBVIOUS
  <2> QED BY <1>3, <2>1 DEF t
<1>6. Take(s, p, n) = t BY DEF Take, t
<1>7. t \in [1..n -> Byte] BY <1>4, LenProperties
<1> QED BY <1>4, <1>5, <1>6, <1>7

\* Two reads in a row are one read of both.
LEMMA TakeNext ==
    ASSUME NEW s \in Seq(Byte), NEW p \in Nat, NEW n \in Nat, NEW q, q = p + n, q <= Len(s)
    PROVE  Take(s, 0, p) \o Take(s, p, n) = Take(s, 0, q)
<1>1. 1 \in 1..Len(s)+1 /\ p \in (1-1)..Len(s) /\ p + n \in p..Len(s) OBVIOUS
<1>2. SubSeq(s, 1, p) \o SubSeq(s, p + 1, p + n) = SubSeq(s, 1, p + n)
      BY <1>1, ConcatAdjacentSubSeq
<1>3. 0 + p = p /\ 0 + (p + n) = p + n /\ 0 + 1 = 1 OBVIOUS
<1> QED BY <1>2, <1>3 DEF Take

\* Where byte i of a list of n entries of w bytes lies: in which entry, and at which
\* place of it.
LEMMA Slot ==
    ASSUME NEW w \in Nat, NEW n \in Nat, NEW i \in 1..(w * n)
    PROVE  /\ w > 0
           /\ (i - 1) \div w \in 0..n-1 /\ (i - 1) % w \in 0..w-1
           /\ i = w * ((i - 1) \div w) + ((i - 1) % w) + 1
           /\ w * ((i - 1) \div w) \in Nat /\ w * ((i - 1) \div w) + w <= w * n
<1>1. w > 0 /\ i - 1 \in Nat
  <2>1. w * n \in Nat /\ w * n > 0 OBVIOUS
  <2>2. ASSUME w = 0 PROVE FALSE BY <2>1, <2>2
  <2> QED BY <2>2
<1> DEFINE q == (i - 1) \div w
           r == (i - 1) % w
<1>2. q \in Nat /\ r \in 0..w-1 /\ i - 1 = q * w + r BY <1>1
<1> HIDE DEF q, r
<1>3. q * w = w * q /\ w * q \in Nat /\ w * n \in Nat BY <1>2
<1>4. q + 1 <= n
  <2>1. SUFFICES ASSUME n <= q PROVE FALSE BY <1>2
  <2>2. w * n <= w * q BY <1>1, <1>2, <2>1
  <2> QED BY <1>2, <1>3, <2>2
<1>5. w * (q + 1) = w * q + w BY <1>2
<1>6. w * (q + 1) <= w * n BY <1>1, <1>2, <1>4
<1>7. i = w * q + r + 1 BY <1>2, <1>3
<1>8. q \in 0..n-1 BY <1>2, <1>4
<1> QED BY <1>1, <1>2, <1>3, <1>5, <1>6, <1>7, <1>8 DEF q, r

\* The converse: the place r of entry j, and no other, is byte w * j + r + 1.
LEMMA SlotOf ==
    ASSUME NEW w \in Nat, NEW n \in Nat, NEW j \in 0..n-1, NEW r \in 0..w-1
    PROVE  /\ w * j \in Nat /\ w * j + w <= w * n /\ w * j + r + 1 \in 1..(w * n)
           /\ ((w * j + r + 1) - 1) \div w = j /\ ((w * j + r + 1) - 1) % w = r
<1>1. w \in Nat \ {0} /\ j \in Nat /\ j + 1 <= n OBVIOUS
<1>2. w * j \in Nat /\ w * n \in Nat /\ w * j = j * w BY <1>1
<1>3. w * (j + 1) = w * j + w /\ w * (j + 1) <= w * n BY <1>1
<1>4. (w * j + r + 1) - 1 = j * w + r BY <1>2
<1>5. (j * w + r) \div w = j /\ (j * w + r) % w = r BY <1>1, Digit
<1> QED BY <1>2, <1>3, <1>4, <1>5

-----------------------------------------------------------------------------
(***************************************************************************)
(* decode and encode                                                       *)
(***************************************************************************)
\* Bytes that agree at every place are the same bytes.
LEMMA SameBytes ==
    ASSUME NEW n \in Nat, NEW f \in [1..n -> Byte], NEW g \in [1..n -> Byte],
           \A i \in 1..n : f[i] = g[i]
    PROVE  f = g
OBVIOUS

\* What decode has looked at when it returns an authorization.
LEMMA DecodedFacts ==
    ASSUME NEW buf, Decode(buf).err = "none"
    PROVE  /\ ~(Len(buf) < FixedLen + 1) /\ buf[1] = Version
           /\ buf[FixedLen + 1] \in 1..MaxPorts
           /\ ~(Len(buf) < PlainLen(buf[FixedLen + 1])) /\ ~(Len(buf) > PlainLen(buf[FixedLen + 1]))
           /\ Decode(buf).auth = Fields(buf, buf[FixedLen + 1])
BY DEF Decode

\* The ports read from a buffer, written again, are the bytes they were read from.
LEMMA PortsOfBytes ==
    ASSUME NEW buf \in Seq(Byte), NEW p \in Nat, NEW n \in Nat, p + PortLen * n <= Len(buf),
           NEW ports, ports = [i \in 1..n |-> Number(Take(buf, p + PortLen * (i - 1), PortLen))]
    PROVE  /\ ports \in Seq(Unsigned(PortLen)) /\ Len(ports) = n
           /\ PortBytes(ports) = Take(buf, p, PortLen * n)
<1>1. PortLen \in Nat BY Lengths
<1>2. PortLen * n \in Nat BY <1>1
<1>3. ASSUME NEW i \in 1..n
      PROVE  /\ p + PortLen * (i - 1) \in Nat
             /\ p + PortLen * (i - 1) + PortLen <= Len(buf)
             /\ Take(buf, p + PortLen * (i - 1), PortLen) \in Bytes(PortLen)
  <2> DEFINE m == PortLen * (i - 1)
             k == PortLen * n
  <2>1. i - 1 \in Nat /\ i <= n OBVIOUS
  <2>2. m \in Nat BY <1>1, <2>1
  <2>3. PortLen * i = m + PortLen /\ PortLen * i <= k BY <1>1, <2>1
  <2>4. m + PortLen <= k /\ k \in Nat /\ p + k <= Len(buf) BY <1>2, <2>3
  <2> HIDE DEF m, k
  <2>5. p + m \in Nat /\ p + m + PortLen <= Len(buf) BY <1>1, <2>2, <2>4
  <2>6. Take(buf, p + m, PortLen) \in [1..PortLen -> Byte] BY <1>1, <2>5, TakeFacts
  <2> QED BY <2>5, <2>6 DEF m, Bytes
<1>4. \A i \in 1..n : ports[i] \in Unsigned(PortLen) BY <1>3 DEF Unsigned
<1>5. ports \in [1..n -> Unsigned(PortLen)] BY <1>4
<1>6. ports \in Seq(Unsigned(PortLen)) /\ Len(ports) = n BY <1>5
<1> DEFINE e == PortBytes(ports)
           t == Take(buf, p, PortLen * n)
           Cell(i) == BigEndian(ports[((i - 1) \div PortLen) + 1], PortLen)[((i - 1) % PortLen) + 1]
<1>7. e = [i \in 1..PortLen * n |-> Cell(i)] BY <1>6 DEF PortBytes
<1>8. t \in [1..PortLen * n -> Byte] /\ \A i \in 1..PortLen * n : t[i] = buf[p + i]
      BY <1>2, TakeFacts
<1>9. ASSUME NEW i \in 1..PortLen * n PROVE Cell(i) = t[i]
  <2> DEFINE j == (i - 1) \div PortLen
             r == (i - 1) % PortLen
             f == Take(buf, p + PortLen * j, PortLen)
  <2>1. /\ j \in 0..n-1 /\ r \in 0..PortLen-1 /\ i = PortLen * j + r + 1
        /\ PortLen * j \in Nat
        BY <1>1, Slot
  <2>2. Cell(i) = BigEndian(ports[j + 1], PortLen)[r + 1] OBVIOUS
  <2> HIDE DEF j, r, Cell
  <2>3. j + 1 \in 1..n /\ (j + 1) - 1 = j /\ r + 1 \in 1..PortLen BY <1>1, <2>1
  <2>4. p + PortLen * j \in Nat /\ p + PortLen * j + PortLen <= Len(buf) /\ f \in Bytes(PortLen)
        BY <1>3, <2>3
  <2>5. ports[j + 1] = Number(f) BY <2>3
  <2>6. BigEndian(ports[j + 1], PortLen) = f BY <1>1, <2>4, <2>5, RoundTrip
  <2>7. f[r + 1] = buf[(p + PortLen * j) + (r + 1)] BY <1>1, <2>3, <2>4, TakeFacts
  <2> HIDE DEF f
  <2>8. (p + PortLen * j) + (r + 1) = p + i BY <2>1
  <2> QED BY <1>8, <2>2, <2>6, <2>7, <2>8
<1> HIDE DEF Cell, e, t
<1>10. e = t BY <1>7, <1>8, <1>9
<1> QED BY <1>6, <1>10 DEF e, t

\* encode undoes decode on every buffer decode accepts, and what signing_bytes gives of
\* the result is that buffer without its signature: field after field is put back where
\* it was read.
LEMMA DecodeCanonical ==
    ASSUME NEW buf \in Seq(Byte), Decode(buf).err = "none", NEW a, a = Decode(buf).auth
    PROVE  /\ Encode(a) = buf
           /\ SigningBytes(a) = Take(buf, 0, Len(buf) - SigLen)
<1> DEFINE n == buf[FixedLen + 1]
           p1 == 1 + NonceLen
           p2 == p1 + TimeLen
           p3 == p2 + GateIdLen
           p4 == p3 + ThumbprintLen
           p5 == p4 + 1
           p6 == p5 + PortLen * n
<1>1. /\ n \in 1..MaxPorts /\ buf[1] = Version /\ a = Fields(buf, n)
      /\ ~(Len(buf) < PlainLen(n)) /\ ~(Len(buf) > PlainLen(n))
      BY DecodedFacts
<1> HIDE DEF n
<1>2. n \in Nat /\ PortLen * n \in Nat BY <1>1, Lengths
<1>3. FixedLen = p4 BY Lengths DEF FixedLen
<1>4. p1 \in Nat /\ p2 \in Nat /\ p3 \in Nat /\ p4 \in Nat /\ p5 \in Nat /\ p6 \in Nat
      BY <1>2, Lengths
<1>5. Len(buf) = p6 + SigLen
  <2>1. PlainLen(n) = p6 + SigLen BY <1>3 DEF PlainLen
  <2> QED BY <1>1, <1>4, <2>1, Lengths
<1>6. /\ a.nonce = Take(buf, 1, NonceLen)
      /\ a.timestamp = Number(Take(buf, p1, TimeLen))
      /\ a.gate_id = Take(buf, p2, GateIdLen)
      /\ a.thumbprint = Take(buf, p3, ThumbprintLen)
      /\ a.ports = [i \in 1..n |-> Number(Take(buf, p5 + PortLen * (i - 1), PortLen))]
      /\ a.signature = Take(buf, p6, SigLen)
      BY <1>1, <1>3 DEF Fields
<1>7. n = buf[p5] BY <1>3 DEF n
<1>8. /\ p1 = 1 + NonceLen /\ p2 = p1 + TimeLen /\ p3 = p2 + GateIdLen
      /\ p4 = p3 + ThumbprintLen /\ p5 = p4 + 1 /\ p6 = p5 + PortLen * n
      OBVIOUS
<1> HIDE DEF p1, p2, p3, p4, p5, p6
<1>9. /\ 1 <= Len(buf) /\ p1 <= Len(buf) /\ p2 <= Len(buf) /\ p3 <= Len(buf) /\ p4 <= Len(buf)
      /\ p5 <= Len(buf) /\ p6 <= Len(buf)
      BY <1>2, <1>4, <1>5, <1>8, Lengths
<1>10. <<Version>> = Take(buf, 0, 1)
  <2>1. 0 \in Nat /\ 1 \in Nat /\ 0 + 1 <= Len(buf) /\ 0 + 1 = 1 BY <1>9
  <2>2. /\ Take(buf, 0, 1) \in [1..1 -> Byte]
        /\ \A i \in 1..1 : Take(buf, 0, 1)[i] = buf[0 + i]
        BY <2>1, TakeFacts
  <2>3. Take(buf, 0, 1)[1] = buf[1] BY <2>1, <2>2
  <2> QED BY <1>1, <2>2, <2>3
<1>11. Take(buf, 0, 1) \o a.nonce = Take(buf, 0, p1)
  <2>1. 1 \in Nat /\ NonceLen \in Nat /\ p1 = 1 + NonceLen /\ p1 <= Len(buf)
        BY <1>8, <1>9, Lengths
  <2> QED BY <1>6, <2>1, TakeNext
<1>12. BigEndian(a.timestamp, TimeLen) = Take(buf, p1, TimeLen)
  <2>1. p1 \in Nat /\ TimeLen \in Nat /\ p1 + TimeLen <= Len(buf) BY <1>4, <1>8, <1>9, Lengths
  <2>2. Take(buf, p1, TimeLen) \in [1..TimeLen -> Byte] BY <2>1, TakeFacts
  <2>3. Take(buf, p1, TimeLen) \in Bytes(TimeLen) BY <2>2 DEF Bytes
  <2> QED BY <1>6, <2>1, <2>3, RoundTrip
<1>13. Take(buf, 0, p1) \o Take(buf, p1, TimeLen) = Take(buf, 0, p2)
  <2>1. p1 \in Nat /\ TimeLen \in Nat /\ p2 = p1 + TimeLen /\ p2 <= Len(buf)
        BY <1>4, <1>8, <1>9, Lengths
  <2> QED BY <2>1, TakeNext
<1>14. Take(buf, 0, p2) \o a.gate_id = Take(buf, 0, p3)
  <2>1. p2 \in Nat /\ GateIdLen \in Nat /\ p3 = p2 + GateIdLen /\ p3 <= Len(buf)
        BY <1>4, <1>8, <1>9, Lengths
  <2> QED BY <1>6, <2>1, TakeNext
<1>15. Take(buf, 0, p3) \o a.thumbprint = Take(buf, 0, p4)
  <2>1. p3 \in Nat /\ ThumbprintLen \in Nat /\ p4 = p3 + ThumbprintLen /\ p4 <= Len(buf)
        BY <1>4, <1>8, <1>9, Lengths
  <2> QED BY <1>6, <2>1, TakeNext
<1>16. Len(a.ports) = n /\ PortBytes(a.ports) = Take(buf, p5, PortLen * n)
  <2>1. p5 \in Nat /\ n \in Nat /\ p5 + PortLen * n <= Len(buf) BY <1>2, <1>4, <1>8, <1>9
  <2> QED BY <1>6, <2>1, PortsOfBytes
<1>17. <<Len(a.ports)>> = Take(buf, p4, 1)
  <2>1. p4 \in Nat /\ 1 \in Nat /\ p4 + 1 <= Len(buf) /\ p4 + 1 = p5 BY <1>4, <1>8, <1>9
  <2>2. /\ Take(buf, p4, 1) \in [1..1 -> Byte]
        /\ \A i \in 1..1 : Take(buf, p4, 1)[i] = buf[p4 + i]
        BY <2>1, TakeFacts
  <2>3. Take(buf, p4, 1)[1] = buf[p5] BY <2>1, <2>2
  <2> QED BY <1>7, <1>16, <2>2, <2>3
<1>18. Take(buf, 0, p4) \o Take(buf, p4, 1) = Take(buf, 0, p5)
  <2>1. p4 \in Nat /\ 1 \in Nat /\ p5 = p4 + 1 /\ p5 <= Len(buf) BY <1>4, <1>8, <1>9
  <2> QED BY <2>1, TakeNext
<1>19. Take(buf, 0, p5) \o Take(buf, p5, PortLen * n) = Take(buf, 0, p6)
  <2>1. p5 \in Nat /\ PortLen * n \in Nat /\ p6 = p5 + PortLen * n /\ p6 <= Len(buf)
        BY <1>2, <1>4, <1>8, <1>9
  <2> QED BY <2>1, TakeNext
<1>20. Take(buf, 0, p6) \o a.signature = Take(buf, 0, Len(buf))
  <2>1. p6 \in Nat /\ SigLen \in Nat /\ Len(buf) = p6 + SigLen /\ Len(buf) <= Len(buf)
        BY <1>4, <1>5, Lengths
  <2> QED BY <1>6, <2>1, TakeNext
<1>21. SigningBytes(a) = Take(buf, 0, p6)
       BY <1>10, <1>11, <1>12, <1>13, <1>14, <1>15, <1>16, <1>17, <1>18, <1>19 DEF SigningBytes
<1>22. Take(buf, 0, Len(buf)) = buf
  <2>1. SubSeq(buf, 1, Len(buf)) = buf BY SubSeqFull
  <2>2. 0 + 1 = 1 /\ 0 + Len(buf) = Len(buf) OBVIOUS
  <2> QED BY <2>1, <2>2 DEF Take
<1>23. Len(buf) - SigLen = p6 BY <1>4, <1>5, Lengths
<1> QED BY <1>20, <1>21, <1>22, <1>23 DEF Encode

\* Bytes after bytes are bytes, and their lengths add up.
LEMMA ConcatBytes ==
    ASSUME NEW s \in Seq(Byte), NEW t \in Seq(Byte)
    PROVE  s \o t \in Seq(Byte) /\ Len(s \o t) = Len(s) + Len(t)
BY ConcatProperties

\* The buffer e starts with the bytes s.
Starts(e, s) == Len(s) <= Len(e) /\ \A i \in 1..Len(s) : e[i] = s[i]

\* A buffer that starts with s and then t starts with s, and t is read after it.
LEMMA StartsFacts ==
    ASSUME NEW e \in Seq(Byte), NEW s \in Seq(Byte), NEW t \in Seq(Byte), Starts(e, s \o t)
    PROVE  Starts(e, s) /\ Take(e, Len(s), Len(t)) = t
<1> DEFINE m == Len(s)
           n == Len(t)
           c == s \o t
<1>1. /\ m \in Nat /\ n \in Nat /\ Len(c) = m + n /\ Len(c) <= Len(e) /\ Len(e) \in Nat
      BY ConcatProperties DEF Starts
<1>2. \A i \in 1..m+n : c[i] = IF i <= m THEN s[i] ELSE t[i - m] BY ConcatProperties
<1>3. \A i \in 1..m+n : e[i] = c[i] BY <1>1 DEF Starts
<1> HIDE DEF m, n, c
<1>4. ASSUME NEW i \in 1..m PROVE e[i] = s[i]
  <2>1. i \in 1..m+n /\ i <= m BY <1>1
  <2> QED BY <1>2, <1>3, <2>1
<1>5. m <= Len(e) BY <1>1
<1>6. Starts(e, s) BY <1>4, <1>5 DEF Starts, m
<1> DEFINE u == Take(e, m, n)
<1>7. u \in [1..n -> Byte] /\ \A i \in 1..n : u[i] = e[m + i] BY <1>1, TakeFacts
<1> HIDE DEF u
<1>8. ASSUME NEW i \in 1..n PROVE u[i] = t[i]
  <2>1. m + i \in 1..m+n /\ ~(m + i <= m) /\ (m + i) - m = i BY <1>1
  <2>2. e[m + i] = t[i] BY <1>2, <1>3, <2>1
  <2> QED BY <1>7, <2>2
<1>9. t \in [1..n -> Byte] BY LenProperties DEF n
<1>10. u = t BY <1>1, <1>7, <1>8, <1>9, SameBytes
<1> QED BY <1>6, <1>10 DEF u, m, n

\* The ports as bytes: as many as their widths, each port in the place its index gives.
LEMMA BytesOfPorts ==
    ASSUME NEW ports \in Seq(Unsigned(PortLen))
    PROVE  /\ PortBytes(ports) \in Seq(Byte)
           /\ Len(PortBytes(ports)) = PortLen * Len(ports)
           /\ \A i \in 1..Len(ports), k \in 1..PortLen :
                 PortBytes(ports)[PortLen * (i - 1) + k] = BigEndian(ports[i], PortLen)[k]
<1> DEFINE n == Len(ports)
           e == PortBytes(ports)
           Cell(i) == BigEndian(ports[((i - 1) \div PortLen) + 1], PortLen)[((i - 1) % PortLen) + 1]
<1>1. PortLen \in Nat /\ n \in Nat /\ PortLen * n \in Nat BY Lengths
<1>2. e = [i \in 1..PortLen * n |-> Cell(i)] BY DEF PortBytes
<1>3. ASSUME NEW i \in 1..n
      PROVE  BigEndian(ports[i], PortLen) \in [1..PortLen -> Byte]
  <2>1. ports[i] \in Unsigned(PortLen) BY ElementOfSeq
  <2> QED BY <1>1, <2>1, UnsignedFacts DEF Bytes
<1>4. ASSUME NEW i \in 1..PortLen * n PROVE Cell(i) \in Byte
  <2> DEFINE j == (i - 1) \div PortLen
             r == (i - 1) % PortLen
  <2>1. j \in 0..n-1 /\ r \in 0..PortLen-1 BY <1>1, Slot
  <2>2. Cell(i) = BigEndian(ports[j + 1], PortLen)[r + 1] OBVIOUS
  <2> HIDE DEF j, r, Cell
  <2>3. j + 1 \in 1..n /\ r + 1 \in 1..PortLen BY <1>1, <2>1
  <2> QED BY <1>3, <2>2, <2>3
<1>5. ASSUME NEW i \in 1..n, NEW k \in 1..PortLen
      PROVE  e[PortLen * (i - 1) + k] = BigEndian(ports[i], PortLen)[k]
  <2> DEFINE j == i - 1
             r == k - 1
             x == PortLen * j + r + 1
  <2>1. j \in 0..n-1 /\ r \in 0..PortLen-1 /\ j + 1 = i /\ r + 1 = k BY <1>1
  <2>2. /\ x \in 1..PortLen * n /\ (x - 1) \div PortLen = j /\ (x - 1) % PortLen = r
        /\ PortLen * j \in Nat
        BY <1>1, <2>1, SlotOf
  <2>3. Cell(x) = BigEndian(ports[i], PortLen)[k] BY <2>1, <2>2
  <2>4. x = PortLen * (i - 1) + k BY <1>1, <2>2
  <2> HIDE DEF x, Cell
  <2>5. e[x] = Cell(x) BY <1>2, <2>2
  <2> QED BY <2>3, <2>4, <2>5
<1> HIDE DEF e, Cell
<1>6. e \in [1..PortLen * n -> Byte] BY <1>2, <1>4
<1>7. e \in Seq(Byte) /\ Len(e) = PortLen * n BY <1>1, <1>6
<1> QED BY <1>5, <1>7 DEF e

\* decode undoes encode on every authorization that can be encoded, and the signature is
\* over all of the encoding but itself.
LEMMA EncodeDecodes ==
    ASSUME NEW a \in Authorization, Encodable(a)
    PROVE  /\ Encode(a) \in Seq(Byte) /\ Len(Encode(a)) = PlainLen(Len(a.ports))
           /\ Decode(Encode(a)).err = "none" /\ Decode(Encode(a)).auth = a
           /\ SigningBytes(a) = Take(Encode(a), 0, Len(Encode(a)) - SigLen)
<1> DEFINE n == Len(a.ports)
           time == BigEndian(a.timestamp, TimeLen)
           count == <<n>>
           list == PortBytes(a.ports)
           s0 == <<Version>>
           s1 == s0 \o a.nonce
           s2 == s1 \o time
           s3 == s2 \o a.gate_id
           s4 == s3 \o a.thumbprint
           s5 == s4 \o count
           s6 == s5 \o list
           e  == s6 \o a.signature
<1>1. SigningBytes(a) = s6 /\ Encode(a) = e BY DEF Encode, SigningBytes
<1>2. n \in 1..MaxPorts /\ n \in Nat /\ n \in Byte BY Lengths DEF Encodable
<1>3. /\ a.nonce \in Seq(Byte) /\ Len(a.nonce) = NonceLen
      /\ a.gate_id \in Seq(Byte) /\ Len(a.gate_id) = GateIdLen
      /\ a.thumbprint \in Seq(Byte) /\ Len(a.thumbprint) = ThumbprintLen
      /\ a.signature \in Seq(Byte) /\ Len(a.signature) = SigLen
      BY BytesFacts, Lengths DEF Authorization
<1>4. time \in Seq(Byte) /\ Len(time) = TimeLen /\ Number(time) = a.timestamp
      BY UnsignedFacts, BytesFacts, Lengths DEF Authorization
<1>5. a.ports \in Seq(Unsigned(PortLen)) BY DEF Authorization
<1>6. /\ list \in Seq(Byte) /\ Len(list) = PortLen * n
      /\ \A i \in 1..n, k \in 1..PortLen :
            list[PortLen * (i - 1) + k] = BigEndian(a.ports[i], PortLen)[k]
      BY <1>5, BytesOfPorts
<1>7. s0 \in Seq(Byte) /\ Len(s0) = 1 /\ s0[1] = Version BY Lengths
<1>8. count \in Seq(Byte) /\ Len(count) = 1 /\ count[1] = n BY <1>2
<1> HIDE DEF n, time, count, list, s0
<1>9. s1 \in Seq(Byte) /\ Len(s1) = 1 + NonceLen
  <2>1. s0 \in Seq(Byte) /\ a.nonce \in Seq(Byte) BY <1>7, <1>3
  <2>2. s1 \in Seq(Byte) /\ Len(s1) = Len(s0) + Len(a.nonce) BY <2>1, ConcatBytes
  <2> HIDE DEF s1
  <2> QED BY <2>2, <1>7, <1>3
<1> HIDE DEF s1
<1>10. s2 \in Seq(Byte) /\ Len(s2) = 1 + NonceLen + TimeLen
  <2>1. s1 \in Seq(Byte) /\ time \in Seq(Byte) BY <1>9, <1>4
  <2>2. s2 \in Seq(Byte) /\ Len(s2) = Len(s1) + Len(time) BY <2>1, ConcatBytes
  <2> HIDE DEF s2
  <2> QED BY <2>2, <1>9, <1>4
<1> HIDE DEF s2
<1>11. s3 \in Seq(Byte) /\ Len(s3) = 1 + NonceLen + TimeLen + GateIdLen
  <2>1. s2 \in Seq(Byte) /\ a.gate_id \in Seq(Byte) BY <1>10, <1>3
  <2>2. s3 \in Seq(Byte) /\ Len(s3) = Len(s2) + Len(a.gate_id) BY <2>1, ConcatBytes
  <2> HIDE DEF s3
  <2> QED BY <2>2, <1>10, <1>3
<1> HIDE DEF s3
<1>12. s4 \in Seq(Byte) /\ Len(s4) = FixedLen
  <2>1. s3 \in Seq(Byte) /\ a.thumbprint \in Seq(Byte) BY <1>11, <1>3
  <2>2. s4 \in Seq(Byte) /\ Len(s4) = Len(s3) + Len(a.thumbprint) BY <2>1, ConcatBytes
  <2> HIDE DEF s4
  <2> QED BY <2>2, <1>11, <1>3 DEF FixedLen
<1> HIDE DEF s4
<1>13. s5 \in Seq(Byte) /\ Len(s5) = FixedLen + 1
  <2>1. s4 \in Seq(Byte) /\ count \in Seq(Byte) BY <1>12, <1>8
  <2>2. s5 \in Seq(Byte) /\ Len(s5) = Len(s4) + Len(count) BY <2>1, ConcatBytes
  <2> HIDE DEF s5
  <2> QED BY <2>2, <1>12, <1>8
<1> HIDE DEF s5
<1>14. s6 \in Seq(Byte) /\ Len(s6) = FixedLen + 1 + PortLen * n
  <2>1. s5 \in Seq(Byte) /\ list \in Seq(Byte) BY <1>13, <1>6
  <2>2. s6 \in Seq(Byte) /\ Len(s6) = Len(s5) + Len(list) BY <2>1, ConcatBytes
  <2> HIDE DEF s6
  <2> QED BY <2>2, <1>13, <1>6
<1> HIDE DEF s6
<1>15. e \in Seq(Byte) /\ Len(e) = FixedLen + 1 + PortLen * n + SigLen
  <2>1. s6 \in Seq(Byte) /\ a.signature \in Seq(Byte) BY <1>14, <1>3
  <2>2. e \in Seq(Byte) /\ Len(e) = Len(s6) + Len(a.signature) BY <2>1, ConcatBytes
  <2> HIDE DEF e
  <2> QED BY <2>2, <1>14, <1>3
<1>16. e = s6 \o a.signature OBVIOUS
<1> HIDE DEF e
<1>17. Starts(e, e) BY <1>15 DEF Starts
<1>18. Starts(e, s6) /\ Take(e, Len(s6), Len(a.signature)) = a.signature
  <2>1. s6 \in Seq(Byte) /\ a.signature \in Seq(Byte) /\ e \in Seq(Byte) BY <1>3, <1>14, <1>15
  <2>2. Starts(e, s6 \o a.signature) BY <1>16, <1>17
  <2> QED BY <2>1, <2>2, StartsFacts
<1>19. Starts(e, s5) /\ Take(e, Len(s5), Len(list)) = list
  <2>1. s5 \in Seq(Byte) /\ list \in Seq(Byte) /\ e \in Seq(Byte) BY <1>6, <1>13, <1>15
  <2>2. Starts(e, s5 \o list) BY <1>18 DEF s6
  <2> QED BY <2>1, <2>2, StartsFacts
<1>20. Starts(e, s4) /\ Take(e, Len(s4), Len(count)) = count
  <2>1. s4 \in Seq(Byte) /\ count \in Seq(Byte) /\ e \in Seq(Byte) BY <1>8, <1>12, <1>15
  <2>2. Starts(e, s4 \o count) BY <1>19 DEF s5
  <2> QED BY <2>1, <2>2, StartsFacts
<1>21. Starts(e, s3) /\ Take(e, Len(s3), Len(a.thumbprint)) = a.thumbprint
  <2>1. s3 \in Seq(Byte) /\ a.thumbprint \in Seq(Byte) /\ e \in Seq(Byte) BY <1>3, <1>11, <1>15
  <2>2. Starts(e, s3 \o a.thumbprint) BY <1>20 DEF s4
  <2> QED BY <2>1, <2>2, StartsFacts
<1>22. Starts(e, s2) /\ Take(e, Len(s2), Len(a.gate_id)) = a.gate_id
  <2>1. s2 \in Seq(Byte) /\ a.gate_id \in Seq(Byte) /\ e \in Seq(Byte) BY <1>3, <1>10, <1>15
  <2>2. Starts(e, s2 \o a.gate_id) BY <1>21 DEF s3
  <2> QED BY <2>1, <2>2, StartsFacts
<1>23. Starts(e, s1) /\ Take(e, Len(s1), Len(time)) = time
  <2>1. s1 \in Seq(Byte) /\ time \in Seq(Byte) /\ e \in Seq(Byte) BY <1>4, <1>9, <1>15
  <2>2. Starts(e, s1 \o time) BY <1>22 DEF s2
  <2> QED BY <2>1, <2>2, StartsFacts
<1>24. Starts(e, s0) /\ Take(e, Len(s0), Len(a.nonce)) = a.nonce
  <2>1. s0 \in Seq(Byte) /\ a.nonce \in Seq(Byte) /\ e \in Seq(Byte) BY <1>3, <1>7, <1>15
  <2>2. Starts(e, s0 \o a.nonce) BY <1>23 DEF s1
  <2> QED BY <2>1, <2>2, StartsFacts
<1>25. e[1] = Version BY <1>7, <1>24 DEF Starts
<1>26. e[FixedLen + 1] = n
  <2>1. FixedLen \in Nat /\ 1 \in Nat /\ FixedLen + 1 <= Len(e) BY <1>13, <1>19, Lengths DEF Starts
  <2>2. \A i \in 1..1 : Take(e, FixedLen, 1)[i] = e[FixedLen + i] BY <1>15, <2>1, TakeFacts
  <2>3. Take(e, FixedLen, 1)[1] = e[FixedLen + 1] BY <2>2
  <2> QED BY <1>8, <1>12, <1>20, <2>3
<1>27. Len(e) = PlainLen(n) /\ Len(e) \in Nat /\ Len(e) >= FixedLen + 1
  <2> DEFINE k == PortLen * n
  <2>1. k \in Nat BY <1>2, Lengths
  <2>2. Len(e) = FixedLen + 1 + k + SigLen BY <1>15
  <2> HIDE DEF k
  <2>3. Len(e) \in Nat /\ Len(e) >= FixedLen + 1 BY <2>1, <2>2, Lengths
  <2> QED BY <1>15, <2>3 DEF PlainLen
<1>28. Decode(e).err = "none" /\ Decode(e).auth = Fields(e, n)
  <2>1. /\ ~(Len(e) < 1) /\ ~(Len(e) < FixedLen + 1)
        /\ ~(Len(e) < PlainLen(n)) /\ ~(Len(e) > PlainLen(n))
        BY <1>27, Lengths
  <2> QED BY <1>2, <1>25, <1>26, <2>1 DEF Decode
<1>29. ASSUME NEW i \in 1..n
       PROVE  Number(Take(e, FixedLen + 1 + PortLen * (i - 1), PortLen)) = a.ports[i]
  <2> DEFINE k == PortLen * (i - 1)
             f == Take(e, FixedLen + 1 + k, PortLen)
             b == BigEndian(a.ports[i], PortLen)
  <2>1. k \in Nat /\ k + PortLen <= PortLen * n /\ PortLen \in Nat /\ PortLen * n \in Nat
    <3>1. i - 1 \in Nat /\ i <= n /\ PortLen \in Nat BY <1>2, Lengths
    <3>2. PortLen * i = k + PortLen /\ PortLen * i <= PortLen * n /\ k \in Nat BY <1>2, <3>1
    <3> QED BY <1>2, <3>1, <3>2
  <2>2. a.ports[i] \in Unsigned(PortLen) BY <1>5, ElementOfSeq DEF n
  <2>3. b \in [1..PortLen -> Byte] /\ Number(b) = a.ports[i]
        BY <2>1, <2>2, UnsignedFacts DEF Bytes
  <2>4. \A j \in 1..PortLen : list[k + j] = b[j] BY <1>6
  <2> DEFINE m == PortLen * n
             q == FixedLen + 1
  <2>5. q \in Nat /\ m \in Nat /\ k + PortLen <= m /\ Len(e) \in Nat /\ q + m <= Len(e)
    <3>1. Len(s6) = q + m /\ Len(s6) <= Len(e) BY <1>14, <1>18 DEF Starts
    <3> QED BY <1>27, <2>1, <3>1, Lengths
  <2>6. list = Take(e, q, m) BY <1>6, <1>13, <1>19
  <2> HIDE DEF k, b, m, q
  <2>7. q + k \in Nat /\ (q + k) + PortLen <= Len(e) BY <2>1, <2>5
  <2>8. \A j \in 1..m : list[j] = e[q + j] BY <1>15, <2>5, <2>6, TakeFacts
  <2>9. f \in [1..PortLen -> Byte] /\ \A j \in 1..PortLen : f[j] = e[(q + k) + j]
        BY <1>15, <2>1, <2>7, TakeFacts DEF q
  <2> HIDE DEF f
  <2>10. ASSUME NEW j \in 1..PortLen PROVE f[j] = b[j]
    <3>1. k + j \in 1..m /\ q + (k + j) = (q + k) + j BY <2>1, <2>5
    <3> QED BY <2>4, <2>8, <2>9, <3>1
  <2>11. f = b BY <2>1, <2>3, <2>9, <2>10, SameBytes
  <2> QED BY <2>3, <2>11 DEF f, k
<1>30. a.ports = [i \in 1..n |-> Number(Take(e, FixedLen + 1 + PortLen * (i - 1), PortLen))]
  <2>1. a.ports = [i \in 1..n |-> a.ports[i]] BY <1>5, LenProperties DEF n
  <2> QED BY <1>29, <2>1
<1>31. Fields(e, n) = a
  <2>1. /\ Take(e, 1, NonceLen) = a.nonce
        /\ Number(Take(e, 1 + NonceLen, TimeLen)) = a.timestamp
        /\ Take(e, 1 + NonceLen + TimeLen, GateIdLen) = a.gate_id
        /\ Take(e, 1 + NonceLen + TimeLen + GateIdLen, ThumbprintLen) = a.thumbprint
        /\ Take(e, FixedLen + 1 + PortLen * n, SigLen) = a.signature
        BY <1>3, <1>4, <1>7, <1>9, <1>10, <1>11, <1>14, <1>18, <1>21, <1>22, <1>23, <1>24
  <2>2. Fields(e, n) = [nonce |-> a.nonce, timestamp |-> a.timestamp, gate_id |-> a.gate_id,
                        thumbprint |-> a.thumbprint, ports |-> a.ports,
                        signature |-> a.signature]
        BY <1>30, <2>1 DEF Fields
  <2>3. a = [nonce |-> a.nonce, timestamp |-> a.timestamp, gate_id |-> a.gate_id,
             thumbprint |-> a.thumbprint, ports |-> a.ports, signature |-> a.signature]
        BY DEF Authorization
  <2> QED BY <2>2, <2>3
<1>32. s6 = Take(e, 0, Len(e) - SigLen)
  <2> DEFINE k == FixedLen + 1 + PortLen * n
  <2>1. k \in Nat BY <1>2, Lengths
  <2>2. Len(s6) = k /\ Len(e) = k + SigLen BY <1>14, <1>15
  <2> HIDE DEF k
  <2>3. Len(e) - SigLen = k /\ 0 \in Nat /\ 0 + k <= Len(e) BY <2>1, <2>2, Lengths
  <2>4. Take(e, 0, k) \in [1..k -> Byte] /\ \A i \in 1..k : Take(e, 0, k)[i] = e[0 + i]
        BY <1>15, <2>1, <2>3, TakeFacts
  <2>5. s6 \in [1..k -> Byte] /\ \A i \in 1..k : s6[i] = e[i]
        BY <1>14, <1>18, <2>2, LenProperties DEF Starts
  <2>6. \A i \in 1..k : 0 + i = i BY <2>1
  <2>7. \A i \in 1..k : Take(e, 0, k)[i] = s6[i] BY <2>4, <2>5, <2>6
  <2>8. Take(e, 0, k) = s6 BY <2>1, <2>4, <2>5, <2>7, SameBytes
  <2> QED BY <2>3, <2>8
<1> QED BY <1>1, <1>15, <1>27, <1>28, <1>31, <1>32 DEF n

-----------------------------------------------------------------------------
(***************************************************************************)
(* What opens                                                              *)
(***************************************************************************)
\* The datagram seal_envelope makes of a plaintext for gate g.
Envelope(g, eph, plain) ==
    LET header == [version |-> Version, suite |-> g.suite, eph |-> eph]
    IN  [len |-> HeaderLen(g.suite) + Len(plain) + TagLen, header |-> header,
         box |-> AeadSeal(Derive(g.suite, g.public, eph), header, plain)]

\* The authenticator over an authorization, made with a key.
Entry(how, key, a) ==
    [how |-> how, key |-> key, message |-> SigningBytes(a), sig |-> a.signature, auth |-> a]

\* Authenticators are made over the signing bytes of an encodable authorization
\* that carries them.
SignedOver ==
    \A s \in signed : \E how \in {"Signature", "Psk"}, a \in Authorization :
        Encodable(a) /\ \E key : s = Entry(how, key, a)

\* What was sent is an envelope for its gate, and one of this library carries
\* the encoding of an authorization whose authenticator is in it.
SentSealed ==
    net # None =>
        /\ sent.gate \in Gate
        /\ \E eph \in Nat \ {0}, plain \in Seq(Byte) :
              /\ sent.datagram = Envelope(sent.gate, eph, plain)
              /\ sent.by # None =>
                    /\ sent.by[3] \in Authorization /\ Encodable(sent.by[3])
                    /\ plain = Encode(sent.by[3])
                    /\ Entry(sent.by[1], sent.by[2], sent.by[3]) \in signed

\* Whatever happens to a datagram, it stays bytes under a suite that exists.
Carried ==
    net # None =>
        net.len \in Nat /\ net.header.suite \in Suite /\ net.box.plain \in Seq(Byte)

\* A verdict is about the datagram that is still there.
Judged ==
    outcome # None => net # None /\ outcome.at \in Gate /\ outcome = Judge(outcome.at, net)

WireInv == knocks \in 0..MaxKnocks /\ SignedOver /\ SentSealed /\ Carried /\ Judged

\* An envelope is bytes under the suite of its gate.
LEMMA EnvelopeFacts ==
    ASSUME NEW g \in Gate, NEW eph, NEW plain \in Seq(Byte), NEW d, d = Envelope(g, eph, plain)
    PROVE  /\ d.len = HeaderLen(g.suite) + Len(plain) + TagLen /\ HeaderLen(g.suite) \in Nat
           /\ d.len \in Nat /\ d.header.suite = g.suite /\ g.suite \in Suite
           /\ d.box.plain = plain
<1>1. g.suite \in Suite /\ EphLen \in [Suite -> Nat] BY WireAssumption
<1>2. HeaderLen(g.suite) \in Nat BY <1>1 DEF HeaderLen
<1>3. /\ d.len = HeaderLen(g.suite) + Len(plain) + TagLen /\ d.header.suite = g.suite
      /\ d.box.plain = plain
      BY DEF Envelope, AeadSeal
<1>4. Len(plain) \in Nat /\ TagLen \in Nat BY Lengths
<1> QED BY <1>1, <1>2, <1>3, <1>4

\* Sealing an envelope, for whichever reason.
LEMMA EnvelopeStep ==
    ASSUME WireInv, net = None, NEW g \in Gate, NEW plain \in Seq(Byte), NEW by, Send,
           SealEnvelope(g, g.suite, plain, by), SignedOver',
           by # None => /\ by[3] \in Authorization /\ Encodable(by[3])
                        /\ plain = Encode(by[3])
                        /\ Entry(by[1], by[2], by[3]) \in signed'
    PROVE  WireInv'
<1>1. knocks \in 0..MaxKnocks /\ MaxKnocks \in Nat /\ outcome = None
      BY WireAssumption DEF WireInv, Judged
<1>2. net' = Envelope(g, knocks + 1, plain) BY DEF SealEnvelope, Envelope
<1>3. sent' = [datagram |-> net', gate |-> g, by |-> by] BY DEF SealEnvelope
<1>4. knocks' \in 0..MaxKnocks /\ outcome' = None BY <1>1 DEF Send
<1>5. knocks + 1 \in Nat \ {0} BY <1>1
<1>6. sent'.datagram = net' /\ sent'.gate = g /\ sent'.by = by BY <1>3
<1>7. SentSealed' BY <1>2, <1>5, <1>6 DEF SentSealed
<1>8. Carried' BY <1>2, EnvelopeFacts DEF Carried
<1>9. Judged' BY <1>4 DEF Judged
<1> QED BY <1>4, <1>7, <1>8, <1>9 DEF WireInv

\* An authenticated knock, by signature or by secret.
LEMMA AuthenticateStep ==
    ASSUME WireInv, net = None, NEW g \in Gate, NEW how \in {"Signature", "Psk"}, NEW key,
           NEW id \in Bytes(ThumbprintLen), NEW req \in Request, Send,
           Authenticate(how, key, id, g, g.suite, req)
    PROVE  WireInv'
<1>1. PICK sig \in Bytes(SigLen) :
         LET a == AuthorizationOf(req, id, sig) IN
         /\ Encodable(a)
         /\ signed' = signed \cup
               {[how |-> how, key |-> key, message |-> SigningBytes(a), sig |-> sig, auth |-> a]}
         /\ SealEnvelope(g, g.suite, Encode(a), <<how, key, a>>)
      BY DEF Authenticate
<1> DEFINE a == AuthorizationOf(req, id, sig)
           by == <<how, key, a>>
<1>2. req \in [nonce : Bytes(NonceLen), timestamp : Unsigned(TimeLen),
               gate_id : Bytes(GateIdLen), ports : Seq(Unsigned(PortLen))]
      BY WireAssumption
<1>3. a \in Authorization BY <1>2 DEF AuthorizationOf, Authorization
<1>4. a.signature = sig BY DEF AuthorizationOf
<1>5. Encodable(a) /\ SealEnvelope(g, g.suite, Encode(a), by) BY <1>1
<1>6. signed' = signed \cup {Entry(how, key, a)} BY <1>1, <1>4 DEF Entry
<1>7. by[1] = how /\ by[2] = key /\ by[3] = a OBVIOUS
<1> HIDE DEF a, by
<1>8. SignedOver'
  <2> SUFFICES ASSUME NEW s \in signed'
               PROVE  \E h \in {"Signature", "Psk"}, b \in Authorization :
                         Encodable(b) /\ \E k : s = Entry(h, k, b)
      BY DEF SignedOver
  <2>1. CASE s \in signed BY <2>1 DEF WireInv, SignedOver
  <2>2. CASE s = Entry(how, key, a) BY <1>3, <1>5, <2>2
  <2> QED BY <1>6, <2>1, <2>2
<1>9. Encode(a) \in Seq(Byte) BY <1>3, <1>5, EncodeDecodes
<1>10. Entry(by[1], by[2], by[3]) \in signed' BY <1>6, <1>7
<1> QED BY <1>3, <1>5, <1>7, <1>8, <1>9, <1>10, EnvelopeStep

\* Whatever the network does to a datagram, it stays bytes under a suite.
LEMMA NetworkStep == ASSUME WireInv, Network PROVE WireInv'
<1>1. /\ Intact /\ UNCHANGED <<signed, sent, outcome, knocks>>
      BY DEF Network, Cut, Pad, GarbleHeader, GarbleBody
<1>2. /\ net # None /\ outcome = None /\ net = sent.datagram
      /\ SentSealed /\ sent.gate \in Gate
      BY <1>1 DEF Intact, InFlight, WireInv, SentSealed
<1>3. PICK eph \in Nat \ {0}, plain \in Seq(Byte) : net = Envelope(sent.gate, eph, plain)
      BY <1>2 DEF SentSealed
<1> DEFINE header == [version |-> Version, suite |-> sent.gate.suite, eph |-> eph]
           box == [key |-> Derive(sent.gate.suite, sent.gate.public, eph), aad |-> header,
                   plain |-> plain, tagged |-> plain]
           len == HeaderLen(sent.gate.suite) + Len(plain) + TagLen
<1>4. net = [len |-> len, header |-> header, box |-> box]
      BY <1>3 DEF Envelope, AeadSeal
<1>5. /\ Len(plain) \in Nat /\ TagLen \in Nat /\ HeaderLen(sent.gate.suite) \in Nat
      /\ sent.gate.suite \in Suite
      BY <1>2, <1>3, EnvelopeFacts, Lengths
<1>6. ASSUME Carried' PROVE WireInv'
  <2>1. Judged' BY <1>1, <1>2 DEF Judged
  <2>2. SentSealed' BY <1>1, <1>2 DEF SentSealed
  <2>3. SignedOver' BY <1>1 DEF WireInv, SignedOver
  <2>4. knocks' \in 0..MaxKnocks BY <1>1 DEF WireInv
  <2> QED BY <1>6, <2>1, <2>2, <2>3, <2>4 DEF WireInv
<1>7. ASSUME NEW n \in 0..MaxKnock, Cut(n) PROVE Carried'
  <2> DEFINE left == n - HeaderLen(sent.gate.suite) - TagLen
             k == IF left < 0 THEN 0 ELSE left
             rest == SubSeq(plain, 1, k)
  <2>1. n < len /\ net' = [net EXCEPT !.len = n, !.box.plain = rest]
        BY <1>4, <1>7 DEF Cut
  <2>2. k \in Nat /\ k <= Len(plain)
    <3>1. CASE left < 0 BY <1>5, <3>1
    <3>2. CASE ~(left < 0) BY <1>5, <2>1, <3>2
    <3> QED BY <3>1, <3>2
  <2> HIDE DEF k
  <2>3. rest \in Seq(Byte) BY <2>2
  <2> HIDE DEF rest
  <2>4. net'.box.plain = rest /\ net'.len = n /\ net'.header = header BY <1>4, <2>1
  <2> QED BY <1>5, <2>3, <2>4 DEF Carried
<1>8. ASSUME NEW b \in Byte, Pad(b) PROVE Carried'
  <2>1. net'.box.plain = Append(plain, b) /\ net'.len = len + 1 /\ net'.header = header
        BY <1>4, <1>8 DEF Pad
  <2>2. Append(plain, b) \in Seq(Byte) /\ len + 1 \in Nat BY <1>5
  <2> QED BY <1>5, <2>1, <2>2 DEF Carried
<1>9. ASSUME GarbleHeader PROVE Carried'
  <2>1. \/ \E v \in Byte : net' = [net EXCEPT !.header.version = v]
        \/ \E s \in Suite : net' = [net EXCEPT !.header.suite = s]
        \/ net' = [net EXCEPT !.header.eph = NoEph]
        BY <1>9 DEF GarbleHeader
  <2>2. net'.header.suite \in Suite /\ net'.box = box /\ net'.len = len
    <3>1. CASE \E v \in Byte : net' = [net EXCEPT !.header.version = v] BY <1>4, <1>5, <3>1
    <3>2. CASE \E s \in Suite : net' = [net EXCEPT !.header.suite = s] BY <1>4, <3>2
    <3>3. CASE net' = [net EXCEPT !.header.eph = NoEph] BY <1>4, <1>5, <3>3
    <3> QED BY <2>1, <3>1, <3>2, <3>3
  <2>3. box.plain = plain /\ len \in Nat BY <1>5
  <2> QED BY <2>2, <2>3 DEF Carried
<1>10. ASSUME NEW i \in 1..PlainLen(MaxPorts), NEW b \in Byte, GarbleBody(i, b) PROVE Carried'
  <2>1. /\ i \in 1..Len(plain) /\ net'.box.plain = [plain EXCEPT ![i] = b]
        /\ net'.len = len /\ net'.header = header
        BY <1>4, <1>10 DEF GarbleBody
  <2>2. [plain EXCEPT ![i] = b] \in Seq(Byte) /\ len \in Nat BY <1>5, <2>1
  <2> QED BY <1>5, <2>1, <2>2 DEF Carried
<1> QED BY <1>6, <1>7, <1>8, <1>9, <1>10 DEF Network

\* Every step keeps WireInv.
LEMMA WireStep == WireInv /\ [Next]_vars => WireInv'
<1> SUFFICES ASSUME WireInv, [Next]_vars PROVE WireInv' OBVIOUS
<1>1. CASE Senders
  <2>0. PICK g \in Gate :
           /\ net = None
           /\ \/ \E c \in ClientKey, req \in Request : Seal(c, g, req)
              \/ \E t \in Token, req \in Request : SealPsk(t, g, req)
              \/ \E plain \in ForeignPlain : SealForeign(g, plain)
        BY <1>1 DEF Senders
  <2>1. ASSUME NEW c \in ClientKey, NEW req \in Request, Seal(c, g, req) PROVE WireInv'
    <3>1. Send /\ Authenticate("Signature", c.key, c.thumbprint, g, g.suite, req)
          BY <2>1 DEF Seal
    <3>2. c.thumbprint \in Bytes(ThumbprintLen) BY WireAssumption
    <3> QED BY <2>0, <3>1, <3>2, AuthenticateStep
  <2>2. ASSUME NEW t \in Token, NEW req \in Request, SealPsk(t, g, req) PROVE WireInv'
    <3>1. Send /\ Authenticate("Psk", t.key, t.token_id, g, g.suite, req)
          BY <2>2 DEF SealPsk
    <3>2. t.token_id \in Bytes(ThumbprintLen) BY WireAssumption
    <3> QED BY <2>0, <3>1, <3>2, AuthenticateStep
  <2>3. ASSUME NEW plain \in ForeignPlain, SealForeign(g, plain) PROVE WireInv'
    <3>1. Send /\ SealEnvelope(g, g.suite, plain, None) /\ UNCHANGED signed
          BY <2>3 DEF SealForeign
    <3>2. plain \in Seq(Byte) BY WireAssumption
    <3>3. SignedOver' BY <3>1 DEF WireInv, SignedOver
    <3> QED BY <2>0, <3>1, <3>2, <3>3, EnvelopeStep
  <2> QED BY <2>0, <2>1, <2>2, <2>3
<1>2. CASE Network BY <1>2, NetworkStep
<1>3. CASE Receive
      BY <1>3 DEF Receive, WireInv, SignedOver, SentSealed, Carried, Judged
<1>4. ASSUME NEW g \in Gate, Deliver(g) PROVE WireInv'
  <2>1. net # None /\ outcome' = Judge(g, net) /\ UNCHANGED <<signed, net, sent, knocks>>
        BY <1>4 DEF Deliver, InFlight
  <2>2. outcome'.at = g BY <2>1 DEF Judge
  <2>3. Judged' BY <2>1, <2>2 DEF Judged, Judge, Opens
  <2>4. /\ knocks' \in 0..MaxKnocks /\ SignedOver' /\ SentSealed' /\ Carried'
        BY <2>1 DEF WireInv, SignedOver, SentSealed, Carried
  <2> QED BY <2>3, <2>4 DEF WireInv
<1>5. CASE UNCHANGED vars
  <2>1. UNCHANGED <<signed, net, sent, outcome, knocks>> BY <1>5 DEF vars
  <2>2. Judged' BY <2>1 DEF WireInv, Judged, Judge, Opens
  <2>3. /\ knocks' \in 0..MaxKnocks /\ SignedOver' /\ SentSealed' /\ Carried'
        BY <2>1 DEF WireInv, SignedOver, SentSealed, Carried
  <2> QED BY <2>2, <2>3 DEF WireInv
<1> QED BY <1>1, <1>2, <1>3, <1>4, <1>5 DEF Next

\* WireInv is an invariant of the datagrams.
LEMMA WireInvariant == Spec => []WireInv
<1>1. Init => WireInv
      BY WireAssumption DEF Init, WireInv, SignedOver, SentSealed, Carried, Judged
<1> QED BY <1>1, WireStep, PTL DEF Spec

\* TypeOK is an invariant of the datagrams.
THEOREM TypeCorrect == Spec => []TypeOK
<1>1. WireInv => TypeOK
  <2> SUFFICES ASSUME WireInv PROVE TypeOK OBVIOUS
  <2>1. ASSUME NEW s \in signed
        PROVE  s.how \in {"Signature", "Psk"} /\ s.sig \in Bytes(SigLen)
    <3>1. PICK how \in {"Signature", "Psk"}, a \in Authorization : \E key : s = Entry(how, key, a)
          BY DEF WireInv, SignedOver
    <3>2. s.how = how /\ s.sig = a.signature BY <3>1 DEF Entry
    <3> QED BY <3>2 DEF Authorization
  <2>2. net # None => /\ net.len \in Nat /\ net.header.suite \in Suite
                      /\ \A i \in DOMAIN net.box.plain : net.box.plain[i] \in Byte
    <3>1. ASSUME NEW p \in Seq(Byte) PROVE \A i \in DOMAIN p : p[i] \in Byte OBVIOUS
    <3> QED BY <3>1 DEF WireInv, Carried
  <2>3. outcome # None => /\ outcome.at \in Gate
                          /\ outcome.verdict \in {"Dropped", "OpenError", "Opened"}
    <3> SUFFICES ASSUME outcome # None
                 PROVE  /\ outcome.at \in Gate
                        /\ outcome.verdict \in {"Dropped", "OpenError", "Opened"}
        OBVIOUS
    <3>1. outcome.at \in Gate /\ outcome = Judge(outcome.at, net) BY DEF WireInv, Judged
    <3>2. Judge(outcome.at, net).verdict \in {"Dropped", "OpenError", "Opened"} BY DEF Judge
    <3> QED BY <3>1, <3>2
  <2> QED BY <2>1, <2>2, <2>3 DEF WireInv, TypeOK
<1> QED BY <1>1, WireInvariant, PTL

\* What a verdict Opened says of the datagram.
LEMMA OpenedFacts ==
    ASSUME WireInv, Opened
    PROVE  /\ net # None /\ outcome.at \in Gate /\ Opens(outcome.at, net)
           /\ outcome.auth = Decode(net.box.plain).auth
           /\ outcome.signing_bytes = Take(net.box.plain, 0, Len(net.box.plain) - SigLen)
           /\ net.box.plain \in Seq(Byte)
<1> DEFINE g == outcome.at
<1>1. /\ net # None /\ g \in Gate /\ outcome = Judge(g, net)
      /\ outcome.verdict = "Opened" /\ net.box.plain \in Seq(Byte)
      BY DEF WireInv, Judged, Opened, Carried
<1> HIDE DEF g
<1>2. Opens(g, net) /\ SizeOk(net.len) BY <1>1 DEF Judge
<1>3. outcome = [at |-> g, verdict |-> "Opened", auth |-> Decode(net.box.plain).auth,
                 signing_bytes |-> Take(net.box.plain, 0, Len(net.box.plain) - SigLen)]
      BY <1>1, <1>2 DEF Judge
<1>4. /\ outcome.auth = Decode(net.box.plain).auth
      /\ outcome.signing_bytes = Take(net.box.plain, 0, Len(net.box.plain) - SigLen)
      BY <1>3
<1> QED BY <1>1, <1>2, <1>4 DEF g

\* Whatever plaintext is sealed, it opens only if it is the one encoding of what
\* it decodes to, and the bytes open hands to the verifier are the signing bytes
\* of the authorization it hands to admit.
THEOREM OpenedCanonical == Spec => []DecodesCanonically
<1>1. WireInv => DecodesCanonically
  <2> SUFFICES ASSUME WireInv, Opened
               PROVE  /\ Encode(outcome.auth) = net.box.plain
                      /\ outcome.signing_bytes = SigningBytes(outcome.auth)
      BY DEF DecodesCanonically
  <2>1. /\ outcome.auth = Decode(net.box.plain).auth
        /\ outcome.signing_bytes = Take(net.box.plain, 0, Len(net.box.plain) - SigLen)
        /\ net.box.plain \in Seq(Byte)
        BY OpenedFacts
  <2>2. Decode(net.box.plain).err = "none" BY OpenedFacts DEF Opens
  <2> QED BY <2>1, <2>2, DecodeCanonical
<1> QED BY <1>1, WireInvariant, PTL

\* An authorization that verifies under a key is, field by field, one that the
\* holder of the key authenticated: equal signing bytes and signatures make equal
\* encodings, and an encoding decodes to one authorization only.
THEOREM VerifiesOnlySigned == Spec => []VerifiedAsSigned
<1>1. WireInv => VerifiedAsSigned
  <2> SUFFICES ASSUME WireInv, Opened, NEW s \in signed,
                      Verifies(s.how, s.key, outcome.signing_bytes, outcome.auth.signature)
               PROVE  \E r \in signed : r.how = s.how /\ r.key = s.key /\ r.auth = outcome.auth
      BY DEF VerifiedAsSigned
  <2>1. PICK r \in signed : /\ r.how = s.how /\ r.key = s.key
                            /\ r.message = outcome.signing_bytes
                            /\ r.sig = outcome.auth.signature
        BY DEF Verifies
  <2>2. PICK a \in Authorization : Encodable(a) /\ \E how, key : r = Entry(how, key, a)
        BY DEF WireInv, SignedOver
  <2>3. r.message = SigningBytes(a) /\ r.sig = a.signature /\ r.auth = a BY <2>2 DEF Entry
  <2>4. /\ outcome.auth = Decode(net.box.plain).auth
        /\ outcome.signing_bytes = Take(net.box.plain, 0, Len(net.box.plain) - SigLen)
        /\ net.box.plain \in Seq(Byte)
        BY OpenedFacts
  <2>5. Decode(net.box.plain).err = "none" BY OpenedFacts DEF Opens
  <2>6. /\ Encode(outcome.auth) = net.box.plain
        /\ outcome.signing_bytes = SigningBytes(outcome.auth)
        BY <2>4, <2>5, DecodeCanonical
  <2>7. Encode(a) = Encode(outcome.auth) BY <2>1, <2>3, <2>6 DEF Encode
  <2>8. Decode(Encode(a)).auth = a BY <2>2, EncodeDecodes
  <2>9. a = outcome.auth BY <2>4, <2>6, <2>7, <2>8
  <2> QED BY <2>1, <2>3, <2>9
<1> QED BY <1>1, WireInvariant, PTL

\* A knock this library sealed and the network left alone passes the size filter
\* and opens at its gate as the request it was made from, verifiable under its
\* sender's key, for every request, key, suite and length of the fields.
THEOREM HonestOpens == Spec => []HonestKnockOpens
<1>1. WireInv => HonestKnockOpens
  <2> SUFFICES ASSUME WireInv, outcome # None, net = sent.datagram, outcome.at = sent.gate,
                      sent.by # None
               PROVE  /\ Opened /\ outcome.auth = sent.by[3]
                      /\ Verifies(sent.by[1], sent.by[2], outcome.signing_bytes,
                                  outcome.auth.signature)
      BY DEF HonestKnockOpens
  <2> DEFINE g == outcome.at
             a == sent.by[3]
  <2>1. net # None /\ g \in Gate /\ outcome = Judge(g, net) BY DEF WireInv, Judged
  <2>2. PICK eph \in Nat \ {0}, plain \in Seq(Byte) :
           /\ net = Envelope(g, eph, plain)
           /\ a \in Authorization /\ Encodable(a) /\ plain = Encode(a)
           /\ Entry(sent.by[1], sent.by[2], a) \in signed
        BY <2>1 DEF WireInv, SentSealed
  <2> HIDE DEF g, a
  <2>3. /\ net.len = HeaderLen(g.suite) + Len(plain) + TagLen /\ HeaderLen(g.suite) \in Nat
        /\ g.suite \in Suite /\ net.box.plain = plain
        BY <2>1, <2>2, EnvelopeFacts
  <2>4. /\ Len(plain) = PlainLen(Len(a.ports)) /\ Decode(plain).err = "none"
        /\ Decode(plain).auth = a /\ SigningBytes(a) = Take(plain, 0, Len(plain) - SigLen)
        BY <2>2, EncodeDecodes
  <2>5. SizeOk(net.len)
    <3>1. Len(a.ports) \in 1..MaxPorts BY <2>2 DEF Encodable
    <3>2. SizeOk(KnockLen(g.suite, Len(a.ports))) BY <2>3, <3>1, WireAssumption
    <3> QED BY <2>3, <2>4, <3>2 DEF KnockLen
  <2>6. Opens(g, net)
    <3>1. net.len >= HeaderLen(g.suite) + TagLen
      <4>1. Len(plain) \in Nat /\ TagLen \in Nat BY Lengths
      <4> QED BY <2>3, <4>1
    <3>2. /\ net.header.version = Version /\ net.header.suite = g.suite
          /\ AeadOpens(net.box, Derive(g.suite, g.public, net.header.eph), net.header)
          BY <2>2 DEF Envelope, AeadSeal, AeadOpens
    <3> QED BY <2>3, <2>4, <3>1, <3>2 DEF Opens
  <2>7. outcome = [at |-> g, verdict |-> "Opened", auth |-> Decode(net.box.plain).auth,
                   signing_bytes |-> Take(net.box.plain, 0, Len(net.box.plain) - SigLen)]
        BY <2>1, <2>5, <2>6 DEF Judge
  <2>8. /\ outcome.verdict = "Opened" /\ outcome.auth = a
        /\ outcome.signing_bytes = SigningBytes(a)
        BY <2>3, <2>4, <2>7
  <2> DEFINE r == Entry(sent.by[1], sent.by[2], a)
  <2>9. /\ r \in signed /\ r.how = sent.by[1] /\ r.key = sent.by[2]
        /\ r.message = SigningBytes(a) /\ r.sig = a.signature
        BY <2>2 DEF Entry
  <2> HIDE DEF r
  <2>10. Verifies(sent.by[1], sent.by[2], outcome.signing_bytes, outcome.auth.signature)
         BY <2>8, <2>9 DEF Verifies
  <2> QED BY <2>8, <2>10 DEF Opened, a
<1> QED BY <1>1, WireInvariant, PTL

=============================================================================
