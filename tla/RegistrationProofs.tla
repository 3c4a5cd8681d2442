--------------------------- MODULE RegistrationProofs ---------------------------
(***************************************************************************)
(* That leadingZeroBits and the server count the same bits, for digests of *)
(* any width, and what the registration of a merchant keeps true for every *)
(* service that answers as Registration says.                              *)
(***************************************************************************)
EXTENDS Registration, DoJSONProofs, WellFoundedInduction

-----------------------------------------------------------------------------
(* Numbers one after the other, and what is defined along them.            *)

\* A set of numbers that is not empty has a least one.
LEMMA LeastOne ==
    ASSUME NEW T, T \subseteq Nat, T # {}
    PROVE  \E x \in T : \A y \in T : x <= y
  <1>1. \E x \in T : \A y \in T : ~(<<y, x>> \in OpToRel(<, Nat))
    BY NatLessThanWellFounded, WFMin
  <1>2. PICK x \in T : \A y \in T : ~(<<y, x>> \in OpToRel(<, Nat))
    BY <1>1
  <1>3. ASSUME NEW y \in T
        PROVE  x <= y
    <2>1. <<y, x>> \in Nat \X Nat /\ ~(y < x)
      BY <1>2 DEF OpToRel
    <2> QED
      BY <2>1
  <1> QED
    BY <1>3

\* A set that holds 0 and the successor of each of its numbers is Nat.
LEMMA Induction ==
    ASSUME NEW S, 0 \in S, \A n \in Nat : n \in S => n + 1 \in S
    PROVE  \A n \in Nat : n \in S
  <1> SUFFICES ASSUME Nat \ S # {}
               PROVE  FALSE
    OBVIOUS
  <1>1. PICK n \in Nat \ S : \A y \in Nat \ S : n <= y
    BY LeastOne
  <1>2. n # 0 /\ n - 1 \in Nat
    OBVIOUS
  <1>3. n - 1 \in S
    BY <1>1, <1>2
  <1>4. (n - 1) + 1 \in S
    BY <1>2, <1>3
  <1> QED
    BY <1>4

\* What a loop has computed after each of its turns.
Iteration(V, x, turn, g, n) ==
    /\ g \in [0 .. n -> V]
    /\ g[0] = x
    /\ \A i \in 0 .. n - 1 : g[i + 1] = turn[<<i, g[i]>>]

LEMMA OneIteration ==
    ASSUME NEW V, NEW x \in V, NEW turn \in [Nat \X V -> V],
           NEW n \in Nat, NEW m \in 0 .. n,
           NEW g, Iteration(V, x, turn, g, n),
           NEW h, Iteration(V, x, turn, h, m)
    PROVE  \A i \in 0 .. m : g[i] = h[i]
  <1> DEFINE S == { i \in Nat : i <= m => g[i] = h[i] }
  <1>1. 0 \in S
    BY DEF Iteration
  <1>2. ASSUME NEW i \in Nat, i \in S, i + 1 <= m
        PROVE  g[i + 1] = h[i + 1]
    <2>1. i \in 0 .. m - 1 /\ i \in 0 .. n - 1
      BY <1>2
    <2>2. g[i] = h[i]
      BY <1>2
    <2> QED
      BY <2>1, <2>2 DEF Iteration
  <1>3. \A i \in Nat : i \in S => i + 1 \in S
    BY <1>2
  <1> HIDE DEF S
  <1>4. \A i \in Nat : i \in S
    BY <1>1, <1>3, Induction
  <1> QED
    BY <1>4 DEF S

\* A loop computes something.
Iterated(V, x, turn, f) ==
    /\ f \in [Nat -> V]
    /\ f[0] = x
    /\ \A n \in Nat : f[n + 1] = turn[<<n, f[n]>>]

LEMMA Iterates ==
    ASSUME NEW V, NEW x \in V, NEW turn \in [Nat \X V -> V]
    PROVE  \E f : Iterated(V, x, turn, f)
  <1> DEFINE S == { n \in Nat : \E g : Iteration(V, x, turn, g, n) }
             G(n) == CHOOSE g : Iteration(V, x, turn, g, n)
             f == [n \in Nat |-> G(n)[n]]
  <1>1. 0 \in S
    <2> DEFINE g == [i \in 0 .. 0 |-> x]
    <2>1. Iteration(V, x, turn, g, 0)
      BY DEF Iteration
    <2> QED
      BY <2>1
  <1>2. ASSUME NEW n \in Nat, n \in S
        PROVE  n + 1 \in S
    <2>1. PICK g : Iteration(V, x, turn, g, n)
      BY <1>2
    <2> DEFINE h == [i \in 0 .. n + 1 |->
                       IF i <= n THEN g[i] ELSE turn[<<n, g[n]>>]]
    <2>2. g[n] \in V /\ turn[<<n, g[n]>>] \in V
      BY <2>1 DEF Iteration
    <2>3. h \in [0 .. n + 1 -> V]
      BY <2>1, <2>2 DEF Iteration
    <2>4. h[0] = x
      BY <2>1 DEF Iteration
    <2>5. ASSUME NEW i \in 0 .. (n + 1) - 1
          PROVE  h[i + 1] = turn[<<i, h[i]>>]
      <3>1. CASE i = n
        BY <3>1
      <3>2. CASE i # n
        <4>1. i \in 0 .. n - 1 /\ i + 1 <= n
          BY <3>2
        <4> QED
          BY <2>1, <4>1 DEF Iteration
      <3> QED
        BY <3>1, <3>2
    <2> HIDE DEF h
    <2>6. Iteration(V, x, turn, h, n + 1)
      BY <2>3, <2>4, <2>5 DEF Iteration
    <2> QED
      BY <2>6
  <1> HIDE DEF S
  <1>3. \A n \in Nat : n \in S
    BY <1>1, <1>2, Induction
  <1> USE DEF S
  <1>4. ASSUME NEW n \in Nat
        PROVE  Iteration(V, x, turn, G(n), n)
    <2>1. \E g : Iteration(V, x, turn, g, n)
      BY <1>3
    <2> QED
      BY <2>1
  <1> HIDE DEF G
  <1>5. f \in [Nat -> V]
    BY <1>4 DEF Iteration
  <1>6. f[0] = x
    BY <1>4 DEF Iteration
  <1>7. ASSUME NEW n \in Nat
        PROVE  f[n + 1] = turn[<<n, f[n]>>]
    <2> DEFINE g == G(n)
               h == G(n + 1)
    <2>1. Iteration(V, x, turn, g, n)
      BY <1>4
    <2>2. Iteration(V, x, turn, h, n + 1)
      BY <1>4
    <2>3. n + 1 \in Nat /\ n \in 0 .. n + 1 /\ n \in 0 .. n
      OBVIOUS
    <2> HIDE DEF g, h
    <2>4. \A i \in 0 .. n : h[i] = g[i]
      BY <2>1, <2>2, <2>3, OneIteration
    <2> USE DEF g, h
    <2>5. G(n + 1)[n] = G(n)[n]
      BY <2>3, <2>4
    <2>6. G(n + 1)[n + 1] = turn[<<n, G(n + 1)[n]>>]
      BY <2>2, <2>3 DEF Iteration
    <2> QED
      BY <2>5, <2>6
  <1> HIDE DEF f
  <1> QED
    BY <1>5, <1>6, <1>7 DEF Iterated

-----------------------------------------------------------------------------
(* Powers of two.                                                          *)

LEMMA TwoToDef ==
    /\ TwoTo \in [Nat -> Nat]
    /\ TwoTo[0] = 1
    /\ \A n \in Nat : TwoTo[n + 1] = 2 * TwoTo[n]
  <1> DEFINE Doubles(f) == f = [n \in Nat |-> IF n = 0 THEN 1 ELSE 2 * f[n - 1]]
             turn == [p \in Nat \X Nat |-> 2 * p[2]]
  <1>1. turn \in [Nat \X Nat -> Nat] /\ 1 \in Nat
    OBVIOUS
  <1>2. \A n \in Nat, v \in Nat : turn[<<n, v>>] = 2 * v
    OBVIOUS
  <1> HIDE DEF turn
  <1>3. PICK f : Iterated(Nat, 1, turn, f)
    BY <1>1, Iterates
  <1>4. f[0] = 1 /\ \A n \in Nat : f[n + 1] = 2 * f[n]
    BY <1>2, <1>3 DEF Iterated
  <1>5. ASSUME NEW n \in Nat
        PROVE  f[n] = IF n = 0 THEN 1 ELSE 2 * f[n - 1]
    <2>1. CASE n = 0
      BY <1>4, <2>1
    <2>2. CASE n # 0
      <3>1. n - 1 \in Nat /\ (n - 1) + 1 = n
        BY <2>2
      <3> QED
        BY <1>4, <2>2, <3>1
    <2> QED
      BY <2>1, <2>2
  <1>6. Doubles(f)
    BY <1>3, <1>5 DEF Iterated
  <1>7. TwoTo = CHOOSE g : Doubles(g)
    BY DEF TwoTo
  <1> HIDE DEF Doubles
  <1>8. Doubles(TwoTo)
    BY <1>6, <1>7
  <1>9. TwoTo = [n \in Nat |-> IF n = 0 THEN 1 ELSE 2 * TwoTo[n - 1]]
    BY <1>8 DEF Doubles
  <1>10. TwoTo[0] = 1
    BY <1>9
  <1>11. ASSUME NEW n \in Nat
         PROVE  TwoTo[n + 1] = 2 * TwoTo[n]
    <2>1. n + 1 \in Nat /\ n + 1 # 0 /\ (n + 1) - 1 = n
      OBVIOUS
    <2> QED
      BY <1>9, <2>1
  <1> DEFINE S == { n \in Nat : TwoTo[n] \in Nat }
  <1>12. 0 \in S
    BY <1>10
  <1>13. \A n \in Nat : n \in S => n + 1 \in S
    BY <1>11
  <1> HIDE DEF S
  <1>14. \A n \in Nat : n \in S
    BY <1>12, <1>13, Induction
  <1>15. TwoTo \in [Nat -> Nat]
    BY <1>9, <1>14 DEF S
  <1> QED
    BY <1>10, <1>11, <1>15

LEMMA TwoToPositive == \A n \in Nat : TwoTo[n] \in Nat /\ TwoTo[n] >= 1
  <1> DEFINE S == { n \in Nat : TwoTo[n] >= 1 }
  <1>1. 0 \in S
    BY TwoToDef
  <1>2. \A n \in Nat : n \in S => n + 1 \in S
    BY TwoToDef
  <1> HIDE DEF S
  <1>3. \A n \in Nat : n \in S
    BY <1>1, <1>2, Induction
  <1> QED
    BY <1>3, TwoToDef DEF S

\* The powers of a sum of exponents, one factor after the other.
LEMMA TwoToSum ==
    ASSUME NEW m \in Nat
    PROVE  \A n \in Nat : TwoTo[m + n] = TwoTo[m] * TwoTo[n]
  <1> DEFINE S == { n \in Nat : TwoTo[m + n] = TwoTo[m] * TwoTo[n] }
  <1>1. 0 \in S
    BY TwoToDef
  <1>2. ASSUME NEW n \in Nat, n \in S
        PROVE  n + 1 \in S
    <2>1. m + n \in Nat /\ m + (n + 1) = (m + n) + 1
      OBVIOUS
    <2>2. TwoTo[m + (n + 1)] = 2 * TwoTo[m + n]
      BY <2>1, TwoToDef
    <2>3. TwoTo[m + n] = TwoTo[m] * TwoTo[n]
      BY <1>2
    <2>4. TwoTo[n + 1] = 2 * TwoTo[n]
      BY TwoToDef
    <2>5. TwoTo[m] \in Nat /\ TwoTo[n] \in Nat
      BY TwoToPositive
    <2>6. 2 * (TwoTo[m] * TwoTo[n]) = TwoTo[m] * (2 * TwoTo[n])
      BY <2>5
    <2> QED
      BY <2>2, <2>3, <2>4, <2>6
  <1> HIDE DEF S
  <1>3. \A n \in Nat : n \in S
    BY <1>1, <1>2, Induction
  <1> QED
    BY <1>3 DEF S

LEMMA TwoToMonotone ==
    ASSUME NEW m \in Nat, NEW n \in Nat, m <= n
    PROVE  TwoTo[m] <= TwoTo[n]
  <1>1. n - m \in Nat /\ m + (n - m) = n
    OBVIOUS
  <1>2. TwoTo[n] = TwoTo[m] * TwoTo[n - m]
    BY <1>1, TwoToSum
  <1>3. \A a, b \in Nat : b >= 1 => a <= a * b
    OBVIOUS
  <1> QED
    BY <1>1, <1>2, <1>3, TwoToPositive

-----------------------------------------------------------------------------
(* The bits of a byte.                                                     *)

LEMMA QuotientOne ==
    ASSUME NEW b \in Nat, NEW p \in Nat, p >= 1, p <= b, b < 2 * p
    PROVE  (b \div p) % 2 = 1
  <1>1. b \div p = 1
    OBVIOUS
  <1> QED
    BY <1>1

LEMMA QuotientZero ==
    ASSUME NEW b \in Nat, NEW p \in Nat, b < p
    PROVE  (b \div p) % 2 # 1
  <1>1. b \div p = 0
    OBVIOUS
  <1> QED
    BY <1>1

\* The inner loop stops at the highest bit of a byte that is not 0.
LEMMA ByteZeros ==
    ASSUME NEW b \in Bytes, b # 0
    PROVE  /\ ZerosInByte(b) \in 0 .. ByteBits - 1
           /\ TwoTo[ByteBits - 1 - ZerosInByte(b)] <= b
           /\ b < TwoTo[ByteBits - ZerosInByte(b)]
  <1> USE WidthAssumption
  <1>0. b \in Nat /\ b >= 1 /\ b < TwoTo[ByteBits] /\ ByteBits \in Nat
    BY TwoToPositive DEF Bytes
  <1> DEFINE T == { n \in Nat : b < TwoTo[n] }
  <1>1. ByteBits \in T
    BY <1>0
  <1>2. PICK h \in T : \A n \in T : h <= n
    BY <1>1, LeastOne
  <1>3. h \in Nat /\ b < TwoTo[h] /\ h <= ByteBits
    BY <1>1, <1>2
  <1>4. h # 0
    BY <1>0, <1>3, TwoToDef
  <1> DEFINE k == h - 1
  <1>5. k \in 0 .. ByteBits - 1 /\ k \in Nat /\ k + 1 = h
    BY <1>3, <1>4
  <1>6. TwoTo[k] <= b
    <2>1. k \notin T
      BY <1>2, <1>5
    <2> QED
      BY <1>0, <1>5, <2>1, TwoToPositive
  <1>7. TwoTo[h] = 2 * TwoTo[k]
    BY <1>5, TwoToDef
  <1> HIDE DEF T, k
  <1>8. HasBit(b, k)
    BY <1>0, <1>3, <1>5, <1>6, <1>7, QuotientOne, TwoToPositive DEF HasBit
  <1>9. ASSUME NEW j \in Nat, j > k
        PROVE  ~HasBit(b, j)
    <2>1. h <= j
      BY <1>3, <1>5, <1>9
    <2>2. TwoTo[h] <= TwoTo[j]
      BY <1>3, <2>1, TwoToMonotone
    <2>3. b < TwoTo[j] /\ TwoTo[j] \in Nat
      BY <1>0, <1>3, <2>2, TwoToPositive
    <2> QED
      BY <1>0, <2>3, QuotientZero DEF HasBit
  <1> DEFINE Stops(n) ==
        /\ HasBit(b, ByteBits - 1 - n)
        /\ \A i \in 0 .. n - 1 : ~HasBit(b, ByteBits - 1 - i)
  <1> DEFINE z == ZerosInByte(b)
  <1>10. z = CHOOSE n \in 0 .. ByteBits - 1 : Stops(n)
    BY DEF ZerosInByte
  <1>11. ByteBits - 1 - k \in 0 .. ByteBits - 1 /\ Stops(ByteBits - 1 - k)
    <2>1. ByteBits - 1 - k \in 0 .. ByteBits - 1
      BY <1>0, <1>5
    <2>2. ByteBits - 1 - (ByteBits - 1 - k) = k
      BY <1>0, <1>5
    <2>3. ASSUME NEW i \in 0 .. (ByteBits - 1 - k) - 1
          PROVE  ~HasBit(b, ByteBits - 1 - i)
      <3>1. ByteBits - 1 - i \in Nat /\ ByteBits - 1 - i > k
        BY <1>0, <1>5
      <3> QED
        BY <1>9, <3>1
    <2> QED
      BY <1>8, <2>1, <2>2, <2>3
  <1> HIDE DEF Stops, z
  <1>12. z \in 0 .. ByteBits - 1 /\ Stops(z)
    BY <1>10, <1>11
  <1>13. z = ByteBits - 1 - k
    <2>1. CASE z < ByteBits - 1 - k
      <3>1. ByteBits - 1 - z \in Nat /\ ByteBits - 1 - z > k
        BY <1>0, <1>5, <1>12, <2>1
      <3> QED
        BY <1>9, <1>12, <3>1 DEF Stops
    <2>2. CASE z > ByteBits - 1 - k
      <3>1. ByteBits - 1 - k \in 0 .. z - 1
        BY <1>0, <1>5, <1>12, <2>2
      <3>2. ByteBits - 1 - (ByteBits - 1 - k) = k
        BY <1>0, <1>5
      <3> QED
        BY <1>8, <1>12, <3>1, <3>2 DEF Stops
    <2> QED
      BY <1>0, <1>5, <1>12, <2>1, <2>2
  <1>14. ByteBits - 1 - z = k /\ ByteBits - z = h
    BY <1>0, <1>3, <1>5, <1>13
  <1> QED
    BY <1>3, <1>6, <1>12, <1>14 DEF z

-----------------------------------------------------------------------------
(* The bits of a digest.                                                   *)

WidthFacts == /\ ByteBits \in Nat /\ ByteBits >= 1
              /\ DigestBytes \in Nat /\ DigestBytes >= 1
              /\ DigestBits \in Nat

LEMMA Widths == WidthFacts
  BY WidthAssumption DEF WidthFacts, DigestBits

\* The bytes before one, and those up to it, are 0.
Zeros(sum, i) == \A j \in 1 .. DigestBytes : j <= i => sum[j] = 0

\* The outer loop goes from one byte to the next up to one that is not 0.
LEMMA LoopDef ==
    ASSUME NEW sum \in Digests
    PROVE  \E F :
             /\ LeadingZeroBits(sum) = F[1]
             /\ F[DigestBytes + 1] = 0
             /\ \A i \in 1 .. DigestBytes :
                  F[i] = IF sum[i] = 0 THEN ByteBits + F[i + 1]
                                       ELSE ZerosInByte(sum[i])
             /\ \A i \in 1 .. DigestBytes + 1 : F[i] \in Nat
  <1>0. WidthFacts
    BY Widths
  <1> DEFINE D == DigestBytes
             Counts(F) == F = [i \in 1 .. DigestBytes + 1 |->
                                 IF i > DigestBytes THEN 0
                                 ELSE IF sum[i] = 0 THEN ByteBits + F[i + 1]
                                 ELSE ZerosInByte(sum[i])]
             turn == [p \in Nat \X Nat |->
                        IF p[1] >= D THEN p[2]
                        ELSE IF sum[D - p[1]] = 0 THEN ByteBits + p[2]
                        ELSE ZerosInByte(sum[D - p[1]])]
  <1>1. ASSUME NEW i \in 1 .. D, sum[i] # 0
        PROVE  ZerosInByte(sum[i]) \in Nat
    <2>1. sum[i] \in Bytes
      BY DEF Digests
    <2> QED
      BY <1>0, <1>1, <2>1, ByteZeros DEF WidthFacts
  <1>2. ASSUME NEW n \in Nat, NEW v \in Nat
        PROVE  /\ turn[<<n, v>>] \in Nat
               /\ n < D => turn[<<n, v>>] = IF sum[D - n] = 0
                                              THEN ByteBits + v
                                              ELSE ZerosInByte(sum[D - n])
    <2>1. turn[<<n, v>>] = IF n >= D THEN v
                           ELSE IF sum[D - n] = 0 THEN ByteBits + v
                           ELSE ZerosInByte(sum[D - n])
      OBVIOUS
    <2>2. n < D => D - n \in 1 .. D
      BY <1>0 DEF WidthFacts
    <2> HIDE DEF turn
    <2> QED
      BY <1>0, <1>1, <2>1, <2>2 DEF WidthFacts
  <1>3. turn \in [Nat \X Nat -> Nat] /\ 0 \in Nat
    <2>1. \A p \in Nat \X Nat : turn[p] \in Nat
      <3> SUFFICES ASSUME NEW n \in Nat, NEW v \in Nat
                   PROVE  turn[<<n, v>>] \in Nat
        OBVIOUS
      <3> QED
        BY <1>2
    <2> QED
      BY <2>1
  <1> HIDE DEF turn
  <1>4. PICK f : Iterated(Nat, 0, turn, f)
    BY <1>3, Iterates
  <1> DEFINE g == [i \in 1 .. D + 1 |-> f[D + 1 - i]]
  <1>5. g[D + 1] = 0
    <2>1. D + 1 \in 1 .. D + 1 /\ D + 1 - (D + 1) = 0
      BY <1>0 DEF WidthFacts
    <2> QED
      BY <1>4, <2>1 DEF Iterated
  <1>6. ASSUME NEW i \in 1 .. D
        PROVE  g[i] = IF sum[i] = 0 THEN ByteBits + g[i + 1]
                                    ELSE ZerosInByte(sum[i])
    <2>1. /\ D - i \in Nat /\ D - i < D /\ D - (D - i) = i
          /\ i \in 1 .. D + 1 /\ i + 1 \in 1 .. D + 1
          /\ D + 1 - (i + 1) = D - i /\ D + 1 - i = (D - i) + 1
      BY <1>0 DEF WidthFacts
    <2>2. g[i] = f[(D - i) + 1] /\ g[i + 1] = f[D - i]
      BY <2>1
    <2>3. f[(D - i) + 1] = turn[<<D - i, f[D - i]>>] /\ f[D - i] \in Nat
      BY <1>4, <2>1 DEF Iterated
    <2> QED
      BY <1>2, <2>1, <2>2, <2>3
  <1>7. Counts(g)
    <2>1. ASSUME NEW i \in 1 .. D + 1
          PROVE  g[i] = IF i > D THEN 0
                        ELSE IF sum[i] = 0 THEN ByteBits + g[i + 1]
                        ELSE ZerosInByte(sum[i])
      <3>1. CASE i = D + 1
        BY <1>0, <1>5, <3>1 DEF WidthFacts
      <3>2. CASE i # D + 1
        <4>1. i \in 1 .. D /\ ~(i > D)
          BY <1>0, <3>2 DEF WidthFacts
        <4> HIDE DEF g
        <4> QED
          BY <1>6, <4>1
      <3> QED
        BY <3>1, <3>2
    <2> QED
      BY <2>1
  <1> HIDE DEF g
  <1> DEFINE F == CHOOSE h : Counts(h)
  <1>8. LeadingZeroBits(sum) = F[1]
    BY DEF LeadingZeroBits
  <1> HIDE DEF Counts
  <1>9. Counts(F)
    BY <1>7
  <1> HIDE DEF F
  <1>10. F = [i \in 1 .. DigestBytes + 1 |->
                IF i > DigestBytes THEN 0
                ELSE IF sum[i] = 0 THEN ByteBits + F[i + 1]
                ELSE ZerosInByte(sum[i])]
    BY <1>9 DEF Counts
  <1>11. F[DigestBytes + 1] = 0
    BY <1>0, <1>10 DEF WidthFacts
  <1>12. ASSUME NEW i \in 1 .. DigestBytes
         PROVE  F[i] = IF sum[i] = 0 THEN ByteBits + F[i + 1]
                                     ELSE ZerosInByte(sum[i])
    <2>1. i \in 1 .. DigestBytes + 1 /\ ~(i > DigestBytes)
      BY <1>0 DEF WidthFacts
    <2> QED
      BY <1>10, <2>1
  <1> DEFINE S == { j \in Nat : j <= D => F[D + 1 - j] \in Nat }
  <1>13. 0 \in S
    BY <1>0, <1>11 DEF WidthFacts
  <1>14. ASSUME NEW j \in Nat, j \in S
         PROVE  j + 1 \in S
    <2>1. CASE j + 1 <= D
      <3>1. D - j \in 1 .. D /\ D + 1 - (j + 1) = D - j /\ (D - j) + 1 = D + 1 - j
        BY <1>0, <2>1 DEF WidthFacts
      <3>2. F[D + 1 - j] \in Nat
        BY <1>0, <1>14, <2>1 DEF WidthFacts
      <3> QED
        BY <1>0, <1>1, <1>12, <3>1, <3>2 DEF WidthFacts
    <2>2. CASE ~(j + 1 <= D)
      BY <2>2
    <2> QED
      BY <2>1, <2>2
  <1> HIDE DEF S
  <1>15. \A j \in Nat : j \in S
    BY <1>13, <1>14, Induction
  <1>16. ASSUME NEW i \in 1 .. DigestBytes + 1
         PROVE  F[i] \in Nat
    <2>1. D + 1 - i \in Nat /\ D + 1 - i <= D /\ D + 1 - (D + 1 - i) = i
      BY <1>0 DEF WidthFacts
    <2> QED
      BY <1>15, <2>1 DEF S
  <1> QED
    BY <1>8, <1>11, <1>12, <1>16

\* The digest is the number its bytes are the digits of.
LEMMA ValueDef ==
    ASSUME NEW sum \in Digests
    PROVE  \E U :
             /\ Value(sum) = U[DigestBytes]
             /\ U[0] = 0
             /\ \A i \in 1 .. DigestBytes :
                  /\ U[i] = U[i - 1] * TwoTo[ByteBits] + sum[i]
                  /\ U[i] \in Nat /\ U[i - 1] \in Nat
  <1>0. WidthFacts
    BY Widths
  <1> DEFINE D == DigestBytes
             Sums(U) == U = [i \in 0 .. DigestBytes |->
                               IF i = 0 THEN 0
                               ELSE U[i - 1] * TwoTo[ByteBits] + sum[i]]
             turn == [p \in Nat \X Nat |->
                        IF p[1] >= D THEN p[2]
                        ELSE p[2] * TwoTo[ByteBits] + sum[p[1] + 1]]
  <1>1. ASSUME NEW i \in 1 .. D
        PROVE  sum[i] \in Nat
    BY DEF Digests, Bytes
  <1>2. ASSUME NEW n \in Nat, NEW v \in Nat
        PROVE  /\ turn[<<n, v>>] \in Nat
               /\ n < D => turn[<<n, v>>] = v * TwoTo[ByteBits] + sum[n + 1]
    <2>1. turn[<<n, v>>] = IF n >= D THEN v
                           ELSE v * TwoTo[ByteBits] + sum[n + 1]
      OBVIOUS
    <2>2. n < D => n + 1 \in 1 .. D
      BY <1>0 DEF WidthFacts
    <2>3. TwoTo[ByteBits] \in Nat
      BY <1>0, TwoToPositive DEF WidthFacts
    <2>4. v * TwoTo[ByteBits] \in Nat
      BY <2>3
    <2> HIDE DEF turn
    <2> QED
      BY <1>0, <1>1, <2>1, <2>2, <2>4 DEF WidthFacts
  <1>3. turn \in [Nat \X Nat -> Nat] /\ 0 \in Nat
    <2>1. \A p \in Nat \X Nat : turn[p] \in Nat
      <3> SUFFICES ASSUME NEW n \in Nat, NEW v \in Nat
                   PROVE  turn[<<n, v>>] \in Nat
        OBVIOUS
      <3> QED
        BY <1>2
    <2> QED
      BY <2>1
  <1> HIDE DEF turn
  <1>4. PICK f : Iterated(Nat, 0, turn, f)
    BY <1>3, Iterates
  <1> DEFINE g == [i \in 0 .. D |-> f[i]]
  <1>5. ASSUME NEW i \in 0 .. D
        PROVE  /\ g[i] = IF i = 0 THEN 0
                         ELSE g[i - 1] * TwoTo[ByteBits] + sum[i]
               /\ g[i] \in Nat
    <2>1. CASE i = 0
      BY <1>4, <2>1 DEF Iterated
    <2>2. CASE i # 0
      <3>1. /\ i - 1 \in Nat /\ i - 1 \in 0 .. D /\ i - 1 < D
            /\ (i - 1) + 1 = i /\ i \in Nat
        BY <1>0, <2>2 DEF WidthFacts
      <3>2. f[i] = turn[<<i - 1, f[i - 1]>>] /\ f[i - 1] \in Nat /\ f[i] \in Nat
        BY <1>4, <3>1 DEF Iterated
      <3>3. f[i] = f[i - 1] * TwoTo[ByteBits] + sum[i]
        BY <1>2, <3>1, <3>2
      <3> QED
        BY <2>2, <3>1, <3>2, <3>3
    <2> QED
      BY <2>1, <2>2
  <1>6. Sums(g)
    BY <1>5
  <1> DEFINE U == CHOOSE h : Sums(h)
  <1>7. Value(sum) = U[DigestBytes]
    BY DEF Value
  <1> HIDE DEF Sums, g
  <1>8. Sums(U)
    BY <1>6
  <1> HIDE DEF U
  <1>9. U = [i \in 0 .. DigestBytes |->
               IF i = 0 THEN 0 ELSE U[i - 1] * TwoTo[ByteBits] + sum[i]]
    BY <1>8 DEF Sums
  <1>10. U[0] = 0
    BY <1>0, <1>9 DEF WidthFacts
  <1>11. ASSUME NEW i \in 1 .. D
         PROVE  U[i] = U[i - 1] * TwoTo[ByteBits] + sum[i]
    BY <1>0, <1>9 DEF WidthFacts
  <1> DEFINE S == { i \in Nat : i <= D => U[i] \in Nat }
  <1>12. 0 \in S
    BY <1>10
  <1>13. ASSUME NEW i \in Nat, i \in S
         PROVE  i + 1 \in S
    <2>1. CASE i + 1 <= D
      <3>1. i + 1 \in 1 .. D /\ (i + 1) - 1 = i
        BY <1>0, <2>1 DEF WidthFacts
      <3>2. U[i] \in Nat /\ sum[i + 1] \in Nat /\ TwoTo[ByteBits] \in Nat
        BY <1>0, <1>1, <1>13, <2>1, <3>1, TwoToPositive DEF WidthFacts
      <3>3. U[i] * TwoTo[ByteBits] \in Nat
        BY <3>2
      <3>4. U[i + 1] = U[i] * TwoTo[ByteBits] + sum[i + 1]
        BY <1>11, <3>1
      <3> QED
        BY <3>2, <3>3, <3>4
    <2>2. CASE ~(i + 1 <= D)
      BY <2>2
    <2> QED
      BY <2>1, <2>2
  <1> HIDE DEF S
  <1>14. \A i \in Nat : i \in S
    BY <1>12, <1>13, Induction
  <1>15. \A i \in 0 .. D : U[i] \in Nat
    BY <1>0, <1>14 DEF S, WidthFacts
  <1>16. \A i \in 1 .. D : i \in 0 .. D /\ i - 1 \in 0 .. D
    BY <1>0 DEF WidthFacts
  <1> QED
    BY <1>7, <1>10, <1>11, <1>15, <1>16

\* Of what the loop counts and of how large the digest is: a digest that is
\* not 0 is a number of just as many bits as the loop leaves uncounted.
LEMMA ZerosAndValue ==
    ASSUME NEW sum \in Digests
    PROVE  \/ LeadingZeroBits(sum) = DigestBits /\ Value(sum) = 0
           \/ /\ LeadingZeroBits(sum) \in 0 .. DigestBits - 1
              /\ TwoTo[DigestBits - LeadingZeroBits(sum) - 1] <= Value(sum)
              /\ Value(sum) < TwoTo[DigestBits - LeadingZeroBits(sum)]
  <1>0. WidthFacts
    BY Widths
  <1> DEFINE D == DigestBytes
             w == ByteBits
             L == LeadingZeroBits(sum)
  <1>1. PICK F : /\ L = F[1]
                 /\ F[D + 1] = 0
                 /\ \A i \in 1 .. D :
                      F[i] = IF sum[i] = 0 THEN w + F[i + 1]
                                           ELSE ZerosInByte(sum[i])
                 /\ \A i \in 1 .. D + 1 : F[i] \in Nat
    BY LoopDef
  <1>2. PICK U : /\ Value(sum) = U[D]
                 /\ U[0] = 0
                 /\ \A i \in 1 .. D :
                      /\ U[i] = U[i - 1] * TwoTo[w] + sum[i]
                      /\ U[i] \in Nat /\ U[i - 1] \in Nat
    BY ValueDef
  <1> HIDE DEF L
  <1>3. ASSUME NEW i \in 1 .. D
        PROVE  sum[i] \in Bytes /\ sum[i] \in Nat
    BY DEF Digests, Bytes
  <1>4. TwoTo[w] \in Nat /\ TwoTo[w] >= 1
    BY <1>0, TwoToPositive DEF WidthFacts
  <1>5. CASE \A i \in 1 .. D : sum[i] = 0
    <2> DEFINE S == { j \in Nat : j <= D =>
                        /\ F[D + 1 - j] = w * j
                        /\ U[j] = 0 }
    <2>1. 0 \in S
      <3>1. D + 1 - 0 = D + 1 /\ w * 0 = 0
        BY <1>0 DEF WidthFacts
      <3> QED
        BY <1>1, <1>2, <3>1
    <2>2. ASSUME NEW j \in Nat, j \in S
          PROVE  j + 1 \in S
      <3>1. CASE j + 1 <= D
        <4>1. /\ D + 1 - (j + 1) \in 1 .. D
              /\ (D + 1 - (j + 1)) + 1 = D + 1 - j
              /\ j + 1 \in 1 .. D /\ (j + 1) - 1 = j
              /\ j <= D
          BY <1>0, <3>1 DEF WidthFacts
        <4>2. F[D + 1 - (j + 1)] = w + F[D + 1 - j]
          BY <1>1, <1>5, <4>1
        <4>3. U[j + 1] = U[j] * TwoTo[w] + 0
          BY <1>2, <1>5, <4>1
        <4>4. F[D + 1 - j] = w * j /\ U[j] = 0
          BY <2>2, <4>1
        <4>5. w + w * j = w * (j + 1) /\ 0 * TwoTo[w] + 0 = 0
          BY <1>0, <1>4 DEF WidthFacts
        <4> QED
          BY <4>2, <4>3, <4>4, <4>5
      <3>2. CASE ~(j + 1 <= D)
        BY <3>2
      <3> QED
        BY <3>1, <3>2
    <2> HIDE DEF S
    <2>3. \A j \in Nat : j \in S
      BY <2>1, <2>2, Induction
    <2>4. D \in Nat /\ D <= D /\ D + 1 - D = 1
      BY <1>0 DEF WidthFacts
    <2>5. F[1] = w * D /\ U[D] = 0
      BY <2>3, <2>4 DEF S
    <2> QED
      BY <1>1, <1>2, <2>5 DEF L, DigestBits
  <1>6. CASE ~(\A i \in 1 .. D : sum[i] = 0)
    <2> DEFINE T == { i \in 1 .. D : sum[i] # 0 }
    <2>1. T \subseteq Nat /\ T # {}
      BY <1>0, <1>6 DEF WidthFacts
    <2>2. PICK k \in T : \A i \in T : k <= i
      BY <2>1, LeastOne
    <2>3. k \in 1 .. D /\ k \in Nat /\ sum[k] # 0
      BY <1>0 DEF WidthFacts
    <2>4. ASSUME NEW i \in 1 .. D, i < k
          PROVE  sum[i] = 0
      <3>1. i \notin T
        BY <1>0, <2>2, <2>3, <2>4 DEF WidthFacts
      <3> QED
        BY <3>1
    <2> HIDE DEF T
    <2> DEFINE z == ZerosInByte(sum[k])
    <2>5. /\ z \in 0 .. w - 1
          /\ TwoTo[w - 1 - z] <= sum[k] /\ sum[k] < TwoTo[w - z]
      BY <1>3, <2>3, ByteZeros
    <2>6. F[k] = z
      BY <1>1, <2>3
    <2> HIDE DEF z
    <2>7. L = w * (k - 1) + z /\ U[k - 1] = 0
      <3> DEFINE S == { j \in Nat : j <= k - 1 =>
                          /\ L = w * j + F[j + 1]
                          /\ U[j] = 0 }
      <3>1. 0 \in S
        <4>1. k - 1 \in 0 .. D - 1 /\ w * 0 = 0 /\ 0 + 1 = 1 /\ 1 \in 1 .. D + 1
          BY <1>0, <2>3 DEF WidthFacts
        <4>2. L = 0 + F[1]
          BY <1>1, <4>1
        <4> QED
          BY <1>2, <4>1, <4>2
      <3>2. ASSUME NEW j \in Nat, j \in S
            PROVE  j + 1 \in S
        <4>1. CASE j + 1 <= k - 1
          <5>1. /\ j + 1 \in 1 .. D /\ (j + 1) - 1 = j /\ j + 1 < k
                /\ j <= k - 1 /\ (j + 1) + 1 \in 1 .. D + 1
            BY <1>0, <2>3, <4>1 DEF WidthFacts
          <5>2. sum[j + 1] = 0
            BY <2>4, <5>1
          <5>3. F[j + 1] = w + F[(j + 1) + 1] /\ F[(j + 1) + 1] \in Nat
            BY <1>1, <5>1, <5>2
          <5>4. U[j + 1] = U[j] * TwoTo[w] + 0
            BY <1>2, <5>1, <5>2
          <5>5. L = w * j + F[j + 1] /\ U[j] = 0
            BY <3>2, <5>1
          <5>6. /\ w * (j + 1) = w * j + w /\ w * j \in Nat
                /\ 0 * TwoTo[w] + 0 = 0
            BY <1>0, <1>4 DEF WidthFacts
          <5>7. L = w * (j + 1) + F[(j + 1) + 1]
            BY <1>0, <5>3, <5>5, <5>6 DEF WidthFacts
          <5> QED
            BY <5>4, <5>5, <5>6, <5>7
        <4>2. CASE ~(j + 1 <= k - 1)
          BY <4>2
        <4> QED
          BY <4>1, <4>2
      <3> HIDE DEF S
      <3>3. \A j \in Nat : j \in S
        BY <3>1, <3>2, Induction
      <3>4. k - 1 \in Nat /\ k - 1 <= k - 1 /\ (k - 1) + 1 = k
        BY <1>0, <2>3 DEF WidthFacts
      <3>5. L = w * (k - 1) + F[k] /\ U[k - 1] = 0
        BY <3>3, <3>4 DEF S
      <3> QED
        BY <2>6, <3>5
    <2>8. w * k \in Nat /\ L \in Nat /\ w * k - L = w - z
      <3>1. w * (k - 1) = w * k - w /\ w * k \in Nat /\ w * (k - 1) \in Nat
        BY <1>0, <2>3 DEF WidthFacts
      <3> QED
        BY <1>0, <2>5, <2>7, <3>1 DEF WidthFacts
    <2> DEFINE e(i) == w * i - L
               R == { j \in Nat : k + j <= D =>
                        /\ e(k + j) \in Nat /\ e(k + j) >= 1
                        /\ TwoTo[e(k + j) - 1] <= U[k + j]
                        /\ U[k + j] < TwoTo[e(k + j)] }
    <2>9. 0 \in R
      <3>1. e(k + 0) = w - z /\ e(k + 0) \in Nat /\ e(k + 0) >= 1
            /\ e(k + 0) - 1 = w - 1 - z /\ k + 0 = k /\ 0 * TwoTo[w] = 0
        BY <1>0, <1>4, <2>3, <2>5, <2>8 DEF WidthFacts
      <3>2. U[k] = sum[k]
        BY <1>2, <1>3, <2>3, <2>7, <3>1
      <3> QED
        BY <2>5, <3>1, <3>2
    <2>10. ASSUME NEW j \in Nat, j \in R
           PROVE  j + 1 \in R
      <3>1. CASE k + (j + 1) <= D
        <4> DEFINE i == k + j
                   p == e(i)
        <4>1. /\ i + 1 \in 1 .. D /\ (i + 1) - 1 = i /\ i \in Nat
              /\ k + (j + 1) = i + 1 /\ i <= D
          BY <1>0, <2>3, <3>1 DEF WidthFacts
        <4>2. /\ p \in Nat /\ p >= 1
              /\ TwoTo[p - 1] <= U[i] /\ U[i] < TwoTo[p]
          BY <2>10, <4>1
        <4>3. e(i + 1) = p + w
          <5>1. w * (i + 1) = w * i + w /\ w * i \in Nat
            BY <1>0, <4>1 DEF WidthFacts
          <5> QED
            BY <1>0, <2>8, <5>1 DEF WidthFacts
        <4>4. U[i + 1] = U[i] * TwoTo[w] + sum[i + 1] /\ U[i] \in Nat
          BY <1>2, <4>1
        <4>5. sum[i + 1] \in Nat /\ sum[i + 1] < TwoTo[w]
          <5>1. sum[i + 1] \in Bytes
            BY <1>3, <4>1
          <5> QED
            BY <1>4, <5>1 DEF Bytes
        <4> HIDE DEF i, p, e
        <4>6. /\ p - 1 \in Nat /\ w \in Nat /\ (p - 1) + w = (p + w) - 1
              /\ p + w \in Nat /\ p + w >= 1
          BY <1>0, <4>2 DEF WidthFacts
        <4>7. TwoTo[(p + w) - 1] = TwoTo[p - 1] * TwoTo[w]
          BY <4>6, TwoToSum
        <4>8. TwoTo[p + w] = TwoTo[p] * TwoTo[w]
          BY <4>2, <4>6, TwoToSum
        <4>9. TwoTo[p - 1] \in Nat /\ TwoTo[p] \in Nat
          BY <4>2, <4>6, TwoToPositive
        <4>10. \A a, u, b, q, s \in Nat :
                 a <= u /\ u < b /\ s < q => a * q <= u * q + s /\ u * q + s < b * q
          <5> SUFFICES ASSUME NEW a \in Nat, NEW u \in Nat, NEW b \in Nat,
                              NEW q \in Nat, NEW s \in Nat, a <= u, u < b, s < q
                       PROVE  a * q <= u * q + s /\ u * q + s < b * q
            OBVIOUS
          <5>1. a * q <= u * q
            OBVIOUS
          <5>2. (u + 1) * q <= b * q
            OBVIOUS
          <5>3. (u + 1) * q = u * q + q
            OBVIOUS
          <5>4. a * q \in Nat /\ u * q \in Nat /\ b * q \in Nat
            OBVIOUS
          <5> QED
            BY <5>1, <5>2, <5>3, <5>4
        <4>11. TwoTo[(p + w) - 1] <= U[i + 1] /\ U[i + 1] < TwoTo[p + w]
          BY <1>4, <4>2, <4>4, <4>5, <4>7, <4>8, <4>9, <4>10
        <4> QED
          BY <4>1, <4>3, <4>6, <4>11
      <3>2. CASE ~(k + (j + 1) <= D)
        BY <3>2
      <3> QED
        BY <3>1, <3>2
    <2> HIDE DEF R
    <2>11. \A j \in Nat : j \in R
      BY <2>9, <2>10, Induction
    <2>12. D - k \in Nat /\ k + (D - k) = D /\ D <= D
      BY <1>0, <2>3 DEF WidthFacts
    <2>13. /\ e(D) \in Nat /\ e(D) >= 1
           /\ TwoTo[e(D) - 1] <= U[D] /\ U[D] < TwoTo[e(D)]
      BY <2>11, <2>12 DEF R
    <2>14. e(D) = DigestBits - L
      BY DEF DigestBits
    <2>15. L \in 0 .. DigestBits - 1
      BY <1>0, <2>8, <2>13, <2>14 DEF WidthFacts
    <2> HIDE DEF e
    <2> QED
      BY <1>2, <2>13, <2>14, <2>15 DEF L
  <1> QED
    BY <1>5, <1>6

\* The loop of the client and the comparison of the server agree, whatever
\* the width of a byte and of a digest, and whatever is asked for.
LEMMA CountsAgreeAlways == CountsAgree
  <1>0. WidthFacts
    BY Widths
  <1> SUFFICES ASSUME NEW sum \in Digests, NEW d \in 0 .. DigestBits + 1
               PROVE  LeadingZeroBits(sum) >= d <=> Accepts(sum, d)
    BY DEF CountsAgree
  <1> DEFINE L == LeadingZeroBits(sum)
             V == Value(sum)
  <1>1. d \in Nat
    BY <1>0 DEF WidthFacts
  <1>2. CASE L = DigestBits /\ V = 0
    <2>1. d <= DigestBits => DigestBits - d \in Nat
      BY <1>0, <1>1 DEF WidthFacts
    <2>2. d <= DigestBits => V < TwoTo[DigestBits - d]
      BY <1>2, <2>1, TwoToPositive
    <2> QED
      BY <1>0, <1>1, <1>2, <2>2 DEF Accepts, WidthFacts
  <1>3. CASE /\ L \in 0 .. DigestBits - 1
             /\ TwoTo[DigestBits - L - 1] <= V
             /\ V < TwoTo[DigestBits - L]
    <2> HIDE DEF L, V
    <2>1. /\ DigestBits - L - 1 \in Nat /\ DigestBits - L \in Nat
          /\ TwoTo[DigestBits - L - 1] \in Nat /\ TwoTo[DigestBits - L] \in Nat
      BY <1>0, <1>3, TwoToPositive DEF WidthFacts
    <2>2. V \in Int
      <3>1. PICK U : /\ Value(sum) = U[DigestBytes]
                     /\ \A i \in 1 .. DigestBytes : U[i] \in Nat
        BY ValueDef
      <3> QED
        BY <1>0, <3>1 DEF V, WidthFacts
    <2>3. CASE L >= d
      <3>1. d <= DigestBits /\ DigestBits - d \in Nat /\ DigestBits - L <= DigestBits - d
        BY <1>0, <1>1, <1>3, <2>3 DEF WidthFacts
      <3>2. TwoTo[DigestBits - L] <= TwoTo[DigestBits - d]
        BY <2>1, <3>1, TwoToMonotone
      <3>3. TwoTo[DigestBits - d] \in Nat
        BY <3>1, TwoToPositive
      <3>4. V < TwoTo[DigestBits - d]
        BY <1>3, <2>1, <2>2, <3>2, <3>3
      <3>5. Accepts(sum, d)
        BY <3>1, <3>4 DEF Accepts, V
      <3> QED
        BY <2>3, <3>5 DEF L
    <2>4. CASE ~(L >= d)
      <3>1. ASSUME d <= DigestBits
            PROVE  ~(V < TwoTo[DigestBits - d])
        <4>1. DigestBits - d \in Nat /\ DigestBits - d <= DigestBits - L - 1
          BY <1>0, <1>1, <1>3, <2>4, <3>1 DEF WidthFacts
        <4>2. TwoTo[DigestBits - d] <= TwoTo[DigestBits - L - 1]
          BY <2>1, <4>1, TwoToMonotone
        <4> QED
          BY <1>3, <2>1, <2>2, <4>1, <4>2, TwoToPositive
      <3>2. ~Accepts(sum, d)
        BY <3>1 DEF Accepts, V
      <3> QED
        BY <2>4, <3>2 DEF L
    <2> QED
      BY <2>3, <2>4
  <1> QED
    BY <1>2, <1>3, ZerosAndValue

LEMMA CountsFor ==
    ASSUME NEW sum \in Digests, NEW d \in Nat
    PROVE  LeadingZeroBits(sum) >= d <=> Accepts(sum, d)
  <1>0. WidthFacts
    BY Widths
  <1>1. CASE d \in 0 .. DigestBits + 1
    BY <1>1, CountsAgreeAlways DEF CountsAgree
  <1>2. CASE d \notin 0 .. DigestBits + 1
    <2>1. d > DigestBits
      BY <1>0, <1>2 DEF WidthFacts
    <2>2. LeadingZeroBits(sum) \in 0 .. DigestBits
      BY <1>0, ZerosAndValue DEF WidthFacts
    <2> QED
      BY <1>0, <2>1, <2>2 DEF Accepts, WidthFacts
  <1> QED
    BY <1>1, <1>2

-----------------------------------------------------------------------------
(* The inductive invariant.                                                *)

\* A call has no result before it returns, and a reply is of a call that
\* waits for one.
ResultsLast ==
    \A c \in Calls :
        /\ pc[c] # "returned" => result[c] = Plain("none")
        /\ pc[c] # "wait" => reply[c] = NoReply
        /\ pc[c] = "backoff" => attempt[c] # 0

\* The challenge of the registration, if there is one, is met.
PowFits == Pow.required => Solved

\* Each step was taken after the one it depends on had succeeded.
StepsInOrder ==
    /\ pc["ConfirmEmailVerification"] # "idle" =>
         Succeeded("RequestEmailVerification")
    /\ pc["RequestRegistrationProofOfWork"] # "idle" =>
         Succeeded("ConfirmEmailVerification")
    /\ pc["RegisterMerchant"] # "idle" =>
         Succeeded("RequestRegistrationProofOfWork") /\ PowFits
    /\ pc["RegisterMerchant again"] # "idle" => Failed("RegisterMerchant")

\* The requests in flight are of attempts that were begun, and once the
\* merchant registers none of an earlier step is left.
RequestsBegun ==
    \A m \in requests :
        /\ pc[m.call] # "idle"
        /\ m.n <= attempt[m.call]
        /\ m.n = attempt[m.call] => pc[m.call] \in {"wait", "returned"}
        /\ pc["RegisterMerchant"] # "idle" => IsRegister(m)

\* What an answer of the service names exists.
Found(c, id) ==
    /\ c = "RequestEmailVerification" => id \in DOMAIN intents
    /\ c = "ConfirmEmailVerification" => id = IntentId
    /\ c = "RequestRegistrationProofOfWork" => id \in DOMAIN challenges

AnswersNameWhatExists ==
    \A c \in Calls :
        /\ reply[c].status \in {200, 201} => Found(c, reply[c].id)
        /\ Succeeded(c) => Found(c, result[c].id)

AnswersHaveStatus ==
    \A c \in Calls :
        reply[c] # NoReply =>
            reply[c].status \in {200, 201, 400} \/ reply[c].status \in 500 .. 599

\* The search belongs to a challenge, and stops at the first nonce that will do.
SearchStops ==
    /\ tried # << >> => Challenged
    /\ \A n \in 1 .. Nonce : ~Enough(tried[n])

\* A merchant registered with a key is recorded under it.
KeyRecorded == keyed /\ merchants # << >> => recorded # 0

\* The first request to register is alone.
FirstAlone ==
    /\ attempt["RegisterMerchant"] = 0
    /\ \/ pc["RegisterMerchant"] \in {"idle", "ready"}
       \/ /\ pc["RegisterMerchant"] = "wait"
          /\ [call |-> "RegisterMerchant", n |-> 0] \in requests
    => merchants = << >>

\* The agent is told, or about to be, that its request is refused.
ToldNo(c) == reply[c].status = 400 \/ Refused(c)

\* No other attempt than those recorded under the key, or than this one, counts.
Definite(c) == keyed \/ (c = "RegisterMerchant" /\ attempt[c] = 0)

\* A refusal, on its way or returned, is true and stays so.
RefusalHolds ==
    \A c \in {"RegisterMerchant", "RegisterMerchant again"} :
        /\ ToldNo(c)
        /\ Definite(c)
        => merchants = << >> /\ ~Acceptable

RegistrationIInv ==
    /\ RegistrationTypeOK
    /\ ResultsLast
    /\ StepsInOrder
    /\ RequestsBegun
    /\ AnswersNameWhatExists
    /\ AnswersHaveStatus
    /\ SearchStops
    /\ KeyRecorded
    /\ FirstAlone
    /\ RefusalHolds

-----------------------------------------------------------------------------
(* What holds in every state that satisfies it.                            *)

LEMMA Steps ==
    /\ "RequestEmailVerification" \in Calls
    /\ "ConfirmEmailVerification" \in Calls
    /\ "RequestRegistrationProofOfWork" \in Calls
    /\ "RegisterMerchant" \in Calls
    /\ "RegisterMerchant again" \in Calls
  BY StepsAssumption

\* A list that grows is a list of the things there are then.
LEMMA SeqMonotone ==
    ASSUME NEW S, NEW T, S \subseteq T, NEW s \in Seq(S)
    PROVE  s \in Seq(T)
  OBVIOUS

LEMMA NoRefusal == NoReply.status # 400
  BY DEF NoReply

LEMMA ReturnedFacts ==
    ASSUME RegistrationIInv, NEW c \in Calls
    PROVE  /\ Succeeded(c) => pc[c] = "returned"
           /\ Refused(c) => pc[c] = "returned"
           /\ reply[c] # NoReply => pc[c] = "wait"
           /\ reply[c].status = 400 => pc[c] = "wait"
  BY DEF NoReply, RegistrationIInv, ResultsLast, Succeeded, Refused, Plain

LEMMA SolutionFacts ==
    ASSUME RegistrationIInv, Succeeded("RequestRegistrationProofOfWork")
    PROVE  /\ result["RequestRegistrationProofOfWork"].id \in DOMAIN challenges
           /\ Pow.intent \in DOMAIN intents
           /\ Pow.required \in BOOLEAN
           /\ Pow.difficulty \in Nat
  <1>1. result["RequestRegistrationProofOfWork"].id \in DOMAIN challenges
    BY Steps DEF RegistrationIInv, AnswersNameWhatExists, Found
  <1>2. Pow \in [intent : DOMAIN intents, required : BOOLEAN,
                 difficulty : Difficulties \cup {0}]
    <2>1. challenges \in Seq([intent : DOMAIN intents, required : BOOLEAN,
                              difficulty : Difficulties \cup {0}])
      BY DEF RegistrationIInv, RegistrationTypeOK
    <2> HIDE DEF RegistrationIInv
    <2>2. \A T, s, i : s \in Seq(T) /\ i \in DOMAIN s => s[i] \in T
      OBVIOUS
    <2> QED
      BY <1>1, <2>1, <2>2, Zenon DEF Pow
  <1>3. Pow.intent \in DOMAIN intents /\ Pow.required \in BOOLEAN
        /\ Pow.difficulty \in Difficulties \cup {0}
    BY <1>2
  <1>4. \A d \in Difficulties \cup {0} : d \in Nat
    BY DifficultiesAssumption
  <1> QED
    BY <1>1, <1>3, <1>4, Zenon

LEMMA IntentFacts ==
    ASSUME RegistrationIInv
    PROVE  /\ Succeeded("RequestEmailVerification") => IntentId \in DOMAIN intents
           /\ Succeeded("ConfirmEmailVerification") =>
                /\ Succeeded("RequestEmailVerification")
                /\ ConfirmedId = IntentId /\ ConfirmedId \in DOMAIN intents
  <1>1. Succeeded("RequestEmailVerification") => IntentId \in DOMAIN intents
    BY Steps DEF RegistrationIInv, AnswersNameWhatExists, Found, IntentId
  <1>2. ASSUME Succeeded("ConfirmEmailVerification")
        PROVE  /\ Succeeded("RequestEmailVerification")
               /\ ConfirmedId = IntentId
    <2>1. pc["ConfirmEmailVerification"] # "idle"
      BY <1>2, Steps, ReturnedFacts
    <2>2. Succeeded("RequestEmailVerification")
      BY <2>1 DEF RegistrationIInv, StepsInOrder
    <2>3. ConfirmedId = IntentId
      BY <1>2, Steps DEF RegistrationIInv, AnswersNameWhatExists, Found, ConfirmedId
    <2> QED
      BY <2>2, <2>3
  <1> QED
    BY <1>1, <1>2

\* While the merchant registers, all that went before is done.
LEMMA RegisteringFacts ==
    ASSUME RegistrationIInv,
           \/ pc["RegisterMerchant"] # "idle"
           \/ pc["RegisterMerchant again"] # "idle"
    PROVE  /\ pc["RegisterMerchant"] # "idle"
           /\ Succeeded("RequestEmailVerification")
           /\ Succeeded("ConfirmEmailVerification")
           /\ Succeeded("RequestRegistrationProofOfWork")
           /\ PowFits
  <1>1. pc["RegisterMerchant"] # "idle"
    BY DEF RegistrationIInv, StepsInOrder, Failed, Returned
  <1>2. Succeeded("RequestRegistrationProofOfWork") /\ PowFits
    BY <1>1 DEF RegistrationIInv, StepsInOrder
  <1>3. pc["RequestRegistrationProofOfWork"] # "idle"
    BY <1>2, Steps, ReturnedFacts
  <1>4. Succeeded("ConfirmEmailVerification")
    BY <1>3 DEF RegistrationIInv, StepsInOrder
  <1> QED
    BY <1>1, <1>2, <1>4, IntentFacts

LEMMA InitRegistrationIInv ==
    ASSUME RegistrationInit
    PROVE  RegistrationIInv
  <1> USE DEF RegistrationInit, ClientInit
  <1>1. RegistrationTypeOK
    <2>1. Plain("none") \in Outcomes
      BY PlainType DEF Kinds
    <2>2. NoReply \in Replies /\ 0 \in Attempts
      BY AttemptsAssumption DEF NoReply, Replies, Attempts
    <2>3. ClientTypeOK
      BY <2>1, <2>2 DEF ClientTypeOK
    <2> QED
      BY <2>3 DEF RegistrationTypeOK
  <1>2. ResultsLast
    BY DEF ResultsLast
  <1>3. StepsInOrder
    BY Steps DEF StepsInOrder
  <1>4. RequestsBegun
    BY DEF RequestsBegun
  <1>5. AnswersNameWhatExists
    BY DEF AnswersNameWhatExists, Succeeded, NoReply, Plain
  <1>6. AnswersHaveStatus
    BY DEF AnswersHaveStatus
  <1>7. SearchStops
    BY DEF SearchStops, Nonce
  <1>8. KeyRecorded /\ FirstAlone
    BY DEF KeyRecorded, FirstAlone
  <1>9. RefusalHolds
    <2>1. \A c \in Calls : reply[c].status # 400 /\ ~Refused(c)
      BY DEF NoReply, Refused, Plain
    <2> QED
      BY <2>1, Steps, Zenon DEF RefusalHolds, ToldNo
  <1> QED
    BY <1>1, <1>2, <1>3, <1>4, <1>5, <1>6, <1>7, <1>8, <1>9 DEF RegistrationIInv

-----------------------------------------------------------------------------
(* The steps of the agent.                                                 *)

\* What the server finds acceptable is nobody else's to change.
LEMMA AcceptableFrame ==
    ASSUME UNCHANGED <<result, challenges, tried, intents>>
    PROVE  Acceptable' <=> Acceptable
  BY DEF Acceptable, ConfirmedId, Pow, Nonce

LEMMA StatusFrame ==
    ASSUME AnswersHaveStatus, UNCHANGED reply
    PROVE  AnswersHaveStatus'
  BY DEF AnswersHaveStatus, NoReply

\* Of the invariant, what says something of the exchanges only.
QuietFacts ==
    ResultsLast /\ RequestsBegun /\ AnswersHaveStatus /\ KeyRecorded /\ FirstAlone

LEMMA QuietFrame ==
    ASSUME QuietFacts,
           UNCHANGED <<pc, attempt, result, requests, reply, keyed, merchants, recorded>>
    PROVE  QuietFacts'
  <1> USE DEF QuietFacts
  <1>1. ResultsLast'
    BY DEF ResultsLast, NoReply, Plain
  <1>2. RequestsBegun'
    BY DEF RequestsBegun, IsRegister, Is
  <1>3. AnswersHaveStatus'
    BY StatusFrame
  <1>4. KeyRecorded' /\ FirstAlone'
    BY DEF KeyRecorded, FirstAlone
  <1> QED
    BY <1>1, <1>2, <1>3, <1>4

LEMMA StepsFrame ==
    ASSUME StepsInOrder,
           \A d \in Calls : pc'[d] # "idle" => pc[d] # "idle",
           \A d \in Calls : Succeeded(d) => Succeeded(d)',
           \A d \in Calls : Failed(d) => Failed(d)',
           Succeeded("RequestRegistrationProofOfWork") => (PowFits => PowFits')
    PROVE  StepsInOrder'
  BY Steps DEF StepsInOrder

LEMMA RefusalFrame ==
    ASSUME RefusalHolds, UNCHANGED <<attempt, result, reply, keyed, merchants>>,
           Acceptable' => Acceptable
    PROVE  RefusalHolds'
  <1> SUFFICES ASSUME NEW c \in {"RegisterMerchant", "RegisterMerchant again"},
                      ToldNo(c)',
                      Definite(c)'
               PROVE  merchants' = << >> /\ ~Acceptable'
    BY Zenon DEF RefusalHolds
  <1>1. ToldNo(c)
    BY Zenon DEF ToldNo, Refused
  <1>2. Definite(c)
    BY Zenon DEF Definite
  <1>3. merchants = << >> /\ ~Acceptable
    BY <1>1, <1>2, Zenon DEF RefusalHolds
  <1> QED
    BY <1>3, Zenon

\* What a step must find before it is taken.
MayTake(c) ==
    /\ c = "ConfirmEmailVerification" => Succeeded("RequestEmailVerification")
    /\ c = "RequestRegistrationProofOfWork" =>
         Succeeded("ConfirmEmailVerification")
    /\ c = "RegisterMerchant" =>
         Succeeded("RequestRegistrationProofOfWork") /\ PowFits
    /\ c = "RegisterMerchant again" => Failed("RegisterMerchant")

LEMMA TakeKeeps ==
    ASSUME RegistrationIInv, NEW c \in Calls, Take(c), MayTake(c),
           code' \in 0 .. Len(intents)
    PROVE  RegistrationIInv'
  <1> USE DEF Take, serverVars
  <1>0. /\ pc[c] = "idle" /\ pc'[c] = "ready"
        /\ \A d \in Calls \ {c} : pc'[d] = pc[d]
        /\ requests' \subseteq requests
        /\ UNCHANGED <<attempt, result, reply, tried, keyed, intents, challenges,
                       merchants, recorded>>
    BY DEF RegistrationIInv, RegistrationTypeOK, ClientTypeOK
  <1>1. RegistrationTypeOK'
    BY DEF RegistrationIInv, RegistrationTypeOK, ClientTypeOK
  <1>2. ResultsLast'
    BY <1>0 DEF RegistrationIInv, ResultsLast
  <1>3. StepsInOrder'
    BY <1>0, Steps DEF RegistrationIInv, StepsInOrder, MayTake, Succeeded, Failed,
       Returned, PowFits, Pow, Solved, Enough
  <1>4. RequestsBegun'
    <2> SUFFICES ASSUME NEW m \in requests'
                 PROVE  /\ pc'[m.call] # "idle"
                        /\ m.n <= attempt'[m.call]
                        /\ m.n = attempt'[m.call] =>
                             pc'[m.call] \in {"wait", "returned"}
                        /\ pc'["RegisterMerchant"] # "idle" => IsRegister(m)
      BY <1>0 DEF RequestsBegun, IsRegister, Is
    <2>1. m \in requests /\ m.call \in Calls /\ m.call # c
      BY <1>0 DEF RegistrationIInv, RegistrationTypeOK, ClientTypeOK, Requests,
         RequestsBegun
    <2>2. m.call = "RegisterMerchant"
      OBVIOUS
    <2> QED
      BY <1>0, <2>1, <2>2 DEF RegistrationIInv, RequestsBegun, IsRegister, Is
  <1>5. AnswersNameWhatExists'
    BY <1>0 DEF RegistrationIInv, AnswersNameWhatExists, Found, Succeeded, IntentId
  <1>6. AnswersHaveStatus'
    BY <1>0, StatusFrame DEF RegistrationIInv
  <1>7. SearchStops'
    BY <1>0 DEF RegistrationIInv, SearchStops, Challenged, Succeeded, Pow, Nonce, Enough
  <1>8. KeyRecorded'
    BY <1>0 DEF RegistrationIInv, KeyRecorded
  <1>9. FirstAlone'
    BY <1>0, Steps DEF RegistrationIInv, FirstAlone
  <1>10. RefusalHolds'
    BY <1>0, AcceptableFrame, RefusalFrame DEF RegistrationIInv
  <1> QED
    BY <1>1, <1>2, <1>3, <1>4, <1>5, <1>6, <1>7, <1>8, <1>9, <1>10
    DEF RegistrationIInv

LEMMA SolveKeeps ==
    ASSUME RegistrationIInv, SolveProofOfWork
    PROVE  RegistrationIInv'
  <1> USE DEF SolveProofOfWork, clientVars, serverVars
  <1>0. PICK sum \in Samples : tried' = Append(tried, sum)
    OBVIOUS
  <1>1. /\ tried' \in Seq(Samples) /\ Len(tried') = Len(tried) + 1
        /\ Len(tried) \in Nat
        /\ \A i \in 1 .. Len(tried) : tried'[i] = tried[i]
        /\ tried' # << >>
    <2>1. tried \in Seq(Samples)
      BY DEF RegistrationIInv, RegistrationTypeOK
    <2> QED
      BY <1>0, <2>1, AppendFacts
  <1>2. pc["RegisterMerchant"] = "idle" /\ pc["RegisterMerchant again"] = "idle"
    BY RegisteringFacts DEF Challenged, PowFits
  <1>3. RegistrationTypeOK'
    BY <1>1 DEF RegistrationIInv, RegistrationTypeOK, ClientTypeOK
  <1>4. QuietFacts'
    BY QuietFrame DEF RegistrationIInv, QuietFacts
  <1>5. StepsInOrder'
    BY <1>2 DEF RegistrationIInv, StepsInOrder, Succeeded
  <1>6. AnswersNameWhatExists'
    BY DEF RegistrationIInv, AnswersNameWhatExists, Found, Succeeded, IntentId
  <1>7. SearchStops'
    <2>1. Challenged'
      BY DEF Challenged, Succeeded, Pow
    <2>2. ASSUME NEW n \in 1 .. Len(tried)
          PROVE  ~Enough(tried[n])
      <3>1. CASE n = Len(tried)
        BY <1>1, <3>1 DEF Solved
      <3>2. CASE n # Len(tried)
        <4>1. n \in 1 .. Nonce
          BY <1>1, <3>2 DEF Nonce
        <4> QED
          BY <4>1 DEF RegistrationIInv, SearchStops
      <3> QED
        BY <3>1, <3>2
    <2>3. Nonce' = Len(tried)
      BY <1>1 DEF Nonce
    <2>4. \A n \in 1 .. Nonce' : ~Enough(tried[n])' 
      BY <1>1, <2>2, <2>3 DEF Enough, Pow
    <2> QED
      BY <2>1, <2>4 DEF SearchStops
  <1>8. RefusalHolds'
    <2>1. ASSUME NEW c \in {"RegisterMerchant", "RegisterMerchant again"}
          PROVE  reply[c].status # 400 /\ ~Refused(c)
      <3>1. c \in Calls /\ pc[c] = "idle"
        BY <1>2, Steps
      <3> QED
        BY <3>1, ReturnedFacts
    <2> QED
      BY <2>1, Zenon DEF RefusalHolds, ToldNo, Refused
  <1> QED
    BY <1>3, <1>4, <1>5, <1>6, <1>7, <1>8 DEF RegistrationIInv, QuietFacts

LEMMA CancelKeeps ==
    ASSUME RegistrationIInv, CancelCtx
    PROVE  RegistrationIInv'
  <1> USE DEF CancelCtx, agentVars, serverVars
  <1>1. RegistrationTypeOK'
    BY DEF RegistrationIInv, RegistrationTypeOK, ClientTypeOK
  <1>2. QuietFacts'
    BY QuietFrame DEF RegistrationIInv, QuietFacts
  <1>3. StepsInOrder' /\ AnswersNameWhatExists'
    BY DEF RegistrationIInv, StepsInOrder, AnswersNameWhatExists, Found, Succeeded,
       Failed, Returned, IntentId, PowFits, Pow, Solved, Enough
  <1>4. SearchStops'
    BY DEF RegistrationIInv, SearchStops, Challenged, Succeeded, Nonce, Enough, Pow
  <1>5. RefusalHolds'
    BY AcceptableFrame, RefusalFrame DEF RegistrationIInv
  <1> QED
    BY <1>1, <1>2, <1>3, <1>4, <1>5 DEF RegistrationIInv, QuietFacts

LEMMA ExpireKeeps ==
    ASSUME RegistrationIInv, Expire
    PROVE  RegistrationIInv'
  <1> USE DEF Expire, clientVars, agentVars
  <1>0. /\ IntentId \in DOMAIN intents
        /\ intents' \in Seq({"new", "verified", "used", "expired"})
        /\ Len(intents') = Len(intents) /\ DOMAIN intents' = DOMAIN intents
        /\ \A i \in DOMAIN intents : intents'[i] # intents[i] => intents'[i] = "expired"
    <2>1. IntentId \in DOMAIN intents
      BY IntentFacts
    <2> QED
      BY <2>1 DEF RegistrationIInv, RegistrationTypeOK
  <1>1. RegistrationTypeOK'
    BY <1>0 DEF RegistrationIInv, RegistrationTypeOK, ClientTypeOK
  <1>2. QuietFacts'
    BY QuietFrame DEF RegistrationIInv, QuietFacts
  <1>3. StepsInOrder' /\ AnswersNameWhatExists'
    BY <1>0 DEF RegistrationIInv, StepsInOrder, AnswersNameWhatExists, Found, Succeeded,
       Failed, Returned, IntentId, PowFits, Pow, Solved, Enough
  <1>4. SearchStops'
    BY DEF RegistrationIInv, SearchStops, Challenged, Succeeded, Nonce, Enough, Pow
  <1>5. RefusalHolds'
    <2>1. Acceptable' => Acceptable
      BY <1>0 DEF Acceptable, ConfirmedId, Pow, Nonce
    <2> QED
      BY <2>1, RefusalFrame DEF RegistrationIInv
  <1> QED
    BY <1>1, <1>2, <1>3, <1>4, <1>5 DEF RegistrationIInv, QuietFacts

-----------------------------------------------------------------------------
(* The steps of a call.                                                    *)

\* What a call returns is what an answer said, or an error of the client.
LEMMA ReturnsWhatWasSaid ==
    ASSUME RegistrationIInv, NEW c \in Calls, Client(c, TRUE)
    PROVE  /\ Succeeded(c)' =>
                /\ reply[c].status \in {200, 201}
                /\ result'[c].id = reply[c].id
           /\ Refused(c)' =>
                /\ reply[c].status = 400
                /\ attempt'[c] = attempt[c]
  <1>0. ClientTypeOK /\ ClientFrame(c) /\ TRUE \in BOOLEAN
    BY ClientStepFrame DEF RegistrationIInv, RegistrationTypeOK
  <1>1. CASE pc'[c] # "returned"
    <2>1. result'[c] = result[c] /\ pc[c] # "returned"
      BY <1>0, <1>1 DEF ClientFrame
    <2>2. result[c] = Plain("none")
      BY <2>1 DEF RegistrationIInv, ResultsLast
    <2> QED
      BY <2>1, <2>2 DEF Succeeded, Refused, Plain
  <1>2. CASE pc'[c] = "returned"
    <2>1. CASE result'[c] \in {Plain("transport"), Plain("cancelled")}
      BY <2>1 DEF Succeeded, Refused, Plain
    <2>2. CASE /\ reply[c] # NoReply
               /\ attempt'[c] = attempt[c]
               /\ \E intact \in BOOLEAN :
                    result'[c] = DecodeResponse(reply[c], TRUE, intact)
      <3>1. PICK intact \in BOOLEAN :
              result'[c] = DecodeResponse(reply[c], TRUE, intact)
        BY <2>2
      <3>2. \/ reply[c].status = 200
            \/ reply[c].status = 201
            \/ reply[c].status = 400
            \/ reply[c].status >= 500 /\ reply[c].status \in Nat
        BY <2>2 DEF RegistrationIInv, AnswersHaveStatus
      <3>3. CASE reply[c].status = 200 \/ reply[c].status = 201
        BY <3>1, <3>3 DEF DecodeResponse, Succeeded, Refused
      <3>4. CASE reply[c].status = 400
        BY <2>2, <3>1, <3>4 DEF DecodeResponse, Succeeded, Refused
      <3>5. CASE reply[c].status >= 500 /\ reply[c].status \in Nat
        BY <3>1, <3>5 DEF DecodeResponse, Succeeded, Refused
      <3> QED
        BY <3>2, <3>3, <3>4, <3>5
    <2> QED
      BY <1>0, <1>2, <2>1, <2>2, ClientReturns
  <1> QED
    BY <1>1, <1>2

\* A call that has not begun and one that has returned are left as they are.
LEMMA OthersStay ==
    ASSUME RegistrationIInv, NEW c \in Calls, Client(c, TRUE), NEW d \in Calls
    PROVE  /\ pc[d] = "idle" <=> pc'[d] = "idle"
           /\ pc[d] = "returned" =>
                /\ pc'[d] = "returned"
                /\ result'[d] = result[d]
                /\ attempt'[d] = attempt[d]
           /\ Succeeded(d) => Succeeded(d)' /\ result'[d] = result[d]
           /\ Failed(d) => Failed(d)'
  <1>1. ClientFrame(c)
    BY ClientStepFrame DEF RegistrationIInv, RegistrationTypeOK
  <1>2. /\ pc[d] = "idle" <=> pc'[d] = "idle"
        /\ pc[d] = "returned" =>
             /\ pc'[d] = "returned"
             /\ result'[d] = result[d]
             /\ attempt'[d] = attempt[d]
    BY <1>1 DEF ClientFrame
  <1>3. Succeeded(d) => pc[d] = "returned"
    BY ReturnedFacts
  <1> QED
    BY <1>2, <1>3 DEF Succeeded, Failed, Returned

\* A call begins to wait when it has sent its request.
LEMMA CallWaits ==
    ASSUME RegistrationIInv, NEW c \in Calls, Client(c, TRUE), pc'[c] = "wait"
    PROVE  pc[c] = "ready"
  BY DEF RegistrationIInv, RegistrationTypeOK, ClientTypeOK, Client, Send, SendCancelled,
     Abort, Receive, BackoffElapsed, BackoffCancelled, FailAttempt, Return

LEMMA CallKeeps ==
    ASSUME RegistrationIInv, NEW c \in Calls, ClientStep(c)
    PROVE  RegistrationIInv'
  <1>0. /\ Client(c, TRUE) /\ TRUE \in BOOLEAN
        /\ UNCHANGED <<keyed, invited, code, tried, intents, challenges, merchants,
                       recorded>>
    BY DEF ClientStep, agentVars, serverVars
  <1>1. ClientTypeOK' /\ ClientFrame(c)
    BY <1>0, ClientStepType, ClientStepFrame DEF RegistrationIInv, RegistrationTypeOK
  <1>2. RegistrationTypeOK'
    BY <1>0, <1>1 DEF RegistrationIInv, RegistrationTypeOK
  <1>3. ResultsLast'
    <2> SUFFICES ASSUME NEW d \in Calls
                 PROVE  /\ pc'[d] # "returned" => result'[d] = Plain("none")
                        /\ pc'[d] # "wait" => reply'[d] = NoReply
                        /\ pc'[d] = "backoff" => attempt'[d] # 0
      BY DEF ResultsLast, Plain, NoReply
    <2>1. /\ pc[d] # "returned" => result[d] = Plain("none")
          /\ pc[d] # "wait" => reply[d] = NoReply
          /\ pc[d] = "backoff" => attempt[d] # 0
          /\ attempt[c] \in Nat
      BY AttemptsAssumption DEF RegistrationIInv, ResultsLast, RegistrationTypeOK,
         ClientTypeOK, Attempts
    <2> QED
      BY <1>1, <2>1 DEF ClientFrame
  <1>4. StepsInOrder'
    <2>1. /\ \A d \in Calls : pc'[d] # "idle" => pc[d] # "idle"
          /\ \A d \in Calls : Succeeded(d) => Succeeded(d)' /\ result'[d] = result[d]
          /\ \A d \in Calls : Failed(d) => Failed(d)'
      BY <1>0, OthersStay
    <2>2. Succeeded("RequestRegistrationProofOfWork") =>
            (PowFits => PowFits')
      BY <1>0, <2>1, Steps DEF PowFits, Pow, Solved, Enough
    <2> QED
      BY <2>1, <2>2, StepsFrame DEF RegistrationIInv
  <1>5. RequestsBegun'
    <2> SUFFICES ASSUME NEW m \in requests'
                 PROVE  /\ pc'[m.call] # "idle"
                        /\ m.n <= attempt'[m.call]
                        /\ m.n = attempt'[m.call] =>
                             pc'[m.call] \in {"wait", "returned"}
                        /\ pc'["RegisterMerchant"] # "idle" => IsRegister(m)
      BY DEF RequestsBegun, IsRegister, Is
    <2>1. CASE m \in requests
      <3>1. /\ m.call \in Calls /\ m.n \in Nat
            /\ attempt[m.call] \in Nat
        BY <2>1, AttemptsAssumption DEF RegistrationIInv, RegistrationTypeOK,
           ClientTypeOK, Requests, Attempts
      <3>2. /\ pc[m.call] # "idle"
            /\ m.n <= attempt[m.call]
            /\ m.n = attempt[m.call] => pc[m.call] \in {"wait", "returned"}
            /\ pc["RegisterMerchant"] # "idle" => IsRegister(m)
        BY <2>1 DEF RegistrationIInv, RequestsBegun
      <3>3. pc'["RegisterMerchant"] # "idle" => pc["RegisterMerchant"] # "idle"
        BY <1>0, Steps, OthersStay
      <3> QED
        BY <1>1, <3>1, <3>2, <3>3 DEF ClientFrame
    <2>2. CASE m \notin requests
      <3>1. /\ m = [call |-> c, n |-> attempt[c]]
            /\ pc[c] = "ready" /\ pc'[c] = "wait" /\ attempt' = attempt
            /\ attempt[c] \in Nat
        BY <1>1, <2>2, AttemptsAssumption DEF ClientFrame, RegistrationIInv,
           RegistrationTypeOK, ClientTypeOK, Attempts
      <3>2. ASSUME pc'["RegisterMerchant"] # "idle"
            PROVE  IsRegister(m)
        <4>1. /\ pc["RegisterMerchant"] # "idle"
              /\ Succeeded("RequestEmailVerification")
              /\ Succeeded("ConfirmEmailVerification")
              /\ Succeeded("RequestRegistrationProofOfWork")
          BY <1>0, <3>2, Steps, OthersStay, RegisteringFacts
        <4>2. c \in {"RegisterMerchant", "RegisterMerchant again"}
          BY <3>1, <4>1, Steps, ReturnedFacts, StepsAssumption
        <4> QED
          BY <3>1, <4>2 DEF IsRegister, Is
      <3> QED
        BY <3>1, <3>2
    <2> QED
      BY <2>1, <2>2
  <1>6. AnswersNameWhatExists'
    <2> SUFFICES ASSUME NEW d \in Calls
                 PROVE  /\ reply'[d].status \in {200, 201} => Found(d, reply[d].id)'
                        /\ Succeeded(d)' => Found(d, result[d].id)'
      BY DEF AnswersNameWhatExists
    <2>1. d = "ConfirmEmailVerification" /\ pc[d] # "idle" => IntentId' = IntentId
      <3>1. d = "ConfirmEmailVerification" /\ pc[d] # "idle" =>
              Succeeded("RequestEmailVerification")
        BY DEF RegistrationIInv, StepsInOrder
      <3> QED
        BY <1>0, <3>1, Steps, OthersStay DEF IntentId
    <2>2. ASSUME reply'[d].status \in {200, 201}
          PROVE  Found(d, reply[d].id)'
      <3>1. reply'[d] = reply[d]
        BY <1>1, <2>2 DEF ClientFrame, NoReply
      <3>2. Found(d, reply[d].id) /\ pc[d] # "idle"
        BY <2>2, <3>1 DEF RegistrationIInv, AnswersNameWhatExists, ResultsLast, NoReply
      <3> QED
        BY <1>0, <2>1, <3>1, <3>2 DEF Found
    <2>3. ASSUME Succeeded(d)'
          PROVE  Found(d, result[d].id)'
      <3>1. CASE d = c
        <4>1. /\ reply[d].status \in {200, 201}
              /\ result'[d].id = reply[d].id
          BY <1>0, <2>3, <3>1, ReturnsWhatWasSaid
        <4>2. Found(d, reply[d].id) /\ pc[d] # "idle"
          BY <1>1, <3>1, <4>1 DEF RegistrationIInv, AnswersNameWhatExists, ClientFrame
        <4> QED
          BY <1>0, <2>1, <4>1, <4>2 DEF Found
      <3>2. CASE d # c
        <4>1. result'[d] = result[d]
          BY <1>1, <3>2 DEF ClientFrame
        <4>2. Succeeded(d)
          BY <2>3, <4>1 DEF Succeeded
        <4>3. Found(d, result[d].id) /\ pc[d] # "idle"
          BY <4>2, ReturnedFacts DEF RegistrationIInv, AnswersNameWhatExists
        <4> QED
          BY <1>0, <2>1, <4>1, <4>3 DEF Found
      <3> QED
        BY <3>1, <3>2
    <2> QED
      BY <2>2, <2>3
  <1>7. AnswersHaveStatus'
    <2> SUFFICES ASSUME NEW d \in Calls, reply'[d] # NoReply
                 PROVE  \/ reply'[d].status \in {200, 201, 400}
                        \/ reply'[d].status \in 500 .. 599
      BY DEF AnswersHaveStatus, NoReply
    <2>1. reply'[d] = reply[d]
      BY <1>1 DEF ClientFrame
    <2> QED
      BY <2>1 DEF RegistrationIInv, AnswersHaveStatus
  <1>8. SearchStops'
    <2>1. CASE tried = << >>
      BY <1>0, <2>1 DEF SearchStops, Nonce
    <2>2. CASE tried # << >>
      <3>1. Challenged /\ \A n \in 1 .. Nonce : ~Enough(tried[n])
        BY <2>2 DEF RegistrationIInv, SearchStops
      <3>2. Succeeded("RequestRegistrationProofOfWork")' /\ Pow' = Pow
        BY <1>0, <3>1, Steps, OthersStay DEF Challenged, Pow
      <3> QED
        BY <1>0, <3>1, <3>2 DEF SearchStops, Challenged, Nonce, Enough
    <2> QED
      BY <2>1, <2>2
  <1>9. KeyRecorded'
    BY <1>0 DEF RegistrationIInv, KeyRecorded
  <1>10. FirstAlone'
    <2> DEFINE R == "RegisterMerchant"
    <2>0. /\ R \in Calls /\ FirstAlone /\ attempt[c] \in Nat
          /\ pc[R] = "backoff" => attempt[R] # 0
      <3>1. R \in Calls /\ FirstAlone
        BY Steps DEF RegistrationIInv
      <3>2. attempt[c] \in Nat
        BY AttemptsAssumption DEF RegistrationIInv, RegistrationTypeOK, ClientTypeOK,
           Attempts
      <3>3. pc[R] = "backoff" => attempt[R] # 0
        BY <3>1 DEF RegistrationIInv, ResultsLast
      <3> QED
        BY <3>1, <3>2, <3>3
    <2> SUFFICES ASSUME attempt'[R] = 0,
                        \/ pc'[R] \in {"idle", "ready"}
                        \/ pc'[R] = "wait" /\ [call |-> R, n |-> 0] \in requests'
                 PROVE  merchants = << >>
      BY <1>0 DEF FirstAlone
    <2>1. CASE R # c
      <3>1. pc'[R] = pc[R] /\ attempt'[R] = attempt[R]
        BY <1>1, <2>0, <2>1 DEF ClientFrame
      <3>2. [call |-> R, n |-> 0] \in requests' => [call |-> R, n |-> 0] \in requests
        BY <1>1, <2>1 DEF ClientFrame
      <3> QED
        BY <2>0, <3>1, <3>2 DEF FirstAlone
    <2>2. CASE R = c
      <3>1. attempt[R] = 0 /\ pc'[R] # "ready" /\ pc'[R] # "idle"
        BY <1>1, <2>0, <2>2 DEF ClientFrame
      <3>2. pc'[R] = "wait"
        BY <3>1
      <3>3. pc[R] = "ready"
        BY <1>0, <2>2, <3>1, <3>2, CallWaits
      <3> QED
        BY <2>0, <3>1, <3>3 DEF FirstAlone
    <2> QED
      BY <2>1, <2>2
  <1>11. RefusalHolds'
    <2> SUFFICES ASSUME NEW d \in {"RegisterMerchant", "RegisterMerchant again"},
                        ToldNo(d)',
                        Definite(d)'
                 PROVE  merchants = << >> /\ ~Acceptable'
      BY <1>0, Zenon DEF RefusalHolds
    <2>0. d \in Calls
      BY Steps
    <2>1. /\ ToldNo(d)
          /\ attempt'[d] = attempt[d]
      <3>1. CASE d # c
        <4>1. reply'[d] = reply[d] /\ result'[d] = result[d] /\ attempt'[d] = attempt[d]
          BY <1>1, <2>0, <3>1 DEF ClientFrame
        <4> QED
          BY <4>1, Zenon DEF ToldNo, Refused
      <3>2. CASE d = c /\ Refused(d)'
        <4>1. Refused(c)'
          BY <3>2
        <4>2. reply[c].status = 400 /\ attempt'[c] = attempt[c]
          BY <1>0, <4>1, ReturnsWhatWasSaid
        <4> QED
          BY <3>2, <4>2, Zenon DEF ToldNo
      <3>3. CASE d = c /\ reply'[d].status = 400
        <4>1. reply'[c] # NoReply
          BY <3>3, NoRefusal, Zenon
        <4>2. reply'[c] = reply[c] /\ pc[c] # "wait"
          BY <1>1, <4>1 DEF ClientFrame
        <4>3. reply[c].status = 400
          BY <3>3, <4>2
        <4>4. pc[c] # "returned" /\ attempt'[c] = attempt[c]
          BY <4>2, <4>3, ReturnedFacts
        <4> QED
          BY <3>3, <4>3, <4>4, Zenon DEF ToldNo
      <3> QED
        BY <3>1, <3>2, <3>3, Zenon DEF ToldNo
    <2>2. Definite(d)
      BY <1>0, <2>1, Zenon DEF Definite
    <2>3. merchants = << >> /\ ~Acceptable
      BY <2>1, <2>2, Zenon DEF RegistrationIInv, RefusalHolds
    <2>4. pc[d] # "idle"
      BY <2>0, <2>1, ReturnedFacts, Zenon DEF ToldNo
    <2>5. /\ Succeeded("ConfirmEmailVerification")
          /\ Succeeded("RequestRegistrationProofOfWork")
      BY <2>4, RegisteringFacts
    <2>6. ConfirmedId' = ConfirmedId /\ Pow' = Pow
      BY <1>0, <2>5, Steps, OthersStay DEF ConfirmedId, Pow
    <2> QED
      BY <1>0, <2>3, <2>6 DEF Acceptable, Nonce
  <1> QED
    BY <1>2, <1>3, <1>4, <1>5, <1>6, <1>7, <1>8, <1>9, <1>10, <1>11
    DEF RegistrationIInv

-----------------------------------------------------------------------------
(* The handlers of the service.                                            *)

\* The exchange of m ends with r, or with what a proxy says instead.
Answered(m, r) ==
    /\ requests' = requests \ {m}
    /\ reply' \in [Calls -> Replies]
    /\ \A d \in Calls :
         \/ reply'[d] = reply[d]
         \/ /\ d = m.call /\ pc[d] = "wait" /\ attempt[d] = m.n
            /\ reply'[d] = r \/ reply'[d].status \in 500 .. 599

\* What a handler leaves of the lists: they only get longer.
Grows ==
    /\ DOMAIN intents \subseteq DOMAIN intents'
    /\ DOMAIN challenges \subseteq DOMAIN challenges'
    /\ \A i \in DOMAIN challenges : challenges'[i] = challenges[i]

Handled == UNCHANGED <<pc, attempt, ctx, lastErr, result, keyed, invited, code, tried>>

LEMMA RequestFacts ==
    ASSUME RegistrationIInv, NEW m \in requests
    PROVE  /\ m.call \in Calls /\ m.n \in Nat /\ m = [call |-> m.call, n |-> m.n]
           /\ pc[m.call] # "idle"
           /\ m.n <= attempt[m.call]
           /\ m.n = attempt[m.call] => pc[m.call] \in {"wait", "returned"}
           /\ pc["RegisterMerchant"] # "idle" => IsRegister(m)
           /\ attempt[m.call] \in Nat
  <1>1. m \in Requests /\ attempt \in [Calls -> Attempts]
    BY DEF RegistrationIInv, RegistrationTypeOK, ClientTypeOK
  <1>2. m.call \in Calls /\ m.n \in Attempts /\ m = [call |-> m.call, n |-> m.n]
    BY <1>1 DEF Requests
  <1>3. \A i \in Attempts : i \in Nat
    BY AttemptsAssumption DEF Attempts
  <1> QED
    BY <1>1, <1>2, <1>3 DEF RegistrationIInv, RequestsBegun

LEMMA RespondFacts ==
    ASSUME RegistrationIInv, NEW m \in requests, NEW r \in Replies, Respond(m, r)
    PROVE  Answered(m, r)
  <1>1. PICK a \in {r} \cup Hidden : Answer(m, a)
    BY DEF Respond
  <1>2. a \in Replies /\ (a = r \/ a.status \in 500 .. 599)
    <2>1. CASE a = r
      BY <2>1
    <2>2. CASE a \in Hidden
      <3>1. PICK s \in Gateway : a = [status |-> s, code |-> 0, id |-> 0]
        BY <2>2 DEF Hidden
      <3>2. s \in 500 .. 599
        BY GatewayAssumption
      <3> QED
        BY <3>1, <3>2 DEF Replies
    <2> QED
      BY <1>1, <2>1, <2>2
  <1>3. reply \in [Calls -> Replies] /\ m.call \in Calls
    BY RequestFacts DEF RegistrationIInv, RegistrationTypeOK, ClientTypeOK
  <1>4. CASE Awaited(m)
    <2>1. reply' = [reply EXCEPT ![m.call] = a]
      BY <1>1, <1>4 DEF Answer
    <2> QED
      BY <1>1, <1>2, <1>3, <1>4, <2>1 DEF Answer, Answered, Awaited
  <1>5. CASE ~Awaited(m)
    BY <1>1, <1>3, <1>5 DEF Answer, Answered
  <1> QED
    BY <1>4, <1>5

\* What every handler leaves true, whatever it does to the resources.
LEMMA HandlerKeeps ==
    ASSUME RegistrationIInv, NEW m \in requests, NEW r \in Replies,
           Answered(m, r), Handled, Grows,
           r.status \in {200, 201, 400},
           r.status \in {200, 201} => Found(m.call, r.id)'
    PROVE  /\ ClientTypeOK'
           /\ ResultsLast' /\ StepsInOrder' /\ RequestsBegun'
           /\ AnswersNameWhatExists' /\ AnswersHaveStatus' /\ SearchStops'
  <1> USE DEF Handled
  <1>0. m.call \in Calls
    BY RequestFacts
  <1>1. ClientTypeOK'
    BY DEF RegistrationIInv, RegistrationTypeOK, ClientTypeOK, Answered
  <1>2. ResultsLast'
    <2> SUFFICES ASSUME NEW d \in Calls
                 PROVE  /\ pc'[d] # "returned" => result'[d] = Plain("none")
                        /\ pc'[d] # "wait" => reply'[d] = NoReply
                        /\ pc'[d] = "backoff" => attempt'[d] # 0
      BY DEF ResultsLast, Plain, NoReply
    <2> QED
      BY DEF RegistrationIInv, ResultsLast, Answered
  <1>3. Succeeded("RequestRegistrationProofOfWork") =>
          Pow' = Pow /\ (PowFits => PowFits')
    <2>1. Succeeded("RequestRegistrationProofOfWork") =>
            result["RequestRegistrationProofOfWork"].id \in DOMAIN challenges
      BY SolutionFacts
    <2> QED
      BY <2>1 DEF Grows, PowFits, Pow, Solved, Enough
  <1>4. StepsInOrder'
    <2>1. /\ \A d \in Calls : pc'[d] # "idle" => pc[d] # "idle"
          /\ \A d \in Calls : Succeeded(d) => Succeeded(d)'
          /\ \A d \in Calls : Failed(d) => Failed(d)'
      BY DEF Succeeded, Failed, Returned
    <2> QED
      BY <1>3, <2>1, StepsFrame DEF RegistrationIInv
  <1>5. RequestsBegun'
    <2> SUFFICES ASSUME NEW k \in requests'
                 PROVE  /\ pc'[k.call] # "idle"
                        /\ k.n <= attempt'[k.call]
                        /\ k.n = attempt'[k.call] =>
                             pc'[k.call] \in {"wait", "returned"}
                        /\ pc'["RegisterMerchant"] # "idle" => IsRegister(k)
      BY DEF RequestsBegun, IsRegister, Is
    <2>1. k \in requests
      BY DEF Answered
    <2> QED
      BY <2>1, RequestFacts
  <1>6. AnswersNameWhatExists'
    <2> SUFFICES ASSUME NEW d \in Calls
                 PROVE  /\ reply'[d].status \in {200, 201} => Found(d, reply[d].id)'
                        /\ Succeeded(d)' => Found(d, result[d].id)'
      BY DEF AnswersNameWhatExists
    <2>1. IntentId' = IntentId
      BY DEF IntentId
    <2>2. Succeeded(d)' => Found(d, result[d].id)'
      BY <2>1 DEF RegistrationIInv, AnswersNameWhatExists, Found, Succeeded, Grows
    <2>3. ASSUME reply'[d].status \in {200, 201}
          PROVE  Found(d, reply[d].id)'
      <3>1. CASE reply'[d] = reply[d]
        <4>1. Found(d, reply[d].id)
          BY <2>3, <3>1 DEF RegistrationIInv, AnswersNameWhatExists
        <4> QED
          BY <2>1, <3>1, <4>1 DEF Found, Grows
      <3>2. CASE reply'[d] # reply[d]
        <4>1. d = m.call /\ (reply'[d] = r \/ reply'[d].status \in 500 .. 599)
          BY <3>2 DEF Answered
        <4>2. reply'[d] = r
          BY <2>3, <4>1
        <4> QED
          BY <2>3, <4>1, <4>2 DEF Found
      <3> QED
        BY <3>1, <3>2
    <2> QED
      BY <2>2, <2>3
  <1>7. AnswersHaveStatus'
    <2> SUFFICES ASSUME NEW d \in Calls, reply'[d] # NoReply
                 PROVE  \/ reply'[d].status \in {200, 201, 400}
                        \/ reply'[d].status \in 500 .. 599
      BY DEF AnswersHaveStatus, NoReply
    <2> QED
      BY DEF RegistrationIInv, AnswersHaveStatus, Answered
  <1>8. SearchStops'
    BY <1>3 DEF RegistrationIInv, SearchStops, Challenged, Succeeded, Nonce, Enough
  <1> QED
    BY <1>1, <1>2, <1>4, <1>5, <1>6, <1>7, <1>8

\* A handler that registers nobody keeps what is said of the merchants.
LEMMA NoMerchantFrame ==
    ASSUME RegistrationIInv, Handled, requests' \subseteq requests,
           UNCHANGED <<merchants, recorded>>
    PROVE  KeyRecorded' /\ FirstAlone'
  <1> USE DEF Handled
  <1>1. KeyRecorded'
    BY DEF RegistrationIInv, KeyRecorded
  <1>2. FirstAlone'
    BY DEF RegistrationIInv, FirstAlone
  <1> QED
    BY <1>1, <1>2

\* An earlier step is answered before the merchant registers: nothing has been
\* refused yet.
LEMMA EarlyRefusal ==
    ASSUME RegistrationIInv, Handled, NEW m \in requests, NEW r, Answered(m, r),
           ~IsRegister(m)
    PROVE  RefusalHolds'
  <1>1. ASSUME NEW d \in {"RegisterMerchant", "RegisterMerchant again"}
        PROVE  ~(reply'[d].status = 400) /\ ~Refused(d)'
    <2>1. pc["RegisterMerchant"] = "idle"
      BY RequestFacts
    <2>2. pc[d] = "idle" /\ d \in Calls
      BY <2>1, Steps, RegisteringFacts
    <2>3. reply'[d] = reply[d]
      BY <2>2 DEF Answered
    <2>4. ~(reply[d].status = 400) /\ ~Refused(d)
      BY <2>2, ReturnedFacts
    <2> QED
      BY <2>3, <2>4 DEF Refused, Handled
  <1> QED
    BY <1>1, Zenon DEF RefusalHolds, ToldNo

LEMMA ChallengesGrow ==
    ASSUME NEW S, NEW T, S \subseteq T, NEW D
    PROVE  [intent : S, required : BOOLEAN, difficulty : D]
             \subseteq [intent : T, required : BOOLEAN, difficulty : D]
  OBVIOUS

LEMMA SendCodeKeeps ==
    ASSUME RegistrationIInv, NEW m \in requests, SendCode(m), Handled
    PROVE  RegistrationIInv'
  <1> USE DEF SendCode
  <1>0. intents \in Seq({"new", "verified", "used", "expired"})
    BY DEF RegistrationIInv, RegistrationTypeOK
  <1>1. /\ intents' \in Seq({"new", "verified", "used", "expired"})
        /\ Len(intents) \in Nat /\ Len(intents') = Len(intents) + 1
        /\ DOMAIN intents = 1 .. Len(intents)
        /\ DOMAIN intents' = 1 .. Len(intents) + 1
    BY <1>0, AppendFacts
  <1>2. Ok(200, Len(intents) + 1) \in Replies
    BY <1>1 DEF Ok, Replies
  <1> PICK r \in Replies : r = Ok(200, Len(intents) + 1)
    BY <1>2
  <1>20. r.status = 200 /\ r.id = Len(intents) + 1
    BY DEF Ok
  <1>3. Answered(m, r)
    BY RespondFacts
  <1>4. Grows
    BY <1>1 DEF Grows
  <1>5. Found(m.call, r.id)'
    BY <1>1, <1>20 DEF Found, Is
  <1>6. RegistrationTypeOK'
    <2>1. ClientTypeOK'
      BY <1>20, <1>3, <1>4, <1>5, HandlerKeeps
    <2>2. merchants' \in Seq(DOMAIN intents')
      BY <1>1, SeqMonotone DEF RegistrationIInv, RegistrationTypeOK
    <2>3. challenges' \in Seq([intent : DOMAIN intents', required : BOOLEAN,
                               difficulty : Difficulties \cup {0}])
      <3> DEFINE S == [intent : DOMAIN intents, required : BOOLEAN,
                       difficulty : Difficulties \cup {0}]
                 T == [intent : DOMAIN intents', required : BOOLEAN,
                       difficulty : Difficulties \cup {0}]
      <3>1. S \subseteq T
        BY <1>4, ChallengesGrow DEF Grows
      <3>2. challenges \in Seq(S)
        BY DEF RegistrationIInv, RegistrationTypeOK
      <3> HIDE DEF S, T
      <3>3. challenges \in Seq(T)
        BY <3>1, <3>2, SeqMonotone
      <3> QED
        BY <3>3 DEF T
    <2> QED
      BY <1>1, <2>1, <2>2, <2>3 DEF RegistrationIInv, RegistrationTypeOK, Handled
  <1>7. KeyRecorded' /\ FirstAlone'
    BY <1>3, NoMerchantFrame DEF Answered
  <1>8. RefusalHolds'
    BY <1>3, EarlyRefusal DEF IsRegister, Is
  <1> QED
    BY <1>20, <1>3, <1>4, <1>5, <1>6, <1>7, <1>8, HandlerKeeps DEF RegistrationIInv

LEMMA VerifyKeeps ==
    ASSUME RegistrationIInv, NEW m \in requests, Verify(m), Handled
    PROVE  RegistrationIInv'
  <1> USE DEF Verify
  <1>0. /\ pc["ConfirmEmailVerification"] # "idle"
        /\ Succeeded("RequestEmailVerification") /\ IntentId \in DOMAIN intents
    BY RequestFacts, IntentFacts DEF Is, RegistrationIInv, StepsInOrder
  <1>1. /\ intents' \in Seq({"new", "verified", "used", "expired"})
        /\ Len(intents') = Len(intents) /\ DOMAIN intents' = DOMAIN intents
        /\ IntentId \in Nat
    BY <1>0 DEF RegistrationIInv, RegistrationTypeOK
  <1>2. Ok(200, IntentId) \in Replies
    BY <1>1 DEF Ok, Replies
  <1> PICK r \in Replies : r = Ok(200, IntentId)
    BY <1>2
  <1>20. r.status = 200 /\ r.id = IntentId
    BY DEF Ok
  <1>3. Answered(m, r)
    BY RespondFacts
  <1>4. Grows
    BY <1>1 DEF Grows
  <1>5. Found(m.call, r.id)'
    BY <1>20 DEF Found, Is, IntentId, Handled
  <1>6. RegistrationTypeOK'
    <2>1. ClientTypeOK'
      BY <1>20, <1>3, <1>4, <1>5, HandlerKeeps
    <2> QED
      BY <1>1, <2>1 DEF RegistrationIInv, RegistrationTypeOK, Handled
  <1>7. KeyRecorded' /\ FirstAlone'
    BY <1>3, NoMerchantFrame DEF Answered
  <1>8. RefusalHolds'
    BY <1>3, EarlyRefusal DEF IsRegister, Is
  <1> QED
    BY <1>20, <1>3, <1>4, <1>5, <1>6, <1>7, <1>8, HandlerKeeps DEF RegistrationIInv

LEMMA ChallengeKeeps ==
    ASSUME RegistrationIInv, NEW m \in requests, Challenge(m), Handled
    PROVE  RegistrationIInv'
  <1> USE DEF Challenge
  <1> DEFINE T == [intent : DOMAIN intents, required : BOOLEAN,
                   difficulty : Difficulties \cup {0}]
  <1>0. ConfirmedId \in DOMAIN intents
    BY RequestFacts, IntentFacts DEF Is, RegistrationIInv, StepsInOrder
  <1>1. PICK d \in IF invited THEN {0} ELSE Difficulties :
          challenges' = Append(challenges, [intent |-> ConfirmedId,
                                            required |-> ~invited,
                                            difficulty |-> d])
    OBVIOUS
  <1>2. d \in Difficulties \cup {0}
    BY <1>1
  <1>3. [intent |-> ConfirmedId, required |-> ~invited, difficulty |-> d] \in T
    BY <1>0, <1>2
  <1>4. challenges \in Seq(T)
    BY DEF RegistrationIInv, RegistrationTypeOK
  <1> HIDE DEF T
  <1>5. /\ challenges' \in Seq(T)
        /\ Len(challenges) \in Nat
        /\ DOMAIN challenges = 1 .. Len(challenges)
        /\ DOMAIN challenges' = 1 .. Len(challenges) + 1
        /\ \A i \in 1 .. Len(challenges) : challenges'[i] = challenges[i]
    BY <1>1, <1>3, <1>4, AppendFacts
  <1>6. Ok(200, Len(challenges) + 1) \in Replies
    BY <1>5 DEF Ok, Replies
  <1> PICK r \in Replies : r = Ok(200, Len(challenges) + 1)
    BY <1>6
  <1>20. r.status = 200 /\ r.id = Len(challenges) + 1
    BY DEF Ok
  <1>7. Answered(m, r)
    BY RespondFacts
  <1>8. Grows
    BY <1>5 DEF Grows
  <1>9. Found(m.call, r.id)'
    BY <1>5, <1>20 DEF Found, Is
  <1>10. RegistrationTypeOK'
    <2>1. ClientTypeOK'
      BY <1>20, <1>7, <1>8, <1>9, HandlerKeeps
    <2> QED
      BY <1>5, <2>1 DEF RegistrationIInv, RegistrationTypeOK, Handled, T
  <1>11. KeyRecorded' /\ FirstAlone'
    BY <1>7, NoMerchantFrame DEF Answered
  <1>12. RefusalHolds'
    BY <1>7, EarlyRefusal DEF IsRegister, Is
  <1> QED
    BY <1>20, <1>7, <1>8, <1>9, <1>10, <1>11, <1>12, HandlerKeeps DEF RegistrationIInv

Denies(r) == r.status = 400

LEMMA StatusesDiffer == 400 # 201 /\ 400 \notin 500 .. 599
  OBVIOUS

\* What a refusal that was not there before goes back to.
LEMMA NewReply ==
    ASSUME RegistrationIInv, Handled, NEW m \in requests, NEW r, Answered(m, r),
           NEW d \in {"RegisterMerchant", "RegisterMerchant again"},
           ToldNo(d)', ~ToldNo(d)
    PROVE  d = m.call /\ Awaited(m) /\ Denies(r)
  <1>1. d \in Calls
    BY Steps
  <1>2. Refused(d)' <=> Refused(d)
    BY Zenon DEF Handled, Refused
  <1>3. reply'[d].status = 400 /\ reply'[d] # reply[d]
    BY <1>2, Zenon DEF ToldNo
  <1>4. /\ d = m.call /\ pc[d] = "wait" /\ attempt[d] = m.n
        /\ reply'[d] = r \/ reply'[d].status \in 500 .. 599
    BY <1>1, <1>3 DEF Answered
  <1>5. reply'[d].status \notin 500 .. 599
    BY <1>3, StatusesDiffer, Zenon
  <1> QED
    BY <1>3, <1>4, <1>5, Zenon DEF Awaited, Denies

LEMMA RefusalSaid ==
    ASSUME RegistrationIInv, Handled, NEW m \in requests, NEW r, Answered(m, r),
           ~Denies(r),
           NEW d \in {"RegisterMerchant", "RegisterMerchant again"},
           ToldNo(d)'
    PROVE  ToldNo(d)
  BY NewReply

\* A handler that says yes and changes nothing keeps every refusal.
LEMMA LateRefusal ==
    ASSUME RegistrationIInv, Handled, NEW m \in requests, NEW r, Answered(m, r),
           ~Denies(r), UNCHANGED <<intents, challenges, merchants>>
    PROVE  RefusalHolds'
  <1> SUFFICES ASSUME NEW d \in {"RegisterMerchant", "RegisterMerchant again"},
                      ToldNo(d)',
                      Definite(d)'
               PROVE  merchants' = << >> /\ ~Acceptable'
    BY Zenon DEF RefusalHolds
  <1>1. ToldNo(d)
    BY RefusalSaid
  <1>2. Definite(d)
    BY Zenon DEF Handled, Definite
  <1>3. merchants = << >> /\ ~Acceptable
    BY <1>1, <1>2, Zenon DEF RegistrationIInv, RefusalHolds
  <1>4. Acceptable' <=> Acceptable
    BY AcceptableFrame DEF Handled
  <1> QED
    BY <1>3, <1>4

LEMMA RegisterKeeps ==
    ASSUME RegistrationIInv, NEW m \in requests, Register(m), Handled
    PROVE  RegistrationIInv'
  <1> USE DEF Register
  <1>0. /\ pc["RegisterMerchant"] # "idle"
        /\ ConfirmedId \in DOMAIN intents
    <2>1. \/ pc["RegisterMerchant"] # "idle"
          \/ pc["RegisterMerchant again"] # "idle"
      BY RequestFacts DEF IsRegister, Is
    <2> QED
      BY <2>1, RegisteringFacts, IntentFacts
  <1>1. /\ intents' \in Seq({"new", "verified", "used", "expired"})
        /\ Len(intents') = Len(intents) /\ DOMAIN intents' = DOMAIN intents
    BY <1>0 DEF RegistrationIInv, RegistrationTypeOK
  <1>2. /\ merchants' \in Seq(DOMAIN intents)
        /\ Len(merchants) \in Nat /\ Len(merchants') = Len(merchants) + 1
    <2>1. merchants \in Seq(DOMAIN intents)
      BY DEF RegistrationIInv, RegistrationTypeOK
    <2> QED
      BY <1>0, <2>1, AppendFacts
  <1>3. Ok(201, Len(merchants) + 1) \in Replies
    BY <1>2 DEF Ok, Replies
  <1> PICK r \in Replies : r = Ok(201, Len(merchants) + 1)
    BY <1>3
  <1>4. r.status = 201
    BY DEF Ok
  <1>13. ~Denies(r)
    BY <1>4 DEF Denies
  <1>5. Answered(m, r)
    BY RespondFacts
  <1>6. Grows
    BY <1>1 DEF Grows
  <1>7. Found(m.call, r.id)'
    BY DEF Found, IsRegister, Is
  <1>8. recorded' = IF keyed THEN Len(merchants) + 1 ELSE recorded
    BY DEF BodyKey
  <1>9. RegistrationTypeOK'
    <2>1. ClientTypeOK'
      BY <1>4, <1>5, <1>6, <1>7, HandlerKeeps
    <2>2. recorded' \in 0 .. Len(merchants')
      BY <1>2, <1>8 DEF RegistrationIInv, RegistrationTypeOK
    <2> QED
      BY <1>1, <1>2, <2>1, <2>2 DEF RegistrationIInv, RegistrationTypeOK, Handled
  <1>10. KeyRecorded'
    <2>1. Len(merchants) + 1 # 0
      BY <1>2
    <2>2. keyed' => recorded' # 0
      BY <1>8, <2>1 DEF Handled
    <2> QED
      BY <2>2, Zenon DEF KeyRecorded
  <1>11. FirstAlone'
    <2> DEFINE R == "RegisterMerchant"
    <2> SUFFICES ASSUME attempt[R] = 0,
                        \/ pc[R] \in {"idle", "ready"}
                        \/ pc[R] = "wait" /\ [call |-> R, n |-> 0] \in requests'
                 PROVE  FALSE
      BY DEF FirstAlone, Handled
    <2>1. CASE m.call = R
      <3>1. m.n \in Nat /\ m.n <= 0 /\ m = [call |-> m.call, n |-> m.n]
        BY <2>1, RequestFacts
      <3>2. m = [call |-> R, n |-> 0] /\ m.n = attempt[R]
        BY <2>1, <3>1
      <3>3. pc[R] = "wait" /\ m \in requests'
        BY <2>1, <3>2, RequestFacts
      <3> QED
        BY <1>5, <3>3 DEF Answered
    <2>2. CASE m.call = "RegisterMerchant again"
      <3>1. pc["RegisterMerchant again"] # "idle"
        BY <2>2, RequestFacts
      <3>2. pc[R] = "returned"
        BY <3>1 DEF RegistrationIInv, StepsInOrder, Failed, Returned
      <3> QED
        BY <3>2
    <2> QED
      BY <2>1, <2>2 DEF IsRegister, Is
  <1>12. RefusalHolds'
    <2> SUFFICES ASSUME NEW d \in {"RegisterMerchant", "RegisterMerchant again"},
                        ToldNo(d)',
                        Definite(d)'
                 PROVE  FALSE
      BY Zenon DEF RefusalHolds
    <2>1. ToldNo(d)
      BY <1>5, <1>13, RefusalSaid
    <2>2. Definite(d)
      BY Zenon DEF Handled, Definite
    <2> QED
      BY <2>1, <2>2, Zenon DEF RegistrationIInv, RefusalHolds
  <1> QED
    BY <1>4, <1>5, <1>6, <1>7, <1>9, <1>10, <1>11, <1>12, HandlerKeeps
    DEF RegistrationIInv

LEMMA ReplayKeeps ==
    ASSUME RegistrationIInv, NEW m \in requests, Replay(m), Handled
    PROVE  RegistrationIInv'
  <1> USE DEF Replay, serverVars
  <1>1. Ok(201, Located(m)) \in Replies
    <2>1. recorded \in Nat
      BY DEF RegistrationIInv, RegistrationTypeOK
    <2>2. Located(m) = recorded \/ Located(m) = 0
      BY DEF Located
    <2>3. Located(m) \in Nat
      BY <2>1, <2>2
    <2> QED
      BY <2>3 DEF Ok, Replies
  <1> PICK r \in Replies : r = Ok(201, Located(m))
    BY <1>1
  <1>2. r.status = 201
    BY DEF Ok
  <1>9. ~Denies(r)
    BY <1>2 DEF Denies
  <1>3. Answered(m, r)
    BY RespondFacts
  <1>4. Grows
    BY DEF Grows
  <1>5. Found(m.call, r.id)'
    BY DEF Found, IsRegister, Is
  <1>6. RegistrationTypeOK'
    <2>1. ClientTypeOK'
      BY <1>2, <1>3, <1>4, <1>5, HandlerKeeps
    <2> QED
      BY <2>1 DEF RegistrationIInv, RegistrationTypeOK, Handled
  <1>7. KeyRecorded' /\ FirstAlone'
    BY <1>3, NoMerchantFrame DEF Answered
  <1>8. RefusalHolds'
    BY <1>3, <1>9, LateRefusal
  <1> QED
    BY <1>2, <1>3, <1>4, <1>5, <1>6, <1>7, <1>8, HandlerKeeps DEF RegistrationIInv

\* A request to register is refused when nothing is recorded under its key and
\* it is not acceptable: that nobody is registered then is what the key, or the
\* first attempt, is for.
LEMMA RefusalIsTrue ==
    ASSUME RegistrationIInv, NEW m \in requests, IsRegister(m), Located(m) = 0,
           ~Acceptable, Awaited(m),
           Definite(m.call)
    PROVE  merchants = << >>
  <1>1. CASE keyed
    <2>1. Located(m) = recorded
      BY <1>1 DEF Located, BodyKey
    <2> QED
      BY <1>1, <2>1, Zenon DEF RegistrationIInv, KeyRecorded
  <1>2. CASE m.call = "RegisterMerchant" /\ attempt[m.call] = 0
    <2>1. m = [call |-> "RegisterMerchant", n |-> 0]
      BY <1>2, RequestFacts DEF Awaited
    <2> QED
      BY <1>2, <2>1 DEF RegistrationIInv, FirstAlone, Awaited
  <1> QED
    BY <1>1, <1>2, Zenon DEF Definite

LEMMA RefuseKeeps ==
    ASSUME RegistrationIInv, NEW m \in requests, Refuse(m), Handled
    PROVE  RegistrationIInv'
  <1> USE DEF serverVars
  <1>0. Respond(m, Refusal) /\ UNCHANGED serverVars
    BY DEF Refuse
  <1>1. Refusal \in Replies
    BY DEF Refusal, Replies
  <1> PICK r \in Replies : r = Refusal
    BY <1>1
  <1>2. r.status = 400
    BY DEF Refusal
  <1>3. Answered(m, r)
    BY <1>0, RespondFacts
  <1>4. Grows
    BY <1>0 DEF Grows
  <1>5. RegistrationTypeOK'
    <2>1. ClientTypeOK'
      BY <1>2, <1>3, <1>4, HandlerKeeps
    <2> QED
      BY <1>0, <2>1 DEF RegistrationIInv, RegistrationTypeOK, Handled
  <1>6. KeyRecorded' /\ FirstAlone'
    BY <1>0, <1>3, NoMerchantFrame DEF Answered
  <1>7. RefusalHolds'
    <2>1. CASE ~IsRegister(m)
      BY <1>3, <2>1, EarlyRefusal
    <2>2. CASE IsRegister(m)
      <3>1. Located(m) = 0 /\ ~Acceptable
        BY <2>2 DEF Refuse, IsRegister, Is
      <3>2. Acceptable' <=> Acceptable
        BY <1>0, AcceptableFrame DEF Handled
      <3> SUFFICES ASSUME NEW d \in {"RegisterMerchant", "RegisterMerchant again"},
                          Definite(d)',
                          ToldNo(d)'
                   PROVE  merchants' = << >> /\ ~Acceptable'
        BY Zenon DEF RefusalHolds
      <3>3. Definite(d)
        BY Zenon DEF Handled, Definite
      <3>4. CASE ToldNo(d)
        <4>1. merchants = << >> /\ ~Acceptable
          BY <3>3, <3>4, Zenon DEF RegistrationIInv, RefusalHolds
        <4> QED
          BY <1>0, <3>2, <4>1
      <3>5. CASE ~ToldNo(d)
        <4>1. d = m.call /\ Awaited(m)
          BY <1>3, <3>5, NewReply
        <4>2. merchants = << >>
          BY <2>2, <3>1, <3>3, <4>1, RefusalIsTrue, Zenon
        <4> QED
          BY <1>0, <3>1, <3>2, <4>2
      <3> QED
        BY <3>4, <3>5
    <2> QED
      BY <2>1, <2>2
  <1> QED
    BY <1>2, <1>3, <1>4, <1>5, <1>6, <1>7, HandlerKeeps DEF RegistrationIInv

LEMMA IdleKeeps ==
    ASSUME RegistrationIInv, UNCHANGED registrationVars
    PROVE  RegistrationIInv'
  <1> USE DEF registrationVars, clientVars, agentVars, serverVars
  <1>1. RegistrationTypeOK'
    BY DEF RegistrationIInv, RegistrationTypeOK, ClientTypeOK
  <1>2. QuietFacts'
    BY QuietFrame DEF RegistrationIInv, QuietFacts
  <1>3. StepsInOrder' /\ AnswersNameWhatExists'
    BY DEF RegistrationIInv, StepsInOrder, AnswersNameWhatExists, Found, Succeeded,
       Failed, Returned, IntentId, PowFits, Pow, Solved, Enough
  <1>4. SearchStops'
    BY DEF RegistrationIInv, SearchStops, Challenged, Succeeded, Nonce, Enough, Pow
  <1>5. RefusalHolds'
    BY AcceptableFrame, RefusalFrame DEF RegistrationIInv
  <1> QED
    BY <1>1, <1>2, <1>3, <1>4, <1>5 DEF RegistrationIInv, QuietFacts

-----------------------------------------------------------------------------
(* The theorems.                                                           *)

LEMMA NextRegistrationIInv ==
    ASSUME RegistrationIInv, [RegistrationNext]_registrationVars
    PROVE  RegistrationIInv'
  <1>0. code \in 0 .. Len(intents) /\ DOMAIN intents \subseteq 0 .. Len(intents)
    BY DEF RegistrationIInv, RegistrationTypeOK
  <1>1. CASE RequestEmailVerification
    BY <1>0, <1>1, Steps, TakeKeeps DEF RequestEmailVerification, MayTake
  <1>2. CASE ConfirmEmailVerification
    <2>1. code' \in 0 .. Len(intents)
      BY <1>0, <1>2 DEF ConfirmEmailVerification
    <2> QED
      BY <1>2, <2>1, Steps, TakeKeeps DEF ConfirmEmailVerification, MayTake
  <1>3. CASE RequestRegistrationProofOfWork
    BY <1>0, <1>3, Steps, TakeKeeps DEF RequestRegistrationProofOfWork, MayTake
  <1>4. CASE SolveProofOfWork
    BY <1>4, SolveKeeps
  <1>5. CASE RegisterMerchant
    BY <1>0, <1>5, Steps, TakeKeeps DEF RegisterMerchant, MayTake, PowFits
  <1>6. CASE RegisterMerchantAgain
    BY <1>0, <1>6, Steps, TakeKeeps DEF RegisterMerchantAgain, MayTake
  <1>7. ASSUME NEW c \in Calls, ClientStep(c)
        PROVE  RegistrationIInv'
    BY <1>7, CallKeeps
  <1>8. CASE CancelCtx
    BY <1>8, CancelKeeps
  <1>9. ASSUME NEW m \in requests, ServerStep(m)
        PROVE  RegistrationIInv'
    <2>1. Handled
      BY <1>9 DEF ServerStep, Handled, agentVars
    <2> QED
      BY <1>9, <2>1, SendCodeKeeps, VerifyKeeps, ChallengeKeeps, RegisterKeeps,
         ReplayKeeps, RefuseKeeps DEF ServerStep
  <1>10. CASE Expire
    BY <1>10, ExpireKeeps
  <1>11. CASE UNCHANGED registrationVars
    BY <1>11, IdleKeeps
  <1> QED
    BY <1>1, <1>2, <1>3, <1>4, <1>5, <1>6, <1>7, <1>8, <1>9, <1>10, <1>11
    DEF RegistrationNext, AgentStep

\* The invariant holds in every state of every registration.
THEOREM RegistrationInvariance == RegistrationSpec => []RegistrationIInv
  <1>1. RegistrationInit => RegistrationIInv
    BY InitRegistrationIInv
  <1>2. RegistrationIInv /\ [RegistrationNext]_registrationVars => RegistrationIInv'
    BY NextRegistrationIInv
  <1> QED
    BY <1>1, <1>2, PTL DEF RegistrationSpec

\* The state of a registration stays of its types: no answer names an intent,
\* a challenge or a merchant that does not exist.
THEOREM RegistrationTypeCorrect == RegistrationSpec => []RegistrationTypeOK
  <1>1. RegistrationIInv => RegistrationTypeOK
    BY DEF RegistrationIInv
  <1> QED
    BY <1>1, RegistrationInvariance, PTL

\* SolveProofOfWork counts the leading zero bits of any digest as the server
\* does, returns only solutions that it accepts for the challenge they are sent
\* with, and passes over none.
THEOREM SolutionsAccepted == RegistrationSpec => []SolvedIsAccepted
  <1>1. ASSUME RegistrationIInv, Challenged
        PROVE  /\ pc["RegisterMerchant"] # "idle" =>
                    Accepts(tried[Nonce + 1], Pow.difficulty)
               /\ \A n \in 1 .. Nonce : ~Accepts(tried[n], Pow.difficulty)
    <2>1. Pow.difficulty \in Nat
      BY <1>1, SolutionFacts DEF Challenged
    <2>2. /\ \A i \in 1 .. Len(tried) : tried[i] \in Digests
          /\ Len(tried) \in Nat
          /\ tried # << >> => Len(tried) \in 1 .. Len(tried)
      BY <1>1, SamplesAssumption DEF RegistrationIInv, RegistrationTypeOK
    <2>3. ASSUME pc["RegisterMerchant"] # "idle"
          PROVE  Accepts(tried[Nonce + 1], Pow.difficulty)
      <3>1. Solved
        BY <1>1, <2>3, RegisteringFacts DEF Challenged, PowFits
      <3>2. Nonce + 1 = Len(tried) /\ tried[Len(tried)] \in Digests
        BY <2>2, <3>1 DEF Nonce, Solved
      <3> QED
        BY <2>1, <3>1, <3>2, CountsFor DEF Solved, Enough
    <2>4. ASSUME NEW n \in 1 .. Nonce
          PROVE  ~Accepts(tried[n], Pow.difficulty)
      <3>1. tried[n] \in Digests
        BY <2>2 DEF Nonce
      <3>2. ~Enough(tried[n])
        BY <1>1 DEF RegistrationIInv, SearchStops
      <3> QED
        BY <2>1, <3>1, <3>2, CountsFor DEF Enough
    <2> QED
      BY <2>3, <2>4
  <1>2. RegistrationIInv => SolvedIsAccepted
    BY <1>1, CountsAgreeAlways DEF SolvedIsAccepted
  <1> QED
    BY <1>2, RegistrationInvariance, PTL

\* A refusal that the agent is told is true, and stays so, of all its attempts.
THEOREM RefusalsTrue == RegistrationSpec => []RefusedMeansNotRegistered
  <1>1. RegistrationIInv => RefusedMeansNotRegistered
    BY Zenon DEF RegistrationIInv, RefusalHolds, ToldNo, Definite,
       RefusedMeansNotRegistered
  <1> QED
    BY <1>1, RegistrationInvariance, PTL
=============================================================================
