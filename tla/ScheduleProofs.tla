--------------------------- MODULE ScheduleProofs ---------------------------
(***************************************************************************)
(* The wait after a failure, computed in 64 bits, for any number of failed  *)
(* attempts and any cap up to nine hours; the types of the schedule, for    *)
(* any calls, intervals and bounds.                                         *)
(***************************************************************************)
EXTENDS DrainSchedule, WellFoundedInduction, TLAPS

-----------------------------------------------------------------------------
(* The arithmetic of words                                                  *)

\* The number that a word stands for, without its sign.
ValueOf(d) == ((d[1] * 65536 + d[2]) * 65536 + d[3]) * 65536 + d[4]

\* One more than the greatest value: 2^64.
Modulus == 18446744073709551616

\* A digit is a number below the base.
LEMMA Digits ==
  ASSUME NEW d \in Word, NEW i \in 1 .. 4
  PROVE  d[i] \in Nat /\ d[i] < 65536
<1>1. d[i] \in Digit
  BY DEF Word
<1>2. \A b \in Nat : \A x \in 0 .. b - 1 : x \in Nat /\ x < b
  BY SMT
<1>3. Base \in Nat
  BY SMT DEF Base
<1>4. d[i] \in Nat /\ d[i] < Base
  BY <1>1, <1>2, <1>3, Zenon DEF Digit
<1>5. Base = 65536
  BY SMT DEF Base
<1> QED
  BY <1>4, <1>5, SMT

\* And any such number is a digit.
LEMMA IsDigit ==
  ASSUME NEW r \in Nat, r < 65536
  PROVE  r \in Digit
<1>1. Base \in Nat /\ r < Base
  BY SMT DEF Base
<1> QED
  BY <1>1 DEF Digit

\* Division by the base leaves a remainder below it.
LEMMA Division ==
  ASSUME NEW x \in Nat
  PROVE  /\ x \div 65536 \in Nat /\ x % 65536 \in Nat /\ x % 65536 < 65536
         /\ x = 65536 * (x \div 65536) + (x % 65536)
OBVIOUS

\* The product of two natural numbers is one.
LEMMA NatProduct == ASSUME NEW x \in Nat, NEW y \in Nat PROVE x * y \in Nat
OBVIOUS

\* c is what each digit of the product of k and d hands to the next.
IsCarry(k, d, c) ==
  /\ c[5] = 0
  /\ \A i \in 1 .. 4 : c[i] = (k * d[i] + c[i + 1]) \div 65536
  /\ Times(k, d) = [i \in 1 .. 4 |-> (k * d[i] + c[i + 1]) % 65536]

\* The carries of a product are defined, digit after digit from the last.
LEMMA TimesDigits ==
  ASSUME NEW k \in Nat, NEW d \in Word
  PROVE  \E c \in [1 .. 5 -> Nat] : IsCarry(k, d, c)
<1> DEFINE Step(c) == [i \in 1 .. 5 |-> IF i = 5 THEN 0 ELSE (k * d[i] + c[i + 1]) \div 65536]
           c4 == (k * d[4] + 0) \div 65536
           c3 == (k * d[3] + c4) \div 65536
           c2 == (k * d[2] + c3) \div 65536
           c1 == (k * d[1] + c2) \div 65536
           w == [i \in 1 .. 5 |-> IF i = 5 THEN 0 ELSE IF i = 4 THEN c4 ELSE IF i = 3 THEN c3
                                  ELSE IF i = 2 THEN c2 ELSE c1]
           carry == CHOOSE c : c = Step(c)
<1>1. w = Step(w)
  <2>1. ASSUME NEW i \in 1 .. 5 PROVE w[i] = Step(w)[i]
    <3>1. i = 1 \/ i = 2 \/ i = 3 \/ i = 4 \/ i = 5
      OBVIOUS
    <3> HIDE DEF c1, c2, c3, c4
    <3>2. w[1] = c1 /\ w[2] = c2 /\ w[3] = c3 /\ w[4] = c4 /\ w[5] = 0
      OBVIOUS
    <3> HIDE DEF w
    <3>3. /\ Step(w)[5] = 0 /\ Step(w)[4] = (k * d[4] + w[5]) \div 65536
          /\ Step(w)[3] = (k * d[3] + w[4]) \div 65536
          /\ Step(w)[2] = (k * d[2] + w[3]) \div 65536
          /\ Step(w)[1] = (k * d[1] + w[2]) \div 65536
      OBVIOUS
    <3> QED
      BY <3>1, <3>2, <3>3 DEF c1, c2, c3, c4
  <2> QED
    BY <2>1
<1> HIDE DEF w
<1>2. carry = Step(carry)
  <2> HIDE DEF Step
  <2>1. \E c : c = Step(c)
    BY <1>1, Zenon
  <2> QED
    BY <2>1, Zenon
<1>3. Times(k, d) = [i \in 1 .. 4 |-> (k * d[i] + carry[i + 1]) % 65536]
  BY DEF Times, Base
<1> HIDE DEF carry
<1>4. carry[5] = 0 /\ \A i \in 1 .. 4 : carry[i] = (k * d[i] + carry[i + 1]) \div 65536
  BY <1>2
<1>5. carry \in [1 .. 5 -> Nat]
  <2>1. ASSUME NEW i \in 1 .. 4, carry[i + 1] \in Nat PROVE carry[i] \in Nat
    <3>1. PICK x \in Nat : x = k * d[i]
      BY Digits, NatProduct
    <3>2. PICK y \in Nat : y = carry[i + 1]
      BY <2>1
    <3>3. (x + y) \div 65536 \in Nat
      BY Division
    <3> QED
      BY <1>4, <3>1, <3>2, <3>3
  <2>2. carry[5] \in Nat
    BY <1>4
  <2>3. carry[4] \in Nat
    BY <2>1, <2>2
  <2>4. carry[3] \in Nat
    BY <2>1, <2>3
  <2>5. carry[2] \in Nat
    BY <2>1, <2>4
  <2>6. carry[1] \in Nat
    BY <2>1, <2>5
  <2>7. \A i \in 1 .. 5 : carry[i] \in Nat
    <3>1. \A i \in 1 .. 5 : i = 1 \/ i = 2 \/ i = 3 \/ i = 4 \/ i = 5
      OBVIOUS
    <3> QED
      BY <2>2, <2>3, <2>4, <2>5, <2>6, <3>1
  <2>8. DOMAIN carry = 1 .. 5 /\ carry = [i \in 1 .. 5 |-> carry[i]]
    BY <1>2
  <2> QED
    BY <2>7, <2>8
<1> QED
  BY <1>3, <1>4, <1>5 DEF IsCarry

\* The product is a word, and its value is the product of the values, cut off at
\* 64 bits.
LEMMA TimesValue ==
  ASSUME NEW k \in Nat, NEW d \in Word
  PROVE  /\ Times(k, d) \in Word
         /\ ValueOf(d) \in Nat /\ ValueOf(d) < Modulus
         /\ ValueOf(Times(k, d)) = (k * ValueOf(d)) % Modulus
<1>1. PICK c \in [1 .. 5 -> Nat] : IsCarry(k, d, c)
  BY TimesDigits
<1> DEFINE t == Times(k, d)
<1>2. \A i \in 1 .. 4 : t[i] = (k * d[i] + c[i + 1]) % 65536
  BY <1>1 DEF IsCarry
<1>3. DOMAIN t = 1 .. 4 /\ t = [i \in 1 .. 4 |-> t[i]]
  BY <1>1 DEF IsCarry
<1> HIDE DEF t
<1>4. ASSUME NEW i \in 1 .. 4, NEW j \in 1 .. 5, j = i + 1
      PROVE  /\ k * d[i] \in Nat /\ c[i] \in Nat /\ c[j] \in Nat
             /\ t[i] \in Nat /\ t[i] < 65536
             /\ k * d[i] + c[j] = 65536 * c[i] + t[i]
  <2>1. PICK x \in Nat : x = k * d[i]
    BY Digits, NatProduct
  <2>2. PICK v \in Nat : v = c[j]
    OBVIOUS
  <2>3. PICK z \in Nat : z = x + v
    OBVIOUS
  <2>4. t[i] = z % 65536 /\ c[i] = z \div 65536
    BY <1>1, <1>2, <1>4, <2>1, <2>2, <2>3 DEF IsCarry
  <2>5. PICK u \in Nat, r \in Nat : u = z \div 65536 /\ r = z % 65536
    BY Division
  <2>6. z = 65536 * u + r /\ r < 65536
    BY <2>5, Division
  <2>7. x + v = 65536 * u + r
    BY <2>3, <2>6
  <2>8. c[i] = u /\ t[i] = r
    BY <2>4, <2>5
  <2> QED
    BY <2>1, <2>2, <2>6, <2>7, <2>8
<1>5. Times(k, d) \in Word
  <2>1. \A i \in 1 .. 4 : t[i] \in Digit
    <3> TAKE i \in 1 .. 4
    <3>1. i + 1 \in 1 .. 5
      OBVIOUS
    <3>2. t[i] \in Nat /\ t[i] < 65536
      BY <1>4, <3>1
    <3> QED
      BY <3>2, IsDigit
  <2> QED
    BY <1>3, <2>1 DEF Word, t
<1>6. PICK x1 \in Nat, x2 \in Nat, x3 \in Nat, x4 \in Nat :
         x1 = k * d[1] /\ x2 = k * d[2] /\ x3 = k * d[3] /\ x4 = k * d[4]
  <2>1. k * d[1] \in Nat /\ k * d[2] \in Nat
    BY <1>4
  <2>2. k * d[3] \in Nat /\ k * d[4] \in Nat
    BY <1>4
  <2> QED
    BY <2>1, <2>2
<1>7. PICK c1 \in Nat, c2 \in Nat, c3 \in Nat, c4 \in Nat :
         c1 = c[1] /\ c2 = c[2] /\ c3 = c[3] /\ c4 = c[4]
  OBVIOUS
<1>8. PICK r1 \in Nat, r2 \in Nat, r3 \in Nat, r4 \in Nat :
         /\ r1 = t[1] /\ r2 = t[2] /\ r3 = t[3] /\ r4 = t[4]
         /\ r1 < 65536 /\ r2 < 65536 /\ r3 < 65536 /\ r4 < 65536
  <2>1. t[1] \in Nat /\ t[1] < 65536
    BY <1>4
  <2>2. t[2] \in Nat /\ t[2] < 65536
    BY <1>4
  <2>3. t[3] \in Nat /\ t[3] < 65536
    BY <1>4
  <2>4. t[4] \in Nat /\ t[4] < 65536
    BY <1>4
  <2> QED
    BY <2>1, <2>2, <2>3, <2>4
<1>9. /\ x1 + c2 = 65536 * c1 + r1 /\ x2 + c3 = 65536 * c2 + r2
      /\ x3 + c4 = 65536 * c3 + r3 /\ x4 = 65536 * c4 + r4
  <2>1. k * d[1] + c[2] = 65536 * c[1] + t[1]
    BY <1>4
  <2>2. k * d[2] + c[3] = 65536 * c[2] + t[2]
    BY <1>4
  <2>3. k * d[3] + c[4] = 65536 * c[3] + t[3]
    BY <1>4
  <2>4. k * d[4] + c[5] = 65536 * c[4] + t[4]
    BY <1>4
  <2>5. c[5] = 0
    BY <1>1 DEF IsCarry
  <2> QED
    BY <1>6, <1>7, <1>8, <2>1, <2>2, <2>3, <2>4, <2>5
<1>10. PICK d1 \in Nat, d2 \in Nat, d3 \in Nat, d4 \in Nat :
         /\ d1 = d[1] /\ d2 = d[2] /\ d3 = d[3] /\ d4 = d[4]
         /\ d1 < 65536 /\ d2 < 65536 /\ d3 < 65536 /\ d4 < 65536
  BY Digits
<1>11. PICK a \in Nat : a = ValueOf(d) /\ a = ((d1 * 65536 + d2) * 65536 + d3) * 65536 + d4
  BY <1>10 DEF ValueOf
<1>12. PICK b \in Nat : b = ValueOf(t) /\ b = ((r1 * 65536 + r2) * 65536 + r3) * 65536 + r4
  BY <1>8 DEF ValueOf
<1>13. a < 18446744073709551616 /\ b < 18446744073709551616
  <2>1. a < 18446744073709551616
    BY <1>10, <1>11
  <2>2. b < 18446744073709551616
    BY <1>8, <1>12
  <2> QED
    BY <2>1, <2>2
<1>14. k * a = ((x1 * 65536 + x2) * 65536 + x3) * 65536 + x4
  <2>1. k * d1 = x1 /\ k * d2 = x2 /\ k * d3 = x3 /\ k * d4 = x4
    BY <1>6, <1>10
  <2>2. k * a = (((k * d1) * 65536 + k * d2) * 65536 + k * d3) * 65536 + k * d4
    BY <1>11
  <2> QED
    BY <2>1, <2>2
<1>15. k * a = 18446744073709551616 * c1 + b
  <2>2. b = ((r1 * 65536 + r2) * 65536 + r3) * 65536 + r4
    BY <1>12
  <2> QED
    BY <1>9, <1>14, <2>2
<1>16. (18446744073709551616 * c1 + b) % 18446744073709551616 = b
  BY <1>13
<1> QED
  BY <1>5, <1>11, <1>12, <1>13, <1>15, <1>16 DEF Modulus, t

\* Words with one value are one word; they are ordered by their values; the
\* first bit is the sign.
LEMMA WordOrder ==
  ASSUME NEW d \in Word, NEW e \in Word
  PROVE  /\ ValueOf(d) = ValueOf(e) => d = e
         /\ Less(d, e) <=> ValueOf(d) < ValueOf(e)
         /\ Negative(d) <=> ValueOf(d) >= 9223372036854775808
<1>1. PICK d1 \in Nat, d2 \in Nat, d3 \in Nat, d4 \in Nat :
         /\ d1 = d[1] /\ d2 = d[2] /\ d3 = d[3] /\ d4 = d[4]
         /\ d1 < 65536 /\ d2 < 65536 /\ d3 < 65536 /\ d4 < 65536
  BY Digits
<1>2. PICK e1 \in Nat, e2 \in Nat, e3 \in Nat, e4 \in Nat :
         /\ e1 = e[1] /\ e2 = e[2] /\ e3 = e[3] /\ e4 = e[4]
         /\ e1 < 65536 /\ e2 < 65536 /\ e3 < 65536 /\ e4 < 65536
  BY Digits
<1>3. PICK a \in Nat : a = ValueOf(d) /\ a = ((d1 * 65536 + d2) * 65536 + d3) * 65536 + d4
  BY <1>1 DEF ValueOf
<1>4. PICK b \in Nat : b = ValueOf(e) /\ b = ((e1 * 65536 + e2) * 65536 + e3) * 65536 + e4
  BY <1>2 DEF ValueOf
<1>11. /\ d1 < 65536 /\ d2 < 65536 /\ d3 < 65536 /\ d4 < 65536
       /\ e1 < 65536 /\ e2 < 65536 /\ e3 < 65536 /\ e4 < 65536
       /\ a = ((d1 * 65536 + d2) * 65536 + d3) * 65536 + d4
       /\ b = ((e1 * 65536 + e2) * 65536 + e3) * 65536 + e4
  BY <1>1, <1>2, <1>3, <1>4
<1>5. a = b => d1 = e1 /\ d2 = e2 /\ d3 = e3 /\ d4 = e4
  BY <1>11
<1>6. a < b <=> \/ d1 < e1
                \/ d1 = e1 /\ d2 < e2
                \/ d1 = e1 /\ d2 = e2 /\ d3 < e3
                \/ d1 = e1 /\ d2 = e2 /\ d3 = e3 /\ d4 < e4
  BY <1>11
<1>7. d1 >= 32768 <=> a >= 9223372036854775808
  BY <1>11
<1>8. d[1] = e[1] /\ d[2] = e[2] /\ d[3] = e[3] /\ d[4] = e[4] => d = e
  <2> SUFFICES ASSUME d[1] = e[1], d[2] = e[2], d[3] = e[3], d[4] = e[4] PROVE d = e
    OBVIOUS
  <2>1. ASSUME NEW i \in 1 .. 4 PROVE d[i] = e[i]
    <3>1. i = 1 \/ i = 2 \/ i = 3 \/ i = 4
      OBVIOUS
    <3> QED
      BY <3>1
  <2> QED
    BY <2>1 DEF Word
<1>9. Less(d, e) <=> \/ d[1] < e[1]
                     \/ d[1] = e[1] /\ d[2] < e[2]
                     \/ d[1] = e[1] /\ d[2] = e[2] /\ d[3] < e[3]
                     \/ d[1] = e[1] /\ d[2] = e[2] /\ d[3] = e[3] /\ d[4] < e[4]
  <2> DEFINE at(i) == d[i] < e[i] /\ \A j \in 1 .. i - 1 : d[j] = e[j]
  <2>1. at(1) <=> d[1] < e[1]
    OBVIOUS
  <2>2. at(2) <=> d[1] = e[1] /\ d[2] < e[2]
    OBVIOUS
  <2>3. at(3) <=> d[1] = e[1] /\ d[2] = e[2] /\ d[3] < e[3]
    OBVIOUS
  <2>4. at(4) <=> d[1] = e[1] /\ d[2] = e[2] /\ d[3] = e[3] /\ d[4] < e[4]
    OBVIOUS
  <2>5. Less(d, e) <=> at(1) \/ at(2) \/ at(3) \/ at(4)
    <3>1. Less(d, e) <=> \E i \in 1 .. 4 : at(i)
      BY DEF Less
    <3> HIDE DEF at
    <3>2. \A i \in 1 .. 4 : i = 1 \/ i = 2 \/ i = 3 \/ i = 4
      OBVIOUS
    <3> QED
      BY <3>1, <3>2
  <2> HIDE DEF at
  <2> QED
    BY <2>1, <2>2, <2>3, <2>4, <2>5
<1>10. Negative(d) <=> d1 >= 32768
  BY <1>1 DEF Negative
<1> QED
  BY <1>1, <1>2, <1>3, <1>4, <1>5, <1>6, <1>7, <1>8, <1>9, <1>10

-----------------------------------------------------------------------------
(* The doublings of a second                                                *)

\* A set of natural numbers has a least element.
LEMMA LeastNumber ==
  ASSUME NEW S \in SUBSET Nat, S # {}
  PROVE  \E x \in S : \A y \in S : x <= y
<1> DEFINE less == OpToRel(<, Nat)
<1>1. IsWellFoundedOn(less, Nat)
  BY NatLessThanWellFounded
<1>2. \A x, y \in Nat : y < x => <<y, x>> \in less
  BY Zenon DEF OpToRel
<1> HIDE DEF less
<1>3. PICK x \in S : \A y \in S : ~(<<y, x>> \in less)
  BY <1>1, WFMin
<1>4. \A y \in S : ~(y < x)
  BY <1>2, <1>3
<1> QED
  BY <1>3, <1>4

\* A set of numbers up to m that holds 0 and with each its successor is whole.
LEMMA Ascent ==
  ASSUME NEW m \in Nat, NEW T, 0 \in T, \A n \in 0 .. m : n \in T /\ n < m => n + 1 \in T
  PROVE  0 .. m \subseteq T
<1> DEFINE S == {n \in 0 .. m : n \notin T}
<1> SUFFICES ASSUME S # {} PROVE FALSE
  OBVIOUS
<1>1. S \in SUBSET Nat
  OBVIOUS
<1> HIDE DEF S
<1>2. PICK n \in S : \A k \in S : n <= k
  BY <1>1, LeastNumber
<1>3. n \in 0 .. m /\ n \notin T
  BY DEF S
<1>4. n # 0 /\ n - 1 \in 0 .. m /\ n - 1 < m /\ (n - 1) + 1 = n
  BY <1>3
<1>5. n - 1 \notin S
  BY <1>2, <1>4
<1>6. n - 1 \in T
  BY <1>4, <1>5 DEF S
<1> QED
  BY <1>3, <1>4, <1>6

\* f lists the doublings of a second, up to the n-th.
IsDoubling(n, f) == f = [i \in 0 .. n |-> IF i = 0 THEN Second ELSE Times(2, f[i - 1])]

\* A second is a thousand million nanoseconds.
LEMMA SecondIsWord == Second \in Word /\ ValueOf(Second) = 1000000000
<1>1. /\ Second[1] = 0 /\ Second[2] = 0 /\ Second[3] = 15258 /\ Second[4] = 51712
      /\ DOMAIN Second = 1 .. 4
  BY DEF Second
<1>2. ASSUME NEW i \in 1 .. 4 PROVE Second[i] \in Digit
  <2>1. i = 1 \/ i = 2 \/ i = 3 \/ i = 4
    OBVIOUS
  <2>2. PICK x \in Nat : x = Second[i] /\ x < 65536
    BY <1>1, <2>1
  <2> QED
    BY <2>2, IsDigit
<1>3. Second = [i \in 1 .. 4 |-> Second[i]]
  BY <1>1, <1>1 DEF Second
<1> QED
  BY <1>1, <1>2, <1>3 DEF Word, ValueOf

\* The doublings can be listed, up to any shift the code makes in 64 bits.
LEMMA DoublingExists == \A n \in 0 .. 62 : \E f : IsDoubling(n, f)
<1> DEFINE T == {n \in 0 .. 62 : \E f : IsDoubling(n, f)}
<1>1. 0 \in T
  <2>1. IsDoubling(0, [i \in 0 .. 0 |-> Second])
    BY DEF IsDoubling
  <2> QED
    BY <2>1
<1>2. ASSUME NEW n \in 0 .. 62, n \in T, n < 62 PROVE n + 1 \in T
  <2>1. PICK f : f = [i \in 0 .. n |-> IF i = 0 THEN Second ELSE Times(2, f[i - 1])]
    BY <1>2 DEF IsDoubling
  <2> DEFINE g == [i \in 0 .. n + 1 |-> IF i = n + 1 THEN Times(2, f[n]) ELSE f[i]]
             h == [i \in 0 .. n + 1 |-> IF i = 0 THEN Second ELSE Times(2, g[i - 1])]
  <2>2. ASSUME NEW i \in 0 .. n + 1 PROVE g[i] = h[i]
    <3>1. CASE i = 0
      BY <2>1, <3>1
    <3>2. CASE i = n + 1
      <4>1. g[i] = Times(2, f[n]) /\ h[i] = Times(2, g[n]) /\ g[n] = f[n]
        BY <3>2
      <4> QED
        BY <4>1
    <3>3. CASE i \in 1 .. n
      <4>1. g[i] = f[i] /\ h[i] = Times(2, g[i - 1]) /\ g[i - 1] = f[i - 1]
        BY <3>3
      <4>2. f[i] = Times(2, f[i - 1])
        BY <2>1, <3>3
      <4> QED
        BY <4>1, <4>2
    <3> QED
      BY <3>1, <3>2, <3>3
  <2>3. g = h
    BY <2>2
  <2>4. IsDoubling(n + 1, g)
    BY <2>3, Zenon DEF IsDoubling
  <2> QED
    BY <1>2, <2>4
<1> HIDE DEF T
<1>3. 0 .. 62 \subseteq T
  BY <1>1, <1>2, Ascent
<1> QED
  BY <1>3 DEF T

\* The recursive function is defined.
LEMMA PowerDefined ==
  /\ Power[0] = Second
  /\ \A n \in 0 .. 61 : Power[n + 1] = Times(2, Power[n])
<1>1. Power = CHOOSE f : IsDoubling(62, f)
  BY Zenon DEF Power, IsDoubling
<1>2. \E f : IsDoubling(62, f)
  BY DoublingExists
<1>3. IsDoubling(62, Power)
  BY <1>1, <1>2, Zenon
<1> QED
  BY <1>3 DEF IsDoubling

\* Every doubling is a word, of twice the value as long as that fits.
LEMMA Doubled ==
  /\ \A n \in 0 .. 62 : Power[n] \in Word
  /\ \A n \in 0 .. 61 : ValueOf(Power[n + 1]) = (2 * ValueOf(Power[n])) % Modulus
<1> DEFINE T == {n \in 0 .. 62 : Power[n] \in Word}
<1>1. 0 \in T
  BY PowerDefined, SecondIsWord
<1>2. ASSUME NEW n \in 0 .. 62, n \in T, n < 62 PROVE n + 1 \in T
  <2>1. Power[n + 1] = Times(2, Power[n])
    BY <1>2, PowerDefined
  <2>2. Power[n] \in Word
    BY <1>2
  <2>3. Times(2, Power[n]) \in Word
    BY <2>2, TimesValue
  <2>4. n + 1 \in 0 .. 62
    BY <1>2
  <2> QED
    BY <2>1, <2>3, <2>4
<1> HIDE DEF T
<1>3. 0 .. 62 \subseteq T
  BY <1>1, <1>2, Ascent
<1>4. \A n \in 0 .. 62 : Power[n] \in Word
  BY <1>3 DEF T
<1>5. ASSUME NEW n \in 0 .. 61
      PROVE  ValueOf(Power[n + 1]) = (2 * ValueOf(Power[n])) % Modulus
  <2>1. Power[n + 1] = Times(2, Power[n])
    BY PowerDefined
  <2>2. PICK d \in Word : d = Power[n]
    BY <1>4
  <2>3. ValueOf(Times(2, d)) = (2 * ValueOf(d)) % Modulus
    BY TimesValue
  <2> QED
    BY <2>1, <2>2, <2>3, Zenon
<1> QED
  BY <1>4, <1>5

\* One step of it, for numbers that are known.
LEMMA NextValue ==
  ASSUME NEW n \in 0 .. 61, NEW v \in Nat, ValueOf(Power[n]) = v, v < Modulus
  PROVE  ValueOf(Power[n + 1]) = IF 2 * v < Modulus THEN 2 * v ELSE 2 * v - Modulus
<1>1. (2 * v) % 18446744073709551616 = IF 2 * v < 18446744073709551616 THEN 2 * v
                                       ELSE 2 * v - 18446744073709551616
  <2>1. v < 18446744073709551616
    BY DEF Modulus
  <2>2. CASE 2 * v < 18446744073709551616
    BY <2>2
  <2>3. CASE ~(2 * v < 18446744073709551616)
    BY <2>1, <2>3
  <2> QED
    BY <2>2, <2>3
<1> QED
  BY <1>1, Doubled DEF Modulus

\* The n-th doubling is p seconds, and that is 2^n.
Lasts(n, p) == p = 2 ^ n /\ ValueOf(Power[n]) = p * 1000000000

\* Up to 2^15 seconds the powers last; the cap is not longer than that.
LEMMA FirstPowers ==
  /\ Lasts(0, 1) /\ Lasts(1, 2) /\ Lasts(2, 4) /\ Lasts(3, 8)
  /\ Lasts(4, 16) /\ Lasts(5, 32) /\ Lasts(6, 64) /\ Lasts(7, 128)
  /\ Lasts(8, 256) /\ Lasts(9, 512) /\ Lasts(10, 1024) /\ Lasts(11, 2048)
  /\ Lasts(12, 4096) /\ Lasts(13, 8192) /\ Lasts(14, 16384) /\ Lasts(15, 32768)
<1>1. /\ Lasts(0, 1) /\ Lasts(1, 2) /\ Lasts(2, 4) /\ Lasts(3, 8)
  BY NextValue, PowerDefined, SecondIsWord DEF Modulus, Lasts
<1>2. /\ Lasts(4, 16) /\ Lasts(5, 32) /\ Lasts(6, 64) /\ Lasts(7, 128)
  BY NextValue, <1>1 DEF Modulus, Lasts
<1>3. /\ Lasts(8, 256) /\ Lasts(9, 512) /\ Lasts(10, 1024) /\ Lasts(11, 2048)
  BY NextValue, <1>2 DEF Modulus, Lasts
<1>4. /\ Lasts(12, 4096) /\ Lasts(13, 8192) /\ Lasts(14, 16384) /\ Lasts(15, 32768)
  BY NextValue, <1>3 DEF Modulus, Lasts
<1> QED
  BY <1>1, <1>2, <1>3, <1>4

\* As long as a power fits, its value is 2^n seconds.
LEMMA NextPowers ==
  /\ ValueOf(Power[16]) = 65536000000000 /\ ValueOf(Power[17]) = 131072000000000
  /\ ValueOf(Power[18]) = 262144000000000 /\ ValueOf(Power[19]) = 524288000000000
  /\ ValueOf(Power[20]) = 1048576000000000 /\ ValueOf(Power[21]) = 2097152000000000
  /\ ValueOf(Power[22]) = 4194304000000000 /\ ValueOf(Power[23]) = 8388608000000000
  /\ ValueOf(Power[24]) = 16777216000000000 /\ ValueOf(Power[25]) = 33554432000000000
  /\ ValueOf(Power[26]) = 67108864000000000 /\ ValueOf(Power[27]) = 134217728000000000
  /\ ValueOf(Power[28]) = 268435456000000000 /\ ValueOf(Power[29]) = 536870912000000000
  /\ ValueOf(Power[30]) = 1073741824000000000 /\ ValueOf(Power[31]) = 2147483648000000000
  /\ ValueOf(Power[32]) = 4294967296000000000 /\ ValueOf(Power[33]) = 8589934592000000000
  /\ ValueOf(Power[34]) = 17179869184000000000
<1>1. /\ ValueOf(Power[16]) = 65536000000000 /\ ValueOf(Power[17]) = 131072000000000
      /\ ValueOf(Power[18]) = 262144000000000 /\ ValueOf(Power[19]) = 524288000000000
  BY NextValue, FirstPowers DEF Modulus, Lasts
<1>2. /\ ValueOf(Power[20]) = 1048576000000000 /\ ValueOf(Power[21]) = 2097152000000000
      /\ ValueOf(Power[22]) = 4194304000000000 /\ ValueOf(Power[23]) = 8388608000000000
  BY NextValue, <1>1 DEF Modulus
<1>3. /\ ValueOf(Power[24]) = 16777216000000000 /\ ValueOf(Power[25]) = 33554432000000000
      /\ ValueOf(Power[26]) = 67108864000000000 /\ ValueOf(Power[27]) = 134217728000000000
  BY NextValue, <1>2 DEF Modulus
<1>4. /\ ValueOf(Power[28]) = 268435456000000000 /\ ValueOf(Power[29]) = 536870912000000000
      /\ ValueOf(Power[30]) = 1073741824000000000 /\ ValueOf(Power[31]) = 2147483648000000000
  BY NextValue, <1>3 DEF Modulus
<1>5. /\ ValueOf(Power[32]) = 4294967296000000000 /\ ValueOf(Power[33]) = 8589934592000000000
      /\ ValueOf(Power[34]) = 17179869184000000000
  BY NextValue, <1>4 DEF Modulus
<1> QED
  BY <1>1, <1>2, <1>3, <1>4, <1>5

\* So there is a power for each of the first shifts.
LEMMA SmallPowers == \A n \in 0 .. 15 : \E p \in Nat \ {0} : Lasts(n, p)
<1> TAKE n \in 0 .. 15
<1>1. \/ n = 0 \/ n = 1 \/ n = 2 \/ n = 3 \/ n = 4 \/ n = 5 \/ n = 6 \/ n = 7
      \/ n = 8 \/ n = 9 \/ n = 10 \/ n = 11 \/ n = 12 \/ n = 13 \/ n = 14 \/ n = 15
  OBVIOUS
<1> QED
  BY <1>1, FirstPowers

\* Afterwards it is a multiple of 2^45, which is more than the longest cap.
Unit == 35184372088832

InUnits(m) == \E q \in Nat : ValueOf(Power[m]) = Unit * q

\* The value of the first such power; the one before no longer fits.
LEMMA FirstUnits == InUnits(36)
<1>1. ValueOf(Power[35]) = 15912994294290448384
  BY NextValue, NextPowers DEF Modulus
<1>2. ValueOf(Power[36]) = 13379244514871345152
  BY NextValue, <1>1 DEF Modulus
<1>3. PICK q \in Nat : q > 380260 /\ q < 380262
  OBVIOUS
<1>4. 13379244514871345152 = Unit * q
  BY <1>3 DEF Unit
<1>5. ValueOf(Power[36]) = Unit * q
  BY <1>2, <1>4
<1> QED
  BY <1>5, Zenon DEF InUnits

\* Units stay units when they are doubled, whatever is cut off.
LEMMA NextUnits ==
  ASSUME NEW m \in 36 .. 61, InUnits(m)
  PROVE  InUnits(m + 1)
<1>1. PICK q \in Nat : ValueOf(Power[m]) = Unit * q
  BY Zenon DEF InUnits
<1>2. m \in 0 .. 61 /\ m \in 0 .. 62
  OBVIOUS
<1>3. PICK d \in Word : d = Power[m]
  BY <1>2, Doubled
<1>4. PICK v \in Nat : v = ValueOf(d) /\ v < Modulus
  BY TimesValue
<1>5. ValueOf(Power[m + 1]) = IF 2 * v < Modulus THEN 2 * v ELSE 2 * v - Modulus
  BY <1>2, <1>3, <1>4, NextValue
<1>6. PICK u \in Nat : u = Unit
  BY DEF Unit
<1>7. v = u * q
  BY <1>1, <1>3, <1>4, <1>6
<1>8. PICK c \in Nat : Modulus = u * c
  <2>1. PICK c \in Nat : c > 524287 /\ c < 524289
    OBVIOUS
  <2>2. Modulus = Unit * c
    BY <2>1 DEF Modulus, Unit
  <2> QED
    BY <1>6, <2>2
<1>9. CASE 2 * v < Modulus
  <2>1. PICK p \in Nat : p = 2 * q
    OBVIOUS
  <2>2. 2 * v = u * p
    BY <1>7, <2>1
  <2>3. ValueOf(Power[m + 1]) = Unit * p
    BY <1>5, <1>6, <1>9, <2>2
  <2> QED
    BY <2>3, Zenon DEF InUnits
<1>10. CASE ~(2 * v < Modulus)
  <2>1. PICK p \in Int : p = 2 * q - c
    <3>1. 2 * q - c \in Int
      OBVIOUS
    <3> QED
      BY <3>1, Zenon
  <2>2. 2 * v - Modulus = u * p
    BY <1>7, <1>8, <2>1
  <2>3. p \in Nat
    <3>1. PICK b \in Nat : b = Modulus
      BY DEF Modulus
    <3>2. 2 * v - b >= 0 /\ 2 * v - b = u * p
      BY <1>10, <2>2, <3>1
    <3>3. 35184372088832 * p >= 0
      BY <1>6, <3>2 DEF Unit
    <3> QED
      BY <3>3
  <2>4. ValueOf(Power[m + 1]) = Unit * p
    BY <1>5, <1>6, <1>10, <2>2
  <2> QED
    BY <2>3, <2>4, Zenon DEF InUnits
<1> QED
  BY <1>9, <1>10

\* From the 36th on all powers are whole units.
LEMMA LatePowers == \A n \in 36 .. 62 : InUnits(n)
<1> DEFINE T == {n \in 0 .. 26 : InUnits(n + 36)}
<1>1. 0 \in T
  BY FirstUnits
<1>2. ASSUME NEW n \in 0 .. 26, n \in T, n < 26 PROVE n + 1 \in T
  <2>1. PICK m \in 36 .. 61 : m = n + 36
    BY <1>2
  <2>2. InUnits(m + 1)
    BY <1>2, <2>1, NextUnits
  <2>3. m + 1 = (n + 1) + 36 /\ n + 1 \in 0 .. 26
    BY <1>2, <2>1
  <2> QED
    BY <2>2, <2>3
<1> HIDE DEF T
<1>3. 0 .. 26 \subseteq T
  BY <1>1, <1>2, Ascent
<1>4. ASSUME NEW n \in 36 .. 62 PROVE InUnits(n)
  <2>1. n - 36 \in 0 .. 26 /\ (n - 36) + 36 = n
    OBVIOUS
  <2>2. n - 36 \in T
    BY <1>3, <2>1
  <2> QED
    BY <2>1, <2>2 DEF T
<1> QED
  BY <1>4

\* So the value of a large power is not that of a short wait.
LEMMA LargePowers ==
  \A n \in 16 .. 62 : ValueOf(Power[n]) = 0 \/ ValueOf(Power[n]) > 32767000000000
<1>1. ASSUME NEW n \in 36 .. 62
      PROVE  ValueOf(Power[n]) = 0 \/ ValueOf(Power[n]) > 32767000000000
  <2>1. PICK q \in Nat : ValueOf(Power[n]) = Unit * q
    BY LatePowers, Zenon DEF InUnits
  <2>2. q = 0 \/ 35184372088832 * q > 32767000000000
    OBVIOUS
  <2> QED
    BY <2>1, <2>2 DEF Unit
<1>2. ASSUME NEW n \in 16 .. 34
      PROVE  ValueOf(Power[n]) > 32767000000000
  BY NextPowers
<1>3. ValueOf(Power[35]) > 32767000000000
  BY NextValue, NextPowers DEF Modulus
<1>4. ASSUME NEW n \in 16 .. 62 PROVE n \in 36 .. 62 \/ n \in 16 .. 34 \/ n = 35
  OBVIOUS
<1> QED
  BY <1>1, <1>2, <1>3, <1>4

\* A wait of s seconds, as long as the cap allows.
LEMMA WaitValue ==
  ASSUME NEW s \in 1 .. Cap
  PROVE  Times(s, Second) \in Word /\ ValueOf(Times(s, Second)) = s * 1000000000
<1>1. PICK k \in Nat : k = s /\ k <= 32767
  BY CapAssumption
<1>2. Times(k, Second) \in Word /\ ValueOf(Times(k, Second)) = (k * 1000000000) % 18446744073709551616
  <2>1. ValueOf(Times(k, Second)) = (k * ValueOf(Second)) % Modulus
    BY TimesValue, SecondIsWord
  <2>2. Times(k, Second) \in Word
    BY TimesValue, SecondIsWord
  <2> QED
    BY <2>1, <2>2, SecondIsWord DEF Modulus
<1>3. (k * 1000000000) % 18446744073709551616 = k * 1000000000
  BY <1>1
<1> QED
  BY <1>1, <1>2, <1>3

\* The comparisons of the code see through the arithmetic.
LEMMA CappedValue ==
  ASSUME NEW d \in Word
  PROVE  Exceeds(d, Times(Cap, Second)) \/ Negative(d) \/ d = Zero
           <=> ValueOf(d) = 0 \/ ValueOf(d) > Cap * 1000000000
<1>1. PICK k \in Nat : k = Cap /\ k >= 1 /\ k <= 32767
  BY CapAssumption
<1>2. Times(Cap, Second) \in Word /\ ValueOf(Times(Cap, Second)) = k * 1000000000
  BY <1>1, WaitValue
<1>3. PICK v \in Nat : v = ValueOf(d)
  BY TimesValue
<1>4. Zero \in Word /\ ValueOf(Zero) = 0
  <2>1. /\ Zero[1] = 0 /\ Zero[2] = 0 /\ Zero[3] = 0 /\ Zero[4] = 0 /\ DOMAIN Zero = 1 .. 4
        /\ Zero = [i \in 1 .. 4 |-> Zero[i]]
    BY DEF Zero
  <2>2. ASSUME NEW i \in 1 .. 4 PROVE Zero[i] \in Digit
    <3>1. i = 1 \/ i = 2 \/ i = 3 \/ i = 4
      OBVIOUS
    <3>2. Zero[i] = 0
      BY <2>1, <3>1
    <3>3. 0 \in Digit
      BY IsDigit
    <3> QED
      BY <3>2, <3>3
  <2> QED
    BY <2>1, <2>2 DEF Word, ValueOf
<1>5. d = Zero <=> v = 0
  BY <1>3, <1>4, WordOrder
<1>6. Negative(d) <=> v >= 9223372036854775808
  BY <1>3, WordOrder
<1>7. Less(Times(Cap, Second), d) <=> k * 1000000000 < v
  BY <1>2, <1>3, WordOrder
<1>8. k * 1000000000 < 9223372036854775808
  BY <1>1
<1> QED
  BY <1>1, <1>3, <1>5, <1>6, <1>7, <1>8 DEF Exceeds

\* A product that has not wrapped is the wait it stands for.
LEMMA SecondsValue ==
  ASSUME NEW d \in Word, NEW s \in 1 .. Cap, ValueOf(d) = s * 1000000000
  PROVE  Seconds(d) = s
<1>1. Times(s, Second) = d
  BY WaitValue, WordOrder
<1>2. ASSUME NEW t \in 1 .. Cap, Times(t, Second) = d PROVE t = s
  <2>1. PICK a \in Nat, b \in Nat : a = t /\ b = s
    BY CapAssumption
  <2>2. a * 1000000000 = b * 1000000000
    BY <1>2, <2>1, WaitValue
  <2>3. a = b
    BY <2>2
  <2> QED
    BY <2>1, <2>3
<1> QED
  BY <1>1, <1>2 DEF Seconds

\* What backoff returns, in spite of its arithmetic: 2^n seconds or the cap,
\* whichever is less (queue.go: backoff).
THEOREM BackoffCorrect ==
  ASSUME NEW n \in Nat, n >= 1
  PROVE  BackoffOf(n) = {IF n < 16 /\ 2 ^ n < Cap THEN 2 ^ n ELSE Cap}
<1> DEFINE wait(d) == IF Exceeds(d, Times(Cap, Second)) \/ Negative(d) \/ d = Zero THEN Cap
                      ELSE Seconds(d)
<1>1. BackoffOf(n) = {wait(d) : d \in Product(n)}
  BY Zenon DEF BackoffOf
<1>2. CASE n >= 63
  <2>1. Product(n) = {Zero, MinusSecond}
    BY <1>2 DEF Product
  <2>2. wait(Zero) = Cap
    OBVIOUS
  <2>3. Negative(MinusSecond)
    BY DEF Negative, MinusSecond
  <2>4. wait(MinusSecond) = Cap
    BY <2>3
  <2> HIDE DEF wait
  <2>5. BackoffOf(n) = {Cap}
    BY <1>1, <2>1, <2>2, <2>4
  <2> QED
    BY <1>2, <2>5
<1>3. CASE n < 63
  <2>1. Product(n) = {Power[n]}
    BY <1>3 DEF Product
  <2>2. PICK d \in Word : d = Power[n]
    BY <1>3, Doubled
  <2>3. BackoffOf(n) = {wait(d)}
    BY <1>1, <2>1, <2>2, SMT
  <2>4. PICK c \in Nat : c = Cap /\ c >= 1 /\ c <= 32767
    BY CapAssumption
  <2>5. CASE n >= 16
    <3>1. n \in 16 .. 62
      BY <1>3, <2>5
    <3>2. ValueOf(d) = 0 \/ ValueOf(d) > 32767000000000
      BY <2>2, <3>1, LargePowers
    <3>3. PICK v \in Nat : v = ValueOf(d)
      BY TimesValue
    <3>4. v = 0 \/ v > c * 1000000000
      BY <2>4, <3>2, <3>3
    <3>5. wait(d) = Cap
      BY <2>4, <3>3, <3>4, CappedValue
    <3> HIDE DEF wait
    <3> QED
      BY <2>3, <2>5, <3>5
  <2>6. CASE n < 16
    <3>1. n \in 0 .. 15
      BY <2>6
    <3>2. PICK p \in Nat \ {0} : Lasts(n, p)
      BY <3>1, SmallPowers, Zenon
    <3>5. p = 2 ^ n
      BY <3>2 DEF Lasts
    <3>6. ValueOf(d) = p * 1000000000
      BY <2>2, <3>2 DEF Lasts
    <3>3. CASE p <= c
      <4>1. ~(p * 1000000000 = 0) /\ ~(p * 1000000000 > c * 1000000000)
        BY <3>3
      <4>2. wait(d) = Seconds(d)
        BY <2>4, <3>6, <4>1, CappedValue
      <4>3. p \in 1 .. Cap
        BY <2>4, <3>3
      <4>4. Seconds(d) = p
        BY <3>6, <4>3, SecondsValue
      <4> HIDE DEF wait
      <4>5. BackoffOf(n) = {p}
        BY <2>3, <4>2, <4>4
      <4> QED
        BY <2>4, <2>6, <3>5, <3>3, <4>5
    <3>4. CASE p > c
      <4>1. p * 1000000000 > c * 1000000000
        BY <3>4
      <4>2. wait(d) = Cap
        BY <2>4, <3>6, <4>1, CappedValue
      <4> HIDE DEF wait
      <4>3. BackoffOf(n) = {c}
        BY <2>3, <2>4, <4>2
      <4> QED
        BY <2>4, <3>5, <3>4, <4>3
    <3> QED
      BY <3>3, <3>4
  <2> QED
    BY <2>5, <2>6
<1> QED
  BY <1>2, <1>3

-----------------------------------------------------------------------------
(* The schedule                                                             *)

\* The wait after a failure stays below the cap.
LEMMA BackoffBounds ==
  ASSUME NEW n \in Nat, n >= 1
  PROVE  BackoffOf(n) \subseteq 1 .. Cap
<1>1. PICK c \in Nat : c = Cap /\ c >= 1
  BY CapAssumption
<1>2. CASE n < 16
  <2>1. n \in 0 .. 15
    BY <1>2
  <2>2. PICK p \in Nat \ {0} : Lasts(n, p)
    BY <2>1, SmallPowers, Zenon
  <2>3. p = 2 ^ n
    BY <2>2 DEF Lasts
  <2>4. BackoffOf(n) = {IF p < c THEN p ELSE c}
    BY <1>1, <1>2, <2>3, BackoffCorrect
  <2>5. (IF p < c THEN p ELSE c) \in 1 .. c
    BY <1>1
  <2> QED
    BY <1>1, <2>4, <2>5
<1>3. CASE n >= 16
  <2>1. BackoffOf(n) = {c}
    BY <1>1, <1>3, BackoffCorrect
  <2> QED
    BY <1>1, <2>1
<1> QED
  BY <1>2, <1>3

\* An operation that has failed is still one.
LEMMA PostponedType ==
  ASSUME NEW op \in Operation
  PROVE  Postponed(op) \subseteq Operation
<1>1. Attempt(op) \in 0 .. MaxAttempts /\ Attempt(op) \in Nat /\ Attempt(op) >= 1
  BY ScheduleAssumption DEF Operation, Attempt
<1>2. BackoffOf(Attempt(op)) \subseteq 1 .. Cap
  BY <1>1, BackoffBounds
<1> DEFINE After(wait, late) == [op EXCEPT !.attempts = Attempt(op), !.wait = wait + late]
<1>3. ASSUME NEW wait \in BackoffOf(Attempt(op)), NEW late \in 0 .. Delay
      PROVE  After(wait, late) \in Operation
  <2>1. PICK c \in Nat : c = Cap
    BY CapAssumption
  <2>2. wait \in 1 .. c
    BY <1>2, <2>1
  <2>3. wait + late \in 0 .. c + Delay
    BY <2>2, ScheduleAssumption
  <2> QED
    BY <1>1, <2>1, <2>3 DEF Operation
<1>4. Postponed(op) = {After(wait, late) : wait \in BackoffOf(Attempt(op)), late \in 0 .. Delay}
  BY DEF Postponed
<1> HIDE DEF After
<1> QED
  BY <1>3, <1>4

\* A drain only removes operations and postpones one.
LEMMA DrainType ==
  ASSUME queue \subseteq Operation, Drain
  PROVE  queue' \subseteq Operation
<1>1. CASE queue' = queue \ Due
  BY <1>1
<1>2. ASSUME NEW op \in Failing, NEW late \in Postponed(op),
             queue' = (queue \ (Before(op) \cup {op})) \cup {late}
      PROVE  queue' \subseteq Operation
  <2>1. op \in Operation
    BY DEF Failing, Due
  <2>2. late \in Operation
    BY <2>1, PostponedType
  <2> QED
    BY <1>2, <2>2
<1> QED
  BY <1>1, <1>2 DEF Drain

\* Operations of a call are.
LEMMA CallType ==
  ASSUME TypeOK, NEW ops \in Calls, Call(ops)
  PROVE  TypeOK'
<1>1. ops \in Seq(BOOLEAN) /\ Len(ops) \in Nat /\ DOMAIN ops = 1 .. Len(ops)
  BY ScheduleAssumption
<1>2. ASSUME NEW i \in DOMAIN ops
      PROVE  [id |-> nextId + i - 1, good |-> ops[i], attempts |-> 0, wait |-> 0] \in Operation
  <2>1. nextId + i - 1 \in Nat /\ ops[i] \in BOOLEAN
    BY <1>1 DEF TypeOK
  <2>2. 0 \in 0 .. MaxAttempts
    BY ScheduleAssumption
  <2>3. 0 \in 0 .. Cap + Delay
    BY CapAssumption, ScheduleAssumption
  <2> QED
    BY <2>1, <2>2, <2>3 DEF Operation
<1>3. queue' \subseteq Operation
  BY <1>2 DEF Call, TypeOK
<1>4. nextId' \in Nat /\ calls' \in 0 .. MaxCalls
  BY <1>1, ScheduleAssumption DEF Call, TypeOK
<1> QED
  BY <1>3, <1>4 DEF Call, TypeOK

\* The queue holds operations, and none waits longer than the cap and the time
\* that a failing drain takes (queue.go: Enqueue, MarkFailure; push.go:
\* drainOnce).
THEOREM TypeCorrect == Spec => []TypeOK
<1>1. Init => TypeOK
  <2> SUFFICES ASSUME Init PROVE TypeOK
    OBVIOUS
  <2>1. Interval \in 0 .. Interval /\ 0 \in 0 .. MaxCalls
    BY ScheduleAssumption
  <2>2. queue \subseteq Operation
    BY DEF Init
  <2> QED
    BY <2>1, <2>2 DEF Init, TypeOK
<1>2. TypeOK /\ [Next]_vars => TypeOK'
  <2> SUFFICES ASSUME TypeOK, [Next]_vars PROVE TypeOK'
    OBVIOUS
  <2>1. ASSUME NEW ops \in Calls, Call(ops) PROVE TypeOK'
    BY <2>1, CallType
  <2>2. CASE Tick
    BY <2>2, DrainType, ScheduleAssumption DEF Tick, TypeOK
  <2>3. CASE Triggered
    BY <2>3, DrainType DEF Triggered, TypeOK
  <2>4. CASE Advance
    <3>1. ASSUME NEW op \in Operation
          PROVE  [op EXCEPT !.wait = IF @ = 0 THEN 0 ELSE @ - 1] \in Operation
      <4>1. PICK m \in Nat : m = Cap + Delay
        BY CapAssumption, ScheduleAssumption
      <4>2. op.wait \in 0 .. m
        BY <4>1 DEF Operation
      <4>3. (IF op.wait = 0 THEN 0 ELSE op.wait - 1) \in 0 .. m
        BY <4>2
      <4> QED
        BY <4>1, <4>3 DEF Operation
    <3>2. queue' \subseteq Operation
      BY <2>4, <3>1 DEF Advance, TypeOK
    <3>3. timer' \in 0 .. Interval
      BY <2>4, ScheduleAssumption DEF Advance, TypeOK
    <3> QED
      BY <2>4, <3>2, <3>3 DEF Advance, TypeOK
  <2>5. CASE FlipNetwork
    BY <2>5 DEF FlipNetwork, TypeOK
  <2>6. CASE UNCHANGED vars
    BY <2>6 DEF vars, TypeOK
  <2> QED
    BY <2>1, <2>2, <2>3, <2>4, <2>5, <2>6 DEF Next, Engine
<1> QED
  BY <1>1, <1>2, PTL DEF Spec

\* No operation reaches a number of attempts whose wait is another than 2^n
\* seconds or the cap, for any cap up to nine hours
\* (queue.go: backoff).
THEOREM BackoffKept == Spec => []BackoffCapped
<1>1. Miscapped = {}
  <2>1. ASSUME NEW n \in 1 .. 80
        PROVE  BackoffOf(n) = {IF n < 16 /\ 2 ^ n < Cap THEN 2 ^ n ELSE Cap}
    <3>1. n \in Nat /\ n >= 1
      OBVIOUS
    <3> QED
      BY <3>1, BackoffCorrect, Zenon
  <2> QED
    BY <2>1, Zenon DEF Miscapped
<1>2. BackoffCapped
  BY <1>1 DEF BackoffCapped
<1> QED
  BY <1>2, PTL
=============================================================================
