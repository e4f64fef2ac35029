-------------------------- MODULE OperationsProofs --------------------------
(***************************************************************************)
(* Why the instructions compute what the C++ expression denotes, for every *)
(* size of byte and word.  The bits of an integer are its number modulo    *)
(* two to the width of its type; every operator takes operands of which    *)
(* that is true to a result of which it is.  The first half is about       *)
(* powers of two, remainders, quotients and digits, the second has a lemma *)
(* for each operator, and one for each action.                             *)
(***************************************************************************)
EXTENDS Operations, SequenceTheorems, WellFoundedInduction, TLAPS

-----------------------------------------------------------------------------
(* Functions defined step by step.  Induction is over a set of naturals,   *)
(* so that it can be cited for a set defined where it is needed.           *)

LEMMA LeastNatural ==
  ASSUME NEW T, T \subseteq Nat, T # {}
  PROVE  \E x \in T : \A y \in T : x <= y
<1> DEFINE R == OpToRel(<, Nat)
<1>1. IsWellFoundedOn(R, Nat) BY NatLessThanWellFounded
<1>2. \A x, y \in Nat : x < y => <<x, y>> \in R BY DEF OpToRel
<1>. HIDE DEF R
<1>3. PICK x \in T : \A y \in T : ~(<<y, x>> \in R) BY <1>1, WFMin
<1>4. \A y \in T : x <= y
  <2>. SUFFICES ASSUME NEW y \in T, ~(x <= y) PROVE FALSE OBVIOUS
  <2>1. x \in Nat /\ y \in Nat OBVIOUS
  <2>2. y < x BY <2>1
  <2>. QED BY <1>2, <1>3, <2>1, <2>2
<1>. QED BY <1>4

LEMMA NatSetInduction ==
  ASSUME NEW S, 0 \in S, \A n \in Nat : n \in S => n + 1 \in S
  PROVE  Nat \subseteq S
<1>1. SUFFICES ASSUME Nat \ S # {} PROVE FALSE OBVIOUS
<1>2. PICK x \in Nat \ S : \A y \in Nat \ S : x <= y BY <1>1, LeastNatural
<1>3. x # 0 OBVIOUS
<1>4. x - 1 \in Nat /\ ~(x <= x - 1) /\ (x - 1) + 1 = x BY <1>3
<1>. QED BY <1>2, <1>4

(* A function that is given its first value and, for every later one, how  *)
(* it follows from the one before.                                         *)
Stepwise(h, N, first, G) == h[0] = first /\ \A n \in 1..N : h[n] = G[n][h[n - 1]]

LEMMA StepwiseFunction ==
  ASSUME NEW N \in Nat, NEW X, NEW first \in X, NEW G \in [1..N -> [X -> X]]
  PROVE  \E h \in [0..N -> X] : Stepwise(h, N, first, G)
<1> DEFINE S == {m \in Nat : m <= N => \E h \in [0..m -> X] : Stepwise(h, m, first, G)}
<1>1. 0 \in S
  <2>1. [n \in 0..0 |-> first] \in [0..0 -> X]
      /\ Stepwise([n \in 0..0 |-> first], 0, first, G)
    BY DEF Stepwise
  <2>. QED BY <2>1
<1>2. ASSUME NEW m \in Nat, m \in S PROVE m + 1 \in S
  <2>1. SUFFICES ASSUME m + 1 <= N PROVE \E h \in [0..m + 1 -> X] : Stepwise(h, m + 1, first, G) OBVIOUS
  <2>2. PICK h \in [0..m -> X] : Stepwise(h, m, first, G) BY <1>2, <2>1
  <2> DEFINE value == G[m + 1][h[m]]
             k == [n \in 0..m + 1 |-> IF n = m + 1 THEN value ELSE h[n]]
  <2>3. h[m] \in X /\ m + 1 \in 1..N BY <2>1
  <2>4. value \in X BY <2>3
  <2>5. k \in [0..m + 1 -> X] BY <2>4
  <2>6. \A n \in 0..m : k[n] = h[n] OBVIOUS
  <2>7. k[m + 1] = value OBVIOUS
  <2>. HIDE DEF k
  <2>8. ASSUME NEW n \in 1..m + 1 PROVE k[n] = G[n][k[n - 1]]
    <3>1. CASE n = m + 1
      <4>1. n - 1 = m /\ k[m] = h[m] BY <2>6, <3>1
      <4>. QED BY <2>7, <3>1, <4>1
    <3>2. CASE n # m + 1
      <4>1. n \in 1..m /\ n \in 0..m /\ n - 1 \in 0..m BY <3>2
      <4>. QED BY <2>2, <2>6, <4>1 DEF Stepwise
    <3>. QED BY <3>1, <3>2
  <2>9. k[0] = first BY <2>2, <2>6 DEF Stepwise
  <2>. QED BY <2>5, <2>8, <2>9 DEF Stepwise
<1>. HIDE DEF S
<1>3. N \in S BY <1>1, <1>2, NatSetInduction
<1>. QED BY <1>3 DEF S

-----------------------------------------------------------------------------
(* Powers of two.                                                          *)

LEMMA PowersOfTwo ==
  two[0] = 1 /\ \A n \in Nat : two[n] \in Nat \ {0} /\ two[n + 1] = 2 * two[n]
<1> DEFINE Doubles(n, h) == h \in [0..n -> Nat \ {0}] /\ h[0] = 1 /\ \A m \in 1..n : h[m] = 2 * h[m - 1]
<1>1. ASSUME NEW n \in Nat PROVE \E h : Doubles(n, h)
  <2> DEFINE X == Nat \ {0}
  <2>1. PICK G : G = [m \in 1..n |-> [x \in X |-> 2 * x]] OBVIOUS
  <2>2. 1 \in X /\ \A x \in X : 2 * x \in X OBVIOUS
  <2>3. G \in [1..n -> [X -> X]] BY <2>1, <2>2
  <2>. HIDE DEF X
  <2>4. PICK h \in [0..n -> X] : Stepwise(h, n, 1, G) BY <2>2, <2>3, StepwiseFunction
  <2>5. ASSUME NEW m \in 1..n PROVE h[m] = 2 * h[m - 1]
    <3>1. m - 1 \in 0..n OBVIOUS
    <3>2. h[m - 1] \in X BY <3>1
    <3>3. G[m][h[m - 1]] = 2 * h[m - 1] BY <2>1, <3>2
    <3>. QED BY <2>4, <3>3 DEF Stepwise
  <2>. QED BY <2>4, <2>5 DEF Stepwise, X
<1>2. ASSUME NEW n \in Nat, NEW h, Doubles(n, h), NEW k, Doubles(n + 1, k) PROVE k[n] = h[n]
  <2> DEFINE S == {m \in Nat : m <= n => k[m] = h[m]}
  <2>1. 0 \in S BY <1>2
  <2>2. ASSUME NEW m \in Nat, m \in S PROVE m + 1 \in S
    <3>1. SUFFICES ASSUME m + 1 <= n PROVE k[m + 1] = h[m + 1] OBVIOUS
    <3>2. m + 1 \in 1..n /\ m + 1 \in 1..(n + 1) /\ (m + 1) - 1 = m /\ m <= n BY <3>1
    <3>. QED BY <1>2, <2>2, <3>2
  <2>. HIDE DEF S
  <2>3. n \in S BY <2>1, <2>2, NatSetInduction
  <2>. QED BY <2>3 DEF S
<1>3. \A n \in Nat : \A h : Doubles(n + 1, h) => h[n + 1] = 2 * h[n]
  <2>1. \A n \in Nat : n + 1 \in 1..(n + 1) /\ (n + 1) - 1 = n OBVIOUS
  <2>. QED BY <2>1
<1>4. \A n \in Nat : \A h : Doubles(n, h) => h[0] = 1 /\ h[n] \in Nat \ {0}
  <2>1. \A n \in Nat : n \in 0..n OBVIOUS
  <2>. QED BY <2>1
<1>. HIDE DEF Doubles
<1> DEFINE H == [n \in Nat |-> CHOOSE h : Doubles(n, h)]
           F == [n \in Nat |-> H[n][n]]
<1>5. \A n \in Nat : Doubles(n, H[n]) BY <1>1
<1>. HIDE DEF H
<1>6. F[0] = 1 /\ \A n \in Nat : F[n] \in Nat \ {0} BY <1>4, <1>5
<1>7. ASSUME NEW n \in Nat PROVE F[n + 1] = 2 * F[n]
  <2>1. n + 1 \in Nat OBVIOUS
  <2>2. F[n + 1] = H[n + 1][n + 1] /\ F[n] = H[n][n] BY <2>1
  <2>3. Doubles(n, H[n]) /\ Doubles(n + 1, H[n + 1]) BY <1>5, <2>1
  <2>4. H[n + 1][n] = H[n][n] BY <1>2, <2>3
  <2>. QED BY <1>3, <2>2, <2>3, <2>4
<1>8. F = [n \in Nat |-> F[n]] OBVIOUS
<1>. HIDE DEF F
<1>9. F = [n \in Nat |-> IF n = 0 THEN 1 ELSE 2 * F[n - 1]]
  <2>1. ASSUME NEW n \in Nat PROVE F[n] = IF n = 0 THEN 1 ELSE 2 * F[n - 1]
    <3>1. CASE n = 0 BY <1>6, <3>1
    <3>2. CASE n # 0
      <4>1. n - 1 \in Nat /\ (n - 1) + 1 = n BY <3>2
      <4>. QED BY <1>7, <3>2, <4>1
    <3>. QED BY <3>1, <3>2
  <2>. QED BY <1>8, <2>1
<1>10. two = [n \in Nat |-> IF n = 0 THEN 1 ELSE 2 * two[n - 1]] BY <1>9 DEF two
<1>11. two[0] = 1 BY <1>10
<1>12. ASSUME NEW n \in Nat PROVE two[n + 1] = 2 * two[n]
  <2>1. n + 1 \in Nat /\ n + 1 # 0 /\ (n + 1) - 1 = n OBVIOUS
  <2>. QED BY <1>10, <2>1
<1> DEFINE S == {n \in Nat : two[n] \in Nat \ {0}}
<1>13. 0 \in S BY <1>11
<1>14. \A n \in Nat : n \in S => n + 1 \in S BY <1>12
<1>. HIDE DEF S
<1>15. Nat \subseteq S BY <1>13, <1>14, NatSetInduction
<1>. QED BY <1>11, <1>12, <1>15 DEF S

LEMMA PowerSum ==
  ASSUME NEW m \in Nat, NEW n \in Nat
  PROVE  two[m + n] = two[m] * two[n]
<1> DEFINE S == {k \in Nat : two[m + k] = two[m] * two[k]}
<1>1. two[m] \in Nat BY PowersOfTwo
<1>2. 0 \in S BY <1>1, PowersOfTwo
<1>3. ASSUME NEW k \in Nat, k \in S PROVE k + 1 \in S
  <2>1. two[m + k] = two[m] * two[k] BY <1>3
  <2>2. m + k \in Nat /\ m + (k + 1) = (m + k) + 1 OBVIOUS
  <2>3. two[m + (k + 1)] = 2 * two[m + k] BY <2>2, PowersOfTwo
  <2>4. two[k + 1] = 2 * two[k] /\ two[k] \in Nat BY PowersOfTwo
  <2>5. two[m] * (2 * two[k]) = 2 * (two[m] * two[k]) BY <1>1, <2>4
  <2>. QED BY <2>1, <2>3, <2>4, <2>5
<1>. HIDE DEF S
<1>4. n \in S BY <1>2, <1>3, NatSetInduction
<1>. QED BY <1>4 DEF S

LEMMA PowersGrow ==
  ASSUME NEW m \in Nat, NEW n \in Nat, m <= n
  PROVE  /\ two[m] <= two[n]
         /\ \E k \in Nat \ {0} : two[n] = two[m] * k
<1>1. n - m \in Nat /\ m + (n - m) = n OBVIOUS
<1>2. two[n] = two[m] * two[n - m] BY <1>1, PowerSum
<1>3. two[m] \in Nat \ {0} /\ two[n - m] \in Nat \ {0} BY <1>1, PowersOfTwo
<1>4. \A a, b \in Nat \ {0} : a <= a * b OBVIOUS
<1>. QED BY <1>2, <1>3, <1>4

LEMMA PowerIsEven ==
  ASSUME NEW n \in Nat \ {0}
  PROVE  /\ two[n - 1] \in Nat \ {0}
         /\ two[n] = 2 * two[n - 1]
         /\ two[n] \div 2 = two[n - 1]
<1>1. n - 1 \in Nat /\ (n - 1) + 1 = n OBVIOUS
<1>2. two[n - 1] \in Nat \ {0} /\ two[n] = 2 * two[n - 1] BY <1>1, PowersOfTwo
<1>3. \A k \in Nat : (2 * k) \div 2 = k OBVIOUS
<1>. QED BY <1>2, <1>3

-----------------------------------------------------------------------------
(* Remainders.                                                             *)

LEMMA Division ==
  ASSUME NEW M \in Nat \ {0}, NEW x \in Int
  PROVE  x \div M \in Int /\ x % M \in 0..(M - 1) /\ x = M * (x \div M) + (x % M)
OBVIOUS

LEMMA RemainderIs ==
  ASSUME NEW M \in Nat \ {0}, NEW k \in Int, NEW r \in 0..(M - 1), NEW x \in Int, x = M * k + r
  PROVE  x % M = r
OBVIOUS

(* Numbers that differ by a multiple of M.                                 *)
Congruent(M, x, y) == \E k \in Int : x = M * k + y

LEMMA CongruentRemainders ==
  ASSUME NEW M \in Nat \ {0}, NEW x \in Int, NEW y \in Int
  PROVE  Congruent(M, x, y) <=> x % M = y % M
<1>1. ASSUME Congruent(M, x, y) PROVE x % M = y % M
  <2>1. PICK k \in Int : x = M * k + y BY <1>1 DEF Congruent
  <2>2. y \div M \in Int /\ y % M \in 0..(M - 1) /\ y = M * (y \div M) + (y % M) BY Division
  <2>3. M * k + M * (y \div M) = M * (k + y \div M) /\ k + y \div M \in Int BY <2>2
  <2>4. x = M * (k + y \div M) + (y % M) BY <2>1, <2>2, <2>3
  <2> DEFINE m == k + y \div M
             r == y % M
  <2>5. m \in Int /\ r \in 0..(M - 1) /\ x = M * m + r BY <2>2, <2>3, <2>4
  <2>. HIDE DEF m, r
  <2>6. x % M = r BY <2>5, RemainderIs
  <2>. QED BY <2>6 DEF r
<1>2. ASSUME x % M = y % M PROVE Congruent(M, x, y)
  <2>1. x \div M \in Int /\ x = M * (x \div M) + (x % M) BY Division
  <2>2. y \div M \in Int /\ y = M * (y \div M) + (y % M) /\ y % M \in Int BY Division
  <2>3. M * (x \div M - y \div M) = M * (x \div M) - M * (y \div M) BY <2>1, <2>2
  <2>4. x \div M - y \div M \in Int BY <2>1, <2>2
  <2> DEFINE p == M * (x \div M)
             q == M * (y \div M)
  <2>5. p \in Int /\ q \in Int BY <2>1, <2>2
  <2>6. x = p + (y % M) /\ y = q + (y % M) BY <1>2, <2>1, <2>2
  <2>7. M * (x \div M - y \div M) = p - q BY <2>3
  <2>. HIDE DEF p, q
  <2>8. x = (p - q) + y BY <2>2, <2>5, <2>6
  <2>. QED BY <2>4, <2>7, <2>8 DEF Congruent
<1>. QED BY <1>1, <1>2

LEMMA SmallRemainder ==
  ASSUME NEW M \in Nat \ {0}, NEW x \in 0..(M - 1)
  PROVE  x % M = x
OBVIOUS

LEMMA RemainderTwice ==
  ASSUME NEW M \in Nat \ {0}, NEW x \in Int
  PROVE  (x % M) % M = x % M
BY Division, SmallRemainder

(* A sum, a difference and a product, of low bits only.                    *)
LEMMA RemaindersCombine ==
  ASSUME NEW M \in Nat \ {0}, NEW x \in Int, NEW y \in Int
  PROVE  /\ ((x % M) + (y % M)) % M = (x + y) % M
         /\ ((x % M) - (y % M)) % M = (x - y) % M
         /\ ((x % M) * (y % M)) % M = (x * y) % M
<1> DEFINE a == x % M
           b == y % M
           k == x \div M
           l == y \div M
           n == M * k * l + k * b + a * l
<1>1. a \in Int /\ k \in Int /\ x = M * k + a BY Division
<1>2. b \in Int /\ l \in Int /\ y = M * l + b BY Division
<1>. HIDE DEF a, b, k, l
<1>3. M * (k + l) = M * k + M * l /\ M * (k - l) = M * k - M * l BY <1>1, <1>2
<1>4. k + l \in Int /\ k - l \in Int /\ M * k \in Int /\ M * l \in Int BY <1>1, <1>2
<1>5. x + y = M * (k + l) + (a + b) BY <1>1, <1>2, <1>3, <1>4
<1>6. x - y = M * (k - l) + (a - b) BY <1>1, <1>2, <1>3, <1>4
<1>7. n \in Int BY <1>1, <1>2
<1>8. (M * k + a) * (M * l + b) = M * n + a * b BY <1>1, <1>2
<1>9. x * y = M * n + a * b BY <1>1, <1>2, <1>8
<1>. HIDE DEF n
<1>10. /\ Congruent(M, x + y, a + b) /\ Congruent(M, x - y, a - b)
       /\ Congruent(M, x * y, a * b)
  BY <1>4, <1>5, <1>6, <1>7, <1>9 DEF Congruent
<1>11. /\ a + b \in Int /\ x + y \in Int /\ a - b \in Int /\ x - y \in Int
       /\ a * b \in Int /\ x * y \in Int
  BY <1>1, <1>2
<1>12. (x + y) % M = (a + b) % M /\ (x - y) % M = (a - b) % M /\ (x * y) % M = (a * b) % M
  BY <1>10, <1>11, CongruentRemainders
<1>. QED BY <1>12 DEF a, b

LEMMA RemainderOfNegation ==
  ASSUME NEW M \in Nat \ {0}, NEW y \in Int
  PROVE  (0 - (y % M)) % M = (0 - y) % M
<1> DEFINE b == y % M
           l == y \div M
<1>1. b \in Int /\ l \in Int /\ y = M * l + b BY Division
<1>. HIDE DEF b, l
<1>2. M * (-l) = -(M * l) /\ -l \in Int /\ M * l \in Int BY <1>1
<1>3. 0 - y = M * (-l) + (0 - b) BY <1>1, <1>2
<1>4. Congruent(M, 0 - y, 0 - b) BY <1>2, <1>3 DEF Congruent
<1>5. 0 - y \in Int /\ 0 - b \in Int BY <1>1
<1>. QED BY <1>4, <1>5, CongruentRemainders DEF b

(* Taking the low bits, then fewer of them.                                *)
LEMMA RemainderOfRemainder ==
  ASSUME NEW M \in Nat \ {0}, NEW K \in Nat \ {0}, NEW x \in Int
  PROVE  (x % (M * K)) % M = x % M
<1>1. M * K \in Nat \ {0} OBVIOUS
<1> DEFINE N == M * K
           q == x \div N
           r == x % N
<1>. HIDE DEF N
<1>2. N \in Nat \ {0} /\ N = M * K BY <1>1 DEF N
<1>3. x \div N \in Int /\ x % N \in 0..(N - 1) /\ x = N * (x \div N) + (x % N) BY <1>2, Division
<1>4. q \in Int /\ r \in Int /\ x = N * q + r BY <1>2, <1>3
<1>. HIDE DEF q, r
<1>5. (M * K) * q = M * (K * q) /\ K * q \in Int BY <1>4
<1>6. x = M * (K * q) + r BY <1>2, <1>4, <1>5
<1>7. Congruent(M, x, r) BY <1>5, <1>6 DEF Congruent
<1>8. x % M = r % M BY <1>4, <1>7, CongruentRemainders
<1>. QED BY <1>8 DEF r, N

-----------------------------------------------------------------------------
(* Digits.                                                                 *)

LEMMA DigitType ==
  ASSUME NEW b \in Nat, NEW x \in Int, NEW i \in Nat
  PROVE  Digit(b, x, i) \in 0..(two[b] - 1)
<1>1. b * i \in Nat OBVIOUS
<1>2. two[b] \in Nat \ {0} /\ two[b * i] \in Nat \ {0} BY <1>1, PowersOfTwo
<1>3. x \div two[b * i] \in Int BY <1>2, Division
<1>. QED BY <1>2, <1>3, Division DEF Digit

LEMMA BitType ==
  ASSUME NEW x \in Int, NEW i \in Nat
  PROVE  Digit(1, x, i) \in {0, 1}
<1>1. two[1] = 2 BY PowersOfTwo
<1>2. Digit(1, x, i) \in 0..(two[1] - 1) BY DigitType
<1>. QED BY <1>1, <1>2

(* One more digit in front of a number of b * i bits.                      *)
LEMMA OneMoreDigit ==
  ASSUME NEW D \in Nat \ {0}, NEW P \in Nat \ {0}, NEW s \in 0..(P - 1), NEW d \in 0..(D - 1)
  PROVE  s + d * P \in 0..(D * P - 1)
<1>1. d * P \in Nat /\ D * P \in Nat OBVIOUS
<1>2. D - 1 - d \in Nat /\ (D - 1 - d) * P \in Nat OBVIOUS
<1>3. (D - 1 - d) * P = D * P - P - d * P OBVIOUS
<1>. QED BY <1>1, <1>2, <1>3

LEMMA AssembledType ==
  ASSUME NEW b \in Nat, NEW n \in Nat, NEW digit \in [0..(n - 1) -> 0..(two[b] - 1)]
  PROVE  Assembled(b, n, digit) \in 0..(two[b * n] - 1)
<1> DEFINE Plus(i, s) == s + digit[i - 1] * two[b * (i - 1)]
           G == [i \in 1..n |-> [s \in Int |-> Plus(i, s)]]
           sum[i \in 0..n] == IF i = 0 THEN 0 ELSE sum[i - 1] + digit[i - 1] * two[b * (i - 1)]
<1>1. Assembled(b, n, digit) = sum[n] BY DEF Assembled
<1>2. ASSUME NEW i \in 1..n
      PROVE  /\ i - 1 \in 0..(n - 1) /\ i - 1 \in 0..n
             /\ digit[i - 1] \in 0..(two[b] - 1) /\ digit[i - 1] \in Int
             /\ two[b] \in Nat \ {0} /\ two[b * (i - 1)] \in Nat \ {0}
             /\ two[b * i] = two[b] * two[b * (i - 1)]
  <2>1. i - 1 \in Nat /\ i - 1 \in 0..(n - 1) /\ i - 1 \in 0..n OBVIOUS
  <2>2. b * (i - 1) \in Nat /\ b * i = b + b * (i - 1) BY <2>1
  <2>3. two[b] \in Nat \ {0} /\ two[b * (i - 1)] \in Nat \ {0} BY <2>2, PowersOfTwo
  <2>4. two[b * i] = two[b] * two[b * (i - 1)] BY <2>2, PowerSum
  <2>5. digit[i - 1] \in 0..(two[b] - 1) BY <2>1
  <2>6. digit[i - 1] \in Int BY <2>3, <2>5
  <2>. QED BY <2>1, <2>3, <2>4, <2>5, <2>6
<1>3. ASSUME NEW i \in 1..n, NEW s \in Int PROVE Plus(i, s) \in Int BY <1>2
<1>4. G \in [1..n -> [Int -> Int]] BY <1>3
<1>. HIDE DEF Plus, G, sum
<1>5. PICK h \in [0..n -> Int] : Stepwise(h, n, 0, G)
  <2> DEFINE X == Int
  <2>1. 0 \in X /\ G \in [1..n -> [X -> X]] BY <1>4
  <2>. HIDE DEF X
  <2>2. \E h \in [0..n -> X] : Stepwise(h, n, 0, G) BY <2>1, StepwiseFunction
  <2>. QED BY <2>2 DEF X
<1>6. h = [i \in 0..n |-> IF i = 0 THEN 0 ELSE h[i - 1] + digit[i - 1] * two[b * (i - 1)]]
  <2>1. ASSUME NEW i \in 0..n
        PROVE  h[i] = IF i = 0 THEN 0 ELSE h[i - 1] + digit[i - 1] * two[b * (i - 1)]
    <3>1. CASE i = 0 BY <1>5, <3>1 DEF Stepwise
    <3>2. CASE i # 0
      <4>1. i \in 1..n BY <3>2
      <4>2. h[i - 1] \in Int BY <1>2, <4>1
      <4>3. G[i][h[i - 1]] = Plus(i, h[i - 1]) BY <4>1, <4>2 DEF G
      <4>. QED BY <1>5, <3>2, <4>1, <4>3 DEF Stepwise, Plus
    <3>. QED BY <3>1, <3>2
  <2>. QED BY <2>1
<1>7. sum = [i \in 0..n |-> IF i = 0 THEN 0 ELSE sum[i - 1] + digit[i - 1] * two[b * (i - 1)]]
  BY <1>6 DEF sum
<1> DEFINE S == {i \in Nat : i <= n => sum[i] \in 0..(two[b * i] - 1)}
<1>8. 0 \in S
  <2>1. 0 \in 0..n /\ b * 0 = 0 OBVIOUS
  <2>2. sum[0] = 0 BY <1>7, <2>1
  <2>3. two[b * 0] = 1 BY <2>1, PowersOfTwo
  <2>. QED BY <2>2, <2>3
<1>9. ASSUME NEW m \in Nat, m \in S PROVE m + 1 \in S
  <2>1. SUFFICES ASSUME m + 1 <= n PROVE sum[m + 1] \in 0..(two[b * (m + 1)] - 1) OBVIOUS
  <2>2. m + 1 \in 1..n /\ m + 1 \in 0..n /\ m + 1 # 0 /\ (m + 1) - 1 = m /\ m <= n BY <2>1
  <2>3. sum[m] \in 0..(two[b * m] - 1) BY <1>9, <2>2
  <2>4. sum[m + 1] = sum[m] + digit[m] * two[b * m] BY <1>7, <2>2
  <2>5. /\ digit[m] \in 0..(two[b] - 1)
        /\ two[b] \in Nat \ {0} /\ two[b * m] \in Nat \ {0}
        /\ two[b * (m + 1)] = two[b] * two[b * m]
    BY <1>2, <2>2
  <2>. HIDE DEF S
  <2>6. sum[m] + digit[m] * two[b * m] \in 0..(two[b] * two[b * m] - 1) BY <2>3, <2>5, OneMoreDigit
  <2>. QED BY <2>4, <2>5, <2>6
<1>. HIDE DEF S
<1>10. n \in S BY <1>8, <1>9, NatSetInduction
<1>. QED BY <1>1, <1>10 DEF S

-----------------------------------------------------------------------------
(* Integers and their bits.                                                *)

LEMMA WidthType ==
  ASSUME NEW t \in Integral
  PROVE  /\ t.kind \in {"int", "bool"} /\ t.signed \in BOOLEAN /\ t.size \in 1..Word
         /\ t.kind = "bool" => ~t.signed /\ t = Bool
         /\ t.kind = "int" => Width(t) = t.size * Byte
         /\ Width(t) \in Nat \ {0} /\ Width(t) <= Word * Byte
<1>1. Word \in Nat \ {0} /\ Byte \in Nat \ {0} /\ 1 <= Word * Byte BY OperationsAssumption
<1>2. CASE t = Bool
  <2>1. t.kind = "bool" /\ t.signed = FALSE /\ t.size = 1 /\ Width(t) = 1 BY <1>2 DEF Bool, Width
  <2>2. t.kind # "int" BY <2>1
  <2>3. t.size \in 1..Word /\ Width(t) <= Word * Byte BY <1>1, <2>1
  <2>4. t.signed \in BOOLEAN /\ ~t.signed BY <2>1
  <2>. QED BY <1>2, <2>1, <2>2, <2>3, <2>4
<1>3. CASE t # Bool
  <2>1. PICK s \in BOOLEAN, n \in {1, 2, 4, 8} \cap 1..Word : t = IntN(s, n) BY <1>3 DEF Integral
  <2>2. t.kind = "int" /\ t.signed \in BOOLEAN /\ t.size = n /\ n \in 1..Word BY <2>1 DEF IntN
  <2>3. Width(t) = n * Byte BY <1>3, <2>2 DEF Width
  <2>4. n * Byte \in Nat \ {0} BY <1>1, <2>2
  <2>5. n * Byte <= Word * Byte
    <3>1. Word - n \in Nat /\ (Word - n) * Byte \in Nat BY <1>1, <2>2
    <3>2. (Word - n) * Byte = Word * Byte - n * Byte BY <1>1, <2>2
    <3>. QED BY <1>1, <2>4, <3>1, <3>2
  <2>. QED BY <2>2, <2>3, <2>4, <2>5
<1>. QED BY <1>2, <1>3

LEMMA ValuesType ==
  ASSUME NEW t \in Integral
  PROVE  /\ Values(t) \in Nat \ {0} /\ Values(t) = two[Width(t)]
         /\ Values(t) <= two[Word * Byte]
<1>1. Width(t) \in Nat /\ Width(t) <= Word * Byte BY WidthType
<1>2. Word * Byte \in Nat BY OperationsAssumption
<1>. QED BY <1>1, <1>2, PowersOfTwo, PowersGrow DEF Values

LEMMA NumbersOf ==
  ASSUME NEW t \in Integral
  PROVE  /\ Numbers(t) = IF t.signed THEN (-two[Width(t) - 1])..(two[Width(t) - 1] - 1)
                         ELSE 0..(two[Width(t)] - 1)
         /\ \A bits : Number(t, bits) = IF t.signed THEN Signed(Width(t), bits) ELSE bits
         /\ Numbers(t) \subseteq Int
<1>1. /\ t.kind \in {"int", "bool"} /\ t.signed \in BOOLEAN /\ Width(t) \in Nat \ {0}
      /\ t.kind = "bool" => ~t.signed /\ t = Bool
  BY WidthType
<1>2. /\ two[Width(t) - 1] \in Nat /\ two[Width(t)] \in Nat
      /\ two[Width(t)] \div 2 = two[Width(t) - 1]
  BY <1>1, PowerIsEven
<1>3. CASE t.kind = "int"
  <2>1. Numbers(t) = IF t.signed THEN (-two[Width(t) - 1])..(two[Width(t) - 1] - 1)
                     ELSE 0..(two[Width(t)] - 1)
    BY <1>2, <1>3 DEF Numbers, Values
  <2>2. \A bits : Number(t, bits) = IF t.signed THEN Signed(Width(t), bits) ELSE bits
    BY <1>1, <1>3 DEF Number
  <2>. QED BY <1>2, <2>1, <2>2
<1>4. CASE t.kind = "bool"
  <2>1. Width(t) = 1 /\ two[1] = 2 BY <1>1, <1>4, PowersOfTwo DEF Width
  <2>2. Numbers(t) = 0..(two[Width(t)] - 1) BY <1>4, <2>1 DEF Numbers
  <2>3. \A bits : Number(t, bits) = bits BY <1>4 DEF Number
  <2>. QED BY <1>1, <1>2, <1>4, <2>2, <2>3
<1>. QED BY <1>1, <1>3, <1>4

LEMMA SignedBits ==
  ASSUME NEW w \in Nat \ {0}
  PROVE  /\ \A x \in (-two[w - 1])..(two[w - 1] - 1) : Signed(w, x % two[w]) = x
         /\ \A a \in 0..(two[w] - 1) :
              /\ Signed(w, a) \in (-two[w - 1])..(two[w - 1] - 1)
              /\ Signed(w, a) % two[w] = a
<1> DEFINE H == two[w - 1]
           M == two[w]
<1>1. H \in Nat \ {0} /\ M \in Nat \ {0} /\ M = 2 * H BY PowersOfTwo, PowerIsEven
<1>. HIDE DEF H, M
<1>2. ASSUME NEW x \in (-H)..(H - 1) PROVE (IF x % M >= H THEN (x % M) - M ELSE x % M) = x
  <2>1. CASE x >= 0
    <3>1. x \in 0..(M - 1) BY <1>1, <2>1
    <3>2. x % M = x BY <1>1, <3>1, SmallRemainder
    <3>. QED BY <1>1, <3>2
  <2>2. CASE x < 0
    <3>1. x + M \in 0..(M - 1) /\ x = M * (-1) + (x + M) BY <1>1, <2>2
    <3>2. x % M = x + M BY <1>1, <3>1, RemainderIs
    <3>. QED BY <1>1, <3>2
  <2>. QED BY <1>1, <2>1, <2>2
<1>3. ASSUME NEW a \in 0..(M - 1)
      PROVE  /\ (IF a >= H THEN a - M ELSE a) \in (-H)..(H - 1)
             /\ (IF a >= H THEN a - M ELSE a) % M = a
  <2>1. CASE a >= H
    <3>1. a - M = M * (-1) + a /\ a - M \in Int BY <1>1
    <3>2. (a - M) % M = a BY <1>1, <3>1, RemainderIs
    <3>. QED BY <1>1, <2>1, <3>2
  <2>2. CASE a < H
    <3>1. a % M = a BY <1>1, SmallRemainder
    <3>. QED BY <1>1, <2>2, <3>1
  <2>. QED BY <1>1, <2>1, <2>2
<1>. QED BY <1>2, <1>3 DEF Signed, H, M

(* Bits stand for exactly one number of an integral type, and back.        *)
LEMMA Represented ==
  ASSUME NEW t \in Integral
  PROVE  /\ \A x \in Numbers(t) : Number(t, x % Values(t)) = x
         /\ \A a \in 0..(Values(t) - 1) : Number(t, a) \in Numbers(t) /\ Number(t, a) % Values(t) = a
<1>1. Width(t) \in Nat \ {0} /\ t.signed \in BOOLEAN BY WidthType
<1>2. Values(t) \in Nat \ {0} /\ Values(t) = two[Width(t)] BY ValuesType
<1>3. CASE t.signed
  <2> DEFINE w == Width(t)
  <2>1. /\ Numbers(t) = (-two[w - 1])..(two[w - 1] - 1)
        /\ \A a : Number(t, a) = Signed(w, a)
    BY <1>3, NumbersOf
  <2>2. /\ \A x \in (-two[w - 1])..(two[w - 1] - 1) : Signed(w, x % two[w]) = x
        /\ \A a \in 0..(two[w] - 1) :
             /\ Signed(w, a) \in (-two[w - 1])..(two[w - 1] - 1)
             /\ Signed(w, a) % two[w] = a
    BY <1>1, SignedBits
  <2>. HIDE DEF w
  <2>3. Values(t) = two[w] BY <1>2 DEF w
  <2>. QED BY <2>1, <2>2, <2>3
<1>4. CASE ~t.signed
  <2>1. Numbers(t) = 0..(Values(t) - 1) /\ \A a : Number(t, a) = a BY <1>2, <1>4, NumbersOf
  <2>. QED BY <1>2, <2>1, SmallRemainder
<1>. QED BY <1>1, <1>3, <1>4

LEMMA WrappedType ==
  ASSUME NEW t \in Integral, NEW x \in Int
  PROVE  /\ x % Values(t) \in 0..(Values(t) - 1)
         /\ Wrapped(t, x) \in Numbers(t)
         /\ Wrapped(t, x) % Values(t) = x % Values(t)
<1>1. x % Values(t) \in 0..(Values(t) - 1) BY ValuesType, Division
<1>. QED BY <1>1, Represented DEF Wrapped

LEMMA Quotients ==
  ASSUME NEW x \in Int, NEW y \in Int, y # 0
  PROVE  /\ Quotient(x, y) \in Int /\ Remainder(x, y) \in Int
         /\ x = y * Quotient(x, y) + Remainder(x, y)
         /\ -Abs(y) < Remainder(x, y) /\ Remainder(x, y) < Abs(y)
         /\ x >= 0 /\ y > 0 => Quotient(x, y) = x \div y /\ Remainder(x, y) = x % y
<1> DEFINE a == Abs(x)
           b == Abs(y)
           q == a \div b
           r == a % b
<1>1. a \in Nat /\ b \in Nat \ {0} BY DEF Abs
<1>3. Quotient(x, y) = IF (x < 0) = (y < 0) THEN q ELSE -q BY DEF Quotient
<1>4. (x < 0 => a = -x) /\ (x >= 0 => a = x) /\ (y < 0 => b = -y) /\ (y >= 0 => b = y) BY DEF Abs
<1>. HIDE DEF a, b
<1>2. q \in Int /\ r \in 0..(b - 1) /\ a = b * q + r BY <1>1, Division
<1>. HIDE DEF q, r
<1>5. Quotient(x, y) \in Int BY <1>2, <1>3
<1>6. x - y * Quotient(x, y) = IF x < 0 THEN -r ELSE r
  <2>1. CASE x < 0 /\ y < 0
    <3>1. (-y) * q = -(y * q) BY <1>2
    <3>. QED BY <1>2, <1>3, <1>4, <2>1, <3>1
  <2>2. CASE x < 0 /\ ~(y < 0)
    <3>1. y * (-q) = -(y * q) BY <1>2
    <3>. QED BY <1>2, <1>3, <1>4, <2>2, <3>1
  <2>3. CASE ~(x < 0) /\ y < 0
    <3>1. (-y) * q = -(y * q) /\ y * (-q) = -(y * q) BY <1>2
    <3>. QED BY <1>2, <1>3, <1>4, <2>3, <3>1
  <2>4. CASE ~(x < 0) /\ ~(y < 0) BY <1>2, <1>3, <1>4, <2>4
  <2>. QED BY <2>1, <2>2, <2>3, <2>4
<1>7. Remainder(x, y) = IF x < 0 THEN -r ELSE r BY <1>6 DEF Remainder
<1>8. x = y * Quotient(x, y) + Remainder(x, y)
  <2> DEFINE p == y * Quotient(x, y)
  <2>1. p \in Int BY <1>5
  <2>2. Remainder(x, y) = x - p BY DEF Remainder
  <2>. HIDE DEF p
  <2>3. x = p + Remainder(x, y) BY <2>1, <2>2
  <2>. QED BY <2>3 DEF p
<1>9. x >= 0 /\ y > 0 => Quotient(x, y) = x \div y /\ Remainder(x, y) = x % y
  <2>. SUFFICES ASSUME x >= 0, y > 0 PROVE Quotient(x, y) = x \div y /\ Remainder(x, y) = x % y
    OBVIOUS
  <2>1. a = x /\ b = y /\ ~(x < 0) /\ ~(y < 0) BY <1>4
  <2>. QED BY <1>3, <1>7, <2>1 DEF q, r
<1>. QED BY <1>1, <1>2, <1>5, <1>7, <1>8, <1>9 DEF b

-----------------------------------------------------------------------------
(* Types, and what is not a number of any.                                 *)

LEMMA SentinelType == Undefined \in Nat \ {0} /\ NaN \in Nat
<1>1. Word * Byte \in Nat /\ 4 * Word * Byte + 4 \in Nat BY OperationsAssumption
<1>. QED BY <1>1, PowersOfTwo DEF Undefined, NaN

(* Undefined and NaN are beyond the integers and the pointers.             *)
LEMMA BeyondNumbers ==
  /\ \A t \in Integral : Values(t) <= NaN
  /\ Length < NaN
<1> DEFINE W == Word * Byte
<1>1. W \in Nat \ {0} /\ 4 * Word * Byte + 4 = 4 * W + 4 BY OperationsAssumption
<1>2. Length \in Nat /\ Length <= two[W - 1] - 1 /\ two[W - 1] \in Nat /\ two[W - 1] <= two[W]
  BY <1>1, OperationsAssumption, PowerIsEven
<1>. HIDE DEF W
<1>3. W + 1 \in Nat /\ 4 * W + 4 \in Nat /\ W + 1 <= 4 * W + 4 BY <1>1
<1>4. two[W + 1] <= two[4 * W + 4] BY <1>3, PowersGrow
<1>5. two[W + 1] = 2 * two[W] /\ two[W] \in Nat \ {0} BY <1>1, PowersOfTwo
<1>6. Undefined = two[4 * W + 4] /\ Undefined \in Nat BY <1>1, SentinelType DEF Undefined
<1>7. two[W] <= NaN BY <1>4, <1>5, <1>6 DEF NaN
<1>8. NaN \in Nat BY SentinelType
<1>9. ASSUME NEW t \in Integral PROVE Values(t) <= NaN
  <2>1. Values(t) \in Nat /\ Values(t) <= two[W] BY ValuesType DEF W
  <2>. QED BY <1>5, <1>7, <1>8, <2>1
<1>10. Length < NaN BY <1>2, <1>5, <1>7, <1>8
<1>. QED BY <1>9, <1>10

LEMMA KindOf ==
  /\ \A t \in Type : t.kind = "float" <=> t \in Floating
  /\ \A t \in Type : t.kind = "pointer" <=> t = Pointer
  /\ \A t \in Type : t.kind \in {"int", "bool"} <=> t \in Integral
  /\ Bool \in Integral /\ Pointer \in Type
  /\ Integral \subseteq Type
<1>1. \A t \in Integral : t.kind \in {"int", "bool"} BY WidthType
<1>2. \A t \in Floating : t.kind = "float" BY DEF Floating
<1>3. Pointer.kind = "pointer" BY DEF Pointer
<1>4. Bool \in Integral BY DEF Integral
<1>. QED BY <1>1, <1>2, <1>3, <1>4 DEF Type

LEMMA BoolValues == Values(Bool) = 2 /\ Numbers(Bool) = 0..1 /\ \A bits : Number(Bool, bits) = bits
<1>1. Width(Bool) = 1 /\ Bool.kind = "bool" BY DEF Width, Bool
<1>2. two[1] = 2 BY PowersOfTwo
<1>. QED BY <1>1, <1>2 DEF Values, Numbers, Number

LEMMA NotAPointer ==
  ASSUME NEW t \in Type \ {Pointer}
  PROVE  t \in Integral <=> t.kind # "float"
<1>1. t \in Integral \/ t \in Floating BY DEF Type
<1>2. t \in Integral => t.kind # "float" BY WidthType
<1>3. t \in Floating => t.kind = "float" BY DEF Floating
<1>. QED BY <1>1, <1>2, <1>3

(* Only integers have numbers that differ from their bits.                 *)
LEMMA PlainNumber ==
  ASSUME NEW t \in Type, t \notin Integral
  PROVE  /\ \A bits : Number(t, bits) = bits
         /\ t = Pointer => Numbers(t) = 0..Length
BY KindOf DEF Number, Numbers

BitsOK(t, bits) ==
  \/ bits = Undefined
  \/ IF t \in Integral THEN bits \in 0..(Values(t) - 1) ELSE bits \in Numbers(t)
NumberOK(t, number) == number \in Numbers(t) \cup {Undefined}

(* The generated code computes what the C++ expression denotes.            *)
Faithful(t, bits, number) ==
  number # Undefined => bits # Undefined /\ Number(t, bits) = number

LEMMA WithinType ==
  ASSUME NEW t, NEW x
  PROVE  NumberOK(t, Within(t, x)) /\ (t \notin Integral => BitsOK(t, Within(t, x)))
BY DEF NumberOK, BitsOK, Within

(* For integers: the bits of the number, as the instructions need them.    *)
LEMMA FaithfulBits ==
  ASSUME NEW t \in Integral, NEW bits, NEW number,
         BitsOK(t, bits), NumberOK(t, number), Faithful(t, bits, number), number # Undefined
  PROVE  /\ number \in Numbers(t) /\ number \in Int
         /\ bits \in 0..(Values(t) - 1) /\ bits \in Int
         /\ bits = number % Values(t) /\ Number(t, bits) = number
<1>1. number \in Numbers(t) BY DEF NumberOK
<1>2. number \in Int BY <1>1, NumbersOf
<1>3. bits \in 0..(Values(t) - 1) /\ Number(t, bits) = number BY DEF BitsOK, Faithful
<1>4. Values(t) \in Nat BY ValuesType
<1>. QED BY <1>1, <1>2, <1>3, <1>4, Represented

LEMMA BitsFaithful ==
  ASSUME NEW t \in Integral, NEW number \in Numbers(t)
  PROVE  /\ number % Values(t) \in 0..(Values(t) - 1)
         /\ Faithful(t, number % Values(t), number)
<1>1. number \in Int BY NumbersOf
<1>2. Values(t) \in Nat \ {0} /\ Values(t) <= NaN /\ NaN < Undefined
  BY ValuesType, BeyondNumbers, SentinelType DEF NaN
<1>3. number % Values(t) \in 0..(Values(t) - 1) BY <1>1, <1>2, Division
<1>4. number % Values(t) # Undefined BY <1>2, <1>3, SentinelType
<1>. QED BY <1>3, <1>4, Represented DEF Faithful

-----------------------------------------------------------------------------
(* Arithmetic.                                                             *)

(* A quotient of natural numbers is one no greater.                        *)
LEMMA QuotientBound ==
  ASSUME NEW x \in Nat, NEW y \in Nat \ {0}
  PROVE  x \div y \in 0..x
OBVIOUS

LEMMA BitwiseType ==
  ASSUME NEW w \in Nat, NEW digit \in [0..(w - 1) -> {0, 1}]
  PROVE  Assembled(1, w, digit) \in 0..(two[w] - 1)
<1>1. two[1] = 2 /\ 1 * w = w BY PowersOfTwo
<1>2. digit \in [0..(w - 1) -> 0..(two[1] - 1)] BY <1>1
<1>. QED BY <1>1, <1>2, AssembledType

LEMMA BitFunctions ==
  ASSUME NEW w \in Nat, NEW a \in Int, NEW b \in Int
  PROVE  /\ BothBits(w, a, b) \in [0..(w - 1) -> {0, 1}]
         /\ EitherBit(w, a, b) \in [0..(w - 1) -> {0, 1}]
         /\ OneBit(w, a, b) \in [0..(w - 1) -> {0, 1}]
<1>1. \A i \in 0..(w - 1) : Digit(1, a, i) \in {0, 1} /\ Digit(1, b, i) \in {0, 1} BY BitType
<1>. QED BY <1>1 DEF BothBits, EitherBit, OneBit

LEMMA IntegerType ==
  ASSUME NEW w \in Nat \ {0}, NEW a \in 0..(two[w] - 1), NEW b \in 0..(two[w] - 1),
         NEW instruction \in {"add", "sub", "mul", "udiv", "urem", "sdiv", "srem",
                              "and", "or", "xor"}
  PROVE  Integer(instruction, w, a, b) \in 0..(two[w] - 1) \cup {Undefined}
<1> DEFINE M == two[w]
<1>1. M \in Nat \ {0} /\ a \in Nat /\ b \in Nat BY PowersOfTwo
<1>2. \A x \in Int : x % M \in 0..(M - 1) BY <1>1, Division
<1>3. SUFFICES ASSUME ~Traps(instruction, w, a, b)
               PROVE  Integer(instruction, w, a, b) \in 0..(two[w] - 1)
  BY DEF Integer
<1>4. Signed(w, a) \in Int /\ Signed(w, b) \in Int BY <1>1 DEF Signed
<1>. HIDE DEF M
<1>5. CASE instruction \in {"add", "sub", "mul"}
  <2>1. a + b \in Int /\ a - b \in Int /\ a * b \in Int BY <1>1
  <2>. QED BY <1>2, <1>3, <1>5, <2>1 DEF Integer, M
<1>6. CASE instruction \in {"udiv", "urem"}
  <2>1. b \in Nat \ {0} /\ a \in Int BY <1>1, <1>3, <1>6 DEF Traps
  <2>2. a \div b \in 0..a BY <1>1, <2>1, QuotientBound
  <2>3. a % b \in 0..(b - 1) BY <2>1, Division
  <2>4. a \div b \in 0..(M - 1) /\ a % b \in 0..(M - 1) BY <1>1, <2>1, <2>2, <2>3 DEF M
  <2>. QED BY <1>3, <1>6, <2>4 DEF Integer, M
<1>7. CASE instruction \in {"sdiv", "srem"}
  <2>1. Signed(w, b) # 0
    <3>1. b # 0 BY <1>3, <1>7 DEF Traps
    <3>2. b < M BY <1>1 DEF M
    <3>. QED BY <1>1, <3>1, <3>2 DEF Signed, M
  <2>2. Quotient(Signed(w, a), Signed(w, b)) \in Int /\ Remainder(Signed(w, a), Signed(w, b)) \in Int
    BY <1>4, <2>1, Quotients
  <2>. QED BY <1>2, <1>3, <1>7, <2>2 DEF Integer, M
<1>8. CASE instruction \in {"and", "or", "xor"}
  <2>1. w \in Nat /\ a \in Int /\ b \in Int BY <1>1
  <2>2. /\ BothBits(w, a, b) \in [0..(w - 1) -> {0, 1}]
        /\ EitherBit(w, a, b) \in [0..(w - 1) -> {0, 1}]
        /\ OneBit(w, a, b) \in [0..(w - 1) -> {0, 1}]
    BY <2>1, BitFunctions
  <2>3. /\ Assembled(1, w, BothBits(w, a, b)) \in 0..(two[w] - 1)
        /\ Assembled(1, w, EitherBit(w, a, b)) \in 0..(two[w] - 1)
        /\ Assembled(1, w, OneBit(w, a, b)) \in 0..(two[w] - 1)
    BY <2>1, <2>2, BitwiseType
  <2>. QED BY <1>3, <1>8, <2>3 DEF Integer
<1>. QED BY <1>5, <1>6, <1>7, <1>8

LEMMA ArithmeticType ==
  ASSUME NEW t \in Type, NEW a, NEW b, BitsOK(t, a), BitsOK(t, b), Undefined \notin {a, b},
         NEW op \in ArithmeticOp \cup BitwiseOp, t.kind # "pointer",
         op \in BitwiseOp => t \in Integral
  PROVE  BitsOK(t, Arithmetic(t, op, a, b))
<1>1. CASE t \in Floating
  <2>1. t.kind = "float" /\ t \notin Integral BY <1>1, KindOf
  <2>. QED BY <2>1, WithinType DEF Arithmetic
<1>2. CASE t \in Integral
  <2>1. t.kind # "float" BY <1>2, KindOf
  <2>2. ArithmeticInstruction(t, op) \in {"add", "sub", "mul", "udiv", "urem", "sdiv", "srem",
                                          "and", "or", "xor"}
    BY <2>1 DEF ArithmeticInstruction, ArithmeticOp, BitwiseOp
  <2>3. Width(t) \in Nat \ {0} /\ Values(t) = two[Width(t)] BY <1>2, WidthType, ValuesType
  <2>4. a \in 0..(two[Width(t)] - 1) /\ b \in 0..(two[Width(t)] - 1) BY <1>2, <2>3 DEF BitsOK
  <2>5. Integer(ArithmeticInstruction(t, op), Width(t), a, b) \in 0..(two[Width(t)] - 1) \cup {Undefined}
    BY <2>2, <2>3, <2>4, IntegerType
  <2>. QED BY <1>2, <2>1, <2>3, <2>5 DEF BitsOK, Arithmetic
<1>. QED BY <1>1, <1>2, KindOf DEF Type

LEMMA RemainderInType ==
  ASSUME NEW t \in Integral, NEW x \in Numbers(t), NEW y \in Numbers(t), y # 0
  PROVE  Remainder(x, y) \in Numbers(t)
<1> DEFINE w == Width(t)
           r == Remainder(x, y)
<1>1. x \in Int /\ y \in Int BY NumbersOf
<1>2. w \in Nat \ {0} /\ t.signed \in BOOLEAN BY WidthType
<1>3. two[w] \in Nat /\ two[w - 1] \in Nat BY <1>2, PowersOfTwo, PowerIsEven
<1>4. r \in Int /\ -Abs(y) < r /\ r < Abs(y) BY <1>1, Quotients
<1>5. CASE t.signed
  <2>1. Numbers(t) = (-two[w - 1])..(two[w - 1] - 1) BY <1>5, NumbersOf
  <2>. HIDE DEF w, r
  <2>2. Abs(y) \in Int /\ Abs(y) <= two[w - 1] BY <1>1, <1>3, <2>1 DEF Abs
  <2>3. r \in (-two[w - 1])..(two[w - 1] - 1) BY <1>3, <1>4, <2>2
  <2>. QED BY <2>1, <2>3 DEF r
<1>6. CASE ~t.signed
  <2>1. Numbers(t) = 0..(two[w] - 1) BY <1>6, NumbersOf
  <2>2. x >= 0 /\ y > 0 /\ y < two[w] BY <1>1, <1>3, <2>1
  <2>3. r = x % y BY <1>1, <2>2, Quotients
  <2>4. y \in Nat \ {0} BY <1>1, <2>2
  <2>5. x % y \in 0..(y - 1) BY <1>1, <2>4, Division
  <2>6. x % y \in 0..(two[w] - 1) BY <1>3, <2>2, <2>4, <2>5
  <2>. QED BY <2>1, <2>3, <2>6
<1>. QED BY <1>2, <1>5, <1>6

LEMMA FromBitsType ==
  ASSUME NEW t \in Integral, NEW set
  PROVE  /\ FromBits(t, set) \in Numbers(t)
         /\ FromBits(t, set) % Values(t)
              = Assembled(1, Width(t), [i \in 0..(Width(t) - 1) |-> IF i \in set THEN 1 ELSE 0])
<1> DEFINE w == Width(t)
           digit == [i \in 0..(w - 1) |-> IF i \in set THEN 1 ELSE 0]
<1>1. w \in Nat /\ Values(t) = two[w] /\ Values(t) \in Nat \ {0} BY WidthType, ValuesType
<1>2. digit \in [0..(w - 1) -> {0, 1}] OBVIOUS
<1>3. FromBits(t, set) = Wrapped(t, Assembled(1, w, digit)) BY DEF FromBits
<1>. HIDE DEF digit
<1>4. Assembled(1, w, digit) \in 0..(Values(t) - 1) BY <1>1, <1>2, BitwiseType
<1>5. Assembled(1, w, digit) \in Int BY <1>1, <1>4
<1>6. Assembled(1, w, digit) % Values(t) = Assembled(1, w, digit) BY <1>1, <1>4, SmallRemainder
<1>7. FromBits(t, set) \in Numbers(t) /\ FromBits(t, set) % Values(t) = Assembled(1, w, digit)
  BY <1>3, <1>5, <1>6, WrappedType
<1>. QED BY <1>7 DEF digit

(* A sum, difference or product brought back into its type has the bits    *)
(* of a remainder, but for true + true.                                    *)
LEMMA BroughtType ==
  ASSUME NEW t \in Integral, NEW z \in Int
  PROVE  /\ Brought(t, z) \in Numbers(t)
         /\ t # Bool \/ z \in (-1)..1 => Brought(t, z) % Values(t) = z % Values(t)
<1>1. CASE t # Bool BY <1>1, WrappedType DEF Brought
<1>2. CASE t = Bool
  <2>1. Values(t) = 2 /\ Numbers(t) = 0..1 BY <1>2, BoolValues
  <2>2. Brought(t, z) = IF z # 0 THEN 1 ELSE 0 BY <1>2 DEF Brought, Truth
  <2>3. z \in (-1)..1 => z = -1 \/ z = 0 \/ z = 1 OBVIOUS
  <2>4. \A k \in Int, r \in 0..1, v \in Int : v = 2 * k + r => v % 2 = r BY RemainderIs
  <2>5. z = -1 => z % 2 = 1
    <3>1. SUFFICES ASSUME z = -1 PROVE z % 2 = 1 OBVIOUS
    <3>2. PICK k \in Int : k = 0 - 1 OBVIOUS
    <3>3. z = 2 * k + 1 BY <3>1, <3>2
    <3>. QED BY <2>4, <3>3
  <2>6. \A v \in 0..1 : v % 2 = v BY SmallRemainder
  <2>. QED BY <1>2, <2>1, <2>2, <2>3, <2>5, <2>6
<1>. QED BY <1>1, <1>2

LEMMA CppArithmeticType ==
  ASSUME NEW t \in Type, NEW x \in Numbers(t), NEW y \in Numbers(t),
         NEW op \in ArithmeticOp \cup BitwiseOp, t.kind # "pointer",
         op \in BitwiseOp => t \in Integral
  PROVE  NumberOK(t, CppArithmetic(t, op, x, y))
<1>1. CASE t \in Floating
  <2>1. t.kind = "float" BY <1>1, KindOf
  <2>. QED BY <2>1, WithinType DEF CppArithmetic
<1>2. CASE t \in Integral
  <2>1. t.kind # "float" BY <1>2, KindOf
  <2>2. x \in Int /\ y \in Int BY <1>2, NumbersOf
  <2>3. x + y \in Int /\ x - y \in Int /\ x * y \in Int BY <2>2
  <2>4. /\ Brought(t, x + y) \in Numbers(t) /\ Brought(t, x - y) \in Numbers(t)
        /\ Brought(t, x * y) \in Numbers(t)
    BY <1>2, <2>3, BroughtType
  <2>5. \A set : FromBits(t, set) \in Numbers(t) BY <1>2, FromBitsType
  <2>6. y # 0 => Remainder(x, y) \in Numbers(t) BY <1>2, RemainderInType
  <2>7. CASE op \in {"add", "sub", "mul"} BY <2>1, <2>4, <2>7 DEF CppArithmetic, NumberOK
  <2>8. CASE op = "div" BY <2>1, <2>8, WithinType DEF CppArithmetic, NumberOK
  <2>9. CASE op = "mod" BY <2>1, <2>6, <2>9 DEF CppArithmetic, NumberOK
  <2>10. CASE op \in BitwiseOp BY <2>1, <2>5, <2>10 DEF CppArithmetic, NumberOK, BitwiseOp
  <2>. QED BY <2>7, <2>8, <2>9, <2>10 DEF ArithmeticOp
<1>. QED BY <1>1, <1>2, KindOf DEF Type

(* What the instructions make of the bits is what the bits of the number   *)
(* are, in C++: + - * & | ^ ...                                            *)
LEMMA RingFaithful ==
  ASSUME NEW t \in Integral, NEW x \in Numbers(t), NEW y \in Numbers(t), NEW op \in {"add", "sub", "mul"},
         ~(t = Bool /\ op = "add" /\ x = 1 /\ y = 1)
  PROVE  Integer(op, Width(t), x % Values(t), y % Values(t)) = CppArithmetic(t, op, x, y) % Values(t)
<1> DEFINE V == Values(t)
           a == x % V
           b == y % V
<1>1. V \in Nat \ {0} /\ V = two[Width(t)] BY ValuesType
<1>2. x \in Int /\ y \in Int BY NumbersOf
<1>. HIDE DEF V
<1>3. x + y \in Int /\ x - y \in Int /\ x * y \in Int BY <1>2
<1>4. /\ op = "add" => Brought(t, x + y) % V = (x + y) % V
      /\ Brought(t, x - y) % V = (x - y) % V /\ Brought(t, x * y) % V = (x * y) % V
  <2>1. t = Bool => x \in 0..1 /\ y \in 0..1 BY BoolValues
  <2>2. t = Bool => /\ op = "add" => x + y \in (-1)..1
                    /\ x - y \in (-1)..1 /\ x * y \in (-1)..1
    <3>1. SUFFICES ASSUME t = Bool
                   PROVE  /\ op = "add" => x + y \in (-1)..1
                          /\ x - y \in (-1)..1 /\ x * y \in (-1)..1
      OBVIOUS
    <3>2. (x = 0 \/ x = 1) /\ (y = 0 \/ y = 1) BY <2>1, <3>1
    <3>3. op = "add" => ~(x = 1 /\ y = 1) BY <3>1
    <3>. QED BY <3>2, <3>3
  <2>. QED BY <1>3, <2>2, BroughtType DEF V
<1>5. (a + b) % V = (x + y) % V /\ (a - b) % V = (x - y) % V /\ (a * b) % V = (x * y) % V
  BY <1>1, <1>2, RemaindersCombine
<1>. HIDE DEF a, b
<1>6. ~Traps(op, Width(t), a, b) BY DEF Traps
<1>7. t.kind # "float" BY KindOf
<1>8. CASE op = "add"
  <2>1. Integer(op, Width(t), a, b) = (a + b) % V BY <1>1, <1>6, <1>8 DEF Integer
  <2>2. CppArithmetic(t, op, x, y) = Brought(t, x + y) BY <1>7, <1>8 DEF CppArithmetic
  <2>. QED BY <1>4, <1>5, <1>8, <2>1, <2>2 DEF V, a, b
<1>9. CASE op = "sub"
  <2>1. Integer(op, Width(t), a, b) = (a - b) % V BY <1>1, <1>6, <1>9 DEF Integer
  <2>2. CppArithmetic(t, op, x, y) = Brought(t, x - y) BY <1>7, <1>9 DEF CppArithmetic
  <2>. QED BY <1>4, <1>5, <2>1, <2>2 DEF V, a, b
<1>10. CASE op = "mul"
  <2>1. Integer(op, Width(t), a, b) = (a * b) % V BY <1>1, <1>6, <1>10 DEF Integer
  <2>2. CppArithmetic(t, op, x, y) = Brought(t, x * y) BY <1>7, <1>10 DEF CppArithmetic
  <2>. QED BY <1>4, <1>5, <2>1, <2>2 DEF V, a, b
<1>. QED BY <1>8, <1>9, <1>10

(* ... and / and %, but for the quotient that does not fit.                *)
Overflows(t, x, y) == t.signed /\ x = -two[Width(t) - 1] /\ y = -1

LEMMA DivisionComputes ==
  ASSUME NEW t \in Integral, NEW x \in Numbers(t), NEW y \in Numbers(t), y # 0, ~Overflows(t, x, y)
  PROVE  /\ Integer(ArithmeticInstruction(t, "div"), Width(t), x % Values(t), y % Values(t))
              = Quotient(x, y) % Values(t)
         /\ Integer(ArithmeticInstruction(t, "mod"), Width(t), x % Values(t), y % Values(t))
              = Remainder(x, y) % Values(t)
<1> DEFINE V == Values(t)
           w == Width(t)
           a == x % V
           b == y % V
<1>1. V \in Nat \ {0} /\ V = two[w] BY ValuesType
<1>2. x \in Int /\ y \in Int BY NumbersOf
<1>3. a \in 0..(V - 1) /\ b \in 0..(V - 1) BY <1>1, <1>2, Division
<1>4. Number(t, a) = x /\ Number(t, b) = y BY Represented
<1>5. w \in Nat \ {0} /\ t.signed \in BOOLEAN /\ t.kind # "float" BY WidthType, KindOf
<1>. HIDE DEF V, w, a, b
<1>6. b # 0
  <2>1. b = 0 => Number(t, b) = 0
    <3>1. two[w - 1] \in Nat \ {0} BY <1>5, PowerIsEven
    <3>. QED BY <3>1, NumbersOf DEF Signed, w
  <2>. QED BY <1>4, <2>1
<1>7. CASE t.signed
  <2>1. Signed(w, a) = x /\ Signed(w, b) = y BY <1>4, <1>7, NumbersOf DEF w
  <2>2. ~(x = -two[w - 1] /\ y = -1) BY <1>7 DEF Overflows, w
  <2>3. ~Traps("sdiv", w, a, b) /\ ~Traps("srem", w, a, b) BY <1>6, <2>1, <2>2 DEF Traps
  <2>4. /\ Integer("sdiv", w, a, b) = Quotient(x, y) % V
        /\ Integer("srem", w, a, b) = Remainder(x, y) % V
    BY <1>1, <2>1, <2>3 DEF Integer
  <2>. QED BY <1>5, <1>7, <2>4 DEF ArithmeticInstruction, V, w, a, b
<1>8. CASE ~t.signed
  <2>1. a = x /\ b = y BY <1>4, <1>8, NumbersOf
  <2>2. x \in Nat /\ y \in Nat \ {0} BY <1>1, <1>3, <1>6, <2>1
  <2>3. Quotient(x, y) = x \div y /\ Remainder(x, y) = x % y
    <3>1. x >= 0 /\ y > 0 BY <2>2
    <3>. QED BY <1>2, <3>1, Quotients
  <2>4. ~Traps("udiv", w, a, b) /\ ~Traps("urem", w, a, b) BY <1>6 DEF Traps
  <2>5. Integer("udiv", w, a, b) = Quotient(x, y) /\ Integer("urem", w, a, b) = Remainder(x, y)
    BY <2>1, <2>3, <2>4 DEF Integer
  <2>6. Quotient(x, y) \in 0..(V - 1)
    <3>1. Quotient(x, y) \in 0..x BY <2>2, <2>3, QuotientBound
    <3>. QED BY <1>1, <1>3, <2>1, <2>2, <3>1
  <2>7. Remainder(x, y) \in 0..(V - 1) BY <1>1, <1>8, NumbersOf, RemainderInType DEF w
  <2>8. Quotient(x, y) % V = Quotient(x, y) /\ Remainder(x, y) % V = Remainder(x, y)
    BY <1>1, <2>6, <2>7, SmallRemainder
  <2>. QED BY <1>5, <1>8, <2>5, <2>8 DEF ArithmeticInstruction, V, w, a, b
<1>. QED BY <1>5, <1>7, <1>8

(* Where C++ has a quotient, it fits.                                      *)
LEMMA QuotientFits ==
  ASSUME NEW t \in Integral, NEW x \in Numbers(t), NEW y \in Numbers(t), Quotient(x, y) \in Numbers(t)
  PROVE  ~Overflows(t, x, y)
<1> DEFINE H == two[Width(t) - 1]
<1>1. SUFFICES ASSUME Overflows(t, x, y) PROVE FALSE OBVIOUS
<1>2. H \in Nat \ {0} /\ t.signed /\ x = -H /\ y = -1 BY <1>1, WidthType, PowerIsEven DEF Overflows
<1>3. Numbers(t) = (-H)..(H - 1) BY <1>2, NumbersOf
<1>. HIDE DEF H
<1>4. x < 0 /\ y < 0 /\ x \in Int /\ y \in Int BY <1>2
<1>5. Abs(x) = -x /\ Abs(y) = -y BY <1>4 DEF Abs
<1>6. Abs(x) = H /\ Abs(y) = 1 BY <1>2, <1>4, <1>5
<1>7. Quotient(x, y) = H BY <1>2, <1>4, <1>6 DEF Quotient
<1>. QED BY <1>2, <1>3, <1>7

(* The digits of the sets of bits in C++ are what the instructions compute.*)
LEMMA BitwiseFaithful ==
  ASSUME NEW t \in Integral, NEW x \in Numbers(t), NEW y \in Numbers(t), NEW op \in BitwiseOp
  PROVE  Integer(op, Width(t), x % Values(t), y % Values(t)) = CppArithmetic(t, op, x, y) % Values(t)
<1> DEFINE V == Values(t)
           w == Width(t)
           a == x % V
           b == y % V
           X == BitsOf(t, x)
           Y == BitsOf(t, y)
           Of(set) == [i \in 0..(w - 1) |-> IF i \in set THEN 1 ELSE 0]
<1>1. V \in Nat \ {0} /\ w \in Nat \ {0} BY ValuesType, WidthType
<1>2. x \in Int /\ y \in Int BY NumbersOf
<1>3. a \in Int /\ b \in Int BY <1>1, <1>2, Division
<1>4. ~Traps(op, w, a, b) /\ t.kind # "float" BY KindOf DEF Traps, BitwiseOp
<1>5. \A i \in 0..(w - 1) : /\ Digit(1, a, i) \in {0, 1} /\ Digit(1, b, i) \in {0, 1}
                            /\ i \in X <=> Digit(1, a, i) = 1
                            /\ i \in Y <=> Digit(1, b, i) = 1
  BY <1>3, BitType DEF BitsOf
<1>6. \A set : FromBits(t, set) % V = Assembled(1, w, Of(set)) BY FromBitsType
<1>. HIDE DEF V, w, a, b, X, Y
<1>7. Of(X \cap Y) = BothBits(w, a, b) BY <1>5 DEF BothBits
<1>8. Of(X \cup Y) = EitherBit(w, a, b) BY <1>5 DEF EitherBit
<1>9. Of(SymmetricDifference(X, Y)) = OneBit(w, a, b) BY <1>5 DEF OneBit, SymmetricDifference
<1>10. /\ Integer("and", w, a, b) = Assembled(1, w, Of(X \cap Y)) \/ op # "and"
       /\ Integer("or", w, a, b) = Assembled(1, w, Of(X \cup Y)) \/ op # "or"
       /\ Integer("xor", w, a, b) = Assembled(1, w, Of(SymmetricDifference(X, Y))) \/ op # "xor"
  BY <1>4, <1>7, <1>8, <1>9 DEF Integer
<1>. HIDE DEF Of
<1>11. /\ op = "and" => CppArithmetic(t, op, x, y) = FromBits(t, X \cap Y)
       /\ op = "or" => CppArithmetic(t, op, x, y) = FromBits(t, X \cup Y)
       /\ op = "xor" => CppArithmetic(t, op, x, y) = FromBits(t, SymmetricDifference(X, Y))
  BY <1>4 DEF CppArithmetic, X, Y
<1>. QED BY <1>6, <1>10, <1>11 DEF BitwiseOp, V, w, a, b

(* Whichever operator: faithful operands give a faithful result.           *)
LEMMA ArithmeticFaithful ==
  ASSUME NEW t \in Type, t.kind # "pointer", NEW op \in ArithmeticOp \cup BitwiseOp,
         op \in BitwiseOp => t \in Integral,
         NEW a, NEW x, BitsOK(t, a), NumberOK(t, x), Faithful(t, a, x), x # Undefined,
         NEW b, NEW y, BitsOK(t, b), NumberOK(t, y), Faithful(t, b, y), y # Undefined,
         ~(t = Bool /\ op = "add" /\ x = 1 /\ y = 1)
  PROVE  Faithful(t, Arithmetic(t, op, a, b), CppArithmetic(t, op, x, y))
<1>1. CASE t \in Floating
  <2>1. t.kind = "float" /\ t \notin Integral BY <1>1, KindOf
  <2>2. \A bits : Number(t, bits) = bits BY <2>1, PlainNumber
  <2>3. a = x /\ b = y BY <2>2 DEF Faithful
  <2>4. Arithmetic(t, op, a, b) = CppArithmetic(t, op, x, y)
    BY <2>1, <2>3 DEF Arithmetic, CppArithmetic, ArithmeticInstruction
  <2>. QED BY <2>2, <2>4 DEF Faithful
<1>2. CASE t \in Integral
  <2> DEFINE r == Arithmetic(t, op, a, b)
             z == CppArithmetic(t, op, x, y)
  <2>1. x \in Numbers(t) /\ a = x % Values(t) /\ y \in Numbers(t) /\ b = y % Values(t)
    BY <1>2, FaithfulBits
  <2>2. t.kind # "float" BY <1>2, KindOf
  <2>3. r = Integer(ArithmeticInstruction(t, op), Width(t), x % Values(t), y % Values(t))
    BY <2>1, <2>2 DEF Arithmetic
  <2>4. NumberOK(t, z) BY <2>1, CppArithmeticType
  <2>. SUFFICES ASSUME z # Undefined PROVE z \in Numbers(t) /\ r = z % Values(t)
    BY <1>2, BitsFaithful DEF Faithful
  <2>5. z \in Numbers(t) BY <2>4 DEF NumberOK
  <2>6. CASE op \in {"add", "sub", "mul"}
    <3>1. ArithmeticInstruction(t, op) = op BY <2>2, <2>6 DEF ArithmeticInstruction
    <3>. QED BY <1>2, <2>1, <2>3, <2>5, <2>6, <3>1, RingFaithful
  <2>7. CASE op \in BitwiseOp
    <3>1. ArithmeticInstruction(t, op) = op BY <2>2, <2>7 DEF ArithmeticInstruction, BitwiseOp
    <3>. QED BY <1>2, <2>1, <2>3, <2>5, <2>7, <3>1, BitwiseFaithful
  <2>8. CASE op = "div"
    <3>1. y # 0 /\ z = Quotient(x, y) /\ Quotient(x, y) \in Numbers(t)
      BY <2>2, <2>5, <2>8 DEF CppArithmetic, Within
    <3>. QED BY <1>2, <2>1, <2>3, <2>5, <2>8, <3>1, QuotientFits, DivisionComputes
  <2>9. CASE op = "mod"
    <3>1. y # 0 /\ z = Remainder(x, y) /\ Quotient(x, y) \in Numbers(t)
      BY <2>2, <2>9 DEF CppArithmetic
    <3>. QED BY <1>2, <2>1, <2>3, <2>5, <2>9, <3>1, QuotientFits, DivisionComputes
  <2>. QED BY <2>6, <2>7, <2>8, <2>9 DEF ArithmeticOp
<1>. QED BY <1>1, <1>2, KindOf DEF Type

-----------------------------------------------------------------------------
(* Comparisons.                                                            *)

LEMMA RelationalType ==
  ASSUME NEW t, NEW op, NEW a, NEW b
  PROVE  Relational(t, op, a, b) \in {0, 1} /\ CppRelational(op, a, b) \in {0, 1}
BY DEF Relational, CppRelational, ICmp, FCmpOrdered, Truth

LEMMA RelationalFaithful ==
  ASSUME NEW t \in Type, t.kind # "pointer", NEW op \in RelationalOp,
         NEW a, NEW x, BitsOK(t, a), NumberOK(t, x), Faithful(t, a, x), x # Undefined,
         NEW b, NEW y, BitsOK(t, b), NumberOK(t, y), Faithful(t, b, y), y # Undefined,
         op = "ne" => NaN \notin {x, y}
  PROVE  Relational(t, op, a, b) = CppRelational(op, x, y)
<1>1. CASE t \in Floating
  <2>1. t.kind = "float" /\ t \notin Integral BY <1>1, KindOf
  <2>2. a = x /\ b = y BY <2>1, PlainNumber DEF Faithful
  <2>. QED BY <2>1, <2>2 DEF Relational, FCmpOrdered, CppRelational, Truth
<1>2. CASE t \in Integral
  <2>1. t.kind # "float" /\ t.signed \in BOOLEAN BY <1>2, KindOf, WidthType
  <2>2. /\ Number(t, a) = x /\ Number(t, b) = y
        /\ x \in Numbers(t) /\ y \in Numbers(t) /\ x \in Int /\ y \in Int
    BY <1>2, FaithfulBits
  <2>3. IF t.signed THEN Signed(Width(t), a) = x /\ Signed(Width(t), b) = y ELSE a = x /\ b = y
    BY <1>2, <2>1, <2>2, NumbersOf
  <2>4. \A n \in Numbers(t) : n # NaN
    <3>1. /\ two[Width(t)] \in Nat /\ two[Width(t) - 1] \in Nat /\ two[Width(t) - 1] <= two[Width(t)]
          /\ two[Width(t)] <= NaN /\ NaN \in Nat
      BY <1>2, WidthType, ValuesType, PowerIsEven, BeyondNumbers, SentinelType
    <3>2. Numbers(t) = IF t.signed THEN (-two[Width(t) - 1])..(two[Width(t) - 1] - 1)
                       ELSE 0..(two[Width(t)] - 1)
      BY <1>2, NumbersOf
    <3>. QED BY <2>1, <3>1, <3>2
  <2>5. NaN \notin {x, y} BY <2>2, <2>4
  <2>. QED BY <2>1, <2>3, <2>5 DEF Relational, ICmp, CppRelational
<1>. QED BY <1>1, <1>2, KindOf DEF Type

-----------------------------------------------------------------------------
(* Pointers.                                                               *)

(* The index has the bits of its number at the pointer's width: it was     *)
(* extended as its type says.                                              *)
LEMMA IndexFaithful ==
  ASSUME NEW t \in Integral, NEW y \in Numbers(t)
  PROVE  Index(t, y % Values(t)) = y % two[Word * Byte]
<1> DEFINE w == Width(t)
           W == Word * Byte
           b == y % Values(t)
<1>1. /\ w \in Nat \ {0} /\ w <= W /\ t.signed \in BOOLEAN /\ t.size \in 1..Word
      /\ t.kind \in {"int", "bool"}
  BY WidthType
<1>2. Word \in Nat \ {0} /\ Byte \in Nat \ {0} /\ W \in Nat \ {0} BY OperationsAssumption
<1>3. y \in Int /\ Number(t, b) = y BY NumbersOf, Represented
<1>4. two[W] \in Nat \ {0} /\ two[w] \in Nat \ {0} /\ Values(t) = two[w]
  BY <1>1, <1>2, PowersOfTwo, ValuesType
<1>5. Width(Pointer) = W
  <2>1. Pointer # Bool /\ Pointer.size = Word BY DEF Pointer, Bool
  <2>. QED BY <2>1 DEF Width
<1>6. b \in 0..(two[w] - 1) BY <1>3, <1>4, Division
<1>7. two[w] <= two[W] BY <1>1, <1>2, PowersGrow
<1>8. Index(t, b) = IF t.size < Word THEN Extended(t.signed, w, W, b) ELSE b BY <1>5 DEF Index
<1>9. ~t.signed => b = y BY <1>1, <1>3, NumbersOf
<1>10. b = y /\ b \in 0..(two[W] - 1) => b % two[W] = y % two[W] /\ y % two[W] = b
  BY <1>4, SmallRemainder
<1>11. b \in 0..(two[W] - 1) BY <1>4, <1>6, <1>7
<1>12. CASE t.size < Word
  <2>1. CASE t.signed
    <3>1. t.kind = "int" BY <1>1, <2>1, WidthType
    <3>2. w < W
      <4>1. w = t.size * Byte BY <3>1, WidthType
      <4>2. Word - t.size \in Nat \ {0} BY <1>1, <1>2, <1>12
      <4>3. (Word - t.size) * Byte \in Nat \ {0} BY <1>2, <4>2
      <4>4. (Word - t.size) * Byte = Word * Byte - t.size * Byte BY <1>1, <1>2
      <4>. QED BY <1>1, <1>2, <4>1, <4>3, <4>4
    <3>3. Signed(w, b) = y BY <1>3, <2>1, NumbersOf
    <3>. QED BY <1>8, <1>12, <2>1, <3>2, <3>3 DEF Extended
  <2>2. CASE ~t.signed BY <1>8, <1>9, <1>10, <1>11, <1>12, <2>2 DEF Extended
  <2>. QED BY <1>1, <2>1, <2>2
<1>13. CASE ~(t.size < Word)
  <2>1. Index(t, b) = b BY <1>8, <1>13
  <2>2. CASE t.kind = "bool" BY <1>9, <1>10, <1>11, <2>1, <2>2, WidthType
  <2>3. CASE t.kind = "int"
    <3>1. t.size = Word BY <1>1, <1>2, <1>13
    <3>2. w = W BY <2>3, <3>1, WidthType
    <3>. QED BY <1>4, <2>1, <3>2
  <2>. QED BY <1>1, <2>2, <2>3
<1>. QED BY <1>12, <1>13

LEMMA PointerFacts ==
  /\ Width(Pointer) = Word * Byte /\ Pointer \notin Integral /\ Numbers(Pointer) = 0..Length
  /\ \A bits : Number(Pointer, bits) = bits
<1>1. Pointer # Bool /\ Pointer.size = Word /\ Pointer.kind = "pointer" BY DEF Pointer, Bool
<1>2. Pointer \notin Integral BY <1>1, KindOf
<1>. QED BY <1>1, <1>2, KindOf, PlainNumber DEF Width

(* Where the C++ pointer is inside the array, or at its end, the offset is *)
(* small enough to be read as a signed number of the pointer's width.      *)
LEMMA DisplacedFaithful ==
  ASSUME NEW t \in Integral, NEW op \in {"add", "sub"},
         NEW p, NEW x, BitsOK(Pointer, p), NumberOK(Pointer, x), Faithful(Pointer, p, x), x # Undefined,
         NEW b, NEW y, BitsOK(t, b), NumberOK(t, y), Faithful(t, b, y), y # Undefined
  PROVE  Faithful(Pointer, Displaced(t, op, p, b), CppDisplaced(op, x, y))
<1> DEFINE W == Word * Byte
           i == y % two[W]
           d == IF op = "add" THEN y ELSE -y
<1>1. /\ W \in Nat \ {0} /\ Length \in Nat /\ Length <= two[W - 1] - 1
      /\ two[W - 1] \in Nat /\ two[W] \in Nat \ {0}
  <2>1. W \in Nat \ {0} /\ Length \in 1..(two[W - 1] - 1) BY OperationsAssumption
  <2>. HIDE DEF W
  <2>2. two[W - 1] \in Nat /\ two[W] \in Nat \ {0} BY <2>1, PowerIsEven, PowersOfTwo
  <2>. QED BY <2>1, <2>2
<1>2. p = x /\ x \in 0..Length BY PointerFacts DEF Faithful, NumberOK
<1>3. y \in Numbers(t) /\ y \in Int /\ b = y % Values(t) BY FaithfulBits
<1>4. Index(t, b) = i BY <1>3, IndexFaithful
<1>. HIDE DEF W
<1>5. (0 - i) % two[W] = (0 - y) % two[W]
  <2> DEFINE M == two[W]
  <2>1. M \in Nat \ {0} /\ y \in Int BY <1>1, <1>3
  <2>. HIDE DEF M
  <2>2. (0 - (y % M)) % M = (0 - y) % M BY <2>1, RemainderOfNegation
  <2>. QED BY <2>2 DEF M
<1>6. Integer("sub", W, 0, i) = (0 - y) % two[W]
  <2>1. ~Traps("sub", W, 0, i) BY DEF Traps
  <2>. HIDE DEF i
  <2>2. Integer("sub", W, 0, i) = (0 - i) % two[W] BY <2>1 DEF Integer
  <2>. QED BY <1>5, <2>2
<1>7. Displaced(t, op, p, b) = InBoundsGEP(p, d % two[W])
  <2>1. 0 - y = -y BY <1>3
  <2>2. CASE op = "add" BY <1>4, <2>2 DEF Displaced
  <2>3. CASE op = "sub" BY <1>4, <1>6, <2>1, <2>3, PointerFacts DEF Displaced, W
  <2>. QED BY <2>2, <2>3
<1>8. CppDisplaced(op, x, y) = Within(Pointer, x + d) BY <1>2, <1>3 DEF CppDisplaced
<1>9. d \in Int BY <1>3
<1>. HIDE DEF d, i
<1>10. SUFFICES ASSUME x + d \in 0..Length PROVE Signed(W, d % two[W]) = d
  <2>1. InBoundsGEP(p, d % two[W]) = Within(Pointer, p + Signed(W, d % two[W]))
    BY PointerFacts DEF InBoundsGEP, W
  <2>. QED BY <1>2, <1>7, <1>8, <1>10, <2>1, PointerFacts DEF Faithful, Within
<1>11. d \in (-two[W - 1])..(two[W - 1] - 1) BY <1>1, <1>2, <1>9, <1>10
<1>. QED BY <1>1, <1>11, SignedBits

-----------------------------------------------------------------------------
(* Casts and bswap.                                                        *)

LEMMA ExtendedType ==
  ASSUME NEW from \in Integral, NEW to \in Integral, NEW a \in 0..(Values(from) - 1)
  PROVE  Extended(from.signed, Width(from), Width(to), a) \in 0..(Values(to) - 1)
<1>1. /\ Values(to) \in Nat \ {0} /\ Values(to) = two[Width(to)]
      /\ Values(from) \in Nat /\ two[Width(from)] \in Nat
  BY WidthType, ValuesType
<1>2. a \in Int /\ Signed(Width(from), a) \in Int BY <1>1 DEF Signed
<1>3. a % Values(to) \in 0..(Values(to) - 1) BY <1>1, <1>2, Division
<1>4. Signed(Width(from), a) % Values(to) \in 0..(Values(to) - 1) BY <1>1, <1>2, Division
<1>. QED BY <1>1, <1>3, <1>4 DEF Extended

(* Sign or zero extension, or the low bits: those of the same number.      *)
LEMMA ExtendedFaithful ==
  ASSUME NEW from \in Integral, NEW to \in Integral, NEW x \in Numbers(from)
  PROVE  Extended(from.signed, Width(from), Width(to), x % Values(from)) = x % Values(to)
<1> DEFINE v == Width(from)
           w == Width(to)
           a == x % Values(from)
<1>1. /\ v \in Nat \ {0} /\ w \in Nat \ {0} /\ from.signed \in BOOLEAN
      /\ Values(from) = two[v] /\ Values(to) = two[w]
      /\ two[v] \in Nat \ {0} /\ two[w] \in Nat \ {0}
  BY WidthType, ValuesType
<1>2. x \in Int /\ Number(from, a) = x BY NumbersOf, Represented
<1>3. CASE from.signed /\ w > v
  <2>1. Signed(v, a) = x BY <1>2, <1>3, NumbersOf
  <2>. QED BY <1>1, <1>3, <2>1 DEF Extended
<1>4. CASE ~from.signed
  <2>1. a = x BY <1>2, <1>4, NumbersOf
  <2>. QED BY <1>1, <1>4, <2>1 DEF Extended
<1>5. CASE from.signed /\ ~(w > v)
  <2>1. PICK k \in Nat \ {0} : two[v] = two[w] * k BY <1>1, <1>5, PowersGrow
  <2>2. (x % (two[w] * k)) % two[w] = x % two[w] BY <1>1, <1>2, RemainderOfRemainder
  <2>. QED BY <1>1, <1>5, <2>1, <2>2 DEF Extended
<1>. QED BY <1>1, <1>3, <1>4, <1>5

LEMMA ConvertedType ==
  ASSUME NEW from \in Type \ {Pointer}, NEW to \in Type \ {Pointer},
         NEW a, BitsOK(from, a), a # Undefined
  PROVE  BitsOK(to, Converted(from, to, a))
<1>1. (from \in Integral <=> from.kind # "float") /\ (to \in Integral <=> to.kind # "float")
  BY NotAPointer
<1>2. CASE to.kind = "float"
  <2>1. \A x : BitsOK(to, Within(to, x)) BY <1>1, <1>2, WithinType
  <2>. QED BY <1>2, <2>1 DEF Converted
<1>3. CASE from.kind = "float" /\ to \in Integral
  <2>1. CASE Truncated(a) \in Numbers(to)
    <3>1. Truncated(a) % Values(to) \in 0..(Values(to) - 1) BY <1>3, <2>1, BitsFaithful
    <3>. QED BY <1>1, <1>3, <2>1, <3>1 DEF Converted, BitsOK
  <2>2. CASE Truncated(a) \notin Numbers(to) BY <1>1, <1>3, <2>2 DEF Converted, BitsOK
  <2>. QED BY <2>1, <2>2
<1>4. CASE from \in Integral /\ to \in Integral
  <2>1. a \in 0..(Values(from) - 1) BY <1>4 DEF BitsOK
  <2>2. Converted(from, to, a) = Extended(from.signed, Width(from), Width(to), a)
    BY <1>1, <1>4 DEF Converted
  <2>. QED BY <1>4, <2>1, <2>2, ExtendedType DEF BitsOK
<1>. QED BY <1>1, <1>2, <1>3, <1>4

LEMMA CppConvertedType ==
  ASSUME NEW from \in Type \ {Pointer}, NEW to \in Type \ {Pointer}, NEW x \in Numbers(from)
  PROVE  NumberOK(to, CppConverted(from, to, x))
<1>1. CASE to = Bool BY <1>1, BoolValues DEF CppConverted, NumberOK, Brought, Truth
<1>2. CASE to # Bool /\ (from.kind = "float" \/ to.kind = "float")
  BY <1>2, WithinType DEF CppConverted, NumberOK
<1>3. CASE to # Bool /\ from \in Integral /\ to \in Integral
  <2>1. x \in Int /\ from.kind # "float" /\ to.kind # "float" BY <1>3, NumbersOf, NotAPointer
  <2>2. Brought(to, x) \in Numbers(to) BY <1>3, <2>1, BroughtType
  <2>. QED BY <1>3, <2>1, <2>2 DEF CppConverted, NumberOK
<1>. QED BY <1>1, <1>2, <1>3, NotAPointer

(* To bool, only what is 0 or 1 keeps its meaning.                         *)
LEMMA ConvertedFaithful ==
  ASSUME NEW from \in Type \ {Pointer}, NEW to \in Type \ {Pointer},
         NEW a, NEW x, BitsOK(from, a), NumberOK(from, x), Faithful(from, a, x), x # Undefined,
         to = Bool => x \in {0, One(from)}
  PROVE  Faithful(to, Converted(from, to, a), CppConverted(from, to, x))
<1>1. (from \in Integral <=> from.kind # "float") /\ (to \in Integral <=> to.kind # "float")
  BY NotAPointer
<1>2. CASE from.kind = "float"
  <2>1. a = x BY <1>1, <1>2, PlainNumber DEF Faithful
  <2>2. CASE to.kind = "float"
    <3>1. to # Bool BY <2>2 DEF Bool
    <3>2. Converted(from, to, a) = CppConverted(from, to, x)
      BY <1>2, <2>1, <2>2, <3>1 DEF Converted, CppConverted
    <3>. QED BY <1>1, <2>2, <3>2, PlainNumber DEF Faithful
  <2>3. CASE to \in Integral /\ to # Bool
    <3>1. SUFFICES ASSUME CppConverted(from, to, x) # Undefined
                   PROVE  /\ CppConverted(from, to, x) \in Numbers(to)
                          /\ Converted(from, to, a) = CppConverted(from, to, x) % Values(to)
      BY <2>3, BitsFaithful DEF Faithful
    <3>2. x # NaN /\ CppConverted(from, to, x) = Truncated(x) /\ Truncated(x) \in Numbers(to)
      BY <1>1, <1>2, <2>3, <3>1 DEF CppConverted, Within
    <3>. QED BY <1>1, <1>2, <2>1, <2>3, <3>2 DEF Converted
  <2>4. CASE to = Bool
    <3>1. One(from) = 2 /\ x \in {0, 2} BY <1>2, <2>4 DEF One
    <3>2. Truncated(0) = 0 /\ Truncated(2) = 1 BY DEF Truncated, Quotient, Abs
    <3>3. NaN \notin {0, 2}
      <4>1. /\ two[1] = 2 /\ two[2] = 4 /\ two[2] <= NaN + 1 /\ NaN \in Nat
        <5>1. 4 * Word * Byte + 4 \in Nat /\ 2 <= 4 * Word * Byte + 4
          <6>1. Word * Byte \in Nat /\ 4 * Word * Byte = 4 * (Word * Byte) BY OperationsAssumption
          <6>. QED BY <6>1
        <5>2. two[2] <= Undefined BY <5>1, PowersGrow DEF Undefined
        <5>3. two[0 + 1] = 2 * two[0] /\ two[1 + 1] = 2 * two[1] /\ two[0] = 1 BY PowersOfTwo
        <5>4. two[1] = 2 /\ two[2] = 4 BY <5>3
        <5>. QED BY <5>2, <5>4, SentinelType DEF NaN
      <4>. QED BY <4>1
    <3>4. Numbers(Bool) = 0..1 /\ Values(Bool) = 2 BY BoolValues
    <3>5. x # NaN /\ Truncated(x) \in Numbers(to) BY <2>4, <3>1, <3>2, <3>3, <3>4
    <3>6. to.kind # "float" BY <2>4 DEF Bool
    <3>7. Converted(from, to, a) = Truncated(x) % Values(to) BY <1>2, <2>1, <3>5, <3>6 DEF Converted
    <3>8. CppConverted(from, to, x) = Truncated(x) BY <2>4, <3>1, <3>2 DEF CppConverted, Brought, Truth
    <3>. QED BY <1>1, <3>5, <3>6, <3>7, <3>8, BitsFaithful
  <2>. QED BY <1>1, <2>2, <2>3, <2>4
<1>3. CASE from \in Integral
  <2>1. x \in Numbers(from) /\ x \in Int /\ a = x % Values(from) /\ Number(from, a) = x
    BY <1>3, FaithfulBits
  <2>2. CASE to.kind = "float"
    <3>1. to # Bool BY <2>2 DEF Bool
    <3>2. Converted(from, to, a) = CppConverted(from, to, x)
      BY <1>1, <1>3, <2>1, <2>2, <3>1 DEF Converted, CppConverted
    <3>. QED BY <1>1, <2>2, <3>2, PlainNumber DEF Faithful
  <2>3. CASE to \in Integral
    <3>1. Converted(from, to, a) = x % Values(to)
      BY <1>1, <1>3, <2>1, <2>3, ExtendedFaithful DEF Converted
    <3>2. CASE to # Bool
      <4>1. CppConverted(from, to, x) = Wrapped(to, x)
        BY <1>1, <1>3, <2>3, <3>2 DEF CppConverted, Brought
      <4>2. Wrapped(to, x) \in Numbers(to) /\ Wrapped(to, x) % Values(to) = x % Values(to)
        BY <2>1, <2>3, WrappedType
      <4>. QED BY <2>3, <3>1, <4>1, <4>2, BitsFaithful
    <3>3. CASE to = Bool
      <4>1. x \in {0, 1} BY <1>1, <1>3, <3>3 DEF One
      <4>2. CppConverted(from, to, x) = x BY <3>3, <4>1 DEF CppConverted, Brought, Truth
      <4>3. x \in Numbers(to) BY <3>3, <4>1, BoolValues
      <4>. QED BY <2>3, <3>1, <4>2, <4>3, BitsFaithful
    <3>. QED BY <3>2, <3>3
  <2>. QED BY <1>1, <2>2, <2>3
<1>. QED BY <1>1, <1>2, <1>3

LEMMA SwappedType ==
  ASSUME NEW t \in Integral, t.size % 2 # 1, NEW a \in Int
  PROVE  Swapped(t, a) \in 0..(Values(t) - 1)
<1> DEFINE n == t.size
           digit == [i \in 0..(n - 1) |-> Digit(Byte, a, n - 1 - i)]
<1>1. n \in Nat /\ Byte \in Nat /\ t.kind \in {"int", "bool"} BY WidthType, OperationsAssumption
<1>2. t # Bool BY DEF Bool
<1>3. Width(t) = n * Byte BY <1>2 DEF Width
<1>4. ASSUME NEW i \in 0..(n - 1) PROVE Digit(Byte, a, n - 1 - i) \in 0..(two[Byte] - 1)
  <2>1. n - 1 - i \in Nat BY <1>1
  <2>. QED BY <1>1, <2>1, DigitType
<1>5. digit \in [0..(n - 1) -> 0..(two[Byte] - 1)] BY <1>4
<1>6. Swapped(t, a) = Assembled(Byte, n, digit) BY DEF Swapped
<1>. HIDE DEF n, digit
<1>7. Assembled(Byte, n, digit) \in 0..(two[Byte * n] - 1) BY <1>1, <1>5, AssembledType
<1>8. Byte * n = n * Byte BY <1>1
<1>. QED BY <1>3, <1>6, <1>7, <1>8 DEF Values

-----------------------------------------------------------------------------
(* One step.                                                               *)

Expression == [type : Type, bits : Int, number : Int]
Sound(e) == e.type \in Type /\ NumberOK(e.type, e.number) /\ BitsOK(e.type, e.bits)

LEMMA TypeParts ==
  TypeOK <=> /\ malformed \in BOOLEAN /\ operands \in Seq(Expression)
             /\ \A i \in DOMAIN operands : Sound(operands[i])
BY DEF TypeOK, Expression, Sound, NumberOK, BitsOK

LEMMA ValueParts ==
  ValueIsTheCppValue <=>
    \A i \in DOMAIN operands : Faithful(operands[i].type, operands[i].bits, operands[i].number)
BY DEF ValueIsTheCppValue, Faithful

LEMMA TypePartsNext ==
  (/\ malformed \in BOOLEAN /\ operands \in Seq(Expression)
   /\ \A i \in DOMAIN operands : Sound(operands[i]))' => TypeOK'
BY TypeParts, PTL

LEMMA ValuePartsNext ==
  (\A i \in DOMAIN operands : Faithful(operands[i].type, operands[i].bits, operands[i].number))'
    => ValueIsTheCppValue'
BY ValueParts, PTL

LEMMA SoundIsAnExpression ==
  ASSUME NEW t, NEW bits, NEW number, Sound(Operand(t, bits, number))
  PROVE  Operand(t, bits, number) \in Expression
<1>1. t \in Type /\ NumberOK(t, number) /\ BitsOK(t, bits) BY DEF Sound, Operand
<1>2. Undefined \in Int /\ NaN \in Int BY SentinelType
<1>3. Numbers(t) \subseteq Int
  <2>1. CASE t \in Integral BY <2>1, NumbersOf
  <2>2. CASE t \in Floating
    <3>1. PICK n \in DOMAIN Halves : t.kind = "float" /\ t.size = n BY <2>2 DEF Floating
    <3>2. Numbers(t) = (-Halves[n])..Halves[n] \cup {NaN} BY <3>1 DEF Numbers
    <3>. QED BY <1>2, <3>2
  <2>3. CASE t = Pointer BY <2>3, PointerFacts
  <2>. QED BY <1>1, <2>1, <2>2, <2>3 DEF Type
<1>4. bits \in Int /\ number \in Int
  <2>1. t \in Integral => Values(t) \in Nat BY ValuesType
  <2>. QED BY <1>1, <1>2, <1>3, <2>1 DEF BitsOK, NumberOK
<1>. QED BY <1>1, <1>4 DEF Operand, Expression

LEMMA TopSound ==
  ASSUME TypeOK, NEW n \in Nat, n < Len(operands)
  PROVE  /\ Top(n).type \in Type
         /\ BitsOK(Top(n).type, Top(n).bits) /\ NumberOK(Top(n).type, Top(n).number)
         /\ ValueIsTheCppValue => Faithful(Top(n).type, Top(n).bits, Top(n).number)
<1>1. operands \in Seq(Expression) BY TypeParts
<1>2. Len(operands) - n \in DOMAIN operands BY <1>1
<1>3. Sound(Top(n)) BY <1>2, TypeParts DEF Top
<1>4. ValueIsTheCppValue => Faithful(Top(n).type, Top(n).bits, Top(n).number)
  BY <1>2, ValueParts DEF Top
<1>. QED BY <1>3, <1>4 DEF Sound

(* All the operands an operator takes are defined.                         *)
BitsDefined(n)    == \A i \in 0..(n - 1) : Top(i).bits # Undefined
NumbersDefined(n) == \A i \in 0..(n - 1) : Top(i).number # Undefined

LEMMA ResultOperands ==
  ASSUME TypeOK, NEW n \in Nat, n <= Len(operands), NEW t, NEW bits, NEW number,
         Result(n, t, bits, number)
  PROVE  LET e == Operand(t, IF BitsDefined(n) THEN bits ELSE Undefined,
                             IF NumbersDefined(n) THEN number ELSE Undefined)
         IN  /\ operands' = Append(Rest(n), e)
             /\ Rest(n) \in Seq(Expression)
             /\ DOMAIN operands' = 1..(Len(Rest(n)) + 1)
             /\ operands'[Len(Rest(n)) + 1] = e
             /\ \A i \in 1..Len(Rest(n)) : i \in DOMAIN operands /\ operands'[i] = operands[i]
             /\ malformed' = malformed
<1> DEFINE e == Operand(t, IF BitsDefined(n) THEN bits ELSE Undefined,
                           IF NumbersDefined(n) THEN number ELSE Undefined)
           rest == Rest(n)
<1>1. operands \in Seq(Expression) BY TypeParts
<1>2. operands' = Append(rest, e) /\ malformed' = malformed
  BY DEF Result, BitsDefined, NumbersDefined
<1>3. Len(operands) \in Nat /\ Len(operands) - n \in 0..Len(operands) BY <1>1
<1>4. rest \in Seq(Expression) /\ Len(rest) = Len(operands) - n
      /\ \A i \in 1..Len(rest) : i \in DOMAIN operands /\ rest[i] = operands[i]
  BY <1>1, <1>3, SubSeqProperties DEF Rest
<1>. HIDE DEF e, rest
<1>5. /\ DOMAIN operands' = 1..(Len(rest) + 1) /\ operands'[Len(rest) + 1] = e
      /\ \A i \in 1..Len(rest) : operands'[i] = rest[i]
  <2> DEFINE S == Expression \cup {e}
  <2>1. rest \in Seq(S) /\ e \in S BY <1>4
  <2>. HIDE DEF S
  <2>2. /\ Append(rest, e) \in Seq(S) /\ Len(Append(rest, e)) = Len(rest) + 1
        /\ \A i \in 1..Len(rest) : Append(rest, e)[i] = rest[i]
        /\ Append(rest, e)[Len(rest) + 1] = e
    BY <2>1, AppendProperties
  <2>3. DOMAIN Append(rest, e) = 1..Len(Append(rest, e)) BY <2>2
  <2>. QED BY <1>2, <2>2, <2>3
<1>. QED BY <1>2, <1>4, <1>5 DEF e, rest

LEMMA ResultType ==
  ASSUME TypeOK, NEW n \in Nat, n <= Len(operands), NEW t \in Type, NEW bits, NEW number,
         Result(n, t, bits, number),
         BitsDefined(n) => BitsOK(t, bits),
         NumbersDefined(n) => NumberOK(t, number)
  PROVE  TypeOK'
<1> DEFINE e == Operand(t, IF BitsDefined(n) THEN bits ELSE Undefined,
                           IF NumbersDefined(n) THEN number ELSE Undefined)
           rest == Rest(n)
<1>1. /\ operands' = Append(rest, e) /\ rest \in Seq(Expression)
      /\ DOMAIN operands' = 1..(Len(rest) + 1) /\ operands'[Len(rest) + 1] = e
      /\ \A i \in 1..Len(rest) : i \in DOMAIN operands /\ operands'[i] = operands[i]
      /\ malformed' = malformed
  BY ResultOperands
<1>2. Sound(e) BY DEF Sound, Operand, BitsOK, NumberOK
<1>3. e \in Expression BY <1>2, SoundIsAnExpression
<1>. HIDE DEF e, rest
<1>4. operands' \in Seq(Expression) BY <1>1, <1>3
<1>5. malformed' \in BOOLEAN /\ \A i \in DOMAIN operands : Sound(operands[i]) BY <1>1, TypeParts
<1>6. ASSUME NEW i \in DOMAIN operands' PROVE Sound(operands'[i])
  <2>1. Len(rest) \in Nat BY <1>1
  <2>2. i \in 1..Len(rest) \/ i = Len(rest) + 1 BY <1>1, <2>1
  <2>. QED BY <1>1, <1>2, <1>5, <2>2
<1>7. /\ malformed' \in BOOLEAN /\ operands' \in Seq(Expression)
      /\ \A i \in DOMAIN operands' : Sound(operands'[i])
  BY <1>4, <1>5, <1>6
<1>. QED BY <1>7, TypePartsNext

LEMMA ResultFaithful ==
  ASSUME TypeOK, ValueIsTheCppValue, NEW n \in Nat, n <= Len(operands), NEW t, NEW bits, NEW number,
         Result(n, t, bits, number),
         NumbersDefined(n) => Faithful(t, bits, number)
  PROVE  ValueIsTheCppValue'
<1> DEFINE e == Operand(t, IF BitsDefined(n) THEN bits ELSE Undefined,
                           IF NumbersDefined(n) THEN number ELSE Undefined)
           rest == Rest(n)
<1>1. /\ operands' = Append(rest, e) /\ rest \in Seq(Expression)
      /\ DOMAIN operands' = 1..(Len(rest) + 1) /\ operands'[Len(rest) + 1] = e
      /\ \A i \in 1..Len(rest) : i \in DOMAIN operands /\ operands'[i] = operands[i]
      /\ malformed' = malformed
  BY ResultOperands
<1>2. NumbersDefined(n) => BitsDefined(n)
  <2>1. ASSUME NEW i \in 0..(n - 1) PROVE Faithful(Top(i).type, Top(i).bits, Top(i).number)
    <3>1. Len(operands) \in Nat BY TypeParts
    <3>2. i \in Nat /\ i < Len(operands) BY <3>1
    <3>. QED BY <3>2, TopSound
  <2>. QED BY <2>1 DEF NumbersDefined, BitsDefined, Faithful
<1>3. e.type = t /\ (e.number # Undefined => e.bits = bits /\ e.number = number /\ NumbersDefined(n))
  BY <1>2 DEF Operand
<1>4. Faithful(e.type, e.bits, e.number) BY <1>3 DEF Faithful
<1>. HIDE DEF e, rest
<1>5. ASSUME NEW i \in DOMAIN operands'
      PROVE  Faithful(operands'[i].type, operands'[i].bits, operands'[i].number)
  <2>1. Len(rest) \in Nat BY <1>1
  <2>2. i \in 1..Len(rest) \/ i = Len(rest) + 1 BY <1>1, <2>1
  <2>. QED BY <1>1, <1>4, <2>2, ValueParts
<1>. QED BY <1>5, ValuePartsNext

-----------------------------------------------------------------------------
(* The actions.                                                            *)

(* No != on NaN, no cast to bool of what is neither 0 nor 1, and no sum of *)
(* true and true.                                                          *)
Honest == {"nan_not_equal", "cast_to_bool", "bool_sum"} \cap Liberties = {}

Kept == TypeOK' /\ (Honest /\ ValueIsTheCppValue => ValueIsTheCppValue')

LEMMA OneOperand ==
  ASSUME TypeOK, operands # <<>>
  PROVE  /\ 1 <= Len(operands)
         /\ Top(0).type \in Type
         /\ BitsOK(Top(0).type, Top(0).bits) /\ NumberOK(Top(0).type, Top(0).number)
         /\ ValueIsTheCppValue => Faithful(Top(0).type, Top(0).bits, Top(0).number)
         /\ BitsDefined(1) => Top(0).bits # Undefined
         /\ NumbersDefined(1) => Top(0).number # Undefined
<1>1. operands \in Seq(Expression) BY TypeParts
<1>2. Len(operands) \in Nat /\ Len(operands) # 0 BY <1>1, EmptySeq
<1>3. 1 <= Len(operands) /\ 0 < Len(operands) /\ 0 \in Nat BY <1>2
<1>. QED BY <1>3, TopSound DEF BitsDefined, NumbersDefined

LEMMA TwoOperands ==
  ASSUME TypeOK, Len(operands) >= 2
  PROVE  \A n \in {0, 1} :
           /\ Top(n).type \in Type
           /\ BitsOK(Top(n).type, Top(n).bits) /\ NumberOK(Top(n).type, Top(n).number)
           /\ ValueIsTheCppValue => Faithful(Top(n).type, Top(n).bits, Top(n).number)
           /\ BitsDefined(2) => Top(n).bits # Undefined
           /\ NumbersDefined(2) => Top(n).number # Undefined
<1>1. Len(operands) \in Nat BY TypeParts
<1>2. \A n \in {0, 1} : n \in Nat /\ n < Len(operands) /\ n \in 0..(2 - 1) BY <1>1
<1>. QED BY <1>2, TopSound DEF BitsDefined, NumbersDefined

LEMMA ConstantOK ==
  ASSUME NEW t \in Type, NEW x \in Numbers(t)
  PROVE  /\ BitsOK(t, get_constant(t, x)) /\ NumberOK(t, x)
         /\ Faithful(t, get_constant(t, x), x)
<1>1. CASE t \in Integral BY <1>1, BitsFaithful DEF get_constant, BitsOK, NumberOK
<1>2. CASE t \notin Integral BY <1>2, PlainNumber DEF get_constant, BitsOK, NumberOK, Faithful
<1>. QED BY <1>1, <1>2

LEMMA NewOperand ==
  ASSUME TypeOK, NEW t \in Type, NEW x \in Numbers(t), Result(0, t, get_constant(t, x), x)
  PROVE  Kept
<1>1. 0 \in Nat /\ 0 <= Len(operands) BY TypeParts
<1>2. TypeOK' BY <1>1, ConstantOK, ResultType
<1>3. ValueIsTheCppValue => ValueIsTheCppValue' BY <1>1, ConstantOK, ResultFaithful
<1>. QED BY <1>2, <1>3 DEF Kept

LEMMA ConstantStep ==
  ASSUME TypeOK, Constant
  PROVE  Kept
<1>1. PICK t \in Type : \E x \in Numbers(t) : Result(0, t, get_constant(t, x), x) BY DEF Constant
<1>. QED BY <1>1, NewOperand

LEMMA LiteralStep ==
  ASSUME TypeOK, Literal
  PROVE  Kept
<1>1. PICK t \in Integral \ {Bool}, v \in 0..(two[Word * Byte] - 1) :
        Result(0, t, get_constant(t, Wrapped(t, v)), Wrapped(t, v))
  BY DEF Literal
<1>2. Word * Byte \in Nat BY OperationsAssumption
<1>3. two[Word * Byte] \in Nat BY <1>2, PowersOfTwo
<1>4. v \in Int BY <1>3
<1>5. Wrapped(t, v) \in Numbers(t) /\ t \in Type BY <1>4, WrappedType, KindOf
<1>. QED BY <1>1, <1>5, NewOperand

LEMMA ArithmeticStep ==
  ASSUME TypeOK, ArithmeticOperator
  PROVE  Kept
<1> DEFINE t == Top(0).type
           a == Top(1).bits
           b == Top(0).bits
           x == Top(1).number
           y == Top(0).number
<1>1. Len(operands) >= 2 /\ Top(1).type = t BY DEF ArithmeticOperator
<1>2. PICK op \in ArithmeticOp \cup BitwiseOp :
        /\ t.kind # "pointer" /\ (op \in BitwiseOp => t \in Integral)
        /\ t = Bool /\ op = "add" /\ y = 1 /\ x = 1 => "bool_sum" \in Liberties
        /\ Result(2, t, Arithmetic(t, op, a, b), CppArithmetic(t, op, x, y))
  BY DEF ArithmeticOperator
<1>3. /\ t \in Type
      /\ BitsOK(t, a) /\ BitsOK(t, b) /\ NumberOK(t, x) /\ NumberOK(t, y)
      /\ ValueIsTheCppValue => Faithful(t, a, x) /\ Faithful(t, b, y)
      /\ BitsDefined(2) => Undefined \notin {a, b}
      /\ NumbersDefined(2) => x # Undefined /\ y # Undefined
  BY <1>1, TwoOperands
<1>. HIDE DEF t, a, b, x, y
<1>4. BitsDefined(2) => BitsOK(t, Arithmetic(t, op, a, b)) BY <1>2, <1>3, ArithmeticType
<1>5. NumbersDefined(2) => NumberOK(t, CppArithmetic(t, op, x, y))
  <2>1. NumbersDefined(2) => x \in Numbers(t) /\ y \in Numbers(t) BY <1>3 DEF NumberOK
  <2>. QED BY <1>2, <1>3, <2>1, CppArithmeticType
<1>6. TypeOK' BY <1>1, <1>2, <1>3, <1>4, <1>5, ResultType
<1>7. Honest /\ ValueIsTheCppValue /\ NumbersDefined(2)
        => Faithful(t, Arithmetic(t, op, a, b), CppArithmetic(t, op, x, y))
  <2>1. Honest => ~(t = Bool /\ op = "add" /\ x = 1 /\ y = 1) BY <1>2 DEF Honest
  <2>. QED BY <1>2, <1>3, <2>1, ArithmeticFaithful
<1>8. Honest /\ ValueIsTheCppValue => ValueIsTheCppValue' BY <1>1, <1>2, <1>7, ResultFaithful
<1>. QED BY <1>6, <1>8 DEF Kept

LEMMA RelationalStep ==
  ASSUME TypeOK, RelationalOperator
  PROVE  Kept
<1> DEFINE t == Top(0).type
           a == Top(1).bits
           b == Top(0).bits
           x == Top(1).number
           y == Top(0).number
<1>1. Len(operands) >= 2 /\ Top(1).type = t BY DEF RelationalOperator
<1>2. PICK op \in RelationalOp :
        /\ t.kind # "pointer"
        /\ op = "ne" /\ NaN \in {y, x} => "nan_not_equal" \in Liberties
        /\ Result(2, Bool, Relational(t, op, a, b), CppRelational(op, x, y))
  BY DEF RelationalOperator
<1>3. /\ t \in Type
      /\ BitsOK(t, a) /\ BitsOK(t, b) /\ NumberOK(t, x) /\ NumberOK(t, y)
      /\ ValueIsTheCppValue => Faithful(t, a, x) /\ Faithful(t, b, y)
      /\ NumbersDefined(2) => x # Undefined /\ y # Undefined
  BY <1>1, TwoOperands
<1>. HIDE DEF t, a, b, x, y
<1>4. Bool \in Integral /\ Bool \in Type /\ Values(Bool) = 2 /\ Numbers(Bool) = 0..1
      /\ \A bits : Number(Bool, bits) = bits
  BY KindOf, BoolValues
<1>5. Relational(t, op, a, b) \in 0..1 /\ CppRelational(op, x, y) \in 0..1
  <2>1. Relational(t, op, a, b) \in {0, 1} /\ CppRelational(op, x, y) \in {0, 1} BY RelationalType
  <2>. QED BY <2>1
<1>6. BitsOK(Bool, Relational(t, op, a, b)) /\ NumberOK(Bool, CppRelational(op, x, y))
  BY <1>4, <1>5 DEF BitsOK, NumberOK
<1>7. TypeOK' BY <1>1, <1>2, <1>4, <1>6, ResultType
<1>8. Honest /\ ValueIsTheCppValue /\ NumbersDefined(2)
        => Faithful(Bool, Relational(t, op, a, b), CppRelational(op, x, y))
  <2>1. Honest => (op = "ne" => NaN \notin {x, y}) BY <1>2 DEF Honest
  <2>2. Honest /\ ValueIsTheCppValue /\ NumbersDefined(2)
          => Relational(t, op, a, b) = CppRelational(op, x, y)
    BY <1>2, <1>3, <2>1, RelationalFaithful
  <2>. QED BY <1>4, <2>2 DEF Faithful
<1>9. Honest /\ ValueIsTheCppValue => ValueIsTheCppValue' BY <1>1, <1>2, <1>8, ResultFaithful
<1>. QED BY <1>7, <1>9 DEF Kept

LEMMA PointerStep ==
  ASSUME TypeOK, PointerOperator
  PROVE  Kept
<1> DEFINE t == Top(0).type
           p == Top(1).bits
           b == Top(0).bits
           x == Top(1).number
           y == Top(0).number
<1>1. Len(operands) >= 2 /\ Top(1).type = Pointer /\ t \in Integral BY DEF PointerOperator
<1>2. PICK op \in {"add", "sub"} :
        Result(2, Pointer, Displaced(t, op, p, b), CppDisplaced(op, x, y))
  BY DEF PointerOperator
<1>3. /\ BitsOK(Pointer, p) /\ BitsOK(t, b) /\ NumberOK(Pointer, x) /\ NumberOK(t, y)
      /\ ValueIsTheCppValue => Faithful(Pointer, p, x) /\ Faithful(t, b, y)
      /\ NumbersDefined(2) => x # Undefined /\ y # Undefined
  BY <1>1, TwoOperands
<1>. HIDE DEF t, p, b, x, y
<1>4. Pointer \in Type /\ Pointer \notin Integral BY KindOf, PointerFacts
<1>5. BitsOK(Pointer, Displaced(t, op, p, b)) BY <1>4, WithinType DEF Displaced, InBoundsGEP
<1>6. NumberOK(Pointer, CppDisplaced(op, x, y)) BY WithinType DEF CppDisplaced
<1>7. TypeOK' BY <1>1, <1>2, <1>4, <1>5, <1>6, ResultType
<1>8. ValueIsTheCppValue /\ NumbersDefined(2)
        => Faithful(Pointer, Displaced(t, op, p, b), CppDisplaced(op, x, y))
  BY <1>1, <1>3, DisplacedFaithful
<1>9. ValueIsTheCppValue => ValueIsTheCppValue' BY <1>1, <1>2, <1>8, ResultFaithful
<1>. QED BY <1>7, <1>9 DEF Kept

LEMMA CastStep ==
  ASSUME TypeOK, Cast
  PROVE  Kept
<1> DEFINE from == Top(0).type
           a == Top(0).bits
           x == Top(0).number
<1>1. operands # <<>> /\ from # Pointer BY DEF Cast
<1>2. PICK to \in Type \ {Pointer} :
        /\ to = Bool /\ x \notin {0, One(from)} => "cast_to_bool" \in Liberties
        /\ Result(1, to, Converted(from, to, a), CppConverted(from, to, x))
  BY DEF Cast
<1>3. /\ 1 <= Len(operands) /\ from \in Type \ {Pointer}
      /\ BitsOK(from, a) /\ NumberOK(from, x)
      /\ ValueIsTheCppValue => Faithful(from, a, x)
      /\ BitsDefined(1) => a # Undefined
      /\ NumbersDefined(1) => x # Undefined
  BY <1>1, OneOperand
<1>. HIDE DEF from, a, x
<1>4. BitsDefined(1) => BitsOK(to, Converted(from, to, a)) BY <1>3, ConvertedType
<1>5. NumbersDefined(1) => NumberOK(to, CppConverted(from, to, x))
  <2>1. NumbersDefined(1) => x \in Numbers(from) BY <1>3 DEF NumberOK
  <2>. QED BY <1>3, <2>1, CppConvertedType
<1>6. TypeOK' BY <1>2, <1>3, <1>4, <1>5, ResultType
<1>7. Honest /\ ValueIsTheCppValue /\ NumbersDefined(1)
        => Faithful(to, Converted(from, to, a), CppConverted(from, to, x))
  <2>1. Honest => (to = Bool => x \in {0, One(from)}) BY <1>2 DEF Honest
  <2>. QED BY <1>2, <1>3, <2>1, ConvertedFaithful
<1>8. Honest /\ ValueIsTheCppValue => ValueIsTheCppValue' BY <1>2, <1>3, <1>7, ResultFaithful
<1>. QED BY <1>6, <1>8 DEF Kept

LEMMA MalformedStep ==
  ASSUME TypeOK, Malformed
  PROVE  Kept
<1>1. operands' = operands /\ malformed' = TRUE BY DEF Malformed
<1>2. operands \in Seq(Expression) /\ \A i \in DOMAIN operands : Sound(operands[i]) BY TypeParts
<1>3. TypeOK' BY <1>1, <1>2, TypePartsNext
<1>4. ValueIsTheCppValue => ValueIsTheCppValue' BY <1>1, ValueParts, ValuePartsNext
<1>. QED BY <1>3, <1>4 DEF Kept

LEMMA BitCastStep ==
  ASSUME TypeOK, BitCast
  PROVE  Kept
<1> DEFINE from == Top(0).type
           a == Top(0).bits
           x == Top(0).number
<1>1. operands # <<>> /\ from \in Integral BY DEF BitCast
<1>2. PICK to \in Integral :
        IF Width(from) # Width(to) THEN Malformed ELSE Result(1, to, a, Wrapped(to, x))
  BY DEF BitCast
<1>3. CASE Width(from) # Width(to) BY <1>2, <1>3, MalformedStep
<1>4. CASE Width(from) = Width(to)
  <2>1. /\ 1 <= Len(operands)
        /\ BitsOK(from, a) /\ NumberOK(from, x)
        /\ ValueIsTheCppValue => Faithful(from, a, x)
        /\ BitsDefined(1) => a # Undefined
        /\ NumbersDefined(1) => x # Undefined
    BY <1>1, OneOperand
  <2>2. to \in Type /\ Result(1, to, a, Wrapped(to, x)) BY <1>2, <1>4, KindOf
  <2>3. Values(from) = Values(to) BY <1>4 DEF Values
  <2>. HIDE DEF from, a, x
  <2>4. BitsOK(to, a) BY <1>1, <2>1, <2>3 DEF BitsOK
  <2>5. NumbersDefined(1) => Wrapped(to, x) \in Numbers(to) /\ Wrapped(to, x) % Values(to) = x % Values(to)
    <3>1. NumbersDefined(1) => x \in Numbers(from) BY <2>1 DEF NumberOK
    <3>2. NumbersDefined(1) => x \in Int BY <1>1, <3>1, NumbersOf
    <3>. QED BY <3>2, WrappedType
  <2>6. TypeOK' BY <2>1, <2>2, <2>4, <2>5, ResultType DEF NumberOK
  <2>7. ValueIsTheCppValue /\ NumbersDefined(1) => Faithful(to, a, Wrapped(to, x))
    <3>1. ValueIsTheCppValue /\ NumbersDefined(1) => a = x % Values(from) BY <1>1, <2>1, FaithfulBits
    <3>. QED BY <2>3, <2>5, <3>1, BitsFaithful
  <2>8. ValueIsTheCppValue => ValueIsTheCppValue' BY <2>1, <2>2, <2>7, ResultFaithful
  <2>. QED BY <2>6, <2>8 DEF Kept
<1>. QED BY <1>3, <1>4

LEMMA BswapStep ==
  ASSUME TypeOK, Bswap
  PROVE  Kept
<1> DEFINE t == Top(0).type
           a == Top(0).bits
           x == Top(0).number
<1>1. operands # <<>> /\ t \in Integral BY DEF Bswap
<1>2. IF t.size % 2 = 1 THEN Malformed
      ELSE Result(1, t, Swapped(t, a), Number(t, Swapped(t, x % Values(t))))
  BY DEF Bswap
<1>3. CASE t.size % 2 = 1 BY <1>2, <1>3, MalformedStep
<1>4. CASE t.size % 2 # 1
  <2>1. /\ 1 <= Len(operands) /\ t \in Type
        /\ BitsOK(t, a) /\ NumberOK(t, x)
        /\ ValueIsTheCppValue => Faithful(t, a, x)
        /\ BitsDefined(1) => a # Undefined
        /\ NumbersDefined(1) => x # Undefined
    BY <1>1, OneOperand
  <2>. HIDE DEF t, a, x
  <2>2. BitsDefined(1) => BitsOK(t, Swapped(t, a))
    <3>1. BitsDefined(1) => a \in Int BY <1>1, <2>1, ValuesType DEF BitsOK
    <3>. QED BY <1>1, <1>4, <3>1, SwappedType DEF BitsOK
  <2>3. NumbersDefined(1) =>
          /\ Number(t, Swapped(t, x % Values(t))) \in Numbers(t)
          /\ Number(t, Swapped(t, x % Values(t))) % Values(t) = Swapped(t, x % Values(t))
    <3>1. NumbersDefined(1) => x \in Numbers(t) BY <2>1 DEF NumberOK
    <3>2. NumbersDefined(1) => x % Values(t) \in Int
      <4>1. NumbersDefined(1) => x \in Int BY <1>1, <3>1, NumbersOf
      <4>. QED BY <1>1, <4>1, ValuesType, Division
    <3>3. NumbersDefined(1) => Swapped(t, x % Values(t)) \in 0..(Values(t) - 1)
      BY <1>1, <1>4, <3>2, SwappedType
    <3>. QED BY <1>1, <3>3, Represented
  <2>4. TypeOK' BY <1>2, <1>4, <2>1, <2>2, <2>3, ResultType DEF NumberOK
  <2>5. ValueIsTheCppValue /\ NumbersDefined(1)
          => Faithful(t, Swapped(t, a), Number(t, Swapped(t, x % Values(t))))
    <3>1. ValueIsTheCppValue /\ NumbersDefined(1) => a = x % Values(t) BY <1>1, <2>1, FaithfulBits
    <3>. QED BY <1>1, <2>3, <3>1, BitsFaithful
  <2>6. ValueIsTheCppValue => ValueIsTheCppValue' BY <1>2, <1>4, <2>1, <2>5, ResultFaithful
  <2>. QED BY <2>4, <2>6 DEF Kept
<1>. QED BY <1>3, <1>4

(* The next operator cannot be malformed: integers of one size have one    *)
(* width, and an even number of bytes can be swapped.                      *)
LEMMA WellFormedStep ==
  ASSUME "no_instruction" \notin Liberties, ~malformed, [Next]_vars
  PROVE  ~malformed'
<1>1. \A n, t, bits, number : Result(n, t, bits, number) => ~malformed' BY DEF Result
<1>2. CASE Constant \/ Literal BY <1>1, <1>2 DEF Constant, Literal
<1>3. CASE ArithmeticOperator BY <1>1, <1>3 DEF ArithmeticOperator
<1>4. CASE RelationalOperator BY <1>1, <1>4 DEF RelationalOperator
<1>5. CASE PointerOperator BY <1>1, <1>5 DEF PointerOperator
<1>6. CASE Cast BY <1>1, <1>6 DEF Cast
<1>7. CASE BitCast
  <2> DEFINE from == Top(0).type
  <2>1. PICK to \in Integral :
          /\ SameSize(from, to)
          /\ Bool \in {from, to} /\ from # to => "no_instruction" \in Liberties
          /\ IF Width(from) # Width(to) THEN Malformed
             ELSE Result(1, to, Top(0).bits, Wrapped(to, Top(0).number))
    BY <1>7 DEF BitCast
  <2>. HIDE DEF from
  <2>2. Width(from) = Width(to)
    <3>1. CASE from = to BY <3>1
    <3>2. CASE from # to BY <2>1, <3>2 DEF SameSize, Width
    <3>. QED BY <3>1, <3>2
  <2>. QED BY <1>1, <2>1, <2>2
<1>8. CASE Bswap BY <1>1, <1>8 DEF Bswap
<1>9. CASE UNCHANGED vars BY <1>9 DEF vars
<1>. QED BY <1>2, <1>3, <1>4, <1>5, <1>6, <1>7, <1>8, <1>9 DEF Next

LEMMA OperatorStep ==
  ASSUME TypeOK, [Next]_vars
  PROVE  Kept
<1>1. CASE UNCHANGED vars
  <2>1. operands' = operands /\ malformed' = malformed BY <1>1 DEF vars
  <2>2. /\ malformed \in BOOLEAN /\ operands \in Seq(Expression)
        /\ \A i \in DOMAIN operands : Sound(operands[i])
    BY TypeParts
  <2>3. TypeOK' BY <2>1, <2>2, TypePartsNext
  <2>4. ValueIsTheCppValue => ValueIsTheCppValue' BY <2>1, ValueParts, ValuePartsNext
  <2>. QED BY <2>3, <2>4 DEF Kept
<1>2. CASE Next
  BY <1>2, ConstantStep, LiteralStep, ArithmeticStep, RelationalStep, PointerStep, CastStep,
     BitCastStep, BswapStep DEF Next
<1>. QED BY <1>1, <1>2

LEMMA NoOperands == Init => TypeOK /\ ValueIsTheCppValue /\ ~malformed
<1>. SUFFICES ASSUME Init PROVE TypeOK /\ ValueIsTheCppValue /\ ~malformed OBVIOUS
<1>1. operands = <<>> /\ malformed = FALSE /\ DOMAIN operands = {} BY DEF Init
<1>2. operands \in Seq(Expression) BY <1>1, EmptySeq
<1>. QED BY <1>1, <1>2, TypeParts, ValueParts

-----------------------------------------------------------------------------
(* The theorems.                                                           *)

(* Whatever expressions the type checks let a client build, LLVM's values  *)
(* fit the width the code gave their type and no C++ number is outside its *)
(* own.                                                                    *)
THEOREM OperandsFitTheirTypes == Spec => []TypeOK
<1>1. TypeOK /\ [Next]_vars => TypeOK' BY OperatorStep DEF Kept
<1>. QED BY <1>1, NoOperands, PTL DEF Spec

(* For every size of byte, word, floating-point type and array, and every  *)
(* combination of operators, casts and literals, the instructions the code *)
(* selects compute the value of the C++ expression of the listing, but for *)
(* != on NaN, casts to bool of what is neither 0 nor 1, and true + true.   *)
THEOREM GeneratedCodeComputesTheValue ==
  ASSUME Honest
  PROVE  Spec => []ValueIsTheCppValue
<1>1. TypeOK /\ ValueIsTheCppValue /\ [Next]_vars => TypeOK' /\ ValueIsTheCppValue'
  BY OperatorStep DEF Kept
<1>. QED BY <1>1, NoOperands, PTL DEF Spec

(* tests/arithmetic_ops.cpp mul_div_mod2, for every integer type: what     *)
(* div and mod are selected for the two fit together.                      *)
LEMMA DivModFits == TypeOK => DivModRestores
<1> DEFINE t == Top(0).type
           a == Top(1).bits
           b == Top(0).bits
           div == ArithmeticInstruction(t, "div")
           mod == ArithmeticInstruction(t, "mod")
           w == Width(t)
           V == Values(t)
           X == Number(t, a)
           Y == Number(t, b)
           Q == Quotient(X, Y)
           R == Remainder(X, Y)
<1>1. SUFFICES ASSUME TypeOK, Len(operands) = 2, Top(1).type = t, t \in Integral,
                      Undefined \notin {a, b}, Integer(div, w, a, b) # Undefined
               PROVE  a = Integer("add", w, Integer("mul", w, Integer(div, w, a, b), b),
                                            Integer(mod, w, a, b))
  <2>1. t \in Integral => t.kind # "float" BY KindOf
  <2>2. t \in Integral =>
          \A x, y : /\ Arithmetic(t, "div", x, y) = Integer(div, w, x, y)
                    /\ Arithmetic(t, "mod", x, y) = Integer(mod, w, x, y)
                    /\ Arithmetic(t, "add", x, y) = Integer("add", w, x, y)
                    /\ Arithmetic(t, "mul", x, y) = Integer("mul", w, x, y)
    BY <2>1 DEF Arithmetic, ArithmeticInstruction
  <2>. QED BY <2>2 DEF DivModRestores
<1>2. BitsOK(t, a) /\ BitsOK(t, b) BY <1>1, TwoOperands
<1>3. V \in Nat \ {0} /\ V = two[w] /\ w \in Nat \ {0} /\ t.signed \in BOOLEAN /\ t.kind # "float"
  BY <1>1, ValuesType, WidthType, KindOf
<1>4. a \in 0..(V - 1) /\ b \in 0..(V - 1) BY <1>1, <1>2 DEF BitsOK
<1>5. X \in Numbers(t) /\ Y \in Numbers(t) /\ a = X % V /\ b = Y % V BY <1>1, <1>4, Represented
<1>6. X \in Int /\ Y \in Int BY <1>1, <1>5, NumbersOf
<1>7. ~Traps(div, w, a, b) BY <1>1 DEF Integer
<1>8. Y # 0
  <2>1. SUFFICES ASSUME Y = 0 PROVE b = 0 BY <1>3, <1>7 DEF Traps, ArithmeticInstruction
  <2>. QED BY <1>3, <1>5, <2>1, SmallRemainder
<1>9. ~Overflows(t, X, Y)
  <2>1. SUFFICES ASSUME t.signed, X = -two[w - 1], Y = -1 PROVE FALSE BY DEF Overflows
  <2>2. Signed(w, a) = X /\ Signed(w, b) = Y BY <1>1, <2>1, NumbersOf
  <2>. QED BY <1>3, <1>7, <2>1, <2>2 DEF Traps, ArithmeticInstruction
<1>10. Integer(div, w, a, b) = Q % V /\ Integer(mod, w, a, b) = R % V
  BY <1>1, <1>5, <1>8, <1>9, DivisionComputes
<1>11. Q \in Int /\ R \in Int /\ X = Y * Q + R BY <1>6, <1>8, Quotients
<1>. HIDE DEF t, a, b, div, mod, w, V, X, Y, Q, R
<1>12. \A x, y : /\ Integer("add", w, x, y) = (x + y) % V
                 /\ Integer("mul", w, x, y) = (x * y) % V
  BY <1>3 DEF Integer, Traps
<1>13. ((Q % V) * (Y % V)) % V = (Q * Y) % V BY <1>3, <1>6, <1>11, RemaindersCombine
<1>14. Q * Y \in Int /\ Q * Y = Y * Q BY <1>6, <1>11
<1>15. (((Q * Y) % V) + (R % V)) % V = (Q * Y + R) % V BY <1>3, <1>11, <1>14, RemaindersCombine
<1>16. Q * Y + R = X BY <1>11, <1>14
<1>. QED BY <1>5, <1>10, <1>12, <1>13, <1>15, <1>16

(* For every integer type and all its values, negative ones included, the  *)
(* division and the remainder selected for it satisfy (x / y) * y + x % y  *)
(* = x wherever the division is defined.                                   *)
THEOREM DivModAgree == Spec => []DivModRestores
BY OperandsFitTheirTypes, DivModFits, PTL

(* For every size of byte and word, what the static_asserts and type checks*)
(* accept becomes an instruction that LLVM has, for a client that bit-casts*)
(* neither from nor to bool and swaps no single byte.                      *)
THEOREM AcceptedExpressionsCompile ==
  ASSUME "no_instruction" \notin Liberties
  PROVE  Spec => []AcceptedIsWellFormed
<1>1. ~malformed /\ [Next]_vars => ~malformed' BY WellFormedStep
<1>2. ~malformed => AcceptedIsWellFormed BY DEF AcceptedIsWellFormed
<1>. QED BY <1>1, <1>2, NoOperands, PTL DEF Spec
=============================================================================
