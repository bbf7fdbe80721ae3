-------------------------- MODULE ConversionsProofs --------------------------
(***************************************************************************)
(* Proofs about Conversions: for buffers of any length a size_t allows,    *)
(* any numbers the code's arithmetic is exact for and any names of the     *)
(* characters, numbers and names read as they were meant.                  *)
(*                                                                         *)
(* The numbers are computed by recursion, so these proofs are by induction.*)
(* SetInduction, from the least-number principle, is the induction used,   *)
(* and Recursion says that there are functions so defined.                 *)
(***************************************************************************)
EXTENDS Conversions, WellFoundedInduction, FiniteSetTheorems, TLAPS

-----------------------------------------------------------------------------
(* Induction and recursion.                                                *)

\* A set of natural numbers that holds 0, and with each number the next, is all of them.
LEMMA SetInduction ==
  ASSUME NEW S, 0 \in S, \A k \in Nat : k \in S => k + 1 \in S
  PROVE  Nat \subseteq S
  <1> SUFFICES ASSUME Nat \ S # {} PROVE FALSE
    BY Zenon
  <1> DEFINE T == Nat \ S
  <1>1. T \subseteq Nat /\ T # {}
    BY Zenon
  <1>2. PICK n \in T : \A m \in T : <<m, n>> \notin OpToRel(<, Nat)
    BY <1>1, NatLessThanWellFounded, WFMin, Zenon
  <1>3. \A m \in T : ~(m < n)
    BY <1>1, <1>2 DEF OpToRel
  <1>4. n \in Nat /\ n # 0 /\ n \notin S
    BY <1>2
  <1>5. n - 1 \in Nat /\ n - 1 < n /\ (n - 1) + 1 = n
    BY <1>4
  <1>6. n - 1 \in S
    BY <1>3, <1>5
  <1> QED
    BY <1>4, <1>5, <1>6

\* f starts with base and goes on by step, up to n.
Approx(X, base, step, n, f) ==
  /\ f \in [0..n -> X]
  /\ f[0] = base
  /\ \A k \in 1..n : f[k] = step[k][f[k - 1]]

\* There is one such function,
LEMMA ApproxUnique ==
  ASSUME NEW X, NEW base, NEW step, NEW n \in Nat, NEW m \in Nat, n <= m,
         NEW f, NEW g, Approx(X, base, step, n, f), Approx(X, base, step, m, g)
  PROVE  f[n] = g[n]
  <1> DEFINE S == {k \in Nat : k <= n => f[k] = g[k]}
  <1>1. 0 \in S
    BY DEF Approx
  <1>2. ASSUME NEW k \in Nat, k \in S, k + 1 <= n
        PROVE  f[k + 1] = g[k + 1]
    <2>1. k + 1 \in 1..n /\ k + 1 \in 1..m /\ (k + 1) - 1 = k
      BY <1>2
    <2>2. f[k] = g[k]
      BY <1>2
    <2> QED
      BY <2>1, <2>2 DEF Approx
  <1>3. \A k \in Nat : k \in S => k + 1 \in S
    BY <1>2
  <1> HIDE DEF S
  <1>4. n \in S
    BY <1>1, <1>3, SetInduction
  <1> QED
    BY <1>4 DEF S

\* if there is a step everywhere.
LEMMA ApproxExists ==
  ASSUME NEW X, NEW base \in X, NEW step, NEW n \in Nat,
         step \in [1..n -> [X -> X]]
  PROVE  \E f : Approx(X, base, step, n, f)
  <1> DEFINE S == {k \in Nat : k <= n => \E f : Approx(X, base, step, k, f)}
  <1>1. 0 \in S
    <2> DEFINE f == [k \in 0..0 |-> base]
    <2>1. Approx(X, base, step, 0, f)
      BY DEF Approx
    <2> QED
      BY <2>1
  <1>2. ASSUME NEW k \in Nat, k \in S, k + 1 <= n
        PROVE  \E f : Approx(X, base, step, k + 1, f)
    <2>1. PICK g : Approx(X, base, step, k, g)
      BY <1>2
    <2> DEFINE f == [i \in 0..(k + 1) |-> IF i = k + 1 THEN step[k + 1][g[k]] ELSE g[i]]
    <2>2. g \in [0..k -> X] /\ g[k] \in X
      BY <2>1 DEF Approx
    <2>3. step[k + 1] \in [X -> X]
      BY <1>2
    <2>4. step[k + 1][g[k]] \in X
      BY <2>2, <2>3
    <2>5. f \in [0..(k + 1) -> X]
      BY <2>2, <2>4
    <2>6. f[0] = base
      BY <2>1 DEF Approx
    <2>7. ASSUME NEW i \in 1..(k + 1)
          PROVE  f[i] = step[i][f[i - 1]]
      <3>1. CASE i = k + 1
        BY <3>1
      <3>2. CASE i # k + 1
        <4>1. i \in 1..k /\ i - 1 \in 0..k /\ i - 1 # k + 1
          BY <3>2
        <4>2. f[i] = g[i] /\ f[i - 1] = g[i - 1]
          BY <4>1
        <4> QED
          BY <2>1, <4>1, <4>2 DEF Approx
      <3> QED
        BY <3>1, <3>2
    <2> HIDE DEF f
    <2>8. Approx(X, base, step, k + 1, f)
      BY <2>5, <2>6, <2>7 DEF Approx
    <2> QED
      BY <2>8
  <1>3. \A k \in Nat : k \in S => k + 1 \in S
    BY <1>2
  <1> HIDE DEF S
  <1>4. n \in S
    BY <1>1, <1>3, SetInduction
  <1> QED
    BY <1>4 DEF S

\* f is what its recursive definition says, up to n or for every number.
UpTo(X, base, step, n, f) ==
  /\ f \in [0..n -> X]
  /\ f = [k \in 0..n |-> IF k = 0 THEN base ELSE step[k][f[k - 1]]]

ForAll(X, base, step, f) ==
  /\ f \in [Nat -> X]
  /\ f = [k \in Nat |-> IF k = 0 THEN base ELSE step[k][f[k - 1]]]

\* A recursive definition over the numbers up to n defines something.
LEMMA RecursionUpTo ==
  ASSUME NEW X, NEW base \in X, NEW n \in Nat,
         NEW step \in [1..n -> [X -> X]]
  PROVE  \E f : UpTo(X, base, step, n, f)
  <1>1. PICK f : Approx(X, base, step, n, f)
    BY ApproxExists
  <1>2. ASSUME NEW k \in 0..n
        PROVE  f[k] = IF k = 0 THEN base ELSE step[k][f[k - 1]]
    <2>1. k = 0 \/ k \in 1..n
      OBVIOUS
    <2> QED
      BY <1>1, <2>1 DEF Approx
  <1>3. f \in [0..n -> X]
    BY <1>1 DEF Approx
  <1> QED
    BY <1>2, <1>3 DEF UpTo

\* And so does one over all of them.
LEMMA Recursion ==
  ASSUME NEW X, NEW base \in X, NEW step \in [Nat -> [X -> X]]
  PROVE  \E f : ForAll(X, base, step, f)
  <1> DEFINE st(n) == [k \in 1..n |-> step[k]]
             g(n) == CHOOSE f : Approx(X, base, step, n, f)
             h == [n \in Nat |-> g(n)[n]]
  <1>1. ASSUME NEW n \in Nat
        PROVE  Approx(X, base, step, n, g(n))
    <2>1. st(n) \in [1..n -> [X -> X]]
      OBVIOUS
    <2>2. PICK f : Approx(X, base, st(n), n, f)
      BY <2>1, ApproxExists
    <2>3. \A k \in 1..n : st(n)[k] = step[k]
      OBVIOUS
    <2>4. Approx(X, base, step, n, f)
      BY <2>2, <2>3, Zenon DEF Approx
    <2> QED
      BY <2>4, Zenon
  <1> HIDE DEF g
  <1>2. ASSUME NEW n \in Nat
        PROVE  h[n] \in X
    BY <1>1 DEF Approx
  <1>3. h[0] = base
    BY <1>1 DEF Approx
  <1>4. ASSUME NEW k \in Nat
        PROVE  h[k + 1] = step[k + 1][h[k]]
    <2>1. Approx(X, base, step, k, g(k)) /\ Approx(X, base, step, k + 1, g(k + 1))
      BY <1>1
    <2>2. g(k)[k] = g(k + 1)[k]
      <3>1. k + 1 \in Nat /\ k <= k + 1
        OBVIOUS
      <3> QED
        BY <2>1, <3>1, ApproxUnique
    <2>3. g(k + 1)[k + 1] = step[k + 1][g(k + 1)[(k + 1) - 1]]
      BY <2>1 DEF Approx
    <2>4. h[k] = g(k)[k] /\ h[k + 1] = g(k + 1)[k + 1] /\ (k + 1) - 1 = k
      OBVIOUS
    <2> QED
      BY <2>2, <2>3, <2>4, Zenon
  <1>5. h \in [Nat -> X]
    BY <1>2
  <1>6. ASSUME NEW k \in Nat
        PROVE  h[k] = IF k = 0 THEN base ELSE step[k][h[k - 1]]
    <2>1. k = 0 \/ (k - 1 \in Nat /\ (k - 1) + 1 = k)
      OBVIOUS
    <2> HIDE DEF h
    <2> QED
      BY <1>3, <1>4, <2>1
  <1> HIDE DEF h
  <1> QED
    BY <1>5, <1>6 DEF ForAll

-----------------------------------------------------------------------------
(* Powers.                                                                 *)

\* pow as the code uses it.
LEMMA PowerFacts ==
  ASSUME NEW b \in Nat
  PROVE  /\ Power(b, 0) = 1
         /\ \A n \in Nat : Power(b, n) \in Nat /\ Power(b, n + 1) = b * Power(b, n)
  <1> DEFINE step == [k \in Nat |-> [x \in Nat |-> b * x]]
             p == CHOOSE power : power = [k \in Nat |-> IF k = 0 THEN 1 ELSE b * power[k - 1]]
  <1>1. step \in [Nat -> [Nat -> Nat]]
    OBVIOUS
  <1>2. PICK f : ForAll(Nat, 1, step, f)
    <2>1. 1 \in Nat
      OBVIOUS
    <2> HIDE DEF step, p
    <2> QED
      BY <1>1, <2>1, Recursion
  <1>3. f = [k \in Nat |-> IF k = 0 THEN 1 ELSE b * f[k - 1]]
    <2>0. f \in [Nat -> Nat]
      BY <1>2, Zenon DEF ForAll
    <2>1. ASSUME NEW k \in Nat, k # 0
          PROVE  step[k][f[k - 1]] = b * f[k - 1]
      <3>1. k - 1 \in Nat /\ f[k - 1] \in Nat
        BY <2>0, <2>1
      <3> QED
        BY <3>1
    <2> HIDE DEF step, p
    <2>2. ASSUME NEW k \in Nat
          PROVE  (IF k = 0 THEN 1 ELSE step[k][f[k - 1]])
                   = IF k = 0 THEN 1 ELSE b * f[k - 1]
      BY <2>1
    <2>3. [k \in Nat |-> IF k = 0 THEN 1 ELSE step[k][f[k - 1]]]
            = [k \in Nat |-> IF k = 0 THEN 1 ELSE b * f[k - 1]]
      BY <2>2, Zenon
    <2> QED
      BY <1>2, <2>3, Zenon DEF ForAll
  <1>4. p = [k \in Nat |-> IF k = 0 THEN 1 ELSE b * p[k - 1]]
    BY <1>3, Zenon
  <1> HIDE DEF p
  <1>5. p[0] = 1 /\ \A k \in Nat : p[k + 1] = b * p[k]
    BY <1>4
  <1> DEFINE S == {k \in Nat : p[k] \in Nat}
  <1>6. Nat \subseteq S
    <2>1. 0 \in S /\ \A k \in Nat : k \in S => k + 1 \in S
      BY <1>5
    <2> HIDE DEF S
    <2> QED
      BY <2>1, SetInduction
  <1>7. \A n \in Nat : Power(b, n) = p[n]
    BY Zenon DEF Power, p
  <1> QED
    BY <1>5, <1>6, <1>7

\* Division with remainder, and that there is only one.
LEMMA Division ==
  ASSUME NEW a \in Nat, NEW b \in Nat, b > 0
  PROVE  /\ a \div b \in Nat /\ a % b \in Nat
         /\ a % b < b
         /\ a = b * (a \div b) + (a % b)
  BY SMT

\* More than one times more is more.
LEMMA ProductGrows ==
  ASSUME NEW b \in Nat, NEW d \in Int, d >= 1
  PROVE  b * d >= b
  <1> DEFINE S == {k \in Nat : b * (k + 1) >= b}
  <1>1. 0 \in S
    OBVIOUS
  <1>2. ASSUME NEW k \in Nat, k \in S
        PROVE  k + 1 \in S
    <2>1. b * ((k + 1) + 1) = b * (k + 1) + b
      OBVIOUS
    <2>2. b * (k + 1) \in Int
      OBVIOUS
    <2> QED
      BY <1>2, <2>1, <2>2
  <1> HIDE DEF S
  <1>3. d - 1 \in S
    BY <1>1, <1>2, SetInduction
  <1> QED
    BY <1>3 DEF S

\* A quotient and a remainder are the quotient and the remainder.
LEMMA DivisionUnique ==
  ASSUME NEW a \in Nat, NEW b \in Nat, b > 0,
         NEW q \in Nat, NEW r \in Nat, r < b, a = b * q + r
  PROVE  a \div b = q /\ a % b = r
  <1> DEFINE d == a \div b
             m == a % b
  <1>1. /\ d \in Nat /\ m \in Nat /\ m < b
        /\ a = b * d + m
    BY Division
  <1> HIDE DEF d, m
  <1>2. b * (d - q) = r - m /\ b * (q - d) = m - r
    BY <1>1
  <1>3. ~(d - q >= 1)
    <2> SUFFICES ASSUME d - q >= 1 PROVE FALSE
      OBVIOUS
    <2>1. b * (d - q) >= b
      BY <1>1, ProductGrows
    <2> QED
      BY <1>1, <1>2, <2>1
  <1>4. ~(q - d >= 1)
    <2> SUFFICES ASSUME q - d >= 1 PROVE FALSE
      OBVIOUS
    <2>1. b * (q - d) >= b
      BY <1>1, ProductGrows
    <2> QED
      BY <1>1, <1>2, <2>1
  <1>5. d = q
    BY <1>1, <1>3, <1>4
  <1>6. m = r
    BY <1>1, <1>5
  <1> QED
    BY <1>5, <1>6 DEF d, m

\* To divide by a product is to divide twice.
LEMMA DivideTwice ==
  ASSUME NEW a \in Nat, NEW b \in Nat, b > 0, NEW c \in Nat, c > 0
  PROVE  /\ b * c \in Nat /\ b * c > 0
         /\ a \div (b * c) = (a \div b) \div c
         /\ a % (b * c) = b * ((a \div b) % c) + (a % b)
  <1> DEFINE q == a \div b
             r == a % b
             s == q \div c
             t == q % c
             bc == b * c
  <1>1. q \in Nat /\ r \in Nat /\ r < b /\ a = b * q + r
    BY Division
  <1>2. s \in Nat /\ t \in Nat /\ t < c /\ q = c * s + t
    BY <1>1, Division
  <1> HIDE DEF q, r, s, t
  <1>3. bc \in Nat /\ bc >= b
    BY ProductGrows
  <1>4. b * t + r \in Nat
    BY <1>1, <1>2
  <1>5. b * (c - t) >= b /\ b * (c - t) = bc - b * t
    BY <1>2, ProductGrows
  <1>6. b * t + r < bc
    <2>1. b * t \in Nat
      BY <1>2
    <2> HIDE DEF bc
    <2> QED
      BY <1>1, <1>3, <1>5, <2>1
  <1>7. a = bc * s + (b * t + r)
    <2>1. b * q = b * (c * s) + b * t
      BY <1>2
    <2>2. b * (c * s) = (b * c) * s
      BY <1>2
    <2>3. b * t \in Nat /\ (b * c) * s \in Nat
      BY <1>2
    <2> QED
      BY <1>1, <2>1, <2>2, <2>3
  <1> HIDE DEF bc
  <1>8. a \div bc = s /\ a % bc = b * t + r
    BY <1>1, <1>2, <1>3, <1>4, <1>6, <1>7, DivisionUnique
  <1> QED
    BY <1>3, <1>8 DEF bc, q, r, s, t

\* Powers of a base are positive.
LEMMA PowerPositive ==
  ASSUME NEW b \in Nat, b > 0
  PROVE  \A n \in Nat : Power(b, n) \in Nat /\ Power(b, n) > 0
  <1> DEFINE S == {n \in Nat : Power(b, n) > 0}
  <1>1. 0 \in S
    BY PowerFacts
  <1>2. ASSUME NEW k \in Nat, k \in S
        PROVE  k + 1 \in S
    <2>1. Power(b, k) \in Nat /\ Power(b, k) > 0 /\ Power(b, k + 1) = b * Power(b, k)
      BY <1>2, PowerFacts
    <2>2. \A p \in Nat : p > 0 => b * p > 0
      <3> SUFFICES ASSUME NEW p \in Nat, p > 0 PROVE b * p > 0
        OBVIOUS
      <3> QED
        BY ProductGrows
    <2> QED
      BY <2>1, <2>2
  <1> HIDE DEF S
  <1>3. Nat \subseteq S
    BY <1>1, <1>2, SetInduction
  <1> QED
    BY <1>3, PowerFacts DEF S

\* The bases the code uses.
LEMMA Power10 ==
  /\ Power(10, 0) = 1
  /\ \A n \in Nat : Power(10, n) \in Nat
  /\ \A n \in Nat : Power(10, n) > 0
  /\ \A n \in Nat : Power(10, n + 1) = 10 * Power(10, n)
  <1>1. 10 \in Nat /\ 10 > 0
    OBVIOUS
  <1> QED
    BY <1>1, PowerFacts, PowerPositive

\* Powers of a byte of decimal digits.
LEMMA Power100 ==
  /\ Power(100, 0) = 1
  /\ \A n \in Nat : Power(100, n) \in Nat
  /\ \A n \in Nat : Power(100, n) > 0
  /\ \A n \in Nat : Power(100, n + 1) = 100 * Power(100, n)
  <1>1. 100 \in Nat /\ 100 > 0
    OBVIOUS
  <1> QED
    BY <1>1, PowerFacts, PowerPositive

\* Powers of a byte.
LEMMA Power256 ==
  /\ Power(256, 0) = 1
  /\ \A n \in Nat : Power(256, n) \in Nat
  /\ \A n \in Nat : Power(256, n) > 0
  /\ \A n \in Nat : Power(256, n + 1) = 256 * Power(256, n)
  <1>1. 256 \in Nat /\ 256 > 0
    OBVIOUS
  <1> QED
    BY <1>1, PowerFacts, PowerPositive

-----------------------------------------------------------------------------
(* Digits.                                                                 *)

\* The digit of num at b^k; a buffer of such digits; and what they add up to.
DigitAt(b, num, k) == (num \div Power(b, k)) % b

HasDigits(b, p, size, num) ==
  \A i \in 1..size : p[i] = DigitAt(b, num, size - i)

AddsUp(b, p, size, v) ==
  /\ v[0] = 0
  /\ \A k \in 1..size :
       v[k] = v[k - 1] + p[size - k + 1] * Power(b, k - 1)

\* How the last k + 1 digits follow from the last k.
LEMMA NextDigit ==
  ASSUME NEW b \in Nat, b > 0, NEW num \in Nat, NEW k \in Nat
  PROVE  /\ DigitAt(b, num, k) \in Nat /\ DigitAt(b, num, k) < b
         /\ Power(b, k) \in Nat /\ Power(b, k) > 0
         /\ num % Power(b, k) \in Nat
         /\ num \div Power(b, k) \in Nat
         /\ num % Power(b, k + 1)
              = (num % Power(b, k)) + DigitAt(b, num, k) * Power(b, k)
         /\ num \div Power(b, k + 1) = (num \div Power(b, k)) \div b
  <1> DEFINE P == Power(b, k)
             Q == Power(b, k + 1)
  <1>1. P \in Nat /\ P > 0
    BY PowerPositive
  <1>2. Q = b * P
    BY PowerFacts
  <1> HIDE DEF P, Q
  <1>3. Q = P * b
    BY <1>1, <1>2
  <1>4. /\ num \div (P * b) = (num \div P) \div b
        /\ num % (P * b) = P * ((num \div P) % b) + (num % P)
    BY <1>1, DivideTwice
  <1>5. /\ num % P \in Nat /\ num \div P \in Nat
    BY <1>1, Division
  <1>6. (num \div P) % b \in Nat /\ (num \div P) % b < b
    BY <1>5, Division
  <1>7. \A x, y, z \in Nat : x * y + z = z + y * x
    OBVIOUS
  <1>8. num % Q = (num % P) + ((num \div P) % b) * P
    BY <1>1, <1>3, <1>4, <1>5, <1>6, <1>7
  <1>9. num \div Q = (num \div P) \div b
    BY <1>3, <1>4
  <1>10. DigitAt(b, num, k) = (num \div P) % b
    BY DEF DigitAt, P
  <1> QED
    BY <1>1, <1>5, <1>6, <1>8, <1>9, <1>10 DEF P, Q

\* Adding up digits, each with its power, gives the number they end.
LEMMA DigitsSum ==
  ASSUME NEW b \in Nat, b > 0, NEW num \in Nat, NEW size \in Nat,
         NEW p, HasDigits(b, p, size, num), NEW v, AddsUp(b, p, size, v)
  PROVE  v[size] = num % Power(b, size)
  <1> DEFINE S == {k \in Nat : k <= size => v[k] = num % Power(b, k)}
  <1>1. 0 \in S
    <2>1. Power(b, 0) = 1
      BY PowerFacts
    <2>2. v[0] = num % 1
      BY DEF AddsUp
    <2> QED
      BY <2>1, <2>2
  <1>2. ASSUME NEW k \in Nat, k \in S
        PROVE  k + 1 \in S
    <2> SUFFICES ASSUME k + 1 <= size PROVE v[k + 1] = num % Power(b, k + 1)
      OBVIOUS
    <2>1. /\ k + 1 \in 1..size /\ size - k \in 1..size
          /\ (k + 1) - 1 = k /\ size - (k + 1) + 1 = size - k
          /\ size - (size - k) = k /\ k <= size
      OBVIOUS
    <2>2. v[k] = num % Power(b, k)
      BY <1>2, <2>1
    <2> HIDE DEF S
    <2>3. v[k + 1] = v[k] + p[size - k] * Power(b, k)
      BY <2>1 DEF AddsUp
    <2>4. p[size - k] = DigitAt(b, num, k)
      BY <2>1 DEF HasDigits
    <2>5. num % Power(b, k + 1)
            = (num % Power(b, k)) + DigitAt(b, num, k) * Power(b, k)
      BY NextDigit
    <2> QED
      BY <2>2, <2>3, <2>4, <2>5, Zenon
  <1> HIDE DEF S
  <1>3. Nat \subseteq S
    BY <1>1, <1>2, SetInduction
  <1> QED
    BY <1>3 DEF S

-----------------------------------------------------------------------------
(* Base 256.                                                               *)

\* What is added up from the last byte to the first.
LEMMA Base256Sums ==
  ASSUME NEW p \in Seq(Nat)
  PROVE  \E v : /\ v \in [0..Len(p) -> Nat]
                /\ v[0] = 0
                /\ \A k \in 1..Len(p) :
                     v[k] = v[k - 1] + p[Len(p) - k + 1] * Power(256, k - 1)
                /\ ImportBase256(p) = v[Len(p)]
  <1> DEFINE size == Len(p)
             g == [k \in 1..size |-> p[size - k + 1] * Power(256, k - 1)]
             step == [k \in 1..size |-> [x \in Nat |-> x + g[k]]]
             v == CHOOSE value :
                    value = [exp \in 0..size |->
                      IF exp = 0 THEN 0
                      ELSE value[exp - 1] + p[size - exp + 1] * Power(256, exp - 1)]
  <1>1. ImportBase256(p) = v[size]
    BY Zenon DEF ImportBase256
  <1> HIDE DEF v
  <1>2. size \in Nat
    OBVIOUS
  <1>3. ASSUME NEW k \in 1..size
        PROVE  g[k] \in Nat
    <2> HIDE DEF step
    <2>1. size - k + 1 \in 1..size /\ k - 1 \in Nat
      BY <1>2
    <2>2. Power(256, k - 1) \in Nat
      <3> HIDE DEF size, g
      <3>1. k \in Int /\ k - 1 \in Nat
        BY <1>2, <2>1
      <3> QED
        BY <3>1, Power256
    <2>3. p[size - k + 1] \in Nat
      BY <2>1
    <2>4. \A x, y \in Nat : x * y \in Nat
      OBVIOUS
    <2>5. g[k] = p[size - k + 1] * Power(256, k - 1)
      OBVIOUS
    <2> QED
      BY <2>2, <2>3, <2>4, <2>5
  <1>4. step \in [1..size -> [Nat -> Nat]] /\ \A k \in 1..size, x \in Nat : step[k][x] = x + g[k]
    <2> HIDE DEF g, size
    <2> QED
      BY <1>3
  <1> HIDE DEF step
  <1>5. PICK f : UpTo(Nat, 0, step, size, f)
    <2>1. 0 \in Nat
      OBVIOUS
    <2> HIDE DEF g, size
    <2> QED
      BY <1>2, <1>4, <2>1, RecursionUpTo
  <1>6. f \in [0..size -> Nat]
    BY <1>5, Zenon DEF UpTo
  <1>7. f = [exp \in 0..size |->
               IF exp = 0 THEN 0
               ELSE f[exp - 1] + p[size - exp + 1] * Power(256, exp - 1)]
    <2>1. ASSUME NEW k \in 0..size
          PROVE  (IF k = 0 THEN 0 ELSE step[k][f[k - 1]])
                   = IF k = 0 THEN 0
                     ELSE f[k - 1] + p[size - k + 1] * Power(256, k - 1)
      <3>1. k = 0 \/ (k \in 1..size /\ k - 1 \in 0..size)
        BY <1>2
      <3>2. k \in 1..size => g[k] = p[size - k + 1] * Power(256, k - 1)
        BY Zenon
      <3> HIDE DEF g, size
      <3> QED
        BY <1>4, <1>6, <3>1, <3>2
    <2> QED
      BY <1>5, <2>1, Zenon DEF UpTo
  <1> HIDE DEF g
  <1>8. v = [exp \in 0..size |->
               IF exp = 0 THEN 0
               ELSE v[exp - 1] + p[size - exp + 1] * Power(256, exp - 1)]
    BY <1>7, Zenon DEF v
  <1>9. /\ v[0] = 0
        /\ \A k \in 1..size :
             v[k] = v[k - 1] + p[size - k + 1] * Power(256, k - 1)
    <2> HIDE DEF size
    <2>1. 0 \in 0..size
      BY <1>2
    <2>2. \A k \in 1..size : k \in 0..size /\ k # 0
      BY <1>2
    <2> QED
      BY <1>8, <2>1, <2>2, Zenon
  <1>10. \A k \in 1..size : p[size - k + 1] * Power(256, k - 1) \in Nat
    BY <1>3 DEF g
  <1>11. \A k \in 0..size : v[k] \in Nat
    <2> DEFINE S == {k \in Nat : k <= size => v[k] \in Nat}
    <2>1. 0 \in S
      BY <1>9
    <2>2. ASSUME NEW k \in Nat, k \in S
          PROVE  k + 1 \in S
      <3> SUFFICES ASSUME k + 1 <= size PROVE v[k + 1] \in Nat
        OBVIOUS
      <3> HIDE DEF size
      <3>1. k + 1 \in 1..size /\ (k + 1) - 1 = k /\ v[k] \in Nat
        BY <1>2, <2>2
      <3>2. v[k + 1] = v[k] + p[size - (k + 1) + 1] * Power(256, k)
        BY <1>9, <3>1
      <3>3. p[size - (k + 1) + 1] * Power(256, k) \in Nat
        BY <1>10, <3>1
      <3> QED
        BY <3>1, <3>2, <3>3
    <2> HIDE DEF S
    <2>3. Nat \subseteq S
      BY <2>1, <2>2, SetInduction
    <2> QED
      BY <1>2, <2>3 DEF S
  <1>12. v \in [0..size -> Nat]
    <2>1. v = [k \in 0..size |-> v[k]]
      BY <1>8, Zenon
    <2> QED
      BY <1>11, <2>1
  <1> QED
    BY <1>1, <1>9, <1>12

\* 256, as a name the provers do not calculate with.
Base == 256

\* A buffer of the digits of a number reads as its last digits.
LEMMA Base256Reads ==
  ASSUME NEW p \in Seq(Nat), NEW num \in Nat, HasDigits(Base, p, Len(p), num)
  PROVE  ImportBase256(p) = num % Power(Base, Len(p))
  <1>1. PICK v : AddsUp(Base, p, Len(p), v) /\ ImportBase256(p) = v[Len(p)]
    BY Base256Sums, Zenon DEF Base, AddsUp
  <1>2. Len(p) \in Nat /\ Base \in Nat /\ Base > 0
    BY DEF Base
  <1> QED
    BY <1>1, <1>2, DigitsSum

\* The bytes written from the last to the first, and what is left of the
\* number at each.
StepsDown(num, size, v) ==
  /\ v[0] = [num |-> num, byte |-> num % Base]
  /\ \A e \in 1..(size - 1) :
       /\ v[e].num = v[e - 1].num - v[e - 1].byte
       /\ v[e].byte = ((v[e].num \div Power(Base, e)) % Power(Base, e)) % Base
  /\ ExportBase256(num, size) = [index \in 1..size |-> v[size - index].byte]

\* The recursion of the export defines such a sequence.
LEMMA Base256Steps ==
  ASSUME NEW num \in Nat, NEW size \in Nat, size > 0
  PROVE  \E v : StepsDown(num, size, v)
  <1> DEFINE X == [num : Int, byte : Int]
             first == [num |-> num, byte |-> num % 256]
             After(x, e) ==
               LET left == x.num - x.byte
               IN  [num |-> left,
                    byte |-> ((left \div Power(256, e)) % Power(256, e)) % 256]
             step == [e \in 1..(size - 1) |-> [x \in X |-> After(x, e)]]
             v == CHOOSE step_1 :
                    step_1 = [exp \in 0..(size - 1) |->
                      IF exp = 0 THEN first ELSE After(step_1[exp - 1], exp)]
  <1>1. ExportBase256(num, size) = [index \in 1..size |-> v[size - index].byte]
    BY Zenon DEF ExportBase256
  <1> HIDE DEF v
  <1>2. first \in X
    OBVIOUS
  <1>3. \A e \in 1..(size - 1), x \in X : After(x, e) \in X
    <2> SUFFICES ASSUME NEW e \in 1..(size - 1), NEW x \in X
                 PROVE  After(x, e) \in X
      OBVIOUS
    <2> DEFINE left == x.num - x.byte
               P == Power(256, e)
    <2>1. left \in Int
      OBVIOUS
    <2>2. e \in Nat
      OBVIOUS
    <2>3. P \in Nat /\ P > 0
      BY <2>2, Power256
    <2> HIDE DEF left, P
    <2>4. left \div P \in Int
      BY <2>1, <2>3
    <2>5. (left \div P) % P \in Int
      BY <2>3, <2>4
    <2>6. ((left \div P) % P) % 256 \in Int
      BY <2>5
    <2>7. After(x, e) = [num |-> left, byte |-> ((left \div P) % P) % 256]
      BY DEF left, P
    <2> QED
      BY <2>1, <2>6, <2>7
  <1> HIDE DEF After, first
  <1>4. /\ step \in [1..(size - 1) -> [X -> X]]
        /\ \A e \in 1..(size - 1), x \in X : step[e][x] = After(x, e)
    BY <1>3
  <1> HIDE DEF step, X
  <1>5. size - 1 \in Nat
    OBVIOUS
  <1>6. PICK f : UpTo(X, first, step, size - 1, f)
    BY <1>2, <1>4, <1>5, RecursionUpTo
  <1>7. f = [exp \in 0..(size - 1) |->
               IF exp = 0 THEN first ELSE After(f[exp - 1], exp)]
    <2>1. f \in [0..(size - 1) -> X]
      BY <1>6, Zenon DEF UpTo
    <2>2. ASSUME NEW k \in 0..(size - 1)
          PROVE  (IF k = 0 THEN first ELSE step[k][f[k - 1]])
                   = IF k = 0 THEN first ELSE After(f[k - 1], k)
      <3>1. k = 0 \/ (k \in 1..(size - 1) /\ k - 1 \in 0..(size - 1))
        OBVIOUS
      <3> QED
        BY <1>4, <2>1, <3>1
    <2> QED
      BY <1>6, <2>2, Zenon DEF UpTo
  <1>8. v = [exp \in 0..(size - 1) |->
               IF exp = 0 THEN first ELSE After(v[exp - 1], exp)]
    BY <1>7, Zenon DEF v
  <1>9. v[0] = first
    <2>1. 0 \in 0..(size - 1)
      OBVIOUS
    <2> QED
      BY <1>8, <2>1, Zenon
  <1>10. \A e \in 1..(size - 1) : v[e] = After(v[e - 1], e)
    <2>1. \A k \in 1..(size - 1) : k \in 0..(size - 1) /\ k # 0
      OBVIOUS
    <2> QED
      BY <1>8, <2>1, Zenon
  <1>11. ASSUME NEW e \in 1..(size - 1)
         PROVE  /\ v[e].num = v[e - 1].num - v[e - 1].byte
                /\ v[e].byte = ((v[e].num \div Power(256, e))
                                  % Power(256, e)) % 256
    <2> DEFINE left == v[e - 1].num - v[e - 1].byte
               byte == ((left \div Power(256, e)) % Power(256, e)) % 256
    <2>1. v[e] = [num |-> left, byte |-> byte]
      <3>1. v[e] = After(v[e - 1], e)
        BY <1>10, Zenon
      <3> QED
        BY <3>1, Zenon DEF After
    <2> HIDE DEF byte
    <2>2. v[e].num = left /\ v[e].byte = byte
      BY <2>1
    <2> QED
      BY <2>2, Zenon DEF byte
  <1> QED
    BY <1>1, <1>9, <1>11, Zenon DEF first, StepsDown, Base

\* Cutting to a multiple of the base first does not change a digit.
LEMMA CutDigit ==
  ASSUME NEW q \in Nat, NEW b \in Nat, b > 0, NEW c \in Nat, c > 0
  PROVE  (q % (b * c)) % b = q % b
  <1> DEFINE s == (q \div b) % c
             r == q % b
  <1>1. q % (b * c) = b * s + r
    BY DivideTwice
  <1>2. /\ q \div b \in Nat /\ r \in Nat /\ r < b
    BY Division
  <1>3. s \in Nat
    BY <1>2, Division
  <1> HIDE DEF s, r
  <1>4. b * s + r \in Nat
    BY <1>2, <1>3
  <1>5. (b * s + r) % b = r
    BY <1>2, <1>3, <1>4, DivisionUnique
  <1> QED
    BY <1>1, <1>5 DEF r

\* Nor does taking away no more than the lower digits are worth.
LEMMA LowerDigits ==
  ASSUME NEW num \in Nat, NEW P \in Nat, P > 0,
         NEW loss \in Nat, loss <= num % P
  PROVE  (num - loss) \div P = num \div P
  <1> DEFINE q == num \div P
             r == num % P
  <1>1. q \in Nat /\ r \in Nat /\ r < P /\ num = P * q + r /\ loss <= r
    BY Division
  <1> HIDE DEF q, r
  <1>2. P * q \in Nat
    BY <1>1
  <1>3. num - loss = P * q + (r - loss) /\ r - loss \in Nat /\ r - loss < P
    BY <1>1, <1>2
  <1>4. num - loss \in Nat
    BY <1>2, <1>3
  <1>5. (num - loss) \div P = q
    BY <1>1, <1>3, <1>4, DivisionUnique
  <1> QED
    BY <1>5 DEF q

\* The bytes written are the number's last digits: what was subtracted
\* unscaled is never more than the digits below.
LEMMA Base256Writes ==
  ASSUME NEW num \in Nat, NEW size \in Nat, size > 0
  PROVE  /\ ExportBase256(num, size) \in [1..size -> 0..(Base - 1)]
         /\ HasDigits(Base, ExportBase256(num, size), size, num)
  <1>0. PICK v : StepsDown(num, size, v)
    BY Base256Steps
  <1>1. /\ v[0] = [num |-> num, byte |-> num % Base]
        /\ \A e \in 1..(size - 1) :
             /\ v[e].num = v[e - 1].num - v[e - 1].byte
             /\ v[e].byte = ((v[e].num \div Power(Base, e)) % Power(Base, e)) % Base
    BY <1>0, Zenon DEF StepsDown
  <1>2. Base \in Nat /\ Base > 0
    BY DEF Base
  <1> DEFINE Good(e) == /\ num - v[e].num \in Nat
                        /\ v[e].num \in Int
                        /\ num - v[e].num <= num % Power(Base, e)
                        /\ v[e].byte = DigitAt(Base, num, e)
             S == {e \in Nat : e < size => Good(e)}
  <1>3. Good(0)
    <2>1. v[0].num = num /\ v[0].byte = num % Base
      BY <1>1
    <2>2. Power(Base, 0) = 1 /\ num \div 1 = num /\ num % 1 = 0
      BY <1>2, PowerFacts
    <2>3. DigitAt(Base, num, 0) = num % Base
      BY <2>2, Zenon DEF DigitAt
    <2> QED
      BY <2>1, <2>2, <2>3
  <1>4. ASSUME NEW e \in Nat, e + 1 < size, Good(e)
        PROVE  Good(e + 1)
    <2> DEFINE P == Power(Base, e)
               Q == Power(Base, e + 1)
               D == DigitAt(Base, num, e)
               loss == num - v[e].num
    <2>1. e + 1 \in 1..(size - 1) /\ (e + 1) - 1 = e
      BY <1>4
    <2>2. /\ v[e + 1].num = v[e].num - D
          /\ v[e + 1].byte = ((v[e + 1].num \div Q) % Q) % Base
      BY <1>1, <1>4, <2>1
    <2>3. /\ D \in Nat /\ P \in Nat /\ P > 0 /\ num % P \in Nat
          /\ num % Q = (num % P) + D * P
      BY <1>2, NextDigit
    <2>4. Q \in Nat /\ Q > 0 /\ Q = Base * P
      BY <1>2, PowerFacts, PowerPositive
    <2>5. loss \in Nat /\ loss <= num % P /\ v[e].num = num - loss
      BY <1>4
    <2> HIDE DEF P, Q, D, loss
    <2>6. D * P >= D
      BY <2>3, ProductGrows
    <2>7. loss + D \in Nat /\ loss + D <= num % Q
      BY <2>3, <2>5, <2>6
    <2>8. v[e + 1].num = num - (loss + D)
      BY <2>2, <2>3, <2>5
    <2>9. v[e + 1].num \div Q = num \div Q
      BY <2>4, <2>7, <2>8, LowerDigits
    <2>10. num \div Q \in Nat
      BY <2>4, Division
    <2>11. ((num \div Q) % Q) % Base = (num \div Q) % Base
      BY <1>2, <2>3, <2>4, <2>10, CutDigit
    <2>12. v[e + 1].byte = DigitAt(Base, num, e + 1)
      BY <2>2, <2>9, <2>11, Zenon DEF DigitAt, Q
    <2>13. num - v[e + 1].num = loss + D /\ v[e + 1].num \in Int
      BY <2>7, <2>8
    <2> QED
      BY <2>7, <2>12, <2>13, Zenon DEF Q
  <1>5. ASSUME NEW e \in Nat, e < size
        PROVE  Good(e)
    <2> HIDE DEF Good
    <2>1. 0 \in S
      BY <1>3
    <2>2. ASSUME NEW k \in Nat, k \in S
          PROVE  k + 1 \in S
      BY <1>4, <2>2
    <2> HIDE DEF S
    <2>3. Nat \subseteq S
      BY <2>1, <2>2, SetInduction
    <2> QED
      BY <1>5, <2>3 DEF S
  <1> HIDE DEF Good, S
  <1> DEFINE w == [index \in 1..size |-> v[size - index].byte]
  <1>6. ASSUME NEW i \in 1..size
        PROVE  /\ w[i] = DigitAt(Base, num, size - i)
               /\ w[i] \in 0..(Base - 1)
    <2>1. size - i \in Nat /\ size - i < size
      OBVIOUS
    <2>2. v[size - i].byte = DigitAt(Base, num, size - i)
      BY <1>5, <2>1 DEF Good
    <2>3. /\ DigitAt(Base, num, size - i) \in Nat
          /\ DigitAt(Base, num, size - i) < Base
      BY <1>2, <2>1, NextDigit
    <2>4. DigitAt(Base, num, size - i) \in 0..(Base - 1)
      BY <1>2, <2>3
    <2> QED
      BY <2>2, <2>4
  <1>7. w \in [1..size -> 0..(Base - 1)]
    BY <1>6
  <1>8. ExportBase256(num, size) = w
    BY <1>0, Zenon DEF StepsDown
  <1> HIDE DEF w
  <1>9. HasDigits(Base, w, size, num)
    BY <1>6 DEF HasDigits
  <1> QED
    BY <1>7, <1>8, <1>9

-----------------------------------------------------------------------------
(* Binary coded decimal.                                                   *)

\* 100, like Base.
Hundred == 100

\* Where an import stops, and what a byte does to the number.
NoDigit(p) == {i \in 1..Len(p) : ~IsDigit(High(p[i]))}

Stop(p) == IF NoDigit(p) # {} THEN Min(NoDigit(p)) ELSE 0
Count(p) == IF Stop(p) = 0 THEN Len(p) ELSE Stop(p) - 1

Appended(num, byte) ==
  IF IsDigit(Low(byte)) THEN 100 * num + 10 * High(byte) + Low(byte)
  ELSE 10 * num + High(byte)

AppendsAll(p, count, v) ==
  /\ v[0] = 0
  /\ \A k \in 1..count : v[k] = Appended(v[k - 1], p[k])
  /\ ImportBcd(p) = v[count]

\* The recursion of the import defines such a sequence.
LEMMA BcdImportSteps ==
  ASSUME NEW p \in Seq(Nat), Count(p) \in 0..Len(p)
  PROVE  \E v : AppendsAll(p, Count(p), v)
  <1> DEFINE count == Count(p)
             step == [k \in 1..count |-> [x \in Nat |-> Appended(x, p[k])]]
             v == CHOOSE value :
                    value = [index \in 0..count |->
                      IF index = 0 THEN 0 ELSE Appended(value[index - 1], p[index])]
  <1>1. ImportBcd(p) = v[count]
    <2>1. SelectInSeq(p, LAMBDA byte : ~IsDigit(High(byte))) = Stop(p)
      BY Zenon DEF SelectInSeq, NoDigit, Stop
    <2> QED
      BY <2>1, Zenon DEF ImportBcd, Count, Appended
  <1> HIDE DEF v
  <1>2. count \in Nat /\ count <= Len(p)
    OBVIOUS
  <1>3. \A k \in 1..count, x \in Nat : Appended(x, p[k]) \in Nat
    <2> SUFFICES ASSUME NEW k \in 1..count, NEW x \in Nat
                 PROVE  Appended(x, p[k]) \in Nat
      OBVIOUS
    <2> HIDE DEF count, step
    <2>1. k \in 1..Len(p)
      BY <1>2
    <2>2. p[k] \in Nat
      BY <2>1
    <2>3. \A b \in Nat : High(b) \in Nat /\ Low(b) \in Nat
      BY DEF High, Low
    <2>4. High(p[k]) \in Nat /\ Low(p[k]) \in Nat
      BY <2>2, <2>3
    <2>5. \A h, l \in Nat : 100 * x + 10 * h + l \in Nat /\ 10 * x + h \in Nat
      OBVIOUS
    <2> QED
      BY <2>4, <2>5 DEF Appended
  <1> HIDE DEF count
  <1>4. /\ step \in [1..count -> [Nat -> Nat]]
        /\ \A k \in 1..count, x \in Nat : step[k][x] = Appended(x, p[k])
    BY <1>3
  <1> HIDE DEF step
  <1>5. PICK f : UpTo(Nat, 0, step, count, f)
    <2>1. 0 \in Nat
      OBVIOUS
    <2> QED
      BY <1>2, <1>4, <2>1, RecursionUpTo
  <1>6. f = [index \in 0..count |->
               IF index = 0 THEN 0 ELSE Appended(f[index - 1], p[index])]
    <2>1. f \in [0..count -> Nat]
      BY <1>5, Zenon DEF UpTo
    <2>2. ASSUME NEW k \in 0..count
          PROVE  (IF k = 0 THEN 0 ELSE step[k][f[k - 1]])
                   = IF k = 0 THEN 0 ELSE Appended(f[k - 1], p[k])
      <3>1. k = 0 \/ (k \in 1..count /\ k - 1 \in 0..count)
        BY <1>2
      <3> QED
        BY <1>4, <2>1, <3>1
    <2> QED
      BY <1>5, <2>2, Zenon DEF UpTo
  <1>7. v = [index \in 0..count |->
               IF index = 0 THEN 0 ELSE Appended(v[index - 1], p[index])]
    BY <1>6, Zenon DEF v
  <1>8. 0 \in 0..count /\ \A k \in 1..count : k \in 0..count /\ k # 0
    BY <1>2
  <1> QED
    BY <1>1, <1>7, <1>8, Zenon DEF AppendsAll, count

\* The last of the least of the numbers from m + 1 on.
LEMMA MinFrom ==
  ASSUME NEW m \in Nat, NEW n \in Nat, m < n
  PROVE  Min((m + 1)..n) = m + 1
  <1> DEFINE S == (m + 1)..n
  <1>1. m + 1 \in S /\ \A y \in S : y \in Int /\ m + 1 <= y
    OBVIOUS
  <1>2. \A x \in S : (\A y \in S : x <= y) => x = m + 1
    BY <1>1
  <1> HIDE DEF S
  <1>3. Min(S) = m + 1
    BY <1>1, <1>2 DEF Min
  <1> QED
    BY <1>3 DEF S

\* A byte of two decimal digits.
Pair(d) == 16 * (d \div 10) + (d % 10)

\* It is a byte, reads as its digits and appends them.
LEMMA PairFacts ==
  ASSUME NEW d \in Nat, d < 100
  PROVE  /\ Pair(d) \in 0..255
         /\ High(Pair(d)) = d \div 10 /\ IsDigit(High(Pair(d)))
         /\ Low(Pair(d)) = d % 10 /\ IsDigit(Low(Pair(d)))
         /\ \A x \in Nat : Appended(x, Pair(d)) = 100 * x + d
  <1>1. d \div 10 \in 0..9 /\ d % 10 \in 0..9 /\ d = 10 * (d \div 10) + (d % 10)
    OBVIOUS
  <1>2. High(Pair(d)) = d \div 10 /\ Low(Pair(d)) = d % 10 /\ Pair(d) \in 0..255
    BY <1>1 DEF High, Low, Pair
  <1>3. IsDigit(High(Pair(d))) /\ IsDigit(Low(Pair(d)))
    BY <1>1, <1>2 DEF IsDigit
  <1>4. \A x \in Nat : Appended(x, Pair(d))
                         = 100 * x + 10 * (d \div 10) + (d % 10)
    BY <1>2, <1>3 DEF Appended
  <1> QED
    BY <1>1, <1>2, <1>3, <1>4

\* m bytes of decimal digits, and 0xFF behind them.
HasPairs(p, m, num) ==
  /\ \A i \in 1..m : p[i] = Pair(DigitAt(Hundred, num, m - i))
  /\ \A i \in (m + 1)..Len(p) : p[i] = 255

\* An import stops behind the digits.
LEMMA PairsCount ==
  ASSUME NEW p \in Seq(Nat), NEW num \in Nat, NEW m \in 0..Len(p),
         HasPairs(p, m, num)
  PROVE  Count(p) = m
  <1>1. ASSUME NEW i \in 1..m
        PROVE  IsDigit(High(p[i]))
    <2>1. m - i \in Nat /\ Hundred \in Nat /\ Hundred > 0
      BY DEF Hundred
    <2>2. DigitAt(Hundred, num, m - i) \in Nat /\ DigitAt(Hundred, num, m - i) < 100
      BY <2>1, NextDigit DEF Hundred
    <2> QED
      BY <2>2, PairFacts DEF HasPairs
  <1>2. ASSUME NEW i \in (m + 1)..Len(p)
        PROVE  ~IsDigit(High(p[i]))
    <2>1. p[i] = 255
      BY DEF HasPairs
    <2> QED
      BY <2>1 DEF IsDigit, High
  <1>3. Len(p) \in Nat /\ m \in Nat /\ m <= Len(p)
    OBVIOUS
  <1>4. NoDigit(p) = (m + 1)..Len(p)
    <2>1. \A i \in 1..Len(p) : i \in 1..m \/ i \in (m + 1)..Len(p)
      BY <1>3
    <2>2. \A i \in (m + 1)..Len(p) : i \in 1..Len(p)
      BY <1>3
    <2> QED
      BY <1>1, <1>2, <2>1, <2>2, Zenon DEF NoDigit
  <1>5. CASE m = Len(p)
    <2>1. NoDigit(p) = {}
      BY <1>3, <1>4, <1>5
    <2> QED
      BY <1>5, <2>1 DEF Count, Stop
  <1>6. CASE m < Len(p)
    <2>1. NoDigit(p) # {}
      BY <1>3, <1>4, <1>6
    <2>2. Stop(p) = m + 1
      BY <1>3, <1>4, <1>6, <2>1, MinFrom DEF Stop
    <2> QED
      BY <1>3, <2>2 DEF Count
  <1> QED
    BY <1>3, <1>5, <1>6

\* Digits put behind each other are the number they begin.
LEMMA BcdReads ==
  ASSUME NEW p \in Seq(Nat), NEW num \in Nat, NEW m \in 0..Len(p),
         HasPairs(p, m, num)
  PROVE  ImportBcd(p) = num % Power(Hundred, m)
  <1>1. Count(p) = m
    BY PairsCount
  <1>2. PICK v : AppendsAll(p, m, v)
    BY <1>1, BcdImportSteps
  <1>3. m \in Nat /\ Hundred \in Nat /\ Hundred > 0
    BY DEF Hundred
  <1> DEFINE Begun(k) == (num \div Power(Hundred, m - k)) % Power(Hundred, k)
             S == {k \in Nat : k <= m => v[k] = Begun(k)}
  <1>4. Power(Hundred, 0) = 1
    BY <1>3, PowerFacts
  <1>5. 0 \in S
    <2>1. v[0] = 0
      BY <1>2 DEF AppendsAll
    <2>2. num \div Power(Hundred, m - 0) \in Nat
      <3>1. m - 0 \in Nat
        BY <1>3
      <3> QED
        BY <1>3, <3>1, NextDigit
    <2>3. \A q \in Nat : q % 1 = 0
      OBVIOUS
    <2> QED
      BY <1>4, <2>1, <2>2, <2>3
  <1>6. ASSUME NEW k \in Nat, k \in S
        PROVE  k + 1 \in S
    <2> SUFFICES ASSUME k + 1 <= m PROVE v[k + 1] = Begun(k + 1)
      OBVIOUS
    <2> DEFINE j == m - (k + 1)
               a == num \div Power(Hundred, j)
               P == Power(Hundred, k)
    <2>1. /\ j \in Nat /\ j + 1 = m - k /\ m - (k + 1) = j
          /\ k + 1 \in 1..m /\ (k + 1) - 1 = k /\ k <= m
      BY <1>3
    <2>2. v[k] = Begun(k)
      BY <1>6, <2>1
    <2> HIDE DEF S
    <2>3. /\ a \in Nat /\ num \div Power(Hundred, m - k) = a \div Hundred
          /\ DigitAt(Hundred, num, j) \in Nat
          /\ DigitAt(Hundred, num, j) < Hundred
      <3> HIDE DEF j, Begun
      <3>1. num \div Power(Hundred, j + 1) = a \div Hundred
        BY <1>3, <2>1, NextDigit
      <3>2. num \div Power(Hundred, m - k) = a \div Hundred
        BY <2>1, <3>1, Zenon
      <3> QED
        BY <1>3, <2>1, <3>2, NextDigit
    <2>4. DigitAt(Hundred, num, j) = a % Hundred
      BY Zenon DEF DigitAt
    <2>5. P \in Nat /\ P > 0 /\ Power(Hundred, k + 1) = Hundred * P
      BY <1>3, PowerFacts, PowerPositive
    <2>6. v[k] = (a \div Hundred) % P
      BY <2>2, <2>3, Zenon
    <2>7. Begun(k + 1) = a % (Hundred * P)
      BY <2>1, <2>5, Zenon
    <2>8. v[k + 1] = Appended(v[k], Pair(a % Hundred))
      BY <1>2, <2>1, <2>4 DEF AppendsAll, HasPairs
    <2> HIDE DEF j, a, P, Begun
    <2>9. a % Hundred \in Nat /\ a % Hundred < 100
      BY <2>3, <2>4 DEF Hundred
    <2>10. a \div Hundred \in Nat
      BY <1>3, <2>3, Division
    <2>11. v[k] \in Nat
      BY <2>5, <2>6, <2>10, Division
    <2>12. v[k + 1] = Hundred * v[k] + (a % Hundred)
      BY <2>8, <2>9, <2>11, PairFacts DEF Hundred
    <2>13. a % (Hundred * P) = Hundred * ((a \div Hundred) % P) + (a % Hundred)
      BY <1>3, <2>3, <2>5, DivideTwice
    <2> QED
      BY <2>6, <2>7, <2>12, <2>13, Zenon
  <1> HIDE DEF S
  <1>7. Nat \subseteq S
    BY <1>5, <1>6, SetInduction
  <1>8. v[m] = Begun(m)
    BY <1>3, <1>7 DEF S
  <1>9. m - m = 0 /\ num \div 1 = num
    BY <1>3
  <1>10. Begun(m) = num % Power(Hundred, m)
    BY <1>4, <1>9, Zenon
  <1>11. ImportBcd(p) = v[m]
    BY <1>2 DEF AppendsAll
  <1> QED
    BY <1>8, <1>10, <1>11, Zenon

\* Powers grow.
LEMMA PowerGrows ==
  ASSUME NEW b \in Nat, b > 0, NEW m \in Nat, NEW n \in Nat, m <= n
  PROVE  Power(b, m) <= Power(b, n)
  <1> DEFINE S == {k \in Nat : Power(b, m) <= Power(b, m + k)}
  <1>1. 0 \in S
    BY PowerPositive
  <1>2. ASSUME NEW k \in Nat, k \in S
        PROVE  k + 1 \in S
    <2> DEFINE P == Power(b, m + k)
    <2>1. m + k \in Nat /\ m + (k + 1) = (m + k) + 1
      OBVIOUS
    <2>2. Power(b, m + (k + 1)) = b * P
      BY <2>1, PowerFacts
    <2>3. P \in Nat /\ P > 0 /\ Power(b, m) \in Nat
      BY <2>1, PowerPositive
    <2>4. Power(b, m) <= P
      BY <1>2
    <2> HIDE DEF P
    <2>5. b * P >= P /\ b * P \in Nat
      <3>1. P * b >= P /\ P * b = b * P /\ b * P \in Nat
        BY <2>3, ProductGrows
      <3> QED
        BY <3>1
    <2> QED
      BY <2>2, <2>3, <2>4, <2>5
  <1> HIDE DEF S
  <1>3. n - m \in S
    BY <1>1, <1>2, SetInduction
  <1>4. m + (n - m) = n
    OBVIOUS
  <1> QED
    BY <1>3, <1>4 DEF S

\* The values of pow that log10 is compared with.
LEMMA PowerValues ==
  /\ Power(10, 0) = 1        /\ Power(10, 1) = 10
  /\ Power(10, 2) = 100      /\ Power(10, 3) = 1000
  /\ Power(10, 4) = 10000    /\ Power(10, 5) = 100000
  /\ Power(10, 6) = 1000000  /\ Power(10, 7) = 10000000
  /\ Power(10, 8) = 100000000
  /\ Power(10, 9) = 1000000000
  /\ Power(100, 1) = 100
  /\ Power(100, 2) = 10000
  /\ Power(100, 3) = 1000000
  /\ Power(100, 4) = 100000000
  /\ Power(100, 5) = 10000000000
  <1>1. Power(10, 0) = 1 /\ Power(100, 0) = 1
    BY Power10, Power100
  <1>2. \A n \in Nat : Power(10, n + 1) = 10 * Power(10, n)
    BY Power10
  <1>3. \A n \in Nat : Power(100, n + 1) = 100 * Power(100, n)
    BY Power100
  <1>4. Power(10, 0 + 1) = 10 /\ Power(10, 1 + 1) = 100
    BY <1>1, <1>2
  <1>5. Power(10, 2 + 1) = 1000 /\ Power(10, 3 + 1) = 10000
    BY <1>2, <1>4
  <1>6. Power(10, 4 + 1) = 100000 /\ Power(10, 5 + 1) = 1000000
    BY <1>2, <1>5
  <1>7. Power(10, 6 + 1) = 10000000 /\ Power(10, 7 + 1) = 100000000
    BY <1>2, <1>6
  <1>8. Power(10, 8 + 1) = 1000000000
    BY <1>2, <1>7
  <1>9. Power(100, 0 + 1) = 100 /\ Power(100, 1 + 1) = 10000
    BY <1>1, <1>3
  <1>10. Power(100, 2 + 1) = 1000000 /\ Power(100, 3 + 1) = 100000000
    BY <1>3, <1>9
  <1>11. Power(100, 4 + 1) = 10000000000
    BY <1>3, <1>10
  <1> QED
    BY <1>1, <1>4, <1>5, <1>6, <1>7, <1>8, <1>9, <1>10, <1>11

\* The bytes log10 asks for are enough, if the number is not 0.
LEMMA NeededEnough ==
  ASSUME NEW num \in Nat, num <= 2147483647, NEW size \in Nat,
         NEW log10_num \in Log10(num, size)
  PROVE  /\ NeededBytes(log10_num) \in Nat
         /\ num # 0 => num < Power(100, NeededBytes(log10_num))
  <1>1. CASE num = 0
    <2>1. log10_num \in Nat
      BY <1>1 DEF Log10
    <2> QED
      BY <1>1, <2>1 DEF NeededBytes
  <1>2. CASE num # 0
    <2> DEFINE R(k) == /\ Power(10, k) <= num
                       /\ k = 9 \/ num < Power(10, k + 1)
    <2>1. log10_num = CHOOSE k \in 0..9 : R(k)
      BY <1>2 DEF Log10
    <2>2. \E k \in 0..9 : R(k)
      <3>1. CASE num < 100000
        BY <1>2, <3>1, PowerValues
      <3>2. CASE num >= 100000
        BY <1>2, <3>2, PowerValues
      <3> QED
        BY <3>1, <3>2
    <2>3. log10_num \in 0..9 /\ R(log10_num)
      BY <2>1, <2>2
    <2>4. CASE log10_num \in 0..4
      BY <2>3, <2>4, PowerValues DEF NeededBytes
    <2>5. CASE log10_num \in 5..9
      BY <2>3, <2>5, PowerValues DEF NeededBytes
    <2> QED
      BY <2>3, <2>4, <2>5
  <1> QED
    BY <1>1, <1>2

\* The numbers for which the arithmetic of the code is exact.
Exact(num) == num <= 2147483647

\* A byte of those written, if m hold digits.
ByteOf(num, m, index) ==
  IF index > m THEN 255
  ELSE LET rest == num \div Power(100, m - index)
       IN  16 * ((rest \div 10) % 10) + (rest % 10)

Written(num, size, m, w) == w = [index \in 1..size |-> ByteOf(num, m, index)]

\* pksav_export_bcd writes the last digits of the number, as many as fit.
LEMMA BcdWrites ==
  ASSUME NEW num \in Nat, Exact(num), NEW size \in Nat, size > 0,
         NEW w \in ExportBcd(num, size)
  PROVE  /\ w \in [1..size -> 0..255]
         /\ \E m \in 0..size :
              /\ HasPairs(w, m, num)
              /\ num % Power(Hundred, m) = num % Power(Hundred, size)
  <1>1. PICK log10_num \in Log10(num, size) :
          Written(num, size,
                  IF size < NeededBytes(log10_num) THEN size ELSE NeededBytes(log10_num), w)
    BY SMT DEF ExportBcd, Written, ByteOf
  <1> DEFINE needed == NeededBytes(log10_num)
             m == IF size < needed THEN size ELSE needed
  <1>2. needed \in Nat /\ (num # 0 => num < Power(100, needed))
    BY NeededEnough, SMT DEF Exact
  <1>3. m \in 0..size /\ (m = size \/ m = needed)
    BY <1>2
  <1>4. w = [index \in 1..size |-> ByteOf(num, m, index)]
    BY <1>1 DEF Written
  <1>5. Hundred \in Nat /\ Hundred > 0 /\ Hundred = 100
    BY DEF Hundred
  <1> HIDE DEF needed, m
  <1>6. ASSUME NEW i \in 1..m
        PROVE  ByteOf(num, m, i) = Pair(DigitAt(Hundred, num, m - i))
    <2> DEFINE rest == num \div Power(100, m - i)
    <2>1. m - i \in Nat /\ ~(i > m)
      BY <1>3
    <2>2. rest \in Nat
      BY <1>5, <2>1, NextDigit
    <2>3. DigitAt(Hundred, num, m - i) = rest % 100
      BY <1>5 DEF DigitAt
    <2>4. ByteOf(num, m, i) = 16 * ((rest \div 10) % 10) + (rest % 10)
      BY <2>1 DEF ByteOf
    <2> HIDE DEF rest
    <2>5. (rest % 100) \div 10 = (rest \div 10) % 10 /\ (rest % 100) % 10 = rest % 10
      BY <2>2
    <2> QED
      BY <2>3, <2>4, <2>5 DEF Pair
  <1>7. ASSUME NEW i \in (m + 1)..size
        PROVE  ByteOf(num, m, i) = 255
    <2>1. i > m
      BY <1>3
    <2> QED
      BY <2>1 DEF ByteOf
  <1>8. \A i \in 1..m : ByteOf(num, m, i) \in 0..255
    <2> SUFFICES ASSUME NEW i \in 1..m PROVE ByteOf(num, m, i) \in 0..255
      OBVIOUS
    <2>1. m - i \in Nat
      BY <1>3
    <2>2. DigitAt(Hundred, num, m - i) \in Nat /\ DigitAt(Hundred, num, m - i) < 100
      BY <1>5, <2>1, NextDigit
    <2> QED
      BY <1>6, <2>2, PairFacts
  <1>9. \A i \in 1..size : i \in 1..m \/ i \in (m + 1)..size
    BY <1>3
  <1>10. w \in [1..size -> 0..255]
    BY <1>4, <1>7, <1>8, <1>9
  <1>11. HasPairs(w, m, num)
    <2>1. \A i \in 1..m : i \in 1..size
      BY <1>3
    <2>2. \A i \in (m + 1)..size : i \in 1..size
      BY <1>3
    <2>3. Len(w) = size
      BY <1>10
    <2> QED
      BY <1>4, <1>6, <1>7, <2>1, <2>2, <2>3 DEF HasPairs
  <1>12. num % Power(Hundred, m) = num % Power(Hundred, size)
    <2>1. \A n \in Nat : Power(100, n) \in Nat /\ Power(100, n) > 0
      BY Power100
    <2>2. m \in Nat
      BY <1>3
    <2>3. CASE m = size
      BY <2>3
    <2>4. CASE m = needed /\ num # 0
      <3>1. Power(Hundred, m) <= Power(Hundred, size)
        BY <1>3, <1>5, <2>2, PowerGrows
      <3>2. num < Power(100, m)
        BY <1>2, <2>4
      <3> QED
        BY <1>5, <2>1, <2>2, <3>1, <3>2
    <2>5. CASE num = 0
      BY <1>5, <2>1, <2>2, <2>5
    <2> QED
      BY <1>3, <2>3, <2>4, <2>5
  <1> QED
    BY <1>3, <1>10, <1>11, <1>12

-----------------------------------------------------------------------------
(* Numbers of a save.                                                      *)

\* What a buffer reads as.
ReadsAs(kind, p) == IF kind = "bcd" THEN ImportBcd(p) ELSE ImportBase256(p)

\* There is a number that fits.
LEMMA ModulusPositive ==
  ASSUME NEW kind, NEW size \in Nat
  PROVE  /\ Modulus(kind, size) \in Nat /\ Modulus(kind, size) > 0
         /\ Modulus(kind, size)
              = IF kind = "bcd" THEN Power(Hundred, size) ELSE Power(Base, size)
  <1>1. /\ Power(100, size) \in Nat /\ Power(100, size) > 0
        /\ Power(256, size) \in Nat /\ Power(256, size) > 0
    BY Power100, Power256
  <1> QED
    BY <1>1, Zenon DEF Modulus, Hundred, Base

\* Bytes are numbers.
LEMMA ByteBuffer ==
  ASSUME NEW size \in Nat, NEW p \in [1..size -> 0..255]
  PROVE  p \in Seq(Nat) /\ p \in Seq(0..255) /\ Len(p) = size
  <1>1. ASSUME NEW B, p \in [1..size -> B], B \subseteq Nat
        PROVE  p \in Seq(Nat) /\ p \in Seq(B) /\ Len(p) = size
    <2>1. p \in Seq(B) /\ Len(p) = size
      BY <1>1
    <2>2. \A i \in 1..Len(p) : p[i] \in Nat
      BY <1>1, <2>1
    <2> QED
      BY <2>1, <2>2
  <1>2. 0..255 \subseteq Nat
    OBVIOUS
  <1> QED
    BY <1>1, <1>2, Zenon

\* Decimal digits, or binary ones, read as what they are the end of.
LEMMA DigitsRead ==
  ASSUME NEW kind, NEW num \in Nat, NEW size \in Nat,
         NEW p \in [1..size -> 0..255],
         IF kind = "bcd"
         THEN \E m \in 0..size : /\ HasPairs(p, m, num)
                                 /\ num % Power(Hundred, m) = num % Power(Hundred, size)
         ELSE HasDigits(Base, p, size, num)
  PROVE  ReadsAs(kind, p) = num % Modulus(kind, size)
  <1>1. p \in Seq(Nat) /\ Len(p) = size
    BY ByteBuffer
  <1>2. CASE kind = "bcd"
    <2>1. PICK m \in 0..size : /\ HasPairs(p, m, num)
                               /\ num % Power(Hundred, m) = num % Power(Hundred, size)
      BY <1>2
    <2>2. ImportBcd(p) = num % Power(Hundred, m)
      BY <1>1, <2>1, BcdReads
    <2> QED
      BY <1>2, <2>1, <2>2, ModulusPositive, Zenon DEF ReadsAs
  <1>3. CASE kind # "bcd"
    <2>1. HasDigits(Base, p, Len(p), num)
      BY <1>1, <1>3
    <2>2. ImportBase256(p) = num % Power(Base, size)
      BY <1>1, <2>1, Base256Reads
    <2> QED
      BY <1>3, <2>2, ModulusPositive, Zenon DEF ReadsAs
  <1> QED
    BY <1>2, <1>3

\* What an export may write.
Exports(kind, num, size) ==
  IF kind = "bcd" THEN ExportBcd(num, size) ELSE {ExportBase256(num, size)}

\* A number written reads as its last digits.
LEMMA NumberWritten ==
  ASSUME NEW kind, NEW num \in Nat, Exact(num), NEW size \in Nat, size > 0,
         NEW w \in Exports(kind, num, size)
  PROVE  /\ w \in [1..size -> 0..255]
         /\ ReadsAs(kind, w) = num % Modulus(kind, size)
  <1>1. CASE kind = "bcd"
    <2>1. w \in ExportBcd(num, size)
      BY <1>1, Zenon DEF Exports
    <2>2. /\ w \in [1..size -> 0..255]
          /\ \E m \in 0..size :
               /\ HasPairs(w, m, num)
               /\ num % Power(Hundred, m) = num % Power(Hundred, size)
      BY <2>1, BcdWrites, Zenon
    <2> QED
      BY <1>1, <2>2, DigitsRead, Zenon
  <1>2. CASE kind # "bcd"
    <2>1. w = ExportBase256(num, size)
      BY <1>2, Zenon DEF Exports
    <2>2. 0..(Base - 1) = 0..255
      BY DEF Base
    <2>3. /\ w \in [1..size -> 0..255]
          /\ HasDigits(Base, w, size, num)
      BY <2>1, <2>2, Base256Writes, Zenon
    <2> QED
      BY <1>2, <2>3, DigitsRead, Zenon
  <1> QED
    BY <1>1, <1>2

\* A number a game left reads as itself.
LEMMA NumberInGame ==
  ASSUME NEW kind, NEW num \in Nat, NEW size \in Nat, num < Modulus(kind, size)
  PROVE  /\ GameNumber(kind, num, size) \in [1..size -> 0..255]
         /\ ReadsAs(kind, GameNumber(kind, num, size)) = num
  <1> DEFINE p == GameNumber(kind, num, size)
  <1>1. p = [i \in 1..size |->
               IF kind = "bcd" THEN Pair(DigitAt(Hundred, num, size - i))
               ELSE DigitAt(Base, num, size - i)]
    BY Zenon DEF GameNumber, Pair, DigitAt, Hundred, Base
  <1> HIDE DEF p
  <1>2. Hundred \in Nat /\ Hundred > 0 /\ Base \in Nat /\ Base > 0
    BY DEF Hundred, Base
  <1>3. ASSUME NEW i \in 1..size
        PROVE  /\ DigitAt(Base, num, size - i) \in 0..255
               /\ Pair(DigitAt(Hundred, num, size - i)) \in 0..255
    <2>1. size - i \in Nat
      OBVIOUS
    <2>2. DigitAt(Hundred, num, size - i) \in Nat /\ DigitAt(Hundred, num, size - i) < 100
      BY <1>2, <2>1, NextDigit DEF Hundred
    <2>3. DigitAt(Base, num, size - i) \in Nat /\ DigitAt(Base, num, size - i) < 256
      BY <1>2, <2>1, NextDigit DEF Base
    <2>4. Pair(DigitAt(Hundred, num, size - i)) \in 0..255
      BY <2>2, PairFacts, Zenon
    <2> QED
      BY <2>3, <2>4
  <1>4. p \in [1..size -> 0..255]
    BY <1>1, <1>3
  <1>5. ReadsAs(kind, p) = num % Modulus(kind, size)
    <2>1. CASE kind = "bcd"
      <3>1. Len(p) = size /\ (size + 1)..size = {}
        BY <1>4
      <3>2. HasPairs(p, size, num)
        BY <1>1, <2>1, <3>1 DEF HasPairs
      <3>3. \E m \in 0..size :
              /\ HasPairs(p, m, num)
              /\ num % Power(Hundred, m) = num % Power(Hundred, size)
        BY <3>2
      <3> QED
        BY <1>4, <2>1, <3>3, DigitsRead, Zenon
    <2>2. CASE kind # "bcd"
      <3>1. HasDigits(Base, p, size, num)
        BY <1>1, <2>2 DEF HasDigits
      <3> QED
        BY <1>4, <2>2, <3>1, DigitsRead, Zenon
    <2> QED
      BY <2>1, <2>2
  <1>6. num % Modulus(kind, size) = num
    <2> DEFINE M == Modulus(kind, size)
    <2>1. M \in Nat /\ M > 0 /\ num < M
      BY ModulusPositive
    <2> HIDE DEF M
    <2>2. num % M = num
      BY <2>1
    <2> QED
      BY <2>2 DEF M
  <1> QED
    BY <1>4, <1>5, <1>6 DEF p

\* The formats, and that none is of numbers and of names.
LEMMA FormatNames ==
  /\ TextFormat = {"gen1", "gen2", "gen3", "xds"}
  /\ NumberFormat = {"bcd", "base256"}
  /\ NumberFormat \cap TextFormat = {}
  <1>1. TextFormat = {"gen1", "gen2", "gen3", "xds"}
    <2>1. \A a, b, c, d : DOMAIN [gen1 |-> a, gen2 |-> b, gen3 |-> c, xds |-> d]
                            = {"gen1", "gen2", "gen3", "xds"}
      OBVIOUS
    <2> QED
      BY <2>1, Zenon DEF TextFormat, Formats
  <1> QED
    BY <1>1 DEF NumberFormat

\* A buffer of a number holds bytes that read as the number.
NumberInv ==
  format \in NumberFormat =>
    /\ number \in Nat
    /\ \E size \in Nat : size > 0 /\ buffer \in [1..size -> 0..255]
    /\ ReadsAs(format, buffer) = number

\* The numbers and buffers of a client.
LEMMA ClientNumbers ==
  /\ \A num \in Numbers : num \in Nat /\ Exact(num)
  /\ \A size \in NumberSizes : size \in Nat /\ size > 0
  <1>1. \A num \in Numbers : num \in Nat /\ Exact(num)
    BY ConversionsAssumption, SMT DEF ConversionsAssumption, Exact
  <1>2. \A size \in NumberSizes : size \in Nat /\ size > 0
    BY ConversionsAssumption, SMT DEF ConversionsAssumption
  <1> QED
    BY <1>1, <1>2

\* It holds of what a game leaves,
LEMMA NumberInit == Init => NumberInv
  <1> SUFFICES ASSUME Init, format \in NumberFormat
               PROVE  NumberInv
    BY DEF NumberInv
  <1>1. format \notin TextFormat
    BY FormatNames
  <1>2. PICK size \in NumberSizes, num \in Numbers :
          /\ num < Modulus(format, size)
          /\ buffer = GameNumber(format, num, size)
          /\ number = num
    BY <1>1, Zenon DEF Init
  <1>3. size \in Nat /\ size > 0 /\ num \in Nat
    BY <1>2, ClientNumbers
  <1>4. buffer \in [1..size -> 0..255] /\ ReadsAs(format, buffer) = num
    BY <1>2, <1>3, NumberInGame, Zenon
  <1> QED
    BY <1>2, <1>3, <1>4, Zenon DEF NumberInv

\* and no call breaks it.
LEMMA NumberStep == NumberInv /\ [Next]_vars => NumberInv'
  <1> SUFFICES ASSUME NumberInv, [Next]_vars, (format \in NumberFormat)'
               PROVE  NumberInv'
    BY DEF NumberInv
  <1>1. CASE WriteNumber
    <2>1. PICK num \in Numbers :
            /\ buffer' \in IF format = "bcd" THEN ExportBcd(num, Len(buffer))
                           ELSE {ExportBase256(num, Len(buffer))}
            /\ number' = num % Modulus(format, Len(buffer))
      BY <1>1, Zenon DEF WriteNumber
    <2>2. num \in Nat /\ Exact(num)
      BY ClientNumbers
    <2>3. format' = format /\ format \in NumberFormat
      BY <1>1 DEF WriteNumber
    <2>4. PICK size \in Nat : size > 0 /\ buffer \in [1..size -> 0..255]
      BY <2>3, Zenon DEF NumberInv
    <2>5. Len(buffer) = size
      BY <2>4, ByteBuffer, Zenon
    <2>6. /\ buffer' \in [1..size -> 0..255]
          /\ ReadsAs(format, buffer') = num % Modulus(format, size)
      <3>1. buffer' \in Exports(format, num, size)
        BY <2>1, <2>5, Zenon DEF Exports
      <3>2. num \in Nat /\ Exact(num) /\ size \in Nat /\ size > 0
        BY <2>2, <2>4
      <3> QED
        BY <3>1, <3>2, NumberWritten, Zenon
    <2>7. num % Modulus(format, size) \in Nat
      BY <2>2, <2>4, ModulusPositive, Division, Zenon
    <2>8. number' = num % Modulus(format, size)
      BY <2>1, <2>5, Zenon
    <2> QED
      BY <2>3, <2>4, <2>6, <2>7, <2>8, Zenon DEF NumberInv
  <1>2. CASE ~WriteNumber
    <2>1. \/ ReadName \/ WriteName \/ WriteBack \/ SetLocale \/ UNCHANGED vars
      BY <1>2 DEF Next
    <2>2. format' = format
      BY <2>1 DEF ReadName, WriteName, WriteBack, WriteText, SetLocale, vars
    <2>3. format \notin TextFormat
      BY <2>2, FormatNames, Zenon
    <2>4. UNCHANGED <<format, buffer, number>>
      BY <2>1, <2>3 DEF ReadName, WriteName, WriteBack, WriteText, SetLocale, vars
    <2> QED
      BY <2>4, Zenon DEF NumberInv
  <1> QED
    BY <1>1, <1>2

\* So it always holds.
LEMMA NumberInductive == Spec => []NumberInv
  BY NumberInit, NumberStep, PTL DEF Spec

\* NumberIsIntended: a number reads as it was written, by the library or by a
\* game, and one too large as its last digits, whatever the undefined
\* conversion of the logarithm of 0 gives; for buffers of up to eight
\* bytes (pksav_import_bcd, pksav_export_bcd, pksav_import_base256,
\* pksav_export_base256).
THEOREM NumberCorrect == Spec => []NumberIsIntended
  <1>1. NumberInv => NumberIsIntended
    BY Zenon DEF NumberInv, NumberIsIntended, Import, ReadsAs
  <1> QED
    BY <1>1, NumberInductive, PTL

-----------------------------------------------------------------------------
(* The tables of the characters.                                           *)

\* A table entry by entry.
Entries(kind) == 1..Len(Formats[kind].map)
Code(kind, i) == Formats[kind].map[i][1]
Letter(kind, i) == Formats[kind].map[i][2]
Ends(kind) == Formats[kind].ends
Fill(kind) == Formats[kind].fill

CodeRange(kind) == 0..LastUnit(kind)

\* What is so of every table: no code is in it twice, a character that ends a
\* name has no code that does not, and names are filled with an end.
GoodTable(kind) ==
  /\ DOMAIN Formats[kind].map = Entries(kind)
  /\ \A i \in Entries(kind) : /\ Code(kind, i) \in CodeRange(kind)
                              /\ Letter(kind, i) \in WideChar
  /\ \A i, j \in Entries(kind) : Code(kind, i) = Code(kind, j) => i = j
  /\ \A i, j \in Entries(kind) :
       Letter(kind, i) = Letter(kind, j) /\ Letter(kind, i) # "NUL" =>
         (Code(kind, i) \in Ends(kind) <=> Code(kind, j) \in Ends(kind))
  /\ Fill(kind) \in Ends(kind)
  /\ Ends(kind) \subseteq CodeRange(kind)

\* All four tables are good.
LEMMA GoodTables == \A kind \in TextFormat : GoodTable(kind)
  <1>1. GoodTable("gen1")
    <2>1. /\ Formats["gen1"].map = GEN1.map /\ Formats["gen1"].ends = GEN1.ends
          /\ Formats["gen1"].fill = GEN1.fill
      BY DEF Formats
    <2> QED
      BY <2>1 DEF GoodTable, Entries, Code, Letter, Ends, Fill, CodeRange, LastUnit, GEN1,
                  WideChar, Char
  <1>2. GoodTable("gen2")
    <2>1. /\ Formats["gen2"].map = GEN2.map /\ Formats["gen2"].ends = GEN2.ends
          /\ Formats["gen2"].fill = GEN2.fill
      BY DEF Formats
    <2> QED
      BY <2>1 DEF GoodTable, Entries, Code, Letter, Ends, Fill, CodeRange, LastUnit, GEN2,
                  WideChar, Char
  <1>3. GoodTable("gen3")
    <2>1. /\ Formats["gen3"].map = GEN3.map /\ Formats["gen3"].ends = GEN3.ends
          /\ Formats["gen3"].fill = GEN3.fill
      BY DEF Formats
    <2> QED
      BY <2>1 DEF GoodTable, Entries, Code, Letter, Ends, Fill, CodeRange, LastUnit, GEN3,
                  WideChar, Char
  <1>4. GoodTable("xds")
    <2>1. /\ Formats["xds"].map = XDS.map /\ Formats["xds"].ends = XDS.ends
          /\ Formats["xds"].fill = XDS.fill
      BY DEF Formats
    <2>2. \A code \in Nat : code <= LastUnit("xds") => code \in CodeRange("xds")
      <3>1. LastUnit("xds") \in Nat
        BY DEF LastUnit
      <3> QED
        BY <3>1 DEF CodeRange
    <2>3. /\ Len(XDS.map) = 8 /\ XDS.ends = {65535} /\ XDS.fill = 65535
          /\ Entries("xds") = 1..8
      BY <2>1 DEF Entries, XDS
    <2>4. \A i \in 1..8 : Code("xds", i) \in Nat /\ Code("xds", i) <= 65534
      BY <2>1 DEF Code, XDS
    <2>5. \A i \in 1..8 : Letter("xds", i) \in WideChar
      BY <2>1 DEF Letter, XDS, WideChar, Char
    <2>6. \A i, j \in 1..8 : Code("xds", i) = Code("xds", j) => i = j
      BY <2>1 DEF Code, XDS
    <2>7. Ends("xds") = {65535} /\ Fill("xds") = 65535
      BY <2>1, <2>3 DEF Ends, Fill
    <2>8. 65535 \in CodeRange("xds")
      BY <2>2 DEF LastUnit
    <2>9. \A i \in 1..8 : Code("xds", i) \in CodeRange("xds") /\ Code("xds", i) # 65535
      BY <2>2, <2>4 DEF LastUnit
    <2>10. DOMAIN XDS.map = 1..8
      BY DEF XDS
    <2> QED
      BY <2>1, <2>3, <2>10, <2>5, <2>6, <2>7, <2>8, <2>9 DEF GoodTable
  <1> QED
    BY <1>1, <1>2, <1>3, <1>4, FormatNames

\* The least of some numbers is one of them.
LEMMA MinFacts ==
  ASSUME NEW I \in SUBSET Nat, I # {}
  PROVE  Min(I) \in I /\ \A i \in I : Min(I) <= i
  <1>1. PICK n \in I : \A m \in I : <<m, n>> \notin OpToRel(<, Nat)
    BY NatLessThanWellFounded, WFMin, Zenon
  <1>2. \A m \in I : ~(m < n)
    BY <1>1 DEF OpToRel
  <1>3. \A m \in I : n =< m
    BY <1>2
  <1> QED
    BY <1>3, Zenon DEF Min

\* wchar_map_index finds a character's first entry.
LEMMA IndexFacts ==
  ASSUME NEW kind \in TextFormat, NEW c
  PROVE  \/ /\ MapIndex(kind, c) = -1
            /\ \A i \in Entries(kind) : Letter(kind, i) # c
         \/ \E i \in Entries(kind) : /\ Letter(kind, i) = c
                                     /\ MapIndex(kind, c) = Code(kind, i)
  <1> DEFINE I == {i \in Entries(kind) : Letter(kind, i) = c}
             first == IF I # {} THEN Min(I) ELSE 0
  <1>1. MapIndex(kind, c) = IF first = 0 THEN -1 ELSE Code(kind, first)
    BY Zenon DEF MapIndex, SelectInSeq, Entries, Letter, Code
  <1>2. I \in SUBSET Nat /\ 0 \notin I
    BY DEF Entries
  <1>3. I # {} => Min(I) \in I
    BY <1>2, MinFacts, Zenon
  <1>4. CASE I = {}
    BY <1>1, <1>4, Zenon
  <1>5. CASE I # {}
    <2>1. first \in I /\ first # 0
      BY <1>2, <1>3, <1>5, Zenon
    <2> QED
      BY <1>1, <2>1, Zenon
  <1> QED
    BY <1>4, <1>5

\* A code of the table is decoded to its character, and any to one.
LEMMA DecodedFacts ==
  ASSUME NEW kind \in TextFormat
  PROVE  /\ \A i \in Entries(kind) : Decoded(kind, Code(kind, i)) = Letter(kind, i)
         /\ \A code : \/ Decoded(kind, code) = "NUL"
                      \/ \E i \in Entries(kind) : /\ code = Code(kind, i)
                                                  /\ Decoded(kind, code) = Letter(kind, i)
         /\ \A code : Decoded(kind, code) \in WideChar
  <1> DEFINE I(code) == {i \in Entries(kind) : Code(kind, i) = code}
             First(code) == IF I(code) # {} THEN Min(I(code)) ELSE 0
  <1>1. \A code : Decoded(kind, code)
                    = IF First(code) = 0 THEN "NUL" ELSE Letter(kind, First(code))
    BY Zenon DEF Decoded, SelectInSeq, Entries, Letter, Code
  <1>2. \A code : I(code) \in SUBSET Nat /\ 0 \notin I(code)
    BY DEF Entries
  <1>3. \A code : I(code) # {} => Min(I(code)) \in I(code)
    BY <1>2, MinFacts, Zenon
  <1>4. GoodTable(kind)
    BY GoodTables
  <1>5. \A code : \/ First(code) = 0 /\ I(code) = {}
                  \/ First(code) \in I(code) /\ First(code) # 0
    BY <1>2, <1>3, Zenon
  <1>6. \A i \in Entries(kind) : Decoded(kind, Code(kind, i)) = Letter(kind, i)
    <2> SUFFICES ASSUME NEW i \in Entries(kind)
                 PROVE  Decoded(kind, Code(kind, i)) = Letter(kind, i)
      OBVIOUS
    <2> DEFINE j == First(Code(kind, i))
    <2>1. i \in I(Code(kind, i))
      BY Zenon
    <2>2. j \in I(Code(kind, i)) /\ j # 0
      BY <1>5, <2>1, Zenon
    <2>3. j \in Entries(kind) /\ Code(kind, j) = Code(kind, i)
      BY <2>2, Zenon
    <2>4. j = i
      BY <1>4, <2>3, Zenon DEF GoodTable
    <2> QED
      BY <1>1, <2>2, <2>4, Zenon
  <1>7. \A code : \/ Decoded(kind, code) = "NUL"
                  \/ \E i \in Entries(kind) : /\ code = Code(kind, i)
                                              /\ Decoded(kind, code) = Letter(kind, i)
    BY <1>1, <1>5, Zenon
  <1>8. \A code : Decoded(kind, code) \in WideChar
    <2>1. "NUL" \in WideChar
      BY DEF WideChar
    <2>2. \A i \in Entries(kind) : Letter(kind, i) \in WideChar
      BY <1>4 DEF GoodTable
    <2> HIDE DEF I, First
    <2> QED
      BY <1>7, <2>1, <2>2, SMT
  <1> QED
    BY <1>6, <1>7, <1>8, Zenon

-----------------------------------------------------------------------------
(* Cutting a sequence.                                                     *)

\* The greatest of some numbers up to n is one of them.
LEMMA MaxFacts ==
  ASSUME NEW n \in Nat, NEW K \in SUBSET (0..n), K # {}
  PROVE  Max(K) \in K /\ \A k \in K : k <= Max(K)
  <1> DEFINE Greatest == \E x \in K : \A y \in K : x >= y
             S == {i \in Nat : (\E k \in K : k >= n - i) => Greatest}
  <1>1. 0 \in S
    <2> SUFFICES ASSUME NEW k \in K, k >= n - 0
                 PROVE  Greatest
      OBVIOUS
    <2>1. \A y \in K : k >= y
      OBVIOUS
    <2> QED
      BY <2>1
  <1>2. ASSUME NEW i \in Nat, i \in S
        PROVE  i + 1 \in S
    <2> SUFFICES ASSUME NEW k \in K, k >= n - (i + 1)
                 PROVE  Greatest
      OBVIOUS
    <2>1. CASE \E j \in K : j >= n - i
      BY <1>2, <2>1
    <2>2. CASE \A j \in K : ~(j >= n - i)
      <3>1. \A y \in K : k >= y
        BY <2>2
      <3> QED
        BY <3>1
    <2> QED
      BY <2>1, <2>2
  <1> HIDE DEF S
  <1>3. n \in S
    BY <1>1, <1>2, SetInduction
  <1>4. \E k \in K : k >= n - n
    <2>1. \A k \in 0..n : k >= n - n
      OBVIOUS
    <2> QED
      BY <2>1
  <1>5. Greatest
    BY <1>3, <1>4 DEF S
  <1>6. PICK x \in K : \A y \in K : x >= y
    BY <1>5
  <1>7. Max(K) \in K /\ \A y \in K : Max(K) >= y
    BY <1>6, Zenon DEF Max
  <1>8. \A a, b \in 0..n : a >= b => b <= a
    OBVIOUS
  <1> QED
    BY <1>7, <1>8

\* A sequence cut at the greatest of some lengths.
Cut(s, K) == SubSeq(s, 1, Max(K))

\* Lengths of s, none of them if need be.
Lengths(s, K) == K \subseteq 0..Len(s) /\ 0 \in K

\* A cut sequence has the greatest length and the elements of the whole.
LEMMA CutFacts ==
  ASSUME NEW X, NEW s \in Seq(X), NEW K, Lengths(s, K)
  PROVE  /\ Max(K) \in K /\ Max(K) \in 0..Len(s)
         /\ \A k \in K : k <= Max(K)
         /\ Cut(s, K) \in Seq(X)
         /\ Len(Cut(s, K)) = Max(K)
         /\ \A i \in 1..Max(K) : Cut(s, K)[i] = s[i]
  <1> DEFINE m == Max(K)
  <1>1. Len(s) \in Nat /\ K \in SUBSET (0..Len(s)) /\ K # {}
    BY DEF Lengths
  <1>2. m \in K /\ \A k \in K : k <= m
    BY <1>1, MaxFacts, Zenon
  <1>3. m \in 0..Len(s)
    BY <1>1, <1>2
  <1> HIDE DEF m
  <1>4. /\ SubSeq(s, 1, m) \in Seq(X) /\ Len(SubSeq(s, 1, m)) = m
        /\ \A i \in 1..m : SubSeq(s, 1, m)[i] = s[i]
    BY <1>3
  <1> QED
    BY <1>2, <1>3, <1>4 DEF Cut, m

\* The beginning of a sequence: its elements, and that equal ones are equal.
LEMMA Beginning ==
  ASSUME NEW X, NEW s \in Seq(X), NEW k \in 0..Len(s)
  PROVE  /\ SubSeq(s, 1, k) \in Seq(X) /\ Len(SubSeq(s, 1, k)) = k
         /\ \A i \in 1..k : SubSeq(s, 1, k)[i] = s[i]
         /\ Range(SubSeq(s, 1, k)) = {s[i] : i \in 1..k}
  <1>1. /\ SubSeq(s, 1, k) \in Seq(X) /\ Len(SubSeq(s, 1, k)) = k
        /\ \A i \in 1..k : SubSeq(s, 1, k)[i] = s[i]
    OBVIOUS
  <1>2. DOMAIN SubSeq(s, 1, k) = 1..k
    OBVIOUS
  <1>3. Range(SubSeq(s, 1, k)) = {s[i] : i \in 1..k}
    BY <1>1, <1>2 DEF Range
  <1> QED
    BY <1>1, <1>3

\* Sequences with the same elements begin the same.
LEMMA SameBeginning ==
  ASSUME NEW X, NEW s \in Seq(X), NEW Y, NEW t \in Seq(Y), NEW k \in Nat,
         k <= Len(s), k <= Len(t), \A i \in 1..k : s[i] = t[i]
  PROVE  SubSeq(s, 1, k) = SubSeq(t, 1, k)
OBVIOUS

\* A buffer of n codes.
LEMMA CodeBuffer ==
  ASSUME NEW X, NEW n \in Nat, NEW p \in [1..n -> X]
  PROVE  p \in Seq(X) /\ Len(p) = n
OBVIOUS

\* A text has finitely many bytes in UTF-8; no text takes no room.
LEMMA Utf8Facts ==
  /\ Utf8Size(<<>>) = 0
  /\ \A t \in Seq(Char) : IsFiniteSet(Utf8Bytes(t)) /\ Utf8Size(t) \in Nat
  <1>1. Utf8Bytes(<<>>) = {}
    <2>1. 1..Len(<<>>) = {}
      OBVIOUS
    <2> QED
      BY <2>1, Zenon DEF Utf8Bytes
  <1>2. ASSUME NEW t \in Seq(Char)
        PROVE  IsFiniteSet(Utf8Bytes(t)) /\ Utf8Size(t) \in Nat
    <2>1. 1 \in Int /\ 4 \in Int /\ Len(t) \in Int
      OBVIOUS
    <2>2. IsFiniteSet(1..Len(t)) /\ IsFiniteSet(1..4)
      BY <2>1, FS_Interval, Zenon
    <2>3. IsFiniteSet((1..Len(t)) \X (1..4))
      BY <2>2, FS_Product, Zenon
    <2>4. Utf8Bytes(t) \in SUBSET ((1..Len(t)) \X (1..4))
      BY Zenon DEF Utf8Bytes
    <2>5. IsFiniteSet(Utf8Bytes(t))
      BY <2>3, <2>4, FS_Subset, Zenon
    <2> QED
      BY <2>5, FS_CardinalityType, Zenon DEF Utf8Size
  <1> QED
    BY <1>1, <1>2, FS_EmptySet, Zenon DEF Utf8Size

\* What 16 bits keep of a text, character by character.
LEMMA NarrowedFacts ==
  ASSUME NEW kind, NEW X, NEW t \in Seq(X)
  PROVE  /\ Narrowed(kind, t) \in Seq({Narrow(kind, c) : c \in X})
         /\ Len(Narrowed(kind, t)) = Len(t)
         /\ \A i \in 1..Len(t) : Narrowed(kind, t)[i] = Narrow(kind, t[i])
  <1> DEFINE Y == {Narrow(kind, c) : c \in X}
             f == [i \in 1..Len(t) |-> Narrow(kind, t[i])]
  <1>1. \A i \in 1..Len(t) : t[i] \in X
    OBVIOUS
  <1>2. f \in [1..Len(t) -> Y]
    BY <1>1, Zenon
  <1>3. Len(t) \in Nat
    OBVIOUS
  <1>4. \A i \in 1..Len(t) : f[i] = Narrow(kind, t[i])
    BY Zenon
  <1>5. Narrowed(kind, t) = f
    BY Zenon DEF Narrowed
  <1> HIDE DEF f, Y
  <1>6. f \in Seq(Y) /\ Len(f) = Len(t)
    BY <1>2, <1>3, CodeBuffer, Zenon
  <1> QED
    BY <1>4, <1>5, <1>6, Zenon DEF Y

\* Of a beginning it keeps the beginning.
LEMMA NarrowedBeginning ==
  ASSUME NEW kind, NEW X, NEW w \in Seq(X), NEW t \in Seq(Char), NEW k \in Nat,
         k <= Len(w), k <= Len(t), \A i \in 1..k : w[i] = Narrow(kind, t[i])
  PROVE  SubSeq(w, 1, k) = Narrowed(kind, SubSeq(t, 1, k))
  <1> DEFINE s == SubSeq(t, 1, k)
             v == Narrowed(kind, s)
  <1>1. k \in 0..Len(t) /\ k \in 0..Len(w)
    OBVIOUS
  <1>2. s \in Seq(Char) /\ Len(s) = k /\ \A i \in 1..k : s[i] = t[i]
    BY <1>1, Beginning, Zenon
  <1> HIDE DEF s
  <1>3. /\ v \in Seq({Narrow(kind, c) : c \in Char}) /\ Len(v) = k
        /\ \A i \in 1..k : v[i] = Narrow(kind, s[i])
    BY <1>2, NarrowedFacts, Zenon
  <1>4. \A i \in 1..k : w[i] = v[i]
    BY <1>2, <1>3, Zenon
  <1> HIDE DEF v
  <1>5. SubSeq(w, 1, k) = SubSeq(v, 1, k)
    BY <1>3, <1>4, SameBeginning
  <1>6. SubSeq(v, 1, k) = v
    BY <1>3
  <1> QED
    BY <1>5, <1>6 DEF v, s

-----------------------------------------------------------------------------
(* What is kept of a text.                                                 *)

\* A text fits in n characters and bytes, with characters of C only.
Fits(kind, t, n, C) ==
  /\ Len(t) <= n
  /\ Utf8Size(Narrowed(kind, t)) <= n
  /\ \A c \in Range(t) : Coded(kind, c) /\ c \in C

FitLengths(kind, t, n, C) == {k \in 0..Len(t) : Fits(kind, SubSeq(t, 1, k), n, C)}

\* As much of a text as fits.
Kept(kind, t, n, C) == Cut(t, FitLengths(kind, t, n, C))

\* Nothing fits always.
LEMMA FitLengthsFacts ==
  ASSUME NEW kind, NEW t \in Seq(Char), NEW n \in Nat, NEW C
  PROVE  Lengths(t, FitLengths(kind, t, n, C))
  <1>1. SubSeq(t, 1, 0) = <<>> /\ Range(<<>>) = {} /\ Len(<<>>) = 0
    BY DEF Range
  <1>2. Fits(kind, <<>>, n, C)
    <2>1. Narrowed(kind, <<>>) = <<>>
      BY DEF Narrowed
    <2>2. Utf8Size(Narrowed(kind, <<>>)) = 0
      BY <2>1, Utf8Facts, Zenon
    <2> QED
      BY <1>1, <2>2 DEF Fits
  <1>3. Len(t) \in Nat
    OBVIOUS
  <1>4. 0 \in 0..Len(t)
    BY <1>3
  <1> QED
    BY <1>1, <1>2, <1>4, Zenon DEF FitLengths, Lengths

\* It fits, and is a text.
LEMMA KeptFits ==
  ASSUME NEW kind, NEW t \in Seq(Char), NEW n \in Nat, NEW C
  PROVE  Kept(kind, t, n, C) \in Seq(Char) /\ Fits(kind, Kept(kind, t, n, C), n, C)
  <1> DEFINE K == FitLengths(kind, t, n, C)
  <1>1. Lengths(t, K)
    BY FitLengthsFacts
  <1>2. Max(K) \in K /\ Cut(t, K) \in Seq(Char)
    BY <1>1, CutFacts, Zenon
  <1> QED
    BY <1>2, Zenon DEF FitLengths, Kept, Cut

\* A text that fits is kept.
LEMMA KeptWhole ==
  ASSUME NEW kind, NEW t \in Seq(Char), NEW n \in Nat, NEW C, Fits(kind, t, n, C)
  PROVE  Kept(kind, t, n, C) = t
  <1> DEFINE K == FitLengths(kind, t, n, C)
  <1>1. Lengths(t, K)
    BY FitLengthsFacts
  <1>2. Max(K) \in 0..Len(t) /\ \A k \in K : k <= Max(K)
    BY <1>1, CutFacts, Zenon
  <1>3. Len(t) \in 0..Len(t) /\ SubSeq(t, 1, Len(t)) = t
    OBVIOUS
  <1>4. Len(t) \in K
    BY <1>3, Zenon DEF FitLengths
  <1> HIDE DEF K
  <1>5. Max(K) = Len(t)
    BY <1>2, <1>4
  <1> QED
    BY <1>3, <1>5, Zenon DEF Kept, Cut, K

\* If what is kept has characters of a smaller set only, the same is kept with
\* those.
LEMMA KeptLess ==
  ASSUME NEW kind, NEW t \in Seq(Char), NEW n \in Nat, NEW C, NEW D, D \subseteq C,
         Range(Kept(kind, t, n, C)) \subseteq D
  PROVE  Kept(kind, t, n, D) = Kept(kind, t, n, C)
  <1> DEFINE K == FitLengths(kind, t, n, C)
             L == FitLengths(kind, t, n, D)
  <1>1. Lengths(t, K) /\ Lengths(t, L)
    BY FitLengthsFacts
  <1>2. Max(K) \in K /\ Max(K) \in 0..Len(t) /\ \A k \in K : k <= Max(K)
    BY <1>1, CutFacts, Zenon
  <1>3. Max(L) \in L /\ Max(L) \in 0..Len(t) /\ \A k \in L : k <= Max(L)
    BY <1>1, CutFacts, Zenon
  <1>4. Max(L) \in K
    BY <1>3, Zenon DEF FitLengths, Fits
  <1>5. Max(K) \in L
    BY <1>2, Zenon DEF FitLengths, Fits, Kept, Cut
  <1> HIDE DEF K, L
  <1>6. Max(K) = Max(L)
    BY <1>2, <1>3, <1>4, <1>5
  <1> QED
    BY <1>6, Zenon DEF Kept, Cut, K, L

-----------------------------------------------------------------------------
(* What is read is what is kept.                                           *)

\* The lengths of w at which pksav_wcstombs may stop, before it looks for the
\* last; C is what the locale converts.
ReadLengths(w, C) ==
  {k \in 0..Len(w) : /\ Range(SubSeq(w, 1, k)) \subseteq C
                     /\ Utf8Size(SubSeq(w, 1, k)) <= Len(w)}

\* An import cuts the wide characters where the locale stops converting.
LEMMA ImportCuts ==
  ASSUME NEW kind, NEW p, NEW u
  PROVE  ImportText(kind, p, u)
           = Cut(ImportWidetext(kind, p), ReadLengths(ImportWidetext(kind, p), Converted(u)))
BY Zenon DEF ImportText, Wcstombs, LongestPrefix, Cut, ReadLengths

\* Fitting keeps what fits, with any characters.
LEMMA FittingKeeps ==
  ASSUME NEW kind, NEW t \in Seq(Char), NEW n
  PROVE  Fitting(kind, t, n) = Kept(kind, t, n, Char)
  <1> DEFINE K == {k \in 0..Len(t) :
                     /\ Len(SubSeq(t, 1, k)) <= n
                     /\ \A c \in Range(SubSeq(t, 1, k)) : Coded(kind, c)
                     /\ Utf8Size(Narrowed(kind, SubSeq(t, 1, k))) <= n}
  <1>1. Fitting(kind, t, n) = Cut(t, K)
    BY Zenon DEF Fitting, LongestPrefix, Cut
  <1>2. ASSUME NEW k \in 0..Len(t)
        PROVE  \A c \in Range(SubSeq(t, 1, k)) : c \in Char
    <2>1. Range(SubSeq(t, 1, k)) = {t[i] : i \in 1..k}
      BY Beginning
    <2>2. \A i \in 1..k : t[i] \in Char
      OBVIOUS
    <2> QED
      BY <2>1, <2>2, Zenon
  <1>3. K = FitLengths(kind, t, n, Char)
    BY <1>2, Zenon DEF FitLengths, Fits
  <1> QED
    BY <1>1, <1>3, Zenon DEF Kept

\* The wide characters w of a buffer are the beginning of t, narrowed, as far as
\* its characters are coded and in C, and no others before.
Shows(kind, w, t, C) ==
  /\ \A k \in 0..Len(w) :
       (\A i \in 1..k : w[i] \in Char) =>
         /\ k <= Len(t)
         /\ \A i \in 1..k : /\ w[i] = Narrow(kind, t[i])
                            /\ Coded(kind, t[i]) /\ t[i] \in C
  /\ \A k \in 0..Len(w) :
       k <= Len(t) /\ (\A i \in 1..k : Coded(kind, t[i]) /\ t[i] \in C) =>
         \A i \in 1..k : w[i] = Narrow(kind, t[i])

\* The characters of C whose narrowed ones are in D.
Readable(kind, C, D) == {c \in C : Narrow(kind, c) \in D}

\* Then as much of t is read as is kept with the characters of C that read as
\* ones the locale converts.
LEMMA ShownIsRead ==
  ASSUME NEW kind, NEW w \in Seq(WideChar), NEW t \in Seq(Char), NEW C,
         NEW D, D \subseteq Char, Shows(kind, w, t, C)
  PROVE  Cut(w, ReadLengths(w, D))
           = Narrowed(kind, Kept(kind, t, Len(w), Readable(kind, C, D)))
  <1> DEFINE R == ReadLengths(w, D)
             E == Readable(kind, C, D)
             K == FitLengths(kind, t, Len(w), E)
             n == Len(w)
  <1>0. n \in Nat /\ Len(t) \in Nat
    OBVIOUS
  <1>1. ASSUME NEW k \in R
        PROVE  k \in K
    <2>1. /\ k \in 0..n /\ Range(SubSeq(w, 1, k)) \subseteq D
          /\ Utf8Size(SubSeq(w, 1, k)) <= n
      BY Zenon DEF ReadLengths
    <2>2. \A i \in 1..k : w[i] \in D
      <3>1. Range(SubSeq(w, 1, k)) = {w[i] : i \in 1..k}
        BY <2>1, Beginning
      <3> QED
        BY <2>1, <3>1, Zenon
    <2>3. /\ k <= Len(t)
          /\ \A i \in 1..k : /\ w[i] = Narrow(kind, t[i])
                             /\ Coded(kind, t[i]) /\ t[i] \in C
      BY <2>1, <2>2, Zenon DEF Shows
    <2>4. k \in Nat /\ k <= n /\ k \in 0..Len(t)
      BY <1>0, <2>1, <2>3
    <2>5. SubSeq(w, 1, k) = Narrowed(kind, SubSeq(t, 1, k))
      BY <2>3, <2>4, NarrowedBeginning, Zenon
    <2>6. Range(SubSeq(t, 1, k)) = {t[i] : i \in 1..k} /\ Len(SubSeq(t, 1, k)) = k
      BY <2>4, Beginning
    <2>7. \A i \in 1..k : Coded(kind, t[i]) /\ t[i] \in E
      BY <2>2, <2>3, Zenon DEF Readable
    <2>8. \A c \in Range(SubSeq(t, 1, k)) : Coded(kind, c) /\ c \in E
      BY <2>6, <2>7, Zenon
    <2>9. Fits(kind, SubSeq(t, 1, k), n, E)
      BY <2>1, <2>4, <2>5, <2>6, <2>8, Zenon DEF Fits
    <2> QED
      BY <2>4, <2>9, Zenon DEF FitLengths
  <1>2. ASSUME NEW k \in K
        PROVE  k \in R /\ SubSeq(w, 1, k) = Narrowed(kind, SubSeq(t, 1, k))
    <2>1. k \in 0..Len(t) /\ Fits(kind, SubSeq(t, 1, k), n, E)
      BY Zenon DEF FitLengths
    <2>2. Range(SubSeq(t, 1, k)) = {t[i] : i \in 1..k} /\ Len(SubSeq(t, 1, k)) = k
      BY <2>1, Beginning
    <2>3. /\ k <= n /\ Utf8Size(Narrowed(kind, SubSeq(t, 1, k))) <= n
          /\ \A c \in Range(SubSeq(t, 1, k)) : Coded(kind, c) /\ c \in E
      BY <2>1, <2>2, Zenon DEF Fits
    <2>4. \A i \in 1..k : /\ Coded(kind, t[i]) /\ t[i] \in C
                          /\ Narrow(kind, t[i]) \in D
      BY <2>2, <2>3, Zenon DEF Readable
    <2>5. k \in 0..n /\ k \in Nat /\ k <= Len(t)
      BY <1>0, <2>1, <2>3
    <2>6. \A i \in 1..k : w[i] = Narrow(kind, t[i])
      BY <2>4, <2>5, Zenon DEF Shows
    <2>7. SubSeq(w, 1, k) = Narrowed(kind, SubSeq(t, 1, k))
      BY <2>3, <2>5, <2>6, NarrowedBeginning, Zenon
    <2>8. Range(SubSeq(w, 1, k)) \subseteq D
      <3>1. Range(SubSeq(w, 1, k)) = {w[i] : i \in 1..k}
        BY <2>5, Beginning
      <3> QED
        BY <2>4, <2>6, <3>1, Zenon
    <2> QED
      BY <2>3, <2>5, <2>7, <2>8, Zenon DEF ReadLengths
  <1> HIDE DEF R, K, E
  <1>3. R = K
    BY <1>1, <1>2, Zenon
  <1>4. Max(K) \in K
    <2>1. Lengths(t, K)
      BY <1>0, FitLengthsFacts DEF K
    <2> QED
      BY <2>1, CutFacts, Zenon
  <1>5. SubSeq(w, 1, Max(K)) = Narrowed(kind, SubSeq(t, 1, Max(K)))
    BY <1>2, <1>4, Zenon
  <1> QED
    BY <1>3, <1>5, Zenon DEF Cut, Kept, R, K, E

\* The characters.
LEMMA CharFacts ==
  /\ "NUL" \notin Char
  /\ WideChar = Char \cup {"NUL"}
  /\ \A u : Converted(u) \subseteq Char
  /\ Converted(TRUE) = Char
  /\ \A u : Ascii \subseteq Converted(u)
  /\ \A c \in Char : 1 <= Utf8Length[c]
  <1>1. "NUL" \notin Char
    BY DEF Char
  <1>2. Ascii \subseteq Char
    BY Zenon DEF Ascii
  <1>3. \A c \in Char : 1 <= Utf8Length[c]
    BY DEF Utf8Length
  <1> QED
    BY <1>1, <1>2, <1>3, Zenon DEF WideChar, Converted

\* What the cast to 16 bits leaves of a character is a character or NUL, which
\* it leaves alone, as it does those of ASCII and those of the tables.
LEMMA NarrowFacts ==
  ASSUME NEW kind \in TextFormat
  PROVE  /\ Narrow(kind, "NUL") = "NUL"
         /\ \A c \in Char : /\ Narrow(kind, c) \in WideChar
                            /\ Narrow(kind, Narrow(kind, c)) = Narrow(kind, c)
         /\ \A c \in Ascii : Narrow(kind, c) = c
         /\ \A i \in Entries(kind) : Narrow(kind, Letter(kind, i)) = Letter(kind, i)
  <1>1. Narrow(kind, "NUL") = "NUL"
    BY DEF Narrow
  <1>2. \A c \in Char : /\ Narrow(kind, c) \in WideChar
                        /\ Narrow(kind, Narrow(kind, c)) = Narrow(kind, c)
    BY DEF Narrow, WideChar, Char
  <1>3. \A c \in Ascii : Narrow(kind, c) = c
    <2>1. "U+10000" \notin Ascii /\ "U+10041" \notin Ascii
      <3>1. Utf8Length["U+10000"] = 4 /\ Utf8Length["U+10041"] = 4
        BY DEF Utf8Length, Char
      <3> QED
        BY <3>1 DEF Ascii
    <2> QED
      BY <2>1, Zenon DEF Narrow
  <1>4. CASE kind = "xds"
    <2>1. Formats["xds"].map = XDS.map
      BY DEF Formats
    <2>2. Entries("xds") = 1..8
      BY <2>1 DEF Entries, XDS
    <2>3. \A i \in 1..8 : Letter("xds", i) \notin {"U+10000", "U+10041"}
      BY <2>1 DEF Letter, XDS
    <2>4. \A i \in Entries("xds") : Narrow("xds", Letter("xds", i)) = Letter("xds", i)
      BY <2>2, <2>3, Zenon DEF Narrow
    <2> QED
      BY <1>1, <1>2, <1>3, <1>4, <2>4, Zenon
  <1>5. CASE kind # "xds"
    <2>1. \A c : Narrow(kind, c) = c
      BY <1>5, Zenon DEF Narrow
    <2> QED
      BY <1>1, <1>2, <1>3, <2>1, Zenon
  <1> QED
    BY <1>4, <1>5

\* A failed search, -1, is no code.
LEMMA CodeRangeFacts ==
  ASSUME NEW kind
  PROVE  CodeRange(kind) \subseteq Nat /\ -1 \notin CodeRange(kind)
  <1>1. LastUnit(kind) \in Nat
    BY DEF LastUnit
  <1>2. \A n \in Nat : 0..n \subseteq Nat /\ -1 \notin 0..n
    OBVIOUS
  <1> QED
    BY <1>1, <1>2, Zenon DEF CodeRange

\* The wide characters of a buffer of n codes.
WideOf(kind, p, n, w) ==
  /\ w \in Seq(WideChar) /\ Len(w) = n
  /\ \A i \in 1..n : w[i] = IF \E j \in 1..i : p[j] \in Ends(kind)
                            THEN "NUL" ELSE Decoded(kind, p[i])

\* An import gives those.
LEMMA Imported ==
  ASSUME NEW kind \in TextFormat, NEW X, NEW n \in Nat, NEW p \in [1..n -> X]
  PROVE  WideOf(kind, p, n, ImportWidetext(kind, p))
  <1> DEFINE w == [i \in 1..n |-> IF \E j \in 1..i : p[j] \in Ends(kind)
                                  THEN "NUL" ELSE Decoded(kind, p[i])]
  <1>1. ImportWidetext(kind, p) = w
    BY CodeBuffer, Zenon DEF ImportWidetext, Ends
  <1>2. \A i \in 1..n : w[i] \in WideChar
    BY CharFacts, DecodedFacts, Zenon
  <1>3. w \in [1..n -> WideChar]
    BY <1>2, Zenon
  <1>4. w \in Seq(WideChar) /\ Len(w) = n
    BY <1>3, CodeBuffer, Zenon
  <1> QED
    BY <1>1, <1>4, Zenon DEF WideOf

\* What is read is a text.
LEMMA TextImported ==
  ASSUME NEW kind \in TextFormat, NEW X, NEW n \in Nat, NEW p \in [1..n -> X], NEW u
  PROVE  ImportText(kind, p, u) \in Seq(Char)
  <1> DEFINE w == ImportWidetext(kind, p)
             K == ReadLengths(w, Converted(u))
  <1>1. w \in Seq(WideChar) /\ Len(w) = n
    BY Imported, Zenon DEF WideOf
  <1>2. ImportText(kind, p, u) = Cut(w, K)
    BY ImportCuts, Zenon
  <1> HIDE DEF w
  <1>3. Lengths(w, K)
    <2>1. SubSeq(w, 1, 0) = <<>> /\ Range(<<>>) = {}
      BY DEF Range
    <2>2. 0 \in 0..Len(w) /\ 0 <= Len(w)
      BY <1>1
    <2> QED
      BY <2>1, <2>2, Utf8Facts, Zenon DEF ReadLengths, Lengths
  <1>4. /\ Max(K) \in K /\ Max(K) \in 0..Len(w)
        /\ Cut(w, K) \in Seq(WideChar) /\ Len(Cut(w, K)) = Max(K)
        /\ Cut(w, K) = SubSeq(w, 1, Max(K))
    BY <1>1, <1>3, CutFacts, Zenon DEF Cut
  <1>5. Range(Cut(w, K)) \subseteq Char
    BY <1>4, CharFacts, Zenon DEF ReadLengths
  <1>6. \A s : s \in Seq(WideChar) /\ Range(s) \subseteq Char => s \in Seq(Char)
    BY DEF Range
  <1> QED
    BY <1>2, <1>4, <1>5, <1>6, Zenon

\* pksav_mbstowcs: the text as far as the locale converts it, and NULs.
LEMMA Widened ==
  ASSUME NEW t \in Seq(Char), NEW n \in Nat, NEW u
  PROVE  \E m \in 0..Len(t) :
           /\ \A i \in 1..n :
                Mbstowcs(t, n, u)[i] = IF i <= m THEN t[i] ELSE "NUL"
           /\ \A i \in 1..m : t[i] \in Converted(u)
           /\ \A k \in 0..Len(t) :
                k <= n /\ (\A i \in 1..k : t[i] \in Converted(u)) => k <= m
  <1> DEFINE K == {k \in 0..Len(t) : /\ Len(SubSeq(t, 1, k)) <= n
                                     /\ Range(SubSeq(t, 1, k)) \subseteq Converted(u)}
             m == Max(K)
  <1>1. Mbstowcs(t, n, u) = [i \in 1..n |-> IF i <= Len(Cut(t, K)) THEN Cut(t, K)[i]
                                            ELSE "NUL"]
    BY Zenon DEF Mbstowcs, LongestPrefix, Cut
  <1>2. Lengths(t, K)
    <2>1. SubSeq(t, 1, 0) = <<>> /\ Range(<<>>) = {} /\ Len(<<>>) <= n
      BY DEF Range
    <2>2. 0 \in 0..Len(t)
      OBVIOUS
    <2> QED
      BY <2>1, <2>2, Zenon DEF Lengths
  <1>3. /\ m \in K /\ m \in 0..Len(t)
        /\ \A k \in K : k <= m
        /\ Len(Cut(t, K)) = m
        /\ \A i \in 1..m : Cut(t, K)[i] = t[i]
    BY <1>2, CutFacts, Zenon
  <1>4. \A i \in 1..m : t[i] \in Converted(u)
    <2>1. Range(SubSeq(t, 1, m)) = {t[i] : i \in 1..m}
      BY <1>3, Beginning, Zenon
    <2> QED
      BY <1>3, <2>1, Zenon
  <1>5. \A k \in 0..Len(t) :
          k <= n /\ (\A i \in 1..k : t[i] \in Converted(u)) => k <= m
    <2> SUFFICES ASSUME NEW k \in 0..Len(t), k <= n, \A i \in 1..k : t[i] \in Converted(u)
                 PROVE  k \in K
      BY <1>3, Zenon
    <2>1. Len(SubSeq(t, 1, k)) = k /\ Range(SubSeq(t, 1, k)) = {t[i] : i \in 1..k}
      BY Beginning, Zenon
    <2> QED
      BY <2>1, Zenon
  <1> HIDE DEF K, m
  <1>6. \A i \in 1..n : Mbstowcs(t, n, u)[i] = IF i <= m THEN t[i] ELSE "NUL"
    <2> SUFFICES ASSUME NEW i \in 1..n
                 PROVE  Mbstowcs(t, n, u)[i] = IF i <= m THEN t[i] ELSE "NUL"
      OBVIOUS
    <2>1. Mbstowcs(t, n, u)[i] = IF i <= m THEN Cut(t, K)[i] ELSE "NUL"
      BY <1>1, <1>3, Zenon
    <2>2. i <= m => i \in 1..m
      BY <1>3
    <2> QED
      BY <1>3, <2>1, <2>2, Zenon
  <1> QED
    BY <1>3, <1>4, <1>5, <1>6, Zenon

\* A buffer of n codes exported from wide characters: codes as far as there
\* are, then the filling.
CodesOf(kind, wide, n, b) ==
  /\ b \in [1..n -> CodeRange(kind)]
  /\ \A i \in 1..n :
       \/ CodeOf(kind, wide[i]) # -1 /\ b[i] = CodeOf(kind, wide[i])
       \/ b[i] = Fill(kind)
  /\ \A i \in 1..n :
       (\A j \in 1..i : CodeOf(kind, wide[j]) # -1 /\ wide[j] # "NUL") =>
         b[i] = CodeOf(kind, wide[i])

\* An export gives those.
LEMMA Exported ==
  ASSUME NEW kind \in TextFormat, NEW t, NEW X, NEW n \in Nat,
         NEW old \in [1..n -> X], NEW u
  PROVE  CodesOf(kind, Mbstowcs(t, n, u), n, ExportText(kind, t, old, u))
  <1> DEFINE wide == Mbstowcs(t, n, u)
             codes(c) == CodeOf(kind, c) # -1 /\ ~(kind = "xds" /\ c = "NUL")
             b == [i \in 1..n |-> IF \A j \in 1..i : codes(wide[j])
                                  THEN CodeOf(kind, wide[i]) ELSE Fill(kind)]
  <1>1. ExportText(kind, t, old, u) = b
    BY CodeBuffer, Zenon DEF ExportText, ExportWidetext, Fill
  <1>2. GoodTable(kind)
    BY GoodTables
  <1>3. \A c : CodeOf(kind, c) # -1 => CodeOf(kind, c) \in CodeRange(kind)
    <2>1. \A c : MapIndex(kind, c) # -1 => MapIndex(kind, c) \in CodeRange(kind)
      BY <1>2, IndexFacts, Zenon DEF GoodTable
    <2> QED
      BY <2>1, Zenon DEF CodeOf
  <1>4. Fill(kind) \in CodeRange(kind)
    BY <1>2, Zenon DEF GoodTable
  <1> HIDE DEF wide
  <1>5. \A i \in 1..n : i \in 1..i
    OBVIOUS
  <1>6. \A i \in 1..n : \/ CodeOf(kind, wide[i]) # -1 /\ b[i] = CodeOf(kind, wide[i])
                        \/ b[i] = Fill(kind)
    BY <1>5, Zenon
  <1>7. \A i \in 1..n : b[i] \in CodeRange(kind)
    BY <1>3, <1>4, <1>6, Zenon
  <1>8. b \in [1..n -> CodeRange(kind)]
    BY <1>7, Zenon
  <1>9. \A i \in 1..n :
          (\A j \in 1..i : CodeOf(kind, wide[j]) # -1 /\ wide[j] # "NUL") =>
            b[i] = CodeOf(kind, wide[i])
    BY Zenon
  <1> QED
    BY <1>1, <1>6, <1>8, <1>9, Zenon DEF CodesOf, wide

\* A text written shows as far as the locale converted it.
LEMMA WrittenShows ==
  ASSUME NEW kind \in TextFormat, NEW t \in Seq(Char), NEW X, NEW n \in Nat,
         NEW old \in [1..n -> X], NEW u
  PROVE  Shows(kind, ImportWidetext(kind, ExportText(kind, t, old, u)), t, Converted(u))
  <1> DEFINE wide == Mbstowcs(t, n, u)
             b == ExportText(kind, t, old, u)
             w == ImportWidetext(kind, b)
  <1>1. PICK m \in 0..Len(t) :
          /\ \A i \in 1..n : wide[i] = IF i <= m THEN t[i] ELSE "NUL"
          /\ \A i \in 1..m : t[i] \in Converted(u)
          /\ \A k \in 0..Len(t) :
               k <= n /\ (\A i \in 1..k : t[i] \in Converted(u)) => k <= m
    BY Widened
  <1>2. CodesOf(kind, wide, n, b)
    BY Exported, Zenon
  <1> HIDE DEF wide, b
  <1>3. WideOf(kind, b, n, w)
    BY <1>2, Imported, Zenon DEF CodesOf
  <1> HIDE DEF w
  <1>4. Fill(kind) \in Ends(kind)
    BY GoodTables, Zenon DEF GoodTable
  <1>5. ASSUME NEW c, CodeOf(kind, c) # -1
        PROVE  Decoded(kind, CodeOf(kind, c)) = Narrow(kind, c)
    <2>1. PICK e \in Entries(kind) : /\ Letter(kind, e) = Narrow(kind, c)
                                     /\ CodeOf(kind, c) = Code(kind, e)
      BY <1>5, IndexFacts, Zenon DEF CodeOf
    <2>2. Decoded(kind, Code(kind, e)) = Letter(kind, e)
      BY DecodedFacts, Zenon
    <2> QED
      BY <2>1, <2>2, Zenon
  <1>6. ASSUME NEW i \in 1..n, w[i] \in Char
        PROVE  /\ i <= m /\ w[i] = Narrow(kind, t[i])
               /\ Coded(kind, t[i]) /\ t[i] \in Converted(u)
    <2>1. w[i] # "NUL" /\ i \in 1..i
      BY <1>6, CharFacts
    <2>2. b[i] \notin Ends(kind) /\ w[i] = Decoded(kind, b[i])
      BY <1>3, <2>1, Zenon DEF WideOf
    <2>3. CodeOf(kind, wide[i]) # -1 /\ b[i] = CodeOf(kind, wide[i])
      BY <1>2, <1>4, <2>2, Zenon DEF CodesOf
    <2>4. w[i] = Narrow(kind, wide[i])
      BY <1>5, <2>2, <2>3, Zenon
    <2>5. i <= m /\ wide[i] = t[i]
      BY <1>1, <2>1, <2>4, NarrowFacts, Zenon
    <2>6. i \in 1..m
      BY <2>5
    <2>7. Coded(kind, t[i])
      BY <2>1, <2>2, <2>3, <2>4, <2>5, Zenon DEF Coded, Ends
    <2> QED
      BY <1>1, <2>4, <2>5, <2>6, <2>7, Zenon
  <1>7. ASSUME NEW k \in 0..n, \A i \in 1..k : w[i] \in Char
        PROVE  /\ k <= Len(t)
               /\ \A i \in 1..k : /\ w[i] = Narrow(kind, t[i])
                                  /\ Coded(kind, t[i]) /\ t[i] \in Converted(u)
    <2>1. \A i \in 1..k : i \in 1..n
      OBVIOUS
    <2>2. \A i \in 1..k : /\ i <= m /\ w[i] = Narrow(kind, t[i])
                          /\ Coded(kind, t[i]) /\ t[i] \in Converted(u)
      BY <1>6, <1>7, <2>1, Zenon
    <2>3. k <= Len(t)
      <3>1. k = 0 \/ k \in 1..k
        OBVIOUS
      <3> QED
        BY <1>1, <2>2, <3>1
    <2> QED
      BY <2>2, <2>3, Zenon
  <1>8. ASSUME NEW k \in 0..n, k <= Len(t),
               \A i \in 1..k : Coded(kind, t[i]) /\ t[i] \in Converted(u)
        PROVE  \A i \in 1..k : w[i] = Narrow(kind, t[i])
    <2>1. k \in 0..Len(t) /\ k <= n
      BY <1>8
    <2>2. k <= m
      BY <1>1, <1>8, <2>1, Zenon
    <2>3. \A i \in 1..k : i \in 1..n /\ i <= m
      BY <1>1, <2>2
    <2>4. \A i \in 1..k : wide[i] = t[i]
      BY <1>1, <2>3, Zenon
    <2>5. \A i \in 1..k : CodeOf(kind, wide[i]) # -1 /\ wide[i] # "NUL"
      BY <1>8, <2>4, CharFacts, Zenon DEF Coded
    <2>6. \A i \in 1..k : \A j \in 1..i : j \in 1..k
      OBVIOUS
    <2>7. \A i \in 1..k : b[i] = CodeOf(kind, t[i])
      BY <1>2, <2>3, <2>4, <2>5, <2>6, Zenon DEF CodesOf
    <2>8. \A i \in 1..k : b[i] \notin Ends(kind)
      BY <1>8, <2>7, Zenon DEF Coded, Ends
    <2>9. \A i \in 1..k : w[i] = Decoded(kind, b[i])
      BY <1>3, <2>3, <2>6, <2>8, Zenon DEF WideOf
    <2> QED
      BY <1>5, <2>4, <2>5, <2>7, <2>9, Zenon
  <1>9. Shows(kind, w, t, Converted(u))
    BY <1>3, <1>7, <1>8, Zenon DEF Shows, WideOf
  <1> QED
    BY <1>9 DEF w, b

\* The name of a buffer as the game shows it.
FirstEnd(kind, p) ==
  {i \in 1..Len(p) : p[i] \in Ends(kind) \/ Decoded(kind, p[i]) = "NUL"}

\* And so does what a game left.
LEMMA GameShows ==
  ASSUME NEW kind \in TextFormat, NEW n \in Nat, NEW p \in [1..n -> Codes(kind)]
  PROVE  \E t \in Seq(Char) : /\ GameName(kind, p) = Fitting(kind, t, n)
                              /\ Shows(kind, ImportWidetext(kind, p), t, Char)
  <1> DEFINE L == FirstEnd(kind, p)
             last == IF L # {} THEN Min(L) ELSE 0
             chars == [i \in 1..n |-> Decoded(kind, p[i])]
             r == IF last = 0 THEN n ELSE last - 1
             t == IF last = 0 THEN chars ELSE SubSeq(chars, 1, last - 1)
             w == ImportWidetext(kind, p)
  <1>1. p \in Seq(Codes(kind)) /\ Len(p) = n
    BY CodeBuffer, Zenon
  <1>2. GameName(kind, p) = Fitting(kind, t, n)
    BY <1>1, Zenon DEF GameName, SelectInSeq, FirstEnd, Ends
  <1>3. /\ L \in SUBSET Nat
        /\ \A i \in 1..n : i \in L <=> p[i] \in Ends(kind) \/ Decoded(kind, p[i]) = "NUL"
        /\ \A i \in L : i \in 1..n
    BY <1>1 DEF FirstEnd
  <1>4. L # {} => Min(L) \in L /\ \A i \in L : Min(L) <= i
    BY <1>3, MinFacts, Zenon
  <1>5. chars \in [1..n -> WideChar]
    BY DecodedFacts, Zenon
  <1>6. chars \in Seq(WideChar) /\ Len(chars) = n
    BY <1>5, CodeBuffer, Zenon
  <1> HIDE DEF L
  <1>7. /\ r \in 0..n
        /\ \A i \in 1..r : i \notin L
        /\ r < n => r + 1 \in L
    <2>1. CASE L = {}
      BY <2>1
    <2>2. CASE L # {}
      <3>1. last \in 1..n /\ last \in L /\ \A i \in L : last <= i
        BY <1>3, <1>4, <2>2, Zenon
      <3> HIDE DEF last
      <3>2. r = last - 1
        BY <3>1
      <3> QED
        BY <3>1, <3>2
    <2> QED
      BY <2>1, <2>2
  <1>8. /\ t \in Seq(WideChar) /\ Len(t) = r
        /\ \A i \in 1..r : t[i] = chars[i]
    <2>1. CASE last = 0
      BY <1>6, <2>1
    <2>2. CASE last # 0
      <3>1. t = SubSeq(chars, 1, r) /\ r \in 0..Len(chars)
        BY <1>6, <1>7, <2>2
      <3> HIDE DEF chars, r, t
      <3> QED
        BY <1>6, <3>1, Beginning
    <2> QED
      BY <2>1, <2>2
  <1>9. \A i \in 1..r : i \in 1..n
    BY <1>7
  <1>10. \A i \in 1..r : /\ t[i] = Decoded(kind, p[i])
                         /\ t[i] # "NUL" /\ p[i] \notin Ends(kind)
    BY <1>3, <1>7, <1>8, <1>9, Zenon
  <1>11. t \in Seq(Char)
    <2>1. \A i \in 1..Len(t) : t[i] \in Char
      BY <1>8, <1>9, <1>10, CharFacts, DecodedFacts, Zenon
    <2> HIDE DEF t
    <2> QED
      BY <1>8, <2>1
  <1>12. WideOf(kind, p, n, w)
    BY Imported, Zenon
  <1> HIDE DEF w, t, r, last, chars
  <1>13. GoodTable(kind)
    BY GoodTables
  <1>14. \A i \in 1..r : Coded(kind, t[i]) /\ Narrow(kind, t[i]) = t[i]
    <2> SUFFICES ASSUME NEW i \in 1..r
                 PROVE  Coded(kind, t[i]) /\ Narrow(kind, t[i]) = t[i]
      OBVIOUS
    <2>1. PICK e \in Entries(kind) : p[i] = Code(kind, e) /\ t[i] = Letter(kind, e)
      BY <1>10, DecodedFacts, Zenon
    <2>2. PICK f \in Entries(kind) : /\ Letter(kind, f) = t[i]
                                     /\ MapIndex(kind, t[i]) = Code(kind, f)
      BY <2>1, IndexFacts, Zenon
    <2>3. Code(kind, f) \notin Ends(kind)
      <3>1. /\ Letter(kind, e) = Letter(kind, f) /\ Letter(kind, e) # "NUL"
            /\ Code(kind, e) \notin Ends(kind)
        BY <1>10, <2>1, <2>2, Zenon
      <3> QED
        BY <1>13, <3>1, Zenon DEF GoodTable
    <2>4. Code(kind, f) # -1
      BY <1>13, CodeRangeFacts, Zenon DEF GoodTable
    <2>5. Narrow(kind, t[i]) = t[i]
      BY <2>1, NarrowFacts, Zenon
    <2> QED
      BY <1>10, <2>2, <2>3, <2>4, <2>5, Zenon DEF Coded, CodeOf, Ends
  <1>15. ASSUME NEW i \in 1..n, w[i] \in Char
         PROVE  i \notin L /\ w[i] = Decoded(kind, p[i])
    <2>1. w[i] # "NUL" /\ i \in 1..i
      BY <1>15, CharFacts
    <2> QED
      BY <1>3, <1>12, <2>1, Zenon DEF WideOf
  <1>16. ASSUME NEW k \in 0..n, \A i \in 1..k : w[i] \in Char
         PROVE  /\ k <= Len(t)
                /\ \A i \in 1..k : /\ w[i] = Narrow(kind, t[i])
                                   /\ Coded(kind, t[i]) /\ t[i] \in Char
    <2>1. \A i \in 1..k : i \in 1..n
      OBVIOUS
    <2>2. \A i \in 1..k : i \notin L /\ w[i] = Decoded(kind, p[i])
      BY <1>15, <1>16, <2>1, Zenon
    <2>3. k <= r
      <3> SUFFICES ASSUME ~(k <= r) PROVE FALSE
        OBVIOUS
      <3>1. r < n /\ r + 1 \in 1..k
        BY <1>7
      <3> QED
        BY <1>7, <2>2, <3>1, Zenon
    <2>4. \A i \in 1..k : i \in 1..r
      BY <1>7, <2>3
    <2> QED
      BY <1>8, <1>10, <1>14, <1>16, <2>2, <2>3, <2>4, Zenon
  <1>17. ASSUME NEW k \in 0..n, k <= Len(t)
         PROVE  \A i \in 1..k : w[i] = Narrow(kind, t[i])
    <2>1. \A i \in 1..k : i \in 1..r /\ i \in 1..n /\ \A j \in 1..i : j \in 1..r
      BY <1>7, <1>8, <1>17
    <2> QED
      BY <1>10, <1>12, <1>14, <2>1, Zenon DEF WideOf
  <1>18. Shows(kind, w, t, Char)
    BY <1>12, <1>16, <1>17, Zenon DEF Shows, WideOf
  <1> QED
    BY <1>2, <1>11, <1>18, Zenon DEF w

\* What fits of a shown text is read: with any locale if it is in ASCII, and in
\* UTF-8 if all characters are shown.
LEMMA ShownName ==
  ASSUME NEW kind \in TextFormat, NEW X, NEW n \in Nat, NEW p \in [1..n -> X],
         NEW t \in Seq(Char), NEW C, Ascii \subseteq C, C \subseteq Char,
         Shows(kind, ImportWidetext(kind, p), t, C)
  PROVE  /\ C = Char =>
              ImportText(kind, p, TRUE) = Narrowed(kind, Kept(kind, t, n, Char))
         /\ Range(Kept(kind, t, n, Char)) \subseteq Ascii =>
              \A u : ImportText(kind, p, u) = Narrowed(kind, Kept(kind, t, n, Char))
  <1>1. /\ ImportWidetext(kind, p) \in Seq(WideChar)
        /\ Len(ImportWidetext(kind, p)) = n
    BY Imported, Zenon DEF WideOf
  <1>2. ASSUME NEW u
        PROVE  ImportText(kind, p, u)
                 = Narrowed(kind, Kept(kind, t, n, Readable(kind, C, Converted(u))))
    <2> DEFINE w == ImportWidetext(kind, p)
               D == Converted(u)
    <2>1. ImportText(kind, p, u) = Cut(w, ReadLengths(w, D))
      BY ImportCuts, Zenon
    <2>2. w \in Seq(WideChar) /\ Len(w) = n /\ D \subseteq Char /\ Shows(kind, w, t, C)
      BY <1>1, CharFacts, Zenon
    <2> HIDE DEF w, D
    <2>3. Cut(w, ReadLengths(w, D))
            = Narrowed(kind, Kept(kind, t, Len(w), Readable(kind, C, D)))
      BY <2>2, ShownIsRead
    <2> QED
      BY <2>1, <2>2, <2>3 DEF D
  <1>3. ASSUME NEW u, Range(Kept(kind, t, n, Char)) \subseteq Readable(kind, C, Converted(u))
        PROVE  ImportText(kind, p, u) = Narrowed(kind, Kept(kind, t, n, Char))
    <2> DEFINE D == Readable(kind, C, Converted(u))
    <2>1. D \subseteq Char /\ Range(Kept(kind, t, n, Char)) \subseteq D
      BY <1>3, Zenon DEF Readable
    <2> HIDE DEF D
    <2>2. Kept(kind, t, n, D) = Kept(kind, t, n, Char)
      BY <2>1, KeptLess
    <2> QED
      BY <1>2, <2>2, Zenon DEF D
  <1>4. C = Char => Range(Kept(kind, t, n, Char)) \subseteq Readable(kind, C, Converted(TRUE))
    <2>1. \A c \in Range(Kept(kind, t, n, Char)) : Coded(kind, c) /\ c \in Char
      BY KeptFits, Zenon DEF Fits
    <2>2. \A c \in Char : Narrow(kind, c) # "NUL" => Narrow(kind, c) \in Char
      BY NarrowFacts, CharFacts, Zenon
    <2> QED
      BY <2>1, <2>2, CharFacts, Zenon DEF Readable, Coded
  <1>5. \A u : Ascii \subseteq Readable(kind, C, Converted(u))
    BY NarrowFacts, CharFacts, Zenon DEF Readable
  <1>6. ASSUME NEW u, Range(Kept(kind, t, n, Char)) \subseteq Ascii
        PROVE  Range(Kept(kind, t, n, Char)) \subseteq Readable(kind, C, Converted(u))
    BY <1>5, <1>6, Zenon
  <1> QED
    BY <1>3, <1>4, <1>6, Zenon

\* The narrowed characters of a text that fits fit as well, and are narrow.
LEMMA NarrowedFits ==
  ASSUME NEW kind \in TextFormat, NEW t \in Seq(Char), NEW n, Fits(kind, t, n, Char)
  PROVE  /\ Narrowed(kind, t) \in Seq(Char)
         /\ Narrowed(kind, Narrowed(kind, t)) = Narrowed(kind, t)
         /\ Fits(kind, Narrowed(kind, t), n, Char)
         /\ Range(t) \subseteq Ascii => Narrowed(kind, t) = t
  <1> DEFINE v == Narrowed(kind, t)
             x == Narrowed(kind, v)
  <1>1. /\ v \in Seq({Narrow(kind, c) : c \in Char}) /\ Len(v) = Len(t)
        /\ \A i \in 1..Len(t) : v[i] = Narrow(kind, t[i])
    BY NarrowedFacts, Zenon
  <1>2. /\ \A i \in 1..Len(t) : t[i] \in Char /\ t[i] \in Range(t)
        /\ Range(t) = {t[i] : i \in 1..Len(t)}
    BY DEF Range
  <1>3. \A i \in 1..Len(t) : Coded(kind, t[i])
    BY <1>2, Zenon DEF Fits
  <1>4. ASSUME NEW c \in Char, Coded(kind, c)
        PROVE  /\ Narrow(kind, c) \in Char /\ Coded(kind, Narrow(kind, c))
               /\ Narrow(kind, Narrow(kind, c)) = Narrow(kind, c)
    <2>1. Narrow(kind, c) \in WideChar /\ Narrow(kind, Narrow(kind, c)) = Narrow(kind, c)
      BY NarrowFacts, Zenon
    <2>2. Narrow(kind, c) # "NUL"
      BY <1>4, Zenon DEF Coded
    <2>3. CodeOf(kind, Narrow(kind, c)) = CodeOf(kind, c)
      BY <2>1, Zenon DEF CodeOf
    <2>4. Coded(kind, Narrow(kind, c))
      BY <1>4, <2>1, <2>2, <2>3, Zenon DEF Coded
    <2> QED
      BY <2>1, <2>2, <2>4, CharFacts, Zenon
  <1>5. \A i \in 1..Len(t) : v[i] \in Char /\ Coded(kind, v[i]) /\ Narrow(kind, v[i]) = v[i]
    BY <1>1, <1>2, <1>3, <1>4, Zenon
  <1> HIDE DEF v
  <1>6. v \in Seq(Char)
    BY <1>1, <1>5
  <1>7. /\ x \in Seq({Narrow(kind, c) : c \in Char}) /\ Len(x) = Len(v)
        /\ \A i \in 1..Len(v) : x[i] = Narrow(kind, v[i])
    BY <1>6, NarrowedFacts, Zenon
  <1>8. \A i \in 1..Len(v) : x[i] = v[i]
    BY <1>1, <1>5, <1>7, Zenon
  <1> HIDE DEF x
  <1>9. x = v
    BY <1>1, <1>7, <1>8
  <1>10. Fits(kind, v, n, Char)
    <2>1. Len(v) <= n /\ Utf8Size(x) <= n
      BY <1>1, <1>9, Zenon DEF Fits, v
    <2>2. Range(v) = {v[i] : i \in 1..Len(t)}
      BY <1>1 DEF Range
    <2>3. \A c \in Range(v) : Coded(kind, c) /\ c \in Char
      BY <1>5, <2>2, Zenon
    <2> QED
      BY <2>1, <2>3, Zenon DEF Fits, x
  <1>11. ASSUME Range(t) \subseteq Ascii
         PROVE  v = t
    <2>1. \A i \in 1..Len(t) : v[i] = t[i]
      BY <1>1, <1>2, <1>11, NarrowFacts, Zenon
    <2> QED
      BY <1>1, <2>1
  <1> QED
    BY <1>6, <1>9, <1>10, <1>11, Zenon DEF v, x

\* Each further character takes room.
LEMMA LongerIsLarger ==
  ASSUME NEW s \in Seq(Char), NEW t \in Seq(Char), Len(s) < Len(t),
         \A i \in 1..Len(s) : t[i] = s[i]
  PROVE  Utf8Size(s) < Utf8Size(t)
  <1> DEFINE last == <<Len(s) + 1, 1>>
  <1>1. \A i \in 1..Len(s) : i \in 1..Len(t)
    OBVIOUS
  <1>2. Len(s) + 1 \in 1..Len(t) /\ Len(s) + 1 \notin 1..Len(s) /\ 1 \in 1..4
    OBVIOUS
  <1>3. Utf8Bytes(s) \subseteq Utf8Bytes(t)
    <2> SUFFICES ASSUME NEW byte \in Utf8Bytes(s) PROVE byte \in Utf8Bytes(t)
      OBVIOUS
    <2>1. /\ byte \in (1..Len(s)) \X (1..4)
          /\ byte[2] <= Utf8Length[s[byte[1]]]
      BY Zenon DEF Utf8Bytes
    <2>2. byte[1] \in 1..Len(s) /\ byte \in (1..Len(t)) \X (1..4)
      BY <1>1, <2>1
    <2>3. t[byte[1]] = s[byte[1]]
      BY <2>2, Zenon
    <2> QED
      BY <2>1, <2>2, <2>3, Zenon DEF Utf8Bytes
  <1>4. last \in Utf8Bytes(t)
    <2>1. t[Len(s) + 1] \in Char
      BY <1>2
    <2>2. 1 <= Utf8Length[t[Len(s) + 1]]
      BY <2>1, CharFacts, Zenon
    <2>3. last \in (1..Len(t)) \X (1..4) /\ last[1] = Len(s) + 1 /\ last[2] = 1
      BY <1>2
    <2> QED
      BY <2>2, <2>3, Zenon DEF Utf8Bytes
  <1>5. last \notin Utf8Bytes(s)
    <2>1. \A byte \in Utf8Bytes(s) : byte[1] \in 1..Len(s)
      BY DEF Utf8Bytes
    <2>2. last[1] \notin 1..Len(s)
      BY <1>2
    <2> QED
      BY <2>1, <2>2, Zenon
  <1>6. IsFiniteSet(Utf8Bytes(t)) /\ Utf8Size(t) \in Nat /\ Utf8Size(s) \in Nat
    BY Utf8Facts, Zenon
  <1>7. Utf8Bytes(s) \in SUBSET Utf8Bytes(t) /\ Utf8Bytes(s) # Utf8Bytes(t)
    BY <1>3, <1>4, <1>5, Zenon
  <1>8. /\ Cardinality(Utf8Bytes(s)) <= Cardinality(Utf8Bytes(t))
        /\ Cardinality(Utf8Bytes(s)) = Cardinality(Utf8Bytes(t)) => Utf8Bytes(s) = Utf8Bytes(t)
    BY <1>6, <1>7, FS_Subset, Zenon
  <1>9. Utf8Size(s) <= Utf8Size(t) /\ Utf8Size(s) # Utf8Size(t)
    BY <1>7, <1>8, Zenon DEF Utf8Size
  <1> QED
    BY <1>6, <1>9

\* Nothing is kept behind a text that takes all the room.
LEMMA KeptBefore ==
  ASSUME NEW kind \in TextFormat, NEW s \in Seq(Char), NEW rest \in Seq(Char), NEW n \in Nat,
         Fits(kind, s, n, Char), n <= Utf8Size(Narrowed(kind, s))
  PROVE  Kept(kind, s \o rest, n, Char) = s
  <1> DEFINE t == s \o rest
             K == FitLengths(kind, t, n, Char)
  <1>1. /\ t \in Seq(Char) /\ Len(t) = Len(s) + Len(rest)
        /\ SubSeq(t, 1, Len(s)) = s
        /\ \A i \in 1..Len(s) : t[i] = s[i]
        /\ Len(s) \in Nat /\ Len(rest) \in Nat
    OBVIOUS
  <1> HIDE DEF t
  <1>2. Lengths(t, K)
    BY <1>1, FitLengthsFacts
  <1>3. Max(K) \in K /\ Max(K) \in 0..Len(t) /\ \A k \in K : k <= Max(K)
    BY <1>1, <1>2, CutFacts, Zenon
  <1>4. Len(s) \in K
    <2>1. Len(s) \in 0..Len(t)
      BY <1>1
    <2> QED
      BY <1>1, <2>1, Zenon DEF FitLengths
  <1>5. ASSUME NEW k \in K, Len(s) < k
        PROVE  FALSE
    <2> DEFINE b == SubSeq(t, 1, k)
               v == Narrowed(kind, b)
               w == Narrowed(kind, s)
    <2>1. k \in 0..Len(t) /\ Fits(kind, b, n, Char)
      BY Zenon DEF FitLengths
    <2>2. b \in Seq(Char) /\ Len(b) = k /\ \A i \in 1..k : b[i] = t[i]
      BY <1>1, <2>1, Beginning, Zenon
    <2> HIDE DEF b
    <2>3. /\ v \in Seq(Char) /\ Len(v) = k
          /\ \A i \in 1..k : v[i] = Narrow(kind, b[i])
      <3>1. v \in Seq(Char)
        BY <2>1, <2>2, NarrowedFits, Zenon
      <3>2. Len(v) = Len(b) /\ \A i \in 1..Len(b) : v[i] = Narrow(kind, b[i])
        BY <2>2, NarrowedFacts, Zenon
      <3> QED
        BY <2>2, <3>1, <3>2, Zenon
    <2>4. /\ w \in Seq(Char) /\ Len(w) = Len(s)
          /\ \A i \in 1..Len(s) : w[i] = Narrow(kind, s[i])
      <3>1. w \in Seq(Char)
        BY NarrowedFits, Zenon
      <3>2. Len(w) = Len(s) /\ \A i \in 1..Len(s) : w[i] = Narrow(kind, s[i])
        BY NarrowedFacts, Zenon
      <3> QED
        BY <3>1, <3>2, Zenon
    <2>5. \A i \in 1..Len(s) : i \in 1..k
      BY <1>1, <1>5, <2>1
    <2>6. \A i \in 1..Len(s) : v[i] = w[i]
      BY <1>1, <2>2, <2>3, <2>4, <2>5, Zenon
    <2>7. Utf8Size(v) <= n /\ n <= Utf8Size(w)
      BY <2>1, Zenon DEF Fits
    <2> HIDE DEF v, w
    <2>8. Utf8Size(w) < Utf8Size(v)
      BY <1>5, <2>3, <2>4, <2>6, LongerIsLarger
    <2>9. Utf8Size(w) \in Nat /\ Utf8Size(v) \in Nat
      BY <2>3, <2>4, Utf8Facts, Zenon
    <2> QED
      BY <2>7, <2>8, <2>9
  <1> HIDE DEF K
  <1>6. Max(K) = Len(s)
    BY <1>1, <1>3, <1>4, <1>5
  <1> QED
    BY <1>1, <1>6, Zenon DEF Kept, Cut, K, t

-----------------------------------------------------------------------------
(* Names of a save.                                                        *)

\* The names the client writes are of the characters.
LEMMA ClientTexts ==
  /\ Texts \subseteq Seq(Char)
  /\ \A size \in TextSizes : size \in Nat /\ size > 0
  /\ <<"none">> \notin Seq(Char)
  <1>1. Texts \subseteq Seq(Char) /\ \A size \in TextSizes : size \in Nat /\ size > 0
    BY ConversionsAssumption, SMT DEF ConversionsAssumption
  <1>2. "none" \notin Char
    BY DEF Char
  <1>3. <<"none">>[1] = "none" /\ Len(<<"none">>) = 1
    OBVIOUS
  <1>4. \A s \in Seq(Char) : \A i \in 1..Len(s) : s[i] \in Char
    OBVIOUS
  <1> QED
    BY <1>1, <1>2, <1>3, <1>4

\* What a buffer p of kind shows is the name nm, narrowed.
ReadsName(kind, p, nm) ==
  /\ Fits(kind, nm, Len(p), Char)
  /\ installed => ImportText(kind, p, TRUE) = Narrowed(kind, nm)
  /\ Range(nm) \subseteq Ascii => \A u : ImportText(kind, p, u) = Narrowed(kind, nm)

\* The names that any locale the process may have converts.
Convertible == installed \/ Range(name) \subseteq Ascii

\* A buffer of a name holds codes and reads as the name, with room for all of
\* it; and so does the client's copy.
NameInv ==
  /\ format \in NumberFormat \cup TextFormat
  /\ installed \in BOOLEAN
  /\ name \in Seq(Char)
  /\ text \in Seq(Char) \cup {<<"none">>}
  /\ format \in TextFormat =>
       /\ number \in Nat
       /\ \E size \in Nat : buffer \in [1..size -> CodeRange(format)]
       /\ Convertible => ReadsName(format, buffer, name)
       /\ Convertible /\ text # <<"none">> => text = Narrowed(format, name)

\* A name a game left shows whatever locale there is,
LEMMA NameInGame ==
  ASSUME NEW kind \in TextFormat, NEW n \in Nat, NEW p \in [1..n -> Codes(kind)]
  PROVE  /\ GameName(kind, p) \in Seq(Char)
         /\ ReadsName(kind, p, GameName(kind, p))
         /\ p \in [1..n -> CodeRange(kind)]
  <1>1. PICK t \in Seq(Char) : /\ GameName(kind, p) = Fitting(kind, t, n)
                               /\ Shows(kind, ImportWidetext(kind, p), t, Char)
    BY GameShows, Zenon
  <1>2. GameName(kind, p) = Kept(kind, t, n, Char)
    BY <1>1, FittingKeeps, Zenon
  <1>3. Kept(kind, t, n, Char) \in Seq(Char) /\ Fits(kind, Kept(kind, t, n, Char), n, Char)
    BY KeptFits, Zenon
  <1>4. Ascii \subseteq Char /\ Char \subseteq Char
    BY CharFacts, Zenon
  <1>5. /\ ImportText(kind, p, TRUE) = Narrowed(kind, Kept(kind, t, n, Char))
        /\ Range(Kept(kind, t, n, Char)) \subseteq Ascii =>
             \A u : ImportText(kind, p, u) = Narrowed(kind, Kept(kind, t, n, Char))
    BY <1>1, <1>4, ShownName, Zenon
  <1>6. Len(p) = n
    BY CodeBuffer, Zenon
  <1>7. Codes(kind) \subseteq CodeRange(kind)
    <2>1. \A entry \in {Formats[kind].map[i] : i \in DOMAIN Formats[kind].map} :
            entry[1] \in CodeRange(kind)
      BY GoodTables, Zenon DEF GoodTable, Code
    <2>2. Range(Formats[kind].map) = {Formats[kind].map[i] : i \in DOMAIN Formats[kind].map}
      BY Zenon DEF Range
    <2>3. {entry[1] : entry \in Range(Formats[kind].map)} \subseteq CodeRange(kind)
      BY <2>1, <2>2, Zenon
    <2>4. Formats[kind].ends \subseteq CodeRange(kind)
      BY GoodTables, Zenon DEF GoodTable, Ends
    <2> QED
      BY <2>1, <2>2, <2>3, <2>4, Zenon DEF Codes
  <1>8. p \in [1..n -> CodeRange(kind)]
    BY <1>7
  <1> QED
    BY <1>2, <1>3, <1>5, <1>6, <1>8, Zenon DEF ReadsName

\* and one the library writes, if the locale converts the text or the name is
\* in ASCII.
LEMMA NameWritten ==
  ASSUME NEW kind \in TextFormat, NEW t \in Seq(Char), NEW X, NEW n \in Nat,
         NEW old \in [1..n -> X], NEW u, installed => u = TRUE
  PROVE  /\ ExportText(kind, t, old, u) \in [1..n -> CodeRange(kind)]
         /\ Kept(kind, t, n, Char) \in Seq(Char)
         /\ ReadsName(kind, ExportText(kind, t, old, u), Kept(kind, t, n, Char))
  <1> DEFINE b == ExportText(kind, t, old, u)
  <1>1. b \in [1..n -> CodeRange(kind)]
    BY Exported, Zenon DEF CodesOf
  <1>2. Shows(kind, ImportWidetext(kind, b), t, Converted(u))
    BY WrittenShows, Zenon
  <1> HIDE DEF b
  <1>3. Len(b) = n
    BY <1>1, CodeBuffer, Zenon
  <1>4. Ascii \subseteq Converted(u) /\ Converted(u) \subseteq Char
    BY CharFacts, Zenon
  <1>5. /\ Converted(u) = Char =>
             ImportText(kind, b, TRUE) = Narrowed(kind, Kept(kind, t, n, Char))
        /\ Range(Kept(kind, t, n, Char)) \subseteq Ascii =>
             \A v : ImportText(kind, b, v) = Narrowed(kind, Kept(kind, t, n, Char))
    BY <1>1, <1>2, <1>4, ShownName, Zenon
  <1>6. installed => Converted(u) = Char
    BY CharFacts, Zenon
  <1>7. Kept(kind, t, n, Char) \in Seq(Char) /\ Fits(kind, Kept(kind, t, n, Char), n, Char)
    BY KeptFits, Zenon
  <1>8. ReadsName(kind, b, Kept(kind, t, n, Char))
    BY <1>3, <1>5, <1>6, <1>7, Zenon DEF ReadsName
  <1> QED
    BY <1>1, <1>7, <1>8, Zenon DEF b

\* So NameInv holds of what a game leaves,
LEMMA NameInit == Init => NameInv
  <1> SUFFICES ASSUME Init PROVE NameInv
    OBVIOUS
  <1>1. text = <<"none">>
    BY DEF Init
  <1>2. CASE format \in NumberFormat
    <2>1. name = <<>> /\ installed = TRUE
      BY <1>2, FormatNames, Zenon DEF Init
    <2>2. <<>> \in Seq(Char) /\ installed \in BOOLEAN
      BY <2>1
    <2>3. format \notin TextFormat
      BY <1>2, FormatNames, Zenon
    <2> QED
      BY <1>1, <1>2, <2>1, <2>2, <2>3, Zenon DEF NameInv
  <1>3. CASE format \in TextFormat
    <2>1. /\ \E size \in TextSizes : buffer \in [1..size -> Codes(format)]
          /\ number = 0
          /\ name = GameName(format, buffer)
          /\ installed \in BOOLEAN
      BY <1>3, FormatNames, Zenon DEF Init
    <2>2. PICK size \in TextSizes : buffer \in [1..size -> Codes(format)]
      BY <2>1
    <2>3. size \in Nat
      BY ClientTexts
    <2>4. /\ name \in Seq(Char)
          /\ ReadsName(format, buffer, name)
          /\ buffer \in [1..size -> CodeRange(format)]
      BY <1>3, <2>1, <2>2, <2>3, NameInGame, Zenon
    <2>5. number \in Nat
      BY <2>1
    <2> QED
      BY <1>1, <1>3, <2>1, <2>3, <2>4, <2>5, Zenon DEF NameInv
  <1>4. format \in NumberFormat \cup TextFormat
    BY Zenon DEF Init
  <1> QED
    BY <1>2, <1>3, <1>4, Zenon

\* In the UTF-8 locale the library asks for, everything is converted.
LEMMA InstalledIsUtf8 == installed \in BOOLEAN => (installed => Utf8 = TRUE)
  BY DEF Utf8

\* A call that writes the name of a text.
LEMMA TextWritten ==
  ASSUME NameInv, NEW t \in Seq(Char), WriteText(t)
  PROVE  /\ format \in TextFormat /\ UNCHANGED <<format, installed, number>>
         /\ \E size \in Nat : buffer' \in [1..size -> CodeRange(format)]
         /\ Len(buffer') = Len(buffer) /\ Len(buffer) \in Nat
         /\ Kept(format, t, Len(buffer), Char) \in Seq(Char)
         /\ ReadsName(format, buffer', Kept(format, t, Len(buffer), Char))
  <1>1. /\ format \in TextFormat /\ UNCHANGED <<format, installed, number>>
        /\ buffer' = ExportText(format, t, buffer, Utf8)
    BY DEF WriteText
  <1>2. PICK size \in Nat : buffer \in [1..size -> CodeRange(format)]
    BY <1>1, Zenon DEF NameInv
  <1>3. Len(buffer) = size
    BY <1>2, CodeBuffer, Zenon
  <1>4. installed => Utf8 = TRUE
    BY InstalledIsUtf8, Zenon DEF NameInv
  <1>5. /\ ExportText(format, t, buffer, Utf8) \in [1..size -> CodeRange(format)]
        /\ Kept(format, t, size, Char) \in Seq(Char)
        /\ ReadsName(format, ExportText(format, t, buffer, Utf8),
                     Kept(format, t, size, Char))
    BY <1>1, <1>2, <1>4, NameWritten, Zenon
  <1>6. Len(buffer') = size
    BY <1>1, <1>5, CodeBuffer, Zenon
  <1> QED
    BY <1>1, <1>3, <1>5, <1>6, Zenon

\* The name is read with the locale there is.
LEMMA NameRead ==
  ASSUME NameInv, format \in TextFormat, Convertible
  PROVE  ImportText(format, buffer, Utf8) = Narrowed(format, name)
  <1>1. ReadsName(format, buffer, name) /\ installed \in BOOLEAN
    BY Zenon DEF NameInv
  <1>2. installed => Utf8 = TRUE
    BY <1>1, InstalledIsUtf8, Zenon
  <1> QED
    BY <1>1, <1>2, Zenon DEF ReadsName, Convertible

\* no call breaks it,
LEMMA NameStep == NameInv /\ [Next]_vars => NameInv'
  <1> SUFFICES ASSUME NameInv, [Next]_vars PROVE NameInv'
    OBVIOUS
  <1>1. CASE WriteNumber
    <2>1. /\ format \in NumberFormat
          /\ UNCHANGED <<format, text, installed, name>>
      BY <1>1 DEF WriteNumber
    <2>2. format \notin TextFormat
      BY <2>1, FormatNames, Zenon
    <2> QED
      BY <2>1, <2>2 DEF NameInv
  <1>2. CASE ReadName
    <2>1. /\ format \in TextFormat
          /\ text' = ImportText(format, buffer, Utf8)
          /\ UNCHANGED <<format, buffer, installed, number, name>>
      BY <1>2 DEF ReadName
    <2>2. PICK size \in Nat : buffer \in [1..size -> CodeRange(format)]
      BY <2>1, Zenon DEF NameInv
    <2>3. text' \in Seq(Char)
      BY <2>1, <2>2, TextImported, Zenon
    <2>4. Convertible => text' = Narrowed(format, name)
      BY <2>1, NameRead, Zenon
    <2>5. Convertible' <=> Convertible
      BY <2>1 DEF Convertible
    <2>6. ReadsName(format, buffer, name)' <=> ReadsName(format, buffer, name)
      BY <2>1 DEF ReadsName
    <2> QED
      BY <2>1, <2>3, <2>4, <2>5, <2>6 DEF NameInv
  <1>3. CASE WriteName
    <2>1. PICK t \in Texts : WriteText(t) /\ name' = Fitting(format, t, Len(buffer))
      BY <1>3, Zenon DEF WriteName
    <2>2. text' = <<"none">> /\ t \in Seq(Char)
      BY <1>3, ClientTexts DEF WriteName
    <2>3. name' = Kept(format, t, Len(buffer), Char)
      BY <2>1, <2>2, FittingKeeps, Zenon
    <2>4. /\ format \in TextFormat /\ UNCHANGED <<format, installed, number>>
          /\ \E size \in Nat : buffer' \in [1..size -> CodeRange(format)]
          /\ name' \in Seq(Char)
          /\ ReadsName(format, buffer', name')
      BY <2>1, <2>2, <2>3, TextWritten, Zenon
    <2>5. ReadsName(format, buffer, name)'
      BY <2>4 DEF ReadsName
    <2> QED
      BY <2>2, <2>4, <2>5 DEF NameInv
  <1>4. CASE WriteBack
    <2>1. /\ text # <<"none">> /\ UNCHANGED <<text, name>>
          /\ \E rest \in IF Utf8Size(text) < Len(buffer) THEN {<<>>}
                         ELSE {<<>>} \cup Texts :
               WriteText(text \o rest)
      BY <1>4 DEF WriteBack
    <2>2. PICK rest \in {<<>>} \cup Texts :
            /\ WriteText(text \o rest)
            /\ Utf8Size(text) < Len(buffer) => rest = <<>>
      BY <2>1, Zenon
    <2>3. text \in Seq(Char) /\ rest \in Seq(Char) /\ text \o rest \in Seq(Char)
      <3>1. text \in Seq(Char)
        BY <2>1, Zenon DEF NameInv
      <3>2. rest \in Seq(Char)
        <4>1. <<>> \in Seq(Char)
          OBVIOUS
        <4> QED
          BY <4>1, ClientTexts, Zenon
      <3> QED
        BY <3>1, <3>2
    <2>4. /\ format \in TextFormat /\ UNCHANGED <<format, installed, number>>
          /\ \E size \in Nat : buffer' \in [1..size -> CodeRange(format)]
          /\ Len(buffer') = Len(buffer) /\ Len(buffer) \in Nat
          /\ ReadsName(format, buffer', Kept(format, text \o rest, Len(buffer), Char))
      BY <2>2, <2>3, TextWritten, Zenon
    <2>5. Convertible' <=> Convertible
      BY <2>1, <2>4 DEF Convertible
    <2>6. ASSUME Convertible
          PROVE  ReadsName(format, buffer, name)'
      <3>1. /\ text = Narrowed(format, name) /\ Fits(format, name, Len(buffer), Char)
            /\ name \in Seq(Char)
        BY <2>1, <2>4, <2>6, Zenon DEF NameInv, ReadsName
      <3>2. /\ Narrowed(format, text) = text /\ Fits(format, text, Len(buffer), Char)
            /\ Range(name) \subseteq Ascii => text = name
        BY <2>4, <3>1, NarrowedFits, Zenon
      <3>3. Kept(format, text \o rest, Len(buffer), Char) = text
        <4>1. CASE rest = <<>>
          <5>1. text \o rest = text
            BY <2>3, <4>1
          <5> QED
            BY <2>3, <2>4, <3>2, <5>1, KeptWhole, Zenon
        <4>2. CASE ~(Utf8Size(text) < Len(buffer))
          <5>1. Len(buffer) <= Utf8Size(Narrowed(format, text))
            <6>1. Utf8Size(text) \in Nat
              BY <2>3, Utf8Facts, Zenon
            <6> QED
              BY <2>4, <3>2, <4>2, <6>1
          <5> QED
            BY <2>3, <2>4, <3>2, <5>1, KeptBefore, Zenon
        <4> QED
          BY <2>2, <4>1, <4>2, Zenon
      <3>4. ReadsName(format, buffer', text)
        BY <2>4, <3>3, Zenon
      <3>5. ReadsName(format, buffer', name)
        BY <2>4, <3>1, <3>2, <3>4, Zenon DEF ReadsName
      <3> QED
        BY <2>1, <2>4, <3>5 DEF ReadsName
    <2> QED
      BY <2>1, <2>4, <2>5, <2>6 DEF NameInv
  <1>5. CASE SetLocale
    <2>1. UNCHANGED <<format, buffer, text, installed, number, name>>
      BY <1>5 DEF SetLocale
    <2> QED
      BY <2>1 DEF NameInv, Convertible, ReadsName
  <1>6. CASE UNCHANGED vars
    <2>1. UNCHANGED <<format, buffer, text, installed, number, name>>
      BY <1>6 DEF vars
    <2> QED
      BY <2>1 DEF NameInv, Convertible, ReadsName
  <1> QED
    BY <1>1, <1>2, <1>3, <1>4, <1>5, <1>6 DEF Next

\* and it always holds.
LEMMA NameInductive == Spec => []NameInv
  BY NameInit, NameStep, PTL DEF Spec

\* NameIsIntended: a name reads as what fits of it, of each character what the
\* format keeps, also after it was read and written back any number of times, and
\* from a copy that fills the client's buffer and so has no end; and nothing
\* of an earlier, longer name shows behind it; names in ASCII whatever the
\* locale, all others if the one the library asks for exists; for buffers and
\* texts of any length (the imports and exports of the four text formats).
THEOREM NameCorrect == Spec => []NameIsIntended
  <1>1. NameInv => NameIsIntended
    BY NameRead, Zenon DEF NameIsIntended, Convertible
  <1> QED
    BY <1>1, NameInductive, PTL

-----------------------------------------------------------------------------
(* The locale.                                                             *)

LocaleInv == locale \in Locales

\* The locale is always one.
LEMMA LocaleInductive == Spec => []LocaleInv
  <1>1. Init => LocaleInv
    BY DEF Init, LocaleInv, Locales
  <1>2. LocaleInv /\ [Next]_vars => LocaleInv'
    BY DEF Next, WriteNumber, ReadName, WriteName, WriteBack, WriteText, SetLocale,
           RestoredLocales, vars, LocaleInv
  <1> QED
    BY <1>1, <1>2, PTL DEF Spec

-----------------------------------------------------------------------------
(* The types.                                                              *)

\* TypeOK: a buffer holds bytes, or 16-bit characters for XD and Colosseum, and
\* no failed search of a table is written into it (wchar_map_index).
THEOREM TypeCorrect == Spec => []TypeOK
  <1>1. NumberInv /\ NameInv /\ LocaleInv => TypeOK
    <2> SUFFICES ASSUME NumberInv, NameInv, LocaleInv PROVE TypeOK
      OBVIOUS
    <2>1. /\ format \in NumberFormat \cup TextFormat
          /\ text \in Seq(Char) \cup {<<"none">>}
          /\ locale \in Locales
          /\ installed \in BOOLEAN /\ name \in Seq(Char)
      BY Zenon DEF NameInv, LocaleInv
    <2>2. format # "xds" => 0..LastUnit(format) = 0..255
      <3>1. format # "xds" => LastUnit(format) = 255
        BY DEF LastUnit
      <3> QED
        BY <3>1, Zenon
    <2>3. ASSUME format \in NumberFormat
          PROVE  buffer \in Seq(0..LastUnit(format)) /\ number \in Nat
      <3>1. format # "xds" /\ number \in Nat
        BY <2>3, FormatNames DEF NumberInv
      <3>2. buffer \in Seq(0..255)
        BY <2>3, ByteBuffer, Zenon DEF NumberInv
      <3> QED
        BY <2>2, <3>1, <3>2, Zenon
    <2>4. ASSUME format \in TextFormat
          PROVE  buffer \in Seq(0..LastUnit(format)) /\ number \in Nat
      <3>1. PICK size \in Nat : buffer \in [1..size -> CodeRange(format)]
        BY <2>4, Zenon DEF NameInv
      <3>2. buffer \in Seq(CodeRange(format))
        BY <3>1, CodeBuffer, Zenon
      <3>3. number \in Nat
        BY <2>4, Zenon DEF NameInv
      <3> QED
        BY <3>2, <3>3, Zenon DEF CodeRange
    <2>5. buffer \in Seq(0..LastUnit(format)) /\ number \in Nat
      BY <2>1, <2>3, <2>4, Zenon
    <2> QED
      BY <2>1, <2>5, Zenon DEF TypeOK
  <1> QED
    BY <1>1, NumberInductive, NameInductive, LocaleInductive, PTL
=============================================================================
