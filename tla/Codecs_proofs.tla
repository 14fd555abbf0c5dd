--------------------------- MODULE Codecs_proofs ---------------------------
(***************************************************************************)
(* For every width of the C types, every set of values and every set of    *)
(* octets from elsewhere.                                                  *)
(*                                                                         *)
(* The invariant says where what a program has came from, so that each     *)
(* property is one about the operators of the codecs: decoding undoes      *)
(* encoding, and what is decoded is a value again.  What the codecs make   *)
(* digit by digit or octet by octet are recursive functions, of which the  *)
(* lemmas show that they exist, and what one more digit or octet changes.  *)
(***************************************************************************)
EXTENDS Codecs, SequenceTheorems, FiniteSetTheorems, WellFoundedInduction, TLAPS

\* Numbers that are in a set have a first one: the form in which induction
\* over the octets of a value is used.
LEMMA FirstOfNumbers ==
  ASSUME NEW S, S \subseteq Nat, S # {}
  PROVE  \E i \in S : \A j \in S : i <= j
<1> DEFINE T == {1..i : i \in S}
<1>1. \A i \in Nat : 1..i \in FiniteSubsetsOf(Nat) BY FS_Interval, 1 \in Int DEF FiniteSubsetsOf
<1>2. T \subseteq FiniteSubsetsOf(Nat) /\ T # {} BY <1>1
<1>3. PICK t \in T : \A r \in T : ~(<< r, t >> \in StrictSubsetOrdering(Nat))
  BY <1>2, WFMin, FS_StrictSubsetOrderingWellFounded
<1>4. PICK i \in S : t = 1..i OBVIOUS
<1>5. ASSUME NEW j \in S, j < i
      PROVE  FALSE
  <2>1. 1..j \subseteq 1..i /\ i \in 1..i /\ i \notin 1..j BY <1>5
  <2>2. << 1..j, 1..i >> \in StrictSubsetOrdering(Nat) BY <2>1 DEF StrictSubsetOrdering
  <2> QED BY <1>3, <1>4, <2>2
<1> QED BY <1>5

\* Induction over the natural numbers, for a set of them.
LEMMA NaturalInduction ==
  ASSUME NEW S, \A n \in Nat : (\A m \in 0..(n - 1) : m \in S) => n \in S
  PROVE  Nat \subseteq S
<1> SUFFICES ASSUME NEW k \in Nat, k \notin S PROVE FALSE OBVIOUS
<1>1. PICK i \in Nat \ S : \A j \in Nat \ S : i <= j
  BY FirstOfNumbers, Nat \ S \subseteq Nat, Nat \ S # {}
<1>2. \A m \in 0..(i - 1) : m \in S BY <1>1
<1> QED BY <1>1, <1>2


\* Induction from a number to the next one.
LEMMA StepInduction ==
  ASSUME NEW S, 0 \in S, \A n \in Nat : n \in S => n + 1 \in S
  PROVE  Nat \subseteq S
<1>1. ASSUME NEW n \in Nat, \A m \in 0..(n - 1) : m \in S
      PROVE  n \in S
  <2>1. CASE n = 0 BY <2>1
  <2>2. CASE n # 0
    <3>1. n - 1 \in Nat /\ n - 1 \in 0..(n - 1) /\ (n - 1) + 1 = n BY <2>2
    <3> QED BY <1>1, <3>1
  <2> QED BY <2>1, <2>2
<1> QED BY <1>1, NaturalInduction

\* A function that begins with init and goes one step after the other.
IsStep(step, n, A) == \A i \in 1..n, x \in A : step[<<i, x>>] \in A

Goes(f, n, A, init, step) ==
  /\ f \in [0..n -> A]
  /\ f[0] = init
  /\ \A i \in 1..n : f[i] = step[<<i, f[i - 1]>>]

IsSameStep(more, step, n, A) == \A i \in 1..n, x \in A : more[<<i, x>>] = step[<<i, x>>]

\* What is defined step by step is defined.
LEMMA Stepwise ==
  ASSUME NEW n \in Nat, NEW A, NEW init \in A, NEW step, IsStep(step, n, A)
  PROVE  \E f : Goes(f, n, A, init, step)
<1> DEFINE Upto(f, m) == /\ f \in [0..m -> A]
                         /\ f[0] = init
                         /\ \A i \in 1..m : f[i] = step[<<i, f[i - 1]>>]
           S == {m \in Nat : m <= n => \E f : Upto(f, m)}
<1>1. 0 \in S
  <2>1. Upto([i \in 0..0 |-> init], 0) OBVIOUS
  <2> QED BY <2>1
<1>2. ASSUME NEW m \in Nat, m \in S
      PROVE  m + 1 \in S
  <2> HIDE DEF Upto
  <2> SUFFICES ASSUME m + 1 <= n
               PROVE  \E f : Upto(f, m + 1)
    BY m + 1 \in Nat
  <2>1. PICK f : Upto(f, m) BY <1>2, m <= n
  <2> USE DEF Upto
  <2> DEFINE next == step[<<m + 1, f[m]>>]
             g == [i \in 0..(m + 1) |-> IF i = m + 1 THEN next ELSE f[i]]
  <2>2. f[m] \in A /\ m + 1 \in 1..n BY <2>1
  <2>3. next \in A
    <3> HIDE DEF Upto
    <3> QED BY <2>2 DEF IsStep
  <2> HIDE DEF next
  <2>4. g \in [0..(m + 1) -> A] /\ g[0] = init BY <2>1, <2>3
  <2>5. ASSUME NEW i \in 1..(m + 1)
        PROVE  g[i] = step[<<i, g[i - 1]>>]
    <3>1. CASE i = m + 1
      <4>1. i - 1 = m /\ g[i - 1] = f[m] /\ g[i] = next BY <3>1
      <4> QED BY <3>1, <4>1 DEF next
    <3>2. CASE i # m + 1
      <4>1. i \in 1..m /\ i - 1 \in 0..m /\ i - 1 # m + 1 BY <3>2
      <4>2. g[i] = f[i] /\ g[i - 1] = f[i - 1] BY <3>2, <4>1
      <4> QED BY <2>1, <4>1, <4>2
    <3> QED BY <3>1, <3>2
  <2>6. Upto(g, m + 1) BY <2>4, <2>5
  <2> QED BY <2>6
<1>3. Nat \subseteq S
  <2> HIDE DEF S
  <2> QED BY <1>1, <1>2, StepInduction
<1>4. \E f : Upto(f, n)
  <2> HIDE DEF Upto
  <2> QED BY <1>3, n <= n
<1>5. \A f : Upto(f, n) => Goes(f, n, A, init, step) BY DEF Goes
<1> HIDE DEF Upto
<1> QED BY <1>4, <1>5

LEMMA SameSteps ==
  ASSUME NEW n \in Nat, NEW A, NEW B, NEW f, NEW g, NEW init, NEW step,
         Goes(f, n, A, init, step), Goes(g, n, B, init, step)
  PROVE  f = g
<1> DEFINE S == {i \in Nat : i <= n => f[i] = g[i]}
<1>1. 0 \in S BY DEF Goes
<1>2. ASSUME NEW i \in Nat, i \in S
      PROVE  i + 1 \in S
  <2> SUFFICES ASSUME i + 1 <= n PROVE f[i + 1] = g[i + 1] OBVIOUS
  <2>1. f[i] = g[i] /\ i + 1 \in 1..n /\ (i + 1) - 1 = i BY <1>2
  <2> QED BY <2>1 DEF Goes
<1>3. Nat \subseteq S
  <2> HIDE DEF S
  <2> QED BY <1>1, <1>2, StepInduction
<1>4. \A i \in 0..n : f[i] = g[i] BY <1>3
<1> QED BY <1>4 DEF Goes

\* What one more step makes of the function.
LEMMA OneMoreStep ==
  ASSUME NEW n \in Nat, NEW A, NEW B, NEW init, NEW f, NEW g, NEW step, NEW more,
         Goes(f, n, A, init, step), Goes(g, n + 1, B, init, more),
         IsSameStep(more, step, n, A)
  PROVE  g[n + 1] = more[<<n + 1, f[n]>>]
<1> DEFINE h == [i \in 0..n |-> g[i]]
<1>1. \A i \in 1..n : i - 1 \in 0..n /\ i \in 1..(n + 1) OBVIOUS
<1>2. Goes(f, n, A, init, more)
  <2>1. \A i \in 1..n : f[i - 1] \in A BY <1>1 DEF Goes
  <2> QED BY <2>1 DEF Goes, IsSameStep
<1>3. Goes(h, n, B, init, more)
  <2>1. \A i \in 0..n : i \in 0..(n + 1) /\ h[i] = g[i] OBVIOUS
  <2>2. \A i \in 1..n : h[i] = g[i] /\ h[i - 1] = g[i - 1] BY <1>1
  <2>3. h \in [0..n -> B] BY <2>1 DEF Goes
  <2> HIDE DEF h
  <2> QED BY <1>1, <2>1, <2>2, <2>3 DEF Goes
<1> HIDE DEF h
<1>4. f = h BY <1>2, <1>3, SameSteps
<1>5. f[n] = g[n] BY <1>4 DEF h
<1>6. n + 1 \in 1..(n + 1) /\ (n + 1) - 1 = n OBVIOUS
<1> QED BY <1>5, <1>6 DEF Goes

----------------------------------------------------------------------------
(* Arithmetic *)

\* Powers of two are what their name says.
LEMMA PowerOfTwo ==
  ASSUME NEW n \in Nat
  PROVE  /\ 2^n \in Nat \ {0}
         /\ 2^(n + 1) = 2 * 2^n
<1> DEFINE S == SUBSET (1..n)
           T == {x \cup {n + 1} : x \in S}
<1>1. IsFiniteSet(1..n) /\ Cardinality(1..n) = n BY FS_Interval
<1>2. IsFiniteSet(1..(n + 1)) /\ Cardinality(1..(n + 1)) = n + 1 BY FS_Interval
<1>3. IsFiniteSet(S) /\ Cardinality(S) = 2^n BY <1>1, FS_SUBSET
<1>4. Cardinality(SUBSET (1..(n + 1))) = 2^(n + 1) BY <1>2, FS_SUBSET
<1>5. IsFiniteSet(T) /\ Cardinality(T) = 2^n
  <2> DEFINE f == [x \in S |-> x \cup {n + 1}]
  <2>1. f \in Bijection(S, T)
    <3>1. f \in [S -> T] OBVIOUS
    <3>2. ASSUME NEW x \in S, NEW y \in S, f[x] = f[y]
          PROVE  x = y
      <4>1. n + 1 \notin x /\ n + 1 \notin y OBVIOUS
      <4>2. x \cup {n + 1} = y \cup {n + 1} BY <3>2
      <4> QED BY <4>1, <4>2
    <3>3. \A t \in T : \E x \in S : f[x] = t OBVIOUS
    <3> QED BY <3>1, <3>2, <3>3 DEF Bijection, Injection, Surjection, IsInjective
  <2>2. ExistsBijection(S, T) BY <2>1 DEF ExistsBijection
  <2> HIDE DEF S, T
  <2> QED BY <1>3, <2>1, <2>2, FS_Bijection
<1>6. S \cap T = {} BY \A x \in S : n + 1 \notin x
<1>7. S \cup T = SUBSET (1..(n + 1))
  <2>1. S \cup T \subseteq SUBSET (1..(n + 1))
    <3>1. 1..n \subseteq 1..(n + 1) /\ n + 1 \in 1..(n + 1) OBVIOUS
    <3> QED BY <3>1, Zenon
  <2>2. ASSUME NEW y \in SUBSET (1..(n + 1))
        PROVE  y \in S \cup T
    <3>1. CASE n + 1 \in y
      <4>1. y \ {n + 1} \in S /\ y = (y \ {n + 1}) \cup {n + 1} BY <3>1
      <4> QED BY <4>1
    <3>2. CASE n + 1 \notin y BY <3>2
    <3> QED BY <3>1, <3>2
  <2> QED BY <2>1, <2>2
<1> HIDE DEF S, T
<1>8. Cardinality(S \cup T) = Cardinality(S) + Cardinality(T) - Cardinality(S \cap T)
  BY <1>3, <1>5, FS_Union
<1>9. Cardinality(S \cap T) = 0 /\ Cardinality(S) \in Nat
  BY <1>3, <1>6, FS_EmptySet, FS_CardinalityType
<1>10. 2^n # 0
  <2>1. {} \in S BY DEF S
  <2> QED BY <1>3, <2>1, FS_EmptySet
<1>11. 2^n \in Nat BY <1>3, <1>9
<1>12. 2^(n + 1) = 2^n + 2^n - 0 BY <1>3, <1>4, <1>5, <1>7, <1>8, <1>9
<1> QED BY <1>10, <1>11, <1>12

LEMMA PowersAdd ==
  ASSUME NEW m \in Nat, NEW n \in Nat
  PROVE  2^(m + n) = 2^m * 2^n
<1> DEFINE S == {k \in Nat : 2^(m + k) = 2^m * 2^k}
<1>1. 0 \in S
  <2>1. 2^0 = 1 OBVIOUS
  <2>2. m + 0 = m /\ 2^m \in Nat BY PowerOfTwo
  <2> QED BY <2>1, <2>2
<1>2. ASSUME NEW k \in Nat, k \in S
      PROVE  k + 1 \in S
  <2>1. 2^(m + k + 1) = 2 * 2^(m + k) /\ 2^(k + 1) = 2 * 2^k BY PowerOfTwo, m + k \in Nat
  <2>2. 2^(m + k) = 2^m * 2^k BY <1>2
  <2>3. 2^m \in Nat /\ 2^k \in Nat BY PowerOfTwo
  <2>4. m + (k + 1) = m + k + 1 OBVIOUS
  <2>5. \A a, b \in Nat : 2 * (a * b) = a * (2 * b) OBVIOUS
  <2>6. 2^(m + (k + 1)) = 2^m * 2^(k + 1) BY <2>1, <2>2, <2>3, <2>4, <2>5
  <2> QED BY <2>6
<1>3. Nat \subseteq S
  <2> HIDE DEF S
  <2> QED BY <1>1, <1>2, StepInduction
<1> QED BY <1>3

LEMMA PowersGrow ==
  ASSUME NEW m \in Nat, NEW n \in Nat, m <= n
  PROVE  2^m <= 2^n
<1>1. n - m \in Nat /\ m + (n - m) = n OBVIOUS
<1>2. 2^n = 2^m * 2^(n - m) BY <1>1, PowersAdd
<1>3. 2^m \in Nat \ {0} /\ 2^(n - m) \in Nat \ {0} BY <1>1, PowerOfTwo
<1>4. \A a, b \in Nat \ {0} : a <= a * b OBVIOUS
<1> QED BY <1>2, <1>3, <1>4

\* Division by a positive number.
LEMMA Division ==
  ASSUME NEW a \in Int, NEW b \in Nat \ {0}
  PROVE  /\ a \div b \in Int
         /\ a % b \in 0..(b - 1)
         /\ a = (a \div b) * b + (a % b) OBVIOUS

LEMMA Quotient ==
  ASSUME NEW q \in Int, NEW b \in Nat \ {0}, NEW r \in 0..(b - 1)
  PROVE  (q * b + r) \div b = q /\ (q * b + r) % b = r
<1> DEFINE a == q * b + r
<1>1. a \in Int OBVIOUS
<1>2. a \div b \in Int /\ a % b \in 0..(b - 1) /\ a = (a \div b) * b + (a % b) BY <1>1, Division
<1> HIDE DEF a
<1>3. ASSUME NEW x \in Int, NEW y \in 0..(b - 1), x * b + y = q * b + r
      PROVE  x = q /\ y = r
  <2>1. (x - q) * b = r - y BY <1>3
  <2>2. CASE x - q >= 1
    <3>1. (x - q) * b >= b BY <2>2
    <3> QED BY <2>1, <3>1
  <2>3. CASE x - q <= -1
    <3>1. (x - q) * b <= -b BY <2>3
    <3> QED BY <2>1, <3>1
  <2>4. x - q = 0 BY <2>2, <2>3
  <2> QED BY <2>1, <2>4
<1>4. (a \div b) * b + (a % b) = q * b + r BY <1>2 DEF a
<1>5. a \div b = q /\ a % b = r BY <1>2, <1>3, <1>4
<1> QED BY <1>5 DEF a

LEMMA DivideTwice ==
  ASSUME NEW a \in Int, NEW b \in Nat \ {0}, NEW c \in Nat \ {0}
  PROVE  /\ (a \div b) \div c = a \div (b * c)
         /\ a % (b * c) = ((a \div b) % c) * b + (a % b)
<1> DEFINE q == a \div b
           r == a % b
           p == q \div c
           s == q % c
<1>1. q \in Int /\ r \in 0..(b - 1) /\ a = q * b + r BY Division
<1>2. p \in Int /\ s \in 0..(c - 1) /\ q = p * c + s BY <1>1, Division
<1> HIDE DEF q, r, p, s
<1>3. a = p * (b * c) + (s * b + r)
  <2>1. a = (p * c + s) * b + r BY <1>1, <1>2
  <2>2. (p * c + s) * b = p * (b * c) + s * b BY <1>1, <1>2
  <2>3. p * (b * c) \in Int /\ s * b \in Int /\ r \in Int BY <1>1, <1>2
  <2>4. \A x, y, z \in Int : (x + y) + z = x + (y + z) OBVIOUS
  <2>5. a = (p * (b * c) + s * b) + r BY <2>1, <2>2
  <2> QED BY <2>3, <2>4, <2>5
<1>4. b * c \in Nat \ {0} OBVIOUS
<1>5. s * b + r \in 0..(b * c - 1)
  <2>1. s * b <= (c - 1) * b /\ 0 <= s * b BY <1>2
  <2>2. (c - 1) * b = b * c - b OBVIOUS
  <2> QED BY <1>1, <1>2, <1>4, <2>1, <2>2
<1>6. a \div (b * c) = p /\ a % (b * c) = s * b + r BY <1>2, <1>3, <1>4, <1>5, Quotient
<1> QED BY <1>6 DEF p, s, q, r

----------------------------------------------------------------------------
(* Numbers and their digits *)

\* The number that digits stand for, digit after digit.
NumberStep(digits, base) == [p \in (1..Len(digits)) \X Int |-> p[2] * base + digits[p[1]]]

LEMMA NumberSteps ==
  ASSUME NEW digits \in Seq(Int), NEW base \in Int
  PROVE  /\ IsStep(NumberStep(digits, base), Len(digits), Int)
         /\ \A i \in 1..Len(digits), k \in Int :
              NumberStep(digits, base)[<<i, k>>] = k * base + digits[i]
<1>1. ASSUME NEW i \in 1..Len(digits), NEW k \in Int
      PROVE  NumberStep(digits, base)[<<i, k>>] = k * base + digits[i]
  <2>1. <<i, k>> \in (1..Len(digits)) \X Int OBVIOUS
  <2> QED BY <2>1 DEF NumberStep
<1>2. \A i \in 1..Len(digits), k \in Int : k * base + digits[i] \in Int
  <2>1. \A i \in 1..Len(digits) : digits[i] \in Int OBVIOUS
  <2> QED BY <2>1
<1> QED BY <1>1, <1>2 DEF IsStep

LEMMA NumberDefined ==
  ASSUME NEW digits \in Seq(Int), NEW base \in Int
  PROVE  \E f : /\ Goes(f, Len(digits), Int, 0, NumberStep(digits, base))
               /\ NumberOf(digits, base) = f[Len(digits)]
<1> DEFINE n == Len(digits)
           step == NumberStep(digits, base)
           Step(g) == [i \in 0..n |-> IF i = 0 THEN 0 ELSE g[i - 1] * base + digits[i]]
           c == CHOOSE g : g = Step(g)
<1>1. NumberOf(digits, base) = c[n] BY Zenon DEF NumberOf
<1>2. IsStep(step, n, Int) /\ \A i \in 1..n, k \in Int : step[<<i, k>>] = k * base + digits[i]
  BY NumberSteps
<1>3. n \in Nat /\ 0 \in Int OBVIOUS
<1> HIDE DEF step, n
<1>4. PICK g : Goes(g, n, Int, 0, step) BY <1>2, <1>3, Stepwise
<1>5. g = Step(g)
  <2>1. ASSUME NEW i \in 0..n
        PROVE  g[i] = IF i = 0 THEN 0 ELSE g[i - 1] * base + digits[i]
    <3>1. CASE i = 0 BY <1>4, <3>1 DEF Goes
    <3>2. CASE i # 0
      <4>1. i \in 1..n /\ i - 1 \in 0..n BY <1>3, <3>2
      <4>2. g[i - 1] \in Int /\ g[i] = step[<<i, g[i - 1]>>] BY <1>4, <4>1 DEF Goes
      <4> QED BY <1>2, <3>2, <4>1, <4>2
    <3> QED BY <3>1, <3>2
  <2>2. g = [i \in 0..n |-> g[i]] BY <1>4 DEF Goes
  <2> QED BY <2>1, <2>2
<1>6. c = Step(c)
  <2> HIDE DEF Step
  <2> QED BY <1>5
<1> HIDE DEF c
<1>7. /\ c[0] = 0
      /\ \A i \in 1..n : c[i] = c[i - 1] * base + digits[i]
      /\ c = [i \in 0..n |-> c[i]]
  <2>1. \A i \in 0..n : c[i] = IF i = 0 THEN 0 ELSE c[i - 1] * base + digits[i] BY <1>6
  <2>2. c = [i \in 0..n |-> c[i]] BY <1>6
  <2>3. 0 \in 0..n /\ \A i \in 1..n : i \in 0..n /\ i # 0 BY <1>3
  <2> QED BY <2>1, <2>2, <2>3
<1>8. \A i \in 0..n : c[i] \in Int
  <2> DEFINE S == {i \in Nat : i <= n => c[i] \in Int}
  <2>1. 0 \in S BY <1>7
  <2>2. ASSUME NEW i \in Nat, i \in S
        PROVE  i + 1 \in S
    <3> SUFFICES ASSUME i + 1 <= n PROVE c[i + 1] \in Int OBVIOUS
    <3>1. c[i] \in Int /\ i + 1 \in 1..n /\ (i + 1) - 1 = i BY <1>3, <2>2
    <3>2. digits[i + 1] \in Int BY <3>1 DEF n
    <3>3. c[i + 1] = c[(i + 1) - 1] * base + digits[i + 1] BY <1>7, <3>1
    <3> QED BY <3>1, <3>2, <3>3
  <2>3. Nat \subseteq S
    <3> HIDE DEF S
    <3> QED BY <2>1, <2>2, StepInduction
  <2> QED BY <1>3, <2>3
<1>9. Goes(c, n, Int, 0, step)
  <2>1. c \in [0..n -> Int] BY <1>7, <1>8
  <2>2. \A i \in 1..n : c[i] = step[<<i, c[i - 1]>>]
    <3>1. \A i \in 1..n : i - 1 \in 0..n BY <1>3
    <3> QED BY <1>2, <1>7, <1>8, <3>1
  <2> QED BY <1>7, <2>1, <2>2 DEF Goes
<1> QED BY <1>1, <1>9 DEF n, step

LEMMA NumberOfAppend ==
  ASSUME NEW digits \in Seq(Int), NEW base \in Int, NEW d \in Int
  PROVE  /\ NumberOf(digits, base) \in Int
         /\ NumberOf(Append(digits, d), base) = NumberOf(digits, base) * base + d
<1> DEFINE n == Len(digits)
           more == Append(digits, d)
<1>1. n \in Nat /\ more \in Seq(Int) /\ Len(more) = n + 1 OBVIOUS
<1>2. more[n + 1] = d /\ \A i \in 1..n : more[i] = digits[i] /\ i \in 1..(n + 1) OBVIOUS
<1>3. \A i \in 1..n, k \in Int : NumberStep(digits, base)[<<i, k>>] = k * base + digits[i]
  BY NumberSteps
<1> HIDE DEF more, n
<1>4. \A i \in 1..(n + 1), k \in Int : NumberStep(more, base)[<<i, k>>] = k * base + more[i]
  BY <1>1, NumberSteps, ZenonT(60)
<1>5. PICK f : Goes(f, n, Int, 0, NumberStep(digits, base)) /\ NumberOf(digits, base) = f[n]
  BY NumberDefined DEF n
<1>6. PICK g : Goes(g, n + 1, Int, 0, NumberStep(more, base)) /\ NumberOf(more, base) = g[n + 1]
  BY <1>1, NumberDefined
<1>7. g[n + 1] = NumberStep(more, base)[<<n + 1, f[n]>>]
  <2>1. ASSUME NEW i \in 1..n, NEW k \in Int
        PROVE  NumberStep(more, base)[<<i, k>>] = NumberStep(digits, base)[<<i, k>>]
    <3>1. i \in 1..(n + 1) /\ more[i] = digits[i] BY <1>2
    <3> QED BY <1>3, <1>4, <3>1
  <2>2. IsSameStep(NumberStep(more, base), NumberStep(digits, base), n, Int)
    BY <2>1 DEF IsSameStep
  <2> QED BY <1>1, <1>5, <1>6, <2>2, OneMoreStep
<1>8. f[n] \in Int /\ n + 1 \in 1..(n + 1) BY <1>1, <1>5 DEF Goes
<1> QED BY <1>2, <1>4, <1>5, <1>6, <1>7, <1>8 DEF more

LEMMA NumberOfNothing ==
  ASSUME NEW base \in Int
  PROVE  NumberOf(<<>>, base) = 0
<1>1. <<>> \in Seq(Int) /\ Len(<<>>) = 0 OBVIOUS
<1> QED BY <1>1, NumberDefined DEF Goes

----------------------------------------------------------------------------
(* Sequences one behind the other *)

FlattenStep(seqs, A) == [p \in (1..Len(seqs)) \X Seq(A) |-> p[2] \o seqs[p[1]]]

LEMMA FlattenSteps ==
  ASSUME NEW A, NEW seqs \in Seq(Seq(A))
  PROVE  /\ IsStep(FlattenStep(seqs, A), Len(seqs), Seq(A))
         /\ \A i \in 1..Len(seqs), s \in Seq(A) :
              FlattenStep(seqs, A)[<<i, s>>] = s \o seqs[i]
<1>1. ASSUME NEW i \in 1..Len(seqs), NEW s \in Seq(A)
      PROVE  FlattenStep(seqs, A)[<<i, s>>] = s \o seqs[i]
  <2>1. <<i, s>> \in (1..Len(seqs)) \X Seq(A) OBVIOUS
  <2> QED BY <2>1 DEF FlattenStep
<1>2. \A i \in 1..Len(seqs), s \in Seq(A) : s \o seqs[i] \in Seq(A)
  <2>1. \A i \in 1..Len(seqs) : seqs[i] \in Seq(A) OBVIOUS
  <2> QED BY <2>1, ConcatProperties
<1> QED BY <1>1, <1>2 DEF IsStep

LEMMA FlattenDefined ==
  ASSUME NEW A, NEW seqs \in Seq(Seq(A))
  PROVE  \E f : /\ Goes(f, Len(seqs), Seq(A), <<>>, FlattenStep(seqs, A))
                /\ FlattenSeq(seqs) = f[Len(seqs)]
<1> DEFINE n == Len(seqs)
           step == FlattenStep(seqs, A)
           Step(g) == [i \in 1..n |-> IF i = 1 THEN seqs[i] ELSE g[i - 1] \o seqs[i]]
           c == CHOOSE g : g = Step(g)
<1>1. FlattenSeq(seqs) = IF n = 0 THEN seqs ELSE c[n] BY Zenon DEF FlattenSeq
<1>2. IsStep(step, n, Seq(A)) /\ \A i \in 1..n, s \in Seq(A) : step[<<i, s>>] = s \o seqs[i]
  BY FlattenSteps
<1>3. n \in Nat /\ <<>> \in Seq(A) /\ \A i \in 1..n : seqs[i] \in Seq(A) BY EmptySeq
<1>4. n = 0 => seqs = <<>> BY EmptySeq
<1> HIDE DEF step, n
<1>5. PICK f : Goes(f, n, Seq(A), <<>>, step) BY <1>2, <1>3, Stepwise
<1> DEFINE g == [i \in 1..n |-> f[i]]
<1>6. \A i \in 1..n : i - 1 \in 0..n /\ i \in 0..n /\ (i = 1 \/ i - 1 \in 1..n) BY <1>3
<1>7. \A i \in 1..n : f[i] = f[i - 1] \o seqs[i] /\ f[i - 1] \in Seq(A)
  BY <1>2, <1>5, <1>6 DEF Goes
<1>8. g = Step(g)
  <2>1. ASSUME NEW i \in 1..n
        PROVE  g[i] = IF i = 1 THEN seqs[i] ELSE g[i - 1] \o seqs[i]
    <3>1. CASE i = 1
      <4>1. f[i - 1] = <<>> BY <1>5, <3>1 DEF Goes
      <4> QED BY <1>3, <1>7, <3>1, <4>1, ConcatEmptySeq
    <3>2. CASE i # 1 BY <1>6, <1>7, <3>2
    <3> QED BY <3>1, <3>2
  <2> QED BY <2>1
<1>9. c = Step(c)
  <2> HIDE DEF Step, g
  <2> QED BY <1>8
<1> HIDE DEF c, g
<1>10. \A i \in 1..n : c[i] = IF i = 1 THEN seqs[i] ELSE c[i - 1] \o seqs[i] BY <1>9
<1>11. \A i \in 1..n : c[i] = f[i]
  <2> DEFINE S == {i \in Nat : i + 1 <= n => c[i + 1] = f[i + 1]}
  <2>1. 0 \in S
    <3> SUFFICES ASSUME 1 <= n PROVE c[1] = f[1] OBVIOUS
    <3>1. 1 \in 1..n BY <1>3
    <3>2. f[0] = <<>> /\ f[1] = f[0] \o seqs[1]
      <4>1. 1 - 1 = 0 OBVIOUS
      <4> QED BY <1>5, <1>7, <3>1, <4>1 DEF Goes
    <3> QED BY <1>3, <1>10, <3>1, <3>2, ConcatEmptySeq
  <2>2. ASSUME NEW i \in Nat, i \in S
        PROVE  i + 1 \in S
    <3> SUFFICES ASSUME i + 2 <= n PROVE c[i + 2] = f[i + 2] OBVIOUS
    <3>1. i + 2 \in 1..n /\ i + 2 # 1 /\ (i + 2) - 1 = i + 1 /\ i + 1 <= n BY <1>3
    <3>2. c[i + 1] = f[i + 1] BY <2>2, <3>1
    <3>3. f[i + 2] = f[i + 1] \o seqs[i + 2] /\ c[i + 2] = c[i + 1] \o seqs[i + 2]
      BY <1>7, <1>10, <3>1
    <3> QED BY <3>2, <3>3
  <2>3. Nat \subseteq S
    <3> HIDE DEF S
    <3> QED BY <2>1, <2>2, StepInduction
  <2>4. ASSUME NEW i \in 1..n
        PROVE  c[i] = f[i]
    <3>1. i - 1 \in Nat /\ (i - 1) + 1 = i BY <1>3
    <3>2. i - 1 \in S BY <2>3, <3>1
    <3> QED BY <1>3, <3>1, <3>2
  <2> QED BY <2>4
<1>12. FlattenSeq(seqs) = f[n]
  <2>1. CASE n = 0 BY <1>1, <1>4, <1>5, <2>1 DEF Goes
  <2>2. CASE n # 0 BY <1>1, <1>3, <1>11, <2>2
  <2> QED BY <2>1, <2>2
<1> QED BY <1>5, <1>12 DEF n, step

LEMMA FlattenOfAppend ==
  ASSUME NEW A, NEW seqs \in Seq(Seq(A)), NEW s \in Seq(A)
  PROVE  /\ FlattenSeq(seqs) \in Seq(A)
         /\ FlattenSeq(Append(seqs, s)) = FlattenSeq(seqs) \o s
<1> DEFINE n == Len(seqs)
           more == Append(seqs, s)
<1>1. n \in Nat /\ more \in Seq(Seq(A)) /\ Len(more) = n + 1 OBVIOUS
<1>2. more[n + 1] = s /\ \A i \in 1..n : more[i] = seqs[i] /\ i \in 1..(n + 1) OBVIOUS
<1>3. \A i \in 1..n, k \in Seq(A) : FlattenStep(seqs, A)[<<i, k>>] = k \o seqs[i] BY FlattenSteps
<1> HIDE DEF more, n
<1>4. \A i \in 1..(n + 1), k \in Seq(A) : FlattenStep(more, A)[<<i, k>>] = k \o more[i]
  BY <1>1, FlattenSteps
<1>5. PICK f : Goes(f, n, Seq(A), <<>>, FlattenStep(seqs, A)) /\ FlattenSeq(seqs) = f[n]
  BY FlattenDefined DEF n
<1>6. PICK g : Goes(g, n + 1, Seq(A), <<>>, FlattenStep(more, A)) /\ FlattenSeq(more) = g[n + 1]
  BY <1>1, FlattenDefined
<1>7. g[n + 1] = FlattenStep(more, A)[<<n + 1, f[n]>>]
  <2>1. ASSUME NEW i \in 1..n, NEW k \in Seq(A)
        PROVE  FlattenStep(more, A)[<<i, k>>] = FlattenStep(seqs, A)[<<i, k>>]
    <3>1. i \in 1..(n + 1) /\ more[i] = seqs[i] BY <1>2
    <3> QED BY <1>3, <1>4, <3>1
  <2>2. IsSameStep(FlattenStep(more, A), FlattenStep(seqs, A), n, Seq(A)) BY <2>1 DEF IsSameStep
  <2> QED BY <1>1, <1>5, <1>6, <2>2, OneMoreStep
<1>8. f[n] \in Seq(A) /\ n + 1 \in 1..(n + 1) BY <1>1, <1>5 DEF Goes
<1> QED BY <1>2, <1>4, <1>5, <1>6, <1>7, <1>8 DEF more

LEMMA FlattenOfNothing ==
  FlattenSeq(<<>>) = <<>> BY DEF FlattenSeq

LEMMA InitIInv ==
  Init => IInv BY DEF Init, IInv

LEMMA NextIInv ==
  IInv /\ [Next]_vars => IInv'
<1> SUFFICES ASSUME IInv, [Next]_vars
             PROVE  IInv'
  OBVIOUS
<1> USE DEF Ok, Failed
<1>1. CASE New
  <2>1. PICK v \in Values[type] : value' = Ok(v) /\ first' = Ok(v) BY <1>1 DEF New
  <2>2. phase = "nothing" /\ octets = Failed /\ type' = type /\ octets' = octets /\ phase' = "value"
    BY <1>1 DEF New, IInv
  <2>3. IsFirst' BY <2>1, <2>2 DEF IsFirst
  <2> QED BY <2>1, <2>2, <2>3 DEF IInv, HasValue
<1>2. CASE Receive BY <1>2 DEF Receive, IInv, HasOctets
<1>3. CASE Encode
  <2>1. phase = "value" /\ HasValue /\ type' = type /\ first' = first /\ value' = value
    BY <1>3 DEF Encode, IInv
  <2>2. octets' \in EncodingsOf(first.value) BY <1>3, <2>1 DEF Encode, HasValue
  <2>3. EncodingsOf(first.value)' = EncodingsOf(first.value) BY <2>1 DEF EncodingsOf
  <2>4. IsFirst' = IsFirst BY <2>1 DEF IsFirst, ValuesOf
  <2> QED BY <1>3, <2>1, <2>2, <2>3, <2>4 DEF Encode, IInv, HasOctets, HasFailed, HasValue
<1>4. CASE Decode
  <2>1. phase = "octets" /\ octets.ok /\ octets.value \in Received[type] /\ type' = type /\ octets' = octets
    BY <1>4 DEF Decode, IInv, HasOctets
  <2>2. value' \in ValuesOf(octets.value) /\ first' = value' BY <1>4 DEF Decode
  <2>3. \A o : ValuesOf(o)' = ValuesOf(o) BY <2>1 DEF ValuesOf
  <2> QED BY <1>4, <2>1, <2>2, <2>3 DEF Decode, IInv, HasValue, HasFailed, IsFirst
<1>5. CASE DecodeAgain
  <2>1. /\ phase = "octets" /\ HasOctets
        /\ type' = type /\ octets' = octets /\ first' = first
        /\ first.ok /\ phase' = "decoded" BY <1>5 DEF DecodeAgain, IInv
  <2>2. value' \in ValuesOf(octets.value) BY <1>5 DEF DecodeAgain
  <2>3. ValuesOf(octets.value)' = ValuesOf(octets.value)' /\ EncodingsOf(first.value)' = EncodingsOf(first.value)
    BY <2>1 DEF EncodingsOf
  <2>4. IsFirst' = IsFirst /\ \A o : ValuesOf(o)' = ValuesOf(o) BY <2>1 DEF IsFirst, ValuesOf
  <2> QED BY <2>1, <2>2, <2>3, <2>4 DEF IInv, WasDecoded, HasOctets
<1>6. CASE UNCHANGED vars
  <2>1. /\ HasValue' = HasValue /\ HasOctets' = HasOctets /\ WasDecoded' = WasDecoded /\ HasFailed' = HasFailed
    BY <1>6 DEF vars, HasValue, HasOctets, WasDecoded, HasFailed, IsFirst, EncodingsOf, ValuesOf
  <2> QED BY <1>6, <2>1 DEF vars, IInv
<1> QED BY <1>1, <1>2, <1>3, <1>4, <1>5, <1>6 DEF Next

\* Where what a program has came from.
THEOREM History ==
  Spec => []IInv BY InitIInv, NextIInv, PTL DEF Spec

LEMMA ConcatFacts ==
  ASSUME NEW A, NEW s \in Seq(A), NEW t \in Seq(A)
  PROVE  /\ Len(s) \in Nat /\ Len(t) \in Nat
         /\ s \o t \in Seq(A)
         /\ Len(s \o t) = Len(s) + Len(t)
         /\ \A i \in 1..Len(s) : (s \o t)[i] = s[i]
         /\ \A i \in 1..Len(t) : (s \o t)[Len(s) + i] = t[i]
<1>1. Len(s) \in Nat /\ Len(t) \in Nat OBVIOUS
<1>2. /\ s \o t \in Seq(A)
      /\ Len(s \o t) = Len(s) + Len(t)
      /\ \A i \in 1..(Len(s) + Len(t)) : (s \o t)[i] = IF i <= Len(s) THEN s[i] ELSE t[i - Len(s)]
  BY ConcatProperties
<1>3. \A i \in 1..Len(s) : i \in 1..(Len(s) + Len(t)) /\ i <= Len(s) BY <1>1
<1>4. \A i \in 1..Len(t) : /\ Len(s) + i \in 1..(Len(s) + Len(t))
                           /\ ~(Len(s) + i <= Len(s)) /\ (Len(s) + i) - Len(s) = i BY <1>1
<1>5. \A i \in 1..Len(s) : (s \o t)[i] = s[i] BY <1>2, <1>3
<1>6. \A i \in 1..Len(t) : (s \o t)[Len(s) + i] = t[i] BY <1>2, <1>4
<1> QED BY <1>1, <1>2, <1>5, <1>6

\* What one sequence is behind another.
IsConcat(u, s, t) == /\ Len(u) = Len(s) + Len(t)
                     /\ \A i \in 1..Len(s) : u[i] = s[i]
                     /\ \A i \in 1..Len(t) : u[Len(s) + i] = t[i]

LEMMA ConcatIs ==
  ASSUME NEW A, NEW s \in Seq(A), NEW t \in Seq(A)
  PROVE  s \o t \in Seq(A) /\ IsConcat(s \o t, s, t)
  BY ConcatFacts DEF IsConcat

\* Sequences are functions from 1 to their length.
IsList(f, n, A) == f \in [1..n -> A]

LEMMA SeqFacts ==
  ASSUME NEW A, NEW n \in Nat, NEW f, IsList(f, n, A)
  PROVE  f \in Seq(A) /\ Len(f) = n
  BY DEF IsList

\* Two neighbours.
LEMMA PairOf ==
  ASSUME NEW A, NEW s \in Seq(A), NEW p \in 1..Len(s), p + 1 \in 1..Len(s)
  PROVE  SubSeq(s, p, p + 1) = <<s[p], s[p + 1]>>
<1> DEFINE d == [i \in 1..2 |-> s[p + i - 1]]
<1>1. SubSeq(s, p, p + 1) = [i \in 1..((p + 1) - p + 1) |-> s[p + i - 1]] OBVIOUS
<1>2. (p + 1) - p + 1 = 2 OBVIOUS
<1>3. SubSeq(s, p, p + 1) = d BY <1>1, <1>2
<1>4. d = <<d[1], d[2]>> OBVIOUS
<1>5. d[1] = s[p] /\ d[2] = s[p + 1]
  <2>1. p + 1 - 1 = p /\ p + 2 - 1 = p + 1 OBVIOUS
  <2> QED BY <2>1
<1> QED BY <1>3, <1>4, <1>5

\* n sequences of the same length m.
IsTable(s, n, m, A) == s \in [1..n -> [1..m -> A]]

\* What they are one behind the other.
IsFlat(f, s, n, m) == /\ Len(f) = m * n
                      /\ \A i \in 1..n, j \in 1..m : f[m * (i - 1) + j] = s[i][j]

\* Sequences of the same length, one behind the other.
LEMMA FlattenOfEqual ==
  ASSUME NEW A, NEW m \in Nat, NEW n \in Nat, NEW s, IsTable(s, n, m, A)
  PROVE  /\ FlattenSeq(s) \in Seq(A)
         /\ IsFlat(FlattenSeq(s), s, n, m)
<1> USE DEF IsTable
<1> DEFINE Part(k) == [i \in 1..k |-> s[i]]
           Flat(k) == /\ FlattenSeq(Part(k)) \in Seq(A)
                      /\ Len(FlattenSeq(Part(k))) = m * k
                      /\ \A i \in 1..k, j \in 1..m : FlattenSeq(Part(k))[m * (i - 1) + j] = s[i][j]
           S == {k \in Nat : k <= n => Flat(k)}
<1>1. 0 \in S
  <2>1. Part(0) = <<>> OBVIOUS
  <2>2. FlattenSeq(Part(0)) = <<>> /\ m * 0 = 0 BY <2>1, FlattenOfNothing
  <2> HIDE DEF Part
  <2>3. FlattenSeq(Part(0)) \in Seq(A) /\ Len(FlattenSeq(Part(0))) = m * 0 /\ 1..0 = {}
    <3>1. <<>> \in Seq(A) /\ Len(<<>>) = 0 /\ 1..0 = {} OBVIOUS
    <3> DEFINE g == FlattenSeq(Part(0))
               z == m * 0
    <3>2. g = <<>> /\ z = 0 BY <2>2
    <3> HIDE DEF g, z
    <3>3. g \in Seq(A) /\ Len(g) = z /\ 1..0 = {} BY <3>1, <3>2
    <3> QED BY <3>3 DEF g, z
  <2>4. Flat(0) BY <2>3
  <2> HIDE DEF Flat
  <2> QED BY <2>4, 0 \in Nat
<1>2. ASSUME NEW k \in Nat, k \in S
      PROVE  k + 1 \in S
  <2> HIDE DEF Flat
  <2> SUFFICES ASSUME k + 1 <= n
               PROVE  Flat(k + 1)
    BY k + 1 \in Nat
  <2>1. Flat(k) /\ k + 1 \in 1..n BY <1>2, k <= n
  <2> USE DEF Flat
  <2>2. Part(k) \in Seq(Seq(A)) /\ s[k + 1] \in Seq(A) /\ Len(s[k + 1]) = m
    <3>1. \A i \in 1..n : s[i] \in Seq(A) /\ Len(s[i]) = m
      <4>1. \A i \in 1..n : IsList(s[i], m, A) BY DEF IsList
      <4> HIDE DEF IsTable
      <4> QED BY <4>1, SeqFacts
    <3>2. \A i \in 1..k : i \in 1..n BY <2>1
    <3>3. Part(k) \in [1..k -> Seq(A)] BY <3>1, <3>2
    <3> HIDE DEF Part
    <3> QED BY <2>1, <3>1, <3>3, SeqFacts DEF IsList
  <2>3. Part(k + 1) = Append(Part(k), s[k + 1]) BY <2>1
  <2> DEFINE f == FlattenSeq(Part(k))
  <2>4. FlattenSeq(Part(k + 1)) = f \o s[k + 1] BY <2>2, <2>3, FlattenOfAppend
  <2> HIDE DEF Part
  <2>5. f \in Seq(A) /\ Len(f) = m * k BY <2>1
  <2>6. \A i \in 1..k, j \in 1..m : f[m * (i - 1) + j] = s[i][j] BY <2>1
  <2> HIDE DEF f
  <2>7. /\ f \o s[k + 1] \in Seq(A)
        /\ Len(f \o s[k + 1]) = m * k + m
        /\ \A l \in 1..(m * k) : (f \o s[k + 1])[l] = f[l]
        /\ \A l \in 1..m : (f \o s[k + 1])[m * k + l] = s[k + 1][l]
    <3> DEFINE e == s[k + 1]
    <3>1. e \in Seq(A) /\ Len(e) = m BY <2>2
    <3> HIDE DEF e
    <3>2. /\ f \o e \in Seq(A) /\ Len(f \o e) = Len(f) + Len(e)
          /\ \A l \in 1..Len(f) : (f \o e)[l] = f[l]
          /\ \A l \in 1..Len(e) : (f \o e)[Len(f) + l] = e[l]
      <4>1. f \in Seq(A) /\ e \in Seq(A) BY <2>5, <3>1
      <4> QED BY <4>1
    <3> QED BY <2>5, <3>1, <3>2 DEF e
  <2>8. m * (k + 1) = m * k + m /\ m * k \in Nat OBVIOUS
  <2>9. ASSUME NEW i \in 1..(k + 1), NEW j \in 1..m
        PROVE  (f \o s[k + 1])[m * (i - 1) + j] = s[i][j]
    <3>1. CASE i = k + 1
      <4>1. m * (i - 1) + j = m * k + j BY <3>1
      <4> QED BY <2>7, <3>1, <4>1
    <3>2. CASE i # k + 1
      <4>1. i \in 1..k /\ i - 1 <= k - 1 /\ i - 1 \in Nat BY <3>2
      <4>2. m * (i - 1) <= m * (k - 1) /\ m * (i - 1) \in Nat BY <4>1
      <4>3. m * (k - 1) = m * k - m OBVIOUS
      <4>4. m * (i - 1) + j \in 1..(m * k)
        <5>1. ASSUME NEW x \in Nat, NEW y \in Nat, x <= y - m
              PROVE  x + j \in 1..y
          BY <5>1
        <5> QED BY <2>8, <4>2, <4>3, <5>1
      <4> QED BY <2>6, <2>7, <4>1, <4>4
    <3> QED BY <3>1, <3>2
  <2> QED BY <2>4, <2>7, <2>8, <2>9
<1>3. Nat \subseteq S
  <2> HIDE DEF S
  <2> QED BY <1>1, <1>2, StepInduction
<1>4. Part(n) = s OBVIOUS
<1> HIDE DEF Part
<1>5. Flat(n) BY <1>3
<1> QED BY <1>4, <1>5 DEF IsFlat

LEMMA NumberOfTwo ==
  ASSUME NEW base \in Int, NEW a \in Int, NEW b \in Int
  PROVE  NumberOf(<<a, b>>, base) = a * base + b
<1>1. <<>> \in Seq(Int) /\ <<a>> \in Seq(Int) OBVIOUS
<1>2. <<a>> = Append(<<>>, a) /\ <<a, b>> = Append(<<a>>, b) OBVIOUS
<1>3. NumberOf(Append(<<>>, a), base) = NumberOf(<<>>, base) * base + a BY <1>1, NumberOfAppend
<1>4. NumberOf(<<>>, base) = 0 BY NumberOfNothing
<1>5. NumberOf(<<a>>, base) = a BY <1>2, <1>3, <1>4
<1>6. NumberOf(Append(<<a>>, b), base) = NumberOf(<<a>>, base) * base + b BY <1>1, NumberOfAppend
<1> QED BY <1>2, <1>5, <1>6

LEMMA NumberOfFour ==
  ASSUME NEW base \in Int, NEW a \in Int, NEW b \in Int, NEW c \in Int, NEW d \in Int
  PROVE  NumberOf(<<a, b, c, d>>, base) = ((a * base + b) * base + c) * base + d
<1>1. <<a, b>> \in Seq(Int) /\ <<a, b, c>> \in Seq(Int) OBVIOUS
<1>2. <<a, b, c>> = Append(<<a, b>>, c) /\ <<a, b, c, d>> = Append(<<a, b, c>>, d) OBVIOUS
<1>3. NumberOf(Append(<<a, b>>, c), base) = NumberOf(<<a, b>>, base) * base + c
  BY <1>1, NumberOfAppend
<1>4. NumberOf(<<a, b>>, base) = a * base + b BY NumberOfTwo
<1>5. NumberOf(Append(<<a, b, c>>, d), base) = NumberOf(<<a, b, c>>, base) * base + d
  BY <1>1, NumberOfAppend
<1> QED BY <1>2, <1>3, <1>4, <1>5

----------------------------------------------------------------------------
(* Times *)

\* The fields that a time has.
IsFields(t) == /\ t \in Seq(Nat) /\ Len(t) = 6
               /\ t[2] \in 1..12 /\ t[3] \in 1..31 /\ t[4] \in 0..24 /\ t[5] \in 0..59 /\ t[6] \in 0..60

LEMMA TimesHaveFields ==
  ASSUME NEW t \in Seq(Nat), Len(t) = 6
  PROVE  /\ TimeUtc(t).ok => IsFields(t)
         /\ IsFields(t) => TimeUtc(t) = Ok(t)
<1>1. t \in [1..6 -> Nat] BY LenProperties
<1> QED BY <1>1 DEF TimeUtc, IsFields, Failed, Ok

LEMMA TwoDecimals ==
  ASSUME NEW n \in 0..99
  PROVE  Decimal(n, 2) = <<n \div 10, n % 10>> /\ n \div 10 \in 0..9 /\ n % 10 \in 0..9
<1>1. 10^1 = 10 /\ 10^0 = 1 /\ 2 - 1 = 1 /\ 2 - 2 = 0 OBVIOUS
<1>2. n \div 10 \in 0..9 /\ n % 10 \in 0..9 /\ n \div 1 = n /\ (n \div 10) % 10 = n \div 10
  OBVIOUS
<1> DEFINE d == [i \in 1..2 |-> (n \div 10^(2 - i)) % 10]
<1>3. d[1] = n \div 10 /\ d[2] = n % 10 BY <1>1, <1>2
<1>4. Decimal(n, 2) = d BY DEF Decimal
<1>5. d = <<d[1], d[2]>> OBVIOUS
<1> QED BY <1>2, <1>3, <1>4, <1>5

\* Two digits for each of five fields, and each field is read again.
LEMMA FieldsAreRead ==
  ASSUME NEW t, IsFields(t), NEW year \in Seq(0..9)
  PROVE  LET chars == year \o TwoDigits(Tail(t)) \o <<Zulu>>
             w     == Len(year)
         IN  /\ chars \in Seq(0..Zulu) /\ Len(chars) = w + 11
             /\ SubSeq(chars, 1, w) = year
             /\ \A i \in 1..5 : ReadDecimal(SubSeq(chars, w + 2 * i - 1, w + 2 * i)) = t[i + 1]
<1> DEFINE rest == Tail(t)
           pairs == [i \in DOMAIN rest |-> Decimal(rest[i], 2)]
           digits == TwoDigits(rest)
           w == Len(year)
           chars == year \o digits \o <<Zulu>>
<1>1. \A i \in 1..5 : i + 1 \in 1..6 /\ t[i + 1] \in 0..99
  <2> SUFFICES ASSUME NEW i \in 1..5 PROVE i + 1 \in 1..6 /\ t[i + 1] \in 0..99 OBVIOUS
  <2>1. i + 1 \in 1..6 /\ (i + 1 = 2 \/ i + 1 = 3 \/ i + 1 = 4 \/ i + 1 = 5 \/ i + 1 = 6) OBVIOUS
  <2>2. t[2] \in 0..99 /\ t[3] \in 0..99 /\ t[4] \in 0..99 /\ t[5] \in 0..99 /\ t[6] \in 0..99
    BY DEF IsFields
  <2> QED BY <2>1, <2>2
<1>2. t \in Seq(Nat) /\ Len(t) = 6 BY DEF IsFields
<1>3. rest \in [1..5 -> Nat] /\ \A i \in 1..5 : rest[i] = t[i + 1]
  <2>1. t # <<>>
    <3>1. Len(t) # 0 BY <1>2
    <3> QED BY <3>1
  <2>2. rest \in Seq(Nat) /\ Len(rest) = Len(t) - 1 /\ \A i \in 1..Len(rest) : rest[i] = t[i + 1]
    BY <1>2, <2>1, HeadTailProperties
  <2>3. Len(rest) = 5 BY <1>2, <2>2
  <2> HIDE DEF rest
  <2> QED BY <2>2, <2>3, LenProperties
<1> HIDE DEF rest
<1>4. DOMAIN rest = 1..5 /\ \A i \in 1..5 : rest[i] \in 0..99 BY <1>1, <1>3
<1>5. ASSUME NEW i \in 1..5
      PROVE  /\ pairs[i] = <<rest[i] \div 10, rest[i] % 10>>
             /\ pairs[i] \in Seq(0..9) /\ Len(pairs[i]) = 2
             /\ rest[i] \div 10 \in 0..9 /\ rest[i] % 10 \in 0..9
  <2>1. Decimal(rest[i], 2) = <<rest[i] \div 10, rest[i] % 10>> /\ rest[i] \div 10 \in 0..9 /\ rest[i] % 10 \in 0..9
    BY <1>4, TwoDecimals
  <2>2. pairs[i] = Decimal(rest[i], 2) BY <1>4
  <2> HIDE DEF pairs
  <2>3. ASSUME NEW x \in 0..9, NEW y \in 0..9
        PROVE  <<x, y>> \in Seq(0..9) /\ Len(<<x, y>>) = 2
    OBVIOUS
  <2> QED BY <2>1, <2>2, <2>3
<1>6. pairs \in [1..5 -> [1..2 -> 0..9]]
  <2>1. ASSUME NEW i \in 1..5
        PROVE  pairs[i] \in [1..2 -> 0..9]
    BY <1>5
  <2> QED BY <1>4, <2>1
<1>7. digits = FlattenSeq(pairs) BY DEF TwoDigits
<1> HIDE DEF pairs
<1>8. /\ digits \in Seq(0..9) /\ Len(digits) = 10
      /\ \A i \in 1..5, j \in 1..2 : digits[2 * (i - 1) + j] = pairs[i][j]
  <2>1. 2 \in Nat /\ 5 \in Nat /\ 2 * 5 = 10 OBVIOUS
  <2> HIDE DEF pairs, digits, chars, w
  <2>3. /\ FlattenSeq(pairs) \in Seq(0..9)
        /\ Len(FlattenSeq(pairs)) = 2 * 5
        /\ \A i \in 1..5, j \in 1..2 : FlattenSeq(pairs)[2 * (i - 1) + j] = pairs[i][j]
    <3>1. IsTable(pairs, 5, 2, 0..9) BY <1>6 DEF IsTable
    <3>2. FlattenSeq(pairs) \in Seq(0..9) /\ IsFlat(FlattenSeq(pairs), pairs, 5, 2)
      BY <2>1, <3>1, FlattenOfEqual
    <3> QED BY <2>1, <3>1, <3>2 DEF IsFlat
  <2> QED BY <1>7, <2>1, <2>3
<1> HIDE DEF digits
<1>9. w \in Nat OBVIOUS
<1>10. Zulu \in 0..Zulu /\ 0..9 \subseteq 0..Zulu BY DEF Zulu
<1>11. year \in Seq(0..Zulu) /\ digits \in Seq(0..Zulu) /\ <<Zulu>> \in Seq(0..Zulu)
  BY <1>8, <1>10
<1>12. /\ chars \in Seq(0..Zulu) /\ Len(chars) = w + 11
       /\ \A i \in 1..w : chars[i] = year[i]
       /\ \A i \in 1..10 : chars[w + i] = digits[i]
  <2> DEFINE front == year \o digits
  <2>1. /\ front \in Seq(0..Zulu) /\ Len(front) = w + 10
        /\ \A i \in 1..w : front[i] = year[i]
        /\ \A i \in 1..10 : front[w + i] = digits[i]
    <3>1. /\ front \in Seq(0..Zulu) /\ Len(front) = w + Len(digits)
          /\ \A i \in 1..w : front[i] = year[i]
          /\ \A i \in 1..Len(digits) : front[w + i] = digits[i] BY <1>11, ConcatFacts
    <3> QED BY <1>8, <3>1
  <2>2. Len(<<Zulu>>) = 1 OBVIOUS
  <2> HIDE DEF front
  <2>3. /\ front \o <<Zulu>> \in Seq(0..Zulu) /\ Len(front \o <<Zulu>>) = (w + 10) + 1
        /\ \A i \in 1..(w + 10) : (front \o <<Zulu>>)[i] = front[i]
    <3>1. /\ front \o <<Zulu>> \in Seq(0..Zulu) /\ Len(front \o <<Zulu>>) = Len(front) + Len(<<Zulu>>)
          /\ \A i \in 1..Len(front) : (front \o <<Zulu>>)[i] = front[i]
      BY <1>11, <2>1, ConcatFacts, ZenonT(60)
    <3> QED BY <2>1, <2>2, <3>1
  <2>4. \A i \in 1..w : i \in 1..(w + 10) BY <1>9
  <2>5. \A i \in 1..10 : w + i \in 1..(w + 10) BY <1>9
  <2>6. chars = front \o <<Zulu>> BY DEF front
  <2> HIDE DEF chars, w
  <2> QED
    <3>1. (w + 10) + 1 = w + 11 BY <1>9
    <3>2. \A i \in 1..w : chars[i] = year[i] BY <2>1, <2>3, <2>4, <2>6
    <3>3. \A i \in 1..10 : chars[w + i] = digits[i] BY <2>1, <2>3, <2>5, <2>6
    <3> QED BY <2>3, <2>6, <3>1, <3>2, <3>3
<1> HIDE DEF chars
<1>13. SubSeq(chars, 1, w) = year
  <2>1. /\ SubSeq(chars, 1, w) = [i \in 1..w |-> chars[i]] BY <1>9, <1>12
  <2>2. year = [i \in 1..w |-> year[i]] OBVIOUS
  <2> HIDE DEF w
  <2> QED BY <1>12, <2>1, <2>2
<1>14. ASSUME NEW i \in 1..5
       PROVE  ReadDecimal(SubSeq(chars, w + 2 * i - 1, w + 2 * i)) = t[i + 1]
  <2> DEFINE a == rest[i] \div 10
             b == rest[i] % 10
             p == w + 2 * i - 1
  <2>1. digits[2 * (i - 1) + 1] = a /\ digits[2 * (i - 1) + 2] = b BY <1>5, <1>8, SMTT(30)
  <2>2. p = w + (2 * (i - 1) + 1) /\ p + 1 = w + (2 * (i - 1) + 2) /\ 2 * (i - 1) + 1 \in 1..10 /\ 2 * (i - 1) + 2 \in 1..10
        /\ p \in 1..Len(chars) /\ p + 1 \in 1..Len(chars) /\ p + 1 = w + 2 * i
    BY <1>9, <1>12, SMTT(30)
  <2>3. chars[p] = a /\ chars[p + 1] = b BY <1>12, <2>1, <2>2
  <2> HIDE DEF p, w
  <2>4. SubSeq(chars, p, p + 1) = <<chars[p], chars[p + 1]>>
    <3> HIDE DEF Zulu
    <3> QED BY <1>12, <2>2, PairOf
  <2>5. a \in Int /\ b \in Int /\ a * 10 + b = rest[i]
    <3>1. rest[i] \in 0..99 BY <1>4
    <3>2. \A x \in 0..99 : x \div 10 \in Int /\ x % 10 \in Int /\ (x \div 10) * 10 + (x % 10) = x
      OBVIOUS
    <3> QED BY <3>1, <3>2
  <2> HIDE DEF a, b
  <2>6. NumberOf(<<a, b>>, 10) = a * 10 + b BY <2>5, NumberOfTwo
  <2>7. w + 2 * i - 1 = p /\ w + 2 * i = p + 1 BY <2>2 DEF p
  <2> QED BY <1>3, <2>3, <2>4, <2>5, <2>6, <2>7 DEF ReadDecimal
<1> QED BY <1>12, <1>13, <1>14 DEF chars, digits, rest

\* A sequence behind one element.
LEMMA BehindOne ==
  ASSUME NEW A, NEW x \in A, NEW s \in Seq(A)
  PROVE  /\ <<x>> \o s \in Seq(A)
         /\ <<x>> \o s # <<>>
         /\ Len(<<x>> \o s) = Len(s) + 1
         /\ (<<x>> \o s)[1] = x
         /\ Tail(<<x>> \o s) = s
<1>1. <<x>> \in Seq(A) /\ Len(<<x>>) = 1 /\ <<x>>[1] = x OBVIOUS
<1> DEFINE e == <<x>>
           t == e \o s
<1>2. e \in Seq(A) /\ Len(e) = 1 /\ e[1] = x BY <1>1
<1> HIDE DEF e
<1>3. /\ t \in Seq(A)
      /\ Len(t) = 1 + Len(s)
      /\ t[1] = x
      /\ \A i \in 1..Len(s) : t[1 + i] = s[i]
  <2>1. /\ t \in Seq(A)
        /\ Len(t) = Len(e) + Len(s)
        /\ \A i \in 1..Len(e) : t[i] = e[i]
        /\ \A i \in 1..Len(s) : t[Len(e) + i] = s[i] BY <1>2, ConcatIs DEF IsConcat
  <2> HIDE DEF t
  <2> QED BY <1>2, <2>1
<1> HIDE DEF t
<1>4. Len(s) \in Nat /\ Len(t) # 0 BY <1>3
<1>5. t # <<>> BY <1>3, <1>4
<1>6. Tail(t) \in Seq(A) /\ Len(Tail(t)) = Len(s) /\ \A i \in 1..Len(s) : Tail(t)[i] = s[i]
  <2>1. Tail(t) \in Seq(A) /\ Len(Tail(t)) = Len(t) - 1 /\ \A i \in 1..Len(Tail(t)) : Tail(t)[i] = t[i + 1]
    BY <1>3, <1>5, HeadTailProperties
  <2>2. Len(Tail(t)) = Len(s) BY <1>3, <1>4, <2>1
  <2>3. \A i \in 1..Len(s) : i + 1 = 1 + i OBVIOUS
  <2> QED BY <1>3, <2>1, <2>2, <2>3
<1>7. Tail(t) = s BY <1>6, SeqEqual
<1> QED BY <1>3, <1>4, <1>5, <1>7 DEF t, e

----------------------------------------------------------------------------
(* The fields of a time *)

\* Six numbers.
IsSix(t) == t \in Seq(Nat) /\ Len(t) = 6

\* The fields are those of t.
ReadsAs(chars, w, t) ==
  /\ ReadDecimal(SubSeq(chars, 1, w)) = t[1]
  /\ \A i \in 1..5 : ReadDecimal(SubSeq(chars, w + 2 * i - 1, w + 2 * i)) = t[i + 1]

\* What is read is six fields.
LEMMA SixFields ==
  ASSUME NEW chars, NEW w, NEW t, IsSix(t), ReadsAs(chars, w, t)
  PROVE  ReadFields(chars, w) = t
<1> DEFINE r == [i \in 1..5 |-> ReadDecimal(SubSeq(chars, w + 2 * i - 1, w + 2 * i))]
           y == ReadDecimal(SubSeq(chars, 1, w))
<1>1. ReadFields(chars, w) = <<y>> \o r BY DEF ReadFields
<1>2. /\ \A i \in 1..5 : i + 1 \in 1..Len(t) /\ r[i] = t[i + 1]
      /\ \A i \in 1..Len(t) : t[i] \in Nat
  <2>1. \A i \in 1..5 : i + 1 \in 1..Len(t) BY DEF IsSix
  <2>2. \A i \in 1..Len(t) : t[i] \in Nat
    <3>1. t \in Seq(Nat) BY DEF IsSix
    <3> QED BY <3>1, ElementOfSeq
  <2> QED BY <2>1, <2>2 DEF ReadsAs
<1>3. r \in [1..5 -> Nat] /\ y \in Nat
  <2>1. \A i \in 1..5 : r[i] \in Nat
    <3> HIDE DEF r
    <3> QED BY <1>2
  <2>2. t[1] \in Nat
    <3>1. 1 \in 1..Len(t) BY DEF IsSix
    <3> QED BY <1>2, <3>1
  <2>3. y = t[1] BY DEF ReadsAs
  <2> QED BY <2>1, <2>2, <2>3
<1>y. y = t[1] BY DEF ReadsAs
<1> HIDE DEF r, y
<1>4. r \in Seq(Nat) /\ Len(r) = 5 BY <1>3, SeqFacts DEF IsList
<1> DEFINE e == <<y>>
           f == e \o r
<1>5. e \in Seq(Nat) /\ Len(e) = 1 /\ e[1] = y BY <1>3
<1> HIDE DEF e
<1>6. /\ f \in Seq(Nat)
      /\ Len(f) = Len(e) + Len(r)
      /\ \A i \in 1..Len(e) : f[i] = e[i]
      /\ \A i \in 1..Len(r) : f[Len(e) + i] = r[i]
  <2>1. e \in Seq(Nat) /\ r \in Seq(Nat) BY <1>4, <1>5
  <2>2. f \in Seq(Nat) /\ IsConcat(f, e, r) BY <2>1, ConcatIs
  <2> HIDE DEF f
  <2> QED BY <2>2 DEF IsConcat
<1> HIDE DEF f
<1>7. Len(f) = 6 BY <1>4, <1>5, <1>6
<1>8. f[1] = t[1] BY <1>5, <1>6, <1>y
<1>9. \A i \in 1..5 : f[i + 1] = t[i + 1]
  <2>1. \A i \in 1..5 : 1 + i = i + 1 OBVIOUS
  <2> QED
    <3>1. Len(e) = 1 /\ Len(r) = 5 BY <1>4, <1>5
    <3>2. \A i \in 1..5 : f[1 + i] = r[i] BY <1>6, <3>1
    <3> QED BY <1>2, <2>1, <3>2
<1>10. ASSUME NEW k \in 1..6
       PROVE  f[k] = t[k]
  <2>1. CASE k = 1 BY <1>8, <2>1
  <2>2. CASE k # 1
    <3>1. k - 1 \in 1..5 /\ (k - 1) + 1 = k BY <2>2
    <3> QED BY <1>9, <3>1
  <2> QED BY <2>1, <2>2
<1>11. f = t BY <1>6, <1>7, <1>10, SeqEqual DEF IsSix
<1> QED BY <1>1, <1>11 DEF f, e

\* Two characters that are digits are a number.
LEMMA TwoDigitsAreRead ==
  ASSUME NEW chars \in Seq(Int), NEW p \in 1..Len(chars), p + 1 \in 1..Len(chars),
         chars[p] \in 0..9, chars[p + 1] \in 0..9
  PROVE  ReadDecimal(SubSeq(chars, p, p + 1)) \in Nat
<1> DEFINE a == chars[p]
           b == chars[p + 1]
<1>1. SubSeq(chars, p, p + 1) = <<a, b>> BY PairOf
<1>2. a \in 0..9 /\ b \in 0..9 OBVIOUS
<1> HIDE DEF a, b
<1>3. NumberOf(<<a, b>>, 10) = a * 10 + b BY <1>2, NumberOfTwo
<1>4. a * 10 + b \in Nat BY <1>2
<1> QED BY <1>1, <1>3, <1>4 DEF ReadDecimal

\* The first four characters of a text.
LEMMA FourOf ==
  ASSUME NEW chars \in Seq(Int), Len(chars) >= 4
  PROVE  SubSeq(chars, 1, 4) = <<chars[1], chars[2], chars[3], chars[4]>>
<1> DEFINE d == [i \in 1..4 |-> chars[1 + i - 1]]
<1>1. SubSeq(chars, 1, 4) = d OBVIOUS
<1>2. d = <<d[1], d[2], d[3], d[4]>> OBVIOUS
<1>3. d[1] = chars[1] /\ d[2] = chars[2] /\ d[3] = chars[3] /\ d[4] = chars[4]
  <2>1. 1 + 1 - 1 = 1 /\ 1 + 2 - 1 = 2 /\ 1 + 3 - 1 = 3 /\ 1 + 4 - 1 = 4 OBVIOUS
  <2> QED BY <2>1
<1> QED BY <1>1, <1>2, <1>3

\* A text of the length of a time, with its digits.
IsTimeText(chars, w) ==
  /\ w = 2 \/ w = 4
  /\ chars \in Seq(0..Zulu) /\ Len(chars) = w + 11
  /\ \A i \in 1..(w + 10) : chars[i] \in 0..9

\* The characters of a time that is received are read as six numbers.
LEMMA DigitsAreFields ==
  ASSUME NEW w, NEW chars, IsTimeText(chars, w)
  PROVE  ReadFields(chars, w) \in Seq(Nat) /\ Len(ReadFields(chars, w)) = 6
<1>1. /\ w = 2 \/ w = 4
      /\ Len(chars) = w + 11
      /\ \A i \in 1..(w + 10) : chars[i] \in 0..9 BY DEF IsTimeText
<1>2. chars \in Seq(Int)
  <2>1. chars \in Seq(0..Zulu) BY DEF IsTimeText
  <2> QED BY <2>1 DEF Zulu
<1>3. ReadDecimal(SubSeq(chars, 1, w)) \in Nat
  <2>1. CASE w = 2
    <3>1. 1 \in 1..Len(chars) /\ 1 + 1 \in 1..Len(chars) /\ 1 \in 1..(w + 10) /\ 1 + 1 \in 1..(w + 10)
      BY <1>1, <2>1
    <3>2. ReadDecimal(SubSeq(chars, 1, 1 + 1)) \in Nat BY <1>1, <1>2, <3>1, TwoDigitsAreRead
    <3> QED BY <2>1, <3>2
  <2>2. CASE w = 4
    <3> DEFINE a == chars[1]
               b == chars[2]
               c == chars[3]
               d == chars[4]
    <3>1. a \in 0..9 /\ b \in 0..9 /\ c \in 0..9 /\ d \in 0..9 BY <1>1, <2>2
    <3>2. SubSeq(chars, 1, 4) = <<a, b, c, d>> BY <1>1, <1>2, <2>2, FourOf
    <3> HIDE DEF a, b, c, d
    <3>3. NumberOf(<<a, b, c, d>>, 10) = ((a * 10 + b) * 10 + c) * 10 + d BY <3>1, NumberOfFour
    <3>4. ((a * 10 + b) * 10 + c) * 10 + d \in Nat BY <3>1
    <3> QED BY <2>2, <3>2, <3>3, <3>4 DEF ReadDecimal
  <2> QED BY <1>1, <2>1, <2>2
<1>4. ASSUME NEW i \in 1..5
      PROVE  ReadDecimal(SubSeq(chars, w + 2 * i - 1, w + 2 * i)) \in Nat
  <2> DEFINE p == w + 2 * i - 1
  <2>1. p + 1 = w + 2 * i /\ p \in 1..Len(chars) /\ p + 1 \in 1..Len(chars) /\ p \in 1..(w + 10) /\ p + 1 \in 1..(w + 10)
    BY <1>1
  <2> HIDE DEF p
  <2>2. ReadDecimal(SubSeq(chars, p, p + 1)) \in Nat BY <1>1, <1>2, <2>1, TwoDigitsAreRead
  <2> QED BY <2>1, <2>2 DEF p
<1> DEFINE t == [k \in 1..6 |-> IF k = 1 THEN ReadDecimal(SubSeq(chars, 1, w))
                                ELSE ReadDecimal(SubSeq(chars, w + 2 * (k - 1) - 1, w + 2 * (k - 1)))]
<1>5. t \in [1..6 -> Nat]
  <2>1. ASSUME NEW k \in 1..6
        PROVE  t[k] \in Nat
    <3>1. CASE k = 1 BY <1>3, <3>1
    <3>2. CASE k # 1
      <4>1. k - 1 \in 1..5 BY <3>2
      <4> QED BY <1>4, <3>2, <4>1
    <3> QED BY <3>1, <3>2
  <2> QED BY <2>1
<1>6. ReadDecimal(SubSeq(chars, 1, w)) = t[1] OBVIOUS
<1>7. \A i \in 1..5 : ReadDecimal(SubSeq(chars, w + 2 * i - 1, w + 2 * i)) = t[i + 1]
  <2>1. \A i \in 1..5 : i + 1 \in 1..6 /\ i + 1 # 1 /\ (i + 1) - 1 = i OBVIOUS
  <2> QED BY <2>1
<1> HIDE DEF t
<1>8. t \in Seq(Nat) /\ Len(t) = 6
  <2>1. IsList(t, 6, Nat) BY <1>5 DEF IsList
  <2> QED BY <2>1, SeqFacts
<1>9. ReadFields(chars, w) = t BY <1>6, <1>7, <1>8, SixFields DEF ReadsAs, IsSix
<1> QED BY <1>8, <1>9

\* A value comes back from every encoding of it.
Back(v) == \A e \in EncodingsOf(v) : e.ok /\ \A w \in ValuesOf(e.value) : w = Ok(v)

LEMMA SurvivesWhen ==
  ASSUME IInv, first.ok => first = Ok(first.value) /\ Back(first.value)
  PROVE  Survives
<1>1. ASSUME phase = "decoded"
      PROVE  value = first
  <2>1. first.ok /\ octets \in EncodingsOf(first.value) /\ value \in ValuesOf(octets.value)
    BY <1>1 DEF IInv, WasDecoded
  <2>2. Back(first.value) /\ first = Ok(first.value) BY <2>1
  <2> QED BY <2>1, <2>2 DEF Back
<1>2. ASSUME phase = "failed", first.ok
      PROVE  FALSE
  <2>1. ~octets.ok /\ octets \in EncodingsOf(first.value) BY <1>2 DEF IInv, HasFailed
  <2>2. Back(first.value) BY <1>2
  <2> QED BY <2>1, <2>2 DEF Back
<1> QED BY <1>1, <1>2 DEF Survives

\* Where the first value came from.
LEMMA FirstIs ==
  ASSUME IInv, first.ok
  PROVE  /\ type \in Types
         /\ \/ \E v \in Values[type] : first = Ok(v)
            \/ \E o \in Received[type] : first \in ValuesOf(o)
  BY DEF IInv, HasValue, HasOctets, WasDecoded, HasFailed, IsFirst, Ok, Failed

----------------------------------------------------------------------------
(* BOOLEAN and BIT STRING *)

LEMMA Bases ==
  /\ Base \in Nat /\ Base >= 4
  /\ SignBit \in Nat /\ SignBit >= 2 /\ Base = 2 * SignBit
  /\ CHAR_BIT \in Nat /\ CHAR_BIT >= 2
<1>1. CHAR_BIT \in Nat /\ CHAR_BIT >= 2 /\ CHAR_BIT - 1 \in Nat /\ (CHAR_BIT - 1) + 1 = CHAR_BIT
  BY WidthsAssumption
<1>2. SignBit \in Nat \ {0} /\ Base = 2 * SignBit BY <1>1, PowerOfTwo DEF Base, SignBit
<1>3. 2^1 <= 2^(CHAR_BIT - 1)
  <2>1. 1 <= CHAR_BIT - 1 /\ 1 \in Nat BY <1>1
  <2> QED BY <1>1, <2>1, PowersGrow
<1>4. 2^1 = 2 OBVIOUS
<1> QED BY <1>1, <1>2, <1>3, <1>4 DEF SignBit

LEMMA Octets ==
  Octet \subseteq Int /\ Octet \subseteq Nat
<1>1. \A b \in Nat : 0..(b - 1) \subseteq Int /\ 0..(b - 1) \subseteq Nat OBVIOUS
<1>2. Base \in Nat BY Bases
<1> QED BY <1>1, <1>2 DEF Octet

LEMMA BooleansSurvive ==
  ASSUME IInv, Is("BOOLEAN")
  PROVE  Survives
<1> USE DEF Ok, Failed
<1>1. ASSUME first.ok
      PROVE  first = Ok(first.value) /\ first.value \in BOOLEAN
  <2>1. CASE \E v \in Values[type] : first = Ok(v)
    <3>1. PICK v \in Values[type] : first = Ok(v) BY <2>1
    <3>2. v \in BOOLEAN BY <1>1, FirstIs, ValuesAssumption DEF Is
    <3>3. first.value = v BY <3>1
    <3> QED BY <3>1, <3>2, <3>3, Zenon
  <2>2. CASE \E o \in Received[type] : first \in ValuesOf(o)
    <3>1. PICK o \in Received[type] : first \in ValuesOf(o) BY <2>2
    <3>2. first = int_asn1_decode_boolean(o) BY <3>1 DEF Is, ValuesOf
    <3> DEFINE v == o[1] # 0
    <3>3. v \in BOOLEAN OBVIOUS
    <3>4. Len(o) = 1 /\ first = Ok(v)
      <4> HIDE DEF v
      <4>1. first = IF Len(o) = 1 THEN Ok(v) ELSE Failed
        BY <3>2, Zenon DEF int_asn1_decode_boolean, v
      <4> QED BY <1>1, <4>1
    <3> HIDE DEF v
    <3>5. first.value = v BY <3>4
    <3> QED BY <3>3, <3>4, <3>5, Zenon
  <2> QED BY <1>1, <2>1, <2>2, FirstIs
<1>2. ASSUME NEW v \in BOOLEAN
      PROVE  Back(v)
  <2>1. Base - 1 # 0 BY Bases
  <2>2. EncodingsOf(v) = {Ok(int_asn1_encode_boolean(v))} BY DEF EncodingsOf, Is
  <2>3. \A o : ValuesOf(o) = {int_asn1_decode_boolean(o)} BY DEF ValuesOf, Is
  <2>4. int_asn1_decode_boolean(int_asn1_encode_boolean(v)) = Ok(v)
    BY <2>1 DEF int_asn1_encode_boolean, int_asn1_decode_boolean
  <2> QED BY <2>2, <2>3, <2>4 DEF Back
<1> QED BY <1>1, <1>2, SurvivesWhen

LEMMA FirstOfSeq ==
  ASSUME NEW A, NEW s \in Seq(A), s # <<>>
  PROVE  Len(s) \in Nat \ {0} /\ 1 \in 1..Len(s) /\ s[1] \in A
<1>1. Len(s) \in Nat \ {0} BY EmptySeq
<1>2. 1 \in 1..Len(s) BY <1>1
<1>3. s[1] \in A BY <1>2, ElementOfSeq
<1> QED BY <1>1, <1>2, <1>3

LEMMA BitStringsSurvive ==
  ASSUME IInv, Is("BIT STRING"), first.ok => first.value.unused_bits \in 0..CHAR_BIT - 1
  PROVE  Survives
<1> DEFINE BitString == [unused_bits : Int, bits : Seq(Octet)]
<1>1. ASSUME first.ok
      PROVE  first = Ok(first.value) /\ first.value \in BitString
  <2>1. CASE \E v \in Values[type] : first = Ok(v)
    <3>1. PICK v \in Values[type] : first = Ok(v) BY <2>1
    <3>2. v \in BitString BY <1>1, <3>1, FirstIs, ValuesAssumption DEF Is
    <3> QED BY <3>1, <3>2 DEF Ok
  <2>2. CASE \E o \in Received[type] : first \in ValuesOf(o)
    <3>1. PICK o \in Received[type] : first \in ValuesOf(o) BY <2>2
    <3>2. o \in Seq(Octet) BY <1>1, FirstIs, ReceivedAssumption DEF Is
    <3>3. first = int_asn1_decode_bit_string(o) BY <3>1 DEF ValuesOf, Is
    <3>4. o # <<>> /\ first = Ok([unused_bits |-> o[1], bits |-> Tail(o)])
      BY <1>1, <3>3 DEF int_asn1_decode_bit_string, Failed
    <3>5. o[1] \in Octet /\ Tail(o) \in Seq(Octet)
      <4>2. o[1] \in Octet BY <3>2, <3>4, FirstOfSeq
      <4>3. Tail(o) \in Seq(Octet) BY <3>2, <3>4, HeadTailProperties
      <4> QED BY <4>2, <4>3
    <3>6. Octet \subseteq Int BY Octets
    <3> QED BY <3>4, <3>5, <3>6 DEF Ok
  <2> QED BY <1>1, <2>1, <2>2, FirstIs
<1>2. ASSUME NEW v \in BitString, v.unused_bits \in 0..CHAR_BIT - 1
      PROVE  Back(v)
  <2> DEFINE u == v.unused_bits
             b == v.bits
             o == <<u>> \o b
  <2>1. EncodingsOf(v) = {int_asn1_encode_bit_string(v)} BY DEF EncodingsOf, Is
  <2>2. \A w : ValuesOf(w) = {int_asn1_decode_bit_string(w)} BY DEF ValuesOf, Is
  <2>3. int_asn1_encode_bit_string(v) = Ok(o)
    BY <1>2 DEF int_asn1_encode_bit_string, int_check_unused_bits
  <2>4. u \in Int /\ b \in Seq(Octet) /\ v = [unused_bits |-> u, bits |-> b] OBVIOUS
  <2>5. b \in Seq(Int)
    <3> HIDE DEF b
    <3> QED BY <2>4, Octets, SeqMonotonic
  <2> HIDE DEF u, b
  <2>6. o # <<>> /\ o[1] = u /\ Tail(o) = b BY <2>4, <2>5, BehindOne
  <2> HIDE DEF o
  <2>7. int_asn1_decode_bit_string(o) = Ok([unused_bits |-> u, bits |-> b])
    BY <1>2, <2>6 DEF int_asn1_decode_bit_string, int_check_unused_bits, u
  <2>8. Ok(o).ok /\ Ok(o).value = o BY DEF Ok
  <2> QED BY <2>1, <2>2, <2>3, <2>4, <2>7, <2>8 DEF Back
<1> HIDE DEF BitString
<1> QED BY <1>1, <1>2, SurvivesWhen

----------------------------------------------------------------------------
(* UTC TIME and GENERALIZED TIME *)

LEMMA PivotYear ==
  ASSUME NEW n \in Nat
  PROVE  Pivot(n) \in Nat
<1>1. Pivot(n) = n + 2000 \/ Pivot(n) = n + 1900 BY DEF Pivot
<1> QED BY <1>1

LEMMA SixWithYear ==
  ASSUME NEW f, IsSix(f)
  PROVE  /\ f[1] \in Nat
         /\ \A y \in Nat : IsSix([f EXCEPT ![1] = y])
<1>1. f \in Seq(Nat) BY DEF IsSix
<1>2. 1 \in 1..Len(f) BY DEF IsSix
<1>3. f[1] \in Nat BY <1>1, <1>2, ElementOfSeq
<1>4. ASSUME NEW y \in Nat
      PROVE  IsSix([f EXCEPT ![1] = y])
  <2>1. [f EXCEPT ![1] = y] \in Seq(Nat) /\ Len([f EXCEPT ![1] = y]) = Len(f)
    BY <1>1, <1>2, ExceptSeq
  <2> QED BY <2>1 DEF IsSix
<1> QED BY <1>3, <1>4

LEMMA DigitsAreText ==
  ASSUME NEW o \in Seq(0..Zulu)
  PROVE  /\ HasDigits(o, 12) /\ Len(o) = 13 => IsTimeText(o, 2)
         /\ HasDigits(o, 14) /\ Len(o) = 15 => IsTimeText(o, 4)
<1>1. ASSUME HasDigits(o, 12), Len(o) = 13
      PROVE  IsTimeText(o, 2)
  <2>1. Len(o) = 12 + 1 /\ Len(o) = 2 + 11 /\ 12 = 2 + 10 BY <1>1
  <2>2. \A i \in 1..12 : o[i] \in 0..9 BY <1>1, <2>1 DEF HasDigits
  <2> QED BY <2>1, <2>2 DEF IsTimeText
<1>2. ASSUME HasDigits(o, 14), Len(o) = 15
      PROVE  IsTimeText(o, 4)
  <2>1. Len(o) = 14 + 1 /\ Len(o) = 4 + 11 /\ 14 = 4 + 10 BY <1>2
  <2>2. \A i \in 1..14 : o[i] \in 0..9 BY <1>2, <2>1 DEF HasDigits
  <2> QED BY <2>1, <2>2 DEF IsTimeText
<1> QED BY <1>1, <1>2

LEMMA TimesAreFirst ==
  ASSUME IInv, Is("UTC TIME") \/ Is("GENERALIZED TIME"), first.ok
  PROVE  first = Ok(first.value) /\ IsFields(first.value)
<1>1. CASE \E v \in Values[type] : first = Ok(v)
  <2>1. PICK v \in Values[type] : first = Ok(v) BY <1>1
  <2>2. IsTime(v) BY FirstIs, ValuesAssumption, ZenonT(60) DEF Is
  <2>3. IsFields(v) BY <2>2, TimesHaveFields DEF IsTime
  <2> QED BY <2>1, <2>3 DEF Ok
<1>2. CASE Is("UTC TIME") /\ \E o \in Received[type] : first \in ValuesOf(o)
  <2>1. PICK o \in Received[type] : first \in ValuesOf(o) BY <1>2
  <2>2. o \in Seq(0..Zulu) /\ HasDigits(o, 12) BY <1>2, FirstIs, ReceivedAssumption DEF Is
  <2>3. first = int_parse_utc_time(o) BY <1>2, <2>1 DEF ValuesOf, Is
  <2> DEFINE f == ReadFields(o, 2)
             t == [f EXCEPT ![1] = Pivot(f[1])]
  <2>4. Len(o) = 13 BY <2>3 DEF int_parse_utc_time, Failed
  <2>5. first = TimeUtc(t) BY <2>3, <2>4 DEF int_parse_utc_time
  <2>6. IsTimeText(o, 2) BY <2>2, <2>4, DigitsAreText
  <2>7. IsSix(f) BY <2>6, DigitsAreFields DEF IsSix
  <2> HIDE DEF f
  <2>8. IsSix(t)
    <3>1. f[1] \in Nat BY <2>7, SixWithYear
    <3>2. Pivot(f[1]) \in Nat BY <3>1, PivotYear
    <3> QED BY <2>7, <3>2, SixWithYear
  <2> HIDE DEF t
  <2>9. first = Ok(t) /\ IsFields(t) BY <2>5, <2>8, TimesHaveFields DEF IsSix
  <2> QED BY <2>9 DEF Ok
<1>3. CASE Is("GENERALIZED TIME") /\ \E o \in Received[type] : first \in ValuesOf(o)
  <2>1. PICK o \in Received[type] : first \in ValuesOf(o) BY <1>3
  <2>2. o \in Seq(0..Zulu) /\ HasDigits(o, 14) BY <1>3, FirstIs, ReceivedAssumption DEF Is
  <2>3. first = int_parse_generalized_time(o) BY <1>3, <2>1 DEF ValuesOf, Is
  <2> DEFINE t == ReadFields(o, 4)
  <2>4. Len(o) = 15 BY <2>3 DEF int_parse_generalized_time, Failed
  <2>5. first = TimeUtc(t) BY <2>3, <2>4 DEF int_parse_generalized_time
  <2>6. IsTimeText(o, 4) BY <2>2, <2>4, DigitsAreText
  <2>7. IsSix(t) BY <2>6, DigitsAreFields DEF IsSix
  <2> HIDE DEF t
  <2>8. first = Ok(t) /\ IsFields(t) BY <2>5, <2>7, TimesHaveFields DEF IsSix
  <2> QED BY <2>8 DEF Ok
<1> QED BY <1>1, <1>2, <1>3, FirstIs

LEMMA WholeSeq ==
  ASSUME NEW A, NEW s \in Seq(A)
  PROVE  SubSeq(s, 1, Len(s)) = s
<1> DEFINE t == SubSeq(s, 1, Len(s))
<1>1. t = [i \in 1..Len(s) |-> s[i]] OBVIOUS
<1>2. s = [i \in 1..Len(s) |-> s[i]] OBVIOUS
<1> QED BY <1>1, <1>2

\* A text that is read as the time t.
TextReads(chars, w, t) == /\ chars \in Seq(0..Zulu) /\ Len(chars) = w + 11
                          /\ ReadFields(chars, w) = t

\* What is written of a time, with a year of w digits, is read again.
LEMMA TimeText ==
  ASSUME NEW t, IsFields(t), NEW y, NEW w, IsList(y, w, 0..9), w = 2 \/ w = 4,
         NEW u, IsSix(u), ReadDecimal(y) = u[1], \A i \in 1..5 : u[i + 1] = t[i + 1]
  PROVE  TextReads(y \o TwoDigits(Tail(t)) \o <<Zulu>>, w, u)
<1> DEFINE chars == y \o TwoDigits(Tail(t)) \o <<Zulu>>
<1>1. y \in Seq(0..9) /\ Len(y) = w
  <2>1. w \in Nat OBVIOUS
  <2> QED BY <2>1, SeqFacts
<1>2. /\ chars \in Seq(0..Zulu) /\ Len(chars) = w + 11
      /\ SubSeq(chars, 1, w) = y
      /\ \A i \in 1..5 : ReadDecimal(SubSeq(chars, w + 2 * i - 1, w + 2 * i)) = t[i + 1]
  BY <1>1, FieldsAreRead
<1> HIDE DEF chars
<1>3. ReadsAs(chars, w, u) BY <1>2 DEF ReadsAs
<1>4. ReadFields(chars, w) = u BY <1>3, SixFields
<1> QED BY <1>2, <1>4 DEF chars, TextReads

LEMMA FourDigitNumber ==
  ASSUME NEW n \in Int, 0 <= n, n <= 9999
  PROVE  ((((n \div 1000) % 10) * 10 + ((n \div 100) % 10)) * 10 + ((n \div 10) % 10)) * 10 + (n % 10) = n
<1>1. n \div 10 \in Int /\ n = (n \div 10) * 10 + (n % 10) OBVIOUS
<1>2. n \div 10 = (n \div 100) * 10 + ((n \div 10) % 10) OBVIOUS
<1>3. n \div 100 = (n \div 1000) * 10 + ((n \div 100) % 10) OBVIOUS
<1>4. n \div 1000 \in Int /\ 0 <= n \div 1000 /\ n \div 1000 <= 9 OBVIOUS
<1>5. n \div 1000 = (n \div 1000) % 10 BY <1>4
<1> QED BY <1>1, <1>2, <1>3, <1>5

\* A year is four digits.
LEMMA FourDecimals ==
  ASSUME NEW n \in Int, 0 <= n, n <= 9999
  PROVE  /\ IsList(Decimal(n, 4), 4, 0..9)
         /\ ReadDecimal(Decimal(n, 4)) = n
<1>1. 10^3 = 1000 /\ 10^2 = 100 /\ 10^1 = 10 /\ 10^0 = 1 OBVIOUS
<1> DEFINE d == [i \in 1..4 |-> (n \div 10^(4 - i)) % 10]
           a == (n \div 1000) % 10
           b == (n \div 100) % 10
           c == (n \div 10) % 10
           e == n % 10
<1>2. d[1] = a /\ d[2] = b /\ d[3] = c /\ d[4] = e
  <2>1. 4 - 1 = 3 /\ 4 - 2 = 2 /\ 4 - 3 = 1 /\ 4 - 4 = 0 /\ n \div 1 = n OBVIOUS
  <2>2. d[1] = (n \div 10^3) % 10 /\ d[2] = (n \div 10^2) % 10 /\ d[3] = (n \div 10^1) % 10 /\ d[4] = (n \div 10^0) % 10
    BY <2>1
  <2> QED BY <1>1, <2>1, <2>2
<1>3. d = <<d[1], d[2], d[3], d[4]>> OBVIOUS
<1>4. a \in 0..9 /\ b \in 0..9 /\ c \in 0..9 /\ e \in 0..9 OBVIOUS
<1>5. ((a * 10 + b) * 10 + c) * 10 + e = n BY FourDigitNumber
<1>6. Decimal(n, 4) = d BY DEF Decimal
<1> HIDE DEF d, a, b, c, e
<1>7. NumberOf(<<a, b, c, e>>, 10) = ((a * 10 + b) * 10 + c) * 10 + e BY <1>4, NumberOfFour
<1>8. IsList(d, 4, 0..9)
  <2>1. \A i \in 1..4 : d[i] \in 0..9 BY <1>2, <1>4
  <2>2. d = [i \in 1..4 |-> d[i]] BY DEF d
  <2> QED BY <2>1, <2>2 DEF IsList
<1> QED BY <1>2, <1>3, <1>5, <1>6, <1>7, <1>8 DEF ReadDecimal

LEMMA TwoDecimalsAreRead ==
  ASSUME NEW n \in 0..99
  PROVE  /\ IsList(Decimal(n, 2), 2, 0..9)
         /\ ReadDecimal(Decimal(n, 2)) = n
<1> DEFINE a == n \div 10
           b == n % 10
<1>1. Decimal(n, 2) = <<a, b>> /\ a \in 0..9 /\ b \in 0..9 BY TwoDecimals
<1>2. a * 10 + b = n OBVIOUS
<1> HIDE DEF a, b
<1>3. NumberOf(<<a, b>>, 10) = a * 10 + b BY <1>1, NumberOfTwo
<1>4. IsList(<<a, b>>, 2, 0..9) BY <1>1 DEF IsList
<1> QED BY <1>1, <1>2, <1>3, <1>4 DEF ReadDecimal

IsUtcTime == Is("UTC TIME")

IsGeneralizedTime == Is("GENERALIZED TIME")

\* The years that two and four digits can express.
HasUtcYear(t) == t[1] \in 1970..2068

HasFourDigits(t) == t[1] \in 1970..9999

LEMMA UtcBack ==
  ASSUME IsUtcTime, NEW v, IsFields(v), HasUtcYear(v)
  PROVE  Back(v)
<1> DEFINE n == v[1] % 100
           y == Decimal(n, 2)
           u == [v EXCEPT ![1] = n]
           o == y \o TwoDigits(Tail(v)) \o <<Zulu>>
<1>1. EncodingsOf(v) = {int_encode_utc_time(v)} BY DEF EncodingsOf, Is, IsUtcTime
<1>2. \A x : ValuesOf(x) = {int_parse_utc_time(x)} BY DEF ValuesOf, Is, IsUtcTime
<1>3. int_encode_utc_time(v) = Ok(o) BY DEF int_encode_utc_time, int_as_time_t, HasUtcYear
<1>4. n \in 0..99 /\ n \in Nat /\ Pivot(n) = v[1]
  <2>1. \A x \in 1970..2068 : /\ x % 100 \in 0..99
                              /\ x % 100 < 69 => (x % 100) + 2000 = x
                              /\ ~(x % 100 < 69) => (x % 100) + 1900 = x OBVIOUS
  <2>2. Pivot(n) = IF n < 69 THEN n + 2000 ELSE n + 1900 BY DEF Pivot
  <2>3. n \in 0..99 /\ (n < 69 => n + 2000 = v[1]) /\ (~(n < 69) => n + 1900 = v[1])
    BY <2>1 DEF HasUtcYear
  <2> HIDE DEF n
  <2> QED BY <2>2, <2>3
<1> HIDE DEF n
<1>5. IsList(y, 2, 0..9) /\ ReadDecimal(y) = n BY <1>4, TwoDecimalsAreRead
<1>6. IsSix(v) BY DEF IsFields, IsSix
<1>7. IsSix(u) BY <1>4, <1>6, SixWithYear
<1>8. u[1] = n /\ (\A i \in 1..5 : u[i + 1] = v[i + 1]) /\ [u EXCEPT ![1] = v[1]] = v
  <2>1. v \in Seq(Nat) /\ 1 \in 1..Len(v) BY <1>6 DEF IsSix
  <2>2. DOMAIN v = 1..Len(v) /\ v \in [1..Len(v) -> Nat] BY <2>1, LenProperties
  <2>3. \A i \in 1..5 : i + 1 # 1 /\ i + 1 \in 1..Len(v) BY <1>6 DEF IsSix
  <2> QED BY <2>1, <2>2, <2>3
<1> HIDE DEF y, u
<1>9. TextReads(o, 2, u) BY <1>5, <1>7, <1>8, TimeText
<1> HIDE DEF o
<1>10. int_parse_utc_time(o) = TimeUtc([u EXCEPT ![1] = Pivot(u[1])])
  <2>1. Len(o) = 13 /\ ReadFields(o, 2) = u BY <1>9 DEF TextReads
  <2> QED BY <2>1 DEF int_parse_utc_time
<1>11. int_parse_utc_time(o) = TimeUtc(v) BY <1>4, <1>8, <1>10
<1>12. TimeUtc(v) = Ok(v) BY <1>6, TimesHaveFields DEF IsSix
<1>13. Ok(o).ok /\ Ok(o).value = o BY DEF Ok
<1> QED BY <1>1, <1>2, <1>3, <1>11, <1>12, <1>13 DEF Back

LEMMA UtcTimesSurvive ==
  ASSUME IInv, IsUtcTime, first.ok => HasUtcYear(first.value)
  PROVE  Survives
  BY UtcBack, TimesAreFirst, SurvivesWhen DEF IsUtcTime

LEMMA GeneralizedBack ==
  ASSUME IsGeneralizedTime, NEW v, IsFields(v), HasFourDigits(v)
  PROVE  Back(v)
<1> DEFINE n == v[1]
           y == Decimal(n, 4)
           o == y \o TwoDigits(Tail(v)) \o <<Zulu>>
<1>1. EncodingsOf(v) = {int_encode_generalized_time(v)} BY DEF EncodingsOf, Is, IsGeneralizedTime
<1>2. \A x : ValuesOf(x) = {int_parse_generalized_time(x)} BY DEF ValuesOf, Is, IsGeneralizedTime
<1>3. n \in Int /\ 0 <= n /\ n <= 9999 /\ n >= 1970 /\ ~(n > 9999)
  <2>1. v[1] \in 1970..9999 BY SMTT(30) DEF HasFourDigits
  <2> HIDE DEF y, o
  <2>2. n \in 1970..9999 BY <2>1
  <2> HIDE DEF n
  <2> QED BY <2>2, SMTT(30)
<1> HIDE DEF n
<1>4. int_encode_generalized_time(v) = Ok(SubSeq(o, 1, 15))
  BY <1>3 DEF int_encode_generalized_time, int_as_time_t, n
<1>5. IsList(y, 4, 0..9) /\ ReadDecimal(y) = n BY <1>3, FourDecimals
<1>6. IsSix(v) BY DEF IsFields, IsSix
<1> HIDE DEF y
<1>9. TextReads(o, 4, v) BY <1>5, <1>6, TimeText DEF n
<1> HIDE DEF o
<1>10. int_parse_generalized_time(o) = TimeUtc(v)
  BY <1>9 DEF int_parse_generalized_time, TextReads
<1>11. SubSeq(o, 1, 15) = o
  <2>1. o \in Seq(0..Zulu) /\ Len(o) = 15 BY <1>9 DEF TextReads
  <2> QED BY <2>1, WholeSeq
<1>12. TimeUtc(v) = Ok(v) BY <1>6, TimesHaveFields DEF IsSix
<1>13. Ok(o).ok /\ Ok(o).value = o BY DEF Ok
<1> QED BY <1>1, <1>2, <1>4, <1>10, <1>11, <1>12, <1>13 DEF Back

LEMMA GeneralizedTimesSurvive ==
  ASSUME IInv, IsGeneralizedTime, first.ok => HasFourDigits(first.value)
  PROVE  Survives
  BY GeneralizedBack, TimesAreFirst, SurvivesWhen DEF IsGeneralizedTime

IsBitString == Is("BIT STRING")

LEMMA Expressions ==
  Expressible => \/ Is("BOOLEAN")
                 \/ IsBitString /\ first.value.unused_bits \in 0..CHAR_BIT - 1
                 \/ IsUtcTime /\ HasUtcYear(first.value)
                 \/ IsGeneralizedTime /\ HasFourDigits(first.value)
<1>1. Expressible = CASE Is("BOOLEAN")   -> TRUE
                      [] IsBitString     -> first.value.unused_bits \in 0..CHAR_BIT - 1
                      [] IsUtcTime       -> HasUtcYear(first.value)
                      [] IsGeneralizedTime -> HasFourDigits(first.value)
                      [] OTHER           -> FALSE
  BY Zenon DEF Expressible, IsBitString, IsUtcTime, IsGeneralizedTime, HasUtcYear, HasFourDigits
<1> QED BY <1>1

\* BOOLEAN, BIT STRING and the times that the type can express come back as
\* they were, also those that were decoded from octets of someone else.
THEOREM ValuesAlwaysSurvive ==
  Spec => []ValuesSurvive
<1>1. ASSUME IInv, first.ok, Expressible
      PROVE  Survives
  <2>1. CASE Is("BOOLEAN") BY <1>1, <2>1, BooleansSurvive
  <2>2. CASE IsBitString /\ first.value.unused_bits \in 0..CHAR_BIT - 1
    BY <1>1, <2>2, BitStringsSurvive DEF IsBitString
  <2>3. CASE IsUtcTime /\ HasUtcYear(first.value) BY <1>1, <2>3, UtcTimesSurvive
  <2>4. CASE IsGeneralizedTime /\ HasFourDigits(first.value)
    BY <1>1, <2>4, GeneralizedTimesSurvive
  <2> QED BY <1>1, <2>1, <2>2, <2>3, <2>4, Expressions
<1>2. IInv => ValuesSurvive BY <1>1 DEF ValuesSurvive
<1> QED BY <1>2, History, PTL

----------------------------------------------------------------------------
(* What is defined step by step *)

\* A function that takes each of the steps from a value that it can take.
Obeys(c, n, A, init, step) ==
  /\ c = [i \in 0..n |-> c[i]]
  /\ c[0] = init
  /\ \A i \in 1..n : c[i - 1] \in A => c[i] = step[<<i, c[i - 1]>>]

LEMMA ObeysGoes ==
  ASSUME NEW n \in Nat, NEW A, NEW init \in A, NEW step, IsStep(step, n, A),
         NEW c, Obeys(c, n, A, init, step)
  PROVE  Goes(c, n, A, init, step)
<1> DEFINE S == {i \in Nat : i <= n => c[i] \in A}
<1>1. 0 \in S BY DEF Obeys
<1>2. ASSUME NEW i \in Nat, i \in S
      PROVE  i + 1 \in S
  <2> SUFFICES ASSUME i + 1 <= n PROVE c[i + 1] \in A OBVIOUS
  <2>1. c[i] \in A /\ i + 1 \in 1..n /\ (i + 1) - 1 = i BY <1>2
  <2>2. c[i + 1] = step[<<i + 1, c[i]>>] BY <2>1 DEF Obeys
  <2> QED BY <2>1, <2>2 DEF IsStep
<1>3. Nat \subseteq S
  <2> HIDE DEF S
  <2> QED BY <1>1, <1>2, StepInduction
<1>4. \A i \in 0..n : c[i] \in A BY <1>3
<1>5. c \in [0..n -> A] BY <1>4 DEF Obeys
<1>6. \A i \in 1..n : i - 1 \in 0..n OBVIOUS
<1> QED BY <1>4, <1>5, <1>6 DEF Goes, Obeys

----------------------------------------------------------------------------
(* The significant characters of a text *)

NoPad(text) == \A j \in 1..Len(text) : text[j] # TextCodec!Pad

SignificantStep(text) ==
  [p \in (1..Len(text)) \X Seq(0..63) |->
     IF text[p[1]] \in 0..63 /\ \A j \in 1..p[1] : text[j] # TextCodec!Pad THEN Append(p[2], text[p[1]]) ELSE p[2]]

LEMMA SignificantSteps ==
  ASSUME NEW text
  PROVE  /\ IsStep(SignificantStep(text), Len(text), Seq(0..63))
         /\ \A i \in 1..Len(text), s \in Seq(0..63) :
              SignificantStep(text)[<<i, s>>]
              = IF text[i] \in 0..63 /\ \A j \in 1..i : text[j] # TextCodec!Pad THEN Append(s, text[i]) ELSE s
<1> DEFINE A == 0..63
           step == SignificantStep(text)
           n == Len(text)
           Takes(i) == text[i] \in A /\ \A j \in 1..i : text[j] # TextCodec!Pad
<1>0. step = [p \in (1..n) \X Seq(A) |-> IF Takes(p[1]) THEN Append(p[2], text[p[1]]) ELSE p[2]]
  BY DEF SignificantStep
<1>1. \A i : Takes(i) => text[i] \in A OBVIOUS
<1> HIDE DEF A, step, n, Takes
<1>2. \A i \in 1..n, s \in Seq(A) : step[<<i, s>>] = IF Takes(i) THEN Append(s, text[i]) ELSE s
  BY <1>0
<1>3. \A i \in 1..n, s \in Seq(A) : (IF Takes(i) THEN Append(s, text[i]) ELSE s) \in Seq(A)
  BY <1>1
<1>4. IsStep(step, n, Seq(A)) BY <1>2, <1>3 DEF IsStep
<1>5. /\ IsStep(step, n, Seq(A))
      /\ \A i \in 1..n, s \in Seq(A) : step[<<i, s>>] = IF Takes(i) THEN Append(s, text[i]) ELSE s
  BY <1>2, <1>4
<1> QED BY <1>5, Zenon DEF A, step, n, Takes

LEMMA SignificantDefined ==
  ASSUME NEW text, Len(text) \in Nat
  PROVE  \E f : /\ Goes(f, Len(text), Seq(0..63), <<>>, SignificantStep(text))
                /\ TextCodec!Significant(text) = f[Len(text)]
<1> DEFINE A == 0..63
           n == Len(text)
           step == SignificantStep(text)
           Takes(i) == text[i] \in A /\ \A j \in 1..i : text[j] # TextCodec!Pad
           Step(g) == [i \in 0..n |-> IF i = 0 THEN <<>>
                                      ELSE IF Takes(i) THEN Append(g[i - 1], text[i])
                                      ELSE g[i - 1]]
           c == CHOOSE g : g = Step(g)
<1>1. TextCodec!Significant(text) = c[n] BY Zenon DEF TextCodec!Significant
<1>2. /\ IsStep(step, n, Seq(A))
      /\ \A i \in 1..n, s \in Seq(A) : step[<<i, s>>] = IF Takes(i) THEN Append(s, text[i]) ELSE s
  BY SignificantSteps
<1> HIDE DEF Takes, step, A
<1>3. n \in Nat /\ <<>> \in Seq(A) BY EmptySeq
<1> HIDE DEF n
<1>4. PICK g : Goes(g, n, Seq(A), <<>>, step) BY <1>2, <1>3, Stepwise
<1>5. g = Step(g)
  <2>1. ASSUME NEW i \in 0..n
        PROVE  g[i] = IF i = 0 THEN <<>> ELSE IF Takes(i) THEN Append(g[i - 1], text[i]) ELSE g[i - 1]
    <3>1. CASE i = 0 BY <1>4, <3>1 DEF Goes
    <3>2. CASE i # 0
      <4>1. i \in 1..n /\ i - 1 \in 0..n BY <1>3, <3>2
      <4>2. g[i - 1] \in Seq(A) /\ g[i] = step[<<i, g[i - 1]>>] BY <1>4, <4>1 DEF Goes
      <4>3. g[i] = IF Takes(i) THEN Append(g[i - 1], text[i]) ELSE g[i - 1] BY <1>2, <4>1, <4>2
      <4> QED BY <3>2, <4>3
    <3> QED BY <3>1, <3>2
  <2>2. g = [i \in 0..n |-> g[i]] BY <1>4 DEF Goes
  <2> QED BY <2>1, <2>2
<1>6. c = Step(c)
  <2> HIDE DEF Step
  <2> QED BY <1>5
<1> HIDE DEF c
<1>7. Obeys(c, n, Seq(A), <<>>, step)
  <2>1. \A i \in 0..n : c[i] = IF i = 0 THEN <<>> ELSE IF Takes(i) THEN Append(c[i - 1], text[i]) ELSE c[i - 1]
    BY <1>6
  <2>2. c = [i \in 0..n |-> c[i]] BY <1>6
  <2>3. 0 \in 0..n /\ \A i \in 1..n : i \in 0..n /\ i # 0 BY <1>3
  <2>4. c[0] = <<>> BY <2>1, <2>3
  <2>5. ASSUME NEW i \in 1..n, c[i - 1] \in Seq(A)
        PROVE  c[i] = step[<<i, c[i - 1]>>]
    <3>1. c[i] = IF Takes(i) THEN Append(c[i - 1], text[i]) ELSE c[i - 1] BY <2>1, <2>3
    <3> QED BY <1>2, <2>5, <3>1
  <2> QED BY <2>2, <2>4, <2>5 DEF Obeys
<1>8. Goes(c, n, Seq(A), <<>>, step) BY <1>2, <1>3, <1>7, ObeysGoes
<1> QED BY <1>1, <1>8 DEF n, step, A

LEMMA SignificantOfNothing ==
  TextCodec!Significant(<<>>) = <<>>
<1>1. Len(<<>>) = 0 OBVIOUS
<1> QED BY <1>1, SignificantDefined DEF Goes

LEMMA SignificantType ==
  ASSUME NEW A, NEW text \in Seq(A)
  PROVE  TextCodec!Significant(text) \in Seq(0..63)
<1>1. Len(text) \in Nat OBVIOUS
<1>2. PICK f : /\ Goes(f, Len(text), Seq(0..63), <<>>, SignificantStep(text))
               /\ TextCodec!Significant(text) = f[Len(text)] BY <1>1, SignificantDefined
<1> QED BY <1>1, <1>2 DEF Goes

\* What one more character adds.
LEMMA SignificantOfAppend ==
  ASSUME NEW text \in Seq(Int), NEW x \in Int
  PROVE  TextCodec!Significant(Append(text, x))
         = IF x \in 0..63 /\ NoPad(text) THEN Append(TextCodec!Significant(text), x)
           ELSE TextCodec!Significant(text)
<1> DEFINE n == Len(text)
           more == Append(text, x)
           A == 0..63
           Takes(t, i) == t[i] \in A /\ \A j \in 1..i : t[j] # TextCodec!Pad
<1>1. n \in Nat /\ more \in Seq(Int) /\ Len(more) = n + 1 OBVIOUS
<1>2. more[n + 1] = x /\ \A i \in 1..n : more[i] = text[i] /\ i \in 1..(n + 1) OBVIOUS
<1>3. \A i \in 1..n, s \in Seq(A) :
        SignificantStep(text)[<<i, s>>] = IF Takes(text, i) THEN Append(s, text[i]) ELSE s
  BY SignificantSteps
<1> HIDE DEF more, n
<1>4. \A i \in 1..(n + 1), s \in Seq(A) :
        SignificantStep(more)[<<i, s>>] = IF Takes(more, i) THEN Append(s, more[i]) ELSE s
  BY <1>1, SignificantSteps
<1>5. PICK f : Goes(f, n, Seq(A), <<>>, SignificantStep(text)) /\ TextCodec!Significant(text) = f[n]
  BY <1>1, SignificantDefined DEF n
<1>6. PICK g : Goes(g, n + 1, Seq(A), <<>>, SignificantStep(more)) /\ TextCodec!Significant(more) = g[n + 1]
  BY <1>1, SignificantDefined
<1>7. \A i \in 1..n : Takes(more, i) = Takes(text, i)
  <2>1. ASSUME NEW i \in 1..n, NEW j \in 1..i
        PROVE  more[j] = text[j]
    <3>1. j \in 1..n BY <1>1
    <3> QED BY <1>2, <3>1
  <2> QED BY <1>2, <2>1
<1>8. Takes(more, n + 1) <=> x \in A /\ NoPad(text)
  <2>1. ASSUME NEW j \in 1..(n + 1)
        PROVE  j = n + 1 \/ j \in 1..n
    BY <1>1
  <2>2. x \in A => x # TextCodec!Pad BY DEF TextCodec!Pad
  <2>3. ASSUME x \in A
        PROVE  (\A j \in 1..(n + 1) : more[j] # TextCodec!Pad) <=> (\A j \in 1..n : text[j] # TextCodec!Pad)
    BY <1>2, <2>1, <2>2, <2>3
  <2> QED BY <1>2, <2>3 DEF NoPad, n
<1> HIDE DEF Takes
<1>9. g[n + 1] = SignificantStep(more)[<<n + 1, f[n]>>]
  <2>1. ASSUME NEW i \in 1..n, NEW s \in Seq(A)
        PROVE  SignificantStep(more)[<<i, s>>] = SignificantStep(text)[<<i, s>>]
    <3>1. i \in 1..(n + 1) /\ more[i] = text[i] BY <1>2
    <3> QED BY <1>3, <1>4, <1>7, <3>1
  <2>2. IsSameStep(SignificantStep(more), SignificantStep(text), n, Seq(A))
    BY <2>1 DEF IsSameStep
  <2> QED BY <1>1, <1>5, <1>6, <2>2, OneMoreStep
<1>10. f[n] \in Seq(A) /\ n + 1 \in 1..(n + 1) BY <1>1, <1>5 DEF Goes
<1>11. g[n + 1] = IF Takes(more, n + 1) THEN Append(f[n], more[n + 1]) ELSE f[n]
  BY <1>4, <1>9, <1>10
<1> QED BY <1>2, <1>5, <1>6, <1>8, <1>11 DEF more, A

----------------------------------------------------------------------------
(* Base64: groups of four characters *)

Sextet == 0..63

Byte == 0..255

\* Four characters of the alphabet.
IsGroup(n) == n[1] \in Sextet /\ n[2] \in Sextet /\ n[3] \in Sextet /\ n[4] \in Sextet

LEMMA DecodedGroup ==
  ASSUME NEW n, IsGroup(n)
  PROVE  TextCodec!int_decode_int(n) \in Seq(Byte) /\ Len(TextCodec!int_decode_int(n)) = 3
<1> DEFINE a == n[1]
           b == n[2]
           c == n[3]
           d == n[4]
           x == (a * 4) + (b \div 16)
           y == ((b % 16) * 16) + (c \div 4)
           z == ((c % 4) * 64) + d
<1>1. TextCodec!int_decode_int(n) = <<x, y, z>> BY DEF TextCodec!int_decode_int
<1>2. a \in Sextet /\ b \in Sextet /\ c \in Sextet /\ d \in Sextet BY DEF IsGroup
<1> HIDE DEF a, b, c, d
<1>3. a \in Int /\ 0 <= a /\ a <= 63 /\ b \in Int /\ 0 <= b /\ b <= 63
      /\ c \in Int /\ 0 <= c /\ c <= 63 /\ d \in Int /\ 0 <= d /\ d <= 63 BY <1>2 DEF Sextet
<1>4. x \in Byte /\ y \in Byte /\ z \in Byte BY <1>3 DEF Byte
<1> HIDE DEF x, y, z
<1>5. <<x, y, z>> \in Seq(Byte) /\ Len(<<x, y, z>>) = 3 BY <1>4
<1> QED BY <1>1, <1>5

\* The octets of a group come back.
LEMMA GroupComesBack ==
  ASSUME NEW b1 \in Byte, NEW b2 \in Byte, NEW b3 \in Byte
  PROVE  /\ IsGroup(TextCodec!int_encode_int(b1, b2, b3))
         /\ TextCodec!int_decode_int(TextCodec!int_encode_int(b1, b2, b3)) = <<b1, b2, b3>>
<1> DEFINE a == b1 \div 4
           b == 16 * (b1 % 4) + (b2 \div 16)
           c == 4 * (b2 % 16) + (b3 \div 64)
           d == b3 % 64
           n == <<a, b, c, d>>
<1>1. TextCodec!int_encode_int(b1, b2, b3) = n BY DEF TextCodec!int_encode_int
<1>2. b1 \in Int /\ 0 <= b1 /\ b1 <= 255 /\ b2 \in Int /\ 0 <= b2 /\ b2 <= 255 /\ b3 \in Int /\ 0 <= b3 /\ b3 <= 255
  BY DEF Byte
<1>3. a \in Sextet /\ b \in Sextet /\ c \in Sextet /\ d \in Sextet BY <1>2 DEF Sextet
<1>4. (a * 4) + (b \div 16) = b1 BY <1>2
<1>5. ((b % 16) * 16) + (c \div 4) = b2 BY <1>2
<1>6. ((c % 4) * 64) + d = b3 BY <1>2
<1> HIDE DEF a, b, c, d
<1>7. n[1] = a /\ n[2] = b /\ n[3] = c /\ n[4] = d OBVIOUS
<1>8. IsGroup(n) BY <1>3, <1>7 DEF IsGroup
<1>9. TextCodec!int_decode_int(n) = <<(a * 4) + (b \div 16), ((b % 16) * 16) + (c \div 4), ((c % 4) * 64) + d>>
  BY <1>7 DEF TextCodec!int_decode_int
<1> QED BY <1>1, <1>4, <1>5, <1>6, <1>8, <1>9

\* What is left over: up to two octets, as up to three characters.
Shortened(bytes) ==
  IF Len(bytes) = 1 THEN SubSeq(TextCodec!int_encode_int(bytes[1], 0, 0), 1, 2)
  ELSE SubSeq(TextCodec!int_encode_int(bytes[1], bytes[2], 0), 1, 3)

LEMMA FrontOf ==
  ASSUME NEW A, NEW s \in Seq(A)
  PROVE  /\ Len(s) >= 1 => SubSeq(s, 1, 1) = <<s[1]>>
         /\ Len(s) >= 2 => SubSeq(s, 1, 2) = <<s[1], s[2]>>
         /\ Len(s) >= 3 => SubSeq(s, 1, 3) = <<s[1], s[2], s[3]>>
<1> DEFINE d(n) == [i \in 1..n |-> s[1 + i - 1]]
<1>1. SubSeq(s, 1, 1) = d(1) /\ SubSeq(s, 1, 2) = d(2) /\ SubSeq(s, 1, 3) = d(3) OBVIOUS
<1>2. d(1) = <<d(1)[1]>> /\ d(2) = <<d(2)[1], d(2)[2]>> /\ d(3) = <<d(3)[1], d(3)[2], d(3)[3]>>
  OBVIOUS
<1>3. /\ d(1)[1] = s[1]
      /\ d(2)[1] = s[1] /\ d(2)[2] = s[2]
      /\ d(3)[1] = s[1] /\ d(3)[2] = s[2] /\ d(3)[3] = s[3]
  <2>1. 1 + 1 - 1 = 1 /\ 1 + 2 - 1 = 2 /\ 1 + 3 - 1 = 3 OBVIOUS
  <2> QED BY <2>1
<1> QED BY <1>1, <1>2, <1>3

LEMMA OneComesBack ==
  ASSUME NEW x \in Byte
  PROVE  LET f == SubSeq(TextCodec!int_encode_int(x, 0, 0), 1, 2)
         IN  /\ f \in Seq(Sextet) /\ Len(f) = 2
             /\ TextCodec!int_decode_final(f) = <<x>>
<1> DEFINE a == x \div 4
           b == 16 * (x % 4)
           c == 4 * 0 + 0
           n == <<a, b, 0, 0>>
<1>1. TextCodec!int_encode_int(x, 0, 0) = n
  <2>1. 16 * (x % 4) + (0 \div 16) = b /\ 4 * (0 % 16) + (0 \div 64) = 0 /\ 0 % 64 = 0
    BY DEF Byte
  <2> QED BY <2>1 DEF TextCodec!int_encode_int
<1>2. x \in Int /\ 0 <= x /\ x <= 255 BY DEF Byte
<1>3. a \in Sextet /\ b \in Sextet BY <1>2 DEF Sextet
<1>4. (a * 4) + (b \div 16) = x BY <1>2
<1> HIDE DEF a, b
<1>5. SubSeq(n, 1, 2) = <<a, b>>
  <2>1. n \in Seq({a, b, 0}) /\ Len(n) >= 2 /\ n[1] = a /\ n[2] = b OBVIOUS
  <2> HIDE DEF n
  <2> QED BY <2>1, FrontOf
<1>6. <<a, b>> \in Seq(Sextet) /\ Len(<<a, b>>) = 2 BY <1>3
<1> DEFINE f == <<a, b>>
           m == f \o <<0, 0>>
<1>7. m[1] = a /\ m[2] = b /\ m[3] = 0 /\ m[4] = 0 OBVIOUS
<1>8. TextCodec!int_decode_int(m) = <<(a * 4) + (b \div 16), ((b % 16) * 16) + (0 \div 4), ((0 % 4) * 64) + 0>>
  BY <1>7 DEF TextCodec!int_decode_int
<1> DEFINE y == ((b % 16) * 16) + (0 \div 4)
           z == ((0 % 4) * 64) + 0
<1>9. TextCodec!int_decode_int(m) = <<x, y, z>> BY <1>4, <1>8
<1> HIDE DEF y, z
<1>10. SubSeq(<<x, y, z>>, 1, 1) = <<x>>
  <2>1. <<x, y, z>> \in Seq({x, y, z}) /\ Len(<<x, y, z>>) >= 1 /\ <<x, y, z>>[1] = x OBVIOUS
  <2> QED BY <2>1, FrontOf
<1>11. TextCodec!int_decode_final(f) = SubSeq(TextCodec!int_decode_int(m), 1, 1)
  BY DEF TextCodec!int_decode_final
<1> QED BY <1>1, <1>5, <1>6, <1>9, <1>10, <1>11

LEMMA TwoComeBack ==
  ASSUME NEW x \in Byte, NEW y \in Byte
  PROVE  LET f == SubSeq(TextCodec!int_encode_int(x, y, 0), 1, 3)
         IN  /\ f \in Seq(Sextet) /\ Len(f) = 3
             /\ TextCodec!int_decode_final(f) = <<x, y>>
<1> DEFINE a == x \div 4
           b == 16 * (x % 4) + (y \div 16)
           c == 4 * (y % 16)
           n == <<a, b, c, 0>>
<1>2. x \in Int /\ 0 <= x /\ x <= 255 /\ y \in Int /\ 0 <= y /\ y <= 255 BY DEF Byte
<1>1. TextCodec!int_encode_int(x, y, 0) = n
  <2>1. 4 * (y % 16) + (0 \div 64) = c /\ 0 % 64 = 0 BY <1>2
  <2> QED BY <2>1 DEF TextCodec!int_encode_int
<1>3. a \in Sextet /\ b \in Sextet /\ c \in Sextet BY <1>2 DEF Sextet
<1>4. (a * 4) + (b \div 16) = x BY <1>2
<1>5. ((b % 16) * 16) + (c \div 4) = y BY <1>2
<1> HIDE DEF a, b, c
<1>6. SubSeq(n, 1, 3) = <<a, b, c>>
  <2>1. n \in Seq({a, b, c, 0}) /\ Len(n) >= 3 /\ n[1] = a /\ n[2] = b /\ n[3] = c OBVIOUS
  <2> HIDE DEF n
  <2> QED BY <2>1, FrontOf
<1>7. <<a, b, c>> \in Seq(Sextet) /\ Len(<<a, b, c>>) = 3 BY <1>3
<1> DEFINE f == <<a, b, c>>
           m == f \o <<0, 0>>
<1>8. m[1] = a /\ m[2] = b /\ m[3] = c /\ m[4] = 0 OBVIOUS
<1> DEFINE z == ((c % 4) * 64) + 0
<1>9. TextCodec!int_decode_int(m) = <<(a * 4) + (b \div 16), ((b % 16) * 16) + (c \div 4), z>>
  BY <1>8 DEF TextCodec!int_decode_int
<1>10. TextCodec!int_decode_int(m) = <<x, y, z>> BY <1>4, <1>5, <1>9
<1> HIDE DEF z
<1>11. SubSeq(<<x, y, z>>, 1, 2) = <<x, y>>
  <2>1. <<x, y, z>> \in Seq({x, y, z}) /\ Len(<<x, y, z>>) >= 2 /\ <<x, y, z>>[1] = x /\ <<x, y, z>>[2] = y
    OBVIOUS
  <2> QED BY <2>1, FrontOf
<1>12. TextCodec!int_decode_final(f) = SubSeq(TextCodec!int_decode_int(m), 1, 2)
  BY DEF TextCodec!int_decode_final
<1> QED BY <1>1, <1>6, <1>7, <1>10, <1>11, <1>12

----------------------------------------------------------------------------
(* Parts of sequences *)

LEMMA SubSeqOf ==
  ASSUME NEW A, NEW s \in Seq(A), NEW p \in Nat \ {0}, NEW q \in Int, q <= Len(s)
  PROVE  /\ SubSeq(s, p, q) \in Seq(A)
         /\ SubSeq(s, p, q) = [i \in 1..(q - p + 1) |-> s[p + i - 1]]
<1>1. \A i \in p..q : i \in 1..Len(s) OBVIOUS
<1>2. \A i \in p..q : s[i] \in A BY <1>1, ElementOfSeq
<1>3. SubSeq(s, p, q) \in Seq(A) BY <1>2, SubSeqProperties
<1> QED BY <1>3

LEMMA SubSeqOfFront ==
  ASSUME NEW A, NEW s \in Seq(A), NEW t \in Seq(A), NEW p \in Nat \ {0}, NEW q \in Int, q <= Len(s)
  PROVE  SubSeq(s \o t, p, q) = SubSeq(s, p, q)
<1>1. s \o t \in Seq(A) /\ IsConcat(s \o t, s, t) BY ConcatIs
<1> DEFINE u == s \o t
<1> HIDE DEF u
<1>2. Len(u) = Len(s) + Len(t) /\ \A i \in 1..Len(s) : u[i] = s[i] BY <1>1 DEF IsConcat, u
<1>3. Len(s) \in Nat /\ Len(t) \in Nat OBVIOUS
<1>4. q <= Len(u) BY <1>2, <1>3
<1>5. SubSeq(u, p, q) = [i \in 1..(q - p + 1) |-> u[p + i - 1]] BY <1>1, <1>4, SubSeqOf DEF u
<1>6. SubSeq(s, p, q) = [i \in 1..(q - p + 1) |-> s[p + i - 1]] BY SubSeqOf
<1>7. ASSUME NEW i \in 1..(q - p + 1)
      PROVE  u[p + i - 1] = s[p + i - 1]
  <2>1. p + i - 1 \in 1..Len(s) BY <1>3
  <2> QED BY <1>2, <2>1
<1> QED BY <1>5, <1>6, <1>7 DEF u

LEMMA SubSeqOfBack ==
  ASSUME NEW A, NEW s \in Seq(A), NEW t \in Seq(A)
  PROVE  SubSeq(s \o t, Len(s) + 1, Len(s \o t)) = t
<1>1. s \o t \in Seq(A) /\ IsConcat(s \o t, s, t) BY ConcatIs
<1> DEFINE u == s \o t
           n == Len(s)
           m == Len(t)
<1> HIDE DEF u
<1>2. Len(u) = n + m /\ \A i \in 1..m : u[n + i] = t[i] BY <1>1 DEF IsConcat, u
<1>3. n \in Nat /\ m \in Nat OBVIOUS
<1>4. t = [i \in 1..m |-> t[i]] OBVIOUS
<1> HIDE DEF n, m
<1>5. SubSeq(u, n + 1, Len(u)) = [i \in 1..(Len(u) - (n + 1) + 1) |-> u[n + 1 + i - 1]]
  <2>1. n + 1 \in Nat \ {0} /\ Len(u) \in Int /\ Len(u) <= Len(u) /\ u \in Seq(A)
    BY <1>1, <1>2, <1>3 DEF u
  <2> QED BY <2>1, SubSeqOf
<1>6. Len(u) - (n + 1) + 1 = m /\ \A i \in 1..m : n + 1 + i - 1 = n + i BY <1>2, <1>3
<1>7. [i \in 1..m |-> u[n + 1 + i - 1]] = [i \in 1..m |-> t[i]] BY <1>2, <1>6
<1>8. SubSeq(u, n + 1, Len(u)) = [i \in 1..m |-> u[n + 1 + i - 1]] BY <1>5, <1>6
<1> QED BY <1>4, <1>7, <1>8 DEF u, n, m

LEMMA ConcatOne ==
  ASSUME NEW A, NEW s \in Seq(A), NEW x \in A
  PROVE  s \o <<x>> = Append(s, x)
  OBVIOUS

LEMMA ConcatOfAppend ==
  ASSUME NEW A, NEW s \in Seq(A), NEW t \in Seq(A), NEW x \in A
  PROVE  s \o Append(t, x) = Append(s \o t, x)
<1>1. <<x>> \in Seq(A) OBVIOUS
<1>2. s \o t \in Seq(A) BY ConcatProperties
<1>3. Append(t, x) = t \o <<x>> /\ Append(s \o t, x) = (s \o t) \o <<x>> BY <1>2, ConcatOne
<1>4. (s \o t) \o <<x>> = s \o (t \o <<x>>) BY <1>1, ConcatAssociative
<1> QED BY <1>3, <1>4

LEMMA FlattenType ==
  ASSUME NEW A, NEW seqs \in Seq(Seq(A))
  PROVE  FlattenSeq(seqs) \in Seq(A)
<1>1. <<>> \in Seq(A) BY EmptySeq
<1> QED BY <1>1, FlattenOfAppend

----------------------------------------------------------------------------
(* Base64: decoding the significant characters *)

Decoded(chars, m) == [g \in 1..m |-> TextCodec!int_decode_int(SubSeq(chars, 4 * g - 3, 4 * g))]

DecodedChars(chars) ==
  LET whole == Len(chars) \div 4
  IN  FlattenSeq(Decoded(chars, whole))
      \o TextCodec!int_decode_final(SubSeq(chars, 4 * whole + 1, Len(chars)))

LEMMA SameFlatten ==
  ASSUME NEW seqs
  PROVE  TextCodec!FlattenSeq(seqs) = FlattenSeq(seqs)
  BY Zenon DEF TextCodec!FlattenSeq, FlattenSeq

LEMMA DecodesSignificant ==
  ASSUME NEW text
  PROVE  TextCodec!krypt_base64_buffer_decode_to(text) = DecodedChars(TextCodec!Significant(text))
<1> DEFINE chars == TextCodec!Significant(text)
           whole == Len(chars) \div 4
           groups == [g \in 1..whole |-> TextCodec!int_decode_int(SubSeq(chars, 4 * g - 3, 4 * g))]
           f == TextCodec!int_decode_final(SubSeq(chars, 4 * whole + 1, Len(chars)))
<1>1. TextCodec!krypt_base64_buffer_decode_to(text) = TextCodec!FlattenSeq(groups) \o f
  BY Zenon DEF TextCodec!krypt_base64_buffer_decode_to
<1>0. TextCodec!FlattenSeq(groups) = FlattenSeq(groups) BY SameFlatten
<1>2. DecodedChars(chars) = FlattenSeq(Decoded(chars, whole)) \o f BY Zenon DEF DecodedChars
<1>3. Decoded(chars, whole) = groups BY Zenon DEF Decoded
<1> QED BY <1>0, <1>1, <1>2, <1>3, Zenon

LEMMA GroupOf ==
  ASSUME NEW chars \in Seq(Sextet), NEW g \in Nat \ {0}, 4 * g <= Len(chars)
  PROVE  IsGroup(SubSeq(chars, 4 * g - 3, 4 * g))
<1> DEFINE p == 4 * g - 3
           q == 4 * g
           n == SubSeq(chars, p, q)
<1>1. p \in Nat \ {0} /\ q \in Int /\ q - p + 1 = 4 /\ q <= Len(chars) OBVIOUS
<1>2. /\ p + 1 - 1 \in 1..Len(chars) /\ p + 2 - 1 \in 1..Len(chars)
      /\ p + 3 - 1 \in 1..Len(chars) /\ p + 4 - 1 \in 1..Len(chars) OBVIOUS
<1> HIDE DEF p, q
<1>3. n = [i \in 1..4 |-> chars[p + i - 1]] BY <1>1, SubSeqOf
<1>4. \A i \in 1..Len(chars) : chars[i] \in Sextet BY ElementOfSeq
<1>5. n[1] \in Sextet /\ n[2] \in Sextet /\ n[3] \in Sextet /\ n[4] \in Sextet
  BY <1>2, <1>3, <1>4
<1> QED BY <1>5 DEF IsGroup, p, q

LEMMA FinalType ==
  ASSUME NEW f \in Seq(Sextet), Len(f) <= 3
  PROVE  TextCodec!int_decode_final(f) \in Seq(Byte)
<1>1. CASE Len(f) < 2
  <2>1. TextCodec!int_decode_final(f) = <<>> BY <1>1 DEF TextCodec!int_decode_final
  <2> QED BY <2>1, EmptySeq
<1>2. CASE ~(Len(f) < 2)
  <2> DEFINE z == <<0, 0>>
             n == f \o z
             d == TextCodec!int_decode_int(n)
  <2>1. z \in Seq(Sextet) /\ Len(z) = 2 BY DEF Sextet
  <2> HIDE DEF z
  <2>2. n \in Seq(Sextet) /\ Len(n) = Len(f) + Len(z) BY <2>1, ConcatProperties
  <2>3. 1 \in 1..Len(n) /\ 2 \in 1..Len(n) /\ 3 \in 1..Len(n) /\ 4 \in 1..Len(n)
    BY <1>2, <2>1, <2>2
  <2> HIDE DEF n
  <2>4. \A i \in 1..Len(n) : n[i] \in Sextet BY <2>2, ElementOfSeq
  <2>5. IsGroup(n) BY <2>3, <2>4 DEF IsGroup
  <2>6. d \in Seq(Byte) /\ Len(d) = 3 BY <2>5, DecodedGroup
  <2>7. TextCodec!int_decode_final(f) = SubSeq(d, 1, Len(f) - 1)
    BY <1>2 DEF TextCodec!int_decode_final, n, z
  <2> HIDE DEF d
  <2>8. 1 \in Nat \ {0} /\ Len(f) - 1 \in Int /\ Len(f) - 1 <= Len(d) BY <2>6
  <2>9. SubSeq(d, 1, Len(f) - 1) \in Seq(Byte) BY <2>6, <2>8, SubSeqOf
  <2> QED BY <2>7, <2>9
<1> QED BY <1>1, <1>2

LEMMA DecodedType ==
  ASSUME NEW chars \in Seq(Sextet), NEW m \in Nat, 4 * m <= Len(chars)
  PROVE  Decoded(chars, m) \in Seq(Seq(Byte)) /\ Len(Decoded(chars, m)) = m
<1>1. ASSUME NEW g \in 1..m
      PROVE  TextCodec!int_decode_int(SubSeq(chars, 4 * g - 3, 4 * g)) \in Seq(Byte)
  <2>1. g \in Nat \ {0} /\ 4 * g <= Len(chars) OBVIOUS
  <2>2. IsGroup(SubSeq(chars, 4 * g - 3, 4 * g)) BY <2>1, GroupOf
  <2> QED BY <2>2, DecodedGroup
<1>2. IsList(Decoded(chars, m), m, Seq(Byte)) BY <1>1 DEF IsList, Decoded
<1> QED BY <1>2, SeqFacts

LEMMA DecodedCharsType ==
  ASSUME NEW chars \in Seq(Sextet)
  PROVE  DecodedChars(chars) \in Seq(Byte)
<1> DEFINE n == Len(chars)
           m == n \div 4
           f == SubSeq(chars, 4 * m + 1, n)
<1>1. n \in Nat OBVIOUS
<1>2. n = Len(chars) OBVIOUS
<1> HIDE DEF n
<1>3. m \in Nat /\ 4 * m <= n /\ n - 4 * m <= 3 BY <1>1
<1> HIDE DEF m
<1>4. FlattenSeq(Decoded(chars, m)) \in Seq(Byte) BY <1>2, <1>3, DecodedType, FlattenType
<1>5. f \in Seq(Sextet) /\ Len(f) <= 3
  <2>1. 4 * m + 1 \in Nat \ {0} /\ n \in Int /\ n <= Len(chars) BY <1>1, <1>2, <1>3
  <2>2. f \in Seq(Sextet) /\ f = [i \in 1..(n - (4 * m + 1) + 1) |-> chars[4 * m + 1 + i - 1]]
    BY <2>1, SubSeqOf, SMTT(30)
  <2>3. DOMAIN f = 1..(n - (4 * m + 1) + 1) /\ DOMAIN f = 1..Len(f) /\ Len(f) \in Nat
    BY <2>2, LenProperties
  <2> HIDE DEF f
  <2>4. n - (4 * m + 1) + 1 = n - 4 * m /\ n - 4 * m \in Nat BY <1>1, <1>3
  <2>5. 1..(n - 4 * m) = 1..Len(f) BY <2>3, <2>4
  <2>6. Len(f) = n - 4 * m BY <2>3, <2>4, <2>5
  <2> QED BY <1>3, <2>2, <2>6
<1> HIDE DEF f
<1>6. TextCodec!int_decode_final(f) \in Seq(Byte) BY <1>5, FinalType
<1>7. DecodedChars(chars) = FlattenSeq(Decoded(chars, m)) \o TextCodec!int_decode_final(f)
  BY DEF DecodedChars, m, n, f
<1> QED BY <1>4, <1>6, <1>7, ConcatProperties

----------------------------------------------------------------------------
(* Base64: decoding characters behind whole groups *)

\* Whole groups of characters.
IsWhole(chars) == chars \in Seq(Sextet) /\ \E m \in Nat : Len(chars) = 4 * m

\* The groups of characters are those in front of what follows them.
LEMMA DecodedFront ==
  ASSUME NEW chars \in Seq(Sextet), NEW f \in Seq(Sextet), NEW m \in Nat, 4 * m <= Len(chars)
  PROVE  Decoded(chars \o f, m) = Decoded(chars, m)
<1>1. ASSUME NEW g \in 1..m
      PROVE  SubSeq(chars \o f, 4 * g - 3, 4 * g) = SubSeq(chars, 4 * g - 3, 4 * g)
  <2>1. 4 * g - 3 \in Nat \ {0} /\ 4 * g \in Int /\ 4 * g <= Len(chars) OBVIOUS
  <2> QED BY <2>1, SubSeqOfFront
<1> QED BY <1>1 DEF Decoded

LEMMA DecodedWhole ==
  ASSUME NEW chars \in Seq(Sextet), NEW m \in Nat, Len(chars) = 4 * m
  PROVE  DecodedChars(chars) = FlattenSeq(Decoded(chars, m))
<1> DEFINE n == Len(chars)
<1>1. n \div 4 = m OBVIOUS
<1>2. SubSeq(chars, 4 * m + 1, n) = <<>>
  <2>1. 4 * m + 1 > n /\ 4 * m + 1 \in Int /\ n \in Int OBVIOUS
  <2> QED BY <2>1, SubSeqProperties
<1>3. TextCodec!int_decode_final(<<>>) = <<>>
  <2>1. Len(<<>>) < 2 OBVIOUS
  <2> QED BY <2>1 DEF TextCodec!int_decode_final
<1>4. DecodedChars(chars) = FlattenSeq(Decoded(chars, n \div 4))
                            \o TextCodec!int_decode_final(SubSeq(chars, 4 * (n \div 4) + 1, n))
  BY Zenon DEF DecodedChars
<1>5. FlattenSeq(Decoded(chars, m)) \in Seq(Byte) BY DecodedType, FlattenType
<1> HIDE DEF n
<1>6. DecodedChars(chars) = FlattenSeq(Decoded(chars, m)) \o <<>> BY <1>1, <1>2, <1>3, <1>4
<1> QED BY <1>5, <1>6, ConcatEmptySeq

LEMMA FourTimes ==
  ASSUME NEW n \in Nat, NEW m \in Nat, NEW r \in Nat, r <= 3, n = 4 * m + r
  PROVE  n \div 4 = m
  OBVIOUS

\* Characters left over are decoded on their own.
LEMMA DecodedFinal ==
  ASSUME NEW chars \in Seq(Sextet), IsWhole(chars), NEW f \in Seq(Sextet), Len(f) <= 3
  PROVE  DecodedChars(chars \o f) = DecodedChars(chars) \o TextCodec!int_decode_final(f)
<1>1. PICK m \in Nat : Len(chars) = 4 * m BY DEF IsWhole
<1> DEFINE all == chars \o f
           n == Len(all)
<1>2. all \in Seq(Sextet) /\ n = Len(chars) + Len(f) /\ n \in Nat /\ Len(f) \in Nat
  BY ConcatFacts
<1>3. SubSeq(all, Len(chars) + 1, n) = f BY SubSeqOfBack
<1>4. Decoded(all, m) = Decoded(chars, m) BY <1>1, DecodedFront
<1>5. DecodedChars(all) = FlattenSeq(Decoded(all, n \div 4))
                          \o TextCodec!int_decode_final(SubSeq(all, 4 * (n \div 4) + 1, n))
  BY Zenon DEF DecodedChars
<1>6. DecodedChars(chars) = FlattenSeq(Decoded(chars, m)) BY <1>1, DecodedWhole
<1> HIDE DEF all, n
<1>7. n \div 4 = m BY <1>1, <1>2, FourTimes
<1> QED BY <1>1, <1>3, <1>4, <1>5, <1>6, <1>7 DEF all

\* So is one more group.
LEMMA DecodedMore ==
  ASSUME NEW chars \in Seq(Sextet), IsWhole(chars), NEW g \in Seq(Sextet), Len(g) = 4
  PROVE  /\ IsWhole(chars \o g)
         /\ DecodedChars(chars \o g) = DecodedChars(chars) \o TextCodec!int_decode_int(g)
<1>1. PICK m \in Nat : Len(chars) = 4 * m BY DEF IsWhole
<1> DEFINE all == chars \o g
           k == m + 1
<1>2. all \in Seq(Sextet) /\ Len(all) = Len(chars) + Len(g) BY ConcatFacts
<1>3. Len(all) = 4 * k /\ k \in Nat BY <1>1, <1>2
<1>4. IsWhole(all) BY <1>2, <1>3 DEF IsWhole
<1>5. DecodedChars(chars) = FlattenSeq(Decoded(chars, m)) /\ DecodedChars(all) = FlattenSeq(Decoded(all, k))
  BY <1>1, <1>2, <1>3, DecodedWhole
<1>6. Decoded(all, m) = Decoded(chars, m) BY <1>1, DecodedFront
<1>7. SubSeq(all, 4 * k - 3, 4 * k) = g
  <2>1. 4 * k - 3 = Len(chars) + 1 /\ 4 * k = Len(all) BY <1>1, <1>3
  <2> QED BY <2>1, SubSeqOfBack
<1>8. Decoded(all, m) \in Seq(Seq(Byte)) /\ Len(Decoded(all, m)) = m BY <1>1, <1>6, DecodedType
<1>9. Decoded(all, k) \in Seq(Seq(Byte)) /\ Len(Decoded(all, k)) = k
  <2>1. 4 * k <= Len(all) BY <1>3
  <2> QED BY <1>2, <1>3, <2>1, DecodedType
<1>10. TextCodec!int_decode_int(g) \in Seq(Byte)
  <2>1. 1 \in 1..Len(g) /\ 2 \in 1..Len(g) /\ 3 \in 1..Len(g) /\ 4 \in 1..Len(g) OBVIOUS
  <2>2. \A i \in 1..Len(g) : g[i] \in Sextet BY ElementOfSeq
  <2>3. IsGroup(g) BY <2>1, <2>2 DEF IsGroup
  <2> QED BY <2>3, DecodedGroup
<1> HIDE DEF all
<1>11. Decoded(all, k) = Append(Decoded(all, m), TextCodec!int_decode_int(g))
  <2> DEFINE s == Decoded(all, m)
             x == TextCodec!int_decode_int(g)
             f(i) == TextCodec!int_decode_int(SubSeq(all, 4 * i - 3, 4 * i))
  <2>1. s = [i \in 1..m |-> f(i)] /\ Decoded(all, k) = [i \in 1..k |-> f(i)] BY DEF Decoded
  <2>2. f(k) = x BY <1>7
  <2> HIDE DEF f, x
  <2>3. Append([i \in 1..m |-> f(i)], f(k)) = [i \in 1..k |-> f(i)]
    <3> DEFINE t == [i \in 1..m |-> f(i)]
    <3>1. IsList(t, m, {f(i) : i \in 1..k}) BY DEF IsList
    <3>2. t \in Seq({f(i) : i \in 1..k}) /\ Len(t) = m BY <3>1, SeqFacts
    <3>3. Append(t, f(k)) = [i \in 1..(Len(t) + 1) |-> IF i <= Len(t) THEN t[i] ELSE f(k)]
      BY <3>2, AppendProperties
    <3>4. \A i \in 1..(m + 1) : (IF i <= m THEN t[i] ELSE f(k)) = f(i) OBVIOUS
    <3> HIDE DEF t
    <3> QED BY <3>2, <3>3, <3>4 DEF t
  <2> HIDE DEF s
  <2>4. Append(s, x) = Append([i \in 1..m |-> f(i)], f(k)) BY <2>1, <2>2
  <2> QED BY <2>1, <2>3, <2>4 DEF s, x
<1>12. FlattenSeq(Decoded(all, k)) = FlattenSeq(Decoded(all, m)) \o TextCodec!int_decode_int(g)
  BY <1>8, <1>10, <1>11, FlattenOfAppend
<1> QED BY <1>4, <1>5, <1>6, <1>12 DEF all

----------------------------------------------------------------------------
(* Base64: decoding line by line *)

Read(text) == TextCodec!krypt_base64_buffer_decode_to(text)

\* What has been decoded, and the line that has begun.
LineState == [bytes : Seq(Byte), line : Seq(Int)]

NoLine == [bytes |-> <<>>, line |-> <<>>]

After(s, x) == IF x = TextCodec!LF
               THEN [bytes |-> s.bytes \o Read(s.line), line |-> <<>>]
               ELSE [bytes |-> s.bytes, line |-> Append(s.line, x)]

LineStep(text) == [p \in (1..Len(text)) \X LineState |-> After(p[2], text[p[1]])]

\* The state that the lines of a text lead to.
IsStateOf(s, text) ==
  \E f : Goes(f, Len(text), LineState, NoLine, LineStep(text)) /\ s = f[Len(text)]

LEMMA ReadIs ==
  ASSUME NEW text \in Seq(Int)
  PROVE  /\ TextCodec!Significant(text) \in Seq(Sextet)
         /\ Read(text) = DecodedChars(TextCodec!Significant(text))
         /\ Read(text) \in Seq(Byte)
<1>1. TextCodec!Significant(text) \in Seq(Sextet) BY SignificantType DEF Sextet
<1>2. Read(text) = DecodedChars(TextCodec!Significant(text)) BY DecodesSignificant DEF Read
<1> QED BY <1>1, <1>2, DecodedCharsType

LEMMA AfterIsState ==
  ASSUME NEW s \in LineState, NEW x \in Int
  PROVE  After(s, x) \in LineState
<1>1. s.bytes \in Seq(Byte) /\ s.line \in Seq(Int) BY DEF LineState
<1>2. Read(s.line) \in Seq(Byte) BY <1>1, ReadIs
<1>3. s.bytes \o Read(s.line) \in Seq(Byte) BY <1>1, <1>2, ConcatProperties
<1>4. <<>> \in Seq(Int) /\ Append(s.line, x) \in Seq(Int) BY <1>1, EmptySeq, AppendProperties
<1> QED BY <1>1, <1>3, <1>4 DEF After, LineState

LEMMA LineSteps ==
  ASSUME NEW text \in Seq(Int)
  PROVE  /\ IsStep(LineStep(text), Len(text), LineState)
         /\ \A i \in 1..Len(text), s \in LineState : LineStep(text)[<<i, s>>] = After(s, text[i])
         /\ NoLine \in LineState
<1>1. \A i \in 1..Len(text) : text[i] \in Int BY ElementOfSeq
<1>2. \A i \in 1..Len(text), s \in LineState : LineStep(text)[<<i, s>>] = After(s, text[i])
  BY DEF LineStep
<1>3. \A i \in 1..Len(text), s \in LineState : LineStep(text)[<<i, s>>] \in LineState
  BY <1>1, <1>2, AfterIsState
<1>4. NoLine \in LineState BY EmptySeq DEF NoLine, LineState
<1> QED BY <1>2, <1>3, <1>4 DEF IsStep

LEMMA StateOfNothing ==
  IsStateOf(NoLine, <<>>)
<1>1. <<>> \in Seq(Int) /\ Len(<<>>) = 0 BY EmptySeq
<1> DEFINE t == <<>>
<1>2. t \in Seq(Int) /\ Len(t) = 0 BY <1>1
<1> HIDE DEF t
<1>3. PICK f : Goes(f, Len(t), LineState, NoLine, LineStep(t))
  <2>1. t \in Seq(Int) BY <1>2
  <2>2. IsStep(LineStep(t), Len(t), LineState) /\ NoLine \in LineState BY <2>1, LineSteps
  <2>3. Len(t) \in Nat BY <1>2
  <2> QED BY <2>2, <2>3, Stepwise
<1>4. f[Len(t)] = NoLine BY <1>2, <1>3 DEF Goes
<1>5. IsStateOf(NoLine, t) BY <1>3, <1>4 DEF IsStateOf
<1> QED BY <1>5 DEF t

LEMMA StateOfAppend ==
  ASSUME NEW text \in Seq(Int), NEW x \in Int, NEW s, IsStateOf(s, text)
  PROVE  IsStateOf(After(s, x), Append(text, x))
<1> DEFINE n == Len(text)
           more == Append(text, x)
<1>1. n \in Nat /\ more \in Seq(Int) /\ Len(more) = n + 1 OBVIOUS
<1>2. more[n + 1] = x /\ \A i \in 1..n : more[i] = text[i] /\ i \in 1..(n + 1) OBVIOUS
<1>3. PICK f : Goes(f, n, LineState, NoLine, LineStep(text)) /\ s = f[n] BY DEF IsStateOf
<1>4. \A i \in 1..n, r \in LineState : LineStep(text)[<<i, r>>] = After(r, text[i]) BY LineSteps
<1> HIDE DEF more, n
<1>5. /\ IsStep(LineStep(more), n + 1, LineState) /\ NoLine \in LineState
      /\ \A i \in 1..(n + 1), r \in LineState : LineStep(more)[<<i, r>>] = After(r, more[i])
  BY <1>1, LineSteps
<1>6. n + 1 \in Nat BY <1>1
<1>7. PICK g : Goes(g, n + 1, LineState, NoLine, LineStep(more)) BY <1>5, <1>6, Stepwise
<1>8. IsSameStep(LineStep(more), LineStep(text), n, LineState) BY <1>2, <1>4, <1>5 DEF IsSameStep
<1>9. g[n + 1] = LineStep(more)[<<n + 1, f[n]>>] BY <1>1, <1>3, <1>7, <1>8, OneMoreStep
<1>10. f[n] \in LineState /\ n + 1 \in 1..(n + 1) BY <1>1, <1>3 DEF Goes
<1>11. g[n + 1] = After(s, x) BY <1>2, <1>3, <1>5, <1>9, <1>10
<1>12. IsStateOf(After(s, x), more) BY <1>1, <1>7, <1>11 DEF IsStateOf
<1> QED BY <1>12 DEF more

\* What the lines decode to.
LEMMA LinesAreRead ==
  ASSUME NEW text \in Seq(Int), NEW s, IsStateOf(s, text)
  PROVE  LineByLine(text) = s.bytes \o Read(s.line)
<1> DEFINE n == Len(text)
           step == LineStep(text)
           Step(g) == [i \in 0..n |->
                         IF i = 0 THEN [bytes |-> <<>>, line |-> <<>>]
                         ELSE IF text[i] = TextCodec!LF
                              THEN [bytes |-> g[i - 1].bytes \o TextCodec!krypt_base64_buffer_decode_to(g[i - 1].line),
                                    line |-> <<>>]
                              ELSE [bytes |-> g[i - 1].bytes, line |-> Append(g[i - 1].line, text[i])]]
           StepTo(g) == [i \in 0..n |-> IF i = 0 THEN NoLine ELSE After(g[i - 1], text[i])]
           c == CHOOSE g : g = Step(g)
           d == CHOOSE g : g = StepTo(g)
<1>1. LineByLine(text) = c[n].bytes \o TextCodec!krypt_base64_buffer_decode_to(c[n].line)
  BY Zenon DEF LineByLine
<1>2. c = d BY DEF NoLine, After, Read
<1>3. /\ IsStep(step, n, LineState)
      /\ \A i \in 1..n, r \in LineState : step[<<i, r>>] = After(r, text[i])
      /\ NoLine \in LineState BY LineSteps
<1>4. n \in Nat OBVIOUS
<1>5. PICK f : Goes(f, n, LineState, NoLine, step) /\ s = f[n] BY DEF IsStateOf
<1> HIDE DEF c, n, step
<1>6. f = StepTo(f)
  <2>1. ASSUME NEW i \in 0..n
        PROVE  f[i] = IF i = 0 THEN NoLine ELSE After(f[i - 1], text[i])
    <3>1. CASE i = 0 BY <1>5, <3>1 DEF Goes
    <3>2. CASE i # 0
      <4>1. i \in 1..n /\ i - 1 \in 0..n BY <1>4, <3>2
      <4>2. f[i - 1] \in LineState /\ f[i] = step[<<i, f[i - 1]>>] BY <1>5, <4>1 DEF Goes
      <4> QED BY <1>3, <3>2, <4>1, <4>2
    <3> QED BY <3>1, <3>2
  <2>2. f = [i \in 0..n |-> f[i]] BY <1>5 DEF Goes
  <2> QED BY <2>1, <2>2
<1>7. d = StepTo(d)
  <2> HIDE DEF StepTo
  <2> QED BY <1>6
<1> HIDE DEF d
<1>8. Obeys(d, n, LineState, NoLine, step)
  <2>1. \A i \in 0..n : d[i] = IF i = 0 THEN NoLine ELSE After(d[i - 1], text[i]) BY <1>7
  <2>2. d = [i \in 0..n |-> d[i]] BY <1>7
  <2>3. 0 \in 0..n /\ \A i \in 1..n : i \in 0..n /\ i # 0 BY <1>4
  <2>4. d[0] = NoLine BY <2>1, <2>3
  <2>5. ASSUME NEW i \in 1..n, d[i - 1] \in LineState
        PROVE  d[i] = step[<<i, d[i - 1]>>]
    <3>1. d[i] = After(d[i - 1], text[i]) BY <2>1, <2>3
    <3> QED BY <1>3, <2>5, <3>1
  <2> QED BY <2>2, <2>4, <2>5 DEF Obeys
<1>9. Goes(d, n, LineState, NoLine, step) BY <1>3, <1>4, <1>8, ObeysGoes
<1>10. d = f BY <1>4, <1>5, <1>9, SameSteps
<1> QED BY <1>1, <1>2, <1>5, <1>10 DEF Read

----------------------------------------------------------------------------
(* Base64: texts that grow *)

\* A text has these characters of the alphabet; its lines were decoded to
\* bytes, but for the last one.
HasRead(text, chars, bytes, line) ==
  /\ text \in Seq(Int) /\ line \in Seq(Int) /\ bytes \in Seq(Byte)
  /\ TextCodec!Significant(text) = chars
  /\ IsStateOf([bytes |-> bytes, line |-> line], text)

\* Nothing in front of what follows is a pad.
Unpadded(text, line) == NoPad(text) /\ NoPad(line)

LEMMA NoPadOfAppend ==
  ASSUME NEW text \in Seq(Int), NEW x \in Int, x # TextCodec!Pad, NoPad(text)
  PROVE  NoPad(Append(text, x))
<1>1. /\ Len(text) \in Nat /\ Len(Append(text, x)) = Len(text) + 1
      /\ \A i \in 1..(Len(text) + 1) : Append(text, x)[i] = IF i <= Len(text) THEN text[i] ELSE x
  BY AppendProperties
<1> QED BY <1>1 DEF NoPad

LEMMA NothingIsRead ==
  HasRead(<<>>, <<>>, <<>>, <<>>) /\ Unpadded(<<>>, <<>>)
<1>1. IsStateOf([bytes |-> <<>>, line |-> <<>>], <<>>) BY StateOfNothing DEF NoLine
<1>2. NoPad(<<>>) BY DEF NoPad
<1> QED BY <1>1, <1>2, SignificantOfNothing, EmptySeq DEF HasRead, Unpadded

\* A character of the alphabet.
LEMMA ReadSextet ==
  ASSUME NEW text, NEW chars, NEW bytes, NEW line, HasRead(text, chars, bytes, line),
         Unpadded(text, line), NEW x \in Sextet
  PROVE  /\ HasRead(Append(text, x), Append(chars, x), bytes, Append(line, x))
         /\ Unpadded(Append(text, x), Append(line, x))
         /\ TextCodec!Significant(Append(line, x)) = Append(TextCodec!Significant(line), x)
<1>1. x \in Int /\ x # TextCodec!Pad /\ x # TextCodec!LF /\ x \in 0..63
  BY DEF Sextet, TextCodec!Pad, TextCodec!LF
<1>2. /\ text \in Seq(Int) /\ line \in Seq(Int) /\ bytes \in Seq(Byte)
      /\ TextCodec!Significant(text) = chars
      /\ IsStateOf([bytes |-> bytes, line |-> line], text) BY DEF HasRead
<1>3. NoPad(text) /\ NoPad(line) BY DEF Unpadded
<1>4. Append(text, x) \in Seq(Int) /\ Append(line, x) \in Seq(Int)
  BY <1>1, <1>2, AppendProperties
<1>5. NoPad(Append(text, x)) /\ NoPad(Append(line, x)) BY <1>1, <1>2, <1>3, NoPadOfAppend
<1>6. /\ TextCodec!Significant(Append(text, x)) = Append(chars, x)
      /\ TextCodec!Significant(Append(line, x)) = Append(TextCodec!Significant(line), x)
  BY <1>1, <1>2, <1>3, SignificantOfAppend
<1>7. After([bytes |-> bytes, line |-> line], x) = [bytes |-> bytes, line |-> Append(line, x)]
  BY <1>1 DEF After
<1>8. IsStateOf([bytes |-> bytes, line |-> Append(line, x)], Append(text, x))
  BY <1>1, <1>2, <1>7, StateOfAppend
<1> QED BY <1>2, <1>4, <1>5, <1>6, <1>8 DEF HasRead, Unpadded

\* A character that is not one of the alphabet, and does not end a line.
LEMMA ReadOther ==
  ASSUME NEW text, NEW chars, NEW bytes, NEW line, HasRead(text, chars, bytes, line),
         NEW x \in {TextCodec!Pad, TextCodec!CR}
  PROVE  /\ HasRead(Append(text, x), chars, bytes, Append(line, x))
         /\ TextCodec!Significant(Append(line, x)) = TextCodec!Significant(line)
         /\ Unpadded(text, line) /\ x = TextCodec!CR => Unpadded(Append(text, x), Append(line, x))
<1>1. x \in Int /\ x # TextCodec!LF /\ x \notin 0..63 /\ (x = TextCodec!CR => x # TextCodec!Pad)
  BY DEF TextCodec!Pad, TextCodec!LF, TextCodec!CR
<1>2. /\ text \in Seq(Int) /\ line \in Seq(Int) /\ bytes \in Seq(Byte)
      /\ TextCodec!Significant(text) = chars
      /\ IsStateOf([bytes |-> bytes, line |-> line], text) BY DEF HasRead
<1>3. Append(text, x) \in Seq(Int) /\ Append(line, x) \in Seq(Int)
  BY <1>1, <1>2, AppendProperties
<1>4. /\ TextCodec!Significant(Append(text, x)) = chars
      /\ TextCodec!Significant(Append(line, x)) = TextCodec!Significant(line)
  BY <1>1, <1>2, SignificantOfAppend
<1>5. After([bytes |-> bytes, line |-> line], x) = [bytes |-> bytes, line |-> Append(line, x)]
  BY <1>1 DEF After
<1>6. IsStateOf([bytes |-> bytes, line |-> Append(line, x)], Append(text, x))
  BY <1>1, <1>2, <1>5, StateOfAppend
<1>7. ASSUME Unpadded(text, line), x = TextCodec!CR
      PROVE  Unpadded(Append(text, x), Append(line, x))
  BY <1>1, <1>2, <1>7, NoPadOfAppend DEF Unpadded
<1> QED BY <1>2, <1>3, <1>4, <1>6, <1>7 DEF HasRead

\* The end of a line.
LEMMA ReadLF ==
  ASSUME NEW text, NEW chars, NEW bytes, NEW line, HasRead(text, chars, bytes, line)
  PROVE  /\ HasRead(Append(text, TextCodec!LF), chars, bytes \o Read(line), <<>>)
         /\ Unpadded(text, line) => Unpadded(Append(text, TextCodec!LF), <<>>)
<1> DEFINE x == TextCodec!LF
<1>1. x \in Int /\ x \notin 0..63 /\ x # TextCodec!Pad BY DEF TextCodec!Pad, TextCodec!LF
<1>2. /\ text \in Seq(Int) /\ line \in Seq(Int) /\ bytes \in Seq(Byte)
      /\ TextCodec!Significant(text) = chars
      /\ IsStateOf([bytes |-> bytes, line |-> line], text) BY DEF HasRead
<1>3. Append(text, x) \in Seq(Int) /\ <<>> \in Seq(Int) /\ Len(<<>>) = 0
  BY <1>1, <1>2, AppendProperties, EmptySeq
<1>4. TextCodec!Significant(Append(text, x)) = chars BY <1>1, <1>2, SignificantOfAppend
<1>5. After([bytes |-> bytes, line |-> line], x) = [bytes |-> bytes \o Read(line), line |-> <<>>]
  BY DEF After
<1>6. IsStateOf([bytes |-> bytes \o Read(line), line |-> <<>>], Append(text, x))
  BY <1>1, <1>2, <1>5, StateOfAppend
<1>7. bytes \o Read(line) \in Seq(Byte) BY <1>2, ReadIs, ConcatProperties
<1>8. ASSUME Unpadded(text, line)
      PROVE  Unpadded(Append(text, x), <<>>)
  <2>1. NoPad(Append(text, x)) BY <1>1, <1>2, <1>8, NoPadOfAppend DEF Unpadded
  <2> QED BY <2>1, NothingIsRead DEF Unpadded
<1> QED BY <1>3, <1>4, <1>6, <1>7, <1>8 DEF HasRead

\* Both ways of reading a text.
LEMMA BothRead ==
  ASSUME NEW text, NEW chars, NEW bytes, NEW line, HasRead(text, chars, bytes, line)
  PROVE  /\ Read(text) = DecodedChars(chars)
         /\ LineByLine(text) = bytes \o DecodedChars(TextCodec!Significant(line))
<1>1. /\ text \in Seq(Int) /\ line \in Seq(Int)
      /\ TextCodec!Significant(text) = chars
      /\ IsStateOf([bytes |-> bytes, line |-> line], text) BY DEF HasRead
<1>2. Read(text) = DecodedChars(chars) /\ Read(line) = DecodedChars(TextCodec!Significant(line))
  BY <1>1, ReadIs
<1>3. LineByLine(text) = bytes \o Read(line)
  <2> DEFINE s == [bytes |-> bytes, line |-> line]
  <2>1. IsStateOf(s, text) /\ s.bytes = bytes /\ s.line = line BY <1>1
  <2> HIDE DEF s
  <2>2. LineByLine(text) = s.bytes \o Read(s.line) BY <1>1, <2>1, LinesAreRead
  <2> QED BY <2>1, <2>2
<1> QED BY <1>2, <1>3

----------------------------------------------------------------------------
(* Base64: texts that carry octets *)

\* A sequence that is not empty ends with its last element.
LEMMA LastOf ==
  ASSUME NEW A, NEW s \in Seq(A), NEW n \in Nat, n + 1 <= Len(s)
  PROVE  /\ SubSeq(s, 1, n) \in Seq(A) /\ Len(SubSeq(s, 1, n)) = n
         /\ SubSeq(s, 1, n + 1) = Append(SubSeq(s, 1, n), s[n + 1])
<1> DEFINE t == SubSeq(s, 1, n)
           u == SubSeq(s, 1, n + 1)
<1>1. t \in Seq(A) /\ t = [i \in 1..(n - 1 + 1) |-> s[1 + i - 1]] BY SubSeqOf
<1>2. u \in Seq(A) /\ u = [i \in 1..(n + 1 - 1 + 1) |-> s[1 + i - 1]] BY SubSeqOf
<1>3. n - 1 + 1 = n /\ n + 1 - 1 + 1 = n + 1 /\ \A i \in Nat : 1 + i - 1 = i OBVIOUS
<1>4. t = [i \in 1..n |-> s[i]] /\ u = [i \in 1..(n + 1) |-> s[i]] BY <1>1, <1>2, <1>3
<1>5. \A i \in 1..(n + 1) : s[i] \in A BY ElementOfSeq
<1>6. IsList(t, n, A)
  <2>1. \A i \in 1..n : s[i] \in A BY <1>5
  <2> HIDE DEF t
  <2> QED BY <1>4, <2>1 DEF IsList
<1>7. Len(t) = n BY <1>6, SeqFacts
<1>8. Append(t, s[n + 1]) = [i \in 1..(Len(t) + 1) |-> IF i <= Len(t) THEN t[i] ELSE s[n + 1]]
  BY <1>1, <1>5, AppendProperties
<1> HIDE DEF t, u
<1>9. \A i \in 1..(n + 1) : (IF i <= n THEN t[i] ELSE s[n + 1]) = s[i] BY <1>4
<1>10. u = Append(t, s[n + 1]) BY <1>4, <1>7, <1>8, <1>9
<1> QED BY <1>1, <1>7, <1>10 DEF t, u

LEMMA SeqOfMore ==
  ASSUME NEW A, NEW B, A \subseteq B, NEW s \in Seq(A)
  PROVE  s \in Seq(B)
<1>1. \A i \in 1..Len(s) : s[i] \in B BY ElementOfSeq
<1>2. s = [i \in 1..Len(s) |-> s[i]] /\ Len(s) \in Nat OBVIOUS
<1>3. IsList(s, Len(s), B) BY <1>1, <1>2 DEF IsList
<1> QED BY <1>2, <1>3, SeqFacts

\* Characters of the alphabet are read one after the other.
MoreRead(text, chars, bytes, line, f) ==
  /\ HasRead(text \o f, chars \o f, bytes, line \o f)
  /\ Unpadded(text \o f, line \o f)
  /\ TextCodec!Significant(line \o f) = TextCodec!Significant(line) \o f

LEMMA OneMoreSextet ==
  ASSUME NEW text \in Seq(Int), NEW chars \in Seq(Sextet), NEW bytes, NEW line \in Seq(Int),
         TextCodec!Significant(line) \in Seq(Sextet), NEW t \in Seq(Sextet), NEW x \in Sextet,
         MoreRead(text, chars, bytes, line, t)
  PROVE  MoreRead(text, chars, bytes, line, Append(t, x))
<1> DEFINE sig == TextCodec!Significant(line)
           T == text \o t
           C == chars \o t
           L == line \o t
<1>1. HasRead(T, C, bytes, L) /\ Unpadded(T, L) BY DEF MoreRead
<1>0. TextCodec!Significant(L) = sig \o t BY DEF MoreRead
<1>2. t \in Seq(Int) /\ x \in Int
  <2>1. Sextet \subseteq Int BY DEF Sextet
  <2> QED BY <2>1, SeqOfMore
<1>3. text \o Append(t, x) = Append(T, x) BY <1>2, ConcatOfAppend, SMTT(30)
<1>4. line \o Append(t, x) = Append(L, x) BY <1>2, ConcatOfAppend, SMTT(30)
<1>5. chars \o Append(t, x) = Append(C, x) BY ConcatOfAppend
<1>6. sig \o Append(t, x) = Append(sig \o t, x) BY ConcatOfAppend
<1> HIDE DEF T, C, L, sig
<1>7. HasRead(Append(T, x), Append(C, x), bytes, Append(L, x)) /\ Unpadded(Append(T, x), Append(L, x))
  BY <1>1, ReadSextet
<1>8. TextCodec!Significant(Append(L, x)) = sig \o Append(t, x)
  <2>1. TextCodec!Significant(Append(L, x)) = Append(TextCodec!Significant(L), x)
    BY <1>1, ReadSextet
  <2> QED BY <1>0, <1>6, <2>1
<1> QED BY <1>3, <1>4, <1>5, <1>7, <1>8 DEF MoreRead, sig

LEMMA ReadSextets ==
  ASSUME NEW text, NEW chars, NEW bytes, NEW line, HasRead(text, chars, bytes, line),
         Unpadded(text, line), NEW f \in Seq(Sextet)
  PROVE  MoreRead(text, chars, bytes, line, f)
<1> DEFINE S == {n \in Nat : \A s \in Seq(Sextet) : Len(s) = n => MoreRead(text, chars, bytes, line, s)}
           sig == TextCodec!Significant(line)
<1>1. text \in Seq(Int) /\ line \in Seq(Int) /\ chars \in Seq(Sextet) /\ sig \in Seq(Sextet)
  <2>1. text \in Seq(Int) /\ line \in Seq(Int) /\ TextCodec!Significant(text) = chars
    BY DEF HasRead
  <2> QED BY <2>1, ReadIs
<1>2. 0 \in S
  <2>1. ASSUME NEW s \in Seq(Sextet), Len(s) = 0
        PROVE  MoreRead(text, chars, bytes, line, s)
    <3>1. s = <<>> BY <2>1, EmptySeq
    <3>2. text \o <<>> = text /\ line \o <<>> = line /\ chars \o <<>> = chars /\ sig \o <<>> = sig
      BY <1>1, ConcatEmptySeq
    <3> QED BY <3>1, <3>2 DEF MoreRead
  <2> QED BY <2>1
<1>3. ASSUME NEW n \in Nat, n \in S
      PROVE  n + 1 \in S
  <2>1. ASSUME NEW s \in Seq(Sextet), Len(s) = n + 1
        PROVE  MoreRead(text, chars, bytes, line, s)
    <3> DEFINE t == SubSeq(s, 1, n)
               x == s[n + 1]
    <3>1. t \in Seq(Sextet) /\ Len(t) = n /\ SubSeq(s, 1, n + 1) = Append(t, x) BY <2>1, LastOf
    <3>2. SubSeq(s, 1, n + 1) = s BY <2>1, WholeSeq
    <3>3. x \in Sextet BY <2>1, ElementOfSeq
    <3> HIDE DEF t, x
    <3>4. MoreRead(text, chars, bytes, line, t) BY <1>3, <3>1
    <3> QED BY <1>1, <3>1, <3>2, <3>3, <3>4, OneMoreSextet
  <2> QED BY <2>1
<1>4. Nat \subseteq S BY <1>2, <1>3, StepInduction
<1> QED BY <1>4

\* A text carries octets when either way of reading it gives them; it carries
\* them whole when it ends behind a group of characters.
Carries(text, v) ==
  \E chars, bytes, line :
    /\ HasRead(text, chars, bytes, line)
    /\ DecodedChars(chars) = v
    /\ bytes \o DecodedChars(TextCodec!Significant(line)) = v

CarriesWhole(text, v) ==
  \E chars, bytes, line :
    /\ HasRead(text, chars, bytes, line) /\ Unpadded(text, line)
    /\ IsWhole(chars) /\ IsWhole(TextCodec!Significant(line))
    /\ DecodedChars(chars) = v
    /\ bytes \o DecodedChars(TextCodec!Significant(line)) = v

LEMMA CarriesNothing ==
  CarriesWhole(<<>>, <<>>) /\ DecodedChars(<<>>) = <<>> /\ IsWhole(<<>>)
<1>1. HasRead(<<>>, <<>>, <<>>, <<>>) /\ Unpadded(<<>>, <<>>) BY NothingIsRead
<1> DEFINE e == <<>>
<1>2. e \in Seq(Sextet) /\ Len(e) = 4 * 0 /\ 0 \in Nat BY EmptySeq
<1>3. FlattenSeq(Decoded(e, 0)) = <<>>
  <2>1. Decoded(e, 0) = <<>> BY DEF Decoded
  <2> QED BY <2>1, FlattenOfNothing
<1> HIDE DEF e
<1>4. IsWhole(e) BY <1>2 DEF IsWhole
<1>5. DecodedChars(e) = <<>> BY <1>2, <1>3, DecodedWhole
<1>6. <<>> \o <<>> = <<>> OBVIOUS
<1> QED BY <1>1, <1>4, <1>5, <1>6, SignificantOfNothing DEF CarriesWhole, e

LEMMA CarriesBoth ==
  ASSUME NEW text, NEW v, Carries(text, v)
  PROVE  Read(text) = v /\ LineByLine(text) = v
  BY BothRead DEF Carries

\* One more group of characters carries its octets.
LEMMA CarriesGroup ==
  ASSUME NEW text, NEW v, CarriesWhole(text, v), NEW g \in Seq(Sextet), Len(g) = 4
  PROVE  CarriesWhole(text \o g, v \o TextCodec!int_decode_int(g))
<1>1. PICK chars, bytes, line :
        /\ HasRead(text, chars, bytes, line) /\ Unpadded(text, line)
        /\ IsWhole(chars) /\ IsWhole(TextCodec!Significant(line))
        /\ DecodedChars(chars) = v
        /\ bytes \o DecodedChars(TextCodec!Significant(line)) = v BY DEF CarriesWhole
<1> DEFINE sig == TextCodec!Significant(line)
           d == TextCodec!int_decode_int(g)
<1>2. MoreRead(text, chars, bytes, line, g) BY <1>1, ReadSextets
<1>3. chars \in Seq(Sextet) /\ sig \in Seq(Sextet) BY <1>1 DEF IsWhole
<1>4. /\ IsWhole(chars \o g) /\ DecodedChars(chars \o g) = DecodedChars(chars) \o d
      /\ IsWhole(sig \o g) /\ DecodedChars(sig \o g) = DecodedChars(sig) \o d
  BY <1>1, <1>3, DecodedMore
<1>5. bytes \in Seq(Byte) /\ DecodedChars(sig) \in Seq(Byte) /\ d \in Seq(Byte)
  <2>1. 1 \in 1..Len(g) /\ 2 \in 1..Len(g) /\ 3 \in 1..Len(g) /\ 4 \in 1..Len(g) OBVIOUS
  <2>2. \A i \in 1..Len(g) : g[i] \in Sextet BY ElementOfSeq
  <2>3. IsGroup(g) BY <2>1, <2>2 DEF IsGroup
  <2>4. d \in Seq(Byte) BY <2>3, DecodedGroup
  <2> QED BY <1>1, <1>3, <2>4, DecodedCharsType DEF HasRead
<1>6. (bytes \o DecodedChars(sig)) \o d = bytes \o (DecodedChars(sig) \o d)
  <2> DEFINE e == DecodedChars(sig)
  <2>1. bytes \in Seq(Byte) /\ e \in Seq(Byte) /\ d \in Seq(Byte) BY <1>5
  <2> HIDE DEF d, e
  <2>2. (bytes \o e) \o d = bytes \o (e \o d) BY <2>1, ConcatAssociative
  <2> QED BY <2>2 DEF e
<1> HIDE DEF d
<1>7. /\ HasRead(text \o g, chars \o g, bytes, line \o g)
      /\ Unpadded(text \o g, line \o g)
      /\ TextCodec!Significant(line \o g) = sig \o g BY <1>2 DEF MoreRead
<1>8. CarriesWhole(text \o g, v \o d) BY <1>1, <1>4, <1>6, <1>7 DEF CarriesWhole
<1> QED BY <1>8 DEF d

\* So do characters left over.
LEMMA CarriesFinal ==
  ASSUME NEW text, NEW v, CarriesWhole(text, v), NEW f \in Seq(Sextet), Len(f) <= 3
  PROVE  Carries(text \o f, v \o TextCodec!int_decode_final(f))
<1>1. PICK chars, bytes, line :
        /\ HasRead(text, chars, bytes, line) /\ Unpadded(text, line)
        /\ IsWhole(chars) /\ IsWhole(TextCodec!Significant(line))
        /\ DecodedChars(chars) = v
        /\ bytes \o DecodedChars(TextCodec!Significant(line)) = v BY DEF CarriesWhole
<1> DEFINE sig == TextCodec!Significant(line)
           d == TextCodec!int_decode_final(f)
<1>2. MoreRead(text, chars, bytes, line, f) BY <1>1, ReadSextets
<1>3. chars \in Seq(Sextet) /\ sig \in Seq(Sextet) BY <1>1 DEF IsWhole
<1>4. /\ DecodedChars(chars \o f) = DecodedChars(chars) \o d
      /\ DecodedChars(sig \o f) = DecodedChars(sig) \o d BY <1>1, <1>3, DecodedFinal
<1>5. bytes \in Seq(Byte) /\ DecodedChars(sig) \in Seq(Byte) /\ d \in Seq(Byte)
  BY <1>1, <1>3, FinalType, DecodedCharsType DEF HasRead
<1>6. (bytes \o DecodedChars(sig)) \o d = bytes \o (DecodedChars(sig) \o d)
  <2> DEFINE e == DecodedChars(sig)
  <2>1. bytes \in Seq(Byte) /\ e \in Seq(Byte) /\ d \in Seq(Byte) BY <1>5
  <2> HIDE DEF d, e
  <2>2. (bytes \o e) \o d = bytes \o (e \o d) BY <2>1, ConcatAssociative
  <2> QED BY <2>2 DEF e
<1> HIDE DEF d
<1>7. /\ HasRead(text \o f, chars \o f, bytes, line \o f)
      /\ TextCodec!Significant(line \o f) = sig \o f BY <1>2 DEF MoreRead
<1>8. Carries(text \o f, v \o d) BY <1>1, <1>4, <1>6, <1>7 DEF Carries
<1> QED BY <1>8 DEF d

\* Pads and the end of a line change nothing.
LEMMA CarriesMore ==
  ASSUME NEW text, NEW v, Carries(text, v), NEW x \in {TextCodec!Pad, TextCodec!CR, TextCodec!LF}
  PROVE  Carries(Append(text, x), v)
<1>1. PICK chars, bytes, line :
        /\ HasRead(text, chars, bytes, line)
        /\ DecodedChars(chars) = v
        /\ bytes \o DecodedChars(TextCodec!Significant(line)) = v BY DEF Carries
<1>2. CASE x \in {TextCodec!Pad, TextCodec!CR}
  <2>1. /\ HasRead(Append(text, x), chars, bytes, Append(line, x))
        /\ TextCodec!Significant(Append(line, x)) = TextCodec!Significant(line)
    BY <1>1, <1>2, ReadOther
  <2> QED BY <1>1, <2>1 DEF Carries
<1>3. CASE x = TextCodec!LF
  <2>1. line \in Seq(Int) BY <1>1 DEF HasRead
  <2>2. Read(line) = DecodedChars(TextCodec!Significant(line)) BY <2>1, ReadIs
  <2>3. HasRead(Append(text, x), chars, v, <<>>) BY <1>1, <1>3, <2>2, ReadLF
  <2>4. v \in Seq(Byte) BY <2>3 DEF HasRead
  <2>5. v \o DecodedChars(TextCodec!Significant(<<>>)) = v
    BY <2>4, CarriesNothing, SignificantOfNothing, ConcatEmptySeq
  <2> QED BY <1>1, <2>3, <2>5 DEF Carries
<1> QED BY <1>2, <1>3

LEMMA CarriesSeparator ==
  ASSUME NEW text, NEW v, CarriesWhole(text, v)
  PROVE  CarriesWhole(Append(Append(text, TextCodec!CR), TextCodec!LF), v)
<1>1. PICK chars, bytes, line :
        /\ HasRead(text, chars, bytes, line) /\ Unpadded(text, line)
        /\ IsWhole(chars) /\ IsWhole(TextCodec!Significant(line))
        /\ DecodedChars(chars) = v
        /\ bytes \o DecodedChars(TextCodec!Significant(line)) = v BY DEF CarriesWhole
<1> DEFINE t == Append(text, TextCodec!CR)
           l == Append(line, TextCodec!CR)
           u == Append(t, TextCodec!LF)
<1>2. /\ HasRead(t, chars, bytes, l) /\ Unpadded(t, l)
      /\ TextCodec!Significant(l) = TextCodec!Significant(line) BY <1>1, ReadOther
<1> HIDE DEF t, l
<1>3. l \in Seq(Int) BY <1>2 DEF HasRead
<1>4. Read(l) = DecodedChars(TextCodec!Significant(line)) BY <1>2, <1>3, ReadIs
<1>5. HasRead(u, chars, v, <<>>) /\ Unpadded(u, <<>>) BY <1>1, <1>2, <1>4, ReadLF
<1>6. v \in Seq(Byte) BY <1>5 DEF HasRead
<1>7. v \o DecodedChars(TextCodec!Significant(<<>>)) = v /\ IsWhole(TextCodec!Significant(<<>>))
  BY <1>6, CarriesNothing, SignificantOfNothing, ConcatEmptySeq
<1> HIDE DEF u
<1>8. CarriesWhole(u, v) BY <1>1, <1>5, <1>7 DEF CarriesWhole
<1> QED BY <1>8 DEF u, t

----------------------------------------------------------------------------
(* Base64: what is encoded is carried *)

LEMMA TwoMore ==
  ASSUME NEW A, NEW s \in Seq(A), NEW x \in A, NEW y \in A
  PROVE  s \o <<x, y>> = Append(Append(s, x), y)
<1> DEFINE e == <<x>>
<1>1. e \in Seq(A) /\ <<x, y>> = Append(e, y) OBVIOUS
<1>2. s \o e = Append(s, x) BY ConcatOne
<1> HIDE DEF e
<1>3. s \o Append(e, y) = Append(s \o e, y) BY <1>1, ConcatOfAppend
<1> QED BY <1>1, <1>2, <1>3

LEMMA ThreeMore ==
  ASSUME NEW A, NEW s \in Seq(A), NEW x \in A, NEW y \in A, NEW z \in A
  PROVE  s \o <<x, y, z>> = Append(Append(Append(s, x), y), z)
<1> DEFINE e == <<x, y>>
<1>1. e \in Seq(A) /\ <<x, y, z>> = Append(e, z) OBVIOUS
<1>2. s \o e = Append(Append(s, x), y) BY TwoMore
<1> HIDE DEF e
<1>3. s \o Append(e, z) = Append(s \o e, z) BY <1>1, ConcatOfAppend
<1> QED BY <1>1, <1>2, <1>3

LEMMA EncodedGroup ==
  ASSUME NEW b1 \in Byte, NEW b2 \in Byte, NEW b3 \in Byte
  PROVE  LET g == TextCodec!int_encode_int(b1, b2, b3)
         IN  /\ g \in Seq(Sextet) /\ Len(g) = 4
             /\ TextCodec!int_decode_int(g) = <<b1, b2, b3>>
<1> DEFINE a == b1 \div 4
           b == 16 * (b1 % 4) + (b2 \div 16)
           c == 4 * (b2 % 16) + (b3 \div 64)
           d == b3 % 64
           g == TextCodec!int_encode_int(b1, b2, b3)
<1>1. g = <<a, b, c, d>> BY DEF TextCodec!int_encode_int
<1>2. IsGroup(g) /\ TextCodec!int_decode_int(g) = <<b1, b2, b3>> BY GroupComesBack
<1> HIDE DEF a, b, c, d, g
<1>3. g[1] = a /\ g[2] = b /\ g[3] = c /\ g[4] = d BY <1>1
<1>4. a \in Sextet /\ b \in Sextet /\ c \in Sextet /\ d \in Sextet BY <1>2, <1>3 DEF IsGroup
<1>5. g \in Seq(Sextet) /\ Len(g) = 4 BY <1>1, <1>4
<1> QED BY <1>2, <1>5 DEF g

\* A group of characters, with or without the end of a line behind it.
IsPiece(p, g) == p = g \/ p = g \o TextCodec!krypt_b64_separator

LEMMA CarriesPiece ==
  ASSUME NEW t \in Seq(Int), NEW w, CarriesWhole(t, w), NEW p,
         NEW b1 \in Byte, NEW b2 \in Byte, NEW b3 \in Byte,
         IsPiece(p, TextCodec!int_encode_int(b1, b2, b3))
  PROVE  p \in Seq(Int) /\ CarriesWhole(t \o p, w \o <<b1, b2, b3>>)
<1> DEFINE g == TextCodec!int_encode_int(b1, b2, b3)
           d == <<b1, b2, b3>>
           x == TextCodec!CR
           y == TextCodec!LF
<1>1. g \in Seq(Sextet) /\ Len(g) = 4 /\ TextCodec!int_decode_int(g) = d BY EncodedGroup
<1>2. IsPiece(p, g) OBVIOUS
<1> HIDE DEF g, d
<1>3. CarriesWhole(t \o g, w \o d) BY <1>1, CarriesGroup
<1>4. g \in Seq(Int)
  <2>1. Sextet \subseteq Int BY DEF Sextet
  <2> QED BY <1>1, <2>1, SeqOfMore
<1>5. CASE p = g BY <1>3, <1>4, <1>5 DEF d
<1>6. CASE p = g \o TextCodec!krypt_b64_separator
  <2>1. x \in Int /\ y \in Int /\ TextCodec!krypt_b64_separator = <<x, y>>
    BY DEF TextCodec!CR, TextCodec!LF, TextCodec!krypt_b64_separator
  <2>2. CarriesWhole(Append(Append(t \o g, x), y), w \o d) BY <1>3, CarriesSeparator
  <2> HIDE DEF x, y
  <2>3. p = g \o <<x, y>> BY <1>6, <2>1
  <2>4. g \o <<x, y>> \in Seq(Int) BY <1>4, <2>1
  <2>5. <<x, y>> \in Seq(Int) BY <2>1
  <2>6. (t \o g) \o <<x, y>> = t \o (g \o <<x, y>>) BY <1>4, <2>5, ConcatAssociative, SMTT(30)
  <2>7. t \o g \in Seq(Int) BY <1>4, ConcatProperties
  <2>8. (t \o g) \o <<x, y>> = Append(Append(t \o g, x), y) BY <2>1, <2>7, TwoMore
  <2> QED BY <2>2, <2>3, <2>4, <2>6, <2>8 DEF d
<1> QED BY <1>2, <1>5, <1>6 DEF IsPiece

ArePieces(pieces, v, m) ==
  /\ IsList(pieces, m, Seq(Int))
  /\ \A g \in 1..m : IsPiece(pieces[g], TextCodec!int_encode_int(v[3 * g - 2], v[3 * g - 1], v[3 * g]))

LEMMA PiecesCarry ==
  ASSUME NEW v \in Seq(Byte), NEW m \in Nat, 3 * m <= Len(v), NEW pieces, ArePieces(pieces, v, m)
  PROVE  FlattenSeq(pieces) \in Seq(Int) /\ CarriesWhole(FlattenSeq(pieces), SubSeq(v, 1, 3 * m))
<1> DEFINE Upto(n) == /\ FlattenSeq(SubSeq(pieces, 1, n)) \in Seq(Int)
                      /\ CarriesWhole(FlattenSeq(SubSeq(pieces, 1, n)), SubSeq(v, 1, 3 * n))
           S == {n \in Nat : n <= m => Upto(n)}
<1>1. pieces \in Seq(Seq(Int)) /\ Len(pieces) = m BY SeqFacts DEF ArePieces
<1>2. \A g \in 1..m : IsPiece(pieces[g], TextCodec!int_encode_int(v[3 * g - 2], v[3 * g - 1], v[3 * g]))
  BY DEF ArePieces
<1>3. 0 \in S
  <2>1. SubSeq(pieces, 1, 0) = <<>> /\ SubSeq(v, 1, 3 * 0) = <<>> OBVIOUS
  <2>2. Upto(0) BY <2>1, FlattenOfNothing, CarriesNothing, EmptySeq
  <2> QED BY <2>2
<1>4. ASSUME NEW n \in Nat, n \in S
      PROVE  n + 1 \in S
  <2> SUFFICES ASSUME n + 1 <= m PROVE Upto(n + 1) OBVIOUS
  <2> DEFINE s == SubSeq(pieces, 1, n)
             t == FlattenSeq(s)
             w == SubSeq(v, 1, 3 * n)
             k == 3 * n
             p == pieces[n + 1]
  <2>1. t \in Seq(Int) /\ CarriesWhole(t, w) BY <1>4
  <2>2. s \in Seq(Seq(Int)) /\ SubSeq(pieces, 1, n + 1) = Append(s, p) BY <1>1, LastOf
  <2>3. k \in Nat /\ 3 * (n + 1) - 2 = k + 1 /\ 3 * (n + 1) - 1 = k + 2 /\ 3 * (n + 1) = k + 3 /\ k + 3 <= Len(v)
    OBVIOUS
  <2>4. n + 1 \in 1..m OBVIOUS
  <2> HIDE DEF k
  <2>5. IsPiece(p, TextCodec!int_encode_int(v[k + 1], v[k + 2], v[k + 3])) BY <1>2, <2>3, <2>4
  <2>6. v[k + 1] \in Byte /\ v[k + 2] \in Byte /\ v[k + 3] \in Byte
    <3>1. k + 1 \in 1..Len(v) /\ k + 2 \in 1..Len(v) /\ k + 3 \in 1..Len(v) BY <2>3
    <3> QED BY <3>1, ElementOfSeq
  <2>7. SubSeq(v, 1, k + 3) = SubSeq(v, 1, k) \o <<v[k + 1], v[k + 2], v[k + 3]>>
    <3>1. /\ k + 1 \in Nat /\ k + 2 \in Nat /\ (k + 1) + 1 = k + 2 /\ (k + 2) + 1 = k + 3
          /\ k + 1 <= Len(v) /\ k + 2 <= Len(v) BY <2>3
    <3>2. /\ SubSeq(v, 1, k + 1) = Append(SubSeq(v, 1, k), v[k + 1])
          /\ SubSeq(v, 1, k) \in Seq(Byte) BY <2>3, <3>1, LastOf
    <3>3. SubSeq(v, 1, (k + 1) + 1) = Append(SubSeq(v, 1, k + 1), v[(k + 1) + 1]) BY <3>1, LastOf
    <3>4. SubSeq(v, 1, (k + 2) + 1) = Append(SubSeq(v, 1, k + 2), v[(k + 2) + 1])
      BY <2>3, <3>1, LastOf
    <3>5. SubSeq(v, 1, k) \o <<v[k + 1], v[k + 2], v[k + 3]>>
          = Append(Append(Append(SubSeq(v, 1, k), v[k + 1]), v[k + 2]), v[k + 3])
      <4> DEFINE u == SubSeq(v, 1, k)
                 x == v[k + 1]
                 y == v[k + 2]
                 z == v[k + 3]
      <4>1. u \in Seq(Byte) /\ x \in Byte /\ y \in Byte /\ z \in Byte BY <2>6, <3>2
      <4> HIDE DEF u, x, y, z
      <4>2. u \o <<x, y, z>> = Append(Append(Append(u, x), y), z) BY <4>1, ThreeMore
      <4> QED BY <4>2 DEF u, x, y, z
    <3> QED BY <3>1, <3>2, <3>3, <3>4, <3>5
  <2> HIDE DEF t, p
  <2>8. p \in Seq(Int) /\ CarriesWhole(t \o p, w \o <<v[k + 1], v[k + 2], v[k + 3]>>)
    BY <2>1, <2>5, <2>6, CarriesPiece
  <2>9. w \o <<v[k + 1], v[k + 2], v[k + 3]>> = SubSeq(v, 1, 3 * (n + 1)) BY <2>3, <2>7 DEF k
  <2>10. FlattenSeq(SubSeq(pieces, 1, n + 1)) = t \o p BY <2>2, <2>8, FlattenOfAppend DEF t
  <2>11. t \o p \in Seq(Int) BY <2>1, <2>8, ConcatProperties
  <2> QED BY <2>8, <2>9, <2>10, <2>11
<1>5. Nat \subseteq S BY <1>3, <1>4, StepInduction
<1>6. Upto(m) BY <1>5
<1>7. SubSeq(pieces, 1, m) = pieces BY <1>1, WholeSeq
<1> QED BY <1>6, <1>7

LEMMA CarriesTail ==
  ASSUME NEW t \in Seq(Int), NEW v, Carries(t, v), NEW e \in {<<>>, TextCodec!krypt_b64_separator}
  PROVE  t \o e \in Seq(Int) /\ Carries(t \o e, v)
<1>1. CASE e = <<>>
  <2>1. t \o <<>> = t BY ConcatEmptySeq
  <2> QED BY <1>1, <2>1
<1>2. CASE e = TextCodec!krypt_b64_separator
  <2> DEFINE x == TextCodec!CR
             y == TextCodec!LF
  <2>1. x \in Int /\ y \in Int /\ e = <<x, y>>
    BY <1>2 DEF TextCodec!CR, TextCodec!LF, TextCodec!krypt_b64_separator
  <2>2. Carries(Append(Append(t, x), y), v) BY CarriesMore
  <2> HIDE DEF x, y
  <2>3. t \o <<x, y>> = Append(Append(t, x), y) BY <2>1, TwoMore
  <2>4. <<x, y>> \in Seq(Int) BY <2>1
  <2>5. t \o <<x, y>> \in Seq(Int) BY <2>4, ConcatProperties
  <2> QED BY <2>1, <2>2, <2>3, <2>5
<1> QED BY <1>1, <1>2

\* One octet or two behind the groups.
LEMMA CarriesRemainder ==
  ASSUME NEW t \in Seq(Int), NEW w \in Seq(Byte), CarriesWhole(t, w),
         NEW r \in Seq(Byte), r = <<>> \/ Len(r) = 1 \/ Len(r) = 2
  PROVE  LET f == IF r = <<>> THEN <<>> ELSE TextCodec!int_encode_final(r)
         IN  f \in Seq(Int) /\ Carries(t \o f, w \o r)
<1> DEFINE F == IF r = <<>> THEN <<>> ELSE TextCodec!int_encode_final(r)
           p == TextCodec!Pad
<1>1. CASE r = <<>>
  <2>1. t \o <<>> = t /\ w \o <<>> = w BY ConcatEmptySeq
  <2>2. Carries(t, w) BY DEF CarriesWhole, Carries
  <2> QED BY <1>1, <2>1, <2>2, EmptySeq
<1>2. p \in Int /\ <<p>> \in Seq(Int) /\ <<p, p>> \in Seq(Int) BY DEF TextCodec!Pad
<1>3. Sextet \subseteq Int BY DEF Sextet
<1>4. CASE Len(r) = 1
  <2> DEFINE x == r[1]
             f == SubSeq(TextCodec!int_encode_int(x, 0, 0), 1, 2)
  <2>1. x \in Byte /\ r = <<x>> /\ r # <<>>
    <3>1. SubSeq(r, 1, Len(r)) = r BY WholeSeq
    <3>2. Len(r) >= 1 /\ 1 \in 1..Len(r) BY <1>4
    <3>3. SubSeq(r, 1, 1) = <<r[1]>> /\ r[1] \in Byte BY <3>2, FrontOf, ElementOfSeq
    <3>4. r = <<x>> /\ x \in Byte BY <1>4, <3>1, <3>3
    <3>5. r # <<>> BY <1>4
    <3> QED BY <3>4, <3>5
  <2>2. f \in Seq(Sextet) /\ Len(f) = 2 /\ TextCodec!int_decode_final(f) = <<x>>
    BY <2>1, OneComesBack
  <2>3. F = f \o <<p, p>> BY <1>4, <2>1 DEF TextCodec!int_encode_final
  <2> HIDE DEF f, x, F
  <2>4. Len(f) <= 3 BY <2>2
  <2>5. Carries(t \o f, w \o r) BY <2>1, <2>2, <2>4, CarriesFinal
  <2>6. f \in Seq(Int) BY <1>3, <2>2, SeqOfMore
  <2>7. t \o f \in Seq(Int) /\ f \o <<p, p>> \in Seq(Int) BY <1>2, <2>6, ConcatProperties
  <2>8. Carries(Append(Append(t \o f, p), p), w \o r) BY <2>5, CarriesMore
  <2> HIDE DEF p
  <2>9. (t \o f) \o <<p, p>> = Append(Append(t \o f, p), p) BY <1>2, <2>7, TwoMore
  <2>10. (t \o f) \o <<p, p>> = t \o (f \o <<p, p>>) BY <1>2, <2>6, ConcatAssociative, SMTT(30)
  <2> QED BY <2>3, <2>7, <2>8, <2>9, <2>10 DEF F
<1>5. CASE Len(r) = 2
  <2> DEFINE x == r[1]
             y == r[2]
             f == SubSeq(TextCodec!int_encode_int(x, y, 0), 1, 3)
  <2>1. x \in Byte /\ y \in Byte /\ r = <<x, y>> /\ r # <<>> BY <1>5
  <2>2. f \in Seq(Sextet) /\ Len(f) = 3 /\ TextCodec!int_decode_final(f) = <<x, y>>
    BY <2>1, TwoComeBack
  <2>3. F = f \o <<p>>
    <3>1. Len(r) # 1 BY <1>5
    <3> QED BY <2>1, <3>1 DEF TextCodec!int_encode_final
  <2> HIDE DEF f, x, y, F
  <2>4. Len(f) <= 3 BY <2>2
  <2>5. Carries(t \o f, w \o r) BY <2>1, <2>2, <2>4, CarriesFinal
  <2>6. f \in Seq(Int) BY <1>3, <2>2, SeqOfMore
  <2>7. t \o f \in Seq(Int) /\ f \o <<p>> \in Seq(Int) BY <1>2, <2>6, ConcatProperties
  <2>8. Carries(Append(t \o f, p), w \o r) BY <2>5, CarriesMore
  <2> HIDE DEF p
  <2>9. (t \o f) \o <<p>> = Append(t \o f, p) BY <1>2, <2>7, ConcatOne
  <2>10. (t \o f) \o <<p>> = t \o (f \o <<p>>) BY <1>2, <2>6, ConcatAssociative, SMTT(30)
  <2> QED BY <2>3, <2>7, <2>8, <2>9, <2>10 DEF F
<1> QED BY <1>1, <1>4, <1>5

\* The front of a sequence.
LEMMA FrontIs ==
  ASSUME NEW A, NEW s \in Seq(A), NEW n \in Nat, n <= Len(s)
  PROVE  /\ SubSeq(s, 1, n) \in Seq(A) /\ Len(SubSeq(s, 1, n)) = n
         /\ \A i \in 1..n : SubSeq(s, 1, n)[i] = s[i]
<1> DEFINE t == SubSeq(s, 1, n)
<1>1. t \in Seq(A) /\ t = [i \in 1..(n - 1 + 1) |-> s[1 + i - 1]] BY SubSeqOf
<1>2. n - 1 + 1 = n /\ \A i \in Nat : 1 + i - 1 = i OBVIOUS
<1>3. t = [i \in 1..n |-> s[i]] BY <1>1, <1>2
<1>4. \A i \in 1..n : s[i] \in A BY ElementOfSeq
<1> HIDE DEF t
<1>5. IsList(t, n, A) BY <1>3, <1>4 DEF IsList
<1>6. Len(t) = n BY <1>5, SeqFacts
<1> QED BY <1>1, <1>3, <1>6 DEF t

LEMMA BackIs ==
  ASSUME NEW A, NEW s \in Seq(A), NEW k \in Nat, k <= Len(s)
  PROVE  SubSeq(s, k + 1, Len(s)) = [i \in 1..(Len(s) - k) |-> s[k + i]]
<1> DEFINE n == Len(s)
           r == SubSeq(s, k + 1, n)
<1>1. n \in Nat OBVIOUS
<1>2. r = [i \in 1..(n - (k + 1) + 1) |-> s[k + 1 + i - 1]]
  <2>1. k + 1 \in Nat \ {0} /\ n \in Int /\ n <= Len(s) BY <1>1
  <2> QED BY <2>1, SubSeqOf
<1> HIDE DEF n
<1>3. n - (k + 1) + 1 = n - k /\ \A i \in Nat : k + 1 + i - 1 = k + i BY <1>1
<1>4. \A i \in 1..(n - k) : s[k + 1 + i - 1] = s[k + i] BY <1>3
<1> HIDE DEF r
<1>5. r = [i \in 1..(n - k) |-> s[k + 1 + i - 1]] BY <1>2, <1>3
<1> QED BY <1>4, <1>5 DEF r, n

\* The octets are those of the groups and those left over.
LEMMA Divided ==
  ASSUME NEW v \in Seq(Byte)
  PROVE  LET m == Len(v) \div 3
             r == TextCodec!Remainder(v)
         IN  /\ m \in Nat /\ 3 * m <= Len(v)
             /\ SubSeq(v, 1, 3 * m) \in Seq(Byte)
             /\ r \in Seq(Byte) /\ (r = <<>> \/ Len(r) = 1 \/ Len(r) = 2)
             /\ SubSeq(v, 1, 3 * m) \o r = v
<1> DEFINE n == Len(v)
           m == n \div 3
           k == 3 * m
           q == n % 3
           w == SubSeq(v, 1, k)
           r == SubSeq(v, k + 1, n)
<1>1. n \in Nat OBVIOUS
<1>2. TextCodec!Remainder(v) = SubSeq(v, n - q + 1, n) BY DEF TextCodec!Remainder
<1>3. m \in Nat /\ q \in 0..2 /\ n = 3 * m + q BY <1>1
<1>4. k \in Nat /\ k <= n /\ n - q + 1 = k + 1 /\ (n - k = 0 \/ n - k = 1 \/ n - k = 2) BY <1>3
<1> HIDE DEF k
<1>5. w \in Seq(Byte) /\ Len(w) = k BY <1>4, FrontIs
<1>6. r \in Seq(Byte)
  <2>1. k + 1 \in Nat \ {0} /\ n \in Int /\ n <= Len(v) BY <1>1, <1>4
  <2> QED BY <2>1, SubSeqOf
<1>7. n - k \in Nat BY <1>1, <1>4
<1>8. r = [i \in 1..(n - k) |-> v[k + i]] BY <1>4, BackIs
<1> HIDE DEF r, w, m, q
<1>9. Len(r) = n - k
  <2>1. DOMAIN r = 1..(n - k) /\ DOMAIN r = 1..Len(r) /\ Len(r) \in Nat
    BY <1>6, <1>8, LenProperties
  <2> QED BY <1>7, <2>1
<1>10. r = <<>> \/ Len(r) = 1 \/ Len(r) = 2 BY <1>4, <1>6, <1>9, EmptySeq
<1>11. w \o r = v
  <2> DEFINE u == w \o r
  <2>1. u \in Seq(Byte) /\ IsConcat(u, w, r) BY <1>5, <1>6, ConcatIs
  <2> HIDE DEF u
  <2>2. Len(u) = n /\ (\A i \in 1..k : u[i] = w[i]) /\ (\A i \in 1..(n - k) : u[k + i] = r[i])
    BY <1>1, <1>4, <1>5, <1>9, <2>1 DEF IsConcat
  <2>3. \A i \in 1..k : w[i] = v[i] BY <1>4, FrontIs DEF w
  <2>4. ASSUME NEW i \in 1..n
        PROVE  u[i] = v[i]
    <3>1. CASE i \in 1..k BY <2>2, <2>3, <3>1
    <3>2. CASE i \notin 1..k
      <4>1. i - k \in 1..(n - k) /\ k + (i - k) = i BY <1>1, <1>4, <3>2
      <4> QED BY <1>8, <2>2, <4>1
    <3> QED BY <3>1, <3>2
  <2>5. v \in Seq(Byte) /\ Len(v) = n OBVIOUS
  <2> HIDE DEF n
  <2>6. u = v BY <2>1, <2>2, <2>4, <2>5, SeqEqual
  <2> QED BY <2>6 DEF u
<1> QED BY <1>2, <1>3, <1>4, <1>5, <1>6, <1>10, <1>11 DEF r, w, m, q, k

LEMMA GroupsArePieces ==
  ASSUME NEW v \in Seq(Byte), NEW m \in Nat, 3 * m <= Len(v), NEW pieces,
         pieces = [g \in 1..m |-> pieces[g]],
         \A g \in 1..m : IsPiece(pieces[g], TextCodec!int_encode_int(v[3 * g - 2], v[3 * g - 1], v[3 * g]))
  PROVE  ArePieces(pieces, v, m)
<1>1. ASSUME NEW g \in 1..m
      PROVE  pieces[g] \in Seq(Int)
  <2> DEFINE b1 == v[3 * g - 2]
             b2 == v[3 * g - 1]
             b3 == v[3 * g]
  <2>1. 3 * g - 2 \in 1..Len(v) /\ 3 * g - 1 \in 1..Len(v) /\ 3 * g \in 1..Len(v) OBVIOUS
  <2>2. b1 \in Byte /\ b2 \in Byte /\ b3 \in Byte BY <2>1, ElementOfSeq
  <2>3. IsPiece(pieces[g], TextCodec!int_encode_int(b1, b2, b3)) OBVIOUS
  <2> HIDE DEF b1, b2, b3
  <2>4. <<>> \in Seq(Int) BY EmptySeq
  <2> QED BY <2>2, <2>3, <2>4, CarriesNothing, CarriesPiece
<1>2. IsList(pieces, m, Seq(Int)) BY <1>1 DEF IsList
<1> QED BY <1>2 DEF ArePieces

IsBody(t, v) == t \in Seq(Int) /\ CarriesWhole(t, SubSeq(v, 1, 3 * (Len(v) \div 3)))

LEMMA BodyOf ==
  ASSUME NEW v \in Seq(Byte), NEW c \in Int
  PROVE  /\ IsBody(TextCodec!int_write_update(TextCodec!Groups(v)), v)
         /\ IsBody(TextCodec!int_write_update_cols(TextCodec!Groups(v), c), v)
<1> DEFINE n == Len(v)
           m == n \div 3
           G(g) == TextCodec!int_encode_int(v[3 * g - 2], v[3 * g - 1], v[3 * g])
           p == TextCodec!Groups(v)
           perLine == IF c = 0 THEN 1 ELSE (c + 3) \div 4
           sep == TextCodec!krypt_b64_separator
           q == [g \in DOMAIN p |-> p[g] \o IF g % perLine = 0 THEN sep ELSE <<>>]
<1>1. m \in Nat /\ 3 * m <= Len(v) BY Divided
<1>2. p = [g \in 1..m |-> G(g)] BY DEF TextCodec!Groups
<1>3. TextCodec!int_write_update(p) = FlattenSeq(p) BY SameFlatten DEF TextCodec!int_write_update
<1>4. TextCodec!int_write_update_cols(p, c) = FlattenSeq(q)
  <2>1. TextCodec!int_write_update_cols(p, c) = TextCodec!FlattenSeq(q)
    BY Zenon DEF TextCodec!int_write_update_cols
  <2> QED BY <2>1, SameFlatten
<1> HIDE DEF p, m, sep, perLine
<1>5. ArePieces(p, v, m)
  <2>1. \A g \in 1..m : p[g] = G(g) BY <1>2
  <2>2. p = [g \in 1..m |-> p[g]] BY <1>2
  <2> HIDE DEF G
  <2>3. \A g \in 1..m : IsPiece(p[g], G(g)) BY <2>1 DEF IsPiece
  <2> QED BY <1>1, <2>2, <2>3, GroupsArePieces DEF G
<1>6. ArePieces(q, v, m)
  <2>1. \A g \in 1..m : p[g] = G(g) /\ p[g] \in Seq(Int) BY <1>2, <1>5 DEF ArePieces, IsList
  <2>2. DOMAIN p = 1..m BY <1>2
  <2>3. q = [g \in 1..m |-> q[g]] /\ \A g \in 1..m : q[g] = p[g] \o sep \/ q[g] = p[g] \o <<>>
    BY <2>2
  <2> HIDE DEF G, q
  <2>4. \A g \in 1..m : p[g] \o <<>> = p[g] BY <2>1, ConcatEmptySeq
  <2>5. \A g \in 1..m : IsPiece(q[g], G(g)) BY <2>1, <2>3, <2>4 DEF IsPiece, sep
  <2> QED BY <1>1, <2>3, <2>5, GroupsArePieces DEF G
<1> HIDE DEF q
<1>7. /\ FlattenSeq(p) \in Seq(Int) /\ CarriesWhole(FlattenSeq(p), SubSeq(v, 1, 3 * m))
      /\ FlattenSeq(q) \in Seq(Int) /\ CarriesWhole(FlattenSeq(q), SubSeq(v, 1, 3 * m))
  BY <1>1, <1>5, <1>6, PiecesCarry
<1> QED BY <1>3, <1>4, <1>7 DEF IsBody, m, p

\* The text of octets carries them.
LEMMA EncodedCarries ==
  ASSUME NEW v \in Seq(Byte), NEW c \in Int
  PROVE  Carries(TextCodec!krypt_base64_buffer_encode_to(v, c), v)
<1> DEFINE G == TextCodec!Groups(v)
           t == IF c < 0 THEN TextCodec!int_write_update(G) ELSE TextCodec!int_write_update_cols(G, c)
           r == TextCodec!Remainder(v)
           f == IF r = <<>> THEN <<>> ELSE TextCodec!int_encode_final(r)
           e == IF c > 0 THEN TextCodec!krypt_b64_separator ELSE <<>>
           w == SubSeq(v, 1, 3 * (Len(v) \div 3))
<1>1. TextCodec!krypt_base64_buffer_encode_to(v, c) = t \o (f \o e)
  BY DEF TextCodec!krypt_base64_buffer_encode_to, TextCodec!int_write_final
<1>2. t \in Seq(Int) /\ CarriesWhole(t, w)
  <2>1. IsBody(t, v) BY BodyOf
  <2> QED BY <2>1 DEF IsBody
<1>3. w \in Seq(Byte) /\ r \in Seq(Byte) /\ (r = <<>> \/ Len(r) = 1 \/ Len(r) = 2) /\ w \o r = v
  BY Divided
<1> HIDE DEF t, w, r
<1>4. f \in Seq(Int) /\ Carries(t \o f, w \o r) BY <1>2, <1>3, CarriesRemainder
<1> HIDE DEF f
<1>5. e \in {<<>>, TextCodec!krypt_b64_separator} OBVIOUS
<1>6. t \o f \in Seq(Int) BY <1>2, <1>4, ConcatProperties
<1>7. Carries((t \o f) \o e, v) BY <1>3, <1>4, <1>5, <1>6, CarriesTail
<1>8. e \in Seq(Int)
  <2>1. TextCodec!krypt_b64_separator \in Seq(Int)
    BY DEF TextCodec!CR, TextCodec!LF, TextCodec!krypt_b64_separator
  <2> QED BY <1>5, <2>1, EmptySeq
<1> HIDE DEF e
<1>9. (t \o f) \o e = t \o (f \o e) BY <1>2, <1>4, <1>8, ConcatAssociative
<1> QED BY <1>1, <1>7, <1>9

----------------------------------------------------------------------------
(* Base64 and hex: octets come back *)

IsBase64 == Is("Base64")

IsHex == Is("hex")

LEMMA TextsAreOctets ==
  ASSUME IInv, IsBase64 \/ IsHex, NEW v \in Values[type]
  PROVE  v \in Seq(Byte)
<1>1. v \in Seq(0..255) BY ValuesAssumption DEF IInv, IsBase64, IsHex, Is
<1> QED BY <1>1 DEF Byte

LEMMA TextsAreReceived ==
  ASSUME IInv, IsBase64 \/ IsHex, NEW o \in Received[type]
  PROVE  o \in Seq(Int)
  BY ReceivedAssumption DEF IInv, IsBase64, IsHex, Is

LEMMA Base64First ==
  ASSUME IInv, IsBase64, first.ok
  PROVE  first = Ok(first.value) /\ first.value \in Seq(Byte)
<1>1. CASE \E v \in Values[type] : first = Ok(v) BY <1>1, TextsAreOctets DEF Ok
<1>2. CASE \E o \in Received[type] : first \in ValuesOf(o)
  <2>1. PICK o \in Received[type] : first \in ValuesOf(o) BY <1>2
  <2>2. first = Ok(Read(o)) BY <2>1 DEF ValuesOf, IsBase64, Is, Read
  <2>3. Read(o) \in Seq(Byte) BY TextsAreReceived, ReadIs
  <2> QED BY <2>2, <2>3 DEF Ok
<1> QED BY <1>1, <1>2, FirstIs

LEMMA Base64Encodings ==
  ASSUME IsBase64, NEW v \in Seq(Byte), NEW e \in EncodingsOf(v)
  PROVE  e.ok /\ Carries(e.value, v)
<1>1. PICK c \in Columns : e = Ok(TextCodec!krypt_base64_buffer_encode_to(v, c))
  BY DEF EncodingsOf, IsBase64, Is
<1>2. c \in Int BY ColumnsAssumption
<1> QED BY <1>1, <1>2, EncodedCarries DEF Ok

LEMMA Base64Back ==
  ASSUME IsBase64, NEW v \in Seq(Byte)
  PROVE  Back(v)
<1>1. ASSUME NEW e \in EncodingsOf(v)
      PROVE  e.ok /\ \A w \in ValuesOf(e.value) : w = Ok(v)
  <2>1. e.ok /\ Carries(e.value, v) BY <1>1, Base64Encodings
  <2>2. Read(e.value) = v BY <2>1, CarriesBoth
  <2>3. ValuesOf(e.value) = {Ok(Read(e.value))} BY DEF ValuesOf, IsBase64, Is, Read
  <2> QED BY <2>1, <2>2, <2>3
<1> QED BY <1>1 DEF Back

LEMMA HexDecoded ==
  ASSUME NEW o \in Seq(Int), NEW r, r = TextCodec!int_hex_decode(o), r.ok
  PROVE  r = Ok(r.value) /\ r.value \in Seq(Byte)
<1> DEFINE m == Len(o) \div 2
           v == [i \in 1..m |-> 16 * o[2 * i - 1] + o[2 * i]]
<1>1. r = Ok(v) /\ \A i \in DOMAIN o : o[i] \in 0..15
  BY DEF TextCodec!int_hex_decode, TextCodec!Ok, TextCodec!Failed, Ok
<1>2. m \in Nat /\ 2 * m <= Len(o) OBVIOUS
<1>3. ASSUME NEW i \in 1..m
      PROVE  16 * o[2 * i - 1] + o[2 * i] \in Byte
  <2> DEFINE x == o[2 * i - 1]
             y == o[2 * i]
  <2>1. 2 * i - 1 \in DOMAIN o /\ 2 * i \in DOMAIN o BY <1>2
  <2>2. x \in 0..15 /\ y \in 0..15 BY <1>1, <2>1
  <2> HIDE DEF x, y
  <2>3. 16 * x + y \in Byte BY <2>2 DEF Byte
  <2> QED BY <2>3 DEF x, y
<1>4. IsList(v, m, Byte) BY <1>3 DEF IsList
<1> HIDE DEF v, m
<1>5. v \in Seq(Byte) BY <1>2, <1>4, SeqFacts
<1> QED BY <1>1, <1>5 DEF Ok

LEMMA HexFirst ==
  ASSUME IInv, IsHex, first.ok
  PROVE  first = Ok(first.value) /\ first.value \in Seq(Byte)
<1>1. CASE \E v \in Values[type] : first = Ok(v) BY <1>1, TextsAreOctets DEF Ok
<1>2. CASE \E o \in Received[type] : first \in ValuesOf(o)
  <2>1. PICK o \in Received[type] : first \in ValuesOf(o) BY <1>2
  <2>2. first = TextCodec!int_hex_decode(o) BY <2>1 DEF ValuesOf, IsHex, Is
  <2>3. o \in Seq(Int) BY TextsAreReceived
  <2> QED BY <2>2, <2>3, HexDecoded
<1> QED BY <1>1, <1>2, FirstIs

LEMMA HexOctets ==
  ASSUME NEW v \in Seq(Byte)
  PROVE  TextCodec!int_hex_decode(TextCodec!int_hex_encode(v)) = Ok(v)
<1> DEFINE n == Len(v)
           e == TextCodec!int_hex_encode(v)
           D(j) == LET b == v[(j + 1) \div 2] IN IF j % 2 = 1 THEN b \div 16 ELSE b % 16
<1>1. n \in Nat /\ \A i \in 1..n : v[i] \in Byte BY ElementOfSeq
<1>2. e = [j \in 1..(2 * n) |-> D(j)] BY DEF TextCodec!int_hex_encode
<1>3. ASSUME NEW i \in 1..n
      PROVE  /\ D(2 * i - 1) = v[i] \div 16 /\ D(2 * i) = v[i] % 16
             /\ 2 * i - 1 \in 1..(2 * n) /\ 2 * i \in 1..(2 * n)
  <2>1. ((2 * i - 1) + 1) \div 2 = i /\ (2 * i - 1) % 2 = 1 /\ (2 * i + 1) \div 2 = i /\ (2 * i) % 2 = 0
    OBVIOUS
  <2>2. 2 * i - 1 \in 1..(2 * n) /\ 2 * i \in 1..(2 * n) BY <1>1
  <2> QED BY <2>1, <2>2
<1>4. ASSUME NEW j \in 1..(2 * n)
      PROVE  D(j) \in 0..15
  <2>1. (j + 1) \div 2 \in 1..n BY <1>1
  <2> DEFINE b == v[(j + 1) \div 2]
  <2> DEFINE k == (j + 1) \div 2
  <2> HIDE DEF k
  <2>0. v[k] \in Byte BY <1>1, <2>1 DEF k
  <2> HIDE DEF b
  <2>2. b \in Int /\ 0 <= b /\ b <= 255
    <3>1. b \in Byte BY <2>0 DEF b, k
    <3> QED BY <3>1 DEF Byte
  <2>3. b \div 16 \in 0..15 /\ b % 16 \in 0..15 BY <2>2
  <2> QED BY <2>3 DEF b
<1> HIDE DEF D
<1>5. IsList(e, 2 * n, 0..15) BY <1>2, <1>4 DEF IsList
<1>6. Len(e) = 2 * n /\ e \in Seq(0..15)
  <2>1. 2 * n \in Nat BY <1>1
  <2> HIDE DEF e
  <2> QED BY <1>5, <2>1, SeqFacts
<1> HIDE DEF e, n
<1>7. Len(e) % 2 = 0 /\ Len(e) \div 2 = n BY <1>1, <1>6
<1>8. \A j \in DOMAIN e : e[j] \in 0..15 BY <1>2, <1>4
<1>9. ASSUME NEW i \in 1..n
      PROVE  16 * e[2 * i - 1] + e[2 * i] = v[i]
  <2>1. e[2 * i - 1] = v[i] \div 16 /\ e[2 * i] = v[i] % 16 BY <1>2, <1>3
  <2> DEFINE b == v[i]
  <2>0. b \in Byte BY <1>1
  <2> HIDE DEF b
  <2>2. b \in Int BY <2>0 DEF Byte
  <2>3. 16 * (b \div 16) + (b % 16) = b BY <2>2
  <2> QED BY <2>1, <2>3 DEF b
<1>10. v = [i \in 1..n |-> v[i]] BY DEF n
<1>11. TextCodec!int_hex_decode(e) = Ok([i \in 1..n |-> 16 * e[2 * i - 1] + e[2 * i]])
  BY <1>7, <1>8 DEF TextCodec!int_hex_decode, TextCodec!int_hex_decode_tests, TextCodec!Ok, Ok
<1>12. [i \in 1..n |-> 16 * e[2 * i - 1] + e[2 * i]] = [i \in 1..n |-> v[i]] BY <1>9
<1> QED BY <1>10, <1>11, <1>12 DEF e

LEMMA HexBack ==
  ASSUME IsHex, NEW v \in Seq(Byte)
  PROVE  Back(v)
<1>1. EncodingsOf(v) = {Ok(TextCodec!int_hex_encode(v))} BY DEF EncodingsOf, IsHex, Is
<1>2. \A o : ValuesOf(o) = {TextCodec!int_hex_decode(o)} BY DEF ValuesOf, IsHex, Is
<1> QED BY <1>1, <1>2, HexOctets DEF Back, Ok

\* Octets come back from the text they were encoded as, whatever the line
\* length, and from the lines of the text one by one.
THEOREM TextsAlwaysSurvive ==
  Spec => []TextsSurvive
<1>1. ASSUME IInv, IsHex
      PROVE  Survives
  BY <1>1, HexFirst, HexBack, SurvivesWhen
<1>2. ASSUME IInv, IsBase64
      PROVE  Survives
  BY <1>2, Base64First, Base64Back, SurvivesWhen
<1>3. ASSUME IInv, IsBase64, HasEncoded
      PROVE  LineByLine(octets.value) = first.value
  <2>1. first.ok /\ octets \in EncodingsOf(first.value)
    BY <1>3 DEF IInv, HasEncoded, HasOctets, WasDecoded, Failed
  <2>2. first.value \in Seq(Byte) BY <1>3, <2>1, Base64First
  <2>3. Carries(octets.value, first.value) BY <1>3, <2>1, <2>2, Base64Encodings
  <2> QED BY <2>3, CarriesBoth
<1>4. IInv => TextsSurvive BY <1>1, <1>2, <1>3 DEF TextsSurvive, IsHex, IsBase64
<1> QED BY <1>4, History, PTL

----------------------------------------------------------------------------
(* Headers: the digits of a number *)

IsBase(b) == b \in Nat /\ b >= 2

LEMMA Smaller ==
  ASSUME NEW m \in Nat \ {0}, NEW b, IsBase(b)
  PROVE  /\ m \div b \in 0..(m - 1) /\ m % b \in 0..(b - 1)
         /\ m = (m \div b) * b + (m % b)
<1> DEFINE q == m \div b
           r == m % b
<1>1. b \in Nat \ {0} /\ b >= 2 BY DEF IsBase
<1>2. q \in Int /\ r \in 0..(b - 1) /\ m = q * b + r BY <1>1, Division
<1> HIDE DEF q, r
<1>3. r \in Nat /\ r < b BY <1>1, <1>2
<1>4. q >= 0
  <2> SUFFICES ASSUME q <= -1 PROVE FALSE BY <1>2
  <2>1. q * b <= (-1) * b BY <1>1, <1>2
  <2> QED BY <1>1, <1>2, <1>3, <2>1
<1>5. q < m
  <2> SUFFICES ASSUME q >= m PROVE FALSE BY <1>2
  <2> DEFINE p == q * b
  <2>1. p >= q * 2 /\ p \in Int BY <1>1, <1>2, <1>4
  <2>2. m = p + r /\ m >= 1 BY <1>2
  <2> HIDE DEF p
  <2> QED BY <1>2, <1>3, <2>1, <2>2
<1> QED BY <1>2, <1>4, <1>5 DEF q, r

\* The digits of the numbers up to n.
AreDigits(g, n, b) ==
  /\ g \in [0..n -> Seq(0..(b - 1))]
  /\ g[0] = <<>>
  /\ \A m \in 1..n : g[m] = Append(g[m \div b], m % b)

LEMMA DigitsExist ==
  ASSUME NEW b, IsBase(b), NEW n \in Nat
  PROVE  \E g : AreDigits(g, n, b)
<1> DEFINE S == {m \in Nat : \E g : AreDigits(g, m, b)}
           A == Seq(0..(b - 1))
<1>1. 0 \in S
  <2> DEFINE g == [m \in 0..0 |-> <<>>]
  <2>1. <<>> \in A BY EmptySeq
  <2>2. AreDigits(g, 0, b) BY <2>1 DEF AreDigits
  <2> HIDE DEF g
  <2> QED BY <2>2
<1>2. ASSUME NEW m \in Nat, m \in S
      PROVE  m + 1 \in S
  <2>1. PICK g : AreDigits(g, m, b) BY <1>2
  <2> DEFINE k == m + 1
             x == k % b
             q == k \div b
             h == [i \in 0..k |-> IF i = k THEN Append(g[q], x) ELSE g[i]]
  <2>2. k \in Nat \ {0} OBVIOUS
  <2>3. q \in 0..(k - 1) /\ x \in 0..(b - 1) BY <2>2, Smaller
  <2>4. k - 1 = m /\ k \in 0..k /\ \A i \in 0..m : i \in 0..k /\ i # k OBVIOUS
  <2> HIDE DEF q, x, A
  <2>5. g \in [0..m -> A] /\ g[0] = <<>> /\ \A i \in 1..m : g[i] = Append(g[i \div b], i % b)
    BY <2>1 DEF AreDigits, A
  <2>6. g[q] \in A BY <2>3, <2>4, <2>5
  <2>7. Append(g[q], x) \in A BY <2>3, <2>6, AppendProperties DEF A
  <2>8. \A i \in 0..k : i = k \/ i \in 0..m OBVIOUS
  <2>9. h[k] = Append(g[q], x) /\ \A i \in 0..m : h[i] = g[i] BY <2>4
  <2>10. h \in [0..k -> A] BY <2>5, <2>7, <2>8
  <2> HIDE DEF k, h
  <2>11. h[0] = <<>> BY <2>5, <2>9
  <2>12. ASSUME NEW i \in 1..k
         PROVE  h[i] = Append(h[i \div b], i % b)
    <3>1. i \in Nat \ {0} /\ i \in 0..k BY <2>2
    <3>2. i \div b \in 0..(i - 1) BY <3>1, Smaller
    <3>3. CASE i = k BY <2>3, <2>4, <2>9, <3>3 DEF q, x
    <3>4. CASE i # k
      <4>1. i \in 0..m /\ i \in 1..m /\ i \div b \in 0..m BY <2>8, <3>1, <3>2, <3>4
      <4> QED BY <2>5, <2>9, <4>1
    <3> QED BY <3>3, <3>4
  <2>13. AreDigits(h, k, b) BY <2>10, <2>11, <2>12 DEF AreDigits, A
  <2> QED BY <2>2, <2>13 DEF k
<1>3. Nat \subseteq S BY <1>1, <1>2, StepInduction
<1> QED BY <1>3

LEMMA DigitsAgree ==
  ASSUME NEW b, IsBase(b), NEW n \in Nat, NEW k \in Nat, NEW g, NEW h,
         AreDigits(g, n, b), AreDigits(h, k, b), NEW i \in Nat, i <= n, i <= k
  PROVE  g[i] = h[i]
<1> DEFINE S == {m \in Nat : m <= n /\ m <= k => g[m] = h[m]}
<1>1. /\ g[0] = <<>> /\ \A m \in 1..n : g[m] = Append(g[m \div b], m % b)
      /\ h[0] = <<>> /\ \A m \in 1..k : h[m] = Append(h[m \div b], m % b) BY DEF AreDigits
<1>2. ASSUME NEW m \in Nat, \A l \in 0..(m - 1) : l \in S
      PROVE  m \in S
  <2> SUFFICES ASSUME m <= n, m <= k PROVE g[m] = h[m] OBVIOUS
  <2>1. CASE m = 0 BY <1>1, <2>1
  <2>2. CASE m # 0
    <3>1. m \in 1..n /\ m \in 1..k BY <2>2
    <3>2. m \div b \in 0..(m - 1) BY <2>2, Smaller
    <3>3. m \div b \in Nat /\ m \div b <= n /\ m \div b <= k BY <3>2
    <3>4. g[m \div b] = h[m \div b] BY <1>2, <3>2, <3>3
    <3> QED BY <1>1, <3>1, <3>4
  <2> QED BY <2>1, <2>2
<1>3. Nat \subseteq S BY <1>2, NaturalInduction
<1> QED BY <1>3

D(n, b) == HeaderCodec!DigitsIn(n, b)

LEMMA DigitsDefined ==
  ASSUME NEW b, IsBase(b)
  PROVE  /\ D(0, b) = <<>>
         /\ \A n \in Nat : D(n, b) \in Seq(0..(b - 1))
         /\ \A n \in Nat \ {0} : D(n, b) = Append(D(n \div b, b), n % b)
<1> DEFINE Step(f) == [m \in Nat |-> IF m = 0 THEN <<>> ELSE Append(f[m \div b], m % b)]
           c == CHOOSE f : f = Step(f)
           A == Seq(0..(b - 1))
           G(n) == CHOOSE g : AreDigits(g, n, b)
           d == [m \in Nat |-> G(m)[m]]
<1>1. \A n : D(n, b) = c[n] BY Zenon DEF D, HeaderCodec!DigitsIn
<1>2. ASSUME NEW n \in Nat
      PROVE  AreDigits(G(n), n, b)
  BY DigitsExist
<1> HIDE DEF G, c
<1>3. d[0] = <<>> BY <1>2 DEF AreDigits
<1>4. ASSUME NEW n \in Nat \ {0}
      PROVE  d[n] = Append(d[n \div b], n % b)
  <2>1. n \div b \in 0..(n - 1) BY Smaller
  <2> DEFINE q == n \div b
  <2>2. q \in Nat /\ q <= n BY <2>1
  <2> HIDE DEF q
  <2>3. AreDigits(G(n), n, b) /\ AreDigits(G(q), q, b) BY <1>2, <2>2
  <2>4. G(n)[q] = G(q)[q] BY <2>2, <2>3, DigitsAgree
  <2>5. n \in 1..n OBVIOUS
  <2>6. G(n)[n] = Append(G(n)[q], n % b) BY <2>3, <2>5 DEF AreDigits, q
  <2>7. d[n] = G(n)[n] /\ d[q] = G(q)[q] BY <2>2
  <2> HIDE DEF d
  <2> QED BY <2>4, <2>6, <2>7 DEF q
<1>5. \A n \in Nat : d[n] \in A
  <2>1. ASSUME NEW n \in Nat
        PROVE  G(n)[n] \in A
    BY <1>2, SMTT(30) DEF AreDigits
  <2> HIDE DEF A
  <2> QED BY <2>1
<1>6. d = Step(d)
  <2>1. d = [m \in Nat |-> d[m]] OBVIOUS
  <2> HIDE DEF d
  <2>2. \A m \in Nat : d[m] = IF m = 0 THEN <<>> ELSE Append(d[m \div b], m % b) BY <1>3, <1>4
  <2> QED BY <2>1, <2>2
<1>7. c = Step(c)
  <2> HIDE DEF Step, d
  <2> QED BY <1>6 DEF c
<1>8. \A m \in Nat : c[m] = IF m = 0 THEN <<>> ELSE Append(c[m \div b], m % b) BY <1>7
<1> DEFINE S == {m \in Nat : c[m] = d[m]}
<1> HIDE DEF d
<1>9. ASSUME NEW m \in Nat, \A l \in 0..(m - 1) : l \in S
      PROVE  m \in S
  <2>1. CASE m = 0 BY <1>3, <1>8, <2>1
  <2>2. CASE m # 0
    <3>1. m \div b \in 0..(m - 1) BY <2>2, Smaller
    <3>2. c[m \div b] = d[m \div b] BY <1>9, <3>1
    <3>3. c[m] = Append(c[m \div b], m % b) BY <1>8, <2>2
    <3>4. d[m] = Append(d[m \div b], m % b) BY <1>4, <2>2
    <3> QED BY <3>2, <3>3, <3>4
  <2> QED BY <2>1, <2>2
<1>10. Nat \subseteq S BY <1>9, NaturalInduction
<1>11. ASSUME NEW n \in Nat
       PROVE  D(n, b) = d[n]
  BY <1>1, <1>10
<1>12. ASSUME NEW n \in Nat \ {0}
       PROVE  D(n, b) = Append(D(n \div b, b), n % b)
  <2>1. n \div b \in Nat BY Smaller
  <2> QED BY <1>4, <1>11, <2>1
<1> QED BY <1>3, <1>5, <1>11, <1>12

LEMMA QuotientsGrow ==
  ASSUME NEW m \in Nat, NEW n \in Nat, m <= n, NEW b, IsBase(b)
  PROVE  m \div b \in Nat /\ n \div b \in Nat /\ m \div b <= n \div b
<1> DEFINE p == m \div b
           q == n \div b
           r == m % b
           s == n % b
<1>1. b \in Nat \ {0} BY DEF IsBase
<1>2. p \in Int /\ r \in 0..(b - 1) /\ m = p * b + r /\ q \in Int /\ s \in 0..(b - 1) /\ n = q * b + s
  <2>1. p \in Int /\ r \in 0..(b - 1) /\ m = p * b + r BY <1>1, Division, SMTT(30)
  <2>2. q \in Int /\ s \in 0..(b - 1) /\ n = q * b + s BY <1>1, Division, SMTT(30)
  <2> QED BY <2>1, <2>2
<1>3. p \in Nat /\ q \in Nat
  <2>1. \A k \in Nat : k = 0 \/ k \in Nat \ {0} OBVIOUS
  <2>2. \A k \in Nat \ {0} : k \div b \in Nat BY Smaller
  <2>3. 0 \div b = 0 BY <1>1
  <2> QED BY <2>1, <2>2, <2>3
<1> HIDE DEF p, q, r, s
<1>4. p <= q
  <2> SUFFICES ASSUME q + 1 <= p PROVE FALSE BY <1>3
  <2> DEFINE x == q * b
             y == p * b
  <2>1. (q + 1) * b <= p * b BY <1>1, <1>3
  <2>2. (q + 1) * b = x + b BY <1>1, <1>3
  <2>3. x \in Int /\ y \in Int /\ b \in Nat BY <1>1, <1>3
  <2>4. m = y + r /\ n = x + s /\ r >= 0 /\ s < b /\ r \in Int /\ s \in Int BY <1>1, <1>2
  <2>5. x + b <= y BY <2>1, <2>2
  <2> HIDE DEF x, y
  <2> QED BY <2>3, <2>4, <2>5
<1> QED BY <1>3, <1>4 DEF p, q

\* Digits in front of the last one.
LEMMA DigitsOfMore ==
  ASSUME NEW b, IsBase(b), NEW n \in Nat \ {0}
  PROVE  /\ n \div b \in 0..(n - 1)
         /\ D(n \div b, b) \in Seq(Int) /\ n % b \in Int
         /\ D(n, b) = Append(D(n \div b, b), n % b)
<1>1. n \div b \in 0..(n - 1) /\ n % b \in 0..(b - 1) BY Smaller
<1>2. n \div b \in Nat BY <1>1
<1>3. D(n \div b, b) \in Seq(0..(b - 1)) /\ D(n, b) = Append(D(n \div b, b), n % b)
  BY <1>2, DigitsDefined
<1>4. 0..(b - 1) \subseteq Int BY DEF IsBase
<1>5. D(n \div b, b) \in Seq(Int) /\ n % b \in Int BY <1>1, <1>3, <1>4, SeqOfMore
<1> QED BY <1>1, <1>3, <1>5

LEMMA DigitsAreNumber ==
  ASSUME NEW b, IsBase(b), NEW n \in Nat
  PROVE  D(n, b) \in Seq(Int) /\ NumberOf(D(n, b), b) = n
<1> DEFINE S == {m \in Nat : D(m, b) \in Seq(Int) /\ NumberOf(D(m, b), b) = m}
<1>1. b \in Int BY DEF IsBase
<1>2. ASSUME NEW m \in Nat, \A l \in 0..(m - 1) : l \in S
      PROVE  m \in S
  <2>1. CASE m = 0
    <3>1. D(m, b) = <<>> BY <2>1, DigitsDefined
    <3>2. NumberOf(<<>>, b) = 0 /\ <<>> \in Seq(Int) BY <1>1, NumberOfNothing, EmptySeq
    <3> QED BY <2>1, <3>1, <3>2
  <2>2. CASE m # 0
    <3> DEFINE q == m \div b
               r == m % b
               d == D(q, b)
    <3>1. q \in 0..(m - 1) /\ d \in Seq(Int) /\ r \in Int /\ D(m, b) = Append(d, r)
      BY <2>2, DigitsOfMore
    <3>2. m = q * b + r BY <2>2, Smaller
    <3> HIDE DEF q, r
    <3>3. NumberOf(d, b) = q BY <1>2, <3>1
    <3> HIDE DEF d
    <3>4. NumberOf(Append(d, r), b) = NumberOf(d, b) * b + r BY <1>1, <3>1, NumberOfAppend
    <3>5. Append(d, r) \in Seq(Int) BY <3>1, AppendProperties
    <3> QED BY <3>1, <3>2, <3>3, <3>4, <3>5
  <2> QED BY <2>1, <2>2
<1>3. Nat \subseteq S BY <1>2, NaturalInduction
<1> QED BY <1>3

\* The first digit is not 0.
LEMMA FirstDigit ==
  ASSUME NEW b, IsBase(b), NEW n \in Nat \ {0}
  PROVE  Len(D(n, b)) \in Nat \ {0} /\ D(n, b)[1] # 0
<1> DEFINE P(m) == Len(D(m, b)) \in Nat \ {0} /\ D(m, b)[1] # 0
           S == {m \in Nat : m # 0 => P(m)}
<1>1. ASSUME NEW m \in Nat, \A l \in 0..(m - 1) : l \in S
      PROVE  m \in S
  <2> SUFFICES ASSUME m # 0 PROVE P(m) OBVIOUS
  <2> DEFINE q == m \div b
             r == m % b
             d == D(q, b)
  <2>1. q \in 0..(m - 1) /\ d \in Seq(Int) /\ r \in Int /\ D(m, b) = Append(d, r) BY DigitsOfMore
  <2>2. m = q * b + r /\ b \in Nat BY Smaller DEF IsBase
  <2> HIDE DEF q, r
  <2>3. /\ Len(d) \in Nat /\ Len(Append(d, r)) = Len(d) + 1
        /\ \A i \in 1..(Len(d) + 1) : Append(d, r)[i] = IF i <= Len(d) THEN d[i] ELSE r
    BY <2>1, AppendProperties
  <2>4. CASE q = 0
    <3>1. d = <<>> BY <2>4, DigitsDefined
    <3>2. Len(d) = 0 BY <3>1
    <3>3. r = m BY <2>1, <2>2, <2>4
    <3> HIDE DEF d
    <3>4. Append(d, r)[1] = r BY <2>3, <3>2
    <3> QED BY <2>1, <2>3, <3>2, <3>3, <3>4
  <2>5. CASE q # 0
    <3>1. Len(d) \in Nat \ {0} /\ d[1] # 0 BY <1>1, <2>1, <2>5
    <3> HIDE DEF d
    <3>2. Append(d, r)[1] = d[1] BY <2>3, <3>1
    <3> QED BY <2>1, <2>3, <3>1, <3>2
  <2> QED BY <2>4, <2>5
<1>2. Nat \subseteq S BY <1>1, NaturalInduction
<1> QED BY <1>2

\* Without the last digits there is less.
LEMMA FrontOfDigits ==
  ASSUME NEW b, IsBase(b), NEW n \in Nat, NEW i \in Nat, i < Len(D(n, b))
  PROVE  NumberOf(SubSeq(D(n, b), 1, i), b) \in Int /\ NumberOf(SubSeq(D(n, b), 1, i), b) <= n \div b
<1> DEFINE V(m, k) == NumberOf(SubSeq(D(m, b), 1, k), b)
           S == {m \in Nat : \A k \in Nat : k < Len(D(m, b)) => V(m, k) \in Int /\ V(m, k) <= m \div b}
<1>1. ASSUME NEW m \in Nat, \A l \in 0..(m - 1) : l \in S
      PROVE  m \in S
  <2> SUFFICES ASSUME NEW k \in Nat, k < Len(D(m, b)) PROVE V(m, k) \in Int /\ V(m, k) <= m \div b
    OBVIOUS
  <2>1. m # 0
    <3> SUFFICES ASSUME m = 0 PROVE FALSE OBVIOUS
    <3>1. D(m, b) = <<>> BY DigitsDefined
    <3> QED BY <3>1
  <2> DEFINE q == m \div b
             r == m % b
             d == D(q, b)
             a == Append(d, r)
  <2>2. q \in 0..(m - 1) /\ d \in Seq(Int) /\ r \in Int /\ D(m, b) = a BY <2>1, DigitsOfMore
  <2>3. V(m, k) = NumberOf(SubSeq(a, 1, k), b) BY <2>2
  <2> HIDE DEF q, r, V
  <2>4. NumberOf(d, b) = q BY <2>2, DigitsAreNumber
  <2>5. Len(d) \in Nat /\ Len(a) = Len(d) + 1 /\ k < Len(a) BY <2>2, AppendProperties
  <2>6. q \in Nat /\ q \div b \in Nat /\ q \div b <= q
    <3>1. q \in Nat BY <2>2
    <3>2. CASE q = 0
      <4>1. 0 \div b = 0 BY DEF IsBase
      <4> QED BY <3>2, <4>1
    <3>3. CASE q # 0
      <4>1. q \div b \in 0..(q - 1) BY <3>1, <3>3, Smaller
      <4> QED BY <3>1, <4>1
    <3> QED BY <3>1, <3>2, <3>3
  <2>7. SubSeq(a, 1, k) = SubSeq(d, 1, k)
    <3>1. <<r>> \in Seq(Int) /\ a = d \o <<r>> BY <2>2, ConcatOne
    <3>2. k \in Int /\ k <= Len(d) /\ 1 \in Nat \ {0} BY <2>5
    <3> HIDE DEF a, d
    <3>3. SubSeq(d \o <<r>>, 1, k) = SubSeq(d, 1, k) BY <2>2, <3>1, <3>2, SubSeqOfFront
    <3> QED BY <3>1, <3>3
  <2>8. CASE k = Len(d)
    <3>1. SubSeq(d, 1, k) = d BY <2>2, <2>8, WholeSeq
    <3> QED
      <4>1. V(m, k) = q BY <2>3, <2>4, <2>7, <3>1
      <4>2. q \in Int /\ q <= q BY <2>6
      <4> QED BY <4>1, <4>2 DEF q
  <2>9. CASE k < Len(d)
    <3>1. V(q, k) \in Int /\ V(q, k) <= q \div b BY <1>1, <2>2, <2>9
    <3>2. V(m, k) = V(q, k) BY <2>3, <2>7 DEF V
    <3>3. V(q, k) <= q BY <2>6, <3>1
    <3> QED BY <3>1, <3>2, <3>3 DEF q
  <2> QED BY <2>5, <2>8, <2>9
<1>2. Nat \subseteq S BY <1>1, NaturalInduction
<1> QED BY <1>2

\* Higher numbers have as many digits or more.
LEMMA LengthsGrow ==
  ASSUME NEW b, IsBase(b), NEW n \in Nat, NEW m \in Nat, m <= n
  PROVE  Len(D(m, b)) <= Len(D(n, b))
<1> DEFINE S == {k \in Nat : \A l \in Nat : l <= k => Len(D(l, b)) <= Len(D(k, b))}
<1>0. \A k \in Nat : Len(D(k, b)) \in Nat BY DigitsDefined, LenProperties
<1>1. ASSUME NEW k \in Nat, \A l \in 0..(k - 1) : l \in S
      PROVE  k \in S
  <2> SUFFICES ASSUME NEW l \in Nat, l <= k PROVE Len(D(l, b)) <= Len(D(k, b)) OBVIOUS
  <2>1. CASE l = 0
    <3>1. Len(D(l, b)) = 0 BY <2>1, DigitsDefined
    <3> QED BY <1>0, <3>1
  <2>2. CASE l # 0
    <3> DEFINE q == k \div b
               p == l \div b
    <3>1. /\ q \in 0..(k - 1) /\ D(q, b) \in Seq(Int) /\ k % b \in Int
          /\ D(k, b) = Append(D(q, b), k % b) BY <2>2, DigitsOfMore
    <3>2. /\ p \in 0..(l - 1) /\ D(p, b) \in Seq(Int) /\ l % b \in Int
          /\ D(l, b) = Append(D(p, b), l % b) BY <2>2, DigitsOfMore
    <3>3. p \in Nat /\ p <= q BY QuotientsGrow
    <3> HIDE DEF p, q
    <3>4. Len(D(p, b)) <= Len(D(q, b)) BY <1>1, <3>1, <3>3
    <3>5. Len(D(k, b)) = Len(D(q, b)) + 1 BY <3>1, AppendProperties
    <3>6. Len(D(l, b)) = Len(D(p, b)) + 1 BY <3>2, AppendProperties
    <3>7. Len(D(p, b)) \in Nat /\ Len(D(q, b)) \in Nat BY <3>1, <3>2
    <3> QED BY <3>4, <3>5, <3>6, <3>7
  <2> QED BY <2>1, <2>2
<1>2. Nat \subseteq S BY <1>1, NaturalInduction
<1> QED BY <1>2

----------------------------------------------------------------------------
(* Headers: what is encoded is parsed *)

LEMMA SameNumber ==
  ASSUME NEW digits, NEW base
  PROVE  HeaderCodec!NumberOf(digits, base) = NumberOf(digits, base)
  BY Zenon DEF HeaderCodec!NumberOf, NumberOf

LEMMA FirstOctetParts ==
  ASSUME NEW class \in 0..3, NEW constructed \in BOOLEAN, NEW low \in 0..31,
         NEW y, y = 64 * class + (IF constructed THEN 32 ELSE 0) + low
  PROVE  /\ y \in 0..255
         /\ y \div 64 = class /\ y % 32 = low
         /\ (y \div 32) % 2 = 1 <=> constructed
<1>1. CASE constructed
  <2> DEFINE x == 64 * class + 32 + low
  <2>1. x \in 0..255 /\ x \div 64 = class /\ x % 32 = low OBVIOUS
  <2>2. x \div 32 = 2 * class + 1 OBVIOUS
  <2>3. (2 * class + 1) % 2 = 1 OBVIOUS
  <2> HIDE DEF x
  <2>4. (x \div 32) % 2 = 1 BY <2>2, <2>3
  <2> QED BY <1>1, <2>1, <2>4 DEF x
<1>2. CASE ~constructed
  <2> DEFINE x == 64 * class + 0 + low
  <2>1. x \in 0..255 /\ x \div 64 = class /\ x % 32 = low OBVIOUS
  <2>2. x \div 32 = 2 * class OBVIOUS
  <2>3. (2 * class) % 2 # 1 OBVIOUS
  <2> HIDE DEF x
  <2>4. (x \div 32) % 2 # 1 BY <2>2, <2>3
  <2> QED BY <1>2, <2>1, <2>4 DEF x
<1> QED BY <1>1, <1>2

IsHeader(h) == h \in HeaderCodec!Header

LEMMA HeaderHas ==
  ASSUME NEW h, IsHeader(h)
  PROVE  /\ h.tag \in 0..INT_MAX /\ h.tag_class \in 0..3 /\ h.is_constructed \in BOOLEAN
         /\ h.is_infinite \in BOOLEAN /\ h.length \in 0..SIZE_MAX
         /\ h = [tag |-> h.tag, tag_class |-> h.tag_class, is_constructed |-> h.is_constructed,
                 is_infinite |-> h.is_infinite, length |-> h.length]
  BY DEF IsHeader, HeaderCodec!Header

\* The first octet says three things of the header.
Says(x, h, low) == /\ x \in Byte
                   /\ x \div 64 = h.tag_class /\ x % 32 = low
                   /\ (x \div 32) % 2 = 1 <=> h.is_constructed

LEMMA FirstOctetSays ==
  ASSUME NEW h, IsHeader(h), NEW low \in 0..31
  PROVE  Says(HeaderCodec!FirstOctet(h, low), h, low)
<1>1. h.tag_class \in 0..3 /\ h.is_constructed \in BOOLEAN BY HeaderHas
<1> DEFINE x == HeaderCodec!FirstOctet(h, low)
<1>2. x = 64 * h.tag_class + (IF h.is_constructed THEN 32 ELSE 0) + low
  BY DEF HeaderCodec!FirstOctet
<1> HIDE DEF x
<1>3. /\ x \in 0..255
      /\ x \div 64 = h.tag_class /\ x % 32 = low
      /\ (x \div 32) % 2 = 1 <=> h.is_constructed
  <2> DEFINE c == h.tag_class
             k == h.is_constructed
  <2>1. c \in 0..3 /\ k \in BOOLEAN /\ x = 64 * c + (IF k THEN 32 ELSE 0) + low BY <1>1, <1>2
  <2> HIDE DEF c, k
  <2>2. /\ x \in 0..255
        /\ x \div 64 = c /\ x % 32 = low
        /\ (x \div 32) % 2 = 1 <=> k BY <2>1, FirstOctetParts, SMTT(30)
  <2> QED BY <2>2 DEF c, k
<1> QED BY <1>3 DEF Says, Byte, x

LEMMA Limits ==
  /\ INT_MAX \in Nat /\ INT_MAX = 128 * HeaderCodec!KRYPT_ASN1_TAG_LIMIT + 127
  /\ HeaderCodec!KRYPT_ASN1_TAG_LIMIT \in Nat
  /\ SIZE_MAX \in Nat /\ SIZE_MAX = 256 * HeaderCodec!KRYPT_ASN1_LENGTH_LIMIT + 255
  /\ HeaderCodec!KRYPT_ASN1_LENGTH_LIMIT \in Nat
<1>1. \A n \in Nat : n % 128 = 127 => n = 128 * (n \div 128) + 127 /\ n \div 128 \in Nat OBVIOUS
<1>2. \A n \in Nat : n % 256 = 255 => n = 256 * (n \div 256) + 255 /\ n \div 256 \in Nat OBVIOUS
<1>3. INT_MAX \in Nat /\ INT_MAX % 128 = 127 /\ SIZE_MAX \in Nat /\ SIZE_MAX % 256 = 255
  BY LimitsAssumption
<1> QED
  BY <1>1, <1>2, <1>3 DEF HeaderCodec!KRYPT_ASN1_TAG_LIMIT, HeaderCodec!KRYPT_ASN1_LENGTH_LIMIT

\* The digits of a number are within its limit.
LEMMA DigitsWithin ==
  ASSUME NEW b, IsBase(b), NEW n \in Nat, NEW max \in Nat, n <= max
  PROVE  HeaderCodec!WithinLimit(D(n, b), b, max \div b)
<1>1. n \div b \in Nat /\ max \div b \in Nat /\ n \div b <= max \div b BY QuotientsGrow
<1>2. D(n, b) \in Seq(Int) /\ Len(D(n, b)) \in Nat BY DigitsAreNumber
<1>3. ASSUME NEW i \in 1..(Len(D(n, b)) - 1)
      PROVE  NumberOf(SubSeq(D(n, b), 1, i), b) <= max \div b
  <2>1. i \in Nat /\ i < Len(D(n, b)) BY <1>2
  <2>2. /\ NumberOf(SubSeq(D(n, b), 1, i), b) \in Int
        /\ NumberOf(SubSeq(D(n, b), 1, i), b) <= n \div b BY <2>1, FrontOfDigits
  <2> QED BY <1>1, <2>2
<1> QED BY <1>3, SameNumber DEF HeaderCodec!WithinLimit

LEMMA OneOctet ==
  ASSUME NEW A, NEW x \in A, NEW s \in Seq(A)
  PROVE  /\ <<x>> \in Seq(A) /\ Len(<<x>>) = 1 /\ <<x>>[1] = x
         /\ <<x>> \o s \in Seq(A)
         /\ Len(<<x>> \o s) = Len(s) + 1
         /\ (<<x>> \o s)[1] = x
         /\ \A i \in 1..Len(s) : (<<x>> \o s)[i + 1] = s[i]
<1> DEFINE e == <<x>>
           t == e \o s
<1>1. e \in Seq(A) /\ Len(e) = 1 /\ e[1] = x OBVIOUS
<1> HIDE DEF e
<1>2. /\ t \in Seq(A) /\ Len(s) \in Nat
      /\ Len(t) = Len(e) + Len(s)
      /\ \A i \in 1..Len(e) : t[i] = e[i]
      /\ \A i \in 1..Len(s) : t[Len(e) + i] = s[i] BY <1>1, ConcatIs DEF IsConcat
<1> HIDE DEF t
<1>3. 1 \in 1..Len(e) /\ \A i \in 1..Len(s) : Len(e) + i = i + 1 BY <1>1, <1>2
<1>4. Len(t) = Len(s) + 1 /\ t[1] = x /\ \A i \in 1..Len(s) : t[i + 1] = s[i] BY <1>1, <1>2, <1>3
<1> QED BY <1>1, <1>2, <1>4 DEF e, t

\* A tag number, its octets first.
Tagged(o, t, h) ==
  /\ t \in Seq(Byte) /\ Len(t) \in Nat \ {0}
  /\ \E low : Says(o[1], h, low)
  /\ HeaderCodec!int_parse_tag(o) = HeaderCodec!Parsed(h.tag, Len(t))

LEMMA SimpleTag ==
  ASSUME NEW h, IsHeader(h), h.tag < 31, NEW l \in Seq(Byte)
  PROVE  Tagged(HeaderCodec!int_compute_tag(h) \o l, HeaderCodec!int_compute_tag(h), h)
<1> DEFINE x == HeaderCodec!FirstOctet(h, h.tag)
           o == <<x>> \o l
<1>1. HeaderCodec!int_compute_tag(h) = <<x>> BY DEF HeaderCodec!int_compute_tag
<1>2. h.tag \in 0..31 /\ h.tag # 31
  <2>1. h.tag \in 0..INT_MAX BY HeaderHas
  <2> QED
    <3>1. \A m \in Nat : \A t \in 0..m : t < 31 => t \in 0..31 /\ t # 31 OBVIOUS
    <3> QED BY <2>1, <3>1, Limits
<1>3. Says(x, h, h.tag) BY <1>2, FirstOctetSays
<1> HIDE DEF x
<1>4. x \in Byte /\ x % 32 = h.tag BY <1>3 DEF Says
<1>5. <<x>> \in Seq(Byte) /\ Len(<<x>>) = 1 /\ o[1] = x BY <1>4, OneOctet
<1> HIDE DEF o
<1>6. HeaderCodec!int_parse_tag(o) = HeaderCodec!Parsed(h.tag, 1)
  BY <1>2, <1>4, <1>5 DEF HeaderCodec!int_parse_tag, HeaderCodec!COMPLEX_TAG_MASK
<1> QED BY <1>1, <1>3, <1>5, <1>6 DEF Tagged, o

LEMMA MinIs ==
  ASSUME NEW S, S \subseteq Int, NEW x \in S, \A y \in S : x <= y
  PROVE  HeaderCodec!Min(S) = x
<1> DEFINE z == CHOOSE y \in S : \A w \in S : y <= w
<1>1. z \in S /\ \A w \in S : z <= w OBVIOUS
<1>2. HeaderCodec!Min(S) = z BY DEF HeaderCodec!Min
<1> HIDE DEF z
<1>3. z <= x /\ x <= z /\ z \in Int /\ x \in Int BY <1>1
<1> QED BY <1>2, <1>3

\* Octets that carry digits in their lower bits, all but the last marked.
IsMarked(m, digits, k) ==
  /\ m = [i \in 1..k |-> m[i]]
  /\ \A i \in 1..k : /\ digits[i] \in 0..127
                     /\ m[i] = digits[i] + IF i < k THEN 128 ELSE 0

LEMMA MarkedOctets ==
  ASSUME NEW k \in Nat \ {0}, NEW m, NEW digits, IsMarked(m, digits, k)
  PROVE  /\ m \in Seq(Byte) /\ Len(m) = k
         /\ \A i \in 1..k : m[i] % 128 = digits[i]
         /\ \A i \in 1..k : i < k => m[i] >= 128
         /\ ~(m[k] >= 128)
<1>1. ASSUME NEW i \in 1..k
      PROVE  /\ m[i] \in Byte /\ m[i] % 128 = digits[i]
             /\ i < k => m[i] >= 128
             /\ i = k => ~(m[i] >= 128)
  <2> DEFINE d == digits[i]
             x == m[i]
  <2>1. d \in 0..127 /\ x = d + IF i < k THEN 128 ELSE 0 BY DEF IsMarked
  <2> HIDE DEF d, x
  <2>2. CASE i < k
    <3>1. x = d + 128 BY <2>1, <2>2
    <3>2. x \in Byte /\ x % 128 = d /\ x >= 128 BY <2>1, <3>1 DEF Byte
    <3> QED BY <2>2, <3>2 DEF d, x
  <2>3. CASE ~(i < k)
    <3>1. x = d BY <2>1, <2>3
    <3>2. x \in Byte /\ x % 128 = d /\ ~(x >= 128) BY <2>1, <3>1 DEF Byte
    <3> QED BY <2>3, <3>2 DEF d, x
  <2> QED BY <2>2, <2>3
<1>2. m = [i \in 1..k |-> m[i]] BY DEF IsMarked
<1>3. IsList(m, k, Byte) BY <1>1, <1>2 DEF IsList
<1>4. m \in Seq(Byte) /\ Len(m) = k BY <1>3, SeqFacts
<1> QED BY <1>1, <1>4

\* The last octet of a tag number is the first that is not marked.
LEMMA EndOfTag ==
  ASSUME NEW k \in Nat \ {0}, NEW n \in Nat, k + 1 <= n, NEW o, NEW m,
         \A i \in 1..k : o[i + 1] = m[i],
         \A i \in 1..k : i < k => m[i] >= 128,
         ~(m[k] >= 128)
  PROVE  LET last == {i \in 2..n : ~HeaderCodec!Marked(o[i])}
         IN  last # {} /\ HeaderCodec!Min(last) = k + 1
<1> DEFINE last == {i \in 2..n : ~HeaderCodec!Marked(o[i])}
<1>1. o[k + 1] = m[k] OBVIOUS
<1>2. k + 1 \in last BY <1>1 DEF HeaderCodec!Marked, HeaderCodec!INFINITE_LENGTH_MASK
<1>3. ASSUME NEW j \in last, j < k + 1
      PROVE  FALSE
  <2>1. j - 1 \in 1..k /\ j - 1 < k /\ (j - 1) + 1 = j BY <1>3
  <2>2. o[j] >= 128 BY <2>1
  <2> QED BY <1>3, <2>2 DEF HeaderCodec!Marked, HeaderCodec!INFINITE_LENGTH_MASK
<1>4. last \subseteq Int OBVIOUS
<1>5. \A j \in last : k + 1 <= j BY <1>3, <1>4
<1> HIDE DEF last
<1>6. HeaderCodec!Min(last) = k + 1 BY <1>2, <1>4, <1>5, MinIs
<1> QED BY <1>2, <1>6 DEF last

LEMMA ComplexTag ==
  ASSUME NEW h, IsHeader(h), ~(h.tag < 31), NEW l \in Seq(Byte)
  PROVE  Tagged(HeaderCodec!int_compute_tag(h) \o l, HeaderCodec!int_compute_tag(h), h)
<1> DEFINE n == h.tag
           x == HeaderCodec!FirstOctet(h, 31)
           digits == D(n, 128)
           k == Len(digits)
           m == [i \in DOMAIN digits |-> digits[i] + IF i < k THEN 128 ELSE 0]
           t == <<x>> \o m
           o == t \o l
<1>1. HeaderCodec!int_compute_tag(h) = t
  BY Zenon DEF HeaderCodec!int_compute_tag, HeaderCodec!int_compute_complex_tag, HeaderCodec!COMPLEX_TAG_MASK, D
<1>2. n \in Nat \ {0} /\ n <= INT_MAX
  <2>1. \A a \in Nat : \A b \in 0..a : ~(b < 31) => b \in Nat \ {0} /\ b <= a OBVIOUS
  <2>2. h.tag \in 0..INT_MAX BY HeaderHas
  <2> QED BY <2>1, <2>2, Limits
<1>3. IsBase(128) BY DEF IsBase
<1> HIDE DEF n
<1>4. digits \in Seq(0..(128 - 1)) /\ NumberOf(digits, 128) = n
  BY <1>2, <1>3, DigitsDefined, DigitsAreNumber
<1>5. k \in Nat \ {0} /\ digits[1] # 0 BY <1>2, <1>3, FirstDigit
<1>6. HeaderCodec!WithinLimit(digits, 128, HeaderCodec!KRYPT_ASN1_TAG_LIMIT)
  <2>1. HeaderCodec!WithinLimit(digits, 128, INT_MAX \div 128)
    BY <1>2, <1>3, Limits, DigitsWithin
  <2> QED BY <2>1 DEF HeaderCodec!KRYPT_ASN1_TAG_LIMIT
<1> HIDE DEF digits
<1>7. DOMAIN digits = 1..k /\ \A i \in 1..k : digits[i] \in 0..127
  <2>1. 0..(128 - 1) = 0..127 OBVIOUS
  <2>2. \A i \in 1..Len(digits) : digits[i] \in 0..(128 - 1) BY <1>4, ElementOfSeq
  <2>3. DOMAIN digits = 1..Len(digits) BY <1>4, LenProperties
  <2> QED BY <2>1, <2>2, <2>3
<1> HIDE DEF k
<1>8. IsMarked(m, digits, k) BY <1>7 DEF IsMarked
<1> HIDE DEF m
<1>9. /\ m \in Seq(Byte) /\ Len(m) = k
      /\ \A i \in 1..k : m[i] % 128 = digits[i]
      /\ \A i \in 1..k : i < k => m[i] >= 128
      /\ ~(m[k] >= 128) BY <1>5, <1>8, MarkedOctets
<1>10. Says(x, h, 31) /\ x \in Byte /\ x % 32 = 31
  <2>1. 31 \in 0..31 OBVIOUS
  <2>2. Says(x, h, 31) BY <2>1, FirstOctetSays
  <2> QED BY <2>2 DEF Says
<1> HIDE DEF x
<1>11. /\ t \in Seq(Byte) /\ Len(t) = k + 1 /\ t[1] = x
       /\ \A i \in 1..k : t[i + 1] = m[i] BY <1>9, <1>10, OneOctet
<1> HIDE DEF t
<1>12. /\ o \in Seq(Byte) /\ Len(o) \in Nat /\ k + 1 <= Len(o)
       /\ o[1] = x /\ \A i \in 1..k : o[i + 1] = m[i]
  <2>1. o \in Seq(Byte) /\ IsConcat(o, t, l) BY <1>11, ConcatIs
  <2> HIDE DEF o
  <2>2. Len(o) = Len(t) + Len(l) /\ \A i \in 1..Len(t) : o[i] = t[i] BY <2>1 DEF IsConcat
  <2>3. 1 \in 1..Len(t) /\ \A i \in 1..k : i + 1 \in 1..Len(t) BY <1>5, <1>11
  <2>4. Len(l) \in Nat BY LenProperties
  <2>5. Len(o) \in Nat /\ k + 1 <= Len(o) BY <1>5, <1>11, <2>2, <2>4
  <2> QED BY <1>11, <2>1, <2>2, <2>3, <2>5
<1> HIDE DEF o
<1> DEFINE last == {i \in 2..Len(o) : ~HeaderCodec!Marked(o[i])}
           end == HeaderCodec!Min(last)
           read == [i \in 1..(end - 1) |-> o[i + 1] % 128]
<1>13. last # {} /\ end = k + 1 BY <1>5, <1>9, <1>12, EndOfTag, ZenonT(60)
<1>14. o[2] # 128
  <2>1. o[2] = m[1] BY <1>5, <1>12, 1 \in 1..k, 1 + 1 = 2
  <2>2. m[1] = digits[1] + (IF 1 < k THEN 128 ELSE 0) /\ digits[1] \in 0..127
    BY <1>5, <1>8, 1 \in 1..k DEF IsMarked
  <2>3. \A d \in 0..127 : d # 0 => d + 128 # 128 /\ d + 0 # 128 OBVIOUS
  <2> QED BY <1>5, <2>1, <2>2, <2>3, ZenonT(60)
<1>15. read = digits
  <2>1. end - 1 = k BY <1>5, <1>13
  <2>2. read = [i \in 1..k |-> o[i + 1] % 128] BY <2>1
  <2>3. digits = [i \in 1..k |-> digits[i]] BY <1>4, <1>7
  <2> HIDE DEF read, end
  <2> QED BY <1>9, <1>12, <2>2, <2>3
<1> HIDE DEF last
<1>16. HeaderCodec!int_parse_complex_tag(o) = HeaderCodec!Parsed(n, k + 1)
  <2>1. HeaderCodec!int_parse_complex_tag(o) =
          IF last = {} \/ o[2] = 128 THEN HeaderCodec!NotParsed
          ELSE IF ~HeaderCodec!WithinLimit(read, 128, HeaderCodec!KRYPT_ASN1_TAG_LIMIT) THEN HeaderCodec!NotParsed
          ELSE HeaderCodec!Parsed(HeaderCodec!NumberOf(read, 128), end)
    BY Zenon DEF HeaderCodec!int_parse_complex_tag, last, HeaderCodec!INFINITE_LENGTH_MASK
  <2>2. HeaderCodec!NumberOf(read, 128) = n BY <1>4, <1>15, SameNumber
  <2> HIDE DEF read, end
  <2> QED BY <1>6, <1>13, <1>14, <1>15, <2>1, <2>2
<1>17. HeaderCodec!int_parse_tag(o) = HeaderCodec!Parsed(n, k + 1)
  BY <1>10, <1>12, <1>16 DEF HeaderCodec!int_parse_tag, HeaderCodec!COMPLEX_TAG_MASK
<1>18. k + 1 \in Nat \ {0} BY <1>5
<1> QED BY <1>1, <1>10, <1>11, <1>12, <1>17, <1>18 DEF Tagged, o, n

\* A length, its octets written l.
Measured(l, h) ==
  /\ l \in Seq(Byte) /\ Len(l) \in Nat \ {0}
  /\ HeaderCodec!int_parse_length(l) = HeaderCodec!Parsed(h.length, Len(l))
  /\ l[1] = 128 <=> h.is_infinite

LEMMA LengthOfOne ==
  ASSUME NEW h, NEW n, n = h.length, NEW x \in Byte, x <= 128, x % 128 = n,
         x = 128 <=> h.is_infinite
  PROVE  Measured(<<x>>, h)
<1> DEFINE l == <<x>>
<1>1. l \in Seq(Byte) /\ Len(l) = 1 /\ l[1] = x /\ l # <<>> OBVIOUS
<1> HIDE DEF l
<1>2. ~(l[1] > 128) BY <1>1 DEF Byte
<1>3. HeaderCodec!int_parse_length(l) = HeaderCodec!Parsed(l[1] % 128, 1)
  BY <1>1, <1>2, Zenon DEF HeaderCodec!int_parse_length, HeaderCodec!INFINITE_LENGTH_MASK
<1>4. HeaderCodec!int_parse_length(l) = HeaderCodec!Parsed(h.length, Len(l)) BY <1>1, <1>3
<1> QED BY <1>1, <1>4 DEF Measured, l

LEMMA LengthOfMore ==
  ASSUME NEW h, NEW n \in Nat, n = h.length, n <= SIZE_MAX, n # 0, ~h.is_infinite
  PROVE  Measured(<<128 + Len(D(n, 256))>> \o D(n, 256), h)
<1> DEFINE digits == D(n, 256)
           k == Len(digits)
           x == 128 + k
           l == <<x>> \o digits
<1>1. IsBase(256) BY DEF IsBase
<1>2. digits \in Seq(0..(256 - 1)) /\ NumberOf(digits, 256) = n
  BY <1>1, DigitsDefined, DigitsAreNumber, ZenonT(60)
<1>3. k \in Nat \ {0} /\ k < 127
  <2>1. k \in Nat \ {0} BY <1>1, FirstDigit
  <2>2. SIZE_MAX \in Nat BY Limits
  <2>3. k <= Len(D(SIZE_MAX, 256)) BY <1>1, <2>2, LengthsGrow
  <2>4. Len(D(SIZE_MAX, 256)) \in Nat BY <1>1, <2>2, DigitsDefined, LenProperties
  <2>5. Len(D(SIZE_MAX, 256)) < 127 BY LimitsAssumption DEF D
  <2> HIDE DEF k
  <2> QED BY <2>1, <2>3, <2>4, <2>5
<1>4. HeaderCodec!WithinLimit(digits, 256, HeaderCodec!KRYPT_ASN1_LENGTH_LIMIT)
  <2>1. HeaderCodec!WithinLimit(digits, 256, SIZE_MAX \div 256) BY <1>1, Limits, DigitsWithin
  <2> QED BY <2>1 DEF HeaderCodec!KRYPT_ASN1_LENGTH_LIMIT
<1>5. digits \in Seq(Byte)
  <2>1. 0..(256 - 1) = 0..255 OBVIOUS
  <2> QED BY <1>2, <2>1 DEF Byte
<1> HIDE DEF digits
<1>6. x \in Byte /\ x > 128 /\ x # 255 /\ x # 128 /\ x - 128 = k
  <2> HIDE DEF k
  <2> QED BY <1>3 DEF Byte
<1> HIDE DEF x
<1>7. l \in Seq(Byte) /\ Len(l) = k + 1 /\ l[1] = x BY <1>5, <1>6, OneOctet
<1>8. SubSeq(l, 2, k + 1) = digits
  <2>1. <<x>> \in Seq(Byte) /\ Len(<<x>>) = 1 BY <1>6, OneOctet
  <2> DEFINE e == <<x>>
  <2>2. SubSeq(e \o digits, Len(e) + 1, Len(e \o digits)) = digits
    <3> HIDE DEF e, k
    <3>1. e \in Seq(Byte) BY <2>1 DEF e
    <3> QED BY <1>5, <3>1, SubSeqOfBack
  <2>3. Len(e) + 1 = 2 /\ Len(e \o digits) = k + 1 BY <1>7, <2>1
  <2> HIDE DEF k
  <2> QED BY <2>2, <2>3
<1> HIDE DEF l, k
<1>9. l # <<>>
  <2>1. Len(<<>>) = 0 OBVIOUS
  <2>2. Len(l) # 0 BY <1>3, <1>7
  <2> QED BY <2>1, <2>2
<1> DEFINE num_bytes == l[1] - 128
           read == SubSeq(l, 2, num_bytes + 1)
<1>10. num_bytes = k /\ read = digits BY <1>6, <1>7, <1>8
<1>11. HeaderCodec!int_parse_complex_definite_length(l) = HeaderCodec!Parsed(n, k + 1)
  <2>1. HeaderCodec!int_parse_complex_definite_length(l) =
          IF l[1] = 255 \/ Len(l) < num_bytes + 1 THEN HeaderCodec!NotParsed
          ELSE IF ~HeaderCodec!WithinLimit(read, 256, HeaderCodec!KRYPT_ASN1_LENGTH_LIMIT) THEN HeaderCodec!NotParsed
          ELSE HeaderCodec!Parsed(HeaderCodec!NumberOf(read, 256), num_bytes + 1)
    BY Zenon DEF HeaderCodec!int_parse_complex_definite_length, HeaderCodec!INFINITE_LENGTH_MASK
  <2>2. HeaderCodec!NumberOf(read, 256) = n BY <1>2, <1>10, SameNumber
  <2>3. ~(Len(l) < num_bytes + 1) /\ num_bytes + 1 = k + 1 BY <1>3, <1>7, <1>10
  <2>4. l[1] # 255 /\ HeaderCodec!WithinLimit(read, 256, HeaderCodec!KRYPT_ASN1_LENGTH_LIMIT)
    BY <1>4, <1>6, <1>7, <1>10
  <2> HIDE DEF num_bytes, read
  <2> QED BY <2>1, <2>2, <2>3, <2>4
<1>12. HeaderCodec!int_parse_length(l) = HeaderCodec!int_parse_complex_definite_length(l)
  <2>1. l[1] > 128 BY <1>6, <1>7
  <2> QED BY <1>9, <2>1, Zenon DEF HeaderCodec!int_parse_length, HeaderCodec!INFINITE_LENGTH_MASK
<1>13. k + 1 \in Nat \ {0} BY <1>3
<1>14. HeaderCodec!int_parse_length(l) = HeaderCodec!Parsed(h.length, Len(l))
  BY <1>7, <1>11, <1>12
<1>15. l[1] # 128 BY <1>6, <1>7
<1> QED BY <1>7, <1>13, <1>14, <1>15 DEF Measured, l, x, k, digits

\* Infinite lengths have no length.
IsPlain(h) == IsHeader(h) /\ (h.is_infinite => h.length = 0)

LEMMA LengthIsMeasured ==
  ASSUME NEW h, IsPlain(h)
  PROVE  Measured(HeaderCodec!int_compute_length(h), h)
<1> DEFINE n == h.length
<1>1. n \in Nat /\ n <= SIZE_MAX /\ h.is_infinite \in BOOLEAN
  <2>1. \A a \in Nat : \A m \in 0..a : m \in Nat /\ m <= a OBVIOUS
  <2>2. h.length \in 0..SIZE_MAX /\ h.is_infinite \in BOOLEAN BY HeaderHas DEF IsPlain
  <2> QED BY <2>1, <2>2, Limits
<1>2. HeaderCodec!int_compute_length(h) =
        IF h.is_infinite THEN <<128>>
        ELSE IF h.length <= 127 THEN <<h.length>>
        ELSE <<128 + Len(D(h.length, 256))>> \o D(h.length, 256)
  BY Zenon DEF HeaderCodec!int_compute_length, HeaderCodec!INFINITE_LENGTH_MASK, D
<1>3. h.is_infinite => n = 0 BY DEF IsPlain
<1>4. CASE h.is_infinite
  <2>1. 128 \in Byte /\ 128 <= 128 /\ 128 % 128 = 0 BY DEF Byte
  <2>2. Measured(<<128>>, h) BY <1>3, <1>4, <2>1, LengthOfOne
  <2> QED BY <1>2, <1>4, <2>2
<1>5. CASE ~h.is_infinite /\ n <= 127
  <2> HIDE DEF n
  <2>1. n \in Byte /\ n <= 128 /\ n % 128 = n /\ n # 128 BY <1>1, <1>5 DEF Byte
  <2>2. n = h.length BY DEF n
  <2>3. Measured(<<n>>, h) BY <1>5, <2>1, <2>2, LengthOfOne
  <2> QED BY <1>2, <1>5, <2>2, <2>3
<1>6. CASE ~h.is_infinite /\ ~(n <= 127)
  <2> HIDE DEF n
  <2>1. n # 0 BY <1>1, <1>6
  <2>2. n = h.length BY DEF n
  <2>3. Measured(<<128 + Len(D(n, 256))>> \o D(n, 256), h)
    BY <1>1, <1>6, <2>1, <2>2, LengthOfMore
  <2> QED BY <1>2, <1>6, <2>2, <2>3
<1> QED BY <1>4, <1>5, <1>6

LEMMA ParsedHas ==
  ASSUME NEW v, NEW u
  PROVE  /\ HeaderCodec!Parsed(v, u).ok
         /\ HeaderCodec!Parsed(v, u).value = v
         /\ HeaderCodec!Parsed(v, u).used = u BY DEF HeaderCodec!Parsed

LEMMA TagIsRead ==
  ASSUME NEW h, IsHeader(h), NEW l \in Seq(Byte)
  PROVE  Tagged(HeaderCodec!int_compute_tag(h) \o l, HeaderCodec!int_compute_tag(h), h)
  BY SimpleTag, ComplexTag

LEMMA PartsMakeHeader ==
  ASSUME NEW h, IsHeader(h), h.is_infinite => h.is_constructed,
         NEW t, NEW l, Tagged(t \o l, t, h), Measured(l, h)
  PROVE  HeaderCodec!krypt_asn1_next_header(t \o l) = HeaderCodec!Parsed(h, Len(t \o l))
<1> DEFINE o == t \o l
           tag == HeaderCodec!int_parse_tag(o)
           rest == SubSeq(o, tag.used + 1, Len(o))
           length == HeaderCodec!int_parse_length(rest)
           m == Len(t)
           n == Len(l)
<1>1. /\ t \in Seq(Byte) /\ m \in Nat \ {0}
      /\ tag = HeaderCodec!Parsed(h.tag, m) BY DEF Tagged
<1>2. /\ l \in Seq(Byte) /\ n \in Nat \ {0}
      /\ HeaderCodec!int_parse_length(l) = HeaderCodec!Parsed(h.length, n)
      /\ l[1] = 128 <=> h.is_infinite BY DEF Measured
<1>3. PICK low : Says(o[1], h, low) BY DEF Tagged
<1>4. Len(o) = m + n /\ o \in Seq(Byte) BY <1>1, <1>2, ConcatProperties
<1>5. tag.ok /\ tag.value = h.tag /\ tag.used = m BY <1>1, ParsedHas
<1>6. rest = l
  <2>1. SubSeq(t \o l, Len(t) + 1, Len(t \o l)) = l BY <1>1, <1>2, SubSeqOfBack
  <2> QED BY <1>5, <2>1
<1>7. length.ok /\ length.value = h.length /\ length.used = n
  <2>1. length = HeaderCodec!Parsed(h.length, n)
    <3> HIDE DEF rest, n
    <3> QED BY <1>2, <1>6
  <2> QED BY <2>1, ParsedHas
<1>8. o # <<>>
  <2>1. Len(<<>>) = 0 OBVIOUS
  <2>2. Len(o) # 0 BY <1>1, <1>2, <1>4
  <2> QED BY <2>1, <2>2
<1> HIDE DEF length, rest, tag, o, m, n
<1>9. HeaderCodec!krypt_asn1_next_header(o) =
         IF o = <<>> THEN HeaderCodec!NotParsed
         ELSE IF ~tag.ok THEN HeaderCodec!NotParsed
         ELSE IF ~length.ok THEN HeaderCodec!NotParsed
         ELSE IF rest[1] = 128 /\ ~((o[1] \div 32) % 2 = 1) THEN HeaderCodec!NotParsed
         ELSE HeaderCodec!Parsed([tag |-> tag.value, tag_class |-> o[1] \div 64,
                                  is_constructed |-> (o[1] \div 32) % 2 = 1,
                                  is_infinite |-> rest[1] = 128,
                                  length |-> length.value],
                                 tag.used + length.used)
  BY Zenon DEF HeaderCodec!krypt_asn1_next_header, HeaderCodec!INFINITE_LENGTH_MASK, tag, rest, length
<1> DEFINE constructed == (o[1] \div 32) % 2 = 1
           infinite == rest[1] = 128
           class == o[1] \div 64
           r == [tag |-> h.tag, tag_class |-> class, is_constructed |-> constructed,
                 is_infinite |-> infinite, length |-> h.length]
<1>10. class = h.tag_class /\ (constructed <=> h.is_constructed) BY <1>3 DEF Says
<1>11. infinite <=> h.is_infinite BY <1>2, <1>6
<1>12. HeaderCodec!krypt_asn1_next_header(o) =
         IF infinite /\ ~constructed THEN HeaderCodec!NotParsed ELSE HeaderCodec!Parsed(r, m + n)
  BY <1>5, <1>7, <1>8, <1>9, ZenonT(60)
<1> HIDE DEF constructed, infinite, class
<1>13. h.is_constructed \in BOOLEAN /\ h.is_infinite \in BOOLEAN BY HeaderHas
<1>14. constructed \in BOOLEAN /\ infinite \in BOOLEAN BY DEF constructed, infinite
<1>15. constructed = h.is_constructed /\ infinite = h.is_infinite BY <1>10, <1>11, <1>13, <1>14
<1>16. r = h
  <2>1. h = [tag |-> h.tag, tag_class |-> h.tag_class, is_constructed |-> h.is_constructed,
             is_infinite |-> h.is_infinite, length |-> h.length] BY HeaderHas
  <2> QED BY <1>10, <1>15, <2>1
<1> HIDE DEF r
<1> QED BY <1>4, <1>12, <1>15, <1>16 DEF o

\* A header that is encoded is parsed as itself, to its end.
LEMMA HeadersComeBack ==
  ASSUME NEW h, IsPlain(h), h.is_infinite => h.is_constructed,
         NEW o, o = HeaderCodec!krypt_asn1_header_encode(h)
  PROVE  HeaderCodec!krypt_asn1_next_header(o) = HeaderCodec!Parsed(h, Len(o))
<1> DEFINE t == HeaderCodec!int_compute_tag(h)
           l == HeaderCodec!int_compute_length(h)
<1>1. o = t \o l BY DEF HeaderCodec!krypt_asn1_header_encode
<1>2. Measured(l, h) BY LengthIsMeasured
<1>3. l \in Seq(Byte) BY <1>2 DEF Measured
<1>4. Tagged(t \o l, t, h) BY <1>3, TagIsRead DEF IsPlain
<1>5. IsHeader(h) BY DEF IsPlain
<1> HIDE DEF t, l
<1> QED BY <1>1, <1>2, <1>4, <1>5, PartsMakeHeader

----------------------------------------------------------------------------
(* Headers: what is parsed is a header *)

LEMMA MinIn ==
  ASSUME NEW S, S \subseteq Nat, S # {}
  PROVE  HeaderCodec!Min(S) \in S
<1>1. PICK x \in S : \A y \in S : x <= y BY FirstOfNumbers
<1>2. S \subseteq Int OBVIOUS
<1>3. HeaderCodec!Min(S) = x BY <1>1, <1>2, MinIs
<1> QED BY <1>3

LEMMA NumbersAreNatural ==
  ASSUME NEW b \in Nat, NEW d \in Seq(Nat)
  PROVE  d \in Seq(Int) /\ NumberOf(d, b) \in Nat
<1> DEFINE S == {i \in Nat : i <= Len(d) => NumberOf(SubSeq(d, 1, i), b) \in Nat}
<1>0. Len(d) \in Nat /\ b \in Int OBVIOUS
<1>1. 0 \in S
  <2>1. SubSeq(d, 1, 0) = <<>> OBVIOUS
  <2>2. NumberOf(<<>>, b) = 0 BY <1>0, NumberOfNothing
  <2>3. NumberOf(SubSeq(d, 1, 0), b) = 0 BY <2>1, <2>2, Zenon
  <2> QED BY <2>3
<1>2. ASSUME NEW i \in Nat, i \in S
      PROVE  i + 1 \in S
  <2> SUFFICES ASSUME i + 1 <= Len(d) PROVE NumberOf(SubSeq(d, 1, i + 1), b) \in Nat OBVIOUS
  <2> DEFINE f == SubSeq(d, 1, i)
             x == d[i + 1]
  <2>1. f \in Seq(Nat) /\ SubSeq(d, 1, i + 1) = Append(f, x) BY LastOf
  <2>2. NumberOf(f, b) \in Nat BY <1>0, <1>2
  <2>3. x \in Nat OBVIOUS
  <2> HIDE DEF f, x
  <2>4. f \in Seq(Int) /\ x \in Int
    <3>1. Nat \subseteq Int OBVIOUS
    <3> QED BY <2>1, <2>3, <3>1, SeqOfMore
  <2>5. NumberOf(Append(f, x), b) = NumberOf(f, b) * b + x BY <1>0, <2>4, NumberOfAppend
  <2>6. \A v \in Nat : v * b + x \in Nat BY <2>3
  <2>7. NumberOf(Append(f, x), b) \in Nat BY <2>2, <2>5, <2>6
  <2> QED BY <2>1, <2>7
<1>3. Nat \subseteq S
  <2> HIDE DEF S
  <2> QED BY <1>1, <1>2, StepInduction
<1>4. NumberOf(SubSeq(d, 1, Len(d)), b) \in Nat BY <1>0, <1>3
<1>5. SubSeq(d, 1, Len(d)) = d BY WholeSeq
<1>6. d \in Seq(Int)
  <2>1. Nat \subseteq Int OBVIOUS
  <2> QED BY <2>1, SeqOfMore
<1> QED BY <1>4, <1>5, <1>6

\* A number whose digits were within the limit.
LEMMA WithinLimitBounds ==
  ASSUME NEW b, IsBase(b), NEW d \in Seq(0..(b - 1)), d # <<>>, NEW limit \in Nat,
         HeaderCodec!WithinLimit(d, b, limit), NEW max, max = limit * b + (b - 1)
  PROVE  NumberOf(d, b) \in 0..max
<1>1. b \in Nat /\ b >= 2 /\ b \in Int BY DEF IsBase
<1>2. 0..(b - 1) \subseteq Nat /\ 0..(b - 1) \subseteq Int BY <1>1
<1>3. d \in Seq(Nat) /\ d \in Seq(Int) BY <1>2, SeqOfMore
<1>4. NumberOf(d, b) \in Nat BY <1>1, <1>3, NumbersAreNatural
<1> DEFINE n == Len(d) - 1
           f == SubSeq(d, 1, n)
           x == d[n + 1]
<1>5. n \in Nat /\ n + 1 = Len(d) /\ n + 1 <= Len(d) /\ n + 1 \in 1..Len(d) BY FirstOfSeq
<1>6. x \in 0..(b - 1) BY <1>5, ElementOfSeq
<1>7. f \in Seq(Int) /\ SubSeq(d, 1, n + 1) = Append(f, x) /\ f \in Seq(Nat)
  <2> HIDE DEF n
  <2>1. f \in Seq(Int) /\ SubSeq(d, 1, n + 1) = Append(f, x) BY <1>3, <1>5, LastOf
  <2>2. f \in Seq(Nat) BY <1>3, <1>5, LastOf
  <2> QED BY <2>1, <2>2
<1>8. d = Append(f, x)
  <2>1. SubSeq(d, 1, Len(d)) = d BY WholeSeq
  <2>2. SubSeq(d, 1, n + 1) = SubSeq(d, 1, Len(d)) BY <1>5
  <2> QED BY <1>7, <2>1, <2>2
<1>9. x \in Int /\ 0 <= x /\ x <= b - 1
  <2> HIDE DEF x
  <2> QED BY <1>1, <1>6
<1>10. n # 0 => NumberOf(f, b) <= limit
  <2> SUFFICES ASSUME n # 0 PROVE NumberOf(f, b) <= limit OBVIOUS
  <2>1. n \in 1..(Len(d) - 1) BY <1>5
  <2>2. HeaderCodec!NumberOf(f, b) <= limit BY <2>1 DEF HeaderCodec!WithinLimit
  <2> QED BY <2>2, SameNumber
<1>11. n = 0 => NumberOf(f, b) = 0
  <2> SUFFICES ASSUME n = 0 PROVE NumberOf(f, b) = 0 OBVIOUS
  <2>1. SubSeq(d, 1, 0) = <<>> BY <1>3
  <2>2. f = <<>> BY <2>1
  <2> QED BY <1>1, <2>2, NumberOfNothing
<1> HIDE DEF f, x, n
<1> DEFINE v == NumberOf(f, b)
<1>12. v \in Nat BY <1>1, <1>7, NumbersAreNatural
<1>13. NumberOf(d, b) = v * b + x
  <2>1. NumberOf(Append(f, x), b) = NumberOf(f, b) * b + x BY <1>1, <1>7, <1>9, NumberOfAppend
  <2> QED BY <1>8, <2>1
<1>14. v <= limit BY <1>10, <1>11
<1> HIDE DEF v
<1>15. v * b <= limit * b BY <1>1, <1>12, <1>14
<1> DEFINE p == v * b
           q == limit * b
<1>16. p \in Nat /\ q \in Nat BY <1>1, <1>12
<1> HIDE DEF p, q
<1>17. p <= q /\ NumberOf(d, b) = p + x /\ max = q + (b - 1) BY <1>13, <1>15 DEF p, q
<1> QED BY <1>1, <1>4, <1>9, <1>16, <1>17

\* A tag that is read is a tag number.
TagRead(tag) == tag.value \in 0..INT_MAX /\ tag.used \in Nat

LEMMA ComplexTagIsRead ==
  ASSUME NEW o \in Seq(Byte), NEW tag, tag = HeaderCodec!int_parse_complex_tag(o), tag.ok
  PROVE  TagRead(tag)
<1> DEFINE last == {i \in 2..Len(o) : ~HeaderCodec!Marked(o[i])}
           end == HeaderCodec!Min(last)
           k == end - 1
           digits == [i \in 1..k |-> o[i + 1] % 128]
           limit == HeaderCodec!KRYPT_ASN1_TAG_LIMIT
<1>1. tag = IF last = {} \/ o[2] = 128 THEN HeaderCodec!NotParsed
            ELSE IF ~HeaderCodec!WithinLimit(digits, 128, limit) THEN HeaderCodec!NotParsed
            ELSE HeaderCodec!Parsed(HeaderCodec!NumberOf(digits, 128), end)
  BY Zenon DEF HeaderCodec!int_parse_complex_tag, HeaderCodec!INFINITE_LENGTH_MASK
<1>2. ~HeaderCodec!NotParsed.ok BY DEF HeaderCodec!NotParsed
<1> HIDE DEF digits, limit
<1>3. last # {} /\ HeaderCodec!WithinLimit(digits, 128, limit)
      /\ tag = HeaderCodec!Parsed(HeaderCodec!NumberOf(digits, 128), end)
  <2> HIDE DEF last, end
  <2> QED BY <1>1, <1>2
<1>4. end \in last
  <2>1. last \subseteq Nat OBVIOUS
  <2> HIDE DEF last
  <2> QED BY <1>3, <2>1, MinIn
<1>5. end \in 2..Len(o)
  <2> HIDE DEF end
  <2> QED BY <1>4
<1> HIDE DEF end
<1>6. k \in Nat /\ k >= 1 /\ end \in Nat /\ \A i \in 1..k : i + 1 \in 1..Len(o) BY <1>5
<1> HIDE DEF k
<1>7. IsList(digits, k, 0..127)
  <2>1. ASSUME NEW i \in 1..k
        PROVE  o[i + 1] % 128 \in 0..127
    <3>1. o[i + 1] \in Byte BY <1>6, ElementOfSeq
    <3>2. \A x \in Byte : x % 128 \in 0..127 BY DEF Byte
    <3> QED BY <3>1, <3>2
  <2> QED BY <2>1 DEF IsList, digits
<1>8. digits \in Seq(0..127) /\ Len(digits) = k BY <1>6, <1>7, SeqFacts
<1>9. digits # <<>>
  <2>1. Len(<<>>) = 0 OBVIOUS
  <2> QED BY <1>6, <1>8, <2>1
<1>10. digits \in Seq(0..(128 - 1)) /\ IsBase(128)
  <2>1. 0..(128 - 1) = 0..127 OBVIOUS
  <2> QED BY <1>8, <2>1 DEF IsBase
<1>11. limit \in Nat /\ INT_MAX = limit * 128 + (128 - 1) BY Limits DEF limit
<1>12. NumberOf(digits, 128) \in 0..INT_MAX BY <1>3, <1>9, <1>10, <1>11, WithinLimitBounds
<1> QED BY <1>3, <1>6, <1>12, SameNumber, ParsedHas DEF TagRead

LEMMA TagIsNumber ==
  ASSUME NEW o \in Seq(Byte), o # <<>>, NEW tag, tag = HeaderCodec!int_parse_tag(o), tag.ok
  PROVE  TagRead(tag)
<1>1. tag = IF o[1] % 32 = 31 THEN HeaderCodec!int_parse_complex_tag(o)
            ELSE HeaderCodec!Parsed(o[1] % 32, 1)
  BY Zenon DEF HeaderCodec!int_parse_tag, HeaderCodec!COMPLEX_TAG_MASK
<1>2. CASE o[1] % 32 = 31 BY <1>1, <1>2, ComplexTagIsRead
<1>3. CASE o[1] % 32 # 31
  <2>1. o[1] \in Byte BY FirstOfSeq
  <2>2. o[1] % 32 \in 0..31
    <3>1. \A x \in Byte : x % 32 \in 0..31 BY DEF Byte
    <3> QED BY <2>1, <3>1
  <2>3. 0..31 \subseteq 0..INT_MAX BY Limits
  <2>4. tag.value = o[1] % 32 /\ tag.used = 1 BY <1>1, <1>3, ParsedHas
  <2>5. tag.value \in 0..INT_MAX BY <2>2, <2>3, <2>4
  <2>6. tag.used \in Nat BY <2>4
  <2> QED BY <2>5, <2>6 DEF TagRead
<1> QED BY <1>2, <1>3

\* A length that is read is a length, and the infinite one is 0.
LengthRead(length, rest) == /\ length.value \in 0..SIZE_MAX
                            /\ rest[1] = 128 => length.value = 0

LEMMA LengthOfMoreIsRead ==
  ASSUME NEW l \in Seq(Byte), l # <<>>, l[1] > 128, NEW length,
         length = HeaderCodec!int_parse_complex_definite_length(l), length.ok
  PROVE  length.value \in 0..SIZE_MAX
<1> DEFINE k == l[1] - 128
           digits == SubSeq(l, 2, k + 1)
           limit == HeaderCodec!KRYPT_ASN1_LENGTH_LIMIT
<1>1. length = IF l[1] = 255 \/ Len(l) < k + 1 THEN HeaderCodec!NotParsed
               ELSE IF ~HeaderCodec!WithinLimit(digits, 256, limit) THEN HeaderCodec!NotParsed
               ELSE HeaderCodec!Parsed(HeaderCodec!NumberOf(digits, 256), k + 1)
  BY Zenon DEF HeaderCodec!int_parse_complex_definite_length, HeaderCodec!INFINITE_LENGTH_MASK
<1>2. ~HeaderCodec!NotParsed.ok BY DEF HeaderCodec!NotParsed
<1>3. k \in Nat \ {0}
  <2>1. l[1] \in Byte BY FirstOfSeq
  <2>2. \A x \in Byte : x > 128 => x - 128 \in Nat \ {0} BY DEF Byte
  <2> QED BY <2>1, <2>2
<1> HIDE DEF k, digits, limit
<1>4. /\ ~(Len(l) < k + 1) /\ HeaderCodec!WithinLimit(digits, 256, limit)
      /\ length = HeaderCodec!Parsed(HeaderCodec!NumberOf(digits, 256), k + 1) BY <1>1, <1>2
<1>5. 2 \in Nat \ {0} /\ k + 1 \in Int /\ k + 1 <= Len(l) /\ Len(l) \in Nat
  <2>1. Len(l) \in Nat OBVIOUS
  <2> QED BY <1>3, <1>4, <2>1
<1>6. digits \in Seq(Byte) /\ DOMAIN digits = 1..k
  <2> DEFINE p == 2
             q == k + 1
  <2>1. p \in Nat \ {0} /\ q \in Int /\ q <= Len(l) /\ digits = SubSeq(l, p, q)
    BY <1>5 DEF digits
  <2> HIDE DEF p, q
  <2>2. SubSeq(l, p, q) \in Seq(Byte) /\ SubSeq(l, p, q) = [i \in 1..(q - p + 1) |-> l[p + i - 1]]
    BY <2>1, SubSeqOf
  <2>3. digits \in Seq(Byte) /\ digits = [i \in 1..(q - p + 1) |-> l[p + i - 1]] BY <2>1, <2>2
  <2>4. q - p + 1 = k BY <1>3 DEF p, q
  <2> QED BY <2>3, <2>4
<1>7. digits # <<>>
  <2>1. 1 \in DOMAIN digits BY <1>3, <1>6
  <2> QED BY <2>1
<1>8. digits \in Seq(0..(256 - 1)) /\ IsBase(256)
  <2>1. 0..(256 - 1) = 0..255 OBVIOUS
  <2> QED BY <1>6, <2>1 DEF IsBase, Byte
<1>9. limit \in Nat /\ SIZE_MAX = limit * 256 + (256 - 1) BY Limits DEF limit
<1>10. NumberOf(digits, 256) \in 0..SIZE_MAX
  BY <1>4, <1>7, <1>8, <1>9, WithinLimitBounds, ZenonT(60)
<1> QED BY <1>4, <1>10, SameNumber, ParsedHas

LEMMA LengthIsRead ==
  ASSUME NEW l \in Seq(Byte), NEW length, length = HeaderCodec!int_parse_length(l), length.ok
  PROVE  LengthRead(length, l)
<1>1. length = IF l = <<>> THEN HeaderCodec!NotParsed
               ELSE IF l[1] > 128 THEN HeaderCodec!int_parse_complex_definite_length(l)
               ELSE HeaderCodec!Parsed(l[1] % 128, 1)
  BY Zenon DEF HeaderCodec!int_parse_length, HeaderCodec!INFINITE_LENGTH_MASK
<1>2. l # <<>>
  <2>1. ~HeaderCodec!NotParsed.ok BY DEF HeaderCodec!NotParsed
  <2> QED BY <1>1, <2>1
<1>3. l[1] \in Byte BY <1>2, FirstOfSeq
<1>4. CASE l[1] > 128
  <2>1. length.value \in 0..SIZE_MAX BY <1>1, <1>2, <1>4, LengthOfMoreIsRead
  <2>2. l[1] # 128 BY <1>3, <1>4
  <2> QED BY <2>1, <2>2 DEF LengthRead
<1>5. CASE ~(l[1] > 128)
  <2>1. length.value = l[1] % 128 BY <1>1, <1>2, <1>5, ParsedHas
  <2>2. \A x \in Byte : x % 128 \in 0..127 BY DEF Byte
  <2>3. 0..127 \subseteq 0..SIZE_MAX BY Limits
  <2>4. length.value \in 0..SIZE_MAX BY <1>3, <2>1, <2>2, <2>3
  <2>5. l[1] = 128 => length.value = 0 BY <2>1
  <2> QED BY <2>4, <2>5 DEF LengthRead
<1> QED BY <1>4, <1>5

\* A header that is parsed is one.
LEMMA HeadersAreHeaders ==
  ASSUME NEW o \in Seq(Byte), NEW r, r = HeaderCodec!krypt_asn1_next_header(o), r.ok
  PROVE  IsPlain(r.value)
<1> DEFINE tag == HeaderCodec!int_parse_tag(o)
           rest == SubSeq(o, tag.used + 1, Len(o))
           length == HeaderCodec!int_parse_length(rest)
           constructed == (o[1] \div 32) % 2 = 1
           infinite == rest[1] = 128
           class == o[1] \div 64
           h == [tag |-> tag.value, tag_class |-> class, is_constructed |-> constructed,
                 is_infinite |-> infinite, length |-> length.value]
<1>1. r = IF o = <<>> THEN HeaderCodec!NotParsed
          ELSE IF ~tag.ok THEN HeaderCodec!NotParsed
          ELSE IF ~length.ok THEN HeaderCodec!NotParsed
          ELSE IF infinite /\ ~constructed THEN HeaderCodec!NotParsed
          ELSE HeaderCodec!Parsed(h, tag.used + length.used)
  BY Zenon DEF HeaderCodec!krypt_asn1_next_header, HeaderCodec!INFINITE_LENGTH_MASK
<1>2. ~HeaderCodec!NotParsed.ok BY DEF HeaderCodec!NotParsed
<1>3. class \in 0..3 \/ o = <<>>
  <2> SUFFICES ASSUME o # <<>> PROVE class \in 0..3 OBVIOUS
  <2>1. o[1] \in Byte BY FirstOfSeq
  <2>2. \A x \in Byte : x \div 64 \in 0..3 BY DEF Byte
  <2> QED BY <2>1, <2>2
<1> HIDE DEF class, constructed, infinite, length, rest, tag
<1>4. o # <<>> /\ tag.ok /\ length.ok /\ r = HeaderCodec!Parsed(h, tag.used + length.used)
  <2> HIDE DEF h
  <2> QED BY <1>1, <1>2, Zenon
<1>5. TagRead(tag) BY <1>4, TagIsNumber DEF tag
<1>6. tag.value \in 0..INT_MAX /\ tag.used \in Nat BY <1>5 DEF TagRead
<1>7. rest \in Seq(Byte)
  <2>1. tag.used + 1 \in Nat \ {0} /\ Len(o) \in Int /\ Len(o) <= Len(o) BY <1>6
  <2> QED BY <2>1, SubSeqOf DEF rest
<1>8. LengthRead(length, rest) BY <1>4, <1>7, LengthIsRead DEF length
<1>9. length.value \in 0..SIZE_MAX /\ (infinite => length.value = 0)
  BY <1>8 DEF LengthRead, infinite
<1>10. constructed \in BOOLEAN /\ infinite \in BOOLEAN BY DEF constructed, infinite
<1>11. h \in HeaderCodec!Header BY <1>3, <1>4, <1>6, <1>9, <1>10 DEF HeaderCodec!Header
<1>12. h.is_infinite = infinite /\ h.length = length.value OBVIOUS
<1> HIDE DEF h
<1>13. r.value = h BY <1>4, ParsedHas
<1> QED BY <1>9, <1>11, <1>12, <1>13 DEF IsPlain, IsHeader

IsAHeader == Is("header")

LEMMA HeaderFirst ==
  ASSUME IInv, IsAHeader, first.ok
  PROVE  IsPlain(first.value)
<1>1. type \in Types /\ type = "header" BY FirstIs DEF IsAHeader, Is
<1>2. ASSUME NEW v \in Values[type], first = Ok(v)
      PROVE  IsPlain(first.value)
  <2>1. v \in HeaderCodec!Header /\ (v.is_infinite => v.length = 0)
    BY <1>1, <1>2, ValuesAssumption
  <2>2. first.value = v BY <1>2 DEF Ok
  <2> QED BY <2>1, <2>2 DEF IsPlain, IsHeader
<1>3. ASSUME NEW o \in Received[type], first \in ValuesOf(o)
      PROVE  IsPlain(first.value)
  <2>1. o \in Seq(Byte) BY <1>1, <1>3, ReceivedAssumption DEF Byte
  <2>2. first = HeaderCodec!krypt_asn1_next_header(o) BY <1>1, <1>3 DEF ValuesOf
  <2> QED BY <2>1, <2>2, HeadersAreHeaders
<1> QED BY <1>2, <1>3, FirstIs

\* Headers: tag, class, length and the two flags come back for every tag number
\* and length up to the limits of the C types, and the parser stops at the end
\* of the header.
THEOREM HeadersAlwaysSurvive ==
  Spec => []HeadersSurvive
<1>1. IInv => HeadersSurvive
  <2> SUFFICES ASSUME IInv, Is("header"), first.ok, first.value.is_infinite => first.value.is_constructed
               PROVE  /\ phase = "decoded" => /\ value.ok
                                              /\ value.value = first.value
                                              /\ value.used = Len(octets.value)
                      /\ first.value \in HeaderCodec!Header BY Zenon DEF HeadersSurvive
  <2>1. IsPlain(first.value) BY HeaderFirst DEF IsAHeader
  <2>2. first.value \in HeaderCodec!Header BY <2>1 DEF IsPlain, IsHeader
  <2>3. ASSUME phase = "decoded"
        PROVE  value.ok /\ value.value = first.value /\ value.used = Len(octets.value)
    <3>1. octets \in EncodingsOf(first.value) /\ value \in ValuesOf(octets.value)
      BY <2>3 DEF IInv, WasDecoded
    <3>2. octets.value = HeaderCodec!krypt_asn1_header_encode(first.value)
      BY <3>1 DEF EncodingsOf, Is, Ok
    <3>3. value = HeaderCodec!krypt_asn1_next_header(octets.value) BY <3>1 DEF ValuesOf, Is
    <3>4. value = HeaderCodec!Parsed(first.value, Len(octets.value))
      BY <2>1, <3>2, <3>3, HeadersComeBack
    <3> QED BY <3>4, ParsedHas
  <2> QED BY <2>2, <2>3
<1> QED BY <1>1, History, PTL

----------------------------------------------------------------------------
(* Sorting *)

\* A strict order of the elements of E, as a set of pairs.
IsOrder(lt, E) ==
  /\ \A a, b, c \in E : <<a, b>> \in lt /\ <<b, c>> \in lt => <<a, c>> \in lt
  /\ \A a \in E : ~(<<a, a>> \in lt)
  /\ \A a, b \in E : a = b \/ <<a, b>> \in lt \/ <<b, a>> \in lt

Upto(lt, a, b) == a = b \/ <<a, b>> \in lt

InOrder(s, n, lt) == \A i \in 1..(n - 1) : Upto(lt, s[i], s[i + 1])

LEMMA UptoGoesOn ==
  ASSUME NEW E, NEW lt, IsOrder(lt, E), NEW a \in E, NEW b \in E, NEW c \in E
  PROVE  /\ Upto(lt, a, b) /\ Upto(lt, b, c) => Upto(lt, a, c)
         /\ Upto(lt, a, b) /\ Upto(lt, b, a) => a = b
         /\ Upto(lt, a, b) \/ Upto(lt, b, a) BY DEF IsOrder, Upto

LEMMA InOrderBetween ==
  ASSUME NEW E, NEW lt, IsOrder(lt, E), NEW n \in Nat, NEW s, IsList(s, n, E), InOrder(s, n, lt),
         NEW i \in 1..n, NEW j \in 1..n, i <= j
  PROVE  Upto(lt, s[i], s[j])
<1> DEFINE S == {k \in Nat : i + k <= n => Upto(lt, s[i], s[i + k])}
<1>0. \A k \in 1..n : s[k] \in E BY DEF IsList
<1>1. 0 \in S
  <2>1. i + 0 = i OBVIOUS
  <2> QED BY <2>1 DEF Upto
<1>2. ASSUME NEW k \in Nat, k \in S
      PROVE  k + 1 \in S
  <2> SUFFICES ASSUME i + (k + 1) <= n PROVE Upto(lt, s[i], s[i + (k + 1)]) OBVIOUS
  <2> DEFINE m == i + k
  <2>1. m \in 1..(n - 1) /\ i + (k + 1) = m + 1 /\ m \in 1..n /\ m + 1 \in 1..n /\ m <= n OBVIOUS
  <2>2. Upto(lt, s[i], s[m]) BY <1>2, <2>1
  <2> HIDE DEF m
  <2>3. Upto(lt, s[m], s[m + 1]) BY <2>1 DEF InOrder
  <2>4. s[i] \in E /\ s[m] \in E /\ s[m + 1] \in E BY <1>0, <2>1
  <2>5. Upto(lt, s[i], s[m + 1]) BY <2>2, <2>3, <2>4, UptoGoesOn
  <2> QED BY <2>1, <2>5
<1>3. Nat \subseteq S
  <2> HIDE DEF S
  <2> QED BY <1>1, <1>2, StepInduction
<1>4. j - i \in Nat /\ i + (j - i) = j OBVIOUS
<1>5. i + (j - i) <= n OBVIOUS
<1> QED BY <1>3, <1>4, <1>5

IsPermutation(p, n) ==
  /\ p \in [1..n -> 1..n]
  /\ \A i, j \in 1..n : p[i] = p[j] => i = j
  /\ \A k \in 1..n : \E i \in 1..n : p[i] = k

LEMMA Permutes ==
  ASSUME NEW n \in Nat, NEW p
  PROVE  IsPermutation(p, n) <=> p \in Bijection(1..n, 1..n)
<1>1. ASSUME p \in [1..n -> 1..n]
      PROVE  DOMAIN p = 1..n
  BY <1>1
<1> QED BY <1>1 DEF IsPermutation, Bijection, Injection, Surjection, IsInjective

\* Were the i-th elements of two orders different, the lower one would be in
\* i places of the one and in less of the other.
LEMMA LowerComesFirst ==
  ASSUME NEW E, NEW lt, IsOrder(lt, E), NEW n \in Nat, NEW v, IsList(v, n, E),
         NEW p, IsPermutation(p, n), NEW q, IsPermutation(q, n),
         InOrder([i \in 1..n |-> v[p[i]]], n, lt), InOrder([i \in 1..n |-> v[q[i]]], n, lt),
         NEW i \in 1..n
  PROVE  ~(<<v[p[i]], v[q[i]]>> \in lt)
<1> SUFFICES ASSUME <<v[p[i]], v[q[i]]>> \in lt PROVE FALSE OBVIOUS
<1> DEFINE s == [k \in 1..n |-> v[p[k]]]
           t == [k \in 1..n |-> v[q[k]]]
<1>1. \A k \in 1..n : v[k] \in E /\ p[k] \in 1..n /\ q[k] \in 1..n BY DEF IsList, IsPermutation
<1>2. IsList(s, n, E) /\ IsList(t, n, E) /\ (\A k \in 1..n : s[k] = v[p[k]] /\ t[k] = v[q[k]])
  BY <1>1 DEF IsList
<1> HIDE DEF s, t
<1>3. InOrder(s, n, lt) /\ InOrder(t, n, lt) BY DEF s, t
<1>4. <<s[i], t[i]>> \in lt BY <1>2
<1>5. ASSUME NEW j \in 1..i
      PROVE  \E m \in 1..(i - 1) : q[m] = p[j]
  <2>1. j \in 1..n /\ j <= i OBVIOUS
  <2>2. PICK m \in 1..n : q[m] = p[j] BY <1>1, <2>1 DEF IsPermutation
  <2>3. ~(i <= m)
    <3> SUFFICES ASSUME i <= m PROVE FALSE OBVIOUS
    <3>1. Upto(lt, s[j], s[i]) BY <1>2, <1>3, <2>1, InOrderBetween
    <3>2. Upto(lt, t[i], t[m]) BY <1>2, <1>3, InOrderBetween
    <3>3. t[m] = s[j] BY <1>2, <2>1, <2>2
    <3>4. s[j] \in E /\ s[i] \in E /\ t[i] \in E BY <1>2, <2>1 DEF IsList
    <3>5. Upto(lt, t[i], s[i]) BY <3>1, <3>2, <3>3, <3>4, UptoGoesOn
    <3> QED BY <1>4, <3>4, <3>5 DEF Upto, IsOrder
  <2>4. m \in 1..(i - 1) BY <2>3
  <2> QED BY <2>2, <2>4
<1> DEFINE f == [j \in 1..i |-> CHOOSE m \in 1..(i - 1) : q[m] = p[j]]
<1>6. \A j \in 1..i : f[j] \in 1..(i - 1) /\ q[f[j]] = p[j] BY <1>5
<1>7. f \in [1..i -> 1..(i - 1)] BY <1>6
<1> HIDE DEF f
<1>8. /\ IsFiniteSet(1..i) /\ IsFiniteSet(1..(i - 1))
      /\ Cardinality(1..(i - 1)) < Cardinality(1..i)
  <2>1. 1 \in Int /\ i \in Int /\ i - 1 \in Int /\ i >= 1 OBVIOUS
  <2>2. Cardinality(1..i) = i BY <2>1, FS_Interval
  <2>3. Cardinality(1..(i - 1)) = i - 1 BY <2>1, FS_Interval
  <2>4. IsFiniteSet(1..i) /\ IsFiniteSet(1..(i - 1)) BY <2>1, FS_Interval
  <2> QED BY <2>1, <2>2, <2>3, <2>4
<1>9. PICK x, y \in 1..i : x # y /\ f[x] = f[y] BY <1>7, <1>8, FS_PigeonHole
<1>10. p[x] = p[y] /\ x \in 1..n /\ y \in 1..n BY <1>6, <1>9
<1> QED BY <1>9, <1>10 DEF IsPermutation

\* Elements have one order only.
LEMMA OneOrder ==
  ASSUME NEW E, NEW lt, IsOrder(lt, E), NEW n \in Nat, NEW v, IsList(v, n, E),
         NEW p, IsPermutation(p, n), NEW q, IsPermutation(q, n),
         InOrder([i \in 1..n |-> v[p[i]]], n, lt), InOrder([i \in 1..n |-> v[q[i]]], n, lt)
  PROVE  [i \in 1..n |-> v[p[i]]] = [i \in 1..n |-> v[q[i]]]
<1>1. ASSUME NEW i \in 1..n
      PROVE  v[p[i]] = v[q[i]]
  <2>1. ~(<<v[p[i]], v[q[i]]>> \in lt) /\ ~(<<v[q[i]], v[p[i]]>> \in lt) BY LowerComesFirst
  <2>2. v[p[i]] \in E /\ v[q[i]] \in E BY DEF IsList, IsPermutation
  <2> QED BY <2>1, <2>2 DEF IsOrder
<1> QED BY <1>1

\* One of the elements is the last of the order.
LEMMA LastOfElements ==
  ASSUME NEW E, NEW lt, IsOrder(lt, E), NEW n \in Nat \ {0}, NEW v, IsList(v, n, E)
  PROVE  \E m \in 1..n : \A i \in 1..n : Upto(lt, v[i], v[m])
<1> DEFINE S == {k \in Nat : k + 1 <= n => \E m \in 1..(k + 1) : \A i \in 1..(k + 1) : Upto(lt, v[i], v[m])}
<1>0. \A k \in 1..n : v[k] \in E BY DEF IsList
<1>1. 0 \in S
  <2>1. 1 \in 1..(0 + 1) /\ \A i \in 1..(0 + 1) : Upto(lt, v[i], v[1]) BY DEF Upto
  <2> QED BY <2>1
<1>2. ASSUME NEW k \in Nat, k \in S
      PROVE  k + 1 \in S
  <2> SUFFICES ASSUME k + 2 <= n
               PROVE  \E m \in 1..(k + 2) : \A i \in 1..(k + 2) : Upto(lt, v[i], v[m])
    <3>1. (k + 1) + 1 = k + 2 OBVIOUS
    <3> QED BY <3>1
  <2>1. PICK m \in 1..(k + 1) : \A i \in 1..(k + 1) : Upto(lt, v[i], v[m]) BY <1>2
  <2>2. \A i \in 1..(k + 2) : i = k + 2 \/ i \in 1..(k + 1) OBVIOUS
  <2>3. m \in 1..n /\ k + 2 \in 1..n /\ m \in 1..(k + 2) /\ k + 2 \in 1..(k + 2) /\ \A i \in 1..(k + 2) : i \in 1..n
    OBVIOUS
  <2>4. CASE Upto(lt, v[k + 2], v[m]) BY <2>1, <2>2, <2>3, <2>4
  <2>5. CASE ~Upto(lt, v[k + 2], v[m])
    <3>1. Upto(lt, v[m], v[k + 2]) BY <1>0, <2>3, <2>5, UptoGoesOn
    <3>2. ASSUME NEW i \in 1..(k + 2)
          PROVE  Upto(lt, v[i], v[k + 2])
      <4>1. CASE i = k + 2 BY <4>1 DEF Upto
      <4>2. CASE i # k + 2
        <5>1. Upto(lt, v[i], v[m]) BY <2>1, <2>2, <4>2
        <5> QED BY <1>0, <2>3, <3>1, <5>1, UptoGoesOn
      <4> QED BY <4>1, <4>2
    <3> QED BY <2>3, <3>2
  <2> QED BY <2>4, <2>5
<1>3. Nat \subseteq S
  <2> HIDE DEF S
  <2> QED BY <1>1, <1>2, StepInduction
<1>4. n - 1 \in S
  <2>1. n - 1 \in Nat OBVIOUS
  <2> HIDE DEF S
  <2> QED BY <1>3, <2>1
<1>5. (n - 1) + 1 = n /\ n <= n OBVIOUS
<1> QED BY <1>4, <1>5

\* A permutation of fewer elements, and one more element at the end.
LEMMA OneMoreElement ==
  ASSUME NEW n \in Nat, NEW p, IsPermutation(p, n), NEW m \in 1..(n + 1),
         NEW g, g = [i \in 1..(n + 1) |-> IF i = n + 1 THEN m ELSE IF p[i] = m THEN n + 1 ELSE p[i]]
  PROVE  IsPermutation(g, n + 1)
<1> DEFINE k == n + 1
<1>1. k \in 1..k /\ ~(k \in 1..n) /\ \A i \in 1..k : i = k \/ i \in 1..n OBVIOUS
<1>2. /\ \A i \in 1..n : p[i] \in 1..n /\ p[i] \in 1..k /\ p[i] # k /\ i \in 1..k /\ i # k
      /\ g[k] = m
  <2>1. \A i \in 1..n : p[i] \in 1..n BY DEF IsPermutation
  <2>2. \A i \in 1..n : i \in 1..k /\ i # k OBVIOUS
  <2>3. g[k] = m BY <1>1
  <2> QED BY <2>1, <2>2, <2>3
<1>3. \A i \in 1..n : g[i] = IF p[i] = m THEN k ELSE p[i] BY <1>2
<1>4. g \in [1..k -> 1..k] BY <1>1, <1>2
<1> HIDE DEF k
<1>5. ASSUME NEW i \in 1..n
      PROVE  g[i] # g[k]
  <2>1. CASE p[i] = m BY <1>2, <1>3, <2>1
  <2>2. CASE p[i] # m BY <1>2, <1>3, <2>2
  <2> QED BY <2>1, <2>2
<1>6. ASSUME NEW i \in 1..n, NEW j \in 1..n, g[i] = g[j]
      PROVE  i = j
  <2>1. p[i] = p[j] BY <1>2, <1>3, <1>6
  <2> QED BY <2>1 DEF IsPermutation
<1>7. ASSUME NEW l \in 1..k
      PROVE  \E i \in 1..k : g[i] = l
  <2>1. CASE l = m BY <1>1, <1>2, <2>1
  <2>2. CASE l # m /\ l = k
    <3>1. m \in 1..n BY <1>1, <2>2 DEF k
    <3>2. PICK i \in 1..n : p[i] = m BY <3>1 DEF IsPermutation
    <3> QED BY <1>2, <1>3, <2>2, <3>2
  <2>3. CASE l # m /\ l # k
    <3>1. l \in 1..n BY <1>1, <2>3
    <3>2. PICK i \in 1..n : p[i] = l BY <3>1 DEF IsPermutation
    <3> QED BY <1>2, <1>3, <2>3, <3>2
  <2> QED BY <2>1, <2>2, <2>3
<1>8. \A i, j \in 1..k : g[i] = g[j] => i = j BY <1>1, <1>5, <1>6
<1> QED BY <1>4, <1>7, <1>8 DEF IsPermutation, k

\* Elements can be sorted.
LEMMA CanBeSorted ==
  ASSUME NEW E, NEW lt, IsOrder(lt, E), NEW n \in Nat, NEW v, IsList(v, n, E)
  PROVE  \E p : IsPermutation(p, n) /\ InOrder([i \in 1..n |-> v[p[i]]], n, lt)
<1> DEFINE Sorts(p, w, k) == IsPermutation(p, k) /\ InOrder([i \in 1..k |-> w[p[i]]], k, lt)
           S == {k \in Nat : \A w : IsList(w, k, E) => \E p : Sorts(p, w, k)}
<1>1. 0 \in S
  <2> DEFINE p == [i \in 1..0 |-> i]
  <2>1. IsPermutation(p, 0) BY DEF IsPermutation
  <2>2. \A w : InOrder([i \in 1..0 |-> w[p[i]]], 0, lt) BY DEF InOrder
  <2> HIDE DEF p
  <2>3. \A w : Sorts(p, w, 0) BY <2>1, <2>2
  <2> HIDE DEF Sorts
  <2> QED BY <2>3
<1>2. ASSUME NEW k \in Nat, k \in S
      PROVE  k + 1 \in S
  <2> SUFFICES ASSUME NEW w, IsList(w, k + 1, E)
               PROVE  \E p : Sorts(p, w, k + 1)
    OBVIOUS
  <2>1. k + 1 \in Nat \ {0} /\ k + 1 \in 1..(k + 1) /\ \A i \in 1..k : i \in 1..(k + 1) /\ i # k + 1
    OBVIOUS
  <2>2. PICK m \in 1..(k + 1) : \A i \in 1..(k + 1) : Upto(lt, w[i], w[m])
    BY <2>1, LastOfElements
  <2> DEFINE u == [i \in 1..k |-> IF i = m THEN w[k + 1] ELSE w[i]]
  <2>3. IsList(u, k, E) BY <2>1 DEF IsList
  <2>4. PICK p : Sorts(p, u, k)
    <3> HIDE DEF u, Sorts
    <3> QED BY <1>2, <2>3
  <2> DEFINE g == [i \in 1..(k + 1) |-> IF i = k + 1 THEN m ELSE IF p[i] = m THEN k + 1 ELSE p[i]]
             s == [i \in 1..(k + 1) |-> w[g[i]]]
             t == [i \in 1..k |-> u[p[i]]]
  <2>5. IsPermutation(g, k + 1)
    <3> HIDE DEF u
    <3> QED BY <2>4, OneMoreElement
  <2>6. \A i \in 1..k : p[i] \in 1..k BY <2>4 DEF IsPermutation
  <2>7. \A i \in 1..k : s[i] = t[i] /\ g[i] \in 1..(k + 1) BY <2>1, <2>6
  <2>8. s[k + 1] = w[m] BY <2>1
  <2>9. \A i \in 1..k : s[i] = w[g[i]] BY <2>1
  <2> HIDE DEF g, s, t, u
  <2>10. InOrder(t, k, lt) BY <2>4 DEF t
  <2>11. ASSUME NEW i \in 1..((k + 1) - 1)
         PROVE  Upto(lt, s[i], s[i + 1])
    <3>1. i \in 1..k OBVIOUS
    <3>2. CASE i = k
      <4>1. Upto(lt, w[g[i]], w[m]) BY <2>2, <2>7, <3>1
      <4> QED BY <2>8, <2>9, <3>1, <3>2, <4>1
    <3>3. CASE i # k
      <4>1. i \in 1..(k - 1) /\ i + 1 \in 1..k BY <3>1, <3>3
      <4>2. Upto(lt, t[i], t[i + 1]) BY <2>10, <4>1 DEF InOrder
      <4> QED BY <2>7, <3>1, <4>1, <4>2
    <3> QED BY <3>2, <3>3
  <2>12. InOrder(s, k + 1, lt) BY <2>11 DEF InOrder
  <2>13. Sorts(g, w, k + 1) BY <2>5, <2>12 DEF s
  <2> HIDE DEF Sorts
  <2> QED BY <2>13
<1>3. Nat \subseteq S
  <2> HIDE DEF S
  <2> QED BY <1>1, <1>2, StepInduction
<1> QED BY <1>3

\* A permutation that makes p of q.
Undoes(r, q, p, n) == IsPermutation(r, n) /\ \A i \in 1..n : q[r[i]] = p[i]

\* A permutation of a permutation, and back.
LEMMA PermutationsCompose ==
  ASSUME NEW n \in Nat, NEW p, IsPermutation(p, n), NEW q, IsPermutation(q, n)
  PROVE  /\ IsPermutation([i \in 1..n |-> p[q[i]]], n)
         /\ \E r : Undoes(r, p, q, n)
<1> DEFINE c == [i \in 1..n |-> p[q[i]]]
           r == [i \in 1..n |-> CHOOSE k \in 1..n : p[k] = q[i]]
<1>1. \A i \in 1..n : p[i] \in 1..n /\ q[i] \in 1..n BY DEF IsPermutation
<1>2. IsPermutation(c, n)
  <2>1. c \in [1..n -> 1..n] BY <1>1
  <2>2. \A i \in 1..n : c[i] = p[q[i]] OBVIOUS
  <2> HIDE DEF c
  <2>3. \A i, j \in 1..n : c[i] = c[j] => i = j
    <3> SUFFICES ASSUME NEW i \in 1..n, NEW j \in 1..n, c[i] = c[j] PROVE i = j OBVIOUS
    <3>1. p[q[i]] = p[q[j]] BY <2>2
    <3>2. q[i] = q[j]
      <4> DEFINE x == q[i]
                 y == q[j]
      <4>1. x \in 1..n /\ y \in 1..n /\ p[x] = p[y] BY <1>1, <3>1
      <4> HIDE DEF x, y
      <4>2. \A k, l \in 1..n : p[k] = p[l] => k = l BY DEF IsPermutation
      <4>3. x = y BY <4>1, <4>2
      <4> QED BY <4>3 DEF x, y
    <3> QED BY <3>2 DEF IsPermutation
  <2>4. ASSUME NEW k \in 1..n
        PROVE  \E i \in 1..n : c[i] = k
    <3>1. PICK j \in 1..n : p[j] = k BY DEF IsPermutation
    <3>2. PICK i \in 1..n : q[i] = j BY DEF IsPermutation
    <3> QED BY <2>2, <3>1, <3>2
  <2> QED BY <2>1, <2>3, <2>4 DEF IsPermutation
<1>3. \A i \in 1..n : r[i] \in 1..n /\ p[r[i]] = q[i]
  <2>1. \A i \in 1..n : \E k \in 1..n : p[k] = q[i] BY <1>1 DEF IsPermutation
  <2> QED BY <2>1
<1>4. IsPermutation(r, n)
  <2>1. r \in [1..n -> 1..n] BY <1>3
  <2> HIDE DEF r
  <2>2. \A i, j \in 1..n : r[i] = r[j] => i = j
    <3>1. \A i, j \in 1..n : r[i] = r[j] => q[i] = q[j] BY <1>3
    <3> QED BY <3>1 DEF IsPermutation
  <2>3. ASSUME NEW k \in 1..n
        PROVE  \E i \in 1..n : r[i] = k
    <3>1. PICK i \in 1..n : q[i] = p[k] BY <1>1 DEF IsPermutation
    <3>2. p[r[i]] = p[k] /\ r[i] \in 1..n BY <1>3, <3>1
    <3>3. r[i] = k BY <3>2 DEF IsPermutation
    <3> QED BY <3>3
  <2> QED BY <2>1, <2>2, <2>3 DEF IsPermutation
<1> HIDE DEF c, r
<1> QED BY <1>2, <1>3, <1>4 DEF c, Undoes

----------------------------------------------------------------------------
(* The order of octets *)

\* The octet in a place, or something lower behind the last.
At(s, i) == IF i <= Len(s) THEN s[i] ELSE -1

\* The first place where they differ decides.
DifferIn(s1, s2, k) ==
  /\ k \in Nat \ {0}
  /\ \A j \in 1..(k - 1) : At(s1, j) = At(s2, j)
  /\ At(s1, k) < At(s2, k)

Less(s1, s2) == \E k : DifferIn(s1, s2, k)

LEMMA AtOctets ==
  ASSUME NEW s \in Seq(Byte)
  PROVE  /\ \A i \in Nat \ {0} : At(s, i) \in Int /\ At(s, i) >= -1
         /\ \A i \in 1..Len(s) : At(s, i) = s[i] /\ At(s, i) >= 0
         /\ \A i \in Nat \ {0} : i > Len(s) => At(s, i) = -1
         /\ Len(s) \in Nat
<1>1. Len(s) \in Nat OBVIOUS
<1>2. \A i \in 1..Len(s) : s[i] \in Byte BY ElementOfSeq
<1>3. \A x \in Byte : x \in Int /\ x >= 0 /\ x >= -1 BY DEF Byte
<1>4. \A i \in 1..Len(s) : At(s, i) = s[i] /\ At(s, i) >= 0 /\ At(s, i) \in Int /\ At(s, i) >= -1
  BY <1>1, <1>2, <1>3 DEF At
<1>5. \A i \in Nat \ {0} : i > Len(s) => At(s, i) = -1 BY <1>1 DEF At
<1>6. \A i \in Nat \ {0} : i > Len(s) \/ i \in 1..Len(s) BY <1>1
<1>7. ASSUME NEW i \in Nat \ {0}
      PROVE  At(s, i) \in Int /\ At(s, i) >= -1
  <2>1. CASE i > Len(s) BY <1>5, <2>1
  <2>2. CASE i \in 1..Len(s) BY <1>4, <2>2
  <2> QED BY <1>6, <2>1, <2>2
<1> QED BY <1>1, <1>4, <1>5, <1>7

LEMMA LessIsOrder ==
  ASSUME NEW a \in Seq(Byte), NEW b \in Seq(Byte), NEW c \in Seq(Byte)
  PROVE  /\ Less(a, b) /\ Less(b, c) => Less(a, c)
         /\ ~Less(a, a)
         /\ Less(a, b) => ~Less(b, a)
         /\ a = b \/ Less(a, b) \/ Less(b, a)
<1>1. \A i \in Nat \ {0} : At(a, i) \in Int /\ At(b, i) \in Int /\ At(c, i) \in Int BY AtOctets
<1>2. ASSUME NEW k, NEW l, DifferIn(a, b, k), DifferIn(b, c, l)
      PROVE  Less(a, c)
  <2>1. k \in Nat \ {0} /\ l \in Nat \ {0} BY <1>2 DEF DifferIn
  <2>2. /\ \A j \in 1..(k - 1) : At(a, j) = At(b, j)
        /\ \A j \in 1..(l - 1) : At(b, j) = At(c, j)
        /\ At(a, k) < At(b, k) /\ At(b, l) < At(c, l) BY <1>2 DEF DifferIn
  <2>3. CASE k < l
    <3>1. k \in 1..(l - 1) /\ \A j \in 1..(k - 1) : j \in 1..(l - 1) BY <2>1, <2>3
    <3>2. DifferIn(a, c, k) BY <1>1, <2>1, <2>2, <3>1 DEF DifferIn
    <3> QED BY <3>2 DEF Less
  <2>4. CASE l < k
    <3>1. l \in 1..(k - 1) /\ \A j \in 1..(l - 1) : j \in 1..(k - 1) BY <2>1, <2>4
    <3>2. DifferIn(a, c, l) BY <1>1, <2>1, <2>2, <3>1 DEF DifferIn
    <3> QED BY <3>2 DEF Less
  <2>5. CASE k = l
    <3>1. At(a, k) < At(c, k) BY <1>1, <2>1, <2>2, <2>5
    <3>2. DifferIn(a, c, k) BY <2>1, <2>2, <2>5, <3>1 DEF DifferIn
    <3> QED BY <3>2 DEF Less
  <2> QED BY <2>1, <2>3, <2>4, <2>5
<1>3. ~Less(a, a) BY <1>1, SMTT(30) DEF Less, DifferIn
<1>4. ASSUME NEW k, NEW l, DifferIn(a, b, k), DifferIn(b, a, l)
      PROVE  FALSE
  <2>1. k \in Nat \ {0} /\ l \in Nat \ {0} BY <1>4 DEF DifferIn
  <2>2. /\ \A j \in 1..(k - 1) : At(a, j) = At(b, j)
        /\ \A j \in 1..(l - 1) : At(b, j) = At(a, j)
        /\ At(a, k) < At(b, k) /\ At(b, l) < At(a, l) BY <1>4 DEF DifferIn
  <2>3. k < l => k \in 1..(l - 1) BY <2>1
  <2>4. l < k => l \in 1..(k - 1) BY <2>1
  <2> QED BY <1>1, <2>1, <2>2, <2>3, <2>4
<1>5. ASSUME a # b, ~Less(a, b)
      PROVE  Less(b, a)
  <2> DEFINE D1 == {k \in Nat \ {0} : At(a, k) # At(b, k)}
  <2>1. D1 # {}
    <3> SUFFICES ASSUME \A k \in Nat \ {0} : At(a, k) = At(b, k) PROVE FALSE OBVIOUS
    <3>1. Len(a) \in Nat /\ Len(b) \in Nat BY AtOctets
    <3>2. Len(a) = Len(b)
      <4> DEFINE m == Len(a)
                 n == Len(b)
      <4>1. m \in Nat /\ n \in Nat BY <3>1
      <4>2. ASSUME m < n PROVE FALSE
        <5>1. m + 1 \in 1..n /\ m + 1 > m /\ m + 1 \in Nat \ {0} BY <4>1, <4>2
        <5>2. At(a, m + 1) = -1 BY <5>1, AtOctets
        <5>3. At(b, m + 1) >= 0 BY <5>1, AtOctets
        <5> QED BY <5>1, <5>2, <5>3
      <4>3. ASSUME n < m PROVE FALSE
        <5>1. n + 1 \in 1..m /\ n + 1 > n /\ n + 1 \in Nat \ {0} BY <4>1, <4>3
        <5>2. At(b, n + 1) = -1 BY <5>1, AtOctets
        <5>3. At(a, n + 1) >= 0 BY <5>1, AtOctets
        <5> QED BY <5>1, <5>2, <5>3
      <4> HIDE DEF m, n
      <4>4. m = n BY <4>1, <4>2, <4>3
      <4> QED BY <4>4 DEF m, n
    <3>3. ASSUME NEW i \in 1..Len(a) PROVE a[i] = b[i]
      <4>1. At(a, i) = a[i] /\ At(b, i) = b[i] /\ i \in Nat \ {0} BY <3>1, <3>2, AtOctets
      <4> QED BY <4>1
    <3> QED BY <1>5, <3>2, <3>3, SeqEqual
  <2>2. D1 \subseteq Nat OBVIOUS
  <2>3. PICK k \in D1 : \A j \in D1 : k <= j
    <3> HIDE DEF D1
    <3> QED BY <2>1, <2>2, FirstOfNumbers
  <2>4. \A j \in 1..(k - 1) : At(a, j) = At(b, j) BY <2>3
  <2>5. ~(At(a, k) < At(b, k)) BY <1>5, <2>3, <2>4 DEF Less, DifferIn
  <2>6. At(b, k) < At(a, k) BY <1>1, <2>3, <2>5
  <2> QED BY <2>3, <2>4, <2>6 DEF Less, DifferIn
<1>6. Less(a, b) /\ Less(b, c) => Less(a, c)
  <2> SUFFICES ASSUME Less(a, b), Less(b, c) PROVE Less(a, c) OBVIOUS
  <2>1. PICK k : DifferIn(a, b, k) BY DEF Less
  <2>2. PICK l : DifferIn(b, c, l) BY DEF Less
  <2> QED BY <1>2, <2>1, <2>2
<1>7. Less(a, b) => ~Less(b, a)
  <2> SUFFICES ASSUME Less(a, b), Less(b, a) PROVE FALSE OBVIOUS
  <2>1. PICK k : DifferIn(a, b, k) BY DEF Less
  <2>2. PICK l : DifferIn(b, a, l) BY DEF Less
  <2> QED BY <1>4, <2>1, <2>2
<1> QED BY <1>3, <1>5, <1>6, <1>7

LEMMA MinOfTwo ==
  ASSUME NEW m \in Nat, NEW n \in Nat
  PROVE  HeaderCodec!Min({m, n}) = IF m <= n THEN m ELSE n
<1> DEFINE S == {m, n}
<1>1. S \subseteq Int OBVIOUS
<1>2. CASE m <= n
  <2>1. m \in S /\ \A y \in S : m <= y BY <1>2
  <2> HIDE DEF S
  <2>2. HeaderCodec!Min(S) = m BY <1>1, <2>1, MinIs
  <2> QED BY <1>2, <2>2 DEF S
<1>3. CASE ~(m <= n)
  <2>1. n \in S /\ \A y \in S : n <= y BY <1>3
  <2> HIDE DEF S
  <2>2. HeaderCodec!Min(S) = n BY <1>1, <2>1, MinIs
  <2> QED BY <1>3, <2>2 DEF S
<1> QED BY <1>2, <1>3

Common(a, b) == 1..HeaderCodec!Min({Len(a), Len(b)})

Differ(a, b) == {i \in Common(a, b) : a[i] # b[i]}

LEMMA OrderBy ==
  ASSUME NEW a, NEW b
  PROVE  HeaderCodec!OctetOrder(a, b)
         = IF Differ(a, b) # {}
           THEN IF a[HeaderCodec!Min(Differ(a, b))] < b[HeaderCodec!Min(Differ(a, b))] THEN -1 ELSE 1
           ELSE IF Len(a) = Len(b) THEN 0
           ELSE IF Len(a) < Len(b) THEN -1 ELSE 1
  BY Zenon DEF HeaderCodec!OctetOrder, Common, Differ

\* Where octets differ first, in both of them or behind the end of one.
LEMMA FirstDifference ==
  ASSUME NEW a \in Seq(Byte), NEW b \in Seq(Byte), NEW k, DifferIn(a, b, k)
  PROVE  /\ Len(a) \in Nat /\ Len(b) \in Nat /\ k \in Nat \ {0}
         /\ \/ /\ k \in Common(a, b) /\ k \in Common(b, a) /\ a[k] < b[k] /\ a[k] \in Int /\ b[k] \in Int
               /\ HeaderCodec!Min(Differ(a, b)) = k /\ k \in Differ(a, b)
               /\ HeaderCodec!Min(Differ(b, a)) = k /\ k \in Differ(b, a)
            \/ /\ Len(a) < Len(b)
               /\ Differ(a, b) = {} /\ Differ(b, a) = {}
<1> DEFINE m == Len(a)
           n == Len(b)
<1>1. m \in Nat /\ n \in Nat OBVIOUS
<1>2. k \in Nat \ {0} /\ (\A j \in 1..(k - 1) : At(a, j) = At(b, j)) /\ At(a, k) < At(b, k)
  BY DEF DifferIn
<1>3. Common(a, b) = 1..(IF m <= n THEN m ELSE n) BY <1>1, MinOfTwo DEF Common
<1>4. Common(b, a) = 1..(IF n <= m THEN n ELSE m) BY <1>1, MinOfTwo DEF Common
<1>5. /\ \A i \in 1..m : At(a, i) = a[i] /\ At(a, i) >= 0
      /\ \A i \in 1..n : At(b, i) = b[i] /\ At(b, i) >= 0
      /\ \A i \in Nat \ {0} : /\ i > m => At(a, i) = -1
                              /\ i > n => At(b, i) = -1
                              /\ At(a, i) \in Int /\ At(b, i) \in Int /\ At(a, i) >= -1
  BY AtOctets
<1> HIDE DEF m, n
<1>6. k <= n
  <2> SUFFICES ASSUME k > n PROVE FALSE BY <1>1, <1>2
  <2>1. At(b, k) = -1 BY <1>2, <1>5
  <2>2. At(a, k) >= -1 /\ At(a, k) \in Int BY <1>2, <1>5
  <2> QED BY <1>2, <2>1, <2>2
<1>7. Common(a, b) = Common(b, a) /\ (\A i \in Common(a, b) : i \in 1..m /\ i \in 1..n)
  BY <1>1, <1>3, <1>4
<1>8. Differ(a, b) = Differ(b, a) BY <1>7 DEF Differ
<1>9. \A i \in Common(a, b) : At(a, i) = a[i] /\ At(b, i) = b[i] BY <1>5, <1>7
<1>10. CASE k <= m
  <2>1. k \in Common(a, b) BY <1>1, <1>2, <1>3, <1>6, <1>10
  <2>2. k \in Nat \ {0} /\ At(a, k) \in Int /\ At(b, k) \in Int BY <1>2, <1>5
  <2>3. a[k] < b[k] /\ a[k] \in Int /\ b[k] \in Int BY <1>2, <1>9, <2>1, <2>2
  <2>4. k \in Differ(a, b) BY <2>1, <2>3 DEF Differ
  <2>5. ASSUME NEW i \in Differ(a, b)
        PROVE  k <= i
    <3>1. i \in Common(a, b) /\ a[i] # b[i] BY DEF Differ
    <3>2. At(a, i) # At(b, i) /\ i \in 1..m BY <1>7, <1>9, <3>1
    <3>3. ~(i \in 1..(k - 1)) BY <1>2, <3>2
    <3> QED BY <1>1, <1>2, <3>2, <3>3
  <2>6. Differ(a, b) \subseteq Int BY <1>7 DEF Differ
  <2>7. HeaderCodec!Min(Differ(a, b)) = k BY <2>4, <2>5, <2>6, MinIs
  <2> QED BY <1>1, <1>2, <1>7, <1>8, <2>1, <2>3, <2>4, <2>7 DEF m, n
<1>11. CASE k > m
  <2>1. m < n BY <1>1, <1>2, <1>6, <1>11
  <2>2. ASSUME NEW i \in Differ(a, b)
        PROVE  FALSE
    <3>1. i \in Common(a, b) /\ a[i] # b[i] BY DEF Differ
    <3>2. At(a, i) # At(b, i) /\ i \in 1..m BY <1>7, <1>9, <3>1
    <3>3. i \in 1..(k - 1) BY <1>1, <1>2, <1>11, <3>2
    <3> QED BY <1>2, <3>2, <3>3
  <2>3. Differ(a, b) = {} BY <2>2
  <2> QED BY <1>1, <1>2, <1>8, <2>1, <2>3 DEF m, n
<1> QED BY <1>1, <1>2, <1>10, <1>11

LEMMA OctetOrderIs ==
  ASSUME NEW a \in Seq(Byte), NEW b \in Seq(Byte)
  PROVE  /\ Less(a, b) => HeaderCodec!OctetOrder(a, b) = -1 /\ HeaderCodec!OctetOrder(b, a) = 1
         /\ a = b => HeaderCodec!OctetOrder(a, b) = 0
<1>1. ASSUME NEW k, DifferIn(a, b, k)
      PROVE  HeaderCodec!OctetOrder(a, b) = -1 /\ HeaderCodec!OctetOrder(b, a) = 1
  <2>0. Len(a) \in Nat /\ Len(b) \in Nat OBVIOUS
  <2>1. CASE /\ a[k] < b[k] /\ a[k] \in Int /\ b[k] \in Int
             /\ HeaderCodec!Min(Differ(a, b)) = k /\ k \in Differ(a, b)
             /\ HeaderCodec!Min(Differ(b, a)) = k /\ k \in Differ(b, a)
    <3>1. Differ(a, b) # {} /\ Differ(b, a) # {} /\ ~(b[k] < a[k]) BY <2>1
    <3>2. HeaderCodec!OctetOrder(a, b) = IF a[k] < b[k] THEN -1 ELSE 1 BY <2>1, <3>1, OrderBy
    <3>3. HeaderCodec!OctetOrder(b, a) = IF b[k] < a[k] THEN -1 ELSE 1 BY <2>1, <3>1, OrderBy
    <3> QED BY <2>1, <3>1, <3>2, <3>3
  <2>2. CASE Len(a) < Len(b) /\ Differ(a, b) = {} /\ Differ(b, a) = {}
    <3>1. Len(a) # Len(b) /\ ~(Len(b) < Len(a)) BY <2>0, <2>2
    <3>2. HeaderCodec!OctetOrder(a, b) = -1 BY <2>2, <3>1, OrderBy
    <3>3. HeaderCodec!OctetOrder(b, a) = 1 BY <2>2, <3>1, OrderBy
    <3> QED BY <3>2, <3>3
  <2> QED BY <1>1, <2>1, <2>2, FirstDifference
<1>2. Differ(a, a) = {} BY DEF Differ
<1>3. HeaderCodec!OctetOrder(a, a) = 0 BY <1>2, OrderBy
<1> QED BY <1>1, <1>3 DEF Less

----------------------------------------------------------------------------
(* The order of the elements of a SET *)

HeaderOf(e) == HeaderCodec!krypt_asn1_next_header(e).value

Ends(e) == HeaderCodec!IsEndOfContents(HeaderOf(e))

IsElement(e) == /\ e \in Seq(Byte) /\ HeaderCodec!krypt_asn1_next_header(e).ok
                /\ Ends(e) => e = << 0, 0 >>

Before(a, b) ==
  /\ ~Ends(a)
  /\ \/ Ends(b)
     \/ HeaderOf(a).tag < HeaderOf(b).tag
     \/ HeaderOf(a).tag = HeaderOf(b).tag /\ Less(a, b)

LEMMA TagsAreNumbers ==
  ASSUME NEW e, IsElement(e)
  PROVE  HeaderOf(e).tag \in Int
<1>1. IsPlain(HeaderOf(e)) BY HeadersAreHeaders DEF IsElement, HeaderOf
<1>2. HeaderOf(e).tag \in 0..INT_MAX BY <1>1, HeaderHas DEF IsPlain
<1> QED BY <1>2

LEMMA ComparedBy ==
  ASSUME NEW a, NEW b
  PROVE  HeaderCodec!krypt_asn1_cmp_set_of(a, b)
         = IF Ends(a) THEN 1
           ELSE IF Ends(b) THEN -1
           ELSE IF HeaderOf(a).tag < HeaderOf(b).tag THEN -1
           ELSE IF HeaderOf(a).tag > HeaderOf(b).tag THEN 1
           ELSE HeaderCodec!OctetOrder(a, b)
  BY Zenon DEF HeaderCodec!krypt_asn1_cmp_set_of, Ends, HeaderOf

\* Not after means before, or the same, but for end-of-contents.
LEMMA NotAfter ==
  ASSUME NEW a, NEW b, IsElement(a), IsElement(b)
  PROVE  HeaderCodec!krypt_asn1_cmp_set_of(a, b) <= 0 <=> Before(a, b) \/ (a = b /\ ~Ends(a))
<1> DEFINE c == HeaderCodec!krypt_asn1_cmp_set_of(a, b)
           o == HeaderCodec!OctetOrder(a, b)
           m == HeaderOf(a).tag
           n == HeaderOf(b).tag
<1>1. m \in Int /\ n \in Int BY TagsAreNumbers
<1>2. c = IF Ends(a) THEN 1 ELSE IF Ends(b) THEN -1 ELSE IF m < n THEN -1 ELSE IF m > n THEN 1 ELSE o
  BY ComparedBy
<1>3. a \in Seq(Byte) /\ b \in Seq(Byte) BY DEF IsElement
<1>4. /\ Less(a, b) => o = -1
      /\ Less(b, a) => o = 1
      /\ a = b => o = 0
  <2>1. Less(a, b) => o = -1 BY <1>3, OctetOrderIs
  <2>2. Less(b, a) => o = 1 BY <1>3, OctetOrderIs
  <2>3. a = b => o = 0 BY <1>3, OctetOrderIs
  <2> QED BY <2>1, <2>2, <2>3
<1>5. /\ a = b \/ Less(a, b) \/ Less(b, a)
      /\ Less(a, b) => ~Less(b, a)
      /\ a = b => ~Less(a, b) BY <1>3, LessIsOrder
<1>6. o <= 0 <=> Less(a, b) \/ a = b BY <1>4, <1>5
<1>7. Before(a, b) <=> ~Ends(a) /\ (Ends(b) \/ m < n \/ (m = n /\ Less(a, b))) BY DEF Before
<1>8. a = b => m = n /\ (Ends(a) <=> Ends(b)) OBVIOUS
<1>15. HeaderCodec!krypt_asn1_cmp_set_of(a, b) = c BY DEF c
<1> SUFFICES c <= 0 <=> Before(a, b) \/ (a = b /\ ~Ends(a)) BY <1>15
<1> HIDE DEF c, o, m, n
<1>9. CASE Ends(a) BY <1>2, <1>7, <1>9
<1>10. CASE ~Ends(a) /\ Ends(b) BY <1>2, <1>7, <1>10
<1>11. CASE ~Ends(a) /\ ~Ends(b) /\ m < n BY <1>1, <1>2, <1>7, <1>11
<1>12. CASE ~Ends(a) /\ ~Ends(b) /\ m > n
  <2>1. ~(m < n) /\ m # n BY <1>1, <1>12
  <2>2. c = 1 BY <1>2, <1>12, <2>1
  <2>3. ~(c <= 0) BY <2>2
  <2> QED BY <1>7, <1>8, <1>12, <2>1, <2>3
<1>13. CASE ~Ends(a) /\ ~Ends(b) /\ m = n
  <2>1. ~(m < n) /\ ~(m > n) BY <1>1, <1>13
  <2>2. c = o BY <1>2, <1>13, <2>1
  <2> QED BY <1>6, <1>7, <1>13, <2>1, <2>2
<1>14. m < n \/ m > n \/ m = n BY <1>1
<1> QED BY <1>9, <1>10, <1>11, <1>12, <1>13, <1>14

Elements == {e \in Seq(Byte) : IsElement(e)}

Order == {p \in Elements \X Elements : Before(p[1], p[2])}

LEMMA InTheOrder ==
  ASSUME NEW a, NEW b, IsElement(a), IsElement(b)
  PROVE  <<a, b>> \in Order <=> Before(a, b)
<1>1. <<a, b>> \in Elements \X Elements BY DEF Elements, IsElement
<1> QED BY <1>1 DEF Order

LEMMA ElementsAreOrdered ==
  IsOrder(Order, Elements)
<1>1. ASSUME NEW a \in Elements, NEW b \in Elements, NEW c \in Elements, Before(a, b), Before(b, c)
      PROVE  Before(a, c)
  <2> DEFINE l == HeaderOf(a).tag
             m == HeaderOf(b).tag
             n == HeaderOf(c).tag
  <2>1. l \in Int /\ m \in Int /\ n \in Int BY TagsAreNumbers DEF Elements
  <2>2. ~Ends(a) /\ (Ends(b) \/ l < m \/ (l = m /\ Less(a, b))) BY <1>1 DEF Before
  <2>3. ~Ends(b) /\ (Ends(c) \/ m < n \/ (m = n /\ Less(b, c))) BY <1>1 DEF Before
  <2>4. Less(a, b) /\ Less(b, c) => Less(a, c) BY LessIsOrder DEF Elements
  <2>5. Before(a, c) <=> ~Ends(a) /\ (Ends(c) \/ l < n \/ (l = n /\ Less(a, c))) BY DEF Before
  <2> HIDE DEF l, m, n
  <2>6. CASE l < m BY <2>1, <2>2, <2>3, <2>5, <2>6
  <2>7. CASE l = m BY <2>1, <2>2, <2>3, <2>4, <2>5, <2>7
  <2> QED BY <2>2, <2>3, <2>6, <2>7
<1>2. ASSUME NEW a \in Elements
      PROVE  ~Before(a, a)
  <2>1. HeaderOf(a).tag \in Int BY TagsAreNumbers DEF Elements
  <2>2. ~Less(a, a) BY LessIsOrder DEF Elements
  <2> QED BY <2>1, <2>2 DEF Before
<1>3. ASSUME NEW a \in Elements, NEW b \in Elements
      PROVE  a = b \/ Before(a, b) \/ Before(b, a)
  <2> DEFINE m == HeaderOf(a).tag
             n == HeaderOf(b).tag
  <2>1. m \in Int /\ n \in Int BY TagsAreNumbers DEF Elements
  <2>2. a = b \/ Less(a, b) \/ Less(b, a) BY LessIsOrder DEF Elements
  <2>3. Ends(a) /\ Ends(b) => a = b BY DEF Elements, IsElement
  <2>4. Before(a, b) <=> ~Ends(a) /\ (Ends(b) \/ m < n \/ (m = n /\ Less(a, b))) BY DEF Before
  <2>5. Before(b, a) <=> ~Ends(b) /\ (Ends(a) \/ n < m \/ (n = m /\ Less(b, a))) BY DEF Before
  <2> HIDE DEF m, n
  <2>6. m < n \/ n < m \/ m = n BY <2>1
  <2> QED BY <2>2, <2>3, <2>4, <2>5, <2>6
<1>4. \A a, b \in Elements : <<a, b>> \in Order <=> Before(a, b) BY InTheOrder DEF Elements
<1> QED BY <1>1, <1>2, <1>3, <1>4 DEF IsOrder

----------------------------------------------------------------------------
(* Sorting the elements of a SET *)

EndOfContents == <<0, 0>>

LEMMA EndOfContentsEnds ==
  Ends(EndOfContents)
<1> DEFINE o == EndOfContents
           tag == HeaderCodec!int_parse_tag(o)
           rest == SubSeq(o, tag.used + 1, Len(o))
           length == HeaderCodec!int_parse_length(rest)
           constructed == (o[1] \div 32) % 2 = 1
           infinite == rest[1] = 128
           class == o[1] \div 64
           h == [tag |-> tag.value, tag_class |-> class, is_constructed |-> constructed,
                 is_infinite |-> infinite, length |-> length.value]
           r == HeaderCodec!krypt_asn1_next_header(o)
<1>1. r = IF o = <<>> THEN HeaderCodec!NotParsed
          ELSE IF ~tag.ok THEN HeaderCodec!NotParsed
          ELSE IF ~length.ok THEN HeaderCodec!NotParsed
          ELSE IF infinite /\ ~constructed THEN HeaderCodec!NotParsed
          ELSE HeaderCodec!Parsed(h, tag.used + length.used)
  BY Zenon DEF HeaderCodec!krypt_asn1_next_header, HeaderCodec!INFINITE_LENGTH_MASK
<1>2. o # <<>> /\ o[1] = 0 /\ Len(o) = 2 /\ o[2] = 0 /\ o \in Seq(Byte)
  BY DEF EndOfContents, Byte
<1>3. tag = HeaderCodec!Parsed(0, 1)
  <2>1. tag = IF o[1] % 32 = 31 THEN HeaderCodec!int_parse_complex_tag(o)
              ELSE HeaderCodec!Parsed(o[1] % 32, 1)
    BY Zenon DEF HeaderCodec!int_parse_tag, HeaderCodec!COMPLEX_TAG_MASK
  <2>2. o[1] % 32 = 0 BY <1>2
  <2> HIDE DEF tag, o
  <2> QED BY <2>1, <2>2
<1>4. tag.ok /\ tag.value = 0 /\ tag.used = 1 BY <1>3, ParsedHas
<1>5. rest = SubSeq(o, 2, 2) BY <1>2, <1>4
<1>6. rest # <<>> /\ rest[1] = 0
  <2> DEFINE k == 2
  <2>1. k \in Nat \ {0} /\ k \in Int /\ k <= Len(o) /\ k - k + 1 = 1 /\ k + 1 - 1 = k BY <1>2
  <2> HIDE DEF k, o
  <2>2. SubSeq(o, k, k) = [i \in 1..(k - k + 1) |-> o[k + i - 1]] BY <1>2, <2>1, SubSeqOf
  <2>3. 1 \in DOMAIN SubSeq(o, k, k) /\ SubSeq(o, k, k)[1] = o[k] BY <2>1, <2>2
  <2>4. SubSeq(o, k, k) # <<>>
    <3> DEFINE t == SubSeq(o, k, k)
    <3>1. 1 \in DOMAIN t BY <2>3
    <3> HIDE DEF t
    <3>2. t # <<>> BY <3>1
    <3> QED BY <3>2 DEF t
  <2>5. o[k] = 0 /\ rest = SubSeq(o, k, k) BY <1>2, <1>5 DEF k
  <2> HIDE DEF rest
  <2> QED BY <2>3, <2>4, <2>5
<1>7. length.ok
  <2>1. length = IF rest = <<>> THEN HeaderCodec!NotParsed
                 ELSE IF rest[1] > 128 THEN HeaderCodec!int_parse_complex_definite_length(rest)
                 ELSE HeaderCodec!Parsed(rest[1] % 128, 1)
    BY Zenon DEF HeaderCodec!int_parse_length, HeaderCodec!INFINITE_LENGTH_MASK
  <2> HIDE DEF length, rest
  <2>2. length = HeaderCodec!Parsed(rest[1] % 128, 1) BY <1>6, <2>1
  <2> QED BY <2>2, ParsedHas
<1>8. ~infinite
  <2> HIDE DEF rest
  <2> QED BY <1>6
<1>9. class = 0 BY <1>2
<1>10. h.tag = tag.value /\ h.tag_class = class OBVIOUS
<1> HIDE DEF h, infinite, constructed, class, length, rest, tag
<1>11. r = HeaderCodec!Parsed(h, tag.used + length.used) BY <1>1, <1>2, <1>4, <1>7, <1>8
<1>12. HeaderOf(o) = h BY <1>11, ParsedHas DEF HeaderOf
<1> QED BY <1>4, <1>9, <1>10, <1>12 DEF Ends, HeaderCodec!IsEndOfContents

\* Only one of the elements has the header of end-of-contents octets.
EndsOnce(v) == \A i, j \in 1..Len(v) : Ends(v[i]) /\ Ends(v[j]) => i = j

LEMMA SetsAreLists ==
  ASSUME NEW v
  PROVE  IsSet(v) <=> /\ v \in Seq(Seq(Byte))
                      /\ IsList(v, Len(v), Elements)
                      /\ EndsOnce(v)
<1>1. IsSet(v) <=> /\ v \in Seq(Seq(0..255))
                   /\ \A i \in DOMAIN v : HeaderCodec!krypt_asn1_next_header(v[i]).ok /\ (Ends(v[i]) => v[i] = <<0, 0>>)
                   /\ \A i, j \in DOMAIN v : Ends(v[i]) /\ Ends(v[j]) => i = j
  BY Zenon DEF IsSet, Ends, HeaderOf
<1>2. v \in Seq(Seq(Byte)) => DOMAIN v = 1..Len(v) /\ Len(v) \in Nat /\ \A i \in 1..Len(v) : v[i] \in Seq(Byte)
  BY ElementOfSeq
<1>3. ASSUME v \in Seq(Seq(Byte))
      PROVE  IsList(v, Len(v), Elements)
             <=> \A i \in DOMAIN v : HeaderCodec!krypt_asn1_next_header(v[i]).ok /\ (Ends(v[i]) => v[i] = <<0, 0>>)
  <2>1. \A i \in 1..Len(v) : v[i] \in Elements <=> HeaderCodec!krypt_asn1_next_header(v[i]).ok /\ (Ends(v[i]) => v[i] = <<0, 0>>)
    BY <1>2, <1>3 DEF Elements, IsElement
  <2>2. v \in [1..Len(v) -> Elements] <=> \A i \in 1..Len(v) : v[i] \in Elements BY <1>2, <1>3
  <2> QED BY <1>2, <1>3, <2>1, <2>2 DEF IsList
<1> QED BY <1>1, <1>2, <1>3 DEF EndsOnce, Byte

Arranged(v, p) == [i \in 1..Len(v) |-> v[p[i]]]

\* Another order of the elements is a SET as well.
LEMMA ArrangedIsSet ==
  ASSUME NEW v, IsSet(v), NEW p, IsPermutation(p, Len(v))
  PROVE  /\ IsSet(Arranged(v, p))
         /\ Len(Arranged(v, p)) = Len(v) /\ Len(v) \in Nat
         /\ DOMAIN v = 1..Len(v) /\ DOMAIN Arranged(v, p) = 1..Len(v)
<1> DEFINE s == Arranged(v, p)
           n == Len(v)
<1>1. v \in Seq(Seq(Byte)) /\ IsList(v, n, Elements) /\ EndsOnce(v) BY SetsAreLists
<1>2. n \in Nat /\ DOMAIN v = 1..n BY <1>1
<1>3. \A i \in 1..n : p[i] \in 1..n /\ s[i] = v[p[i]] /\ v[p[i]] \in Elements
  BY <1>1 DEF IsPermutation, Arranged, IsList
<1>4. s = [i \in 1..n |-> v[p[i]]] BY DEF Arranged
<1> HIDE DEF n, s
<1>5. IsList(s, n, Elements) /\ IsList(s, n, Seq(Byte)) BY <1>3, <1>4 DEF IsList, Elements
<1>6. s \in Seq(Seq(Byte)) /\ Len(s) = n BY <1>2, <1>5, SeqFacts
<1>7. EndsOnce(s)
  <2> SUFFICES ASSUME NEW i \in 1..n, NEW j \in 1..n, Ends(s[i]), Ends(s[j]) PROVE i = j
    BY <1>6 DEF EndsOnce
  <2>1. p[i] = p[j] BY <1>1, <1>3 DEF EndsOnce, n
  <2> QED BY <2>1 DEF IsPermutation, n
<1>8. IsSet(s) BY <1>5, <1>6, <1>7, SetsAreLists
<1>9. DOMAIN s = 1..n BY <1>4
<1> QED BY <1>2, <1>6, <1>8, <1>9 DEF n, s

\* What the comparison lets stand.
Stands(s) == \A i \in 1..Len(s) - 1 : HeaderCodec!krypt_asn1_cmp_set_of(s[i], s[i + 1]) <= 0

LEMMA StandsInOrder ==
  ASSUME NEW s, IsSet(s)
  PROVE  Stands(s) <=> InOrder(s, Len(s), Order)
<1> DEFINE n == Len(s)
<1>1. IsList(s, n, Elements) /\ EndsOnce(s) /\ n \in Nat BY SetsAreLists
<1>2. ASSUME NEW i \in 1..n - 1
      PROVE  HeaderCodec!krypt_asn1_cmp_set_of(s[i], s[i + 1]) <= 0 <=> Upto(Order, s[i], s[i + 1])
  <2>1. i \in 1..n /\ i + 1 \in 1..n /\ i # i + 1 BY <1>1
  <2>2. s[i] \in Elements /\ s[i + 1] \in Elements BY <1>1, <2>1 DEF IsList
  <2> DEFINE a == s[i]
             b == s[i + 1]
  <2>3. IsElement(a) /\ IsElement(b) BY <2>2 DEF Elements
  <2>4. ~(Ends(a) /\ Ends(b)) BY <1>1, <2>1 DEF EndsOnce
  <2> HIDE DEF a, b
  <2>5. HeaderCodec!krypt_asn1_cmp_set_of(a, b) <= 0 <=> Before(a, b) \/ (a = b /\ ~Ends(a))
    BY <2>3, NotAfter
  <2>6. Upto(Order, a, b) <=> a = b \/ Before(a, b) BY <2>3, InTheOrder DEF Upto
  <2>7. a = b => ~Ends(a) BY <2>4
  <2>8. Before(a, b) \/ (a = b /\ ~Ends(a)) <=> Upto(Order, a, b) BY <2>6, <2>7
  <2>9. HeaderCodec!krypt_asn1_cmp_set_of(a, b) <= 0 <=> Upto(Order, a, b) BY <2>5, <2>8, Zenon
  <2> QED BY <2>9 DEF a, b
<1> QED BY <1>2, Zenon DEF Stands, InOrder

\* What sorting makes of a SET.
IsSorting(s, v, p) == IsPermutation(p, Len(v)) /\ s = Arranged(v, p) /\ InOrder(s, Len(v), Order)

LEMMA SortedIs ==
  ASSUME NEW v, IsSet(v), NEW s
  PROVE  s \in Sorted(v) <=> \E p : IsSorting(s, v, p)
<1>1. v \in Seq(Seq(Byte)) /\ Len(v) \in Nat /\ DOMAIN v = 1..Len(v) BY SetsAreLists
<1>2. \A p : p \in Bijection(DOMAIN v, DOMAIN v) <=> IsPermutation(p, Len(v)) BY <1>1, Permutes
<1>3. \A p : [i \in DOMAIN v |-> v[p[i]]] = Arranged(v, p) BY <1>1 DEF Arranged
<1>4. s \in Sorted(v) <=> (\E p \in Bijection(DOMAIN v, DOMAIN v) : s = [i \in DOMAIN v |-> v[p[i]]]) /\ Stands(s)
  BY Zenon DEF Sorted, Stands
<1>5. \A p : IsPermutation(p, Len(v)) /\ s = Arranged(v, p) => (Stands(s) <=> InOrder(s, Len(v), Order))
  BY ArrangedIsSet, StandsInOrder
<1> QED BY <1>2, <1>3, <1>4, <1>5 DEF IsSorting

LEMMA SortedIsOne ==
  ASSUME NEW v, IsSet(v)
  PROVE  \E w : Sorted(v) = {w}
<1> DEFINE n == Len(v)
<1>1. IsList(v, n, Elements) /\ n \in Nat BY SetsAreLists
<1>2. PICK p : IsPermutation(p, n) /\ InOrder(Arranged(v, p), n, Order)
  BY <1>1, ElementsAreOrdered, CanBeSorted DEF Arranged
<1>3. ASSUME NEW q, IsPermutation(q, n), InOrder(Arranged(v, q), n, Order)
      PROVE  Arranged(v, q) = Arranged(v, p)
  <2>1. /\ InOrder([i \in 1..n |-> v[p[i]]], n, Order)
        /\ InOrder([i \in 1..n |-> v[q[i]]], n, Order) BY <1>2, <1>3 DEF Arranged
  <2> HIDE DEF n
  <2>2. [i \in 1..n |-> v[q[i]]] = [i \in 1..n |-> v[p[i]]]
    BY <1>1, <1>2, <1>3, <2>1, ElementsAreOrdered, OneOrder
  <2> QED BY <2>2 DEF Arranged, n
<1>4. \A s : s \in Sorted(v) <=> s = Arranged(v, p) BY <1>2, <1>3, SortedIs DEF IsSorting
<1>5. Sorted(v) = {Arranged(v, p)} BY <1>4
<1> QED BY <1>5

LEMMA EndOfContentsIsLast ==
  ASSUME NEW v, IsSet(v), NEW s \in Sorted(v)
  PROVE  IsLast(<<0, 0>>, s)
<1>1. PICK p : IsSorting(s, v, p) BY SortedIs
<1>2. DOMAIN s = 1..Len(s) /\ Len(s) \in Nat BY <1>1, ArrangedIsSet DEF IsSorting
<1>3. Stands(s) BY Zenon DEF Sorted, Stands
<1> SUFFICES ASSUME NEW i \in 1..Len(s), s[i] = EndOfContents, i # Len(s) PROVE FALSE
  BY <1>2, ZenonT(60) DEF IsLast, EndOfContents
<1>4. i \in 1..Len(s) - 1
  <2>1. \A n \in Nat : \A k \in 1..n : k # n => k \in 1..n - 1 OBVIOUS
  <2> QED BY <1>2, <2>1
<1>5. HeaderCodec!krypt_asn1_cmp_set_of(s[i], s[i + 1]) <= 0 BY <1>3, <1>4 DEF Stands
<1>6. HeaderCodec!krypt_asn1_cmp_set_of(s[i], s[i + 1]) = 1 BY ComparedBy, EndOfContentsEnds
<1> QED BY <1>5, <1>6

LEMMA SortedAsBefore ==
  ASSUME NEW v, IsSet(v), NEW q, IsPermutation(q, Len(v))
  PROVE  Sorted(Arranged(v, q)) = Sorted(v)
<1> DEFINE u == Arranged(v, q)
           n == Len(v)
<1>1. IsSet(u) /\ Len(u) = n /\ n \in Nat BY ArrangedIsSet
<1>2. \A i \in 1..n : u[i] = v[q[i]] BY DEF Arranged
<1>3. \A p : u = Arranged(v, q) /\ Arranged(u, p) = [i \in 1..n |-> u[p[i]]] /\ Arranged(v, p) = [i \in 1..n |-> v[p[i]]]
  BY <1>1 DEF Arranged
<1>4. IsPermutation(q, n) OBVIOUS
<1> HIDE DEF u, n
<1>5. ASSUME NEW s, NEW p, IsSorting(s, u, p)
      PROVE  s \in Sorted(v)
  <2> DEFINE r == [i \in 1..n |-> q[p[i]]]
  <2>1. IsPermutation(p, n) /\ s = Arranged(u, p) /\ InOrder(s, n, Order)
    BY <1>1, <1>5 DEF IsSorting
  <2>2. IsPermutation(r, n) BY <1>1, <1>4, <2>1, PermutationsCompose
  <2>3. \A i \in 1..n : u[p[i]] = v[r[i]] BY <1>2, <2>1 DEF IsPermutation
  <2> HIDE DEF r
  <2>4. s = Arranged(v, r)
    <3>1. s = [i \in 1..n |-> u[p[i]]] /\ Arranged(v, r) = [i \in 1..n |-> v[r[i]]] BY <1>3, <2>1
    <3>2. [i \in 1..n |-> u[p[i]]] = [i \in 1..n |-> v[r[i]]] BY <2>3
    <3> QED BY <3>1, <3>2
  <2>5. IsSorting(s, v, r) BY <2>1, <2>2, <2>4 DEF IsSorting, n
  <2> QED BY <2>5, SortedIs
<1>6. ASSUME NEW s, NEW p, IsSorting(s, v, p)
      PROVE  s \in Sorted(u)
  <2>1. IsPermutation(p, n) /\ s = Arranged(v, p) /\ InOrder(s, n, Order)
    BY <1>6 DEF IsSorting, n
  <2>2. PICK r : Undoes(r, q, p, n) BY <1>1, <1>4, <2>1, PermutationsCompose
  <2>6. IsPermutation(r, n) /\ \A i \in 1..n : q[r[i]] = p[i] BY <2>2 DEF Undoes
  <2>3. \A i \in 1..n : u[r[i]] = v[p[i]]
    <3>1. \A i \in 1..n : r[i] \in 1..n BY <2>6 DEF IsPermutation
    <3> QED BY <1>2, <2>6, <3>1
  <2>4. s = Arranged(u, r)
    <3>1. s = [i \in 1..n |-> v[p[i]]] /\ Arranged(u, r) = [i \in 1..n |-> u[r[i]]] BY <1>3, <2>1
    <3>2. [i \in 1..n |-> v[p[i]]] = [i \in 1..n |-> u[r[i]]] BY <2>3
    <3> QED BY <3>1, <3>2
  <2>5. IsSorting(s, u, r) BY <1>1, <2>1, <2>4, <2>6 DEF IsSorting
  <2> QED BY <1>1, <2>5, SortedIs
<1>7. \A s : s \in Sorted(u) <=> s \in Sorted(v) BY <1>1, <1>5, <1>6, SortedIs
<1>8. Sorted(u) = Sorted(v) BY <1>7
<1> QED BY <1>8 DEF u

\* A program has a SET of its own: none is decoded.
LEMMA SetsAreSets ==
  ASSUME IInv, Is("SET"), phase = "value"
  PROVE  IsSet(value.value)
<1>1. type \in Types /\ type = "SET" BY DEF IInv, Is
<1>2. IsFirst /\ value = first BY DEF IInv, HasValue
<1>3. ASSUME NEW v \in Values[type], first = Ok(v)
      PROVE  IsSet(value.value)
  <2>1. IsSet(v) BY <1>1, <1>3, ValuesAssumption
  <2>2. value.value = v BY <1>2, <1>3 DEF Ok
  <2> QED BY <2>1, <2>2
<1>4. \A o \in Received[type] : FALSE BY <1>1, ReceivedAssumption
<1> QED BY <1>2, <1>3, <1>4 DEF IsFirst

\* The elements of a SET are sorted in one way only, however the array had
\* them, and end-of-contents octets come last.
THEOREM SetsAreAlwaysCanonical ==
  Spec => []SetsCanonical
<1>1. IInv => SetsCanonical
  <2> DEFINE v == value.value
  <2> SUFFICES ASSUME IInv, Is("SET"), phase = "value"
               PROVE  /\ Cardinality(Sorted(v)) = 1
                      /\ \A s \in Sorted(v) : IsLast(<<0, 0>>, s)
                      /\ \A p \in Bijection(DOMAIN v, DOMAIN v) :
                           Sorted([i \in DOMAIN v |-> v[p[i]]]) = Sorted(v)
    BY Zenon DEF SetsCanonical
  <2>1. IsSet(v) BY SetsAreSets
  <2> HIDE DEF v
  <2>2. Cardinality(Sorted(v)) = 1
    <3>1. PICK w : Sorted(v) = {w} BY <2>1, SortedIsOne
    <3> QED BY <3>1, FS_Singleton
  <2>3. \A s \in Sorted(v) : IsLast(<<0, 0>>, s) BY <2>1, EndOfContentsIsLast
  <2>4. ASSUME NEW p \in Bijection(DOMAIN v, DOMAIN v)
        PROVE  Sorted([i \in DOMAIN v |-> v[p[i]]]) = Sorted(v)
    <3>1. Len(v) \in Nat /\ DOMAIN v = 1..Len(v) BY <2>1, SetsAreLists
    <3>2. IsPermutation(p, Len(v)) BY <2>4, <3>1, Permutes
    <3>3. [i \in DOMAIN v |-> v[p[i]]] = Arranged(v, p) BY <3>1 DEF Arranged
    <3> QED BY <2>1, <3>2, <3>3, SortedAsBefore
  <2> QED BY <2>2, <2>3, <2>4
<1> QED BY <1>1, History, PTL

----------------------------------------------------------------------------
(* The lowest digits of a number *)

LEMMA LowDigitsAre ==
  ASSUME NEW m \in Int, NEW b \in Nat, NEW n \in Nat
  PROVE  /\ LowDigits(m, b, n) \in Seq(0..(2^b - 1)) /\ Len(LowDigits(m, b, n)) = n
         /\ \A i \in 1..n : LowDigits(m, b, n)[i] = (m \div 2^(b * (n - i))) % 2^b
<1> DEFINE d == LowDigits(m, b, n)
           A == 0..(2^b - 1)
<1>1. d = [i \in 1..n |-> (m \div 2^(b * (n - i))) % 2^b] BY DEF LowDigits
<1>2. ASSUME NEW i \in 1..n
      PROVE  (m \div 2^(b * (n - i))) % 2^b \in A
  <2> DEFINE e == b * (n - i)
  <2>1. e \in Nat
    <3>1. n - i \in Nat OBVIOUS
    <3>2. \A x, y \in Nat : x * y \in Nat OBVIOUS
    <3> QED BY <3>1, <3>2
  <2> HIDE DEF e
  <2>2. 2^e \in Nat \ {0} /\ 2^b \in Nat \ {0} BY <2>1, PowerOfTwo
  <2> DEFINE x == m \div 2^e
  <2>3. x \in Int BY <2>2, Division
  <2> HIDE DEF x
  <2>4. x % 2^b \in A BY <2>2, <2>3, Division
  <2> QED BY <2>4 DEF x, e
<1> HIDE DEF A, d
<1>3. IsList(d, n, A) BY <1>1, <1>2 DEF IsList
<1>4. d \in Seq(A) /\ Len(d) = n BY <1>3, SeqFacts
<1>5. \A i \in 1..n : d[i] = (m \div 2^(b * (n - i))) % 2^b BY <1>1
<1> QED BY <1>4, <1>5 DEF d, A

\* One more digit: the last of the number.
LEMMA LowDigitsOfMore ==
  ASSUME NEW m \in Int, NEW b \in Nat, NEW n \in Nat
  PROVE  /\ m \div 2^b \in Int /\ m % 2^b \in 0..(2^b - 1)
         /\ LowDigits(m, b, n + 1) = Append(LowDigits(m \div 2^b, b, n), m % 2^b)
<1> DEFINE q == m \div 2^b
           r == m % 2^b
           d == LowDigits(m, b, n + 1)
           f == LowDigits(q, b, n)
           A == 0..(2^b - 1)
<1>1. 2^b \in Nat \ {0} BY PowerOfTwo
<1>2. q \in Int /\ r \in A BY <1>1, Division
<1>3. /\ d \in Seq(A) /\ Len(d) = n + 1
      /\ \A i \in 1..(n + 1) : d[i] = (m \div 2^(b * (n + 1 - i))) % 2^b
  <2> DEFINE k == n + 1
  <2>1. k \in Nat OBVIOUS
  <2> HIDE DEF k
  <2>2. /\ LowDigits(m, b, k) \in Seq(0..(2^b - 1)) /\ Len(LowDigits(m, b, k)) = k
        /\ \A i \in 1..k : LowDigits(m, b, k)[i] = (m \div 2^(b * (k - i))) % 2^b
    BY <2>1, LowDigitsAre
  <2> QED BY <2>2 DEF k
<1> HIDE DEF q
<1>4. /\ f \in Seq(A) /\ Len(f) = n
      /\ \A i \in 1..n : f[i] = (q \div 2^(b * (n - i))) % 2^b BY <1>2, LowDigitsAre
<1>5. ASSUME NEW i \in 1..n
      PROVE  d[i] = f[i]
  <2> DEFINE e == b * (n - i)
  <2>1. e \in Nat
    <3>1. n - i \in Nat OBVIOUS
    <3>2. \A x, y \in Nat : x * y \in Nat OBVIOUS
    <3> QED BY <3>1, <3>2
  <2>2. b * (n + 1 - i) = b + e
    <3>1. \A x, y \in Nat : x * (y + 1) = x + x * y OBVIOUS
    <3>2. n - i \in Nat /\ n + 1 - i = (n - i) + 1 OBVIOUS
    <3> QED BY <3>1, <3>2
  <2> HIDE DEF e
  <2>3. 2^(b + e) = 2^b * 2^e /\ 2^e \in Nat \ {0} BY <2>1, PowersAdd, PowerOfTwo
  <2>4. (m \div 2^b) \div 2^e = m \div (2^b * 2^e) BY <1>1, <2>3, DivideTwice
  <2>5. q \div 2^e = m \div 2^(b + e) BY <2>3, <2>4 DEF q
  <2>6. d[i] = (m \div 2^(b + e)) % 2^b
    <3>1. d[i] = (m \div 2^(b * (n + 1 - i))) % 2^b BY <1>3
    <3> QED BY <2>2, <3>1
  <2>7. f[i] = (q \div 2^e) % 2^b BY <1>4 DEF e
  <2> QED BY <2>5, <2>6, <2>7
<1>6. d[n + 1] = r
  <2>1. n + 1 - (n + 1) = 0 /\ b * 0 = 0 OBVIOUS
  <2>2. 2^0 = 1 OBVIOUS
  <2>3. m \div 1 = m OBVIOUS
  <2>4. b * (n + 1 - (n + 1)) = 0 BY <2>1
  <2>5. n + 1 \in 1..(n + 1) OBVIOUS
  <2>6. d[n + 1] = (m \div 2^(b * (n + 1 - (n + 1)))) % 2^b BY <1>3, <2>5
  <2> QED BY <2>2, <2>3, <2>4, <2>6
<1> HIDE DEF d, f, r, A
<1>7. Append(f, r) \in Seq(A) /\ Len(Append(f, r)) = n + 1
      /\ \A i \in 1..(n + 1) : Append(f, r)[i] = IF i <= n THEN f[i] ELSE r BY <1>2, <1>4
<1>8. \A i \in 1..(n + 1) : d[i] = Append(f, r)[i]
  <2> SUFFICES ASSUME NEW i \in 1..(n + 1) PROVE d[i] = Append(f, r)[i] OBVIOUS
  <2>1. CASE i <= n BY <1>5, <1>7, <2>1
  <2>2. CASE i = n + 1 BY <1>6, <1>7, <2>2
  <2>3. i <= n \/ i = n + 1 OBVIOUS
  <2> QED BY <2>1, <2>2, <2>3
<1>9. d = Append(f, r) BY <1>3, <1>7, <1>8, SeqEqual
<1> QED BY <1>2, <1>9 DEF d, f, r, A, q

\* They make the number again, as much of it as they have room for.
LEMMA LowDigitsAreNumber ==
  ASSUME NEW b \in Nat, NEW n \in Nat, NEW m \in Int
  PROVE  NumberOf(LowDigits(m, b, n), 2^b) = m % 2^(b * n)
<1> DEFINE base == 2^b
           S == {k \in Nat : \A x \in Int : NumberOf(LowDigits(x, b, k), base) = x % 2^(b * k)}
<1>1. base \in Nat \ {0} /\ base \in Int BY PowerOfTwo
<1>2. 0 \in S
  <2>1. b * 0 = 0 /\ 2^0 = 1 OBVIOUS
  <2>2. \A x \in Int : x % 1 = 0 OBVIOUS
  <2>3. \A x \in Int : LowDigits(x, b, 0) = <<>> BY DEF LowDigits
  <2>4. NumberOf(<<>>, base) = 0 BY <1>1, NumberOfNothing
  <2>5. \A x \in Int : x % 2^(b * 0) = 0 BY <2>1, <2>2
  <2> QED BY <2>3, <2>4, <2>5
<1>3. ASSUME NEW k \in Nat, k \in S
      PROVE  k + 1 \in S
  <2> SUFFICES ASSUME NEW x \in Int
               PROVE  NumberOf(LowDigits(x, b, k + 1), base) = x % 2^(b * (k + 1))
    OBVIOUS
  <2> DEFINE q == x \div base
             r == x % base
             d == LowDigits(q, b, k)
             e == b * k
  <2>1. q \in Int /\ r \in 0..(base - 1) /\ LowDigits(x, b, k + 1) = Append(d, r)
    BY LowDigitsOfMore
  <2>2. r \in Int BY <1>1, <2>1
  <2>3. e \in Nat /\ b * (k + 1) = b + e
    <3>1. \A u, v \in Nat : u * v \in Nat /\ u * (v + 1) = u + u * v OBVIOUS
    <3> QED BY <3>1
  <2>4. d \in Seq(Int)
    <3> HIDE DEF q
    <3>1. d \in Seq(0..(base - 1)) BY <2>1, LowDigitsAre
    <3>2. 0..(base - 1) \subseteq Int OBVIOUS
    <3> HIDE DEF d, base
    <3> QED BY <3>1, <3>2, SeqOfMore
  <2>5. NumberOf(d, base) = q % 2^e
    <3> HIDE DEF q
    <3> QED BY <1>3, <2>1
  <2>6. 2^e \in Nat \ {0} /\ 2^(b + e) = base * 2^e
    <3> HIDE DEF e
    <3> QED BY <2>3, PowerOfTwo, PowersAdd
  <2>7. x % (base * 2^e) = ((x \div base) % 2^e) * base + (x % base)
    <3> HIDE DEF e, base
    <3> QED BY <1>1, <2>6, DivideTwice
  <2> HIDE DEF d, e, base, S
  <2>8. NumberOf(Append(d, r), base) = NumberOf(d, base) * base + r
    <3> HIDE DEF r
    <3> QED BY <1>1, <2>2, <2>4, NumberOfAppend
  <2> QED BY <2>1, <2>3, <2>5, <2>6, <2>7, <2>8
<1>4. Nat \subseteq S
  <2> HIDE DEF S
  <2> QED BY <1>2, <1>3, StepInduction
<1>5. n \in S
  <2> HIDE DEF S
  <2> QED BY <1>4
<1> QED BY <1>5

LEMMA LeastIs ==
  ASSUME NEW S, S \subseteq Int, NEW x \in S, \A y \in S : x <= y
  PROVE  Min(S) = x
<1>1. \A y \in S : (\A z \in S : y <= z) => y = x OBVIOUS
<1> QED BY <1>1 DEF Min

LEMMA LeastIn ==
  ASSUME NEW S, S \subseteq Nat, S # {}
  PROVE  Min(S) \in S /\ \A y \in S : Min(S) <= y
<1>1. PICK x \in S : \A y \in S : x <= y BY FirstOfNumbers
<1>3. S \subseteq Int OBVIOUS
<1>2. Min(S) = x BY <1>1, <1>3, LeastIs
<1> QED BY <1>1, <1>2

----------------------------------------------------------------------------
(* OBJECT IDENTIFIER: the numbers of one *)

LEMMA LongWidth ==
  /\ LONG_BITS \in Nat /\ LONG_BITS >= 4
  /\ LONG_MAX \in Nat /\ LONG_MAX >= 119 /\ LONG_MAX = 2^(LONG_BITS - 1) - 1
  /\ 2^(LONG_BITS - 1) \in Nat \ {0} /\ 2^LONG_BITS = 2 * 2^(LONG_BITS - 1)
<1>1. CHAR_BIT \in Nat /\ CHAR_BIT >= 2 /\ SIZEOF_LONG \in Nat /\ SIZEOF_LONG >= 2
  BY WidthsAssumption
<1>2. LONG_BITS \in Nat /\ LONG_BITS >= 4
  <2>1. \A x, y \in Nat : x >= 2 /\ y >= 2 => x * y \in Nat /\ x * y >= 4
    <3> SUFFICES ASSUME NEW x \in Nat, NEW y \in Nat, x >= 2, y >= 2
                 PROVE  x * y \in Nat /\ x * y >= 4
      OBVIOUS
    <3>1. x * y \in Nat OBVIOUS
    <3>2. x * y >= 2 * y OBVIOUS
    <3> QED BY <3>1, <3>2
  <2> QED BY <1>1, <2>1 DEF LONG_BITS
<1> DEFINE e == LONG_BITS - 1
<1>3. e \in Nat /\ e + 1 = LONG_BITS BY <1>2
<1> HIDE DEF e
<1>4. 2^e \in Nat \ {0} /\ 2^(e + 1) = 2 * 2^e BY <1>3, PowerOfTwo
<1>5. LONG_MAX = 2^e - 1 BY DEF LONG_MAX, e
<1>6. LONG_MAX \in Nat /\ LONG_MAX >= 119
  <2>1. LONG_MAX >= 40 * 2 + 39 BY LongAssumption
  <2> QED BY <1>4, <1>5, <2>1
<1> QED BY <1>2, <1>3, <1>4, <1>5, <1>6 DEF e

LEMMA SignedIs ==
  ASSUME NEW n \in Int, NEW bits \in Nat \ {0}
  PROVE  /\ Signed(n, bits) \in Int /\ Signed(n, bits) < 2^(bits - 1)
         /\ n >= 0 /\ n < 2^(bits - 1) => Signed(n, bits) = n
<1> DEFINE e == bits - 1
           m == n % 2^bits
<1>1. e \in Nat /\ e + 1 = bits OBVIOUS
<1>2. 2^e \in Nat \ {0} /\ 2^(e + 1) = 2 * 2^e
  <2> HIDE DEF e
  <2> QED BY <1>1, PowerOfTwo
<1>3. 2^bits = 2 * 2^e /\ 2^bits \in Nat \ {0}
  <2> HIDE DEF e
  <2> QED BY <1>1, <1>2
<1>4. Signed(n, bits) = IF m < 2^e THEN m ELSE m - 2^bits BY DEF Signed
<1>5. m \in Int
  <2> DEFINE p == 2^bits
  <2>1. p \in Nat \ {0} BY <1>3
  <2> HIDE DEF p
  <2>2. n % p \in Int BY <2>1
  <2> QED BY <2>2 DEF p
<1>6. ASSUME n >= 0, n < 2^e
      PROVE  m = n
  <2> DEFINE p == 2^bits
             h == 2^e
  <2>1. p \in Nat \ {0} /\ h \in Nat /\ p = 2 * h /\ n < h BY <1>2, <1>3, <1>6
  <2> HIDE DEF p, h
  <2>2. n % p = n BY <1>6, <2>1
  <2> QED BY <2>2 DEF p
<1> HIDE DEF m, e
<1>7. Signed(n, bits) \in Int /\ Signed(n, bits) < 2^e
  <2> DEFINE p == 2^bits
             h == 2^e
  <2>1. p \in Nat /\ h \in Nat \ {0} /\ p = 2 * h BY <1>2, <1>3
  <2>2. m < p
    <3>1. \A x \in Int, y \in Nat \ {0} : x % y < y OBVIOUS
    <3> QED BY <1>3, <3>1 DEF m
  <2>3. Signed(n, bits) = IF m < h THEN m ELSE m - p BY <1>4
  <2> HIDE DEF p, h
  <2>4. Signed(n, bits) \in Int /\ Signed(n, bits) < h BY <1>5, <2>1, <2>2, <2>3
  <2> QED BY <2>4 DEF h
<1>8. n >= 0 /\ n < 2^e => Signed(n, bits) = n BY <1>4, <1>6
<1> QED BY <1>7, <1>8 DEF e

\* What the octets of one number look like: all but the last are marked.
IsSubId(p) == /\ p \in Seq(Octet) /\ Len(p) \in Nat \ {0}
              /\ \A i \in 1..(Len(p) - 1) : p[i] >= SignBit
              /\ p[Len(p)] < SignBit

\* A number is written so that its digits are in the lower bits.
LEMMA LongIsWritten ==
  ASSUME NEW n \in 0..LONG_MAX
  PROVE  IsSubId(int_write_long(n)) /\ DigitsOf(int_write_long(n)) = n
<1> DEFINE b == CHAR_BIT - 1
           S == {k \in 1..LONG_BITS : n < 2^(b * k)}
           len == Min(S)
           d == LowDigits(n, b, len)
           w == int_write_long(n)
<1>1. b \in Nat /\ b >= 1 /\ n \in Nat /\ n \in Int BY WidthsAssumption, LongWidth
<1>2. SignBit = 2^b /\ DigitBase = 2^b /\ SignBit \in Nat \ {0} /\ SignBit \in Nat /\ Base = 2 * SignBit
  BY Bases DEF SignBit, DigitBase
<1>3. LONG_BITS \in S
  <2>1. \A x, y \in Nat : x >= 1 => x * y \in Nat /\ x * y >= y
    <3> SUFFICES ASSUME NEW x \in Nat, NEW y \in Nat, x >= 1
                 PROVE  x * y \in Nat /\ x * y >= y
      OBVIOUS
    <3>1. x * y = (x - 1) * y + y OBVIOUS
    <3>2. (x - 1) * y \in Nat OBVIOUS
    <3> QED BY <3>1, <3>2
  <2> DEFINE e == b * LONG_BITS
  <2>2. e \in Nat /\ LONG_BITS <= e /\ LONG_BITS \in Nat BY <1>1, <2>1, LongWidth
  <2> HIDE DEF e
  <2>3. 2^LONG_BITS <= 2^e /\ 2^e \in Nat BY <2>2, PowersGrow, PowerOfTwo
  <2>4. n < 2^LONG_BITS /\ 2^LONG_BITS \in Nat
    <3> DEFINE h == 2^(LONG_BITS - 1)
    <3>1. h \in Nat \ {0} /\ LONG_MAX = h - 1 /\ 2^LONG_BITS = 2 * h BY LongWidth
    <3> HIDE DEF h
    <3> QED BY <3>1
  <2>5. n < 2^e BY <1>1, <2>3, <2>4
  <2>6. LONG_BITS \in 1..LONG_BITS BY LongWidth
  <2> QED BY <2>5, <2>6 DEF e
<1>4. S \subseteq Nat /\ S # {} BY <1>3
<1>5. len \in S
  <2> HIDE DEF S
  <2> QED BY <1>4, LeastIn
<1>6. len \in Nat \ {0} /\ len \in Nat /\ n < 2^(b * len)
  <2> HIDE DEF len
  <2>1. len \in 1..LONG_BITS /\ n < 2^(b * len) BY <1>5
  <2> QED BY <2>1, LongWidth
<1>7. w = [i \in 1..len |-> d[i] + IF i < len THEN SignBit ELSE 0] BY Zenon DEF int_write_long
<1> HIDE DEF len, S, w
<1>8. d \in Seq(0..(2^b - 1)) /\ Len(d) = len
  <2> HIDE DEF b
  <2> QED BY <1>1, <1>6, LowDigitsAre
<1>9. NumberOf(d, 2^b) = n % 2^(b * len)
  <2> HIDE DEF b
  <2> QED BY <1>1, <1>6, LowDigitsAreNumber
<1> HIDE DEF d
<1>10. ASSUME NEW i \in 1..len
       PROVE  /\ d[i] \in 0..(SignBit - 1)
              /\ w[i] \in Octet
              /\ i < len => w[i] >= SignBit
              /\ i = len => w[i] < SignBit
              /\ w[i] % SignBit = d[i]
  <2>1. d[i] \in 0..(SignBit - 1)
    <3> DEFINE A == 0..(2^b - 1)
    <3>1. d \in Seq(A) /\ i \in 1..Len(d) BY <1>8
    <3> HIDE DEF A
    <3>2. d[i] \in A BY <3>1, ElementOfSeq
    <3> QED BY <1>2, <3>2 DEF A
  <2>2. w[i] = IF i < len THEN d[i] + SignBit ELSE d[i]
    <3>1. w[i] = d[i] + IF i < len THEN SignBit ELSE 0 BY <1>7
    <3>2. d[i] + 0 = d[i] BY <1>2, <2>1
    <3> QED BY <3>1, <3>2
  <2>3. \A x \in 0..(SignBit - 1) : /\ x \in 0..(Base - 1) /\ x + SignBit \in 0..(Base - 1)
                                    /\ x < SignBit /\ x + SignBit >= SignBit BY <1>2
  <2>4. \A x \in 0..(SignBit - 1) : x % SignBit = x /\ (x + SignBit) % SignBit = x
    <3> SUFFICES ASSUME NEW x \in 0..(SignBit - 1)
                 PROVE  x % SignBit = x /\ (x + SignBit) % SignBit = x
      OBVIOUS
    <3>3. \A q \in Int : (q * SignBit + x) % SignBit = x BY <1>2, Quotient
    <3>1. (0 * SignBit + x) % SignBit = x /\ (1 * SignBit + x) % SignBit = x BY <3>3
    <3>2. 0 * SignBit + x = x /\ 1 * SignBit + x = x + SignBit BY <1>2
    <3> QED BY <3>1, <3>2
  <2>5. CASE i < len
    <3>1. w[i] = d[i] + SignBit BY <2>2, <2>5
    <3>2. i # len BY <1>6, <2>5
    <3> QED BY <2>1, <2>3, <2>4, <2>5, <3>1, <3>2 DEF Octet
  <2>6. CASE ~(i < len)
    <3>1. w[i] = d[i] BY <2>2, <2>6
    <3> QED BY <2>1, <2>3, <2>4, <2>6, <3>1 DEF Octet
  <2> QED BY <2>5, <2>6
<1>11. w \in Seq(Octet) /\ Len(w) = len /\ DOMAIN w = 1..len
  <2>1. IsList(w, len, Octet) BY <1>7, <1>10 DEF IsList
  <2> QED BY <1>6, <2>1, SeqFacts DEF IsList
<1>12. IsSubId(w)
  <2>1. \A i \in 1..(len - 1) : i \in 1..len /\ i < len BY <1>6
  <2>2. len \in 1..len BY <1>6
  <2> QED BY <1>6, <1>10, <1>11, <2>1, <2>2 DEF IsSubId
<1>13. DigitsOf(w) = n
  <2>1. d = [i \in 1..len |-> d[i]]
    <3> DEFINE A == 0..(2^b - 1)
    <3>1. d \in Seq(A) /\ Len(d) = len BY <1>8
    <3> HIDE DEF A
    <3> QED BY <3>1
  <2>2. [i \in DOMAIN w |-> w[i] % DigitBase] = d BY <1>2, <1>10, <1>11, <2>1
  <2>3. n % 2^(b * len) = n
    <3> DEFINE p == 2^(b * len)
    <3>1. p \in Nat
      <4> DEFINE e == b * len
      <4>1. e \in Nat BY <1>1, <1>6
      <4> HIDE DEF e
      <4>2. 2^e \in Nat BY <4>1, PowerOfTwo
      <4> QED BY <4>2 DEF e
    <3>2. n < p BY <1>6
    <3> HIDE DEF p
    <3>3. n % p = n BY <1>1, <3>1, <3>2
    <3> QED BY <3>3 DEF p
  <2> QED BY <1>2, <1>9, <2>2, <2>3 DEF DigitsOf
<1> QED BY <1>12, <1>13 DEF w

----------------------------------------------------------------------------
(* OBJECT IDENTIFIER: the numbers up to the end *)

\* k numbers, and what says that there are no more.
IsEnded(nums, k) == IsList(nums, k + 1, Int) /\ nums[k + 1] = KRYPT_ASN1_EOF

LEMMA EndIs ==
  ASSUME NEW nums, NEW k \in Nat, IsEnded(nums, k)
  PROVE  \E end \in 1..(k + 1) : /\ nums[end] < 0
                                 /\ \A i \in 1..(end - 1) : nums[i] \in Nat
                                 /\ UpToEnd(nums) = IF nums[end] = KRYPT_ERR THEN Failed
                                                    ELSE Ok(SubSeq(nums, 1, end - 1))
<1> DEFINE S == {i \in DOMAIN nums : nums[i] < 0}
           end == Min(S)
<1>1. DOMAIN nums = 1..(k + 1) /\ \A i \in 1..(k + 1) : nums[i] \in Int BY DEF IsEnded, IsList
<1>2. k + 1 \in S BY <1>1 DEF IsEnded, KRYPT_ASN1_EOF
<1>3. S \subseteq Nat BY <1>1
<1>4. end \in S /\ \A i \in S : end <= i
  <2> HIDE DEF S
  <2> QED BY <1>2, <1>3, LeastIn
<1>5. UpToEnd(nums) = IF nums[end] = KRYPT_ERR THEN Failed ELSE Ok(SubSeq(nums, 1, end - 1))
  BY Zenon DEF UpToEnd
<1> HIDE DEF end
<1>6. end \in 1..(k + 1) /\ nums[end] < 0 BY <1>1, <1>4
<1>7. ASSUME NEW i \in 1..(end - 1)
      PROVE  nums[i] \in Nat
  <2>1. i \in 1..(k + 1) /\ ~(end <= i) BY <1>6
  <2>2. ~(nums[i] < 0) BY <1>1, <1>4, <2>1
  <2> QED BY <1>1, <2>1, <2>2
<1> QED BY <1>5, <1>6, <1>7

\* Where no number is negative, all of them are taken.
LEMMA AllAreTaken ==
  ASSUME NEW nums, NEW k \in Nat, IsEnded(nums, k), NEW s \in Seq(Nat), Len(s) = k,
         \A i \in 1..k : nums[i] = s[i]
  PROVE  UpToEnd(nums) = Ok(s)
<1>1. PICK end \in 1..(k + 1) : /\ nums[end] < 0
                                /\ \A i \in 1..(end - 1) : nums[i] \in Nat
                                /\ UpToEnd(nums) = IF nums[end] = KRYPT_ERR THEN Failed
                                                   ELSE Ok(SubSeq(nums, 1, end - 1)) BY EndIs
<1>2. end = k + 1
  <2> SUFFICES ASSUME end # k + 1 PROVE FALSE OBVIOUS
  <2>1. end \in 1..k OBVIOUS
  <2>2. s[end] \in Nat BY <2>1, ElementOfSeq
  <2> QED BY <1>1, <2>1, <2>2
<1>3. UpToEnd(nums) = Ok(SubSeq(nums, 1, k))
  <2>1. nums[k + 1] # KRYPT_ERR BY DEF IsEnded, KRYPT_ASN1_EOF, KRYPT_ERR
  <2>2. end - 1 = k BY <1>2
  <2> QED BY <1>1, <1>2, <2>1, <2>2
<1>4. nums \in Seq(Int) /\ Len(nums) = k + 1
  <2> DEFINE n == k + 1
  <2>1. n \in Nat /\ IsList(nums, n, Int) BY DEF IsEnded
  <2> HIDE DEF n
  <2>2. nums \in Seq(Int) /\ Len(nums) = n BY <2>1, SeqFacts
  <2> QED BY <2>2 DEF n
<1>5. /\ SubSeq(nums, 1, k) \in Seq(Int) /\ Len(SubSeq(nums, 1, k)) = k
      /\ \A i \in 1..k : SubSeq(nums, 1, k)[i] = nums[i]
  <2>1. k <= Len(nums) BY <1>4
  <2> QED BY <1>4, <2>1, FrontIs
<1>6. SubSeq(nums, 1, k) = s
  <2> DEFINE t == SubSeq(nums, 1, k)
  <2>1. t \in Seq(Int) /\ Len(t) = k /\ \A i \in 1..k : t[i] = s[i] BY <1>5
  <2> HIDE DEF t
  <2>2. t = s BY <2>1, SeqEqual
  <2> QED BY <2>2 DEF t
<1> QED BY <1>3, <1>6

\* What is taken is numbers.
LEMMA TakenAreNumbers ==
  ASSUME NEW nums, NEW k \in Nat, IsEnded(nums, k), NEW r, r = UpToEnd(nums), r.ok
  PROVE  /\ r = Ok(r.value) /\ r.value \in Seq(Nat)
         /\ \A i \in 1..Len(r.value) : i \in 1..(k + 1) /\ r.value[i] = nums[i]
<1>1. PICK end \in 1..(k + 1) : /\ nums[end] < 0
                                /\ \A i \in 1..(end - 1) : nums[i] \in Nat
                                /\ UpToEnd(nums) = IF nums[end] = KRYPT_ERR THEN Failed
                                                   ELSE Ok(SubSeq(nums, 1, end - 1)) BY EndIs
<1>2. ~Failed.ok BY DEF Failed
<1>3. r = Ok(SubSeq(nums, 1, end - 1)) BY <1>1, <1>2
<1>4. nums \in Seq(Int) /\ Len(nums) = k + 1
  <2> DEFINE n == k + 1
  <2>1. n \in Nat /\ IsList(nums, n, Int) BY DEF IsEnded
  <2> HIDE DEF n
  <2>2. nums \in Seq(Int) /\ Len(nums) = n BY <2>1, SeqFacts
  <2> QED BY <2>2 DEF n
<1> DEFINE m == end - 1
           t == SubSeq(nums, 1, m)
<1>5. m \in Nat /\ m <= Len(nums) BY <1>4
<1>6. t \in Seq(Int) /\ Len(t) = m /\ \A i \in 1..m : t[i] = nums[i]
  <2> HIDE DEF m
  <2> QED BY <1>4, <1>5, FrontIs
<1>7. \A i \in 1..m : nums[i] \in Nat BY <1>1
<1>8. r = Ok(t) BY <1>3
<1> HIDE DEF m, t
<1>9. t \in Seq(Nat)
  <2>1. IsList(t, m, Nat) BY <1>5, <1>6, <1>7 DEF IsList
  <2> QED BY <1>5, <2>1, SeqFacts
<1>10. r.value = t BY <1>8 DEF Ok
<1>11. \A i \in 1..m : i \in 1..(k + 1) BY <1>4, <1>5
<1> QED BY <1>6, <1>8, <1>9, <1>10, <1>11

----------------------------------------------------------------------------
(* OBJECT IDENTIFIER: the octets of each number *)

Pieces == Seq(Seq(Octet))

\* One more octet for the last of the pieces.
Continued(s, x) == Append(Front(s), Append(Last(s), x))

LEMMA ContinuedIs ==
  ASSUME NEW s \in Pieces, s # <<>>, NEW x \in Octet
  PROVE  /\ Continued(s, x) \in Pieces
         /\ Len(Continued(s, x)) = Len(s) /\ Len(s) \in Nat \ {0}
         /\ \A i \in 1..(Len(s) - 1) : Continued(s, x)[i] = s[i]
         /\ Continued(s, x)[Len(s)] = Append(s[Len(s)], x)
<1> DEFINE A == Seq(Octet)
           n == Len(s)
           m == n - 1
           f == SubSeq(s, 1, m)
           l == Append(s[n], x)
<1>1. n \in Nat \ {0} /\ s \in Seq(A) BY EmptySeq DEF Pieces
<1>2. n \in 1..n /\ m \in Nat /\ m <= n /\ n = m + 1 BY <1>1
<1>3. s[n] \in A
  <2> HIDE DEF A
  <2> QED BY <1>1, <1>2, ElementOfSeq
<1>4. l \in A
  <2> DEFINE t == s[n]
  <2>1. t \in Seq(Octet) BY <1>3
  <2> HIDE DEF t
  <2>2. Append(t, x) \in Seq(Octet) BY <2>1
  <2> QED BY <2>2 DEF t
<1>5. Continued(s, x) = Append(f, l) BY Zenon DEF Continued, Front, Last
<1> HIDE DEF A, l
<1>6. f \in Seq(A) /\ Len(f) = m /\ \A i \in 1..m : f[i] = s[i]
  <2> HIDE DEF m, n
  <2> QED BY <1>1, <1>2, FrontIs DEF n
<1> HIDE DEF f
<1>7. Append(f, l) \in Seq(A) /\ Len(Append(f, l)) = m + 1
      /\ Append(f, l)[m + 1] = l /\ \A i \in 1..m : Append(f, l)[i] = f[i]
  <2> HIDE DEF m, n
  <2> QED BY <1>2, <1>4, <1>6
<1> HIDE DEF m, n
<1>8. /\ Continued(s, x) \in Seq(A) /\ Len(Continued(s, x)) = n /\ n \in Nat \ {0}
      /\ \A i \in 1..(n - 1) : Continued(s, x)[i] = s[i]
      /\ Continued(s, x)[n] = l
  <2>1. n - 1 = m BY DEF m
  <2> QED BY <1>1, <1>2, <1>5, <1>6, <1>7, <2>1
<1> QED BY <1>8 DEF A, n, l, Pieces

\* A number ends with an octet that is not marked.
Begins(o, i) == i = 1 \/ o[i - 1] < SignBit

SubIdStep(o) ==
  [p \in (1..Len(o)) \X Pieces |->
     IF Begins(o, p[1]) THEN Append(p[2], <<o[p[1]]>>)
     ELSE IF p[2] = <<>> THEN << <<>> >>
     ELSE Continued(p[2], o[p[1]])]

LEMMA SubIdSteps ==
  ASSUME NEW o \in Seq(Octet)
  PROVE  /\ IsStep(SubIdStep(o), Len(o), Pieces)
         /\ \A i \in 1..Len(o), s \in Pieces :
              /\ SubIdStep(o)[<<i, s>>] # <<>>
              /\ Begins(o, i) => SubIdStep(o)[<<i, s>>] = Append(s, <<o[i]>>)
              /\ ~Begins(o, i) /\ s # <<>> => SubIdStep(o)[<<i, s>>] = Continued(s, o[i])
<1>1. ASSUME NEW i \in 1..Len(o), NEW s \in Pieces
      PROVE  /\ SubIdStep(o)[<<i, s>>] \in Pieces /\ SubIdStep(o)[<<i, s>>] # <<>>
             /\ Begins(o, i) => SubIdStep(o)[<<i, s>>] = Append(s, <<o[i]>>)
             /\ ~Begins(o, i) /\ s # <<>> => SubIdStep(o)[<<i, s>>] = Continued(s, o[i])
  <2> DEFINE A == Seq(Octet)
             x == o[i]
             r == SubIdStep(o)[<<i, s>>]
  <2>1. x \in Octet BY ElementOfSeq
  <2>2. r = IF Begins(o, i) THEN Append(s, <<x>>) ELSE IF s = <<>> THEN << <<>> >> ELSE Continued(s, x)
    BY DEF SubIdStep
  <2>3. s \in Seq(A) /\ <<x>> \in A /\ <<>> \in A BY <2>1 DEF Pieces
  <2> HIDE DEF A, x, r
  <2>4. Append(s, <<x>>) \in Seq(A) /\ Append(s, <<x>>) # <<>> BY <2>3
  <2>5. << <<>> >> \in Seq(A) /\ << <<>> >> # <<>> BY <2>3
  <2>6. s # <<>> => Continued(s, x) \in Pieces /\ Continued(s, x) # <<>>
    <3> SUFFICES ASSUME s # <<>> PROVE Continued(s, x) \in Pieces /\ Continued(s, x) # <<>>
      OBVIOUS
    <3>1. Continued(s, x) \in Pieces /\ Len(Continued(s, x)) = Len(s) /\ Len(s) \in Nat \ {0}
      BY <2>1, ContinuedIs
    <3> QED BY <3>1
  <2>7. Seq(A) = Pieces BY DEF A, Pieces
  <2>8. /\ r \in Pieces /\ r # <<>>
        /\ Begins(o, i) => r = Append(s, <<x>>)
        /\ ~Begins(o, i) /\ s # <<>> => r = Continued(s, x) BY <2>2, <2>4, <2>5, <2>6, <2>7
  <2> QED BY <2>8 DEF r, x
<1> QED BY <1>1 DEF IsStep

LEMMA SubIdsDefined ==
  ASSUME NEW o \in Seq(Octet)
  PROVE  \E f : /\ Goes(f, Len(o), Pieces, <<>>, SubIdStep(o))
                /\ SubIds(o) = f[Len(o)]
<1> DEFINE n == Len(o)
           step == SubIdStep(o)
           Step(g) == [i \in 0..n |->
                         IF i = 0 THEN <<>>
                         ELSE LET before == g[i - 1]
                              IN  IF i = 1 \/ o[i - 1] < SignBit THEN Append(before, <<o[i]>>)
                                  ELSE Append(Front(before), Append(Last(before), o[i]))]
           c == CHOOSE g : g = Step(g)
<1>1. SubIds(o) = c[n] BY Zenon DEF SubIds
<1>2. /\ IsStep(step, n, Pieces)
      /\ \A i \in 1..n, s \in Pieces :
           /\ step[<<i, s>>] # <<>>
           /\ Begins(o, i) => step[<<i, s>>] = Append(s, <<o[i]>>)
           /\ ~Begins(o, i) /\ s # <<>> => step[<<i, s>>] = Continued(s, o[i]) BY SubIdSteps
<1>3. n \in Nat /\ <<>> \in Pieces BY EmptySeq DEF Pieces
<1>4. \A g : Step(g) = [i \in 0..n |-> IF i = 0 THEN <<>>
                                       ELSE IF Begins(o, i) THEN Append(g[i - 1], <<o[i]>>)
                                       ELSE Continued(g[i - 1], o[i])]
  BY Zenon DEF Begins, Continued
<1> HIDE DEF step, n
<1>5. PICK g : Goes(g, n, Pieces, <<>>, step) BY <1>2, <1>3, Stepwise
<1>6. \A i \in 1..n : i - 1 \in 0..n /\ g[i] = step[<<i, g[i - 1]>>] /\ g[i - 1] \in Pieces /\ g[i] # <<>>
  <2>1. \A i \in 1..n : i - 1 \in 0..n BY <1>3
  <2>2. \A i \in 1..n : g[i] = step[<<i, g[i - 1]>>] /\ g[i - 1] \in Pieces
    BY <1>5, <2>1 DEF Goes
  <2> QED BY <1>2, <2>1, <2>2
<1>7. ASSUME NEW i \in 1..n
      PROVE  g[i] = IF Begins(o, i) THEN Append(g[i - 1], <<o[i]>>) ELSE Continued(g[i - 1], o[i])
  <2>1. CASE Begins(o, i) BY <1>2, <1>6, <2>1
  <2>2. CASE ~Begins(o, i)
    <3>1. i # 1 BY <2>2 DEF Begins
    <3>2. i - 1 \in 1..n BY <1>3, <3>1
    <3>3. g[i - 1] # <<>> BY <1>6, <3>2
    <3> QED BY <1>2, <1>6, <2>2, <3>3
  <2> QED BY <2>1, <2>2
<1>8. g = Step(g)
  <2>1. g = [i \in 0..n |-> g[i]] /\ g[0] = <<>> BY <1>5 DEF Goes
  <2>2. \A i \in 0..n : i = 0 \/ i \in 1..n BY <1>3
  <2> HIDE DEF Step
  <2> QED BY <1>4, <1>7, <2>1, <2>2
<1>9. c = Step(c)
  <2> HIDE DEF Step
  <2> QED BY <1>8
<1> HIDE DEF c, Step
<1>10. /\ c = [i \in 0..n |-> c[i]]
       /\ c[0] = <<>>
       /\ \A i \in 1..n : c[i] = IF Begins(o, i) THEN Append(c[i - 1], <<o[i]>>) ELSE Continued(c[i - 1], o[i])
  <2> DEFINE F == [i \in 0..n |-> IF i = 0 THEN <<>>
                                  ELSE IF Begins(o, i) THEN Append(c[i - 1], <<o[i]>>)
                                  ELSE Continued(c[i - 1], o[i])]
  <2>1. c = F BY <1>4, <1>9
  <2>2. 0 \in 0..n /\ \A i \in 1..n : i \in 0..n /\ i # 0 BY <1>3
  <2>3. DOMAIN F = 0..n /\ F = [i \in 0..n |-> F[i]] OBVIOUS
  <2>4. F[0] = <<>> BY <2>2
  <2>5. \A i \in 1..n : F[i] = IF Begins(o, i) THEN Append(c[i - 1], <<o[i]>>) ELSE Continued(c[i - 1], o[i])
    BY <2>2
  <2> HIDE DEF F
  <2> QED BY <2>1, <2>3, <2>4, <2>5
<1>11. c = g
  <2> DEFINE S == {i \in Nat : i <= n => c[i] = g[i]}
  <2>1. 0 \in S BY <1>5, <1>10 DEF Goes
  <2>2. ASSUME NEW i \in Nat, i \in S
        PROVE  i + 1 \in S
    <3> SUFFICES ASSUME i + 1 <= n PROVE c[i + 1] = g[i + 1] OBVIOUS
    <3>1. c[i] = g[i] /\ i + 1 \in 1..n /\ (i + 1) - 1 = i BY <1>3, <2>2
    <3> QED BY <1>7, <1>10, <3>1
  <2>3. Nat \subseteq S
    <3> HIDE DEF S
    <3> QED BY <2>1, <2>2, StepInduction
  <2>4. \A i \in 0..n : c[i] = g[i] BY <1>3, <2>3
  <2>5. g = [i \in 0..n |-> g[i]] BY <1>5 DEF Goes
  <2> QED BY <1>10, <2>4, <2>5
<1> QED BY <1>1, <1>5, <1>11 DEF n, step

\* Nothing is open behind octets whose last one is not marked.
IsClosed(o) == o = <<>> \/ o[Len(o)] < SignBit

LEMMA SubIdsOfNothing ==
  SubIds(<<>>) = <<>>
<1>1. <<>> \in Seq(Octet) /\ Len(<<>>) = 0 OBVIOUS
<1> QED BY <1>1, SubIdsDefined DEF Goes

\* What one more octet changes.
LEMMA SubIdsOfAppend ==
  ASSUME NEW o \in Seq(Octet), NEW x \in Octet
  PROVE  /\ SubIds(o) \in Pieces /\ (o # <<>> => SubIds(o) # <<>>)
         /\ IsClosed(o) => SubIds(Append(o, x)) = Append(SubIds(o), <<x>>)
         /\ ~IsClosed(o) => SubIds(Append(o, x)) = Continued(SubIds(o), x)
<1> DEFINE n == Len(o)
           more == Append(o, x)
<1>1. n \in Nat /\ more \in Seq(Octet) /\ Len(more) = n + 1 OBVIOUS
<1>2. more[n + 1] = x /\ \A i \in 1..n : more[i] = o[i] /\ i \in 1..(n + 1) OBVIOUS
<1>3. /\ IsStep(SubIdStep(o), n, Pieces)
      /\ \A i \in 1..n, s \in Pieces : SubIdStep(o)[<<i, s>>] # <<>> BY SubIdSteps
<1>4. n = 0 <=> o = <<>> BY EmptySeq
<1>5. Begins(more, n + 1) <=> IsClosed(o)
  <2>1. CASE n = 0 BY <1>4, <2>1 DEF Begins, IsClosed
  <2>2. CASE n # 0
    <3>1. n \in 1..n /\ n + 1 # 1 /\ (n + 1) - 1 = n BY <1>1, <2>2
    <3>2. more[n] = o[n] BY <1>2, <3>1
    <3> QED BY <1>4, <2>2, <3>1, <3>2 DEF Begins, IsClosed
  <2> QED BY <2>1, <2>2
<1>6. PICK f : Goes(f, n, Pieces, <<>>, SubIdStep(o)) /\ SubIds(o) = f[n] BY SubIdsDefined
<1>16. \A i \in 1..n : Begins(more, i) <=> Begins(o, i)
  <2> SUFFICES ASSUME NEW i \in 1..n PROVE Begins(more, i) <=> Begins(o, i) OBVIOUS
  <2>1. CASE i = 1 BY <2>1 DEF Begins
  <2>2. CASE i # 1
    <3>1. i - 1 \in 1..n BY <1>1, <2>2
    <3> QED BY <1>2, <2>2, <3>1 DEF Begins
  <2> QED BY <2>1, <2>2
<1> DEFINE k == n + 1
<1>7. k \in Nat /\ Len(more) = k /\ k \in 1..k /\ \A i \in 1..n : i \in 1..k BY <1>1
<1> HIDE DEF more
<1>8. \A i \in 1..k, s \in Pieces :
        /\ Begins(more, i) => SubIdStep(more)[<<i, s>>] = Append(s, <<more[i]>>)
        /\ ~Begins(more, i) /\ s # <<>> => SubIdStep(more)[<<i, s>>] = Continued(s, more[i])
  <2> HIDE DEF k, n
  <2> QED BY <1>1, <1>7, SubIdSteps
<1>9. PICK g : Goes(g, k, Pieces, <<>>, SubIdStep(more)) /\ SubIds(more) = g[k]
  <2> HIDE DEF k, n
  <2> QED BY <1>1, <1>7, SubIdsDefined
<1>10. ASSUME NEW i \in 1..n, NEW s \in Pieces
       PROVE  SubIdStep(more)[<<i, s>>] = SubIdStep(o)[<<i, s>>]
  <2>1. <<i, s>> \in (1..n) \X Pieces /\ <<i, s>> \in (1..k) \X Pieces BY <1>7
  <2>2. <<i, s>>[1] = i /\ <<i, s>>[2] = s OBVIOUS
  <2>3. more[i] = o[i] /\ (Begins(more, i) <=> Begins(o, i)) BY <1>2, <1>16
  <2>4. SubIdStep(o)[<<i, s>>] = IF Begins(o, i) THEN Append(s, <<o[i]>>)
                                 ELSE IF s = <<>> THEN << <<>> >> ELSE Continued(s, o[i])
    BY <2>1, <2>2 DEF SubIdStep
  <2>5. SubIdStep(more)[<<i, s>>] = IF Begins(more, i) THEN Append(s, <<more[i]>>)
                                    ELSE IF s = <<>> THEN << <<>> >> ELSE Continued(s, more[i])
    <3> HIDE DEF k, n
    <3> QED BY <1>7, <2>1, <2>2 DEF SubIdStep
  <2> HIDE DEF k, n
  <2> QED BY <2>3, <2>4, <2>5
<1> HIDE DEF n
<1>11. g[n + 1] = SubIdStep(more)[<<n + 1, f[n]>>]
  <2>1. IsSameStep(SubIdStep(more), SubIdStep(o), n, Pieces) BY <1>10 DEF IsSameStep
  <2> QED BY <1>1, <1>6, <1>9, <2>1, OneMoreStep
<1>12. f[n] \in Pieces BY <1>1, <1>6 DEF Goes
<1>13. o # <<>> => f[n] # <<>>
  <2> SUFFICES ASSUME o # <<>> PROVE f[n] # <<>> OBVIOUS
  <2>1. n \in 1..n /\ n - 1 \in 0..n BY <1>1, <1>4
  <2>2. f[n] = SubIdStep(o)[<<n, f[n - 1]>>] /\ f[n - 1] \in Pieces BY <1>6, <2>1 DEF Goes
  <2> QED BY <1>3, <2>1, <2>2
<1>14. ~IsClosed(o) => f[n] # <<>> BY <1>13 DEF IsClosed
<1>15. /\ IsClosed(o) => SubIds(more) = Append(SubIds(o), <<x>>)
       /\ ~IsClosed(o) => SubIds(more) = Continued(SubIds(o), x)
  <2> HIDE DEF k
  <2>1. SubIds(more) = SubIdStep(more)[<<k, f[n]>>] BY <1>9, <1>11 DEF k
  <2>2. more[k] = x /\ (Begins(more, k) <=> IsClosed(o)) BY <1>2, <1>5 DEF k
  <2> QED BY <1>6, <1>7, <1>8, <1>12, <1>14, <2>1, <2>2
<1> QED BY <1>6, <1>12, <1>13, <1>15 DEF more

\* The pieces of octets: none is empty, and all but the last are closed.
AreCut(ps, o) ==
  /\ ps \in Pieces
  /\ \A i \in 1..Len(ps) : ps[i] # <<>>
  /\ \A i \in 1..(Len(ps) - 1) : IsClosed(ps[i])
  /\ o = <<>> => ps = <<>>
  /\ o # <<>> => ps # <<>> /\ ps[Len(ps)][Len(ps[Len(ps)])] = o[Len(o)]

LEMMA EndOfAppend ==
  ASSUME NEW A, NEW s \in Seq(A), NEW x \in A
  PROVE  /\ Append(s, x) \in Seq(A) /\ Append(s, x) # <<>>
         /\ Len(Append(s, x)) = Len(s) + 1 /\ Len(s) \in Nat
         /\ Append(s, x)[Len(Append(s, x))] = x
         /\ Append(s, x)[Len(s) + 1] = x
         /\ \A i \in 1..Len(s) : Append(s, x)[i] = s[i] OBVIOUS

LEMMA OneMoreIsCut ==
  ASSUME NEW o \in Seq(Octet), NEW x \in Octet, AreCut(SubIds(o), o)
  PROVE  AreCut(SubIds(Append(o, x)), Append(o, x))
<1> DEFINE ps == SubIds(o)
           n == Len(ps)
           more == Append(o, x)
           qs == SubIds(more)
<1>1. /\ ps \in Pieces /\ n \in Nat
      /\ \A i \in 1..n : ps[i] # <<>> /\ ps[i] \in Seq(Octet)
      /\ \A i \in 1..(n - 1) : IsClosed(ps[i])
      /\ o = <<>> => ps = <<>>
      /\ o # <<>> => ps # <<>> /\ ps[n][Len(ps[n])] = o[Len(o)]
  <2>1. ps \in Seq(Seq(Octet)) BY DEF AreCut, Pieces
  <2>2. n \in Nat /\ \A i \in 1..n : ps[i] \in Seq(Octet)
    <3> DEFINE A == Seq(Octet)
    <3>1. ps \in Seq(A) BY <2>1
    <3> HIDE DEF A, ps
    <3>2. n \in Nat /\ \A i \in 1..n : ps[i] \in A BY <3>1, ElementOfSeq
    <3> QED BY <3>2 DEF A
  <2> QED BY <2>2 DEF AreCut
<1>2. /\ IsClosed(o) => qs = Append(ps, <<x>>)
      /\ ~IsClosed(o) => qs = Continued(ps, x) BY SubIdsOfAppend
<1>3. more # <<>> /\ more[Len(more)] = x BY EndOfAppend
<1> SUFFICES AreCut(qs, more) OBVIOUS
<1> HIDE DEF ps, more, qs
<1>4. CASE IsClosed(o)
  <2> DEFINE A == Seq(Octet)
  <2>1. <<x>> \in A /\ ps \in Seq(A) BY <1>1 DEF Pieces
  <2>2. <<x>> # <<>> /\ <<x>>[Len(<<x>>)] = x OBVIOUS
  <2> DEFINE y == <<x>>
  <2> HIDE DEF A, y
  <2>3. /\ Append(ps, y) \in Seq(A) /\ Append(ps, y) # <<>> /\ Len(Append(ps, y)) = n + 1
        /\ Append(ps, y)[n + 1] = y /\ \A i \in 1..n : Append(ps, y)[i] = ps[i]
    BY <2>1, EndOfAppend DEF y
  <2>4. /\ qs \in Seq(A) /\ qs # <<>> /\ Len(qs) = n + 1
        /\ qs[n + 1] = y /\ \A i \in 1..n : qs[i] = ps[i] BY <1>2, <1>4, <2>3 DEF y
  <2>5. \A i \in 1..(n + 1) : i \in 1..n \/ i = n + 1 BY <1>1
  <2>6. \A i \in 1..(n + 1) : qs[i] # <<>> BY <1>1, <2>2, <2>4, <2>5 DEF y
  <2>7. \A i \in 1..n : IsClosed(ps[i])
    <3> SUFFICES ASSUME NEW i \in 1..n, i = n PROVE IsClosed(ps[i]) BY <1>1
    <3>1. o # <<>>
      <4> SUFFICES ASSUME o = <<>> PROVE FALSE OBVIOUS
      <4>1. Len(ps) = 0 BY <1>1
      <4> QED BY <4>1
    <3> QED BY <1>1, <1>4, <3>1 DEF IsClosed
  <2>8. \A i \in 1..((n + 1) - 1) : IsClosed(qs[i])
    <3>1. (n + 1) - 1 = n BY <1>1
    <3> QED BY <2>4, <2>7, <3>1
  <2>9. qs[n + 1][Len(qs[n + 1])] = x BY <2>2, <2>4 DEF y
  <2>10. qs \in Pieces BY <2>4 DEF A, Pieces
  <2>11. qs[Len(qs)][Len(qs[Len(qs)])] = more[Len(more)] BY <1>3, <2>4, <2>9
  <2> QED BY <1>3, <2>4, <2>6, <2>8, <2>10, <2>11 DEF AreCut
<1>5. CASE ~IsClosed(o)
  <2>1. o # <<>> /\ ps # <<>> BY <1>1, <1>5 DEF IsClosed
  <2>2. /\ Continued(ps, x) \in Pieces /\ Len(Continued(ps, x)) = n /\ n \in Nat \ {0}
        /\ \A i \in 1..(n - 1) : Continued(ps, x)[i] = ps[i]
        /\ Continued(ps, x)[n] = Append(ps[n], x) BY <1>1, <2>1, ContinuedIs
  <2> DEFINE l == Append(ps[n], x)
  <2>3. n \in 1..n BY <2>2
  <2>4. l # <<>> /\ l[Len(l)] = x
    <3> DEFINE t == ps[n]
    <3>1. t \in Seq(Octet) BY <1>1, <2>3
    <3> HIDE DEF t
    <3>2. Append(t, x) # <<>> /\ Append(t, x)[Len(Append(t, x))] = x BY <3>1, EndOfAppend
    <3> QED BY <3>2 DEF t
  <2> HIDE DEF l
  <2>5. /\ qs \in Pieces /\ Len(qs) = n
        /\ \A i \in 1..(n - 1) : qs[i] = ps[i]
        /\ qs[n] = l BY <1>2, <1>5, <2>2 DEF l
  <2>6. \A i \in 1..n : i \in 1..(n - 1) \/ i = n BY <1>1
  <2>7. \A i \in 1..n : qs[i] # <<>> BY <1>1, <2>4, <2>5, <2>6
  <2>8. \A i \in 1..(n - 1) : IsClosed(qs[i]) BY <1>1, <2>5
  <2>9. qs # <<>> BY <2>2, <2>5
  <2>10. qs[Len(qs)][Len(qs[Len(qs)])] = more[Len(more)] BY <1>3, <2>4, <2>5
  <2> QED BY <1>3, <2>5, <2>7, <2>8, <2>9, <2>10 DEF AreCut
<1> QED BY <1>4, <1>5

LEMMA SubIdsAreCut ==
  ASSUME NEW o \in Seq(Octet)
  PROVE  AreCut(SubIds(o), o)
<1> DEFINE S == {n \in Nat : \A t \in Seq(Octet) : Len(t) = n => AreCut(SubIds(t), t)}
<1>1. 0 \in S
  <2>1. AreCut(SubIds(<<>>), <<>>)
    <3>1. <<>> \in Pieces /\ Len(<<>>) = 0 BY DEF Pieces
    <3>2. 1..0 = {} /\ 1..(0 - 1) = {} OBVIOUS
    <3>3. /\ \A i \in 1..Len(<<>>) : <<>>[i] # <<>>
          /\ \A i \in 1..(Len(<<>>) - 1) : IsClosed(<<>>[i]) BY <3>1, <3>2
    <3>4. AreCut(<<>>, <<>>) BY <3>1, <3>3 DEF AreCut
    <3> QED BY <3>4, SubIdsOfNothing
  <2>2. \A t \in Seq(Octet) : Len(t) = 0 => t = <<>> BY EmptySeq
  <2> QED BY <2>1, <2>2
<1>2. ASSUME NEW n \in Nat, n \in S
      PROVE  n + 1 \in S
  <2> SUFFICES ASSUME NEW t \in Seq(Octet), Len(t) = n + 1
               PROVE  AreCut(SubIds(t), t)
    OBVIOUS
  <2>1. /\ SubSeq(t, 1, n) \in Seq(Octet) /\ Len(SubSeq(t, 1, n)) = n
        /\ SubSeq(t, 1, n + 1) = Append(SubSeq(t, 1, n), t[n + 1]) BY LastOf
  <2>2. t = Append(SubSeq(t, 1, n), t[n + 1]) BY <2>1, WholeSeq
  <2>3. t[n + 1] \in Octet BY ElementOfSeq
  <2> DEFINE f == SubSeq(t, 1, n)
             x == t[n + 1]
  <2>4. AreCut(SubIds(f), f) /\ f \in Seq(Octet) /\ x \in Octet BY <1>2, <2>1, <2>3
  <2>5. t = Append(f, x) BY <2>2
  <2> HIDE DEF f, x
  <2>6. AreCut(SubIds(Append(f, x)), Append(f, x)) BY <2>4, OneMoreIsCut
  <2> QED BY <2>5, <2>6
<1>3. Nat \subseteq S
  <2> HIDE DEF S
  <2> QED BY <1>1, <1>2, StepInduction
<1>4. Len(o) \in Nat OBVIOUS
<1>5. Len(o) \in S
  <2> HIDE DEF S
  <2> QED BY <1>3, <1>4
<1> QED BY <1>5

----------------------------------------------------------------------------
(* OBJECT IDENTIFIER: what is decoded *)

LEMMA DigitsOfNothing ==
  DigitsOf(<<>>) = 0
<1>1. [i \in DOMAIN <<>> |-> <<>>[i] % DigitBase] = <<>> OBVIOUS
<1>2. DigitBase \in Int BY Bases DEF DigitBase, SignBit
<1> QED BY <1>1, <1>2, NumberOfNothing DEF DigitsOf

LEMMA DigitsOfAppend ==
  ASSUME NEW p \in Seq(Octet), NEW x \in Octet
  PROVE  /\ DigitsOf(p) \in Int
         /\ x % DigitBase \in Nat
         /\ DigitsOf(Append(p, x)) = DigitsOf(p) * DigitBase + (x % DigitBase)
<1> DEFINE n == Len(p)
           Low(t) == [i \in DOMAIN t |-> t[i] % DigitBase]
           more == Append(p, x)
           d == x % DigitBase
<1>1. DigitBase \in Nat \ {0} BY Bases DEF DigitBase, SignBit
<1>2. \A y \in Octet : y % DigitBase \in Nat
  <2>1. \A y \in Octet : y \in Int BY Octets
  <2> DEFINE b == DigitBase
  <2>2. b \in Nat \ {0} BY <1>1
  <2> HIDE DEF b
  <2>3. \A y \in Int : y % b \in Nat BY <2>2
  <2> QED BY <2>1, <2>3 DEF b
<1>3. d \in Nat /\ d \in Int BY <1>2
<1>4. Low(p) \in Seq(Int) /\ Len(Low(p)) = n /\ n \in Nat /\ \A i \in 1..n : Low(p)[i] = p[i] % DigitBase
  <2>1. n \in Nat /\ DOMAIN p = 1..n /\ \A i \in 1..n : p[i] \in Octet BY ElementOfSeq
  <2>2. Low(p) = [i \in 1..n |-> p[i] % DigitBase] BY <2>1
  <2>3. IsList(Low(p), n, Int) BY <1>2, <2>1, <2>2 DEF IsList
  <2> HIDE DEF Low, n
  <2> QED BY <2>1, <2>2, <2>3, SeqFacts
<1>5. Low(more) = Append(Low(p), d)
  <2>1. /\ DOMAIN more = 1..(n + 1)
        /\ more[n + 1] = x /\ \A i \in 1..n : more[i] = p[i]
    <3>1. more \in Seq(Octet) /\ Len(more) = n + 1 /\ more[n + 1] = x /\ \A i \in 1..n : more[i] = p[i]
      BY EndOfAppend
    <3> HIDE DEF more, n
    <3> QED BY <3>1
  <2>2. Low(more) = [i \in 1..(n + 1) |-> more[i] % DigitBase] BY <2>1
  <2>3. /\ Append(Low(p), d) \in Seq(Int) /\ Len(Append(Low(p), d)) = n + 1
        /\ Append(Low(p), d)[n + 1] = d
        /\ \A i \in 1..n : Append(Low(p), d)[i] = Low(p)[i]
    <3> HIDE DEF Low, d, n
    <3> QED BY <1>3, <1>4, EndOfAppend
  <2> DEFINE s == Append(Low(p), d)
  <2>4. s = [i \in 1..(n + 1) |-> s[i]]
    <3>1. s \in Seq(Int) /\ Len(s) = n + 1 BY <2>3
    <3> HIDE DEF s, n
    <3> QED BY <3>1
  <2>5. \A i \in 1..(n + 1) : i \in 1..n \/ i = n + 1 BY <1>4
  <2>6. \A i \in 1..(n + 1) : more[i] % DigitBase = s[i]
    <3> HIDE DEF Low, more, n
    <3> QED BY <1>4, <2>1, <2>3, <2>5
  <2> HIDE DEF s, Low, more, n
  <2>7. Low(more) = s BY <2>2, <2>4, <2>6
  <2> QED BY <2>7 DEF s
<1>6. DigitsOf(p) = NumberOf(Low(p), DigitBase) /\ DigitsOf(more) = NumberOf(Low(more), DigitBase)
  BY DEF DigitsOf
<1>7. /\ NumberOf(Low(p), DigitBase) \in Int
      /\ NumberOf(Append(Low(p), d), DigitBase) = NumberOf(Low(p), DigitBase) * DigitBase + d
  <2>1. DigitBase \in Int BY <1>1
  <2> HIDE DEF Low, d
  <2> QED BY <1>3, <1>4, <2>1, NumberOfAppend
<1> HIDE DEF Low, d
<1>8. DigitsOf(more) = DigitsOf(p) * DigitBase + d BY <1>5, <1>6, <1>7
<1>9. DigitsOf(p) \in Int BY <1>6, <1>7
<1>10. x % DigitBase = d BY DEF d
<1> HIDE DEF more
<1>11. x % DigitBase \in Nat BY <1>3, <1>10
<1>12. DigitsOf(more) = DigitsOf(p) * DigitBase + (x % DigitBase) BY <1>8, <1>10, Zenon
<1> QED BY <1>9, <1>11, <1>12 DEF more

LEMMA DigitsOfNat ==
  ASSUME NEW o \in Seq(Octet)
  PROVE  DigitsOf(o) \in Nat
<1> DEFINE S == {n \in Nat : \A t \in Seq(Octet) : Len(t) = n => DigitsOf(t) \in Nat}
<1>1. 0 \in S
  <2>1. \A t \in Seq(Octet) : Len(t) = 0 => t = <<>> BY EmptySeq
  <2> QED BY <2>1, DigitsOfNothing
<1>2. ASSUME NEW n \in Nat, n \in S
      PROVE  n + 1 \in S
  <2> SUFFICES ASSUME NEW t \in Seq(Octet), Len(t) = n + 1
               PROVE  DigitsOf(t) \in Nat
    OBVIOUS
  <2> DEFINE f == SubSeq(t, 1, n)
             x == t[n + 1]
  <2>1. /\ f \in Seq(Octet) /\ Len(f) = n
        /\ SubSeq(t, 1, n + 1) = Append(f, x) BY LastOf
  <2>2. t = Append(f, x) BY <2>1, WholeSeq
  <2>3. x \in Octet BY ElementOfSeq
  <2>4. DigitsOf(f) \in Nat BY <1>2, <2>1
  <2> HIDE DEF f, x
  <2>5. DigitsOf(t) = DigitsOf(f) * DigitBase + (x % DigitBase) /\ x % DigitBase \in Nat
    BY <2>1, <2>2, <2>3, DigitsOfAppend
  <2>6. DigitBase \in Nat BY Bases DEF DigitBase, SignBit
  <2>7. \A a, b, c \in Nat : a * b + c \in Nat OBVIOUS
  <2> DEFINE u == DigitsOf(f)
             v == x % DigitBase
  <2>8. u \in Nat /\ v \in Nat /\ DigitsOf(t) = u * DigitBase + v BY <2>4, <2>5, Zenon
  <2> HIDE DEF u, v
  <2> QED BY <2>6, <2>7, <2>8
<1>3. Nat \subseteq S
  <2> HIDE DEF S
  <2> QED BY <1>1, <1>2, StepInduction
<1>4. Len(o) \in Nat OBVIOUS
<1>5. Len(o) \in S
  <2> HIDE DEF S
  <2> QED BY <1>3, <1>4
<1> QED BY <1>5

LEMMA ParsedSubIdIs ==
  ASSUME NEW p \in Seq(Octet)
  PROVE  /\ int_parse_sub_id(p) \in Int
         /\ p # <<>> /\ IsClosed(p) /\ DigitsOf(p) <= LONG_MAX => int_parse_sub_id(p) = DigitsOf(p)
<1> DEFINE n == Len(p)
           f == SubSeq(p, 1, n - 2)
           d == DigitsOf(p)
<1>1. int_parse_sub_id(p) = IF p = <<>> THEN KRYPT_ASN1_EOF
                            ELSE IF p[n] >= SignBit THEN KRYPT_ERR
                            ELSE IF n > 1 /\ DigitsOf(f) > SUB_ID_LIMIT_PARSE THEN KRYPT_ERR
                            ELSE Signed(d, LONG_BITS) BY Zenon DEF int_parse_sub_id, Last
<1>2. d \in Nat /\ n \in Nat BY DigitsOfNat
<1>3. Signed(d, LONG_BITS) \in Int /\ (d <= LONG_MAX => Signed(d, LONG_BITS) = d)
  <2> HIDE DEF d
  <2>1. d \in Int /\ d >= 0 /\ LONG_BITS \in Nat \ {0} BY <1>2, LongWidth
  <2>2. Signed(d, LONG_BITS) \in Int /\ (d >= 0 /\ d < 2^(LONG_BITS - 1) => Signed(d, LONG_BITS) = d)
    BY <2>1, SignedIs
  <2>3. d <= LONG_MAX => d < 2^(LONG_BITS - 1)
    <3> DEFINE h == 2^(LONG_BITS - 1)
    <3>1. h \in Nat /\ LONG_MAX = h - 1 BY LongWidth
    <3> HIDE DEF h
    <3>2. d <= LONG_MAX => d < h BY <2>1, <3>1
    <3> QED BY <3>2 DEF h
  <2> QED BY <2>1, <2>2, <2>3
<1>4. int_parse_sub_id(p) \in Int
  <2>1. KRYPT_ASN1_EOF \in Int /\ KRYPT_ERR \in Int BY DEF KRYPT_ASN1_EOF, KRYPT_ERR
  <2> HIDE DEF n, f, d
  <2> QED BY <1>1, <1>3, <2>1
<1>5. ASSUME n > 1, d <= LONG_MAX
      PROVE  ~(DigitsOf(f) > SUB_ID_LIMIT_PARSE)
  <2> DEFINE m == n - 2
             y == p[m + 1]
             x == p[n]
             g == SubSeq(p, 1, m + 1)
  <2>1. m \in Nat /\ m + 1 \in Nat /\ m + 1 <= n /\ (m + 1) + 1 <= n /\ (m + 1) + 1 = n
    BY <1>2, <1>5
  <2>2. f \in Seq(Octet) /\ g = Append(f, y)
    <3>1. n = Len(p) /\ f = SubSeq(p, 1, m) OBVIOUS
    <3> HIDE DEF n, m, f
    <3> QED BY <2>1, <3>1, LastOf
  <2>3. g \in Seq(Octet) /\ p = Append(g, x)
    <3> DEFINE k == m + 1
    <3>1. n = Len(p) /\ g = SubSeq(p, 1, k) /\ k \in Nat /\ k + 1 <= n /\ k + 1 = n BY <2>1
    <3> HIDE DEF k, n, m, g
    <3>2. SubSeq(p, 1, k) \in Seq(Octet) /\ SubSeq(p, 1, k + 1) = Append(SubSeq(p, 1, k), p[k + 1])
      BY <3>1, LastOf
    <3>3. SubSeq(p, 1, n) = p BY <3>1, WholeSeq
    <3> QED BY <3>1, <3>2, <3>3
  <2>4. x \in Octet /\ y \in Octet
    <3>1. n \in 1..Len(p) /\ m + 1 \in 1..Len(p) BY <2>1
    <3> QED BY <3>1, ElementOfSeq
  <2> HIDE DEF f, g, x, y, m, n, d
  <2>5. DigitsOf(g) = DigitsOf(f) * DigitBase + (y % DigitBase) /\ y % DigitBase \in Nat /\ DigitsOf(f) \in Nat
    BY <2>2, <2>4, DigitsOfAppend, DigitsOfNat
  <2>6. DigitsOf(p) = DigitsOf(g) * DigitBase + (x % DigitBase) /\ x % DigitBase \in Nat /\ DigitsOf(g) \in Nat
    BY <2>3, <2>4, DigitsOfAppend, DigitsOfNat
  <2>7. DigitBase \in Nat \ {0} BY Bases DEF DigitBase, SignBit
  <2> DEFINE b == DigitBase
             u == DigitsOf(f)
             v == DigitsOf(g)
             y1 == y % b
             x1 == x % b
             q == LONG_MAX \div b
             r == LONG_MAX % b
  <2>8. v = u * b + y1 /\ d = v * b + x1
    <3>1. v = u * b + y1 BY <2>5, Zenon
    <3>2. d = v * b + x1 BY <2>6, Zenon DEF d
    <3> QED BY <3>1, <3>2
  <2>9. /\ y1 \in Nat /\ x1 \in Nat /\ u \in Nat /\ v \in Nat
        /\ b \in Nat \ {0} /\ LONG_MAX \in Nat /\ LONG_MAX \in Int BY <2>5, <2>6, <2>7, LongWidth
  <2>10. \A m1 \in Int : /\ m1 \div b \in Int /\ m1 % b \in 0..(b - 1)
                         /\ m1 = (m1 \div b) * b + (m1 % b)
    <3> HIDE DEF b
    <3> QED BY <2>9, Division
  <2>11. q \in Int /\ r \in 0..(b - 1) /\ LONG_MAX = q * b + r BY <2>9, <2>10
  <2> HIDE DEF u, v, b, q, r, x1, y1
  <2>12. u * b \in Nat /\ v * b \in Nat /\ q * b \in Int
    <3>1. \A i, j \in Nat : i * j \in Nat OBVIOUS
    <3>2. \A i, j \in Int : i * j \in Int OBVIOUS
    <3>3. b \in Nat /\ b \in Int BY <2>9
    <3> QED BY <2>9, <2>11, <3>1, <3>2, <3>3
  <2>13. v >= u * b BY <2>8, <2>9, <2>12
  <2>14. v * b >= v
    <3>1. b - 1 \in Nat /\ \A i, j \in Nat : i * j \in Nat BY <2>9
    <3>2. v * (b - 1) \in Nat BY <2>9, <3>1
    <3>3. v * b = v * (b - 1) + v BY <2>9
    <3> QED BY <2>9, <2>12, <3>2, <3>3
  <2>15. d \in Nat /\ d <= LONG_MAX BY <1>2, <1>5
  <2>16. u * b <= LONG_MAX BY <2>8, <2>9, <2>12, <2>13, <2>14, <2>15
  <2>17. u <= q
    <3> SUFFICES ASSUME u >= q + 1 PROVE FALSE BY <2>9, <2>11
    <3>1. u - (q + 1) \in Nat BY <2>9, <2>11
    <3>2. (u - (q + 1)) * b \in Nat BY <2>9, <3>1
    <3>3. (u - (q + 1)) * b = u * b - (q * b + b) BY <2>9, <2>11
    <3> QED BY <2>9, <2>11, <2>12, <2>16, <3>2, <3>3
  <2>18. ~(u > q) BY <2>9, <2>11, <2>17
  <2> QED BY <2>18 DEF u, q, b, SUB_ID_LIMIT_PARSE
<1>6. ASSUME p # <<>>, IsClosed(p), d <= LONG_MAX
      PROVE  int_parse_sub_id(p) = d
  <2>1. ~(p[n] >= SignBit)
    <3>1. p[n] < SignBit BY <1>6 DEF IsClosed
    <3>2. p[n] \in Int /\ SignBit \in Int
      <4>1. n \in 1..Len(p) BY <1>2, <1>6, EmptySeq
      <4>2. p[n] \in Octet BY <4>1, ElementOfSeq
      <4>3. p[n] \in Int BY <4>2, Octets
      <4>4. SignBit \in Int BY Bases
      <4> QED BY <4>3, <4>4
    <3> QED BY <3>1, <3>2
  <2> HIDE DEF n, f, d
  <2>2. int_parse_sub_id(p) = Signed(d, LONG_BITS) BY <1>1, <1>5, <1>6, <2>1
  <2> QED BY <1>3, <1>6, <2>2
<1> QED BY <1>4, <1>6

LEMMA TailOf ==
  ASSUME NEW A, NEW s \in Seq(A), s # <<>>
  PROVE  /\ Tail(s) \in Seq(A) /\ Len(Tail(s)) = Len(s) - 1 /\ Len(s) \in Nat \ {0}
         /\ \A i \in 1..(Len(s) - 1) : Tail(s)[i] = s[i + 1]
         /\ Head(s) = s[1] /\ s[1] \in A
<1>1. Len(s) \in Nat \ {0} /\ s[1] \in A BY FirstOfSeq
<1> QED BY <1>1

\* The numbers of an OBJECT IDENTIFIER behind two of them.
LEMMA TwoAndMore ==
  ASSUME NEW A, NEW a \in A, NEW b \in A, NEW s \in Seq(A)
  PROVE  /\ <<a, b>> \o s \in Seq(A) /\ Len(<<a, b>> \o s) = Len(s) + 2 /\ Len(s) \in Nat
         /\ (<<a, b>> \o s)[1] = a /\ (<<a, b>> \o s)[2] = b
         /\ \A i \in 1..Len(s) : (<<a, b>> \o s)[i + 2] = s[i]
<1> DEFINE t == <<a, b>>
<1>1. t \in Seq(A) /\ Len(t) = 2 /\ t[1] = a /\ t[2] = b OBVIOUS
<1> HIDE DEF t
<1>2. /\ t \o s \in Seq(A) /\ Len(s) \in Nat /\ Len(t \o s) = Len(t) + Len(s)
      /\ \A i \in 1..Len(t) : (t \o s)[i] = t[i]
      /\ \A i \in 1..Len(s) : (t \o s)[Len(t) + i] = s[i]
  <2>1. t \in Seq(A) /\ s \in Seq(A) BY <1>1
  <2>2. t \o s \in Seq(A) /\ IsConcat(t \o s, t, s) BY <2>1, ConcatIs
  <2> QED BY <2>1, <2>2 DEF IsConcat
<1>3. 1 \in 1..2 /\ 2 \in 1..2 /\ \A i \in 1..Len(s) : 2 + i = i + 2 OBVIOUS
<1>4. /\ t \o s \in Seq(A) /\ Len(t \o s) = Len(s) + 2 /\ Len(s) \in Nat
      /\ (t \o s)[1] = a /\ (t \o s)[2] = b
      /\ \A i \in 1..Len(s) : (t \o s)[i + 2] = s[i] BY <1>1, <1>2, <1>3
<1> QED BY <1>4 DEF t

\* The numbers in the pieces of octets.
Numbers(o) == [i \in DOMAIN SubIds(o) |-> DigitsOf(SubIds(o)[i])]

\* What the parser makes of the pieces.
ParsedSubIds(o) ==
  LET pieces == Append(SubIds(o), <<>>)
  IN  [i \in DOMAIN pieces |-> int_parse_sub_id(pieces[i])]

LEMMA NumbersAre ==
  ASSUME NEW o \in Seq(Octet)
  PROVE  /\ Numbers(o) \in Seq(Nat) /\ Len(Numbers(o)) = Len(SubIds(o)) /\ Len(SubIds(o)) \in Nat
         /\ \A i \in 1..Len(SubIds(o)) : SubIds(o)[i] \in Seq(Octet) /\ Numbers(o)[i] = DigitsOf(SubIds(o)[i])
         /\ IsEnded(ParsedSubIds(o), Len(SubIds(o)))
         /\ \A i \in 1..Len(SubIds(o)) : ParsedSubIds(o)[i] = int_parse_sub_id(SubIds(o)[i])
<1> DEFINE ps == SubIds(o)
           k == Len(ps)
           A == Seq(Octet)
           more == Append(ps, <<>>)
           L == ParsedSubIds(o)
           N == Numbers(o)
<1>1. ps \in Seq(A) BY SubIdsAreCut DEF AreCut, Pieces
<1>2. <<>> \in A /\ \A p \in A : DigitsOf(p) \in Nat /\ int_parse_sub_id(p) \in Int
  BY DigitsOfNat, ParsedSubIdIs
<1>3. int_parse_sub_id(<<>>) = KRYPT_ASN1_EOF BY DEF int_parse_sub_id
<1>4. L = [i \in DOMAIN more |-> int_parse_sub_id(more[i])] BY Zenon DEF ParsedSubIds
<1>5. N = [i \in DOMAIN ps |-> DigitsOf(ps[i])] BY Zenon DEF Numbers
<1> HIDE DEF ps, A, L, N
<1>6. k \in Nat /\ DOMAIN ps = 1..k /\ \A i \in 1..k : ps[i] \in A BY <1>1, ElementOfSeq
<1>7. /\ Len(more) = k + 1 /\ DOMAIN more = 1..(k + 1) /\ more[k + 1] = <<>>
      /\ \A i \in 1..k : more[i] = ps[i]
  <2> DEFINE e == <<>>
  <2>1. e \in A BY <1>2
  <2> HIDE DEF e
  <2>2. /\ Append(ps, e) \in Seq(A) /\ Len(Append(ps, e)) = k + 1 /\ Append(ps, e)[k + 1] = e
        /\ \A i \in 1..k : Append(ps, e)[i] = ps[i] BY <1>1, <2>1, EndOfAppend
  <2>3. DOMAIN Append(ps, e) = 1..(k + 1) BY <2>2
  <2> QED BY <2>2, <2>3 DEF e
<1> HIDE DEF more, k
<1>8. IsList(N, k, Nat) /\ \A i \in 1..k : N[i] = DigitsOf(ps[i]) BY <1>2, <1>5, <1>6 DEF IsList
<1>9. N \in Seq(Nat) /\ Len(N) = k BY <1>6, <1>8, SeqFacts
<1>10. \A i \in 1..k : i \in 1..(k + 1) /\ L[i] = int_parse_sub_id(ps[i]) BY <1>4, <1>6, <1>7
<1>11. k + 1 \in 1..(k + 1) /\ L[k + 1] = KRYPT_ASN1_EOF /\ KRYPT_ASN1_EOF \in Int
  BY <1>3, <1>4, <1>6, <1>7 DEF KRYPT_ASN1_EOF
<1>12. \A i \in 1..(k + 1) : i \in 1..k \/ i = k + 1 BY <1>6
<1>13. \A i \in 1..(k + 1) : L[i] \in Int BY <1>2, <1>6, <1>10, <1>11, <1>12
<1>14. L = [i \in 1..(k + 1) |-> L[i]] BY <1>4, <1>7
<1>15. IsEnded(L, k) BY <1>11, <1>13, <1>14 DEF IsEnded, IsList
<1> QED BY <1>6, <1>8, <1>9, <1>10, <1>15 DEF ps, k, L, N, A

DecodedNumbers(subs) ==
  IF ~subs.ok THEN Failed
  ELSE IF subs.value = <<>> THEN Failed
  ELSE IF Head(subs.value) > 40 * 2 + 39 THEN Failed
  ELSE Ok(<<Head(subs.value) \div 40, Head(subs.value) % 40>> \o Tail(subs.value))

LEMMA DecodedBy ==
  ASSUME NEW o
  PROVE  int_decode_object_id(o) = DecodedNumbers(UpToEnd(ParsedSubIds(o)))
  BY Zenon DEF int_decode_object_id, ParsedSubIds, DecodedNumbers

\* What is decoded is numbers.
LEMMA DecodedAreNumbers ==
  ASSUME NEW o \in Seq(Octet), NEW r, r = int_decode_object_id(o), r.ok
  PROVE  r = Ok(r.value) /\ r.value \in Seq(Nat)
<1> DEFINE subs == UpToEnd(ParsedSubIds(o))
           s == subs.value
           h == Head(s)
           a == h \div 40
           b == h % 40
           t == <<a, b>> \o Tail(s)
<1>1. r = IF ~subs.ok THEN Failed ELSE IF s = <<>> THEN Failed
          ELSE IF h > 40 * 2 + 39 THEN Failed ELSE Ok(t) BY DecodedBy, Zenon DEF DecodedNumbers
<1>2. ~Failed.ok BY DEF Failed
<1> HIDE DEF t, h, subs
<1>3. subs.ok /\ s # <<>> /\ r = Ok(t) BY <1>1, <1>2
<1>4. s \in Seq(Nat)
  <2>1. IsEnded(ParsedSubIds(o), Len(SubIds(o))) /\ Len(SubIds(o)) \in Nat BY NumbersAre
  <2>2. subs.value \in Seq(Nat) BY <1>3, <2>1, TakenAreNumbers DEF subs
  <2> QED BY <2>2
<1> HIDE DEF s
<1>5. h \in Nat /\ Tail(s) \in Seq(Nat) BY <1>3, <1>4, TailOf DEF h
<1>6. a \in Nat /\ b \in Nat BY <1>5
<1> HIDE DEF a, b
<1>7. t \in Seq(Nat) BY <1>5, <1>6, TwoAndMore DEF t
<1>8. r.value = t BY <1>3 DEF Ok
<1> QED BY <1>3, <1>7, <1>8

\* Octets are decoded to the numbers they mean.
LEMMA MeaningIsDecoded ==
  ASSUME NEW o \in Seq(Octet), o # <<>>, IsClosed(o), NEW nums, nums = SubIdMeanings(o),
         nums[1] <= 2, FitLong(nums)
  PROVE  int_decode_object_id(o) = Ok(nums)
<1> DEFINE ps == SubIds(o)
           k == Len(ps)
           N == Numbers(o)
           L == ParsedSubIds(o)
           h == N[1]
           a == h \div 40
           b == h % 40
<1>1. nums = <<a, b>> \o Tail(N) BY Zenon DEF SubIdMeanings, Numbers
<1>2. /\ N \in Seq(Nat) /\ Len(N) = k /\ k \in Nat
      /\ \A i \in 1..k : ps[i] \in Seq(Octet) /\ N[i] = DigitsOf(ps[i])
      /\ IsEnded(L, k)
      /\ \A i \in 1..k : L[i] = int_parse_sub_id(ps[i]) BY NumbersAre
<1>3. /\ \A i \in 1..k : ps[i] # <<>>
      /\ \A i \in 1..(k - 1) : IsClosed(ps[i])
      /\ ps # <<>> /\ ps[k][Len(ps[k])] = o[Len(o)]
      /\ ps \in Seq(Seq(Octet)) BY SubIdsAreCut DEF AreCut, Pieces
<1>4. k # 0
  <2> DEFINE A == Seq(Octet)
  <2>1. ps \in Seq(A) /\ ps # <<>> BY <1>3
  <2> HIDE DEF A, ps
  <2> QED BY <2>1, EmptySeq
<1>5. \A i \in 1..k : IsClosed(ps[i])
  <2>1. IsClosed(ps[k]) BY <1>3 DEF IsClosed
  <2>2. \A i \in 1..k : i \in 1..(k - 1) \/ i = k BY <1>2
  <2> QED BY <1>3, <2>1, <2>2
<1> HIDE DEF N, L, ps, k
<1>6. N # <<>>
  <2>1. Len(N) # 0 BY <1>2, <1>4
  <2> QED BY <1>2, <2>1, EmptySeq
<1>7. /\ Tail(N) \in Seq(Nat) /\ Len(Tail(N)) = k - 1 /\ Head(N) = h /\ h \in Nat
      /\ \A i \in 1..(k - 1) : Tail(N)[i] = N[i + 1] BY <1>2, <1>6, TailOf
<1> HIDE DEF h
<1>8. a \in Nat /\ b \in 0..39 /\ h = 40 * a + b BY <1>7
<1> HIDE DEF a, b
<1>9. /\ Len(nums) = (k - 1) + 2 /\ nums \in Seq(Nat)
      /\ nums[1] = a /\ nums[2] = b
      /\ \A i \in 1..(k - 1) : nums[i + 2] = Tail(N)[i]
  <2>1. b \in Nat BY <1>8
  <2> DEFINE t == Tail(N)
  <2>2. t \in Seq(Nat) /\ Len(t) = k - 1 BY <1>7
  <2> HIDE DEF t
  <2>3. nums = <<a, b>> \o t BY <1>1 DEF t
  <2>4. /\ <<a, b>> \o t \in Seq(Nat) /\ Len(<<a, b>> \o t) = Len(t) + 2
        /\ (<<a, b>> \o t)[1] = a /\ (<<a, b>> \o t)[2] = b
        /\ \A i \in 1..Len(t) : (<<a, b>> \o t)[i + 2] = t[i] BY <1>8, <2>1, <2>2, TwoAndMore
  <2>5. /\ nums \in Seq(Nat) /\ Len(nums) = Len(t) + 2
        /\ nums[1] = a /\ nums[2] = b
        /\ \A i \in 1..Len(t) : nums[i + 2] = t[i] BY <2>3, <2>4
  <2> QED BY <2>2, <2>5 DEF t
<1>10. h <= 119 BY <1>8, <1>9
<1>11. ASSUME NEW i \in 1..k
       PROVE  N[i] <= LONG_MAX
  <2>1. CASE i = 1 BY <1>10, <2>1, <1>7, LongWidth DEF h
  <2>2. CASE i # 1
    <3>1. i - 1 \in 1..(k - 1) /\ (i - 1) + 1 = i /\ (i - 1) + 2 = i + 1 /\ i + 1 \in 1..((k - 1) + 2)
      BY <1>2, <2>2
    <3>2. nums[i + 1] = N[i]
      <4>1. nums[(i - 1) + 2] = Tail(N)[i - 1] /\ Tail(N)[i - 1] = N[(i - 1) + 1]
        BY <1>7, <1>9, <3>1
      <4> QED BY <3>1, <4>1
    <3>3. i + 1 \in DOMAIN nums BY <1>9, <3>1
    <3>4. nums[i + 1] \in 0..LONG_MAX BY <3>3 DEF FitLong
    <3> QED BY <3>2, <3>4, LongWidth
  <2> QED BY <2>1, <2>2
<1>12. \A i \in 1..k : L[i] = N[i]
  <2> SUFFICES ASSUME NEW i \in 1..k PROVE L[i] = N[i] OBVIOUS
  <2> DEFINE p == ps[i]
  <2>1. /\ p \in Seq(Octet) /\ p # <<>> /\ IsClosed(p) /\ DigitsOf(p) <= LONG_MAX
        /\ L[i] = int_parse_sub_id(p) /\ N[i] = DigitsOf(p) BY <1>2, <1>3, <1>5, <1>11
  <2> HIDE DEF p
  <2>2. int_parse_sub_id(p) = DigitsOf(p) BY <2>1, ParsedSubIdIs
  <2> QED BY <2>1, <2>2
<1>13. UpToEnd(L) = Ok(N) BY <1>2, <1>12, AllAreTaken
<1>14. int_decode_object_id(o) = DecodedNumbers(Ok(N)) BY <1>13, DecodedBy DEF L
<1>15. Ok(N).ok /\ Ok(N).value = N BY DEF Ok
<1>16. ~(Head(N) > 40 * 2 + 39) BY <1>7, <1>10
<1>17. DecodedNumbers(Ok(N)) = Ok(<<Head(N) \div 40, Head(N) % 40>> \o Tail(N))
  BY <1>6, <1>15, <1>16, Zenon DEF DecodedNumbers
<1>18. Head(N) = h BY <1>7
<1>19. DecodedNumbers(Ok(N)) = Ok(nums) BY <1>1, <1>17, <1>18, Zenon DEF a, b
<1> QED BY <1>14, <1>19

\* One more octet for a piece that was just begun.
LEMMA ContinuedAppend ==
  ASSUME NEW s \in Pieces, NEW q \in Seq(Octet), NEW x \in Octet
  PROVE  Continued(Append(s, q), x) = Append(s, Append(q, x))
<1> DEFINE A == Seq(Octet)
           t == Append(s, q)
           l == Append(q, x)
           c == Continued(t, x)
           u == Append(s, l)
           n == Len(s)
<1>1. s \in Seq(A) /\ q \in A /\ l \in A BY DEF Pieces
<1> HIDE DEF A
<1>2. /\ t \in Seq(A) /\ t # <<>> /\ Len(t) = n + 1 /\ n \in Nat
      /\ t[n + 1] = q /\ \A i \in 1..n : t[i] = s[i] BY <1>1, EndOfAppend
<1> HIDE DEF l
<1>3. /\ u \in Seq(A) /\ Len(u) = n + 1
      /\ u[n + 1] = l /\ \A i \in 1..n : u[i] = s[i] BY <1>1, EndOfAppend
<1> HIDE DEF t, u, n
<1>4. t \in Pieces BY <1>2 DEF Pieces, A
<1>5. /\ c \in Pieces /\ Len(c) = Len(t)
      /\ \A i \in 1..(Len(t) - 1) : c[i] = t[i]
      /\ c[Len(t)] = Append(t[Len(t)], x) BY <1>2, <1>4, ContinuedIs
<1> HIDE DEF c
<1>6. c \in Seq(A) BY <1>5 DEF Pieces, A
<1>7. (n + 1) - 1 = n BY <1>2
<1>8. /\ Len(c) = n + 1 /\ c[n + 1] = l
      /\ \A i \in 1..n : c[i] = s[i] BY <1>2, <1>5, <1>7 DEF l
<1>9. Len(c) = Len(u) /\ \A i \in 1..Len(c) : c[i] = u[i]
  <2>1. \A i \in 1..(n + 1) : i \in 1..n \/ i = n + 1 BY <1>2
  <2> QED BY <1>3, <1>8, <2>1
<1>10. c = u BY <1>3, <1>6, <1>9, SeqEqual
<1> QED BY <1>10 DEF c, u, t, l

\* Octets that are all, but for the last, marked as continued.
IsOpen(q) == /\ q \in Seq(Octet) /\ q # <<>>
             /\ \A i \in 1..(Len(q) - 1) : q[i] >= SignBit

LEMMA OneMorePiece ==
  ASSUME NEW o \in Seq(Octet), IsClosed(o), NEW q, IsOpen(q)
  PROVE  SubIds(o \o q) = Append(SubIds(o), q)
<1> DEFINE Holds(t) == SubIds(o \o t) = Append(SubIds(o), t)
           S == {n \in Nat : \A t : IsOpen(t) /\ Len(t) = n + 1 => Holds(t)}
<1>1. SubIds(o) \in Pieces BY SubIdsAreCut DEF AreCut
<1>2. 0 \in S
  <2> SUFFICES ASSUME NEW t, IsOpen(t), Len(t) = 0 + 1
               PROVE  Holds(t)
    OBVIOUS
  <2> DEFINE x == t[1]
  <2>1. t \in Seq(Octet) /\ Len(t) = 1 BY DEF IsOpen
  <2>2. x \in Octet /\ t = <<x>>
    <3>1. x \in Octet BY <2>1, ElementOfSeq
    <3>2. <<x>> \in Seq(Octet) /\ Len(<<x>>) = 1 /\ <<x>>[1] = x BY <3>1
    <3>3. \A i \in 1..1 : i = 1 OBVIOUS
    <3> HIDE DEF x
    <3>4. \A i \in 1..Len(t) : t[i] = <<x>>[i] BY <2>1, <3>2, <3>3 DEF x
    <3> QED BY <2>1, <3>1, <3>2, <3>4, SeqEqual
  <2> HIDE DEF x
  <2>3. o \o t = Append(o, x) BY <2>2, ConcatOne
  <2>4. SubIds(Append(o, x)) = Append(SubIds(o), <<x>>) BY <2>2, SubIdsOfAppend
  <2> QED BY <2>2, <2>3, <2>4
<1>3. ASSUME NEW n \in Nat, n \in S
      PROVE  n + 1 \in S
  <2> SUFFICES ASSUME NEW t, IsOpen(t), Len(t) = (n + 1) + 1
               PROVE  Holds(t)
    OBVIOUS
  <2> DEFINE k == n + 1
             f == SubSeq(t, 1, k)
             x == t[k + 1]
             g == o \o f
  <2>1. t \in Seq(Octet) /\ k \in Nat \ {0} /\ k \in Nat /\ Len(t) = k + 1
        /\ \A i \in 1..k : t[i] >= SignBit
    <3>1. (k + 1) - 1 = k OBVIOUS
    <3> QED BY <3>1 DEF IsOpen
  <2> HIDE DEF k
  <2>2. /\ f \in Seq(Octet) /\ Len(f) = k
        /\ SubSeq(t, 1, k + 1) = Append(f, x)
        /\ \A i \in 1..k : f[i] = t[i] BY <2>1, LastOf, FrontIs
  <2>3. t = Append(f, x) /\ x \in Octet BY <2>1, <2>2, WholeSeq, ElementOfSeq
  <2> HIDE DEF f, x
  <2>4. f # <<>> /\ Octet \subseteq Int BY <2>1, <2>2, EmptySeq, Octets
  <2>5. IsOpen(f)
    <3>1. \A i \in 1..(k - 1) : i \in 1..k BY <2>1
    <3> QED BY <2>1, <2>2, <2>4, <3>1 DEF IsOpen
  <2>6. SubIds(g) = Append(SubIds(o), f)
    <3>1. Holds(f)
      <4> HIDE DEF Holds
      <4> QED BY <1>3, <2>2, <2>5 DEF k
    <3> QED BY <3>1
  <2>7. g \in Seq(Octet) /\ Len(g) = Len(o) + k /\ Len(o) \in Nat /\ g[Len(o) + k] = f[k]
    <3>1. g \in Seq(Octet) /\ IsConcat(g, o, f) /\ Len(o) \in Nat BY <2>2, ConcatIs
    <3>2. k \in 1..k BY <2>1
    <3> QED BY <2>2, <3>1, <3>2 DEF IsConcat
  <2>8. o \o t = Append(g, x) BY <2>2, <2>3, ConcatOfAppend
  <2> HIDE DEF g
  <2>9. ~IsClosed(g)
    <3>1. g # <<>> BY <2>1, <2>7, EmptySeq
    <3>2. f[k] = t[k] /\ t[k] >= SignBit /\ k \in 1..k BY <2>1, <2>2
    <3>3. g[Len(g)] = t[k] /\ t[k] \in Int /\ SignBit \in Int
      <4>1. k \in 1..(k + 1) BY <2>1
      <4>2. t[k] \in Octet BY <2>1, <4>1, ElementOfSeq
      <4>3. t[k] \in Int BY <2>4, <4>2
      <4>4. SignBit \in Int BY Bases
      <4>5. g[Len(g)] = t[k] BY <2>7, <3>2
      <4> QED BY <4>3, <4>4, <4>5
    <3>4. ~(t[k] < SignBit) BY <3>2, <3>3
    <3> QED BY <3>1, <3>3, <3>4 DEF IsClosed
  <2>10. SubIds(Append(g, x)) = Continued(SubIds(g), x) BY <2>3, <2>7, <2>9, SubIdsOfAppend
  <2>11. Continued(Append(SubIds(o), f), x) = Append(SubIds(o), Append(f, x))
    BY <1>1, <2>2, <2>3, ContinuedAppend
  <2> QED BY <2>3, <2>6, <2>8, <2>10, <2>11
<1>4. Nat \subseteq S
  <2> HIDE DEF S
  <2> QED BY <1>2, <1>3, StepInduction
<1>5. q \in Seq(Octet) /\ Len(q) \in Nat \ {0} BY EmptySeq DEF IsOpen
<1> DEFINE m == Len(q) - 1
<1>6. m \in Nat /\ Len(q) = m + 1 BY <1>5
<1>7. m \in S
  <2> HIDE DEF S, m
  <2> QED BY <1>4, <1>6
<1> HIDE DEF m
<1> QED BY <1>6, <1>7

LEMMA ClosedBehind ==
  ASSUME NEW o \in Seq(Octet), NEW p, IsSubId(p)
  PROVE  IsOpen(p) /\ o \o p \in Seq(Octet) /\ o \o p # <<>> /\ IsClosed(o \o p)
<1> DEFINE k == Len(p)
           g == o \o p
<1>1. p \in Seq(Octet) /\ k \in Nat \ {0} /\ p[k] < SignBit
      /\ \A i \in 1..(k - 1) : p[i] >= SignBit BY DEF IsSubId
<1>2. g \in Seq(Octet) /\ IsConcat(g, o, p) /\ Len(o) \in Nat BY <1>1, ConcatIs
<1>3. k \in 1..k /\ p # <<>> BY <1>1, EmptySeq
<1>4. Len(g) = Len(o) + k /\ g[Len(o) + k] = p[k] BY <1>2, <1>3 DEF IsConcat
<1> HIDE DEF g
<1>5. g # <<>>
  <2>1. Len(g) # 0 BY <1>1, <1>2, <1>4
  <2> QED BY <2>1, EmptySeq
<1>6. IsClosed(g) BY <1>1, <1>4 DEF IsClosed
<1>7. IsOpen(p) BY <1>1, <1>3 DEF IsOpen
<1> QED BY <1>2, <1>5, <1>6, <1>7 DEF g

AllSubIds(ps) == ps \in Pieces /\ \A i \in 1..Len(ps) : IsSubId(ps[i])

\* Numbers that are written one behind the other are told apart again.
LEMMA SubIdsOfPieces ==
  ASSUME NEW ps, AllSubIds(ps)
  PROVE  /\ FlattenSeq(ps) \in Seq(Octet) /\ IsClosed(FlattenSeq(ps))
         /\ SubIds(FlattenSeq(ps)) = ps
         /\ ps # <<>> => FlattenSeq(ps) # <<>>
<1> DEFINE A == Seq(Octet)
           Holds(t) == /\ FlattenSeq(t) \in Seq(Octet) /\ IsClosed(FlattenSeq(t))
                       /\ SubIds(FlattenSeq(t)) = t
                       /\ t # <<>> => FlattenSeq(t) # <<>>
           S == {n \in Nat : \A t : AllSubIds(t) /\ Len(t) = n => Holds(t)}
<1>1. 0 \in S
  <2>1. \A t \in Seq(A) : Len(t) = 0 => t = <<>>
    <3> HIDE DEF A
    <3> QED BY EmptySeq
  <2>2. Holds(<<>>)
    <3>1. <<>> \in Seq(Octet) BY EmptySeq
    <3> QED BY <3>1, FlattenOfNothing, SubIdsOfNothing DEF IsClosed
  <2> HIDE DEF Holds
  <2> QED BY <2>1, <2>2 DEF AllSubIds, Pieces
<1>2. ASSUME NEW n \in Nat, n \in S
      PROVE  n + 1 \in S
  <2> SUFFICES ASSUME NEW t, AllSubIds(t), Len(t) = n + 1
               PROVE  Holds(t)
    OBVIOUS
  <2> DEFINE f == SubSeq(t, 1, n)
             p == t[n + 1]
             o == FlattenSeq(f)
  <2>1. t \in Seq(A) /\ n + 1 \in 1..Len(t) BY DEF AllSubIds, Pieces
  <2> HIDE DEF A
  <2>2. /\ f \in Seq(A) /\ Len(f) = n
        /\ SubSeq(t, 1, n + 1) = Append(f, p)
        /\ \A i \in 1..n : f[i] = t[i] BY <2>1, LastOf, FrontIs
  <2>3. t = Append(f, p) /\ p \in A BY <2>1, <2>2, WholeSeq, ElementOfSeq
  <2> HIDE DEF f
  <2>4. AllSubIds(f) /\ IsSubId(p)
    <3>1. \A i \in 1..n : i \in 1..(n + 1) OBVIOUS
    <3>2. \A i \in 1..(n + 1) : IsSubId(t[i]) BY DEF AllSubIds
    <3>3. \A i \in 1..n : IsSubId(f[i]) BY <2>2, <3>1, <3>2
    <3> QED BY <2>2, <3>2, <3>3 DEF AllSubIds, Pieces, A
  <2> HIDE DEF p
  <2>5. Holds(f)
    <3> HIDE DEF Holds
    <3> QED BY <1>2, <2>2, <2>4
  <2>6. FlattenSeq(t) = o \o p BY <2>2, <2>3, FlattenOfAppend DEF A
  <2>7. o \in Seq(Octet) /\ IsClosed(o) /\ SubIds(o) = f BY <2>5
  <2> HIDE DEF o, Holds
  <2>8. IsOpen(p) /\ o \o p \in Seq(Octet) /\ o \o p # <<>> /\ IsClosed(o \o p)
    BY <2>4, <2>7, ClosedBehind
  <2>9. SubIds(o \o p) = Append(SubIds(o), p) BY <2>7, <2>8, OneMorePiece
  <2>10. SubIds(o \o p) = t BY <2>3, <2>7, <2>9
  <2> QED BY <2>6, <2>8, <2>10 DEF Holds
<1>3. Nat \subseteq S
  <2> HIDE DEF S
  <2> QED BY <1>1, <1>2, StepInduction
<1>4. Len(ps) \in S
  <2>1. ps \in Seq(A) BY DEF AllSubIds, Pieces
  <2>2. Len(ps) \in Nat
    <3> HIDE DEF A
    <3> QED BY <2>1
  <2> HIDE DEF S
  <2> QED BY <1>3, <2>2
<1> HIDE DEF Holds
<1>5. Holds(ps) BY <1>4
<1> QED BY <1>5 DEF Holds

----------------------------------------------------------------------------
(* OBJECT IDENTIFIER: what is written means the numbers *)

Long == 0..LONG_MAX

\* Numbers that can be written.
IsWritable(s) == s \in Seq(Long) /\ Len(s) >= 2 /\ s[1] <= 2 /\ s[2] <= 39

Combined(s) == <<40 * s[1] + s[2]>> \o SubSeq(s, 3, Len(s))

WrittenLongs(t) == [i \in DOMAIN t |-> int_write_long(t[i])]

LEMMA CombinedIs ==
  ASSUME NEW s, IsWritable(s)
  PROVE  /\ Combined(s) \in Seq(Long) /\ Len(Combined(s)) = Len(s) - 1 /\ Len(s) \in Nat
         /\ Combined(s)[1] = 40 * s[1] + s[2]
         /\ \A i \in 2..(Len(s) - 1) : Combined(s)[i] = s[i + 1]
<1> DEFINE c == 40 * s[1] + s[2]
           h == <<c>>
           n == Len(s)
           r == SubSeq(s, 3, n)
           u == h \o r
<1>1. s \in Seq(Long) /\ n \in Nat /\ n >= 2 /\ 1 \in 1..n /\ 2 \in 1..n BY DEF IsWritable
<1>2. c \in Long
  <2> DEFINE x == s[1]
             y == s[2]
  <2>1. x \in Long /\ y \in Long /\ x <= 2 /\ y <= 39 BY <1>1, ElementOfSeq DEF IsWritable
  <2> HIDE DEF x, y
  <2>2. x \in 0..2 /\ y \in 0..39 BY <2>1, LongWidth DEF Long
  <2>3. 40 * x + y \in 0..119 BY <2>2
  <2>4. 40 * x + y \in Long BY <2>3, LongWidth DEF Long
  <2> QED BY <2>4 DEF x, y
<1> HIDE DEF c
<1>3. h \in Seq(Long) /\ Len(h) = 1 /\ h[1] = c BY <1>2
<1> HIDE DEF h, n
<1>4. r \in Seq(Long) /\ Len(r) = n - 2 /\ \A i \in 1..(n - 2) : r[i] = s[i + 2]
  <2>1. \A i \in 3..n : i \in 1..n BY <1>1
  <2>2. \A i \in 3..n : s[i] \in Long BY <1>1, <2>1, ElementOfSeq DEF n
  <2>3. 3 \in Int /\ n \in Int BY <1>1
  <2> DEFINE three == 3
  <2>4. three \in Int /\ \A i \in three..n : s[i] \in Long BY <2>2
  <2> HIDE DEF three
  <2>5. /\ SubSeq(s, three, n) \in Seq(Long)
        /\ Len(SubSeq(s, three, n)) = IF three <= n THEN n - three + 1 ELSE 0
        /\ \A i \in 1..(n - three + 1) : SubSeq(s, three, n)[i] = s[three + i - 1]
    BY <2>3, <2>4, SubSeqProperties
  <2>6. r \in Seq(Long) /\ Len(r) = (IF 3 <= n THEN n - 3 + 1 ELSE 0)
        /\ \A i \in 1..(n - 3 + 1) : r[i] = s[3 + i - 1] BY <2>5 DEF three
  <2> HIDE DEF r
  <2>7. n - 3 + 1 = n - 2 /\ (IF 3 <= n THEN n - 3 + 1 ELSE 0) = n - 2 BY <1>1
  <2>8. \A i \in 1..(n - 2) : 3 + i - 1 = i + 2 BY <1>1
  <2> QED BY <2>6, <2>7, <2>8
<1> HIDE DEF r
<1>5. u \in Seq(Long) /\ IsConcat(u, h, r) BY <1>3, <1>4, ConcatIs
<1>6. Combined(s) = u BY Zenon DEF Combined, u, h, r, c, n
<1> HIDE DEF u
<1>7. Len(u) = n - 1 /\ u[1] = c
  <2>1. Len(u) = 1 + (n - 2) /\ \A i \in 1..1 : u[i] = h[i] BY <1>3, <1>4, <1>5 DEF IsConcat
  <2>2. 1 + (n - 2) = n - 1 /\ 1 \in 1..1 BY <1>1
  <2> QED BY <1>3, <2>1, <2>2
<1>8. ASSUME NEW i \in 2..(n - 1)
      PROVE  u[i] = s[i + 1]
  <2>1. i - 1 \in 1..(n - 2) /\ 1 + (i - 1) = i /\ (i - 1) + 2 = i + 1 BY <1>1
  <2>2. \A j \in 1..(n - 2) : u[1 + j] = r[j] BY <1>3, <1>4, <1>5 DEF IsConcat
  <2>3. u[1 + (i - 1)] = r[i - 1] /\ r[i - 1] = s[(i - 1) + 2] BY <1>4, <2>1, <2>2
  <2> QED BY <2>1, <2>3
<1> QED BY <1>1, <1>5, <1>6, <1>7, <1>8 DEF c, n

LEMMA WrittenIs ==
  ASSUME NEW t \in Seq(Long)
  PROVE  /\ AllSubIds(WrittenLongs(t)) /\ Len(WrittenLongs(t)) = Len(t) /\ Len(t) \in Nat
         /\ \A i \in 1..Len(t) : DigitsOf(WrittenLongs(t)[i]) = t[i]
<1> DEFINE n == Len(t)
           w == WrittenLongs(t)
           A == Seq(Octet)
<1>1. n \in Nat /\ DOMAIN t = 1..n /\ \A i \in 1..n : t[i] \in Long BY ElementOfSeq
<1>2. w = [i \in 1..n |-> int_write_long(t[i])] BY <1>1, Zenon DEF WrittenLongs
<1> HIDE DEF w, n
<1>3. \A i \in 1..n : w[i] = int_write_long(t[i]) BY <1>2
<1>4. \A i \in 1..n : IsSubId(w[i]) /\ DigitsOf(w[i]) = t[i]
  BY <1>1, <1>3, LongIsWritten DEF Long
<1>5. \A i \in 1..n : w[i] \in A BY <1>4 DEF IsSubId
<1> HIDE DEF A
<1>6. w = [i \in 1..n |-> w[i]] BY <1>2
<1>7. IsList(w, n, A) BY <1>5, <1>6 DEF IsList
<1>8. w \in Seq(A) /\ Len(w) = n BY <1>1, <1>7, SeqFacts
<1> QED BY <1>1, <1>4, <1>8 DEF n, w, A, AllSubIds, Pieces

LEMMA MeaningOfWritten ==
  ASSUME NEW s, IsWritable(s), NEW o, o = FlattenSeq(WrittenLongs(Combined(s)))
  PROVE  o \in Seq(Octet) /\ o # <<>> /\ IsClosed(o) /\ SubIdMeanings(o) = s
<1> DEFINE c == Combined(s)
           ps == WrittenLongs(c)
           n == Len(s)
           k == Len(c)
           N == Numbers(o)
           a == c[1] \div 40
           b == c[1] % 40
           m == <<a, b>> \o Tail(c)
<1>1. /\ c \in Seq(Long) /\ k = n - 1 /\ n \in Nat
      /\ c[1] = 40 * s[1] + s[2]
      /\ \A i \in 2..(n - 1) : c[i] = s[i + 1] BY CombinedIs
<1>2. s \in Seq(Long) /\ n >= 2 /\ s[1] <= 2 /\ s[2] <= 39 BY DEF IsWritable
<1> HIDE DEF c
<1>3. /\ AllSubIds(ps) /\ Len(ps) = k /\ k \in Nat
      /\ \A i \in 1..k : DigitsOf(ps[i]) = c[i] BY <1>1, WrittenIs
<1> HIDE DEF ps
<1>4. /\ o \in Seq(Octet) /\ IsClosed(o) /\ SubIds(o) = ps
      /\ ps # <<>> => o # <<>> BY <1>3, SubIdsOfPieces DEF ps, c
<1>5. k # 0 /\ ps # <<>> /\ c # <<>>
  <2>1. k # 0 BY <1>1, <1>2
  <2>2. ps # <<>> /\ c # <<>>
    <3>1. Len(<<>>) = 0 BY EmptySeq
    <3> QED BY <1>3, <2>1, <3>1
  <2> QED BY <2>1, <2>2
<1>6. N = c
  <2>1. N \in Seq(Nat) /\ Len(N) = k /\ \A i \in 1..k : N[i] = DigitsOf(ps[i])
    BY <1>3, <1>4, NumbersAre
  <2>2. Long \subseteq Nat BY LongWidth DEF Long
  <2>3. c \in Seq(Nat) BY <1>1, <2>2, SeqMonotonic
  <2> HIDE DEF N
  <2>4. \A i \in 1..Len(N) : N[i] = c[i] BY <1>3, <2>1
  <2> QED BY <2>1, <2>3, <2>4, SeqEqual
<1>7. SubIdMeanings(o) = m
  <2>1. SubIdMeanings(o) = <<N[1] \div 40, N[1] % 40>> \o Tail(N)
    BY Zenon DEF SubIdMeanings, Numbers
  <2> QED BY <1>6, <2>1
<1>8. a = s[1] /\ b = s[2] /\ a \in Long /\ b \in Long
  <2> DEFINE x == s[1]
             y == s[2]
  <2>1. x \in Long /\ y \in Long /\ x <= 2 /\ y <= 39
    <3>1. 1 \in 1..n /\ 2 \in 1..n BY <1>1, <1>2
    <3> QED BY <1>2, <3>1, ElementOfSeq
  <2>2. c[1] = 40 * x + y BY <1>1
  <2> HIDE DEF x, y
  <2>3. x \in 0..2 /\ y \in 0..39 BY <2>1, LongWidth DEF Long
  <2>4. (40 * x + y) \div 40 = x /\ (40 * x + y) % 40 = y BY <2>3
  <2> QED BY <2>1, <2>2, <2>4 DEF x, y
<1> HIDE DEF a, b, k, n
<1>9. /\ Tail(c) \in Seq(Long) /\ Len(Tail(c)) = k - 1
      /\ \A i \in 1..(k - 1) : Tail(c)[i] = c[i + 1] BY <1>1, <1>5, TailOf DEF k
<1> DEFINE t == Tail(c)
<1> HIDE DEF t
<1>10. /\ m \in Seq(Long) /\ Len(m) = Len(t) + 2
       /\ m[1] = a /\ m[2] = b
       /\ \A i \in 1..Len(t) : m[i + 2] = t[i]
  <2>1. t \in Seq(Long) BY <1>9 DEF t
  <2>2. m = <<a, b>> \o t BY DEF t
  <2> HIDE DEF m
  <2> QED BY <1>8, <2>1, <2>2, TwoAndMore
<1> HIDE DEF m
<1>11. Len(m) = n
  <2>1. Len(t) = k - 1 BY <1>9 DEF t
  <2>2. (n - 1) - 1 + 2 = n BY <1>1
  <2>3. k = n - 1 BY <1>1 DEF k, n
  <2> QED BY <1>10, <2>1, <2>2, <2>3
<1>12. ASSUME NEW i \in 1..n
       PROVE  m[i] = s[i]
  <2>1. CASE i = 1 BY <1>8, <1>10, <2>1
  <2>2. CASE i = 2 BY <1>8, <1>10, <2>2
  <2>3. CASE i # 1 /\ i # 2
    <3> DEFINE j == i - 2
    <3>1. j \in 1..(k - 1) /\ j + 2 = i /\ j + 1 \in 2..(n - 1) /\ (j + 1) + 1 = i
      BY <1>1, <1>2, <2>3 DEF k, n
    <3> HIDE DEF j
    <3>2. m[j + 2] = t[j]
      <4>1. Len(t) = k - 1 BY <1>9 DEF t
      <4> QED BY <1>10, <3>1, <4>1
    <3>3. t[j] = c[j + 1] BY <1>9, <3>1 DEF t
    <3>4. c[j + 1] = s[(j + 1) + 1] BY <1>1, <3>1 DEF n
    <3> QED BY <3>1, <3>2, <3>3, <3>4
  <2> QED BY <2>1, <2>2, <2>3
<1>13. m = s BY <1>2, <1>10, <1>11, <1>12, SeqEqual DEF n
<1> QED BY <1>4, <1>5, <1>7, <1>13

----------------------------------------------------------------------------
(* OBJECT IDENTIFIER: the text is read *)

\* What is between the dots of a text.
Text == Nat \cup {Malformed}

ReadSubIds(text) == [i \in 1..Len(text) + 1 |-> int_get_sub_id(text, i)]

LEMMA SubIdIsRead ==
  ASSUME NEW text \in Seq(Text), NEW i \in 1..(Len(text) + 1)
  PROVE  /\ int_get_sub_id(text, i) \in Int /\ int_get_sub_id(text, i) <= LONG_MAX
         /\ i = Len(text) + 1 => int_get_sub_id(text, i) = KRYPT_ASN1_EOF
         /\ i \in 1..Len(text) /\ text[i] \in Long => int_get_sub_id(text, i) = text[i]
<1> DEFINE n == Len(text)
           x == text[i]
           v == int_get_sub_id(text, i)
           w == Signed(x, LONG_BITS)
<1>1. v = IF i > n THEN KRYPT_ASN1_EOF
          ELSE IF x = Malformed \/ x \div 10 > SUB_ID_LIMIT_ENCODE THEN KRYPT_ERR
          ELSE w BY DEF int_get_sub_id
<1>2. n \in Nat /\ i \in Nat OBVIOUS
<1>3. /\ KRYPT_ASN1_EOF \in Int /\ KRYPT_ASN1_EOF < 0
      /\ KRYPT_ERR \in Int /\ KRYPT_ERR < 0 BY DEF KRYPT_ASN1_EOF, KRYPT_ERR
<1> DEFINE h == 2^(LONG_BITS - 1)
<1>4. LONG_MAX \in Nat /\ h \in Nat /\ LONG_MAX = h - 1 /\ LONG_BITS \in Nat \ {0} BY LongWidth
<1>5. ASSUME i \in 1..n
      PROVE  /\ x \in Int /\ w \in Int /\ w < h
             /\ x >= 0 /\ x < h => w = x
  <2>1. x \in Text BY <1>5, ElementOfSeq
  <2>2. x \in Int BY <2>1 DEF Text, Malformed
  <2> HIDE DEF x, h
  <2>3. /\ Signed(x, LONG_BITS) \in Int /\ Signed(x, LONG_BITS) < 2^(LONG_BITS - 1)
        /\ x >= 0 /\ x < 2^(LONG_BITS - 1) => Signed(x, LONG_BITS) = x BY <1>4, <2>2, SignedIs
  <2> QED BY <2>2, <2>3 DEF h
<1> HIDE DEF v, w, x, h, n
<1>6. i \in 1..n \/ (i = n + 1 /\ i > n) BY <1>2 DEF n
<1>7. v \in Int /\ v <= LONG_MAX
  <2>1. CASE i \in 1..n
    <3>1. ~(i > n) BY <1>2, <2>1 DEF n
    <3>2. v = KRYPT_ERR \/ v = w BY <1>1, <3>1, Zenon
    <3>3. w \in Int /\ w <= LONG_MAX BY <1>4, <1>5, <2>1
    <3>4. KRYPT_ERR \in Int /\ KRYPT_ERR <= LONG_MAX BY <1>3, <1>4
    <3> QED BY <3>2, <3>3, <3>4
  <2>2. CASE i = n + 1 /\ i > n BY <1>1, <1>3, <1>4, <2>2
  <2> QED BY <1>6, <2>1, <2>2
<1>8. ASSUME i = n + 1
      PROVE  v = KRYPT_ASN1_EOF
  <2>1. i > n BY <1>2, <1>8
  <2> QED BY <1>1, <2>1
<1>9. ASSUME i \in 1..n, x \in Long
      PROVE  v = x
  <2>1. x \in Nat /\ x <= LONG_MAX /\ x < h BY <1>4, <1>9 DEF Long
  <2>2. ~(i > n) BY <1>2, <1>9
  <2>3. x # Malformed BY <2>1 DEF Malformed
  <2>4. ~(x \div 10 > SUB_ID_LIMIT_ENCODE)
    <3> DEFINE q == x \div 10
               m == LONG_MAX \div 10
    <3>1. \A y \in Nat : y \div 10 \in Nat /\ 10 * (y \div 10) <= y /\ y < 10 * (y \div 10) + 10
      OBVIOUS
    <3>2. q \in Nat /\ m \in Nat /\ 10 * q <= x /\ LONG_MAX < 10 * m + 10 BY <1>4, <2>1, <3>1
    <3> HIDE DEF q, m
    <3>3. q <= m BY <1>4, <2>1, <3>2
    <3>4. ~(q > m) BY <3>2, <3>3
    <3> QED BY <3>4 DEF q, m, SUB_ID_LIMIT_ENCODE
  <2>5. v = w BY <1>1, <2>2, <2>3, <2>4
  <2> QED BY <1>5, <1>9, <2>1, <2>5
<1> QED BY <1>7, <1>8, <1>9 DEF v, x, n

LEMMA TextIsRead ==
  ASSUME NEW text \in Seq(Text)
  PROVE  /\ IsEnded(ReadSubIds(text), Len(text)) /\ Len(text) \in Nat
         /\ \A i \in 1..(Len(text) + 1) : /\ ReadSubIds(text)[i] \in Int
                                          /\ ReadSubIds(text)[i] <= LONG_MAX
         /\ \A i \in 1..Len(text) : text[i] \in Long => ReadSubIds(text)[i] = text[i]
<1> DEFINE n == Len(text)
           L == ReadSubIds(text)
           k == n + 1
<1>1. n \in Nat /\ k \in 1..k /\ \A i \in 1..n : i \in 1..k OBVIOUS
<1>2. L = [i \in 1..k |-> int_get_sub_id(text, i)] BY DEF ReadSubIds
<1>3. \A i \in 1..k : /\ int_get_sub_id(text, i) \in Int /\ int_get_sub_id(text, i) <= LONG_MAX
                      /\ i = k => int_get_sub_id(text, i) = KRYPT_ASN1_EOF
                      /\ i \in 1..n /\ text[i] \in Long => int_get_sub_id(text, i) = text[i]
  BY SubIdIsRead
<1> HIDE DEF L, n, k
<1>4. \A i \in 1..k : L[i] = int_get_sub_id(text, i) BY <1>2
<1>5. /\ \A i \in 1..k : L[i] \in Int /\ L[i] <= LONG_MAX
      /\ L[k] = KRYPT_ASN1_EOF
      /\ \A i \in 1..n : text[i] \in Long => L[i] = text[i] BY <1>1, <1>3, <1>4
<1>6. L = [i \in 1..k |-> L[i]] BY <1>2
<1>7. IsEnded(L, n)
  <2>1. IsList(L, k, Int) BY <1>5, <1>6 DEF IsList
  <2> QED BY <1>5, <2>1 DEF IsEnded, k
<1> QED BY <1>1, <1>5, <1>7 DEF L, n, k

EncodedSubs(subs) ==
  IF ~subs.ok THEN Failed
  ELSE IF Len(subs.value) < 2 THEN Failed
  ELSE IF subs.value[1] > 2 \/ subs.value[2] > 39 THEN Failed
  ELSE Ok(FlattenSeq(WrittenLongs(Combined(subs.value))))

LEMMA EncodedBy ==
  ASSUME NEW text
  PROVE  int_encode_object_id(text) = EncodedSubs(UpToEnd(ReadSubIds(text)))
  BY Zenon DEF int_encode_object_id, ReadSubIds, EncodedSubs, WrittenLongs, Combined

\* A text of numbers that can be written is written.
LEMMA WritableIsWritten ==
  ASSUME NEW s, IsWritable(s)
  PROVE  int_encode_object_id(s) = Ok(FlattenSeq(WrittenLongs(Combined(s))))
<1> DEFINE L == ReadSubIds(s)
           k == Len(s)
           f == FlattenSeq(WrittenLongs(Combined(s)))
<1>1. s \in Seq(Long) /\ k >= 2 /\ s[1] <= 2 /\ s[2] <= 39 BY DEF IsWritable
<1>2. Long \subseteq Nat /\ Long \subseteq Text BY LongWidth DEF Long, Text
<1>3. s \in Seq(Nat) /\ s \in Seq(Text) BY <1>1, <1>2, SeqMonotonic
<1>4. \A i \in 1..k : s[i] \in Long BY <1>1, ElementOfSeq
<1>5. IsEnded(L, k) /\ k \in Nat /\ \A i \in 1..k : L[i] = s[i] BY <1>3, <1>4, TextIsRead
<1> HIDE DEF L, k
<1>6. UpToEnd(L) = Ok(s) BY <1>3, <1>5, AllAreTaken DEF k
<1>7. int_encode_object_id(s) = EncodedSubs(Ok(s)) BY <1>6, EncodedBy DEF L
<1>8. Ok(s).ok /\ Ok(s).value = s BY DEF Ok
<1>9. ~(Len(s) < 2) BY <1>1, <1>5 DEF k
<1>10. ~(s[1] > 2 \/ s[2] > 39)
  <2>1. 1 \in 1..k /\ 2 \in 1..k BY <1>1, <1>5
  <2>2. s[1] \in Long /\ s[2] \in Long BY <1>4, <2>1
  <2>3. s[1] \in Nat /\ s[2] \in Nat BY <1>2, <2>2
  <2> QED BY <1>1, <2>3
<1> HIDE DEF f
<1>11. EncodedSubs(Ok(s)) = Ok(f) BY <1>8, <1>9, <1>10, Zenon DEF EncodedSubs, f
<1> QED BY <1>7, <1>11 DEF f

\* What is written is numbers that can be written, whatever the text was.
LEMMA EncodedAreWritten ==
  ASSUME NEW text \in Seq(Text), NEW r, r = int_encode_object_id(text), r.ok
  PROVE  \E s : IsWritable(s) /\ r = Ok(FlattenSeq(WrittenLongs(Combined(s))))
<1> DEFINE subs == UpToEnd(ReadSubIds(text))
           s == subs.value
           f == FlattenSeq(WrittenLongs(Combined(s)))
           k == Len(text)
           L == ReadSubIds(text)
<1>1. r = IF ~subs.ok THEN Failed
          ELSE IF Len(s) < 2 THEN Failed
          ELSE IF s[1] > 2 \/ s[2] > 39 THEN Failed
          ELSE Ok(f) BY EncodedBy, Zenon DEF EncodedSubs
<1>2. ~Failed.ok BY DEF Failed
<1> HIDE DEF f
<1>3. subs.ok /\ ~(Len(s) < 2) /\ ~(s[1] > 2) /\ ~(s[2] > 39) /\ r = Ok(f)
  <2> HIDE DEF s, subs
  <2> QED BY <1>1, <1>2
<1>4. /\ IsEnded(L, k) /\ k \in Nat
      /\ \A i \in 1..(k + 1) : L[i] \in Int /\ L[i] <= LONG_MAX BY TextIsRead
<1> HIDE DEF L, k
<1>5. /\ s \in Seq(Nat)
      /\ \A i \in 1..Len(s) : i \in 1..(k + 1) /\ s[i] = L[i]
  <2> DEFINE u == UpToEnd(L)
  <2>1. u = subs BY DEF L
  <2> HIDE DEF u
  <2>2. u.ok /\ u = UpToEnd(L) BY <1>3, <2>1 DEF u
  <2>3. /\ u = Ok(u.value) /\ u.value \in Seq(Nat)
        /\ \A i \in 1..Len(u.value) : i \in 1..(k + 1) /\ u.value[i] = L[i]
    BY <1>4, <2>2, TakenAreNumbers
  <2> QED BY <2>1, <2>3
<1> HIDE DEF s, subs
<1>6. \A i \in 1..Len(s) : s[i] \in Long
  <2> SUFFICES ASSUME NEW i \in 1..Len(s) PROVE s[i] \in Long OBVIOUS
  <2>1. s[i] \in Nat BY <1>5, ElementOfSeq
  <2>2. s[i] <= LONG_MAX BY <1>4, <1>5
  <2> QED BY <2>1, <2>2, LongWidth DEF Long
<1> DEFINE n == Len(s)
<1>7. n \in Nat /\ s = [i \in 1..n |-> s[i]] BY <1>5
<1>8. s \in Seq(Long)
  <2>1. IsList(s, n, Long) BY <1>6, <1>7 DEF IsList
  <2> HIDE DEF n
  <2> QED BY <1>7, <2>1, SeqFacts
<1>9. Len(s) >= 2 BY <1>3, <1>7
<1>10. s[1] <= 2 /\ s[2] <= 39
  <2>1. 1 \in 1..Len(s) /\ 2 \in 1..Len(s) BY <1>7, <1>9
  <2>2. s[1] \in Nat /\ s[2] \in Nat BY <1>5, <2>1, ElementOfSeq
  <2> QED BY <1>3, <2>2
<1>11. IsWritable(s) BY <1>8, <1>9, <1>10 DEF IsWritable
<1> QED BY <1>3, <1>11 DEF f

----------------------------------------------------------------------------
(* OBJECT IDENTIFIER *)

\* The first value is a text of numbers.
LEMMA FirstIsText ==
  ASSUME IInv, Is("OBJECT IDENTIFIER"), first.ok
  PROVE  first = Ok(first.value) /\ first.value \in Seq(Text)
<1>1. CASE \E v \in Values[type] : first = Ok(v)
  <2>1. PICK v \in Values[type] : first = Ok(v) BY <1>1
  <2>2. v \in Seq(Text) BY <2>1, FirstIs, ValuesAssumption DEF Is, Text
  <2>3. first.value = v BY <2>1 DEF Ok
  <2> QED BY <2>1, <2>2, <2>3
<1>2. CASE \E o \in Received[type] : first \in ValuesOf(o)
  <2>1. PICK o \in Received[type] : first \in ValuesOf(o) BY <1>2
  <2>2. first = int_decode_object_id(o) BY <2>1, Zenon DEF ValuesOf, Is
  <2>3. o \in Seq(Octet) BY <2>1, FirstIs, ReceivedAssumption DEF Is
  <2>4. first = Ok(first.value) /\ first.value \in Seq(Nat) BY <2>2, <2>3, DecodedAreNumbers
  <2>5. Nat \subseteq Text BY DEF Text
  <2>6. first.value \in Seq(Text) BY <2>4, <2>5, SeqMonotonic
  <2> QED BY <2>4, <2>6
<1> QED BY <1>1, <1>2, FirstIs

\* What octets are decoded from was given or was written.
LEMMA DecodedFromOctets ==
  ASSUME IInv, Is("OBJECT IDENTIFIER"), HasDecoded
  PROVE  octets.value \in Seq(Octet) /\ value = int_decode_object_id(octets.value)
<1> DEFINE o == octets.value
<1>1. CASE phase = "decoded"
  <2>1. first.ok /\ octets.ok /\ octets \in EncodingsOf(first.value) /\ value \in ValuesOf(o)
    BY <1>1 DEF IInv, WasDecoded
  <2>2. octets = int_encode_object_id(first.value) BY <2>1, Zenon DEF EncodingsOf, Is
  <2>3. value = int_decode_object_id(o) BY <2>1, Zenon DEF ValuesOf, Is
  <2>4. first.value \in Seq(Text) BY <2>1, FirstIsText
  <2>5. PICK s : IsWritable(s) /\ octets = Ok(FlattenSeq(WrittenLongs(Combined(s))))
    BY <2>1, <2>2, <2>4, EncodedAreWritten
  <2> DEFINE w == FlattenSeq(WrittenLongs(Combined(s)))
  <2>6. w \in Seq(Octet) BY <2>5, MeaningOfWritten
  <2>7. o = w
    <3> HIDE DEF w
    <3> QED BY <2>5 DEF Ok, w
  <2> QED BY <2>3, <2>6, <2>7
<1>2. CASE phase \in {"value", "failed"} /\ octets.ok
  <2>1. octets.value \in Received[type] /\ value \in ValuesOf(o)
    <3>1. ~Failed.ok BY DEF Failed
    <3>2. CASE phase = "value" BY <1>2, <3>1, <3>2 DEF IInv, HasValue
    <3>3. CASE phase = "failed" BY <1>2, <3>1, <3>3 DEF IInv, HasFailed
    <3> QED BY <1>2, <3>2, <3>3
  <2>2. value = int_decode_object_id(o) BY <2>1, Zenon DEF ValuesOf, Is
  <2>3. o \in Seq(Octet) BY <2>1, ReceivedAssumption DEF IInv, Is
  <2> QED BY <2>2, <2>3
<1> QED BY <1>1, <1>2 DEF HasDecoded

\* A number that can be written comes back.
LEMMA WritableComesBack ==
  ASSUME NEW s, IsWritable(s), Is("OBJECT IDENTIFIER")
  PROVE  Back(s)
<1> DEFINE w == FlattenSeq(WrittenLongs(Combined(s)))
<1>1. int_encode_object_id(s) = Ok(w) BY WritableIsWritten
<1>2. w \in Seq(Octet) /\ w # <<>> /\ IsClosed(w) /\ s = SubIdMeanings(w) BY MeaningOfWritten
<1> HIDE DEF w
<1>3. s[1] <= 2 /\ FitLong(s)
  <2>1. s \in Seq(Long) BY DEF IsWritable
  <2>2. \A i \in DOMAIN s : s[i] \in Long
    <3>1. DOMAIN s = 1..Len(s) BY <2>1, LenProperties
    <3> QED BY <2>1, <3>1, ElementOfSeq
  <2> QED BY <2>2 DEF IsWritable, FitLong, Long
<1>4. int_decode_object_id(w) = Ok(s) BY <1>2, <1>3, MeaningIsDecoded
<1>5. EncodingsOf(s) = {Ok(w)} BY <1>1, Zenon DEF EncodingsOf, Is
<1>6. ValuesOf(w) = {Ok(s)} BY <1>4, Zenon DEF ValuesOf, Is
<1>7. Ok(w).ok /\ Ok(w).value = w BY DEF Ok
<1> QED BY <1>5, <1>6, <1>7, Zenon DEF Back

\* OBJECT IDENTIFIER: octets and text always mean the same numbers, as long as
\* each of them fits a long, and every text of such numbers can be written:
\* int_parse_sub_id and int_get_sub_id look at their limit before the last
\* digit, and neither changes or refuses a number that fits.
THEOREM ObjectIdsAreExact == Spec => []ObjectIdsExact
<1>1. ASSUME IInv
      PROVE  ObjectIdsExact
  <2> SUFFICES ASSUME Is("OBJECT IDENTIFIER")
               PROVE  ObjectIdsExact
    BY DEF ObjectIdsExact
  <2>1. ASSUME HasDecoded, octets.value # <<>>,
               NEW nums, nums = SubIdMeanings(octets.value),
               Last(octets.value) < SignBit, nums[1] <= 2, FitLong(nums)
        PROVE  value = Ok(nums)
    <3> DEFINE o == octets.value
    <3>1. o \in Seq(Octet) /\ value = int_decode_object_id(o) BY <1>1, <2>1, DecodedFromOctets
    <3>2. IsClosed(o) BY <2>1 DEF IsClosed, Last
    <3>3. o # <<>> /\ nums = SubIdMeanings(o) BY <2>1
    <3> HIDE DEF o
    <3>4. int_decode_object_id(o) = Ok(nums) BY <2>1, <3>1, <3>2, <3>3, MeaningIsDecoded
    <3> QED BY <3>1, <3>4
  <2>2. ASSUME first.ok, NEW nums, nums = first.value,
               Len(nums) >= 2, FitLong(nums), nums[1] <= 2, nums[2] <= 39
        PROVE  Survives
    <3>1. first = Ok(nums) /\ nums \in Seq(Text) BY <1>1, <2>2, FirstIsText
    <3>2. IsWritable(nums)
      <4> DEFINE n == Len(nums)
      <4>1. n \in Nat /\ DOMAIN nums = 1..n /\ nums = [i \in 1..n |-> nums[i]]
        <5> DEFINE A == Text
        <5>1. nums \in Seq(A) BY <3>1
        <5> HIDE DEF A
        <5>2. Len(nums) \in Nat /\ DOMAIN nums = 1..Len(nums) /\ nums \in [1..Len(nums) -> A]
          BY <5>1, LenProperties
        <5> QED BY <5>2
      <4>2. \A i \in 1..n : nums[i] \in Long BY <2>2, <4>1 DEF FitLong, Long
      <4>3. IsList(nums, n, Long) BY <4>1, <4>2 DEF IsList
      <4> HIDE DEF n
      <4>4. nums \in Seq(Long) BY <4>1, <4>3, SeqFacts
      <4> QED BY <2>2, <4>4 DEF IsWritable
    <3>3. Back(nums) BY <3>2, WritableComesBack
    <3> QED BY <1>1, <2>2, <3>1, <3>3, SurvivesWhen
  <2> QED BY <2>1, <2>2 DEF ObjectIdsExact
<1> QED BY <1>1, History, PTL

=============================================================================
