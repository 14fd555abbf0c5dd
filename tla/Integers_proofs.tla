---------------------------- MODULE Integers_proofs ----------------------------
(***************************************************************************)
(* INTEGER, for numbers of any size and sign and every width of octet, int *)
(* and long: octets and number mean the same, and the octets written are   *)
(* the shortest there are.                                                 *)
(*                                                                         *)
(* What octets mean is the number of their length that has their lower     *)
(* bits, and they are the shortest if that number fits no fewer octets.    *)
(* So each way of writing a number only has to give octets whose number is *)
(* in range, and each way of reading one to give the lower bits.           *)
(***************************************************************************)
EXTENDS Codecs_proofs

----------------------------------------------------------------------------
(* INTEGER: what octets stand for *)

Weight(n) == 2^(CHAR_BIT * n)

LEMMA Weights ==
  ASSUME NEW n \in Nat
  PROVE  /\ Weight(n) \in Nat \ {0}
         /\ Weight(n + 1) = Weight(n) * Base
         /\ Weight(0) = 1
         /\ Base \in Nat /\ Base >= 4
<1> DEFINE e == CHAR_BIT * n
<1>1. e \in Nat /\ CHAR_BIT * (n + 1) = e + CHAR_BIT /\ CHAR_BIT * 0 = 0 /\ CHAR_BIT \in Nat
  <2>1. \A x, y \in Nat : x * y \in Nat /\ x * (y + 1) = x * y + x /\ x * 0 = 0 OBVIOUS
  <2> QED BY <2>1, Bases
<1> HIDE DEF e
<1>2. 2^e \in Nat \ {0} /\ 2^(e + CHAR_BIT) = 2^e * 2^CHAR_BIT BY <1>1, PowerOfTwo, PowersAdd
<1>3. 2^0 = 1 OBVIOUS
<1>4. Weight(n) = 2^e BY DEF Weight, e
<1>5. Weight(n + 1) = 2^(e + CHAR_BIT) BY <1>1 DEF Weight
<1>6. Weight(0) = 1 BY <1>1, <1>3 DEF Weight
<1> QED BY <1>2, <1>4, <1>5, <1>6, Bases DEF Base

LEMMA WeightsAdd ==
  ASSUME NEW m \in Nat, NEW n \in Nat
  PROVE  Weight(m + n) = Weight(m) * Weight(n)
<1> DEFINE c == CHAR_BIT * m
           d == CHAR_BIT * n
<1>1. c \in Nat /\ d \in Nat /\ CHAR_BIT * (m + n) = c + d
  <2>1. \A x, y, z \in Nat : x * y \in Nat /\ x * (y + z) = x * y + x * z OBVIOUS
  <2> QED BY <2>1, Bases
<1> HIDE DEF c, d
<1>2. 2^(c + d) = 2^c * 2^d BY <1>1, PowersAdd
<1>3. Weight(m) = 2^c /\ Weight(n) = 2^d BY DEF Weight, c, d
<1>4. Weight(m + n) = 2^(c + d) BY <1>1 DEF Weight
<1> QED BY <1>2, <1>3, <1>4

LEMMA WeightsGrow ==
  ASSUME NEW m \in Nat, NEW n \in Nat, m <= n
  PROVE  Weight(m) <= Weight(n)
<1> DEFINE c == CHAR_BIT * m
           d == CHAR_BIT * n
<1>1. c \in Nat /\ d \in Nat /\ c <= d
  <2>1. \A x, y, z \in Nat : x * y \in Nat /\ x * z \in Nat /\ x * (y + z) = x * y + x * z
    OBVIOUS
  <2>2. n - m \in Nat /\ m + (n - m) = n /\ CHAR_BIT \in Nat BY Bases
  <2>3. CHAR_BIT * (m + (n - m)) = c + CHAR_BIT * (n - m) /\ c \in Nat /\ CHAR_BIT * (n - m) \in Nat
    BY <2>1, <2>2
  <2>4. d = CHAR_BIT * (m + (n - m)) BY <2>2
  <2> HIDE DEF c, d
  <2> DEFINE x == CHAR_BIT * (n - m)
  <2>5. x \in Nat /\ d = c + x /\ c \in Nat BY <2>3, <2>4
  <2> HIDE DEF x
  <2> QED BY <2>5
<1> HIDE DEF c, d
<1>2. 2^c <= 2^d BY <1>1, PowersGrow
<1> QED BY <1>2 DEF Weight, c, d

\* A sequence without its last element.
LEMMA EndCut ==
  ASSUME NEW A, NEW s \in Seq(A), NEW n \in Nat, Len(s) = n + 1
  PROVE  /\ SubSeq(s, 1, n) \in Seq(A) /\ Len(SubSeq(s, 1, n)) = n
         /\ s = Append(SubSeq(s, 1, n), s[n + 1]) /\ s[n + 1] \in A
         /\ \A i \in 1..n : SubSeq(s, 1, n)[i] = s[i]
<1> DEFINE f == SubSeq(s, 1, n)
           x == s[n + 1]
<1>1. /\ f \in Seq(A) /\ Len(f) = n
      /\ SubSeq(s, 1, n + 1) = Append(f, x)
      /\ \A i \in 1..n : f[i] = s[i] BY LastOf, FrontIs
<1>2. x \in A /\ SubSeq(s, 1, Len(s)) = s
  <2>1. n + 1 \in 1..Len(s) OBVIOUS
  <2> QED BY <2>1, ElementOfSeq, WholeSeq
<1> HIDE DEF f, x
<1>3. s = Append(f, x) BY <1>1, <1>2
<1> QED BY <1>1, <1>2, <1>3 DEF f, x

LEMMA OctetIs ==
  ASSUME NEW x \in Octet
  PROVE  x \in Nat /\ x <= Base - 1 /\ x \in Int
  BY Bases DEF Octet

LEMMA UnsignedOfAppend ==
  ASSUME NEW o \in Seq(Octet), NEW x \in Octet
  PROVE  /\ Unsigned(o) \in Int
         /\ Unsigned(Append(o, x)) = Unsigned(o) * Base + x
<1>1. o \in Seq(Int) /\ x \in Int /\ Base \in Int
  <2>1. Octet \subseteq Int BY Octets
  <2>2. o \in Seq(Int) BY <2>1, SeqMonotonic
  <2> QED BY <2>2, OctetIs, Bases
<1> QED BY <1>1, NumberOfAppend DEF Unsigned

LEMMA UnsignedOfNothing ==
  Unsigned(<<>>) = 0 BY NumberOfNothing, Bases DEF Unsigned

LEMMA UnsignedBounds ==
  ASSUME NEW o \in Seq(Octet)
  PROVE  Unsigned(o) \in Nat /\ Unsigned(o) < Weight(Len(o)) /\ Len(o) \in Nat
<1> DEFINE In(t) == Unsigned(t) \in Nat /\ Unsigned(t) < Weight(Len(t))
           S == {n \in Nat : \A t \in Seq(Octet) : Len(t) = n => In(t)}
<1>1. 0 \in S
  <2>1. \A t \in Seq(Octet) : Len(t) = 0 => t = <<>> BY EmptySeq
  <2>2. In(<<>>)
    <3>1. Len(<<>>) = 0 /\ Weight(0) = 1 BY Weights
    <3> QED BY <3>1, UnsignedOfNothing
  <2> HIDE DEF In
  <2> QED BY <2>1, <2>2
<1>2. ASSUME NEW n \in Nat, n \in S
      PROVE  n + 1 \in S
  <2> SUFFICES ASSUME NEW t \in Seq(Octet), Len(t) = n + 1
               PROVE  In(t)
    OBVIOUS
  <2> DEFINE f == SubSeq(t, 1, n)
             x == t[n + 1]
  <2>1. f \in Seq(Octet) /\ Len(f) = n /\ t = Append(f, x) /\ x \in Octet BY EndCut
  <2> HIDE DEF f, x
  <2>2. Unsigned(f) \in Nat /\ Unsigned(f) < Weight(n) BY <1>2, <2>1
  <2>3. Unsigned(t) = Unsigned(f) * Base + x BY <2>1, UnsignedOfAppend
  <2>4. Weight(n) \in Nat /\ Weight(n + 1) = Weight(n) * Base /\ Base \in Nat BY Weights
  <2>5. x \in Nat /\ x <= Base - 1 BY <2>1, OctetIs
  <2>6. \A u, v, b, y \in Nat : u < v /\ y <= b - 1 => u * b + y \in Nat /\ u * b + y < v * b
    <3> SUFFICES ASSUME NEW u \in Nat, NEW v \in Nat, NEW b \in Nat, NEW y \in Nat, u < v, y <= b - 1
                 PROVE  u * b + y \in Nat /\ u * b + y < v * b
      OBVIOUS
    <3>1. u * b \in Nat /\ v * b = u * b + (v - u) * b /\ (v - u) * b = (v - u - 1) * b + b
      OBVIOUS
    <3>2. v - u - 1 \in Nat OBVIOUS
    <3>3. \A p, q \in Nat : p * q \in Nat OBVIOUS
    <3>4. (v - u - 1) * b \in Nat BY <3>2, <3>3
    <3> QED BY <3>1, <3>4
  <2>7. Unsigned(f) * Base + x \in Nat /\ Unsigned(f) * Base + x < Weight(n) * Base
    BY <2>2, <2>4, <2>5, <2>6
  <2> QED BY <2>3, <2>4, <2>7
<1>3. Nat \subseteq S
  <2> HIDE DEF S
  <2> QED BY <1>1, <1>2, StepInduction
<1>4. Len(o) \in S
  <2> HIDE DEF S
  <2> QED BY <1>3
<1> HIDE DEF In
<1>5. In(o) BY <1>4
<1> QED BY <1>5 DEF In

LEMMA UnsignedOfConcat ==
  ASSUME NEW s \in Seq(Octet), NEW o \in Seq(Octet)
  PROVE  /\ s \o o \in Seq(Octet)
         /\ Unsigned(s \o o) = Unsigned(s) * Weight(Len(o)) + Unsigned(o)
<1> DEFINE In(t) == Unsigned(s \o t) = Unsigned(s) * Weight(Len(t)) + Unsigned(t)
           S == {n \in Nat : \A t \in Seq(Octet) : Len(t) = n => In(t)}
           u == Unsigned(s)
<1>0. u \in Nat BY UnsignedBounds
<1> HIDE DEF u
<1>1. 0 \in S
  <2>1. \A t \in Seq(Octet) : Len(t) = 0 => t = <<>> BY EmptySeq
  <2>2. In(<<>>)
    <3>1. Len(<<>>) = 0 /\ Weight(0) = 1 /\ s \o <<>> = s BY Weights, ConcatEmptySeq
    <3>2. u = u * 1 + 0 BY <1>0
    <3> QED BY <3>1, <3>2, UnsignedOfNothing DEF u
  <2> HIDE DEF In
  <2> QED BY <2>1, <2>2
<1>2. ASSUME NEW n \in Nat, n \in S
      PROVE  n + 1 \in S
  <2> SUFFICES ASSUME NEW t \in Seq(Octet), Len(t) = n + 1
               PROVE  In(t)
    OBVIOUS
  <2> DEFINE f == SubSeq(t, 1, n)
             x == t[n + 1]
             g == s \o f
  <2>1. f \in Seq(Octet) /\ Len(f) = n /\ t = Append(f, x) /\ x \in Octet BY EndCut
  <2> HIDE DEF f, x
  <2>2. Unsigned(g) = u * Weight(n) + Unsigned(f) BY <1>2, <2>1 DEF u
  <2>3. Unsigned(t) = Unsigned(f) * Base + x BY <2>1, UnsignedOfAppend
  <2>4. g \in Seq(Octet) /\ s \o t = Append(g, x) BY <2>1, ConcatProperties, ConcatOfAppend
  <2> HIDE DEF g
  <2>5. Unsigned(s \o t) = Unsigned(g) * Base + x BY <2>1, <2>4, UnsignedOfAppend
  <2>6. Weight(n) \in Nat /\ Weight(n + 1) = Weight(n) * Base /\ Base \in Nat BY Weights
  <2>7. x \in Nat /\ Unsigned(f) \in Nat BY <2>1, OctetIs, UnsignedBounds
  <2>8. \A a, w, b, v, y \in Nat : (a * w + v) * b + y = a * (w * b) + (v * b + y) OBVIOUS
  <2>9. (u * Weight(n) + Unsigned(f)) * Base + x = u * (Weight(n) * Base) + (Unsigned(f) * Base + x)
    BY <1>0, <2>6, <2>7, <2>8
  <2> QED BY <2>2, <2>3, <2>5, <2>6, <2>9 DEF u
<1>3. Nat \subseteq S
  <2> HIDE DEF S
  <2> QED BY <1>1, <1>2, StepInduction
<1>4. Len(o) \in S
  <2>1. Len(o) \in Nat OBVIOUS
  <2> HIDE DEF S
  <2> QED BY <1>3, <2>1
<1> HIDE DEF In
<1>5. In(o) BY <1>4
<1> QED BY <1>5, ConcatProperties DEF In

\* The first octet and the rest.
LEMMA UnsignedOfRest ==
  ASSUME NEW o \in Seq(Octet), o # <<>>
  PROVE  /\ Tail(o) \in Seq(Octet) /\ Len(Tail(o)) = Len(o) - 1 /\ Len(o) \in Nat \ {0} /\ o[1] \in Octet
         /\ Unsigned(o) = o[1] * Weight(Len(o) - 1) + Unsigned(Tail(o))
<1> DEFINE a == o[1]
           h == <<a>>
           t == Tail(o)
           n == Len(o)
<1>1. /\ t \in Seq(Octet) /\ Len(t) = n - 1 /\ n \in Nat \ {0} /\ a \in Octet
      /\ \A i \in 1..(n - 1) : t[i] = o[i + 1] BY TailOf
<1> HIDE DEF a, t, n
<1>2. h \in Seq(Octet) /\ Len(h) = 1 /\ h[1] = a BY <1>1
<1>3. Unsigned(h) = a
  <2>1. <<>> \in Seq(Octet) /\ h = Append(<<>>, a) BY EmptySeq
  <2>2. Unsigned(h) = Unsigned(<<>>) * Base + a BY <1>1, <2>1, UnsignedOfAppend
  <2>3. 0 * Base + a = a BY <1>1, OctetIs, Bases
  <2> QED BY <2>2, <2>3, UnsignedOfNothing
<1> HIDE DEF h
<1>4. h \o t = o
  <2> DEFINE u == h \o t
  <2>1. u \in Seq(Octet) /\ IsConcat(u, h, t) BY <1>1, <1>2, ConcatIs
  <2> HIDE DEF u
  <2>2. Len(u) = n /\ u[1] = a /\ \A i \in 1..(n - 1) : u[1 + i] = t[i]
    <3>1. 1 + (n - 1) = n /\ 1 \in 1..1 BY <1>1
    <3> QED BY <1>1, <1>2, <2>1, <3>1 DEF IsConcat
  <2>3. ASSUME NEW i \in 1..n
        PROVE  u[i] = o[i]
    <3>1. CASE i = 1 BY <2>2, <3>1 DEF a
    <3>2. CASE i # 1
      <4>1. i - 1 \in 1..(n - 1) /\ 1 + (i - 1) = i /\ (i - 1) + 1 = i BY <1>1, <3>2
      <4>2. u[1 + (i - 1)] = t[i - 1] /\ t[i - 1] = o[(i - 1) + 1] BY <1>1, <2>2, <4>1
      <4> QED BY <4>1, <4>2
    <3> QED BY <3>1, <3>2
  <2>4. u = o BY <2>1, <2>2, <2>3, SeqEqual DEF n
  <2> QED BY <2>4 DEF u
<1>5. Unsigned(h \o t) = Unsigned(h) * Weight(Len(t)) + Unsigned(t)
  BY <1>1, <1>2, UnsignedOfConcat
<1>6. Unsigned(o) = a * Weight(n - 1) + Unsigned(t) BY <1>1, <1>3, <1>4, <1>5
<1> QED BY <1>1, <1>6 DEF a, t, n

----------------------------------------------------------------------------
(* INTEGER: two's complement *)

IsInverse(c, o) ==
  /\ c \in Seq(Octet) /\ o \in Seq(Octet) /\ Len(c) = Len(o)
  /\ \A i \in 1..Len(o) : c[i] = Base - 1 - o[i]

\* l is where the last octet that is not 0 stands.
IsComplement(c, o, l) ==
  /\ c \in Seq(Octet) /\ o \in Seq(Octet) /\ Len(c) = Len(o)
  /\ l \in 1..Len(o) /\ o[l] # 0 /\ c[l] = Base - o[l]
  /\ \A i \in 1..(l - 1) : c[i] = Base - 1 - o[i]
  /\ \A i \in (l + 1)..Len(o) : o[i] = 0 /\ c[i] = 0

LEMMA InverseIs ==
  ASSUME NEW c, NEW o, IsInverse(c, o)
  PROVE  Unsigned(c) + Unsigned(o) = Weight(Len(o)) - 1
<1> DEFINE S == {n \in Nat : \A t, d : IsInverse(d, t) /\ Len(t) = n
                               => Unsigned(d) + Unsigned(t) = Weight(n) - 1}
<1>1. 0 \in S
  <2> SUFFICES ASSUME NEW t, NEW d, IsInverse(d, t), Len(t) = 0
               PROVE  Unsigned(d) + Unsigned(t) = Weight(0) - 1
    OBVIOUS
  <2>1. t = <<>> /\ d = <<>> BY EmptySeq DEF IsInverse
  <2>2. 0 + 0 = 1 - 1 OBVIOUS
  <2>3. Weight(0) = 1 BY Weights
  <2> QED BY <2>1, <2>2, <2>3, UnsignedOfNothing
<1>2. ASSUME NEW n \in Nat, n \in S
      PROVE  n + 1 \in S
  <2> SUFFICES ASSUME NEW t, NEW d, IsInverse(d, t), Len(t) = n + 1
               PROVE  Unsigned(d) + Unsigned(t) = Weight(n + 1) - 1
    OBVIOUS
  <2> DEFINE f == SubSeq(t, 1, n)
             x == t[n + 1]
             g == SubSeq(d, 1, n)
             y == d[n + 1]
  <2>1. /\ d \in Seq(Octet) /\ t \in Seq(Octet) /\ Len(d) = n + 1
        /\ \A i \in 1..(n + 1) : d[i] = Base - 1 - t[i] BY DEF IsInverse
  <2>2. /\ f \in Seq(Octet) /\ Len(f) = n /\ t = Append(f, x) /\ x \in Octet
        /\ \A i \in 1..n : f[i] = t[i] BY <2>1, EndCut
  <2>3. /\ g \in Seq(Octet) /\ Len(g) = n /\ d = Append(g, y) /\ y \in Octet
        /\ \A i \in 1..n : g[i] = d[i] BY <2>1, EndCut
  <2>4. y = Base - 1 - x BY <2>1
  <2> HIDE DEF f, x, g, y
  <2>5. IsInverse(g, f)
    <3>1. \A i \in 1..n : i \in 1..(n + 1) OBVIOUS
    <3>2. \A i \in 1..n : g[i] = Base - 1 - f[i] BY <2>1, <2>2, <2>3, <3>1
    <3> QED BY <2>2, <2>3, <3>2 DEF IsInverse
  <2>6. Unsigned(g) + Unsigned(f) = Weight(n) - 1 BY <1>2, <2>2, <2>5
  <2>7. Unsigned(t) = Unsigned(f) * Base + x /\ Unsigned(d) = Unsigned(g) * Base + y
    BY <2>2, <2>3, UnsignedOfAppend
  <2>8. /\ Unsigned(f) \in Nat /\ Unsigned(g) \in Nat /\ x \in Nat /\ Base \in Nat
        /\ Weight(n) \in Nat /\ Weight(n + 1) = Weight(n) * Base
    BY <2>2, <2>3, OctetIs, UnsignedBounds, Weights
  <2>9. \A u, v, b, w, z \in Int : v + u = w - 1 => (v * b + (b - 1 - z)) + (u * b + z) = w * b - 1
    <3> SUFFICES ASSUME NEW u \in Int, NEW v \in Int, NEW b \in Int, NEW w \in Int, NEW z \in Int,
                        v + u = w - 1
                 PROVE  (v * b + (b - 1 - z)) + (u * b + z) = w * b - 1
      OBVIOUS
    <3>1. w = v + u + 1 OBVIOUS
    <3>2. (v + u + 1) * b = v * b + u * b + b OBVIOUS
    <3> QED BY <3>1, <3>2
  <2>10. (Unsigned(g) * Base + (Base - 1 - x)) + (Unsigned(f) * Base + x) = Weight(n) * Base - 1
    <3> DEFINE u == Unsigned(f)
               v == Unsigned(g)
               w == Weight(n)
               b == Base
    <3>1. u \in Int /\ v \in Int /\ w \in Int /\ b \in Int /\ x \in Int /\ v + u = w - 1
      BY <2>6, <2>8
    <3> HIDE DEF u, v, w, b
    <3>2. (v * b + (b - 1 - x)) + (u * b + x) = w * b - 1 BY <2>9, <3>1
    <3> QED BY <3>2 DEF u, v, w, b
  <2> QED BY <2>4, <2>7, <2>8, <2>10
<1>3. Nat \subseteq S
  <2> HIDE DEF S
  <2> QED BY <1>1, <1>2, StepInduction
<1>4. Len(o) \in S
  <2>1. Len(o) \in Nat BY DEF IsInverse
  <2> HIDE DEF S
  <2> QED BY <1>3, <2>1
<1> QED BY <1>4

LEMMA ComplementIs ==
  ASSUME NEW c, NEW o, NEW l, IsComplement(c, o, l)
  PROVE  Unsigned(c) + Unsigned(o) = Weight(Len(o))
<1> DEFINE S == {n \in Nat : \A t, d, k : IsComplement(d, t, k) /\ Len(t) = n
                               => Unsigned(d) + Unsigned(t) = Weight(n)}
<1>1. 0 \in S
  <2> SUFFICES ASSUME NEW t, NEW d, NEW k, IsComplement(d, t, k), Len(t) = 0
               PROVE  FALSE
    OBVIOUS
  <2> QED BY DEF IsComplement
<1>2. ASSUME NEW n \in Nat, n \in S
      PROVE  n + 1 \in S
  <2> SUFFICES ASSUME NEW t, NEW d, NEW k, IsComplement(d, t, k), Len(t) = n + 1
               PROVE  Unsigned(d) + Unsigned(t) = Weight(n + 1)
    OBVIOUS
  <2> DEFINE f == SubSeq(t, 1, n)
             x == t[n + 1]
             g == SubSeq(d, 1, n)
             y == d[n + 1]
  <2>1. /\ d \in Seq(Octet) /\ t \in Seq(Octet) /\ Len(d) = n + 1
        /\ k \in 1..(n + 1) /\ t[k] # 0 /\ d[k] = Base - t[k]
        /\ \A i \in 1..(k - 1) : d[i] = Base - 1 - t[i]
        /\ \A i \in (k + 1)..(n + 1) : t[i] = 0 /\ d[i] = 0 BY DEF IsComplement
  <2>2. /\ f \in Seq(Octet) /\ Len(f) = n /\ t = Append(f, x) /\ x \in Octet
        /\ \A i \in 1..n : f[i] = t[i] BY <2>1, EndCut
  <2>3. /\ g \in Seq(Octet) /\ Len(g) = n /\ d = Append(g, y) /\ y \in Octet
        /\ \A i \in 1..n : g[i] = d[i] BY <2>1, EndCut
  <2>4. /\ k = n + 1 => y = Base - x
        /\ k # n + 1 => x = 0 /\ y = 0 BY <2>1
  <2> HIDE DEF f, x, g, y
  <2>5. Unsigned(t) = Unsigned(f) * Base + x /\ Unsigned(d) = Unsigned(g) * Base + y
    BY <2>2, <2>3, UnsignedOfAppend
  <2>6. /\ Unsigned(f) \in Nat /\ Unsigned(g) \in Nat /\ x \in Nat /\ Base \in Nat
        /\ Weight(n) \in Nat /\ Weight(n + 1) = Weight(n) * Base
    BY <2>2, <2>3, OctetIs, UnsignedBounds, Weights
  <2>7. CASE k = n + 1
    <3>1. IsInverse(g, f)
      <4>1. \A i \in 1..n : i \in 1..(k - 1) BY <2>7
      <4>2. \A i \in 1..n : g[i] = Base - 1 - f[i] BY <2>1, <2>2, <2>3, <4>1
      <4> QED BY <2>2, <2>3, <4>2 DEF IsInverse
    <3>2. Unsigned(g) + Unsigned(f) = Weight(n) - 1 BY <2>2, <3>1, InverseIs
    <3>3. \A u, v, b, w, z \in Int : v + u = w - 1 => (v * b + (b - z)) + (u * b + z) = w * b
      <4> SUFFICES ASSUME NEW u \in Int, NEW v \in Int, NEW b \in Int, NEW w \in Int, NEW z \in Int,
                          v + u = w - 1
                   PROVE  (v * b + (b - z)) + (u * b + z) = w * b
        OBVIOUS
      <4>1. w = v + u + 1 OBVIOUS
      <4>2. (v + u + 1) * b = v * b + u * b + b OBVIOUS
      <4> QED BY <4>1, <4>2
    <3>4. (Unsigned(g) * Base + (Base - x)) + (Unsigned(f) * Base + x) = Weight(n) * Base
      <4> DEFINE u == Unsigned(f)
                 v == Unsigned(g)
                 w == Weight(n)
                 b == Base
      <4>1. u \in Int /\ v \in Int /\ w \in Int /\ b \in Int /\ x \in Int /\ v + u = w - 1
        BY <2>6, <3>2
      <4> HIDE DEF u, v, w, b
      <4>2. (v * b + (b - x)) + (u * b + x) = w * b BY <3>3, <4>1
      <4> QED BY <4>2 DEF u, v, w, b
    <3> QED BY <2>4, <2>5, <2>6, <2>7, <3>4
  <2>8. CASE k # n + 1
    <3>1. k \in 1..n /\ f[k] = t[k] /\ g[k] = d[k] BY <2>1, <2>2, <2>3, <2>8
    <3>2. IsComplement(g, f, k)
      <4>1. \A i \in 1..(k - 1) : i \in 1..n BY <3>1
      <4>2. \A i \in (k + 1)..n : i \in 1..n /\ i \in (k + 1)..(n + 1) BY <3>1
      <4>3. \A i \in 1..(k - 1) : g[i] = Base - 1 - f[i] BY <2>1, <2>2, <2>3, <4>1
      <4>4. \A i \in (k + 1)..n : f[i] = 0 /\ g[i] = 0 BY <2>1, <2>2, <2>3, <4>2
      <4> QED BY <2>1, <2>2, <2>3, <3>1, <4>3, <4>4 DEF IsComplement
    <3>3. Unsigned(g) + Unsigned(f) = Weight(n) BY <1>2, <2>2, <3>2
    <3>4. \A u, v, b \in Int : (v * b + 0) + (u * b + 0) = (v + u) * b OBVIOUS
    <3>5. (Unsigned(g) * Base + 0) + (Unsigned(f) * Base + 0) = (Unsigned(g) + Unsigned(f)) * Base
      BY <2>6, <3>4
    <3> QED BY <2>4, <2>5, <2>6, <2>8, <3>3, <3>5
  <2> QED BY <2>7, <2>8
<1>3. Nat \subseteq S
  <2> HIDE DEF S
  <2> QED BY <1>1, <1>2, StepInduction
<1>4. Len(o) \in S
  <2>1. Len(o) \in Nat BY DEF IsComplement
  <2> HIDE DEF S
  <2> QED BY <1>3, <2>1
<1> QED BY <1>4

\* krypt_compute_twos_complement computes it.
LEMMA TwosComplementIs ==
  ASSUME NEW o \in Seq(Octet), NEW j \in 1..Len(o), o[j] # 0
  PROVE  \E l : j <= l /\ IsComplement(TwosComplement(o), o, l)
<1> DEFINE n == Len(o)
           S == {i \in DOMAIN o : o[i] # 0}
           c == TwosComplement(o)
<1>1. n \in Nat /\ DOMAIN o = 1..n /\ \A i \in 1..n : o[i] \in Octet BY ElementOfSeq
<1>2. PICK l \in S : \A y \in S : y <= l
  <2> DEFINE T == {n - i : i \in S}
  <2>1. T \subseteq Nat /\ T # {} BY <1>1
  <2>2. PICK m \in T : \A y \in T : m <= y
    <3> HIDE DEF T
    <3> QED BY <2>1, FirstOfNumbers
  <2>3. PICK l \in S : m = n - l OBVIOUS
  <2>4. \A y \in S : y <= l
    <3> SUFFICES ASSUME NEW y \in S PROVE y <= l OBVIOUS
    <3>1. m <= n - y BY <2>2
    <3>2. y \in Int /\ l \in Int BY <1>1
    <3> QED BY <1>1, <2>3, <3>1, <3>2
  <2> QED BY <2>4
<1>3. Max(S) = l
  <2>1. S \subseteq Int BY <1>1
  <2>2. \A y \in S : l >= y BY <1>2, <2>1
  <2>3. \A y \in S : (\A z \in S : y >= z) => y = l BY <1>2, <2>1, <2>2
  <2> HIDE DEF S
  <2> QED BY <2>2, <2>3, Zenon DEF Max
<1>4. c = [i \in DOMAIN o |-> IF i < l THEN Base - 1 - o[i] ELSE IF i = l THEN Base - o[i] ELSE 0]
  <2>1. c = [i \in DOMAIN o |-> IF i < Max(S) THEN Base - 1 - o[i]
                                ELSE IF i = Max(S) THEN Base - o[i] ELSE 0]
    BY Zenon DEF TwosComplement
  <2> HIDE DEF c, S
  <2> QED BY <1>3, <2>1
<1>5. l \in 1..n /\ o[l] # 0 /\ j <= l BY <1>1, <1>2
<1>6. \A i \in (l + 1)..n : o[i] = 0
  <2> SUFFICES ASSUME NEW i \in (l + 1)..n, o[i] # 0 PROVE FALSE OBVIOUS
  <2>1. i \in S /\ ~(i <= l) BY <1>1, <1>5
  <2> QED BY <1>2, <2>1
<1> HIDE DEF c, S
<1>7. \A i \in 1..n : c[i] = IF i < l THEN Base - 1 - o[i] ELSE IF i = l THEN Base - o[i] ELSE 0
  BY <1>1, <1>4
<1>8. /\ c[l] = Base - o[l]
      /\ \A i \in 1..(l - 1) : c[i] = Base - 1 - o[i]
      /\ \A i \in (l + 1)..n : c[i] = 0
  <2>1. /\ l \in 1..n /\ ~(l < l)
        /\ \A i \in 1..(l - 1) : i \in 1..n /\ i < l
        /\ \A i \in (l + 1)..n : i \in 1..n /\ ~(i < l) /\ i # l BY <1>1, <1>5
  <2> QED BY <1>7, <2>1
<1>9. \A i \in 1..n : c[i] \in Octet
  <2> SUFFICES ASSUME NEW i \in 1..n PROVE c[i] \in Octet OBVIOUS
  <2>1. o[i] \in 0..(Base - 1) /\ Base \in Nat /\ Base >= 4 BY <1>1, Bases DEF Octet
  <2>2. CASE i < l BY <1>7, <2>1, <2>2 DEF Octet
  <2>3. CASE i = l BY <1>5, <1>7, <2>1, <2>3 DEF Octet
  <2>4. CASE ~(i < l) /\ i # l BY <1>7, <2>1, <2>4 DEF Octet
  <2> QED BY <2>2, <2>3, <2>4
<1>10. c \in Seq(Octet) /\ Len(c) = n
  <2>1. c = [i \in 1..n |-> c[i]] BY <1>1, <1>4
  <2>2. IsList(c, n, Octet) BY <1>9, <2>1 DEF IsList
  <2> QED BY <1>1, <2>2, SeqFacts
<1>11. IsComplement(c, o, l) BY <1>5, <1>6, <1>8, <1>10 DEF IsComplement
<1> QED BY <1>5, <1>11 DEF c

----------------------------------------------------------------------------
(* INTEGER: what octets mean *)

HalfWeight(n) == SignBit * Weight(n - 1)

LEMMA HalfWeights ==
  ASSUME NEW n \in Nat \ {0}
  PROVE  /\ HalfWeight(n) \in Nat \ {0} /\ Weight(n) = 2 * HalfWeight(n) /\ Weight(n) \in Nat \ {0}
         /\ HalfWeight(n) = 2^(CHAR_BIT * n - 1)
         /\ CHAR_BIT * n \in Nat \ {0}
<1> DEFINE m == n - 1
           w == Weight(m)
           e == CHAR_BIT * m
           d == CHAR_BIT - 1
<1>1. m \in Nat /\ n = m + 1 OBVIOUS
<1> HIDE DEF m
<1>2. w \in Nat \ {0} /\ Weight(m + 1) = w * Base BY <1>1, Weights
<1>3. Base = 2 * SignBit /\ SignBit \in Nat \ {0} BY Bases
<1> HIDE DEF w
<1>4. SignBit * w \in Nat \ {0} /\ w * Base = 2 * (SignBit * w)
  <2>1. \A x, y \in Nat \ {0} : x * y \in Nat \ {0} /\ y * (2 * x) = 2 * (x * y)
    <3> SUFFICES ASSUME NEW x \in Nat \ {0}, NEW y \in Nat \ {0}
                 PROVE  x * y \in Nat \ {0} /\ y * (2 * x) = 2 * (x * y)
      OBVIOUS
    <3>1. x * y = (x - 1) * y + y OBVIOUS
    <3>2. \A p, q \in Nat : p * q \in Nat OBVIOUS
    <3>3. (x - 1) * y \in Nat BY <3>2
    <3>4. x * y \in Nat \ {0} BY <3>1, <3>3
    <3> QED BY <3>4
  <2> QED BY <1>2, <1>3, <2>1
<1>5. HalfWeight(n) = SignBit * w BY DEF HalfWeight, w, m
<1>6. /\ e \in Nat /\ d \in Nat /\ CHAR_BIT * n = e + CHAR_BIT /\ e + CHAR_BIT - 1 = d + e
      /\ e + CHAR_BIT \in Nat \ {0}
  <2>1. \A x, y \in Nat : x * y \in Nat /\ x * (y + 1) = x * y + x OBVIOUS
  <2>2. e \in Nat /\ CHAR_BIT * (m + 1) = e + CHAR_BIT /\ CHAR_BIT \in Nat /\ CHAR_BIT >= 2
    BY <1>1, <2>1, Bases
  <2> HIDE DEF e
  <2> QED BY <1>1, <2>2
<1>7. SignBit * w = 2^(d + e)
  <2> HIDE DEF d, e
  <2>1. 2^(d + e) = 2^d * 2^e BY <1>6, PowersAdd
  <2> QED BY <2>1 DEF SignBit, w, Weight, d, e
<1>8. HalfWeight(n) = 2^(CHAR_BIT * n - 1)
  <2> DEFINE x == CHAR_BIT * n
  <2>1. x = e + CHAR_BIT /\ e + CHAR_BIT - 1 = d + e BY <1>6
  <2>a. e \in Int /\ d \in Int /\ CHAR_BIT \in Int BY <1>6, Bases
  <2> HIDE DEF d, e, x
  <2>2. x - 1 = d + e BY <2>1, <2>a, SMTT(60)
  <2> QED BY <1>5, <1>7, <2>2 DEF x
<1> HIDE DEF e
<1> QED BY <1>1, <1>2, <1>3, <1>4, <1>5, <1>6, <1>8

LEMMA MeaningIs ==
  ASSUME NEW o \in Seq(Octet)
  PROVE  /\ Meaning(o) = Unsigned(o) - (IF IsNegative(o) THEN Weight(Len(o)) ELSE 0)
         /\ Meaning(o) \in Int
<1>1. Unsigned(o) \in Nat /\ Weight(Len(o)) \in Nat BY UnsignedBounds, Weights
<1>2. Meaning(o) = Unsigned(o) - (IF IsNegative(o) THEN Weight(Len(o)) ELSE 0)
  BY DEF Meaning, Weight
<1> QED BY <1>1, <1>2

\* The first octet tells the sign.
LEMMA SignIs ==
  ASSUME NEW o \in Seq(Octet), o # <<>>
  PROVE  /\ Len(o) \in Nat \ {0} /\ Unsigned(o) \in Nat /\ Unsigned(o) < Weight(Len(o))
         /\ IsNegative(o) <=> Unsigned(o) >= HalfWeight(Len(o))
<1> DEFINE n == Len(o)
           a == o[1]
           t == Tail(o)
           w == Weight(n - 1)
           r == Unsigned(t)
           u == Unsigned(o)
<1>1. t \in Seq(Octet) /\ Len(t) = n - 1 /\ n \in Nat \ {0} /\ a \in Octet /\ u = a * w + r
  BY UnsignedOfRest
<1>2. r \in Nat /\ r < w BY <1>1, UnsignedBounds
<1>3. u \in Nat /\ u < Weight(n) BY UnsignedBounds
<1>4. w \in Nat \ {0} /\ a \in Nat /\ SignBit \in Nat
  <2>1. n - 1 \in Nat BY <1>1
  <2> HIDE DEF n, a
  <2> QED BY <1>1, <2>1, Weights, OctetIs, Bases
<1>5. HalfWeight(n) = SignBit * w BY DEF HalfWeight
<1>6. IsNegative(o) <=> a >= SignBit BY DEF IsNegative
<1> HIDE DEF a, w, r, u
<1>7. a >= SignBit <=> u >= SignBit * w
  <2>1. \A x, y, z \in Nat : x >= y => x * z >= y * z
    <3> SUFFICES ASSUME NEW x \in Nat, NEW y \in Nat, NEW z \in Nat, x >= y
                 PROVE  x * z >= y * z
      OBVIOUS
    <3>1. x * z = y * z + (x - y) * z /\ x - y \in Nat OBVIOUS
    <3>2. \A p, q \in Nat : p * q \in Nat OBVIOUS
    <3>3. (x - y) * z \in Nat /\ y * z \in Nat BY <3>1, <3>2
    <3> QED BY <3>1, <3>3
  <2>2. ASSUME a >= SignBit
        PROVE  u >= SignBit * w
    <3>1. a * w >= SignBit * w BY <1>4, <2>1, <2>2
    <3>2. a * w \in Nat /\ SignBit * w \in Nat BY <1>4
    <3> QED BY <1>1, <1>2, <3>1, <3>2
  <2>3. ASSUME ~(a >= SignBit)
        PROVE  ~(u >= SignBit * w)
    <3>1. a + 1 \in Nat /\ SignBit >= a + 1 BY <1>4, <2>3
    <3>2. SignBit * w >= (a + 1) * w BY <1>4, <2>1, <3>1
    <3>3. (a + 1) * w = a * w + w /\ a * w \in Nat /\ SignBit * w \in Nat BY <1>4
    <3> DEFINE p == SignBit * w
               q == a * w
    <3>4. p >= q + w /\ p \in Nat /\ q \in Nat BY <3>2, <3>3
    <3>5. u = q + r BY <1>1
    <3> HIDE DEF p, q
    <3>6. ~(u >= p) BY <1>2, <1>4, <3>4, <3>5
    <3> QED BY <3>6 DEF p
  <2> QED BY <2>2, <2>3
<1> QED BY <1>1, <1>3, <1>5, <1>6, <1>7 DEF u

LEMMA MeaningRange ==
  ASSUME NEW o \in Seq(Octet), o # <<>>
  PROVE  /\ -HalfWeight(Len(o)) <= Meaning(o) /\ Meaning(o) < HalfWeight(Len(o))
         /\ IsNegative(o) <=> Meaning(o) < 0
         /\ Meaning(o) = IF IsNegative(o) THEN Unsigned(o) - Weight(Len(o)) ELSE Unsigned(o)
<1> DEFINE n == Len(o)
           u == Unsigned(o)
           w == Weight(n)
           h == HalfWeight(n)
           m == Meaning(o)
<1>1. /\ n \in Nat \ {0} /\ u \in Nat /\ u < w
      /\ IsNegative(o) <=> u >= h BY SignIs
<1> HIDE DEF n
<1>2. h \in Nat \ {0} /\ w = 2 * h BY <1>1, HalfWeights
<1>3. m = u - (IF IsNegative(o) THEN w ELSE 0) BY MeaningIs DEF n
<1> HIDE DEF u, w, h, m
<1>4. CASE IsNegative(o)
  <2>1. m = u - w /\ u >= h BY <1>1, <1>3, <1>4
  <2>2. -h <= m /\ m < h /\ m < 0 BY <1>1, <1>2, <2>1
  <2> QED BY <1>4, <2>1, <2>2 DEF u, w, h, m, n
<1>5. CASE ~IsNegative(o)
  <2>1. m = u /\ ~(u >= h) BY <1>1, <1>3, <1>5
  <2>2. -h <= m /\ m < h /\ ~(m < 0) BY <1>1, <1>2, <2>1
  <2> QED BY <1>5, <2>1, <2>2 DEF u, w, h, m, n
<1> QED BY <1>4, <1>5

\* Octets mean the number that they are the lower octets of, if it fits.
LEMMA MeaningByRange ==
  ASSUME NEW o \in Seq(Octet), o # <<>>, NEW num \in Int,
         -HalfWeight(Len(o)) <= num, num < HalfWeight(Len(o)),
         Unsigned(o) = num % Weight(Len(o))
  PROVE  Meaning(o) = num
<1> DEFINE n == Len(o)
           u == Unsigned(o)
           w == Weight(n)
           h == HalfWeight(n)
           m == Meaning(o)
           q == num \div w
<1>1. n \in Nat \ {0} BY SignIs
<1> HIDE DEF n
<1>2. h \in Nat \ {0} /\ w = 2 * h /\ w \in Nat \ {0} BY <1>1, HalfWeights
<1>3. -h <= m /\ m < h /\ (m = u \/ m = u - w) /\ -h <= num /\ num < h BY MeaningRange DEF n
<1> HIDE DEF w, h, m
<1>4. q \in Int /\ num = q * w + (num % w) /\ num % w \in 0..(w - 1) BY <1>2, Division
<1>5. u = num % w BY DEF n, w
<1> HIDE DEF q, u
<1>6. num = q * w + u /\ u \in 0..(w - 1) BY <1>4, <1>5
<1>7. q = 0 \/ q = -1
  <2>1. \A x \in Int, y \in Nat : (x >= 1 => x * y >= y) /\ (x <= -2 => x * y <= -(2 * y))
    <3> SUFFICES ASSUME NEW x \in Int, NEW y \in Nat
                 PROVE  (x >= 1 => x * y >= y) /\ (x <= -2 => x * y <= -(2 * y))
      OBVIOUS
    <3>1. \A p, r \in Nat : p * r \in Nat OBVIOUS
    <3>2. ASSUME x >= 1 PROVE x * y >= y
      <4>1. x - 1 \in Nat /\ x * y = (x - 1) * y + y BY <3>2
      <4>2. (x - 1) * y \in Nat BY <3>1, <4>1
      <4> QED BY <4>1, <4>2
    <3>3. ASSUME x <= -2 PROVE x * y <= -(2 * y)
      <4>1. -2 - x \in Nat /\ x * y = -(2 * y) - (-2 - x) * y BY <3>3
      <4>2. (-2 - x) * y \in Nat BY <3>1, <4>1
      <4> QED BY <4>1, <4>2
    <3> QED BY <3>2, <3>3
  <2>2. w \in Nat BY <1>2
  <2>3. (q >= 1 => q * w >= w) /\ (q <= -2 => q * w <= -(2 * w)) BY <1>4, <2>1, <2>2
  <2>4. q * w \in Int BY <1>2, <1>4
  <2> DEFINE p == q * w
  <2>5. p \in Int /\ num = p + u /\ (q >= 1 => p >= w) /\ (q <= -2 => p <= -(2 * w))
    BY <1>6, <2>3, <2>4
  <2> HIDE DEF p
  <2>6. ~(q >= 1) /\ ~(q <= -2) BY <1>2, <1>3, <1>6, <2>5
  <2> QED BY <1>4, <2>6
<1>8. num = u \/ num = u - w
  <2>1. 0 * w = 0 /\ (-1) * w = -w BY <1>2
  <2> QED BY <1>2, <1>6, <1>7, <2>1
<1>9. m = num BY <1>2, <1>3, <1>6, <1>8
<1> QED BY <1>9 DEF m

\* What the Bignum decoder computes is what the octets mean.
LEMMA BignumIsExact ==
  ASSUME NEW o \in Seq(Octet), o # <<>>
  PROVE  krypt_asn1_decode_bignum(o) = Meaning(o)
<1> DEFINE c == TwosComplement(o)
<1>1. krypt_asn1_decode_bignum(o) = IF IsNegative(o) THEN -Unsigned(c) ELSE Unsigned(o)
  BY DEF krypt_asn1_decode_bignum
<1>2. Meaning(o) = IF IsNegative(o) THEN Unsigned(o) - Weight(Len(o)) ELSE Unsigned(o)
  BY MeaningRange
<1>3. ASSUME IsNegative(o)
      PROVE  -Unsigned(c) = Unsigned(o) - Weight(Len(o))
  <2>1. 1 \in 1..Len(o) /\ o[1] # 0
    <3>1. Len(o) \in Nat \ {0} /\ o[1] \in Octet BY UnsignedOfRest
    <3> QED BY <1>3, <3>1, OctetIs, Bases DEF IsNegative
  <2>2. PICK l : IsComplement(c, o, l) BY <2>1, TwosComplementIs
  <2>3. Unsigned(c) + Unsigned(o) = Weight(Len(o)) BY <2>2, ComplementIs
  <2>4. Unsigned(c) \in Nat /\ Unsigned(o) \in Nat /\ Weight(Len(o)) \in Nat
    <3>1. c \in Seq(Octet) /\ Len(o) \in Nat BY <2>2 DEF IsComplement
    <3> QED BY <3>1, UnsignedBounds, Weights
  <2> QED BY <2>3, <2>4
<1> QED BY <1>1, <1>2, <1>3

----------------------------------------------------------------------------
(* INTEGER: how many octets a number needs *)

\* A number in a number of octets.
FitsIn(v, n) == -HalfWeight(n) <= v /\ v < HalfWeight(n)

Needs(v, n) == n = 1 \/ ~FitsIn(v, n - 1)

\* The first octet of a longer encoding.
SignOctet(v) == IF v >= 0 THEN 0 ELSE Base - 1

LEMMA LowOctetsAre ==
  ASSUME NEW v \in Int, NEW n \in Nat
  PROVE  /\ LowOctets(v, n) \in Seq(Octet) /\ Len(LowOctets(v, n)) = n
         /\ Unsigned(LowOctets(v, n)) = v % Weight(n)
<1> DEFINE b == CHAR_BIT
<1>1. b \in Nat BY Bases
<1> HIDE DEF b
<1>2. LowDigits(v, b, n) \in Seq(0..(2^b - 1)) /\ Len(LowDigits(v, b, n)) = n
  BY <1>1, LowDigitsAre
<1>3. NumberOf(LowDigits(v, b, n), 2^b) = v % 2^(b * n) BY <1>1, LowDigitsAreNumber
<1>4. LowOctets(v, n) = LowDigits(v, b, n) /\ Base = 2^b /\ Octet = 0..(2^b - 1)
  BY DEF LowOctets, Base, Octet, b
<1> QED BY <1>2, <1>3, <1>4 DEF Unsigned, Weight, b

LEMMA LessThanHalf ==
  ASSUME NEW n \in Nat \ {0}
  PROVE  /\ HalfWeight(n) \in Nat \ {0} /\ Weight(n) = 2 * HalfWeight(n) /\ Weight(n) \in Nat \ {0}
         /\ HalfWeight(n + 1) = SignBit * Weight(n) /\ Weight(n) <= HalfWeight(n + 1)
<1>1. HalfWeight(n) \in Nat \ {0} /\ Weight(n) = 2 * HalfWeight(n) /\ Weight(n) \in Nat \ {0}
  BY HalfWeights
<1>2. HalfWeight(n + 1) = SignBit * Weight(n)
  <2> DEFINE k == n + 1
  <2>1. k - 1 = n OBVIOUS
  <2> HIDE DEF k
  <2>2. HalfWeight(k) = SignBit * Weight(k - 1) BY DEF HalfWeight
  <2> QED BY <2>1, <2>2 DEF k
<1>3. SignBit \in Nat /\ SignBit >= 2 BY Bases
<1>4. \A s, w \in Nat : s >= 2 => w <= s * w
  <2> SUFFICES ASSUME NEW s \in Nat, NEW w \in Nat, s >= 2
               PROVE  w <= s * w
    OBVIOUS
  <2>1. s * w = w + (s - 1) * w /\ s - 1 \in Nat OBVIOUS
  <2>2. \A p, q \in Nat : p * q \in Nat OBVIOUS
  <2>3. (s - 1) * w \in Nat BY <2>1, <2>2
  <2> QED BY <2>1, <2>3
<1> QED BY <1>1, <1>2, <1>3, <1>4

\* An octet more, one that repeats the sign.
LEMMA WithFirstOctet ==
  ASSUME NEW o \in Seq(Octet), NEW n \in Nat \ {0}, Len(o) = n, NEW x \in Octet
  PROVE  /\ << x >> \o o \in Seq(Octet) /\ Len(<< x >> \o o) = n + 1 /\ << x >> \o o # <<>>
         /\ Unsigned(<< x >> \o o) = x * Weight(n) + Unsigned(o)
<1> DEFINE h == <<x>>
<1>1. h \in Seq(Octet) /\ Len(h) = 1 OBVIOUS
<1>2. Unsigned(h) = x
  <2>1. <<>> \in Seq(Octet) /\ h = Append(<<>>, x) BY EmptySeq
  <2> HIDE DEF h
  <2>2. Unsigned(h) = Unsigned(<<>>) * Base + x BY <2>1, UnsignedOfAppend
  <2>3. 0 * Base + x = x BY OctetIs, Bases
  <2> QED BY <2>2, <2>3, UnsignedOfNothing
<1> HIDE DEF h
<1>3. h \o o \in Seq(Octet) /\ Unsigned(h \o o) = Unsigned(h) * Weight(Len(o)) + Unsigned(o)
  BY <1>1, UnsignedOfConcat
<1>4. IsConcat(h \o o, h, o) BY <1>1, ConcatIs
<1>5. Len(h \o o) = n + 1
  <2>1. Len(h \o o) = Len(h) + Len(o) BY <1>4 DEF IsConcat
  <2> QED BY <1>1, <2>1
<1>6. h \o o # <<>>
  <2> DEFINE g == h \o o
  <2>1. Len(g) = n + 1 BY <1>5
  <2> HIDE DEF g
  <2>2. g # <<>> BY <2>1
  <2> QED BY <2>2 DEF g
<1> QED BY <1>2, <1>3, <1>5, <1>6 DEF h

\* Octets that need not be so many are those that IsShortest excludes.
LEMMA NeedsAllOctets ==
  ASSUME NEW o \in Seq(Octet), o # <<>>, Needs(Meaning(o), Len(o))
  PROVE  IsShortest(o)
<1> DEFINE n == Len(o)
           a == o[1]
           t == Tail(o)
           b == o[2]
           k == n - 1
<1>1. t \in Seq(Octet) /\ Len(t) = k /\ n \in Nat \ {0} /\ a \in Octet
      /\ Unsigned(o) = a * Weight(k) + Unsigned(t) BY UnsignedOfRest
<1> SUFFICES ASSUME n # 1, (a = 0 /\ b < SignBit) \/ (a = Base - 1 /\ b >= SignBit)
             PROVE  FALSE
  BY DEF IsShortest
<1>2. k \in Nat \ {0} /\ n = k + 1 BY <1>1
<1>3. t # <<>> /\ t[1] = b /\ b \in Octet
  <2>1. t[1] = o[1 + 1] /\ 1 \in 1..k
    <3>1. 1 \in 1..k BY <1>2
    <3>2. \A i \in 1..(n - 1) : t[i] = o[i + 1] BY TailOf
    <3> QED BY <3>1, <3>2
  <2> HIDE DEF t, n
  <2>2. t[1] \in Octet BY <1>1, <2>1, ElementOfSeq
  <2>3. t # <<>> BY <1>1, <1>2
  <2> QED BY <2>1, <2>2, <2>3
<1> DEFINE w == Weight(k)
           h == HalfWeight(k)
           g == HalfWeight(n)
           r == Unsigned(t)
           u == Unsigned(o)
           m == Meaning(o)
<1>4. /\ h \in Nat \ {0} /\ w = 2 * h /\ w \in Nat \ {0} /\ g = SignBit * w
      /\ Weight(n) = w * Base
  <2> HIDE DEF k, n
  <2>1. Weight(k + 1) = w * Base BY <1>2, Weights
  <2> QED BY <1>2, <2>1, LessThanHalf
<1>5. IsNegative(t) <=> b >= SignBit
  <2> HIDE DEF t, b
  <2> QED BY <1>3 DEF IsNegative
<1>6. r \in Nat /\ r < w /\ (IsNegative(t) <=> r >= h)
  <2> HIDE DEF t, k
  <2> QED BY <1>1, <1>3, SignIs
<1>7. m = IF IsNegative(o) THEN u - Weight(n) ELSE u BY MeaningRange
<1>8. IsNegative(o) <=> a >= SignBit BY DEF IsNegative
<1>9. ~FitsIn(m, k) BY DEF Needs
<1>10. SignBit \in Nat /\ SignBit >= 2 /\ Base = 2 * SignBit /\ b \in Nat BY <1>3, Bases, OctetIs
<1>11. CASE a = 0 /\ b < SignBit
  <2>1. ~IsNegative(o) /\ ~(r >= h)
    <3> HIDE DEF a, b, r
    <3> QED BY <1>5, <1>6, <1>8, <1>10, <1>11
  <2>2. u = r
    <3>1. 0 * w = 0 BY <1>4
    <3> HIDE DEF a, w, r, u
    <3>2. u = 0 * w + r BY <1>1, <1>11 DEF u, w, r
    <3> QED BY <1>6, <3>1, <3>2
  <2>3. m = r BY <1>7, <2>1, <2>2
  <2> HIDE DEF h, r, w, m
  <2>4. -h <= m /\ m < h BY <1>4, <1>6, <2>1, <2>3
  <2> QED BY <1>9, <2>4 DEF FitsIn, h
<1>12. CASE a = Base - 1 /\ b >= SignBit
  <2>1. IsNegative(o) /\ r >= h
    <3> HIDE DEF a, b, r
    <3> QED BY <1>5, <1>6, <1>8, <1>10, <1>12
  <2>2. u = (Base - 1) * w + r BY <1>1, <1>12
  <2>3. m = u - w * Base BY <1>4, <1>7, <2>1
  <2>4. (Base - 1) * w = w * Base - w /\ w * Base \in Int
    <3> HIDE DEF w
    <3>1. \A p, q \in Int : (p - 1) * q = q * p - q /\ q * p \in Int OBVIOUS
    <3> QED BY <1>4, <3>1, Bases
  <2> DEFINE p == w * Base
             q == (Base - 1) * w
  <2>5. q = p - w /\ p \in Int /\ u = q + r /\ m = u - p BY <2>2, <2>3, <2>4
  <2> HIDE DEF h, r, w, m, p, q, u
  <2>6. -h <= m /\ m < h BY <1>4, <1>6, <2>1, <2>5
  <2> QED BY <1>9, <2>6 DEF FitsIn, h
<1> QED BY <1>11, <1>12

----------------------------------------------------------------------------
(* INTEGER: encoding a Fixnum *)

\* A number that n octets have room for, not counting its sign.
HasRoom(v, n) == -Weight(n) <= v /\ v < Weight(n)

\* The lowest octets of a number, all but its sign.
Lowest(o, v, n) ==
  /\ o \in Seq(Octet) /\ Len(o) = n
  /\ Unsigned(o) = IF v >= 0 THEN v ELSE v + Weight(n)

\* What IntegersExact says of the octets of a number.
Exact(o, v) == o \in Seq(Octet) /\ o # <<>> /\ Meaning(o) = v /\ Needs(v, Len(o))

LEMMA RemainderIs ==
  ASSUME NEW v \in Int, NEW w \in Nat \ {0}
  PROVE  /\ -w <= v /\ v < w => v % w = IF v >= 0 THEN v ELSE v + w
         /\ v \div w = (IF v >= 0 THEN 0 ELSE -1) <=> -w <= v /\ v < w
<1> DEFINE q == v \div w
           r == v % w
<1>1. q \in Int /\ r \in 0..(w - 1) /\ v = q * w + r BY Division
<1>2. ASSUME -w <= v, v < w
      PROVE  q = (IF v >= 0 THEN 0 ELSE -1) /\ r = IF v >= 0 THEN v ELSE v + w
  <2>1. CASE v >= 0
    <3>1. v = 0 * w + v /\ v \in 0..(w - 1) /\ 0 \in Int BY <1>2, <2>1
    <3>2. (0 * w + v) \div w = 0 /\ (0 * w + v) % w = v BY <3>1, Quotient
    <3> QED BY <2>1, <3>1, <3>2
  <2>2. CASE ~(v >= 0)
    <3> DEFINE x == v + w
               y == -1
    <3>1. v = y * w + x /\ x \in 0..(w - 1) /\ y \in Int BY <1>2, <2>2
    <3> HIDE DEF x, y
    <3>2. (y * w + x) \div w = y /\ (y * w + x) % w = x BY <3>1, Quotient
    <3> QED BY <2>2, <3>1, <3>2 DEF x, y
  <2> QED BY <2>1, <2>2
<1>3. ASSUME q = (IF v >= 0 THEN 0 ELSE -1)
      PROVE  -w <= v /\ v < w
  <2> HIDE DEF q, r
  <2>1. CASE v >= 0
    <3>1. 0 * w = 0 /\ q = 0 BY <1>3, <2>1
    <3>2. v = r BY <1>1, <3>1
    <3> QED BY <1>1, <2>1, <3>2
  <2>2. CASE ~(v >= 0)
    <3>1. (-1) * w = -w /\ q = -1 BY <1>3, <2>2
    <3>2. v = -w + r BY <1>1, <3>1
    <3> QED BY <1>1, <2>2, <3>2
  <2> QED BY <2>1, <2>2
<1> QED BY <1>2, <1>3

LEMMA LowestIs ==
  ASSUME NEW v \in Int, NEW n \in Nat, HasRoom(v, n)
  PROVE  Lowest(LowOctets(v, n), v, n)
<1> DEFINE w == Weight(n)
<1>1. w \in Nat \ {0} BY Weights
<1>2. -w <= v /\ v < w BY DEF HasRoom
<1>3. Unsigned(LowOctets(v, n)) = v % w /\ LowOctets(v, n) \in Seq(Octet) /\ Len(LowOctets(v, n)) = n
  BY LowOctetsAre
<1> HIDE DEF w
<1>4. v % w = IF v >= 0 THEN v ELSE v + w BY <1>1, <1>2, RemainderIs
<1> QED BY <1>3, <1>4 DEF Lowest, w

LEMMA RoomIsHalf ==
  ASSUME NEW v \in Int, NEW n \in Nat \ {0}, FitsIn(v, n)
  PROVE  HasRoom(v, n)
<1> DEFINE h == HalfWeight(n)
           w == Weight(n)
<1>1. h \in Nat \ {0} /\ w = 2 * h BY LessThanHalf
<1>2. -h <= v /\ v < h BY DEF FitsIn
<1> HIDE DEF h, w
<1>3. -w <= v /\ v < w BY <1>1, <1>2
<1> QED BY <1>3 DEF HasRoom, w

LEMMA LowestIsRemainder ==
  ASSUME NEW v \in Int, NEW n \in Nat \ {0}, NEW o, Lowest(o, v, n), HasRoom(v, n)
  PROVE  /\ o \in Seq(Octet) /\ Len(o) = n /\ o # <<>>
         /\ Unsigned(o) = v % Weight(n)
         /\ IsNegative(o) <=> (IF v >= 0 THEN v >= HalfWeight(n) ELSE v >= -HalfWeight(n))
<1> DEFINE w == Weight(n)
           h == HalfWeight(n)
           u == Unsigned(o)
<1>1. o \in Seq(Octet) /\ Len(o) = n /\ u = IF v >= 0 THEN v ELSE v + w BY DEF Lowest
<1>2. o # <<>> BY <1>1
<1>3. IsNegative(o) <=> u >= h BY <1>1, <1>2, SignIs
<1>4. h \in Nat \ {0} /\ w = 2 * h /\ w \in Nat \ {0} BY LessThanHalf
<1>5. -w <= v /\ v < w BY DEF HasRoom
<1> HIDE DEF w, h, u
<1>6. v % w = IF v >= 0 THEN v ELSE v + w BY <1>4, <1>5, RemainderIs
<1>7. u >= h <=> IF v >= 0 THEN v >= h ELSE v >= -h BY <1>1, <1>4
<1> QED BY <1>1, <1>2, <1>3, <1>6, <1>7 DEF w, h, u

\* The sign is repeated in an octet of its own when the first octet lacks it.
LEMMA LongerIsExact ==
  ASSUME NEW v \in Int, NEW n \in Nat \ {0}, NEW o, Lowest(o, v, n), HasRoom(v, n),
         (v >= 0) <=> IsNegative(o)
  PROVE  Exact(<< SignOctet(v) >> \o o, v)
<1> DEFINE w == Weight(n)
           h == HalfWeight(n)
           u == Unsigned(o)
           x == SignOctet(v)
           g == <<x>> \o o
           k == n + 1
           z == Weight(k)
           d == HalfWeight(k)
<1>1. o \in Seq(Octet) /\ Len(o) = n /\ u = IF v >= 0 THEN v ELSE v + w BY DEF Lowest
<1>2. IsNegative(o) <=> IF v >= 0 THEN v >= h ELSE v >= -h BY LowestIsRemainder
<1>3. h \in Nat \ {0} /\ w = 2 * h /\ w \in Nat \ {0} /\ w <= d BY LessThanHalf
<1>4. -w <= v /\ v < w BY DEF HasRoom
<1>5. x \in Octet BY Bases DEF SignOctet, Octet
<1>6. g \in Seq(Octet) /\ Len(g) = k /\ g # <<>> /\ Unsigned(g) = x * w + u
  BY <1>1, <1>5, WithFirstOctet
<1>7. z \in Nat \ {0} /\ z = w * Base /\ d \in Nat
  <2>1. k \in Nat \ {0} OBVIOUS
  <2>2. z = w * Base BY Weights
  <2> HIDE DEF k
  <2> QED BY <2>1, <2>2, HalfWeights
<1>8. Unsigned(g) = IF v >= 0 THEN v ELSE v + z
  <2> HIDE DEF g, w, u, z
  <2>1. CASE v >= 0
    <3>1. x = 0 /\ u = v /\ 0 * w = 0 BY <1>1, <1>3, <2>1 DEF SignOctet
    <3> HIDE DEF x
    <3> QED BY <1>6, <2>1, <3>1
  <2>2. CASE ~(v >= 0)
    <3>1. x = Base - 1 /\ u = v + w BY <1>1, <2>2 DEF SignOctet
    <3>2. (Base - 1) * w = w * Base - w
      <4>1. \A p, q \in Int : (p - 1) * q = q * p - q OBVIOUS
      <4> QED BY <1>3, <4>1, Bases
    <3> HIDE DEF x
    <3>3. Unsigned(g) = (w * Base - w) + (v + w) BY <1>6, <3>1, <3>2
    <3> DEFINE p == w * Base
    <3>4. p \in Int /\ z = p BY <1>7
    <3> HIDE DEF p
    <3>5. (p - w) + (v + w) = v + p BY <1>3, <3>4
    <3>6. Unsigned(g) = (p - w) + (v + w) BY <3>3 DEF p
    <3> QED BY <2>2, <3>4, <3>5, <3>6
  <2> QED BY <2>1, <2>2
<1>9. z >= w
  <2>1. \A p, q \in Nat : q >= 1 => p * q >= p
    <3> SUFFICES ASSUME NEW p \in Nat, NEW q \in Nat, q >= 1 PROVE p * q >= p OBVIOUS
    <3>1. p * q = p + p * (q - 1) /\ q - 1 \in Nat OBVIOUS
    <3>2. \A a, b \in Nat : a * b \in Nat OBVIOUS
    <3>3. p * (q - 1) \in Nat BY <3>1, <3>2
    <3> QED BY <3>1, <3>3
  <2> HIDE DEF w
  <2> QED BY <1>3, <1>7, <2>1, Bases
<1>10. Unsigned(g) = v % z
  <2> HIDE DEF w, z
  <2>1. -z <= v /\ v < z BY <1>3, <1>4, <1>7, <1>9
  <2>2. v % z = IF v >= 0 THEN v ELSE v + z BY <1>7, <2>1, RemainderIs
  <2> QED BY <1>8, <2>2
<1>11. -d <= v /\ v < d
  <2> HIDE DEF d, w
  <2> QED BY <1>3, <1>4, <1>7
<1>12. Meaning(g) = v
  <2> HIDE DEF g
  <2>1. Unsigned(g) = v % Weight(Len(g)) /\ -HalfWeight(Len(g)) <= v /\ v < HalfWeight(Len(g))
    BY <1>6, <1>10, <1>11
  <2> QED BY <1>6, <2>1, MeaningByRange
<1>13. Needs(v, k)
  <2>1. k - 1 = n OBVIOUS
  <2>2. ~(-h <= v /\ v < h)
    <3> HIDE DEF h
    <3> QED BY <1>2, <1>3
  <2> HIDE DEF k
  <2>3. ~FitsIn(v, k - 1) BY <2>1, <2>2 DEF FitsIn
  <2> QED BY <2>3 DEF Needs
<1> QED BY <1>6, <1>12, <1>13 DEF Exact

LEMMA SameMeaning ==
  ASSUME NEW v \in Int, NEW n \in Nat \ {0}, NEW o, Lowest(o, v, n), HasRoom(v, n),
         ~((v >= 0) <=> IsNegative(o))
  PROVE  Meaning(o) = v /\ FitsIn(v, n) /\ o # <<>> /\ o \in Seq(Octet) /\ Len(o) = n
<1> DEFINE h == HalfWeight(n)
           w == Weight(n)
<1>1. /\ o \in Seq(Octet) /\ Len(o) = n /\ o # <<>>
      /\ Unsigned(o) = v % Weight(n)
      /\ IsNegative(o) <=> (IF v >= 0 THEN v >= h ELSE v >= -h) BY LowestIsRemainder
<1>2. h \in Nat \ {0} /\ w = 2 * h BY LessThanHalf
<1>3. -w <= v /\ v < w BY DEF HasRoom
<1> HIDE DEF h, w
<1>4. -h <= v /\ v < h BY <1>1, <1>2, <1>3
<1>5. -HalfWeight(Len(o)) <= v /\ v < HalfWeight(Len(o)) BY <1>1, <1>4 DEF h
<1>6. Meaning(o) = v BY <1>1, <1>5, MeaningByRange
<1> QED BY <1>1, <1>4, <1>6 DEF FitsIn, h

\* Less than n octets have no room for a number: it needs all of n + 1 octets.
LEMMA NoRoomIsNeed ==
  ASSUME NEW v \in Int, NEW n \in Nat \ {0}, n = 1 \/ ~HasRoom(v, n - 1)
  PROVE  Needs(v, n)
<1>1. CASE n = 1 BY <1>1 DEF Needs
<1>2. CASE n # 1
  <2> DEFINE k == n - 1
  <2>1. k \in Nat \ {0} /\ ~HasRoom(v, k) BY <1>2
  <2> HIDE DEF k
  <2>2. ~FitsIn(v, k) BY <2>1, RoomIsHalf
  <2> QED BY <2>2 DEF Needs, k
<1> QED BY <1>1, <1>2

\* The octets a number has room in.
RoomsOf(v) == {n \in 1..SIZEOF_LONG : v \div 2^(CHAR_BIT * n) = IF v >= 0 THEN 0 ELSE -1}

LEMMA RoomsAre ==
  ASSUME NEW v \in Int
  PROVE  \A n : n \in RoomsOf(v) <=> n \in 1..SIZEOF_LONG /\ HasRoom(v, n)
<1>1. ASSUME NEW n \in 1..SIZEOF_LONG
      PROVE  v \div 2^(CHAR_BIT * n) = (IF v >= 0 THEN 0 ELSE -1) <=> HasRoom(v, n)
  <2> DEFINE w == Weight(n)
  <2>1. n \in Nat OBVIOUS
  <2>2. w \in Nat \ {0} /\ w = 2^(CHAR_BIT * n) BY <2>1, Weights DEF Weight
  <2> HIDE DEF w
  <2>3. v \div w = (IF v >= 0 THEN 0 ELSE -1) <=> -w <= v /\ v < w BY <2>2, RemainderIs
  <2>4. HasRoom(v, n) <=> -w <= v /\ v < w BY DEF HasRoom, w
  <2> QED BY <2>2, <2>3, <2>4
<1> QED BY <1>1 DEF RoomsOf

\* The encoding of a number that a long has room for.
LEMMA LongIsExact ==
  ASSUME NEW v \in Int, HasRoom(v, SIZEOF_LONG)
  PROVE  Exact(krypt_asn1_encode_integer(v), v)
<1> DEFINE R == RoomsOf(v)
           n == Min(R)
           o == LowOctets(v, n)
<1>1. SIZEOF_LONG \in Nat \ {0} BY WidthsAssumption
<1>2. R \subseteq Nat /\ R # {}
  <2>1. SIZEOF_LONG \in 1..SIZEOF_LONG BY <1>1
  <2>2. SIZEOF_LONG \in R BY <2>1, RoomsAre
  <2>3. \A k \in R : k \in Nat BY <1>1, RoomsAre
  <2> QED BY <2>2, <2>3
<1>3. n \in R /\ \A k \in R : n <= k
  <2> HIDE DEF R
  <2> QED BY <1>2, LeastIn
<1> HIDE DEF n
<1>4. n \in 1..SIZEOF_LONG /\ HasRoom(v, n) BY <1>3, RoomsAre
<1>5. n = 1 \/ ~HasRoom(v, n - 1)
  <2> SUFFICES ASSUME n # 1, HasRoom(v, n - 1)
               PROVE  FALSE
    OBVIOUS
  <2> DEFINE k == n - 1
  <2>1. k \in 1..SIZEOF_LONG /\ ~(n <= k) /\ HasRoom(v, k) BY <1>1, <1>4
  <2> HIDE DEF k
  <2>2. k \in R BY <2>1, RoomsAre
  <2> QED BY <1>3, <2>1, <2>2
<1>6. n \in Nat \ {0} /\ n \in Nat BY <1>1, <1>4
<1>7. Lowest(o, v, n) BY <1>4, <1>6, LowestIs
<1>8. Needs(v, n) BY <1>5, <1>6, NoRoomIsNeed
<1>9. krypt_asn1_encode_integer(v) = IF (v >= 0) = IsNegative(o) THEN <<IF v >= 0 THEN 0 ELSE Base - 1>> \o o ELSE o
  BY Zenon DEF krypt_asn1_encode_integer, RoomsOf, n, o
<1> HIDE DEF o, R
<1>10. CASE (v >= 0) = IsNegative(o)
  <2>1. krypt_asn1_encode_integer(v) = <<SignOctet(v)>> \o o BY <1>9, <1>10, Zenon DEF SignOctet
  <2>2. (v >= 0) <=> IsNegative(o) BY <1>10
  <2>3. Exact(<<SignOctet(v)>> \o o, v) BY <1>4, <1>6, <1>7, <2>2, LongerIsExact
  <2> QED BY <2>1, <2>3
<1>11. CASE (v >= 0) # IsNegative(o)
  <2>1. krypt_asn1_encode_integer(v) = o BY <1>9, <1>11, Zenon
  <2>2. ~((v >= 0) <=> IsNegative(o)) BY <1>11 DEF IsNegative
  <2>3. Meaning(o) = v /\ o # <<>> /\ o \in Seq(Octet) /\ Len(o) = n
    BY <1>4, <1>6, <1>7, <2>2, SameMeaning
  <2>4. Exact(o, v) BY <1>8, <2>3 DEF Exact
  <2> QED BY <2>1, <2>4
<1> QED BY <1>10, <1>11

\* The octets that the magnitude of a number takes, in octets and in longs.
OctetsOf(v) == {n \in 1..MaxLongs * SIZEOF_LONG : Magnitude(v) < 2^(CHAR_BIT * n)}

LongsOf(v) == {n \in 1..MaxLongs : Magnitude(v) < 2^(LONG_BITS * n)}

LEMMA MagnitudeIs ==
  ASSUME NEW v \in Int
  PROVE  Magnitude(v) \in Nat /\ (v >= 0 => Magnitude(v) = v) /\ (v < 0 => Magnitude(v) = -v)
  BY DEF Magnitude

\* The widths of longs, in bits and in octets.
LEMMA LongWidths ==
  ASSUME NEW n \in Nat
  PROVE  /\ 2^(LONG_BITS * n) = Weight(n * SIZEOF_LONG)
         /\ n * SIZEOF_LONG \in Nat /\ (n # 0 => n * SIZEOF_LONG \in Nat \ {0})
         /\ MaxLongs * SIZEOF_LONG \in Nat \ {0} /\ SIZEOF_LONG \in Nat \ {0} /\ MaxLongs \in Nat \ {0}
<1>1. SIZEOF_LONG \in Nat \ {0} /\ MaxLongs \in Nat \ {0} /\ CHAR_BIT \in Nat BY WidthsAssumption
<1>2. \A x, y \in Nat \ {0} : x * y \in Nat \ {0}
  <2> SUFFICES ASSUME NEW x \in Nat \ {0}, NEW y \in Nat \ {0} PROVE x * y \in Nat \ {0}
    OBVIOUS
  <2>1. x * y = (x - 1) * y + y /\ x - 1 \in Nat OBVIOUS
  <2>2. \A p, q \in Nat : p * q \in Nat OBVIOUS
  <2>3. (x - 1) * y \in Nat BY <2>1, <2>2
  <2> QED BY <2>1, <2>3
<1>3. \A x, y, z \in Nat : (x * y) * z = x * (z * y) /\ z * y \in Nat OBVIOUS
<1>4. (CHAR_BIT * SIZEOF_LONG) * n = CHAR_BIT * (n * SIZEOF_LONG) /\ n * SIZEOF_LONG \in Nat
  BY <1>1, <1>3
<1>5. n # 0 => n * SIZEOF_LONG \in Nat \ {0} BY <1>1, <1>2
<1>6. MaxLongs * SIZEOF_LONG \in Nat \ {0} BY <1>1, <1>2
<1> QED BY <1>1, <1>4, <1>5, <1>6 DEF Weight, LONG_BITS

LEMMA MagnitudeHasRoom ==
  ASSUME NEW v \in Int, NEW n \in Nat
  PROVE  /\ Magnitude(v) < Weight(n) => HasRoom(v, n)
         /\ v # -Weight(n) /\ HasRoom(v, n) => Magnitude(v) < Weight(n)
<1> DEFINE w == Weight(n)
           m == Magnitude(v)
<1>1. w \in Nat \ {0} /\ m \in Nat /\ (v >= 0 => m = v) /\ (v < 0 => m = -v)
  BY Weights, MagnitudeIs
<1>2. HasRoom(v, n) <=> -w <= v /\ v < w BY DEF HasRoom
<1> HIDE DEF w, m
<1>3. /\ m < w => -w <= v /\ v < w
      /\ v # -w /\ -w <= v /\ v < w => m < w BY <1>1
<1> QED BY <1>2, <1>3 DEF w, m

----------------------------------------------------------------------------
(* INTEGER: encoding a Bignum by way of hex *)

\* What the highest octets of a magnitude are for.
LEMMA MagnitudeNeeds ==
  ASSUME NEW v \in Int, NEW n \in Nat \ {0}, n = 1 \/ Magnitude(v) >= Weight(n - 1)
  PROVE  Needs(v, n)
<1> SUFFICES ASSUME n # 1, FitsIn(v, n - 1)
             PROVE  FALSE
  BY DEF Needs
<1> DEFINE k == n - 1
           h == HalfWeight(k)
           w == Weight(k)
           m == Magnitude(v)
<1>1. k \in Nat \ {0} /\ m >= w OBVIOUS
<1>2. -h <= v /\ v < h BY DEF FitsIn
<1> HIDE DEF k
<1>3. h \in Nat \ {0} /\ w = 2 * h BY <1>1, LessThanHalf
<1>4. m \in Nat /\ (v >= 0 => m = v) /\ (v < 0 => m = -v) BY MagnitudeIs
<1> HIDE DEF h, w, m
<1> QED BY <1>1, <1>2, <1>3, <1>4

\* A magnitude, and the octets that it takes.
IsLeast(v, n) == /\ n \in Nat \ {0}
                 /\ Magnitude(v) < Weight(n)
                 /\ n = 1 \/ Magnitude(v) >= Weight(n - 1)

LEMMA LeastOctets ==
  ASSUME NEW v \in Int, Magnitude(v) < 2^(LONG_BITS * MaxLongs)
  PROVE  IsLeast(v, Min(OctetsOf(v)))
<1> DEFINE R == OctetsOf(v)
           n == Min(R)
           z == MaxLongs * SIZEOF_LONG
           m == Magnitude(v)
<1>1. z \in Nat \ {0} /\ m < Weight(z)
  <2>1. MaxLongs \in Nat BY WidthsAssumption
  <2> QED BY <2>1, LongWidths
<1>2. \A k : k \in R <=> k \in 1..z /\ m < Weight(k) BY DEF OctetsOf, Weight
<1> HIDE DEF R, z
<1>3. R \subseteq Nat /\ R # {}
  <2>1. z \in 1..z /\ \A k \in 1..z : k \in Nat BY <1>1
  <2>2. z \in R BY <1>1, <1>2, <2>1
  <2>3. R \subseteq Nat BY <1>2, <2>1
  <2> QED BY <2>2, <2>3
<1>4. n \in R /\ \A k \in R : n <= k BY <1>3, LeastIn
<1> HIDE DEF n
<1>5. n \in 1..z /\ m < Weight(n) BY <1>2, <1>4
<1>6. ASSUME n # 1
      PROVE  m >= Weight(n - 1)
  <2> DEFINE k == n - 1
             w == Weight(k)
  <2>1. k \in 1..z /\ ~(n <= k) /\ k \in Nat BY <1>1, <1>5, <1>6
  <2> HIDE DEF k
  <2>2. ~(m < w) BY <1>2, <1>4, <2>1
  <2>3. w \in Nat \ {0} /\ m \in Nat BY <2>1, Weights, MagnitudeIs
  <2> HIDE DEF w, m
  <2>4. m >= w BY <2>2, <2>3
  <2> QED BY <2>4 DEF w, k
<1> QED BY <1>1, <1>5, <1>6 DEF IsLeast, n, R

\* Octets that mean a negative number, if the first of them tells its sign.
IsNegativeHex(o, v, n) ==
  n \in Nat \ {0} /\ Lowest(o, v, n) /\ HasRoom(v, n) /\ Needs(v, n)

LEMMA NegativeHex ==
  ASSUME NEW v \in Int, v < 0, Magnitude(v) < 2^(LONG_BITS * MaxLongs)
  PROVE  \E n : IsNegativeHex(EncodeHex(v), v, n)
<1> DEFINE m == Magnitude(v)
           n == Min(OctetsOf(v))
           o == LowOctets(m, n)
           w == Weight(n)
           u == Unsigned(o)
           c == TwosComplement(o)
           a == o[1]
<1>1. IsLeast(v, n) BY LeastOctets
<1>2. EncodeHex(v) = IF v < 0 THEN TwosComplement(o) ELSE IF IsNegative(o) THEN <<0>> \o o ELSE o
  BY Zenon DEF EncodeHex, OctetsOf
<1> HIDE DEF n
<1>3. n \in Nat \ {0} /\ n \in Nat /\ m < w /\ (n = 1 \/ m >= Weight(n - 1)) BY <1>1 DEF IsLeast
<1>4. m \in Nat /\ m = -v /\ w \in Nat \ {0} /\ m # 0 BY <1>3, MagnitudeIs, Weights
<1>5. Lowest(o, m, n)
  <2> HIDE DEF m
  <2>1. HasRoom(m, n)
    <3>1. -w <= m /\ m < w
      <4> HIDE DEF w
      <4> QED BY <1>3, <1>4
    <3> QED BY <3>1 DEF HasRoom
  <2> QED BY <1>3, <1>4, <2>1, LowestIs
<1>6. Needs(v, n) /\ HasRoom(v, n) BY <1>3, MagnitudeNeeds, MagnitudeHasRoom
<1> HIDE DEF o
<1>7. o \in Seq(Octet) /\ Len(o) = n /\ u = m BY <1>4, <1>5 DEF Lowest
<1>8. EncodeHex(v) = c BY <1>2, Zenon
<1>9. 1 \in 1..Len(o) /\ o[1] # 0
  <2>1. o # <<>> BY <1>3, <1>7
  <2>2. u = a * Weight(Len(o) - 1) + Unsigned(Tail(o)) /\ Tail(o) \in Seq(Octet) /\ Len(Tail(o)) = n - 1
        /\ a \in Octet BY <1>7, <2>1, UnsignedOfRest
  <2> DEFINE k == n - 1
             x == Weight(k)
             r == Unsigned(Tail(o))
  <2>3. k \in Nat /\ (k = 0 \/ m >= x) /\ u = a * x + r /\ Tail(o) \in Seq(Octet) /\ Len(Tail(o)) = k
    BY <1>3, <1>7, <2>2
  <2> HIDE DEF k
  <2>4. r \in Nat /\ r < x BY <2>3, UnsignedBounds
  <2>5. x \in Nat \ {0} /\ (k = 0 => x = 1) BY <2>3, Weights
  <2>6. a # 0
    <3> SUFFICES ASSUME a = 0 PROVE FALSE OBVIOUS
    <3> HIDE DEF a, x, r, u, m
    <3>1. 0 * x = 0 BY <2>5
    <3>2. u = r BY <2>3, <2>4, <3>1
    <3> QED BY <1>4, <1>7, <2>3, <2>4, <2>5, <3>2
  <2> QED BY <1>3, <1>7, <2>6
<1>10. PICK l : IsComplement(c, o, l) BY <1>7, <1>9, TwosComplementIs
<1>11. Unsigned(c) + u = w /\ c \in Seq(Octet) /\ Len(c) = n
  BY <1>7, <1>10, ComplementIs DEF IsComplement
<1> HIDE DEF c
<1>12. Unsigned(c) = v + w
  <2>1. Unsigned(c) \in Nat BY <1>11, UnsignedBounds
  <2> DEFINE y == Unsigned(c)
  <2> HIDE DEF y, w, u, m
  <2>2. y + u = w /\ y \in Nat BY <1>11, <2>1 DEF y
  <2>3. y = v + w BY <1>4, <1>7, <2>2
  <2> QED BY <2>3 DEF y
<1>13. Lowest(c, v, n)
  <2>1. ~(v >= 0) OBVIOUS
  <2> QED BY <1>11, <1>12, <2>1 DEF Lowest
<1>14. IsNegativeHex(EncodeHex(v), v, n) BY <1>3, <1>6, <1>8, <1>13 DEF IsNegativeHex
<1> QED BY <1>14

LEMMA HexIsExact ==
  ASSUME NEW v \in Int, v # 0, Magnitude(v) < 2^(LONG_BITS * MaxLongs),
         v > 0 \/ IsNegative(EncodeHex(v))
  PROVE  Exact(EncodeHex(v), v)
<1> DEFINE m == Magnitude(v)
           n == Min(OctetsOf(v))
           o == LowOctets(m, n)
           w == Weight(n)
           u == Unsigned(o)
<1>1. IsLeast(v, n) BY LeastOctets
<1>2. EncodeHex(v) = IF v < 0 THEN TwosComplement(o) ELSE IF IsNegative(o) THEN <<0>> \o o ELSE o
  BY Zenon DEF EncodeHex, OctetsOf
<1> HIDE DEF n
<1>3. n \in Nat \ {0} /\ n \in Nat /\ m < w /\ (n = 1 \/ m >= Weight(n - 1)) BY <1>1 DEF IsLeast
<1>4. m \in Nat /\ (v >= 0 => m = v) /\ (v < 0 => m = -v) /\ w \in Nat \ {0} /\ m # 0
  BY <1>3, MagnitudeIs, Weights
<1>5. Lowest(o, m, n)
  <2> HIDE DEF m
  <2>1. HasRoom(m, n)
    <3>1. -w <= m /\ m < w
      <4> HIDE DEF w
      <4> QED BY <1>3, <1>4
    <3> QED BY <3>1 DEF HasRoom
  <2> QED BY <1>3, <1>4, <2>1, LowestIs
<1>6. Needs(v, n) /\ HasRoom(v, n) BY <1>3, MagnitudeNeeds, MagnitudeHasRoom
<1> HIDE DEF o
<1>7. o \in Seq(Octet) /\ Len(o) = n /\ u = m BY <1>4, <1>5 DEF Lowest
<1>8. CASE v > 0
  <2>1. Lowest(o, v, n) /\ v >= 0 /\ ~(v < 0) BY <1>4, <1>5, <1>8
  <2>2. CASE IsNegative(o)
    <3>1. (v >= 0) <=> IsNegative(o) BY <2>1, <2>2
    <3>2. Exact(<<SignOctet(v)>> \o o, v) BY <1>3, <1>6, <2>1, <3>1, LongerIsExact
    <3>3. SignOctet(v) = 0 BY <2>1 DEF SignOctet
    <3> QED BY <1>2, <2>1, <2>2, <3>2, <3>3, Zenon
  <2>3. CASE ~IsNegative(o)
    <3>1. ~((v >= 0) <=> IsNegative(o)) BY <2>1, <2>3
    <3>2. Meaning(o) = v /\ o # <<>> /\ o \in Seq(Octet) /\ Len(o) = n
      BY <1>3, <1>6, <2>1, <3>1, SameMeaning
    <3>3. Exact(o, v) BY <1>6, <3>2 DEF Exact
    <3> QED BY <1>2, <2>1, <2>3, <3>3, Zenon
  <2> QED BY <2>2, <2>3
<1>9. CASE ~(v > 0)
  <2> DEFINE c == EncodeHex(v)
  <2>1. v < 0 /\ ~(v >= 0) BY <1>9
  <2>2. PICK k : IsNegativeHex(c, v, k) BY <2>1, NegativeHex
  <2>3. IsNegative(c) BY <1>9
  <2> HIDE DEF c
  <2>4. k \in Nat \ {0} /\ Lowest(c, v, k) /\ HasRoom(v, k) /\ Needs(v, k)
    BY <2>2 DEF IsNegativeHex
  <2>5. ~((v >= 0) <=> IsNegative(c)) BY <2>1, <2>3
  <2>6. Meaning(c) = v /\ c # <<>> /\ c \in Seq(Octet) /\ Len(c) = k BY <2>4, <2>5, SameMeaning
  <2>7. Exact(c, v) BY <2>4, <2>6 DEF Exact
  <2> QED BY <2>7 DEF c
<1> QED BY <1>8, <1>9

----------------------------------------------------------------------------
(* INTEGER: encoding a Bignum by way of longs *)

\* A long is what its octets mean.
LEMMA SignedIsMeaning ==
  ASSUME NEW o \in Seq(Octet), Len(o) = SIZEOF_LONG
  PROVE  /\ Signed(Unsigned(o), LONG_BITS) = Meaning(o)
         /\ FitsIn(Meaning(o), SIZEOF_LONG)
<1> DEFINE n == SIZEOF_LONG
           u == Unsigned(o)
           h == HalfWeight(n)
           w == Weight(n)
           m == Meaning(o)
<1>1. n \in Nat \ {0} BY WidthsAssumption
<1>2. o # <<>> BY <1>1
<1>3. u \in Nat /\ u < w /\ (IsNegative(o) <=> u >= h) BY <1>2, SignIs
<1>4. m = IF IsNegative(o) THEN u - w ELSE u BY <1>2, MeaningRange
<1>5. -h <= m /\ m < h BY <1>2, MeaningRange
<1>6. h \in Nat \ {0} /\ w = 2 * h /\ w \in Nat \ {0} /\ h = 2^(LONG_BITS - 1) /\ w = 2^LONG_BITS
  <2>1. h = 2^(CHAR_BIT * n - 1) BY <1>1, HalfWeights
  <2>2. h \in Nat \ {0} /\ w = 2 * h /\ w \in Nat \ {0} BY <1>1, HalfWeights
  <2> QED BY <2>1, <2>2 DEF LONG_BITS, Weight
<1>7. u % w = u
  <2> HIDE DEF u, w
  <2>1. -w <= u /\ u < w BY <1>3, <1>6
  <2>2. u \in Int /\ u >= 0 BY <1>3
  <2> QED BY <1>6, <2>1, <2>2, RemainderIs
<1>8. Signed(u, LONG_BITS) = IF u < h THEN u ELSE u - w
  <2>1. Signed(u, LONG_BITS) = IF u % 2^LONG_BITS < 2^(LONG_BITS - 1) THEN u % 2^LONG_BITS ELSE (u % 2^LONG_BITS) - 2^LONG_BITS
    BY DEF Signed
  <2> QED BY <1>6, <1>7, <2>1, Zenon
<1>9. Signed(u, LONG_BITS) = m
  <2>1. CASE IsNegative(o)
    <3>1. ~(u < h)
      <4> HIDE DEF u, h
      <4> QED BY <1>3, <1>6, <2>1
    <3> QED BY <1>4, <1>8, <2>1, <3>1, Zenon
  <2>2. CASE ~IsNegative(o)
    <3>1. u < h
      <4> HIDE DEF u, h
      <4> QED BY <1>3, <1>6, <2>2
    <3> QED BY <1>4, <1>8, <2>2, <3>1, Zenon
  <2> QED BY <2>1, <2>2
<1> QED BY <1>5, <1>9 DEF FitsIn

LEMMA HalfWeightsAdd ==
  ASSUME NEW m \in Nat \ {0}, NEW n \in Nat
  PROVE  HalfWeight(m + n) = HalfWeight(m) * Weight(n) /\ Weight(m + n) = Weight(m) * Weight(n)
<1> DEFINE j == m - 1
           k == m + n
           a == Weight(j)
           b == Weight(n)
<1>1. j \in Nat /\ k - 1 = j + n OBVIOUS
<1> HIDE DEF j
<1>2. Weight(j + n) = a * b /\ a \in Nat /\ b \in Nat BY <1>1, Weights, WeightsAdd
<1>3. HalfWeight(k) = SignBit * Weight(k - 1) BY DEF HalfWeight
<1>4. HalfWeight(m) = SignBit * a BY DEF HalfWeight, j
<1>5. SignBit * (a * b) = (SignBit * a) * b
  <2> HIDE DEF a, b
  <2>1. \A x, y, z \in Nat : x * (y * z) = (x * y) * z OBVIOUS
  <2> QED BY <1>2, <2>1, Bases
<1>6. Weight(m + n) = Weight(m) * Weight(n) BY WeightsAdd
<1> HIDE DEF k
<1>7. HalfWeight(k) = HalfWeight(m) * b BY <1>1, <1>2, <1>3, <1>4, <1>5
<1> QED BY <1>6, <1>7 DEF k

\* What octets mean, from the first of them and the rest.
LEMMA MeaningOfConcat ==
  ASSUME NEW s \in Seq(Octet), s # <<>>, NEW o \in Seq(Octet)
  PROVE  /\ s \o o \in Seq(Octet) /\ s \o o # <<>> /\ Len(s \o o) = Len(s) + Len(o)
         /\ Meaning(s \o o) = Meaning(s) * Weight(Len(o)) + Unsigned(o)
<1> DEFINE g == s \o o
           a == Len(s)
           b == Len(o)
           x == Weight(a)
           y == Weight(b)
           u == Unsigned(s)
           r == Unsigned(o)
<1>1. g \in Seq(Octet) /\ Unsigned(g) = u * y + r BY UnsignedOfConcat
<1>2. IsConcat(g, s, o) BY ConcatIs
<1> HIDE DEF g
<1>3. a \in Nat \ {0} /\ b \in Nat /\ Len(g) = a + b /\ g[1] = s[1]
  <2>1. a \in Nat \ {0} BY SignIs
  <2>2. 1 \in 1..a BY <2>1
  <2> QED BY <1>2, <2>1, <2>2 DEF IsConcat
<1>4. g # <<>> BY <1>1, <1>3
<1>5. IsNegative(g) <=> IsNegative(s) BY <1>3, <1>4 DEF IsNegative
<1>6. Weight(a + b) = x * y /\ x \in Nat /\ y \in Nat
  <2> HIDE DEF a, b
  <2> QED BY <1>3, Weights, WeightsAdd
<1>7. Meaning(g) = IF IsNegative(g) THEN Unsigned(g) - Weight(Len(g)) ELSE Unsigned(g)
  BY <1>1, <1>4, MeaningRange
<1>8. Meaning(s) = IF IsNegative(s) THEN u - x ELSE u BY MeaningRange
<1>9. u \in Nat /\ r \in Nat BY UnsignedBounds
<1> HIDE DEF x, y, u, r
<1>10. CASE IsNegative(s)
  <2>1. Meaning(g) = (u * y + r) - x * y /\ Meaning(s) = u - x
    BY <1>1, <1>3, <1>5, <1>6, <1>7, <1>8, <1>10
  <2>2. (u * y + r) - x * y = (u - x) * y + r
    <3>1. \A p, q, t, z \in Nat : (p * q + t) - z * q = (p - z) * q + t OBVIOUS
    <3> QED BY <1>6, <1>9, <3>1
  <2> QED BY <1>1, <1>3, <1>4, <2>1, <2>2 DEF g, y, r
<1>11. CASE ~IsNegative(s)
  <2>1. Meaning(g) = u * y + r /\ Meaning(s) = u BY <1>1, <1>5, <1>7, <1>8, <1>11
  <2> QED BY <1>1, <1>3, <1>4, <2>1 DEF g, y, r
<1> QED BY <1>10, <1>11

\* Octets behind it do not make an encoding longer than it need be.
LEMMA NeedsWithRest ==
  ASSUME NEW t \in Int, NEW j \in Nat \ {0}, ~FitsIn(t, j), NEW o \in Seq(Octet)
  PROVE  ~FitsIn(t * Weight(Len(o)) + Unsigned(o), j + Len(o))
<1> DEFINE n == Len(o)
           y == Weight(n)
           r == Unsigned(o)
           h == HalfWeight(j)
           v == t * y + r
<1>1. n \in Nat /\ r \in Nat /\ r < y BY UnsignedBounds
<1>2. y \in Nat \ {0} /\ HalfWeight(j + n) = h * y /\ h \in Nat \ {0}
  <2> HIDE DEF n
  <2> QED BY <1>1, Weights, HalfWeightsAdd, HalfWeights
<1>3. ~(-h <= t /\ t < h) BY DEF FitsIn
<1> HIDE DEF n, y, r, h
<1> DEFINE p == h * y
           q == t * y
<1>4. p \in Nat /\ q \in Int BY <1>2
<1>5. \A a, b \in Int, c \in Nat : a <= b => a * c <= b * c
  <2> SUFFICES ASSUME NEW a \in Int, NEW b \in Int, NEW c \in Nat, a <= b
               PROVE  a * c <= b * c
    OBVIOUS
  <2>1. b - a \in Nat /\ b * c = a * c + (b - a) * c /\ a * c \in Int OBVIOUS
  <2>2. \A i, k \in Nat : i * k \in Nat OBVIOUS
  <2>3. (b - a) * c \in Nat BY <2>1, <2>2
  <2> QED BY <2>1, <2>3
<1>6. CASE t >= h
  <2>1. p <= q BY <1>2, <1>5, <1>6
  <2> HIDE DEF p, q
  <2>2. ~(q + r < p) BY <1>1, <1>4, <2>1
  <2> QED BY <1>2, <2>2 DEF FitsIn, p, q, n, y, r
<1>7. CASE t + 1 <= -h
  <2>1. (t + 1) * y <= (-h) * y
    <3>1. t + 1 \in Int /\ -h \in Int /\ y \in Nat BY <1>2
    <3> QED BY <1>5, <1>7, <3>1
  <2>2. (t + 1) * y = t * y + y /\ (-h) * y = -(h * y)
    <3>1. \A a, c \in Int : (a + 1) * c = a * c + c /\ (-a) * c = -(a * c) OBVIOUS
    <3> QED BY <1>2, <3>1
  <2>3. q + y <= -p BY <2>1, <2>2
  <2> HIDE DEF p, q
  <2>4. ~(-p <= q + r) BY <1>1, <1>2, <1>4, <2>3
  <2> QED BY <1>2, <2>4 DEF FitsIn, p, q, n, y, r
<1> QED BY <1>2, <1>3, <1>6, <1>7

LEMMA LeastLongs ==
  ASSUME NEW v \in Int, Magnitude(v) < 2^(LONG_BITS * MaxLongs)
  PROVE  /\ Min(LongsOf(v)) \in Nat \ {0}
         /\ Magnitude(v) < Weight(Min(LongsOf(v)) * SIZEOF_LONG)
         /\ \/ Min(LongsOf(v)) = 1
            \/ Magnitude(v) >= Weight((Min(LongsOf(v)) - 1) * SIZEOF_LONG)
<1> DEFINE R == LongsOf(v)
           n == Min(R)
           m == Magnitude(v)
<1>1. MaxLongs \in Nat \ {0} BY WidthsAssumption
<1>2. \A k : k \in R <=> k \in 1..MaxLongs /\ m < 2^(LONG_BITS * k) BY DEF LongsOf
<1> HIDE DEF R
<1>3. R \subseteq Nat /\ R # {}
  <2>1. MaxLongs \in 1..MaxLongs /\ \A k \in 1..MaxLongs : k \in Nat BY <1>1
  <2>2. MaxLongs \in R BY <1>2, <2>1
  <2>3. R \subseteq Nat BY <1>2, <2>1
  <2> QED BY <2>2, <2>3
<1>4. n \in R /\ \A k \in R : n <= k BY <1>3, LeastIn
<1> HIDE DEF n
<1>5. n \in 1..MaxLongs /\ m < 2^(LONG_BITS * n) BY <1>2, <1>4
<1>6. n \in Nat \ {0} /\ m < Weight(n * SIZEOF_LONG)
  <2>1. n \in Nat \ {0} /\ n \in Nat BY <1>1, <1>5
  <2> QED BY <1>5, <2>1, LongWidths
<1>7. ASSUME n # 1
      PROVE  m >= Weight((n - 1) * SIZEOF_LONG)
  <2> DEFINE k == n - 1
             w == Weight(k * SIZEOF_LONG)
  <2>1. k \in 1..MaxLongs /\ ~(n <= k) /\ k \in Nat BY <1>1, <1>5, <1>7
  <2> HIDE DEF k
  <2>2. 2^(LONG_BITS * k) = w /\ k * SIZEOF_LONG \in Nat BY <2>1, LongWidths
  <2>3. ~(m < w) BY <1>2, <1>4, <2>1, <2>2
  <2>4. w \in Nat \ {0} /\ m \in Nat BY <2>2, Weights, MagnitudeIs
  <2> HIDE DEF w, m
  <2>5. m >= w BY <2>3, <2>4
  <2> QED BY <2>5 DEF w, k, m
<1> QED BY <1>6, <1>7 DEF n, R

\* The highest long and the rest.
LEMMA LongAndRest ==
  ASSUME NEW o \in Seq(Octet), Len(o) >= SIZEOF_LONG
  PROVE  /\ SubSeq(o, 1, SIZEOF_LONG) \in Seq(Octet) /\ Len(SubSeq(o, 1, SIZEOF_LONG)) = SIZEOF_LONG
         /\ SubSeq(o, SIZEOF_LONG + 1, Len(o)) \in Seq(Octet)
         /\ Len(SubSeq(o, SIZEOF_LONG + 1, Len(o))) = Len(o) - SIZEOF_LONG
         /\ o = SubSeq(o, 1, SIZEOF_LONG) \o SubSeq(o, SIZEOF_LONG + 1, Len(o))
<1> DEFINE k == SIZEOF_LONG
           n == Len(o)
           s == SubSeq(o, 1, k)
           t == SubSeq(o, k + 1, n)
           u == s \o t
<1>1. k \in Nat \ {0} /\ n \in Nat /\ n >= k BY WidthsAssumption
<1> HIDE DEF k
<1>2. s \in Seq(Octet) /\ s = [i \in 1..(k - 1 + 1) |-> o[1 + i - 1]]
  <2>1. 1 \in Nat \ {0} /\ k \in Int /\ k <= n BY <1>1
  <2> QED BY <2>1, SubSeqOf
<1>3. t \in Seq(Octet) /\ t = [i \in 1..(n - (k + 1) + 1) |-> o[(k + 1) + i - 1]]
  <2> DEFINE p == k + 1
  <2>1. p \in Nat \ {0} /\ n \in Int /\ n <= Len(o) BY <1>1
  <2> HIDE DEF p
  <2>2. SubSeq(o, p, n) \in Seq(Octet) /\ SubSeq(o, p, n) = [i \in 1..(n - p + 1) |-> o[p + i - 1]]
    BY <2>1, SubSeqOf
  <2> QED BY <2>2 DEF p
<1> HIDE DEF n, s, t
<1>4. Len(s) = k /\ \A i \in 1..k : s[i] = o[i]
  <2>1. k - 1 + 1 = k /\ \A i \in 1..k : 1 + i - 1 = i BY <1>1
  <2>2. s = [i \in 1..k |-> o[i]] BY <1>2, <2>1
  <2> QED BY <1>1, <2>2
<1>5. Len(t) = n - k /\ \A i \in 1..(n - k) : t[i] = o[k + i]
  <2>1. n - (k + 1) + 1 = n - k /\ (\A i \in 1..(n - k) : (k + 1) + i - 1 = k + i) /\ n - k \in Nat
    BY <1>1
  <2>2. t = [i \in 1..(n - k) |-> o[k + i]] BY <1>3, <2>1
  <2> QED BY <2>1, <2>2
<1>6. u \in Seq(Octet) /\ IsConcat(u, s, t) BY <1>2, <1>3, ConcatIs
<1> HIDE DEF u
<1>7. Len(u) = n BY <1>1, <1>4, <1>5, <1>6 DEF IsConcat
<1>8. ASSUME NEW i \in 1..n
      PROVE  u[i] = o[i]
  <2>1. CASE i <= k
    <3>1. i \in 1..k BY <1>1, <2>1
    <3> QED BY <1>4, <1>6, <3>1 DEF IsConcat
  <2>2. CASE ~(i <= k)
    <3> DEFINE j == i - k
    <3>1. j \in 1..(n - k) /\ k + j = i BY <1>1, <2>2
    <3> HIDE DEF j
    <3>2. u[k + j] = t[j] /\ t[j] = o[k + j] BY <1>4, <1>5, <1>6, <3>1 DEF IsConcat
    <3> QED BY <3>1, <3>2
  <2> QED BY <2>1, <2>2
<1>9. u = o BY <1>6, <1>7, <1>8, SeqEqual DEF n
<1> QED BY <1>2, <1>3, <1>4, <1>5, <1>9 DEF k, n, s, t, u

LEMMA PackedIsExact ==
  ASSUME NEW v \in Int, v # 0, Magnitude(v) < 2^(LONG_BITS * MaxLongs)
  PROVE  Exact(EncodePacked(v), v)
<1> DEFINE l == Min(LongsOf(v))
           k == SIZEOF_LONG
           n == l * k
           p == LowOctets(v, n)
           s == SubSeq(p, 1, k)
           t == SubSeq(p, k + 1, Len(p))
           top == Signed(Unsigned(s), LONG_BITS)
           m == Magnitude(v)
<1>1. l \in Nat \ {0} /\ m < Weight(n) /\ (l = 1 \/ m >= Weight((l - 1) * k)) BY LeastLongs
<1>2. EncodePacked(v) = IF (v > 0) = IsNegative(p) THEN <<IF v > 0 THEN 0 ELSE Base - 1>> \o p
                        ELSE krypt_asn1_encode_integer(top) \o t
  BY Zenon DEF EncodePacked, LongsOf
<1> HIDE DEF l
<1>3. n \in Nat \ {0} /\ n \in Nat /\ k \in Nat \ {0} /\ n - k = (l - 1) * k /\ n >= k
  <2>1. l \in Nat BY <1>1
  <2>2. n \in Nat /\ (l # 0 => n \in Nat \ {0}) /\ k \in Nat \ {0} BY <2>1, LongWidths
  <2>3. n \in Nat \ {0} BY <1>1, <2>2
  <2> HIDE DEF k
  <2> DEFINE j == l - 1
  <2>4. j \in Nat /\ l = j + 1 BY <1>1
  <2> HIDE DEF j
  <2>5. \A x, y \in Nat : (x + 1) * y = x * y + y /\ x * y \in Nat OBVIOUS
  <2>6. n = j * k + k /\ j * k \in Nat BY <2>2, <2>4, <2>5
  <2> DEFINE z == j * k
  <2>7. n = z + k /\ z \in Nat BY <2>6
  <2> HIDE DEF z, n
  <2>8. n - k = z /\ n >= k BY <2>2, <2>7
  <2> QED BY <2>2, <2>3, <2>8 DEF z, j, n
<1> HIDE DEF n, k
<1>4. HasRoom(v, n) BY <1>1, <1>3, MagnitudeHasRoom
<1>5. Lowest(p, v, n) BY <1>3, <1>4, LowestIs
<1> HIDE DEF p
<1>6. CASE (v > 0) = IsNegative(p)
  <2>1. EncodePacked(v) = <<SignOctet(v)>> \o p
    <3>1. (v > 0) = (v >= 0) OBVIOUS
    <3> QED BY <1>2, <1>6, <3>1, Zenon DEF SignOctet
  <2>2. (v >= 0) <=> IsNegative(p) BY <1>6 DEF IsNegative
  <2>3. Exact(<<SignOctet(v)>> \o p, v) BY <1>3, <1>4, <1>5, <2>2, LongerIsExact
  <2> QED BY <2>1, <2>3
<1>7. CASE (v > 0) # IsNegative(p)
  <2> DEFINE e == krypt_asn1_encode_integer(top)
             r == Len(t)
             y == Weight(r)
             b == Unsigned(t)
  <2>1. EncodePacked(v) = e \o t BY <1>2, <1>7, Zenon
  <2>2. ~((v >= 0) <=> IsNegative(p)) BY <1>7 DEF IsNegative
  <2>3. Meaning(p) = v /\ p # <<>> /\ p \in Seq(Octet) /\ Len(p) = n
    BY <1>3, <1>4, <1>5, <2>2, SameMeaning
  <2>4. /\ s \in Seq(Octet) /\ Len(s) = k /\ t \in Seq(Octet) /\ Len(t) = n - k /\ p = s \o t
    BY <1>3, <2>3, LongAndRest DEF k
  <2> HIDE DEF s, t
  <2>5. s # <<>> BY <1>3, <2>4
  <2>6. top = Meaning(s) /\ FitsIn(Meaning(s), k) /\ Meaning(s) \in Int
    BY <2>4, SignedIsMeaning, MeaningIs DEF k
  <2> HIDE DEF top
  <2>7. top \in Int /\ HasRoom(top, k) BY <1>3, <2>6, RoomIsHalf
  <2>8. Exact(e, top) BY <2>7, LongIsExact DEF k
  <2> HIDE DEF e
  <2>9. e \in Seq(Octet) /\ e # <<>> /\ Meaning(e) = top /\ Needs(top, Len(e)) /\ Len(e) \in Nat \ {0}
    BY <2>8, SignIs DEF Exact
  <2>10. v = top * y + b BY <2>3, <2>4, <2>5, <2>6, MeaningOfConcat
  <2>11. e \o t \in Seq(Octet) /\ e \o t # <<>> /\ Len(e \o t) = Len(e) + r /\ Meaning(e \o t) = top * y + b
    BY <2>4, <2>9, MeaningOfConcat
  <2>12. r \in Nat /\ r = (l - 1) * k BY <1>3, <2>4
  <2>13. Needs(v, Len(e) + r)
    <3>1. CASE Len(e) = 1
      <4> DEFINE i == 1 + r
      <4>1. i \in Nat \ {0} /\ i - 1 = r BY <2>12
      <4>2. r = 0 \/ m >= Weight(r)
        <5>1. CASE l = 1
          <6>1. (1 - 1) * k = 0 BY <1>3
          <6> QED BY <2>12, <5>1, <6>1
        <5>2. CASE l # 1 BY <1>1, <2>12, <5>2
        <5> QED BY <5>1, <5>2
      <4>3. i = 1 \/ m >= Weight(i - 1) BY <4>1, <4>2
      <4> HIDE DEF i
      <4>4. Needs(v, i) BY <4>1, <4>3, MagnitudeNeeds
      <4> QED BY <3>1, <4>4 DEF i
    <3>2. CASE Len(e) # 1
      <4> DEFINE j == Len(e) - 1
                 i == Len(e) + r
      <4>1. j \in Nat \ {0} /\ ~FitsIn(top, j) /\ i - 1 = j + r BY <2>9, <2>12, <3>2 DEF Needs
      <4> HIDE DEF j, i
      <4>2. ~FitsIn(top * y + b, j + r) BY <2>4, <2>7, <4>1, NeedsWithRest
      <4>3. Needs(v, i) BY <2>10, <4>1, <4>2 DEF Needs
      <4> QED BY <4>3 DEF i
    <3> QED BY <3>1, <3>2
  <2>14. Exact(e \o t, v) BY <2>10, <2>11, <2>13 DEF Exact
  <2> QED BY <2>1, <2>14
<1> QED BY <1>6, <1>7

LEMMA IntegerIsExact ==
  ASSUME NEW v \in Int, Magnitude(v) < 2^(LONG_BITS * MaxLongs), EncodesRight(v)
  PROVE  Exact(int_asn1_encode_integer(v), v)
<1> DEFINE c == LONG_BITS - 2
           d == 2^c
           w == Weight(SIZEOF_LONG)
<1>1. c \in Nat /\ c + 2 = LONG_BITS
  <2>3. LONG_BITS >= 2 /\ LONG_BITS \in Nat BY LongWidth
  <2> HIDE DEF c
  <2>4. c = LONG_BITS - 2 BY DEF c
  <2> QED BY <2>3, <2>4
<1> HIDE DEF c
<1>2. d \in Nat \ {0} /\ w \in Nat \ {0} /\ d <= w
  <2> DEFINE f == c + 2
  <2>1. f \in Nat /\ c <= f /\ f = LONG_BITS BY <1>1
  <2> HIDE DEF f
  <2>2. 2^c <= 2^f /\ 2^c \in Nat \ {0} /\ 2^f \in Nat \ {0}
    BY <1>1, <2>1, PowersGrow, PowerOfTwo
  <2>3. w = 2^f BY <2>1 DEF Weight, LONG_BITS
  <2> QED BY <2>2, <2>3
<1>3. IsFixnum(v) <=> v \in -d .. d - 1 BY DEF IsFixnum, c
<1> HIDE DEF d, w
<1>4. CASE IsFixnum(v)
  <2>1. -w <= v /\ v < w BY <1>2, <1>3, <1>4
  <2>2. HasRoom(v, SIZEOF_LONG) BY <2>1 DEF HasRoom, w
  <2>3. int_asn1_encode_integer(v) = krypt_asn1_encode_integer(v)
    BY <1>4 DEF int_asn1_encode_integer
  <2> QED BY <2>2, <2>3, LongIsExact
<1>5. CASE ~IsFixnum(v)
  <2>1. v # 0 BY <1>2, <1>3, <1>5
  <2>2. CASE HAVE_RB_BIG_PACK
    <3>1. int_asn1_encode_integer(v) = EncodePacked(v)
      BY <1>5, <2>2 DEF int_asn1_encode_integer, krypt_asn1_encode_bignum
    <3> QED BY <2>1, <3>1, PackedIsExact
  <2>3. CASE ~HAVE_RB_BIG_PACK
    <3>1. int_asn1_encode_integer(v) = EncodeHex(v)
      BY <1>5, <2>3 DEF int_asn1_encode_integer, krypt_asn1_encode_bignum
    <3>2. v > 0 \/ IsNegative(EncodeHex(v)) BY <1>5, <2>3 DEF EncodesRight
    <3> QED BY <2>1, <3>1, <3>2, HexIsExact
  <2> QED BY <2>2, <2>3
<1> QED BY <1>4, <1>5

----------------------------------------------------------------------------
(* INTEGER: the bits of octets *)

HasBit(x, k) == (x \div 2^k) % 2 = 1

\* The bits of a number with one more octet: those of the octet, then those of
\* the number.
LEMMA BitsOfMore ==
  ASSUME NEW a \in Nat, NEW x \in Octet, NEW k \in Nat
  PROVE  /\ k < CHAR_BIT => (HasBit(a * Base + x, k) <=> HasBit(x, k))
         /\ k >= CHAR_BIT => (HasBit(a * Base + x, k) <=> HasBit(a, k - CHAR_BIT))
<1> DEFINE c == CHAR_BIT
           b == Base
           y == a * b + x
<1>1. x \in 0..(b - 1) /\ b \in Nat \ {0} /\ c \in Nat /\ b = 2^c /\ x \in Nat /\ y \in Int
  <2>1. x \in 0..(b - 1) /\ b \in Nat \ {0} /\ c \in Nat /\ b = 2^c BY Bases DEF Octet, Base
  <2> HIDE DEF b
  <2>2. x \in Nat BY <2>1
  <2>3. \A p, q, z \in Nat : p * q + z \in Int OBVIOUS
  <2> QED BY <2>1, <2>2, <2>3
<1> HIDE DEF b
<1>2. y \div b = a BY <1>1, Quotient
<1>3. ASSUME k >= c
      PROVE  HasBit(y, k) <=> HasBit(a, k - c)
  <2> DEFINE d == k - c
             e == 2^d
  <2>1. d \in Nat /\ k = c + d BY <1>1, <1>3
  <2> HIDE DEF d
  <2>2. e \in Nat \ {0} /\ 2^k = b * e BY <1>1, <2>1, PowerOfTwo, PowersAdd
  <2> HIDE DEF y, e
  <2>3. (y \div b) \div e = y \div (b * e) BY <1>1, <2>2, DivideTwice
  <2>4. y \div 2^k = a \div e BY <1>2, <2>2, <2>3
  <2> QED BY <2>4 DEF HasBit, e, d
<1>4. ASSUME k < c
      PROVE  HasBit(y, k) <=> HasBit(x, k)
  <2> DEFINE d == c - k - 1
             e == 2^d
             f == 2^k
             q == x \div f
             r == x % f
             g == a * e
             h == 2 * g + q
  <2>1. d \in Nat /\ c = k + (d + 1) BY <1>1, <1>4
  <2> HIDE DEF d
  <2>2. e \in Nat \ {0} /\ f \in Nat \ {0} /\ 2^(d + 1) = 2 * e BY <2>1, PowerOfTwo
  <2>3. b = f * (2 * e)
    <3> DEFINE z == d + 1
    <3>1. z \in Nat /\ c = k + z /\ 2^z = 2 * e BY <2>1, <2>2
    <3> HIDE DEF z
    <3>2. 2^(k + z) = 2^k * 2^z BY <3>1, PowersAdd
    <3> QED BY <1>1, <3>1, <3>2
  <2> HIDE DEF e, f
  <2>4. q \in Int /\ r \in 0..(f - 1) /\ x = q * f + r
    <3>1. x \in Int /\ f \in Nat \ {0} BY <1>1, <2>2
    <3> QED BY <3>1, Division
  <2> HIDE DEF q, r
  <2>5. g \in Nat
    <3>1. \A i, j \in Nat : i * j \in Nat OBVIOUS
    <3> QED BY <2>2, <3>1
  <2>6. a * (f * (2 * e)) + (q * f + r) = (2 * (a * e) + q) * f + r
    <3>1. \A i, j, l \in Nat, m, n \in Int : i * (j * (2 * l)) + (m * j + n) = (2 * (i * l) + m) * j + n
      OBVIOUS
    <3>2. r \in Int BY <2>2, <2>4
    <3> QED BY <2>2, <2>4, <3>1, <3>2
  <2>7. y = h * f + r BY <2>3, <2>4, <2>6
  <2> HIDE DEF g, y
  <2>8. h \in Int BY <2>4, <2>5
  <2> HIDE DEF h
  <2>9. y \div f = h BY <2>2, <2>4, <2>7, <2>8, Quotient
  <2>10. h % 2 = q % 2 BY <2>4, <2>5 DEF h
  <2> QED BY <2>9, <2>10 DEF HasBit, f, q
<1> QED BY <1>3, <1>4 DEF y, b

\* The part of a number that an octet of it is.
Place(o, i) == o[i] * Weight(Len(o) - i)

\* A number has the bits of its octets, and they are no greater than it is.
HasBitsOfPlaces(o) ==
  /\ \A i \in 1..Len(o) : Place(o, i) \in Nat /\ Place(o, i) <= Unsigned(o)
  /\ \A k \in Nat : HasBit(Unsigned(o), k) <=> \E i \in 1..Len(o) : HasBit(Place(o, i), k)

LEMMA NoBits ==
  ASSUME NEW k \in Nat
  PROVE  ~HasBit(0, k)
<1> DEFINE f == 2^k
<1>1. f \in Nat \ {0} BY PowerOfTwo
<1> HIDE DEF f
<1>2. 0 \in Int /\ 0 \in 0..(f - 1) /\ 0 * f + 0 = 0 BY <1>1
<1>3. (0 * f + 0) \div f = 0 BY <1>1, <1>2, Quotient
<1>4. 0 \div f = 0 BY <1>2, <1>3
<1>5. 0 % 2 # 1 OBVIOUS
<1> QED BY <1>4, <1>5 DEF HasBit, f

LEMMA PlacesOfMore ==
  ASSUME NEW f \in Seq(Octet), NEW n \in Nat, Len(f) = n, NEW x \in Octet, HasBitsOfPlaces(f)
  PROVE  HasBitsOfPlaces(Append(f, x))
<1> DEFINE t == Append(f, x)
           u == Unsigned(f)
           v == Unsigned(t)
           c == CHAR_BIT
           m == n + 1
<1>1. /\ t \in Seq(Octet) /\ Len(t) = m /\ t[m] = x
      /\ \A i \in 1..n : t[i] = f[i]
  <2>1. t \in Seq(Octet) /\ Len(t) = n + 1 /\ t[n + 1] = x OBVIOUS
  <2>2. \A i \in 1..n : t[i] = f[i] OBVIOUS
  <2> QED BY <2>1, <2>2
<1>2. v = u * Base + x BY UnsignedOfAppend
<1> HIDE DEF t
<1>3. u \in Nat /\ v \in Nat /\ x \in Nat /\ Base \in Nat \ {0} /\ c \in Nat
  BY <1>1, UnsignedBounds, OctetIs, Bases
<1>4. Place(t, m) = x
  <2>1. Len(t) - m = 0 /\ Weight(0) = 1 /\ x * 1 = x BY <1>1, <1>3, Weights
  <2> QED BY <1>1, <2>1 DEF Place
<1>5. ASSUME NEW i \in 1..n
      PROVE  Place(t, i) = Place(f, i) * Base
  <2> DEFINE j == n - i
             a == f[i]
             w == Weight(j)
  <2>1. j \in Nat /\ Len(t) - i = j + 1 /\ Len(f) - i = j BY <1>1
  <2>2. a \in Octet /\ t[i] = a BY <1>1, ElementOfSeq
  <2> HIDE DEF j, a
  <2>3. Weight(j + 1) = w * Base /\ w \in Nat /\ a \in Nat BY <2>1, <2>2, Weights, OctetIs
  <2>4. a * (w * Base) = (a * w) * Base
    <3> HIDE DEF w
    <3>1. \A p, q, r \in Nat : p * (q * r) = (p * q) * r OBVIOUS
    <3> QED BY <1>3, <2>3, <3>1
  <2>5. Place(t, i) = a * (w * Base) BY <2>1, <2>2, <2>3 DEF Place
  <2>6. Place(f, i) = a * w BY <2>1 DEF Place, a, w
  <2> QED BY <2>4, <2>5, <2>6
<1>6. \A i \in 1..n : Place(f, i) \in Nat /\ Place(f, i) <= u BY DEF HasBitsOfPlaces
<1>7. \A i \in 1..m : i = m \/ i \in 1..n OBVIOUS
<1>8. m \in 1..m /\ \A i \in 1..n : i \in 1..m OBVIOUS
<1> HIDE DEF u, v, m
<1>9. ASSUME NEW i \in 1..m
      PROVE  Place(t, i) \in Nat /\ Place(t, i) <= v
  <2>1. \A p, q, b \in Nat : p <= q => p * b \in Nat /\ p * b <= q * b
    <3> SUFFICES ASSUME NEW p \in Nat, NEW q \in Nat, NEW b \in Nat, p <= q
                 PROVE  p * b \in Nat /\ p * b <= q * b
      OBVIOUS
    <3>1. q - p \in Nat /\ q * b = p * b + (q - p) * b OBVIOUS
    <3>2. \A k, l \in Nat : k * l \in Nat OBVIOUS
    <3>3. (q - p) * b \in Nat /\ p * b \in Nat BY <3>1, <3>2
    <3> QED BY <3>1, <3>3
  <2> DEFINE y == u * Base
  <2>2. y \in Nat /\ v = y + x BY <1>2, <1>3, <2>1
  <2>3. CASE i = m
    <3> HIDE DEF y
    <3> QED BY <1>3, <1>4, <2>2, <2>3
  <2>4. CASE i \in 1..n
    <3> DEFINE p == Place(f, i)
               z == p * Base
    <3>1. p \in Nat /\ p <= u BY <1>6, <2>4
    <3>2. Place(t, i) = z BY <1>5, <2>4
    <3> HIDE DEF p
    <3>3. z \in Nat /\ z <= y BY <1>3, <2>1, <3>1
    <3> HIDE DEF y, z
    <3> QED BY <1>3, <2>2, <3>2, <3>3
  <2> QED BY <1>7, <2>3, <2>4
<1>10. ASSUME NEW k \in Nat
       PROVE  HasBit(v, k) <=> \E i \in 1..m : HasBit(Place(t, i), k)
  <2>0. \A a \in Nat : a * Base + 0 = a * Base
    <3>1. \A a, b \in Nat : a * b + 0 = a * b OBVIOUS
    <3> QED BY <1>3, <3>1
  <2>00. 0 \in Octet /\ 0 \in Nat BY <1>3 DEF Octet
  <2>1. CASE k < c
    <3>1. HasBit(v, k) <=> HasBit(x, k) BY <1>2, <1>3, <2>1, BitsOfMore
    <3>2. ASSUME NEW i \in 1..n
          PROVE  ~HasBit(Place(t, i), k)
      <4> DEFINE p == Place(f, i)
      <4>1. p \in Nat /\ Place(t, i) = p * Base + 0 BY <1>5, <1>6, <2>0
      <4> HIDE DEF p
      <4>2. HasBit(p * Base + 0, k) <=> HasBit(0, k) BY <2>00, <2>1, <4>1, BitsOfMore
      <4> QED BY <4>1, <4>2, NoBits
    <3> QED BY <1>4, <1>7, <1>8, <3>1, <3>2
  <2>2. CASE k >= c
    <3> DEFINE d == k - c
    <3>1. d \in Nat BY <1>3, <2>2
    <3>2. HasBit(v, k) <=> HasBit(u, d) BY <1>2, <1>3, <2>2, BitsOfMore
    <3>3. ASSUME NEW i \in 1..n
          PROVE  HasBit(Place(t, i), k) <=> HasBit(Place(f, i), d)
      <4> DEFINE p == Place(f, i)
      <4>1. p \in Nat /\ Place(t, i) = p * Base + 0 BY <1>5, <1>6, <2>0
      <4> HIDE DEF p
      <4>2. HasBit(p * Base + 0, k) <=> HasBit(p, d) BY <2>00, <2>2, <4>1, BitsOfMore
      <4> QED BY <4>1, <4>2 DEF p
    <3>4. ~HasBit(x, k)
      <4>1. 0 * Base + x = x BY <1>3
      <4>2. HasBit(0 * Base + x, k) <=> HasBit(0, d) BY <2>00, <2>2, BitsOfMore
      <4> QED BY <3>1, <4>1, <4>2, NoBits
    <3> HIDE DEF d
    <3>5. HasBit(u, d) <=> \E i \in 1..n : HasBit(Place(f, i), d) BY <3>1 DEF HasBitsOfPlaces, u
    <3> QED BY <1>4, <1>7, <1>8, <3>2, <3>3, <3>4, <3>5
  <2> QED BY <1>3, <2>1, <2>2
<1> QED BY <1>1, <1>9, <1>10 DEF HasBitsOfPlaces, t, v

LEMMA PlacesOfOctets ==
  ASSUME NEW o \in Seq(Octet)
  PROVE  HasBitsOfPlaces(o)
<1> DEFINE S == {n \in Nat : \A t \in Seq(Octet) : Len(t) = n => HasBitsOfPlaces(t)}
<1>1. 0 \in S
  <2> SUFFICES ASSUME NEW t \in Seq(Octet), Len(t) = 0
               PROVE  HasBitsOfPlaces(t)
    OBVIOUS
  <2>1. t = <<>> /\ \A i \in 1..0 : FALSE BY EmptySeq
  <2>2. Unsigned(t) = 0 BY <2>1, UnsignedOfNothing
  <2> QED BY <2>1, <2>2, NoBits DEF HasBitsOfPlaces
<1>2. ASSUME NEW n \in Nat, n \in S
      PROVE  n + 1 \in S
  <2> SUFFICES ASSUME NEW t \in Seq(Octet), Len(t) = n + 1
               PROVE  HasBitsOfPlaces(t)
    OBVIOUS
  <2> DEFINE f == SubSeq(t, 1, n)
             x == t[n + 1]
  <2>1. f \in Seq(Octet) /\ Len(f) = n /\ t = Append(f, x) /\ x \in Octet BY EndCut
  <2> HIDE DEF f, x
  <2>2. HasBitsOfPlaces(f) BY <1>2, <2>1
  <2> QED BY <2>1, <2>2, PlacesOfMore
<1>3. Nat \subseteq S
  <2> HIDE DEF S
  <2> QED BY <1>1, <1>2, StepInduction
<1>4. Len(o) \in S
  <2>1. Len(o) \in Nat OBVIOUS
  <2> HIDE DEF S
  <2> QED BY <1>3, <2>1
<1> QED BY <1>4

----------------------------------------------------------------------------
(* INTEGER: decoding into a long *)

LEMMA IntWidth ==
  /\ INT_BITS \in Nat \ {0} /\ INT_BITS - 1 \in Nat /\ INT_BITS <= LONG_BITS
  /\ 2^(INT_BITS - 1) \in Nat \ {0} /\ 2^(INT_BITS - 1) <= 2^(LONG_BITS - 1)
  /\ 2^LONG_BITS \in Nat \ {0} /\ 2^(INT_BITS - 1) <= 2^LONG_BITS
<1> DEFINE a == INT_BITS
           b == LONG_BITS
<1>1. a \in Nat \ {0} /\ a <= b
  <2>1. CHAR_BIT \in Nat \ {0} /\ SIZEOF_INT \in Nat \ {0} /\ SIZEOF_LONG \in Nat /\ SIZEOF_INT <= SIZEOF_LONG
    BY WidthsAssumption
  <2>2. \A x, y \in Nat \ {0} : x * y \in Nat \ {0}
    <3> SUFFICES ASSUME NEW x \in Nat \ {0}, NEW y \in Nat \ {0} PROVE x * y \in Nat \ {0}
      OBVIOUS
    <3>1. x * y = (x - 1) * y + y /\ x - 1 \in Nat OBVIOUS
    <3>2. \A p, q \in Nat : p * q \in Nat OBVIOUS
    <3>3. (x - 1) * y \in Nat BY <3>1, <3>2
    <3> QED BY <3>1, <3>3
  <2>3. \A x, y, z \in Nat : y <= z => x * y <= x * z
    <3> SUFFICES ASSUME NEW x \in Nat, NEW y \in Nat, NEW z \in Nat, y <= z PROVE x * y <= x * z
      OBVIOUS
    <3>1. z - y \in Nat /\ x * z = x * y + x * (z - y) /\ x * y \in Nat OBVIOUS
    <3>2. \A p, q \in Nat : p * q \in Nat OBVIOUS
    <3>3. x * (z - y) \in Nat BY <3>1, <3>2
    <3> QED BY <3>1, <3>3
  <2>4. INT_BITS \in Nat \ {0} BY <2>1, <2>2 DEF INT_BITS
  <2>5. INT_BITS <= LONG_BITS BY <2>1, <2>3 DEF INT_BITS, LONG_BITS
  <2> QED BY <2>4, <2>5
<1>2. b \in Nat /\ 2^(b - 1) \in Nat \ {0} /\ 2^b = 2 * 2^(b - 1) BY LongWidth
<1> HIDE DEF a, b
<1> DEFINE c == a - 1
           d == b - 1
           x == 2^c
           y == 2^d
<1>3. c \in Nat /\ d \in Nat /\ c <= d BY <1>1, <1>2
<1>4. x \in Nat \ {0} /\ x <= y
  <2> HIDE DEF c, d
  <2> QED BY <1>3, PowerOfTwo, PowersGrow
<1> HIDE DEF x, y
<1> DEFINE z == 2^b
<1>5. y \in Nat \ {0} /\ z = 2 * y BY <1>2 DEF y, d
<1> HIDE DEF z
<1>6. z \in Nat \ {0} /\ x <= z BY <1>4, <1>5
<1> QED BY <1>1, <1>3, <1>4, <1>6 DEF a, b, c, d, x, y, z

\* An octet of a number that fits an int is shifted to its place.
LEMMA ShiftIsPlace ==
  ASSUME NEW o \in Seq(Octet), NEW i \in 1..Len(o), Place(o, i) \in Nat, Place(o, i) < 2^(INT_BITS - 1),
         NEW masked \in BOOLEAN
  PROVE  IntShift(o[i], (Len(o) - i) * CHAR_BIT, masked) = Place(o, i)
<1> DEFINE n == Len(o) - i
           s == n * CHAR_BIT
           x == o[i]
           w == 2^s
           p == Place(o, i)
           h == 2^(INT_BITS - 1)
<1>1. n \in Nat /\ x \in Octet /\ x \in Nat BY ElementOfSeq, OctetIs
<1>2. INT_BITS \in Nat \ {0} /\ h \in Nat \ {0} BY IntWidth
<1> HIDE DEF n
<1>3. s \in Nat /\ Weight(n) = w
  <2>1. \A j, k \in Nat : j * k = k * j /\ j * k \in Nat OBVIOUS
  <2>2. s \in Nat /\ CHAR_BIT * n = s BY <1>1, <2>1, Bases
  <2> QED BY <2>2 DEF Weight
<1> HIDE DEF s
<1>4. w \in Nat \ {0} BY <1>3, PowerOfTwo
<1>5. p = x * w BY <1>3 DEF Place, n
<1> HIDE DEF x, w, p, h
<1>6. p \in Nat /\ p < h BY DEF p, h
<1>7. \A k \in Nat : k < h => Signed(k, INT_BITS) = k
  <2>1. \A k \in Nat : k \in Int /\ k >= 0 OBVIOUS
  <2> QED BY <1>2, <2>1, SignedIs DEF h
<1>8. IntShift(x, s, masked) = IF s < INT_BITS THEN Signed(x * 2^s, INT_BITS)
                               ELSE IF masked THEN Signed(x * 2^(s % INT_BITS), INT_BITS) ELSE 0
  BY DEF IntShift
<1>9. CASE s < INT_BITS
  <2>1. IntShift(x, s, masked) = Signed(p, INT_BITS) BY <1>5, <1>8, <1>9 DEF w
  <2> QED BY <1>6, <1>7, <2>1 DEF p, x, s, n
<1>10. CASE ~(s < INT_BITS)
  <2>1. x = 0
    <3> SUFFICES ASSUME x # 0 PROVE FALSE OBVIOUS
    <3>1. h <= w
      <4> DEFINE e == INT_BITS - 1
      <4>1. e \in Nat /\ e <= s BY <1>2, <1>3, <1>10
      <4> HIDE DEF e
      <4>2. 2^e <= 2^s BY <1>3, <4>1, PowersGrow
      <4> QED BY <4>2 DEF h, w, e
    <3>2. w <= x * w
      <4>1. x * w = w + (x - 1) * w /\ x - 1 \in Nat BY <1>1, <1>4 DEF x
      <4>2. \A j, k \in Nat : j * k \in Nat OBVIOUS
      <4>3. (x - 1) * w \in Nat BY <1>4, <4>1, <4>2
      <4> QED BY <1>4, <4>1, <4>3
    <3> QED BY <1>2, <1>4, <1>5, <1>6, <3>1, <3>2
  <2>2. p = 0
    <3>1. 0 * w = 0 BY <1>4
    <3> QED BY <1>5, <2>1, <3>1
  <2>3. 0 * 2^(s % INT_BITS) = 0
    <3> DEFINE r == s % INT_BITS
               z == 2^r
    <3>1. r \in Nat BY <1>2, <1>3
    <3> HIDE DEF r
    <3>2. z \in Nat BY <3>1, PowerOfTwo
    <3> HIDE DEF z
    <3>3. 0 * z = 0 BY <3>2
    <3> QED BY <3>3 DEF z, r
  <2>4. Signed(0, INT_BITS) = 0
    <3>1. 0 \in Nat /\ 0 < h BY <1>2
    <3> QED BY <1>7, <3>1
  <2>5. IntShift(x, s, masked) = 0 BY <1>8, <1>10, <2>1, <2>3, <2>4
  <2> QED BY <2>2, <2>5 DEF p, x, s, n
<1> QED BY <1>9, <1>10

\* The bits of a long, the highest first.
BitDigits(bits) == [k \in 1..LONG_BITS |-> IF LONG_BITS - k \in bits THEN 1 ELSE 0]

LEMMA BitsMakeNumber ==
  ASSUME NEW u \in Nat, u < 2^LONG_BITS
  PROVE  NumberOf(BitDigits(BitsOf(u)), 2) = u
<1> DEFINE n == LONG_BITS
           d == LowDigits(u, 1, n)
           B == BitsOf(u)
           e == BitDigits(B)
<1>1. n \in Nat BY LongWidth
<1> HIDE DEF n
<1>2. u \in Int /\ 1 \in Nat /\ 2^1 = 2
  <2>1. 2^0 = 1 OBVIOUS
  <2>2. 2^(0 + 1) = 2 * 2^0 BY PowerOfTwo
  <2>3. 0 + 1 = 1 OBVIOUS
  <2> QED BY <2>1, <2>2, <2>3
<1>3. NumberOf(d, 2^1) = u % 2^(1 * n) BY <1>1, <1>2, LowDigitsAreNumber
<1>4. u % 2^(1 * n) = u
  <2> DEFINE w == 2^n
  <2>1. 1 * n = n BY <1>1
  <2>2. w \in Nat \ {0} /\ u < w BY <1>1, PowerOfTwo DEF n
  <2> HIDE DEF w
  <2>3. u % w = u
    <3>1. u \in 0..(w - 1) /\ 0 * w + u = u /\ 0 \in Int BY <2>2
    <3>2. (0 * w + u) % w = u BY <2>2, <3>1, Quotient
    <3> QED BY <3>1, <3>2
  <2> QED BY <2>1, <2>3 DEF w
<1>5. d = [i \in 1..n |-> (u \div 2^(1 * (n - i))) % 2^1] BY DEF LowDigits
<1>6. ASSUME NEW i \in 1..n
      PROVE  (u \div 2^(1 * (n - i))) % 2^1 = IF n - i \in B THEN 1 ELSE 0
  <2> DEFINE k == n - i
             q == u \div 2^k
  <2>1. k \in 0..(n - 1) /\ 1 * k = k /\ k \in Nat BY <1>1
  <2> HIDE DEF k
  <2>2. k \in B <=> q % 2 = 1 BY <2>1 DEF BitsOf, n
  <2>3. q \in Int
    <3>1. 2^k \in Nat \ {0} BY <2>1, PowerOfTwo
    <3> QED BY <1>2, <3>1, Division
  <2> HIDE DEF q, B
  <2>4. q % 2 = IF k \in B THEN 1 ELSE 0
    <3>1. q % 2 = 0 \/ q % 2 = 1 BY <2>3
    <3> QED BY <2>2, <3>1
  <2> QED BY <1>2, <2>1, <2>4 DEF k, q
<1>7. e = d BY <1>5, <1>6 DEF BitDigits, n
<1> QED BY <1>2, <1>3, <1>4, <1>7 DEF n

LEMMA ToLongIsExact ==
  ASSUME NEW o \in Seq(Octet), Unsigned(o) < 2^(INT_BITS - 1), NEW masked \in BOOLEAN
  PROVE  ToLong(o, masked) = Ok(Unsigned(o))
<1> DEFINE u == Unsigned(o)
           n == Len(o)
           h == 2^(INT_BITS - 1)
           w == 2^LONG_BITS
           Shifted(i) == IntShift(o[i], (n - i) * CHAR_BIT, masked)
           bits == UNION {BitsOf(Shifted(i) % w) : i \in DOMAIN o}
           num == NumberOf([k \in 1..LONG_BITS |-> IF LONG_BITS - k \in bits THEN 1 ELSE 0], 2)
<1>1. u \in Nat /\ n \in Nat /\ DOMAIN o = 1..n BY UnsignedBounds
<1>2. h \in Nat \ {0} /\ w \in Nat \ {0} /\ h <= w /\ h <= 2^(LONG_BITS - 1) BY IntWidth
<1>3. ToLong(o, masked) = IF num > LONG_MAX THEN Failed ELSE Ok(num) BY Zenon DEF ToLong
<1>4. /\ \A i \in 1..n : Place(o, i) \in Nat /\ Place(o, i) <= u
      /\ \A k \in Nat : HasBit(u, k) <=> \E i \in 1..n : HasBit(Place(o, i), k)
  BY PlacesOfOctets DEF HasBitsOfPlaces
<1>5. ASSUME NEW i \in 1..n
      PROVE  Shifted(i) % w = Place(o, i)
  <2> DEFINE p == Place(o, i)
             s == Shifted(i)
  <2>1. p \in Nat /\ p <= u BY <1>4
  <2>2. p < h
    <3> HIDE DEF p, u, h
    <3>1. u < h BY DEF u, h
    <3> QED BY <1>1, <1>2, <2>1, <3>1
  <2>3. s = p BY <2>1, <2>2, ShiftIsPlace
  <2> HIDE DEF p, s, w, h
  <2>4. p \in 0..(w - 1) /\ 0 * w + p = p /\ 0 \in Int BY <1>2, <2>1, <2>2
  <2>5. (0 * w + p) % w = p BY <1>2, <2>4, Quotient
  <2>6. s % w = p BY <2>3, <2>4, <2>5
  <2> QED BY <2>6 DEF s, p
<1>6. bits = BitsOf(u)
  <2> HIDE DEF u, w, n
  <2>1. ASSUME NEW k
        PROVE  k \in bits <=> \E i \in 1..n : k \in BitsOf(Place(o, i))
    <3>1. k \in bits <=> \E i \in DOMAIN o : k \in BitsOf(Shifted(i) % w) OBVIOUS
    <3> HIDE DEF bits, Shifted
    <3> QED BY <1>1, <1>5, <3>1
  <2>2. ASSUME NEW x, NEW k
        PROVE  k \in BitsOf(x) <=> k \in 0..LONG_BITS - 1 /\ HasBit(x, k)
    BY DEF BitsOf, HasBit
  <2>3. \A k \in 0..LONG_BITS - 1 : k \in Nat BY LongWidth
  <2> HIDE DEF bits
  <2>4. ASSUME NEW k
        PROVE  k \in bits <=> k \in BitsOf(u)
    <3>1. CASE k \in 0..LONG_BITS - 1
      <4>1. HasBit(u, k) <=> \E i \in 1..n : HasBit(Place(o, i), k) BY <1>4, <2>3, <3>1
      <4> QED BY <2>1, <2>2, <3>1, <4>1
    <3>2. CASE ~(k \in 0..LONG_BITS - 1) BY <2>1, <2>2, <3>2
    <3> QED BY <3>1, <3>2
  <2> QED BY <2>4
<1>7. num = u
  <2> HIDE DEF bits
  <2>1. num = NumberOf(BitDigits(bits), 2) BY DEF BitDigits
  <2>2. u < w
    <3> HIDE DEF u, h, w
    <3>1. u < h BY DEF u, h
    <3> QED BY <1>1, <1>2, <3>1
  <2> HIDE DEF num, u
  <2>3. NumberOf(BitDigits(BitsOf(u)), 2) = u BY <1>1, <2>2, BitsMakeNumber
  <2> QED BY <1>6, <2>1, <2>3
<1>8. ~(u > LONG_MAX)
  <2>1. LONG_MAX = 2^(LONG_BITS - 1) - 1 /\ 2^(LONG_BITS - 1) \in Nat BY LongWidth
  <2> DEFINE z == 2^(LONG_BITS - 1)
  <2> HIDE DEF u, h, z
  <2>2. u < h BY DEF u, h
  <2>3. LONG_MAX = z - 1 /\ z \in Nat /\ h <= z BY <1>2, <2>1 DEF z
  <2> QED BY <1>1, <1>2, <2>2, <2>3
<1> HIDE DEF num
<1> QED BY <1>3, <1>7, <1>8, Zenon DEF u

\* The octets that are not left to the Bignum decoder.
LEMMA FitsALong ==
  ASSUME NEW o \in Seq(Octet), o # <<>>, ~NeedsBignum(o), DecodesRight(Meaning(o))
  PROVE  Magnitude(Meaning(o)) < 2^(INT_BITS - 1)
<1> DEFINE n == Len(o)
           k == SIZEOF_LONG - 1
           w == Weight(k)
           h == HalfWeight(n)
           m == Meaning(o)
           low == 2^(INT_BITS - 1)
           t == Tail(o)
           r == Unsigned(t)
<1>1. k \in Nat \ {0} /\ SIZEOF_LONG = k + 1 /\ SIZEOF_LONG \in Nat BY WidthsAssumption
<1>2. w \in Nat \ {0} /\ w = 2 * HalfWeight(k) /\ HalfWeight(k) \in Nat
  <2> HIDE DEF k
  <2> QED BY <1>1, LessThanHalf
<1>3. DecodesRight(m) = \/ (IF m < 0 THEN -m ELSE m) < low
                        \/ m >= w
                        \/ m < -(w \div 2) BY Zenon DEF DecodesRight, Weight
<1>4. m \in Int /\ n \in Nat \ {0} BY MeaningIs, SignIs
<1>5. m < w /\ ~(m < -(w \div 2))
  <2>1. CASE o[1] = 0
    <3>1. n <= SIZEOF_LONG BY <1>1, <1>4, <2>1 DEF NeedsBignum
    <3>2. t \in Seq(Octet) /\ Len(t) = n - 1 /\ Unsigned(o) = 0 * Weight(n - 1) + r
      BY <2>1, UnsignedOfRest
    <3>3. r \in Nat /\ r < Weight(n - 1) BY <3>2, UnsignedBounds
    <3>4. Weight(n - 1) <= w /\ Weight(n - 1) \in Nat
      <4> DEFINE j == n - 1
      <4>1. j \in Nat /\ j <= k BY <1>1, <1>4, <3>1
      <4> HIDE DEF j, k
      <4> QED BY <1>1, <4>1, Weights, WeightsGrow DEF j
    <3>5. ~IsNegative(o) BY <2>1, Bases DEF IsNegative
    <3>6. m = r
      <4>1. m = Unsigned(o) BY <3>5, MeaningRange
      <4> DEFINE y == Weight(n - 1)
      <4> HIDE DEF y, r, m
      <4>2. 0 * y + r = r BY <3>3, <3>4 DEF y
      <4> QED BY <3>2, <4>1, <4>2 DEF y
    <3> DEFINE y == Weight(n - 1)
               q == w \div 2
    <3>7. q \in Nat
      <4> DEFINE g == HalfWeight(k)
      <4> HIDE DEF w, g
      <4>1. w = 2 * g /\ g \in Nat BY <1>2 DEF g
      <4> QED BY <4>1
    <3> HIDE DEF m, r, y, w, q
    <3>8. r \in Nat /\ r < y /\ y <= w /\ y \in Nat BY <3>3, <3>4 DEF y
    <3>9. m < w /\ ~(m < -q) BY <1>2, <3>6, <3>7, <3>8
    <3> QED BY <3>9 DEF q
  <2>2. CASE o[1] # 0
    <3>1. n <= k
      <4>1. ~(n >= SIZEOF_LONG) BY <2>2 DEF NeedsBignum
      <4> HIDE DEF n, k
      <4> QED BY <1>1, <1>4, <4>1
    <3>2. -h <= m /\ m < h BY MeaningRange
    <3> DEFINE g == HalfWeight(k)
               q == w \div 2
    <3>3. h \in Nat /\ h <= g /\ g \in Nat
      <4> DEFINE x == Weight(n)
      <4> HIDE DEF n, k
      <4>1. h \in Nat /\ x = 2 * h BY <1>4, LessThanHalf
      <4>2. x <= w BY <1>1, <1>4, <3>1, WeightsGrow
      <4>3. w = 2 * g /\ g \in Nat BY <1>2
      <4> HIDE DEF x, h, w, g
      <4> QED BY <4>1, <4>2, <4>3
    <3> HIDE DEF m, h, g
    <3>4. w = 2 * g BY <1>2 DEF g
    <3> HIDE DEF w
    <3>5. q = g BY <3>3, <3>4
    <3> HIDE DEF q
    <3>6. m < w /\ ~(m < -q) BY <1>4, <3>2, <3>3, <3>4, <3>5
    <3> QED BY <3>6 DEF q
  <2> QED BY <2>1, <2>2
<1> HIDE DEF m, w, low
<1>6. ~(m >= w) BY <1>2, <1>4, <1>5
<1>7. (IF m < 0 THEN -m ELSE m) < low BY <1>3, <1>5, <1>6, Zenon DEF m
<1> QED BY <1>7 DEF Magnitude, m, low

LEMMA IntegerIsRead ==
  ASSUME NEW o \in Seq(Octet), o # <<>>, DecodesRight(Meaning(o)), NEW r \in int_asn1_decode_integer(o)
  PROVE  r = Ok(Meaning(o))
<1> DEFINE m == Meaning(o)
           c == TwosComplement(o)
           t == Tail(o)
<1>1. CASE NeedsBignum(o)
  <2>1. r = Ok(krypt_asn1_decode_bignum(o)) BY <1>1 DEF int_asn1_decode_integer
  <2> QED BY <2>1, BignumIsExact
<1>2. CASE ~NeedsBignum(o)
  <2>1. r \in int_decode_integer(o) BY <1>2 DEF int_asn1_decode_integer
  <2>2. Magnitude(m) < 2^(INT_BITS - 1) BY <1>2, FitsALong
  <2>3. m \in Int /\ (m >= 0 => Magnitude(m) = m) /\ (m < 0 => Magnitude(m) = -m)
    <3>1. m \in Int BY MeaningIs
    <3> QED BY <3>1, MagnitudeIs
  <2>4. m = (IF IsNegative(o) THEN Unsigned(o) - Weight(Len(o)) ELSE Unsigned(o)) /\ (IsNegative(o) <=> m < 0)
    BY MeaningRange
  <2>5. Len(o) \in Nat \ {0} /\ o[1] \in Octet /\ t \in Seq(Octet)
        /\ Unsigned(o) = o[1] * Weight(Len(o) - 1) + Unsigned(t) BY UnsignedOfRest
  <2>6. CASE IsNegative(o)
    <3>1. 1 \in 1..Len(o) /\ o[1] # 0 BY <2>5, <2>6, OctetIs, Bases DEF IsNegative
    <3>2. PICK l : IsComplement(c, o, l) BY <3>1, TwosComplementIs
    <3>3. c \in Seq(Octet) /\ Unsigned(c) + Unsigned(o) = Weight(Len(o))
      BY <3>2, ComplementIs DEF IsComplement
    <3>4. Unsigned(c) = -m
      <4>1. Unsigned(c) \in Nat /\ Unsigned(o) \in Nat BY <3>3, UnsignedBounds
      <4>2. Weight(Len(o)) \in Nat BY <2>5, Weights
      <4> DEFINE a == Unsigned(c)
                 b == Unsigned(o)
                 w == Weight(Len(o))
      <4>3. m = b - w BY <2>4, <2>6
      <4> HIDE DEF a, b, w, m
      <4>4. a \in Nat /\ b \in Nat /\ w \in Nat /\ a + b = w BY <3>3, <4>1, <4>2 DEF a, b, w
      <4>5. a = -m BY <4>3, <4>4
      <4> QED BY <4>5 DEF a
    <3>5. Unsigned(c) < 2^(INT_BITS - 1) BY <2>2, <2>3, <2>4, <2>6, <3>4
    <3>6. PICK s \in int_decode_integer_to_long(c) : r = Negated(s)
      BY <2>1, <2>6 DEF int_decode_integer
    <3>7. PICK masked \in BOOLEAN : s = ToLong(c, masked) BY <3>6 DEF int_decode_integer_to_long
    <3>8. s = Ok(Unsigned(c)) BY <3>3, <3>5, <3>7, ToLongIsExact
    <3>9. r = Ok(-Unsigned(c)) BY <3>6, <3>8 DEF Negated, Ok
    <3>10. -Unsigned(c) = m
      <4> DEFINE a == Unsigned(c)
      <4> HIDE DEF a, m
      <4>1. a = -m BY <3>4 DEF a
      <4>2. -a = m BY <2>3, <4>1
      <4> QED BY <4>2 DEF a
    <3> QED BY <3>9, <3>10
  <2>7. CASE ~IsNegative(o)
    <3>1. m = Unsigned(o) /\ Unsigned(o) < 2^(INT_BITS - 1)
      <4>1. m = Unsigned(o) /\ m >= 0 BY <2>3, <2>4, <2>7
      <4> QED BY <2>2, <2>3, <4>1
    <3> DEFINE p == IF o[1] = 0 THEN t ELSE o
    <3>2. r \in int_decode_integer_to_long(p) BY <2>1, <2>7 DEF int_decode_integer
    <3>3. p \in Seq(Octet) /\ Unsigned(p) = Unsigned(o)
      <4>1. CASE o[1] = 0
        <5> DEFINE w == Weight(Len(o) - 1)
                   b == Unsigned(t)
        <5>1. w \in Nat
          <6> DEFINE j == Len(o) - 1
          <6>1. j \in Nat BY <2>5
          <6> HIDE DEF j
          <6>2. Weight(j) \in Nat BY <6>1, Weights
          <6> QED BY <6>2 DEF j
        <5>2. b \in Nat BY <2>5, UnsignedBounds
        <5> HIDE DEF w, b
        <5>3. 0 * w + b = b BY <5>1, <5>2
        <5>4. Unsigned(o) = 0 * w + b BY <2>5, <4>1 DEF w, b
        <5> QED BY <2>5, <4>1, <5>3, <5>4 DEF b
      <4>2. CASE o[1] # 0 BY <4>2
      <4> QED BY <4>1, <4>2
    <3> HIDE DEF p
    <3>4. PICK masked \in BOOLEAN : r = ToLong(p, masked) BY <3>2 DEF int_decode_integer_to_long
    <3>5. r = Ok(Unsigned(p)) BY <3>1, <3>3, <3>4, ToLongIsExact
    <3> QED BY <3>1, <3>3, <3>5
  <2> QED BY <2>6, <2>7
<1> QED BY <1>1, <1>2

----------------------------------------------------------------------------
(* INTEGER *)

\* What is written is made of octets, also where its sign is lost.
LEMMA IntegerIsOctets ==
  ASSUME NEW v \in Int, Magnitude(v) < 2^(LONG_BITS * MaxLongs)
  PROVE  int_asn1_encode_integer(v) \in Seq(Octet)
<1>1. CASE EncodesRight(v) BY <1>1, IntegerIsExact DEF Exact
<1>2. CASE ~EncodesRight(v)
  <2>1. ~HAVE_RB_BIG_PACK /\ ~IsFixnum(v) /\ ~(v > 0) BY <1>2 DEF EncodesRight
  <2>2. v # 0
    <3>1. 0 \in Int /\ IsFixnum(0)
      <4> DEFINE c == LONG_BITS - 2
                 d == 2^c
      <4>1. c \in Nat BY LongWidth
      <4> HIDE DEF c
      <4>2. d \in Nat \ {0} BY <4>1, PowerOfTwo
      <4> HIDE DEF d
      <4>3. 0 \in -d .. d - 1 BY <4>2
      <4> QED BY <4>3 DEF IsFixnum, c, d
    <3> QED BY <2>1, <3>1
  <2>3. v < 0 BY <2>1, <2>2
  <2>4. PICK n : IsNegativeHex(EncodeHex(v), v, n) BY <2>3, NegativeHex
  <2>5. EncodeHex(v) \in Seq(Octet) BY <2>4 DEF IsNegativeHex, Lowest
  <2>6. int_asn1_encode_integer(v) = EncodeHex(v)
    BY <2>1 DEF int_asn1_encode_integer, krypt_asn1_encode_bignum
  <2> QED BY <2>5, <2>6
<1> QED BY <1>1, <1>2

\* A number that encoding has room for.
IsEncodable(v) == v \in Int /\ Magnitude(v) < 2^(LONG_BITS * MaxLongs)

LEMMA MeaningIsEncodable ==
  ASSUME NEW o \in Seq(Octet), o # <<>>, Len(o) <= SIZEOF_LONG * MaxLongs
  PROVE  IsEncodable(Meaning(o))
<1> DEFINE n == Len(o)
           z == MaxLongs * SIZEOF_LONG
           m == Meaning(o)
           g == Magnitude(m)
           h == HalfWeight(n)
           w == Weight(n)
           y == Weight(z)
<1>1. 2^(LONG_BITS * MaxLongs) = y /\ z \in Nat \ {0} /\ z = SIZEOF_LONG * MaxLongs
  <2>1. MaxLongs \in Nat /\ SIZEOF_LONG \in Nat BY WidthsAssumption
  <2>2. \A p, q \in Nat : p * q = q * p OBVIOUS
  <2>3. z = SIZEOF_LONG * MaxLongs BY <2>1, <2>2
  <2> QED BY <2>1, <2>3, LongWidths
<1>2. n \in Nat \ {0} /\ m \in Int /\ -h <= m /\ m < h BY SignIs, MeaningIs, MeaningRange
<1>3. n <= z BY <1>1
<1> HIDE DEF n, z
<1>4. h \in Nat \ {0} /\ w = 2 * h BY <1>2, LessThanHalf
<1>5. w <= y /\ y \in Nat BY <1>1, <1>2, <1>3, Weights, WeightsGrow
<1>6. g \in Nat /\ (m >= 0 => g = m) /\ (m < 0 => g = -m) BY <1>2, MagnitudeIs
<1> HIDE DEF g, m, h, w, y
<1>7. g < y BY <1>2, <1>4, <1>5, <1>6
<1> QED BY <1>1, <1>2, <1>7 DEF IsEncodable, g, m

LEMMA LongIsEncodable ==
  ASSUME NEW o, NEW masked \in BOOLEAN, ToLong(o, masked).ok
  PROVE  /\ IsEncodable(ToLong(o, masked).value) /\ IsEncodable(-ToLong(o, masked).value)
<1> DEFINE n == Len(o)
           w == 2^LONG_BITS
           Shifted(i) == IntShift(o[i], (n - i) * CHAR_BIT, masked)
           bits == UNION {BitsOf(Shifted(i) % w) : i \in DOMAIN o}
           num == NumberOf([k \in 1..LONG_BITS |-> IF LONG_BITS - k \in bits THEN 1 ELSE 0], 2)
           y == 2^(LONG_BITS * MaxLongs)
<1>1. ToLong(o, masked) = IF num > LONG_MAX THEN Failed ELSE Ok(num) BY Zenon DEF ToLong
<1>2. num \in Nat
  <2> HIDE DEF bits
  <2> DEFINE d == [k \in 1..LONG_BITS |-> IF LONG_BITS - k \in bits THEN 1 ELSE 0]
  <2>1. d \in Seq(Nat)
    <3>1. LONG_BITS \in Nat BY LongWidth
    <3>2. \A k \in 1..LONG_BITS : (IF LONG_BITS - k \in bits THEN 1 ELSE 0) \in Nat OBVIOUS
    <3>3. d \in [1..LONG_BITS -> Nat] BY <3>2
    <3> HIDE DEF d
    <3>4. IsList(d, LONG_BITS, Nat) BY <3>3 DEF IsList
    <3> QED BY <3>1, <3>4, SeqFacts
  <2> HIDE DEF d
  <2>2. 2 \in Nat OBVIOUS
  <2>3. NumberOf(d, 2) \in Nat BY <2>1, <2>2, NumbersAreNatural
  <2> QED BY <2>3 DEF d
<1> HIDE DEF num
<1>3. ToLong(o, masked) = Ok(num) /\ ~(num > LONG_MAX)
  <2>1. ~Failed.ok BY DEF Failed
  <2> QED BY <1>1, <2>1
<1>4. ToLong(o, masked).value = num BY <1>3 DEF Ok
<1>5. LONG_MAX < w /\ w \in Nat /\ LONG_MAX \in Nat
  <2> DEFINE x == 2^(LONG_BITS - 1)
  <2>1. x \in Nat \ {0} /\ w = 2 * x /\ LONG_MAX = x - 1 BY LongWidth
  <2> HIDE DEF x, w
  <2> QED BY <2>1
<1>6. w <= y /\ y \in Nat
  <2> DEFINE e == LONG_BITS * MaxLongs
  <2>1. LONG_BITS \in Nat /\ MaxLongs \in Nat \ {0} BY LongWidth, WidthsAssumption
  <2>2. \A p \in Nat, q \in Nat \ {0} : p * q \in Nat /\ p <= p * q
    <3> SUFFICES ASSUME NEW p \in Nat, NEW q \in Nat \ {0} PROVE p * q \in Nat /\ p <= p * q
      OBVIOUS
    <3>1. p * q = p + p * (q - 1) /\ q - 1 \in Nat OBVIOUS
    <3>2. \A j, k \in Nat : j * k \in Nat OBVIOUS
    <3>3. p * (q - 1) \in Nat BY <3>1, <3>2
    <3> QED BY <3>1, <3>3
  <2>3. e \in Nat /\ LONG_BITS <= e BY <2>1, <2>2
  <2> HIDE DEF e
  <2>4. 2^LONG_BITS <= 2^e /\ 2^e \in Nat BY <2>1, <2>3, PowersGrow, PowerOfTwo
  <2> QED BY <2>4 DEF e
<1>7. Magnitude(num) = num /\ Magnitude(-num) = num /\ num \in Int /\ -num \in Int
  BY <1>2 DEF Magnitude
<1> HIDE DEF w, y
<1>8. num < y BY <1>2, <1>3, <1>5, <1>6
<1> QED BY <1>4, <1>7, <1>8 DEF IsEncodable, y

\* What octets of someone else are decoded to can be encoded.
LEMMA DecodedIsEncodable ==
  ASSUME NEW o \in Seq(Octet), Len(o) <= SIZEOF_LONG * MaxLongs,
         NEW r \in int_asn1_decode_integer(o), r.ok
  PROVE  IsEncodable(r.value)
<1>1. o # <<>>
  <2> SUFFICES ASSUME o = <<>> PROVE FALSE OBVIOUS
  <2>1. r = Failed BY DEF int_asn1_decode_integer
  <2> QED BY <2>1 DEF Failed
<1>2. CASE NeedsBignum(o)
  <2>1. r = Ok(krypt_asn1_decode_bignum(o)) BY <1>1, <1>2 DEF int_asn1_decode_integer
  <2>2. krypt_asn1_decode_bignum(o) = Meaning(o) BY <1>1, BignumIsExact
  <2>3. r.value = Meaning(o) BY <2>1, <2>2 DEF Ok
  <2> QED BY <1>1, <2>3, MeaningIsEncodable
<1>3. CASE ~NeedsBignum(o)
  <2>1. r \in int_decode_integer(o) BY <1>1, <1>3 DEF int_asn1_decode_integer
  <2>2. CASE IsNegative(o)
    <3>1. PICK s \in int_decode_integer_to_long(TwosComplement(o)) : r = Negated(s)
      BY <2>1, <2>2 DEF int_decode_integer
    <3>2. PICK masked \in BOOLEAN : s = ToLong(TwosComplement(o), masked)
      BY <3>1 DEF int_decode_integer_to_long
    <3>3. s.ok /\ r = Ok(-s.value) BY <3>1 DEF Negated
    <3>4. IsEncodable(-s.value) BY <3>2, <3>3, LongIsEncodable
    <3>5. r.value = -s.value BY <3>3 DEF Ok
    <3> QED BY <3>4, <3>5
  <2>3. CASE ~IsNegative(o)
    <3> DEFINE p == IF o[1] = 0 THEN Tail(o) ELSE o
    <3>1. r \in int_decode_integer_to_long(p) BY <2>1, <2>3 DEF int_decode_integer
    <3> HIDE DEF p
    <3>2. PICK masked \in BOOLEAN : r = ToLong(p, masked) BY <3>1 DEF int_decode_integer_to_long
    <3> QED BY <3>2, LongIsEncodable
  <2> QED BY <2>2, <2>3
<1> QED BY <1>2, <1>3

\* The first value is a number that can be encoded.
LEMMA FirstIsNumber ==
  ASSUME IInv, Is("INTEGER"), first.ok
  PROVE  IsEncodable(first.value)
<1>1. CASE \E v \in Values[type] : first = Ok(v)
  <2>1. PICK v \in Values[type] : first = Ok(v) BY <1>1
  <2>2. v \in Int /\ Magnitude(v) < 2^(LONG_BITS * MaxLongs)
    BY <2>1, FirstIs, ValuesAssumption DEF Is
  <2>3. first.value = v BY <2>1 DEF Ok
  <2> QED BY <2>2, <2>3 DEF IsEncodable
<1>2. CASE \E o \in Received[type] : first \in ValuesOf(o)
  <2>1. PICK o \in Received[type] : first \in ValuesOf(o) BY <1>2
  <2>2. first \in int_asn1_decode_integer(o) BY <2>1, Zenon DEF ValuesOf, Is
  <2>3. o \in Seq(Octet) /\ Len(o) <= SIZEOF_LONG * MaxLongs
    BY <2>1, FirstIs, ReceivedAssumption DEF Is
  <2> QED BY <2>2, <2>3, DecodedIsEncodable
<1> QED BY <1>1, <1>2, FirstIs

\* Octets that were written.
LEMMA WrittenNumber ==
  ASSUME IInv, Is("INTEGER"), first.ok, octets \in EncodingsOf(first.value)
  PROVE  /\ octets.value = int_asn1_encode_integer(first.value)
         /\ octets.value \in Seq(Octet)
         /\ EncodesRight(first.value) => Exact(octets.value, first.value)
<1>1. octets = Ok(int_asn1_encode_integer(first.value)) BY Zenon DEF EncodingsOf, Is
<1>2. octets.value = int_asn1_encode_integer(first.value) BY <1>1 DEF Ok
<1> DEFINE v == first.value
<1>3. v \in Int /\ Magnitude(v) < 2^(LONG_BITS * MaxLongs) BY FirstIsNumber DEF IsEncodable
<1> HIDE DEF v
<1>4. int_asn1_encode_integer(v) \in Seq(Octet) BY <1>3, IntegerIsOctets
<1>5. EncodesRight(v) => Exact(int_asn1_encode_integer(v), v) BY <1>3, IntegerIsExact
<1> QED BY <1>2, <1>4, <1>5 DEF v

\* Octets that were decoded.
LEMMA DecodedNumber ==
  ASSUME IInv, Is("INTEGER"), HasDecoded
  PROVE  octets.value \in Seq(Octet) /\ value \in int_asn1_decode_integer(octets.value)
<1> DEFINE o == octets.value
<1>1. CASE phase = "decoded"
  <2>1. first.ok /\ octets.ok /\ octets \in EncodingsOf(first.value) /\ value \in ValuesOf(o)
    BY <1>1 DEF IInv, WasDecoded
  <2>2. value \in int_asn1_decode_integer(o) BY <2>1, Zenon DEF ValuesOf, Is
  <2>3. o \in Seq(Octet) BY <2>1, WrittenNumber
  <2> QED BY <2>2, <2>3
<1>2. CASE phase \in {"value", "failed"} /\ octets.ok
  <2>1. octets.value \in Received[type] /\ value \in ValuesOf(o)
    <3>1. ~Failed.ok BY DEF Failed
    <3>2. CASE phase = "value" BY <1>2, <3>1, <3>2 DEF IInv, HasValue
    <3>3. CASE phase = "failed" BY <1>2, <3>1, <3>3 DEF IInv, HasFailed
    <3> QED BY <1>2, <3>2, <3>3
  <2>2. value \in int_asn1_decode_integer(o) BY <2>1, Zenon DEF ValuesOf, Is
  <2>3. o \in Seq(Octet) BY <2>1, ReceivedAssumption DEF IInv, Is
  <2> QED BY <2>2, <2>3
<1> QED BY <1>1, <1>2 DEF HasDecoded

\* INTEGER: octets and number always mean the same, whichever came first, and
\* the octets written are the shortest there are: the widths of
\* int_asn1_decode_integer, the extra octet of krypt_asn1_encode_integer and
\* both ways to encode a Bignum are right for every width of the C types, but
\* for the numbers that DecodesRight and EncodesRight name.
THEOREM IntegersAreExact == Spec => []IntegersExact
<1>1. ASSUME IInv
      PROVE  IntegersExact
  <2> SUFFICES ASSUME Is("INTEGER")
               PROVE  IntegersExact
    BY DEF IntegersExact
  <2>1. ASSUME HasDecoded, octets.value # <<>>,
               NEW num, num = Meaning(octets.value), DecodesRight(num)
        PROVE  value = Ok(num)
    <3> DEFINE o == octets.value
    <3>1. o \in Seq(Octet) /\ value \in int_asn1_decode_integer(o) BY <1>1, <2>1, DecodedNumber
    <3>2. o # <<>> /\ num = Meaning(o) /\ DecodesRight(Meaning(o)) BY <2>1
    <3> HIDE DEF o
    <3> QED BY <3>1, <3>2, IntegerIsRead
  <2>2. ASSUME HasEncoded, EncodesRight(first.value)
        PROVE  Meaning(octets.value) = first.value /\ IsShortest(octets.value)
    <3>1. first.ok /\ octets \in EncodingsOf(first.value)
      <4>1. ~Failed.ok BY DEF Failed
      <4>2. CASE phase = "octets" BY <1>1, <2>2, <4>1, <4>2 DEF IInv, HasOctets, HasEncoded
      <4>3. CASE phase = "decoded" BY <1>1, <4>3 DEF IInv, WasDecoded
      <4> QED BY <2>2, <4>2, <4>3 DEF HasEncoded
    <3>2. Exact(octets.value, first.value) BY <1>1, <2>2, <3>1, WrittenNumber
    <3> DEFINE o == octets.value
    <3>3. o \in Seq(Octet) /\ o # <<>> /\ Meaning(o) = first.value /\ Needs(Meaning(o), Len(o))
      BY <3>2 DEF Exact
    <3> HIDE DEF o
    <3>4. IsShortest(o) BY <3>3, NeedsAllOctets
    <3> QED BY <3>3, <3>4 DEF o
  <2> QED BY <2>1, <2>2 DEF IntegersExact
<1> QED BY <1>1, History, PTL
=============================================================================
