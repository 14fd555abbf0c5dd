---------------------------- MODULE Decode_proofs ----------------------------
(***************************************************************************)
(* For every set of sources, any size of the buffer and any number of      *)
(* calls: what decode, decode_der and decode_pem answer, and which errors  *)
(* stay on the stack.  A stream is reduced to the octets it gives (Gives), *)
(* and these to the values or elements the source consists of from the     *)
(* place of the call on; Orders then says, of the calls made, how many of  *)
(* these were given and that the rest lies before the next call.           *)
(*                                                                         *)
(* The decoder of PEM is the subject of the last part: Decode sees whole   *)
(* fills of its buffer, PemDecode its lines one by one.                    *)
(***************************************************************************)
EXTENDS PemDecode, Decode, SequenceTheorems, FiniteSetTheorems, WellFoundedInduction, TLAPS

-----------------------------------------------------------------------------
(* Induction.                                                              *)

\* Numbers that are in a set have a first one.
LEMMA FirstOfNumbers ==
  ASSUME NEW S, S \subseteq Nat, S # {}
  PROVE  \E i \in S : \A j \in S : i <= j
<1> DEFINE T == {1..i : i \in S}
<1>1. \A i \in Nat : 1..i \in FiniteSubsetsOf(Nat) BY FS_Interval, 1 \in Int DEF FiniteSubsetsOf
<1>2. T \subseteq FiniteSubsetsOf(Nat) /\ T # {} BY <1>1
<1>3. PICK t \in T : \A r \in T : ~(<< r, t >> \in StrictSubsetOrdering(Nat))
  BY <1>2, WFMin, FS_StrictSubsetOrderingWellFounded
<1>4. PICK i \in S : t = 1..i OBVIOUS
<1>5. ASSUME NEW j \in S, j < i
      PROVE  FALSE
  <2>1. 1..j \subseteq 1..i /\ i \in 1..i /\ i \notin 1..j BY <1>5
  <2>2. << 1..j, 1..i >> \in StrictSubsetOrdering(Nat) BY <2>1 DEF StrictSubsetOrdering
  <2> QED BY <1>3, <1>4, <2>2
<1> QED BY <1>5

\* Upwards and downwards over the places of a text.
LEMMA Upwards ==
  ASSUME NEW n \in Nat, NEW S, 0 \in S, \A i \in 0..n : i \in S /\ i # n => i + 1 \in S
  PROVE  \A i \in 0..n : i \in S
<1> SUFFICES ASSUME (0..n) \ S # {} PROVE FALSE OBVIOUS
<1>1. PICK i \in (0..n) \ S : \A j \in (0..n) \ S : i <= j
  BY FirstOfNumbers, (0..n) \ S \subseteq Nat
<1>2. i # 0 /\ i - 1 \in 0..n /\ i - 1 # n /\ ~(i <= i - 1) BY <1>1
<1>3. i - 1 \in S BY <1>1, <1>2
<1>4. (i - 1) + 1 \in S BY <1>2, <1>3
<1> QED BY <1>1, <1>4

LEMMA Downwards ==
  ASSUME NEW n \in Nat, NEW S,
         \A i \in 0..n : (\A j \in (i + 1)..n : j \in S) => i \in S
  PROVE  \A i \in 0..n : i \in S
<1> DEFINE T == {n - i : i \in {j \in 0..n : j \notin S}}
<1> SUFFICES ASSUME NEW k \in 0..n, k \notin S PROVE FALSE OBVIOUS
<1>1. T \subseteq Nat /\ n - k \in T OBVIOUS
<1>2. PICK m \in T : \A j \in T : m <= j BY <1>1, FirstOfNumbers
<1>3. PICK i \in 0..n : m = n - i /\ i \notin S OBVIOUS
<1>4. ASSUME NEW j \in (i + 1)..n, j \notin S
      PROVE  FALSE
  <2>1. j \in 0..n /\ n - j \in T /\ ~(m <= n - j) BY <1>3, <1>4
  <2> QED BY <1>2, <2>1
<1> QED BY <1>3, <1>4

-----------------------------------------------------------------------------
(* The lines of a text.                                                    *)

LEMMA MinFound ==
  ASSUME NEW n \in Nat, NEW p \in 0..n, NEW S, S \subseteq p..n
  PROVE  /\ Min(S \cup {n}) \in p..n
         /\ Min(S \cup {n}) \in S \cup {n}
         /\ \A q \in S : Min(S \cup {n}) <= q
<1>1. S \cup {n} \subseteq Nat /\ S \cup {n} # {} OBVIOUS
<1>2. \E i \in S \cup {n} : \A j \in S \cup {n} : i <= j BY <1>1, FirstOfNumbers
<1>3. /\ Min(S \cup {n}) \in S \cup {n}
      /\ \A j \in S \cup {n} : Min(S \cup {n}) <= j BY <1>2 DEF Min
<1> DEFINE m == Min(S \cup {n})
<1> HIDE DEF m
<1>4. m \in S \cup {n} /\ \A j \in S \cup {n} : m <= j BY <1>3 DEF m
<1>5. m \in p..n /\ m \in S \cup {n} /\ \A q \in S : m <= q BY <1>4
<1> QED BY <1>5 DEF m

LEMMA MinIn ==
  ASSUME NEW S, S \subseteq Nat, S # {}
  PROVE  Min(S) \in S
<1>1. \E i \in S : \A j \in S : i <= j BY FirstOfNumbers
<1> QED BY <1>1 DEF Min

LEMMA MinIs ==
  ASSUME NEW S, S \subseteq Nat, NEW m \in S, \A q \in S : m <= q
  PROVE  Min(S) = m
<1>1. \E i \in S : \A j \in S : i <= j OBVIOUS
<1>2. Min(S) \in S /\ \A j \in S : Min(S) <= j BY <1>1 DEF Min
<1> DEFINE l == Min(S)
<1> HIDE DEF l
<1>3. l \in S /\ \A j \in S : l <= j BY <1>2 DEF l
<1>4. l \in Nat /\ m \in Nat /\ l <= m /\ m <= l BY <1>3
<1>5. l = m BY <1>4
<1> QED BY <1>5 DEF l

\* Where a line begins that is found from p on, or the end.
IsLine(text, p, q) == q \in LinesFrom(text, p) \cup {Len(text)}

LEMMA LinesAreLater ==
  ASSUME NEW text \in Seq(Token), NEW p \in 0..Len(text), NEW q, IsLine(text, p, q)
  PROVE  /\ q \in p..Len(text)
         /\ LinesFrom(text, q) = {x \in LinesFrom(text, p) : x >= q}
<1> DEFINE n == Len(text)
           N(x) == text[x].kind = "newline"
<1>1. n \in Nat OBVIOUS
<1>2. \A r \in 0..n : LinesFrom(text, r) = {x \in r..n - 1 : x = r \/ N(x)} BY DEF LinesFrom
<1>3. q \in p..n /\ (q = n \/ q = p \/ N(q)) BY <1>1, <1>2 DEF IsLine
<1> HIDE DEF n, N
<1>4. q \in 0..n /\ p \in 0..n BY <1>1, <1>3 DEF n
<1>5. \A x : x \in LinesFrom(text, q) <=> x \in LinesFrom(text, p) /\ x >= q
  BY <1>1, <1>2, <1>3, <1>4
<1> QED BY <1>3, <1>5 DEF n

LEMMA LineIsBehind ==
  ASSUME NEW text \in Seq(Token), NEW p \in 0..Len(text), NEW r \in p..Len(text), r # Len(text)
  PROVE  LineBehind(text, r) \in (r + 1)..Len(text) /\ IsLine(text, p, LineBehind(text, r))
<1> DEFINE S == {x \in r + 1..Len(text) : text[x].kind = "newline"}
           q == LineBehind(text, r)
<1>1. Len(text) \in Nat /\ r + 1 \in 0..Len(text) /\ S \subseteq (r + 1)..Len(text) OBVIOUS
<1>2. q = Min(S \cup {Len(text)}) BY DEF LineBehind
<1>3. q \in (r + 1)..Len(text) /\ q \in S \cup {Len(text)}
  <2> HIDE DEF q, S
  <2>1. r + 1 \in 0..Len(text) BY <1>1
  <2> QED BY <1>1, <1>2, <2>1, MinFound
<1> HIDE DEF q
<1>4. q = Len(text) \/ q \in LinesFrom(text, p) BY <1>3 DEF LinesFrom
<1> QED BY <1>3, <1>4 DEF IsLine, q

\* What is looked for in the lines from p on is found in those from q on too, if
\* it is not in front of q.
LEMMA FoundLater ==
  ASSUME NEW n \in Nat, NEW p \in 0..n, NEW S, S \subseteq p..n, NEW q \in p..n,
         NEW T, T = {x \in S : x >= q}, Min(S \cup {n}) >= q
  PROVE  Min(T \cup {n}) = Min(S \cup {n})
<1> DEFINE m == Min(S \cup {n})
<1>1. m \in p..n /\ m \in S \cup {n} /\ \A x \in S : m <= x BY MinFound
<1> HIDE DEF m
<1>2. m >= q BY DEF m
<1>3. m \in T \cup {n} /\ T \cup {n} \subseteq Nat /\ \A x \in T \cup {n} : m <= x
  <2>1. m = n \/ m \in T BY <1>1, <1>2
  <2>2. T \subseteq S /\ S \subseteq Nat /\ n \in Nat /\ m <= n BY <1>1
  <2>3. \A x \in T : m <= x BY <1>1, <2>2
  <2> QED BY <2>1, <2>2, <2>3
<1>4. Min(T \cup {n}) = m BY <1>3, MinIs
<1> QED BY <1>4 DEF m

LEMMA HeaderLater ==
  ASSUME NEW text \in Seq(Token), NEW p \in 0..Len(text), NEW q, IsLine(text, p, q),
         HeaderLineFrom(text, p) >= q
  PROVE  HeaderLineFrom(text, q) = HeaderLineFrom(text, p)
<1> DEFINE n == Len(text)
           S == {x \in LinesFrom(text, p) : Boundary(text, x, "begin")}
           T == {x \in LinesFrom(text, q) : Boundary(text, x, "begin")}
<1>1. q \in p..n /\ LinesFrom(text, q) = {x \in LinesFrom(text, p) : x >= q} BY LinesAreLater
<1>2. T = {x \in S : x >= q} /\ S \subseteq p..n /\ n \in Nat BY <1>1 DEF LinesFrom
<1>3. HeaderLineFrom(text, p) = Min(S \cup {n}) /\ HeaderLineFrom(text, q) = Min(T \cup {n})
  BY DEF HeaderLineFrom, FirstOr
<1>4. Min(S \cup {n}) >= q /\ p \in 0..n BY <1>3
<1> HIDE DEF n, S, T
<1> QED BY <1>1, <1>2, <1>3, <1>4, FoundLater

LEMMA ContentLater ==
  ASSUME NEW text \in Seq(Token), NEW p \in 0..Len(text), NEW q, IsLine(text, p, q),
         ContentEnd(text, p) >= q
  PROVE  ContentEnd(text, q) = ContentEnd(text, p)
<1> DEFINE n == Len(text)
           S == {x \in LinesFrom(text, p) : StartsWith(text, x, {"begin", "end", "dash"})}
           T == {x \in LinesFrom(text, q) : StartsWith(text, x, {"begin", "end", "dash"})}
<1>1. q \in p..n /\ LinesFrom(text, q) = {x \in LinesFrom(text, p) : x >= q} BY LinesAreLater
<1>2. T = {x \in S : x >= q} /\ S \subseteq p..n /\ n \in Nat BY <1>1 DEF LinesFrom
<1>3. ContentEnd(text, p) = Min(S \cup {n}) /\ ContentEnd(text, q) = Min(T \cup {n})
  BY DEF ContentEnd, FirstOr
<1>4. Min(S \cup {n}) >= q /\ p \in 0..n BY <1>3
<1> HIDE DEF n, S, T
<1> QED BY <1>1, <1>2, <1>3, <1>4, FoundLater

\* Where headers, the end of a content and footers are found.
LEMMA LinesFound ==
  ASSUME NEW text \in Seq(Token), NEW p \in 0..Len(text), NEW label
  PROVE  /\ HeaderLineFrom(text, p) \in p..Len(text)
         /\ ContentEnd(text, p) \in p..Len(text) /\ IsLine(text, p, ContentEnd(text, p))
         /\ FooterLineFrom(text, p, label) \in p..Len(text)
         /\ FooterLineFrom(text, p, label) # Len(text) =>
              /\ Boundary(text, FooterLineFrom(text, p, label), "end")
              /\ text[FooterLineFrom(text, p, label) + 1].value = label
         /\ ContentEnd(text, p) # Len(text) =>
              StartsWith(text, ContentEnd(text, p), {"begin", "end", "dash"})
         /\ \A q \in LinesFrom(text, p) :
              StartsWith(text, q, {"begin", "end", "dash"}) => ContentEnd(text, p) <= q
         /\ \A q \in LinesFrom(text, p) : Boundary(text, q, "begin") => HeaderLineFrom(text, p) <= q
         /\ HeaderLineFrom(text, p) # Len(text) =>
              /\ HeaderLineFrom(text, p) \in LinesFrom(text, p)
              /\ Boundary(text, HeaderLineFrom(text, p), "begin")
<1> DEFINE n == Len(text)
           L == LinesFrom(text, p)
           H == {x \in L : Boundary(text, x, "begin")}
           C == {x \in L : StartsWith(text, x, {"begin", "end", "dash"})}
           F == {x \in L : Boundary(text, x, "end") /\ text[x + 1].value = label}
<1>1. L \subseteq p..n /\ H \subseteq p..n /\ C \subseteq p..n /\ F \subseteq p..n /\ n \in Nat
  BY DEF LinesFrom
<1>2. /\ HeaderLineFrom(text, p) = Min(H \cup {n})
      /\ ContentEnd(text, p) = Min(C \cup {n})
      /\ FooterLineFrom(text, p, label) = Min(F \cup {n})
  BY DEF HeaderLineFrom, ContentEnd, FooterLineFrom, FirstOr
<1>3. /\ Min(H \cup {n}) \in p..n /\ Min(H \cup {n}) \in H \cup {n}
      /\ \A q \in H : Min(H \cup {n}) <= q
      /\ Min(C \cup {n}) \in p..n /\ Min(C \cup {n}) \in C \cup {n}
      /\ \A q \in C : Min(C \cup {n}) <= q
      /\ Min(F \cup {n}) \in p..n /\ Min(F \cup {n}) \in F \cup {n}
  <2> HIDE DEF H, C, F, L
  <2> QED BY <1>1, MinFound
<1> QED BY <1>2, <1>3 DEF IsLine
-----------------------------------------------------------------------------
(* The octets of a content.                                                *)

DataAt(f, text, a, p) ==
  IF p = a THEN <<>>
  ELSE IF text[p].kind = "data" THEN Append(f[p - 1], Octet(text[p].value))
  ELSE f[p - 1]

LEMMA OctetTyped ==
  ASSUME NEW v \in OctetValue
  PROVE  Octet(v) \in Token
  BY DEF Octet, Token

LEMMA DataExists ==
  ASSUME NEW text \in Seq(Token), NEW a \in 0..Len(text)
  PROVE  \E f : f = [p \in a..Len(text) |-> DataAt(f, text, a, p)]
<1> DEFINE n == Len(text) - a
           IsFcn(f) == f = [p \in a..(a + n) |-> f[p]]
           UpTo(f, i) == \A p \in a..(a + i) : f[p] = DataAt(f, text, a, p)
           S == {i \in 0..n : \E f : IsFcn(f) /\ UpTo(f, i)}
<1>1. n \in Nat /\ a \in Nat /\ Len(text) = a + n OBVIOUS
<1> HIDE DEF n
<1>2. 0 \in S
  <2>1. IsFcn([p \in a..(a + n) |-> <<>>]) OBVIOUS
  <2>2. UpTo([p \in a..(a + n) |-> <<>>], 0) BY <1>1 DEF DataAt
  <2> HIDE DEF IsFcn, UpTo
  <2> QED BY <1>1, <2>1, <2>2
<1>3. \A i \in 0..n : i \in S /\ i # n => i + 1 \in S
  <2> SUFFICES ASSUME NEW i \in 0..n, i \in S, i # n PROVE i + 1 \in S OBVIOUS
  <2>1. PICK f : IsFcn(f) /\ UpTo(f, i) OBVIOUS
  <2> DEFINE q == a + (i + 1)
             g == [p \in a..(a + n) |-> IF p = q THEN DataAt(f, text, a, q) ELSE f[p]]
  <2>2. q \in a..(a + n) /\ i + 1 \in 0..n BY <1>1
  <2>3. g[q] = DataAt(f, text, a, q) /\ \A p \in a..(a + i) : g[p] = f[p] BY <1>1, <2>2
  <2>4. IsFcn(g) BY DEF g
  <2> HIDE DEF g
  <2>5. ASSUME NEW p \in a..q
        PROVE  DataAt(g, text, a, p) = DataAt(f, text, a, p)
    <3>1. p # a => p - 1 \in a..(a + i) BY <1>1
    <3>2. p # a => g[p - 1] = f[p - 1] BY <2>3, <3>1
    <3> QED BY <3>2 DEF DataAt
  <2>6. ASSUME NEW p \in a..q
        PROVE  g[p] = DataAt(g, text, a, p)
    <3>1. i \in Nat /\ a \in Nat /\ p \in a..q BY <1>1
    <3>2. p = q \/ p \in a..(a + i)
      <4> HIDE DEF IsFcn, UpTo, S
      <4> QED BY <3>1
    <3> QED BY <2>1, <2>3, <2>5, <3>2
  <2>7. UpTo(g, i + 1) BY <2>6
  <2> HIDE DEF IsFcn, UpTo
  <2> QED BY <2>2, <2>4, <2>7
<1>4. n \in S
  <2> HIDE DEF S
  <2>1. \A i \in 0..n : i \in S BY <1>1, <1>2, <1>3, Upwards
  <2> QED BY <1>1, <2>1
<1>5. PICK f : IsFcn(f) /\ UpTo(f, n) BY <1>4
<1>6. f = [p \in a..(a + n) |-> DataAt(f, text, a, p)] BY <1>5
<1> QED BY <1>1, <1>6

LEMMA DataDefined ==
  ASSUME NEW text \in Seq(Token), NEW a \in 0..Len(text)
  PROVE  /\ Base64Decoded(text, a, a) = <<>>
         /\ \A p \in a..Len(text) :
              p # a => Base64Decoded(text, a, p) =
                         IF text[p].kind = "data"
                         THEN Append(Base64Decoded(text, a, p - 1), Octet(text[p].value))
                         ELSE Base64Decoded(text, a, p - 1)
<1> DEFINE f == CHOOSE f : f = [p \in a..Len(text) |-> DataAt(f, text, a, p)]
<1>1. \A p : Base64Decoded(text, a, p) = f[p] BY Zenon DEF Base64Decoded, DataAt
<1> HIDE DEF f
<1>2. f = [p \in a..Len(text) |-> DataAt(f, text, a, p)] BY DataExists DEF f
<1>3. \A p \in a..Len(text) : f[p] = DataAt(f, text, a, p) BY <1>2
<1>4. a \in a..Len(text) OBVIOUS
<1>5. f[a] = <<>> BY <1>3, <1>4 DEF DataAt
<1>6. \A p \in a..Len(text) :
        p # a => f[p] = IF text[p].kind = "data" THEN Append(f[p - 1], Octet(text[p].value))
                        ELSE f[p - 1] BY <1>3 DEF DataAt
<1> QED BY <1>1, <1>5, <1>6

LEMMA DataTyped ==
  ASSUME NEW text \in Seq(Token), NEW a \in 0..Len(text), NEW b \in a..Len(text)
  PROVE  Base64Decoded(text, a, b) \in Seq(Token)
<1> DEFINE n == Len(text) - a
           S == {i \in 0..n : Base64Decoded(text, a, a + i) \in Seq(Token)}
<1>1. n \in Nat /\ a \in Nat /\ Len(text) = a + n /\ b - a \in 0..n /\ a + (b - a) = b OBVIOUS
<1> HIDE DEF n
<1>2. 0 \in S
  <2>1. Base64Decoded(text, a, a) = <<>> /\ a + 0 = a BY <1>1, DataDefined
  <2>2. <<>> \in Seq(Token) OBVIOUS
  <2> QED BY <1>1, <2>1, <2>2
<1>3. ASSUME NEW i \in 0..n, i \in S, i # n
      PROVE  i + 1 \in S
  <2> DEFINE p == a + (i + 1)
  <2>1. p \in a..Len(text) /\ p # a /\ p - 1 = a + i /\ p \in 1..Len(text) /\ i + 1 \in 0..n
    BY <1>1, <1>3
  <2>2. text[p] \in Token BY <2>1
  <2>3. Octet(text[p].value) \in Token BY <2>2, OctetTyped DEF Token
  <2> HIDE DEF p
  <2>4. Base64Decoded(text, a, p - 1) \in Seq(Token) BY <1>3, <2>1
  <2>5. Base64Decoded(text, a, p) \in Seq(Token)
    <3> DEFINE d == Base64Decoded(text, a, p - 1)
               o == Octet(text[p].value)
    <3>1. Base64Decoded(text, a, p) = IF text[p].kind = "data" THEN Append(d, o) ELSE d
      BY <2>1, DataDefined
    <3>2. d \in Seq(Token) /\ o \in Token BY <2>3, <2>4
    <3> HIDE DEF d, o
    <3> QED BY <3>1, <3>2
  <2> QED BY <2>1, <2>5 DEF p
<1> HIDE DEF S
<1>4. b - a \in S BY <1>1, <1>2, <1>3, Upwards
<1> QED BY <1>1, <1>4 DEF S

\* Lines decoded one after another give what they give together.
LEMMA DataSplit ==
  ASSUME NEW text \in Seq(Token), NEW a \in 0..Len(text), NEW b \in a..Len(text),
         NEW c \in b..Len(text)
  PROVE  Base64Decoded(text, a, c) = Base64Decoded(text, a, b) \o Base64Decoded(text, b, c)
<1> DEFINE n == Len(text) - b
           x == Base64Decoded(text, a, b)
           Good(r) == Base64Decoded(text, a, r) = x \o Base64Decoded(text, b, r)
           S == {i \in 0..n : Good(b + i)}
<1>1. n \in Nat /\ b \in Nat /\ Len(text) = b + n /\ c - b \in 0..n /\ b + (c - b) = c
      /\ b \in 0..Len(text) /\ b \in b..Len(text) OBVIOUS
<1> HIDE DEF n
<1>2. x \in Seq(Token) BY DataTyped
<1> HIDE DEF x
<1>3. 0 \in S
  <2>1. Base64Decoded(text, b, b) = <<>> /\ b + 0 = b BY <1>1, DataDefined
  <2> QED BY <1>1, <1>2, <2>1 DEF x
<1>4. ASSUME NEW i \in 0..n, i \in S, i # n
      PROVE  i + 1 \in S
  <2> DEFINE p == b + (i + 1)
  <2>1. p \in a..Len(text) /\ p # a /\ p \in b..Len(text) /\ p # b /\ p - 1 = b + i
        /\ p - 1 \in b..Len(text) /\ p \in 1..Len(text) /\ i + 1 \in 0..n BY <1>1, <1>4
  <2>2. text[p] \in Token BY <2>1
  <2>3. Octet(text[p].value) \in Token BY <2>2, OctetTyped DEF Token
  <2> HIDE DEF p
  <2> DEFINE y == Base64Decoded(text, b, p - 1)
             o == Octet(text[p].value)
  <2>4. y \in Seq(Token) BY <1>1, <2>1, DataTyped
  <2>5. Base64Decoded(text, a, p - 1) = x \o y BY <1>4, <2>1
  <2>6. Base64Decoded(text, a, p) =
          IF text[p].kind = "data" THEN Append(x \o y, o) ELSE x \o y BY <2>1, <2>5, DataDefined
  <2>7. Base64Decoded(text, b, p) = IF text[p].kind = "data" THEN Append(y, o) ELSE y
    BY <1>1, <2>1, DataDefined
  <2> HIDE DEF y, o
  <2>8. Append(x \o y, o) = x \o Append(y, o)
    <3>1. o \in Token /\ <<o>> \in Seq(Token) BY <2>3 DEF o
    <3>2. x \o y \in Seq(Token) BY <1>2, <2>4, ConcatProperties
    <3>3. Append(x \o y, o) = (x \o y) \o <<o>> /\ Append(y, o) = y \o <<o>> BY <2>4, <3>1, <3>2
    <3> DEFINE z == <<o>>
    <3> HIDE DEF z
    <3>4. z \in Seq(Token) BY <3>1 DEF z
    <3>5. (x \o y) \o z = x \o (y \o z) BY <1>2, <2>4, <3>4
    <3> QED BY <3>3, <3>5 DEF z
  <2>9. Good(p) BY <2>6, <2>7, <2>8
  <2> QED BY <2>1, <2>9 DEF p
<1> HIDE DEF S
<1>5. c - b \in S BY <1>1, <1>3, <1>4, Upwards
<1> QED BY <1>1, <1>5 DEF S, x

-----------------------------------------------------------------------------
(* The PEM stream.                                                         *)

PemState(text) ==
  [state : {"HEADER", "CONTENT", "DONE"}, name : OctetValue \cup {0}, at : 0..Len(text),
   have : Seq(Token), end : {"open", "eof", "error"}, errors : Seq(Message)]

\* The element that is found from p on: its first line, the line its content
\* ends at, its name and its footer.
BeginOf(text, p) == LineBehind(text, HeaderLineFrom(text, p))

ElementEnd(text, p) == ContentEnd(text, BeginOf(text, p))

NameOf(text, p) == text[HeaderLineFrom(text, p) + 1].value

FooterOf(text, p) == FooterLineFrom(text, ElementEnd(text, p), NameOf(text, p))

ContentOf(text, p) == Base64Decoded(text, BeginOf(text, p), ElementEnd(text, p))

HasElement(text, p) == HeaderLineFrom(text, p) # Len(text)

\* What a stream may have come to: no line of the element yet, some of its
\* lines, its footer, or the end of a text without one.
Inside(text, p, s) ==
  /\ HasElement(text, p)
  /\ s.end = "open" /\ s.errors = <<>> /\ s.state = "CONTENT" /\ s.name = NameOf(text, p)
  /\ s.at \in BeginOf(text, p)..ElementEnd(text, p) /\ s.at > p
  /\ IsLine(text, BeginOf(text, p), s.at)
  /\ s.have = Base64Decoded(text, BeginOf(text, p), s.at)

AtElementEnd(text, p, s) ==
  /\ s.end # "open"
  /\ ~HasElement(text, p) => s.at = Len(text) /\ s.have = <<>> /\ s.errors = <<>>
  /\ HasElement(text, p) =>
       IF FooterOf(text, p) # Len(text)
       THEN /\ s.errors = <<>> /\ s.at = LineBehind(text, FooterOf(text, p))
            /\ s.have = ContentOf(text, p)
       ELSE /\ Len(s.errors) = 1 /\ s.at = Len(text)
            /\ \E q \in BeginOf(text, p)..ElementEnd(text, p) :
                 s.have = Base64Decoded(text, BeginOf(text, p), q)

Scanned(text, p, s) ==
  /\ s \in PemState(text)
  /\ s = int_krypt_b64_buffer_new(p) \/ Inside(text, p, s) \/ AtElementEnd(text, p, s)

LEMMA ElementFound ==
  ASSUME NEW text \in Seq(Token), NEW p \in 0..Len(text), HasElement(text, p)
  PROVE  /\ HeaderLineFrom(text, p) \in p..Len(text)
         /\ BeginOf(text, p) \in (p + 1)..Len(text) /\ IsLine(text, p, BeginOf(text, p))
         /\ ElementEnd(text, p) \in BeginOf(text, p)..Len(text)
         /\ IsLine(text, BeginOf(text, p), ElementEnd(text, p))
         /\ FooterOf(text, p) \in ElementEnd(text, p)..Len(text)
         /\ NameOf(text, p) \in OctetValue
<1> DEFINE h == HeaderLineFrom(text, p)
           b == BeginOf(text, p)
           e == ElementEnd(text, p)
<1>1. h \in p..Len(text) /\ h # Len(text) BY LinesFound DEF HasElement
<1>2. b \in (h + 1)..Len(text) /\ IsLine(text, p, b) BY <1>1, LineIsBehind DEF BeginOf
<1>3. b \in 0..Len(text) BY <1>1, <1>2
<1>4. e \in b..Len(text) /\ IsLine(text, b, e) BY <1>3, LinesFound DEF ElementEnd
<1>5. e \in 0..Len(text) BY <1>3, <1>4
<1>6. FooterOf(text, p) \in e..Len(text) BY <1>5, LinesFound DEF FooterOf
<1>7. NameOf(text, p) \in OctetValue
  <2>1. h + 1 \in 1..Len(text) BY <1>1
  <2>2. text[h + 1] \in Token BY <2>1
  <2> QED BY <2>2 DEF NameOf, Token
<1> QED BY <1>1, <1>2, <1>4, <1>6, <1>7

\* A fill that goes on at a line of the content.
LEMMA FillUpToScans ==
  ASSUME NEW text \in Seq(Token), NEW p \in 0..Len(text), HasElement(text, p),
         NEW s \in PemState(text), s.end = "open", s.errors = <<>>,
         NEW c \in BeginOf(text, p)..ElementEnd(text, p), IsLine(text, BeginOf(text, p), c),
         s.have = Base64Decoded(text, BeginOf(text, p), c)
  PROVE  LET t == FillUpTo(text, s, c, NameOf(text, p), ElementEnd(text, p))
         IN  /\ t \in PemState(text)
             /\ (Inside(text, p, t) /\ t.at > c) \/ AtElementEnd(text, p, t)
<1> DEFINE b == BeginOf(text, p)
           e == ElementEnd(text, p)
           label == NameOf(text, p)
           footer == FooterOf(text, p)
           n == Len(text)
           enough == {q \in c + 1..e : /\ q = LineBehind(text, q - 1)
                                       /\ Len(Characters(text, c, q)) >= FillSize}
           t == FillUpTo(text, s, c, label, e)
<1>1. /\ n \in Nat /\ b \in (p + 1)..n /\ e \in b..n /\ footer \in e..n /\ label \in OctetValue
      /\ c \in b..e BY ElementFound
<1>2. t = IF enough # {}
          THEN [s EXCEPT !.state = "CONTENT", !.name = label, !.at = Min(enough),
                         !.have = @ \o Base64Decoded(text, c, Min(enough))]
          ELSE IF e = n THEN FillRaises(text, s, "PEM data ended prematurely")
          ELSE IF footer = n THEN FillRaises(text, s, "Could not find matching PEM footer")
          ELSE [s EXCEPT !.state = "DONE", !.at = LineBehind(text, footer), !.end = "eof",
                         !.have = @ \o Base64Decoded(text, c, e)]
  BY DEF FillUpTo, AfterFull, FooterOf
<1>3. \A q \in c..e : /\ s.have \o Base64Decoded(text, c, q) = Base64Decoded(text, b, q)
                      /\ Base64Decoded(text, b, q) \in Seq(Token)
  <2> TAKE q \in c..e
  <2>1. b \in 0..n /\ c \in b..n /\ q \in c..n /\ q \in b..n BY <1>1
  <2> QED BY <2>1, DataSplit, DataTyped
<1> HIDE DEF enough, t, n, b, e, label, footer
<1>4. CASE enough # {}
  <2> DEFINE q == Min(enough)
  <2>1. enough \subseteq Nat BY <1>1 DEF enough
  <2>2. q \in enough BY <1>4, <2>1, MinIn
  <2> HIDE DEF q
  <2>3. q \in (c + 1)..e /\ q = LineBehind(text, q - 1) BY <2>2 DEF enough
  <2>4. IsLine(text, b, q)
    <3>1. q - 1 \in b..n /\ q - 1 # n /\ b \in 0..n BY <1>1, <2>3
    <3> QED BY <2>3, <3>1, LineIsBehind DEF n
  <2>5. q \in 0..n /\ q > p /\ q > c /\ q \in b..e /\ q \in c..e BY <1>1, <2>3
  <2>6. t = [s EXCEPT !.state = "CONTENT", !.name = label, !.at = q,
                      !.have = Base64Decoded(text, b, q)] BY <1>2, <1>3, <1>4, <2>5 DEF q
  <2>7. t \in PemState(text) BY <1>1, <1>3, <2>5, <2>6 DEF PemState, n
  <2>8. /\ t.end = "open" /\ t.errors = <<>> /\ t.state = "CONTENT" /\ t.name = label
        /\ t.at = q /\ t.have = Base64Decoded(text, b, q) BY <2>6 DEF PemState
  <2> QED BY <2>4, <2>5, <2>7, <2>8 DEF Inside, b, e, label, t
<1>5. CASE enough = {} /\ footer = n
  <2>1. PICK error \in Message : t = FillRaises(text, s, error)
    <3>1. e = n => t = FillRaises(text, s, "PEM data ended prematurely") BY <1>2, <1>5
    <3>2. e # n => t = FillRaises(text, s, "Could not find matching PEM footer") BY <1>2, <1>5
    <3>3. {"PEM data ended prematurely", "Could not find matching PEM footer"} \subseteq Message
      BY DEF Message
    <3> QED BY <3>1, <3>2, <3>3
  <2>2. t = [s EXCEPT !.at = n, !.end = "error", !.errors = <<error>>] BY <2>1 DEF FillRaises, n
  <2>3. t \in PemState(text)
    <3>1. n \in 0..n /\ <<error>> \in Seq(Message) BY <1>1
    <3> QED BY <2>2, <3>1 DEF PemState, n
  <2>4. t.end = "error" /\ t.at = n /\ t.errors = <<error>> /\ t.have = s.have
    BY <2>2 DEF PemState
  <2>5. Len(t.errors) = 1 BY <2>4
  <2> QED BY <1>1, <1>5, <2>3, <2>4, <2>5 DEF AtElementEnd, n, footer, b, e, label, t
<1>6. CASE enough = {} /\ footer # n
  <2>1. e # n BY <1>1, <1>6
  <2>2. t = [s EXCEPT !.state = "DONE", !.at = LineBehind(text, footer), !.end = "eof",
                      !.have = Base64Decoded(text, b, e)]
    <3>1. e \in c..e BY <1>1
    <3> QED BY <1>2, <1>3, <1>6, <2>1, <3>1
  <2>3. LineBehind(text, footer) \in 0..n /\ Base64Decoded(text, b, e) \in Seq(Token)
    <3>1. footer \in 0..n /\ e \in c..e BY <1>1
    <3>2. LineBehind(text, footer) \in (footer + 1)..n BY <1>6, <3>1, LineIsBehind DEF n
    <3> QED BY <1>3, <3>1, <3>2
  <2>4. t \in PemState(text) BY <2>2, <2>3 DEF PemState, n
  <2>5. /\ t.end = "eof" /\ t.at = LineBehind(text, footer) /\ t.errors = <<>>
        /\ t.have = Base64Decoded(text, b, e) BY <2>2 DEF PemState
  <2> QED BY <1>6, <2>4, <2>5 DEF AtElementEnd, ContentOf, n, footer, b, e, label, t
<1> QED BY <1>4, <1>5, <1>6

LEMMA FillScans ==
  ASSUME NEW text \in Seq(Token), NEW p \in 0..Len(text), NEW s, Scanned(text, p, s),
         s.end = "open"
  PROVE  LET t == int_b64_fill(text, s)
         IN  Scanned(text, p, t) /\ (t.end = "open" => t.at > s.at)
<1> DEFINE t == int_b64_fill(text, s)
<1>1. CASE s = int_krypt_b64_buffer_new(p) /\ ~HasElement(text, p)
  <2>1. /\ s.state = "HEADER" /\ s.at = p /\ s.have = <<>> /\ s.errors = <<>>
        /\ s \in PemState(text) BY <1>1 DEF int_krypt_b64_buffer_new, Scanned
  <2>2. t = [s EXCEPT !.at = Len(text), !.end = "eof"] BY <1>1, <2>1 DEF int_b64_fill, HasElement
  <2>3. t \in PemState(text) /\ t.end = "eof" /\ t.at = Len(text) /\ t.have = <<>> /\ t.errors = <<>>
    <3>1. Len(text) \in 0..Len(text) OBVIOUS
    <3> QED BY <2>1, <2>2, <3>1 DEF PemState
  <2> QED BY <1>1, <2>3 DEF Scanned, AtElementEnd
<1>2. CASE s = int_krypt_b64_buffer_new(p) /\ HasElement(text, p)
  <2>1. /\ s.state = "HEADER" /\ s.at = p /\ s.have = <<>> /\ s.errors = <<>>
        /\ s \in PemState(text) BY <1>2 DEF int_krypt_b64_buffer_new, Scanned
  <2>2. t = FillUpTo(text, s, BeginOf(text, p), NameOf(text, p), ElementEnd(text, p))
    BY <1>2, <2>1 DEF int_b64_fill, FillContent, HasElement, BeginOf, NameOf, ElementEnd
  <2>3. /\ BeginOf(text, p) \in BeginOf(text, p)..ElementEnd(text, p)
        /\ BeginOf(text, p) \in (p + 1)..Len(text)
        /\ IsLine(text, BeginOf(text, p), BeginOf(text, p))
    BY <1>2, ElementFound DEF IsLine, LinesFrom
  <2>4. Base64Decoded(text, BeginOf(text, p), BeginOf(text, p)) = <<>> BY <2>3, DataDefined
  <2>5. t \in PemState(text) /\ ((Inside(text, p, t) /\ t.at > BeginOf(text, p)) \/ AtElementEnd(text, p, t))
    BY <1>2, <2>1, <2>2, <2>3, <2>4, FillUpToScans
  <2>6. Inside(text, p, t) => t.at > s.at BY <2>1 DEF Inside
  <2> QED BY <2>5, <2>6 DEF Scanned, AtElementEnd
<1>3. CASE Inside(text, p, s)
  <2>1. t = FillContent(text, s, s.at, s.name) BY <1>3 DEF int_b64_fill, Inside
  <2>2. ContentEnd(text, s.at) = ElementEnd(text, p)
    <3>1. BeginOf(text, p) \in 0..Len(text) /\ ContentEnd(text, BeginOf(text, p)) >= s.at
          /\ IsLine(text, BeginOf(text, p), s.at) BY <1>3, ElementFound DEF Inside, ElementEnd
    <3> QED BY <3>1, ContentLater DEF ElementEnd
  <2>3. t = FillUpTo(text, s, s.at, NameOf(text, p), ElementEnd(text, p))
    BY <1>3, <2>1, <2>2 DEF FillContent, Inside
  <2>4. t \in PemState(text) /\ ((Inside(text, p, t) /\ t.at > s.at) \/ AtElementEnd(text, p, t))
    BY <1>3, <2>3, FillUpToScans DEF Inside, Scanned
  <2> QED BY <2>4 DEF Scanned, AtElementEnd
<1>4. CASE AtElementEnd(text, p, s) BY <1>4 DEF AtElementEnd
<1> QED BY <1>1, <1>2, <1>3, <1>4 DEF Scanned


FilledAt(f, text, p, n, k) ==
  IF k = 0 THEN int_krypt_b64_buffer_new(p) ELSE FilledFor(text, f[k - 1], n)

LEMMA FillsExist ==
  ASSUME NEW text \in Seq(Token), NEW p, NEW n
  PROVE  \E f : f = [k \in 0..Len(text) + 1 |-> FilledAt(f, text, p, n, k)]
<1> DEFINE m == Len(text) + 1
           IsFcn(f) == f = [k \in 0..m |-> f[k]]
           UpTo(f, i) == \A k \in 0..i : f[k] = FilledAt(f, text, p, n, k)
           S == {i \in 0..m : \E f : IsFcn(f) /\ UpTo(f, i)}
<1>1. m \in Nat OBVIOUS
<1> HIDE DEF m
<1>2. 0 \in S
  <2> DEFINE g == [k \in 0..m |-> int_krypt_b64_buffer_new(p)]
  <2>1. IsFcn(g) OBVIOUS
  <2>2. UpTo(g, 0) BY <1>1 DEF FilledAt
  <2> HIDE DEF IsFcn, UpTo
  <2> QED BY <1>1, <2>1, <2>2
<1>3. \A i \in 0..m : i \in S /\ i # m => i + 1 \in S
  <2> SUFFICES ASSUME NEW i \in 0..m, i \in S, i # m PROVE i + 1 \in S OBVIOUS
  <2>1. PICK f : IsFcn(f) /\ UpTo(f, i) OBVIOUS
  <2> DEFINE q == i + 1
             g == [k \in 0..m |-> IF k = q THEN FilledAt(f, text, p, n, q) ELSE f[k]]
  <2>2. q \in 0..m /\ i \in Nat BY <1>1
  <2>3. g[q] = FilledAt(f, text, p, n, q) /\ \A k \in 0..i : g[k] = f[k] BY <1>1, <2>2
  <2>4. IsFcn(g) BY DEF g
  <2> HIDE DEF g
  <2>5. ASSUME NEW k \in 0..q
        PROVE  FilledAt(g, text, p, n, k) = FilledAt(f, text, p, n, k)
    <3>1. k # 0 => k - 1 \in 0..i BY <2>2
    <3>2. k # 0 => g[k - 1] = f[k - 1] BY <2>3, <3>1
    <3> QED BY <3>2 DEF FilledAt
  <2>6. ASSUME NEW k \in 0..q
        PROVE  g[k] = FilledAt(g, text, p, n, k)
    <3>1. k = q \/ k \in 0..i
      <4> HIDE DEF IsFcn, UpTo, S
      <4> QED BY <2>2
    <3> QED BY <2>1, <2>3, <2>5, <3>1
  <2>7. UpTo(g, i + 1) BY <2>6
  <2> HIDE DEF IsFcn, UpTo
  <2> QED BY <2>2, <2>4, <2>7
<1>4. m \in S
  <2> HIDE DEF S
  <2>1. \A i \in 0..m : i \in S BY <1>1, <1>2, <1>3, Upwards
  <2> QED BY <1>1, <2>1
<1>5. PICK f : IsFcn(f) /\ UpTo(f, m) BY <1>4
<1>6. f = [k \in 0..m |-> FilledAt(f, text, p, n, k)] BY <1>5
<1> QED BY <1>6 DEF m

\* A read goes on until there are as many octets as were asked for, or to the
\* end of the element, and every fill takes it to a later line.
LEMMA PemReads ==
  ASSUME NEW text \in Seq(Token), NEW p \in 0..Len(text), NEW n \in Nat
  PROVE  /\ Scanned(text, p, PemRead(text, p, n))
         /\ Len(PemRead(text, p, n).have) >= n \/ PemRead(text, p, n).end # "open"
<1> DEFINE m == Len(text) + 1
           f == CHOOSE f : f = [k \in 0..m |-> FilledAt(f, text, p, n, k)]
           Short(s) == s.end = "open" /\ Len(s.have) < n
           S == {k \in 0..m : Scanned(text, p, f[k]) /\ (Short(f[k]) => f[k].at >= p + k)}
<1>1. m \in Nat /\ Len(text) \in Nat OBVIOUS
<1>2. PemRead(text, p, n) = f[m] BY Zenon DEF PemRead, FilledAt
<1> HIDE DEF f
<1>3. f = [k \in 0..m |-> FilledAt(f, text, p, n, k)] BY FillsExist DEF f
<1> HIDE DEF m
<1>4. \A k \in 0..m : f[k] = FilledAt(f, text, p, n, k) BY <1>3
<1>5. 0 \in S
  <2>1. 0 \in 0..m BY <1>1
  <2>2. f[0] = int_krypt_b64_buffer_new(p) BY <1>4, <2>1 DEF FilledAt
  <2>3. int_krypt_b64_buffer_new(p) \in PemState(text) /\ int_krypt_b64_buffer_new(p).at = p
    BY DEF int_krypt_b64_buffer_new, PemState
  <2> QED BY <2>1, <2>2, <2>3 DEF Scanned
<1>6. ASSUME NEW k \in 0..m, k \in S, k # m
      PROVE  k + 1 \in S
  <2> DEFINE s == f[k]
             t == f[k + 1]
  <2>1. k + 1 \in 0..m /\ k + 1 # 0 /\ (k + 1) - 1 = k /\ k \in Nat BY <1>1, <1>6
  <2>2. t = FilledFor(text, s, n) BY <1>4, <2>1 DEF FilledAt
  <2>3. Scanned(text, p, s) /\ (Short(s) => s.at >= p + k) BY <1>6
  <2>4. s \in PemState(text) BY <2>3 DEF Scanned
  <2>5. Len(s.have) \in Nat /\ s.at \in Nat /\ s.end \in {"open", "eof", "error"}
    BY <2>4 DEF PemState
  <2> HIDE DEF s, t, S
  <2>6. CASE ~Short(s)
    <3>1. t = s BY <2>2, <2>5, <2>6 DEF FilledFor
    <3> QED BY <2>1, <2>3, <2>6, <3>1 DEF S, t
  <2>7. CASE Short(s)
    <3>1. t = int_b64_fill(text, s) BY <2>2, <2>5, <2>7 DEF FilledFor
    <3>2. Scanned(text, p, t) /\ (t.end = "open" => t.at > s.at) BY <2>3, <2>7, <3>1, FillScans
    <3>3. t.at \in Nat BY <3>2 DEF Scanned, PemState
    <3>4. Short(t) => t.at >= p + (k + 1) BY <2>1, <2>3, <2>5, <2>7, <3>2, <3>3
    <3> QED BY <2>1, <3>2, <3>4 DEF S, t
  <2> QED BY <2>6, <2>7
<1>7. m \in S
  <2> HIDE DEF S
  <2>1. \A k \in 0..m : k \in S BY <1>1, <1>5, <1>6, Upwards
  <2> QED BY <1>1, <2>1
<1>8. Scanned(text, p, f[m]) /\ (Short(f[m]) => f[m].at >= p + m) BY <1>7
<1>9. f[m].at \in 0..Len(text) /\ Len(f[m].have) \in Nat BY <1>8 DEF Scanned, PemState
<1>10. ~Short(f[m]) BY <1>1, <1>8, <1>9 DEF m
<1> QED BY <1>2, <1>8, <1>9, <1>10

-----------------------------------------------------------------------------
(* Decoding a stream.                                                      *)

IsBegun(x, y) == /\ x \in Seq(Token) /\ y \in Seq(Token) /\ Len(x) <= Len(y)
                 /\ \A i \in 1..Len(x) : x[i] = y[i]

LEMMA TokenFacts ==
  ASSUME NEW t \in Token
  PROVE  Length(t) \in Nat /\ HeaderSize(t) \in {1, 2} /\ Identifier(t) \in 0..255
<1>1. t.value \in 0..255 /\ TextLength \in Nat BY DecodeAssumption DEF Token, OctetValue
<1>2. Length(t) \in Nat /\ HeaderSize(t) \in {1, 2} BY <1>1 DEF Length, HeaderSize
<1>3. Identifier(t) = IF t.kind = "octet" THEN t.value
                      ELSE IF t.kind = "newline" THEN 10
                      ELSE IF t.kind = "data" THEN 65 ELSE 45 BY DEF Identifier
<1> QED BY <1>1, <1>2, <1>3

LEMMA OctetsFacts ==
  ASSUME NEW x \in Seq(Token)
  PROVE  /\ x # <<>> => x[1] \in Token /\ HeaderSize(x[1]) \in {1, 2} /\ Len(x) >= 1
         /\ HasHeader(x) => LengthOf(x) \in Nat /\ SizeOf(x) = HeaderSize(x[1]) + LengthOf(x)
<1>1. ASSUME x # <<>>
      PROVE  x[1] \in Token /\ HeaderSize(x[1]) \in {1, 2} /\ Len(x) >= 1
  <2>1. Len(x) \in Nat /\ Len(x) >= 1 BY <1>1, EmptySeq
  <2>2. x[1] \in Token BY <2>1
  <2> QED BY <2>1, <2>2, TokenFacts
<1>2. ASSUME HasHeader(x)
      PROVE  LengthOf(x) \in Nat
  <2>1. HeaderSize(x[1]) \in 1..Len(x) BY <1>1, <1>2 DEF HasHeader
  <2>2. x[HeaderSize(x[1])] \in Token BY <2>1
  <2> QED BY <2>2, TokenFacts DEF LengthOf
<1> QED BY <1>1, <1>2 DEF SizeOf

\* What a stream gives is the beginning of the octets x, and all that was asked
\* for unless it has come to its end.
Gives(in, x) ==
  \A n \in Nat : /\ IsBegun(Read(in, n).have, x)
                 /\ Len(Read(in, n).have) >= n \/ Read(in, n).end # "open"

LEMMA DecodesWhole ==
  ASSUME NEW in, NEW x \in Seq(Token), Gives(in, x), IsWhole(x),
         \A n \in Nat : Read(in, n).end # "open" => Read(in, n).have = x
  PROVE  krypt_asn1_decode_stream(in) = Decoded(FirstValue(x), Read(in, SizeOf(x)).at)
<1> DEFINE size == HeaderSize(x[1])
           length == LengthOf(x)
           first == Read(in, 1)
           tag == first.have[1]
           second == Read(in, size)
           header == krypt_asn1_next_header(in)
           third == Read(in, size + length)
<1>1. /\ x # <<>> /\ size \in {1, 2} /\ size <= Len(x) /\ length \in Nat
      /\ length \notin {128, 255} /\ size + length <= Len(x) /\ SizeOf(x) = size + length
      /\ Len(x) \in Nat BY OctetsFacts DEF IsWhole, HasHeader
<1>2. ASSUME NEW n \in Nat, n <= Len(x)
      PROVE  /\ Len(Read(in, n).have) >= n /\ Read(in, n).have \in Seq(Token)
             /\ \A i \in 1..n : Read(in, n).have[i] = x[i]
  <2> DEFINE h == Read(in, n).have
  <2>1. IsBegun(h, x) /\ (Len(h) >= n \/ h = x) BY <1>2 DEF Gives
  <2>2. Len(h) \in Nat /\ Len(h) >= n BY <1>2, <2>1 DEF IsBegun
  <2> HIDE DEF h
  <2>3. \A i \in 1..n : h[i] = x[i] BY <1>2, <2>1, <2>2 DEF IsBegun
  <2> QED BY <2>1, <2>2, <2>3 DEF IsBegun, h
<1>3. Len(first.have) >= 1 /\ first.have \in Seq(Token) /\ tag = x[1]
  <2>1. 1 \in Nat /\ 1 <= Len(x) /\ 1 \in 1..1 BY <1>1
  <2> QED BY <1>2, <2>1
<1>4. first.have # <<>> BY <1>3
<1>5. Len(second.have) >= size /\ second.have[size] = x[size]
  <2>1. size \in Nat /\ size \in 1..size BY <1>1
  <2> QED BY <1>1, <1>2, <2>1
<1>6. Len(second.have) \in Nat BY <1>1, <1>2
<1>7. header = int_parse_length(tag, Read(in, HeaderSize(tag)))
  BY <1>4 DEF krypt_asn1_next_header
<1>8. header = [ok |-> TRUE, size |-> size, identifier |-> Identifier(x[1]), length |-> length]
  <2>1. Length(second.have[HeaderSize(x[1])]) = length BY <1>5 DEF LengthOf
  <2>2. header = int_parse_length(x[1], second) BY <1>3, <1>7
  <2>3. ~(Len(second.have) < HeaderSize(x[1])) BY <1>1, <1>5, <1>6
  <2> HIDE DEF second, length, header
  <2> QED BY <1>1, <2>1, <2>2, <2>3 DEF int_parse_length
<1>9. /\ Len(third.have) >= size + length /\ third.have \in Seq(Token)
      /\ \A i \in 1..(size + length) : third.have[i] = x[i]
  <2>1. size + length \in Nat BY <1>1
  <2> QED BY <1>1, <1>2, <2>1
<1>10. SubSeq(third.have, size + 1, size + length) = SubSeq(x, size + 1, size + length)
  <2> DEFINE a == size + 1
             b == size + length
             u == SubSeq(third.have, a, b)
             v == SubSeq(x, a, b)
  <2>1. a \in Int /\ b \in Int /\ a >= 1 /\ b <= Len(third.have) /\ b <= Len(x)
        /\ Len(third.have) \in Nat BY <1>1, <1>9
  <2>2. \A i \in a..b : x[i] \in Token /\ third.have[i] = x[i]
    <3> TAKE i \in a..b
    <3>1. i \in 1..Len(x) /\ i \in 1..(size + length) BY <1>1, <2>1
    <3> QED BY <1>9, <3>1
  <2> HIDE DEF a, b
  <2> DEFINE w == third.have
  <2>7. w \in Seq(Token) /\ b <= Len(w) /\ \A i \in a..b : w[i] \in Token BY <1>9, <2>1, <2>2
  <2> HIDE DEF w
  <2>8. /\ SubSeq(w, a, b) \in Seq(Token) /\ Len(SubSeq(w, a, b)) = (IF a <= b THEN b - a + 1 ELSE 0)
        /\ \A i \in 1..(b - a + 1) : SubSeq(w, a, b)[i] = w[a + i - 1]
    BY <2>1, <2>7, SubSeqProperties
  <2>3. /\ u \in Seq(Token) /\ Len(u) = (IF a <= b THEN b - a + 1 ELSE 0)
        /\ \A i \in 1..(b - a + 1) : u[i] = third.have[a + i - 1] BY <2>8 DEF w
  <2>4. /\ v \in Seq(Token) /\ Len(v) = (IF a <= b THEN b - a + 1 ELSE 0)
        /\ \A i \in 1..(b - a + 1) : v[i] = x[a + i - 1] BY <2>1, <2>2, SubSeqProperties
  <2> HIDE DEF u, v, third
  <2>5. Len(u) = Len(v) /\ \A i \in 1..Len(u) : u[i] = v[i] BY <2>1, <2>2, <2>3, <2>4
  <2>6. u = v BY <2>3, <2>4, <2>5, SeqEqual
  <2> QED BY <2>6 DEF u, v, a, b
<1>11. krypt_asn1_decode_stream(in) = krypt_asn1_get_value(header, third)
  BY <1>8 DEF krypt_asn1_decode_stream
<1>12. ~(Len(third.have) < size + length) BY <1>1, <1>9
<1> HIDE DEF size, length, header, third
<1>13. krypt_asn1_get_value(header, third) =
         Decoded([identifier |-> Identifier(x[1]),
                  content    |-> SubSeq(third.have, size + 1, size + length)], third.at)
  BY <1>8, <1>12 DEF krypt_asn1_get_value
<1> QED BY <1>1, <1>10, <1>11, <1>13 DEF FirstValue, third, size

LEMMA DecodesCut ==
  ASSUME NEW in, NEW x \in Seq(Token), Gives(in, x), ~IsWhole(x)
  PROVE  LET r == krypt_asn1_decode_stream(in)
         IN  /\ ~r.ok
             /\ \E n \in Nat : /\ r.at = Read(in, n).at
                               /\ IsCut(x) => Read(in, n).end # "open"
<1> DEFINE size == HeaderSize(x[1])
           length == LengthOf(x)
           r == krypt_asn1_decode_stream(in)
           header == krypt_asn1_next_header(in)
           first == Read(in, 1)
           Ends(n) == /\ r.at = Read(in, n).at
                      /\ IsCut(x) => Read(in, n).end # "open"
<1>1. ASSUME NEW n \in Nat
      PROVE  /\ Read(in, n).have \in Seq(Token) /\ Len(Read(in, n).have) \in Nat
             /\ Len(Read(in, n).have) <= Len(x)
             /\ \A i \in 1..Len(Read(in, n).have) : Read(in, n).have[i] = x[i]
             /\ Len(Read(in, n).have) >= n \/ Read(in, n).end # "open" BY DEF Gives, IsBegun
<1>2. \A s, m : ~NotDecoded(s, m).ok /\ NotDecoded(s, m).at = s.at BY DEF NotDecoded
<1>3. r = IF header.ok THEN krypt_asn1_get_value(header, Read(in, header.size + header.length))
          ELSE header BY DEF krypt_asn1_decode_stream
<1>4. CASE first.have = <<>>
  <2>1. \E m : header = NotDecoded(first, m) BY <1>4 DEF krypt_asn1_next_header
  <2>2. ~r.ok /\ r.at = first.at BY <1>2, <1>3, <2>1
  <2>3. 1 \in Nat /\ first.end # "open" BY <1>1, <1>4
  <2> QED BY <2>2, <2>3
<1>5. CASE first.have # <<>>
  <2> DEFINE second == Read(in, size)
  <2>1. Len(first.have) >= 1 /\ Len(x) >= 1 /\ Len(x) \in Nat /\ x # <<>> /\ first.have[1] = x[1]
    <3>1. Len(first.have) \in Nat /\ Len(first.have) # 0 BY <1>1, <1>5, EmptySeq
    <3> QED BY <1>1, <3>1
  <2>2. size \in {1, 2} BY <2>1, OctetsFacts
  <2>3. header = int_parse_length(x[1], second) BY <1>5, <2>1 DEF krypt_asn1_next_header
  <2>4. size \in Nat BY <2>2
  <2>5. CASE Len(second.have) < size
    <3>1. \E m : header = NotDecoded(second, m) BY <2>3, <2>5 DEF int_parse_length
    <3>2. ~r.ok /\ r.at = second.at BY <1>2, <1>3, <3>1
    <3>3. second.end # "open" BY <1>1, <2>4, <2>5
    <3> QED BY <2>4, <3>2, <3>3
  <2>6. CASE ~(Len(second.have) < size)
    <3>1. Len(second.have) >= size /\ size <= Len(x) /\ HasHeader(x)
      BY <1>1, <2>1, <2>2, <2>4, <2>6 DEF HasHeader
    <3>2. second.have[size] = x[size] BY <1>1, <2>2, <2>4, <3>1
    <3>3. length \in Nat /\ SizeOf(x) = size + length BY <3>1, OctetsFacts
    <3>4. Length(second.have[HeaderSize(x[1])]) = length BY <3>2 DEF LengthOf
    <3>5. CASE length \in {128, 255}
      <4>1. \E m : header = NotDecoded(second, m)
        <5> HIDE DEF second, length, header
        <5>1. CASE length = 255 BY <2>3, <2>6, <3>4, <5>1, Zenon DEF int_parse_length
        <5>2. CASE length = 128
          <6> DEFINE l == Length(second.have[HeaderSize(x[1])])
          <6>1. ~(l = 255) /\ l = 128 BY <3>4, <5>2
          <6>2. header = IF Len(second.have) < HeaderSize(x[1])
                         THEN NotDecoded(second, <<"Could not read byte from stream",
                                                   "Error when parsing length">>)
                         ELSE IF l = 255
                         THEN NotDecoded(second,
                                <<"Initial octet of complex definite length shall not be 0xFF",
                                  "Error when parsing length">>)
                         ELSE IF l = 128
                         THEN NotDecoded(second, <<"Infinite length values must be constructed">>)
                         ELSE [ok |-> TRUE, size |-> HeaderSize(x[1]),
                               identifier |-> Identifier(x[1]), length |-> l]
            BY <2>3, Zenon DEF int_parse_length
          <6> HIDE DEF l
          <6>3. header = NotDecoded(second, <<"Infinite length values must be constructed">>)
            BY <2>6, <6>1, <6>2, Zenon
          <6> QED BY <6>3, Zenon
        <5> QED BY <3>5, <5>1, <5>2
      <4>2. ~r.ok /\ r.at = second.at BY <1>2, <1>3, <4>1
      <4>3. ~IsCut(x) BY <3>1, <3>5 DEF IsCut
      <4> QED BY <2>4, <4>2, <4>3
    <3>6. CASE length \notin {128, 255}
      <4> DEFINE third == Read(in, size + length)
      <4>1. header = [ok |-> TRUE, size |-> size, identifier |-> Identifier(x[1]),
                      length |-> length]
        <5> HIDE DEF second, length, header
        <5> QED BY <2>3, <2>6, <3>4, <3>6 DEF int_parse_length
      <4>2. r = krypt_asn1_get_value(header, third) BY <1>3, <4>1
      <4>3. size + length \in Nat /\ Len(x) < size + length
        BY <2>1, <2>4, <3>1, <3>3, <3>6 DEF IsWhole
      <4>4. Len(third.have) < size + length /\ third.end # "open" BY <1>1, <2>1, <4>3
      <4>5. \E m : r = NotDecoded(third, m)
        <5> HIDE DEF third, length, header
        <5> QED BY <4>1, <4>2, <4>4 DEF krypt_asn1_get_value
      <4>6. ~r.ok /\ r.at = third.at BY <1>2, <4>5
      <4> QED BY <4>3, <4>4, <4>6
    <3> QED BY <3>5, <3>6
  <2> QED BY <2>5, <2>6
<1> QED BY <1>4, <1>5


-----------------------------------------------------------------------------
(* A stream of DER.                                                        *)

LEMMA DerGives ==
  ASSUME NEW text \in Seq(Token), NEW p \in 0..Len(text)
  PROVE  /\ From(text, p) \in Seq(Token) /\ Len(From(text, p)) = Len(text) - p
         /\ Gives(Stream("DER", text, p), From(text, p))
         /\ \A n \in Nat :
              LET read == Read(Stream("DER", text, p), n)
              IN  /\ read.have = From(text, p) /\ read.end = "eof" /\ read.errors = <<>>
                  /\ read.at \in p..Len(text)
                  /\ n <= Len(text) - p => read.at = p + n
<1> DEFINE x == From(text, p)
           in == Stream("DER", text, p)
<1>1. Len(text) \in Nat /\ p \in Nat /\ p <= Len(text) OBVIOUS
<1>2. x \in Seq(Token) /\ Len(x) = Len(text) - p
  <2>1. \A i \in p + 1..Len(text) : text[i] \in Token BY <1>1
  <2>2. /\ SubSeq(text, p + 1, Len(text)) \in Seq(Token)
        /\ Len(SubSeq(text, p + 1, Len(text)))
             = IF p + 1 <= Len(text) THEN Len(text) - (p + 1) + 1 ELSE 0
    BY <1>1, <2>1, SubSeqProperties
  <2> QED BY <1>1, <2>2 DEF From
<1>3. ASSUME NEW n \in Nat
      PROVE  LET read == Read(in, n)
             IN  /\ read.have = x /\ read.end = "eof" /\ read.errors = <<>>
                 /\ read.at \in p..Len(text)
                 /\ n <= Len(text) - p => read.at = p + n
  <2> DEFINE m == IF n <= Len(text) - p THEN n ELSE Len(text) - p
  <2>1. Read(in, n) = DerRead(text, p, n) BY DEF Read, Stream
  <2>2. Min({n, Len(text) - p}) = m
    <3> DEFINE S == {n, Len(text) - p}
    <3>1. S \subseteq Nat /\ m \in S /\ \A q \in S : m <= q BY <1>1
    <3> HIDE DEF S, m
    <3>2. Min(S) = m BY <3>1, MinIs
    <3> QED BY <3>2 DEF S
  <2>3. DerRead(text, p, n) = [have |-> x, end |-> "eof", errors |-> <<>>, at |-> p + m]
    BY <2>2 DEF DerRead, From
  <2>4. p + m \in p..Len(text) /\ (n <= Len(text) - p => p + m = p + n) BY <1>1
  <2> HIDE DEF m, x, in
  <2> QED BY <2>1, <2>3, <2>4
<1>4. Gives(in, x)
  <2> HIDE DEF in, x
  <2> SUFFICES ASSUME NEW n \in Nat
               PROVE  IsBegun(Read(in, n).have, x) /\ Read(in, n).end # "open"
    BY DEF Gives
  <2>1. Read(in, n).have = x /\ Read(in, n).end # "open" BY <1>3
  <2>2. IsBegun(x, x) BY <1>2 DEF IsBegun
  <2> QED BY <2>1, <2>2
<1> QED BY <1>2, <1>3, <1>4

LEMMA DerDecodes ==
  ASSUME NEW text \in Seq(Token), NEW p \in 0..Len(text)
  PROVE  LET x == From(text, p)
             r == krypt_asn1_decode_stream(Stream("DER", text, p))
         IN  /\ IsWhole(x) => r = Decoded(FirstValue(x), p + SizeOf(x))
             /\ ~IsWhole(x) => ~r.ok /\ r.at \in p..Len(text)
<1> DEFINE x == From(text, p)
           in == Stream("DER", text, p)
           r == krypt_asn1_decode_stream(in)
<1>1. /\ x \in Seq(Token) /\ Len(x) = Len(text) - p /\ Gives(in, x)
      /\ \A n \in Nat : /\ Read(in, n).have = x /\ Read(in, n).at \in p..Len(text)
                        /\ n <= Len(text) - p => Read(in, n).at = p + n BY DerGives
<1> HIDE DEF x, in
<1>2. ASSUME IsWhole(x)
      PROVE  r = Decoded(FirstValue(x), p + SizeOf(x))
  <2>1. SizeOf(x) \in Nat /\ SizeOf(x) <= Len(x)
    <3>1. HasHeader(x) /\ x # <<>> /\ SizeOf(x) <= Len(x) BY <1>2 DEF IsWhole, HasHeader
    <3>2. HeaderSize(x[1]) \in {1, 2} /\ LengthOf(x) \in Nat
          /\ SizeOf(x) = HeaderSize(x[1]) + LengthOf(x) BY <1>1, <3>1, OctetsFacts
    <3> QED BY <3>1, <3>2
  <2>2. r = Decoded(FirstValue(x), Read(in, SizeOf(x)).at) BY <1>1, <1>2, DecodesWhole
  <2> QED BY <1>1, <2>1, <2>2
<1>3. ASSUME ~IsWhole(x)
      PROVE  ~r.ok /\ r.at \in p..Len(text)
  <2>1. ~r.ok /\ \E n \in Nat : r.at = Read(in, n).at BY <1>1, <1>3, DecodesCut
  <2> QED BY <1>1, <2>1
<1> QED BY <1>2, <1>3 DEF x, in

-----------------------------------------------------------------------------
(* A stream of PEM.                                                        *)

Given(text, p) == IF HasElement(text, p) THEN ContentOf(text, p) ELSE <<>>

LEMMA DataBegun ==
  ASSUME NEW text \in Seq(Token), NEW a \in 0..Len(text), NEW c \in a..Len(text), NEW b \in a..c
  PROVE  IsBegun(Base64Decoded(text, a, b), Base64Decoded(text, a, c))
<1> DEFINE x == Base64Decoded(text, a, b)
           y == Base64Decoded(text, b, c)
           z == Base64Decoded(text, a, c)
<1>1. Len(text) \in Nat /\ b \in 0..Len(text) /\ b \in a..Len(text) /\ c \in b..Len(text) OBVIOUS
<1>2. x \in Seq(Token) /\ y \in Seq(Token) /\ z \in Seq(Token) BY <1>1, DataTyped
<1>3. z = x \o y BY <1>1, DataSplit
<1> HIDE DEF x, y, z
<1>4. Len(x) \in Nat /\ Len(y) \in Nat /\ Len(z) = Len(x) + Len(y)
      /\ \A i \in 1..Len(x) : z[i] = x[i] BY <1>2, <1>3, ConcatProperties
<1> QED BY <1>2, <1>4 DEF IsBegun, x, z

LEMMA PemGives ==
  ASSUME NEW text \in Seq(Token), NEW p \in 0..Len(text)
  PROVE  /\ Given(text, p) \in Seq(Token)
         /\ Gives(Stream("PEM", text, p), Given(text, p))
         /\ \A n \in Nat : Read(Stream("PEM", text, p), n) = PemRead(text, p, n)
<1> DEFINE x == Given(text, p)
           in == Stream("PEM", text, p)
           b == BeginOf(text, p)
           e == ElementEnd(text, p)
<1>1. ASSUME HasElement(text, p)
      PROVE  /\ b \in 0..Len(text) /\ e \in b..Len(text) /\ x = Base64Decoded(text, b, e)
             /\ \A q \in b..e : IsBegun(Base64Decoded(text, b, q), x)
  <2>1. Len(text) \in Nat /\ b \in (p + 1)..Len(text) /\ e \in b..Len(text) BY <1>1, ElementFound
  <2>2. x = Base64Decoded(text, b, e) BY <1>1 DEF Given, ContentOf
  <2> HIDE DEF b, e
  <2>3. b \in 0..Len(text) BY <2>1
  <2> QED BY <2>1, <2>2, <2>3, DataBegun
<1>2. x \in Seq(Token) BY <1>1, DataTyped DEF Given
<1>3. \A n : Read(in, n) = PemRead(text, p, n) BY DEF Read, Stream
<1> HIDE DEF x, in
<1>4. ASSUME NEW n \in Nat
      PROVE  /\ IsBegun(Read(in, n).have, x)
             /\ Len(Read(in, n).have) >= n \/ Read(in, n).end # "open"
  <2> DEFINE s == PemRead(text, p, n)
  <2>1. Scanned(text, p, s) /\ (Len(s.have) >= n \/ s.end # "open") BY PemReads
  <2> HIDE DEF s
  <2>2. IsBegun(<<>>, x) BY <1>2 DEF IsBegun
  <2>3. IsBegun(x, x) BY <1>2 DEF IsBegun
  <2>4. CASE s = int_krypt_b64_buffer_new(p)
    <3>1. s.have = <<>> BY <2>4 DEF int_krypt_b64_buffer_new
    <3> QED BY <1>3, <2>1, <2>2, <3>1 DEF s
  <2>5. CASE Inside(text, p, s)
    <3>1. HasElement(text, p) /\ s.at \in b..e /\ s.have = Base64Decoded(text, b, s.at)
      BY <2>5 DEF Inside
    <3> QED BY <1>1, <1>3, <2>1, <3>1 DEF s
  <2>6. CASE AtElementEnd(text, p, s)
    <3>1. CASE ~HasElement(text, p)
      <4>1. s.have = <<>> BY <2>6, <3>1 DEF AtElementEnd
      <4> QED BY <1>3, <2>1, <2>2, <4>1 DEF s
    <3>2. CASE HasElement(text, p) /\ FooterOf(text, p) # Len(text)
      <4>1. s.have = x BY <2>6, <3>2 DEF AtElementEnd, x, Given
      <4> QED BY <1>3, <2>1, <2>3, <4>1 DEF s
    <3>3. CASE HasElement(text, p) /\ FooterOf(text, p) = Len(text)
      <4>1. \E q \in b..e : s.have = Base64Decoded(text, b, q) BY <2>6, <3>3 DEF AtElementEnd
      <4> QED BY <1>1, <1>3, <2>1, <3>3, <4>1 DEF s
    <3> QED BY <3>1, <3>2, <3>3
  <2> QED BY <2>1, <2>4, <2>5, <2>6 DEF Scanned
<1>5. Gives(in, x) BY <1>4 DEF Gives
<1> QED BY <1>2, <1>3, <1>5 DEF x, in

\* From every line of an element on, and from behind it, the same header is
\* found.
LEMMA HeaderBehind ==
  ASSUME NEW text \in Seq(Token), NEW p \in 0..Len(text), HasElement(text, p),
         ElementEnd(text, p) # Len(text), FooterOf(text, p) = ElementEnd(text, p)
  PROVE  /\ LineBehind(text, ElementEnd(text, p)) \in (p + 1)..Len(text)
         /\ \A at \in BeginOf(text, p)..ElementEnd(text, p) :
              IsLine(text, BeginOf(text, p), at) =>
                HeaderLineFrom(text, at) = HeaderLineFrom(text, LineBehind(text, ElementEnd(text, p)))
<1> DEFINE b == BeginOf(text, p)
           e == ElementEnd(text, p)
           h == HeaderLineFrom(text, b)
           l == LineBehind(text, e)
           S == {q \in e + 1..Len(text) : text[q].kind = "newline"}
<1>1. /\ Len(text) \in Nat /\ b \in (p + 1)..Len(text) /\ e \in b..Len(text) /\ e # Len(text)
  BY ElementFound
<1>2. b \in 0..Len(text) BY <1>1
<1>3. l \in (e + 1)..Len(text) /\ IsLine(text, b, l)
  <2> HIDE DEF b, e
  <2> QED BY <1>1, <1>2, LineIsBehind
<1>4. /\ h \in b..Len(text)
      /\ h # Len(text) => h \in LinesFrom(text, b) /\ Boundary(text, h, "begin")
      /\ \A q \in LinesFrom(text, b) : StartsWith(text, q, {"begin", "end", "dash"}) => e <= q
  <2>1. e = ContentEnd(text, b) BY DEF ElementEnd
  <2> HIDE DEF b, e
  <2> QED BY <1>2, <2>1, LinesFound
<1>5. text[e + 1].kind = "end"
  <2>1. FooterLineFrom(text, e, NameOf(text, p)) = e /\ e \in 0..Len(text) BY <1>1 DEF FooterOf
  <2>2. Boundary(text, e, "end") BY <1>1, <2>1, LinesFound
  <2> QED BY <2>2 DEF Boundary, StartsWith
<1> HIDE DEF b, e, h
<1>6. h >= l
  <2>1. CASE h = Len(text) BY <1>3, <2>1
  <2>2. CASE h # Len(text)
    <3>1. h \in LinesFrom(text, b) /\ text[h + 1].kind = "begin"
      BY <1>4, <2>2 DEF Boundary, StartsWith
    <3>2. e <= h BY <1>4, <3>1 DEF StartsWith
    <3>3. h # e BY <1>5, <3>1
    <3>4. h \in S BY <1>1, <1>4, <3>1, <3>2, <3>3 DEF LinesFrom
    <3>5. e + 1 \in 0..Len(text) /\ S \subseteq (e + 1)..Len(text) BY <1>1
    <3>6. l = Min(S \cup {Len(text)}) BY DEF LineBehind
    <3> HIDE DEF S, l
    <3>7. l <= h BY <1>1, <3>4, <3>5, <3>6, MinFound
    <3> QED BY <1>1, <1>3, <1>4, <3>7
  <2> QED BY <2>1, <2>2
<1>7. HeaderLineFrom(text, l) = h BY <1>2, <1>3, <1>6, HeaderLater DEF h
<1>8. ASSUME NEW at \in b..e, IsLine(text, b, at)
      PROVE  HeaderLineFrom(text, at) = h
  <2>1. h >= at BY <1>1, <1>3, <1>4, <1>6
  <2> QED BY <1>2, <1>8, <2>1, HeaderLater DEF h
<1> QED BY <1>1, <1>3, <1>7, <1>8 DEF b, e

LEMMA PemFound ==
  ASSUME NEW text \in Seq(Token), NEW p \in 0..Len(text), HasElement(text, p),
         IsWhole(ContentOf(text, p)),
         ElementEnd(text, p) # Len(text), FooterOf(text, p) = ElementEnd(text, p)
  PROVE  \E at \in 0..Len(text) :
           /\ krypt_asn1_decode_stream(Stream("PEM", text, p))
                = Decoded(FirstValue(ContentOf(text, p)), at)
           /\ HeaderLineFrom(text, at) = HeaderLineFrom(text, LineBehind(text, ElementEnd(text, p)))
<1> DEFINE x == ContentOf(text, p)
           in == Stream("PEM", text, p)
           n == SizeOf(x)
           s == PemRead(text, p, n)
           b == BeginOf(text, p)
           e == ElementEnd(text, p)
<1>1. /\ x \in Seq(Token) /\ Gives(in, x)
      /\ \A m \in Nat : Read(in, m) = PemRead(text, p, m) BY PemGives DEF Given
<1>2. \A m \in Nat : Read(in, m).end # "open" => Read(in, m).have = x
  <2> SUFFICES ASSUME NEW m \in Nat, PemRead(text, p, m).end # "open"
               PROVE  PemRead(text, p, m).have = x
    BY <1>1
  <2>1. Scanned(text, p, PemRead(text, p, m)) BY PemReads
  <2>2. AtElementEnd(text, p, PemRead(text, p, m))
    BY <2>1 DEF Scanned, int_krypt_b64_buffer_new, Inside
  <2> QED BY <2>2 DEF AtElementEnd
<1>3. n \in Nat /\ n >= 1
  <2>1. HasHeader(x) /\ x # <<>> BY DEF IsWhole, HasHeader
  <2>2. HeaderSize(x[1]) \in {1, 2} /\ LengthOf(x) \in Nat /\ n = HeaderSize(x[1]) + LengthOf(x)
    BY <1>1, <2>1, OctetsFacts
  <2> QED BY <2>2
<1>4. krypt_asn1_decode_stream(in) = Decoded(FirstValue(x), Read(in, n).at)
  BY <1>1, <1>2, DecodesWhole
<1>5. Read(in, n) = s BY <1>1, <1>3
<1>6. Scanned(text, p, s) /\ (Len(s.have) >= n \/ s.end # "open") BY <1>3, PemReads
<1> HIDE DEF n, s, x, in
<1>7. s # int_krypt_b64_buffer_new(p)
  <2> SUFFICES ASSUME s = int_krypt_b64_buffer_new(p) PROVE FALSE OBVIOUS
  <2>1. s.have = <<>> /\ s.end = "open" BY DEF int_krypt_b64_buffer_new
  <2>2. Len(s.have) = 0 BY <2>1
  <2> QED BY <1>3, <1>6, <2>1, <2>2
<1>8. s.at \in 0..Len(text) BY <1>6 DEF Scanned, PemState
<1>9. HeaderLineFrom(text, s.at) = HeaderLineFrom(text, LineBehind(text, e))
  <2>1. CASE Inside(text, p, s)
    <3>1. s.at \in b..e /\ IsLine(text, b, s.at) BY <2>1 DEF Inside
    <3> QED BY <3>1, HeaderBehind
  <2>2. CASE AtElementEnd(text, p, s)
    <3>1. s.at = LineBehind(text, e) BY <2>2 DEF AtElementEnd
    <3> QED BY <3>1
  <2> QED BY <1>6, <1>7, <2>1, <2>2 DEF Scanned
<1> QED BY <1>4, <1>5, <1>8, <1>9 DEF x, in

LEMMA PemMissing ==
  ASSUME NEW text \in Seq(Token), NEW p \in 0..Len(text),
         HasElement(text, p) =>
           /\ IsCut(ContentOf(text, p)) /\ ~IsWhole(ContentOf(text, p))
           /\ Len(text) \in {FooterOf(text, p), LineBehind(text, FooterOf(text, p))}
  PROVE  LET r == krypt_asn1_decode_stream(Stream("PEM", text, p))
         IN  ~r.ok /\ r.at = Len(text)
<1> DEFINE x == Given(text, p)
           in == Stream("PEM", text, p)
           r == krypt_asn1_decode_stream(in)
<1>1. /\ x \in Seq(Token) /\ Gives(in, x)
      /\ \A n \in Nat : Read(in, n) = PemRead(text, p, n) BY PemGives
<1>2. IsCut(x) /\ ~IsWhole(x) BY DEF Given, IsCut, IsWhole, HasHeader
<1> HIDE DEF x, in
<1>3. ~r.ok /\ \E n \in Nat : r.at = Read(in, n).at /\ Read(in, n).end # "open"
  BY <1>1, <1>2, DecodesCut
<1>4. PICK n \in Nat : r.at = PemRead(text, p, n).at /\ PemRead(text, p, n).end # "open"
  BY <1>1, <1>3
<1>5. Scanned(text, p, PemRead(text, p, n)) BY PemReads
<1>6. AtElementEnd(text, p, PemRead(text, p, n))
  BY <1>4, <1>5 DEF Scanned, int_krypt_b64_buffer_new, Inside
<1>7. PemRead(text, p, n).at = Len(text) BY <1>6 DEF AtElementEnd
<1> QED BY <1>3, <1>4, <1>7 DEF in

-----------------------------------------------------------------------------
(* What follows from a place of a text on.                                 *)

LEMMA FirstValueTyped ==
  ASSUME NEW x \in Seq(Token), IsWhole(x)
  PROVE  FirstValue(x) \in Object /\ SizeOf(x) \in 1..Len(x)
<1>1. HasHeader(x) /\ x # <<>> /\ SizeOf(x) <= Len(x) BY DEF IsWhole, HasHeader
<1>2. /\ x[1] \in Token /\ HeaderSize(x[1]) \in {1, 2} /\ LengthOf(x) \in Nat
      /\ SizeOf(x) = HeaderSize(x[1]) + LengthOf(x) BY <1>1, OctetsFacts
<1>3. SizeOf(x) \in 1..Len(x) BY <1>1, <1>2
<1>4. SubSeq(x, HeaderSize(x[1]) + 1, SizeOf(x)) \in Seq(Token)
  <2> DEFINE a == HeaderSize(x[1]) + 1
             b == SizeOf(x)
  <2>1. a \in Int /\ a >= 1 /\ b \in Int /\ b <= Len(x) BY <1>2, <1>3
  <2> HIDE DEF a, b
  <2>2. \A i \in a..b : x[i] \in Token BY <2>1
  <2>3. SubSeq(x, a, b) \in Seq(Token) BY <2>1, <2>2, SubSeqProperties
  <2> QED BY <2>3 DEF a, b
<1>5. Identifier(x[1]) \in 0..255 BY <1>2, TokenFacts
<1> QED BY <1>3, <1>4, <1>5 DEF FirstValue, Object

ValuesAt(f, text, p) ==
  IF IsWhole(From(text, p))
  THEN <<FirstValue(From(text, p))>> \o f[p + SizeOf(From(text, p))]
  ELSE <<>>

LEMMA ValuesBehind ==
  ASSUME NEW text \in Seq(Token), NEW p \in 0..Len(text), NEW f, NEW g,
         \A q \in (p + 1)..Len(text) : g[q] = f[q]
  PROVE  ValuesAt(g, text, p) = ValuesAt(f, text, p)
<1>1. ASSUME IsWhole(From(text, p))
      PROVE  g[p + SizeOf(From(text, p))] = f[p + SizeOf(From(text, p))]
  <2> DEFINE m == SizeOf(From(text, p))
  <2>1. From(text, p) \in Seq(Token) /\ Len(From(text, p)) = Len(text) - p BY DerGives
  <2>2. m \in 1..(Len(text) - p) BY <1>1, <2>1, FirstValueTyped
  <2> HIDE DEF m
  <2>3. p + m \in (p + 1)..Len(text) BY <2>2
  <2> QED BY <2>3 DEF m
<1> QED BY <1>1 DEF ValuesAt

LEMMA ValuesExist ==
  ASSUME NEW text \in Seq(Token)
  PROVE  \E f : f = [p \in 0..Len(text) |-> ValuesAt(f, text, p)]
<1> DEFINE n == Len(text)
           IsFcn(f) == f = [p \in 0..n |-> f[p]]
           Down(f, i) == \A p \in i..n : f[p] = ValuesAt(f, text, p)
           S == {i \in 0..n : \E f : IsFcn(f) /\ Down(f, i)}
<1>1. n \in Nat OBVIOUS
<1>2. ASSUME NEW i \in 0..n, \A j \in (i + 1)..n : j \in S
      PROVE  i \in S
  <2>1. PICK f : IsFcn(f) /\ Down(f, i + 1)
    <3>1. CASE i = n
      <4> DEFINE f == [p \in 0..n |-> <<>>]
      <4>1. IsFcn(f) OBVIOUS
      <4>2. Down(f, i + 1) BY <1>1, <3>1
      <4> HIDE DEF IsFcn, Down, f
      <4> QED BY <4>1, <4>2
    <3>2. CASE i # n
      <4>1. i + 1 \in (i + 1)..n BY <1>1, <3>2
      <4>2. i + 1 \in S BY <1>2, <4>1
      <4> HIDE DEF IsFcn, Down
      <4> QED BY <4>2
    <3> QED BY <3>1, <3>2
  <2> DEFINE g == [p \in 0..n |-> IF p = i THEN ValuesAt(f, text, i) ELSE f[p]]
  <2>2. /\ g[i] = ValuesAt(f, text, i) /\ \A p \in (i + 1)..n : g[p] = f[p]
        /\ IsFcn(g) BY <1>1
  <2> HIDE DEF g
  <2>3. ASSUME NEW p \in i..n
        PROVE  g[p] = ValuesAt(g, text, p)
    <3>1. \A q \in (p + 1)..n : q \in (i + 1)..n BY <1>1
    <3>2. \A q \in (p + 1)..Len(text) : g[q] = f[q] BY <2>2, <3>1
    <3>3. p \in 0..Len(text) BY <1>1
    <3>4. ValuesAt(g, text, p) = ValuesAt(f, text, p) BY <3>2, <3>3, ValuesBehind
    <3>5. p = i \/ p \in (i + 1)..n BY <1>1
    <3> QED BY <2>1, <2>2, <3>4, <3>5
  <2>4. Down(g, i) BY <2>3
  <2> HIDE DEF IsFcn, Down
  <2> QED BY <2>2, <2>4
<1>3. 0 \in S
  <2> HIDE DEF S
  <2>1. \A i \in 0..n : i \in S BY <1>1, <1>2, Downwards
  <2> QED BY <1>1, <2>1
<1>4. PICK f : IsFcn(f) /\ Down(f, 0) BY <1>3
<1>5. f = [p \in 0..n |-> ValuesAt(f, text, p)] BY <1>4
<1> QED BY <1>5

LEMMA ValuesDefined ==
  ASSUME NEW text \in Seq(Token)
  PROVE  \A p \in 0..Len(text) : ValuesFrom(text)[p] = ValuesAt(ValuesFrom(text), text, p)
<1> DEFINE f == CHOOSE f : f = [p \in 0..Len(text) |-> ValuesAt(f, text, p)]
<1>1. ValuesFrom(text) = f BY Zenon DEF ValuesFrom, ValuesAt
<1> HIDE DEF f
<1>2. f = [p \in 0..Len(text) |-> ValuesAt(f, text, p)] BY ValuesExist DEF f
<1>3. \A p \in 0..Len(text) : f[p] = ValuesAt(f, text, p) BY <1>2
<1> QED BY <1>1, <1>3

LEMMA ValuesTyped ==
  ASSUME NEW text \in Seq(Token), NEW p \in 0..Len(text)
  PROVE  ValuesFrom(text)[p] \in Seq(Object)
<1> DEFINE n == Len(text)
           S == {i \in 0..n : ValuesFrom(text)[i] \in Seq(Object)}
<1>1. n \in Nat OBVIOUS
<1>2. ASSUME NEW i \in 0..n, \A j \in (i + 1)..n : j \in S
      PROVE  i \in S
  <2> DEFINE m == SizeOf(From(text, i))
             rest == ValuesFrom(text)[i + m]
  <2>1. ValuesFrom(text)[i] = ValuesAt(ValuesFrom(text), text, i) BY ValuesDefined
  <2>2. CASE IsWhole(From(text, i))
    <3>1. From(text, i) \in Seq(Token) /\ Len(From(text, i)) = Len(text) - i BY DerGives
    <3>2. m \in 1..(n - i) /\ FirstValue(From(text, i)) \in Object BY <2>2, <3>1, FirstValueTyped
    <3> HIDE DEF m, n, S
    <3>3. i + m \in (i + 1)..n BY <1>1, <3>2
    <3>4. rest \in Seq(Object) BY <1>2, <3>3 DEF S
    <3>5. ValuesFrom(text)[i] = <<FirstValue(From(text, i))>> \o rest
      BY <2>1, <2>2 DEF ValuesAt, m
    <3> HIDE DEF rest
    <3>6. <<FirstValue(From(text, i))>> \o rest \in Seq(Object) BY <3>2, <3>4
    <3> QED BY <3>5, <3>6 DEF S
  <2>3. CASE ~IsWhole(From(text, i))
    <3>1. ValuesFrom(text)[i] = <<>> /\ <<>> \in Seq(Object) BY <2>1, <2>3 DEF ValuesAt
    <3> QED BY <3>1
  <2> QED BY <2>2, <2>3
<1> HIDE DEF S
<1>3. \A i \in 0..n : i \in S BY <1>1, <1>2, Downwards
<1> QED BY <1>3 DEF S

ElementsAt(f, text, p) ==
  IF ~HasElement(text, p) THEN [objects |-> <<>>, whole |-> TRUE]
  ELSE IF ~IsWhole(ContentOf(text, p))
  THEN [objects |-> <<>>,
        whole   |-> /\ IsCut(ContentOf(text, p))
                    /\ Len(text) \in {FooterOf(text, p), LineBehind(text, FooterOf(text, p))}]
  ELSE IF FooterOf(text, p) # ElementEnd(text, p) \/ ElementEnd(text, p) = Len(text)
  THEN [objects |-> <<>>, whole |-> FALSE]
  ELSE [f[LineBehind(text, ElementEnd(text, p))] EXCEPT !.objects = <<FirstValue(ContentOf(text, p))>> \o @]

LEMMA ElementsBehind ==
  ASSUME NEW text \in Seq(Token), NEW p \in 0..Len(text), NEW f, NEW g,
         \A q \in (p + 1)..Len(text) : g[q] = f[q]
  PROVE  ElementsAt(g, text, p) = ElementsAt(f, text, p)
<1> DEFINE l == LineBehind(text, ElementEnd(text, p))
<1>1. HasElement(text, p) /\ ElementEnd(text, p) # Len(text) /\ FooterOf(text, p) = ElementEnd(text, p)
        => g[l] = f[l] BY HeaderBehind
<1> HIDE DEF l
<1> QED BY <1>1 DEF ElementsAt, l

LEMMA ElementsExist ==
  ASSUME NEW text \in Seq(Token)
  PROVE  \E f : f = [p \in 0..Len(text) |-> ElementsAt(f, text, p)]
<1> DEFINE n == Len(text)
           IsFcn(f) == f = [p \in 0..n |-> f[p]]
           Down(f, i) == \A p \in i..n : f[p] = ElementsAt(f, text, p)
           S == {i \in 0..n : \E f : IsFcn(f) /\ Down(f, i)}
<1>1. n \in Nat OBVIOUS
<1>2. ASSUME NEW i \in 0..n, \A j \in (i + 1)..n : j \in S
      PROVE  i \in S
  <2>1. PICK f : IsFcn(f) /\ Down(f, i + 1)
    <3>1. CASE i = n
      <4> DEFINE f == [p \in 0..n |-> <<>>]
      <4>1. IsFcn(f) OBVIOUS
      <4>2. Down(f, i + 1) BY <1>1, <3>1
      <4> HIDE DEF IsFcn, Down, f
      <4> QED BY <4>1, <4>2
    <3>2. CASE i # n
      <4>1. i + 1 \in (i + 1)..n BY <1>1, <3>2
      <4>2. i + 1 \in S BY <1>2, <4>1
      <4> HIDE DEF IsFcn, Down
      <4> QED BY <4>2
    <3> QED BY <3>1, <3>2
  <2> DEFINE g == [p \in 0..n |-> IF p = i THEN ElementsAt(f, text, i) ELSE f[p]]
  <2>2. /\ g[i] = ElementsAt(f, text, i) /\ \A p \in (i + 1)..n : g[p] = f[p]
        /\ IsFcn(g) BY <1>1
  <2> HIDE DEF g
  <2>3. ASSUME NEW p \in i..n
        PROVE  g[p] = ElementsAt(g, text, p)
    <3>1. \A q \in (p + 1)..n : q \in (i + 1)..n BY <1>1
    <3>2. \A q \in (p + 1)..Len(text) : g[q] = f[q] BY <2>2, <3>1
    <3>3. p \in 0..Len(text) BY <1>1
    <3>4. ElementsAt(g, text, p) = ElementsAt(f, text, p) BY <3>2, <3>3, ElementsBehind
    <3>5. p = i \/ p \in (i + 1)..n BY <1>1
    <3> QED BY <2>1, <2>2, <3>4, <3>5
  <2>4. Down(g, i) BY <2>3
  <2> HIDE DEF IsFcn, Down
  <2> QED BY <2>2, <2>4
<1>3. 0 \in S
  <2> HIDE DEF S
  <2>1. \A i \in 0..n : i \in S BY <1>1, <1>2, Downwards
  <2> QED BY <1>1, <2>1
<1>4. PICK f : IsFcn(f) /\ Down(f, 0) BY <1>3
<1>5. f = [p \in 0..n |-> ElementsAt(f, text, p)] BY <1>4
<1> QED BY <1>5

LEMMA ElementsDefined ==
  ASSUME NEW text \in Seq(Token)
  PROVE  \A p \in 0..Len(text) : ElementsFrom(text)[p] = ElementsAt(ElementsFrom(text), text, p)
<1> DEFINE f == CHOOSE f : f = [p \in 0..Len(text) |-> ElementsAt(f, text, p)]
<1>1. ElementsFrom(text) = f
  BY Zenon DEF ElementsFrom, ElementsAt, HasElement, ContentOf, FooterOf, ElementEnd, BeginOf, NameOf
<1> HIDE DEF f
<1>2. f = [p \in 0..Len(text) |-> ElementsAt(f, text, p)] BY ElementsExist DEF f
<1>3. \A p \in 0..Len(text) : f[p] = ElementsAt(f, text, p) BY <1>2
<1> QED BY <1>1, <1>3

LEMMA ElementsTyped ==
  ASSUME NEW text \in Seq(Token), NEW p \in 0..Len(text)
  PROVE  ElementsFrom(text)[p] \in [objects : Seq(Object), whole : BOOLEAN]
<1> DEFINE n == Len(text)
           T == [objects : Seq(Object), whole : BOOLEAN]
           S == {i \in 0..n : ElementsFrom(text)[i] \in T}
<1>1. n \in Nat OBVIOUS
<1>2. ASSUME NEW i \in 0..n, \A j \in (i + 1)..n : j \in S
      PROVE  i \in S
  <2> DEFINE l == LineBehind(text, ElementEnd(text, i))
             x == ContentOf(text, i)
             rest == ElementsFrom(text)[l]
             this == ElementsFrom(text)[i]
  <2>1. this = ElementsAt(ElementsFrom(text), text, i) BY ElementsDefined
  <2>2. CASE /\ HasElement(text, i) /\ IsWhole(x)
             /\ FooterOf(text, i) = ElementEnd(text, i) /\ ElementEnd(text, i) # Len(text)
    <3>1. l \in (i + 1)..n BY <2>2, HeaderBehind
    <3>2. rest \in T BY <1>2, <3>1
    <3>3. x \in Seq(Token) BY <2>2, PemGives DEF Given
    <3>4. FirstValue(x) \in Object BY <2>2, <3>3, FirstValueTyped
    <3>5. this = [rest EXCEPT !.objects = <<FirstValue(x)>> \o @] BY <2>1, <2>2 DEF ElementsAt
    <3> HIDE DEF rest, this, x, l, n
    <3>6. /\ rest.objects \in Seq(Object) /\ rest.whole \in BOOLEAN
          /\ this = [objects |-> <<FirstValue(x)>> \o rest.objects, whole |-> rest.whole]
      BY <3>2, <3>5
    <3>7. <<FirstValue(x)>> \o rest.objects \in Seq(Object) BY <3>4, <3>6
    <3>8. this \in T BY <3>6, <3>7
    <3> QED BY <3>8 DEF this
  <2>3. CASE ~(/\ HasElement(text, i) /\ IsWhole(x)
               /\ FooterOf(text, i) = ElementEnd(text, i) /\ ElementEnd(text, i) # Len(text))
    <3>1. \E w \in BOOLEAN : this = [objects |-> <<>>, whole |-> w] BY <2>1, <2>3 DEF ElementsAt
    <3>2. <<>> \in Seq(Object) OBVIOUS
    <3>3. this \in T BY <3>1, <3>2
    <3> QED BY <3>3 DEF this
  <2> QED BY <2>2, <2>3
<1> HIDE DEF S
<1>3. \A i \in 0..n : i \in S BY <1>1, <1>2, Downwards
<1> QED BY <1>3 DEF S

-----------------------------------------------------------------------------
(* What decoding a stream may give.                                        *)

LEMMA NotDecodedTyped ==
  ASSUME NEW s, s.errors \in Seq(Message), Len(s.errors) <= 1,
         NEW more \in Seq(Message), Len(more) <= 2
  PROVE  LET r == NotDecoded(s, more)
         IN  /\ r = [ok |-> FALSE, errors |-> r.errors, at |-> r.at] /\ r.at = s.at
             /\ r.errors \in Seq(Message) /\ Len(r.errors) <= 3
<1>1. Len(s.errors) \in Nat /\ Len(more) \in Nat OBVIOUS
<1>2. s.errors \o more \in Seq(Message) /\ Len(s.errors \o more) = Len(s.errors) + Len(more)
  BY ConcatProperties
<1>3. Len(s.errors \o more) <= 3 BY <1>1, <1>2
<1> QED BY <1>2, <1>3 DEF NotDecoded

Readable(in, m) ==
  \A n \in Nat :
    /\ Read(in, n).have \in Seq(Token) /\ Read(in, n).at \in 0..m
    /\ Read(in, n).errors \in Seq(Message) /\ Len(Read(in, n).errors) <= 1

LEMMA StreamsReadable ==
  ASSUME NEW text \in Seq(Token), NEW p \in 0..Len(text), NEW kind \in {"DER", "PEM"}
  PROVE  Readable(Stream(kind, text, p), Len(text))
<1> DEFINE in == Stream(kind, text, p)
<1> SUFFICES ASSUME NEW n \in Nat
             PROVE  LET s == Read(in, n)
                    IN  /\ s.have \in Seq(Token) /\ s.at \in 0..Len(text)
                        /\ s.errors \in Seq(Message) /\ Len(s.errors) <= 1 BY DEF Readable
<1>1. CASE kind = "DER"
  <2>1. /\ Read(in, n).have = From(text, p) /\ From(text, p) \in Seq(Token)
        /\ Read(in, n).errors = <<>> /\ Read(in, n).at \in p..Len(text) BY <1>1, DerGives
  <2>2. <<>> \in Seq(Message) /\ Len(<<>>) <= 1 /\ p..Len(text) \subseteq 0..Len(text) OBVIOUS
  <2> HIDE DEF in
  <2> QED BY <2>1, <2>2
<1>2. CASE kind = "PEM"
  <2> DEFINE s == PemRead(text, p, n)
  <2>1. Read(in, n) = s BY <1>2, PemGives
  <2>2. Scanned(text, p, s) BY PemReads
  <2> HIDE DEF s, in
  <2>3. s \in PemState(text) BY <2>2 DEF Scanned
  <2>4. s.errors = <<>> \/ Len(s.errors) = 1
    BY <2>2 DEF Scanned, AtElementEnd, Inside, int_krypt_b64_buffer_new
  <2>5. Len(s.errors) <= 1
    <3>1. Len(s.errors) \in {0, 1}
      <4>1. Len(<<>>) = 0 OBVIOUS
      <4> QED BY <2>4, <4>1, Zenon
    <3>2. \A l \in {0, 1} : l <= 1 OBVIOUS
    <3> QED BY <3>1, <3>2, Zenon
  <2> QED BY <2>1, <2>3, <2>5 DEF PemState
<1> QED BY <1>1, <1>2

\* The result of decoding a source of m tokens.
Result(r, m) ==
  /\ r.at \in 0..m
  /\ \/ r = Decoded(r.object, r.at) /\ r.object \in Object
     \/ /\ r = [ok |-> FALSE, errors |-> r.errors, at |-> r.at]
        /\ r.errors \in Seq(Message) /\ Len(r.errors) <= 3

LEMMA NotDecodedResult ==
  ASSUME NEW m \in Nat, NEW in, Readable(in, m), NEW n \in Nat,
         NEW more \in Seq(Message), Len(more) <= 2
  PROVE  Result(NotDecoded(Read(in, n), more), m)
<1>1. /\ Read(in, n).at \in 0..m
      /\ Read(in, n).errors \in Seq(Message) /\ Len(Read(in, n).errors) <= 1 BY DEF Readable
<1> QED BY <1>1, NotDecodedTyped DEF Result

LEMMA Messages ==
  /\ <<>> \in Seq(Message) /\ Len(<<>>) <= 2
  /\ \A a \in Message : <<a>> \in Seq(Message) /\ Len(<<a>>) <= 2
  /\ \A a, b \in Message : <<a, b>> \in Seq(Message) /\ Len(<<a, b>>) <= 2 OBVIOUS

LEMMA MoreErrors ==
  /\ \A b \in BOOLEAN : LET m == IF b THEN <<"Error when parsing stream">> ELSE <<>>
                        IN  m \in Seq(Message) /\ Len(m) <= 2
  /\ LET m == <<"Could not read byte from stream", "Error when parsing length">>
     IN  m \in Seq(Message) /\ Len(m) <= 2
  /\ LET m == <<"Initial octet of complex definite length shall not be 0xFF",
                "Error when parsing length">>
     IN  m \in Seq(Message) /\ Len(m) <= 2
  /\ LET m == <<"Infinite length values must be constructed">>
     IN  m \in Seq(Message) /\ Len(m) <= 2
  /\ \A b \in BOOLEAN : LET m == <<IF b THEN "Error while reading from stream"
                                   ELSE "Premature EOF detected">>
                        IN  m \in Seq(Message) /\ Len(m) <= 2
<1>1. /\ "Error when parsing stream" \in Message
      /\ "Could not read byte from stream" \in Message /\ "Error when parsing length" \in Message
      /\ "Initial octet of complex definite length shall not be 0xFF" \in Message
      /\ "Infinite length values must be constructed" \in Message
      /\ "Error while reading from stream" \in Message /\ "Premature EOF detected" \in Message
  BY DEF Message
<1> QED BY <1>1, Messages

LEMMA DecodeTyped ==
  ASSUME NEW m \in Nat, NEW in, Readable(in, m)
  PROVE  Result(krypt_asn1_decode_stream(in), m)
<1> DEFINE first == Read(in, 1)
           tag == first.have[1]
           size == HeaderSize(tag)
           second == Read(in, size)
           length == Length(second.have[size])
           header == krypt_asn1_next_header(in)
           r == krypt_asn1_decode_stream(in)
           Fails(n) == \E more \in Seq(Message) :
                         Len(more) <= 2 /\ header = NotDecoded(Read(in, n), more)
<1>1. ASSUME NEW n \in Nat, Fails(n)
      PROVE  Result(r, m)
  <2>1. PICK more \in Seq(Message) : Len(more) <= 2 /\ header = NotDecoded(Read(in, n), more)
    BY <1>1
  <2>2. ~header.ok BY <2>1 DEF NotDecoded
  <2>3. r = header BY <2>2 DEF krypt_asn1_decode_stream
  <2> QED BY <2>1, <2>3, NotDecodedResult
<1>2. CASE first.have = <<>>
  <2> DEFINE more == IF first.end = "error" THEN <<"Error when parsing stream">> ELSE <<>>
  <2>1. header = NotDecoded(first, more) BY <1>2 DEF krypt_asn1_next_header
  <2>2. more \in Seq(Message) /\ Len(more) <= 2 BY MoreErrors, Messages
  <2> HIDE DEF more
  <2>3. 1 \in Nat /\ Fails(1) BY <2>1, <2>2
  <2> QED BY <1>1, <2>3
<1>3. CASE first.have # <<>>
  <2>1. tag \in Token
    <3>1. first.have \in Seq(Token) BY DEF Readable
    <3>2. Len(first.have) \in Nat /\ Len(first.have) # 0 BY <1>3, <3>1, EmptySeq
    <3> QED BY <3>1, <3>2
  <2>2. size \in {1, 2} /\ Identifier(tag) \in 0..255 BY <2>1, TokenFacts
  <2>3. header = int_parse_length(tag, second) BY <1>3 DEF krypt_asn1_next_header
  <2>4. size \in Nat BY <2>2
  <2>5. second.have \in Seq(Token) /\ Len(second.have) \in Nat BY <2>4 DEF Readable
  <2>6. header =
          IF Len(second.have) < size
          THEN NotDecoded(second, <<"Could not read byte from stream", "Error when parsing length">>)
          ELSE IF length = 255
          THEN NotDecoded(second, <<"Initial octet of complex definite length shall not be 0xFF",
                                    "Error when parsing length">>)
          ELSE IF length = 128
          THEN NotDecoded(second, <<"Infinite length values must be constructed">>)
          ELSE [ok |-> TRUE, size |-> size, identifier |-> Identifier(tag), length |-> length]
    BY <2>3, Zenon DEF int_parse_length
  <2>7. CASE Len(second.have) < size \/ length = 255 \/ length = 128
    <3> HIDE DEF second, length, size, header
    <3>1. \/ header = NotDecoded(second, <<"Could not read byte from stream",
                                           "Error when parsing length">>)
          \/ header = NotDecoded(second, <<"Initial octet of complex definite length shall not be 0xFF",
                                           "Error when parsing length">>)
          \/ header = NotDecoded(second, <<"Infinite length values must be constructed">>)
      BY <2>6, <2>7, Zenon
    <3>2. Fails(size) BY <3>1, MoreErrors DEF second
    <3> HIDE DEF Fails
    <3> QED BY <1>1, <2>4, <3>2
  <2>8. CASE ~(Len(second.have) < size) /\ length # 255 /\ length # 128
    <3> DEFINE third == Read(in, size + length)
    <3>1. header = [ok |-> TRUE, size |-> size, identifier |-> Identifier(tag), length |-> length]
      <4> HIDE DEF second, length, size, header
      <4> QED BY <2>6, <2>8, Zenon
    <3>2. length \in Nat
      <4>1. second.have[size] \in Token BY <2>2, <2>5, <2>8
      <4> QED BY <4>1, TokenFacts
    <3>3. r = krypt_asn1_get_value(header, third) BY <3>1 DEF krypt_asn1_decode_stream
    <3> DEFINE all == size + length
    <3> HIDE DEF header, length, size
    <3>4. all \in Nat /\ third.have \in Seq(Token) /\ third.at \in 0..m
      BY <2>4, <3>2 DEF Readable
    <3>5. CASE Len(third.have) < all
      <4> DEFINE more == <<IF third.end = "error" THEN "Error while reading from stream"
                           ELSE "Premature EOF detected">>
      <4>1. r = NotDecoded(third, more) BY <3>1, <3>3, <3>5, Zenon DEF krypt_asn1_get_value
      <4>2. more \in Seq(Message) /\ Len(more) <= 2 BY MoreErrors
      <4> HIDE DEF more
      <4> QED BY <3>4, <4>1, <4>2, NotDecodedResult
    <3>6. CASE ~(Len(third.have) < all)
      <4> DEFINE content == SubSeq(third.have, size + 1, all)
                 object == [identifier |-> Identifier(tag), content |-> content]
      <4>1. r = Decoded(object, third.at) BY <3>1, <3>3, <3>6, Zenon DEF krypt_asn1_get_value
      <4>2. content \in Seq(Token)
        <5> DEFINE a == size + 1
                   s == third.have
        <5>1. a \in Int /\ a >= 1 /\ all \in Int /\ all <= Len(s) /\ s \in Seq(Token) /\ Len(s) \in Nat
          BY <2>4, <3>4, <3>6
        <5> HIDE DEF a, s, all
        <5>2. \A i \in a..all : s[i] \in Token BY <5>1
        <5>3. SubSeq(s, a, all) \in Seq(Token) BY <5>1, <5>2, SubSeqProperties
        <5> QED BY <5>3 DEF a, s
      <4> HIDE DEF content, third, r
      <4>3. object \in Object BY <2>2, <4>2 DEF Object
      <4>4. r.object = object /\ r.at = third.at BY <4>1 DEF Decoded
      <4>5. r = Decoded(r.object, r.at) BY <4>1, <4>4, Zenon
      <4>6. r.at \in 0..m /\ r.object \in Object BY <3>4, <4>3, <4>4
      <4> QED BY <4>5, <4>6, Zenon DEF Result, r
    <3> QED BY <3>5, <3>6
  <2> QED BY <2>7, <2>8
<1> QED BY <1>2, <1>3

-----------------------------------------------------------------------------
(* Types.                                                                  *)

CallName == {"decode", "decode_der", "decode_pem", "value", "template"}

Answers == [ok : BOOLEAN, object : Object, told : Seq(Message \cup {"TypeError"})]

Calls == [name : CallName, from : Nat, result : Answers]

\* What an IO reads, to_der gives or a String is.
SourceText == IF source.der = <<>> THEN <<>> ELSE source.der[1]

LEMMA SourceFacts ==
  ASSUME source \in Sources
  PROVE  /\ source \in Source
         /\ SourceText \in Seq(Token)
         /\ source.der # <<>> => source.der[1] = SourceText
         /\ source.pem # <<>> => source.pem[1] \in Seq(Token)
         /\ source.kind # "object" =>
              source.der # <<>> /\ source.pem # <<>> /\ source.pem[1] = SourceText
         /\ source.is_der => source.der # <<>>
         /\ SourceSound(source)
<1>1. /\ source \in Source
      /\ source.kind # "object" => Len(source.der) = 1 /\ source.pem = source.der
      /\ source.is_der => source.der # <<>> BY DecodeAssumption
<1>2. source.der \in Seq(Seq(Token)) /\ source.pem \in Seq(Seq(Token)) BY <1>1 DEF Source
<1>3. ASSUME NEW s \in Seq(Seq(Token)), s # <<>>
      PROVE  s[1] \in Seq(Token)
  <2>1. Len(s) \in Nat /\ Len(s) # 0 BY <1>3, EmptySeq
  <2> QED BY <2>1
<1>4. source.kind # "object" => source.der # <<>>
  <2>1. Len(<<>>) # 1 OBVIOUS
  <2> QED BY <1>1, <2>1
<1>5. SourceText \in Seq(Token) BY <1>2, <1>3 DEF SourceText
<1>6. SourceSound(source) BY SourcesAssumption
<1> QED BY <1>1, <1>2, <1>3, <1>4, <1>5, <1>6 DEF SourceText

LEMMA StartFacts ==
  ASSUME DecodeTypeOK
  PROVE  /\ pos \in 0..Len(SourceText) /\ Start \in Nat
         /\ Start \in 0..Len(SourceText)
         /\ source.pem # <<>> => Start \in 0..Len(source.pem[1])
<1>1. pos \in 0..Len(SourceText) /\ SourceText \in Seq(Token)
  BY SourceFacts DEF DecodeTypeOK, SourceText
<1>2. source.kind = "IO" => Start = pos /\ source.pem[1] = SourceText
  BY SourceFacts DEF Start, DecodeTypeOK
<1>3. source.kind # "IO" => Start = 0 BY DEF Start
<1>4. source.pem # <<>> => Len(source.pem[1]) \in Nat BY SourceFacts DEF DecodeTypeOK
<1> QED BY <1>1, <1>2, <1>3, <1>4

LEMMA CallTyped ==
  ASSUME DecodeTypeOK, NEW label \in CallName, NEW result \in Answers, Call(label, result)
  PROVE  /\ source' = source /\ calls' \in Seq(Calls) /\ Len(calls') = Len(calls) + 1
         /\ calls'[Len(calls) + 1] = [name |-> label, from |-> Start, result |-> result]
         /\ \A i \in 1..Len(calls) : calls'[i] = calls[i]
<1> DEFINE c == [name |-> label, from |-> Start, result |-> result]
<1>1. calls \in Seq(Calls) BY DEF DecodeTypeOK, Calls, CallName, Answers
<1>2. c \in Calls BY StartFacts DEF Calls
<1>3. source' = source /\ calls' = Append(calls, c) BY DEF Call
<1> HIDE DEF c
<1>4. /\ calls' \in Seq(Calls) /\ Len(calls') = Len(calls) + 1 /\ calls'[Len(calls) + 1] = c
      /\ \A i \in 1..Len(calls) : calls'[i] = calls[i] BY <1>1, <1>2, <1>3, AppendProperties
<1> QED BY <1>3, <1>4 DEF c

LEMMA AnswersTyped ==
  /\ \A object \in Object : Answered(object) \in Answers
  /\ \A told \in Seq(Message \cup {"TypeError"}) : Raised(told) \in Answers
<1>1. <<>> \in Seq(Message \cup {"TypeError"}) /\ <<>> \in Seq(Token) OBVIOUS
<1>2. [identifier |-> 0, content |-> <<>>] \in Object BY <1>1 DEF Object
<1> QED BY <1>1, <1>2 DEF Answered, Raised, Answers

LEMMA ReverseTyped ==
  ASSUME NEW s \in Seq(Message)
  PROVE  Reverse(s) \in Seq(Message \cup {"TypeError"})
<1>1. \A i \in 1..Len(s) : s[(Len(s) - i) + 1] \in Message \cup {"TypeError"} OBVIOUS
<1>2. Reverse(s) = [i \in 1..Len(s) |-> s[(Len(s) - i) + 1]] BY DEF Reverse
<1> QED BY <1>1, <1>2

\* Only the calls, the errors and where an IO stands change.
LEMMA StepTyped ==
  ASSUME DecodeTypeOK, source' = source, calls' \in Seq(Calls), errors' \in Seq(Message),
         pos' \in 0..Len(SourceText)
  PROVE  DecodeTypeOK'
  BY DEF DecodeTypeOK, Calls, CallName, Answers, SourceText

LEMMA RaiseTyped ==
  ASSUME DecodeTypeOK, NEW label \in CallName, NEW added \in Seq(Message),
         krypt_error_raise(label, added)
  PROVE  /\ source' = source /\ calls' \in Seq(Calls) /\ errors' = <<>>
         /\ \E told \in Seq(Message \cup {"TypeError"}) : Call(label, Raised(told))
<1> DEFINE told == Reverse(errors \o added)
<1>1. errors \o added \in Seq(Message) BY ConcatProperties DEF DecodeTypeOK
<1>2. told \in Seq(Message \cup {"TypeError"}) BY <1>1, ReverseTyped
<1>3. Call(label, Raised(told)) /\ errors' = <<>> BY DEF krypt_error_raise, Untold
<1> HIDE DEF told
<1>4. source' = source /\ calls' \in Seq(Calls) BY <1>2, <1>3, AnswersTyped, CallTyped
<1> QED BY <1>2, <1>3, <1>4

\* What the stream of a call is of.
LEMMA CallStreams ==
  ASSUME DecodeTypeOK
  PROVE  /\ source.der # <<>> =>
              \A kind \in {"DER", "PEM"} :
                Result(krypt_asn1_decode_stream(Stream(kind, source.der[1], Start)), Len(SourceText))
         /\ source.pem # <<>> =>
              Result(krypt_asn1_decode_stream(Stream("PEM", source.pem[1], Start)), Len(source.pem[1]))
<1>1. source \in Sources BY DEF DecodeTypeOK
<1>2. ASSUME NEW text \in Seq(Token), Start \in 0..Len(text), NEW kind \in {"DER", "PEM"}
      PROVE  Result(krypt_asn1_decode_stream(Stream(kind, text, Start)), Len(text))
  <2>1. Len(text) \in Nat /\ Readable(Stream(kind, text, Start), Len(text))
    BY <1>2, StreamsReadable
  <2> QED BY <2>1, DecodeTyped
<1>3. source.der # <<>> => source.der[1] = SourceText BY <1>1, SourceFacts
<1>4. SourceText \in Seq(Token) /\ Start \in 0..Len(SourceText) BY <1>1, SourceFacts, StartFacts
<1>5. source.pem # <<>> => source.pem[1] \in Seq(Token) /\ Start \in 0..Len(source.pem[1])
  BY <1>1, SourceFacts, StartFacts
<1> QED BY <1>2, <1>3, <1>4, <1>5

LEMMA StandsTyped ==
  ASSUME DecodeTypeOK, NEW m \in Nat, NEW at \in 0..m, source.kind = "IO" => m = Len(SourceText)
  PROVE  StandsAt(at) \in 0..Len(SourceText)
<1>1. Len(SourceText) \in Nat BY SourceFacts DEF DecodeTypeOK
<1> QED BY <1>1 DEF StandsAt

LEMMA SingleTyped ==
  ASSUME DecodeTypeOK, NEW label \in CallName, NEW m \in Nat, NEW r, Result(r, m), Single(label, r),
         source.kind = "IO" => m = Len(SourceText)
  PROVE  DecodeTypeOK'
<1>1. pos' \in 0..Len(SourceText) BY StandsTyped DEF Single, Result
<1>2. CASE r.ok
  <2>1. Call(label, Answered(r.object)) /\ UNCHANGED errors /\ r.object \in Object
    BY <1>2 DEF Single, Result
  <2>2. source' = source /\ calls' \in Seq(Calls) BY <2>1, AnswersTyped, CallTyped
  <2> QED BY <1>1, <2>1, <2>2, StepTyped DEF DecodeTypeOK
<1>3. CASE ~r.ok
  <2>1. r.errors \in Seq(Message) BY <1>3 DEF Result, Decoded
  <2>2. krypt_error_raise(label, r.errors) BY <1>3 DEF Single
  <2>3. source' = source /\ calls' \in Seq(Calls) /\ errors' = <<>> BY <2>1, <2>2, RaiseTyped
  <2>4. <<>> \in Seq(Message) OBVIOUS
  <2> QED BY <1>1, <2>3, <2>4, StepTyped
<1> QED BY <1>2, <1>3

LEMMA WrongTypeTyped ==
  ASSUME DecodeTypeOK, NEW label \in CallName, WrongType(label)
  PROVE  DecodeTypeOK'
<1>1. <<"TypeError">> \in Seq(Message \cup {"TypeError"}) OBVIOUS
<1>2. source' = source /\ calls' \in Seq(Calls) BY <1>1, AnswersTyped, CallTyped DEF WrongType
<1>3. pos' \in 0..Len(SourceText) /\ errors' \in Seq(Message)
  BY StartFacts DEF WrongType, DecodeTypeOK
<1> QED BY <1>2, <1>3, StepTyped

\* What decode does after the source could not be read as PEM.
LEMMA RetriedFacts ==
  ASSUME NEW m \in Nat, NEW text, NEW pem, Result(pem, m),
         Result(krypt_asn1_decode_stream(Stream("DER", text, Start)), m)
  PROVE  LET direct == krypt_asn1_decode_stream(Stream("DER", text, Start))
             r   == Retried(text, pem)
         IN  /\ r.at \in 0..m /\ r.at >= pem.at
             /\ r.ok = direct.ok
             /\ r.ok => r.object = direct.object /\ r.object \in Object
             /\ ~r.ok => r.errors = direct.errors /\ r.errors \in Seq(Message)
<1> DEFINE direct == krypt_asn1_decode_stream(Stream("DER", text, Start))
           S == {direct.at, pem.at}
           a == IF direct.at >= pem.at THEN direct.at ELSE pem.at
<1>1. direct.at \in 0..m /\ pem.at \in 0..m BY DEF Result
<1>2. Max(S) = a
  <2>1. a \in S /\ \A y \in S : a >= y BY <1>1
  <2>2. Max(S) \in S /\ \A y \in S : Max(S) >= y
    <3> HIDE DEF a, S
    <3> QED BY <2>1 DEF Max
  <2>3. S \subseteq Nat BY <1>1
  <2> HIDE DEF a, S
  <2> DEFINE x == Max(S)
  <2>4. x \in Nat /\ a \in Nat /\ x >= a /\ a >= x BY <2>1, <2>2, <2>3
  <2> HIDE DEF x
  <2>5. x = a BY <2>4
  <2> QED BY <2>5 DEF x
<1>3. Retried(text, pem) = [direct EXCEPT !.at = a]
  <2>1. Retried(text, pem) = [direct EXCEPT !.at = Max({@, pem.at})] BY DEF Retried
  <2> QED BY <1>2, <2>1
<1>4. a \in 0..m /\ a >= pem.at BY <1>1
<1> HIDE DEF a, direct
<1>5. CASE direct = Decoded(direct.object, direct.at) /\ direct.object \in Object
  <2>1. PICK o, t : direct = [ok |-> TRUE, object |-> o, at |-> t] BY <1>5 DEF Decoded
  <2>2. Retried(text, pem) = [ok |-> TRUE, object |-> o, at |-> a] BY <1>3, <2>1
  <2> DEFINE r == Retried(text, pem)
  <2>3. direct.ok = TRUE /\ direct.object = o /\ r.ok = TRUE /\ r.object = o /\ r.at = a
    BY <2>1, <2>2
  <2> HIDE DEF r
  <2>4. direct.object \in Object BY <1>5
  <2> QED BY <1>4, <2>3, <2>4, Zenon DEF direct, r
<1>6. CASE direct = [ok |-> FALSE, errors |-> direct.errors, at |-> direct.at] /\ direct.errors \in Seq(Message)
  <2>1. PICK o, t : direct = [ok |-> FALSE, errors |-> o, at |-> t] BY <1>6
  <2>2. Retried(text, pem) = [ok |-> FALSE, errors |-> o, at |-> a] BY <1>3, <2>1
  <2> DEFINE r == Retried(text, pem)
  <2>3. direct.ok = FALSE /\ direct.errors = o /\ r.ok = FALSE /\ r.errors = o /\ r.at = a
    BY <2>1, <2>2
  <2> HIDE DEF r
  <2>4. direct.errors \in Seq(Message) BY <1>6
  <2> QED BY <1>4, <2>3, <2>4, Zenon DEF direct, r
<1> QED BY <1>5, <1>6 DEF Result, direct

LEMMA DecodeTextTyped ==
  ASSUME DecodeTypeOK, source.der # <<>>,
         DecodeText(source.der[1], krypt_asn1_decode_stream(Stream("PEM", source.der[1], Start)))
  PROVE  DecodeTypeOK'
<1> DEFINE text == source.der[1]
           pem == krypt_asn1_decode_stream(Stream("PEM", text, Start))
           r == Retried(text, pem)
           m == Len(SourceText)
<1>1. /\ Result(pem, m) /\ Result(krypt_asn1_decode_stream(Stream("DER", text, Start)), m)
      /\ m \in Nat BY CallStreams, SourceFacts DEF DecodeTypeOK
<1>2. /\ r.at \in 0..m
      /\ r.ok => r.object \in Object
      /\ ~r.ok => r.errors \in Seq(Message) BY <1>1, RetriedFacts
<1> HIDE DEF text, pem, r, m
<1>3. CASE pem.ok
  <2>1. Single("decode", pem) BY <1>3 DEF DecodeText, text, pem
  <2>2. "decode" \in CallName BY DEF CallName
  <2> QED BY <1>1, <2>1, <2>2, SingleTyped DEF m
<1>4. CASE ~pem.ok
  <2>1. FallBack(pem, r) BY <1>4 DEF DecodeText, text, pem, r
  <2>2. "decode" \in CallName BY DEF CallName
  <2>3. pem.errors \in Seq(Message) BY <1>1, <1>4 DEF Result, Decoded
  <2>4. pos' \in 0..Len(SourceText) BY <1>1, <1>2, <2>1, StandsTyped DEF FallBack, m
  <2>5. CASE r.ok
    <3>1. Call("decode", Answered(r.object)) /\ errors' = errors \o pem.errors
      BY <2>1, <2>5 DEF FallBack
    <3>2. source' = source /\ calls' \in Seq(Calls)
      BY <1>2, <2>2, <2>5, <3>1, AnswersTyped, CallTyped
    <3>3. errors' \in Seq(Message) BY <2>3, <3>1, ConcatProperties DEF DecodeTypeOK
    <3> QED BY <2>4, <3>2, <3>3, StepTyped
  <2>6. CASE ~r.ok
    <3>1. krypt_error_raise("decode", pem.errors \o r.errors) BY <2>1, <2>6 DEF FallBack
    <3>2. pem.errors \o r.errors \in Seq(Message) BY <1>2, <2>3, <2>6, ConcatProperties
    <3>3. source' = source /\ calls' \in Seq(Calls) /\ errors' = <<>>
      BY <2>2, <3>1, <3>2, RaiseTyped
    <3>4. <<>> \in Seq(Message) OBVIOUS
    <3> QED BY <2>4, <3>3, <3>4, StepTyped
  <2> QED BY <2>5, <2>6
<1> QED BY <1>3, <1>4

LEMMA NextTyped ==
  ASSUME DecodeTypeOK, DecodeNext
  PROVE  DecodeTypeOK'
<1>1. {"decode", "decode_der", "decode_pem", "value", "template"} \subseteq CallName
  BY DEF CallName
<1>2. source \in Sources BY DEF DecodeTypeOK
<1>3. CASE krypt_asn1_decode
  <2>1. CASE source.der = <<>> BY <1>1, <1>3, <2>1, WrongTypeTyped DEF krypt_asn1_decode
  <2>2. CASE source.der # <<>> BY <1>3, <2>2, DecodeTextTyped DEF krypt_asn1_decode
  <2> QED BY <2>1, <2>2
<1>4. CASE krypt_asn1_decode_der
  <2>1. CASE source.der = <<>> BY <1>1, <1>4, <2>1, WrongTypeTyped DEF krypt_asn1_decode_der
  <2>2. CASE source.der # <<>>
    <3> DEFINE r == krypt_asn1_decode_stream(Stream("DER", source.der[1], Start))
               m == Len(SourceText)
    <3>1. Single("decode_der", r) /\ Result(r, m) /\ m \in Nat
      BY <1>2, <1>4, <2>2, CallStreams, SourceFacts DEF krypt_asn1_decode_der
    <3> HIDE DEF r, m
    <3> QED BY <1>1, <3>1, SingleTyped DEF m
  <2> QED BY <2>1, <2>2
<1>5. CASE krypt_asn1_decode_pem
  <2>1. CASE source.pem = <<>> BY <1>1, <1>5, <2>1, WrongTypeTyped DEF krypt_asn1_decode_pem
  <2>2. CASE source.pem # <<>>
    <3> DEFINE r == krypt_asn1_decode_stream(Stream("PEM", source.pem[1], Start))
               m == Len(source.pem[1])
    <3>1. Single("decode_pem", r) /\ Result(r, m) /\ m \in Nat
      BY <1>2, <1>5, <2>2, CallStreams, SourceFacts DEF krypt_asn1_decode_pem
    <3>2. source.kind = "IO" => m = Len(SourceText) BY <1>2, SourceFacts
    <3> HIDE DEF r, m
    <3> QED BY <1>1, <3>1, <3>2, SingleTyped
  <2> QED BY <2>1, <2>2
<1>6. CASE krypt_asn1_data_get_value
  <2>1. krypt_error_raise("value", <<"Boolean value with length != 1 found">>) /\ UNCHANGED pos
    BY <1>6 DEF krypt_asn1_data_get_value
  <2>2. <<"Boolean value with length != 1 found">> \in Seq(Message)
    <3>1. "Boolean value with length != 1 found" \in Message BY DEF Message
    <3> QED BY <3>1, Messages
  <2>3. source' = source /\ calls' \in Seq(Calls) /\ errors' = <<>>
    BY <1>1, <2>1, <2>2, RaiseTyped
  <2>4. <<>> \in Seq(Message) /\ pos' \in 0..Len(SourceText)
    <3>1. pos' = pos BY <2>1
    <3> QED BY <3>1, StartFacts
  <2> QED BY <2>3, <2>4, StepTyped
<1>7. CASE krypt_error_clear
  <2> DEFINE object == [identifier |-> 0, content |-> <<>>]
  <2>1. Call("template", Answered(object)) /\ errors' = <<>> /\ UNCHANGED pos
    BY <1>7 DEF krypt_error_clear
  <2>2. object \in Object
    <3>1. <<>> \in Seq(Token) /\ 0 \in 0..255 OBVIOUS
    <3> QED BY <3>1 DEF Object
  <2> HIDE DEF object
  <2>3. source' = source /\ calls' \in Seq(Calls) BY <1>1, <2>1, <2>2, AnswersTyped, CallTyped
  <2>4. <<>> \in Seq(Message) /\ pos' \in 0..Len(SourceText) BY <2>1, StartFacts
  <2> QED BY <2>1, <2>3, <2>4, StepTyped
<1> QED BY <1>3, <1>4, <1>5, <1>6, <1>7 DEF DecodeNext

LEMMA TypeInitially ==
  ASSUME DecodeInit
  PROVE  DecodeTypeOK
<1>1. source \in Sources /\ pos = 0 /\ errors = <<>> /\ calls = <<>> BY DEF DecodeInit
<1>2. Len(SourceText) \in Nat BY <1>1, SourceFacts
<1>3. errors \in Seq(Message) /\ calls \in Seq(Calls) BY <1>1
<1> QED BY <1>1, <1>2, <1>3 DEF DecodeTypeOK, SourceText, Calls, CallName, Answers

\* The type invariant: an IO stands inside what it reads from, the errors are
\* those of the decoders, and every answer is an object.
THEOREM TypeCorrect == DecodeSpec => []DecodeTypeOK
<1>1. DecodeInit => DecodeTypeOK BY TypeInitially
<1>2. DecodeTypeOK /\ [DecodeNext]_decodeVars => DecodeTypeOK'
  <2>1. DecodeTypeOK /\ UNCHANGED decodeVars => DecodeTypeOK' BY DEF DecodeTypeOK, decodeVars
  <2> QED BY <2>1, NextTyped
<1> QED BY <1>1, <1>2, PTL DEF DecodeSpec

-----------------------------------------------------------------------------
(* Errors that stay on the stack.                                          *)

\* A call has been added.
Added(label, result) ==
  /\ source' = source /\ calls' \in Seq(Calls) /\ Len(calls') = Len(calls) + 1
  /\ calls'[Len(calls) + 1] = [name |-> label, from |-> Start, result |-> result]
  /\ \A i \in 1..Len(calls) : calls'[i] = calls[i]

LEMMA FallbacksFinite ==
  ASSUME calls \in Seq(Calls)
  PROVE  Fallbacks \subseteq 1..Len(calls) /\ IsFiniteSet(Fallbacks) /\ Cardinality(Fallbacks) \in Nat
<1>1. Len(calls) \in Nat /\ DOMAIN calls = 1..Len(calls) OBVIOUS
<1>2. Fallbacks \subseteq 1..Len(calls) BY <1>1 DEF Fallbacks
<1>3. IsFiniteSet(1..Len(calls)) BY <1>1, FS_Interval
<1> QED BY <1>2, <1>3, FS_Subset, FS_CardinalityType

LEMMA FallbacksKept ==
  ASSUME DecodeTypeOK, NEW label, NEW result, Added(label, result), label # "template",
         result.ok \/ result.told = <<"TypeError">>
  PROVE  Fallbacks \subseteq Fallbacks'
<1> DEFINE n == Len(calls)
           Fine(c) == c.name # "template" /\ (c.result.ok \/ c.result.told = <<"TypeError">>)
           Fell(c) == /\ c.name = "decode" /\ c.result.ok
                      /\ ~krypt_asn1_decode_stream(Stream("PEM", source.der[1], c.from)).ok
<1>1. calls \in Seq(Calls) BY DEF DecodeTypeOK, Calls, CallName, Answers
<1>2. /\ n \in Nat /\ DOMAIN calls = 1..n /\ DOMAIN calls' = 1..(n + 1) /\ Len(calls') = n + 1
      /\ source' = source /\ \A i \in 1..n : calls'[i] = calls[i] BY <1>1 DEF Added
<1>3. Fine(calls'[n + 1]) BY DEF Added
<1>4. /\ Fallbacks = {i \in 1..n : Fell(calls[i]) /\ \A j \in i..n : Fine(calls[j])}
      /\ Fallbacks' = {i \in 1..(n + 1) : Fell(calls'[i]) /\ \A j \in i..(n + 1) : Fine(calls'[j])}
  <2>1. Fallbacks = {i \in 1..n : Fell(calls[i]) /\ \A j \in i..n : Fine(calls[j])}
    BY <1>2, Zenon DEF Fallbacks
  <2>2. Fallbacks' = {i \in 1..(n + 1) : Fell(calls'[i]) /\ \A j \in i..(n + 1) : Fine(calls'[j])}
    BY <1>2, Zenon DEF Fallbacks
  <2> QED BY <2>1, <2>2
<1> HIDE DEF n, Fine, Fell
<1>5. ASSUME NEW i \in 1..n, Fell(calls[i]), \A j \in i..n : Fine(calls[j])
      PROVE  i \in 1..(n + 1) /\ Fell(calls'[i]) /\ \A j \in i..(n + 1) : Fine(calls'[j])
  <2>1. i \in 1..(n + 1) /\ Fell(calls'[i]) BY <1>2, <1>5
  <2>2. ASSUME NEW j \in i..(n + 1)
        PROVE  Fine(calls'[j])
    <3>1. j = n + 1 \/ (j \in i..n /\ j \in 1..n) BY <1>2
    <3> QED BY <1>2, <1>3, <1>5, <3>1
  <2> QED BY <2>1, <2>2
<1> QED BY <1>4, <1>5

LEMMA FallbackAdded ==
  ASSUME DecodeTypeOK, NEW result, Added("decode", result), result.ok,
         ~krypt_asn1_decode_stream(Stream("PEM", source.der[1], Start)).ok
  PROVE  Len(calls) + 1 \in Fallbacks'
<1> DEFINE n == Len(calls)
           c == calls'[n + 1]
<1>1. n \in Nat BY DEF DecodeTypeOK
<1>2. /\ DOMAIN calls' = 1..(n + 1) /\ Len(calls') = n + 1 /\ source' = source
      /\ c.name = "decode" /\ c.result.ok /\ c.from = Start BY DEF Added
<1>3. ~krypt_asn1_decode_stream(Stream("PEM", source'.der[1], c.from)).ok BY <1>2
<1>4. n + 1 \in DOMAIN calls' /\ \A j \in n + 1..Len(calls') : j = n + 1 BY <1>1, <1>2
<1>5. "decode" # "template" OBVIOUS
<1> HIDE DEF n
<1>6. n + 1 \in Fallbacks' BY <1>2, <1>3, <1>4, <1>5, Zenon DEF Fallbacks
<1> QED BY <1>6 DEF n

\* All errors have been told or forgotten.
LEMMA NoErrorsLeft ==
  ASSUME calls' \in Seq(Calls), errors' = <<>>
  PROVE  StrayErrors'
<1>1. (calls \in Seq(Calls))' => (Cardinality(Fallbacks) \in Nat)' BY FallbacksFinite, PTL
<1> DEFINE k == Cardinality(Fallbacks')
<1>2. k \in Nat BY <1>1
<1>3. Len(errors') = 0 OBVIOUS
<1> HIDE DEF k
<1>4. 0 <= 3 * k BY <1>2
<1> QED BY <1>3, <1>4 DEF StrayErrors, k

\* The errors stay, and the call is no reason to tell them.
LEMMA ErrorsKept ==
  ASSUME DecodeTypeOK, StrayErrors, NEW label \in CallName, NEW result \in Answers, Call(label, result),
         label # "template", result.ok \/ result.told = <<"TypeError">>, UNCHANGED errors
  PROVE  StrayErrors'
<1>1. Added(label, result) /\ calls \in Seq(Calls) /\ calls' \in Seq(Calls)
  BY CallTyped DEF Added, DecodeTypeOK, Calls, CallName, Answers
<1>2. Fallbacks \subseteq Fallbacks' BY <1>1, FallbacksKept
<1>3. IsFiniteSet(Fallbacks) /\ Cardinality(Fallbacks) \in Nat BY <1>1, FallbacksFinite
<1>4. (calls \in Seq(Calls))' => (IsFiniteSet(Fallbacks) /\ Cardinality(Fallbacks) \in Nat)'
  BY FallbacksFinite, PTL
<1> DEFINE k == Cardinality(Fallbacks)
           l == Cardinality(Fallbacks')
           e == Len(errors)
<1>5. IsFiniteSet(Fallbacks') /\ l \in Nat BY <1>1, <1>4
<1>6. k <= l BY <1>2, <1>3, <1>5, FS_Subset
<1>7. e \in Nat /\ e <= 3 * k /\ Len(errors') = e /\ k \in Nat
  BY <1>3 DEF DecodeTypeOK, StrayErrors
<1> HIDE DEF k, l, e
<1>8. e <= 3 * l BY <1>5, <1>6, <1>7
<1> QED BY <1>7, <1>8 DEF StrayErrors, l

LEMMA ErrorsOfFallback ==
  ASSUME DecodeTypeOK, StrayErrors, NEW result \in Answers, Call("decode", result), result.ok,
         ~krypt_asn1_decode_stream(Stream("PEM", source.der[1], Start)).ok,
         NEW more \in Seq(Message), Len(more) <= 3, errors' = errors \o more
  PROVE  StrayErrors'
<1>1. Added("decode", result) /\ calls \in Seq(Calls) /\ calls' \in Seq(Calls)
  BY CallTyped DEF Added, DecodeTypeOK, Calls, CallName, Answers
<1>2. Fallbacks \subseteq Fallbacks' /\ Len(calls) + 1 \in Fallbacks'
  BY <1>1, FallbacksKept, FallbackAdded
<1>3. IsFiniteSet(Fallbacks) /\ Cardinality(Fallbacks) \in Nat /\ Len(calls) + 1 \notin Fallbacks
  <2>1. Len(calls) \in Nat BY <1>1
  <2> QED BY <1>1, <2>1, FallbacksFinite
<1>4. (calls \in Seq(Calls))' => (IsFiniteSet(Fallbacks) /\ Cardinality(Fallbacks) \in Nat)'
  BY FallbacksFinite, PTL
<1> DEFINE k == Cardinality(Fallbacks)
           l == Cardinality(Fallbacks')
           e == Len(errors)
           F == Fallbacks \cup {Len(calls) + 1}
<1>5. IsFiniteSet(Fallbacks') /\ l \in Nat BY <1>1, <1>4
<1>6. Cardinality(F) = k + 1 /\ IsFiniteSet(F) BY <1>3, FS_AddElement
<1>7. k + 1 <= l
  <2>1. F \subseteq Fallbacks' BY <1>2
  <2>2. Cardinality(F) <= l BY <1>5, <2>1, FS_Subset
  <2> QED BY <1>6, <2>2
<1>8. e \in Nat /\ e <= 3 * k /\ Len(errors') <= e + 3 /\ k \in Nat /\ Len(errors') \in Nat
  <2>1. errors \in Seq(Message) /\ e \in Nat /\ Len(more) \in Nat /\ e <= 3 * k
    BY DEF DecodeTypeOK, StrayErrors
  <2>2. Len(errors') = e + Len(more) BY <2>1, ConcatProperties
  <2> QED BY <1>3, <2>1, <2>2
<1> DEFINE f == Len(errors')
<1> HIDE DEF k, l, e, f
<1>9. f <= 3 * l BY <1>5, <1>7, <1>8 DEF f
<1> QED BY <1>9 DEF StrayErrors, l, f

LEMMA RaiseLeavesNone ==
  ASSUME DecodeTypeOK, NEW label \in CallName, NEW added \in Seq(Message),
         krypt_error_raise(label, added)
  PROVE  StrayErrors'
  BY RaiseTyped, NoErrorsLeft

LEMMA SingleStrays ==
  ASSUME DecodeTypeOK, StrayErrors, NEW label \in CallName, label # "template",
         NEW m \in Nat, NEW r, Result(r, m), Single(label, r)
  PROVE  StrayErrors'
<1>1. CASE r.ok
  <2>1. Call(label, Answered(r.object)) /\ UNCHANGED errors /\ r.object \in Object
    BY <1>1 DEF Single, Result
  <2>2. Answered(r.object) \in Answers /\ Answered(r.object).ok
    BY <2>1, AnswersTyped DEF Answered
  <2> QED BY <2>1, <2>2, ErrorsKept
<1>2. CASE ~r.ok
  <2>1. r.errors \in Seq(Message) BY <1>2 DEF Result, Decoded
  <2>2. krypt_error_raise(label, r.errors) BY <1>2 DEF Single
  <2> QED BY <2>1, <2>2, RaiseLeavesNone
<1> QED BY <1>1, <1>2

LEMMA WrongTypeStrays ==
  ASSUME DecodeTypeOK, StrayErrors, NEW label \in CallName, label # "template", WrongType(label)
  PROVE  StrayErrors'
<1> DEFINE result == Raised(<<"TypeError">>)
<1>1. <<"TypeError">> \in Seq(Message \cup {"TypeError"}) OBVIOUS
<1>2. result \in Answers /\ result.told = <<"TypeError">> BY <1>1, AnswersTyped DEF Raised
<1>3. Call(label, result) /\ UNCHANGED errors BY DEF WrongType
<1> HIDE DEF result
<1> QED BY <1>2, <1>3, ErrorsKept

LEMMA DecodeTextStrays ==
  ASSUME DecodeTypeOK, StrayErrors, source.der # <<>>,
         DecodeText(source.der[1], krypt_asn1_decode_stream(Stream("PEM", source.der[1], Start)))
  PROVE  StrayErrors'
<1> DEFINE text == source.der[1]
           pem == krypt_asn1_decode_stream(Stream("PEM", text, Start))
           r == Retried(text, pem)
           m == Len(SourceText)
<1>1. /\ Result(pem, m) /\ Result(krypt_asn1_decode_stream(Stream("DER", text, Start)), m)
      /\ m \in Nat BY CallStreams, SourceFacts DEF DecodeTypeOK
<1>2. /\ r.ok => r.object \in Object
      /\ ~r.ok => r.errors \in Seq(Message) BY <1>1, RetriedFacts
<1>3. "decode" \in CallName /\ "decode" # "template" BY DEF CallName
<1> HIDE DEF text, pem, r, m
<1>4. CASE pem.ok
  <2>1. Single("decode", pem) BY <1>4 DEF DecodeText, text, pem
  <2> QED BY <1>1, <1>3, <2>1, SingleStrays
<1>5. CASE ~pem.ok
  <2>1. FallBack(pem, r) BY <1>5 DEF DecodeText, text, pem, r
  <2>2. pem.errors \in Seq(Message) /\ Len(pem.errors) <= 3 BY <1>1, <1>5 DEF Result, Decoded
  <2>3. CASE r.ok
    <3>1. Call("decode", Answered(r.object)) /\ errors' = errors \o pem.errors
      BY <2>1, <2>3 DEF FallBack
    <3>2. Answered(r.object) \in Answers /\ Answered(r.object).ok
      BY <1>2, <2>3, AnswersTyped DEF Answered
    <3>3. ~krypt_asn1_decode_stream(Stream("PEM", source.der[1], Start)).ok BY <1>5 DEF pem, text
    <3> QED BY <2>2, <3>1, <3>2, <3>3, ErrorsOfFallback
  <2>4. CASE ~r.ok
    <3>1. krypt_error_raise("decode", pem.errors \o r.errors) BY <2>1, <2>4 DEF FallBack
    <3>2. pem.errors \o r.errors \in Seq(Message) BY <1>2, <2>2, <2>4, ConcatProperties
    <3> QED BY <1>3, <3>1, <3>2, RaiseLeavesNone
  <2> QED BY <2>3, <2>4
<1> QED BY <1>4, <1>5

LEMMA NextStrays ==
  ASSUME DecodeTypeOK, StrayErrors, DecodeNext
  PROVE  StrayErrors'
<1>1. /\ {"decode", "decode_der", "decode_pem", "value", "template"} \subseteq CallName
      /\ "decode" # "template" /\ "decode_der" # "template" /\ "decode_pem" # "template"
  BY DEF CallName
<1>2. source \in Sources BY DEF DecodeTypeOK
<1>3. CASE krypt_asn1_decode
  <2>1. CASE source.der = <<>> BY <1>1, <1>3, <2>1, WrongTypeStrays DEF krypt_asn1_decode
  <2>2. CASE source.der # <<>> BY <1>3, <2>2, DecodeTextStrays DEF krypt_asn1_decode
  <2> QED BY <2>1, <2>2
<1>4. CASE krypt_asn1_decode_der
  <2>1. CASE source.der = <<>> BY <1>1, <1>4, <2>1, WrongTypeStrays DEF krypt_asn1_decode_der
  <2>2. CASE source.der # <<>>
    <3> DEFINE r == krypt_asn1_decode_stream(Stream("DER", source.der[1], Start))
               m == Len(SourceText)
    <3>1. Single("decode_der", r) /\ Result(r, m) /\ m \in Nat
      BY <1>2, <1>4, <2>2, CallStreams, SourceFacts DEF krypt_asn1_decode_der
    <3> HIDE DEF r, m
    <3> QED BY <1>1, <3>1, SingleStrays
  <2> QED BY <2>1, <2>2
<1>5. CASE krypt_asn1_decode_pem
  <2>1. CASE source.pem = <<>> BY <1>1, <1>5, <2>1, WrongTypeStrays DEF krypt_asn1_decode_pem
  <2>2. CASE source.pem # <<>>
    <3> DEFINE r == krypt_asn1_decode_stream(Stream("PEM", source.pem[1], Start))
               m == Len(source.pem[1])
    <3>1. Single("decode_pem", r) /\ Result(r, m) /\ m \in Nat
      BY <1>2, <1>5, <2>2, CallStreams, SourceFacts DEF krypt_asn1_decode_pem
    <3> HIDE DEF r, m
    <3> QED BY <1>1, <3>1, SingleStrays
  <2> QED BY <2>1, <2>2
<1>6. CASE krypt_asn1_data_get_value
  <2>1. krypt_error_raise("value", <<"Boolean value with length != 1 found">>)
    BY <1>6 DEF krypt_asn1_data_get_value
  <2>2. <<"Boolean value with length != 1 found">> \in Seq(Message)
    <3>1. "Boolean value with length != 1 found" \in Message BY DEF Message
    <3> QED BY <3>1, Messages
  <2> QED BY <1>1, <2>1, <2>2, RaiseLeavesNone
<1>7. CASE krypt_error_clear
  <2>1. errors' = <<>> BY <1>7 DEF krypt_error_clear
  <2>2. calls' \in Seq(Calls)
    <3>1. DecodeTypeOK' BY NextTyped
    <3> QED BY <3>1 DEF DecodeTypeOK, Calls, CallName, Answers
  <2> QED BY <2>1, <2>2, NoErrorsLeft
<1> QED BY <1>3, <1>4, <1>5, <1>6, <1>7 DEF DecodeNext

\* At most the errors of the calls of decode that answered although there was
\* no PEM are left on the stack: every exception tells all there are.
THEOREM ErrorsAreTold == DecodeSpec => []StrayErrors
<1>1. DecodeInit => DecodeTypeOK /\ StrayErrors
  <2> SUFFICES ASSUME DecodeInit PROVE DecodeTypeOK /\ StrayErrors OBVIOUS
  <2>1. errors = <<>> /\ calls \in Seq(Calls) BY DEF DecodeInit
  <2>2. Cardinality(Fallbacks) \in Nat BY <2>1, FallbacksFinite
  <2> DEFINE k == Cardinality(Fallbacks)
  <2>3. Len(errors) = 0 BY <2>1
  <2> HIDE DEF k
  <2>4. 0 <= 3 * k BY <2>2 DEF k
  <2>5. StrayErrors BY <2>3, <2>4 DEF StrayErrors, k
  <2>6. DecodeTypeOK BY TypeInitially
  <2> QED BY <2>5, <2>6
<1>2. DecodeTypeOK /\ StrayErrors /\ [DecodeNext]_decodeVars => (DecodeTypeOK /\ StrayErrors)'
  <2>1. DecodeTypeOK /\ StrayErrors /\ UNCHANGED decodeVars => (DecodeTypeOK /\ StrayErrors)'
    BY DEF DecodeTypeOK, StrayErrors, Fallbacks, decodeVars
  <2> QED BY <2>1, NextTyped, NextStrays
<1> QED BY <1>1, <1>2, PTL DEF DecodeSpec

-----------------------------------------------------------------------------
(* Calls and their answers, one after the other.                           *)

Count(cs, label, i) == Cardinality({j \in 1..i : cs[j].name = label})

Place(src, cs, label, i) == IF src.kind = "IO" THEN Count(cs, label, i) ELSE 1

OnlyIn(cs, label) == \A i \in 1..Len(cs) : cs[i].name \in {label, "value", "template"}

GivesIn(src, cs, label, all) ==
  \A i \in 1..Len(cs) :
    cs[i].name = label /\ Place(src, cs, label, i) <= Len(all) =>
      cs[i].result = Answered(all[Place(src, cs, label, i)])

RaisesIn(src, cs, label, all) ==
  \A i \in 1..Len(cs) :
    cs[i].name = label /\ Place(src, cs, label, i) = Len(all) + 1 => ~cs[i].result.ok

\* All but the first k.
RestOf(all, k, rest) ==
  Len(rest) = Len(all) - k /\ \A j \in 1..Len(rest) : rest[j] = all[k + j]

\* An answer is due to the next call: not yet all have been given.
IsDue(src, cs, label, all) == src.kind = "IO" => Count(cs, label, Len(cs)) <= Len(all)

GivenSoFar(src, cs, label) == IF src.kind = "IO" THEN Count(cs, label, Len(cs)) ELSE 0

LEMMA CountGrows ==
  ASSUME NEW cs \in Seq(Calls), NEW c \in Calls, NEW label
  PROVE  LET new == Append(cs, c)
             n   == Len(cs)
         IN  /\ \A i \in 1..n : new[i] = cs[i] /\ Count(new, label, i) = Count(cs, label, i)
             /\ n \in Nat /\ Len(new) = n + 1 /\ new[n + 1] = c
             /\ Count(cs, label, n) \in Nat
             /\ Count(new, label, n + 1)
                  = IF c.name = label THEN Count(cs, label, n) + 1 ELSE Count(cs, label, n)
<1> DEFINE new == Append(cs, c)
           n == Len(cs)
           S(s, i) == {j \in 1..i : s[j].name = label}
<1>1. /\ n \in Nat /\ Len(new) = n + 1 /\ new[n + 1] = c
      /\ \A i \in 1..n : new[i] = cs[i] BY AppendProperties
<1> HIDE DEF new, n
<1>2. ASSUME NEW i \in 1..n
      PROVE  S(new, i) = S(cs, i)
  <2>1. \A j \in 1..i : new[j] = cs[j] BY <1>1
  <2> QED BY <2>1
<1>3. S(new, n) = S(cs, n) BY <1>1
<1>4. S(new, n + 1) = IF c.name = label THEN S(cs, n) \cup {n + 1} ELSE S(cs, n)
  <2>1. 1..(n + 1) = (1..n) \cup {n + 1} BY <1>1
  <2> QED BY <1>1, <2>1
<1>5. IsFiniteSet(S(cs, n)) /\ n + 1 \notin S(cs, n) /\ Cardinality(S(cs, n)) \in Nat
  <2>1. S(cs, n) \subseteq 1..n /\ n + 1 \notin 1..n BY <1>1
  <2>2. IsFiniteSet(1..n) BY <1>1, FS_Interval
  <2> QED BY <2>1, <2>2, FS_Subset, FS_CardinalityType
<1>6. Cardinality(S(cs, n) \cup {n + 1}) = Cardinality(S(cs, n)) + 1
  <2> HIDE DEF S
  <2> QED BY <1>5, FS_AddElement
<1>7. Count(new, label, n + 1)
        = IF c.name = label THEN Count(cs, label, n) + 1 ELSE Count(cs, label, n)
  BY <1>4, <1>6 DEF Count
<1>8. \A i \in 1..n : Count(new, label, i) = Count(cs, label, i) BY <1>2 DEF Count
<1>9. Count(cs, label, n) \in Nat BY <1>5 DEF Count
<1> QED BY <1>1, <1>7, <1>8, <1>9 DEF new, n

LEMMA OthersAdded ==
  ASSUME NEW src, NEW cs \in Seq(Calls), NEW c \in Calls, NEW label, c.name # label, NEW all
  PROVE  LET new == Append(cs, c)
         IN  /\ GivesIn(src, cs, label, all) => GivesIn(src, new, label, all)
             /\ RaisesIn(src, cs, label, all) => RaisesIn(src, new, label, all)
             /\ GivenSoFar(src, new, label) = GivenSoFar(src, cs, label)
             /\ IsDue(src, new, label, all) <=> IsDue(src, cs, label, all)
<1> DEFINE new == Append(cs, c)
           n == Len(cs)
<1>1. /\ \A i \in 1..n : new[i] = cs[i] /\ Count(new, label, i) = Count(cs, label, i)
      /\ n \in Nat /\ Len(new) = n + 1 /\ new[n + 1] = c
      /\ Count(new, label, n + 1) = Count(cs, label, n) BY CountGrows
<1> HIDE DEF new, n
<1>2. \A i \in 1..(n + 1) : new[i].name = label => i \in 1..n BY <1>1
<1>3. \A i \in 1..n : Place(src, new, label, i) = Place(src, cs, label, i) BY <1>1 DEF Place
<1>4. GivesIn(src, cs, label, all) => GivesIn(src, new, label, all)
  BY <1>1, <1>2, <1>3, Zenon DEF GivesIn, n
<1>5. RaisesIn(src, cs, label, all) => RaisesIn(src, new, label, all)
  BY <1>1, <1>2, <1>3, Zenon DEF RaisesIn, n
<1>6. /\ GivenSoFar(src, new, label) = GivenSoFar(src, cs, label)
      /\ IsDue(src, new, label, all) <=> IsDue(src, cs, label, all)
  BY <1>1 DEF GivenSoFar, IsDue, n
<1> QED BY <1>4, <1>5, <1>6 DEF new

LEMMA OneAdded ==
  ASSUME NEW src, NEW cs \in Seq(Calls), NEW c \in Calls, NEW label, c.name = label,
         NEW all \in Seq(Object), NEW now \in Seq(Object), NEW next \in Seq(Object),
         GivesIn(src, cs, label, all),
         IsDue(src, cs, label, all) =>
           /\ RestOf(all, GivenSoFar(src, cs, label), now)
           /\ now # <<>> => c.result = Answered(now[1]) /\ now = <<now[1]>> \o next
  PROVE  LET new == Append(cs, c)
         IN  /\ GivesIn(src, new, label, all)
             /\ src.kind = "IO" /\ IsDue(src, new, label, all) =>
                  /\ now # <<>> /\ IsDue(src, cs, label, all)
                  /\ RestOf(all, GivenSoFar(src, new, label), next)
             /\ /\ RaisesIn(src, cs, label, all)
                /\ IsDue(src, cs, label, all) /\ now = <<>> => ~c.result.ok
                => RaisesIn(src, new, label, all)
<1> DEFINE new == Append(cs, c)
           n == Len(cs)
           k == GivenSoFar(src, cs, label)
           due == IsDue(src, cs, label, all)
<1>1. /\ \A i \in 1..n : new[i] = cs[i] /\ Count(new, label, i) = Count(cs, label, i)
      /\ n \in Nat /\ Len(new) = n + 1 /\ new[n + 1] = c /\ Count(cs, label, n) \in Nat
      /\ Count(new, label, n + 1) = Count(cs, label, n) + 1 BY CountGrows
<1>2. /\ k \in Nat /\ Place(src, new, label, n + 1) = k + 1
      /\ due => k <= Len(all)
      /\ k + 1 <= Len(all) + 1 => due
      /\ Len(all) \in Nat /\ Len(now) \in Nat /\ Len(next) \in Nat
  <2>1. Len(all) \in Nat /\ Len(now) \in Nat /\ Len(next) \in Nat OBVIOUS
  <2> HIDE DEF new
  <2> QED BY <1>1, <2>1 DEF GivenSoFar, Place, IsDue
<1>3. /\ src.kind = "IO" => GivenSoFar(src, new, label) = k + 1
      /\ src.kind = "IO" /\ IsDue(src, new, label, all) => k + 1 <= Len(all)
  <2> HIDE DEF new
  <2> QED BY <1>1, <1>2 DEF GivenSoFar, IsDue
<1> HIDE DEF new, n, k, due
<1>4. ASSUME k + 1 <= Len(all)
      PROVE  /\ due /\ now # <<>> /\ now[1] = all[k + 1] /\ c.result = Answered(now[1])
             /\ RestOf(all, k + 1, next)
  <2>1. due /\ RestOf(all, k, now) BY <1>2, <1>4 DEF k, due
  <2>2. Len(now) = Len(all) - k /\ \A j \in 1..Len(now) : now[j] = all[k + j] BY <2>1 DEF RestOf
  <2>3. Len(now) >= 1 /\ 1 \in 1..Len(now) BY <1>2, <1>4, <2>2
  <2>4. now # <<>> BY <2>3
  <2>5. c.result = Answered(now[1]) /\ now = <<now[1]>> \o next BY <2>1, <2>4 DEF due
  <2>6. Len(next) = Len(now) - 1 /\ \A j \in 1..Len(next) : next[j] = now[j + 1]
    <3> DEFINE a == now[1]
               s == <<a>>
    <3>1. s \in Seq(Object) /\ Len(s) = 1 BY <2>3
    <3>2. now = s \o next BY <2>5
    <3> HIDE DEF s, a
    <3>3. Len(now) = Len(s) + Len(next) /\ \A j \in 1..Len(next) : now[Len(s) + j] = next[j]
      <4>1. /\ Len(s \o next) = Len(s) + Len(next)
            /\ \A i \in 1..(Len(s) + Len(next)) :
                 (s \o next)[i] = IF i <= Len(s) THEN s[i] ELSE next[i - Len(s)]
        BY <3>1, ConcatProperties
      <4> DEFINE t == s \o next
      <4> HIDE DEF t
      <4>2. \A j \in 1..Len(next) : t[Len(s) + j] = next[j]
        <5> TAKE j \in 1..Len(next)
        <5>1. Len(s) + j \in 1..(Len(s) + Len(next)) /\ ~(Len(s) + j <= Len(s))
              /\ (Len(s) + j) - Len(s) = j BY <1>2, <3>1
        <5> QED BY <4>1, <5>1 DEF t
      <4> QED BY <3>2, <4>1, <4>2 DEF t
    <3>4. \A j \in 1..Len(next) : next[j] = now[j + 1] BY <1>2, <3>1, <3>3
    <3>5. Len(next) = Len(now) - 1 BY <1>2, <3>1, <3>3
    <3> QED BY <3>4, <3>5
  <2>7. ASSUME NEW j \in 1..Len(next)
        PROVE  next[j] = all[(k + 1) + j]
    <3>1. j + 1 \in 1..Len(now) /\ k + (j + 1) = (k + 1) + j BY <1>2, <2>6
    <3> QED BY <2>2, <2>6, <3>1
  <2>8. Len(next) = Len(all) - (k + 1) BY <1>2, <2>2, <2>6
  <2> QED BY <2>1, <2>2, <2>3, <2>4, <2>5, <2>7, <2>8 DEF RestOf
<1>5. ASSUME k = Len(all)
      PROVE  due /\ now = <<>>
  <2>1. due BY <1>2, <1>5
  <2>2. RestOf(all, k, now) BY <2>1 DEF k, due
  <2>3. Len(now) = 0 BY <1>2, <1>5, <2>2 DEF RestOf
  <2> QED BY <2>1, <2>3, EmptySeq
<1>6. \A i \in 1..n : Place(src, new, label, i) = Place(src, cs, label, i) BY <1>1 DEF Place
<1>7. \A i \in 1..(n + 1) : i = n + 1 \/ i \in 1..n BY <1>1
<1>8. GivesIn(src, new, label, all)
  <2> SUFFICES ASSUME NEW i \in 1..(n + 1), new[i].name = label, Place(src, new, label, i) <= Len(all)
               PROVE  new[i].result = Answered(all[Place(src, new, label, i)])
    BY <1>1 DEF GivesIn
  <2>1. CASE i = n + 1 BY <1>1, <1>2, <1>4, <2>1
  <2>2. CASE i \in 1..n
    <3>1. cs[i].name = label /\ Place(src, cs, label, i) <= Len(all) BY <1>1, <1>6, <2>2
    <3>2. cs[i].result = Answered(all[Place(src, cs, label, i)]) BY <2>2, <3>1 DEF GivesIn, n
    <3> QED BY <1>1, <1>6, <2>2, <3>2
  <2> QED BY <1>7, <2>1, <2>2
<1>9. ASSUME RaisesIn(src, cs, label, all), due /\ now = <<>> => ~c.result.ok
      PROVE  RaisesIn(src, new, label, all)
  <2> SUFFICES ASSUME NEW i \in 1..(n + 1), new[i].name = label,
                      Place(src, new, label, i) = Len(all) + 1
               PROVE  ~new[i].result.ok
    BY <1>1 DEF RaisesIn
  <2>1. CASE i = n + 1
    <3>1. k = Len(all) BY <1>2, <2>1
    <3> QED BY <1>1, <1>5, <1>9, <2>1, <3>1
  <2>2. CASE i \in 1..n
    <3>1. cs[i].name = label /\ Place(src, cs, label, i) = Len(all) + 1 BY <1>1, <1>6, <2>2
    <3>2. ~cs[i].result.ok BY <1>9, <2>2, <3>1 DEF RaisesIn, n
    <3> QED BY <1>1, <2>2, <3>2
  <2> QED BY <1>7, <2>1, <2>2
<1>10. src.kind = "IO" /\ IsDue(src, new, label, all) =>
         now # <<>> /\ due /\ RestOf(all, GivenSoFar(src, new, label), next) BY <1>3, <1>4
<1> QED BY <1>8, <1>9, <1>10 DEF new, due

-----------------------------------------------------------------------------
(* What a call gives, and from where on the next one reads.                *)

LEMMA DerStep ==
  ASSUME NEW text \in Seq(Token), NEW p \in 0..Len(text)
  PROVE  LET values == ValuesFrom(text)
             r      == krypt_asn1_decode_stream(Stream("DER", text, p))
         IN  /\ values[p] # <<>> => /\ r = Decoded(values[p][1], r.at) /\ r.at \in 0..Len(text)
                                    /\ values[p] = <<values[p][1]>> \o values[r.at]
             /\ values[p] = <<>> => ~r.ok
<1> DEFINE values == ValuesFrom(text)
           x == From(text, p)
           r == krypt_asn1_decode_stream(Stream("DER", text, p))
           q == p + SizeOf(x)
<1>1. values[p] = IF IsWhole(x) THEN <<FirstValue(x)>> \o values[q] ELSE <<>>
  BY ValuesDefined DEF ValuesAt
<1>2. /\ IsWhole(x) => r = Decoded(FirstValue(x), q)
      /\ ~IsWhole(x) => ~r.ok BY DerDecodes
<1>3. CASE IsWhole(x)
  <2>1. x \in Seq(Token) /\ Len(x) = Len(text) - p BY DerGives
  <2>2. FirstValue(x) \in Object /\ SizeOf(x) \in 1..Len(x) BY <1>3, <2>1, FirstValueTyped
  <2>3. q \in 0..Len(text) BY <2>1, <2>2
  <2>4. values[q] \in Seq(Object) BY <2>3, ValuesTyped
  <2> DEFINE h == FirstValue(x)
             t == values[q]
  <2>5. values[p] = <<h>> \o t /\ r = Decoded(h, q) BY <1>1, <1>2, <1>3
  <2> HIDE DEF h, values, x, r, q
  <2>6. r.at = q BY <2>5 DEF Decoded
  <2>7. (<<h>> \o t)[1] = h /\ <<h>> \o t # <<>>
    <3> HIDE DEF t
    <3>1. <<h>> \in Seq(Object) /\ Len(<<h>>) = 1 /\ <<h>>[1] = h /\ t \in Seq(Object)
      BY <2>2, <2>4 DEF h, t
    <3>2. Len(<<h>> \o t) = 1 + Len(t) /\ Len(t) \in Nat BY <3>1, ConcatProperties
    <3>3. (<<h>> \o t)[1] = h BY <3>1, <3>2, ConcatProperties
    <3>4. Len(<<h>> \o t) # 0 BY <3>2
    <3> QED BY <3>3, <3>4
  <2>8. values[p] # <<>> /\ values[p][1] = h BY <2>5, <2>7
  <2>9. r = Decoded(values[p][1], r.at) /\ r.at \in 0..Len(text) BY <2>3, <2>5, <2>6, <2>8
  <2>10. values[p] = <<values[p][1]>> \o values[r.at] BY <2>5, <2>6, <2>8
  <2> QED BY <2>8, <2>9, <2>10 DEF values, r
<1>4. CASE ~IsWhole(x) BY <1>1, <1>2, <1>4
<1> QED BY <1>3, <1>4

LEMMA ElementsSame ==
  ASSUME NEW text \in Seq(Token), NEW p \in 0..Len(text), NEW q \in 0..Len(text),
         HeaderLineFrom(text, p) = HeaderLineFrom(text, q)
  PROVE  ElementsFrom(text)[p] = ElementsFrom(text)[q]
<1>1. /\ HasElement(text, p) <=> HasElement(text, q)
      /\ BeginOf(text, p) = BeginOf(text, q) /\ NameOf(text, p) = NameOf(text, q)
  BY DEF HasElement, BeginOf, NameOf
<1>2. ElementEnd(text, p) = ElementEnd(text, q) BY <1>1 DEF ElementEnd
<1>3. FooterOf(text, p) = FooterOf(text, q) /\ ContentOf(text, p) = ContentOf(text, q)
  BY <1>1, <1>2 DEF FooterOf, ContentOf
<1> DEFINE f == ElementsFrom(text)
<1>4. ElementsAt(f, text, p) = ElementsAt(f, text, q)
  <2> HIDE DEF f
  <2> QED BY <1>1, <1>2, <1>3, Zenon DEF ElementsAt
<1> QED BY <1>4, ElementsDefined

LEMMA PemStep ==
  ASSUME NEW text \in Seq(Token), NEW p \in 0..Len(text), ElementsFrom(text)[p].whole
  PROVE  LET elements == ElementsFrom(text)
             now      == elements[p].objects
             r        == krypt_asn1_decode_stream(Stream("PEM", text, p))
         IN  /\ now # <<>> => /\ r = Decoded(now[1], r.at) /\ r.at \in 0..Len(text)
                              /\ now = <<now[1]>> \o elements[r.at].objects
                              /\ elements[r.at].whole
             /\ now = <<>> => ~r.ok /\ r.at = Len(text)
<1> DEFINE elements == ElementsFrom(text)
           this == elements[p]
           now == this.objects
           r == krypt_asn1_decode_stream(Stream("PEM", text, p))
           x == ContentOf(text, p)
           l == LineBehind(text, ElementEnd(text, p))
<1>1. this = ElementsAt(elements, text, p) BY ElementsDefined
<1>2. CASE HasElement(text, p) /\ IsWhole(x)
  <2>1. FooterOf(text, p) = ElementEnd(text, p) /\ ElementEnd(text, p) # Len(text)
    <3> SUFFICES ASSUME FooterOf(text, p) # ElementEnd(text, p) \/ ElementEnd(text, p) = Len(text)
                 PROVE  FALSE
      OBVIOUS
    <3>1. this = [objects |-> <<>>, whole |-> FALSE] BY <1>1, <1>2 DEF ElementsAt
    <3> QED BY <3>1
  <2>2. this = [elements[l] EXCEPT !.objects = <<FirstValue(x)>> \o @]
    BY <1>1, <1>2, <2>1 DEF ElementsAt
  <2>3. PICK at \in 0..Len(text) : /\ r = Decoded(FirstValue(x), at)
                                   /\ HeaderLineFrom(text, at) = HeaderLineFrom(text, l)
    BY <1>2, <2>1, PemFound
  <2>4. l \in 0..Len(text)
    <3>1. l \in (p + 1)..Len(text) BY <1>2, <2>1, HeaderBehind
    <3> QED BY <3>1
  <2>5. elements[l] = elements[at] BY <2>3, <2>4, ElementsSame
  <2>6. elements[at] \in [objects : Seq(Object), whole : BOOLEAN] BY ElementsTyped
  <2>7. FirstValue(x) \in Object
    <3>1. x \in Seq(Token) BY <1>2, PemGives DEF Given
    <3> QED BY <1>2, <3>1, FirstValueTyped
  <2> DEFINE h == FirstValue(x)
             t == elements[at].objects
             w == elements[at].whole
  <2> HIDE DEF elements
  <2>8. this = [objects |-> <<h>> \o t, whole |-> w] /\ t \in Seq(Object) BY <2>2, <2>5, <2>6
  <2>9. this.whole BY DEF elements
  <2> HIDE DEF this, t, w, h, r
  <2>10. now = <<h>> \o t /\ w BY <2>8, <2>9
  <2>11. (<<h>> \o t)[1] = h /\ <<h>> \o t # <<>>
    <3>1. <<h>> \in Seq(Object) /\ Len(<<h>>) = 1 /\ <<h>>[1] = h /\ t \in Seq(Object)
      BY <2>7, <2>8 DEF h
    <3>2. Len(<<h>> \o t) = 1 + Len(t) /\ Len(t) \in Nat BY <3>1, ConcatProperties
    <3>3. (<<h>> \o t)[1] = h BY <3>1, <3>2, ConcatProperties
    <3>4. Len(<<h>> \o t) # 0 BY <3>2
    <3> QED BY <3>3, <3>4
  <2> HIDE DEF now
  <2>12. now # <<>> /\ now[1] = h BY <2>10, <2>11
  <2>13. r.at = at /\ r = Decoded(h, at) BY <2>3 DEF Decoded, h
  <2>14. r = Decoded(now[1], r.at) /\ r.at \in 0..Len(text) BY <2>12, <2>13
  <2>15. now = <<now[1]>> \o elements[r.at].objects BY <2>10, <2>12, <2>13 DEF t
  <2>16. elements[r.at].whole BY <2>10, <2>13 DEF w
  <2> QED BY <2>12, <2>14, <2>15, <2>16 DEF elements, now, this, r
<1>3. CASE ~(HasElement(text, p) /\ IsWhole(x))
  <2>1. now = <<>> BY <1>1, <1>3 DEF ElementsAt
  <2>2. ~HasElement(text, p) => this = [objects |-> <<>>, whole |-> TRUE] BY <1>1 DEF ElementsAt
  <2>3. HasElement(text, p) =>
          this = [objects |-> <<>>,
                  whole   |-> /\ IsCut(x)
                              /\ Len(text) \in {FooterOf(text, p), LineBehind(text, FooterOf(text, p))}]
    BY <1>1, <1>3 DEF ElementsAt
  <2>4. HasElement(text, p) =>
          IsCut(x) /\ Len(text) \in {FooterOf(text, p), LineBehind(text, FooterOf(text, p))}
    <3>1. this.whole OBVIOUS
    <3> HIDE DEF this, x
    <3> QED BY <2>3, <3>1
  <2>5. ~r.ok /\ r.at = Len(text) BY <1>3, <2>4, PemMissing
  <2> QED BY <2>1, <2>5
<1> QED BY <1>2, <1>3

\* Nothing is left at the end of a text.
LEMMA NothingAtEnd ==
  ASSUME NEW text \in Seq(Token)
  PROVE  /\ ValuesFrom(text)[Len(text)] = <<>>
         /\ ElementsFrom(text)[Len(text)] = [objects |-> <<>>, whole |-> TRUE]
<1> DEFINE n == Len(text)
<1>1. n \in 0..Len(text) OBVIOUS
<1>2. ~IsWhole(From(text, n))
  <2>1. From(text, n) \in Seq(Token) /\ Len(From(text, n)) = 0 BY <1>1, DerGives
  <2>2. From(text, n) = <<>> BY <2>1, EmptySeq
  <2> QED BY <2>2 DEF IsWhole, HasHeader
<1>3. ValuesFrom(text)[n] = <<>> BY <1>1, <1>2, ValuesDefined DEF ValuesAt
<1>4. ~HasElement(text, n)
  <2>1. HeaderLineFrom(text, n) \in n..Len(text) BY <1>1, LinesFound
  <2> QED BY <2>1 DEF HasElement
<1>5. ElementsFrom(text)[n] = [objects |-> <<>>, whole |-> TRUE]
  BY <1>1, <1>4, ElementsDefined DEF ElementsAt
<1> QED BY <1>3, <1>5

\* The call c tells what r is, and the IO stands where r ends.
Follows(c, r) ==
  /\ pos' = StandsAt(r.at)
  /\ r.ok => c.result = Answered(r.object)
  /\ ~r.ok => ~c.result.ok

DerResult == krypt_asn1_decode_stream(Stream("DER", source.der[1], Start))

PemResult == krypt_asn1_decode_stream(Stream("PEM", source.pem[1], Start))

TextResult ==
  LET pem == krypt_asn1_decode_stream(Stream("PEM", source.der[1], Start))
  IN  IF pem.ok THEN pem ELSE Retried(source.der[1], pem)

Adds(c) ==
  /\ source' = source /\ calls' = Append(calls, c)
  /\ \/ c.name \in {"value", "template"} /\ pos' = pos
     \/ c.name = "decode_der" /\ (source.der # <<>> => Follows(c, DerResult))
     \/ c.name = "decode_pem" /\ (source.pem # <<>> => Follows(c, PemResult))
     \/ c.name = "decode" /\ (source.der # <<>> => Follows(c, TextResult))

LEMMA CallAdds ==
  ASSUME DecodeTypeOK, NEW label \in CallName, NEW result \in Answers, Call(label, result)
  PROVE  \E c \in Calls : /\ source' = source /\ calls' = Append(calls, c)
                          /\ c.name = label /\ c.result = result
<1> DEFINE c == [name |-> label, from |-> Start, result |-> result]
<1>1. c \in Calls BY StartFacts DEF Calls
<1>2. source' = source /\ calls' = Append(calls, c) BY DEF Call
<1>3. c.name = label /\ c.result = result OBVIOUS
<1> QED BY <1>1, <1>2, <1>3

LEMMA RaiseAdds ==
  ASSUME DecodeTypeOK, NEW label \in CallName, NEW added \in Seq(Message),
         krypt_error_raise(label, added)
  PROVE  \E c \in Calls : /\ source' = source /\ calls' = Append(calls, c)
                          /\ c.name = label /\ ~c.result.ok
<1>1. PICK told \in Seq(Message \cup {"TypeError"}) : Call(label, Raised(told)) BY RaiseTyped
<1>2. Raised(told) \in Answers /\ ~Raised(told).ok BY AnswersTyped DEF Raised
<1> QED BY <1>1, <1>2, CallAdds

LEMMA WrongTypeAdds ==
  ASSUME DecodeTypeOK, NEW label \in CallName, WrongType(label)
  PROVE  \E c \in Calls : /\ source' = source /\ calls' = Append(calls, c) /\ c.name = label
<1>1. <<"TypeError">> \in Seq(Message \cup {"TypeError"}) OBVIOUS
<1>2. Call(label, Raised(<<"TypeError">>)) /\ Raised(<<"TypeError">>) \in Answers
  BY <1>1, AnswersTyped DEF WrongType
<1> QED BY <1>2, CallAdds

LEMMA SingleAdds ==
  ASSUME DecodeTypeOK, NEW label \in CallName, NEW m \in Nat, NEW r, Result(r, m), Single(label, r)
  PROVE  \E c \in Calls : /\ source' = source /\ calls' = Append(calls, c)
                          /\ c.name = label /\ Follows(c, r)
<1>1. pos' = StandsAt(r.at) BY DEF Single
<1>2. CASE r.ok
  <2>1. Call(label, Answered(r.object)) /\ r.object \in Object BY <1>2 DEF Single, Result
  <2>2. Answered(r.object) \in Answers BY <2>1, AnswersTyped
  <2> QED BY <1>1, <1>2, <2>1, <2>2, CallAdds DEF Follows
<1>3. CASE ~r.ok
  <2>1. r.errors \in Seq(Message) /\ krypt_error_raise(label, r.errors)
    BY <1>3 DEF Result, Decoded, Single
  <2> QED BY <1>1, <1>3, <2>1, RaiseAdds DEF Follows
<1> QED BY <1>2, <1>3

LEMMA DecodeTextAdds ==
  ASSUME DecodeTypeOK, source.der # <<>>,
         DecodeText(source.der[1], krypt_asn1_decode_stream(Stream("PEM", source.der[1], Start)))
  PROVE  \E c \in Calls : /\ source' = source /\ calls' = Append(calls, c)
                          /\ c.name = "decode" /\ Follows(c, TextResult)
<1> DEFINE text == source.der[1]
           pem == krypt_asn1_decode_stream(Stream("PEM", text, Start))
           r == Retried(text, pem)
           m == Len(SourceText)
<1>1. /\ Result(pem, m) /\ Result(krypt_asn1_decode_stream(Stream("DER", text, Start)), m)
      /\ m \in Nat BY CallStreams, SourceFacts DEF DecodeTypeOK
<1>2. /\ r.ok => r.object \in Object
      /\ ~r.ok => r.errors \in Seq(Message) BY <1>1, RetriedFacts
<1>3. "decode" \in CallName BY DEF CallName
<1>4. TextResult = IF pem.ok THEN pem ELSE r BY DEF TextResult
<1> HIDE DEF text, pem, r, m
<1>5. CASE pem.ok
  <2>1. Single("decode", pem) BY <1>5 DEF DecodeText, text, pem
  <2> QED BY <1>1, <1>3, <1>4, <1>5, <2>1, SingleAdds
<1>6. CASE ~pem.ok
  <2>1. FallBack(pem, r) BY <1>6 DEF DecodeText, text, pem, r
  <2>2. pem.errors \in Seq(Message) /\ TextResult = r BY <1>1, <1>4, <1>6 DEF Result, Decoded
  <2>3. pos' = StandsAt(r.at) BY <2>1 DEF FallBack
  <2>4. CASE r.ok
    <3>1. Call("decode", Answered(r.object)) BY <2>1, <2>4 DEF FallBack
    <3>2. Answered(r.object) \in Answers BY <1>2, <2>4, AnswersTyped
    <3> QED BY <1>3, <2>2, <2>3, <2>4, <3>1, <3>2, CallAdds DEF Follows
  <2>5. CASE ~r.ok
    <3>1. krypt_error_raise("decode", pem.errors \o r.errors) BY <2>1, <2>5 DEF FallBack
    <3>2. pem.errors \o r.errors \in Seq(Message) BY <1>2, <2>2, <2>5, ConcatProperties
    <3> QED BY <1>3, <2>2, <2>3, <2>5, <3>1, <3>2, RaiseAdds DEF Follows
  <2> QED BY <2>4, <2>5
<1> QED BY <1>5, <1>6

LEMMA NextAdds ==
  ASSUME DecodeTypeOK, DecodeNext
  PROVE  \E c \in Calls : Adds(c)
<1>1. {"decode", "decode_der", "decode_pem", "value", "template"} \subseteq CallName
  BY DEF CallName
<1>2. source \in Sources BY DEF DecodeTypeOK
<1>3. CASE krypt_asn1_decode
  <2>1. CASE source.der = <<>>
    <3>1. WrongType("decode") BY <1>3, <2>1 DEF krypt_asn1_decode
    <3> QED BY <1>1, <2>1, <3>1, WrongTypeAdds DEF Adds
  <2>2. CASE source.der # <<>>
    <3>1. \E c \in Calls : /\ source' = source /\ calls' = Append(calls, c)
                           /\ c.name = "decode" /\ Follows(c, TextResult)
      BY <1>3, <2>2, DecodeTextAdds DEF krypt_asn1_decode
    <3> QED BY <3>1 DEF Adds
  <2> QED BY <2>1, <2>2
<1>4. CASE krypt_asn1_decode_der
  <2>1. CASE source.der = <<>>
    <3>1. WrongType("decode_der") BY <1>4, <2>1 DEF krypt_asn1_decode_der
    <3> QED BY <1>1, <2>1, <3>1, WrongTypeAdds DEF Adds
  <2>2. CASE source.der # <<>>
    <3>1. Single("decode_der", DerResult) /\ Result(DerResult, Len(SourceText)) /\ Len(SourceText) \in Nat
      BY <1>2, <1>4, <2>2, CallStreams, SourceFacts DEF krypt_asn1_decode_der, DerResult
    <3>2. \E c \in Calls : /\ source' = source /\ calls' = Append(calls, c)
                           /\ c.name = "decode_der" /\ Follows(c, DerResult)
      BY <1>1, <3>1, SingleAdds
    <3> QED BY <3>2 DEF Adds
  <2> QED BY <2>1, <2>2
<1>5. CASE krypt_asn1_decode_pem
  <2>1. CASE source.pem = <<>>
    <3>1. WrongType("decode_pem") BY <1>5, <2>1 DEF krypt_asn1_decode_pem
    <3> QED BY <1>1, <2>1, <3>1, WrongTypeAdds DEF Adds
  <2>2. CASE source.pem # <<>>
    <3>1. /\ Single("decode_pem", PemResult) /\ Result(PemResult, Len(source.pem[1]))
          /\ Len(source.pem[1]) \in Nat
      BY <1>2, <1>5, <2>2, CallStreams, SourceFacts DEF krypt_asn1_decode_pem, PemResult
    <3>2. \E c \in Calls : /\ source' = source /\ calls' = Append(calls, c)
                           /\ c.name = "decode_pem" /\ Follows(c, PemResult)
      BY <1>1, <3>1, SingleAdds
    <3> QED BY <3>2 DEF Adds
  <2> QED BY <2>1, <2>2
<1>6. CASE krypt_asn1_data_get_value
  <2>1. krypt_error_raise("value", <<"Boolean value with length != 1 found">>) /\ pos' = pos
    BY <1>6 DEF krypt_asn1_data_get_value
  <2>2. <<"Boolean value with length != 1 found">> \in Seq(Message)
    <3>1. "Boolean value with length != 1 found" \in Message BY DEF Message
    <3> QED BY <3>1, Messages
  <2>3. \E c \in Calls : /\ source' = source /\ calls' = Append(calls, c) /\ c.name = "value"
    BY <1>1, <2>1, <2>2, RaiseAdds
  <2> QED BY <2>1, <2>3 DEF Adds
<1>7. CASE krypt_error_clear
  <2> DEFINE object == [identifier |-> 0, content |-> <<>>]
  <2>1. Call("template", Answered(object)) /\ pos' = pos BY <1>7 DEF krypt_error_clear
  <2>2. object \in Object
    <3>1. <<>> \in Seq(Token) /\ 0 \in 0..255 OBVIOUS
    <3> QED BY <3>1 DEF Object
  <2> HIDE DEF object
  <2>3. Answered(object) \in Answers BY <2>2, AnswersTyped
  <2>4. \E c \in Calls : /\ source' = source /\ calls' = Append(calls, c) /\ c.name = "template"
    BY <1>1, <2>1, <2>3, CallAdds
  <2> QED BY <2>1, <2>4 DEF Adds
<1> QED BY <1>3, <1>4, <1>5, <1>6, <1>7 DEF DecodeNext

-----------------------------------------------------------------------------
(* The answers are in their order.                                         *)

DerOrder(src, cs, p) ==
  OnlyIn(cs, "decode_der") /\ src.der # <<>> =>
    LET values == ValuesFrom(src.der[1])
    IN  /\ GivesIn(src, cs, "decode_der", values[0])
        /\ RaisesIn(src, cs, "decode_der", values[0])
        /\ src.kind = "IO" /\ IsDue(src, cs, "decode_der", values[0]) =>
             RestOf(values[0], GivenSoFar(src, cs, "decode_der"), values[p])

PemOrder(src, cs, p) ==
  LET elements == ElementsFrom(src.pem[1])
      all      == elements[0].objects
  IN  OnlyIn(cs, "decode_pem") /\ src.pem # <<>> /\ elements[0].whole =>
        /\ GivesIn(src, cs, "decode_pem", all)
        /\ RaisesIn(src, cs, "decode_pem", all)
        /\ src.kind = "IO" /\ IsDue(src, cs, "decode_pem", all) =>
             RestOf(all, GivenSoFar(src, cs, "decode_pem"), elements[p].objects) /\ elements[p].whole

FirstOf(all) == SubSeq(all, 1, Min({1, Len(all)}))

TextOrder(src, cs, p) ==
  LET elements == ElementsFrom(src.der[1])
      all      == elements[0].objects
      first    == FirstOf(ValuesFrom(src.der[1])[0])
  IN  OnlyIn(cs, "decode") /\ src.der # <<>> /\ elements[0].whole =>
        IF all # <<>>
        THEN /\ GivesIn(src, cs, "decode", all)
             /\ src.kind = "IO" /\ IsDue(src, cs, "decode", all) =>
                  RestOf(all, GivenSoFar(src, cs, "decode"), elements[p].objects) /\ elements[p].whole
        ELSE /\ GivesIn(src, cs, "decode", first)
             /\ RaisesIn(src, cs, "decode", first)
             /\ src.kind = "IO" =>
                  p = IF GivenSoFar(src, cs, "decode") = 0 THEN 0 ELSE Len(src.der[1])

LEMMA OnlyAdded ==
  ASSUME NEW cs \in Seq(Calls), NEW c \in Calls, NEW label, OnlyIn(Append(cs, c), label)
  PROVE  OnlyIn(cs, label) /\ c.name \in {label, "value", "template"}
<1> DEFINE new == Append(cs, c)
           n == Len(cs)
<1>1. /\ n \in Nat /\ Len(new) = n + 1 /\ new[n + 1] = c
      /\ \A i \in 1..n : new[i] = cs[i] BY AppendProperties
<1>2. \A i \in 1..(n + 1) : new[i].name \in {label, "value", "template"} BY <1>1 DEF OnlyIn
<1> HIDE DEF new
<1>3. \A i \in 1..n : i \in 1..(n + 1) BY <1>1
<1>4. n + 1 \in 1..(n + 1) BY <1>1
<1> QED BY <1>1, <1>2, <1>3, <1>4 DEF OnlyIn

LEMMA RestAll ==
  ASSUME NEW all \in Seq(Object)
  PROVE  RestOf(all, 0, all)
<1>1. Len(all) \in Nat /\ \A j \in 1..Len(all) : 0 + j = j OBVIOUS
<1> QED BY <1>1 DEF RestOf

LEMMA DecodedIs ==
  ASSUME NEW object, NEW at, NEW r, r = Decoded(object, at)
  PROVE  r.ok /\ r.object = object /\ r.at = at
  BY DEF Decoded

LEMMA DerOrderKept ==
  ASSUME DecodeTypeOK, DerOrder(source, calls, pos), NEW c \in Calls, Adds(c)
  PROVE  DerOrder(source', calls', pos')
<1> DEFINE text == source.der[1]
           values == ValuesFrom(text)
           all == values[0]
           label == "decode_der"
           new == Append(calls, c)
<1> SUFFICES ASSUME OnlyIn(new, label), source.der # <<>>
             PROVE  /\ GivesIn(source, new, label, all)
                    /\ RaisesIn(source, new, label, all)
                    /\ source.kind = "IO" /\ IsDue(source, new, label, all) =>
                         RestOf(all, GivenSoFar(source, new, label), values[pos'])
  <2>1. source' = source /\ calls' = new BY DEF Adds
  <2>2. DerOrder(source, new, pos') => DerOrder(source', calls', pos') BY <2>1
  <2> QED BY <2>2 DEF DerOrder
<1>1. calls \in Seq(Calls) /\ source \in Sources BY DEF DecodeTypeOK, Calls, CallName, Answers
<1>2. OnlyIn(calls, label) /\ c.name \in {label, "value", "template"} BY <1>1, OnlyAdded
<1>3. /\ GivesIn(source, calls, label, all) /\ RaisesIn(source, calls, label, all)
      /\ source.kind = "IO" /\ IsDue(source, calls, label, all) =>
           RestOf(all, GivenSoFar(source, calls, label), values[pos]) BY <1>2 DEF DerOrder
<1>4. text \in Seq(Token) /\ Start \in 0..Len(text) /\ Len(text) \in Nat
  BY <1>1, SourceFacts, StartFacts
<1>5. CASE c.name \in {"value", "template"}
  <2>1. c.name # label BY <1>5
  <2>2. pos' = pos BY <1>5 DEF Adds
  <2> HIDE DEF new, values, text, all, label
  <2> QED BY <1>1, <1>3, <2>1, <2>2, OthersAdded DEF new
<1>6. CASE c.name = label
  <2> DEFINE r == DerResult
             now == values[Start]
             next == IF now # <<>> THEN values[r.at] ELSE <<>>
  <2>1. Follows(c, r) BY <1>6 DEF Adds
  <2>2. /\ now # <<>> => /\ r = Decoded(now[1], r.at) /\ r.at \in 0..Len(text)
                         /\ now = <<now[1]>> \o values[r.at]
        /\ now = <<>> => ~r.ok BY <1>4, DerStep DEF DerResult
  <2>3. all \in Seq(Object) /\ now \in Seq(Object) /\ next \in Seq(Object)
    <3>1. 0 \in 0..Len(text) BY <1>4
    <3>2. all \in Seq(Object) /\ now \in Seq(Object) BY <1>4, <3>1, ValuesTyped
    <3>3. now # <<>> => values[r.at] \in Seq(Object) BY <1>4, <2>2, ValuesTyped
    <3>4. <<>> \in Seq(Object) OBVIOUS
    <3> HIDE DEF values, r, text
    <3> QED BY <3>2, <3>3, <3>4
  <2>4. IsDue(source, calls, label, all) => RestOf(all, GivenSoFar(source, calls, label), now)
    <3>1. CASE source.kind = "IO" BY <1>3, <3>1 DEF Start
    <3>2. CASE source.kind # "IO"
      <4>1. now = all /\ GivenSoFar(source, calls, label) = 0 BY <3>2 DEF Start, GivenSoFar
      <4> HIDE DEF values, now, all
      <4> QED BY <2>3, <4>1, RestAll
    <3> QED BY <3>1, <3>2
  <2> HIDE DEF values, r, text, label, all, now
  <2>5. now # <<>> => c.result = Answered(now[1]) /\ now = <<now[1]>> \o next
    <3> SUFFICES ASSUME now # <<>>
                 PROVE  c.result = Answered(now[1]) /\ now = <<now[1]>> \o next
      OBVIOUS
    <3>1. r.ok /\ r.object = now[1] BY <2>2, DecodedIs
    <3>2. c.result = Answered(now[1]) BY <2>1, <3>1 DEF Follows
    <3> QED BY <2>2, <3>2
  <2>6. now = <<>> => ~c.result.ok BY <2>1, <2>2 DEF Follows
  <2> HIDE DEF next
  <2>7. /\ GivesIn(source, new, label, all) /\ RaisesIn(source, new, label, all)
        /\ source.kind = "IO" /\ IsDue(source, new, label, all) =>
             now # <<>> /\ RestOf(all, GivenSoFar(source, new, label), next)
    BY <1>1, <1>3, <1>6, <2>3, <2>4, <2>5, <2>6, OneAdded
  <2>8. source.kind = "IO" /\ now # <<>> => values[pos'] = next
    <3>1. source.kind = "IO" => pos' = r.at BY <2>1 DEF Follows, StandsAt
    <3> QED BY <3>1 DEF next
  <2> HIDE DEF new
  <2> QED BY <2>7, <2>8
<1> QED BY <1>2, <1>5, <1>6

\* A call of decode_pem, or of decode with the element it stands at.
LEMMA ElementGiven ==
  ASSUME DecodeTypeOK, NEW c \in Calls, NEW label, c.name = label,
         NEW text \in Seq(Token), Start \in 0..Len(text), 0 \in 0..Len(text),
         NEW r, r = krypt_asn1_decode_stream(Stream("PEM", text, Start)),
         r.ok => Follows(c, r),
         GivesIn(source, calls, label, ElementsFrom(text)[0].objects),
         ElementsFrom(text)[0].whole,
         source.kind = "IO" /\ IsDue(source, calls, label, ElementsFrom(text)[0].objects) =>
           /\ RestOf(ElementsFrom(text)[0].objects, GivenSoFar(source, calls, label),
                   ElementsFrom(text)[pos].objects)
           /\ ElementsFrom(text)[pos].whole
  PROVE  LET elements == ElementsFrom(text)
             all      == elements[0].objects
             new      == Append(calls, c)
         IN  /\ GivesIn(source, new, label, all)
             /\ source.kind = "IO" /\ IsDue(source, new, label, all) =>
                  RestOf(all, GivenSoFar(source, new, label), elements[pos'].objects) /\ elements[pos'].whole
             /\ RaisesIn(source, calls, label, all) /\ (~r.ok => ~c.result.ok) =>
                  RaisesIn(source, new, label, all)
<1> DEFINE elements == ElementsFrom(text)
           all == elements[0].objects
           new == Append(calls, c)
           due == IsDue(source, calls, label, all)
           now == elements[Start].objects
           next == IF due /\ now # <<>> THEN elements[r.at].objects ELSE <<>>
<1>1. calls \in Seq(Calls) /\ Len(text) \in Nat BY DEF DecodeTypeOK, Calls, CallName, Answers
<1>2. all \in Seq(Object) /\ now \in Seq(Object)
  <2>1. /\ elements[0] \in [objects : Seq(Object), whole : BOOLEAN]
        /\ elements[Start] \in [objects : Seq(Object), whole : BOOLEAN] BY ElementsTyped
  <2> QED BY <2>1
<1>3. due => RestOf(all, GivenSoFar(source, calls, label), now) /\ elements[Start].whole
  <2>1. CASE source.kind = "IO" BY <2>1 DEF Start
  <2>2. CASE source.kind # "IO"
    <3>1. Start = 0 /\ GivenSoFar(source, calls, label) = 0 BY <2>2 DEF Start, GivenSoFar
    <3>2. RestOf(all, 0, all) BY <1>2, RestAll
    <3> QED BY <3>1, <3>2
  <2> QED BY <2>1, <2>2
<1>4. due => /\ now # <<>> => /\ r = Decoded(now[1], r.at) /\ r.at \in 0..Len(text)
                              /\ now = <<now[1]>> \o elements[r.at].objects
                              /\ elements[r.at].whole
             /\ now = <<>> => ~r.ok BY <1>3, PemStep
<1>5. next \in Seq(Object)
  <2>1. due /\ now # <<>> => elements[r.at] \in [objects : Seq(Object), whole : BOOLEAN]
    BY <1>4, ElementsTyped
  <2>2. <<>> \in Seq(Object) OBVIOUS
  <2> HIDE DEF elements, due, now
  <2> QED BY <2>1, <2>2
<1> HIDE DEF elements, all, due, now
<1>6. due /\ now # <<>> => /\ r.ok /\ c.result = Answered(now[1]) /\ now = <<now[1]>> \o next
                           /\ pos' = StandsAt(r.at)
  <2> SUFFICES ASSUME due, now # <<>>
               PROVE  /\ r.ok /\ c.result = Answered(now[1]) /\ now = <<now[1]>> \o next
                      /\ pos' = StandsAt(r.at) OBVIOUS
  <2>1. r.ok /\ r.object = now[1] BY <1>4, DecodedIs
  <2>2. c.result = Answered(now[1]) /\ pos' = StandsAt(r.at) BY <2>1 DEF Follows
  <2> QED BY <1>4, <2>1, <2>2
<1> HIDE DEF next, new
<1>7. /\ GivesIn(source, new, label, all)
      /\ source.kind = "IO" /\ IsDue(source, new, label, all) =>
           now # <<>> /\ due /\ RestOf(all, GivenSoFar(source, new, label), next)
      /\ RaisesIn(source, calls, label, all) /\ (due /\ now = <<>> => ~c.result.ok) =>
           RaisesIn(source, new, label, all)
  <2>1. GivesIn(source, calls, label, all) BY DEF all, elements
  <2>2. due => /\ RestOf(all, GivenSoFar(source, calls, label), now)
               /\ now # <<>> => c.result = Answered(now[1]) /\ now = <<now[1]>> \o next
    BY <1>3, <1>6
  <2> QED BY <1>1, <1>2, <1>5, <2>1, <2>2, OneAdded DEF new, due
<1>8. source.kind = "IO" /\ due /\ now # <<>> =>
        elements[pos'].objects = next /\ elements[pos'].whole BY <1>4, <1>6 DEF next, StandsAt
<1>9. (~r.ok => ~c.result.ok) => (due /\ now = <<>> => ~c.result.ok) BY <1>4
<1> QED BY <1>7, <1>8, <1>9 DEF elements, all, new

LEMMA PemOrderKept ==
  ASSUME DecodeTypeOK, PemOrder(source, calls, pos), NEW c \in Calls, Adds(c)
  PROVE  PemOrder(source', calls', pos')
<1> DEFINE text == source.pem[1]
           elements == ElementsFrom(text)
           all == elements[0].objects
           label == "decode_pem"
           new == Append(calls, c)
<1> SUFFICES ASSUME OnlyIn(new, label), source.pem # <<>>, elements[0].whole
             PROVE  /\ GivesIn(source, new, label, all)
                    /\ RaisesIn(source, new, label, all)
                    /\ source.kind = "IO" /\ IsDue(source, new, label, all) =>
                         /\ RestOf(all, GivenSoFar(source, new, label), elements[pos'].objects)
                         /\ elements[pos'].whole
  <2>1. source' = source /\ calls' = new BY DEF Adds
  <2>2. PemOrder(source, new, pos') => PemOrder(source', calls', pos') BY <2>1
  <2> QED BY <2>2 DEF PemOrder
<1>1. calls \in Seq(Calls) /\ source \in Sources BY DEF DecodeTypeOK, Calls, CallName, Answers
<1>2. OnlyIn(calls, label) /\ c.name \in {label, "value", "template"} BY <1>1, OnlyAdded
<1>3. /\ GivesIn(source, calls, label, all) /\ RaisesIn(source, calls, label, all)
      /\ source.kind = "IO" /\ IsDue(source, calls, label, all) =>
           /\ RestOf(all, GivenSoFar(source, calls, label), elements[pos].objects)
           /\ elements[pos].whole BY <1>2 DEF PemOrder
<1>4. text \in Seq(Token) /\ Start \in 0..Len(text) /\ 0 \in 0..Len(text)
  BY <1>1, SourceFacts, StartFacts
<1>5. CASE c.name \in {"value", "template"}
  <2>1. c.name # label BY <1>5
  <2>2. pos' = pos BY <1>5 DEF Adds
  <2> HIDE DEF new, elements, text, all, label
  <2> QED BY <1>1, <1>3, <2>1, <2>2, OthersAdded DEF new
<1>6. CASE c.name = label
  <2> DEFINE r == PemResult
  <2>1. Follows(c, r) BY <1>6 DEF Adds
  <2>2. r = krypt_asn1_decode_stream(Stream("PEM", text, Start)) BY DEF PemResult
  <2>3. ~r.ok => ~c.result.ok BY <2>1 DEF Follows
  <2> HIDE DEF r, text, label
  <2> QED BY <1>3, <1>4, <1>6, <2>1, <2>2, <2>3, ElementGiven
<1> QED BY <1>2, <1>5, <1>6

LEMMA FirstOfFacts ==
  ASSUME NEW all \in Seq(Object)
  PROVE  /\ all = <<>> => FirstOf(all) = <<>>
         /\ all # <<>> => all[1] \in Object /\ FirstOf(all) = <<all[1]>>
<1>1. CASE all = <<>>
  <2>1. Len(all) = 0 BY <1>1
  <2>2. Min({1, 0}) = 0
    <3> DEFINE S == {1, 0}
    <3>1. S \subseteq Nat /\ 0 \in S /\ \A q \in S : 0 <= q OBVIOUS
    <3> HIDE DEF S
    <3>2. Min(S) = 0 BY <3>1, MinIs
    <3> QED BY <3>2 DEF S
  <2>3. FirstOf(all) = SubSeq(all, 1, 0) BY <2>1, <2>2 DEF FirstOf
  <2>4. SubSeq(all, 1, 0) = <<>> BY SubSeqEmpty
  <2> QED BY <1>1, <2>3, <2>4
<1>2. CASE all # <<>>
  <2>1. Len(all) \in Nat /\ Len(all) >= 1 BY <1>2, EmptySeq
  <2>2. Min({1, Len(all)}) = 1
    <3> DEFINE S == {1, Len(all)}
    <3>1. S \subseteq Nat /\ 1 \in S /\ \A q \in S : 1 <= q BY <2>1
    <3> HIDE DEF S
    <3>2. Min(S) = 1 BY <3>1, MinIs
    <3> QED BY <3>2 DEF S
  <2>3. FirstOf(all) = SubSeq(all, 1, 1) /\ all[1] \in Object BY <2>1, <2>2 DEF FirstOf
  <2> DEFINE u == SubSeq(all, 1, 1)
             v == <<all[1]>>
  <2>4. u \in Seq(Object) /\ Len(u) = 1 /\ u[1] = all[1]
    <3>1. \A i \in 1..1 : all[i] \in Object BY <2>3
    <3>2. /\ SubSeq(all, 1, 1) \in Seq(Object)
          /\ Len(SubSeq(all, 1, 1)) = IF 1 <= 1 THEN 1 - 1 + 1 ELSE 0
          /\ \A i \in 1..(1 - 1 + 1) : SubSeq(all, 1, 1)[i] = all[1 + i - 1]
      BY <3>1, SubSeqProperties
    <3>3. 1 \in 1..(1 - 1 + 1) /\ 1 + 1 - 1 = 1 OBVIOUS
    <3> QED BY <3>2, <3>3
  <2>5. v \in Seq(Object) /\ Len(v) = 1 /\ v[1] = all[1] BY <2>3
  <2> HIDE DEF u, v
  <2>6. \A i \in 1..Len(u) : u[i] = v[i] BY <2>4, <2>5
  <2>7. u = v BY <2>4, <2>5, <2>6, SeqEqual
  <2> QED BY <1>2, <2>3, <2>7 DEF u, v
<1> QED BY <1>1, <1>2

\* A call of decode where no PEM is.
LEMMA FirstGiven ==
  ASSUME DecodeTypeOK, NEW c \in Calls, c.name = "decode", source.der # <<>>, Follows(c, TextResult),
         ElementsFrom(source.der[1])[0].whole, ElementsFrom(source.der[1])[0].objects = <<>>,
         source.kind = "IO" =>
           pos = IF GivenSoFar(source, calls, "decode") = 0 THEN 0 ELSE Len(source.der[1]),
         GivesIn(source, calls, "decode", FirstOf(ValuesFrom(source.der[1])[0])),
         RaisesIn(source, calls, "decode", FirstOf(ValuesFrom(source.der[1])[0]))
  PROVE  LET first == FirstOf(ValuesFrom(source.der[1])[0])
             new   == Append(calls, c)
         IN  /\ GivesIn(source, new, "decode", first)
             /\ RaisesIn(source, new, "decode", first)
             /\ source.kind = "IO" =>
                  /\ pos' = Len(source.der[1])
                  /\ GivenSoFar(source, new, "decode") # 0
<1> DEFINE text == source.der[1]
           n == Len(text)
           all == ValuesFrom(text)[0]
           first == FirstOf(all)
           new == Append(calls, c)
           label == "decode"
           k == GivenSoFar(source, calls, label)
           pem == krypt_asn1_decode_stream(Stream("PEM", text, Start))
           direct == krypt_asn1_decode_stream(Stream("DER", text, Start))
           r == Retried(text, pem)
           now == IF k = 0 THEN first ELSE <<>>
<1>1. calls \in Seq(Calls) /\ source \in Sources BY DEF DecodeTypeOK, Calls, CallName, Answers
<1>2. text \in Seq(Token) /\ Start \in 0..n /\ n \in Nat /\ 0 \in 0..n
  BY <1>1, SourceFacts, StartFacts
<1>3. all \in Seq(Object) BY <1>2, ValuesTyped
<1>4. /\ k \in Nat /\ (source.kind # "IO" => k = 0)
      /\ k = 0 => Start = 0
      /\ k # 0 => Start = n /\ source.kind = "IO"
      /\ source.kind = "IO" => GivenSoFar(source, new, label) = k + 1
  <2>1. /\ Count(calls, label, Len(calls)) \in Nat
        /\ Len(new) = Len(calls) + 1
        /\ Count(new, label, Len(calls) + 1) = Count(calls, label, Len(calls)) + 1
    BY <1>1, CountGrows
  <2> HIDE DEF new
  <2> QED BY <2>1 DEF GivenSoFar, Start
<1> HIDE DEF k
<1>5. ElementsFrom(text)[Start].whole /\ ElementsFrom(text)[Start].objects = <<>>
  BY <1>2, <1>4, NothingAtEnd
<1>6. ~pem.ok /\ pem.at = n BY <1>2, <1>5, PemStep
<1>7. Result(pem, n) /\ Result(direct, n)
  <2>1. SourceText = text BY <1>1, SourceFacts
  <2> QED BY <2>1, CallStreams
<1>8. r.at = n /\ r.ok = direct.ok /\ (r.ok => r.object = direct.object)
  <2>1. /\ r.at \in 0..n /\ r.at >= pem.at /\ r.ok = direct.ok
        /\ r.ok => r.object = direct.object BY <1>2, <1>7, RetriedFacts
  <2> HIDE DEF r, n, direct, pem
  <2> QED BY <1>2, <1>6, <2>1
<1>9. TextResult = r BY <1>6 DEF TextResult
<1> HIDE DEF r
<1>10. /\ pos' = StandsAt(n)
       /\ direct.ok => c.result = Answered(direct.object)
       /\ ~direct.ok => ~c.result.ok BY <1>8, <1>9 DEF Follows
<1>11. /\ k = 0 /\ all # <<>> => direct.ok /\ direct.object = all[1]
       /\ k # 0 \/ all = <<>> => ~direct.ok
  <2>1. CASE k = 0
    <3>1. /\ all # <<>> => direct = Decoded(all[1], direct.at)
          /\ all = <<>> => ~direct.ok BY <1>2, <1>4, <2>1, DerStep
    <3> HIDE DEF direct, all
    <3> QED BY <2>1, <3>1, DecodedIs
  <2>2. CASE k # 0
    <3>1. ValuesFrom(text)[Start] = <<>> BY <1>2, <1>4, <2>2, NothingAtEnd
    <3> QED BY <1>2, <2>2, <3>1, DerStep
  <2> QED BY <2>1, <2>2
<1>12. /\ all = <<>> => first = <<>>
       /\ all # <<>> => all[1] \in Object /\ first = <<all[1]>> BY <1>3, FirstOfFacts
<1> HIDE DEF all, first, direct, pem, n, text
<1>13. first \in Seq(Object) /\ Len(first) \in Nat /\ Len(first) <= 1
       /\ (all # <<>> => first # <<>> /\ first[1] = all[1] /\ first = <<first[1]>> \o <<>>)
  <2>1. CASE all = <<>> BY <1>12, <2>1
  <2>2. CASE all # <<>>
    <3> DEFINE a == all[1]
               s == <<a>>
    <3>1. a \in Object /\ first = s BY <1>12, <2>2
    <3> HIDE DEF a
    <3>2. s \in Seq(Object) /\ Len(s) = 1 /\ s[1] = a /\ s # <<>> BY <3>1
    <3>3. s = s \o <<>> BY <3>2, ConcatEmptySeq
    <3>4. s = <<s[1]>> \o <<>> BY <3>2, <3>3
    <3> HIDE DEF s
    <3> QED BY <3>1, <3>2, <3>4 DEF a
  <2> QED BY <2>1, <2>2
<1>14. now \in Seq(Object) /\ <<>> \in Seq(Object) BY <1>13
<1>15. IsDue(source, calls, label, first) => RestOf(first, k, now)
  <2>1. CASE k = 0 BY <1>13, <2>1, RestAll
  <2>2. CASE k # 0
    <3>1. IsDue(source, calls, label, first) => k <= Len(first)
      BY <1>4, <2>2 DEF IsDue, k, GivenSoFar
    <3>2. IsDue(source, calls, label, first) => Len(first) = 1 /\ k = 1
      <4> DEFINE l == Len(first)
      <4>1. k \in Nat /\ k # 0 /\ l \in Nat /\ l <= 1 BY <1>4, <1>13, <2>2
      <4> HIDE DEF l
      <4>2. k <= l => l = 1 /\ k = 1 BY <4>1
      <4> QED BY <3>1, <4>2, Zenon DEF l
    <3>3. Len(<<>>) = 0 /\ 1 - 1 = 0 OBVIOUS
    <3> QED BY <2>2, <3>2, <3>3 DEF RestOf
  <2> QED BY <2>1, <2>2
<1>16. now # <<>> => c.result = Answered(now[1]) /\ now = <<now[1]>> \o <<>>
  BY <1>10, <1>11, <1>12, <1>13
<1>17. now = <<>> => ~c.result.ok BY <1>10, <1>11, <1>13
<1> HIDE DEF now, new
<1>18. GivesIn(source, calls, label, first) /\ RaisesIn(source, calls, label, first)
  BY DEF first, all, text
<1>19. GivesIn(source, new, label, first) /\ RaisesIn(source, new, label, first)
  BY <1>1, <1>13, <1>14, <1>15, <1>16, <1>17, <1>18, OneAdded DEF k, new
<1>20. source.kind = "IO" => pos' = n /\ GivenSoFar(source, new, label) # 0
  BY <1>4, <1>10 DEF StandsAt
<1> QED BY <1>19, <1>20 DEF first, all, text, new, n

LEMMA TextOrderKept ==
  ASSUME DecodeTypeOK, TextOrder(source, calls, pos), NEW c \in Calls, Adds(c)
  PROVE  TextOrder(source', calls', pos')
<1> DEFINE text == source.der[1]
           elements == ElementsFrom(text)
           all == elements[0].objects
           first == FirstOf(ValuesFrom(text)[0])
           label == "decode"
           new == Append(calls, c)
<1> SUFFICES ASSUME OnlyIn(new, label), source.der # <<>>, elements[0].whole
             PROVE  IF all # <<>>
                    THEN /\ GivesIn(source, new, label, all)
                         /\ source.kind = "IO" /\ IsDue(source, new, label, all) =>
                              /\ RestOf(all, GivenSoFar(source, new, label), elements[pos'].objects)
                              /\ elements[pos'].whole
                    ELSE /\ GivesIn(source, new, label, first)
                         /\ RaisesIn(source, new, label, first)
                         /\ source.kind = "IO" =>
                              pos' = IF GivenSoFar(source, new, label) = 0 THEN 0 ELSE Len(text)
  <2>1. source' = source /\ calls' = new BY DEF Adds
  <2>2. TextOrder(source, new, pos') => TextOrder(source', calls', pos') BY <2>1
  <2> QED BY <2>2 DEF TextOrder
<1>1. calls \in Seq(Calls) /\ source \in Sources BY DEF DecodeTypeOK, Calls, CallName, Answers
<1>2. OnlyIn(calls, label) /\ c.name \in {label, "value", "template"} BY <1>1, OnlyAdded
<1>3. IF all # <<>>
      THEN /\ GivesIn(source, calls, label, all)
           /\ source.kind = "IO" /\ IsDue(source, calls, label, all) =>
                /\ RestOf(all, GivenSoFar(source, calls, label), elements[pos].objects)
                /\ elements[pos].whole
      ELSE /\ GivesIn(source, calls, label, first)
           /\ RaisesIn(source, calls, label, first)
           /\ source.kind = "IO" =>
                pos = IF GivenSoFar(source, calls, label) = 0 THEN 0 ELSE Len(text)
  BY <1>2 DEF TextOrder
<1>4. text \in Seq(Token) /\ Start \in 0..Len(text) /\ 0 \in 0..Len(text)
  BY <1>1, SourceFacts, StartFacts
<1>5. CASE c.name \in {"value", "template"}
  <2>1. c.name # label BY <1>5
  <2>2. pos' = pos BY <1>5 DEF Adds
  <2> HIDE DEF new, elements, text, all, label, first
  <2>3. /\ GivesIn(source, calls, label, all) => GivesIn(source, new, label, all)
        /\ IsDue(source, new, label, all) <=> IsDue(source, calls, label, all)
        /\ GivenSoFar(source, new, label) = GivenSoFar(source, calls, label)
        /\ GivesIn(source, calls, label, first) => GivesIn(source, new, label, first)
        /\ RaisesIn(source, calls, label, first) => RaisesIn(source, new, label, first)
    BY <1>1, <2>1, OthersAdded DEF new
  <2> QED BY <1>3, <2>2, <2>3
<1>6. CASE c.name = label
  <2>1. Follows(c, TextResult) BY <1>6 DEF Adds
  <2>2. CASE all # <<>>
    <3> DEFINE r == krypt_asn1_decode_stream(Stream("PEM", text, Start))
    <3>1. r.ok => Follows(c, r) BY <2>1 DEF TextResult
    <3> HIDE DEF r, text, label
    <3>2. r = krypt_asn1_decode_stream(Stream("PEM", text, Start)) BY DEF r
    <3> QED BY <1>3, <1>4, <1>6, <2>2, <3>1, <3>2, ElementGiven
  <2>3. CASE all = <<>> BY <1>3, <1>6, <2>1, <2>3, FirstGiven
  <2> QED BY <2>2, <2>3
<1> QED BY <1>2, <1>5, <1>6

\* The answers so far, and what the next ones are given of.
Orders ==
  /\ DerOrder(source, calls, pos) /\ PemOrder(source, calls, pos) /\ TextOrder(source, calls, pos)

OrderInv == DecodeTypeOK /\ Orders

LEMMA InOrder ==
  ASSUME DecodeTypeOK, NEW label, NEW all
  PROVE  /\ Only(label) <=> OnlyIn(calls, label)
         /\ GivesInOrder(label, all) <=> GivesIn(source, calls, label, all)
         /\ RaisesBehind(label, all) <=> RaisesIn(source, calls, label, all)
<1>1. DOMAIN calls = 1..Len(calls) BY DEF DecodeTypeOK
<1>2. \A i : Nth(label, i) = Place(source, calls, label, i) BY DEF Nth, Times, Place, Count
<1>3. Only(label) <=> OnlyIn(calls, label) BY <1>1 DEF Only, OnlyIn
<1>4. GivesInOrder(label, all) <=> GivesIn(source, calls, label, all)
  BY <1>1, <1>2, Zenon DEF GivesInOrder, GivesIn, Made
<1>5. RaisesBehind(label, all) <=> RaisesIn(source, calls, label, all)
  BY <1>1, <1>2, Zenon DEF RaisesBehind, RaisesIn, Made
<1> QED BY <1>3, <1>4, <1>5

LEMMA OrdersInitially ==
  ASSUME DecodeInit
  PROVE  OrderInv
<1>1. DecodeTypeOK BY TypeInitially
<1>2. calls = <<>> /\ pos = 0 /\ source \in Sources BY DEF DecodeInit
<1>3. Len(calls) = 0 /\ 1..Len(calls) = {} BY <1>2
<1>4. ASSUME NEW label, NEW all \in Seq(Object)
      PROVE  /\ GivesIn(source, calls, label, all) /\ RaisesIn(source, calls, label, all)
             /\ GivenSoFar(source, calls, label) = 0 /\ RestOf(all, 0, all)
  <2>1. GivesIn(source, calls, label, all) /\ RaisesIn(source, calls, label, all)
    BY <1>3 DEF GivesIn, RaisesIn
  <2>2. Count(calls, label, Len(calls)) = 0
    <3>1. {j \in 1..Len(calls) : calls[j].name = label} = {} BY <1>3
    <3> QED BY <3>1, FS_EmptySet DEF Count
  <2> QED BY <2>1, <2>2, RestAll DEF GivenSoFar
<1>5. /\ source.der # <<>> => source.der[1] \in Seq(Token)
      /\ source.pem # <<>> => source.pem[1] \in Seq(Token) BY <1>2, SourceFacts
<1>6. ASSUME NEW text \in Seq(Token)
      PROVE  /\ 0 \in 0..Len(text) /\ ValuesFrom(text)[0] \in Seq(Object)
             /\ ElementsFrom(text)[0].objects \in Seq(Object)
             /\ FirstOf(ValuesFrom(text)[0]) \in Seq(Object)
  <2>1. 0 \in 0..Len(text) OBVIOUS
  <2>2. ValuesFrom(text)[0] \in Seq(Object) BY <2>1, ValuesTyped
  <2>3. ElementsFrom(text)[0] \in [objects : Seq(Object), whole : BOOLEAN] BY <2>1, ElementsTyped
  <2> DEFINE all == ValuesFrom(text)[0]
  <2> HIDE DEF all
  <2>4. FirstOf(all) \in Seq(Object)
    <3>1. CASE all = <<>> BY <2>2, <3>1, FirstOfFacts DEF all
    <3>2. CASE all # <<>>
      <4>1. FirstOf(all) = <<all[1]>> /\ all[1] \in Object BY <2>2, <3>2, FirstOfFacts DEF all
      <4> QED BY <4>1
    <3> QED BY <3>1, <3>2
  <2> QED BY <2>1, <2>2, <2>3, <2>4 DEF all
<1>7. DerOrder(source, calls, pos)
  <2> SUFFICES ASSUME source.der # <<>>
               PROVE  DerOrder(source, calls, 0)
    BY <1>2 DEF DerOrder
  <2> DEFINE values == ValuesFrom(source.der[1])
  <2>1. values[0] \in Seq(Object) BY <1>5, <1>6
  <2>2. /\ GivesIn(source, calls, "decode_der", values[0])
        /\ RaisesIn(source, calls, "decode_der", values[0])
        /\ GivenSoFar(source, calls, "decode_der") = 0 /\ RestOf(values[0], 0, values[0])
    BY <1>4, <2>1
  <2> QED BY <2>2, Zenon DEF DerOrder
<1>8. PemOrder(source, calls, pos)
  <2> SUFFICES ASSUME source.pem # <<>>
               PROVE  PemOrder(source, calls, 0)
    BY <1>2 DEF PemOrder
  <2> DEFINE elements == ElementsFrom(source.pem[1])
             all == elements[0].objects
  <2>1. all \in Seq(Object) BY <1>5, <1>6
  <2>2. /\ GivesIn(source, calls, "decode_pem", all) /\ RaisesIn(source, calls, "decode_pem", all)
        /\ GivenSoFar(source, calls, "decode_pem") = 0 /\ RestOf(all, 0, all) BY <1>4, <2>1
  <2> QED BY <2>2, Zenon DEF PemOrder
<1>9. TextOrder(source, calls, pos)
  <2> SUFFICES ASSUME source.der # <<>>
               PROVE  TextOrder(source, calls, 0)
    BY <1>2 DEF TextOrder
  <2> DEFINE elements == ElementsFrom(source.der[1])
             all == elements[0].objects
             first == FirstOf(ValuesFrom(source.der[1])[0])
  <2>1. all \in Seq(Object) /\ first \in Seq(Object) BY <1>5, <1>6
  <2> HIDE DEF first, all
  <2>2. /\ GivesIn(source, calls, "decode", all) /\ GivenSoFar(source, calls, "decode") = 0
        /\ RestOf(all, 0, all) BY <1>4, <2>1
  <2>3. GivesIn(source, calls, "decode", first) /\ RaisesIn(source, calls, "decode", first)
    BY <1>4, <2>1
  <2> QED BY <2>2, <2>3, Zenon DEF TextOrder, all, first
<1> QED BY <1>1, <1>7, <1>8, <1>9 DEF OrderInv, Orders

LEMMA OrdersKept == OrderInv /\ [DecodeNext]_decodeVars => OrderInv'
<1> SUFFICES ASSUME OrderInv, [DecodeNext]_decodeVars
             PROVE  OrderInv'
  OBVIOUS
<1>1. CASE DecodeNext
  <2>1. DecodeTypeOK' BY <1>1, NextTyped DEF OrderInv
  <2>2. PICK c \in Calls : Adds(c) BY <1>1, NextAdds DEF OrderInv
  <2>3. DerOrder(source', calls', pos') /\ PemOrder(source', calls', pos')
        /\ TextOrder(source', calls', pos')
    BY <2>2, DerOrderKept, PemOrderKept, TextOrderKept DEF OrderInv, Orders
  <2> QED BY <2>1, <2>3 DEF OrderInv, Orders
<1>2. CASE UNCHANGED decodeVars
  <2>1. DecodeTypeOK' BY <1>2 DEF OrderInv, DecodeTypeOK, decodeVars
  <2>2. source' = source /\ calls' = calls /\ pos' = pos BY <1>2 DEF decodeVars
  <2>3. DerOrder(source', calls', pos') /\ PemOrder(source', calls', pos')
        /\ TextOrder(source', calls', pos') BY <2>2 DEF OrderInv, Orders
  <2> QED BY <2>1, <2>3 DEF OrderInv, Orders
<1> QED BY <1>1, <1>2

LEMMA OrdersMean ==
  ASSUME OrderInv, WellFormed(source)
  PROVE  AnswersInOrder /\ DecodeFallsBack
<1>1. DecodeTypeOK /\ source \in Sources BY DEF OrderInv, DecodeTypeOK
<1>2. /\ SourceSound(source) /\ (source.is_der => source.der # <<>>)
      /\ source.kind # "object" =>
           source.der # <<>> /\ source.pem # <<>> /\ source.pem[1] = source.der[1]
  BY <1>1, SourceFacts
<1>3. ASSUME Only("decode_der"), source.is_der
      PROVE  GivesInOrder("decode_der", source.values) /\ RaisesBehind("decode_der", source.values)
  <2>1. source.der # <<>> /\ source.values = ValuesFrom(source.der[1])[0]
    BY <1>2, <1>3 DEF SourceSound
  <2>2. OnlyIn(calls, "decode_der") BY <1>1, <1>3, InOrder
  <2>3. /\ GivesIn(source, calls, "decode_der", source.values)
        /\ RaisesIn(source, calls, "decode_der", source.values)
    BY <2>1, <2>2 DEF OrderInv, Orders, DerOrder
  <2> QED BY <1>1, <2>3, InOrder
<1>4. ASSUME Only("decode_pem"), source.pem # <<>>
      PROVE  GivesInOrder("decode_pem", source.elements) /\ RaisesBehind("decode_pem", source.elements)
  <2>1. ElementsFrom(source.pem[1])[0].whole BY <1>4 DEF WellFormed
  <2>2. source.elements = ElementsFrom(source.pem[1])[0].objects
    BY <1>2, <1>4, <2>1 DEF SourceSound
  <2>3. OnlyIn(calls, "decode_pem") BY <1>1, <1>4, InOrder
  <2>4. /\ GivesIn(source, calls, "decode_pem", source.elements)
        /\ RaisesIn(source, calls, "decode_pem", source.elements)
    BY <1>4, <2>1, <2>2, <2>3 DEF OrderInv, Orders, PemOrder
  <2> QED BY <1>1, <2>4, InOrder
<1>5. AnswersInOrder BY <1>3, <1>4 DEF AnswersInOrder
<1>6. ASSUME Only("decode"), source.der # <<>>
      PROVE  IF source.elements # <<>> /\ source.kind # "object"
             THEN GivesInOrder("decode", source.elements)
             ELSE /\ GivesInOrder("decode", FirstOf(source.values))
                  /\ RaisesBehind("decode", FirstOf(source.values))
  <2> DEFINE all == ElementsFrom(source.der[1])[0].objects
  <2>1. OnlyIn(calls, "decode") /\ ElementsFrom(source.der[1])[0].whole
    BY <1>1, <1>6, InOrder DEF WellFormed
  <2>2. IF all # <<>> THEN GivesIn(source, calls, "decode", all)
        ELSE /\ GivesIn(source, calls, "decode", FirstOf(ValuesFrom(source.der[1])[0]))
             /\ RaisesIn(source, calls, "decode", FirstOf(ValuesFrom(source.der[1])[0]))
    BY <1>6, <2>1 DEF OrderInv, Orders, TextOrder
  <2>3. source.kind # "object" => source.elements = all BY <1>2, <2>1 DEF SourceSound
  <2>4. source.kind = "object" => all = <<>> BY <1>6 DEF WellFormed
  <2>5. source.kind = "object" \/ source.elements = <<>> =>
          source.values = ValuesFrom(source.der[1])[0] BY <1>2, <1>6 DEF SourceSound
  <2> HIDE DEF all
  <2>6. CASE source.elements # <<>> /\ source.kind # "object" BY <1>1, <2>2, <2>3, <2>6, InOrder
  <2>7. CASE ~(source.elements # <<>> /\ source.kind # "object")
    <3>1. all = <<>> /\ source.values = ValuesFrom(source.der[1])[0] BY <2>3, <2>4, <2>5, <2>7
    <3>2. /\ GivesIn(source, calls, "decode", FirstOf(source.values))
          /\ RaisesIn(source, calls, "decode", FirstOf(source.values)) BY <2>2, <3>1
    <3> QED BY <1>1, <2>7, <3>2, InOrder
  <2> QED BY <2>6, <2>7
<1>7. DecodeFallsBack BY <1>6, Zenon DEF DecodeFallsBack, FirstOf
<1> QED BY <1>5, <1>7

LEMMA OrdersHold == DecodeSpec => []OrderInv
<1>1. DecodeInit => OrderInv BY OrdersInitially
<1> QED BY <1>1, OrdersKept, PTL DEF DecodeSpec

\* decode_der gives the values of a source one after another, and decode_pem
\* its elements, whatever the lines and the buffer.
THEOREM AnswersAreInOrder == DecodeSpec => [](WellFormed(source) => AnswersInOrder)
<1>1. OrderInv => (WellFormed(source) => AnswersInOrder) BY OrdersMean
<1> QED BY <1>1, OrdersHold, PTL

\* decode gives the elements of a source, or, if there are none, the value it
\* begins with.
THEOREM DecodeTriesBoth == DecodeSpec => [](WellFormed(source) => DecodeFallsBack)
<1>1. OrderInv => (WellFormed(source) => DecodeFallsBack) BY OrdersMean
<1> QED BY <1>1, OrdersHold, PTL

-----------------------------------------------------------------------------
(* PemDecode: what the decoder keeps between its steps for every text and  *)
(* every size of the buffers, that an element is handed to the program     *)
(* only after its footer, and that the decoder implements OrderedSource:   *)
(* the elements of the text, in its order, each once, and an error if and  *)
(* only if the text is cut.                                                *)

\* What the text tells of the line that is looked at.
LEMMA CurrentLine ==
  ASSUME ScanInv, Filling
  PROVE  /\ line \in DOMAIN doc.lines
         /\ Current.chars \in Nat /\ Current.chars <= LineSize
         /\ Current.octets \in Seq(Octets)
         /\ 4 * Len(Current.octets) <= 3 * Current.chars
         /\ Current.name \in {doc.lines[i].name : i \in DOMAIN doc.lines}
<1>1. /\ doc \in Docs /\ doc.lines \in Seq(Line)
      /\ \A i \in DOMAIN doc.lines : LineSound(doc.lines[i])
  BY DocsAssumption DEF ScanInv, TypeOK
<1>2. line \in 1..Len(doc.lines) BY <1>1 DEF ScanInv, TypeOK, FillInv, Filling, AtEnd
<1>3. line \in DOMAIN doc.lines BY <1>1, <1>2
<1>4. LineSound(Current) BY <1>1, <1>3 DEF Current
<1> QED BY <1>3, <1>4 DEF LineSound, Line, Current

LEMMA NextLine ==
  ASSUME ScanInv
  PROVE  /\ gets \in 0..(Len(doc.lines) + 1) /\ gets > 0
         /\ Len(doc.lines) \in Nat /\ doc.lines \in Seq(Line)
<1>1. doc.lines \in Seq(Line) BY DocsAssumption DEF ScanInv, TypeOK
<1> QED BY <1>1 DEF ScanInv, TypeOK, gets, AtEnd

-----------------------------------------------------------------------------
LEMMA InitScanInv == Init => ScanInv
<1> SUFFICES ASSUME Init PROVE ScanInv OBVIOUS
<1>1. doc \in Docs /\ doc.lines \in Seq(Line) BY DocsAssumption DEF Init
<1>2. TypeOK
  <2>1. 0 \in 0..(Len(doc.lines) + 1) /\ 0 \in 0..BufferSize BY <1>1, BufferAssumption
  <2>2. <<>> \in Seq(Octets) /\ <<>> \in Seq(Element) OBVIOUS
  <2> QED BY <1>1, <2>1, <2>2 DEF Init, TypeOK
<1>3. BufferBounded BY BufferAssumption DEF Init, BufferBounded
<1> QED BY <1>2, <1>3 DEF Init, ScanInv, FillInv, NameInv, DoneInv

LEMMA SkipBlankScanInv == ScanInv /\ SkipBlank => ScanInv'
<1> SUFFICES ASSUME ScanInv, SkipBlank PROVE ScanInv' OBVIOUS
<1>1. line' \in 0..(Len(doc.lines) + 1) /\ line' > 0 BY NextLine DEF SkipBlank
<1> QED BY <1>1 DEF SkipBlank, Filling, buffered, filling, ScanInv, TypeOK, BufferBounded,
  FillInv, NameInv, DoneInv

LEMMA FindHeaderScanInv == ScanInv /\ FindHeader => ScanInv'
<1> SUFFICES ASSUME ScanInv, FindHeader PROVE ScanInv' OBVIOUS
<1>1. line' \in 0..(Len(doc.lines) + 1) /\ line' > 0 BY NextLine DEF FindHeader
<1>2. Filling BY DEF FindHeader
<1>3. state' \in {"HEADER", "CONTENT"} /\ (state' = "HEADER" <=> name' = <<>>)
  <2>1. state = "HEADER" /\ name = <<>> BY DEF FindHeader, ScanInv, NameInv
  <2>2. CASE int_match_header(Current)
    <3>1. state' = "CONTENT" /\ name' = << Current.name >> BY <2>2 DEF FindHeader
    <3>2. name' # <<>> BY <3>1
    <3> QED BY <3>1, <3>2
  <2>3. CASE ~int_match_header(Current) BY <2>1, <2>3 DEF FindHeader
  <2> QED BY <2>2, <2>3
<1>4. name' \in {<<>>} \cup {<< n >> : n \in {doc.lines[i].name : i \in DOMAIN doc.lines}}
  BY <1>2, CurrentLine DEF FindHeader, ScanInv, TypeOK
<1>5. /\ UNCHANGED << doc, buffer, eof, pc, total, out, der, got, decoded, status >>
      /\ state = "HEADER" /\ name = <<>> BY DEF FindHeader, filling, ScanInv, NameInv
<1>6. TypeOK' BY <1>1, <1>3, <1>4, <1>5 DEF ScanInv, TypeOK
<1>7. FillInv' /\ BufferBounded' BY <1>1, <1>2, <1>5 DEF ScanInv, FillInv, BufferBounded, Filling
<1>8. NameInv' /\ DoneInv' BY <1>2, <1>3, <1>5 DEF ScanInv, NameInv, DoneInv, FillInv, Filling
<1> QED BY <1>6, <1>7, <1>8 DEF ScanInv

LEMMA ContentEndsScanInv == ScanInv /\ ContentEnds => ScanInv'
  BY DEF ContentEnds, Filling, filling, ScanInv, TypeOK, BufferBounded, FillInv, NameInv, DoneInv

LEMMA DecodeLineScanInv == ScanInv /\ DecodeLine => ScanInv'
<1> SUFFICES ASSUME ScanInv, DecodeLine PROVE ScanInv' OBVIOUS
<1>1. Filling /\ state = "CONTENT" BY DEF DecodeLine
<1>2. /\ UNCHANGED << doc, state, name, buffer, eof, pc, der, got, decoded, status >>
  BY DEF DecodeLine, buffered
<1>3. line' \in 0..(Len(doc.lines) + 1) /\ line' > 0
  <2>1. line \in 0..(Len(doc.lines) + 1) /\ line > 0
    BY <1>1 DEF ScanInv, TypeOK, FillInv, Filling
  <2> QED BY <2>1, NextLine DEF DecodeLine, LineAfter
<1>4. /\ total \in Nat /\ total < BufferSize /\ 4 * Len(out) <= 3 * total
      /\ out \in Seq(Octets) /\ pc = "fill" BY <1>1 DEF ScanInv, TypeOK, FillInv, Filling
<1>5. /\ Current.chars \in Nat /\ Current.chars <= LineSize
      /\ Current.octets \in Seq(Octets)
      /\ 4 * Len(Current.octets) <= 3 * Current.chars BY <1>1, CurrentLine
<1>6. /\ out' \in Seq(Octets) /\ Len(out') = Len(out) + Len(Current.octets)
      /\ total' = total + Current.chars BY <1>4, <1>5 DEF DecodeLine
<1>7. Len(out) \in Nat /\ Len(Current.octets) \in Nat BY <1>4, <1>5
<1>8. total' \in Nat /\ total' < BufferSize + LineSize /\ 4 * Len(out') <= 3 * total'
  <2>1. BufferSize \in Nat /\ LineSize \in Nat BY BufferAssumption
  <2>2. total + Current.chars \in Nat /\ total + Current.chars < BufferSize + LineSize
    BY <1>4, <1>5, <2>1
  <2>3. 4 * (Len(out) + Len(Current.octets)) <= 3 * (total + Current.chars) BY <1>4, <1>5, <1>7
  <2> QED BY <1>6, <2>2, <2>3
<1>9. TypeOK' BY <1>2, <1>3, <1>6, <1>8 DEF ScanInv, TypeOK
<1>10. FillInv' /\ BufferBounded'
  BY <1>1, <1>2, <1>3, <1>8 DEF ScanInv, FillInv, BufferBounded, Filling
<1>11. NameInv' /\ DoneInv' BY <1>1, <1>2 DEF ScanInv, NameInv, DoneInv
<1> QED BY <1>9, <1>10, <1>11 DEF ScanInv

LEMMA FindFooterScanInv == ScanInv /\ FindFooter => ScanInv'
<1> SUFFICES ASSUME ScanInv, FindFooter PROVE ScanInv' OBVIOUS
<1>1. Filling /\ state = "FOOTER" BY DEF FindFooter
<1>2. UNCHANGED << doc, name, buffer, eof, pc, total, out, der, got, decoded, status >>
  BY DEF FindFooter, filling
<1>3. CASE StartsWithDash(Current) /\ int_match_footer(Current)
  <2>1. state' = "DONE" /\ line' = line BY <1>3 DEF FindFooter
  <2>2. /\ line' \in DOMAIN doc'.lines
        /\ doc'.lines[line'].kind = "end" /\ IsPrefix(doc'.lines[line'].name, name'[1])
    BY <1>1, <1>2, <1>3, <2>1, CurrentLine DEF int_match_footer, Current
  <2>3. pc' = "fill" /\ ~eof' BY <1>1, <1>2 DEF Filling, ScanInv, FillInv
  <2> QED BY <1>1, <1>2, <2>1, <2>2, <2>3
    DEF ScanInv, TypeOK, BufferBounded, FillInv, NameInv, DoneInv, Current
<1>4. CASE ~(StartsWithDash(Current) /\ int_match_footer(Current))
  <2>1. state' = state /\ line' \in 0..(Len(doc.lines) + 1) /\ line' > 0
    BY <1>4, NextLine DEF FindFooter
  <2> QED BY <1>1, <1>2, <2>1 DEF ScanInv, TypeOK, BufferBounded, FillInv, NameInv, DoneInv
<1> QED BY <1>3, <1>4

LEMMA FillSucceedsScanInv == ScanInv /\ FillSucceeds => ScanInv'
<1> SUFFICES ASSUME ScanInv, FillSucceeds PROVE ScanInv' OBVIOUS
<1>1. /\ pc = "fill" /\ pc' = "read"
      /\ UNCHANGED << doc, line, state, name, total, out, der, got, decoded, status >>
      /\ eof' = (state = "DONE" \/ AtEnd)
      /\ buffer' = IF AtEnd /\ state = "HEADER" THEN <<>> ELSE out
      /\ ~(AtEnd /\ state \in {"CONTENT", "FOOTER"})
  BY DEF FillSucceeds, FillEnds, filling, EofAfterFill
<1>2. /\ total \in Nat /\ total < BufferSize + LineSize /\ 4 * Len(out) <= 3 * total
      /\ out \in Seq(Octets) /\ (out # <<>> => state # "HEADER")
  BY <1>1 DEF ScanInv, TypeOK, FillInv
<1>3. buffer' = <<>> \/ buffer' = out BY <1>1
<1>4. TypeOK' BY <1>1, <1>2, <1>3 DEF ScanInv, TypeOK
<1>5. BufferBounded'
  <2>1. Len(out) \in Nat /\ Len(<<>>) = 0 BY <1>2
  <2> QED BY <1>2, <1>3, <2>1, BufferAssumption DEF BufferBounded
<1>6. FillInv' BY <1>1 DEF FillInv
<1>7. NameInv' BY <1>1, <1>2, <1>3 DEF ScanInv, NameInv
<1>8. DoneInv'
  <2>1. state \in {"HEADER", "CONTENT", "FOOTER", "DONE"} BY DEF ScanInv, TypeOK
  <2> QED BY <1>1, <2>1 DEF ScanInv, DoneInv, Current
<1> QED BY <1>4, <1>5, <1>6, <1>7, <1>8 DEF ScanInv

LEMMA FillFailsScanInv == ScanInv /\ FillFails => ScanInv'
  BY DEF FillFails, buffered, filling, ScanInv, TypeOK, BufferBounded, FillInv, NameInv, DoneInv,
    Current

-----------------------------------------------------------------------------
LEMMA FillScanInv == ScanInv /\ Fill => ScanInv'
<1> SUFFICES ASSUME ScanInv, Fill PROVE ScanInv' OBVIOUS
<1>1. /\ pc = "read" /\ pc' = "fill" /\ buffer = <<>> /\ ~eof
      /\ total' = 0 /\ out' = <<>>
      /\ UNCHANGED << doc, state, name, buffer, eof, der, got, decoded, status >>
  BY DEF Fill, Reading, buffered
<1>2. line' \in 0..(Len(doc.lines) + 1) /\ line' > 0 BY NextLine DEF Fill
<1>3. state # "DONE" BY <1>1 DEF ScanInv, DoneInv
<1>4. TypeOK' BY <1>1, <1>2 DEF ScanInv, TypeOK
<1>5. FillInv' /\ BufferBounded'
  BY <1>1, <1>2, BufferAssumption DEF ScanInv, FillInv, BufferBounded
<1>6. NameInv' /\ DoneInv' BY <1>1, <1>3 DEF ScanInv, NameInv, DoneInv
<1> QED BY <1>4, <1>5, <1>6 DEF ScanInv

LEMMA ConsumeScanInv == ScanInv /\ int_consume_bytes => ScanInv'
<1> SUFFICES ASSUME ScanInv, int_consume_bytes PROVE ScanInv' OBVIOUS
<1>1. /\ pc = "read" /\ buffer # <<>>
      /\ der' = der \o SubSeq(buffer, 1, ToRead)
      /\ buffer' = SubSeq(buffer, ToRead + 1, Len(buffer))
      /\ got' = got + ToRead
      /\ UNCHANGED << doc, line, state, name, eof, pc, total, out, decoded, status >>
  BY DEF int_consume_bytes, Reading, filling
<1>2. buffer \in Seq(Octets) /\ der \in Seq(Octets) /\ got \in 0..BufferSize
  BY DEF ScanInv, TypeOK
<1>3. /\ Len(buffer) \in Nat
      /\ ToRead \in 0..Len(buffer) /\ got + ToRead \in 0..BufferSize
  BY <1>2, BufferAssumption DEF ToRead
<1>4. /\ SubSeq(buffer, 1, ToRead) \in Seq(Octets)
      /\ buffer' \in Seq(Octets) /\ Len(buffer') <= Len(buffer) /\ Len(buffer') \in Nat
  BY <1>1, <1>2, <1>3
<1>5. der' \in Seq(Octets) /\ name # <<>> BY <1>1, <1>2, <1>4 DEF ScanInv, NameInv
<1>6. TypeOK' BY <1>1, <1>3, <1>4, <1>5 DEF ScanInv, TypeOK
<1>7. BufferBounded' BY <1>3, <1>4, BufferAssumption DEF ScanInv, BufferBounded
<1>8. FillInv' /\ NameInv' /\ DoneInv'
  BY <1>1, <1>5 DEF ScanInv, FillInv, NameInv, DoneInv, Current
<1> QED BY <1>6, <1>7, <1>8 DEF ScanInv

LEMMA ReadReturnsScanInv == ScanInv /\ ReadReturns => ScanInv'
  BY BufferAssumption
    DEF ReadReturns, buffered, filling, ScanInv, TypeOK, BufferBounded, FillInv, NameInv, DoneInv,
    Current

\* An element with octets ends at its footer, and its name is known.
LEMMA ElementAtFooter ==
  ASSUME ScanInv, NextElement
  PROVE  /\ state = "DONE" /\ line \in DOMAIN doc.lines
         /\ Current.kind = "end" /\ IsPrefix(Current.name, name[1])
         /\ name \in {<< n >> : n \in {doc.lines[i].name : i \in DOMAIN doc.lines}}
<1>1. der # <<>> /\ eof BY DEF NextElement, StreamEnds
<1>2. name # <<>> /\ state # "HEADER" BY <1>1 DEF ScanInv, NameInv
<1>3. state = "DONE" BY <1>1, <1>2 DEF ScanInv, DoneInv
<1> QED BY <1>2, <1>3 DEF ScanInv, DoneInv, TypeOK

LEMMA NextElementScanInv == ScanInv /\ NextElement => ScanInv'
<1> SUFFICES ASSUME ScanInv, NextElement PROVE ScanInv' OBVIOUS
<1>1. /\ decoded' = Append(decoded, [name |-> name[1], der |-> der])
      /\ der' = <<>> /\ state' = "HEADER" /\ name' = <<>> /\ buffer' = <<>> /\ eof' = FALSE
      /\ UNCHANGED << doc, line, pc, total, out, got, status >>
      /\ pc = "read" BY DEF NextElement, Continued, StreamEnds, Reading, filling
<1>2. [name |-> name[1], der |-> der] \in Element
  <2>1. PICK i \in DOMAIN doc.lines : name = << doc.lines[i].name >> BY ElementAtFooter
  <2>2. doc.lines[i] \in Line BY DocsAssumption DEF ScanInv, TypeOK, LineSound
  <2>3. name[1] \in Name BY <2>1, <2>2 DEF Line
  <2> QED BY <2>3 DEF ScanInv, TypeOK, Element
<1>3. decoded' \in Seq(Element) BY <1>1, <1>2 DEF ScanInv, TypeOK
<1>4. TypeOK'
  <2>1. <<>> \in Seq(Octets) OBVIOUS
  <2>2. /\ buffer' \in Seq(Octets) /\ der' \in Seq(Octets) /\ eof' \in BOOLEAN
        /\ name' \in {<<>>} /\ state' \in {"HEADER", "CONTENT", "FOOTER", "DONE"} BY <1>1, <2>1
  <2> QED BY <1>1, <1>3, <2>2 DEF ScanInv, TypeOK
<1>5. BufferBounded' BY <1>1, BufferAssumption DEF BufferBounded
<1>6. FillInv' /\ NameInv' /\ DoneInv' BY <1>1 DEF FillInv, NameInv, DoneInv
<1> QED BY <1>4, <1>5, <1>6 DEF ScanInv

LEMMA DecodeEndsScanInv == ScanInv /\ DecodeEnds => ScanInv'
  BY DEF DecodeEnds, buffered, filling, ScanInv, TypeOK, BufferBounded, FillInv, NameInv, DoneInv,
    Current

LEMMA NextScanInv == ScanInv /\ [Next]_vars => ScanInv'
<1>1. ScanInv /\ UNCHANGED vars => ScanInv'
  BY DEF vars, buffered, filling, ScanInv, TypeOK, BufferBounded, FillInv, NameInv, DoneInv,
    Current
<1> QED BY <1>1, SkipBlankScanInv, FindHeaderScanInv, ContentEndsScanInv,
  DecodeLineScanInv, FindFooterScanInv,
  FillSucceedsScanInv, FillFailsScanInv, FillScanInv, ConsumeScanInv, ReadReturnsScanInv,
  NextElementScanInv, DecodeEndsScanInv DEF Next

-----------------------------------------------------------------------------
(* The lines of a text.                                                    *)

\* What holds of the end of a text, and of a line if it holds of all lines
\* behind it, holds of all.
LEMMA Backwards ==
  ASSUME NEW n \in Nat, NEW S, n \in S,
         \A p \in 1..(n - 1) : (\A q \in (p + 1)..n : q \in S) => p \in S
  PROVE  \A p \in 1..n : p \in S
<1> SUFFICES ASSUME NEW p \in 1..n, p \notin S
             PROVE  FALSE
  OBVIOUS
<1> DEFINE T == {m \in 0..(n - 1) : n - m \notin S}
<1>1. n - (n - p) = p /\ n - p \in 0..(n - 1) OBVIOUS
<1>2. T \subseteq Nat /\ T # {}
  <2>1. n - p \in T
    <3> DEFINE k == n - p
    <3>1. k \in 0..(n - 1) /\ n - k = p BY <1>1
    <3> HIDE DEF k
    <3>2. k \in T BY <3>1
    <3> QED BY <3>2 DEF k
  <2>2. T \subseteq Nat OBVIOUS
  <2> HIDE DEF T
  <2> QED BY <2>1, <2>2
<1>3. PICK m \in T : \A k \in T : m <= k BY <1>2, FirstOfNumbers
<1>4. ASSUME NEW q \in ((n - m) + 1)..n
      PROVE  q \in S
  <2>1. n - q \in 0..(n - 1) /\ n - q < m /\ n - (n - q) = q BY <1>3, <1>4
  <2> QED BY <1>3, <2>1
<1>5. n - m \in 1..(n - 1) \/ n - m = n BY <1>3
<1> QED BY <1>3, <1>4, <1>5

LEMMA FirstFound ==
  ASSUME NEW n \in Nat, NEW p \in 1..(n + 1), NEW S, S \subseteq p..n
  PROVE  /\ Min(S \cup {n + 1}) \in p..(n + 1)
         /\ Min(S \cup {n + 1}) # n + 1 => Min(S \cup {n + 1}) \in S
         /\ p \in S => Min(S \cup {n + 1}) = p
<1>1. S \cup {n + 1} \subseteq Nat /\ S \cup {n + 1} # {} OBVIOUS
<1>2. \E i \in S \cup {n + 1} : \A j \in S \cup {n + 1} : i <= j BY <1>1, FirstOfNumbers
<1>3. /\ Min(S \cup {n + 1}) \in S \cup {n + 1}
      /\ \A j \in S \cup {n + 1} : Min(S \cup {n + 1}) <= j BY <1>2 DEF Min
<1> DEFINE f == Min(S \cup {n + 1})
<1> HIDE DEF f
<1>4. f \in S \cup {n + 1} /\ \A j \in S \cup {n + 1} : f <= j BY <1>3 DEF f
<1>5. f \in p..(n + 1) /\ (p \in S => f = p) BY <1>4
<1> QED BY <1>4, <1>5 DEF f

\* A line is the next header, the end of the content or the next footer, or
\* these are looked for behind it.
LEMMA ScannedFrom ==
  ASSUME NEW lines \in Seq(Line), NEW p \in 1..EndOf(lines), NEW n
  PROVE  /\ HeaderFrom(lines, p) \in p..EndOf(lines)
         /\ DashFrom(lines, p) \in p..EndOf(lines)
         /\ FooterFrom(lines, p, n) \in p..EndOf(lines)
         /\ p # EndOf(lines) =>
              /\ HeaderFrom(lines, p) =
                   IF lines[p].kind = "begin" THEN p ELSE HeaderFrom(lines, p + 1)
              /\ DashFrom(lines, p) =
                   IF StartsWithDash(lines[p]) THEN p ELSE DashFrom(lines, p + 1)
              /\ FooterFrom(lines, p, n) =
                   IF lines[p].kind = "end" /\ IsPrefix(lines[p].name, n) THEN p
                   ELSE FooterFrom(lines, p + 1, n)
<1> DEFINE e == Len(lines)
<1>1. e \in Nat /\ p \in 1..(e + 1) BY DEF EndOf
<1> HIDE DEF e
<1>2. ASSUME NEW S, NEW T, S \subseteq p..e, p # e + 1 => T = S \ {p}
      PROVE  /\ Min(S \cup {e + 1}) \in p..(e + 1)
             /\ p # e + 1 => Min(S \cup {e + 1}) = IF p \in S THEN p ELSE Min(T \cup {e + 1})
  <2>1. p # e + 1 /\ p \notin S => S = T BY <1>2
  <2> QED BY <1>1, <1>2, <2>1, FirstFound
<1>3. p # e + 1 => p \in p..e /\ \A q : q \in (p + 1)..e <=> q \in p..e /\ q # p BY <1>1
<1>4. /\ HeaderFrom(lines, p) \in p..(e + 1)
      /\ p # e + 1 => HeaderFrom(lines, p) =
                        IF lines[p].kind = "begin" THEN p ELSE HeaderFrom(lines, p + 1)
  <2> DEFINE S == {q \in p..e : lines[q].kind = "begin"}
             T == {q \in (p + 1)..e : lines[q].kind = "begin"}
  <2>1. S \subseteq p..e /\ (p # e + 1 => T = S \ {p} /\ (p \in S <=> lines[p].kind = "begin"))
    BY <1>3
  <2>2. /\ HeaderFrom(lines, p) = Min(S \cup {e + 1})
        /\ HeaderFrom(lines, p + 1) = Min(T \cup {e + 1}) BY DEF HeaderFrom, EndOf, e
  <2> HIDE DEF S, T
  <2>3. /\ Min(S \cup {e + 1}) \in p..(e + 1)
        /\ p # e + 1 => Min(S \cup {e + 1}) = IF p \in S THEN p ELSE Min(T \cup {e + 1})
    BY <1>2, <2>1
  <2> QED BY <2>1, <2>2, <2>3
<1>5. /\ DashFrom(lines, p) \in p..(e + 1)
      /\ p # e + 1 => DashFrom(lines, p) =
                        IF StartsWithDash(lines[p]) THEN p ELSE DashFrom(lines, p + 1)
  <2> DEFINE S == {q \in p..e : StartsWithDash(lines[q])}
             T == {q \in (p + 1)..e : StartsWithDash(lines[q])}
  <2>1. S \subseteq p..e /\ (p # e + 1 => T = S \ {p} /\ (p \in S <=> StartsWithDash(lines[p])))
    BY <1>3
  <2>2. /\ DashFrom(lines, p) = Min(S \cup {e + 1})
        /\ DashFrom(lines, p + 1) = Min(T \cup {e + 1}) BY DEF DashFrom, EndOf, e
  <2> HIDE DEF S, T
  <2>3. /\ Min(S \cup {e + 1}) \in p..(e + 1)
        /\ p # e + 1 => Min(S \cup {e + 1}) = IF p \in S THEN p ELSE Min(T \cup {e + 1})
    BY <1>2, <2>1
  <2> QED BY <2>1, <2>2, <2>3
<1>6. /\ FooterFrom(lines, p, n) \in p..(e + 1)
      /\ p # e + 1 => FooterFrom(lines, p, n) =
                        IF lines[p].kind = "end" /\ IsPrefix(lines[p].name, n) THEN p
                        ELSE FooterFrom(lines, p + 1, n)
  <2> DEFINE F(q) == lines[q].kind = "end" /\ IsPrefix(lines[q].name, n)
             S == {q \in p..e : F(q)}
             T == {q \in (p + 1)..e : F(q)}
  <2>1. S \subseteq p..e /\ (p # e + 1 => T = S \ {p} /\ (p \in S <=> F(p)))
    <3> HIDE DEF F
    <3> QED BY <1>3
  <2>2. /\ FooterFrom(lines, p, n) = Min(S \cup {e + 1})
        /\ FooterFrom(lines, p + 1, n) = Min(T \cup {e + 1}) BY DEF FooterFrom, EndOf, e
  <2> HIDE DEF S, T
  <2>3. /\ Min(S \cup {e + 1}) \in p..(e + 1)
        /\ p # e + 1 => Min(S \cup {e + 1}) = IF p \in S THEN p ELSE Min(T \cup {e + 1})
    BY <1>2, <2>1
  <2> QED BY <2>1, <2>2, <2>3
<1> QED BY <1>4, <1>5, <1>6 DEF EndOf, e

-----------------------------------------------------------------------------
(* The content of an element and the elements of a text are recursive      *)
(* functions, from the end of the text to its beginning.                   *)

ContentAt(content, lines, p) ==
  IF p = EndOf(lines) \/ StartsWithDash(lines[p]) THEN <<>>
  ELSE lines[p].octets \o content[p + 1]

TextAt(texts, lines, p) ==
  LET h == HeaderFrom(lines, p)
      n == lines[h].name
  IN  IF h = EndOf(lines) THEN Consists(<<>>, FALSE)
      ELSE Closed(texts, lines, n, ContentFrom(lines)[h + 1],
                  FooterFrom(lines, DashFrom(lines, h + 1), n))

\* The same induction where only the next line matters.
LEMMA Steps ==
  ASSUME NEW n \in Nat, NEW S,
         n + 1 \in S, \A q \in 1..n : q + 1 \in S => q \in S
  PROVE  \A q \in 1..(n + 1) : q \in S
<1>1. ASSUME NEW p \in 1..((n + 1) - 1), \A q \in (p + 1)..(n + 1) : q \in S
      PROVE  p \in S
  BY <1>1
<1> QED BY <1>1, Backwards

LEMMA ContentExists ==
  ASSUME NEW lines \in Seq(Line)
  PROVE  \E f : f = [p \in 1..EndOf(lines) |-> ContentAt(f, lines, p)]
<1> DEFINE n == Len(lines)
           FromOn(f, q) == \A p \in q..(n + 1) : f[p] = ContentAt(f, lines, p)
           IsFcn(f) == f = [p \in 1..(n + 1) |-> f[p]]
           S == {q \in 1..(n + 1) : \E f : IsFcn(f) /\ FromOn(f, q)}
<1>1. n \in Nat /\ EndOf(lines) = n + 1 BY DEF EndOf
<1> HIDE DEF n
<1>2. ASSUME NEW q \in 1..(n + 1), NEW f, IsFcn(f), FromOn(f, q + 1)
      PROVE  q \in S
  <2> DEFINE g == [p \in 1..(n + 1) |-> IF p = q THEN ContentAt(f, lines, q) ELSE f[p]]
  <2>1. g[q] = ContentAt(f, lines, q) /\ \A p \in (q + 1)..(n + 1) : g[p] = f[p] BY <1>1
  <2>2. IsFcn(g) BY DEF g
  <2> HIDE DEF g
  <2>3. ASSUME NEW p \in q..(n + 1)
        PROVE  ContentAt(g, lines, p) = ContentAt(f, lines, p)
    <3>1. p # n + 1 => p + 1 \in (q + 1)..(n + 1) BY <1>1
    <3>2. p # n + 1 => g[p + 1] = f[p + 1] BY <2>1, <3>1
    <3> QED BY <1>1, <3>2 DEF ContentAt
  <2>4. ASSUME NEW p \in q..(n + 1)
        PROVE  g[p] = ContentAt(g, lines, p)
    <3>1. p = q \/ p \in (q + 1)..(n + 1) BY <1>1
    <3> QED BY <1>2, <2>1, <2>3, <3>1
  <2> QED BY <2>2, <2>4
<1>3. n + 1 \in S
  <2>1. IsFcn([p \in 1..(n + 1) |-> 0]) OBVIOUS
  <2>2. \A f : FromOn(f, (n + 1) + 1) BY <1>1
  <2>3. n + 1 \in 1..(n + 1) BY <1>1
  <2> HIDE DEF S, IsFcn, FromOn
  <2> QED BY <1>2, <2>1, <2>2, <2>3
<1>4. \A q \in 1..n : q + 1 \in S => q \in S
  <2> TAKE q \in 1..n
  <2> HAVE q + 1 \in S
  <2>1. q \in 1..(n + 1) BY <1>1
  <2>2. PICK f : IsFcn(f) /\ FromOn(f, q + 1) OBVIOUS
  <2> HIDE DEF S, IsFcn, FromOn
  <2> QED BY <1>2, <2>1, <2>2
<1>5. 1 \in S
  <2>1. 1 \in 1..(n + 1) BY <1>1
  <2> HIDE DEF S
  <2> QED BY <1>1, <1>3, <1>4, <2>1, Steps
<1>6. PICK f : IsFcn(f) /\ FromOn(f, 1) BY <1>5
<1>7. f = [p \in 1..(n + 1) |-> ContentAt(f, lines, p)] BY <1>6
<1> QED BY <1>1, <1>7

LEMMA ContentDefined ==
  ASSUME NEW lines \in Seq(Line), NEW p \in 1..EndOf(lines)
  PROVE  /\ ContentFrom(lines)[p] = ContentAt(ContentFrom(lines), lines, p)
         /\ ContentFrom(lines)[p] \in Seq(Octets)
<1> DEFINE n == Len(lines)
           c == ContentFrom(lines)
           S == {q \in 1..(n + 1) : c[q] \in Seq(Octets)}
<1>1. n \in Nat /\ EndOf(lines) = n + 1 BY DEF EndOf
<1>2. c = CHOOSE f : f = [q \in 1..EndOf(lines) |-> ContentAt(f, lines, q)]
  BY Zenon DEF ContentFrom, ContentAt
<1> HIDE DEF c
<1>3. c = [q \in 1..EndOf(lines) |-> ContentAt(c, lines, q)] BY <1>2, ContentExists
<1>4. \A q \in 1..(n + 1) : c[q] = ContentAt(c, lines, q) BY <1>1, <1>3
<1>5. n + 1 \in S
  <2>1. n + 1 \in 1..(n + 1) BY <1>1
  <2>2. ContentAt(c, lines, n + 1) = <<>> BY <1>1 DEF ContentAt
  <2> HIDE DEF n
  <2>3. c[n + 1] = ContentAt(c, lines, n + 1) BY <1>4, <2>1
  <2>4. c[n + 1] \in Seq(Octets)
    <3>1. <<>> \in Seq(Octets) OBVIOUS
    <3> QED BY <2>2, <2>3, <3>1
  <2> QED BY <2>1, <2>4
<1>6. ASSUME NEW q \in 1..n, q + 1 \in S
      PROVE  q \in S
  <2>1. q \in 1..(n + 1) /\ c[q + 1] \in Seq(Octets) /\ lines[q].octets \in Seq(Octets)
    <3>1. lines[q] \in Line BY <1>6
    <3> QED BY <1>1, <1>6, <3>1 DEF Line
  <2>2. ContentAt(c, lines, q) \in Seq(Octets) BY <2>1 DEF ContentAt
  <2> QED BY <1>4, <2>1, <2>2
<1>7. p \in S
  <2> HIDE DEF S
  <2> QED BY <1>1, <1>5, <1>6, Steps
<1> QED BY <1>1, <1>4, <1>7 DEF c

Consisting == [elements : Seq(Element), cut : BOOLEAN]

LEMMA ClosedTyped ==
  ASSUME NEW lines \in Seq(Line), NEW texts, NEW n \in Name, NEW content \in Seq(Octets),
         NEW f \in 1..EndOf(lines), f # EndOf(lines) => texts[f + 1] \in Consisting
  PROVE  Closed(texts, lines, n, content, f) \in Consisting
<1>1. << [name |-> n, der |-> content] >> \in Seq(Element) BY DEF Element
<1>2. <<>> \in Seq(Element) OBVIOUS
<1>3. ASSUME f # EndOf(lines)
      PROVE  << [name |-> n, der |-> content] >> \o texts[f + 1].elements \in Seq(Element)
  BY <1>1, <1>3 DEF Consisting
<1> QED BY <1>2, <1>3 DEF Closed, Consisting, Consists

LEMMA TextIsLocal ==
  ASSUME NEW lines \in Seq(Line), NEW p \in 1..EndOf(lines), NEW f, NEW g,
         \A r \in (p + 1)..EndOf(lines) : f[r] = g[r] /\ f[r] \in Consisting
  PROVE  /\ TextAt(f, lines, p) = TextAt(g, lines, p)
         /\ TextAt(f, lines, p) \in Consisting
<1> DEFINE e == EndOf(lines)
           h == HeaderFrom(lines, p)
           n == lines[h].name
           d == DashFrom(lines, h + 1)
           t == FooterFrom(lines, d, n)
<1>1. e \in Nat /\ e > 0 /\ e = Len(lines) + 1 /\ h \in p..e BY ScannedFrom DEF EndOf
<1>2. CASE h = e
  <2>1. Consists(<<>>, FALSE) \in Consisting BY DEF Consists, Consisting
  <2> QED BY <1>2, <2>1 DEF TextAt
<1>3. CASE h # e
  <2>1. h + 1 \in 1..e /\ h \in 1..Len(lines) BY <1>1, <1>3
  <2> HIDE DEF h
  <2>2. d \in (h + 1)..e BY <2>1, ScannedFrom
  <2>3. d \in 1..e BY <2>1, <2>2
  <2> HIDE DEF d
  <2>4. t \in d..e BY <2>3, ScannedFrom
  <2>5. n \in Name
    <3>1. lines[h] \in Line BY <2>1
    <3> QED BY <3>1 DEF Line
  <2>6. ContentFrom(lines)[h + 1] \in Seq(Octets) BY <2>1, ContentDefined
  <2> HIDE DEF t, n
  <2>7. t \in 1..e /\ (t # e => t + 1 \in (p + 1)..e) BY <1>1, <2>1, <2>2, <2>4
  <2>8. t # e => f[t + 1] = g[t + 1] /\ f[t + 1] \in Consisting BY <2>7
  <2>9. Closed(f, lines, n, ContentFrom(lines)[h + 1], t) \in Consisting
    BY <2>5, <2>6, <2>7, <2>8, ClosedTyped
  <2>10. Closed(f, lines, n, ContentFrom(lines)[h + 1], t)
           = Closed(g, lines, n, ContentFrom(lines)[h + 1], t) BY <2>8 DEF Closed
  <2>11. \A F : TextAt(F, lines, p) = Closed(F, lines, n, ContentFrom(lines)[h + 1], t)
    BY <1>3 DEF TextAt, h, n, d, t
  <2> QED BY <2>9, <2>10, <2>11
<1> QED BY <1>2, <1>3

LEMMA TextExists ==
  ASSUME NEW lines \in Seq(Line)
  PROVE  \E f : f = [p \in 1..EndOf(lines) |-> TextAt(f, lines, p)]
<1> DEFINE n == Len(lines)
           FromOn(f, q) == \A p \in q..(n + 1) :
                           f[p] = TextAt(f, lines, p) /\ f[p] \in Consisting
           IsFcn(f) == f = [p \in 1..(n + 1) |-> f[p]]
           S == {q \in 1..(n + 1) : \E f : IsFcn(f) /\ FromOn(f, q)}
<1>1. n \in Nat /\ EndOf(lines) = n + 1 BY DEF EndOf
<1> HIDE DEF n
<1>2. ASSUME NEW q \in 1..(n + 1), NEW f, IsFcn(f), FromOn(f, q + 1)
      PROVE  q \in S
  <2> DEFINE g == [p \in 1..(n + 1) |-> IF p = q THEN TextAt(f, lines, q) ELSE f[p]]
  <2>1. g[q] = TextAt(f, lines, q) /\ \A p \in (q + 1)..(n + 1) : g[p] = f[p] BY <1>1
  <2>2. IsFcn(g) BY DEF g
  <2> HIDE DEF g
  <2>3. ASSUME NEW p \in q..(n + 1)
        PROVE  /\ TextAt(g, lines, p) = TextAt(f, lines, p)
               /\ TextAt(f, lines, p) \in Consisting
    <3>1. p \in 1..EndOf(lines) BY <1>1
    <3>2. \A r \in (p + 1)..EndOf(lines) : f[r] = g[r] /\ f[r] \in Consisting
      <4> SUFFICES ASSUME NEW r \in (p + 1)..(n + 1) PROVE f[r] = g[r] /\ f[r] \in Consisting
        BY <1>1
      <4>1. r \in (q + 1)..(n + 1) BY <1>1
      <4> QED BY <1>2, <2>1, <4>1
    <3> QED BY <3>1, <3>2, TextIsLocal
  <2>4. ASSUME NEW p \in q..(n + 1)
        PROVE  g[p] = TextAt(g, lines, p) /\ g[p] \in Consisting
    <3>1. p = q \/ p \in (q + 1)..(n + 1) BY <1>1
    <3> QED BY <1>2, <2>1, <2>3, <3>1
  <2> QED BY <2>2, <2>4
<1>3. n + 1 \in S
  <2>1. IsFcn([p \in 1..(n + 1) |-> 0]) OBVIOUS
  <2>2. \A f : FromOn(f, (n + 1) + 1) BY <1>1
  <2>3. n + 1 \in 1..(n + 1) BY <1>1
  <2> HIDE DEF S, IsFcn, FromOn
  <2> QED BY <1>2, <2>1, <2>2, <2>3
<1>4. \A q \in 1..n : q + 1 \in S => q \in S
  <2> TAKE q \in 1..n
  <2> HAVE q + 1 \in S
  <2>1. q \in 1..(n + 1) BY <1>1
  <2>2. PICK f : IsFcn(f) /\ FromOn(f, q + 1) OBVIOUS
  <2> HIDE DEF S, IsFcn, FromOn
  <2> QED BY <1>2, <2>1, <2>2
<1>5. 1 \in S
  <2>1. 1 \in 1..(n + 1) BY <1>1
  <2> HIDE DEF S
  <2> QED BY <1>1, <1>3, <1>4, <2>1, Steps
<1>6. PICK f : IsFcn(f) /\ FromOn(f, 1) BY <1>5
<1>7. f = [p \in 1..(n + 1) |-> TextAt(f, lines, p)] BY <1>6
<1> QED BY <1>1, <1>7

LEMMA TextDefined ==
  ASSUME NEW lines \in Seq(Line), NEW p \in 1..EndOf(lines)
  PROVE  /\ TextFrom(lines)[p] = TextAt(TextFrom(lines), lines, p)
         /\ TextFrom(lines)[p] \in Consisting
<1> DEFINE n == Len(lines)
           c == TextFrom(lines)
           S == {q \in 1..(n + 1) : c[q] \in Consisting}
<1>1. n \in Nat /\ EndOf(lines) = n + 1 BY DEF EndOf
<1>2. c = CHOOSE f : f = [q \in 1..EndOf(lines) |-> TextAt(f, lines, q)]
  BY Zenon DEF TextFrom, TextAt
<1> HIDE DEF c
<1>3. c = [q \in 1..EndOf(lines) |-> TextAt(c, lines, q)] BY <1>2, TextExists
<1>4. \A q \in 1..(n + 1) : c[q] = TextAt(c, lines, q) BY <1>1, <1>3
<1>5. ASSUME NEW q \in 1..(n + 1), \A r \in (q + 1)..(n + 1) : r \in S
      PROVE  q \in S
  <2>1. \A r \in (q + 1)..EndOf(lines) : c[r] = c[r] /\ c[r] \in Consisting BY <1>1, <1>5
  <2>2. TextAt(c, lines, q) \in Consisting BY <1>1, <2>1, TextIsLocal
  <2> QED BY <1>4, <2>2
<1>6. p \in S
  <2>1. n + 1 \in S
    <3>1. n + 1 \in 1..(n + 1) /\ \A r \in ((n + 1) + 1)..(n + 1) : r \in S BY <1>1
    <3> HIDE DEF S
    <3> QED BY <1>5, <3>1
  <2>2. \A q \in 1..((n + 1) - 1) : (\A r \in (q + 1)..(n + 1) : r \in S) => q \in S
    <3> HIDE DEF S
    <3> QED BY <1>1, <1>5
  <2> HIDE DEF S
  <2> QED BY <1>1, <2>1, <2>2, Backwards
<1> QED BY <1>1, <1>4, <1>6 DEF c

-----------------------------------------------------------------------------
(* No octet is lost or added: what was decoded and what the rest of the    *)
(* text consists of is the text.                                           *)

\* What the invariant says of the text, and of the line that is looked at.
LEMMA TextFacts ==
  ASSUME ScanInv
  PROVE  /\ doc.lines \in Seq(Line) /\ doc.elements \in Seq(Element) /\ doc.cut \in BOOLEAN
         /\ EndOf(doc.lines) = Len(doc.lines) + 1 /\ EndOf(doc.lines) \in Nat
         /\ AtEnd <=> line = EndOf(doc.lines)
         /\ line \in 0..EndOf(doc.lines)
         /\ gets \in 1..EndOf(doc.lines)
         /\ pc = "fill" => line \in 1..EndOf(doc.lines)
<1>1. doc.lines \in Seq(Line) /\ doc.elements \in Seq(Element) /\ doc.cut \in BOOLEAN
  BY DocsAssumption DEF ScanInv, TypeOK
<1> QED BY <1>1, NextLine DEF ScanInv, TypeOK, FillInv, EndOf, AtEnd, gets

\* The text from one line on: of an element that begins there, or from the next
\* line on.
LEMMA TextStep ==
  ASSUME NEW lines \in Seq(Line), NEW p \in 1..EndOf(lines)
  PROVE  /\ p = EndOf(lines) => TextFrom(lines)[p] = Consists(<<>>, FALSE)
         /\ p # EndOf(lines) =>
              TextFrom(lines)[p] =
                IF lines[p].kind = "begin"
                THEN Closed(TextFrom(lines), lines, lines[p].name, ContentFrom(lines)[p + 1],
                            FooterFrom(lines, DashFrom(lines, p + 1), lines[p].name))
                ELSE TextFrom(lines)[p + 1]
<1> DEFINE e == EndOf(lines)
           texts == TextFrom(lines)
<1>1. e \in Nat /\ e = Len(lines) + 1 BY DEF EndOf
<1>2. texts[p] = TextAt(texts, lines, p) BY TextDefined
<1>3. ASSUME p # e
      PROVE  texts[p + 1] = TextAt(texts, lines, p + 1)
  BY <1>1, <1>3, TextDefined
<1>4. ASSUME p # e
      PROVE  HeaderFrom(lines, p) =
               IF lines[p].kind = "begin" THEN p ELSE HeaderFrom(lines, p + 1)
  BY <1>4, ScannedFrom
<1>5. HeaderFrom(lines, p) \in p..e BY ScannedFrom
<1>6. CASE p = e BY <1>1, <1>2, <1>5, <1>6 DEF TextAt
<1>7. CASE p # e /\ lines[p].kind = "begin" BY <1>2, <1>4, <1>7 DEF TextAt
<1>8. CASE p # e /\ lines[p].kind # "begin" BY <1>2, <1>3, <1>4, <1>8 DEF TextAt
<1> QED BY <1>6, <1>7, <1>8

LEMMA ContentStep ==
  ASSUME NEW lines \in Seq(Line), NEW p \in 1..EndOf(lines)
  PROVE  /\ ContentFrom(lines)[p] \in Seq(Octets)
         /\ ContentFrom(lines)[p] =
              IF p = EndOf(lines) \/ StartsWithDash(lines[p]) THEN <<>>
              ELSE lines[p].octets \o ContentFrom(lines)[p + 1] BY ContentDefined DEF ContentAt

\* The part of the invariant that an open decoder keeps.
Together(d, elements, rest) ==
  Consists(d.elements, d.cut) = Consists(elements \o rest.elements, rest.cut)

\* While a line is looked at.
LEMMA FillingDue ==
  ASSUME ScanInv, Filling
  PROVE  /\ Due = line /\ line \in 1..Len(doc.lines) /\ gets = line + 1 /\ line # EndOf(doc.lines)
         /\ Taken = der \o out /\ pc = "fill" /\ status = "open"
         /\ state \in {"HEADER", "CONTENT", "FOOTER"}
         /\ Current = doc.lines[line] /\ LineSound(Current) /\ Current \in Line
         /\ der \in Seq(Octets) /\ out \in Seq(Octets)
         /\ line + 1 \in 1..EndOf(doc.lines) /\ line \in 1..EndOf(doc.lines)
         /\ total < BufferSize /\ ~eof
<1>1. /\ doc.lines \in Seq(Line)
      /\ \A i \in DOMAIN doc.lines : LineSound(doc.lines[i])
  BY DocsAssumption DEF ScanInv, TypeOK
<1>2. line \in DOMAIN doc.lines /\ line \in 1..Len(doc.lines) BY <1>1, CurrentLine
<1>3. total < BufferSize /\ state # "DONE" /\ pc = "fill" /\ status = "open" /\ ~AtEnd
  BY DEF Filling
<1>4. state \in {"HEADER", "CONTENT", "FOOTER"} /\ der \in Seq(Octets) /\ out \in Seq(Octets)
  BY <1>3 DEF ScanInv, TypeOK
<1>5. Current = doc.lines[line] /\ LineSound(Current) /\ Current \in Line
  BY <1>1, <1>2 DEF Current, LineSound
<1>6. EndOf(doc.lines) = Len(doc.lines) + 1 /\ Len(doc.lines) \in Nat BY <1>1 DEF EndOf
<1>7. Due = line /\ gets = line + 1 /\ Taken = der \o out /\ ~eof
  BY <1>3 DEF Due, gets, Taken, ScanInv, FillInv
<1> QED BY <1>2, <1>3, <1>4, <1>5, <1>6, <1>7

LEMMA SkipBlankRest == ScanInv /\ RestInv /\ SkipBlank => RestInv'
<1> SUFFICES ASSUME ScanInv, RestInv, SkipBlank
             PROVE  RestInv'
  OBVIOUS
<1> DEFINE lines == doc.lines
           texts == TextFrom(lines)
           n == name[1]
<1>1. Filling /\ Current.chars = 0 /\ line' = line + 1
      /\ UNCHANGED << doc, state, name, buffer, eof, pc, total, out, der, got, decoded, status >>
  BY FillingDue DEF SkipBlank, buffered, filling
<1>2. /\ Due = line /\ line \in 1..Len(lines) /\ line # EndOf(lines)
      /\ Taken = der \o out /\ pc = "fill" /\ status = "open"
      /\ state \in {"HEADER", "CONTENT", "FOOTER"}
      /\ Current = lines[line] /\ LineSound(Current)
      /\ der \in Seq(Octets) /\ out \in Seq(Octets)
      /\ line + 1 \in 1..EndOf(lines) /\ line \in 1..EndOf(lines)
      /\ total < BufferSize /\ ~eof BY <1>1, FillingDue
<1>3. lines \in Seq(Line) BY TextFacts
<1>4. Current.kind = "blank" /\ Current.octets = <<>>
  <2>1. Current.octets \in Seq(Octets) /\ 4 * Len(Current.octets) <= 0
    BY <1>1, <1>2 DEF LineSound, Line
  <2> QED BY <1>1, <1>2, <2>1 DEF LineSound
<1>5. Due' = line + 1 /\ Taken' = Taken BY <1>1, <1>2 DEF Due, Taken, Filling
<1>6. /\ texts[line] = texts[line + 1]
      /\ DashFrom(lines, line) = DashFrom(lines, line + 1)
      /\ FooterFrom(lines, line, n) = FooterFrom(lines, line + 1, n)
  BY <1>2, <1>3, <1>4, TextStep, ScannedFrom DEF StartsWithDash
<1>7. ContentFrom(lines)[line] = ContentFrom(lines)[line + 1]
  <2>1. ContentFrom(lines)[line + 1] \in Seq(Octets) BY <1>2, <1>3, ContentStep
  <2>2. ContentFrom(lines)[line] = <<>> \o ContentFrom(lines)[line + 1]
    BY <1>2, <1>3, <1>4, ContentStep DEF StartsWithDash
  <2> QED BY <2>1, <2>2
<1>8. Rest' = Rest BY <1>1, <1>2, <1>5, <1>6, <1>7 DEF Rest
<1>9. BufferSize \in Nat /\ total \in Nat BY BufferAssumption DEF ScanInv, TypeOK
<1> QED BY <1>1, <1>2, <1>8, <1>9 DEF RestInv

\* A step of a fill that decodes nothing and leaves the rest as it was.
LEMMA RestKept ==
  ASSUME ScanInv, RestInv, Filling, UNCHANGED << doc, buffer, eof, pc, der, decoded, status >>,
         Rest' = Rest, total' \in Nat, total' >= BufferSize => state' = "CONTENT" /\ ~AtEnd',
         state' # "HEADER" \/ total' < BufferSize
  PROVE  RestInv'
<1>1. pc = "fill" /\ ~eof BY FillingDue
<1> QED BY <1>1 DEF RestInv

LEMMA FindHeaderRest == ScanInv /\ RestInv /\ FindHeader => RestInv'
<1> SUFFICES ASSUME ScanInv, RestInv, FindHeader
             PROVE  RestInv'
  OBVIOUS
<1> DEFINE lines == doc.lines
           texts == TextFrom(lines)
<1>1. /\ Filling /\ state = "HEADER"
      /\ UNCHANGED << doc, buffer, eof, pc, total, out, der, got, decoded, status >>
  BY DEF FindHeader, filling
<1>2. /\ Due = line /\ line \in 1..Len(lines) /\ line # EndOf(lines) /\ gets = line + 1
      /\ pc = "fill" /\ Current = lines[line]
      /\ line + 1 \in 1..EndOf(lines) /\ line \in 1..EndOf(lines)
      /\ total < BufferSize BY <1>1, FillingDue
<1>3. line' = line + 1 BY <1>2 DEF FindHeader
<1>4. lines \in Seq(Line) BY TextFacts
<1>5. BufferSize \in Nat /\ total \in Nat BY BufferAssumption DEF ScanInv, TypeOK
<1>6. der = <<>> /\ out = <<>> BY <1>1, <1>2 DEF ScanInv, NameInv, FillInv
<1>7. Rest = texts[line] BY <1>1, <1>2 DEF Rest
<1>8. CASE int_match_header(Current)
  <2>1. state' = "CONTENT" /\ name'[1] = lines[line].name BY <1>2, <1>8 DEF FindHeader
  <2>2. Due' = line + 1 /\ Taken' = <<>> BY <1>1, <1>2, <1>3, <1>6, <2>1 DEF Due, Taken
  <2>3. ContentFrom(lines)[line + 1] \in Seq(Octets) BY <1>2, <1>4, ContentStep
  <2>4. Taken' \o ContentFrom(lines)[line + 1] = ContentFrom(lines)[line + 1] BY <2>2, <2>3
  <2>5. Rest' = Closed(texts, lines, lines[line].name, ContentFrom(lines)[line + 1],
                       FooterFrom(lines, DashFrom(lines, line + 1), lines[line].name))
    BY <1>1, <2>1, <2>2, <2>4 DEF Rest
  <2>6. Rest' = Rest BY <1>2, <1>4, <1>7, <1>8, <2>5, TextStep DEF int_match_header
  <2> QED BY <1>1, <1>2, <1>5, <2>1, <2>6, RestKept
<1>9. CASE ~int_match_header(Current)
  <2>1. state' = "HEADER" /\ name' = name BY <1>1, <1>9 DEF FindHeader
  <2>2. Due' = line + 1 BY <1>1, <1>2, <1>3, <2>1 DEF Due
  <2>3. Rest' = texts[line + 1] BY <1>1, <2>1, <2>2 DEF Rest
  <2>4. Rest' = Rest BY <1>2, <1>4, <1>7, <1>9, <2>3, TextStep DEF int_match_header
  <2> QED BY <1>1, <1>2, <1>5, <2>1, <2>4, RestKept
<1> QED BY <1>8, <1>9

LEMMA ContentEndsRest == ScanInv /\ RestInv /\ ContentEnds => RestInv'
<1> SUFFICES ASSUME ScanInv, RestInv, ContentEnds
             PROVE  RestInv'
  OBVIOUS
<1> DEFINE lines == doc.lines
           texts == TextFrom(lines)
           n == name[1]
<1>1. /\ Filling /\ state = "CONTENT" /\ state' = "FOOTER" /\ StartsWithDash(Current)
      /\ UNCHANGED << doc, line, name, buffer, eof, pc, total, out, der, got, decoded, status >>
  BY DEF ContentEnds, filling
<1>2. /\ Due = line /\ line # EndOf(lines)
      /\ pc = "fill" /\ Current = lines[line] /\ line \in 1..EndOf(lines)
      /\ total < BufferSize /\ der \in Seq(Octets) /\ out \in Seq(Octets) /\ Taken = der \o out
  BY <1>1, FillingDue
<1>3. lines \in Seq(Line) BY TextFacts
<1>4. BufferSize \in Nat /\ total \in Nat BY BufferAssumption DEF ScanInv, TypeOK
<1>5. Due' = line /\ Taken' = Taken BY <1>1, <1>2 DEF Due, Taken
<1>6. ContentFrom(lines)[line] = <<>> /\ DashFrom(lines, line) = line
  BY <1>1, <1>2, <1>3, ContentStep, ScannedFrom
<1>7. Taken \o ContentFrom(lines)[line] = Taken BY <1>2, <1>6
<1>8. Rest = Closed(texts, lines, n, Taken, FooterFrom(lines, line, n))
  BY <1>1, <1>2, <1>6, <1>7 DEF Rest
<1>9. Rest' = Closed(texts, lines, n, Taken, FooterFrom(lines, line, n)) BY <1>1, <1>5 DEF Rest
<1> QED BY <1>1, <1>2, <1>4, <1>8, <1>9, RestKept

LEMMA DecodeLineRest == ScanInv /\ RestInv /\ DecodeLine => RestInv'
<1> SUFFICES ASSUME ScanInv, RestInv, DecodeLine
             PROVE  RestInv'
  OBVIOUS
<1> DEFINE lines == doc.lines
           texts == TextFrom(lines)
           n == name[1]
           rest == ContentFrom(lines)[line + 1]
<1>1. /\ Filling /\ state = "CONTENT" /\ ~StartsWithDash(Current)
      /\ out' = out \o Current.octets
      /\ total' = total + Current.chars
      /\ line' = IF total' < BufferSize THEN gets ELSE line
      /\ UNCHANGED << doc, state, name, buffer, eof, pc, der, got, decoded, status >>
  BY DEF DecodeLine, buffered, LineAfter
<1>2. /\ Due = line /\ line \in 1..Len(lines) /\ line # EndOf(lines) /\ gets = line + 1
      /\ pc = "fill" /\ Current = lines[line] /\ Current \in Line
      /\ line + 1 \in 1..EndOf(lines) /\ line \in 1..EndOf(lines)
      /\ total < BufferSize /\ der \in Seq(Octets) /\ out \in Seq(Octets) /\ Taken = der \o out
  BY <1>1, FillingDue
<1>3. lines \in Seq(Line) /\ Len(lines) \in Nat /\ EndOf(lines) = Len(lines) + 1 BY TextFacts
<1>4. BufferSize \in Nat /\ total \in Nat /\ total' \in Nat /\ Current.octets \in Seq(Octets)
  <2>1. Current.chars \in Nat /\ Current.octets \in Seq(Octets) BY <1>2 DEF Line
  <2>2. BufferSize \in Nat /\ total \in Nat BY BufferAssumption DEF ScanInv, TypeOK
  <2> QED BY <1>1, <2>1, <2>2
<1>5. ~AtEnd' \/ total' < BufferSize BY <1>1, <1>2, <1>3 DEF AtEnd
<1>6. Due' = line + 1
  <2>1. CASE total' < BufferSize BY <1>1, <1>2, <2>1 DEF Due
  <2>2. CASE ~(total' < BufferSize)
    <3>1. line' = line /\ ~AtEnd' /\ Due' = gets' BY <1>1, <1>5, <2>2 DEF Due
    <3> QED BY <1>1, <3>1 DEF gets
  <2> QED BY <2>1, <2>2
<1>7. rest \in Seq(Octets) /\ ContentFrom(lines)[line] = Current.octets \o rest
  BY <1>1, <1>2, <1>3, ContentStep
<1>8. DashFrom(lines, line) = DashFrom(lines, line + 1) BY <1>1, <1>2, <1>3, ScannedFrom
<1>9. Taken' = der \o (out \o Current.octets) BY <1>1, <1>2 DEF Taken
<1> HIDE DEF rest
<1>10. Taken' \o rest = Taken \o ContentFrom(lines)[line]
  <2> DEFINE a == der
             b == out
             c == Current.octets
  <2>1. a \in Seq(Octets) /\ b \in Seq(Octets) /\ c \in Seq(Octets) /\ rest \in Seq(Octets)
    BY <1>2, <1>4, <1>7
  <2> HIDE DEF a, b, c
  <2>2. (a \o (b \o c)) \o rest = (a \o b) \o (c \o rest) BY <2>1
  <2> QED BY <1>2, <1>7, <1>9, <2>2 DEF a, b, c
<1>11. Rest = Closed(texts, lines, n, Taken \o ContentFrom(lines)[line],
                     FooterFrom(lines, DashFrom(lines, line), n)) BY <1>1, <1>2 DEF Rest
<1>12. Rest' = Closed(texts, lines, n, Taken' \o rest,
                      FooterFrom(lines, DashFrom(lines, line + 1), n))
  BY <1>1, <1>6 DEF Rest, rest
<1>13. Rest' = Rest BY <1>8, <1>10, <1>11, <1>12
<1> QED BY <1>1, <1>4, <1>5, <1>13, RestKept

LEMMA FindFooterRest == ScanInv /\ RestInv /\ FindFooter => RestInv'
<1> SUFFICES ASSUME ScanInv, RestInv, FindFooter
             PROVE  RestInv'
  OBVIOUS
<1> DEFINE lines == doc.lines
           texts == TextFrom(lines)
           n == name[1]
<1>1. /\ Filling /\ state = "FOOTER"
      /\ UNCHANGED << doc, name, buffer, eof, pc, total, out, der, got, decoded, status >>
  BY DEF FindFooter, filling
<1>2. /\ Due = line /\ line # EndOf(lines) /\ gets = line + 1
      /\ pc = "fill" /\ Current = lines[line]
      /\ line + 1 \in 1..EndOf(lines) /\ line \in 1..EndOf(lines) /\ total < BufferSize
  BY <1>1, FillingDue
<1>3. lines \in Seq(Line) BY TextFacts
<1>4. BufferSize \in Nat /\ total \in Nat BY BufferAssumption DEF ScanInv, TypeOK
<1>5. Taken' = Taken BY <1>1 DEF Taken
<1>6. Rest = Closed(texts, lines, n, Taken, FooterFrom(lines, line, n)) BY <1>1, <1>2 DEF Rest
<1>7. CASE StartsWithDash(Current) /\ int_match_footer(Current)
  <2>1. state' = "DONE" /\ line' = line BY <1>7 DEF FindFooter
  <2>2. FooterFrom(lines, line, n) = line BY <1>2, <1>3, <1>7, ScannedFrom DEF int_match_footer
  <2>3. Rest' = Closed(texts, lines, n, Taken, line) BY <1>1, <1>5, <2>1 DEF Rest
  <2> QED BY <1>1, <1>2, <1>4, <1>6, <2>1, <2>2, <2>3, RestKept
<1>8. CASE ~(StartsWithDash(Current) /\ int_match_footer(Current))
  <2>1. state' = "FOOTER" /\ line' = line + 1 BY <1>1, <1>2, <1>8 DEF FindFooter
  <2>2. FooterFrom(lines, line, n) = FooterFrom(lines, line + 1, n)
    BY <1>2, <1>3, <1>8, ScannedFrom DEF int_match_footer, StartsWithDash
  <2>3. Due' = line + 1 BY <1>1, <1>2, <2>1 DEF Due
  <2>4. Rest' = Closed(texts, lines, n, Taken, FooterFrom(lines, line + 1, n))
    BY <1>1, <1>5, <2>1, <2>3 DEF Rest
  <2> QED BY <1>1, <1>2, <1>4, <1>6, <2>1, <2>2, <2>4, RestKept
<1> QED BY <1>7, <1>8

LEMMA FillSucceedsRest == ScanInv /\ RestInv /\ FillSucceeds => RestInv'
<1> SUFFICES ASSUME ScanInv, RestInv, FillSucceeds
             PROVE  RestInv'
  OBVIOUS
<1>1. /\ pc = "fill" /\ pc' = "read" /\ status = "open"
      /\ UNCHANGED << doc, line, state, name, total, out, der, got, decoded, status >>
      /\ eof' = (state = "DONE" \/ AtEnd)
      /\ buffer' = IF AtEnd /\ state = "HEADER" THEN <<>> ELSE out
      /\ ~(AtEnd /\ state \in {"CONTENT", "FOOTER"})
      /\ state = "DONE" \/ total >= BufferSize \/ AtEnd
  BY DEF FillSucceeds, FillEnds, filling, EofAfterFill
<1>2. /\ state \in {"HEADER", "CONTENT", "FOOTER", "DONE"} /\ (out # <<>> => state # "HEADER")
      /\ total \in Nat /\ BufferSize \in Nat
  BY <1>1, BufferAssumption DEF ScanInv, TypeOK, FillInv
<1>3. Taken' = Taken BY <1>1, <1>2 DEF Taken
<1>4. state # "FOOTER" /\ (state = "HEADER" => AtEnd) BY <1>1, <1>2 DEF RestInv
<1>5. AtEnd' = AtEnd /\ gets' = gets BY <1>1 DEF AtEnd, gets
<1>6. CASE state = "DONE"
  <2>1. Rest' = Rest BY <1>1, <1>3, <1>6 DEF Rest
  <2> QED BY <1>1, <1>4, <1>5, <2>1 DEF RestInv
<1>7. CASE state # "DONE"
  <2>1. Due = gets
    <3>1. CASE AtEnd BY <3>1 DEF Due, gets
    <3>2. CASE ~AtEnd BY <1>1, <1>2, <1>7, <3>2 DEF Due
    <3> QED BY <3>1, <3>2
  <2>2. Due' = Due BY <1>1, <1>5, <2>1 DEF Due
  <2>3. Rest' = Rest BY <1>1, <1>3, <2>2 DEF Rest
  <2> QED BY <1>1, <1>4, <1>5, <2>3 DEF RestInv
<1> QED BY <1>6, <1>7

LEMMA FillFailsRest == ScanInv /\ RestInv /\ FillFails => RestInv'
  BY DEF FillFails, buffered, filling, RestInv, AtEnd

LEMMA FillRest == ScanInv /\ RestInv /\ Fill => RestInv'
<1> SUFFICES ASSUME ScanInv, RestInv, Fill
             PROVE  RestInv'
  OBVIOUS
<1>1. /\ pc = "read" /\ pc' = "fill" /\ buffer = <<>> /\ ~eof
      /\ total' = 0 /\ out' = <<>> /\ line' = gets
      /\ UNCHANGED << doc, state, name, buffer, eof, der, got, decoded, status >>
  BY DEF Fill, Reading, buffered
<1>2. state # "DONE" /\ BufferSize \in Nat /\ BufferSize > 0
  BY <1>1, BufferAssumption DEF ScanInv, DoneInv
<1>3. Due = gets /\ Due' = gets BY <1>1, <1>2 DEF Due
<1>4. Taken' = Taken BY <1>1 DEF Taken
<1>5. Rest' = Rest BY <1>1, <1>2, <1>3, <1>4 DEF Rest
<1> QED BY <1>1, <1>2, <1>5 DEF RestInv

LEMMA ConsumeRest == ScanInv /\ RestInv /\ int_consume_bytes => RestInv'
<1> SUFFICES ASSUME ScanInv, RestInv, int_consume_bytes
             PROVE  RestInv'
  OBVIOUS
<1>1. /\ pc = "read" /\ buffer # <<>>
      /\ der' = der \o SubSeq(buffer, 1, ToRead)
      /\ buffer' = SubSeq(buffer, ToRead + 1, Len(buffer))
      /\ UNCHANGED << doc, line, state, name, eof, pc, total, out, decoded, status >>
  BY DEF int_consume_bytes, Reading, filling
<1>2. buffer \in Seq(Octets) /\ der \in Seq(Octets) /\ got \in 0..BufferSize
  BY DEF ScanInv, TypeOK
<1>3. Len(buffer) \in Nat /\ ToRead \in 0..Len(buffer) BY <1>2, BufferAssumption DEF ToRead
<1>4. Taken' = Taken
  <2>1. ASSUME NEW a \in Seq(Octets), NEW b \in Seq(Octets), NEW k \in 0..Len(b)
        PROVE  (a \o SubSeq(b, 1, k)) \o SubSeq(b, k + 1, Len(b)) = a \o b
    <3> DEFINE first == SubSeq(b, 1, k)
               others == SubSeq(b, k + 1, Len(b))
    <3>1. first \in Seq(Octets) /\ others \in Seq(Octets) OBVIOUS
    <3>2. first \o others = b
      <4>1. Len(b) \in Nat /\ 1 \in 1..(Len(b) + 1) /\ k \in (1 - 1)..Len(b) /\ Len(b) \in k..Len(b)
        OBVIOUS
      <4>2. first \o others = SubSeq(b, 1, Len(b)) BY <4>1, ConcatAdjacentSubSeq
      <4> QED BY <4>2, SubSeqFull
    <3> HIDE DEF first, others
    <3>3. (a \o first) \o others = a \o (first \o others) BY <3>1
    <3> QED BY <3>2, <3>3 DEF first, others
  <2> QED BY <1>1, <1>2, <1>3, <2>1 DEF Taken
<1>5. AtEnd' = AtEnd /\ gets' = gets BY <1>1 DEF AtEnd, gets
<1>6. Due' = Due BY <1>1, <1>5 DEF Due
<1>7. Rest' = Rest BY <1>1, <1>4, <1>6 DEF Rest
<1> QED BY <1>1, <1>5, <1>7 DEF RestInv

LEMMA RestSame ==
  ASSUME RestInv,
         UNCHANGED << doc, line, state, name, buffer, eof, pc, total, out, der, decoded, status >>
  PROVE  RestInv'
<1>1. AtEnd' = AtEnd /\ gets' = gets BY DEF AtEnd, gets
<1>2. Due' = Due /\ Taken' = Taken BY <1>1 DEF Due, Taken
<1>3. Rest' = Rest BY <1>2 DEF Rest
<1> QED BY <1>1, <1>3 DEF RestInv

LEMMA ReadReturnsRest == ScanInv /\ RestInv /\ ReadReturns => RestInv'
  BY RestSame DEF ReadReturns, buffered, filling

\* What is decoded with a footer, and what the text is behind it.
LEMMA ElementTaken ==
  ASSUME ScanInv, RestInv, NextElement
  PROVE  LET element == [name |-> name[1], der |-> der]
             texts   == TextFrom(doc.lines)
         IN  /\ state = "DONE" /\ gets = line + 1 /\ line + 1 \in 1..EndOf(doc.lines)
             /\ element \in Element /\ decoded \in Seq(Element)
             /\ texts[line + 1] \in Consisting
             /\ doc.elements = Append(decoded, element) \o texts[line + 1].elements
             /\ doc.cut = texts[line + 1].cut
<1> DEFINE element == [name |-> name[1], der |-> der]
           lines == doc.lines
           texts == TextFrom(lines)
           rest == texts[line + 1]
<1>1. /\ state = "DONE" /\ line \in DOMAIN lines /\ lines \in Seq(Line)
      /\ der # <<>> /\ buffer = <<>> /\ pc = "read" /\ status = "open"
  BY ElementAtFooter, TextFacts DEF NextElement, StreamEnds, Reading
<1>2. /\ line \in 1..Len(lines) /\ Len(lines) \in Nat /\ EndOf(lines) = Len(lines) + 1
      /\ line # EndOf(lines) /\ line + 1 \in 1..EndOf(lines) /\ gets = line + 1
  BY <1>1 DEF EndOf, gets, AtEnd
<1>3. element \in Element
  <2>1. PICK i \in DOMAIN lines : name = << lines[i].name >> BY ElementAtFooter
  <2>2. lines[i] \in Line BY <1>1, <2>1
  <2>3. name[1] \in Name BY <2>1, <2>2 DEF Line
  <2> QED BY <2>3 DEF ScanInv, TypeOK, Element
<1>4. decoded \in Seq(Element) /\ der \in Seq(Octets) BY DEF ScanInv, TypeOK
<1>5. rest \in Consisting BY <1>1, <1>2, TextDefined
<1>6. Taken = der BY <1>1, <1>4 DEF Taken
<1>7. Rest = Consists(<< element >> \o rest.elements, rest.cut)
  BY <1>1, <1>2, <1>6 DEF Rest, Closed
<1>8. doc.elements = decoded \o (<< element >> \o rest.elements) /\ doc.cut = rest.cut
  BY <1>1, <1>7 DEF RestInv, Consists
<1> HIDE DEF element, rest
<1>9. doc.elements = Append(decoded, element) \o rest.elements
  <2>1. rest.elements \in Seq(Element) BY <1>5 DEF Consisting
  <2>2. decoded \o (<< element >> \o rest.elements) = Append(decoded, element) \o rest.elements
    <3> DEFINE a == decoded
               b == << element >>
               c == rest.elements
    <3>1. a \in Seq(Element) /\ b \in Seq(Element) /\ c \in Seq(Element) BY <1>3, <1>4, <2>1
    <3>2. a \o b = Append(decoded, element) BY <1>3, <1>4, AppendIsConcat
    <3> HIDE DEF a, b, c
    <3>3. (a \o b) \o c = a \o (b \o c) BY <3>1
    <3> QED BY <3>2, <3>3 DEF a, b, c
  <2> QED BY <1>8, <2>2
<1> QED BY <1>1, <1>2, <1>3, <1>4, <1>5, <1>8, <1>9 DEF element, rest

LEMMA NextElementRest == ScanInv /\ RestInv /\ NextElement => RestInv'
<1> SUFFICES ASSUME ScanInv, RestInv, NextElement
             PROVE  RestInv'
  OBVIOUS
<1> DEFINE rest == TextFrom(doc.lines)[line + 1]
<1>1. /\ decoded' = Append(decoded, [name |-> name[1], der |-> der])
      /\ state' = "HEADER" /\ eof' = FALSE /\ pc' = "read"
      /\ UNCHANGED << doc, line, status >>
  BY DEF NextElement, Continued, StreamEnds, Reading, filling
<1>2. /\ gets = line + 1
      /\ doc.elements = Append(decoded, [name |-> name[1], der |-> der]) \o rest.elements
      /\ doc.cut = rest.cut BY ElementTaken
<1>3. Due' = line + 1 BY <1>1, <1>2 DEF Due, gets, AtEnd
<1>4. Rest' = rest BY <1>1, <1>3 DEF Rest
<1> QED BY <1>1, <1>2, <1>4 DEF RestInv, Consists

LEMMA DecodeEndsRest == ScanInv /\ RestInv /\ DecodeEnds => RestInv'
  BY DEF DecodeEnds, buffered, filling, RestInv, AtEnd

LEMMA InitRest == Init => RestInv
<1> SUFFICES ASSUME Init
             PROVE  RestInv
  OBVIOUS
<1>1. /\ doc \in Docs /\ doc.lines \in Seq(Line) /\ doc.elements \in Seq(Element)
      /\ TextFrom(doc.lines)[1] = Consists(doc.elements, doc.cut)
      /\ line = 0 /\ state = "HEADER" /\ pc = "read" /\ ~eof /\ decoded = <<>>
  BY DocsAssumption DEF Init
<1>2. Due = 1 BY <1>1 DEF Due, gets, AtEnd
<1>3. Rest = Consists(doc.elements, doc.cut) BY <1>1, <1>2 DEF Rest
<1>4. <<>> \o doc.elements = doc.elements BY <1>1
<1> QED BY <1>1, <1>3, <1>4 DEF RestInv, Consists

LEMMA NextRest == ScanInv /\ RestInv /\ [Next]_vars => RestInv'
<1>1. ScanInv /\ RestInv /\ UNCHANGED vars => RestInv' BY RestSame DEF vars, buffered, filling
<1> QED BY <1>1, SkipBlankRest, FindHeaderRest, ContentEndsRest, DecodeLineRest, FindFooterRest,
  FillSucceedsRest, FillFailsRest, FillRest, ConsumeRest, ReadReturnsRest,
  NextElementRest, DecodeEndsRest DEF Next

-----------------------------------------------------------------------------
(* The decoder implements OrderedSource.                                   *)

LEMMA PrefixOfConcat ==
  ASSUME NEW S, NEW s \in Seq(S), NEW t \in Seq(S)
  PROVE  IsPrefix(s, s \o t)
<1>1. Len(s) \in Nat /\ Len(t) \in Nat /\ Len(s \o t) = Len(s) + Len(t) OBVIOUS
<1>2. SubSeq(s \o t, 1, Len(s)) = SubSeq(s, 1, Len(s))
  <2>1. CASE s = <<>> BY <2>1, SubSeqEmpty
  <2>2. CASE s # <<>>
    <3>1. 1 \in 1..Len(s) /\ Len(s) \in 1..Len(s) BY <2>2
    <3> QED BY <3>1, SubSeqOfConcat1
  <2> QED BY <2>1, <2>2
<1> QED BY <1>1, <1>2 DEF IsPrefix

LEMMA InitRefines == Init => Elements!SourceInit
  BY DEF Init, Elements!SourceInit

LEMMA NextElementGives ==
  ASSUME ScanInv, RestInv, NextElement
  PROVE  Elements!Give
<1> DEFINE element == [name |-> name[1], der |-> der]
           rest == TextFrom(doc.lines)[line + 1]
<1>1. /\ element \in Element /\ decoded \in Seq(Element) /\ rest \in Consisting
      /\ doc.elements = Append(decoded, element) \o rest.elements BY ElementTaken
<1>2. /\ decoded' = Append(decoded, element) /\ doc' = doc /\ status' = status
      /\ status = "open" BY DEF NextElement, StreamEnds, Reading
<1> HIDE DEF element, rest
<1>3. rest.elements \in Seq(Element) /\ decoded' \in Seq(Element) BY <1>1, <1>2 DEF Consisting
<1>4. IsPrefix(decoded', doc.elements) BY <1>1, <1>2, <1>3, PrefixOfConcat
<1>5. IsPrefix(decoded, decoded')
  <2>1. decoded' = decoded \o << element >> /\ << element >> \in Seq(Element)
    BY <1>1, <1>2, AppendIsConcat
  <2> QED BY <1>1, <2>1, PrefixOfConcat
<1>6. \A s, t : Elements!IsPrefix(s, t) <=> IsPrefix(s, t)
  BY Zenon DEF Elements!IsPrefix, IsPrefix
<1> QED BY <1>2, <1>4, <1>5, <1>6 DEF Elements!Give

\* The end is announced behind the last element of a text that is not cut.
LEMMA DecodeEndsAnnounces ==
  ASSUME ScanInv, RestInv, DecodeEnds
  PROVE  Elements!AnnounceEnd
<1> DEFINE lines == doc.lines
<1>1. /\ status = "open" /\ status' = "end" /\ doc' = doc /\ decoded' = decoded
      /\ pc = "read" /\ buffer = <<>> /\ eof /\ der = <<>> BY DEF DecodeEnds, StreamEnds, Reading
<1>2. state \in {"DONE", "HEADER"} BY <1>1 DEF ScanInv, DoneInv
<1>3. lines \in Seq(Line) /\ EndOf(lines) = Len(lines) + 1 /\ Len(lines) \in Nat
      /\ EndOf(lines) \in 1..EndOf(lines) BY TextFacts
<1>4. Rest = Consists(<<>>, FALSE)
  <2>1. CASE state = "DONE"
    <3>1. line # EndOf(lines) BY <1>3, <2>1 DEF ScanInv, DoneInv
    <3>2. Taken = <<>> BY <1>1 DEF Taken
    <3> QED BY <2>1, <3>1, <3>2 DEF Rest, Closed
  <2>2. CASE state = "HEADER"
    <3>1. AtEnd BY <1>1, <2>2 DEF RestInv
    <3>2. Due = EndOf(lines) BY <1>1, <3>1, TextFacts DEF Due, gets
    <3> QED BY <1>3, <2>2, <3>2, TextStep DEF Rest
  <2> QED BY <1>2, <2>1, <2>2
<1>5. doc.elements = decoded /\ doc.cut = FALSE
  <2>1. decoded \in Seq(Element) BY DEF ScanInv, TypeOK
  <2>2. decoded \o <<>> = decoded BY <2>1, ConcatEmptySeq
  <2> QED BY <1>1, <1>4, <2>2 DEF RestInv, Consists
<1> QED BY <1>1, <1>5 DEF Elements!AnnounceEnd

\* A text that ends inside an element is cut.
LEMMA FillFailsOnCut ==
  ASSUME ScanInv, RestInv, FillFails
  PROVE  Elements!Fail
<1> DEFINE lines == doc.lines
           n == name[1]
           texts == TextFrom(lines)
<1>1. /\ status = "open" /\ status' = "failed" /\ doc' = doc /\ decoded' = decoded
      /\ pc = "fill" /\ AtEnd /\ state \in {"CONTENT", "FOOTER"} BY DEF FillFails, FillEnds
<1>2. lines \in Seq(Line) /\ EndOf(lines) \in 1..EndOf(lines) /\ line = EndOf(lines)
  BY <1>1, TextFacts
<1>3. Due = EndOf(lines) BY <1>1, <1>2 DEF Due, gets
<1>4. /\ DashFrom(lines, EndOf(lines)) = EndOf(lines)
      /\ FooterFrom(lines, EndOf(lines), n) = EndOf(lines)
  <2>1. EndOf(lines)..EndOf(lines) = {EndOf(lines)} BY TextFacts
  <2> QED BY <1>2, <2>1, ScannedFrom
<1>5. \A content : Closed(texts, lines, n, content, EndOf(lines)) = Consists(<<>>, TRUE)
  BY DEF Closed
<1>6. Rest = Consists(<<>>, TRUE)
  <2>1. CASE state = "CONTENT" BY <1>3, <1>4, <1>5, <2>1 DEF Rest
  <2>2. CASE state = "FOOTER" BY <1>3, <1>4, <1>5, <2>2 DEF Rest
  <2> QED BY <1>1, <2>1, <2>2
<1>7. doc.cut BY <1>1, <1>6 DEF RestInv, Consists
<1> QED BY <1>1, <1>7 DEF Elements!Fail

LEMMA NextRefines ==
  ASSUME ScanInv, RestInv, [Next]_vars
  PROVE  [Elements!SourceNext]_(Elements!sourceVars)
<1>1. CASE NextElement BY <1>1, NextElementGives DEF Elements!SourceNext
<1>2. CASE DecodeEnds BY <1>2, DecodeEndsAnnounces DEF Elements!SourceNext
<1>3. CASE FillFails BY <1>3, FillFailsOnCut DEF Elements!SourceNext
<1>4. CASE UNCHANGED vars BY <1>4 DEF vars, Elements!sourceVars
<1>5. CASE \/ SkipBlank \/ FindHeader \/ ContentEnds \/ DecodeLine \/ FindFooter
           \/ FillSucceeds \/ Fill \/ int_consume_bytes \/ ReadReturns
  <2>1. UNCHANGED << doc, decoded, status >>
    BY <1>5 DEF SkipBlank, FindHeader, ContentEnds, DecodeLine, FindFooter,
      FillSucceeds, Fill, int_consume_bytes, ReadReturns
  <2> QED BY <2>1 DEF Elements!sourceVars
<1> QED BY <1>1, <1>2, <1>3, <1>4, <1>5 DEF Next

-----------------------------------------------------------------------------
LEMMA InitIInv == Init => IInv
<1> QED BY InitScanInv, InitRest DEF IInv

LEMMA NextIInv == IInv /\ [Next]_vars => IInv'
<1> QED BY NextScanInv, NextRest DEF IInv

\* The inductive invariant holds for every text, whole or cut, and every size
\* of the buffer and of a line (int_b64_fill, int_b64_read, krypt_pem_decode).
THEOREM DecoderInvariant == Spec => []IInv
<1> QED BY InitIInv, NextIInv, PTL DEF Spec

\* Every variable keeps its type: no read gets more than it asked for, and the
\* name of an element is the name of a line of the text.
THEOREM DecoderTyped == Spec => []TypeOK
<1>1. IInv => TypeOK BY DEF IInv, ScanInv
<1> QED BY <1>1, DecoderInvariant, PTL

\* The octets of one fill never need more room than was allocated for them
\* (int_b64_fill).
THEOREM BufferStaysBounded == Spec => []BufferBounded
<1>1. IInv => BufferBounded BY DEF IInv, ScanInv
<1> QED BY <1>1, DecoderInvariant, PTL

\* No element is handed to the program before a footer for it was reached
\* (int_match_footer, krypt_pem_decode).
THEOREM ElementsEndAtFooters == Spec => FooterReached
<1> DEFINE Reached == /\ state = "DONE" /\ line \in DOMAIN doc.lines
                      /\ Current.kind = "end" /\ IsPrefix(Current.name, name[1])
<1>1. ASSUME IInv, [Next]_vars
      PROVE  [decoded' # decoded => Reached]_vars
  <2>1. CASE NextElement BY <1>1, <2>1, ElementAtFooter DEF IInv
  <2>2. CASE Next /\ ~NextElement
    <3>1. decoded' = decoded
      BY <2>2 DEF Next, SkipBlank, FindHeader, ContentEnds, DecodeLine, FindFooter,
        FillSucceeds, FillFails, Fill, int_consume_bytes, ReadReturns, DecodeEnds
    <3> QED BY <3>1
  <2>3. CASE UNCHANGED vars BY <2>3
  <2> QED BY <1>1, <2>1, <2>2, <2>3
<1> QED BY <1>1, DecoderInvariant, PTL DEF Spec, FooterReached

\* The decoder implements OrderedSource: however long the lines are, wherever a
\* fill ends and whatever a read takes of it, the program is given the elements
\* of the text in its order, each once and whole, and gets an error if and only
\* if the last element lacks its footer (int_b64_fill, int_b64_read,
\* krypt_pem_decode).
THEOREM DecoderRefinesSource == Spec => ElementsDecoded
<1>1. IInv /\ [Next]_vars => [Elements!SourceNext]_(Elements!sourceVars) BY NextRefines DEF IInv
<1> QED BY <1>1, InitRefines, DecoderInvariant, PTL DEF Spec, ElementsDecoded, Elements!SourceSpec

=============================================================================
