------------------------ MODULE PullParser_proofs ------------------------
(***************************************************************************)
(* For every IO that InputsAssumption admits, every program and any number *)
(* of headers: what a header answers it answers ever after, its octets are *)
(* handed out in one way, and headers are parsed from octets behind one    *)
(* another.  And for every program that keeps to the documented order: it  *)
(* is given headers of the encoding only and misses none, gets the octets  *)
(* of their values, and fails only where octets are missing.               *)
(*                                                                         *)
(* What an indefinite value takes is a recursive function of the octets;   *)
(* that it exists, and finds the end-of-contents octets of this value, is  *)
(* shown by induction from the end of the octets.                          *)
(***************************************************************************)
EXTENDS PullParser, SequenceTheorems, FiniteSetTheorems, WellFoundedInduction, TLAPS

-----------------------------------------------------------------------------
(* Numbers, and the header parser.                                         *)

\* Numbers that are in a set have a first one: the form in which induction
\* over the octets of a value is used.
LEMMA FirstOfNumbers ==
  ASSUME NEW S, S \subseteq Nat, S # {}
  PROVE  \E i \in S : \A j \in S : i <= j
<1> DEFINE T == {1..i : i \in S}
<1>1. \A i \in Nat : 1..i \in FiniteSubsetsOf(Nat) BY FS_Interval, 1 \in Int DEF FiniteSubsetsOf
<1>2. T \subseteq FiniteSubsetsOf(Nat) /\ T # {} BY <1>1
<1>3. PICK t \in T : \A r \in T : ~(<< r, t >> \in StrictSubsetOrdering(Nat))
  BY <1>2, WFMin, FS_StrictSubsetOrderingWellFounded
<1>4. PICK i \in S : t = 1..i OBVIOUS
<1>5. ASSUME NEW j \in S, j < i
      PROVE  FALSE
  <2>1. 1..j \subseteq 1..i /\ i \in 1..i /\ i \notin 1..j BY <1>5
  <2>2. << 1..j, 1..i >> \in StrictSubsetOrdering(Nat) BY <2>1 DEF StrictSubsetOrdering
  <2> QED BY <1>3, <1>4, <2>2
<1> QED BY <1>5

\* Induction over the natural numbers, for a set of them.
LEMMA NaturalInduction ==
  ASSUME NEW S, \A n \in Nat : (\A m \in 0..(n - 1) : m \in S) => n \in S
  PROVE  Nat \subseteq S
<1> SUFFICES ASSUME NEW k \in Nat, k \notin S PROVE FALSE OBVIOUS
<1>1. PICK i \in Nat \ S : \A j \in Nat \ S : i <= j
  BY FirstOfNumbers, Nat \ S \subseteq Nat, Nat \ S # {}
<1>2. \A m \in 0..(i - 1) : m \in S BY <1>1
<1> QED BY <1>1, <1>2

\* A header that could not be parsed took no more octets than there were; a
\* parsed one has one identifier octet, and an indefinite length only if it is
\* that of a constructed element.
LEMMA HeaderFacts ==
  ASSUME NEW octets \in Seq(Octets), NEW p \in 0..Len(octets)
  PROVE  /\ next_header(octets, p).used \in 0..(Len(octets) - p)
         /\ next_header(octets, p).ok =>
              /\ next_header(octets, p).used >= 2
              /\ next_header(octets, p).header \in Header
              /\ Len(next_header(octets, p).header.tag_bytes) = 1
              /\ next_header(octets, p).header.infinite =>
                   /\ next_header(octets, p).header.length = 0
                   /\ IsConstructed(next_header(octets, p).header)
<1> DEFINE left == Len(octets) - p
           tag == octets[p + 1]
           first == octets[p + 2]
           more == IF first > 128 THEN first - 128 ELSE 0
           constructed == (tag \div 32) % 2 = 1
           infinite == first = 128
           lengths == SubSeq(octets, p + 2, p + 2 + more)
           length == IF more > 0 THEN BigEndian(Tail(lengths)) ELSE first % 128
           header == [tag_bytes |-> << tag >>, length_bytes |-> lengths,
                      length |-> length, infinite |-> infinite]
           h == next_header(octets, p)
<1>1. h = IF left < 2 THEN NoHeaderAfter(left)
          ELSE IF first = 255 \/ (infinite /\ ~constructed) THEN NoHeaderAfter(2)
          ELSE IF left < 2 + more THEN NoHeaderAfter(left)
          ELSE IF length \notin 0..SIZE_MAX THEN NoHeaderAfter(2 + more)
          ELSE [ok |-> TRUE, used |-> 2 + more, header |-> header] BY Zenon DEF next_header
<1>2. left \in Nat /\ p \in Nat OBVIOUS
<1>3. ASSUME left >= 2
      PROVE  tag \in Octets /\ first \in 0..255 /\ more \in Nat
  <2>1. p + 1 \in 1..Len(octets) /\ p + 2 \in 1..Len(octets) BY <1>2, <1>3
  <2>2. \A i \in 1..Len(octets) : octets[i] \in Octets OBVIOUS
  <2>3. tag \in Octets /\ first \in 0..255 BY <2>1, <2>2 DEF Octets
  <2> HIDE DEF tag, first
  <2> QED BY <2>3
<1>4. ASSUME left >= 2, left >= 2 + more, length \in 0..SIZE_MAX
      PROVE  header \in Header /\ Len(header.tag_bytes) = 1
  <2>1. << tag >> \in Seq(Octets) /\ Len(<< tag >>) = 1 BY <1>3, <1>4
  <2>2. lengths \in Seq(Octets)
    <3>1. \A i \in (p + 2)..(p + 2 + more) : octets[i] \in Octets BY <1>2, <1>3, <1>4
    <3> QED BY <1>2, <1>3, <1>4, <3>1, SubSeqProperties, p + 2 \in Int, p + 2 + more \in Int
  <2>3. length \in Nat /\ infinite \in BOOLEAN BY <1>4, SizeAssumption
  <2> HIDE DEF tag, lengths, length, infinite
  <2> QED BY <2>1, <2>2, <2>3 DEF Header
<1> HIDE DEF tag, first, constructed, infinite, lengths, length, header
<1>5. h.used \in 0..left BY <1>1, <1>2, <1>3 DEF NoHeaderAfter
<1>6. h.ok => /\ left >= 2 /\ left >= 2 + more /\ length \in 0..SIZE_MAX
              /\ h.used = 2 + more /\ more \in Nat
              /\ ~(infinite /\ ~constructed)
              /\ h.header = header BY <1>1, <1>2, <1>3 DEF NoHeaderAfter
<1>7. ASSUME infinite
      PROVE  length = 0
  <2>1. first = 128 BY <1>7 DEF infinite
  <2>2. length = first % 128 BY <2>1 DEF length
  <2> HIDE DEF length, first
  <2> QED BY <2>1, <2>2
<1>8. ASSUME constructed
      PROVE  IsConstructed(header)
  <2>1. header.tag_bytes[1] = tag BY DEF header
  <2> QED BY <1>8, <2>1 DEF IsConstructed, constructed
<1>9. header.infinite = infinite /\ header.length = length BY DEF header
<1> QED BY <1>4, <1>5, <1>6, <1>7, <1>8, <1>9

-----------------------------------------------------------------------------
(* The IO.                                                                 *)

LEMMA InputTypes ==
  ASSUME TypeOK
  PROVE  input.octets \in Seq(Octets) /\ End \in Nat
  BY InputsAssumption DEF TypeOK, End, Input

LEMMA TakenTypes ==
  ASSUME TypeOK, NEW e \in Ahead
  PROVE  /\ e \in Nat /\ pos <= e
         /\ Taken(pos, e) \in Seq(Octets)
         /\ Len(Taken(pos, e)) = e - pos
<1>1. input.octets \in Seq(Octets) /\ End \in Nat /\ pos \in Nat BY InputTypes DEF TypeOK
<1>2. e \in Nat /\ pos <= e /\ (e <= End \/ e = pos) BY <1>1 DEF Ahead
<1>3. \A k \in (pos + 1)..e : input.octets[k] \in Octets BY <1>1, <1>2 DEF End
<1>4. /\ Taken(pos, e) \in Seq(Octets)
      /\ Len(Taken(pos, e)) = IF pos + 1 <= e THEN e - (pos + 1) + 1 ELSE 0
  BY <1>1, <1>2, <1>3, SubSeqProperties, pos + 1 \in Int, e \in Int DEF Taken
<1> QED BY <1>1, <1>2, <1>4

LEMMA PrefixOfConcat ==
  ASSUME NEW s \in Seq(Octets), NEW t \in Seq(Octets)
  PROVE  IsPrefix(s, s \o t)
<1>1. /\ s \o t \in Seq(Octets)
      /\ Len(s \o t) = Len(s) + Len(t)
      /\ \A i \in 1..Len(s) : (s \o t)[i] = s[i] BY ConcatProperties
<1>2. SubSeq(s, 1, Len(s)) = SubSeq(s \o t, 1, Len(s)) BY <1>1
<1> QED BY <1>1, <1>2 DEF IsPrefix

LEMMA PrefixOfItself ==
  ASSUME NEW s \in Seq(Octets)
  PROVE  IsPrefix(s, s) /\ IsPrefix(<<>>, s)
  BY DEF IsPrefix

-----------------------------------------------------------------------------
(* One header changes, or one is added.                                    *)

\* What may become of a header: nothing it has answered changes.
Follows(h, g) ==
  /\ g.at = h.at /\ g.start = h.start
  /\ h.consumed =>
       /\ g.consumed
       /\ g.value = h.value
       /\ g.cached_stream.kind = h.cached_stream.kind
       /\ IsPrefix(h.cached_stream.given, g.cached_stream.given)

\* The change of one step.
Advance ==
  /\ headers' \in Seq(ParsedHeader)
  /\ pos' \in Nat /\ pos <= pos'
  /\ \A j \in DOMAIN headers' : HeaderInv(headers'[j], pos')
  /\ \A j, k \in DOMAIN headers' : j < k => headers'[j].start <= headers'[k].at
  /\ \A j \in DOMAIN headers : j \in DOMAIN headers' /\ Follows(headers[j], headers'[j])

LEMMA FollowsItself ==
  ASSUME NEW h \in ParsedHeader
  PROVE  Follows(h, h)
  BY PrefixOfItself DEF Follows, ParsedHeader, Stream

LEMMA MovesOn ==
  ASSUME NEW h \in ParsedHeader, NEW p \in Nat, NEW q \in Nat, p <= q, HeaderInv(h, p)
  PROVE  HeaderInv(h, q)
  BY DEF HeaderInv, ParsedHeader

LEMMA OneHeader ==
  ASSUME HeadersInv, NEW i \in DOMAIN headers, NEW g \in ParsedHeader,
         headers' = [headers EXCEPT ![i] = g],
         pos' \in Nat, pos <= pos', HeaderInv(g, pos'), Follows(headers[i], g)
  PROVE  Advance
<1>1. headers \in Seq(ParsedHeader) BY DEF HeadersInv, TypeOK
<1>2. /\ headers' \in Seq(ParsedHeader)
      /\ DOMAIN headers' = DOMAIN headers
      /\ headers'[i] = g
      /\ \A j \in DOMAIN headers : j # i => headers'[j] = headers[j] BY <1>1
<1>3. \A j \in DOMAIN headers : headers[j] \in ParsedHeader BY <1>1
<1>4. \A j \in DOMAIN headers' : HeaderInv(headers'[j], pos')
  <2>1. ASSUME NEW j \in DOMAIN headers, j # i PROVE HeaderInv(headers[j], pos')
    BY <1>3, MovesOn DEF HeadersInv, TypeOK
  <2> QED BY <1>2, <2>1
<1>5. \A j \in DOMAIN headers : Follows(headers[j], headers'[j]) BY <1>2, <1>3, FollowsItself
<1>6. \A j, k \in DOMAIN headers' : j < k => headers'[j].start <= headers'[k].at
  BY <1>2, <1>5 DEF HeadersInv, Follows
<1> QED BY <1>2, <1>4, <1>5, <1>6 DEF Advance

LEMMA NoHeaderChanges ==
  ASSUME HeadersInv, headers' = headers, pos' \in Nat, pos <= pos'
  PROVE  Advance
<1>1. \A j \in DOMAIN headers : headers[j] \in ParsedHeader BY DEF HeadersInv, TypeOK
<1>2. \A j \in DOMAIN headers : HeaderInv(headers[j], pos')
  BY <1>1, MovesOn DEF HeadersInv, TypeOK
<1>3. \A j \in DOMAIN headers : Follows(headers[j], headers[j]) BY <1>1, FollowsItself
<1> QED BY <1>2, <1>3 DEF HeadersInv, TypeOK, Advance

\* The rest of the state is typed whatever the call.
Answers ==
  /\ input' = input
  /\ ret' \in {"none", "header", "nil", "skipped", "value", "stream", "octets", "end",
               "taken", "error", "crashed"}
  /\ skips' \in Nat
  /\ orderly' \in BOOLEAN

LEMMA Preserves ==
  ASSUME HeadersInv, Advance, Answers
  PROVE  HeadersInv'
  BY DEF HeadersInv, TypeOK, Advance, Answers

-----------------------------------------------------------------------------
(* The calls.                                                              *)

LEMMA HeaderTypes ==
  ASSUME HeadersInv, NEW i \in DOMAIN headers
  PROVE  /\ headers \in Seq(ParsedHeader) /\ headers[i] \in ParsedHeader
         /\ headers[i].header \in Header /\ headers[i].header.length \in Nat
         /\ headers[i].cached_stream \in Stream
         /\ headers[i].start \in Nat /\ headers[i].at \in Nat
         /\ HeaderInv(headers[i], pos) /\ pos \in Nat
<1>1. headers[i] \in ParsedHeader /\ headers \in Seq(ParsedHeader) BY DEF HeadersInv, TypeOK
<1> QED BY <1>1 DEF HeadersInv, TypeOK, ParsedHeader, Header

LEMMA NextAdvances ==
  ASSUME HeadersInv, ParserNext
  PROVE  Advance /\ Answers
<1>1. Answers BY DEF ParserNext, Answers, Keeping, HeadersInv, TypeOK
<1>2. ASSUME pos >= End, UNCHANGED << pos, headers >>
      PROVE  Advance
  BY <1>2, NoHeaderChanges DEF HeadersInv, TypeOK
<1>3. ASSUME ~(pos >= End /\ UNCHANGED << pos, headers >>)
      PROVE  Advance
  <2> DEFINE h == next_header(input.octets, pos)
             g == int_asn1_header_new(h.header, pos, pos')
  <2>1. /\ pos < End /\ pos' = pos + h.used
        /\ \/ h.ok /\ headers' = Append(headers, g)
           \/ ~h.ok /\ UNCHANGED headers BY <1>3 DEF ParserNext
  <2>2. input.octets \in Seq(Octets) /\ End \in Nat /\ pos \in Nat
        /\ headers \in Seq(ParsedHeader) BY InputTypes DEF HeadersInv, TypeOK
  <2>3. pos \in 0..Len(input.octets) BY <2>1, <2>2 DEF End
  <2>4. h.used \in Nat /\ (h.ok => h.header \in Header) BY <2>2, <2>3, HeaderFacts
  <2>5. pos' \in Nat /\ pos <= pos' BY <2>1, <2>2, <2>4
  <2> HIDE DEF h
  <2>6. CASE ~h.ok BY <2>1, <2>5, <2>6, NoHeaderChanges
  <2>7. CASE h.ok
    <3>1. g \in ParsedHeader
      BY <2>2, <2>4, <2>5, <2>7 DEF int_asn1_header_new, ParsedHeader, NoStream, Stream
    <3>2. HeaderInv(g, pos') /\ g.at = pos
      BY <2>2, <2>5 DEF HeaderInv, HasStream, int_asn1_header_new, NoStream
    <3> HIDE DEF g
    <3>3. /\ headers' \in Seq(ParsedHeader)
          /\ Len(headers') = Len(headers) + 1
          /\ \A j \in 1..Len(headers) : headers'[j] = headers[j]
          /\ headers'[Len(headers) + 1] = g
      <4>1. headers' = Append(headers, g) BY <2>1, <2>7
      <4> QED BY <2>2, <3>1, <4>1, AppendProperties
    <3>4. \A j \in 1..Len(headers) :
            /\ headers[j] \in ParsedHeader
            /\ HeaderInv(headers[j], pos') /\ headers[j].start <= pos
            /\ Follows(headers[j], headers[j])
      <4> TAKE j \in 1..Len(headers)
      <4>1. j \in DOMAIN headers BY <2>2
      <4>2. headers[j] \in ParsedHeader /\ HeaderInv(headers[j], pos) BY <4>1, HeaderTypes
      <4> QED BY <4>2, <2>2, <2>5, MovesOn, FollowsItself DEF HeaderInv
    <3>5. \A j \in DOMAIN headers' : HeaderInv(headers'[j], pos') BY <2>2, <3>2, <3>3, <3>4
    <3>6. \A j \in DOMAIN headers : j \in DOMAIN headers' /\ Follows(headers[j], headers'[j])
      BY <2>2, <3>3, <3>4
    <3>7. ASSUME NEW j \in DOMAIN headers', NEW k \in DOMAIN headers', j < k
          PROVE  headers'[j].start <= headers'[k].at
      <4>1. j \in 1..Len(headers) /\ (k \in 1..Len(headers) \/ k = Len(headers) + 1)
        BY <2>2, <3>3, <3>7
      <4>2. CASE k \in 1..Len(headers) BY <2>2, <3>3, <3>7, <4>1, <4>2 DEF HeadersInv
      <4>3. CASE k = Len(headers) + 1 BY <3>2, <3>3, <3>4, <4>1, <4>3
      <4> QED BY <4>1, <4>2, <4>3
    <3> QED BY <2>5, <3>3, <3>5, <3>6, <3>7 DEF Advance
  <2> QED BY <2>6, <2>7
<1> QED BY <1>1, <1>2, <1>3

LEMMA SkipValueAdvances ==
  ASSUME HeadersInv, NEW i \in DOMAIN headers, SkipValue(i)
  PROVE  Advance /\ Answers
<1> DEFINE h == headers[i]
           g == [h EXCEPT !.skipped = TRUE]
<1>1. /\ h \in ParsedHeader /\ h.header.length \in Nat /\ pos \in Nat
      /\ headers \in Seq(ParsedHeader) /\ HeaderInv(h, pos) BY HeaderTypes
<1>2. pos' \in Nat /\ pos <= pos' BY <1>1 DEF SkipValue, SkipTo
<1>3. headers' = [headers EXCEPT ![i] = g] BY DEF SkipValue
<1>4. g \in ParsedHeader /\ Follows(h, g) /\ HeaderInv(g, pos)
  <2>1. h.cached_stream.given \in Seq(Octets) BY <1>1 DEF ParsedHeader, Stream
  <2> QED BY <1>1, <2>1, PrefixOfItself DEF ParsedHeader, Follows, HeaderInv, HasStream
<1> HIDE DEF g
<1>5. Advance BY <1>1, <1>2, <1>3, <1>4, MovesOn, OneHeader
<1>6. Answers BY DEF SkipValue, Answers, Keeping, HeadersInv, TypeOK
<1> QED BY <1>5, <1>6

LEMMA ReadValueAdvances ==
  ASSUME HeadersInv, NEW i \in DOMAIN headers, ReadValue(i)
  PROVE  Advance /\ Answers
<1>1. PICK e \in Ahead, outcome \in Outcomes :
        /\ ReadsValue(headers[i].header, pos, outcome, e)
        /\ pos' = e
        /\ IF outcome = "whole"
           THEN headers' = [headers EXCEPT ![i].value = Answer(headers[i], Taken(pos, e)),
                                           ![i].consumed = TRUE]
           ELSE UNCHANGED headers
        /\ ret' = CASE outcome = "whole" -> "value"
                    [] outcome = "short" -> "error"
                    [] outcome = "lost"  -> "crashed" BY Zenon DEF ReadValue
<1>2. ret' \in {"value", "error", "crashed"} BY <1>1 DEF Outcomes
<1>3. Answers BY <1>2 DEF ReadValue, Answers, Keeping, HeadersInv, TypeOK
<1>4. TypeOK BY DEF HeadersInv
<1>5. pos' \in Nat /\ pos <= pos' /\ Taken(pos, e) \in Seq(Octets) BY <1>1, <1>4, TakenTypes
<1>6. CASE outcome # "whole" BY <1>1, <1>3, <1>5, <1>6, NoHeaderChanges
<1>7. CASE outcome = "whole"
  <2> DEFINE h == headers[i]
             v == Answer(h, Taken(pos, e))
             g == [[h EXCEPT !.value = v] EXCEPT !.consumed = TRUE]
  <2>1. /\ h \in ParsedHeader /\ HeaderInv(h, pos) /\ pos \in Nat
        /\ headers \in Seq(ParsedHeader) BY HeaderTypes
  <2>2. v \in Seq(Seq(Octets))
    <3> HIDE DEF h
    <3>1. << Taken(pos, e) >> \in Seq(Seq(Octets)) /\ << >> \in Seq(Seq(Octets)) BY <1>5
    <3> QED BY <3>1 DEF Answer
  <2>3. ~h.consumed BY DEF ReadValue, Unread
  <2> HIDE DEF v
  <2>4. headers' = [headers EXCEPT ![i] = g] BY <1>1, <1>7, <2>1 DEF v
  <2>5. g \in ParsedHeader /\ Follows(h, g) /\ HeaderInv(g, pos)
    BY <2>1, <2>2, <2>3 DEF ParsedHeader, Follows, HeaderInv, HasStream
  <2> HIDE DEF g
  <2>6. Advance BY <1>5, <2>1, <2>4, <2>5, MovesOn, OneHeader
  <2> QED BY <1>3, <2>6
<1> QED BY <1>6, <1>7

LEMMA ValueAgainAdvances ==
  ASSUME HeadersInv, NEW i \in DOMAIN headers, ValueAgain(i)
  PROVE  Advance /\ Answers
<1>1. Advance BY NoHeaderChanges DEF ValueAgain, HeadersInv, TypeOK
<1>2. Answers BY DEF ValueAgain, Answers, Keeping, HeadersInv, TypeOK
<1> QED BY <1>1, <1>2

LEMMA NewStream ==
  ASSUME NEW d \in Header
  PROVE  LET s == krypt_asn1_get_value_stream(d) IN
         /\ s \in Stream /\ s.max_read = d.length /\ s.num_read = 0
         /\ s.given = <<>> /\ s.kind # "none"
<1> DEFINE kind == IF d.infinite THEN "chunked" ELSE "definite"
           s == krypt_asn1_get_value_stream(d)
<1>1. d.length \in Nat BY DEF Header
<1>2. s = [kind |-> kind, max_read |-> d.length, num_read |-> 0, given |-> <<>>,
           done |-> FALSE]
  <2>1. s = [[NoStream EXCEPT !.kind = kind] EXCEPT !.max_read = d.length]
    BY DEF krypt_asn1_get_value_stream
  <2> HIDE DEF kind, s
  <2> QED BY <2>1 DEF NoStream
<1>3. kind \in {"definite", "chunked"} OBVIOUS
<1> HIDE DEF kind, s
<1> QED BY <1>1, <1>2, <1>3 DEF Stream, s

LEMMA ValueIoAdvances ==
  ASSUME HeadersInv, NEW i \in DOMAIN headers, ValueIo(i)
  PROVE  Advance /\ Answers
<1> DEFINE h == headers[i]
           s == krypt_asn1_get_value_stream(h.header)
           g == [[h EXCEPT !.consumed = TRUE] EXCEPT !.cached_stream = s]
<1>1. Answers BY DEF ValueIo, Answers, Keeping, HeadersInv, TypeOK
<1>2. /\ h \in ParsedHeader /\ h.header \in Header /\ HeaderInv(h, pos)
      /\ headers \in Seq(ParsedHeader) /\ pos \in Nat /\ pos' = pos BY HeaderTypes DEF ValueIo
<1>3. ASSUME UNCHANGED headers
      PROVE  Advance
  BY <1>2, <1>3, NoHeaderChanges
<1>4. ASSUME headers' = [headers EXCEPT ![i].consumed = TRUE, ![i].cached_stream = s],
             ~TakenByValue(h), ~HasStream(h)
      PROVE  Advance
  <2>1. headers' = [headers EXCEPT ![i] = g] BY <1>2, <1>4
  <2>2. /\ s \in Stream /\ s.max_read = h.header.length /\ s.num_read = 0
        /\ s.given = <<>> /\ s.kind # "none" BY <1>2, NewStream
  <2>3. h.header.length \in Nat /\ ~h.consumed BY <1>2, <1>4 DEF Header, TakenByValue
  <2> HIDE DEF s
  <2>4. g \in ParsedHeader /\ Follows(h, g) BY <1>2, <2>2, <2>3 DEF ParsedHeader, Follows
  <2>5. /\ g.consumed /\ g.cached_stream = s /\ g.header = h.header
        /\ g.value = h.value /\ h.value = <<>>
        /\ g.at = h.at /\ g.start = h.start BY <1>2, <2>3 DEF ParsedHeader, HeaderInv
  <2> HIDE DEF g
  <2>6. HeaderInv(g, pos) BY <1>2, <2>2, <2>3, <2>5 DEF HeaderInv, HasStream
  <2>7. pos' \in Nat /\ pos <= pos' /\ HeaderInv(g, pos') BY <1>2, <2>6
  <2> QED BY <1>2, <2>1, <2>4, <2>7, OneHeader
<1>5. \/ UNCHANGED headers
      \/ /\ headers' = [headers EXCEPT ![i].consumed = TRUE, ![i].cached_stream = s]
         /\ ~TakenByValue(h) /\ ~HasStream(h) BY Zenon DEF ValueIo
<1> QED BY <1>1, <1>3, <1>4, <1>5

\* A read of a stream: the header gets a stream that goes on.
LEMMA StreamGoesOn ==
  ASSUME HeadersInv, NEW i \in DOMAIN headers, NEW t \in Stream,
         HasStream(headers[i]),
         t.kind = headers[i].cached_stream.kind,
         t.max_read = headers[i].cached_stream.max_read,
         t.num_read <= t.max_read,
         t.kind # "chunked" => Len(t.given) = t.num_read,
         t.kind = "chunked" => t.done,
         IsPrefix(headers[i].cached_stream.given, t.given),
         headers' = [headers EXCEPT ![i].cached_stream = t],
         pos' \in Nat, pos <= pos'
  PROVE  Advance
<1> DEFINE h == headers[i]
           g == [h EXCEPT !.cached_stream = t]
<1>1. /\ h \in ParsedHeader /\ HeaderInv(h, pos) /\ pos \in Nat
      /\ headers \in Seq(ParsedHeader) BY HeaderTypes
<1>2. headers' = [headers EXCEPT ![i] = g] OBVIOUS
<1>3. /\ g \in ParsedHeader /\ g.cached_stream = t /\ g.header = h.header
      /\ g.value = h.value /\ g.consumed = h.consumed
      /\ g.at = h.at /\ g.start = h.start BY <1>1 DEF ParsedHeader
<1> HIDE DEF g
<1>4. Follows(h, g) BY <1>3 DEF Follows
<1>5. HeaderInv(g, pos) BY <1>1, <1>3 DEF HeaderInv, HasStream
<1>6. HeaderInv(g, pos') BY <1>1, <1>3, <1>5, MovesOn
<1> QED BY <1>2, <1>3, <1>4, <1>6, OneHeader

LEMMA ReadDefiniteAdvances ==
  ASSUME HeadersInv, NEW i \in DOMAIN headers, NEW n \in ReadSizes, ReadDefinite(i, n)
  PROVE  Advance /\ Answers
<1> DEFINE s    == headers[i].cached_stream
           left == s.max_read - s.num_read
<1>1. Answers BY DEF ReadDefinite, Answers, Keeping, HeadersInv, TypeOK
<1>2. /\ s \in Stream /\ s.kind = "definite" /\ HeaderInv(headers[i], pos)
      /\ s.max_read \in Nat /\ s.num_read \in Nat /\ s.given \in Seq(Octets)
      /\ s.done \in BOOLEAN
      /\ s.num_read <= s.max_read /\ Len(s.given) = s.num_read
      /\ HasStream(headers[i]) /\ pos \in Nat
      /\ headers \in Seq(ParsedHeader) /\ headers[i] \in ParsedHeader
  BY HeaderTypes DEF ReadDefinite, Stream, HeaderInv, HasStream
<1>3. ASSUME UNCHANGED << pos, headers >>
      PROVE  Advance
  BY <1>2, <1>3, NoHeaderChanges
<1>4. ASSUME NEW r \in 1..ToRead(left, n),
             pos + r <= End, pos' = pos + r,
             headers' = [headers EXCEPT
                           ![i].cached_stream.num_read = @ + r,
                           ![i].cached_stream.given = @ \o Taken(pos, pos + r)]
      PROVE  Advance
  <2>1. n \in Nat /\ left \in Nat BY <1>2, ReadSizesAssumption
  <2>2. r \in Nat /\ r <= left BY <1>4, <2>1 DEF ToRead
  <2>2a. s.num_read + r \in Nat /\ s.num_read + r <= s.max_read
    <3>1. s.num_read \in Nat /\ s.max_read \in Nat /\ r \in Nat /\ r <= s.max_read - s.num_read
      BY <1>2, <2>2
    <3> HIDE DEF s
    <3> QED BY <3>1
  <2> DEFINE new == Taken(pos, pos + r)
             t   == [[s EXCEPT !.num_read = s.num_read + r] EXCEPT !.given = s.given \o new]
  <2>3. TypeOK /\ End \in Nat BY InputTypes DEF HeadersInv
  <2>4. pos + r \in Ahead BY <1>2, <1>4, <2>2, <2>3 DEF Ahead
  <2>5. new \in Seq(Octets) /\ Len(new) = r BY <1>2, <2>2, <2>3, <2>4, TakenTypes
  <2>6. headers' = [headers EXCEPT ![i].cached_stream = t] BY <1>2, <1>4 DEF ParsedHeader, Stream
  <2> HIDE DEF new
  <2>7. /\ s.given \o new \in Seq(Octets) /\ Len(s.given \o new) = s.num_read + r
        /\ IsPrefix(s.given, s.given \o new)
    BY <1>2, <2>2, <2>5, ConcatProperties, PrefixOfConcat
  <2> DEFINE all == s.given \o new
  <2> HIDE DEF all
  <2>8. t = [[s EXCEPT !.num_read = s.num_read + r] EXCEPT !.given = all] BY DEF all
  <2>9. /\ all \in Seq(Octets) /\ Len(all) = s.num_read + r /\ IsPrefix(s.given, all)
        /\ s.num_read + r \in Nat /\ s.num_read + r <= s.max_read BY <2>7, <2>2a DEF all
  <2> HIDE DEF t
  <2>10. /\ t \in Stream /\ t.kind = s.kind /\ t.max_read = s.max_read
         /\ t.num_read = s.num_read + r /\ t.given = all BY <1>2, <2>8, <2>9 DEF Stream
  <2>11. pos' \in Nat /\ pos <= pos' BY <1>2, <1>4, <2>2
  <2> QED BY <1>2, <2>6, <2>9, <2>10, <2>11, StreamGoesOn
<1>5. \/ UNCHANGED << pos, headers >>
      \/ \E r \in 1..ToRead(left, n) :
           /\ pos + r <= End /\ pos' = pos + r
           /\ headers' = [headers EXCEPT
                            ![i].cached_stream.num_read = @ + r,
                            ![i].cached_stream.given = @ \o Taken(pos, pos + r)]
  BY Zenon DEF ReadDefinite
<1> QED BY <1>1, <1>3, <1>4, <1>5

LEMMA ReadChunkedAdvances ==
  ASSUME HeadersInv, NEW i \in DOMAIN headers, ReadChunked(i)
  PROVE  Advance /\ Answers
<1> DEFINE s == headers[i].cached_stream
<1>1. /\ s \in Stream /\ s.kind = "chunked" /\ HeaderInv(headers[i], pos)
      /\ s.max_read \in Nat /\ s.num_read \in Nat
      /\ s.num_read <= s.max_read
      /\ HasStream(headers[i]) /\ pos \in Nat
      /\ headers \in Seq(ParsedHeader) /\ headers[i] \in ParsedHeader
  BY HeaderTypes DEF ReadChunked, Stream, HeaderInv, HasStream
<1>2. ASSUME s.done, ret' = "end", UNCHANGED << pos, headers >>
      PROVE  Advance /\ Answers
  <2>1. Answers BY <1>2 DEF ReadChunked, Answers, Keeping, HeadersInv, TypeOK
  <2> QED BY <1>1, <1>2, <2>1, NoHeaderChanges
<1>3. ASSUME ~s.done, NEW e \in Ahead, NEW outcome \in Outcomes, pos' = e,
             IF outcome = "whole"
             THEN headers' = [headers EXCEPT ![i].cached_stream.given = Taken(pos, e),
                                             ![i].cached_stream.done = TRUE]
             ELSE UNCHANGED headers,
             ret' = CASE outcome = "whole" -> "octets"
                      [] outcome = "short" -> "error"
                      [] outcome = "lost"  -> "crashed"
      PROVE  Advance /\ Answers
  <2>1. ret' \in {"octets", "error", "crashed"} BY <1>3 DEF Outcomes
  <2>2. Answers BY <2>1 DEF ReadChunked, Answers, Keeping, HeadersInv, TypeOK
  <2>3. pos' \in Nat /\ pos <= pos' /\ Taken(pos, e) \in Seq(Octets)
    BY <1>3, TakenTypes DEF HeadersInv
  <2>4. CASE outcome # "whole" BY <1>3, <2>2, <2>3, <2>4, NoHeaderChanges
  <2>5. CASE outcome = "whole"
    <3> DEFINE new == Taken(pos, e)
               t   == [[s EXCEPT !.given = new] EXCEPT !.done = TRUE]
    <3>1. headers' = [headers EXCEPT ![i].cached_stream = t]
      BY <1>1, <1>3, <2>5 DEF ParsedHeader, Stream
    <3>2. s.given = <<>> /\ IsPrefix(s.given, new)
      BY <1>1, <1>3, <2>3, PrefixOfItself DEF HeaderInv
    <3>3. new \in Seq(Octets) BY <2>3
    <3> HIDE DEF new
    <3>4. /\ t \in Stream /\ t.kind = s.kind /\ t.max_read = s.max_read
          /\ t.num_read = s.num_read /\ t.given = new /\ t.done BY <1>1, <3>3 DEF Stream
    <3> HIDE DEF t
    <3>5. Advance BY <1>1, <2>3, <3>1, <3>2, <3>4, StreamGoesOn
    <3> QED BY <2>2, <3>5
  <2> QED BY <2>4, <2>5
<1>4. \/ s.done /\ ret' = "end" /\ UNCHANGED << pos, headers >>
      \/ /\ ~s.done
         /\ \E e \in Ahead, outcome \in Outcomes :
              /\ pos' = e
              /\ IF outcome = "whole"
                 THEN headers' = [headers EXCEPT ![i].cached_stream.given = Taken(pos, e),
                                                 ![i].cached_stream.done = TRUE]
                 ELSE UNCHANGED headers
              /\ ret' = CASE outcome = "whole" -> "octets"
                          [] outcome = "short" -> "error"
                          [] outcome = "lost"  -> "crashed" BY Zenon DEF ReadChunked
<1> QED BY <1>2, <1>3, <1>4

LEMMA StepAdvances ==
  ASSUME HeadersInv, Next
  PROVE  Advance /\ Answers
<1>1. CASE ParserNext BY <1>1, NextAdvances
<1>2. ASSUME NEW i \in DOMAIN headers, Call(i)
      PROVE  Advance /\ Answers
  <2>1. CASE SkipValue(i) BY <2>1, SkipValueAdvances
  <2>2. CASE ReadValue(i) BY <2>2, ReadValueAdvances
  <2>3. CASE ValueAgain(i) BY <2>3, ValueAgainAdvances
  <2>4. CASE ValueIo(i) BY <2>4, ValueIoAdvances
  <2>5. ASSUME NEW n \in ReadSizes, ReadDefinite(i, n)
        PROVE  Advance /\ Answers
    BY <2>5, ReadDefiniteAdvances
  <2>6. CASE ReadChunked(i) BY <2>6, ReadChunkedAdvances
  <2> QED BY <1>2, <2>1, <2>2, <2>3, <2>4, <2>5, <2>6 DEF Call
<1> QED BY <1>1, <1>2 DEF Next

-----------------------------------------------------------------------------
(* What reading an indefinite value takes: Chunks is a recursive function, *)
(* and chunks[p] depends on what lies behind p only.                       *)

ChunkAt(chunks, octets, p) ==
  LET h == next_header(octets, p)
      q == p + h.used
      e == q + h.header.length
  IN  IF ~h.ok THEN [outcome |-> "lost", end |-> q]
      ELSE IF IsEndOfContents(h.header) THEN EndsHere(h.header, q)
      ELSE IF h.header.infinite
           THEN IF chunks[q].outcome = "whole" THEN chunks[chunks[q].end] ELSE chunks[q]
      ELSE IF e > Len(octets) THEN [outcome |-> "short", end |-> Len(octets)]
      ELSE chunks[e]

LEMMA ChunkIsLocal ==
  ASSUME NEW octets \in Seq(Octets), NEW p \in 0..Len(octets), NEW f, NEW g,
         \A r \in (p + 1)..Len(octets) : f[r] = g[r] /\ f[r].end \in r..Len(octets)
  PROVE  /\ ChunkAt(f, octets, p) = ChunkAt(g, octets, p)
         /\ ChunkAt(f, octets, p).end \in p..Len(octets)
<1> DEFINE n == Len(octets)
           h == next_header(octets, p)
           q == p + h.used
           e == q + h.header.length
<1>1. /\ n \in Nat /\ p \in 0..n
      /\ h.used \in 0..(n - p)
      /\ h.ok => h.used >= 2 /\ h.header \in Header BY HeaderFacts
<1>2. h.ok => h.header.length \in Nat BY <1>1 DEF Header
<1> HIDE DEF h
<1>3. q \in p..n /\ n \in p..n BY <1>1
<1>4. ASSUME h.ok
      PROVE  /\ q \in (p + 1)..n
             /\ e <= n => e \in (p + 1)..n BY <1>1, <1>2, <1>4
<1> HIDE DEF n, q, e
<1>5. \A F : ChunkAt(F, octets, p) =
        IF ~h.ok THEN [outcome |-> "lost", end |-> q]
        ELSE IF IsEndOfContents(h.header) THEN EndsHere(h.header, q)
        ELSE IF h.header.infinite
             THEN IF F[q].outcome = "whole" THEN F[F[q].end] ELSE F[q]
        ELSE IF e > n THEN [outcome |-> "short", end |-> n]
        ELSE F[e] BY Zenon DEF ChunkAt, h, q, e, n
<1>6. \A r \in (p + 1)..n : f[r] = g[r] /\ f[r].end \in r..n BY DEF n
<1>7. \A r \in (p + 1)..n : r..n \subseteq (p + 1)..n /\ r..n \subseteq p..n BY <1>1
<1>8. ASSUME h.ok
      PROVE  f[q] = g[q] /\ f[q].end \in (p + 1)..n /\ f[q].end \in p..n
  BY <1>4, <1>6, <1>7, <1>8
<1>9. ASSUME h.ok
      PROVE  f[f[q].end] = g[g[q].end] /\ f[f[q].end].end \in p..n
  BY <1>6, <1>7, <1>8, <1>9
<1>10. ASSUME h.ok, ~(e > n)
       PROVE  f[e] = g[e] /\ f[e].end \in p..n
  <2>1. e \in (p + 1)..n BY <1>1, <1>2, <1>4, <1>10, e <= n DEF e, q
  <2> QED BY <1>6, <1>7, <2>1
<1>11. ChunkAt(f, octets, p) = ChunkAt(g, octets, p) BY <1>5, <1>8, <1>9, <1>10
<1>12. ChunkAt(f, octets, p).end \in p..n BY <1>3, <1>5, <1>8, <1>9, <1>10 DEF EndsHere
<1> QED BY <1>11, <1>12 DEF n

\* There is such a function: from the end of the octets on, value by value.
LEMMA ChunksExist ==
  ASSUME NEW octets \in Seq(Octets)
  PROVE  \E f : f = [p \in 0..Len(octets) |-> ChunkAt(f, octets, p)]
<1> DEFINE n == Len(octets)
           From(f, q) == \A p \in q..n :
                           f[p] = ChunkAt(f, octets, p) /\ f[p].end \in p..n
           IsFcn(f) == f = [p \in 0..n |-> f[p]]
           S == {m \in Nat : m <= n + 1 => \E f : IsFcn(f) /\ From(f, n + 1 - m)}
<1>1. n \in Nat OBVIOUS
<1> HIDE DEF n
<1>2. 0 \in S
  <2>1. IsFcn([p \in 0..n |-> 0]) OBVIOUS
  <2>2. \A f : From(f, n + 1 - 0) BY <1>1
  <2> QED BY <2>1, <2>2
<1>3. ASSUME NEW m \in Nat, m # 0, m - 1 \in S
      PROVE  m \in S
  <2> SUFFICES ASSUME m <= n + 1 PROVE \E f : IsFcn(f) /\ From(f, n + 1 - m) OBVIOUS
  <2> DEFINE q == n + 1 - m
  <2>1. q \in 0..n /\ n + 1 - (m - 1) = q + 1 /\ m - 1 <= n + 1 BY <1>1, <1>3
  <2>2. PICK f : IsFcn(f) /\ From(f, q + 1) BY <1>3, <2>1
  <2> DEFINE g == [p \in 0..n |-> IF p = q THEN ChunkAt(f, octets, q) ELSE f[p]]
  <2> HIDE DEF q
  <2>3. g[q] = ChunkAt(f, octets, q) BY <2>1
  <2>4. \A p \in (q + 1)..n : g[p] = f[p] BY <2>1
  <2>5. IsFcn(g) BY DEF g
  <2> HIDE DEF g
  <2>6. ASSUME NEW p \in q..n
        PROVE  ChunkAt(f, octets, p) = ChunkAt(g, octets, p)
               /\ ChunkAt(f, octets, p).end \in p..n
    <3>1. p \in 0..Len(octets) BY <2>1, <1>1 DEF n
    <3>2. \A r \in (p + 1)..Len(octets) : f[r] = g[r] /\ f[r].end \in r..Len(octets)
      <4> SUFFICES ASSUME NEW r \in (p + 1)..n PROVE f[r] = g[r] /\ f[r].end \in r..n
        BY DEF n
      <4>1. r \in (q + 1)..n BY <2>1, <1>1
      <4> QED BY <2>2, <2>4, <4>1
    <3> QED BY <3>1, <3>2, ChunkIsLocal DEF n
  <2>7. ASSUME NEW p \in q..n
        PROVE  g[p] = ChunkAt(f, octets, p)
    <3>1. p = q \/ p \in (q + 1)..n BY <2>1, <1>1
    <3> QED BY <2>2, <2>3, <2>4, <3>1
  <2>8. From(g, q) BY <2>6, <2>7
  <2> QED BY <2>5, <2>8 DEF q
<1>4. \A m \in Nat : (\A k \in 0..(m - 1) : k \in S) => m \in S
  <2> TAKE m \in Nat
  <2> HAVE \A k \in 0..(m - 1) : k \in S
  <2>1. m = 0 \/ m - 1 \in 0..(m - 1) OBVIOUS
  <2> HIDE DEF S
  <2> QED BY <1>2, <1>3, <2>1
<1>5. Nat \subseteq S
  <2> HIDE DEF S
  <2> QED BY <1>4, NaturalInduction
<1>6. n + 1 \in S /\ n + 1 \in Nat BY <1>1, <1>5
<1>7. PICK f : IsFcn(f) /\ From(f, n + 1 - (n + 1)) BY <1>1, <1>6
<1>8. \A p \in 0..n : f[p] = ChunkAt(f, octets, p) BY <1>1, <1>7
<1>9. f = [p \in 0..n |-> ChunkAt(f, octets, p)] BY <1>7, <1>8
<1> QED BY <1>9 DEF n

LEMMA ChunksDefined ==
  ASSUME NEW octets \in Seq(Octets), NEW p \in 0..Len(octets)
  PROVE  /\ Chunks(octets)[p] = ChunkAt(Chunks(octets), octets, p)
         /\ Chunks(octets)[p].end \in p..Len(octets)
<1> DEFINE n == Len(octets)
           c == Chunks(octets)
           S == {m \in Nat : m <= n => c[n - m].end \in (n - m)..n}
<1>1. c = CHOOSE f : f = [r \in 0..Len(octets) |-> ChunkAt(f, octets, r)]
  BY Zenon DEF Chunks, ChunkAt
<1> HIDE DEF c
<1>2. c = [r \in 0..Len(octets) |-> ChunkAt(c, octets, r)] BY <1>1, ChunksExist
<1>3. \A r \in 0..n : c[r] = ChunkAt(c, octets, r) BY <1>2
<1>4. n \in Nat OBVIOUS
<1>5. ASSUME NEW m \in Nat, \A k \in 0..(m - 1) : k \in S
      PROVE  m \in S
  <2> SUFFICES ASSUME m <= n PROVE c[n - m].end \in (n - m)..n OBVIOUS
  <2>1. n - m \in 0..n BY <1>4
  <2>2. ASSUME NEW r \in ((n - m) + 1)..n
        PROVE  c[r].end \in r..n
    <3>1. n - r \in 0..(m - 1) /\ n - r <= n /\ n - (n - r) = r BY <1>4
    <3>2. n - r \in S BY <1>5, <3>1
    <3> QED BY <3>1, <3>2
  <2>3. ChunkAt(c, octets, n - m).end \in (n - m)..n BY <2>1, <2>2, ChunkIsLocal
  <2> QED BY <1>3, <2>1, <2>3
<1>6. Nat \subseteq S
  <2> HIDE DEF S
  <2> QED BY <1>5, NaturalInduction
<1>7. n - p \in Nat /\ n - p <= n /\ n - (n - p) = p BY <1>4
<1>8. c[p].end \in p..n BY <1>6, <1>7
<1> QED BY <1>3, <1>8 DEF c

-----------------------------------------------------------------------------
(* The structure of what the IO holds.                                     *)

LEMMA ElementFacts ==
  ASSUME NEW i \in Inputs, NEW e \in i.elements
  PROVE  /\ i.octets \in Seq(Octets)
         /\ e.at \in 0..Len(i.octets) /\ e.start \in 0..Len(i.octets) /\ e.at + 2 <= e.start
         /\ next_header(i.octets, e.at).ok
         /\ e.header = next_header(i.octets, e.at).header
         /\ e.start = e.at + next_header(i.octets, e.at).used
         /\ e.header \in Header /\ e.header.length \in Nat
         /\ e.content \in Seq(Octets)
         /\ EndOf(e) \in Nat /\ EndOf(e) = e.start + Len(e.content)
         /\ EndOf(e) > Len(i.octets) => i.cut
         /\ e.header.infinite =>
              e.header.length = 0 /\ IsConstructed(e.header) /\ e.start < EndOf(e)
         /\ ~e.header.infinite => Len(e.content) = e.header.length
<1>1. i \in Input /\ IsStructure(i.elements, i.octets, i.cut) BY InputsAssumption
<1>2. /\ i.octets \in Seq(Octets) /\ e \in Element BY <1>1 DEF Input
<1>3. /\ e.at \in Nat /\ e.start \in Nat /\ e.content \in Seq(Octets) /\ e.header \in Header
      /\ e.header.length \in Nat /\ Len(e.content) \in Nat BY <1>2 DEF Element, Header
<1>4. /\ e.at <= Len(i.octets)
      /\ next_header(i.octets, e.at).ok
      /\ e.header = next_header(i.octets, e.at).header
      /\ e.start = e.at + next_header(i.octets, e.at).used
      /\ FitsHeader(e, i.elements)
      /\ EndOf(e) > Len(i.octets) => i.cut BY <1>1, Zenon DEF IsStructure
<1>5. e.at \in 0..Len(i.octets) BY <1>2, <1>3, <1>4
<1> DEFINE h == next_header(i.octets, e.at)
<1>6. /\ h.used \in 0..(Len(i.octets) - e.at) /\ h.used >= 2
      /\ h.header.infinite => h.header.length = 0 /\ IsConstructed(h.header)
  BY <1>2, <1>4, <1>5, HeaderFacts
<1> HIDE DEF h
<1>7. e.start \in 0..Len(i.octets) /\ e.at + 2 <= e.start BY <1>2, <1>3, <1>4, <1>5, <1>6 DEF h
<1>8. EndOf(e) \in Nat /\ EndOf(e) = e.start + Len(e.content) BY <1>3 DEF EndOf
<1>9. ASSUME e.header.infinite
      PROVE  e.header.length = 0 /\ IsConstructed(e.header) /\ e.start < EndOf(e)
  <2>1. e.content # <<>> BY <1>4, <1>9 DEF FitsHeader
  <2>2. Len(e.content) > 0 BY <1>3, <2>1
  <2> QED BY <1>3, <1>4, <1>6, <1>8, <1>9, <2>2 DEF h
<1>10. ~e.header.infinite => Len(e.content) = e.header.length BY <1>4 DEF FitsHeader
<1> QED BY <1>2, <1>3, <1>4, <1>5, <1>7, <1>8, <1>9, <1>10

LEMMA Nesting ==
  ASSUME NEW i \in Inputs, NEW e \in i.elements, NEW f \in i.elements
  PROVE  /\ e.at = f.at => e = f
         /\ e.at < f.at => e.start <= f.at
         /\ Within(e, f) => EndOf(e) <= EndOf(f) BY InputsAssumption, Zenon DEF IsStructure

LEMMA DueFacts ==
  ASSUME NEW i \in Inputs, NEW p \in Due(i.elements), p < Len(i.octets)
  PROVE  \/ \E e \in i.elements : e.at = p
         \/ i.cut /\ ~next_header(i.octets, p).ok BY InputsAssumption, Zenon DEF IsStructure

\* Where the next element of the value of e begins.
Listed(p, e, elements) ==
  \/ p = e.start
  \/ \E f \in elements :
       Child(f, e, elements) /\ ~IsEndOfContents(f.header) /\ p = EndOf(f)

LEMMA ListedFacts ==
  ASSUME NEW i \in Inputs, NEW e \in i.elements, e.header.infinite,
         NEW p, Listed(p, e, i.elements)
  PROVE  /\ p \in Nat /\ e.start <= p /\ p < EndOf(e) /\ p \in Due(i.elements)
         /\ \A f \in i.elements : f.at = p => Child(f, e, i.elements)
<1> DEFINE E == i.elements
<1>0. \A g \in E : /\ g.at \in Nat /\ g.start \in Nat /\ EndOf(g) \in Nat
                   /\ g.at + 2 <= g.start /\ g.start <= EndOf(g)
  <2> TAKE g \in E
  <2>1. /\ g.at \in Nat /\ g.start \in Nat /\ EndOf(g) \in Nat /\ g.at + 2 <= g.start
        /\ EndOf(g) = g.start + Len(g.content) /\ Len(g.content) \in Nat BY ElementFacts
  <2> QED BY <2>1
<1>1. e.start < EndOf(e) /\ IsConstructed(e.header) BY ElementFacts
<1>1a. FitsHeader(e, E) BY InputsAssumption, Zenon DEF IsStructure
<1>2. CASE p = e.start
  <2>1. p \in Due(E) BY <1>1, <1>2 DEF Due
  <2>2. ASSUME NEW f \in E, f.at = p
        PROVE  Child(f, e, E)
    <3>1. Within(f, e) BY <1>0, <1>1, <1>2, <2>2 DEF Within
    <3>2. ASSUME NEW g \in E, Within(f, g), Within(g, e)
          PROVE  FALSE
      BY <1>0, <1>2, <2>2, <3>2 DEF Within
    <3> QED BY <3>1, <3>2 DEF Child
  <2> QED BY <1>0, <1>1, <1>2, <2>1, <2>2
<1>3. ASSUME NEW c \in E, Child(c, e, E), ~IsEndOfContents(c.header), p = EndOf(c)
      PROVE  /\ p \in Nat /\ e.start <= p /\ p < EndOf(e) /\ p \in Due(E)
             /\ \A f \in E : f.at = p => Child(f, e, E)
  <2>1. p < EndOf(e) BY <1>1a, <1>3 DEF FitsHeader
  <2>2. Within(c, e) BY <1>3 DEF Child
  <2>3. e.start <= p /\ p \in Due(E) BY <1>0, <1>3, <2>2 DEF Within, Due
  <2>4. ASSUME NEW f \in E, f.at = p
        PROVE  Child(f, e, E)
    <3>1. Within(f, e) BY <2>1, <2>3, <2>4 DEF Within
    <3>2. ASSUME NEW g \in E, Within(f, g), Within(g, e)
          PROVE  FALSE
      <4>1. g.start <= p /\ p < EndOf(g) BY <2>4, <3>2 DEF Within
      <4>2. CASE g.at = c.at BY <1>3, <4>1, <4>2, Nesting, <1>0
      <4>3. CASE g.at < c.at
        <5>1. g.start <= c.at BY <4>3, Nesting
        <5>2. Within(c, g) BY <1>0, <1>3, <4>1, <5>1 DEF Within
        <5> QED BY <1>3, <3>2, <5>2 DEF Child
      <4>4. CASE g.at > c.at
        <5>1. c.start <= g.at BY <1>0, <4>4, Nesting
        <5>2. Within(g, c) BY <1>0, <1>3, <4>1, <5>1 DEF Within
        <5>3. EndOf(g) <= EndOf(c) BY <5>2, Nesting
        <5> QED BY <1>0, <1>3, <4>1, <5>3
      <4> QED BY <1>0, <4>2, <4>3, <4>4
    <3> QED BY <3>1, <3>2 DEF Child
  <2> QED BY <1>0, <1>3, <2>1, <2>3, <2>4
<1> QED BY <1>2, <1>3 DEF Listed

LEMMA ListIsRead ==
  ASSUME NEW i \in Inputs
  PROVE  \A e \in i.elements : \A p \in 0..Len(i.octets) :
           e.header.infinite /\ Listed(p, e, i.elements) =>
             IF Chunks(i.octets)[p].outcome = "whole"
             THEN Chunks(i.octets)[p].end = EndOf(e)
             ELSE i.cut
<1> DEFINE n == Len(i.octets)
           E == i.elements
           c == Chunks(i.octets)
           Read(p, e) == IF c[p].outcome = "whole" THEN c[p].end = EndOf(e) ELSE i.cut
           S == {m \in Nat : m <= n =>
                   \A e \in E : e.header.infinite /\ Listed(n - m, e, E) => Read(n - m, e)}
<1>1. i.octets \in Seq(Octets) /\ n \in Nat
  <2>1. i \in Input BY InputsAssumption
  <2> QED BY <2>1 DEF Input
<1>2. ASSUME NEW m \in Nat, \A k \in 0..(m - 1) : k \in S
      PROVE  m \in S
  <2> SUFFICES ASSUME m <= n, NEW e \in E, e.header.infinite, Listed(n - m, e, E)
               PROVE  Read(n - m, e)
    OBVIOUS
  <2> DEFINE p == n - m
  <2>1. p \in 0..n BY <1>1
  <2>2. ASSUME NEW r \in (p + 1)..n, NEW f \in E, f.header.infinite, Listed(r, f, E)
        PROVE  Read(r, f)
    <3>1. n - r \in 0..(m - 1) /\ n - r <= n /\ n - (n - r) = r BY <1>1
    <3>2. n - r \in S BY <1>2, <3>1
    <3> QED BY <2>2, <3>1, <3>2
  <2>2a. Listed(p, e, E) OBVIOUS
  <2> HIDE DEF p, S
  <2>3. /\ p < EndOf(e) /\ p \in Due(E)
        /\ \A f \in E : f.at = p => Child(f, e, E) BY <2>2a, ListedFacts
  <2> DEFINE h == next_header(i.octets, p)
             q == p + h.used
             x == q + h.header.length
  <2>4. /\ h.used \in 0..(n - p)
        /\ h.ok => h.used >= 2 BY <1>1, <2>1, HeaderFacts
  <2>5. c[p] = IF ~h.ok THEN [outcome |-> "lost", end |-> q]
               ELSE IF IsEndOfContents(h.header) THEN EndsHere(h.header, q)
               ELSE IF h.header.infinite
                    THEN IF c[q].outcome = "whole" THEN c[c[q].end] ELSE c[q]
               ELSE IF x > n THEN [outcome |-> "short", end |-> n]
               ELSE c[x]
    <3>1. c[p] = ChunkAt(c, i.octets, p) BY <1>1, <2>1, ChunksDefined
    <3> QED BY <3>1, Zenon DEF ChunkAt
  <2>6. \A r \in 0..n : c[r].end \in r..n BY <1>1, ChunksDefined
  <2> HIDE DEF c
  <2>7. CASE ~h.ok
    <3>1. i.cut
      <4>1. CASE p < n
        <5>1. \A f \in E : f.at = p => h.ok BY ElementFacts
        <5> QED BY <2>3, <2>7, <4>1, <5>1, DueFacts
      <4>2. CASE p = n BY <2>3, <4>2, ElementFacts
      <4> QED BY <1>1, <2>1, <4>1, <4>2
    <3>2. c[p].outcome # "whole" BY <2>5, <2>7
    <3> QED BY <3>1, <3>2 DEF p
  <2>8. CASE h.ok
    <3>1. p < n BY <1>1, <2>1, <2>4, <2>8
    <3>2. PICK f \in E : f.at = p BY <2>3, <2>8, <3>1, DueFacts
    <3>3. Child(f, e, E) BY <2>3, <3>2
    <3>4. /\ f.header = h.header /\ f.start = q /\ f.start \in 0..n /\ p + 2 <= f.start
          /\ EndOf(f) \in Nat /\ EndOf(f) = f.start + Len(f.content)
          /\ EndOf(f) > n => i.cut
          /\ f.header.length \in Nat /\ Len(f.content) \in Nat
          /\ ~f.header.infinite => Len(f.content) = f.header.length BY <3>2, ElementFacts
    <3> HIDE DEF h, q
    <3>4a. q \in (p + 1)..n BY <1>1, <2>1, <3>4
    <3>5. CASE IsEndOfContents(h.header)
      <4>1. f.start = EndOf(e) /\ h.header = TwoZeros
        <5>1. FitsHeader(e, E) BY InputsAssumption, Zenon DEF IsStructure
        <5> QED BY <3>3, <3>4, <3>5, <5>1 DEF FitsHeader
      <4>2. EndsHere(h.header, q) = [outcome |-> "whole", end |-> q] BY <4>1 DEF EndsHere, TwoZeros
      <4>3. c[p].outcome = "whole" /\ c[p].end = q BY <2>5, <2>8, <3>5, <4>2
      <4> QED BY <3>4, <4>1, <4>3 DEF p
    <3>6. ASSUME ~IsEndOfContents(h.header), EndOf(f) <= n
          PROVE  EndOf(f) \in (p + 1)..n /\ Read(EndOf(f), e)
      <4>1. EndOf(f) \in (p + 1)..n BY <1>1, <2>1, <3>4, <3>6
      <4>2. Listed(EndOf(f), e, E) BY <3>3, <3>4, <3>6 DEF Listed
      <4> QED BY <2>2, <4>1, <4>2
    <3>7. CASE ~IsEndOfContents(h.header) /\ h.header.infinite
      <4>1. Read(q, f)
        <5>1. Listed(q, f, E) BY <3>4 DEF Listed
        <5> QED BY <2>2, <3>4, <3>4a, <3>7, <5>1
      <4>2. CASE c[q].outcome = "whole"
        <5>1. c[q].end = EndOf(f) BY <4>1, <4>2
        <5>2. EndOf(f) <= n BY <1>1, <2>1, <2>6, <3>4, <3>4a, <5>1
        <5>3. c[p] = c[EndOf(f)] BY <2>5, <2>8, <3>7, <4>2, <5>1
        <5> QED BY <3>6, <3>7, <5>2, <5>3 DEF p
      <4>3. CASE c[q].outcome # "whole"
        <5>1. c[p] = c[q] BY <2>5, <2>8, <3>7, <4>3
        <5> QED BY <4>1, <4>3, <5>1 DEF p
      <4> QED BY <4>2, <4>3
    <3>8. CASE ~IsEndOfContents(h.header) /\ ~h.header.infinite
      <4>1. x = EndOf(f) BY <3>4, <3>8
      <4> HIDE DEF x
      <4>2. CASE x > n
        <5>1. c[p].outcome # "whole" BY <2>5, <2>8, <3>8, <4>2
        <5> QED BY <3>4, <4>1, <4>2, <5>1 DEF p
      <4>3. CASE ~(x > n)
        <5>1. c[p] = c[EndOf(f)] BY <2>5, <2>8, <3>8, <4>1, <4>3
        <5>2. EndOf(f) <= n BY <1>1, <3>4, <4>1, <4>3
        <5> QED BY <3>6, <3>8, <5>1, <5>2 DEF p
      <4> QED BY <4>2, <4>3
    <3> QED BY <3>5, <3>7, <3>8
  <2> QED BY <2>7, <2>8
<1>3. Nat \subseteq S
  <2> HIDE DEF S
  <2> QED BY <1>2, NaturalInduction
<1>4. ASSUME NEW e \in E, NEW p \in 0..n, e.header.infinite, Listed(p, e, E)
      PROVE  Read(p, e)
  <2>1. n - p \in Nat /\ n - p <= n /\ n - (n - p) = p BY <1>1
  <2> QED BY <1>3, <1>4, <2>1
<1> QED BY <1>4

-----------------------------------------------------------------------------
(* Programs that keep to the documented order.                             *)

Own(h) == ElementAt(h.at)

LEMMA ElementAtFacts ==
  ASSUME input \in Inputs, NEW e \in input.elements
  PROVE  ElementAt(e.at) = e
<1>1. \A f \in input.elements : f.at = e.at => f = e BY Nesting
<1> QED BY <1>1, Zenon DEF ElementAt

\* What is known of a header of such a program.
LEMMA OrderFacts ==
  ASSUME HeadersInv, OrderInv, orderly, NEW i \in DOMAIN headers
  PROVE  /\ input \in Inputs /\ input.octets \in Seq(Octets) /\ End \in Nat /\ pos \in Nat
         /\ Own(headers[i]) \in input.elements
         /\ OwnInv(headers[i], Own(headers[i]))
         /\ headers[i].at \in Nat /\ headers[i].start \in 0..End
         /\ headers[i].header.length \in Nat
         /\ Own(headers[i]).content \in Seq(Octets)
         /\ EndOf(Own(headers[i])) = headers[i].start + Len(Own(headers[i]).content)
         /\ EndOf(Own(headers[i])) > End => input.cut
         /\ headers[i].header.infinite =>
              headers[i].header.length = 0 /\ IsConstructed(headers[i].header)
         /\ ~headers[i].header.infinite =>
              Len(Own(headers[i]).content) = headers[i].header.length
<1> DEFINE h == headers[i]
           e == Own(h)
<1>1. input \in Inputs /\ pos \in Nat BY DEF HeadersInv, TypeOK
<1>2. e \in input.elements /\ OwnInv(h, e) BY Zenon DEF OrderInv, Own
<1>3. e.at = h.at /\ e.start = h.start /\ e.header = h.header BY <1>2 DEF OwnInv
<1> HIDE DEF e, h
<1>4. /\ input.octets \in Seq(Octets)
      /\ e.at \in 0..Len(input.octets) /\ e.start \in 0..Len(input.octets)
      /\ e.header.length \in Nat /\ e.content \in Seq(Octets)
      /\ EndOf(e) = e.start + Len(e.content)
      /\ EndOf(e) > Len(input.octets) => input.cut
      /\ e.header.infinite => e.header.length = 0 /\ IsConstructed(e.header)
      /\ ~e.header.infinite => Len(e.content) = e.header.length BY <1>1, <1>2, ElementFacts
<1>5. e.at \in Nat /\ e.start \in 0..End /\ End \in Nat BY <1>4 DEF End
<1> QED BY <1>1, <1>2, <1>3, <1>4, <1>5 DEF e, h, End

\* The types of the last header.
LEMMA LastFacts ==
  ASSUME HeadersInv, headers # <<>>
  PROVE  /\ headers \in Seq(ParsedHeader) /\ Len(headers) \in Nat
         /\ Len(headers) \in DOMAIN headers
         /\ \A i \in DOMAIN headers : headers[i] \in ParsedHeader /\ i <= Len(headers)
  BY DEF HeadersInv, TypeOK

\* The octets of a value are those behind its header.
LEMMA ContentFacts ==
  ASSUME NEW i \in Inputs, NEW e \in i.elements, NEW m \in 0..Len(e.content),
         NEW k \in 0..m, e.start + m <= Len(i.octets)
  PROVE  SubSeq(i.octets, e.start + k + 1, e.start + m) = SubSeq(e.content, k + 1, m)
<1> DEFINE o == i.octets
           c == e.content
           s == e.start
<1>1. o \in Seq(Octets) /\ c \in Seq(Octets) /\ s \in 0..Len(o) BY ElementFacts
<1>2. \A j \in DOMAIN c : s + j <= Len(o) => c[j] = o[s + j]
  BY InputsAssumption, Zenon DEF IsStructure
<1> HIDE DEF o, c, s
<1>3. Len(o) \in Nat /\ Len(c) \in Nat /\ s \in Nat /\ DOMAIN c = 1..Len(c) BY <1>1
<1>4. m \in Nat /\ k \in Nat /\ k <= m /\ m <= Len(c) /\ s + m <= Len(o) BY <1>3 DEF o, c, s
<1>5. /\ SubSeq(o, s + k + 1, s + m) = [j \in 1..(m - k) |-> o[j + (s + k + 1) - 1]]
      /\ SubSeq(c, k + 1, m) = [j \in 1..(m - k) |-> c[j + (k + 1) - 1]]
  <2>1. (s + m) - (s + k + 1) + 1 = m - k /\ m - (k + 1) + 1 = m - k BY <1>3, <1>4
  <2>2. /\ SubSeq(o, s + k + 1, s + m) =
             [j \in 1..((s + m) - (s + k + 1) + 1) |-> o[j + (s + k + 1) - 1]]
        /\ SubSeq(c, k + 1, m) = [j \in 1..(m - (k + 1) + 1) |-> c[j + (k + 1) - 1]]
    BY <1>1, <1>3, <1>4, Z3
  <2> QED BY <2>1, <2>2
<1>6. ASSUME NEW j \in 1..(m - k)
      PROVE  o[j + (s + k + 1) - 1] = c[j + (k + 1) - 1]
  <2>1. /\ j + (s + k + 1) - 1 = s + (j + k) /\ j + (k + 1) - 1 = j + k
        /\ j + k \in 1..Len(c) /\ s + (j + k) <= Len(o) BY <1>3, <1>4
  <2> QED BY <1>2, <1>3, <2>1
<1>7. SubSeq(o, s + k + 1, s + m) = SubSeq(c, k + 1, m) BY <1>5, <1>6
<1> QED BY <1>7 DEF o, c, s

\* The whole value, and a piece of it that a stream hands out.
LEMMA WholeContent ==
  ASSUME NEW i \in Inputs, NEW e \in i.elements, EndOf(e) <= Len(i.octets)
  PROVE  SubSeq(i.octets, e.start + 1, EndOf(e)) = e.content
<1>1. /\ e.content \in Seq(Octets) /\ e.start \in Nat /\ Len(e.content) \in Nat
      /\ EndOf(e) = e.start + Len(e.content) BY ElementFacts
<1>2. SubSeq(i.octets, e.start + 0 + 1, e.start + Len(e.content))
        = SubSeq(e.content, 0 + 1, Len(e.content))
  BY <1>1, ContentFacts, Len(e.content) \in 0..Len(e.content), 0 \in 0..Len(e.content)
<1>3. e.start + 0 + 1 = e.start + 1 /\ 0 + 1 = 1 BY <1>1
<1>4. SubSeq(e.content, 1, Len(e.content)) = e.content BY <1>1
<1> QED BY <1>1, <1>2, <1>3, <1>4

LEMMA PieceOfContent ==
  ASSUME NEW i \in Inputs, NEW e \in i.elements, NEW k \in Nat, NEW r \in Nat,
         k + r <= Len(e.content), e.start + k + r <= Len(i.octets)
  PROVE  SubSeq(e.content, 1, k) \o SubSeq(i.octets, e.start + k + 1, e.start + k + r)
           = SubSeq(e.content, 1, k + r)
<1> DEFINE c == e.content
<1>1. c \in Seq(Octets) /\ e.start \in Nat /\ Len(c) \in Nat /\ i.octets \in Seq(Octets)
      /\ Len(i.octets) \in Nat BY ElementFacts
<1>2. k + r \in 0..Len(c) /\ k \in 0..(k + r) /\ e.start + (k + r) <= Len(i.octets)
      /\ e.start + (k + r) = e.start + k + r BY <1>1
<1>3. SubSeq(i.octets, e.start + k + 1, e.start + (k + r)) = SubSeq(c, k + 1, k + r)
  BY <1>2, ContentFacts
<1> HIDE DEF c
<1>4. SubSeq(c, 1, k) \o SubSeq(c, k + 1, k + r) = SubSeq(c, 1, k + r)
  <2>1. /\ SubSeq(c, 1, k) \in Seq(Octets) /\ Len(SubSeq(c, 1, k)) = k
        /\ \A j \in 1..k : SubSeq(c, 1, k)[j] = c[j] BY <1>1, <1>2
  <2>2. /\ SubSeq(c, k + 1, k + r) \in Seq(Octets) /\ Len(SubSeq(c, k + 1, k + r)) = r
        /\ \A j \in 1..r : SubSeq(c, k + 1, k + r)[j] = c[k + j] BY <1>1, <1>2
  <2>3. /\ SubSeq(c, 1, k + r) \in Seq(Octets) /\ Len(SubSeq(c, 1, k + r)) = k + r
        /\ \A j \in 1..(k + r) : SubSeq(c, 1, k + r)[j] = c[j] BY <1>1, <1>2
  <2> DEFINE a == SubSeq(c, 1, k)
             b == SubSeq(c, k + 1, k + r)
             d == SubSeq(c, 1, k + r)
  <2> HIDE DEF a, b, d
  <2>4. /\ a \o b \in Seq(Octets) /\ Len(a \o b) = k + r
        /\ \A j \in 1..(k + r) : (a \o b)[j] = IF j <= k THEN a[j] ELSE b[j - k]
    BY <2>1, <2>2 DEF a, b
  <2>5. ASSUME NEW j \in 1..(k + r)
        PROVE  (a \o b)[j] = d[j]
    <3>1. CASE j <= k BY <2>1, <2>3, <2>4, <3>1 DEF a, d
    <3>2. CASE ~(j <= k)
      <4>1. j - k \in 1..r /\ k + (j - k) = j BY <3>2
      <4> QED BY <2>2, <2>3, <2>4, <3>2, <4>1 DEF b, d
    <3> QED BY <3>1, <3>2
  <2>6. d \in Seq(Octets) /\ Len(d) = k + r BY <2>3 DEF d
  <2>7. a \o b = d BY <2>4, <2>5, <2>6
  <2> QED BY <2>7 DEF a, b, d
<1> QED BY <1>2, <1>3, <1>4 DEF c

-----------------------------------------------------------------------------
(* What one call does to the state of such a program.                      *)

MayGoOn == orderly' => orderly /\ ~Ended

LEMMA NothingMoves ==
  ASSUME HeadersInv, OrderInv, MayGoOn, input' = input, headers' = headers,
         orderly' => IF ret' \in {"error", "crashed"} THEN input.cut ELSE pos' = pos
  PROVE  OrderInv'
<1> SUFFICES ASSUME orderly'
             PROVE  /\ \A i \in DOMAIN headers' :
                         /\ ElementAt(headers'[i].at) \in input.elements
                         /\ OwnInv(headers'[i], ElementAt(headers'[i].at))
                    /\ IF Ended' THEN input.cut ELSE StandInv' BY Zenon DEF OrderInv, ElementAt
<1>1. orderly /\ ~Ended BY DEF MayGoOn
<1>3. \A i \in DOMAIN headers :
        /\ ElementAt(headers[i].at) \in input.elements
        /\ OwnInv(headers[i], ElementAt(headers[i].at)) BY <1>1, Zenon DEF OrderInv
<1>4. StandInv BY <1>1, Zenon DEF OrderInv
<1>5. ASSUME ~Ended'
      PROVE  StandInv'
  <2>1. pos' = pos BY <1>5 DEF Ended
  <2>2. \A e : Covered(e) => Covered(e)' BY DEF Covered, ElementAt
  <2> QED BY <1>4, <2>1, <2>2 DEF StandInv, ElementAt
<1>6. Ended' => input.cut BY DEF Ended
<1> QED BY <1>3, <1>5, <1>6

\* A call that changes the last header.
LEMMA LastMoves ==
  ASSUME HeadersInv, OrderInv, MayGoOn, input' = input, headers # <<>>,
         NEW g \in ParsedHeader, headers' = [headers EXCEPT ![Len(headers)] = g],
         orderly' => /\ ret' \notin {"error", "crashed"}
                     /\ OwnInv(g, Own(headers[Len(headers)]))
                     /\ pos' = g.start + Moved(g, Own(headers[Len(headers)]).content)
                     /\ Passed(headers[Len(headers)]) => Passed(g)
  PROVE  OrderInv'
<1> SUFFICES ASSUME orderly'
             PROVE  /\ \A i \in DOMAIN headers' :
                         /\ ElementAt(headers'[i].at) \in input.elements
                         /\ OwnInv(headers'[i], ElementAt(headers'[i].at))
                    /\ IF Ended' THEN input.cut ELSE StandInv' BY Zenon DEF OrderInv, ElementAt
<1> DEFINE l == Len(headers)
           h == headers[l]
           e == Own(h)
<1>1. orderly /\ ~Ended /\ ~Ended' BY DEF MayGoOn, Ended
<1>3. \A i \in DOMAIN headers :
        /\ ElementAt(headers[i].at) \in input.elements
        /\ OwnInv(headers[i], ElementAt(headers[i].at)) BY <1>1, Zenon DEF OrderInv
<1>4. StandInv BY <1>1, Zenon DEF OrderInv
<1>5. /\ headers \in Seq(ParsedHeader) /\ l \in Nat /\ l \in DOMAIN headers BY LastFacts
<1>6. /\ DOMAIN headers' = DOMAIN headers /\ headers'[l] = g
      /\ \A i \in DOMAIN headers : i # l => headers'[i] = headers[i] BY <1>5
<1>7. Len(headers') = l /\ headers' # <<>> BY <1>5, ExceptSeq
<1> HIDE DEF l
<1>8. /\ OwnInv(g, e) /\ OwnInv(h, e)
      /\ pos' = g.start + Moved(g, e.content)
      /\ Passed(h) => Passed(g) BY <1>3, <1>5 DEF Own, l
<1>9. g.at = h.at /\ g.start = h.start BY <1>8 DEF OwnInv
<1>10. ASSUME NEW i \in DOMAIN headers'
       PROVE  /\ ElementAt(headers'[i].at) \in input.elements
              /\ OwnInv(headers'[i], ElementAt(headers'[i].at))
  <2>1. CASE i = l BY <1>3, <1>5, <1>6, <1>8, <1>9, <2>1 DEF Own
  <2>2. CASE i # l BY <1>3, <1>6, <2>2
  <2> QED BY <2>1, <2>2
<1>11. ASSUME NEW x, Covered(x)
       PROVE  Covered(x)'
  <2>1. PICK i \in DOMAIN headers :
          \/ headers[i].at = x.at
          \/ /\ Passed(headers[i]) /\ headers[i].start <= x.at
             /\ x.at < headers[i].start + Len(ElementAt(headers[i].at).content)
    BY <1>11, Zenon DEF Covered
  <2>2. i \in DOMAIN headers' BY <1>6
  <2>3. /\ headers'[i].at = headers[i].at /\ headers'[i].start = headers[i].start
        /\ Passed(headers[i]) => Passed(headers'[i]) BY <1>5, <1>6, <1>8, <1>9
  <2>4. \/ headers'[i].at = x.at
        \/ /\ Passed(headers'[i]) /\ headers'[i].start <= x.at
           /\ x.at < headers'[i].start + Len(ElementAt(headers'[i].at).content) BY <2>1, <2>3
  <2> QED BY <2>2, <2>4, Zenon DEF Covered, ElementAt
<1>12. StandInv'
  <2>1. /\ \A x \in input.elements : x.at < h.start => Covered(x) BY <1>4 DEF StandInv, l
  <2>2. pos' = headers'[l].start + Moved(headers'[l], ElementAt(headers'[l].at).content)
    BY <1>6, <1>5, <1>8, <1>9 DEF Own
  <2>3. \A x \in input.elements : x.at < headers'[l].start => Covered(x)'
    BY <1>5, <1>6, <1>9, <1>11, <2>1
  <2> QED BY <1>7, <2>2, <2>3, Zenon DEF StandInv, ElementAt
<1> QED BY <1>1, <1>10, <1>12

\* The last header, and where the IO stands.
LEMMA Standing ==
  ASSUME HeadersInv, OrderInv, orderly, ~Ended, headers # <<>>
  PROVE  LET h == headers[Len(headers)] IN
         /\ pos = h.start + Moved(h, Own(h).content)
         /\ \A e \in input.elements : e.at < h.start => Covered(e)
  BY Zenon DEF OrderInv, StandInv, Own

LEMMA UntouchedFacts ==
  ASSUME HeadersInv, OrderInv, orderly, ~Ended, NEW i \in DOMAIN headers, MayConsume(i)
  PROVE  /\ i = Len(headers) /\ headers # <<>>
         /\ ~headers[i].consumed /\ ~headers[i].skipped
         /\ ~HasStream(headers[i]) /\ headers[i].value = <<>>
         /\ headers[i].cached_stream.given = <<>> /\ ~headers[i].cached_stream.done
         /\ pos = headers[i].start
         /\ ~Passed(headers[i])
<1> DEFINE h == headers[i]
<1>1. i = Len(headers) /\ ~h.consumed /\ ~h.skipped BY DEF MayConsume, IsLast, Untouched
<1>2. headers # <<>> /\ h.start \in Nat BY HeaderTypes
<1>3. HeaderInv(h, pos) /\ h.cached_stream \in Stream BY HeaderTypes
<1>4. ~HasStream(h) /\ h.value = <<>> BY <1>1, <1>3 DEF HeaderInv
<1>5. OwnInv(h, Own(h)) BY OrderFacts
<1>6. h.cached_stream.given = <<>> /\ ~h.cached_stream.done
  BY <1>4, <1>5 DEF OwnInv, Given, HasStream
<1>7. pos = h.start + Moved(h, Own(h).content) BY <1>1, <1>2, Standing
<1>8. Moved(h, Own(h).content) = 0 BY <1>1, <1>6 DEF Moved
<1>9. ~Passed(h) BY <1>1 DEF Passed
<1> QED BY <1>1, <1>2, <1>4, <1>6, <1>7, <1>8, <1>9

\* What is read of the value of an untouched header.
LEMMA ValueIsRead ==
  ASSUME HeadersInv, OrderInv, orderly, NEW i \in DOMAIN headers,
         pos = headers[i].start,
         NEW e, NEW outcome \in Outcomes,
         ReadsValue(headers[i].header, pos, outcome, e)
  PROVE  IF outcome = "whole"
         THEN e = EndOf(Own(headers[i])) /\ Taken(pos, e) = Own(headers[i]).content
         ELSE input.cut
<1> DEFINE h == headers[i]
           o == Own(h)
           n == Len(input.octets)
<1>1. /\ input \in Inputs /\ input.octets \in Seq(Octets) /\ End \in Nat /\ End = n
      /\ o \in input.elements /\ OwnInv(h, o)
      /\ h.start \in 0..n /\ pos \in 0..n
      /\ h.header.length \in Nat /\ o.content \in Seq(Octets)
      /\ EndOf(o) = h.start + Len(o.content)
      /\ EndOf(o) > End => input.cut
      /\ ~h.header.infinite => Len(o.content) = h.header.length BY OrderFacts DEF End
<1>2. o.start = h.start /\ o.header = h.header BY <1>1 DEF OwnInv
<1> HIDE DEF h, o
<1>3. CASE h.header.infinite
  <2>1. Chunks(input.octets)[pos] = [outcome |-> outcome, end |-> e]
    BY <1>1, <1>3 DEF ReadsValue, h
  <2>2. Listed(pos, o, input.elements) BY <1>2 DEF Listed, h
  <2>3. IF Chunks(input.octets)[pos].outcome = "whole"
        THEN Chunks(input.octets)[pos].end = EndOf(o)
        ELSE input.cut BY <1>1, <1>2, <1>3, <2>2, ListIsRead
  <2>4. Chunks(input.octets)[pos].end \in pos..n BY <1>1, ChunksDefined
  <2>5. /\ Chunks(input.octets)[pos].outcome = outcome
        /\ Chunks(input.octets)[pos].end = e BY <2>1
  <2>6. ASSUME outcome = "whole"
        PROVE  e = EndOf(o) /\ Taken(pos, e) = o.content
    <3>1. e = EndOf(o) /\ EndOf(o) <= n BY <1>1, <2>3, <2>4, <2>5, <2>6
    <3> QED BY <1>1, <1>2, <3>1, WholeContent DEF Taken, h
  <2> QED BY <2>3, <2>5, <2>6 DEF h, o
<1>4. CASE ~h.header.infinite
  <2>1. Len(o.content) = h.header.length /\ pos + h.header.length = EndOf(o) BY <1>1, <1>4 DEF h
  <2>2. ASSUME outcome = "whole"
        PROVE  e = EndOf(o) /\ EndOf(o) <= n
    BY <1>1, <1>4, <2>1, <2>2 DEF ReadsValue, h
  <2>3. ASSUME outcome # "whole"
        PROVE  EndOf(o) > n
    BY <1>1, <1>4, <2>1, <2>3 DEF ReadsValue, h
  <2>4. ASSUME outcome = "whole"
        PROVE  Taken(pos, e) = o.content
    BY <1>1, <1>2, <2>2, <2>4, WholeContent DEF Taken, h
  <2> QED BY <1>1, <2>2, <2>3, <2>4 DEF h, o
<1> QED BY <1>3, <1>4

LEMMA SkipValueOrders ==
  ASSUME HeadersInv, OrderInv, NEW i \in DOMAIN headers, SkipValue(i)
  PROVE  OrderInv' /\ ret' # "nil"
<1> DEFINE h == headers[i]
           g == [h EXCEPT !.skipped = TRUE]
<1>1. headers' = [headers EXCEPT ![i] = g] /\ ret' = "skipped" /\ input' = input BY DEF SkipValue
<1>2. orderly' => orderly /\ ~Ended /\ MayConsume(i) BY DEF SkipValue, Keeping
<1>3. h \in ParsedHeader /\ h.header.length \in Nat BY HeaderTypes
<1>4. ASSUME orderly'
      PROVE  /\ i = Len(headers) /\ headers # <<>> /\ g \in ParsedHeader
             /\ OwnInv(g, Own(h)) /\ pos' = g.start + Moved(g, Own(h).content)
             /\ Passed(h) => Passed(g)
  <2>1. /\ i = Len(headers) /\ headers # <<>> /\ ~h.consumed /\ ~h.skipped
        /\ pos = h.start BY <1>2, <1>4, UntouchedFacts
  <2>2. OwnInv(h, Own(h)) BY <1>2, <1>4, OrderFacts
  <2>3. /\ g \in ParsedHeader /\ g.skipped /\ g.at = h.at /\ g.start = h.start
        /\ g.header = h.header /\ g.consumed = h.consumed /\ g.value = h.value
        /\ g.cached_stream = h.cached_stream BY <1>3 DEF ParsedHeader
  <2> HIDE DEF g, h
  <2>4. OwnInv(g, Own(h)) BY <2>1, <2>2, <2>3 DEF OwnInv, Given, HasStream
  <2>5. pos' = pos + h.header.length BY DEF SkipValue, SkipTo, h
  <2> QED BY <2>1, <2>3, <2>4, <2>5 DEF Moved, Passed
<1> HIDE DEF g, h
<1>5. CASE orderly' BY <1>1, <1>2, <1>4, <1>5, LastMoves DEF MayGoOn, h
<1>6. CASE ~orderly' BY <1>1, <1>6 DEF OrderInv
<1> QED BY <1>1, <1>5, <1>6

LEMMA ReadValueOrders ==
  ASSUME HeadersInv, OrderInv, NEW i \in DOMAIN headers, ReadValue(i)
  PROVE  OrderInv' /\ ret' # "nil"
<1>1. PICK e \in Ahead, outcome \in Outcomes :
        /\ ReadsValue(headers[i].header, pos, outcome, e)
        /\ pos' = e
        /\ IF outcome = "whole"
           THEN headers' = [headers EXCEPT ![i].value = Answer(headers[i], Taken(pos, e)),
                                           ![i].consumed = TRUE]
           ELSE UNCHANGED headers
        /\ ret' = CASE outcome = "whole" -> "value"
                    [] outcome = "short" -> "error"
                    [] outcome = "lost"  -> "crashed" BY Zenon DEF ReadValue
<1>2. /\ ret' \in {"value", "error", "crashed"}
      /\ outcome = "whole" => ret' = "value"
      /\ outcome # "whole" => ret' \in {"error", "crashed"} BY <1>1 DEF Outcomes
<1>3. /\ orderly' => orderly /\ ~Ended /\ MayConsume(i)
      /\ input' = input BY DEF ReadValue, Keeping
<1>4. CASE ~orderly' BY <1>2, <1>4 DEF OrderInv
<1>5. CASE orderly'
  <2> DEFINE h == headers[i]
             t == Taken(pos, e)
             v == Answer(h, t)
             g == [[h EXCEPT !.value = v] EXCEPT !.consumed = TRUE]
  <2>1. /\ i = Len(headers) /\ headers # <<>> /\ ~h.consumed /\ ~h.skipped
        /\ pos = h.start /\ ~Passed(h) /\ ~HasStream(h)
        /\ h.cached_stream.given = <<>> /\ ~h.cached_stream.done BY <1>3, <1>5, UntouchedFacts
  <2>2. IF outcome = "whole" THEN e = EndOf(Own(h)) /\ t = Own(h).content ELSE input.cut
    BY <1>1, <1>3, <1>5, <2>1, ValueIsRead
  <2>3. CASE outcome # "whole" BY <1>1, <1>2, <1>3, <2>2, <2>3, NothingMoves DEF MayGoOn
  <2>4. CASE outcome = "whole"
    <3>1. /\ OwnInv(h, Own(h)) /\ h \in ParsedHeader /\ headers \in Seq(ParsedHeader)
          /\ Own(h).content \in Seq(Octets)
          /\ EndOf(Own(h)) = h.start + Len(Own(h).content) BY <1>3, <1>5, OrderFacts, HeaderTypes
    <3>2. v = IF t = <<>> /\ Tag(h.header) \in {0, 5} THEN <<>> ELSE << t >> BY Zenon DEF Answer
    <3> HIDE DEF t, v, h
    <3>3. /\ v # <<>> => v[1] = t
          /\ v = <<>> => t = <<>>
          /\ v \in Seq(Seq(Octets)) BY <2>2, <2>4, <3>1, <3>2
    <3>4. headers' = [headers EXCEPT ![i] = g] BY <1>1, <2>4, <3>1 DEF v, h, t
    <3>5. /\ g.skipped = h.skipped /\ g.at = h.at /\ g.start = h.start
          /\ g.header = h.header /\ g.consumed /\ g.value = v
          /\ g.cached_stream = h.cached_stream /\ g \in ParsedHeader
      BY <3>1, <3>3 DEF ParsedHeader
    <3> HIDE DEF g
    <3>6. OwnInv(g, Own(h)) BY <2>1, <2>2, <2>4, <3>1, <3>3, <3>5 DEF OwnInv, Given, HasStream
    <3>7. pos' = g.start + Moved(g, Own(h).content)
      BY <1>1, <2>1, <2>2, <2>4, <3>1, <3>5 DEF Moved, HasStream
    <3>8. ret' \notin {"error", "crashed"} BY <1>2, <2>4
    <3> QED BY <1>2, <1>3, <2>1, <3>4, <3>5, <3>6, <3>7, <3>8, LastMoves DEF MayGoOn, h
  <2> QED BY <2>3, <2>4
<1> QED BY <1>2, <1>4, <1>5

LEMMA ValueAgainOrders ==
  ASSUME HeadersInv, OrderInv, NEW i \in DOMAIN headers, ValueAgain(i)
  PROVE  OrderInv' /\ ret' # "nil"
<1>1. /\ input' = input /\ headers' = headers /\ pos' = pos /\ ret' \in {"taken", "value"}
      /\ MayGoOn BY DEF ValueAgain, Keeping, MayGoOn
<1> QED BY <1>1, NothingMoves

LEMMA ValueIoOrders ==
  ASSUME HeadersInv, OrderInv, NEW i \in DOMAIN headers, ValueIo(i)
  PROVE  OrderInv' /\ ret' # "nil"
<1> DEFINE h == headers[i]
           s == krypt_asn1_get_value_stream(h.header)
           g == [[h EXCEPT !.consumed = TRUE] EXCEPT !.cached_stream = s]
<1>1. /\ input' = input /\ pos' = pos /\ ret' \in {"taken", "stream"} /\ MayGoOn
  BY DEF ValueIo, Keeping, MayGoOn
<1>2. CASE UNCHANGED headers BY <1>1, <1>2, NothingMoves
<1>3. ASSUME headers' = [headers EXCEPT ![i].consumed = TRUE, ![i].cached_stream = s],
             Keeping(MayConsume(i))
      PROVE  OrderInv'
  <2>1. CASE ~orderly' BY <2>1 DEF OrderInv
  <2>2. CASE orderly'
    <3>1. orderly /\ ~Ended /\ MayConsume(i) BY <1>3, <2>2 DEF Keeping
    <3>2. /\ i = Len(headers) /\ headers # <<>> /\ ~h.consumed /\ ~h.skipped
          /\ pos = h.start /\ ~Passed(h) /\ h.value = <<>> BY <3>1, UntouchedFacts
    <3>3. /\ OwnInv(h, Own(h)) /\ h \in ParsedHeader /\ headers \in Seq(ParsedHeader)
          /\ Own(h).content \in Seq(Octets) /\ h.start \in Nat /\ h.header \in Header
      BY <3>1, OrderFacts, HeaderTypes
    <3>4. headers' = [headers EXCEPT ![i] = g] BY <1>3, <3>3
    <3>5. /\ s \in Stream /\ s.num_read = 0 /\ s.given = <<>> /\ ~s.done
          /\ s.kind = IF h.header.infinite THEN "chunked" ELSE "definite"
      <4>1. /\ s \in Stream /\ s.num_read = 0 /\ s.given = <<>> BY <3>3, NewStream
      <4> DEFINE kind == IF h.header.infinite THEN "chunked" ELSE "definite"
      <4>2. s = [[NoStream EXCEPT !.kind = kind] EXCEPT !.max_read = h.header.length]
        BY DEF krypt_asn1_get_value_stream
      <4> HIDE DEF kind, s
      <4>3. s.kind = kind /\ ~s.done BY <4>2 DEF NoStream
      <4> QED BY <4>1, <4>3 DEF kind
    <3> HIDE DEF s, h
    <3>6. /\ g.skipped = h.skipped /\ g.at = h.at /\ g.start = h.start
          /\ g.header = h.header /\ g.consumed /\ g.value = h.value
          /\ g.cached_stream = s /\ g \in ParsedHeader BY <3>3, <3>5 DEF ParsedHeader
    <3> HIDE DEF g
    <3>7. SubSeq(Own(h).content, 1, 0) = <<>> BY <3>3
    <3>8. Given(g, Own(h).content) = <<>> BY <3>5, <3>6, <3>7 DEF Given
    <3>9. OwnInv(g, Own(h)) BY <3>2, <3>3, <3>5, <3>6, <3>8 DEF OwnInv, HasStream
    <3>10. pos' = g.start + Moved(g, Own(h).content)
      <4>1. HasStream(g) /\ ~g.skipped BY <3>2, <3>5, <3>6 DEF HasStream
      <4>2. Moved(g, Own(h).content) = 0 BY <3>5, <3>6, <4>1 DEF Moved
      <4> QED BY <1>1, <3>2, <3>3, <3>6, <4>2
    <3> QED BY <1>1, <3>2, <3>4, <3>6, <3>9, <3>10, LastMoves DEF h
  <2> QED BY <2>1, <2>2
<1>4. \/ UNCHANGED headers
      \/ /\ headers' = [headers EXCEPT ![i].consumed = TRUE, ![i].cached_stream = s]
         /\ Keeping(MayConsume(i)) BY Zenon DEF ValueIo
<1> QED BY <1>1, <1>2, <1>3, <1>4

LEMMA ReadDefiniteOrders ==
  ASSUME HeadersInv, OrderInv, NEW i \in DOMAIN headers, NEW n \in ReadSizes, ReadDefinite(i, n)
  PROVE  OrderInv' /\ ret' # "nil"
<1> DEFINE h == headers[i]
           s == h.cached_stream
           left == s.max_read - s.num_read
<1>1. /\ input' = input /\ s.kind = "definite"
      /\ orderly' => orderly /\ ~Ended /\ i = Len(headers) BY DEF ReadDefinite, Keeping, IsLast
<1>2. ret' \in {"end", "error", "octets"} BY DEF ReadDefinite
<1>3. CASE ~orderly' BY <1>2, <1>3 DEF OrderInv
<1>4. CASE orderly'
  <2>1. /\ h \in ParsedHeader /\ headers \in Seq(ParsedHeader) /\ HeaderInv(h, pos)
        /\ s \in Stream /\ h.start \in Nat BY HeaderTypes
  <2>2. /\ s.max_read \in Nat /\ s.num_read \in Nat /\ s.given \in Seq(Octets)
        /\ HasStream(h) /\ h.consumed /\ s.max_read = h.header.length
        /\ s.num_read <= s.max_read /\ Len(s.given) = s.num_read
    BY <1>1, <2>1 DEF Stream, HasStream, HeaderInv
  <2>3. /\ OwnInv(h, Own(h)) /\ Own(h).content \in Seq(Octets) /\ Own(h) \in input.elements
        /\ EndOf(Own(h)) = h.start + Len(Own(h).content)
        /\ EndOf(Own(h)) > End => input.cut
        /\ ~h.header.infinite => Len(Own(h).content) = h.header.length
        /\ input \in Inputs /\ End \in Nat /\ pos \in Nat BY <1>1, <1>4, OrderFacts
  <2>4. /\ Own(h).start = h.start
        /\ ~h.skipped /\ ~h.header.infinite /\ ~s.done
        /\ s.given = SubSeq(Own(h).content, 1, s.num_read) BY <1>1, <2>2, <2>3 DEF OwnInv, Given
  <2>5. headers # <<>> BY <2>1
  <2>6. pos = h.start + s.num_read
    <3>1. pos = h.start + Moved(h, Own(h).content) BY <1>1, <1>4, <2>5, Standing
    <3> QED BY <2>2, <2>4, <3>1 DEF Moved
  <2>7. CASE ret' = "end" /\ UNCHANGED << pos, headers >>
    BY <1>1, <1>2, <2>7, NothingMoves DEF MayGoOn
  <2>8. CASE ret' = "error" /\ left # 0 /\ pos >= End /\ UNCHANGED << pos, headers >>
    <3>1. EndOf(Own(h)) > End
      <4>1. s.num_read < Len(Own(h).content)
        <5>1. s.num_read # s.max_read BY <2>2, <2>8
        <5> HIDE DEF s, h
        <5> QED BY <2>2, <2>3, <2>4, <5>1
      <4> HIDE DEF s, h
      <4> QED BY <2>1, <2>2, <2>3, <2>6, <2>8, <4>1
    <3> QED BY <1>1, <1>2, <2>3, <2>8, <3>1, NothingMoves DEF MayGoOn
  <2>9. ASSUME ret' = "octets", left # 0,
               NEW r \in 1..ToRead(left, n), pos + r <= End, pos' = pos + r,
               headers' = [headers EXCEPT
                             ![i].cached_stream.num_read = @ + r,
                             ![i].cached_stream.given = @ \o Taken(pos, pos + r)]
        PROVE  OrderInv'
    <3> DEFINE new == Taken(pos, pos + r)
               c   == Own(h).content
               t   == [[s EXCEPT !.num_read = s.num_read + r] EXCEPT !.given = s.given \o new]
               g   == [h EXCEPT !.cached_stream = t]
    <3>1. r \in Nat /\ r <= left /\ n \in Nat /\ left \in Nat
      <4>1. n \in Nat /\ left \in Nat BY <2>2, ReadSizesAssumption
      <4> QED BY <4>1 DEF ToRead
    <3>2. s.num_read + r \in Nat /\ s.num_read + r <= s.max_read
      <4> HIDE DEF s
      <4> QED BY <2>2, <3>1
    <3>3. s.given \o new = SubSeq(c, 1, s.num_read + r)
      <4>1. /\ s.num_read + r <= Len(c)
            /\ h.start + s.num_read + r <= Len(input.octets)
        BY <2>2, <2>3, <2>4, <2>6, <2>9, <3>2 DEF End
      <4> DEFINE k == s.num_read
                 o == Own(h)
      <4>2. /\ k \in Nat /\ o \in input.elements /\ k + r <= Len(o.content)
            /\ o.start + k + r <= Len(input.octets) BY <2>2, <2>3, <2>4, <4>1
      <4>3. /\ pos = o.start + k /\ pos + r = o.start + k + r
            /\ s.given = SubSeq(o.content, 1, k) BY <2>4, <2>6
      <4> HIDE DEF k, o
      <4>4. SubSeq(o.content, 1, k) \o SubSeq(input.octets, o.start + k + 1, o.start + k + r)
              = SubSeq(o.content, 1, k + r) BY <2>3, <3>1, <4>2, PieceOfContent
      <4>5. s.given \o SubSeq(input.octets, pos + 1, pos + r) = SubSeq(o.content, 1, k + r)
        BY <4>3, <4>4
      <4> QED BY <4>5 DEF Taken, k, o
    <3>4. /\ SubSeq(c, 1, s.num_read + r) \in Seq(Octets)
          /\ Len(SubSeq(c, 1, s.num_read + r)) = s.num_read + r BY <2>2, <2>3, <2>4, <3>2
    <3> DEFINE all == SubSeq(c, 1, s.num_read + r)
    <3>5. headers' = [headers EXCEPT ![i] = g] BY <2>1, <2>9 DEF ParsedHeader, Stream
    <3> HIDE DEF new, c, all, g
    <3>6. /\ t.kind = s.kind /\ t.num_read = s.num_read + r /\ t.given = all
          /\ t.done = s.done /\ t \in Stream
      <4>1. t = [[s EXCEPT !.num_read = s.num_read + r] EXCEPT !.given = all] BY <3>3 DEF all
      <4>2. all \in Seq(Octets) BY <3>4 DEF all
      <4> HIDE DEF t
      <4> QED BY <2>1, <3>2, <4>1, <4>2 DEF Stream
    <3> HIDE DEF t
    <3>7. /\ g.skipped = h.skipped /\ g.at = h.at /\ g.start = h.start
          /\ g.header = h.header /\ g.consumed = h.consumed /\ g.value = h.value
          /\ g.cached_stream = t /\ g \in ParsedHeader BY <2>1, <3>6 DEF ParsedHeader, g
    <3>8. Given(g, Own(h).content) = all /\ HasStream(g)
      BY <1>1, <3>6, <3>7 DEF Given, HasStream, all, c
    <3>9. OwnInv(g, Own(h)) BY <1>1, <2>2, <2>3, <2>4, <3>6, <3>7, <3>8 DEF OwnInv
    <3>10. pos' = g.start + Moved(g, Own(h).content)
      <4>1. Moved(g, Own(h).content) = s.num_read + r
        BY <2>4, <3>4, <3>6, <3>7, <3>8 DEF Moved, all
      <4>2. pos' = h.start + s.num_read + r BY <2>6, <2>9
      <4> QED BY <2>1, <2>2, <3>1, <3>7, <4>1, <4>2
    <3>11. ~Passed(h) BY <1>1, <2>2, <2>4, <2>9 DEF Passed, StreamEnded
    <3> HIDE DEF h, s, left
    <3>12. ret' \notin {"error", "crashed"} /\ (Passed(h) => Passed(g)) BY <2>9, <3>11
    <3> QED BY <1>1, <2>5, <3>5, <3>7, <3>9, <3>10, <3>12, <1>4, LastMoves DEF MayGoOn, h
  <2>10. \/ ret' = "end" /\ UNCHANGED << pos, headers >>
         \/ ret' = "error" /\ left # 0 /\ pos >= End /\ UNCHANGED << pos, headers >>
         \/ /\ ret' = "octets" /\ left # 0
            /\ \E r \in 1..ToRead(left, n) :
                 /\ pos + r <= End /\ pos' = pos + r
                 /\ headers' = [headers EXCEPT
                                  ![i].cached_stream.num_read = @ + r,
                                  ![i].cached_stream.given = @ \o Taken(pos, pos + r)]
    BY Zenon DEF ReadDefinite
  <2> QED BY <1>2, <2>7, <2>8, <2>9, <2>10
<1> QED BY <1>3, <1>4

LEMMA ReadChunkedOrders ==
  ASSUME HeadersInv, OrderInv, NEW i \in DOMAIN headers, ReadChunked(i)
  PROVE  OrderInv' /\ ret' # "nil"
<1> DEFINE h == headers[i]
           s == h.cached_stream
<1>1. /\ input' = input /\ s.kind = "chunked"
      /\ orderly' => orderly /\ ~Ended /\ i = Len(headers) BY DEF ReadChunked, Keeping, IsLast
<1>2. CASE ret' = "end" /\ UNCHANGED << pos, headers >> BY <1>1, <1>2, NothingMoves DEF MayGoOn
<1>3. ASSUME ~s.done, NEW e \in Ahead, NEW outcome \in Outcomes,
             ReadsValue(headers[i].header, pos, outcome, e), pos' = e,
             IF outcome = "whole"
             THEN headers' = [headers EXCEPT ![i].cached_stream.given = Taken(pos, e),
                                             ![i].cached_stream.done = TRUE]
             ELSE UNCHANGED headers,
             ret' = CASE outcome = "whole" -> "octets"
                      [] outcome = "short" -> "error"
                      [] outcome = "lost"  -> "crashed"
      PROVE  OrderInv' /\ ret' # "nil"
  <2>1. /\ ret' \in {"octets", "error", "crashed"}
        /\ outcome = "whole" => ret' = "octets"
        /\ outcome # "whole" => ret' \in {"error", "crashed"} BY <1>3 DEF Outcomes
  <2>2. CASE ~orderly' BY <2>1, <2>2 DEF OrderInv
  <2>3. CASE orderly'
    <3> DEFINE t == Taken(pos, e)
               u == [[s EXCEPT !.given = t] EXCEPT !.done = TRUE]
               g == [h EXCEPT !.cached_stream = u]
    <3>1. /\ h \in ParsedHeader /\ headers \in Seq(ParsedHeader) /\ HeaderInv(h, pos)
          /\ s \in Stream /\ h.start \in Nat BY HeaderTypes
    <3>2. /\ OwnInv(h, Own(h)) /\ Own(h).content \in Seq(Octets)
          /\ EndOf(Own(h)) = h.start + Len(Own(h).content) BY <1>1, <2>3, OrderFacts
    <3>3. HasStream(h) /\ h.consumed /\ ~h.skipped /\ s.given = <<>>
      BY <1>1, <1>3, <3>1, <3>2 DEF HasStream, HeaderInv, OwnInv
    <3>4. headers # <<>> BY <3>1
    <3>5. pos = h.start
      <4>1. pos = h.start + Moved(h, Own(h).content) BY <1>1, <2>3, <3>4, Standing
      <4> QED BY <3>1, <3>3, <4>1 DEF Moved
    <3>6. IF outcome = "whole" THEN e = EndOf(Own(h)) /\ t = Own(h).content ELSE input.cut
      BY <1>1, <1>3, <2>3, <3>5, ValueIsRead
    <3>7. CASE outcome # "whole" BY <1>1, <1>3, <2>1, <3>6, <3>7, NothingMoves DEF MayGoOn
    <3>8. CASE outcome = "whole"
      <4>1. headers' = [headers EXCEPT ![i] = g] BY <1>3, <3>1, <3>8 DEF ParsedHeader, Stream
      <4> HIDE DEF t
      <4>2. t \in Seq(Octets) /\ t = Own(h).content BY <3>2, <3>6, <3>8
      <4>3. u.kind = s.kind /\ u.given = t /\ u.done /\ u \in Stream BY <3>1, <4>2 DEF Stream
      <4> HIDE DEF u
      <4>4. /\ g.skipped = h.skipped /\ g.at = h.at /\ g.start = h.start
            /\ g.header = h.header /\ g.consumed = h.consumed /\ g.value = h.value
            /\ g.cached_stream = u /\ g \in ParsedHeader BY <3>1, <4>3 DEF ParsedHeader
      <4> HIDE DEF g
      <4>5. Given(g, Own(h).content) = Own(h).content /\ HasStream(g)
        BY <1>1, <4>3, <4>4 DEF Given, HasStream
      <4>6. OwnInv(g, Own(h)) BY <1>1, <3>2, <3>3, <4>2, <4>3, <4>4, <4>5 DEF OwnInv
      <4>7. pos' = g.start + Moved(g, Own(h).content)
        BY <1>3, <3>2, <3>3, <3>6, <3>8, <4>2, <4>3, <4>4, <4>5 DEF Moved
      <4>8. Passed(g) BY <3>3, <4>3, <4>4 DEF Passed, StreamEnded
      <4>9. ret' \notin {"error", "crashed"} BY <2>1, <3>8
      <4> HIDE DEF h, s
      <4> QED
        BY <1>1, <2>1, <2>3, <3>4, <4>1, <4>4, <4>6, <4>7, <4>8, <4>9, LastMoves DEF MayGoOn, h
    <3> QED BY <3>7, <3>8
  <2> QED BY <2>2, <2>3
<1>4. \/ ret' = "end" /\ UNCHANGED << pos, headers >>
      \/ /\ ~s.done
         /\ \E e \in Ahead, outcome \in Outcomes :
              /\ ReadsValue(headers[i].header, pos, outcome, e)
              /\ pos' = e
              /\ IF outcome = "whole"
                 THEN headers' = [headers EXCEPT ![i].cached_stream.given = Taken(pos, e),
                                                 ![i].cached_stream.done = TRUE]
                 ELSE UNCHANGED headers
              /\ ret' = CASE outcome = "whole" -> "octets"
                          [] outcome = "short" -> "error"
                          [] outcome = "lost"  -> "crashed" BY Zenon DEF ReadChunked
<1> QED BY <1>2, <1>3, <1>4

\* Where such a program may parse a header, one is due, and nothing before
\* this place was missed.
LEMMA NextIsDue ==
  ASSUME HeadersInv, OrderInv, orderly, ~Ended, MayParse
  PROVE  /\ pos \in Due(input.elements)
         /\ \A e \in input.elements : e.at < pos => Covered(e)
<1>1. CASE headers = <<>>
  <2>1. pos = 0 BY <1>1, Zenon DEF OrderInv, StandInv
  <2>2. \A e \in input.elements : e.at \in Nat BY ElementFacts DEF HeadersInv, TypeOK
  <2> QED BY <2>1, <2>2 DEF Due
<1>2. CASE headers # <<>>
  <2> DEFINE l == Len(headers)
             h == headers[l]
             s == h.cached_stream
             o == Own(h)
  <2>1. l \in DOMAIN headers BY <1>2, LastFacts
  <2>2. /\ OwnInv(h, o) /\ o \in input.elements /\ o.content \in Seq(Octets)
        /\ EndOf(o) = h.start + Len(o.content)
        /\ h.header.length \in Nat /\ h.start \in Nat
        /\ h.header.infinite => h.header.length = 0 /\ IsConstructed(h.header)
        /\ ~h.header.infinite => Len(o.content) = h.header.length BY <2>1, OrderFacts
  <2>3. /\ pos = h.start + Moved(h, o.content)
        /\ \A e \in input.elements : e.at < h.start => Covered(e) BY <1>2, Standing
  <2>4. HeaderInv(h, pos) /\ s \in Stream BY <2>1, HeaderTypes
  <2>5. /\ o.start = h.start /\ o.header = h.header
        /\ ~(h.skipped /\ h.consumed)
        /\ s.given = Given(h, o.content)
        /\ s.done => s.kind = "chunked"
        /\ HasStream(h) => (s.kind = "chunked" <=> h.header.infinite) BY <2>2 DEF OwnInv
  <2>6. Len(o.content) \in Nat /\ SubSeq(o.content, 1, Len(o.content)) = o.content BY <2>2
  <2>7. \/ Passed(h)
        \/ Untouched(h) /\ (IsConstructed(h.header) \/ h.header.length = 0) BY <1>2 DEF MayParse
  <2> HIDE DEF l, o
  <2>8. IsConstructed(h.header) => h.start \in Due(input.elements) BY <2>2, <2>5 DEF Due
  <2>9. EndOf(o) \in Due(input.elements) BY <2>2 DEF Due
  <2>10. ASSUME Passed(h), pos = EndOf(o)
         PROVE  /\ pos \in Due(input.elements)
                /\ \A e \in input.elements : e.at < pos => Covered(e)
    <3>1. ASSUME NEW e \in input.elements, e.at < pos
          PROVE  Covered(e)
      <4>1. e.at \in Nat BY <3>1, ElementFacts DEF HeadersInv, TypeOK
      <4>2. CASE e.at < h.start BY <2>3, <4>2
      <4>3. CASE ~(e.at < h.start)
        <5>1. h.start <= e.at /\ e.at < h.start + Len(ElementAt(h.at).content)
          BY <2>2, <2>10, <3>1, <4>1, <4>3 DEF o, Own
        <5> QED BY <2>1, <2>10, <5>1 DEF Covered
      <4> QED BY <4>2, <4>3
    <3> QED BY <2>9, <2>10, <3>1
  <2>11. ASSUME pos = h.start, IsConstructed(h.header) \/ pos = EndOf(o)
         PROVE  /\ pos \in Due(input.elements)
                /\ \A e \in input.elements : e.at < pos => Covered(e) BY <2>3, <2>8, <2>9, <2>11
  <2>12. CASE h.skipped
    <3>1. pos = h.start + h.header.length /\ Passed(h) BY <2>3, <2>12 DEF Moved, Passed
    <3>2. CASE h.header.infinite BY <2>2, <2>11, <3>1, <3>2
    <3>3. CASE ~h.header.infinite BY <2>2, <2>10, <3>1, <3>3
    <3> QED BY <3>2, <3>3
  <2>13. CASE ~h.skipped /\ h.consumed
    <3>1. Passed(h) BY <2>7, <2>13 DEF Untouched
    <3>2. CASE ~HasStream(h)
      <4>1. pos = EndOf(o) BY <2>2, <2>3, <2>13, <3>2 DEF Moved
      <4> QED BY <2>10, <3>1, <4>1
    <3>3. CASE HasStream(h)
      <4>1. s.done \/ (s.kind = "definite" /\ s.num_read = s.max_read)
        BY <2>13, <3>1, <3>3 DEF Passed, StreamEnded
      <4>2. s.given = o.content
        <5>1. CASE s.done BY <2>5, <5>1 DEF Given
        <5>2. CASE s.kind = "definite" /\ s.num_read = s.max_read
          <6>1. s.max_read = h.header.length /\ ~h.header.infinite
            BY <2>4, <2>5, <3>3, <5>2 DEF HeaderInv
          <6>2. s.num_read = Len(o.content) BY <2>2, <5>2, <6>1
          <6> QED BY <2>5, <2>6, <5>2, <6>2 DEF Given
        <5> QED BY <4>1, <5>1, <5>2
      <4>3. pos = EndOf(o) BY <2>2, <2>3, <2>13, <3>3, <4>2 DEF Moved
      <4> QED BY <2>10, <3>1, <4>3
    <3> QED BY <3>2, <3>3
  <2>14. CASE ~h.skipped /\ ~h.consumed
    <3>1. ~Passed(h) /\ (IsConstructed(h.header) \/ h.header.length = 0)
      BY <2>7, <2>14 DEF Passed
    <3>2. ~HasStream(h) BY <2>4, <2>14 DEF HeaderInv
    <3>3. s.given = <<>> BY <2>5, <3>2 DEF Given, HasStream
    <3>4. pos = h.start BY <2>2, <2>3, <2>14, <3>3 DEF Moved
    <3>5. IsConstructed(h.header) \/ pos = EndOf(o) BY <2>2, <3>1, <3>4
    <3> QED BY <2>11, <3>4, <3>5
  <2> QED BY <2>12, <2>13, <2>14
<1> QED BY <1>1, <1>2

LEMMA NextOrders ==
  ASSUME HeadersInv, OrderInv, ParserNext
  PROVE  OrderInv' /\ NothingMissed'
<1>0. /\ input' = input
      /\ orderly' => orderly /\ ~Ended /\ MayParse
      /\ input \in Inputs /\ input.octets \in Seq(Octets) /\ End \in Nat /\ pos \in Nat
      /\ headers \in Seq(ParsedHeader) BY InputTypes DEF ParserNext, Keeping, HeadersInv, TypeOK
<1>1. CASE ~orderly' BY <1>1 DEF OrderInv, NothingMissed
<1>2. CASE orderly'
  <2> DEFINE h == next_header(input.octets, pos)
             g == int_asn1_header_new(h.header, pos, pos')
  <2>1. /\ pos \in Due(input.elements)
        /\ \A e \in input.elements : e.at < pos => Covered(e) BY <1>0, <1>2, NextIsDue
  <2>2. CASE pos >= End /\ ret' = "nil" /\ UNCHANGED << pos, headers >>
    <3>1. OrderInv' BY <1>0, <2>2, NothingMoves DEF MayGoOn
    <3>2. ASSUME NEW e \in input.elements
          PROVE  Covered(e)
      <4>1. e.at \in Nat /\ e.at < End BY <1>0, ElementFacts DEF End
      <4> QED BY <1>0, <2>1, <2>2, <4>1
    <3>3. NothingMissed'
      BY <1>0, <2>2, <3>2 DEF NothingMissed, Covered, ElementAt, Passed, HasStream
    <3> QED BY <3>1, <3>3
  <2>3. CASE pos < End /\ ~h.ok /\ ret' = "error" /\ UNCHANGED headers
    <3>1. input.cut
      <4>1. \A e \in input.elements : e.at = pos => h.ok BY <1>0, ElementFacts
      <4> QED BY <1>0, <2>1, <2>3, <4>1, DueFacts DEF End
    <3>2. OrderInv' BY <1>0, <2>3, <3>1, NothingMoves DEF MayGoOn
    <3>3. NothingMissed' BY <2>3 DEF NothingMissed
    <3> QED BY <3>2, <3>3
  <2>4. CASE pos < End /\ h.ok /\ pos' = pos + h.used /\ ret' = "header"
             /\ headers' = Append(headers, g)
    <3>1. PICK e \in input.elements : e.at = pos BY <1>0, <2>1, <2>4, DueFacts DEF End
    <3>2. /\ e.header = h.header /\ e.start = pos' /\ ElementAt(pos) = e
          /\ e.content \in Seq(Octets) /\ pos' \in Nat
      <4>1. /\ e.header = h.header /\ e.start = pos + h.used /\ e.start \in Nat
            /\ e.content \in Seq(Octets) BY <1>0, <3>1, ElementFacts
      <4> QED BY <1>0, <2>4, <3>1, <4>1, ElementAtFacts
    <3>3. /\ g.at = pos /\ g.start = pos' /\ g.header = h.header
          /\ ~g.consumed /\ ~g.skipped /\ g.value = <<>>
          /\ g.cached_stream.kind = "none" /\ g.cached_stream.given = <<>>
          /\ ~g.cached_stream.done BY DEF int_asn1_header_new, NoStream
    <3> HIDE DEF g, h
    <3>4. OwnInv(g, e) BY <3>1, <3>2, <3>3 DEF OwnInv, Given, HasStream
    <3>5. /\ Len(headers) \in Nat /\ Len(headers') = Len(headers) + 1
          /\ DOMAIN headers = 1..Len(headers) /\ DOMAIN headers' = 1..(Len(headers) + 1)
          /\ \A j \in DOMAIN headers : headers'[j] = headers[j]
          /\ headers'[Len(headers) + 1] = g /\ headers' # <<>>
      <4>1. Len(headers) \in Nat /\ DOMAIN headers = 1..Len(headers) BY <1>0
      <4>2. /\ DOMAIN headers' = 1..(Len(headers) + 1)
            /\ \A j \in 1..Len(headers) : headers'[j] = headers[j]
            /\ headers'[Len(headers) + 1] = g /\ Len(headers') = Len(headers) + 1 BY <1>0, <2>4
      <4>3. Len(headers) + 1 \in DOMAIN headers' BY <4>1, <4>2
      <4> QED BY <4>1, <4>2, <4>3
    <3>6. ASSUME NEW j \in DOMAIN headers'
          PROVE  /\ ElementAt(headers'[j].at) \in input.elements
                 /\ OwnInv(headers'[j], ElementAt(headers'[j].at))
      <4>1. j \in DOMAIN headers \/ j = Len(headers) + 1 BY <3>5
      <4>2. CASE j \in DOMAIN headers
        <5>1. /\ ElementAt(headers[j].at) \in input.elements
              /\ OwnInv(headers[j], ElementAt(headers[j].at))
          BY <1>0, <1>2, <4>2, Zenon DEF OrderInv
        <5> QED BY <3>5, <4>2, <5>1
      <4>3. CASE j = Len(headers) + 1 BY <3>1, <3>2, <3>3, <3>4, <3>5, <4>3
      <4> QED BY <4>1, <4>2, <4>3
    <3>7. ASSUME NEW x \in input.elements, x.at < pos'
          PROVE  Covered(x)'
      <4>1. CASE x.at < pos
        <5>1. PICK j \in DOMAIN headers :
                \/ headers[j].at = x.at
                \/ /\ Passed(headers[j]) /\ headers[j].start <= x.at
                   /\ x.at < headers[j].start + Len(ElementAt(headers[j].at).content)
          BY <2>1, <4>1, Zenon DEF Covered
        <5>2. j \in DOMAIN headers' /\ headers'[j] = headers[j] BY <3>5
        <5>3. \/ headers'[j].at = x.at
              \/ /\ Passed(headers'[j]) /\ headers'[j].start <= x.at
                 /\ x.at < headers'[j].start + Len(ElementAt(headers'[j].at).content)
          BY <5>1, <5>2
        <5> QED BY <1>0, <5>2, <5>3, Zenon DEF Covered, ElementAt
      <4>2. CASE ~(x.at < pos)
        <5>1. x.at \in Nat BY <1>0, ElementFacts
        <5>2. CASE x.at = pos
          <6>1. Len(headers) + 1 \in DOMAIN headers'
                /\ headers'[Len(headers) + 1].at = x.at BY <3>3, <3>5, <5>2
          <6> QED BY <6>1, Zenon DEF Covered
        <5>3. CASE x.at > pos
          <6>1. e.start <= x.at BY <1>0, <3>1, <5>3, Nesting
          <6> QED BY <3>2, <3>7, <5>1, <6>1
        <5> QED BY <1>0, <4>2, <5>1, <5>2, <5>3
      <4> QED BY <4>1, <4>2
    <3>8. StandInv'
      <4>1. pos' = g.start + Moved(g, ElementAt(g.at).content)
        <5>1. Len(g.cached_stream.given) = 0 BY <3>3
        <5>2. Moved(g, ElementAt(g.at).content) = 0 BY <3>3, <5>1 DEF Moved
        <5> QED BY <3>2, <3>3, <5>2
      <4>2. headers'[Len(headers')] = g BY <3>5
      <4>3. \A x \in input.elements : x.at < g.start => Covered(x)' BY <3>3, <3>7
      <4> QED BY <1>0, <3>5, <4>1, <4>2, <4>3, Zenon DEF StandInv, ElementAt
    <3>9. ~Ended' BY <2>4 DEF Ended
    <3>10. OrderInv' BY <1>0, <3>6, <3>8, <3>9, Zenon DEF OrderInv, ElementAt
    <3>11. NothingMissed' BY <2>4 DEF NothingMissed
    <3> QED BY <3>10, <3>11
  <2>5. \/ pos >= End /\ ret' = "nil" /\ UNCHANGED << pos, headers >>
        \/ pos < End /\ ~h.ok /\ ret' = "error" /\ UNCHANGED headers
        \/ /\ pos < End /\ h.ok /\ pos' = pos + h.used /\ ret' = "header"
           /\ headers' = Append(headers, g) BY Zenon DEF ParserNext
  <2> QED BY <2>2, <2>3, <2>4, <2>5
<1> QED BY <1>1, <1>2

-----------------------------------------------------------------------------
(* The theorems.                                                           *)

LEMMA StepOrders ==
  ASSUME HeadersInv, OrderInv, Next
  PROVE  OrderInv' /\ NothingMissed'
<1>1. CASE ParserNext BY <1>1, NextOrders
<1>2. ASSUME NEW i \in DOMAIN headers, Call(i)
      PROVE  OrderInv' /\ ret' # "nil"
  <2>1. CASE SkipValue(i) BY <2>1, SkipValueOrders
  <2>2. CASE ReadValue(i) BY <2>2, ReadValueOrders
  <2>3. CASE ValueAgain(i) BY <2>3, ValueAgainOrders
  <2>4. CASE ValueIo(i) BY <2>4, ValueIoOrders
  <2>5. ASSUME NEW n \in ReadSizes, ReadDefinite(i, n)
        PROVE  OrderInv' /\ ret' # "nil"
    BY <2>5, ReadDefiniteOrders
  <2>6. CASE ReadChunked(i) BY <2>6, ReadChunkedOrders
  <2> QED BY <1>2, <2>1, <2>2, <2>3, <2>4, <2>5, <2>6 DEF Call
<1>3. ASSUME ret' # "nil"
      PROVE  NothingMissed'
  BY <1>3 DEF NothingMissed
<1> QED BY <1>1, <1>2, <1>3 DEF Next

\* NothingMissed is about the last call only: it is proved step by step.
Inv == IInv /\ NothingMissed

LEMMA InitInvariant == Init => Inv
<1>1. Init => HeadersInv BY DEF Init, HeadersInv, TypeOK
<1>2. Init => OrderInv /\ NothingMissed BY DEF Init, OrderInv, NothingMissed, StandInv, Ended
<1> QED BY <1>1, <1>2 DEF Inv, IInv

LEMMA StepInvariant == Inv /\ [Next]_vars => Inv'
<1> SUFFICES ASSUME Inv, [Next]_vars PROVE Inv' OBVIOUS
<1>1. HeadersInv /\ OrderInv BY DEF Inv, IInv
<1>2. CASE Next
  <2>1. HeadersInv' BY <1>1, <1>2, StepAdvances, Preserves
  <2>2. OrderInv' /\ NothingMissed' BY <1>1, <1>2, StepOrders
  <2> QED BY <2>1, <2>2 DEF Inv, IInv
<1>3. CASE UNCHANGED vars
  <2>1. HeadersInv' BY <1>1, <1>3 DEF vars, HeadersInv, TypeOK
  <2>2. OrderInv' BY <1>1, <1>3 DEF vars, OrderInv, ElementAt, Ended, StandInv, Covered
  <2>3. NothingMissed' BY <1>3 DEF Inv, vars, NothingMissed, ElementAt
  <2> QED BY <2>1, <2>2, <2>3 DEF Inv, IInv
<1> QED BY <1>2, <1>3

\* The inductive invariant holds for every program (krypt_asn1_parser_next and
\* the methods of Header), with what it says of one that keeps to the
\* documented order, on every encoding of InputsAssumption: identifiers have
\* one octet, and only 00 00 ends an indefinite value.
THEOREM ParserInvariant == Spec => []IInv
<1>1. Spec => []Inv BY InitInvariant, StepInvariant, PTL DEF Spec
<1>2. Inv => IInv BY DEF Inv
<1> QED BY <1>1, <1>2, PTL

\* Every variable has its type.
THEOREM ParserTyped == Spec => []TypeOK
<1>1. IInv => TypeOK BY DEF IInv, HeadersInv
<1> QED BY <1>1, ParserInvariant, PTL

\* A value is handed out by value or by one Instream, which gives no more than
\* the length in the header, and headers come from octets behind one another
\* (the flag consumed of krypt_asn1_header_value and _value_io).
THEOREM ValuesGoOneWay == Spec => []OneWayToValue
<1>1. IInv => OneWayToValue
  <2> SUFFICES ASSUME HeadersInv PROVE OneWayToValue BY DEF IInv
  <2>1. ASSUME NEW i \in DOMAIN headers
        PROVE  LET h == headers[i]
                   s == h.cached_stream
               IN  /\ HasStream(h) => h.consumed /\ h.value = <<>>
                   /\ h.value # <<>> => h.consumed
                   /\ s.kind = "definite" => Len(s.given) <= h.header.length
    BY HeaderTypes DEF HeaderInv, HasStream, Stream
  <2> QED BY <2>1 DEF OneWayToValue, HeadersInv
<1> QED BY <1>1, ParserInvariant, PTL

\* What a header has answered once it answers ever after, and the IO moves
\* only forward.
THEOREM AnswersAreCached == Spec => CachedAnswers
<1> DEFINE Cached ==
      /\ \A i \in DOMAIN headers :
           headers[i].consumed =>
             /\ headers'[i].consumed
             /\ headers'[i].value = headers[i].value
             /\ headers'[i].cached_stream.kind = headers[i].cached_stream.kind
             /\ IsPrefix(headers[i].cached_stream.given, headers'[i].cached_stream.given)
      /\ pos <= pos'
<1>1. IInv /\ [Next]_vars => [Cached]_vars BY StepAdvances DEF IInv, Advance, Follows
<1>2. Spec => [][Cached]_vars BY <1>1, ParserInvariant, PTL DEF Spec
<1> QED BY <1>2 DEF CachedAnswers

\* Every header that next gives to a program that keeps to the documented order
\* is one of the encoding, however values are skipped, consumed or descended
\* into (krypt_asn1_parser_next), for the encodings of InputsAssumption.
THEOREM HeadersAreOfTheEncoding == Spec => []HeadersAreElements
<1>1. IInv => HeadersAreElements
  <2> SUFFICES ASSUME HeadersInv, OrderInv, orderly, NEW i \in DOMAIN headers
               PROVE  \E e \in input.elements :
                        /\ e.at = headers[i].at /\ e.start = headers[i].start
                        /\ e.header = headers[i].header BY Zenon DEF IInv, HeadersAreElements
  <2>1. Own(headers[i]) \in input.elements /\ OwnInv(headers[i], Own(headers[i])) BY OrderFacts
  <2> QED BY <2>1 DEF OwnInv
<1> QED BY <1>1, ParserInvariant, PTL

\* What value returns to such a program are the octets of the value, and its
\* Instream gives a beginning of them (krypt_asn1_header_value, _value_io);
\* nil or an empty string stands for a value without octets (Answer).
THEOREM ValuesAreTheirOwn == Spec => []OwnValues
<1>1. IInv => OwnValues
  <2> SUFFICES ASSUME HeadersInv, OrderInv, orderly, NEW i \in DOMAIN headers
               PROVE  LET h   == headers[i]
                          own == Own(headers[i]).content
                      IN  /\ h.value # <<>> => h.value[1] = own
                          /\ h.consumed /\ ~HasStream(h) /\ h.value = <<>> => own = <<>>
                          /\ IsPrefix(h.cached_stream.given, own)
                          /\ h.cached_stream.done => h.cached_stream.given = own
    BY Zenon DEF IInv, OwnValues, Own
  <2> DEFINE h   == headers[i]
             s   == h.cached_stream
             own == Own(h).content
  <2>1. OwnInv(h, Own(h)) /\ own \in Seq(Octets) BY OrderFacts
  <2>1a. ~h.header.infinite => Len(own) = h.header.length BY OrderFacts
  <2>2. HeaderInv(h, pos) /\ s \in Stream BY HeaderTypes
  <2> HIDE DEF h
  <2>3. s.given = Given(h, own) /\ (s.done => s.kind = "chunked") BY <2>1 DEF OwnInv
  <2>4. IsPrefix(s.given, own)
    <3>1. CASE s.kind = "none" BY <2>1, <2>3, <3>1, PrefixOfItself DEF Given
    <3>2. CASE s.kind = "chunked" BY <2>1, <2>3, <3>2, PrefixOfItself DEF Given
    <3>3. CASE s.kind = "definite"
      <4>1. s.num_read \in Nat /\ s.num_read <= Len(own)
        <5>1. ~h.header.infinite BY <2>1, <3>3 DEF OwnInv, HasStream
        <5> QED BY <2>1a, <2>2, <3>3, <5>1 DEF HeaderInv, HasStream, Stream, h
      <4>2. s.given = SubSeq(own, 1, s.num_read) BY <2>3, <3>3 DEF Given
      <4> HIDE DEF own, s
      <4>3. /\ Len(s.given) = s.num_read /\ s.given \in Seq(Octets)
            /\ \A j \in 1..s.num_read : s.given[j] = own[j] BY <2>1, <4>1, <4>2
      <4>4. SubSeq(s.given, 1, s.num_read) = s.given BY <4>1, <4>3
      <4> QED BY <4>1, <4>2, <4>3, <4>4 DEF IsPrefix
    <3> QED BY <2>2, <3>1, <3>2, <3>3 DEF Stream
  <2>5. s.done => s.given = own BY <2>3 DEF Given
  <2> QED BY <2>1, <2>4, <2>5 DEF OwnInv, h
<1> QED BY <1>1, ParserInvariant, PTL

\* When next says to such a program that the IO has ended, each element of the
\* encoding was given to it or lies in a value it has skipped or consumed.
THEOREM NothingIsMissed == Spec => []NothingMissed
<1>1. Spec => []Inv BY InitInvariant, StepInvariant, PTL DEF Spec
<1>2. Inv => NothingMissed BY DEF Inv
<1> QED BY <1>1, <1>2, PTL

\* Such a program meets an error only where octets are missing: no sequence of
\* calls in the documented order fails on a complete encoding that fits
\* InputsAssumption.
THEOREM WholeEncodingsDoNotFail == Spec => []ErrorsOnlyOnCut
<1>1. IInv => ErrorsOnlyOnCut BY DEF IInv, OrderInv, Ended, ErrorsOnlyOnCut
<1> QED BY <1>1, ParserInvariant, PTL

=============================================================================
