------------------------- MODULE ValueStream_proofs -------------------------
(***************************************************************************)
(* For every value of JobsAssumption and every size of read: the streams   *)
(* have their types, a value stream stays within the header it was opened  *)
(* for, and the inner stream is never read beyond the value.               *)
(***************************************************************************)
EXTENDS ValueStream, SequenceTheorems, FiniteSetTheorems, WellFoundedInduction, TLAPS

-----------------------------------------------------------------------------
(* Numbers, and the header parser.                                         *)

\* Numbers that are in a set have a first one: the form in which induction
\* over the octets of a value is used.
LEMMA FirstOfNumbers ==
  ASSUME NEW S, S \subseteq Nat, S # {}
  PROVE  \E i \in S : \A j \in S : i <= j
<1> DEFINE T == {1..i : i \in S}
<1>1. \A i \in Nat : 1..i \in FiniteSubsetsOf(Nat) BY FS_Interval, 1 \in Int DEF FiniteSubsetsOf
<1>2. T \subseteq FiniteSubsetsOf(Nat) /\ T # {} BY <1>1
<1>3. PICK t \in T : \A r \in T : ~(<< r, t >> \in StrictSubsetOrdering(Nat))
  BY <1>2, WFMin, FS_StrictSubsetOrderingWellFounded
<1>4. PICK i \in S : t = 1..i OBVIOUS
<1>5. ASSUME NEW j \in S, j < i
      PROVE  FALSE
  <2>1. 1..j \subseteq 1..i /\ i \in 1..i /\ i \notin 1..j BY <1>5
  <2>2. << 1..j, 1..i >> \in StrictSubsetOrdering(Nat) BY <2>1 DEF StrictSubsetOrdering
  <2> QED BY <1>3, <1>4, <2>2
<1> QED BY <1>5

\* Induction over the natural numbers, for a set of them.
LEMMA NaturalInduction ==
  ASSUME NEW S, \A n \in Nat : (\A m \in 0..(n - 1) : m \in S) => n \in S
  PROVE  Nat \subseteq S
<1> SUFFICES ASSUME NEW k \in Nat, k \notin S PROVE FALSE OBVIOUS
<1>1. PICK i \in Nat \ S : \A j \in Nat \ S : i <= j
  BY FirstOfNumbers, Nat \ S \subseteq Nat, Nat \ S # {}
<1>2. \A m \in 0..(i - 1) : m \in S BY <1>1
<1> QED BY <1>1, <1>2

\* A header that could not be parsed took no more octets than there were; a
\* parsed one has one identifier octet, and an indefinite length only if it is
\* that of a constructed element.
LEMMA HeaderFacts ==
  ASSUME NEW octets \in Seq(Octets), NEW p \in 0..Len(octets)
  PROVE  /\ next_header(octets, p).used \in 0..(Len(octets) - p)
         /\ next_header(octets, p).ok =>
              /\ next_header(octets, p).used >= 2
              /\ next_header(octets, p).header \in Header
              /\ Len(next_header(octets, p).header.tag_bytes) = 1
              /\ next_header(octets, p).header.infinite =>
                   /\ next_header(octets, p).header.length = 0
                   /\ IsConstructed(next_header(octets, p).header)
<1> DEFINE left == Len(octets) - p
           tag == octets[p + 1]
           first == octets[p + 2]
           more == IF first > 128 THEN first - 128 ELSE 0
           constructed == (tag \div 32) % 2 = 1
           infinite == first = 128
           lengths == SubSeq(octets, p + 2, p + 2 + more)
           length == IF more > 0 THEN BigEndian(Tail(lengths)) ELSE first % 128
           header == [tag_bytes |-> << tag >>, length_bytes |-> lengths,
                      length |-> length, infinite |-> infinite]
           h == next_header(octets, p)
<1>1. h = IF left < 2 THEN NoHeaderAfter(left)
          ELSE IF first = 255 \/ (infinite /\ ~constructed) THEN NoHeaderAfter(2)
          ELSE IF left < 2 + more THEN NoHeaderAfter(left)
          ELSE IF length \notin 0..SIZE_MAX THEN NoHeaderAfter(2 + more)
          ELSE [ok |-> TRUE, used |-> 2 + more, header |-> header] BY Zenon DEF next_header
<1>2. left \in Nat /\ p \in Nat OBVIOUS
<1>3. ASSUME left >= 2
      PROVE  tag \in Octets /\ first \in 0..255 /\ more \in Nat
  <2>1. p + 1 \in 1..Len(octets) /\ p + 2 \in 1..Len(octets) BY <1>2, <1>3
  <2>2. \A i \in 1..Len(octets) : octets[i] \in Octets OBVIOUS
  <2>3. tag \in Octets /\ first \in 0..255 BY <2>1, <2>2 DEF Octets
  <2> HIDE DEF tag, first
  <2> QED BY <2>3
<1>4. ASSUME left >= 2, left >= 2 + more, length \in 0..SIZE_MAX
      PROVE  header \in Header /\ Len(header.tag_bytes) = 1
  <2>1. << tag >> \in Seq(Octets) /\ Len(<< tag >>) = 1 BY <1>3, <1>4
  <2>2. lengths \in Seq(Octets)
    <3>1. \A i \in (p + 2)..(p + 2 + more) : octets[i] \in Octets BY <1>2, <1>3, <1>4
    <3> QED BY <1>2, <1>3, <1>4, <3>1, SubSeqProperties, p + 2 \in Int, p + 2 + more \in Int
  <2>3. length \in Nat /\ infinite \in BOOLEAN BY <1>4, SizeAssumption
  <2> HIDE DEF tag, lengths, length, infinite
  <2> QED BY <2>1, <2>2, <2>3 DEF Header
<1> HIDE DEF tag, first, constructed, infinite, lengths, length, header
<1>5. h.used \in 0..left BY <1>1, <1>2, <1>3 DEF NoHeaderAfter
<1>6. h.ok => /\ left >= 2 /\ left >= 2 + more /\ length \in 0..SIZE_MAX
              /\ h.used = 2 + more /\ more \in Nat
              /\ ~(infinite /\ ~constructed)
              /\ h.header = header BY <1>1, <1>2, <1>3 DEF NoHeaderAfter
<1>7. ASSUME infinite
      PROVE  length = 0
  <2>1. first = 128 BY <1>7 DEF infinite
  <2>2. length = first % 128 BY <2>1 DEF length
  <2> HIDE DEF length, first
  <2> QED BY <2>1, <2>2
<1>8. ASSUME constructed
      PROVE  IsConstructed(header)
  <2>1. header.tag_bytes[1] = tag BY DEF header
  <2> QED BY <1>8, <2>1 DEF IsConstructed, constructed
<1>9. header.infinite = infinite /\ header.length = length BY DEF header
<1> QED BY <1>4, <1>5, <1>6, <1>7, <1>8, <1>9

\* What the reading of header octets leaves alone.
Keeps(r, s) ==
  /\ r.kind = s.kind /\ r.max_read = s.max_read /\ r.num_read = s.num_read
  /\ r.total = s.total

-----------------------------------------------------------------------------
(* Headers.                                                                *)

LEMMA JobTypes ==
  ASSUME NEW j \in Jobs
  PROVE  /\ j.octets \in Seq(Octets) /\ Len(j.octets) \in Nat
         /\ j.length \in Nat /\ j.infinite \in BOOLEAN
         /\ \A n \in j.sizes : n \in Nat /\ n > 0
<1>1. j.octets \in Seq(Octets) /\ j.length \in Nat /\ j.infinite \in BOOLEAN BY JobsAssumption
<1>2. j.sizes \subseteq Nat \ {0} BY JobsAssumption
<1> QED BY <1>1, <1>2

LEMMA HeaderBytes ==
  ASSUME NEW s \in Stream, NEW bytes \in Seq(Octets), NEW next_state \in State, len \in Nat
  PROVE  LET r == int_read_header_bytes(s, bytes, next_state) IN
         /\ r \in Stream
         /\ Keeps(r, s) /\ r.cur_header = s.cur_header
         /\ r.state \in {s.state, next_state}
         /\ Len(bytes) - s.header_offset <= len => r.state = next_state
<1> DEFINE available == Len(bytes) - s.header_offset
           to_read == IF len < available THEN len ELSE available
           piece == IF job.values_only THEN << >> ELSE SubSeq(bytes, 1, to_read)
           r == int_read_header_bytes(s, bytes, next_state)
<1>1. s.header_offset \in Nat /\ s.el \in Seq(Octets) /\ Len(bytes) \in Nat BY DEF Stream
<1>2. to_read \in Int /\ to_read <= Len(bytes) BY <1>1
<1>3. piece \in Seq(Octets)
  <2>1. \A i \in 1..to_read : bytes[i] \in Octets BY <1>1, <1>2
  <2>2. SubSeq(bytes, 1, to_read) \in Seq(Octets) BY <1>2, <2>1, SubSeqProperties, 1 \in Int
  <2>3. << >> \in Seq(Octets) OBVIOUS
  <2> HIDE DEF to_read
  <2> QED BY <2>2, <2>3
<1>4. r = IF len < available
          THEN [s EXCEPT !.el = @ \o piece, !.header_offset = @ + len]
          ELSE [s EXCEPT !.el = @ \o piece, !.header_offset = 0, !.state = next_state]
  BY DEF int_read_header_bytes
<1>5. s.el \o piece \in Seq(Octets) BY <1>1, <1>3, ConcatProperties
<1>6. available \in Int /\ s.header_offset + len \in Nat BY <1>1
<1> DEFINE el == s.el \o piece
<1>7. r = IF len < available
          THEN [s EXCEPT !.el = el, !.header_offset = s.header_offset + len]
          ELSE [s EXCEPT !.el = el, !.header_offset = 0, !.state = next_state] BY <1>4 DEF Stream
<1>8. el \in Seq(Octets) BY <1>5
<1> HIDE DEF piece, el, r
<1>9. r \in Stream /\ Keeps(r, s) /\ r.cur_header = s.cur_header
  BY <1>1, <1>6, <1>7, <1>8 DEF Stream, Keeps
<1>10. /\ r.state \in {s.state, next_state}
       /\ available <= len => r.state = next_state BY <1>6, <1>7 DEF Stream
<1> QED BY <1>9, <1>10 DEF r

LEMMA DoneFacts ==
  ASSUME NEW s \in Stream
  PROVE  LET r == int_check_done(s) IN
         /\ r \in Stream /\ Keeps(r, s) /\ r.cur_header = s.cur_header
         /\ r.state \in {s.state, "DONE"}
<1>1. [s EXCEPT !.state = "DONE"] \in Stream BY DEF Stream, State
<1> QED BY <1>1 DEF int_check_done, Keeps, Stream

\* The one identifier octet always fits: after header octets were read the
\* stream is at the length, at the value or done.
LEMMA AfterHeaderFacts ==
  ASSUME NEW s \in Stream, len \in Nat, len > 0, s.state # "DONE",
         Len(s.cur_header.tag_bytes) <= 1
  PROVE  LET r == AfterHeader(s) IN
         /\ r \in Stream /\ Keeps(r, s) /\ r.cur_header = s.cur_header
         /\ r.state \in {"PROCESS_LENGTH", "PROCESS_VALUE", "DONE"}
<1> DEFINE t == ReadTag(s)
           hb == int_read_header_bytes(s, s.cur_header.tag_bytes, "PROCESS_LENGTH")
           l == ReadLength(t)
           lb == int_read_header_bytes(t, t.cur_header.length_bytes, "PROCESS_VALUE")
<1>1. /\ s.cur_header.tag_bytes \in Seq(Octets) /\ s.cur_header.length_bytes \in Seq(Octets)
      /\ s.header_offset \in Nat /\ s.state \in State BY DEF Stream, Header
<1>2. "PROCESS_LENGTH" \in State /\ "PROCESS_VALUE" \in State BY DEF State
<1>3. /\ hb \in Stream /\ Keeps(hb, s) /\ hb.cur_header = s.cur_header
      /\ Len(s.cur_header.tag_bytes) - s.header_offset <= len => hb.state = "PROCESS_LENGTH"
  BY <1>1, <1>2, HeaderBytes
<1>4. Len(s.cur_header.tag_bytes) - s.header_offset <= len BY <1>1
<1>5. /\ t \in Stream /\ Keeps(t, s) /\ t.cur_header = s.cur_header
      /\ t.state \in {"PROCESS_LENGTH", "PROCESS_VALUE"}
  <2>1. CASE s.state \in {"NEW_HEADER", "PROCESS_TAG"} BY <1>3, <1>4, <2>1 DEF ReadTag
  <2>2. CASE s.state \notin {"NEW_HEADER", "PROCESS_TAG"} BY <1>1, <2>2 DEF ReadTag, State, Keeps
  <2> QED BY <2>1, <2>2
<1> HIDE DEF t, hb
<1>6. /\ lb \in Stream /\ Keeps(lb, t) /\ lb.cur_header = t.cur_header
      /\ lb.state \in {t.state, "PROCESS_VALUE"}
  <2>1. t \in Stream /\ t.cur_header.length_bytes \in Seq(Octets) BY <1>1, <1>5
  <2> QED BY <1>2, <2>1, HeaderBytes
<1>7. /\ l \in Stream /\ Keeps(l, t) /\ l.cur_header = t.cur_header
      /\ l.state \in {"PROCESS_LENGTH", "PROCESS_VALUE", "DONE"}
  <2>1. CASE t.state # "PROCESS_VALUE"
    <3>1. l = int_check_done(lb) BY <2>1 DEF ReadLength
    <3> HIDE DEF lb, l
    <3>2. /\ l \in Stream /\ Keeps(l, lb) /\ l.cur_header = lb.cur_header
          /\ l.state \in {lb.state, "DONE"} BY <1>6, <3>1, DoneFacts
    <3> QED BY <1>5, <1>6, <3>2 DEF Keeps
  <2>2. CASE t.state = "PROCESS_VALUE" BY <1>5, <2>2 DEF ReadLength, Keeps
  <2> QED BY <2>1, <2>2
<1>8. AfterHeader(s) \in {t, l} BY DEF AfterHeader, t
<1> HIDE DEF l
<1>9. Keeps(l, s) BY <1>5, <1>7 DEF Keeps
<1> QED BY <1>5, <1>7, <1>8, <1>9

-----------------------------------------------------------------------------
(* The stack of streams.                                                   *)

\* value is the cur_value_stream of above.
ValueOf(value, above) ==
  /\ above.kind = "chunked"
  /\ above.state # "NEW_HEADER"
  /\ value.kind = "chunked" <=> above.cur_header.infinite
  /\ ~above.cur_header.infinite => value.max_read = above.cur_header.length

StackOK(ss) ==
  /\ ss \in Seq(Stream)
  /\ ss # << >>
  /\ \A i \in 1..Len(ss) : StreamInv(ss[i])
  /\ \A i \in 1..Len(ss) : i > 1 => ValueOf(ss[i], ss[i - 1])

\* A stream may change in place: its value stream, if it is open, must still
\* be that of its header.
LEMMA UpdateStack ==
  ASSUME NEW ss, StackOK(ss), NEW i \in 1..Len(ss), NEW r \in Stream, StreamInv(r),
         r.kind = ss[i].kind, r.max_read = ss[i].max_read,
         i < Len(ss) => r.state # "NEW_HEADER" /\ r.cur_header = ss[i].cur_header
  PROVE  /\ StackOK([ss EXCEPT ![i] = r])
         /\ Len([ss EXCEPT ![i] = r]) = Len(ss)
         /\ \A j \in 1..Len(ss) : [ss EXCEPT ![i] = r][j] = IF j = i THEN r ELSE ss[j]
<1> DEFINE new == [ss EXCEPT ![i] = r]
<1>1. /\ new \in Seq(Stream) /\ Len(new) = Len(ss)
      /\ \A j \in 1..Len(ss) : new[j] = IF j = i THEN r ELSE ss[j] BY ExceptSeq DEF StackOK
<1> HIDE DEF new
<1>2. Len(ss) \in Nat /\ Len(ss) > 0 BY DEF StackOK
<1>3. new # << >> BY <1>1, <1>2
<1>4. \A j \in 1..Len(new) : StreamInv(new[j]) BY <1>1 DEF StackOK
<1>5. ASSUME NEW j \in 1..Len(new), j > 1
      PROVE  ValueOf(new[j], new[j - 1])
  <2>1. j \in 1..Len(ss) /\ j - 1 \in 1..Len(ss) /\ ValueOf(ss[j], ss[j - 1])
    BY <1>1, <1>2, <1>5 DEF StackOK
  <2>2. CASE j = i BY <1>1, <2>1, <2>2 DEF ValueOf
  <2>3. CASE j - 1 = i
    <3>1. new[j] = ss[j] /\ new[j - 1] = r /\ i < Len(ss) BY <1>1, <1>2, <2>1, <2>3
    <3> QED BY <2>1, <2>3, <3>1 DEF ValueOf
  <2>4. CASE j # i /\ j - 1 # i BY <1>1, <2>1, <2>4 DEF ValueOf
  <2> QED BY <2>2, <2>3, <2>4
<1>6. StackOK(new) BY <1>1, <1>3, <1>4, <1>5 DEF StackOK
<1> QED BY <1>1, <1>6 DEF new

LEMMA CutStack ==
  ASSUME NEW ss, StackOK(ss), NEW n \in 1..Len(ss)
  PROVE  /\ StackOK(SubSeq(ss, 1, n))
         /\ Len(SubSeq(ss, 1, n)) = n
         /\ \A j \in 1..n : SubSeq(ss, 1, n)[j] = ss[j]
<1> DEFINE new == SubSeq(ss, 1, n)
<1>1. ss \in Seq(Stream) /\ Len(ss) \in Nat /\ n \in Nat /\ n >= 1 /\ n <= Len(ss) BY DEF StackOK
<1>2. \A j \in 1..n : ss[j] \in Stream BY <1>1
<1>3. /\ new \in Seq(Stream) /\ Len(new) = n
      /\ \A j \in 1..n : new[j] = ss[j] BY <1>1, <1>2, SubSeqProperties, 1 \in Int, n \in Int
<1> HIDE DEF new
<1>4. new # << >> BY <1>1, <1>3
<1>5. \A j \in 1..Len(new) : StreamInv(new[j]) BY <1>1, <1>3 DEF StackOK
<1>6. \A j \in 1..Len(new) : j > 1 => ValueOf(new[j], new[j - 1]) BY <1>1, <1>3 DEF StackOK
<1>7. StackOK(new) BY <1>3, <1>4, <1>5, <1>6 DEF StackOK
<1> QED BY <1>3, <1>7 DEF new

LEMMA PushStack ==
  ASSUME NEW ss, StackOK(ss), NEW v \in Stream, StreamInv(v), ValueOf(v, ss[Len(ss)])
  PROVE  /\ StackOK(Append(ss, v))
         /\ Len(Append(ss, v)) = Len(ss) + 1
         /\ Append(ss, v)[Len(ss) + 1] = v
         /\ \A j \in 1..Len(ss) : Append(ss, v)[j] = ss[j]
<1> DEFINE new == Append(ss, v)
<1>1. ss \in Seq(Stream) /\ Len(ss) \in Nat BY DEF StackOK
<1>2. /\ new \in Seq(Stream) /\ Len(new) = Len(ss) + 1 /\ new[Len(ss) + 1] = v
      /\ \A j \in 1..Len(ss) : new[j] = ss[j] BY <1>1
<1> HIDE DEF new
<1>3. new # << >> BY <1>1, <1>2
<1>4. \A j \in 1..Len(new) : StreamInv(new[j]) BY <1>1, <1>2 DEF StackOK
<1>5. \A j \in 1..Len(new) : j > 1 => ValueOf(new[j], new[j - 1]) BY <1>1, <1>2 DEF StackOK
<1>6. StackOK(new) BY <1>2, <1>3, <1>4, <1>5 DEF StackOK
<1> QED BY <1>2, <1>6 DEF new

\* A stream of which nothing but the counted octets changes.
Refill(s, t) == [s EXCEPT !.total = t, !.el = << >>]

LEMMA RefillStack ==
  ASSUME NEW ss, StackOK(ss), NEW i \in 1..Len(ss), NEW t \in Seq(Octets)
  PROVE  /\ StackOK([ss EXCEPT ![i] = Refill(ss[i], t)])
         /\ Len([ss EXCEPT ![i] = Refill(ss[i], t)]) = Len(ss)
         /\ \A j \in 1..Len(ss) :
              [ss EXCEPT ![i] = Refill(ss[i], t)][j] = IF j = i THEN Refill(ss[i], t) ELSE ss[j]
<1> DEFINE s == ss[i]
           r == Refill(s, t)
<1>1. s \in Stream /\ StreamInv(s) BY DEF StackOK
<1>2. i < Len(ss) => s.state # "NEW_HEADER"
  <2>1. Len(ss) \in Nat BY DEF StackOK
  <2>2. ASSUME i < Len(ss)
        PROVE  s.state # "NEW_HEADER"
    <3>1. i + 1 \in 1..Len(ss) /\ i + 1 > 1 /\ (i + 1) - 1 = i BY <2>1, <2>2
    <3>2. ValueOf(ss[i + 1], ss[(i + 1) - 1]) BY <3>1 DEF StackOK
    <3> QED BY <3>1, <3>2 DEF ValueOf
  <2> QED BY <2>2
<1> HIDE DEF s
<1>3. /\ r \in Stream /\ r.kind = s.kind /\ r.max_read = s.max_read
      /\ r.num_read = s.num_read /\ r.state = s.state /\ r.cur_header = s.cur_header
  <2>1. << >> \in Seq(Octets) OBVIOUS
  <2> QED BY <1>1, <2>1 DEF Refill, Stream
<1> HIDE DEF r
<1>4. StreamInv(r) BY <1>1, <1>3 DEF StreamInv
<1>5. /\ StackOK([ss EXCEPT ![i] = r])
      /\ Len([ss EXCEPT ![i] = r]) = Len(ss)
      /\ \A j \in 1..Len(ss) : [ss EXCEPT ![i] = r][j] = IF j = i THEN r ELSE ss[j]
  BY <1>2, <1>3, <1>4, UpdateStack DEF s
<1> QED BY <1>5 DEF r, s

LEMMA StackBelow ==
  ASSUME NEW ss, StackOK(ss), NEW i \in 1..Len(ss)
  PROVE  /\ ss[i] \in Stream /\ StreamInv(ss[i])
         /\ i < Len(ss) => /\ ss[i].kind = "chunked" /\ ss[i].state # "NEW_HEADER"
                           /\ ss[i + 1].kind = "chunked" <=> ss[i].cur_header.infinite
<1>1. ss[i] \in Stream /\ StreamInv(ss[i]) /\ Len(ss) \in Nat BY DEF StackOK
<1>2. ASSUME i < Len(ss)
      PROVE  ValueOf(ss[i + 1], ss[i])
  <2>1. i + 1 \in 1..Len(ss) /\ i + 1 > 1 /\ (i + 1) - 1 = i BY <1>1, <1>2
  <2>2. ValueOf(ss[i + 1], ss[(i + 1) - 1]) BY <2>1 DEF StackOK
  <2> QED BY <2>1, <2>2
<1> QED BY <1>1, <1>2 DEF ValueOf

\* The parts of the invariant.
Rest ==
  /\ job \in Jobs
  /\ pos \in 0..Len(job.octets)
  /\ at \in 0..Len(streams)
  /\ pc \in {"enter", "loop", "value"}
  /\ len \in Nat
  /\ given \in Seq(Octets)
  /\ status \in {"open", "end", "failed", "crashed"}
  /\ at > 0 => len > 0
  /\ pc = "value" => at > 0 /\ Top.kind = "chunked" /\ Top.state # "NEW_HEADER"

LEMMA FitParts == FitInv <=> StackOK(streams) /\ Rest
<1>1. streams \in Seq(Stream) => Len(streams) \in Nat /\ DOMAIN streams = 1..Len(streams) OBVIOUS
<1>2. ASSUME FitInv
      PROVE  StackOK(streams) /\ Rest
  <2>1. streams \in Seq(Stream) /\ streams # << >> /\ \A i \in 1..Len(streams) : StreamInv(streams[i])
    BY <1>1, <1>2 DEF FitInv, TypeOK
  <2>2. \A i \in 1..Len(streams) : i > 1 => ValueOf(streams[i], streams[i - 1])
    BY <1>1, <1>2, <2>1 DEF FitInv, ValueStreamFitsHeader, ValueOf
  <2>3. Rest BY <1>2 DEF FitInv, TypeOK, Rest
  <2> QED BY <2>1, <2>2, <2>3 DEF StackOK
<1>3. ASSUME StackOK(streams), Rest
      PROVE  FitInv
  <2>1. TypeOK BY <1>3 DEF StackOK, Rest, TypeOK
  <2>2. ValueStreamFitsHeader
    <3>1. \A i \in 2..Len(streams) : i \in 1..Len(streams) /\ i > 1 BY <1>1, <1>3 DEF StackOK
    <3>2. \A i \in 2..Len(streams) : ValueOf(streams[i], streams[i - 1]) /\ StreamInv(streams[i])
      BY <1>3, <3>1 DEF StackOK
    <3> QED BY <3>2 DEF ValueOf, StreamInv, ValueStreamFitsHeader
  <2>3. \A i \in DOMAIN streams : StreamInv(streams[i]) BY <1>1, <1>3 DEF StackOK
  <2> QED BY <1>3, <2>1, <2>2, <2>3 DEF FitInv, Rest, StackOK
<1> QED BY <1>2, <1>3

LEMMA FitAfter ==
  ASSUME StackOK(streams'), Rest'
  PROVE  FitInv'
<1>1. streams' \in Seq(Stream) => Len(streams') \in Nat /\ DOMAIN streams' = 1..Len(streams')
  OBVIOUS
<1>2. TypeOK' BY DEF StackOK, Rest, TypeOK
<1>3. ValueStreamFitsHeader'
  <2>1. \A i \in 2..Len(streams') : i \in 1..Len(streams') /\ i > 1 BY <1>1 DEF StackOK
  <2>2. \A i \in 2..Len(streams') : ValueOf(streams'[i], streams'[i - 1]) /\ StreamInv(streams'[i])
    BY <2>1 DEF StackOK
  <2> QED BY <2>2 DEF ValueOf, StreamInv, ValueStreamFitsHeader
<1>4. \A i \in DOMAIN streams' : StreamInv(streams'[i]) BY <1>1 DEF StackOK
<1> QED BY <1>2, <1>3, <1>4 DEF FitInv, Rest, StackOK


-----------------------------------------------------------------------------
(* The actions.                                                            *)

\* The other parts of the invariant after a step that leaves pc # "value".
LEMMA RestAfter ==
  ASSUME Rest, job' = job, pos' \in 0..Len(job.octets), StackOK(streams'),
         at' \in 0..Len(streams'), pc' \in {"enter", "loop"}, len' \in Nat,
         given' \in Seq(Octets), status' \in {"open", "end", "failed", "crashed"},
         at' > 0 => len' > 0
  PROVE  FitInv'
<1>1. Rest' BY DEF Rest
<1> QED BY <1>1, FitAfter

LEMMA StreamTypes ==
  ASSUME StackOK(streams), Rest, at > 0
  PROVE  /\ at \in 1..Len(streams) /\ Len(streams) \in Nat /\ at \in Nat
         /\ Top \in Stream /\ StreamInv(Top)
         /\ at < Len(streams) => Top.kind = "chunked" /\ Top.state # "NEW_HEADER"
         /\ at > 1 => at - 1 \in 1..Len(streams) /\ streams[at - 1].kind = "chunked"
<1>1. Len(streams) \in Nat /\ at \in 1..Len(streams) /\ at \in Nat BY DEF StackOK, Rest
<1>2. /\ Top \in Stream /\ StreamInv(Top)
      /\ at < Len(streams) => Top.kind = "chunked" /\ Top.state # "NEW_HEADER"
  BY <1>1, StackBelow DEF Top
<1>3. ASSUME at > 1
      PROVE  at - 1 \in 1..Len(streams) /\ streams[at - 1].kind = "chunked"
  <2>1. at - 1 \in 1..Len(streams) /\ at - 1 < Len(streams) BY <1>1, <1>3
  <2> QED BY <2>1, StackBelow
<1> QED BY <1>1, <1>2, <1>3

LEMMA AddIsRefill ==
  ASSUME NEW s \in Stream, NEW o \in Seq(Octets)
  PROVE  \E t \in Seq(Octets) : Add(s, o) = Refill(s, t)
<1>1. s.total \in Seq(Octets) /\ s.el \in Seq(Octets) BY DEF Stream
<1>2. s.total \o s.el \in Seq(Octets) BY <1>1, ConcatProperties
<1>3. s.total \o s.el \o o \in Seq(Octets) BY <1>2, ConcatProperties
<1>4. Add(s, o) = [s EXCEPT !.total = s.total \o s.el \o o, !.el = << >>] BY DEF Add, Stream
<1> QED BY <1>3, <1>4 DEF Refill

\* krypt_asn1_get_value_stream gives a stream of the kind and length the
\* header tells.
LEMMA StreamTyped ==
  ASSUME NEW infinite \in BOOLEAN, NEW n \in Nat
  PROVE  LET s == krypt_asn1_get_value_stream(infinite, n) IN
         /\ s \in Stream /\ StreamInv(s)
         /\ s.kind = "chunked" <=> infinite
         /\ ~infinite => s.max_read = n
<1>1. NoHeader \in Header /\ NoHeader.tag_bytes = << >> BY DEF NoHeader, Header
<1>2. /\ Closed \in Stream /\ StreamInv(Closed) /\ Closed.num_read = 0
      /\ Closed.kind = "definite" BY <1>1 DEF Closed, Stream, State, StreamInv
<1>3. /\ krypt_instream_new_definite(n) \in Stream
      /\ StreamInv(krypt_instream_new_definite(n))
      /\ krypt_instream_new_definite(n).max_read = n
      /\ krypt_instream_new_definite(n).kind = "definite"
  BY <1>2 DEF krypt_instream_new_definite, Stream, StreamInv
<1>4. /\ krypt_instream_new_chunked \in Stream /\ StreamInv(krypt_instream_new_chunked)
      /\ krypt_instream_new_chunked.kind = "chunked"
  BY <1>2 DEF krypt_instream_new_chunked, Stream, StreamInv
<1> QED BY <1>3, <1>4 DEF krypt_asn1_get_value_stream

LEMMA InitFits == Init => FitInv
<1> SUFFICES ASSUME Init
             PROVE  FitInv
  OBVIOUS
<1>1. job.length \in Nat /\ job.infinite \in BOOLEAN /\ Len(job.octets) \in Nat
  BY JobTypes DEF Init
<1> DEFINE s == krypt_asn1_get_value_stream(job.infinite, job.length)
<1>3. s \in Stream /\ StreamInv(s) BY <1>1, StreamTyped
<1>4. streams = << s >> BY DEF Init
<1> HIDE DEF s
<1>5. StackOK(streams) BY <1>3, <1>4 DEF StackOK
<1>6. Rest BY <1>1, <1>4 DEF Init, Rest
<1> QED BY <1>5, <1>6, FitParts

LEMMA ReadFits ==
  ASSUME FitInv, NEW n \in job.sizes, Read(n)
  PROVE  FitInv'
<1>1. StackOK(streams) /\ Rest BY FitParts
<1>2. n \in Nat /\ n > 0 BY <1>1, JobTypes DEF Rest
<1>3. 1 \in 1..Len(streams) /\ << >> \in Seq(Octets) BY <1>1 DEF StackOK
<1>4. StackOK(streams') /\ Len(streams') = Len(streams)
  <2>1. streams' = [streams EXCEPT ![1] = Refill(streams[1], << >>)] BY DEF Read, Called, Refill
  <2> QED BY <1>1, <1>3, <2>1, RefillStack
<1>5. job' = job /\ pos' = pos /\ at' = 1 /\ pc' = "enter" /\ len' = n /\ given' = given /\ status' = status
  BY DEF Read
<1> QED BY <1>1, <1>2, <1>3, <1>4, <1>5, RestAfter DEF Rest

\* A stream hands its octets to the stream above or to the program.
LEMMA ReturnsFits ==
  ASSUME StackOK(streams), Rest, at > 0, NEW below, NEW o \in Seq(Octets),
         StackOK(below), Len(below) = Len(streams),
         Returns(below, o), pos' \in 0..Len(job.octets)
  PROVE  FitInv'
<1>1. at \in 1..Len(streams) /\ Len(streams) \in Nat /\ at \in Nat BY StreamTypes
<1>2. at' = at - 1 /\ job' = job /\ len' = len /\ pc' \in {"enter", "loop"} BY DEF Returns
<1>3. given' \in Seq(Octets) /\ status' \in {"open", "end", "failed", "crashed"}
  <2>1. given \o o \in Seq(Octets) BY ConcatProperties DEF Rest
  <2> QED BY <2>1 DEF Returns, Rest
<1>4. StackOK(streams') /\ Len(streams') = Len(streams)
  <2>1. CASE at = 1 BY <2>1 DEF Returns
  <2>2. CASE at # 1
    <3>1. at - 1 \in 1..Len(below) BY <1>1, <2>2
    <3>2. below[at - 1] \in Stream BY <3>1, StackBelow
    <3>3. PICK t \in Seq(Octets) : Add(below[at - 1], o) = Refill(below[at - 1], t)
      BY <3>2, AddIsRefill
    <3>4. streams' = [below EXCEPT ![at - 1] = Add(below[at - 1], o)] BY <2>2 DEF Returns
    <3>5. /\ StackOK([below EXCEPT ![at - 1] = Refill(below[at - 1], t)])
          /\ Len([below EXCEPT ![at - 1] = Refill(below[at - 1], t)]) = Len(below)
      BY <3>1, RefillStack
    <3> QED BY <3>3, <3>4, <3>5
  <2> QED BY <2>1, <2>2
<1> QED BY <1>1, <1>2, <1>3, <1>4, RestAfter DEF Rest

LEMMA AfterValueFacts ==
  ASSUME NEW s \in Stream, StreamInv(s)
  PROVE  LET r == AfterValue(s) IN
         r \in Stream /\ StreamInv(r) /\ r.kind = s.kind /\ r.max_read = s.max_read
<1> DEFINE st == IF s.state = "DONE" THEN s.state ELSE "NEW_HEADER"
           u == [s EXCEPT !.state = st]
<1>1. st \in State /\ st # "PROCESS_TAG" BY DEF Stream, State
<1>2. u = [s EXCEPT !.state = IF @ = "DONE" THEN @ ELSE "NEW_HEADER"] BY DEF Stream
<1> HIDE DEF st
<1>3. /\ u \in Stream /\ StreamInv(u) /\ u.kind = s.kind /\ u.max_read = s.max_read
  BY <1>1 DEF Stream, StreamInv
<1> HIDE DEF u
<1>4. << >> \in Seq(Octets) OBVIOUS
<1>5. PICK t \in Seq(Octets) : Add(u, << >>) = Refill(u, t) BY <1>3, <1>4, AddIsRefill
<1> DEFINE r == Refill(u, t)
<1>6. r \in Stream /\ StreamInv(r) /\ r.kind = u.kind /\ r.max_read = u.max_read
  BY <1>3, <1>4 DEF Refill, Stream, StreamInv
<1>7. AfterValue(s) = r BY <1>2, <1>5 DEF AfterValue
<1> QED BY <1>3, <1>6, <1>7

\* A value stream that is at its end is freed by the stream above.
LEMMA ReturnsEofFits ==
  ASSUME FitInv, at > 0, ReturnsEof, pos' = pos
  PROVE  FitInv'
<1>1. StackOK(streams) /\ Rest BY FitParts
<1>2. /\ at \in 1..Len(streams) /\ Len(streams) \in Nat /\ at \in Nat
      /\ at > 1 => at - 1 \in 1..Len(streams) BY <1>1, StreamTypes
<1>3. /\ at' = at - 1 /\ job' = job /\ len' = len /\ pc' \in {"enter", "loop"} /\ given' = given
      /\ status' \in {"open", "end", "failed", "crashed"} BY <1>1 DEF ReturnsEof, Rest
<1>4. StackOK(streams') /\ at - 1 <= Len(streams')
  <2>1. CASE at = 1 BY <1>1, <1>2, <2>1 DEF ReturnsEof
  <2>2. CASE at # 1
    <3> DEFINE cut == SubSeq(streams, 1, at - 1)
               r == AfterValue(cut[at - 1])
    <3>1. at - 1 \in 1..Len(streams) /\ at - 1 \in Nat BY <1>2, <2>2
    <3>2. StackOK(cut) /\ Len(cut) = at - 1 BY <1>1, <3>1, CutStack
    <3>3. streams' = [cut EXCEPT ![at - 1] = r] BY <2>2 DEF ReturnsEof, Freed
    <3> HIDE DEF cut
    <3>4. at - 1 \in 1..Len(cut) /\ cut[at - 1] \in Stream /\ StreamInv(cut[at - 1])
      BY <3>1, <3>2, StackBelow
    <3>5. /\ r \in Stream /\ StreamInv(r)
          /\ r.kind = cut[at - 1].kind /\ r.max_read = cut[at - 1].max_read
      BY <3>4, AfterValueFacts
    <3> HIDE DEF r
    <3>6. ~(at - 1 < Len(cut)) BY <3>1, <3>2
    <3>7. StackOK([cut EXCEPT ![at - 1] = r]) /\ Len([cut EXCEPT ![at - 1] = r]) = Len(cut)
      BY <3>2, <3>4, <3>5, <3>6, UpdateStack
    <3> QED BY <3>1, <3>2, <3>3, <3>7
  <2> QED BY <2>1, <2>2
<1>5. at' \in 0..Len(streams') BY <1>2, <1>3, <1>4 DEF StackOK
<1> QED BY <1>1, <1>2, <1>3, <1>4, <1>5, RestAfter DEF Rest


LEMMA DefiniteFailsFits ==
  ASSUME FitInv, DefiniteFails
  PROVE  FitInv'
<1>1. StackOK(streams) /\ Rest BY FitParts
<1>2. /\ job' = job /\ pos' = pos /\ streams' = streams /\ at' = 0 /\ pc' = "enter"
      /\ len' = len /\ given' = given /\ status' = "failed" BY DEF DefiniteFails, Fails
<1>3. 0 \in 0..Len(streams) BY <1>1 DEF StackOK
<1> QED BY <1>1, <1>2, <1>3, RestAfter DEF Rest

\* int_definite_read never reads beyond max_read.
LEMMA DefiniteReadFits ==
  ASSUME FitInv, NEW r \in 1..Len(job.octets), DefiniteRead(r)
  PROVE  FitInv'
<1>1. StackOK(streams) /\ Rest /\ at > 0 BY FitParts DEF DefiniteRead, Definite
<1>2. /\ at \in 1..Len(streams) /\ Len(streams) \in Nat /\ at \in Nat
      /\ Top \in Stream /\ StreamInv(Top)
      /\ at < Len(streams) => Top.kind = "chunked" BY <1>1, StreamTypes
<1>3. Top.kind = "definite" /\ ~(at < Len(streams)) BY <1>2 DEF DefiniteRead, Definite
<1>4. job.octets \in Seq(Octets) /\ Len(job.octets) \in Nat /\ r \in Nat /\ pos \in Nat
  BY <1>1, JobTypes DEF Rest
<1> DEFINE n == Top.num_read + r
           s == [Top EXCEPT !.num_read = n]
           below == [streams EXCEPT ![at] = s]
           o == SubSeq(job.octets, pos + 1, pos + r)
<1>5. n \in Nat /\ n <= Top.max_read
  <2>1. Top.num_read \in Nat /\ Top.max_read \in Nat /\ len \in Nat
    BY <1>1, <1>2 DEF Stream, Rest
  <2>2. r <= ToRead(Top) BY DEF DefiniteRead
  <2> QED BY <1>2, <1>4, <2>1, <2>2 DEF ToRead, StreamInv
<1>6. o \in Seq(Octets)
  <2>1. pos + r <= Len(job.octets) BY DEF DefiniteRead
  <2>2. \A i \in (pos + 1)..(pos + r) : job.octets[i] \in Octets BY <1>4, <2>1
  <2> QED BY <1>4, <2>2, SubSeqProperties, pos + 1 \in Int, pos + r \in Int
<1>7. Returns(below, o) /\ pos' = pos + r /\ pos' \in 0..Len(job.octets)
  <2>1. s = [Top EXCEPT !.num_read = @ + r] BY <1>2 DEF Stream
  <2>2. below = WithTop([Top EXCEPT !.num_read = @ + r]) BY <2>1 DEF WithTop
  <2> HIDE DEF below, o
  <2>3. Returns(below, o) BY <2>2 DEF DefiniteRead, o
  <2>4. pos' = pos + r /\ pos + r <= Len(job.octets) BY DEF DefiniteRead
  <2> QED BY <1>4, <2>3, <2>4
<1> HIDE DEF n, o
<1>8. /\ s \in Stream /\ StreamInv(s) /\ s.kind = Top.kind /\ s.max_read = Top.max_read
  BY <1>2, <1>5 DEF Stream, StreamInv
<1> HIDE DEF s
<1>9. StackOK(below) /\ Len(below) = Len(streams) BY <1>1, <1>2, <1>3, <1>8, UpdateStack DEF Top
<1> HIDE DEF below
<1> QED BY <1>1, <1>6, <1>7, <1>9, ReturnsFits

LEMMA ChunkedReturnsFits ==
  ASSUME FitInv, ChunkedReturns
  PROVE  FitInv'
<1>1. StackOK(streams) /\ Rest /\ at > 0 BY FitParts DEF ChunkedReturns, Chunked
<1>2. Top.total \in Seq(Octets) BY <1>1, StreamTypes DEF Stream
<1>3. Returns(streams, Top.total) /\ pos' = pos BY DEF ChunkedReturns
<1> QED BY <1>1, <1>2, <1>3, ReturnsFits DEF Rest

LEMMA NewHeaderFacts ==
  ASSUME NEW s \in Stream, StreamInv(s), NEW h, h.ok => h.header \in Header /\ Len(h.header.tag_bytes) = 1
  PROVE  LET r == NewHeader(s, h) IN
         /\ r \in Stream /\ Keeps(r, s)
         /\ Len(r.cur_header.tag_bytes) <= 1
         /\ s.state # "DONE" => r.state # "DONE"
         /\ s.state # "NEW_HEADER" => r.cur_header = s.cur_header
<1> DEFINE hd == h.header
           u == [s EXCEPT !.cur_header = hd, !.state = "PROCESS_TAG", !.header_offset = 0]
<1>1. CASE s.state = "NEW_HEADER" /\ h.ok
  <2>1. hd \in Header /\ Len(hd.tag_bytes) = 1 BY <1>1
  <2>2. NewHeader(s, h) = u BY <1>1 DEF NewHeader
  <2> HIDE DEF hd
  <2>3. u \in Stream /\ Keeps(u, s) /\ u.cur_header = hd /\ u.state = "PROCESS_TAG"
    BY <2>1 DEF Stream, State, Keeps
  <2> HIDE DEF u
  <2>4. Len(u.cur_header.tag_bytes) <= 1
    <3>1. u.cur_header = hd BY <2>3
    <3>2. Len(u.cur_header.tag_bytes) = Len(hd.tag_bytes) BY <3>1, Zenon
    <3>3. Len(u.cur_header.tag_bytes) = 1 BY <2>1, <3>2, Zenon
    <3> QED BY <3>3
  <2> QED BY <1>1, <2>2, <2>3, <2>4
<1>2. CASE ~(s.state = "NEW_HEADER" /\ h.ok) BY <1>2 DEF NewHeader, Keeps, StreamInv
<1> QED BY <1>1, <1>2

\* One turn of int_read ends before the value, fails or goes on to the value;
\* in the last case the header it goes on with is the one parsed last.
LEMMA ElementFits ==
  ASSUME FitInv, Element
  PROVE  FitInv'
<1>1. StackOK(streams) /\ Rest /\ at > 0 /\ Top.kind = "chunked" BY FitParts DEF Element, Chunked
<1>2. /\ at \in 1..Len(streams) /\ Len(streams) \in Nat /\ at \in Nat
      /\ Top \in Stream /\ StreamInv(Top)
      /\ at < Len(streams) => Top.state # "NEW_HEADER" BY <1>1, StreamTypes
<1>3. job.octets \in Seq(Octets) /\ Len(job.octets) \in Nat /\ pos \in 0..Len(job.octets)
  BY <1>1, JobTypes DEF Rest
<1> DEFINE h == next_header(job.octets, pos)
           s == NewHeader(Top, h)
           e == AfterHeader(s)
<1>4. /\ h.used \in 0..(Len(job.octets) - pos)
      /\ h.ok => h.header \in Header /\ Len(h.header.tag_bytes) = 1 BY <1>3, HeaderFacts
<1>5. pos' \in 0..Len(job.octets)
  <2>1. pos' = IF Top.state = "NEW_HEADER" THEN pos + h.used ELSE pos BY DEF Element
  <2> HIDE DEF h
  <2> QED BY <1>3, <1>4, <2>1
<1>6. \/ /\ streams' = streams /\ job' = job /\ at' = 0 /\ pc' = pc
         /\ len' = len /\ given' = given /\ status' = "crashed"
         /\ pc # "value"
      \/ streams' = WithTop([e EXCEPT !.el = << >>]) /\ Fails
      \/ /\ streams' = WithTop(Add(e, << >>)) /\ pc' = "loop"
         /\ UNCHANGED << job, at, len, given, status >>
      \/ /\ streams' = WithTop(e) /\ pc' = "value"
         /\ UNCHANGED << job, at, len, given, status >> BY Zenon DEF Element
<1>7. Top.state # "DONE" BY DEF Element
<1> HIDE DEF h
<1>8. /\ s \in Stream /\ Keeps(s, Top) /\ Len(s.cur_header.tag_bytes) <= 1
      /\ s.state # "DONE"
      /\ at < Len(streams) => s.cur_header = Top.cur_header BY <1>2, <1>4, <1>7, NewHeaderFacts
<1> HIDE DEF s
<1>9. /\ e \in Stream /\ Keeps(e, s) /\ e.cur_header = s.cur_header
      /\ e.state \in {"PROCESS_LENGTH", "PROCESS_VALUE", "DONE"}
  BY <1>1, <1>8, AfterHeaderFacts DEF Rest
<1> HIDE DEF e
<1>10. \A t, el \in Seq(Octets) :
         LET u == [e EXCEPT !.total = t, !.el = el]
         IN  /\ StackOK(WithTop(u)) /\ Len(WithTop(u)) = Len(streams)
             /\ WithTop(u)[at].kind = "chunked" /\ WithTop(u)[at].state # "NEW_HEADER"
  <2> TAKE t, el \in Seq(Octets)
  <2> DEFINE u == [e EXCEPT !.total = t, !.el = el]
  <2>1. /\ u \in Stream /\ u.kind = e.kind /\ u.max_read = e.max_read /\ u.num_read = e.num_read
        /\ u.state = e.state /\ u.cur_header = e.cur_header BY <1>9 DEF Stream
  <2> HIDE DEF u
  <2>2. StreamInv(u) /\ u.kind = Top.kind /\ u.max_read = Top.max_read
    BY <1>2, <1>8, <1>9, <2>1 DEF StreamInv, Keeps
  <2>3. u.state # "NEW_HEADER" /\ (at < Len(streams) => u.cur_header = Top.cur_header)
    BY <1>8, <1>9, <2>1
  <2>4. /\ StackOK([streams EXCEPT ![at] = u])
        /\ Len([streams EXCEPT ![at] = u]) = Len(streams)
        /\ \A j \in 1..Len(streams) : [streams EXCEPT ![at] = u][j] = IF j = at THEN u ELSE streams[j]
    BY <1>1, <1>2, <2>1, <2>2, <2>3, UpdateStack DEF Top
  <2>5. WithTop(u) = [streams EXCEPT ![at] = u] BY DEF WithTop
  <2> QED BY <1>1, <1>2, <2>2, <2>3, <2>4, <2>5 DEF u
<1>11. << >> \in Seq(Octets) /\ e.total \in Seq(Octets) /\ e.el \in Seq(Octets)
  BY <1>9 DEF Stream
<1>12. CASE /\ streams' = streams /\ job' = job /\ at' = 0 /\ pc' = pc
            /\ len' = len /\ given' = given /\ status' = "crashed" /\ pc # "value"
  BY <1>1, <1>2, <1>5, <1>12, RestAfter DEF Rest
<1>13. CASE streams' = WithTop([e EXCEPT !.el = << >>]) /\ Fails
  <2>1. [e EXCEPT !.el = << >>] = [e EXCEPT !.total = e.total, !.el = << >>] BY <1>9 DEF Stream
  <2>2. StackOK(streams') /\ Len(streams') = Len(streams) BY <1>10, <1>11, <1>13, <2>1
  <2> QED BY <1>1, <1>2, <1>5, <1>13, <2>2, RestAfter DEF Fails, Rest
<1>14. CASE /\ streams' = WithTop(Add(e, << >>)) /\ pc' = "loop"
            /\ UNCHANGED << job, at, len, given, status >>
  <2>1. PICK t \in Seq(Octets) : Add(e, << >>) = [e EXCEPT !.total = t, !.el = << >>]
    BY <1>9, <1>11, AddIsRefill DEF Refill
  <2>2. StackOK(streams') /\ Len(streams') = Len(streams) BY <1>10, <1>11, <1>14, <2>1
  <2> QED BY <1>1, <1>2, <1>5, <1>14, <2>2, RestAfter DEF Rest
<1>15. CASE /\ streams' = WithTop(e) /\ pc' = "value"
            /\ UNCHANGED << job, at, len, given, status >>
  <2>1. e = [e EXCEPT !.total = e.total, !.el = e.el] BY <1>9 DEF Stream
  <2>2. /\ StackOK(streams') /\ Len(streams') = Len(streams)
        /\ streams'[at].kind = "chunked" /\ streams'[at].state # "NEW_HEADER"
    <3> DEFINE u == [e EXCEPT !.total = e.total, !.el = e.el]
    <3>1. /\ StackOK(WithTop(u)) /\ Len(WithTop(u)) = Len(streams)
          /\ WithTop(u)[at].kind = "chunked" /\ WithTop(u)[at].state # "NEW_HEADER"
      BY <1>10, <1>11
    <3>2. u = e BY <2>1
    <3> HIDE DEF u
    <3> QED BY <1>15, <3>1, <3>2
  <2>3. Rest' BY <1>1, <1>2, <1>5, <1>15, <2>2 DEF Rest, Top
  <2> QED BY <2>2, <2>3, FitAfter
<1> QED BY <1>6, <1>12, <1>13, <1>14, <1>15


LEMMA ReadValueFits ==
  ASSUME FitInv, ReadValue
  PROVE  FitInv'
<1>1. StackOK(streams) /\ Rest /\ at > 0 /\ Top.kind = "chunked" /\ Top.state # "NEW_HEADER"
  BY FitParts DEF ReadValue, Chunked, Rest
<1>2. /\ at \in 1..Len(streams) /\ Len(streams) \in Nat /\ at \in Nat
      /\ Top \in Stream /\ StreamInv(Top) BY <1>1, StreamTypes
<1> DEFINE hd == Top.cur_header
           value == krypt_asn1_get_value_stream(hd.infinite, hd.length)
           open == IF Len(streams) = at THEN Append(streams, value) ELSE streams
<1>3. hd.infinite \in BOOLEAN /\ hd.length \in Nat BY <1>2 DEF Stream, Header
<1>4. value \in Stream /\ StreamInv(value) BY <1>3, StreamTyped
<1>5. StackOK(open) /\ at + 1 \in 1..Len(open)
  <2>1. CASE Len(streams) = at
    <3>2. ValueOf(value, streams[Len(streams)]) BY <1>1, <1>3, <2>1, StreamTyped DEF ValueOf, Top
    <3> HIDE DEF value
    <3>3. StackOK(Append(streams, value)) /\ Len(Append(streams, value)) = Len(streams) + 1
      BY <1>1, <1>4, <3>2, PushStack
    <3> QED BY <1>2, <2>1, <3>3
  <2>2. CASE Len(streams) # at BY <1>1, <1>2, <2>2
  <2> QED BY <2>1, <2>2
<1>6. streams' = [open EXCEPT ![at + 1] = Refill(open[at + 1], << >>)]
  BY DEF ReadValue, Called, Refill
<1> HIDE DEF open
<1>7. << >> \in Seq(Octets) OBVIOUS
<1>8. /\ StackOK([open EXCEPT ![at + 1] = Refill(open[at + 1], << >>)])
      /\ Len([open EXCEPT ![at + 1] = Refill(open[at + 1], << >>)]) = Len(open)
  BY <1>5, <1>7, RefillStack
<1>9. StackOK(streams') /\ Len(streams') = Len(open) BY <1>6, <1>8
<1>10. /\ job' = job /\ pos' = pos /\ at' = at + 1 /\ pc' = "enter"
       /\ len' = len /\ given' = given /\ status' = status BY DEF ReadValue
<1>11. at' \in 0..Len(streams') BY <1>2, <1>5, <1>9, <1>10
<1> QED BY <1>1, <1>9, <1>10, <1>11, RestAfter DEF Rest

-----------------------------------------------------------------------------
(* How far a value reaches: Extent is a recursive function, and what it is  *)
(* at p depends on what lies behind p only.                                 *)

ExtentAt(ends, octets, p) ==
  LET h == next_header(octets, p)
      q == p + h.used
      e == q + h.header.length
  IN  IF ~h.ok THEN Reach(IF q = Len(octets) THEN "cut" ELSE "malformed", q)
      ELSE IF IsEndOfContents(h.header)
           THEN Reach(IF h.header = TwoZeros THEN "whole" ELSE "malformed", q)
      ELSE IF h.header.infinite
           THEN IF ends[q].outcome = "whole" THEN ends[ends[q].end] ELSE ends[q]
      ELSE IF e > Len(octets) THEN Reach("cut", Len(octets))
      ELSE ends[e]

LEMMA ExtentIsLocal ==
  ASSUME NEW octets \in Seq(Octets), NEW p \in 0..Len(octets), NEW f, NEW g,
         \A r \in (p + 1)..Len(octets) : f[r] = g[r] /\ f[r].end \in r..Len(octets)
  PROVE  /\ ExtentAt(f, octets, p) = ExtentAt(g, octets, p)
         /\ ExtentAt(f, octets, p).end \in p..Len(octets)
<1> DEFINE n == Len(octets)
           h == next_header(octets, p)
           q == p + h.used
           e == q + h.header.length
<1>1. /\ n \in Nat /\ p \in 0..n
      /\ h.used \in 0..(n - p)
      /\ h.ok => h.used >= 2 /\ h.header \in Header BY HeaderFacts
<1>2. h.ok => h.header.length \in Nat BY <1>1 DEF Header
<1> HIDE DEF h
<1>3. q \in p..n /\ n \in p..n BY <1>1
<1>4. ASSUME h.ok
      PROVE  /\ q \in (p + 1)..n
             /\ e <= n => e \in (p + 1)..n BY <1>1, <1>2, <1>4
<1> HIDE DEF n, q, e
<1>5. \A F : ExtentAt(F, octets, p) =
        IF ~h.ok THEN Reach(IF q = n THEN "cut" ELSE "malformed", q)
        ELSE IF IsEndOfContents(h.header)
             THEN Reach(IF h.header = TwoZeros THEN "whole" ELSE "malformed", q)
        ELSE IF h.header.infinite
             THEN IF F[q].outcome = "whole" THEN F[F[q].end] ELSE F[q]
        ELSE IF e > n THEN Reach("cut", n)
        ELSE F[e] BY Zenon DEF ExtentAt, h, q, e, n
<1>6. \A r \in (p + 1)..n : f[r] = g[r] /\ f[r].end \in r..n BY DEF n
<1>7. \A r \in (p + 1)..n : r..n \subseteq (p + 1)..n /\ r..n \subseteq p..n BY <1>1
<1>8. ASSUME h.ok
      PROVE  f[q] = g[q] /\ f[q].end \in (p + 1)..n /\ f[q].end \in p..n
  BY <1>4, <1>6, <1>7, <1>8
<1>9. ASSUME h.ok
      PROVE  f[f[q].end] = g[g[q].end] /\ f[f[q].end].end \in p..n
  BY <1>6, <1>7, <1>8, <1>9
<1>10. ASSUME h.ok, ~(e > n)
       PROVE  f[e] = g[e] /\ f[e].end \in p..n
  <2>1. e \in (p + 1)..n BY <1>1, <1>2, <1>4, <1>10, e <= n DEF e, q
  <2> QED BY <1>6, <1>7, <2>1
<1>11. ExtentAt(f, octets, p) = ExtentAt(g, octets, p) BY <1>5, <1>8, <1>9, <1>10
<1>12. ExtentAt(f, octets, p).end \in p..n BY <1>3, <1>5, <1>8, <1>9, <1>10 DEF Reach
<1> QED BY <1>11, <1>12 DEF n

\* There is such a function: from the end of the octets on, value by value.
LEMMA ExtentsExist ==
  ASSUME NEW octets \in Seq(Octets)
  PROVE  \E f : f = [p \in 0..Len(octets) |-> ExtentAt(f, octets, p)]
<1> DEFINE n == Len(octets)
           From(f, q) == \A p \in q..n :
                           f[p] = ExtentAt(f, octets, p) /\ f[p].end \in p..n
           IsFcn(f) == f = [p \in 0..n |-> f[p]]
           S == {m \in Nat : m <= n + 1 => \E f : IsFcn(f) /\ From(f, n + 1 - m)}
<1>1. n \in Nat OBVIOUS
<1> HIDE DEF n
<1>2. 0 \in S
  <2>1. IsFcn([p \in 0..n |-> 0]) OBVIOUS
  <2>2. \A f : From(f, n + 1 - 0) BY <1>1
  <2> QED BY <2>1, <2>2
<1>3. ASSUME NEW m \in Nat, m # 0, m - 1 \in S
      PROVE  m \in S
  <2> SUFFICES ASSUME m <= n + 1 PROVE \E f : IsFcn(f) /\ From(f, n + 1 - m) OBVIOUS
  <2> DEFINE q == n + 1 - m
  <2>1. q \in 0..n /\ n + 1 - (m - 1) = q + 1 /\ m - 1 <= n + 1 BY <1>1, <1>3
  <2>2. PICK f : IsFcn(f) /\ From(f, q + 1) BY <1>3, <2>1
  <2> DEFINE g == [p \in 0..n |-> IF p = q THEN ExtentAt(f, octets, q) ELSE f[p]]
  <2> HIDE DEF q
  <2>3. g[q] = ExtentAt(f, octets, q) BY <2>1
  <2>4. \A p \in (q + 1)..n : g[p] = f[p] BY <2>1
  <2>5. IsFcn(g) BY DEF g
  <2> HIDE DEF g
  <2>6. ASSUME NEW p \in q..n
        PROVE  ExtentAt(f, octets, p) = ExtentAt(g, octets, p)
               /\ ExtentAt(f, octets, p).end \in p..n
    <3>1. p \in 0..Len(octets) BY <2>1, <1>1 DEF n
    <3>2. \A r \in (p + 1)..Len(octets) : f[r] = g[r] /\ f[r].end \in r..Len(octets)
      <4> SUFFICES ASSUME NEW r \in (p + 1)..n PROVE f[r] = g[r] /\ f[r].end \in r..n
        BY DEF n
      <4>1. r \in (q + 1)..n BY <2>1, <1>1
      <4> QED BY <2>2, <2>4, <4>1
    <3> QED BY <3>1, <3>2, ExtentIsLocal DEF n
  <2>7. ASSUME NEW p \in q..n
        PROVE  g[p] = ExtentAt(f, octets, p)
    <3>1. p = q \/ p \in (q + 1)..n BY <2>1, <1>1
    <3> QED BY <2>2, <2>3, <2>4, <3>1
  <2>8. From(g, q) BY <2>6, <2>7
  <2> QED BY <2>5, <2>8 DEF q
<1>4. \A m \in Nat : (\A k \in 0..(m - 1) : k \in S) => m \in S
  <2> TAKE m \in Nat
  <2> HAVE \A k \in 0..(m - 1) : k \in S
  <2>1. m = 0 \/ m - 1 \in 0..(m - 1) OBVIOUS
  <2> HIDE DEF S
  <2> QED BY <1>2, <1>3, <2>1
<1>5. Nat \subseteq S
  <2> HIDE DEF S
  <2> QED BY <1>4, NaturalInduction
<1>6. n + 1 \in S /\ n + 1 \in Nat BY <1>1, <1>5
<1>7. PICK f : IsFcn(f) /\ From(f, n + 1 - (n + 1)) BY <1>1, <1>6
<1>8. \A p \in 0..n : f[p] = ExtentAt(f, octets, p) BY <1>1, <1>7
<1>9. f = [p \in 0..n |-> ExtentAt(f, octets, p)] BY <1>7, <1>8
<1> QED BY <1>9 DEF n

LEMMA ExtentDefined ==
  ASSUME NEW octets \in Seq(Octets), NEW p \in 0..Len(octets)
  PROVE  /\ Extent(octets)[p] = ExtentAt(Extent(octets), octets, p)
         /\ Extent(octets)[p].end \in p..Len(octets)
<1> DEFINE n == Len(octets)
           c == Extent(octets)
           S == {m \in Nat : m <= n => c[n - m].end \in (n - m)..n}
<1>1. c = CHOOSE f : f = [r \in 0..Len(octets) |-> ExtentAt(f, octets, r)]
  BY Zenon DEF Extent, ExtentAt
<1> HIDE DEF c
<1>2. c = [r \in 0..Len(octets) |-> ExtentAt(c, octets, r)] BY <1>1, ExtentsExist
<1>3. \A r \in 0..n : c[r] = ExtentAt(c, octets, r) BY <1>2
<1>4. n \in Nat OBVIOUS
<1>5. ASSUME NEW m \in Nat, \A k \in 0..(m - 1) : k \in S
      PROVE  m \in S
  <2> SUFFICES ASSUME m <= n PROVE c[n - m].end \in (n - m)..n OBVIOUS
  <2>1. n - m \in 0..n BY <1>4
  <2>2. ASSUME NEW r \in ((n - m) + 1)..n
        PROVE  c[r].end \in r..n
    <3>1. n - r \in 0..(m - 1) /\ n - r <= n /\ n - (n - r) = r BY <1>4
    <3>2. n - r \in S BY <1>5, <3>1
    <3> QED BY <3>1, <3>2
  <2>3. ExtentAt(c, octets, n - m).end \in (n - m)..n BY <2>1, <2>2, ExtentIsLocal
  <2> QED BY <1>3, <2>1, <2>3
<1>6. Nat \subseteq S
  <2> HIDE DEF S
  <2> QED BY <1>5, NaturalInduction
<1>7. n - p \in Nat /\ n - p <= n /\ n - (n - p) = p BY <1>4
<1>8. c[p].end \in p..n BY <1>6, <1>7
<1> QED BY <1>3, <1>8 DEF c

LEMMA ExtentAtTheEnd ==
  ASSUME NEW octets \in Seq(Octets)
  PROVE  Extent(octets)[Len(octets)] = Reach("cut", Len(octets))
<1> DEFINE n == Len(octets)
           h == next_header(octets, n)
<1>1. n \in Nat /\ n \in 0..n OBVIOUS
<1>2. h = NoHeaderAfter(0)
  <2>1. n - n = 0 BY <1>1
  <2> QED BY <2>1 DEF next_header
<1>3. Extent(octets)[n] = ExtentAt(Extent(octets), octets, n) BY <1>1, ExtentDefined
<1>4. ~h.ok /\ n + h.used = n BY <1>1, <1>2 DEF NoHeaderAfter
<1> QED BY <1>3, <1>4 DEF ExtentAt

LEMMA ValueReachEnd ==
  ASSUME NEW octets \in Seq(Octets), NEW p \in 0..Len(octets), NEW infinite \in BOOLEAN,
         NEW length \in Nat
  PROVE  ValueReach(octets, infinite, length, p).end \in p..Len(octets)
<1>1. Extent(octets)[p].end \in p..Len(octets) BY ExtentDefined
<1>2. Len(octets) \in Nat /\ p \in Nat OBVIOUS
<1> QED BY <1>1, <1>2 DEF ValueReach, Reach

\* What follows a header is its value, and the next header behind it.
LEMMA ExtentBehind ==
  ASSUME NEW octets \in Seq(Octets), NEW p \in 0..Len(octets),
         next_header(octets, p).ok, ~IsEndOfContents(next_header(octets, p).header)
  PROVE  LET h == next_header(octets, p)
             v == ValueReach(octets, h.header.infinite, h.header.length, p + h.used)
         IN  Extent(octets)[p] = IF v.outcome = "whole" THEN Extent(octets)[v.end] ELSE v
<1> DEFINE h == next_header(octets, p)
           q == p + h.used
           e == q + h.header.length
           E == Extent(octets)
           n == Len(octets)
<1>1. E[p] = ExtentAt(E, octets, p) BY ExtentDefined
<1>2. ExtentAt(E, octets, p) =
        IF h.header.infinite THEN IF E[q].outcome = "whole" THEN E[E[q].end] ELSE E[q]
        ELSE IF e > n THEN Reach("cut", n)
        ELSE E[e] BY Zenon DEF ExtentAt
<1>3. e \in Int /\ n \in Int BY HeaderFacts DEF Header
<1>4. ValueReach(octets, h.header.infinite, h.header.length, q) =
        IF h.header.infinite THEN E[q]
        ELSE IF e <= n THEN Reach("whole", e) ELSE Reach("cut", n) BY Zenon DEF ValueReach
<1> HIDE DEF h, q, e, E, n
<1>5. e > n <=> ~(e <= n) BY <1>3
<1> DEFINE v == ValueReach(octets, h.header.infinite, h.header.length, q)
<1>6. E[p] = IF v.outcome = "whole" THEN E[v.end] ELSE v BY <1>1, <1>2, <1>4, <1>5 DEF Reach
<1> QED BY <1>6 DEF h, q, E

-----------------------------------------------------------------------------
(* What the streams together come to.                                      *)

ReachAt(r, octets, ss, p, i) ==
  IF i = Len(ss) THEN LastReach(octets, ss[i], p) ELSE GoesOn(octets, ss[i], r[i + 1])

Chain(r, octets, ss, p) == \A i \in 1..Len(ss) : r[i] = ReachAt(r, octets, ss, p, i)

LEMMA ReachesExist ==
  ASSUME NEW octets, NEW ss, NEW p, Len(ss) \in Nat
  PROVE  \E f : f = [i \in 1..Len(ss) |-> ReachAt(f, octets, ss, p, i)]
<1> DEFINE n == Len(ss)
           At(f, i) == ReachAt(f, octets, ss, p, i)
           From(f, q) == \A i \in q..n : f[i] = At(f, i)
           IsFcn(f) == f = [i \in 1..n |-> f[i]]
           S == {m \in Nat : m <= n => \E f : IsFcn(f) /\ From(f, n + 1 - m)}
<1>1. n \in Nat OBVIOUS
<1> HIDE DEF n
<1>2. 0 \in S
  <2>1. IsFcn([i \in 1..n |-> 0]) OBVIOUS
  <2>2. \A f : From(f, n + 1 - 0) BY <1>1
  <2> QED BY <2>1, <2>2
<1>3. ASSUME NEW m \in Nat, m # 0, m - 1 \in S
      PROVE  m \in S
  <2> SUFFICES ASSUME m <= n PROVE \E f : IsFcn(f) /\ From(f, n + 1 - m) OBVIOUS
  <2> DEFINE q == n + 1 - m
  <2>1. q \in 1..n /\ n + 1 - (m - 1) = q + 1 /\ m - 1 <= n BY <1>1, <1>3
  <2>2. PICK f : IsFcn(f) /\ From(f, q + 1) BY <1>3, <2>1
  <2> DEFINE g == [i \in 1..n |-> IF i = q THEN At(f, q) ELSE f[i]]
  <2> HIDE DEF q
  <2>3. g[q] = At(f, q) /\ \A i \in (q + 1)..n : g[i] = f[i] BY <2>1
  <2>4. IsFcn(g) BY DEF g
  <2> HIDE DEF g
  <2>5. ASSUME NEW i \in q..n
        PROVE  At(g, i) = At(f, i)
    <3>1. i # n => i + 1 \in (q + 1)..n BY <1>1, <2>1
    <3>2. i # n => g[i + 1] = f[i + 1] BY <2>3, <3>1
    <3> QED BY <3>2 DEF ReachAt, n
  <2>6. ASSUME NEW i \in q..n
        PROVE  g[i] = At(g, i)
    <3>1. i = q \/ i \in (q + 1)..n BY <1>1, <2>1
    <3> QED BY <2>2, <2>3, <2>5, <3>1
  <2> QED BY <2>4, <2>6 DEF q
<1>4. \A m \in Nat : (\A k \in 0..(m - 1) : k \in S) => m \in S
  <2> TAKE m \in Nat
  <2> HAVE \A k \in 0..(m - 1) : k \in S
  <2>1. m = 0 \/ m - 1 \in 0..(m - 1) OBVIOUS
  <2> HIDE DEF S
  <2> QED BY <1>2, <1>3, <2>1
<1>5. Nat \subseteq S
  <2> HIDE DEF S
  <2> QED BY <1>4, NaturalInduction
<1>6. n \in S BY <1>1, <1>5
<1>7. PICK f : IsFcn(f) /\ From(f, n + 1 - n) BY <1>1, <1>6
<1>8. \A i \in 1..n : f[i] = At(f, i)
  <2>1. n + 1 - n = 1 BY <1>1
  <2> QED BY <1>7, <2>1
<1>9. f = [i \in 1..n |-> At(f, i)] BY <1>7, <1>8
<1> QED BY <1>9 DEF n

LEMMA ReachesChain ==
  ASSUME NEW octets, NEW ss, NEW p, Len(ss) \in Nat
  PROVE  Chain(Reaches(octets, ss, p), octets, ss, p)
<1> DEFINE r == Reaches(octets, ss, p)
<1>1. r = CHOOSE f : f = [i \in 1..Len(ss) |-> ReachAt(f, octets, ss, p, i)]
  BY Zenon DEF Reaches, ReachAt
<1> HIDE DEF r
<1>2. r = [i \in 1..Len(ss) |-> ReachAt(r, octets, ss, p, i)] BY <1>1, ReachesExist
<1> QED BY <1>2 DEF Chain, r

\* The streams determine what they come to.
LEMMA ChainIsReaches ==
  ASSUME NEW octets, NEW ss, NEW p, Len(ss) \in Nat, Len(ss) > 0, NEW r, Chain(r, octets, ss, p)
  PROVE  r[1] = Reaches(octets, ss, p)[1]
<1> DEFINE n == Len(ss)
           f == Reaches(octets, ss, p)
           S == {m \in Nat : m < n => r[n - m] = f[n - m]}
<1>1. Chain(f, octets, ss, p) BY ReachesChain
<1>2. n \in Nat /\ n > 0 OBVIOUS
<1> HIDE DEF f
<1>3. \A m \in Nat : (\A k \in 0..(m - 1) : k \in S) => m \in S
  <2> SUFFICES ASSUME NEW m \in Nat, \A k \in 0..(m - 1) : k \in S, m < n
               PROVE  r[n - m] = f[n - m]
    OBVIOUS
  <2>1. n - m \in 1..n BY <1>2
  <2>2. CASE m = 0 BY <1>1, <2>1, <2>2, n - m = n DEF Chain, ReachAt
  <2>3. CASE m # 0
    <3>1. m - 1 \in 0..(m - 1) /\ m - 1 < n /\ n - (m - 1) = (n - m) + 1 /\ n - m # n
      BY <1>2, <2>3
    <3>2. r[(n - m) + 1] = f[(n - m) + 1] BY <3>1
    <3>3. /\ r[n - m] = GoesOn(octets, ss[n - m], r[(n - m) + 1])
          /\ f[n - m] = GoesOn(octets, ss[n - m], f[(n - m) + 1])
      BY <1>1, <2>1, <3>1, Zenon DEF Chain, ReachAt
    <3> QED BY <3>2, <3>3
  <2> QED BY <2>2, <2>3
<1>4. Nat \subseteq S
  <2> HIDE DEF S
  <2> QED BY <1>3, NaturalInduction
<1>5. n - 1 \in Nat /\ n - 1 < n /\ n - (n - 1) = 1 BY <1>2
<1>6. r[1] = f[1] BY <1>4, <1>5
<1> QED BY <1>6 DEF f

\* A step that changes no stream above the last one, unless to count octets,
\* leaves what they come to if the last one still comes to the same.
LEMMA ReachesKept ==
  ASSUME NEW octets, NEW ss, NEW tt, NEW p, NEW q,
         Len(ss) \in Nat, Len(ss) > 0, Len(tt) = Len(ss),
         \A i \in 1..Len(ss) : i < Len(ss) => (tt[i].state = "DONE" <=> ss[i].state = "DONE"),
         LastReach(octets, tt[Len(ss)], q) = LastReach(octets, ss[Len(ss)], p)
  PROVE  Reaches(octets, tt, q)[1] = Reaches(octets, ss, p)[1]
<1> DEFINE r == Reaches(octets, ss, p)
<1>1. Chain(r, octets, ss, p) BY ReachesChain
<1> HIDE DEF r
<1>2. ASSUME NEW i \in 1..Len(tt)
      PROVE  r[i] = ReachAt(r, octets, tt, q, i)
  <2>1. r[i] = ReachAt(r, octets, ss, p, i) /\ i \in 1..Len(ss) BY <1>1 DEF Chain
  <2>2. CASE i = Len(ss) BY <2>1, <2>2 DEF ReachAt
  <2>3. CASE i # Len(ss)
    <3>1. i < Len(ss) BY <2>3
    <3>2. tt[i].state = "DONE" <=> ss[i].state = "DONE" BY <2>1, <3>1
    <3> QED BY <2>1, <2>3, <3>2 DEF ReachAt, GoesOn
  <2> QED BY <2>2, <2>3
<1>3. Chain(r, octets, tt, q) BY <1>2 DEF Chain
<1> QED BY <1>3, ChainIsReaches DEF r

\* The streams of the state and of the next one.
LEMMA StepKeeps ==
  ASSUME Len(streams) \in Nat, Len(streams) > 0, Len(streams') = Len(streams),
         \A i \in 1..Len(streams) : i < Len(streams) =>
           (streams'[i].state = "DONE" <=> streams[i].state = "DONE"),
         LastReach(job.octets, streams'[Len(streams)], pos')
           = LastReach(job.octets, streams[Len(streams)], pos)
  PROVE  Reaches(job.octets, streams', pos')[1] = Reaches(job.octets, streams, pos)[1]
  BY ReachesKept

\* So does one that frees the last stream, or opens one.
LEMMA ReachesPopped ==
  ASSUME NEW octets, NEW ss, NEW tt, NEW p, NEW q, NEW n \in Nat, n > 0,
         Len(ss) = n + 1, Len(tt) = n,
         \A i \in 1..n : i < n => (tt[i].state = "DONE" <=> ss[i].state = "DONE"),
         LastReach(octets, tt[n], q) = GoesOn(octets, ss[n], LastReach(octets, ss[n + 1], p))
  PROVE  Reaches(octets, tt, q)[1] = Reaches(octets, ss, p)[1]
<1> DEFINE r == Reaches(octets, ss, p)
<1>1. Chain(r, octets, ss, p) BY ReachesChain
<1> HIDE DEF r
<1>2. ASSUME NEW i \in 1..Len(tt)
      PROVE  r[i] = ReachAt(r, octets, tt, q, i)
  <2>1. i \in 1..Len(ss) /\ i # Len(ss) OBVIOUS
  <2>2. r[i] = GoesOn(octets, ss[i], r[i + 1]) BY <1>1, <2>1 DEF Chain, ReachAt
  <2>3. CASE i = n
    <3>1. n + 1 \in 1..Len(ss) /\ n + 1 = Len(ss) OBVIOUS
    <3>2. r[n + 1] = LastReach(octets, ss[n + 1], p) BY <1>1, <3>1 DEF Chain, ReachAt
    <3> QED BY <2>2, <2>3, <3>2 DEF ReachAt
  <2>4. CASE i # n
    <3>1. i < n BY <2>4
    <3>2. tt[i].state = "DONE" <=> ss[i].state = "DONE" BY <3>1
    <3> QED BY <2>2, <2>4, <3>2 DEF ReachAt, GoesOn
  <2> QED BY <2>3, <2>4
<1>3. Chain(r, octets, tt, q) BY <1>2 DEF Chain
<1> QED BY <1>3, ChainIsReaches DEF r

\* No stream comes to an outcome, other than the end of its value, that all
\* of them together do not come to.
LEMMA LastOutcome ==
  ASSUME NEW octets, NEW ss, NEW p, NEW x, x # "whole", Len(ss) \in Nat, Len(ss) > 0,
         Reaches(octets, ss, p)[1].outcome # x
  PROVE  LastReach(octets, ss[Len(ss)], p).outcome # x
<1> DEFINE r == Reaches(octets, ss, p)
           S == {i \in 1..Len(ss) : r[i].outcome = x}
<1>1. Chain(r, octets, ss, p) BY ReachesChain
<1> HIDE DEF r
<1>2. SUFFICES ASSUME r[Len(ss)].outcome = x PROVE FALSE BY <1>1 DEF Chain, ReachAt
<1>3. S \subseteq Nat /\ Len(ss) \in S BY <1>2
<1>4. PICK i \in S : \A j \in S : i <= j
  <2> HIDE DEF S
  <2> QED BY <1>3, FirstOfNumbers
<1>5. i # 1 BY <1>4 DEF r
<1>6. i - 1 \in 1..Len(ss) /\ i - 1 # Len(ss) /\ (i - 1) + 1 = i BY <1>3, <1>4, <1>5
<1>7. r[i - 1] = GoesOn(octets, ss[i - 1], r[i]) BY <1>1, <1>6 DEF Chain, ReachAt
<1>8. r[i - 1].outcome = x BY <1>4, <1>7 DEF GoesOn
<1>9. i - 1 \in S BY <1>6, <1>8
<1> QED BY <1>3, <1>4, <1>9

LEMMA GoesOnEnd ==
  ASSUME NEW octets \in Seq(Octets), NEW p \in 0..Len(octets), NEW s, NEW r,
         r.end \in p..Len(octets)
  PROVE  GoesOn(octets, s, r).end \in p..Len(octets)
<1>1. r.end \in 0..Len(octets) /\ Len(octets) \in Nat OBVIOUS
<1>2. Extent(octets)[r.end].end \in r.end..Len(octets) BY <1>1, ExtentDefined
<1>3. Extent(octets)[r.end].end \in p..Len(octets) BY <1>1, <1>2
<1> QED BY <1>3 DEF GoesOn

LEMMA LastReachEnd ==
  ASSUME NEW octets \in Seq(Octets), NEW p \in 0..Len(octets), NEW s \in Stream, StreamInv(s)
  PROVE  LastReach(octets, s, p).end \in p..Len(octets)
<1> DEFINE h == s.cur_header
           v == ValueReach(octets, h.infinite, h.length, p)
           d == ValueReach(octets, FALSE, s.max_read - s.num_read, p)
<1>1. h.infinite \in BOOLEAN /\ h.length \in Nat BY DEF Stream, Header
<1>2. s.max_read - s.num_read \in Nat BY DEF Stream, StreamInv
<1>3. v.end \in p..Len(octets) /\ d.end \in p..Len(octets) BY <1>1, <1>2, ValueReachEnd
<1>4. GoesOn(octets, s, v).end \in p..Len(octets) BY <1>3, GoesOnEnd
<1>5. Extent(octets)[p].end \in p..Len(octets) BY ExtentDefined
<1>6. Reach("whole", p).end \in p..Len(octets) BY DEF Reach
<1> HIDE DEF v, d
<1>7. LastReach(octets, s, p) \in {d, Extent(octets)[p], Reach("whole", p), GoesOn(octets, s, v)}
  BY DEF LastReach, v, d
<1> QED BY <1>3, <1>4, <1>5, <1>6, <1>7

\* The streams come to an end no earlier than they are.
LEMMA ReachesAhead ==
  ASSUME NEW octets \in Seq(Octets), NEW p \in 0..Len(octets), NEW ss, StackOK(ss)
  PROVE  Reaches(octets, ss, p)[1].end \in p..Len(octets)
<1> DEFINE r == Reaches(octets, ss, p)
           n == Len(ss)
           S == {m \in Nat : m < n => r[n - m].end \in p..Len(octets)}
<1>1. n \in Nat /\ n > 0 BY DEF StackOK
<1>2. Chain(r, octets, ss, p) BY <1>1, ReachesChain
<1> HIDE DEF r
<1>3. \A m \in Nat : (\A k \in 0..(m - 1) : k \in S) => m \in S
  <2> SUFFICES ASSUME NEW m \in Nat, \A k \in 0..(m - 1) : k \in S, m < n
               PROVE  r[n - m].end \in p..Len(octets)
    OBVIOUS
  <2>1. n - m \in 1..n BY <1>1
  <2>2. CASE m = 0
    <3>1. r[n - m] = LastReach(octets, ss[n], p)
      BY <1>2, <2>1, <2>2, n - m = n DEF Chain, ReachAt
    <3>2. ss[n] \in Stream /\ StreamInv(ss[n]) BY <1>1, n \in 1..n, StackBelow
    <3> QED BY <3>1, <3>2, LastReachEnd
  <2>3. CASE m # 0
    <3>1. m - 1 \in 0..(m - 1) /\ m - 1 < n /\ n - (m - 1) = (n - m) + 1 /\ n - m # n
      BY <1>1, <2>3
    <3>2. r[(n - m) + 1].end \in p..Len(octets) BY <3>1
    <3>3. r[n - m] = GoesOn(octets, ss[n - m], r[(n - m) + 1])
      BY <1>2, <2>1, <3>1, Zenon DEF Chain, ReachAt
    <3> QED BY <3>2, <3>3, GoesOnEnd
  <2> QED BY <2>2, <2>3
<1>4. Nat \subseteq S
  <2> HIDE DEF S
  <2> QED BY <1>3, NaturalInduction
<1>5. n - 1 \in Nat /\ n - 1 < n /\ n - (n - 1) = 1 BY <1>1
<1>6. r[1].end \in p..Len(octets) BY <1>4, <1>5
<1> QED BY <1>6 DEF r

-----------------------------------------------------------------------------
(* The position stays within the value.                                    *)

LEMMA JobReach ==
  ASSUME NEW j \in Jobs
  PROVE  /\ ValueReach(j.octets, j.infinite, j.length, 0) = WholeReach(j)
         /\ j.cut => Len(j.octets) < j.end
         /\ j.end \in Nat BY JobsAssumption

\* Two streams at the same point of the same header.
Same(s, t) ==
  s.state = t.state /\ s.cur_header = t.cur_header /\ s.header_offset = t.header_offset

\* Where a list of streams may have end-of-contents octets.
Placed(ss, a, c, i) ==
  IsEndOfContents(ss[i].cur_header) =>
    IF i = Len(ss) THEN ss[i].state = "DONE" \/ c # "value" \/ a # i
                   ELSE ss[i].state = "DONE" /\ a = i + 1

LEMMA SameEnds ==
  ASSUME NEW s, NEW t, Same(s, t), EndInv(t)
  PROVE  EndInv(s)
  BY DEF Same, EndInv

LEMMA ReachesWithin ==
  ASSUME NEW j \in Jobs, NEW p \in 0..Len(j.octets), NEW ss, StackOK(ss),
         Reaches(j.octets, ss, p)[1] = WholeReach(j)
  PROVE  p <= j.end
<1>1. j.octets \in Seq(Octets) /\ Len(j.octets) \in Nat /\ j.end \in Nat BY JobTypes, JobReach
<1>2. WholeReach(j).end \in p..Len(j.octets) BY <1>1, ReachesAhead
<1>3. CASE j.cut BY <1>1, <1>3, JobReach
<1>4. CASE ~j.cut BY <1>1, <1>2, <1>4 DEF WholeReach, Reach
<1> QED BY <1>3, <1>4

LEMMA PositionAfter ==
  ASSUME FitInv, PositionInv, FitInv', job' = job, pos' >= pos,
         \A i \in 1..Len(streams') :
           EndInv(streams'[i]) /\ Placed(streams', at', pc', i),
         Reaches(job.octets, streams', pos')[1] = Reaches(job.octets, streams, pos)[1],
         status' = "end" => status = "end" \/ pos' = job.end
  PROVE  PositionInv'
<1>1. StackOK(streams) /\ Rest BY FitParts
<1>2. /\ streams' \in Seq(Stream) /\ streams' # << >>
      /\ \A i \in 1..Len(streams') : StreamInv(streams'[i])
      /\ pos' \in 0..Len(job.octets) /\ DOMAIN streams' = 1..Len(streams')
      /\ Len(streams') \in Nat BY DEF FitInv, TypeOK
<1>3. StackOK(streams')
  <2>1. ValueStreamFitsHeader' BY DEF FitInv
  <2>2. \A i \in 1..Len(streams') : i > 1 => i \in 2..Len(streams') BY <1>2
  <2>3. \A i \in 1..Len(streams') : i > 1 => ValueOf(streams'[i], streams'[i - 1])
    BY <2>1, <2>2 DEF ValueStreamFitsHeader, ValueOf
  <2> QED BY <1>2, <2>3 DEF StackOK
<1>4. Reaches(job.octets, streams', pos')[1] = WholeReach(job) BY DEF PositionInv
<1>5. pos' <= job.end BY <1>1, <1>2, <1>3, <1>4, ReachesWithin DEF Rest
<1>6. status' = "end" => pos' = job.end
  <2>1. status = "end" => pos = job.end BY DEF PositionInv
  <2>2. job.end \in Nat /\ pos \in Nat /\ pos' \in Nat BY <1>1, <1>2, JobReach, JobTypes DEF Rest
  <2> QED BY <1>5, <2>1, <2>2
<1>7. \A i \in DOMAIN streams' :
        /\ EndInv(streams'[i])
        /\ IsEndOfContents(streams'[i].cur_header) =>
             IF i = Len(streams') THEN streams'[i].state = "DONE" \/ pc' # "value" \/ at' # i
                                  ELSE streams'[i].state = "DONE" /\ at' = i + 1
  BY <1>2 DEF Placed
<1> QED BY <1>4, <1>6, <1>7 DEF PositionInv, EndsLast

LEMMA PositionParts ==
  ASSUME FitInv, PositionInv
  PROVE  /\ StackOK(streams) /\ Rest
         /\ \A i \in 1..Len(streams) : EndInv(streams[i]) /\ Placed(streams, at, pc, i)
         /\ Reaches(job.octets, streams, pos)[1] = WholeReach(job)
         /\ status = "end" => pos = job.end
         /\ LastReach(job.octets, streams[Len(streams)], pos).outcome # "malformed"
<1>1. StackOK(streams) /\ Rest BY FitParts
<1>2. DOMAIN streams = 1..Len(streams) /\ Len(streams) \in Nat /\ Len(streams) > 0
  BY <1>1 DEF StackOK
<1>3. \A i \in 1..Len(streams) : EndInv(streams[i]) /\ Placed(streams, at, pc, i)
  BY <1>2 DEF PositionInv, Placed, EndsLast
<1>4. Reaches(job.octets, streams, pos)[1] = WholeReach(job) /\ (status = "end" => pos = job.end)
  BY DEF PositionInv
<1>5. WholeReach(job).outcome # "malformed" BY DEF WholeReach, Reach
<1> QED BY <1>1, <1>2, <1>3, <1>4, <1>5, LastOutcome

\* Only the empty value stream of a chunked stream that is done has
\* end-of-contents octets above it.
LEMMA NoEndAbove ==
  ASSUME FitInv, PositionInv, at = 0 \/ Top.kind = "chunked" \/ Top.num_read # Top.max_read
  PROVE  \A i \in 1..Len(streams) : i < Len(streams) => ~IsEndOfContents(streams[i].cur_header)
<1> SUFFICES ASSUME NEW i \in 1..Len(streams), i < Len(streams),
                    IsEndOfContents(streams[i].cur_header)
             PROVE  FALSE
  OBVIOUS
<1>1. StackOK(streams) /\ Rest /\ EndInv(streams[i]) /\ Placed(streams, at, pc, i)
  BY PositionParts
<1>2. at = i + 1 BY <1>1 DEF Placed
<1>3. /\ i + 1 \in 1..Len(streams) /\ i + 1 > 1 /\ (i + 1) - 1 = i /\ i + 1 # 0
  BY <1>1 DEF StackOK
<1>4. ValueOf(streams[i + 1], streams[i]) /\ StreamInv(streams[i + 1]) /\ streams[i + 1] \in Stream
  BY <1>1, <1>3 DEF StackOK
<1>5. /\ ~streams[i].cur_header.infinite /\ streams[i].cur_header.length = 0 BY <1>1 DEF EndInv
<1>6. Top.kind # "chunked" /\ Top.max_read = 0 /\ Top.num_read \in Nat /\ Top.num_read <= Top.max_read
  BY <1>2, <1>4, <1>5 DEF ValueOf, StreamInv, Top, Stream
<1> QED BY <1>2, <1>3, <1>6

\* A step that leaves every stream at its header.
LEMMA PositionInPlace ==
  ASSUME FitInv, PositionInv, FitInv', job' = job, pos' >= pos,
         Len(streams') = Len(streams),
         \A i \in 1..Len(streams) : Same(streams'[i], streams[i]),
         \A i \in 1..Len(streams) : i < Len(streams) => ~IsEndOfContents(streams[i].cur_header),
         LastReach(job.octets, streams'[Len(streams)], pos') =
           LastReach(job.octets, streams[Len(streams)], pos),
         pc' # "value" \/ at' = 0,
         status' = "end" => status = "end"
  PROVE  PositionInv'
<1>1. /\ StackOK(streams) /\ Rest /\ Len(streams) \in Nat /\ Len(streams) > 0
      /\ \A i \in 1..Len(streams) : EndInv(streams[i]) BY PositionParts DEF StackOK
<1>2. ASSUME NEW i \in 1..Len(streams')
      PROVE  EndInv(streams'[i]) /\ Placed(streams', at', pc', i)
  <2>1. i \in 1..Len(streams) /\ Same(streams'[i], streams[i]) /\ EndInv(streams[i]) BY <1>1
  <2>2. EndInv(streams'[i]) BY <2>1, SameEnds
  <2>3. i # Len(streams') => ~IsEndOfContents(streams'[i].cur_header)
    BY <1>1, <2>1, i # Len(streams) => i < Len(streams) DEF Same
  <2>4. at' # i \/ pc' # "value" BY <1>1
  <2> QED BY <2>2, <2>3, <2>4 DEF Placed
<1>3. \A i \in 1..Len(streams) : i < Len(streams) =>
        (streams'[i].state = "DONE" <=> streams[i].state = "DONE") BY DEF Same
<1>4. Reaches(job.octets, streams', pos')[1] = Reaches(job.octets, streams, pos)[1]
  BY <1>1, <1>3, ReachesKept
<1> QED BY <1>2, <1>4, PositionAfter

\* The octets that are counted do not matter.
LEMMA RefillReach ==
  ASSUME NEW octets, NEW s \in Stream, NEW t \in Seq(Octets), NEW p
  PROVE  /\ Same(Refill(s, t), s)
         /\ LastReach(octets, Refill(s, t), p) = LastReach(octets, s, p)
<1> DEFINE r == Refill(s, t)
<1>1. /\ r.kind = s.kind /\ r.max_read = s.max_read /\ r.num_read = s.num_read
      /\ r.state = s.state /\ r.cur_header = s.cur_header /\ r.header_offset = s.header_offset
  BY DEF Refill, Stream
<1> HIDE DEF r
<1>2. Same(r, s) BY <1>1 DEF Same
<1>3. LastReach(octets, r, p) = LastReach(octets, s, p) BY <1>1 DEF LastReach, GoesOn
<1> QED BY <1>2, <1>3 DEF r

LEMMA InitPosition == Init => PositionInv
<1> SUFFICES ASSUME Init
             PROVE  PositionInv
  OBVIOUS
<1> DEFINE s == krypt_asn1_get_value_stream(job.infinite, job.length)
<1>1. /\ job \in Jobs /\ pos = 0 /\ streams = << s >> /\ status = "open" /\ pc = "enter"
  BY DEF Init
<1>2. /\ job.infinite \in BOOLEAN /\ job.length \in Nat
      /\ ValueReach(job.octets, job.infinite, job.length, 0) = WholeReach(job)
  BY <1>1, JobTypes, JobReach
<1>3. /\ s.cur_header = NoHeader /\ s.state = "NEW_HEADER" /\ s.num_read = 0
      /\ s.kind = (IF job.infinite THEN "chunked" ELSE "definite")
      /\ ~job.infinite => s.max_read = job.length
  BY DEF krypt_asn1_get_value_stream, krypt_instream_new_chunked, krypt_instream_new_definite,
    Closed
<1> HIDE DEF s
<1>4. ~IsEndOfContents(s.cur_header) BY <1>3 DEF IsEndOfContents, NoHeader
<1>5. LastReach(job.octets, s, 0) = WholeReach(job)
  <2>1. CASE job.infinite BY <1>2, <1>3, <2>1 DEF LastReach, ValueReach
  <2>2. CASE ~job.infinite
    <3>1. s.max_read - s.num_read = job.length /\ job.infinite = FALSE BY <1>2, <1>3, <2>2
    <3> QED BY <1>2, <1>3, <2>2, <3>1 DEF LastReach
  <2> QED BY <2>1, <2>2
<1>6. Len(streams) = 1 /\ streams[1] = s /\ DOMAIN streams = {1} BY <1>1
<1>7. Reaches(job.octets, streams, pos)[1] = WholeReach(job)
  <2>1. Chain(Reaches(job.octets, streams, pos), job.octets, streams, pos) BY <1>6, ReachesChain
  <2>2. 1 \in 1..Len(streams) BY <1>6
  <2>3. Reaches(job.octets, streams, pos)[1] = LastReach(job.octets, s, 0)
    BY <1>1, <1>6, <2>1, <2>2 DEF Chain, ReachAt
  <2> QED BY <1>5, <2>3
<1>8. EndInv(s) BY <1>3, <1>4 DEF EndInv
<1> QED BY <1>1, <1>4, <1>6, <1>7, <1>8 DEF PositionInv

LEMMA ReadPosition ==
  ASSUME FitInv, PositionInv, NEW n \in job.sizes, Read(n)
  PROVE  PositionInv'
<1>1. StackOK(streams) /\ Rest /\ Len(streams) \in Nat /\ Len(streams) > 0
  BY PositionParts DEF StackOK
<1>2. at = 0 /\ job' = job /\ pos' = pos /\ pc' = "enter" /\ status' = status BY DEF Read
<1>3. streams' = [streams EXCEPT ![1] = Refill(streams[1], << >>)] BY DEF Read, Called, Refill
<1>4. 1 \in 1..Len(streams) /\ << >> \in Seq(Octets) /\ Len(streams) \in 1..Len(streams) BY <1>1
<1>5. /\ Len(streams') = Len(streams)
      /\ \A i \in 1..Len(streams) :
           streams'[i] = IF i = 1 THEN Refill(streams[1], << >>) ELSE streams[i]
  BY <1>1, <1>3, <1>4, RefillStack
<1>6. \A i \in 1..Len(streams) :
        /\ Same(streams'[i], streams[i])
        /\ LastReach(job.octets, streams'[i], pos) = LastReach(job.octets, streams[i], pos)
  <2> TAKE i \in 1..Len(streams)
  <2>1. streams[1] \in Stream BY <1>1, <1>4, StackBelow
  <2>2. CASE i = 1
    <3>1. /\ Same(Refill(streams[1], << >>), streams[1])
          /\ LastReach(job.octets, Refill(streams[1], << >>), pos) =
               LastReach(job.octets, streams[1], pos) BY <1>4, <2>1, RefillReach
    <3>2. streams'[1] = Refill(streams[1], << >>) BY <1>4, <1>5
    <3> QED BY <2>2, <3>1, <3>2
  <2>3. CASE i # 1 BY <1>5, <2>3 DEF Same
  <2> QED BY <2>2, <2>3
<1>7. FitInv' BY ReadFits
<1>8. pos' >= pos BY <1>1, <1>2, JobTypes DEF Rest
<1>9. \A i \in 1..Len(streams) : i < Len(streams) => ~IsEndOfContents(streams[i].cur_header)
  BY <1>2, NoEndAbove
<1> QED BY <1>2, <1>4, <1>5, <1>6, <1>7, <1>8, <1>9, PositionInPlace

\* A stream hands its octets over.
LEMMA ReturnsPosition ==
  ASSUME FitInv, PositionInv, FitInv', at > 0, NEW below, NEW o \in Seq(Octets),
         StackOK(below), Len(below) = Len(streams), Returns(below, o), pos' >= pos,
         \A i \in 1..Len(streams) : Same(below[i], streams[i]),
         LastReach(job.octets, below[Len(streams)], pos') =
           LastReach(job.octets, streams[Len(streams)], pos),
         Top.kind = "chunked" \/ Top.num_read # Top.max_read
  PROVE  PositionInv'
<1>1. StackOK(streams) /\ Rest /\ at \in 1..Len(streams) /\ Len(streams) \in Nat /\ at \in Nat
  BY PositionParts, StreamTypes
<1>2. job' = job /\ pc' # "value" /\ (status' = "end" => status = "end") BY DEF Returns
<1>3. /\ Len(streams') = Len(streams)
      /\ \A i \in 1..Len(streams) : Same(streams'[i], streams[i])
      /\ LastReach(job.octets, streams'[Len(streams)], pos') =
           LastReach(job.octets, streams[Len(streams)], pos)
  <2>1. CASE at = 1 BY <2>1 DEF Returns
  <2>2. CASE at # 1
    <3>1. at - 1 \in 1..Len(below) /\ Len(streams) \in 1..Len(below) BY <1>1, <2>2
    <3>2. below[at - 1] \in Stream BY <3>1, StackBelow
    <3>3. PICK t \in Seq(Octets) : Add(below[at - 1], o) = Refill(below[at - 1], t)
      BY <3>2, AddIsRefill
    <3>4. streams' = [below EXCEPT ![at - 1] = Refill(below[at - 1], t)]
      BY <2>2, <3>3 DEF Returns
    <3>5. /\ Len(streams') = Len(below)
          /\ \A i \in 1..Len(below) :
               streams'[i] = IF i = at - 1 THEN Refill(below[at - 1], t) ELSE below[i]
      BY <3>1, <3>4, RefillStack
    <3>6. \A p : \A i \in 1..Len(below) :
            /\ Same(streams'[i], below[i])
            /\ LastReach(job.octets, streams'[i], p) = LastReach(job.octets, below[i], p)
      <4> TAKE p
      <4> TAKE i \in 1..Len(below)
      <4> QED BY <3>1, <3>2, <3>5, RefillReach DEF Same
    <3>7. \A i \in 1..Len(streams) : Same(streams'[i], streams[i]) BY <3>6 DEF Same
    <3> QED BY <3>1, <3>5, <3>6, <3>7
  <2> QED BY <2>1, <2>2
<1>4. \A i \in 1..Len(streams) : i < Len(streams) => ~IsEndOfContents(streams[i].cur_header)
  BY NoEndAbove
<1> QED BY <1>2, <1>3, <1>4, PositionInPlace

LEMMA DefiniteFailsPosition ==
  ASSUME FitInv, PositionInv, DefiniteFails
  PROVE  PositionInv'
<1>1. StackOK(streams) /\ Rest BY PositionParts
<1>2. /\ job' = job /\ pos' = pos /\ streams' = streams /\ at' = 0 /\ status' = "failed"
      /\ Top.num_read # Top.max_read BY DEF DefiniteFails, Fails
<1>3. FitInv' BY DefiniteFailsFits
<1>4. pos' >= pos BY <1>1, <1>2, JobTypes DEF Rest
<1>5. \A i \in 1..Len(streams) : i < Len(streams) => ~IsEndOfContents(streams[i].cur_header)
  BY <1>2, NoEndAbove
<1>6. \A i \in 1..Len(streams) : Same(streams'[i], streams[i]) BY <1>2 DEF Same
<1> QED BY <1>2, <1>3, <1>4, <1>5, <1>6, PositionInPlace

\* What a definite stream takes from the inner stream it no longer has left.
LEMMA DefiniteReadPosition ==
  ASSUME FitInv, PositionInv, NEW r \in 1..Len(job.octets), DefiniteRead(r)
  PROVE  PositionInv'
<1>1. StackOK(streams) /\ Rest /\ at > 0 BY PositionParts DEF DefiniteRead, Definite
<1>2. /\ at \in 1..Len(streams) /\ Len(streams) \in Nat /\ at \in Nat
      /\ Top \in Stream /\ StreamInv(Top)
      /\ at < Len(streams) => Top.kind = "chunked" BY <1>1, StreamTypes
<1>3. Top.kind = "definite" /\ at = Len(streams) /\ Top.num_read # Top.max_read
  BY <1>2 DEF DefiniteRead, Definite
<1>4. job.octets \in Seq(Octets) /\ Len(job.octets) \in Nat /\ r \in Nat /\ pos \in Nat
  BY <1>1, JobTypes DEF Rest
<1> DEFINE n == Top.num_read + r
           s == [Top EXCEPT !.num_read = n]
           below == [streams EXCEPT ![at] = s]
           o == SubSeq(job.octets, pos + 1, pos + r)
<1>5. n \in Nat /\ n <= Top.max_read
  <2>1. Top.num_read \in Nat /\ Top.max_read \in Nat /\ len \in Nat
    BY <1>1, <1>2 DEF Stream, Rest
  <2>2. r <= ToRead(Top) BY DEF DefiniteRead
  <2> QED BY <1>2, <1>4, <2>1, <2>2 DEF ToRead, StreamInv
<1>6. o \in Seq(Octets)
  <2>1. pos + r <= Len(job.octets) BY DEF DefiniteRead
  <2>2. \A i \in (pos + 1)..(pos + r) : job.octets[i] \in Octets BY <1>4, <2>1
  <2> QED BY <1>4, <2>2, SubSeqProperties, pos + 1 \in Int, pos + r \in Int
<1>7. Returns(below, o) /\ pos' = pos + r /\ pos' >= pos
  <2>1. s = [Top EXCEPT !.num_read = @ + r] BY <1>2 DEF Stream
  <2>2. below = WithTop([Top EXCEPT !.num_read = @ + r]) BY <2>1 DEF WithTop
  <2> HIDE DEF below, o
  <2>3. Returns(below, o) BY <2>2 DEF DefiniteRead, o
  <2>4. pos' = pos + r BY DEF DefiniteRead
  <2> QED BY <1>4, <2>3, <2>4
<1>8. /\ s \in Stream /\ StreamInv(s) /\ s.kind = Top.kind /\ s.max_read = Top.max_read
      /\ s.num_read = n /\ Same(s, Top) BY <1>2, <1>5 DEF Stream, StreamInv, Same
<1> HIDE DEF s, o
<1>9. /\ StackOK(below) /\ Len(below) = Len(streams)
      /\ \A i \in 1..Len(streams) : below[i] = IF i = at THEN s ELSE streams[i]
  <2>1. s.kind = streams[at].kind /\ s.max_read = streams[at].max_read /\ ~(at < Len(streams))
    BY <1>2, <1>3, <1>8 DEF Top
  <2> QED BY <1>1, <1>2, <1>8, <2>1, UpdateStack
<1> HIDE DEF below
<1>10. LastReach(job.octets, s, pos') = LastReach(job.octets, Top, pos)
  <2>1. s.max_read - s.num_read = (Top.max_read - Top.num_read) - r
    <3>1. Top.num_read \in Nat /\ Top.max_read \in Nat BY <1>2 DEF Stream
    <3> QED BY <1>4, <1>8, <3>1 DEF n
  <2>2. Top.max_read - Top.num_read \in Int BY <1>2 DEF Stream
  <2> DEFINE left == Top.max_read - Top.num_read
  <2>3. (pos + r) + (left - r) = pos + left BY <1>4, <2>2
  <2> HIDE DEF left
  <2>4. ValueReach(job.octets, FALSE, left - r, pos + r) = ValueReach(job.octets, FALSE, left, pos)
    BY <2>3 DEF ValueReach
  <2>5. /\ LastReach(job.octets, s, pos') = ValueReach(job.octets, FALSE, left - r, pos + r)
        /\ LastReach(job.octets, Top, pos) = ValueReach(job.octets, FALSE, left, pos)
    BY <1>3, <1>7, <1>8, <2>1, Zenon DEF LastReach, left
  <2> QED BY <2>4, <2>5
<1>11. \A i \in 1..Len(streams) : Same(below[i], streams[i]) BY <1>2, <1>8, <1>9 DEF Same, Top
<1>12. LastReach(job.octets, below[Len(streams)], pos') =
         LastReach(job.octets, streams[Len(streams)], pos) BY <1>2, <1>3, <1>9, <1>10 DEF Top
<1>13. FitInv' BY DefiniteReadFits
<1> HIDE DEF n
<1> QED BY <1>1, <1>3, <1>6, <1>7, <1>9, <1>11, <1>12, <1>13, ReturnsPosition

LEMMA ChunkedReturnsPosition ==
  ASSUME FitInv, PositionInv, ChunkedReturns
  PROVE  PositionInv'
<1>1. StackOK(streams) /\ Rest /\ at > 0 /\ Top.kind = "chunked"
  BY PositionParts DEF ChunkedReturns, Chunked
<1>2. Top.total \in Seq(Octets) BY <1>1, StreamTypes DEF Stream
<1>3. Returns(streams, Top.total) /\ pos' = pos BY DEF ChunkedReturns
<1>4. pos' >= pos BY <1>1, <1>3, JobTypes DEF Rest
<1>5. \A i \in 1..Len(streams) : Same(streams[i], streams[i]) BY DEF Same
<1>6. FitInv' BY ChunkedReturnsFits
<1> QED BY <1>1, <1>2, <1>3, <1>4, <1>5, <1>6, ReturnsPosition

\* A stream that is at its end comes to where the inner stream is.
LEMMA ReturnsEofPosition ==
  ASSUME FitInv, PositionInv, at > 0, ReturnsEof, pos' = pos,
         IF Top.kind = "definite" THEN Top.num_read = Top.max_read ELSE Top.state = "DONE"
  PROVE  PositionInv'
<1> DEFINE o == job.octets
<1>1. /\ StackOK(streams) /\ Rest
      /\ at \in 1..Len(streams) /\ Len(streams) \in Nat /\ at \in Nat
      /\ Top \in Stream /\ StreamInv(Top)
      /\ at < Len(streams) => Top.kind = "chunked"
      /\ Reaches(o, streams, pos)[1] = WholeReach(job) BY PositionParts, StreamTypes
<1>2. \A i \in 1..Len(streams) : EndInv(streams[i]) /\ Placed(streams, at, pc, i)
  BY PositionParts
<1>3. o \in Seq(Octets) /\ Len(o) \in Nat /\ pos \in 0..Len(o) /\ pos \in Nat
  BY <1>1, JobTypes DEF Rest
<1>4. at = Len(streams)
  <2>1. CASE Top.kind = "definite" BY <1>1, <2>1
  <2>2. CASE Top.kind # "definite"
    <3>1. IsEndOfContents(streams[at].cur_header) BY <1>1, <1>2, <2>2 DEF EndInv, Top
    <3>2. at # Len(streams) => at = at + 1 BY <1>1, <1>2, <3>1 DEF Placed
    <3> QED BY <1>1, <3>2
  <2> QED BY <2>1, <2>2
<1>5. LastReach(o, streams[Len(streams)], pos) = Reach("whole", pos)
  <2>1. CASE Top.kind = "definite"
    <3>1. Top.max_read - Top.num_read = 0 BY <1>1, <2>1 DEF Stream
    <3>2. LastReach(o, Top, pos) = ValueReach(o, FALSE, 0, pos) BY <2>1, <3>1 DEF LastReach
    <3>3. pos + 0 = pos /\ pos <= Len(o) BY <1>3
    <3> QED BY <1>4, <3>2, <3>3 DEF ValueReach, Top
  <2>2. CASE Top.kind # "definite"
    <3>1. IsEndOfContents(Top.cur_header) /\ Top.state = "DONE"
      BY <1>1, <1>2, <2>2 DEF EndInv, Top
    <3> QED BY <1>4, <2>2, <3>1 DEF LastReach, Top
  <2> QED BY <2>1, <2>2
<1>6. /\ at' = at - 1 /\ job' = job /\ pc' # "value" /\ pos' >= pos
      /\ FitInv' BY <1>3, ReturnsEofFits DEF ReturnsEof
<1>7. CASE at = 1
  <2>1. streams' = streams /\ at' = 0 BY <1>6, <1>7 DEF ReturnsEof
  <2>2. \A i \in 1..Len(streams') : EndInv(streams'[i]) /\ Placed(streams', at', pc', i)
    <3>1. Len(streams') = 1 /\ \A i \in 1..Len(streams') : i = Len(streams')
      <4>1. Len(streams') = 1 BY <1>4, <1>7, <2>1
      <4> QED BY <4>1
    <3> QED BY <1>2, <1>6, <2>1, <3>1 DEF Placed
  <2>3. Chain(Reaches(o, streams, pos), o, streams, pos) BY <1>1, ReachesChain
  <2>4. Reaches(o, streams, pos)[1] = Reach("whole", pos)
    BY <1>1, <1>4, <1>5, <1>7, <2>3 DEF Chain, ReachAt
  <2>5. pos' = job.end BY <1>1, <2>4 DEF WholeReach, Reach
  <2>6. Reaches(o, streams', pos')[1] = Reaches(o, streams, pos)[1] BY <2>1
  <2> HIDE DEF o
  <2> QED BY <1>6, <2>2, <2>5, <2>6, PositionAfter DEF o
<1>8. CASE at # 1
  <2> DEFINE n == at - 1
             cut == SubSeq(streams, 1, n)
             b == streams[n]
             r == AfterValue(b)
  <2>1. n \in Nat /\ n > 0 /\ n \in 1..Len(streams) /\ n < Len(streams) /\ Len(streams) = n + 1
    BY <1>1, <1>4, <1>8
  <2>2. StackOK(cut) /\ Len(cut) = n /\ \A j \in 1..n : cut[j] = streams[j]
    BY <1>1, <2>1, CutStack
  <2>3. /\ streams' = [cut EXCEPT ![n] = AfterValue(cut[n])] /\ status' = status
    BY <1>8 DEF ReturnsEof, Freed
  <2>4. b \in Stream /\ StreamInv(b) /\ b.kind = "chunked" BY <1>1, <2>1, StackBelow
  <2> HIDE DEF cut, n
  <2>5. /\ r.kind = b.kind /\ r.cur_header = b.cur_header /\ r.header_offset = b.header_offset
        /\ r.state = IF b.state = "DONE" THEN "DONE" ELSE "NEW_HEADER"
    BY <2>4 DEF AfterValue, Add, Stream
  <2>6. n \in 1..n /\ cut[n] = b /\ DOMAIN cut = 1..n BY <2>1, <2>2 DEF StackOK
  <2>7. streams' = [cut EXCEPT ![n] = r] BY <2>3, <2>6
  <2> HIDE DEF r, b
  <2>8. /\ Len(streams') = n /\ streams'[n] = r
        /\ \A j \in 1..n : j < n => streams'[j] = streams[j]
    <3>1. cut \in Seq(Stream) BY <2>2 DEF StackOK
    <3>2. Len(streams') = n BY <2>2, <2>7, <3>1
    <3>3. \A j \in 1..n : streams'[j] = IF j = n THEN r ELSE cut[j] BY <2>6, <2>7
    <3> QED BY <2>1, <2>2, <2>6, <3>2, <3>3
  <2>9. EndInv(b) /\ Placed(streams, at, pc, n) /\ b = streams[n] BY <1>2, <2>1 DEF b
  <2>10. IsEndOfContents(b.cur_header) => b.state = "DONE" BY <2>1, <2>9 DEF Placed
  <2>11. ASSUME NEW i \in 1..n, i < n
         PROVE  ~IsEndOfContents(streams[i].cur_header)
    <3>1. i \in 1..Len(streams) /\ i # Len(streams) /\ i + 1 # at BY <1>4, <2>1, <2>11
    <3> QED BY <1>2, <3>1 DEF Placed
  <2>12. LastReach(o, r, pos) = GoesOn(o, b, Reach("whole", pos))
    <3>1. CASE b.state = "DONE" BY <2>4, <2>5, <2>9, <3>1 DEF LastReach, GoesOn, EndInv
    <3>2. CASE b.state # "DONE" BY <2>4, <2>5, <3>2 DEF LastReach, GoesOn, Reach
    <3> QED BY <3>1, <3>2
  <2>13. Reaches(o, streams', pos')[1] = Reaches(o, streams, pos)[1]
    <3>1. LastReach(o, streams'[n], pos') = GoesOn(o, streams[n], LastReach(o, streams[n + 1], pos))
      BY <1>5, <2>1, <2>8, <2>9, <2>12
    <3>2. \A i \in 1..n : i < n => (streams'[i].state = "DONE" <=> streams[i].state = "DONE")
      BY <2>8
    <3> QED BY <2>1, <2>8, <3>1, <3>2, ReachesPopped
  <2>14. ASSUME NEW i \in 1..Len(streams')
         PROVE  EndInv(streams'[i]) /\ Placed(streams', at', pc', i)
    <3>1. CASE i = n
      <4>1. EndInv(r) BY <2>5, <2>9, <2>10 DEF EndInv
      <4> QED BY <1>6, <2>8, <3>1, <4>1 DEF Placed
    <3>2. CASE i # n
      <4>1. i \in 1..n /\ i < n /\ i \in 1..Len(streams) BY <2>1, <2>8, <3>2
      <4> QED BY <1>2, <2>8, <2>11, <4>1 DEF Placed
    <3> QED BY <3>1, <3>2
  <2> HIDE DEF o
  <2> QED BY <1>6, <2>3, <2>13, <2>14, PositionAfter DEF o
<1> QED BY <1>7, <1>8

\* Octets that fit the buffer are left behind altogether.
LEMMA HeaderBytesFit ==
  ASSUME NEW s \in Stream, NEW bytes, NEW next_state, len \in Nat,
         Len(bytes) \in Nat, Len(bytes) - s.header_offset <= len
  PROVE  LET r == int_read_header_bytes(s, bytes, next_state) IN
         r.state = next_state /\ r.header_offset = 0 /\ r.cur_header = s.cur_header
<1> DEFINE available == Len(bytes) - s.header_offset
           piece == IF job.values_only THEN << >>
                    ELSE SubSeq(bytes, 1, IF len < available THEN len ELSE available)
           el == s.el \o piece
           r == int_read_header_bytes(s, bytes, next_state)
<1>1. s.header_offset \in Nat /\ ~(len < available) BY DEF Stream
<1>2. r = [s EXCEPT !.el = el, !.header_offset = 0, !.state = next_state]
  BY <1>1 DEF int_read_header_bytes, Stream
<1> HIDE DEF el, r
<1>3. r.state = next_state /\ r.header_offset = 0 /\ r.cur_header = s.cur_header
  BY <1>2 DEF Stream
<1> QED BY <1>3 DEF r

\* 00 00 is read at once or stays at its second octet, and then the buffer is
\* full; no other header ends a stream.
LEMMA AfterHeaderEnds ==
  ASSUME NEW s \in Stream, len \in Nat, len > 0, s.state # "DONE",
         Len(s.cur_header.tag_bytes) <= 1
  PROVE  LET e == AfterHeader(s) IN
         /\ ~IsEndOfContents(s.cur_header) => e.state # "DONE"
         /\ /\ IsEndOfContents(s.cur_header) /\ s.cur_header.length_bytes = << 0 >>
            /\ s.header_offset = 0 /\ s.state # "PROCESS_VALUE"
            => \/ e.state = "DONE"
               \/ /\ e.state = "PROCESS_LENGTH" /\ e.header_offset = 0
                  /\ Full(e) \/ TooMuch(e)
<1> DEFINE t == ReadTag(s)
           hb == int_read_header_bytes(s, s.cur_header.tag_bytes, "PROCESS_LENGTH")
           l == ReadLength(t)
           lb == int_read_header_bytes(t, t.cur_header.length_bytes, "PROCESS_VALUE")
           e == AfterHeader(s)
<1>1. /\ s.cur_header.tag_bytes \in Seq(Octets) /\ s.cur_header.length_bytes \in Seq(Octets)
      /\ s.header_offset \in Nat /\ s.state \in State
      /\ Len(s.cur_header.tag_bytes) \in Nat BY DEF Stream, Header
<1>2. "PROCESS_LENGTH" \in State /\ "PROCESS_VALUE" \in State BY DEF State
<1>3. hb \in Stream BY <1>1, <1>2, HeaderBytes
<1>4. hb.state = "PROCESS_LENGTH" /\ hb.header_offset = 0 /\ hb.cur_header = s.cur_header
  BY <1>1, HeaderBytesFit
<1>5. /\ t \in Stream /\ t.cur_header = s.cur_header
      /\ t.state \in {"PROCESS_LENGTH", "PROCESS_VALUE"}
      /\ t.state = "PROCESS_VALUE" => s.state = "PROCESS_VALUE"
      /\ s.header_offset = 0 => t.header_offset = 0
  <2>1. CASE s.state \in {"NEW_HEADER", "PROCESS_TAG"} BY <1>3, <1>4, <2>1 DEF ReadTag
  <2>2. CASE s.state \notin {"NEW_HEADER", "PROCESS_TAG"} BY <1>1, <2>2 DEF ReadTag, State
  <2> QED BY <2>1, <2>2
<1>6. e = IF Full(t) \/ TooMuch(t) THEN t ELSE l BY DEF AfterHeader
<1> HIDE DEF t, hb, e
<1>7. lb \in Stream /\ lb.cur_header = s.cur_header /\ lb.state \in {t.state, "PROCESS_VALUE"}
  <2>1. t \in Stream /\ t.cur_header.length_bytes \in Seq(Octets) BY <1>1, <1>5
  <2> QED BY <1>2, <1>5, <2>1, HeaderBytes
<1>8. l = IF t.state # "PROCESS_VALUE" THEN int_check_done(lb) ELSE t BY DEF ReadLength
<1>9. ASSUME ~IsEndOfContents(s.cur_header)
      PROVE  e.state # "DONE"
  <2>1. int_check_done(lb) = lb BY <1>7, <1>9 DEF int_check_done
  <2> HIDE DEF lb, l
  <2>2. e \in {t, lb} BY <1>6, <1>8, <2>1
  <2> QED BY <1>5, <1>7, <2>2
<1>10. ASSUME IsEndOfContents(s.cur_header), s.cur_header.length_bytes = << 0 >>,
              s.header_offset = 0, s.state # "PROCESS_VALUE"
       PROVE  \/ e.state = "DONE"
              \/ /\ e.state = "PROCESS_LENGTH" /\ e.header_offset = 0
                 /\ Full(e) \/ TooMuch(e)
  <2>1. t.state = "PROCESS_LENGTH" /\ t.header_offset = 0 BY <1>5, <1>10
  <2>2. CASE Full(t) \/ TooMuch(t) BY <1>6, <2>1, <2>2
  <2>3. CASE ~(Full(t) \/ TooMuch(t))
    <3>1. Len(t.cur_header.length_bytes) = 1 BY <1>5, <1>10
    <3>2. lb.state = "PROCESS_VALUE"
      <4>1. Len(t.cur_header.length_bytes) - t.header_offset <= len BY <2>1, <3>1
      <4>2. Len(t.cur_header.length_bytes) \in Nat /\ t \in Stream BY <1>5, <3>1
      <4> QED BY <4>1, <4>2, HeaderBytesFit
    <3> HIDE DEF lb
    <3>3. e = [lb EXCEPT !.state = "DONE"]
      BY <1>6, <1>7, <1>8, <1>10, <2>1, <2>3, <3>2 DEF int_check_done
    <3> QED BY <1>7, <3>3 DEF Stream
  <2> QED BY <2>2, <2>3
<1> QED BY <1>9, <1>10 DEF e

\* What a chunked stream comes to is decided by the header it goes on with.
LEMMA NewHeaderReach ==
  ASSUME NEW octets \in Seq(Octets), NEW p \in 0..Len(octets), NEW t \in Stream,
         t.kind = "chunked", t.state # "DONE", StreamInv(t), EndInv(t),
         t.state = "NEW_HEADER" => LastReach(octets, t, p).outcome # "malformed"
  PROVE  LET h == next_header(octets, p)
             s == NewHeader(t, h)
             q == IF t.state = "NEW_HEADER" THEN p + h.used ELSE p
             c == s.cur_header
             v == ValueReach(octets, c.infinite, c.length, q)
         IN  /\ IsEndOfContents(c) =>
                  /\ c.length_bytes = << 0 >> /\ ~c.infinite /\ c.length = 0
                  /\ s.header_offset = 0 /\ s.state # "PROCESS_VALUE"
             /\ LastReach(octets, t, p) =
                  IF IsEndOfContents(c) THEN Reach("whole", q)
                  ELSE IF v.outcome = "whole" THEN Extent(octets)[v.end] ELSE v
             /\ t.state = "NEW_HEADER" /\ ~h.ok =>
                  LastReach(octets, t, q) = LastReach(octets, t, p)
<1> DEFINE n == Len(octets)
           E == Extent(octets)
           h == next_header(octets, p)
           s == NewHeader(t, h)
           q == IF t.state = "NEW_HEADER" THEN p + h.used ELSE p
           c == s.cur_header
           v == ValueReach(octets, c.infinite, c.length, q)
           Goal == /\ IsEndOfContents(c) =>
                        /\ c.length_bytes = << 0 >> /\ ~c.infinite /\ c.length = 0
                        /\ s.header_offset = 0 /\ s.state # "PROCESS_VALUE"
                   /\ LastReach(octets, t, p) =
                        IF IsEndOfContents(c) THEN Reach("whole", q)
                        ELSE IF v.outcome = "whole" THEN E[v.end] ELSE v
                   /\ t.state = "NEW_HEADER" /\ ~h.ok =>
                        LastReach(octets, t, q) = LastReach(octets, t, p)
<1>1. n \in Nat /\ p \in Nat /\ h.used \in 0..(n - p) /\ E[p] = ExtentAt(E, octets, p)
  BY HeaderFacts, ExtentDefined
<1>2. ASSUME t.state = "NEW_HEADER"
      PROVE  LastReach(octets, t, p) = E[p] /\ LastReach(octets, t, q) = E[q] /\ q = p + h.used
  BY <1>2 DEF LastReach
<1>3. ASSUME t.state = "NEW_HEADER" /\ h.ok
      PROVE  Goal
  <2>1. c = h.header /\ s.header_offset = 0 /\ s.state = "PROCESS_TAG"
    BY <1>3 DEF NewHeader, Stream
  <2>2. CASE IsEndOfContents(h.header)
    <3>1. E[p] = Reach(IF h.header = TwoZeros THEN "whole" ELSE "malformed", p + h.used)
      BY <1>1, <1>3, <2>2, Zenon DEF ExtentAt
    <3>2. h.header = TwoZeros BY <1>2, <1>3, <3>1 DEF Reach
    <3>3. /\ h.header.length = 0 /\ ~h.header.infinite
          /\ h.header.length_bytes = << 0 >> BY <3>2 DEF TwoZeros
    <3> HIDE DEF E, h, s
    <3> QED BY <1>2, <1>3, <2>1, <2>2, <3>1, <3>2, <3>3
  <2>3. CASE ~IsEndOfContents(h.header)
    <3>1. q = p + h.used /\ LastReach(octets, t, p) = E[p] BY <1>2, <1>3
    <3>2. E[p] = IF v.outcome = "whole" THEN E[v.end] ELSE v
      BY <1>3, <2>1, <2>3, <3>1, ExtentBehind
    <3> HIDE DEF E, h, s, q, v
    <3> QED BY <1>3, <2>1, <2>3, <3>1, <3>2
  <2> QED BY <2>2, <2>3
<1>4. ASSUME t.state = "NEW_HEADER" /\ ~h.ok
      PROVE  Goal
  <2>1. s = t /\ q = p + h.used /\ q \in 0..n BY <1>1, <1>4 DEF NewHeader
  <2>2. E[p] = Reach(IF q = n THEN "cut" ELSE "malformed", q)
    BY <1>1, <1>4, <2>1, Zenon DEF ExtentAt
  <2>3. q = n BY <1>2, <1>4, <2>2 DEF Reach
  <2>4. E[p] = Reach("cut", n) /\ E[n] = Reach("cut", n) BY <2>2, <2>3, ExtentAtTheEnd
  <2>5. ~IsEndOfContents(c) BY <1>4, <2>1 DEF EndInv
  <2>6. c.infinite \in BOOLEAN /\ c.length \in Nat BY <2>1 DEF Stream, Header
  <2> HIDE DEF E, c, s, q
  <2>7. v = E[n] \/ (v = Reach("whole", n)) \/ v = Reach("cut", n)
    BY <1>1, <2>3, <2>6 DEF ValueReach, E
  <2>8. E[p] = IF v.outcome = "whole" THEN E[v.end] ELSE v BY <2>4, <2>7 DEF Reach
  <2>9. LastReach(octets, t, p) = E[p] /\ LastReach(octets, t, q) = E[p]
    BY <1>2, <1>4, <2>3, <2>4
  <2> QED BY <2>5, <2>8, <2>9
<1>5. ASSUME t.state # "NEW_HEADER"
      PROVE  Goal
  <2>1. s = t /\ q = p BY <1>5 DEF NewHeader
  <2>2. IsEndOfContents(c) =>
          /\ c.length_bytes = << 0 >> /\ ~c.infinite /\ c.length = 0
          /\ s.header_offset = 0 /\ s.state # "PROCESS_VALUE" BY <2>1 DEF EndInv
  <2>3. LastReach(octets, t, p) =
          IF IsEndOfContents(c) THEN Reach("whole", p)
          ELSE GoesOn(octets, t, ValueReach(octets, c.infinite, c.length, p))
    BY <1>5, <2>1 DEF LastReach
  <2>4. GoesOn(octets, t, v) = IF v.outcome = "whole" THEN E[v.end] ELSE v BY DEF GoesOn
  <2> HIDE DEF E, s, v
  <2> QED BY <1>5, <2>1, <2>2, <2>3, <2>4 DEF v
<1> HIDE DEF Goal
<1>6. Goal BY <1>3, <1>4, <1>5 DEF Goal
<1> QED BY <1>6 DEF Goal

\* One turn of int_read moves over header octets and comes to the same.
LEMMA ElementReach ==
  ASSUME NEW octets \in Seq(Octets), NEW p \in 0..Len(octets), NEW t \in Stream,
         t.kind = "chunked", t.state # "DONE", StreamInv(t), EndInv(t),
         t.state = "NEW_HEADER" => LastReach(octets, t, p).outcome # "malformed", len \in Nat, len > 0
  PROVE  LET h == next_header(octets, p)
             e == AfterHeader(NewHeader(t, h))
             q == IF t.state = "NEW_HEADER" THEN p + h.used ELSE p
         IN  /\ e \in Stream /\ EndInv(e)
             /\ LastReach(octets, e, q) = LastReach(octets, t, p)
             /\ IsEndOfContents(e.cur_header) =>
                  e.state = "DONE" \/ Full(e) \/ TooMuch(e)
             /\ ~IsEndOfContents(e.cur_header) => e.state # "DONE"
             /\ t.state # "NEW_HEADER" => e.cur_header = t.cur_header
<1> DEFINE h == next_header(octets, p)
           s == NewHeader(t, h)
           e == AfterHeader(s)
           q == IF t.state = "NEW_HEADER" THEN p + h.used ELSE p
           c == s.cur_header
           v == ValueReach(octets, c.infinite, c.length, q)
<1>1. h.ok => h.header \in Header /\ Len(h.header.tag_bytes) = 1 BY HeaderFacts
<1>2. /\ s \in Stream /\ Keeps(s, t) /\ Len(s.cur_header.tag_bytes) <= 1
      /\ s.state # "DONE"
      /\ t.state # "NEW_HEADER" => s.cur_header = t.cur_header
  <2> HIDE DEF h
  <2> QED BY <1>1, NewHeaderFacts
<1>3. /\ IsEndOfContents(c) =>
           /\ c.length_bytes = << 0 >> /\ ~c.infinite /\ c.length = 0
           /\ s.header_offset = 0 /\ s.state # "PROCESS_VALUE"
      /\ LastReach(octets, t, p) =
           IF IsEndOfContents(c) THEN Reach("whole", q)
           ELSE IF v.outcome = "whole" THEN Extent(octets)[v.end] ELSE v BY NewHeaderReach
<1> HIDE DEF s, q, h
<1>4. /\ e \in Stream /\ Keeps(e, s) /\ e.cur_header = c
      /\ e.state \in {"PROCESS_LENGTH", "PROCESS_VALUE", "DONE"} BY <1>2, AfterHeaderFacts
<1>5. /\ ~IsEndOfContents(c) => e.state # "DONE"
      /\ IsEndOfContents(c) =>
           \/ e.state = "DONE"
           \/ /\ e.state = "PROCESS_LENGTH" /\ e.header_offset = 0
              /\ Full(e) \/ TooMuch(e) BY <1>2, <1>3, AfterHeaderEnds
<1> HIDE DEF e, c
<1>6. EndInv(e) BY <1>3, <1>4, <1>5 DEF EndInv
<1>7. e.kind = "chunked" BY <1>2, <1>4 DEF Keeps
<1>8. LastReach(octets, e, q) =
        IF IsEndOfContents(c) THEN Reach("whole", q) ELSE GoesOn(octets, e, v)
  BY <1>4, <1>7 DEF LastReach
<1>9. ~IsEndOfContents(c) =>
        GoesOn(octets, e, v) = IF v.outcome = "whole" THEN Extent(octets)[v.end] ELSE v
  BY <1>5 DEF GoesOn
<1> HIDE DEF v
<1>10. LastReach(octets, e, q) = LastReach(octets, t, p) BY <1>3, <1>8, <1>9
<1>11. /\ IsEndOfContents(e.cur_header) => e.state = "DONE" \/ Full(e) \/ TooMuch(e)
       /\ ~IsEndOfContents(e.cur_header) => e.state # "DONE"
       /\ t.state # "NEW_HEADER" => e.cur_header = t.cur_header BY <1>2, <1>4, <1>5 DEF c
<1> QED BY <1>4, <1>6, <1>10, <1>11 DEF e, s, q, h

LEMMA ElementInPlace ==
  ASSUME FitInv, PositionInv, FitInv', at > 0, Top.kind = "chunked", Top.state # "DONE",
         NEW e, e = AfterHeader(NewHeader(Top, next_header(job.octets, pos))),
         NEW u, u \in Stream, streams' = [streams EXCEPT ![at] = u],
         u.kind = e.kind, u.max_read = e.max_read, u.num_read = e.num_read,
         Same(u, e),
         pos' = IF Top.state = "NEW_HEADER" THEN pos + next_header(job.octets, pos).used ELSE pos,
         job' = job, at' \in {0, at}, status' = "end" => status = "end",
         pc' = "value" => at' = 0 \/ ~(Full(e) \/ TooMuch(e))
  PROVE  PositionInv'
<1> DEFINE o == job.octets
           m == Len(streams)
           h == next_header(o, pos)
           q == IF Top.state = "NEW_HEADER" THEN pos + h.used ELSE pos
<1>1. /\ StackOK(streams) /\ Rest
      /\ at \in 1..m /\ m \in Nat /\ at \in Nat
      /\ Top \in Stream /\ StreamInv(Top)
      /\ at < m => Top.state # "NEW_HEADER"
      /\ LastReach(o, streams[m], pos).outcome # "malformed" BY PositionParts, StreamTypes
<1>2. \A i \in 1..m : EndInv(streams[i]) /\ Placed(streams, at, pc, i) BY PositionParts
<1>3. o \in Seq(Octets) /\ pos \in 0..Len(o) /\ Len(o) \in Nat BY <1>1, JobTypes DEF Rest
<1>4. len \in Nat /\ len > 0 BY <1>1 DEF Rest
<1>5. \A i \in 1..m : i < m => ~IsEndOfContents(streams[i].cur_header) BY NoEndAbove
<1>6. Top.state = "NEW_HEADER" => LastReach(o, Top, pos).outcome # "malformed"
  <2>1. Top.state = "NEW_HEADER" => at = m BY <1>1
  <2> QED BY <1>1, <2>1 DEF Top
<1>7. EndInv(Top) BY <1>1, <1>2 DEF Top
<1>8. /\ e \in Stream /\ EndInv(e)
      /\ LastReach(o, e, q) = LastReach(o, Top, pos)
      /\ IsEndOfContents(e.cur_header) => e.state = "DONE" \/ Full(e) \/ TooMuch(e)
      /\ ~IsEndOfContents(e.cur_header) => e.state # "DONE"
      /\ Top.state # "NEW_HEADER" => e.cur_header = Top.cur_header
  BY <1>1, <1>3, <1>4, <1>6, <1>7, ElementReach
<1>9. pos' = q /\ pos' >= pos /\ (Top.state # "NEW_HEADER" => pos' = pos)
  <2>1. h.used \in 0..(Len(o) - pos) BY <1>3, HeaderFacts
  <2> HIDE DEF h
  <2>2. q >= pos BY <1>3, <2>1
  <2> QED BY <2>2 DEF h
<1> HIDE DEF q, h
<1>10. /\ Len(streams') = m
       /\ \A i \in 1..m : streams'[i] = IF i = at THEN u ELSE streams[i]
  BY <1>1, ExceptSeq DEF StackOK
<1>11. /\ EndInv(u)
       /\ \A p : LastReach(o, u, p) = LastReach(o, e, p)
  BY <1>8, SameEnds DEF Same, LastReach, GoesOn
<1>12. at < m => ~IsEndOfContents(e.cur_header) /\ e.state # "DONE" BY <1>1, <1>5, <1>8 DEF Top
<1>13. ASSUME NEW i \in 1..Len(streams')
       PROVE  EndInv(streams'[i]) /\ Placed(streams', at', pc', i)
  <2>1. CASE i = at
    <3>1. streams'[i] = u /\ i = at BY <1>1, <1>10, <2>1
    <3>2. CASE at < m
      <4>1. ~IsEndOfContents(u.cur_header) BY <1>12, <3>2 DEF Same
      <4> QED BY <1>11, <3>1, <4>1 DEF Placed
    <3>3. CASE at = m
      <4>1. IsEndOfContents(u.cur_header) => u.state = "DONE" \/ pc' # "value" \/ at' = 0
        BY <1>8 DEF Same
      <4>2. at' = 0 => at' # i BY <1>1, <2>1
      <4> QED BY <1>10, <1>11, <3>1, <3>3, <4>1, <4>2 DEF Placed
    <3> QED BY <1>1, <3>2, <3>3
  <2>2. CASE i # at
    <3>1. streams'[i] = streams[i] /\ i \in 1..m /\ at' # i BY <1>1, <1>10, <2>2
    <3>2. i # m => ~IsEndOfContents(streams[i].cur_header) BY <1>1, <1>5, <3>1, i # m => i < m
    <3> QED BY <1>2, <1>10, <3>1, <3>2 DEF Placed
  <2> QED BY <2>1, <2>2
<1>14. Reaches(o, streams', pos')[1] = Reaches(o, streams, pos)[1]
  <2>1. ASSUME NEW i \in 1..m, i < m
        PROVE  streams'[i].state = "DONE" <=> streams[i].state = "DONE"
    <3>1. CASE i = at BY <1>10, <1>12, <2>1, <3>1 DEF Same, Top
    <3>2. CASE i # at BY <1>10, <3>2
    <3> QED BY <3>1, <3>2
  <2>2. LastReach(o, streams'[m], pos') = LastReach(o, streams[m], pos)
    <3>1. m \in 1..m BY <1>1
    <3>2. CASE at = m BY <1>8, <1>9, <1>10, <1>11, <3>1, <3>2 DEF Top
    <3>3. CASE at # m
      <4>1. at < m BY <1>1, <3>3
      <4> QED BY <1>1, <1>9, <1>10, <3>1, <3>3, <4>1
    <3> QED BY <3>2, <3>3
  <2>3. m > 0 BY <1>1
  <2>4. \A i \in 1..m : i < m => (streams'[i].state = "DONE" <=> streams[i].state = "DONE")
    BY <2>1
  <2>5. Len(streams) \in Nat /\ Len(streams') = Len(streams) BY <1>1, <1>10
  <2> QED BY <2>2, <2>3, <2>4, <2>5, StepKeeps
<1> HIDE DEF o
<1> QED BY <1>9, <1>13, <1>14, PositionAfter DEF o

LEMMA ElementPosition ==
  ASSUME FitInv, PositionInv, Element
  PROVE  PositionInv'
<1> DEFINE o == job.octets
           h == next_header(o, pos)
           s == NewHeader(Top, h)
           e == AfterHeader(s)
<1>1. /\ StackOK(streams) /\ Rest /\ at > 0 /\ Top.kind = "chunked" /\ Top.state # "DONE"
      /\ pos' = IF Top.state = "NEW_HEADER" THEN pos + h.used ELSE pos
      /\ FitInv' BY PositionParts, ElementFits DEF Element, Chunked
<1>2. /\ at \in 1..Len(streams) /\ Len(streams) \in Nat /\ at \in Nat
      /\ Top \in Stream /\ StreamInv(Top)
      /\ at < Len(streams) => Top.state # "NEW_HEADER"
      /\ LastReach(o, streams[Len(streams)], pos).outcome # "malformed"
  BY <1>1, StreamTypes, PositionParts
<1>3. o \in Seq(Octets) /\ pos \in 0..Len(o) /\ Len(o) \in Nat BY <1>1, JobTypes DEF Rest
<1>4. \/ /\ s.cur_header = NoHeader
         /\ streams' = streams /\ job' = job /\ at' = 0 /\ status' = "crashed"
      \/ streams' = WithTop([e EXCEPT !.el = << >>]) /\ Fails
      \/ /\ streams' = WithTop(Add(e, << >>)) /\ pc' = "loop"
         /\ UNCHANGED << job, at, len, given, status >>
      \/ /\ ~TooMuch(e) /\ ~Full(e)
         /\ streams' = WithTop(e) /\ pc' = "value"
         /\ UNCHANGED << job, at, len, given, status >> BY Zenon DEF Element
<1>5. EndInv(Top) BY <1>2, PositionParts DEF Top
<1>6. /\ h.used \in 0..(Len(o) - pos)
      /\ h.ok => h.header \in Header /\ Len(h.header.tag_bytes) = 1 BY <1>3, HeaderFacts
<1>7. e \in Stream
  <2>1. Top.state = "NEW_HEADER" => at = Len(streams) BY <1>2
  <2>2. Top.state = "NEW_HEADER" => LastReach(o, Top, pos).outcome # "malformed"
    BY <1>2, <2>1 DEF Top
  <2>3. len \in Nat /\ len > 0 BY <1>1 DEF Rest
  <2> QED BY <1>1, <1>2, <1>3, <1>5, <2>2, <2>3, ElementReach
<1>8. CASE /\ s.cur_header = NoHeader
           /\ streams' = streams /\ job' = job /\ at' = 0 /\ status' = "crashed"
  <2>1. pos' >= pos
    <3> HIDE DEF h
    <3> QED BY <1>1, <1>3, <1>6
  <2>2. LastReach(o, streams[Len(streams)], pos') = LastReach(o, streams[Len(streams)], pos)
    <3>1. CASE Top.state # "NEW_HEADER" BY <1>1, <3>1
    <3>2. CASE Top.state = "NEW_HEADER"
      <4>1. ~h.ok
        <5>1. SUFFICES ASSUME h.ok PROVE FALSE OBVIOUS
        <5>2. s.cur_header = h.header BY <1>2, <3>2, <5>1 DEF NewHeader, Stream
        <5>3. NoHeader.tag_bytes = << >> /\ Len(<< >>) = 0 BY DEF NoHeader
        <5>4. Len(NoHeader.tag_bytes) = 1 BY <1>6, <1>8, <5>1, <5>2
        <5> QED BY <5>3, <5>4
      <4>2. at = Len(streams) BY <1>2, <3>2
      <4>3. LastReach(o, Top, pos + h.used) = LastReach(o, Top, pos)
        <5>1. LastReach(o, Top, pos).outcome # "malformed" BY <1>2, <4>2 DEF Top
        <5> QED BY <1>1, <1>2, <1>3, <1>5, <3>2, <4>1, <5>1, NewHeaderReach
      <4> QED BY <1>1, <3>2, <4>2, <4>3 DEF Top
    <3> QED BY <3>1, <3>2
  <2>3. \A i \in 1..Len(streams) : Same(streams'[i], streams[i]) BY <1>8 DEF Same
  <2>4. \A i \in 1..Len(streams) : i < Len(streams) => ~IsEndOfContents(streams[i].cur_header)
    BY <1>1, NoEndAbove
  <2> HIDE DEF h, s, e
  <2> QED BY <1>1, <1>8, <2>1, <2>2, <2>3, <2>4, PositionInPlace
<1>9. \A t, el \in Seq(Octets) :
        LET u == [e EXCEPT !.total = t, !.el = el]
        IN  /\ u \in Stream /\ u.kind = e.kind /\ u.max_read = e.max_read
            /\ u.num_read = e.num_read /\ Same(u, e)
            /\ WithTop(u) = [streams EXCEPT ![at] = u]
  <2> HIDE DEF e
  <2> QED BY <1>7 DEF Stream, Same, WithTop
<1>10. << >> \in Seq(Octets) /\ e.total \in Seq(Octets) /\ e.el \in Seq(Octets)
  <2> HIDE DEF e
  <2> QED BY <1>7 DEF Stream
<1>11. CASE streams' = WithTop([e EXCEPT !.el = << >>]) /\ Fails
  <2> DEFINE u == [e EXCEPT !.total = e.total, !.el = << >>]
  <2>1. u = [e EXCEPT !.el = << >>]
    <3> HIDE DEF e
    <3> QED BY <1>7 DEF Stream
  <2>2. /\ u \in Stream /\ u.kind = e.kind /\ u.max_read = e.max_read
        /\ u.num_read = e.num_read /\ Same(u, e) /\ WithTop(u) = [streams EXCEPT ![at] = u]
    BY <1>9, <1>10
  <2>3. job' = job /\ at' = 0 /\ status' = "failed" /\ streams' = WithTop(u)
    BY <1>11, <2>1 DEF Fails
  <2> HIDE DEF u, e
  <2> QED BY <1>1, <2>2, <2>3, ElementInPlace DEF e
<1>12. CASE /\ streams' = WithTop(Add(e, << >>)) /\ pc' = "loop"
            /\ UNCHANGED << job, at, len, given, status >>
  <2>1. PICK t \in Seq(Octets) : Add(e, << >>) = [e EXCEPT !.total = t, !.el = << >>]
    BY <1>7, <1>10, AddIsRefill DEF Refill
  <2> DEFINE u == [e EXCEPT !.total = t, !.el = << >>]
  <2>2. /\ u \in Stream /\ u.kind = e.kind /\ u.max_read = e.max_read
        /\ u.num_read = e.num_read /\ Same(u, e) /\ WithTop(u) = [streams EXCEPT ![at] = u]
    BY <1>9, <1>10
  <2>3. job' = job /\ at' = at /\ status' = status /\ streams' = WithTop(u) /\ pc' = "loop"
    BY <1>12, <2>1
  <2> HIDE DEF u, e
  <2> QED BY <1>1, <2>2, <2>3, ElementInPlace DEF e
<1>13. CASE /\ ~TooMuch(e) /\ ~Full(e)
            /\ streams' = WithTop(e) /\ pc' = "value"
            /\ UNCHANGED << job, at, len, given, status >>
  <2>1. Same(e, e) /\ streams' = [streams EXCEPT ![at] = e] BY <1>13 DEF Same, WithTop
  <2> HIDE DEF e
  <2> QED BY <1>1, <1>7, <1>13, <2>1, ElementInPlace DEF e
<1> HIDE DEF e, s
<1> QED BY <1>4, <1>8, <1>11, <1>12, <1>13

\* The value stream of a header comes to the end of its value.
LEMMA ReadValuePosition ==
  ASSUME FitInv, PositionInv, ReadValue
  PROVE  PositionInv'
<1> DEFINE o == job.octets
           m == Len(streams)
           hd == Top.cur_header
           value == krypt_asn1_get_value_stream(hd.infinite, hd.length)
           open == IF m = at THEN Append(streams, value) ELSE streams
<1>1. /\ StackOK(streams) /\ Rest /\ at > 0 /\ pc = "value"
      /\ Top.kind = "chunked" /\ Top.state # "NEW_HEADER"
  BY PositionParts DEF ReadValue, Chunked, Rest
<1>2. /\ at \in 1..m /\ m \in Nat /\ at \in Nat /\ Top \in Stream /\ StreamInv(Top)
  BY <1>1, StreamTypes
<1>3. \A i \in 1..m : EndInv(streams[i]) /\ Placed(streams, at, pc, i) BY PositionParts
<1>4. o \in Seq(Octets) /\ pos \in 0..Len(o) /\ Len(o) \in Nat /\ pos \in Nat
  BY <1>1, JobTypes DEF Rest
<1>5. \A i \in 1..m : i < m => ~IsEndOfContents(streams[i].cur_header) BY <1>1, NoEndAbove
<1>6. /\ job' = job /\ pos' = pos /\ at' = at + 1 /\ pc' = "enter" /\ status' = status
      /\ FitInv' /\ pos' >= pos BY <1>4, ReadValueFits DEF ReadValue
<1>7. hd.infinite \in BOOLEAN /\ hd.length \in Nat BY <1>2 DEF Stream, Header
<1>8. /\ value \in Stream /\ StreamInv(value)
      /\ value.kind = (IF hd.infinite THEN "chunked" ELSE "definite")
      /\ ~hd.infinite => value.max_read = hd.length
  <2>1. /\ value \in Stream /\ StreamInv(value)
        /\ value.kind = "chunked" <=> hd.infinite
        /\ ~hd.infinite => value.max_read = hd.length BY <1>7, StreamTyped
  <2> HIDE DEF value
  <2> QED BY <2>1 DEF Stream
<1>9. value.num_read = 0 /\ value.cur_header = NoHeader /\ value.state = "NEW_HEADER"
  BY DEF krypt_asn1_get_value_stream, krypt_instream_new_chunked, krypt_instream_new_definite,
    Closed
<1>10. streams' = [open EXCEPT ![at + 1] = Refill(open[at + 1], << >>)]
  BY DEF ReadValue, Called, Refill
<1>11. << >> \in Seq(Octets) OBVIOUS
<1>12. CASE m # at
  <2>1. at + 1 \in 1..m /\ at < m BY <1>2, <1>12
  <2>2. streams' = [streams EXCEPT ![at + 1] = Refill(streams[at + 1], << >>)] BY <1>10, <1>12
  <2>3. /\ Len(streams') = m
        /\ \A i \in 1..m : streams'[i] = IF i = at + 1 THEN Refill(streams[at + 1], << >>)
                                         ELSE streams[i] BY <1>1, <1>11, <2>1, <2>2, RefillStack
  <2>4. streams[at + 1] \in Stream BY <1>1, <2>1, StackBelow
  <2>5. /\ Same(Refill(streams[at + 1], << >>), streams[at + 1])
        /\ LastReach(o, Refill(streams[at + 1], << >>), pos) = LastReach(o, streams[at + 1], pos)
    BY <1>11, <2>4, RefillReach
  <2>6. \A i \in 1..m : /\ Same(streams'[i], streams[i])
                        /\ LastReach(o, streams'[i], pos) = LastReach(o, streams[i], pos)
    BY <2>3, <2>5 DEF Same
  <2>7. LastReach(o, streams'[m], pos') = LastReach(o, streams[m], pos)
    BY <1>2, <1>6, <2>6, m \in 1..m
  <2> HIDE DEF value, open, hd
  <2> QED BY <1>5, <1>6, <2>3, <2>6, <2>7, PositionInPlace
<1>13. CASE m = at
  <2> DEFINE r == Refill(value, << >>)
  <2>1. open = Append(streams, value) BY <1>13
  <2>2. ValueOf(value, streams[m]) BY <1>1, <1>7, <1>8, <1>13 DEF ValueOf, Top
  <2> HIDE DEF value, open
  <2>3. /\ StackOK(open) /\ Len(open) = m + 1 /\ open[m + 1] = value
        /\ \A i \in 1..m : open[i] = streams[i] BY <1>1, <1>8, <2>1, <2>2, PushStack
  <2>4. m + 1 \in 1..Len(open) BY <1>2, <2>3
  <2>5. /\ Len(streams') = m + 1
        /\ \A i \in 1..(m + 1) : streams'[i] = IF i = m + 1 THEN r ELSE open[i]
    BY <1>10, <1>11, <1>13, <2>3, <2>4, RefillStack
  <2>6. /\ streams'[m + 1] = r
        /\ \A i \in 1..m : streams'[i] = streams[i] BY <1>2, <2>3, <2>5
  <2>7. Same(r, value) /\ LastReach(o, r, pos) = LastReach(o, value, pos)
    BY <1>8, <1>11, RefillReach
  <2> HIDE DEF r
  <2>8. EndInv(streams[m]) /\ Placed(streams, at, pc, m) /\ streams[m] = Top
    BY <1>2, <1>3, <1>13 DEF Top
  <2>9. IsEndOfContents(hd) => Top.state = "DONE" BY <1>1, <1>13, <2>8 DEF Placed
  <2>10. LastReach(o, value, pos) = ValueReach(o, hd.infinite, hd.length, pos)
    <3>1. CASE hd.infinite BY <1>8, <1>9, <3>1 DEF LastReach, ValueReach
    <3>2. CASE ~hd.infinite
      <4>1. value.max_read - value.num_read = hd.length /\ hd.infinite = FALSE
        BY <1>7, <1>8, <1>9, <3>2
      <4> QED BY <1>8, <3>2, <4>1 DEF LastReach
    <3> QED BY <3>1, <3>2
  <2>11. LastReach(o, streams[m], pos) = GoesOn(o, streams[m], LastReach(o, streams'[m + 1], pos))
    <3>1. CASE IsEndOfContents(hd)
      <4>1. ~hd.infinite /\ hd.length = 0 /\ Top.state = "DONE" BY <2>8, <2>9, <3>1 DEF EndInv
      <4>2. ValueReach(o, hd.infinite, hd.length, pos) = Reach("whole", pos)
        <5>1. pos + 0 = pos /\ pos <= Len(o) BY <1>4
        <5> QED BY <4>1, <5>1 DEF ValueReach
      <4>3. LastReach(o, Top, pos) = Reach("whole", pos) BY <1>1, <3>1 DEF LastReach
      <4> QED BY <2>6, <2>7, <2>8, <2>10, <4>1, <4>2, <4>3 DEF GoesOn
    <3>2. CASE ~IsEndOfContents(hd)
      <4>1. LastReach(o, Top, pos) = GoesOn(o, Top, ValueReach(o, hd.infinite, hd.length, pos))
        BY <1>1, <3>2 DEF LastReach
      <4> QED BY <2>6, <2>7, <2>8, <2>10, <4>1
    <3> QED BY <3>1, <3>2
  <2>12. Reaches(o, streams', pos')[1] = Reaches(o, streams, pos)[1]
    <3>1. m > 0 BY <1>2
    <3>2. \A i \in 1..m : i < m => (streams[i].state = "DONE" <=> streams'[i].state = "DONE")
      BY <2>6
    <3>3. Reaches(o, streams, pos)[1] = Reaches(o, streams', pos)[1]
      <4>1. m \in Nat /\ Len(streams') = m + 1 /\ Len(streams) = m BY <1>2, <2>5
      <4>2. streams'[m] = streams[m]
        <5>1. m \in 1..m BY <1>2
        <5> QED BY <2>6, <5>1
      <4> HIDE DEF m, o
      <4>3. LastReach(o, streams[m], pos) = GoesOn(o, streams'[m], LastReach(o, streams'[m + 1], pos))
        BY <2>11, <4>2
      <4> QED BY <3>1, <3>2, <4>1, <4>3, ReachesPopped
    <3> QED BY <1>6, <3>3
  <2>13. ASSUME NEW i \in 1..Len(streams')
         PROVE  EndInv(streams'[i]) /\ Placed(streams', at', pc', i)
    <3>1. CASE i = m + 1
      <4>1. ~IsEndOfContents(value.cur_header) /\ value.state # "DONE"
        BY <1>9 DEF IsEndOfContents, NoHeader
      <4>2. EndInv(value) BY <4>1 DEF EndInv
      <4> QED BY <2>6, <2>7, <3>1, <4>1, <4>2, SameEnds DEF Placed, Same
    <3>2. CASE i = m
      <4>1. streams'[i] = Top /\ EndInv(Top) /\ m + 1 = at' /\ i # Len(streams')
        BY <1>2, <1>6, <1>13, <2>5, <2>6, <2>8, <3>2
      <4> QED BY <2>9, <3>2, <4>1 DEF Placed
    <3>3. CASE i # m /\ i # m + 1
      <4>1. i \in 1..m /\ i < m BY <1>2, <2>5, <3>3
      <4> QED BY <1>3, <1>5, <2>6, <4>1 DEF Placed
    <3> QED BY <3>1, <3>2, <3>3
  <2> HIDE DEF o, m, hd
  <2> QED BY <1>6, <2>12, <2>13, PositionAfter DEF o
<1> QED BY <1>12, <1>13

-----------------------------------------------------------------------------
(* The theorems.                                                           *)

LEMMA NextFits == FitInv /\ [Next]_vars => FitInv'
<1> SUFFICES ASSUME FitInv, [Next]_vars
             PROVE  FitInv'
  OBVIOUS
<1>1. CASE UNCHANGED vars BY <1>1 DEF vars, FitInv, TypeOK, ValueStreamFitsHeader, Top
<1>2. CASE DefiniteEnd BY <1>2, ReturnsEofFits DEF DefiniteEnd, Definite
<1>3. CASE DefiniteFails BY <1>3, DefiniteFailsFits
<1>4. CASE \E r \in 1..Len(job.octets) : DefiniteRead(r) BY <1>4, DefiniteReadFits
<1>5. CASE ChunkedEnd BY <1>5, ReturnsEofFits DEF ChunkedEnd, Chunked
<1>6. CASE ChunkedReturns BY <1>6, ChunkedReturnsFits
<1>7. CASE Element BY <1>7, ElementFits
<1>8. CASE ReadValue BY <1>8, ReadValueFits
<1>9. CASE \E n \in job.sizes : Read(n) BY <1>9, ReadFits
<1> QED BY <1>1, <1>2, <1>3, <1>4, <1>5, <1>6, <1>7, <1>8, <1>9 DEF Next, Step

LEMMA NextPosition == FitInv /\ PositionInv /\ [Next]_vars => PositionInv'
<1> SUFFICES ASSUME FitInv, PositionInv, [Next]_vars
             PROVE  PositionInv'
  OBVIOUS
<1>1. CASE UNCHANGED vars BY <1>1 DEF vars, PositionInv, EndsLast
<1>2. CASE DefiniteEnd
  <2>1. /\ at > 0 /\ ReturnsEof /\ pos' = pos
        /\ Top.kind = "definite" /\ Top.num_read = Top.max_read BY <1>2 DEF DefiniteEnd, Definite
  <2> QED BY <2>1, ReturnsEofPosition
<1>3. CASE DefiniteFails BY <1>3, DefiniteFailsPosition
<1>4. CASE \E r \in 1..Len(job.octets) : DefiniteRead(r) BY <1>4, DefiniteReadPosition
<1>5. CASE ChunkedEnd
  <2>1. /\ at > 0 /\ ReturnsEof /\ pos' = pos
        /\ Top.kind = "chunked" /\ Top.state = "DONE" BY <1>5 DEF ChunkedEnd, Chunked
  <2> QED BY <2>1, ReturnsEofPosition
<1>6. CASE ChunkedReturns BY <1>6, ChunkedReturnsPosition
<1>7. CASE Element BY <1>7, ElementPosition
<1>8. CASE ReadValue BY <1>8, ReadValuePosition
<1>9. CASE \E n \in job.sizes : Read(n) BY <1>9, ReadPosition
<1> QED BY <1>1, <1>2, <1>3, <1>4, <1>5, <1>6, <1>7, <1>8, <1>9 DEF Next, Step

LEMMA InitIInv == Init => IInv
  BY InitFits, InitPosition DEF IInv

LEMMA NextIInv == IInv /\ [Next]_vars => IInv'
  BY NextFits, NextPosition DEF IInv

\* In every reachable state the streams fit the headers they were opened for,
\* and together they still come to the end of the value from where they are,
\* for any sizes of reads and any inner stream of JobsAssumption: identifiers
\* have one octet, and no element but 00 00 is one that ends a value.
THEOREM StreamInvariant == Spec => []IInv
  BY InitIInv, NextIInv, PTL DEF Spec

\* Every variable keeps its type: no read takes octets that are not there.
THEOREM StreamsTyped == Spec => []TypeOK
<1>1. IInv => TypeOK BY DEF IInv, FitInv
<1> QED BY <1>1, StreamInvariant, PTL

\* A value stream is that of the header its chunked stream parsed last, and
\* reads no more than that header tells (krypt_asn1_get_value_stream,
\* int_definite_read): no header is parsed before the last value was read to
\* its end.
THEOREM ValueStreamsFit == Spec => []ValueStreamFitsHeader
<1>1. IInv => ValueStreamFitsHeader BY DEF IInv, FitInv
<1> QED BY <1>1, StreamInvariant, PTL

\* No stream takes octets that follow the value, and when the end is announced
\* the whole value was taken, so that the next header can be parsed from there
\* (int_consume_stream, krypt_asn1_parser.c; int_chunked_read, in_chunked.c),
\* whatever is nested in the value, and whatever the sizes of the reads.  The
\* octets 00 00 are the only end-of-contents in it (JobsAssumption): another
\* element with this tag number ends the stream early (int_check_done).
THEOREM PositionsInsideValues == Spec => []PositionInsideValue
<1>1. IInv => PositionInsideValue
  <2> SUFFICES ASSUME IInv
               PROVE  PositionInsideValue
    OBVIOUS
  <2>1. FitInv /\ PositionInv BY DEF IInv
  <2>2. pos <= job.end
    <3>1. StackOK(streams) /\ Rest /\ Reaches(job.octets, streams, pos)[1] = WholeReach(job)
      BY <2>1, PositionParts
    <3>2. job \in Jobs /\ pos \in 0..Len(job.octets) BY <3>1 DEF Rest
    <3> QED BY <3>1, <3>2, ReachesWithin
  <2> QED BY <2>1, <2>2 DEF PositionInsideValue, PositionInv
<1> QED BY <1>1, StreamInvariant, PTL

-----------------------------------------------------------------------------
(* What is handed out.                                                     *)
(*                                                                         *)
(* ReadsDeliverTheValue is about streams that hand out the octets they are *)
(* parsed from, headers included, whose headers fit the buffers: where a   *)
(* header fills a buffer more than it fits, or the octets end early, the   *)
(* code does not deliver the value (int_read_header_bytes,                 *)
(* int_read_new_header).                                                   *)

\* A definite value, or the headers and values of one of indefinite length
\* that is not cut.
HandsOutOctets(j) ==
  /\ ~j.infinite \/ (~j.values_only /\ ~j.cut)
  /\ Len(j.content) = j.end
  /\ \A i \in DOMAIN j.octets : i <= j.end => j.content[i] = j.octets[i]

\* The octets of the length are read at once, behind the identifier octet or,
\* if that filled the buffer, as one octet.
FitsHeader(h) == Len(h.length_bytes) <= 1 \/ Len(h.length_bytes) < len

ReadsFit == HandsOutOctets(job) /\ \A i \in DOMAIN streams : FitsHeader(streams[i].cur_header)

\* The octets of the header that were taken but not yet handed on.
Pending(s) ==
  IF s.kind = "definite" THEN << >>
  ELSE IF s.state = "PROCESS_TAG" THEN s.cur_header.tag_bytes \o s.cur_header.length_bytes
  ELSE IF s.state = "PROCESS_LENGTH" THEN s.cur_header.length_bytes
  ELSE << >>

\* The octets taken, o, are those handed out, g, then what the streams up to
\* the one that is reading hold for their callers, then what is pending: h[i]
\* is all that the streams up to number i have handed up.
Handed(ss, a, g, o) ==
  \E h \in [0..a -> Seq(Octets)] :
    /\ h[0] = g
    /\ \A i \in 1..a : h[i] = h[i - 1] \o (ss[i].total \o ss[i].el)
    /\ h[a] \o Pending(ss[Len(ss)]) = o

Taken == SubSeq(job.octets, 1, pos)

HeaderInv(s) ==
  /\ s.header_offset = 0
  /\ s.kind = "definite" => s.total = << >> /\ s.el = << >>
  /\ s.kind = "chunked" /\ s.state # "NEW_HEADER" => Len(s.cur_header.tag_bytes) = 1

CallInv(ss, a, c) ==
  /\ \A i \in 1..Len(ss) : HeaderInv(ss[i])
  /\ \A i \in 1..Len(ss) : i < Len(ss) => ss[i].state = "PROCESS_VALUE"
  /\ a > 0 => /\ c = "enter" => ss[a].total = << >>
              /\ c # "value" => ss[a].el = << >>
              /\ c = "value" => ss[a].state = "PROCESS_VALUE"

\* The stream has read its value to the end.
Ended(s) == IF s.kind = "chunked" THEN s.state = "DONE" ELSE s.num_read = s.max_read

EndingInv(ss, a, c, p, st) ==
  /\ ss[1].kind = "chunked" <=> job.infinite
  /\ st # "crashed"
  /\ st = "end" => Ended(ss[1]) /\ (a > 0 => a = 1 /\ c = "enter")
  /\ st = "failed" => job.cut /\ p = Len(job.octets) /\ ~Ended(ss[1])

DeliverInv ==
  /\ CallInv(streams, at, pc)
  /\ EndingInv(streams, at, pc, pos, status)
  /\ Handed(streams, at, given, Taken)

LEMMA Concatenations ==
  /\ << >> \in Seq(Octets)
  /\ \A s \in Seq(Octets) : s \o << >> = s /\ << >> \o s = s
  /\ \A s, t \in Seq(Octets) : s \o t \in Seq(Octets)
  /\ \A s, t, u \in Seq(Octets) : (s \o t) \o u = s \o (t \o u)
  BY ConcatAssociative, ConcatEmptySeq, ConcatProperties

LEMMA Joined ==
  ASSUME NEW s \in Seq(Octets), NEW t \in Seq(Octets), NEW u \in Seq(Octets)
  PROVE  (s \o t) \o u = s \o (t \o u)
BY ConcatAssociative

\* What a stream holds is sequences of octets.
LEMMA HeldTypes ==
  ASSUME NEW s \in Stream
  PROVE  s.total \in Seq(Octets) /\ s.el \in Seq(Octets) /\ Pending(s) \in Seq(Octets)
  BY Concatenations DEF Pending, Stream, Header

\* A stream is called: it holds nothing.
LEMMA HandedOnCall ==
  ASSUME NEW ss, NEW tt, NEW a \in Nat, NEW g, NEW o, Handed(ss, a, g, o),
         \A i \in 1..a : tt[i].total = ss[i].total /\ tt[i].el = ss[i].el,
         tt[a + 1].total = << >>, tt[a + 1].el = << >>,
         Pending(tt[Len(tt)]) = Pending(ss[Len(ss)])
  PROVE  Handed(tt, a + 1, g, o)
<1>1. PICK h \in [0..a -> Seq(Octets)] :
        /\ h[0] = g
        /\ \A i \in 1..a : h[i] = h[i - 1] \o (ss[i].total \o ss[i].el)
        /\ h[a] \o Pending(ss[Len(ss)]) = o BY DEF Handed
<1> DEFINE k == [i \in 0..(a + 1) |-> IF i = a + 1 THEN h[a] ELSE h[i]]
<1>2. k \in [0..(a + 1) -> Seq(Octets)] OBVIOUS
<1>3. k[0] = g /\ k[a + 1] = h[a] /\ \A i \in 0..a : k[i] = h[i] BY <1>1
<1>4. h[a] \o (<< >> \o << >>) = h[a] BY Concatenations, h[a] \in Seq(Octets)
<1> HIDE DEF k
<1>5. ASSUME NEW i \in 1..(a + 1)
      PROVE  k[i] = k[i - 1] \o (tt[i].total \o tt[i].el)
  <2>1. CASE i = a + 1
    <3>1. i - 1 = a /\ a \in 0..a BY <2>1
    <3>2. k[i] = h[a] /\ k[i - 1] = h[a] BY <1>3, <2>1, <3>1
    <3> QED BY <1>4, <2>1, <3>2
  <2>2. CASE i # a + 1
    <3>1. i \in 1..a /\ i \in 0..a /\ i - 1 \in 0..a BY <2>2
    <3> QED BY <1>1, <1>3, <3>1
  <2> QED BY <2>1, <2>2
<1> QED BY <1>1, <1>2, <1>3, <1>5 DEF Handed

\* Stream number a returns x: the program gets it, or the stream above.
GivesUp(ss, tt, a, g, g2, x) ==
  /\ \A i \in 1..a : i < a - 1 => tt[i].total = ss[i].total /\ tt[i].el = ss[i].el
  /\ IF a = 1 THEN g2 = g \o x
     ELSE /\ g2 = g
          /\ tt[a - 1].total \o tt[a - 1].el = (ss[a - 1].total \o ss[a - 1].el) \o x

HoldsOctets(ss, a) == \A i \in 1..a : ss[i].total \in Seq(Octets) /\ ss[i].el \in Seq(Octets)

\* A stream returns the octets x: those it held and, of the inner stream, y.
LEMMA HandedOnReturn ==
  ASSUME NEW ss, NEW tt, NEW a \in Nat, a > 0, NEW g, NEW g2, NEW o, Handed(ss, a, g, o),
         NEW x \in Seq(Octets), NEW y \in Seq(Octets),
         HoldsOctets(ss, a), GivesUp(ss, tt, a, g, g2, x), x = (ss[a].total \o ss[a].el) \o y,
         Pending(tt[Len(tt)]) = Pending(ss[Len(ss)]), Pending(ss[Len(ss)]) \in Seq(Octets),
         y = << >> \/ Pending(ss[Len(ss)]) = << >>
  PROVE  Handed(tt, a - 1, g2, o \o y)
<1> DEFINE pending == Pending(ss[Len(ss)])
<1>1. PICK h \in [0..a -> Seq(Octets)] :
        /\ h[0] = g
        /\ \A i \in 1..a : h[i] = h[i - 1] \o (ss[i].total \o ss[i].el)
        /\ h[a] \o pending = o BY DEF Handed
<1>2. /\ a - 1 \in Nat /\ a - 1 \in 0..a /\ a \in 0..a /\ a \in 1..a /\ a - 1 \in 0..(a - 1)
      /\ h[a] \in Seq(Octets) /\ h[a - 1] \in Seq(Octets) OBVIOUS
<1> DEFINE b == a - 1
           lower == h[b]
           held == ss[a].total \o ss[a].el
           k == [i \in 0..b |-> IF i = b THEN lower \o x ELSE h[i]]
<1>3. b \in Nat /\ b \in 0..b /\ b \in 0..a /\ a = b + 1 BY <1>2
<1>4. lower \in Seq(Octets) /\ held \in Seq(Octets) BY <1>2, Concatenations DEF HoldsOctets
<1>5. h[a] = lower \o held /\ x = held \o y BY <1>1, <1>2
<1>6. lower = h[b] /\ pending = Pending(ss[Len(ss)]) OBVIOUS
<1>7. \A i \in 0..b : k[i] = IF i = b THEN lower \o x ELSE h[i] OBVIOUS
<1>8. lower \o x \in Seq(Octets) BY <1>4, Concatenations
<1>9. k \in [0..b -> Seq(Octets)] BY <1>2, <1>8
<1> HIDE DEF b, lower, held, k, pending
<1>10. lower \o x = h[a] \o y
  <2>1. \A u \in Seq(Octets) : (lower \o held) \o u = lower \o (held \o u)
    BY <1>4, Concatenations
  <2> QED BY <1>5, <2>1
<1>11. (lower \o x) \o pending = o \o y
  <2>1. CASE y = << >>
    <3>1. lower \o x = h[a] BY <1>2, <1>10, <2>1, Concatenations
    <3>2. o \in Seq(Octets) BY <1>1, <1>2, <1>6, Concatenations
    <3> QED BY <1>1, <2>1, <3>1, <3>2, Concatenations
  <2>2. CASE pending = << >>
    <3>1. o = h[a] /\ h[a] \o y \in Seq(Octets) BY <1>1, <1>2, <2>2, Concatenations
    <3> QED BY <1>10, <2>2, <3>1, Concatenations
  <2> QED BY <1>6, <2>1, <2>2
<1>12. k[b] = lower \o x BY <1>3, <1>7
<1>13. \A i \in 0..b : i < b => k[i] = h[i] BY <1>3, <1>7
<1>14. k[0] = g2
  <2>1. CASE a = 1
    <3>1. b = 0 BY <1>3, <2>1
    <3> QED BY <1>1, <1>6, <1>12, <2>1, <3>1 DEF GivesUp
  <2>2. CASE a # 1
    <3>1. 0 \in 0..b /\ 0 < b BY <1>3, <2>2
    <3> QED BY <1>1, <1>13, <2>2, <3>1 DEF GivesUp
  <2> QED BY <2>1, <2>2
<1>15. ASSUME NEW i \in 1..b
       PROVE  k[i] = k[i - 1] \o (tt[i].total \o tt[i].el)
  <2>1. i \in 1..a /\ i - 1 \in 0..b /\ i - 1 < b /\ a # 1 /\ i - 1 \in 0..a BY <1>3
  <2>2. k[i - 1] = h[i - 1] BY <1>13, <2>1
  <2>3. h[i - 1] \in Seq(Octets) BY <2>1
  <2>4. CASE i = b
    <3> DEFINE t == ss[i].total \o ss[i].el
               l == h[i - 1]
    <3>1. lower = l \o t BY <1>1, <1>6, <2>1, <2>4
    <3>2. tt[i].total \o tt[i].el = t \o x
      <4>1. i = a - 1 BY <1>3, <2>4
      <4> QED BY <2>1, <4>1 DEF GivesUp
    <3>3. t \in Seq(Octets) BY <2>1, Concatenations DEF HoldsOctets
    <3>4. k[i - 1] = l /\ l \in Seq(Octets) /\ x \in Seq(Octets) BY <2>2, <2>3
    <3> HIDE DEF t, l
    <3>5. \A u \in Seq(Octets) : (l \o t) \o u = l \o (t \o u) BY <3>3, <3>4, Concatenations
    <3> QED BY <1>12, <2>4, <3>1, <3>2, <3>4, <3>5
  <2>5. CASE i # b
    <3>1. i < a - 1 /\ i \in 0..b /\ i < b BY <1>3, <2>5
    <3> QED BY <1>1, <1>13, <2>1, <2>2, <3>1 DEF GivesUp
  <2> QED BY <2>4, <2>5
<1>16. Handed(tt, b, g2, o \o y) BY <1>3, <1>6, <1>9, <1>11, <1>12, <1>14, <1>15 DEF Handed
<1> QED BY <1>16 DEF b

\* The stream that is reading takes the octets y.
LEMMA HandedInPlace ==
  ASSUME NEW ss, NEW tt, NEW a \in Nat, a > 0, NEW g, NEW o, Handed(ss, a, g, o),
         NEW y \in Seq(Octets), NEW x \in Seq(Octets), NEW z \in Seq(Octets),
         Pending(ss[Len(ss)]) \in Seq(Octets), Pending(tt[Len(tt)]) \in Seq(Octets),
         \A i \in 1..a : i < a => tt[i].total = ss[i].total /\ tt[i].el = ss[i].el,
         x = ss[a].total \o ss[a].el, tt[a].total \o tt[a].el = x \o z,
         z \o Pending(tt[Len(tt)]) = Pending(ss[Len(ss)]) \o y
  PROVE  Handed(tt, a, g, o \o y)
<1> DEFINE p == Pending(ss[Len(ss)])
           q == Pending(tt[Len(tt)])
<1>1. PICK h \in [0..a -> Seq(Octets)] :
        /\ h[0] = g
        /\ \A i \in 1..a : h[i] = h[i - 1] \o (ss[i].total \o ss[i].el)
        /\ h[a] \o p = o BY DEF Handed
<1> DEFINE k == [i \in 0..a |-> IF i = a THEN h[a] \o z ELSE h[i]]
<1>2. h[a] \in Seq(Octets) /\ a \in 0..a /\ a \in 1..a /\ a - 1 \in 0..a /\ h[a - 1] \in Seq(Octets)
  OBVIOUS
<1>3. h[a] \o z \in Seq(Octets) BY <1>2, Concatenations
<1>4. k \in [0..a -> Seq(Octets)] BY <1>3
<1>5. k[0] = g /\ k[a] = h[a] \o z /\ \A i \in 0..a : i < a => k[i] = h[i] BY <1>1, <1>2
<1> HIDE DEF k, p, q
<1> DEFINE l == h[a]
           b == h[a - 1]
<1> HIDE DEF l, b
<1>5a. l \in Seq(Octets) BY <1>2 DEF l
<1>5b. b \in Seq(Octets) BY <1>2 DEF b
<1>5c. p \in Seq(Octets) BY DEF p
<1>5d. q \in Seq(Octets) BY DEF q
<1>6. (h[a] \o z) \o q = o \o y
  <2>1. (l \o z) \o q = l \o (z \o q) BY ONLY <1>5a, <1>5d, Joined
  <2>2. (l \o p) \o y = l \o (p \o y) BY ONLY <1>5a, <1>5c, Joined
  <2> QED BY <1>1, <2>1, <2>2 DEF p, q, l
<1>7. ASSUME NEW i \in 1..a
      PROVE  k[i] = k[i - 1] \o (tt[i].total \o tt[i].el)
  <2>1. i \in 0..a /\ i - 1 \in 0..a /\ i - 1 < a /\ k[i - 1] = h[i - 1] BY <1>5
  <2>2. CASE i = a
    <3>1. h[a] = h[a - 1] \o x BY <1>1, <1>2
    <3>2. (b \o x) \o z = b \o (x \o z) BY ONLY <1>5b, Joined
    <3> QED BY <1>5, <2>1, <2>2, <3>1, <3>2 DEF b
  <2>3. CASE i # a
    <3>1. i < a /\ k[i] = h[i] BY <1>5, <2>1, <2>3
    <3> QED BY <1>1, <2>1, <3>1
  <2> QED BY <2>2, <2>3
<1> QED BY <1>4, <1>5, <1>6, <1>7 DEF Handed, q

-----------------------------------------------------------------------------
(* The octets of a header.                                                 *)

LEMMA OctetsFrom ==
  ASSUME NEW octets \in Seq(Octets), NEW m \in Nat, NEW r \in Nat, m + r <= Len(octets)
  PROVE  LET s == SubSeq(octets, m + 1, m + r) IN
         s \in Seq(Octets) /\ Len(s) = r /\ \A i \in 1..r : s[i] = octets[m + i]
<1> DEFINE s == SubSeq(octets, m + 1, m + r)
<1>1. \A i \in (m + 1)..(m + r) : octets[i] \in Octets
  <2>1. \A i \in 1..Len(octets) : octets[i] \in Octets OBVIOUS
  <2> QED BY <2>1
<1>2. m + 1 \in Int /\ m + r \in Int OBVIOUS
<1>3. /\ s \in Seq(Octets) /\ Len(s) = IF m + 1 <= m + r THEN m + r - (m + 1) + 1 ELSE 0
      /\ \A i \in 1..(m + r - (m + 1) + 1) : s[i] = octets[m + 1 + i - 1]
  BY <1>1, <1>2, SubSeqProperties
<1> HIDE DEF s
<1>4. s \in Seq(Octets) /\ Len(s) = r /\ \A i \in 1..r : s[i] = octets[m + i] BY <1>3
<1> QED BY <1>4 DEF s

LEMMA TakenMore ==
  ASSUME NEW octets \in Seq(Octets), NEW m \in Nat, NEW p \in Nat, NEW r \in Nat,
         m + p + r <= Len(octets)
  PROVE  SubSeq(octets, m + 1, m + p + r) =
           SubSeq(octets, m + 1, m + p) \o SubSeq(octets, m + p + 1, m + p + r)
<1> DEFINE s == SubSeq(octets, m + 1, m + p)
           t == SubSeq(octets, m + p + 1, m + p + r)
           u == SubSeq(octets, m + 1, m + (p + r))
           v == s \o t
<1>1. s \in Seq(Octets) /\ Len(s) = p /\ \A i \in 1..p : s[i] = octets[m + i]
  BY OctetsFrom, m + p <= Len(octets)
<1>2. t \in Seq(Octets) /\ Len(t) = r /\ \A i \in 1..r : t[i] = octets[m + p + i]
  BY OctetsFrom, m + p \in Nat
<1>3. u \in Seq(Octets) /\ Len(u) = p + r /\ \A i \in 1..(p + r) : u[i] = octets[m + i]
  <2>1. p + r \in Nat /\ m + (p + r) <= Len(octets) OBVIOUS
  <2> QED BY <2>1, OctetsFrom
<1>4. v \in Seq(Octets) /\ Len(v) = Len(s) + Len(t) BY <1>1, <1>2, ConcatProperties
<1>5. \A i \in 1..(Len(s) + Len(t)) : v[i] = IF i <= Len(s) THEN s[i] ELSE t[i - Len(s)]
  BY <1>1, <1>2, ConcatProperties
<1>6. u = SubSeq(octets, m + 1, m + p + r) OBVIOUS
<1> HIDE DEF s, t, u, v
<1>7. \A i \in 1..(p + r) : u[i] = v[i]
  <2> TAKE i \in 1..(p + r)
  <2>1. CASE i <= p
    <3>1. i \in 1..p /\ i \in 1..(Len(s) + Len(t)) BY <1>1, <1>2, <2>1
    <3> QED BY <1>1, <1>3, <1>5, <2>1, <3>1
  <2>2. CASE ~(i <= p)
    <3>1. i - p \in 1..r BY <2>2
    <3>2. t[i - p] = octets[m + p + (i - p)] BY <1>2, <3>1
    <3>3. t[i - p] = octets[m + i] BY <3>2
    <3> QED BY <1>1, <1>2, <1>3, <1>5, <2>2, <3>3
  <2> QED BY <2>1, <2>2
<1>8. u = v BY <1>1, <1>2, <1>3, <1>4, <1>7, SeqEqual
<1> QED BY <1>6, <1>8 DEF s, t, v

\* A header is the octets it was parsed from.
LEMMA HeaderTaken ==
  ASSUME NEW octets \in Seq(Octets), NEW p \in 0..Len(octets), next_header(octets, p).ok
  PROVE  LET h == next_header(octets, p) IN
         h.header.tag_bytes \o h.header.length_bytes = SubSeq(octets, p + 1, p + h.used)
<1> DEFINE h == next_header(octets, p)
           first == octets[p + 2]
           more == IF first > 128 THEN first - 128 ELSE 0
           lengths == SubSeq(octets, p + 2, p + 2 + more)
           tag == SubSeq(octets, p + 1, p + 1)
<1>1. /\ ~(Len(octets) - p < 2) /\ ~(Len(octets) - p < 2 + more)
      /\ h.used = 2 + more /\ h.header.tag_bytes = << octets[p + 1] >>
      /\ h.header.length_bytes = lengths BY Zenon DEF next_header, NoHeaderAfter
<1>2. Len(octets) \in Nat /\ p \in Nat OBVIOUS
<1>3. more \in Nat
  <2>1. first \in Octets BY <1>1, <1>2
  <2> HIDE DEF first
  <2> QED BY <2>1 DEF Octets
<1>4. tag = << octets[p + 1] >>
  <2>1. p + 1 <= Len(octets) /\ 1 \in Nat /\ 1 \in 1..1 BY <1>1, <1>2
  <2>2. tag \in Seq(Octets) /\ Len(tag) = 1 /\ tag[1] = octets[p + 1] BY <1>2, <2>1, OctetsFrom
  <2> HIDE DEF tag
  <2> QED BY <2>2
<1> HIDE DEF h, first, more
<1>5. 1 + more \in Nat /\ p + 1 + (1 + more) <= Len(octets) /\ 1 \in Nat BY <1>1, <1>2, <1>3
<1>6. SubSeq(octets, p + 1, p + 1 + (1 + more)) =
        SubSeq(octets, p + 1, p + 1) \o SubSeq(octets, p + 1 + 1, p + 1 + (1 + more))
  BY <1>2, <1>5, TakenMore
<1>7. p + 1 + (1 + more) = p + (2 + more) /\ p + 1 + 1 = p + 2 /\ p + (2 + more) = p + 2 + more
  BY <1>2, <1>3
<1> QED BY <1>1, <1>4, <1>6, <1>7 DEF h

\* Octets that fit the buffer are handed on.
LEMMA BytesHandedOn ==
  ASSUME NEW s \in Stream, NEW bytes \in Seq(Octets), NEW next_state \in State, len \in Nat,
         ~job.values_only, s.header_offset = 0, Len(bytes) <= len
  PROVE  LET r == int_read_header_bytes(s, bytes, next_state) IN
         /\ r \in Stream /\ r.kind = s.kind /\ r.cur_header = s.cur_header
         /\ r.el = s.el \o bytes /\ r.header_offset = 0 /\ r.state = next_state
<1> DEFINE available == Len(bytes) - s.header_offset
           to_read == IF len < available THEN len ELSE available
           piece == IF job.values_only THEN << >> ELSE SubSeq(bytes, 1, to_read)
<1>1. ~(len < available) /\ to_read = Len(bytes) OBVIOUS
<1>2. SubSeq(bytes, 1, Len(bytes)) = bytes OBVIOUS
<1>3. piece = bytes
  <2> HIDE DEF to_read
  <2> QED BY <1>1, <1>2
<1>4. int_read_header_bytes(s, bytes, next_state) =
        IF len < available
        THEN [s EXCEPT !.el = @ \o piece, !.header_offset = @ + len]
        ELSE [s EXCEPT !.el = @ \o piece, !.header_offset = 0, !.state = next_state]
  BY Zenon DEF int_read_header_bytes
<1> HIDE DEF piece, available
<1>5. int_read_header_bytes(s, bytes, next_state) =
        [s EXCEPT !.el = @ \o bytes, !.header_offset = 0, !.state = next_state]
  BY <1>1, <1>3, <1>4
<1>6. s.el \o bytes \in Seq(Octets) BY Concatenations DEF Stream
<1> QED BY <1>5, <1>6 DEF Stream

LEMMA LengthHandedOn ==
  ASSUME NEW t \in Stream, len \in Nat, ~job.values_only, t.state = "PROCESS_LENGTH",
         t.header_offset = 0, Len(t.cur_header.length_bytes) <= len
  PROVE  LET e == ReadLength(t) IN
         /\ e.el = t.el \o t.cur_header.length_bytes /\ e.header_offset = 0
         /\ e.state \in {"PROCESS_VALUE", "DONE"} /\ e.kind = t.kind
<1> DEFINE lengths == t.cur_header.length_bytes
           u == int_read_header_bytes(t, lengths, "PROCESS_VALUE")
           e == ReadLength(t)
<1>1. lengths \in Seq(Octets) /\ "PROCESS_VALUE" \in State BY DEF Stream, Header, State
<1>2. e = int_check_done(u) BY Zenon DEF ReadLength
<1>3. /\ u \in Stream /\ u.kind = t.kind
      /\ u.el = t.el \o lengths /\ u.header_offset = 0 /\ u.state = "PROCESS_VALUE"
  BY <1>1, BytesHandedOn
<1> HIDE DEF u, e
<1>4. e = u \/ e = [u EXCEPT !.state = "DONE"] BY <1>2 DEF int_check_done
<1>5. e.el = u.el /\ e.header_offset = 0 /\ e.kind = u.kind /\ e.state \in {"PROCESS_VALUE", "DONE"}
  BY <1>3, <1>4 DEF Stream
<1> QED BY <1>3, <1>5 DEF e

\* A header that fits is handed on, octet by octet, and the value follows.
LEMMA HeaderHandedOn ==
  ASSUME NEW s \in Stream, len \in Nat, len > 0, ~job.values_only, s.kind = "chunked",
         s.header_offset = 0, s.el = << >>,
         s.state \in {"PROCESS_TAG", "PROCESS_LENGTH", "PROCESS_VALUE"},
         Len(s.cur_header.tag_bytes) = 1, FitsHeader(s.cur_header)
  PROVE  LET e == AfterHeader(s) IN
         /\ e.header_offset = 0
         /\ e.el \o Pending(e) = Pending(s)
         /\ ~TooMuch(e)
         /\ ~Full(e) => e.state = "PROCESS_VALUE"
         /\ s.state = "PROCESS_VALUE" => e = s
<1> DEFINE tag == s.cur_header.tag_bytes
           lengths == s.cur_header.length_bytes
           t == ReadTag(s)
           e == AfterHeader(s)
<1>1. tag \in Seq(Octets) /\ lengths \in Seq(Octets) /\ Len(lengths) \in Nat BY DEF Stream, Header
<1>2. Len(lengths) <= 1 \/ Len(lengths) < len BY DEF FitsHeader
<1>3. Len(lengths) <= len BY <1>1, <1>2
<1>4. CASE s.state = "PROCESS_TAG"
  <2>1. << >> \o tag = tag BY <1>1, Concatenations
  <2>2. t = int_read_header_bytes(s, tag, "PROCESS_LENGTH") BY <1>4 DEF ReadTag
  <2>3. /\ t \in Stream /\ t.el = tag /\ t.header_offset = 0 /\ t.state = "PROCESS_LENGTH"
        /\ t.cur_header = s.cur_header /\ t.kind = "chunked"
    <3>1. Len(tag) <= len /\ "PROCESS_LENGTH" \in State BY DEF State
    <3> HIDE DEF tag, t
    <3>2. /\ t \in Stream /\ t.el = s.el \o tag /\ t.header_offset = 0
          /\ t.state = "PROCESS_LENGTH" /\ t.cur_header = s.cur_header /\ t.kind = s.kind
      BY <1>1, <2>2, <3>1, BytesHandedOn
    <3> QED BY <2>1, <3>2
  <2>4. Pending(s) = tag \o lengths BY <1>4 DEF Pending
  <2>5. ~TooMuch(t) /\ (Full(t) <=> len = 1)
    <3>1. Len(tag) = 1 OBVIOUS
    <3> HIDE DEF t, tag
    <3>2. ~(Len(t.el) > len) /\ (Len(t.el) = len <=> len = 1) /\ t.state # "DONE" BY <2>3, <3>1
    <3> QED BY <3>2, Zenon DEF TooMuch, Full
  <2>6. CASE len = 1
    <3>1. e = t BY <2>5, <2>6 DEF AfterHeader
    <3>2. Pending(t) = lengths BY <2>3 DEF Pending
    <3> HIDE DEF t, e
    <3> QED BY <1>4, <2>3, <2>4, <2>5, <2>6, <3>1, <3>2 DEF e
  <2>7. CASE len # 1
    <3>1. e = ReadLength(t) BY <2>5, <2>7 DEF AfterHeader
    <3> HIDE DEF t, e
    <3>2. /\ e.el = tag \o lengths /\ e.header_offset = 0
          /\ e.state \in {"PROCESS_VALUE", "DONE"} /\ e.kind = "chunked"
      BY <1>3, <2>3, <3>1, LengthHandedOn
    <3>3. Pending(e) = << >> BY <3>2 DEF Pending
    <3>4. Len(e.el) = 1 + Len(lengths)
      <4>1. Len(tag) = 1 OBVIOUS
      <4> HIDE DEF tag, lengths
      <4> QED BY <1>1, <3>2, <4>1, ConcatProperties
    <3>5. 1 + Len(lengths) <= len BY <1>1, <1>2, <2>7
    <3>6. ~TooMuch(e) BY <1>1, <3>4, <3>5 DEF TooMuch
    <3>7. ~Full(e) => e.state # "DONE" BY DEF Full
    <3>8. e.el \o << >> = e.el BY <1>1, <3>2, Concatenations
    <3> HIDE DEF tag, lengths
    <3> QED BY <1>4, <2>4, <3>2, <3>3, <3>6, <3>7, <3>8 DEF e
  <2> QED BY <2>6, <2>7
<1>5. CASE s.state = "PROCESS_LENGTH"
  <2>1. t = s BY <1>5 DEF ReadTag
  <2>2. ~TooMuch(s) /\ ~Full(s) BY <1>5 DEF TooMuch, Full
  <2>3. e = ReadLength(s) BY <2>1, <2>2 DEF AfterHeader
  <2>4. << >> \o lengths = lengths BY <1>1, Concatenations
  <2> HIDE DEF t, e
  <2>5. /\ e.el = lengths /\ e.header_offset = 0
        /\ e.state \in {"PROCESS_VALUE", "DONE"} /\ e.kind = "chunked"
    BY <1>3, <1>5, <2>3, <2>4, LengthHandedOn
  <2>6. Pending(e) = << >> /\ Pending(s) = lengths BY <1>5, <2>5 DEF Pending
  <2>7. ~TooMuch(e) BY <1>1, <1>3, <2>5 DEF TooMuch
  <2>8. ~Full(e) => e.state # "DONE" BY DEF Full
  <2>9. e.el \o << >> = e.el BY <1>1, <2>5, Concatenations
  <2> QED BY <1>5, <2>5, <2>6, <2>7, <2>8, <2>9 DEF e
<1>6. CASE s.state = "PROCESS_VALUE"
  <2>1. t = s BY <1>6 DEF ReadTag
  <2>2. ~TooMuch(s) /\ ~Full(s) BY <1>6 DEF TooMuch, Full
  <2>3. e = s BY <1>6, <2>1, <2>2 DEF AfterHeader, ReadLength
  <2>4. Pending(s) = << >> BY <1>6 DEF Pending
  <2> HIDE DEF t, e
  <2> QED BY <1>6, <2>2, <2>3, <2>4, Concatenations DEF e
<1> QED BY <1>4, <1>5, <1>6

-----------------------------------------------------------------------------
(* The steps.                                                              *)

LEMMA DeliverParts ==
  ASSUME IInv, DeliverInv, HandsOutOctets(job)
  PROVE  /\ StackOK(streams) /\ Rest /\ Len(streams) \in Nat /\ Len(streams) > 0
         /\ job.octets \in Seq(Octets) /\ Len(job.octets) \in Nat /\ pos \in 0..Len(job.octets)
         /\ Taken \in Seq(Octets)
         /\ \A i \in 1..Len(streams) : streams[i] \in Stream /\ HeaderInv(streams[i])
         /\ HoldsOctets(streams, Len(streams))
         /\ Pending(streams[Len(streams)]) \in Seq(Octets)
         /\ Len(streams) > 1 => streams[1].kind = "chunked"
         /\ streams[1].kind = "chunked" => ~job.values_only /\ ~job.cut
<1>1. /\ StackOK(streams) /\ Rest /\ Len(streams) \in Nat /\ Len(streams) > 0
  BY PositionParts DEF IInv, StackOK
<1>2. job.octets \in Seq(Octets) /\ Len(job.octets) \in Nat /\ pos \in 0..Len(job.octets)
  BY <1>1, JobTypes DEF Rest
<1>3. Taken \in Seq(Octets)
  <2>1. 0 \in Nat /\ pos \in Nat /\ 0 + pos <= Len(job.octets) BY <1>2
  <2>2. SubSeq(job.octets, 0 + 1, 0 + pos) \in Seq(Octets) BY <1>2, <2>1, OctetsFrom
  <2>3. 0 + 1 = 1 /\ 0 + pos = pos BY <1>2
  <2> QED BY <2>2, <2>3 DEF Taken
<1>4. \A i \in 1..Len(streams) : streams[i] \in Stream /\ HeaderInv(streams[i])
  BY <1>1 DEF StackOK, DeliverInv, CallInv
<1>5. HoldsOctets(streams, Len(streams)) BY <1>4, HeldTypes DEF HoldsOctets
<1>6. Pending(streams[Len(streams)]) \in Seq(Octets)
  <2>1. Len(streams) \in 1..Len(streams) BY <1>1
  <2> QED BY <1>4, <2>1, HeldTypes
<1>7. Len(streams) > 1 => streams[1].kind = "chunked"
  <2>1. 1 \in 1..Len(streams) BY <1>1
  <2> QED BY <1>1, <2>1, StackBelow
<1>8. streams[1].kind = "chunked" => ~job.values_only /\ ~job.cut
  BY DEF DeliverInv, EndingInv, HandsOutOctets
<1> QED BY <1>1, <1>2, <1>3, <1>4, <1>5, <1>6, <1>7, <1>8

\* While a read is under way.
LEMMA ReadingParts ==
  ASSUME IInv, DeliverInv, HandsOutOctets(job), at > 0
  PROVE  /\ at \in 1..Len(streams) /\ at \in Nat /\ Top \in Stream /\ HeaderInv(Top)
         /\ HoldsOctets(streams, at)
         /\ len \in Nat /\ len > 0
         /\ Top.kind = "definite" => at = Len(streams) /\ Top.total = << >> /\ Top.el = << >>
         /\ Top.kind = "chunked" \/ at > 1 => ~job.values_only /\ ~job.cut
         /\ status = "open" \/ (at = 1 /\ Ended(Top) /\ pc = "enter")
              \/ (at = 1 /\ Top.kind = "definite" /\ ~Ended(Top) /\ pos = Len(job.octets))
<1>1. /\ StackOK(streams) /\ Rest /\ Len(streams) \in Nat /\ Len(streams) > 0
      /\ \A i \in 1..Len(streams) : streams[i] \in Stream /\ HeaderInv(streams[i])
      /\ HoldsOctets(streams, Len(streams))
      /\ Len(streams) > 1 => streams[1].kind = "chunked"
      /\ streams[1].kind = "chunked" => ~job.values_only /\ ~job.cut BY DeliverParts
<1>2. /\ at \in 1..Len(streams) /\ at \in Nat /\ Top \in Stream
      /\ at < Len(streams) => Top.kind = "chunked" BY <1>1, StreamTypes
<1>3. HeaderInv(Top) BY <1>1, <1>2 DEF Top
<1>4. HoldsOctets(streams, at) BY <1>1, <1>2 DEF HoldsOctets
<1>5. len \in Nat /\ len > 0 BY <1>1 DEF Rest
<1>6. Top.kind = "definite" => at = Len(streams) /\ Top.total = << >> /\ Top.el = << >>
  BY <1>1, <1>2, <1>3 DEF HeaderInv
<1>7. Top.kind = "chunked" \/ at > 1 => streams[1].kind = "chunked"
  <2>1. CASE at > 1 BY <1>1, <1>2, <2>1
  <2>2. CASE at = 1 BY <1>1, <1>2, <2>2 DEF Top
  <2> QED BY <1>2, <2>1, <2>2
<1>8. status \in {"open", "end", "failed", "crashed"} BY <1>1 DEF Rest
<1>9. status = "end" => at = 1 /\ Ended(Top) /\ pc = "enter" BY DEF DeliverInv, EndingInv, Top
<1>10. ASSUME status = "failed"
       PROVE  at = 1 /\ Top.kind = "definite" /\ ~Ended(Top) /\ pos = Len(job.octets)
  <2>1. job.cut /\ pos = Len(job.octets) /\ ~Ended(streams[1]) BY <1>10 DEF DeliverInv, EndingInv
  <2>2. streams[1].kind # "chunked" BY <1>1, <2>1
  <2>3. at = 1 /\ Top.kind # "chunked" BY <1>2, <1>7, <2>2
  <2>4. Top.kind = "definite" BY <1>2, <2>3 DEF Stream
  <2> QED BY <2>1, <2>3, <2>4 DEF Top
<1>11. status # "crashed" BY DEF DeliverInv, EndingInv
<1> QED BY <1>1, <1>2, <1>3, <1>4, <1>5, <1>6, <1>7, <1>8, <1>9, <1>10, <1>11

LEMMA DeliverAfter ==
  ASSUME job' = job, CallInv(streams', at', pc'),
         EndingInv(streams', at', pc', pos', status'),
         Handed(streams', at', given', SubSeq(job.octets, 1, pos'))
  PROVE  DeliverInv'
  BY DEF DeliverInv, EndingInv, Taken

\* What does not change when the counted octets do.
LEMMA RefillFacts ==
  ASSUME NEW s \in Stream, NEW t \in Seq(Octets)
  PROVE  LET r == Refill(s, t) IN
         /\ r.kind = s.kind /\ r.state = s.state /\ r.cur_header = s.cur_header
         /\ r.header_offset = s.header_offset /\ r.total = t /\ r.el = << >>
         /\ Pending(r) = Pending(s) /\ (Ended(r) <=> Ended(s))
         /\ HeaderInv(s) /\ (s.kind = "chunked" \/ t = << >>) => HeaderInv(r)
<1> DEFINE r == Refill(s, t)
<1>1. /\ r.kind = s.kind /\ r.state = s.state /\ r.cur_header = s.cur_header
      /\ r.header_offset = s.header_offset /\ r.total = t /\ r.el = << >>
      /\ r.num_read = s.num_read /\ r.max_read = s.max_read BY DEF Refill, Stream
<1>2. s.kind \in {"definite", "chunked"} BY DEF Stream
<1> HIDE DEF r
<1> QED BY <1>1, <1>2 DEF Pending, Ended, HeaderInv, r

LEMMA AddFacts ==
  ASSUME NEW s \in Stream, NEW o \in Seq(Octets)
  PROVE  /\ Add(s, o) = Refill(s, (s.total \o s.el) \o o)
         /\ (s.total \o s.el) \o o \in Seq(Octets)
         /\ Add(s, o).total \o Add(s, o).el = (s.total \o s.el) \o o
<1> DEFINE t == (s.total \o s.el) \o o
<1>1. t \in Seq(Octets) BY HeldTypes, Concatenations
<1>2. Add(s, o) = Refill(s, t) BY DEF Add, Refill, Stream
<1> HIDE DEF t
<1>3. Add(s, o).total = t /\ Add(s, o).el = << >> BY <1>1, <1>2, RefillFacts
<1>4. t \o << >> = t BY <1>1, Concatenations
<1> QED BY <1>1, <1>2, <1>3, <1>4 DEF t

LEMMA ReadDelivers ==
  ASSUME IInv, DeliverInv, HandsOutOctets(job), NEW n \in job.sizes, Read(n)
  PROVE  DeliverInv'
<1>1. /\ StackOK(streams) /\ Len(streams) \in Nat /\ Len(streams) > 0
      /\ \A i \in 1..Len(streams) : streams[i] \in Stream /\ HeaderInv(streams[i])
  BY DeliverParts
<1>2. /\ at = 0 /\ at' = 1 /\ pc' = "enter"
      /\ job' = job /\ pos' = pos /\ given' = given /\ status' = status BY DEF Read
<1>3. streams' = [streams EXCEPT ![1] = Refill(streams[1], << >>)] BY DEF Read, Called, Refill
<1>4. 1 \in 1..Len(streams) /\ << >> \in Seq(Octets) /\ Len(streams) \in 1..Len(streams) BY <1>1
<1> DEFINE r == Refill(streams[1], << >>)
<1>5. /\ Len(streams') = Len(streams)
      /\ \A i \in 1..Len(streams) : streams'[i] = IF i = 1 THEN r ELSE streams[i]
  BY <1>1, <1>3, <1>4, RefillStack
<1>6. /\ r.kind = streams[1].kind /\ r.state = streams[1].state /\ r.total = << >>
      /\ r.el = << >> /\ Pending(r) = Pending(streams[1]) /\ (Ended(r) <=> Ended(streams[1]))
      /\ HeaderInv(r) BY <1>1, <1>4, RefillFacts
<1> HIDE DEF r
<1>7. streams'[1] = r BY <1>4, <1>5
<1>8. Pending(streams'[Len(streams')]) = Pending(streams[Len(streams)]) BY <1>4, <1>5, <1>6
<1>9. CallInv(streams', at', pc') BY <1>1, <1>2, <1>5, <1>6, <1>7 DEF DeliverInv, CallInv
<1>10. EndingInv(streams', at', pc', pos', status') BY <1>2, <1>6, <1>7 DEF DeliverInv, EndingInv
<1>11. Handed(streams', 0 + 1, given, Taken)
  <2>1. Handed(streams, 0, given, Taken) BY <1>2 DEF DeliverInv
  <2>2. streams'[0 + 1].total = << >> /\ streams'[0 + 1].el = << >> BY <1>6, <1>7
  <2>3. 0 \in Nat /\ \A i \in 1..0 : FALSE OBVIOUS
  <2> QED BY <1>8, <2>1, <2>2, <2>3, HandedOnCall
<1>12. Handed(streams', at', given', SubSeq(job.octets, 1, pos'))
  <2>1. 0 + 1 = 1 OBVIOUS
  <2> QED BY <1>2, <1>11, <2>1 DEF Taken
<1> QED BY <1>2, <1>9, <1>10, <1>12, DeliverAfter

\* Stream number at returns x: what it held, and y, which it took.
LEMMA ReturnsDelivers ==
  ASSUME IInv, DeliverInv, HandsOutOctets(job), at > 0, status = "open",
         NEW below, NEW x \in Seq(Octets), NEW y \in Seq(Octets),
         StackOK(below), Len(below) = Len(streams), Returns(below, x),
         \A i \in 1..Len(streams) :
           /\ HeaderInv(below[i]) /\ below[i].state = streams[i].state
           /\ below[i].kind = streams[i].kind,
         \A i \in 1..Len(streams) : i < at => below[i] = streams[i],
         Pending(below[Len(streams)]) = Pending(streams[Len(streams)]),
         x = (Top.total \o Top.el) \o y,
         y = << >> \/ Pending(streams[Len(streams)]) = << >>,
         SubSeq(job.octets, 1, pos') = Taken \o y
  PROVE  DeliverInv'
<1>1. /\ Len(streams) \in Nat /\ Len(streams) > 0
      /\ Pending(streams[Len(streams)]) \in Seq(Octets)
      /\ at \in 1..Len(streams) /\ at \in Nat /\ HoldsOctets(streams, at)
  BY DeliverParts, ReadingParts
<1>2. job' = job /\ at' = at - 1 /\ (at # 1 => pc' = "loop") BY DEF Returns
<1>3. Handed(streams, at, given, Taken) BY DEF DeliverInv
<1>4. \A i \in 1..Len(streams) : i < Len(streams) => streams[i].state = "PROCESS_VALUE"
  BY DEF DeliverInv, CallInv
<1>5. streams[1].kind = "chunked" <=> job.infinite BY DEF DeliverInv, EndingInv
<1>6. x = (streams[at].total \o streams[at].el) \o y BY DEF Top
<1>7. CASE at = 1
  <2>1. streams' = below /\ given' = given \o x /\ status' = "open" BY <1>7 DEF Returns
  <2>2. CallInv(streams', at', pc')
    <3>1. \A i \in 1..Len(below) : i < Len(below) => below[i].state = "PROCESS_VALUE" BY <1>4
    <3>2. ~(at' > 0) BY <1>2, <1>7
    <3> QED BY <2>1, <3>1, <3>2 DEF CallInv
  <2>3. EndingInv(streams', at', pc', pos', status') BY <1>1, <1>5, <2>1 DEF EndingInv
  <2>4. GivesUp(streams, below, at, given, given', x) BY <1>7, <2>1 DEF GivesUp
  <2>5. Handed(below, at - 1, given', Taken \o y) BY <1>1, <1>3, <1>6, <2>4, HandedOnReturn
  <2> QED BY <1>2, <2>1, <2>2, <2>3, <2>5, DeliverAfter
<1>8. CASE at # 1
  <2> DEFINE n == at - 1
             b == streams[n]
             t == (b.total \o b.el) \o x
             r == Refill(b, t)
  <2>1. n \in 1..Len(streams) /\ n < at /\ n \in Nat /\ n < Len(streams) BY <1>1, <1>8
  <2>2. b \in Stream /\ HeaderInv(b) /\ b.kind = "chunked"
    <3>1. StackOK(streams) /\ \A i \in 1..Len(streams) : HeaderInv(streams[i]) BY DeliverParts
    <3> QED BY <2>1, <3>1, StackBelow
  <2>3. /\ Add(b, x) = r /\ t \in Seq(Octets)
        /\ Add(b, x).total \o Add(b, x).el = (b.total \o b.el) \o x BY <2>2, AddFacts
  <2>4. below[n] = b BY <2>1
  <2>5. streams' = [below EXCEPT ![n] = Add(below[n], x)] /\ given' = given /\ status' = status
    BY <1>8 DEF Returns
  <2> HIDE DEF n
  <2>6. streams' = [below EXCEPT ![n] = Refill(below[n], t)] BY <2>3, <2>4, <2>5
  <2> HIDE DEF t
  <2>7. /\ Len(streams') = Len(streams)
        /\ \A i \in 1..Len(streams) : streams'[i] = IF i = n THEN Refill(below[n], t) ELSE below[i]
    BY <2>1, <2>3, <2>6, RefillStack
  <2>8. /\ streams'[n] = r
        /\ \A i \in 1..Len(streams) : i # n => streams'[i] = below[i] BY <2>1, <2>4, <2>7
  <2>9. r.kind = b.kind /\ r.state = b.state /\ r.el = << >> /\ HeaderInv(r)
    BY <2>2, <2>3, RefillFacts
  <2> HIDE DEF r
  <2>10. CallInv(streams', at', pc')
    <3>1. \A i \in 1..Len(streams) : HeaderInv(streams'[i]) BY <2>8, <2>9
    <3>2. \A i \in 1..Len(streams) : i < Len(streams) => streams'[i].state = "PROCESS_VALUE"
      BY <1>4, <2>8, <2>9
    <3>3. at' = n /\ pc' = "loop" /\ streams'[at'].el = << >> BY <1>2, <1>8, <2>8, <2>9 DEF n
    <3> QED BY <2>7, <3>1, <3>2, <3>3 DEF CallInv
  <2>11. EndingInv(streams', at', pc', pos', status')
    <3>1. streams'[1].kind = streams[1].kind
      <4>1. 1 \in 1..Len(streams) BY <1>1
      <4> QED BY <2>8, <2>9, <4>1
    <3> QED BY <1>5, <2>5, <3>1 DEF EndingInv
  <2>12. GivesUp(streams, streams', at, given, given', x)
    <3>1. streams'[n].total \o streams'[n].el = (b.total \o b.el) \o x BY <2>3, <2>8
    <3>2. \A i \in 1..at : i < at - 1 => streams'[i] = streams[i]
      <4> TAKE i \in 1..at
      <4>1. i < at - 1 => i \in 1..Len(streams) /\ i # n /\ i < at BY <1>1 DEF n
      <4> QED BY <2>8, <4>1
    <3> QED BY <1>8, <2>5, <3>1, <3>2 DEF GivesUp, n
  <2>13. Pending(streams'[Len(streams')]) = Pending(streams[Len(streams)])
    <3>1. Len(streams) \in 1..Len(streams) /\ Len(streams) # n BY <1>1, <2>1
    <3> QED BY <2>7, <2>8, <3>1
  <2>14. Handed(streams', at - 1, given', Taken \o y)
    BY <1>1, <1>3, <1>6, <2>12, <2>13, HandedOnReturn
  <2> QED BY <1>2, <2>10, <2>11, <2>14, DeliverAfter
<1> QED BY <1>7, <1>8

LEMMA TakenAfter ==
  ASSUME NEW octets \in Seq(Octets), NEW p \in Nat, NEW r \in Nat, p + r <= Len(octets)
  PROVE  /\ SubSeq(octets, p + 1, p + r) \in Seq(Octets)
         /\ SubSeq(octets, 1, p + r) = SubSeq(octets, 1, p) \o SubSeq(octets, p + 1, p + r)
<1>1. 0 \in Nat /\ 0 + p + r <= Len(octets) OBVIOUS
<1>2. SubSeq(octets, 0 + 1, 0 + p + r) =
        SubSeq(octets, 0 + 1, 0 + p) \o SubSeq(octets, 0 + p + 1, 0 + p + r) BY <1>1, TakenMore
<1>3. 0 + 1 = 1 /\ 0 + p = p OBVIOUS
<1> QED BY <1>2, <1>3, OctetsFrom

LEMMA DefiniteReadDelivers ==
  ASSUME IInv, DeliverInv, HandsOutOctets(job), NEW r \in 1..Len(job.octets), DefiniteRead(r)
  PROVE  DeliverInv' /\ status = "open"
<1>1. at > 0 /\ Top.kind = "definite" /\ Top.num_read # Top.max_read
  BY DEF DefiniteRead, Definite
<1>2. /\ StackOK(streams) /\ Len(streams) \in Nat /\ Len(streams) > 0
      /\ job.octets \in Seq(Octets) /\ Len(job.octets) \in Nat /\ pos \in 0..Len(job.octets)
      /\ \A i \in 1..Len(streams) : HeaderInv(streams[i])
      /\ at \in 1..Len(streams) /\ at = Len(streams) /\ Top \in Stream /\ HeaderInv(Top)
      /\ Top.total = << >> /\ Top.el = << >> /\ len \in Nat /\ StreamInv(Top)
  BY <1>1, DeliverParts, ReadingParts, StreamTypes
<1>3. pos \in Nat /\ r \in Nat /\ r > 0 BY <1>2
<1>4. /\ r <= ToRead(Top) /\ pos + r <= Len(job.octets) /\ pos' = pos + r BY DEF DefiniteRead
<1>5. status = "open"
  <2>1. ~Ended(Top) BY <1>1 DEF Ended
  <2>2. pos # Len(job.octets) BY <1>2, <1>3, <1>4
  <2> QED BY <1>1, <2>1, <2>2, ReadingParts
<1> DEFINE n == Top.num_read + r
           s == [Top EXCEPT !.num_read = n]
           below == [streams EXCEPT ![at] = s]
           x == SubSeq(job.octets, pos + 1, pos + r)
<1>6. n \in Nat /\ n <= Top.max_read
  <2>1. Top.num_read \in Nat /\ Top.max_read \in Nat BY <1>2 DEF Stream
  <2> QED BY <1>2, <1>3, <1>4, <2>1 DEF ToRead, StreamInv
<1>7. x \in Seq(Octets) /\ SubSeq(job.octets, 1, pos') = Taken \o x
  BY <1>2, <1>3, <1>4, TakenAfter DEF Taken
<1>8. Returns(below, x)
  <2>1. s = [Top EXCEPT !.num_read = @ + r] BY <1>2 DEF Stream
  <2>2. below = WithTop([Top EXCEPT !.num_read = @ + r]) BY <2>1 DEF WithTop
  <2> HIDE DEF below, x
  <2> QED BY <2>2 DEF DefiniteRead, x
<1>9. /\ s \in Stream /\ StreamInv(s) /\ s.kind = Top.kind /\ s.max_read = Top.max_read
      /\ s.state = Top.state /\ s.total = Top.total /\ s.el = Top.el
      /\ s.header_offset = Top.header_offset /\ s.cur_header = Top.cur_header
  BY <1>2, <1>6 DEF Stream, StreamInv
<1> HIDE DEF s, x
<1>10. /\ StackOK(below) /\ Len(below) = Len(streams)
       /\ \A i \in 1..Len(streams) : below[i] = IF i = at THEN s ELSE streams[i]
  <2>1. s.kind = streams[at].kind /\ s.max_read = streams[at].max_read /\ ~(at < Len(streams))
    BY <1>2, <1>9 DEF Top
  <2>2. StackOK(streams) /\ at \in 1..Len(streams) BY <1>2
  <2> HIDE DEF n
  <2> QED BY <1>9, <2>1, <2>2, UpdateStack
<1> HIDE DEF below
<1>11. HeaderInv(s) BY <1>2, <1>9 DEF HeaderInv
<1>12. \A i \in 1..Len(streams) : /\ HeaderInv(below[i]) /\ below[i].state = streams[i].state
                                  /\ below[i].kind = streams[i].kind
  BY <1>2, <1>9, <1>10, <1>11 DEF Top
<1>13. \A i \in 1..Len(streams) : i < at => below[i] = streams[i] BY <1>2, <1>10
<1>14. Pending(below[Len(streams)]) = << >> /\ Pending(streams[Len(streams)]) = << >>
  BY <1>1, <1>2, <1>9, <1>10 DEF Pending, Top
<1>15. x = (Top.total \o Top.el) \o x BY <1>2, <1>7, Concatenations
<1> QED BY <1>1, <1>5, <1>7, <1>8, <1>10, <1>12, <1>13, <1>14, <1>15, ReturnsDelivers

LEMMA ChunkedReturnsDelivers ==
  ASSUME IInv, DeliverInv, HandsOutOctets(job), ChunkedReturns
  PROVE  DeliverInv' /\ status = "open"
<1>1. /\ at > 0 /\ Top.kind = "chunked" /\ pc = "loop" /\ pos' = pos
      /\ Returns(streams, Top.total) BY DEF ChunkedReturns, Chunked
<1>2. /\ StackOK(streams) /\ \A i \in 1..Len(streams) : HeaderInv(streams[i])
      /\ Taken \in Seq(Octets) /\ Top \in Stream BY <1>1, DeliverParts, ReadingParts
<1>3. status = "open" BY <1>1, ReadingParts
<1>4. Top.el = << >> BY <1>1 DEF DeliverInv, CallInv, Top
<1>5. Top.total \in Seq(Octets) /\ << >> \in Seq(Octets) BY <1>2, HeldTypes
<1>6. Top.total = (Top.total \o Top.el) \o << >> BY <1>4, <1>5, Concatenations
<1>7. SubSeq(job.octets, 1, pos') = Taken \o << >> BY <1>1, <1>2, Concatenations DEF Taken
<1> QED BY <1>1, <1>2, <1>3, <1>5, <1>6, <1>7, ReturnsDelivers

\* A stream announces its end.
LEMMA ReturnsEofDelivers ==
  ASSUME IInv, DeliverInv, HandsOutOctets(job), at > 0, ReturnsEof, pos' = pos,
         Ended(Top), Top.kind = "chunked" => pc = "enter"
  PROVE  /\ DeliverInv'
         /\ at = Len(streams) /\ Top.total = << >> /\ Top.el = << >> /\ Pending(Top) = << >>
<1>1. /\ StackOK(streams) /\ Len(streams) \in Nat /\ Len(streams) > 0
      /\ Taken \in Seq(Octets)
      /\ \A i \in 1..Len(streams) : HeaderInv(streams[i])
      /\ at \in 1..Len(streams) /\ at \in Nat /\ HoldsOctets(streams, at) /\ Top \in Stream
      /\ Top.kind = "definite" => at = Len(streams) /\ Top.total = << >> /\ Top.el = << >>
  BY DeliverParts, ReadingParts
<1>2. \A i \in 1..Len(streams) : i < Len(streams) => streams[i].state = "PROCESS_VALUE"
  BY DEF DeliverInv, CallInv
<1>3. Top.kind \in {"definite", "chunked"} BY <1>1 DEF Stream
<1>4. at = Len(streams) /\ Top.total = << >> /\ Top.el = << >> /\ Pending(Top) = << >>
  <2>1. CASE Top.kind = "definite" BY <1>1, <2>1 DEF Pending
  <2>2. CASE Top.kind = "chunked"
    <3>1. Top.state = "DONE" BY <2>2 DEF Ended
    <3>2. ~(at < Len(streams)) BY <1>1, <1>2, <3>1 DEF Top
    <3>3. Top.total = << >> /\ Top.el = << >> BY <2>2 DEF DeliverInv, CallInv, Top
    <3> QED BY <1>1, <2>2, <3>1, <3>2, <3>3 DEF Pending
  <2> QED BY <1>3, <2>1, <2>2
<1>5. Handed(streams, at, given, Taken) BY DEF DeliverInv
<1>6. streams[1].kind = "chunked" <=> job.infinite BY DEF DeliverInv, EndingInv
<1>7. job' = job /\ at' = at - 1 /\ given' = given BY DEF ReturnsEof
<1>8. /\ << >> = (streams[at].total \o streams[at].el) \o << >>
      /\ << >> \in Seq(Octets) /\ Taken \o << >> = Taken BY <1>1, <1>4, Concatenations DEF Top
<1>9. Pending(streams[Len(streams)]) = << >> BY <1>4 DEF Top
<1>10. given \in Seq(Octets) BY DeliverParts DEF Rest
<1>11. SubSeq(job.octets, 1, pos') = Taken BY DEF Taken
<1>12. CASE at = 1
  <2>1. streams' = streams /\ status' = "end" BY <1>12 DEF ReturnsEof
  <2>2. ~(at' > 0) BY <1>7, <1>12
  <2>3. CallInv(streams', at', pc') BY <1>1, <1>2, <2>1, <2>2 DEF CallInv
  <2>4. EndingInv(streams', at', pc', pos', status')
    BY <1>6, <1>12, <2>1, <2>2 DEF EndingInv, Top
  <2>5. GivesUp(streams, streams, at, given, given, << >>)
    BY <1>10, <1>12, Concatenations DEF GivesUp
  <2>6. Handed(streams, at - 1, given, Taken \o << >>)
    BY <1>1, <1>5, <1>8, <1>9, <2>5, HandedOnReturn
  <2>7. DeliverInv' BY <1>7, <1>8, <1>11, <2>1, <2>3, <2>4, <2>6, DeliverAfter
  <2> QED BY <1>4, <2>7
<1>13. CASE at # 1
  <2> DEFINE n == at - 1
             b == streams[n]
             u == [b EXCEPT !.state = "NEW_HEADER"]
             r == AfterValue(b)
             freed == SubSeq(streams, 1, n)
  <2>1. n \in Nat /\ n \in 1..Len(streams) /\ n < Len(streams) /\ n > 0 /\ n \in 1..n BY <1>1, <1>4, <1>13
  <2>2. b \in Stream /\ b.kind = "chunked" /\ b.state = "PROCESS_VALUE" /\ HeaderInv(b)
    BY <1>1, <1>2, <2>1, StackBelow
  <2>3. /\ u \in Stream /\ u.kind = "chunked" /\ u.state = "NEW_HEADER" /\ u.total = b.total
        /\ u.el = b.el /\ u.header_offset = b.header_offset BY <2>2 DEF Stream, State
  <2>4. r = Add(u, << >>) BY <2>2 DEF AfterValue
  <2>5. status = "open" BY <1>13, ReadingParts
  <2>6. streams' = [freed EXCEPT ![n] = AfterValue(freed[n])] /\ status' = status /\ pc' = "loop"
    BY <1>13 DEF ReturnsEof, Freed
  <2>7. StackOK(freed) /\ Len(freed) = n /\ \A i \in 1..n : freed[i] = streams[i]
    BY <1>1, <2>1, CutStack
  <2> HIDE DEF u, r, freed, n
  <2>8. r.total \o r.el = (b.total \o b.el) \o << >> BY <1>8, <2>3, <2>4, AddFacts
  <2>9. /\ r.kind = "chunked" /\ r.state = "NEW_HEADER" /\ r.el = << >>
        /\ r.header_offset = u.header_offset
    <3>1. PICK t \in Seq(Octets) : r = Refill(u, t) BY <1>8, <2>3, <2>4, AddFacts
    <3> QED BY <2>3, <3>1, RefillFacts
  <2>10. HeaderInv(r) /\ Pending(r) = << >> BY <2>2, <2>3, <2>9 DEF HeaderInv, Pending
  <2>11. /\ Len(streams') = n /\ streams'[n] = r
         /\ \A i \in 1..n : i < n => streams'[i] = streams[i]
    <3>1. streams' = [freed EXCEPT ![n] = r] /\ freed \in Seq(Stream)
      BY <2>1, <2>6, <2>7 DEF StackOK, r
    <3>2. Len(streams') = n /\ \A i \in 1..n : streams'[i] = IF i = n THEN r ELSE freed[i]
      BY <2>1, <2>7, <3>1
    <3> QED BY <2>1, <2>7, <3>2
  <2>12. CallInv(streams', at', pc')
    <3>1. \A i \in 1..n : i < n => i \in 1..Len(streams) /\ i < Len(streams) BY <2>1
    <3>2. \A i \in 1..n : HeaderInv(streams'[i]) /\ (i < n => streams'[i].state = "PROCESS_VALUE")
      <4> TAKE i \in 1..n
      <4>1. CASE i = n BY <2>10, <2>11, <4>1
      <4>2. CASE i # n
        <5>1. i < n BY <2>1, <4>2
        <5> QED BY <1>1, <1>2, <2>11, <3>1, <5>1
      <4> QED BY <4>1, <4>2
    <3>3. at' = n BY <1>7 DEF n
    <3> QED BY <2>6, <2>9, <2>11, <3>2, <3>3 DEF CallInv
  <2>13. EndingInv(streams', at', pc', pos', status')
    <3>1. streams'[1].kind = streams[1].kind
      <4>1. CASE n = 1 BY <2>2, <2>9, <2>11, <4>1
      <4>2. CASE n # 1
        <5>1. 1 \in 1..n /\ 1 < n BY <2>1, <4>2
        <5> QED BY <2>11, <5>1
      <4> QED BY <4>1, <4>2
    <3> QED BY <1>6, <2>5, <2>6, <3>1 DEF EndingInv
  <2>14. GivesUp(streams, streams', at, given, given, << >>)
    <3>1. streams'[n].total \o streams'[n].el = (b.total \o b.el) \o << >> BY <2>8, <2>11
    <3>2. \A i \in 1..at : i < at - 1 => streams'[i] = streams[i]
      <4> TAKE i \in 1..at
      <4>1. i < at - 1 => i \in 1..n /\ i < n BY <1>1 DEF n
      <4> QED BY <2>11, <4>1
    <3> QED BY <1>13, <3>1, <3>2 DEF GivesUp, n
  <2>15. Pending(streams'[Len(streams')]) = << >> BY <2>10, <2>11
  <2>16. Handed(streams', at - 1, given, Taken \o << >>)
    BY <1>1, <1>5, <1>8, <1>9, <2>14, <2>15, HandedOnReturn
  <2>17. DeliverInv' BY <1>7, <1>8, <1>11, <2>12, <2>13, <2>16, DeliverAfter
  <2> QED BY <1>4, <2>17
<1> QED BY <1>12, <1>13

\* No read fails on a value that is not cut.
LEMMA DefiniteFailsDelivers ==
  ASSUME IInv, DeliverInv, HandsOutOctets(job), DefiniteFails
  PROVE  DeliverInv' /\ job.cut /\ given' = given /\ status' = "failed" /\ job' = job
<1>1. /\ at > 0 /\ Top.kind = "definite" /\ Top.num_read # Top.max_read
      /\ pos = Len(job.octets) /\ pos' = pos /\ streams' = streams
      /\ at' = 0 /\ status' = "failed" /\ job' = job /\ given' = given
  BY DEF DefiniteFails, Definite, Fails
<1>2. /\ StackOK(streams) /\ Len(streams) \in Nat /\ Len(streams) > 0
      /\ Len(job.octets) \in Nat /\ Taken \in Seq(Octets)
      /\ at \in 1..Len(streams) /\ at \in Nat /\ HoldsOctets(streams, at) /\ Top \in Stream
      /\ at = Len(streams) /\ Top.total = << >> /\ Top.el = << >> /\ StreamInv(Top)
      /\ at > 1 => ~job.cut BY <1>1, DeliverParts, ReadingParts, StreamTypes
<1>3. job.cut
  <2> SUFFICES ASSUME ~job.cut PROVE FALSE OBVIOUS
  <2>1. WholeReach(job).outcome # "cut" BY DEF WholeReach, Reach
  <2>2. Reaches(job.octets, streams, pos)[1].outcome # "cut" BY <2>1, PositionParts DEF IInv
  <2>3. LastReach(job.octets, Top, pos).outcome # "cut" BY <1>2, <2>2, LastOutcome DEF Top
  <2>4. Top.num_read \in Nat /\ Top.max_read \in Nat BY <1>2 DEF Stream
  <2>5. Top.max_read - Top.num_read > 0 BY <1>1, <1>2, <2>4 DEF StreamInv
  <2>6. ~(pos + (Top.max_read - Top.num_read) <= Len(job.octets)) BY <1>1, <1>2, <2>4, <2>5
  <2>7. LastReach(job.octets, Top, pos) = Reach("cut", Len(job.octets))
    BY <1>1, <2>6 DEF LastReach, ValueReach
  <2> QED BY <2>3, <2>7 DEF Reach
<1>4. at = 1 BY <1>2, <1>3
<1>5. ~Ended(streams[1]) BY <1>1, <1>4 DEF Ended, Top
<1>6. EndingInv(streams', at', pc', pos', status') BY <1>1, <1>3, <1>5 DEF DeliverInv, EndingInv
<1>7. CallInv(streams', at', pc') BY <1>1 DEF DeliverInv, CallInv
<1>8. Handed(streams', at', given', SubSeq(job.octets, 1, pos'))
  <2>1. /\ << >> = (streams[at].total \o streams[at].el) \o << >>
        /\ << >> \in Seq(Octets) /\ Taken \o << >> = Taken BY <1>2, Concatenations DEF Top
  <2>2. Pending(streams[Len(streams)]) = << >> BY <1>1, <1>2 DEF Pending, Top
  <2>3. given \in Seq(Octets) BY DeliverParts DEF Rest
  <2>4. GivesUp(streams, streams, at, given, given, << >>)
    BY <1>4, <2>3, Concatenations DEF GivesUp
  <2>5. Handed(streams, at, given, Taken) BY DEF DeliverInv
  <2>6. Handed(streams, at - 1, given, Taken \o << >>)
    BY <1>2, <2>1, <2>2, <2>4, <2>5, HandedOnReturn
  <2>7. at - 1 = 0 BY <1>4
  <2> QED BY <1>1, <2>1, <2>6, <2>7 DEF Taken
<1>9. DeliverInv' BY <1>1, <1>6, <1>7, <1>8, DeliverAfter
<1> QED BY <1>1, <1>3, <1>9

\* What the stream that is reading starts from, behind a header it parsed.
LEMMA ElementStart ==
  ASSUME IInv, DeliverInv, HandsOutOctets(job), at > 0, Top.kind = "chunked", pc # "value",
         Top.state # "DONE"
  PROVE  LET h == next_header(job.octets, pos)
             s == NewHeader(Top, h)
             q == IF Top.state = "NEW_HEADER" THEN pos + h.used ELSE pos
             y == SubSeq(job.octets, pos + 1, q)
         IN  /\ s \in Stream /\ Keeps(s, Top) /\ s.header_offset = 0 /\ s.el = << >>
             /\ s.state \in {"PROCESS_TAG", "PROCESS_LENGTH", "PROCESS_VALUE"}
             /\ Len(s.cur_header.tag_bytes) = 1
             /\ y \in Seq(Octets) /\ SubSeq(job.octets, 1, q) = Taken \o y
             /\ Pending(s) = Pending(Top) \o y
             /\ at < Len(streams) => s = Top /\ y = << >> /\ Top.state = "PROCESS_VALUE"
<1> DEFINE o == job.octets
           h == next_header(o, pos)
           s == NewHeader(Top, h)
<1>1. /\ StackOK(streams) /\ Rest /\ o \in Seq(Octets) /\ Len(o) \in Nat /\ pos \in 0..Len(o)
      /\ at \in 1..Len(streams) /\ Len(streams) \in Nat /\ at \in Nat
      /\ Top \in Stream /\ HeaderInv(Top) /\ StreamInv(Top) /\ ~job.cut
      /\ at < Len(streams) => Top.state # "NEW_HEADER" BY DeliverParts, ReadingParts, StreamTypes
<1>2. Top.el = << >> BY DEF DeliverInv, CallInv, Top
<1>3. at < Len(streams) => Top.state = "PROCESS_VALUE" BY <1>1 DEF DeliverInv, CallInv, Top
<1>4. Top.state \in State BY <1>1 DEF Stream
<1>5. CASE Top.state = "NEW_HEADER"
  <2>1. at = Len(streams) BY <1>1, <1>5
  <2>2. h.ok
    <3> SUFFICES ASSUME ~h.ok PROVE FALSE OBVIOUS
    <3>1. Reaches(o, streams, pos)[1] = WholeReach(job) BY PositionParts DEF IInv
    <3>2. WholeReach(job).outcome = "whole" BY <1>1 DEF WholeReach, Reach
    <3>3. Len(streams) > 0 BY <1>1
    <3>4. /\ LastReach(o, streams[Len(streams)], pos).outcome # "cut"
          /\ LastReach(o, streams[Len(streams)], pos).outcome # "malformed"
      BY <1>1, <3>1, <3>2, <3>3, LastOutcome
    <3>5. LastReach(o, Top, pos) = ExtentAt(Extent(o), o, pos)
      <4>1. Extent(o)[pos] = ExtentAt(Extent(o), o, pos) BY <1>1, ExtentDefined
      <4> QED BY <1>5, <4>1 DEF LastReach
    <3>6. ExtentAt(Extent(o), o, pos).outcome \in {"cut", "malformed"} BY DEF ExtentAt, Reach
    <3> QED BY <2>1, <3>4, <3>5, <3>6 DEF Top
  <2>3. /\ h.used \in 0..(Len(o) - pos) /\ h.header \in Header /\ Len(h.header.tag_bytes) = 1
    BY <1>1, <2>2, HeaderFacts
  <2>4. h.header.tag_bytes \o h.header.length_bytes = SubSeq(o, pos + 1, pos + h.used)
    BY <1>1, <2>2, HeaderTaken
  <2>5. s = [Top EXCEPT !.cur_header = h.header, !.state = "PROCESS_TAG", !.header_offset = 0]
    BY <1>5, <2>2 DEF NewHeader
  <2> HIDE DEF s, h
  <2>6. /\ s \in Stream /\ Keeps(s, Top) /\ s.header_offset = 0 /\ s.el = << >>
        /\ s.state = "PROCESS_TAG" /\ s.cur_header = h.header
    BY <1>1, <1>2, <2>3, <2>5 DEF Stream, State, Keeps
  <2>7. pos \in Nat /\ h.used \in Nat /\ pos + h.used <= Len(o) BY <1>1, <2>3
  <2> DEFINE y == SubSeq(o, pos + 1, pos + h.used)
  <2>8. y \in Seq(Octets) /\ SubSeq(o, 1, pos + h.used) = Taken \o y
    BY <1>1, <2>7, TakenAfter DEF Taken
  <2>9. Pending(Top) = << >> /\ << >> \o y = y BY <1>5, <2>8, Concatenations DEF Pending
  <2>10. Pending(s) = y
    <3>1. s.kind = "chunked" BY <2>6 DEF Keeps
    <3> QED BY <2>4, <2>6, <3>1 DEF Pending
  <2>11. Len(s.cur_header.tag_bytes) = 1
    <3>1. Len(s.cur_header.tag_bytes) = Len(h.header.tag_bytes) BY <2>6, Zenon
    <3> QED BY <2>3, <3>1, Zenon
  <2> HIDE DEF y
  <2> QED BY <1>1, <1>5, <2>1, <2>6, <2>8, <2>9, <2>10, <2>11 DEF s, h, y
<1>6. CASE Top.state # "NEW_HEADER"
  <2>1. s = Top BY <1>6 DEF NewHeader
  <2> DEFINE y == SubSeq(o, pos + 1, pos)
  <2>2. y = << >> BY <1>1
  <2>3. Taken \in Seq(Octets) /\ Pending(Top) \in Seq(Octets) BY <1>1, DeliverParts, HeldTypes
  <2>4. SubSeq(o, 1, pos) = Taken \o << >> /\ Pending(Top) = Pending(Top) \o << >>
    BY <2>3, Concatenations DEF Taken
  <2>5. Len(Top.cur_header.tag_bytes) = 1 BY <1>1, <1>6 DEF HeaderInv
  <2>6. Top.state \in {"PROCESS_TAG", "PROCESS_LENGTH", "PROCESS_VALUE"} BY <1>4, <1>6 DEF State
  <2>7. Keeps(Top, Top) /\ Top.header_offset = 0 /\ << >> \in Seq(Octets)
    BY <1>1 DEF Keeps, HeaderInv
  <2> HIDE DEF s, y
  <2> QED BY <1>1, <1>2, <1>3, <1>6, <2>1, <2>2, <2>4, <2>5, <2>6, <2>7 DEF s, h, y
<1> QED BY <1>5, <1>6

\* The stream that is reading takes y, and counts z of what was pending.
LEMMA TurnDelivers ==
  ASSUME IInv, DeliverInv, HandsOutOctets(job), at > 0, Top.kind = "chunked", status = "open",
         NEW u \in Stream, NEW y \in Seq(Octets), NEW z \in Seq(Octets),
         streams' = [streams EXCEPT ![at] = u], UNCHANGED << job, at, given, status >>,
         pc' \in {"loop", "value"}, u.kind = "chunked", HeaderInv(u),
         pc' = "loop" => u.el = << >>, pc' = "value" => u.state = "PROCESS_VALUE",
         at < Len(streams) => u.state = "PROCESS_VALUE" /\ y = << >> /\ z = << >>,
         z \o Pending(u) = Pending(Top) \o y,
         u.total \o u.el = (Top.total \o Top.el) \o z,
         SubSeq(job.octets, 1, pos') = Taken \o y
  PROVE  DeliverInv'
<1> DEFINE m == Len(streams)
<1>1. /\ StackOK(streams) /\ m \in Nat /\ m > 0 /\ at \in 1..m /\ at \in Nat
      /\ \A i \in 1..m : HeaderInv(streams[i])
      /\ Pending(streams[m]) \in Seq(Octets) /\ Top \in Stream BY DeliverParts, ReadingParts
<1>2. /\ Len(streams') = m
      /\ \A i \in 1..m : streams'[i] = IF i = at THEN u ELSE streams[i]
  BY <1>1, ExceptSeq DEF StackOK
<1>3. \A i \in 1..m : i < m => streams[i].state = "PROCESS_VALUE" BY DEF DeliverInv, CallInv
<1>4. streams'[at] = u BY <1>1, <1>2
<1> HIDE DEF m
<1>5. CallInv(streams', at', pc')
  <2>1. \A i \in 1..m : HeaderInv(streams'[i]) BY <1>1, <1>2
  <2>2. \A i \in 1..m : i < m => streams'[i].state = "PROCESS_VALUE" BY <1>2, <1>3 DEF m
  <2> QED BY <1>2, <1>4, <2>1, <2>2 DEF CallInv
<1>6. EndingInv(streams', at', pc', pos', status')
  <2>1. streams'[1].kind = streams[1].kind
    <3>1. 1 \in 1..m BY <1>1
    <3> QED BY <1>2, <3>1 DEF Top
  <2> QED BY <2>1 DEF DeliverInv, EndingInv
<1>7. z \o Pending(streams'[m]) = Pending(streams[m]) \o y
  <2>1. CASE at = m BY <1>4, <2>1 DEF Top
  <2>2. CASE at # m
    <3>1. m \in 1..m /\ y = << >> /\ z = << >> BY <1>1, <2>2 DEF m
    <3>2. streams'[m] = streams[m] BY <1>2, <2>2, <3>1
    <3> QED BY <1>1, <3>1, <3>2, Concatenations
  <2> QED BY <2>1, <2>2
<1>8. Pending(streams'[m]) \in Seq(Octets)
  <2>1. m \in 1..m BY <1>1
  <2>2. streams'[m] \in Stream BY <1>1, <1>2, <2>1, StackBelow DEF m
  <2> QED BY <2>2, HeldTypes
<1> DEFINE x == Top.total \o Top.el
<1>9. x \in Seq(Octets) /\ x = streams[at].total \o streams[at].el
  BY <1>1, HeldTypes, Concatenations DEF Top
<1>10. streams'[at].total \o streams'[at].el = x \o z BY <1>4
<1> HIDE DEF x
<1>11. \A i \in 1..at : i < at =>
         streams'[i].total = streams[i].total /\ streams'[i].el = streams[i].el
  <2>1. \A i \in 1..at : i < at => i \in 1..m /\ i # at BY <1>1
  <2> QED BY <1>2, <2>1
<1>12. Handed(streams', at, given, Taken \o y)
  <2>1. Handed(streams, at, given, Taken) BY DEF DeliverInv
  <2>2. Len(streams') = m /\ Len(streams) = m BY <1>2 DEF m
  <2>3. /\ Pending(streams[Len(streams)]) \in Seq(Octets)
        /\ Pending(streams'[Len(streams')]) \in Seq(Octets)
        /\ z \o Pending(streams'[Len(streams')]) = Pending(streams[Len(streams)]) \o y
    BY <1>1, <1>7, <1>8, <2>2
  <2>4. at \in Nat BY <1>1
  <2> QED
    BY ONLY <1>9, <1>10, <1>11, <2>1, <2>3, <2>4, at > 0, y \in Seq(Octets), z \in Seq(Octets),
      HandedInPlace
<1> QED BY <1>5, <1>6, <1>12, DeliverAfter

LEMMA ElementDelivers ==
  ASSUME IInv, DeliverInv, ReadsFit, ReadsFit', Element
  PROVE  DeliverInv'
<1> DEFINE o == job.octets
           h == next_header(o, pos)
           s == NewHeader(Top, h)
           e == AfterHeader(s)
           q == IF Top.state = "NEW_HEADER" THEN pos + h.used ELSE pos
           y == SubSeq(o, pos + 1, q)
<1>1. /\ at > 0 /\ Top.kind = "chunked" /\ pc # "value" /\ Top.state # "DONE"
      /\ pos' = q /\ HandsOutOctets(job) BY Zenon DEF Element, Chunked, ReadsFit
<1>2. \/ s.cur_header = NoHeader
      \/ TooMuch(e) /\ streams' = WithTop([e EXCEPT !.el = << >>]) /\ Fails
      \/ /\ streams' = WithTop(Add(e, << >>)) /\ pc' = "loop"
         /\ UNCHANGED << job, at, len, given, status >>
      \/ /\ ~Full(e) /\ streams' = WithTop(e) /\ pc' = "value"
         /\ UNCHANGED << job, at, len, given, status >> BY Zenon DEF Element
<1>3. /\ s \in Stream /\ Keeps(s, Top) /\ s.header_offset = 0 /\ s.el = << >>
      /\ s.state \in {"PROCESS_TAG", "PROCESS_LENGTH", "PROCESS_VALUE"}
      /\ Len(s.cur_header.tag_bytes) = 1
      /\ y \in Seq(Octets) /\ SubSeq(o, 1, q) = Taken \o y
      /\ Pending(s) = Pending(Top) \o y
      /\ at < Len(streams) => s = Top /\ y = << >> /\ Top.state = "PROCESS_VALUE"
  BY <1>1, ElementStart
<1>4. /\ at \in 1..Len(streams) /\ Len(streams) \in Nat /\ len \in Nat /\ len > 0
      /\ streams \in Seq(Stream) /\ Top \in Stream /\ ~job.values_only /\ status = "open"
  <2>1. StackOK(streams) BY <1>1, DeliverParts
  <2> QED BY <1>1, <2>1, ReadingParts DEF StackOK, Ended
<1> HIDE DEF y, q, e, s, h, o
<1>5. /\ e \in Stream /\ Keeps(e, s) /\ e.cur_header = s.cur_header
  <2>1. Len(s.cur_header.tag_bytes) <= 1 /\ s.state # "DONE" BY <1>3
  <2> QED BY <1>3, <1>4, <2>1, AfterHeaderFacts DEF e
<1>6. s.cur_header # NoHeader
  <2>1. Len(NoHeader.tag_bytes) = 0 BY DEF NoHeader
  <2>2. Len(NoHeader.tag_bytes) # 1 BY <2>1
  <2> QED BY <1>3, <2>2, Zenon
<1>7. ASSUME NEW u \in Stream, u.cur_header = e.cur_header, streams' = WithTop(u), len' = len
      PROVE  FitsHeader(s.cur_header)
  <2>1. DOMAIN streams' = 1..Len(streams) /\ streams'[at] = u BY <1>4, <1>7 DEF WithTop
  <2>2. at \in DOMAIN streams' BY <1>4, <2>1
  <2>3. \/ Len(streams'[at].cur_header.length_bytes) <= 1
        \/ Len(streams'[at].cur_header.length_bytes) < len'
    BY <2>2, Zenon DEF ReadsFit, FitsHeader
  <2> QED BY <1>5, <1>7, <2>1, <2>3 DEF FitsHeader
<1>8. ASSUME FitsHeader(s.cur_header)
      PROVE  /\ e.header_offset = 0 /\ e.el \o Pending(e) = Pending(s) /\ ~TooMuch(e)
             /\ ~Full(e) => e.state = "PROCESS_VALUE"
             /\ s.state = "PROCESS_VALUE" => e = s
  <2>1. s.kind = "chunked" BY <1>1, <1>3 DEF Keeps
  <2> QED BY <1>3, <1>4, <1>8, <2>1, HeaderHandedOn DEF e
<1>9. e.el \in Seq(Octets) /\ e.total = Top.total /\ e.kind = "chunked" /\ Top.el = << >>
  <2>1. Top.el = << >> BY <1>1 DEF DeliverInv, CallInv, Top
  <2> QED BY <1>1, <1>3, <1>5, <2>1 DEF Keeps, Stream
<1>10. e.total \o e.el = (Top.total \o Top.el) \o e.el
  <2>1. Top.total \o << >> = Top.total BY <1>4, HeldTypes, Concatenations
  <2> QED BY <1>9, <2>1
<1>11. at < Len(streams) /\ e = s => e.state = "PROCESS_VALUE" /\ e.el = << >> BY <1>3
<1>12. ASSUME FitsHeader(s.cur_header)
       PROVE  /\ HeaderInv(e) /\ e.el \o Pending(e) = Pending(Top) \o y
              /\ at < Len(streams) => e.state = "PROCESS_VALUE" /\ y = << >> /\ e.el = << >>
  <2>1. HeaderInv(e) BY <1>3, <1>5, <1>8, <1>9, <1>12 DEF HeaderInv
  <2> QED BY <1>3, <1>8, <1>11, <1>12, <2>1
<1>13. SubSeq(job.octets, 1, pos') = Taken \o y BY <1>1, <1>3 DEF o
<1>14. CASE TooMuch(e) /\ streams' = WithTop([e EXCEPT !.el = << >>]) /\ Fails
  <2> DEFINE u == [e EXCEPT !.el = << >>]
  <2>1. u \in Stream /\ u.cur_header = e.cur_header
    <3>1. e \in Stream /\ << >> \in Seq(Octets) BY <1>5
    <3> QED BY <3>1 DEF Stream
  <2>2. len' = len /\ streams' = WithTop(u) BY <1>14 DEF Fails
  <2> HIDE DEF u
  <2> QED BY <1>7, <1>8, <1>14, <2>1, <2>2
<1>15. CASE /\ streams' = WithTop(Add(e, << >>)) /\ pc' = "loop"
            /\ UNCHANGED << job, at, len, given, status >>
  <2> DEFINE t == (e.total \o e.el) \o << >>
             u == Refill(e, t)
  <2>1. Add(e, << >>) = u /\ t \in Seq(Octets) /\ u.total \o u.el = t
    <3>1. << >> \in Seq(Octets) OBVIOUS
    <3> QED BY <1>5, <3>1, AddFacts
  <2>2. t = e.total \o e.el
    <3>1. e.total \o e.el \in Seq(Octets) BY <1>5, HeldTypes, Concatenations
    <3> QED BY <3>1, Concatenations
  <2> HIDE DEF t
  <2>3. /\ u.kind = e.kind /\ u.state = e.state /\ u.cur_header = e.cur_header
        /\ u.el = << >> /\ Pending(u) = Pending(e) /\ (HeaderInv(e) => HeaderInv(u))
    BY <1>5, <1>9, <2>1, RefillFacts
  <2>4. u \in Stream
    <3>1. e \in Stream /\ << >> \in Seq(Octets) /\ t \in Seq(Octets) BY <1>5, <2>1
    <3> QED BY <3>1 DEF Refill, Stream
  <2> HIDE DEF u
  <2>5. FitsHeader(s.cur_header) BY <1>7, <1>15, <2>1, <2>3, <2>4
  <2>6. streams' = [streams EXCEPT ![at] = u] BY <1>15, <2>1 DEF WithTop
  <2>7. u.total \o u.el = (Top.total \o Top.el) \o e.el BY <1>10, <2>1, <2>2
  <2> QED
    BY <1>1, <1>3, <1>4, <1>9, <1>12, <1>13, <1>15, <2>3, <2>4, <2>5, <2>6, <2>7, TurnDelivers
<1>16. CASE /\ ~Full(e) /\ streams' = WithTop(e) /\ pc' = "value"
            /\ UNCHANGED << job, at, len, given, status >>
  <2>1. FitsHeader(s.cur_header) BY <1>5, <1>7, <1>16
  <2>2. streams' = [streams EXCEPT ![at] = e] BY <1>16 DEF WithTop
  <2>3. e.state = "PROCESS_VALUE" BY <1>8, <1>16, <2>1
  <2> QED
    BY <1>1, <1>3, <1>4, <1>5, <1>9, <1>10, <1>12, <1>13, <1>16, <2>1, <2>2, <2>3, TurnDelivers
<1> QED BY <1>2, <1>6, <1>14, <1>15, <1>16

LEMMA ReadValueDelivers ==
  ASSUME IInv, DeliverInv, HandsOutOctets(job), ReadValue
  PROVE  DeliverInv'
<1> DEFINE m == Len(streams)
           hd == Top.cur_header
           value == krypt_asn1_get_value_stream(hd.infinite, hd.length)
           open == IF m = at THEN Append(streams, value) ELSE streams
<1>1. at > 0 /\ pc = "value" /\ Top.kind = "chunked" BY DEF ReadValue, Chunked
<1>2. /\ StackOK(streams) /\ m \in Nat /\ m > 0 /\ at \in 1..m /\ at \in Nat /\ Top \in Stream
      /\ \A i \in 1..m : HeaderInv(streams[i]) /\ streams[i] \in Stream
      /\ status = "open" BY <1>1, DeliverParts, ReadingParts
<1>3. Top.state = "PROCESS_VALUE" BY <1>1 DEF DeliverInv, CallInv, Top
<1>4. \A i \in 1..m : i < m => streams[i].state = "PROCESS_VALUE" BY DEF DeliverInv, CallInv
<1>5. /\ job' = job /\ pos' = pos /\ at' = at + 1 /\ pc' = "enter" /\ status' = status
      /\ given' = given BY DEF ReadValue
<1>6. streams' = [open EXCEPT ![at + 1] = Refill(open[at + 1], << >>)]
  BY DEF ReadValue, Called, Refill
<1>7. << >> \in Seq(Octets) /\ hd.infinite \in BOOLEAN /\ hd.length \in Nat
  BY <1>2 DEF Stream, Header
<1>8. ASSUME Len(streams') \in Nat, Len(streams') >= m, Len(streams') > at,
             \A i \in 1..Len(streams') : HeaderInv(streams'[i]),
             \A i \in 1..Len(streams') : i < Len(streams') => streams'[i].state = "PROCESS_VALUE",
             streams'[at + 1].total = << >>, streams'[at + 1].el = << >>,
             \A i \in 1..at : streams'[i] = streams[i],
             Pending(streams'[Len(streams')]) = Pending(streams[Len(streams)])
      PROVE  DeliverInv'
  <2>1. CallInv(streams', at', pc') BY <1>5, <1>8 DEF CallInv
  <2>2. EndingInv(streams', at', pc', pos', status')
    <3>1. streams'[1] = streams[1]
      <4>1. 1 \in 1..at BY <1>2
      <4> QED BY <1>8, <4>1
    <3> QED BY <1>2, <1>5, <3>1 DEF DeliverInv, EndingInv
  <2>3. Handed(streams', at + 1, given, Taken)
    <3>1. Handed(streams, at, given, Taken) BY DEF DeliverInv
    <3>2. at \in Nat BY <1>2
    <3> QED BY ONLY <1>8, <3>1, <3>2, HandedOnCall
  <2> QED BY <1>5, <2>1, <2>2, <2>3, DeliverAfter DEF Taken
<1>9. CASE m # at
  <2> DEFINE r == Refill(streams[at + 1], << >>)
  <2>1. at + 1 \in 1..m /\ at < m BY <1>2, <1>9
  <2>2. streams' = [streams EXCEPT ![at + 1] = Refill(streams[at + 1], << >>)] BY <1>6, <1>9
  <2>3. Len(streams') = m /\ \A i \in 1..m : streams'[i] = IF i = at + 1 THEN r ELSE streams[i]
    BY <1>2, <1>7, <2>1, <2>2, RefillStack
  <2>4. /\ r.state = streams[at + 1].state /\ r.total = << >> /\ r.el = << >>
        /\ Pending(r) = Pending(streams[at + 1]) /\ HeaderInv(r) BY <1>2, <1>7, <2>1, RefillFacts
  <2> HIDE DEF r
  <2>5. streams'[at + 1] = r BY <2>1, <2>3
  <2>6. \A i \in 1..m : i < m => streams'[i].state = "PROCESS_VALUE" BY <1>4, <2>3, <2>4
  <2>7. Pending(streams'[m]) = Pending(streams[m])
    <3>1. m \in 1..m BY <1>2
    <3> QED BY <2>3, <2>4, <3>1
  <2>8. \A i \in 1..m : HeaderInv(streams'[i]) BY <1>2, <2>3, <2>4
  <2>9. \A i \in 1..at : streams'[i] = streams[i]
    <3>1. \A i \in 1..at : i \in 1..m /\ i # at + 1 BY <1>2
    <3> QED BY <2>3, <3>1
  <2> QED BY <1>2, <1>8, <2>1, <2>3, <2>4, <2>5, <2>6, <2>7, <2>8, <2>9
<1>10. CASE m = at
  <2> DEFINE r == Refill(value, << >>)
  <2>1. open = Append(streams, value) BY <1>10
  <2>2. /\ value \in Stream /\ StreamInv(value)
        /\ value.kind = "chunked" <=> hd.infinite
        /\ ~hd.infinite => value.max_read = hd.length BY <1>7, StreamTyped
  <2>3. value.header_offset = 0 /\ value.state = "NEW_HEADER"
    BY DEF krypt_asn1_get_value_stream, krypt_instream_new_chunked, krypt_instream_new_definite,
      Closed
  <2>4. ValueOf(value, streams[m]) BY <1>1, <1>3, <1>10, <2>2 DEF ValueOf, Top
  <2> HIDE DEF value, open
  <2>5. /\ StackOK(open) /\ Len(open) = m + 1 /\ open[m + 1] = value
        /\ \A i \in 1..m : open[i] = streams[i] BY <1>2, <2>1, <2>2, <2>4, PushStack
  <2>6. m + 1 \in 1..Len(open) BY <1>2, <2>5
  <2>7. /\ Len(streams') = m + 1
        /\ \A i \in 1..(m + 1) : streams'[i] = IF i = m + 1 THEN r ELSE open[i]
    BY <1>6, <1>7, <1>10, <2>5, <2>6, RefillStack
  <2>8. streams'[m + 1] = r /\ \A i \in 1..m : streams'[i] = streams[i] BY <1>2, <2>5, <2>7
  <2>9. /\ r.state = "NEW_HEADER" /\ r.header_offset = 0 /\ r.total = << >> /\ r.el = << >>
    BY <1>7, <2>2, <2>3, RefillFacts
  <2> HIDE DEF r
  <2>10. HeaderInv(r) /\ Pending(r) = << >> BY <2>9 DEF HeaderInv, Pending
  <2>11. Pending(streams[m]) = << >> BY <1>3, <1>10 DEF Pending, Top
  <2>12. \A i \in 1..(m + 1) : HeaderInv(streams'[i])
    <3>1. \A i \in 1..(m + 1) : i \in 1..m \/ i = m + 1 BY <1>2
    <3> QED BY <1>2, <2>8, <2>10, <3>1
  <2>13. \A i \in 1..(m + 1) : i < m + 1 => streams'[i].state = "PROCESS_VALUE"
    <3>1. \A i \in 1..(m + 1) : i < m + 1 => (i \in 1..m /\ i < m) \/ i = m BY <1>2
    <3>2. m \in 1..m /\ streams[m].state = "PROCESS_VALUE" BY <1>2, <1>3, <1>10 DEF Top
    <3> QED BY <1>4, <2>8, <3>1, <3>2
  <2> QED BY <1>2, <1>8, <1>10, <2>7, <2>8, <2>9, <2>10, <2>11, <2>12, <2>13
<1> QED BY <1>9, <1>10

LEMMA InitDelivers == Init => DeliverInv
<1> SUFFICES ASSUME Init PROVE DeliverInv OBVIOUS
<1> DEFINE s == krypt_asn1_get_value_stream(job.infinite, job.length)
<1>1. /\ job \in Jobs /\ pos = 0 /\ streams = << s >> /\ at = 0 /\ given = << >> /\ status = "open"
  BY DEF Init
<1>2. /\ s.header_offset = 0 /\ s.state = "NEW_HEADER" /\ s.total = << >> /\ s.el = << >>
  BY DEF krypt_asn1_get_value_stream, krypt_instream_new_chunked, krypt_instream_new_definite,
    Closed
<1>3. s.kind = "chunked" <=> job.infinite BY <1>1, JobTypes, StreamTyped
<1> HIDE DEF s
<1>4. Len(streams) = 1 /\ streams[1] = s /\ \A i \in 1..Len(streams) : i = 1 BY <1>1
<1>5. HeaderInv(s) /\ Pending(s) = << >> BY <1>2 DEF HeaderInv, Pending
<1>6. CallInv(streams, at, pc) BY <1>1, <1>4, <1>5 DEF CallInv
<1>7. EndingInv(streams, at, pc, pos, status) BY <1>1, <1>3, <1>4 DEF EndingInv
<1>8. Taken = << >>
  <2>1. job.octets \in Seq(Octets) BY <1>1, JobTypes
  <2> QED BY <1>1, <2>1 DEF Taken
<1>9. Handed(streams, at, given, Taken)
  <2> DEFINE k == [i \in 0..0 |-> << >>]
  <2>1. k \in [0..0 -> Seq(Octets)] /\ k[0] = << >> /\ << >> \o << >> = << >> BY Concatenations
  <2>2. \A i \in 1..0 : FALSE OBVIOUS
  <2> HIDE DEF k
  <2>3. k[at] \o Pending(streams[Len(streams)]) = << >> BY <1>1, <1>4, <1>5, <2>1
  <2> QED BY <1>1, <1>8, <2>1, <2>2, <2>3 DEF Handed
<1> QED BY <1>6, <1>7, <1>9 DEF DeliverInv

LEMMA NextDelivers ==
  IInv /\ DeliverInv /\ ReadsFit /\ ReadsFit' /\ [Next]_vars => DeliverInv'
<1> SUFFICES ASSUME IInv, DeliverInv, ReadsFit, ReadsFit', [Next]_vars
             PROVE  DeliverInv'
  OBVIOUS
<1>1. HandsOutOctets(job) BY DEF ReadsFit
<1>2. CASE UNCHANGED vars BY <1>2, Zenon DEF vars, DeliverInv, CallInv, EndingInv, Handed, Taken
<1>3. CASE DefiniteEnd
  <2>1. at > 0 /\ ReturnsEof /\ pos' = pos /\ Top.kind = "definite" /\ Ended(Top)
    BY <1>3 DEF DefiniteEnd, Definite, Ended
  <2> QED BY <1>1, <2>1, ReturnsEofDelivers
<1>4. CASE DefiniteFails BY <1>1, <1>4, DefiniteFailsDelivers
<1>5. CASE \E r \in 1..Len(job.octets) : DefiniteRead(r) BY <1>1, <1>5, DefiniteReadDelivers
<1>6. CASE ChunkedEnd
  <2>1. at > 0 /\ ReturnsEof /\ pos' = pos /\ pc = "enter" /\ Ended(Top)
    BY <1>6 DEF ChunkedEnd, Chunked, Ended
  <2> QED BY <1>1, <2>1, ReturnsEofDelivers
<1>7. CASE ChunkedReturns BY <1>1, <1>7, ChunkedReturnsDelivers
<1>8. CASE Element BY <1>8, ElementDelivers
<1>9. CASE ReadValue BY <1>1, <1>9, ReadValueDelivers
<1>10. CASE \E n \in job.sizes : Read(n) BY <1>1, <1>10, ReadDelivers
<1> QED BY <1>2, <1>3, <1>4, <1>5, <1>6, <1>7, <1>8, <1>9, <1>10 DEF Next, Step

LEMMA TakenIsContent ==
  ASSUME NEW j \in Jobs, HandsOutOctets(j), NEW p \in 0..Len(j.octets), p <= j.end,
         NEW g \in Seq(Octets), NEW w \in Seq(Octets), g \o w = SubSeq(j.octets, 1, p)
  PROVE  IsPrefix(g, j.content) /\ (w = << >> /\ p = j.end => g = j.content)
<1> DEFINE o == j.octets
           c == j.content
           l == Len(g)
           t == SubSeq(o, 1, p)
           b == SubSeq(c, 1, l)
<1>1. /\ o \in Seq(Octets) /\ c \in Seq(Octets) /\ j.end \in Nat /\ Len(o) \in Nat /\ p \in Nat
      /\ l \in Nat /\ Len(w) \in Nat BY JobsAssumption
<1>2. Len(c) = j.end /\ \A i \in 1..p : c[i] = o[i]
  <2>1. \A i \in 1..p : i \in DOMAIN o /\ i <= j.end BY <1>1
  <2> QED BY <2>1 DEF HandsOutOctets
<1>3. Len(t) = p /\ \A i \in 1..p : t[i] = o[i] BY <1>1
<1> HIDE DEF t
<1>4. t = g \o w BY DEF t
<1> HIDE DEF o, c
<1>5. Len(t) = l + Len(w) /\ \A i \in 1..l : t[i] = g[i]
  <2>1. /\ Len(g \o w) = l + Len(w)
        /\ \A i \in 1..(l + Len(w)) : (g \o w)[i] = IF i <= l THEN g[i] ELSE w[i - l]
    BY ConcatProperties
  <2> QED BY <1>1, <1>4, <2>1
<1>6. l <= p /\ l <= Len(c) BY <1>1, <1>2, <1>3, <1>5
<1>7. Len(b) = l /\ b \in Seq(Octets) /\ \A i \in 1..l : b[i] = c[i] BY <1>1, <1>6
<1>8. \A i \in 1..l : c[i] = g[i]
  <2>1. \A i \in 1..l : i \in 1..p BY <1>1, <1>6
  <2> QED BY <1>2, <1>3, <1>5, <2>1
<1>9. b = g
  <2> HIDE DEF b
  <2> QED BY <1>7, <1>8, SeqEqual
<1>10. SubSeq(g, 1, Len(g)) = g OBVIOUS
<1>11. IsPrefix(g, c) BY <1>6, <1>9, <1>10, Zenon DEF IsPrefix
<1>12. ASSUME w = << >>, p = j.end
       PROVE  g = c
  <2>1. Len(w) = 0 BY <1>12
  <2>2. Len(c) = Len(t) BY <1>2, <1>3, <1>12
  <2>3. Len(t) = l
    <3> HIDE DEF l
    <3> QED BY <1>1, <1>5, <2>1
  <2> QED BY <1>1, <1>8, <2>2, <2>3, SeqEqual
<1> QED BY <1>11, <1>12 DEF c

LEMMA PrefixOf ==
  ASSUME NEW g \in Seq(Octets), NEW x \in Seq(Octets)
  PROVE  IsPrefix(g, g \o x)
<1> DEFINE t == g \o x
           b == SubSeq(t, 1, Len(g))
<1>1. /\ t \in Seq(Octets) /\ Len(t) = Len(g) + Len(x)
      /\ \A i \in 1..Len(g) : t[i] = g[i] OBVIOUS
<1> HIDE DEF t
<1>2. Len(g) \in Nat /\ Len(g) <= Len(t) BY <1>1
<1>3. b \in Seq(Octets) /\ Len(b) = Len(g) /\ \A i \in 1..Len(g) : b[i] = t[i] BY <1>1, <1>2
<1>4. b = g
  <2> HIDE DEF b
  <2> QED BY <1>1, <1>3, SeqEqual
<1>5. SubSeq(g, 1, Len(g)) = g OBVIOUS
<1> QED BY <1>2, <1>4, <1>5, Zenon DEF IsPrefix, t

\* Every step gives the program more of the value, announces its end, fails,
\* or is not seen.
LEMMA NextGives ==
  ASSUME IInv, IInv', DeliverInv, DeliverInv', ReadsFit, PositionInsideValue,
         PositionInsideValue', [Next]_vars
  PROVE  [Source!SourceNext]_(Source!sourceVars)
<1> DEFINE Goal == [Source!SourceNext]_(Source!sourceVars)
<1>1. /\ HandsOutOctets(job) /\ job \in Jobs /\ given \in Seq(Octets) /\ pos \in 0..Len(job.octets)
      /\ given' \in Seq(Octets) /\ pos' \in 0..Len(job'.octets) /\ streams' \in Seq(Stream)
      /\ streams' # << >> BY DEF ReadsFit, IInv, FitInv, TypeOK
<1>2. \A s, t : Source!IsPrefix(s, t) <=> IsPrefix(s, t) BY Zenon DEF Source!IsPrefix, IsPrefix
<1>3. UNCHANGED << job, given, status >> => Goal BY Zenon DEF Source!sourceVars
<1>4. ASSUME job' = job, at' = 0
      PROVE  /\ IsPrefix(given', job.content)
             /\ Pending(streams'[Len(streams')]) = << >> /\ pos' = job.end => given' = job.content
  <2> DEFINE w == Pending(streams'[Len(streams')])
  <2>1. PICK h \in [0..0 -> Seq(Octets)] : h[0] = given' /\ h[0] \o w = SubSeq(job.octets, 1, pos')
    BY <1>4 DEF DeliverInv, Handed, Taken
  <2>2. w \in Seq(Octets)
    <3>1. streams'[Len(streams')] \in Stream BY <1>1
    <3> QED BY <3>1, HeldTypes
  <2> HIDE DEF w
  <2>3. given' \o w = SubSeq(job.octets, 1, pos') BY <2>1
  <2>4. pos' <= job.end BY <1>4 DEF PositionInsideValue
  <2>5. pos' \in 0..Len(job.octets) BY <1>1, <1>4
  <2>6. IsPrefix(given', job.content) /\ (w = << >> /\ pos' = job.end => given' = job.content)
    BY ONLY <1>1, <2>2, <2>3, <2>4, <2>5, TakenIsContent
  <2> QED BY <2>6 DEF w
<1>5. ASSUME NEW below, NEW x \in Seq(Octets), Returns(below, x), status = "open"
      PROVE  Goal
  <2>1. CASE at = 1
    <3>1. given' = given \o x /\ status' = "open" /\ job' = job /\ at' = 0
      BY <1>5, <2>1 DEF Returns
    <3>2. IsPrefix(given, given') BY <1>1, <3>1, PrefixOf
    <3>3. IsPrefix(given', job.content) BY <1>4, <3>1
    <3> QED BY <1>2, <1>5, <3>1, <3>2, <3>3, Zenon DEF Source!SourceNext, Source!Give
  <2>2. CASE at # 1 BY <1>3, <1>5, <2>2 DEF Returns
  <2> QED BY <2>1, <2>2
<1>6. ASSUME at > 0, ReturnsEof, pos' = pos, Ended(Top), Top.kind = "chunked" => pc = "enter"
      PROVE  Goal
  <2>1. CASE at = 1
    <3>1. streams' = streams /\ status' = "end" /\ job' = job /\ given' = given /\ at' = 0
      BY <1>6, <2>1 DEF ReturnsEof
    <3>2. at = Len(streams) /\ Pending(Top) = << >> BY <1>1, <1>6, ReturnsEofDelivers
    <3>3. status = "open" \/ status = "end"
      <4>1. Ended(Top) BY <1>6
      <4>2. status \in {"open", "end", "failed", "crashed"} BY DEF IInv, FitInv, TypeOK
      <4>3. status # "crashed" /\ (status = "failed" => ~Ended(streams[1]))
        BY DEF DeliverInv, EndingInv
      <4> QED BY <2>1, <4>1, <4>2, <4>3 DEF Top
    <3>4. CASE status = "end" BY <1>3, <3>1, <3>4
    <3>5. CASE status = "open"
      <4>1. pos' = job.end BY <3>1 DEF PositionInsideValue
      <4>2. ~job.cut
        <5>1. job.cut => Len(job.octets) < job.end BY <1>1, JobReach
        <5>2. job.end <= Len(job.octets) /\ Len(job.octets) \in Nat /\ job.end \in Nat
          BY <1>1, <1>6, <4>1, JobTypes
        <5> QED BY <5>1, <5>2
      <4>3. Pending(streams'[Len(streams')]) = << >> BY <3>1, <3>2 DEF Top
      <4>4. given = job.content BY <1>4, <3>1, <4>1, <4>3
      <4> QED BY <3>1, <3>5, <4>2, <4>4, Zenon DEF Source!SourceNext, Source!AnnounceEnd
    <3> QED BY <3>3, <3>4, <3>5
  <2>2. CASE at # 1 BY <1>3, <1>6, <2>2 DEF ReturnsEof
  <2> QED BY <2>1, <2>2
<1>7. CASE UNCHANGED vars BY <1>3, <1>7 DEF vars
<1>8. CASE DefiniteEnd
  <2>1. at > 0 /\ ReturnsEof /\ pos' = pos /\ Top.kind = "definite" /\ Ended(Top)
    BY <1>8 DEF DefiniteEnd, Definite, Ended
  <2> QED BY <1>6, <2>1
<1>9. CASE DefiniteFails
  <2>1. job.cut /\ given' = given /\ status' = "failed" /\ job' = job
    BY <1>1, <1>9, DefiniteFailsDelivers
  <2>2. at > 0 /\ Top.kind = "definite" /\ ~Ended(Top) BY <1>9 DEF DefiniteFails, Definite, Ended
  <2>3. status = "open" \/ status = "failed"
    <3>1. status \in {"open", "end", "failed", "crashed"} BY DEF IInv, FitInv, TypeOK
    <3>2. status # "crashed" BY DEF DeliverInv, EndingInv
    <3>3. status = "end" => at = 1 /\ Ended(streams[1]) BY <2>2 DEF DeliverInv, EndingInv
    <3> QED BY <2>2, <3>1, <3>2, <3>3 DEF Top
  <2>4. CASE status = "failed" BY <1>3, <2>1, <2>4
  <2>5. CASE status = "open" BY <2>1, <2>5, Zenon DEF Source!SourceNext, Source!Fail
  <2> QED BY <2>3, <2>4, <2>5
<1>10. CASE \E r \in 1..Len(job.octets) : DefiniteRead(r)
  <2>1. PICK r \in 1..Len(job.octets) : DefiniteRead(r) BY <1>10
  <2>2. status = "open" BY <1>1, <2>1, DefiniteReadDelivers
  <2> DEFINE x == SubSeq(job.octets, pos + 1, pos + r)
             below == WithTop([Top EXCEPT !.num_read = @ + r])
  <2>3. x \in Seq(Octets)
    <3>1. job.octets \in Seq(Octets) /\ pos \in Nat /\ r \in Nat BY <1>1, JobTypes
    <3>2. pos + r <= Len(job.octets) BY <2>1 DEF DefiniteRead
    <3> QED BY <3>1, <3>2, TakenAfter
  <2>4. Returns(below, x) BY <2>1, Zenon DEF DefiniteRead
  <2> HIDE DEF x, below
  <2> QED BY <1>5, <2>2, <2>3, <2>4
<1>11. CASE ChunkedEnd
  <2>1. at > 0 /\ ReturnsEof /\ pos' = pos /\ pc = "enter" /\ Ended(Top)
    BY <1>11 DEF ChunkedEnd, Chunked, Ended
  <2> QED BY <1>6, <2>1
<1>12. CASE ChunkedReturns
  <2>1. at > 0 /\ Returns(streams, Top.total) BY <1>12 DEF ChunkedReturns, Chunked
  <2>2. status = "open" BY <1>1, <1>12, ChunkedReturnsDelivers
  <2>3. Top.total \in Seq(Octets)
    <3>1. Top \in Stream BY <1>1, <2>1, ReadingParts
    <3> QED BY <3>1, HeldTypes
  <2> QED BY <1>5, <2>1, <2>2, <2>3
<1>13. CASE Element
  <2>1. at > 0 /\ Top.kind = "chunked" BY <1>13 DEF Element, Chunked
  <2>2. ~job.cut BY <1>1, <2>1, ReadingParts
  <2>3. \/ status' = "crashed" /\ job' = job
        \/ Fails
        \/ UNCHANGED << job, given, status >> BY <1>13, Zenon DEF Element
  <2>4. status' # "crashed" /\ (status' = "failed" => job'.cut) BY DEF DeliverInv, EndingInv
  <2>5. UNCHANGED << job, given, status >> BY <2>2, <2>3, <2>4 DEF Fails
  <2> QED BY <1>3, <2>5
<1>14. CASE ReadValue BY <1>3, <1>14 DEF ReadValue
<1>15. CASE \E n \in job.sizes : Read(n) BY <1>3, <1>15 DEF Read
<1> QED BY <1>7, <1>8, <1>9, <1>10, <1>11, <1>12, <1>13, <1>14, <1>15 DEF Next, Step

\* Whatever is nested in the value, wherever the inner stream returns less than
\* it was asked for, and whatever the sizes of the reads: what a program is
\* given, one read after the other, is the value, in order and without gaps,
\* with the headers and the end-of-contents octets of an indefinite length; the
\* end is announced after all of it, and a read fails only on a value that is
\* cut (int_definite_read, int_chunked_read, int_read_header_bytes).  It holds
\* as long as the headers fit the reads, the octets of an indefinite length do
\* not end early and 00 00 is all that ends it: beyond that the code breaks it.
THEOREM OctetsAreDelivered == Spec /\ []ReadsFit => ReadsDeliverTheValue
<1>1. Init => Source!SourceInit BY DEF Init, Source!SourceInit
<1>2. IInv /\ IInv' /\ DeliverInv /\ DeliverInv' /\ ReadsFit /\ PositionInsideValue
        /\ PositionInsideValue' /\ [Next]_vars => [Source!SourceNext]_(Source!sourceVars)
  BY NextGives
<1> QED BY <1>1, <1>2, InitDelivers, NextDelivers, StreamInvariant, PositionsInsideValues, PTL
  DEF Spec, ReadsDeliverTheValue, Source!SourceSpec

=============================================================================
