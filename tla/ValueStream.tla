----------------------------- MODULE ValueStream -----------------------------
(***************************************************************************)
(* Reading a value as a stream (Header#value_io, and krypt_asn1_get_value  *)
(* for an indefinite length): krypt_asn1_get_value_stream gives a definite *)
(* stream, which hands out a number of octets of the stream below, or a    *)
(* chunked stream, which parses one header after the other, hands out the  *)
(* header octets unless values_only, and reads each element through a      *)
(* value stream of its own.  All of them read from one inner stream and    *)
(* share its position.                                                     *)
(*                                                                         *)
(* The streams that exist form a stack: streams[i + 1] is the              *)
(* cur_value_stream of the chunked stream streams[i].  One call of read    *)
(* runs through int_read and int_read_single_element of every stream of    *)
(* the stack; one step here is one turn of the loop of int_read, up to or  *)
(* from the read of the value.                                             *)
(***************************************************************************)
EXTENDS HeaderOctets

CONSTANT
  Jobs       \* the streams a program opens, with what it reads from them

\* octets is what the inner stream holds from the first octet of the value
\* on, infinite and length are from the header already parsed, sizes are the
\* amounts asked for.  content is what the value consists of, end the number
\* of octets it takes up, cut that they are not all there.  They are for the
\* properties only.
Job == [ octets : Seq(Octets), infinite : BOOLEAN, length : Nat, values_only : BOOLEAN,
         sizes : SUBSET (Nat \ {0}),
         content : Seq(Octets), end : Nat, cut : BOOLEAN ]

Reach(outcome, end) == [outcome |-> outcome, end |-> end]

\* Where a value of indefinite length ends that begins at position p: behind
\* its end-of-contents octets ("whole"), or not before the octets end ("cut").
\* A header that is none is "malformed", and so is one that int_check_done
\* takes for end-of-contents and that is not 00 00 (X.690 knows none such).
Extent(octets) ==
  LET ends[p \in 0..Len(octets)] ==
        LET h == next_header(octets, p)
            q == p + h.used
            e == q + h.header.length
        IN  IF ~h.ok THEN Reach(IF q = Len(octets) THEN "cut" ELSE "malformed", q)
            ELSE IF IsEndOfContents(h.header)
                 THEN Reach(IF h.header = TwoZeros THEN "whole" ELSE "malformed", q)
            ELSE IF h.header.infinite
                 THEN IF ends[q].outcome = "whole" THEN ends[ends[q].end] ELSE ends[q]
            ELSE IF e > Len(octets) THEN Reach("cut", Len(octets))
            ELSE ends[e]
  IN  ends

ValueReach(octets, infinite, length, p) ==
  IF infinite THEN Extent(octets)[p]
  ELSE IF p + length <= Len(octets) THEN Reach("whole", p + length)
  ELSE Reach("cut", Len(octets))

WholeReach(j) ==
  IF j.cut THEN Reach("cut", Len(j.octets)) ELSE Reach("whole", j.end)

\* The inner stream has one value, whole or cut, and what follows the value.
\* Tag numbers from 31 on take more than one identifier octet: not modelled.
ASSUME JobsAssumption ==
  \A j \in Jobs :
    /\ j.octets \in Seq(Octets) /\ j.content \in Seq(Octets)
    /\ j.infinite \in BOOLEAN /\ j.values_only \in BOOLEAN /\ j.cut \in BOOLEAN
    /\ j.length \in Nat /\ j.end \in Nat
    /\ j.sizes \subseteq Nat \ {0}
    /\ \A i \in DOMAIN j.octets : j.octets[i] % 32 # 31
    /\ ValueReach(j.octets, j.infinite, j.length, 0) = WholeReach(j)
    /\ j.cut => Len(j.octets) < j.end

VARIABLES
  job,       \* the stream the program reads from
  pos,       \* how many octets the inner stream has handed out
  streams,   \* the stack of streams
  at,        \* the stream whose read is executing, 0 when no call is under way
  pc,        \* "loop": at the test of int_read; "value": before int_read_value
  len,       \* the amount the program asked for: every stream is asked for it
  given,     \* what the program was handed
  status     \* "open", "end", "failed" (the last read) or "crashed"

vars == << job, pos, streams, at, pc, len, given, status >>

-----------------------------------------------------------------------------
(* Streams.  total and el hold the octets counted by the variables of that *)
(* name in int_read and int_read_single_element.                           *)

State == {"NEW_HEADER", "PROCESS_TAG", "PROCESS_LENGTH", "PROCESS_VALUE", "DONE"}

Stream ==
  [ kind : {"definite", "chunked"},
    max_read : Nat, num_read : Nat,
    state : State, cur_header : Header, header_offset : Nat,
    total : Seq(Octets), el : Seq(Octets) ]

Closed == [ kind |-> "definite", max_read |-> 0, num_read |-> 0,
            state |-> "NEW_HEADER", cur_header |-> NoHeader, header_offset |-> 0,
            total |-> <<>>, el |-> <<>> ]

krypt_instream_new_definite(n) == [Closed EXCEPT !.max_read = n]
krypt_instream_new_chunked     == [Closed EXCEPT !.kind = "chunked"]

krypt_asn1_get_value_stream(infinite, n) ==
  IF infinite THEN krypt_instream_new_chunked ELSE krypt_instream_new_definite(n)

Top == streams[at]

WithTop(s) == [streams EXCEPT ![at] = s]

Called(s) == [s EXCEPT !.total = <<>>, !.el = <<>>]

-----------------------------------------------------------------------------
(* int_read_single_element, up to the value.                               *)

\* int_read_new_header: an error is returned as BINYO_ERR, which is not 0,
\* and its caller tests for 0: it goes on with the header it had.
NewHeader(s, h) ==
  IF s.state = "NEW_HEADER" /\ h.ok
  THEN [s EXCEPT !.cur_header = h.header, !.state = "PROCESS_TAG", !.header_offset = 0]
  ELSE s

\* Copies from the beginning of bytes, whatever the offset.
int_read_header_bytes(s, bytes, next_state) ==
  LET available == Len(bytes) - s.header_offset
      to_read   == IF len < available THEN len ELSE available
      piece     == IF job.values_only THEN <<>> ELSE SubSeq(bytes, 1, to_read)
  IN  IF len < available
      THEN [s EXCEPT !.el = @ \o piece, !.header_offset = @ + len]
      ELSE [s EXCEPT !.el = @ \o piece, !.header_offset = 0, !.state = next_state]

int_check_done_Never(s) == s                                           \* mutant

int_check_done(s) ==
  IF IsEndOfContents(s.cur_header) /\ s.state = "PROCESS_VALUE"
  THEN [s EXCEPT !.state = "DONE"] ELSE s

ReadTag(s) ==
  IF s.state \in {"NEW_HEADER", "PROCESS_TAG"}
  THEN int_read_header_bytes(s, s.cur_header.tag_bytes, "PROCESS_LENGTH") ELSE s

ReadLength(s) ==
  IF s.state # "PROCESS_VALUE"
  THEN int_check_done(int_read_header_bytes(s, s.cur_header.length_bytes, "PROCESS_VALUE"))
  ELSE s

\* add_header_bytes
Full(s)    == ~job.values_only /\ (Len(s.el) = len \/ s.state = "DONE")
TooMuch(s) == ~job.values_only /\ Len(s.el) > len /\ s.state # "DONE"

AfterHeader(s) ==
  LET t == ReadTag(s) IN IF Full(t) \/ TooMuch(t) THEN t ELSE ReadLength(t)

\* Without a header NULL is dereferenced; an offset left from the last header
\* makes available wrap.  The model stops there.
Undefined(s) ==
  \/ s.cur_header = NoHeader
  \/ s.state = "NEW_HEADER" /\ s.header_offset > Len(s.cur_header.tag_bytes)

-----------------------------------------------------------------------------
(* What a read leaves behind when it returns.                              *)

Fails ==
  /\ at' = 0
  /\ pc' = "enter"
  /\ status' = "failed"
  /\ UNCHANGED << job, len, given >>

\* int_read_single_element returns to int_read.
Add(s, octets) == [s EXCEPT !.total = @ \o s.el \o octets, !.el = <<>>]

\* Stream number at returns octets, which the program or the stream above gets.
Returns(below, octets) ==
  /\ IF at = 1
     THEN /\ streams' = below
          /\ given' = given \o octets
          /\ status' = "open"
     ELSE /\ streams' = [below EXCEPT ![at - 1] = Add(@, octets)]
          /\ UNCHANGED << given, status >>
  /\ at' = at - 1
  /\ pc' = IF at = 1 THEN "enter" ELSE "loop"
  /\ UNCHANGED << job, len >>

\* int_read_value: the stream above frees the value stream and goes on with
\* a new header unless it is done.
AfterValue_KeepState(s) == Add(s, <<>>)                                        \* mutant

AfterValue(s) == Add([s EXCEPT !.state = IF @ = "DONE" THEN @ ELSE "NEW_HEADER"], <<>>)

Freed == SubSeq(streams, 1, at - 1)

ReturnsEof ==
  /\ IF at = 1
     THEN /\ streams' = streams
          /\ status' = "end"
     ELSE /\ streams' = [Freed EXCEPT ![at - 1] = AfterValue(@)]
          /\ UNCHANGED status
  /\ at' = at - 1
  /\ pc' = IF at = 1 THEN "enter" ELSE "loop"
  /\ UNCHANGED << job, len, given >>

-----------------------------------------------------------------------------
(* The actions.                                                            *)

Init ==
  /\ job \in Jobs
  /\ pos = 0
  /\ streams = << krypt_asn1_get_value_stream(job.infinite, job.length) >>
  /\ at = 0
  /\ pc = "enter"
  /\ len = 0
  /\ given = <<>>
  /\ status = "open"

\* The program calls Instream#read.
Read(n) ==
  /\ at = 0
  /\ status # "crashed"
  /\ streams' = [streams EXCEPT ![1] = Called(@)]
  /\ at' = 1
  /\ pc' = "enter"
  /\ len' = n
  /\ UNCHANGED << job, pos, given, status >>

\* int_definite_read
Definite == at > 0 /\ Top.kind = "definite"

DefiniteEnd ==
  /\ Definite
  /\ Top.num_read = Top.max_read
  /\ ReturnsEof
  /\ UNCHANGED pos

DefiniteFails ==
  /\ Definite
  /\ Top.num_read # Top.max_read
  /\ pos = Len(job.octets)
  /\ Fails
  /\ UNCHANGED << pos, streams >>

ToRead_NotClipped(s) == len                                                    \* mutant

ToRead(s) == IF s.max_read - s.num_read < len THEN s.max_read - s.num_read ELSE len

\* The inner stream may return less than what is asked for.
DefiniteRead(r) ==
  /\ Definite
  /\ Top.num_read # Top.max_read
  /\ r <= ToRead(Top)
  /\ pos + r <= Len(job.octets)
  /\ pos' = pos + r
  /\ Returns(WithTop([Top EXCEPT !.num_read = @ + r]), SubSeq(job.octets, pos + 1, pos + r))

\* int_chunked_read
Chunked == at > 0 /\ Top.kind = "chunked"

ChunkedEnd ==
  /\ Chunked
  /\ pc = "enter" /\ Top.state = "DONE"
  /\ ReturnsEof
  /\ UNCHANGED pos

\* The loop of int_read ends.
ChunkedReturns ==
  /\ Chunked
  /\ pc = "loop"
  /\ Top.state = "DONE" \/ Len(Top.total) = len
  /\ Returns(streams, Top.total)
  /\ UNCHANGED pos

\* One turn of the loop of int_read.
Element ==
  LET h == next_header(job.octets, pos)
      s == NewHeader(Top, h)
      e == AfterHeader(s)
  IN
  /\ Chunked
  /\ pc # "value"
  /\ Top.state # "DONE" /\ Len(Top.total) # len
  /\ pos' = IF Top.state = "NEW_HEADER" THEN pos + h.used ELSE pos
  /\ \/ /\ s.cur_header = NoHeader           \* dereferences NULL
        /\ status' = "crashed" /\ at' = 0
        /\ UNCHANGED << job, streams, pc, len, given >>
     \/ /\ ~Undefined(s) /\ TooMuch(e)
        /\ streams' = WithTop([e EXCEPT !.el = <<>>])
        /\ Fails
     \/ /\ ~Undefined(s) /\ Full(e)
        /\ streams' = WithTop(Add(e, <<>>))
        /\ pc' = "loop"
        /\ UNCHANGED << job, at, len, given, status >>
     \/ /\ ~Undefined(s) /\ ~TooMuch(e) /\ ~Full(e)
        /\ streams' = WithTop(e)
        /\ pc' = "value"
        /\ UNCHANGED << job, at, len, given, status >>

\* int_read_value, up to the read of the value stream.
ReadValue ==
  LET h     == Top.cur_header
      value == krypt_asn1_get_value_stream(h.infinite, h.length)
      open  == IF Len(streams) = at THEN Append(streams, value) ELSE streams
  IN
  /\ Chunked
  /\ pc = "value"
  /\ streams' = [open EXCEPT ![at + 1] = Called(@)]
  /\ at' = at + 1
  /\ pc' = "enter"
  /\ UNCHANGED << job, pos, len, given, status >>

Step ==
  \/ DefiniteEnd
  \/ DefiniteFails
  \/ \E r \in 1..Len(job.octets) : DefiniteRead(r)
  \/ ChunkedEnd
  \/ ChunkedReturns
  \/ Element
  \/ ReadValue

Next == Step \/ \E n \in job.sizes : Read(n)

\* A call that has begun runs on.
Spec == Init /\ [][Next]_vars /\ WF_vars(Step)

-----------------------------------------------------------------------------
(* Properties.                                                             *)

\* Every variable has its type.
TypeOK ==
  /\ job \in Jobs
  /\ pos \in 0..Len(job.octets)
  /\ streams \in Seq(Stream)
  /\ at \in 0..Len(streams)
  /\ pc \in {"enter", "loop", "value"}
  /\ len \in Nat
  /\ given \in Seq(Octets)
  /\ status \in {"open", "end", "failed", "crashed"}

\* What the reads of a program return is the value, in order and without
\* gaps: with the headers of its elements and its end-of-contents octets, or
\* the raw values alone (krypt_asn1_get_value_stream); the end is announced
\* after all of it, and a read fails, or takes the process down, only on a
\* value that is cut off.
Source == INSTANCE OrderedSource WITH
  content <- job.content, cut <- job.cut,
  status  <- IF status = "crashed" THEN "failed" ELSE status
ReadsDeliverTheValue == Source!SourceSpec

\* No stream takes octets that follow the value, and when the end is
\* announced all of the value was taken: the next header can be parsed from
\* there ("moves the cursor").
PositionInsideValue ==
  /\ pos <= job.end
  /\ status = "end" => pos = job.end

\* The value stream of a chunked stream is that of the header it parsed last,
\* and it never reads beyond the length this header tells: no header is
\* parsed before the value of the last one was read to its end.
ValueStreamFitsHeader ==
  \A i \in 2..Len(streams) :
    LET above == streams[i - 1]
        value == streams[i]
    IN  /\ above.kind = "chunked"
        /\ above.state # "NEW_HEADER"
        /\ value.kind = "chunked" <=> above.cur_header.infinite
        /\ ~above.cur_header.infinite => value.max_read = above.cur_header.length
        /\ value.num_read <= value.max_read

\* What keeps a value stream within its header is inductive: a stream that
\* goes on to the value of a header has left the state NEW_HEADER behind,
\* because the identifier octet always fits the buffer.
StreamInv(s) ==
  /\ s.num_read <= s.max_read
  /\ s.state # "PROCESS_TAG"
  /\ Len(s.cur_header.tag_bytes) <= 1

FitInv ==
  /\ TypeOK
  /\ streams # <<>>
  /\ \A i \in DOMAIN streams : StreamInv(streams[i])
  /\ ValueStreamFitsHeader
  /\ at > 0 => len > 0
  /\ pc = "value" => at > 0 /\ Top.kind = "chunked" /\ Top.state # "NEW_HEADER"

\* What keeps the position within the value is that the streams, from where
\* they are, still come to the end of it: the last one to the end of what it
\* has left, and each above it from there on to its end-of-contents octets.
GoesOn(octets, s, r) ==
  IF r.outcome = "whole" /\ s.state # "DONE" THEN Extent(octets)[r.end] ELSE r

LastReach(octets, s, p) ==
  LET h == s.cur_header
  IN  IF s.kind = "definite" THEN ValueReach(octets, FALSE, s.max_read - s.num_read, p)
      ELSE IF s.state = "NEW_HEADER" THEN Extent(octets)[p]
      ELSE IF IsEndOfContents(h) THEN Reach("whole", p)
      ELSE GoesOn(octets, s, ValueReach(octets, h.infinite, h.length, p))

Reaches(octets, ss, p) ==
  LET reach[i \in 1..Len(ss)] ==
        IF i = Len(ss) THEN LastReach(octets, ss[i], p) ELSE GoesOn(octets, ss[i], reach[i + 1])
  IN  reach

\* End-of-contents octets end the stream that parsed them: no header replaces
\* them, no value is opened behind them but one of length 0 for a stream that
\* is done, and they do not stay half read while this value is read.
EndInv(s) ==
  /\ s.state = "DONE" => IsEndOfContents(s.cur_header)
  /\ IsEndOfContents(s.cur_header) =>
       /\ s.cur_header.length_bytes = << 0 >>
       /\ ~s.cur_header.infinite /\ s.cur_header.length = 0
       /\ s.state = "DONE" \/ (s.state = "PROCESS_LENGTH" /\ s.header_offset = 0)

EndsLast(i) ==
  IF i = Len(streams) THEN streams[i].state = "DONE" \/ pc # "value" \/ at # i
                      ELSE streams[i].state = "DONE" /\ at = i + 1

PositionInv ==
  /\ \A i \in DOMAIN streams :
       /\ EndInv(streams[i])
       /\ IsEndOfContents(streams[i].cur_header) => EndsLast(i)
  /\ Reaches(job.octets, streams, pos)[1] = WholeReach(job)
  /\ status = "end" => pos = job.end

IInv == FitInv /\ PositionInv

\* Every call of read returns, as the value ends or the buffer is full.
EveryReadReturns == at # 0 ~> at = 0

-----------------------------------------------------------------------------
(* What the documentation says and the code does not do: each of these is  *)
(* violated.                                                               *)

\* What the program was handed is the beginning of the value, also when the
\* inner stream ends early: "Premature end of value detected"
\* (int_read_new_header).
HandsOutTheValue == IsPrefix(given, job.content)

\* A read returns at most as many octets as were asked for: "Please see
\* IO#read for details" (krypt_instream_adapter_read).
AtMostAsked == [][Len(given') - Len(given) <= len]_vars

=============================================================================
