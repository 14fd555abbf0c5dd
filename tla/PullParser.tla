----------------------------- MODULE PullParser -----------------------------
(***************************************************************************)
(* Pull parsing (Krypt::ASN1::Parser and Krypt::ASN1::Header): next parses *)
(* a header where the IO stands, and the header moves the IO over its      *)
(* value, by skip_value, value or an Instream from value_io.  Neither the  *)
(* parser nor a header knows where the IO stands: a header works on the IO *)
(* whatever was read from it since, and only a flag and two cached answers *)
(* keep it from consuming its value twice.                                 *)
(*                                                                         *)
(* A step is a call.  Programs here make any calls in any order; the       *)
(* variable orderly tells whether a program has kept to the order that the *)
(* documentation of Parser asks for, and what it was promised for that is  *)
(* stated for those only.  values_only changes what an Instream hands out  *)
(* and not what it consumes: that is in ValueStream.                       *)
(***************************************************************************)
EXTENDS HeaderOctets

CONSTANTS
  Inputs,       \* what the IO holds
  ReadSizes,    \* the amounts asked of an Instream
  MaxHeaders,   \* how often next gives a header
  MaxSkips      \* how often skip_value is called

\* elements is the structure the octets encode: where each header and its
\* value start, and the octets of the value.  cut: the last octets are
\* missing.  Both are for the properties only.
Element == [ at : Nat, start : Nat, header : Header, content : Seq(Octets) ]

Input == [ octets : Seq(Octets), elements : SUBSET Element, cut : BOOLEAN ]

EndOf(e) == e.start + Len(e.content)

Within(e, f) == f.start <= e.at /\ e.at < EndOf(f)

Child(e, f, elements) ==
  Within(e, f) /\ ~\E g \in elements : Within(e, g) /\ Within(g, f)

\* Where an element begins unless the octets end: at the beginning, behind an
\* element, and behind the header of a constructed one.
Due(elements) ==
  {0} \cup {EndOf(e) : e \in elements}
      \cup {e.start : e \in {f \in elements : IsConstructed(f.header)}}

\* The length in the header, or the end-of-contents octets 00 00 among the
\* elements of the value, tell how long the value is.  No element of such a
\* value is something else that int_check_done takes for end-of-contents.
FitsHeader(e, elements) ==
  IF e.header.infinite
  THEN /\ e.content # <<>>
       /\ \A f \in elements :
            Child(f, e, elements) =>
              IF IsEndOfContents(f.header) THEN f.header = TwoZeros /\ f.start = EndOf(e)
                                           ELSE EndOf(f) < EndOf(e)
  ELSE Len(e.content) = e.header.length

IsStructure(elements, octets, cut) ==
  /\ \A e \in elements :
       LET h == next_header(octets, e.at)
       IN  /\ e.at <= Len(octets)
           /\ h.ok /\ e.header = h.header /\ e.start = e.at + h.used
           /\ \A k \in DOMAIN e.content :
                e.start + k <= Len(octets) => e.content[k] = octets[e.start + k]
           /\ FitsHeader(e, elements)
           /\ EndOf(e) > Len(octets) => cut
  /\ \A e, f \in elements :
       /\ e.at = f.at => e = f
       /\ e.at < f.at => e.start <= f.at
       /\ Within(e, f) => EndOf(e) <= EndOf(f)
  /\ \A p \in Due(elements) :
       p < Len(octets) =>
         \/ \E e \in elements : e.at = p
         \/ cut /\ ~next_header(octets, p).ok

\* Tag numbers from 31 on take more than one identifier octet: not modelled.
ASSUME InputsAssumption ==
  \A i \in Inputs :
    /\ i \in Input /\ IsStructure(i.elements, i.octets, i.cut)
    /\ \A k \in DOMAIN i.octets : i.octets[k] % 32 # 31

ASSUME ReadSizesAssumption == ReadSizes \subseteq Nat \ {0}

VARIABLES
  input,     \* the IO
  pos,       \* where the IO stands
  headers,   \* the headers that next gave, with their state
  ret,       \* what the last call answered
  skips,     \* how often skip_value was called
  orderly    \* the program has kept to the documented order

vars == << input, pos, headers, ret, skips, orderly >>

-----------------------------------------------------------------------------
(* Headers as objects: krypt_asn1_parsed_header.  value is empty for nil   *)
(* and a sequence with the string otherwise.  at, start and skipped are    *)
(* history: where next found the header, and a call of skip_value.         *)

Stream == [ kind : {"none", "definite", "chunked"}, max_read : Nat, num_read : Nat,
            given : Seq(Octets), done : BOOLEAN ]

NoStream == [ kind |-> "none", max_read |-> 0, num_read |-> 0, given |-> <<>>, done |-> FALSE ]

ParsedHeader ==
  [ header : Header, consumed : BOOLEAN, value : Seq(Seq(Octets)), cached_stream : Stream,
    at : Nat, start : Nat, skipped : BOOLEAN ]

int_asn1_header_new(h, p, q) ==
  [ header |-> h, consumed |-> FALSE, value |-> <<>>, cached_stream |-> NoStream,
    at |-> p, start |-> q, skipped |-> FALSE ]

HasStream(h) == h.cached_stream.kind # "none"

\* nil is the answer for NULL and for end-of-contents, of whatever class, if
\* there are no octets.
Answer(h, octets) ==
  IF octets = <<>> /\ Tag(h.header) \in {0, 5} THEN <<>> ELSE << octets >>

-----------------------------------------------------------------------------
(* Reading a value.                                                        *)

End == Len(input.octets)

Taken(p, e) == SubSeq(input.octets, p + 1, e)

\* What reading an indefinite value takes from position p on: the elements
\* up to its end-of-contents octets ("whole"), all there is if an element is
\* cut short ("short"), or the octets up to a header that is missing or
\* cannot be parsed ("lost"): the chunked stream then goes on with the header
\* it had, or with none, and the model stops there.  It stops, too, at
\* end-of-contents with a value, which is read if values_only is set.
EndsHere(h, q) == [outcome |-> IF h.length = 0 /\ ~h.infinite THEN "whole" ELSE "lost", end |-> q]

Chunks_FirstEnd(octets) ==                                                     \* mutant
  LET chunks[p \in 0..Len(octets)] ==
        LET h == next_header(octets, p)
            q == p + h.used
            e == q + h.header.length
        IN  IF ~h.ok THEN [outcome |-> "lost", end |-> q]
            ELSE IF IsEndOfContents(h.header) THEN EndsHere(h.header, q)
            ELSE IF e > Len(octets) THEN [outcome |-> "short", end |-> Len(octets)]
            ELSE chunks[e]
  IN  chunks

Chunks(octets) ==
  LET chunks[p \in 0..Len(octets)] ==
        LET h == next_header(octets, p)
            q == p + h.used
            e == q + h.header.length
        IN  IF ~h.ok THEN [outcome |-> "lost", end |-> q]
            ELSE IF IsEndOfContents(h.header) THEN EndsHere(h.header, q)
            ELSE IF h.header.infinite
                 THEN IF chunks[q].outcome = "whole" THEN chunks[chunks[q].end] ELSE chunks[q]
            ELSE IF e > Len(octets) THEN [outcome |-> "short", end |-> Len(octets)]
            ELSE chunks[e]
  IN  chunks

\* Where a read may leave the IO, which a seek may have put behind its end.
Ahead == {pos} \cup pos..End

Outcomes == {"whole", "short", "lost"}

\* Reading the value of header h from position p on ends with this outcome at
\* position e.  Behind the end of the IO every read meets its end.
ReadsValue_NotToTheEnd(h, p, outcome, e) ==                                    \* mutant
  IF h.infinite
  THEN IF p > End THEN outcome = "lost" /\ e = p
                  ELSE Chunks(input.octets)[p] = [outcome |-> outcome, end |-> e]
  ELSE IF h.length = 0 \/ p + h.length < End
  THEN outcome = "whole" /\ e = p + h.length
  ELSE outcome = "short" /\ e = IF p > End THEN p ELSE End

ReadsValue(h, p, outcome, e) ==
  IF h.infinite
  THEN IF p > End THEN outcome = "lost" /\ e = p
                  ELSE Chunks(input.octets)[p] = [outcome |-> outcome, end |-> e]
  ELSE IF h.length = 0 \/ p + h.length <= End
  THEN outcome = "whole" /\ e = p + h.length
  ELSE outcome = "short" /\ e = IF p > End THEN p ELSE End

-----------------------------------------------------------------------------
(* The order the documentation of Parser asks for: the value of a header   *)
(* is skipped or consumed before the next header is parsed, except that    *)
(* the program may descend into a constructed value; it is consumed in one *)
(* way only and before anything else is read; and an error ends it all.    *)

IsLast(i) == i = Len(headers)

Untouched(h) == ~h.consumed /\ ~h.skipped

StreamEnded(s) == s.done \/ (s.kind = "definite" /\ s.num_read = s.max_read)

Passed(h) == h.skipped \/ (h.consumed /\ (HasStream(h) => StreamEnded(h.cached_stream)))

Ended == ret \in {"error", "crashed"}

MayParse ==
  \/ headers = <<>>
  \/ LET h == headers[Len(headers)]
     IN  \/ Passed(h)
         \/ /\ Untouched(h)
            /\ IsConstructed(h.header) \/ h.header.length = 0

MayConsume(i) == IsLast(i) /\ Untouched(headers[i])

Keeping(permitted) == orderly' = (orderly /\ ~Ended /\ permitted)

-----------------------------------------------------------------------------
(* The calls.                                                              *)

Init ==
  /\ input \in Inputs
  /\ pos = 0
  /\ headers = <<>>
  /\ ret = "none"
  /\ skips = 0
  /\ orderly = TRUE

\* Parser#next
ParserNext ==
  /\ Keeping(MayParse)
  /\ UNCHANGED << input, skips >>
  /\ \/ /\ pos >= End
        /\ ret' = "nil"
        /\ UNCHANGED << pos, headers >>
     \/ /\ pos < End /\ Len(headers) < MaxHeaders
        /\ LET h == next_header(input.octets, pos)
           IN  /\ pos' = pos + h.used
               /\ \/ /\ h.ok
                     /\ headers' = Append(headers, int_asn1_header_new(h.header, pos, pos'))
                     /\ ret' = "header"
                  \/ /\ ~h.ok
                     /\ ret' = "error"
                     /\ UNCHANGED headers

\* Header#skip_value seeks: an IO may be moved behind its end, and an
\* indefinite length, which counts as 0, is not skipped at all.
SkipTo_FromStart(h)  == h.header.length                                        \* mutant
SkipTo_WithHeader(h) == pos + (h.start - h.at) + h.header.length               \* mutant

SkipTo(h) == pos + h.header.length

SkipValue(i) ==
  /\ skips < MaxSkips
  /\ pos' = SkipTo(headers[i])
  /\ headers' = [headers EXCEPT ![i].skipped = TRUE]
  /\ ret' = "skipped"
  /\ skips' = skips + 1
  /\ Keeping(MayConsume(i))
  /\ UNCHANGED input

\* Header#value of a value that was not read before.  When reading fails the
\* flag stays clear.
Unread_WithoutFlag(h) == h.value = <<>>                                        \* mutant

Unread(h) == ~h.consumed

ReadValue(i) ==
  /\ Unread(headers[i])
  /\ \E e \in Ahead, outcome \in Outcomes :
       /\ ReadsValue(headers[i].header, pos, outcome, e)
       /\ pos' = e
       /\ IF outcome = "whole"
          THEN headers' = [headers EXCEPT ![i].value = Answer(headers[i], Taken(pos, e)),
                                          ![i].consumed = TRUE]
          ELSE UNCHANGED headers
       /\ ret' = CASE outcome = "whole" -> "value"
                   [] outcome = "short" -> "error"
                   [] outcome = "lost"  -> "crashed"
  /\ Keeping(MayConsume(i))
  /\ UNCHANGED << input, skips >>

\* Header#value otherwise: the cached answer, or ParseError because of the
\* Instream.
ValueAgain(i) ==
  /\ headers[i].consumed
  /\ ret' = IF HasStream(headers[i]) THEN "taken" ELSE "value"
  /\ Keeping(TRUE)
  /\ UNCHANGED << input, pos, headers, skips >>

krypt_asn1_get_value_stream(h) ==
  [NoStream EXCEPT !.kind     = IF h.infinite THEN "chunked" ELSE "definite",
                   !.max_read = h.length]

\* Header#value_io: ParseError after value, or the cached Instream, or a new one.
TakenByValue_Never(h) == FALSE                                                 \* mutant

TakenByValue(h) == h.consumed /\ ~HasStream(h)

ValueIo(i) ==
  LET h == headers[i]
  IN  /\ UNCHANGED << input, pos, skips >>
      /\ \/ /\ TakenByValue(h)
            /\ ret' = "taken"
            /\ Keeping(TRUE)
            /\ UNCHANGED headers
         \/ /\ HasStream(h)
            /\ ret' = "stream"
            /\ Keeping(TRUE)
            /\ UNCHANGED headers
         \/ /\ ~TakenByValue(h) /\ ~HasStream(h)
            /\ headers' = [headers EXCEPT
                             ![i].consumed      = TRUE,
                             ![i].cached_stream = krypt_asn1_get_value_stream(h.header)]
            /\ ret' = "stream"
            /\ Keeping(MayConsume(i))

\* Instream#read of a definite value: nil at its end, or up to n octets from
\* where the IO stands now.
ToRead_NotClipped(left, n) == n                                                \* mutant

ToRead(left, n) == IF left < n THEN left ELSE n

ReadDefinite(i, n) ==
  LET s    == headers[i].cached_stream
      left == s.max_read - s.num_read
  IN  /\ s.kind = "definite"
      /\ Keeping(IsLast(i))
      /\ UNCHANGED << input, skips >>
      /\ \/ /\ left = 0
            /\ ret' = "end"
            /\ UNCHANGED << pos, headers >>
         \/ /\ left # 0 /\ pos >= End
            /\ ret' = "error"
            /\ UNCHANGED << pos, headers >>
         \/ /\ left # 0
            /\ \E r \in 1..ToRead(left, n) :
                 /\ pos + r <= End
                 /\ pos' = pos + r
                 /\ headers' = [headers EXCEPT
                                  ![i].cached_stream.num_read = @ + r,
                                  ![i].cached_stream.given = @ \o Taken(pos, pos + r)]
            /\ ret' = "octets"

\* Instream#read of all of an indefinite value; reading parts of it is in
\* ValueStream.
ReadChunked(i) ==
  LET s == headers[i].cached_stream
  IN  /\ s.kind = "chunked"
      /\ Keeping(IsLast(i))
      /\ UNCHANGED << input, skips >>
      /\ \/ /\ s.done
            /\ ret' = "end"
            /\ UNCHANGED << pos, headers >>
         \/ /\ ~s.done
            /\ \E e \in Ahead, outcome \in Outcomes :
                 /\ ReadsValue(headers[i].header, pos, outcome, e)
                 /\ pos' = e
                 /\ IF outcome = "whole"
                    THEN headers' = [headers EXCEPT ![i].cached_stream.given = Taken(pos, e),
                                                    ![i].cached_stream.done = TRUE]
                    ELSE UNCHANGED headers
                 /\ ret' = CASE outcome = "whole" -> "octets"
                             [] outcome = "short" -> "error"
                             [] outcome = "lost"  -> "crashed"

Call(i) ==
  \/ SkipValue(i)
  \/ ReadValue(i)
  \/ ValueAgain(i)
  \/ ValueIo(i)
  \/ \E n \in ReadSizes : ReadDefinite(i, n)
  \/ ReadChunked(i)

Next ==
  /\ ret # "crashed"
  /\ ParserNext \/ \E i \in DOMAIN headers : Call(i)

Spec == Init /\ [][Next]_vars

-----------------------------------------------------------------------------
(* Properties.                                                             *)

\* Every variable has its type.
TypeOK ==
  /\ input \in Inputs
  /\ pos \in Nat
  /\ headers \in Seq(ParsedHeader)
  /\ ret \in {"none", "header", "nil", "skipped", "value", "stream", "octets", "end",
              "taken", "error", "crashed"}
  /\ skips \in Nat
  /\ orderly \in BOOLEAN

ElementAt(p) == CHOOSE e \in input.elements : e.at = p

\* A program that keeps to the documented order is given headers of the
\* structure only, whatever it skips, consumes or descends into: no header is
\* made of octets of a value or of another header (krypt_asn1_parser_next).
HeadersAreElements ==
  orderly => \A i \in DOMAIN headers :
    \E e \in input.elements :
      /\ e.at = headers[i].at /\ e.start = headers[i].start
      /\ e.header = headers[i].header

\* What value returns to such a program is "the raw byte encoding of the
\* associated value", nil at most for a value without octets, and its Instream
\* gives a beginning of it, up to all.  The documentation of value promises nil
\* whenever length == 0; the code answers such a value with an empty string
\* unless its tag is 0 or 5 (Answer), and either is the value here.
OwnValues ==
  orderly => \A i \in DOMAIN headers :
    LET h   == headers[i]
        own == ElementAt(h.at).content
    IN  /\ h.value # <<>> => h.value[1] = own
        /\ h.consumed /\ ~HasStream(h) /\ h.value = <<>> => own = <<>>
        /\ IsPrefix(h.cached_stream.given, own)
        /\ h.cached_stream.done => h.cached_stream.given = own

\* When next says to such a program that the IO has ended, each element was
\* given to it or lies in a value it has skipped or consumed.
NothingMissed ==
  orderly /\ ret = "nil" =>
    \A e \in input.elements : \E i \in DOMAIN headers :
      LET h == headers[i]
      IN  h.at = e.at \/ (/\ Passed(h) /\ h.start <= e.at
                           /\ e.at < h.start + Len(ElementAt(h.at).content))

\* Such a program meets an error only where octets are missing.
ErrorsOnlyOnCut == orderly /\ ret \in {"error", "crashed"} => input.cut

\* For every program: the value of a header is handed out by value or by one
\* Instream and never by both, an Instream gives no more than the length in
\* the header, and no header is parsed from octets before those of the last
\* one, in whatever order headers are used (the flag consumed).
OneWayToValue ==
  /\ \A i \in DOMAIN headers :
       LET h == headers[i]
           s == h.cached_stream
       IN  /\ HasStream(h) => h.consumed /\ h.value = <<>>
           /\ h.value # <<>> => h.consumed
           /\ s.kind = "definite" => Len(s.given) <= h.header.length
  /\ \A i, j \in DOMAIN headers : i < j => headers[i].start <= headers[j].at

\* It follows from what holds of each header by itself when the IO stands at p.
HeaderInv(h, p) ==
  LET s == h.cached_stream
  IN  /\ HasStream(h) => h.consumed /\ h.value = <<>> /\ s.max_read = h.header.length
      /\ h.value # <<>> => h.consumed
      /\ s.kind # "chunked" => Len(s.given) = s.num_read
      /\ s.kind = "chunked" /\ ~s.done => s.given = <<>>
      /\ s.num_read <= s.max_read
      /\ h.at <= h.start /\ h.start <= p

HeadersInv ==
  /\ TypeOK
  /\ \A i \in DOMAIN headers : HeaderInv(headers[i], pos)
  /\ \A i, j \in DOMAIN headers : i < j => headers[i].start <= headers[j].at

\* What holds of a program that keeps to the documented order follows from
\* how far the IO has moved over the value of the last header, and from all
\* the elements that begin before this value having been given or passed.
Given(h, own) ==
  LET s == h.cached_stream
  IN  CASE s.kind = "none"     -> <<>>
        [] s.kind = "definite" -> SubSeq(own, 1, s.num_read)
        [] s.kind = "chunked"  -> IF s.done THEN own ELSE <<>>

Moved(h, own) ==
  IF h.skipped THEN h.header.length
  ELSE IF h.consumed /\ ~HasStream(h) THEN Len(own)
  ELSE Len(h.cached_stream.given)

OwnInv(h, e) ==
  /\ e.at = h.at /\ e.start = h.start /\ e.header = h.header
  /\ ~(h.skipped /\ h.consumed)
  /\ h.value # <<>> => h.value[1] = e.content
  /\ h.consumed /\ ~HasStream(h) /\ h.value = <<>> => e.content = <<>>
  /\ HasStream(h) => (h.cached_stream.kind = "chunked" <=> h.header.infinite)
  /\ h.cached_stream.done => h.cached_stream.kind = "chunked"
  /\ h.cached_stream.given = Given(h, e.content)

Covered(e) ==
  \E i \in DOMAIN headers :
    LET h == headers[i]
    IN  h.at = e.at \/ (/\ Passed(h) /\ h.start <= e.at
                         /\ e.at < h.start + Len(ElementAt(h.at).content))

StandInv ==
  IF headers = <<>> THEN pos = 0
  ELSE LET h == headers[Len(headers)]
       IN  /\ pos = h.start + Moved(h, ElementAt(h.at).content)
           /\ \A e \in input.elements : e.at < h.start => Covered(e)

OrderInv ==
  orderly =>
    /\ \A i \in DOMAIN headers :
         /\ ElementAt(headers[i].at) \in input.elements
         /\ OwnInv(headers[i], ElementAt(headers[i].at))
    /\ IF Ended THEN input.cut ELSE StandInv

IInv == HeadersInv /\ OrderInv

\* For every program: "Once read, the value will be cached" (value), "the
\* Instream instance is cached" (value_io): what a header has answered once
\* it answers ever after, and the IO moves only forward.
CachedAnswers ==
  [][/\ \A i \in DOMAIN headers :
          headers[i].consumed =>
            /\ headers'[i].consumed
            /\ headers'[i].value = headers[i].value
            /\ headers'[i].cached_stream.kind = headers[i].cached_stream.kind
            /\ IsPrefix(headers[i].cached_stream.given, headers'[i].cached_stream.given)
     /\ pos <= pos']_vars

=============================================================================
