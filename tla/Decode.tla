------------------------------- MODULE Decode -------------------------------
(***************************************************************************)
(* ASN1.decode, decode_der and decode_pem (krypt_asn1.c), on a source that *)
(* several calls may read from (krypt_io.c), and the stack of errors that  *)
(* all of them share (krypt_error.c).  decode tries the source as PEM      *)
(* first, through a stream that remembers what was read, and then as DER   *)
(* from what was remembered and the rest.                                  *)
(*                                                                         *)
(* A source is a sequence of tokens.  The octets of headers and values are *)
(* a token each, and so are a boundary of a PEM element and as many        *)
(* characters of Base64 as stand for one octet: positions and lengths      *)
(* count tokens.                                                           *)
(***************************************************************************)
EXTENDS Integers, Sequences, FiniteSets, SequencesExt, FiniteSetsExt

CONSTANTS
  Sources,      \* what a program passes to decode
  FillSize,     \* BINYO_IO_BUF_SIZE
  TextLength,   \* the length that a character stands for if it is read as DER
  MaxCalls      \* bound: how many calls a program makes

\* What an octet may be: a primitive identifier or a length of one octet, and
\* the length 255, so no header has more octets than two.
OctetValue == {v \in 0..128 : (v \div 32) % 2 = 0 /\ v % 32 # 31} \cup {255}

\* "begin" is -----BEGIN value-----, "end" is -----END value-----, "dash"
\* another dash, "data" the Base64 of the octet value; an "octet" is no
\* character of Base64.
Token == [kind : {"octet", "data", "begin", "end", "dash", "newline"}, value : OctetValue]

Octet(v) == [kind |-> "octet", value |-> v]

Object == [identifier : 0..255, content : Seq(Token)]

\* What a source gives for to_der and to_pem, if it has them; a String and an
\* IO are themselves.  For the properties only: whether it is DER, the values
\* that follow one another from its beginning, and the PEM elements in it.
Source == [kind : {"IO", "String", "object"}, der : Seq(Seq(Token)), pem : Seq(Seq(Token)),
           is_der : BOOLEAN, values : Seq(Object), elements : Seq(Object)]

ASSUME DecodeAssumption ==
  /\ FillSize \in Nat \ {0} /\ TextLength \in 0..127 /\ MaxCalls \in Nat
  /\ \A s \in Sources : /\ s \in Source
                         /\ (s.kind # "object" => Len(s.der) = 1 /\ s.pem = s.der)
                         /\ (s.is_der => s.der # <<>>)
                         /\ Len(s.der) <= 1 /\ Len(s.pem) <= 1

VARIABLES
  source,   \* what the program passes
  pos,      \* where an IO stands
  errors,   \* err_stack, the last one added at the end
  calls     \* the calls so far: where each stood, its answer or the errors its exception told

decodeVars == <<source, pos, errors, calls>>

Answered(object) == [ok |-> TRUE, object |-> object, told |-> <<>>]

Raised(told) == [ok |-> FALSE, object |-> [identifier |-> 0, content |-> <<>>], told |-> told]

-----------------------------------------------------------------------------
(* Lines of a text, each given by where it begins.                         *)

LineBehind(text, p) ==
  Min({q \in p + 1..Len(text) : text[q].kind = "newline"} \cup {Len(text)})

LinesFrom(text, p) ==
  {q \in p..Len(text) - 1 : q = p \/ text[q].kind = "newline"}

StartsWith(text, p, kinds) == text[p + 1].kind \in kinds

\* int_match_header, int_match_footer: a boundary is all of its line.
Boundary(text, p, kind) ==
  /\ StartsWith(text, p, {kind})
  /\ p + 1 = Len(text) \/ text[p + 2].kind = "newline"

FirstOr(lines, end) == Min(lines \cup {end})

HeaderLineFrom(text, p) ==
  FirstOr({q \in LinesFrom(text, p) : Boundary(text, q, "begin")}, Len(text))

ContentEnd(text, p) ==
  FirstOr({q \in LinesFrom(text, p) : StartsWith(text, q, {"begin", "end", "dash"})}, Len(text))

FooterLineFrom(text, p, name) ==
  FirstOr({q \in LinesFrom(text, p) : Boundary(text, q, "end") /\ text[q + 1].value = name},
          Len(text))

Characters(text, from, to) == SelectSeq(SubSeq(text, from + 1, to), LAMBDA t : t.kind # "newline")

\* krypt_base64_buffer_decode_to
Base64Decoded(text, from, to) ==
  LET octets[p \in from..Len(text)] ==
        IF p = from THEN <<>>
        ELSE IF text[p].kind = "data" THEN Append(octets[p - 1], Octet(text[p].value))
        ELSE octets[p - 1]
  IN  octets[to]

-----------------------------------------------------------------------------
(* The PEM stream: at is how far it has gotten lines, have what it has     *)
(* decoded.                                                                *)

int_krypt_b64_buffer_new(p) ==
  [state |-> "HEADER", name |-> 0, at |-> p, have |-> <<>>, end |-> "open", errors |-> <<>>]

FillRaises(text, s, error) ==
  [s EXCEPT !.at = Len(text), !.end = "error", !.errors = <<error>>]

\* The line behind a full buffer is left to the next fill.
AfterFull_Gets(text, q) == IF q = Len(text) THEN q ELSE LineBehind(text, q)   \* mutant

AfterFull(text, q) == q

\* The content from c to end: as many lines as fill the buffer, or all of them
\* and the footer.
FillUpTo(text, s, c, name, end) ==
  LET enough == {q \in c + 1..end : /\ q = LineBehind(text, q - 1)
                                    /\ Len(Characters(text, c, q)) >= FillSize}
      footer == FooterLineFrom(text, end, name)
  IN  IF enough # {}
      THEN [s EXCEPT !.state = "CONTENT", !.name = name, !.at = AfterFull(text, Min(enough)),
                     !.have = @ \o Base64Decoded(text, c, Min(enough))]
      ELSE IF end = Len(text) THEN FillRaises(text, s, "PEM data ended prematurely")
      ELSE IF footer = Len(text) THEN FillRaises(text, s, "Could not find matching PEM footer")
      ELSE [s EXCEPT !.state = "DONE", !.at = LineBehind(text, footer), !.end = "eof",
                     !.have = @ \o Base64Decoded(text, c, end)]

FillContent(text, s, c, name) == FillUpTo(text, s, c, name, ContentEnd(text, c))

int_b64_fill(text, s) ==
  LET header == HeaderLineFrom(text, s.at)
  IN  IF s.state = "CONTENT" THEN FillContent(text, s, s.at, s.name)
      ELSE IF header = Len(text) THEN [s EXCEPT !.at = Len(text), !.end = "eof"]
      ELSE FillContent(text, s, LineBehind(text, header), text[header + 1].value)

FilledFor(text, s, n) ==
  IF Len(s.have) >= n \/ s.end # "open" THEN s ELSE int_b64_fill(text, s)

\* The stream after n octets were asked for in all.
PemRead(text, p, n) ==
  LET after[k \in 0..Len(text) + 1] ==
        IF k = 0 THEN int_krypt_b64_buffer_new(p) ELSE FilledFor(text, after[k - 1], n)
  IN  after[Len(text) + 1]

\* The source itself, from p on.
DerRead(text, p, n) ==
  [have |-> SubSeq(text, p + 1, Len(text)), end |-> "eof", errors |-> <<>>,
   at |-> p + Min({n, Len(text) - p})]

-----------------------------------------------------------------------------
(* krypt_asn1_decode_stream: in is a stream from a place of a text on.     *)

Stream(kind, text, from) == [kind |-> kind, text |-> text, from |-> from]

\* The stream after n octets were asked for in all.
Read(in, n) == IF in.kind = "PEM" THEN PemRead(in.text, in.from, n) ELSE DerRead(in.text, in.from, n)

Decoded(object, at) == [ok |-> TRUE, object |-> object, at |-> at]

NotDecoded(stream, more) == [ok |-> FALSE, errors |-> stream.errors \o more, at |-> stream.at]

\* A boundary or another dash is '-', the identifier of UNIVERSAL 13.
Identifier(t) == CASE t.kind = "octet"   -> t.value
                   [] t.kind = "newline" -> 10
                   [] t.kind = "data"    -> 65
                   [] OTHER              -> 45

\* A boundary is more than one character, its own length octet included.
HeaderSize(t) == IF t.kind \in {"begin", "end"} THEN 1 ELSE 2

Length(t) == IF t.kind = "octet" THEN t.value ELSE TextLength

\* int_parse_length, after tag and with the octets up to its first one read.
int_parse_length(tag, read) ==
  LET first == read.have[HeaderSize(tag)]
  IN  IF Len(read.have) < HeaderSize(tag)
      THEN NotDecoded(read, <<"Could not read byte from stream", "Error when parsing length">>)
      ELSE IF Length(first) = 255
      THEN NotDecoded(read, <<"Initial octet of complex definite length shall not be 0xFF",
                              "Error when parsing length">>)
      ELSE IF Length(first) = 128
      THEN NotDecoded(read, <<"Infinite length values must be constructed">>)
      ELSE [ok |-> TRUE, size |-> HeaderSize(tag), identifier |-> Identifier(tag),
            length |-> Length(first)]

krypt_asn1_next_header(in) ==
  LET first == Read(in, 1)
  IN  IF first.have = <<>>
      THEN NotDecoded(first, IF first.end = "error" THEN <<"Error when parsing stream">> ELSE <<>>)
      ELSE int_parse_length(first.have[1], Read(in, HeaderSize(first.have[1])))

\* The definite branch of krypt_asn1_get_value.
krypt_asn1_get_value(header, read) ==
  LET size == header.size + header.length
  IN  IF Len(read.have) < size
      THEN NotDecoded(read, <<IF read.end = "error" THEN "Error while reading from stream"
                              ELSE "Premature EOF detected">>)
      ELSE Decoded([identifier |-> header.identifier,
                    content    |-> SubSeq(read.have, header.size + 1, size)], read.at)

krypt_asn1_decode_stream(in) ==
  LET header == krypt_asn1_next_header(in)
  IN  IF header.ok THEN krypt_asn1_get_value(header, Read(in, header.size + header.length)) ELSE header

-----------------------------------------------------------------------------
(* The calls.                                                              *)

DecodeInit ==
  /\ source \in Sources
  /\ pos = 0 /\ errors = <<>> /\ calls = <<>>

\* krypt_instream_new_value_der, _pem: every call reads a String or what
\* to_der or to_pem returns from its beginning, and an IO from where it stands.
Start == IF source.kind = "IO" THEN pos ELSE 0

StandsAt(p) == IF source.kind = "IO" THEN p ELSE 0

Call(name, result) ==
  /\ Len(calls) < MaxCalls
  /\ calls' = Append(calls, [name |-> name, from |-> Start, result |-> result])
  /\ UNCHANGED source

\* What int_error_msg_create leaves on the stack.
Untold_All == errors                                                  \* mutant

Untold == <<>>

\* Everything on the stack is told, the last one first.
krypt_error_raise(name, added) ==
  /\ Call(name, Raised(Reverse(errors \o added)))
  /\ errors' = Untold

\* StringValue raises a TypeError.
WrongType(name) ==
  /\ Call(name, Raised(<<"TypeError">>))
  /\ UNCHANGED <<pos, errors>>

Single(name, result) ==
  /\ pos' = StandsAt(result.at)
  /\ IF result.ok
     THEN Call(name, Answered(result.object)) /\ UNCHANGED errors
     ELSE krypt_error_raise(name, result.errors)

krypt_asn1_decode_der ==
  IF source.der = <<>> THEN WrongType("decode_der")
  ELSE Single("decode_der", krypt_asn1_decode_stream(Stream("DER", source.der[1], Start)))

krypt_asn1_decode_pem ==
  IF source.pem = <<>> THEN WrongType("decode_pem")
  ELSE Single("decode_pem", krypt_asn1_decode_stream(Stream("PEM", source.pem[1], Start)))

\* int_asn1_fallback_decode reads again what the cache has kept, and goes on
\* in the source behind it.
Retried_Rest(text, pem) ==                                             \* mutant
  krypt_asn1_decode_stream(Stream("DER", text, pem.at))

Retried(text, pem) ==
  LET der == krypt_asn1_decode_stream(Stream("DER", text, Start))
  IN  [der EXCEPT !.at = Max({@, pem.at})]

FallBack(pem, der) ==
  /\ pos' = StandsAt(der.at)
  /\ IF der.ok
     THEN Call("decode", Answered(der.object)) /\ errors' = errors \o pem.errors
     ELSE krypt_error_raise("decode", pem.errors \o der.errors)

DecodeText(text, pem) ==
  IF pem.ok THEN Single("decode", pem) ELSE FallBack(pem, Retried(text, pem))

krypt_asn1_decode ==
  IF source.der = <<>> THEN WrongType("decode")
  ELSE DecodeText(source.der[1],
                  krypt_asn1_decode_stream(Stream("PEM", source.der[1], Start)))

\* krypt_asn1_data_get_value of a BOOLEAN whose codec refuses its octets, the
\* other user of the stack here; other values are in Asn1Data.
krypt_asn1_data_get_value ==
  /\ \E i \in DOMAIN calls :
       calls[i].result.ok /\ calls[i].result.object.identifier = 1
                          /\ Len(calls[i].result.object.content) # 1
  /\ krypt_error_raise("value", <<"Boolean value with length != 1 found">>)
  /\ UNCHANGED pos

\* A template that is parsed forgets what was added before.
krypt_error_clear ==
  /\ Call("template", Answered([identifier |-> 0, content |-> <<>>]))
  /\ errors' = <<>>
  /\ UNCHANGED pos

DecodeNext ==
  \/ krypt_asn1_decode
  \/ krypt_asn1_decode_der
  \/ krypt_asn1_decode_pem
  \/ krypt_asn1_data_get_value
  \/ krypt_error_clear

DecodeSpec == DecodeInit /\ [][DecodeNext]_decodeVars

-----------------------------------------------------------------------------
(* What a source consists of, without streams and buffers: for the         *)
(* properties only.                                                        *)

HasHeader(octets) == octets # <<>> /\ HeaderSize(octets[1]) <= Len(octets)

LengthOf(octets) == Length(octets[HeaderSize(octets[1])])

SizeOf(octets) == HeaderSize(octets[1]) + LengthOf(octets)

IsCut(octets) ==
  HasHeader(octets) => LengthOf(octets) \notin {128, 255} /\ Len(octets) < SizeOf(octets)

IsWhole(octets) ==
  HasHeader(octets) /\ LengthOf(octets) \notin {128, 255} /\ SizeOf(octets) <= Len(octets)

FirstValue(octets) ==
  [identifier |-> Identifier(octets[1]),
   content    |-> SubSeq(octets, HeaderSize(octets[1]) + 1, SizeOf(octets))]

From(text, p) == SubSeq(text, p + 1, Len(text))

\* The values that follow one another from a place on.
ValuesFrom(text) ==
  LET values[p \in 0..Len(text)] ==
        IF IsWhole(From(text, p))
        THEN <<FirstValue(From(text, p))>> \o values[p + SizeOf(From(text, p))]
        ELSE <<>>
  IN  values

\* The elements of the lines from a place on, and whether they are whole: each
\* stands in front of its own footer, but for one that is cut, after which no
\* line comes.
ElementsFrom(text) ==
  LET elements[p \in 0..Len(text)] ==
        LET header == HeaderLineFrom(text, p)
            name   == text[header + 1].value
            begin  == LineBehind(text, header)
            end    == ContentEnd(text, begin)
            octets == Base64Decoded(text, begin, end)
            footer == FooterLineFrom(text, end, name)
        IN  IF header = Len(text) THEN [objects |-> <<>>, whole |-> TRUE]
            ELSE IF ~IsWhole(octets)
            THEN [objects |-> <<>>,
                  whole   |-> IsCut(octets) /\ Len(text) \in {footer, LineBehind(text, footer)}]
            ELSE IF footer # end \/ end = Len(text) THEN [objects |-> <<>>, whole |-> FALSE]
            ELSE [elements[LineBehind(text, end)] EXCEPT !.objects = <<FirstValue(octets)>> \o @]
  IN  elements

\* Only of an object that has both may the DER have nothing to do with the PEM.
SourceSound(s) ==
  /\ s.der # <<>> /\ (s.is_der \/ s.kind = "object" \/ s.elements = <<>>) =>
       s.values = ValuesFrom(s.der[1])[0]
  /\ s.pem # <<>> /\ ElementsFrom(s.pem[1])[0].whole =>
       s.elements = ElementsFrom(s.pem[1])[0].objects

ASSUME SourcesAssumption == \A s \in Sources : SourceSound(s)

WellFormed(s) ==
  /\ s.pem # <<>> => ElementsFrom(s.pem[1])[0].whole
  /\ s.der # <<>> => /\ ElementsFrom(s.der[1])[0].whole
                     /\ s.kind = "object" => ElementsFrom(s.der[1])[0].objects = <<>>

-----------------------------------------------------------------------------
(* Properties.                                                             *)

Message ==
  {"PEM data ended prematurely", "Could not find matching PEM footer",
   "Error when parsing stream", "Could not read byte from stream", "Error when parsing length",
   "Initial octet of complex definite length shall not be 0xFF",
   "Infinite length values must be constructed", "Error while reading from stream",
   "Premature EOF detected", "Boolean value with length != 1 found"}

DecodeTypeOK ==
  /\ source \in Sources
  /\ pos \in 0..Len(IF source.der = <<>> THEN <<>> ELSE source.der[1])
  /\ errors \in Seq(Message)
  /\ calls \in Seq([name   : {"decode", "decode_der", "decode_pem", "value", "template"},
                     from   : Nat,
                     result : [ok : BOOLEAN, object : Object, told : Seq(Message \cup {"TypeError"})]])

\* Only this call has moved the IO.
Only(name) == \A i \in DOMAIN calls : calls[i].name \in {name, "value", "template"}

\* How often the call was made, up to the one at i; an IO has one answer after
\* the other, any other source its first one each time.
Times(name, i) == Cardinality({j \in 1..i : calls[j].name = name})

Nth(name, i) == IF source.kind = "IO" THEN Times(name, i) ELSE 1

Made(name) == {i \in DOMAIN calls : calls[i].name = name}

GivesInOrder(name, objects) ==
  \A i \in Made(name) :
    Nth(name, i) <= Len(objects) => calls[i].result = Answered(objects[Nth(name, i)])

RaisesBehind(name, objects) ==
  \A i \in Made(name) : Nth(name, i) = Len(objects) + 1 => ~calls[i].result.ok

\* decode_der leaves an IO behind the value it has read, and decode_pem behind
\* the element it has decoded, however the lines of the element fill the
\* buffer: a program that repeats one of them is given all values or all
\* elements in their order, and an exception after the last.
AnswersInOrder ==
  /\ Only("decode_der") /\ source.is_der =>
       GivesInOrder("decode_der", source.values) /\ RaisesBehind("decode_der", source.values)
  /\ Only("decode_pem") /\ source.pem # <<>> =>
       GivesInOrder("decode_pem", source.elements) /\ RaisesBehind("decode_pem", source.elements)

\* decode gives what decode_pem gives if there is an element in what it reads,
\* wherever it is, and else, although the search for it has read the source
\* to its end, the DER value the source begins with; never one of another
\* place.  Of an object it reads what to_der returns.
DecodeFallsBack ==
  Only("decode") /\ source.der # <<>> =>
    IF source.elements # <<>> /\ source.kind # "object"
    THEN GivesInOrder("decode", source.elements)
    ELSE LET first == SubSeq(source.values, 1, Min({1, Len(source.values)}))
         IN  GivesInOrder("decode", first) /\ RaisesBehind("decode", first)

\* The calls of decode since the errors were told or forgotten that gave an
\* answer although what they stood at could not be read as PEM.
Fallbacks ==
  {i \in DOMAIN calls :
     /\ calls[i].name = "decode" /\ calls[i].result.ok
     /\ ~krypt_asn1_decode_stream(Stream("PEM", source.der[1], calls[i].from)).ok
     /\ \A j \in i..Len(calls) :
          calls[j].name # "template" /\ (calls[j].result.ok \/ calls[j].result.told = <<"TypeError">>)}

\* Errors stay on the stack for the exception of a later call only if decode
\* has answered although the source could not be read as PEM, at most three
\* each time: every exception tells all there are and leaves none.
StrayErrors == Len(errors) <= 3 * Cardinality(Fallbacks)

=============================================================================
