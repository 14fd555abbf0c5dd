------------------------------ MODULE PemDecode ------------------------------
(***************************************************************************)
(* Krypt::PEM.decode: a stream that looks for a header line, decodes the   *)
(* lines that follow it into a buffer of limited size, and looks for the   *)
(* footer of the same name (krypt_io_in_pem.c), and the loop that empties  *)
(* this stream once per element and then makes it start over               *)
(* (krypt_pem.c).                                                          *)
(*                                                                         *)
(* A line is what binyo_instream_gets returns: its kind says what the line *)
(* begins and ends with, octets what the Base64 decoder makes of it.       *)
(***************************************************************************)
EXTENDS Integers, Sequences, SequencesExt

CONSTANTS
  Docs,            \* the texts a program decodes
  BufferSize,      \* BINYO_IO_BUF_SIZE
  LineSize         \* KRYPT_LINE_BUF_SIZE

Name   == Seq(Nat)
Octets == 0..255

\* "begin": -----BEGIN name-----, "end": -----END name-----, "dash": another
\* line that begins with a dash, "data": any line that does not.
Line ==
  [ kind : {"begin", "end", "dash", "data", "blank"},
    name : Name, chars : Nat, octets : Seq(Octets) ]

Element == [name : Name, der : Seq(Octets)]

\* elements is what a text consists of, cut that its last element lacks its
\* footer; both are for the properties only.
Doc == [lines : Seq(Line), elements : Seq(Element), cut : BOOLEAN]

StartsWithDash(l) == l.kind \in {"begin", "end", "dash"}

-----------------------------------------------------------------------------
(* What a text consists of, line by line and without a buffer: for the     *)
(* properties only.                                                        *)

EndOf(lines) == Len(lines) + 1

HeaderFrom(lines, p) ==
  Min({q \in p..Len(lines) : lines[q].kind = "begin"} \cup {EndOf(lines)})

DashFrom(lines, p) ==
  Min({q \in p..Len(lines) : StartsWithDash(lines[q])} \cup {EndOf(lines)})

\* A footer may have a beginning of the name.
FooterFrom(lines, p, n) ==
  Min({q \in p..Len(lines) : lines[q].kind = "end" /\ IsPrefix(lines[q].name, n)}
        \cup {EndOf(lines)})

ContentFrom(lines) ==
  LET content[p \in 1..EndOf(lines)] ==
        IF p = EndOf(lines) \/ StartsWithDash(lines[p]) THEN <<>>
        ELSE lines[p].octets \o content[p + 1]
  IN  content

Consists(elements, cut) == [elements |-> elements, cut |-> cut]

\* An element with this name and content, its footer at f: a text without one
\* is cut, and what stands behind an element without content is dropped
\* (krypt_pem_decode).
Closed(texts, lines, n, content, f) ==
  IF f = EndOf(lines) THEN Consists(<<>>, TRUE)
  ELSE IF content = <<>> THEN Consists(<<>>, FALSE)
  ELSE Consists(<< [name |-> n, der |-> content] >> \o texts[f + 1].elements, texts[f + 1].cut)

TextFrom(lines) ==
  LET texts[p \in 1..EndOf(lines)] ==
        LET h == HeaderFrom(lines, p)
            n == lines[h].name
        IN  IF h = EndOf(lines) THEN Consists(<<>>, FALSE)
            ELSE Closed(texts, lines, n, ContentFrom(lines)[h + 1],
                        FooterFrom(lines, DashFrom(lines, h + 1), n))
  IN  texts

-----------------------------------------------------------------------------
ASSUME BufferAssumption == BufferSize \in Nat \ {0} /\ LineSize \in Nat \ {0}

\* Base64 makes three octets of four characters.
LineSound(l) ==
  /\ l \in Line
  /\ l.chars <= LineSize
  /\ 4 * Len(l.octets) <= 3 * l.chars
  /\ l.kind = "blank" <=> l.chars = 0

ASSUME DocsAssumption ==
  \A d \in Docs :
    /\ d.lines \in Seq(Line) /\ d.elements \in Seq(Element) /\ d.cut \in BOOLEAN
    /\ \A i \in DOMAIN d.lines : LineSound(d.lines[i])
    /\ TextFrom(d.lines)[1] = Consists(d.elements, d.cut)

VARIABLES
  doc,      \* the text
  line,     \* how many lines were gotten; one more than there are: the end
  state,    \* krypt_b64_buffer: what is looked for
  name,     \* krypt_b64_buffer: the name in the last header, as a sequence of at most one
  buffer,   \* krypt_b64_buffer: decoded octets that were not consumed yet
  eof,      \* krypt_b64_buffer: nothing more to fill the buffer with
  pc,       \* "read": in int_b64_read; "fill": in int_b64_fill
  total,    \* int_b64_fill: characters decoded in this call
  out,      \* int_b64_fill: octets decoded in this call
  der,      \* int_consume_stream: octets of the element so far
  got,      \* int_b64_read: how many octets of them this call has read
  decoded,  \* the elements pushed to the Array and yielded to the block
  status    \* "open", "end" or "failed"

buffered == << state, name, buffer, eof >>
filling  == << total, out >>
vars     == << doc, line, buffered, pc, filling, der, got, decoded, status >>

-----------------------------------------------------------------------------
(* Lines.                                                                  *)

AtEnd == line > Len(doc.lines)

Current == doc.lines[line]

\* binyo_instream_gets
gets == IF AtEnd THEN line ELSE line + 1

int_match_header(l) == l.kind = "begin"

int_match_footer_Any(l) == l.kind = "end"                              \* mutant

\* strncmp over as many characters as the footer has: a shorter name matches.
int_match_footer(l) == l.kind = "end" /\ IsPrefix(l.name, name[1])

-----------------------------------------------------------------------------
(* int_b64_fill.                                                           *)

Filling ==
  /\ pc = "fill" /\ status = "open"
  /\ state # "DONE" /\ total < BufferSize /\ ~AtEnd

SkipBlank ==
  /\ Filling
  /\ Current.chars = 0
  /\ line' = gets
  /\ UNCHANGED << doc, buffered, pc, filling, der, got, decoded, status >>

FindHeader ==
  /\ Filling
  /\ Current.chars # 0 /\ state = "HEADER"
  /\ IF int_match_header(Current)
     THEN state' = "CONTENT" /\ name' = << Current.name >>
     ELSE UNCHANGED << state, name >>
  /\ line' = gets
  /\ UNCHANGED << doc, buffer, eof, pc, filling, der, got, decoded, status >>

\* The line that ends the content is looked at again as a footer.
ContentEnds ==
  /\ Filling
  /\ Current.chars # 0 /\ state = "CONTENT"
  /\ StartsWithDash(Current)
  /\ state' = "FOOTER"
  /\ UNCHANGED << doc, line, name, buffer, eof, pc, filling, der, got, decoded, status >>

\* The next line is left to the next call when this one has decoded enough.
LineAfter_Always(n) == gets                                            \* mutant

LineAfter(n) == IF n < BufferSize THEN gets ELSE line

DecodeLine ==
  /\ Filling
  /\ Current.chars # 0 /\ state = "CONTENT"
  /\ ~StartsWithDash(Current)
  /\ out' = out \o Current.octets
  /\ total' = total + Current.chars
  /\ line' = LineAfter(total')
  /\ UNCHANGED << doc, buffered, pc, der, got, decoded, status >>

FindFooter ==
  /\ Filling
  /\ Current.chars # 0 /\ state = "FOOTER"
  /\ IF StartsWithDash(Current) /\ int_match_footer(Current)
     THEN state' = "DONE" /\ UNCHANGED line
     ELSE line' = gets /\ UNCHANGED state
  /\ UNCHANGED << doc, name, buffer, eof, pc, filling, der, got, decoded, status >>

FillEnds == pc = "fill" /\ status = "open" /\ (state = "DONE" \/ total >= BufferSize \/ AtEnd)

\* The end of the text is an error inside an element, and the end of the
\* stream when a header is looked for.
EofAfterFill_Forgotten == state = "DONE"                               \* mutant

EofAfterFill == state = "DONE" \/ AtEnd

FillSucceeds ==
  /\ FillEnds
  /\ ~(AtEnd /\ state \in {"CONTENT", "FOOTER"})
  /\ eof' = EofAfterFill
  /\ buffer' = IF AtEnd /\ state = "HEADER" THEN <<>> ELSE out
  /\ pc' = "read"
  /\ UNCHANGED << doc, line, state, name, filling, der, got, decoded, status >>

FillFails ==
  /\ FillEnds
  /\ AtEnd /\ state \in {"CONTENT", "FOOTER"}
  /\ status' = "failed"
  /\ UNCHANGED << doc, line, buffered, pc, filling, der, got, decoded >>

-----------------------------------------------------------------------------
(* int_b64_read and int_consume_stream, which asks for BufferSize octets.  *)

Reading == pc = "read" /\ status = "open" /\ got # BufferSize

Fill ==
  /\ Reading
  /\ buffer = <<>> /\ ~eof
  /\ line' = gets
  /\ total' = 0 /\ out' = <<>>
  /\ pc' = "fill"
  /\ UNCHANGED << doc, buffered, der, got, decoded, status >>

ToRead_NotClipped == Len(buffer)                                       \* mutant

ToRead == IF BufferSize - got < Len(buffer) THEN BufferSize - got ELSE Len(buffer)

int_consume_bytes ==
  /\ Reading
  /\ buffer # <<>>
  /\ der' = der \o SubSeq(buffer, 1, ToRead)
  /\ buffer' = SubSeq(buffer, ToRead + 1, Len(buffer))
  /\ got' = got + ToRead
  /\ UNCHANGED << doc, line, state, name, eof, pc, filling, decoded, status >>

\* The read returns what it has; the next one begins.
ReadReturns ==
  /\ pc = "read" /\ status = "open"
  /\ got = BufferSize \/ (buffer = <<>> /\ eof /\ got # 0)
  /\ got' = 0
  /\ UNCHANGED << doc, line, buffered, pc, filling, der, decoded, status >>

-----------------------------------------------------------------------------
(* krypt_pem_decode, after the stream has announced its end.               *)

StreamEnds == Reading /\ buffer = <<>> /\ eof /\ got = 0

\* krypt_pem_continue_stream
Continued_InContent == [state |-> "CONTENT", name |-> <<>>, buffer |-> <<>>, eof |-> FALSE] \* mutant

Continued == [state |-> "HEADER", name |-> <<>>, buffer |-> <<>>, eof |-> FALSE]

NextElement ==
  /\ StreamEnds
  /\ der # <<>>
  /\ decoded' = Append(decoded, [name |-> name[1], der |-> der])
  /\ der' = <<>>
  /\ state' = Continued.state /\ name' = Continued.name
  /\ buffer' = Continued.buffer /\ eof' = Continued.eof
  /\ UNCHANGED << doc, line, pc, filling, got, status >>

\* An element without octets ends the loop, as the end of the text does.
DecodeEnds ==
  /\ StreamEnds
  /\ der = <<>>
  /\ status' = "end"
  /\ UNCHANGED << doc, line, buffered, pc, filling, der, got, decoded >>

-----------------------------------------------------------------------------
Init ==
  /\ doc \in Docs
  /\ line = 0
  /\ state = "HEADER" /\ name = <<>> /\ buffer = <<>> /\ eof = FALSE
  /\ pc = "read"
  /\ total = 0 /\ out = <<>>
  /\ der = <<>> /\ got = 0
  /\ decoded = <<>>
  /\ status = "open"

Next ==
  \/ SkipBlank \/ FindHeader \/ ContentEnds \/ DecodeLine \/ FindFooter
  \/ FillSucceeds \/ FillFails
  \/ Fill \/ int_consume_bytes \/ ReadReturns
  \/ NextElement \/ DecodeEnds

\* A call that has begun runs on.
Spec == Init /\ [][Next]_vars /\ WF_vars(Next)

-----------------------------------------------------------------------------
(* Properties.                                                             *)

\* Every variable has its type.
TypeOK ==
  /\ doc \in Docs
  /\ line \in 0..(Len(doc.lines) + 1)
  /\ state \in {"HEADER", "CONTENT", "FOOTER", "DONE"}
  /\ name \in {<<>>} \cup {<< n >> : n \in {doc.lines[i].name : i \in DOMAIN doc.lines}}
  /\ buffer \in Seq(Octets) /\ out \in Seq(Octets) /\ der \in Seq(Octets)
  /\ eof \in BOOLEAN
  /\ pc \in {"read", "fill"}
  /\ total \in Nat
  /\ got \in 0..BufferSize
  /\ decoded \in Seq(Element)
  /\ status \in {"open", "end", "failed"}

\* The elements of a text are decoded in order, each with its name and all of
\* its octets and nothing of what stands around it, whatever part of them fits
\* the buffer; decoding ends after the last one, and fails only when the text
\* ends inside an element (krypt_pem_decode).
Elements == INSTANCE OrderedSource WITH
  content <- doc.elements, cut <- doc.cut, given <- decoded
ElementsDecoded == Elements!SourceSpec

\* An element is handed to the program only when a footer for it was reached,
\* however its content is spread over fills and reads (krypt_pem_decode).  A
\* footer may have a beginning of the name (int_match_footer).
FooterReached ==
  [][decoded' # decoded =>
       /\ state = "DONE" /\ line \in DOMAIN doc.lines
       /\ Current.kind = "end" /\ IsPrefix(Current.name, name[1])]_vars

\* The buffer holds at most what the output stream was allocated for
\* (int_b64_fill: BINYO_IO_BUF_SIZE + KRYPT_LINE_BUF_SIZE).
BufferBounded == 4 * Len(buffer) <= 3 * (BufferSize + LineSize)

\* While it is filled, the new buffer holds at most three octets for four of
\* the characters counted so far, and the loop that counts them stops with the
\* first line that completes BufferSize (int_b64_fill).
FillInv ==
  pc = "fill" =>
    /\ line > 0 /\ ~eof
    /\ total < BufferSize + LineSize
    /\ 4 * Len(out) <= 3 * total
    /\ buffer = <<>>
    /\ out # <<>> => state # "HEADER"

\* The name of the last header is kept until all octets that follow it were
\* handed on, so asking for it never fails (krypt_pem_get_last_name).
NameInv ==
  /\ state = "HEADER" <=> name = <<>>
  /\ buffer # <<>> \/ der # <<>> => name # <<>>

\* The end of an element is announced at its footer line, and the scanner stays
\* there until it is made to go on (int_b64_fill, krypt_pem_continue_stream).
DoneInv ==
  /\ eof => state \in {"DONE", "HEADER"}
  /\ state = "DONE" =>
       /\ pc = "read" => eof
       /\ line \in DOMAIN doc.lines
       /\ Current.kind = "end" /\ IsPrefix(Current.name, name[1])

ScanInv == TypeOK /\ BufferBounded /\ FillInv /\ NameInv /\ DoneInv

\* The next line that was not looked at: a fill that has enough leaves its last
\* line to be passed by the next one.
Due == IF pc = "fill" /\ state # "DONE" /\ total < BufferSize THEN line ELSE gets

\* The content of the element so far.
Taken == der \o (IF pc = "fill" THEN out ELSE buffer)

\* What the rest of the text consists of, for a scanner that has come so far.
Rest ==
  LET lines == doc.lines
      texts == TextFrom(lines)
      n     == name[1]
  IN  CASE state = "HEADER"  -> texts[Due]
        [] state = "CONTENT" -> Closed(texts, lines, n, Taken \o ContentFrom(lines)[Due],
                                       FooterFrom(lines, DashFrom(lines, Due), n))
        [] state = "FOOTER"  -> Closed(texts, lines, n, Taken, FooterFrom(lines, Due, n))
        [] state = "DONE"    -> Closed(texts, lines, n, Taken, line)

\* The elements decoded and those of the rest are those of the text.
RestInv ==
  /\ pc = "fill" /\ total >= BufferSize => state = "CONTENT" /\ ~AtEnd
  /\ pc = "read" => state # "FOOTER"
  /\ eof /\ state = "HEADER" => AtEnd
  /\ status = "open" =>
       Consists(doc.elements, doc.cut) = Consists(decoded \o Rest.elements, Rest.cut)

\* The inductive invariant: what a decoder that reads and fills in turns relies
\* on between any two steps, and that it loses and adds nothing.
IInv == ScanInv /\ RestInv

\* Decoding any text comes to an end.
DecodeTerminates == <>(status # "open")

=============================================================================
