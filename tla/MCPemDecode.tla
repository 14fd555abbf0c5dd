----------------------------- MODULE MCPemDecode -----------------------------
(***************************************************************************)
(* Small instances of PemDecode for TLC: texts are put together from       *)
(* blocks that know the elements they contain.                             *)
(***************************************************************************)
EXTENDS PemDecode

A  == <<1>>
B  == <<2>>
AB == <<1, 2>>

MCBufferSize == 8
MCLineSize   == 8

L(kind, n, chars, octets) == [kind |-> kind, name |-> n, chars |-> chars, octets |-> octets]

Begin(n) == L("begin", n, 8, <<>>)
End(n)   == L("end", n, 8, <<>>)
Dash     == L("dash", <<>>, 2, <<>>)
Blank    == L("blank", <<>>, 0, <<>>)

Full(o)     == L("data", <<>>, 4, <<o, o, o>>)
Partial(o)  == L("data", <<>>, 4, <<o>>)
Unknown     == L("data", <<>>, 3, <<>>)     \* no character of the alphabet

Block(lines, elements) == [lines |-> lines, elements |-> elements]

\* The content of an element is in the lines between its header and footer.
Part(n, body) ==
  LET data == SelectSeq(body, LAMBDA l : l.kind = "data")
  IN  Block(<< Begin(n) >> \o body \o << End(n) >>,
            << [name |-> n, der |-> FlattenSeq([i \in DOMAIN data |-> data[i].octets])] >>)

Blocks ==
  { Part(A, << Partial(1) >>),
    Part(AB, << Full(1), Full(2), Full(3), Blank, Full(4), Partial(5) >>),
    Part(B, << Full(6), Unknown, Full(7) >>),
    Part(A, << Unknown >>),
    \* a footer of another name is no footer
    Block(<< Begin(A), Full(8), End(AB), Dash, Blank, Unknown, End(A) >>,
          << [name |-> A, der |-> <<8, 8, 8>>] >>),
    \* a footer with a beginning of the name is taken for its footer
    Block(<< Begin(AB), Partial(10), End(A) >>, << [name |-> AB, der |-> Partial(10).octets] >>),
    \* between elements
    Block(<< Full(9), Dash, Blank, End(B) >>, <<>>) }

Unfinished ==
  { << Begin(A) >>, << Begin(A), Full(1), Full(2), Full(3) >>,
    << Begin(AB), Full(1), Dash >>, << Begin(B), Partial(1), End(A) >> }

\* An element without octets ends the text: what stands behind it is dropped
\* (krypt_pem_decode).
Text(blocks, tail) ==
  LET all   == FlattenSeq([i \in DOMAIN blocks |-> blocks[i].elements])
      empty == {i \in DOMAIN all : all[i].der = <<>>}
  IN  [ lines    |-> FlattenSeq([i \in DOMAIN blocks |-> blocks[i].lines]) \o tail,
        elements |-> IF empty = {} THEN all ELSE SubSeq(all, 1, Min(empty) - 1),
        cut      |-> tail # <<>> /\ empty = {} ]

MCDocs ==
  LET sequences == UNION {[1..k -> Blocks] : k \in 0..3}
  IN  {Text(s, t) : s \in sequences, t \in {<<>>}}
        \cup {Text(s, t) : s \in [1..1 -> Blocks], t \in Unfinished}

=============================================================================
