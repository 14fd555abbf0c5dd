---------------------------- MODULE MCPullParser ----------------------------
(***************************************************************************)
(* Small instances of PullParser for TLC.  An encoding is built together   *)
(* with its structure, from elements that know where they start.           *)
(***************************************************************************)
EXTENDS PullParser

Header_(tag, length, infinite) ==
  [tag_bytes |-> <<tag>>, length_bytes |-> << IF infinite THEN 128 ELSE length >>,
   length |-> length, infinite |-> infinite]

\* A value that begins at position p: its octets and the elements in it.
Encoded(octets, elements) == [octets |-> octets, elements |-> elements]

Object(p, header, value) ==
  LET q == p + 2
  IN  Encoded(header.tag_bytes \o header.length_bytes \o value.octets,
              {[at |-> p, start |-> q, header |-> header, content |-> value.octets]}
                \cup value.elements)

Primitive(p, tag, v) == Object(p, Header_(tag, Len(v), FALSE), Encoded(v, {}))

Definite(p, tag, value) == Object(p, Header_(tag, Len(value.octets), FALSE), value)

Indefinite(p, tag, value) == Object(p, Header_(tag, 0, TRUE), value)

Both(a, b) == Encoded(a.octets \o b.octets, a.elements \cup b.elements)

EndOfContents(p) == Primitive(p, 0, <<>>)

Whole(v) == [octets |-> v.octets, elements |-> v.elements, cut |-> FALSE]

\* The octets from n on are missing.
Cut(v, n) == [octets   |-> SubSeq(v.octets, 1, n),
              elements |-> {e \in v.elements : e.start <= n},
              cut      |-> TRUE]

\* SEQUENCE { OCTET STRING, NULL } OCTET STRING.  The octets of the values
\* look like headers themselves.
Plain == Both(Definite(0, 48, Both(Primitive(2, 4, <<5, 0>>), Primitive(6, 5, <<>>))),
              Primitive(8, 4, <<4>>))

\* An indefinite SEQUENCE of an indefinite OCTET STRING, and an INTEGER.  The
\* octets of the string end a value for a program that reads it from there.
Open == Both(Indefinite(0, 48, Both(Indefinite(2, 36, Both(Primitive(4, 4, <<32, 0>>),
                                                           EndOfContents(8))),
                                    EndOfContents(10))),
             Primitive(12, 2, <<1>>))

\* Values without octets.
Empty == Both(Definite(0, 48, Encoded(<<>>, {})), Primitive(2, 4, <<>>))

MCInputs ==
  {Whole(Plain), Whole(Open), Whole(Empty), Whole(Encoded(<<>>, {}))}
    \cup {Cut(Plain, n) : n \in {1, 3, 5, 10}} \cup {Cut(Open, n) : n \in {6, 9, 10, 14}}

MCReadSizes == {1, 3}

=============================================================================
