----------------------------- MODULE MCAsn1Data -----------------------------
(***************************************************************************)
(* Small instances of Asn1Data for TLC.                                    *)
(***************************************************************************)
EXTENDS Asn1Data

O(s) == [i \in DOMAIN s |-> [v |-> s[i]]]

Id(tag, cons) == Identifier(tag, "UNIVERSAL", cons)
Def(n)        == LengthOctets(n, FALSE, FALSE)
BerDef(n)     == LengthOctets(n, FALSE, TRUE)
Indefinite    == LengthOctets(0, TRUE, FALSE)

Good(tag, oct) == [id |-> Id(tag, FALSE), len |-> Def(Len(oct)), oct |-> O(oct), junk |-> FALSE]

\* The INTEGER 5 with a superfluous zero octet, and with a long form length.
BerInteger  == Good(INTEGER, <<0, 5>>)
LongInteger == [Good(INTEGER, <<5>>) EXCEPT !.len = BerDef(1)]
String1     == Good(OCTET_STRING, <<7>>)
EmptyInt    == Good(INTEGER, <<>>)
Truncated   == [Good(OCTET_STRING, <<7>>) EXCEPT !.len = Def(3)]
Junk        == [Good(OCTET_STRING, <<9>>) EXCEPT !.junk = TRUE]
EocElem     == Good(END_OF_CONTENTS, <<>>)
LongEoc     == [EocElem EXCEPT !.len = BerDef(0)]

Scalar(tag, oct) == [id |-> Id(tag, FALSE), len |-> BerDef(Len(oct)), bytes |-> Primitive(O(oct))]

Definite(tag, elems) ==
  [id |-> Id(tag, TRUE), len |-> Def(Len(Constructed(elems).tok)), bytes |-> Constructed(elems)]

Infinite(tag, elems) ==
  [id |-> Id(tag, TRUE), len |-> Indefinite, bytes |-> Constructed(elems)]

MCTags  == {END_OF_CONTENTS, INTEGER, BIT_STRING, OCTET_STRING, SEQUENCE, SET}

MCRootWires ==
  { Scalar(INTEGER, <<0, 5>>),
    Scalar(INTEGER, <<>>),
    Scalar(BIT_STRING, <<4, 16>>),
    Definite(SEQUENCE, <<LongInteger>>),
    Definite(SET, <<String1, BerInteger>>),
    Definite(SEQUENCE, <<EmptyInt, Truncated>>),
    Definite(SEQUENCE, <<Junk>>),
    Infinite(OCTET_STRING, <<String1, EocElem>>),
    Infinite(OCTET_STRING, <<String1, LongEoc>>) }

NewInteger(sym, tag) ==
  [value |-> Number(O(<<3>>)), tag |-> tag, sym |-> sym, default_tag |-> INTEGER]

\* An empty SET, an explicitly tagged INTEGER, ASN1Data.new with a tag but
\* no class of its own, the same with the tag of a BIT STRING, and a BIT
\* STRING with an implicit tag.
MCRootNews ==
  { [value |-> Ary(<<>>), tag |-> SET, sym |-> "UNIVERSAL", default_tag |-> SET],
    NewInteger("EXPLICIT", END_OF_CONTENTS),
    [value |-> Str(O(<<1, 2>>)), tag |-> OCTET_STRING, sym |-> "UNIVERSAL", default_tag |-> -1],
    [value |-> Str(O(<<1>>)), tag |-> BIT_STRING, sym |-> "UNIVERSAL", default_tag |-> -1],
    [value |-> Str(O(<<16>>)), tag |-> END_OF_CONTENTS, sym |-> "CONTEXT_SPECIFIC",
     default_tag |-> BIT_STRING] }

MCElemNews  == { NewInteger("UNIVERSAL", INTEGER) }
MCNewTags   == { SET, INTEGER }
MCNewBits   == { 3, 8 }
MCNewValues == { Str(O(<<8, 8>>)) }

=============================================================================
