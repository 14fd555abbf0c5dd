---------------------------- MODULE MCValueStream ----------------------------
(***************************************************************************)
(* Small instances of ValueStream for TLC: values are built from elements  *)
(* that know their octets and what they count for when only values are     *)
(* read.                                                                   *)
(***************************************************************************)
EXTENDS ValueStream

Element_(octets, values) == [octets |-> octets, values |-> values]

OctetString(v)     == Element_(<<4, Len(v)>> \o v, v)
LongOctetString(v) == Element_(<<4, 129, Len(v)>> \o v, v)

\* A definite constructed element: its elements are not cut.
Nested(e) == Element_(<<36, Len(e.octets)>> \o e.octets, e.octets)

AllOctets(elems) == FlattenSeq([i \in DOMAIN elems |-> elems[i].octets])
AllValues(elems) == FlattenSeq([i \in DOMAIN elems |-> elems[i].values])

Indefinite(elems) ==
  Element_(<<36, 128>> \o AllOctets(elems) \o <<0, 0>>, AllValues(elems))

\* More than any of the values below holds.
Big == 40

\* A value is followed by other octets on the inner stream.
Rest == <<2, 1, 1>>

DefiniteJob(v, sizes) ==
  [octets |-> v \o Rest, infinite |-> FALSE, length |-> Len(v), values_only |-> TRUE,
   sizes |-> sizes, content |-> v, end |-> Len(v), cut |-> FALSE]

ChunkedJob(elems, values_only, sizes) ==
  LET value == AllOctets(elems) \o <<0, 0>>
  IN  [octets |-> value \o Rest, infinite |-> TRUE, length |-> 0, values_only |-> values_only,
       sizes |-> sizes, content |-> IF values_only THEN AllValues(elems) ELSE value,
       end |-> Len(value), cut |-> FALSE]

\* Nothing follows the value.
AtTheEnd(j) == [j EXCEPT !.octets = SubSeq(@, 1, j.end)]

\* The inner stream ends after n octets of the value.
Truncated(j, n) == [j EXCEPT !.octets = SubSeq(@, 1, n), !.cut = TRUE]

Short == << OctetString(<<7, 8>>), OctetString(<<>>) >>
Deep  == << Indefinite(<< OctetString(<<5>>), Indefinite(<<>>) >>),
            Nested(OctetString(<<6>>)) >>
Long  == << LongOctetString(<<1, 2, 3>>), OctetString(<<4>>) >>

MCJobs ==
  { DefiniteJob(<<>>, {1}), DefiniteJob(<<1, 2, 3>>, {1, 2, 3, 5}) }
    \cup { ChunkedJob(v, vo, {1, Big}) : v \in {<<>>, Short, Deep}, vo \in BOOLEAN }
    \cup { ChunkedJob(Long, TRUE, {1, Big}), ChunkedJob(Long, FALSE, {Big}) }
    \cup { AtTheEnd(ChunkedJob(Short, vo, {Big})) : vo \in BOOLEAN }
    \cup { Truncated(DefiniteJob(<<1, 2, 3>>, {1, 2, 5}), 2) }
    \cup { Truncated(ChunkedJob(Short, vo, {Big}), n) : n \in {3, 4, 5}, vo \in BOOLEAN }
    \cup { Truncated(ChunkedJob(Deep, vo, {Big}), n) : n \in {0, 4, 5}, vo \in BOOLEAN }
    \cup { Truncated(ChunkedJob(Long, FALSE, {2}), 3) }

\* The inner stream ends where the end-of-contents octets are due, after an
\* element without content.
EarlyEndJobs == { Truncated(ChunkedJob(Short, FALSE, {Big}), 6) }

\* An amount that ends inside the second element.
MediumReadJobs == { ChunkedJob(Deep, TRUE, {2}) }

=============================================================================
