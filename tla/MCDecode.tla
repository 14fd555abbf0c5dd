------------------------------ MODULE MCDecode ------------------------------
(***************************************************************************)
(* Sources for Decode: DER values and PEM elements one after another, cut, *)
(* and inside one another.                                                 *)
(***************************************************************************)
EXTENDS Decode

MCFillSize == 3
MCTextLength == 3
MCMaxCalls   == 4

Newline == [kind |-> "newline", value |-> 0]
Begin(name) == [kind |-> "begin", value |-> name]
End(name)   == [kind |-> "end", value |-> name]
Dash        == [kind |-> "dash", value |-> 0]
Data(v)     == [kind |-> "data", value |-> v]

Octets(values) == [i \in DOMAIN values |-> Octet(values[i])]

ValueOf(object) ==
  Octets(<<object.identifier, Len(object.content)>>) \o object.content

Of(identifier, values) == [identifier |-> identifier, content |-> Octets(values)]

Objects == {Of(4, <<72>>), Of(1, <<0, 0>>), Of(5, <<>>)}

\* A value over three lines, as seen by a reader of lines.
Lines == [identifier |-> 12, content |-> <<Octet(72), Newline, Dash, Newline, Octet(73)>>]

DerOf(objects) == FlattenSeq([i \in DOMAIN objects |-> ValueOf(objects[i])])

\* A line of one or two octets.
DataLine(values) == [i \in DOMAIN values |-> Data(values[i])] \o <<Newline>>

Element(name, body) == <<Begin(name), Newline>> \o body \o <<End(name), Newline>>

\* An element in one fill, one of two, one with more octets than its value.
Short == [text |-> Element(1, DataLine(<<5>>) \o DataLine(<<0>>)), object |-> Of(5, <<>>)]
Long  == [text |-> <<Octet(80), Newline>> \o
                   Element(2, DataLine(<<4, 3>>) \o <<Newline>> \o DataLine(<<7>>)
                              \o DataLine(<<8, 9>>)),
          object |-> Of(4, <<7, 8, 9>>)]
More  == [text |-> Element(1, DataLine(<<1, 2>>) \o DataLine(<<0, 0>>) \o DataLine(<<5, 0>>))
                   \o <<Dash, Newline>>,
          object |-> Of(1, <<0, 0>>)]

Sequences(S, n) == UNION {[1..k -> S] : k \in 0..n}

Text(kind, text, is_der, values, elements) ==
  [kind |-> kind, der |-> <<text>>, pem |-> <<text>>, is_der |-> is_der,
   values |-> values, elements |-> elements]

DerSources ==
  {Text(kind, DerOf(s), TRUE, s, <<>>) : kind \in {"IO", "String"}, s \in Sequences(Objects \cup {Lines}, 2)}

CutSources ==
  {Text("IO", DerOf(s) \o tail, TRUE, s, <<>>) :
     s \in Sequences({Of(4, <<72>>), Lines}, 1),
     tail \in {Octets(<<4>>), Octets(<<4, 2, 0>>), Octets(<<4, 255>>), Octets(<<4, 128>>)}}

PemSources ==
  {Text("IO", FlattenSeq([i \in DOMAIN s |-> s[i].text]), FALSE, <<>>, [i \in DOMAIN s |-> s[i].object]) :
     s \in Sequences({Short, Long, More}, 2) \ {<<>>}}

\* Elements that are broken: without a footer, with another one, with less
\* than its value, and without octets.  What decode
\* makes of them is the value that their first characters are read as, if
\* there are enough.
Broken ==
  {<<Begin(1), Newline>> \o DataLine(<<5>>) \o DataLine(<<0>>),
   <<Begin(1), Newline>> \o DataLine(<<4, 0>>) \o <<End(2), Newline>>,
   Element(1, DataLine(<<4>>) \o DataLine(<<9>>)),
   Element(1, <<>>)}

AsDer(text) == [identifier |-> 45, content |-> SubSeq(text, 2, MCTextLength + 1)]

BrokenSources ==
  {Text(kind, text, FALSE, IF Len(text) > MCTextLength THEN <<AsDer(text)>> ELSE <<>>, <<>>) :
     kind \in {"IO", "String"}, text \in Broken}

\* An element that fills the buffer is given before its footer is looked for.
Unfinished ==
  Text("IO", <<Begin(1), Newline>> \o DataLine(<<4, 1>>) \o DataLine(<<7>>), FALSE,
       <<>>, <<Of(4, <<7>>)>>)

\* A value whose content is a text with an element.
Embedding ==
  LET content == <<Newline>> \o Short.text
      object  == [identifier |-> 12, content |-> content]
  IN  Text("IO", ValueOf(object), TRUE, <<object>>, <<Short.object>>)

ObjectSources ==
  {[kind |-> "object", der |-> der, pem |-> pem, is_der |-> der # <<>>,
    values   |-> IF der = <<>> THEN <<>> ELSE <<Of(4, <<72>>)>>,
    elements |-> IF pem = <<>> THEN <<>> ELSE <<Short.object>>] :
     der \in {<<>>, <<ValueOf(Of(4, <<72>>))>>}, pem \in {<<>>, <<Short.text>>}}

MCSources ==
  DerSources \cup CutSources \cup PemSources \cup BrokenSources \cup {Unfinished, Embedding} \cup ObjectSources

\* All but the sources whose element is not closed.
ASSUME WellFormedAssumption ==
  {s \in MCSources : ~WellFormed(s)} \subseteq BrokenSources \cup {Unfinished}

=============================================================================
