---------------------------- MODULE TemplateMatch ----------------------------
(***************************************************************************)
(* What the parser of templates (krypt_asn1_template_parser.c) compares:   *)
(* the definition of a class, which Ruby code writes down as a layout of   *)
(* members, and the encoding of an object.  All operators here are pure.   *)
(*                                                                         *)
(* An object is known by its header and by the objects that its value is   *)
(* cut into.  Octets behind the last of these that are no header are junk. *)
(* The end-of-contents octets of an indefinite value are its last element. *)
(***************************************************************************)
EXTENDS Integers, Sequences, FiniteSets

CONSTANTS
  Objects,       \* the encoded objects
  Encodings,     \* Encodings[o] is what the octets of object o say
  Classes,       \* classes that include Template
  Definitions,   \* Definitions[c] is the definition of class c
  Names,         \* instance variables that layouts name
  NULL           \* C's NULL and Ruby's nil

Encoding ==
  [ tag : Nat, tag_class : {"universal", "context"}, is_constructed : BOOLEAN,
    is_infinite : BOOLEAN, elements : Seq(Objects), junk : BOOLEAN,
    decodes : BOOLEAN ]     \* the codec for its tag accepts the value

IVars == Names \cup {"@value"}

ConsCodecs == {"SEQUENCE", "SET"}

OfCodecs == {"SEQUENCE_OF", "SET_OF"}

\* A member of a layout, with its options.  type is a tag for PRIMITIVE, a
\* class for TEMPLATE, and either for SEQUENCE_OF and SET_OF.
Field ==
  [ name : IVars, codec : {"PRIMITIVE", "TEMPLATE", "ANY"} \cup OfCodecs,
    type : Nat \cup Classes, tag : Nat \cup {NULL},
    tagging : {"implicit", "explicit"} \cup {NULL}, optional : BOOLEAN, default : BOOLEAN ]

Definition ==
  [ codec : ConsCodecs \cup OfCodecs \cup {"CHOICE"}, layout : Seq(Field),
    type : Nat \cup Classes ]

ASSUME NullAssumption == NULL \notin Objects /\ NULL \notin Field

ASSUME EncodingsAssumption == Encodings \in [Objects -> Encoding]

ASSUME DefinitionsAssumption == Definitions \in [Classes -> Definition]

\* The values of a CHOICE have no name, are not CHOICEs themselves, and are
\* neither optional nor have a default.  The members of a layout have names.
ASSUME LayoutsAssumption ==
  \A c \in Classes : \A i \in DOMAIN Definitions[c].layout :
    LET f == Definitions[c].layout[i]
    IN  /\ f.codec = "TEMPLATE" => f.type \in Classes
        /\ Definitions[c].codec = "CHOICE" =>
             /\ f.name = "@value" /\ ~f.optional /\ ~f.default
             /\ f.codec = "TEMPLATE" => Definitions[f.type].codec # "CHOICE"
        /\ Definitions[c].codec \in ConsCodecs => f.name \in Names

\* A class by itself: a definition of the top level has no options.
RootField(c) ==
  [ name |-> "@value", codec |-> "TEMPLATE", type |-> c, tag |-> NULL, tagging |-> NULL,
    optional |-> FALSE, default |-> FALSE ]

\* min_size is computed by the Ruby code that makes definitions.
MinSize(layout) == Cardinality({i \in DOMAIN layout : ~(layout[i].optional \/ layout[i].default)})

TAGS_END_OF_CONTENTS == 0
TAGS_SEQUENCE == 16
TAGS_SET == 17

DefaultTag(codec) == IF codec \in {"SEQUENCE", "SEQUENCE_OF"} THEN TAGS_SEQUENCE ELSE TAGS_SET

IsEndOfContents(o) ==
  Encodings[o].tag = TAGS_END_OF_CONTENTS /\ Encodings[o].tag_class = "universal"

-----------------------------------------------------------------------------
(* Octets.                                                                 *)

\* int_next_object, where rest is left of the objects in a stream.
NextObject(rest, junk) ==
  IF rest # <<>> THEN "ok" ELSE IF junk THEN "error" ELSE "eof"

\* The header that counts and the content behind it.  An explicit tag is
\* taken off with the header behind it, whose length is not looked at: all
\* that follows belongs to the content.
IsExplicit(f) == f.tagging = "explicit"

int_unpack_explicit(o, f) ==
  LET e == Encodings[o]
      x == Encodings[Head(e.elements)]
  IN  IF ~IsExplicit(f)
      THEN [ok |-> TRUE, header |-> o, elements |-> e.elements, junk |-> e.junk]
      ELSE IF ~e.is_constructed \/ e.elements = <<>>
      THEN [ok |-> FALSE, header |-> o, elements |-> <<>>, junk |-> FALSE]
      ELSE [ok |-> TRUE, header |-> Head(e.elements),
            elements |-> IF x.junk THEN x.elements ELSE x.elements \o Tail(e.elements),
            junk |-> x.junk \/ e.junk]

-----------------------------------------------------------------------------
(* Matching: "match", "no", "error" for a mandatory member that is not     *)
(* there, and "default" for an absent one that was given its default.      *)

krypt_definition_is_optional(f) == f.optional \/ f.default

int_match_class_Any(o, f) == TRUE                                              \* mutant

int_match_class(o, f) ==
  Encodings[o].tag_class = IF f.tagging = NULL THEN "universal" ELSE "context"

int_match_tag_and_class(o, f, default_tag) ==
  /\ Encodings[o].tag = IF f.tag = NULL THEN default_tag ELSE f.tag
  /\ int_match_class(o, f)

int_check_optional_or_default(f) ==
  IF ~krypt_definition_is_optional(f) THEN "error" ELSE IF f.default THEN "default" ELSE "no"

int_match_prim(o, f) ==
  IF int_match_tag_and_class(o, f, f.type) THEN "match" ELSE int_check_optional_or_default(f)

int_try_match_cons(o, f, default_tag) ==
  Encodings[o].is_constructed /\ int_match_tag_and_class(o, f, default_tag)

int_match_cons(o, f, default_tag) ==
  IF int_try_match_cons(o, f, default_tag) THEN "match"
  ELSE IF krypt_definition_is_optional(f) THEN "no" ELSE "error"

int_match_cons_of(o, f, default_tag) ==
  IF int_try_match_cons(o, f, default_tag) THEN "match" ELSE int_check_optional_or_default(f)

int_match_any(o, f) ==
  IF krypt_definition_is_optional(f) /\ f.tag # NULL /\ ~int_match_tag_and_class(o, f, f.tag)
  THEN int_check_optional_or_default(f)
  ELSE "match"

CodecOf(f) == IF f.codec = "TEMPLATE" THEN Definitions[f.type].codec ELSE f.codec

\* Where a default goes.  For a TEMPLATE whose class is a SEQUENCE OF the
\* matcher of the class sets it, under the name that the class has for it.
DefaultName(f) == IF f.codec = "TEMPLATE" /\ CodecOf(f) \in OfCodecs THEN "@value" ELSE f.name

\* All codecs but CHOICE.
MatchCodec(o, f) ==
  LET codec == CodecOf(f)
  IN  CASE codec = "PRIMITIVE"   -> int_match_prim(o, f)
        [] codec = "ANY"         -> int_match_any(o, f)
        [] codec \in ConsCodecs  -> int_match_cons(o, f, DefaultTag(codec))
        [] codec \in OfCodecs    -> int_match_cons_of(o, f, DefaultTag(codec))

\* A CHOICE matches if one of its members matches, the object itself or, if
\* it is tagged, the first object inside.  The tag itself is not looked at.
HasChosen(o, f) == f.tagging = NULL \/ Encodings[o].elements # <<>>

Chosen(o, f) == IF f.tagging = NULL THEN o ELSE Head(Encodings[o].elements)

Matching(o, f) ==
  LET layout == Definitions[f.type].layout
  IN  {i \in DOMAIN layout : MatchCodec(Chosen(o, f), layout[i]) = "match"}

\* The matched layout is the first of these.
MatchedLayout_Last(o, f) == CHOOSE i \in Matching(o, f) : \A j \in Matching(o, f) : j <= i  \* mutant

MatchedLayout(o, f) == CHOOSE i \in Matching(o, f) : \A j \in Matching(o, f) : i <= j

int_match_choice(o, f) ==
  IF f.tagging = "implicit" THEN "error"
  ELSE IF ~HasChosen(o, f) THEN "no"
  ELSE IF Matching(o, f) # {} THEN "match"
  ELSE IF krypt_definition_is_optional(f) THEN "no" ELSE "error"

\* parser->match.  A TEMPLATE takes the codec of its class.
Match(o, f) ==
  LET match == IF CodecOf(f) = "CHOICE" THEN int_match_choice(o, f) ELSE MatchCodec(o, f)
  IN  IF f.codec = "TEMPLATE" /\ match = "no" /\ f.default THEN "default" ELSE match

-----------------------------------------------------------------------------
(* The reference: which objects a member of a layout is for, and which     *)
(* sequences of objects a layout describes.  A CHOICE here is for any      *)
(* object that one of its members is for, whatever tag is around it.       *)

Tagged(f, o, default_tag) ==
  /\ Encodings[o].tag = IF f.tag = NULL THEN default_tag ELSE f.tag
  /\ (Encodings[o].tag_class = "context") <=> (f.tagging # NULL)

FitsCodec(f, o) ==
  \/ CodecOf(f) = "PRIMITIVE" /\ Tagged(f, o, f.type)
  \/ CodecOf(f) = "ANY" /\ (f.tag = NULL \/ ~(f.optional \/ f.default) \/ Tagged(f, o, f.tag))
  \/ /\ CodecOf(f) \in ConsCodecs \cup OfCodecs
     /\ Encodings[o].is_constructed
     /\ Tagged(f, o, IF CodecOf(f) \in {"SEQUENCE", "SEQUENCE_OF"} THEN 16 ELSE 17)

Fits(f, o) ==
  \/ FitsCodec(f, o)
  \/ /\ CodecOf(f) = "CHOICE" /\ f.tagging # "implicit"
     /\ \E inner \in Objects :
          /\ IF f.tagging = NULL THEN inner = o
                                 ELSE Encodings[o].elements # <<>> /\ inner = Encodings[o].elements[1]
          /\ \E i \in DOMAIN Definitions[f.type].layout : FitsCodec(Definitions[f.type].layout[i], inner)

\* The k-th of a set of numbers.
Nth(S, k) == CHOOSE i \in S : Cardinality({j \in S : j <= i}) = k

\* Members of these indices, one for each object, in the order of the layout.
GivenTo(layout, members, objects) ==
  /\ members \subseteq DOMAIN layout
  /\ Cardinality(members) = Len(objects)
  /\ \A k \in DOMAIN objects : Fits(layout[Nth(members, k)], objects[k])

\* The mandatory members are among them.
DescribedBy(layout, members, objects) ==
  /\ GivenTo(layout, members, objects)
  /\ \A i \in DOMAIN layout \ members : krypt_definition_is_optional(layout[i])

\* A CHOICE in a tag that has no header inside is passed over, mandatory or
\* not (int_match_choice).
MayBeAbsent(f) ==
  krypt_definition_is_optional(f) \/ (CodecOf(f) = "CHOICE" /\ f.tagging = "explicit")

\* The container of a member is its own: no other has its name, and no
\* default is set under it.
OwnNames(layout) ==
  \A i, j \in DOMAIN layout : i # j =>
    layout[j].name \notin {layout[i].name, DefaultName(layout[i])}

MembersOwnNames ==
  \A c \in Classes : Definitions[c].codec \in ConsCodecs => OwnNames(Definitions[c].layout)

\* No object fits two members.
Unambiguous(layout, objects) ==
  \A k \in DOMAIN objects : Cardinality({i \in DOMAIN layout : Fits(layout[i], objects[k])}) <= 1

=============================================================================
