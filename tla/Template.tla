------------------------------ MODULE Template ------------------------------
(***************************************************************************)
(* Templates: objects whose class says what to expect in an encoding.  A   *)
(* template keeps the object it was parsed from until the first get of a   *)
(* member; then the value is matched against the layout of the class, each *)
(* object found goes to a container of its own, and is decoded when that   *)
(* member is first read.  A member that is a template itself is lazy in    *)
(* the same way.                                                           *)
(*                                                                         *)
(* A call runs to its end before the next begins.  The loop over a layout  *)
(* is one step per member, since it may fail at each and keeps what it has *)
(* set before.                                                             *)
(***************************************************************************)
EXTENDS TemplateMatch

CONSTANTS
  Documents,   \* pairs of a class and an object for parse_der
  MaxSets      \* how often members are set

ASSUME DocumentsAssumption == Documents \subseteq Classes \X Objects

ASSUME MaxSetsAssumption == MaxSets \in Nat

VARIABLES
  templates,   \* the templates, by the members that lead to them from the first
  call,        \* the call that is running
  ret,         \* how the last call returned
  sets         \* how often members were set

vars == << templates, call, ret, sets >>

-----------------------------------------------------------------------------
(* krypt_asn1_template, for templates and for the containers (Value) of    *)
(* their members.  origin and assigned are history: the object a template  *)
(* was parsed from, and the number of the last set of a member that must   *)
(* not be lost.                                                            *)

Value == [ kind : {"nil", "default", "assigned", "template", "decoded", "array"},
           objects : Seq(Objects), n : Nat ]

SomeValue(kind, objects) == [kind |-> kind, objects |-> objects, n |-> 0]

Nil == SomeValue("nil", <<>>)

AssignedValue(n) == [kind |-> "assigned", objects |-> <<>>, n |-> n]

Container == [ object : Objects \cup {NULL}, field : Field \cup {NULL}, decoded : BOOLEAN,
               value : Value ]

ASSUME ContainerAssumption == NULL \notin Container

\* Stands for all that a program may set @tag and @type of a CHOICE to.
AssignedTag == -1

Template == [ field : Field, object : Objects \cup {NULL}, parsed : BOOLEAN,
              modified : BOOLEAN, ivars : [IVars -> Container \cup {NULL}],
              tag : Nat \cup {NULL, AssignedTag}, origin : Objects \cup {NULL}, assigned : [IVars -> Nat] ]

krypt_asn1_template_new(o, f) ==
  [ field |-> f, object |-> o, parsed |-> FALSE, modified |-> FALSE,
    ivars |-> [v \in IVars |-> NULL], tag |-> NULL,
    origin |-> o, assigned |-> [v \in IVars |-> 0] ]

krypt_asn1_template_new_value(v) ==
  [object |-> NULL, field |-> NULL, decoded |-> TRUE, value |-> v]

ContainerOf(o, f) ==
  IF f.codec = "TEMPLATE"
  THEN [object |-> NULL, field |-> f, decoded |-> TRUE, value |-> SomeValue("template", <<>>)]
  ELSE [object |-> o, field |-> f, decoded |-> FALSE, value |-> Nil]

With(p, t) == [q \in DOMAIN templates \cup {p} |-> IF q = p THEN t ELSE templates[q]]

\* parser->parse of a member (int_parse_assign, int_parse_template): object o
\* goes to member f of template p, which becomes t with a container for it.
Parsed(p, t, o, f) ==
  LET parent == With(p, [t EXCEPT !.ivars[f.name] = ContainerOf(o, f)])
      child  == Append(p, f.name)
  IN  IF f.codec = "TEMPLATE"
      THEN [q \in DOMAIN parent \cup {child} |->
              IF q = child THEN krypt_asn1_template_new(o, f) ELSE parent[q]]
      ELSE parent

Codec(t) == CodecOf(t.field)

Layout(t) == Definitions[t.field.type].layout

\* A class that is itself a SEQUENCE OF: its value, as a member.
OwnField(t) ==
  [t.field EXCEPT !.name = "@value", !.codec = Codec(t), !.type = Definitions[t.field.type].type]

-----------------------------------------------------------------------------
(* Decoding the object of a container (parser->decode).                    *)

Failed == [ok |-> FALSE, value |-> Nil]

Decoded(kind, objects) == [ok |-> TRUE, value |-> SomeValue(kind, objects)]

\* The value of the content behind an explicit tag is of all objects there.
int_decode_prim(o, f) ==
  LET u == int_unpack_explicit(o, f)
  IN  IF Encodings[o].is_infinite \/ ~u.ok \/ Encodings[u.header].is_constructed
         \/ ~Encodings[u.header].decodes
      THEN Failed
      ELSE Decoded("decoded", IF IsExplicit(f) THEN Encodings[o].elements ELSE << o >>)

int_decode_any(o, f) ==
  LET u == int_unpack_explicit(o, f)
  IN  IF u.ok THEN Decoded("decoded", << u.header >>) ELSE Failed

\* int_decode_cons_of_templates and int_decode_cons_of_prim
IsOfType(o, type) ==
  IF type \in Classes THEN Match(o, RootField(type)) = "match"
  ELSE Encodings[o].tag = type /\ Encodings[o].tag_class = "universal"

int_decode_cons_of(o, f) ==
  LET u == int_unpack_explicit(o, f)
  IN  IF \/ ~u.ok
         \/ ~Encodings[u.header].is_constructed
         \/ u.junk
         \/ \E k \in DOMAIN u.elements : ~IsOfType(u.elements[k], f.type)
         \/ u.elements = <<>> /\ ~krypt_definition_is_optional(f)
         \/ Encodings[u.header].is_infinite
      THEN Failed
      ELSE Decoded("array", u.elements)

int_value_decode(c) ==
  CASE c.field.codec = "PRIMITIVE"   -> int_decode_prim(c.object, c.field)
    [] c.field.codec = "ANY"         -> int_decode_any(c.object, c.field)
    [] c.field.codec \in OfCodecs    -> int_decode_cons_of(c.object, c.field)

-----------------------------------------------------------------------------
(* Calls.  While op is "parse", cur is the object to be matched with the   *)
(* i-th member, NULL if it was used, and rest is what follows it.          *)

Call == [ op : {"none", "get", "parse"}, path : Seq(IVars), ivar : IVars, i : Nat,
          cur : Objects \cup {NULL}, rest : Seq(Objects), num_parsed : Nat ]

Idle == [ op |-> "none", path |-> <<>>, ivar |-> "@value", i |-> 0, cur |-> NULL,
          rest |-> <<>>, num_parsed |-> 0 ]

Return == [ op : {"none", "parse_der", "new", "get", "set", "to_der"}, ok : BOOLEAN,
            path : Seq(IVars) ]

Returns(op, ok, p) == ret' = [op |-> op, ok |-> ok, path |-> p]

Init ==
  /\ templates = <<>>
  /\ call = Idle
  /\ ret = [op |-> "none", ok |-> TRUE, path |-> <<>>]
  /\ sets = 0

\* parse_der: the object must match the class.
ParseDer(c, o) ==
  /\ call.op = "none" /\ templates = <<>>
  /\ IF Match(o, RootField(c)) = "match"
     THEN /\ templates' = [p \in {<<>>} |-> krypt_asn1_template_new(o, RootField(c))]
          /\ Returns("parse_der", TRUE, <<>>)
     ELSE /\ Returns("parse_der", FALSE, <<>>)
          /\ UNCHANGED templates
  /\ UNCHANGED << call, sets >>

\* new (krypt_asn1_template_initialize)
New(c) ==
  /\ call.op = "none" /\ templates = <<>>
  /\ templates' = [p \in {<<>>} |-> [krypt_asn1_template_new(NULL, RootField(c)) EXCEPT !.parsed = TRUE]]
  /\ Returns("new", TRUE, <<>>)
  /\ UNCHANGED << call, sets >>

\* A program has the first template and those that a get has given it.
Parent(p) == SubSeq(p, 1, Len(p) - 1)

IsHeld(p) == p = <<>> \/ templates[Parent(p)].parsed

\* _get_callback, also for @tag and @type of a CHOICE, which get @value first.
Get(p, v) ==
  /\ call.op = "none"
  /\ call' = [Idle EXCEPT !.op = "get", !.path = p, !.ivar = v]
  /\ UNCHANGED << templates, ret, sets >>

This == templates[call.path]

GetFails ==
  /\ call' = Idle
  /\ Returns("get", FALSE, call.path)

\* int_parse_cons up to its loop: the first object must be there.
ParseConsBegins ==
  LET u == int_unpack_explicit(This.object, This.field)
  IN  /\ call.op = "get" /\ ~This.parsed /\ Codec(This) \in ConsCodecs
      /\ \/ /\ u.ok /\ Encodings[u.header].is_constructed /\ u.elements # <<>>
            /\ call' = [call EXCEPT !.op = "parse", !.i = 1, !.cur = Head(u.elements),
                                    !.rest = Tail(u.elements)]
            /\ UNCHANGED ret
         \/ /\ ~(u.ok /\ Encodings[u.header].is_constructed /\ u.elements # <<>>)
            /\ GetFails
      /\ UNCHANGED << templates, sets >>

\* int_set_default_value
int_set_default_value(t, v) ==
  [t EXCEPT !.ivars[v] = krypt_asn1_template_new_value(SomeValue("default", <<>>))]

\* int_ensure_rest_is_optional from member k on: defaults are set up to the
\* first member that is mandatory.
RestIsOptional(layout, k) == \A j \in k..Len(layout) : krypt_definition_is_optional(layout[j])

RestNames_SkipsFirst(layout, k) ==                                             \* mutant
  {layout[j].name : j \in {j \in (k + 1)..Len(layout) :
      layout[j].default /\ \A l \in k..j : krypt_definition_is_optional(layout[l])}}

RestNames(layout, k) ==
  {layout[j].name : j \in {j \in k..Len(layout) :
      layout[j].default /\ \A l \in k..j : krypt_definition_is_optional(layout[l])}}

WithDefaults(t, names) ==
  [t EXCEPT !.ivars = [v \in IVars |->
      IF v \in names THEN krypt_asn1_template_new_value(SomeValue("default", <<>>))
      ELSE t.ivars[v]]]

Content == int_unpack_explicit(This.object, This.field)

\* The loop goes on with the next member; cur and rest are what is left.
NextMember_Repeats(cur, rest, n) ==                                            \* mutant
  [call EXCEPT !.i = IF n = 0 THEN @ ELSE @ + 1, !.cur = cur, !.rest = rest, !.num_parsed = @ + n]

NextMember(cur, rest, n) ==
  [call EXCEPT !.i = @ + 1, !.cur = cur, !.rest = rest, !.num_parsed = @ + n]

\* One turn of the loop: the i-th member.
MatchMember ==
  LET layout == Layout(This)
      f      == layout[call.i]
      match  == Match(call.cur, f)
      last   == call.i = Len(layout)
      next   == NextObject(call.rest, Content.junk)
  IN  /\ call.op = "parse" /\ call.i <= Len(layout)
      /\ UNCHANGED sets
      /\ \/ /\ match = "error"
            /\ GetFails
            /\ UNCHANGED templates
         \/ /\ match = "no"
            /\ call' = NextMember(call.cur, call.rest, 0)
            /\ UNCHANGED << templates, ret >>
         \/ /\ match = "default"
            /\ call' = NextMember(call.cur, call.rest, 0)
            /\ templates' = With(call.path, int_set_default_value(This, DefaultName(f)))
            /\ UNCHANGED ret
         \/ /\ match = "match" /\ last
            /\ call' = NextMember(NULL, call.rest, 1)
            /\ templates' = Parsed(call.path, This, call.cur, f)
            /\ UNCHANGED ret
         \/ /\ match = "match" /\ ~last /\ next = "ok"
            /\ call' = NextMember(Head(call.rest), Tail(call.rest), 1)
            /\ templates' = Parsed(call.path, This, call.cur, f)
            /\ UNCHANGED ret
         \/ /\ match = "match" /\ ~last /\ next = "error"
            /\ GetFails
            /\ templates' = Parsed(call.path, This, call.cur, f)
         \/ /\ match = "match" /\ ~last /\ next = "eof"
            /\ templates' = Parsed(call.path, WithDefaults(This, RestNames(layout, call.i + 1)),
                                   call.cur, f)
            /\ IF RestIsOptional(layout, call.i + 1)
               THEN /\ call' = [NextMember(NULL, <<>>, 1) EXCEPT !.i = Len(layout) + 1]
                    /\ UNCHANGED ret
               ELSE GetFails

\* The template is parsed and gives its object up (int_template_parse).
IsParsed_KeepsObject(t) == [t EXCEPT !.parsed = TRUE]                          \* mutant

IsParsed(t) == [t EXCEPT !.parsed = TRUE, !.object = NULL]

\* int_parse_cons behind its loop.  The object at hand may still be one that
\* no member has matched: it is not looked at again.
AtEnd_WithoutEndOfContents(rest, infinite, junk) == rest = <<>> /\ ~junk       \* mutant

AtEnd(rest, infinite, junk) ==
  /\ ~junk
  /\ IF infinite THEN Len(rest) = 1 /\ IsEndOfContents(Head(rest)) ELSE rest = <<>>

ParseConsEnds ==
  LET layout == Layout(This)
  IN  /\ call.op = "parse" /\ call.i > Len(layout)
      /\ UNCHANGED sets
      /\ IF /\ call.num_parsed >= MinSize(layout)
            /\ AtEnd(call.rest, Encodings[Content.header].is_infinite, Content.junk)
         THEN /\ templates' = With(call.path, IsParsed(This))
              /\ call' = [Idle EXCEPT !.op = "get", !.path = call.path, !.ivar = call.ivar]
              /\ UNCHANGED ret
         ELSE /\ GetFails
              /\ UNCHANGED templates

\* int_parse_choice: a tag around the value is taken off, and @tag set.
ParseChoice ==
  LET o == This.object
      f == Layout(This)[MatchedLayout(o, This.field)]
  IN  /\ call.op = "get" /\ ~This.parsed /\ Codec(This) = "CHOICE"
      /\ UNCHANGED sets
      /\ IF int_match_choice(o, This.field) = "match"
         THEN /\ templates' = Parsed(call.path,
                                     [IsParsed(This) EXCEPT !.tag = Encodings[Chosen(o, This.field)].tag],
                                     Chosen(o, This.field), f)
              /\ UNCHANGED << call, ret >>
         ELSE /\ GetFails
              /\ UNCHANGED templates

\* int_parse_assign for a class that is a SEQUENCE OF or SET OF
ParseOf ==
  /\ call.op = "get" /\ ~This.parsed /\ Codec(This) \in OfCodecs
  /\ templates' = Parsed(call.path, IsParsed(This), This.object, OwnField(This))
  /\ UNCHANGED << call, ret, sets >>

\* krypt_asn1_template_get_cb_value of a parsed template
NeedsDecoding_Always(c) == c.field # NULL /\ c.object # NULL                   \* mutant

NeedsDecoding(c) == ~c.decoded

GetReturns ==
  LET c == This.ivars[call.ivar]
  IN  /\ call.op = "get" /\ This.parsed
      /\ UNCHANGED sets
      /\ \/ /\ c = NULL \/ (c # NULL /\ ~NeedsDecoding(c))
            /\ Returns("get", TRUE, call.path)
            /\ call' = Idle
            /\ UNCHANGED templates
         \/ /\ c # NULL /\ NeedsDecoding(c)
            /\ LET d == int_value_decode(c)
               IN  \/ /\ d.ok
                      /\ templates' = With(call.path,
                           [This EXCEPT !.ivars[call.ivar] =
                              [c EXCEPT !.decoded = TRUE, !.value = d.value]])
                      /\ Returns("get", TRUE, call.path)
                      /\ call' = Idle
                   \/ /\ ~d.ok
                      /\ GetFails
                      /\ UNCHANGED templates

\* _set_callback: the template is not parsed first, and the value goes to a
\* container as it is.
IsKept(t, v) == t.parsed /\ (t.ivars[v] = NULL \/ t.ivars[v].decoded)

Assign_FirstOnly(t, v, value) ==                                               \* mutant
  [t EXCEPT !.modified = TRUE,
            !.ivars[v] = IF @ = NULL THEN krypt_asn1_template_new_value(value) ELSE @]

Assign(t, v, value) ==
  [t EXCEPT !.modified = TRUE,
            !.ivars[v] = IF @ = NULL THEN krypt_asn1_template_new_value(value)
                                     ELSE [@ EXCEPT !.value = value]]

Set(p, v) ==
  LET t == templates[p]
  IN  /\ call.op = "none" /\ sets < MaxSets
      /\ templates' = With(p, [Assign(t, v, AssignedValue(sets + 1)) EXCEPT
                                 !.assigned[v] = IF IsKept(t, v) THEN sets + 1 ELSE 0])
      /\ sets' = sets + 1
      /\ Returns("set", TRUE, p)
      /\ UNCHANGED call

\* _set_callback_choice of @tag and @type, which parses nothing either and
\* leaves the template as unmodified as it was: what is set before the first
\* get is lost to the parse.
SetTag(p) ==
  /\ call.op = "none" /\ Codec(templates[p]) = "CHOICE"
  /\ templates' = With(p, [templates[p] EXCEPT !.tag = AssignedTag])
  /\ Returns("set", TRUE, p)
  /\ UNCHANGED << call, sets >>

\* to_der writes the object a template was parsed from, and nothing else:
\* int_template_encode_non_cached fails.
ToDer(p) ==
  /\ call.op = "none"
  /\ Returns("to_der", templates[p].object # NULL, p)
  /\ UNCHANGED << templates, call, sets >>

Step ==
  \/ ParseConsBegins
  \/ MatchMember
  \/ ParseConsEnds
  \/ ParseChoice
  \/ ParseOf
  \/ GetReturns

\* The members a class has accessors for.
Members(t) ==
  IF Codec(t) \in ConsCodecs THEN {Layout(t)[i].name : i \in DOMAIN Layout(t)} ELSE {"@value"}

Next ==
  \/ \E d \in Documents : ParseDer(d[1], d[2])
  \/ \E c \in Classes : New(c)
  \/ \E p \in DOMAIN templates :
       /\ IsHeld(p)
       /\ \/ \E v \in Members(templates[p]) : Get(p, v) \/ Set(p, v)
          \/ SetTag(p)
          \/ ToDer(p)
  \/ Step

Spec == Init /\ [][Next]_vars /\ WF_vars(Step)

-----------------------------------------------------------------------------
(* Properties.                                                             *)

\* Every variable has its type, and a call is about a template that exists.
TypeOK ==
  /\ DOMAIN templates \subseteq Seq(IVars)
  /\ \A p \in DOMAIN templates : templates[p] \in Template
  /\ call \in Call
  /\ call.op # "none" => call.path \in DOMAIN templates
  /\ ret \in Return
  /\ sets \in 0..MaxSets

\* The object that the i-th member of template p was given, if any.
ObjectOf(p, i) ==
  LET f == Layout(templates[p])[i]
      c == templates[p].ivars[f.name]
  IN  IF c = NULL \/ (c # NULL /\ c.field = NULL) THEN NULL
      ELSE IF f.codec = "TEMPLATE" THEN templates[Append(p, f.name)].origin ELSE c.object

\* The objects in the value of a template, without the end-of-contents.
ValueOf(t) ==
  LET u == int_unpack_explicit(t.origin, t.field)
  IN  IF Encodings[u.header].is_infinite THEN SubSeq(u.elements, 1, Len(u.elements) - 1)
                                         ELSE u.elements

\* A template that was parsed from an encoding of a SEQUENCE or SET.
IsCons(t) == t.origin # NULL /\ Codec(t) \in ConsCodecs

IsParsedCons(t) == t.parsed /\ IsCons(t)

\* The members of template p that were given an object.
Found(p) == {i \in DOMAIN Layout(templates[p]) : ObjectOf(p, i) # NULL}

RespectsLayout(p) ==
  LET layout == Layout(templates[p])
      value  == ValueOf(templates[p])
      given  == [k \in 1..Cardinality(Found(p)) |-> ObjectOf(p, Nth(Found(p), k))]
  IN  /\ GivenTo(layout, Found(p), given)
      /\ \A i \in DOMAIN layout \ Found(p) : MayBeAbsent(layout[i])
      /\ Cardinality(Found(p)) >= MinSize(layout)
      /\ Len(given) <= Len(value)
      /\ given = SubSeq(value, 1, Len(given))
      /\ Len(value) <= Len(given) + (IF Len(layout) \in Found(p) THEN 0 ELSE 1)

\* Parsing gives the objects of the value to members that are for them, in
\* the order of both, and to every mandatory member one, but for a CHOICE
\* whose tag is empty; at most one object is left, and only by a layout whose
\* last member is absent (int_parse_cons).
LayoutRespected ==
  \A p \in DOMAIN templates : IsParsedCons(templates[p]) => RespectsLayout(p)

HasDefaults(t) ==
  \A i \in DOMAIN Layout(t) :
    LET f == Layout(t)[i]
    IN  f.default /\ DefaultName(f) = f.name => t.ivars[f.name] # NULL

\* An absent member with a default has it once the template was parsed, or
\* what was set since.  A TEMPLATE whose class is a SEQUENCE OF gets it under
\* another name, and only behind the last object under its own.
DefaultsApplied ==
  \A p \in DOMAIN templates : IsParsedCons(templates[p]) => HasDefaults(templates[p])

IsParsedChoice(t) == t.parsed /\ t.origin # NULL /\ Codec(t) = "CHOICE"

HasFirstChoice(t) ==
  LET o == Chosen(t.origin, t.field)
      c == t.ivars["@value"]
  IN  \E i \in DOMAIN Layout(t) :
        /\ c # NULL /\ c.field = Layout(t)[i]
        /\ FitsCodec(Layout(t)[i], o)
        /\ \A j \in 1..(i - 1) : ~FitsCodec(Layout(t)[j], o)
        /\ t.tag \in {Encodings[o].tag, AssignedTag}

\* The value of a CHOICE goes to the first member that is for it, and @tag is
\* its tag, also if the program set another one before the value was parsed;
\* only what it set since may be there instead.
ChoiceOfFirst ==
  \A p \in DOMAIN templates : IsParsedChoice(templates[p]) => HasFirstChoice(templates[p])

IsInfinite(t) == Encodings[int_unpack_explicit(t.origin, t.field).header].is_infinite

\* A description of the value that a parse of the template has to find.
Describes(t, members) ==
  DescribedBy(Layout(t), members, ValueOf(t)) /\ (IsInfinite(t) => Len(Layout(t)) \in members)

\* The layout does not describe the encoding.  Not covered are a value without
\* objects, an indefinite length when the last member is absent, layouts that
\* leave a choice, and an implicit tag of a CHOICE, which matches nothing.
IsMisfit(t) ==
  LET u      == int_unpack_explicit(t.origin, t.field)
      layout == Layout(t)
  IN  \/ u.junk
      \/ ~Encodings[u.header].is_constructed
      \/ ValueOf(t) = <<>>
      \/ IsInfinite(t) /\ ~IsEndOfContents(u.elements[Len(u.elements)])
      \/ ~Unambiguous(layout, ValueOf(t))
      \/ \E i \in DOMAIN layout : CodecOf(layout[i]) = "CHOICE" /\ layout[i].tagging = "implicit"
      \/ \A members \in SUBSET DOMAIN layout : ~Describes(t, members)

\* A get that failed to parse was one of an encoding that the layout does not
\* describe.
OnlyMisfitsFail ==
  ret.op = "get" /\ ~ret.ok =>
    LET t == templates[ret.path]
    IN  ~t.parsed /\ Codec(t) \in ConsCodecs /\ int_unpack_explicit(t.origin, t.field).ok => IsMisfit(t)

\* What is set in a member that was read before, or in a parsed template that
\* has nothing for it, is what the next get of it returns.
SetIsKept ==
  \A p \in DOMAIN templates : \A v \in IVars :
    LET t == templates[p]
    IN  t.assigned[v] # 0 =>
          /\ t.ivars[v] # NULL /\ t.ivars[v].decoded
          /\ t.ivars[v].value = AssignedValue(t.assigned[v])

\* What a parsed template has decoded changes only when it is set, also by
\* reads of other members that fail, and it never becomes unparsed again.
DecodedStays ==
  [][\A p \in DOMAIN templates : templates[p].parsed =>
       /\ p \in DOMAIN templates'
       /\ templates'[p].parsed
       /\ sets' = sets =>
            \A v \in IVars :
              LET c == templates[p].ivars[v]
              IN  (c = NULL \/ (c # NULL /\ c.decoded)) => templates'[p].ivars[v] = c]_vars

\* Every get ends.
EveryGetReturns == call.op # "none" ~> call.op = "none"

\* A template keeps its object until it is parsed, and a container until it
\* is decoded; a template inside another one is untouched until that was
\* parsed.
TemplateInv(t) ==
  /\ t.field.codec = "TEMPLATE" /\ t.field.type \in Classes
  /\ ~t.parsed => t.object # NULL /\ t.object = t.origin
  /\ t.parsed => t.object = NULL
  /\ \A v \in IVars :
       /\ t.ivars[v] # NULL /\ ~t.ivars[v].decoded =>
            /\ t.ivars[v].object # NULL /\ t.ivars[v].field # NULL
            /\ t.ivars[v].field.codec # "TEMPLATE"
       /\ t.assigned[v] # 0 =>
            /\ t.parsed /\ t.ivars[v] # NULL /\ t.ivars[v].decoded
            /\ t.ivars[v].value = AssignedValue(t.assigned[v])

ParentsParsed ==
  \A p \in DOMAIN templates : p # <<>> =>
    /\ Parent(p) \in DOMAIN templates
    /\ templates[p].parsed => templates[Parent(p)].parsed

CallInv ==
  /\ call.op # "none" => IsHeld(call.path)
  /\ call.op = "parse" =>
       /\ ~This.parsed /\ Codec(This) \in ConsCodecs
       /\ call.i \in 1..(Len(Layout(This)) + 1)
       /\ call.i <= Len(Layout(This)) => call.cur # NULL

IInv ==
  /\ TypeOK
  /\ \A p \in DOMAIN templates : TemplateInv(templates[p])
  /\ ParentsParsed
  /\ CallInv

\* The objects of the value of a template.
ElementsOf(t) == int_unpack_explicit(t.origin, t.field).elements

FoundBefore(p, i) == {j \in Found(p) : j < i}

\* The i-th member was matched with the first object that no member before
\* it was given.
IsMatched(p, i) ==
  LET elements == ElementsOf(templates[p])
      k        == Cardinality(FoundBefore(p, i)) + 1
      match    == Match(elements[k], Layout(templates[p])[i])
  IN  /\ k \in DOMAIN elements
      /\ i \in Found(p) => ObjectOf(p, i) = elements[k] /\ match = "match"
      /\ i \notin Found(p) => match \in {"no", "default"}

\* What a parse, also one that has failed, has left in the members.
AreMatched(p) ==
  \A i \in DOMAIN Layout(templates[p]) : (\E j \in Found(p) : i <= j) => IsMatched(p, i)

HasTemplates(p) ==
  \A i \in DOMAIN Layout(templates[p]) :
    LET f == Layout(templates[p])[i]
        c == templates[p].ivars[f.name]
    IN  f.codec = "TEMPLATE" /\ c # NULL /\ c.field # NULL =>
          Append(p, f.name) \in DOMAIN templates

MembersInv ==
  \A p \in DOMAIN templates : IsCons(templates[p]) => AreMatched(p) /\ HasTemplates(p)

\* What is left of objects when n of them are used.
IsRest(rest, objects, n) ==
  /\ Len(rest) + n = Len(objects)
  /\ \A k \in DOMAIN rest : rest[k] = objects[n + k]

\* The loop over a layout has given away as many objects as it has counted,
\* and the one at hand is the next of them.
LoopInv ==
  /\ call.op = "get" => call.num_parsed = 0
  /\ call.op = "parse" =>
       LET p        == call.path
           layout   == Layout(This)
           elements == ElementsOf(This)
           n        == call.num_parsed
       IN  /\ n = Cardinality(FoundBefore(p, call.i))
           /\ \A i \in 1..(call.i - 1) :
                /\ i \in Found(p) \/ MayBeAbsent(layout[i])
                /\ layout[i].default /\ DefaultName(layout[i]) = layout[i].name =>
                     This.ivars[layout[i].name] # NULL
           /\ call.cur # NULL =>
                /\ n + 1 \in DOMAIN elements /\ call.cur = elements[n + 1]
                /\ IsRest(call.rest, elements, n + 1)
                /\ \A i \in 1..(call.i - 1) : IsMatched(p, i)
                /\ call.i = Len(layout) + 1 => Len(layout) \notin Found(p)
           /\ call.cur = NULL =>
                /\ IsRest(call.rest, elements, n)
                /\ Len(layout) \in Found(p) \/ call.rest = <<>>

FullInv ==
  /\ IInv
  /\ MembersInv
  /\ LoopInv
  /\ LayoutRespected
  /\ DefaultsApplied
  /\ ChoiceOfFirst

\* The loop has given objects to the members that have them in a description
\* of the value.
DescriptionInv ==
  call.op = "parse" /\ Unambiguous(Layout(This), ValueOf(This)) =>
    \A members \in SUBSET DOMAIN Layout(This) : Describes(This, members) =>
      FoundBefore(call.path, call.i) = {j \in members : j < call.i}

\* A get was of a template that the program holds.
ReturnInv == ret.op = "get" => ret.path \in DOMAIN templates /\ IsHeld(ret.path)

\* What the runs check of the invariant beside the properties in it.
ParseInv ==
  /\ IInv
  /\ MembersInv
  /\ LoopInv
  /\ DescriptionInv
  /\ ReturnInv

WholeInv ==
  /\ FullInv
  /\ DescriptionInv
  /\ ReturnInv
  /\ OnlyMisfitsFail

=============================================================================
