--------------------------- MODULE Template_proofs ---------------------------
(***************************************************************************)
(* For every set of classes, every definition of them and every encoding.  *)
(* A template keeps its object until it is parsed, its members can be      *)
(* reached only behind that, and what they decoded or were set to stays.   *)
(* A parse gives objects to members in the order of both, as               *)
(* LayoutRespected, DefaultsApplied and ChoiceOfFirst say, and fails only  *)
(* where no description of the value could have been found                 *)
(* (OnlyMisfitsFail).  The first three are parts of FullInv, which also    *)
(* says how far a running or a failed parse has come; WholeInv adds that   *)
(* the loop follows the description, if there is one.                      *)
(***************************************************************************)
EXTENDS Template, SequenceTheorems, FiniteSetTheorems, WellFoundedInduction, TLAPS

-----------------------------------------------------------------------------
(* Encodings and definitions.                                              *)

LEMMA EncodingTypes ==
  ASSUME NEW o \in Objects
  PROVE  /\ Encodings[o].tag \in Nat
         /\ Encodings[o].is_infinite \in BOOLEAN /\ Encodings[o].is_constructed \in BOOLEAN
         /\ Encodings[o].elements \in Seq(Objects) BY EncodingsAssumption DEF Encoding

LEMMA DefinitionTypes ==
  ASSUME NEW c \in Classes
  PROVE  /\ Definitions[c].layout \in Seq(Field)
         /\ Definitions[c].type \in Nat \cup Classes
         /\ \A i \in DOMAIN Definitions[c].layout : Definitions[c].layout[i] \in Field
<1>1. Definitions[c] \in Definition BY DefinitionsAssumption
<1> QED BY <1>1 DEF Definition

\* A content is a sequence of objects, whatever tag was taken off.
LEMMA UnpackTypes ==
  ASSUME NEW o \in Objects, NEW f
  PROVE  LET u == int_unpack_explicit(o, f)
         IN  u.header \in Objects /\ u.elements \in Seq(Objects)
<1> DEFINE e == Encodings[o]
           x == Encodings[Head(e.elements)]
<1>1. e.elements \in Seq(Objects) BY EncodingTypes
<1>2. CASE ~IsExplicit(f) BY <1>1, <1>2 DEF int_unpack_explicit
<1>3. CASE IsExplicit(f) /\ (~e.is_constructed \/ e.elements = <<>>)
  BY <1>3 DEF int_unpack_explicit
<1>4. CASE IsExplicit(f) /\ e.is_constructed /\ e.elements # <<>>
  <2>1. Head(e.elements) \in Objects /\ Tail(e.elements) \in Seq(Objects) BY <1>1, <1>4
  <2>2. x.elements \in Seq(Objects) BY <2>1, EncodingTypes
  <2>3. x.elements \o Tail(e.elements) \in Seq(Objects) BY <2>1, <2>2
  <2> QED BY <1>4, <2>1, <2>2, <2>3 DEF int_unpack_explicit
<1> QED BY <1>2, <1>3, <1>4

\* What a container decodes to is a value.
LEMMA DecodedTypes ==
  ASSUME NEW c \in Container, c.object # NULL, c.field # NULL, c.field.codec # "TEMPLATE"
  PROVE  int_value_decode(c).value \in Value
<1> DEFINE u == int_unpack_explicit(c.object, c.field)
<1>1. c.object \in Objects /\ c.field \in Field BY DEF Container
<1>2. u.header \in Objects /\ u.elements \in Seq(Objects) BY <1>1, UnpackTypes
<1>3. Encodings[c.object].elements \in Seq(Objects) /\ << c.object >> \in Seq(Objects)
  BY <1>1, EncodingTypes
<1>4. Nil \in Value /\ \A kind \in {"decoded", "array"}, s \in Seq(Objects) :
        SomeValue(kind, s) \in Value BY DEF Nil, SomeValue, Value
<1>5. int_decode_prim(c.object, c.field).value \in Value
  BY <1>3, <1>4 DEF int_decode_prim, Failed, Decoded
<1>6. int_decode_any(c.object, c.field).value \in Value
  <2>1. << u.header >> \in Seq(Objects) BY <1>2
  <2> QED BY <2>1, <1>4 DEF int_decode_any, Failed, Decoded
<1>7. int_decode_cons_of(c.object, c.field).value \in Value
  BY <1>2, <1>4 DEF int_decode_cons_of, Failed, Decoded
<1>8. c.field.codec \in {"PRIMITIVE", "ANY"} \cup OfCodecs BY <1>1 DEF Field
<1> QED BY <1>5, <1>6, <1>7, <1>8 DEF int_value_decode, OfCodecs

\* Numbers that are in a set have a first one.
LEMMA FirstOfNumbers ==
  ASSUME NEW S, S \subseteq Nat, S # {}
  PROVE  \E i \in S : \A j \in S : i <= j
<1> DEFINE T == {1..i : i \in S}
<1>1. \A i \in Nat : 1..i \in FiniteSubsetsOf(Nat) BY FS_Interval, 1 \in Int DEF FiniteSubsetsOf
<1>2. T \subseteq FiniteSubsetsOf(Nat) /\ T # {} BY <1>1
<1>3. PICK t \in T : \A r \in T : ~(<< r, t >> \in StrictSubsetOrdering(Nat))
  BY <1>2, WFMin, FS_StrictSubsetOrderingWellFounded
<1>4. PICK i \in S : t = 1..i OBVIOUS
<1>5. ASSUME NEW j \in S, j < i
      PROVE  FALSE
  <2>1. 1..j \subseteq 1..i /\ i \in 1..i /\ i \notin 1..j BY <1>5
  <2>2. << 1..j, 1..i >> \in StrictSubsetOrdering(Nat) BY <2>1 DEF StrictSubsetOrdering
  <2> QED BY <1>3, <1>4, <2>2
<1> QED BY <1>5

\* The layout that a CHOICE has matched is one of it.
LEMMA MatchedLayoutTypes ==
  ASSUME NEW o \in Objects, NEW f, f.type \in Classes, Matching(o, f) # {}
  PROVE  MatchedLayout(o, f) \in DOMAIN Definitions[f.type].layout
<1>1. Definitions[f.type].layout \in Seq(Field) BY DefinitionTypes
<1>2. Matching(o, f) \subseteq DOMAIN Definitions[f.type].layout BY DEF Matching
<1>3. Matching(o, f) \subseteq Nat BY <1>1, <1>2
<1>4. \E i \in Matching(o, f) : \A j \in Matching(o, f) : i <= j BY <1>3, FirstOfNumbers
<1>5. MatchedLayout(o, f) \in Matching(o, f) BY <1>4 DEF MatchedLayout
<1> QED BY <1>2, <1>5

LEMMA RootFieldTypes ==
  ASSUME NEW c \in Classes
  PROVE  RootField(c) \in Field
  BY DEF RootField, Field, IVars

LEMMA LayoutTypes ==
  ASSUME NEW t \in Template, TemplateInv(t), NEW i \in DOMAIN Layout(t)
  PROVE  /\ Layout(t)[i] \in Field
         /\ Layout(t)[i].codec = "TEMPLATE" => Layout(t)[i].type \in Classes
         /\ Codec(t) = "CHOICE" => Layout(t)[i].name = "@value"
<1>1. t.field.type \in Classes /\ t.field.codec = "TEMPLATE" BY DEF TemplateInv
<1> QED BY <1>1, DefinitionTypes, LayoutsAssumption DEF Layout, Codec, CodecOf

-----------------------------------------------------------------------------
(* Templates and where they are.                                           *)

LEMMA ParentOfMember ==
  ASSUME NEW p \in Seq(IVars), NEW v \in IVars
  PROVE  /\ Append(p, v) \in Seq(IVars) /\ Append(p, v) # <<>> /\ Append(p, v) # p
         /\ Parent(Append(p, v)) = p
<1>1. /\ Append(p, v) \in Seq(IVars) /\ Append(p, v) # <<>>
      /\ Len(Append(p, v)) = Len(p) + 1
      /\ \A i \in 1..Len(p) : Append(p, v)[i] = p[i] BY AppendProperties
<1>2. Append(p, v) # p BY <1>1
<1>3. Parent(Append(p, v)) = SubSeq(Append(p, v), 1, Len(p)) BY <1>1 DEF Parent
<1>4. SubSeq(Append(p, v), 1, Len(p)) = p BY <1>1
<1> QED BY <1>1, <1>2, <1>3, <1>4

LEMMA ParentIsAnother ==
  ASSUME NEW p \in Seq(IVars), p # <<>>
  PROVE  Parent(p) # p
<1>1. Len(p) \in Nat /\ Len(p) > 0 BY EmptySeq
<1>2. 1 \in Int /\ Len(p) - 1 \in Int /\ \A i \in 1..(Len(p) - 1) : p[i] \in IVars BY <1>1
<1>3. Len(Parent(p)) = IF 1 <= Len(p) - 1 THEN (Len(p) - 1) - 1 + 1 ELSE 0
  BY <1>2, SubSeqProperties DEF Parent
<1> QED BY <1>1, <1>3

\* What holds of the templates, whatever call is running.
TemplatesInv ==
  /\ DOMAIN templates \subseteq Seq(IVars)
  /\ \A p \in DOMAIN templates : templates[p] \in Template /\ TemplateInv(templates[p])
  /\ ParentsParsed

\* One template changes, and it does not become unparsed.
LEMMA ChangeOne ==
  ASSUME TemplatesInv, NEW p \in DOMAIN templates,
         NEW t \in Template, TemplateInv(t),
         templates[p].parsed => t.parsed,
         t.parsed => IsHeld(p),
         templates' = With(p, t)
  PROVE  /\ TemplatesInv'
         /\ DOMAIN templates' = DOMAIN templates
         /\ templates'[p] = t
         /\ \A q \in DOMAIN templates : q # p => templates'[q] = templates[q]
<1>1. /\ DOMAIN templates' = DOMAIN templates
      /\ templates'[p] = t
      /\ \A q \in DOMAIN templates : q # p => templates'[q] = templates[q] BY DEF With
<1>2. (DOMAIN templates \subseteq Seq(IVars))' BY <1>1 DEF TemplatesInv
<1>3. \A q \in DOMAIN templates' : templates'[q] \in Template /\ TemplateInv(templates'[q])
  BY <1>1 DEF TemplatesInv
<1>4. ASSUME NEW q \in DOMAIN templates, q # <<>>
      PROVE  Parent(q) \in DOMAIN templates /\ (templates'[q].parsed => templates'[Parent(q)].parsed)
  <2>1. Parent(q) \in DOMAIN templates /\ (templates[q].parsed => templates[Parent(q)].parsed)
    BY <1>4 DEF TemplatesInv, ParentsParsed
  <2>2. CASE q = p
    <3>1. Parent(q) # q BY <1>4, ParentIsAnother DEF TemplatesInv
    <3> QED BY <1>1, <1>4, <2>1, <2>2, <3>1 DEF IsHeld
  <2>3. CASE q # p BY <1>1, <2>1, <2>3
  <2> QED BY <2>2, <2>3
<1>5. ParentsParsed' BY <1>1, <1>4 DEF ParentsParsed, Parent
<1> QED BY <1>1, <1>2, <1>3, <1>5 DEF TemplatesInv, TemplateInv

\* An unparsed template finds the object for a member.
LEMMA FindMember ==
  ASSUME TemplatesInv, NEW p \in DOMAIN templates, ~templates[p].parsed,
         NEW t \in Template, TemplateInv(t), \A v \in IVars : t.assigned[v] = 0,
         t.parsed => IsHeld(p),
         NEW o \in Objects, NEW f \in Field,
         f.codec = "TEMPLATE" => f.type \in Classes,
         templates' = Parsed(p, t, o, f)
  PROVE  /\ TemplatesInv'
         /\ p \in DOMAIN templates'
         /\ templates'[p].parsed = t.parsed /\ templates'[p].field = t.field
         /\ templates'[p].object = t.object
         /\ \A q \in DOMAIN templates : templates[q].parsed =>
              q \in DOMAIN templates' /\ templates'[q] = templates[q]
<1> DEFINE c     == ContainerOf(o, f)
           s     == [t EXCEPT !.ivars[f.name] = c]
           child == Append(p, f.name)
           new   == krypt_asn1_template_new(o, f)
           P(q)  == Parent(q) \in DOMAIN templates'
                      /\ (templates'[q].parsed => templates'[Parent(q)].parsed)
<1>1. f.name \in IVars /\ p \in Seq(IVars) BY DEF Field, TemplatesInv
<1>2. /\ child \in Seq(IVars) /\ child # <<>> /\ child # p
      /\ Parent(child) = p BY <1>1, ParentOfMember
<1>3. /\ c \in Container /\ c # NULL
      /\ ~c.decoded => c.object # NULL /\ c.field # NULL /\ c.field.codec # "TEMPLATE"
  <2>1. Nil \in Value /\ SomeValue("template", <<>>) \in Value BY DEF Nil, SomeValue, Value
  <2>2. c \in Container BY <2>1 DEF ContainerOf, Container
  <2>3. c # NULL BY <2>2, ContainerAssumption
  <2>4. ~c.decoded => c.object # NULL /\ c.field # NULL /\ c.field.codec # "TEMPLATE"
    BY NullAssumption DEF ContainerOf
  <2> QED BY <2>2, <2>3, <2>4
<1>4. /\ s \in Template
      /\ s.parsed = t.parsed /\ s.field = t.field /\ s.object = t.object /\ s.origin = t.origin
      /\ s.assigned = t.assigned
      /\ \A v \in IVars : s.ivars[v] = IF v = f.name THEN c ELSE t.ivars[v]
  BY <1>1, <1>3 DEF Template
<1>5. TemplateInv(s) BY <1>3, <1>4 DEF TemplateInv
<1>6. CASE f.codec # "TEMPLATE"
  <2>1. templates' = With(p, s) BY <1>6 DEF Parsed
  <2>2. /\ TemplatesInv'
        /\ DOMAIN templates' = DOMAIN templates
        /\ templates'[p] = s
        /\ \A q \in DOMAIN templates : q # p => templates'[q] = templates[q]
    BY <1>4, <1>5, <2>1, ChangeOne
  <2> QED BY <1>4, <2>2
<1>7. CASE f.codec = "TEMPLATE"
  <2>1. /\ DOMAIN templates' = DOMAIN templates \cup {child}
        /\ templates'[child] = new
        /\ templates'[p] = s
        /\ \A q \in DOMAIN templates : q # p /\ q # child => templates'[q] = templates[q]
    BY <1>2, <1>7 DEF Parsed, With
  <2>2. /\ new \in Template /\ ~new.parsed
        /\ TemplateInv(new)
    <3>1. new.ivars \in [IVars -> Container \cup {NULL}] /\ new.assigned \in [IVars -> Nat]
      BY DEF krypt_asn1_template_new
    <3>2. new \in Template BY <3>1 DEF krypt_asn1_template_new, Template
    <3> QED BY <1>7, <3>2, NullAssumption DEF krypt_asn1_template_new, TemplateInv
  <2>3. (DOMAIN templates \subseteq Seq(IVars))' BY <1>2, <2>1 DEF TemplatesInv
  <2>4. \A q \in DOMAIN templates' : templates'[q] \in Template /\ TemplateInv(templates'[q])
    BY <1>4, <1>5, <2>1, <2>2 DEF TemplatesInv
  <2>5. child \in DOMAIN templates => ~templates[child].parsed
    BY <1>2 DEF TemplatesInv, ParentsParsed
  <2>6. ASSUME NEW q \in DOMAIN templates', q # <<>>
        PROVE  P(q)
    <3>1. CASE q = child BY <1>2, <2>1, <2>2, <3>1
    <3>2. CASE q = p
      <4>1. Parent(p) \in DOMAIN templates /\ Parent(p) # p
        BY <1>1, <2>6, <3>2, ParentIsAnother DEF TemplatesInv, ParentsParsed
      <4>2. t.parsed => templates[Parent(p)].parsed BY <2>6, <3>2 DEF IsHeld
      <4>3. t.parsed => Parent(p) # child BY <2>5, <4>1, <4>2
      <4> QED BY <1>4, <2>1, <3>2, <4>1, <4>2, <4>3
    <3>3. CASE q # child /\ q # p
      <4>1. q \in DOMAIN templates /\ templates'[q] = templates[q] BY <2>1, <3>3
      <4>2. Parent(q) \in DOMAIN templates /\ (templates[q].parsed => templates[Parent(q)].parsed)
        BY <2>6, <4>1 DEF TemplatesInv, ParentsParsed
      <4>3. templates[q].parsed => Parent(q) # p /\ Parent(q) # child BY <2>5, <4>2
      <4> QED BY <2>1, <4>1, <4>2, <4>3
    <3> QED BY <3>1, <3>2, <3>3
  <2>7. ParentsParsed' BY <2>6 DEF ParentsParsed, Parent
  <2>8. TemplatesInv' BY <2>3, <2>4, <2>7 DEF TemplatesInv, TemplateInv
  <2> QED BY <1>4, <2>1, <2>5, <2>8
<1> QED BY <1>6, <1>7

-----------------------------------------------------------------------------
(* The inductive invariant, and what its steps keep.                       *)

\* The types of all but the templates.
CallTypes ==
  /\ call \in Call
  /\ call.op # "none" => call.path \in DOMAIN templates
  /\ ret \in Return
  /\ sets \in 0..MaxSets

LEMMA PartsOfInv ==
  IInv <=> TemplatesInv /\ CallTypes /\ CallInv BY DEF IInv, TemplatesInv, CallTypes, TypeOK

\* What a parsed template has decoded is still there.
Kept ==
  \A p \in DOMAIN templates : templates[p].parsed =>
    /\ p \in DOMAIN templates'
    /\ templates'[p].parsed
    /\ sets' = sets =>
         \A v \in IVars :
           LET c == templates[p].ivars[v]
           IN  (c = NULL \/ (c # NULL /\ c.decoded)) => templates'[p].ivars[v] = c

ParsedUnchanged ==
  \A q \in DOMAIN templates : templates[q].parsed =>
    q \in DOMAIN templates' /\ templates'[q] = templates[q]

LEMMA UnchangedIsKept ==
  ASSUME ParsedUnchanged
  PROVE  Kept
  BY DEF ParsedUnchanged, Kept

LEMMA IdleTypes ==
  Idle \in Call /\ Idle.op = "none" BY DEF Idle, Call, IVars

LEMMA GetCallTypes ==
  ASSUME NEW p \in Seq(IVars), NEW v \in IVars
  PROVE  LET c == [Idle EXCEPT !.op = "get", !.path = p, !.ivar = v]
         IN  c \in Call /\ c.op = "get" /\ c.path = p BY IdleTypes DEF Call

LEMMA ReturnTypes ==
  ASSUME NEW op \in {"none", "parse_der", "new", "get", "set", "to_der"}, NEW ok \in BOOLEAN,
         NEW p \in Seq(IVars), Returns(op, ok, p)
  PROVE  ret' \in Return
  BY DEF Returns, Return

LEMMA InitInv ==
  ASSUME Init
  PROVE  IInv
<1>1. DOMAIN templates = {} BY DEF Init
<1>2. TemplatesInv BY <1>1 DEF TemplatesInv, ParentsParsed
<1>3. CallTypes /\ CallInv BY IdleTypes, MaxSetsAssumption DEF Init, CallTypes, CallInv, Return
<1> QED BY <1>2, <1>3, PartsOfInv

\* A template is made, the first one.
LEMMA FirstTemplate ==
  ASSUME IInv, templates = <<>>, NEW t \in Template, TemplateInv(t),
         templates' = [p \in {<<>>} |-> t], call.op = "none",
         UNCHANGED << call, sets >>, ret' \in Return
  PROVE  IInv' /\ Kept
<1>1. DOMAIN templates = {} /\ DOMAIN templates' = {<<>>} /\ templates'[<<>>] = t OBVIOUS
<1>2. TemplatesInv' BY <1>1 DEF TemplatesInv, ParentsParsed, TemplateInv
<1>3. CallTypes' /\ CallInv' BY DEF IInv, TypeOK, CallTypes, CallInv
<1>4. Kept BY <1>1 DEF Kept
<1> QED BY <1>2, <1>3, <1>4, PartsOfInv DEF IInv, TemplatesInv, CallTypes, TypeOK

LEMMA NewTypes ==
  ASSUME NEW o \in Objects \cup {NULL}, NEW c \in Classes
  PROVE  LET t == krypt_asn1_template_new(o, RootField(c))
         IN  /\ t \in Template
             /\ o # NULL => TemplateInv(t)
             /\ o = NULL => /\ [t EXCEPT !.parsed = TRUE] \in Template
                            /\ TemplateInv([t EXCEPT !.parsed = TRUE])
<1> DEFINE t == krypt_asn1_template_new(o, RootField(c))
           u == [t EXCEPT !.parsed = TRUE]
<1>1. RootField(c) \in Field /\ RootField(c).codec = "TEMPLATE" /\ RootField(c).type = c
  BY RootFieldTypes DEF RootField
<1>2. t.ivars \in [IVars -> Container \cup {NULL}] /\ t.assigned \in [IVars -> Nat]
  BY DEF krypt_asn1_template_new
<1>3. t \in Template BY <1>1, <1>2 DEF krypt_asn1_template_new, Template
<1>4. o # NULL => TemplateInv(t) BY <1>1 DEF krypt_asn1_template_new, TemplateInv
<1>5. u \in Template /\ u.parsed /\ u.object = o /\ u.field = t.field
        /\ u.ivars = t.ivars /\ u.assigned = t.assigned
  BY <1>3 DEF krypt_asn1_template_new, Template
<1>6. o = NULL => TemplateInv(u) BY <1>1, <1>5 DEF krypt_asn1_template_new, TemplateInv
<1> QED BY <1>3, <1>4, <1>5, <1>6

LEMMA ParseDerInv ==
  ASSUME IInv, NEW d \in Documents, ParseDer(d[1], d[2])
  PROVE  IInv' /\ Kept
<1>1. d[1] \in Classes /\ d[2] \in Objects BY DocumentsAssumption
<1>2. ret' \in Return
  <2>1. <<>> \in Seq(IVars) OBVIOUS
  <2>2. Returns("parse_der", TRUE, <<>>) \/ Returns("parse_der", FALSE, <<>>) BY DEF ParseDer
  <2> QED BY <2>1, <2>2, ReturnTypes
<1>3. CASE Match(d[2], RootField(d[1])) = "match"
  <2> DEFINE t == krypt_asn1_template_new(d[2], RootField(d[1]))
  <2>1. t \in Template /\ TemplateInv(t) BY <1>1, NewTypes, NullAssumption
  <2>2. templates = <<>> /\ templates' = [p \in {<<>>} |-> t] /\ call.op = "none"
          /\ UNCHANGED << call, sets >> BY <1>3 DEF ParseDer
  <2> QED BY <1>2, <2>1, <2>2, FirstTemplate
<1>4. CASE Match(d[2], RootField(d[1])) # "match"
  <2>1. UNCHANGED << templates, call, sets >> BY <1>4 DEF ParseDer
  <2> QED BY <1>2, <2>1 DEF IInv, TypeOK, TemplateInv, ParentsParsed, CallInv, IsHeld, This, Kept
<1> QED BY <1>3, <1>4

LEMMA NewInv ==
  ASSUME IInv, NEW c \in Classes, New(c)
  PROVE  IInv' /\ Kept
<1> DEFINE t == [krypt_asn1_template_new(NULL, RootField(c)) EXCEPT !.parsed = TRUE]
<1>1. t \in Template /\ TemplateInv(t) BY NewTypes
<1>2. templates = <<>> /\ templates' = [p \in {<<>>} |-> t] /\ call.op = "none"
        /\ UNCHANGED << call, sets >> BY DEF New
<1>3. ret' \in Return
  <2>1. <<>> \in Seq(IVars) OBVIOUS
  <2>2. Returns("new", TRUE, <<>>) BY DEF New
  <2> QED BY <2>1, <2>2, ReturnTypes
<1> QED BY <1>1, <1>2, <1>3, FirstTemplate

\* While a call runs, its template is one of those there are.
LEMMA CallFacts ==
  ASSUME IInv
  PROVE  /\ TemplatesInv /\ call \in Call
         /\ call.op # "none" =>
              /\ call.path \in DOMAIN templates /\ call.path \in Seq(IVars)
              /\ This \in Template /\ TemplateInv(This) /\ IsHeld(call.path)
              /\ This.field.type \in Classes
              /\ ~This.parsed => This.object \in Objects /\ \A v \in IVars : This.assigned[v] = 0
<1>1. TemplatesInv /\ CallTypes /\ CallInv BY PartsOfInv
<1>2. ASSUME call.op # "none"
      PROVE  /\ call.path \in DOMAIN templates /\ call.path \in Seq(IVars)
             /\ This \in Template /\ TemplateInv(This) /\ IsHeld(call.path)
  BY <1>1, <1>2 DEF TemplatesInv, CallTypes, CallInv, This
<1>3. ASSUME call.op # "none", ~This.parsed
      PROVE  This.object \in Objects /\ \A v \in IVars : This.assigned[v] = 0
  BY <1>2, <1>3 DEF TemplateInv, Template
<1>4. call.op # "none" => This.field.type \in Classes BY <1>2 DEF TemplateInv
<1> QED BY <1>1, <1>2, <1>3, <1>4 DEF CallTypes

\* The templates are as they should be: what a call still has to show.
LEMMA AfterStep ==
  ASSUME IInv, TemplatesInv', call' \in Call, ret' \in Return, sets' \in 0..MaxSets,
         call'.op # "none" => call'.path \in DOMAIN templates' /\ IsHeld(call.path)',
         call'.op = "parse" =>
           /\ ~templates'[call'.path].parsed
           /\ Codec(templates'[call'.path]) \in ConsCodecs
           /\ call'.i \in 1..(Len(Layout(templates'[call'.path])) + 1)
           /\ call'.i <= Len(Layout(templates'[call'.path])) => call'.cur # NULL
  PROVE  IInv'
<1>1. CallTypes' BY DEF CallTypes
<1>2. CallInv' BY DEF CallInv, This, Codec, Layout
<1> QED
  BY <1>1, <1>2 DEF IInv, TemplatesInv, CallTypes, TypeOK, CallInv, TemplateInv, ParentsParsed

\* A get that fails has changed no more than members of its template.
LEMMA GetFailsInv ==
  ASSUME IInv, call.op # "none", TemplatesInv', GetFails, UNCHANGED sets
  PROVE  IInv'
<1>1. ret' \in Return BY CallFacts, ReturnTypes DEF GetFails
<1>2. call' \in Call /\ call'.op = "none" /\ sets' \in 0..MaxSets
  BY IdleTypes DEF GetFails, IInv, TypeOK
<1> QED BY <1>1, <1>2, AfterStep

LEMMA UnchangedTemplates ==
  ASSUME IInv, UNCHANGED templates
  PROVE  TemplatesInv' /\ ParsedUnchanged
  BY PartsOfInv DEF TemplatesInv, TemplateInv, ParentsParsed, Parent, ParsedUnchanged

-----------------------------------------------------------------------------
(* The steps of a call.                                                    *)

LEMMA GetInv ==
  ASSUME IInv, NEW p \in DOMAIN templates, IsHeld(p), NEW v \in Members(templates[p]), Get(p, v)
  PROVE  IInv' /\ Kept
<1>1. TemplatesInv' /\ ParsedUnchanged BY UnchangedTemplates DEF Get
<1>2. p \in Seq(IVars) /\ templates[p] \in Template /\ TemplateInv(templates[p])
  BY CallFacts DEF TemplatesInv
<1>3. v \in IVars BY <1>2, LayoutTypes DEF Members, IVars, Field
<1>4. call' \in Call /\ call'.op = "get" /\ call'.path = p BY <1>2, <1>3, GetCallTypes DEF Get
<1>5. IsHeld(call.path)' BY <1>4 DEF Get, IsHeld, Parent
<1>6. ret' \in Return /\ sets' \in 0..MaxSets BY DEF Get, IInv, TypeOK
<1>7. IInv' BY <1>1, <1>4, <1>5, <1>6, AfterStep DEF Get
<1> QED BY <1>1, <1>7, UnchangedIsKept

LEMMA ParseConsBeginsInv ==
  ASSUME IInv, ParseConsBegins
  PROVE  IInv' /\ Kept
<1> DEFINE u == int_unpack_explicit(This.object, This.field)
<1>1. TemplatesInv' /\ ParsedUnchanged BY UnchangedTemplates DEF ParseConsBegins
<1>2. /\ call.op = "get" /\ ~This.parsed /\ Codec(This) \in ConsCodecs
      /\ UNCHANGED << templates, sets >> BY DEF ParseConsBegins
<1>3. CASE GetFails BY <1>1, <1>2, <1>3, GetFailsInv, UnchangedIsKept
<1>4. CASE /\ u.elements # <<>> /\ UNCHANGED ret
           /\ call' = [call EXCEPT !.op = "parse", !.i = 1, !.cur = Head(u.elements),
                                   !.rest = Tail(u.elements)]
  <2>1. /\ call \in Call /\ call.path \in DOMAIN templates /\ IsHeld(call.path)
        /\ This.object \in Objects /\ This.field.type \in Classes BY <1>2, CallFacts
  <2>2. u.elements \in Seq(Objects) BY <2>1, UnpackTypes
  <2>3. Head(u.elements) \in Objects /\ Tail(u.elements) \in Seq(Objects) BY <1>4, <2>2
  <2>4. /\ call' \in Call /\ call'.op = "parse" /\ call'.path = call.path
        /\ call'.i = 1 /\ call'.cur = Head(u.elements) BY <1>4, <2>1, <2>3 DEF Call
  <2>5. Len(Layout(This)) \in Nat BY <2>1, DefinitionTypes DEF Layout
  <2>6. call'.i \in 1..(Len(Layout(This)) + 1) /\ call'.cur # NULL
    BY <2>3, <2>4, <2>5, NullAssumption
  <2>7. templates'[call'.path] = This BY <1>2, <2>4 DEF This
  <2>8. IsHeld(call.path)' /\ ret' \in Return /\ sets' \in 0..MaxSets
    BY <1>2, <1>4, <2>1, <2>4 DEF IsHeld, Parent, IInv, TypeOK
  <2>9. IInv' BY <1>1, <1>2, <2>1, <2>4, <2>6, <2>7, <2>8, AfterStep
  <2> QED BY <1>1, <2>9, UnchangedIsKept
<1> QED BY <1>3, <1>4 DEF ParseConsBegins

LEMMA ParseConsEndsInv ==
  ASSUME IInv, ParseConsEnds
  PROVE  IInv' /\ Kept
<1>1. call.op = "parse" /\ UNCHANGED sets /\ TemplatesInv BY CallFacts DEF ParseConsEnds
<1>2. /\ call.path \in DOMAIN templates /\ call.path \in Seq(IVars)
      /\ This \in Template /\ TemplateInv(This) /\ IsHeld(call.path)
      /\ ~This.parsed /\ \A v \in IVars : This.assigned[v] = 0
  BY <1>1, CallFacts DEF IInv, CallInv
<1>3. CASE GetFails /\ UNCHANGED templates
  BY <1>1, <1>3, UnchangedTemplates, GetFailsInv, UnchangedIsKept
<1>4. CASE /\ templates' = With(call.path, IsParsed(This)) /\ UNCHANGED ret
           /\ call' = [Idle EXCEPT !.op = "get", !.path = call.path, !.ivar = call.ivar]
  <2> DEFINE t == IsParsed(This)
  <2>1. t \in Template /\ TemplateInv(t) /\ t.parsed BY <1>2 DEF IsParsed, Template, TemplateInv
  <2>2. /\ TemplatesInv' /\ DOMAIN templates' = DOMAIN templates
        /\ templates'[call.path] = t
        /\ \A q \in DOMAIN templates : q # call.path => templates'[q] = templates[q]
    BY <1>1, <1>2, <1>4, <2>1, ChangeOne
  <2>3. call' \in Call /\ call'.op = "get" /\ call'.path = call.path
    <3>1. call.ivar \in IVars BY CallFacts DEF Call
    <3> QED BY <1>2, <1>4, <3>1, GetCallTypes
  <2>4. IsHeld(call.path)'
    <3>1. call.path # <<>> => Parent(call.path) # call.path /\ Parent(call.path) \in DOMAIN templates
      BY <1>1, <1>2, ParentIsAnother DEF TemplatesInv, ParentsParsed
    <3> QED BY <1>2, <2>2, <2>3, <3>1 DEF IsHeld, Parent
  <2>5. ret' \in Return /\ sets' \in 0..MaxSets BY <1>1, <1>4 DEF IInv, TypeOK
  <2>6. IInv' BY <1>2, <2>2, <2>3, <2>4, <2>5, AfterStep
  <2>7. ParsedUnchanged BY <1>2, <2>2 DEF ParsedUnchanged, This
  <2> QED BY <2>6, <2>7, UnchangedIsKept
<1> QED BY <1>3, <1>4 DEF ParseConsEnds

\* A member of the template of the call is found, and the get goes on.
LEMMA FoundInv ==
  ASSUME IInv, call.op # "none", ~This.parsed, UNCHANGED sets,
         NEW t \in Template, TemplateInv(t), t.field = This.field,
         \A v \in IVars : t.assigned[v] = 0,
         NEW o \in Objects, NEW f \in Field, f.codec = "TEMPLATE" => f.type \in Classes,
         templates' = Parsed(call.path, t, o, f)
  PROVE  /\ TemplatesInv' /\ ParsedUnchanged
         /\ call.path \in DOMAIN templates'
         /\ templates'[call.path].parsed = t.parsed
         /\ templates'[call.path].field = This.field
         /\ call'.path = call.path => IsHeld(call.path)'
<1>1. /\ TemplatesInv /\ call.path \in DOMAIN templates /\ IsHeld(call.path)
      /\ templates[call.path] = This BY CallFacts DEF This
<1>2. /\ TemplatesInv' /\ call.path \in DOMAIN templates'
      /\ templates'[call.path].parsed = t.parsed /\ templates'[call.path].field = t.field
      /\ ParsedUnchanged BY <1>1, FindMember DEF ParsedUnchanged
<1>3. call'.path = call.path => IsHeld(call.path)'
  BY <1>1, <1>2 DEF IsHeld, Parent, ParsedUnchanged, TemplatesInv, ParentsParsed
<1> QED BY <1>2, <1>3

\* Defaults go to members of an unparsed template.
LEMMA DefaultsTypes ==
  ASSUME NEW t \in Template, TemplateInv(t), ~t.parsed, NEW names, NEW v \in IVars
  PROVE  /\ WithDefaults(t, names) \in Template /\ TemplateInv(WithDefaults(t, names))
         /\ int_set_default_value(t, v) \in Template /\ TemplateInv(int_set_default_value(t, v))
         /\ \A s \in {WithDefaults(t, names), int_set_default_value(t, v)} :
              s.parsed = t.parsed /\ s.field = t.field /\ s.object = t.object
                /\ s.assigned = t.assigned
<1> DEFINE c == krypt_asn1_template_new_value(SomeValue("default", <<>>))
           d == [w \in IVars |-> IF w \in names THEN c ELSE t.ivars[w]]
           e == [t.ivars EXCEPT ![v] = c]
<1>1. c \in Container /\ c.decoded
  BY DEF krypt_asn1_template_new_value, SomeValue, Value, Container
<1>2. t.ivars \in [IVars -> Container \cup {NULL}] BY DEF Template
<1>3. d \in [IVars -> Container \cup {NULL}] /\ e \in [IVars -> Container \cup {NULL}]
  BY <1>1, <1>2
<1>4. \A w \in IVars : /\ d[w] = c \/ d[w] = t.ivars[w]
                       /\ e[w] = c \/ e[w] = t.ivars[w] BY <1>2
<1> HIDE DEF c, d, e
<1>5. ASSUME NEW i \in {d, e}
      PROVE  LET s == [t EXCEPT !.ivars = i]
             IN  /\ s \in Template /\ TemplateInv(s)
                 /\ s.parsed = t.parsed /\ s.field = t.field /\ s.object = t.object
                 /\ s.assigned = t.assigned
  <2> DEFINE s == [t EXCEPT !.ivars = i]
  <2>1. /\ s \in Template /\ s.ivars = i
        /\ s.parsed = t.parsed /\ s.field = t.field /\ s.object = t.object
        /\ s.assigned = t.assigned /\ s.origin = t.origin BY <1>3 DEF Template
  <2>2. TemplateInv(s) BY <1>1, <1>4, <2>1 DEF TemplateInv
  <2> QED BY <2>1, <2>2
<1>6. /\ WithDefaults(t, names) = [t EXCEPT !.ivars = d]
      /\ int_set_default_value(t, v) = [t EXCEPT !.ivars = e]
  BY DEF WithDefaults, int_set_default_value, c, d, e
<1> QED BY <1>5, <1>6

LEMMA NextMemberTypes ==
  ASSUME call \in Call, NEW cur \in Objects \cup {NULL}, NEW rest \in Seq(Objects), NEW n \in Nat
  PROVE  LET c == NextMember(cur, rest, n)
         IN  /\ c \in Call /\ c.op = call.op /\ c.path = call.path
             /\ c.i = call.i + 1 /\ c.cur = cur
<1>1. call.i + 1 \in Nat /\ call.num_parsed + n \in Nat BY DEF Call
<1> QED BY <1>1 DEF NextMember, Call

\* Where a turn of the loop leads, if it does not fail.
LEMMA MatchGoesOn ==
  ASSUME IInv, MatchMember, TemplatesInv', UNCHANGED << ret, sets >>,
         call.path \in DOMAIN templates', IsHeld(call.path)',
         ~templates'[call.path].parsed, templates'[call.path].field = This.field,
         call' \in Call, call'.op = "parse", call'.path = call.path,
         call'.i \in (call.i + 1)..(Len(Layout(This)) + 1),
         call'.i <= Len(Layout(This)) => call'.cur # NULL
  PROVE  IInv'
<1>1. Codec(This) \in ConsCodecs /\ call.i \in Nat /\ call.i >= 1
  BY CallFacts DEF MatchMember, IInv, CallInv, Call
<1>2. /\ Codec(templates'[call'.path]) = Codec(This)
      /\ Layout(templates'[call'.path]) = Layout(This) BY DEF Codec, Layout
<1>3. Len(Layout(This)) \in Nat BY CallFacts, DefinitionTypes DEF Layout, MatchMember
<1>4. /\ call'.i \in 1..(Len(Layout(templates'[call'.path])) + 1)
      /\ call'.i <= Len(Layout(templates'[call'.path])) => call'.cur # NULL BY <1>1, <1>2, <1>3
<1>5. ret' \in Return /\ sets' \in 0..MaxSets BY DEF IInv, TypeOK
<1> QED BY <1>1, <1>2, <1>4, <1>5, AfterStep

LEMMA MatchMemberInv ==
  ASSUME IInv, MatchMember
  PROVE  IInv' /\ Kept
<1> DEFINE layout == Layout(This)
           f      == layout[call.i]
           match  == Match(call.cur, f)
           last   == call.i = Len(layout)
           next   == NextObject(call.rest, Content.junk)
           d      == int_set_default_value(This, DefaultName(f))
           w      == WithDefaults(This, RestNames(layout, call.i + 1))
<1>1. /\ call.op = "parse" /\ call.op # "none" /\ call.i <= Len(layout) /\ UNCHANGED sets
      /\ TemplatesInv /\ call \in Call BY CallFacts DEF MatchMember
<1>2. /\ call.path \in DOMAIN templates /\ templates[call.path] = This
      /\ This \in Template /\ TemplateInv(This) /\ IsHeld(call.path)
      /\ ~This.parsed /\ \A v \in IVars : This.assigned[v] = 0
  BY <1>1, CallFacts DEF IInv, CallInv, This
<1>3. layout \in Seq(Field) /\ call.i \in 1..Len(layout) /\ call.cur # NULL
  BY <1>1, CallFacts, DefinitionTypes DEF IInv, CallInv, Layout
<1>4. f \in Field /\ (f.codec = "TEMPLATE" => f.type \in Classes) /\ f.name \in IVars
  BY <1>2, <1>3, LayoutTypes DEF Field
<1>5. call.cur \in Objects /\ call.rest \in Seq(Objects) BY <1>1, <1>3 DEF Call
<1>6. DefaultName(f) \in IVars BY <1>4 DEF DefaultName, IVars
<1>7. /\ d \in Template /\ TemplateInv(d) /\ w \in Template /\ TemplateInv(w)
      /\ \A t \in {d, w} : t.parsed = This.parsed /\ t.field = This.field
                             /\ t.object = This.object /\ t.assigned = This.assigned
  BY <1>2, <1>6, DefaultsTypes
<1> HIDE DEF layout, f, match, last, next, d, w
<1>8. \A cur \in Objects \cup {NULL}, rest \in Seq(Objects), n \in Nat :
        LET c == NextMember(cur, rest, n)
        IN  /\ c \in Call /\ c.op = "parse" /\ c.path = call.path
            /\ c.i = call.i + 1 /\ c.cur = cur BY <1>1, NextMemberTypes
<1>9. \A t \in {This, d, w} :
        /\ t \in Template /\ TemplateInv(t) /\ t.field = This.field /\ ~t.parsed
        /\ \A v \in IVars : t.assigned[v] = 0 BY <1>2, <1>7
<1>10. ASSUME NEW t \in {This, d, w}, templates' = Parsed(call.path, t, call.cur, f)
       PROVE  /\ TemplatesInv' /\ ParsedUnchanged
              /\ call.path \in DOMAIN templates'
              /\ ~templates'[call.path].parsed
              /\ templates'[call.path].field = This.field
              /\ call'.path = call.path => IsHeld(call.path)'
  BY <1>1, <1>2, <1>4, <1>5, <1>9, <1>10, FoundInv
<1>11. CASE match = "error" /\ GetFails /\ UNCHANGED templates
  BY <1>1, <1>11, UnchangedTemplates, GetFailsInv, UnchangedIsKept
<1>12. CASE match = "no" /\ call' = NextMember(call.cur, call.rest, 0) /\ UNCHANGED << templates, ret >>
  <2>1. TemplatesInv' /\ ParsedUnchanged BY <1>12, UnchangedTemplates
  <2>2. /\ call' \in Call /\ call'.op = "parse" /\ call'.path = call.path
        /\ call'.i = call.i + 1 /\ call'.cur = call.cur BY <1>5, <1>8, <1>12
  <2>3. call'.i \in (call.i + 1)..(Len(layout) + 1) BY <1>3, <2>2
  <2>4. IsHeld(call.path)' BY <1>2, <1>12, <2>2 DEF IsHeld, Parent
  <2>5. IInv' BY <1>1, <1>2, <1>3, <1>12, <2>1, <2>2, <2>3, <2>4, MatchGoesOn DEF layout
  <2> QED BY <2>1, <2>5, UnchangedIsKept
<1>13. CASE /\ match = "default" /\ call' = NextMember(call.cur, call.rest, 0)
            /\ templates' = With(call.path, d) /\ UNCHANGED ret
  <2>1. /\ TemplatesInv' /\ DOMAIN templates' = DOMAIN templates
        /\ templates'[call.path] = d
        /\ \A q \in DOMAIN templates : q # call.path => templates'[q] = templates[q]
    BY <1>1, <1>2, <1>9, <1>13, ChangeOne
  <2>2. /\ call' \in Call /\ call'.op = "parse" /\ call'.path = call.path
        /\ call'.i = call.i + 1 /\ call'.cur = call.cur BY <1>5, <1>8, <1>13
  <2>3. call'.i \in (call.i + 1)..(Len(layout) + 1) BY <1>3, <2>2
  <2>4. ParsedUnchanged BY <1>2, <2>1 DEF ParsedUnchanged
  <2>5. IsHeld(call.path)'
    BY <1>1, <1>2, <2>2, <2>4 DEF IsHeld, Parent, ParsedUnchanged, TemplatesInv, ParentsParsed
  <2>6. IInv' BY <1>1, <1>2, <1>3, <1>9, <1>13, <2>1, <2>2, <2>3, <2>5, MatchGoesOn DEF layout
  <2> QED BY <2>4, <2>6, UnchangedIsKept
<1>14. CASE /\ match = "match" /\ last /\ call' = NextMember(NULL, call.rest, 1)
            /\ templates' = Parsed(call.path, This, call.cur, f) /\ UNCHANGED ret
  <2>1. /\ call' \in Call /\ call'.op = "parse" /\ call'.path = call.path
        /\ call'.i = call.i + 1
    BY <1>1, <1>5, <1>14, NextMemberTypes, NULL \in Objects \cup {NULL}, 1 \in Nat
  <2>2. call'.i \in (call.i + 1)..(Len(layout) + 1) /\ ~(call'.i <= Len(layout))
    BY <1>3, <1>14, <2>1 DEF last
  <2>3. IInv' BY <1>1, <1>10, <1>14, <2>1, <2>2, MatchGoesOn DEF layout
  <2> QED BY <1>10, <1>14, <2>3, UnchangedIsKept
<1>15. CASE /\ match = "match" /\ next = "ok"
            /\ call' = NextMember(Head(call.rest), Tail(call.rest), 1)
            /\ templates' = Parsed(call.path, This, call.cur, f) /\ UNCHANGED ret
  <2>1. Head(call.rest) \in Objects /\ Tail(call.rest) \in Seq(Objects)
    BY <1>5, <1>15 DEF next, NextObject
  <2>2. /\ call' \in Call /\ call'.op = "parse" /\ call'.path = call.path
        /\ call'.i = call.i + 1 /\ call'.cur # NULL
    <3>1. Head(call.rest) \in Objects \cup {NULL} /\ Head(call.rest) # NULL
      BY <2>1, NullAssumption
    <3> QED BY <1>1, <1>15, <2>1, <3>1, NextMemberTypes, 1 \in Nat
  <2>3. call'.i \in (call.i + 1)..(Len(layout) + 1) BY <1>3, <2>2
  <2>4. IInv' BY <1>1, <1>10, <1>15, <2>2, <2>3, MatchGoesOn DEF layout
  <2> QED BY <1>10, <1>15, <2>4, UnchangedIsKept
<1>16. CASE GetFails /\ templates' = Parsed(call.path, This, call.cur, f)
  BY <1>1, <1>10, <1>16, GetFailsInv, UnchangedIsKept
<1>17. CASE /\ templates' = Parsed(call.path, w, call.cur, f) /\ UNCHANGED ret
            /\ call' = [NextMember(NULL, <<>>, 1) EXCEPT !.i = Len(layout) + 1]
  <2>1. Len(layout) + 1 \in Nat BY <1>3
  <2>2. /\ call' \in Call /\ call'.op = "parse" /\ call'.path = call.path
        /\ call'.i = Len(layout) + 1
    <3> DEFINE c == NextMember(NULL, <<>>, 1)
    <3>1. <<>> \in Seq(Objects) OBVIOUS
    <3>2. c \in Call /\ c.op = "parse" /\ c.path = call.path
      BY <1>1, <3>1, NextMemberTypes, NULL \in Objects \cup {NULL}, 1 \in Nat
    <3>3. call' = [c EXCEPT !.i = Len(layout) + 1] BY <1>17
    <3> HIDE DEF c
    <3> QED BY <2>1, <3>2, <3>3 DEF Call
  <2>3. call'.i \in (call.i + 1)..(Len(layout) + 1) /\ ~(call'.i <= Len(layout)) BY <1>3, <2>2
  <2>4. IInv' BY <1>1, <1>10, <1>17, <2>2, <2>3, MatchGoesOn DEF layout
  <2> QED BY <1>10, <1>17, <2>4, UnchangedIsKept
<1>18. CASE GetFails /\ templates' = Parsed(call.path, w, call.cur, f)
  BY <1>1, <1>10, <1>18, GetFailsInv, UnchangedIsKept
<1> QED BY <1>11, <1>12, <1>13, <1>14, <1>15, <1>16, <1>17, <1>18
  DEF MatchMember, layout, f, match, last, next, d, w

\* Parsed, a template gives its object up, and its calls go on.
LEMMA ParsedTypes ==
  ASSUME NEW t \in Template, TemplateInv(t), \A v \in IVars : t.assigned[v] = 0,
         NEW n \in Nat
  PROVE  \A s \in {IsParsed(t), [IsParsed(t) EXCEPT !.tag = n]} :
           /\ s \in Template /\ TemplateInv(s) /\ s.parsed /\ s.field = t.field
           /\ \A v \in IVars : s.assigned[v] = 0
<1>1. /\ IsParsed(t) \in Template /\ IsParsed(t).parsed /\ IsParsed(t).object = NULL
      /\ IsParsed(t).field = t.field /\ IsParsed(t).ivars = t.ivars
      /\ IsParsed(t).assigned = t.assigned BY DEF IsParsed, Template
<1>2. ASSUME NEW s \in Template, s.parsed, s.object = NULL, s.field = t.field,
             s.ivars = t.ivars, s.assigned = t.assigned
      PROVE  TemplateInv(s) /\ \A v \in IVars : s.assigned[v] = 0
  BY <1>2 DEF TemplateInv
<1> HIDE DEF IsParsed
<1> DEFINE u == [IsParsed(t) EXCEPT !.tag = n]
<1>3. /\ u \in Template /\ u.parsed /\ u.object = NULL
      /\ u.field = t.field /\ u.ivars = t.ivars /\ u.assigned = t.assigned BY <1>1 DEF Template
<1> QED BY <1>1, <1>2, <1>3

LEMMA ParseChoiceInv ==
  ASSUME IInv, ParseChoice
  PROVE  IInv' /\ Kept
<1> DEFINE o == This.object
           f == Layout(This)[MatchedLayout(o, This.field)]
           x == Chosen(o, This.field)
           t == [IsParsed(This) EXCEPT !.tag = Encodings[x].tag]
<1>1. /\ call.op = "get" /\ call.op # "none" /\ ~This.parsed /\ Codec(This) = "CHOICE"
      /\ UNCHANGED sets BY DEF ParseChoice
<1>2. /\ call \in Call /\ This \in Template /\ TemplateInv(This) /\ This.field.type \in Classes
      /\ o \in Objects /\ \A v \in IVars : This.assigned[v] = 0 BY <1>1, CallFacts
<1>3. CASE GetFails /\ UNCHANGED templates
  BY <1>1, <1>3, UnchangedTemplates, GetFailsInv, UnchangedIsKept
<1>4. CASE /\ int_match_choice(o, This.field) = "match"
           /\ templates' = Parsed(call.path, t, x, f) /\ UNCHANGED << call, ret >>
  <2>1. Matching(o, This.field) # {} /\ HasChosen(o, This.field) BY <1>4 DEF int_match_choice
  <2>2. x \in Objects BY <1>2, <2>1, EncodingTypes DEF Chosen, HasChosen
  <2>3. MatchedLayout(o, This.field) \in DOMAIN Layout(This)
    BY <1>2, <2>1, MatchedLayoutTypes DEF Layout
  <2>4. f \in Field /\ (f.codec = "TEMPLATE" => f.type \in Classes) BY <1>2, <2>3, LayoutTypes
  <2>5. Encodings[x].tag \in Nat BY <2>2, EncodingTypes
  <2>6. /\ t \in Template /\ TemplateInv(t) /\ t.parsed /\ t.field = This.field
        /\ \A v \in IVars : t.assigned[v] = 0 BY <1>2, <2>5, ParsedTypes
  <2> HIDE DEF t, x, f
  <2>7. /\ TemplatesInv' /\ ParsedUnchanged
        /\ call.path \in DOMAIN templates' /\ IsHeld(call.path)'
    BY <1>1, <1>4, <2>2, <2>4, <2>6, FoundInv
  <2>8. IInv' BY <1>1, <1>2, <1>4, <2>7, AfterStep DEF IInv, TypeOK
  <2> QED BY <2>7, <2>8, UnchangedIsKept
<1> QED BY <1>3, <1>4 DEF ParseChoice

LEMMA ParseOfInv ==
  ASSUME IInv, ParseOf
  PROVE  IInv' /\ Kept
<1> DEFINE t == IsParsed(This)
           f == OwnField(This)
<1>1. /\ call.op = "get" /\ call.op # "none" /\ ~This.parsed /\ Codec(This) \in OfCodecs
      /\ templates' = Parsed(call.path, t, This.object, f)
      /\ UNCHANGED << call, ret, sets >> BY DEF ParseOf
<1>2. /\ call \in Call /\ This \in Template /\ TemplateInv(This) /\ This.field.type \in Classes
      /\ This.object \in Objects /\ \A v \in IVars : This.assigned[v] = 0 BY <1>1, CallFacts
<1>3. /\ t \in Template /\ TemplateInv(t) /\ t.parsed /\ t.field = This.field
      /\ \A v \in IVars : t.assigned[v] = 0 BY <1>2, ParsedTypes, 0 \in Nat
<1>4. f \in Field /\ f.codec # "TEMPLATE"
  <2>1. This.field \in Field /\ Definitions[This.field.type].type \in Nat \cup Classes
    BY <1>2, DefinitionTypes DEF Template
  <2> QED BY <1>1, <2>1 DEF OwnField, Field, IVars, OfCodecs
<1> HIDE DEF t, f
<1>5. /\ TemplatesInv' /\ ParsedUnchanged
      /\ call.path \in DOMAIN templates' /\ IsHeld(call.path)'
  BY <1>1, <1>2, <1>3, <1>4, FoundInv
<1>6. IInv' BY <1>1, <1>2, <1>5, AfterStep DEF IInv, TypeOK
<1> QED BY <1>5, <1>6, UnchangedIsKept

\* A template stays parsed while one of its members changes.
LEMMA ChangeMember ==
  ASSUME IInv, NEW p \in DOMAIN templates, IsHeld(p),
         NEW t \in Template, TemplateInv(t), t.parsed = templates[p].parsed,
         templates' = With(p, t)
  PROVE  /\ TemplatesInv' /\ DOMAIN templates' = DOMAIN templates
         /\ templates'[p] = t
         /\ \A q \in DOMAIN templates : q # p => templates'[q] = templates[q]
  BY ChangeOne, CallFacts

LEMMA GetReturnsInv ==
  ASSUME IInv, GetReturns
  PROVE  IInv' /\ Kept
<1> DEFINE v == call.ivar
           c == This.ivars[v]
           d == int_value_decode(c)
           e == [c EXCEPT !.decoded = TRUE, !.value = d.value]
           t == [This EXCEPT !.ivars[v] = e]
<1>1. call.op = "get" /\ call.op # "none" /\ This.parsed /\ UNCHANGED sets BY DEF GetReturns
<1>2. /\ call \in Call /\ call.path \in DOMAIN templates /\ call.path \in Seq(IVars)
      /\ This \in Template /\ TemplateInv(This) /\ IsHeld(call.path) /\ v \in IVars
      /\ templates[call.path] = This BY <1>1, CallFacts DEF Call, This
<1>3. CASE GetFails /\ UNCHANGED templates
  BY <1>1, <1>3, UnchangedTemplates, GetFailsInv, UnchangedIsKept
<1>4. CASE call' = Idle /\ Returns("get", TRUE, call.path) /\ UNCHANGED templates
  <2>1. TemplatesInv' /\ ParsedUnchanged BY <1>4, UnchangedTemplates
  <2>2. ret' \in Return /\ sets' \in 0..MaxSets BY <1>1, <1>2, <1>4, ReturnTypes DEF IInv, TypeOK
  <2>3. IInv' BY <1>4, <2>1, <2>2, IdleTypes, AfterStep
  <2> QED BY <2>1, <2>3, UnchangedIsKept
<1>5. CASE /\ call' = Idle /\ Returns("get", TRUE, call.path)
           /\ c # NULL /\ NeedsDecoding(c) /\ templates' = With(call.path, t)
  <2>1. c \in Container /\ c.object # NULL /\ c.field # NULL /\ c.field.codec # "TEMPLATE"
          /\ ~c.decoded /\ This.assigned[v] = 0
    BY <1>2, <1>5 DEF Template, TemplateInv, NeedsDecoding
  <2>2. d.value \in Value BY <2>1, DecodedTypes
  <2> HIDE DEF d
  <2>3. e \in Container /\ e.decoded BY <2>1, <2>2 DEF Container
  <2> HIDE DEF e
  <2>4. /\ t \in Template /\ t.parsed = This.parsed /\ t.object = This.object
        /\ t.field = This.field /\ t.assigned = This.assigned /\ t.origin = This.origin
        /\ \A w \in IVars : t.ivars[w] = IF w = v THEN e ELSE This.ivars[w]
    BY <1>2, <2>3 DEF Template
  <2>5. TemplateInv(t) BY <1>2, <2>1, <2>3, <2>4 DEF TemplateInv
  <2> HIDE DEF t
  <2>6. /\ TemplatesInv' /\ DOMAIN templates' = DOMAIN templates
        /\ templates'[call.path] = t
        /\ \A q \in DOMAIN templates : q # call.path => templates'[q] = templates[q]
    BY <1>2, <1>5, <2>4, <2>5, ChangeMember
  <2>7. ret' \in Return /\ sets' \in 0..MaxSets BY <1>1, <1>2, <1>5, ReturnTypes DEF IInv, TypeOK
  <2>8. IInv' BY <1>5, <2>6, <2>7, IdleTypes, AfterStep
  <2>9. Kept
    <3>1. ASSUME NEW w \in IVars, This.ivars[w] = NULL \/ This.ivars[w].decoded
          PROVE  t.ivars[w] = This.ivars[w]
      BY <1>5, <2>1, <2>4, <3>1
    <3>2. ASSUME NEW q \in DOMAIN templates, templates[q].parsed, NEW w \in IVars,
                 templates[q].ivars[w] = NULL \/ templates[q].ivars[w].decoded
          PROVE  templates'[q].ivars[w] = templates[q].ivars[w]
      BY <1>2, <2>6, <3>1, <3>2
    <3>3. \A q \in DOMAIN templates : templates[q].parsed => templates'[q].parsed
      BY <1>2, <2>4, <2>6
    <3> QED BY <2>6, <3>2, <3>3 DEF Kept
  <2> QED BY <2>8, <2>9
<1> QED BY <1>3, <1>4, <1>5 DEF GetReturns

LEMMA SetInv ==
  ASSUME IInv, NEW p \in DOMAIN templates, IsHeld(p), NEW v \in IVars, Set(p, v)
  PROVE  IInv' /\ Kept
<1> DEFINE t == templates[p]
           n == sets + 1
           c == IF t.ivars[v] = NULL THEN krypt_asn1_template_new_value(AssignedValue(n))
                ELSE [t.ivars[v] EXCEPT !.value = AssignedValue(n)]
           k == IF IsKept(t, v) THEN n ELSE 0
           s == [Assign(t, v, AssignedValue(n)) EXCEPT !.assigned[v] = k]
<1>1. /\ call.op = "none" /\ sets < MaxSets /\ sets' = n /\ UNCHANGED call
      /\ templates' = With(p, s) /\ Returns("set", TRUE, p) BY DEF Set
<1>2. TemplatesInv /\ t \in Template /\ TemplateInv(t) /\ p \in Seq(IVars)
  BY CallFacts DEF TemplatesInv
<1>3. n \in Nat /\ n # 0 /\ n \in 0..MaxSets BY <1>1, MaxSetsAssumption DEF IInv, TypeOK
<1>4. AssignedValue(n) \in Value BY <1>3 DEF AssignedValue, Value
<1>5. t.ivars[v] \in Container \cup {NULL} BY <1>2 DEF Template
<1>6. /\ c \in Container /\ c # NULL /\ c.value = AssignedValue(n)
      /\ t.ivars[v] = NULL => c.decoded
      /\ t.ivars[v] # NULL =>
           c.decoded = t.ivars[v].decoded /\ c.field = t.ivars[v].field
             /\ c.object = t.ivars[v].object
  <2>1. CASE t.ivars[v] = NULL
    <3>1. krypt_asn1_template_new_value(AssignedValue(n)) \in Container
      BY <1>4 DEF krypt_asn1_template_new_value, Container
    <3> QED BY <2>1, <3>1, ContainerAssumption DEF krypt_asn1_template_new_value
  <2>2. CASE t.ivars[v] # NULL BY <1>4, <1>5, <2>2, ContainerAssumption DEF Container
  <2> QED BY <2>1, <2>2
<1>7. k \in Nat /\ (k # 0 => k = n /\ t.parsed /\ c.decoded) BY <1>3, <1>6 DEF IsKept
<1>8. Assign(t, v, AssignedValue(n)) = [t EXCEPT !.modified = TRUE, !.ivars[v] = c] BY DEF Assign
<1> HIDE DEF c, k
<1>9. /\ s \in Template /\ s.parsed = t.parsed /\ s.object = t.object /\ s.field = t.field
      /\ s.origin = t.origin
      /\ \A w \in IVars : /\ s.ivars[w] = IF w = v THEN c ELSE t.ivars[w]
                          /\ s.assigned[w] = IF w = v THEN k ELSE t.assigned[w]
  <2>1. /\ t.ivars \in [IVars -> Container \cup {NULL}] /\ t.assigned \in [IVars -> Nat]
    BY <1>2 DEF Template
  <2> DEFINE i == [t.ivars EXCEPT ![v] = c]
             a == [t.assigned EXCEPT ![v] = k]
  <2>2. i \in [IVars -> Container \cup {NULL}] /\ a \in [IVars -> Nat] BY <1>6, <1>7, <2>1
  <2>3. \A w \in IVars : /\ i[w] = IF w = v THEN c ELSE t.ivars[w]
                         /\ a[w] = IF w = v THEN k ELSE t.assigned[w] BY <2>1
  <2>4. s = [t EXCEPT !.modified = TRUE, !.ivars = i, !.assigned = a] BY <1>2, <1>8 DEF Template
  <2> HIDE DEF s, i, a
  <2> QED BY <1>2, <2>2, <2>3, <2>4 DEF Template
<1> HIDE DEF s
<1>10. TemplateInv(s) BY <1>2, <1>6, <1>7, <1>9 DEF TemplateInv
<1>11. /\ TemplatesInv' /\ DOMAIN templates' = DOMAIN templates
       /\ templates'[p] = s
       /\ \A q \in DOMAIN templates : q # p => templates'[q] = templates[q]
  BY <1>1, <1>9, <1>10, ChangeMember
<1>12. call' \in Call /\ call'.op = "none" BY <1>1, CallFacts
<1>13. ret' \in Return BY <1>1, <1>2, ReturnTypes
<1>14. IInv' BY <1>1, <1>3, <1>11, <1>12, <1>13, AfterStep
<1>15. sets' # sets BY <1>1 DEF IInv, TypeOK
<1>16. Kept BY <1>9, <1>11, <1>15 DEF Kept
<1> QED BY <1>14, <1>16

LEMMA SetTagInv ==
  ASSUME IInv, NEW p \in DOMAIN templates, IsHeld(p), SetTag(p)
  PROVE  IInv' /\ Kept
<1> DEFINE t == templates[p]
           s == [t EXCEPT !.tag = AssignedTag]
<1>1. /\ call.op = "none" /\ UNCHANGED << call, sets >>
      /\ templates' = With(p, s) /\ Returns("set", TRUE, p) BY DEF SetTag
<1>2. t \in Template /\ TemplateInv(t) /\ p \in Seq(IVars) BY CallFacts DEF TemplatesInv
<1>3. /\ s \in Template /\ s.parsed = t.parsed /\ s.object = t.object /\ s.field = t.field
      /\ s.origin = t.origin /\ s.ivars = t.ivars /\ s.assigned = t.assigned
  BY <1>2 DEF Template
<1> HIDE DEF s
<1>4. TemplateInv(s) BY <1>2, <1>3 DEF TemplateInv
<1>5. /\ TemplatesInv' /\ DOMAIN templates' = DOMAIN templates
      /\ templates'[p] = s
      /\ \A q \in DOMAIN templates : q # p => templates'[q] = templates[q]
  BY <1>1, <1>3, <1>4, ChangeMember
<1>6. ret' \in Return /\ call' \in Call /\ call'.op = "none" /\ sets' \in 0..MaxSets
  BY <1>1, <1>2, ReturnTypes, CallFacts DEF IInv, TypeOK
<1>7. IInv' BY <1>5, <1>6, AfterStep
<1>8. Kept BY <1>3, <1>5 DEF Kept
<1> QED BY <1>7, <1>8

LEMMA ToDerInv ==
  ASSUME IInv, NEW p \in DOMAIN templates, ToDer(p)
  PROVE  IInv' /\ Kept
<1>1. TemplatesInv' /\ ParsedUnchanged BY UnchangedTemplates DEF ToDer
<1>2. p \in Seq(IVars) /\ call \in Call /\ call' = call /\ call.op = "none"
  BY CallFacts DEF TemplatesInv, ToDer
<1>3. ret' \in Return /\ sets' \in 0..MaxSets BY <1>2, ReturnTypes DEF ToDer, IInv, TypeOK
<1>4. IInv' BY <1>1, <1>2, <1>3, AfterStep
<1> QED BY <1>1, <1>4, UnchangedIsKept

LEMMA MembersTypes ==
  ASSUME IInv, NEW p \in DOMAIN templates
  PROVE  Members(templates[p]) \subseteq IVars
<1>1. templates[p] \in Template /\ TemplateInv(templates[p]) BY CallFacts DEF TemplatesInv
<1>2. \A i \in DOMAIN Layout(templates[p]) : Layout(templates[p])[i].name \in IVars
  BY <1>1, LayoutTypes DEF Field
<1> QED BY <1>2 DEF Members, IVars

LEMMA NextInv ==
  ASSUME IInv, [Next]_vars
  PROVE  IInv' /\ (Kept \/ UNCHANGED vars)
<1>1. ASSUME NEW d \in Documents, ParseDer(d[1], d[2])
      PROVE  IInv' /\ Kept
  BY <1>1, ParseDerInv
<1>2. ASSUME NEW c \in Classes, New(c)
      PROVE  IInv' /\ Kept
  BY <1>2, NewInv
<1>3. ASSUME NEW p \in DOMAIN templates, IsHeld(p), NEW v \in Members(templates[p]),
             Get(p, v) \/ Set(p, v)
      PROVE  IInv' /\ Kept
  BY <1>3, GetInv, SetInv, MembersTypes
<1>4. ASSUME NEW p \in DOMAIN templates, ToDer(p)
      PROVE  IInv' /\ Kept
  BY <1>4, ToDerInv
<1>7. ASSUME NEW p \in DOMAIN templates, IsHeld(p), SetTag(p)
      PROVE  IInv' /\ Kept
  BY <1>7, SetTagInv
<1>5. CASE Step
  BY <1>5, ParseConsBeginsInv, MatchMemberInv, ParseConsEndsInv, ParseChoiceInv, ParseOfInv,
    GetReturnsInv DEF Step
<1>6. CASE UNCHANGED vars
  <2>1. TemplatesInv' BY <1>6, UnchangedTemplates DEF vars
  <2> QED
    BY <1>6, <2>1 DEF vars, IInv, TypeOK, TemplatesInv, CallInv, IsHeld, Parent, This, Codec, Layout
<1> QED BY <1>1, <1>2, <1>3, <1>4, <1>5, <1>6, <1>7 DEF Next

-----------------------------------------------------------------------------
(* Theorems.                                                               *)

\* The inductive invariant holds in every reachable state: a template that is
\* not parsed has the object it was made of, one that is parsed has none, and
\* a container has one until it is decoded (int_template_parse,
\* krypt_asn1_template_get_cb_value).
THEOREM TemplateInvariant == Spec => []IInv
<1>1. Init => IInv BY InitInv
<1>2. IInv /\ [Next]_vars => IInv' BY NextInv
<1> QED BY <1>1, <1>2, PTL DEF Spec

\* Templates, containers and the running call keep their types, so no step of
\* the parser uses an object, a member or a definition that is not there.
THEOREM TemplatesTyped == Spec => []TypeOK
<1>1. IInv => TypeOK BY DEF IInv
<1> QED BY <1>1, TemplateInvariant, PTL

\* What krypt_asn1_template_set_cb_value stores in a member that was read, or
\* for which a parsed template has nothing, is never lost.
THEOREM SetsAreKept == Spec => []SetIsKept
<1>1. IInv => SetIsKept BY DEF IInv, TypeOK, TemplateInv, SetIsKept, Template
<1> QED BY <1>1, TemplateInvariant, PTL

\* What a parsed template has decoded is decoded once: no get of any member of
\* any template, failed or not, changes it.
THEOREM DecodedValuesStay == Spec => DecodedStays
<1>1. IInv /\ [Next]_vars =>
        [\A p \in DOMAIN templates : templates[p].parsed =>
           /\ p \in DOMAIN templates'
           /\ templates'[p].parsed
           /\ sets' = sets =>
                \A v \in IVars :
                  LET c == templates[p].ivars[v]
                  IN  (c = NULL \/ (c # NULL /\ c.decoded)) => templates'[p].ivars[v] = c]_vars
  BY NextInv DEF Kept
<1> QED BY <1>1, TemplateInvariant, PTL DEF Spec, DecodedStays

-----------------------------------------------------------------------------
(* Matching, and members counted by their indices.                         *)

\* A codec other than CHOICE matches the objects that the reference lets fit,
\* and answers as the options of the member say for all others.
LEMMA MatchFits ==
  ASSUME NEW o \in Objects, NEW f \in Field, f.codec = "TEMPLATE" => f.type \in Classes,
         CodecOf(f) # "CHOICE"
  PROVE  /\ MatchCodec(o, f) = "match" <=> FitsCodec(f, o)
         /\ MatchCodec(o, f) \in {"no", "default"} => krypt_definition_is_optional(f)
         /\ MatchCodec(o, f) = "no" /\ f.default => f.codec = "TEMPLATE"
         /\ MatchCodec(o, f) = "error" => ~krypt_definition_is_optional(f)
<1>1. /\ Encodings[o].tag_class \in {"universal", "context"}
      /\ Encodings[o].is_constructed \in BOOLEAN BY EncodingsAssumption DEF Encoding
<1>2. f.optional \in BOOLEAN /\ f.default \in BOOLEAN BY DEF Field
<1>3. \A tag : int_match_tag_and_class(o, f, tag) <=> Tagged(f, o, tag)
  BY <1>1 DEF int_match_tag_and_class, int_match_class, Tagged
<1>4. CodecOf(f) \in {"PRIMITIVE", "ANY"} \cup ConsCodecs \cup OfCodecs
  <2>1. CASE f.codec = "TEMPLATE" BY <2>1, DefinitionsAssumption DEF CodecOf, Definition
  <2>2. CASE f.codec # "TEMPLATE" BY <2>2 DEF CodecOf, Field
  <2> QED BY <2>1, <2>2
<1>5. CASE CodecOf(f) = "PRIMITIVE"
  BY <1>2, <1>3, <1>5 DEF MatchCodec, FitsCodec, int_match_prim, int_check_optional_or_default,
    krypt_definition_is_optional, ConsCodecs, OfCodecs
<1>6. CASE CodecOf(f) = "ANY"
  BY <1>2, <1>3, <1>6 DEF MatchCodec, FitsCodec, int_match_any, int_check_optional_or_default,
    krypt_definition_is_optional, ConsCodecs, OfCodecs
<1>7. CASE CodecOf(f) \in ConsCodecs
  <2>1. f.codec = "TEMPLATE" BY <1>7 DEF CodecOf, Field, ConsCodecs, OfCodecs
  <2>2. DefaultTag(CodecOf(f)) = IF CodecOf(f) \in {"SEQUENCE", "SEQUENCE_OF"} THEN 16 ELSE 17
    BY DEF DefaultTag, TAGS_SEQUENCE, TAGS_SET
  <2>3. MatchCodec(o, f) = int_match_cons(o, f, DefaultTag(CodecOf(f)))
    BY <1>7 DEF MatchCodec, ConsCodecs, OfCodecs
  <2> QED BY <1>2, <1>3, <1>7, <2>1, <2>2, <2>3
    DEF FitsCodec, int_match_cons, int_try_match_cons, krypt_definition_is_optional, ConsCodecs, OfCodecs
<1>8. CASE CodecOf(f) \in OfCodecs
  <2>2. DefaultTag(CodecOf(f)) = IF CodecOf(f) \in {"SEQUENCE", "SEQUENCE_OF"} THEN 16 ELSE 17
    BY DEF DefaultTag, TAGS_SEQUENCE, TAGS_SET
  <2>3. MatchCodec(o, f) = int_match_cons_of(o, f, DefaultTag(CodecOf(f)))
    BY <1>8 DEF MatchCodec, ConsCodecs, OfCodecs
  <2> QED BY <1>2, <1>3, <1>8, <2>2, <2>3
    DEF FitsCodec, int_match_cons_of, int_try_match_cons, int_check_optional_or_default,
    krypt_definition_is_optional, ConsCodecs, OfCodecs
<1> QED BY <1>4, <1>5, <1>6, <1>7, <1>8

\* What the answers of a match say of a member of a layout.
LEMMA MatchAnswers ==
  ASSUME NEW o \in Objects, NEW f \in Field, f.codec = "TEMPLATE" => f.type \in Classes
  PROVE  /\ Match(o, f) = "match" => Fits(f, o)
         /\ Match(o, f) \in {"no", "default"} => MayBeAbsent(f)
         /\ Match(o, f) = "no" => ~f.default
<1>1. f.default \in BOOLEAN /\ f.tagging \in {"implicit", "explicit"} \cup {NULL} BY DEF Field
<1>2. CASE CodecOf(f) # "CHOICE" BY <1>1, <1>2, MatchFits DEF Match, Fits, MayBeAbsent
<1>3. CASE CodecOf(f) = "CHOICE"
  <2>1. f.codec = "TEMPLATE" /\ f.type \in Classes /\ Definitions[f.type].codec = "CHOICE"
    BY <1>3 DEF CodecOf, Field, OfCodecs
  <2>2. Match(o, f) = IF int_match_choice(o, f) = "no" /\ f.default THEN "default"
                      ELSE int_match_choice(o, f) BY <1>3, <2>1 DEF Match
  <2>3. int_match_choice(o, f) \in {"match", "no", "error"} BY DEF int_match_choice
  <2>4. int_match_choice(o, f) = "no" => MayBeAbsent(f)
    BY <1>1, <1>3 DEF int_match_choice, MayBeAbsent, HasChosen
  <2>5. ASSUME int_match_choice(o, f) = "match"
        PROVE  Fits(f, o)
    <3>1. f.tagging # "implicit" /\ HasChosen(o, f) /\ Matching(o, f) # {}
      BY <2>5 DEF int_match_choice
    <3>2. PICK i \in DOMAIN Definitions[f.type].layout :
            MatchCodec(Chosen(o, f), Definitions[f.type].layout[i]) = "match"
      BY <3>1 DEF Matching
    <3> DEFINE g == Definitions[f.type].layout[i]
               inner == Chosen(o, f)
    <3>3. inner \in Objects BY <3>1, EncodingTypes DEF Chosen, HasChosen
    <3>4. g \in Field /\ (g.codec = "TEMPLATE" => g.type \in Classes /\ Definitions[g.type].codec # "CHOICE")
      BY <2>1, DefinitionTypes, LayoutsAssumption
    <3>5. CodecOf(g) # "CHOICE" BY <3>4 DEF CodecOf, Field, OfCodecs
    <3>6. FitsCodec(g, inner) BY <3>2, <3>3, <3>4, <3>5, MatchFits
    <3>7. IF f.tagging = NULL THEN inner = o
          ELSE Encodings[o].elements # <<>> /\ inner = Encodings[o].elements[1]
      BY <3>1, EncodingTypes DEF Chosen, HasChosen
    <3> QED BY <1>3, <3>1, <3>3, <3>6, <3>7 DEF Fits
  <2> QED BY <1>1, <2>2, <2>3, <2>4, <2>5
<1> QED BY <1>2, <1>3

\* The k-th of a set of numbers is one of them, with k - 1 before it.
LEMMA NthOfNumbers ==
  ASSUME NEW n \in Nat, NEW S \in SUBSET (1..n), NEW k \in 1..Cardinality(S)
  PROVE  /\ Nth(S, k) \in S
         /\ Cardinality({j \in S : j < Nth(S, k)}) + 1 = k
<1> DEFINE Upto(m) == {j \in S : j <= m}
           T == {m \in 0..n : Cardinality(Upto(m)) >= k}
<1>1. IsFiniteSet(S) /\ Cardinality(S) \in Nat /\ k \in Nat /\ k >= 1 /\ k <= Cardinality(S)
  <2>1. IsFiniteSet(1..n) BY FS_Interval, 1 \in Int, n \in Int
  <2>2. IsFiniteSet(S) /\ Cardinality(S) \in Nat BY <2>1, FS_Subset, FS_CardinalityType
  <2> QED BY <2>2
<1>2. \A x \in S : x \in Nat /\ 1 <= x /\ x <= n OBVIOUS
<1>3. \A m \in Nat : IsFiniteSet(Upto(m)) /\ Cardinality(Upto(m)) \in Nat
  <2>1. \A m : Upto(m) \subseteq S OBVIOUS
  <2> HIDE DEF Upto
  <2> QED BY <1>1, <2>1, FS_Subset, FS_CardinalityType
<1>4. Upto(n) = S /\ Upto(0) = {}
  <2>1. \A j \in S : j <= n /\ ~(j <= 0) BY <1>2
  <2> QED BY <2>1
<1>5. ASSUME NEW m \in S
      PROVE  Upto(m) = Upto(m - 1) \cup {m} /\ m \notin Upto(m - 1)
  <2>1. \A j \in S : j <= m <=> j <= m - 1 \/ j = m BY <1>2
  <2>2. ~(m <= m - 1) BY <1>2
  <2> QED BY <2>1, <2>2
<1>6. ASSUME NEW m \in Nat \ S
      PROVE  Upto(m) = Upto(m - 1)
  <2>1. \A j \in S : j <= m <=> j <= m - 1 BY <1>2
  <2> QED BY <2>1
<1>7. ASSUME NEW m \in S
      PROVE  Upto(m) = {j \in S : j < m} \cup {m} /\ m \notin {j \in S : j < m}
  <2>1. \A j \in S : j <= m <=> j < m \/ j = m BY <1>2
  <2>2. ~(m < m) BY <1>2
  <2> QED BY <2>1, <2>2
<1> HIDE DEF Upto
<1>8. n \in T /\ T \subseteq Nat BY <1>1, <1>4
<1>9. PICK m \in T : \A l \in T : m <= l BY <1>8, FirstOfNumbers
<1>10. m \in Nat /\ m # 0 /\ m <= n /\ Cardinality(Upto(m)) >= k BY <1>1, <1>4, <1>9, FS_EmptySet
<1>11. m - 1 \in Nat /\ Cardinality(Upto(m - 1)) < k
  <2>1. m - 1 \in 0..n /\ m - 1 \notin T BY <1>8, <1>9, <1>10
  <2>2. Cardinality(Upto(m - 1)) \in Nat BY <1>3, <1>10
  <2> QED BY <1>1, <2>1, <2>2
<1> HIDE DEF T
<1>12. m \in S
  <2>1. Cardinality(Upto(m - 1)) \in Nat /\ Cardinality(Upto(m)) \in Nat BY <1>3, <1>10, <1>11
  <2>2. Upto(m) # Upto(m - 1) BY <1>1, <1>10, <1>11, <2>1
  <2> QED BY <1>6, <1>10, <2>2
<1>13. Cardinality(Upto(m)) = Cardinality(Upto(m - 1)) + 1
  BY <1>3, <1>5, <1>11, <1>12, FS_AddElement
<1>14. Cardinality(Upto(m)) = k
  <2>1. Cardinality(Upto(m - 1)) \in Nat BY <1>3, <1>11
  <2> QED BY <1>1, <1>10, <1>11, <1>13, <2>1
<1>15. Nth(S, k) \in S /\ Cardinality(Upto(Nth(S, k))) = k BY <1>12, <1>14 DEF Nth, Upto
<1> DEFINE i == Nth(S, k)
           Before == {j \in S : j < i}
<1>16. Upto(i) = Before \cup {i} /\ i \notin Before /\ Before \subseteq S BY <1>7, <1>15
<1> HIDE DEF i, Before
<1>17. Cardinality(Upto(i)) = Cardinality(Before) + 1 BY <1>1, <1>16, FS_AddElement, FS_Subset
<1> QED BY <1>15, <1>17 DEF i, Before

-----------------------------------------------------------------------------
(* What a step leaves alone.                                               *)

\* A set changes the value of a container, or makes one for no object.
SameContainer(c, d) ==
  \/ d = c
  \/ c = NULL /\ d # NULL /\ d.field = NULL
  \/ c # NULL /\ d # NULL /\ d.field = c.field /\ d.object = c.object

KeepsOrigin(p) == p \in DOMAIN templates' /\ templates'[p].origin = templates[p].origin

KeepsMembers(p) ==
  /\ p \in DOMAIN templates'
  /\ templates'[p].field = templates[p].field
  /\ templates'[p].origin = templates[p].origin
  /\ \A v \in IVars : SameContainer(templates[p].ivars[v], templates'[p].ivars[v])
  /\ \A v \in IVars : Append(p, v) \in DOMAIN templates => KeepsOrigin(Append(p, v))

\* The members of a layout have containers.
LEMMA LayoutNames ==
  ASSUME NEW t \in Template, TemplateInv(t), NEW i \in DOMAIN Layout(t)
  PROVE  Layout(t)[i].name \in IVars
  BY LayoutTypes DEF Field

\* A template holds containers, or nothing.
LEMMA ContainerFacts ==
  ASSUME NEW t \in Template, NEW v \in IVars
  PROVE  t.ivars[v] = NULL \/ t.ivars[v] \in Container
  BY DEF Template

\* A step that keeps the containers of a template keeps what it was given.
LEMMA FrameObjects ==
  ASSUME TemplatesInv, NEW p \in DOMAIN templates, HasTemplates(p), KeepsMembers(p)
  PROVE  /\ Layout(templates'[p]) = Layout(templates[p])
         /\ \A i \in DOMAIN Layout(templates[p]) : ObjectOf(p, i)' = ObjectOf(p, i)
         /\ Found(p)' = Found(p)
         /\ HasTemplates(p)'
<1>1. templates[p] \in Template /\ TemplateInv(templates[p]) BY DEF TemplatesInv
<1>2. Layout(templates'[p]) = Layout(templates[p]) BY DEF KeepsMembers, Layout
<1>3. ASSUME NEW i \in DOMAIN Layout(templates[p])
      PROVE  /\ ObjectOf(p, i)' = ObjectOf(p, i)
             /\ LET f == Layout(templates[p])[i]
                    c == templates'[p].ivars[f.name]
                IN  f.codec = "TEMPLATE" /\ c # NULL /\ c.field # NULL =>
                      Append(p, f.name) \in DOMAIN templates'
  <2> DEFINE f == Layout(templates[p])[i]
             c == templates[p].ivars[f.name]
             d == templates'[p].ivars[f.name]
             q == Append(p, f.name)
  <2>1. f.name \in IVars BY <1>1, LayoutNames
  <2>2. SameContainer(c, d) BY <2>1 DEF KeepsMembers
  <2>3. q \in DOMAIN templates => KeepsOrigin(q) BY <2>1 DEF KeepsMembers
  <2>4. f.codec = "TEMPLATE" /\ c # NULL /\ c.field # NULL => q \in DOMAIN templates
    BY DEF HasTemplates
  <2>5. ObjectOf(p, i) = IF c = NULL \/ (c # NULL /\ c.field = NULL) THEN NULL
                         ELSE IF f.codec = "TEMPLATE" THEN templates[q].origin ELSE c.object
    BY DEF ObjectOf
  <2>6. ObjectOf(p, i)' = IF d = NULL \/ (d # NULL /\ d.field = NULL) THEN NULL
                          ELSE IF f.codec = "TEMPLATE" THEN templates'[q].origin ELSE d.object
    BY <1>2 DEF ObjectOf
  <2> HIDE DEF c, d, q, f
  <2>7. ObjectOf(p, i)' = ObjectOf(p, i)
    BY <2>2, <2>3, <2>4, <2>5, <2>6 DEF SameContainer, KeepsOrigin
  <2>8. f.codec = "TEMPLATE" /\ d # NULL /\ d.field # NULL => q \in DOMAIN templates'
    BY <2>2, <2>3, <2>4 DEF SameContainer, KeepsOrigin
  <2> QED BY <2>7, <2>8 DEF f, d, q
<1>4. Found(p)' = Found(p) BY <1>2, <1>3 DEF Found
<1>5. HasTemplates(p)' BY <1>2, <1>3 DEF HasTemplates
<1> QED BY <1>2, <1>3, <1>4, <1>5

\* The parts of the invariant, for one template.
MemberParts(p) ==
  /\ IsCons(templates[p]) =>
       /\ AreMatched(p) /\ HasTemplates(p)
       /\ templates[p].parsed => RespectsLayout(p) /\ HasDefaults(templates[p])
  /\ IsParsedChoice(templates[p]) => HasFirstChoice(templates[p])

\* The members of a template with an object are finitely many.
LEMMA FoundFacts ==
  ASSUME NEW p, templates[p] \in Template, TemplateInv(templates[p])
  PROVE  /\ Layout(templates[p]) \in Seq(Field) /\ Len(Layout(templates[p])) \in Nat
         /\ DOMAIN Layout(templates[p]) = 1..Len(Layout(templates[p]))
         /\ Found(p) \subseteq 1..Len(Layout(templates[p]))
         /\ IsFiniteSet(Found(p)) /\ Cardinality(Found(p)) \in Nat
         /\ \A i : /\ FoundBefore(p, i) \subseteq Found(p)
                   /\ IsFiniteSet(FoundBefore(p, i)) /\ Cardinality(FoundBefore(p, i)) \in Nat
         /\ \A k \in 1..Cardinality(Found(p)) :
              /\ Nth(Found(p), k) \in Found(p)
              /\ Cardinality(FoundBefore(p, Nth(Found(p), k))) + 1 = k
<1> DEFINE n == Len(Layout(templates[p]))
<1>1. Layout(templates[p]) \in Seq(Field) BY DefinitionTypes DEF TemplateInv, Layout
<1>2. n \in Nat /\ DOMAIN Layout(templates[p]) = 1..n BY <1>1
<1>3. Found(p) \subseteq 1..n BY <1>2 DEF Found
<1> HIDE DEF n
<1>4. IsFiniteSet(1..n) BY <1>2, FS_Interval, 1 \in Int, n \in Int
<1>5. IsFiniteSet(Found(p)) /\ Cardinality(Found(p)) \in Nat
  BY <1>3, <1>4, FS_Subset, FS_CardinalityType
<1>6. \A i : FoundBefore(p, i) \subseteq Found(p) BY DEF FoundBefore
<1>7. \A i : IsFiniteSet(FoundBefore(p, i)) /\ Cardinality(FoundBefore(p, i)) \in Nat
  BY <1>5, <1>6, FS_Subset, FS_CardinalityType
<1>8. ASSUME NEW k \in 1..Cardinality(Found(p))
      PROVE  /\ Nth(Found(p), k) \in Found(p)
             /\ Cardinality(FoundBefore(p, Nth(Found(p), k))) + 1 = k
  BY <1>2, <1>3, NthOfNumbers DEF FoundBefore
<1> QED BY <1>1, <1>2, <1>3, <1>5, <1>6, <1>7, <1>8 DEF n

\* What was matched stays so while the objects given stay.
LEMMA FrameMatched ==
  ASSUME NEW p \in DOMAIN templates, templates[p] \in Template, TemplateInv(templates[p]), p \in DOMAIN templates',
         templates'[p].field = templates[p].field, templates'[p].origin = templates[p].origin,
         \A i \in DOMAIN Layout(templates[p]) : ObjectOf(p, i)' = ObjectOf(p, i),
         Found(p)' = Found(p)
  PROVE  /\ \A i \in DOMAIN Layout(templates[p]) : IsMatched(p, i)' = IsMatched(p, i)
         /\ AreMatched(p)' = AreMatched(p)
         /\ RespectsLayout(p)' = RespectsLayout(p)
<1>1. /\ Layout(templates'[p]) = Layout(templates[p])
      /\ ElementsOf(templates'[p]) = ElementsOf(templates[p])
      /\ ValueOf(templates'[p]) = ValueOf(templates[p]) BY DEF Layout, ElementsOf, ValueOf
<1>2. \A i : FoundBefore(p, i)' = FoundBefore(p, i) BY DEF FoundBefore
<1>3. \A i \in DOMAIN Layout(templates[p]) : IsMatched(p, i)' = IsMatched(p, i)
  BY <1>1, <1>2 DEF IsMatched
<1>4. AreMatched(p)' = AreMatched(p) BY <1>1, <1>3 DEF AreMatched
<1>5. RespectsLayout(p)' = RespectsLayout(p)
  <2> DEFINE layout == Layout(templates[p])
             given == [k \in 1..Cardinality(Found(p)) |-> ObjectOf(p, Nth(Found(p), k))]
  <2>1. \A k \in 1..Cardinality(Found(p)) : Nth(Found(p), k) \in DOMAIN layout BY FoundFacts
  <2>2. given' = given BY <2>1
  <2> QED BY <1>1, <2>2 DEF RespectsLayout
<1> QED BY <1>3, <1>4, <1>5

\* A template whose members stay keeps what they are.
LEMMA FrameMembers ==
  ASSUME TemplatesInv, NEW p \in DOMAIN templates, MemberParts(p), KeepsMembers(p),
         templates'[p].parsed = templates[p].parsed,
         templates'[p].tag \in {templates[p].tag, AssignedTag}
  PROVE  /\ MemberParts(p)'
         /\ IsCons(templates[p]) =>
              /\ Layout(templates'[p]) = Layout(templates[p])
              /\ \A i \in DOMAIN Layout(templates[p]) :
                   IsMatched(p, i)' = IsMatched(p, i) /\ ObjectOf(p, i)' = ObjectOf(p, i)
              /\ Found(p)' = Found(p)
<1> DEFINE t == templates[p]
           u == templates'[p]
<1>1. t \in Template /\ TemplateInv(t) BY DEF TemplatesInv
<1>2. /\ p \in DOMAIN templates' /\ u.field = t.field /\ u.origin = t.origin
      /\ \A v \in IVars : SameContainer(t.ivars[v], u.ivars[v]) BY DEF KeepsMembers
<1>3. /\ IsCons(u) = IsCons(t) /\ Layout(u) = Layout(t)
      /\ IsParsedChoice(u) = IsParsedChoice(t) BY <1>2 DEF IsCons, Codec, Layout, IsParsedChoice
<1>4. ASSUME IsCons(t)
      PROVE  /\ AreMatched(p)' = AreMatched(p) /\ HasTemplates(p)'
             /\ RespectsLayout(p)' = RespectsLayout(p)
             /\ \A i \in DOMAIN Layout(t) :
                  IsMatched(p, i)' = IsMatched(p, i) /\ ObjectOf(p, i)' = ObjectOf(p, i)
             /\ Found(p)' = Found(p)
  <2>1. HasTemplates(p) BY <1>4 DEF MemberParts
  <2> QED BY <1>1, <1>2, <2>1, FrameObjects, FrameMatched
<1>5. HasDefaults(t) => HasDefaults(u)
  <2>1. \A i \in DOMAIN Layout(t) : Layout(t)[i].name \in IVars BY <1>1, LayoutNames
  <2>2. \A v \in IVars : t.ivars[v] # NULL => u.ivars[v] # NULL BY <1>2 DEF SameContainer
  <2> QED BY <1>3, <2>1, <2>2 DEF HasDefaults
<1>6. HasFirstChoice(t) => HasFirstChoice(u)
  <2> DEFINE c == t.ivars["@value"]
             d == u.ivars["@value"]
  <2>1. c # NULL => d # NULL /\ d.field = c.field BY <1>2 DEF SameContainer, IVars
  <2> QED BY <1>2, <1>3, <2>1 DEF HasFirstChoice
<1> HIDE DEF t, u
<1>7. MemberParts(p)' BY <1>3, <1>4, <1>5, <1>6 DEF MemberParts, t, u
<1> QED BY <1>3, <1>4, <1>7 DEF t, u

\* A template that was made for an object has no members yet.
LEMMA FreshMembers ==
  ASSUME NEW p, templates'[p].ivars = [v \in IVars |-> NULL], ~IsParsedChoice(templates'[p]),
         templates'[p] \in Template, TemplateInv(templates'[p]),
         IsCons(templates'[p]) => ~templates'[p].parsed
  PROVE  MemberParts(p)'
<1> DEFINE t == templates'[p]
<1>1. \A i \in DOMAIN Layout(t) : t.ivars[Layout(t)[i].name] = NULL BY LayoutNames
<1>2. Found(p)' = {} BY <1>1 DEF Found, ObjectOf
<1>3. AreMatched(p)' /\ HasTemplates(p)' BY <1>1, <1>2 DEF AreMatched, HasTemplates
<1> QED BY <1>3 DEF MemberParts

\* The parts of the invariant, at hand.
LEMMA PartsOfFullInv ==
  FullInv <=> IInv /\ (\A p \in DOMAIN templates : MemberParts(p)) /\ LoopInv
  BY DEF FullInv, MembersInv, LayoutRespected, DefaultsApplied, ChoiceOfFirst, MemberParts, IsParsedCons

\* What a step that gives no object away has to show.
MembersStay ==
  /\ DOMAIN templates' = DOMAIN templates
  /\ \A q \in DOMAIN templates :
       /\ KeepsMembers(q)
       /\ templates'[q].parsed = templates[q].parsed
       /\ templates'[q].tag \in {templates[q].tag, AssignedTag}

\* A step that keeps all members keeps what the invariant says of them.
LEMMA MembersStayInv ==
  ASSUME FullInv, MembersStay
  PROVE  \A p \in DOMAIN templates' : MemberParts(p)'
  BY PartsOfFullInv, PartsOfInv, FrameMembers DEF MembersStay

\* Such a step keeps the invariant when no loop runs behind it.
LEMMA StayInv ==
  ASSUME FullInv, IInv', MembersStay, call'.op # "parse",
         call'.op = "get" => call'.num_parsed = 0
  PROVE  FullInv'
<1>1. LoopInv' BY DEF LoopInv
<1>2. \A p \in DOMAIN templates' : MemberParts(p)' BY MembersStayInv
<1> QED BY <1>1, <1>2, PartsOfFullInv DEF FullInv, MembersInv, LayoutRespected, DefaultsApplied,
  ChoiceOfFirst, MemberParts, IsParsedCons

\* It may keep the templates altogether.
LEMMA UnchangedStay ==
  ASSUME UNCHANGED templates
  PROVE  MembersStay
  BY DEF MembersStay, KeepsMembers, KeepsOrigin, SameContainer

\* One template changes, but for the objects of its members.
LEMMA ChangeStays ==
  ASSUME NEW p \in DOMAIN templates, NEW t, templates' = With(p, t),
         t.field = templates[p].field, t.origin = templates[p].origin,
         t.parsed = templates[p].parsed, t.tag \in {templates[p].tag, AssignedTag},
         \A v \in IVars : SameContainer(templates[p].ivars[v], t.ivars[v])
  PROVE  MembersStay
<1>1. /\ DOMAIN templates' = DOMAIN templates
      /\ templates'[p] = t
      /\ \A q \in DOMAIN templates : q # p => templates'[q] = templates[q] BY DEF With
<1>2. \A q \in DOMAIN templates : KeepsOrigin(q) BY <1>1 DEF KeepsOrigin
<1>3. \A q \in DOMAIN templates : \A v \in IVars :
        SameContainer(templates[q].ivars[v], templates'[q].ivars[v]) BY <1>1 DEF SameContainer
<1>4. \A q \in DOMAIN templates : KeepsMembers(q) BY <1>1, <1>2, <1>3 DEF KeepsMembers
<1> QED BY <1>1, <1>4 DEF MembersStay

\* The end of a get decodes an object, and gives none away.
LEMMA GetReturnsStays ==
  ASSUME FullInv, GetReturns
  PROVE  MembersStay /\ call'.op = "none"
<1> DEFINE v == call.ivar
           c == This.ivars[v]
           e == [c EXCEPT !.decoded = TRUE, !.value = int_value_decode(c).value]
           t == [This EXCEPT !.ivars[v] = e]
<1>1. IInv /\ call.op # "none" BY PartsOfFullInv DEF GetReturns
<1>2. call.path \in DOMAIN templates /\ This \in Template /\ v \in IVars /\ This = templates[call.path]
  BY <1>1, CallFacts DEF Call, This
<1>3. call'.op = "none" BY IdleTypes DEF GetReturns, GetFails
<1>4. CASE UNCHANGED templates BY <1>3, <1>4, UnchangedStay
<1>5. CASE c # NULL /\ NeedsDecoding(c) /\ templates' = With(call.path, t)
  <2>1. c \in Container /\ c.object # NULL /\ c.field # NULL /\ c.field.codec # "TEMPLATE"
    BY <1>1, <1>2, <1>5, CallFacts DEF Template, TemplateInv, NeedsDecoding
  <2>2. e.field = c.field /\ e.object = c.object /\ e.decoded BY <2>1 DEF Container
  <2>3. e # NULL
    <3>1. e \in Container BY <2>1, DecodedTypes DEF Container
    <3> QED BY <3>1, ContainerAssumption
  <2> HIDE DEF e
  <2>4. /\ t.field = This.field /\ t.origin = This.origin /\ t.parsed = This.parsed
        /\ t.tag = This.tag
        /\ \A w \in IVars : t.ivars[w] = IF w = v THEN e ELSE This.ivars[w] BY <1>2 DEF Template
  <2> HIDE DEF t
  <2>5. \A w \in IVars : SameContainer(This.ivars[w], t.ivars[w])
    BY <1>5, <2>2, <2>3, <2>4 DEF SameContainer
  <2>6. MembersStay BY <1>2, <1>5, <2>4, <2>5, ChangeStays
  <2> QED BY <1>3, <2>6
<1> QED BY <1>4, <1>5 DEF GetReturns

\* A set changes values, and gives no object away.
LEMMA SetStays ==
  ASSUME FullInv, NEW p \in DOMAIN templates, NEW v \in IVars, Set(p, v)
  PROVE  MembersStay
<1> DEFINE t == templates[p]
           n == sets + 1
           c == t.ivars[v]
           e == IF c = NULL THEN krypt_asn1_template_new_value(AssignedValue(n))
                ELSE [c EXCEPT !.value = AssignedValue(n)]
           k == IF IsKept(t, v) THEN n ELSE 0
           s == [Assign(t, v, AssignedValue(n)) EXCEPT !.assigned[v] = k]
<1>1. templates' = With(p, s) BY DEF Set
<1>2. t \in Template /\ TemplateInv(t) /\ n \in Nat
  BY PartsOfFullInv, PartsOfInv DEF TemplatesInv, CallTypes
<1>3. c = NULL \/ c \in Container BY <1>2, ContainerFacts
<1>4. AssignedValue(n) \in Value BY <1>2 DEF AssignedValue, Value
<1>5. e \in Container BY <1>3, <1>4 DEF krypt_asn1_template_new_value, Container
<1>6. SameContainer(c, e)
  <2>1. e # NULL BY <1>5, ContainerAssumption
  <2>2. c = NULL => e.field = NULL BY DEF krypt_asn1_template_new_value
  <2>3. c # NULL => e.field = c.field /\ e.object = c.object BY <1>3, <1>4 DEF Container
  <2> QED BY <2>1, <2>2, <2>3 DEF SameContainer
<1>7. Assign(t, v, AssignedValue(n)) = [t EXCEPT !.modified = TRUE, !.ivars[v] = e] BY DEF Assign
<1> HIDE DEF e, k
<1>8. /\ s.field = t.field /\ s.origin = t.origin /\ s.parsed = t.parsed /\ s.tag = t.tag
      /\ \A w \in IVars : s.ivars[w] = IF w = v THEN e ELSE t.ivars[w] BY <1>2, <1>7 DEF Template
<1> HIDE DEF s
<1>9. \A w \in IVars : SameContainer(t.ivars[w], s.ivars[w]) BY <1>6, <1>8 DEF SameContainer
<1> QED BY <1>1, <1>8, <1>9, ChangeStays

\* Nor does a set of the tag.
LEMMA SetTagStays ==
  ASSUME FullInv, NEW p \in DOMAIN templates, SetTag(p)
  PROVE  MembersStay
<1> DEFINE t == templates[p]
           s == [t EXCEPT !.tag = AssignedTag]
<1>1. templates' = With(p, s) BY DEF SetTag
<1>2. t \in Template BY PartsOfFullInv, PartsOfInv DEF TemplatesInv
<1>3. /\ s.field = t.field /\ s.origin = t.origin /\ s.parsed = t.parsed
      /\ s.tag = AssignedTag /\ s.ivars = t.ivars BY <1>2 DEF Template
<1> HIDE DEF s
<1>4. \A w \in IVars : SameContainer(t.ivars[w], s.ivars[w]) BY <1>3 DEF SameContainer
<1> QED BY <1>1, <1>3, <1>4, ChangeStays

\* The first object of a value is at hand when the loop begins.
LEMMA LoopBegins ==
  ASSUME FullInv, ParseConsBegins, call'.op = "parse", MembersStay
  PROVE  LoopInv'
<1>1. PICK p, elements, layout :
        p = call.path /\ elements = ElementsOf(This) /\ layout = Layout(This) OBVIOUS
<1>2. IInv /\ call.op = "get" /\ ~This.parsed /\ Codec(This) \in ConsCodecs
      /\ UNCHANGED << templates, sets >> /\ call.num_parsed = 0
  BY PartsOfFullInv DEF ParseConsBegins, LoopInv
<1>3. /\ call \in Call /\ p \in DOMAIN templates /\ This = templates[p]
      /\ This \in Template /\ TemplateInv(This) /\ This.object \in Objects
      /\ This.origin = This.object
  <2>1. /\ call \in Call /\ p \in DOMAIN templates /\ This = templates[p]
        /\ This \in Template /\ TemplateInv(This) /\ This.object \in Objects
    BY <1>1, <1>2, CallFacts DEF This
  <2> QED BY <1>2, <2>1 DEF TemplateInv
<1>4. elements # <<>> /\ call' = [call EXCEPT !.op = "parse", !.i = 1, !.cur = Head(elements),
                                              !.rest = Tail(elements)]
  BY <1>1, <1>2, <1>3, IdleTypes DEF ParseConsBegins, GetFails, ElementsOf
<1>5. elements \in Seq(Objects) BY <1>1, <1>3, UnpackTypes DEF ElementsOf
<1>6. /\ call'.op = "parse" /\ call'.path = p /\ call'.i = 1 /\ call'.num_parsed = 0
      /\ call'.cur = Head(elements) /\ call'.rest = Tail(elements)
  BY <1>1, <1>2, <1>3, <1>4 DEF Call
<1>7. This' = This /\ ElementsOf(This') = elements /\ Layout(This') = layout
  BY <1>1, <1>2, <1>6 DEF This
<1>8. Found(p)' = Found(p)
  <2>1. IsCons(This) BY <1>2, <1>3, NullAssumption DEF IsCons
  <2> QED BY <1>2, <1>3, <2>1, PartsOfFullInv, PartsOfInv, FrameMembers DEF MembersStay
<1>9. FoundBefore(p, 1)' = {} /\ Len(layout) \in Nat /\ 0 \notin Found(p)'
  <2>1. Found(p)' \subseteq 1..Len(layout) /\ Len(layout) \in Nat BY <1>1, <1>3, <1>8, FoundFacts
  <2> QED BY <2>1 DEF FoundBefore
<1>10. /\ 1 \in DOMAIN elements /\ Head(elements) = elements[1] /\ Head(elements) # NULL
       /\ IsRest(Tail(elements), elements, 1)
  <2>1. Head(elements) \in Objects BY <1>4, <1>5
  <2> QED BY <1>4, <1>5, <2>1, NullAssumption DEF IsRest
<1>11. Cardinality(FoundBefore(p, 1)') = 0 BY <1>9, FS_EmptySet
<1> QED BY <1>6, <1>7, <1>9, <1>10, <1>11 DEF LoopInv

-----------------------------------------------------------------------------
(* The loop over a layout.                                                 *)

\* The loop is at the i-th member of the template at p, with object o at hand.
AtMember(p, i, n, o, rest, layout, elements) ==
  /\ p = call.path /\ i = call.i /\ n = call.num_parsed /\ o = call.cur /\ rest = call.rest
  /\ layout = Layout(This) /\ elements = ElementsOf(This)
  /\ FullInv /\ call.op = "parse" /\ i <= Len(layout)

\* The invariant, as a turn of the loop needs it.
LEMMA AtMemberFacts ==
  ASSUME NEW p, NEW i, NEW n, NEW o, NEW rest, NEW layout, NEW elements,
         AtMember(p, i, n, o, rest, layout, elements)
  PROVE  /\ IInv /\ TemplatesInv /\ p \in DOMAIN templates /\ p \in Seq(IVars)
         /\ This = templates[p] /\ templates[p] \in Template /\ TemplateInv(templates[p])
         /\ ~templates[p].parsed /\ IsCons(templates[p])
         /\ \A q \in DOMAIN templates : MemberParts(q)
         /\ AreMatched(p) /\ HasTemplates(p)
         /\ layout = Layout(templates[p]) /\ layout \in Seq(Field) /\ Len(layout) \in Nat
         /\ DOMAIN layout = 1..Len(layout)
         /\ \A j \in 1..Len(layout) :
              /\ layout[j] \in Field /\ layout[j].name \in IVars
              /\ layout[j].codec = "TEMPLATE" => layout[j].type \in Classes
         /\ i \in 1..Len(layout)
         /\ elements = ElementsOf(templates[p]) /\ elements \in Seq(Objects)
         /\ n \in Nat /\ n + 1 \in DOMAIN elements /\ o = elements[n + 1] /\ o \in Objects
         /\ rest \in Seq(Objects) /\ IsRest(rest, elements, n + 1)
         /\ n = Cardinality(FoundBefore(p, i))
         /\ \A j \in 1..(i - 1) :
              /\ IsMatched(p, j)
              /\ j \in Found(p) \/ MayBeAbsent(layout[j])
              /\ layout[j].default /\ DefaultName(layout[j]) = layout[j].name =>
                   templates[p].ivars[layout[j].name] # NULL
         /\ MembersOwnNames => OwnNames(layout)
<1>1. /\ p = call.path /\ i = call.i /\ n = call.num_parsed /\ o = call.cur /\ rest = call.rest
      /\ layout = Layout(This) /\ elements = ElementsOf(This)
      /\ IInv /\ LoopInv /\ call.op = "parse" /\ i <= Len(layout)
      /\ \A q \in DOMAIN templates : MemberParts(q) BY PartsOfFullInv DEF AtMember
<1>2. /\ TemplatesInv /\ call \in Call /\ p \in DOMAIN templates /\ p \in Seq(IVars)
      /\ This = templates[p] /\ templates[p] \in Template /\ TemplateInv(templates[p])
      /\ ~templates[p].parsed /\ Codec(templates[p]) \in ConsCodecs
      /\ i \in 1..(Len(layout) + 1) /\ o # NULL BY <1>1, CallFacts DEF IInv, CallInv, This
<1>3. IsCons(templates[p]) /\ templates[p].origin \in Objects
  BY <1>2 DEF IsCons, TemplateInv, Template
<1>4. AreMatched(p) /\ HasTemplates(p) BY <1>1, <1>2, <1>3 DEF MemberParts
<1>5. /\ layout = Layout(templates[p]) /\ layout \in Seq(Field) /\ Len(layout) \in Nat
      /\ DOMAIN layout = 1..Len(layout) BY <1>1, <1>2, FoundFacts
<1>6. \A j \in 1..Len(layout) :
        /\ layout[j] \in Field /\ layout[j].name \in IVars
        /\ layout[j].codec = "TEMPLATE" => layout[j].type \in Classes
  BY <1>2, <1>5, LayoutTypes, LayoutNames
<1>7. i \in 1..Len(layout) BY <1>1, <1>2, <1>5
<1>8. elements = ElementsOf(templates[p]) /\ elements \in Seq(Objects)
  BY <1>1, <1>2, <1>3, UnpackTypes DEF ElementsOf
<1>9. n \in Nat /\ o \in Objects /\ rest \in Seq(Objects) BY <1>1, <1>2 DEF Call
<1>10. /\ n + 1 \in DOMAIN elements /\ o = elements[n + 1] /\ IsRest(rest, elements, n + 1)
       /\ n = Cardinality(FoundBefore(p, i))
       /\ \A j \in 1..(i - 1) :
            /\ IsMatched(p, j)
            /\ j \in Found(p) \/ MayBeAbsent(layout[j])
            /\ layout[j].default /\ DefaultName(layout[j]) = layout[j].name =>
                 templates[p].ivars[layout[j].name] # NULL BY <1>1, <1>2 DEF LoopInv
<1>11. MembersOwnNames => OwnNames(layout)
  BY <1>2, <1>5 DEF MembersOwnNames, TemplateInv, Layout, Codec, CodecOf
<1> QED BY <1>1, <1>2, <1>3, <1>4, <1>5, <1>6, <1>7, <1>8, <1>9, <1>10, <1>11

\* A member that does not match has no object, also not from an earlier get.
LEMMA NotFound ==
  ASSUME NEW p, NEW i, NEW n, NEW o, NEW rest, NEW layout, NEW elements,
         AtMember(p, i, n, o, rest, layout, elements),
         Match(o, layout[i]) \in {"no", "default"}
  PROVE  i \notin Found(p) /\ FoundBefore(p, i + 1) = FoundBefore(p, i) /\ IsMatched(p, i)
<1>1. /\ templates[p] \in Template /\ TemplateInv(templates[p]) /\ AreMatched(p)
      /\ layout = Layout(templates[p]) /\ i \in DOMAIN layout /\ i \in Nat
      /\ elements = ElementsOf(templates[p]) /\ n + 1 \in DOMAIN elements
      /\ o = elements[n + 1] /\ n = Cardinality(FoundBefore(p, i)) BY AtMemberFacts
<1>2. i \notin Found(p)
  <2> SUFFICES ASSUME i \in Found(p)
               PROVE  FALSE
    OBVIOUS
  <2>1. i <= i BY <1>1
  <2>2. IsMatched(p, i) BY <1>1, <2>1 DEF AreMatched
  <2> QED BY <1>1, <2>2 DEF IsMatched
<1>3. FoundBefore(p, i + 1) = FoundBefore(p, i)
  <2>1. Found(p) \subseteq Nat BY <1>1, FoundFacts
  <2>2. \A j \in Found(p) : j < i + 1 <=> j < i BY <1>1, <1>2, <2>1
  <2> QED BY <2>2 DEF FoundBefore
<1> QED BY <1>1, <1>2, <1>3 DEF IsMatched

\* A member that matches has no other object, and one that an earlier get has
\* given an object behind it had it, too.
LEMMA FoundAgain ==
  ASSUME NEW p, NEW i, NEW n, NEW o, NEW rest, NEW layout, NEW elements,
         AtMember(p, i, n, o, rest, layout, elements),
         Match(o, layout[i]) = "match",
         NEW j \in Found(p), i <= j
  PROVE  i \in Found(p) /\ ObjectOf(p, i) = o
<1>1. /\ templates[p] \in Template /\ TemplateInv(templates[p]) /\ AreMatched(p)
      /\ layout = Layout(templates[p]) /\ i \in DOMAIN layout /\ i \in Nat
      /\ elements = ElementsOf(templates[p]) /\ n + 1 \in DOMAIN elements
      /\ o = elements[n + 1] /\ n = Cardinality(FoundBefore(p, i)) BY AtMemberFacts
<1>2. IsMatched(p, i) BY <1>1 DEF AreMatched
<1> QED BY <1>1, <1>2 DEF IsMatched

\* A container for an object is one for its member.
LEMMA ContainerOfTypes ==
  ASSUME NEW o \in Objects, NEW f \in Field
  PROVE  LET c == ContainerOf(o, f)
         IN  c \in Container /\ c # NULL /\ c.field = f /\ f # NULL
               /\ (f.codec # "TEMPLATE" => c.object = o)
<1>1. Nil \in Value /\ SomeValue("template", <<>>) \in Value BY DEF Nil, SomeValue, Value
<1>2. ContainerOf(o, f) \in Container BY <1>1 DEF ContainerOf, Container
<1> QED BY <1>2, ContainerAssumption, NullAssumption DEF ContainerOf

\* What Parsed makes of the templates.
LEMMA ParsedTemplates ==
  ASSUME NEW p \in DOMAIN templates, p \in Seq(IVars), NEW t \in Template,
         NEW o \in Objects, NEW f \in Field, templates' = Parsed(p, t, o, f)
  PROVE  LET child == Append(p, f.name)
         IN  /\ DOMAIN templates \subseteq DOMAIN templates'
             /\ DOMAIN templates' \subseteq DOMAIN templates \cup {child}
             /\ f.codec = "TEMPLATE" => child \in DOMAIN templates'
             /\ templates'[p].field = t.field /\ templates'[p].origin = t.origin
             /\ templates'[p].parsed = t.parsed /\ templates'[p].tag = t.tag
             /\ \A v \in IVars :
                  templates'[p].ivars[v] = IF v = f.name THEN ContainerOf(o, f) ELSE t.ivars[v]
             /\ \A q \in DOMAIN templates' :
                  (q # p /\ templates'[q] # templates[q]) \/ q \notin DOMAIN templates =>
                    /\ q = child /\ f.codec = "TEMPLATE"
                    /\ templates'[q] = krypt_asn1_template_new(o, f)
             /\ f.codec = "TEMPLATE" => templates'[child] = krypt_asn1_template_new(o, f)
             /\ child # p /\ Parent(child) = p
<1> DEFINE child == Append(p, f.name)
           s == [t EXCEPT !.ivars[f.name] = ContainerOf(o, f)]
<1>1. f.name \in IVars BY DEF Field
<1>2. child # p /\ Parent(child) = p BY <1>1, ParentOfMember
<1>3. /\ s.field = t.field /\ s.origin = t.origin /\ s.parsed = t.parsed /\ s.tag = t.tag
      /\ \A v \in IVars : s.ivars[v] = IF v = f.name THEN ContainerOf(o, f) ELSE t.ivars[v]
  BY <1>1 DEF Template
<1> HIDE DEF s
<1>4. CASE f.codec # "TEMPLATE"
  <2>1. templates' = With(p, s) BY <1>4 DEF Parsed, s
  <2>2. /\ DOMAIN templates' = DOMAIN templates /\ templates'[p] = s
        /\ \A q \in DOMAIN templates : q # p => templates'[q] = templates[q] BY <2>1 DEF With
  <2> QED BY <1>2, <1>3, <1>4, <2>2
<1>5. CASE f.codec = "TEMPLATE"
  <2>1. /\ DOMAIN templates' = DOMAIN templates \cup {child} /\ templates'[p] = s
        /\ templates'[child] = krypt_asn1_template_new(o, f)
        /\ \A q \in DOMAIN templates : q # p /\ q # child => templates'[q] = templates[q]
    BY <1>2, <1>5 DEF Parsed, With, s
  <2> QED BY <1>2, <1>3, <1>5, <2>1
<1> QED BY <1>4, <1>5

\* The templates beside the one that is parsed: one for a member is new.
LEMMA OthersStay ==
  ASSUME FullInv, NEW p \in DOMAIN templates, ~templates[p].parsed,
         NEW t \in Template, t.origin = templates[p].origin,
         NEW o \in Objects, NEW f \in Field, templates' = Parsed(p, t, o, f), TemplatesInv'
  PROVE  \A q \in DOMAIN templates' : q # p => MemberParts(q)'
<1> DEFINE child == Append(p, f.name)
<1>1. TemplatesInv /\ p \in Seq(IVars) /\ \A q \in DOMAIN templates : MemberParts(q)
  BY PartsOfFullInv, PartsOfInv DEF TemplatesInv
<1>2. /\ DOMAIN templates \subseteq DOMAIN templates'
      /\ templates'[p].origin = templates[p].origin
      /\ \A q \in DOMAIN templates' :
           (q # p /\ templates'[q] # templates[q]) \/ q \notin DOMAIN templates =>
                  /\ q = child /\ f.codec = "TEMPLATE"
                  /\ templates'[q] = krypt_asn1_template_new(o, f)
      /\ child # p /\ Parent(child) = p BY <1>1, ParsedTemplates
<1> HIDE DEF child
<1>3. ASSUME NEW q \in DOMAIN templates', q # p,
             templates'[q] # templates[q] \/ q \notin DOMAIN templates
      PROVE  MemberParts(q)'
  <2>1. templates'[q] = krypt_asn1_template_new(o, f) BY <1>2, <1>3
  <2>2. templates'[q].ivars = [v \in IVars |-> NULL] /\ templates'[q].parsed = FALSE
    BY <2>1 DEF krypt_asn1_template_new
  <2>3. templates'[q] \in Template /\ TemplateInv(templates'[q]) BY DEF TemplatesInv, TemplateInv
  <2> QED BY <2>2, <2>3, FreshMembers DEF IsParsedChoice
<1>4. ASSUME NEW q \in DOMAIN templates, q # p, templates'[q] = templates[q]
      PROVE  MemberParts(q)'
  <2>1. ASSUME NEW v \in IVars, Append(q, v) \in DOMAIN templates
        PROVE  KeepsOrigin(Append(q, v))
    <3>1. q \in Seq(IVars) /\ Parent(Append(q, v)) = q BY <1>1, ParentOfMember DEF TemplatesInv
    <3>2. Append(q, v) # child BY <1>2, <1>4, <3>1
    <3> QED BY <1>2, <2>1, <3>2 DEF KeepsOrigin
  <2>2. KeepsMembers(q) BY <1>2, <1>4, <2>1 DEF KeepsMembers, SameContainer
  <2> QED BY <1>1, <1>4, <2>2, FrameMembers
<1> QED BY <1>3, <1>4

\* The member at hand is given the object at hand: t is the template up to
\* that, with no more than defaults for members that have no object.
GivesObject(p, i, o, layout, t) ==
  /\ t \in Template /\ t.field = templates[p].field /\ t.origin = templates[p].origin
  /\ ~t.parsed
  /\ \A j \in DOMAIN layout : j # i =>
       LET c == t.ivars[layout[j].name]
       IN  \/ c = templates[p].ivars[layout[j].name]
           \/ j \notin Found(p) /\ c # NULL /\ c.field = NULL
  /\ templates' = Parsed(p, t, o, layout[i])

\* Then the member has the object, and the others have what they had.
LEMMA ObjectsOfGiven ==
  ASSUME NEW p, NEW i, NEW n, NEW o, NEW rest, NEW layout, NEW elements,
         AtMember(p, i, n, o, rest, layout, elements), OwnNames(layout),
         Match(o, layout[i]) = "match",
         NEW t, GivesObject(p, i, o, layout, t)
  PROVE  /\ p \in DOMAIN templates' /\ ~templates'[p].parsed
         /\ templates'[p].field = templates[p].field
         /\ templates'[p].origin = templates[p].origin
         /\ Layout(templates'[p]) = layout /\ ElementsOf(templates'[p]) = elements
         /\ IsCons(templates'[p])
         /\ Found(p)' = Found(p) \cup {i}
         /\ ObjectOf(p, i)' = o
         /\ \A j \in Found(p) : ObjectOf(p, j)' = ObjectOf(p, j)
         /\ HasTemplates(p)'
<1>1. /\ templates[p] \in Template /\ TemplateInv(templates[p]) /\ AreMatched(p)
      /\ p \in DOMAIN templates /\ p \in Seq(IVars) /\ IsCons(templates[p])
      /\ layout = Layout(templates[p]) /\ DOMAIN layout = 1..Len(layout)
      /\ i \in DOMAIN layout /\ i \in Nat
      /\ elements = ElementsOf(templates[p])
      /\ o = elements[n + 1] /\ n = Cardinality(FoundBefore(p, i)) /\ o \in Objects
      /\ HasTemplates(p)
      /\ \A j \in DOMAIN layout : layout[j] \in Field /\ layout[j].name \in IVars
  BY AtMemberFacts
<1> DEFINE f == layout[i]
           child == Append(p, f.name)
<1>2. /\ p \in DOMAIN templates'
      /\ DOMAIN templates \subseteq DOMAIN templates'
      /\ f.codec = "TEMPLATE" => child \in DOMAIN templates'
      /\ templates'[p].field = t.field /\ templates'[p].origin = t.origin
      /\ templates'[p].parsed = t.parsed
      /\ \A v \in IVars :
           templates'[p].ivars[v] = IF v = f.name THEN ContainerOf(o, f) ELSE t.ivars[v]
      /\ \A q \in DOMAIN templates' :
           (q # p /\ templates'[q] # templates[q]) \/ q \notin DOMAIN templates =>
                  /\ q = child /\ f.codec = "TEMPLATE"
                  /\ templates'[q] = krypt_asn1_template_new(o, f)
      /\ f.codec = "TEMPLATE" => templates'[child] = krypt_asn1_template_new(o, f)
  BY <1>1, ParsedTemplates DEF GivesObject
<1>3. /\ templates'[p].field = templates[p].field /\ templates'[p].origin = templates[p].origin
      /\ Layout(templates'[p]) = layout /\ ElementsOf(templates'[p]) = elements
      /\ IsCons(templates'[p]) /\ ~templates'[p].parsed
  BY <1>1, <1>2 DEF GivesObject, Layout, ElementsOf, IsCons, Codec
<1>4. ASSUME NEW j \in DOMAIN layout
      PROVE  /\ j = i => ObjectOf(p, j)' = o
             /\ j # i => ObjectOf(p, j)' = ObjectOf(p, j)
             /\ LET g == layout[j]
                    d == templates'[p].ivars[g.name]
                IN  g.codec = "TEMPLATE" /\ d # NULL /\ d.field # NULL =>
                      Append(p, g.name) \in DOMAIN templates'
  <2> DEFINE g == layout[j]
             q == Append(p, g.name)
             c == templates[p].ivars[g.name]
             d == templates'[p].ivars[g.name]
  <2>1. g \in Field /\ g.name \in IVars /\ q # p BY <1>1, ParentOfMember
  <2>2. ObjectOf(p, j) = IF c = NULL \/ (c # NULL /\ c.field = NULL) THEN NULL
                         ELSE IF g.codec = "TEMPLATE" THEN templates[q].origin ELSE c.object
    BY <1>1 DEF ObjectOf
  <2>3. ObjectOf(p, j)' = IF d = NULL \/ (d # NULL /\ d.field = NULL) THEN NULL
                          ELSE IF g.codec = "TEMPLATE" THEN templates'[q].origin ELSE d.object
    BY <1>3 DEF ObjectOf
  <2>4. CASE j = i
    <3>1. /\ d = ContainerOf(o, g) /\ d # NULL /\ d.field = g /\ g # NULL
          /\ g.codec # "TEMPLATE" => d.object = o BY <1>1, <1>2, <2>1, <2>4, ContainerOfTypes
    <3>2. g.codec = "TEMPLATE" => templates'[q].origin = o /\ q \in DOMAIN templates'
      BY <1>2, <2>4 DEF krypt_asn1_template_new
    <3> QED BY <2>3, <2>4, <3>1, <3>2
  <2>5. CASE j # i
    <3>1. g.name # f.name BY <1>1, <2>5 DEF OwnNames
    <3>2. q # child BY <1>1, <2>1, <3>1, AppendInjective
    <3>3. d = t.ivars[g.name] BY <1>2, <2>1, <3>1
    <3>4. d = c \/ (j \notin Found(p) /\ d # NULL /\ d.field = NULL)
      BY <2>5, <3>3 DEF GivesObject
    <3>5. q \in DOMAIN templates => q \in DOMAIN templates' /\ templates'[q] = templates[q]
      BY <1>2, <2>1, <3>2
    <3>6. g.codec = "TEMPLATE" /\ c # NULL /\ c.field # NULL => q \in DOMAIN templates
      BY <1>1 DEF HasTemplates
    <3>7. j \notin Found(p) => ObjectOf(p, j) = NULL BY <1>1 DEF Found
    <3> HIDE DEF c, d, q, g
    <3>8. ObjectOf(p, j)' = ObjectOf(p, j) BY <2>2, <2>3, <3>4, <3>5, <3>6, <3>7
    <3>9. g.codec = "TEMPLATE" /\ d # NULL /\ d.field # NULL => q \in DOMAIN templates'
      BY <3>4, <3>5, <3>6
    <3> QED BY <2>5, <3>8, <3>9 DEF q, d, g
  <2> QED BY <2>4, <2>5
<1>5. Found(p)' = Found(p) \cup {i}
  <2>1. o # NULL BY <1>1, NullAssumption
  <2>2. \A j : j \in Found(p)' <=> j \in DOMAIN layout /\ ObjectOf(p, j)' # NULL
    BY <1>3 DEF Found
  <2>3. \A j : j \in Found(p) <=> j \in DOMAIN layout /\ ObjectOf(p, j) # NULL BY <1>1 DEF Found
  <2> QED BY <1>1, <1>4, <2>1, <2>2, <2>3
<1>6. i \in Found(p) => ObjectOf(p, i) = o
  <2>1. i <= i BY <1>1
  <2> QED BY <2>1, FoundAgain
<1>7. \A j \in Found(p) : j \in DOMAIN layout BY <1>1 DEF Found
<1>8. HasTemplates(p)' BY <1>3, <1>4 DEF HasTemplates
<1> QED BY <1>1, <1>2, <1>3, <1>4, <1>5, <1>6, <1>7, <1>8

\* With it, the members up to this one have the objects that were used.
LEMMA GivenObject ==
  ASSUME NEW p, NEW i, NEW n, NEW o, NEW rest, NEW layout, NEW elements,
         AtMember(p, i, n, o, rest, layout, elements), OwnNames(layout),
         Match(o, layout[i]) = "match",
         NEW t, GivesObject(p, i, o, layout, t)
  PROVE  /\ Cardinality(FoundBefore(p, i + 1)') = n + 1
         /\ \A j \in 1..i : IsMatched(p, j)'
         /\ AreMatched(p)'
<1>1. /\ templates[p] \in Template /\ TemplateInv(templates[p]) /\ AreMatched(p)
      /\ layout = Layout(templates[p]) /\ DOMAIN layout = 1..Len(layout)
      /\ Len(layout) \in Nat /\ n \in Nat
      /\ i \in DOMAIN layout /\ i \in Nat /\ i \in 1..Len(layout)
      /\ elements = ElementsOf(templates[p]) /\ n + 1 \in DOMAIN elements
      /\ o = elements[n + 1] /\ n = Cardinality(FoundBefore(p, i))
      /\ \A j \in 1..(i - 1) : IsMatched(p, j) BY AtMemberFacts
<1>2. /\ Found(p)' = Found(p) \cup {i} /\ ObjectOf(p, i)' = o
      /\ \A j \in Found(p) : ObjectOf(p, j)' = ObjectOf(p, j)
      /\ Layout(templates'[p]) = layout /\ ElementsOf(templates'[p]) = elements BY ObjectsOfGiven
<1>3. Found(p) \subseteq 1..Len(layout) /\ Found(p) \subseteq Nat BY <1>1, FoundFacts
<1>4. \A j \in 1..i : FoundBefore(p, j)' = FoundBefore(p, j)
  <2>1. \A j \in 1..i : ~(i < j) BY <1>1
  <2> QED BY <1>2, <2>1 DEF FoundBefore
<1>5. FoundBefore(p, i + 1)' = FoundBefore(p, i) \cup {i} /\ i \notin FoundBefore(p, i)
  <2>1. \A j \in Found(p) \cup {i} : j < i + 1 <=> j < i \/ j = i BY <1>1, <1>3
  <2>2. ~(i < i) BY <1>1
  <2> QED BY <1>2, <2>1, <2>2 DEF FoundBefore
<1>6. Cardinality(FoundBefore(p, i + 1)') = n + 1
  <2>1. IsFiniteSet(FoundBefore(p, i)) BY <1>1, FoundFacts
  <2> QED BY <1>1, <1>5, <2>1, FS_AddElement
<1>7. IsMatched(p, i)' BY <1>1, <1>2, <1>4 DEF IsMatched
<1>8. ASSUME NEW j \in 1..(i - 1)
      PROVE  IsMatched(p, j)'
  <2>1. IsMatched(p, j) /\ j # i /\ j \in 1..i BY <1>1
  <2>2. j \in Found(p)' <=> j \in Found(p) BY <1>2, <2>1
  <2>3. FoundBefore(p, j)' = FoundBefore(p, j) BY <1>4, <2>1
  <2>4. j \in Found(p) => ObjectOf(p, j)' = ObjectOf(p, j) BY <1>2
  <2> QED BY <1>1, <1>2, <2>1, <2>2, <2>3, <2>4 DEF IsMatched
<1>9. \A j \in 1..i : IsMatched(p, j)'
  <2>1. \A j \in 1..i : j = i \/ j \in 1..(i - 1) BY <1>1
  <2> QED BY <1>7, <1>8, <2>1
<1>10. ASSUME NEW j \in DOMAIN layout, NEW k \in Found(p)', j <= k
       PROVE  IsMatched(p, j)'
  <2>1. CASE j \in 1..i BY <1>9, <2>1
  <2>2. CASE j \notin 1..i
    <3>1. j > i /\ k > i /\ k \in Found(p) BY <1>1, <1>2, <1>3, <1>10, <2>2
    <3>2. i \in Found(p)
      <4>1. i <= k BY <1>1, <1>3, <3>1
      <4> QED BY <3>1, <4>1, FoundAgain
    <3>3. Found(p)' = Found(p) BY <1>2, <3>2
    <3>4. IsMatched(p, j) BY <1>1, <1>10, <3>1 DEF AreMatched
    <3>5. FoundBefore(p, j)' = FoundBefore(p, j) BY <3>3 DEF FoundBefore
    <3> QED BY <1>1, <1>2, <3>3, <3>4, <3>5 DEF IsMatched
  <2> QED BY <2>1, <2>2
<1>11. AreMatched(p)' BY <1>2, <1>10 DEF AreMatched
<1> QED BY <1>6, <1>9, <1>11

\* What is in the containers then.
LEMMA ContainersOfGiven ==
  ASSUME NEW p, NEW i, NEW n, NEW o, NEW rest, NEW layout, NEW elements,
         AtMember(p, i, n, o, rest, layout, elements), OwnNames(layout),
         NEW t, GivesObject(p, i, o, layout, t)
  PROVE  \A j \in DOMAIN layout :
           LET d == templates'[p].ivars[layout[j].name]
           IN  /\ j = i => d # NULL
               /\ j # i => d = t.ivars[layout[j].name]
               /\ templates[p].ivars[layout[j].name] # NULL => d # NULL
<1>1. /\ p \in DOMAIN templates /\ p \in Seq(IVars)
      /\ DOMAIN layout = 1..Len(layout) /\ i \in DOMAIN layout /\ o \in Objects
      /\ \A j \in DOMAIN layout : layout[j] \in Field /\ layout[j].name \in IVars
  BY AtMemberFacts
<1>2. \A v \in IVars :
        templates'[p].ivars[v] = IF v = layout[i].name THEN ContainerOf(o, layout[i]) ELSE t.ivars[v]
  BY <1>1, ParsedTemplates DEF GivesObject
<1>3. ContainerOf(o, layout[i]) # NULL BY <1>1, ContainerOfTypes
<1>4. \A j \in DOMAIN layout : j # i => layout[j].name # layout[i].name BY <1>1 DEF OwnNames
<1> QED BY <1>1, <1>2, <1>3, <1>4 DEF GivesObject

\* The templates keep their part of the invariant then.
LEMMA GivenMembers ==
  ASSUME NEW p, NEW i, NEW n, NEW o, NEW rest, NEW layout, NEW elements,
         AtMember(p, i, n, o, rest, layout, elements), OwnNames(layout),
         Match(o, layout[i]) = "match",
         NEW t, GivesObject(p, i, o, layout, t), TemplatesInv'
  PROVE  \A q \in DOMAIN templates' : MemberParts(q)'
<1>1. FullInv /\ p \in DOMAIN templates /\ ~templates[p].parsed /\ o \in Objects /\ layout[i] \in Field
  BY AtMemberFacts DEF AtMember
<1>2. \A q \in DOMAIN templates' : q # p => MemberParts(q)' BY <1>1, OthersStay DEF GivesObject
<1>3. MemberParts(p)' BY ObjectsOfGiven, GivenObject DEF MemberParts, IsParsedChoice
<1> QED BY <1>2, <1>3

\* The members up to the one at hand are as the loop leaves them.
PassedMembers(p, k, layout) ==
  \A j \in 1..k :
    /\ j \in Found(p) \/ MayBeAbsent(layout[j])
    /\ layout[j].default /\ DefaultName(layout[j]) = layout[j].name =>
         templates[p].ivars[layout[j].name] # NULL

\* No member that must have an object was passed over then.
LEMMA GivenPassed ==
  ASSUME NEW p, NEW i, NEW n, NEW o, NEW rest, NEW layout, NEW elements,
         AtMember(p, i, n, o, rest, layout, elements), OwnNames(layout),
         Match(o, layout[i]) = "match",
         NEW t, GivesObject(p, i, o, layout, t)
  PROVE  PassedMembers(p, i, layout)'
<1>1. Found(p)' = Found(p) \cup {i} BY ObjectsOfGiven
<1>2. /\ i \in 1..Len(layout) /\ Len(layout) \in Nat /\ DOMAIN layout = 1..Len(layout)
      /\ \A j \in 1..(i - 1) :
            /\ j \in Found(p) \/ MayBeAbsent(layout[j])
            /\ layout[j].default /\ DefaultName(layout[j]) = layout[j].name =>
                 templates[p].ivars[layout[j].name] # NULL BY AtMemberFacts
<1>3. \A j \in 1..i : j \in DOMAIN layout /\ (j = i \/ j \in 1..(i - 1)) BY <1>2
<1>4. \A j \in DOMAIN layout :
         LET d == templates'[p].ivars[layout[j].name]
         IN  /\ j = i => d # NULL
             /\ templates[p].ivars[layout[j].name] # NULL => d # NULL BY ContainersOfGiven
<1> QED BY <1>1, <1>2, <1>3, <1>4 DEF PassedMembers

\* Defaults are set and no object is given.
SetsDefaults(p, layout, t) ==
  /\ t \in Template /\ t.field = templates[p].field /\ t.origin = templates[p].origin
  /\ ~t.parsed
  /\ \A j \in DOMAIN layout :
       LET c == t.ivars[layout[j].name]
       IN  \/ c = templates[p].ivars[layout[j].name]
           \/ j \notin Found(p) /\ c # NULL /\ c.field = NULL
  /\ DOMAIN templates' = DOMAIN templates /\ templates'[p] = t
  /\ \A q \in DOMAIN templates : q # p => templates'[q] = templates[q]

\* Defaults for members without an object give none away.
LEMMA DefaultsStay ==
  ASSUME NEW p, NEW i, NEW n, NEW o, NEW rest, NEW layout, NEW elements,
         AtMember(p, i, n, o, rest, layout, elements),
         NEW t, SetsDefaults(p, layout, t)
  PROVE  /\ p \in DOMAIN templates' /\ templates'[p] = t
         /\ Layout(templates'[p]) = layout /\ ElementsOf(templates'[p]) = elements
         /\ Found(p)' = Found(p)
         /\ \A j \in DOMAIN layout : IsMatched(p, j)' = IsMatched(p, j)
         /\ \A q \in DOMAIN templates' : MemberParts(q)'
<1>1. /\ templates[p] \in Template /\ TemplateInv(templates[p]) /\ AreMatched(p)
      /\ p \in DOMAIN templates /\ IsCons(templates[p])
      /\ layout = Layout(templates[p]) /\ elements = ElementsOf(templates[p])
      /\ HasTemplates(p) /\ TemplatesInv
      /\ \A q \in DOMAIN templates : MemberParts(q) BY AtMemberFacts
<1>2. /\ DOMAIN templates' = DOMAIN templates /\ templates'[p] = t
      /\ \A q \in DOMAIN templates : q # p => templates'[q] = templates[q]
  BY <1>1 DEF SetsDefaults
<1>3. /\ t.field = templates[p].field /\ t.origin = templates[p].origin /\ ~t.parsed
      /\ Layout(t) = layout /\ ElementsOf(t) = elements /\ IsCons(t)
  BY <1>1 DEF SetsDefaults, Layout, ElementsOf, IsCons, Codec
<1>4. \A q \in DOMAIN templates : templates'[q].origin = templates[q].origin BY <1>2, <1>3
<1>5. ASSUME NEW j \in DOMAIN layout
      PROVE  /\ ObjectOf(p, j)' = ObjectOf(p, j)
             /\ LET g == layout[j]
                    d == t.ivars[g.name]
                IN  g.codec = "TEMPLATE" /\ d # NULL /\ d.field # NULL =>
                      Append(p, g.name) \in DOMAIN templates
  <2> DEFINE g == layout[j]
             q == Append(p, g.name)
             c == templates[p].ivars[g.name]
             d == t.ivars[g.name]
  <2>1. ObjectOf(p, j) = IF c = NULL \/ (c # NULL /\ c.field = NULL) THEN NULL
                         ELSE IF g.codec = "TEMPLATE" THEN templates[q].origin ELSE c.object
    BY <1>1 DEF ObjectOf
  <2>2. ObjectOf(p, j)' = IF d = NULL \/ (d # NULL /\ d.field = NULL) THEN NULL
                          ELSE IF g.codec = "TEMPLATE" THEN templates'[q].origin ELSE d.object
    BY <1>2, <1>3 DEF ObjectOf
  <2>3. d = c \/ (j \notin Found(p) /\ d # NULL /\ d.field = NULL) BY DEF SetsDefaults
  <2>4. g.codec = "TEMPLATE" /\ c # NULL /\ c.field # NULL => q \in DOMAIN templates
    BY <1>1 DEF HasTemplates
  <2>5. j \notin Found(p) => ObjectOf(p, j) = NULL BY <1>1 DEF Found
  <2>6. q \in DOMAIN templates => templates'[q].origin = templates[q].origin BY <1>4
  <2> HIDE DEF c, d, q, g
  <2> QED BY <2>1, <2>2, <2>3, <2>4, <2>5, <2>6 DEF q, d, g
<1>6. Found(p)' = Found(p) BY <1>1, <1>2, <1>3, <1>5 DEF Found
<1>7. HasTemplates(p)' BY <1>2, <1>3, <1>5 DEF HasTemplates
<1>8. /\ \A j \in DOMAIN layout : IsMatched(p, j)' = IsMatched(p, j)
      /\ AreMatched(p)' = AreMatched(p) BY <1>1, <1>2, <1>3, <1>5, <1>6, FrameMatched
<1>9. MemberParts(p)' BY <1>1, <1>2, <1>3, <1>7, <1>8 DEF MemberParts, IsParsedChoice
<1>10. ASSUME NEW q \in DOMAIN templates, q # p
       PROVE  MemberParts(q)'
  <2>1. KeepsMembers(q) BY <1>2, <1>4, <1>10 DEF KeepsMembers, SameContainer, KeepsOrigin
  <2> QED BY <1>1, <1>2, <1>10, <2>1, FrameMembers
<1> QED BY <1>1, <1>2, <1>3, <1>6, <1>8, <1>9, <1>10

\* What int_set_default_value puts into a container.
LEMMA DefaultContainers ==
  ASSUME NEW t \in Template, NEW v \in IVars, NEW names
  PROVE  LET c == krypt_asn1_template_new_value(SomeValue("default", <<>>))
             d == int_set_default_value(t, v)
             w == WithDefaults(t, names)
         IN  /\ c # NULL /\ c.field = NULL
             /\ d.origin = t.origin /\ w.origin = t.origin
             /\ \A u \in IVars : /\ d.ivars[u] = IF u = v THEN c ELSE t.ivars[u]
                                 /\ w.ivars[u] = IF u \in names THEN c ELSE t.ivars[u]
<1> DEFINE c == krypt_asn1_template_new_value(SomeValue("default", <<>>))
<1>1. c \in Container /\ c.field = NULL
  BY DEF krypt_asn1_template_new_value, SomeValue, Value, Container
<1>2. c # NULL BY <1>1, ContainerAssumption
<1> HIDE DEF c
<1>3. \A u \in IVars : int_set_default_value(t, v).ivars[u] = IF u = v THEN c ELSE t.ivars[u]
  BY DEF int_set_default_value, Template, c
<1>4. \A u \in IVars : WithDefaults(t, names).ivars[u] = IF u \in names THEN c ELSE t.ivars[u]
  BY DEF WithDefaults, Template, c
<1>5. int_set_default_value(t, v).origin = t.origin /\ WithDefaults(t, names).origin = t.origin
  BY DEF int_set_default_value, WithDefaults, Template
<1> QED BY <1>1, <1>2, <1>3, <1>4, <1>5 DEF c

\* int_match of a member that is not there sets its default.
LEMMA AbsentDefault ==
  ASSUME NEW p, NEW i, NEW n, NEW o, NEW rest, NEW layout, NEW elements,
         AtMember(p, i, n, o, rest, layout, elements), OwnNames(layout),
         Match(o, layout[i]) = "default",
         NEW t, t = int_set_default_value(templates[p], DefaultName(layout[i])),
         templates' = With(p, t)
  PROVE  /\ SetsDefaults(p, layout, t)
         /\ \A j \in DOMAIN layout :
              /\ templates[p].ivars[layout[j].name] # NULL => t.ivars[layout[j].name] # NULL
              /\ j = i /\ DefaultName(layout[i]) = layout[i].name => t.ivars[layout[j].name] # NULL
<1>1. /\ templates[p] \in Template /\ TemplateInv(templates[p]) /\ ~templates[p].parsed
      /\ DOMAIN layout = 1..Len(layout) /\ i \in DOMAIN layout /\ p \in DOMAIN templates
      /\ \A j \in DOMAIN layout : layout[j] \in Field /\ layout[j].name \in IVars
  BY AtMemberFacts
<1>2. i \notin Found(p) BY NotFound
<1>3. DefaultName(layout[i]) \in IVars BY <1>1 DEF DefaultName, IVars
<1>4. /\ t \in Template /\ t.field = templates[p].field /\ ~t.parsed BY <1>1, <1>3, DefaultsTypes
<1> DEFINE c == krypt_asn1_template_new_value(SomeValue("default", <<>>))
           v == DefaultName(layout[i])
<1>5. /\ c # NULL /\ c.field = NULL /\ t.origin = templates[p].origin
      /\ \A u \in IVars : t.ivars[u] = IF u = v THEN c ELSE templates[p].ivars[u]
  BY <1>1, <1>3, DefaultContainers
<1> HIDE DEF c
<1>6. \A j \in DOMAIN layout : j # i => layout[j].name # v BY <1>1 DEF OwnNames
<1> HIDE DEF v
<1>7. /\ DOMAIN templates' = DOMAIN templates /\ templates'[p] = t
      /\ \A q \in DOMAIN templates : q # p => templates'[q] = templates[q] BY <1>1 DEF With
<1>8. SetsDefaults(p, layout, t) BY <1>1, <1>2, <1>4, <1>5, <1>6, <1>7 DEF SetsDefaults
<1> QED BY <1>1, <1>5, <1>6, <1>8 DEF v

\* Without objects for them, the members behind the one at hand get their
\* defaults: none of them has ever been given an object.
LEMMA NoneBehind ==
  ASSUME NEW p, NEW i, NEW n, NEW o, NEW rest, NEW layout, NEW elements,
         AtMember(p, i, n, o, rest, layout, elements),
         Match(o, layout[i]) = "match", rest = <<>>, NEW j \in Found(p)
  PROVE  j <= i
<1> SUFFICES ASSUME ~(j <= i)
             PROVE  FALSE
  OBVIOUS
<1>1. /\ templates[p] \in Template /\ TemplateInv(templates[p]) /\ AreMatched(p)
      /\ layout = Layout(templates[p]) /\ i \in Nat /\ n \in Nat
      /\ elements = ElementsOf(templates[p]) /\ elements \in Seq(Objects)
      /\ n = Cardinality(FoundBefore(p, i)) /\ IsRest(rest, elements, n + 1) BY AtMemberFacts
<1>2. Len(elements) = n + 1 BY <1>1 DEF IsRest
<1>3. j \in DOMAIN Layout(templates[p]) /\ j \in Nat /\ i < j /\ i <= j /\ j <= j
  BY <1>1, FoundFacts
<1>4. i \in Found(p) /\ IsMatched(p, j) BY <1>1, <1>3, FoundAgain DEF AreMatched
<1>5. /\ FoundBefore(p, i) \cup {i} \subseteq FoundBefore(p, j) /\ i \notin FoundBefore(p, i)
  <2>1. \A k \in Found(p) : k < i => k < j BY <1>1, <1>3, FoundFacts
  <2>2. ~(i < i) BY <1>1
  <2> QED BY <1>3, <1>4, <2>1, <2>2 DEF FoundBefore
<1>6. Cardinality(FoundBefore(p, i) \cup {i}) = n + 1
  <2>1. IsFiniteSet(FoundBefore(p, i)) BY <1>1, FoundFacts
  <2> QED BY <1>1, <1>5, <2>1, FS_AddElement
<1>7. Cardinality(FoundBefore(p, j)) \in Nat /\ n + 1 <= Cardinality(FoundBefore(p, j))
  <2>1. IsFiniteSet(FoundBefore(p, j)) /\ Cardinality(FoundBefore(p, j)) \in Nat
    BY <1>1, FoundFacts
  <2>2. Cardinality(FoundBefore(p, i) \cup {i}) <= Cardinality(FoundBefore(p, j))
    BY <1>5, <2>1, FS_Subset
  <2> QED BY <1>6, <2>1, <2>2
<1>8. Cardinality(FoundBefore(p, j)) + 1 \in DOMAIN elements BY <1>1, <1>4 DEF IsMatched
<1> QED BY <1>1, <1>2, <1>7, <1>8

\* int_ensure_rest_is_optional sets defaults of members without an object.
LEMMA RestDefaults ==
  ASSUME NEW p, NEW i, NEW n, NEW o, NEW rest, NEW layout, NEW elements,
         AtMember(p, i, n, o, rest, layout, elements), OwnNames(layout),
         Match(o, layout[i]) = "match", rest = <<>>,
         NEW t, t = WithDefaults(templates[p], RestNames(layout, i + 1)),
         templates' = Parsed(p, t, o, layout[i])
  PROVE  /\ GivesObject(p, i, o, layout, t)
         /\ RestIsOptional(layout, i + 1) =>
              \A j \in DOMAIN layout : j > i =>
                /\ MayBeAbsent(layout[j])
                /\ layout[j].default => t.ivars[layout[j].name] # NULL
<1>1. /\ templates[p] \in Template /\ TemplateInv(templates[p]) /\ ~templates[p].parsed
      /\ DOMAIN layout = 1..Len(layout) /\ i \in DOMAIN layout /\ Len(layout) \in Nat
      /\ \A j \in DOMAIN layout : layout[j] \in Field /\ layout[j].name \in IVars
  BY AtMemberFacts
<1> DEFINE c == krypt_asn1_template_new_value(SomeValue("default", <<>>))
           names == RestNames(layout, i + 1)
<1>2. t \in Template /\ t.field = templates[p].field /\ ~t.parsed
  <2>1. layout[i].name \in IVars BY <1>1
  <2> QED BY <1>1, <2>1, DefaultsTypes
<1>3. /\ c # NULL /\ c.field = NULL /\ t.origin = templates[p].origin
      /\ \A u \in IVars : t.ivars[u] = IF u \in names THEN c ELSE templates[p].ivars[u]
  BY <1>1, DefaultContainers DEF IVars
<1> HIDE DEF c
<1>4. \A j \in DOMAIN layout : layout[j].name \in names => j > i
  <2> SUFFICES ASSUME NEW j \in DOMAIN layout, layout[j].name \in names
               PROVE  j > i
    OBVIOUS
  <2>1. PICK k \in (i + 1)..Len(layout) : layout[k].name = layout[j].name BY DEF RestNames
  <2>2. k \in DOMAIN layout BY <1>1, <2>1
  <2>3. k = j BY <2>1, <2>2 DEF OwnNames
  <2> QED BY <1>1, <2>1, <2>3
<1>5. \A j \in DOMAIN layout : j > i => j \notin Found(p) BY <1>1, NoneBehind
<1>6. ASSUME RestIsOptional(layout, i + 1), NEW j \in DOMAIN layout, j > i
      PROVE  /\ MayBeAbsent(layout[j])
             /\ layout[j].default => layout[j].name \in names
  <2>1. j \in (i + 1)..Len(layout) BY <1>1, <1>6
  <2>2. \A l \in (i + 1)..Len(layout) : krypt_definition_is_optional(layout[l])
    BY <1>6 DEF RestIsOptional
  <2>3. \A l \in (i + 1)..j : krypt_definition_is_optional(layout[l]) BY <1>1, <2>1, <2>2
  <2> QED BY <2>1, <2>2, <2>3 DEF MayBeAbsent, RestNames
<1> HIDE DEF names
<1>7. GivesObject(p, i, o, layout, t) BY <1>1, <1>2, <1>3, <1>4, <1>5 DEF GivesObject
<1> QED BY <1>1, <1>3, <1>6, <1>7

\* The loop goes on behind member i, or behind all of them at k.
LEMMA LoopGoesOn ==
  ASSUME NEW p \in Seq(IVars), NEW k \in Nat, NEW m \in Nat, NEW layout, NEW elements,
         NEW cur, NEW rest, Len(layout) \in Nat,
         call'.op = "parse", call'.path = p, call'.i = k, call'.num_parsed = m,
         call'.cur = cur, call'.rest = rest,
         Layout(templates'[p]) = layout, ElementsOf(templates'[p]) = elements,
         m = Cardinality(FoundBefore(p, k)'), PassedMembers(p, k - 1, layout)',
         cur # NULL =>
           /\ m + 1 \in DOMAIN elements /\ cur = elements[m + 1]
           /\ IsRest(rest, elements, m + 1)
           /\ \A j \in 1..(k - 1) : IsMatched(p, j)'
           /\ k = Len(layout) + 1 => Len(layout) \notin Found(p)',
         cur = NULL =>
           /\ IsRest(rest, elements, m)
           /\ Len(layout) \in Found(p)' \/ rest = <<>>
  PROVE  LoopInv'
<1>1. /\ This' = templates'[p] /\ (call.path)' = p BY DEF This
<1>2. /\ Layout(This)' = layout /\ ElementsOf(This)' = elements
      /\ (call.op)' = "parse" /\ (call.i)' = k /\ (call.num_parsed)' = m
      /\ (call.cur)' = cur /\ (call.rest)' = rest BY <1>1 DEF Layout, ElementsOf
<1> QED BY <1>1, <1>2 DEF LoopInv, PassedMembers

\* The call when the loop goes on.
LEMMA NextMemberIs ==
  ASSUME call \in Call, NEW cur, NEW rest, NEW m, call' = NextMember(cur, rest, m)
  PROVE  /\ call'.op = call.op /\ call'.path = call.path /\ call'.i = call.i + 1
         /\ call'.cur = cur /\ call'.rest = rest /\ call'.num_parsed = call.num_parsed + m
  BY DEF NextMember, Call

\* No call runs a loop then.
LEMMA IdleIs ==
  Idle.op = "none" /\ Idle.num_parsed = 0 BY DEF Idle

\* The invariant holds if it does for each template and for the loop.
LEMMA FullFromParts ==
  ASSUME IInv', \A q \in DOMAIN templates' : MemberParts(q)', LoopInv'
  PROVE  FullInv'
  BY DEF FullInv, MembersInv, LayoutRespected, DefaultsApplied, ChoiceOfFirst, MemberParts, IsParsedCons

\* The loop goes on with member k; those before it that are in S have objects.
Turned(p, k, S) ==
  /\ call'.op = "parse" /\ call'.path = p /\ call'.i = k /\ FoundBefore(p, k)' = S
  /\ templates'[p].field = templates[p].field /\ templates'[p].origin = templates[p].origin

\* A turn in which the member has no object, and its default was set.
LEMMA AbsentTurn ==
  ASSUME NEW p, NEW i, NEW n, NEW o, NEW rest, NEW layout, NEW elements,
         AtMember(p, i, n, o, rest, layout, elements),
         Match(o, layout[i]) \in {"no", "default"},
         call' = NextMember(o, rest, 0),
         NEW t, SetsDefaults(p, layout, t),
         \A j \in DOMAIN layout :
           /\ templates[p].ivars[layout[j].name] # NULL => t.ivars[layout[j].name] # NULL
           /\ j = i /\ layout[j].default /\ DefaultName(layout[j]) = layout[j].name =>
                t.ivars[layout[j].name] # NULL
  PROVE  /\ \A q \in DOMAIN templates' : MemberParts(q)'
         /\ LoopInv'
         /\ Turned(p, i + 1, FoundBefore(p, i))
<1>1. /\ p \in Seq(IVars) /\ call \in Call /\ call.op = "parse" /\ call.path = p /\ call.i = i
      /\ call.num_parsed = n BY AtMemberFacts, CallFacts DEF AtMember
<1>2. /\ DOMAIN layout = 1..Len(layout) /\ Len(layout) \in Nat
      /\ \A j \in 1..Len(layout) :
            /\ layout[j] \in Field
            /\ layout[j].codec = "TEMPLATE" => layout[j].type \in Classes
      /\ i \in 1..Len(layout)
      /\ n \in Nat /\ n + 1 \in DOMAIN elements /\ o = elements[n + 1] /\ o \in Objects
      /\ IsRest(rest, elements, n + 1)
      /\ n = Cardinality(FoundBefore(p, i))
      /\ \A j \in 1..(i - 1) :
            /\ IsMatched(p, j)
            /\ j \in Found(p) \/ MayBeAbsent(layout[j])
            /\ layout[j].default /\ DefaultName(layout[j]) = layout[j].name =>
                 templates[p].ivars[layout[j].name] # NULL BY AtMemberFacts
<1>3. i \notin Found(p) /\ FoundBefore(p, i + 1) = FoundBefore(p, i) /\ IsMatched(p, i)
  BY NotFound
<1>4. /\ templates'[p] = t
      /\ Layout(templates'[p]) = layout /\ ElementsOf(templates'[p]) = elements
      /\ Found(p)' = Found(p)
      /\ \A j \in DOMAIN layout : IsMatched(p, j)' = IsMatched(p, j)
      /\ \A q \in DOMAIN templates' : MemberParts(q)' BY DefaultsStay
<1>5. /\ call'.op = "parse" /\ call'.path = p /\ call'.i = i + 1 /\ call'.num_parsed = n
      /\ call'.cur = o /\ call'.rest = rest BY <1>1, <1>2, NextMemberIs
<1>6. MayBeAbsent(layout[i]) BY <1>2, MatchAnswers
<1>7. \A j \in 1..i : j \in DOMAIN layout /\ (j = i \/ j \in 1..(i - 1)) BY <1>2
<1>8. PassedMembers(p, i, layout)' BY <1>2, <1>4, <1>6, <1>7 DEF PassedMembers
<1>9. FoundBefore(p, i + 1)' = FoundBefore(p, i + 1) BY <1>4 DEF FoundBefore
<1>10. \A j \in 1..i : IsMatched(p, j)' BY <1>2, <1>3, <1>4, <1>7
<1>11. o # NULL /\ i + 1 \in Nat /\ (i + 1) - 1 = i /\ (i + 1 = Len(layout) + 1 => Len(layout) = i)
  <2>1. i \in Nat /\ Len(layout) \in Nat BY AtMemberFacts
  <2>2. o # NULL BY <1>2, NullAssumption
  <2>3. i + 1 \in Nat /\ (i + 1) - 1 = i /\ (i + 1 = Len(layout) + 1 => Len(layout) = i) BY <2>1
  <2> QED BY <2>2, <2>3
<1>12. LoopInv'
  <2>1. n = Cardinality(FoundBefore(p, i + 1)') /\ (i + 1 = Len(layout) + 1 => Len(layout) \notin Found(p)')
    BY <1>2, <1>3, <1>4, <1>9, <1>11
  <2>2. PassedMembers(p, (i + 1) - 1, layout)' /\ \A j \in 1..((i + 1) - 1) : IsMatched(p, j)'
    BY <1>8, <1>10, <1>11
  <2>3. /\ p \in Seq(IVars) /\ n \in Nat /\ Len(layout) \in Nat /\ i + 1 \in Nat
        /\ n + 1 \in DOMAIN elements /\ o = elements[n + 1] /\ IsRest(rest, elements, n + 1)
    BY <1>1, <1>2, <1>11
  <2> QED BY <1>4, <1>5, <1>11, <2>1, <2>2, <2>3, LoopGoesOn
<1>13. Turned(p, i + 1, FoundBefore(p, i)) BY <1>3, <1>4, <1>5, <1>9 DEF Turned, SetsDefaults
<1> QED BY <1>4, <1>12, <1>13

\* The members up to one that was given an object.
LEMMA BeforeGiven ==
  ASSUME NEW p, NEW i, NEW n, NEW o, NEW rest, NEW layout, NEW elements,
         AtMember(p, i, n, o, rest, layout, elements), Found(p)' = Found(p) \cup {i}
  PROVE  FoundBefore(p, i + 1)' = FoundBefore(p, i) \cup {i}
<1>1. templates[p] \in Template /\ TemplateInv(templates[p]) /\ i \in Nat BY AtMemberFacts
<1>2. Found(p) \subseteq Nat BY <1>1, FoundFacts
<1>3. \A j \in Found(p) \cup {i} : j < i + 1 <=> j < i \/ j = i BY <1>1, <1>2
<1>4. ~(i < i) BY <1>1
<1> QED BY <1>3, <1>4 DEF FoundBefore

\* int_next_object takes the next object of those that are left.
LEMMA NextOfRest ==
  ASSUME NEW elements \in Seq(Objects), NEW rest \in Seq(Objects), rest # <<>>, NEW n \in Nat,
         IsRest(rest, elements, n)
  PROVE  /\ Head(rest) \in Objects /\ Tail(rest) \in Seq(Objects)
         /\ n + 1 \in DOMAIN elements /\ Head(rest) = elements[n + 1]
         /\ IsRest(Tail(rest), elements, n + 1)
<1>1. /\ Len(rest) \in Nat /\ Len(rest) > 0 /\ DOMAIN rest = 1..Len(rest)
      /\ Len(elements) \in Nat /\ DOMAIN elements = 1..Len(elements) OBVIOUS
<1>2. /\ Head(rest) = rest[1] /\ Head(rest) \in Objects /\ Tail(rest) \in Seq(Objects)
      /\ Len(Tail(rest)) = Len(rest) - 1
      /\ \A k \in 1..(Len(rest) - 1) : Tail(rest)[k] = rest[k + 1] OBVIOUS
<1>3. DOMAIN Tail(rest) = 1..(Len(rest) - 1) BY <1>2
<1>4. Len(rest) + n = Len(elements) /\ \A k \in DOMAIN rest : rest[k] = elements[n + k]
  BY DEF IsRest
<1>5. n + 1 \in DOMAIN elements /\ Head(rest) = elements[n + 1] BY <1>1, <1>2, <1>4
<1>6. ASSUME NEW k \in 1..(Len(rest) - 1)
      PROVE  Tail(rest)[k] = elements[(n + 1) + k]
  <2>1. k + 1 \in DOMAIN rest /\ k \in Nat BY <1>1
  <2>2. n + (k + 1) = (n + 1) + k BY <2>1
  <2>3. Tail(rest)[k] = rest[k + 1] /\ rest[k + 1] = elements[n + (k + 1)] BY <1>2, <1>4, <2>1
  <2> QED BY <2>2, <2>3
<1>7. Len(Tail(rest)) + (n + 1) = Len(elements) BY <1>1, <1>2, <1>4
<1> QED BY <1>2, <1>3, <1>5, <1>6, <1>7 DEF IsRest

\* A turn in which it has the object at hand, and others may follow.
LEMMA FoundTurn ==
  ASSUME NEW p, NEW i, NEW n, NEW o, NEW rest, NEW layout, NEW elements,
         AtMember(p, i, n, o, rest, layout, elements), OwnNames(layout),
         Match(o, layout[i]) = "match",
         templates' = Parsed(p, templates[p], o, layout[i]),
         \/ i = Len(layout) /\ call' = NextMember(NULL, rest, 1)
         \/ i # Len(layout) /\ rest # <<>> /\ call' = NextMember(Head(rest), Tail(rest), 1)
  PROVE  LoopInv' /\ Turned(p, i + 1, FoundBefore(p, i) \cup {i})
<1>1. /\ p \in Seq(IVars) /\ call \in Call /\ call.op = "parse" /\ call.path = p /\ call.i = i
      /\ call.num_parsed = n BY AtMemberFacts, CallFacts DEF AtMember
<1>2. /\ DOMAIN layout = 1..Len(layout) /\ Len(layout) \in Nat
      /\ i \in 1..Len(layout)
      /\ elements \in Seq(Objects) /\ rest \in Seq(Objects)
      /\ n \in Nat /\ n + 1 \in DOMAIN elements /\ o = elements[n + 1] /\ o \in Objects
      /\ IsRest(rest, elements, n + 1)
      /\ templates[p] \in Template /\ ~templates[p].parsed BY AtMemberFacts
<1>3. GivesObject(p, i, o, layout, templates[p]) BY <1>2 DEF GivesObject
<1>4. /\ Layout(templates'[p]) = layout /\ ElementsOf(templates'[p]) = elements
      /\ Found(p)' = Found(p) \cup {i}
      /\ templates'[p].field = templates[p].field /\ templates'[p].origin = templates[p].origin
      /\ FoundBefore(p, i + 1)' = FoundBefore(p, i) \cup {i} BY <1>3, ObjectsOfGiven, BeforeGiven
<1>5. /\ Cardinality(FoundBefore(p, i + 1)') = n + 1
      /\ \A j \in 1..i : IsMatched(p, j)' BY <1>3, GivenObject
<1>6. PassedMembers(p, i, layout)' BY <1>3, GivenPassed
<1>7. /\ i + 1 \in Nat /\ (i + 1) - 1 = i /\ n + 1 \in Nat
      /\ (i + 1 = Len(layout) + 1 => Len(layout) = i)
  <2>1. i \in Nat /\ n \in Nat /\ Len(layout) \in Nat BY AtMemberFacts
  <2> QED BY <2>1
<1>8. CASE i = Len(layout) /\ call' = NextMember(NULL, rest, 1)
  <2>1. /\ call'.op = "parse" /\ call'.path = p /\ call'.i = i + 1 /\ call'.num_parsed = n + 1
        /\ call'.cur = NULL /\ call'.rest = rest BY <1>1, <1>8, NextMemberIs
  <2>2. Len(layout) \in Found(p)' BY <1>4, <1>8
  <2>3. LoopInv' BY <1>1, <1>2, <1>4, <1>5, <1>6, <1>7, <2>1, <2>2, LoopGoesOn
  <2> QED BY <1>4, <2>1, <2>3 DEF Turned
<1>9. CASE i # Len(layout) /\ rest # <<>> /\ call' = NextMember(Head(rest), Tail(rest), 1)
  <2> PICK cur, tail : cur = Head(rest) /\ tail = Tail(rest) OBVIOUS
  <2>1. /\ cur \in Objects /\ (n + 1) + 1 \in DOMAIN elements /\ cur = elements[(n + 1) + 1]
        /\ IsRest(tail, elements, (n + 1) + 1) BY <1>2, <1>7, <1>9, NextOfRest
  <2>2. call' = NextMember(cur, tail, 1) /\ cur # NULL BY <1>9, <2>1, NullAssumption
  <2>3. /\ call'.op = "parse" /\ call'.path = p /\ call'.i = i + 1 /\ call'.num_parsed = n + 1
        /\ call'.cur = cur /\ call'.rest = tail BY <1>1, <2>2, NextMemberIs
  <2>4. i + 1 # Len(layout) + 1 BY <1>7, <1>9
  <2>5. LoopInv' BY <1>1, <1>2, <1>4, <1>5, <1>6, <1>7, <2>1, <2>2, <2>3, <2>4, LoopGoesOn
  <2> QED BY <1>4, <2>3, <2>5 DEF Turned
<1> QED BY <1>8, <1>9

\* A turn in which it has the last object, and no other member must have one.
LEMMA LastTurn ==
  ASSUME NEW p, NEW i, NEW n, NEW o, NEW rest, NEW layout, NEW elements,
         AtMember(p, i, n, o, rest, layout, elements), OwnNames(layout),
         Match(o, layout[i]) = "match", rest = <<>>, RestIsOptional(layout, i + 1),
         NEW t, t = WithDefaults(templates[p], RestNames(layout, i + 1)),
         templates' = Parsed(p, t, o, layout[i]),
         call' = [NextMember(NULL, <<>>, 1) EXCEPT !.i = Len(layout) + 1]
  PROVE  LoopInv' /\ Turned(p, Len(layout) + 1, FoundBefore(p, i) \cup {i})
<1>1. /\ p \in Seq(IVars) /\ call \in Call /\ call.op = "parse" /\ call.path = p /\ call.i = i
      /\ call.num_parsed = n BY AtMemberFacts, CallFacts DEF AtMember
<1>2. /\ DOMAIN layout = 1..Len(layout)
      /\ i \in 1..Len(layout)
      /\ IsRest(rest, elements, n + 1)
      /\ templates[p] \in Template /\ TemplateInv(templates[p]) /\ layout = Layout(templates[p])
  BY AtMemberFacts
<1>3. i \in Nat /\ n \in Nat /\ Len(layout) \in Nat BY AtMemberFacts
<1>4. /\ GivesObject(p, i, o, layout, t)
      /\ \A j \in DOMAIN layout : j > i =>
              /\ MayBeAbsent(layout[j])
              /\ layout[j].default => t.ivars[layout[j].name] # NULL BY RestDefaults
<1>5. /\ Layout(templates'[p]) = layout /\ ElementsOf(templates'[p]) = elements
      /\ Found(p)' = Found(p) \cup {i}
      /\ templates'[p].field = templates[p].field /\ templates'[p].origin = templates[p].origin
      /\ FoundBefore(p, i + 1)' = FoundBefore(p, i) \cup {i} BY <1>4, ObjectsOfGiven, BeforeGiven
<1>6. Cardinality(FoundBefore(p, i + 1)') = n + 1 BY <1>4, GivenObject
<1>7. FoundBefore(p, Len(layout) + 1)' = FoundBefore(p, i + 1)'
  <2>1. \A j \in Found(p) : j <= i /\ j \in Nat BY <1>2, NoneBehind, FoundFacts
  <2>2. \A j \in Found(p) \cup {i} : j < Len(layout) + 1 /\ j < i + 1 BY <1>2, <1>3, <2>1
  <2> QED BY <1>5, <2>2 DEF FoundBefore
<1>8. PassedMembers(p, i, layout)' BY <1>4, GivenPassed
<1>9. PassedMembers(p, Len(layout), layout)'
  <2>1. \A j \in 1..Len(layout) : j \in DOMAIN layout /\ (j \in 1..i \/ (j > i /\ j # i))
    BY <1>2, <1>3
  <2>2. \A j \in DOMAIN layout : j # i => templates'[p].ivars[layout[j].name] = t.ivars[layout[j].name]
    BY <1>4, ContainersOfGiven
  <2> QED BY <1>4, <1>8, <2>1, <2>2 DEF PassedMembers
<1>10. /\ call'.op = "parse" /\ call'.path = p /\ call'.i = Len(layout) + 1
       /\ call'.num_parsed = n + 1 /\ call'.cur = NULL /\ call'.rest = <<>>
  BY <1>1 DEF NextMember, Call
<1>11. /\ Len(layout) + 1 \in Nat /\ (Len(layout) + 1) - 1 = Len(layout) /\ n + 1 \in Nat BY <1>3
<1>12. LoopInv' BY <1>1, <1>2, <1>3, <1>5, <1>6, <1>7, <1>9, <1>10, <1>11, LoopGoesOn
<1> QED BY <1>5, <1>7, <1>10, <1>12 DEF Turned

\* One turn of the loop of int_parse_cons keeps the invariant; where it leads,
\* and why it fails.
LEMMA MatchTurns ==
  ASSUME MembersOwnNames, MatchMember,
         NEW p, NEW i, NEW n, NEW o, NEW rest, NEW layout, NEW elements,
         AtMember(p, i, n, o, rest, layout, elements)
  PROVE  /\ FullInv'
         /\ \/ GetFails
            \/ Match(o, layout[i]) \in {"no", "default"} /\ Turned(p, i + 1, FoundBefore(p, i))
            \/ Match(o, layout[i]) = "match" /\ Turned(p, i + 1, FoundBefore(p, i) \cup {i})
            \/ /\ Match(o, layout[i]) = "match" /\ rest = <<>>
               /\ Turned(p, Len(layout) + 1, FoundBefore(p, i) \cup {i})
         /\ GetFails =>
              \/ Match(o, layout[i]) = "error"
              \/ Content.junk
              \/ Match(o, layout[i]) = "match" /\ rest = <<>> /\ ~RestIsOptional(layout, i + 1)
<1>1. /\ p = call.path /\ i = call.i /\ n = call.num_parsed /\ o = call.cur /\ rest = call.rest
      /\ layout = Layout(This) /\ elements = ElementsOf(This) /\ FullInv BY DEF AtMember
<1>2. AtMember(p, i, n, o, rest, layout, elements) OBVIOUS
<1>3. /\ IInv /\ This = templates[p] /\ templates[p] \in Template /\ ~templates[p].parsed
      /\ OwnNames(layout) /\ i \in DOMAIN layout
      /\ p \in DOMAIN templates BY <1>2, AtMemberFacts
<1>4. IInv' /\ TemplatesInv'
  BY <1>3, MatchMemberInv, PartsOfInv DEF IInv, TypeOK, TemplatesInv, TemplateInv, ParentsParsed
<1> DEFINE f    == layout[i]
           next == NextObject(rest, Content.junk)
           w    == WithDefaults(templates[p], RestNames(layout, i + 1))
<1>5. GetFails => LoopInv' BY IdleIs DEF GetFails, LoopInv
<1>6. ASSUME NEW t, GivesObject(p, i, o, layout, t), Match(o, f) = "match", LoopInv'
      PROVE  FullInv'
  BY <1>2, <1>3, <1>4, <1>6, GivenMembers, FullFromParts
<1>7. ASSUME NEW k, NEW S, Turned(p, k, S)
      PROVE  ~GetFails
  BY <1>7, IdleIs DEF Turned, GetFails
<1>8. CASE Match(o, f) = "error" /\ GetFails /\ UNCHANGED templates
  <2>1. \A q \in DOMAIN templates' : MemberParts(q)' BY <1>1, <1>8, UnchangedStay, MembersStayInv
  <2> QED BY <1>4, <1>5, <1>8, <2>1, FullFromParts
<1>9. CASE Match(o, f) = "no" /\ call' = NextMember(o, rest, 0) /\ UNCHANGED templates
  <2>1. SetsDefaults(p, layout, templates[p]) BY <1>3, <1>9 DEF SetsDefaults
  <2>2. ~f.default BY <1>2, <1>9, AtMemberFacts, MatchAnswers
  <2>3. (\A q \in DOMAIN templates' : MemberParts(q)') /\ LoopInv' /\ Turned(p, i + 1, FoundBefore(p, i))
    BY <1>2, <1>9, <2>1, <2>2, AbsentTurn
  <2> QED BY <1>4, <1>7, <1>9, <2>3, FullFromParts
<1>10. CASE /\ Match(o, f) = "default" /\ call' = NextMember(o, rest, 0)
            /\ templates' = With(p, int_set_default_value(templates[p], DefaultName(f)))
  <2> PICK t : t = int_set_default_value(templates[p], DefaultName(f)) OBVIOUS
  <2>1. /\ SetsDefaults(p, layout, t)
        /\ \A j \in DOMAIN layout :
            /\ templates[p].ivars[layout[j].name] # NULL => t.ivars[layout[j].name] # NULL
            /\ j = i /\ DefaultName(layout[i]) = layout[i].name => t.ivars[layout[j].name] # NULL
    BY <1>2, <1>3, <1>10, AbsentDefault
  <2>2. (\A q \in DOMAIN templates' : MemberParts(q)') /\ LoopInv' /\ Turned(p, i + 1, FoundBefore(p, i))
    BY <1>2, <1>10, <2>1, AbsentTurn
  <2> QED BY <1>4, <1>7, <1>10, <2>2, FullFromParts
<1>11. templates' = Parsed(p, templates[p], o, layout[i]) => GivesObject(p, i, o, layout, templates[p])
  BY <1>3 DEF GivesObject
<1>12. CASE /\ Match(o, f) = "match" /\ templates' = Parsed(p, templates[p], o, f)
            /\ \/ i = Len(layout) /\ call' = NextMember(NULL, rest, 1)
               \/ i # Len(layout) /\ rest # <<>> /\ call' = NextMember(Head(rest), Tail(rest), 1)
  <2>1. LoopInv' /\ Turned(p, i + 1, FoundBefore(p, i) \cup {i}) BY <1>2, <1>3, <1>12, FoundTurn
  <2> QED BY <1>6, <1>7, <1>11, <1>12, <2>1
<1>13. CASE /\ Match(o, f) = "match" /\ templates' = Parsed(p, templates[p], o, f)
            /\ GetFails /\ Content.junk BY <1>5, <1>6, <1>11, <1>13
<1>14. CASE /\ Match(o, f) = "match" /\ templates' = Parsed(p, w, o, f) /\ rest = <<>>
            /\ RestIsOptional(layout, i + 1)
            /\ call' = [NextMember(NULL, <<>>, 1) EXCEPT !.i = Len(layout) + 1]
  <2> PICK t : t = w OBVIOUS
  <2>1. GivesObject(p, i, o, layout, t) BY <1>2, <1>3, <1>14, RestDefaults
  <2>2. LoopInv' /\ Turned(p, Len(layout) + 1, FoundBefore(p, i) \cup {i})
    BY <1>2, <1>3, <1>14, LastTurn
  <2> QED BY <1>6, <1>7, <1>14, <2>1, <2>2
<1>15. CASE /\ Match(o, f) = "match" /\ templates' = Parsed(p, w, o, f) /\ rest = <<>>
            /\ ~RestIsOptional(layout, i + 1) /\ GetFails
  <2> PICK t : t = w OBVIOUS
  <2>1. GivesObject(p, i, o, layout, t) BY <1>2, <1>3, <1>15, RestDefaults
  <2> QED BY <1>5, <1>6, <1>15, <2>1
<1>16. /\ next = "eof" => rest = <<>>
       /\ next = "ok" => rest # <<>>
       /\ next = "error" => Content.junk BY DEF NextObject
<1> HIDE DEF f, next, w
<1> QED
  BY <1>1, <1>3, <1>8, <1>9, <1>10, <1>12, <1>13, <1>14, <1>15, <1>16 DEF MatchMember, f, next, w

\* The same, of the step alone.
LEMMA MatchMemberFull ==
  ASSUME MembersOwnNames, FullInv, MatchMember
  PROVE  FullInv'
<1>1. PICK p, i, n, o, rest, layout, elements :
        /\ p = call.path /\ i = call.i /\ n = call.num_parsed /\ o = call.cur /\ rest = call.rest
        /\ layout = Layout(This) /\ elements = ElementsOf(This) OBVIOUS
<1>2. AtMember(p, i, n, o, rest, layout, elements) BY <1>1 DEF AtMember, MatchMember
<1> QED BY <1>2, MatchTurns

-----------------------------------------------------------------------------
(* The end of a parse.                                                     *)

\* The first objects of a value are those of its elements.
LEMMA ValueElements ==
  ASSUME NEW t \in Template, t.origin \in Objects
  PROVE  LET elements == ElementsOf(t)
             value    == ValueOf(t)
             infinite == Encodings[int_unpack_explicit(t.origin, t.field).header].is_infinite
         IN  /\ value \in Seq(Objects)
             /\ \A k \in 1..Len(value) : value[k] = elements[k]
             /\ ~infinite => Len(value) = Len(elements)
             /\ infinite /\ elements # <<>> => Len(value) = Len(elements) - 1
<1> DEFINE u == int_unpack_explicit(t.origin, t.field)
           s == u.elements
           value == ValueOf(t)
<1>1. s \in Seq(Objects) /\ Len(s) \in Nat /\ s = ElementsOf(t) BY UnpackTypes DEF ElementsOf
<1>2. value = IF Encodings[u.header].is_infinite THEN SubSeq(s, 1, Len(s) - 1) ELSE s
  BY DEF ValueOf
<1> HIDE DEF s, value
<1>3. CASE ~Encodings[u.header].is_infinite BY <1>1, <1>2, <1>3 DEF value
<1>4. CASE Encodings[u.header].is_infinite
  <2>1. /\ 1 \in Int /\ Len(s) - 1 \in Int /\ \A k \in 1..(Len(s) - 1) : s[k] \in Objects BY <1>1
  <2>2. /\ value \in Seq(Objects)
        /\ Len(value) = IF 1 <= Len(s) - 1 THEN (Len(s) - 1) - 1 + 1 ELSE 0
        /\ \A k \in 1..Len(value) : value[k] = s[1 + k - 1] BY <1>2, <1>4, <2>1, SubSeqProperties
  <2>3. \A k \in 1..Len(value) : value[k] = s[k]
    <3>1. \A k \in 1..Len(value) : 1 + k - 1 = k BY <2>2
    <3> QED BY <2>2, <3>1
  <2>4. s # <<>> => Len(value) = Len(s) - 1
    <3>1. s # <<>> => Len(s) >= 1 BY <1>1
    <3>2. ASSUME NEW l \in Nat, l >= 1
          PROVE  (IF 1 <= l - 1 THEN (l - 1) - 1 + 1 ELSE 0) = l - 1
      <4>1. l = 1 \/ 1 <= l - 1 BY <3>2
      <4>2. l = 1 => ~(1 <= l - 1) /\ l - 1 = 0 OBVIOUS
      <4>3. (l - 1) - 1 + 1 = l - 1 OBVIOUS
      <4> QED BY <4>1, <4>2, <4>3
    <3> QED BY <1>1, <2>2, <3>1, <3>2
  <2> QED BY <1>1, <1>4, <2>2, <2>3, <2>4 DEF value
<1> QED BY <1>3, <1>4

\* What the loop has given away is all but what its end allows to be left.
LEMMA LoopEnds ==
  ASSUME FullInv, ParseConsEnds, NEW p, p = call.path,
         call.num_parsed >= MinSize(Layout(This)),
         AtEnd(call.rest, Encodings[Content.header].is_infinite, Content.junk)
  PROVE  RespectsLayout(p) /\ HasDefaults(templates[p])
<1>1. /\ call.op = "parse" /\ call.i > Len(Layout(This)) /\ IInv /\ LoopInv
      /\ \A q \in DOMAIN templates : MemberParts(q) BY PartsOfFullInv DEF ParseConsEnds
<1>2. /\ p \in DOMAIN templates /\ templates[p] = This /\ This \in Template /\ TemplateInv(This)
      /\ ~This.parsed /\ Codec(This) \in ConsCodecs /\ call \in Call
      /\ call.i \in 1..(Len(Layout(This)) + 1)
      /\ This.origin \in Objects /\ This.origin = This.object
  BY <1>1, CallFacts DEF IInv, CallInv, This, TemplateInv
<1> DEFINE layout   == Layout(This)
           elements == ElementsOf(This)
           value    == ValueOf(This)
           found    == Found(p)
           n        == Cardinality(found)
           given    == [k \in 1..n |-> ObjectOf(p, Nth(found, k))]
           infinite == Encodings[Content.header].is_infinite
<1>3. IsCons(This) /\ AreMatched(p) BY <1>1, <1>2, NullAssumption DEF IsCons, MemberParts
<1>4. /\ layout \in Seq(Field) /\ Len(layout) \in Nat /\ DOMAIN layout = 1..Len(layout)
      /\ found \subseteq 1..Len(layout) /\ n \in Nat
      /\ \A k \in 1..n : /\ Nth(found, k) \in found
                         /\ Cardinality(FoundBefore(p, Nth(found, k))) + 1 = k
  BY <1>2, FoundFacts
<1>5. \A j \in DOMAIN layout : layout[j] \in Field /\ (layout[j].codec = "TEMPLATE" => layout[j].type \in Classes)
  BY <1>2, LayoutTypes
<1>6. elements \in Seq(Objects) BY <1>2, UnpackTypes DEF ElementsOf
<1>7. /\ value \in Seq(Objects) /\ Len(value) \in Nat
      /\ \A k \in 1..Len(value) : value[k] = elements[k]
      /\ ~infinite => Len(value) = Len(elements)
      /\ infinite /\ elements # <<>> => Len(value) = Len(elements) - 1
  BY <1>2, ValueElements DEF Content
<1>8. call.i = Len(layout) + 1 BY <1>1, <1>2, <1>4
<1>9. FoundBefore(p, call.i) = found
  <2>1. \A j \in found : j < Len(layout) + 1 BY <1>4
  <2> QED BY <1>8, <2>1 DEF FoundBefore
<1>10. /\ n = call.num_parsed
       /\ \A j \in DOMAIN layout :
            /\ j \in found \/ MayBeAbsent(layout[j])
            /\ layout[j].default /\ DefaultName(layout[j]) = layout[j].name =>
                 This.ivars[layout[j].name] # NULL
  <2>1. \A j \in DOMAIN layout : j \in 1..(call.i - 1) BY <1>4, <1>8
  <2> QED BY <1>1, <1>9, <2>1 DEF LoopInv
<1>11. ASSUME NEW k \in 1..n
       PROVE  /\ Nth(found, k) \in DOMAIN layout
              /\ k \in DOMAIN elements /\ elements[k] \in Objects
              /\ ObjectOf(p, Nth(found, k)) = elements[k]
              /\ Fits(layout[Nth(found, k)], elements[k])
  <2> PICK j : j = Nth(found, k) OBVIOUS
  <2>1. j \in found /\ j \in DOMAIN layout /\ j <= j BY <1>4
  <2>2. IsMatched(p, j) BY <1>2, <1>3, <2>1 DEF AreMatched
  <2>3. k \in DOMAIN elements /\ ObjectOf(p, j) = elements[k] /\ Match(elements[k], layout[j]) = "match"
    BY <1>2, <1>4, <2>1, <2>2 DEF IsMatched
  <2>4. elements[k] \in Objects BY <1>6, <2>3
  <2> QED BY <1>5, <2>1, <2>3, <2>4, MatchAnswers
<1>12. n <= Len(value) /\ Len(value) <= n + (IF Len(layout) \in found THEN 0 ELSE 1)
  <2>1. /\ Len(elements) \in Nat /\ Len(call.rest) \in Nat /\ DOMAIN elements = 1..Len(elements)
        /\ (call.rest = <<>> <=> Len(call.rest) = 0) BY <1>2, <1>6 DEF Call
  <2>2. infinite => Len(call.rest) = 1 BY DEF AtEnd
  <2>3. ~infinite => Len(call.rest) = 0 BY <2>1 DEF AtEnd
  <2>4. call.cur # NULL => Len(call.rest) + (n + 1) = Len(elements) /\ Len(layout) \notin found
    BY <1>1, <1>2, <1>8, <1>10 DEF LoopInv, IsRest
  <2>5. call.cur = NULL => /\ Len(call.rest) + n = Len(elements)
                           /\ Len(layout) \in found \/ Len(call.rest) = 0
    BY <1>1, <1>2, <1>10, <2>1 DEF LoopInv, IsRest
  <2>6. Len(elements) > 0 => elements # <<>> BY <1>6
  <2> DEFINE all == Len(elements)
             val == Len(value)
             rest == Len(call.rest)
  <2>7. /\ all \in Nat /\ val \in Nat /\ rest \in Nat /\ n \in Nat
        /\ infinite => rest = 1 /\ (all > 0 => val = all - 1)
        /\ ~infinite => rest = 0 /\ val = all
        /\ \/ rest + (n + 1) = all /\ Len(layout) \notin found
           \/ rest + n = all /\ (Len(layout) \in found \/ rest = 0)
    BY <1>4, <1>7, <2>1, <2>2, <2>3, <2>4, <2>5, <2>6
  <2> HIDE DEF n, found, layout, value, infinite, all, val, rest
  <2>8. n <= val /\ val <= n + (IF Len(layout) \in found THEN 0 ELSE 1) BY <2>7
  <2> QED BY <2>8 DEF val
<1> HIDE DEF layout, elements, value, found, n
<1>13. /\ given \in Seq(Objects) /\ Len(given) = n /\ DOMAIN given = 1..n
       /\ \A k \in 1..n : given[k] = elements[k]
  <2>1. given \in [1..n -> Objects] /\ \A k \in 1..n : given[k] = elements[k] BY <1>11
  <2> HIDE DEF given
  <2> QED BY <1>4, <2>1
<1> HIDE DEF given
<1>14. given = SubSeq(value, 1, n)
  <2>1. /\ 1 \in Int /\ n \in Int /\ \A k \in 1..n : value[k] \in Objects /\ value[k] = elements[k]
    BY <1>4, <1>7, <1>12
  <2>2. /\ SubSeq(value, 1, n) \in Seq(Objects)
        /\ Len(SubSeq(value, 1, n)) = IF 1 <= n THEN n - 1 + 1 ELSE 0
        /\ \A k \in 1..n : SubSeq(value, 1, n)[k] = value[1 + k - 1] BY <2>1, SubSeqProperties
  <2>3. Len(SubSeq(value, 1, n)) = n BY <1>4, <2>2
  <2>4. \A k \in 1..n : SubSeq(value, 1, n)[k] = elements[k]
    <3>1. \A k \in 1..n : 1 + k - 1 = k BY <1>4
    <3> QED BY <2>1, <2>2, <3>1
  <2> QED BY <1>13, <2>2, <2>3, <2>4, SeqEqual
<1>15. GivenTo(layout, found, given)
  <2>1. Cardinality(found) = n /\ found \subseteq DOMAIN layout BY <1>4 DEF n
  <2> QED BY <1>11, <1>13, <2>1 DEF GivenTo
<1>16. RespectsLayout(p)
  <2>1. /\ Layout(templates[p]) = layout /\ ValueOf(templates[p]) = value /\ Found(p) = found
        /\ [k \in 1..Cardinality(Found(p)) |-> ObjectOf(p, Nth(Found(p), k))] = given
        /\ Cardinality(found) = n BY <1>2 DEF layout, value, found, given, n
  <2>2. n >= MinSize(layout) BY <1>10 DEF layout
  <2> QED BY <1>10, <1>12, <1>13, <1>14, <1>15, <2>1, <2>2 DEF RespectsLayout
<1>17. HasDefaults(templates[p]) BY <1>2, <1>10 DEF HasDefaults, layout
<1> QED BY <1>16, <1>17

\* The end of int_parse_cons keeps the invariant.
LEMMA ParseConsEndsFull ==
  ASSUME FullInv, ParseConsEnds
  PROVE  FullInv'
<1>1. PICK p : p = call.path OBVIOUS
<1>2. /\ IInv /\ LoopInv /\ \A q \in DOMAIN templates : MemberParts(q)
      /\ call.op = "parse" BY PartsOfFullInv DEF ParseConsEnds
<1>3. /\ TemplatesInv /\ p \in DOMAIN templates /\ templates[p] = This /\ This \in Template
      /\ TemplateInv(This) /\ Codec(This) \in ConsCodecs /\ IsCons(This)
  <2>1. /\ TemplatesInv /\ p \in DOMAIN templates /\ templates[p] = This /\ This \in Template
        /\ TemplateInv(This) /\ Codec(This) \in ConsCodecs /\ ~This.parsed
    BY <1>1, <1>2, CallFacts DEF IInv, CallInv, This
  <2> QED BY <2>1 DEF IsCons, TemplateInv
<1>4. IInv' BY <1>2, ParseConsEndsInv
<1>5. CASE GetFails /\ UNCHANGED templates
  <2>1. MembersStay BY <1>5, UnchangedStay
  <2>2. call'.op = "none" BY <1>5, IdleIs DEF GetFails
  <2> QED BY <1>4, <2>1, <2>2, StayInv
<1>6. CASE /\ templates' = With(call.path, IsParsed(This))
           /\ call' = [Idle EXCEPT !.op = "get", !.path = call.path, !.ivar = call.ivar]
           /\ call.num_parsed >= MinSize(Layout(This))
           /\ AtEnd(call.rest, Encodings[Content.header].is_infinite, Content.junk)
  <2> DEFINE t == IsParsed(This)
  <2>1. /\ t.field = This.field /\ t.origin = This.origin /\ t.ivars = This.ivars
        /\ t.tag = This.tag BY <1>3 DEF IsParsed, Template
  <2>2. /\ DOMAIN templates' = DOMAIN templates /\ templates'[p] = t
        /\ \A q \in DOMAIN templates : q # p => templates'[q] = templates[q]
    BY <1>1, <1>3, <1>6 DEF With
  <2> HIDE DEF t
  <2>3. \A q \in DOMAIN templates : templates'[q].origin = templates[q].origin
    BY <1>3, <2>1, <2>2
  <2>4. \A q \in DOMAIN templates : KeepsMembers(q)
    BY <1>3, <2>1, <2>2, <2>3 DEF KeepsMembers, SameContainer, KeepsOrigin
  <2>5. \A q \in DOMAIN templates : q # p => MemberParts(q)'
    BY <1>2, <1>3, <2>2, <2>4, FrameMembers
  <2>6. AreMatched(p) /\ HasTemplates(p) BY <1>2, <1>3 DEF MemberParts
  <2>7. RespectsLayout(p) /\ HasDefaults(templates[p]) BY <1>1, <1>6, LoopEnds
  <2>8. HasTemplates(p)' /\ AreMatched(p)' /\ RespectsLayout(p)'
    BY <1>3, <2>1, <2>2, <2>4, <2>6, <2>7, FrameObjects, FrameMatched
  <2>9. HasDefaults(templates'[p]) /\ ~IsParsedChoice(templates'[p])
    <3>1. Layout(t) = Layout(This) /\ Codec(t) = Codec(This) BY <2>1 DEF Layout, Codec
    <3>2. HasDefaults(t) BY <1>3, <2>1, <2>7, <3>1 DEF HasDefaults
    <3>3. Codec(t) # "CHOICE" BY <1>3, <3>1 DEF ConsCodecs
    <3> QED BY <2>2, <3>2, <3>3 DEF IsParsedChoice
  <2>10. MemberParts(p)' BY <2>8, <2>9 DEF MemberParts
  <2>11. LoopInv' BY <1>6 DEF LoopInv, Idle
  <2> QED BY <1>4, <2>2, <2>5, <2>10, <2>11, FullFromParts
<1> QED BY <1>5, <1>6 DEF ParseConsEnds

\* int_parse_choice takes the first member that matches, so the one it gives
\* the object to is the first that is for it.
LEMMA FirstChoice ==
  ASSUME NEW t \in Template, TemplateInv(t), Codec(t) = "CHOICE", NEW o \in Objects,
         int_match_choice(o, t.field) = "match"
  PROVE  LET x == Chosen(o, t.field)
             i == MatchedLayout(o, t.field)
         IN  /\ x \in Objects /\ i \in DOMAIN Layout(t)
             /\ FitsCodec(Layout(t)[i], x)
             /\ \A j \in 1..(i - 1) : ~FitsCodec(Layout(t)[j], x)
<1> DEFINE x == Chosen(o, t.field)
           S == Matching(o, t.field)
           layout == Layout(t)
           i == MatchedLayout(o, t.field)
<1>1. t.field.codec = "TEMPLATE" /\ t.field.type \in Classes /\ t.field \in Field
      /\ layout = Definitions[t.field.type].layout /\ layout \in Seq(Field)
  BY DefinitionTypes DEF TemplateInv, Layout, Template
<1>2. S # {} /\ HasChosen(o, t.field) BY DEF int_match_choice
<1>3. x \in Objects BY <1>2, EncodingTypes DEF Chosen, HasChosen
<1>4. S = {j \in DOMAIN layout : MatchCodec(x, layout[j]) = "match"} BY <1>1 DEF Matching
<1>5. i \in S /\ \A j \in S : i <= j
  <2>1. S \subseteq Nat BY <1>1, <1>4
  <2>2. \E j \in S : \A k \in S : j <= k BY <1>2, <2>1, FirstOfNumbers
  <2> QED BY <2>2 DEF MatchedLayout
<1>6. ASSUME NEW j \in DOMAIN layout
      PROVE  MatchCodec(x, layout[j]) = "match" <=> FitsCodec(layout[j], x)
  <2>1. Definitions[t.field.type].codec = "CHOICE" BY <1>1 DEF Codec, CodecOf
  <2>2. layout[j] \in Field /\ (layout[j].codec = "TEMPLATE" =>
          layout[j].type \in Classes /\ Definitions[layout[j].type].codec # "CHOICE")
    BY <1>1, <2>1, DefinitionTypes, LayoutsAssumption
  <2>3. CodecOf(layout[j]) # "CHOICE" BY <2>2 DEF CodecOf, Field, OfCodecs
  <2> QED BY <1>3, <2>2, <2>3, MatchFits
<1> HIDE DEF x, S, layout, i
<1>7. DOMAIN layout = 1..Len(layout) /\ Len(layout) \in Nat BY <1>1
<1>8. i \in DOMAIN layout /\ FitsCodec(layout[i], x) BY <1>4, <1>5, <1>6
<1>9. ASSUME NEW j \in 1..(i - 1)
      PROVE  ~FitsCodec(layout[j], x)
  <2>1. j \in DOMAIN layout /\ ~(i <= j) BY <1>7, <1>8
  <2> QED BY <1>4, <1>5, <1>6, <2>1
<1> QED BY <1>3, <1>8, <1>9 DEF x, layout, i

\* int_parse_choice keeps the invariant.
LEMMA ParseChoiceFull ==
  ASSUME FullInv, ParseChoice
  PROVE  FullInv'
<1>1. PICK p, o, f, x :
        /\ p = call.path /\ o = This.object /\ x = Chosen(o, This.field)
        /\ f = Layout(This)[MatchedLayout(o, This.field)] OBVIOUS
<1>2. IInv /\ LoopInv /\ call.op = "get" /\ ~This.parsed /\ Codec(This) = "CHOICE"
  BY PartsOfFullInv DEF ParseChoice
<1>3. /\ p \in DOMAIN templates /\ p \in Seq(IVars) /\ templates[p] = This /\ This \in Template
      /\ TemplateInv(This) /\ This.object \in Objects /\ This.origin = This.object
  <2>1. /\ p \in DOMAIN templates /\ p \in Seq(IVars) /\ templates[p] = This /\ This \in Template
        /\ TemplateInv(This) /\ This.object \in Objects BY <1>1, <1>2, CallFacts DEF This
  <2> QED BY <1>2, <2>1 DEF TemplateInv
<1>4. IInv' /\ TemplatesInv'
  BY <1>2, ParseChoiceInv, PartsOfInv DEF IInv, TypeOK, TemplatesInv, TemplateInv, ParentsParsed
<1>5. CASE GetFails /\ UNCHANGED templates
  <2>1. MembersStay BY <1>5, UnchangedStay
  <2>2. call'.op = "none" BY <1>5, IdleIs DEF GetFails
  <2> QED BY <1>4, <2>1, <2>2, StayInv
<1>6. CASE /\ int_match_choice(o, This.field) = "match"
           /\ templates' = Parsed(call.path, [IsParsed(This) EXCEPT !.tag = Encodings[x].tag], x, f)
           /\ UNCHANGED << call, ret >>
  <2>1. /\ x \in Objects /\ MatchedLayout(o, This.field) \in DOMAIN Layout(This)
        /\ FitsCodec(f, x)
        /\ \A j \in 1..(MatchedLayout(o, This.field) - 1) : ~FitsCodec(Layout(This)[j], x)
    BY <1>1, <1>2, <1>3, <1>6, FirstChoice
  <2>2. f \in Field /\ f.name = "@value" BY <1>1, <1>2, <1>3, <2>1, LayoutTypes
  <2> DEFINE t == [IsParsed(This) EXCEPT !.tag = Encodings[x].tag]
  <2>3. /\ t \in Template /\ t.origin = This.origin /\ t.field = This.field
        /\ t.tag = Encodings[x].tag
    <3>1. /\ IsParsed(This) \in Template /\ IsParsed(This).origin = This.origin
          /\ IsParsed(This).field = This.field BY <1>3 DEF IsParsed, Template
    <3>2. Encodings[x].tag \in Nat BY <2>1, EncodingTypes
    <3> QED BY <3>1, <3>2 DEF Template
  <2> HIDE DEF t
  <2>4. templates' = Parsed(p, t, x, f) BY <1>1, <1>6 DEF t
  <2>5. \A q \in DOMAIN templates' : q # p => MemberParts(q)'
    BY <1>2, <1>3, <1>4, <2>1, <2>2, <2>3, <2>4, OthersStay
  <2>6. /\ templates'[p].field = This.field /\ templates'[p].origin = o
        /\ templates'[p].tag = Encodings[x].tag
        /\ templates'[p].ivars["@value"] = ContainerOf(x, f)
    <3>1. "@value" \in IVars BY DEF IVars
    <3> QED BY <1>1, <1>3, <2>1, <2>2, <2>3, <2>4, <3>1, ParsedTemplates
  <2>7. Layout(templates'[p]) = Layout(This) /\ Codec(templates'[p]) = "CHOICE"
    BY <1>2, <2>6 DEF Layout, Codec
  <2>8. HasFirstChoice(templates'[p])
    <3>1. ContainerOf(x, f) # NULL /\ ContainerOf(x, f).field = f BY <2>1, <2>2, ContainerOfTypes
    <3> QED BY <1>1, <2>1, <2>6, <2>7, <3>1 DEF HasFirstChoice
  <2>9. MemberParts(p)' BY <2>7, <2>8 DEF MemberParts, IsCons, ConsCodecs
  <2>10. LoopInv' BY <1>2, <1>6 DEF LoopInv
  <2> QED BY <1>4, <2>5, <2>9, <2>10, FullFromParts
<1> QED BY <1>1, <1>5, <1>6 DEF ParseChoice

\* int_parse_assign of a class that is a SEQUENCE OF keeps the invariant.
LEMMA ParseOfFull ==
  ASSUME FullInv, ParseOf
  PROVE  FullInv'
<1>1. PICK p, o, f : p = call.path /\ o = This.object /\ f = OwnField(This) OBVIOUS
<1>2. IInv /\ LoopInv /\ call.op = "get" /\ ~This.parsed /\ Codec(This) \in OfCodecs
      /\ UNCHANGED call BY PartsOfFullInv DEF ParseOf
<1>3. /\ p \in DOMAIN templates /\ p \in Seq(IVars) /\ templates[p] = This /\ This \in Template
      /\ TemplateInv(This) /\ o \in Objects BY <1>1, <1>2, CallFacts DEF This
<1>4. IInv' /\ TemplatesInv'
  BY <1>2, ParseOfInv, PartsOfInv DEF ParseOf, IInv, TypeOK, TemplatesInv, TemplateInv, ParentsParsed
<1>5. f \in Field
  <2>1. This.field \in Field /\ Definitions[This.field.type].type \in Nat \cup Classes
    BY <1>3, DefinitionTypes DEF Template, TemplateInv
  <2> QED BY <1>1, <1>2, <2>1 DEF OwnField, Field, IVars, OfCodecs
<1>6. /\ IsParsed(This) \in Template /\ IsParsed(This).origin = This.origin
      /\ IsParsed(This).field = This.field BY <1>3 DEF IsParsed, Template
<1>7. templates' = Parsed(p, IsParsed(This), o, f) BY <1>1 DEF ParseOf
<1>8. \A q \in DOMAIN templates' : q # p => MemberParts(q)'
  BY <1>2, <1>3, <1>4, <1>5, <1>6, <1>7, OthersStay
<1>9. MemberParts(p)'
  <2>1. templates'[p].field = This.field BY <1>3, <1>5, <1>6, <1>7, ParsedTemplates
  <2>2. Codec(templates'[p]) \in OfCodecs BY <1>2, <2>1 DEF Codec
  <2> QED BY <2>2 DEF MemberParts, IsCons, IsParsedChoice, ConsCodecs, OfCodecs
<1>10. LoopInv' BY <1>2 DEF LoopInv
<1> QED BY <1>4, <1>8, <1>9, <1>10, FullFromParts

-----------------------------------------------------------------------------
(* The whole of the invariant.                                             *)

\* No templates satisfy it.
LEMMA InitFull ==
  ASSUME Init
  PROVE  FullInv
<1>1. DOMAIN templates = {} BY DEF Init
<1>2. LoopInv BY IdleIs DEF Init, LoopInv
<1> QED
  BY <1>1, <1>2, InitInv DEF FullInv, MembersInv, LayoutRespected, DefaultsApplied, ChoiceOfFirst

\* The first template has no members yet, or nothing that it was parsed from.
LEMMA FirstTemplateFull ==
  ASSUME FullInv, IInv', UNCHANGED call, NEW t, templates' = [p \in {<<>>} |-> t],
         call.op = "none", t.ivars = [v \in IVars |-> NULL],
         t.origin # NULL => ~t.parsed
  PROVE  FullInv'
<1>1. DOMAIN templates' = {<<>>} /\ templates'[<<>>] = t OBVIOUS
<1>2. t \in Template /\ TemplateInv(t) BY <1>1 DEF IInv, TypeOK, TemplateInv
<1>3. MemberParts(<<>>)' BY <1>1, <1>2, FreshMembers DEF IsParsedChoice, IsCons
<1>4. LoopInv' BY DEF LoopInv
<1> QED BY <1>1, <1>3, <1>4, FullFromParts

\* parse_der keeps the invariant.
LEMMA ParseDerFull ==
  ASSUME FullInv, NEW d \in Documents, ParseDer(d[1], d[2])
  PROVE  FullInv'
<1>1. IInv' /\ call.op = "none" /\ UNCHANGED call BY PartsOfFullInv, ParseDerInv DEF ParseDer
<1>2. CASE UNCHANGED templates BY <1>1, <1>2, UnchangedStay, StayInv
<1>3. CASE templates' = [p \in {<<>>} |-> krypt_asn1_template_new(d[2], RootField(d[1]))]
  <2> DEFINE t == krypt_asn1_template_new(d[2], RootField(d[1]))
  <2>1. t.ivars = [v \in IVars |-> NULL] /\ t.parsed = FALSE BY DEF krypt_asn1_template_new
  <2> HIDE DEF t
  <2> QED BY <1>1, <1>3, <2>1, FirstTemplateFull DEF t
<1> QED BY <1>2, <1>3 DEF ParseDer

\* new keeps the invariant.
LEMMA NewFull ==
  ASSUME FullInv, NEW c \in Classes, New(c)
  PROVE  FullInv'
<1>1. IInv' /\ call.op = "none" /\ UNCHANGED call BY PartsOfFullInv, NewInv DEF New
<1> DEFINE t == [krypt_asn1_template_new(NULL, RootField(c)) EXCEPT !.parsed = TRUE]
<1>2. t.ivars = [v \in IVars |-> NULL] /\ t.origin = NULL BY DEF krypt_asn1_template_new
<1>3. templates' = [p \in {<<>>} |-> t] BY DEF New
<1> HIDE DEF t
<1> QED BY <1>1, <1>2, <1>3, FirstTemplateFull

\* The beginning of int_parse_cons keeps the invariant.
LEMMA ParseConsBeginsFull ==
  ASSUME FullInv, ParseConsBegins
  PROVE  FullInv'
<1>1. IInv' /\ MembersStay
  BY PartsOfFullInv, ParseConsBeginsInv, UnchangedStay DEF ParseConsBegins
<1>2. CASE GetFails
  <2>1. call'.op = "none" BY <1>2, IdleIs DEF GetFails
  <2> QED BY <1>1, <2>1, StayInv
<1>3. CASE ~GetFails
  <2>1. call'.op = "parse"
    <3>1. call \in Call BY PartsOfFullInv, CallFacts
    <3> QED BY <1>3, <3>1 DEF ParseConsBegins, Call
  <2>2. LoopInv' BY <1>1, <2>1, LoopBegins
  <2>3. \A q \in DOMAIN templates' : MemberParts(q)' BY <1>1, MembersStayInv
  <2> QED BY <1>1, <2>2, <2>3, FullFromParts
<1> QED BY <1>2, <1>3

\* So does every step.
LEMMA NextFull ==
  ASSUME MembersOwnNames, FullInv, [Next]_vars
  PROVE  FullInv'
<1>1. IInv /\ IInv' BY PartsOfFullInv, NextInv
<1>2. ASSUME NEW d \in Documents, ParseDer(d[1], d[2])
      PROVE  FullInv'
  BY <1>2, ParseDerFull
<1>3. ASSUME NEW c \in Classes, New(c)
      PROVE  FullInv'
  BY <1>3, NewFull
<1>4. ASSUME NEW p \in DOMAIN templates, NEW v \in Members(templates[p]), Get(p, v)
      PROVE  FullInv'
  <2>1. MembersStay BY <1>4, UnchangedStay DEF Get
  <2>2. call'.op = "get" /\ call'.num_parsed = 0 BY <1>4 DEF Get, Idle
  <2> QED BY <1>1, <2>1, <2>2, StayInv
<1>5. ASSUME NEW p \in DOMAIN templates, NEW v \in Members(templates[p]), Set(p, v)
      PROVE  FullInv'
  <2>1. v \in IVars BY <1>1, <1>5, MembersTypes
  <2>2. MembersStay BY <1>5, <2>1, SetStays
  <2>3. call'.op = "none" BY <1>5 DEF Set
  <2> QED BY <1>1, <2>2, <2>3, StayInv
<1>6. ASSUME NEW p \in DOMAIN templates, ToDer(p)
      PROVE  FullInv'
  <2>1. MembersStay /\ call'.op = "none" BY <1>6, UnchangedStay DEF ToDer
  <2> QED BY <1>1, <2>1, StayInv
<1>9. ASSUME NEW p \in DOMAIN templates, SetTag(p)
      PROVE  FullInv'
  <2>1. call'.op = "none" BY <1>9 DEF SetTag
  <2> QED BY <1>1, <1>9, <2>1, SetTagStays, StayInv
<1>7. CASE Step
  <2>1. CASE GetReturns BY <1>1, <2>1, GetReturnsStays, StayInv
  <2> QED
    BY <1>7, <2>1, ParseConsBeginsFull, MatchMemberFull, ParseConsEndsFull, ParseChoiceFull,
      ParseOfFull DEF Step
<1>8. CASE UNCHANGED vars
  <2>1. \A q \in DOMAIN templates' : MemberParts(q)'
    BY <1>8, UnchangedStay, MembersStayInv DEF vars
  <2>2. LoopInv'
    <3>1. \A q, i : ObjectOf(q, i)' = ObjectOf(q, i) BY <1>8 DEF vars, ObjectOf, Layout
    <3>2. \A q : Found(q)' = Found(q) BY <1>8, <3>1 DEF vars, Found, Layout
    <3>3. \A q, i : FoundBefore(q, i)' = FoundBefore(q, i) BY <3>2 DEF FoundBefore
    <3>4. \A q, i : IsMatched(q, i)' <=> IsMatched(q, i)
      BY <1>8, <3>1, <3>2, <3>3 DEF vars, IsMatched, ElementsOf, Layout
    <3>5. LoopInv BY PartsOfFullInv
    <3> QED BY <1>8, <3>2, <3>3, <3>4, <3>5 DEF vars, LoopInv, This, Layout, ElementsOf
  <2> QED BY <1>1, <2>1, <2>2, FullFromParts
<1> QED BY <1>2, <1>3, <1>4, <1>5, <1>6, <1>7, <1>8, <1>9 DEF Next

-----------------------------------------------------------------------------
(* What a description of the value says of a turn of the loop.             *)

\* A match is all that an object needs to fit a member.
LEMMA FitsMatch ==
  ASSUME NEW o \in Objects, NEW f \in Field, f.codec = "TEMPLATE" => f.type \in Classes,
         CodecOf(f) = "CHOICE" => f.tagging # "implicit"
  PROVE  /\ Match(o, f) = "match" <=> Fits(f, o)
         /\ Match(o, f) = "error" => ~krypt_definition_is_optional(f)
         /\ Match(o, f) \in {"match", "no", "default", "error"}
<1>1. CASE CodecOf(f) # "CHOICE"
  <2>1. MatchCodec(o, f) \in {"match", "no", "default", "error"}
    <3>1. CodecOf(f) \in {"PRIMITIVE", "ANY"} \cup ConsCodecs \cup OfCodecs
      BY <1>1, DefinitionsAssumption DEF CodecOf, Field, Definition
    <3>2. CodecOf(f) = "PRIMITIVE" => MatchCodec(o, f) = int_match_prim(o, f)
      BY DEF MatchCodec, ConsCodecs, OfCodecs
    <3>3. CodecOf(f) = "ANY" => MatchCodec(o, f) = int_match_any(o, f)
      BY DEF MatchCodec, ConsCodecs, OfCodecs
    <3>4. CodecOf(f) \in ConsCodecs => MatchCodec(o, f) = int_match_cons(o, f, DefaultTag(CodecOf(f)))
      BY DEF MatchCodec, ConsCodecs, OfCodecs
    <3>5. CodecOf(f) \in OfCodecs => MatchCodec(o, f) = int_match_cons_of(o, f, DefaultTag(CodecOf(f)))
      BY DEF MatchCodec, ConsCodecs, OfCodecs
    <3> QED BY <3>1, <3>2, <3>3, <3>4, <3>5
      DEF int_match_prim, int_match_any, int_match_cons, int_match_cons_of, int_check_optional_or_default
  <2> QED BY <1>1, <2>1, MatchFits DEF Match, Fits
<1>2. CASE CodecOf(f) = "CHOICE"
  <2>1. f.codec = "TEMPLATE" /\ f.type \in Classes /\ Definitions[f.type].codec = "CHOICE"
    BY <1>2 DEF CodecOf, Field, OfCodecs
  <2>2. Match(o, f) = IF int_match_choice(o, f) = "no" /\ f.default THEN "default"
                      ELSE int_match_choice(o, f) BY <1>2, <2>1 DEF Match
  <2>3. /\ int_match_choice(o, f) \in {"match", "no", "error"}
        /\ int_match_choice(o, f) = "error" => ~krypt_definition_is_optional(f)
    BY <1>2 DEF int_match_choice
  <2>4. ASSUME Fits(f, o)
        PROVE  int_match_choice(o, f) = "match"
    <3>1. ~FitsCodec(f, o) BY <1>2 DEF FitsCodec, ConsCodecs, OfCodecs
    <3>2. PICK inner \in Objects :
            /\ IF f.tagging = NULL THEN inner = o
                               ELSE Encodings[o].elements # <<>> /\ inner = Encodings[o].elements[1]
            /\ \E i \in DOMAIN Definitions[f.type].layout : FitsCodec(Definitions[f.type].layout[i], inner)
      BY <2>4, <3>1 DEF Fits
    <3>3. PICK i \in DOMAIN Definitions[f.type].layout : FitsCodec(Definitions[f.type].layout[i], inner)
      BY <3>2
    <3>4. HasChosen(o, f) /\ Chosen(o, f) = inner BY <3>2, EncodingTypes DEF HasChosen, Chosen
    <3> DEFINE g == Definitions[f.type].layout[i]
    <3>5. g \in Field /\ (g.codec = "TEMPLATE" => g.type \in Classes /\ Definitions[g.type].codec # "CHOICE")
      BY <2>1, DefinitionTypes, LayoutsAssumption
    <3>6. CodecOf(g) # "CHOICE" BY <3>5 DEF CodecOf, Field, OfCodecs
    <3>7. i \in Matching(o, f) BY <3>3, <3>4, <3>5, <3>6, MatchFits DEF Matching
    <3> QED BY <1>2, <3>4, <3>7 DEF int_match_choice
  <2> QED BY <2>2, <2>3, <2>4, MatchAnswers
<1> QED BY <1>1, <1>2

\* The members of a set of numbers before one of them, and before another.
LEMMA CountsUp ==
  ASSUME NEW n \in Nat, NEW S \in SUBSET (1..n), NEW j \in S, NEW i \in Nat, j < i
  PROVE  /\ Cardinality({x \in S : x < j}) \in Nat /\ Cardinality({x \in S : x < i}) \in Nat
         /\ Cardinality({x \in S : x < j}) + 1 <= Cardinality({x \in S : x < i})
<1> DEFINE A == {x \in S : x < j}
           B == {x \in S : x < i}
<1>1. IsFiniteSet(S) BY FS_Interval, FS_Subset, 1 \in Int, n \in Int
<1>2. A \subseteq S /\ B \subseteq S OBVIOUS
<1>3. j \notin A /\ j \in B /\ A \subseteq B
  <2>1. j \in Nat /\ ~(j < j) OBVIOUS
  <2>2. \A x \in S : x < j => x < i OBVIOUS
  <2> QED BY <2>1, <2>2
<1> HIDE DEF A, B
<1>4. IsFiniteSet(A) /\ IsFiniteSet(B) /\ Cardinality(A) \in Nat /\ Cardinality(B) \in Nat
  BY <1>1, <1>2, FS_Subset, FS_CardinalityType
<1>5. Cardinality(A \cup {j}) = Cardinality(A) + 1 BY <1>3, <1>4, FS_AddElement
<1>6. Cardinality(A \cup {j}) <= Cardinality(B) BY <1>3, <1>4, FS_Subset
<1> QED BY <1>4, <1>5, <1>6 DEF A, B

\* The members of a set of numbers before one are finitely many.
LEMMA CountedBefore ==
  ASSUME NEW n \in Nat, NEW S \in SUBSET (1..n)
  PROVE  /\ IsFiniteSet(S) /\ Cardinality(S) \in Nat
         /\ \A i : /\ Cardinality({x \in S : x < i}) \in Nat
                   /\ Cardinality({x \in S : x < i}) <= Cardinality(S)
         /\ {x \in S : x < n + 1} = S
<1>1. IsFiniteSet(S) /\ Cardinality(S) \in Nat
  BY FS_Interval, FS_Subset, FS_CardinalityType, 1 \in Int, n \in Int
<1>2. ASSUME NEW i
      PROVE  /\ Cardinality({x \in S : x < i}) \in Nat
             /\ Cardinality({x \in S : x < i}) <= Cardinality(S)
  <2>1. {x \in S : x < i} \subseteq S OBVIOUS
  <2> QED BY <1>1, <2>1, FS_Subset, FS_CardinalityType
<1>3. \A x \in S : x < n + 1 OBVIOUS
<1> QED BY <1>1, <1>2, <1>3

\* The number of a member of a set, and the member of a number.
LEMMA NthIs ==
  ASSUME NEW n \in Nat, NEW S \in SUBSET (1..n), NEW j \in S
  PROVE  LET k == Cardinality({x \in S : x < j}) + 1
         IN  k \in 1..Cardinality(S) /\ Nth(S, k) = j
<1> DEFINE C(i) == Cardinality({x \in S : x < i})
           k == C(j) + 1
<1>1. j \in Nat /\ n + 1 \in Nat /\ j < n + 1 OBVIOUS
<1>2. {x \in S : x < n + 1} = S /\ Cardinality(S) \in Nat BY CountedBefore
<1>3. k \in 1..Cardinality(S)
  <2>1. C(j) + 1 <= C(n + 1) /\ C(j) \in Nat BY <1>1, CountsUp
  <2>2. C(n + 1) = Cardinality(S) BY <1>2
  <2> HIDE DEF C
  <2> QED BY <1>2, <2>1, <2>2
<1>4. Nth(S, k) \in S /\ C(Nth(S, k)) + 1 = k BY <1>3, NthOfNumbers
<1>5. PICK i \in S : i = Nth(S, k) BY <1>4
<1>6. i \in S /\ i \in Nat /\ C(i) = C(j) /\ C(i) \in Nat
  <2>1. C(i) + 1 = C(j) + 1 /\ C(i) \in Nat /\ C(j) \in Nat BY <1>4, <1>5, CountedBefore
  <2>2. i \in S /\ i \in Nat BY <1>5, S \subseteq Nat
  <2> HIDE DEF C
  <2>3. C(i) = C(j) BY <2>1
  <2> QED BY <2>1, <2>2, <2>3
<1>7. ~(i < j) /\ ~(j < i)
  <2>1. i < j => C(i) + 1 <= C(j) BY <1>1, <1>6, CountsUp
  <2>2. j < i => C(j) + 1 <= C(i) BY <1>1, <1>6, CountsUp
  <2> HIDE DEF C
  <2> QED BY <1>6, <2>1, <2>2
<1> QED BY <1>1, <1>3, <1>5, <1>6, <1>7

\* A set of one has no two members.
LEMMA TwoOfThem ==
  ASSUME NEW S, IsFiniteSet(S), NEW i \in S, NEW m \in S, Cardinality(S) <= 1
  PROVE  i = m
<1> SUFFICES ASSUME i # m
             PROVE  FALSE
  OBVIOUS
<1>1. IsFiniteSet({i}) /\ Cardinality({i}) = 1 BY FS_Singleton
<1>2. Cardinality({i} \cup {m}) = 2 BY <1>1, FS_AddElement
<1>3. Cardinality({i} \cup {m}) <= Cardinality(S) /\ Cardinality(S) \in Nat
  BY FS_Subset, FS_CardinalityType
<1> QED BY <1>2, <1>3

\* While the members before have the objects that a description of the value
\* gives them, the one at hand matches if it has one there, and only then.
LEMMA AtHand ==
  ASSUME NEW p, NEW i, NEW n, NEW o, NEW rest, NEW layout, NEW elements,
         AtMember(p, i, n, o, rest, layout, elements), DescriptionInv,
         Unambiguous(layout, ValueOf(This)),
         CodecOf(layout[i]) = "CHOICE" => layout[i].tagging # "implicit",
         NEW members \in SUBSET DOMAIN layout, Describes(This, members)
  PROVE  /\ members \subseteq 1..Len(layout)
         /\ {j \in members : j < i} = FoundBefore(p, i)
         /\ Cardinality(members) \in Nat /\ n + 1 <= Cardinality(members)
         /\ Cardinality(members) = Len(ValueOf(This))
         /\ i \in members <=> Match(o, layout[i]) = "match"
         /\ Match(o, layout[i]) # "error"
<1>1. /\ This = templates[p] /\ templates[p] \in Template /\ TemplateInv(templates[p])
      /\ IsCons(templates[p]) /\ layout = Layout(This)
      /\ DOMAIN layout = 1..Len(layout)
      /\ elements = ElementsOf(This) /\ elements \in Seq(Objects)
      /\ o = elements[n + 1] /\ o \in Objects
      /\ n = Cardinality(FoundBefore(p, i))
      /\ \A j \in 1..Len(layout) :
            /\ layout[j] \in Field
            /\ layout[j].codec = "TEMPLATE" => layout[j].type \in Classes BY AtMemberFacts
<1>2. /\ i \in 1..Len(layout) /\ Len(layout) \in Nat /\ n \in Nat /\ n + 1 \in DOMAIN elements
      /\ i \in Nat /\ i <= Len(layout) BY AtMemberFacts
<1>3. call.op = "parse" /\ p = call.path /\ i = call.i BY DEF AtMember
<1>4. {j \in members : j < i} = FoundBefore(p, i) BY <1>1, <1>3 DEF DescriptionInv
<1>5. This.origin \in Objects BY <1>1 DEF IsCons, Template
<1> DEFINE value == ValueOf(This)
<1>6. /\ value \in Seq(Objects) /\ Len(value) \in Nat
      /\ \A k \in 1..Len(value) : value[k] = elements[k]
      /\ ~IsInfinite(This) => Len(value) = Len(elements)
  BY <1>1, <1>5, ValueElements DEF IsInfinite
<1>7. /\ Cardinality(members) = Len(value)
      /\ \A k \in DOMAIN value : Fits(layout[Nth(members, k)], value[k])
      /\ \A j \in DOMAIN layout \ members : krypt_definition_is_optional(layout[j])
      /\ IsInfinite(This) => Len(layout) \in members BY <1>1 DEF Describes, DescribedBy, GivenTo
<1> HIDE DEF value
<1>8. members \in SUBSET (1..Len(layout)) BY <1>1
<1>9. Cardinality(members) \in Nat /\ Cardinality({j \in members : j < i}) = n
  BY <1>1, <1>2, <1>4, <1>8, CountedBefore
<1>10. n + 1 <= Cardinality(members)
  <2>1. CASE i = Len(layout) /\ IsInfinite(This)
    <3>1. i \in members BY <1>7, <2>1
    <3>2. n + 1 \in 1..Cardinality(members) BY <1>2, <1>8, <1>9, <3>1, NthIs
    <3> QED BY <1>9, <3>2
  <2>2. CASE i # Len(layout) /\ IsInfinite(This)
    <3>1. Len(layout) \in members /\ i < Len(layout) BY <1>2, <1>7, <2>2
    <3>2. {j \in members : j < i} \subseteq {j \in members : j < Len(layout)}
      <4>1. \A j \in members : j < i => j < Len(layout) BY <1>2, <1>8, <3>1
      <4> QED BY <4>1
    <3>3. IsFiniteSet({j \in members : j < Len(layout)})
      <4>1. IsFiniteSet(members) /\ {j \in members : j < Len(layout)} \subseteq members
        BY <1>2, <1>8, CountedBefore
      <4> QED BY <4>1, FS_Subset
    <3>4. n <= Cardinality({j \in members : j < Len(layout)}) BY <1>9, <3>2, <3>3, FS_Subset
    <3>5. Cardinality({j \in members : j < Len(layout)}) + 1 \in 1..Cardinality(members)
      BY <1>2, <1>8, <3>1, NthIs
    <3>6. Cardinality({j \in members : j < Len(layout)}) \in Nat BY <1>2, <1>8, CountedBefore
    <3> QED BY <1>2, <1>9, <3>4, <3>5, <3>6
  <2>3. CASE ~IsInfinite(This) BY <1>1, <1>2, <1>6, <1>7, <2>3
  <2> QED BY <2>1, <2>2, <2>3
<1>11. n + 1 \in 1..Len(value) /\ n + 1 \in 1..Cardinality(members) /\ n + 1 \in DOMAIN value
  BY <1>2, <1>6, <1>7, <1>9, <1>10
<1>12. value[n + 1] = o BY <1>1, <1>6, <1>11
<1>13. PICK m : m = Nth(members, n + 1) OBVIOUS
<1>14. m \in members /\ Fits(layout[m], o) BY <1>2, <1>7, <1>8, <1>11, <1>12, <1>13, NthOfNumbers
<1>15. i \in members => i = m BY <1>2, <1>8, <1>9, <1>13, NthIs
<1>16. Match(o, layout[i]) = "match" <=> Fits(layout[i], o) BY <1>1, <1>2, FitsMatch
<1>17. Fits(layout[i], o) => i = m
  <2> DEFINE S == {j \in DOMAIN layout : Fits(layout[j], value[n + 1])}
  <2>1. Cardinality(S) <= 1 BY <1>11 DEF Unambiguous, value
  <2>2. IsFiniteSet(S)
    <3>1. S \subseteq 1..Len(layout) BY <1>1
    <3>2. IsFiniteSet(1..Len(layout)) BY <1>2, FS_Interval, 1 \in Int, Len(layout) \in Int
    <3> QED BY <3>1, <3>2, FS_Subset
  <2>3. Fits(layout[i], o) => i \in S /\ m \in S BY <1>1, <1>2, <1>8, <1>12, <1>14
  <2> HIDE DEF S
  <2> QED BY <2>1, <2>2, <2>3, TwoOfThem
<1>18. Match(o, layout[i]) = "error" => i \in members BY <1>1, <1>2, <1>7, FitsMatch
<1> QED BY <1>4, <1>7, <1>8, <1>9, <1>10, <1>14, <1>15, <1>16, <1>17, <1>18 DEF value

\* What a template was parsed from, and for which class, says what describes it.
LEMMA SameTemplate ==
  ASSUME NEW t, NEW u, u.field = t.field, u.origin = t.origin
  PROVE  /\ Layout(u) = Layout(t) /\ Codec(u) = Codec(t) /\ ValueOf(u) = ValueOf(t)
         /\ \A members : Describes(u, members) <=> Describes(t, members)
         /\ IsMisfit(u) <=> IsMisfit(t)
<1>1. /\ Layout(u) = Layout(t) /\ Codec(u) = Codec(t) /\ ValueOf(u) = ValueOf(t)
      /\ IsInfinite(u) = IsInfinite(t) BY DEF Layout, Codec, ValueOf, IsInfinite
<1>2. \A members : Describes(u, members) <=> Describes(t, members) BY <1>1 DEF Describes
<1>3. IsMisfit(u) <=> IsMisfit(t) BY <1>1, <1>2 DEF IsMisfit
<1> QED BY <1>1, <1>2, <1>3

\* A turn keeps to the descriptions of the value if it does so for the member.
LEMMA TurnDescribes ==
  ASSUME NEW p, call.path = p, NEW k, NEW S, Turned(p, k, S),
         \A members \in SUBSET DOMAIN Layout(This) :
           Unambiguous(Layout(This), ValueOf(This)) /\ Describes(This, members) =>
             S = {j \in members : j < k}
  PROVE  DescriptionInv'
<1>1. This = templates[p] /\ This' = templates'[p] /\ (call.path)' = p /\ (call.i)' = k
  BY DEF This, Turned
<1>2. /\ Layout(This') = Layout(This) /\ ValueOf(This') = ValueOf(This)
      /\ \A members : Describes(This', members) <=> Describes(This, members)
  BY <1>1, SameTemplate DEF Turned
<1>3. /\ Layout(This)' = Layout(This) /\ ValueOf(This)' = ValueOf(This)
      /\ \A members : Describes(This, members)' <=> Describes(This, members) BY <1>2
<1>4. FoundBefore(call.path, call.i)' = S BY <1>1 DEF Turned
<1> QED BY <1>1, <1>3, <1>4 DEF DescriptionInv

\* Behind the last object a description has no members.
LEMMA LastMember ==
  ASSUME NEW p, NEW i, NEW n, NEW o, NEW rest, NEW layout, NEW elements,
         AtMember(p, i, n, o, rest, layout, elements), DescriptionInv, rest = <<>>,
         Unambiguous(layout, ValueOf(This)), Match(o, layout[i]) = "match",
         CodecOf(layout[i]) = "CHOICE" => layout[i].tagging # "implicit",
         NEW members \in SUBSET DOMAIN layout, Describes(This, members), NEW j \in members
  PROVE  j <= i
<1>1. /\ members \subseteq 1..Len(layout)
      /\ {x \in members : x < i} = FoundBefore(p, i)
      /\ Cardinality(members) = Len(ValueOf(This)) /\ i \in members BY AtHand
<1>2. /\ This = templates[p] /\ templates[p] \in Template /\ IsCons(templates[p])
      /\ elements = ElementsOf(This) /\ elements \in Seq(Objects) /\ IsRest(rest, elements, n + 1)
      /\ n = Cardinality(FoundBefore(p, i)) BY AtMemberFacts
<1>3. Len(layout) \in Nat /\ n \in Nat /\ i \in Nat /\ n + 1 \in DOMAIN elements BY AtMemberFacts
<1>4. Len(elements) = n + 1 /\ elements # <<>> BY <1>2, <1>3 DEF IsRest
<1>5. This.origin \in Objects BY <1>2 DEF IsCons, Template
<1>6. Len(ValueOf(This)) = Len(elements) \/ Len(ValueOf(This)) = Len(elements) - 1
  BY <1>2, <1>4, <1>5, ValueElements
<1> SUFFICES ASSUME i < j
             PROVE  FALSE
  BY <1>1, <1>3
<1> PICK c, d : c = Cardinality(members) /\ d = Cardinality({x \in members : x < j}) OBVIOUS
<1>7. d \in Nat /\ n + 1 <= d
  <2>1. j \in Nat /\ members \in SUBSET (1..Len(layout)) BY <1>1, <1>3
  <2>2. d \in Nat /\ Cardinality({x \in members : x < i}) + 1 <= d BY <1>1, <1>3, <2>1, CountsUp
  <2> QED BY <1>1, <1>2, <2>2
<1>8. c \in Nat /\ d + 1 \in 1..c BY <1>1, <1>3, NthIs, CountedBefore
<1>9. c = n + 1 \/ c = n BY <1>1, <1>3, <1>4, <1>6
<1> QED BY <1>3, <1>7, <1>8, <1>9

\* A CHOICE with an implicit tag matches nothing.
LEMMA ImplicitFails ==
  ASSUME NEW o, NEW f, CodecOf(f) = "CHOICE", f.tagging = "implicit"
  PROVE  Match(o, f) = "error"
  BY DEF Match, int_match_choice

\* A turn of the loop keeps to the descriptions of the value; where it fails
\* there are none.
LEMMA MatchDescribes ==
  ASSUME MembersOwnNames, FullInv, DescriptionInv, MatchMember
  PROVE  /\ DescriptionInv'
         /\ GetFails => IsMisfit(This)
<1>1. PICK p, i, n, o, rest, layout, elements :
        /\ p = call.path /\ i = call.i /\ n = call.num_parsed /\ o = call.cur /\ rest = call.rest
        /\ layout = Layout(This) /\ elements = ElementsOf(This) OBVIOUS
<1>2. AtMember(p, i, n, o, rest, layout, elements) BY <1>1 DEF AtMember, MatchMember
<1>3. i \in Nat /\ Len(layout) \in Nat /\ i \in DOMAIN layout /\ DOMAIN layout = 1..Len(layout)
      /\ rest \in Seq(Objects) BY <1>2, AtMemberFacts
<1> DEFINE IsKnown(members) ==
             /\ members \in SUBSET DOMAIN layout
             /\ Unambiguous(layout, ValueOf(This)) /\ Describes(This, members)
<1>4. ASSUME NEW members, IsKnown(members), Match(o, layout[i]) # "error"
      PROVE  /\ members \subseteq Nat /\ {j \in members : j < i} = FoundBefore(p, i)
             /\ i \in members <=> Match(o, layout[i]) = "match"
  <2>1. CodecOf(layout[i]) = "CHOICE" => layout[i].tagging # "implicit" BY <1>4, ImplicitFails
  <2>2. members \subseteq Nat BY <1>3, <1>4
  <2> QED BY <1>2, <1>4, <2>1, <2>2, AtHand
<1>5. ASSUME NEW members, IsKnown(members), Match(o, layout[i]) = "match", rest = <<>>
      PROVE  \A j \in members : j <= i
  <2>1. CodecOf(layout[i]) = "CHOICE" => layout[i].tagging # "implicit" BY <1>5, ImplicitFails
  <2> QED BY <1>2, <1>5, <2>1, LastMember
<1>6. ASSUME NEW k, NEW S, Turned(p, k, S),
             \A members : IsKnown(members) => S = {j \in members : j < k}
      PROVE  DescriptionInv' /\ ~GetFails
  <2>1. DescriptionInv' BY <1>1, <1>6, TurnDescribes
  <2>2. ~GetFails BY <1>6, IdleIs DEF GetFails, Turned
  <2> QED BY <2>1, <2>2
<1> HIDE DEF IsKnown
<1>7. CASE Match(o, layout[i]) \in {"no", "default"} /\ Turned(p, i + 1, FoundBefore(p, i))
  <2>1. ASSUME NEW members, IsKnown(members)
        PROVE  FoundBefore(p, i) = {j \in members : j < i + 1}
    <3>1. members \subseteq Nat /\ {j \in members : j < i} = FoundBefore(p, i) /\ i \notin members
      BY <1>4, <1>7, <2>1
    <3>2. \A j \in members : j < i + 1 <=> j < i BY <1>3, <3>1
    <3> QED BY <3>1, <3>2
  <2> QED BY <1>6, <1>7, <2>1
<1>8. CASE Match(o, layout[i]) = "match" /\ Turned(p, i + 1, FoundBefore(p, i) \cup {i})
  <2>1. ASSUME NEW members, IsKnown(members)
        PROVE  FoundBefore(p, i) \cup {i} = {j \in members : j < i + 1}
    <3>1. members \subseteq Nat /\ {j \in members : j < i} = FoundBefore(p, i) /\ i \in members
      BY <1>4, <1>8, <2>1
    <3>2. \A j \in members : j < i + 1 <=> j < i \/ j = i BY <1>3, <3>1
    <3> QED BY <3>1, <3>2
  <2> QED BY <1>6, <1>8, <2>1
<1>9. CASE /\ Match(o, layout[i]) = "match" /\ rest = <<>>
           /\ Turned(p, Len(layout) + 1, FoundBefore(p, i) \cup {i})
  <2>1. ASSUME NEW members, IsKnown(members)
        PROVE  FoundBefore(p, i) \cup {i} = {j \in members : j < Len(layout) + 1}
    <3>1. members \subseteq Nat /\ {j \in members : j < i} = FoundBefore(p, i) /\ i \in members
      BY <1>4, <1>9, <2>1
    <3>2. \A j \in members : j <= i BY <1>5, <1>9, <2>1
    <3>3. \A j \in members : j < Len(layout) + 1 <=> j < i \/ j = i BY <1>3, <3>1, <3>2
    <3> QED BY <3>1, <3>3
  <2> QED BY <1>6, <1>9, <2>1
<1>10. CASE GetFails
  <2>1. DescriptionInv' BY <1>10, IdleIs DEF GetFails, DescriptionInv
  <2>2. ASSUME ~IsMisfit(This)
        PROVE  FALSE
    <3>1. PICK members \in SUBSET DOMAIN layout : Describes(This, members)
      BY <1>1, <2>2 DEF IsMisfit
    <3>2. /\ IsKnown(members)
          /\ ~(CodecOf(layout[i]) = "CHOICE" /\ layout[i].tagging = "implicit")
      BY <1>1, <1>3, <2>2, <3>1 DEF IsMisfit, IsKnown
    <3>3. Match(o, layout[i]) # "error" BY <1>2, <3>1, <3>2, AtHand DEF IsKnown
    <3>4. ~Content.junk
      <4>1. /\ This = templates[p] /\ ~templates[p].parsed /\ TemplateInv(templates[p])
        BY <1>2, AtMemberFacts
      <4>2. This.object = This.origin BY <4>1 DEF TemplateInv
      <4> QED BY <2>2, <4>2 DEF IsMisfit, Content
    <3>5. Match(o, layout[i]) = "match" /\ rest = <<>> => RestIsOptional(layout, i + 1)
      <4> SUFFICES ASSUME Match(o, layout[i]) = "match", rest = <<>>, NEW j \in (i + 1)..Len(layout)
                   PROVE  krypt_definition_is_optional(layout[j])
        BY DEF RestIsOptional
      <4>1. j \in DOMAIN layout /\ ~(j <= i) BY <1>3
      <4>2. j \notin members BY <1>5, <3>2, <4>1
      <4> QED BY <1>1, <3>1, <4>1, <4>2 DEF Describes, DescribedBy
    <3> QED BY <1>2, <1>10, <3>3, <3>4, <3>5, MatchTurns
  <2> QED BY <2>1, <2>2
<1>11. \/ GetFails
       \/ Match(o, layout[i]) \in {"no", "default"} /\ Turned(p, i + 1, FoundBefore(p, i))
       \/ Match(o, layout[i]) = "match" /\ Turned(p, i + 1, FoundBefore(p, i) \cup {i})
       \/ /\ Match(o, layout[i]) = "match" /\ rest = <<>>
          /\ Turned(p, Len(layout) + 1, FoundBefore(p, i) \cup {i}) BY <1>2, MatchTurns
<1> QED BY <1>7, <1>8, <1>9, <1>10, <1>11

-----------------------------------------------------------------------------
(* How calls return.                                                       *)

\* The templates a program holds stay what they are.
HeldStay ==
  \A q \in DOMAIN templates : IsHeld(q) =>
    /\ q \in DOMAIN templates'
    /\ templates'[q].field = templates[q].field /\ templates'[q].origin = templates[q].origin
    /\ templates[q].parsed => templates'[q].parsed

\* A parsed template stays one.
LEMMA ParsedStay ==
  ASSUME IInv, [Next]_vars, NEW q \in DOMAIN templates, templates[q].parsed
  PROVE  q \in DOMAIN templates' /\ templates'[q].parsed
<1>1. Kept \/ UNCHANGED vars BY NextInv
<1>2. CASE Kept BY <1>2 DEF Kept
<1>3. CASE UNCHANGED vars BY <1>3 DEF vars
<1> QED BY <1>1, <1>2, <1>3

\* What a parse or a decoding makes of one template and its members.
LEMMA ChangeHolds ==
  ASSUME IInv, [Next]_vars, NEW p \in DOMAIN templates, NEW t \in Template,
         t.field = templates[p].field, t.origin = templates[p].origin,
         \/ UNCHANGED templates
         \/ templates' = With(p, t)
         \/ ~templates[p].parsed /\ \E o \in Objects, f \in Field : templates' = Parsed(p, t, o, f)
  PROVE  HeldStay
<1> SUFFICES ASSUME NEW q \in DOMAIN templates, IsHeld(q)
             PROVE  /\ q \in DOMAIN templates'
                    /\ templates'[q].field = templates[q].field
                    /\ templates'[q].origin = templates[q].origin BY ParsedStay DEF HeldStay
<1>1. CASE UNCHANGED templates BY <1>1
<1>2. CASE templates' = With(p, t) BY <1>2 DEF With
<1>3. ASSUME ~templates[p].parsed, NEW o \in Objects, NEW f \in Field, templates' = Parsed(p, t, o, f)
      PROVE  /\ q \in DOMAIN templates'
             /\ templates'[q].field = templates[q].field
             /\ templates'[q].origin = templates[q].origin
  <2>1. p \in Seq(IVars) /\ f.name \in IVars BY PartsOfInv DEF TemplatesInv, Field
  <2>2. q # Append(p, f.name) BY <1>3, <2>1, ParentOfMember DEF IsHeld
  <2>3. /\ DOMAIN templates \subseteq DOMAIN templates'
        /\ templates'[p].field = t.field /\ templates'[p].origin = t.origin
        /\ \A r \in DOMAIN templates' :
                r # p /\ templates'[r] # templates[r] => r = Append(p, f.name)
    BY <1>3, <2>1, ParsedTemplates
  <2> QED BY <2>2, <2>3
<1> QED BY <1>1, <1>2, <1>3

\* A turn of the loop changes the template at hand, and makes one for a member.
LEMMA MatchHolds ==
  ASSUME IInv, MatchMember
  PROVE  HeldStay
<1> DEFINE p == call.path
           d == int_set_default_value(This, DefaultName(Layout(This)[call.i]))
           w == WithDefaults(This, RestNames(Layout(This), call.i + 1))
<1>1. /\ p \in DOMAIN templates /\ This = templates[p] /\ This \in Template /\ TemplateInv(This)
      /\ ~This.parsed /\ call.op = "parse" /\ call.i \in 1..Len(Layout(This)) /\ call.cur \in Objects
  <2>1. /\ call.op = "parse" /\ call.i <= Len(Layout(This)) /\ CallInv /\ call \in Call
    BY CallFacts DEF MatchMember, IInv
  <2>2. p \in DOMAIN templates /\ This = templates[p] /\ This \in Template /\ TemplateInv(This)
    BY <2>1, CallFacts DEF This
  <2>3. /\ ~This.parsed /\ call.i \in 1..(Len(Layout(This)) + 1) /\ call.cur # NULL
    BY <2>1 DEF CallInv
  <2>4. Len(Layout(This)) \in Nat BY <2>2, LayoutTypes
  <2>5. call.cur \in Objects BY <2>1, <2>3 DEF Call
  <2> QED BY <2>1, <2>2, <2>3, <2>4, <2>5
<1>2. Layout(This)[call.i] \in Field /\ DefaultName(Layout(This)[call.i]) \in IVars
  BY <1>1, LayoutTypes DEF DefaultName, Field, IVars
<1>3. /\ d \in Template /\ d.field = This.field /\ d.origin = This.origin
      /\ w \in Template /\ w.field = This.field /\ w.origin = This.origin
  <2>1. /\ d \in Template /\ d.field = This.field /\ w \in Template /\ w.field = This.field
    BY <1>1, <1>2, DefaultsTypes
  <2>2. d.origin = This.origin /\ w.origin = This.origin
    BY <1>1 DEF int_set_default_value, WithDefaults, Template
  <2> QED BY <2>1, <2>2
<1>4. \/ UNCHANGED templates
      \/ templates' = With(p, d)
      \/ \E f \in Field : \E t \in {This, w} : templates' = Parsed(p, t, call.cur, f)
  BY <1>2 DEF MatchMember
<1>5. [Next]_vars BY DEF Next, Step
<1> HIDE DEF p, d, w
<1>6. CASE UNCHANGED templates BY <1>1, <1>5, <1>6, ChangeHolds
<1>7. CASE templates' = With(p, d) BY <1>1, <1>3, <1>5, <1>7, ChangeHolds
<1>8. ASSUME NEW f \in Field, NEW t \in {This, w}, templates' = Parsed(p, t, call.cur, f)
      PROVE  HeldStay
  BY <1>1, <1>3, <1>5, <1>8, ChangeHolds
<1> QED BY <1>4, <1>6, <1>7, <1>8

\* The failure of a get is judged by what a step leaves as it was.
LEMMA MisfitStays ==
  ASSUME IInv, NEW q \in DOMAIN templates, IsHeld(q), HeldStay, ~templates'[q].parsed,
         Codec(templates'[q]) \in ConsCodecs,
         int_unpack_explicit(templates'[q].origin, templates'[q].field).ok
  PROVE  /\ ~templates[q].parsed /\ Codec(templates[q]) \in ConsCodecs
         /\ int_unpack_explicit(templates[q].origin, templates[q].field).ok
         /\ IsMisfit(templates[q]) => IsMisfit(templates'[q])
<1>1. /\ templates'[q].field = templates[q].field /\ templates'[q].origin = templates[q].origin
      /\ ~templates[q].parsed BY DEF HeldStay
<1> QED BY <1>1, SameTemplate

\* A template that a program holds is one it will hold.
LEMMA HeldAgain ==
  ASSUME IInv, NEW q \in DOMAIN templates, IsHeld(q), HeldStay
  PROVE  q \in DOMAIN templates' /\ IsHeld(q)'
<1>1. q \in DOMAIN templates' BY DEF HeldStay
<1>2. CASE q = <<>> BY <1>1, <1>2 DEF IsHeld
<1>3. CASE q # <<>>
  <2>1. Parent(q) \in DOMAIN templates /\ templates[Parent(q)].parsed
    BY <1>3 DEF IInv, ParentsParsed, IsHeld
  <2>2. IsHeld(Parent(q)) BY <2>1 DEF IInv, ParentsParsed, IsHeld
  <2>3. templates'[Parent(q)].parsed BY <2>1, <2>2 DEF HeldStay
  <2> QED BY <1>1, <2>3 DEF IsHeld, Parent
<1> QED BY <1>2, <1>3

\* A step that does not return.
LEMMA SameReturn ==
  ASSUME WholeInv, UNCHANGED ret, HeldStay
  PROVE  ReturnInv' /\ OnlyMisfitsFail'
<1>1. IInv /\ ReturnInv /\ OnlyMisfitsFail BY PartsOfFullInv DEF WholeInv
<1>2. CASE ret.op # "get" BY <1>2 DEF ReturnInv, OnlyMisfitsFail
<1>3. CASE ret.op = "get"
  <2> PICK q : q = ret.path OBVIOUS
  <2>1. q \in DOMAIN templates /\ IsHeld(q) BY <1>1, <1>3 DEF ReturnInv
  <2>2. q \in DOMAIN templates' /\ IsHeld(q)' BY <1>1, <2>1, HeldAgain
  <2>3. ReturnInv' BY <2>2 DEF ReturnInv
  <2>4. OnlyMisfitsFail' BY <1>1, <1>3, <2>1, MisfitStays DEF OnlyMisfitsFail
  <2> QED BY <2>3, <2>4
<1> QED BY <1>2, <1>3

\* A step that ends a get.
LEMMA GetReturn ==
  ASSUME WholeInv, call.op # "none", HeldStay, NEW ok \in BOOLEAN, Returns("get", ok, call.path),
         ~ok => This.parsed \/ Codec(This) \notin ConsCodecs
                \/ ~int_unpack_explicit(This.origin, This.field).ok \/ IsMisfit(This)
  PROVE  ReturnInv' /\ OnlyMisfitsFail'
<1> PICK q : q = call.path OBVIOUS
<1>1. IInv /\ q \in DOMAIN templates /\ IsHeld(q) /\ This = templates[q]
  BY PartsOfFullInv, CallFacts DEF WholeInv, This
<1>2. q \in DOMAIN templates' /\ IsHeld(q)' BY <1>1, HeldAgain
<1>3. ret'.op = "get" /\ ret'.ok = ok /\ ret'.path = q BY DEF Returns
<1>4. ReturnInv' BY <1>2, <1>3 DEF ReturnInv
<1>5. OnlyMisfitsFail' BY <1>1, <1>3, MisfitStays DEF OnlyMisfitsFail
<1> QED BY <1>4, <1>5

\* Nothing is asked of a loop that does not run.
LEMMA NotParsing ==
  ASSUME call'.op # "parse"
  PROVE  DescriptionInv'
  BY DEF DescriptionInv

\* A value that int_parse_cons refuses at once has no objects.
LEMMA BeginsWhole ==
  ASSUME WholeInv, ParseConsBegins
  PROVE  DescriptionInv' /\ ReturnInv' /\ OnlyMisfitsFail'
<1> DEFINE u == int_unpack_explicit(This.object, This.field)
<1>1. PICK p : p = call.path OBVIOUS
<1>2. /\ IInv /\ call.op = "get" /\ ~This.parsed /\ Codec(This) \in ConsCodecs
      /\ UNCHANGED templates /\ [Next]_vars
  BY PartsOfFullInv DEF WholeInv, ParseConsBegins, Next, Step
<1>3. /\ p \in DOMAIN templates /\ This = templates[p] /\ This \in Template /\ TemplateInv(This)
      /\ This.object \in Objects /\ This.object = This.origin /\ call \in Call
  BY <1>1, <1>2, CallFacts DEF This, TemplateInv
<1>4. HeldStay BY <1>2, <1>3, ChangeHolds
<1>5. CASE GetFails /\ ~(u.ok /\ Encodings[u.header].is_constructed /\ u.elements # <<>>)
  <2>1. u.elements = <<>> => ValueOf(This) = <<>>
    <3>1. SubSeq(<<>>, 1, 0 - 1) = <<>> /\ Len(<<>>) = 0 OBVIOUS
    <3> QED BY <1>3, <3>1 DEF ValueOf
  <2>2. u.ok => IsMisfit(This) BY <1>3, <1>5, <2>1 DEF IsMisfit
  <2>3. ReturnInv' /\ OnlyMisfitsFail' BY <1>2, <1>3, <1>4, <1>5, <2>2, GetReturn DEF GetFails
  <2>4. DescriptionInv' BY <1>5, IdleIs, NotParsing DEF GetFails
  <2> QED BY <2>3, <2>4
<1>6. CASE UNCHANGED ret /\ call' = [call EXCEPT !.op = "parse", !.i = 1, !.cur = Head(u.elements),
                                                 !.rest = Tail(u.elements)]
  <2>1. call'.path = p /\ call'.i = 1 BY <1>1, <1>3, <1>6 DEF Call
  <2>2. This' = This /\ Layout(This)' = Layout(This) /\ ValueOf(This)' = ValueOf(This)
    BY <1>1, <1>2, <2>1 DEF This, Layout, ValueOf
  <2>3. DOMAIN Layout(This) \subseteq Nat \ {0} /\ Found(p)' \subseteq DOMAIN Layout(This)
    <3>1. Found(p)' \subseteq DOMAIN Layout(templates'[p]) BY DEF Found
    <3>2. DOMAIN Layout(This) = 1..Len(Layout(This)) /\ Len(Layout(This)) \in Nat
      BY <1>3, FoundFacts
    <3> QED BY <1>2, <1>3, <3>1, <3>2
  <2>4. \A S \in SUBSET DOMAIN Layout(This) : {j \in S : j < 1} = {} BY <2>3
  <2>5. FoundBefore(p, 1)' = {} BY <2>3, <2>4 DEF FoundBefore
  <2>6. DescriptionInv' BY <2>1, <2>2, <2>4, <2>5 DEF DescriptionInv
  <2> QED BY <1>4, <1>6, <2>6, SameReturn
<1> QED BY <1>5, <1>6 DEF ParseConsBegins

\* A turn of the loop keeps the whole invariant.
LEMMA MatchWhole ==
  ASSUME MembersOwnNames, WholeInv, MatchMember
  PROVE  DescriptionInv' /\ ReturnInv' /\ OnlyMisfitsFail'
<1>1. IInv /\ FullInv /\ DescriptionInv /\ call.op # "none"
  BY PartsOfFullInv DEF WholeInv, MatchMember
<1>2. HeldStay BY <1>1, MatchHolds
<1>3. DescriptionInv' /\ (GetFails => IsMisfit(This)) BY <1>1, MatchDescribes
<1>4. CASE GetFails BY <1>1, <1>2, <1>3, <1>4, GetReturn DEF GetFails
<1>5. CASE ~GetFails
  <2>1. UNCHANGED ret BY <1>5 DEF MatchMember
  <2> QED BY <1>2, <1>3, <2>1, SameReturn
<1> QED BY <1>4, <1>5

\* Behind a layout that describes the value the end is accepted.
LEMMA DescribedEnds ==
  ASSUME FullInv, DescriptionInv, call.op = "parse", call.i > Len(Layout(This)), ~IsMisfit(This)
  PROVE  /\ call.num_parsed >= MinSize(Layout(This))
         /\ AtEnd(call.rest, Encodings[Content.header].is_infinite, Content.junk)
<1>1. PICK p, layout, elements, n, rest, l :
        /\ p = call.path /\ layout = Layout(This) /\ elements = ElementsOf(This)
        /\ n = call.num_parsed /\ rest = call.rest /\ l = Len(layout) OBVIOUS
<1>2. IInv /\ LoopInv /\ CallInv /\ call \in Call BY PartsOfFullInv, CallFacts DEF IInv
<1>3. /\ p \in DOMAIN templates /\ templates[p] = This /\ This \in Template /\ TemplateInv(This)
      /\ ~This.parsed /\ This.origin = This.object /\ This.origin \in Objects
  BY <1>1, <1>2, CallFacts DEF CallInv, This, TemplateInv
<1>4. /\ DOMAIN layout = 1..l /\ l \in Nat /\ Found(p) \subseteq 1..l
      /\ elements \in Seq(Objects) /\ rest \in Seq(Objects) /\ n \in Nat
  BY <1>1, <1>2, <1>3, FoundFacts, UnpackTypes DEF ElementsOf, Call
<1>5. call.i = l + 1 BY <1>1, <1>2, <1>4 DEF CallInv
<1>6. PICK members \in SUBSET DOMAIN layout : Describes(This, members) BY <1>1 DEF IsMisfit
<1>7. FoundBefore(p, l + 1) = members /\ members \subseteq Found(p)
  <2>1. Unambiguous(layout, ValueOf(This)) BY <1>1 DEF IsMisfit
  <2>2. FoundBefore(p, l + 1) = {j \in members : j < l + 1}
    BY <1>1, <1>5, <1>6, <2>1 DEF DescriptionInv
  <2>3. {j \in members : j < l + 1} = members BY <1>4, CountedBefore
  <2> QED BY <2>2, <2>3 DEF FoundBefore
<1>8. n = Cardinality(members) BY <1>1, <1>2, <1>5, <1>7 DEF LoopInv
<1>9. /\ Len(ValueOf(This)) = n
      /\ \A j \in DOMAIN layout \ members : krypt_definition_is_optional(layout[j])
      /\ IsInfinite(This) => l \in members
  BY <1>1, <1>6, <1>8 DEF Describes, DescribedBy, GivenTo
<1>10. /\ Encodings[Content.header].is_infinite <=> IsInfinite(This)
       /\ Content.junk = int_unpack_explicit(This.origin, This.field).junk
  BY <1>3 DEF Content, IsInfinite
<1>11. n >= MinSize(layout)
  <2> DEFINE S == {j \in DOMAIN layout : ~(layout[j].optional \/ layout[j].default)}
  <2>1. S \subseteq members BY <1>9 DEF krypt_definition_is_optional
  <2>2. IsFiniteSet(members) /\ Cardinality(members) \in Nat BY <1>4, CountedBefore
  <2>3. Cardinality(S) <= n /\ Cardinality(S) \in Nat
    <3> HIDE DEF S
    <3> QED BY <1>8, <2>1, <2>2, FS_Subset, FS_CardinalityType
  <2>4. MinSize(layout) = Cardinality(S) BY DEF MinSize
  <2> HIDE DEF S
  <2> QED BY <1>4, <2>3, <2>4
<1>12. /\ call.cur # NULL => n + 1 \in DOMAIN elements /\ l \notin Found(p)
       /\ call.cur = NULL => IsRest(rest, elements, n)
       /\ call.cur # NULL => IsRest(rest, elements, n + 1) BY <1>1, <1>2, <1>5 DEF LoopInv
<1>13. ~Content.junk BY <1>10 DEF IsMisfit
<1>14. CASE ~IsInfinite(This)
  <2>1. Len(elements) = n BY <1>1, <1>3, <1>9, <1>14, ValueElements DEF IsInfinite
  <2>2. call.cur = NULL BY <1>4, <1>12, <2>1
  <2>3. rest = <<>> BY <1>4, <1>12, <2>1, <2>2 DEF IsRest
  <2> QED BY <1>1, <1>10, <1>11, <1>13, <1>14, <2>3 DEF AtEnd
<1>15. CASE IsInfinite(This)
  <2>1. call.cur = NULL BY <1>7, <1>9, <1>12, <1>15
  <2>2. elements # <<>>
    <3>1. ValueOf(This) # <<>> BY DEF IsMisfit
    <3>2. ValueOf(This) = SubSeq(elements, 1, Len(elements) - 1)
      BY <1>1, <1>15 DEF ValueOf, IsInfinite, ElementsOf
    <3> QED BY <3>1, <3>2
  <2>3. Len(elements) = n + 1 /\ IsEndOfContents(elements[n + 1])
    <3>1. Len(elements) - 1 = n BY <1>1, <1>3, <1>9, <1>15, <2>2, ValueElements DEF IsInfinite
    <3>2. Len(elements) = n + 1 BY <1>4, <3>1
    <3>3. IsEndOfContents(elements[Len(elements)]) BY <1>1, <1>15 DEF IsMisfit, ElementsOf
    <3> QED BY <3>2, <3>3
  <2>4. Len(rest) = 1 /\ rest[1] = elements[n + 1]
    <3>1. Len(rest) + n = Len(elements) /\ \A k \in DOMAIN rest : rest[k] = elements[n + k]
      BY <1>12, <2>1 DEF IsRest
    <3>2. Len(rest) = 1
      <4>1. Len(rest) \in Nat /\ n \in Nat BY <1>4
      <4>2. Len(rest) + n = n + 1 BY <2>3, <3>1
      <4>3. \A k \in Nat : k + n = n + 1 => k = 1 BY <4>1
      <4> QED BY <4>1, <4>2, <4>3
    <3>3. 1 \in DOMAIN rest BY <1>4, <3>2
    <3> QED BY <3>1, <3>2, <3>3
  <2>5. Head(rest) = elements[n + 1] BY <1>4, <2>4
  <2> QED BY <1>1, <1>10, <1>11, <1>13, <1>15, <2>3, <2>4, <2>5 DEF AtEnd
<1> QED BY <1>14, <1>15

\* The end of int_parse_cons refuses only what no description fits.
LEMMA EndsWhole ==
  ASSUME WholeInv, ParseConsEnds
  PROVE  DescriptionInv' /\ ReturnInv' /\ OnlyMisfitsFail'
<1>1. PICK p : p = call.path OBVIOUS
<1>2. /\ IInv /\ FullInv /\ DescriptionInv /\ call.op = "parse" /\ [Next]_vars
      /\ call.i > Len(Layout(This)) BY PartsOfFullInv DEF WholeInv, ParseConsEnds, Next, Step
<1>3. /\ p \in DOMAIN templates /\ This = templates[p] /\ This \in Template
  BY <1>1, <1>2, CallFacts DEF This
<1>4. IsParsed(This) \in Template /\ IsParsed(This).field = This.field /\ IsParsed(This).origin = This.origin
  BY <1>3 DEF IsParsed, Template
<1>5. HeldStay
  <2>1. UNCHANGED templates \/ templates' = With(p, IsParsed(This)) BY <1>1 DEF ParseConsEnds
  <2> QED BY <1>2, <1>3, <1>4, <2>1, ChangeHolds
<1>6. DescriptionInv'
  <2>1. call'.op # "parse" BY IdleIs DEF ParseConsEnds, GetFails, Idle
  <2> QED BY <2>1, NotParsing
<1>7. CASE UNCHANGED ret BY <1>5, <1>6, <1>7, SameReturn
<1>8. CASE /\ GetFails
           /\ ~(/\ call.num_parsed >= MinSize(Layout(This))
                /\ AtEnd(call.rest, Encodings[Content.header].is_infinite, Content.junk))
  <2>1. IsMisfit(This) BY <1>2, <1>8, DescribedEnds
  <2> QED BY <1>2, <1>5, <1>6, <1>8, <2>1, GetReturn DEF GetFails
<1> QED BY <1>7, <1>8 DEF ParseConsEnds

\* The other steps of a get: they fail for other templates, or parsed ones.
LEMMA OtherStepsWhole ==
  ASSUME WholeInv, ParseChoice \/ ParseOf \/ GetReturns
  PROVE  DescriptionInv' /\ ReturnInv' /\ OnlyMisfitsFail'
<1>1. PICK p : p = call.path OBVIOUS
<1>2. IInv /\ call.op = "get" /\ [Next]_vars
  BY PartsOfFullInv DEF WholeInv, ParseChoice, ParseOf, GetReturns, Next, Step
<1>3. /\ p \in DOMAIN templates /\ This = templates[p] /\ This \in Template /\ TemplateInv(This)
      /\ call \in Call /\ call.ivar \in IVars
      /\ ~This.parsed => This.object \in Objects BY <1>1, <1>2, CallFacts DEF This, Call
<1>4. DescriptionInv'
  <2>1. call'.op # "parse" BY <1>2, IdleIs DEF ParseChoice, ParseOf, GetReturns, GetFails
  <2> QED BY <2>1, NotParsing
<1>5. /\ IsParsed(This) \in Template /\ IsParsed(This).field = This.field
      /\ IsParsed(This).origin = This.origin BY <1>3 DEF IsParsed, Template
<1>6. CASE ParseChoice
  <2> DEFINE o == This.object
             x == Chosen(o, This.field)
             t == [IsParsed(This) EXCEPT !.tag = Encodings[x].tag]
             f == Layout(This)[MatchedLayout(o, This.field)]
  <2>1. ~This.parsed /\ Codec(This) = "CHOICE" BY <1>6 DEF ParseChoice
  <2>2. CASE GetFails /\ UNCHANGED templates
    <3>1. Codec(This) \notin ConsCodecs BY <2>1 DEF ConsCodecs
    <3>2. HeldStay BY <1>2, <1>3, <2>2, ChangeHolds
    <3> QED BY <1>2, <1>4, <2>2, <3>1, <3>2, GetReturn DEF GetFails
  <2>3. CASE int_match_choice(o, This.field) = "match" /\ templates' = Parsed(p, t, x, f) /\ UNCHANGED ret
    <3>1. x \in Objects /\ MatchedLayout(o, This.field) \in DOMAIN Layout(This)
      BY <1>3, <2>1, <2>3, FirstChoice
    <3>2. f \in Field /\ Encodings[x].tag \in Nat BY <1>3, <3>1, LayoutTypes, EncodingTypes
    <3>3. t \in Template /\ t.field = This.field /\ t.origin = This.origin
      BY <1>5, <3>2 DEF Template
    <3> HIDE DEF t, x, f
    <3>4. HeldStay BY <1>2, <1>3, <2>1, <2>3, <3>1, <3>2, <3>3, ChangeHolds
    <3> QED BY <1>4, <2>3, <3>4, SameReturn
  <2> QED BY <1>1, <1>6, <2>2, <2>3 DEF ParseChoice
<1>7. CASE ParseOf
  <2>1. ~This.parsed /\ Codec(This) \in OfCodecs /\ UNCHANGED ret
        /\ templates' = Parsed(p, IsParsed(This), This.object, OwnField(This))
    BY <1>1, <1>7 DEF ParseOf
  <2>2. OwnField(This) \in Field
    <3>1. This.field \in Field /\ Definitions[This.field.type].type \in Nat \cup Classes
      BY <1>3, DefinitionTypes DEF Template, TemplateInv
    <3> QED BY <2>1, <3>1 DEF OwnField, Field, IVars, OfCodecs
  <2>3. HeldStay BY <1>2, <1>3, <1>5, <2>1, <2>2, ChangeHolds
  <2> QED BY <1>4, <2>1, <2>3, SameReturn
<1>8. CASE GetReturns
  <2> DEFINE v == call.ivar
             t == [This EXCEPT !.ivars[v] =
                     [This.ivars[v] EXCEPT !.decoded = TRUE, !.value = int_value_decode(This.ivars[v]).value]]
  <2>1. This.parsed BY <1>8 DEF GetReturns
  <2>2. \E ok \in BOOLEAN : Returns("get", ok, call.path) BY <1>8 DEF GetReturns, GetFails
  <2>3. UNCHANGED templates \/ templates' = With(p, t) BY <1>1, <1>8 DEF GetReturns
  <2>4. HeldStay
    <3>1. t.field = This.field /\ t.origin = This.origin /\ t.parsed = This.parsed
      BY <1>3 DEF Template
    <3> HIDE DEF t
    <3>2. SUFFICES ASSUME NEW q \in DOMAIN templates
                   PROVE  /\ q \in DOMAIN templates'
                          /\ templates'[q].field = templates[q].field
                          /\ templates'[q].origin = templates[q].origin
                          /\ templates[q].parsed => templates'[q].parsed BY DEF HeldStay
    <3> QED BY <1>3, <2>3, <3>1 DEF With
  <2> QED BY <1>2, <1>4, <2>1, <2>2, <2>4, GetReturn
<1> QED BY <1>6, <1>7, <1>8

\* Every step keeps the whole invariant.
LEMMA NextWhole ==
  ASSUME MembersOwnNames, WholeInv, [Next]_vars
  PROVE  WholeInv'
<1>1. FullInv' /\ IInv BY NextFull, PartsOfFullInv DEF WholeInv
<1>2. ASSUME ret'.op # "get", call'.op # "parse"
      PROVE  WholeInv'
  BY <1>1, <1>2 DEF WholeInv, DescriptionInv, ReturnInv, OnlyMisfitsFail
<1>3. ASSUME NEW d \in Documents, ParseDer(d[1], d[2])
      PROVE  WholeInv'
  BY <1>2, <1>3 DEF ParseDer, Returns
<1>4. ASSUME NEW c \in Classes, New(c)
      PROVE  WholeInv'
  BY <1>2, <1>4 DEF New, Returns
<1>5. ASSUME NEW p \in DOMAIN templates, NEW v \in Members(templates[p]), Get(p, v)
      PROVE  WholeInv'
  <2>1. UNCHANGED << templates, ret >> /\ call'.op # "parse" BY <1>5 DEF Get, Idle
  <2>2. DescriptionInv' BY <2>1, NotParsing
  <2>3. HeldStay BY <2>1 DEF HeldStay
  <2> QED BY <1>1, <2>1, <2>2, <2>3, SameReturn DEF WholeInv
<1>6. ASSUME NEW p \in DOMAIN templates, NEW v \in Members(templates[p]), Set(p, v)
      PROVE  WholeInv'
  BY <1>2, <1>6 DEF Set, Returns
<1>7. ASSUME NEW p \in DOMAIN templates, ToDer(p)
      PROVE  WholeInv'
  BY <1>2, <1>7 DEF ToDer, Returns
<1>10. ASSUME NEW p \in DOMAIN templates, SetTag(p)
       PROVE  WholeInv'
  BY <1>2, <1>10 DEF SetTag, Returns
<1>8. CASE Step
  <2>1. DescriptionInv' /\ ReturnInv' /\ OnlyMisfitsFail'
    BY <1>8, BeginsWhole, MatchWhole, EndsWhole, OtherStepsWhole DEF Step
  <2> QED BY <1>1, <2>1 DEF WholeInv
<1>9. CASE UNCHANGED vars
  <2>1. HeldStay /\ UNCHANGED ret BY <1>9 DEF vars, HeldStay
  <2>2. DescriptionInv'
    <3>1. \A q, i : ObjectOf(q, i)' = ObjectOf(q, i) BY <1>9 DEF vars, ObjectOf, Layout
    <3>2. \A q : Found(q)' = Found(q) BY <1>9, <3>1 DEF vars, Found, Layout
    <3>3. \A q, i : FoundBefore(q, i)' = FoundBefore(q, i) BY <3>2 DEF FoundBefore
    <3>4. This' = This /\ call' = call BY <1>9 DEF vars, This
    <3> QED BY <3>3, <3>4 DEF WholeInv, DescriptionInv, Layout, ValueOf, Describes, IsInfinite
  <2> QED BY <1>1, <2>1, <2>2, SameReturn DEF WholeInv
<1> QED BY <1>3, <1>4, <1>5, <1>6, <1>7, <1>8, <1>9, <1>10 DEF Next

-----------------------------------------------------------------------------
(* Theorems.                                                               *)

\* The invariant of the loop over a layout and of what it leaves, for all classes
\* whose members have containers of their own.
THEOREM LayoutInvariant ==
  ASSUME MembersOwnNames
  PROVE  Spec => []FullInv
<1>1. Init => FullInv BY InitFull
<1>2. FullInv /\ [Next]_vars => FullInv' BY NextFull
<1> QED BY <1>1, <1>2, PTL DEF Spec

\* A parse gives the objects of a value to members that are for them, in the
\* order of the layout, and passes over no mandatory member, whatever the layouts
\* and the encodings (int_parse_cons).
THEOREM LayoutsRespected ==
  ASSUME MembersOwnNames
  PROVE  Spec => []LayoutRespected
<1>1. FullInv => LayoutRespected BY DEF FullInv
<1> QED BY <1>1, LayoutInvariant, PTL

\* A parsed template has a default, or what was set since, for every absent
\* member that declares one (int_set_default_value, int_ensure_rest_is_optional).
THEOREM DefaultsAreApplied ==
  ASSUME MembersOwnNames
  PROVE  Spec => []DefaultsApplied
<1>1. FullInv => DefaultsApplied BY DEF FullInv
<1> QED BY <1>1, LayoutInvariant, PTL

\* The value of a parsed CHOICE belongs to the first member that is for it, and
\* @tag is its tag (int_match_choice, int_parse_choice).
THEOREM ChoicesAreFirst ==
  ASSUME MembersOwnNames
  PROVE  Spec => []ChoiceOfFirst
<1>1. FullInv => ChoiceOfFirst BY DEF FullInv
<1> QED BY <1>1, LayoutInvariant, PTL

\* The invariant that MisfitsOnly needs holds in every reachable state.
LEMMA WholeInvAlways ==
  ASSUME MembersOwnNames
  PROVE  Spec => []WholeInv
<1>1. Init => WholeInv
  BY InitFull, IdleIs DEF Init, WholeInv, DescriptionInv, ReturnInv, OnlyMisfitsFail
<1>2. WholeInv /\ [Next]_vars => WholeInv' BY NextWhole
<1> QED BY <1>1, <1>2, PTL DEF Spec

\* The invariant of a parse: objects go to members in order and by a match, also
\* in a parse that fails half way, the loop counts what it has given away, and it
\* follows a description of the value wherever there is one.
THEOREM WholeInvariant ==
  ASSUME MembersOwnNames
  PROVE  Spec => []ParseInv
<1>1. WholeInv => ParseInv BY DEF WholeInv, FullInv, ParseInv
<1> QED BY <1>1, WholeInvAlways, PTL

\* A get fails to parse a SEQUENCE or SET only if its layout does not describe the
\* value, or leaves a choice: no order of reads, sets and failed reads before it
\* makes int_parse_cons refuse a value that fits.
THEOREM MisfitsOnly ==
  ASSUME MembersOwnNames
  PROVE  Spec => []OnlyMisfitsFail
<1>1. WholeInv => OnlyMisfitsFail BY DEF WholeInv
<1> QED BY <1>1, WholeInvAlways, PTL

=============================================================================
