----------------------------- MODULE MCTemplate -----------------------------
(***************************************************************************)
(* Small instances of Template for TLC.                                    *)
(***************************************************************************)
EXTENDS Template

CONSTANTS Rec, Pick, List, Outer, Wrap

Primitive_(tag, class, decodes) ==
  [tag |-> tag, tag_class |-> class, is_constructed |-> FALSE, is_infinite |-> FALSE,
   elements |-> <<>>, junk |-> FALSE, decodes |-> decodes]

Cons(tag, class, elements) ==
  [tag |-> tag, tag_class |-> class, is_constructed |-> TRUE, is_infinite |-> FALSE,
   elements |-> elements, junk |-> FALSE, decodes |-> FALSE]

Infinite(e) == [e EXCEPT !.is_infinite = TRUE]
WithJunk(e) == [e EXCEPT !.junk = TRUE]

MCEncodings ==
  << \* 1..6: an INTEGER, an OCTET STRING, a BOOLEAN, an INTEGER that does not
     \* decode, an OCTET STRING with the tag [0], end-of-contents
     Primitive_(2, "universal", TRUE), Primitive_(4, "universal", TRUE),
     Primitive_(1, "universal", TRUE), Primitive_(2, "universal", FALSE),
     Primitive_(0, "context", TRUE), Primitive_(0, "universal", TRUE),
     \* 7..15: for Rec
     Cons(16, "universal", <<1, 5, 3>>), Cons(16, "universal", <<1>>),
     Cons(16, "universal", <<4, 3>>), Cons(16, "universal", <<1, 2>>),
     Cons(16, "universal", <<1, 5, 3, 3>>), Cons(16, "universal", <<5, 3>>),
     Infinite(Cons(16, "universal", <<1, 3, 6>>)), Infinite(Cons(16, "universal", <<1, 6>>)),
     WithJunk(Cons(16, "universal", <<1>>)),
     \* 16, 17: an INTEGER in the tag [1], and one with another object behind it
     Cons(1, "context", <<1>>), Cons(1, "context", <<1, 1>>),
     \* 18..20: SEQUENCES OF INTEGER
     Cons(16, "universal", <<1, 1>>), Cons(16, "universal", <<1, 2>>), Cons(16, "universal", <<>>),
     \* 21..26: for Outer
     Cons(16, "universal", <<1, 18, 16>>), Cons(16, "universal", <<1, 19, 17>>),
     Cons(16, "universal", <<2>>), Cons(16, "universal", <<9, 16>>),
     Cons(16, "universal", <<3, 16>>), Cons(16, "universal", <<1, 20>>),
     \* 27..29: a Pick in a tag
     Cons(0, "context", <<1>>), Cons(0, "context", <<7>>), Cons(0, "context", <<3>>),
     \* 30..34: for Wrap
     Cons(17, "universal", <<18, 27, 3>>), Cons(17, "universal", <<28, 3>>),
     Cons(17, "universal", <<27>>), Cons(17, "universal", <<29, 3>>),
     Infinite(Cons(17, "universal", <<19, 27, 2, 6>>)),
     \* 35, 36: a Rec whose INTEGER has the tag [2], and an INTEGER with that tag
     Cons(16, "universal", <<36, 3>>), Primitive_(2, "context", TRUE),
     \* 37, 38: a Wrap with nothing in the tag of its Pick, and that tag
     Cons(17, "universal", <<18, 38>>), Cons(0, "context", <<>>) >>

MCObjects == DOMAIN MCEncodings

Member(name, codec, type) ==
  [name |-> name, codec |-> codec, type |-> type, tag |-> NULL, tagging |-> NULL,
   optional |-> FALSE, default |-> FALSE]

Tagging(f, tagging, tag) == [f EXCEPT !.tagging = tagging, !.tag = tag]
Optional(f) == [f EXCEPT !.optional = TRUE]
Default(f)  == [f EXCEPT !.default = TRUE]

Class(codec, layout) == [codec |-> codec, layout |-> layout, type |-> 0]

MCDefinitions ==
  [ c \in Classes |->
      CASE c = Rec ->
             Class("SEQUENCE", << Member("a", "PRIMITIVE", 2),
                                  Optional(Tagging(Member("b", "PRIMITIVE", 4), "implicit", 0)),
                                  Default(Member("c", "PRIMITIVE", 1)) >>)
        [] c = Pick ->
             Class("CHOICE", << Member("@value", "PRIMITIVE", 2), Member("@value", "PRIMITIVE", 4),
                                Member("@value", "TEMPLATE", Rec),
                                Member("@value", "SEQUENCE_OF", 2) >>)
        [] c = List ->
             [codec |-> "SEQUENCE_OF", layout |-> <<>>, type |-> 2]
        [] c = Outer ->
             Class("SEQUENCE", << Member("a", "TEMPLATE", Pick),
                                  Default(Member("b", "SEQUENCE_OF", 2)),
                                  Optional(Tagging(Member("c", "PRIMITIVE", 2), "explicit", 1)) >>)
        [] c = Wrap ->
             Class("SET", << Default(Member("b", "TEMPLATE", List)),
                             Tagging(Member("a", "TEMPLATE", Pick), "explicit", 0),
                             Member("c", "ANY", 0) >>) ]

MCDocuments ==
  ({Rec} \X ((7..15) \cup {35})) \cup ({Pick} \X {1, 2, 3, 7, 18}) \cup ({List} \X (18..20))
    \cup ({Outer} \X (21..26)) \cup ({Wrap} \X ((30..34) \cup {37}))

\* What the theorems about layouts ask of the classes.
ASSUME MembersOwnNames

=============================================================================
