----------------------------- MODULE Asn1Object -----------------------------
(***************************************************************************)
(* One ASN.1 object as krypt keeps it: the parsed or computed header, the  *)
(* cached octets of tag, length and value, and the flags, codec and Ruby   *)
(* instance variables wrapped around them (krypt_asn1_object and           *)
(* krypt_asn1_data).  The module holds the operations on ONE object; the   *)
(* tree of objects a program handles is in Asn1Data.                       *)
(*                                                                         *)
(* Octets are grouped into tokens: the identifier octets are one token     *)
(* that says what int_parse_tag reads from them, the length octets one     *)
(* token that says what int_parse_length reads from them, and a content    *)
(* octet is its value.  For tag and length the empty sequence of tokens is *)
(* the NULL pointer; lengths count tokens.                                 *)
(***************************************************************************)
EXTENDS Integers, Sequences, FiniteSets, SequencesExt

CONSTANTS
  Tags     \* the tag numbers in use

END_OF_CONTENTS == 0
INTEGER         == 2
BIT_STRING      == 3
OCTET_STRING    == 4
SEQUENCE        == 16
SET             == 17

\* Tag numbers below 31 that krypt_asn1_infos gives a class and whose codec
\* is one of the four modelled below.
ModelledTags == {0, 2, 3, 4, 10, 30} \cup (16..22) \cup (25..28)

ASSUME TagsAssumption ==
  /\ Tags \subseteq ModelledTags
  /\ {END_OF_CONTENTS, INTEGER, OCTET_STRING, SEQUENCE, SET} \subseteq Tags

\* The symbols a program passes; :EXPLICIT is carried by a flag and is
\* context specific on the wire (krypt_asn1_tag_class_for_id).
TagClassSymbol == {"UNIVERSAL", "CONTEXT_SPECIFIC", "EXPLICIT"}
TagClass       == {"UNIVERSAL", "CONTEXT_SPECIFIC"}

tag_class_for_id(sym) == IF sym = "EXPLICIT" THEN "CONTEXT_SPECIFIC" ELSE sym

-----------------------------------------------------------------------------
(* Tokens.                                                                 *)

Identifier(tag, tc, cons) == [tag |-> tag, tag_class |-> tc, cons |-> cons]

\* ber tells a long form that DER would write shorter from the DER form.
LengthOctets(n, inf, ber) == [n |-> n, inf |-> inf, ber |-> ber]

IdentifierToken == [tag : Tags, tag_class : TagClass, cons : BOOLEAN]
LengthToken     == [n : Nat, inf : BOOLEAN, ber : BOOLEAN]
Octet           == [v : 0..127]   \* no sign bit, so INTEGERs are not negative
Token           == IdentifierToken \cup LengthToken \cup Octet

EOC == << Identifier(END_OF_CONTENTS, "UNIVERSAL", FALSE),
          LengthOctets(0, FALSE, FALSE) >>

\* An element of a constructed value on the wire: primitive, or junk that
\* krypt_asn1_next_header rejects.  The length octets of the last element
\* may promise more octets than there are.
Elem == [id : IdentifierToken, len : LengthToken, oct : Seq(Octet), junk : BOOLEAN]

ElemTokens(e) == << e.id, e.len >> \o e.oct

IsShort(e) == e.len.n > Len(e.oct)

-----------------------------------------------------------------------------
(* The value bytes of an object: NULL, or its octets.  elems is how        *)
(* krypt_asn1_next_header and krypt_asn1_get_value cut the octets of a     *)
(* constructed value into elements.                                        *)

Bytes == [null : BOOLEAN, tok : Seq(Token), elems : Seq(Elem)]

NoBytes == [null |-> TRUE, tok |-> <<>>, elems |-> <<>>]

Primitive(oct) == [null |-> FALSE, tok |-> oct, elems |-> <<>>]

Constructed(elems) ==
  [null |-> FALSE, tok |-> FlattenSeq([i \in DOMAIN elems |-> ElemTokens(elems[i])]),
   elems |-> elems]

-----------------------------------------------------------------------------
(* Ruby values: nil, an Integer or a String (given by the octets that      *)
(* encode it), or an Array of object numbers, NilElem standing for a nil   *)
(* in the Array.                                                           *)

NilElem == -1

Value == [kind : {"nil", "int", "str", "ary"}, oct : Seq(Octet), ids : Seq(Int)]

NilValue    == [kind |-> "nil", oct |-> <<>>, ids |-> <<>>]
Number(oct) == [kind |-> "int", oct |-> oct, ids |-> <<>>]
Str(oct)    == [kind |-> "str", oct |-> oct, ids |-> <<>>]
Ary(ids)    == [kind |-> "ary", oct |-> <<>>, ids |-> ids]

\* The shortest form of a non-negative INTEGER: leading zero octets go, the
\* last octet stays.
LeadingZeros(oct) ==
  {k \in 1..(Len(oct) - 1) : \A j \in 1..k : oct[j].v = 0}

Minimal(oct) == SubSeq(oct, 1 + Cardinality(LeadingZeros(oct)), Len(oct))

-----------------------------------------------------------------------------
(* Codecs (krypt_asn1_codecs): each has an encoder, a decoder and a        *)
(* validator.  The other UNIVERSAL string types share "default".           *)

Codec == {"eoc", "integer", "bit_string", "default"}

codec_of_tag(tag) ==
  CASE tag = END_OF_CONTENTS -> "eoc"
    [] tag \in {INTEGER, 10} -> "integer"      \* 10 is ENUMERATED
    [] tag = BIT_STRING      -> "bit_string"
    [] OTHER                 -> "default"

int_codec_for(tag, tc) == IF tc = "UNIVERSAL" THEN codec_of_tag(tag) ELSE "default"

validator(codec, v) ==
  CASE codec = "eoc"     -> v.kind = "nil"
    [] codec = "integer" -> v.kind = "int"
    [] codec = "bit_string" -> v.kind = "str"
    [] codec = "default" -> v.kind \in {"nil", "str"}

\* @unused_bits: an Integer, or nil, which NoBits stands for.
NoBits == -1

Bits == {NoBits} \cup (0..127)

\* Only the class BitString has the attribute (int_handle_class_specifics,
\* krypt_asn1_bit_string_initialize).
initial_bits(default_tag) == IF default_tag = BIT_STRING THEN 0 ELSE NoBits

\* int_check_unused_bits; for nil NUM2INT raises.
bits_encodable(codec, bits) == codec = "bit_string" => bits \in 0..7

encoder(codec, bits, v) ==
  CASE v.kind = "nil" -> NoBytes
    [] v.kind # "nil" /\ codec = "bit_string" -> Primitive(<<[v |-> bits]>> \o v.oct)
    [] OTHER -> Primitive(v.oct)

decodable(codec, oct) ==
  CASE codec = "eoc"     -> oct = <<>>
    [] codec = "integer" -> oct # <<>>
    [] codec = "bit_string" -> oct # <<>> /\ oct[1].v \in 0..7
    [] codec = "default" -> TRUE

decoder(codec, oct) ==
  CASE codec = "eoc"     -> NilValue
    [] codec = "integer" -> Number(Minimal(oct))
    [] codec = "bit_string" -> Str(SubSeq(oct, 2, Len(oct)))
    [] codec = "default" -> Str(oct)

decoder_bits_Kept(codec, oct, bits) == bits                          \* mutant

\* What the decoder leaves in @unused_bits.
decoder_bits(codec, oct, bits) == IF codec = "bit_string" THEN oct[1].v ELSE bits

-----------------------------------------------------------------------------
(* The object.  dec, explicit and modified are the ASN1DATA_ flags, cb     *)
(* tells whether update_cb is set, the at_ fields are the Ruby instance    *)
(* variables.                                                              *)

Object ==
  [ tag : Tags, tag_class : TagClass, cons : BOOLEAN, inf : BOOLEAN,
    tag_bytes : Seq(IdentifierToken),
    length_bytes : Seq(LengthToken),
    length : Nat,
    bytes : Bytes,
    codec : Codec, default_tag : Tags \cup {-1}, cb : BOOLEAN,
    decoded : BOOLEAN, explicit : BOOLEAN, modified : BOOLEAN,
    at_tag : Tags, at_tag_class : TagClassSymbol, at_inf : BOOLEAN, at_value : Value,
    at_unused_bits : Bits ]

\* krypt_asn1_data_new: an object for freshly parsed bytes.  A zero length
\* leaves bytes NULL (int_parse_read_exactly).
Parsed(id, len, bytes) ==
  [ tag |-> id.tag, tag_class |-> id.tag_class, cons |-> id.cons, inf |-> len.inf,
    tag_bytes |-> <<id>>, length_bytes |-> <<len>>, length |-> len.n,
    bytes |-> IF ~len.inf /\ len.n = 0 THEN NoBytes ELSE bytes,
    codec |-> int_codec_for(id.tag, id.tag_class),
    default_tag |-> IF id.tag_class = "UNIVERSAL" THEN id.tag ELSE -1,
    cb |-> FALSE, decoded |-> FALSE, explicit |-> FALSE, modified |-> FALSE,
    at_tag |-> id.tag, at_tag_class |-> id.tag_class, at_inf |-> len.inf,
    at_value |-> NilValue,
    at_unused_bits |-> initial_bits(IF id.tag_class = "UNIVERSAL" THEN id.tag ELSE -1) ]

\* int_asn1_default_initialize (default_tag >= 0) and
\* krypt_asn1_data_initialize (default_tag = -1, sets update_cb).
Created(v, tag, sym, default_tag) ==
  [ tag |-> tag, tag_class |-> tag_class_for_id(sym), cons |-> v.kind = "ary",
    inf |-> FALSE, tag_bytes |-> <<>>, length_bytes |-> <<>>, length |-> 0,
    bytes |-> NoBytes,
    codec |-> IF default_tag # -1 THEN codec_of_tag(default_tag)
              ELSE int_codec_for(tag, tag_class_for_id(sym)),
    default_tag |-> default_tag, cb |-> default_tag = -1,
    decoded |-> TRUE, explicit |-> sym = "EXPLICIT", modified |-> TRUE,
    at_tag |-> tag, at_tag_class |-> sym, at_inf |-> FALSE, at_value |-> v,
    at_unused_bits |-> initial_bits(default_tag) ]

-----------------------------------------------------------------------------
(* Cache invalidation.                                                     *)

int_invalidate_tag_Never(o) == o                       \* mutant

int_invalidate_tag(o) == [o EXCEPT !.tag_bytes = <<>>]

int_invalidate_length(o) == [o EXCEPT !.length_bytes = <<>>, !.length = 0]

int_invalidate_value_KeepLength(o) == [o EXCEPT !.bytes = NoBytes] \* mutant

int_invalidate_value(o) == [int_invalidate_length(o) EXCEPT !.bytes = NoBytes]

int_asn1_data_update_cb(o) ==
  IF o.cb /\ ~o.cons THEN [o EXCEPT !.codec = int_codec_for(o.tag, o.tag_class)] ELSE o

-----------------------------------------------------------------------------
(* Encoding.  An encoding attempt gives the object it leaves behind, the   *)
(* octets written and whether it succeeded.                                *)

int_compute_tag(o) == << Identifier(o.tag, o.tag_class, o.cons) >>

int_compute_length(o) ==
  << IF o.inf THEN LengthOctets(0, TRUE, FALSE) ELSE LengthOctets(o.length, FALSE, FALSE) >>

\* krypt_asn1_header_encode: computes what is not cached, and caches it.
krypt_asn1_header_encode(o) ==
  [o EXCEPT !.tag_bytes    = IF @ = <<>> THEN int_compute_tag(o) ELSE @,
            !.length_bytes = IF @ = <<>> THEN int_compute_length(o) ELSE @]

HeaderTokens(o) == o.tag_bytes \o o.length_bytes

Encoded(o, content) ==
  LET h == krypt_asn1_header_encode(o)
  IN  [ok |-> TRUE, obj |-> h, out |-> HeaderTokens(h) \o content]

Failed(o) == [ok |-> FALSE, obj |-> o, out |-> <<>>]

krypt_asn1_object_encode(o) == Encoded(o, o.bytes.tok)

PrimValid(o, v) ==
  /\ o.tag_class = "UNIVERSAL" => o.tag \notin {SEQUENCE, SET}
  /\ validator(o.codec, v)

int_asn1_prim_encode_to(o, v) ==
  LET bytes == encoder(o.codec, o.at_unused_bits, v)
  IN  IF PrimValid(o, v) /\ bits_encodable(o.codec, o.at_unused_bits)
      THEN krypt_asn1_object_encode([o EXCEPT !.bytes = bytes, !.length = Len(bytes.tok)])
      ELSE Failed(o)

\* What a failing or raising element leaves behind: the header went out
\* first when the length was cached or is infinite.
HeaderFirst(o) ==
  IF o.length_bytes # <<>> \/ o.inf THEN krypt_asn1_header_encode(o) ELSE o

BarredConstructed(o) ==
  o.tag_class = "UNIVERSAL" /\ o.tag \notin {SEQUENCE, SET} /\ ~o.inf

\* int_asn1_cons_encode_to, given whether the elements encode and to what.
int_asn1_cons_encode_to(o, ok, content) ==
  CASE BarredConstructed(o) -> Failed(o)
    [] ~BarredConstructed(o) /\ ~ok -> Failed(HeaderFirst(o))
    [] OTHER ->
         IF o.length_bytes = <<>> /\ ~o.inf
         THEN Encoded([o EXCEPT !.length = Len(content)], content)
         ELSE Encoded(o, content)

\* int_asn1_make_explicit: the wrapped value as a fresh UNIVERSAL object.
Wrapper(o) == Created(o.at_value, o.default_tag, "UNIVERSAL", o.default_tag)

\* int_cons_add_eoc_ary: none is missing behind end-of-contents.
WithEoc(o, content) ==
  IF o.inf /\ o.default_tag # END_OF_CONTENTS THEN content \o EOC ELSE content

\* An explicit tag around a value that is no Array: the wrapper is the one
\* element of an object that is constructed from now on.
EncodeExplicit_Primitive(o) ==                                       \* mutant
  LET wrapped == int_asn1_prim_encode_to(Wrapper(o), o.at_value)
  IN  int_asn1_cons_encode_to(o, wrapped.ok, WithEoc(o, wrapped.out))

EncodeExplicit(o) ==
  LET wrapped == int_asn1_prim_encode_to(Wrapper(o), o.at_value)
  IN  int_asn1_cons_encode_to([o EXCEPT !.cons = TRUE], wrapped.ok, WithEoc(o, wrapped.out))

\* An Array that is encoded here is that of an element, and empty.
HasNoElements(o) == o.at_value.kind = "nil" \/ (o.at_value.kind = "ary" /\ ~o.inf)

EncodeValue(o) ==
  CASE o.explicit             -> EncodeExplicit(o)
    [] ~o.explicit /\ o.cons  -> int_asn1_cons_encode_to(o, HasNoElements(o), <<>>)
    [] ~o.explicit /\ ~o.cons -> int_asn1_prim_encode_to(o, o.at_value)

\* The codec of a BIT STRING on an object without the attribute: NUM2INT
\* raises a TypeError through all of to_der.
RaisesTypeError(o) ==
  /\ ~o.explicit /\ ~o.cons
  /\ o.codec = "bit_string" /\ o.at_unused_bits = NoBits
  /\ PrimValid(o, o.at_value)

\* int_asn1_encode_to for an object whose value is not an Array: from the
\* cached bytes, or anew, which resets the modified flag.
EncodeScalar(o) ==
  IF ~o.bytes.null THEN krypt_asn1_object_encode(o)
  ELSE [EncodeValue(o) EXCEPT !.obj.modified = @ /\ RaisesTypeError(o)]

=============================================================================
