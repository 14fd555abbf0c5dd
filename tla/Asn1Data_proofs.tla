--------------------------- MODULE Asn1Data_proofs ---------------------------
(***************************************************************************)
(* What the operators on one object return, for every object, and what     *)
(* each operation keeps: the type of the object and its part of the        *)
(* inductive invariants.  Then every step of Asn1Data keeps IInv, for any  *)
(* number of elements, any calls and any encodings; type correctness and   *)
(* freshness of the caches of tag and length follow.  The last sections    *)
(* show the same of NodesInv, the part of WrittenInv about each object and *)
(* its history, which Asn1Encoding_proofs goes on with.                    *)
(*                                                                         *)
(* Induction over octets and elements takes the least counterexample,      *)
(* which FirstOfNumbers provides.                                          *)
(***************************************************************************)
EXTENDS Asn1Data, SequenceTheorems, FiniteSetTheorems, FunctionTheorems,
        WellFoundedInduction, TLAPS

-----------------------------------------------------------------------------
(* Tokens.                                                                 *)

\* Octets, identifiers and lengths are tokens, and so are their sequences.
LEMMA TokenSeqs ==
  /\ Seq(Octet) \subseteq Seq(Token)
  /\ Seq(IdentifierToken) \subseteq Seq(Token)
  /\ Seq(LengthToken) \subseteq Seq(Token) BY DEF Token

LEMMA EmptyAndSingle ==
  ASSUME NEW S
  PROVE  /\ << >> \in Seq(S)
         /\ \A x \in S : << x >> \in Seq(S)
         /\ \A x, y \in S : << x, y >> \in Seq(S) /\ Len(<< x, y >>) = 2 OBVIOUS

LEMMA EocType == EOC \in Seq(Token) /\ Len(EOC) = 2
<1>1. Identifier(END_OF_CONTENTS, "UNIVERSAL", FALSE) \in Token
  BY TagsAssumption DEF Identifier, IdentifierToken, Token, TagClass
<1>2. LengthOctets(0, FALSE, FALSE) \in Token BY DEF LengthOctets, LengthToken, Token
<1>3. EOC = << Identifier(END_OF_CONTENTS, "UNIVERSAL", FALSE),
               LengthOctets(0, FALSE, FALSE) >> BY DEF EOC
<1>4. \A x, y \in Token : << x, y >> \in Seq(Token) /\ Len(<< x, y >>) = 2
  BY EmptyAndSingle, Zenon
<1> QED BY <1>1, <1>2, <1>3, <1>4, Zenon

\* krypt_asn1_tag_class_for_id gives a class for every symbol.
LEMMA TagClassType ==
  ASSUME NEW sym \in TagClassSymbol
  PROVE  tag_class_for_id(sym) \in TagClass
  BY DEF TagClassSymbol, TagClass, tag_class_for_id

LEMMA CodecType ==
  ASSUME NEW tag, NEW tc
  PROVE  codec_of_tag(tag) \in Codec /\ int_codec_for(tag, tc) \in Codec
  BY DEF Codec, codec_of_tag, int_codec_for

-----------------------------------------------------------------------------
(* Values.                                                                 *)

\* Minimal drops leading octets only, and never all of them.
LEMMA MinimalType ==
  ASSUME NEW oct \in Seq(Octet)
  PROVE  Minimal(oct) \in Seq(Octet)
<1>1. LeadingZeros(oct) \in SUBSET (1..(Len(oct) - 1)) BY DEF LeadingZeros
<1>2. IsFiniteSet(1..(Len(oct) - 1)) BY FS_Interval
<1>3. Cardinality(LeadingZeros(oct)) \in Nat BY <1>1, <1>2, FS_Subset, FS_CardinalityType
<1>4. \A k \in Nat : SubSeq(oct, 1 + k, Len(oct)) \in Seq(Octet) OBVIOUS
<1> QED BY <1>3, <1>4 DEF Minimal

LEMMA ValueTypes ==
  /\ NilValue \in Value
  /\ \A oct \in Seq(Octet) : Number(oct) \in Value /\ Str(oct) \in Value
  /\ \A ids \in Seq(Int) : Ary(ids) \in Value BY DEF NilValue, Number, Str, Ary, Value

LEMMA DecoderType ==
  ASSUME NEW codec \in Codec, NEW oct \in Seq(Octet)
  PROVE  /\ decoder(codec, oct) \in Value
         /\ decoder(codec, oct).kind # "ary"
         /\ decoder(codec, oct).ids = << >>
<1>1. \A k \in Nat : SubSeq(oct, 1 + k, Len(oct)) \in Seq(Octet) OBVIOUS
<1>2. SubSeq(oct, 2, Len(oct)) \in Seq(Octet) BY <1>1, 1 + 1 = 2
<1> QED BY <1>2, MinimalType, ValueTypes DEF decoder, Codec, NilValue, Number, Str

\* What the decoder leaves in @unused_bits.
LEMMA DecoderBitsType ==
  ASSUME NEW codec \in Codec, NEW oct \in Seq(Octet), NEW bits \in Bits, decodable(codec, oct)
  PROVE  decoder_bits(codec, oct, bits) \in Bits
<1>1. CASE codec = "bit_string"
  <2>1. decodable(codec, oct) = (oct # << >> /\ oct[1].v \in 0..7) BY <1>1 DEF decodable
  <2>2. 0..7 \subseteq Bits BY DEF Bits
  <2> QED BY <1>1, <2>1, <2>2 DEF decoder_bits
<1>2. CASE codec # "bit_string" BY <1>2 DEF decoder_bits
<1> QED BY <1>1, <1>2

LEMMA EncoderType ==
  ASSUME NEW codec, NEW bits, NEW v \in Value, bits_encodable(codec, bits)
  PROVE  /\ encoder(codec, bits, v) \in Bytes
         /\ encoder(codec, bits, v).tok \in Seq(Octet)
<1> DEFINE Good(b) == b \in Bytes /\ b.tok \in Seq(Octet)
<1>1. Good(NoBytes) BY EmptyAndSingle DEF NoBytes, Bytes
<1>2. \A oct \in Seq(Octet) : Good(Primitive(oct))
  <2>1. << >> \in Seq(Elem) BY EmptyAndSingle
  <2> QED BY <2>1, TokenSeqs DEF Primitive, Bytes
<1>3. v.oct \in Seq(Octet) BY DEF Value
<1> HIDE DEF Good
<1>4. CASE codec = "bit_string"
  <2> DEFINE first == [v |-> bits]
  <2>1. first \in Octet BY <1>4 DEF bits_encodable, Octet
  <2> HIDE DEF first
  <2>2. <<first>> \o v.oct \in Seq(Octet) BY <1>3, <2>1
  <2>3. encoder(codec, bits, v) \in {NoBytes, Primitive(<<first>> \o v.oct)}
    BY <1>4 DEF encoder, first
  <2> QED BY <1>1, <1>2, <2>2, <2>3 DEF Good
<1>5. CASE codec # "bit_string"
  <2>1. encoder(codec, bits, v) \in {NoBytes, Primitive(v.oct)} BY <1>5 DEF encoder
  <2> QED BY <1>1, <1>2, <1>3, <2>1 DEF Good
<1> QED BY <1>4, <1>5

-----------------------------------------------------------------------------
(* Objects.                                                                *)

LEMMA CreatedType ==
  ASSUME NEW v \in Value, NEW tag \in Tags, NEW sym \in TagClassSymbol,
         NEW default_tag \in Tags \cup {-1}
  PROVE  Created(v, tag, sym, default_tag) \in Object
<1>1. tag_class_for_id(sym) \in TagClass BY TagClassType
<1>2. NoBytes \in Bytes BY DEF NoBytes, Bytes
<1>3. \A t, c : codec_of_tag(t) \in Codec /\ int_codec_for(t, c) \in Codec BY CodecType
<1> QED BY <1>1, <1>2, <1>3 DEF Created, Object, initial_bits, Bits, NoBits

LEMMA ParsedType ==
  ASSUME NEW id \in IdentifierToken, NEW len \in LengthToken, NEW bytes \in Bytes
  PROVE  Parsed(id, len, bytes) \in Object
<1>1. NoBytes \in Bytes BY DEF NoBytes, Bytes
<1>2. \A t, c : int_codec_for(t, c) \in Codec BY CodecType
<1>3. /\ id.tag \in Tags /\ id.tag_class \in TagClass /\ id.cons \in BOOLEAN
      /\ len.n \in Nat /\ len.inf \in BOOLEAN BY DEF IdentifierToken, LengthToken
<1>4. id.tag_class \in TagClassSymbol BY <1>3 DEF TagClass, TagClassSymbol
<1> QED BY <1>1, <1>2, <1>3, <1>4, ValueTypes DEF Parsed, Object, initial_bits, Bits, NoBits

LEMMA HeaderType ==
  ASSUME NEW o \in Object
  PROVE  /\ krypt_asn1_header_encode(o) \in Object
         /\ HeaderTokens(krypt_asn1_header_encode(o)) \in Seq(Token)
<1>1. int_compute_tag(o) \in Seq(IdentifierToken)
  BY DEF int_compute_tag, Identifier, IdentifierToken, Object
<1>2. int_compute_length(o) \in Seq(LengthToken)
  BY DEF int_compute_length, LengthOctets, LengthToken, Object
<1>3. krypt_asn1_header_encode(o) \in Object BY <1>1, <1>2 DEF krypt_asn1_header_encode, Object
<1> QED BY <1>3, TokenSeqs DEF HeaderTokens, Object

\* int_compute_length: computed length octets say what the header says.
LEMMA ComputedLength ==
  ASSUME NEW o \in Object
  PROVE  /\ int_compute_length(o) # << >>
         /\ int_compute_length(o)[1].inf = o.inf
         /\ ~o.inf => int_compute_length(o)[1].n = o.length
<1>1. \A x : << x >> # << >> /\ << x >>[1] = x OBVIOUS
<1>2. CASE o.inf = TRUE
  <2> DEFINE x == LengthOctets(0, TRUE, FALSE)
  <2>1. int_compute_length(o) = << x >> BY <1>2 DEF int_compute_length
  <2>2. x.inf = TRUE /\ x.n = 0 BY DEF LengthOctets
  <2> HIDE DEF x
  <2>3. int_compute_length(o) # << >> /\ int_compute_length(o)[1] = x BY <1>1, <2>1, Zenon
  <2> QED BY <1>2, <2>2, <2>3, Zenon
<1>3. CASE o.inf = FALSE
  <2> DEFINE x == LengthOctets(o.length, FALSE, FALSE)
  <2>1. int_compute_length(o) = << x >> BY <1>3 DEF int_compute_length
  <2>2. x.inf = FALSE /\ x.n = o.length BY DEF LengthOctets
  <2> HIDE DEF x
  <2>3. int_compute_length(o) # << >> /\ int_compute_length(o)[1] = x BY <1>1, <2>1, Zenon
  <2> QED BY <1>3, <2>2, <2>3, Zenon
<1> QED BY <1>2, <1>3 DEF Object

\* The header and content of an object that is encoded.
LEMMA EncodedType ==
  ASSUME NEW o \in Object, NEW content \in Seq(Token)
  PROVE  /\ Encoded(o, content).obj = krypt_asn1_header_encode(o)
         /\ Encoded(o, content).obj \in Object
         /\ Encoded(o, content).out \in Seq(Token)
         /\ Encoded(o, content).ok = TRUE BY HeaderType DEF Encoded

\* An encoding attempt gives an object, octets and a verdict.
Attempt == [ok : BOOLEAN, obj : Object, out : Seq(Token)]

LEMMA AttemptTypes ==
  ASSUME NEW o \in Object
  PROVE  /\ Failed(o) \in Attempt
         /\ \A content \in Seq(Token) : Encoded(o, content) \in Attempt
<1>1. Failed(o) \in Attempt BY DEF Failed, Attempt
<1>2. ASSUME NEW content \in Seq(Token)
      PROVE  Encoded(o, content) \in Attempt
  BY HeaderType DEF Encoded, Attempt
<1> QED BY <1>1, <1>2

LEMMA PrimEncodeType ==
  ASSUME NEW o \in Object, NEW v \in Value
  PROVE  int_asn1_prim_encode_to(o, v) \in Attempt
<1> DEFINE e == encoder(o.codec, o.at_unused_bits, v)
           p == [o EXCEPT !.bytes = e, !.length = Len(e.tok)]
<1>1. Failed(o) \in Attempt BY AttemptTypes
<1>2. CASE bits_encodable(o.codec, o.at_unused_bits)
  <2>1. e \in Bytes /\ e.tok \in Seq(Token) /\ Len(e.tok) \in Nat BY <1>2, EncoderType, TokenSeqs
  <2> HIDE DEF e
  <2>2. p \in Object /\ p.bytes.tok \in Seq(Token) BY <2>1 DEF Object
  <2>3. krypt_asn1_object_encode(p) \in Attempt
    BY <2>2, AttemptTypes DEF krypt_asn1_object_encode
  <2> QED BY <1>1, <2>3, Zenon DEF int_asn1_prim_encode_to, e
<1>3. CASE ~bits_encodable(o.codec, o.at_unused_bits)
  BY <1>1, <1>3, Zenon DEF int_asn1_prim_encode_to
<1> QED BY <1>2, <1>3

LEMMA HeaderFirstType ==
  ASSUME NEW o \in Object
  PROVE  HeaderFirst(o) \in Object
  BY HeaderType DEF HeaderFirst

LEMMA ConsEncodeType ==
  ASSUME NEW o \in Object, NEW ok \in BOOLEAN, NEW content \in Seq(Token)
  PROVE  int_asn1_cons_encode_to(o, ok, content) \in Attempt
<1>1. [o EXCEPT !.length = Len(content)] \in Object
  <2>1. \A n \in Nat : [o EXCEPT !.length = n] \in Object BY DEF Object
  <2>2. Len(content) \in Nat OBVIOUS
  <2> QED BY <2>1, <2>2
<1>2. /\ Encoded([o EXCEPT !.length = Len(content)], content) \in Attempt
      /\ Encoded(o, content) \in Attempt
      /\ Failed(o) \in Attempt
      /\ Failed(HeaderFirst(o)) \in Attempt BY <1>1, AttemptTypes, HeaderFirstType
<1> QED BY <1>2 DEF int_asn1_cons_encode_to

LEMMA EncodeExplicitType ==
  ASSUME NEW o \in Object, o.explicit, o.default_tag # -1
  PROVE  EncodeExplicit(o) \in Attempt
<1> DEFINE wrapped == int_asn1_prim_encode_to(Wrapper(o), o.at_value)
<1>1. o.at_value \in Value BY DEF Object
<1>2. Wrapper(o) \in Object BY <1>1, CreatedType DEF Wrapper, Object, TagClassSymbol
<1>3. wrapped \in Attempt BY <1>1, <1>2, PrimEncodeType
<1>4. wrapped.ok \in BOOLEAN /\ WithEoc(o, wrapped.out) \in Seq(Token)
  BY <1>3, EocType DEF WithEoc, Attempt
<1>5. [o EXCEPT !.cons = TRUE] \in Object BY DEF Object
<1> HIDE DEF wrapped
<1>6. int_asn1_cons_encode_to([o EXCEPT !.cons = TRUE], wrapped.ok,
                              WithEoc(o, wrapped.out)) \in Attempt BY <1>4, <1>5, ConsEncodeType
<1> QED BY <1>6 DEF wrapped, EncodeExplicit

LEMMA EncodeValueType ==
  ASSUME NEW o \in Object, o.explicit => o.default_tag # -1
  PROVE  EncodeValue(o) \in Attempt
<1>1. CASE o.explicit
  <2>1. EncodeValue(o) = EncodeExplicit(o) BY <1>1 DEF EncodeValue
  <2> QED BY <1>1, <2>1, EncodeExplicitType
<1>2. CASE ~o.explicit /\ o.cons
  <2>1. EncodeValue(o) = int_asn1_cons_encode_to(o, HasNoElements(o), <<>>)
    BY <1>2 DEF EncodeValue
  <2>2. HasNoElements(o) \in BOOLEAN BY DEF HasNoElements
  <2> QED BY <2>1, <2>2, ConsEncodeType, EmptyAndSingle
<1>3. CASE ~o.explicit /\ ~o.cons
  <2>1. EncodeValue(o) = int_asn1_prim_encode_to(o, o.at_value) BY <1>3 DEF EncodeValue
  <2>2. o.at_value \in Value BY DEF Object
  <2> QED BY <2>1, <2>2, PrimEncodeType
<1> QED BY <1>1, <1>2, <1>3

\* int_asn1_encode_to on an object that holds no Array gives an object,
\* octets and a verdict, given that an explicit tag comes with a default tag.
LEMMA EncodeScalarType ==
  ASSUME NEW o \in Object, o.explicit => o.default_tag # -1
  PROVE  EncodeScalar(o) \in Attempt
<1>1. CASE ~o.bytes.null
  <2>1. o.bytes.tok \in Seq(Token) BY DEF Object, Bytes
  <2> QED BY <1>1, <2>1, AttemptTypes DEF EncodeScalar, krypt_asn1_object_encode
<1>2. CASE o.bytes.null
  <2> DEFINE b == EncodeValue(o).obj.modified /\ RaisesTypeError(o)
  <2>1. \A x \in Attempt : [x EXCEPT !.obj.modified = b] \in Attempt BY DEF Attempt, Object
  <2>2. EncodeScalar(o) = [EncodeValue(o) EXCEPT !.obj.modified = b] BY <1>2 DEF EncodeScalar
  <2> HIDE DEF b
  <2> QED BY <2>1, <2>2, EncodeValueType
<1> QED BY <1>1, <1>2

-----------------------------------------------------------------------------
(* Encoding keeps the invariant of an object.                              *)

\* r differs from o in cached octets and the length only, and identifier
\* octets are computed from o when there were none.
HeaderOnly(r, o) ==
  /\ r \in Object
  /\ r.tag = o.tag /\ r.tag_class = o.tag_class /\ r.cons = o.cons /\ r.inf = o.inf
  /\ r.bytes = o.bytes /\ r.default_tag = o.default_tag /\ r.explicit = o.explicit
  /\ r.at_tag = o.at_tag /\ r.at_tag_class = o.at_tag_class
  /\ r.at_inf = o.at_inf /\ r.at_value = o.at_value
  /\ r.codec = o.codec /\ r.cb = o.cb /\ r.decoded = o.decoded
  /\ \/ r.tag_bytes = o.tag_bytes
     \/ o.tag_bytes = << >> /\ r.tag_bytes = int_compute_tag(o)

LEMMA HeaderEncodeOnly ==
  ASSUME NEW o \in Object
  PROVE  HeaderOnly(krypt_asn1_header_encode(o), o)
  BY HeaderType DEF HeaderOnly, krypt_asn1_header_encode, Object

LEMMA HeaderFirstOnly ==
  ASSUME NEW o \in Object
  PROVE  HeaderOnly(HeaderFirst(o), o)
  BY HeaderEncodeOnly DEF HeaderFirst, HeaderOnly

LEMMA ConsEncodeOnly ==
  ASSUME NEW o \in Object, NEW ok \in BOOLEAN, NEW content \in Seq(Token)
  PROVE  HeaderOnly(int_asn1_cons_encode_to(o, ok, content).obj, o)
<1> DEFINE p == [o EXCEPT !.length = Len(content)]
<1>1. p \in Object
  <2>1. \A n \in Nat : [o EXCEPT !.length = n] \in Object BY DEF Object
  <2>2. Len(content) \in Nat OBVIOUS
  <2> QED BY <2>1, <2>2
<1>2. HeaderOnly(p, o) /\ int_compute_tag(p) = int_compute_tag(o)
  BY <1>1 DEF HeaderOnly, int_compute_tag, Object
<1>3. HeaderOnly(krypt_asn1_header_encode(p), p) BY <1>1, HeaderEncodeOnly
<1>4. HeaderOnly(krypt_asn1_header_encode(p), o) BY <1>2, <1>3 DEF HeaderOnly
<1>5. HeaderOnly(krypt_asn1_header_encode(o), o) /\ HeaderOnly(HeaderFirst(o), o)
  BY HeaderEncodeOnly, HeaderFirstOnly
<1>6. HeaderOnly(o, o) BY DEF HeaderOnly
<1>7. int_asn1_cons_encode_to(o, ok, content).obj
        \in {o, HeaderFirst(o), krypt_asn1_header_encode(o), krypt_asn1_header_encode(p)}
  BY DEF int_asn1_cons_encode_to, Failed, Encoded
<1> QED BY <1>4, <1>5, <1>6, <1>7

\* Setting the constructed bit of an explicitly tagged object does not make
\* its identifier octets stale: there are none yet, or the bit was set.
LEMMA OuterInv ==
  ASSUME NEW o \in Object, NEW h \in HistType, ObjInv(o, h), o.bytes.null
  PROVE  /\ Outer(o) \in Object
         /\ ObjInv(Outer(o), h)
         /\ Outer(o).bytes.null
         /\ o.explicit \/ o.cons => Outer(o).cons
         /\ Outer(o).at_value = o.at_value
<1>1. CASE ~o.explicit BY <1>1 DEF Outer
<1>2. CASE o.explicit
  <2> DEFINE p == [o EXCEPT !.cons = TRUE]
  <2>1. /\ p \in Object
        /\ p.cons = TRUE /\ p.bytes = o.bytes /\ p.at_value = o.at_value
        /\ p.tag = o.tag /\ p.tag_class = o.tag_class /\ p.inf = o.inf
        /\ p.explicit = o.explicit /\ p.default_tag = o.default_tag
        /\ p.tag_bytes = o.tag_bytes /\ p.length_bytes = o.length_bytes
        /\ p.at_tag = o.at_tag /\ p.at_tag_class = o.at_tag_class /\ p.at_inf = o.at_inf
        /\ p.codec = o.codec /\ p.cb = o.cb /\ p.decoded = o.decoded BY DEF Object
  <2> HIDE DEF p
  <2>2. ExplicitInv(p, h) /\ MirrorInv(p, h) /\ CodecInv(p) /\ ArrayInv(p) /\ BytesInv(p)
    BY <2>1 DEF ObjInv, ExplicitInv, MirrorInv, CodecInv, ArrayInv, BytesInv
  <2>3. LengthInv(p, h) BY <2>1 DEF ObjInv, LengthInv
  <2>4. TagInv(p, h)
    <3>1. ~h.retag /\ o.tag_bytes # << >> => o.cons BY <1>2 DEF ObjInv, ExplicitInv
    <3>2. o.cons => int_compute_tag(p) = int_compute_tag(o) BY <2>1 DEF int_compute_tag, Object
    <3> QED BY <2>1, <3>1, <3>2 DEF ObjInv, TagInv
  <2>5. Outer(o) = p BY <1>2 DEF Outer, p
  <2> QED BY <2>1, <2>2, <2>3, <2>4, <2>5 DEF ObjInv
<1> QED BY <1>1, <1>2

\* Computing the header of an object without value bytes keeps its
\* invariant.
LEMMA HeaderOnlyInv ==
  ASSUME NEW o \in Object, NEW r, NEW h \in HistType, HeaderOnly(r, o),
         ObjInv(o, h), o.bytes.null, o.cons
  PROVE  ObjInv(r, h) /\ r.bytes.null /\ r.cons
  BY DEF HeaderOnly, ObjInv, ExplicitInv, TagInv, MirrorInv, LengthInv, EncodesToNothing, CodecInv,
    ArrayInv, BytesInv, int_compute_tag

\* Encoding a primitive object caches the value bytes and length octets
\* that describe them.
LEMMA PrimEncodeInv ==
  ASSUME NEW o \in Object, NEW h \in HistType, ObjInv(o, h), o.bytes.null,
         ~o.cons, ~o.explicit
  PROVE  ObjInv(int_asn1_prim_encode_to(o, o.at_value).obj, h)
<1> DEFINE v == o.at_value
           e == encoder(o.codec, o.at_unused_bits, v)
           p == [o EXCEPT !.bytes = e, !.length = Len(e.tok)]
           r == krypt_asn1_header_encode(p)
<1>0. CASE ~bits_encodable(o.codec, o.at_unused_bits)
  <2>1. int_asn1_prim_encode_to(o, v).obj = o BY <1>0 DEF int_asn1_prim_encode_to, Failed
  <2> QED BY <2>1
<1> SUFFICES ASSUME bits_encodable(o.codec, o.at_unused_bits)
             PROVE  ObjInv(int_asn1_prim_encode_to(o, v).obj, h)
  BY <1>0
<1>1. v \in Value /\ e \in Bytes /\ e.tok \in Seq(Octet) BY EncoderType DEF Object
<1>e. /\ e.elems = << >>
      /\ e.null => e.tok = << >> /\ v.kind = "nil"
      /\ EncodesToNothing(o) => e.tok = << >>
  <2>1. v.kind = "nil" => e = NoBytes BY DEF encoder
  <2>2. v.kind # "nil" /\ o.codec # "bit_string" => e = Primitive(v.oct) BY DEF encoder
  <2>3. v.kind # "nil" /\ o.codec = "bit_string"
          => e = Primitive(<<[v |-> o.at_unused_bits]>> \o v.oct) BY DEF encoder
  <2> HIDE DEF e
  <2> QED BY <2>1, <2>2, <2>3 DEF NoBytes, Primitive, EncodesToNothing
<1> HIDE DEF e
<1>2. /\ p \in Object
      /\ p.bytes = e /\ p.length = Len(e.tok)
      /\ p.cons = o.cons /\ p.explicit = o.explicit /\ p.at_value = o.at_value
      /\ p.tag = o.tag /\ p.tag_class = o.tag_class /\ p.inf = o.inf
      /\ p.default_tag = o.default_tag
      /\ p.tag_bytes = o.tag_bytes /\ p.length_bytes = o.length_bytes
      /\ p.at_tag = o.at_tag /\ p.at_tag_class = o.at_tag_class /\ p.at_inf = o.at_inf
      /\ p.codec = o.codec /\ p.cb = o.cb /\ p.decoded = o.decoded
  <2>1. Len(e.tok) \in Nat BY <1>1
  <2> QED BY <1>1, <2>1 DEF Object
<1> HIDE DEF p
<1>3. HeaderOnly(r, p) BY <1>2, HeaderEncodeOnly
<1>4. r.length_bytes = IF p.length_bytes = << >> THEN int_compute_length(p)
                       ELSE p.length_bytes BY <1>2 DEF krypt_asn1_header_encode, Object
<1> HIDE DEF r
<1>5. ExplicitInv(r, h) /\ MirrorInv(r, h) /\ CodecInv(r) /\ ArrayInv(r) /\ BytesInv(r)
  <2>1. /\ e.tok \in Seq(Octet) /\ e.elems = << >>
        /\ e.null => e.tok = << >> BY <1>1, <1>e
  <2>2. ExplicitInv(r, h) /\ MirrorInv(r, h) /\ CodecInv(r) /\ ArrayInv(r)
    BY <1>2, <1>3 DEF HeaderOnly, ObjInv, ExplicitInv, MirrorInv, CodecInv, ArrayInv
  <2>3. BytesInv(r) BY <1>2, <1>3, <2>1 DEF HeaderOnly, BytesInv, ElemsSound
  <2> QED BY <2>2, <2>3
<1>6. TagInv(r, h) BY <1>2, <1>3 DEF HeaderOnly, ObjInv, TagInv, int_compute_tag, Object
<1>7. LengthInv(r, h)
  <2> SUFFICES ASSUME ~h.flip
               PROVE  LengthInv(r, h)
    BY DEF LengthInv
  <2>1. CASE o.length_bytes # << >>
    <3>1. /\ r.length_bytes = o.length_bytes
          /\ o.length_bytes[1].inf = o.inf
          /\ ~o.inf => o.length_bytes[1].n = 0
          /\ EncodesToNothing(o) BY <1>2, <1>4, <2>1 DEF ObjInv, LengthInv
    <3>2. e.tok = << >> /\ EncodesToNothing(r)
      BY <1>2, <1>3, <1>e, <3>1 DEF HeaderOnly, EncodesToNothing
    <3> QED BY <1>2, <1>3, <2>1, <3>1, <3>2 DEF HeaderOnly, LengthInv
  <2>2. CASE o.length_bytes = << >>
    <3>1. r.length_bytes = int_compute_length(p) BY <1>2, <1>4, <2>2
    <3>2. /\ r.length_bytes # << >>
          /\ r.length_bytes[1].inf = p.inf
          /\ ~p.inf => r.length_bytes[1].n = Len(e.tok) BY <1>2, <3>1, ComputedLength
    <3>3. e.null => e.tok = << >> /\ EncodesToNothing(r)
      BY <1>2, <1>3, <1>e DEF HeaderOnly, EncodesToNothing
    <3> QED BY <1>1, <1>2, <1>3, <3>2, <3>3 DEF HeaderOnly, LengthInv
  <2> QED BY <2>1, <2>2
<1>8. int_asn1_prim_encode_to(o, v).obj \in {o, r}
  BY DEF int_asn1_prim_encode_to, Failed, krypt_asn1_object_encode, Encoded, r, p, e
<1> QED BY <1>5, <1>6, <1>7, <1>8 DEF ObjInv

\* The modified flag plays no part in the invariant.
LEMMA ModifiedInv ==
  ASSUME NEW o \in Object, NEW h \in HistType, NEW b \in BOOLEAN
  PROVE  /\ [o EXCEPT !.modified = b] \in Object
         /\ ObjInv(o, h) => ObjInv([o EXCEPT !.modified = b], h)
         /\ [o EXCEPT !.modified = b].at_value = o.at_value
         /\ [o EXCEPT !.modified = b].bytes = o.bytes
         /\ [o EXCEPT !.modified = b].cons = o.cons
<1> DEFINE p == [o EXCEPT !.modified = b]
<1>1. /\ p \in Object
      /\ p.cons = o.cons /\ p.bytes = o.bytes /\ p.at_value = o.at_value
      /\ p.tag = o.tag /\ p.tag_class = o.tag_class /\ p.inf = o.inf
      /\ p.explicit = o.explicit /\ p.default_tag = o.default_tag
      /\ p.tag_bytes = o.tag_bytes /\ p.length_bytes = o.length_bytes
      /\ p.at_tag = o.at_tag /\ p.at_tag_class = o.at_tag_class /\ p.at_inf = o.at_inf
      /\ p.codec = o.codec /\ p.cb = o.cb /\ p.decoded = o.decoded BY DEF Object
<1> HIDE DEF p
<1>2. ObjInv(o, h) => ObjInv(p, h)
  BY <1>1 DEF ObjInv, ExplicitInv, TagInv, MirrorInv, LengthInv, EncodesToNothing, CodecInv,
    ArrayInv, BytesInv, int_compute_tag
<1> QED BY <1>1, <1>2 DEF p

\* What encoding an object leaves behind: a fresh object with the same
\* value, which stays without value bytes when it is constructed.
KeepsValue(r, o) ==
  /\ r.at_value = o.at_value
  /\ o.bytes.null /\ o.cons => r.bytes.null /\ r.cons

LEMMA CachedEncodeInv ==
  ASSUME NEW o \in Object, NEW h \in HistType, ObjInv(o, h), ~o.bytes.null
  PROVE  /\ ObjInv(krypt_asn1_header_encode(o), h)
         /\ KeepsValue(krypt_asn1_header_encode(o), o)
<1> DEFINE r == krypt_asn1_header_encode(o)
<1>1. HeaderOnly(r, o) BY HeaderEncodeOnly
<1>2. o.length_bytes # << >> => r.length_bytes = o.length_bytes
  BY DEF krypt_asn1_header_encode, Object
<1> HIDE DEF r
<1>3. ExplicitInv(r, h) /\ MirrorInv(r, h) /\ CodecInv(r) /\ ArrayInv(r) /\ BytesInv(r)
  BY <1>1 DEF HeaderOnly, ObjInv, ExplicitInv, MirrorInv, CodecInv, ArrayInv, BytesInv
<1>4. TagInv(r, h) BY <1>1 DEF HeaderOnly, ObjInv, TagInv, int_compute_tag
<1>5. LengthInv(r, h) BY <1>1, <1>2 DEF HeaderOnly, ObjInv, LengthInv
<1> QED BY <1>1, <1>3, <1>4, <1>5 DEF ObjInv, KeepsValue, HeaderOnly, r

LEMMA EncodeValueInv ==
  ASSUME NEW o \in Object, NEW h \in HistType, ObjInv(o, h), o.bytes.null
  PROVE  ObjInv(EncodeValue(o).obj, h) /\ KeepsValue(EncodeValue(o).obj, o)
<1>1. CASE o.explicit
  <2> DEFINE wrapped == int_asn1_prim_encode_to(Wrapper(o), o.at_value)
             p == [o EXCEPT !.cons = TRUE]
  <2>1. p = Outer(o) BY <1>1 DEF Outer
  <2>2. p \in Object /\ ObjInv(p, h) /\ p.bytes.null /\ p.cons /\ p.at_value = o.at_value
    BY <1>1, <2>1, OuterInv
  <2>3. wrapped.ok \in BOOLEAN /\ WithEoc(o, wrapped.out) \in Seq(Token)
    <3>1. o.at_value \in Value /\ Wrapper(o) \in Object
      BY <1>1, CreatedType DEF Wrapper, Object, TagClassSymbol, ObjInv, ExplicitInv
    <3>2. wrapped \in Attempt BY <3>1, PrimEncodeType
    <3> QED BY <3>2, EocType DEF WithEoc, Attempt
  <2> HIDE DEF wrapped, p
  <2> DEFINE r == int_asn1_cons_encode_to(p, wrapped.ok, WithEoc(o, wrapped.out)).obj
  <2>4. HeaderOnly(r, p) BY <2>2, <2>3, ConsEncodeOnly
  <2>5. EncodeValue(o).obj = r BY <1>1 DEF EncodeValue, EncodeExplicit, wrapped, p
  <2> HIDE DEF r
  <2>6. ObjInv(r, h) /\ r.bytes.null /\ r.cons BY <2>2, <2>4, HeaderOnlyInv
  <2> QED BY <2>2, <2>4, <2>5, <2>6 DEF KeepsValue, HeaderOnly
<1>2. CASE ~o.explicit /\ o.cons
  <2> DEFINE r == int_asn1_cons_encode_to(o, HasNoElements(o), <<>>).obj
  <2>1. HeaderOnly(r, o) BY ConsEncodeOnly, EmptyAndSingle DEF HasNoElements
  <2>2. EncodeValue(o).obj = r BY <1>2 DEF EncodeValue
  <2> HIDE DEF r
  <2> QED BY <1>2, <2>1, <2>2, HeaderOnlyInv DEF KeepsValue, HeaderOnly
<1>3. CASE ~o.explicit /\ ~o.cons
  <2> DEFINE r == int_asn1_prim_encode_to(o, o.at_value).obj
  <2>1. EncodeValue(o).obj = r BY <1>3 DEF EncodeValue
  <2>2. ObjInv(r, h) BY <1>3, PrimEncodeInv
  <2>3. r.at_value = o.at_value
    <3> DEFINE e == encoder(o.codec, o.at_unused_bits, o.at_value)
               q == [o EXCEPT !.bytes = e, !.length = Len(e.tok)]
    <3>0. CASE ~bits_encodable(o.codec, o.at_unused_bits)
      BY <3>0 DEF int_asn1_prim_encode_to, Failed
    <3> SUFFICES ASSUME bits_encodable(o.codec, o.at_unused_bits)
                 PROVE  r.at_value = o.at_value
      BY <3>0
    <3>1. q \in Object /\ q.at_value = o.at_value
      <4>1. e \in Bytes /\ Len(e.tok) \in Nat BY EncoderType DEF Object
      <4> HIDE DEF e
      <4> QED BY <4>1 DEF Object
    <3> HIDE DEF q
    <3>2. krypt_asn1_header_encode(q).at_value = q.at_value
      BY <3>1, HeaderEncodeOnly DEF HeaderOnly
    <3>3. r \in {o, krypt_asn1_header_encode(q)}
      BY DEF int_asn1_prim_encode_to, Failed, krypt_asn1_object_encode, Encoded, q, e
    <3> QED BY <3>1, <3>2, <3>3
  <2> QED BY <1>3, <2>1, <2>2, <2>3 DEF KeepsValue
<1> QED BY <1>1, <1>2, <1>3

\* int_asn1_encode_to keeps the invariant of an object that holds no Array.
LEMMA EncodeScalarInv ==
  ASSUME NEW o \in Object, NEW h \in HistType, ObjInv(o, h)
  PROVE  /\ EncodeScalar(o) \in Attempt
         /\ ObjInv(EncodeScalar(o).obj, h)
         /\ KeepsValue(EncodeScalar(o).obj, o)
<1>1. o.explicit => o.default_tag # -1 BY DEF ObjInv, ExplicitInv
<1>2. EncodeScalar(o) \in Attempt BY <1>1, EncodeScalarType
<1>3. CASE ~o.bytes.null
  <2>1. EncodeScalar(o).obj = krypt_asn1_header_encode(o)
    BY <1>3 DEF EncodeScalar, krypt_asn1_object_encode, Encoded
  <2> QED BY <1>2, <1>3, <2>1, CachedEncodeInv
<1>4. CASE o.bytes.null
  <2> DEFINE r == EncodeValue(o)
  <2>1. r \in Attempt /\ r.obj \in Object BY <1>1, EncodeValueType DEF Attempt
  <2>2. ObjInv(r.obj, h) /\ KeepsValue(r.obj, o) BY <1>4, EncodeValueInv
  <2> DEFINE b == r.obj.modified /\ RaisesTypeError(o)
  <2>3. EncodeScalar(o).obj = [r.obj EXCEPT !.modified = b]
    BY <1>4, <2>1 DEF EncodeScalar, Attempt
  <2>4. b \in BOOLEAN OBVIOUS
  <2> HIDE DEF r, b
  <2> QED BY <1>2, <2>1, <2>2, <2>3, <2>4, ModifiedInv DEF KeepsValue
<1> QED BY <1>3, <1>4

-----------------------------------------------------------------------------
(* Objects that come to be.                                                *)

\* A created object has nothing cached.
LEMMA CreatedInv ==
  ASSUME NEW a \in NewType, NewSound(a), NEW h \in HistType
  PROVE  LET o == Created(a.value, a.tag, a.sym, a.default_tag)
         IN  o \in Object /\ ObjInv(o, h) /\ o.at_value = a.value
<1> DEFINE o == Created(a.value, a.tag, a.sym, a.default_tag)
<1>1. o \in Object BY CreatedType DEF NewType
<1>2. /\ o.tag_bytes = << >> /\ o.length_bytes = << >> /\ o.bytes = NoBytes
      /\ o.explicit = (a.sym = "EXPLICIT") /\ o.default_tag = a.default_tag
      /\ o.at_tag = o.tag /\ o.at_inf = o.inf /\ o.at_tag_class = a.sym
      /\ o.tag_class = tag_class_for_id(a.sym)
      /\ o.at_value = a.value /\ o.cons = (a.value.kind = "ary")
      /\ o.decoded = TRUE BY DEF Created
<1> HIDE DEF o
<1>3. NoBytes.null /\ NoBytes.tok = << >> /\ NoBytes.elems = << >> BY DEF NoBytes
<1>4. ExplicitInv(o, h) /\ TagInv(o, h) /\ MirrorInv(o, h) /\ LengthInv(o, h)
  BY <1>2, <1>3 DEF NewSound, ExplicitInv, TagInv, MirrorInv, LengthInv
<1>5. CodecInv(o) /\ ArrayInv(o) BY <1>2 DEF NewSound, CodecInv, ArrayInv
<1>6. BytesInv(o) BY <1>2, <1>3, EmptyAndSingle DEF BytesInv, ElemsSound
<1> QED BY <1>1, <1>2, <1>4, <1>5, <1>6 DEF ObjInv, o

\* A parsed object has the octets of its header cached, and they are right.
LEMMA ParsedInv ==
  ASSUME NEW id \in IdentifierToken, NEW len \in LengthToken, NEW bytes \in Bytes,
         NEW h \in HistType, ~bytes.null,
         ~id.cons => bytes.tok \in Seq(Octet), ~len.inf => len.n = Len(bytes.tok),
         ElemsSound(bytes.elems)
  PROVE  LET o == Parsed(id, len, bytes)
         IN  o \in Object /\ ObjInv(o, h) /\ o.at_value = NilValue
<1> DEFINE o == Parsed(id, len, bytes)
<1>1. o \in Object BY ParsedType
<1>2. /\ o.tag_bytes = << id >> /\ o.length_bytes = << len >>
      /\ o.bytes = IF ~len.inf /\ len.n = 0 THEN NoBytes ELSE bytes
      /\ o.explicit = FALSE
      /\ o.at_tag = o.tag /\ o.at_inf = o.inf /\ o.at_tag_class = o.tag_class
      /\ o.tag = id.tag /\ o.tag_class = id.tag_class /\ o.cons = id.cons
      /\ o.inf = len.inf /\ o.at_value = NilValue /\ o.cb = FALSE BY DEF Parsed
<1> HIDE DEF o
<1>3. NoBytes.null /\ NoBytes.tok = << >> /\ NoBytes.elems = << >> BY DEF NoBytes
<1>4. ExplicitInv(o, h) BY <1>2 DEF ExplicitInv
<1>5. TagInv(o, h)
  <2>1. id = [tag |-> id.tag, tag_class |-> id.tag_class, cons |-> id.cons]
    BY DEF IdentifierToken
  <2> QED BY <1>2, <2>1 DEF TagInv, int_compute_tag, Identifier
<1>6. MirrorInv(o, h) BY <1>2 DEF MirrorInv, tag_class_for_id, IdentifierToken, TagClass
<1>7. LengthInv(o, h)
  <2>1. o.length_bytes # << >> /\ o.length_bytes[1] = len BY <1>2
  <2>2. EncodesToNothing(o) BY <1>2 DEF EncodesToNothing, NilValue
  <2> QED BY <1>2, <1>3, <2>1, <2>2 DEF LengthInv
<1>8. CodecInv(o) /\ ArrayInv(o) BY <1>2 DEF CodecInv, ArrayInv, NilValue
<1>9. BytesInv(o)
  <2>1. CASE o.bytes = NoBytes
    <3>1. o.bytes.tok = << >> /\ o.bytes.elems = << >> BY <1>3, <2>1
    <3>2. o.bytes.tok \in Seq(Octet) BY <3>1, EmptyAndSingle
    <3>3. ElemsSound(o.bytes.elems) BY <3>1 DEF ElemsSound
    <3> QED BY <3>1, <3>2, <3>3 DEF BytesInv
  <2>2. CASE o.bytes = bytes
    <3>1. o.cons = id.cons BY <1>2
    <3>2. ~o.cons => o.bytes.tok \in Seq(Octet) BY <2>2, <3>1, Zenon
    <3>3. ElemsSound(o.bytes.elems) BY <2>2
    <3> QED BY <2>2, <3>2, <3>3 DEF BytesInv
  <2> QED BY <1>2, <2>1, <2>2
<1> QED BY <1>1, <1>2, <1>4, <1>5, <1>6, <1>7, <1>8, <1>9 DEF ObjInv, o

-----------------------------------------------------------------------------
(* Decoding.                                                               *)

\* Elements without their last one: none of them is truncated.
LEMMA FrontSound ==
  ASSUME NEW elems \in Seq(Elem), ElemsSound(elems), elems # << >>
  PROVE  LET front == SubSeq(elems, 1, Len(elems) - 1)
         IN  /\ front \in Seq(Elem)
             /\ Len(front) = Len(elems) - 1
             /\ \A i \in DOMAIN front : front[i] = elems[i]
             /\ ElemsSound(front)
             /\ \A i \in DOMAIN front : ~IsShort(front[i])
<1> DEFINE front == SubSeq(elems, 1, Len(elems) - 1)
<1>1. Len(elems) \in Nat /\ Len(elems) > 0 OBVIOUS
<1>2. \A i \in 1..(Len(elems) - 1) : elems[i] \in Elem BY <1>1
<1>3. /\ front \in Seq(Elem)
      /\ Len(front) = Len(elems) - 1
      /\ \A i \in 1..(Len(elems) - 1) : front[i] = elems[i]
  <2>1. front \in Seq(Elem) BY <1>1, <1>2
  <2>2. Len(front) = Len(elems) - 1
    <3>1. \A n \in Nat : n <= Len(elems) => Len(SubSeq(elems, 1, n)) = n OBVIOUS
    <3>2. Len(elems) - 1 \in Nat /\ Len(elems) - 1 <= Len(elems) BY <1>1
    <3> QED BY <3>1, <3>2
  <2>3. \A i \in 1..(Len(elems) - 1) : front[i] = elems[i] BY <1>1
  <2> QED BY <2>1, <2>2, <2>3
<1> HIDE DEF front
<1>4. DOMAIN front = 1..(Len(elems) - 1) /\ DOMAIN elems = 1..Len(elems) BY <1>3
<1>5. \A i \in DOMAIN front : ~IsShort(elems[i]) BY <1>1, <1>4 DEF ElemsSound
<1>6. ElemsSound(front) BY <1>1, <1>3, <1>4, <1>5 DEF ElemsSound
<1> QED BY <1>3, <1>4, <1>5, <1>6 DEF front

\* The elements that a constructed value keeps, and those that become
\* objects, are among its elements.
LEMMA KeptSound ==
  ASSUME NEW o \in Object, BytesInv(o)
  PROVE  /\ KeptElems(o) \in Seq(Elem) /\ ElemsSound(KeptElems(o))
         /\ Whole(KeptElems(o)) \in Seq(Elem) /\ ElemsSound(Whole(KeptElems(o)))
         /\ \A i \in DOMAIN Whole(KeptElems(o)) : ~IsShort(Whole(KeptElems(o))[i])
<1>1. o.bytes.elems \in Seq(Elem) /\ ElemsSound(o.bytes.elems) BY DEF Object, Bytes, BytesInv
<1>2. KeptElems(o) \in Seq(Elem) /\ ElemsSound(KeptElems(o)) BY <1>1, FrontSound DEF KeptElems
<1> DEFINE kept == KeptElems(o)
<1> HIDE DEF kept
<1>3. kept \in Seq(Elem) /\ ElemsSound(kept) BY <1>2 DEF kept
<1>4. CASE kept # << >> /\ IsShort(kept[Len(kept)])
  BY <1>2, <1>3, <1>4, FrontSound DEF Whole, kept
<1>5. CASE ~(kept # << >> /\ IsShort(kept[Len(kept)]))
  <2>1. Whole(kept) = kept BY <1>5 DEF Whole
  <2>2. \A i \in DOMAIN kept : ~IsShort(kept[i]) BY <1>3, <1>5 DEF ElemsSound
  <2> QED BY <1>2, <2>1, <2>2 DEF kept
<1> QED BY <1>4, <1>5

\* Each element that is not truncated gets the number of an object that
\* exists once the elements were stored.
LEMMA ElementIdsType ==
  ASSUME NEW elems \in Seq(Elem), ElemsSound(elems), count \in Nat
  PROVE  ElementIds(elems) \in Seq({NilElem} \cup (1..(count + Len(Whole(elems)))))
<1> DEFINE k == count + Len(Whole(elems))
<1>1. Len(elems) \in Nat /\ DOMAIN elems = 1..Len(elems) OBVIOUS
<1>2. CASE elems # << >> /\ IsShort(elems[Len(elems)])
  <2>1. Len(Whole(elems)) = Len(elems) - 1 BY <1>2, FrontSound DEF Whole
  <2>2. \A i \in DOMAIN elems : ~IsShort(elems[i]) => i <= Len(elems) - 1 BY <1>1, <1>2
  <2> QED BY <1>1, <2>1, <2>2 DEF ElementIds
<1>3. CASE ~(elems # << >> /\ IsShort(elems[Len(elems)]))
  <2>1. Whole(elems) = elems BY <1>3 DEF Whole
  <2> QED BY <1>1, <2>1 DEF ElementIds
<1> QED BY <1>2, <1>3

\* The elements that a decoded value adds can be parsed.
LEMMA NewElemsSound ==
  ASSUME NEW o \in Object, BytesInv(o)
  PROVE  /\ NewElems(o) \in Seq(Elem)
         /\ Len(NewElems(o)) \in Nat
         /\ \A i \in 1..Len(NewElems(o)) :
              LET e == NewElems(o)[i] IN
              /\ e \in Elem
              /\ ~e.id.cons /\ ~e.len.inf /\ e.len.n = Len(e.oct)
<1>1. CASE NewElems(o) = << >> BY <1>1, EmptyAndSingle
<1>2. CASE NewElems(o) = Whole(KeptElems(o))
  <2> DEFINE w == Whole(KeptElems(o))
  <2>1. w \in Seq(Elem) /\ ElemsSound(w) /\ \A i \in DOMAIN w : ~IsShort(w[i]) BY KeptSound
  <2> HIDE DEF w
  <2>2. NewElems(o) = w BY <1>2 DEF w
  <2> QED BY <2>1, <2>2 DEF ElemsSound
<1> QED BY <1>1, <1>2 DEF NewElems

\* What decoding changes: the value, the value bytes and the flag.
DecodedOnly(d, o) ==
  /\ d \in Object
  /\ d.tag = o.tag /\ d.tag_class = o.tag_class /\ d.cons = o.cons /\ d.inf = o.inf
  /\ d.tag_bytes = o.tag_bytes /\ d.length_bytes = o.length_bytes
  /\ d.default_tag = o.default_tag /\ d.explicit = o.explicit
  /\ d.at_tag = o.at_tag /\ d.at_tag_class = o.at_tag_class /\ d.at_inf = o.at_inf
  /\ d.codec = o.codec /\ d.cb = o.cb /\ (o.decoded => d.decoded)
  /\ o.bytes.null => d.bytes.null

LEMMA DecodeInv ==
  ASSUME NEW o \in Object, count \in Nat, CodecInv(o), ArrayInv(o), BytesInv(o),
         o.at_value.ids \in Seq(ElementId)
  PROVE  LET d == AfterDecode(o)
             k == count + Len(NewElems(o))
         IN  /\ DecodedOnly(d, o)
             /\ CodecInv(d) /\ ArrayInv(d) /\ BytesInv(d)
             /\ d.at_value.ids \in Seq({NilElem} \cup (1..k))
             /\ \A h \in HistType : LengthInv(o, h) => LengthInv(d, h)
<1> DEFINE d == AfterDecode(o)
           k == count + Len(NewElems(o))
           Ids == {NilElem} \cup (1..k)
<1>1. k \in Nat /\ k >= count BY NewElemsSound
<1>2. ElementId \subseteq Ids BY <1>1 DEF ElementId
<1>3. o.at_value.ids \in Seq(Ids) BY <1>2
<1>4. NoBytes \in Bytes /\ NoBytes.null /\ NoBytes.tok = << >> /\ NoBytes.elems = << >>
  BY EmptyAndSingle DEF NoBytes, Bytes
<1>5. CASE d = o BY <1>3, <1>5 DEF DecodedOnly
<1>6. CASE ~o.decoded /\ o.cons /\ CanDecode(o)
  <2> DEFINE ids == ElementIds(KeptElems(o))
             p == [FreeBytes(o) EXCEPT !.at_value = Ary(ids), !.decoded = TRUE]
  <2>1. d = p BY <1>6 DEF AfterDecode
  <2>2. ids \in Seq(Ids) /\ ids \in Seq(Int)
    <3>1. NewElems(o) = Whole(KeptElems(o)) BY <1>6 DEF NewElems
    <3>2. ids \in Seq(Ids) BY <3>1, KeptSound, ElementIdsType
    <3>3. Ids \subseteq Int BY <1>1 DEF NilElem
    <3> QED BY <3>2, <3>3
  <2> HIDE DEF ids
  <2>3. /\ Ary(ids) \in Value
        /\ Ary(ids).ids = ids /\ Ary(ids).kind = "ary" /\ Ary(ids).oct = << >>
    BY <2>2, ValueTypes DEF Ary
  <2>4. /\ p \in Object
        /\ p.tag = o.tag /\ p.tag_class = o.tag_class /\ p.cons = o.cons /\ p.inf = o.inf
        /\ p.tag_bytes = o.tag_bytes /\ p.length_bytes = o.length_bytes
        /\ p.default_tag = o.default_tag /\ p.explicit = o.explicit
        /\ p.at_tag = o.at_tag /\ p.at_tag_class = o.at_tag_class /\ p.at_inf = o.at_inf
        /\ p.codec = o.codec /\ p.cb = o.cb
        /\ p.bytes = NoBytes /\ p.at_value = Ary(ids) /\ p.decoded = TRUE
    BY <1>4, <2>3 DEF Object, FreeBytes
  <2> HIDE DEF d, p
  <2>5. DecodedOnly(d, o) BY <1>4, <2>1, <2>4 DEF DecodedOnly
  <2>6. CodecInv(d) /\ ArrayInv(d) /\ BytesInv(d)
    BY <1>4, <1>6, <2>1, <2>3, <2>4, EmptyAndSingle DEF CodecInv, ArrayInv, BytesInv, ElemsSound
  <2>7. \A h \in HistType : LengthInv(d, h) BY <1>4, <1>6, <2>1, <2>4 DEF LengthInv
  <2>8. d.at_value.ids \in Seq(Ids) BY <2>1, <2>2, <2>3, <2>4
  <2> QED BY <2>5, <2>6, <2>7, <2>8 DEF d
<1>7. CASE ~o.decoded /\ o.cons /\ ~CanDecode(o)
  <2> DEFINE p == FreeBytes(o)
  <2>1. d = p BY <1>7 DEF AfterDecode
  <2>2. /\ p \in Object
        /\ p.tag = o.tag /\ p.tag_class = o.tag_class /\ p.cons = o.cons /\ p.inf = o.inf
        /\ p.tag_bytes = o.tag_bytes /\ p.length_bytes = o.length_bytes
        /\ p.default_tag = o.default_tag /\ p.explicit = o.explicit
        /\ p.at_tag = o.at_tag /\ p.at_tag_class = o.at_tag_class /\ p.at_inf = o.at_inf
        /\ p.codec = o.codec /\ p.cb = o.cb
        /\ p.bytes = NoBytes /\ p.at_value = o.at_value /\ p.decoded = o.decoded
    BY <1>4 DEF Object, FreeBytes
  <2> HIDE DEF d, p
  <2>3. DecodedOnly(d, o) BY <1>4, <2>1, <2>2 DEF DecodedOnly
  <2>4. CodecInv(d) /\ ArrayInv(d) /\ BytesInv(d)
    BY <1>4, <1>7, <2>1, <2>2, EmptyAndSingle DEF CodecInv, ArrayInv, BytesInv, ElemsSound
  <2>5. \A h \in HistType : LengthInv(d, h) BY <1>4, <1>7, <2>1, <2>2 DEF LengthInv
  <2> QED BY <1>3, <2>1, <2>2, <2>3, <2>4, <2>5 DEF d
<1>8. CASE ~o.decoded /\ ~o.cons /\ CanDecode(o)
  <2> DEFINE v == decoder(o.codec, o.bytes.tok)
             bits == decoder_bits(o.codec, o.bytes.tok, o.at_unused_bits)
             p == [o EXCEPT !.at_value = v, !.at_unused_bits = bits, !.decoded = TRUE]
  <2>1. d = p BY <1>8 DEF AfterDecode
  <2>2. v \in Value /\ v.kind # "ary" /\ v.ids = << >> BY <1>8, DecoderType DEF BytesInv, Object
  <2>3. o.bytes.tok = << >> => v.oct = << >> /\ o.codec # "bit_string"
    BY <1>8 DEF CanDecode, decodable, decoder, Object, Codec, NilValue, Str
  <2>9. bits \in Bits BY <1>8, DecoderBitsType DEF CanDecode, BytesInv, Object
  <2> HIDE DEF v, bits
  <2>4. /\ p \in Object
        /\ p.tag = o.tag /\ p.tag_class = o.tag_class /\ p.cons = o.cons /\ p.inf = o.inf
        /\ p.tag_bytes = o.tag_bytes /\ p.length_bytes = o.length_bytes
        /\ p.default_tag = o.default_tag /\ p.explicit = o.explicit
        /\ p.at_tag = o.at_tag /\ p.at_tag_class = o.at_tag_class /\ p.at_inf = o.at_inf
        /\ p.codec = o.codec /\ p.cb = o.cb
        /\ p.bytes = o.bytes /\ p.at_value = v /\ p.decoded = TRUE BY <2>2, <2>9 DEF Object
  <2> HIDE DEF d, p
  <2>5. DecodedOnly(d, o) BY <2>1, <2>4 DEF DecodedOnly
  <2>6. CodecInv(d) /\ ArrayInv(d) /\ BytesInv(d)
    BY <2>1, <2>2, <2>4 DEF CodecInv, ArrayInv, BytesInv
  <2>7. \A h \in HistType : LengthInv(o, h) => LengthInv(d, h)
    <3>1. ~d.cb BY <1>8, <2>1, <2>4 DEF CodecInv
    <3>2. o.bytes.null => EncodesToNothing(d)
      BY <2>1, <2>3, <2>4, <3>1 DEF EncodesToNothing, BytesInv
    <3> QED BY <2>1, <2>4, <3>2 DEF LengthInv
  <2>8. d.at_value.ids \in Seq(Ids) BY <2>1, <2>2, <2>4, EmptyAndSingle
  <2> QED BY <2>5, <2>6, <2>7, <2>8 DEF d
<1> QED BY <1>5, <1>6, <1>7, <1>8 DEF AfterDecode

-----------------------------------------------------------------------------
(* The invariant object by object.                                         *)

\* One object, when k elements exist.
NodeOK(o, h, k) ==
  /\ o \in Object
  /\ h \in HistType
  /\ ObjInv(o, h)
  /\ o.at_value.ids \in Seq({NilElem} \cup (1..k))

NodesOK ==
  /\ count \in Node
  /\ obj = [n \in Node |-> obj[n]]
  /\ hist = [n \in Node |-> hist[n]]
  /\ \A n \in Node : NodeOK(obj[n], hist[n], count)

CallOK ==
  /\ call \in CallType
  /\ call.ids \in Seq(ElementId)
  /\ call.active => obj[call.n].cons /\ obj[call.n].bytes.null

LEMMA IInvParts ==
  IInv <=> NodesOK /\ CallOK /\ sets \in 0..MaxSets /\ ret \in RetType
  BY DEF IInv, TypeOK, NodesOK, CallOK, NodeOK, ElementId

LEMMA IInvAfter ==
  ASSUME NodesOK', CallOK', sets' \in 0..MaxSets, ret' \in RetType
  PROVE  IInv'
  BY DEF IInv, TypeOK, NodesOK, CallOK, NodeOK, ElementId

LEMMA NodeFacts ==
  /\ Node \subseteq Nat /\ Root \in Node
  /\ \A k \in Node : 0..k \subseteq Node BY ConstantsAssumption DEF Node, Root

\* The flags of the history that the invariant reads.
LEMMA SameFlags ==
  ASSUME NEW o, NEW h \in HistType, NEW g \in HistType,
         g.retag = h.retag, g.flip = h.flip, ObjInv(o, h)
  PROVE  ObjInv(o, g)
  BY DEF ObjInv, ExplicitInv, TagInv, MirrorInv, LengthInv

LEMMA MoreElements ==
  ASSUME NEW o, NEW h, NEW k \in Nat, NEW l \in Nat, k <= l, NodeOK(o, h, k)
  PROVE  NodeOK(o, h, l)
<1>1. {NilElem} \cup (1..k) \subseteq {NilElem} \cup (1..l) OBVIOUS
<1> QED BY <1>1 DEF NodeOK

\* A history that differs in flags the invariant does not read.
SameFlagsAs(g, h) == g \in HistType /\ g.retag = h.retag /\ g.flip = h.flip

LEMMA SameNode ==
  ASSUME NEW o, NEW h, NEW g, NEW k, NodeOK(o, h, k), SameFlagsAs(g, h)
  PROVE  NodeOK(o, g, k)
  BY SameFlags DEF NodeOK, SameFlagsAs

\* A step that stores one object, with a history of its own, and leaves the
\* other objects alone.
LEMMA UpdateOne ==
  ASSUME NodesOK, NEW n \in Node, NEW o, NEW base, NEW h,
         NodeOK(o, h, count),
         base = [m \in Node |-> base[m]],
         \A m \in Node : SameFlagsAs(base[m], hist[m]),
         obj' = [obj EXCEPT ![n] = o],
         hist' = [base EXCEPT ![n] = h],
         count' = count
  PROVE  NodesOK'
<1>1. obj' = [m \in Node |-> IF m = n THEN o ELSE obj[m]] BY DEF NodesOK
<1>2. hist' = [m \in Node |-> IF m = n THEN h ELSE base[m]] OBVIOUS
<1>3. ASSUME NEW m \in Node
      PROVE  NodeOK(obj'[m], hist'[m], count)
  <2>1. CASE m = n BY <1>1, <1>2, <2>1
  <2>2. CASE m # n
    <3>1. obj'[m] = obj[m] /\ hist'[m] = base[m] BY <1>1, <1>2, <2>2
    <3>2. NodeOK(obj[m], hist[m], count) /\ SameFlagsAs(base[m], hist[m]) BY DEF NodesOK
    <3> QED BY <3>1, <3>2, SameNode
  <2> QED BY <2>1, <2>2
<1>4. obj' = [m \in Node |-> obj'[m]] /\ hist' = [m \in Node |-> hist'[m]] BY <1>1, <1>2
<1> QED BY <1>3, <1>4 DEF NodesOK

\* A step that changes objects and leaves the histories alone.
LEMMA UpdateObjects ==
  ASSUME NodesOK, NEW f, obj' = [m \in Node |-> f[m]],
         \A m \in Node : NodeOK(f[m], hist[m], count),
         hist' = hist, count' = count
  PROVE  NodesOK'
<1>1. \A m \in Node : obj'[m] = f[m] OBVIOUS
<1> QED BY <1>1 DEF NodesOK

LEMMA StaleSame ==
  ASSUME NodesOK, NEW n \in Node
  PROVE  /\ StaleAfter(n) = [m \in Node |-> StaleAfter(n)[m]]
         /\ \A m \in Node : SameFlagsAs(StaleAfter(n)[m], hist[m])
         /\ SameFlagsAs(Touched(n), hist[n])
<1> DEFINE b == n # Root /\ obj[Root].length_bytes # << >>
<1>1. Root \in Node /\ \A m \in Node : hist[m] \in HistType BY NodeFacts DEF NodesOK, NodeOK
<1>2. hist = [m \in Node |-> hist[m]] BY DEF NodesOK
<1>3. StaleAfter(n) = [m \in Node |-> IF m = Root
                          THEN [hist[m] EXCEPT !.stale = hist[m].stale \/ b] ELSE hist[m]]
  BY <1>1, <1>2 DEF StaleAfter
<1> HIDE DEF b
<1>4. \A m \in Node : SameFlagsAs(StaleAfter(n)[m], hist[m])
  <2> TAKE m \in Node
  <2> DEFINE h == hist[m]
             c == hist[m].stale \/ b
  <2>1. h \in HistType /\ c \in BOOLEAN BY <1>1
  <2>2. StaleAfter(n)[m] = IF m = Root THEN [h EXCEPT !.stale = c] ELSE h BY <1>3
  <2> HIDE DEF h, c
  <2>3. SameFlagsAs([h EXCEPT !.stale = c], h) /\ SameFlagsAs(h, h)
    BY <2>1 DEF SameFlagsAs, HistType
  <2>4. SameFlagsAs(StaleAfter(n)[m], h) BY <2>2, <2>3
  <2> QED BY <2>4 DEF h
<1>5. SameFlagsAs(Touched(n), hist[n]) BY <1>4 DEF Touched, SameFlagsAs, HistType
<1>6. StaleAfter(n) = [m \in Node |-> StaleAfter(n)[m]] BY <1>3
<1> QED BY <1>4, <1>5, <1>6

-----------------------------------------------------------------------------
(* Storing a decoded object and its elements.                              *)

LEMMA StoreOK ==
  ASSUME NodesOK, NEW n \in 0..count, NEW o, NEW base, NEW h, NEW elems \in Seq(Elem),
         NodeOK(o, h, count + Len(elems)),
         \A m \in Node : SameFlagsAs(base[m], hist[m]),
         \A i \in 1..Len(elems) :
           ~elems[i].id.cons /\ ~elems[i].len.inf /\ elems[i].len.n = Len(elems[i].oct),
         Store(n, o, elems),
         StoreHist(base, n, h, elems)
  PROVE  NodesOK'
<1> DEFINE k == count + Len(elems)
           fresh == (count + 1)..(count + Len(elems))
<1>1. count \in Nat /\ Len(elems) \in Nat /\ k \in Node /\ count <= k
  BY NodeFacts, ConstantsAssumption DEF NodesOK, Store, Node
<1>2. count' = k BY DEF Store
<1>3. \A m \in Node : obj'[m] = IF m = n THEN o
                                ELSE IF m \in fresh
                                     THEN Parsed(elems[m - count].id, elems[m - count].len,
                                                 Primitive(elems[m - count].oct))
                                ELSE obj[m] BY DEF Store
<1>4. \A m \in Node : hist'[m] = IF m = n THEN h
                                 ELSE IF m \in fresh
                                      THEN NewHist(ElemTokens(elems[m - count]))
                                 ELSE base[m] BY DEF StoreHist
<1>5. ASSUME NEW m \in Node
      PROVE  NodeOK(obj'[m], hist'[m], k)
  <2>1. CASE m = n BY <1>3, <1>4, <2>1
  <2>2. CASE m # n /\ m \in fresh
    <3> DEFINE e == elems[m - count]
               g == NewHist(ElemTokens(e))
               p == Parsed(e.id, e.len, Primitive(e.oct))
    <3>1. m - count \in 1..Len(elems) BY <1>1, <2>2
    <3>2. /\ e \in Elem
          /\ ~e.id.cons /\ ~e.len.inf /\ e.len.n = Len(e.oct) BY <3>1
    <3> HIDE DEF e
    <3>3. /\ e.id \in IdentifierToken /\ e.len \in LengthToken
          /\ e.oct \in Seq(Octet) /\ e.oct \in Seq(Token) BY <3>2, TokenSeqs DEF Elem
    <3>4. << e.id, e.len >> \in Seq(Token) BY <3>3 DEF Token
    <3>5. g \in HistType BY <3>3, <3>4 DEF NewHist, HistType, ElemTokens
    <3>6. /\ Primitive(e.oct) \in Bytes /\ ~Primitive(e.oct).null
          /\ Primitive(e.oct).tok = e.oct /\ ElemsSound(Primitive(e.oct).elems)
      BY <3>3, EmptyAndSingle DEF Primitive, Bytes, ElemsSound
    <3> HIDE DEF g
    <3>7. p \in Object /\ ObjInv(p, g) /\ p.at_value = NilValue
      BY <3>2, <3>3, <3>5, <3>6, ParsedInv
    <3>8. p.at_value.ids \in Seq({NilElem} \cup (1..k)) BY <3>7, EmptyAndSingle DEF NilValue
    <3>9. obj'[m] = p /\ hist'[m] = g BY <1>3, <1>4, <2>2 DEF e, g
    <3> HIDE DEF p
    <3> QED BY <3>5, <3>7, <3>8, <3>9 DEF NodeOK
  <2>3. CASE m # n /\ m \notin fresh
    <3>1. obj'[m] = obj[m] /\ hist'[m] = base[m] BY <1>3, <1>4, <2>3
    <3>2. NodeOK(obj[m], hist[m], count) /\ SameFlagsAs(base[m], hist[m]) BY DEF NodesOK
    <3> QED BY <1>1, <3>1, <3>2, SameNode, MoreElements, NodeFacts
  <2> QED BY <2>1, <2>2, <2>3
<1>6. obj' = [m \in Node |-> obj'[m]] /\ hist' = [m \in Node |-> hist'[m]]
  BY DEF Store, StoreHist
<1> QED BY <1>1, <1>2, <1>5, <1>6 DEF NodesOK

-----------------------------------------------------------------------------
(* The initial states, and the actions.                                    *)

LEMMA BlankOK ==
  \A k \in Nat : NodeOK(Blank, NewHist(<<>>), k)
<1> DEFINE a == [value |-> NilValue, tag |-> OCTET_STRING, sym |-> "UNIVERSAL",
                 default_tag |-> OCTET_STRING]
<1>1. a \in NewType /\ NewSound(a)
  BY TagsAssumption, ValueTypes DEF NewType, NewSound, TagClassSymbol, NilValue
<1>2. NewHist(<<>>) \in HistType BY EmptyAndSingle DEF NewHist, HistType
<1>3. Blank \in Object /\ ObjInv(Blank, NewHist(<<>>)) /\ Blank.at_value = NilValue
  BY <1>1, <1>2, CreatedInv DEF Blank
<1> QED BY <1>2, <1>3, EmptyAndSingle DEF NodeOK, NilValue

LEMMA NewOK ==
  ASSUME NEW a \in RootNews \cup ElemNews, NEW h \in HistType, NEW k \in Nat
  PROVE  NodeOK(Created(a.value, a.tag, a.sym, a.default_tag), h, k)
<1>1. a \in NewType /\ NewSound(a) BY ConstantsAssumption
<1> DEFINE o == Created(a.value, a.tag, a.sym, a.default_tag)
<1>2. o \in Object /\ ObjInv(o, h) /\ o.at_value = a.value BY <1>1, CreatedInv
<1> HIDE DEF o
<1>3. o.at_value.ids \in Seq({NilElem} \cup (1..k)) BY <1>1, <1>2, EmptyAndSingle DEF NewSound
<1> QED BY <1>2, <1>3 DEF NodeOK, o

LEMMA WireOK ==
  ASSUME NEW w \in RootWires
  PROVE  NodeOK(Parsed(w.id, w.len, w.bytes), NewHist(<< w.id, w.len >> \o w.bytes.tok), 0)
<1>1. w \in WireType /\ WireSound(w) BY ConstantsAssumption
<1>2. w.id \in IdentifierToken /\ w.len \in LengthToken /\ w.bytes \in Bytes BY <1>1 DEF WireType
<1> DEFINE o == Parsed(w.id, w.len, w.bytes)
           h == NewHist(<< w.id, w.len >> \o w.bytes.tok)
<1>3. h \in HistType
  <2>1. << w.id, w.len >> \in Seq(Token) /\ w.bytes.tok \in Seq(Token) BY <1>2 DEF Token, Bytes
  <2> QED BY <2>1 DEF NewHist, HistType
<1> HIDE DEF h
<1>4. o \in Object /\ ObjInv(o, h) /\ o.at_value = NilValue
  BY <1>1, <1>2, <1>3, ParsedInv DEF WireSound
<1> HIDE DEF o
<1>5. o.at_value.ids \in Seq({NilElem} \cup (1..0)) BY <1>4, EmptyAndSingle DEF NilValue
<1> QED BY <1>3, <1>4, <1>5 DEF NodeOK, o, h

LEMMA InitIInv == Init => IInv
<1> SUFFICES ASSUME Init
             PROVE  IInv
  OBVIOUS
<1>1. PICK root, src : InitWith(root, src) /\ NodeOK(root, NewHist(src), 0)
  <2>1. CASE \E w \in RootWires : InitWith(Parsed(w.id, w.len, w.bytes),
                                           << w.id, w.len >> \o w.bytes.tok) BY <2>1, WireOK
  <2>2. CASE \E a \in RootNews : InitWith(Created(a.value, a.tag, a.sym, a.default_tag), <<>>)
    <3>1. NewHist(<<>>) \in HistType /\ 0 \in Nat BY BlankOK DEF NodeOK
    <3> QED BY <2>2, <3>1, NewOK
  <2> QED BY <2>1, <2>2 DEF Init
<1>2. 0 \in Node /\ count = 0 BY <1>1, NodeFacts DEF InitWith, Root
<1>3. \A n \in Node : NodeOK(obj[n], hist[n], count) BY <1>1, <1>2, BlankOK DEF InitWith
<1>4. NodesOK BY <1>1, <1>2, <1>3 DEF NodesOK, InitWith
<1>5. CallOK
  <2>1. call = Idle BY <1>1 DEF InitWith
  <2> QED BY <1>2, <2>1, EmptyAndSingle DEF CallOK, CallType, Idle
<1>6. sets \in 0..MaxSets BY <1>1, ConstantsAssumption DEF InitWith
<1>7. ret \in RetType BY <1>1, <1>2, EmptyAndSingle DEF InitWith, NoRet, RetType
<1> QED BY <1>4, <1>5, <1>6, <1>7, IInvParts

LEMMA DoneType ==
  ASSUME NEW op \in {"none", "value", "value=", "tag_class=", "to_der"}, NEW n \in Node,
         NEW ok \in BOOLEAN, NEW out \in Seq(Token)
  PROVE  Done(op, n, ok, out) \in RetType
  BY DEF Done, RetType

LEMMA NoRetType == NoRet \in RetType
  BY NodeFacts, EmptyAndSingle DEF NoRet, RetType, Root

\* Outside of the encoding of an Array, the record of that call stays sound.
LEMMA IdleCall ==
  ASSUME CallOK, ~call.active, call' = call,
         count \in Nat, count' \in Nat, count <= count'
  PROVE  CallOK'
<1>1. ElementId \subseteq ElementId' BY DEF ElementId
<1> QED BY <1>1 DEF CallOK

\* The record of a call that is over.
LEMMA OverCall ==
  ASSUME NodesOK, call' = Idle
  PROVE  CallOK'
  BY NodeFacts, EmptyAndSingle DEF CallOK, CallType, Idle, Root

LEMMA NewStep ==
  ASSUME IInv, NEW a \in ElemNews, New(a)
  PROVE  IInv'
<1>1. NodesOK /\ CallOK /\ count \in Nat /\ count + 1 \in Node
  BY IInvParts, NodeFacts, ConstantsAssumption DEF New, NodesOK, Node
<1>2. /\ obj' = [obj EXCEPT ![count + 1] = Created(a.value, a.tag, a.sym, a.default_tag)]
      /\ count' = count + 1 /\ hist' = hist /\ call' = call /\ ~call.active
      /\ ret' = NoRet /\ sets' = sets BY DEF New
<1>3. obj' = [m \in Node |-> IF m = count + 1
                             THEN Created(a.value, a.tag, a.sym, a.default_tag)
                             ELSE obj[m]] BY <1>1, <1>2 DEF NodesOK
<1>4. ASSUME NEW m \in Node
      PROVE  NodeOK(obj'[m], hist[m], count + 1)
  <2>1. NodeOK(obj[m], hist[m], count) /\ hist[m] \in HistType BY <1>1 DEF NodesOK, NodeOK
  <2>2. CASE m = count + 1 BY <1>1, <1>3, <2>1, <2>2, NewOK
  <2>3. CASE m # count + 1 BY <1>1, <1>3, <2>1, <2>3, MoreElements
  <2> QED BY <2>2, <2>3
<1>5. NodesOK' BY <1>1, <1>2, <1>3, <1>4 DEF NodesOK
<1>6. CallOK' BY <1>1, <1>2, IdleCall
<1> QED BY <1>2, <1>5, <1>6, IInvParts, IInvAfter, NoRetType

\* Decoding, for value= and for the change to or from an explicit tag.
LEMMA DecodedNode ==
  ASSUME NEW o, NEW h, count \in Nat, NodeOK(o, h, count)
  PROVE  NodeOK(AfterDecode(o), h, count + Len(NewElems(o)))
<1>1. /\ o \in Object /\ h \in HistType /\ CodecInv(o) /\ ArrayInv(o) /\ BytesInv(o)
      /\ o.at_value.ids \in Seq(ElementId)
      /\ ExplicitInv(o, h) /\ TagInv(o, h) /\ MirrorInv(o, h) /\ LengthInv(o, h)
  BY DEF NodeOK, ObjInv, ElementId
<1> DEFINE d == AfterDecode(o)
           k == count + Len(NewElems(o))
<1>2. /\ DecodedOnly(d, o) /\ CodecInv(d) /\ ArrayInv(d) /\ BytesInv(d) /\ LengthInv(d, h)
      /\ d.at_value.ids \in Seq({NilElem} \cup (1..k)) BY <1>1, DecodeInv
<1> HIDE DEF d, k
<1>3. ExplicitInv(d, h) /\ MirrorInv(d, h) BY <1>1, <1>2 DEF DecodedOnly, ExplicitInv, MirrorInv
<1>4. TagInv(d, h) BY <1>1, <1>2 DEF DecodedOnly, TagInv, int_compute_tag
<1> QED BY <1>1, <1>2, <1>3, <1>4 DEF NodeOK, ObjInv, DecodedOnly, d, k

LEMMA GetValueStep ==
  ASSUME IInv, NEW n \in Live, GetValue(n)
  PROVE  IInv'
<1> DEFINE o == obj[n]
           h == [hist[n] EXCEPT !.lost = @ \/ LosesValue(o)]
<1>1. NodesOK /\ CallOK /\ count \in Nat /\ n \in Node /\ n \in 0..count
  BY IInvParts, NodeFacts DEF NodesOK, Live
<1>2. /\ Store(n, AfterDecode(o), NewElems(o))
      /\ StoreHist(hist, n, h, NewElems(o))
      /\ ~call.active /\ call' = call /\ sets' = sets
      /\ ret' = Done("value", n, DecodeOk(o), << >>) BY DEF GetValue
<1>3. NodeOK(o, hist[n], count) /\ o \in Object /\ BytesInv(o) /\ hist[n] \in HistType
  BY <1>1 DEF NodesOK, NodeOK, ObjInv
<1>4. SameFlagsAs(h, hist[n]) /\ \A m \in Node : SameFlagsAs(hist[m], hist[m])
  BY <1>1, <1>3 DEF SameFlagsAs, HistType, NodesOK, NodeOK
<1> HIDE DEF o, h
<1>5. /\ NewElems(o) \in Seq(Elem) /\ Len(NewElems(o)) \in Nat
      /\ \A i \in 1..Len(NewElems(o)) :
           /\ ~NewElems(o)[i].id.cons /\ ~NewElems(o)[i].len.inf
           /\ NewElems(o)[i].len.n = Len(NewElems(o)[i].oct) BY <1>3, NewElemsSound
<1>6. NodeOK(AfterDecode(o), h, count + Len(NewElems(o)))
  BY <1>1, <1>3, <1>4, SameNode, DecodedNode
<1>7. NodesOK' BY <1>1, <1>2, <1>4, <1>5, <1>6, StoreOK
<1>8. CallOK'
  <2>1. count' \in Nat /\ count <= count' BY <1>1, <1>2, <1>5 DEF Store
  <2> QED BY <1>1, <1>2, <2>1, IdleCall
<1>9. ret' \in RetType
  <2>1. DecodeOk(o) \in BOOLEAN BY <1>3 DEF DecodeOk, CanDecode, decodable, Object, Codec
  <2> QED BY <1>1, <1>2, <2>1, DoneType, EmptyAndSingle
<1> QED BY <1>2, <1>7, <1>8, <1>9, IInvParts, IInvAfter

-----------------------------------------------------------------------------
(* The setters.                                                            *)

LEMMA SetterType ==
  ASSUME sets \in 0..MaxSets, SetterCall
  PROVE  sets' \in 0..MaxSets /\ ~call.active
  BY ConstantsAssumption DEF SetterCall

\* A setter that stores one object.
LEMMA SetterStores ==
  ASSUME IInv, NEW n \in Node, NEW o, NEW h, NodeOK(o, h, count), SetterCall,
         obj' = [obj EXCEPT ![n] = o],
         hist' = [StaleAfter(n) EXCEPT ![n] = h],
         count' = count, call' = call, ret' \in RetType
  PROVE  IInv'
<1>1. NodesOK /\ CallOK /\ sets \in 0..MaxSets /\ count \in Nat
  BY IInvParts, NodeFacts DEF NodesOK
<1>2. NodesOK' BY <1>1, StaleSame, UpdateOne
<1>3. CallOK' BY <1>1, SetterType, IdleCall
<1> QED BY <1>1, <1>2, <1>3, SetterType, IInvAfter

\* What a setter finds.
LEMMA SetterFinds ==
  ASSUME IInv, NEW n \in Live
  PROVE  /\ n \in Node /\ n \in 0..count /\ count \in Nat /\ NodesOK
         /\ obj[n] \in Object /\ hist[n] \in HistType
         /\ NodeOK(obj[n], hist[n], count)
         /\ SameFlagsAs(Touched(n), hist[n])
         /\ NodeOK(obj[n], Touched(n), count)
<1>1. n \in Node /\ n \in 0..count /\ count \in Nat /\ NodesOK
  BY IInvParts, NodeFacts DEF NodesOK, Live
<1>2. NodeOK(obj[n], hist[n], count) /\ SameFlagsAs(Touched(n), hist[n])
  BY <1>1, StaleSame DEF NodesOK
<1> QED BY <1>1, <1>2, SameNode DEF NodeOK

LEMMA SetTagStep ==
  ASSUME IInv, NEW n \in Live, NEW tag \in NewTags, SetTag(n, tag)
  PROVE  IInv'
<1> DEFINE o == obj[n]
           p == [int_invalidate_tag(o) EXCEPT !.tag = tag]
           r == [int_asn1_data_update_cb(p) EXCEPT !.modified = TRUE, !.at_tag = tag]
           h == Touched(n)
<1>1. n \in Node /\ o \in Object /\ NodeOK(o, h, count) BY SetterFinds
<1>2. tag \in Tags /\ << >> \in Seq(IdentifierToken) BY ConstantsAssumption, EmptyAndSingle
<1>3. /\ SetterCall /\ obj' = [obj EXCEPT ![n] = r]
      /\ hist' = [StaleAfter(n) EXCEPT ![n] = h]
      /\ ret' = NoRet /\ count' = count /\ call' = call BY DEF SetTag
<1> HIDE DEF o, h
<1>4. /\ p \in Object /\ p.tag_bytes = << >> /\ p.tag = tag
      /\ p.tag_class = o.tag_class /\ p.cons = o.cons /\ p.inf = o.inf
      /\ p.length_bytes = o.length_bytes /\ p.bytes = o.bytes
      /\ p.default_tag = o.default_tag /\ p.explicit = o.explicit
      /\ p.at_tag_class = o.at_tag_class /\ p.at_inf = o.at_inf /\ p.at_value = o.at_value
      /\ p.cb = o.cb /\ p.decoded = o.decoded /\ (~o.cb => p.codec = o.codec)
  BY <1>1, <1>2 DEF int_invalidate_tag, Object
<1> HIDE DEF p
<1>5. /\ r \in Object /\ r.tag_bytes = << >> /\ r.tag = tag /\ r.at_tag = tag
      /\ r.tag_class = o.tag_class /\ r.cons = o.cons /\ r.inf = o.inf
      /\ r.length_bytes = o.length_bytes /\ r.bytes = o.bytes
      /\ r.default_tag = o.default_tag /\ r.explicit = o.explicit
      /\ r.at_tag_class = o.at_tag_class /\ r.at_inf = o.at_inf /\ r.at_value = o.at_value
      /\ r.cb = o.cb /\ r.decoded = o.decoded /\ (~o.cb => r.codec = o.codec)
  <2>1. int_codec_for(p.tag, p.tag_class) \in Codec BY CodecType
  <2> QED BY <1>2, <1>4, <2>1 DEF int_asn1_data_update_cb, Object
<1> HIDE DEF r
<1>6. ObjInv(o, h) /\ h \in HistType /\ o.at_value.ids \in Seq({NilElem} \cup (1..count))
  BY <1>1 DEF NodeOK
<1>7. ObjInv(r, h)
  <2>1. ExplicitInv(r, h) /\ TagInv(r, h) /\ MirrorInv(r, h)
    BY <1>5, <1>6 DEF ObjInv, ExplicitInv, TagInv, MirrorInv
  <2>2. LengthInv(r, h) BY <1>5, <1>6 DEF ObjInv, LengthInv, EncodesToNothing
  <2>3. CodecInv(r) /\ ArrayInv(r) /\ BytesInv(r)
    BY <1>5, <1>6 DEF ObjInv, CodecInv, ArrayInv, BytesInv
  <2> QED BY <2>1, <2>2, <2>3 DEF ObjInv
<1>8. NodeOK(r, h, count) BY <1>5, <1>6, <1>7 DEF NodeOK
<1> QED BY <1>1, <1>3, <1>8, NoRetType, SetterStores

\* The count of unused bits is no part of the invariant but its type.
LEMMA SetUnusedBitsStep ==
  ASSUME IInv, NEW n \in Live, NEW bits \in NewBits, SetUnusedBits(n, bits)
  PROVE  IInv'
<1> DEFINE o == obj[n]
           r == [o EXCEPT !.at_unused_bits = bits]
           g == hist[n]
           h == [g EXCEPT !.touched = TRUE, !.bits = @ \/ (o.decoded /\ ~o.bytes.null)]
<1>1. n \in Node /\ NodesOK /\ o \in Object /\ g \in HistType /\ NodeOK(o, g, count)
  BY SetterFinds
<1>2. /\ SetterCall /\ obj' = [obj EXCEPT ![n] = r]
      /\ ret' = NoRet /\ count' = count /\ call' = call BY DEF SetUnusedBits
<1>3. hist' = [hist EXCEPT ![n] = h] BY <1>1 DEF SetUnusedBits, NodesOK
<1> HIDE DEF o, g
<1>4. SameFlagsAs(h, g) BY <1>1 DEF SameFlagsAs, HistType, Object, Bytes
<1> HIDE DEF h
<1>5. bits \in Bits BY ConstantsAssumption DEF Bits
<1>6. /\ r \in Object
      /\ r.tag = o.tag /\ r.tag_class = o.tag_class /\ r.cons = o.cons /\ r.inf = o.inf
      /\ r.tag_bytes = o.tag_bytes /\ r.length_bytes = o.length_bytes /\ r.bytes = o.bytes
      /\ r.default_tag = o.default_tag /\ r.explicit = o.explicit /\ r.at_tag = o.at_tag
      /\ r.at_tag_class = o.at_tag_class /\ r.at_inf = o.at_inf /\ r.at_value = o.at_value
      /\ r.cb = o.cb /\ r.decoded = o.decoded /\ r.codec = o.codec BY <1>1, <1>5 DEF Object
<1> HIDE DEF r
<1>7. NodeOK(o, h, count) BY <1>1, <1>4, SameNode
<1>8. ObjInv(r, h)
  <2>1. ExplicitInv(r, h) /\ TagInv(r, h) /\ MirrorInv(r, h)
    BY <1>6, <1>7 DEF NodeOK, ObjInv, ExplicitInv, TagInv, MirrorInv, int_compute_tag
  <2>2. LengthInv(r, h) BY <1>6, <1>7 DEF NodeOK, ObjInv, LengthInv, EncodesToNothing
  <2>3. CodecInv(r) /\ ArrayInv(r) /\ BytesInv(r)
    BY <1>6, <1>7 DEF NodeOK, ObjInv, CodecInv, ArrayInv, BytesInv
  <2> QED BY <2>1, <2>2, <2>3 DEF ObjInv
<1>9. NodeOK(r, h, count) BY <1>6, <1>7, <1>8 DEF NodeOK
<1>10. NodesOK'
  <2>1. hist = [m \in Node |-> hist[m]] /\ \A m \in Node : SameFlagsAs(hist[m], hist[m])
    BY <1>1 DEF NodesOK, NodeOK, SameFlagsAs
  <2> QED BY <1>1, <1>2, <1>3, <1>9, <2>1, UpdateOne
<1>11. CallOK'
  <2>1. CallOK /\ sets \in 0..MaxSets /\ count \in Nat BY IInvParts, NodeFacts DEF NodesOK
  <2> QED BY <1>2, <2>1, SetterType, IdleCall
<1> QED BY <1>2, <1>10, <1>11, IInvParts, NoRetType, SetterType, IInvAfter

LEMMA SetInfiniteLengthStep ==
  ASSUME IInv, NEW n \in Live, SetInfiniteLength(n)
  PROVE  IInv'
<1> DEFINE o == obj[n]
           p == int_invalidate_length(o)
           r == [p EXCEPT !.inf = ~o.inf, !.modified = TRUE, !.at_inf = ~o.inf]
           g == Touched(n)
           h == [g EXCEPT !.flip = @ \/ ~o.bytes.null, !.stale = @ /\ n # Root]
<1>1. n \in Node /\ o \in Object /\ NodeOK(o, g, count) BY SetterFinds
<1>2. /\ SetterCall /\ obj' = [obj EXCEPT ![n] = r]
      /\ hist' = [StaleAfter(n) EXCEPT ![n] = h]
      /\ ret' = NoRet /\ count' = count /\ call' = call BY DEF SetInfiniteLength
<1>3. ObjInv(o, g) /\ g \in HistType /\ o.at_value.ids \in Seq({NilElem} \cup (1..count))
  BY <1>1 DEF NodeOK
<1> HIDE DEF o, g
<1>4. h \in HistType /\ h.retag = g.retag /\ (~h.flip => ~g.flip /\ o.bytes.null)
  BY <1>1, <1>3 DEF HistType, Object, Bytes
<1> HIDE DEF h
<1>5. /\ r \in Object /\ r.length_bytes = << >> /\ r.inf = ~o.inf /\ r.at_inf = ~o.inf
      /\ r.tag = o.tag /\ r.tag_class = o.tag_class /\ r.cons = o.cons
      /\ r.tag_bytes = o.tag_bytes /\ r.bytes = o.bytes /\ r.at_tag = o.at_tag
      /\ r.default_tag = o.default_tag /\ r.explicit = o.explicit
      /\ r.at_tag_class = o.at_tag_class /\ r.at_value = o.at_value
      /\ r.cb = o.cb /\ r.decoded = o.decoded
  BY <1>1, EmptyAndSingle DEF int_invalidate_length, Object
<1> HIDE DEF r
<1>6. ObjInv(r, h)
  <2>1. ExplicitInv(r, h) /\ MirrorInv(r, h)
    BY <1>3, <1>4, <1>5 DEF ObjInv, ExplicitInv, MirrorInv
  <2>2. TagInv(r, h) BY <1>3, <1>4, <1>5 DEF ObjInv, TagInv, int_compute_tag
  <2>3. LengthInv(r, h) BY <1>4, <1>5 DEF LengthInv
  <2>4. CodecInv(r) /\ ArrayInv(r) /\ BytesInv(r)
    BY <1>3, <1>5 DEF ObjInv, CodecInv, ArrayInv, BytesInv
  <2> QED BY <2>1, <2>2, <2>3, <2>4 DEF ObjInv
<1>7. NodeOK(r, h, count) BY <1>3, <1>4, <1>5, <1>6 DEF NodeOK
<1> QED BY <1>1, <1>2, <1>7, NoRetType, SetterStores

LEMMA SetValueStep ==
  ASSUME IInv, NEW n \in Live, NEW v \in Value,
         v.ids \in Seq({NilElem} \cup (1..count)), v.kind = "ary" => v.oct = << >>,
         SetValue(n, v)
  PROVE  IInv'
<1> DEFINE isAry == v.kind = "ary"
           o == obj[n]
           p == [int_invalidate_value(o) EXCEPT !.at_value = v, !.modified = TRUE]
           q == [int_invalidate_tag(p) EXCEPT
                   !.cons = isAry, !.codec = int_codec_for(p.tag, p.tag_class)]
           r == IF p.cons = isAry THEN p ELSE q
           g == Touched(n)
           h == Refreshed(g)
<1>1. n \in Node /\ o \in Object /\ NodeOK(o, g, count) BY SetterFinds
<1>2. /\ SetterCall /\ obj' = [obj EXCEPT ![n] = r]
      /\ hist' = [StaleAfter(n) EXCEPT ![n] = h]
      /\ ret' = Done("value=", n, TRUE, <<>>) /\ count' = count /\ call' = call BY DEF SetValue
<1>3. ObjInv(o, g) /\ g \in HistType BY <1>1 DEF NodeOK
<1> HIDE DEF o, g
<1>4. h \in HistType /\ h.retag = g.retag BY <1>3 DEF HistType, Refreshed
<1> HIDE DEF h
<1>5. NoBytes \in Bytes /\ NoBytes.null /\ NoBytes.tok = << >> /\ NoBytes.elems = << >>
  BY EmptyAndSingle DEF NoBytes, Bytes
<1>6. /\ p \in Object /\ p.length_bytes = << >> /\ p.bytes = NoBytes /\ p.at_value = v
      /\ p.inf = o.inf /\ p.at_inf = o.at_inf /\ p.tag_bytes = o.tag_bytes
      /\ p.tag = o.tag /\ p.tag_class = o.tag_class /\ p.cons = o.cons
      /\ p.at_tag = o.at_tag /\ p.default_tag = o.default_tag /\ p.explicit = o.explicit
      /\ p.at_tag_class = o.at_tag_class
      /\ p.cb = o.cb /\ p.decoded = o.decoded
  BY <1>1, <1>5, EmptyAndSingle DEF int_invalidate_value, int_invalidate_length, Object
<1> HIDE DEF p
<1>7. /\ q \in Object /\ q.length_bytes = << >> /\ q.bytes = NoBytes /\ q.at_value = v
      /\ q.inf = o.inf /\ q.at_inf = o.at_inf /\ q.tag_bytes = << >>
      /\ q.tag = o.tag /\ q.tag_class = o.tag_class /\ q.cons = isAry
      /\ q.at_tag = o.at_tag /\ q.default_tag = o.default_tag /\ q.explicit = o.explicit
      /\ q.at_tag_class = o.at_tag_class
      /\ q.cb = o.cb /\ q.decoded = o.decoded
  <2>1. int_codec_for(p.tag, p.tag_class) \in Codec /\ isAry \in BOOLEAN BY CodecType
  <2> QED BY <1>6, <2>1, EmptyAndSingle DEF int_invalidate_tag, Object
<1> HIDE DEF q, isAry
<1>8. /\ r \in Object /\ r.length_bytes = << >> /\ r.bytes = NoBytes /\ r.at_value = v
      /\ r.inf = o.inf /\ r.at_inf = o.at_inf
      /\ r.tag = o.tag /\ r.tag_class = o.tag_class /\ r.cons = isAry
      /\ r.at_tag = o.at_tag /\ r.default_tag = o.default_tag /\ r.explicit = o.explicit
      /\ r.at_tag_class = o.at_tag_class
      /\ r.cb = o.cb /\ r.decoded = o.decoded
      /\ r.tag_bytes = << >> \/ (r.tag_bytes = o.tag_bytes /\ r.cons = o.cons)
  <2>1. CASE p.cons = isAry BY <1>6, <2>1
  <2>2. CASE p.cons # isAry BY <1>7, <2>2
  <2> QED BY <2>1, <2>2
<1> HIDE DEF r
<1>9. ObjInv(r, h)
  <2>1. ExplicitInv(r, h) /\ MirrorInv(r, h)
    BY <1>3, <1>4, <1>5, <1>8 DEF ObjInv, ExplicitInv, MirrorInv
  <2>2. TagInv(r, h) BY <1>3, <1>4, <1>8 DEF ObjInv, TagInv, int_compute_tag
  <2>3. LengthInv(r, h) BY <1>5, <1>8 DEF LengthInv
  <2>4. CodecInv(r) /\ ArrayInv(r) BY <1>3, <1>8 DEF ObjInv, CodecInv, ArrayInv, isAry
  <2>5. BytesInv(r)
    <3>1. r.bytes.tok = << >> /\ << >> \in Seq(Octet) BY <1>5, <1>8, EmptyAndSingle
    <3>2. ElemsSound(r.bytes.elems) BY <1>5, <1>8 DEF ElemsSound
    <3> QED BY <3>1, <3>2 DEF BytesInv
  <2> QED BY <2>1, <2>2, <2>3, <2>4, <2>5 DEF ObjInv
<1>10. NodeOK(r, h, count) BY <1>4, <1>8, <1>9 DEF NodeOK
<1>11. ret' \in RetType BY <1>1, <1>2, DoneType, EmptyAndSingle
<1> QED BY <1>1, <1>2, <1>10, <1>11, SetterStores

LEMMA StoreNone ==
  ASSUME NodesOK, NEW n \in Node, NEW o, Store(n, o, <<>>)
  PROVE  obj' = [obj EXCEPT ![n] = o] /\ count' = count
<1>1. count \in Nat /\ Len(<<>>) = 0 BY NodeFacts DEF NodesOK
<1>2. count' = count BY <1>1 DEF Store
<1>3. \A m \in Node : m \notin (count + 1)..(count + Len(<<>>)) BY <1>1
<1>4. obj' = [m \in Node |-> IF m = n THEN o ELSE obj[m]] BY <1>3 DEF Store
<1> QED BY <1>2, <1>4 DEF NodesOK

\* The object of a tag_class= between its first and its last assignments,
\* and after them.
Reclassed(o, sym)  == [Retagged(o, sym) EXCEPT !.explicit = sym = "EXPLICIT"]
ClassDone(r, sym)  == [r EXCEPT !.modified = TRUE, !.at_tag_class = sym]
DecodedDone(r, sym) == ClassDone(int_invalidate_value(AfterDecode(r)), sym)

LEMMA RetaggedFields ==
  ASSUME NEW o \in Object, NEW sym \in TagClassSymbol
  PROVE  LET r == Reclassed(o, sym)
         IN  /\ r \in Object /\ r.tag_bytes = << >>
             /\ r.tag_class = tag_class_for_id(sym) /\ r.explicit = (sym = "EXPLICIT")
             /\ r.tag = o.tag /\ r.cons = o.cons /\ r.inf = o.inf
             /\ r.length_bytes = o.length_bytes /\ r.bytes = o.bytes
             /\ r.default_tag = o.default_tag /\ r.at_tag = o.at_tag
             /\ r.at_tag_class = o.at_tag_class /\ r.at_inf = o.at_inf
             /\ r.at_value = o.at_value
             /\ r.cb = o.cb /\ r.decoded = o.decoded /\ (~o.cb => r.codec = o.codec)
<1> DEFINE p == [int_invalidate_tag(o) EXCEPT !.tag_class = tag_class_for_id(sym)]
           q == int_asn1_data_update_cb(p)
<1>1. tag_class_for_id(sym) \in TagClass BY TagClassType
<1>2. /\ p \in Object /\ p.tag_bytes = << >> /\ p.tag_class = tag_class_for_id(sym)
      /\ p.tag = o.tag /\ p.cons = o.cons /\ p.inf = o.inf
      /\ p.length_bytes = o.length_bytes /\ p.bytes = o.bytes
      /\ p.default_tag = o.default_tag /\ p.at_tag = o.at_tag
      /\ p.at_tag_class = o.at_tag_class /\ p.at_inf = o.at_inf
      /\ p.at_value = o.at_value
      /\ p.cb = o.cb /\ p.decoded = o.decoded /\ (~o.cb => p.codec = o.codec)
  BY <1>1, EmptyAndSingle DEF int_invalidate_tag, Object
<1> HIDE DEF p
<1>3. int_codec_for(p.tag, p.tag_class) \in Codec BY CodecType
<1>4. /\ q \in Object /\ q.tag_bytes = << >> /\ q.tag_class = tag_class_for_id(sym)
      /\ q.tag = o.tag /\ q.cons = o.cons /\ q.inf = o.inf
      /\ q.length_bytes = o.length_bytes /\ q.bytes = o.bytes
      /\ q.default_tag = o.default_tag /\ q.at_tag = o.at_tag
      /\ q.at_tag_class = o.at_tag_class /\ q.at_inf = o.at_inf
      /\ q.at_value = o.at_value
      /\ q.cb = o.cb /\ q.decoded = o.decoded /\ (~o.cb => q.codec = o.codec)
  BY <1>2, <1>3 DEF int_asn1_data_update_cb, Object
<1>5. q = Retagged(o, sym) BY DEF Retagged, p
<1> HIDE DEF q
<1> QED BY <1>4, <1>5 DEF Object, Reclassed

\* The last assignments of tag_class=.
LEMMA ClassAssigned ==
  ASSUME NEW r \in Object, NEW sym \in TagClassSymbol
  PROVE  LET d == ClassDone(r, sym)
         IN  /\ d \in Object /\ d.tag_bytes = r.tag_bytes /\ d.at_tag_class = sym
             /\ d.tag_class = r.tag_class /\ d.explicit = r.explicit
             /\ d.tag = r.tag /\ d.cons = r.cons /\ d.inf = r.inf
             /\ d.length_bytes = r.length_bytes /\ d.bytes = r.bytes
             /\ d.default_tag = r.default_tag /\ d.at_tag = r.at_tag
             /\ d.at_inf = r.at_inf /\ d.at_value = r.at_value
             /\ d.cb = r.cb /\ d.decoded = r.decoded /\ d.codec = r.codec BY DEF Object, ClassDone

\* The tag class of an object whose explicit tagging stays as it was.
LEMMA RetaggedInv ==
  ASSUME NEW o \in Object, NEW h \in HistType, NEW sym \in TagClassSymbol,
         ObjInv(o, h), sym = "EXPLICIT" => o.default_tag # -1,
         ~TogglesExplicit(o, sym)
  PROVE  LET d == ClassDone(Reclassed(o, sym), sym)
         IN  d \in Object /\ ObjInv(d, h) /\ d.at_value = o.at_value
<1> DEFINE r == Reclassed(o, sym)
           d == ClassDone(r, sym)
<1>1. /\ r \in Object /\ r.tag_bytes = << >>
      /\ r.tag_class = tag_class_for_id(sym) /\ r.explicit = (sym = "EXPLICIT")
      /\ r.tag = o.tag /\ r.cons = o.cons /\ r.inf = o.inf
      /\ r.length_bytes = o.length_bytes /\ r.bytes = o.bytes
      /\ r.default_tag = o.default_tag /\ r.at_tag = o.at_tag
      /\ r.at_tag_class = o.at_tag_class /\ r.at_inf = o.at_inf
      /\ r.at_value = o.at_value
      /\ r.cb = o.cb /\ r.decoded = o.decoded /\ (~o.cb => r.codec = o.codec) BY RetaggedFields
<1>2. o.explicit = (sym = "EXPLICIT") BY DEF TogglesExplicit
<1>3. /\ d \in Object /\ d.tag_bytes = << >> /\ d.at_tag_class = sym
      /\ d.tag_class = tag_class_for_id(sym) /\ d.explicit = (sym = "EXPLICIT")
      /\ d.tag = o.tag /\ d.cons = o.cons /\ d.inf = o.inf
      /\ d.length_bytes = o.length_bytes /\ d.bytes = o.bytes
      /\ d.default_tag = o.default_tag /\ d.at_tag = o.at_tag
      /\ d.at_inf = o.at_inf /\ d.at_value = o.at_value
      /\ d.cb = o.cb /\ d.decoded = o.decoded /\ (~o.cb => d.codec = o.codec)
  BY <1>1, ClassAssigned
<1> HIDE DEF d
<1>4. ExplicitInv(d, h) /\ TagInv(d, h) /\ MirrorInv(d, h)
  BY <1>2, <1>3 DEF ObjInv, ExplicitInv, TagInv, MirrorInv
<1>5. LengthInv(d, h) BY <1>3 DEF ObjInv, LengthInv, EncodesToNothing
<1>6. CodecInv(d) /\ ArrayInv(d) /\ BytesInv(d) BY <1>3 DEF ObjInv, CodecInv, ArrayInv, BytesInv
<1> QED BY <1>3, <1>4, <1>5, <1>6 DEF ObjInv, d

\* The tag class of an object whose explicit tagging changes: it is decoded
\* and loses its bytes, or decoding raises.
LEMMA ToggledInv ==
  ASSUME NEW o, NEW h \in HistType, NEW sym \in TagClassSymbol,
         count \in Nat, NodeOK(o, h, count), sym = "EXPLICIT" => o.default_tag # -1
  PROVE  LET r == Reclassed(o, sym)
             d == DecodedDone(r, sym)
         IN  /\ NewElems(r) \in Seq(Elem)
             /\ \A i \in 1..Len(NewElems(r)) :
                  /\ ~NewElems(r)[i].id.cons /\ ~NewElems(r)[i].len.inf
                  /\ NewElems(r)[i].len.n = Len(NewElems(r)[i].oct)
             /\ NodeOK(d, Refreshed(h), count + Len(NewElems(r)))
             /\ NodeOK(AfterDecode(r), [h EXCEPT !.retag = TRUE], count + Len(NewElems(r)))
             /\ DecodeOk(r) \in BOOLEAN
<1> DEFINE r == Reclassed(o, sym)
           k == count + Len(NewElems(r))
           x == AfterDecode(r)
           y == int_invalidate_value(x)
           d == ClassDone(y, sym)
           g == Refreshed(h)
           f == [h EXCEPT !.retag = TRUE]
<1>1. /\ o \in Object /\ ObjInv(o, h)
      /\ o.at_value.ids \in Seq({NilElem} \cup (1..count)) BY DEF NodeOK
<1>2. /\ r \in Object /\ r.tag_bytes = << >>
      /\ r.tag_class = tag_class_for_id(sym) /\ r.explicit = (sym = "EXPLICIT")
      /\ r.tag = o.tag /\ r.cons = o.cons /\ r.inf = o.inf
      /\ r.length_bytes = o.length_bytes /\ r.bytes = o.bytes
      /\ r.default_tag = o.default_tag /\ r.at_tag = o.at_tag
      /\ r.at_tag_class = o.at_tag_class /\ r.at_inf = o.at_inf
      /\ r.at_value = o.at_value
      /\ r.cb = o.cb /\ r.decoded = o.decoded /\ (~o.cb => r.codec = o.codec)
  BY <1>1, RetaggedFields
<1> HIDE DEF r
<1>3. CodecInv(r) /\ ArrayInv(r) /\ BytesInv(r)
  BY <1>1, <1>2 DEF ObjInv, CodecInv, ArrayInv, BytesInv
<1>4. LengthInv(r, h) BY <1>1, <1>2 DEF ObjInv, LengthInv, EncodesToNothing
<1>5. /\ DecodedOnly(x, r) /\ CodecInv(x) /\ ArrayInv(x) /\ BytesInv(x) /\ LengthInv(x, h)
      /\ x.at_value.ids \in Seq({NilElem} \cup (1..k))
  BY <1>1, <1>2, <1>3, <1>4, DecodeInv DEF ElementId
<1> HIDE DEF x, k
<1>6. /\ g \in HistType /\ g.retag = h.retag
      /\ f \in HistType /\ f.retag = TRUE /\ f.flip = h.flip BY DEF Refreshed, HistType
<1> HIDE DEF g, f
<1>7. NodeOK(x, f, k)
  <2>1. ExplicitInv(x, f) /\ TagInv(x, f) /\ MirrorInv(x, f)
    BY <1>2, <1>5, <1>6 DEF DecodedOnly, ExplicitInv, TagInv, MirrorInv
  <2>2. LengthInv(x, f) BY <1>5, <1>6 DEF LengthInv
  <2> QED BY <1>5, <1>6, <2>1, <2>2 DEF NodeOK, ObjInv, DecodedOnly
<1>8. NoBytes \in Bytes /\ NoBytes.null /\ NoBytes.tok = << >> /\ NoBytes.elems = << >>
  BY EmptyAndSingle DEF NoBytes, Bytes
<1>9. /\ y \in Object /\ y.length_bytes = << >> /\ y.bytes = NoBytes
      /\ y.tag = x.tag /\ y.tag_class = x.tag_class /\ y.cons = x.cons /\ y.inf = x.inf
      /\ y.tag_bytes = x.tag_bytes /\ y.default_tag = x.default_tag
      /\ y.explicit = x.explicit /\ y.at_tag = x.at_tag /\ y.at_inf = x.at_inf
      /\ y.at_value = x.at_value /\ y.cb = x.cb /\ y.decoded = x.decoded
  <2>1. x \in Object BY <1>5 DEF DecodedOnly
  <2> QED BY <1>8, <2>1, EmptyAndSingle DEF int_invalidate_value, int_invalidate_length, Object
<1> HIDE DEF y
<1>10. /\ d \in Object /\ d.length_bytes = << >> /\ d.bytes = NoBytes
       /\ d.tag = o.tag /\ d.tag_class = tag_class_for_id(sym)
       /\ d.cons = x.cons /\ d.inf = o.inf
       /\ d.tag_bytes = << >> /\ d.default_tag = o.default_tag
       /\ d.explicit = (sym = "EXPLICIT") /\ d.at_tag = o.at_tag /\ d.at_inf = o.at_inf
       /\ d.at_value = x.at_value /\ d.at_tag_class = sym
       /\ d.cb = x.cb /\ d.decoded = x.decoded
  <2>1. /\ d \in Object /\ d.length_bytes = << >> /\ d.bytes = NoBytes
        /\ d.tag = y.tag /\ d.tag_class = y.tag_class /\ d.cons = y.cons
        /\ d.inf = y.inf /\ d.tag_bytes = y.tag_bytes /\ d.default_tag = y.default_tag
        /\ d.explicit = y.explicit /\ d.at_tag = y.at_tag /\ d.at_inf = y.at_inf
        /\ d.at_value = y.at_value /\ d.at_tag_class = sym
        /\ d.cb = y.cb /\ d.decoded = y.decoded BY <1>9, ClassAssigned
  <2> QED BY <1>2, <1>5, <1>9, <2>1 DEF DecodedOnly
<1> HIDE DEF d
<1>11. NodeOK(d, g, k)
  <2>1. ExplicitInv(d, g) /\ TagInv(d, g) /\ MirrorInv(d, g)
    BY <1>1, <1>6, <1>8, <1>10 DEF ObjInv, ExplicitInv, TagInv, MirrorInv
  <2>2. LengthInv(d, g) BY <1>8, <1>10 DEF LengthInv
  <2>3. CodecInv(d) /\ ArrayInv(d) BY <1>5, <1>10 DEF CodecInv, ArrayInv
  <2>4. BytesInv(d)
    <3>1. d.bytes.tok = << >> /\ << >> \in Seq(Octet) BY <1>8, <1>10, EmptyAndSingle
    <3>2. ElemsSound(d.bytes.elems) BY <1>8, <1>10 DEF ElemsSound
    <3> QED BY <3>1, <3>2 DEF BytesInv
  <2> QED BY <1>5, <1>6, <1>10, <2>1, <2>2, <2>3, <2>4 DEF NodeOK, ObjInv
<1>12. DecodeOk(r) \in BOOLEAN BY <1>2 DEF DecodeOk, CanDecode, decodable, Object, Codec
<1>13. /\ NewElems(r) \in Seq(Elem)
       /\ \A i \in 1..Len(NewElems(r)) :
            /\ ~NewElems(r)[i].id.cons /\ ~NewElems(r)[i].len.inf
            /\ NewElems(r)[i].len.n = Len(NewElems(r)[i].oct) BY <1>2, <1>3, NewElemsSound
<1> QED BY <1>7, <1>11, <1>12, <1>13 DEF d, x, y, k, g, f, r, DecodedDone

LEMMA SetTagClassStep ==
  ASSUME IInv, NEW n \in Live, NEW sym \in TagClassSymbol, SetTagClass(n, sym)
  PROVE  IInv'
<1> DEFINE o == obj[n]
           r == Reclassed(o, sym)
           g == Touched(n)
<1>1. /\ n \in Node /\ n \in 0..count /\ count \in Nat /\ NodesOK /\ CallOK
      /\ o \in Object /\ NodeOK(o, g, count) /\ SameFlagsAs(g, hist[n])
      /\ sets \in 0..MaxSets BY SetterFinds, IInvParts
<1>2. /\ SetterCall /\ call' = call
      /\ sym = "EXPLICIT" => o.default_tag # -1 BY DEF SetTagClass
<1>8. SetTagClass(n, sym) =>
        \/ /\ ~TogglesExplicit(o, sym)
           /\ Store(n, ClassDone(r, sym), <<>>)
           /\ hist' = [StaleAfter(n) EXCEPT ![n] = g]
           /\ ret' = NoRet
        \/ /\ TogglesExplicit(o, sym) /\ DecodeOk(r)
           /\ Store(n, DecodedDone(r, sym), NewElems(r))
           /\ StoreHist(StaleAfter(n), n,
                        [Refreshed(g) EXCEPT !.lost = @ \/ LosesValue(r)], NewElems(r))
           /\ ret' = NoRet
        \/ /\ TogglesExplicit(o, sym) /\ ~DecodeOk(r)
           /\ Store(n, AfterDecode(r), <<>>)
           /\ hist' = [StaleAfter(n) EXCEPT ![n] = [g EXCEPT !.retag = TRUE,
                                                     !.lost = @ \/ LosesValue(r)]]
           /\ ret' = Done("tag_class=", n, FALSE, <<>>)
  BY DEF SetTagClass, Reclassed, ClassDone, DecodedDone
<1> HIDE DEF o, r, g
<1>3. g \in HistType /\ ObjInv(o, g) /\ o.at_value.ids \in Seq({NilElem} \cup (1..count))
  BY <1>1 DEF NodeOK
<1>4. CASE /\ ~TogglesExplicit(o, sym)
           /\ Store(n, ClassDone(r, sym), <<>>)
           /\ hist' = [StaleAfter(n) EXCEPT ![n] = g]
           /\ ret' = NoRet
  <2>1. ClassDone(r, sym) \in Object /\ ObjInv(ClassDone(r, sym), g) /\ ClassDone(r, sym).at_value = o.at_value
    BY <1>1, <1>2, <1>3, <1>4, RetaggedInv DEF r
  <2>2. NodeOK(ClassDone(r, sym), g, count) BY <1>3, <2>1 DEF NodeOK
  <2>3. obj' = [obj EXCEPT ![n] = ClassDone(r, sym)] /\ count' = count BY <1>1, <1>4, StoreNone
  <2> QED BY <1>1, <1>2, <1>4, <2>2, <2>3, NoRetType, SetterStores
<1>5. /\ NewElems(r) \in Seq(Elem)
      /\ \A i \in 1..Len(NewElems(r)) :
           /\ ~NewElems(r)[i].id.cons /\ ~NewElems(r)[i].len.inf
           /\ NewElems(r)[i].len.n = Len(NewElems(r)[i].oct)
      /\ NodeOK(DecodedDone(r, sym), Refreshed(g), count + Len(NewElems(r)))
      /\ NodeOK(AfterDecode(r), [g EXCEPT !.retag = TRUE], count + Len(NewElems(r)))
      /\ DecodeOk(r) \in BOOLEAN BY <1>1, <1>2, <1>3, ToggledInv DEF r
<1>6. CASE /\ TogglesExplicit(o, sym) /\ DecodeOk(r)
           /\ Store(n, DecodedDone(r, sym), NewElems(r))
           /\ StoreHist(StaleAfter(n), n,
                        [Refreshed(g) EXCEPT !.lost = @ \/ LosesValue(r)], NewElems(r))
           /\ ret' = NoRet
  <2> DEFINE h == [Refreshed(g) EXCEPT !.lost = @ \/ LosesValue(r)]
             d == DecodedDone(r, sym)
  <2>1. SameFlagsAs(h, Refreshed(g))
    <3>1. Refreshed(g) \in HistType BY <1>3 DEF HistType, Refreshed
    <3> QED BY <3>1 DEF HistType, SameFlagsAs
  <2>2. NodeOK(d, Refreshed(g), count + Len(NewElems(r))) BY <1>5
  <2>3. Store(n, d, NewElems(r)) /\ StoreHist(StaleAfter(n), n, h, NewElems(r)) BY <1>6
  <2> HIDE DEF h, d
  <2>4. NodeOK(d, h, count + Len(NewElems(r))) BY <2>1, <2>2, SameNode
  <2>5. \A m \in Node : SameFlagsAs(StaleAfter(n)[m], hist[m]) BY <1>1, StaleSame
  <2>6. NodesOK' BY <1>1, <1>5, <2>3, <2>4, <2>5, StoreOK
  <2>7. CallOK'
    <3>1. count' \in Nat /\ count <= count' BY <1>1, <1>5, <2>3 DEF Store
    <3> QED BY <1>1, <1>2, <3>1, SetterType, IdleCall
  <2> QED BY <1>1, <1>2, <1>6, <2>6, <2>7, NoRetType, SetterType, IInvAfter
<1>7. CASE /\ TogglesExplicit(o, sym) /\ ~DecodeOk(r)
           /\ Store(n, AfterDecode(r), <<>>)
           /\ hist' = [StaleAfter(n) EXCEPT ![n] = [g EXCEPT !.retag = TRUE,
                                                     !.lost = @ \/ LosesValue(r)]]
           /\ ret' = Done("tag_class=", n, FALSE, <<>>)
  <2> DEFINE f == [g EXCEPT !.retag = TRUE]
             h == [g EXCEPT !.retag = TRUE, !.lost = @ \/ LosesValue(r)]
  <2>1. SameFlagsAs(h, f) BY <1>3 DEF HistType, SameFlagsAs
  <2>2. NewElems(r) = << >> BY <1>7 DEF DecodeOk, NewElems
  <2>3. NodeOK(AfterDecode(r), f, count) BY <1>1, <1>5, <2>2
  <2>4. obj' = [obj EXCEPT ![n] = AfterDecode(r)] /\ count' = count BY <1>1, <1>7, StoreNone
  <2>5. hist' = [StaleAfter(n) EXCEPT ![n] = h] BY <1>7
  <2>6. ret' \in RetType BY <1>1, <1>7, DoneType, EmptyAndSingle
  <2> HIDE DEF h, f
  <2>7. NodeOK(AfterDecode(r), h, count) BY <2>1, <2>3, SameNode
  <2> QED BY <1>1, <1>2, <2>4, <2>5, <2>6, <2>7, SetterStores
<1> QED BY <1>4, <1>6, <1>7, <1>8

-----------------------------------------------------------------------------
(* Encoding.                                                               *)

\* Encoding an object keeps everything the invariant says of it.
LEMMA EncodedNode ==
  ASSUME NEW o, NEW h, NEW k, NodeOK(o, h, k)
  PROVE  /\ NodeOK(EncodeScalar(o).obj, h, k)
         /\ EncodeScalar(o).ok \in BOOLEAN /\ EncodeScalar(o).out \in Seq(Token)
         /\ KeepsValue(EncodeScalar(o).obj, o)
<1>1. /\ EncodeScalar(o) \in Attempt
      /\ ObjInv(EncodeScalar(o).obj, h)
      /\ KeepsValue(EncodeScalar(o).obj, o) BY EncodeScalarInv DEF NodeOK
<1> QED BY <1>1 DEF NodeOK, Attempt, KeepsValue

LEMMA ModifiedNode ==
  ASSUME NEW o, NEW h, NEW k, NodeOK(o, h, k), NEW b \in BOOLEAN
  PROVE  /\ NodeOK([o EXCEPT !.modified = b], h, k)
         /\ [o EXCEPT !.modified = b].cons = o.cons
         /\ [o EXCEPT !.modified = b].bytes = o.bytes BY ModifiedInv DEF NodeOK

LEMMA HeaderOnlyNode ==
  ASSUME NEW o, NEW r, NEW h, NEW k, NodeOK(o, h, k), HeaderOnly(r, o), o.bytes.null, o.cons
  PROVE  NodeOK(r, h, k) /\ r.bytes.null /\ r.cons
  BY HeaderOnlyInv DEF NodeOK, HeaderOnly

\* An object with an Array, when its encoding starts.
LEMMA ArrayNode ==
  ASSUME NEW o, NEW h, NEW k, NodeOK(o, h, k), o.bytes.null, o.at_value.kind = "ary"
  PROVE  /\ o.cons
         /\ NodeOK(HeaderFirst(Outer(o)), h, k)
         /\ HeaderFirst(Outer(o)).bytes.null /\ HeaderFirst(Outer(o)).cons
         /\ HeaderFirst(Outer(o)).at_value = o.at_value
<1>1. o \in Object /\ h \in HistType /\ ObjInv(o, h) /\ o.cons BY DEF NodeOK, ObjInv, ArrayInv
<1>2. /\ Outer(o) \in Object /\ ObjInv(Outer(o), h) /\ Outer(o).bytes.null
      /\ Outer(o).cons /\ Outer(o).at_value = o.at_value BY <1>1, OuterInv
<1>3. NodeOK(Outer(o), h, k) BY <1>1, <1>2 DEF NodeOK
<1>4. HeaderOnly(HeaderFirst(Outer(o)), Outer(o)) BY <1>2, HeaderFirstOnly
<1> QED BY <1>1, <1>2, <1>3, <1>4, HeaderOnlyNode DEF HeaderOnly

LEMMA ToDerScalarStep ==
  ASSUME IInv, NEW n \in Live, ToDerScalar(n)
  PROVE  IInv'
<1> DEFINE r == EncodeScalar(obj[n])
<1>1. n \in Node /\ count \in Nat /\ NodesOK /\ CallOK /\ sets \in 0..MaxSets
      /\ NodeOK(obj[n], hist[n], count) BY SetterFinds, IInvParts
<1>2. NodeOK(r.obj, hist[n], count) /\ r.ok \in BOOLEAN /\ r.out \in Seq(Token)
  BY <1>1, EncodedNode
<1>3. /\ obj' = [obj EXCEPT ![n] = r.obj]
      /\ ret' = Done("to_der", n, r.ok, r.out)
      /\ count' = count /\ sets' = sets /\ call' = call /\ hist' = hist /\ ~call.active
  BY DEF ToDerScalar
<1> HIDE DEF r
<1>4. obj' = [m \in Node |-> IF m = n THEN r.obj ELSE obj[m]] BY <1>1, <1>3 DEF NodesOK
<1>5. \A m \in Node : NodeOK(IF m = n THEN r.obj ELSE obj[m], hist[m], count)
  BY <1>1, <1>2 DEF NodesOK
<1>6. NodesOK'
  <2> DEFINE f == [m \in Node |-> IF m = n THEN r.obj ELSE obj[m]]
  <2>1. \A m \in Node : f[m] = IF m = n THEN r.obj ELSE obj[m] OBVIOUS
  <2>2. obj' = [m \in Node |-> f[m]] BY <1>4, <2>1
  <2>3. \A m \in Node : NodeOK(f[m], hist[m], count) BY <1>5, <2>1
  <2> HIDE DEF f
  <2> QED BY <1>1, <1>3, <2>2, <2>3, UpdateObjects
<1>7. CallOK' BY <1>1, <1>3, IdleCall
<1>8. ret' \in RetType BY <1>1, <1>2, <1>3, DoneType
<1> QED BY <1>1, <1>3, <1>6, <1>7, <1>8, IInvAfter

\* A step of the encoder stores objects and leaves the histories alone.
LEMMA EncoderStores ==
  ASSUME IInv, NEW f, obj' = [m \in Node |-> f[m]],
         \A m \in Node : NodeOK(f[m], hist[m], count),
         hist' = hist, count' = count, sets' = sets, ret' \in RetType, CallOK'
  PROVE  IInv'
  BY IInvParts, UpdateObjects, IInvAfter

\* What an encoder finds: EXCEPT and EncodedElems are functions on Node.
LEMMA EncoderFinds ==
  ASSUME IInv
  PROVE  /\ NodesOK /\ CallOK /\ count \in Nat /\ ret \in RetType /\ << >> \in Seq(Token)
         /\ \A m \in Node : NodeOK(obj[m], hist[m], count)
         /\ \A n \in Node : \A o : [obj EXCEPT ![n] = o] = [m \in Node |-> IF m = n THEN o ELSE obj[m]]
         /\ Live \subseteq Node BY IInvParts, NodeFacts, EmptyAndSingle DEF NodesOK, Live

LEMMA SortedType ==
  ASSUME NEW S, NEW ids \in Seq(S), NEW order \in SortedOrders(ids)
  PROVE  order \in Seq(S)
<1>1. PICK p \in [DOMAIN ids -> DOMAIN ids] : order = [i \in DOMAIN ids |-> ids[p[i]]]
  BY DEF SortedOrders
<1>2. DOMAIN ids = 1..Len(ids) /\ Len(ids) \in Nat /\ \A i \in DOMAIN ids : ids[i] \in S OBVIOUS
<1> QED BY <1>1, <1>2

\* Sorting replaces the Array.
LEMMA SortedNode ==
  ASSUME NEW o, NEW h, NEW k \in Nat, NodeOK(o, h, k), o.cons, o.bytes.null,
         NEW order \in Seq({NilElem} \cup (1..k))
  PROVE  /\ NodeOK(int_cons_sort_set(o, order), h, k)
         /\ int_cons_sort_set(o, order).cons /\ int_cons_sort_set(o, order).bytes.null
<1> DEFINE p == int_cons_sort_set(o, order)
<1>1. o \in Object /\ h \in HistType /\ ObjInv(o, h) BY DEF NodeOK
<1>2. order \in Seq(Int) BY DEF NilElem
<1>3. Ary(order) \in Value /\ Ary(order).ids = order /\ Ary(order).oct = << >>
  BY <1>2, ValueTypes DEF Ary
<1>4. /\ p \in Object /\ p.at_value = Ary(order)
      /\ p.cons = o.cons /\ p.bytes = o.bytes /\ p.inf = o.inf
      /\ p.tag = o.tag /\ p.tag_class = o.tag_class
      /\ p.explicit = o.explicit /\ p.default_tag = o.default_tag
      /\ p.tag_bytes = o.tag_bytes /\ p.length_bytes = o.length_bytes
      /\ p.at_tag = o.at_tag /\ p.at_tag_class = o.at_tag_class /\ p.at_inf = o.at_inf
      /\ p.cb = o.cb /\ p.decoded = o.decoded BY <1>1, <1>3 DEF int_cons_sort_set, Object
<1> HIDE DEF p
<1>5. ExplicitInv(p, h) /\ MirrorInv(p, h) BY <1>1, <1>4 DEF ObjInv, ExplicitInv, MirrorInv
<1>6. TagInv(p, h) BY <1>1, <1>4 DEF ObjInv, TagInv, int_compute_tag
<1>7. LengthInv(p, h) BY <1>4 DEF LengthInv
<1>8. CodecInv(p) /\ ArrayInv(p) /\ BytesInv(p)
  BY <1>1, <1>3, <1>4 DEF ObjInv, CodecInv, ArrayInv, BytesInv
<1> QED BY <1>1, <1>3, <1>4, <1>5, <1>6, <1>7, <1>8 DEF NodeOK, ObjInv, p

LEMMA ToDerBeginStep ==
  ASSUME IInv, NEW n \in Live, ToDerBegin(n)
  PROVE  IInv'
<1> DEFINE o     == obj[n]
           ids   == o.at_value.ids
           sorts == SortsElements(Holder(o)) /\ Len(ids) > 1
           x     == HeaderFirst(Outer(o))
<1>1. n \in Node /\ count \in Nat /\ NodesOK /\ NodeOK(o, hist[n], count) BY EncoderFinds
<1>2. /\ o.bytes.null /\ o.at_value.kind = "ary"
      /\ count' = count /\ sets' = sets /\ ret' = ret /\ hist' = hist BY DEF ToDerBegin
<1>3. PICK order \in IF sorts THEN SortedOrders(ids) ELSE {ids} :
        /\ obj' = [obj EXCEPT ![n] = int_cons_sort_set(x, order)]
        /\ call' = [active |-> TRUE, n |-> n, ids |-> order, i |-> 1, buf |-> <<>>]
  BY DEF ToDerBegin
<1>4. ids \in Seq({NilElem} \cup (1..count)) BY <1>1 DEF NodeOK
<1> HIDE DEF ids, sorts
<1>5. order \in Seq({NilElem} \cup (1..count)) BY <1>3, <1>4, SortedType
<1>6. NodeOK(x, hist[n], count) /\ x.bytes.null /\ x.cons BY <1>1, <1>2, ArrayNode
<1> HIDE DEF x
<1> DEFINE y == int_cons_sort_set(x, order)
<1>7. NodeOK(y, hist[n], count) /\ y.cons /\ y.bytes.null BY <1>1, <1>5, <1>6, SortedNode
<1> DEFINE f == [m \in Node |-> IF m = n THEN y ELSE obj[m]]
<1>8. obj' = [m \in Node |-> f[m]] BY <1>1, <1>3, EncoderFinds
<1> HIDE DEF y
<1>9. \A m \in Node : NodeOK(f[m], hist[m], count) BY <1>1, <1>7, EncoderFinds
<1>10. CallOK'
  <2>1. order \in Seq(Int) /\ order \in Seq(ElementId')
    BY <1>1, <1>2, <1>5 DEF ElementId, NilElem
  <2>2. obj'[call'.n].cons /\ obj'[call'.n].bytes.null BY <1>1, <1>3, <1>7, <1>8
  <2> QED BY <1>1, <1>3, <2>1, <2>2, EmptyAndSingle DEF CallOK, CallType
<1> HIDE DEF f
<1> QED BY <1>2, <1>8, <1>9, <1>10, EncoderFinds, EncoderStores

LEMMA ToDerRefusedStep ==
  ASSUME IInv, NEW n \in Live, ToDerRefused(n)
  PROVE  IInv'
<1> DEFINE o == obj[n]
           x == IF o.explicit THEN HeaderFirst(Outer(o)) ELSE o
           y == [x EXCEPT !.modified = FALSE]
           f == [m \in Node |-> IF m = n THEN y ELSE obj[m]]
<1>1. n \in Node /\ count \in Nat /\ NodesOK /\ CallOK /\ NodeOK(o, hist[n], count)
  BY EncoderFinds
<1>2. /\ o.bytes.null /\ o.at_value.kind = "ary" /\ ~call.active /\ call' = call
      /\ count' = count /\ sets' = sets /\ hist' = hist
      /\ ret' = Done("to_der", n, FALSE, <<>>) /\ obj' = [obj EXCEPT ![n] = y]
  BY DEF ToDerRefused
<1>3. NodeOK(x, hist[n], count) BY <1>1, <1>2, ArrayNode
<1> HIDE DEF x
<1>4. NodeOK(y, hist[n], count) BY <1>3, ModifiedNode
<1> HIDE DEF y
<1>5. obj' = [m \in Node |-> f[m]] BY <1>1, <1>2, EncoderFinds
<1>6. \A m \in Node : NodeOK(f[m], hist[m], count) BY <1>1, <1>4, EncoderFinds
<1> HIDE DEF f
<1>7. ret' \in RetType /\ CallOK'
  <2>1. ret' \in RetType BY <1>1, <1>2, DoneType, EncoderFinds
  <2>2. CallOK' BY <1>1, <1>2, IdleCall
  <2> QED BY <2>1, <2>2
<1> QED BY <1>2, <1>5, <1>6, <1>7, EncoderStores

\* Elements that were encoded.
LEMMA ElemsEncoded ==
  ASSUME IInv, NEW S
  PROVE  /\ EncodedElems(S) = [m \in Node |-> EncodedElems(S)[m]]
         /\ \A m \in Node : /\ NodeOK(EncodedElems(S)[m], hist[m], count)
                            /\ KeepsValue(EncodedElems(S)[m], obj[m])
<1>1. \A m \in Node : EncodedElems(S)[m] = IF m \in S THEN EncodeScalar(obj[m]).obj
                                           ELSE obj[m] BY DEF EncodedElems
<1>2. \A m \in Node : /\ NodeOK(EncodeScalar(obj[m]).obj, hist[m], count)
                      /\ KeepsValue(EncodeScalar(obj[m]).obj, obj[m])
  BY EncoderFinds, EncodedNode
<1>3. \A m \in Node : KeepsValue(obj[m], obj[m]) BY DEF KeepsValue
<1>4. EncodedElems(S) = [m \in Node |-> EncodedElems(S)[m]] BY DEF EncodedElems
<1> QED BY <1>1, <1>2, <1>3, <1>4, EncoderFinds

LEMMA ToDerSortRaisesStep ==
  ASSUME IInv, NEW n \in Live, ToDerSortRaises(n)
  PROVE  IInv'
<1> DEFINE o == obj[n]
           x == HeaderFirst(Outer(o))
<1>1. n \in Node /\ count \in Nat /\ NodesOK /\ CallOK /\ NodeOK(o, hist[n], count)
  BY EncoderFinds
<1>2. /\ o.bytes.null /\ o.at_value.kind = "ary" /\ ~call.active /\ call' = call
      /\ count' = count /\ sets' = sets /\ hist' = hist
      /\ ret' = Done("to_der", n, FALSE, <<>>) BY DEF ToDerSortRaises
<1>3. PICK S : obj' = [EncodedElems(S) EXCEPT ![n] = x] BY DEF ToDerSortRaises
<1>4. NodeOK(x, hist[n], count) BY <1>1, <1>2, ArrayNode
<1> HIDE DEF x
<1> DEFINE f == [m \in Node |-> IF m = n THEN x ELSE EncodedElems(S)[m]]
<1>5. EncodedElems(S) = [m \in Node |-> EncodedElems(S)[m]] BY ElemsEncoded
<1>6. obj' = [m \in Node |-> f[m]] BY <1>3, <1>5
<1>7. \A m \in Node : NodeOK(f[m], hist[m], count) BY <1>4, ElemsEncoded
<1> HIDE DEF f
<1>8. ret' \in RetType /\ CallOK'
  <2>1. ret' \in RetType BY <1>1, <1>2, DoneType, EncoderFinds
  <2>2. CallOK' BY <1>1, <1>2, IdleCall
  <2> QED BY <2>1, <2>2
<1> QED BY <1>2, <1>6, <1>7, <1>8, EncoderStores

LEMMA EncodeElementStep ==
  ASSUME IInv, EncodeElement
  PROVE  IInv'
<1> DEFINE id == call.ids[call.i]
           f  == EncodedElems({id})
<1>1. /\ call.active /\ call.i <= Len(call.ids) /\ Encodes(id)
      /\ obj' = f
      /\ call' = [call EXCEPT !.i = @ + 1, !.buf = @ \o EncodeScalar(obj[id]).out]
      /\ count' = count /\ sets' = sets /\ ret' = ret /\ hist' = hist BY DEF EncodeElement
<1>2. /\ call \in CallType /\ call.ids \in Seq(ElementId) /\ count \in Nat
      /\ call.n \in Node /\ obj[call.n].cons /\ obj[call.n].bytes.null
  BY <1>1, EncoderFinds DEF CallOK, CallType
<1>3. id \in Node
  <2>1. id \in ElementId BY <1>1, <1>2 DEF CallType
  <2>2. id # NilElem BY <1>1 DEF Encodes
  <2>3. 0..count \subseteq Node BY NodeFacts, EncoderFinds DEF NodesOK
  <2> QED BY <1>2, <2>1, <2>2, <2>3 DEF ElementId
<1>4. EncodeScalar(obj[id]).out \in Seq(Token) BY <1>3, EncoderFinds, EncodedNode
<1> HIDE DEF id
<1>5. /\ obj' = [m \in Node |-> f[m]]
      /\ \A m \in Node : NodeOK(f[m], hist[m], count) /\ KeepsValue(f[m], obj[m])
  BY <1>1, ElemsEncoded
<1> HIDE DEF f
<1>6. CallOK'
  <2>1. call' \in CallType /\ call'.ids = call.ids /\ call'.n = call.n
    <3> DEFINE buf == call.buf \o EncodeScalar(obj[id]).out
    <3>1. buf \in Seq(Token) /\ call.i + 1 \in Nat \ {0} BY <1>2, <1>4 DEF CallType
    <3>2. call' = [call EXCEPT !.i = @ + 1, !.buf = buf] BY <1>1
    <3> HIDE DEF buf
    <3> QED BY <1>2, <3>1, <3>2 DEF CallType
  <2>2. ElementId' = ElementId BY <1>1 DEF ElementId
  <2>3. obj'[call.n].cons /\ obj'[call.n].bytes.null BY <1>2, <1>5 DEF KeepsValue
  <2> QED BY <1>2, <2>1, <2>2, <2>3 DEF CallOK
<1> QED BY <1>1, <1>5, <1>6, EncoderFinds, EncoderStores

LEMMA EncodeElementFailsStep ==
  ASSUME IInv, EncodeElementFails
  PROVE  IInv'
<1> DEFINE id == call.ids[call.i]
           e  == EncodedElems({id})
           b  == e[call.n].modified /\ RaisesTypeError(obj[id])
           x  == [e[call.n] EXCEPT !.modified = b]
<1>1. /\ obj' = IF id = NilElem THEN obj ELSE [e EXCEPT ![call.n].modified = b]
      /\ call' = Idle /\ ret' = Done("to_der", call.n, FALSE, <<>>)
      /\ count' = count /\ sets' = sets /\ hist' = hist BY DEF EncodeElementFails
<1>2. call.n \in Node /\ NodesOK BY EncoderFinds DEF CallOK, CallType
<1>3. ret' \in RetType BY <1>1, <1>2, DoneType, EncoderFinds
<1>4. /\ e = [m \in Node |-> e[m]]
      /\ \A m \in Node : NodeOK(e[m], hist[m], count) BY ElemsEncoded
<1>5. NodeOK(x, hist[call.n], count)
  <2>1. b \in BOOLEAN OBVIOUS
  <2> HIDE DEF e, b
  <2> QED BY <1>2, <1>4, <2>1, ModifiedNode DEF x
<1> HIDE DEF id, e, b
<1>6. NodesOK'
  <2>1. CASE id = NilElem BY <1>1, <1>2, <2>1 DEF NodesOK
  <2>2. CASE id # NilElem
    <3> DEFINE f == [m \in Node |-> IF m = call.n THEN x ELSE e[m]]
    <3>1. obj' = [m \in Node |-> f[m]] BY <1>1, <1>2, <1>4, <2>2
    <3> HIDE DEF x
    <3>2. \A m \in Node : NodeOK(f[m], hist[m], count) BY <1>4, <1>5
    <3> HIDE DEF f
    <3> QED BY <1>1, <1>2, <3>1, <3>2, UpdateObjects
  <2> QED BY <2>1, <2>2
<1>7. CallOK' BY <1>1, <1>2, <1>6, EmptyAndSingle, NodeFacts DEF CallOK, CallType, Idle, Root
<1> QED BY <1>1, <1>3, <1>6, <1>7, IInvParts, IInvAfter

LEMMA ToDerEndStep ==
  ASSUME IInv, ToDerEnd
  PROVE  IInv'
<1> DEFINE n == call.n
           o == obj[n]
           w == Written(o, call.ids, call.buf)
           r == int_asn1_cons_encode_to(o, TRUE, w)
           y == [r.obj EXCEPT !.modified = FALSE]
           f == [m \in Node |-> IF m = n THEN y ELSE obj[m]]
<1>1. /\ call.active /\ call' = Idle
      /\ obj' = [obj EXCEPT ![n] = y]
      /\ ret' = Done("to_der", n, r.ok, r.out)
      /\ count' = count /\ sets' = sets /\ hist' = hist BY DEF ToDerEnd
<1>2. /\ n \in Node /\ NodesOK /\ o.cons /\ o.bytes.null /\ call.buf \in Seq(Token)
      /\ NodeOK(o, hist[n], count) BY <1>1, EncoderFinds DEF CallOK, CallType
<1>3. o \in Object /\ (o.explicit => o.default_tag # -1) BY <1>2 DEF NodeOK, ObjInv, ExplicitInv
<1>4. w \in Seq(Token)
  <2>1. CASE o.explicit
    <3> DEFINE inner == int_asn1_cons_encode_to(Wrapper(o), TRUE, call.buf)
    <3>1. Wrapper(o) \in Object
      <4>1. o.at_value \in Value /\ o.default_tag \in Tags BY <1>3, <2>1 DEF Object
      <4> QED BY <4>1, CreatedType DEF Wrapper, TagClassSymbol
    <3>2. inner \in Attempt BY <1>2, <3>1, ConsEncodeType
    <3>3. inner.out \in Seq(Token) BY <3>2 DEF Attempt
    <3> HIDE DEF inner
    <3>4. WithEoc(o, inner.out) \in Seq(Token) BY <3>3, EocType DEF WithEoc
    <3> QED BY <2>1, <3>4 DEF Written, inner
  <2>2. CASE ~o.explicit BY <1>2, <2>2, EocType DEF Written
  <2> QED BY <2>1, <2>2
<1> HIDE DEF n, o, w
<1>5. r \in Attempt /\ HeaderOnly(r.obj, o) BY <1>3, <1>4, ConsEncodeType, ConsEncodeOnly
<1>6. r.ok \in BOOLEAN /\ r.out \in Seq(Token) BY <1>5 DEF Attempt
<1> HIDE DEF r
<1>7. NodeOK(y, hist[n], count)
  <2>1. NodeOK(r.obj, hist[n], count) BY <1>2, <1>5, HeaderOnlyNode
  <2> QED BY <2>1, ModifiedNode
<1>8. obj' = [m \in Node |-> f[m]] BY <1>1, <1>2, EncoderFinds
<1> HIDE DEF y
<1>9. \A m \in Node : NodeOK(f[m], hist[m], count) BY <1>7, EncoderFinds
<1>10. ret' \in RetType BY <1>1, <1>2, <1>6, DoneType
<1>11. CallOK' BY <1>1, <1>2, EmptyAndSingle, NodeFacts DEF CallOK, CallType, Idle, Root
<1> HIDE DEF f
<1> QED BY <1>1, <1>8, <1>9, <1>10, <1>11, EncoderStores

LEMMA ToDerEndRaisesStep ==
  ASSUME IInv, ToDerEndRaises
  PROVE  IInv'
<1>1. /\ call' = Idle /\ ret' = Done("to_der", call.n, FALSE, <<>>)
      /\ obj' = obj /\ count' = count /\ sets' = sets /\ hist' = hist BY DEF ToDerEndRaises
<1>2. call.n \in Node /\ NodesOK BY EncoderFinds DEF CallOK, CallType
<1>3. NodesOK' BY <1>1, <1>2 DEF NodesOK
<1>4. ret' \in RetType BY <1>1, <1>2, DoneType, EncoderFinds
<1>5. CallOK' BY <1>1, <1>2, EmptyAndSingle, NodeFacts DEF CallOK, CallType, Idle, Root
<1> QED BY <1>1, <1>3, <1>4, <1>5, IInvParts, IInvAfter

-----------------------------------------------------------------------------
(* The theorems.                                                           *)

LEMMA StutterStep ==
  ASSUME IInv, UNCHANGED vars
  PROVE  IInv'
<1>1. NodesOK' /\ CallOK' BY IInvParts DEF vars, NodesOK, CallOK, ElementId
<1> QED BY <1>1, IInvParts, IInvAfter DEF vars

LEMMA ArraysType ==
  ASSUME count \in Nat, NEW v \in Arrays
  PROVE  /\ v \in Value /\ v.ids \in Seq({NilElem} \cup (1..count))
         /\ v.kind = "ary" => v.oct = << >>
<1>1. PICK s : v = Ary(s) /\ \E k \in 0..count : s \in [1..k -> 1..count] BY DEF Arrays
<1>2. s \in Seq(1..count) /\ s \in Seq(Int) /\ s \in Seq({NilElem} \cup (1..count)) BY <1>1
<1> QED BY <1>1, <1>2, ValueTypes DEF Ary

\* Every call on every object keeps the invariant.
LEMMA NextIInv == IInv /\ [Next]_vars => IInv'
<1> SUFFICES ASSUME IInv, [Next]_vars
             PROVE  IInv'
  OBVIOUS
<1>1. ASSUME NEW a \in ElemNews, New(a)
      PROVE  IInv'
  BY <1>1, NewStep
<1>2. ASSUME NEW n \in Live, GetValue(n)
      PROVE  IInv'
  BY <1>2, GetValueStep
<1>3. ASSUME NEW n \in Live, NEW t \in NewTags, SetTag(n, t)
      PROVE  IInv'
  BY <1>3, SetTagStep
<1>4. ASSUME NEW n \in Live, NEW sym \in TagClassSymbol, SetTagClass(n, sym)
      PROVE  IInv'
  BY <1>4, SetTagClassStep
<1>5. ASSUME NEW n \in Live, SetInfiniteLength(n)
      PROVE  IInv'
  BY <1>5, SetInfiniteLengthStep
<1>6. ASSUME NEW n \in Live, NEW v \in NewValues, SetValue(n, v)
      PROVE  IInv'
  <2>1. v \in Value /\ v.kind # "ary" /\ v.ids \in Seq({NilElem} \cup (1..count))
    BY ConstantsAssumption, EmptyAndSingle
  <2> QED BY <1>6, <2>1, SetValueStep
<1>7. ASSUME NEW n \in Live, ToDerScalar(n)
      PROVE  IInv'
  BY <1>7, ToDerScalarStep
<1>8. ASSUME NEW n \in Live, ToDerBegin(n)
      PROVE  IInv'
  BY <1>8, ToDerBeginStep
<1>9. ASSUME NEW n \in Live, ToDerRefused(n)
      PROVE  IInv'
  BY <1>9, ToDerRefusedStep
<1>10. ASSUME NEW n \in Live, ToDerSortRaises(n)
       PROVE  IInv'
  BY <1>10, ToDerSortRaisesStep
<1>11. ASSUME NEW v \in Arrays, SetValue(Root, v)
       PROVE  IInv'
  <2>1. Root \in Live /\ count \in Nat BY EncoderFinds DEF Root, Live
  <2> QED BY <1>11, <2>1, ArraysType, SetValueStep
<1>12. ASSUME NEW n \in Live, NEW bits \in NewBits, SetUnusedBits(n, bits)
       PROVE  IInv'
  BY <1>12, SetUnusedBitsStep
<1> QED BY <1>1, <1>2, <1>3, <1>4, <1>5, <1>6, <1>7, <1>8, <1>9, <1>10, <1>11, <1>12,
  EncodeElementStep, EncodeElementFailsStep, ToDerEndStep, ToDerEndRaisesStep,
  StutterStep DEF Next

\* The inductive invariant holds in every state a program can bring its
\* objects to.
THEOREM InductiveInvariant == Spec => []IInv
  BY InitIInv, NextIInv, PTL DEF Spec

\* Every variable keeps its type; in particular Arrays name objects that
\* exist, whatever was truncated when they were decoded.
THEOREM TypeCorrect == Spec => []TypeOK
<1>1. IInv => TypeOK BY DEF IInv
<1> QED BY <1>1, InductiveInvariant, PTL

\* Cached identifier octets describe the header, after any sequence of
\* setters, decodes and encodings, finished or not: int_invalidate_tag is
\* called wherever it must be.
THEOREM TagCacheIsFresh == Spec => []TagCacheFresh
<1>1. IInv => TagCacheFresh BY DEF IInv, ObjInv, TagInv, TagCacheFresh
<1> QED BY <1>1, InductiveInvariant, PTL

\* Cached length octets describe the cached value bytes they go out with,
\* unless infinite_length= changed over cached bytes.
THEOREM LengthCacheIsFresh == Spec => []LengthCacheFresh
<1>1. IInv => LengthCacheFresh BY DEF IInv, ObjInv, LengthInv, LengthCacheFresh
<1> QED BY <1>1, InductiveInvariant, PTL

\* The attributes a program reads are those of the header that will be
\* encoded, unless a tag_class= raised half way.
THEOREM AttributesAreMirrored == Spec => []AttributesMirrorHeader
<1>1. IInv => AttributesMirrorHeader BY DEF IInv, ObjInv, MirrorInv, AttributesMirrorHeader
<1> QED BY <1>1, InductiveInvariant, PTL

-----------------------------------------------------------------------------
(* Sequences of sequences put together.                                    *)

\* Numbers that are in a set have a first one: the form in which induction
\* over the octets and elements of a value is used below.
LEMMA FirstOfNumbers ==
  ASSUME NEW S, S \subseteq Nat, S # {}
  PROVE  \E i \in S : \A j \in S : i <= j
<1> DEFINE T == {1..i : i \in S}
<1>1. \A i \in Nat : 1..i \in FiniteSubsetsOf(Nat) BY FS_Interval, 1 \in Int DEF FiniteSubsetsOf
<1>2. T \subseteq FiniteSubsetsOf(Nat) /\ T # {} BY <1>1
<1>3. PICK t \in T : \A r \in T : ~(<< r, t >> \in StrictSubsetOrdering(Nat))
  BY <1>2, WFMin, FS_StrictSubsetOrderingWellFounded
<1>4. PICK i \in S : t = 1..i OBVIOUS
<1>5. ASSUME NEW j \in S, j < i
      PROVE  FALSE
  <2>1. 1..j \subseteq 1..i /\ i \in 1..i /\ i \notin 1..j BY <1>5
  <2>2. << 1..j, 1..i >> \in StrictSubsetOrdering(Nat) BY <2>1 DEF StrictSubsetOrdering
  <2> QED BY <1>3, <1>4, <2>2
<1> QED BY <1>5

\* FlattenSeq puts a sequence of sequences together from the left: f[i] is what
\* the first i come to.
IsFlat(f, s) == f = [i \in 1..Len(s) |-> IF i = 1 THEN s[i] ELSE f[i - 1] \o s[i]]

Flattens(f, s, n) ==
  \A i \in 1..n : f[i] = IF i = 1 THEN s[i] ELSE f[i - 1] \o s[i]

\* The first n of a sequence of sequences can be put together.
LEMMA FlatExists ==
  ASSUME NEW T, NEW s \in Seq(Seq(T)), NEW n \in 1..Len(s)
  PROVE  \E f \in [1..n -> Seq(T)] : Flattens(f, s, n)
<1> DEFINE Good(m) == \E f \in [1..m -> Seq(T)] : Flattens(f, s, m)
           Bad == {m \in 1..Len(s) : ~Good(m)}
<1> SUFFICES ASSUME ~Good(n)
             PROVE  FALSE
  OBVIOUS
<1>1. Bad \subseteq Nat /\ Bad # {} OBVIOUS
<1>2. PICK m \in Bad : \A j \in Bad : m <= j BY <1>1, FirstOfNumbers
<1>3. m \in 1..Len(s) /\ s[m] \in Seq(T) /\ s[1] \in Seq(T) /\ ~Good(m) OBVIOUS
<1>4. CASE m = 1
  <2> DEFINE f == [i \in 1..1 |-> s[1]]
  <2>1. f \in [1..m -> Seq(T)] BY <1>3, <1>4
  <2>2. Flattens(f, s, m) BY <1>4 DEF Flattens
  <2> QED BY <1>3, <2>1, <2>2
<1>5. CASE m # 1
  <2>1. m - 1 \in 1..Len(s) /\ m - 1 \notin Bad
    <3>1. Len(s) \in Nat /\ m \in 1..Len(s) BY <1>3
    <3>2. m - 1 \in 1..Len(s) /\ ~(m <= m - 1) BY <1>5, <3>1
    <3> HIDE DEF Bad
    <3> QED BY <1>2, <3>2
  <2>2. PICK g \in [1..(m - 1) -> Seq(T)] : Flattens(g, s, m - 1) BY <2>1
  <2> DEFINE f == [i \in 1..m |-> IF i = m THEN g[m - 1] \o s[m] ELSE g[i]]
  <2>3. f \in [1..m -> Seq(T)]
    <3>1. g[m - 1] \o s[m] \in Seq(T) BY <1>3, <1>5
    <3>2. \A i \in 1..m : i # m => g[i] \in Seq(T) BY <1>3
    <3> QED BY <3>1, <3>2
  <2>4. Flattens(f, s, m)
    <3>1. ASSUME NEW i \in 1..m
          PROVE  f[i] = IF i = 1 THEN s[i] ELSE f[i - 1] \o s[i]
      <4>1. CASE i = m
        <5>1. m - 1 \in 1..m /\ m - 1 # m BY <1>3, <1>5
        <5> QED BY <1>5, <4>1, <5>1
      <4>2. CASE i # m
        <5>1. i \in 1..(m - 1) /\ f[i] = g[i] BY <4>2, <1>3
        <5>2. i # 1 => i - 1 \in 1..m /\ i - 1 # m BY <1>3, <4>2
        <5> QED BY <2>2, <5>1, <5>2 DEF Flattens
      <4> QED BY <4>1, <4>2
    <3> HIDE DEF f
    <3> QED BY <3>1 DEF Flattens
  <2> HIDE DEF f
  <2> QED BY <1>3, <2>3, <2>4
<1> QED BY <1>4, <1>5

\* There is one way to put them together.
LEMMA FlatUnique ==
  ASSUME NEW s, NEW n \in Nat, NEW f, NEW g, Flattens(f, s, n), Flattens(g, s, n)
  PROVE  \A i \in 1..n : f[i] = g[i]
<1> DEFINE Bad == {i \in 1..n : f[i] # g[i]}
<1> SUFFICES ASSUME Bad # {}
             PROVE  FALSE
  OBVIOUS
<1>1. Bad \subseteq Nat OBVIOUS
<1>2. PICK i \in Bad : \A j \in Bad : i <= j BY <1>1, FirstOfNumbers
<1>3. i \in 1..n /\ f[i] # g[i] OBVIOUS
<1>4. /\ f[i] = IF i = 1 THEN s[i] ELSE f[i - 1] \o s[i]
      /\ g[i] = IF i = 1 THEN s[i] ELSE g[i - 1] \o s[i] BY <1>3 DEF Flattens
<1>5. i # 1 BY <1>3, <1>4
<1>6. i - 1 \in 1..n /\ i - 1 \notin Bad BY <1>2, <1>3, <1>5
<1> QED BY <1>3, <1>4, <1>5, <1>6

\* FlattenSeq is the last of what such an f gives.
LEMMA FlattenIs ==
  ASSUME NEW T, NEW s \in Seq(Seq(T)), s # << >>,
         NEW f \in [1..Len(s) -> Seq(T)], Flattens(f, s, Len(s))
  PROVE  FlattenSeq(s) = f[Len(s)]
<1> DEFINE g == CHOOSE h : IsFlat(h, s)
<1>1. Len(s) \in Nat /\ Len(s) # 0 /\ Len(s) \in 1..Len(s) BY EmptySeq
<1>2. FlattenSeq(s) = g[Len(s)] BY <1>1 DEF FlattenSeq, IsFlat
<1>3. IsFlat(f, s) BY DEF IsFlat, Flattens
<1>4. IsFlat(g, s) BY <1>3
<1> HIDE DEF g
<1>5. Flattens(g, s, Len(s)) BY <1>4 DEF IsFlat, Flattens
<1> QED BY <1>1, <1>2, <1>5, FlatUnique

\* Sequences over T put together are a sequence over T.
LEMMA FlattenType ==
  ASSUME NEW T, NEW s \in Seq(Seq(T))
  PROVE  FlattenSeq(s) \in Seq(T)
<1>1. CASE s = << >> BY <1>1 DEF FlattenSeq
<1>2. CASE s # << >>
  <2>1. Len(s) \in 1..Len(s) BY <1>2, EmptySeq
  <2>2. PICK f \in [1..Len(s) -> Seq(T)] : Flattens(f, s, Len(s)) BY <2>1, FlatExists
  <2>3. FlattenSeq(s) = f[Len(s)] BY <1>2, <2>2, FlattenIs
  <2> QED BY <2>1, <2>3
<1> QED BY <1>1, <1>2

\* Nothing put together is nothing.
LEMMA FlattenEmpty == FlattenSeq(<< >>) = << >>
  BY DEF FlattenSeq

\* One sequence more is put at the end.
LEMMA FlattenAppend ==
  ASSUME NEW T, NEW s \in Seq(Seq(T)), NEW e \in Seq(T)
  PROVE  FlattenSeq(Append(s, e)) = FlattenSeq(s) \o e
<1> DEFINE t == Append(s, e)
           n == Len(s)
<1>1. /\ t \in Seq(Seq(T)) /\ Len(t) = n + 1 /\ n \in Nat /\ t # << >>
      /\ t[n + 1] = e
      /\ \A i \in 1..n : t[i] = s[i]
  <2>1. \A S : \A x \in Seq(S), y \in S :
          /\ Append(x, y) \in Seq(S) /\ Len(Append(x, y)) = Len(x) + 1 /\ Len(x) \in Nat
          /\ Append(x, y) # << >> /\ Append(x, y)[Len(x) + 1] = y
          /\ \A i \in 1..Len(x) : Append(x, y)[i] = x[i] OBVIOUS
  <2> QED BY <2>1
<1>2. CASE s = << >>
  <2> DEFINE f == [i \in 1..1 |-> e]
  <2>1. n = 0 /\ Len(t) = 1 /\ t[1] = e BY <1>1, <1>2
  <2>2. f \in [1..Len(t) -> Seq(T)] BY <2>1
  <2>3. Flattens(f, t, Len(t)) BY <2>1 DEF Flattens
  <2>4. FlattenSeq(t) = f[Len(t)] BY <1>1, <2>2, <2>3, FlattenIs
  <2>5. FlattenSeq(t) = e BY <2>1, <2>4
  <2>6. << >> \o e = e OBVIOUS
  <2> QED BY <1>2, <2>5, <2>6, FlattenEmpty
<1>3. CASE s # << >>
  <2>1. n \in 1..Len(s) BY <1>3, EmptySeq
  <2>2. PICK f \in [1..n -> Seq(T)] : Flattens(f, s, n) BY <2>1, FlatExists
  <2> DEFINE g == [i \in 1..(n + 1) |-> IF i = n + 1 THEN f[n] \o e ELSE f[i]]
  <2>3. g \in [1..Len(t) -> Seq(T)]
    <3>1. f[n] \o e \in Seq(T) BY <2>1
    <3>2. ASSUME NEW i \in 1..(n + 1), i # n + 1
          PROVE  f[i] \in Seq(T)
      <4>1. i \in 1..n
        <5>1. n \in Nat BY <1>1
        <5> HIDE DEF n
        <5> QED BY <3>2, <5>1
      <4> QED BY <2>2, <4>1
    <3> QED BY <1>1, <3>1, <3>2
  <2>4. Flattens(g, t, Len(t))
    <3>1. ASSUME NEW i \in 1..(n + 1)
          PROVE  g[i] = IF i = 1 THEN t[i] ELSE g[i - 1] \o t[i]
      <4>1. CASE i = n + 1
        <5>1. n \in 1..(n + 1) /\ n # n + 1 /\ i # 1 /\ i - 1 = n BY <1>1, <2>1, <4>1
        <5> QED BY <1>1, <4>1, <5>1
      <4>2. CASE i # n + 1
        <5>1. i \in 1..n /\ g[i] = f[i] /\ t[i] = s[i] BY <4>2, <1>1
        <5>2. i # 1 => i - 1 \in 1..(n + 1) /\ i - 1 # n + 1 BY <1>1, <4>2
        <5> QED BY <2>2, <5>1, <5>2 DEF Flattens
      <4> QED BY <4>1, <4>2
    <3> HIDE DEF g, t, n
    <3> QED BY <3>1, <1>1 DEF Flattens
  <2>5. FlattenSeq(t) = g[Len(t)] BY <1>1, <2>3, <2>4, FlattenIs
  <2>6. FlattenSeq(s) = f[n] BY <1>3, <2>2, FlattenIs
  <2> QED BY <1>1, <2>5, <2>6
<1> QED BY <1>2, <1>3

-----------------------------------------------------------------------------
(* What an encoding attempt returns, and what it leaves behind.            *)

TagFor(o, cons) ==
  IF o.tag_bytes = << >> THEN << Identifier(o.tag, o.tag_class, cons) >> ELSE o.tag_bytes

Computed(inf, n) == << IF inf THEN LengthOctets(0, TRUE, FALSE) ELSE LengthOctets(n, FALSE, FALSE) >>

LengthFor(o, n) == IF o.length_bytes = << >> THEN Computed(o.inf, n) ELSE o.length_bytes

\* All but the cached octets, the length, the constructed bit and the
\* modified flag.
SameIdentity(q, o) ==
  /\ q.tag = o.tag /\ q.tag_class = o.tag_class /\ q.inf = o.inf
  /\ q.codec = o.codec /\ q.default_tag = o.default_tag /\ q.cb = o.cb
  /\ q.decoded = o.decoded /\ q.explicit = o.explicit
  /\ q.at_tag = o.at_tag /\ q.at_tag_class = o.at_tag_class /\ q.at_inf = o.at_inf
  /\ q.at_value = o.at_value /\ q.at_unused_bits = o.at_unused_bits

Headed(q, o, n) == q.tag_bytes = TagFor(o, o.cons) /\ q.length_bytes = LengthFor(o, n)

Unheaded(q, o) == q.tag_bytes = o.tag_bytes /\ q.length_bytes = o.length_bytes

\* The identifier and length octets that an encoding writes are octets of the
\* model, and there are some of each.
LEMMA HeaderParts ==
  ASSUME NEW o \in Object, NEW cons \in BOOLEAN, NEW n \in Nat
  PROVE  /\ TagFor(o, cons) \in Seq(IdentifierToken) /\ TagFor(o, cons) \in Seq(Token)
         /\ TagFor(o, cons) # << >>
         /\ Computed(o.inf, n) \in Seq(LengthToken) /\ Len(Computed(o.inf, n)) = 1
         /\ Computed(o.inf, n) # << >>
         /\ LengthFor(o, n) \in Seq(LengthToken) /\ LengthFor(o, n) \in Seq(Token)
         /\ LengthFor(o, n) # << >>
<1>1. Identifier(o.tag, o.tag_class, cons) \in IdentifierToken
  BY DEF Identifier, IdentifierToken, Object
<1>2. /\ LengthOctets(0, TRUE, FALSE) \in LengthToken
      /\ LengthOctets(n, FALSE, FALSE) \in LengthToken BY DEF LengthOctets, LengthToken
<1>3. \A S : \A x \in S : << x >> \in Seq(S) /\ Len(<< x >>) = 1 /\ << x >> # << >> OBVIOUS
<1>4. o.tag_bytes \in Seq(IdentifierToken) /\ o.length_bytes \in Seq(LengthToken) BY DEF Object
<1>5. TagFor(o, cons) \in Seq(IdentifierToken) /\ TagFor(o, cons) # << >>
  BY <1>1, <1>3, <1>4 DEF TagFor
<1>6. /\ Computed(o.inf, n) \in Seq(LengthToken) /\ Len(Computed(o.inf, n)) = 1
      /\ Computed(o.inf, n) # << >> BY <1>2, <1>3 DEF Computed
<1>7. LengthFor(o, n) \in Seq(LengthToken) /\ LengthFor(o, n) # << >> BY <1>4, <1>6 DEF LengthFor
<1> QED BY <1>5, <1>6, <1>7, TokenSeqs

\* krypt_asn1_header_encode caches the header it writes and leaves all else.
LEMMA HeaderEncoded ==
  ASSUME NEW o \in Object
  PROVE  LET q == krypt_asn1_header_encode(o)
         IN  /\ q \in Object /\ SameIdentity(q, o) /\ Headed(q, o, o.length)
             /\ q.cons = o.cons /\ q.bytes = o.bytes /\ q.modified = o.modified
             /\ q.length = o.length
<1> DEFINE q == krypt_asn1_header_encode(o)
<1>1. q \in Object BY HeaderType
<1>2. q.tag_bytes = TagFor(o, o.cons)
  BY DEF krypt_asn1_header_encode, TagFor, Object, int_compute_tag
<1>3. q.length_bytes = LengthFor(o, o.length)
  BY DEF krypt_asn1_header_encode, LengthFor, Computed, Object, int_compute_length
<1>4. SameIdentity(q, o) /\ q.cons = o.cons /\ q.bytes = o.bytes /\ q.modified = o.modified
      /\ q.length = o.length BY DEF krypt_asn1_header_encode, SameIdentity, Object
<1> QED BY <1>1, <1>2, <1>3, <1>4 DEF Headed

\* Encoded writes the header and then the content.
LEMMA EncodedAs ==
  ASSUME NEW o \in Object, NEW c \in Seq(Token)
  PROVE  LET r == Encoded(o, c)
         IN  /\ r.ok = TRUE
             /\ r.out = TagFor(o, o.cons) \o LengthFor(o, o.length) \o c
             /\ r.obj = krypt_asn1_header_encode(o)
  BY HeaderEncoded DEF Encoded, HeaderTokens, Headed

PrimOk(o, v) == PrimValid(o, v) /\ bits_encodable(o.codec, o.at_unused_bits)

EncodedValue(o, v) == encoder(o.codec, o.at_unused_bits, v)

\* int_asn1_prim_encode_to writes the header of the value it encodes and caches
\* both, or raises and leaves the object alone.
LEMMA PrimEffect ==
  ASSUME NEW o \in Object, NEW v \in Value
  PROVE  LET r == int_asn1_prim_encode_to(o, v)
             e == EncodedValue(o, v)
         IN  /\ r.ok = PrimOk(o, v)
             /\ r.obj \in Object /\ SameIdentity(r.obj, o)
             /\ r.obj.cons = o.cons /\ r.obj.modified = o.modified
             /\ PrimOk(o, v) =>
                  /\ e \in Bytes /\ e.tok \in Seq(Octet) /\ e.tok \in Seq(Token)
                  /\ r.out = TagFor(o, o.cons) \o LengthFor(o, Len(e.tok)) \o e.tok
                  /\ Headed(r.obj, o, Len(e.tok)) /\ r.obj.bytes = e
             /\ ~PrimOk(o, v) => r.out = << >> /\ r.obj = o
<1> DEFINE r == int_asn1_prim_encode_to(o, v)
           e == EncodedValue(o, v)
           p == [o EXCEPT !.bytes = e, !.length = Len(e.tok)]
<1>0. PrimOk(o, v) \in BOOLEAN BY DEF PrimOk
<1>1. CASE ~PrimOk(o, v)
  <2>1. r = Failed(o) BY <1>1 DEF int_asn1_prim_encode_to, PrimOk
  <2>2. Failed(o).ok = FALSE /\ Failed(o).obj = o /\ Failed(o).out = << >> BY DEF Failed
  <2>3. SameIdentity(o, o) BY DEF SameIdentity
  <2>4. r.ok = FALSE /\ r.obj = o /\ r.out = << >> BY <2>1, <2>2
  <2> HIDE DEF r
  <2> QED BY <1>0, <1>1, <2>3, <2>4 DEF r
<1>2. CASE PrimOk(o, v)
  <2>1. e \in Bytes /\ e.tok \in Seq(Octet) BY <1>2, EncoderType DEF PrimOk, EncodedValue
  <2>2. Len(e.tok) \in Nat /\ e.tok \in Seq(Token) BY <2>1, TokenSeqs
  <2>3. r = krypt_asn1_object_encode(p) BY <1>2 DEF int_asn1_prim_encode_to, PrimOk, EncodedValue
  <2> HIDE DEF e
  <2>4. /\ p \in Object /\ SameIdentity(p, o) /\ p.bytes = e /\ p.length = Len(e.tok)
        /\ p.cons = o.cons /\ p.modified = o.modified /\ Unheaded(p, o)
    BY <2>1, <2>2 DEF Object, SameIdentity, Unheaded
  <2> HIDE DEF p
  <2>5. TagFor(p, p.cons) = TagFor(o, o.cons) /\ LengthFor(p, p.length) = LengthFor(o, Len(e.tok))
    BY <2>4 DEF TagFor, LengthFor, Unheaded, SameIdentity
  <2>6. r = Encoded(p, e.tok) BY <2>3, <2>4 DEF krypt_asn1_object_encode
  <2>7. r.obj = krypt_asn1_header_encode(p) /\ r.ok = TRUE
        /\ r.out = TagFor(o, o.cons) \o LengthFor(o, Len(e.tok)) \o e.tok
    BY <2>2, <2>4, <2>5, <2>6, EncodedAs
  <2>8. /\ r.obj \in Object /\ SameIdentity(r.obj, p) /\ Headed(r.obj, p, p.length)
        /\ r.obj.cons = p.cons /\ r.obj.bytes = p.bytes /\ r.obj.modified = p.modified
    BY <2>4, <2>7, HeaderEncoded
  <2> HIDE DEF r
  <2>9. SameIdentity(r.obj, o) /\ r.obj.cons = o.cons /\ r.obj.modified = o.modified
        /\ r.obj.bytes = e BY <2>4, <2>8 DEF SameIdentity
  <2>10. Headed(r.obj, o, Len(e.tok)) BY <2>4, <2>5, <2>8 DEF Headed
  <2>11. r.ok = PrimOk(o, v) BY <1>0, <1>2, <2>7
  <2> QED BY <1>2, <2>1, <2>2, <2>7, <2>8, <2>9, <2>10, <2>11 DEF e, r
<1> QED BY <1>1, <1>2

\* HeaderFirst caches a header only when the length is known before the content
\* is.
LEMMA HeaderFirstEffect ==
  ASSUME NEW o \in Object, NEW n \in Nat
  PROVE  LET q == HeaderFirst(o)
         IN  /\ q \in Object /\ SameIdentity(q, o)
             /\ q.cons = o.cons /\ q.bytes = o.bytes /\ q.modified = o.modified
             /\ IF o.length_bytes # << >> \/ o.inf THEN Headed(q, o, n) ELSE q = o
<1>1. CASE o.length_bytes # << >> \/ o.inf
  <2>1. LengthFor(o, o.length) = LengthFor(o, n) BY <1>1 DEF LengthFor, Computed
  <2>2. HeaderFirst(o) = krypt_asn1_header_encode(o) BY <1>1 DEF HeaderFirst
  <2> QED BY <1>1, <2>1, <2>2, HeaderEncoded DEF Headed
<1>2. CASE ~(o.length_bytes # << >> \/ o.inf) BY <1>2 DEF HeaderFirst, SameIdentity
<1> QED BY <1>1, <1>2

ConsResult(r, o, ok, c) ==
  /\ r.ok = (ok /\ ~BarredConstructed(o))
  /\ r.obj \in Object /\ SameIdentity(r.obj, o)
  /\ r.obj.cons = o.cons /\ r.obj.bytes = o.bytes /\ r.obj.modified = o.modified
  /\ r.ok => /\ r.out = TagFor(o, o.cons) \o LengthFor(o, Len(c)) \o c
             /\ Headed(r.obj, o, Len(c))
  /\ ~r.ok => /\ r.out = << >>
              /\ \/ r.obj = o
                 \/ /\ o.length_bytes # << >> \/ o.inf
                    /\ Headed(r.obj, o, Len(c))

\* int_asn1_cons_encode_to writes the header and the elements it is given, and
\* when the elements raise it may leave the header behind.
LEMMA ConsEffect ==
  ASSUME NEW o \in Object, NEW ok \in BOOLEAN, NEW c \in Seq(Token)
  PROVE  ConsResult(int_asn1_cons_encode_to(o, ok, c), o, ok, c)
<1> DEFINE r == int_asn1_cons_encode_to(o, ok, c)
<1>0. Len(c) \in Nat OBVIOUS
<1>1. \A x : Failed(x).ok = FALSE /\ Failed(x).obj = x /\ Failed(x).out = << >> BY DEF Failed
<1>2. CASE BarredConstructed(o)
  <2>1. r = Failed(o) BY <1>2 DEF int_asn1_cons_encode_to
  <2> QED BY <1>1, <1>2, <2>1 DEF SameIdentity, ConsResult
<1>3. CASE ~BarredConstructed(o) /\ ~ok
  <2>1. r = Failed(HeaderFirst(o)) BY <1>3 DEF int_asn1_cons_encode_to
  <2>2. r.ok = FALSE /\ r.obj = HeaderFirst(o) /\ r.out = << >> BY <1>1, <2>1
  <2>3. /\ r.obj \in Object /\ SameIdentity(r.obj, o)
        /\ r.obj.cons = o.cons /\ r.obj.bytes = o.bytes /\ r.obj.modified = o.modified
        /\ IF o.length_bytes # << >> \/ o.inf THEN Headed(r.obj, o, Len(c)) ELSE r.obj = o
    BY <1>0, <2>2, HeaderFirstEffect
  <2> HIDE DEF r
  <2> QED BY <1>3, <2>2, <2>3 DEF r, ConsResult
<1>4. CASE ~BarredConstructed(o) /\ ok
  <2> DEFINE p == IF o.length_bytes = <<>> /\ ~o.inf THEN [o EXCEPT !.length = Len(c)] ELSE o
  <2>1. r = Encoded(p, c) BY <1>4 DEF int_asn1_cons_encode_to
  <2>2. /\ p \in Object /\ SameIdentity(p, o) /\ Unheaded(p, o)
        /\ p.cons = o.cons /\ p.bytes = o.bytes /\ p.modified = o.modified
        /\ o.length_bytes = <<>> /\ ~o.inf => p.length = Len(c)
    BY <1>0 DEF Object, SameIdentity, Unheaded
  <2> HIDE DEF p
  <2>3. TagFor(p, p.cons) = TagFor(o, o.cons) /\ LengthFor(p, p.length) = LengthFor(o, Len(c))
    BY <2>2 DEF TagFor, LengthFor, Computed, Unheaded, SameIdentity
  <2>4. /\ r.obj = krypt_asn1_header_encode(p) /\ r.ok = TRUE
        /\ r.out = TagFor(o, o.cons) \o LengthFor(o, Len(c)) \o c BY <2>1, <2>2, <2>3, EncodedAs
  <2>5. /\ r.obj \in Object /\ SameIdentity(r.obj, p) /\ Headed(r.obj, p, p.length)
        /\ r.obj.cons = p.cons /\ r.obj.bytes = p.bytes /\ r.obj.modified = p.modified
    BY <2>2, <2>4, HeaderEncoded
  <2> HIDE DEF r
  <2>6. SameIdentity(r.obj, o) /\ r.obj.cons = o.cons /\ r.obj.modified = o.modified
        /\ r.obj.bytes = o.bytes BY <2>2, <2>5 DEF SameIdentity
  <2>7. Headed(r.obj, o, Len(c)) BY <2>2, <2>3, <2>5 DEF Headed
  <2> QED BY <1>4, <2>4, <2>5, <2>6, <2>7 DEF r, ConsResult
<1> QED BY <1>2, <1>3, <1>4

Wrapped(o) == int_asn1_prim_encode_to(Wrapper(o), o.at_value)

\* int_asn1_encode_to: whether the value of an object encodes, what it encodes
\* to, and the length of that.
ScalarOk(o) ==
  \/ ~o.bytes.null
  \/ o.bytes.null /\ o.explicit /\ ~BarredConstructed(o) /\ Wrapped(o).ok
  \/ o.bytes.null /\ ~o.explicit /\ o.cons /\ ~BarredConstructed(o) /\ HasNoElements(o)
  \/ o.bytes.null /\ ~o.explicit /\ ~o.cons /\ PrimOk(o, o.at_value)

ScalarContent(o) ==
  CASE ~o.bytes.null -> o.bytes.tok
    [] o.bytes.null /\ o.explicit -> WithEoc(o, Wrapped(o).out)
    [] o.bytes.null /\ ~o.explicit /\ o.cons -> << >>
    [] OTHER -> EncodedValue(o, o.at_value).tok

ScalarLength(o) == IF o.bytes.null THEN Len(ScalarContent(o)) ELSE o.length

ScalarCons(o) == o.cons \/ (o.explicit /\ o.bytes.null)

\* The header that an encoding caches.
HeaderOf(q, o) ==
  /\ q.tag_bytes = TagFor(o, ScalarCons(o))
  /\ q.length_bytes = LengthFor(o, ScalarLength(o))

ScalarEffect(r, o) ==
  LET q == r.obj IN
  /\ r.ok = ScalarOk(o)
  /\ q \in Object /\ SameIdentity(q, o)
  /\ q.cons = ScalarCons(o)
  /\ q.bytes = IF o.bytes.null /\ ~o.explicit /\ ~o.cons /\ ScalarOk(o)
               THEN EncodedValue(o, o.at_value) ELSE o.bytes
  /\ q.modified = (o.modified /\ (o.bytes.null => RaisesTypeError(o)))
  /\ ScalarOk(o) => /\ ScalarContent(o) \in Seq(Token)
                    /\ HeaderOf(q, o)
                    /\ r.out = q.tag_bytes \o q.length_bytes \o ScalarContent(o)
  /\ ~ScalarOk(o) => /\ r.out = << >>
                     /\ \/ Unheaded(q, o)
                        \/ /\ o.length_bytes # << >> \/ o.inf
                           /\ ScalarCons(o) /\ o.bytes.null
                           /\ HeaderOf(q, o)

\* The UNIVERSAL object behind an explicit tag encodes to octets.
LEMMA WrappedType ==
  ASSUME NEW o \in Object, o.explicit, o.default_tag # -1
  PROVE  /\ Wrapper(o) \in Object /\ o.at_value \in Value
         /\ Wrapped(o) \in Attempt
         /\ WithEoc(o, Wrapped(o).out) \in Seq(Token)
         /\ ~o.inf => WithEoc(o, Wrapped(o).out) = Wrapped(o).out
<1>1. o.at_value \in Value BY DEF Object
<1>2. Wrapper(o) \in Object BY <1>1, CreatedType DEF Wrapper, Object, TagClassSymbol
<1>3. Wrapped(o) \in Attempt BY <1>1, <1>2, PrimEncodeType DEF Wrapped
<1> QED BY <1>1, <1>2, <1>3, EocType DEF WithEoc, Attempt

\* int_asn1_encode_to encodes the value of an object that has no cached octets
\* of it, and caches what it wrote.
LEMMA EncodeValueEffect ==
  ASSUME NEW o \in Object, o.explicit => o.default_tag # -1, o.bytes.null
  PROVE  LET r == EncodeValue(o)
             q == r.obj
         IN  /\ r.ok = ScalarOk(o)
             /\ q \in Object /\ SameIdentity(q, o)
             /\ q.cons = ScalarCons(o)
             /\ q.bytes = IF ~o.explicit /\ ~o.cons /\ ScalarOk(o)
                          THEN EncodedValue(o, o.at_value) ELSE o.bytes
             /\ q.modified = o.modified
             /\ ScalarOk(o) => /\ ScalarContent(o) \in Seq(Token)
                               /\ HeaderOf(q, o)
                               /\ r.out = q.tag_bytes \o q.length_bytes \o ScalarContent(o)
             /\ ~ScalarOk(o) => /\ r.out = << >>
                                /\ \/ Unheaded(q, o)
                                   \/ /\ o.length_bytes # << >> \/ o.inf
                                      /\ ScalarCons(o)
                                      /\ HeaderOf(q, o)
<1> DEFINE r == EncodeValue(o)
           q == r.obj
<1>0. o.at_value \in Value /\ o.cons \in BOOLEAN /\ o.explicit \in BOOLEAN /\ << >> \in Seq(Token)
      /\ BarredConstructed(o) \in BOOLEAN /\ HasNoElements(o) \in BOOLEAN
      /\ PrimOk(o, o.at_value) \in BOOLEAN /\ ScalarCons(o) \in BOOLEAN
  BY DEF Object, BarredConstructed, HasNoElements, PrimOk, ScalarCons
<1>1. CASE o.explicit
  <2> DEFINE p == [o EXCEPT !.cons = TRUE]
             c == WithEoc(o, Wrapped(o).out)
  <2>1. c \in Seq(Token) /\ Wrapped(o).ok \in BOOLEAN BY <1>1, WrappedType DEF Attempt
  <2>2. p \in Object /\ SameIdentity(p, o) /\ Unheaded(p, o) /\ p.cons = TRUE
        /\ p.bytes = o.bytes /\ p.modified = o.modified BY DEF Object, SameIdentity, Unheaded
  <2>3. r = int_asn1_cons_encode_to(p, Wrapped(o).ok, c)
    BY <1>1 DEF EncodeValue, EncodeExplicit, Wrapped
  <2>4. ScalarContent(o) = c /\ ScalarLength(o) = Len(c) /\ ScalarCons(o) = TRUE
    BY <1>1 DEF ScalarContent, ScalarLength, ScalarCons
  <2>5. ScalarOk(o) = (Wrapped(o).ok /\ ~BarredConstructed(o)) BY <1>1 DEF ScalarOk
  <2>6. BarredConstructed(p) = BarredConstructed(o) BY <2>2 DEF BarredConstructed, SameIdentity
  <2> HIDE DEF p, c, r
  <2> DEFINE w == Wrapped(o).ok
  <2>7a. ConsResult(int_asn1_cons_encode_to(p, w, c), p, w, c) BY <2>1, <2>2, ConsEffect
  <2> HIDE DEF w
  <2>7b. ConsResult(r, p, w, c) BY <2>3, <2>7a DEF w
  <2>7. /\ r.ok = (w /\ ~BarredConstructed(p))
        /\ r.obj \in Object /\ SameIdentity(r.obj, p)
        /\ r.obj.cons = p.cons /\ r.obj.bytes = p.bytes /\ r.obj.modified = p.modified
        /\ r.ok => /\ r.out = TagFor(p, p.cons) \o LengthFor(p, Len(c)) \o c
                   /\ Headed(r.obj, p, Len(c))
        /\ ~r.ok => /\ r.out = << >>
                    /\ \/ r.obj = p
                       \/ /\ p.length_bytes # << >> \/ p.inf
                          /\ Headed(r.obj, p, Len(c)) BY <2>7b DEF ConsResult
  <2>8. TagFor(p, p.cons) = TagFor(o, TRUE) /\ LengthFor(p, Len(c)) = LengthFor(o, Len(c))
        /\ p.inf = o.inf /\ p.length_bytes = o.length_bytes
    BY <2>2 DEF TagFor, LengthFor, Unheaded, SameIdentity
  <2>9. Headed(r.obj, p, Len(c)) => HeaderOf(r.obj, o) BY <2>4, <2>8 DEF Headed, HeaderOf
  <2>10. Headed(r.obj, p, Len(c)) =>
           r.obj.tag_bytes = TagFor(p, p.cons) /\ r.obj.length_bytes = LengthFor(p, Len(c))
    BY DEF Headed
  <2>11. SameIdentity(r.obj, o) /\ (r.obj = p => Unheaded(r.obj, o))
    BY <2>2, <2>7 DEF SameIdentity, Unheaded
  <2>12. r.ok = ScalarOk(o) BY <1>0, <2>1, <2>5, <2>6, <2>7 DEF w
  <2> QED BY <1>1, <2>1, <2>2, <2>4, <2>7, <2>8, <2>9, <2>10, <2>11, <2>12 DEF r
<1>2. CASE ~o.explicit /\ o.cons
  <2>1. r = int_asn1_cons_encode_to(o, HasNoElements(o), << >>) BY <1>2 DEF EncodeValue
  <2>2. ScalarContent(o) = << >> /\ ScalarLength(o) = Len(<< >>) /\ ScalarCons(o) = o.cons
    BY <1>0, <1>2 DEF ScalarContent, ScalarLength, ScalarCons
  <2>3. ScalarOk(o) = (HasNoElements(o) /\ ~BarredConstructed(o)) BY <1>2 DEF ScalarOk
  <2> HIDE DEF r
  <2> DEFINE w == HasNoElements(o)
  <2>4a. ConsResult(int_asn1_cons_encode_to(o, w, << >>), o, w, << >>) BY <1>0, ConsEffect
  <2> HIDE DEF w
  <2>4b. ConsResult(r, o, w, << >>) BY <2>1, <2>4a DEF w
  <2>4. /\ r.ok = (w /\ ~BarredConstructed(o))
        /\ r.obj \in Object /\ SameIdentity(r.obj, o)
        /\ r.obj.cons = o.cons /\ r.obj.bytes = o.bytes /\ r.obj.modified = o.modified
        /\ r.ok => /\ r.out = TagFor(o, o.cons) \o LengthFor(o, Len(<< >>)) \o << >>
                   /\ Headed(r.obj, o, Len(<< >>))
        /\ ~r.ok => /\ r.out = << >>
                    /\ \/ r.obj = o
                       \/ /\ o.length_bytes # << >> \/ o.inf
                          /\ Headed(r.obj, o, Len(<< >>)) BY <2>4b DEF ConsResult
  <2>5. Headed(r.obj, o, Len(<< >>)) =>
           /\ HeaderOf(r.obj, o)
           /\ r.obj.tag_bytes = TagFor(o, o.cons) /\ r.obj.length_bytes = LengthFor(o, Len(<< >>))
    BY <2>2 DEF Headed, HeaderOf
  <2>6. Unheaded(o, o) BY DEF Unheaded
  <2>7. r.ok = ScalarOk(o) BY <2>3, <2>4 DEF w
  <2> QED BY <1>0, <1>2, <2>2, <2>4, <2>5, <2>6, <2>7 DEF r
<1>3. CASE ~o.explicit /\ ~o.cons
  <2> DEFINE e == EncodedValue(o, o.at_value)
  <2>1. r = int_asn1_prim_encode_to(o, o.at_value) BY <1>3 DEF EncodeValue
  <2>2. ScalarContent(o) = e.tok /\ ScalarLength(o) = Len(e.tok) /\ ScalarCons(o) = o.cons
    BY <1>0, <1>3 DEF ScalarContent, ScalarLength, ScalarCons
  <2>3. ScalarOk(o) = PrimOk(o, o.at_value) BY <1>0, <1>3 DEF ScalarOk
  <2> HIDE DEF r, e
  <2>4. /\ r.ok = PrimOk(o, o.at_value)
        /\ r.obj \in Object /\ SameIdentity(r.obj, o)
        /\ r.obj.cons = o.cons /\ r.obj.modified = o.modified
        /\ PrimOk(o, o.at_value) =>
             /\ e \in Bytes /\ e.tok \in Seq(Octet) /\ e.tok \in Seq(Token)
             /\ r.out = TagFor(o, o.cons) \o LengthFor(o, Len(e.tok)) \o e.tok
             /\ Headed(r.obj, o, Len(e.tok)) /\ r.obj.bytes = e
        /\ ~PrimOk(o, o.at_value) => r.out = << >> /\ r.obj = o BY <1>0, <2>1, PrimEffect DEF e
  <2>5. Headed(r.obj, o, Len(e.tok)) =>
           /\ HeaderOf(r.obj, o)
           /\ r.obj.tag_bytes = TagFor(o, o.cons) /\ r.obj.length_bytes = LengthFor(o, Len(e.tok))
    BY <2>2 DEF Headed, HeaderOf
  <2>6. Unheaded(o, o) BY DEF Unheaded
  <2>7. r.ok = ScalarOk(o) BY <2>3, <2>4
  <2> QED BY <1>0, <1>3, <2>2, <2>3, <2>4, <2>5, <2>6, <2>7 DEF r, e
<1> QED BY <1>0, <1>1, <1>2, <1>3

\* int_asn1_encode_to on an object whose value is no Array.
LEMMA EncodeEffect ==
  ASSUME NEW o \in Object, o.explicit => o.default_tag # -1
  PROVE  ScalarEffect(EncodeScalar(o), o)
<1>1. CASE ~o.bytes.null
  <2> DEFINE r == EncodeScalar(o)
  <2>1. r = Encoded(o, o.bytes.tok) /\ o.bytes.tok \in Seq(Token) /\ o.cons \in BOOLEAN
        /\ o.modified \in BOOLEAN
    BY <1>1 DEF EncodeScalar, krypt_asn1_object_encode, Object, Bytes
  <2>2. /\ r.ok = TRUE /\ r.obj = krypt_asn1_header_encode(o)
        /\ r.out = TagFor(o, o.cons) \o LengthFor(o, o.length) \o o.bytes.tok BY <2>1, EncodedAs
  <2> HIDE DEF r
  <2>3. /\ r.obj \in Object /\ SameIdentity(r.obj, o) /\ Headed(r.obj, o, o.length)
        /\ r.obj.cons = o.cons /\ r.obj.bytes = o.bytes /\ r.obj.modified = o.modified
    BY <2>2, HeaderEncoded
  <2>4. ScalarOk(o) = TRUE /\ ScalarContent(o) = o.bytes.tok /\ ScalarLength(o) = o.length
        /\ ScalarCons(o) = o.cons
    BY <1>1, <2>1 DEF ScalarOk, ScalarContent, ScalarLength, ScalarCons
  <2>5. HeaderOf(r.obj, o) /\ r.obj.tag_bytes = TagFor(o, o.cons)
        /\ r.obj.length_bytes = LengthFor(o, o.length) BY <2>3, <2>4 DEF Headed, HeaderOf
  <2>6. ScalarEffect(r, o) BY <1>1, <2>1, <2>2, <2>3, <2>4, <2>5 DEF ScalarEffect
  <2> QED BY <2>6 DEF r
<1>2. CASE o.bytes.null
  <2> DEFINE x == EncodeValue(o)
             b == x.obj.modified /\ RaisesTypeError(o)
             r == EncodeScalar(o)
  <2>1. r = [x EXCEPT !.obj.modified = b] BY <1>2 DEF EncodeScalar
  <2>2. x \in Attempt BY EncodeValueType
  <2>3. /\ x.ok = ScalarOk(o)
        /\ x.obj \in Object /\ SameIdentity(x.obj, o)
        /\ x.obj.cons = ScalarCons(o)
        /\ x.obj.bytes = IF ~o.explicit /\ ~o.cons /\ ScalarOk(o)
                         THEN EncodedValue(o, o.at_value) ELSE o.bytes
        /\ x.obj.modified = o.modified
        /\ ScalarOk(o) => /\ ScalarContent(o) \in Seq(Token)
                          /\ HeaderOf(x.obj, o)
                          /\ x.out = x.obj.tag_bytes \o x.obj.length_bytes \o ScalarContent(o)
        /\ ~ScalarOk(o) => /\ x.out = << >>
                           /\ \/ Unheaded(x.obj, o)
                              \/ /\ o.length_bytes # << >> \/ o.inf
                                 /\ ScalarCons(o)
                                 /\ HeaderOf(x.obj, o) BY <1>2, EncodeValueEffect
  <2>4. b \in BOOLEAN /\ b = (o.modified /\ RaisesTypeError(o)) BY <2>3 DEF RaisesTypeError
  <2> HIDE DEF x, b
  <2>5. r.ok = x.ok /\ r.out = x.out /\ r.obj = [x.obj EXCEPT !.modified = b]
    BY <2>1, <2>2 DEF Attempt
  <2> HIDE DEF r
  <2>6. /\ r.obj \in Object /\ SameIdentity(r.obj, x.obj) /\ r.obj.cons = x.obj.cons
        /\ r.obj.bytes = x.obj.bytes /\ r.obj.modified = b
        /\ r.obj.tag_bytes = x.obj.tag_bytes /\ r.obj.length_bytes = x.obj.length_bytes
    BY <2>3, <2>4, <2>5 DEF Object, SameIdentity
  <2>7. SameIdentity(r.obj, o) BY <2>3, <2>6 DEF SameIdentity
  <2>8. /\ HeaderOf(x.obj, o) => HeaderOf(r.obj, o)
        /\ Unheaded(x.obj, o) => Unheaded(r.obj, o) BY <2>6 DEF HeaderOf, Unheaded
  <2>9. ScalarEffect(r, o) BY <1>2, <2>3, <2>4, <2>5, <2>6, <2>7, <2>8 DEF ScalarEffect
  <2> QED BY <2>9 DEF r
<1> QED BY <1>1, <1>2

\* What does not depend on the cached octets is the same for objects that
\* differ in no more.
LEMMA SameValues ==
  ASSUME NEW o, NEW q, SameIdentity(q, o)
  PROVE  /\ Wrapper(q) = Wrapper(o) /\ Wrapped(q) = Wrapped(o)
         /\ BarredConstructed(q) = BarredConstructed(o)
         /\ HasNoElements(q) = HasNoElements(o)
         /\ \A v : PrimOk(q, v) = PrimOk(o, v)
         /\ \A v : EncodedValue(q, v) = EncodedValue(o, v)
         /\ \A c : WithEoc(q, c) = WithEoc(o, c)
<1>1. Wrapper(q) = Wrapper(o) BY DEF SameIdentity, Wrapper
<1>2. BarredConstructed(q) = BarredConstructed(o) BY DEF SameIdentity, BarredConstructed
<1>3. HasNoElements(q) = HasNoElements(o) BY DEF SameIdentity, HasNoElements
<1>4. ASSUME NEW v
      PROVE  PrimOk(q, v) = PrimOk(o, v)
  BY DEF SameIdentity, PrimOk, PrimValid
<1>5. ASSUME NEW v
      PROVE  EncodedValue(q, v) = EncodedValue(o, v)
  BY DEF SameIdentity, EncodedValue
<1>6. ASSUME NEW c
      PROVE  WithEoc(q, c) = WithEoc(o, c)
  BY DEF SameIdentity, WithEoc
<1>7. Wrapped(q) = Wrapped(o) BY <1>1 DEF SameIdentity, Wrapped
<1> QED BY <1>1, <1>2, <1>3, <1>4, <1>5, <1>6, <1>7

\* Two objects that are written alike.
Alike(p, o) ==
  /\ p.tag = o.tag /\ p.tag_class = o.tag_class
  /\ EncodeScalar(p).ok = EncodeScalar(o).ok
  /\ EncodeScalar(p).out = EncodeScalar(o).out

Sound(o) == o \in Object /\ (o.explicit => o.default_tag # -1)

\* What an object encodes to follows from its header, if that is cached, and
\* the octets of its value.
LEMMA AlikeBy ==
  ASSUME NEW o, NEW q, Sound(o), Sound(q),
         q.tag = o.tag, q.tag_class = o.tag_class,
         ScalarOk(q) = ScalarOk(o),
         ScalarOk(o) => /\ TagFor(q, ScalarCons(q)) = TagFor(o, ScalarCons(o))
                        /\ LengthFor(q, ScalarLength(q)) = LengthFor(o, ScalarLength(o))
                        /\ ScalarContent(q) = ScalarContent(o)
  PROVE  Alike(q, o)
<1>1. ScalarEffect(EncodeScalar(o), o) /\ ScalarEffect(EncodeScalar(q), q)
  BY EncodeEffect DEF Sound
<1>2. EncodeScalar(q).ok = EncodeScalar(o).ok BY <1>1 DEF ScalarEffect
<1>3. CASE ScalarOk(o)
  <2>1. /\ EncodeScalar(o).out = TagFor(o, ScalarCons(o)) \o LengthFor(o, ScalarLength(o))
                                   \o ScalarContent(o)
        /\ EncodeScalar(q).out = TagFor(q, ScalarCons(q)) \o LengthFor(q, ScalarLength(q))
                                   \o ScalarContent(q) BY <1>1, <1>3 DEF ScalarEffect, HeaderOf
  <2> QED BY <1>2, <1>3, <2>1 DEF Alike
<1>4. CASE ~ScalarOk(o) BY <1>1, <1>2, <1>4 DEF ScalarEffect, Alike
<1> QED BY <1>3, <1>4

\* Encoding an object twice gives the same octets.
LEMMA ScalarTwice ==
  ASSUME NEW o, Sound(o)
  PROVE  LET q == EncodeScalar(o).obj
         IN  Sound(q) /\ Alike(q, o)
<1> DEFINE q == EncodeScalar(o).obj
<1>1. ScalarEffect(EncodeScalar(o), o) BY EncodeEffect DEF Sound
<1>2. /\ q \in Object /\ SameIdentity(q, o) /\ q.cons = ScalarCons(o)
      /\ q.bytes = IF o.bytes.null /\ ~o.explicit /\ ~o.cons /\ ScalarOk(o)
                   THEN EncodedValue(o, o.at_value) ELSE o.bytes
      /\ ScalarOk(o) => HeaderOf(q, o) BY <1>1 DEF ScalarEffect
<1> HIDE DEF q
<1>3. Sound(q) BY <1>2 DEF Sound, SameIdentity
<1>4. q.tag = o.tag /\ q.tag_class = o.tag_class /\ q.explicit = o.explicit
      /\ q.at_value = o.at_value BY <1>2 DEF SameIdentity
<1>5. /\ Wrapped(q) = Wrapped(o)
      /\ BarredConstructed(q) = BarredConstructed(o)
      /\ HasNoElements(q) = HasNoElements(o)
      /\ PrimOk(q, q.at_value) = PrimOk(o, o.at_value)
      /\ EncodedValue(q, q.at_value) = EncodedValue(o, o.at_value)
      /\ \A c : WithEoc(q, c) = WithEoc(o, c) BY <1>2, <1>4, SameValues
<1>6. o.cons \in BOOLEAN /\ q.cons \in BOOLEAN /\ o.explicit \in BOOLEAN
      /\ o.bytes.null \in BOOLEAN /\ q.bytes.null \in BOOLEAN
      /\ ScalarOk(o) \in BOOLEAN /\ ScalarOk(q) \in BOOLEAN
  BY <1>2 DEF Sound, Object, Bytes, ScalarOk
<1>7. ScalarOk(q) = ScalarOk(o) /\ (ScalarOk(o) => ScalarContent(q) = ScalarContent(o))
  <2>1. CASE ~o.bytes.null BY <1>2, <2>1 DEF ScalarOk, ScalarContent
  <2>2. CASE o.bytes.null /\ o.explicit
    BY <1>2, <1>4, <1>5, <1>6, <2>2 DEF ScalarOk, ScalarContent
  <2>3. CASE o.bytes.null /\ ~o.explicit /\ o.cons
    BY <1>2, <1>4, <1>5, <1>6, <2>3 DEF ScalarOk, ScalarContent, ScalarCons
  <2>4. CASE o.bytes.null /\ ~o.explicit /\ ~o.cons /\ ScalarOk(o)
    <3>1. q.cons = FALSE /\ q.bytes = EncodedValue(o, o.at_value)
          /\ PrimOk(o, o.at_value) BY <1>2, <1>6, <2>4 DEF ScalarCons, ScalarOk
    <3>2. ScalarOk(q) BY <1>4, <1>5, <3>1, <2>4 DEF ScalarOk
    <3>3. ScalarContent(o) = EncodedValue(o, o.at_value).tok BY <2>4 DEF ScalarContent
    <3>4. ScalarContent(q) = EncodedValue(o, o.at_value).tok
      BY <1>4, <1>5, <2>4, <3>1 DEF ScalarContent
    <3> QED BY <1>6, <2>4, <3>2, <3>3, <3>4
  <2>5. CASE o.bytes.null /\ ~o.explicit /\ ~o.cons /\ ~ScalarOk(o)
    <3>1. q.cons = FALSE /\ q.bytes = o.bytes /\ ~PrimOk(o, o.at_value)
      BY <1>2, <1>6, <2>5 DEF ScalarCons, ScalarOk
    <3> QED BY <1>4, <1>5, <1>6, <2>5, <3>1 DEF ScalarOk
  <2> QED BY <1>6, <2>1, <2>2, <2>3, <2>4, <2>5
<1>8. ASSUME ScalarOk(o)
      PROVE  /\ TagFor(q, ScalarCons(q)) = TagFor(o, ScalarCons(o))
             /\ LengthFor(q, ScalarLength(q)) = LengthFor(o, ScalarLength(o))
  <2>1. q.tag_bytes = TagFor(o, ScalarCons(o)) /\ q.length_bytes = LengthFor(o, ScalarLength(o))
    BY <1>2, <1>8 DEF HeaderOf
  <2>2. TagFor(o, ScalarCons(o)) # << >> /\ LengthFor(o, ScalarLength(o)) # << >>
    <3>1. ScalarLength(o) \in Nat /\ ScalarCons(o) \in BOOLEAN
      BY <1>1, <1>8, <1>6 DEF ScalarLength, ScalarEffect, Sound, Object, ScalarCons
    <3> QED BY <3>1, HeaderParts DEF Sound
  <2> QED BY <2>1, <2>2 DEF TagFor, LengthFor
<1>9. Alike(q, o) BY <1>3, <1>4, <1>7, <1>8, AlikeBy
<1> QED BY <1>3, <1>9 DEF q

-----------------------------------------------------------------------------
(* What is known of an object, kept by each operation on it.               *)

\* An Array without elements has no octets.
LEMMA EmptyConstructed == Constructed(<< >>).tok = << >>
<1>1. [i \in DOMAIN << >> |-> ElemTokens(<< >>[i])] = << >> OBVIOUS
<1> QED BY <1>1, FlattenEmpty DEF Constructed

\* A primitive value that encodes gives octets without elements, and for a BIT
\* STRING they begin with the number of unused bits.
LEMMA ValuesEncoded ==
  ASSUME NEW o \in Object, PrimOk(o, o.at_value)
  PROVE  LET e == EncodedValue(o, o.at_value)
         IN  /\ e \in Bytes /\ e.tok \in Seq(Octet) /\ e.elems = << >>
             /\ e.null = (o.at_value.kind = "nil")
             /\ e.null => e = NoBytes
             /\ o.at_value.kind \in {"nil", "int", "str"} /\ validator(o.codec, o.at_value)
             /\ EncodesToNothing(o) => e.tok = << >>
             /\ o.codec = "bit_string" => /\ o.at_value.kind = "str"
                                          /\ e.tok # << >> /\ e.tok[1].v = o.at_unused_bits
<1> DEFINE v == o.at_value
           e == EncodedValue(o, v)
<1>1. e \in Bytes /\ e.tok \in Seq(Octet) /\ v \in Value
  BY EncoderType DEF PrimOk, EncodedValue, Object
<1>2. v.kind = "nil" => e = NoBytes BY DEF encoder, EncodedValue
<1>3. v.kind # "nil" /\ o.codec # "bit_string" => e = Primitive(v.oct)
  BY DEF encoder, EncodedValue
<1>4. v.kind # "nil" /\ o.codec = "bit_string"
         => e = Primitive(<<[v |-> o.at_unused_bits]>> \o v.oct) BY DEF encoder, EncodedValue
<1>5. validator(o.codec, v) /\ (o.codec = "bit_string" => v.kind = "str")
      /\ v.kind \in {"nil", "int", "str"} BY DEF PrimOk, PrimValid, validator, Object, Codec
<1>6. v.oct \in Seq(Octet) BY <1>1 DEF Value
<1>7. ASSUME NEW x, NEW s \in Seq(Octet)
      PROVE  <<x>> \o s # << >> /\ (<<x>> \o s)[1] = x
  OBVIOUS
<1>8. o.codec = "bit_string" => e.tok # << >> /\ e.tok[1].v = o.at_unused_bits
  <2> DEFINE x == [v |-> o.at_unused_bits]
  <2>1. x.v = o.at_unused_bits OBVIOUS
  <2> HIDE DEF x
  <2>2. <<x>> \o v.oct # << >> /\ (<<x>> \o v.oct)[1] = x BY <1>6, <1>7
  <2>3. o.codec = "bit_string" => e.tok = <<x>> \o v.oct BY <1>4, <1>5 DEF Primitive, x
  <2> QED BY <2>1, <2>2, <2>3
<1> HIDE DEF e
<1>9. e.elems = << >> /\ (e.null = (v.kind = "nil"))
  <2>1. NoBytes.elems = << >> /\ NoBytes.null = TRUE BY DEF NoBytes
  <2>2. \A x : Primitive(x).elems = << >> /\ Primitive(x).null = FALSE BY DEF Primitive
  <2>3. CASE v.kind = "nil" BY <1>2, <2>1, <2>3
  <2>4. CASE v.kind # "nil" BY <1>3, <1>4, <2>2, <2>4
  <2> QED BY <2>3, <2>4
<1>10. EncodesToNothing(o) => e.tok = << >>
  BY <1>2, <1>3 DEF EncodesToNothing, NoBytes, Primitive
<1> QED BY <1>1, <1>2, <1>5, <1>8, <1>9, <1>10 DEF e

\* The length that an object without value bytes may cache.
WrappedLength(o, n) ==
  /\ o.explicit /\ o.at_value.kind # "ary" => (Wrapped(o).ok => n = Len(Wrapped(o).out))
  /\ ~o.explicit /\ o.cons /\ o.at_value.kind = "nil" => n = 0

\* q is what an encoding of o leaves behind, when it finds n to be the length.
EncodingOf(q, o, n) ==
  /\ q \in Object /\ SameIdentity(q, o)
  /\ q.cons = ScalarCons(o)
  /\ q.tag_bytes = o.tag_bytes \/ q.tag_bytes = TagFor(o, q.cons)
  /\ q.length_bytes = o.length_bytes \/ q.length_bytes = LengthFor(o, n)
  /\ \/ q.bytes = o.bytes
     \/ /\ o.bytes.null /\ ~o.cons /\ ~o.explicit
        /\ PrimOk(o, o.at_value) /\ q.bytes = EncodedValue(o, o.at_value)
  /\ ~o.cons /\ ~o.explicit /\ o.bytes.null => q.length_bytes = o.length_bytes \/ PrimOk(o, o.at_value)
  /\ q.modified = o.modified \/ (q.modified = FALSE /\ o.bytes.null)

\* Caching what an encoding found keeps what is known of the object.
LEMMA EncodingKeepsNode ==
  ASSUME NEW o \in Object, NEW h \in HistType, ObjInv(o, h), NodeInv(o, h),
         NEW n \in Nat, NEW q, EncodingOf(q, o, n),
         o.bytes.null /\ ~o.inf => WrappedLength(o, n)
  PROVE  NodeInv(q, h) /\ (ElementInv(o, h) => ElementInv(q, h))
<1>0. /\ q \in Object /\ SameIdentity(q, o)
      /\ q.cons = o.cons \/ (o.explicit /\ o.bytes.null /\ q.cons = TRUE)
      /\ o.explicit /\ o.bytes.null => q.cons = TRUE
      /\ q.tag_bytes = o.tag_bytes \/ q.tag_bytes = TagFor(o, q.cons)
      /\ q.length_bytes = o.length_bytes \/ q.length_bytes = LengthFor(o, n)
  BY DEF EncodingOf, ScalarCons, Object
<1>1. /\ q.tag = o.tag /\ q.tag_class = o.tag_class /\ q.inf = o.inf
      /\ q.codec = o.codec /\ q.default_tag = o.default_tag /\ q.cb = o.cb
      /\ q.decoded = o.decoded /\ q.explicit = o.explicit
      /\ q.at_value = o.at_value /\ q.at_unused_bits = o.at_unused_bits BY <1>0 DEF SameIdentity
<1>2. /\ o.tag_bytes # << >> => q.tag_bytes = o.tag_bytes
      /\ o.length_bytes # << >> => q.length_bytes = o.length_bytes BY <1>0 DEF TagFor, LengthFor
<1>3. /\ Computed(o.inf, n)[1].inf = o.inf /\ (~o.inf => Computed(o.inf, n)[1].n = n)
      /\ Len(Computed(o.inf, n)) = 1 /\ Computed(o.inf, n) # << >>
      /\ Len(TagFor(o, q.cons)) <= 1 \/ TagFor(o, q.cons) = o.tag_bytes
  <2>1. \A x : << x >>[1] = x /\ Len(<< x >>) = 1 OBVIOUS
  <2>2. /\ LengthOctets(0, TRUE, FALSE).inf = TRUE
        /\ LengthOctets(n, FALSE, FALSE).inf = FALSE /\ LengthOctets(n, FALSE, FALSE).n = n
    BY DEF LengthOctets
  <2>3. o.inf \in BOOLEAN BY DEF Object
  <2>4. Computed(o.inf, n)[1] = IF o.inf THEN LengthOctets(0, TRUE, FALSE)
                                ELSE LengthOctets(n, FALSE, FALSE) BY <2>1 DEF Computed
  <2>5. Computed(o.inf, n)[1].inf = o.inf /\ (~o.inf => Computed(o.inf, n)[1].n = n)
    BY <2>2, <2>3, <2>4
  <2>6. Len(TagFor(o, q.cons)) <= 1 \/ TagFor(o, q.cons) = o.tag_bytes BY <2>1 DEF TagFor
  <2> QED BY <2>5, <2>6, HeaderParts
<1>4. \/ q.length_bytes = o.length_bytes
      \/ o.length_bytes = << >> /\ q.length_bytes = Computed(o.inf, n) BY <1>0 DEF LengthFor
<1> DEFINE e == EncodedValue(o, o.at_value)
<1>5. \/ q.bytes = o.bytes
      \/ /\ o.bytes.null /\ ~o.cons /\ ~q.cons /\ ~o.explicit
         /\ PrimOk(o, o.at_value) /\ q.bytes = e BY <1>0 DEF EncodingOf, Object, ScalarCons
<1>6. PrimOk(o, o.at_value) =>
        /\ e.elems = << >>
        /\ e.null = (o.at_value.kind = "nil")
        /\ e.null => e = NoBytes
        /\ o.at_value.kind \in {"nil", "int", "str"} /\ validator(o.codec, o.at_value)
        /\ EncodesToNothing(o) => e.tok = << >>
        /\ o.codec = "bit_string" => /\ o.at_value.kind = "str"
                                     /\ e.tok # << >> /\ e.tok[1].v = o.at_unused_bits
  BY ValuesEncoded
<1> HIDE DEF e
<1>7. /\ q.modified = o.modified \/ (q.modified = FALSE /\ o.bytes.null)
      /\ ~o.cons /\ ~o.explicit /\ o.bytes.null => q.length_bytes = o.length_bytes \/ PrimOk(o, o.at_value)
  BY DEF EncodingOf
<1>8. /\ HeaderInv(o) /\ ContentInv(o) /\ HistoryInv(o, h)
      /\ BitsInv(o, h) /\ WrappedLengthInv(o, h) /\ SourceInv(o, h) BY DEF NodeInv
<1>9. HeaderInv(q)
  <2>1. Len(q.tag_bytes) <= 1 BY <1>0, <1>3, <1>8 DEF HeaderInv
  <2>2. Len(q.length_bytes) <= 1 /\ (q.length_bytes # << >> => q.length_bytes[1].inf = q.inf)
    <3>1. CASE q.length_bytes = o.length_bytes BY <1>1, <1>8, <3>1 DEF HeaderInv
    <3>2. CASE q.length_bytes = Computed(o.inf, n)
      <4>1. Len(q.length_bytes) = 1 /\ q.length_bytes[1].inf = o.inf BY <1>3, <3>2
      <4> QED BY <1>1, <4>1
    <3> QED BY <1>4, <3>1, <3>2
  <2> QED BY <1>1, <1>8, <2>1, <2>2 DEF HeaderInv
<1>10. o.bytes.null => o.bytes.tok = << >> /\ o.bytes.elems = << >>
  BY <1>8 DEF ContentInv, ObjInv, BytesInv
<1>11. ContentInv(q)
  <2>1. q.cons => q.bytes.tok = Constructed(q.bytes.elems).tok
    BY <1>0, <1>5, <1>8, <1>10, EmptyConstructed DEF ContentInv
  <2>2. q.cons /\ q.decoded => q.bytes.null BY <1>0, <1>1, <1>5, <1>8 DEF ContentInv
  <2>3. q.bytes.null => q.bytes.elems = <<>> BY <1>5, <1>6, <1>10
  <2>4. q.at_value.kind = "ary" => q.bytes.null BY <1>1, <1>5, <1>6, <1>8 DEF ContentInv
  <2>5. ~q.decoded /\ ~q.cons /\ q.bytes.null /\ q.length_bytes # <<>> =>
           q.at_value.kind = "nil" \/ validator(q.codec, q.at_value)
    <3>1. ASSUME ~q.decoded, ~q.cons, q.bytes.null, q.length_bytes # <<>>
          PROVE  q.at_value.kind = "nil" \/ validator(q.codec, q.at_value)
      <4>1. o.cons = q.cons BY <1>0, <3>1
      <4>2. CASE q.bytes # o.bytes BY <1>1, <1>5, <1>6, <4>2
      <4>3. CASE q.bytes = o.bytes /\ q.length_bytes = o.length_bytes
        BY <1>1, <1>8, <3>1, <4>1, <4>3 DEF ContentInv
      <4>4. CASE q.bytes = o.bytes /\ q.length_bytes # o.length_bytes /\ ~o.explicit
        BY <1>1, <1>6, <1>7, <3>1, <4>1, <4>4
      <4>5. CASE o.explicit /\ q.bytes = o.bytes BY <1>0, <3>1, <4>5
      <4> QED BY <4>2, <4>3, <4>4, <4>5
    <3> QED BY <3>1
  <2> QED BY <2>1, <2>2, <2>3, <2>4, <2>5 DEF ContentInv
<1>12. HistoryInv(q, h) BY <1>0, <1>1, <1>5, <1>7, <1>8 DEF HistoryInv
<1>13. BitsInv(q, h) BY <1>1, <1>5, <1>6, <1>8 DEF BitsInv
<1>14. Wrapped(q) = Wrapped(o) BY <1>0, SameValues
<1>15. WrappedLengthInv(q, h)
  BY <1>0, <1>1, <1>3, <1>4, <1>5, <1>6, <1>8, <1>14 DEF WrappedLengthInv, WrappedLength, Wrapped
<1>16. SourceInv(q, h)
  <2> SUFFICES ASSUME h.src # << >>, ~h.touched, ~h.lost
               PROVE  SourceInv(q, h)
    BY DEF SourceInv
  <2>1. /\ Len(h.src) >= 2
        /\ o.tag_bytes = << h.src[1] >> /\ o.length_bytes = << h.src[2] >>
        /\ ~o.explicit /\ ~o.modified
        /\ ~o.decoded => o.at_value = NilValue
        /\ ~(o.cons /\ o.decoded) => SubSeq(h.src, 3, Len(h.src)) = o.bytes.tok
        /\ o.cons /\ ~o.decoded /\ o.inf => EndsWithEoc(o.bytes.elems)
        /\ o.cons /\ o.decoded => o.at_value.kind = "ary" BY <1>8 DEF SourceInv
  <2>2. o.tag_bytes # << >> /\ o.length_bytes # << >>
    <3>1. \A x : << x >> # << >> OBVIOUS
    <3> QED BY <2>1, <3>1
  <2>3. q.tag_bytes = o.tag_bytes /\ q.length_bytes = o.length_bytes /\ q.cons = o.cons
        /\ ~q.modified BY <1>0, <1>2, <1>7, <2>1, <2>2
  <2>4. q.bytes.tok = o.bytes.tok /\ (q.cons => q.bytes = o.bytes)
    <3>1. CASE q.bytes # o.bytes
      <4>1. EncodesToNothing(o) BY <1>5, <1>8, <2>2, <3>1 DEF HistoryInv, ObjInv, LengthInv
      <4> QED BY <1>5, <1>6, <1>10, <3>1, <4>1
    <3> QED BY <3>1
  <2> QED BY <1>1, <2>1, <2>3, <2>4 DEF SourceInv
<1>17. ElementInv(o, h) => ElementInv(q, h)
  BY <1>0, <1>1, <1>5, <1>6, <1>8 DEF ElementInv, HistoryInv
<1> QED BY <1>9, <1>11, <1>12, <1>13, <1>15, <1>16, <1>17 DEF NodeInv

\* Encoding an object whose value is no Array keeps what is known of it.
LEMMA ScalarKeepsNode ==
  ASSUME NEW o, NEW h \in HistType, Sound(o), ObjInv(o, h), NodeInv(o, h)
  PROVE  LET q == EncodeScalar(o).obj
         IN  NodeInv(q, h) /\ (ElementInv(o, h) => ElementInv(q, h))
<1> DEFINE q == EncodeScalar(o).obj
           n == IF ScalarContent(o) \in Seq(Token) \/ ~o.bytes.null THEN ScalarLength(o) ELSE 0
<1>1. ScalarEffect(EncodeScalar(o), o) BY EncodeEffect DEF Sound
<1> HIDE DEF q
<1>2. /\ q \in Object /\ SameIdentity(q, o)
      /\ q.cons = ScalarCons(o)
      /\ q.bytes = IF o.bytes.null /\ ~o.explicit /\ ~o.cons /\ ScalarOk(o)
                   THEN EncodedValue(o, o.at_value) ELSE o.bytes
      /\ q.modified = (o.modified /\ (o.bytes.null => RaisesTypeError(o)))
      /\ ScalarOk(o) => ScalarContent(o) \in Seq(Token) /\ HeaderOf(q, o)
      /\ ~ScalarOk(o) => \/ Unheaded(q, o)
                         \/ /\ o.length_bytes # << >> \/ o.inf
                            /\ ScalarCons(o) /\ o.bytes.null
                            /\ HeaderOf(q, o) BY <1>1 DEF ScalarEffect, q
<1>3. o \in Object /\ o.modified \in BOOLEAN /\ o.cons \in BOOLEAN /\ o.length \in Nat
  BY DEF Sound, Object
<1>4. n \in Nat BY <1>3 DEF ScalarLength
<1>5. o.length_bytes # << >> \/ o.inf => LengthFor(o, ScalarLength(o)) = LengthFor(o, n)
  BY DEF LengthFor, Computed
<1>6. ScalarOk(o) => n = ScalarLength(o) BY <1>2
<1>7. o.bytes.null /\ ~o.inf => WrappedLength(o, n)
  <2> SUFFICES ASSUME o.bytes.null, ~o.inf
               PROVE  WrappedLength(o, n)
    OBVIOUS
  <2>1. CASE o.explicit
    <3>1. ScalarContent(o) = Wrapped(o).out BY <1>3, <2>1, WrappedType DEF Sound, ScalarContent
    <3>2. Wrapped(o).out \in Seq(Token) BY <1>3, <2>1, WrappedType DEF Sound, Attempt
    <3> QED BY <2>1, <3>1, <3>2 DEF WrappedLength, ScalarLength
  <2>2. CASE ~o.explicit /\ o.cons
    <3>1. ScalarContent(o) = << >> BY <2>2 DEF ScalarContent
    <3>2. ScalarLength(o) = 0 /\ << >> \in Seq(Token) BY <3>1, Len(<< >>) = 0 DEF ScalarLength
    <3> QED BY <2>2, <3>1, <3>2 DEF WrappedLength
  <2>3. CASE ~o.explicit /\ ~o.cons BY <2>3 DEF WrappedLength
  <2> QED BY <2>1, <2>2, <2>3
<1>8. \/ q.tag_bytes = o.tag_bytes /\ q.length_bytes = o.length_bytes
      \/ q.tag_bytes = TagFor(o, q.cons) /\ q.length_bytes = LengthFor(o, n)
  BY <1>2, <1>5, <1>6 DEF HeaderOf, Unheaded
<1>9. ~o.cons /\ ~o.explicit /\ o.bytes.null =>
        q.length_bytes = o.length_bytes \/ PrimOk(o, o.at_value)
  <2>1. ~o.cons /\ ~o.explicit /\ o.bytes.null => ~ScalarCons(o) BY <1>3 DEF ScalarCons
  <2>2. ~o.cons /\ ~o.explicit /\ o.bytes.null /\ ScalarOk(o) => PrimOk(o, o.at_value)
    BY DEF ScalarOk
  <2> QED BY <1>2, <2>1, <2>2 DEF Unheaded
<1>10. \/ q.bytes = o.bytes
       \/ /\ o.bytes.null /\ ~o.cons /\ ~o.explicit
          /\ PrimOk(o, o.at_value) /\ q.bytes = EncodedValue(o, o.at_value) BY <1>2 DEF ScalarOk
<1>11. q.modified = o.modified \/ (q.modified = FALSE /\ o.bytes.null) BY <1>2, <1>3
<1>12. EncodingOf(q, o, n) BY <1>2, <1>8, <1>9, <1>10, <1>11 DEF EncodingOf
<1> HIDE DEF n
<1> QED BY <1>3, <1>4, <1>7, <1>12, EncodingKeepsNode DEF q

\* The object that owns an Array, when its length is written or found missing.
LEMMA BegunKeepsNode ==
  ASSUME NEW o \in Object, NEW h \in HistType, ObjInv(o, h), NodeInv(o, h),
         o.bytes.null, o.at_value.kind = "ary", NEW b \in BOOLEAN, b => o.modified
  PROVE  LET q == [HeaderFirst(Outer(o)) EXCEPT !.modified = b]
         IN  NodeInv(q, h) /\ (ElementInv(o, h) => ElementInv(q, h))
<1> DEFINE p == Outer(o)
           f == HeaderFirst(p)
           q == [f EXCEPT !.modified = b]
<1>1. o.cons BY DEF ObjInv, ArrayInv
<1>2. /\ p \in Object /\ SameIdentity(p, o) /\ Unheaded(p, o)
      /\ p.bytes = o.bytes /\ p.modified = o.modified /\ p.cons = TRUE
  BY <1>1 DEF Outer, SameIdentity, Unheaded, Object
<1> HIDE DEF p
<1>3. /\ f \in Object /\ SameIdentity(f, p)
      /\ f.cons = p.cons /\ f.bytes = p.bytes /\ f.modified = p.modified
      /\ IF p.length_bytes # << >> \/ p.inf THEN Headed(f, p, 0) ELSE f = p
  BY <1>2, HeaderFirstEffect
<1> HIDE DEF f
<1>4. /\ q \in Object /\ SameIdentity(q, f) /\ Unheaded(q, f)
      /\ q.bytes = f.bytes /\ q.modified = b /\ q.cons = f.cons
  BY <1>3 DEF Object, SameIdentity, Unheaded
<1> HIDE DEF q
<1>5. TagFor(p, p.cons) = TagFor(o, TRUE) /\ LengthFor(p, 0) = LengthFor(o, 0)
  BY <1>2 DEF TagFor, LengthFor, Unheaded, SameIdentity
<1>6. \/ q.tag_bytes = o.tag_bytes /\ q.length_bytes = o.length_bytes
      \/ q.tag_bytes = TagFor(o, q.cons) /\ q.length_bytes = LengthFor(o, 0)
  BY <1>2, <1>3, <1>4, <1>5 DEF Headed, Unheaded
<1>7. SameIdentity(q, o) BY <1>2, <1>3, <1>4 DEF SameIdentity
<1>8. q.cons = ScalarCons(o) BY <1>1, <1>2, <1>3, <1>4 DEF ScalarCons
<1>9. q.modified = o.modified \/ (q.modified = FALSE /\ o.bytes.null) BY <1>4 DEF Object
<1>10. EncodingOf(q, o, 0) BY <1>1, <1>2, <1>3, <1>4, <1>6, <1>7, <1>8, <1>9 DEF EncodingOf
<1>11. WrappedLength(o, 0) BY DEF WrappedLength
<1> QED BY <1>10, <1>11, EncodingKeepsNode DEF q, f, p

\* The object that owns an Array, when its encoding is complete or failed.
LEMMA WrittenKeepsNode ==
  ASSUME NEW o \in Object, NEW h \in HistType, ObjInv(o, h), NodeInv(o, h),
         o.bytes.null, o.at_value.kind = "ary", NEW c \in Seq(Token)
  PROVE  LET q == [int_asn1_cons_encode_to(o, TRUE, c).obj EXCEPT !.modified = FALSE]
         IN  NodeInv(q, h) /\ (ElementInv(o, h) => ElementInv(q, h))
<1> DEFINE f == int_asn1_cons_encode_to(o, TRUE, c).obj
           q == [f EXCEPT !.modified = FALSE]
<1>1. o.cons = TRUE BY DEF ObjInv, ArrayInv, Object
<1>2. ConsResult(int_asn1_cons_encode_to(o, TRUE, c), o, TRUE, c) BY ConsEffect
<1>3. /\ f \in Object /\ SameIdentity(f, o) /\ f.cons = o.cons /\ f.bytes = o.bytes
      /\ f = o \/ Headed(f, o, Len(c)) BY <1>2 DEF ConsResult
<1> HIDE DEF f
<1>4. /\ q \in Object /\ SameIdentity(q, f) /\ Unheaded(q, f)
      /\ q.bytes = f.bytes /\ q.modified = FALSE /\ q.cons = f.cons
  BY <1>3 DEF Object, SameIdentity, Unheaded
<1> HIDE DEF q
<1>5. SameIdentity(q, o) BY <1>3, <1>4 DEF SameIdentity
<1>6. q.cons = ScalarCons(o) BY <1>1, <1>3, <1>4 DEF ScalarCons
<1>7. \/ q.tag_bytes = o.tag_bytes /\ q.length_bytes = o.length_bytes
      \/ q.tag_bytes = TagFor(o, q.cons) /\ q.length_bytes = LengthFor(o, Len(c))
  BY <1>3, <1>4 DEF Headed, Unheaded
<1>8. EncodingOf(q, o, Len(c)) BY <1>1, <1>3, <1>4, <1>5, <1>6, <1>7 DEF EncodingOf
<1>9. WrappedLength(o, Len(c)) /\ Len(c) \in Nat BY DEF WrappedLength
<1> QED BY <1>8, <1>9, EncodingKeepsNode DEF q, f

\* Resetting the modified flag of an object that owns an Array, sorting it.
LEMMA ResetKeepsNode ==
  ASSUME NEW o \in Object, NEW h \in HistType, NodeInv(o, h),
         o.bytes.null, NEW b \in BOOLEAN, b => o.modified
  PROVE  LET q == [o EXCEPT !.modified = b]
         IN  NodeInv(q, h) /\ (ElementInv(o, h) => ElementInv(q, h))
<1> DEFINE q == [o EXCEPT !.modified = b]
<1>1. /\ q \in Object /\ SameIdentity(q, o) /\ Unheaded(q, o)
      /\ q.bytes = o.bytes /\ q.modified = b /\ q.cons = o.cons
  BY DEF Object, SameIdentity, Unheaded
<1> HIDE DEF q
<1>2. HeaderInv(q) /\ ContentInv(q) /\ BitsInv(q, h) /\ HistoryInv(q, h)
  BY <1>1 DEF NodeInv, SameIdentity, Unheaded, HeaderInv, ContentInv, BitsInv, HistoryInv
<1>3. WrappedLengthInv(q, h)
  <2>1. Wrapped(q) = Wrapped(o) BY <1>1, SameValues
  <2> QED BY <1>1, <2>1 DEF NodeInv, SameIdentity, Unheaded, WrappedLengthInv, Wrapped
<1>4. SourceInv(q, h) BY <1>1 DEF NodeInv, SameIdentity, Unheaded, SourceInv
<1>5. ElementInv(o, h) => ElementInv(q, h) BY <1>1 DEF ElementInv, SameIdentity
<1> QED BY <1>2, <1>3, <1>4, <1>5 DEF NodeInv, q

\* Sorting the elements of an object keeps what is known of it.
LEMMA SortedKeepsNode ==
  ASSUME NEW o \in Object, NEW h \in HistType, NodeInv(o, h), ObjInv(o, h),
         o.at_value.kind = "ary", NEW order \in Seq(Int)
  PROVE  LET q == int_cons_sort_set(o, order)
         IN  NodeInv(q, h) /\ (ElementInv(o, h) /\ order = << >> => ElementInv(q, h))
<1> DEFINE q == int_cons_sort_set(o, order)
<1>1. /\ q \in Object /\ Unheaded(q, o)
      /\ q.tag = o.tag /\ q.tag_class = o.tag_class /\ q.inf = o.inf
      /\ q.codec = o.codec /\ q.default_tag = o.default_tag /\ q.cb = o.cb
      /\ q.decoded = o.decoded /\ q.explicit = o.explicit
      /\ q.at_unused_bits = o.at_unused_bits
      /\ q.bytes = o.bytes /\ q.modified = o.modified /\ q.cons = o.cons
      /\ q.at_value = Ary(order) BY ValueTypes DEF Object, Unheaded, int_cons_sort_set
<1>2. q.at_value.kind = "ary" /\ q.at_value.ids = order BY <1>1 DEF Ary
<1> HIDE DEF q
<1>3. o.cons BY DEF ObjInv, ArrayInv
<1>4. HeaderInv(q) /\ ContentInv(q) /\ BitsInv(q, h) /\ HistoryInv(q, h)
  BY <1>1, <1>2, <1>3 DEF NodeInv, Unheaded, HeaderInv, ContentInv, BitsInv, HistoryInv
<1>5. WrappedLengthInv(q, h) BY <1>2 DEF WrappedLengthInv
<1>6. SourceInv(q, h) BY <1>1, <1>2, <1>3 DEF NodeInv, Unheaded, SourceInv, NilValue
<1>7. ElementInv(o, h) /\ order = << >> => ElementInv(q, h) BY <1>1, <1>2 DEF ElementInv
<1> QED BY <1>4, <1>5, <1>6, <1>7 DEF NodeInv, q

\* A created object has nothing cached.
LEMMA CreatedNode ==
  ASSUME NEW a \in NewType, NewSound(a)
  PROVE  LET o == Created(a.value, a.tag, a.sym, a.default_tag)
         IN  /\ NodeInv(o, NewHist(<<>>))
             /\ a.value.kind # "ary" => ElementInv(o, NewHist(<<>>))
<1> DEFINE o == Created(a.value, a.tag, a.sym, a.default_tag)
           h == NewHist(<<>>)
<1>1. /\ o.tag_bytes = << >> /\ o.length_bytes = << >> /\ o.bytes = NoBytes
      /\ o.explicit = (a.sym = "EXPLICIT") /\ o.default_tag = a.default_tag
      /\ o.cb = (a.default_tag = -1)
      /\ o.tag_class = tag_class_for_id(a.sym)
      /\ o.at_value = a.value /\ o.cons = (a.value.kind = "ary")
      /\ o.decoded = TRUE /\ o.modified = TRUE BY DEF Created
<1>2. h.src = << >> /\ h.touched = FALSE /\ h.lost = FALSE /\ h.retag = FALSE /\ h.flip = FALSE
      /\ h.bits = FALSE BY DEF NewHist
<1> HIDE DEF o, h
<1>3. NoBytes.null /\ NoBytes.tok = << >> /\ NoBytes.elems = << >> BY DEF NoBytes
<1>4. HeaderInv(o)
  <2>1. Len(<< >>) = 0 OBVIOUS
  <2>2. o.explicit => o.tag_class = "CONTEXT_SPECIFIC" BY <1>1 DEF tag_class_for_id
  <2>3. o.cb => o.default_tag = -1 BY <1>1
  <2>4. Len(o.tag_bytes) <= 1 /\ Len(o.length_bytes) <= 1 BY <1>1, <2>1
  <2> QED BY <1>1, <2>2, <2>3, <2>4 DEF HeaderInv
<1>5. ContentInv(o) BY <1>1, <1>3, EmptyConstructed DEF ContentInv
<1>6. HistoryInv(o, h) /\ BitsInv(o, h) /\ WrappedLengthInv(o, h) /\ SourceInv(o, h)
  BY <1>1, <1>2, <1>3 DEF HistoryInv, BitsInv, WrappedLengthInv, SourceInv
<1>7. a.value.kind # "ary" => ElementInv(o, h) BY <1>1, <1>2, <1>3 DEF ElementInv, NewSound
<1> QED BY <1>4, <1>5, <1>6, <1>7 DEF NodeInv, o, h

\* Objects that were not created yet say nothing.
LEMMA BlankNode ==
  NodeInv(Blank, NewHist(<<>>)) /\ ElementInv(Blank, NewHist(<<>>))
<1> DEFINE a == [value |-> NilValue, tag |-> OCTET_STRING, sym |-> "UNIVERSAL",
                 default_tag |-> OCTET_STRING]
<1>1. a \in NewType /\ NewSound(a) /\ a.value.kind # "ary"
  BY TagsAssumption, ValueTypes DEF NewType, NewSound, TagClassSymbol, NilValue
<1> QED BY <1>1, CreatedNode DEF Blank

\* A parsed object has the octets it was parsed from.
LEMMA ParsedNode ==
  ASSUME NEW id \in IdentifierToken, NEW len \in LengthToken, NEW bytes \in Bytes,
         ~bytes.null, id.cons => bytes = Constructed(bytes.elems),
         ~len.inf => len.n = Len(bytes.tok), len.inf => EndsWithEoc(bytes.elems)
  PROVE  LET o == Parsed(id, len, bytes)
             h == NewHist(<< id, len >> \o bytes.tok)
         IN  /\ NodeInv(o, h)
             /\ ~id.cons /\ bytes.elems = <<>> => ElementInv(o, h)
<1> DEFINE o == Parsed(id, len, bytes)
           src == << id, len >> \o bytes.tok
           h == NewHist(src)
<1>1. /\ o.tag_bytes = << id >> /\ o.length_bytes = << len >>
      /\ o.bytes = IF ~len.inf /\ len.n = 0 THEN NoBytes ELSE bytes
      /\ o.explicit = FALSE /\ o.modified = FALSE /\ o.decoded = FALSE
      /\ o.tag = id.tag /\ o.tag_class = id.tag_class /\ o.cons = id.cons
      /\ o.inf = len.inf /\ o.at_value = NilValue /\ o.cb = FALSE
      /\ o.default_tag \in {-1, o.tag} BY DEF Parsed
<1>2. h.src = src /\ h.touched = FALSE /\ h.lost = FALSE /\ h.retag = FALSE /\ h.flip = FALSE
      /\ h.bits = FALSE BY DEF NewHist
<1>3. bytes.tok \in Seq(Token) /\ bytes.elems \in Seq(Elem) BY DEF Bytes
<1>4. Len(src) >= 2 /\ src[1] = id /\ src[2] = len /\ SubSeq(src, 3, Len(src)) = bytes.tok
  <2>1. << id, len >> \in Seq(Token) /\ Len(<< id, len >>) = 2 BY DEF Token
  <2>2. Len(src) = 2 + Len(bytes.tok) /\ Len(bytes.tok) \in Nat BY <1>3, <2>1
  <2>3. src[1] = id /\ src[2] = len BY <1>3, <2>1
  <2>4. SubSeq(src, 3, Len(src)) = bytes.tok BY <1>3, <2>1, <2>2
  <2> QED BY <2>2, <2>3, <2>4
<1> HIDE DEF o, h, src
<1>5. NoBytes.null /\ NoBytes.tok = << >> /\ NoBytes.elems = << >> /\ NilValue.kind = "nil"
      /\ NilValue.ids = << >> BY DEF NoBytes, NilValue
<1>6. o.bytes.null => ~len.inf /\ len.n = 0 BY <1>1
<1>7. o.bytes.tok = bytes.tok
  <2>1. CASE ~len.inf /\ len.n = 0
    <3>1. bytes.tok = << >> BY <1>3, <2>1
    <3> QED BY <1>1, <1>5, <2>1, <3>1
  <2>2. CASE ~(~len.inf /\ len.n = 0) BY <1>1, <2>2
  <2> QED BY <2>1, <2>2
<1>8. \A x : Len(<< x >>) = 1 /\ << x >>[1] = x OBVIOUS
<1>9. HeaderInv(o) BY <1>1, <1>8 DEF HeaderInv
<1>10. ContentInv(o)
  <2>1. o.cons => o.bytes.tok = Constructed(o.bytes.elems).tok BY <1>1, <1>5, EmptyConstructed
  <2>2. o.bytes.null => o.bytes.elems = <<>> BY <1>1, <1>5
  <2> QED BY <1>1, <1>5, <2>1, <2>2 DEF ContentInv
<1>11. HistoryInv(o, h) BY <1>1, <1>2, <1>4 DEF HistoryInv
<1>12. BitsInv(o, h) BY <1>1 DEF BitsInv
<1>13. WrappedLengthInv(o, h) BY <1>1, <1>6, <1>8 DEF WrappedLengthInv
<1>14. SourceInv(o, h)
  <2>1. o.cons /\ ~o.decoded /\ o.inf => EndsWithEoc(o.bytes.elems) BY <1>1
  <2> QED BY <1>1, <1>2, <1>4, <1>7, <2>1 DEF SourceInv
<1>15. ~id.cons /\ bytes.elems = <<>> => ElementInv(o, h) BY <1>1, <1>2, <1>5 DEF ElementInv
<1> QED BY <1>9, <1>10, <1>11, <1>12, <1>13, <1>14, <1>15 DEF NodeInv, o, h, src

\* An object read from a stream starts out as its octets tell.
LEMMA WireNode ==
  ASSUME NEW w \in RootWires
  PROVE  NodeInv(Parsed(w.id, w.len, w.bytes), NewHist(<< w.id, w.len >> \o w.bytes.tok))
<1>1. w \in WireType /\ WireSound(w) BY ConstantsAssumption
<1>2. w.id \in IdentifierToken /\ w.len \in LengthToken /\ w.bytes \in Bytes BY <1>1 DEF WireType
<1>3. /\ ~w.bytes.null
      /\ w.id.cons => w.bytes = Constructed(w.bytes.elems)
      /\ ~w.len.inf => w.len.n = Len(w.bytes.tok)
      /\ w.len.inf => EndsWithEoc(w.bytes.elems) BY <1>1 DEF WireSound
<1> QED BY <1>2, <1>3, ParsedNode

\* An element that was cut from a value.
LEMMA ElementNode ==
  ASSUME NEW e \in Elem, ~e.id.cons, ~e.len.inf, e.len.n = Len(e.oct)
  PROVE  LET o == Parsed(e.id, e.len, Primitive(e.oct))
             h == NewHist(ElemTokens(e))
         IN  NodeInv(o, h) /\ ElementInv(o, h)
<1> DEFINE b == Primitive(e.oct)
<1>1. e.id \in IdentifierToken /\ e.len \in LengthToken /\ e.oct \in Seq(Octet) BY DEF Elem
<1>2. b \in Bytes /\ ~b.null /\ b.tok = e.oct /\ b.elems = << >>
  BY <1>1, TokenSeqs, EmptyAndSingle DEF Primitive, Bytes
<1>3. ElemTokens(e) = << e.id, e.len >> \o b.tok BY <1>2 DEF ElemTokens
<1> HIDE DEF b
<1> QED BY <1>1, <1>2, <1>3, ParsedNode DEF b

\* The history of an object that a setter was called on.
TouchedAs(g, h) ==
  /\ g \in HistType /\ g.touched = TRUE
  /\ g.src = h.src /\ g.lost = h.lost /\ g.retag = h.retag /\ g.flip = h.flip /\ g.bits = h.bits

\* q is o with another tag or tag class.
Retag(q, o) ==
  /\ q.tag_bytes = << >> /\ q.modified = TRUE
  /\ q.cons = o.cons /\ q.inf = o.inf /\ q.length_bytes = o.length_bytes /\ q.bytes = o.bytes
  /\ q.default_tag = o.default_tag /\ q.cb = o.cb /\ q.decoded = o.decoded
  /\ q.explicit = o.explicit /\ q.at_value = o.at_value /\ q.at_unused_bits = o.at_unused_bits
  /\ ~o.cb => q.codec = o.codec
  /\ q.explicit => q.tag_class = "CONTEXT_SPECIFIC"

\* Another tag or tag class keeps what is known of an object, as the setter
\* drops the cached identifier and records that it was called.
LEMMA RetagKeepsNode ==
  ASSUME NEW o \in Object, NEW h \in HistType, NEW g, NEW q,
         ObjInv(o, h), NodeInv(o, h), TouchedAs(g, h), Retag(q, o)
  PROVE  NodeInv(q, g) /\ (ElementInv(o, h) => ElementInv(q, g))
<1>1. HeaderInv(q)
  <2>1. Len(<< >>) = 0 OBVIOUS
  <2> QED BY <2>1 DEF NodeInv, HeaderInv, Retag
<1>2. ContentInv(q)
  <2>1. o.cb => o.decoded BY DEF ObjInv, CodecInv
  <2> QED BY <2>1 DEF NodeInv, ContentInv, Retag
<1>3. HistoryInv(q, g) BY DEF NodeInv, HistoryInv, Retag, TouchedAs
<1>4. BitsInv(q, g)
  <2>1. o.default_tag = BIT_STRING => ~o.cb BY DEF NodeInv, HeaderInv, BIT_STRING
  <2> QED BY <2>1 DEF NodeInv, BitsInv, Retag, TouchedAs
<1>5. WrappedLengthInv(q, g)
  <2>1. Wrapper(q) = Wrapper(o) BY DEF Wrapper, Retag
  <2> QED BY <2>1 DEF NodeInv, WrappedLengthInv, Retag, TouchedAs
<1>6. SourceInv(q, g) BY DEF SourceInv, TouchedAs
<1>7. ElementInv(o, h) => ElementInv(q, g) BY DEF ElementInv, Retag, TouchedAs
<1> QED BY <1>1, <1>2, <1>3, <1>4, <1>5, <1>6, <1>7 DEF NodeInv

\* tag= keeps what is known of its object.
LEMMA SetTagKeepsNode ==
  ASSUME NEW o \in Object, NEW h \in HistType, NEW g, NEW tag \in Tags,
         ObjInv(o, h), NodeInv(o, h), TouchedAs(g, h)
  PROVE  LET r == [int_asn1_data_update_cb([int_invalidate_tag(o) EXCEPT !.tag = tag])
                     EXCEPT !.modified = TRUE, !.at_tag = tag]
         IN  NodeInv(r, g) /\ (ElementInv(o, h) => ElementInv(r, g))
<1> DEFINE p == [int_invalidate_tag(o) EXCEPT !.tag = tag]
           r == [int_asn1_data_update_cb(p) EXCEPT !.modified = TRUE, !.at_tag = tag]
<1>1. o.explicit => o.tag_class = "CONTEXT_SPECIFIC" BY DEF NodeInv, HeaderInv
<1>2. /\ p \in Object /\ p.tag_bytes = << >>
      /\ p.tag_class = o.tag_class /\ p.cons = o.cons /\ p.inf = o.inf
      /\ p.length_bytes = o.length_bytes /\ p.bytes = o.bytes
      /\ p.default_tag = o.default_tag /\ p.explicit = o.explicit
      /\ p.at_value = o.at_value /\ p.at_unused_bits = o.at_unused_bits
      /\ p.cb = o.cb /\ p.decoded = o.decoded /\ p.codec = o.codec
  BY EmptyAndSingle DEF int_invalidate_tag, Object
<1> HIDE DEF p
<1>3. int_codec_for(p.tag, p.tag_class) \in Codec BY CodecType
<1>4. /\ r.tag_bytes = << >> /\ r.modified = TRUE
      /\ r.tag_class = o.tag_class /\ r.cons = o.cons /\ r.inf = o.inf
      /\ r.length_bytes = o.length_bytes /\ r.bytes = o.bytes
      /\ r.default_tag = o.default_tag /\ r.explicit = o.explicit
      /\ r.at_value = o.at_value /\ r.at_unused_bits = o.at_unused_bits
      /\ r.cb = o.cb /\ r.decoded = o.decoded /\ (~o.cb => r.codec = o.codec)
  BY <1>2, <1>3 DEF int_asn1_data_update_cb, Object
<1> HIDE DEF r
<1>5. Retag(r, o) BY <1>1, <1>4 DEF Retag
<1> QED BY <1>5, RetagKeepsNode DEF r, p

\* What tag_class= makes of an object before it may decode it.
LEMMA ReclassedMore ==
  ASSUME NEW o \in Object, NEW sym \in TagClassSymbol
  PROVE  Reclassed(o, sym).at_unused_bits = o.at_unused_bits
<1> DEFINE p == [int_invalidate_tag(o) EXCEPT !.tag_class = tag_class_for_id(sym)]
           q == int_asn1_data_update_cb(p)
<1>1. tag_class_for_id(sym) \in TagClass BY TagClassType
<1>2. p \in Object /\ p.at_unused_bits = o.at_unused_bits
  BY <1>1, EmptyAndSingle DEF int_invalidate_tag, Object
<1> HIDE DEF p
<1>3. int_codec_for(p.tag, p.tag_class) \in Codec BY CodecType
<1>4. q \in Object /\ q.at_unused_bits = o.at_unused_bits
  BY <1>2, <1>3 DEF int_asn1_data_update_cb, Object
<1>5. q = Retagged(o, sym) BY DEF Retagged, p
<1> HIDE DEF q
<1> QED BY <1>4, <1>5 DEF Object, Reclassed

\* tag_class= keeps what is known of its object when it does not have to decode
\* the value.
LEMMA SetTagClassKeepsNode ==
  ASSUME NEW o \in Object, NEW h \in HistType, NEW g, NEW sym \in TagClassSymbol,
         ObjInv(o, h), NodeInv(o, h), TouchedAs(g, h), ~TogglesExplicit(o, sym)
  PROVE  LET d == ClassDone(Reclassed(o, sym), sym)
         IN  NodeInv(d, g) /\ (ElementInv(o, h) => ElementInv(d, g))
<1> DEFINE r == Reclassed(o, sym)
           d == ClassDone(r, sym)
<1>1. o.explicit = (sym = "EXPLICIT") BY DEF TogglesExplicit
<1>2. /\ r \in Object /\ r.tag_bytes = << >>
      /\ r.tag_class = tag_class_for_id(sym) /\ r.explicit = (sym = "EXPLICIT")
      /\ r.cons = o.cons /\ r.inf = o.inf
      /\ r.length_bytes = o.length_bytes /\ r.bytes = o.bytes
      /\ r.default_tag = o.default_tag /\ r.at_value = o.at_value
      /\ r.at_unused_bits = o.at_unused_bits
      /\ r.cb = o.cb /\ r.decoded = o.decoded /\ (~o.cb => r.codec = o.codec)
  BY RetaggedFields, ReclassedMore
<1> HIDE DEF r
<1>3. /\ d.tag_bytes = << >> /\ d.modified = TRUE
      /\ d.tag_class = tag_class_for_id(sym) /\ d.explicit = o.explicit
      /\ d.cons = o.cons /\ d.inf = o.inf
      /\ d.length_bytes = o.length_bytes /\ d.bytes = o.bytes
      /\ d.default_tag = o.default_tag /\ d.at_value = o.at_value
      /\ d.at_unused_bits = o.at_unused_bits
      /\ d.cb = o.cb /\ d.decoded = o.decoded /\ (~o.cb => d.codec = o.codec)
  BY <1>1, <1>2 DEF Object, ClassDone
<1>4. d.explicit => d.tag_class = "CONTEXT_SPECIFIC" BY <1>1, <1>3 DEF tag_class_for_id
<1> HIDE DEF d
<1>5. Retag(d, o) BY <1>3, <1>4 DEF Retag
<1> QED BY <1>5, RetagKeepsNode DEF d, r

\* q is o without cached length and value, touched; h is what becomes of the
\* history g that forgets what was cached.
Emptied(q) ==
  /\ q.length_bytes = << >> /\ q.bytes = NoBytes /\ q.modified = TRUE

\* An object that has nothing cached and was touched is as it should be.
LEMMA EmptiedNode ==
  ASSUME NEW q, NEW g, Emptied(q), Len(q.tag_bytes) <= 1,
         q.cb => q.default_tag = -1, q.explicit => q.tag_class = "CONTEXT_SPECIFIC",
         g.touched, ~g.flip, g.src = << >> => q.decoded,
         ~g.retag /\ q.explicit => q.decoded
  PROVE  NodeInv(q, g)
<1>1. NoBytes.null /\ NoBytes.tok = << >> /\ NoBytes.elems = << >> /\ Len(<< >>) = 0
  BY DEF NoBytes
<1>2. HeaderInv(q) BY <1>1 DEF HeaderInv, Emptied
<1>3. ContentInv(q) BY <1>1, EmptyConstructed DEF ContentInv, Emptied
<1>4. HistoryInv(q, g) /\ BitsInv(q, g) /\ WrappedLengthInv(q, g) /\ SourceInv(q, g)
  BY <1>1 DEF HistoryInv, BitsInv, WrappedLengthInv, SourceInv, Emptied
<1> QED BY <1>2, <1>3, <1>4 DEF NodeInv

\* value= keeps what is known of its object: it drops the cached value.
LEMMA SetValueKeepsNode ==
  ASSUME NEW o \in Object, NEW h \in HistType, NEW g, NEW v \in Value,
         ObjInv(o, h), NodeInv(o, h), TouchedAs(g, h)
  PROVE  LET isAry == v.kind = "ary"
             p == [int_invalidate_value(o) EXCEPT !.at_value = v, !.modified = TRUE]
             r == IF p.cons = isAry THEN p
                  ELSE [int_invalidate_tag(p) EXCEPT
                          !.cons = isAry, !.codec = int_codec_for(p.tag, p.tag_class)]
         IN  /\ NodeInv(r, Refreshed(g))
             /\ ElementInv(o, h) /\ ~isAry /\ v.ids = << >> => ElementInv(r, Refreshed(g))
<1> DEFINE isAry == v.kind = "ary"
           p == [int_invalidate_value(o) EXCEPT !.at_value = v, !.modified = TRUE]
           q == [int_invalidate_tag(p) EXCEPT
                        !.cons = isAry, !.codec = int_codec_for(p.tag, p.tag_class)]
           r == IF p.cons = isAry THEN p ELSE q
           f == Refreshed(g)
<1>1. /\ f \in HistType /\ f.touched = TRUE /\ f.flip = FALSE /\ f.src = h.src
      /\ f.retag = h.retag /\ f.lost = h.lost BY DEF TouchedAs, Refreshed, HistType
<1> HIDE DEF f
<1>2. NoBytes \in Bytes BY EmptyAndSingle DEF NoBytes, Bytes
<1>3. /\ p \in Object /\ p.length_bytes = << >> /\ p.bytes = NoBytes /\ p.at_value = v
      /\ p.tag_bytes = o.tag_bytes /\ p.tag_class = o.tag_class /\ p.modified = TRUE
      /\ p.default_tag = o.default_tag /\ p.explicit = o.explicit
      /\ p.cb = o.cb /\ p.decoded = o.decoded
  BY <1>2, EmptyAndSingle DEF int_invalidate_value, int_invalidate_length, Object
<1> HIDE DEF p
<1>4. /\ q.length_bytes = << >> /\ q.bytes = NoBytes /\ q.at_value = v
      /\ q.tag_bytes = << >> /\ q.tag_class = o.tag_class /\ q.modified = TRUE
      /\ q.default_tag = o.default_tag /\ q.explicit = o.explicit
      /\ q.cb = o.cb /\ q.decoded = o.decoded /\ q.cons = isAry
  BY <1>3 DEF int_invalidate_tag, Object
<1> HIDE DEF q, isAry
<1>5. /\ r.length_bytes = << >> /\ r.bytes = NoBytes /\ r.at_value = v
      /\ r.tag_bytes \in {<< >>, o.tag_bytes} /\ r.tag_class = o.tag_class /\ r.modified = TRUE
      /\ r.default_tag = o.default_tag /\ r.explicit = o.explicit
      /\ r.cb = o.cb /\ r.decoded = o.decoded /\ r.cons = isAry
  <2>1. CASE p.cons = isAry BY <1>3, <2>1
  <2>2. CASE p.cons # isAry BY <1>4, <2>2
  <2> QED BY <2>1, <2>2
<1> HIDE DEF r
<1>6. /\ Len(o.tag_bytes) <= 1 /\ (o.cb => o.default_tag = -1)
      /\ o.explicit => o.tag_class = "CONTEXT_SPECIFIC"
      /\ h.src = << >> => o.decoded
      /\ ~h.retag /\ o.explicit => o.decoded BY DEF NodeInv, HeaderInv, HistoryInv
<1>7. Len(r.tag_bytes) <= 1
  <2>1. Len(<< >>) = 0 OBVIOUS
  <2> QED BY <1>5, <1>6, <2>1
<1>8. NodeInv(r, f) BY <1>1, <1>5, <1>6, <1>7, EmptiedNode DEF Emptied
<1>9. ElementInv(o, h) /\ ~isAry /\ v.ids = << >> => ElementInv(r, f)
  <2>1. NoBytes.elems = << >> BY DEF NoBytes
  <2> QED BY <1>1, <1>5, <2>1 DEF ElementInv, isAry
<1> QED BY <1>8, <1>9 DEF r, q, p, f, isAry

\* infinite_length= keeps what is known of its object; when value octets stay
\* that were of the other form, the history says so.
LEMMA SetInfiniteLengthKeepsNode ==
  ASSUME NEW o \in Object, NEW h \in HistType, NEW g, NEW f,
         ObjInv(o, h), NodeInv(o, h), TouchedAs(g, h),
         f \in HistType, f.touched = TRUE, f.src = h.src, f.lost = h.lost, f.retag = h.retag,
         f.flip = (h.flip \/ ~o.bytes.null), f.bits = h.bits
  PROVE  LET r == [int_invalidate_length(o) EXCEPT
                     !.inf = ~o.inf, !.modified = TRUE, !.at_inf = ~o.inf]
         IN  NodeInv(r, f) /\ (ElementInv(o, h) => ElementInv(r, f))
<1> DEFINE r == [int_invalidate_length(o) EXCEPT
                   !.inf = ~o.inf, !.modified = TRUE, !.at_inf = ~o.inf]
<1>1. /\ r.length_bytes = << >> /\ r.modified = TRUE
      /\ r.tag = o.tag /\ r.tag_class = o.tag_class /\ r.cons = o.cons
      /\ r.tag_bytes = o.tag_bytes /\ r.bytes = o.bytes
      /\ r.default_tag = o.default_tag /\ r.explicit = o.explicit
      /\ r.at_value = o.at_value /\ r.codec = o.codec
      /\ r.cb = o.cb /\ r.decoded = o.decoded /\ r.at_unused_bits = o.at_unused_bits
  BY EmptyAndSingle DEF int_invalidate_length, Object
<1> HIDE DEF r
<1>2. HeaderInv(r)
  <2>1. Len(<< >>) = 0 OBVIOUS
  <2> QED BY <1>1, <2>1 DEF NodeInv, HeaderInv
<1>3. ContentInv(r) BY <1>1 DEF NodeInv, ContentInv
<1>4. HistoryInv(r, f) BY <1>1 DEF NodeInv, HistoryInv
<1>5. BitsInv(r, f) BY <1>1 DEF NodeInv, BitsInv
<1>6. WrappedLengthInv(r, f) /\ SourceInv(r, f) BY <1>1 DEF WrappedLengthInv, SourceInv
<1>7. ElementInv(o, h) => ElementInv(r, f) BY <1>1 DEF ElementInv
<1> QED BY <1>2, <1>3, <1>4, <1>5, <1>6, <1>7 DEF NodeInv, r

\* unused_bits= keeps what is known of its object; when value octets stay that
\* were of other bits, the history says so.
LEMMA SetUnusedBitsKeepsNode ==
  ASSUME NEW o \in Object, NEW h \in HistType, NEW f, NEW bits \in Bits,
         ObjInv(o, h), NodeInv(o, h), o.default_tag = BIT_STRING,
         f \in HistType, f.touched = TRUE, f.src = h.src, f.lost = h.lost, f.retag = h.retag,
         f.flip = h.flip, f.bits = (h.bits \/ (o.decoded /\ ~o.bytes.null))
  PROVE  LET r == [o EXCEPT !.at_unused_bits = bits]
         IN  NodeInv(r, f) /\ (ElementInv(o, h) => ElementInv(r, f))
<1> DEFINE r == [o EXCEPT !.at_unused_bits = bits]
<1>1. /\ r.length_bytes = o.length_bytes /\ r.modified = o.modified
      /\ r.tag = o.tag /\ r.tag_class = o.tag_class /\ r.cons = o.cons
      /\ r.tag_bytes = o.tag_bytes /\ r.bytes = o.bytes /\ r.inf = o.inf
      /\ r.default_tag = o.default_tag /\ r.explicit = o.explicit
      /\ r.at_value = o.at_value /\ r.codec = o.codec
      /\ r.cb = o.cb /\ r.decoded = o.decoded BY DEF Object
<1> HIDE DEF r
<1>2. HeaderInv(r) BY <1>1 DEF NodeInv, HeaderInv
<1>3. ContentInv(r) BY <1>1 DEF NodeInv, ContentInv
<1>4. HistoryInv(r, f)
  <2>1. o.cons /\ ~o.bytes.null => h.touched \/ o.tag = BIT_STRING
    BY DEF NodeInv, HistoryInv, ContentInv, BIT_STRING
  <2> QED BY <1>1, <2>1 DEF NodeInv, HistoryInv
<1>5. BitsInv(r, f) BY <1>1 DEF NodeInv, BitsInv
<1>6. WrappedLengthInv(r, f)
  <2>1. Wrapper(r) = Wrapper(o) BY <1>1 DEF Wrapper
  <2> QED BY <1>1, <2>1 DEF NodeInv, WrappedLengthInv
<1>7. SourceInv(r, f) BY DEF SourceInv
<1>8. ElementInv(o, h) => ElementInv(r, f) BY <1>1 DEF ElementInv
<1> QED BY <1>2, <1>3, <1>4, <1>5, <1>6, <1>7, <1>8 DEF NodeInv, r

\* d is o but for the value, its bytes and unused bits.
DecodedFrom(d, o) ==
  /\ d.tag = o.tag /\ d.tag_class = o.tag_class /\ d.cons = o.cons /\ d.inf = o.inf
  /\ d.tag_bytes = o.tag_bytes /\ d.length_bytes = o.length_bytes
  /\ d.codec = o.codec /\ d.default_tag = o.default_tag /\ d.cb = o.cb
  /\ d.explicit = o.explicit /\ d.modified = o.modified

\* What reading the value gives, case by case.
DecodeResult(d, o) ==
  /\ DecodedFrom(d, o)
  /\ o.decoded \/ (~o.cons /\ ~CanDecode(o)) => d = o
  /\ ~o.decoded /\ o.cons =>
       /\ d.bytes = NoBytes /\ d.decoded = CanDecode(o) /\ d.at_unused_bits = o.at_unused_bits
       /\ d.at_value = IF CanDecode(o) THEN Ary(ElementIds(KeptElems(o))) ELSE o.at_value
  /\ ~o.decoded /\ ~o.cons /\ CanDecode(o) =>
       /\ d.bytes = o.bytes /\ d.decoded = TRUE
       /\ d.at_value = decoder(o.codec, o.bytes.tok)
       /\ d.at_value.kind # "ary" /\ d.at_value.ids = << >>
       /\ d.at_unused_bits = decoder_bits(o.codec, o.bytes.tok, o.at_unused_bits)
       /\ o.codec = "bit_string" => o.bytes.tok # << >> /\ d.at_unused_bits = o.bytes.tok[1].v

\* Reading the value of an object changes no more than its value.
LEMMA DecodeEffect ==
  ASSUME NEW o \in Object, BytesInv(o)
  PROVE  DecodeResult(AfterDecode(o), o)
<1> DEFINE d == AfterDecode(o)
<1>0. o.decoded \in BOOLEAN /\ o.cons \in BOOLEAN /\ CanDecode(o) \in BOOLEAN
  BY DEF Object, CanDecode, decodable, Codec
<1>1. CASE o.decoded \/ (~o.cons /\ ~CanDecode(o))
  <2>1. d = o BY <1>1 DEF AfterDecode
  <2> HIDE DEF d
  <2> QED BY <1>1, <2>1 DEF DecodeResult, DecodedFrom, d
<1>2. CASE ~o.decoded /\ o.cons /\ CanDecode(o)
  <2> DEFINE v == Ary(ElementIds(KeptElems(o)))
             p == [FreeBytes(o) EXCEPT !.at_value = v, !.decoded = TRUE]
  <2>1. d = p BY <1>2 DEF AfterDecode
  <2> HIDE DEF v
  <2>2. /\ DecodedFrom(p, o) /\ p.bytes = NoBytes /\ p.decoded = TRUE
        /\ p.at_unused_bits = o.at_unused_bits /\ p.at_value = v
    BY DEF Object, FreeBytes, DecodedFrom
  <2> HIDE DEF d, p
  <2> QED BY <1>0, <1>2, <2>1, <2>2 DEF DecodeResult, d, v
<1>3. CASE ~o.decoded /\ o.cons /\ ~CanDecode(o)
  <2> DEFINE p == FreeBytes(o)
  <2>1. d = p BY <1>3 DEF AfterDecode
  <2>2. /\ DecodedFrom(p, o) /\ p.bytes = NoBytes /\ p.decoded = o.decoded
        /\ p.at_unused_bits = o.at_unused_bits /\ p.at_value = o.at_value
    BY DEF Object, FreeBytes, DecodedFrom
  <2> HIDE DEF d, p
  <2> QED BY <1>0, <1>3, <2>1, <2>2 DEF DecodeResult, d
<1>4. CASE ~o.decoded /\ ~o.cons /\ CanDecode(o)
  <2> DEFINE v == decoder(o.codec, o.bytes.tok)
             bits == decoder_bits(o.codec, o.bytes.tok, o.at_unused_bits)
             p == [o EXCEPT !.at_value = v, !.at_unused_bits = bits, !.decoded = TRUE]
  <2>1. d = p BY <1>4 DEF AfterDecode
  <2>2. v.kind # "ary" /\ v.ids = << >> BY <1>4, DecoderType DEF BytesInv, Object
  <2>3. o.codec = "bit_string" => o.bytes.tok # << >> /\ bits = o.bytes.tok[1].v
    BY <1>4 DEF CanDecode, decodable, decoder_bits
  <2> HIDE DEF v, bits
  <2>4. /\ DecodedFrom(p, o) /\ p.bytes = o.bytes /\ p.decoded = TRUE
        /\ p.at_unused_bits = bits /\ p.at_value = v BY DEF Object, DecodedFrom
  <2> HIDE DEF d, p
  <2> QED BY <1>4, <2>1, <2>2, <2>3, <2>4 DEF DecodeResult, d, v, bits
<1> QED BY <1>1, <1>2, <1>3, <1>4 DEF d

\* Value octets without elements decode to an Array without elements.
LEMMA NoElements ==
  ASSUME NEW o, o.bytes.elems = << >>
  PROVE  /\ KeptElems(o) = << >> /\ ElementIds(KeptElems(o)) = << >>
         /\ o.cons => CanDecode(o) /\ NewElems(o) = << >>
<1>1. KeptElems(o) = << >> BY DEF KeptElems
<1>2. ElementIds(<< >>) = << >> /\ Whole(<< >>) = << >> BY DEF ElementIds, Whole
<1>3. o.cons => CanDecode(o) BY DEF CanDecode
<1> QED BY <1>1, <1>2, <1>3 DEF NewElems

\* The history of an object whose value was read.
ReadAs(g, h, o) ==
  /\ g \in HistType
  /\ g.src = h.src /\ g.touched = h.touched /\ g.retag = h.retag /\ g.flip = h.flip
  /\ g.bits = h.bits /\ g.lost = (h.lost \/ LosesValue(o))

\* Reading the value of an object keeps what is known of it.
LEMMA DecodeKeepsNode ==
  ASSUME NEW o \in Object, NEW h \in HistType, NEW g,
         ObjInv(o, h), NodeInv(o, h), ReadAs(g, h, o)
  PROVE  /\ NodeInv(AfterDecode(o), g)
         /\ ElementInv(o, h) => ElementInv(AfterDecode(o), g)
<1> DEFINE d == AfterDecode(o)
<1>1. DecodeResult(d, o) BY DecodeEffect DEF ObjInv
<1> HIDE DEF d
<1>2. NoBytes.null /\ NoBytes.tok = << >> /\ NoBytes.elems = << >> BY DEF NoBytes
<1>3. HeaderInv(o) /\ ContentInv(o) /\ HistoryInv(o, h) /\ BitsInv(o, h)
      /\ WrappedLengthInv(o, h) /\ SourceInv(o, h) BY DEF NodeInv
<1>4. \A ids : Ary(ids).kind = "ary" /\ Ary(ids).ids = ids BY DEF Ary
<1>5. HeaderInv(d) BY <1>1, <1>3 DEF DecodeResult, DecodedFrom, HeaderInv
<1>6. ElementInv(o, h) => (h.src # << >> /\ ~h.touched => ~LosesValue(o))
  BY <1>3 DEF ElementInv, SourceInv, HistoryInv, LosesValue
<1>7. CASE d = o
  <2>1. HistoryInv(o, g) /\ BitsInv(o, g) /\ WrappedLengthInv(o, g) /\ SourceInv(o, g)
    BY <1>3 DEF ReadAs, HistoryInv, BitsInv, WrappedLengthInv, SourceInv
  <2>2. ElementInv(o, h) => ElementInv(o, g) BY <1>6 DEF ReadAs, ElementInv
  <2> QED BY <1>3, <1>7, <2>1, <2>2 DEF NodeInv, d
<1>8. CASE ~o.decoded /\ o.cons /\ CanDecode(o)
  <2>1. /\ DecodedFrom(d, o) /\ d.bytes = NoBytes /\ d.decoded = TRUE
        /\ d.at_value.kind = "ary" /\ d.at_value.ids = ElementIds(KeptElems(o))
    BY <1>1, <1>4, <1>8 DEF DecodeResult
  <2>2. ContentInv(d) BY <1>2, <1>8, <2>1, EmptyConstructed DEF ContentInv, DecodedFrom
  <2>3. HistoryInv(d, g) BY <1>2, <1>3, <1>8, <2>1 DEF HistoryInv, ReadAs, DecodedFrom
  <2>4. BitsInv(d, g) /\ WrappedLengthInv(d, g) BY <1>2, <2>1 DEF BitsInv, WrappedLengthInv
  <2>5. SourceInv(d, g) BY <1>3, <1>8, <2>1 DEF SourceInv, ReadAs, DecodedFrom
  <2>6. ElementInv(o, h) => ElementInv(d, g)
    <3> SUFFICES ASSUME ElementInv(o, h)
                 PROVE  ElementInv(d, g)
      OBVIOUS
    <3>1. h.retag /\ h.touched BY <1>3, <1>8 DEF ElementInv, HistoryInv
    <3>2. ElementIds(KeptElems(o)) = << >> BY NoElements DEF ElementInv
    <3> QED BY <1>2, <2>1, <3>1, <3>2 DEF ElementInv, ReadAs
  <2> QED BY <1>5, <2>2, <2>3, <2>4, <2>5, <2>6 DEF NodeInv, d
<1>9. CASE ~o.decoded /\ o.cons /\ ~CanDecode(o)
  <2>1. /\ DecodedFrom(d, o) /\ d.bytes = NoBytes /\ d.decoded = FALSE
        /\ d.at_value = o.at_value BY <1>1, <1>9 DEF DecodeResult
  <2>2. g.lost = TRUE BY <1>9 DEF ReadAs, LosesValue, HistType
  <2>3. ContentInv(d) BY <1>2, <1>9, <2>1, EmptyConstructed DEF ContentInv, DecodedFrom
  <2>4. HistoryInv(d, g) BY <1>2, <1>3, <1>9, <2>1 DEF HistoryInv, ReadAs, DecodedFrom
  <2>5. BitsInv(d, g) /\ WrappedLengthInv(d, g) /\ SourceInv(d, g)
    BY <2>1, <2>2 DEF BitsInv, WrappedLengthInv, SourceInv
  <2>6. ~ElementInv(o, h) BY <1>9, NoElements DEF ElementInv
  <2> QED BY <1>5, <2>3, <2>4, <2>5, <2>6 DEF NodeInv, d
<1>10. CASE ~o.decoded /\ ~o.cons /\ CanDecode(o)
  <2>1. /\ DecodedFrom(d, o) /\ d.bytes = o.bytes /\ d.decoded = TRUE
        /\ d.at_value.kind # "ary" /\ d.at_value.ids = << >>
        /\ o.codec = "bit_string" => o.bytes.tok # << >> /\ d.at_unused_bits = o.bytes.tok[1].v
    BY <1>1, <1>10 DEF DecodeResult
  <2>2. ContentInv(d) BY <1>3, <1>10, <2>1 DEF ContentInv, DecodedFrom
  <2>3. HistoryInv(d, g) BY <1>3, <1>10, <2>1 DEF HistoryInv, ReadAs, DecodedFrom
  <2>4. BitsInv(d, g) BY <2>1 DEF BitsInv, DecodedFrom
  <2>5. WrappedLengthInv(d, g)
    BY <1>3, <1>10, <2>1 DEF WrappedLengthInv, HistoryInv, ReadAs, DecodedFrom
  <2>6. SourceInv(d, g) BY <1>3, <1>10, <2>1 DEF SourceInv, ReadAs, DecodedFrom
  <2>7. ElementInv(o, h) => ElementInv(d, g)
    BY <1>6, <1>10, <2>1 DEF ElementInv, ReadAs, DecodedFrom
  <2> QED BY <1>5, <2>2, <2>3, <2>4, <2>5, <2>6, <2>7 DEF NodeInv, d
<1> QED BY <1>1, <1>7, <1>8, <1>9, <1>10 DEF DecodeResult

\* tag_class= that turns explicit tagging on or off, and reads the value.
LEMMA ToggleKeepsNode ==
  ASSUME NEW o \in Object, NEW h \in HistType, NEW sym \in TagClassSymbol, NEW g,
         count \in Nat, o.at_value.ids \in Seq(ElementId),
         ObjInv(o, h), NodeInv(o, h), DecodeOk(Reclassed(o, sym)),
         g \in HistType, g.touched = TRUE, g.flip = FALSE, g.src = h.src, g.retag = h.retag
  PROVE  LET d == DecodedDone(Reclassed(o, sym), sym)
         IN  NodeInv(d, g) /\ (ElementInv(o, h) => ElementInv(d, g))
<1> DEFINE r == Reclassed(o, sym)
           x == AfterDecode(r)
           y == int_invalidate_value(x)
           d == ClassDone(y, sym)
<1>1. /\ r \in Object /\ r.tag_bytes = << >>
      /\ r.tag_class = tag_class_for_id(sym) /\ r.explicit = (sym = "EXPLICIT")
      /\ r.cons = o.cons /\ r.bytes = o.bytes
      /\ r.default_tag = o.default_tag /\ r.at_value = o.at_value
      /\ r.cb = o.cb /\ r.decoded = o.decoded BY RetaggedFields
<1>2. DecodeOk(r) OBVIOUS
<1> HIDE DEF r
<1>3. BytesInv(r) BY <1>1 DEF ObjInv, BytesInv
<1>4. DecodeResult(x, r) BY <1>1, <1>3, DecodeEffect
<1> HIDE DEF x
<1>5. /\ x.tag_bytes = << >> /\ x.tag_class = tag_class_for_id(sym)
      /\ x.explicit = (sym = "EXPLICIT") /\ x.cons = o.cons
      /\ x.default_tag = o.default_tag /\ x.cb = o.cb BY <1>1, <1>4 DEF DecodeResult, DecodedFrom
<1>6. x.decoded BY <1>2, <1>4 DEF DecodeResult, DecodeOk
<1>7. /\ y.length_bytes = << >> /\ y.bytes = NoBytes
      /\ y.tag_bytes = x.tag_bytes /\ y.tag_class = x.tag_class /\ y.cons = x.cons
      /\ y.default_tag = x.default_tag /\ y.explicit = x.explicit
      /\ y.at_value = x.at_value /\ y.cb = x.cb /\ y.decoded = x.decoded
      /\ y \in Object
  <2>1. x \in Object BY <1>1, <1>3, DecodeInv DEF x, DecodedOnly, ObjInv, CodecInv, ArrayInv
  <2>2. NoBytes \in Bytes BY EmptyAndSingle DEF NoBytes, Bytes
  <2> QED BY <2>1, <2>2, EmptyAndSingle DEF int_invalidate_value, int_invalidate_length, Object
<1> HIDE DEF y
<1>8. /\ d.length_bytes = << >> /\ d.bytes = NoBytes /\ d.modified = TRUE
      /\ d.tag_bytes = << >> /\ d.tag_class = tag_class_for_id(sym) /\ d.cons = o.cons
      /\ d.default_tag = o.default_tag /\ d.explicit = (sym = "EXPLICIT")
      /\ d.at_value = x.at_value /\ d.cb = o.cb /\ d.decoded = x.decoded
  BY <1>5, <1>7 DEF ClassDone, Object
<1> HIDE DEF d
<1>9. Emptied(d) /\ Len(d.tag_bytes) <= 1 BY <1>8, Len(<< >>) = 0 DEF Emptied
<1>10. d.explicit => d.tag_class = "CONTEXT_SPECIFIC" BY <1>8 DEF tag_class_for_id
<1>11. d.cb => d.default_tag = -1 BY <1>8 DEF NodeInv, HeaderInv
<1>12. NodeInv(d, g) BY <1>6, <1>8, <1>9, <1>10, <1>11, EmptiedNode
<1>13. ElementInv(o, h) => ElementInv(d, g)
  <2> SUFFICES ASSUME ElementInv(o, h)
               PROVE  ElementInv(d, g)
    OBVIOUS
  <2>1. NoBytes.elems = << >> BY DEF NoBytes
  <2>2. KeptElems(r) = << >> /\ ElementIds(KeptElems(r)) = << >>
    BY <1>1, NoElements DEF ElementInv
  <2>3. \A ids : Ary(ids).kind = "ary" /\ Ary(ids).ids = ids BY DEF Ary
  <2>4. x.at_value.ids = << >>
    BY <1>1, <1>2, <1>4, <2>2, <2>3 DEF DecodeResult, DecodeOk, ElementInv
  <2>5. ~h.retag => x.at_value.kind # "ary"
    BY <1>1, <1>2, <1>4 DEF DecodeResult, DecodeOk, ElementInv
  <2> QED BY <1>6, <1>8, <2>1, <2>4, <2>5 DEF ElementInv
<1> QED BY <1>12, <1>13 DEF d, y, x, r, DecodedDone

\* tag_class= that raises half way.
LEMMA FailedToggleKeepsNode ==
  ASSUME NEW o \in Object, NEW h \in HistType, NEW sym \in TagClassSymbol, NEW g,
         ObjInv(o, h), NodeInv(o, h), ~DecodeOk(Reclassed(o, sym)),
         g \in HistType, g.touched = TRUE, g.retag = TRUE, g.flip = h.flip, g.src = h.src,
         g.bits = h.bits
  PROVE  LET d == AfterDecode(Reclassed(o, sym))
         IN  NodeInv(d, g) /\ (ElementInv(o, h) => ElementInv(d, g))
<1> DEFINE r == Reclassed(o, sym)
           d == AfterDecode(r)
<1>1. /\ r \in Object /\ r.tag_bytes = << >>
      /\ r.tag_class = tag_class_for_id(sym) /\ r.explicit = (sym = "EXPLICIT")
      /\ r.cons = o.cons /\ r.inf = o.inf /\ r.bytes = o.bytes
      /\ r.length_bytes = o.length_bytes
      /\ r.default_tag = o.default_tag /\ r.at_value = o.at_value
      /\ r.cb = o.cb /\ r.decoded = o.decoded /\ (~o.cb => r.codec = o.codec) BY RetaggedFields
<1>2. ~r.decoded /\ ~CanDecode(r) BY DEF DecodeOk
<1> HIDE DEF r
<1>3. BytesInv(r) BY <1>1 DEF ObjInv, BytesInv
<1>4. DecodeResult(d, r) BY <1>1, <1>3, DecodeEffect
<1> HIDE DEF d
<1>5. /\ d.tag_bytes = << >> /\ d.tag_class = tag_class_for_id(sym)
      /\ d.explicit = (sym = "EXPLICIT") /\ d.cons = o.cons /\ d.inf = o.inf
      /\ d.length_bytes = o.length_bytes
      /\ d.default_tag = o.default_tag /\ d.cb = o.cb /\ d.codec = o.codec
      /\ d.decoded = FALSE /\ o.decoded = FALSE /\ d.at_value = o.at_value
      /\ d.bytes = IF o.cons THEN NoBytes ELSE o.bytes
  <2>1. o.decoded = FALSE /\ ~o.cb BY <1>1, <1>2 DEF ObjInv, CodecInv, Object
  <2>2. CASE o.cons BY <1>1, <1>2, <1>4, <2>1, <2>2 DEF DecodeResult, DecodedFrom, CanDecode
  <2>3. CASE ~o.cons BY <1>1, <1>2, <1>4, <2>1, <2>3 DEF DecodeResult, DecodedFrom
  <2> QED BY <2>2, <2>3
<1>6. NoBytes.null /\ NoBytes.tok = << >> /\ NoBytes.elems = << >> BY DEF NoBytes
<1>7. HeaderInv(d)
  <2>1. d.explicit => d.tag_class = "CONTEXT_SPECIFIC" BY <1>5 DEF tag_class_for_id
  <2> QED BY <1>5, <2>1, Len(<< >>) = 0 DEF NodeInv, HeaderInv
<1>8. ContentInv(d) BY <1>5, <1>6, EmptyConstructed DEF NodeInv, ContentInv
<1>9. HistoryInv(d, g)
  <2>1. h.src # << >> BY <1>5 DEF NodeInv, HistoryInv
  <2> QED BY <1>5, <1>6, <2>1 DEF NodeInv, HistoryInv
<1>10. BitsInv(d, g) /\ WrappedLengthInv(d, g) /\ SourceInv(d, g)
  BY <1>5 DEF BitsInv, WrappedLengthInv, SourceInv
<1>11. ElementInv(o, h) => ElementInv(d, g) BY <1>5, <1>6 DEF ElementInv
<1> QED BY <1>7, <1>8, <1>9, <1>10, <1>11 DEF NodeInv, d, r

-----------------------------------------------------------------------------
(* The objects in each step: NodesInv.                                     *)

\* A history that tells the same, but for what is stale.
HistoryAs(g, h) ==
  /\ g \in HistType
  /\ g.src = h.src /\ g.touched = h.touched /\ g.lost = h.lost /\ g.retag = h.retag
  /\ g.flip = h.flip /\ g.bits = h.bits

\* What is known of an object does not depend on whether its length is stale.
LEMMA SameHistoryNode ==
  ASSUME NEW o, NEW h, NEW g, HistoryAs(g, h)
  PROVE  (NodeInv(o, h) => NodeInv(o, g)) /\ (ElementInv(o, h) => ElementInv(o, g))
<1>1. NodeInv(o, h) => NodeInv(o, g)
  BY DEF HistoryAs, NodeInv, HistoryInv, BitsInv, WrappedLengthInv, SourceInv
<1>2. ElementInv(o, h) => ElementInv(o, g) BY DEF HistoryAs, ElementInv
<1> QED BY <1>1, <1>2

\* What a setter leaves of the histories of the other objects.
LEMMA StaleFacts ==
  ASSUME NodesOK, NEW n \in Node
  PROVE  /\ \A m \in Node : /\ HistoryAs(StaleAfter(n)[m], hist[m])
                            /\ m # Root => StaleAfter(n)[m] = hist[m]
         /\ StaleAfter(n)[Root].stale =
              (hist[Root].stale \/ (n # Root /\ obj[Root].length_bytes # << >>))
         /\ TouchedAs(Touched(n), hist[n])
         /\ Touched(n).stale = StaleAfter(n)[n].stale
         /\ StaleAfter(n) = [m \in Node |-> StaleAfter(n)[m]]
<1> DEFINE b == n # Root /\ obj[Root].length_bytes # << >>
           c == hist[Root].stale \/ b
           g == [hist[Root] EXCEPT !.stale = c]
<1>1. Root \in Node /\ \A m \in Node : hist[m] \in HistType BY NodeFacts DEF NodesOK, NodeOK
<1>2. hist = [m \in Node |-> hist[m]] BY DEF NodesOK
<1>3. StaleAfter(n) = [m \in Node |-> IF m = Root THEN g ELSE hist[m]]
  BY <1>1, <1>2 DEF StaleAfter
<1>4. c \in BOOLEAN BY <1>1 DEF HistType
<1> HIDE DEF c
<1>5. HistoryAs(g, hist[Root]) /\ g.stale = c
  <2>1. hist[Root] \in HistType BY <1>1
  <2> QED BY <1>4, <2>1 DEF HistoryAs, HistType
<1> HIDE DEF g
<1>6. \A m \in Node : HistoryAs(hist[m], hist[m]) BY <1>1 DEF HistoryAs
<1>7. \A m \in Node : /\ HistoryAs(StaleAfter(n)[m], hist[m])
                      /\ m # Root => StaleAfter(n)[m] = hist[m] BY <1>3, <1>5, <1>6
<1>8. StaleAfter(n)[Root].stale = c BY <1>1, <1>3, <1>5
<1>9. TouchedAs(Touched(n), hist[n]) /\ Touched(n).stale = StaleAfter(n)[n].stale
  <2> DEFINE f == StaleAfter(n)[n]
  <2>1. HistoryAs(f, hist[n]) BY <1>7
  <2>2. Touched(n) = [f EXCEPT !.touched = TRUE] BY DEF Touched
  <2> HIDE DEF f
  <2>3. TouchedAs(Touched(n), hist[n]) /\ Touched(n).stale = f.stale
    BY <2>1, <2>2 DEF HistoryAs, TouchedAs, HistType
  <2> QED BY <2>3 DEF f
<1> QED BY <1>3, <1>7, <1>8, <1>9 DEF c, b

\* A step that stores one object with its history.
LEMMA NodesUpdate ==
  ASSUME NodesOK, NodesInv, NEW n \in Live, NEW o, NEW h, NEW base,
         NodeInv(o, h), n # Root => ElementInv(o, h),
         \A m \in Node : HistoryAs(base[m], hist[m]) /\ (m # Root => base[m] = hist[m]),
         base = [m \in Node |-> base[m]],
         obj' = [obj EXCEPT ![n] = o], hist' = [base EXCEPT ![n] = h], count' = count
  PROVE  NodesInv'
<1>0. n \in Node /\ Root \in Node /\ Root \in Live BY NodeFacts DEF Live, NodesOK, Root, Node
<1>1. obj' = [m \in Node |-> IF m = n THEN o ELSE obj[m]] BY DEF NodesOK
<1>2. hist' = [m \in Node |-> IF m = n THEN h ELSE base[m]] OBVIOUS
<1>3. ASSUME NEW m \in Node
      PROVE  NodeInv(obj'[m], hist'[m]) /\ (m # Root => ElementInv(obj'[m], hist'[m]))
  <2>1. CASE m = n BY <1>1, <1>2, <2>1
  <2>2. CASE m # n
    <3>1. obj'[m] = obj[m] /\ hist'[m] = base[m] BY <1>1, <1>2, <2>2
    <3>2. NodeInv(obj[m], hist[m]) /\ (m # Root => ElementInv(obj[m], hist[m])) BY DEF NodesInv
    <3> QED BY <3>1, <3>2, SameHistoryNode
  <2> QED BY <2>1, <2>2
<1>4. Live' = Live BY DEF Live
<1>5. ASSUME NEW m \in Node \ Live
      PROVE  hist'[m] = NewHist(<<>>)
  <2>1. m # n /\ m # Root /\ hist[m] = NewHist(<<>>) BY <1>0 DEF NodesInv
  <2> QED BY <1>2, <2>1
<1> QED BY <1>3, <1>4, <1>5 DEF NodesInv

\* A step that stores one object with its history, and the elements it read.
LEMMA NodesStore ==
  ASSUME NodesOK, NodesInv, NEW n \in Live, NEW o, NEW h, NEW base, NEW elems \in Seq(Elem),
         NodeInv(o, h), n # Root => ElementInv(o, h),
         \A m \in Node : HistoryAs(base[m], hist[m]) /\ (m # Root => base[m] = hist[m]),
         \A i \in 1..Len(elems) :
           ~elems[i].id.cons /\ ~elems[i].len.inf /\ elems[i].len.n = Len(elems[i].oct),
         Store(n, o, elems), StoreHist(base, n, h, elems)
  PROVE  NodesInv'
<1> DEFINE fresh == (count + 1)..(count + Len(elems))
<1>1. count \in Nat /\ Len(elems) \in Nat /\ count' = count + Len(elems)
      /\ Root \in Live /\ n \in Node BY NodeFacts DEF NodesOK, Store, Live, Root, Node
<1>2. \A m \in Node : obj'[m] = IF m = n THEN o
                                ELSE IF m \in fresh
                                     THEN Parsed(elems[m - count].id, elems[m - count].len,
                                                 Primitive(elems[m - count].oct))
                                ELSE obj[m] BY DEF Store
<1>3. \A m \in Node : hist'[m] = IF m = n THEN h
                                 ELSE IF m \in fresh
                                      THEN NewHist(ElemTokens(elems[m - count]))
                                 ELSE base[m] BY DEF StoreHist
<1>4. ASSUME NEW m \in Node
      PROVE  NodeInv(obj'[m], hist'[m]) /\ (m # Root => ElementInv(obj'[m], hist'[m]))
  <2>1. CASE m = n BY <1>2, <1>3, <2>1
  <2>2. CASE m # n /\ m \in fresh
    <3> DEFINE e == elems[m - count]
    <3>1. m - count \in 1..Len(elems) BY <1>1, <2>2
    <3>2. e \in Elem /\ ~e.id.cons /\ ~e.len.inf /\ e.len.n = Len(e.oct) BY <3>1
    <3>3. obj'[m] = Parsed(e.id, e.len, Primitive(e.oct)) /\ hist'[m] = NewHist(ElemTokens(e))
      BY <1>2, <1>3, <2>2
    <3> HIDE DEF e
    <3> QED BY <3>2, <3>3, ElementNode
  <2>3. CASE m # n /\ m \notin fresh
    <3>1. obj'[m] = obj[m] /\ hist'[m] = base[m] BY <1>2, <1>3, <2>3
    <3>2. NodeInv(obj[m], hist[m]) /\ (m # Root => ElementInv(obj[m], hist[m])) BY DEF NodesInv
    <3> QED BY <3>1, <3>2, SameHistoryNode
  <2> QED BY <2>1, <2>2, <2>3
<1>5. ASSUME NEW m \in Node, m \notin Live'
      PROVE  hist'[m] = NewHist(<<>>)
  <2>0. Live' = 0..count' BY DEF Live
  <2>1. m \notin 0..(count + Len(elems)) BY <1>1, <1>5, <2>0
  <2>2. m \notin 0..count /\ m \notin fresh BY <1>1, <2>1
  <2>3. m \notin Live /\ m # n /\ m # Root BY <1>1, <2>2 DEF Live
  <2>4. hist[m] = NewHist(<<>>) BY <2>3 DEF NodesInv
  <2> QED BY <1>3, <2>2, <2>3, <2>4
<1> QED BY <1>4, <1>5 DEF NodesInv

\* A step of the encoder leaves the histories alone.
LEMMA NodesEncode ==
  ASSUME NodesInv, NEW f, obj' = [m \in Node |-> f[m]],
         \A m \in Node : /\ NodeInv(f[m], hist[m])
                         /\ ElementInv(obj[m], hist[m]) => ElementInv(f[m], hist[m]),
         hist' = hist, count' = count
  PROVE  NodesInv'
<1>1. \A m \in Node : obj'[m] = f[m] OBVIOUS
<1>2. Live' = Live BY DEF Live
<1> QED BY <1>1, <1>2 DEF NodesInv

\* What IInv and NodesInv say of each object.
LEMMA NodesFind ==
  ASSUME IInv, NodesInv
  PROVE  /\ NodesOK /\ CallOK /\ count \in Nat /\ Root \in Live /\ Live \subseteq Node
         /\ \A m \in Node : /\ NodeOK(obj[m], hist[m], count)
                            /\ obj[m] \in Object /\ hist[m] \in HistType /\ Sound(obj[m])
                            /\ obj[m].at_value.ids \in Seq(ElementId)
                            /\ ObjInv(obj[m], hist[m]) /\ NodeInv(obj[m], hist[m])
                            /\ m # Root => ElementInv(obj[m], hist[m])
<1>1. /\ NodesOK /\ CallOK /\ count \in Nat /\ Live \subseteq Node
      /\ \A m \in Node : NodeOK(obj[m], hist[m], count) BY EncoderFinds
<1>2. Root \in Live BY <1>1 DEF Live, Root
<1>3. \A m \in Node : NodeInv(obj[m], hist[m]) /\ (m # Root => ElementInv(obj[m], hist[m]))
  BY DEF NodesInv
<1>4. ASSUME NEW m \in Node
      PROVE  /\ obj[m] \in Object /\ hist[m] \in HistType /\ Sound(obj[m])
             /\ obj[m].at_value.ids \in Seq(ElementId) /\ ObjInv(obj[m], hist[m])
  BY <1>1 DEF NodeOK, ObjInv, ExplicitInv, Sound, ElementId
<1> QED BY <1>1, <1>2, <1>3, <1>4

\* NodesInv holds initially.
LEMMA InitNodes ==
  ASSUME Init
  PROVE  NodesInv
<1>1. PICK root, src : InitWith(root, src) /\ NodeInv(root, NewHist(src))
  <2>1. CASE \E w \in RootWires : InitWith(Parsed(w.id, w.len, w.bytes),
                                           << w.id, w.len >> \o w.bytes.tok) BY <2>1, WireNode
  <2>2. CASE \E a \in RootNews : InitWith(Created(a.value, a.tag, a.sym, a.default_tag), <<>>)
    BY <2>2, ConstantsAssumption, CreatedNode
  <2> QED BY <2>1, <2>2 DEF Init
<1>2. \A n \in Node : /\ obj[n] = IF n = Root THEN root ELSE Blank
                      /\ hist[n] = IF n = Root THEN NewHist(src) ELSE NewHist(<<>>)
  BY <1>1 DEF InitWith
<1>3. Root \in Live BY <1>1 DEF InitWith, Live, Root
<1> QED BY <1>1, <1>2, <1>3, BlankNode DEF NodesInv

\* Creating or parsing an object keeps NodesInv.
LEMMA NewNodes ==
  ASSUME IInv, NodesInv, NEW a \in ElemNews, New(a)
  PROVE  NodesInv'
<1> DEFINE o == Created(a.value, a.tag, a.sym, a.default_tag)
<1>1. /\ count \in Nat /\ count + 1 \in Node \ Live /\ obj = [m \in Node |-> obj[m]]
      /\ count + 1 # Root BY NodesFind, ConstantsAssumption DEF New, Live, Node, NodesOK, Root
<1>2. count' = count + 1 /\ obj' = [obj EXCEPT ![count + 1] = o] /\ hist' = hist BY DEF New
<1>3. NodeInv(o, NewHist(<<>>)) /\ ElementInv(o, NewHist(<<>>))
  BY ConstantsAssumption, CreatedNode
<1> HIDE DEF o
<1>4. ASSUME NEW m \in Node
      PROVE  NodeInv(obj'[m], hist[m]) /\ (m # Root => ElementInv(obj'[m], hist[m]))
  <2>1. CASE m = count + 1
    <3>1. obj'[m] = o /\ hist[m] = NewHist(<<>>) BY <1>1, <1>2, <2>1 DEF NodesInv
    <3> QED BY <1>3, <3>1
  <2>2. CASE m # count + 1
    <3>1. obj'[m] = obj[m] BY <1>1, <1>2, <2>2
    <3> QED BY <3>1 DEF NodesInv
  <2> QED BY <2>1, <2>2
<1>5. Live' = 0..(count + 1) BY <1>2 DEF Live
<1>6. ASSUME NEW m \in Node \ Live'
      PROVE  hist[m] = NewHist(<<>>)
  <2>1. m \notin 0..(count + 1) BY <1>5, <1>6
  <2>2. m \in Node \ Live BY <1>1, <1>6, <2>1 DEF Live
  <2> QED BY <2>2 DEF NodesInv
<1> QED BY <1>2, <1>4, <1>6 DEF NodesInv

\* Reading a value, which creates the objects of the elements, keeps NodesInv.
LEMMA GetValueNodes ==
  ASSUME IInv, NodesInv, NEW n \in Live, GetValue(n)
  PROVE  NodesInv'
<1> DEFINE o == obj[n]
           h == [hist[n] EXCEPT !.lost = @ \/ LosesValue(o)]
<1>1. /\ n \in Node /\ NodesOK /\ o \in Object /\ hist[n] \in HistType
      /\ ObjInv(o, hist[n]) /\ NodeInv(o, hist[n])
      /\ n # Root => ElementInv(o, hist[n])
      /\ \A m \in Node : hist[m] \in HistType BY NodesFind
<1>2. /\ Store(n, AfterDecode(o), NewElems(o))
      /\ StoreHist(hist, n, h, NewElems(o)) BY DEF GetValue
<1>3. ReadAs(h, hist[n], o) BY <1>1 DEF ReadAs, HistType
<1> HIDE DEF o, h
<1>4. /\ NodeInv(AfterDecode(o), h)
      /\ n # Root => ElementInv(AfterDecode(o), h) BY <1>1, <1>3, DecodeKeepsNode
<1>5. /\ NewElems(o) \in Seq(Elem)
      /\ \A i \in 1..Len(NewElems(o)) :
           /\ ~NewElems(o)[i].id.cons /\ ~NewElems(o)[i].len.inf
           /\ NewElems(o)[i].len.n = Len(NewElems(o)[i].oct) BY <1>1, NewElemsSound DEF ObjInv
<1>6. /\ \A m \in Node : HistoryAs(hist[m], hist[m]) /\ (m # Root => hist[m] = hist[m])
      /\ hist = [m \in Node |-> hist[m]] BY <1>1 DEF HistoryAs, NodesOK
<1> QED BY <1>1, <1>2, <1>4, <1>5, <1>6, NodesStore

\* A setter that stores one object.
LEMMA SetterNodes ==
  ASSUME IInv, NodesInv, NEW n \in Live, NEW o, NEW h, NodeInv(o, h),
         n # Root => ElementInv(o, h),
         obj' = [obj EXCEPT ![n] = o], hist' = [StaleAfter(n) EXCEPT ![n] = h], count' = count
  PROVE  NodesInv'
<1>1. NodesOK /\ n \in Node BY NodesFind
<1>2. /\ \A m \in Node : HistoryAs(StaleAfter(n)[m], hist[m])
                         /\ (m # Root => StaleAfter(n)[m] = hist[m])
      /\ StaleAfter(n) = [m \in Node |-> StaleAfter(n)[m]] BY <1>1, StaleFacts
<1> QED BY <1>1, <1>2, NodesUpdate

\* What is known of an object that a setter is called on.
LEMMA SetterNode ==
  ASSUME IInv, NodesInv, NEW n \in Live
  PROVE  /\ n \in Node /\ obj[n] \in Object /\ hist[n] \in HistType
         /\ ObjInv(obj[n], hist[n]) /\ NodeInv(obj[n], hist[n])
         /\ n # Root => ElementInv(obj[n], hist[n])
         /\ TouchedAs(Touched(n), hist[n])
         /\ count \in Nat /\ obj[n].at_value.ids \in Seq(ElementId) BY NodesFind, StaleFacts

\* tag= keeps NodesInv.
LEMMA SetTagNodes ==
  ASSUME IInv, NodesInv, NEW n \in Live, NEW t \in NewTags, SetTag(n, t)
  PROVE  NodesInv'
<1> DEFINE o == obj[n]
           r == [int_asn1_data_update_cb([int_invalidate_tag(o) EXCEPT !.tag = t])
                   EXCEPT !.modified = TRUE, !.at_tag = t]
<1>1. obj' = [obj EXCEPT ![n] = r] /\ hist' = [StaleAfter(n) EXCEPT ![n] = Touched(n)]
      /\ count' = count BY DEF SetTag
<1>2. t \in Tags BY ConstantsAssumption
<1>3. NodeInv(r, Touched(n)) /\ (n # Root => ElementInv(r, Touched(n)))
  BY <1>2, SetterNode, SetTagKeepsNode
<1> HIDE DEF r
<1> QED BY <1>1, <1>3, SetterNodes

\* infinite_length= keeps NodesInv.
LEMMA SetInfiniteLengthNodes ==
  ASSUME IInv, NodesInv, NEW n \in Live, SetInfiniteLength(n)
  PROVE  NodesInv'
<1> DEFINE o == obj[n]
           g == Touched(n)
           b == g.flip \/ ~o.bytes.null
           c == g.stale /\ n # Root
           r == [int_invalidate_length(o) EXCEPT
                   !.inf = ~o.inf, !.modified = TRUE, !.at_inf = ~o.inf]
           f == [g EXCEPT !.flip = b, !.stale = c]
<1>1. obj' = [obj EXCEPT ![n] = r] /\ hist' = [StaleAfter(n) EXCEPT ![n] = f]
      /\ count' = count BY DEF SetInfiniteLength
<1>2. TouchedAs(g, hist[n]) /\ hist[n] \in HistType /\ o \in Object BY SetterNode
<1> HIDE DEF g
<1>3. /\ f \in HistType /\ f.touched = TRUE /\ f.src = hist[n].src /\ f.lost = hist[n].lost
      /\ f.retag = hist[n].retag /\ f.flip = (hist[n].flip \/ ~o.bytes.null)
      /\ f.bits = hist[n].bits
  <2>1. b \in BOOLEAN /\ c \in BOOLEAN /\ g \in HistType
    BY <1>2 DEF TouchedAs, HistType, Object, Bytes
  <2>2. b = (hist[n].flip \/ ~o.bytes.null) BY <1>2 DEF TouchedAs
  <2> HIDE DEF b, c
  <2>3. f \in HistType /\ f.flip = b /\ f.touched = g.touched /\ f.src = g.src
        /\ f.lost = g.lost /\ f.retag = g.retag /\ f.bits = g.bits BY <2>1 DEF HistType
  <2> QED BY <1>2, <2>2, <2>3 DEF TouchedAs
<1> HIDE DEF f
<1>4. NodeInv(r, f) /\ (n # Root => ElementInv(r, f))
  BY <1>2, <1>3, SetterNode, SetInfiniteLengthKeepsNode
<1> HIDE DEF r
<1> QED BY <1>1, <1>4, SetterNodes

\* value= keeps NodesInv.
LEMMA SetValueNodes ==
  ASSUME IInv, NodesInv, NEW n \in Live, NEW v \in Value, SetValue(n, v),
         n # Root => v.kind # "ary" /\ v.ids = << >>
  PROVE  NodesInv'
<1> DEFINE isAry == v.kind = "ary"
           p == [int_invalidate_value(obj[n]) EXCEPT !.at_value = v, !.modified = TRUE]
           r == IF p.cons = isAry THEN p
                ELSE [int_invalidate_tag(p) EXCEPT
                        !.cons = isAry, !.codec = int_codec_for(p.tag, p.tag_class)]
<1>1. obj' = [obj EXCEPT ![n] = r] /\ count' = count
      /\ hist' = [StaleAfter(n) EXCEPT ![n] = Refreshed(Touched(n))] BY DEF SetValue
<1>2. NodeInv(r, Refreshed(Touched(n)))
      /\ (n # Root => ElementInv(r, Refreshed(Touched(n)))) BY SetterNode, SetValueKeepsNode
<1> HIDE DEF r
<1> QED BY <1>1, <1>2, SetterNodes

\* unused_bits= keeps NodesInv.
LEMMA SetUnusedBitsNodes ==
  ASSUME IInv, NodesInv, NEW n \in Live, NEW bits \in NewBits, SetUnusedBits(n, bits)
  PROVE  NodesInv'
<1> DEFINE o == obj[n]
           r == [o EXCEPT !.at_unused_bits = bits]
           c == hist[n].bits \/ (o.decoded /\ ~o.bytes.null)
           f == [hist[n] EXCEPT !.touched = TRUE, !.bits = c]
<1>1. NodesOK /\ \A m \in Node : hist[m] \in HistType BY NodesFind
<1>2. hist' = [hist EXCEPT ![n].touched = TRUE, ![n].bits = c]
      /\ obj' = [obj EXCEPT ![n].at_unused_bits = bits] /\ count' = count
      /\ o.default_tag = BIT_STRING BY DEF SetUnusedBits
<1>3. n \in Node /\ o \in Object /\ hist[n] \in HistType BY SetterNode
<1>4. obj' = [obj EXCEPT ![n] = r] BY <1>2
<1>5. hist' = [hist EXCEPT ![n] = f] BY <1>1, <1>2, <1>3 DEF NodesOK
<1>6. bits \in Bits BY ConstantsAssumption DEF Bits
<1>7. /\ f \in HistType /\ f.touched = TRUE /\ f.src = hist[n].src /\ f.lost = hist[n].lost
      /\ f.retag = hist[n].retag /\ f.flip = hist[n].flip
      /\ f.bits = (hist[n].bits \/ (o.decoded /\ ~o.bytes.null))
  <2>1. c \in BOOLEAN /\ hist[n] \in HistType BY <1>3 DEF HistType, Object, Bytes
  <2> HIDE DEF c
  <2>2. f \in HistType /\ f.touched = TRUE /\ f.src = hist[n].src /\ f.lost = hist[n].lost
        /\ f.retag = hist[n].retag /\ f.flip = hist[n].flip /\ f.bits = c BY <2>1 DEF HistType
  <2> QED BY <2>2 DEF c
<1> HIDE DEF f
<1>8. NodeInv(r, f) /\ (n # Root => ElementInv(r, f))
  BY <1>2, <1>3, <1>6, <1>7, SetterNode, SetUnusedBitsKeepsNode
<1> HIDE DEF r
<1>9. /\ \A m \in Node : HistoryAs(hist[m], hist[m]) /\ (m # Root => hist[m] = hist[m])
      /\ hist = [m \in Node |-> hist[m]] BY <1>1 DEF HistoryAs, NodesOK
<1> QED BY <1>1, <1>2, <1>4, <1>5, <1>8, <1>9, NodesUpdate

\* tag_class= keeps NodesInv, whether it decodes the value, raises half way or
\* does neither.
LEMMA SetTagClassNodes ==
  ASSUME IInv, NodesInv, NEW n \in Live, NEW sym \in TagClassSymbol, SetTagClass(n, sym)
  PROVE  NodesInv'
<1> DEFINE o == obj[n]
           r == Reclassed(o, sym)
           g == Touched(n)
<1>1. /\ n \in Node /\ o \in Object /\ hist[n] \in HistType
      /\ ObjInv(o, hist[n]) /\ NodeInv(o, hist[n])
      /\ n # Root => ElementInv(o, hist[n])
      /\ TouchedAs(g, hist[n])
      /\ count \in Nat /\ o.at_value.ids \in Seq(ElementId) BY SetterNode
<1>2. NodesOK BY NodesFind
<1>3. /\ \A m \in Node : HistoryAs(StaleAfter(n)[m], hist[m])
                         /\ (m # Root => StaleAfter(n)[m] = hist[m])
      /\ StaleAfter(n) = [m \in Node |-> StaleAfter(n)[m]] BY <1>1, <1>2, StaleFacts
<1>4. \/ /\ ~TogglesExplicit(o, sym)
         /\ Store(n, ClassDone(r, sym), <<>>)
         /\ hist' = [StaleAfter(n) EXCEPT ![n] = g]
      \/ /\ TogglesExplicit(o, sym) /\ DecodeOk(r)
         /\ Store(n, DecodedDone(r, sym), NewElems(r))
         /\ StoreHist(StaleAfter(n), n,
                      [Refreshed(g) EXCEPT !.lost = @ \/ LosesValue(r)], NewElems(r))
      \/ /\ TogglesExplicit(o, sym) /\ ~DecodeOk(r)
         /\ Store(n, AfterDecode(r), <<>>)
         /\ hist' = [StaleAfter(n) EXCEPT ![n] = [g EXCEPT !.retag = TRUE,
                                                   !.lost = @ \/ LosesValue(r)]]
  BY DEF SetTagClass, Reclassed, ClassDone, DecodedDone
<1>5. g \in HistType BY <1>1 DEF TouchedAs
<1> HIDE DEF o, g
<1>6. CASE /\ ~TogglesExplicit(o, sym)
           /\ Store(n, ClassDone(r, sym), <<>>)
           /\ hist' = [StaleAfter(n) EXCEPT ![n] = g]
  <2>1. NodeInv(ClassDone(r, sym), g) /\ (n # Root => ElementInv(ClassDone(r, sym), g))
    BY <1>1, <1>6, SetTagClassKeepsNode
  <2>2. obj' = [obj EXCEPT ![n] = ClassDone(r, sym)] /\ count' = count
    BY <1>1, <1>2, <1>6, StoreNone
  <2> HIDE DEF r
  <2> QED BY <1>6, <2>1, <2>2, SetterNodes
<1>7. CASE /\ DecodeOk(r)
           /\ Store(n, DecodedDone(r, sym), NewElems(r))
           /\ StoreHist(StaleAfter(n), n,
                        [Refreshed(g) EXCEPT !.lost = @ \/ LosesValue(r)], NewElems(r))
  <2> DEFINE h == [Refreshed(g) EXCEPT !.lost = @ \/ LosesValue(r)]
  <2>1. /\ h \in HistType /\ h.touched = TRUE /\ h.flip = FALSE /\ h.src = hist[n].src
        /\ h.retag = hist[n].retag
    <3>1. g.touched = TRUE /\ g.src = hist[n].src /\ g.retag = hist[n].retag
      BY <1>1 DEF TouchedAs
    <3> QED BY <1>5, <3>1 DEF Refreshed, HistType
  <2>2. StoreHist(StaleAfter(n), n, h, NewElems(r)) BY <1>7
  <2> HIDE DEF h
  <2>3. NodeInv(DecodedDone(r, sym), h) /\ (n # Root => ElementInv(DecodedDone(r, sym), h))
    BY <1>1, <1>7, <2>1, ToggleKeepsNode
  <2>4. r \in Object /\ BytesInv(r)
    <3>1. /\ r \in Object /\ r.bytes = o.bytes /\ r.cons = o.cons BY <1>1, RetaggedFields
    <3>2. BytesInv(o) BY <1>1 DEF ObjInv
    <3> HIDE DEF r
    <3> QED BY <3>1, <3>2 DEF BytesInv
  <2> HIDE DEF r
  <2>5. /\ NewElems(r) \in Seq(Elem)
        /\ \A i \in 1..Len(NewElems(r)) :
             /\ ~NewElems(r)[i].id.cons /\ ~NewElems(r)[i].len.inf
             /\ NewElems(r)[i].len.n = Len(NewElems(r)[i].oct) BY <2>4, NewElemsSound
  <2> QED BY <1>2, <1>3, <1>7, <2>2, <2>3, <2>5, NodesStore
<1>8. CASE /\ ~DecodeOk(r)
           /\ Store(n, AfterDecode(r), <<>>)
           /\ hist' = [StaleAfter(n) EXCEPT ![n] = [g EXCEPT !.retag = TRUE,
                                                     !.lost = @ \/ LosesValue(r)]]
  <2> DEFINE h == [g EXCEPT !.retag = TRUE, !.lost = @ \/ LosesValue(r)]
  <2>1. /\ h \in HistType /\ h.touched = TRUE /\ h.retag = TRUE /\ h.flip = hist[n].flip
        /\ h.src = hist[n].src /\ h.bits = hist[n].bits
    <3>1. g.touched = TRUE /\ g.src = hist[n].src /\ g.flip = hist[n].flip
          /\ g.bits = hist[n].bits BY <1>1 DEF TouchedAs
    <3> QED BY <1>5, <3>1 DEF HistType
  <2>2. hist' = [StaleAfter(n) EXCEPT ![n] = h] BY <1>8
  <2> HIDE DEF h
  <2>3. NodeInv(AfterDecode(r), h) /\ (n # Root => ElementInv(AfterDecode(r), h))
    BY <1>1, <1>8, <2>1, FailedToggleKeepsNode
  <2>4. obj' = [obj EXCEPT ![n] = AfterDecode(r)] /\ count' = count
    BY <1>1, <1>2, <1>8, StoreNone
  <2> HIDE DEF r
  <2> QED BY <2>2, <2>3, <2>4, SetterNodes
<1> QED BY <1>4, <1>6, <1>7, <1>8

\* A step of the encoder that stores one object.
LEMMA EncoderNode ==
  ASSUME IInv, NodesInv, NEW n \in Live, NEW o, NodeInv(o, hist[n]),
         n # Root => ElementInv(o, hist[n]),
         obj' = [obj EXCEPT ![n] = o], hist' = hist, count' = count
  PROVE  NodesInv'
<1> DEFINE f == [m \in Node |-> IF m = n THEN o ELSE obj[m]]
<1>1. obj' = [m \in Node |-> f[m]] BY EncoderFinds
<1>2. ASSUME NEW m \in Node
      PROVE  NodeInv(f[m], hist[m])
             /\ (m # Root => ElementInv(f[m], hist[m]))
  <2>1. f[m] = IF m = n THEN o ELSE obj[m] OBVIOUS
  <2> HIDE DEF f
  <2> QED BY <2>1, NodesFind
<1> HIDE DEF f
<1>3. \A m \in Node : f[m] = obj'[m] BY <1>1
<1>4. Live' = Live BY DEF Live
<1> QED BY <1>2, <1>3, <1>4 DEF NodesInv

\* Encoding an object whose value is no Array keeps NodesInv.
LEMMA ToDerScalarNodes ==
  ASSUME IInv, NodesInv, NEW n \in Live, ToDerScalar(n)
  PROVE  NodesInv'
<1> DEFINE q == EncodeScalar(obj[n]).obj
<1>1. obj' = [obj EXCEPT ![n] = q] /\ hist' = hist /\ count' = count BY DEF ToDerScalar
<1>2. /\ n \in Node /\ Sound(obj[n]) /\ hist[n] \in HistType
      /\ ObjInv(obj[n], hist[n]) /\ NodeInv(obj[n], hist[n])
      /\ n # Root => ElementInv(obj[n], hist[n]) BY NodesFind
<1>3. NodeInv(q, hist[n]) /\ (n # Root => ElementInv(q, hist[n])) BY <1>2, ScalarKeepsNode
<1> HIDE DEF q
<1> QED BY <1>1, <1>3, EncoderNode

\* An object with an Array, once its header is out.
LEMMA BegunNode ==
  ASSUME IInv, NodesInv, NEW n \in Live, obj[n].bytes.null, obj[n].at_value.kind = "ary",
         NEW b \in BOOLEAN, b => obj[n].modified
  PROVE  LET q == [HeaderFirst(Outer(obj[n])) EXCEPT !.modified = b]
         IN  /\ n \in Node /\ NodeInv(q, hist[n]) /\ (n # Root => ElementInv(q, hist[n]))
<1> DEFINE q == [HeaderFirst(Outer(obj[n])) EXCEPT !.modified = b]
<1>1. /\ n \in Node /\ obj[n] \in Object /\ hist[n] \in HistType
      /\ ObjInv(obj[n], hist[n]) /\ NodeInv(obj[n], hist[n])
      /\ n # Root => ElementInv(obj[n], hist[n]) BY NodesFind
<1>2. NodeInv(q, hist[n]) /\ (n # Root => ElementInv(q, hist[n])) BY <1>1, BegunKeepsNode
<1> QED BY <1>1, <1>2

\* Assigning a field what it holds changes nothing.
LEMMA SameModified ==
  ASSUME NEW o \in Object
  PROVE  [o EXCEPT !.modified = o.modified] = o
  BY DEF Object

\* Its header, with the flag that HeaderFirst leaves alone.
LEMMA BegunObject ==
  ASSUME IInv, NEW n \in Live
  PROVE  LET q == HeaderFirst(Outer(obj[n]))
         IN  /\ q \in Object /\ q.modified = obj[n].modified
             /\ SameIdentity(q, obj[n]) /\ q.bytes = obj[n].bytes
             /\ q.cons = (obj[n].cons \/ obj[n].explicit)
             /\ obj[n].modified \in BOOLEAN
             /\ [q EXCEPT !.modified = obj[n].modified] = q
             /\ IF obj[n].length_bytes # << >> \/ obj[n].inf
                THEN /\ q.tag_bytes = TagFor(obj[n], q.cons)
                     /\ \A c : q.length_bytes = LengthFor(obj[n], c)
                ELSE q.tag_bytes = obj[n].tag_bytes /\ q.length_bytes = obj[n].length_bytes
<1> DEFINE o == obj[n]
           p == Outer(o)
           q == HeaderFirst(p)
<1>1. o \in Object BY EncoderFinds DEF NodeOK
<1> HIDE DEF o
<1>2. /\ p \in Object /\ SameIdentity(p, o) /\ p.bytes = o.bytes /\ p.modified = o.modified
      /\ p.cons = (o.cons \/ o.explicit)
      /\ p.tag_bytes = o.tag_bytes /\ p.length_bytes = o.length_bytes
  BY <1>1 DEF Outer, Object, SameIdentity
<1> HIDE DEF p
<1>3. /\ q \in Object /\ SameIdentity(q, p)
      /\ q.cons = p.cons /\ q.bytes = p.bytes /\ q.modified = p.modified
      /\ IF p.length_bytes # << >> \/ p.inf THEN Headed(q, p, 0) ELSE q = p
  BY <1>2, HeaderFirstEffect
<1> HIDE DEF q
<1>4. SameIdentity(q, o) BY <1>2, <1>3 DEF SameIdentity
<1>5. IF o.length_bytes # << >> \/ o.inf
      THEN /\ q.tag_bytes = TagFor(o, q.cons)
           /\ \A c : q.length_bytes = LengthFor(o, c)
      ELSE q.tag_bytes = o.tag_bytes /\ q.length_bytes = o.length_bytes
  BY <1>2, <1>3 DEF Headed, TagFor, LengthFor, Computed, SameIdentity
<1>6. o.modified \in BOOLEAN /\ [q EXCEPT !.modified = o.modified] = q
  BY <1>1, <1>2, <1>3, SameModified DEF Object
<1> QED BY <1>2, <1>3, <1>4, <1>5, <1>6 DEF o, p, q

\* The beginning of the encoding of an Array keeps NodesInv.
LEMMA ToDerBeginNodes ==
  ASSUME IInv, NodesInv, NEW n \in Live, ToDerBegin(n)
  PROVE  NodesInv'
<1> DEFINE o     == obj[n]
           ids   == o.at_value.ids
           sorts == SortsElements(Holder(o)) /\ Len(ids) > 1
           x     == HeaderFirst(Outer(o))
<1>1. /\ n \in Node /\ count \in Nat /\ o \in Object /\ hist[n] \in HistType
      /\ ids \in Seq(ElementId) /\ ObjInv(o, hist[n])
      /\ n # Root => ElementInv(o, hist[n]) BY NodesFind
<1>2. /\ o.bytes.null /\ o.at_value.kind = "ary"
      /\ count' = count /\ hist' = hist BY DEF ToDerBegin
<1>3. PICK order \in IF sorts THEN SortedOrders(ids) ELSE {ids} :
        obj' = [obj EXCEPT ![n] = int_cons_sort_set(x, order)] BY DEF ToDerBegin
<1>4. order \in Seq(ElementId) /\ (ids = << >> => order = << >>)
  <2>1. CASE sorts
    <3>1. order \in Seq(ElementId) BY <1>1, <1>3, <2>1, SortedType
    <3>2. ids # << >> BY <1>1, <2>1
    <3> QED BY <3>1, <3>2
  <2>2. CASE ~sorts BY <1>1, <1>3, <2>2
  <2> QED BY <2>1, <2>2
<1>5. NodeInv(x, hist[n]) /\ (n # Root => ElementInv(x, hist[n]))
      /\ x \in Object /\ x.at_value = o.at_value
  <2>1. /\ x \in Object /\ x.at_value = o.at_value /\ o.modified \in BOOLEAN
        /\ [x EXCEPT !.modified = o.modified] = x BY BegunObject DEF SameIdentity
  <2>2. NodeInv([x EXCEPT !.modified = o.modified], hist[n])
        /\ (n # Root => ElementInv([x EXCEPT !.modified = o.modified], hist[n]))
    BY <1>2, <2>1, BegunNode
  <2> HIDE DEF x
  <2> QED BY <2>1, <2>2
<1>6. ObjInv(x, hist[n]) BY <1>1, <1>2, NodesFind, ArrayNode DEF NodeOK
<1>7. n # Root => ids = << >> BY <1>1 DEF ElementInv
<1>8. order \in Seq(Int) BY <1>1, <1>4 DEF ElementId, NilElem
<1> DEFINE y == int_cons_sort_set(x, order)
<1> HIDE DEF x, o, ids
<1>9. NodeInv(y, hist[n]) /\ (n # Root => ElementInv(y, hist[n]))
  BY <1>1, <1>2, <1>4, <1>5, <1>6, <1>7, <1>8, SortedKeepsNode
<1> HIDE DEF y
<1> QED BY <1>2, <1>3, <1>9, EncoderNode DEF y

\* An encoding refused before its elements keeps NodesInv.
LEMMA ToDerRefusedNodes ==
  ASSUME IInv, NodesInv, NEW n \in Live, ToDerRefused(n)
  PROVE  NodesInv'
<1> DEFINE o == obj[n]
           x == [HeaderFirst(Outer(o)) EXCEPT !.modified = FALSE]
           y == [o EXCEPT !.modified = FALSE]
<1>1. /\ o.bytes.null /\ o.at_value.kind = "ary"
      /\ count' = count /\ hist' = hist
      /\ obj' = [obj EXCEPT ![n] = IF o.explicit THEN x ELSE y] BY DEF ToDerRefused
<1>2. NodeInv(x, hist[n]) /\ (n # Root => ElementInv(x, hist[n])) BY <1>1, BegunNode
<1>3. NodeInv(y, hist[n]) /\ (n # Root => ElementInv(y, hist[n]))
  <2>1. /\ o \in Object /\ hist[n] \in HistType /\ NodeInv(o, hist[n])
        /\ n # Root => ElementInv(o, hist[n]) BY NodesFind
  <2> QED BY <1>1, <2>1, ResetKeepsNode
<1> HIDE DEF x, y
<1> QED BY <1>1, <1>2, <1>3, EncoderNode

\* Elements that were encoded.
LEMMA ElementsKept ==
  ASSUME IInv, NodesInv, NEW S
  PROVE  /\ EncodedElems(S) = [m \in Node |-> EncodedElems(S)[m]]
         /\ \A m \in Node : /\ NodeInv(EncodedElems(S)[m], hist[m])
                            /\ m # Root => ElementInv(EncodedElems(S)[m], hist[m])
<1>1. \A m \in Node : EncodedElems(S)[m] = IF m \in S THEN EncodeScalar(obj[m]).obj
                                           ELSE obj[m] BY DEF EncodedElems
<1>2. ASSUME NEW m \in Node
      PROVE  /\ NodeInv(EncodeScalar(obj[m]).obj, hist[m])
             /\ m # Root => ElementInv(EncodeScalar(obj[m]).obj, hist[m])
  BY NodesFind, ScalarKeepsNode
<1>3. EncodedElems(S) = [m \in Node |-> EncodedElems(S)[m]] BY DEF EncodedElems
<1> QED BY <1>1, <1>2, <1>3, NodesFind

\* A step that encodes elements, and stores one other object.
LEMMA ElementsNodes ==
  ASSUME IInv, NodesInv, NEW f, obj' = [m \in Node |-> f[m]],
         \A m \in Node : NodeInv(f[m], hist[m]) /\ (m # Root => ElementInv(f[m], hist[m])),
         hist' = hist, count' = count
  PROVE  NodesInv'
<1>1. \A m \in Node : obj'[m] = f[m] OBVIOUS
<1>2. Live' = Live BY DEF Live
<1> QED BY <1>1, <1>2 DEF NodesInv

\* A sort! that raises keeps NodesInv.
LEMMA ToDerSortRaisesNodes ==
  ASSUME IInv, NodesInv, NEW n \in Live, ToDerSortRaises(n)
  PROVE  NodesInv'
<1> DEFINE o == obj[n]
           x == HeaderFirst(Outer(o))
<1>1. /\ o.bytes.null /\ o.at_value.kind = "ary" /\ count' = count /\ hist' = hist
  BY DEF ToDerSortRaises
<1>2. PICK S : obj' = [EncodedElems(S) EXCEPT ![n] = x] BY DEF ToDerSortRaises
<1>3. NodeInv(x, hist[n]) /\ (n # Root => ElementInv(x, hist[n]))
  <2>1. o.modified \in BOOLEAN /\ [x EXCEPT !.modified = o.modified] = x BY BegunObject
  <2>2. NodeInv([x EXCEPT !.modified = o.modified], hist[n])
        /\ (n # Root => ElementInv([x EXCEPT !.modified = o.modified], hist[n]))
    BY <1>1, <2>1, BegunNode
  <2> HIDE DEF x
  <2> QED BY <2>1, <2>2
<1> HIDE DEF x
<1> DEFINE f == [m \in Node |-> IF m = n THEN x ELSE EncodedElems(S)[m]]
<1>4. EncodedElems(S) = [m \in Node |-> EncodedElems(S)[m]] BY ElementsKept
<1>5. obj' = [m \in Node |-> f[m]] BY <1>2, <1>4
<1>6. \A m \in Node : NodeInv(f[m], hist[m]) /\ (m # Root => ElementInv(f[m], hist[m]))
  BY <1>3, ElementsKept
<1> HIDE DEF f
<1> QED BY <1>1, <1>5, <1>6, ElementsNodes

\* Encoding an element keeps NodesInv.
LEMMA EncodeElementNodes ==
  ASSUME IInv, NodesInv, EncodeElement
  PROVE  NodesInv'
<1>1. PICK S : obj' = EncodedElems(S) BY DEF EncodeElement
<1>2. count' = count /\ hist' = hist BY DEF EncodeElement
<1> QED BY <1>1, <1>2, ElementsKept, ElementsNodes

\* An element that raises keeps NodesInv.
LEMMA EncodeElementFailsNodes ==
  ASSUME IInv, NodesInv, EncodeElementFails
  PROVE  NodesInv'
<1> DEFINE id == call.ids[call.i]
           e  == EncodedElems({id})
           c  == call.n
           b  == e[c].modified /\ RaisesTypeError(obj[id])
           x  == [e[c] EXCEPT !.modified = b]
           f  == [m \in Node |-> IF m = c THEN x ELSE e[m]]
<1>1. /\ obj' = IF id = NilElem THEN obj ELSE [e EXCEPT ![c].modified = b]
      /\ count' = count /\ hist' = hist /\ call.active BY DEF EncodeElementFails
<1>2. c \in Node /\ NodesOK /\ obj[c].bytes.null /\ obj[c].cons
  BY <1>1, EncoderFinds DEF CallOK, CallType
<1>3. CASE id = NilElem
  <2>1. obj' = [m \in Node |-> obj[m]] BY <1>1, <1>2, <1>3 DEF NodesOK
  <2> QED BY <1>1, <2>1, NodesFind, ElementsNodes
<1>4. CASE id # NilElem
  <2>1. /\ e = [m \in Node |-> e[m]]
        /\ \A m \in Node : NodeInv(e[m], hist[m]) /\ (m # Root => ElementInv(e[m], hist[m]))
        /\ \A m \in Node : NodeOK(e[m], hist[m], count) /\ KeepsValue(e[m], obj[m])
    BY ElementsKept, ElemsEncoded
  <2>2. e[c] \in Object /\ hist[c] \in HistType /\ b \in BOOLEAN /\ (b => e[c].modified)
    BY <1>2, <2>1 DEF NodeOK
  <2>4. obj' = [e EXCEPT ![c].modified = b] BY <1>1, <1>4
  <2> HIDE DEF e, b
  <2>3. e[c].bytes.null BY <1>2, <2>1 DEF KeepsValue
  <2>5. NodeInv(x, hist[c]) /\ (c # Root => ElementInv(x, hist[c]))
    BY <1>2, <2>1, <2>2, <2>3, ResetKeepsNode
  <2>6. obj' = [m \in Node |-> f[m]] BY <1>2, <2>1, <2>4
  <2>7. \A m \in Node : NodeInv(f[m], hist[m]) /\ (m # Root => ElementInv(f[m], hist[m]))
    BY <2>1, <2>5
  <2> HIDE DEF f
  <2> QED BY <1>1, <2>6, <2>7, ElementsNodes
<1> QED BY <1>3, <1>4

\* What is written for an Array is octets.
LEMMA WrittenType ==
  ASSUME IInv, call.active, NEW buf \in Seq(Token), NEW n \in Node
  PROVE  Written(obj[n], call.ids, buf) \in Seq(Token)
<1> DEFINE o == obj[n]
<1>1. o \in Object /\ (o.explicit => o.default_tag # -1)
  BY EncoderFinds DEF NodeOK, ObjInv, ExplicitInv
<1> HIDE DEF o
<1>2. CASE o.explicit
  <2> DEFINE inner == int_asn1_cons_encode_to(Wrapper(o), TRUE, buf)
  <2>1. Wrapper(o) \in Object BY <1>1, <1>2, WrappedType
  <2>2. inner.out \in Seq(Token) BY <2>1, ConsEncodeType DEF Attempt
  <2> HIDE DEF inner
  <2>3. WithEoc(o, inner.out) \in Seq(Token) BY <2>2, EocType DEF WithEoc
  <2> QED BY <1>2, <2>3 DEF Written, inner, o
<1>3. CASE ~o.explicit BY <1>3, EocType DEF Written, o
<1> QED BY <1>2, <1>3

\* The end of the encoding of an Array keeps NodesInv.
LEMMA ToDerEndNodes ==
  ASSUME IInv, NodesInv, LoopInv, ToDerEnd
  PROVE  NodesInv'
<1> DEFINE n == call.n
           o == obj[n]
           w == Written(o, call.ids, call.buf)
           q == [int_asn1_cons_encode_to(o, TRUE, w).obj EXCEPT !.modified = FALSE]
<1>1. /\ call.active /\ obj' = [obj EXCEPT ![n] = q]
      /\ count' = count /\ hist' = hist BY DEF ToDerEnd
<1>2. n \in Node /\ o.bytes.null /\ call.buf \in Seq(Token)
  BY <1>1, EncoderFinds DEF CallOK, CallType
<1>3. n \in Live /\ o.at_value.kind = "ary" BY <1>1 DEF LoopInv, Ary
<1>4. w \in Seq(Token) BY <1>1, <1>2, WrittenType
<1>5. /\ o \in Object /\ hist[n] \in HistType
      /\ ObjInv(o, hist[n]) /\ NodeInv(o, hist[n])
      /\ n # Root => ElementInv(o, hist[n]) BY <1>2, NodesFind
<1> HIDE DEF n, o, w
<1>6. NodeInv(q, hist[n]) /\ (n # Root => ElementInv(q, hist[n]))
  BY <1>2, <1>3, <1>4, <1>5, WrittenKeepsNode
<1> HIDE DEF q
<1> QED BY <1>1, <1>3, <1>6, EncoderNode

\* A step that changes no object and creates none.
LEMMA SameNodes ==
  ASSUME NodesInv, UNCHANGED << obj, count, hist >>
  PROVE  NodesInv'
  BY DEF NodesInv, Live

\* Every step keeps NodesInv.
LEMMA NodesStep ==
  ASSUME IInv, NodesInv, LoopInv, [Next]_vars
  PROVE  NodesInv'
<1>1. ASSUME NEW a \in ElemNews, New(a)
      PROVE  NodesInv'
  BY <1>1, NewNodes
<1>2. ASSUME NEW n \in Live,
             \/ GetValue(n)
             \/ \E t \in NewTags : SetTag(n, t)
             \/ \E sym \in TagClassSymbol : SetTagClass(n, sym)
             \/ SetInfiniteLength(n)
             \/ \E bits \in NewBits : SetUnusedBits(n, bits)
             \/ \E v \in NewValues : SetValue(n, v)
             \/ ToDerScalar(n)
             \/ ToDerBegin(n)
             \/ ToDerRefused(n)
             \/ ToDerSortRaises(n)
      PROVE  NodesInv'
  <2>1. CASE \E v \in NewValues : SetValue(n, v)
    <3>1. \A v \in NewValues : v \in Value /\ v.kind # "ary" /\ v.ids = << >>
      BY ConstantsAssumption
    <3> QED BY <2>1, <3>1, SetValueNodes
  <2> QED BY <1>2, <2>1, GetValueNodes, SetTagNodes, SetTagClassNodes, SetInfiniteLengthNodes,
    SetUnusedBitsNodes, ToDerScalarNodes, ToDerBeginNodes, ToDerRefusedNodes, ToDerSortRaisesNodes
<1>3. ASSUME NEW v \in Arrays, SetValue(Root, v)
      PROVE  NodesInv'
  <2>1. v \in Value BY ArraysType, NodesFind
  <2>2. Root \in Live BY NodesFind
  <2> QED BY <1>3, <2>1, <2>2, SetValueNodes
<1>4. CASE EncodeElement \/ EncodeElementFails \/ ToDerEnd
  BY <1>4, EncodeElementNodes, EncodeElementFailsNodes, ToDerEndNodes
<1>5. CASE ToDerEndRaises \/ UNCHANGED vars BY <1>5, SameNodes DEF ToDerEndRaises, vars
<1> QED BY <1>1, <1>2, <1>3, <1>4, <1>5 DEF Next

=============================================================================
