------------------------------- MODULE Codecs -------------------------------
(***************************************************************************)
(* Programs that encode values and decode octets: a value is encoded and   *)
(* what came out is decoded, or octets from elsewhere are decoded, the     *)
(* value is encoded again and decoded again.  The codecs keep no state, so *)
(* a program uses one of them, on one value.                               *)
(***************************************************************************)
EXTENDS Asn1Codec, FiniteSets, TLC

CONSTANTS
  INT_MAX, SIZE_MAX,   \* of HeaderCodec
  Values,              \* the values a program encodes, by type
  Received,            \* the octets or texts it is given, by type
  Columns              \* the line lengths it asks of Base64

HeaderCodec == INSTANCE HeaderCodec

TextCodec == INSTANCE TextCodec

Types == DOMAIN Values

\* The limits are those of binary numbers, and a length has less than 127
\* octets.
ASSUME LimitsAssumption ==
  /\ INT_MAX \in Nat /\ INT_MAX % 128 = 127
  /\ SIZE_MAX \in Nat /\ SIZE_MAX % 256 = 255
  /\ Len(HeaderCodec!DigitsIn(SIZE_MAX, 256)) < 127

\* A long has room for the two numbers in the first octet of an OBJECT
\* IDENTIFIER.
ASSUME LongAssumption == LONG_MAX >= 40 * 2 + 39

Octet == 0..Base - 1

\* The fields that Time.utc makes of what is given to it.
IsTime(time) == /\ time \in Seq(Nat) /\ Len(time) = 6
                /\ TimeUtc(time).ok

\* The characters of a time: digits, but for the last.
HasDigits(chars, n) == Len(chars) = n + 1 => \A i \in 1..n : chars[i] \in 0..9

\* An element of a SET begins with a header; elements with the header of
\* end-of-contents octets are these octets, and there are no two of them.
IsSet(elems) ==
  LET header(i) == HeaderCodec!krypt_asn1_next_header(elems[i])
      Ends(i)   == HeaderCodec!IsEndOfContents(header(i).value)
  IN  /\ elems \in Seq(Seq(0..255))
      /\ \A i \in DOMAIN elems : header(i).ok /\ (Ends(i) => elems[i] = <<0, 0>>)
      /\ \A i, j \in DOMAIN elems : Ends(i) /\ Ends(j) => i = j

ASSUME ValuesAssumption ==
  \A t \in Types : \A v \in Values[t] :
    CASE t = "BOOLEAN"             -> v \in BOOLEAN
      [] t = "INTEGER"             -> v \in Int /\ Magnitude(v) < 2^(LONG_BITS * MaxLongs)
      [] t = "BIT STRING"          -> v \in [unused_bits : Int, bits : Seq(Octet)]
      [] t = "OBJECT IDENTIFIER"   -> v \in Seq(Nat \cup {Malformed})
      [] t \in {"UTC TIME", "GENERALIZED TIME"} -> IsTime(v)
      [] t = "header"              -> v \in HeaderCodec!Header /\ (v.is_infinite => v.length = 0)
      [] t = "SET"                 -> IsSet(v)
      [] t \in {"Base64", "hex"}   -> v \in Seq(0..255)

ASSUME ReceivedAssumption ==
  /\ DOMAIN Received = Types
  /\ \A t \in Types : \A o \in Received[t] :
       CASE t \in {"BOOLEAN", "BIT STRING", "OBJECT IDENTIFIER"} -> o \in Seq(Octet)
         [] t = "INTEGER"          -> o \in Seq(Octet) /\ Len(o) <= SIZEOF_LONG * MaxLongs
         [] t = "UTC TIME"         -> o \in Seq(0..Zulu) /\ HasDigits(o, 12)
         [] t = "GENERALIZED TIME" -> o \in Seq(0..Zulu) /\ HasDigits(o, 14)
         [] t = "header"           -> o \in Seq(0..255)
         [] t = "SET"              -> FALSE
         [] t \in {"Base64", "hex"} -> o \in Seq(Int)

ASSUME ColumnsAssumption == Columns \subseteq Int

VARIABLES
  type,     \* what the octets are an encoding of
  phase,    \* what the program has: a value, octets, a value it had before
  first,    \* the first value it had
  value,    \* the value it has
  octets    \* the octets it has

vars == <<type, phase, first, value, octets>>

----------------------------------------------------------------------------
(* The codec of each type *)

\* Elements of a SET in an order that no adjacent pair contradicts: what
\* sorting by krypt_asn1_cmp_set_of may make of them.
Sorted(elems) ==
  {s \in {[i \in DOMAIN elems |-> elems[p[i]]] : p \in Bijection(DOMAIN elems, DOMAIN elems)} :
     \A i \in 1..Len(s) - 1 : HeaderCodec!krypt_asn1_cmp_set_of(s[i], s[i + 1]) <= 0}

\* The octets that a value may be encoded as.
EncodingsOf(v) ==
  CASE type = "BOOLEAN"           -> {Ok(int_asn1_encode_boolean(v))}
    [] type = "INTEGER"           -> {Ok(int_asn1_encode_integer(v))}
    [] type = "BIT STRING"        -> {int_asn1_encode_bit_string(v)}
    [] type = "OBJECT IDENTIFIER" -> {int_encode_object_id(v)}
    [] type = "UTC TIME"          -> {int_encode_utc_time(v)}
    [] type = "GENERALIZED TIME"  -> {int_encode_generalized_time(v)}
    [] type = "header"            -> {Ok(HeaderCodec!krypt_asn1_header_encode(v))}
    [] type = "SET"               -> {Ok(s) : s \in Sorted(v)}
    [] type = "Base64"            -> {Ok(TextCodec!krypt_base64_buffer_encode_to(v, c)) : c \in Columns}
    [] type = "hex"               -> {Ok(TextCodec!int_hex_encode(v))}

\* The values that octets may be decoded to.
ValuesOf(o) ==
  CASE type = "BOOLEAN"           -> {int_asn1_decode_boolean(o)}
    [] type = "INTEGER"           -> int_asn1_decode_integer(o)
    [] type = "BIT STRING"        -> {int_asn1_decode_bit_string(o)}
    [] type = "OBJECT IDENTIFIER" -> {int_decode_object_id(o)}
    [] type = "UTC TIME"          -> {int_parse_utc_time(o)}
    [] type = "GENERALIZED TIME"  -> {int_parse_generalized_time(o)}
    [] type = "header"            -> {HeaderCodec!krypt_asn1_next_header(o)}
    [] type = "SET"               -> {Ok(o)}
    [] type = "Base64"            -> {Ok(TextCodec!krypt_base64_buffer_decode_to(o))}
    [] type = "hex"               -> {TextCodec!int_hex_decode(o)}

----------------------------------------------------------------------------
Init == /\ type \in Types
        /\ phase = "nothing"
        /\ first = Failed /\ value = Failed /\ octets = Failed

\* A program makes a value of its own ...
New == /\ phase = "nothing"
       /\ \E v \in Values[type] : value' = Ok(v) /\ first' = Ok(v)
       /\ phase' = "value"
       /\ UNCHANGED <<type, octets>>

\* ... or is given octets.
Receive == /\ phase = "nothing"
           /\ \E o \in Received[type] : octets' = Ok(o)
           /\ phase' = "octets"
           /\ UNCHANGED <<type, first, value>>

Encode == /\ phase = "value"
          /\ octets' \in EncodingsOf(value.value)
          /\ phase' = IF octets'.ok THEN "octets" ELSE "failed"
          /\ UNCHANGED <<type, first, value>>

\* Decoding octets from elsewhere gives the first value.
Decode == /\ phase = "octets"
          /\ ~first.ok
          /\ value' \in ValuesOf(octets.value)
          /\ first' = value'
          /\ phase' = IF value'.ok THEN "value" ELSE "failed"
          /\ UNCHANGED <<type, octets>>

\* Decoding what was encoded before.
DecodeAgain == /\ phase = "octets"
               /\ first.ok
               /\ value' \in ValuesOf(octets.value)
               /\ phase' = "decoded"
               /\ UNCHANGED <<type, first, octets>>

Next == New \/ Receive \/ Encode \/ Decode \/ DecodeAgain

Spec == Init /\ [][Next]_vars

----------------------------------------------------------------------------
(* Where what a program has came from *)

IsFirst == \/ \E v \in Values[type] : first = Ok(v)
           \/ \E o \in Received[type] : first \in ValuesOf(o)

HasValue == /\ first.ok /\ IsFirst /\ value = first
            /\ \/ octets = Failed
               \/ octets.ok /\ octets.value \in Received[type] /\ first \in ValuesOf(octets.value)

HasOctets == /\ octets.ok
             /\ \/ first = Failed /\ octets.value \in Received[type]
                \/ first.ok /\ IsFirst /\ octets \in EncodingsOf(first.value)

WasDecoded == /\ first.ok /\ IsFirst /\ octets.ok
              /\ octets \in EncodingsOf(first.value)
              /\ value \in ValuesOf(octets.value)

HasFailed ==
  \/ /\ first.ok /\ IsFirst /\ ~octets.ok
     /\ octets \in EncodingsOf(first.value)
  \/ /\ ~first.ok /\ octets.ok /\ octets.value \in Received[type]
     /\ value \in ValuesOf(octets.value)

\* The inductive invariant of the proofs.
IInv ==
  /\ type \in Types
  /\ \/ phase = "nothing" /\ first = Failed /\ octets = Failed
     \/ phase = "value" /\ HasValue
     \/ phase = "octets" /\ HasOctets
     \/ phase = "decoded" /\ WasDecoded
     \/ phase = "failed" /\ HasFailed

----------------------------------------------------------------------------
(* Properties *)

Is(t) == type = t

HasDecoded == phase = "decoded" \/ (phase \in {"value", "failed"} /\ octets.ok)

HasEncoded == phase \in {"octets", "decoded"} /\ first.ok

\* A value that is encoded comes back when the octets are decoded.
Survives == /\ phase = "decoded" => value = first
            /\ phase = "failed" => ~first.ok

\* What the octets of an INTEGER mean: a number in two's complement.
Meaning(o) == Unsigned(o) - IF IsNegative(o) THEN 2^(CHAR_BIT * Len(o)) ELSE 0

IsShortest(o) == Len(o) = 1 \/ ~(\/ o[1] = 0 /\ o[2] < SignBit
                                 \/ o[1] = Base - 1 /\ o[2] >= SignBit)

\* The numbers whose octets fit an int, and those that the Bignum decoder
\* takes: between them int_decode_integer_to_long goes wrong.
DecodesRight(num) ==
  LET magnitude == IF num < 0 THEN -num ELSE num
      low  == 2^(INT_BITS - 1)
      high == 2^(CHAR_BIT * (SIZEOF_LONG - 1))
  IN  magnitude < low \/ num >= high \/ num < -(high \div 2)

\* By way of hex the sign of a negative Bignum is lost when its highest octet
\* is not negative.
EncodesRight(num) == HAVE_RB_BIG_PACK \/ IsFixnum(num) \/ num > 0 \/ IsNegative(EncodeHex(num))

\* INTEGER: octets and number always mean the same, whichever came first, and
\* the octets written are the shortest there are.  About the widths of
\* int_asn1_decode_integer and the extra octet of krypt_asn1_encode_integer;
\* the numbers for which the decoder is known to fail are the subject of
\* IntegersSurvive.
IntegersExact ==
  Is("INTEGER") =>
    /\ HasDecoded /\ octets.value # <<>> =>
         LET num == Meaning(octets.value)
         IN  DecodesRight(num) => value = Ok(num)
    /\ HasEncoded /\ EncodesRight(first.value) =>
         /\ Meaning(octets.value) = first.value
         /\ IsShortest(octets.value)

\* INTEGER: every number comes back as itself, whatever its size.  The comment
\* in int_asn1_decode_integer says that high numbers are taken care of.
IntegersSurvive == Is("INTEGER") => Survives

\* The numbers in the octets of an OBJECT IDENTIFIER, and whether each of them
\* fits a long.
SubIdMeanings(o) ==
  LET pieces == SubIds(o)
      nums   == [i \in DOMAIN pieces |-> DigitsOf(pieces[i])]
  IN  <<nums[1] \div 40, nums[1] % 40>> \o Tail(nums)

FitLong(nums) == \A i \in DOMAIN nums : nums[i] \in 0..LONG_MAX

\* OBJECT IDENTIFIER: octets and text always mean the same numbers, as long as
\* each of them fits a long, and every text of such numbers can be written.
\* About the limits of int_get_sub_id and int_parse_sub_id, which must neither
\* change nor refuse a number that fits; above LONG_MAX the first may wrap.
ObjectIdsExact ==
  Is("OBJECT IDENTIFIER") =>
    /\ HasDecoded /\ octets.value # <<>> =>
         LET nums == SubIdMeanings(octets.value)
         IN  Last(octets.value) < SignBit /\ nums[1] <= 2 /\ FitLong(nums) => value = Ok(nums)
    /\ first.ok =>
         LET nums == first.value
         IN  Len(nums) >= 2 /\ FitLong(nums) /\ nums[1] <= 2 /\ nums[2] <= 39 => Survives

\* What BOOLEAN, BIT STRING and the times can express: a UTC TIME has two
\* digits of a year between 1969 and 2068, a GENERALIZED TIME four.
Expressible ==
  CASE Is("BOOLEAN")          -> TRUE
    [] Is("BIT STRING")       -> first.value.unused_bits \in 0..CHAR_BIT - 1
    [] Is("UTC TIME")         -> first.value[1] \in 1970..2068
    [] Is("GENERALIZED TIME") -> first.value[1] \in 1970..9999
    [] OTHER                  -> FALSE

\* The other types: a value that the type can express comes back as itself,
\* also one that was decoded from octets of someone else.
ValuesSurvive == first.ok /\ Expressible => Survives

\* Headers: tag, class, length and the two flags come back for every tag number
\* and length up to the limits of the C types, none overflows on the way, and
\* the parser stops at the end of the header.
HeadersSurvive ==
  Is("header") /\ first.ok /\ (first.value.is_infinite => first.value.is_constructed) =>
    /\ phase = "decoded" => /\ value.ok
                            /\ value.value = first.value
                            /\ value.used = Len(octets.value)
    /\ first.value \in HeaderCodec!Header

IsLast(o, elems) == \A i \in DOMAIN elems : elems[i] = o => i = Len(elems)

\* SET: sorting gives one result, whatever order the elements were in, with the
\* end-of-contents octets at its end.
SetsCanonical ==
  Is("SET") /\ phase = "value" =>
    /\ Cardinality(Sorted(value.value)) = 1
    /\ \A s \in Sorted(value.value) : IsLast(<<0, 0>>, s)
    /\ \A p \in Bijection(DOMAIN value.value, DOMAIN value.value) :
         Sorted([i \in DOMAIN value.value |-> value.value[p[i]]]) = Sorted(value.value)

\* What the lines of a text decode to, each of them on its own.
LineByLine(text) ==
  LET Decoded(line) == TextCodec!krypt_base64_buffer_decode_to(line)
      upTo[i \in 0..Len(text)] ==
        IF i = 0 THEN [bytes |-> <<>>, line |-> <<>>]
        ELSE LET before == upTo[i - 1]
             IN  IF text[i] = TextCodec!LF
                 THEN [bytes |-> before.bytes \o Decoded(before.line), line |-> <<>>]
                 ELSE [bytes |-> before.bytes, line |-> Append(before.line, text[i])]
      all == upTo[Len(text)]
  IN  all.bytes \o Decoded(all.line)

\* Base64 and hex: octets come back from the text, whatever the line length;
\* and they come back from its lines decoded one by one, which is how the PEM
\* stream reads them.
TextsSurvive ==
  /\ Is("hex") => Survives
  /\ Is("Base64") =>
       /\ Survives
       /\ HasEncoded => LineByLine(octets.value) = first.value

=============================================================================
