---------------------------- MODULE HeaderCodec ----------------------------
(***************************************************************************)
(* Identifier and length octets (krypt_asn1-internal.c): how a header is   *)
(* encoded, how it is parsed with tag numbers and lengths of any number of *)
(* octets, and how encodings are compared when a SET is sorted.            *)
(***************************************************************************)
EXTENDS Integers, Sequences, SequencesExt, FiniteSetsExt, Numerals

CONSTANTS
  INT_MAX,    \* the largest tag number
  SIZE_MAX    \* the largest length

Parsed(header, used) == [ok |-> TRUE, value |-> header, used |-> used]

NotParsed == [ok |-> FALSE]

Header == [tag : 0..INT_MAX, tag_class : 0..3, is_constructed : BOOLEAN,
           is_infinite : BOOLEAN, length : 0..SIZE_MAX]

COMPLEX_TAG_MASK == 31

INFINITE_LENGTH_MASK == 128

KRYPT_ASN1_TAG_LIMIT == INT_MAX \div 128

KRYPT_ASN1_LENGTH_LIMIT == SIZE_MAX \div 256

----------------------------------------------------------------------------
(* Encoding *)

\* The digits of a number, the first of them not 0.
DigitsIn(n, base) ==
  LET digits[m \in Nat] == IF m = 0 THEN <<>> ELSE Append(digits[m \div base], m % base)
  IN  digits[n]

FirstOctet(header, low) ==
  64 * header.tag_class + (IF header.is_constructed THEN 32 ELSE 0) + low

int_compute_complex_tag(header) ==
  LET digits == DigitsIn(header.tag, 128)
  IN  <<FirstOctet(header, COMPLEX_TAG_MASK)>>
      \o [i \in DOMAIN digits |-> digits[i] + IF i < Len(digits) THEN 128 ELSE 0]

int_compute_tag_UpTo31(header) ==   \* mutant
  IF header.tag <= 31 THEN <<FirstOctet(header, header.tag)>> ELSE int_compute_complex_tag(header)

int_compute_tag(header) ==
  IF header.tag < 31 THEN <<FirstOctet(header, header.tag)>> ELSE int_compute_complex_tag(header)

int_compute_length(header) ==
  LET digits == DigitsIn(header.length, 256)
  IN  IF header.is_infinite THEN <<INFINITE_LENGTH_MASK>>
      ELSE IF header.length <= 127 THEN <<header.length>>
      ELSE <<INFINITE_LENGTH_MASK + Len(digits)>> \o digits

krypt_asn1_header_encode(header) == int_compute_tag(header) \o int_compute_length(header)

----------------------------------------------------------------------------
(* Parsing *)

\* The loops that add digit after digit to a number look at the limit before
\* each of them.
WithinLimit(digits, base, limit) ==
  \A i \in 1..Len(digits) - 1 : NumberOf(SubSeq(digits, 1, i), base) <= limit

Marked(octet) == octet >= INFINITE_LENGTH_MASK

\* int_parse_tag: the tag and the number of octets read.
int_parse_complex_tag(octets) ==
  LET last   == {i \in 2..Len(octets) : ~Marked(octets[i])}
      end    == Min(last)
      digits == [i \in 1..end - 1 |-> octets[i + 1] % 128]
  IN  IF last = {} \/ octets[2] = INFINITE_LENGTH_MASK THEN NotParsed
      ELSE IF ~WithinLimit(digits, 128, KRYPT_ASN1_TAG_LIMIT) THEN NotParsed
      ELSE Parsed(NumberOf(digits, 128), end)

int_parse_tag(octets) ==
  IF octets[1] % 32 = COMPLEX_TAG_MASK THEN int_parse_complex_tag(octets)
  ELSE Parsed(octets[1] % 32, 1)

\* int_parse_complex_definite_length and int_parse_length, on what follows
\* the tag.
int_parse_complex_definite_length(octets) ==
  LET num_bytes == octets[1] - INFINITE_LENGTH_MASK
      digits    == SubSeq(octets, 2, num_bytes + 1)
  IN  IF octets[1] = 255 \/ Len(octets) < num_bytes + 1 THEN NotParsed
      ELSE IF ~WithinLimit(digits, 256, KRYPT_ASN1_LENGTH_LIMIT) THEN NotParsed
      ELSE Parsed(NumberOf(digits, 256), num_bytes + 1)

int_parse_length(octets) ==
  IF octets = <<>> THEN NotParsed
  ELSE IF octets[1] > INFINITE_LENGTH_MASK THEN int_parse_complex_definite_length(octets)
  ELSE Parsed(octets[1] % INFINITE_LENGTH_MASK, 1)

krypt_asn1_next_header(octets) ==
  LET tag         == int_parse_tag(octets)
      rest        == SubSeq(octets, tag.used + 1, Len(octets))
      length      == int_parse_length(rest)
      infinite    == rest[1] = INFINITE_LENGTH_MASK
      constructed == (octets[1] \div 32) % 2 = 1
  IN  IF octets = <<>> THEN NotParsed
      ELSE IF ~tag.ok THEN NotParsed
      ELSE IF ~length.ok THEN NotParsed
      ELSE IF infinite /\ ~constructed THEN NotParsed
      ELSE Parsed([tag |-> tag.value, tag_class |-> octets[1] \div 64,
                   is_constructed |-> constructed, is_infinite |-> infinite,
                   length |-> length.value],
                  tag.used + length.used)

----------------------------------------------------------------------------
(* The order of the elements of a SET *)

IsEndOfContents(header) == header.tag = 0 /\ header.tag_class = 0

\* -1, 0 or 1 for sequences of octets, the shorter one first.
OctetOrder(s1, s2) ==
  LET common == 1..Min({Len(s1), Len(s2)})
      differ == {i \in common : s1[i] # s2[i]}
  IN  IF differ # {} THEN IF s1[Min(differ)] < s2[Min(differ)] THEN -1 ELSE 1
      ELSE IF Len(s1) = Len(s2) THEN 0
      ELSE IF Len(s1) < Len(s2) THEN -1 ELSE 1

\* krypt_asn1_cmp_set_of: -1, 0 or 1 for two encodings that begin with a header.
krypt_asn1_cmp_set_of_TagsOnly(s1, s2) ==   \* mutant
  krypt_asn1_next_header(s1).value.tag - krypt_asn1_next_header(s2).value.tag

krypt_asn1_cmp_set_of(s1, s2) ==
  LET h1 == krypt_asn1_next_header(s1).value
      h2 == krypt_asn1_next_header(s2).value
  IN  IF IsEndOfContents(h1) THEN 1
      ELSE IF IsEndOfContents(h2) THEN -1
      ELSE IF h1.tag < h2.tag THEN -1
      ELSE IF h1.tag > h2.tag THEN 1
      ELSE OctetOrder(s1, s2)

=============================================================================
