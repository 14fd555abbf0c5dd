----------------------------- MODULE Asn1Codec -----------------------------
(***************************************************************************)
(* The codecs of krypt_asn1_codec.c that turn values into octets and back, *)
(* and the Bignum codec they fall back on (krypt_missing.c).  The widths   *)
(* of the C types are constants, so that every overflow of the code        *)
(* happens at numbers TLC can enumerate.                                   *)
(*                                                                         *)
(* A number is an integer; the text of an OBJECT IDENTIFIER is the         *)
(* sequence of the numbers between its dots; a time is its six fields.     *)
(***************************************************************************)
EXTENDS Integers, Sequences, SequencesExt, FiniteSetsExt, Numerals

CONSTANTS
  CHAR_BIT,           \* bits of an octet
  SIZEOF_INT,         \* octets of an int
  SIZEOF_LONG,        \* octets of a long
  HAVE_RB_BIG_PACK,   \* whether the build uses rb_big_pack (extconf.rb)
  MaxLongs            \* bounds the numbers that are encoded: as many longs

ASSUME WidthsAssumption ==
  /\ CHAR_BIT \in Nat \ {0, 1}
  /\ SIZEOF_INT \in Nat \ {0}
  /\ SIZEOF_LONG \in Nat \ {0}
  /\ SIZEOF_INT < SIZEOF_LONG
  /\ HAVE_RB_BIG_PACK \in BOOLEAN
  /\ MaxLongs \in Nat \ {0}

Ok(v) == [ok |-> TRUE, value |-> v]

Failed == [ok |-> FALSE]

----------------------------------------------------------------------------
(* Octets and the C integers made of them *)

Base == 2^CHAR_BIT              \* 256

SignBit == 2^(CHAR_BIT - 1)     \* 0x80

INT_BITS == CHAR_BIT * SIZEOF_INT

LONG_BITS == CHAR_BIT * SIZEOF_LONG

LONG_MAX == 2^(LONG_BITS - 1) - 1

Signed(n, bits) == LET m == n % 2^bits IN IF m < 2^(bits - 1) THEN m ELSE m - 2^bits

Magnitude(num) == IF num < 0 THEN -num ELSE num

Unsigned(octets) == NumberOf(octets, Base)

\* The lowest n octets of a number, the highest of them first.
LowOctets(num, n) == LowDigits(num, CHAR_BIT, n)

IsNegative(octets) == octets # <<>> /\ octets[1] >= SignBit

\* krypt_compute_twos_complement, for octets that are not all 0: they are
\* inverted up to the last one that is not 0, which takes the carry.
TwosComplement(octets) ==
  LET last == Max({i \in DOMAIN octets : octets[i] # 0})
  IN  [i \in DOMAIN octets |-> IF i < last THEN Base - 1 - octets[i]
                               ELSE IF i = last THEN Base - octets[i] ELSE 0]

----------------------------------------------------------------------------
(* INTEGER *)

\* A number that Ruby keeps in a machine word, next to two bits of a tag.
IsFixnum(num) == num \in -(2^(LONG_BITS - 2)) .. 2^(LONG_BITS - 2) - 1

krypt_asn1_encode_integer_NoExtraByte(num) ==   \* mutant
  LowOctets(num, Min({n \in 1..SIZEOF_LONG : num \div 2^(CHAR_BIT * n) = IF num >= 0 THEN 0 ELSE -1}))

krypt_asn1_encode_integer(num) ==
  LET len    == Min({n \in 1..SIZEOF_LONG : num \div 2^(CHAR_BIT * n) = IF num >= 0 THEN 0 ELSE -1})
      octets == LowOctets(num, len)
  IN  IF (num >= 0) = IsNegative(octets)
      THEN <<IF num >= 0 THEN 0 ELSE Base - 1>> \o octets
      ELSE octets

\* krypt_asn1_encode_bignum on longs from rb_big_pack.
EncodePacked(num) ==
  LET longs  == Min({n \in 1..MaxLongs : Magnitude(num) < 2^(LONG_BITS * n)})
      packed == LowOctets(num, longs * SIZEOF_LONG)
      top    == Signed(Unsigned(SubSeq(packed, 1, SIZEOF_LONG)), LONG_BITS)
  IN  IF (num > 0) = IsNegative(packed)
      THEN <<IF num > 0 THEN 0 ELSE Base - 1>> \o packed
      ELSE krypt_asn1_encode_integer(top) \o SubSeq(packed, SIZEOF_LONG + 1, Len(packed))

\* krypt_asn1_encode_bignum by way of a string of hex digits.
EncodeHex(num) ==
  LET abs == LowOctets(Magnitude(num), Min({n \in 1..MaxLongs * SIZEOF_LONG : Magnitude(num) < 2^(CHAR_BIT * n)}))
  IN  IF num < 0 THEN TwosComplement(abs)
      ELSE IF IsNegative(abs) THEN <<0>> \o abs
      ELSE abs

krypt_asn1_encode_bignum(num) == IF HAVE_RB_BIG_PACK THEN EncodePacked(num) ELSE EncodeHex(num)

int_asn1_encode_integer(num) ==
  IF IsFixnum(num) THEN krypt_asn1_encode_integer(num) ELSE krypt_asn1_encode_bignum(num)

\* Both builds of krypt_asn1_decode_bignum are exact.
krypt_asn1_decode_bignum(octets) ==
  IF IsNegative(octets) THEN -Unsigned(TwosComplement(octets)) ELSE Unsigned(octets)

\* bytes[i] << shift, an int.  A shift by its width or more is undefined: the
\* processor takes the shift modulo the width, or the compiler makes it 0.
IntShift(octet, shift, masked) ==
  IF shift < INT_BITS THEN Signed(octet * 2^shift, INT_BITS)
  ELSE IF masked THEN Signed(octet * 2^(shift % INT_BITS), INT_BITS)
  ELSE 0

\* The bits of a long that are set.
BitsOf(num) == {k \in 0..LONG_BITS - 1 : (num \div 2^k) % 2 = 1}

ToLong(octets, masked) ==
  LET shifted(i) == IntShift(octets[i], (Len(octets) - i) * CHAR_BIT, masked)
      bits == UNION {BitsOf(shifted(i) % 2^LONG_BITS) : i \in DOMAIN octets}
      num  == NumberOf([k \in 1..LONG_BITS |-> IF LONG_BITS - k \in bits THEN 1 ELSE 0], 2)
  IN  IF num > LONG_MAX THEN Failed ELSE Ok(num)

int_decode_integer_to_long(octets) == {ToLong(octets, masked) : masked \in BOOLEAN}

Negated(result) == IF result.ok THEN Ok(-result.value) ELSE result

int_decode_integer(octets) ==
  IF IsNegative(octets)
  THEN {Negated(r) : r \in int_decode_integer_to_long(TwosComplement(octets))}
  ELSE int_decode_integer_to_long(IF octets[1] = 0 THEN Tail(octets) ELSE octets)

NeedsBignum(octets) ==
  IF octets[1] = 0 THEN Len(octets) > SIZEOF_LONG ELSE Len(octets) >= SIZEOF_LONG

int_asn1_decode_integer(octets) ==
  IF octets = <<>> THEN {Failed}
  ELSE IF NeedsBignum(octets) THEN {Ok(krypt_asn1_decode_bignum(octets))}
  ELSE int_decode_integer(octets)

----------------------------------------------------------------------------
(* OBJECT IDENTIFIER *)

KRYPT_ERR == -1

KRYPT_ASN1_EOF == -2

Malformed == -1   \* between two dots: nothing, or a character that is no digit

DigitBase == 2^(CHAR_BIT - 1)   \* 128

SUB_ID_LIMIT_ENCODE == LONG_MAX \div 10

SUB_ID_LIMIT_PARSE == LONG_MAX \div DigitBase

\* The limit is looked at before the last digit is added.
int_get_sub_id(text, i) ==
  IF i > Len(text) THEN KRYPT_ASN1_EOF
  ELSE IF text[i] = Malformed \/ text[i] \div 10 > SUB_ID_LIMIT_ENCODE THEN KRYPT_ERR
  ELSE Signed(text[i], LONG_BITS)

int_write_long_NoZero(cur) ==   \* mutant
  LET len    == Cardinality({n \in 0..LONG_BITS : cur \div 2^((CHAR_BIT - 1) * n) > 0})
      digits == LowDigits(cur, CHAR_BIT - 1, len)
  IN  [i \in 1..len |-> digits[i] + IF i < len THEN SignBit ELSE 0]

int_write_long(cur) ==
  LET len    == Min({n \in 1..LONG_BITS : cur < 2^((CHAR_BIT - 1) * n)})
      digits == LowDigits(cur, CHAR_BIT - 1, len)
  IN  [i \in 1..len |-> digits[i] + IF i < len THEN SignBit ELSE 0]

\* The numbers of a list up to the first negative one, which ends it; it fails
\* if that is an error rather than the end.
UpToEnd(nums) ==
  LET end == Min({i \in DOMAIN nums : nums[i] < 0})
  IN  IF nums[end] = KRYPT_ERR THEN Failed ELSE Ok(SubSeq(nums, 1, end - 1))

int_encode_object_id(text) ==
  LET subs == UpToEnd([i \in 1..Len(text) + 1 |-> int_get_sub_id(text, i)])
  IN  IF ~subs.ok THEN Failed
      ELSE IF Len(subs.value) < 2 THEN Failed
      ELSE IF subs.value[1] > 2 \/ subs.value[2] > 39 THEN Failed
      ELSE LET combined == 40 * subs.value[1] + subs.value[2]
               numbers  == <<combined>> \o SubSeq(subs.value, 3, Len(subs.value))
           IN  Ok(FlattenSeq([i \in DOMAIN numbers |-> int_write_long(numbers[i])]))

\* The number in the lower bits of octets.
DigitsOf(octets) == NumberOf([i \in DOMAIN octets |-> octets[i] % DigitBase], DigitBase)

\* The number in octets that are all, but for the last, marked as continued.
\* The limit is looked at before each of these, not before the last octet.
int_parse_sub_id(octets) ==
  IF octets = <<>> THEN KRYPT_ASN1_EOF
  ELSE IF Last(octets) >= SignBit THEN KRYPT_ERR
  ELSE IF Len(octets) > 1 /\ DigitsOf(SubSeq(octets, 1, Len(octets) - 2)) > SUB_ID_LIMIT_PARSE
  THEN KRYPT_ERR
  ELSE Signed(DigitsOf(octets), LONG_BITS)

\* The octets cut behind every octet that is not marked as continued.
SubIds(octets) ==
  LET upTo[i \in 0..Len(octets)] ==
        IF i = 0 THEN <<>>
        ELSE LET before == upTo[i - 1]
             IN  IF i = 1 \/ octets[i - 1] < SignBit THEN Append(before, <<octets[i]>>)
                 ELSE Append(Front(before), Append(Last(before), octets[i]))
  IN  upTo[Len(octets)]

int_decode_object_id(octets) ==
  LET pieces == Append(SubIds(octets), <<>>)
      subs   == UpToEnd([i \in DOMAIN pieces |-> int_parse_sub_id(pieces[i])])
  IN  IF ~subs.ok THEN Failed
      ELSE IF subs.value = <<>> THEN Failed
      ELSE IF Head(subs.value) > 40 * 2 + 39 THEN Failed
      ELSE Ok(<<Head(subs.value) \div 40, Head(subs.value) % 40>> \o Tail(subs.value))

----------------------------------------------------------------------------
(* BOOLEAN and BIT STRING *)

int_asn1_encode_boolean(value) == IF value THEN <<Base - 1>> ELSE <<0>>

int_asn1_decode_boolean(octets) == IF Len(octets) = 1 THEN Ok(octets[1] # 0) ELSE Failed

\* The octet of the unused bits counts the bits of an octet: 0..7.
int_check_unused_bits(b) == b \in 0..CHAR_BIT - 1

int_asn1_encode_bit_string(value) ==
  IF int_check_unused_bits(value.unused_bits) THEN Ok(<<value.unused_bits>> \o value.bits)
  ELSE Failed

int_asn1_decode_bit_string(octets) ==
  IF octets = <<>> THEN Failed
  ELSE IF ~int_check_unused_bits(octets[1]) THEN Failed
  ELSE Ok([unused_bits |-> octets[1], bits |-> Tail(octets)])

----------------------------------------------------------------------------
(* UTC TIME and GENERALIZED TIME: the six fields of a time, as characters *)

Zulu == 10   \* a character behind the ten digits

Decimal(n, width) == [i \in 1..width |-> (n \div 10^(width - i)) % 10]

TwoDigits(fields) == FlattenSeq([i \in DOMAIN fields |-> Decimal(fields[i], 2)])

ReadDecimal(chars) == NumberOf(chars, 10)

\* Before 1970 a time is negative, which int_as_time_t refuses.
int_as_time_t(time) == time[1] >= 1970

\* Time.utc: the fields it accepts.  Those it carries over, as the 30th of
\* February, are left out by the bounds.
TimeUtc(time) ==
  IF time[2] \in 1..12 /\ time[3] \in 1..31 /\ time[4] \in 0..24 /\ time[5] \in 0..59
     /\ time[6] \in 0..60
  THEN Ok(time) ELSE Failed

\* sscanf with a year of the given width, then five fields of two digits.
ReadFields(chars, width) ==
  LET Field(i) == SubSeq(chars, width + 2 * i - 1, width + 2 * i)
  IN  <<ReadDecimal(SubSeq(chars, 1, width))>> \o [i \in 1..5 |-> ReadDecimal(Field(i))]

int_encode_utc_time(time) ==
  IF int_as_time_t(time)
  THEN Ok(Decimal(time[1] % 100, 2) \o TwoDigits(Tail(time)) \o <<Zulu>>)
  ELSE Failed

Pivot_X509(year) == year + IF year < 50 THEN 2000 ELSE 1900   \* mutant

Pivot(year) == year + IF year < 69 THEN 2000 ELSE 1900

int_parse_utc_time(chars) ==
  IF Len(chars) # 13 THEN Failed
  ELSE LET fields == ReadFields(chars, 2)
       IN  TimeUtc([fields EXCEPT ![1] = Pivot(fields[1])])

\* The year has four digits or more; what is behind 15 characters is cut off.
int_encode_generalized_time(time) ==
  LET year  == Decimal(time[1], IF time[1] > 9999 THEN 5 ELSE 4)
      chars == year \o TwoDigits(Tail(time)) \o <<Zulu>>
  IN  IF int_as_time_t(time) THEN Ok(SubSeq(chars, 1, 15)) ELSE Failed

int_parse_generalized_time(chars) ==
  IF Len(chars) # 15 THEN Failed ELSE TimeUtc(ReadFields(chars, 4))

=============================================================================
