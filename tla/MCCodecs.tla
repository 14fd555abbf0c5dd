------------------------------ MODULE MCCodecs ------------------------------
(***************************************************************************)
(* Codecs on bounded inputs.  An octet has 3 bits, an int 2 and a long 4   *)
(* octets, as 8, 4 and 8 in the code: a long has room for an int, for an   *)
(* octet an int has no room for, and for one that only a long has.         *)
(***************************************************************************)
EXTENDS Codecs

\* Sequences of elements of S with a length in L.
SeqsOf(S, L) == UNION {[1..n -> S] : n \in L}

AroundPowers == UNION {{2^k + d, -(2^k) + d} : k \in 1..22, d \in -1..1}

Integers == -2100..2100 \cup AroundPowers

IntegerOctets == SeqsOf(0..7, 0..3) \cup SeqsOf({0, 3, 4, 7}, 4..5)

\* Around the largest number that an int holds.
MCWideValues == "INTEGER" :> -40..40

MCNothing == "INTEGER" :> {}

SubIdNumbers == {Malformed, 0, 1, 3, 4, 63, 511, 512, 2046, 2047, 2048, 2049, 2050}

ObjectIds ==
  {<<>>, <<1>>} \cup
  {<<a, b>> \o rest : a \in {Malformed, 0, 2, 3}, b \in {Malformed, 0, 39, 40},
                      rest \in SeqsOf(SubIdNumbers, 0..2)}

ObjectIdOctets ==
  SeqsOf({0, 1, 3, 4, 5, 7}, 0..4) \cup
  {<<1>> \o many \o <<last>> : many \in SeqsOf({4, 5, 7}, 4..6), last \in {0, 3}}

BitStrings == [unused_bits : -1..3, bits : {<<>>, <<5>>, <<0, 7>>}]

Years == {1969, 1970, 1999, 2000, 2049, 2050, 2068, 2069, 2070, 2100, 9999, 10000, 10011, 10101}

Times == {<<year>> \o rest : year \in Years, rest \in {<<1, 1, 0, 0, 0>>, <<12, 31, 23, 59, 59>>}}

TimeTexts(width) ==
  {Decimal(year, width) \o TwoDigits(rest) \o z :
     year \in {0, 49, 50, 68, 69, 70, 99}, z \in {<<>>, <<Zulu>>},
     rest \in {<<1, 1, 0, 0, 0>>, <<13, 1, 0, 0, 0>>, <<12, 31, 23, 59, 61>>}}

Tags == {0, 1, 30, 31, 127, 128, 16383, 16384, INT_MAX}

Lengths == {0, 1, 127, 128, 255, 256, 65536, SIZE_MAX}

Headers ==
  [tag : Tags, tag_class : 0..3, is_constructed : BOOLEAN, is_infinite : {FALSE}, length : Lengths]
  \cup [tag : Tags, tag_class : 0..3, is_constructed : {TRUE}, is_infinite : {TRUE}, length : {0}]

HeaderOctets ==
  SeqsOf({0, 1, 31, 63, 127, 128, 129, 130, 255}, 0..4)
  \cup {<<31>> \o many \o <<127, 0>> : many \in SeqsOf({129, 135, 136, 255}, 3..5)}
  \cup {<<4, 128 + Len(many)>> \o many : many \in SeqsOf({0, 127, 128, 255}, 3..5)}

Elements ==
  {<<0, 0>>, <<2, 1, 4>>, <<2, 1, 5>>, <<2, 2, 0, 128>>, <<4, 1, 4>>, <<128, 1, 9>>, <<130, 1, 4>>,
   <<159, 31, 0>>, <<159, 129, 0, 0>>}

Sets ==
  {s \in SeqsOf(Elements, 0..3) :
     \A i, j \in DOMAIN s : s[i] = <<0, 0>> /\ s[j] = <<0, 0>> => i = j}

Binaries == SeqsOf({0, 97, 255}, 0..4) \cup SeqsOf({0, 173}, 5..9)

Base64Texts == SeqsOf({0, 26, 63, TextCodec!Pad, TextCodec!CR, TextCodec!Other}, 0..4)

HexTexts == SeqsOf({0, 9, 15, TextCodec!Other}, 0..4)

MCColumns == {-1, 0, 1, 4, 5, 8, 76}

MCValues ==
  ("BOOLEAN" :> BOOLEAN) @@ ("INTEGER" :> Integers) @@ ("BIT STRING" :> BitStrings)
  @@ ("OBJECT IDENTIFIER" :> ObjectIds) @@ ("UTC TIME" :> Times) @@ ("GENERALIZED TIME" :> Times)
  @@ ("header" :> Headers) @@ ("SET" :> Sets) @@ ("Base64" :> Binaries) @@ ("hex" :> Binaries)

MCReceived ==
  ("BOOLEAN" :> SeqsOf({0, 1, 7}, 0..2)) @@ ("INTEGER" :> IntegerOctets)
  @@ ("BIT STRING" :> SeqsOf({0, 2, 3, 7}, 0..2)) @@ ("OBJECT IDENTIFIER" :> ObjectIdOctets)
  @@ ("UTC TIME" :> TimeTexts(2)) @@ ("GENERALIZED TIME" :> TimeTexts(4))
  @@ ("header" :> HeaderOctets) @@ ("SET" :> {}) @@ ("Base64" :> Base64Texts) @@ ("hex" :> HexTexts)

=============================================================================
