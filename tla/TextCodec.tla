----------------------------- MODULE TextCodec -----------------------------
(***************************************************************************)
(* Base64 (krypt_b64.c) and hex (krypt_hex.c).  A text is a sequence of    *)
(* characters: the number a character of the alphabet stands for, or one   *)
(* of the other characters below.                                          *)
(***************************************************************************)
EXTENDS Integers, Sequences, SequencesExt

Pad == -1        \* the '=' of Base64

CR == -2

LF == -3

Other == -4      \* any character outside the alphabet

krypt_b64_separator == <<CR, LF>>

Ok(v) == [ok |-> TRUE, value |-> v]

Failed == [ok |-> FALSE]

----------------------------------------------------------------------------
(* Base64: encoding *)

int_encode_int(b1, b2, b3) ==
  <<b1 \div 4, 16 * (b1 % 4) + (b2 \div 16), 4 * (b2 % 16) + (b3 \div 64), b3 % 64>>

int_encode_final(bytes) ==
  IF Len(bytes) = 1 THEN SubSeq(int_encode_int(bytes[1], 0, 0), 1, 2) \o <<Pad, Pad>>
  ELSE SubSeq(int_encode_int(bytes[1], bytes[2], 0), 1, 3) \o <<Pad>>

Groups(bytes) ==
  [g \in 1..Len(bytes) \div 3 |->
     int_encode_int(bytes[3 * g - 2], bytes[3 * g - 1], bytes[3 * g])]

Remainder(bytes) == SubSeq(bytes, Len(bytes) - (Len(bytes) % 3) + 1, Len(bytes))

int_write_update(groups) == FlattenSeq(groups)

\* A line ends with the group that brings it to cols characters or beyond.
int_write_update_cols(groups, cols) ==
  LET perLine == IF cols = 0 THEN 1 ELSE (cols + 3) \div 4
  IN  FlattenSeq([g \in DOMAIN groups |->
                    groups[g] \o IF g % perLine = 0 THEN krypt_b64_separator ELSE <<>>])

int_write_final(remainder, crlf) ==
  (IF remainder = <<>> THEN <<>> ELSE int_encode_final(remainder))
  \o IF crlf THEN krypt_b64_separator ELSE <<>>

krypt_base64_buffer_encode_to(bytes, cols) ==
  (IF cols < 0 THEN int_write_update(Groups(bytes)) ELSE int_write_update_cols(Groups(bytes), cols))
  \o int_write_final(Remainder(bytes), cols > 0)

----------------------------------------------------------------------------
(* Base64: decoding *)

int_decode_int(n) == <<(n[1] * 4) + (n[2] \div 16), ((n[2] % 16) * 16) + (n[3] \div 4),
                       ((n[3] % 4) * 64) + n[4]>>

int_decode_final_NotDropped(n) ==   \* mutant
  IF Len(n) < 2 THEN <<>> ELSE SubSeq(int_decode_int(n \o <<0, 0, 0>>), 1, Len(n))

\* One character left over makes no octet.
int_decode_final(n) ==
  IF Len(n) < 2 THEN <<>> ELSE SubSeq(int_decode_int(n \o <<0, 0>>), 1, Len(n) - 1)

\* The characters that count: those of the alphabet in front of the first pad.
Significant(text) ==
  LET upTo[i \in 0..Len(text)] ==
        IF i = 0 THEN <<>>
        ELSE IF text[i] \in 0..63 /\ \A j \in 1..i : text[j] # Pad THEN Append(upTo[i - 1], text[i])
        ELSE upTo[i - 1]
  IN  upTo[Len(text)]

krypt_base64_buffer_decode_to(text) ==
  LET chars == Significant(text)
      whole == Len(chars) \div 4
  IN  FlattenSeq([g \in 1..whole |-> int_decode_int(SubSeq(chars, 4 * g - 3, 4 * g))])
      \o int_decode_final(SubSeq(chars, 4 * whole + 1, Len(chars)))

----------------------------------------------------------------------------
(* Hex: a character is its value, 0..15 *)

int_hex_encode(bytes) ==
  [j \in 1..2 * Len(bytes) |->
     LET b == bytes[(j + 1) \div 2] IN IF j % 2 = 1 THEN b \div 16 ELSE b % 16]

int_hex_decode_tests(text) == Len(text) % 2 = 0

int_hex_decode(text) ==
  IF int_hex_decode_tests(text) /\ \A i \in DOMAIN text : text[i] \in 0..15
  THEN Ok([i \in 1..Len(text) \div 2 |-> 16 * text[2 * i - 1] + text[2 * i]])
  ELSE Failed

=============================================================================
