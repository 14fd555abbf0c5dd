---------------------------- MODULE HeaderOctets ----------------------------
(***************************************************************************)
(* The header of an encoding as the octets it is parsed from               *)
(* (krypt_asn1_next_header), for the components that read from a stream.   *)
(* Identifiers of one octet only: tag numbers above 30 are not modelled.   *)
(***************************************************************************)
EXTENDS Integers, Sequences, SequencesExt

CONSTANT
  SIZE_MAX   \* the largest length of a value

ASSUME SizeAssumption == SIZE_MAX \in Nat

Octets == 0..255

Header == [ tag_bytes : Seq(Octets), length_bytes : Seq(Octets), length : Nat,
            infinite : BOOLEAN ]

NoHeader == [tag_bytes |-> <<>>, length_bytes |-> <<>>, length |-> 0, infinite |-> FALSE]

\* What ends a stream of indefinite length (int_check_done): tag number 0 of
\* class UNIVERSAL, constructed or not, whatever length follows.
IsEndOfContents(h) == h.tag_bytes \in {<<0>>, <<32>>}

\* What should end it: the octets 00 00.
TwoZeros == [tag_bytes |-> <<0>>, length_bytes |-> <<0>>, length |-> 0, infinite |-> FALSE]

IsConstructed(h) == (h.tag_bytes[1] \div 32) % 2 = 1

Tag(h) == h.tag_bytes[1] % 32

BigEndian(octets) == FoldLeft(LAMBDA n, b : n * 256 + b, 0, octets)

\* krypt_asn1_next_header at position p: the header, or no header, and how
\* many octets were read in any case.
NoHeaderAfter(n) == [ok |-> FALSE, header |-> NoHeader, used |-> n]

next_header(octets, p) ==
  LET left        == Len(octets) - p
      tag         == octets[p + 1]
      first       == octets[p + 2]
      more        == IF first > 128 THEN first - 128 ELSE 0
      constructed == (tag \div 32) % 2 = 1
      infinite    == first = 128
      lengths     == SubSeq(octets, p + 2, p + 2 + more)
      length      == IF more > 0 THEN BigEndian(Tail(lengths)) ELSE first % 128
  IN  IF left < 2 THEN NoHeaderAfter(left)
      ELSE IF first = 255 \/ (infinite /\ ~constructed) THEN NoHeaderAfter(2)
      ELSE IF left < 2 + more THEN NoHeaderAfter(left)
      ELSE IF length \notin 0..SIZE_MAX THEN NoHeaderAfter(2 + more)   \* the code stops earlier
      ELSE [ok |-> TRUE, used |-> 2 + more,
            header |-> [tag_bytes |-> <<tag>>, length_bytes |-> lengths,
                        length |-> length, infinite |-> infinite]]

=============================================================================
