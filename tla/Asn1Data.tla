------------------------------ MODULE Asn1Data ------------------------------
(***************************************************************************)
(* The life of a tree of ASN1Data objects: parsing, lazy decoding of the   *)
(* value, the setters, and encoding with its caches.  Object 0 is the root *)
(* a program decoded or created; the objects 1, 2, ... are its elements,   *)
(* allocated when the root's value is decoded or created by the program.   *)
(* Elements hold no Arrays: the tree has two levels, three when the root   *)
(* is tagged explicitly.                                                   *)
(*                                                                         *)
(* krypt runs under the interpreter lock, so one call finishes before the  *)
(* next begins; the only call with steps of its own here is the encoding   *)
(* of an Array, which visits one element per step and may stop in between. *)
(***************************************************************************)
EXTENDS Asn1Object

CONSTANTS
  MaxElems,    \* bound: how many element objects the program can hold
  MaxSets,     \* bound: how many setter calls the program makes
  RootWires,   \* encodings the root may be parsed from
  RootNews,    \* roots the program may create
  ElemNews,    \* elements the program may create
  NewTags,     \* arguments of tag=
  NewBits,     \* arguments of unused_bits=
  NewValues    \* arguments of value= that are not Arrays

VARIABLES
  obj,     \* the objects
  count,   \* how many elements exist: 1..count
  sets,    \* how many setters were called, for the bound
  call,    \* the encoding of an Array under way
  ret,     \* the last call that returned, with what it returned
  hist     \* history, for the properties only

vars == << obj, count, sets, call, ret, hist >>

Node == 0..MaxElems
Root == 0
Live == 0..count

\* A parsed encoding: identifier, length and value.
WireType == [id : IdentifierToken, len : LengthToken, bytes : Bytes]

\* What the program passes to a constructor.
NewType == [value : Value, tag : Tags, sym : TagClassSymbol, default_tag : Tags \cup {-1}]

\* An element is primitive and definite; only the last may be truncated.
ElemsSound(elems) ==
  \A i \in DOMAIN elems :
    /\ ~elems[i].id.cons /\ ~elems[i].len.inf
    /\ IsShort(elems[i]) => i = Len(elems)
    /\ ~IsShort(elems[i]) => elems[i].len.n = Len(elems[i].oct)

IsEocHeader(id) == id.tag = END_OF_CONTENTS /\ id.tag_class = "UNIVERSAL"

\* The first header of end-of-contents ends an indefinite length, whatever
\* its length octets say (int_check_done).
EndsWithEoc(elems) ==
  /\ elems # <<>>
  /\ \A i \in DOMAIN elems : IsEocHeader(elems[i].id) <=> i = Len(elems)
  /\ elems[Len(elems)].oct = <<>>

\* A primitive value is cut into no elements, a constructed one is its
\* elements, the length octets are right, and an indefinite length is on a
\* constructed value (krypt_asn1_next_header, krypt_asn1_get_value).
WireSound(w) ==
  /\ ~w.bytes.null
  /\ ~w.id.cons => /\ w.bytes.tok \in Seq(Octet)
                   /\ ~w.len.inf
  /\ w.id.cons => w.bytes = Constructed(w.bytes.elems)
  /\ ~w.len.inf => w.len.n = Len(w.bytes.tok)
  /\ w.len.inf => EndsWithEoc(w.bytes.elems)
  /\ ElemsSound(w.bytes.elems)

\* EXPLICIT needs a default tag (krypt_asn1_data_initialize).  An Array is
\* empty: there are no elements yet.
NewSound(a) ==
  /\ a.sym = "EXPLICIT" => a.default_tag # -1
  /\ a.value.ids = <<>>
  /\ a.value.kind = "ary" => a.value.oct = <<>>

ASSUME ConstantsAssumption ==
  /\ MaxElems \in Nat
  /\ MaxSets \in Nat
  /\ \A w \in RootWires : w \in WireType /\ WireSound(w)
  /\ \A a \in RootNews \cup ElemNews : a \in NewType /\ NewSound(a)
  /\ \A a \in ElemNews : a.value.kind # "ary"
  /\ NewTags \subseteq Tags
  /\ NewBits \subseteq 0..127
  /\ \A v \in NewValues : v \in Value /\ v.kind # "ary" /\ v.ids = <<>>

Idle   == [active |-> FALSE, n |-> 0, ids |-> <<>>, i |-> 1, buf |-> <<>>]
NoRet  == [op |-> "none", n |-> 0, ok |-> TRUE, out |-> <<>>]
Done(op, n, ok, out) == [op |-> op, n |-> n, ok |-> ok, out |-> out]

\* src: the encoding an object was parsed from, <<>> when it was created.
\* touched: a setter was called.  lost: decoding dropped a value, because it
\* failed, or because the value had been assigned and not parsed.
\* retag: a tag_class= raised half way.  flip: infinite_length= changed
\* while value bytes were cached.  stale: an element changed while the
\* object's own length was cached.  bits: unused_bits= changed while value
\* bytes were cached.
NewHist(src) == [src |-> src, touched |-> FALSE, lost |-> FALSE, retag |-> FALSE,
                 flip |-> FALSE, stale |-> FALSE, bits |-> FALSE]

Blank == Created(NilValue, OCTET_STRING, "UNIVERSAL", OCTET_STRING)

-----------------------------------------------------------------------------
(* Initial states: the root was just parsed, or just created.              *)

InitWith(root, src) ==
  /\ obj = [n \in Node |-> IF n = Root THEN root ELSE Blank]
  /\ hist = [n \in Node |-> IF n = Root THEN NewHist(src) ELSE NewHist(<<>>)]
  /\ count = 0
  /\ sets = 0
  /\ call = Idle
  /\ ret = NoRet

Init ==
  \/ \E w \in RootWires : InitWith(Parsed(w.id, w.len, w.bytes),
                                   << w.id, w.len >> \o w.bytes.tok)
  \/ \E a \in RootNews : InitWith(Created(a.value, a.tag, a.sym, a.default_tag), <<>>)

-----------------------------------------------------------------------------
(* Creating elements.                                                      *)

New(a) ==
  /\ ~call.active
  /\ count < MaxElems
  /\ count' = count + 1
  /\ obj' = [obj EXCEPT ![count + 1] = Created(a.value, a.tag, a.sym, a.default_tag)]
  /\ ret' = NoRet
  /\ UNCHANGED << sets, call, hist >>

-----------------------------------------------------------------------------
(* Reading the value: int_asn1_decode_value.                               *)

KeptElems_PopAlways(o) ==                                           \* mutant
  IF o.bytes.elems # <<>> THEN SubSeq(o.bytes.elems, 1, Len(o.bytes.elems) - 1)
  ELSE o.bytes.elems

\* Elements of a constructed value become objects; a truncated one becomes
\* nil, and the end-of-contents of an indefinite length is dropped.
KeptElems(o) ==
  IF o.inf /\ o.bytes.elems # <<>> THEN SubSeq(o.bytes.elems, 1, Len(o.bytes.elems) - 1)
  ELSE o.bytes.elems

\* The kept elements that get an object, in order: the k-th becomes object
\* count + k.  Only the last element of a value can be truncated.
Whole(elems) ==
  IF elems # <<>> /\ IsShort(elems[Len(elems)])
  THEN SubSeq(elems, 1, Len(elems) - 1)
  ELSE elems

ElementIds(elems) ==
  [i \in DOMAIN elems |-> IF IsShort(elems[i]) THEN NilElem ELSE count + i]

FreeBytes(o) == [o EXCEPT !.bytes = NoBytes]

CanDecode(o) ==
  IF o.cons THEN \A i \in DOMAIN o.bytes.elems : ~o.bytes.elems[i].junk
  ELSE decodable(o.codec, o.bytes.tok)

\* The elements that get an object when o's value is decoded.
NewElems(o) ==
  IF o.decoded \/ ~o.cons \/ ~CanDecode(o) THEN <<>> ELSE Whole(KeptElems(o))

AfterDecode_FreesPrimitive(o) ==                                    \* mutant
  IF o.decoded \/ ~CanDecode(o) THEN o
  ELSE [FreeBytes(o) EXCEPT !.at_value = IF o.cons THEN Ary(ElementIds(KeptElems(o)))
                                         ELSE decoder(o.codec, o.bytes.tok),
                            !.at_unused_bits =
                              IF o.cons THEN @ ELSE decoder_bits(o.codec, o.bytes.tok, @),
                            !.decoded = TRUE]

\* int_asn1_decode_value on the object itself.  The bytes of a constructed
\* value are freed whether the elements could be read or not
\* (int_asn1_data_value_decode).
AfterDecode(o) ==
  CASE o.decoded -> o
    [] ~o.decoded /\ o.cons /\ CanDecode(o) ->
         [FreeBytes(o) EXCEPT !.at_value = Ary(ElementIds(KeptElems(o))), !.decoded = TRUE]
    [] ~o.decoded /\ o.cons /\ ~CanDecode(o) -> FreeBytes(o)
    [] ~o.decoded /\ ~o.cons /\ CanDecode(o) ->
         [o EXCEPT !.at_value = decoder(o.codec, o.bytes.tok),
                   !.at_unused_bits = decoder_bits(o.codec, o.bytes.tok, @),
                   !.decoded = TRUE]
    [] OTHER -> o

DecodeOk(o) == o.decoded \/ CanDecode(o)

LosesValue(o) ==
  /\ ~o.decoded
  /\ (o.cons /\ ~CanDecode(o)) \/ o.at_value # NilValue

\* Object n becomes o, and the new elements get their objects.
Store(n, o, elems) ==
  /\ count + Len(elems) <= MaxElems
  /\ count' = count + Len(elems)
  /\ obj' = [m \in Node |->
               IF m = n THEN o
               ELSE IF m \in (count + 1)..(count + Len(elems))
                    THEN LET e == elems[m - count]
                         IN  Parsed(e.id, e.len, Primitive(e.oct))
               ELSE obj[m]]

StoreHist(base, n, h, elems) ==
  hist' = [m \in Node |->
             IF m = n THEN h
             ELSE IF m \in (count + 1)..(count + Len(elems))
                  THEN NewHist(ElemTokens(elems[m - count]))
             ELSE base[m]]

\* krypt_asn1_data_get_value, krypt_asn1_bit_string_get_unused_bits
GetValue(n) ==
  LET o == obj[n] IN
  /\ ~call.active
  /\ Store(n, AfterDecode(o), NewElems(o))
  /\ StoreHist(hist, n, [hist[n] EXCEPT !.lost = @ \/ LosesValue(o)], NewElems(o))
  /\ ret' = Done("value", n, DecodeOk(o), <<>>)
  /\ UNCHANGED << sets, call >>

-----------------------------------------------------------------------------
(* The setters.  Each is a no-op when the new value is the old one.        *)

SetterCall ==
  /\ ~call.active
  /\ sets < MaxSets
  /\ sets' = sets + 1

\* An element changed under a root that has its length cached.
StaleAfter(n) == [hist EXCEPT ![Root].stale = @ \/ (n # Root /\ obj[Root].length_bytes # <<>>)]

Touched(n) == [StaleAfter(n)[n] EXCEPT !.touched = TRUE]

\* The value and length caches are dropped: what was stale no longer is.
Refreshed(h) == [h EXCEPT !.flip = FALSE, !.stale = FALSE, !.bits = FALSE]

\* krypt_asn1_data_set_tag
SetTag(n, tag) ==
  LET o == obj[n] IN
  /\ SetterCall
  /\ o.tag # tag
  /\ obj' = [obj EXCEPT ![n] =
               [int_asn1_data_update_cb([int_invalidate_tag(o) EXCEPT !.tag = tag])
                  EXCEPT !.modified = TRUE, !.at_tag = tag]]
  /\ hist' = [StaleAfter(n) EXCEPT ![n] = Touched(n)]
  /\ ret' = NoRet
  /\ UNCHANGED << count, call >>

\* krypt_asn1_data_set_tag_class up to int_asn1_handle_explicit_tagging.
Retagged(o, sym) ==
  int_asn1_data_update_cb([int_invalidate_tag(o) EXCEPT !.tag_class = tag_class_for_id(sym)])

\* Tagging becomes or stops being explicit: the value is decoded, then its
\* bytes are dropped.
TogglesExplicit(o, sym) == o.explicit # (sym = "EXPLICIT")

SetTagClass(n, sym) ==
  LET o       == obj[n]
      toggled == TogglesExplicit(o, sym)
      r       == [Retagged(o, sym) EXCEPT !.explicit = sym = "EXPLICIT"]
      elems   == IF toggled THEN NewElems(r) ELSE <<>>
      done(x) == [x EXCEPT !.modified = TRUE, !.at_tag_class = sym]
  IN
  /\ SetterCall
  /\ o.at_tag_class # sym
  /\ sym = "EXPLICIT" => o.default_tag # -1        \* raises otherwise
  /\ \/ /\ ~toggled
        /\ Store(n, done(r), <<>>)
        /\ hist' = [StaleAfter(n) EXCEPT ![n] = Touched(n)]
        /\ ret' = NoRet
     \/ /\ toggled /\ DecodeOk(r)
        /\ Store(n, done(int_invalidate_value(AfterDecode(r))), elems)
        /\ StoreHist(StaleAfter(n), n,
                     [Refreshed(Touched(n)) EXCEPT !.lost = @ \/ LosesValue(r)], elems)
        /\ ret' = NoRet
     \/ /\ toggled /\ ~DecodeOk(r)
        /\ Store(n, AfterDecode(r), <<>>)
        /\ hist' = [StaleAfter(n) EXCEPT ![n] = [Touched(n) EXCEPT !.retag = TRUE,
                                                                  !.lost = @ \/ LosesValue(r)]]
        /\ ret' = Done("tag_class=", n, FALSE, <<>>)
  /\ UNCHANGED call

\* krypt_asn1_data_set_inf_length
SetInfiniteLength(n) ==
  LET o == obj[n] IN
  /\ SetterCall
  /\ obj' = [obj EXCEPT ![n] = [int_invalidate_length(o) EXCEPT
                                  !.inf = ~o.inf, !.modified = TRUE, !.at_inf = ~o.inf]]
  /\ hist' = [StaleAfter(n) EXCEPT
                ![n] = [Touched(n) EXCEPT !.flip = @ \/ ~o.bytes.null,
                                          !.stale = @ /\ n # Root]]
  /\ ret' = NoRet
  /\ UNCHANGED << count, call >>

\* krypt_asn1_data_set_value
SetValue(n, v) ==
  LET o == [int_invalidate_value(obj[n]) EXCEPT !.at_value = v, !.modified = TRUE]
      isAry == v.kind = "ary"                      \* rb_respond_to(value, each)
  IN
  /\ SetterCall
  /\ obj' = [obj EXCEPT ![n] =
               IF o.cons = isAry THEN o
               ELSE [int_invalidate_tag(o) EXCEPT
                       !.cons = isAry, !.codec = int_codec_for(o.tag, o.tag_class)]]
  /\ hist' = [StaleAfter(n) EXCEPT ![n] = Refreshed(Touched(n))]
  /\ ret' = Done("value=", n, TRUE, <<>>)
  /\ UNCHANGED << count, call >>

\* krypt_asn1_bit_string_set_unused_bits: no cache and no flag changes.
SetUnusedBits(n, bits) ==
  LET o == obj[n] IN
  /\ SetterCall
  /\ o.default_tag = BIT_STRING
  /\ obj' = [obj EXCEPT ![n].at_unused_bits = bits]
  /\ hist' = [hist EXCEPT ![n].touched = TRUE, ![n].bits = @ \/ (o.decoded /\ ~o.bytes.null)]
  /\ ret' = NoRet
  /\ UNCHANGED << count, call >>

-----------------------------------------------------------------------------
(* Encoding: krypt_asn1_data_to_der, encode_to.                            *)

\* An object with cached bytes, or whose value is no Array.
ToDerScalar(n) ==
  LET r == EncodeScalar(obj[n]) IN
  /\ ~call.active
  /\ ~obj[n].bytes.null \/ obj[n].at_value.kind # "ary"
  /\ obj' = [obj EXCEPT ![n] = r.obj]
  /\ ret' = Done("to_der", n, r.ok, r.out)
  /\ UNCHANGED << count, sets, call, hist >>

\* What the elements are written for: the object itself, or the UNIVERSAL
\* object made for an explicit tag, always a fresh, hence modified one.
Holder(o) == IF o.explicit THEN Wrapper(o) ELSE o

Outer(o) == IF o.explicit THEN [o EXCEPT !.cons = TRUE] ELSE o

SortsElements(h) == h.tag = SET /\ h.tag_class = "UNIVERSAL" /\ h.modified

IsEoc(o) == o.tag = END_OF_CONTENTS /\ o.tag_class = "UNIVERSAL"

Encodes(id) == id # NilElem /\ EncodeScalar(obj[id]).ok

TokenOrder(t) ==
  IF "tag" \in DOMAIN t
  THEN (IF t.tag_class = "UNIVERSAL" THEN 0 ELSE 128) + (IF t.cons THEN 32 ELSE 0) + t.tag
  ELSE IF "v" \in DOMAIN t THEN t.v
  ELSE IF t.inf THEN 128 ELSE IF t.ber THEN 129 + t.n ELSE t.n

\* krypt_asn1_cmp_set_of parses both headers again, which fails for an infinite
\* length on a primitive value.
Reparses(out) == out[2].inf => out[1].cons

\* It puts end-of-contents last and orders by tag number, then by octets.
NotAfter(a, b) ==
  LET x == EncodeScalar(obj[a]).out
      y == EncodeScalar(obj[b]).out
  IN  /\ Reparses(x) /\ Reparses(y)
      /\ \/ IsEoc(obj[b])
         \/ /\ ~IsEoc(obj[a])
            /\ \/ x[1].tag < y[1].tag
               \/ /\ x[1].tag = y[1].tag
                  /\ \/ IsPrefix(x, y)
                     \/ \E i \in DOMAIN x \cap DOMAIN y :
                          /\ TokenOrder(x[i]) < TokenOrder(y[i])
                          /\ \A j \in 1..(i - 1) : x[j] = y[j]

\* The orders sort! may leave the elements in.
SortedOrders(ids) ==
  {[i \in DOMAIN ids |-> ids[p[i]]] :
     p \in {q \in [DOMAIN ids -> DOMAIN ids] :
              /\ \A i, j \in DOMAIN ids : q[i] = q[j] => i = j
              /\ \A i, j \in DOMAIN ids : i < j => NotAfter(ids[q[i]], ids[q[j]])}}

int_cons_sort_set_Copy(o, order) == o                               \* mutant

\* The Array is sorted in place: sort! is tried before sort.
int_cons_sort_set(o, order) == [o EXCEPT !.at_value = Ary(order)]

AllEncode(ids) == \A i \in DOMAIN ids : Encodes(ids[i])

Sortable(ids) ==
  AllEncode(ids) /\ \A i \in DOMAIN ids : Reparses(EncodeScalar(obj[ids[i]]).out)

EncodedElems(S) == [m \in Node |-> IF m \in S THEN EncodeScalar(obj[m]).obj ELSE obj[m]]

\* The length is written, or found to be missing, and a modified SET sorts
\* its Array, which encodes the elements to compare them.  An Array that <=>
\* cannot compare has no sorted order.
ToDerBegin(n) ==
  LET o     == obj[n]
      ids   == o.at_value.ids
      sorts == SortsElements(Holder(o)) /\ Len(ids) > 1
  IN
  /\ ~call.active
  /\ o.bytes.null /\ o.at_value.kind = "ary"
  /\ ~BarredConstructed(Holder(o))
  /\ sorts => AllEncode(ids)
  /\ \E order \in IF sorts THEN SortedOrders(ids) ELSE {ids} :
       /\ obj' = [obj EXCEPT ![n] = int_cons_sort_set(HeaderFirst(Outer(o)), order)]
       /\ call' = [active |-> TRUE, n |-> n, ids |-> order, i |-> 1, buf |-> <<>>]
  /\ UNCHANGED << count, sets, ret, hist >>

\* "Primitive constructed values must be infinite length"
ToDerRefused(n) ==
  LET o == obj[n] IN
  /\ ~call.active
  /\ o.bytes.null /\ o.at_value.kind = "ary"
  /\ BarredConstructed(Holder(o))
  /\ obj' = [obj EXCEPT ![n] =
               [(IF o.explicit THEN HeaderFirst(Outer(o)) ELSE o) EXCEPT !.modified = FALSE]]
  /\ ret' = Done("to_der", n, FALSE, <<>>)
  /\ UNCHANGED << count, sets, call, hist >>

\* <=> raises in the middle of sort!: some elements were encoded, and the
\* modified flag is not reset.
ToDerSortRaises(n) ==
  LET o   == obj[n]
      ids == o.at_value.ids
  IN
  /\ ~call.active
  /\ o.bytes.null /\ o.at_value.kind = "ary"
  /\ ~BarredConstructed(Holder(o))
  /\ SortsElements(Holder(o)) /\ Len(ids) > 1
  /\ ~Sortable(ids)
  /\ \E S \in SUBSET ({ids[i] : i \in DOMAIN ids} \ {NilElem}) :
       obj' = [EncodedElems(S) EXCEPT ![n] = HeaderFirst(Outer(o))]
  /\ ret' = Done("to_der", n, FALSE, <<>>)
  /\ UNCHANGED << count, sets, call, hist >>

\* One turn of the loop of int_cons_encode_sub_elems_ary.
EncodeElement ==
  LET id == call.ids[call.i] IN
  /\ call.active
  /\ call.i <= Len(call.ids)
  /\ Encodes(id)
  /\ obj' = EncodedElems({id})
  /\ call' = [call EXCEPT !.i = @ + 1, !.buf = @ \o EncodeScalar(obj[id]).out]
  /\ UNCHANGED << count, sets, ret, hist >>

\* A nil in the Array raises; an element that cannot be encoded is an error
\* that int_asn1_data_encode_to sees, so the modified flag is reset.
EncodeElementFails ==
  LET id == call.ids[call.i] IN
  /\ call.active
  /\ call.i <= Len(call.ids)
  /\ ~Encodes(id)
  /\ obj' = IF id = NilElem THEN obj
            ELSE [EncodedElems({id}) EXCEPT ![call.n].modified = @ /\ RaisesTypeError(obj[id])]
  /\ call' = Idle
  /\ ret' = Done("to_der", call.n, FALSE, <<>>)
  /\ UNCHANGED << count, sets, hist >>

\* int_cons_add_eoc_ary reads the last element of the Array.
MissingEoc(o, ids) == o.inf /\ ~IsEoc(obj[ids[Len(ids)]])

\* The value of the object that owns the Array, from its encoded elements.
Written(o, ids, buf) ==
  IF o.explicit
  THEN WithEoc(o, int_asn1_cons_encode_to(Wrapper(o), TRUE, buf).out)
  ELSE IF MissingEoc(o, ids) THEN buf \o EOC ELSE buf

\* rb_ary_entry(ary, -1) of an empty Array is nil, which raises.
NoLastElement(o, ids) == ~o.explicit /\ o.inf /\ ids = <<>>

ToDerEnd ==
  LET n == call.n
      r == int_asn1_cons_encode_to(obj[n], TRUE, Written(obj[n], call.ids, call.buf))
  IN
  /\ call.active
  /\ call.i > Len(call.ids)
  /\ ~NoLastElement(obj[call.n], call.ids)
  /\ obj' = [obj EXCEPT ![n] = [r.obj EXCEPT !.modified = FALSE]]
  /\ call' = Idle
  /\ ret' = Done("to_der", n, r.ok, r.out)
  /\ UNCHANGED << count, sets, hist >>

ToDerEndRaises ==
  /\ call.active
  /\ call.i > Len(call.ids)
  /\ NoLastElement(obj[call.n], call.ids)
  /\ call' = Idle
  /\ ret' = Done("to_der", call.n, FALSE, <<>>)
  /\ UNCHANGED << obj, count, sets, hist >>

-----------------------------------------------------------------------------
(* The program: any call on any object it holds.                           *)

Arrays == {Ary(s) : s \in {t \in UNION {[1..k -> 1..count] : k \in 0..count} :
                             \A i, j \in DOMAIN t : t[i] = t[j] => i = j}}

Next ==
  \/ \E a \in ElemNews : New(a)
  \/ \E n \in Live :
       \/ GetValue(n)
       \/ \E t \in NewTags : SetTag(n, t)
       \/ \E sym \in TagClassSymbol : SetTagClass(n, sym)
       \/ SetInfiniteLength(n)
       \/ \E bits \in NewBits : SetUnusedBits(n, bits)
       \/ \E v \in NewValues : SetValue(n, v)
       \/ ToDerScalar(n)
       \/ ToDerBegin(n)
       \/ ToDerRefused(n)
       \/ ToDerSortRaises(n)
  \/ \E v \in Arrays : SetValue(Root, v)
  \/ EncodeElement
  \/ EncodeElementFails
  \/ ToDerEnd
  \/ ToDerEndRaises

Spec == Init /\ [][Next]_vars

-----------------------------------------------------------------------------
(* Properties.                                                             *)

RetType == [op : {"none", "value", "value=", "tag_class=", "to_der"}, n : Node,
            ok : BOOLEAN, out : Seq(Token)]

CallType == [active : BOOLEAN, n : Node, ids : Seq(Int), i : Nat \ {0}, buf : Seq(Token)]

HistType == [src : Seq(Token), touched : BOOLEAN, lost : BOOLEAN, retag : BOOLEAN,
             flip : BOOLEAN, stale : BOOLEAN, bits : BOOLEAN]

ElementId == {NilElem} \cup (1..count)

\* Every variable has its type, and Arrays name objects that exist.
TypeOK ==
  /\ obj \in [Node -> Object]
  /\ count \in Node
  /\ sets \in 0..MaxSets
  /\ call \in CallType
  /\ ret \in RetType
  /\ hist \in [Node -> HistType]
  /\ \A n \in Node : obj[n].at_value.ids \in Seq(ElementId)
  /\ call.ids \in Seq(ElementId)

\* What the program reads from an object (tag, tag_class, infinite_length)
\* is what the header holds and will encode, unless a tag_class= raised
\* half way.
AttributesMirrorHeader ==
  \A n \in Node : ~hist[n].retag =>
    /\ obj[n].at_tag = obj[n].tag
    /\ obj[n].at_inf = obj[n].inf
    /\ tag_class_for_id(obj[n].at_tag_class) = obj[n].tag_class
    /\ obj[n].explicit <=> obj[n].at_tag_class = "EXPLICIT"

\* Cached identifier octets always describe the header: every path that
\* changes tag, tag class or the constructed bit drops them first, also the
\* encoder, which sets the constructed bit of an explicitly tagged object.
TagCacheFresh ==
  \A n \in Node : ~hist[n].retag =>
    obj[n].tag_bytes \in {<<>>, int_compute_tag(obj[n])}

\* Cached length octets describe the cached value bytes they will be
\* written with, unless infinite_length= was changed over cached bytes.
LengthCacheFresh ==
  \A n \in Node :
    ~obj[n].bytes.null /\ obj[n].length_bytes # <<>> /\ ~hist[n].flip =>
      LET len == obj[n].length_bytes[1] IN
      /\ len.inf = obj[n].inf
      /\ ~len.inf => len.n = Len(obj[n].bytes.tok)

\* An object that was parsed and that no setter touched encodes to the
\* octets it was parsed from, BER forms included, however much of it was
\* decoded in between (krypt_asn1_data_to_der), unless a failed decode
\* dropped its bytes.  Elements count as part of the root.
Untouched(n) ==
  /\ ~hist[n].touched /\ ~hist[n].lost
  /\ n = Root => \A i \in DOMAIN obj[n].at_value.ids :
                   LET id == obj[n].at_value.ids[i]
                   IN  id # NilElem => ~hist[id].touched

\* The end of an indefinite length is always written with a length of one
\* octet.
EndsPlainly(src) == src[2].inf => SubSeq(src, Len(src) - 1, Len(src)) = EOC

ParsedEncodingPreserved ==
  ret.op = "to_der" /\ ret.ok /\ hist[ret.n].src # <<>> /\ Untouched(ret.n)
    /\ (obj[ret.n].decoded => EndsPlainly(hist[ret.n].src)) =>
    ret.out = hist[ret.n].src

HasNil(ids) == \E i \in DOMAIN ids : ids[i] = NilElem

\* The elements decoded from an untouched object are all of its value: put
\* together again, with the end-of-contents of an indefinite length, they
\* are the octets of the value.
DecodedElementsComplete ==
  LET o   == obj[Root]
      src == hist[Root].src
      ids == o.at_value.ids
  IN  src # <<>> /\ o.decoded /\ o.cons /\ ~hist[Root].touched /\ ~hist[Root].lost
        /\ ~HasNil(ids) =>
      LET parts == FlattenSeq([i \in DOMAIN ids |-> hist[ids[i]].src])
      IN  SubSeq(src, 3, Len(src)) =
            IF o.inf THEN parts \o SubSeq(src, Len(src) - 1, Len(src)) ELSE parts

\* The length a root is written with is the length of what follows, unless
\* an element changed under a cached length, infinite_length= was changed
\* over cached bytes, decoding dropped the value, or a tag_class= of the root
\* or an element raised half way.
WrittenLengthCorrect ==
  ret.op = "to_der" /\ ret.ok /\ ret.n = Root
    /\ ~hist[Root].stale /\ ~hist[Root].flip /\ ~hist[Root].lost /\ ~hist[Root].retag
    /\ (\A i \in DOMAIN obj[Root].at_value.ids : ~hist[obj[Root].at_value.ids[i]].retag) =>
    ret.out[2].inf \/ ret.out[2].n = Len(ret.out) - 2

\* The elements of an Array as they are written.
Octets(ids) == FlattenSeq([i \in DOMAIN ids |-> EncodeScalar(obj[ids[i]]).out])

InOrder(ids) == \A i, j \in DOMAIN ids : i < j => NotAfter(ids[i], ids[j])

UniversalSet(h) == h.tag = SET /\ h.tag_class = "UNIVERSAL"

AllUntouched(ids) == \A i \in DOMAIN ids : ~hist[ids[i]].touched

\* DER wants the elements of a SET in order.  A SET that the program created
\* or changed is written so, whatever was encoded before or failed to be,
\* unless an element was changed, which does not set the flag of its SET
\* (int_cons_encode_sub_elems): the elements are left in order in the Array,
\* and what is written is their encodings in that order.
SetWrittenInOrder ==
  LET o   == obj[Root]
      ids == o.at_value.ids
  IN  /\ ret.op = "to_der" /\ ret.ok /\ ret.n = Root /\ ~call.active
      /\ o.at_value.kind = "ary" /\ UniversalSet(Holder(o))
      /\ hist[Root].src = <<>> \/ hist[Root].touched
      /\ AllUntouched(ids)
      => /\ InOrder(ids)
         /\ IsPrefix(Octets(ids), SubSeq(ret.out, IF o.explicit THEN 5 ELSE 3, Len(ret.out)))

\* A BIT STRING is written with the unused bits that unused_bits returns,
\* parsed or set, before or after its value, unless they were set while its
\* octets were cached, which keeps the octets
\* (krypt_asn1_bit_string_set_unused_bits).  Behind an explicit tag they are
\* always 0: int_asn1_make_explicit writes a new BIT STRING.
UnusedBitsWritten ==
  LET o == obj[ret.n]
      h == hist[ret.n]
  IN  /\ ret.op = "to_der" /\ ret.ok
      /\ o.default_tag = BIT_STRING /\ o.codec = "bit_string"
      /\ o.decoded /\ o.at_value.kind = "str" /\ ~h.bits /\ ~h.retag
      => IF o.explicit THEN ret.out[5].v = 0 ELSE ret.out[3].v = o.at_unused_bits

\* Two end-of-contents among the elements: the order has them after each
\* other, either way (krypt_asn1_cmp_set_of).
TwoEocs(ids) == \E i, j \in DOMAIN ids : i # j /\ IsEoc(obj[ids[i]]) /\ IsEoc(obj[ids[j]])

\* The elements of an explicitly tagged SET are sorted whenever it is encoded.
SortsAlways(o) == o.explicit /\ UniversalSet(Holder(o))

\* Encoding an object twice in a row gives the same octets: the caches, the
\* sorting of a SET in place and the reset of its modified flag agree.  Only
\* an explicitly tagged SET with two end-of-contents in it may be sorted into
\* another order every time.
EncodingStable ==
  [][ret.op = "to_der" /\ ret.ok /\ ret'.op = "to_der" /\ ret'.n = ret.n
       /\ ~(SortsAlways(obj[ret.n]) /\ TwoEocs(obj[ret.n].at_value.ids)) => ret' = ret]_vars

-----------------------------------------------------------------------------
(* The inductive invariant.                                                *)

\* An explicit tag is only given to an object with a default tag, has no
\* value bytes of its own, and its identifier octets are computed after the
\* constructed bit was set.
ExplicitInv(o, h) ==
  /\ o.explicit => o.default_tag # -1
  /\ ~h.retag /\ o.explicit => /\ o.bytes.null
                               /\ o.tag_bytes # <<>> => o.cons

TagInv(o, h) == ~h.retag => o.tag_bytes \in {<<>>, int_compute_tag(o)}

MirrorInv(o, h) ==
  ~h.retag => /\ o.at_tag = o.tag
              /\ o.at_inf = o.inf
              /\ tag_class_for_id(o.at_tag_class) = o.tag_class
              /\ o.explicit <=> o.at_tag_class = "EXPLICIT"

EncodesToNothing(o) ==
  \/ o.at_value.kind = "nil"
  \/ o.at_value.oct = <<>> /\ o.codec # "bit_string" /\ ~o.cb

\* Value bytes come with length octets that describe them.  Length octets
\* without value bytes describe the empty value on a primitive object, which
\* is what encoding it again will give.
LengthInv(o, h) ==
  ~h.flip =>
    /\ ~o.bytes.null => /\ o.length_bytes # <<>>
                        /\ o.length_bytes[1].inf = o.inf
                        /\ ~o.inf => o.length_bytes[1].n = Len(o.bytes.tok)
    /\ o.bytes.null /\ ~o.cons /\ o.length_bytes # <<>> =>
                        /\ o.length_bytes[1].inf = o.inf
                        /\ ~o.inf => o.length_bytes[1].n = 0
                        /\ EncodesToNothing(o)

\* Only a created object may change its codec with its tag.
CodecInv(o) == o.cb => o.decoded

ArrayInv(o) == o.at_value.kind = "ary" => o.cons /\ o.at_value.oct = <<>>

\* The value of a primitive object is octets; that of a constructed one is
\* cut into elements of which only the last may be truncated.
BytesInv(o) ==
  /\ o.bytes.null => o.bytes.tok = <<>>
  /\ ~o.cons => o.bytes.tok \in Seq(Octet)
  /\ ElemsSound(o.bytes.elems)

ObjInv(o, h) ==
  /\ ExplicitInv(o, h)
  /\ TagInv(o, h)
  /\ MirrorInv(o, h)
  /\ LengthInv(o, h)
  /\ CodecInv(o)
  /\ ArrayInv(o)
  /\ BytesInv(o)

\* What makes the caches fresh is inductive: the object whose Array is being
\* encoded is constructed and has no value bytes, whatever its elements do.
IInv ==
  /\ TypeOK
  /\ \A n \in Node : ObjInv(obj[n], hist[n])
  /\ call.active => obj[call.n].cons /\ obj[call.n].bytes.null

-----------------------------------------------------------------------------
(* What is written: the inductive invariant of the properties above.        *)

\* Identifier and length are one token each, and the length is of the kind
\* the header asks for.
HeaderInv(o) ==
  /\ Len(o.tag_bytes) <= 1 /\ Len(o.length_bytes) <= 1
  /\ o.length_bytes # <<>> => o.length_bytes[1].inf = o.inf
  /\ o.cb => o.default_tag = -1
  /\ o.explicit => o.tag_class = "CONTEXT_SPECIFIC"

\* A constructed value is its elements, and reading it frees it.  What was
\* assigned before it was read, and is empty, is a value of the codec.
ContentInv(o) ==
  /\ o.cons => o.bytes.tok = Constructed(o.bytes.elems).tok
  /\ o.cons /\ o.decoded => o.bytes.null
  /\ o.bytes.null => o.bytes.elems = <<>>
  /\ o.at_value.kind = "ary" => o.bytes.null
  /\ ~o.decoded /\ ~o.cons /\ o.bytes.null /\ o.length_bytes # <<>> =>
       o.at_value.kind = "nil" \/ validator(o.codec, o.at_value)

\* What was created is decoded, and so is what is tagged explicitly, unless a
\* tag_class= raised half way.  A setter leaves the modified flag alone only
\* on a BIT STRING.
HistoryInv(o, h) ==
  /\ ~h.touched => ~h.flip /\ ~h.retag /\ ~h.bits
  /\ h.src = <<>> => o.decoded
  /\ h.src # <<>> /\ ~h.touched => o.default_tag \in {-1, o.tag}
  /\ ~h.retag /\ o.explicit => o.decoded
  /\ h.flip /\ ~o.cons => ~o.bytes.null
  /\ h.touched /\ ~o.modified /\ o.cons /\ ~o.bytes.null => o.tag = BIT_STRING

\* The first octet of a cached BIT STRING is what unused_bits returns.
BitsInv(o, h) ==
  o.default_tag = BIT_STRING /\ o.codec = "bit_string" /\ o.decoded /\ ~o.bytes.null
    /\ ~h.bits =>
      o.bytes.tok # <<>> /\ o.bytes.tok[1].v = o.at_unused_bits

\* Length octets without value bytes are those of what encoding again gives.
WrappedLengthInv(o, h) ==
  o.bytes.null /\ o.length_bytes # <<>> /\ ~o.inf /\ ~h.flip /\ ~h.lost /\ ~h.retag =>
    /\ o.explicit /\ o.at_value.kind # "ary" =>
         LET wrapped == int_asn1_prim_encode_to(Wrapper(o), o.at_value)
         IN  wrapped.ok => o.length_bytes[1].n = Len(wrapped.out)
    /\ ~o.explicit /\ o.cons /\ o.at_value.kind = "nil" => o.length_bytes[1].n = 0

\* What was parsed and not touched still has the octets it was parsed from,
\* in the header and, unless it is constructed and decoded, in the value.
SourceInv(o, h) ==
  h.src # <<>> /\ ~h.touched /\ ~h.lost =>
    /\ Len(h.src) >= 2
    /\ o.tag_bytes = << h.src[1] >> /\ o.length_bytes = << h.src[2] >>
    /\ ~o.explicit /\ ~o.modified
    /\ ~o.decoded => o.at_value = NilValue
    /\ ~(o.cons /\ o.decoded) => SubSeq(h.src, 3, Len(h.src)) = o.bytes.tok
    /\ o.cons /\ ~o.decoded /\ o.inf => EndsWithEoc(o.bytes.elems)
    /\ o.cons /\ o.decoded => o.at_value.kind = "ary"

\* An element holds no elements, and is only constructed by an explicit tag.
ElementInv(o, h) ==
  /\ o.at_value.ids = <<>> /\ o.bytes.elems = <<>>
  /\ ~h.retag => (o.cons => o.decoded) /\ o.at_value.kind # "ary"
  /\ h.src # <<>> /\ ~h.touched => ~h.lost

NodeInv(o, h) ==
  /\ HeaderInv(o)
  /\ ContentInv(o)
  /\ HistoryInv(o, h)
  /\ BitsInv(o, h)
  /\ WrappedLengthInv(o, h)
  /\ SourceInv(o, h)

NodesInv ==
  /\ \A n \in Node : NodeInv(obj[n], hist[n])
  /\ \A n \in Node \ {Root} : ElementInv(obj[n], hist[n])
  /\ \A n \in Node \ Live : hist[n] = NewHist(<<>>)

\* The elements of an untouched root were parsed with it, and are its value.
ElementsInv ==
  LET o   == obj[Root]
      src == hist[Root].src
      ids == o.at_value.ids
  IN  src # <<>> /\ o.decoded /\ o.cons /\ ~hist[Root].touched /\ ~hist[Root].lost =>
        /\ \A i \in DOMAIN ids : ids[i] # NilElem =>
             /\ hist[ids[i]].src # <<>>
             /\ o.inf => ~IsEocHeader(hist[ids[i]].src[1])
        /\ o.inf => Len(src) >= 4
        /\ DecodedElementsComplete

\* The cached length of an Array is that of its elements.
ArrayLengthInv ==
  LET o   == obj[Root]
      h   == hist[Root]
      ids == o.at_value.ids
  IN  /\ o.bytes.null /\ o.at_value.kind = "ary" /\ o.length_bytes # <<>> /\ ~o.inf
      /\ ~h.stale /\ ~h.flip /\ ~h.lost /\ ~h.retag
      /\ \A i \in DOMAIN ids : ids[i] # NilElem /\ ~hist[ids[i]].retag
      => /\ \A i \in DOMAIN ids : obj[ids[i]].length_bytes # <<>>
         /\ AllEncode(ids) =>
              o.length_bytes[1].n = Len(Octets(ids)) + (IF o.explicit THEN 2 ELSE 0)

\* A SET that is not modified is in order.
SortedInv ==
  LET o   == obj[Root]
      h   == hist[Root]
      ids == o.at_value.ids
  IN  /\ o.bytes.null /\ o.at_value.kind = "ary" /\ UniversalSet(o) /\ ~o.modified
      /\ h.src = <<>> \/ h.touched
      /\ ~HasNil(ids) /\ AllUntouched(ids)
      => InOrder(ids)

\* The Array under way is that of its object, in order, and what is written
\* of it are the elements visited.
LoopInv ==
  LET o   == obj[call.n]
      ids == call.ids
  IN  call.active =>
        /\ call.n \in Live
        /\ o.at_value = Ary(ids)
        /\ ~BarredConstructed(Holder(o))
        /\ SortsElements(Holder(o)) => InOrder(ids) /\ (Len(ids) > 1 => ~HasNil(ids))
        /\ call.i <= Len(ids) + 1
        /\ \A i \in 1..(call.i - 1) : /\ Encodes(ids[i])
                                     /\ obj[ids[i]].length_bytes # <<>>
        /\ call.buf = Octets(SubSeq(ids, 1, call.i - 1))

\* Encoding an object again gives the same octets.
RepeatsArray(n, out) ==
  LET o   == obj[n]
      ids == o.at_value.ids
      r   == int_asn1_cons_encode_to(o, TRUE, Written(o, ids, Octets(ids)))
  IN  /\ AllEncode(ids)
      /\ o.tag_bytes # <<>> /\ o.length_bytes # <<>>
      /\ ~BarredConstructed(Holder(o)) /\ ~NoLastElement(o, ids)
      /\ ~o.modified
      /\ SortsAlways(o) => InOrder(ids)
      /\ r.ok /\ r.out = out

Repeats(n, out) ==
  IF ~obj[n].bytes.null \/ obj[n].at_value.kind # "ary"
  THEN EncodeScalar(obj[n]).ok /\ EncodeScalar(obj[n]).out = out
  ELSE RepeatsArray(n, out)

RetInv ==
  ret.op = "to_der" /\ ret.ok =>
    /\ ret.n \in Live
    /\ \/ Repeats(ret.n, ret.out)
       \/ /\ call.active /\ call.n = ret.n
          /\ SortsAlways(obj[ret.n]) /\ TwoEocs(obj[ret.n].at_value.ids)

WrittenInv ==
  /\ IInv
  /\ NodesInv
  /\ ElementsInv
  /\ ArrayLengthInv
  /\ SortedInv
  /\ LoopInv
  /\ RetInv

-----------------------------------------------------------------------------
(* What the documentation says and the code does not do: each of these is  *)
(* violated.                                                               *)

\* Setting a value and reading it back gives that value ("Set the value of
\* an ASN1Data"): value= followed by value.
ReadAfterWrite ==
  [][ret.op = "value=" /\ ret'.op = "value" /\ ret'.n = ret.n =>
       obj'[ret.n].at_value = obj[ret.n].at_value]_vars

\* Parsed values can be "modified and re-encoded at will": after an element
\* changed, the length of the root is still the length of what follows.
LengthFollowsElements ==
  ret.op = "to_der" /\ ret.ok /\ ret.n = Root /\ ~hist[Root].flip /\ ~hist[Root].lost =>
    ret.out[2].inf \/ ret.out[2].n = Len(ret.out) - 2

=============================================================================
