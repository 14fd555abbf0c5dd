------------------------ MODULE Asn1Encoding_proofs -------------------------
(***************************************************************************)
(* Proofs about the octets that Asn1Data writes, for every set of tags,    *)
(* elements and values.                                                    *)
(*                                                                         *)
(* Asn1Data_proofs has what one call does with one object, and NodesInv.   *)
(* Here the other parts of WrittenInv follow: LoopInv (the Array that is   *)
(* being written), RetInv (what was returned would be returned again),     *)
(* ElementsInv (the elements of an untouched root), SortedInv (an          *)
(* unmodified SET is in order) and ArrayLengthInv (a cached length is that *)
(* of the elements).  The theorems about what to_der returns follow from   *)
(* these.                                                                  *)
(***************************************************************************)
EXTENDS Asn1Data_proofs

-----------------------------------------------------------------------------
(* The octets of an Array, element by element: LoopInv.                    *)

\* The octets of an Array, element by element.
EachOctets(ids) == [i \in DOMAIN ids |-> EncodeScalar(obj[ids[i]]).out]

\* The octets of the elements are octets.
LEMMA OctetsType ==
  ASSUME IInv, NEW ids \in Seq(Node)
  PROVE  EachOctets(ids) \in Seq(Seq(Token)) /\ Octets(ids) = FlattenSeq(EachOctets(ids))
         /\ Octets(ids) \in Seq(Token)
<1>1. \A i \in 1..Len(ids) : EncodeScalar(obj[ids[i]]).out \in Seq(Token)
  <2>1. \A m \in Node : EncodeScalar(obj[m]).out \in Seq(Token) BY EncoderFinds, EncodedNode
  <2> QED BY <2>1
<1>2. EachOctets(ids) = [i \in 1..Len(ids) |-> EncodeScalar(obj[ids[i]]).out] BY DEF EachOctets
<1>3. EachOctets(ids) \in Seq(Seq(Token)) BY <1>1, <1>2
<1>4. Octets(ids) = FlattenSeq(EachOctets(ids)) BY DEF Octets, EachOctets
<1> QED BY <1>3, <1>4, FlattenType

\* No elements, no octets.
LEMMA NoOctets ==
  ASSUME NEW ids, ids = << >>
  PROVE  Octets(ids) = << >>
<1>1. [i \in DOMAIN ids |-> EncodeScalar(obj[ids[i]]).out] = << >> OBVIOUS
<1> QED BY <1>1, FlattenEmpty DEF Octets

\* The octets of the first k elements are those of the first k - 1, and then
\* those of the k-th.
LEMMA OctetsAppend ==
  ASSUME IInv, NEW ids \in Seq(Int), NEW k \in 1..Len(ids), \A i \in 1..k : ids[i] \in Node
  PROVE  /\ Octets(SubSeq(ids, 1, k)) =
              Octets(SubSeq(ids, 1, k - 1)) \o EncodeScalar(obj[ids[k]]).out
         /\ Octets(SubSeq(ids, 1, k - 1)) \in Seq(Token)
<1> DEFINE p == SubSeq(ids, 1, k)
           q == SubSeq(ids, 1, k - 1)
<1>1. p \in Seq(Node) /\ q \in Seq(Node) /\ Len(q) = k - 1 /\ Len(p) = k
      /\ ids[k] \in Node /\ (\A i \in 1..(k - 1) : p[i] = ids[i] /\ q[i] = ids[i])
      /\ p[k] = ids[k] OBVIOUS
<1> HIDE DEF p, q
<1>2. EncodeScalar(obj[ids[k]]).out \in Seq(Token) BY <1>1, EncoderFinds, EncodedNode
<1>3. /\ EachOctets(p) \in Seq(Seq(Token)) /\ Octets(p) = FlattenSeq(EachOctets(p))
      /\ EachOctets(q) \in Seq(Seq(Token)) /\ Octets(q) = FlattenSeq(EachOctets(q))
      /\ Octets(q) \in Seq(Token) BY <1>1, OctetsType
<1>4. EachOctets(p) = Append(EachOctets(q), EncodeScalar(obj[ids[k]]).out)
  <2>1. /\ EachOctets(p) = [i \in 1..k |-> EncodeScalar(obj[p[i]]).out]
        /\ EachOctets(q) = [i \in 1..(k - 1) |-> EncodeScalar(obj[q[i]]).out]
    BY <1>1 DEF EachOctets
  <2>2. Len(EachOctets(p)) = k /\ Len(EachOctets(q)) = k - 1 BY <1>3, <2>1
  <2>3. \A i \in 1..(k - 1) : EachOctets(p)[i] = EachOctets(q)[i] BY <1>1, <2>1
  <2>4. EachOctets(p)[k] = EncodeScalar(obj[ids[k]]).out BY <1>1, <2>1
  <2> DEFINE e == EncodeScalar(obj[ids[k]]).out
             x == EachOctets(p)
             y == EachOctets(q)
  <2>5. x \in Seq(Seq(Token)) /\ y \in Seq(Seq(Token)) /\ e \in Seq(Token)
        /\ Len(x) = Len(y) + 1 /\ (\A i \in 1..Len(y) : x[i] = y[i]) /\ x[Len(y) + 1] = e
    BY <1>2, <1>3, <2>2, <2>3, <2>4
  <2> HIDE DEF e, x, y
  <2>6. x = Append(y, e) BY <2>5
  <2> QED BY <2>6 DEF e, x, y
<1>5. FlattenSeq(Append(EachOctets(q), EncodeScalar(obj[ids[k]]).out)) =
        FlattenSeq(EachOctets(q)) \o EncodeScalar(obj[ids[k]]).out BY <1>2, <1>3, FlattenAppend
<1> QED BY <1>3, <1>4, <1>5 DEF p, q

\* The elements encode as before.
AlikeElems(ids) == \A i \in DOMAIN ids : ids[i] # NilElem => Alike(obj'[ids[i]], obj[ids[i]])

\* Elements that encode as before make an Array that is written as before.
LEMMA ElementsAlike ==
  ASSUME NEW ids, AlikeElems(ids)
  PROVE  /\ AllEncode(ids)' = AllEncode(ids)
         /\ ~HasNil(ids) => /\ Octets(ids)' = Octets(ids)
                            /\ InOrder(ids)' = InOrder(ids)
                            /\ TwoEocs(ids)' = TwoEocs(ids)
<1>1. \A i \in DOMAIN ids : Encodes(ids[i])' = Encodes(ids[i]) BY DEF AlikeElems, Encodes, Alike
<1>2. AllEncode(ids)' = AllEncode(ids) BY <1>1 DEF AllEncode
<1>3. ASSUME ~HasNil(ids)
      PROVE  /\ Octets(ids)' = Octets(ids)
             /\ InOrder(ids)' = InOrder(ids)
             /\ TwoEocs(ids)' = TwoEocs(ids)
  <2>1. \A i \in DOMAIN ids :
          /\ EncodeScalar(obj'[ids[i]]).out = EncodeScalar(obj[ids[i]]).out
          /\ obj'[ids[i]].tag = obj[ids[i]].tag /\ obj'[ids[i]].tag_class = obj[ids[i]].tag_class
    BY <1>3 DEF HasNil, AlikeElems, Alike
  <2>2. Octets(ids)' = Octets(ids) BY <2>1 DEF Octets
  <2>3. \A i, j \in DOMAIN ids : NotAfter(ids[i], ids[j])' = NotAfter(ids[i], ids[j])
    BY <2>1 DEF NotAfter, IsEoc
  <2>4. InOrder(ids)' = InOrder(ids) BY <2>3 DEF InOrder
  <2>5. TwoEocs(ids)' = TwoEocs(ids) BY <2>1 DEF TwoEocs, IsEoc
  <2> QED BY <2>2, <2>4, <2>5
<1> QED BY <1>2, <1>3

\* Encoding objects leaves every object as it encodes.
LEMMA EncodedAlike ==
  ASSUME IInv, NEW S, NEW m \in Node
  PROVE  /\ Sound(EncodedElems(S)[m]) /\ Alike(EncodedElems(S)[m], obj[m])
         /\ m \in S => EncodedElems(S)[m] = EncodeScalar(obj[m]).obj
         /\ m \notin S => EncodedElems(S)[m] = obj[m]
<1>1. Sound(obj[m]) BY EncoderFinds DEF NodeOK, ObjInv, ExplicitInv, Sound
<1>2. EncodedElems(S)[m] = IF m \in S THEN EncodeScalar(obj[m]).obj ELSE obj[m]
  BY DEF EncodedElems
<1>3. Alike(obj[m], obj[m]) BY DEF Alike
<1> QED BY <1>1, <1>2, <1>3, ScalarTwice

\* The elements of an Array are other objects than the one that holds it.
LEMMA ElementsApart ==
  ASSUME IInv, NodesInv, NEW n \in Live, NEW i \in DOMAIN obj[n].at_value.ids,
         obj[n].at_value.ids[i] # NilElem
  PROVE  /\ n = Root
         /\ obj[n].at_value.ids[i] \in Live \ {n} /\ obj[n].at_value.ids[i] \in Node \ {Root}
<1> DEFINE ids == obj[n].at_value.ids
<1>1. n \in Node /\ ids \in Seq(ElementId) /\ count \in Nat /\ Live \subseteq Node
      /\ (n # Root => ElementInv(obj[n], hist[n])) BY NodesFind
<1>2. n = Root
  <2>1. ids # << >> OBVIOUS
  <2> QED BY <1>1, <2>1 DEF ElementInv
<1>3. ids[i] \in 1..count BY <1>1 DEF ElementId
<1> QED BY <1>1, <1>2, <1>3 DEF Live, Root

\* What sort! returns: the same elements, one to one, in order.
LEMMA SortedFacts ==
  ASSUME NEW S, NEW ids \in Seq(S), NEW order \in SortedOrders(ids)
  PROVE  /\ order \in Seq(S) /\ DOMAIN order = DOMAIN ids /\ Len(order) = Len(ids)
         /\ InOrder(order)
         /\ \E p \in [DOMAIN ids -> DOMAIN ids] :
              /\ \A i, j \in DOMAIN ids : p[i] = p[j] => i = j
              /\ order = [i \in DOMAIN ids |-> ids[p[i]]]
<1>1. PICK p \in [DOMAIN ids -> DOMAIN ids] :
        /\ \A i, j \in DOMAIN ids : p[i] = p[j] => i = j
        /\ \A i, j \in DOMAIN ids : i < j => NotAfter(ids[p[i]], ids[p[j]])
        /\ order = [i \in DOMAIN ids |-> ids[p[i]]] BY DEF SortedOrders
<1>2. order \in Seq(S) BY SortedType
<1>3. DOMAIN order = DOMAIN ids BY <1>1
<1>4. Len(order) = Len(ids) BY <1>2, <1>3
<1>5. InOrder(order) BY <1>1 DEF InOrder
<1> QED BY <1>1, <1>2, <1>3, <1>4, <1>5

\* What the holder of the elements is, but for the Array itself.
SameHolder(q, o) ==
  /\ q.tag = o.tag /\ q.tag_class = o.tag_class /\ q.inf = o.inf
  /\ q.explicit = o.explicit /\ q.default_tag = o.default_tag

\* Whether the elements are sorted depends on the holder of the Array and its
\* modified flag.
LEMMA HolderSame ==
  ASSUME NEW o, NEW q, SameHolder(q, o)
  PROVE  /\ BarredConstructed(Holder(q)) = BarredConstructed(Holder(o))
         /\ UniversalSet(Holder(q)) = UniversalSet(Holder(o))
         /\ SortsAlways(q) = SortsAlways(o)
         /\ q.modified = o.modified => SortsElements(Holder(q)) = SortsElements(Holder(o))
         /\ SortsElements(Holder(q)) = (UniversalSet(Holder(q)) /\ (q.explicit \/ q.modified))
  BY DEF SameHolder, Holder, Wrapper, Created, BarredConstructed, UniversalSet, SortsAlways,
    SortsElements, tag_class_for_id

\* The object whose Array is written from now on.
LEMMA SortedObject ==
  ASSUME NEW x \in Object, NEW o, SameIdentity(x, o), x.modified = o.modified, NEW order
  PROVE  LET y == int_cons_sort_set(x, order)
         IN  /\ y.at_value = Ary(order) /\ SameHolder(y, o) /\ y.modified = o.modified
             /\ y.bytes = x.bytes /\ y.cons = x.cons
             /\ y.tag_bytes = x.tag_bytes /\ y.length_bytes = x.length_bytes
  BY DEF int_cons_sort_set, SameIdentity, SameHolder, Object

\* What the first step of the encoding of an Array finds and does.
LEMMA BeginFacts ==
  ASSUME IInv, NodesInv, NEW n \in Live, ToDerBegin(n)
  PROVE  /\ obj[n].bytes.null /\ obj[n].at_value.kind = "ary"
         /\ ~BarredConstructed(Holder(obj[n]))
         /\ count' = count /\ hist' = hist /\ ret' = ret
         /\ \E order :
              /\ order \in Seq(ElementId)
              /\ Len(order) = Len(obj[n].at_value.ids) /\ DOMAIN order = DOMAIN obj[n].at_value.ids
              /\ obj' = [m \in Node |-> IF m = n THEN int_cons_sort_set(HeaderFirst(Outer(obj[n])), order)
                                        ELSE obj[m]]
              /\ call' = [active |-> TRUE, n |-> n, ids |-> order, i |-> 1, buf |-> <<>>]
              /\ \/ order = obj[n].at_value.ids
                 \/ /\ order \in SortedOrders(obj[n].at_value.ids) /\ Len(order) > 1
                    /\ AllEncode(obj[n].at_value.ids) /\ SortsElements(Holder(obj[n]))
              /\ SortsElements(Holder(obj[n])) => InOrder(order)
              /\ \A i \in DOMAIN order : order[i] # NilElem =>
                   n = Root /\ order[i] \in Live \ {n} /\ order[i] \in Node \ {Root}
<1> DEFINE o     == obj[n]
           ids   == o.at_value.ids
           sorts == SortsElements(Holder(o)) /\ Len(ids) > 1
           x     == HeaderFirst(Outer(o))
<1>1. n \in Node /\ ids \in Seq(ElementId) BY NodesFind
<1>2. /\ o.bytes.null /\ o.at_value.kind = "ary" /\ ~BarredConstructed(Holder(o))
      /\ count' = count /\ hist' = hist /\ ret' = ret
      /\ sorts => AllEncode(ids) BY DEF ToDerBegin
<1>3. PICK order \in IF sorts THEN SortedOrders(ids) ELSE {ids} :
        /\ obj' = [obj EXCEPT ![n] = int_cons_sort_set(x, order)]
        /\ call' = [active |-> TRUE, n |-> n, ids |-> order, i |-> 1, buf |-> <<>>]
  BY DEF ToDerBegin
<1>4. \A i \in DOMAIN ids : ids[i] # NilElem =>
        n = Root /\ ids[i] \in Live \ {n} /\ ids[i] \in Node \ {Root} BY ElementsApart
<1> DEFINE y == int_cons_sort_set(x, order)
<1>5. obj' = [m \in Node |-> IF m = n THEN y ELSE obj[m]] BY <1>1, <1>3, EncoderFinds
<1> HIDE DEF ids, x
<1>6. CASE sorts
  <2>1. /\ order \in Seq(ElementId) /\ DOMAIN order = DOMAIN ids /\ Len(order) = Len(ids)
        /\ InOrder(order) BY <1>1, <1>3, <1>6, SortedFacts
  <2>0. \E p \in [DOMAIN ids -> DOMAIN ids] :
          /\ \A i, j \in DOMAIN ids : p[i] = p[j] => i = j
          /\ order = [i \in DOMAIN ids |-> ids[p[i]]]
    <3>1. order \in SortedOrders(ids) BY <1>3, <1>6
    <3> HIDE DEF sorts
    <3> QED BY <1>1, <3>1, SortedFacts
  <2>2. PICK p \in [DOMAIN ids -> DOMAIN ids] : order = [i \in DOMAIN ids |-> ids[p[i]]] BY <2>0
  <2>3. \A i \in DOMAIN order : order[i] # NilElem =>
          n = Root /\ order[i] \in Live \ {n} /\ order[i] \in Node \ {Root} BY <1>4, <2>2
  <2>4. order \in SortedOrders(ids) /\ Len(order) > 1 /\ AllEncode(ids)
        /\ SortsElements(Holder(o)) BY <1>2, <1>3, <1>6, <2>1
  <2> QED BY <1>2, <1>3, <1>5, <2>1, <2>3, <2>4 DEF ids, x
<1>7. CASE ~sorts
  <2>1. order = ids BY <1>3, <1>7
  <2>2. SortsElements(Holder(o)) => Len(ids) <= 1 BY <1>1, <1>7
  <2>3. Len(ids) <= 1 => InOrder(ids) BY <1>1 DEF InOrder
  <2>4. /\ order \in Seq(ElementId) /\ Len(order) = Len(ids) /\ DOMAIN order = DOMAIN ids
        /\ SortsElements(Holder(o)) => InOrder(order) BY <1>1, <2>1, <2>2, <2>3
  <2>5. call' = [active |-> TRUE, n |-> n, ids |-> order, i |-> 1, buf |-> <<>>] BY <1>3
  <2>6. \A i \in DOMAIN order : order[i] # NilElem =>
          n = Root /\ order[i] \in Live \ {n} /\ order[i] \in Node \ {Root} BY <1>4, <2>1
  <2> HIDE DEF sorts, y
  <2> QED BY <1>2, <1>5, <2>1, <2>4, <2>5, <2>6 DEF ids, x, y
<1> QED BY <1>6, <1>7

\* The beginning of the encoding of an Array establishes LoopInv.
LEMMA BeginLoop ==
  ASSUME IInv, NodesInv, NEW n \in Live, ToDerBegin(n)
  PROVE  LoopInv'
<1> DEFINE o == obj[n]
           x == HeaderFirst(Outer(o))
<1>1. ~BarredConstructed(Holder(o)) /\ count' = count /\ o.bytes.null BY BeginFacts
<1>2. PICK order :
        /\ order \in Seq(ElementId) /\ Len(order) = Len(o.at_value.ids)
        /\ obj' = [m \in Node |-> IF m = n THEN int_cons_sort_set(x, order) ELSE obj[m]]
        /\ call' = [active |-> TRUE, n |-> n, ids |-> order, i |-> 1, buf |-> <<>>]
        /\ \/ order = o.at_value.ids
           \/ Len(order) > 1 /\ AllEncode(o.at_value.ids) /\ order \in SortedOrders(o.at_value.ids)
        /\ SortsElements(Holder(o)) => InOrder(order)
        /\ \A i \in DOMAIN order : order[i] # NilElem =>
             order[i] \in Live \ {n} /\ order[i] \in Node \ {Root} BY BeginFacts
<1>3. n \in Node /\ o.at_value.ids \in Seq(ElementId) BY NodesFind
<1>4. x \in Object /\ SameIdentity(x, o) /\ x.modified = o.modified /\ x.bytes = o.bytes
  BY BegunObject
<1> DEFINE y == int_cons_sort_set(x, order)
<1> HIDE DEF x
<1>5. y.at_value = Ary(order) /\ SameHolder(y, o) /\ y.modified = o.modified
  BY <1>4, SortedObject
<1> HIDE DEF y
<1>6. obj'[n] = y /\ \A m \in Node : m # n => obj'[m] = obj[m] BY <1>2, <1>3 DEF y
<1>7. AlikeElems(order) BY <1>2, <1>6 DEF AlikeElems, Alike
<1>8. SortsElements(Holder(o)) =>
        InOrder(order)' /\ (Len(order) > 1 => ~HasNil(order)) /\ HasNil(order)' = HasNil(order)
  <2>0. HasNil(order)' = HasNil(order) BY DEF HasNil
  <2>1. CASE Len(order) > 1 /\ AllEncode(o.at_value.ids) /\ order \in SortedOrders(o.at_value.ids)
    <3>1. PICK p \in [DOMAIN o.at_value.ids -> DOMAIN o.at_value.ids] :
            order = [i \in DOMAIN o.at_value.ids |-> o.at_value.ids[p[i]]]
      BY <1>3, <2>1, SortedFacts
    <3>2. ~HasNil(order) BY <2>1, <3>1 DEF HasNil, AllEncode, Encodes
    <3> QED BY <1>2, <1>7, <2>0, <3>2, ElementsAlike
  <2>2. CASE order = o.at_value.ids /\ Len(order) <= 1 BY <1>2, <2>0, <2>2 DEF InOrder
  <2>3. CASE order = o.at_value.ids /\ Len(order) > 1
    <3>1. SortsElements(Holder(o)) => AllEncode(order) BY <2>3 DEF ToDerBegin
    <3>2. SortsElements(Holder(o)) => ~HasNil(order) BY <3>1 DEF HasNil, AllEncode, Encodes
    <3> QED BY <1>2, <1>7, <2>0, <3>2, ElementsAlike
  <2> QED BY <1>2, <2>1, <2>2, <2>3
<1>9. SubSeq(order, 1, 0) = << >> BY <1>2
<1>10. Octets(SubSeq(order, 1, 0))' = << >>
  <2> DEFINE none == SubSeq(order, 1, 0)
  <2>1. none = << >> BY <1>9
  <2> HIDE DEF none
  <2>2. [i \in DOMAIN none |-> EncodeScalar(obj'[none[i]]).out] = << >> BY <2>1
  <2>3. Octets(none)' = FlattenSeq([i \in DOMAIN none |-> EncodeScalar(obj'[none[i]]).out])
    BY DEF Octets
  <2> QED BY <2>2, <2>3, FlattenEmpty DEF none
<1>11. /\ ~BarredConstructed(Holder(y)) /\ (SortsElements(Holder(y)) = SortsElements(Holder(o)))
  BY <1>1, <1>5, HolderSame
<1>12. Live' = Live BY <1>1 DEF Live
<1>13. /\ call'.active /\ call'.n = n /\ call'.ids = order /\ call'.i = 1 /\ call'.buf = << >>
  BY <1>2
<1>14. 1..(1 - 1) = {} /\ 1 - 1 = 0 /\ 1 <= Len(order) + 1 BY <1>2
<1> QED BY <1>5, <1>6, <1>8, <1>10, <1>11, <1>12, <1>13, <1>14 DEF LoopInv

\* Encoding an object leaves its header cached.
LEMMA EncodedHeader ==
  ASSUME IInv, NEW m \in Node, EncodeScalar(obj[m]).ok
  PROVE  /\ EncodeScalar(obj[m]).obj.length_bytes # << >>
         /\ EncodeScalar(obj[m]).obj.tag_bytes # << >>
<1> DEFINE o == obj[m]
           r == EncodeScalar(o)
<1>1. o \in Object /\ (o.explicit => o.default_tag # -1)
  BY EncoderFinds DEF NodeOK, ObjInv, ExplicitInv
<1> HIDE DEF o
<1>2. ScalarEffect(r, o) BY <1>1, EncodeEffect
<1>3. ScalarOk(o) /\ HeaderOf(r.obj, o) BY <1>2 DEF ScalarEffect, o
<1>4. ScalarCons(o) \in BOOLEAN BY <1>1 DEF ScalarCons, Object, Bytes
<1>5. TagFor(o, ScalarCons(o)) # << >> /\ LengthFor(o, ScalarLength(o)) # << >>
  BY <1>1, EmptyAndSingle DEF TagFor, LengthFor, Computed
<1> QED BY <1>3, <1>5 DEF HeaderOf, o

\* The encoding of an element keeps LoopInv: the buffer holds the octets of the
\* elements visited so far.
LEMMA EncodeElementLoop ==
  ASSUME IInv, NodesInv, LoopInv, EncodeElement
  PROVE  LoopInv'
<1>0. PICK c, ids, k : c = call.n /\ ids = call.ids /\ k = call.i OBVIOUS
<1>1. PICK id : id = ids[k] OBVIOUS
<1>2. /\ call.active /\ k <= Len(ids) /\ Encodes(id)
      /\ obj' = EncodedElems({id})
      /\ call' = [call EXCEPT !.i = @ + 1, !.buf = @ \o EncodeScalar(obj[id]).out]
      /\ count' = count BY <1>0, <1>1 DEF EncodeElement
<1>3. call \in CallType /\ ids \in Seq(Int) /\ ids \in Seq(ElementId) /\ k \in Nat \ {0}
      /\ k \in 1..Len(ids) BY <1>0, <1>2, EncoderFinds DEF CallOK, CallType
<1>4. /\ c \in Live /\ obj[c].at_value = Ary(ids)
      /\ ~BarredConstructed(Holder(obj[c]))
      /\ SortsElements(Holder(obj[c])) => InOrder(ids) /\ (Len(ids) > 1 => ~HasNil(ids))
      /\ \A i \in 1..(k - 1) : Encodes(ids[i]) /\ obj[ids[i]].length_bytes # << >>
      /\ call.buf = Octets(SubSeq(ids, 1, k - 1)) BY <1>0, <1>2 DEF LoopInv
<1>5. obj[c].at_value.ids = ids BY <1>4 DEF Ary
<1>6. \A i \in DOMAIN ids : ids[i] # NilElem => ids[i] \in Node \ {c}
  BY <1>4, <1>5, ElementsApart
<1>7. id \in Node /\ id # c /\ id # NilElem BY <1>1, <1>2, <1>3, <1>6 DEF Encodes
<1>8. \A m \in Node : /\ Alike(obj'[m], obj[m])
                      /\ m = id => obj'[m] = EncodeScalar(obj[m]).obj
                      /\ m # id => obj'[m] = obj[m] BY <1>2, EncodedAlike
<1>9. obj'[c] = obj[c] BY <1>4, <1>7, <1>8, NodesFind
<1>10. AlikeElems(ids) BY <1>6, <1>8 DEF AlikeElems
<1>11. SortsElements(Holder(obj[c])) => InOrder(ids)' /\ (Len(ids) > 1 => ~HasNil(ids)')
  <2>0. HasNil(ids)' = HasNil(ids) BY DEF HasNil
  <2>1. CASE Len(ids) > 1 BY <1>4, <1>10, <2>0, <2>1, ElementsAlike
  <2>2. CASE Len(ids) <= 1 BY <1>3, <2>2 DEF InOrder
  <2> QED BY <1>3, <2>1, <2>2
<1>12. \A i \in 1..k : Encodes(ids[i]) /\ ids[i] # NilElem /\ ids[i] \in Node
  BY <1>1, <1>2, <1>3, <1>4, <1>6 DEF Encodes
<1>13. \A i \in 1..k : Encodes(ids[i])' /\ obj'[ids[i]].length_bytes # << >>
  <2> TAKE i \in 1..k
  <2>1. ids[i] \in Node /\ Encodes(ids[i]) /\ ids[i] # NilElem BY <1>12
  <2>2. Encodes(ids[i])' BY <1>8, <2>1 DEF Encodes, Alike
  <2>3. CASE ids[i] = id
    <3>1. obj'[ids[i]].length_bytes # << >> BY <1>8, <2>1, <2>3, EncodedHeader DEF Encodes
    <3> QED BY <2>2, <3>1
  <2>4. CASE ids[i] # id
    <3>1. i # k BY <1>1, <2>4
    <3>2. i \in 1..(k - 1) BY <1>3, <3>1
    <3> QED BY <1>4, <1>8, <2>1, <2>2, <2>4, <3>2
  <2> QED BY <2>2, <2>3, <2>4
<1>14. PICK p : p = SubSeq(ids, 1, k) OBVIOUS
<1>15. Octets(p)' = Octets(p)
  <2>1. DOMAIN p = 1..k /\ \A i \in 1..k : p[i] = ids[i] BY <1>3, <1>14
  <2>2. AlikeElems(p) /\ ~HasNil(p) BY <1>8, <1>12, <2>1 DEF AlikeElems, HasNil
  <2> QED BY <2>2, ElementsAlike
<1>16. Octets(p) = Octets(SubSeq(ids, 1, k - 1)) \o EncodeScalar(obj[id]).out
  BY <1>1, <1>3, <1>12, <1>14, OctetsAppend
<1>17. /\ call'.active /\ call'.n = c /\ call'.ids = ids /\ call'.i = k + 1
       /\ call'.buf = call.buf \o EncodeScalar(obj[id]).out BY <1>0, <1>2, <1>3 DEF CallType
<1>18. call'.buf = Octets(p)' BY <1>4, <1>15, <1>16, <1>17
<1>19. Live' = Live /\ k + 1 <= Len(ids) + 1 /\ (k + 1) - 1 = k BY <1>2, <1>3 DEF Live
<1>20. call'.buf = Octets(SubSeq(ids, 1, (k + 1) - 1))'
  <2>1. SubSeq(ids, 1, (k + 1) - 1) = p BY <1>14, <1>19
  <2> QED BY <1>18, <2>1
<1> QED BY <1>4, <1>9, <1>11, <1>13, <1>17, <1>19, <1>20 DEF LoopInv

\* When no encoding is under way LoopInv says nothing.
LEMMA LoopOver ==
  ASSUME ~call'.active
  PROVE  LoopInv'
  BY DEF LoopInv

\* Nothing an Array says depends on more than the objects.
LEMMA SameObjects ==
  ASSUME UNCHANGED obj
  PROVE  /\ \A id : Encodes(id)' = Encodes(id)
         /\ \A ids : InOrder(ids)' = InOrder(ids)
         /\ \A ids : Octets(ids)' = Octets(ids)
         /\ \A ids : AllEncode(ids)' = AllEncode(ids)
         /\ \A ids : TwoEocs(ids)' = TwoEocs(ids)
         /\ \A ids : HasNil(ids)' = HasNil(ids)
<1>1. \A id : Encodes(id)' = Encodes(id) BY DEF Encodes
<1>2. \A a, b : NotAfter(a, b)' = NotAfter(a, b) BY DEF NotAfter, IsEoc
<1>3. \A ids : InOrder(ids)' = InOrder(ids) BY <1>2 DEF InOrder
<1>4. \A ids : Octets(ids)' = Octets(ids) BY DEF Octets
<1>5. \A ids : AllEncode(ids)' = AllEncode(ids) BY <1>1 DEF AllEncode
<1>6. \A ids : TwoEocs(ids)' = TwoEocs(ids) BY DEF TwoEocs, IsEoc
<1>7. \A ids : HasNil(ids)' = HasNil(ids) BY DEF HasNil
<1> QED BY <1>1, <1>3, <1>4, <1>5, <1>6, <1>7

\* What changes no object keeps LoopInv.
LEMMA SameLoop ==
  ASSUME UNCHANGED << obj, call, count >>, LoopInv
  PROVE  LoopInv'
<1>0. PICK c, ids, k, buf : c = call.n /\ ids = call.ids /\ k = call.i /\ buf = call.buf OBVIOUS
<1>1. /\ \A id : Encodes(id)' = Encodes(id)
      /\ InOrder(ids)' = InOrder(ids) /\ HasNil(ids)' = HasNil(ids)
      /\ Octets(SubSeq(ids, 1, k - 1))' = Octets(SubSeq(ids, 1, k - 1)) BY SameObjects
<1>2. Live' = Live BY DEF Live
<1> QED BY <1>0, <1>1, <1>2 DEF LoopInv

\* Every step keeps LoopInv.
LEMMA LoopStep ==
  ASSUME IInv, NodesInv, LoopInv, [Next]_vars
  PROVE  LoopInv'
<1>1. CASE \E a \in ElemNews : New(a) BY <1>1, LoopOver DEF New
<1>2. ASSUME NEW n \in Live,
             \/ GetValue(n)
             \/ \E t \in NewTags : SetTag(n, t)
             \/ \E sym \in TagClassSymbol : SetTagClass(n, sym)
             \/ SetInfiniteLength(n)
             \/ \E bits \in NewBits : SetUnusedBits(n, bits)
             \/ \E v \in NewValues : SetValue(n, v)
             \/ ToDerScalar(n)
             \/ ToDerRefused(n)
             \/ ToDerSortRaises(n)
      PROVE  LoopInv'
  <2>1. call' = call /\ ~call.active
    BY <1>2 DEF GetValue, SetTag, SetTagClass, SetInfiniteLength, SetUnusedBits, SetValue,
      ToDerScalar, ToDerRefused, ToDerSortRaises, SetterCall
  <2> QED BY <2>1, LoopOver
<1>3. CASE \E v \in Arrays : SetValue(Root, v) BY <1>3, LoopOver DEF SetValue, SetterCall
<1>4. CASE EncodeElementFails \/ ToDerEnd \/ ToDerEndRaises
  <2>1. call' = Idle BY <1>4 DEF EncodeElementFails, ToDerEnd, ToDerEndRaises
  <2>2. ~Idle.active BY DEF Idle
  <2> QED BY <2>1, <2>2, LoopOver
<1>5. CASE UNCHANGED vars BY <1>5, SameLoop DEF vars
<1> QED BY <1>1, <1>2, <1>3, <1>4, <1>5, EncodeElementLoop, BeginLoop DEF Next

-----------------------------------------------------------------------------
(* The order of the octets of elements.                                    *)

\* The order of the octets of two encodings is one of numbers.
LEMMA TagNumbers == Tags \subseteq Int
<1>1. ModelledTags \subseteq Int BY DEF ModelledTags
<1> QED BY <1>1, TagsAssumption

\* The octets of the model are ordered by numbers.
LEMMA TokenNumbers ==
  ASSUME NEW t \in Token
  PROVE  TokenOrder(t) \in Int
<1>1. CASE t \in IdentifierToken
  <2>1. "tag" \in DOMAIN t /\ t.tag \in Int BY <1>1, TagNumbers DEF IdentifierToken
  <2> QED BY <2>1 DEF TokenOrder
<1>2. CASE t \in LengthToken
  <2>1. DOMAIN t = {"n", "inf", "ber"} /\ t.n \in Int BY <1>2 DEF LengthToken
  <2> QED BY <2>1 DEF TokenOrder
<1>3. CASE t \in Octet
  <2>1. DOMAIN t = {"v"} /\ t.v \in Int BY <1>3 DEF Octet
  <2> QED BY <2>1 DEF TokenOrder
<1> QED BY <1>1, <1>2, <1>3 DEF Token

\* An element that encodes starts with an identifier.
LEMMA EncodingStarts ==
  ASSUME IInv, NEW m \in Node, Encodes(m)
  PROVE  LET x == EncodeScalar(obj[m]).out
         IN  x \in Seq(Token) /\ x # << >> /\ x[1].tag \in Int
<1> DEFINE o == obj[m]
           r == EncodeScalar(o)
<1>1. o \in Object /\ (o.explicit => o.default_tag # -1)
  BY EncoderFinds DEF NodeOK, ObjInv, ExplicitInv
<1> HIDE DEF o
<1>2. ScalarEffect(r, o) BY <1>1, EncodeEffect
<1>3. ScalarOk(o) /\ r.obj.tag_bytes # << >> /\ r.obj.tag_bytes \in Seq(IdentifierToken)
      /\ r.obj.length_bytes \in Seq(LengthToken)
      /\ ScalarContent(o) \in Seq(Token)
      /\ r.out = r.obj.tag_bytes \o r.obj.length_bytes \o ScalarContent(o)
  <2>1. ScalarOk(o) BY <1>2 DEF ScalarEffect, Encodes, o
  <2>2. r.obj \in Object /\ HeaderOf(r.obj, o) BY <1>2, <2>1 DEF ScalarEffect
  <2>3. TagFor(o, ScalarCons(o)) # << >> BY <1>1, EmptyAndSingle DEF TagFor
  <2> QED BY <1>2, <2>1, <2>2, <2>3 DEF ScalarEffect, HeaderOf, Object
<1> DEFINE a == r.obj.tag_bytes
           b == r.obj.length_bytes
           c == ScalarContent(o)
<1>4. r.out = a \o b \o c /\ a \in Seq(IdentifierToken) /\ a # << >> /\ b \in Seq(LengthToken)
      /\ c \in Seq(Token) BY <1>3
<1> HIDE DEF a, b, c
<1>5. a \in Seq(Token) /\ b \in Seq(Token) BY <1>4, TokenSeqs
<1>6. a \o b \o c \in Seq(Token) /\ a \o b \o c # << >> /\ (a \o b \o c)[1] = a[1] BY <1>4, <1>5
<1>7. a[1] \in IdentifierToken BY <1>4
<1>8. a[1].tag \in Int BY <1>7, TagNumbers DEF IdentifierToken
<1>9. r.out \in Seq(Token) /\ r.out # << >> /\ r.out[1].tag \in Int BY <1>4, <1>6, <1>8
<1> QED BY <1>9 DEF o

\* Two encodings none of which comes after the other are the same.
LEMMA OneOrder ==
  ASSUME NEW x \in Seq(Token), NEW y \in Seq(Token),
         x[1].tag \in Int, y[1].tag \in Int,
         \/ x[1].tag < y[1].tag
         \/ /\ x[1].tag = y[1].tag
            /\ \/ IsPrefix(x, y)
               \/ \E i \in DOMAIN x \cap DOMAIN y :
                    /\ TokenOrder(x[i]) < TokenOrder(y[i])
                    /\ \A j \in 1..(i - 1) : x[j] = y[j],
         \/ y[1].tag < x[1].tag
         \/ /\ y[1].tag = x[1].tag
            /\ \/ IsPrefix(y, x)
               \/ \E i \in DOMAIN y \cap DOMAIN x :
                    /\ TokenOrder(y[i]) < TokenOrder(x[i])
                    /\ \A j \in 1..(i - 1) : y[j] = x[j]
  PROVE  x = y
<1>1. \A i \in DOMAIN x : TokenOrder(x[i]) \in Int BY TokenNumbers
<1>2. \A i \in DOMAIN y : TokenOrder(y[i]) \in Int BY TokenNumbers
<1>3. ASSUME NEW u \in Seq(Token), NEW v \in Seq(Token), IsPrefix(u, v)
      PROVE  Len(u) <= Len(v) /\ \A i \in DOMAIN u : u[i] = v[i]
  <2>1. Len(u) <= Len(v) /\ SubSeq(u, 1, Len(u)) = SubSeq(v, 1, Len(u)) BY <1>3 DEF IsPrefix
  <2>2. \A i \in DOMAIN u : SubSeq(u, 1, Len(u))[i] = u[i] /\ SubSeq(v, 1, Len(u))[i] = v[i]
    BY <2>1
  <2> QED BY <2>1, <2>2
<1>4. CASE IsPrefix(x, y) /\ IsPrefix(y, x)
  <2>1. Len(x) = Len(y) /\ \A i \in DOMAIN x : x[i] = y[i] BY <1>3, <1>4
  <2> QED BY <2>1
<1>5. ASSUME NEW u \in Seq(Token), NEW v \in Seq(Token), IsPrefix(u, v),
             NEW i \in DOMAIN u \cap DOMAIN v, TokenOrder(v[i]) < TokenOrder(u[i]),
             TokenOrder(u[i]) \in Int
      PROVE  FALSE
  <2>1. u[i] = v[i] BY <1>3, <1>5
  <2> QED BY <1>5, <2>1
<1>6. ASSUME NEW i \in DOMAIN x \cap DOMAIN y, NEW k \in DOMAIN x \cap DOMAIN y,
             TokenOrder(x[i]) < TokenOrder(y[i]), \A j \in 1..(i - 1) : x[j] = y[j],
             TokenOrder(y[k]) < TokenOrder(x[k]), \A j \in 1..(k - 1) : y[j] = x[j]
      PROVE  FALSE
  <2>1. i \in Nat /\ k \in Nat /\ i >= 1 /\ k >= 1 OBVIOUS
  <2>2. /\ TokenOrder(x[i]) \in Int /\ TokenOrder(y[i]) \in Int
        /\ TokenOrder(x[k]) \in Int /\ TokenOrder(y[k]) \in Int BY <1>1, <1>2
  <2>3. CASE i < k
    <3>1. x[i] = y[i] BY <1>6, <2>1, <2>3
    <3> QED BY <1>6, <2>2, <3>1
  <2>4. CASE k < i
    <3>1. x[k] = y[k] BY <1>6, <2>1, <2>4
    <3> QED BY <1>6, <2>2, <3>1
  <2>5. CASE i = k BY <1>6, <2>2, <2>5
  <2> QED BY <2>1, <2>3, <2>4, <2>5
<1>7. x[1].tag = y[1].tag OBVIOUS
<1>8. CASE IsPrefix(x, y) /\ ~IsPrefix(y, x) BY <1>1, <1>5, <1>7, <1>8
<1>9. CASE ~IsPrefix(x, y) /\ IsPrefix(y, x) BY <1>2, <1>5, <1>7, <1>9
<1>10. CASE ~IsPrefix(x, y) /\ ~IsPrefix(y, x) BY <1>6, <1>7, <1>10
<1> QED BY <1>4, <1>8, <1>9, <1>10

\* Two elements that compare equal encode to the same octets, unless both are
\* end-of-contents.
LEMMA OneOfEach ==
  ASSUME IInv, NEW a \in Node, NEW b \in Node, Encodes(a), Encodes(b),
         NotAfter(a, b), NotAfter(b, a), ~(IsEoc(obj[a]) /\ IsEoc(obj[b]))
  PROVE  EncodeScalar(obj[a]).out = EncodeScalar(obj[b]).out /\ ~IsEoc(obj[a]) /\ ~IsEoc(obj[b])
<1> DEFINE x == EncodeScalar(obj[a]).out
           y == EncodeScalar(obj[b]).out
<1>1. x \in Seq(Token) /\ x[1].tag \in Int /\ y \in Seq(Token) /\ y[1].tag \in Int
  BY EncodingStarts
<1>2. ~IsEoc(obj[a]) /\ ~IsEoc(obj[b]) BY DEF NotAfter
<1>3. /\ \/ x[1].tag < y[1].tag
         \/ /\ x[1].tag = y[1].tag
            /\ \/ IsPrefix(x, y)
               \/ \E i \in DOMAIN x \cap DOMAIN y :
                    /\ TokenOrder(x[i]) < TokenOrder(y[i])
                    /\ \A j \in 1..(i - 1) : x[j] = y[j]
      /\ \/ y[1].tag < x[1].tag
         \/ /\ y[1].tag = x[1].tag
            /\ \/ IsPrefix(y, x)
               \/ \E i \in DOMAIN y \cap DOMAIN x :
                    /\ TokenOrder(y[i]) < TokenOrder(x[i])
                    /\ \A j \in 1..(i - 1) : y[j] = x[j] BY <1>2 DEF NotAfter
<1> HIDE DEF x, y
<1>4. x = y BY <1>1, <1>3, OneOrder
<1> QED BY <1>2, <1>4 DEF x, y

\* What encodes the same and ends nothing is ordered the same.
LEMMA SameOrder ==
  ASSUME NEW a, NEW b, NEW c, EncodeScalar(obj[a]).out = EncodeScalar(obj[b]).out,
         ~IsEoc(obj[a]), ~IsEoc(obj[b])
  PROVE  NotAfter(a, c) = NotAfter(b, c) /\ NotAfter(c, a) = NotAfter(c, b)
  BY DEF NotAfter

\* A one-to-one renumbering that moves i up moves one from above i down, and
\* one that moves i down moves one from below i up.
LEMMA Crossing ==
  ASSUME NEW n \in Nat, NEW p \in [1..n -> 1..n],
         \A i, j \in 1..n : p[i] = p[j] => i = j, NEW i \in 1..n
  PROVE  /\ p[i] > i => \E j \in (i + 1)..n : p[j] <= i
         /\ p[i] < i => \E j \in 1..(i - 1) : p[j] >= i
<1>1. ASSUME p[i] > i, \A j \in (i + 1)..n : ~(p[j] <= i)
      PROVE  FALSE
  <2> DEFINE S == (i + 1)..n
             T == S \ {p[i]}
             f == [j \in S |-> p[j]]
  <2>1. p[i] \in S BY <1>1
  <2>2. f \in [S -> T] BY <1>1
  <2>3. \A x, y \in S : x # y => f[x] # f[y] OBVIOUS
  <2>0. i + 1 \in Int /\ i - 1 \in Int /\ n \in Int /\ 1 \in Int OBVIOUS
  <2>7. IsFiniteSet(S) BY <2>0, FS_Interval
  <2>4. IsFiniteSet(S) /\ Cardinality(S) \in Nat BY <2>7, FS_CardinalityType
  <2> HIDE DEF S, f
  <2>5. IsFiniteSet(T) /\ Cardinality(T) = Cardinality(S) - 1 BY <2>1, <2>4, FS_RemoveElement
  <2>6. Cardinality(T) < Cardinality(S) BY <2>4, <2>5
  <2> HIDE DEF T
  <2> QED BY <2>2, <2>3, <2>4, <2>5, <2>6, FS_PigeonHole
<1>2. ASSUME p[i] < i, \A j \in 1..(i - 1) : ~(p[j] >= i)
      PROVE  FALSE
  <2> DEFINE S == 1..(i - 1)
             T == S \ {p[i]}
             f == [j \in S |-> p[j]]
  <2>1. p[i] \in S BY <1>2
  <2>2. f \in [S -> T] BY <1>2
  <2>3. \A x, y \in S : x # y => f[x] # f[y] OBVIOUS
  <2>0. i + 1 \in Int /\ i - 1 \in Int /\ n \in Int /\ 1 \in Int OBVIOUS
  <2>7. IsFiniteSet(S) BY <2>0, FS_Interval
  <2>4. IsFiniteSet(S) /\ Cardinality(S) \in Nat BY <2>7, FS_CardinalityType
  <2> HIDE DEF S, f
  <2>5. IsFiniteSet(T) /\ Cardinality(T) = Cardinality(S) - 1 BY <2>1, <2>4, FS_RemoveElement
  <2>6. Cardinality(T) < Cardinality(S) BY <2>4, <2>5
  <2> HIDE DEF T
  <2> QED BY <2>2, <2>3, <2>4, <2>5, <2>6, FS_PigeonHole
<1> QED BY <1>1, <1>2

\* A one-to-one renumbering of finitely many leaves none out.
LEMMA OntoToo ==
  ASSUME NEW n \in Nat, NEW p \in [1..n -> 1..n],
         \A i, j \in 1..n : p[i] = p[j] => i = j, NEW k \in 1..n
  PROVE  \E i \in 1..n : p[i] = k
<1> SUFFICES ASSUME \A i \in 1..n : p[i] # k
             PROVE  FALSE
  OBVIOUS
<1> DEFINE S == 1..n
           T == S \ {k}
<1>1. p \in [S -> T] /\ k \in S OBVIOUS
<1>2. \A x, y \in S : x # y => p[x] # p[y] OBVIOUS
<1>3. IsFiniteSet(S) /\ Cardinality(S) \in Nat BY FS_Interval, FS_CardinalityType
<1> HIDE DEF S
<1>4. IsFiniteSet(T) /\ Cardinality(T) = Cardinality(S) - 1 BY <1>1, <1>3, FS_RemoveElement
<1>5. Cardinality(T) < Cardinality(S) BY <1>3, <1>4
<1> HIDE DEF T
<1> QED BY <1>1, <1>2, <1>3, <1>4, <1>5, FS_PigeonHole

\* However sort! breaks ties, a SET that was in order is written the same.
LEMMA SortedAgain ==
  ASSUME IInv, NEW ids \in Seq(Node), AllEncode(ids), InOrder(ids), ~TwoEocs(ids),
         NEW order \in SortedOrders(ids)
  PROVE  Octets(order) = Octets(ids)
<1>1. order \in Seq(Node) /\ DOMAIN order = DOMAIN ids /\ InOrder(order) BY SortedFacts
<1>2. PICK p \in [DOMAIN ids -> DOMAIN ids] :
        /\ \A i, j \in DOMAIN ids : p[i] = p[j] => i = j
        /\ order = [i \in DOMAIN ids |-> ids[p[i]]] BY SortedFacts
<1>3. PICK n \in Nat : n = Len(ids) /\ DOMAIN ids = 1..n OBVIOUS
<1>10. \A i \in 1..n : p[i] \in 1..n BY <1>2, <1>3
<1>4. \A i \in 1..n : ids[i] \in Node /\ Encodes(ids[i]) BY <1>3 DEF AllEncode
<1>5. \A i, j \in 1..n : i < j => NotAfter(ids[i], ids[j]) BY <1>3 DEF InOrder
<1>6. \A i, j \in 1..n : i < j => NotAfter(ids[p[i]], ids[p[j]]) BY <1>1, <1>2, <1>3 DEF InOrder
<1>7. \A i, j \in 1..n : i # j => ~(IsEoc(obj[ids[i]]) /\ IsEoc(obj[ids[j]])) BY <1>3 DEF TwoEocs
<1>8. ASSUME NEW i \in 1..n
      PROVE  EncodeScalar(obj[ids[p[i]]]).out = EncodeScalar(obj[ids[i]]).out
  <2>1. p[i] \in 1..n BY <1>2, <1>3
  <2>2. CASE p[i] > i
    <3>1. PICK j \in (i + 1)..n : p[j] <= i BY <1>2, <1>3, <2>2, Crossing
    <3>2. j \in 1..n /\ i < j /\ p[j] \in 1..n /\ p[j] < p[i] BY <1>10, <2>1, <2>2, <3>1
    <3>3. NotAfter(ids[p[i]], ids[p[j]]) /\ NotAfter(ids[p[j]], ids[p[i]])
      BY <1>5, <1>6, <2>1, <3>2
    <3>4. /\ EncodeScalar(obj[ids[p[i]]]).out = EncodeScalar(obj[ids[p[j]]]).out
          /\ ~IsEoc(obj[ids[p[i]]]) /\ ~IsEoc(obj[ids[p[j]]])
      BY <1>4, <1>7, <2>1, <3>2, <3>3, OneOfEach
    <3>5. NotAfter(ids[i], ids[p[i]]) BY <1>5, <2>1, <2>2
    <3>6. p[j] = i \/ NotAfter(ids[p[j]], ids[i]) BY <1>5, <3>1, <3>2
    <3>7. p[j] = i \/ NotAfter(ids[p[i]], ids[i]) BY <3>4, <3>6, SameOrder
    <3>8. CASE p[j] = i BY <3>4, <3>8
    <3>9. CASE NotAfter(ids[p[i]], ids[i]) BY <1>4, <1>7, <2>1, <2>2, <3>5, <3>9, OneOfEach
    <3> QED BY <3>7, <3>8, <3>9
  <2>3. CASE p[i] < i
    <3>1. PICK j \in 1..(i - 1) : p[j] >= i BY <1>2, <1>3, <2>3, Crossing
    <3>2. j \in 1..n /\ j < i /\ p[j] \in 1..n /\ p[i] < p[j] BY <1>10, <2>1, <2>3, <3>1
    <3>3. NotAfter(ids[p[i]], ids[p[j]]) /\ NotAfter(ids[p[j]], ids[p[i]])
      BY <1>5, <1>6, <2>1, <3>2
    <3>4. /\ EncodeScalar(obj[ids[p[i]]]).out = EncodeScalar(obj[ids[p[j]]]).out
          /\ ~IsEoc(obj[ids[p[i]]]) /\ ~IsEoc(obj[ids[p[j]]])
      BY <1>4, <1>7, <2>1, <3>2, <3>3, OneOfEach
    <3>5. NotAfter(ids[p[i]], ids[i]) BY <1>5, <2>1, <2>3
    <3>6. p[j] = i \/ NotAfter(ids[i], ids[p[j]]) BY <1>5, <3>1, <3>2
    <3>7. p[j] = i \/ NotAfter(ids[i], ids[p[i]]) BY <3>4, <3>6, SameOrder
    <3>8. CASE p[j] = i BY <3>4, <3>8
    <3>9. CASE NotAfter(ids[i], ids[p[i]]) BY <1>4, <1>7, <2>1, <2>3, <3>5, <3>9, OneOfEach
    <3> QED BY <3>7, <3>8, <3>9
  <2>4. CASE p[i] = i BY <2>4
  <2> QED BY <2>1, <2>2, <2>3, <2>4
<1>9. [i \in DOMAIN order |-> EncodeScalar(obj[order[i]]).out] =
        [i \in DOMAIN ids |-> EncodeScalar(obj[ids[i]]).out] BY <1>1, <1>2, <1>3, <1>8
<1> QED BY <1>9 DEF Octets

\* What holds of every element of an Array holds when it is sorted.
LEMMA SortedElements ==
  ASSUME NEW ids \in Seq(Int), NEW order \in SortedOrders(ids)
  PROVE  /\ AllEncode(ids) => AllEncode(order)
         /\ TwoEocs(ids) => TwoEocs(order)
<1>2. PICK p \in [DOMAIN ids -> DOMAIN ids] :
        /\ \A i, j \in DOMAIN ids : p[i] = p[j] => i = j
        /\ order = [i \in DOMAIN ids |-> ids[p[i]]] BY DEF SortedOrders
<1>3. PICK n \in Nat : n = Len(ids) /\ DOMAIN ids = 1..n OBVIOUS
<1>4. AllEncode(ids) => AllEncode(order) BY <1>2 DEF AllEncode
<1>5. ASSUME TwoEocs(ids)
      PROVE  TwoEocs(order)
  <2>1. PICK i, j \in 1..n : i # j /\ IsEoc(obj[ids[i]]) /\ IsEoc(obj[ids[j]])
    BY <1>3, <1>5 DEF TwoEocs
  <2>2. p \in [1..n -> 1..n] /\ \A a, b \in 1..n : p[a] = p[b] => a = b BY <1>2, <1>3
  <2>3. PICK a \in 1..n : p[a] = i BY <2>2, OntoToo
  <2>4. PICK b \in 1..n : p[b] = j BY <2>2, OntoToo
  <2>5. a \in DOMAIN order /\ b \in DOMAIN order /\ a # b
        /\ order[a] = ids[i] /\ order[b] = ids[j] BY <1>2, <1>3, <2>1, <2>3, <2>4
  <2> QED BY <2>1, <2>5 DEF TwoEocs
<1> QED BY <1>4, <1>5

-----------------------------------------------------------------------------
(* What to_der returned would be returned again: RetInv.                   *)

\* A constructed value is written by its header and its content.
LEMMA ConsAgain ==
  ASSUME NEW o \in Object, NEW q \in Object, NEW c \in Seq(Token),
         q.tag = o.tag, q.tag_class = o.tag_class, q.inf = o.inf, q.cons = o.cons,
         q.tag_bytes = o.tag_bytes, q.length_bytes = o.length_bytes
  PROVE  /\ int_asn1_cons_encode_to(q, TRUE, c).ok = int_asn1_cons_encode_to(o, TRUE, c).ok
         /\ int_asn1_cons_encode_to(q, TRUE, c).out = int_asn1_cons_encode_to(o, TRUE, c).out
<1> DEFINE r == int_asn1_cons_encode_to(o, TRUE, c)
           s == int_asn1_cons_encode_to(q, TRUE, c)
<1>1. ConsResult(r, o, TRUE, c) /\ ConsResult(s, q, TRUE, c) BY ConsEffect
<1> HIDE DEF r, s
<1>2. BarredConstructed(q) = BarredConstructed(o) BY DEF BarredConstructed
<1>3. TagFor(q, q.cons) = TagFor(o, o.cons) /\ LengthFor(q, Len(c)) = LengthFor(o, Len(c))
  BY DEF TagFor, LengthFor, Computed
<1>4. r.ok = s.ok /\ r.out = s.out
  <2>1. r.ok = ~BarredConstructed(o) /\ s.ok = ~BarredConstructed(q) BY <1>1 DEF ConsResult
  <2>2. r.ok = s.ok BY <1>2, <2>1
  <2>3. CASE r.ok BY <1>1, <1>3, <2>2, <2>3 DEF ConsResult
  <2>4. CASE ~r.ok BY <1>1, <2>2, <2>4 DEF ConsResult
  <2> QED BY <2>2, <2>3, <2>4
<1> QED BY <1>4 DEF r, s

\* The UNIVERSAL object behind an explicit tag, around any Array.
LEMMA WrapperArray ==
  ASSUME NEW o \in Object, NEW q \in Object, SameHolder(q, o), o.explicit, o.default_tag # -1,
         o.at_value.kind = "ary", q.at_value.kind = "ary"
  PROVE  /\ Wrapper(o) \in Object /\ Wrapper(q) \in Object
         /\ Wrapper(q).tag = Wrapper(o).tag /\ Wrapper(q).tag_class = Wrapper(o).tag_class
         /\ Wrapper(q).inf = Wrapper(o).inf /\ Wrapper(q).cons = Wrapper(o).cons
         /\ Wrapper(q).tag_bytes = Wrapper(o).tag_bytes
         /\ Wrapper(q).length_bytes = Wrapper(o).length_bytes
<1>1. q.explicit /\ q.default_tag # -1 /\ q.default_tag = o.default_tag BY DEF SameHolder
<1>2. Wrapper(o) \in Object /\ Wrapper(q) \in Object BY <1>1, WrappedType
<1> QED BY <1>1, <1>2 DEF Wrapper, Created, tag_class_for_id

\* The value of the holder depends on the octets of the elements and, when
\* it adds the end-of-contents itself, on the last of them.
LEMMA WrittenSame ==
  ASSUME NEW o \in Object, NEW q \in Object, SameHolder(q, o),
         o.explicit => o.default_tag # -1,
         o.at_value.kind = "ary", q.at_value.kind = "ary",
         NEW ids \in Seq(Int), NEW order, NEW buf \in Seq(Token),
         o.explicit \/ (order = ids /\ AlikeElems(ids) /\ ~HasNil(ids)),
         ~NoLastElement(o, ids)
  PROVE  Written(q, order, buf)' = Written(o, ids, buf)
<1>1. q.explicit = o.explicit /\ q.inf = o.inf /\ q.default_tag = o.default_tag
  BY DEF SameHolder
<1>2. CASE o.explicit
  <2>1. int_asn1_cons_encode_to(Wrapper(q), TRUE, buf).out =
          int_asn1_cons_encode_to(Wrapper(o), TRUE, buf).out BY <1>2, WrapperArray, ConsAgain
  <2> QED BY <1>1, <1>2, <2>1 DEF Written, WithEoc
<1>3. CASE ~o.explicit
  <2>1. MissingEoc(q, order)' = MissingEoc(o, ids)
    <3>1. CASE ~o.inf BY <1>1, <3>1 DEF MissingEoc
    <3>2. CASE o.inf
      <4>1. Len(ids) \in DOMAIN ids /\ order = ids BY <1>3, <3>2 DEF NoLastElement
      <4>2. Alike(obj'[ids[Len(ids)]], obj[ids[Len(ids)]]) BY <1>3, <4>1 DEF AlikeElems, HasNil
      <4> QED BY <1>1, <4>1, <4>2 DEF MissingEoc, IsEoc, Alike
    <3> QED BY <3>1, <3>2
  <2> QED BY <1>1, <1>3, <2>1 DEF Written
<1> QED BY <1>2, <1>3

\* The value of an object whose Array encodes is octets.
LEMMA WrittenOctets ==
  ASSUME NEW o \in Object, o.explicit => o.default_tag # -1,
         NEW ids, NEW buf \in Seq(Token)
  PROVE  Written(o, ids, buf) \in Seq(Token)
<1>2. CASE o.explicit
  <2> DEFINE inner == int_asn1_cons_encode_to(Wrapper(o), TRUE, buf)
  <2>1. Wrapper(o) \in Object BY <1>2, WrappedType
  <2>2. inner.out \in Seq(Token) BY <2>1, ConsEncodeType DEF Attempt
  <2> HIDE DEF inner
  <2>3. WithEoc(o, inner.out) \in Seq(Token) BY <2>2, EocType DEF WithEoc
  <2> QED BY <1>2, <2>3 DEF Written, inner
<1>3. CASE ~o.explicit BY <1>3, EocType DEF Written
<1> QED BY <1>2, <1>3

\* Elements that encode exist.
LEMMA EncodingElements ==
  ASSUME IInv, NEW ids \in Seq(ElementId), AllEncode(ids)
  PROVE  ids \in Seq(Node) /\ ids \in Seq(Int) /\ ~HasNil(ids) /\ Octets(ids) \in Seq(Token)
<1>1. count \in Nat /\ 0..count \subseteq Node BY EncoderFinds, NodeFacts DEF NodesOK
<1>2. \A i \in DOMAIN ids : ids[i] # NilElem BY DEF AllEncode, Encodes
<1>3. \A i \in DOMAIN ids : ids[i] \in Node BY <1>1, <1>2 DEF ElementId
<1>4. ids \in Seq(Node) BY <1>3
<1>5. ids \in Seq(Int) BY <1>1 DEF ElementId, NilElem
<1> QED BY <1>2, <1>4, <1>5, OctetsType DEF HasNil

\* The object of an Array that was encoded, in another state.
Steady(q, o) ==
  /\ q \in Object /\ SameHolder(q, o)
  /\ q.bytes.null = o.bytes.null /\ q.at_value.kind = o.at_value.kind
  /\ q.cons = o.cons /\ q.tag_bytes = o.tag_bytes /\ q.length_bytes = o.length_bytes
  /\ q.modified = o.modified

\* An Array that was encoded encodes to the same octets in the next state, when
\* its elements still encode and stay in order.
LEMMA RepeatsAs ==
  ASSUME IInv, NEW n \in Node, NEW out,
         obj[n].bytes.null, obj[n].at_value.kind = "ary",
         Steady(obj'[n], obj[n]), RepeatsArray(n, out),
         NEW ids, NEW order, ids = obj[n].at_value.ids, order = obj'[n].at_value.ids,
         Len(order) = Len(ids),
         AllEncode(order)', Octets(order)' = Octets(ids),
         SortsAlways(obj[n]) => InOrder(order)',
         obj[n].explicit \/ (order = ids /\ AlikeElems(ids))
  PROVE  RepeatsArray(n, out)'
<1>0. PICK o, q : o = obj[n] /\ q = obj'[n] OBVIOUS
<1>1. /\ o \in Object /\ (o.explicit => o.default_tag # -1) /\ ids \in Seq(ElementId)
      /\ q \in Object /\ SameHolder(q, o)
      /\ q.at_value.kind = "ary" /\ o.at_value.kind = "ary"
      /\ q.cons = o.cons /\ q.tag_bytes = o.tag_bytes /\ q.length_bytes = o.length_bytes
      /\ q.modified = o.modified
  BY <1>0, EncoderFinds DEF NodeOK, ObjInv, ExplicitInv, Steady, ElementId
<1>2. /\ AllEncode(ids)
      /\ o.tag_bytes # <<>> /\ o.length_bytes # <<>>
      /\ ~BarredConstructed(Holder(o)) /\ ~NoLastElement(o, ids)
      /\ ~o.modified
      /\ int_asn1_cons_encode_to(o, TRUE, Written(o, ids, Octets(ids))).ok
      /\ int_asn1_cons_encode_to(o, TRUE, Written(o, ids, Octets(ids))).out = out
  BY <1>0 DEF RepeatsArray
<1>3. PICK buf : buf = Octets(ids) OBVIOUS
<1>4. buf \in Seq(Token) /\ ~HasNil(ids) /\ ids \in Seq(Int)
  BY <1>1, <1>2, <1>3, EncodingElements
<1>5. Written(q, order, buf)' = Written(o, ids, buf) BY <1>0, <1>1, <1>2, <1>4, WrittenSame
<1>6. PICK w : w = Written(o, ids, buf) OBVIOUS
<1>7. w \in Seq(Token) BY <1>1, <1>4, <1>6, WrittenOctets
<1>8. /\ int_asn1_cons_encode_to(q, TRUE, w).ok = int_asn1_cons_encode_to(o, TRUE, w).ok
      /\ int_asn1_cons_encode_to(q, TRUE, w).out = int_asn1_cons_encode_to(o, TRUE, w).out
  BY <1>1, <1>7, ConsAgain DEF SameHolder
<1>9. /\ BarredConstructed(Holder(q)) = BarredConstructed(Holder(o))
      /\ SortsAlways(q) = SortsAlways(o) BY <1>1, HolderSame
<1>10. NoLastElement(q, order) = NoLastElement(o, ids)
  <2>1. (order = << >>) = (ids = << >>) \/ o.explicit BY <1>0
  <2> QED BY <1>1, <2>1 DEF NoLastElement, SameHolder
<1>11. Written(q, order, Octets(order))' = w BY <1>3, <1>5, <1>6 DEF Written, MissingEoc
<1> QED BY <1>0, <1>1, <1>2, <1>3, <1>6, <1>8, <1>9, <1>10, <1>11 DEF RepeatsArray

\* An object without Array that was encoded and encodes as before repeats its
\* encoding.
LEMMA RepeatsScalar ==
  ASSUME NEW n, NEW out, Repeats(n, out),
         ~obj[n].bytes.null \/ obj[n].at_value.kind # "ary",
         ~obj'[n].bytes.null \/ obj'[n].at_value.kind # "ary",
         Alike(obj'[n], obj[n])
  PROVE  Repeats(n, out)'
  BY DEF Repeats, Alike

\* The object is as it was, and its elements encode as they did.
LEMMA RepeatsSame ==
  ASSUME IInv, NEW n \in Node, NEW out, Repeats(n, out), obj'[n] = obj[n],
         AlikeElems(obj[n].at_value.ids)
  PROVE  Repeats(n, out)'
<1>1. CASE ~obj[n].bytes.null \/ obj[n].at_value.kind # "ary"
  <2>1. Alike(obj'[n], obj[n]) BY DEF Alike
  <2> QED BY <1>1, <2>1, RepeatsScalar
<1>2. CASE obj[n].bytes.null /\ obj[n].at_value.kind = "ary"
  <2>1. RepeatsArray(n, out) BY <1>2 DEF Repeats
  <2>2. PICK ids : ids = obj[n].at_value.ids OBVIOUS
  <2>3. ids \in Seq(ElementId) /\ obj[n] \in Object BY <2>2, EncoderFinds DEF NodeOK, ElementId
  <2>4. AllEncode(ids) /\ (SortsAlways(obj[n]) => InOrder(ids)) BY <2>1, <2>2 DEF RepeatsArray
  <2>5. ~HasNil(ids) BY <2>3, <2>4, EncodingElements
  <2>6. AlikeElems(ids) BY <2>2 DEF AlikeElems
  <2>7. AllEncode(ids)' /\ Octets(ids)' = Octets(ids) /\ InOrder(ids)' = InOrder(ids)
    BY <2>4, <2>5, <2>6, ElementsAlike
  <2>8. Steady(obj'[n], obj[n]) BY <2>3 DEF Steady, SameHolder
  <2>9. RepeatsArray(n, out)' BY <1>2, <2>1, <2>2, <2>4, <2>6, <2>7, <2>8, RepeatsAs
  <2> QED BY <1>2, <2>9 DEF Repeats
<1> QED BY <1>1, <1>2

\* RetInv holds after an encoding that the object can repeat.
LEMMA RetDone ==
  ASSUME NEW n, NEW ok, NEW out, ret' = Done("to_der", n, ok, out),
         n \in Live', ok => Repeats(n, out)'
  PROVE  RetInv'
<1>1. ret'.n = n /\ ret'.ok = ok /\ ret'.out = out BY DEF Done
<1> QED BY <1>1 DEF RetInv

\* RetInv says nothing of what other calls return.
LEMMA RetOther ==
  ASSUME ret'.op = "to_der" => ~ret'.ok
  PROVE  RetInv'
  BY DEF RetInv

\* Encoding an object whose value is no Array establishes RetInv: it can repeat
\* what it wrote.
LEMMA ToDerScalarRet ==
  ASSUME IInv, NodesInv, NEW n \in Live, ToDerScalar(n)
  PROVE  RetInv'
<1>0. PICK o, r : o = obj[n] /\ r = EncodeScalar(o) OBVIOUS
<1>1. /\ ~o.bytes.null \/ o.at_value.kind # "ary"
      /\ obj' = [obj EXCEPT ![n] = r.obj]
      /\ ret' = Done("to_der", n, r.ok, r.out)
      /\ count' = count BY <1>0 DEF ToDerScalar
<1>2. n \in Node /\ Sound(o) BY <1>0, NodesFind
<1>3. obj'[n] = r.obj BY <1>1, <1>2, EncoderFinds
<1>4. Alike(r.obj, o) BY <1>0, <1>2, ScalarTwice
<1>5. ~r.obj.bytes.null \/ r.obj.at_value.kind # "ary"
  <2>1. ScalarEffect(r, o) BY <1>0, <1>2, EncodeEffect DEF Sound
  <2> QED BY <1>1, <2>1 DEF ScalarEffect, SameIdentity
<1>6. n \in Live' BY <1>1 DEF Live
<1>7. r.ok => Repeats(n, r.out)' BY <1>0, <1>3, <1>4, <1>5 DEF Repeats, Alike
<1> QED BY <1>1, <1>6, <1>7, RetDone

\* An element that encodes once more.
LEMMA RepeatsEncoded ==
  ASSUME IInv, NodesInv, NEW n \in Node, NEW out, Repeats(n, out),
         obj'[n] = EncodeScalar(obj[n]).obj, obj[n].at_value.ids = << >>
  PROVE  Repeats(n, out)'
<1>0. PICK o, r, q : o = obj[n] /\ r = EncodeScalar(o) /\ q = obj'[n] OBVIOUS
<1>1. Sound(o) /\ q = r.obj /\ ArrayInv(o) BY <1>0, NodesFind DEF ObjInv
<1>2. Alike(q, o) BY <1>0, <1>1, ScalarTwice
<1>3. ScalarEffect(r, o) BY <1>0, <1>1, EncodeEffect DEF Sound
<1>4. CASE ~o.bytes.null \/ o.at_value.kind # "ary"
  <2>1. ~q.bytes.null \/ q.at_value.kind # "ary"
    BY <1>1, <1>3, <1>4 DEF ScalarEffect, SameIdentity
  <2> QED BY <1>0, <1>2, <1>4, <2>1, RepeatsScalar
<1>5. CASE o.bytes.null /\ o.at_value.kind = "ary"
  <2>1. RepeatsArray(n, out) BY <1>0, <1>5 DEF Repeats
  <2>2. PICK ids : ids = << >> OBVIOUS
  <2>3. o.tag_bytes # << >> /\ o.length_bytes # << >> /\ ~o.modified
    BY <1>0, <2>1 DEF RepeatsArray
  <2>4. o.cons /\ o \in Object BY <1>1, <1>5 DEF ArrayInv, Sound
  <2>5. q \in Object /\ SameIdentity(q, o) /\ q.cons = o.cons /\ q.bytes = o.bytes
        /\ q.modified = o.modified BY <1>1, <1>3, <2>3, <2>4 DEF ScalarEffect, ScalarCons, Object
  <2>6. q.tag_bytes = o.tag_bytes /\ q.length_bytes = o.length_bytes
    BY <1>1, <1>3, <2>3 DEF ScalarEffect, HeaderOf, Unheaded, TagFor, LengthFor
  <2>7. Steady(q, o) BY <2>5, <2>6 DEF Steady, SameHolder, SameIdentity
  <2>8. q.at_value.ids = ids /\ obj[n].at_value.ids = ids /\ q.at_value.kind = "ary"
    BY <1>0, <1>5, <2>2, <2>5 DEF SameIdentity
  <2>9. AlikeElems(ids) /\ ~HasNil(ids) BY <2>2 DEF AlikeElems, HasNil
  <2>10. AllEncode(ids)' /\ Octets(ids)' = Octets(ids) /\ InOrder(ids)'
    <3>1. AllEncode(ids) /\ InOrder(ids) BY <2>2 DEF AllEncode, InOrder
    <3> QED BY <2>9, <3>1, ElementsAlike
  <2>11. RepeatsArray(n, out)' BY <1>0, <1>5, <2>1, <2>7, <2>8, <2>9, <2>10, RepeatsAs
  <2> QED BY <1>0, <1>5, <2>5, <2>8, <2>11 DEF Repeats
<1> QED BY <1>4, <1>5

\* Encoding an element keeps RetInv.
LEMMA EncodeElementRet ==
  ASSUME IInv, NodesInv, LoopInv, RetInv, EncodeElement
  PROVE  RetInv'
<1>0. PICK c, ids, k, id, m, out :
        /\ c = call.n /\ ids = call.ids /\ k = call.i /\ id = ids[k]
        /\ m = ret.n /\ out = ret.out OBVIOUS
<1>1. /\ call.active /\ k <= Len(ids) /\ Encodes(id)
      /\ obj' = EncodedElems({id}) /\ count' = count /\ ret' = ret
      /\ call' = [call EXCEPT !.i = @ + 1, !.buf = @ \o EncodeScalar(obj[id]).out]
  BY <1>0 DEF EncodeElement
<1>2. call \in CallType /\ ids \in Seq(ElementId) /\ k \in 1..Len(ids)
  BY <1>0, <1>1, EncoderFinds DEF CallOK, CallType
<1>3. /\ c \in Live /\ obj[c].at_value = Ary(ids)
      /\ SortsElements(Holder(obj[c])) => (Len(ids) > 1 => ~HasNil(ids))
  BY <1>0, <1>1 DEF LoopInv
<1>4. obj[c].at_value.ids = ids /\ \A i \in DOMAIN ids : ids[i] # NilElem =>
        c = Root /\ ids[i] \in Node \ {c} BY <1>3, ElementsApart DEF Ary
<1>5. id \in Node /\ id # c /\ id # NilElem /\ c = Root BY <1>0, <1>1, <1>2, <1>4 DEF Encodes
<1>6. \A x \in Node : /\ Alike(obj'[x], obj[x])
                      /\ x = id => obj'[x] = EncodeScalar(obj[x]).obj
                      /\ x # id => obj'[x] = obj[x] BY <1>1, EncodedAlike
<1>7. ret.op = "to_der" /\ ret.ok =>
        /\ m \in Live
        /\ \/ Repeats(m, out)
           \/ c = m /\ SortsAlways(obj[m]) /\ TwoEocs(obj[m].at_value.ids) BY <1>0 DEF RetInv
<1>8. Live' = Live BY <1>1 DEF Live
<1>9. ASSUME m \in Live, Repeats(m, out)
      PROVE  Repeats(m, out)'
  <2>1. m \in Node BY <1>9, NodesFind
  <2>2. CASE m = id
    <3>1. obj[m].at_value.ids = << >> BY <1>5, <2>1, <2>2, NodesFind DEF ElementInv
    <3> QED BY <1>6, <1>9, <2>1, <2>2, <3>1, RepeatsEncoded
  <2>3. CASE m # id
    <3>1. AlikeElems(obj[m].at_value.ids)
      <4>1. \A i \in DOMAIN obj[m].at_value.ids : obj[m].at_value.ids[i] # NilElem =>
              obj[m].at_value.ids[i] \in Node BY <1>9, ElementsApart
      <4> QED BY <1>6, <4>1 DEF AlikeElems
    <3> QED BY <1>6, <1>9, <2>1, <2>3, <3>1, RepeatsSame
  <2> QED BY <2>2, <2>3
<1>10. ASSUME m \in Live, c = m, SortsAlways(obj[m]), TwoEocs(obj[m].at_value.ids)
       PROVE  /\ call'.active /\ call'.n = m
              /\ SortsAlways(obj'[m]) /\ obj'[m].at_value.ids = ids /\ TwoEocs(ids)'
  <2>1. m \in Node BY <1>10, NodesFind
  <2>2. obj'[m] = obj[m] /\ obj[m].at_value.ids = ids BY <1>4, <1>5, <1>6, <1>10, <2>1
  <2>3. Len(ids) > 1 BY <1>2, <1>10, <2>2 DEF TwoEocs
  <2>4. ~HasNil(ids)
    BY <1>3, <1>10, <2>3 DEF SortsAlways, SortsElements, UniversalSet, Holder, Wrapper, Created
  <2>5. AlikeElems(ids) BY <1>4, <1>5, <1>6 DEF AlikeElems
  <2>6. TwoEocs(ids)' BY <1>10, <2>2, <2>4, <2>5, ElementsAlike
  <2>7. call'.active /\ call'.n = c BY <1>0, <1>1, <1>2 DEF CallType
  <2> QED BY <1>10, <2>2, <2>6, <2>7
<1> QED BY <1>0, <1>1, <1>7, <1>8, <1>9, <1>10 DEF RetInv

\* The end of the encoding of an Array establishes RetInv: the object can
\* repeat what it wrote.
LEMMA ToDerEndRet ==
  ASSUME IInv, NodesInv, LoopInv, ToDerEnd
  PROVE  RetInv'
<1>0. PICK n, o, ids, buf, w, r :
        /\ n = call.n /\ o = obj[n] /\ ids = call.ids /\ buf = call.buf
        /\ w = Written(o, ids, buf)
        /\ r = int_asn1_cons_encode_to(o, TRUE, w) OBVIOUS
<1>1. /\ call.active /\ call.i > Len(ids) /\ ~NoLastElement(o, ids)
      /\ obj' = [obj EXCEPT ![n] = [r.obj EXCEPT !.modified = FALSE]]
      /\ ret' = Done("to_der", n, r.ok, r.out)
      /\ count' = count BY <1>0 DEF ToDerEnd
<1>2. /\ n \in Live /\ o.at_value = Ary(ids)
      /\ ~BarredConstructed(Holder(o))
      /\ SortsElements(Holder(o)) => InOrder(ids)
      /\ call.i <= Len(ids) + 1
      /\ \A i \in 1..(call.i - 1) : Encodes(ids[i])
      /\ buf = Octets(SubSeq(ids, 1, call.i - 1)) BY <1>0, <1>1 DEF LoopInv
<1>3. /\ call.i \in Nat /\ ids \in Seq(ElementId) /\ n \in Node
      /\ o.bytes.null /\ o \in Object /\ (o.explicit => o.default_tag # -1)
      /\ o.at_value.kind = "ary" /\ o.at_value.ids = ids
  BY <1>0, <1>1, <1>2, EncoderFinds DEF CallOK, CallType, NodeOK, ObjInv, ExplicitInv, Ary
<1>4. call.i - 1 = Len(ids) BY <1>1, <1>2, <1>3
<1>5. AllEncode(ids) BY <1>2, <1>3, <1>4 DEF AllEncode
<1>6. ids \in Seq(Int) /\ ~HasNil(ids) /\ Octets(ids) \in Seq(Token)
  BY <1>3, <1>5, EncodingElements
<1>7. SubSeq(ids, 1, Len(ids)) = ids BY <1>3
<1>8. buf = Octets(ids) BY <1>2, <1>4, <1>7
<1>9. w \in Seq(Token) BY <1>0, <1>3, <1>6, <1>8, WrittenOctets
<1>10. ConsResult(r, o, TRUE, w) BY <1>0, <1>3, <1>9, ConsEffect
<1>11. PICK q : q = [r.obj EXCEPT !.modified = FALSE] OBVIOUS
<1>12. /\ q \in Object /\ SameIdentity(q, o) /\ q.cons = o.cons /\ q.bytes = o.bytes
       /\ q.modified = FALSE
       /\ q.tag_bytes = r.obj.tag_bytes /\ q.length_bytes = r.obj.length_bytes
  <2>1. r.obj \in Object /\ SameIdentity(r.obj, o) /\ r.obj.cons = o.cons
        /\ r.obj.bytes = o.bytes BY <1>10 DEF ConsResult
  <2>2. q \in Object /\ SameIdentity(q, r.obj) /\ q.cons = r.obj.cons /\ q.bytes = r.obj.bytes
        /\ q.modified = FALSE
        /\ q.tag_bytes = r.obj.tag_bytes /\ q.length_bytes = r.obj.length_bytes
    BY <1>11, <2>1 DEF Object, SameIdentity
  <2> QED BY <2>1, <2>2 DEF SameIdentity
<1>13. obj'[n] = q /\ \A m \in Node : m # n => obj'[m] = obj[m]
  BY <1>1, <1>3, <1>11, EncoderFinds
<1>14. AlikeElems(ids)
  <2>1. \A i \in DOMAIN ids : ids[i] # NilElem => ids[i] \in Node \ {n}
    BY <1>0, <1>2, <1>3, ElementsApart
  <2> QED BY <1>13, <2>1 DEF AlikeElems, Alike
<1>15. AllEncode(ids)' /\ Octets(ids)' = buf /\ InOrder(ids)' = InOrder(ids)
  BY <1>5, <1>6, <1>8, <1>14, ElementsAlike
<1>16. SameHolder(q, o) /\ q.at_value.kind = "ary" /\ q.at_value.ids = ids
  BY <1>3, <1>12 DEF SameIdentity, SameHolder
<1>17. Written(q, ids, buf)' = w
  BY <1>0, <1>1, <1>3, <1>6, <1>8, <1>12, <1>14, <1>16, WrittenSame
<1>18. Written(q, ids, Octets(ids))' = w BY <1>15, <1>17 DEF Written, MissingEoc
<1>19. ASSUME r.ok
       PROVE  RepeatsArray(n, r.out)'
  <2>1. /\ r.out = TagFor(o, o.cons) \o LengthFor(o, Len(w)) \o w
        /\ q.tag_bytes = TagFor(o, o.cons) /\ q.length_bytes = LengthFor(o, Len(w))
        /\ ~BarredConstructed(o) BY <1>10, <1>12, <1>19 DEF ConsResult, Headed
  <2>2. q.tag_bytes # << >> /\ q.length_bytes # << >>
    BY <1>3, <2>1, EmptyAndSingle DEF TagFor, LengthFor, Computed
  <2>3. ConsResult(int_asn1_cons_encode_to(q, TRUE, w), q, TRUE, w) BY <1>9, <1>12, ConsEffect
  <2>4. ~BarredConstructed(q) BY <1>12, <2>1 DEF SameIdentity, BarredConstructed
  <2>5. int_asn1_cons_encode_to(q, TRUE, w).ok
        /\ int_asn1_cons_encode_to(q, TRUE, w).out = r.out
    <3>1. TagFor(q, q.cons) = q.tag_bytes /\ LengthFor(q, Len(w)) = q.length_bytes
      BY <2>2 DEF TagFor, LengthFor
    <3> QED BY <2>1, <2>3, <2>4, <3>1 DEF ConsResult
  <2>6. /\ ~BarredConstructed(Holder(q)) /\ (SortsAlways(q) = SortsAlways(o))
    BY <1>2, <1>16, HolderSame
  <2>7. SortsAlways(o) => InOrder(ids)
    BY <1>2 DEF SortsAlways, SortsElements, UniversalSet, Holder, Wrapper, Created
  <2>8. ~NoLastElement(q, ids) BY <1>1, <1>16 DEF NoLastElement, SameHolder
  <2> QED BY <1>12, <1>13, <1>15, <1>16, <1>18, <2>2, <2>5, <2>6, <2>7, <2>8 DEF RepeatsArray
<1>20. r.ok => Repeats(n, r.out)' BY <1>3, <1>12, <1>13, <1>16, <1>19 DEF Repeats
<1>21. n \in Live' BY <1>1, <1>2 DEF Live
<1> QED BY <1>1, <1>20, <1>21, RetDone

\* An element with an empty Array, which only a failed tag_class= leaves, is
\* encoded as before after its header went out.
LEMMA BegunAlike ==
  ASSUME IInv, NodesInv, NEW n \in Live,
         obj[n].bytes.null, obj[n].at_value.kind = "ary", obj[n].at_value.ids = << >>
  PROVE  Alike(int_cons_sort_set(HeaderFirst(Outer(obj[n])), << >>), obj[n])
<1>0. PICK o, x : o = obj[n] /\ x = HeaderFirst(Outer(obj[n])) OBVIOUS
<1>1. Sound(o) /\ ArrayInv(o) /\ o \in Object BY <1>0, NodesFind DEF ObjInv
<1>2. /\ x \in Object /\ SameIdentity(x, o) /\ x.bytes = o.bytes
      /\ x.cons = (o.cons \/ o.explicit)
      /\ IF o.length_bytes # << >> \/ o.inf
         THEN /\ x.tag_bytes = TagFor(o, x.cons)
              /\ \A c : x.length_bytes = LengthFor(o, c)
         ELSE x.tag_bytes = o.tag_bytes /\ x.length_bytes = o.length_bytes BY <1>0, BegunObject
<1>3. o.cons /\ o.at_value.oct = << >> /\ x.cons BY <1>0, <1>1, <1>2 DEF ArrayInv, Object
<1>4. o.at_value = Ary(<< >>) BY <1>0, <1>1, <1>3 DEF Object, Value, Ary
<1>5. int_cons_sort_set(x, << >>) = x BY <1>2, <1>4 DEF int_cons_sort_set, Object, SameIdentity
<1>6. /\ Wrapper(x) = Wrapper(o) /\ Wrapped(x) = Wrapped(o)
      /\ BarredConstructed(x) = BarredConstructed(o)
      /\ HasNoElements(x) = HasNoElements(o)
      /\ \A c : WithEoc(x, c) = WithEoc(o, c) BY <1>2, SameValues
<1>7. Sound(x) BY <1>1, <1>2 DEF Sound, SameIdentity
<1>8. ScalarOk(x) = ScalarOk(o) /\ ScalarContent(x) = ScalarContent(o)
      /\ ScalarLength(x) = ScalarLength(o)
  BY <1>0, <1>2, <1>3, <1>6 DEF ScalarOk, ScalarContent, ScalarLength, SameIdentity
<1>9. ScalarCons(x) = TRUE /\ ScalarCons(o) = TRUE BY <1>1, <1>2, <1>3 DEF ScalarCons, Object
<1>10. TagFor(x, TRUE) = TagFor(o, TRUE) BY <1>1, <1>2, <1>3 DEF TagFor, SameIdentity, Object
<1>11. LengthFor(x, ScalarLength(x)) = LengthFor(o, ScalarLength(o))
  BY <1>2, <1>8 DEF LengthFor, Computed, SameIdentity
<1>12. x.tag = o.tag /\ x.tag_class = o.tag_class BY <1>2 DEF SameIdentity
<1>13. Alike(x, o) BY <1>1, <1>7, <1>8, <1>9, <1>10, <1>11, <1>12, AlikeBy
<1> QED BY <1>0, <1>5, <1>13

\* The object whose Array is about to be encoded again.
LEMMA BegunRepeats ==
  ASSUME IInv, NodesInv, NEW n \in Live, ToDerBegin(n), NEW out, RepeatsArray(n, out)
  PROVE  \/ Repeats(n, out)'
         \/ /\ call'.active /\ call'.n = n /\ SortsAlways(obj'[n])
            /\ \E order : obj'[n].at_value.ids = order /\ TwoEocs(order)'
<1>0. PICK o, x, ids : o = obj[n] /\ x = HeaderFirst(Outer(obj[n])) /\ ids = obj[n].at_value.ids
  OBVIOUS
<1>1. o.bytes.null /\ o.at_value.kind = "ary" BY <1>0, BeginFacts
<1>2. PICK order :
        /\ order \in Seq(ElementId) /\ Len(order) = Len(ids)
        /\ obj' = [m \in Node |-> IF m = n THEN int_cons_sort_set(x, order) ELSE obj[m]]
        /\ call' = [active |-> TRUE, n |-> n, ids |-> order, i |-> 1, buf |-> <<>>]
        /\ \/ order = ids
           \/ /\ order \in SortedOrders(ids) /\ SortsElements(Holder(o))
        /\ \A i \in DOMAIN order : order[i] # NilElem => order[i] \in Node \ {n}
  BY <1>0, BeginFacts
<1>3. n \in Node /\ o \in Object /\ ArrayInv(o) /\ ids \in Seq(ElementId)
  BY <1>0, NodesFind DEF ObjInv
<1>4. /\ x \in Object /\ SameIdentity(x, o) /\ x.bytes = o.bytes /\ x.modified = o.modified
      /\ x.cons = (o.cons \/ o.explicit)
      /\ IF o.length_bytes # << >> \/ o.inf
         THEN x.tag_bytes = TagFor(o, x.cons) /\ \A c : x.length_bytes = LengthFor(o, c)
         ELSE x.tag_bytes = o.tag_bytes /\ x.length_bytes = o.length_bytes BY <1>0, BegunObject
<1>5. /\ AllEncode(ids) /\ o.tag_bytes # << >> /\ o.length_bytes # << >> /\ ~o.modified
      /\ SortsAlways(o) => InOrder(ids) BY <1>0 DEF RepeatsArray
<1>6. PICK q : q = obj'[n] OBVIOUS
<1>7. /\ q = int_cons_sort_set(x, order) /\ \A m \in Node : m # n => obj'[m] = obj[m]
  BY <1>2, <1>3, <1>6
<1>8. /\ q.at_value = Ary(order) /\ SameHolder(q, o) /\ q.modified = o.modified
      /\ q.bytes = x.bytes /\ q.cons = x.cons
      /\ q.tag_bytes = x.tag_bytes /\ q.length_bytes = x.length_bytes BY <1>4, <1>7, SortedObject
<1>9. q \in Object
  <2>1. Ary(order) \in Value BY <1>2, <1>3, NodesFind DEF Ary, Value, ElementId, NilElem
  <2> QED BY <1>4, <1>7, <2>1 DEF int_cons_sort_set, Object
<1>10. Steady(q, o) /\ q.at_value.ids = order /\ q.at_value.kind = "ary"
  <2>1. q.at_value.ids = order /\ q.at_value.kind = "ary" BY <1>8 DEF Ary
  <2>2. q.cons = o.cons BY <1>1, <1>3, <1>4, <1>8 DEF ArrayInv, Object
  <2>3. x.tag_bytes = o.tag_bytes /\ x.length_bytes = o.length_bytes
    BY <1>4, <1>5 DEF TagFor, LengthFor
  <2> QED BY <1>1, <1>4, <1>8, <1>9, <2>1, <2>2, <2>3 DEF Steady
<1>11. ids \in Seq(Node) /\ ids \in Seq(Int) /\ ~HasNil(ids) BY <1>3, <1>5, EncodingElements
<1>12. AllEncode(order) /\ ~HasNil(order)
  <2>1. AllEncode(order) BY <1>2, <1>5, <1>11, SortedElements
  <2> QED BY <1>2, <2>1, EncodingElements
<1>13. AlikeElems(order) BY <1>2, <1>7 DEF AlikeElems, Alike
<1>14. /\ AllEncode(order)' /\ Octets(order)' = Octets(order) /\ InOrder(order)' = InOrder(order)
       /\ TwoEocs(order)' = TwoEocs(order) BY <1>12, <1>13, ElementsAlike
<1>15. CASE order = ids
  <2>1. RepeatsArray(n, out)'
    BY <1>0, <1>1, <1>3, <1>5, <1>6, <1>10, <1>13, <1>14, <1>15, RepeatsAs
  <2> QED BY <1>1, <1>6, <1>10, <2>1 DEF Repeats, Steady
<1>16. CASE order \in SortedOrders(ids) /\ SortsElements(Holder(o))
  <2>1. SortsAlways(o) /\ o.explicit /\ SortsAlways(q)
    BY <1>5, <1>8, <1>16, HolderSame DEF SortsElements, SortsAlways, Holder, UniversalSet
  <2>2. InOrder(order) /\ InOrder(ids) BY <1>3, <1>5, <1>16, <2>1, SortedFacts
  <2>3. CASE ~TwoEocs(ids)
    <3>1. Octets(order) = Octets(ids) BY <1>5, <1>11, <1>16, <2>2, <2>3, SortedAgain
    <3>2. RepeatsArray(n, out)'
      BY <1>0, <1>1, <1>2, <1>3, <1>6, <1>10, <1>14, <2>1, <2>2, <3>1, RepeatsAs
    <3> QED BY <1>1, <1>6, <1>10, <3>2 DEF Repeats, Steady
  <2>4. CASE TwoEocs(ids)
    <3>1. TwoEocs(order) BY <1>11, <1>16, <2>4, SortedElements
    <3> QED BY <1>2, <1>6, <1>10, <1>14, <2>1, <3>1
  <2> QED BY <2>3, <2>4
<1> QED BY <1>2, <1>15, <1>16

\* The beginning of the encoding of an Array keeps RetInv.
LEMMA BeginRet ==
  ASSUME IInv, NodesInv, RetInv, NEW n \in Live, ToDerBegin(n)
  PROVE  RetInv'
<1>0. PICK m, out : m = ret.n /\ out = ret.out OBVIOUS
<1>1. ret' = ret /\ Live' = Live /\ ~call.active /\ obj[n].bytes.null
      /\ obj[n].at_value.kind = "ary" BY BeginFacts DEF ToDerBegin, Live
<1>2. ret.op = "to_der" /\ ret.ok => m \in Live /\ Repeats(m, out) BY <1>0, <1>1 DEF RetInv
<1>3. ASSUME m \in Live, Repeats(m, out), m # n
      PROVE  Repeats(m, out)'
  <2>1. m \in Node /\ n \in Node BY <1>3, NodesFind
  <2>2. PICK order :
          /\ order \in Seq(ElementId) /\ Len(order) = Len(obj[n].at_value.ids)
          /\ obj' = [i \in Node |->
                       IF i = n THEN int_cons_sort_set(HeaderFirst(Outer(obj[n])), order) ELSE obj[i]]
    BY BeginFacts
  <2>3. obj'[m] = obj[m] BY <1>3, <2>1, <2>2
  <2>4. AlikeElems(obj[m].at_value.ids)
    <3>1. \A i \in DOMAIN obj[m].at_value.ids : obj[m].at_value.ids[i] # NilElem =>
            m = Root /\ obj[m].at_value.ids[i] \in Node \ {Root} BY <1>3, ElementsApart
    <3>2. n # Root => Alike(obj'[n], obj[n])
      <4>1. ASSUME n # Root
            PROVE  Alike(obj'[n], obj[n])
        <5>1. obj[n].at_value.ids = << >> BY <2>1, <4>1, NodesFind DEF ElementInv
        <5>2. order = << >> BY <2>2, <5>1
        <5> QED BY <1>1, <2>1, <2>2, <5>1, <5>2, BegunAlike
      <4> QED BY <4>1
    <3>3. \A i \in Node : i # n => Alike(obj'[i], obj[i]) BY <2>2 DEF Alike
    <3> QED BY <3>1, <3>2, <3>3 DEF AlikeElems
  <2> QED BY <1>3, <2>1, <2>3, <2>4, RepeatsSame
<1>4. ASSUME m \in Live, Repeats(m, out), m = n
      PROVE  \/ Repeats(m, out)'
             \/ /\ call'.active /\ call'.n = m /\ SortsAlways(obj'[m])
                /\ \E order : obj'[m].at_value.ids = order /\ TwoEocs(order)'
  <2>1. RepeatsArray(n, out) BY <1>1, <1>4 DEF Repeats
  <2> QED BY <1>4, <2>1, BegunRepeats
<1> QED BY <1>0, <1>1, <1>2, <1>3, <1>4 DEF RetInv

\* A step that changes nothing keeps RetInv.
LEMMA SameRet ==
  ASSUME RetInv, UNCHANGED vars
  PROVE  RetInv'
<1>0. PICK m, out : m = ret.n /\ out = ret.out OBVIOUS
<1>1. obj' = obj /\ call' = call /\ count' = count /\ ret' = ret BY DEF vars
<1>2. PICK o, ids : o = obj[m] /\ ids = obj[m].at_value.ids OBVIOUS
<1>3. /\ InOrder(ids)' = InOrder(ids) /\ Octets(ids)' = Octets(ids)
      /\ AllEncode(ids)' = AllEncode(ids) /\ TwoEocs(ids)' = TwoEocs(ids) BY <1>1, SameObjects
<1>4. Written(o, ids, Octets(ids))' = Written(o, ids, Octets(ids))
  BY <1>1, <1>3 DEF Written, MissingEoc, IsEoc
<1>5. RepeatsArray(m, out) => RepeatsArray(m, out)' BY <1>1, <1>2, <1>3, <1>4 DEF RepeatsArray
<1>6. Repeats(m, out) => Repeats(m, out)' BY <1>1, <1>5 DEF Repeats
<1> QED BY <1>0, <1>1, <1>2, <1>3, <1>6 DEF RetInv, Live

\* Every step keeps RetInv.
LEMMA RetStep ==
  ASSUME IInv, NodesInv, LoopInv, RetInv, [Next]_vars
  PROVE  RetInv'
<1>1. CASE \E a \in ElemNews : New(a) BY <1>1, RetOther DEF New, NoRet
<1>2. ASSUME NEW n \in Live,
             \/ GetValue(n)
             \/ \E t \in NewTags : SetTag(n, t)
             \/ \E sym \in TagClassSymbol : SetTagClass(n, sym)
             \/ SetInfiniteLength(n)
             \/ \E bits \in NewBits : SetUnusedBits(n, bits)
             \/ \E v \in NewValues : SetValue(n, v)
             \/ ToDerRefused(n)
             \/ ToDerSortRaises(n)
      PROVE  RetInv'
  <2>1. ASSUME GetValue(n) \/ (\E t \in NewTags : SetTag(n, t)) \/ SetInfiniteLength(n)
               \/ (\E bits \in NewBits : SetUnusedBits(n, bits))
        PROVE  RetInv'
    <3>1. CASE GetValue(n) BY <3>1, RetOther DEF GetValue, Done
    <3>2. CASE \E t \in NewTags : SetTag(n, t) BY <3>2, RetOther DEF SetTag, NoRet
    <3>3. CASE SetInfiniteLength(n) BY <3>3, RetOther DEF SetInfiniteLength, NoRet
    <3>4. CASE \E bits \in NewBits : SetUnusedBits(n, bits)
      BY <3>4, RetOther DEF SetUnusedBits, NoRet
    <3> QED BY <2>1, <3>1, <3>2, <3>3, <3>4
  <2>2. ASSUME NEW sym \in TagClassSymbol, SetTagClass(n, sym)
        PROVE  RetInv'
    <3>1. ret' = NoRet \/ ret' = Done("tag_class=", n, FALSE, << >>) BY <2>2 DEF SetTagClass
    <3> QED BY <3>1, RetOther DEF Done, NoRet
  <2>3. ASSUME NEW v \in NewValues, SetValue(n, v)
        PROVE  RetInv'
    BY <2>3, RetOther DEF SetValue, Done
  <2>4. ASSUME ToDerRefused(n) \/ ToDerSortRaises(n)
        PROVE  RetInv'
    BY <2>4, RetOther DEF ToDerRefused, ToDerSortRaises, Done
  <2> QED BY <1>2, <2>1, <2>2, <2>3, <2>4
<1>3. CASE \E v \in Arrays : SetValue(Root, v) BY <1>3, RetOther DEF SetValue, SetterCall, Done
<1>4. CASE EncodeElementFails \/ ToDerEndRaises
  BY <1>4, RetOther DEF EncodeElementFails, ToDerEndRaises, Done
<1>5. ASSUME NEW n \in Live, ToDerScalar(n) \/ ToDerBegin(n)
      PROVE  RetInv'
  BY <1>5, ToDerScalarRet, BeginRet
<1>6. CASE EncodeElement BY <1>6, EncodeElementRet
<1>7. CASE ToDerEnd BY <1>7, ToDerEndRet
<1>8. CASE UNCHANGED vars BY <1>8, SameRet
<1> QED BY <1>1, <1>2, <1>3, <1>4, <1>5, <1>6, <1>7, <1>8 DEF Next

-----------------------------------------------------------------------------
(* What a step of the encoder leaves of the objects.                       *)

\* An object encodes as before, and has not lost its length octets.
Firm(m) ==
  /\ Alike(obj'[m], obj[m])
  /\ obj[m].length_bytes # << >> => obj'[m].length_bytes # << >>

\* What a step of the encoder leaves of the root, when it does not sort its
\* elements.
KeptRoot(q, o) ==
  /\ SameIdentity(q, o)
  /\ o.explicit \/ q.cons = o.cons
  /\ o.at_value.kind = "ary" => q.bytes.null = o.bytes.null
  /\ o.bytes.null /\ o.at_value.kind = "ary" =>
       /\ o.length_bytes # << >> \/ o.inf \/ q.length_bytes = << >>
          \/ (call.active /\ call.n = Root /\ call.i > Len(call.ids))
       /\ o.length_bytes # << >> => q.length_bytes = o.length_bytes
       /\ UniversalSet(o) => q.modified = o.modified \/ (call.active /\ call.n = Root)

EncoderEffect ==
  /\ hist' = hist /\ count' = count
  /\ \A m \in Node \ {Root} : hist[m].retag \/ Firm(m)
  /\ KeptRoot(obj'[Root], obj[Root])

\* An object that stays encodes as before.
LEMMA FirmSame ==
  ASSUME NEW m, obj'[m] = obj[m]
  PROVE  Firm(m)
  BY DEF Firm, Alike

\* An object that was encoded encodes as before.
LEMMA FirmEncoded ==
  ASSUME IInv, NEW m \in Node, obj'[m] = EncodeScalar(obj[m]).obj
  PROVE  Firm(m)
<1>0. PICK o, r : o = obj[m] /\ r = EncodeScalar(o) OBVIOUS
<1>1. Sound(o) BY <1>0, EncoderFinds DEF NodeOK, ObjInv, ExplicitInv, Sound
<1>2. Alike(r.obj, o) /\ ScalarEffect(r, o) BY <1>0, <1>1, ScalarTwice, EncodeEffect DEF Sound
<1>3. o.length_bytes # << >> => r.obj.length_bytes # << >>
  BY <1>2 DEF ScalarEffect, HeaderOf, LengthFor, Unheaded
<1> QED BY <1>0, <1>2, <1>3 DEF Firm

\* A root that stays is kept.
LEMMA RootSame ==
  ASSUME NEW o
  PROVE  KeptRoot(o, o)
  BY DEF KeptRoot, SameIdentity

\* An element with an Array had a tag_class= raise half way.
LEMMA ArrayElement ==
  ASSUME IInv, NodesInv, NEW n \in Node \ {Root}, obj[n].at_value.kind = "ary"
  PROVE  hist[n].retag
  BY NodesFind DEF ElementInv

\* What encoding an object whose value is no Array leaves of the others.
LEMMA ToDerScalarEffect ==
  ASSUME IInv, NodesInv, NEW n \in Live, ToDerScalar(n)
  PROVE  EncoderEffect
<1>0. PICK o, r : o = obj[n] /\ r = EncodeScalar(o) OBVIOUS
<1>1. /\ ~o.bytes.null \/ o.at_value.kind # "ary"
      /\ obj' = [obj EXCEPT ![n] = r.obj] /\ hist' = hist /\ count' = count
  BY <1>0 DEF ToDerScalar
<1>2. n \in Node /\ Sound(o) /\ ArrayInv(o) /\ Root \in Node BY <1>0, NodesFind DEF ObjInv
<1>3. obj'[n] = r.obj /\ \A m \in Node : m # n => obj'[m] = obj[m] BY <1>1, <1>2, EncoderFinds
<1>4. \A m \in Node : Firm(m) BY <1>0, <1>3, FirmSame, FirmEncoded
<1>5. KeptRoot(obj'[Root], obj[Root])
  <2>1. CASE n = Root
    <3>1. ScalarEffect(r, o) BY <1>0, <1>2, EncodeEffect DEF Sound
    <3>2. SameIdentity(r.obj, o) /\ (o.explicit \/ r.obj.cons = o.cons)
      BY <1>2, <3>1 DEF ScalarEffect, ScalarCons, Sound, Object
    <3>3. o.at_value.kind = "ary" => r.obj.bytes = o.bytes BY <1>1, <3>1 DEF ScalarEffect
    <3> QED BY <1>0, <1>1, <1>3, <2>1, <3>2, <3>3 DEF KeptRoot
  <2>2. CASE n # Root BY <1>2, <1>3, <2>2, RootSame
  <2> QED BY <2>1, <2>2
<1> QED BY <1>1, <1>4, <1>5 DEF EncoderEffect

\* The header of the root goes out before its elements are encoded.
LEMMA BegunRoot ==
  ASSUME IInv, NEW n \in Live, obj[n].bytes.null, obj[n].at_value.kind = "ary", NEW b \in BOOLEAN,
         UniversalSet(obj[n]) => b = obj[n].modified
  PROVE  KeptRoot([HeaderFirst(Outer(obj[n])) EXCEPT !.modified = b], obj[n])
<1>0. PICK o, x, q : o = obj[n] /\ x = HeaderFirst(Outer(obj[n]))
                     /\ q = [x EXCEPT !.modified = b] OBVIOUS
<1>1. /\ x \in Object /\ SameIdentity(x, o) /\ x.bytes = o.bytes /\ x.modified = o.modified
      /\ x.cons = (o.cons \/ o.explicit)
      /\ IF o.length_bytes # << >> \/ o.inf
         THEN x.tag_bytes = TagFor(o, x.cons) /\ \A c : x.length_bytes = LengthFor(o, c)
         ELSE x.tag_bytes = o.tag_bytes /\ x.length_bytes = o.length_bytes BY <1>0, BegunObject
<1>2. /\ SameIdentity(q, x) /\ q.bytes = x.bytes /\ q.modified = b
      /\ q.cons = x.cons /\ q.length_bytes = x.length_bytes
  BY <1>0, <1>1 DEF Object, SameIdentity
<1>3. o.length_bytes # << >> => q.length_bytes = o.length_bytes BY <1>1, <1>2 DEF LengthFor
<1>4. o.cons \in BOOLEAN /\ o.explicit \in BOOLEAN BY <1>0, EncoderFinds DEF NodeOK, Object
<1>5. o.explicit \/ q.cons = o.cons BY <1>1, <1>2, <1>4
<1>6. SameIdentity(q, o) BY <1>1, <1>2 DEF SameIdentity
<1>7. o.length_bytes # << >> \/ o.inf \/ q.length_bytes = << >> BY <1>1, <1>2
<1>8. UniversalSet(o) => q.modified = o.modified BY <1>0, <1>2
<1>9. q.bytes = o.bytes BY <1>1, <1>2
<1> QED BY <1>0, <1>3, <1>5, <1>6, <1>7, <1>8, <1>9 DEF KeptRoot

\* What a refused encoding leaves of the objects.
LEMMA ToDerRefusedEffect ==
  ASSUME IInv, NodesInv, NEW n \in Live, ToDerRefused(n)
  PROVE  EncoderEffect
<1>0. PICK o, x, y :
        /\ o = obj[n]
        /\ x = [HeaderFirst(Outer(obj[n])) EXCEPT !.modified = FALSE]
        /\ y = [obj[n] EXCEPT !.modified = FALSE] OBVIOUS
<1>1. /\ o.bytes.null /\ o.at_value.kind = "ary" /\ BarredConstructed(Holder(o))
      /\ obj' = [obj EXCEPT ![n] = IF o.explicit THEN x ELSE y]
      /\ hist' = hist /\ count' = count BY <1>0 DEF ToDerRefused
<1>2. n \in Node /\ o \in Object /\ HeaderInv(o) /\ Root \in Node BY <1>0, NodesFind DEF NodeInv
<1>3. obj'[n] = (IF o.explicit THEN x ELSE y) /\ \A m \in Node : m # n => obj'[m] = obj[m]
  BY <1>1, <1>2, EncoderFinds
<1>4. ~UniversalSet(o) BY <1>1, <1>2 DEF UniversalSet, BarredConstructed, Holder, HeaderInv
<1>5. KeptRoot(x, o) BY <1>0, <1>1, <1>4, BegunRoot
<1>6. KeptRoot(y, o) BY <1>0, <1>2, <1>4 DEF KeptRoot, SameIdentity, Object
<1>7. \A m \in Node \ {Root} : hist[m].retag \/ Firm(m)
  BY <1>0, <1>1, <1>3, FirmSame, ArrayElement
<1>8. KeptRoot(obj'[Root], obj[Root]) BY <1>0, <1>2, <1>3, <1>5, <1>6, RootSame
<1> QED BY <1>1, <1>7, <1>8 DEF EncoderEffect

\* What a sort! that raises leaves of the objects.
LEMMA ToDerSortRaisesEffect ==
  ASSUME IInv, NodesInv, NEW n \in Live, ToDerSortRaises(n)
  PROVE  EncoderEffect
<1>0. PICK o, x, ids : o = obj[n] /\ x = HeaderFirst(Outer(obj[n])) /\ ids = obj[n].at_value.ids
  OBVIOUS
<1>1. /\ o.bytes.null /\ o.at_value.kind = "ary" /\ hist' = hist /\ count' = count
  BY <1>0 DEF ToDerSortRaises
<1>2. PICK S \in SUBSET ({obj[n].at_value.ids[i] : i \in DOMAIN obj[n].at_value.ids} \ {NilElem}) :
        obj' = [EncodedElems(S) EXCEPT ![n] = HeaderFirst(Outer(obj[n]))] BY DEF ToDerSortRaises
<1>3. n \in Node /\ Root \in Node BY NodesFind
<1>4. Root \notin S BY <1>0, <1>2, ElementsApart
<1>5. EncodedElems(S) = [m \in Node |-> EncodedElems(S)[m]] BY ElementsKept
<1>6. obj'[n] = x /\ \A m \in Node : m # n => obj'[m] = EncodedElems(S)[m]
  BY <1>0, <1>2, <1>3, <1>5
<1>7. o.modified \in BOOLEAN /\ [x EXCEPT !.modified = o.modified] = x BY <1>0, BegunObject
<1>8. KeptRoot(x, o)
  <2>1. KeptRoot([x EXCEPT !.modified = o.modified], o) BY <1>0, <1>1, <1>7, BegunRoot
  <2> QED BY <1>7, <2>1
<1>9. KeptRoot(obj'[Root], obj[Root])
  <2>1. CASE n = Root BY <1>0, <1>6, <1>8, <2>1
  <2>2. CASE n # Root BY <1>3, <1>4, <1>6, <2>2, EncodedAlike, RootSame
  <2> QED BY <2>1, <2>2
<1>10. ASSUME NEW m \in Node \ {Root}
       PROVE  hist[m].retag \/ Firm(m)
  <2>1. CASE m = n BY <1>0, <1>1, <2>1, ArrayElement
  <2>2. CASE m # n
    <3>1. obj'[m] = obj[m] \/ obj'[m] = EncodeScalar(obj[m]).obj BY <1>6, <2>2, EncodedAlike
    <3> QED BY <3>1, FirmSame, FirmEncoded
  <2> QED BY <2>1, <2>2
<1> QED BY <1>1, <1>9, <1>10 DEF EncoderEffect

\* What encoding an element leaves of the objects.
LEMMA EncodeElementEffect ==
  ASSUME IInv, NodesInv, LoopInv, EncodeElement
  PROVE  EncoderEffect
<1>0. PICK id : id = call.ids[call.i] OBVIOUS
<1>1. /\ call.active /\ call.i <= Len(call.ids) /\ Encodes(id)
      /\ obj' = EncodedElems({id}) /\ hist' = hist /\ count' = count BY <1>0 DEF EncodeElement
<1>2. call.i \in DOMAIN call.ids BY <1>1, EncoderFinds DEF CallOK, CallType
<1>3. id # Root
  <2>1. call.n \in Live /\ obj[call.n].at_value.ids = call.ids BY <1>1 DEF LoopInv, Ary
  <2> QED BY <1>0, <1>1, <1>2, <2>1, ElementsApart DEF Encodes
<1>4. \A m \in Node : obj'[m] = IF m = id THEN EncodeScalar(obj[m]).obj ELSE obj[m]
  BY <1>1, EncodedAlike
<1>5. \A m \in Node : Firm(m) BY <1>4, FirmSame, FirmEncoded
<1>6. Root \in Node BY NodesFind
<1>7. KeptRoot(obj'[Root], obj[Root]) BY <1>3, <1>4, <1>6, RootSame
<1> QED BY <1>1, <1>5, <1>7 DEF EncoderEffect

\* What an element that raises leaves of the objects.
LEMMA EncodeElementFailsEffect ==
  ASSUME IInv, NodesInv, LoopInv, EncodeElementFails
  PROVE  EncoderEffect
<1>0. PICK id, c, b : /\ id = call.ids[call.i] /\ c = call.n
                      /\ b = (EncodedElems({id})[c].modified /\ RaisesTypeError(obj[id])) OBVIOUS
<1>1. /\ call.active /\ call.i <= Len(call.ids) /\ hist' = hist /\ count' = count
      /\ obj' = IF id = NilElem THEN obj ELSE [EncodedElems({id}) EXCEPT ![c].modified = b]
  BY <1>0 DEF EncodeElementFails
<1>2. /\ call.i \in DOMAIN call.ids /\ c \in Live /\ obj[c].at_value.ids = call.ids
      /\ obj[c].at_value.kind = "ary"
  BY <1>0, <1>1, EncoderFinds DEF CallOK, CallType, LoopInv, Ary
<1>3. c \in Node /\ Root \in Node /\ obj[c] \in Object BY <1>2, NodesFind
<1>4. CASE id = NilElem BY <1>1, <1>3, <1>4, FirmSame, RootSame DEF EncoderEffect
<1>5. CASE id # NilElem
  <2>1. c = Root /\ id \in Node \ {Root} BY <1>0, <1>2, <1>5, ElementsApart
  <2>2. EncodedElems({id}) = [m \in Node |-> EncodedElems({id})[m]] BY ElementsKept
  <2>3. EncodedElems({id})[c] = obj[c] BY <1>3, <2>1, EncodedAlike
  <2>4. /\ obj'[c] = [obj[c] EXCEPT !.modified = b]
        /\ \A m \in Node : m # c => obj'[m] = EncodedElems({id})[m]
    BY <1>1, <1>3, <1>5, <2>2, <2>3
  <2>5. KeptRoot(obj'[Root], obj[Root])
    <3>1. PICK o, q : o = obj[c] /\ q = [obj[c] EXCEPT !.modified = b] OBVIOUS
    <3>2. SameIdentity(q, o) /\ q.cons = o.cons /\ q.bytes = o.bytes
          /\ q.length_bytes = o.length_bytes BY <1>3, <3>1 DEF SameIdentity, Object
    <3>3. KeptRoot(q, o) BY <1>0, <1>1, <2>1, <3>2 DEF KeptRoot
    <3> QED BY <1>3, <2>1, <2>4, <3>1, <3>3
  <2>6. ASSUME NEW m \in Node \ {Root}
        PROVE  Firm(m)
    <3>1. obj'[m] = obj[m] \/ obj'[m] = EncodeScalar(obj[m]).obj BY <2>1, <2>4, EncodedAlike
    <3> QED BY <3>1, FirmSame, FirmEncoded
  <2> QED BY <1>1, <2>5, <2>6 DEF EncoderEffect
<1> QED BY <1>4, <1>5

\* What is known when all elements were visited.
LEMMA EndFacts ==
  ASSUME IInv, NodesInv, LoopInv, ToDerEnd
  PROVE  \E n, ids, w :
           /\ n = call.n /\ ids = call.ids /\ w = Written(obj[n], ids, Octets(ids))
           /\ call.active /\ call.i > Len(ids)
           /\ n \in Live /\ n \in Node /\ obj[n] \in Object
           /\ obj[n].bytes.null /\ obj[n].at_value = Ary(ids) /\ ids \in Seq(ElementId)
           /\ obj[n].explicit => obj[n].default_tag # -1
           /\ ~BarredConstructed(Holder(obj[n]))
           /\ AllEncode(ids) /\ \A i \in DOMAIN ids : obj[ids[i]].length_bytes # << >>
           /\ Octets(ids) \in Seq(Token) /\ w \in Seq(Token)
           /\ ConsResult(int_asn1_cons_encode_to(obj[n], TRUE, w), obj[n], TRUE, w)
           /\ obj' = [obj EXCEPT ![n] =
                        [int_asn1_cons_encode_to(obj[n], TRUE, w).obj EXCEPT !.modified = FALSE]]
           /\ ret' = Done("to_der", n, int_asn1_cons_encode_to(obj[n], TRUE, w).ok,
                          int_asn1_cons_encode_to(obj[n], TRUE, w).out)
           /\ hist' = hist /\ count' = count
<1>0. PICK n, ids, buf : n = call.n /\ ids = call.ids /\ buf = call.buf OBVIOUS
<1>1. PICK w : w = Written(obj[n], ids, buf) OBVIOUS
<1>2. /\ call.active /\ call.i > Len(ids) /\ hist' = hist /\ count' = count
      /\ obj' = [obj EXCEPT ![n] =
                   [int_asn1_cons_encode_to(obj[n], TRUE, w).obj EXCEPT !.modified = FALSE]]
      /\ ret' = Done("to_der", n, int_asn1_cons_encode_to(obj[n], TRUE, w).ok,
                     int_asn1_cons_encode_to(obj[n], TRUE, w).out) BY <1>0, <1>1 DEF ToDerEnd
<1>3. /\ n \in Live /\ obj[n].at_value = Ary(ids)
      /\ ~BarredConstructed(Holder(obj[n]))
      /\ call.i <= Len(ids) + 1
      /\ \A i \in 1..(call.i - 1) : Encodes(ids[i]) /\ obj[ids[i]].length_bytes # << >>
      /\ buf = Octets(SubSeq(ids, 1, call.i - 1)) BY <1>0, <1>2 DEF LoopInv
<1>4. /\ call.i \in Nat /\ ids \in Seq(ElementId) /\ n \in Node
      /\ obj[n].bytes.null /\ obj[n] \in Object
      /\ obj[n].explicit => obj[n].default_tag # -1
  BY <1>0, <1>2, <1>3, EncoderFinds DEF CallOK, CallType, NodeOK, ObjInv, ExplicitInv
<1>5. call.i - 1 = Len(ids) BY <1>2, <1>3, <1>4
<1>6. AllEncode(ids) /\ \A i \in DOMAIN ids : obj[ids[i]].length_bytes # << >>
  <2>1. DOMAIN ids = 1..(call.i - 1) BY <1>4, <1>5
  <2> QED BY <1>3, <2>1 DEF AllEncode
<1>7. Octets(ids) \in Seq(Token) BY <1>4, <1>6, EncodingElements
<1>8. buf = Octets(ids)
  <2>1. SubSeq(ids, 1, Len(ids)) = ids BY <1>4
  <2> QED BY <1>3, <1>5, <2>1
<1>9. w \in Seq(Token) BY <1>1, <1>4, <1>7, <1>8, WrittenOctets
<1>10. ConsResult(int_asn1_cons_encode_to(obj[n], TRUE, w), obj[n], TRUE, w)
  BY <1>4, <1>9, ConsEffect
<1> QED BY <1>0, <1>1, <1>2, <1>3, <1>4, <1>6, <1>7, <1>8, <1>9, <1>10

\* What the end of the encoding of an Array leaves of the objects.
LEMMA ToDerEndEffect ==
  ASSUME IInv, NodesInv, LoopInv, ToDerEnd
  PROVE  EncoderEffect
<1>1. PICK n, ids, w :
        /\ n = call.n /\ ids = call.ids /\ call.active /\ call.i > Len(ids)
        /\ n \in Node /\ obj[n] \in Object /\ obj[n].bytes.null /\ obj[n].at_value = Ary(ids)
        /\ ConsResult(int_asn1_cons_encode_to(obj[n], TRUE, w), obj[n], TRUE, w)
        /\ obj' = [obj EXCEPT ![n] =
                     [int_asn1_cons_encode_to(obj[n], TRUE, w).obj EXCEPT !.modified = FALSE]]
        /\ hist' = hist /\ count' = count BY EndFacts
<1>2. PICK o, r, q : /\ o = obj[n] /\ r = int_asn1_cons_encode_to(obj[n], TRUE, w)
                     /\ q = [r.obj EXCEPT !.modified = FALSE] OBVIOUS
<1>3. obj'[n] = q /\ \A m \in Node : m # n => obj'[m] = obj[m] BY <1>1, <1>2, EncoderFinds
<1>4. /\ r.obj \in Object /\ SameIdentity(r.obj, o) /\ r.obj.cons = o.cons
      /\ r.obj.bytes = o.bytes
      /\ o.length_bytes # << >> => r.obj.length_bytes = o.length_bytes
  BY <1>1, <1>2 DEF ConsResult, Headed, LengthFor
<1>5. /\ SameIdentity(q, r.obj) /\ q.cons = r.obj.cons /\ q.bytes = r.obj.bytes
      /\ q.length_bytes = r.obj.length_bytes BY <1>2, <1>4 DEF Object, SameIdentity
<1>6. SameIdentity(q, o) /\ q.cons = o.cons /\ q.bytes = o.bytes
      /\ (o.length_bytes # << >> => q.length_bytes = o.length_bytes)
  BY <1>4, <1>5 DEF SameIdentity
<1>7. n = Root => KeptRoot(q, o) BY <1>1, <1>6 DEF KeptRoot
<1>8. obj[n].at_value.kind = "ary" /\ Root \in Node BY <1>1, NodesFind DEF Ary
<1>9. \A m \in Node \ {Root} : hist[m].retag \/ Firm(m) BY <1>3, <1>8, FirmSame, ArrayElement
<1>10. KeptRoot(obj'[Root], obj[Root]) BY <1>2, <1>3, <1>7, <1>8, RootSame
<1> QED BY <1>1, <1>9, <1>10 DEF EncoderEffect

\* A step of the encoder that does not sort.
EncoderStep ==
  \/ \E n \in Live : ToDerScalar(n) \/ ToDerRefused(n) \/ ToDerSortRaises(n)
  \/ EncodeElement
  \/ EncodeElementFails
  \/ ToDerEnd
  \/ ToDerEndRaises

\* What a step of the encoder that does not sort leaves of the objects.
LEMMA EncoderEffects ==
  ASSUME IInv, NodesInv, LoopInv, EncoderStep
  PROVE  EncoderEffect
<1>1. CASE ToDerEndRaises
  <2>1. obj' = obj /\ hist' = hist /\ count' = count BY <1>1 DEF ToDerEndRaises
  <2> QED BY <2>1, FirmSame, RootSame DEF EncoderEffect
<1> QED
  BY <1>1, ToDerScalarEffect, ToDerRefusedEffect, ToDerSortRaisesEffect, EncodeElementEffect,
    EncodeElementFailsEffect, ToDerEndEffect DEF EncoderStep

-----------------------------------------------------------------------------
(* The elements of an untouched root.                                      *)

\* What the elements of an Array were parsed from.
Sources(ids) == [i \in DOMAIN ids |-> hist[ids[i]].src]

ElementSources(inf, ids, src) ==
  /\ \A i \in DOMAIN ids : ids[i] # NilElem =>
       /\ hist[ids[i]].src # << >>
       /\ inf => ~IsEocHeader(hist[ids[i]].src[1])
  /\ inf => Len(src) >= 4
  /\ ~HasNil(ids) =>
       SubSeq(src, 3, Len(src)) =
         IF inf THEN FlattenSeq(Sources(ids)) \o SubSeq(src, Len(src) - 1, Len(src))
         ELSE FlattenSeq(Sources(ids))

\* How ElementsInv is shown of the next state.
LEMMA ElementsAre ==
  ASSUME NEW o, NEW h, o = obj'[Root], h = hist'[Root],
         h.src # << >> /\ o.decoded /\ o.cons /\ ~h.touched /\ ~h.lost =>
           ElementSources(o.inf, o.at_value.ids, h.src)'
  PROVE  ElementsInv'
  BY DEF ElementsInv, DecodedElementsComplete, ElementSources, Sources

\* What ElementsInv says of a root that was not touched.
LEMMA ElementsWere ==
  ASSUME ElementsInv,
         hist[Root].src # << >>, obj[Root].decoded, obj[Root].cons,
         ~hist[Root].touched, ~hist[Root].lost
  PROVE  ElementSources(obj[Root].inf, obj[Root].at_value.ids, hist[Root].src)
  BY DEF ElementsInv, DecodedElementsComplete, ElementSources, Sources

\* ElementsInv stays when an untouched root keeps its elements and their
\* sources.
LEMMA ElementsStay ==
  ASSUME IInv, NodesInv, ElementsInv,
         \A m \in Live : hist'[m].src = hist[m].src,
         hist[Root].touched => hist'[Root].touched,
         hist[Root].lost => hist'[Root].lost,
         hist[Root].src # << >> /\ ~hist'[Root].touched /\ ~hist'[Root].lost
           /\ obj'[Root].decoded /\ obj'[Root].cons =>
           /\ obj[Root].decoded /\ obj[Root].cons
           /\ obj'[Root].inf = obj[Root].inf /\ obj'[Root].at_value.ids = obj[Root].at_value.ids
  PROVE  ElementsInv'
<1>0. PICK o, h, q, g, ids : /\ o = obj[Root] /\ h = hist[Root] /\ q = obj'[Root]
                             /\ g = hist'[Root] /\ ids = obj[Root].at_value.ids OBVIOUS
<1>1. g.src = h.src /\ Root \in Live BY <1>0, NodesFind
<1>2. ASSUME g.src # << >>, q.decoded, q.cons, ~g.touched, ~g.lost
      PROVE  ElementSources(q.inf, q.at_value.ids, g.src)'
  <2>1. /\ o.decoded /\ o.cons /\ ~h.touched /\ ~h.lost /\ h.src # << >>
        /\ q.inf = o.inf /\ q.at_value.ids = ids BY <1>0, <1>1, <1>2
  <2>2. ElementSources(o.inf, ids, h.src) BY <1>0, <2>1, ElementsWere
  <2>3. \A i \in DOMAIN ids : ids[i] # NilElem => hist'[ids[i]].src = hist[ids[i]].src
    BY <1>0, <1>1, ElementsApart
  <2>4. ~HasNil(ids) => Sources(ids)' = Sources(ids) BY <2>3 DEF HasNil, Sources
  <2>5. HasNil(ids)' = HasNil(ids) BY DEF HasNil
  <2>6. ElementSources(o.inf, ids, h.src)' BY <2>2, <2>3, <2>4, <2>5 DEF ElementSources
  <2> QED BY <1>1, <2>1, <2>6
<1> QED BY <1>0, <1>2, ElementsAre

\* The sources of all objects stay, and a setter on the root is seen.
LEMMA EncoderElementsInv ==
  ASSUME IInv, NodesInv, LoopInv, ElementsInv, EncoderStep
  PROVE  ElementsInv'
<1>0. PICK o, h, q : o = obj[Root] /\ h = hist[Root] /\ q = obj'[Root] OBVIOUS
<1>1. hist' = hist /\ KeptRoot(q, o) BY <1>0, EncoderEffects DEF EncoderEffect
<1>2. SourceInv(o, h) BY <1>0, NodesFind DEF NodeInv
<1>3. h.src # << >> /\ ~h.touched /\ ~h.lost /\ q.decoded /\ q.cons =>
        /\ o.decoded /\ o.cons /\ q.inf = o.inf /\ q.at_value.ids = o.at_value.ids
  BY <1>1, <1>2 DEF KeptRoot, SameIdentity, SourceInv
<1> QED BY <1>0, <1>1, <1>3, ElementsStay

\* The beginning of the encoding of an Array keeps ElementsInv: an object that
\* was parsed and not touched is not modified and has no explicit tag, so its
\* elements are not sorted.
LEMMA BeginElementsInv ==
  ASSUME IInv, NodesInv, ElementsInv, NEW n \in Live, ToDerBegin(n)
  PROVE  ElementsInv'
<1>0. PICK o, h, q : o = obj[Root] /\ h = hist[Root] /\ q = obj'[Root] OBVIOUS
<1>1. SourceInv(o, h) /\ n \in Node /\ Root \in Node /\ o.explicit \in BOOLEAN /\ o.cons \in BOOLEAN
  BY <1>0, NodesFind DEF NodeInv, Object
<1>2. PICK order :
        /\ order \in Seq(ElementId) /\ Len(order) = Len(obj[n].at_value.ids)
        /\ obj' = [m \in Node |-> IF m = n THEN int_cons_sort_set(HeaderFirst(Outer(obj[n])), order)
                                  ELSE obj[m]]
        /\ \/ order = obj[n].at_value.ids
           \/ /\ order \in SortedOrders(obj[n].at_value.ids)
              /\ SortsElements(Holder(obj[n])) BY BeginFacts
<1>5. hist' = hist BY BeginFacts
<1>3. CASE n # Root
  <2>1. q = o BY <1>0, <1>1, <1>2, <1>3
  <2> QED BY <1>0, <1>5, <2>1, ElementsStay
<1>4. CASE n = Root
  <2>1. PICK x : x = HeaderFirst(Outer(obj[n])) OBVIOUS
  <2>2. /\ x \in Object /\ SameIdentity(x, o) /\ x.modified = o.modified
        /\ x.cons = (o.cons \/ o.explicit) BY <1>0, <1>4, <2>1, BegunObject
  <2>3. q = int_cons_sort_set(x, order) BY <1>0, <1>1, <1>2, <1>4, <2>1
  <2>4. q.at_value.ids = order /\ q.inf = o.inf /\ q.cons = x.cons /\ q.decoded = o.decoded
    BY <2>2, <2>3 DEF int_cons_sort_set, Object, SameIdentity, Ary
  <2>5. h.src # << >> /\ ~h.touched /\ ~h.lost /\ q.decoded /\ q.cons =>
          /\ o.decoded /\ o.cons /\ q.inf = o.inf /\ q.at_value.ids = o.at_value.ids
    BY <1>0, <1>1, <1>2, <1>4, <2>2, <2>4 DEF SourceInv, SortsElements, Holder
  <2> QED BY <1>0, <1>5, <2>5, ElementsStay
<1> QED BY <1>3, <1>4

\* The objects that exist are stored over one at a time.
LEMMA StoredObjects ==
  ASSUME NodesOK, NEW n \in Live, NEW o, NEW elems \in Seq(Elem), Store(n, o, elems)
  PROVE  /\ obj'[n] = o /\ \A m \in Live : m # n => obj'[m] = obj[m]
         /\ Live \subseteq Live'
<1>1. count \in Nat /\ Len(elems) \in Nat /\ Live \subseteq Node
      /\ count' = count + Len(elems) BY NodeFacts DEF NodesOK, Store, Live
<1>2. \A m \in Live : m \notin (count + 1)..(count + Len(elems)) BY <1>1 DEF Live
<1>3. obj'[n] = o /\ \A m \in Live : m # n => obj'[m] = obj[m] BY <1>1, <1>2 DEF Store
<1>4. Live \subseteq Live' BY <1>1 DEF Live
<1> QED BY <1>3, <1>4

\* A stored history leaves those of the other objects.
LEMMA StoredHistories ==
  ASSUME NodesOK, NEW n \in Live, NEW h, NEW base, NEW elems \in Seq(Elem),
         StoreHist(base, n, h, elems)
  PROVE  hist'[n] = h /\ \A m \in Live : m # n => hist'[m] = base[m]
<1>1. count \in Nat /\ Len(elems) \in Nat /\ Live \subseteq Node BY NodeFacts DEF NodesOK, Live
<1>2. \A m \in Live : m \notin (count + 1)..(count + Len(elems)) BY <1>1 DEF Live
<1> QED BY <1>1, <1>2 DEF StoreHist

\* A setter is seen on its own object, and by the root.
SetterEffect(n) ==
  /\ Live \subseteq Live'
  /\ \A m \in Live : m # n => /\ obj'[m] = obj[m]
                              /\ HistoryAs(hist'[m], hist[m])
                              /\ m # Root => hist'[m] = hist[m]
  /\ hist'[n].touched /\ hist'[n].src = hist[n].src
  /\ hist'[Root].src = hist[Root].src

\* What a setter other than unused_bits= says of the root.
RootStale(n) ==
  n # Root => (hist'[Root].stale = (hist[Root].stale \/ obj[Root].length_bytes # << >>))

\* A setter that stores one object and drops what is cached of the root.
LEMMA SetterStored ==
  ASSUME IInv, NodesInv, NEW n \in Live, NEW o, NEW h,
         obj' = [obj EXCEPT ![n] = o], hist' = [StaleAfter(n) EXCEPT ![n] = h], count' = count,
         h.touched, h.src = hist[n].src
  PROVE  SetterEffect(n) /\ RootStale(n) /\ obj'[n] = o /\ hist'[n] = h
<1>1. NodesOK /\ n \in Node /\ Live \subseteq Node /\ Root \in Live BY NodesFind
<1>2. /\ \A m \in Node : HistoryAs(StaleAfter(n)[m], hist[m])
                         /\ (m # Root => StaleAfter(n)[m] = hist[m])
      /\ StaleAfter(n)[Root].stale =
           (hist[Root].stale \/ (n # Root /\ obj[Root].length_bytes # << >>))
      /\ StaleAfter(n) = [m \in Node |-> StaleAfter(n)[m]] BY <1>1, StaleFacts
<1>3. obj'[n] = o /\ \A m \in Node : m # n => obj'[m] = obj[m] BY <1>1, EncoderFinds
<1>4. hist'[n] = h /\ \A m \in Node : m # n => hist'[m] = StaleAfter(n)[m] BY <1>1, <1>2
<1>5. Live \subseteq Live' BY DEF Live
<1>6. hist'[Root].src = hist[Root].src BY <1>1, <1>2, <1>4 DEF HistoryAs
<1> QED BY <1>1, <1>2, <1>3, <1>4, <1>5, <1>6 DEF SetterEffect, RootStale

\* What tag= leaves of the objects.
LEMMA SetTagEffect ==
  ASSUME IInv, NodesInv, NEW n \in Live, NEW t \in NewTags, SetTag(n, t)
  PROVE  SetterEffect(n) /\ RootStale(n)
<1> DEFINE r == [int_asn1_data_update_cb([int_invalidate_tag(obj[n]) EXCEPT !.tag = t])
                   EXCEPT !.modified = TRUE, !.at_tag = t]
<1>1. obj' = [obj EXCEPT ![n] = r] /\ hist' = [StaleAfter(n) EXCEPT ![n] = Touched(n)]
      /\ count' = count BY DEF SetTag
<1>2. Touched(n).touched /\ Touched(n).src = hist[n].src BY SetterNode DEF TouchedAs
<1> HIDE DEF r
<1> QED BY <1>1, <1>2, SetterStored

\* What infinite_length= leaves of the objects.
LEMMA SetInfiniteLengthEffect ==
  ASSUME IInv, NodesInv, NEW n \in Live, SetInfiniteLength(n)
  PROVE  SetterEffect(n) /\ RootStale(n)
<1> DEFINE o == obj[n]
           g == Touched(n)
           b == g.flip \/ ~o.bytes.null
           c == g.stale /\ n # Root
           r == [int_invalidate_length(o) EXCEPT
                   !.inf = ~o.inf, !.modified = TRUE, !.at_inf = ~o.inf]
           f == [g EXCEPT !.flip = b, !.stale = c]
<1>1. obj' = [obj EXCEPT ![n] = r] /\ hist' = [StaleAfter(n) EXCEPT ![n] = f]
      /\ count' = count BY DEF SetInfiniteLength
<1>2. TouchedAs(g, hist[n]) BY SetterNode
<1> HIDE DEF g, b, c
<1>3. f.touched /\ f.src = hist[n].src BY <1>2 DEF TouchedAs, HistType
<1> HIDE DEF r, f
<1> QED BY <1>1, <1>3, SetterStored

\* What value= leaves of the objects.
LEMMA SetValueEffect ==
  ASSUME IInv, NodesInv, NEW n \in Live, NEW v, SetValue(n, v)
  PROVE  SetterEffect(n) /\ RootStale(n)
<1> DEFINE isAry == v.kind = "ary"
           p == [int_invalidate_value(obj[n]) EXCEPT !.at_value = v, !.modified = TRUE]
           r == IF p.cons = isAry THEN p
                ELSE [int_invalidate_tag(p) EXCEPT
                        !.cons = isAry, !.codec = int_codec_for(p.tag, p.tag_class)]
           g == Touched(n)
           f == Refreshed(g)
<1>1. obj' = [obj EXCEPT ![n] = r] /\ count' = count
      /\ hist' = [StaleAfter(n) EXCEPT ![n] = f] BY DEF SetValue
<1>2. TouchedAs(g, hist[n]) BY SetterNode
<1> HIDE DEF g
<1>3. f.touched /\ f.src = hist[n].src BY <1>2 DEF TouchedAs, HistType, Refreshed
<1> HIDE DEF r, f
<1> QED BY <1>1, <1>3, SetterStored

\* What unused_bits= leaves of the objects.
LEMMA SetUnusedBitsEffect ==
  ASSUME IInv, NodesInv, NEW n \in Live, NEW bits \in NewBits, SetUnusedBits(n, bits)
  PROVE  /\ SetterEffect(n) /\ obj'[n] = [obj[n] EXCEPT !.at_unused_bits = bits]
         /\ obj[n].default_tag = BIT_STRING
         /\ hist'[n].stale = hist[n].stale /\ hist'[n].flip = hist[n].flip
         /\ hist'[n].lost = hist[n].lost /\ hist'[n].retag = hist[n].retag
         /\ \A m \in Live : m # n => hist'[m] = hist[m]
<1> DEFINE o == obj[n]
           c == hist[n].bits \/ (o.decoded /\ ~o.bytes.null)
           f == [hist[n] EXCEPT !.touched = TRUE, !.bits = c]
<1>1. /\ NodesOK /\ n \in Node /\ Live \subseteq Node /\ Root \in Live
      /\ \A m \in Node : hist[m] \in HistType BY NodesFind
<1>2. hist' = [hist EXCEPT ![n].touched = TRUE, ![n].bits = c]
      /\ obj' = [obj EXCEPT ![n].at_unused_bits = bits] /\ count' = count
      /\ o.default_tag = BIT_STRING BY DEF SetUnusedBits
<1>3. obj'[n] = [obj[n] EXCEPT !.at_unused_bits = bits] /\ \A m \in Node : m # n => obj'[m] = obj[m]
  BY <1>1, <1>2 DEF NodesOK
<1>4. hist'[n] = f /\ \A m \in Node : m # n => hist'[m] = hist[m] BY <1>1, <1>2 DEF NodesOK
<1> HIDE DEF c
<1>5. /\ f.touched /\ f.src = hist[n].src /\ f.stale = hist[n].stale /\ f.flip = hist[n].flip
      /\ f.lost = hist[n].lost /\ f.retag = hist[n].retag BY <1>1 DEF HistType
<1>6. Live \subseteq Live' BY <1>2 DEF Live
<1>7. \A m \in Node : HistoryAs(hist[m], hist[m]) BY <1>1 DEF HistoryAs
<1> HIDE DEF f
<1>8. SetterEffect(n) BY <1>1, <1>3, <1>4, <1>5, <1>6, <1>7 DEF SetterEffect
<1> QED BY <1>1, <1>2, <1>3, <1>4, <1>5, <1>8

\* tag_class= ends in one of three ways.
LEMMA SetTagClassEffect ==
  ASSUME IInv, NodesInv, NEW n \in Live, NEW sym \in TagClassSymbol, SetTagClass(n, sym)
  PROVE  /\ SetterEffect(n) /\ RootStale(n)
         /\ LET r == Reclassed(obj[n], sym)
            IN  \/ ~TogglesExplicit(obj[n], sym) /\ obj'[n] = ClassDone(r, sym)
                   /\ hist'[n] = Touched(n)
                \/ DecodeOk(r) /\ obj'[n] = DecodedDone(r, sym)
                \/ ~DecodeOk(r) /\ obj'[n] = AfterDecode(r) /\ hist'[n].retag
<1> DEFINE o == obj[n]
           r == Reclassed(o, sym)
           g == Touched(n)
<1>1. /\ n \in Node /\ o \in Object /\ hist[n] \in HistType
      /\ ObjInv(o, hist[n])
      /\ TouchedAs(g, hist[n])
      /\ count \in Nat /\ o.at_value.ids \in Seq(ElementId) BY SetterNode
<1>2. NodesOK /\ Live \subseteq Node /\ Root \in Live BY NodesFind
<1>3. /\ \A m \in Node : HistoryAs(StaleAfter(n)[m], hist[m])
                         /\ (m # Root => StaleAfter(n)[m] = hist[m])
      /\ StaleAfter(n)[Root].stale =
           (hist[Root].stale \/ (n # Root /\ obj[Root].length_bytes # << >>))
      /\ StaleAfter(n) = [m \in Node |-> StaleAfter(n)[m]] BY <1>1, <1>2, StaleFacts
<1>4. \/ /\ ~TogglesExplicit(o, sym)
         /\ Store(n, ClassDone(r, sym), <<>>)
         /\ hist' = [StaleAfter(n) EXCEPT ![n] = g]
      \/ /\ TogglesExplicit(o, sym) /\ DecodeOk(r)
         /\ Store(n, DecodedDone(r, sym), NewElems(r))
         /\ StoreHist(StaleAfter(n), n,
                      [Refreshed(g) EXCEPT !.lost = @ \/ LosesValue(r)], NewElems(r))
      \/ /\ TogglesExplicit(o, sym) /\ ~DecodeOk(r)
         /\ Store(n, AfterDecode(r), <<>>)
         /\ hist' = [StaleAfter(n) EXCEPT ![n] = [g EXCEPT !.retag = TRUE,
                                                   !.lost = @ \/ LosesValue(r)]]
  BY DEF SetTagClass, Reclassed, ClassDone, DecodedDone
<1>5. g \in HistType /\ g.touched /\ g.src = hist[n].src BY <1>1 DEF TouchedAs
<1>6. r \in Object /\ BytesInv(r)
  <2>1. /\ r \in Object /\ r.bytes = o.bytes /\ r.cons = o.cons BY <1>1, RetaggedFields
  <2>2. BytesInv(o) BY <1>1 DEF ObjInv
  <2> HIDE DEF r
  <2> QED BY <2>1, <2>2 DEF BytesInv
<1> HIDE DEF o, g, r
<1>7. CASE /\ ~TogglesExplicit(o, sym)
           /\ Store(n, ClassDone(r, sym), <<>>)
           /\ hist' = [StaleAfter(n) EXCEPT ![n] = g]
  <2>1. obj' = [obj EXCEPT ![n] = ClassDone(r, sym)] /\ count' = count
    BY <1>1, <1>2, <1>7, StoreNone
  <2>2. SetterEffect(n) /\ RootStale(n) /\ obj'[n] = ClassDone(r, sym) /\ hist'[n] = g
    BY <1>5, <1>7, <2>1, SetterStored
  <2> QED BY <1>7, <2>2 DEF r, o, g
<1>8. CASE /\ DecodeOk(r)
           /\ Store(n, DecodedDone(r, sym), NewElems(r))
           /\ StoreHist(StaleAfter(n), n,
                        [Refreshed(g) EXCEPT !.lost = @ \/ LosesValue(r)], NewElems(r))
  <2>1. NewElems(r) \in Seq(Elem) BY <1>6, NewElemsSound
  <2> DEFINE h == [Refreshed(g) EXCEPT !.lost = @ \/ LosesValue(r)]
  <2>2. h.touched /\ h.src = hist[n].src BY <1>5 DEF Refreshed, HistType
  <2>3. StoreHist(StaleAfter(n), n, h, NewElems(r)) BY <1>8
  <2> HIDE DEF h
  <2>4. /\ obj'[n] = DecodedDone(r, sym) /\ \A m \in Live : m # n => obj'[m] = obj[m]
        /\ Live \subseteq Live' BY <1>2, <1>8, <2>1, StoredObjects
  <2>5. hist'[n] = h /\ \A m \in Live : m # n => hist'[m] = StaleAfter(n)[m]
    BY <1>2, <2>1, <2>3, StoredHistories
  <2>6. hist'[Root].src = hist[Root].src BY <1>2, <1>3, <2>2, <2>5 DEF HistoryAs
  <2>7. SetterEffect(n) /\ RootStale(n)
    BY <1>2, <1>3, <2>2, <2>4, <2>5, <2>6 DEF SetterEffect, RootStale
  <2> QED BY <1>8, <2>4, <2>7 DEF r, o
<1>9. CASE /\ ~DecodeOk(r)
           /\ Store(n, AfterDecode(r), <<>>)
           /\ hist' = [StaleAfter(n) EXCEPT ![n] = [g EXCEPT !.retag = TRUE,
                                                     !.lost = @ \/ LosesValue(r)]]
  <2> DEFINE h == [g EXCEPT !.retag = TRUE, !.lost = @ \/ LosesValue(r)]
  <2>1. h.touched /\ h.src = hist[n].src /\ h.retag BY <1>5 DEF HistType
  <2>2. hist' = [StaleAfter(n) EXCEPT ![n] = h] BY <1>9
  <2> HIDE DEF h
  <2>3. obj' = [obj EXCEPT ![n] = AfterDecode(r)] /\ count' = count
    BY <1>1, <1>2, <1>9, StoreNone
  <2>4. SetterEffect(n) /\ RootStale(n) /\ obj'[n] = AfterDecode(r) /\ hist'[n] = h
    BY <2>1, <2>2, <2>3, SetterStored
  <2> QED BY <1>9, <2>1, <2>4 DEF r, o
<1> QED BY <1>4, <1>7, <1>8, <1>9

\* A setter keeps ElementsInv.
LEMMA SetterElementsInv ==
  ASSUME IInv, NodesInv, ElementsInv, NEW n \in Live, SetterEffect(n)
  PROVE  ElementsInv'
<1>1. Root \in Live BY NodesFind
<1>2. \A m \in Live : hist'[m].src = hist[m].src BY DEF SetterEffect, HistoryAs
<1>3. CASE n = Root
  <2>1. hist'[Root].touched BY <1>3 DEF SetterEffect
  <2> QED BY <2>1 DEF ElementsInv
<1>4. CASE n # Root
  <2>1. obj'[Root] = obj[Root] /\ HistoryAs(hist'[Root], hist[Root])
    BY <1>1, <1>4 DEF SetterEffect
  <2> QED BY <1>2, <2>1, ElementsStay DEF HistoryAs
<1> QED BY <1>3, <1>4

\* What creating or parsing an object leaves of the objects.
LEMMA NewEffect ==
  ASSUME IInv, NEW a \in ElemNews, New(a)
  PROVE  /\ \A m \in Live : obj'[m] = obj[m]
         /\ hist' = hist /\ count' = count + 1 /\ Root \in Live
<1>1. count \in Nat /\ NodesOK /\ Live \subseteq Node BY EncoderFinds
<1>2. count' = count + 1 /\ hist' = hist
      /\ obj' = [obj EXCEPT ![count + 1] = Created(a.value, a.tag, a.sym, a.default_tag)]
  BY DEF New
<1>3. \A m \in Live : m # count + 1 BY <1>1 DEF Live
<1>4. Root \in Live BY <1>1 DEF Live, Root
<1> QED BY <1>1, <1>2, <1>3, <1>4 DEF NodesOK

\* Creating or parsing an object keeps ElementsInv.
LEMMA NewElementsInv ==
  ASSUME IInv, NodesInv, ElementsInv, NEW a \in ElemNews, New(a)
  PROVE  ElementsInv'
  BY NewEffect, ElementsStay

\* The members of two sequences put together.
LEMMA ConcatAt ==
  ASSUME NEW T, NEW a \in Seq(T), NEW b \in Seq(T)
  PROVE  /\ Len(a \o b) = Len(a) + Len(b)
         /\ \A i \in 1..(Len(a) + Len(b)) :
              (a \o b)[i] = IF i <= Len(a) THEN a[i] ELSE b[i - Len(a)] OBVIOUS

\* Two members put at the end of a sequence are its last two.
LEMMA ConcatEnd ==
  ASSUME NEW T, NEW a \in Seq(T), NEW b \in Seq(T), Len(b) = 2
  PROVE  Len(a \o b) = Len(a) + 2 /\ (a \o b)[Len(a) + 1] = b[1] /\ (a \o b)[Len(a) + 2] = b[2]
<1>0. PICK c, m : c = a \o b /\ m = Len(a) OBVIOUS
<1>1. m \in Nat BY <1>0
<1>2. Len(c) = m + 2 /\ \A i \in 1..(m + 2) : c[i] = IF i <= m THEN a[i] ELSE b[i - m]
  BY <1>0, ConcatAt
<1>3. c[m + 1] = b[(m + 1) - m] /\ c[m + 2] = b[(m + 2) - m] BY <1>1, <1>2
<1>4. (m + 1) - m = 1 /\ (m + 2) - m = 2 BY <1>1
<1> QED BY <1>0, <1>2, <1>3, <1>4

\* The last two of a sequence whose end is known.
LEMMA LastTwo ==
  ASSUME NEW T, NEW s \in Seq(T), Len(s) >= 2, NEW a \in Seq(T), NEW b \in Seq(T), Len(b) = 2,
         SubSeq(s, 3, Len(s)) = a \o b
  PROVE  Len(s) >= 4 /\ SubSeq(s, Len(s) - 1, Len(s)) = b
<1> DEFINE k == Len(s)
           t == SubSeq(s, 3, k)
           m == Len(a)
<1>1. k \in Nat /\ m \in Nat /\ Len(t) = k - 2 /\ \A i \in 1..(k - 2) : t[i] = s[i + 2] OBVIOUS
<1>2. Len(a \o b) = m + 2 /\ (a \o b)[m + 1] = b[1] /\ (a \o b)[m + 2] = b[2] BY ConcatEnd
<1>3. k = m + 4 BY <1>1, <1>2
<1>4. s[k - 1] = b[1] /\ s[k] = b[2]
  <2>1. t[m + 1] = s[k - 1] /\ t[m + 2] = s[k] BY <1>1, <1>3
  <2> QED BY <1>2, <2>1
<1>5. Len(SubSeq(s, k - 1, k)) = 2 /\ SubSeq(s, k - 1, k)[1] = s[k - 1]
      /\ SubSeq(s, k - 1, k)[2] = s[k] /\ SubSeq(s, k - 1, k) \in Seq(T) BY <1>1, <1>3
<1> QED BY <1>1, <1>3, <1>4, <1>5

\* What is left of the elements when the end-of-contents of an indefinite
\* length is dropped, and which of them become objects.
LEMMA KeptFacts ==
  ASSUME NEW o \in Object, ElemsSound(o.bytes.elems)
  PROVE  LET e == o.bytes.elems
             k == KeptElems(o)
             w == Whole(k)
         IN  /\ e \in Seq(Elem) /\ k \in Seq(Elem)
             /\ Len(k) = IF o.inf /\ e # << >> THEN Len(e) - 1 ELSE Len(e)
             /\ \A i \in 1..Len(k) : k[i] = e[i]
             /\ ~o.inf => k = e
             /\ \A i \in 1..Len(k) : ~IsShort(k[i]) =>
                  i \in 1..Len(w) /\ w[i] = k[i]
             /\ w \in Seq(Elem)
<1> DEFINE e == o.bytes.elems
           k == KeptElems(o)
           w == Whole(k)
<1>1. e \in Seq(Elem) /\ Len(e) \in Nat BY DEF Object, Bytes
<1>2. k = IF o.inf /\ e # << >> THEN SubSeq(e, 1, Len(e) - 1) ELSE e BY DEF KeptElems
<1>3. ElemsSound(e) OBVIOUS
<1> HIDE DEF e
<1>4. /\ k \in Seq(Elem) /\ Len(k) \in Nat
      /\ Len(k) = IF o.inf /\ e # << >> THEN Len(e) - 1 ELSE Len(e)
      /\ \A i \in 1..Len(k) : k[i] = e[i]
      /\ ~o.inf => k = e BY <1>1, <1>2
<1> HIDE DEF k
<1>5. w = IF k # << >> /\ IsShort(k[Len(k)]) THEN SubSeq(k, 1, Len(k) - 1) ELSE k BY DEF Whole
<1> HIDE DEF w
<1>6. w \in Seq(Elem) BY <1>4, <1>5
<1>7. ASSUME NEW i \in 1..Len(k), ~IsShort(k[i])
      PROVE  i \in 1..Len(w) /\ w[i] = k[i]
  <2>1. CASE k # << >> /\ IsShort(k[Len(k)])
    <3>1. i # Len(k) /\ i \in 1..(Len(k) - 1) BY <1>4, <1>7, <2>1
    <3> QED BY <1>4, <1>5, <2>1, <3>1
  <2>2. CASE ~(k # << >> /\ IsShort(k[Len(k)])) BY <1>5, <2>2
  <2> QED BY <2>1, <2>2
<1> QED BY <1>1, <1>4, <1>6, <1>7 DEF e, k, w

\* The octets of elements, one by one.
EachTokens(elems) == [i \in DOMAIN elems |-> ElemTokens(elems[i])]

\* An element of a value is an identifier, a length and content octets.
LEMMA ElemTokensType ==
  ASSUME NEW e \in Elem
  PROVE  /\ ElemTokens(e) \in Seq(Token) /\ ElemTokens(e)[1] = e.id
         /\ ElemTokens(e) # << >>
         /\ e.oct = << >> => Len(ElemTokens(e)) = 2
<1>1. e.id \in Token /\ e.len \in Token /\ e.oct \in Seq(Token) BY TokenSeqs DEF Elem, Token
<1>2. << e.id, e.len >> \in Seq(Token) BY <1>1
<1> QED BY <1>1, <1>2 DEF ElemTokens

\* The octets of elements are octets.
LEMMA TokensType ==
  ASSUME NEW elems \in Seq(Elem)
  PROVE  /\ EachTokens(elems) \in Seq(Seq(Token)) /\ FlattenSeq(EachTokens(elems)) \in Seq(Token)
         /\ Len(EachTokens(elems)) = Len(elems)
<1>1. EachTokens(elems) = [i \in 1..Len(elems) |-> ElemTokens(elems[i])] BY DEF EachTokens
<1>2. \A i \in 1..Len(elems) : ElemTokens(elems[i]) \in Seq(Token) BY ElemTokensType
<1>3. EachTokens(elems) \in Seq(Seq(Token)) /\ Len(EachTokens(elems)) = Len(elems) BY <1>1, <1>2
<1> QED BY <1>3, FlattenType

\* With the end-of-contents that was dropped, the elements are the value.
LEMMA ElementsJoined ==
  ASSUME NEW o \in Object, ElemsSound(o.bytes.elems),
         o.bytes.tok = Constructed(o.bytes.elems).tok,
         o.inf => EndsWithEoc(o.bytes.elems)
  PROVE  LET k == KeptElems(o)
             f == FlattenSeq(EachTokens(k))
         IN  /\ f \in Seq(Token)
             /\ ~o.inf => o.bytes.tok = f
             /\ o.inf => /\ \E b \in Seq(Token) : Len(b) = 2 /\ o.bytes.tok = f \o b
                         /\ \A i \in DOMAIN k : ~IsEocHeader(k[i].id)
<1> DEFINE e == o.bytes.elems
           k == KeptElems(o)
           f == FlattenSeq(EachTokens(k))
<1>1. /\ e \in Seq(Elem) /\ k \in Seq(Elem)
      /\ Len(k) = IF o.inf /\ e # << >> THEN Len(e) - 1 ELSE Len(e)
      /\ \A i \in 1..Len(k) : k[i] = e[i]
      /\ ~o.inf => k = e BY KeptFacts
<1>2. o.bytes.tok = FlattenSeq(EachTokens(e)) BY DEF Constructed, EachTokens
<1>3. o.inf => EndsWithEoc(e) OBVIOUS
<1> HIDE DEF e, k
<1>4. /\ f \in Seq(Token) /\ EachTokens(k) \in Seq(Seq(Token)) /\ EachTokens(e) \in Seq(Seq(Token))
      /\ Len(EachTokens(k)) = Len(k) /\ Len(EachTokens(e)) = Len(e) BY <1>1, TokensType
<1>5. ASSUME o.inf
      PROVE  /\ \E b \in Seq(Token) : Len(b) = 2 /\ o.bytes.tok = f \o b
             /\ \A i \in DOMAIN k : ~IsEocHeader(k[i].id)
  <2>1. /\ e # << >> /\ e[Len(e)].oct = << >>
        /\ \A i \in DOMAIN e : IsEocHeader(e[i].id) <=> i = Len(e) BY <1>3, <1>5 DEF EndsWithEoc
  <2>2. Len(e) \in 1..Len(e) /\ e[Len(e)] \in Elem /\ Len(k) = Len(e) - 1 /\ Len(k) \in Nat
    BY <1>1, <1>5, <2>1
  <2> DEFINE b == ElemTokens(e[Len(e)])
             x == EachTokens(k)
             y == EachTokens(e)
  <2>3. b \in Seq(Token) /\ Len(b) = 2 BY <1>1, <2>1, <2>2, ElemTokensType
  <2>4. /\ x \in Seq(Seq(Token)) /\ y \in Seq(Seq(Token)) /\ Len(y) = Len(x) + 1
        /\ y[Len(x) + 1] = b
        /\ \A i \in 1..Len(x) : y[i] = x[i] BY <1>1, <1>4, <2>2 DEF EachTokens
  <2> HIDE DEF b, x, y
  <2>5. y = Append(x, b) BY <2>3, <2>4
  <2>6. FlattenSeq(y) = FlattenSeq(x) \o b BY <2>3, <2>4, <2>5, FlattenAppend
  <2>7. \E c \in Seq(Token) : Len(c) = 2 /\ o.bytes.tok = f \o c BY <1>2, <2>3, <2>6 DEF x, y
  <2>8. \A i \in DOMAIN k : ~IsEocHeader(k[i].id) BY <1>1, <2>1, <2>2
  <2> QED BY <2>7, <2>8
<1>6. ~o.inf => o.bytes.tok = f BY <1>1, <1>2
<1> QED BY <1>4, <1>5, <1>6 DEF k

\* The objects of the elements were parsed from the octets of the elements.
LEMMA ReadElements ==
  ASSUME IInv, NodesInv, NEW o, o = obj[Root], NEW k, k = KeptElems(o),
         ~o.decoded, o.cons, CanDecode(o), GetValue(Root)
  PROVE  LET ids == ElementIds(k)
         IN  /\ DOMAIN ids = 1..Len(k)
             /\ \A i \in 1..Len(k) : ids[i] # NilElem =>
                  hist'[ids[i]].src = ElemTokens(k[i])
<1>0. PICK w, ids : w = Whole(k) /\ ids = ElementIds(k) OBVIOUS
<1>1. /\ o \in Object /\ ElemsSound(o.bytes.elems) /\ count \in Nat /\ MaxElems \in Nat
      /\ NodesOK
  <2>1. BytesInv(o) /\ o \in Object /\ NodesOK BY NodesFind DEF ObjInv
  <2> QED BY <2>1, NodeFacts DEF BytesInv, NodesOK
<1>2. /\ k \in Seq(Elem) /\ w \in Seq(Elem)
      /\ \A i \in 1..Len(k) : ~IsShort(k[i]) => i \in 1..Len(w) /\ w[i] = k[i]
  BY <1>0, <1>1, KeptFacts
<1>3. NewElems(o) = w BY <1>0 DEF NewElems
<1>4. /\ count + Len(w) <= MaxElems
      /\ \A m \in Node : m # Root /\ m \in (count + 1)..(count + Len(w)) =>
           hist'[m] = NewHist(ElemTokens(w[m - count])) BY <1>3 DEF GetValue, Store, StoreHist
<1>5. DOMAIN ids = 1..Len(k)
      /\ \A i \in 1..Len(k) : ids[i] = IF IsShort(k[i]) THEN NilElem ELSE count + i
  BY <1>0, <1>2 DEF ElementIds
<1>6. ASSUME NEW i \in 1..Len(k), ids[i] # NilElem
      PROVE  hist'[ids[i]].src = ElemTokens(k[i])
  <2>1. ids[i] = count + i /\ ~IsShort(k[i]) /\ i \in 1..Len(w) /\ w[i] = k[i]
    BY <1>2, <1>5, <1>6
  <2>2. Len(w) \in Nat /\ count + i \in Node /\ count + i # Root /\ (count + i) - count = i
        /\ count + i \in (count + 1)..(count + Len(w)) BY <1>1, <1>2, <1>4, <2>1 DEF Node, Root
  <2>3. hist'[count + i] = NewHist(ElemTokens(w[(count + i) - count])) BY <1>4, <2>2
  <2> QED BY <2>1, <2>2, <2>3 DEF NewHist
<1> QED BY <1>0, <1>5, <1>6

\* Reading the value of an untouched root makes objects of its elements that
\* were parsed from its octets, all of them.
LEMMA ReadSources ==
  ASSUME IInv, NodesInv, NEW o, o = obj[Root], NEW k, k = KeptElems(o), NEW ids, ids = ElementIds(k),
         NEW src, src = hist[Root].src,
         ~o.decoded, o.cons, CanDecode(o), GetValue(Root),
         src # << >>, ~hist[Root].touched, ~hist[Root].lost
  PROVE  ElementSources(o.inf, ids, src)'
<1>0. PICK inf, f : inf = o.inf /\ f = FlattenSeq(EachTokens(k)) OBVIOUS
<1>1. /\ o \in Object /\ ElemsSound(o.bytes.elems)
      /\ o.bytes.tok = Constructed(o.bytes.elems).tok
      /\ src \in Seq(Token) /\ Len(src) >= 2 /\ SubSeq(src, 3, Len(src)) = o.bytes.tok
      /\ inf => EndsWithEoc(o.bytes.elems)
  <2>1. BytesInv(o) /\ ContentInv(o) /\ SourceInv(o, hist[Root]) /\ o \in Object /\ hist[Root] \in HistType
    BY NodesFind DEF ObjInv, NodeInv
  <2> QED BY <1>0, <2>1 DEF BytesInv, ContentInv, SourceInv, HistType
<1>2. /\ DOMAIN ids = 1..Len(k)
      /\ \A i \in 1..Len(k) : ids[i] # NilElem => hist'[ids[i]].src = ElemTokens(k[i])
  BY ReadElements
<1>3. k \in Seq(Elem) /\ DOMAIN k = 1..Len(k) BY <1>1, KeptFacts
<1>4. /\ f \in Seq(Token)
      /\ ~inf => o.bytes.tok = f
      /\ inf => /\ \E b \in Seq(Token) : Len(b) = 2 /\ o.bytes.tok = f \o b
                /\ \A i \in DOMAIN k : ~IsEocHeader(k[i].id) BY <1>0, <1>1, ElementsJoined
<1>5. \A i \in 1..Len(k) : ElemTokens(k[i]) # << >> /\ ElemTokens(k[i])[1] = k[i].id
  BY <1>3, ElemTokensType
<1>6. \A i \in DOMAIN ids : ids[i] # NilElem =>
        /\ hist'[ids[i]].src # << >>
        /\ inf => ~IsEocHeader(hist'[ids[i]].src[1]) BY <1>2, <1>3, <1>4, <1>5
<1>7. ASSUME ~HasNil(ids)
      PROVE  Sources(ids)' = EachTokens(k)
  <2>1. \A i \in 1..Len(k) : hist'[ids[i]].src = ElemTokens(k[i]) BY <1>2, <1>7 DEF HasNil
  <2> QED BY <1>2, <1>3, <2>1 DEF Sources, EachTokens
<1>8. inf => /\ Len(src) >= 4
             /\ SubSeq(src, 3, Len(src)) = f \o SubSeq(src, Len(src) - 1, Len(src))
  <2>1. SUFFICES ASSUME inf
                 PROVE  /\ Len(src) >= 4
                        /\ SubSeq(src, 3, Len(src)) = f \o SubSeq(src, Len(src) - 1, Len(src))
    OBVIOUS
  <2>2. PICK b \in Seq(Token) : Len(b) = 2 /\ o.bytes.tok = f \o b BY <1>4, <2>1
  <2>3. SubSeq(src, 3, Len(src)) = f \o b BY <1>1, <2>2
  <2>4. Len(src) >= 4 /\ SubSeq(src, Len(src) - 1, Len(src)) = b
    BY <1>1, <1>4, <2>2, <2>3, LastTwo
  <2> QED BY <2>3, <2>4
<1>9. ~inf => SubSeq(src, 3, Len(src)) = f BY <1>1, <1>4
<1>10. ElementSources(inf, ids, src)' BY <1>0, <1>6, <1>7, <1>8, <1>9 DEF ElementSources, HasNil
<1> QED BY <1>0, <1>10

\* What reading the value leaves of the root.
LEMMA ReadRoot ==
  ASSUME IInv, NodesInv, NEW n \in Live, GetValue(n)
  PROVE  /\ obj'[n] = AfterDecode(obj[n])
         /\ \A m \in Live : m # n => obj'[m] = obj[m] /\ hist'[m] = hist[m]
         /\ hist'[n] = [hist[n] EXCEPT !.lost = @ \/ LosesValue(obj[n])]
         /\ Live \subseteq Live'
<1> DEFINE h == [hist[n] EXCEPT !.lost = @ \/ LosesValue(obj[n])]
<1>1. NodesOK /\ BytesInv(obj[n]) /\ obj[n] \in Object BY NodesFind DEF ObjInv
<1>2. /\ Store(n, AfterDecode(obj[n]), NewElems(obj[n]))
      /\ StoreHist(hist, n, h, NewElems(obj[n])) BY DEF GetValue
<1> HIDE DEF h
<1>3. NewElems(obj[n]) \in Seq(Elem) BY <1>1, NewElemsSound
<1>4. /\ obj'[n] = AfterDecode(obj[n]) /\ \A m \in Live : m # n => obj'[m] = obj[m]
      /\ Live \subseteq Live' BY <1>1, <1>2, <1>3, StoredObjects
<1>5. hist'[n] = h /\ \A m \in Live : m # n => hist'[m] = hist[m]
  BY <1>1, <1>2, <1>3, StoredHistories
<1> QED BY <1>4, <1>5 DEF h

\* Reading a value keeps ElementsInv.
LEMMA GetValueElementsInv ==
  ASSUME IInv, NodesInv, ElementsInv, NEW n \in Live, GetValue(n)
  PROVE  ElementsInv'
<1>0. PICK o, h, q, g : o = obj[Root] /\ h = hist[Root] /\ q = obj'[Root] /\ g = hist'[Root]
  OBVIOUS
<1>1. Root \in Live /\ o \in Object /\ h \in HistType /\ \A m \in Live : hist[m] \in HistType
  BY <1>0, NodesFind
<1>2. \A m \in Live : hist'[m].src = hist[m].src BY <1>1, ReadRoot DEF HistType
<1>3. CASE n # Root BY <1>1, <1>2, <1>3, ReadRoot, ElementsStay
<1>4. CASE n = Root
  <2>1. q = AfterDecode(o) /\ g = [h EXCEPT !.lost = @ \/ LosesValue(o)] BY <1>0, <1>4, ReadRoot
  <2>2. g.touched = h.touched /\ g.src = h.src /\ (~g.lost => ~h.lost) BY <1>1, <2>1 DEF HistType
  <2>3. CASE ~o.decoded /\ o.cons /\ CanDecode(o)
    <3>1. PICK k, ids : k = KeptElems(o) /\ ids = ElementIds(k) OBVIOUS
    <3>2. q.at_value = Ary(ids) /\ q.inf = o.inf
      BY <1>1, <2>1, <2>3, <3>1 DEF AfterDecode, FreeBytes, Object
    <3>3. q.at_value.ids = ids BY <3>2 DEF Ary
    <3>4. ASSUME g.src # << >>, ~g.touched, ~g.lost
          PROVE  ElementSources(q.inf, q.at_value.ids, g.src)'
      <4>0. PICK src : src = h.src OBVIOUS
      <4>1. src # << >> /\ ~h.touched /\ ~h.lost BY <2>2, <3>4, <4>0
      <4>2. ElementSources(o.inf, ids, src)' BY <1>0, <1>4, <2>3, <3>1, <4>0, <4>1, ReadSources
      <4> QED BY <2>2, <3>2, <3>3, <4>0, <4>2
    <3> QED BY <1>0, <3>4, ElementsAre
  <2>4. CASE ~(~o.decoded /\ o.cons /\ CanDecode(o))
    <3>1. q.decoded /\ q.cons => o.decoded /\ q = o
      BY <1>1, <2>1, <2>4 DEF AfterDecode, FreeBytes, Object
    <3>2. h.src # << >> /\ ~g.touched /\ ~g.lost /\ q.decoded /\ q.cons =>
            /\ o.decoded /\ o.cons /\ q.inf = o.inf /\ q.at_value.ids = o.at_value.ids BY <3>1
    <3> QED BY <1>0, <1>2, <2>2, <3>2, ElementsStay
  <2> QED BY <2>3, <2>4
<1> QED BY <1>3, <1>4

\* Every step keeps ElementsInv.
LEMMA ElementsStep ==
  ASSUME IInv, NodesInv, LoopInv, ElementsInv, [Next]_vars
  PROVE  ElementsInv'
<1>1. CASE UNCHANGED vars BY <1>1 DEF vars, ElementsInv, DecodedElementsComplete, HasNil
<1>2. CASE Next
  <2>1. ASSUME NEW a \in ElemNews, New(a)
        PROVE  ElementsInv'
    BY <2>1, NewElementsInv
  <2>2. ASSUME NEW n \in Live, GetValue(n)
        PROVE  ElementsInv'
    BY <2>2, GetValueElementsInv
  <2>3. ASSUME NEW n \in Live, SetterEffect(n)
        PROVE  ElementsInv'
    BY <2>3, SetterElementsInv
  <2>4. ASSUME NEW n \in Live,
               \/ \E t \in NewTags : SetTag(n, t)
               \/ \E sym \in TagClassSymbol : SetTagClass(n, sym)
               \/ SetInfiniteLength(n)
               \/ \E bits \in NewBits : SetUnusedBits(n, bits)
               \/ \E v \in NewValues : SetValue(n, v)
        PROVE  SetterEffect(n)
    BY <2>4, SetTagEffect, SetTagClassEffect, SetInfiniteLengthEffect, SetUnusedBitsEffect,
      SetValueEffect
  <2>5. ASSUME NEW v \in Arrays, SetValue(Root, v)
        PROVE  SetterEffect(Root) /\ Root \in Live
    BY <2>5, SetValueEffect, NodesFind
  <2>6. ASSUME NEW n \in Live, ToDerBegin(n)
        PROVE  ElementsInv'
    BY <2>6, BeginElementsInv
  <2>7. ASSUME EncoderStep
        PROVE  ElementsInv'
    BY <2>7, EncoderElementsInv
  <2> QED BY <1>2, <2>1, <2>2, <2>3, <2>4, <2>5, <2>6, <2>7 DEF Next, EncoderStep
<1> QED BY <1>1, <1>2

-----------------------------------------------------------------------------
(* The order of a SET.                                                     *)

\* What a setter other than unused_bits= leaves of its object.
SetAs(q, o, n) ==
  \/ Retag(q, o) /\ hist'[n] = Touched(n)
  \/ q.length_bytes = << >> /\ q.modified = TRUE
  \/ hist'[n].retag /\ q.at_value.kind # "ary"

\* What tag= leaves of its object.
LEMMA SetTagAs ==
  ASSUME IInv, NodesInv, NEW n \in Live, NEW t \in NewTags, SetTag(n, t)
  PROVE  SetAs(obj'[n], obj[n], n)
<1>0. PICK o, p, q : /\ o = obj[n] /\ p = [int_invalidate_tag(obj[n]) EXCEPT !.tag = t]
                     /\ q = [int_asn1_data_update_cb([int_invalidate_tag(obj[n]) EXCEPT !.tag = t])
                               EXCEPT !.modified = TRUE, !.at_tag = t] OBVIOUS
<1>1. obj' = [obj EXCEPT ![n] = q] /\ hist' = [StaleAfter(n) EXCEPT ![n] = Touched(n)]
      /\ count' = count BY <1>0 DEF SetTag
<1>2. Touched(n).touched /\ Touched(n).src = hist[n].src BY SetterNode DEF TouchedAs
<1>3. obj'[n] = q /\ hist'[n] = Touched(n) BY <1>1, <1>2, SetterStored
<1>4. t \in Tags /\ o \in Object /\ (o.explicit => o.tag_class = "CONTEXT_SPECIFIC")
  BY <1>0, ConstantsAssumption, SetterNode DEF NodeInv, HeaderInv
<1>5. /\ p \in Object /\ p.tag_bytes = << >>
      /\ p.tag_class = o.tag_class /\ p.cons = o.cons /\ p.inf = o.inf
      /\ p.length_bytes = o.length_bytes /\ p.bytes = o.bytes
      /\ p.default_tag = o.default_tag /\ p.explicit = o.explicit
      /\ p.at_value = o.at_value /\ p.at_unused_bits = o.at_unused_bits
      /\ p.cb = o.cb /\ p.decoded = o.decoded /\ p.codec = o.codec
  BY <1>0, <1>4, EmptyAndSingle DEF int_invalidate_tag, Object
<1>6. int_codec_for(p.tag, p.tag_class) \in Codec BY <1>5, CodecType
<1>7. q = [int_asn1_data_update_cb(p) EXCEPT !.modified = TRUE, !.at_tag = t] BY <1>0
<1>8. /\ q.tag_bytes = << >> /\ q.modified = TRUE
      /\ q.tag_class = o.tag_class /\ q.cons = o.cons /\ q.inf = o.inf
      /\ q.length_bytes = o.length_bytes /\ q.bytes = o.bytes
      /\ q.default_tag = o.default_tag /\ q.explicit = o.explicit
      /\ q.at_value = o.at_value /\ q.at_unused_bits = o.at_unused_bits
      /\ q.cb = o.cb /\ q.decoded = o.decoded /\ (~o.cb => q.codec = o.codec)
  BY <1>5, <1>6, <1>7 DEF int_asn1_data_update_cb, Object
<1> QED BY <1>0, <1>3, <1>4, <1>8 DEF SetAs, Retag

\* What infinite_length= leaves of its object.
LEMMA SetInfiniteLengthAs ==
  ASSUME IInv, NodesInv, NEW n \in Live, SetInfiniteLength(n)
  PROVE  SetAs(obj'[n], obj[n], n)
<1>0. PICK q : q = [int_invalidate_length(obj[n]) EXCEPT
                      !.inf = ~obj[n].inf, !.modified = TRUE, !.at_inf = ~obj[n].inf] OBVIOUS
<1>1. obj' = [obj EXCEPT ![n] = q] BY <1>0 DEF SetInfiniteLength
<1>2. obj'[n] = q /\ obj[n] \in Object BY <1>1, EncoderFinds, SetterNode
<1>3. q.length_bytes = << >> /\ q.modified = TRUE
  BY <1>0, <1>2, EmptyAndSingle DEF int_invalidate_length, Object
<1> QED BY <1>2, <1>3 DEF SetAs

\* What value= leaves of its object.
LEMMA SetValueAs ==
  ASSUME IInv, NodesInv, NEW n \in Live, NEW v \in Value, SetValue(n, v)
  PROVE  SetAs(obj'[n], obj[n], n)
<1>1. PICK isAry, p : isAry = (v.kind = "ary")
        /\ p = [int_invalidate_value(obj[n]) EXCEPT !.at_value = v, !.modified = TRUE] OBVIOUS
<1>2. PICK r : r = [int_invalidate_tag(p) EXCEPT
                     !.cons = isAry, !.codec = int_codec_for(p.tag, p.tag_class)] OBVIOUS
<1>3. PICK q : q = IF p.cons = isAry THEN p ELSE r OBVIOUS
<1>4. obj' = [obj EXCEPT ![n] = q] BY <1>3, <1>1, <1>2 DEF SetValue
<1>5. obj'[n] = q /\ obj[n] \in Object BY <1>4, EncoderFinds, SetterNode
<1>6. NoBytes \in Bytes BY EmptyAndSingle DEF NoBytes, Bytes
<1>7. p \in Object /\ p.length_bytes = << >> /\ p.modified = TRUE
  BY <1>1, <1>5, <1>6, EmptyAndSingle DEF int_invalidate_value, int_invalidate_length, Object
<1>8. r.length_bytes = << >> /\ r.modified = TRUE BY <1>2, <1>7 DEF int_invalidate_tag, Object
<1> QED BY <1>3, <1>5, <1>7, <1>8 DEF SetAs

\* What tag_class= leaves of its object.
LEMMA SetTagClassAs ==
  ASSUME IInv, NodesInv, NEW n \in Live, NEW sym \in TagClassSymbol, SetTagClass(n, sym)
  PROVE  SetAs(obj'[n], obj[n], n)
<1>0. PICK o, r, q, x : o = obj[n] /\ r = Reclassed(obj[n], sym) /\ q = obj'[n]
                        /\ x = AfterDecode(r) OBVIOUS
<1>1. \/ ~TogglesExplicit(o, sym) /\ q = ClassDone(r, sym) /\ hist'[n] = Touched(n)
      \/ DecodeOk(r) /\ q = ClassDone(int_invalidate_value(x), sym)
      \/ ~DecodeOk(r) /\ q = x /\ hist'[n].retag BY <1>0, SetTagClassEffect DEF DecodedDone
<1>2. /\ o \in Object /\ CodecInv(o) /\ ArrayInv(o) /\ BytesInv(o)
      /\ o.at_value.ids \in Seq(ElementId) /\ count \in Nat /\ ContentInv(o)
  BY <1>0, SetterNode DEF ObjInv, NodeInv
<1>3. /\ r \in Object /\ r.tag_bytes = << >>
      /\ r.tag_class = tag_class_for_id(sym) /\ r.explicit = (sym = "EXPLICIT")
      /\ r.cons = o.cons /\ r.inf = o.inf
      /\ r.length_bytes = o.length_bytes /\ r.bytes = o.bytes
      /\ r.default_tag = o.default_tag /\ r.at_value = o.at_value
      /\ r.at_unused_bits = o.at_unused_bits
      /\ r.cb = o.cb /\ r.decoded = o.decoded /\ (~o.cb => r.codec = o.codec)
  BY <1>0, <1>2, RetaggedFields, ReclassedMore
<1>4. CodecInv(r) /\ ArrayInv(r) /\ BytesInv(r) /\ r.at_value.ids \in Seq(ElementId)
  BY <1>2, <1>3 DEF CodecInv, ArrayInv, BytesInv
<1>5. x \in Object BY <1>0, <1>2, <1>3, <1>4, DecodeInv DEF DecodedOnly
<1>6. CASE ~TogglesExplicit(o, sym) /\ q = ClassDone(r, sym) /\ hist'[n] = Touched(n)
  <2>1. o.explicit = (sym = "EXPLICIT") BY <1>6 DEF TogglesExplicit
  <2>2. /\ q.tag_bytes = << >> /\ q.modified = TRUE
        /\ q.tag_class = tag_class_for_id(sym) /\ q.explicit = o.explicit
        /\ q.cons = o.cons /\ q.inf = o.inf
        /\ q.length_bytes = o.length_bytes /\ q.bytes = o.bytes
        /\ q.default_tag = o.default_tag /\ q.at_value = o.at_value
        /\ q.at_unused_bits = o.at_unused_bits
        /\ q.cb = o.cb /\ q.decoded = o.decoded /\ (~o.cb => q.codec = o.codec)
    BY <1>3, <1>6, <2>1 DEF Object, ClassDone
  <2>3. q.explicit => q.tag_class = "CONTEXT_SPECIFIC" BY <2>1, <2>2 DEF tag_class_for_id
  <2> QED BY <1>0, <1>6, <2>2, <2>3 DEF SetAs, Retag
<1>7. CASE q = ClassDone(int_invalidate_value(x), sym)
  <2>1. NoBytes \in Bytes BY EmptyAndSingle DEF NoBytes, Bytes
  <2>2. int_invalidate_value(x) \in Object /\ int_invalidate_value(x).length_bytes = << >>
    BY <1>5, <2>1, EmptyAndSingle DEF int_invalidate_value, int_invalidate_length, Object
  <2>3. q.length_bytes = << >> /\ q.modified = TRUE BY <1>7, <2>2 DEF ClassDone, Object
  <2> QED BY <1>0, <2>3 DEF SetAs
<1>8. CASE ~DecodeOk(r) /\ q = x /\ hist'[n].retag
  <2>1. ~r.decoded /\ ~CanDecode(r) BY <1>8 DEF DecodeOk
  <2>2. x.at_value = r.at_value BY <1>0, <1>3, <2>1 DEF AfterDecode, FreeBytes, Object
  <2>3. o.at_value.kind # "ary"
    <3>1. SUFFICES ASSUME o.at_value.kind = "ary"
                   PROVE  FALSE
      OBVIOUS
    <3>2. r.cons /\ r.bytes.elems = << >> BY <1>2, <1>3, <3>1 DEF ArrayInv, ContentInv
    <3> QED BY <2>1, <3>2 DEF CanDecode
  <2> QED BY <1>0, <1>3, <1>8, <2>2, <2>3 DEF SetAs
<1> QED BY <1>1, <1>6, <1>7, <1>8

\* Reading the value of an element does not change what it encodes to.
LEMMA DecodeAlike ==
  ASSUME NEW o, NEW h \in HistType, Sound(o), ObjInv(o, h), NodeInv(o, h), ElementInv(o, h),
         count \in Nat, o.at_value.ids \in Seq(ElementId),
         ~h.retag, o.decoded \/ o.length_bytes # << >>
  PROVE  LET q == AfterDecode(o)
         IN  Sound(q) /\ Alike(q, o) /\ q.length_bytes = o.length_bytes
<1>0. PICK q : q = AfterDecode(o) OBVIOUS
<1>1. /\ o \in Object /\ CodecInv(o) /\ ArrayInv(o) /\ BytesInv(o)
      /\ (o.explicit => o.default_tag # -1) BY DEF ObjInv, Sound
<1>2. DecodedOnly(q, o) /\ Sound(q)
  <2>1. DecodedOnly(q, o) BY <1>0, <1>1, DecodeInv
  <2> QED BY <1>1, <2>1 DEF DecodedOnly, Sound
<1>3. CASE q = o BY <1>0, <1>2, <1>3 DEF Alike
<1>4. CASE ~o.decoded /\ CanDecode(o)
  <2>1. ~o.cons /\ o.length_bytes # << >> /\ ~o.explicit
    BY <1>4 DEF ElementInv, NodeInv, HistoryInv
  <2>2. PICK v, b : v = decoder(o.codec, o.bytes.tok)
                    /\ b = decoder_bits(o.codec, o.bytes.tok, o.at_unused_bits) OBVIOUS
  <2>3. q = [o EXCEPT !.at_value = v, !.at_unused_bits = b, !.decoded = TRUE]
    BY <1>0, <1>4, <2>1, <2>2 DEF AfterDecode
  <2>4. /\ q.tag = o.tag /\ q.tag_class = o.tag_class /\ q.cons = o.cons /\ q.inf = o.inf
        /\ q.tag_bytes = o.tag_bytes /\ q.length_bytes = o.length_bytes
        /\ q.explicit = o.explicit /\ q.codec = o.codec /\ q.bytes = o.bytes
        /\ q.at_value = v /\ q.at_unused_bits = b /\ q.cb = o.cb BY <1>1, <2>3 DEF Object
  <2>5. ScalarCons(q) = ScalarCons(o) BY <2>4 DEF ScalarCons
  <2>6. /\ TagFor(q, ScalarCons(q)) = TagFor(o, ScalarCons(o))
        /\ LengthFor(q, ScalarLength(q)) = LengthFor(o, ScalarLength(o))
    BY <2>1, <2>4, <2>5 DEF TagFor, LengthFor
  <2>7. CASE ~o.bytes.null
    <3>1. ScalarOk(q) /\ ScalarOk(o) /\ ScalarContent(q) = ScalarContent(o)
      BY <2>4, <2>7 DEF ScalarOk, ScalarContent
    <3> QED BY <1>0, <1>2, <2>4, <2>6, <3>1, AlikeBy
  <2>8. CASE o.bytes.null
    <3>1. o.bytes.tok = << >> /\ ~h.flip BY <2>1, <2>8 DEF ObjInv, BytesInv, NodeInv, HistoryInv
    <3>2. EncodesToNothing(o) BY <2>1, <2>8, <3>1 DEF ObjInv, LengthInv
    <3>3. o.at_value.kind = "nil" \/ validator(o.codec, o.at_value)
      BY <1>4, <2>1, <2>8 DEF NodeInv, ContentInv
    <3>4. o.codec \in {"eoc", "default"} /\ ~o.cb
      BY <1>1, <1>4, <2>1, <3>1 DEF CanDecode, decodable, Object, Codec, CodecInv
    <3>5. /\ validator(o.codec, o.at_value) /\ validator(o.codec, v)
          /\ encoder(o.codec, o.at_unused_bits, o.at_value).tok = << >>
          /\ encoder(o.codec, b, v).tok = << >>
      <4>1. << >> \in Seq(Octet) /\ SubSeq(<< >>, 2, Len(<< >>)) = << >> OBVIOUS
      <4>2. CASE o.codec = "eoc"
        BY <2>2, <3>2, <3>3, <3>4, <4>2 DEF EncodesToNothing, validator, decoder, encoder, NilValue, NoBytes
      <4>3. CASE o.codec = "default" BY <2>2, <3>1, <3>2, <3>3, <3>4, <4>3
        DEF EncodesToNothing, validator, decoder, encoder, Str, NoBytes, Primitive
      <4> QED BY <3>4, <4>2, <4>3
    <3>6. /\ ScalarContent(q) = << >> /\ ScalarContent(o) = << >>
      BY <2>1, <2>4, <2>8, <3>5 DEF ScalarContent, EncodedValue
    <3>7. ScalarOk(q) = ScalarOk(o)
      BY <2>1, <2>4, <2>8, <3>4, <3>5 DEF ScalarOk, PrimOk, PrimValid, bits_encodable
    <3> QED BY <1>0, <1>2, <2>4, <2>6, <3>6, <3>7, AlikeBy
  <2> QED BY <2>7, <2>8
<1>5. CASE ~o.decoded /\ ~CanDecode(o)
  <2>1. ~o.cons BY <1>5 DEF ElementInv
  <2>2. q = o BY <1>0, <1>5, <2>1 DEF AfterDecode
  <2> QED BY <1>3, <2>2
<1>6. CASE o.decoded
  <2>1. q = o BY <1>0, <1>6 DEF AfterDecode
  <2> QED BY <1>3, <2>1
<1> QED BY <1>4, <1>5, <1>6

\* The root holds an Array that is in order although it is not marked
\* modified.
Ordered(o, h, ids) ==
  /\ o.bytes.null /\ o.at_value.kind = "ary" /\ o.at_value.ids = ids
  /\ UniversalSet(o) /\ ~o.modified
  /\ h.src = << >> \/ h.touched
  /\ \A i \in DOMAIN ids : ids[i] # NilElem

\* How SortedInv is shown of the next state.
LEMMA SortedIs ==
  ASSUME NEW q, NEW g, NEW ids, q = obj'[Root], g = hist'[Root], ids = q.at_value.ids,
         Ordered(q, g, ids) /\ AllUntouched(ids)' => InOrder(ids)'
  PROVE  SortedInv'
  BY DEF SortedInv, Ordered, HasNil, AllUntouched

\* What SortedInv says of the root.
LEMMA SortedWas ==
  ASSUME SortedInv, NEW ids, Ordered(obj[Root], hist[Root], ids), AllUntouched(ids)
  PROVE  InOrder(ids)
  BY DEF SortedInv, Ordered, HasNil

\* SortedInv stays when the elements encode as before and the root keeps them.
LEMMA SortedStays ==
  ASSUME IInv, NodesInv, SortedInv,
         NEW o, NEW h, NEW q, NEW g, NEW ids,
         o = obj[Root], h = hist[Root], q = obj'[Root], g = hist'[Root], ids = q.at_value.ids,
         Ordered(q, g, ids) /\ AllUntouched(ids)' =>
           /\ o.at_value.ids = ids
           /\ \A i \in DOMAIN ids : ids[i] \in Node \ {Root} => hist'[ids[i]] = hist[ids[i]]
           /\ AlikeElems(ids)
           /\ Ordered(o, h, ids) \/ InOrder(ids)
  PROVE  SortedInv'
<1>1. ASSUME Ordered(q, g, ids), AllUntouched(ids)'
      PROVE  InOrder(ids)'
  <2>1. /\ o.at_value.ids = ids
        /\ \A i \in DOMAIN ids : ids[i] \in Node \ {Root} => hist'[ids[i]] = hist[ids[i]]
        /\ AlikeElems(ids)
        /\ Ordered(o, h, ids) \/ InOrder(ids) BY <1>1
  <2>2. \A i \in DOMAIN ids : ids[i] # NilElem BY <1>1 DEF Ordered
  <2>3. AllUntouched(ids) BY <1>1, <2>1, <2>2, ElementsApart, NodesFind DEF AllUntouched
  <2>4. InOrder(ids) BY <2>1, <2>3, SortedWas
  <2> QED BY <2>1, <2>2, <2>4, ElementsAlike DEF HasNil
<1> QED BY <1>1, SortedIs

\* A step of the encoder that does not sort keeps SortedInv.
LEMMA EncoderSorted ==
  ASSUME IInv, NodesInv, LoopInv, SortedInv, EncoderStep
  PROVE  SortedInv'
<1>0. PICK o, h, q, ids : o = obj[Root] /\ h = hist[Root] /\ q = obj'[Root]
                          /\ ids = obj'[Root].at_value.ids OBVIOUS
<1>1. hist' = hist /\ (\A m \in Node \ {Root} : hist[m].retag \/ Firm(m)) /\ KeptRoot(q, o)
  BY <1>0, EncoderEffects DEF EncoderEffect
<1>2. ASSUME Ordered(q, h, ids), AllUntouched(ids)'
      PROVE  /\ o.at_value.ids = ids /\ AlikeElems(ids)
             /\ Ordered(o, h, ids) \/ InOrder(ids)
  <2>1. /\ q.at_value = o.at_value /\ UniversalSet(o) /\ o.explicit = q.explicit
        /\ o.bytes.null /\ o.at_value.kind = "ary" /\ o.at_value.ids = ids
        /\ \A i \in DOMAIN ids : ids[i] # NilElem
    BY <1>0, <1>1, <1>2 DEF KeptRoot, SameIdentity, Ordered, UniversalSet
  <2>2. \A i \in DOMAIN ids : ids[i] \in Node \ {Root} BY <1>0, <2>1, ElementsApart, NodesFind
  <2>3. \A m \in Node \ {Root} : hist[m].touched \/ ~hist[m].retag
    BY NodesFind DEF NodeInv, HistoryInv
  <2>4. AlikeElems(ids)
    <3>1. \A i \in DOMAIN ids : ~hist[ids[i]].touched BY <1>1, <1>2 DEF AllUntouched
    <3> QED BY <1>1, <2>2, <2>3, <3>1 DEF AlikeElems, Firm
  <2>5. CASE ~o.modified
    <3>1. h.src = << >> \/ h.touched BY <1>2 DEF Ordered
    <3>2. Ordered(o, h, ids) BY <2>1, <2>5, <3>1 DEF Ordered
    <3> QED BY <2>1, <2>4, <3>2
  <2>6. CASE o.modified
    <3>1. call.active /\ call.n = Root BY <1>1, <1>2, <2>1, <2>6 DEF KeptRoot, Ordered
    <3>2. ~o.explicit BY <1>0, <2>1, NodesFind DEF NodeInv, HeaderInv, UniversalSet
    <3>3. o.at_value = Ary(call.ids) /\ (SortsElements(Holder(o)) => InOrder(call.ids))
      BY <1>0, <3>1 DEF LoopInv
    <3>4. call.ids = ids BY <2>1, <3>3 DEF Ary
    <3>5. SortsElements(Holder(o)) BY <2>1, <2>6, <3>2 DEF SortsElements, Holder, UniversalSet
    <3> QED BY <2>1, <2>4, <3>3, <3>4, <3>5
  <2> QED BY <2>1, <2>4, <2>5, <2>6
<1> QED BY <1>0, <1>1, <1>2, SortedStays

\* The beginning of the encoding of an Array keeps SortedInv: sort! puts it in
\* order.
LEMMA BeginSorted ==
  ASSUME IInv, NodesInv, SortedInv, NEW n \in Live, ToDerBegin(n)
  PROVE  SortedInv'
<1>0. PICK o, h, q, ids : o = obj[Root] /\ h = hist[Root] /\ q = obj'[Root]
                          /\ ids = obj'[Root].at_value.ids OBVIOUS
<1>1. PICK order :
        /\ order \in Seq(ElementId) /\ Len(order) = Len(obj[n].at_value.ids)
        /\ obj' = [m \in Node |-> IF m = n THEN int_cons_sort_set(HeaderFirst(Outer(obj[n])), order)
                                  ELSE obj[m]]
        /\ \/ order = obj[n].at_value.ids
           \/ /\ order \in SortedOrders(obj[n].at_value.ids)
              /\ SortsElements(Holder(obj[n])) BY BeginFacts
<1>2. hist' = hist /\ obj[n].bytes.null /\ obj[n].at_value.kind = "ary" BY BeginFacts
<1>3. Root \in Node /\ n \in Node BY NodesFind
<1>4. ASSUME Ordered(q, h, ids), AllUntouched(ids)'
      PROVE  o.at_value.ids = ids /\ Ordered(o, h, ids)
  <2>1. CASE n # Root BY <1>0, <1>1, <1>3, <1>4, <2>1 DEF Ordered
  <2>2. CASE n = Root
    <3>1. PICK x : x = HeaderFirst(Outer(obj[n])) OBVIOUS
    <3>2. x \in Object /\ SameIdentity(x, o) /\ x.modified = o.modified
      BY <1>0, <2>2, <3>1, <1>2, BegunObject
    <3>3. q = int_cons_sort_set(x, order) BY <1>0, <1>1, <1>3, <2>2, <3>1
    <3>4. q.at_value = Ary(order) /\ SameHolder(q, o) /\ q.modified = o.modified
      BY <3>2, <3>3, SortedObject
    <3>5. UniversalSet(o) /\ ~o.modified /\ ids = order
      BY <1>0, <1>4, <3>4 DEF Ordered, SameHolder, UniversalSet, Ary
    <3>6. ~o.explicit BY <1>0, <3>5, NodesFind DEF NodeInv, HeaderInv, UniversalSet
    <3>7. ~SortsElements(Holder(o)) BY <3>5, <3>6 DEF SortsElements, Holder
    <3>8. o.at_value.ids = ids BY <1>0, <1>1, <2>2, <3>5, <3>7
    <3> QED BY <1>0, <1>2, <1>4, <2>2, <3>5, <3>8 DEF Ordered
  <2> QED BY <2>1, <2>2
<1>5. ASSUME Ordered(q, h, ids), AllUntouched(ids)'
      PROVE  AlikeElems(ids)
  <2>1. \A i \in DOMAIN ids : ids[i] \in Node \ {Root} /\ ~hist[ids[i]].touched
    BY <1>0, <1>2, <1>4, <1>5, ElementsApart, NodesFind DEF Ordered, AllUntouched
  <2>2. n # Root => hist[n].touched
    BY <1>2, <1>3, ArrayElement, NodesFind DEF NodeInv, HistoryInv
  <2>3. \A i \in DOMAIN ids : obj'[ids[i]] = obj[ids[i]] BY <1>1, <2>1, <2>2
  <2> QED BY <2>3 DEF AlikeElems, Alike
<1> QED BY <1>0, <1>2, <1>4, <1>5, SortedStays

\* Creating or parsing an object keeps SortedInv.
LEMMA NewSorted ==
  ASSUME IInv, NodesInv, SortedInv, NEW a \in ElemNews, New(a)
  PROVE  SortedInv'
<1>0. PICK o, h, q, ids : o = obj[Root] /\ h = hist[Root] /\ q = obj'[Root]
                          /\ ids = obj'[Root].at_value.ids OBVIOUS
<1>1. /\ \A m \in Live : obj'[m] = obj[m]
      /\ hist' = hist /\ Root \in Live BY NewEffect
<1>2. q = o /\ o.at_value.ids = ids BY <1>0, <1>1
<1>3. AlikeElems(ids) BY <1>0, <1>1, <1>2, ElementsApart DEF AlikeElems, Alike
<1> QED BY <1>0, <1>1, <1>2, <1>3, SortedStays

\* The value of an element that was not touched is decoded, or its header is
\* cached.
LEMMA UntouchedElement ==
  ASSUME NEW o, NEW h, NodeInv(o, h), ElementInv(o, h), ~h.touched
  PROVE  ~h.retag /\ (o.decoded \/ o.length_bytes # << >>)
<1>1. ~h.retag /\ (h.src = << >> => o.decoded) BY DEF NodeInv, HistoryInv
<1>2. CASE h.src # << >>
  <2>1. o.length_bytes = << h.src[2] >> BY <1>2 DEF NodeInv, SourceInv, ElementInv
  <2> QED BY <1>1, <2>1
<1> QED BY <1>1, <1>2

\* Reading a value keeps SortedInv.
LEMMA GetValueSorted ==
  ASSUME IInv, NodesInv, SortedInv, NEW n \in Live, GetValue(n)
  PROVE  SortedInv'
<1>0. PICK o, h, q, g, ids : o = obj[Root] /\ h = hist[Root] /\ q = obj'[Root]
                          /\ g = hist'[Root] /\ ids = obj'[Root].at_value.ids OBVIOUS
<1>1. /\ obj'[n] = AfterDecode(obj[n])
      /\ \A m \in Live : m # n => obj'[m] = obj[m] /\ hist'[m] = hist[m]
      /\ hist'[n] = [hist[n] EXCEPT !.lost = @ \/ LosesValue(obj[n])]
      /\ Root \in Live /\ Live \subseteq Node /\ count \in Nat BY ReadRoot, NodesFind
<1>2. \A m \in Live : hist'[m].touched = hist[m].touched /\ hist'[m].src = hist[m].src
  BY <1>1, NodesFind DEF HistType
<1>3. ASSUME Ordered(q, g, ids), o.at_value.ids = ids, AllUntouched(ids)'
      PROVE  AlikeElems(ids) /\ AllUntouched(ids)
  <2>1. \A i \in DOMAIN ids : ids[i] \in Live /\ ids[i] \in Node \ {Root}
    BY <1>0, <1>3, ElementsApart, NodesFind DEF Ordered
  <2>2. \A i \in DOMAIN ids : ~hist[ids[i]].touched BY <1>2, <1>3, <2>1 DEF AllUntouched
  <2>3. ASSUME NEW i \in DOMAIN ids
        PROVE  Alike(obj'[ids[i]], obj[ids[i]])
    <3>0. PICK m : m = ids[i] OBVIOUS
    <3>1. m \in Live /\ m \in Node /\ m # Root /\ ~hist[m].touched BY <2>1, <2>2, <3>0
    <3>2. CASE m = n
      <4>1. /\ hist[m] \in HistType /\ Sound(obj[m]) /\ ObjInv(obj[m], hist[m])
            /\ NodeInv(obj[m], hist[m]) /\ ElementInv(obj[m], hist[m])
            /\ obj[m].at_value.ids \in Seq(ElementId) BY <3>1, NodesFind
      <4>2. ~hist[m].retag /\ (obj[m].decoded \/ obj[m].length_bytes # << >>)
        BY <3>1, <4>1, UntouchedElement
      <4>3. Alike(AfterDecode(obj[m]), obj[m]) BY <1>1, <4>1, <4>2, DecodeAlike
      <4> QED BY <1>1, <3>0, <3>2, <4>3
    <3>3. CASE m # n BY <1>1, <3>0, <3>1, <3>3 DEF Alike
    <3> QED BY <3>2, <3>3
  <2> QED BY <2>2, <2>3 DEF AlikeElems, AllUntouched
<1>4. ASSUME Ordered(q, g, ids)
      PROVE  \/ o.at_value.ids = ids /\ Ordered(o, h, ids)
             \/ DOMAIN ids = {}
  <2>1. CASE n # Root BY <1>0, <1>1, <1>4, <2>1 DEF Ordered
  <2>2. CASE n = Root
    <3>1. /\ o \in Object /\ BytesInv(o) /\ ContentInv(o) /\ HistoryInv(o, h) /\ ArrayInv(o)
      BY <1>0, <1>1, NodesFind DEF ObjInv, NodeInv
    <3>2. DecodeResult(q, o) BY <1>0, <1>1, <2>2, <3>1, DecodeEffect
    <3>3. h.src = << >> \/ h.touched BY <1>0, <1>1, <1>2, <1>4 DEF Ordered
    <3>4. UniversalSet(o) /\ ~o.modified /\ o.tag = SET
      BY <1>4, <3>2 DEF Ordered, UniversalSet, DecodeResult, DecodedFrom
    <3>5. CASE q = o BY <1>0, <1>4, <3>3, <3>5 DEF Ordered
    <3>6. CASE ~o.decoded /\ o.cons /\ CanDecode(o)
      <4>1. h.touched BY <3>1, <3>3, <3>6 DEF HistoryInv
      <4>2. o.bytes.null BY <3>1, <3>4, <3>6, <4>1 DEF HistoryInv, SET, BIT_STRING
      <4>3. o.bytes.elems = << >> BY <3>1, <4>2 DEF ContentInv
      <4>4. q.at_value = Ary(ElementIds(KeptElems(o))) BY <3>2, <3>6 DEF DecodeResult
      <4>5. KeptElems(o) = << >> BY <4>3 DEF KeptElems
      <4>6. DOMAIN ids = {} BY <1>0, <4>4, <4>5 DEF Ary, ElementIds
      <4> QED BY <4>6
    <3>7. CASE ~o.decoded /\ o.cons /\ ~CanDecode(o)
      <4>1. q.at_value = o.at_value BY <3>2, <3>7 DEF DecodeResult
      <4>2. o.at_value.kind = "ary" /\ o.at_value.ids = ids BY <1>0, <1>4, <4>1 DEF Ordered
      <4>3. o.bytes.null BY <3>1, <4>2 DEF ContentInv
      <4> QED BY <1>4, <3>3, <3>4, <4>2, <4>3 DEF Ordered
    <3>8. CASE ~o.decoded /\ ~o.cons /\ CanDecode(o)
      BY <1>4, <3>2, <3>8 DEF Ordered, DecodeResult
    <3> QED BY <3>2, <3>5, <3>6, <3>7, <3>8 DEF DecodeResult
  <2> QED BY <2>1, <2>2
<1>5. ASSUME Ordered(q, g, ids), AllUntouched(ids)'
      PROVE  InOrder(ids)'
  <2>1. CASE DOMAIN ids = {} BY <2>1 DEF InOrder
  <2>2. CASE o.at_value.ids = ids /\ Ordered(o, h, ids)
    <3>1. AlikeElems(ids) /\ AllUntouched(ids) BY <1>3, <1>5, <2>2
    <3>2. InOrder(ids) BY <1>0, <2>2, <3>1, SortedWas
    <3>3. ~HasNil(ids) BY <2>2 DEF Ordered, HasNil
    <3> QED BY <3>1, <3>2, <3>3, ElementsAlike
  <2> QED BY <1>4, <1>5, <2>1, <2>2
<1> QED BY <1>0, <1>5, SortedIs

\* A setter on an element touches it.
LEMMA ElementSorted ==
  ASSUME IInv, NodesInv, SortedInv, NEW n \in Live \ {Root}, SetterEffect(n)
  PROVE  SortedInv'
<1>0. PICK o, h, q, g, ids : o = obj[Root] /\ h = hist[Root] /\ q = obj'[Root]
                          /\ g = hist'[Root] /\ ids = obj'[Root].at_value.ids OBVIOUS
<1>1. Root \in Live BY NodesFind
<1>2. q = o /\ HistoryAs(g, h) BY <1>0, <1>1 DEF SetterEffect
<1>3. Ordered(q, g, ids) => Ordered(o, h, ids) /\ o.at_value.ids = ids
  BY <1>0, <1>2 DEF Ordered, HistoryAs
<1>4. ASSUME AllUntouched(ids)', Ordered(q, g, ids)
      PROVE  AlikeElems(ids)
             /\ \A i \in DOMAIN ids : ids[i] \in Node \ {Root} => hist'[ids[i]] = hist[ids[i]]
  <2>1. \A i \in DOMAIN ids : ids[i] \in Live /\ ids[i] # n /\ ids[i] # Root
    BY <1>0, <1>1, <1>3, <1>4, ElementsApart DEF Ordered, AllUntouched, SetterEffect
  <2>2. \A i \in DOMAIN ids : obj'[ids[i]] = obj[ids[i]] /\ hist'[ids[i]] = hist[ids[i]]
    BY <2>1 DEF SetterEffect
  <2> QED BY <2>2 DEF AlikeElems, Alike
<1> QED BY <1>0, <1>3, <1>4, SortedStays

\* A setter on the root keeps SortedInv: it marks the root modified.
LEMMA RootSorted ==
  ASSUME IInv, NodesInv, SortedInv, SetAs(obj'[Root], obj[Root], Root)
  PROVE  SortedInv'
<1>0. PICK q, g, ids : q = obj'[Root] /\ g = hist'[Root] /\ ids = obj'[Root].at_value.ids OBVIOUS
<1>1. ~Ordered(q, g, ids) BY <1>0 DEF SetAs, Retag, Ordered
<1> QED BY <1>0, <1>1, SortedIs

\* unused_bits= is for BIT STRINGs.
LEMMA BitsSorted ==
  ASSUME IInv, NodesInv, SortedInv, NEW bits \in NewBits, SetUnusedBits(Root, bits)
  PROVE  SortedInv'
<1>0. PICK o, h, q, g, ids : o = obj[Root] /\ h = hist[Root] /\ q = obj'[Root]
                          /\ g = hist'[Root] /\ ids = obj'[Root].at_value.ids OBVIOUS
<1>1. Root \in Live /\ o \in Object /\ HistoryInv(o, h) BY <1>0, NodesFind DEF NodeInv
<1>2. /\ q = [o EXCEPT !.at_unused_bits = bits] /\ o.default_tag = BIT_STRING
      /\ SetterEffect(Root) /\ \A m \in Live : m # Root => hist'[m] = hist[m]
  BY <1>0, <1>1, SetUnusedBitsEffect
<1>3. /\ q.at_value = o.at_value /\ q.bytes = o.bytes /\ q.modified = o.modified
      /\ q.tag = o.tag /\ q.tag_class = o.tag_class BY <1>1, <1>2 DEF Object
<1>4. Ordered(q, g, ids) => Ordered(o, h, ids) /\ o.at_value.ids = ids
  <2>1. o.tag = SET => h.src = << >> \/ h.touched BY <1>1, <1>2 DEF HistoryInv, SET, BIT_STRING
  <2> QED BY <1>0, <1>3, <2>1 DEF Ordered, UniversalSet
<1>5. ASSUME Ordered(q, g, ids)
      PROVE  AlikeElems(ids)
             /\ \A i \in DOMAIN ids : ids[i] \in Node \ {Root} => hist'[ids[i]] = hist[ids[i]]
  <2>1. \A i \in DOMAIN ids : ids[i] \in Live /\ ids[i] # Root
    BY <1>0, <1>1, <1>4, <1>5, ElementsApart DEF Ordered
  <2>2. \A i \in DOMAIN ids : obj'[ids[i]] = obj[ids[i]] /\ hist'[ids[i]] = hist[ids[i]]
    BY <1>2, <2>1 DEF SetterEffect
  <2> QED BY <2>2 DEF AlikeElems, Alike
<1> QED BY <1>0, <1>4, <1>5, SortedStays

\* Every step keeps SortedInv.
LEMMA SortedStep ==
  ASSUME IInv, NodesInv, LoopInv, SortedInv, [Next]_vars
  PROVE  SortedInv'
<1>1. CASE UNCHANGED vars
  <2>1. UNCHANGED << obj, hist >> BY <1>1 DEF vars
  <2>2. \A ids : InOrder(ids)' = InOrder(ids) BY <2>1, SameObjects
  <2> QED BY <2>1, <2>2 DEF SortedInv, HasNil, AllUntouched
<1>2. CASE Next
  <2>1. ASSUME NEW a \in ElemNews, New(a)
        PROVE  SortedInv'
    BY <2>1, NewSorted
  <2>2. ASSUME NEW n \in Live, GetValue(n)
        PROVE  SortedInv'
    BY <2>2, GetValueSorted
  <2>3. ASSUME NEW n \in Live,
               \/ \E t \in NewTags : SetTag(n, t)
               \/ \E sym \in TagClassSymbol : SetTagClass(n, sym)
               \/ SetInfiniteLength(n)
               \/ \E v \in NewValues : SetValue(n, v)
        PROVE  SortedInv'
    <3>1. CASE n # Root
      <4>1. SetterEffect(n)
        BY <2>3, SetTagEffect, SetTagClassEffect, SetInfiniteLengthEffect, SetValueEffect
      <4> QED BY <3>1, <4>1, ElementSorted
    <3>2. CASE n = Root
      <4>1. \A v \in NewValues : v \in Value BY ConstantsAssumption
      <4>2. SetAs(obj'[n], obj[n], n)
        BY <2>3, <4>1, SetTagAs, SetTagClassAs, SetInfiniteLengthAs, SetValueAs
      <4> QED BY <3>2, <4>2, RootSorted
    <3> QED BY <3>1, <3>2
  <2>4. ASSUME NEW n \in Live, NEW bits \in NewBits, SetUnusedBits(n, bits)
        PROVE  SortedInv'
    <3>1. CASE n # Root BY <2>4, <3>1, SetUnusedBitsEffect, ElementSorted
    <3>2. CASE n = Root BY <2>4, <3>2, BitsSorted
    <3> QED BY <3>1, <3>2
  <2>5. ASSUME NEW v \in Arrays, SetValue(Root, v)
        PROVE  SortedInv'
    <3>1. v \in Value BY ArraysType, NodesFind
    <3>2. SetAs(obj'[Root], obj[Root], Root) BY <2>5, <3>1, SetValueAs, NodesFind
    <3> QED BY <3>2, RootSorted
  <2>6. ASSUME NEW n \in Live, ToDerBegin(n)
        PROVE  SortedInv'
    BY <2>6, BeginSorted
  <2>7. ASSUME EncoderStep
        PROVE  SortedInv'
    BY <2>7, EncoderSorted
  <2> QED BY <1>2, <2>1, <2>2, <2>3, <2>4, <2>5, <2>6, <2>7 DEF Next, EncoderStep
<1> QED BY <1>1, <1>2

-----------------------------------------------------------------------------
(* How long elements are, in whatever order.                               *)

\* Where the members of the first n sequences are.
Places(s, n) == {x \in (1..n) \X Nat : x[2] \in 1..Len(s[x[1]])}

\* One sequence more has as many places more as it has members.
LEMMA PlacesNext ==
  ASSUME NEW s, NEW n \in Nat, n # 0, Len(s[n]) \in Nat, IsFiniteSet(Places(s, n - 1))
  PROVE  /\ IsFiniteSet(Places(s, n))
         /\ Cardinality(Places(s, n)) = Cardinality(Places(s, n - 1)) + Len(s[n])
<1> DEFINE P == Places(s, n - 1)
           Q == {n} \X (1..Len(s[n]))
<1>1. Places(s, n) = P \cup Q
  <2>1. \A x : x \in Places(s, n) => x \in P \cup Q BY DEF Places
  <2>2. \A x : x \in P \cup Q => x \in Places(s, n) BY DEF Places
  <2> QED BY <2>1, <2>2
<1>2. P \cap Q = {} BY DEF Places
<1>3. IsFiniteSet({n}) /\ Cardinality({n}) = 1 BY FS_Singleton
<1>k. PICK k \in Nat : k = Len(s[n]) OBVIOUS
<1>4. IsFiniteSet(1..k) /\ Cardinality(1..k) = k
  <2>1. /\ IsFiniteSet(1..k)
        /\ Cardinality(1..k) = IF 1 > k THEN 0 ELSE k - 1 + 1
    <3>1. 1 \in Int /\ k \in Int OBVIOUS
    <3> QED BY <3>1, FS_Interval, Zenon
  <2>2. (IF 1 > k THEN 0 ELSE k - 1 + 1) = k OBVIOUS
  <2> QED BY <2>1, <2>2
<1>5. IsFiniteSet(Q) /\ Cardinality(Q) = k
  <2>1. IsFiniteSet({n} \X (1..k)) /\ Cardinality({n} \X (1..k)) = 1 * k
    <3> DEFINE S == {n}
               T == 1..k
    <3>1. IsFiniteSet(S) /\ IsFiniteSet(T) /\ Cardinality(S) = 1 /\ Cardinality(T) = k
      BY <1>3, <1>4
    <3> HIDE DEF S, T
    <3>2. IsFiniteSet(S \X T) /\ Cardinality(S \X T) = Cardinality(S) * Cardinality(T)
      BY ONLY <3>1, FS_Product, Zenon
    <3> QED BY <3>1, <3>2 DEF S, T
  <2> QED BY <1>k, <2>1
<1>6. Cardinality(P) \in Nat BY FS_CardinalityType
<1>p. IsFiniteSet(P) OBVIOUS
<1> HIDE DEF P, Q
<1>7. IsFiniteSet(P \cup Q) /\ Cardinality(P \cup Q) = Cardinality(P) + Cardinality(Q) - Cardinality(P \cap Q)
  BY <1>5, <1>p, FS_Union
<1>8. Cardinality(P \cup Q) = Cardinality(P) + k
  <2>1. Cardinality(P \cap Q) = 0 BY <1>2, FS_EmptySet
  <2>2. \A a \in Nat : a + k - 0 = a + k OBVIOUS
  <2> QED BY <1>5, <1>6, <1>7, <2>1, <2>2
<1> QED BY <1>1, <1>k, <1>7, <1>8 DEF P

\* Sequences put together are as long as they have places.
LEMMA FlattenLength ==
  ASSUME NEW T, NEW s \in Seq(Seq(T))
  PROVE  /\ IsFiniteSet(Places(s, Len(s)))
         /\ Len(FlattenSeq(s)) = Cardinality(Places(s, Len(s)))
<1>0. Places(s, 0) = {} BY DEF Places
<1>1. IsFiniteSet(Places(s, 0)) /\ Cardinality(Places(s, 0)) = 0 BY <1>0, FS_EmptySet
<1>2. CASE s = << >> BY <1>1, <1>2, FlattenEmpty
<1>3. CASE s # << >>
  <2>1. Len(s) \in 1..Len(s) BY <1>3, EmptySeq
  <2>2. PICK f \in [1..Len(s) -> Seq(T)] : Flattens(f, s, Len(s)) BY <2>1, FlatExists
  <2>3. FlattenSeq(s) = f[Len(s)] BY <1>3, <2>2, FlattenIs
  <2> DEFINE Good(m) == IsFiniteSet(Places(s, m)) /\ Cardinality(Places(s, m)) = Len(f[m])
             Bad == {m \in 1..Len(s) : ~Good(m)}
  <2>4. SUFFICES ASSUME ~Good(Len(s))
                 PROVE  FALSE
    BY <2>3
  <2>5. Bad \subseteq Nat /\ Bad # {} BY <2>1, <2>4
  <2>6. PICK m \in Bad : \A j \in Bad : m <= j BY <2>5, FirstOfNumbers
  <2>7. m \in Nat /\ m # 0 /\ m \in 1..Len(s) /\ Len(s[m]) \in Nat /\ ~Good(m)
        /\ s[m] \in Seq(T) /\ Len(s) \in Nat BY <2>6
  <2>8. f[m] = IF m = 1 THEN s[m] ELSE f[m - 1] \o s[m] BY <2>2, <2>7 DEF Flattens
  <2>9. CASE m = 1
    <3>1. IsFiniteSet(Places(s, m)) /\ Cardinality(Places(s, m)) = 0 + Len(s[m])
      BY <1>1, <2>7, <2>9, PlacesNext
    <3> QED BY <2>7, <2>8, <2>9, <3>1
  <2>10. CASE m # 1
    <3>1. m - 1 \in 1..Len(s) /\ ~(m <= m - 1) BY <2>7, <2>10
    <3>2. Good(m - 1) BY <2>6, <3>1
    <3>3. IsFiniteSet(Places(s, m)) /\ Cardinality(Places(s, m)) = Len(f[m - 1]) + Len(s[m])
      BY <2>7, <3>2, PlacesNext
    <3>4. Len(f[m - 1] \o s[m]) = Len(f[m - 1]) + Len(s[m]) BY <2>7, <3>1, ConcatAt
    <3> QED BY <2>7, <2>8, <2>10, <3>3, <3>4
  <2> QED BY <2>9, <2>10
<1> QED BY <1>2, <1>3

\* t has the members of s in another order.
Shuffles(t, s, p) ==
  /\ p \in [1..Len(s) -> 1..Len(s)]
  /\ \A i, j \in 1..Len(s) : p[i] = p[j] => i = j
  /\ Len(t) = Len(s)
  /\ \A i \in 1..Len(s) : t[i] = s[p[i]]

\* Sequences put together in another order are as long.
LEMMA SameLength ==
  ASSUME NEW T, NEW s \in Seq(Seq(T)), NEW t \in Seq(Seq(T)), NEW p, Shuffles(t, s, p)
  PROVE  Len(FlattenSeq(t)) = Len(FlattenSeq(s))
<1> DEFINE n == Len(s)
           S == Places(s, n)
           R == Places(t, n)
           F == [x \in R |-> << p[x[1]], x[2] >>]
<1>n. n \in Nat OBVIOUS
<1>1. n \in Nat /\ Len(t) = n /\ \A i \in 1..n : t[i] = s[p[i]] /\ p[i] \in 1..n
  BY <1>n DEF Shuffles
<1>i. /\ p \in [1..n -> 1..n]
      /\ \A i, j \in 1..n : p[i] = p[j] => i = j BY DEF Shuffles
<1> HIDE DEF n
<1>2. \A x \in R : x = << x[1], x[2] >> /\ x[1] \in 1..n /\ x[2] \in Nat /\ x[2] \in 1..Len(s[p[x[1]]])
  BY <1>1 DEF Places
<1>3. \A x \in R : << p[x[1]], x[2] >> \in S BY <1>1, <1>2 DEF Places
<1>4. F \in [R -> S] BY <1>3
<1>5. ASSUME NEW x \in R, NEW y \in R, F[x] = F[y]
      PROVE  x = y
  <2>1. F[x] = << p[x[1]], x[2] >> /\ F[y] = << p[y[1]], y[2] >> OBVIOUS
  <2>2. p[x[1]] = p[y[1]] /\ x[2] = y[2] BY <1>5, <2>1
  <2>3. x[1] = y[1] BY <1>2, <1>i, <2>2
  <2>4. x = << x[1], x[2] >> /\ y = << y[1], y[2] >> BY <1>2
  <2> QED BY <2>2, <2>3, <2>4
<1>6. ASSUME NEW y \in S
      PROVE  \E x \in R : F[x] = y
  <2>1. y = << y[1], y[2] >> /\ y[1] \in 1..n /\ y[2] \in Nat /\ y[2] \in 1..Len(s[y[1]])
    BY DEF Places
  <2>2. PICK i \in 1..n : p[i] = y[1]
    <3>1. /\ n \in Nat /\ p \in [1..n -> 1..n]
          /\ \A i, j \in 1..n : p[i] = p[j] => i = j BY <1>n, <1>i
    <3>2. \A k \in 1..n : \E i \in 1..n : p[i] = k BY <3>1, OntoToo, Zenon
    <3> QED BY <2>1, <3>2
  <2>3. << i, y[2] >> \in R BY <1>1, <2>1, <2>2 DEF Places
  <2>4. F[<< i, y[2] >>] = y BY <2>1, <2>2, <2>3
  <2> QED BY <2>3, <2>4
<1> HIDE DEF F, R, S
<1>7. F \in Bijection(R, S) BY <1>4, <1>5, <1>6, Fun_IsBij
<1>8. ExistsBijection(R, S) BY <1>7, Fun_ExistsBij
<1>9. IsFiniteSet(R) /\ Len(FlattenSeq(t)) = Cardinality(R) /\ Len(FlattenSeq(s)) = Cardinality(S)
  BY <1>1, FlattenLength DEF R, S, n
<1> QED BY <1>8, <1>9, FS_Bijection

\* sort! keeps the number of octets of the elements.
LEMMA SortedLength ==
  ASSUME IInv, NEW ids \in Seq(Node), NEW order \in SortedOrders(ids)
  PROVE  /\ order \in Seq(Node) /\ Len(Octets(order)) = Len(Octets(ids))
         /\ AllEncode(order) => AllEncode(ids)
         /\ \A i \in DOMAIN ids : \E j \in DOMAIN order : order[j] = ids[i]
<1>1. order \in Seq(Node) /\ DOMAIN order = DOMAIN ids BY SortedFacts
<1>2. PICK p \in [DOMAIN ids -> DOMAIN ids] :
        /\ \A i, j \in DOMAIN ids : p[i] = p[j] => i = j
        /\ order = [i \in DOMAIN ids |-> ids[p[i]]] BY SortedFacts
<1>3. PICK n \in Nat : n = Len(ids) /\ DOMAIN ids = 1..n OBVIOUS
<1>11. /\ n \in Nat /\ p \in [1..n -> 1..n]
       /\ \A i, j \in 1..n : p[i] = p[j] => i = j BY <1>2, <1>3
<1>4. \A i \in 1..n : \E j \in 1..n : p[j] = i BY <1>11, OntoToo, Zenon
<1>5. \A i \in DOMAIN ids : \E j \in DOMAIN order : order[j] = ids[i] BY <1>1, <1>2, <1>3, <1>4
<1>6. AllEncode(order) => AllEncode(ids) BY <1>5 DEF AllEncode
<1>7. PICK s, t : s = EachOctets(ids) /\ t = EachOctets(order) OBVIOUS
<1>8. /\ s \in Seq(Seq(Token)) /\ Octets(ids) = FlattenSeq(s)
      /\ t \in Seq(Seq(Token)) /\ Octets(order) = FlattenSeq(t) BY <1>1, <1>7, OctetsType
<1>9. n = Len(s) BY <1>3, <1>7, <1>8, LenProperties DEF EachOctets
<1>10. Len(t) = n /\ \A i \in 1..n : t[i] = s[p[i]]
  <2>1. \A i \in 1..n : EncodeScalar(obj[order[i]]).out = s[p[i]]
    BY <1>2, <1>3, <1>7 DEF EachOctets
  <2> QED BY <1>1, <1>3, <1>7, <1>8, <2>1, LenProperties DEF EachOctets
<1>12. Shuffles(t, s, p) BY <1>9, <1>10, <1>11 DEF Shuffles
<1>13. Len(FlattenSeq(t)) = Len(FlattenSeq(s)) BY <1>8, <1>12, SameLength
<1> QED BY <1>1, <1>5, <1>6, <1>8, <1>13

-----------------------------------------------------------------------------
(* The cached length of an Array.                                          *)

\* The root holds an Array with a length that should be that of its elements.
Measured(o, h, ids) ==
  /\ o.bytes.null /\ o.at_value.kind = "ary" /\ o.at_value.ids = ids
  /\ o.length_bytes # << >> /\ ~o.inf
  /\ ~h.stale /\ ~h.flip /\ ~h.lost /\ ~h.retag
  /\ \A i \in DOMAIN ids : ids[i] # NilElem

NoneRetag(ids) == \A i \in DOMAIN ids : ~hist[ids[i]].retag

LengthOf(n, explicit, ids) ==
  /\ \A i \in DOMAIN ids : obj[ids[i]].length_bytes # << >>
  /\ AllEncode(ids) => n = Len(Octets(ids)) + (IF explicit THEN 2 ELSE 0)

\* How ArrayLengthInv is shown of the next state.
LEMMA LengthIs ==
  ASSUME NEW q, NEW g, NEW ids, q = obj'[Root], g = hist'[Root], ids = q.at_value.ids,
         Measured(q, g, ids) /\ NoneRetag(ids)' => LengthOf(q.length_bytes[1].n, q.explicit, ids)'
  PROVE  ArrayLengthInv'
  BY DEF ArrayLengthInv, Measured, NoneRetag, LengthOf

\* What ArrayLengthInv says of the root.
LEMMA LengthWas ==
  ASSUME ArrayLengthInv, NEW o, o = obj[Root], NEW ids, Measured(o, hist[Root], ids), NoneRetag(ids)
  PROVE  LengthOf(o.length_bytes[1].n, o.explicit, ids)
  BY DEF ArrayLengthInv, Measured, NoneRetag, LengthOf

\* The length stays right when the elements with a cached length encode as
\* before.
LEMMA LengthKept ==
  ASSUME NEW n, NEW explicit, NEW ids, LengthOf(n, explicit, ids),
         \A i \in DOMAIN ids : ids[i] # NilElem,
         \A i \in DOMAIN ids : obj[ids[i]].length_bytes # << >> => Firm(ids[i])
  PROVE  LengthOf(n, explicit, ids)'
<1>1. \A i \in DOMAIN ids : Alike(obj'[ids[i]], obj[ids[i]]) /\ obj'[ids[i]].length_bytes # << >>
  BY DEF LengthOf, Firm
<1>2. AlikeElems(ids) /\ ~HasNil(ids) BY <1>1 DEF AlikeElems, HasNil
<1>3. AllEncode(ids)' = AllEncode(ids) /\ Octets(ids)' = Octets(ids) BY <1>2, ElementsAlike
<1> QED BY <1>1, <1>3 DEF LengthOf

\* ArrayLengthInv stays when the root keeps its length and its elements encode
\* as before.
LEMMA LengthStays ==
  ASSUME IInv, NodesInv, ArrayLengthInv,
         NEW o, NEW h, NEW q, NEW g, NEW ids,
         o = obj[Root], h = hist[Root], q = obj'[Root], g = hist'[Root], ids = q.at_value.ids,
         Measured(q, g, ids) /\ NoneRetag(ids)' =>
           /\ Measured(o, h, ids) /\ NoneRetag(ids)
           /\ q.explicit = o.explicit /\ q.length_bytes = o.length_bytes
           /\ \A i \in DOMAIN ids : obj[ids[i]].length_bytes # << >> => Firm(ids[i])
  PROVE  ArrayLengthInv'
<1>1. ASSUME Measured(q, g, ids), NoneRetag(ids)'
      PROVE  LengthOf(q.length_bytes[1].n, q.explicit, ids)'
  <2>1. /\ Measured(o, h, ids) /\ NoneRetag(ids)
        /\ q.explicit = o.explicit /\ q.length_bytes = o.length_bytes
        /\ \A i \in DOMAIN ids : obj[ids[i]].length_bytes # << >> => Firm(ids[i]) BY <1>1
  <2>2. LengthOf(q.length_bytes[1].n, q.explicit, ids) BY <2>1, LengthWas
  <2> QED BY <1>1, <2>1, <2>2, LengthKept DEF Measured
<1> QED BY <1>1, LengthIs

\* The elements of a root whose length is known.
LEMMA MeasuredElements ==
  ASSUME IInv, NodesInv, NEW ids, Measured(obj[Root], hist[Root], ids)
  PROVE  /\ \A i \in DOMAIN ids : ids[i] \in Live /\ ids[i] \in Node \ {Root}
         /\ ids \in Seq(Node) /\ ids \in Seq(ElementId)
<1>1. \A i \in DOMAIN ids : ids[i] \in Live /\ ids[i] \in Node \ {Root}
  BY ElementsApart, NodesFind DEF Measured
<1>2. ids \in Seq(ElementId) BY NodesFind DEF Measured
<1> QED BY <1>1, <1>2

\* Creating or parsing an object keeps ArrayLengthInv.
LEMMA NewLength ==
  ASSUME IInv, NodesInv, ArrayLengthInv, NEW a \in ElemNews, New(a)
  PROVE  ArrayLengthInv'
<1>0. PICK o, h, q, ids : o = obj[Root] /\ h = hist[Root] /\ q = obj'[Root]
                          /\ ids = obj'[Root].at_value.ids OBVIOUS
<1>1. /\ \A m \in Live : obj'[m] = obj[m]
      /\ hist' = hist /\ Root \in Live BY NewEffect
<1>2. q = o /\ o.at_value.ids = ids BY <1>0, <1>1
<1>3. Measured(q, h, ids) /\ NoneRetag(ids)' =>
        /\ Measured(o, h, ids) /\ NoneRetag(ids)
        /\ \A i \in DOMAIN ids : Firm(ids[i])
  BY <1>0, <1>1, <1>2, MeasuredElements, FirmSame DEF NoneRetag
<1> QED BY <1>0, <1>1, <1>2, <1>3, LengthStays

\* A setter on the root keeps ArrayLengthInv.
LEMMA RootLength ==
  ASSUME IInv, NodesInv, ArrayLengthInv, SetterEffect(Root), SetAs(obj'[Root], obj[Root], Root)
  PROVE  ArrayLengthInv'
<1>0. PICK o, h, q, g, ids : o = obj[Root] /\ h = hist[Root] /\ q = obj'[Root]
                          /\ g = hist'[Root] /\ ids = obj'[Root].at_value.ids OBVIOUS
<1>1. CASE ~(Retag(q, o) /\ g = Touched(Root))
  <2>1. ~Measured(q, g, ids) BY <1>0, <1>1 DEF SetAs, Measured
  <2> QED BY <1>0, <2>1, LengthIs
<1>2. CASE Retag(q, o) /\ g = Touched(Root)
  <2>1. NodesOK /\ Root \in Node /\ Root \in Live BY NodesFind
  <2>2. TouchedAs(g, h) /\ g.stale = h.stale
    <3>1. TouchedAs(Touched(Root), hist[Root]) /\ Touched(Root).stale = StaleAfter(Root)[Root].stale
      BY <2>1, StaleFacts
    <3>2. StaleAfter(Root)[Root].stale = hist[Root].stale
      <4>1. hist[Root] \in HistType BY <2>1, NodesFind
      <4>2. hist[Root].stale \in BOOLEAN BY <4>1 DEF HistType
      <4>3. StaleAfter(Root)[Root].stale =
              (hist[Root].stale \/ (Root # Root /\ obj[Root].length_bytes # << >>))
        BY <2>1, StaleFacts
      <4> QED BY <4>2, <4>3
    <3> QED BY <1>0, <1>2, <3>1, <3>2
  <2>3. Measured(q, g, ids) => Measured(o, h, ids) BY <1>2, <2>2 DEF Retag, TouchedAs, Measured
  <2>4. Measured(q, g, ids) /\ NoneRetag(ids)' =>
          NoneRetag(ids) /\ \A i \in DOMAIN ids : Firm(ids[i])
    BY <1>0, <2>3, MeasuredElements, FirmSame DEF NoneRetag, SetterEffect
  <2>5. q.explicit = o.explicit /\ q.length_bytes = o.length_bytes BY <1>2 DEF Retag
  <2> QED BY <1>0, <2>3, <2>4, <2>5, LengthStays
<1> QED BY <1>1, <1>2

\* A setter on an element keeps ArrayLengthInv: the history of a root with a
\* cached length says it is stale.
LEMMA ElementLength ==
  ASSUME IInv, NodesInv, ArrayLengthInv, NEW n \in Live \ {Root}, SetterEffect(n), RootStale(n)
  PROVE  ArrayLengthInv'
<1>0. PICK o, h, q, g, ids : o = obj[Root] /\ h = hist[Root] /\ q = obj'[Root]
                          /\ g = hist'[Root] /\ ids = obj'[Root].at_value.ids OBVIOUS
<1>1. q = o BY <1>0, NodesFind DEF SetterEffect
<1>2. ~Measured(q, g, ids) BY <1>0, <1>1 DEF RootStale, Measured
<1> QED BY <1>0, <1>2, LengthIs

\* unused_bits= on an element whose length is cached changes nothing that it
\* encodes to.
LEMMA BitsAlike ==
  ASSUME NEW o, NEW h \in HistType, Sound(o), ObjInv(o, h), NodeInv(o, h), ElementInv(o, h),
         ~h.retag, o.length_bytes # << >>, NEW bits \in Bits
  PROVE  LET q == [o EXCEPT !.at_unused_bits = bits]
         IN  Sound(q) /\ Alike(q, o) /\ q.length_bytes = o.length_bytes
<1>0. PICK q : q = [o EXCEPT !.at_unused_bits = bits] OBVIOUS
<1>1. /\ q \in Object /\ q.at_value = o.at_value
      /\ q.tag = o.tag /\ q.tag_class = o.tag_class /\ q.cons = o.cons /\ q.inf = o.inf
      /\ q.tag_bytes = o.tag_bytes /\ q.length_bytes = o.length_bytes
      /\ q.explicit = o.explicit /\ q.codec = o.codec /\ q.bytes = o.bytes
      /\ q.default_tag = o.default_tag BY <1>0 DEF Object, Sound
<1>2. Sound(q) BY <1>1 DEF Sound
<1>3. Wrapped(q) = Wrapped(o) /\ BarredConstructed(q) = BarredConstructed(o)
      /\ HasNoElements(q) = HasNoElements(o) /\ \A c : WithEoc(q, c) = WithEoc(o, c)
  BY <1>1 DEF Wrapped, Wrapper, BarredConstructed, HasNoElements, WithEoc
<1>4. ScalarCons(q) = ScalarCons(o) BY <1>1 DEF ScalarCons
<1>5. /\ TagFor(q, ScalarCons(q)) = TagFor(o, ScalarCons(o))
      /\ LengthFor(q, ScalarLength(q)) = LengthFor(o, ScalarLength(o))
  BY <1>1, <1>4 DEF TagFor, LengthFor
<1>6. CASE ~o.bytes.null \/ o.explicit \/ o.cons
  <2>1. ScalarOk(q) = ScalarOk(o) /\ ScalarContent(q) = ScalarContent(o)
    BY <1>1, <1>3, <1>6 DEF ScalarOk, ScalarContent
  <2> QED BY <1>0, <1>1, <1>2, <1>5, <2>1, AlikeBy
<1>7. CASE o.bytes.null /\ ~o.explicit /\ ~o.cons
  <2>1. ~h.flip BY <1>7 DEF NodeInv, HistoryInv
  <2>2. EncodesToNothing(o) BY <1>7, <2>1 DEF ObjInv, LengthInv
  <2>3. CASE o.codec = "bit_string"
    <3>1. o.at_value.kind = "nil" BY <2>2, <2>3 DEF EncodesToNothing
    <3>2. ~PrimOk(o, o.at_value) /\ ~PrimOk(q, q.at_value)
      BY <1>1, <2>3, <3>1 DEF PrimOk, PrimValid, validator
    <3>3. ~ScalarOk(q) /\ ~ScalarOk(o) BY <1>1, <1>7, <3>2 DEF ScalarOk
    <3>4. ScalarOk(q) = ScalarOk(o) BY <3>3 DEF ScalarOk
    <3> QED BY <1>0, <1>1, <1>2, <1>5, <3>3, <3>4, AlikeBy
  <2>4. CASE o.codec # "bit_string"
    <3>1. /\ PrimOk(q, q.at_value) = PrimOk(o, o.at_value)
          /\ EncodedValue(q, q.at_value) = EncodedValue(o, o.at_value)
      BY <1>1, <2>4 DEF PrimOk, PrimValid, bits_encodable, EncodedValue, encoder
    <3>2. ScalarOk(q) = ScalarOk(o) /\ ScalarContent(q) = ScalarContent(o)
      BY <1>1, <1>7, <3>1 DEF ScalarOk, ScalarContent
    <3> QED BY <1>0, <1>1, <1>2, <1>5, <3>2, AlikeBy
  <2> QED BY <2>3, <2>4
<1> QED BY <1>6, <1>7

\* unused_bits= drops no length, and changes nothing that is written for it.
LEMMA BitsLength ==
  ASSUME IInv, NodesInv, ArrayLengthInv, NEW n \in Live, NEW bits \in NewBits, SetUnusedBits(n, bits)
  PROVE  ArrayLengthInv'
<1>0. PICK o, h, q, g, ids : o = obj[Root] /\ h = hist[Root] /\ q = obj'[Root]
                          /\ g = hist'[Root] /\ ids = obj'[Root].at_value.ids OBVIOUS
<1>1. /\ SetterEffect(n) /\ obj'[n] = [obj[n] EXCEPT !.at_unused_bits = bits]
      /\ hist'[n].stale = hist[n].stale /\ hist'[n].flip = hist[n].flip
      /\ hist'[n].lost = hist[n].lost /\ hist'[n].retag = hist[n].retag
      /\ \A m \in Live : m # n => hist'[m] = hist[m] BY SetUnusedBitsEffect
<1>2. Root \in Live /\ o \in Object BY <1>0, NodesFind
<1>3. /\ q.at_value = o.at_value /\ q.bytes = o.bytes /\ q.length_bytes = o.length_bytes
      /\ q.inf = o.inf /\ q.explicit = o.explicit
  <2>1. q = o \/ q = [o EXCEPT !.at_unused_bits = bits] BY <1>0, <1>1, <1>2 DEF SetterEffect
  <2> QED BY <1>2, <2>1 DEF Object
<1>4. /\ g.stale = h.stale /\ g.flip = h.flip /\ g.lost = h.lost /\ g.retag = h.retag
  BY <1>0, <1>1, <1>2
<1>5. Measured(q, g, ids) => Measured(o, h, ids) BY <1>3, <1>4 DEF Measured
<1>6. ASSUME Measured(q, g, ids), NoneRetag(ids)'
      PROVE  /\ NoneRetag(ids)
             /\ \A i \in DOMAIN ids : obj[ids[i]].length_bytes # << >> => Firm(ids[i])
  <2>1. \A i \in DOMAIN ids : ids[i] \in Live /\ ids[i] \in Node \ {Root}
    BY <1>0, <1>5, <1>6, MeasuredElements
  <2>2. NoneRetag(ids) BY <1>1, <1>6, <2>1 DEF NoneRetag
  <2>3. ASSUME NEW i \in DOMAIN ids, obj[ids[i]].length_bytes # << >>
        PROVE  Firm(ids[i])
    <3>0. PICK m : m = ids[i] OBVIOUS
    <3>1. m \in Live /\ m \in Node /\ m # Root /\ ~hist[m].retag
      BY <2>1, <2>2, <3>0 DEF NoneRetag
    <3>2. CASE m # n BY <1>1, <3>0, <3>1, <3>2, FirmSame DEF SetterEffect
    <3>3. CASE m = n
      <4>1. /\ hist[m] \in HistType /\ Sound(obj[m]) /\ ObjInv(obj[m], hist[m])
            /\ NodeInv(obj[m], hist[m]) /\ ElementInv(obj[m], hist[m]) BY <3>1, NodesFind
      <4>2. bits \in Bits BY ConstantsAssumption DEF Bits
      <4>3. PICK x, y : x = obj[m] /\ y = [x EXCEPT !.at_unused_bits = bits] OBVIOUS
      <4>4. Alike(y, x) /\ y.length_bytes = x.length_bytes
        BY <2>3, <3>0, <3>1, <4>1, <4>2, <4>3, BitsAlike
      <4>5. obj'[m] = y BY <1>1, <3>3, <4>3
      <4> QED BY <3>0, <4>3, <4>4, <4>5 DEF Firm
    <3> QED BY <3>2, <3>3
  <2> QED BY <2>2, <2>3
<1> QED BY <1>0, <1>3, <1>5, <1>6, LengthStays

\* An identifier that is made anew is one token.
LEMMA TagOctets ==
  ASSUME NEW o \in Object, o.tag_bytes = << >>, NEW cons
  PROVE  Len(TagFor(o, cons)) = 1
<1>1. \A x : Len(<< x >>) = 1 OBVIOUS
<1> QED BY <1>1 DEF TagFor

\* The UNIVERSAL object made for an explicit tag adds a tag and a length.
LEMMA WrapperLength ==
  ASSUME NEW o \in Object, o.explicit, o.default_tag # -1, o.at_value.kind = "ary",
         ~BarredConstructed(Wrapper(o)), NEW c \in Seq(Token)
  PROVE  Len(int_asn1_cons_encode_to(Wrapper(o), TRUE, c).out) = Len(c) + 2
<1>0. PICK x, r : x = Wrapper(o) /\ r = int_asn1_cons_encode_to(x, TRUE, c) OBVIOUS
<1>1. x \in Object /\ x.tag_bytes = << >> /\ x.length_bytes = << >> /\ x.inf = FALSE
  BY <1>0, WrappedType DEF Wrapper, Created
<1>2. ConsResult(r, x, TRUE, c) BY <1>0, <1>1, ConsEffect
<1>3. r.out = TagFor(x, x.cons) \o LengthFor(x, Len(c)) \o c BY <1>0, <1>2 DEF ConsResult
<1>4. Len(c) \in Nat /\ x.cons \in BOOLEAN BY <1>1 DEF Object
<1>5. PICK a, b : a = TagFor(x, x.cons) /\ b = LengthFor(x, Len(c)) OBVIOUS
<1>6. a \in Seq(Token) /\ b \in Seq(Token) /\ Len(a) = 1 /\ Len(b) = 1
  BY <1>1, <1>4, <1>5, HeaderParts, TagOctets DEF LengthFor
<1>7. Len(a \o b) = 2 /\ a \o b \in Seq(Token)
  <2>1. Len(a \o b) = Len(a) + Len(b)
    <3>1. a \in Seq(Token) /\ b \in Seq(Token) BY <1>6
    <3> QED BY <3>1, ConcatAt
  <2>2. a \o b \in Seq(Token) BY <1>6
  <2> QED BY <1>6, <2>1, <2>2
<1>8. Len((a \o b) \o c) = Len(a \o b) + Len(c) BY <1>7, ConcatAt
<1>9. Len(r.out) = 2 + Len(c) BY <1>3, <1>5, <1>7, <1>8
<1>10. 2 + Len(c) = Len(c) + 2 BY <1>4
<1> QED BY <1>0, <1>9, <1>10, Zenon

\* ToDerEnd caches the length of what the elements encode to.
LEMMA EndLength ==
  ASSUME IInv, NodesInv, LoopInv, ToDerEnd, call.n = Root, obj[Root].length_bytes = << >>
  PROVE  ArrayLengthInv'
<1>1. PICK n, ids, w :
         /\ n = call.n /\ ids = call.ids /\ w = Written(obj[n], ids, Octets(ids))
         /\ n \in Live /\ n \in Node /\ obj[n] \in Object
         /\ obj[n].bytes.null /\ obj[n].at_value = Ary(ids) /\ ids \in Seq(ElementId)
         /\ obj[n].explicit => obj[n].default_tag # -1
         /\ ~BarredConstructed(Holder(obj[n]))
         /\ AllEncode(ids) /\ \A i \in DOMAIN ids : obj[ids[i]].length_bytes # << >>
         /\ Octets(ids) \in Seq(Token) /\ w \in Seq(Token)
         /\ ConsResult(int_asn1_cons_encode_to(obj[n], TRUE, w), obj[n], TRUE, w)
         /\ obj' = [obj EXCEPT ![n] =
                      [int_asn1_cons_encode_to(obj[n], TRUE, w).obj EXCEPT !.modified = FALSE]]
         /\ hist' = hist BY EndFacts
<1>2. PICK o, h, q, r, c : /\ o = obj[Root] /\ h = hist[Root] /\ c = Octets(ids)
                           /\ r = int_asn1_cons_encode_to(obj[Root], TRUE, w) /\ q = obj'[Root]
  OBVIOUS
<1>3. n = Root /\ o.at_value.kind = "ary" /\ o.at_value.ids = ids BY <1>1, <1>2 DEF Ary
<1>4. q = [r.obj EXCEPT !.modified = FALSE] /\ \A m \in Node \ {Root} : obj'[m] = obj[m]
  BY <1>1, <1>2, <1>3, EncoderFinds
<1>5. ConsResult(r, o, TRUE, w) BY <1>1, <1>2, <1>3
<1>6. /\ q.at_value = o.at_value /\ q.explicit = o.explicit /\ q.inf = o.inf
      /\ q.length_bytes = r.obj.length_bytes BY <1>4, <1>5 DEF ConsResult, SameIdentity, Object
<1>7. ~BarredConstructed(o)
  <2>1. o.explicit => o.tag_class = "CONTEXT_SPECIFIC" BY <1>2, NodesFind DEF NodeInv, HeaderInv
  <2> QED BY <1>1, <1>2, <1>3, <2>1 DEF Holder, BarredConstructed
<1>8. ASSUME Measured(q, h, ids), NoneRetag(ids)'
      PROVE  LengthOf(q.length_bytes[1].n, q.explicit, ids)'
  <2>1. ~o.inf /\ \A i \in DOMAIN ids : ids[i] # NilElem BY <1>6, <1>8 DEF Measured
  <2>2. \A i \in DOMAIN ids : ids[i] \in Node \ {Root}
    BY <1>2, <1>3, <2>1, ElementsApart, NodesFind
  <2>3. \A i \in DOMAIN ids : Firm(ids[i]) BY <1>4, <2>2, FirmSame
  <2>4. q.length_bytes[1].n = Len(w)
    <3>1. q.length_bytes = << LengthOctets(Len(w), FALSE, FALSE) >>
      BY <1>2, <1>5, <1>6, <1>7, <2>1 DEF ConsResult, Headed, LengthFor, Computed
    <3>2. \A x : << x >>[1] = x OBVIOUS
    <3> QED BY <3>1, <3>2 DEF LengthOctets
  <2>5. Len(w) = Len(c) + (IF o.explicit THEN 2 ELSE 0)
    <3>0. c \in Seq(Token) /\ Len(c) \in Nat BY <1>1, <1>2
    <3>1. CASE o.explicit
      <4>1. w = int_asn1_cons_encode_to(Wrapper(o), TRUE, c).out
        BY <1>1, <1>2, <1>3, <2>1, <3>1 DEF Written, WithEoc
      <4>2. ~BarredConstructed(Wrapper(o)) BY <1>1, <1>2, <1>3, <3>1 DEF Holder
      <4>3. o \in Object /\ o.default_tag # -1 BY <1>1, <1>2, <1>3, <3>1
      <4>4. Len(int_asn1_cons_encode_to(Wrapper(o), TRUE, c).out) = Len(c) + 2
        BY <1>3, <3>0, <3>1, <4>2, <4>3, WrapperLength
      <4> QED BY <3>1, <4>1, <4>4
    <3>2. CASE ~o.explicit
      <4>1. w = c BY <1>1, <1>2, <1>3, <2>1, <3>2 DEF Written, MissingEoc
      <4> QED BY <3>0, <3>2, <4>1
    <3> QED BY <3>1, <3>2
  <2>6. PICK z : z = q.length_bytes[1].n OBVIOUS
  <2>7. LengthOf(z, o.explicit, ids) BY <1>1, <1>2, <2>4, <2>5, <2>6 DEF LengthOf
  <2>8. LengthOf(z, o.explicit, ids)' BY <2>1, <2>3, <2>7, LengthKept
  <2> QED BY <1>6, <2>6, <2>8
<1>9. ids = q.at_value.ids BY <1>3, <1>6
<1> QED BY <1>1, <1>2, <1>8, <1>9, LengthIs

\* A step of the encoder keeps ArrayLengthInv: the length that ToDerEnd caches
\* is the length of what the elements encode to.
LEMMA EncoderLength ==
  ASSUME IInv, NodesInv, LoopInv, ArrayLengthInv, EncoderStep
  PROVE  ArrayLengthInv'
<1>0. PICK o, h, q, ids : o = obj[Root] /\ h = hist[Root] /\ q = obj'[Root]
                          /\ ids = obj'[Root].at_value.ids OBVIOUS
<1>1. hist' = hist /\ (\A m \in Node \ {Root} : hist[m].retag \/ Firm(m)) /\ KeptRoot(q, o)
  BY <1>0, EncoderEffects DEF EncoderEffect
<1>2. CASE o.length_bytes # << >>
  <2>1. ASSUME Measured(q, h, ids), NoneRetag(ids)'
        PROVE  /\ Measured(o, h, ids) /\ NoneRetag(ids)
               /\ q.explicit = o.explicit /\ q.length_bytes = o.length_bytes
               /\ \A i \in DOMAIN ids : Firm(ids[i])
    <3>1. Measured(o, h, ids) /\ q.explicit = o.explicit /\ q.length_bytes = o.length_bytes
      BY <1>1, <1>2, <2>1 DEF KeptRoot, SameIdentity, Measured
    <3>2. NoneRetag(ids) BY <1>1, <2>1 DEF NoneRetag
    <3>3. \A i \in DOMAIN ids : ids[i] \in Node \ {Root} BY <1>0, <3>1, MeasuredElements
    <3> QED BY <1>1, <3>1, <3>2, <3>3 DEF NoneRetag
  <2> QED BY <1>0, <1>1, <2>1, LengthStays
<1>3. CASE o.length_bytes = << >>
  <2>1. CASE Measured(q, h, ids)
    <3>1. o.bytes.null /\ o.at_value.kind = "ary" /\ ~o.inf /\ q.length_bytes # << >>
      BY <1>1, <2>1 DEF KeptRoot, SameIdentity, Measured
    <3>2. call.active /\ call.n = Root /\ call.i > Len(call.ids) BY <1>1, <1>3, <3>1 DEF KeptRoot
    <3>3. call.i \in Nat /\ Len(call.ids) \in Nat BY EncoderFinds, NodesFind DEF CallOK, CallType
    <3>4. ToDerEnd \/ ToDerEndRaises
      <4>1. \A n : ~ToDerScalar(n) /\ ~ToDerRefused(n) /\ ~ToDerSortRaises(n)
        BY <3>2, Zenon DEF ToDerScalar, ToDerRefused, ToDerSortRaises
      <4>2. ~(call.i <= Len(call.ids)) BY <3>2, <3>3
      <4>3. ~EncodeElement /\ ~EncodeElementFails
        BY <4>2, Zenon DEF EncodeElement, EncodeElementFails
      <4> QED BY <4>1, <4>3, Zenon DEF EncoderStep
    <3>5. CASE ToDerEnd BY <1>0, <1>3, <3>2, <3>5, EndLength
    <3>6. CASE ToDerEndRaises BY <1>0, <1>3, <3>1, <3>6 DEF ToDerEndRaises
    <3> QED BY <3>4, <3>5, <3>6
  <2>2. CASE ~Measured(q, h, ids) BY <1>0, <1>1, <2>2, LengthIs
  <2> QED BY <2>1, <2>2
<1> QED BY <1>2, <1>3

\* The beginning of the encoding of an Array keeps ArrayLengthInv: sorting does
\* not change the length.
LEMMA BeginLength ==
  ASSUME IInv, NodesInv, ArrayLengthInv, NEW n \in Live, ToDerBegin(n)
  PROVE  ArrayLengthInv'
<1>0. PICK o, h, q, ids, was : /\ o = obj[Root] /\ h = hist[Root] /\ q = obj'[Root]
                               /\ ids = obj'[Root].at_value.ids /\ was = obj[Root].at_value.ids
  OBVIOUS
<1>1. PICK order :
        /\ order \in Seq(ElementId) /\ Len(order) = Len(obj[n].at_value.ids)
        /\ obj' = [m \in Node |-> IF m = n THEN int_cons_sort_set(HeaderFirst(Outer(obj[n])), order)
                                  ELSE obj[m]]
        /\ \/ order = obj[n].at_value.ids
           \/ /\ order \in SortedOrders(obj[n].at_value.ids)
              /\ AllEncode(obj[n].at_value.ids) BY BeginFacts
<1>2. hist' = hist /\ obj[n].bytes.null /\ obj[n].at_value.kind = "ary" BY BeginFacts
<1>3. Root \in Node /\ n \in Node BY NodesFind
<1>4. CASE n # Root
  <2>1. q = o /\ hist[n].retag /\ \A m \in Node : m # n => obj'[m] = obj[m]
    BY <1>0, <1>1, <1>2, <1>3, <1>4, ArrayElement
  <2>2. ASSUME Measured(q, h, ids), NoneRetag(ids)'
        PROVE  /\ Measured(o, h, ids) /\ NoneRetag(ids)
               /\ \A i \in DOMAIN ids : Firm(ids[i])
    <3>1. Measured(o, h, ids) /\ NoneRetag(ids) BY <1>2, <2>1, <2>2 DEF NoneRetag
    <3>2. \A i \in DOMAIN ids : ids[i] \in Node /\ ids[i] # n
      BY <1>0, <2>1, <3>1, MeasuredElements DEF NoneRetag
    <3> QED BY <2>1, <3>1, <3>2, FirmSame
  <2> QED BY <1>0, <1>2, <2>1, <2>2, LengthStays
<1>5. CASE n = Root
  <2>1. PICK x : x = HeaderFirst(Outer(obj[n])) OBVIOUS
  <2>2. /\ x \in Object /\ SameIdentity(x, o) /\ x.modified = o.modified
        /\ o.length_bytes # << >> => x.length_bytes = o.length_bytes
        /\ o.length_bytes = << >> /\ ~o.inf => x.length_bytes = << >>
    BY <1>0, <1>5, <2>1, <1>2, BegunObject DEF LengthFor
  <2>3. q = int_cons_sort_set(x, order) /\ \A m \in Node : m # Root => obj'[m] = obj[m]
    BY <1>0, <1>1, <1>3, <1>5, <2>1
  <2>4. /\ q.at_value = Ary(order) /\ SameHolder(q, o) /\ q.length_bytes = x.length_bytes
    BY <2>2, <2>3, SortedObject
  <2>5. ids = order /\ q.explicit = o.explicit /\ q.inf = o.inf BY <1>0, <2>4 DEF SameHolder, Ary
  <2>6. ASSUME Measured(q, h, ids), NoneRetag(ids)'
        PROVE  LengthOf(q.length_bytes[1].n, q.explicit, ids)'
    <3>1. ~o.inf /\ o.length_bytes # << >> /\ q.length_bytes = o.length_bytes
      BY <2>2, <2>4, <2>5, <2>6 DEF Measured
    <3>2. was \in Seq(ElementId) BY <1>0, <1>3, NodesFind
    <3>3. order = was \/ (order \in SortedOrders(was) /\ AllEncode(was)) BY <1>0, <1>1, <1>5
    <3>4. /\ \A i \in DOMAIN was : \E j \in DOMAIN ids : ids[j] = was[i]
          /\ AllEncode(ids) => AllEncode(was)
          /\ Len(Octets(ids)) = Len(Octets(was))
          /\ \A i \in DOMAIN ids : \E j \in DOMAIN was : was[j] = ids[i]
      <4>1. CASE order = was BY <2>5, <4>1
      <4>2. CASE order \in SortedOrders(was) /\ AllEncode(was)
        <5>1. was \in Seq(Node) BY <3>2, <4>2, EncodingElements
        <5>2. /\ \A i \in DOMAIN was : \E j \in DOMAIN order : order[j] = was[i]
              /\ AllEncode(order) => AllEncode(was)
              /\ Len(Octets(order)) = Len(Octets(was)) BY <4>2, <5>1, SortedLength
        <5>3. PICK p \in [DOMAIN was -> DOMAIN was] :
                order = [i \in DOMAIN was |-> was[p[i]]] BY <4>2, <5>1, SortedFacts
        <5>4. \A i \in DOMAIN order : \E j \in DOMAIN was : was[j] = order[i] BY <5>3
        <5> QED BY <2>5, <5>2, <5>4
      <4> QED BY <3>3, <4>1, <4>2
    <3>5. \A i \in DOMAIN was : was[i] # NilElem BY <2>6, <3>4 DEF Measured
    <3>6. Measured(o, h, was) BY <1>0, <1>2, <1>5, <2>6, <3>1, <3>5 DEF Measured
    <3>7. NoneRetag(was) BY <1>2, <2>6, <3>4 DEF NoneRetag
    <3>8. LengthOf(o.length_bytes[1].n, o.explicit, was) BY <1>0, <3>6, <3>7, LengthWas
    <3>9. PICK z : z = q.length_bytes[1].n OBVIOUS
    <3>10. LengthOf(z, q.explicit, ids) BY <2>5, <3>1, <3>4, <3>8, <3>9 DEF LengthOf
    <3>11. \A i \in DOMAIN was : was[i] \in Node \ {Root} BY <1>0, <3>6, MeasuredElements
    <3>12. \A i \in DOMAIN ids : Firm(ids[i]) /\ ids[i] # NilElem
      BY <2>3, <2>6, <3>4, <3>11, FirmSame DEF Measured
    <3>13. LengthOf(z, q.explicit, ids)' BY <3>10, <3>12, LengthKept
    <3> QED BY <3>9, <3>13
  <2> QED BY <1>0, <1>2, <2>6, LengthIs
<1> QED BY <1>4, <1>5

\* Two members put together.
LEMMA PairOf ==
  ASSUME NEW S, NEW x \in S, NEW y \in S
  PROVE  << x >> \o << y >> = << x, y >>
<1>0. PICK a, b, d : a = << x >> /\ b = << y >> /\ d = << x, y >> OBVIOUS
<1>1. a \in Seq(S) /\ b \in Seq(S) /\ Len(a) = 1 /\ Len(b) = 1 /\ a[1] = x /\ b[1] = y BY <1>0
<1>2. d \in Seq(S) /\ Len(d) = 2 /\ d[1] = x /\ d[2] = y BY <1>0
<1>3. a \o b \in Seq(S) /\ Len(a \o b) = 2 /\ (a \o b)[1] = x /\ (a \o b)[2] = y
  BY <1>1, ConcatProperties
<1>4. \A i \in 1..2 : i = 1 \/ i = 2 OBVIOUS
<1>5. a \o b = d BY <1>2, <1>3, <1>4, SeqEqual
<1> QED BY <1>0, <1>5

\* An element that was just read encodes to the octets it was read from, if
\* it encodes.
LEMMA ElementEncodes ==
  ASSUME NEW e \in Elem, ~e.id.cons, ~e.len.inf, e.len.n = Len(e.oct)
  PROVE  LET p == Parsed(e.id, e.len, Primitive(e.oct))
         IN  /\ p.length_bytes = << e.len >>
             /\ EncodeScalar(p).ok => EncodeScalar(p).out = ElemTokens(e)
<1>0. PICK p, b : p = Parsed(e.id, e.len, b) /\ b = Primitive(e.oct) OBVIOUS
<1>1. /\ e.id \in IdentifierToken /\ e.len \in LengthToken /\ e.oct \in Seq(Octet) BY DEF Elem
<1>2. b \in Bytes /\ b.tok = e.oct /\ b.null = FALSE
  <2>1. e.oct \in Seq(Token) /\ << >> \in Seq(Elem) BY <1>1, TokenSeqs, EmptyAndSingle
  <2> QED BY <1>0, <2>1 DEF Primitive, Bytes
<1>3. p \in Object BY <1>0, <1>1, <1>2, ParsedType
<1>4. /\ p.tag_bytes = << e.id >> /\ p.length_bytes = << e.len >> /\ ~p.explicit /\ ~p.cons
      /\ p.bytes = IF e.len.n = 0 THEN NoBytes ELSE b
      /\ p.at_value = NilValue BY <1>0 DEF Parsed
<1>5. \A x : << x >> # << >> OBVIOUS
<1>6. ASSUME EncodeScalar(p).ok
      PROVE  EncodeScalar(p).out = ElemTokens(e)
  <2>1. PICK r : r = EncodeScalar(p) OBVIOUS
  <2>2. ScalarEffect(r, p) BY <1>3, <1>4, <2>1, EncodeEffect
  <2>3. ScalarOk(p) BY <1>6, <2>1, <2>2 DEF ScalarEffect
  <2>4. r.out = << e.id >> \o << e.len >> \o ScalarContent(p)
    BY <1>4, <1>5, <2>2, <2>3 DEF ScalarEffect, HeaderOf, TagFor, LengthFor
  <2>5. ScalarContent(p) = e.oct
    <3>1. CASE e.len.n = 0
      <4>1. p.bytes.null /\ e.oct = << >>
        <5>1. Len(e.oct) = 0 /\ p.bytes = NoBytes BY <1>4, <3>1
        <5>2. e.oct = << >> BY <1>1, <5>1, EmptySeq
        <5> QED BY <5>1, <5>2 DEF NoBytes
      <4>2. EncodedValue(p, p.at_value).tok = << >>
        BY <1>4 DEF EncodedValue, encoder, NilValue, NoBytes
      <4> QED BY <1>4, <4>1, <4>2 DEF ScalarContent
    <3>2. CASE e.len.n # 0 BY <1>2, <1>4, <3>2 DEF ScalarContent
    <3> QED BY <3>1, <3>2
  <2>7. e.id \in Token /\ e.len \in Token BY <1>1 DEF Token
  <2>6. << e.id >> \o << e.len >> = << e.id, e.len >> BY <2>7, PairOf
  <2> QED BY <2>1, <2>4, <2>5, <2>6, Zenon DEF ElemTokens
<1> QED BY <1>0, <1>4, <1>6

\* The objects of the elements that were read.
LEMMA ReadObjects ==
  ASSUME IInv, NodesInv, NEW o, o = obj[Root], NEW k, k = KeptElems(o), NEW ids, ids = ElementIds(k),
         ~o.decoded, o.cons, CanDecode(o), GetValue(Root)
  PROVE  \A i \in 1..Len(k) : ids[i] # NilElem =>
           /\ k[i] \in Elem /\ ~k[i].id.cons /\ ~k[i].len.inf /\ k[i].len.n = Len(k[i].oct)
           /\ obj'[ids[i]] = Parsed(k[i].id, k[i].len, Primitive(k[i].oct))
<1>0. PICK w : w = Whole(k) OBVIOUS
<1>1. /\ o \in Object /\ ElemsSound(o.bytes.elems) /\ count \in Nat /\ MaxElems \in Nat
      /\ NodesOK /\ BytesInv(o)
  <2>1. BytesInv(o) /\ o \in Object /\ NodesOK BY NodesFind DEF ObjInv
  <2> QED BY <2>1, NodeFacts DEF BytesInv, NodesOK
<1>2. /\ k \in Seq(Elem) /\ w \in Seq(Elem)
      /\ \A i \in 1..Len(k) : ~IsShort(k[i]) => i \in 1..Len(w) /\ w[i] = k[i]
  BY <1>0, <1>1, KeptFacts
<1>3. NewElems(o) = w BY <1>0 DEF NewElems
<1>4. /\ count + Len(w) <= MaxElems
      /\ \A m \in Node : m # Root /\ m \in (count + 1)..(count + Len(w)) =>
           obj'[m] = Parsed(w[m - count].id, w[m - count].len, Primitive(w[m - count].oct))
  BY <1>3 DEF GetValue, Store
<1>5. /\ \A i \in 1..Len(w) : ~w[i].id.cons /\ ~w[i].len.inf /\ w[i].len.n = Len(w[i].oct)
  BY <1>1, <1>3, NewElemsSound
<1>6. DOMAIN ids = 1..Len(k)
      /\ \A i \in 1..Len(k) : ids[i] = IF IsShort(k[i]) THEN NilElem ELSE count + i
  BY <1>2 DEF ElementIds
<1>7. ASSUME NEW i \in 1..Len(k), ids[i] # NilElem
      PROVE  /\ k[i] \in Elem /\ ~k[i].id.cons /\ ~k[i].len.inf /\ k[i].len.n = Len(k[i].oct)
             /\ obj'[ids[i]] = Parsed(k[i].id, k[i].len, Primitive(k[i].oct))
  <2>1. ids[i] = count + i /\ ~IsShort(k[i]) /\ i \in 1..Len(w) /\ w[i] = k[i]
    BY <1>2, <1>6, <1>7
  <2>2. Len(w) \in Nat /\ count + i \in Node /\ count + i # Root /\ (count + i) - count = i
        /\ count + i \in (count + 1)..(count + Len(w)) BY <1>1, <1>2, <1>4, <2>1 DEF Node, Root
  <2>3. obj'[count + i] = Parsed(w[i].id, w[i].len, Primitive(w[i].oct)) BY <1>4, <2>2
  <2>4. k[i] \in Elem BY <1>2
  <2> QED BY <1>5, <2>1, <2>3, <2>4
<1> QED BY <1>7

\* Reading a value keeps ArrayLengthInv: the length that was parsed is the
\* length of the elements.
LEMMA GetValueLength ==
  ASSUME IInv, NodesInv, ArrayLengthInv, NEW n \in Live, GetValue(n)
  PROVE  ArrayLengthInv'
<1>0. PICK o, h, q, g, ids : o = obj[Root] /\ h = hist[Root] /\ q = obj'[Root]
                          /\ g = hist'[Root] /\ ids = obj'[Root].at_value.ids OBVIOUS
<1>1. /\ obj'[n] = AfterDecode(obj[n])
      /\ \A m \in Live : m # n => obj'[m] = obj[m] /\ hist'[m] = hist[m]
      /\ hist'[n] = [hist[n] EXCEPT !.lost = @ \/ LosesValue(obj[n])]
      /\ Root \in Live /\ Live \subseteq Node /\ count \in Nat BY ReadRoot, NodesFind
<1>2. \A m \in Live : /\ hist'[m].retag = hist[m].retag /\ hist'[m].stale = hist[m].stale
                      /\ hist'[m].flip = hist[m].flip /\ (~hist'[m].lost => ~hist[m].lost)
  BY <1>1, NodesFind DEF HistType
<1>3. ASSUME Measured(o, h, ids), q.explicit = o.explicit, q.length_bytes = o.length_bytes
      PROVE  ArrayLengthInv'
  <2>1. \A i \in DOMAIN ids : ids[i] \in Live /\ ids[i] \in Node \ {Root}
    BY <1>0, <1>3, MeasuredElements
  <2>2. ASSUME NoneRetag(ids)'
        PROVE  /\ NoneRetag(ids)
               /\ \A i \in DOMAIN ids : obj[ids[i]].length_bytes # << >> => Firm(ids[i])
    <3>1. NoneRetag(ids) BY <1>2, <2>1, <2>2 DEF NoneRetag
    <3>2. ASSUME NEW i \in DOMAIN ids, obj[ids[i]].length_bytes # << >>
          PROVE  Firm(ids[i])
      <4>0. PICK m, x, y : m = ids[i] /\ x = obj[ids[i]] /\ y = AfterDecode(obj[ids[i]]) OBVIOUS
      <4>1. m \in Live /\ m \in Node /\ m # Root /\ ~hist[m].retag
        BY <2>1, <3>1, <4>0 DEF NoneRetag
      <4>2. CASE m = n
        <5>1. /\ hist[m] \in HistType /\ Sound(x) /\ ObjInv(x, hist[m])
              /\ NodeInv(x, hist[m]) /\ ElementInv(x, hist[m])
              /\ x.at_value.ids \in Seq(ElementId) BY <4>0, <4>1, NodesFind
        <5>2. Alike(AfterDecode(x), x) /\ AfterDecode(x).length_bytes = x.length_bytes
          BY <1>1, <3>2, <4>0, <4>1, <5>1, DecodeAlike
        <5>3. obj'[m] = y /\ obj[m] = x /\ y = AfterDecode(x) BY <1>1, <4>0, <4>2
        <5> QED BY <4>0, <5>2, <5>3 DEF Firm
      <4>3. CASE m # n BY <1>1, <4>0, <4>1, <4>3, FirmSame
      <4> QED BY <4>2, <4>3
    <3> QED BY <3>1, <3>2
  <2> QED BY <1>0, <1>3, <2>2, LengthStays
<1>4. CASE n # Root
  <2>1. q = o /\ g = h BY <1>0, <1>1, <1>4
  <2>2. CASE Measured(q, g, ids) BY <1>3, <2>1, <2>2
  <2>3. CASE ~Measured(q, g, ids) BY <1>0, <2>3, LengthIs
  <2> QED BY <2>2, <2>3
<1>5. CASE n = Root
  <2>1. CASE ~Measured(q, g, ids) BY <1>0, <2>1, LengthIs
  <2>2. CASE Measured(q, g, ids)
    <3>1. /\ o \in Object /\ h \in HistType /\ BytesInv(o) /\ ContentInv(o) /\ HistoryInv(o, h)
          /\ LengthInv(o, h) /\ WrappedLengthInv(o, h)
      BY <1>0, <1>1, NodesFind DEF ObjInv, NodeInv
    <3>2. DecodeResult(q, o) BY <1>0, <1>1, <1>5, <3>1, DecodeEffect
    <3>3. /\ ~h.stale /\ ~h.flip /\ ~h.lost /\ ~h.retag /\ ~g.lost
      BY <1>0, <1>2, <1>1, <2>2 DEF Measured
    <3>4. ~LosesValue(o)
      <4>1. g = [h EXCEPT !.lost = @ \/ LosesValue(o)] BY <1>0, <1>1, <1>5
      <4> QED BY <3>1, <3>3, <4>1 DEF HistType
    <3>5. CASE q = o
      <4>1. Measured(o, h, ids) BY <2>2, <3>3, <3>5 DEF Measured
      <4> QED BY <1>3, <3>5, <4>1
    <3>6. CASE ~o.decoded /\ ~o.cons /\ CanDecode(o)
      BY <2>2, <3>2, <3>6 DEF DecodeResult, Measured
    <3>7. CASE ~o.decoded /\ o.cons /\ ~CanDecode(o) BY <3>4, <3>7 DEF LosesValue
    <3>8. CASE ~o.decoded /\ o.cons /\ CanDecode(o)
      <4>1. PICK k : k = KeptElems(o) OBVIOUS
      <4>2. ids = ElementIds(k) /\ q.length_bytes = o.length_bytes /\ q.inf = o.inf
            /\ q.explicit = o.explicit
        <5>1. q.at_value = Ary(ElementIds(KeptElems(o))) /\ DecodedFrom(q, o)
          BY <3>2, <3>8 DEF DecodeResult
        <5>2. q.at_value.ids = ElementIds(k) BY <4>1, <5>1 DEF Ary
        <5> QED BY <1>0, <5>1, <5>2 DEF DecodedFrom
      <4>3. ~o.explicit /\ ~o.inf /\ o.length_bytes # << >> /\ o.at_value = NilValue
        BY <2>2, <3>1, <3>3, <3>4, <3>8, <4>2 DEF HistoryInv, Measured, LosesValue
      <4>4. \A i \in DOMAIN ids : ids[i] # NilElem BY <2>2 DEF Measured
      <4>5. /\ ElemsSound(o.bytes.elems) /\ o.bytes.tok = Constructed(o.bytes.elems).tok
        BY <3>1, <3>8 DEF BytesInv, ContentInv
      <4>6. o.bytes.tok = FlattenSeq(EachTokens(k)) /\ k \in Seq(Elem)
        BY <3>1, <4>1, <4>3, <4>5, ElementsJoined, KeptFacts
      <4>7. o.length_bytes[1].n = Len(o.bytes.tok)
        <5>1. CASE ~o.bytes.null BY <3>1, <3>3, <4>3, <5>1 DEF LengthInv
        <5>2. CASE o.bytes.null
          <6>1. o.length_bytes[1].n = 0
            BY <3>1, <3>3, <3>8, <4>3, <5>2 DEF WrappedLengthInv, NilValue
          <6>2. o.bytes.tok = << >> /\ Len(<< >>) = 0 BY <3>1, <5>2 DEF BytesInv
          <6> QED BY <6>1, <6>2
        <5> QED BY <5>1, <5>2
      <4>8. DOMAIN ids = 1..Len(k) BY <4>2, <4>6 DEF ElementIds
      <4>9. \A i \in 1..Len(k) :
              /\ k[i] \in Elem /\ ~k[i].id.cons /\ ~k[i].len.inf /\ k[i].len.n = Len(k[i].oct)
              /\ obj'[ids[i]] = Parsed(k[i].id, k[i].len, Primitive(k[i].oct))
        BY <1>0, <1>5, <3>8, <4>1, <4>2, <4>4, <4>8, ReadObjects
      <4>10. \A i \in 1..Len(k) :
               /\ obj'[ids[i]].length_bytes # << >>
               /\ EncodeScalar(obj'[ids[i]]).ok => EncodeScalar(obj'[ids[i]]).out = ElemTokens(k[i])
        <5>1. ASSUME NEW i \in 1..Len(k)
              PROVE  /\ obj'[ids[i]].length_bytes # << >>
                     /\ EncodeScalar(obj'[ids[i]]).ok =>
                          EncodeScalar(obj'[ids[i]]).out = ElemTokens(k[i])
          <6>1. PICK e, p : e = k[i] /\ p = Parsed(e.id, e.len, Primitive(e.oct)) OBVIOUS
          <6>2. /\ e \in Elem /\ ~e.id.cons /\ ~e.len.inf /\ e.len.n = Len(e.oct)
                /\ obj'[ids[i]] = p BY <4>9, <6>1
          <6>3. p.length_bytes = << e.len >>
                /\ (EncodeScalar(p).ok => EncodeScalar(p).out = ElemTokens(e))
            BY <6>1, <6>2, ElementEncodes
          <6> QED BY <6>1, <6>2, <6>3
        <5> QED BY <5>1
      <4>11. ASSUME AllEncode(ids)'
             PROVE  Octets(ids)' = FlattenSeq(EachTokens(k))
        <5>1. \A i \in 1..Len(k) : EncodeScalar(obj'[ids[i]]).out = ElemTokens(k[i])
          BY <4>8, <4>10, <4>11 DEF AllEncode, Encodes
        <5>2. [i \in DOMAIN ids |-> EncodeScalar(obj'[ids[i]]).out] = EachTokens(k)
          BY <4>6, <4>8, <5>1 DEF EachTokens
        <5> QED BY <5>2 DEF Octets
      <4>12. PICK z : z = o.length_bytes[1].n OBVIOUS
      <4>13. Len(FlattenSeq(EachTokens(k))) \in Nat BY <4>6, TokensType
      <4>14. LengthOf(z, FALSE, ids)'
        BY <4>6, <4>7, <4>8, <4>10, <4>11, <4>12, <4>13 DEF LengthOf
      <4>15. q.length_bytes[1].n = z /\ q.explicit = FALSE BY <3>1, <4>2, <4>3, <4>12 DEF Object
      <4> QED BY <1>0, <4>14, <4>15, LengthIs
    <3> QED BY <3>2, <3>5, <3>6, <3>7, <3>8 DEF DecodeResult
  <2> QED BY <2>1, <2>2
<1> QED BY <1>4, <1>5

\* Every step keeps ArrayLengthInv.
LEMMA LengthStep ==
  ASSUME IInv, NodesInv, LoopInv, ArrayLengthInv, [Next]_vars
  PROVE  ArrayLengthInv'
<1>1. CASE UNCHANGED vars
  <2>1. UNCHANGED << obj, hist >> BY <1>1 DEF vars
  <2>2. \A ids : AllEncode(ids)' = AllEncode(ids) /\ Octets(ids)' = Octets(ids)
    BY <2>1, SameObjects
  <2> QED BY <2>1, <2>2 DEF ArrayLengthInv
<1>2. CASE Next
  <2>1. ASSUME NEW a \in ElemNews, New(a)
        PROVE  ArrayLengthInv'
    BY <2>1, NewLength
  <2>2. ASSUME NEW n \in Live, GetValue(n)
        PROVE  ArrayLengthInv'
    BY <2>2, GetValueLength
  <2>3. ASSUME NEW n \in Live,
               \/ \E t \in NewTags : SetTag(n, t)
               \/ \E sym \in TagClassSymbol : SetTagClass(n, sym)
               \/ SetInfiniteLength(n)
               \/ \E v \in NewValues : SetValue(n, v)
        PROVE  ArrayLengthInv'
    <3>1. SetterEffect(n) /\ RootStale(n)
      BY <2>3, SetTagEffect, SetTagClassEffect, SetInfiniteLengthEffect, SetValueEffect
    <3>2. CASE n # Root BY <3>1, <3>2, ElementLength
    <3>3. CASE n = Root
      <4>1. \A v \in NewValues : v \in Value BY ConstantsAssumption
      <4>2. SetAs(obj'[n], obj[n], n)
        BY <2>3, <4>1, SetTagAs, SetTagClassAs, SetInfiniteLengthAs, SetValueAs
      <4> QED BY <3>1, <3>3, <4>2, RootLength
    <3> QED BY <3>2, <3>3
  <2>4. ASSUME NEW n \in Live, NEW bits \in NewBits, SetUnusedBits(n, bits)
        PROVE  ArrayLengthInv'
    BY <2>4, BitsLength
  <2>5. ASSUME NEW v \in Arrays, SetValue(Root, v)
        PROVE  ArrayLengthInv'
    <3>1. v \in Value /\ Root \in Live BY ArraysType, NodesFind
    <3>2. SetAs(obj'[Root], obj[Root], Root) /\ SetterEffect(Root)
      BY <2>5, <3>1, SetValueAs, SetValueEffect
    <3> QED BY <3>2, RootLength
  <2>6. ASSUME NEW n \in Live, ToDerBegin(n)
        PROVE  ArrayLengthInv'
    BY <2>6, BeginLength
  <2>7. ASSUME EncoderStep
        PROVE  ArrayLengthInv'
    BY <2>7, EncoderLength
  <2> QED BY <1>2, <2>1, <2>2, <2>3, <2>4, <2>5, <2>6, <2>7 DEF Next, EncoderStep
<1> QED BY <1>1, <1>2

\* WrittenInv holds initially.
LEMMA InitWritten == Init => WrittenInv
<1> SUFFICES ASSUME Init
             PROVE  WrittenInv
  OBVIOUS
<1>1. IInv /\ NodesInv BY InitIInv, InitNodes
<1>2. PICK root, src : /\ InitWith(root, src)
                       /\ ~root.decoded \/ (src = << >> /\ root.modified /\ root.length_bytes = << >>)
                       /\ root.at_value.kind = "ary" => root.decoded
  <2>1. CASE \E w \in RootWires : InitWith(Parsed(w.id, w.len, w.bytes),
                                           << w.id, w.len >> \o w.bytes.tok)
    BY <2>1 DEF Parsed, NilValue
  <2>2. CASE \E a \in RootNews : InitWith(Created(a.value, a.tag, a.sym, a.default_tag), <<>>)
    BY <2>2 DEF Created
  <2> QED BY <2>1, <2>2 DEF Init
<1>3. /\ obj[Root] = root /\ hist[Root].src = src
      /\ ~call.active /\ ret.op = "none"
  <2>1. Root \in Node BY <1>1, NodesFind
  <2> QED BY <1>2, <2>1 DEF InitWith, Idle, NoRet, NewHist
<1>4. ElementsInv BY <1>2, <1>3 DEF ElementsInv
<1>5. ArrayLengthInv BY <1>2, <1>3 DEF ArrayLengthInv
<1>6. SortedInv BY <1>2, <1>3 DEF SortedInv
<1>7. LoopInv /\ RetInv BY <1>3 DEF LoopInv, RetInv
<1> QED BY <1>1, <1>4, <1>5, <1>6, <1>7 DEF WrittenInv

\* Every step keeps WrittenInv.
LEMMA NextWritten == WrittenInv /\ [Next]_vars => WrittenInv'
<1> SUFFICES ASSUME WrittenInv, [Next]_vars
             PROVE  WrittenInv'
  OBVIOUS
<1>1. IInv /\ NodesInv /\ ElementsInv /\ ArrayLengthInv /\ SortedInv /\ LoopInv /\ RetInv
  BY DEF WrittenInv
<1>2. IInv' BY <1>1, NextIInv
<1>3. NodesInv' BY <1>1, NodesStep
<1>4. ElementsInv' BY <1>1, ElementsStep
<1>5. ArrayLengthInv' BY <1>1, LengthStep
<1>6. SortedInv' BY <1>1, SortedStep
<1>7. LoopInv' BY <1>1, LoopStep
<1>8. RetInv' BY <1>1, RetStep
<1> QED BY <1>2, <1>3, <1>4, <1>5, <1>6, <1>7, <1>8 DEF WrittenInv

\* The inductive invariant of what is written: what each object has cached
\* agrees with its history, what is written of an Array so far is its elements,
\* an untouched root has the elements it was parsed from, an unmodified SET is
\* in order, a cached length is the length of the elements, and what to_der
\* returned would be returned again (Asn1Data's get_value, to_der and setters).
THEOREM WrittenInvariant == Spec => []WrittenInv
  BY InitWritten, NextWritten, PTL DEF Spec

\* The elements decoded from an untouched object, with the end-of-contents of
\* an indefinite length, are all of its value (int_asn1_cons_value_decode and
\* the objects it creates).
THEOREM ElementsAreComplete == Spec => []DecodedElementsComplete
<1>1. WrittenInv => DecodedElementsComplete
  BY DEF WrittenInv, ElementsInv, DecodedElementsComplete
<1> QED BY <1>1, WrittenInvariant, PTL

-----------------------------------------------------------------------------
(* What the invariant says of the octets that were written.                *)

\* What follows the two tokens of a header.
LEMMA AfterTwo ==
  ASSUME NEW T, NEW out \in Seq(T), NEW n \in Nat, Len(out) = 2 + n
  PROVE  /\ SubSeq(out, 3, 2 + n) \in Seq(T) /\ Len(SubSeq(out, 3, 2 + n)) = n
         /\ \A i \in 1..n : SubSeq(out, 3, 2 + n)[i] = out[i + 2]
<1>1. \A i \in 3..(2 + n) : out[i] \in T OBVIOUS
<1>2. 3 \in Int /\ 2 + n \in Int OBVIOUS
<1>3. /\ SubSeq(out, 3, 2 + n) \in Seq(T)
      /\ Len(SubSeq(out, 3, 2 + n)) = IF 3 <= 2 + n THEN 2 + n - 3 + 1 ELSE 0
      /\ \A i \in 1 .. 2 + n - 3 + 1 : SubSeq(out, 3, 2 + n)[i] = out[3 + i - 1]
  BY <1>1, <1>2, SubSeqProperties
<1>4. (IF 3 <= 2 + n THEN 2 + n - 3 + 1 ELSE 0) = n /\ 2 + n - 3 + 1 = n OBVIOUS
<1>5. \A i \in 1..n : 3 + i - 1 = i + 2 OBVIOUS
<1> QED BY <1>3, <1>4, <1>5

\* The octets of one header and a content, and what they are apart.
Joined(out, a, b, c) ==
  /\ a \in Seq(Token) /\ b \in Seq(Token) /\ c \in Seq(Token)
  /\ Len(a) = 1 /\ Len(b) = 1
  /\ out = a \o b \o c

Parts(out, a, b, c) ==
  /\ out \in Seq(Token) /\ Len(out) = Len(c) + 2
  /\ out[1] = a[1] /\ out[2] = b[1]
  /\ \A i \in 1..Len(c) : out[i + 2] = c[i]
  /\ SubSeq(out, 3, Len(out)) = c

\* An encoding taken apart: its identifier, its length, and its content.
LEMMA HeaderThenContent ==
  ASSUME NEW out, NEW a, NEW b, NEW c, Joined(out, a, b, c)
  PROVE  Parts(out, a, b, c)
<1>j. /\ a \in Seq(Token) /\ b \in Seq(Token) /\ c \in Seq(Token)
      /\ Len(a) = 1 /\ Len(b) = 1 /\ out = a \o b \o c BY DEF Joined
<1>0. PICK n, ab : n = Len(c) /\ ab = a \o b OBVIOUS
<1>1. n \in Nat /\ ab \in Seq(Token) BY <1>0, <1>j
<1>2. Len(ab) = 2 /\ ab[1] = a[1] /\ ab[2] = b[1]
  <2>1. /\ Len(ab) = Len(a) + Len(b)
        /\ \A i \in 1..(Len(a) + Len(b)) : ab[i] = IF i <= Len(a) THEN a[i] ELSE b[i - Len(a)]
    <3>1. a \in Seq(Token) /\ b \in Seq(Token) BY <1>j
    <3> QED BY <1>0, <3>1, ConcatAt
  <2> QED BY <1>j, <2>1
<1>3. /\ Len(out) = 2 + n
      /\ \A i \in 1..(2 + n) : out[i] = IF i <= 2 THEN ab[i] ELSE c[i - 2]
  <2>1. ab \in Seq(Token) /\ c \in Seq(Token) BY <1>1, <1>j
  <2>2. out = ab \o c BY <1>0, <1>j
  <2>3. /\ Len(out) = Len(ab) + Len(c)
        /\ \A i \in 1..(Len(ab) + Len(c)) : out[i] = IF i <= Len(ab) THEN ab[i] ELSE c[i - Len(ab)]
    BY <2>1, <2>2, ConcatAt
  <2> QED BY <1>0, <1>2, <2>3
<1>4. out \in Seq(Token) BY <1>0, <1>1, <1>j
<1>5. \A i \in 1..n : out[i + 2] = c[i]
  <2> SUFFICES ASSUME NEW i \in 1..n
               PROVE  out[i + 2] = c[i]
    OBVIOUS
  <2>1. i + 2 \in 1..(2 + n) /\ ~(i + 2 <= 2) /\ (i + 2) - 2 = i BY <1>1
  <2> QED BY <1>3, <2>1
<1>6. SubSeq(out, 3, Len(out)) = c
  <2>1. PICK s : s = SubSeq(out, 3, 2 + n) OBVIOUS
  <2>2. s \in Seq(Token) /\ Len(s) = n /\ \A i \in 1..n : s[i] = out[i + 2]
    BY <1>1, <1>3, <1>4, <2>1, AfterTwo
  <2>3. \A i \in 1..n : s[i] = c[i] BY <1>5, <2>2
  <2>4. s = c
    <3>1. s \in Seq(Token) /\ c \in Seq(Token) /\ Len(s) = Len(c) /\ \A i \in 1..Len(s) : s[i] = c[i]
      BY <1>0, <1>j, <2>2, <2>3
    <3> QED BY <3>1, SeqEqual
  <2> QED BY <1>3, <2>1, <2>4
<1> QED
  <2>1. 2 + n = n + 2 BY <1>1
  <2> QED BY <1>0, <1>2, <1>3, <1>4, <1>5, <1>6, <2>1 DEF Parts

\* What is written of an object whose value is no Array.
LEMMA ScalarWritten ==
  ASSUME NEW o \in Object, o.explicit => o.default_tag # -1, HeaderInv(o),
         EncodeScalar(o).ok, NEW out, out = EncodeScalar(o).out
  PROVE  /\ ScalarOk(o) /\ ScalarContent(o) \in Seq(Token)
         /\ out \in Seq(Token) /\ Len(out) = Len(ScalarContent(o)) + 2
         /\ out[1] = TagFor(o, ScalarCons(o))[1]
         /\ out[2] = LengthFor(o, ScalarLength(o))[1]
         /\ \A i \in 1..Len(ScalarContent(o)) : out[i + 2] = ScalarContent(o)[i]
         /\ SubSeq(out, 3, Len(out)) = ScalarContent(o)
<1>0. PICK r : r = EncodeScalar(o) OBVIOUS
<1>1. ScalarEffect(r, o) BY <1>0, EncodeEffect
<1>2. ScalarOk(o) BY <1>0, <1>1 DEF ScalarEffect
<1>3. /\ ScalarContent(o) \in Seq(Token) /\ HeaderOf(r.obj, o)
      /\ r.out = r.obj.tag_bytes \o r.obj.length_bytes \o ScalarContent(o)
  BY <1>1, <1>2 DEF ScalarEffect
<1>4. PICK a, b, c, k, n : /\ k = ScalarCons(o) /\ n = ScalarLength(o) /\ c = ScalarContent(o)
                           /\ a = TagFor(o, k) /\ b = LengthFor(o, n) OBVIOUS
<1>5. k \in BOOLEAN /\ n \in Nat BY <1>3, <1>4 DEF ScalarCons, ScalarLength, Object
<1>6. a \in Seq(Token) /\ b \in Seq(Token) /\ a # << >> /\ b # << >> BY <1>4, <1>5, HeaderParts
<1>7. Len(a) = 1 /\ Len(b) = 1
  <2>1. \A x : Len(<< x >>) = 1 OBVIOUS
  <2>2. Len(a) <= 1 /\ Len(b) <= 1 BY <1>4, <2>1 DEF TagFor, LengthFor, Computed, HeaderInv
  <2>3. Len(a) \in Nat /\ Len(b) \in Nat /\ Len(a) # 0 /\ Len(b) # 0 BY <1>6, EmptySeq
  <2>4. \A m \in Nat : m <= 1 /\ m # 0 => m = 1 OBVIOUS
  <2> QED BY <2>2, <2>3, <2>4
<1>8. out = a \o b \o c BY <1>0, <1>3, <1>4 DEF HeaderOf
<1>9. /\ out \in Seq(Token) /\ Len(out) = Len(c) + 2
      /\ out[1] = a[1] /\ out[2] = b[1]
      /\ \A i \in 1..Len(c) : out[i + 2] = c[i]
      /\ SubSeq(out, 3, Len(out)) = c
  <2>1. a \in Seq(Token) /\ b \in Seq(Token) /\ c \in Seq(Token) /\ Len(a) = 1 /\ Len(b) = 1
    BY <1>3, <1>4, <1>6, <1>7
  <2>2. Parts(out, a, b, c) BY <1>8, <2>1, HeaderThenContent DEF Joined
  <2> QED BY <2>2 DEF Parts
<1> QED BY <1>2, <1>3, <1>4, <1>9

\* The octets of the UNIVERSAL object behind an explicit tag.
LEMMA WrappedWritten ==
  ASSUME NEW o \in Object, o.explicit, o.default_tag # -1, Wrapped(o).ok
  PROVE  LET x == Wrapper(o)
             e == EncodedValue(x, x.at_value)
         IN  /\ PrimOk(x, x.at_value) /\ e.tok \in Seq(Token)
             /\ Wrapped(o).out \in Seq(Token) /\ Len(Wrapped(o).out) = Len(e.tok) + 2
             /\ \A i \in 1..Len(e.tok) : Wrapped(o).out[i + 2] = e.tok[i]
<1>0. PICK x, r : x = Wrapper(o) /\ r = Wrapped(o) OBVIOUS
<1>1. /\ x \in Object /\ x.tag_bytes = << >> /\ x.length_bytes = << >> /\ x.at_value = o.at_value
      /\ x.at_value \in Value BY <1>0, WrappedType DEF Wrapper, Created
<1>2. r = int_asn1_prim_encode_to(x, x.at_value) BY <1>0, <1>1 DEF Wrapped
<1>3. PICK e : e = EncodedValue(x, x.at_value) OBVIOUS
<1>4. r.ok = PrimOk(x, x.at_value) BY <1>1, <1>2, PrimEffect
<1>5. /\ e.tok \in Seq(Token)
      /\ r.out = TagFor(x, x.cons) \o LengthFor(x, Len(e.tok)) \o e.tok
  <2>1. PICK v : v = x.at_value OBVIOUS
  <2>2. x \in Object /\ v \in Value /\ PrimOk(x, v) /\ r = int_asn1_prim_encode_to(x, v)
        /\ e = EncodedValue(x, v) BY <1>0, <1>1, <1>2, <1>3, <1>4, <2>1
  <2>3. PICK y : y = int_asn1_prim_encode_to(x, v) OBVIOUS
  <2>4. EncodedValue(x, v).tok \in Seq(Token)
        /\ y.out = TagFor(x, x.cons) \o LengthFor(x, Len(EncodedValue(x, v).tok)) \o EncodedValue(x, v).tok
    BY <2>2, <2>3, PrimEffect
  <2> QED BY <2>2, <2>3, <2>4
<1>6. x.cons \in BOOLEAN /\ Len(e.tok) \in Nat BY <1>1, <1>5 DEF Object
<1>7. PICK a, b : a = TagFor(x, x.cons) /\ b = LengthFor(x, Len(e.tok)) OBVIOUS
<1>8. a \in Seq(Token) /\ b \in Seq(Token) /\ Len(a) = 1 /\ Len(b) = 1
  BY <1>1, <1>6, <1>7, HeaderParts, TagOctets DEF LengthFor
<1>9. /\ r.out \in Seq(Token) /\ Len(r.out) = Len(e.tok) + 2
      /\ \A i \in 1..Len(e.tok) : r.out[i + 2] = e.tok[i]
  <2>1. /\ a \in Seq(Token) /\ b \in Seq(Token) /\ e.tok \in Seq(Token)
        /\ Len(a) = 1 /\ Len(b) = 1 /\ r.out = a \o b \o e.tok BY <1>5, <1>7, <1>8
  <2>2. PICK y, c : y = r.out /\ c = e.tok OBVIOUS
  <2>3. c \in Seq(Token) /\ y = a \o b \o c BY <2>1, <2>2
  <2>4. /\ y \in Seq(Token) /\ Len(y) = Len(c) + 2
        /\ \A i \in 1..Len(c) : y[i + 2] = c[i]
    <3>1. Parts(y, a, b, c) BY <2>1, <2>3, HeaderThenContent DEF Joined
    <3> QED BY <3>1 DEF Parts
  <2> QED BY <2>2, <2>4
<1> QED BY <1>0, <1>3, <1>4, <1>5, <1>9

\* The last to_der that succeeded would succeed again, with the same octets,
\* unless an explicitly tagged SET is being sorted right now.
LEMMA Again ==
  ASSUME WrittenInv, ret.op = "to_der", ret.ok
  PROVE  /\ ret.n \in Live /\ ret.n \in Node
         /\ \/ Repeats(ret.n, ret.out)
            \/ /\ call.active /\ call.n = ret.n /\ obj[ret.n].at_value.kind = "ary"
               /\ SortsAlways(obj[ret.n]) /\ TwoEocs(obj[ret.n].at_value.ids)
<1>1. /\ IInv /\ NodesInv /\ ret.n \in Live
      /\ \/ Repeats(ret.n, ret.out)
         \/ /\ call.active /\ call.n = ret.n
            /\ SortsAlways(obj[ret.n]) /\ TwoEocs(obj[ret.n].at_value.ids)
  BY DEF WrittenInv, RetInv
<1>2. call.active => obj[call.n].at_value.kind = "ary" BY DEF WrittenInv, LoopInv, Ary
<1>3. ret.n \in Node BY <1>1, NodesFind
<1> QED BY <1>1, <1>2, <1>3

\* What WrittenInv says of the number of unused bits that was written.
LEMMA UnusedBitsAreWritten == WrittenInv => UnusedBitsWritten
<1>0. PICK n, o, h, out : n = ret.n /\ o = obj[n] /\ h = hist[n] /\ out = ret.out OBVIOUS
<1> SUFFICES ASSUME WrittenInv, ret.op = "to_der", ret.ok,
                    o.default_tag = BIT_STRING, o.codec = "bit_string",
                    o.decoded, o.at_value.kind = "str", ~h.bits, ~h.retag
             PROVE  IF o.explicit THEN out[5].v = 0 ELSE out[3].v = o.at_unused_bits
  BY <1>0 DEF UnusedBitsWritten
<1>1. n \in Node /\ Repeats(n, out) BY <1>0, Again
<1>2. EncodeScalar(o).ok /\ out = EncodeScalar(o).out BY <1>0, <1>1 DEF Repeats
<1>3. /\ o \in Object /\ Sound(o) /\ (o.explicit => o.default_tag # -1)
      /\ HeaderInv(o) /\ BitsInv(o, h) /\ ExplicitInv(o, h)
  BY <1>0, <1>1, NodesFind DEF WrittenInv, NodeInv, ObjInv, Sound
<1>4. /\ ScalarOk(o) /\ ScalarContent(o) \in Seq(Token)
      /\ \A i \in 1..Len(ScalarContent(o)) : out[i + 2] = ScalarContent(o)[i]
  BY <1>2, <1>3, ScalarWritten
<1>5. ASSUME NEW c, c = ScalarContent(o), c # << >>
      PROVE  out[3] = c[1]
  <2>1. c \in Seq(Token) BY <1>4, <1>5
  <2>2. 1 \in 1..Len(c) /\ 1 + 2 = 3 BY <1>5, <2>1
  <2> QED BY <1>4, <1>5, <2>2
<1>6. CASE ~o.bytes.null
  <2>1. ~o.explicit BY <1>3, <1>6 DEF ExplicitInv
  <2>2. ScalarContent(o) = o.bytes.tok /\ o.bytes.tok # << >>
        /\ o.bytes.tok[1].v = o.at_unused_bits BY <1>3, <1>6 DEF ScalarContent, BitsInv
  <2> QED BY <1>5, <2>1, <2>2
<1>7. CASE o.bytes.null /\ ~o.explicit
  <2>1. ~o.cons /\ PrimOk(o, o.at_value) BY <1>4, <1>7 DEF ScalarOk, HasNoElements
  <2>2. PICK c : c = EncodedValue(o, o.at_value).tok OBVIOUS
  <2>3. c # << >> /\ c[1].v = o.at_unused_bits BY <1>3, <2>1, <2>2, ValuesEncoded
  <2>4. c = ScalarContent(o) BY <1>7, <2>1, <2>2 DEF ScalarContent
  <2> QED BY <1>5, <1>7, <2>3, <2>4
<1>8. CASE o.bytes.null /\ o.explicit
  <2>1. Wrapped(o).ok /\ ScalarContent(o) = WithEoc(o, Wrapped(o).out)
    BY <1>4, <1>8 DEF ScalarOk, ScalarContent
  <2>2. PICK x, c, w, y : /\ x = Wrapper(o) /\ c = EncodedValue(x, x.at_value).tok
                          /\ w = Wrapped(o).out /\ y = ScalarContent(o) OBVIOUS
  <2>3. PrimOk(x, x.at_value) /\ c \in Seq(Token) /\ w \in Seq(Token) /\ Len(w) = Len(c) + 2
        /\ \A i \in 1..Len(c) : w[i + 2] = c[i] BY <1>3, <1>8, <2>1, <2>2, WrappedWritten
  <2>4. x \in Object /\ x.codec = "bit_string" /\ x.at_unused_bits = 0
    <3>1. x \in Object BY <1>3, <1>8, <2>2, WrappedType
    <3>2. codec_of_tag(BIT_STRING) = "bit_string" /\ initial_bits(BIT_STRING) = 0
      BY DEF codec_of_tag, initial_bits, BIT_STRING, END_OF_CONTENTS, INTEGER
    <3>3. BIT_STRING # -1 BY DEF BIT_STRING
    <3> QED BY <2>2, <3>1, <3>2, <3>3 DEF Wrapper, Created
  <2>5. c # << >> /\ c[1].v = 0 BY <2>2, <2>3, <2>4, ValuesEncoded
  <2>6. w[3] = c[1]
    <3>1. 1 \in 1..Len(c) /\ 1 + 2 = 3 BY <2>3, <2>5
    <3> QED BY <2>3, <3>1
  <2>7. y[3] = w[3] /\ 3 \in 1..Len(y)
    <3>1. Len(w) \in Nat /\ 3 <= Len(w) BY <2>3, <2>5
    <3>2. CASE ~o.inf BY <2>1, <2>2, <3>1, <3>2 DEF WithEoc
    <3>3. CASE o.inf
      <4>0. o.default_tag # END_OF_CONTENTS BY <1>0 DEF BIT_STRING, END_OF_CONTENTS
      <4>1. y = w \o EOC /\ EOC \in Seq(Token) BY <2>1, <2>2, <3>3, <4>0, EocType DEF WithEoc
      <4>2. /\ Len(y) = Len(w) + Len(EOC)
            /\ \A i \in 1..(Len(w) + Len(EOC)) : y[i] = IF i <= Len(w) THEN w[i] ELSE EOC[i - Len(w)]
        BY <2>3, <4>1, ConcatAt
      <4>3. Len(EOC) \in Nat BY <4>1
      <4> QED BY <3>1, <4>2, <4>3
    <3> QED BY <3>2, <3>3
  <2>8. out[5] = y[3]
    <3>1. out[3 + 2] = y[3] BY <1>4, <2>2, <2>7
    <3> QED BY <3>1
  <2> QED BY <1>8, <2>5, <2>6, <2>7, <2>8
<1> QED BY <1>6, <1>7, <1>8

\* The first octet of an encoded BIT STRING is the number of unused bits of its
\* object, or 0 behind an explicit tag, unless unused_bits= was called over
\* cached octets or a tag_class= raised half way (krypt_asn1_encode_bit_string
\* and the cached octets).
THEOREM UnusedBitsAlwaysWritten == Spec => []UnusedBitsWritten
  BY UnusedBitsAreWritten, WrittenInvariant, PTL

\* An explicit tag adds one tag and one length to a value of definite length.
LEMMA LengthWritten ==
  ASSUME NEW o \in Object, o.explicit => o.default_tag # -1, o.at_value.kind = "ary", ~o.inf,
         ~BarredConstructed(Holder(o)), NEW ids, NEW c \in Seq(Token)
  PROVE  Len(Written(o, ids, c)) = Len(c) + (IF o.explicit THEN 2 ELSE 0)
<1>0. Len(c) \in Nat OBVIOUS
<1>1. CASE o.explicit
  <2>1. Written(o, ids, c) = int_asn1_cons_encode_to(Wrapper(o), TRUE, c).out
    BY <1>1 DEF Written, WithEoc
  <2>2. ~BarredConstructed(Wrapper(o)) BY <1>1 DEF Holder
  <2>3. Len(int_asn1_cons_encode_to(Wrapper(o), TRUE, c).out) = Len(c) + 2
    BY <1>1, <2>2, WrapperLength
  <2> QED BY <1>1, <2>1, <2>3
<1>2. CASE ~o.explicit
  <2>1. Written(o, ids, c) = c BY <1>2 DEF Written, MissingEoc
  <2> QED BY <1>0, <1>2, <2>1
<1> QED BY <1>1, <1>2

\* What an Array that was encoded is written as.
LEMMA ArrayWritten ==
  ASSUME IInv, NodesInv, NEW n \in Node, NEW out, RepeatsArray(n, out),
         obj[n].at_value.kind = "ary",
         NEW o, o = obj[n], NEW ids, ids = o.at_value.ids, NEW w, w = Written(o, ids, Octets(ids))
  PROVE  /\ o \in Object /\ (o.explicit => o.default_tag # -1) /\ ids \in Seq(ElementId)
         /\ AllEncode(ids) /\ ~HasNil(ids) /\ Octets(ids) \in Seq(Token) /\ w \in Seq(Token)
         /\ Parts(out, o.tag_bytes, o.length_bytes, w)
<1>1. /\ o \in Object /\ (o.explicit => o.default_tag # -1) /\ ids \in Seq(ElementId)
      /\ HeaderInv(o) BY NodesFind DEF NodeInv, Sound
<1>2. /\ AllEncode(ids) /\ o.tag_bytes # << >> /\ o.length_bytes # << >>
      /\ int_asn1_cons_encode_to(o, TRUE, w).ok
      /\ int_asn1_cons_encode_to(o, TRUE, w).out = out BY DEF RepeatsArray
<1>3. ~HasNil(ids) /\ Octets(ids) \in Seq(Token) BY <1>1, <1>2, EncodingElements
<1>4. w \in Seq(Token) BY <1>1, <1>3, WrittenOctets
<1>5. ConsResult(int_asn1_cons_encode_to(o, TRUE, w), o, TRUE, w) BY <1>1, <1>4, ConsEffect
<1>6. out = TagFor(o, o.cons) \o LengthFor(o, Len(w)) \o w BY <1>2, <1>5 DEF ConsResult
<1>7. PICK a, b : a = o.tag_bytes /\ b = o.length_bytes OBVIOUS
<1>8. out = a \o b \o w BY <1>2, <1>6, <1>7 DEF TagFor, LengthFor
<1>9. a \in Seq(Token) /\ b \in Seq(Token) /\ a # << >> /\ b # << >>
  BY <1>1, <1>2, <1>7, TokenSeqs DEF Object
<1>10. Len(a) = 1 /\ Len(b) = 1
  <2>1. Len(a) <= 1 /\ Len(b) <= 1 BY <1>1, <1>7 DEF HeaderInv
  <2>2. Len(a) \in Nat /\ Len(b) \in Nat /\ Len(a) # 0 /\ Len(b) # 0 BY <1>9, EmptySeq
  <2>3. \A m \in Nat : m <= 1 /\ m # 0 => m = 1 OBVIOUS
  <2> QED BY <2>1, <2>2, <2>3
<1>11. Parts(out, a, b, w) BY <1>4, <1>8, <1>9, <1>10, HeaderThenContent DEF Joined
<1> QED BY <1>1, <1>2, <1>3, <1>4, <1>7, <1>11

\* The length of a value that is no Array.
LEMMA ScalarMeasured ==
  ASSUME NEW o \in Object, NEW h, ObjInv(o, h), NodeInv(o, h), o.explicit => o.default_tag # -1,
         ~h.flip, ~h.lost, ~h.retag, o.at_value.kind # "ary" \/ ~o.bytes.null,
         ScalarOk(o), ScalarContent(o) \in Seq(Token), NEW t, t = LengthFor(o, ScalarLength(o))[1]
  PROVE  t.inf \/ t.n = Len(ScalarContent(o))
<1>0. PICK c, b, m : c = ScalarContent(o) /\ b = o.length_bytes /\ m = ScalarLength(o) OBVIOUS
<1>1. LengthInv(o, h) /\ WrappedLengthInv(o, h) /\ HeaderInv(o) BY DEF ObjInv, NodeInv
<1>2. o.inf \in BOOLEAN BY DEF Object
<1>3. CASE b = << >>
  <2>1. o.bytes.null BY <1>0, <1>1, <1>3 DEF LengthInv
  <2>2. m = Len(c) BY <1>0, <2>1 DEF ScalarLength
  <2>3. t = IF o.inf THEN LengthOctets(0, TRUE, FALSE) ELSE LengthOctets(m, FALSE, FALSE)
    <3>1. \A x : << x >>[1] = x OBVIOUS
    <3> QED BY <1>0, <1>3, <3>1 DEF LengthFor, Computed
  <2> QED BY <1>0, <1>2, <2>2, <2>3 DEF LengthOctets
<1>4. CASE b # << >> /\ o.inf BY <1>0, <1>1, <1>4 DEF LengthFor, HeaderInv
<1>5. CASE b # << >> /\ ~o.inf
  <2>1. t = b[1] BY <1>0, <1>5 DEF LengthFor
  <2>2. CASE ~o.bytes.null BY <1>0, <1>1, <1>5, <2>1, <2>2 DEF LengthInv, ScalarContent
  <2>3. CASE o.bytes.null /\ o.explicit
    <3>1. Wrapped(o).ok /\ c = Wrapped(o).out
      BY <1>0, <1>5, <2>3 DEF ScalarOk, ScalarContent, WithEoc
    <3> QED BY <1>0, <1>1, <1>5, <2>1, <2>3, <3>1 DEF WrappedLengthInv, Wrapped
  <2>4. CASE o.bytes.null /\ ~o.explicit /\ o.cons
    <3>1. o.at_value.kind = "nil" /\ c = << >>
      BY <1>0, <2>4 DEF ScalarOk, ScalarContent, HasNoElements
    <3>2. Len(c) = 0 BY <3>1
    <3> QED BY <1>0, <1>1, <1>5, <2>1, <2>4, <3>1, <3>2 DEF WrappedLengthInv
  <2>5. CASE o.bytes.null /\ ~o.explicit /\ ~o.cons
    <3>1. PrimOk(o, o.at_value) /\ c = EncodedValue(o, o.at_value).tok
      BY <1>0, <2>5 DEF ScalarOk, ScalarContent
    <3>2. EncodesToNothing(o) /\ b[1].n = 0 BY <1>0, <1>1, <1>5, <2>5 DEF LengthInv
    <3>3. c = << >> BY <3>1, <3>2, ValuesEncoded
    <3>4. Len(c) = 0 BY <3>3
    <3> QED BY <1>0, <2>1, <3>2, <3>4
  <2> QED BY <2>2, <2>3, <2>4, <2>5
<1> QED BY <1>3, <1>4, <1>5

\* The length of the root that was encoded and not changed since.
LEMMA RepeatsMeasured == WrittenInv /\ Repeats(ret.n, ret.out) => WrittenLengthCorrect
<1>0. PICK o, h, ids, out : o = obj[Root] /\ h = hist[Root] /\ ids = o.at_value.ids /\ out = ret.out
  OBVIOUS
<1> SUFFICES ASSUME WrittenInv, Repeats(Root, out),
                    ~h.stale, ~h.flip, ~h.lost, ~h.retag,
                    \A i \in DOMAIN ids : ~hist[ids[i]].retag
             PROVE  out[2].inf \/ out[2].n = Len(out) - 2
  BY <1>0 DEF WrittenLengthCorrect
<1>1. /\ IInv /\ NodesInv /\ ArrayLengthInv
      /\ Root \in Node /\ o \in Object /\ (o.explicit => o.default_tag # -1)
      /\ ObjInv(o, h) /\ NodeInv(o, h) /\ HeaderInv(o)
  BY <1>0, NodesFind DEF WrittenInv, Sound, NodeInv
<1>2. CASE ~o.bytes.null \/ o.at_value.kind # "ary"
  <2>1. EncodeScalar(o).ok /\ out = EncodeScalar(o).out BY <1>0, <1>2 DEF Repeats
  <2>2. PICK c, t : c = ScalarContent(o) /\ t = LengthFor(o, ScalarLength(o))[1] OBVIOUS
  <2>3. ScalarOk(o) /\ c \in Seq(Token) /\ out[2] = t /\ Len(out) = Len(c) + 2
    BY <1>1, <2>1, <2>2, ScalarWritten
  <2>4. t.inf \/ t.n = Len(c) BY <1>1, <1>2, <2>2, <2>3, ScalarMeasured
  <2>5. Len(c) \in Nat BY <2>3
  <2> QED BY <2>3, <2>4, <2>5
<1>3. CASE o.bytes.null /\ o.at_value.kind = "ary"
  <2>1. RepeatsArray(Root, out) BY <1>0, <1>3 DEF Repeats
  <2>2. PICK w, b : w = Written(o, ids, Octets(ids)) /\ b = o.length_bytes OBVIOUS
  <2>3. /\ AllEncode(ids) /\ ~HasNil(ids) /\ Octets(ids) \in Seq(Token) /\ w \in Seq(Token)
        /\ Parts(out, o.tag_bytes, b, w) BY <1>0, <1>1, <1>3, <2>1, <2>2, ArrayWritten
  <2>4. out[2] = b[1] /\ Len(out) = Len(w) + 2 /\ Len(w) \in Nat BY <2>3 DEF Parts
  <2>5. b # << >> /\ ~BarredConstructed(Holder(o)) BY <1>0, <2>1, <2>2 DEF RepeatsArray
  <2>6. CASE o.inf BY <1>1, <2>2, <2>4, <2>5, <2>6 DEF HeaderInv
  <2>7. CASE ~o.inf
    <3>1. b[1].n = Len(Octets(ids)) + (IF o.explicit THEN 2 ELSE 0)
      BY <1>0, <1>1, <1>3, <2>2, <2>3, <2>5, <2>7 DEF ArrayLengthInv, HasNil
    <3>2. Len(w) = Len(Octets(ids)) + (IF o.explicit THEN 2 ELSE 0)
      BY <1>1, <1>3, <2>2, <2>3, <2>5, <2>7, LengthWritten
    <3>3. b[1].n = Len(w) BY <3>1, <3>2
    <3> QED BY <2>4, <3>3
  <2> QED BY <2>6, <2>7
<1> QED BY <1>2, <1>3

\* Only a beginning and the visit of an element leave an encoding under way.
LEMMA StartsEncoding ==
  ASSUME [Next]_vars, call'.active
  PROVE  \/ UNCHANGED vars
         \/ EncodeElement
         \/ \E n \in Live : ToDerBegin(n)
<1>1. ASSUME NEW a \in ElemNews, New(a)
      PROVE  FALSE
  BY <1>1 DEF New
<1>2. ASSUME NEW n \in Live, GetValue(n)
      PROVE  FALSE
  BY <1>2 DEF GetValue
<1>3. ASSUME NEW n \in Live, NEW t \in NewTags, SetTag(n, t)
      PROVE  FALSE
  BY <1>3 DEF SetTag, SetterCall
<1>4. ASSUME NEW n \in Live, NEW sym \in TagClassSymbol, SetTagClass(n, sym)
      PROVE  FALSE
  <2>1. ~call.active /\ call' = call BY <1>4 DEF SetTagClass, SetterCall
  <2> QED BY <2>1
<1>5. ASSUME NEW n \in Live, SetInfiniteLength(n)
      PROVE  FALSE
  BY <1>5 DEF SetInfiniteLength, SetterCall
<1>6. ASSUME NEW n \in Live, NEW bits \in NewBits, SetUnusedBits(n, bits)
      PROVE  FALSE
  BY <1>6 DEF SetUnusedBits, SetterCall
<1>7. ASSUME NEW n, NEW v, SetValue(n, v)
      PROVE  FALSE
  BY <1>7 DEF SetValue, SetterCall
<1>8. ASSUME NEW n \in Live, ToDerScalar(n) \/ ToDerRefused(n) \/ ToDerSortRaises(n)
      PROVE  FALSE
  BY <1>8 DEF ToDerScalar, ToDerRefused, ToDerSortRaises
<1>9. ASSUME EncodeElementFails \/ ToDerEnd \/ ToDerEndRaises
      PROVE  FALSE
  <2>1. call' = Idle
    <3>1. CASE EncodeElementFails BY <3>1 DEF EncodeElementFails
    <3>2. CASE ToDerEnd BY <3>2 DEF ToDerEnd
    <3>3. CASE ToDerEndRaises BY <3>3 DEF ToDerEndRaises
    <3> QED BY <1>9, <3>1, <3>2, <3>3
  <2> QED BY <2>1 DEF Idle
<1> QED BY <1>1, <1>2, <1>3, <1>4, <1>5, <1>6, <1>7, <1>8, <1>9 DEF Next

\* While an explicitly tagged SET is sorted and encoded again, what was
\* returned before stays as it is.
LEMMA StillMeasured ==
  ASSUME WrittenInv, WrittenLengthCorrect, [Next]_vars,
         (WrittenInv /\ Repeats(ret.n, ret.out) => WrittenLengthCorrect)'
  PROVE  WrittenLengthCorrect'
<1>0. IInv /\ NodesInv /\ LoopInv /\ WrittenInv' BY NextWritten DEF WrittenInv
<1>1. CASE ~(ret'.op = "to_der" /\ ret'.ok /\ ret'.n = Root) BY <1>1 DEF WrittenLengthCorrect
<1>2. CASE ret'.op = "to_der" /\ ret'.ok /\ ret'.n = Root /\ Repeats(ret.n, ret.out)'
  BY <1>0, <1>2
<1>3. CASE ret'.op = "to_der" /\ ret'.ok /\ ret'.n = Root /\ call'.active /\ call'.n = Root
  <2>1. \/ UNCHANGED vars
        \/ EncodeElement
        \/ \E n \in Live : ToDerBegin(n) BY <1>3, StartsEncoding
  <2>2. ret' = ret /\ hist' = hist
    <3>1. CASE UNCHANGED vars BY <3>1 DEF vars
    <3>2. CASE EncodeElement BY <3>2 DEF EncodeElement
    <3>3. CASE \E n \in Live : ToDerBegin(n) BY <3>3 DEF ToDerBegin
    <3> QED BY <2>1, <3>1, <3>2, <3>3
  <2>3. PICK was, ids : was = obj[Root].at_value.ids /\ ids = obj'[Root].at_value.ids OBVIOUS
  <2>4. \A i \in DOMAIN was : \E j \in DOMAIN ids : ids[j] = was[i]
    <3>1. CASE UNCHANGED vars BY <2>3, <3>1 DEF vars
    <3>2. CASE EncodeElement
      <4>1. SameIdentity(obj'[Root], obj[Root])
        BY <1>0, <3>2, EncodeElementEffect DEF EncoderEffect, KeptRoot
      <4> QED BY <2>3, <4>1 DEF SameIdentity
    <3>3. ASSUME NEW n \in Live, ToDerBegin(n)
          PROVE  \A i \in DOMAIN was : \E j \in DOMAIN ids : ids[j] = was[i]
      <4>1. PICK order :
              /\ order \in Seq(ElementId)
              /\ obj' = [m \in Node |-> IF m = n THEN int_cons_sort_set(HeaderFirst(Outer(obj[n])), order)
                                        ELSE obj[m]]
              /\ \/ order = obj[n].at_value.ids
                 \/ /\ order \in SortedOrders(obj[n].at_value.ids)
                    /\ AllEncode(obj[n].at_value.ids) BY <1>0, <3>3, BeginFacts
      <4>2. Root \in Node /\ n \in Node BY <1>0, NodesFind
      <4>3. CASE n # Root BY <2>3, <4>1, <4>2, <4>3
      <4>4. CASE n = Root
        <5>1. PICK x : x = HeaderFirst(Outer(obj[n])) OBVIOUS
        <5>2. x \in Object BY <1>0, <3>3, <4>2, <5>1, BeginFacts, BegunObject
        <5>3. obj'[Root] = int_cons_sort_set(x, order) BY <4>1, <4>2, <4>4, <5>1
        <5>4. ids = order BY <2>3, <5>2, <5>3 DEF int_cons_sort_set, Object, Ary
        <5>5. was \in Seq(ElementId) BY <1>0, <2>3, <4>2, NodesFind
        <5>6. CASE order = was BY <5>4, <5>6
        <5>7. CASE order \in SortedOrders(was) /\ AllEncode(was)
          <6>1. was \in Seq(Node) BY <1>0, <5>5, <5>7, EncodingElements
          <6> QED BY <1>0, <5>4, <5>7, <6>1, SortedLength
        <5> QED BY <2>3, <4>1, <4>4, <5>6, <5>7
      <4> QED BY <4>3, <4>4
    <3> QED BY <2>1, <3>1, <3>2, <3>3
  <2>5. (\A i \in DOMAIN ids : ~hist'[ids[i]].retag) => \A i \in DOMAIN was : ~hist[was[i]].retag
    BY <2>2, <2>4
  <2> QED BY <2>2, <2>3, <2>5 DEF WrittenLengthCorrect
<1> QED BY <1>0, <1>1, <1>2, <1>3 DEF WrittenInv, RetInv

\* A root is written with the length of what follows, unless an element changed
\* under the cached length, infinite_length= was called over cached octets,
\* reading the value dropped it, or a tag_class= raised half way
\* (int_compute_length, and which calls drop the cached length).
THEOREM LengthsAreCorrect == Spec => []WrittenLengthCorrect
<1>1. Init => WrittenLengthCorrect
  <2> SUFFICES ASSUME Init
               PROVE  ret.op = "none"
    BY DEF WrittenLengthCorrect
  <2>1. PICK root, src : InitWith(root, src) BY DEF Init
  <2> QED BY <2>1 DEF InitWith, NoRet
<1>2. WrittenInv /\ WrittenLengthCorrect /\ [Next]_vars
        /\ (WrittenInv /\ Repeats(ret.n, ret.out) => WrittenLengthCorrect)'
        => WrittenLengthCorrect' BY StillMeasured
<1> QED BY <1>1, <1>2, RepeatsMeasured, WrittenInvariant, PTL DEF Spec

\* Two encodings with the same header and the same content are the same.
LEMMA SameEncoding ==
  ASSUME NEW s \in Seq(Token), NEW t \in Seq(Token), Len(s) >= 2, Len(t) >= 2,
         s[1] = t[1], s[2] = t[2], SubSeq(s, 3, Len(s)) = SubSeq(t, 3, Len(t))
  PROVE  s = t
<1>0. PICK m, n : m = Len(s) - 2 /\ n = Len(t) - 2 OBVIOUS
<1>1. m \in Nat /\ n \in Nat /\ Len(s) = 2 + m /\ Len(t) = 2 + n BY <1>0
<1>2. PICK x, y : x = SubSeq(s, 3, 2 + m) /\ y = SubSeq(t, 3, 2 + n) OBVIOUS
<1>3. x = y BY <1>1, <1>2
<1>4. Len(x) = m /\ \A i \in 1..m : x[i] = s[i + 2] BY <1>1, <1>2, AfterTwo
<1>5. Len(y) = n /\ \A i \in 1..n : y[i] = t[i + 2] BY <1>1, <1>2, AfterTwo
<1>6. m = n BY <1>3, <1>4, <1>5
<1>7. \A i \in 1..(2 + m) : s[i] = t[i]
  <2> SUFFICES ASSUME NEW i \in 1..(2 + m)
               PROVE  s[i] = t[i]
    OBVIOUS
  <2>1. CASE i <= 2
    <3>1. i = 1 \/ i = 2 BY <1>1, <2>1
    <3> QED BY <3>1
  <2>2. CASE ~(i <= 2)
    <3>1. PICK j : j = i - 2 OBVIOUS
    <3>2. j \in 1..m /\ i = j + 2 BY <1>1, <2>2, <3>1
    <3> QED BY <1>3, <1>4, <1>5, <1>6, <3>2
  <2> QED BY <2>1, <2>2
<1>8. s \in Seq(Token) /\ t \in Seq(Token) /\ Len(s) = Len(t) /\ \A i \in 1..Len(s) : s[i] = t[i]
  BY <1>1, <1>6, <1>7
<1> QED BY <1>8, SeqEqual

\* What was parsed and not touched, and is no Array now, encodes to what it
\* was parsed from.
LEMMA ScalarSource ==
  ASSUME NEW o \in Object, NEW h \in HistType, ObjInv(o, h), NodeInv(o, h),
         o.explicit => o.default_tag # -1,
         h.src # << >>, ~h.touched, ~h.lost, o.bytes.null => o.at_value.kind # "ary",
         EncodeScalar(o).ok
  PROVE  EncodeScalar(o).out = h.src
<1>0. PICK s, t, c : s = EncodeScalar(o).out /\ t = h.src /\ c = ScalarContent(o) OBVIOUS
<1>1. /\ HeaderInv(o) /\ ContentInv(o) /\ HistoryInv(o, h) /\ SourceInv(o, h) /\ LengthInv(o, h)
      /\ BytesInv(o) BY DEF NodeInv, ObjInv
<1>2. /\ Len(t) >= 2 /\ o.tag_bytes = << t[1] >> /\ o.length_bytes = << t[2] >>
      /\ ~o.explicit
      /\ ~(o.cons /\ o.decoded) => SubSeq(t, 3, Len(t)) = o.bytes.tok
      /\ o.cons /\ o.decoded => o.at_value.kind = "ary" BY <1>0, <1>1 DEF SourceInv
<1>3. t \in Seq(Token) BY <1>0 DEF HistType
<1>4. /\ ScalarOk(o) /\ c \in Seq(Token) /\ s \in Seq(Token) /\ Len(s) = Len(c) + 2
      /\ s[1] = TagFor(o, ScalarCons(o))[1] /\ s[2] = LengthFor(o, ScalarLength(o))[1]
      /\ SubSeq(s, 3, Len(s)) = c BY <1>0, <1>1, ScalarWritten
<1>5. \A x : << x >> # << >> /\ << x >>[1] = x OBVIOUS
<1>6. s[1] = t[1] /\ s[2] = t[2] BY <1>2, <1>4, <1>5 DEF TagFor, LengthFor
<1>7. SubSeq(t, 3, Len(t)) = c
  <2>1. CASE ~o.bytes.null
    <3>1. ~(o.cons /\ o.decoded) BY <1>1, <2>1 DEF ContentInv
    <3> QED BY <1>0, <1>2, <2>1, <3>1 DEF ScalarContent
  <2>2. CASE o.bytes.null
    <3>1. o.bytes.tok = << >> /\ ~(o.cons /\ o.decoded) BY <1>1, <1>2, <2>2 DEF BytesInv
    <3>2. CASE o.cons BY <1>0, <1>2, <2>2, <3>1, <3>2 DEF ScalarContent
    <3>3. CASE ~o.cons
      <4>1. PrimOk(o, o.at_value) /\ c = EncodedValue(o, o.at_value).tok
        BY <1>0, <1>2, <1>4, <2>2, <3>3 DEF ScalarOk, ScalarContent
      <4>2. EncodesToNothing(o) BY <1>1, <1>2, <1>5, <2>2, <3>3 DEF LengthInv, HistoryInv
      <4>3. c = << >> BY <4>1, <4>2, ValuesEncoded
      <4> QED BY <1>2, <3>1, <4>3
    <3> QED BY <3>2, <3>3
  <2> QED BY <2>1, <2>2
<1>8. Len(s) >= 2
  <2>1. Len(c) \in Nat BY <1>4
  <2> QED BY <1>4, <2>1
<1>9. s = t BY <1>2, <1>3, <1>4, <1>6, <1>7, <1>8, SameEncoding
<1> QED BY <1>0, <1>9

\* The elements of an untouched root encode to what they were parsed from,
\* and the last of them is not the end-of-contents of an indefinite length.
LEMMA ElementsSource ==
  ASSUME WrittenInv, NEW o, o = obj[Root], NEW h, h = hist[Root], NEW ids, ids = o.at_value.ids,
         h.src # << >>, ~h.touched, ~h.lost, o.cons, o.decoded, AllEncode(ids),
         \A i \in DOMAIN ids : ~hist[ids[i]].touched
  PROVE  /\ Octets(ids) = FlattenSeq(Sources(ids))
         /\ o.inf => \A i \in DOMAIN ids : ~IsEoc(obj[ids[i]])
<1>1. IInv /\ NodesInv /\ ElementsInv /\ Root \in Node /\ ids \in Seq(ElementId)
  BY NodesFind DEF WrittenInv
<1>2. /\ \A i \in DOMAIN ids : ids[i] # NilElem /\ EncodeScalar(obj[ids[i]]).ok
      /\ ElementSources(o.inf, ids, h.src) BY <1>1, ElementsWere DEF AllEncode, Encodes
<1>3. ASSUME NEW i \in DOMAIN ids
      PROVE  /\ EncodeScalar(obj[ids[i]]).out = hist[ids[i]].src
             /\ o.inf => ~IsEoc(obj[ids[i]])
  <2>0. PICK e, p, g : e = ids[i] /\ p = obj[e] /\ g = hist[e] OBVIOUS
  <2>1. e \in Node \ {Root}
    <3>1. Root \in Live /\ i \in DOMAIN obj[Root].at_value.ids BY <1>1, <1>3, NodesFind
    <3>2. obj[Root].at_value.ids[i] = e /\ e # NilElem BY <1>2, <1>3, <2>0
    <3> QED BY <1>1, <3>1, <3>2, ElementsApart
  <2>2. /\ p \in Object /\ g \in HistType /\ (p.explicit => p.default_tag # -1)
        /\ ObjInv(p, g) /\ NodeInv(p, g) /\ ElementInv(p, g)
    BY <1>1, <2>0, <2>1, NodesFind DEF Sound
  <2>3. g.src # << >> /\ ~g.touched /\ (o.inf => ~IsEocHeader(g.src[1]))
    BY <1>2, <2>0 DEF ElementSources
  <2>4. ~g.lost /\ ~g.retag /\ p.at_value.kind # "ary"
    BY <2>2, <2>3 DEF ElementInv, NodeInv, HistoryInv
  <2>5. EncodeScalar(p).out = g.src BY <1>2, <2>0, <2>2, <2>3, <2>4, ScalarSource
  <2>6. IsEocHeader(g.src[1]) = IsEoc(p)
    <3>1. p.tag_bytes = << g.src[1] >> BY <2>2, <2>3, <2>4 DEF NodeInv, SourceInv
    <3>2. p.tag_bytes \in {<<>>, int_compute_tag(p)} BY <2>2, <2>4 DEF ObjInv, TagInv
    <3>3. \A x, y : << x >> # << >> /\ (<< x >> = << y >> => x = y) OBVIOUS
    <3>4. g.src[1] = Identifier(p.tag, p.tag_class, p.cons)
      BY <3>1, <3>2, <3>3 DEF int_compute_tag
    <3> QED BY <3>4 DEF IsEocHeader, IsEoc, Identifier
  <2> QED BY <2>0, <2>3, <2>5, <2>6
<1>4. EachOctets(ids) = Sources(ids) BY <1>3 DEF EachOctets, Sources
<1>5. Octets(ids) = FlattenSeq(EachOctets(ids)) BY DEF Octets, EachOctets
<1> QED BY <1>3, <1>4, <1>5

\* What WrittenInv says of the encoding of an untouched object.
LEMMA EncodingIsPreserved == WrittenInv => ParsedEncodingPreserved
<1>0. PICK n, o, h, out : n = ret.n /\ o = obj[n] /\ h = hist[n] /\ out = ret.out OBVIOUS
<1> SUFFICES ASSUME WrittenInv, ret.op = "to_der", ret.ok, h.src # << >>, Untouched(n),
                    o.decoded => EndsPlainly(h.src)
             PROVE  out = h.src
  BY <1>0 DEF ParsedEncodingPreserved
<1>1. IInv /\ NodesInv /\ ElementsInv BY DEF WrittenInv
<1>2. ~h.touched /\ ~h.lost /\ n \in Node BY <1>0, Again DEF Untouched
<1>3. /\ o \in Object /\ h \in HistType /\ (o.explicit => o.default_tag # -1)
      /\ ObjInv(o, h) /\ NodeInv(o, h) /\ HeaderInv(o) /\ SourceInv(o, h) /\ ArrayInv(o)
  BY <1>0, <1>1, <1>2, NodesFind DEF Sound, NodeInv, ObjInv
<1>4. /\ ~o.explicit /\ (o.at_value.kind = "ary" => o.decoded)
      /\ Len(h.src) >= 2 /\ o.tag_bytes = << h.src[1] >> /\ o.length_bytes = << h.src[2] >>
  BY <1>2, <1>3 DEF SourceInv, NilValue
<1>5. Repeats(n, out) BY <1>0, <1>4, Again DEF SortsAlways
<1>6. CASE ~o.bytes.null \/ o.at_value.kind # "ary"
  <2>1. EncodeScalar(o).ok /\ out = EncodeScalar(o).out BY <1>0, <1>5, <1>6 DEF Repeats
  <2> QED BY <1>2, <1>3, <1>6, <2>1, ScalarSource
<1>7. CASE o.bytes.null /\ o.at_value.kind = "ary"
  <2>1. n = Root
    <3>1. ~h.retag BY <1>2, <1>3 DEF NodeInv, HistoryInv
    <3> QED BY <1>0, <1>1, <1>2, <1>7, <3>1, ArrayElement
  <2>2. PICK ids, w : ids = o.at_value.ids /\ w = Written(o, ids, Octets(ids)) OBVIOUS
  <2>3. RepeatsArray(n, out) BY <1>0, <1>5, <1>7 DEF Repeats
  <2>4. /\ AllEncode(ids) /\ ~HasNil(ids) /\ Octets(ids) \in Seq(Token) /\ w \in Seq(Token)
        /\ Parts(out, o.tag_bytes, o.length_bytes, w) /\ ids \in Seq(ElementId)
    BY <1>0, <1>1, <1>2, <1>7, <2>2, <2>3, ArrayWritten
  <2>5. o.cons /\ o.decoded BY <1>3, <1>4, <1>7 DEF ArrayInv
  <2>6. \A i \in DOMAIN ids : ~hist[ids[i]].touched
    BY <1>0, <2>1, <2>2, <2>4 DEF Untouched, HasNil
  <2>7. /\ Octets(ids) = FlattenSeq(Sources(ids))
        /\ o.inf => \A i \in DOMAIN ids : ~IsEoc(obj[ids[i]])
    BY <1>0, <1>2, <2>1, <2>2, <2>4, <2>5, <2>6, ElementsSource
  <2>8. SubSeq(h.src, 3, Len(h.src)) =
          IF o.inf THEN FlattenSeq(Sources(ids)) \o SubSeq(h.src, Len(h.src) - 1, Len(h.src))
          ELSE FlattenSeq(Sources(ids))
    BY <1>0, <1>1, <1>2, <2>1, <2>2, <2>4, <2>5, ElementsWere DEF ElementSources
  <2>9. w = SubSeq(h.src, 3, Len(h.src))
    <3>1. CASE ~o.inf BY <1>4, <2>2, <2>7, <2>8, <3>1 DEF Written, MissingEoc
    <3>2. CASE o.inf
      <4>1. h.src[2].inf
        <5>1. << h.src[2] >>[1] = h.src[2] /\ << h.src[2] >> # << >> OBVIOUS
        <5> QED BY <1>3, <1>4, <3>2, <5>1 DEF HeaderInv
      <4>2. SubSeq(h.src, Len(h.src) - 1, Len(h.src)) = EOC BY <2>5, <4>1 DEF EndsPlainly
      <4>3. ids # << >> BY <1>0, <1>4, <2>2, <2>3, <3>2 DEF RepeatsArray, NoLastElement
      <4>4. Len(ids) \in DOMAIN ids BY <2>4, <4>3
      <4>5. MissingEoc(o, ids) BY <2>7, <3>2, <4>4 DEF MissingEoc
      <4> QED BY <1>4, <2>2, <2>7, <2>8, <3>2, <4>2, <4>5 DEF Written
    <3> QED BY <3>1, <3>2
  <2>10. /\ out \in Seq(Token) /\ Len(out) = Len(w) + 2 /\ Len(w) \in Nat
         /\ out[1] = o.tag_bytes[1] /\ out[2] = o.length_bytes[1]
         /\ SubSeq(out, 3, Len(out)) = w BY <2>4 DEF Parts
  <2>11. out[1] = h.src[1] /\ out[2] = h.src[2]
    <3>1. \A x : << x >>[1] = x OBVIOUS
    <3> QED BY <1>4, <2>10, <3>1
  <2>12. h.src \in Seq(Token) /\ Len(out) >= 2 BY <1>3, <2>10 DEF HistType
  <2> QED BY <1>4, <2>9, <2>10, <2>11, <2>12, SameEncoding
<1> QED BY <1>6, <1>7

\* An object that was parsed and not touched, nor any of its elements, encodes
\* to the octets it was parsed from, whether or not its value was read in
\* between, when the end-of-contents of an indefinite length was written
\* plainly as 00 00.
THEOREM ParsedEncodingsArePreserved == Spec => []ParsedEncodingPreserved
  BY EncodingIsPreserved, WrittenInvariant, PTL

\* A sequence that is found at a place begins what is left there.
LEMMA PrefixAfter ==
  ASSUME NEW T, NEW out \in Seq(T), NEW c \in Seq(T), NEW k \in Nat,
         k + Len(c) <= Len(out), \A i \in 1..Len(c) : out[i + k] = c[i]
  PROVE  IsPrefix(c, SubSeq(out, k + 1, Len(out)))
<1>0. PICK y, m, n : y = SubSeq(out, k + 1, n) /\ m = Len(c) /\ n = Len(out) OBVIOUS
<1>1. m \in Nat /\ n \in Nat /\ k + m <= n /\ \A i \in 1..m : out[i + k] = c[i] BY <1>0
<1>2. y \in Seq(T) /\ Len(y) = n - k /\ \A i \in 1..(n - k) : y[i] = out[i + k]
  <2>1. \A i \in (k + 1)..n : out[i] \in T BY <1>0
  <2>2. k + 1 \in Int /\ n \in Int BY <1>1
  <2>3. /\ y \in Seq(T)
        /\ Len(y) = IF k + 1 <= n THEN n - (k + 1) + 1 ELSE 0
        /\ \A i \in 1..(n - (k + 1) + 1) : y[i] = out[(k + 1) + i - 1]
    BY <1>0, <2>1, <2>2, SubSeqProperties
  <2>4. (IF k + 1 <= n THEN n - (k + 1) + 1 ELSE 0) = n - k /\ n - (k + 1) + 1 = n - k BY <1>1
  <2>5. \A i \in 1..(n - k) : (k + 1) + i - 1 = i + k BY <1>1
  <2> QED BY <2>3, <2>4, <2>5
<1>3. PICK z : z = SubSeq(y, 1, m) OBVIOUS
<1>4. z \in Seq(T) /\ Len(z) = m /\ \A i \in 1..m : z[i] = y[i]
  <2>1. \A i \in 1..m : y[i] \in T
    <3>1. \A i \in 1..Len(y) : y[i] \in T BY <1>2
    <3>2. \A i \in 1..m : i \in 1..(n - k) BY <1>1
    <3> QED BY <1>2, <3>1, <3>2
  <2>2. 1 \in Int /\ m \in Int BY <1>1
  <2>3. /\ z \in Seq(T)
        /\ Len(z) = IF 1 <= m THEN m - 1 + 1 ELSE 0
        /\ \A i \in 1..(m - 1 + 1) : z[i] = y[1 + i - 1] BY <1>3, <2>1, <2>2, SubSeqProperties
  <2>4. (IF 1 <= m THEN m - 1 + 1 ELSE 0) = m /\ m - 1 + 1 = m /\ \A i \in 1..m : 1 + i - 1 = i
    BY <1>1
  <2> QED BY <2>3, <2>4
<1>5. z = c
  <2>1. \A i \in 1..m : i \in 1..(n - k) BY <1>1
  <2>2. \A i \in 1..m : z[i] = c[i] BY <1>1, <1>2, <1>4, <2>1
  <2>3. z \in Seq(T) /\ c \in Seq(T) /\ Len(z) = Len(c) /\ \A i \in 1..Len(z) : z[i] = c[i]
    BY <1>0, <1>4, <2>2
  <2> QED BY <2>3, SeqEqual
<1>6. SubSeq(c, 1, m) = c BY <1>0
<1>7. m <= Len(y) BY <1>1, <1>2
<1> QED BY <1>0, <1>3, <1>5, <1>6, <1>7 DEF IsPrefix

\* The UNIVERSAL object behind an explicit tag, around an Array.
LEMMA WrapperWritten ==
  ASSUME NEW o \in Object, o.explicit, o.default_tag # -1, o.at_value.kind = "ary",
         ~BarredConstructed(Wrapper(o)), NEW c \in Seq(Token)
  PROVE  \E a, b : Parts(int_asn1_cons_encode_to(Wrapper(o), TRUE, c).out, a, b, c)
<1>0. PICK x, r : x = Wrapper(o) /\ r = int_asn1_cons_encode_to(x, TRUE, c) OBVIOUS
<1>1. x \in Object /\ x.tag_bytes = << >> /\ x.length_bytes = << >> /\ x.inf = FALSE
  BY <1>0, WrappedType DEF Wrapper, Created
<1>2. ConsResult(r, x, TRUE, c) BY <1>0, <1>1, ConsEffect
<1>3. r.out = TagFor(x, x.cons) \o LengthFor(x, Len(c)) \o c BY <1>0, <1>2 DEF ConsResult
<1>4. Len(c) \in Nat /\ x.cons \in BOOLEAN BY <1>1 DEF Object
<1>5. PICK a, b : a = TagFor(x, x.cons) /\ b = LengthFor(x, Len(c)) OBVIOUS
<1>6. a \in Seq(Token) /\ b \in Seq(Token) /\ Len(a) = 1 /\ Len(b) = 1
  BY <1>1, <1>4, <1>5, HeaderParts, TagOctets DEF LengthFor
<1>7. Joined(r.out, a, b, c) BY <1>3, <1>5, <1>6 DEF Joined
<1> QED BY <1>0, <1>7, HeaderThenContent

\* The value of an object that owns an Array begins with the elements.
LEMMA WrittenBegins ==
  ASSUME NEW o \in Object, o.explicit => o.default_tag # -1, o.at_value.kind = "ary",
         ~BarredConstructed(Holder(o)), NEW ids, NEW c \in Seq(Token),
         NEW w, w = Written(o, ids, c), NEW k, k = IF o.explicit THEN 2 ELSE 0
  PROVE  w \in Seq(Token) /\ k + Len(c) <= Len(w) /\ \A i \in 1..Len(c) : w[i + k] = c[i]
<1>0. w \in Seq(Token) /\ Len(c) \in Nat BY WrittenOctets
<1>1. ASSUME NEW x \in Seq(Token)
      PROVE  LET y == x \o EOC
             IN  Len(x) <= Len(y) /\ \A i \in 1..Len(x) : y[i] = x[i]
  <2>1. EOC \in Seq(Token) /\ Len(EOC) \in Nat /\ Len(x) \in Nat BY EocType
  <2>2. /\ Len(x \o EOC) = Len(x) + Len(EOC)
        /\ \A i \in 1..(Len(x) + Len(EOC)) : (x \o EOC)[i] = IF i <= Len(x) THEN x[i] ELSE EOC[i - Len(x)]
    BY <2>1, ConcatAt
  <2> QED BY <2>1, <2>2
<1>2. CASE o.explicit
  <2>1. PICK x : x = int_asn1_cons_encode_to(Wrapper(o), TRUE, c).out OBVIOUS
  <2>2. PICK a, b : Parts(x, a, b, c) BY <1>2, <2>1, WrapperWritten DEF Holder
  <2>3. x \in Seq(Token) /\ Len(x) = Len(c) + 2 /\ \A i \in 1..Len(c) : x[i + 2] = c[i]
    BY <2>2 DEF Parts
  <2>4. w = x \/ w = x \o EOC BY <1>2, <2>1 DEF Written, WithEoc
  <2>5. Len(x) <= Len(w) /\ \A i \in 1..Len(x) : w[i] = x[i]
    <3>1. CASE w = x BY <2>3, <3>1
    <3>2. CASE w = x \o EOC BY <1>1, <2>3, <3>2
    <3> QED BY <2>4, <3>1, <3>2
  <2>6. k = 2 /\ Len(w) \in Nat BY <1>0, <1>2
  <2>7. \A i \in 1..Len(c) : i + 2 \in 1..Len(x) BY <1>0, <2>3
  <2> QED BY <1>0, <2>3, <2>5, <2>6, <2>7
<1>3. CASE ~o.explicit
  <2>1. w = c \/ w = c \o EOC BY <1>3 DEF Written
  <2>2. Len(c) <= Len(w) /\ \A i \in 1..Len(c) : w[i] = c[i]
    <3>1. CASE w = c BY <1>0, <3>1
    <3>2. CASE w = c \o EOC BY <1>1, <3>2
    <3> QED BY <2>1, <3>1, <3>2
  <2>3. k = 0 /\ \A i \in 1..Len(c) : i + 0 = i BY <1>0, <1>3
  <2>4. 0 + Len(c) = Len(c) BY <1>0
  <2> QED BY <1>0, <2>2, <2>3, <2>4
<1> QED BY <1>2, <1>3

\* What WrittenInv says of the elements of a SET that was written.
LEMMA SetIsWrittenInOrder == WrittenInv => SetWrittenInOrder
<1>0. PICK o, h, ids, out : o = obj[Root] /\ h = hist[Root] /\ ids = o.at_value.ids /\ out = ret.out
  OBVIOUS
<1> SUFFICES ASSUME WrittenInv, ret.op = "to_der", ret.ok, ret.n = Root, ~call.active,
                    o.at_value.kind = "ary", UniversalSet(Holder(o)),
                    h.src = << >> \/ h.touched, AllUntouched(ids)
             PROVE  /\ InOrder(ids)
                    /\ IsPrefix(Octets(ids), SubSeq(out, IF o.explicit THEN 5 ELSE 3, Len(out)))
  BY <1>0 DEF SetWrittenInOrder
<1>1. /\ IInv /\ NodesInv /\ SortedInv /\ Root \in Node /\ NodeInv(o, h)
  BY <1>0, NodesFind DEF WrittenInv
<1>2. o.bytes.null BY <1>1 DEF NodeInv, ContentInv
<1>3. RepeatsArray(Root, out) BY <1>0, <1>2, Again DEF Repeats
<1>4. PICK c, w : c = Octets(ids) /\ w = Written(o, ids, c) OBVIOUS
<1>5. /\ o \in Object /\ (o.explicit => o.default_tag # -1)
      /\ ~HasNil(ids) /\ c \in Seq(Token) /\ Parts(out, o.tag_bytes, o.length_bytes, w)
  BY <1>0, <1>1, <1>3, <1>4, ArrayWritten
<1>6. ~BarredConstructed(Holder(o)) /\ ~o.modified /\ (SortsAlways(o) => InOrder(ids))
  BY <1>0, <1>3 DEF RepeatsArray
<1>7. InOrder(ids)
  <2>1. CASE o.explicit BY <1>6, <2>1 DEF SortsAlways
  <2>2. CASE ~o.explicit
    <3>1. UniversalSet(o) BY <2>2 DEF Holder
    <3> QED BY <1>0, <1>1, <1>2, <1>5, <1>6, <3>1 DEF SortedInv
  <2> QED BY <2>1, <2>2
<1>8. PICK k, j : k = (IF o.explicit THEN 2 ELSE 0) /\ j = k + 2 OBVIOUS
<1>9. w \in Seq(Token) /\ k + Len(c) <= Len(w) /\ \A i \in 1..Len(c) : w[i + k] = c[i]
  BY <1>4, <1>5, <1>6, <1>8, WrittenBegins
<1>10. out \in Seq(Token) /\ Len(out) = Len(w) + 2 /\ \A i \in 1..Len(w) : out[i + 2] = w[i]
  BY <1>5 DEF Parts
<1>11. /\ j \in Nat /\ j + Len(c) <= Len(out) /\ \A i \in 1..Len(c) : out[i + j] = c[i]
       /\ j + 1 = IF o.explicit THEN 5 ELSE 3
  <2>1. k \in Nat /\ Len(c) \in Nat /\ Len(w) \in Nat /\ j = k + 2 BY <1>5, <1>8, <1>9
  <2>2. \A i \in 1..Len(c) : i + k \in 1..Len(w) /\ i + j = (i + k) + 2
    <3>1. \A m, n, l \in Nat : l + m <= n =>
            \A i \in 1..m : i + l \in 1..n /\ i + (l + 2) = (i + l) + 2 OBVIOUS
    <3> QED BY <1>9, <2>1, <3>1
  <2>3. \A i \in 1..Len(c) : out[i + j] = c[i] BY <1>9, <1>10, <2>2
  <2>4. j \in Nat /\ j + Len(c) <= Len(out) BY <1>9, <1>10, <2>1
  <2>5. j + 1 = IF o.explicit THEN 5 ELSE 3 BY <1>8
  <2> QED BY <2>3, <2>4, <2>5
<1>12. IsPrefix(c, SubSeq(out, j + 1, Len(out))) BY <1>5, <1>10, <1>11, PrefixAfter
<1> QED BY <1>4, <1>7, <1>11, <1>12

\* A SET that was created or changed is written in the order of the octets of
\* its elements, those that no setter was called on (int_cons_sort_set).
THEOREM SetsAreWrittenInOrder == Spec => []SetWrittenInOrder
  BY SetIsWrittenInOrder, WrittenInvariant, PTL

\* A call that returns anything but the result of an encoding.
LEMMA OtherCalls ==
  ASSUME Next, ret'.op = "to_der"
  PROVE  \/ \E n \in Live : ToDerScalar(n) \/ ToDerBegin(n) \/ ToDerRefused(n) \/ ToDerSortRaises(n)
         \/ EncodeElement \/ EncodeElementFails \/ ToDerEnd \/ ToDerEndRaises
<1>1. ASSUME NEW a \in ElemNews, New(a)
      PROVE  FALSE
  BY <1>1 DEF New, NoRet
<1>2. ASSUME NEW n \in Live, GetValue(n)
      PROVE  FALSE
  BY <1>2 DEF GetValue, Done
<1>3. ASSUME NEW n \in Live, NEW t \in NewTags, SetTag(n, t)
      PROVE  FALSE
  BY <1>3 DEF SetTag, NoRet
<1>4. ASSUME NEW n \in Live, NEW sym \in TagClassSymbol, SetTagClass(n, sym)
      PROVE  FALSE
  <2>1. ret' = NoRet \/ ret' = Done("tag_class=", n, FALSE, << >>) BY <1>4 DEF SetTagClass
  <2> QED BY <2>1 DEF NoRet, Done
<1>5. ASSUME NEW n \in Live, SetInfiniteLength(n)
      PROVE  FALSE
  BY <1>5 DEF SetInfiniteLength, NoRet
<1>6. ASSUME NEW n \in Live, NEW bits \in NewBits, SetUnusedBits(n, bits)
      PROVE  FALSE
  BY <1>6 DEF SetUnusedBits, NoRet
<1>7. ASSUME NEW n, NEW v, SetValue(n, v)
      PROVE  FALSE
  BY <1>7 DEF SetValue, Done
<1> QED BY <1>1, <1>2, <1>3, <1>4, <1>5, <1>6, <1>7 DEF Next

\* An encoding that returns what the last call returned changes nothing there.
LEMMA SameResult ==
  ASSUME TypeOK, ret.op = "to_der", ret.ok, NEW n, n = ret.n, NEW ok, NEW out,
         ret' = Done("to_der", n, ok, out), ok, out = ret.out, ok \in BOOLEAN
  PROVE  ret' = ret
<1>1. ret \in RetType BY DEF TypeOK
<1>2. ret = [op |-> ret.op, n |-> ret.n, ok |-> ret.ok, out |-> ret.out] BY <1>1 DEF RetType
<1>3. ret.ok = TRUE /\ ok = TRUE BY <1>1 DEF RetType
<1> QED BY <1>2, <1>3 DEF Done

\* An encoding that succeeded succeeds again, with the same octets.
LEMMA EncodesAgain ==
  ASSUME WrittenInv, Next, ret.op = "to_der", ret.ok, ret'.op = "to_der", ret'.n = ret.n,
         ~(SortsAlways(obj[ret.n]) /\ TwoEocs(obj[ret.n].at_value.ids))
  PROVE  ret' = ret
<1>0. PICK m, out, o : m = ret.n /\ out = ret.out /\ o = obj[m] OBVIOUS
<1>1. IInv /\ NodesInv /\ LoopInv /\ TypeOK BY DEF WrittenInv, IInv
<1>2. Repeats(m, out) /\ m \in Node BY <1>0, Again
<1>3. o.bytes.null /\ o.at_value.kind = "ary" => RepeatsArray(m, out) BY <1>0, <1>2 DEF Repeats
<1>4. call.active => /\ obj[call.n].bytes.null /\ obj[call.n].at_value = Ary(call.ids)
                     /\ obj[call.n].at_value.kind = "ary" /\ obj[call.n].at_value.ids = call.ids
                     /\ call.ids \in Seq(ElementId) /\ call.i \in Nat /\ call.i # 0
  <2>1. ASSUME call.active
        PROVE  obj[call.n].at_value = Ary(call.ids) /\ obj[call.n].bytes.null
    BY <1>1, <2>1 DEF LoopInv, IInv
  <2>2. call.ids \in Seq(ElementId) /\ call.i \in Nat /\ call.i # 0 BY <1>1 DEF TypeOK, CallType
  <2> QED BY <2>1, <2>2 DEF Ary
<1>5. ASSUME NEW n \in Live, ToDerScalar(n)
      PROVE  ret' = ret
  <2>1. PICK r : r = EncodeScalar(obj[n]) OBVIOUS
  <2>2. /\ ret' = Done("to_der", n, r.ok, r.out)
        /\ ~obj[n].bytes.null \/ obj[n].at_value.kind # "ary" BY <1>5, <2>1 DEF ToDerScalar
  <2>3. n = m BY <1>0, <2>2 DEF Done
  <2>4. r.ok /\ r.out = out BY <1>0, <1>2, <2>1, <2>2, <2>3 DEF Repeats
  <2>5. r.ok \in BOOLEAN BY <1>1, <1>2, <2>1, <2>3, EncodedNode, NodesFind
  <2> QED BY <1>0, <1>1, <2>2, <2>3, <2>4, <2>5, SameResult
<1>6. ASSUME NEW n \in Live, ToDerBegin(n)
      PROVE  ret' = ret
  BY <1>6 DEF ToDerBegin
<1>7. ASSUME NEW n \in Live, ToDerRefused(n)
      PROVE  FALSE
  <2>1. ret' = Done("to_der", n, FALSE, <<>>) /\ obj[n].bytes.null
        /\ obj[n].at_value.kind = "ary" /\ BarredConstructed(Holder(obj[n]))
    BY <1>7 DEF ToDerRefused
  <2>2. n = m BY <1>0, <2>1 DEF Done
  <2> QED BY <1>0, <1>3, <2>1, <2>2 DEF RepeatsArray
<1>8. ASSUME NEW n \in Live, ToDerSortRaises(n)
      PROVE  FALSE
  <2>1. ret' = Done("to_der", n, FALSE, <<>>) /\ obj[n].bytes.null
        /\ obj[n].at_value.kind = "ary" /\ SortsElements(Holder(obj[n]))
        /\ Len(obj[n].at_value.ids) > 1 /\ ~Sortable(obj[n].at_value.ids)
    BY <1>8 DEF ToDerSortRaises
  <2>2. n = m BY <1>0, <2>1 DEF Done
  <2>3. RepeatsArray(m, out) BY <1>0, <1>3, <2>1, <2>2
  <2>4. SortsAlways(o)
    <3>1. SortsElements(Holder(o)) /\ ~o.modified BY <1>0, <2>1, <2>2, <2>3 DEF RepeatsArray
    <3>2. o.explicit BY <3>1 DEF SortsElements, Holder
    <3> QED BY <3>1, <3>2 DEF SortsAlways, SortsElements, UniversalSet
  <2>5. PICK ids : ids = o.at_value.ids OBVIOUS
  <2>6. AllEncode(ids) /\ InOrder(ids) BY <1>0, <2>3, <2>4, <2>5 DEF RepeatsArray
  <2>7. Len(ids) \in Nat /\ DOMAIN ids = 1..Len(ids)
    BY <1>0, <1>1, <1>2, <2>5 DEF TypeOK, IInv, Object, Value
  <2>8. ASSUME NEW i \in DOMAIN ids
        PROVE  Reparses(EncodeScalar(obj[ids[i]]).out)
    <3>1. PICK j \in DOMAIN ids : i < j \/ j < i
      <4>1. CASE i = 1 BY <1>0, <2>1, <2>2, <2>5, <2>7, <4>1, 2 \in DOMAIN ids
      <4>2. CASE i # 1 BY <2>7, <4>2, 1 \in DOMAIN ids, 1 < i
      <4> QED BY <4>1, <4>2
    <3>2. NotAfter(ids[i], ids[j]) \/ NotAfter(ids[j], ids[i]) BY <2>6, <3>1 DEF InOrder
    <3> QED BY <3>2 DEF NotAfter
  <2> QED BY <1>0, <2>1, <2>2, <2>5, <2>6, <2>8 DEF Sortable
<1>9. CASE EncodeElement BY <1>9 DEF EncodeElement
<1>10. ASSUME EncodeElementFails
       PROVE  FALSE
  <2>1. ret' = Done("to_der", call.n, FALSE, <<>>) /\ call.active
        /\ call.i <= Len(call.ids) /\ ~Encodes(call.ids[call.i]) BY <1>10 DEF EncodeElementFails
  <2>2. call.n = m BY <1>0, <2>1 DEF Done
  <2>3. call.i \in DOMAIN call.ids BY <1>4, <2>1
  <2> QED BY <1>0, <1>3, <1>4, <2>1, <2>2, <2>3 DEF RepeatsArray, AllEncode
<1>11. CASE ToDerEnd
  <2>1. PICK n, ids, w :
           /\ n = call.n /\ ids = call.ids /\ w = Written(obj[n], ids, Octets(ids))
           /\ call.active /\ call.i > Len(ids)
           /\ n \in Live /\ n \in Node /\ obj[n] \in Object
           /\ obj[n].bytes.null /\ obj[n].at_value = Ary(ids) /\ ids \in Seq(ElementId)
           /\ obj[n].explicit => obj[n].default_tag # -1
           /\ ~BarredConstructed(Holder(obj[n]))
           /\ AllEncode(ids) /\ \A i \in DOMAIN ids : obj[ids[i]].length_bytes # << >>
           /\ Octets(ids) \in Seq(Token) /\ w \in Seq(Token)
           /\ ConsResult(int_asn1_cons_encode_to(obj[n], TRUE, w), obj[n], TRUE, w)
           /\ obj' = [obj EXCEPT ![n] =
                        [int_asn1_cons_encode_to(obj[n], TRUE, w).obj EXCEPT !.modified = FALSE]]
           /\ ret' = Done("to_der", n, int_asn1_cons_encode_to(obj[n], TRUE, w).ok,
                          int_asn1_cons_encode_to(obj[n], TRUE, w).out)
           /\ hist' = hist /\ count' = count BY <1>1, <1>11, EndFacts
  <2>2. n = m BY <1>0, <2>1 DEF Done
  <2>3. RepeatsArray(m, out) BY <1>0, <1>3, <1>4, <2>1, <2>2
  <2>4. PICK r : r = int_asn1_cons_encode_to(obj[n], TRUE, w) OBVIOUS
  <2>5. r.ok /\ r.out = out BY <1>4, <2>1, <2>2, <2>3, <2>4 DEF RepeatsArray
  <2>6. r.ok \in BOOLEAN BY <2>1, <2>4 DEF ConsResult
  <2>7. ret' = Done("to_der", n, r.ok, r.out) BY <2>1, <2>4
  <2> QED BY <1>0, <1>1, <2>2, <2>5, <2>6, <2>7, SameResult
<1>12. ASSUME ToDerEndRaises
       PROVE  FALSE
  <2>1. ret' = Done("to_der", call.n, FALSE, <<>>) /\ call.active
        /\ NoLastElement(obj[call.n], call.ids) BY <1>12 DEF ToDerEndRaises
  <2>2. call.n = m BY <1>0, <2>1 DEF Done
  <2> QED BY <1>0, <1>3, <1>4, <2>1, <2>2 DEF RepeatsArray
<1> QED BY <1>5, <1>6, <1>7, <1>8, <1>9, <1>10, <1>11, <1>12, OtherCalls

\* to_der called twice in a row returns the same octets, unless a SET behind an
\* explicit tag, which is sorted on every call, holds two end-of-contents
\* elements, which sort! may swap.
THEOREM EncodingsAreStable == Spec => EncodingStable
<1>1. WrittenInv /\ [Next]_vars =>
        [ret.op = "to_der" /\ ret.ok /\ ret'.op = "to_der" /\ ret'.n = ret.n
           /\ ~(SortsAlways(obj[ret.n]) /\ TwoEocs(obj[ret.n].at_value.ids)) => ret' = ret]_vars
  BY EncodesAgain
<1> QED BY <1>1, WrittenInvariant, PTL DEF Spec, EncodingStable

=============================================================================
