# Verification of krypt-core-c

krypt-core-c is the C extension behind the Ruby project krypt: an ASN.1 parser and encoder that
keeps the encoding it parsed, value streams over it, templates, PEM, Base64 and hex. This
directory holds TLA+ models of its stateful parts, the TLC runs that check them, and TLAPS proofs
of their invariants. Paths below are relative to `src/ext/krypt/core/`.

Run everything from this directory:

    tlasany Asn1Data.tla
    tlc -workers 2 -config MCAsn1Data.cfg MCAsn1Data
    tlapm Asn1Data_proofs.tla

## 1. The system

Everything runs in Ruby threads under the interpreter lock, so one call into the extension
finishes before the next begins (the code says "TODO: sync" where this matters). What is hard here
is not parallelism but *sequence*: objects carry caches that must agree after any order of reads,
setters, failures and encodings; streams are stacked on one another and stop in the middle of
anything, with whatever size the caller asks for; and most operations can fail half way.

| Component | State | Operations | Talks to |
|---|---|---|---|
| ASN.1 object (`krypt_asn1-internal.c`, `krypt_asn1_codec.c`) | header, cached identifier, length and value octets | parse header, read or skip value, encode header or object, codecs | octet streams |
| ASN1Data (`krypt_asn1.c`) | one object, flags decoded, modified and explicit, instance variables tag, tag_class, infinite_length, value | new, decode, value, tag=, tag_class=, infinite_length=, value=, to_der, encode_to | ASN.1 object; its elements are ASN1Data too |
| Value streams (`krypt_asn1_in_definite.c`, `krypt_asn1_in_chunked.c`, `krypt_asn1_in_adapter.c`) | octets left; current header, header offset, state, the stream of the current value | read, seek | an inner stream, and recursively value streams |
| Pull parser (`krypt_asn1_parser.c`) | a stream shared with every header; per header: consumed, cached value, cached Instream | Parser#next, Header#value, value_io, skip_value, encode_to | value streams |
| Templates (`krypt_asn1_template*.c`) | object, definition, flags parsed, decoded, modified; instance variables | parse_der, get and set callbacks, to_der, the matchers of each kind of definition | ASN.1 object, codecs |
| PEM (`krypt_io_in_pem.c`, `krypt_pem.c`) | scanner state, name, a buffer of decoded octets, end flag | read, continue_stream, PEM.decode | a line source, Base64 |
| Codecs (`krypt_asn1_codec.c`, `krypt_missing.c`, the header functions of `krypt_asn1-internal.c`) | none | encode, decode, validate, compare encodings | ASN.1 object, ASN1Data |
| Base64, hex (`krypt_b64.c`, `krypt_hex.c`) | none | encode, decode | PEM, octet streams |
| Decoding a source (`krypt_asn1.c`, `krypt_io.c`) | where an IO stands | decode, decode_der, decode_pem | PEM, ASN.1 object, error stack |
| Error stack (`krypt_error.c`) | a list of messages | add, raise, clear | everything |
| Octet streams (binyo) | position | read, gets, write | outside this repository |

What makes each correct:

- **ASN1Data**: cached octets describe the header and the value they are written with; attributes
  are those of the header; an object that nobody changed encodes to the octets it was parsed from;
  the elements decoded are all of the value; encoding is repeatable.
- **Value streams**: the octets of the value come out in order, completely and only once, for any
  sizes of reads; the end is announced at the end; a stream never reads past its value; every read
  returns.
- **Pull parser**: a program that keeps to the documented order of calls is given the headers of
  the structure and no others, each with its own value, and misses none; for any program, a value
  is handed out in one way only and answers once given do not change.
- **Templates**: parsing gives every object of the value to a member it is for, in the order of the
  layout, and sets the defaults of the absent members; an encoding that the layout describes is
  accepted; what was decoded or set stays; every get returns.
- **PEM**: all elements come out in order, each with its name; a text that ends inside an element
  is an error; the buffer is bounded; decoding ends.
- **Codecs, Base64, hex**: a value that is encoded comes back, octets from elsewhere keep their
  meaning, up to the limits of the C types.
- **Decoding a source**: each call answers with the value or element it stands before and leaves an
  IO behind it; trying a source as PEM does not change what it is as DER; an exception tells the
  errors of its own call.

The hazards, each at its line, are listed under `hazards` in `PROJECT.json`.

## 2. Modules

| Module | Models | Used by |
|---|---|---|
| `Asn1Object` | one object as a record: header, caches, codecs, header and value encoding | `Asn1Data` |
| `Asn1Data` | a tree of objects: parse, new, value, the setters, to_der element by element | `MCAsn1Data`, proofs |
| `OrderedSource` | abstract: items handed out in order, end announced at the end, failure only if the input is cut | `ValueStream`, `PemDecode` (refinement) |
| `HeaderOctets` | the octets of a header and the parser for them | `ValueStream`, `PullParser` |
| `ValueStream` | the stack of definite and chunked streams below an Instream | `MCValueStream`, proofs |
| `PemDecode` | the PEM stream and the loop of `Krypt::PEM.decode` | `MCPemDecode`, proofs |
| `PullParser` | `Parser#next` and the headers it gives, over one shared IO | `MCPullParser`, proofs |
| `TemplateMatch` | which objects a member of a layout matches, and a declarative definition of the same | `Template` |
| `Template` | lazy parsing by layout, get, set and to_der of a tree of templates | `MCTemplate`, proofs |
| `Numerals` | the number that digits stand for, and the lowest digits of a number | `Asn1Codec`, `HeaderCodec` |
| `Asn1Codec` | the codecs of values, with C integers of scaled widths | `Codecs` |
| `HeaderCodec` | tag and length octets of any size, the order of encodings in a SET | `Codecs` |
| `TextCodec` | Base64 and hex | `Codecs` |
| `Codecs` | a program that encodes, decodes, and encodes again | `MCCodecs`, proofs |
| `Decode` | decode, decode_der, decode_pem on one source, and the error stack | `MCDecode`, proofs |
| `MC*` | instances for TLC | the `.cfg` files |
| `Asn1Data_proofs`, `Asn1Encoding_proofs`, `ValueStream_proofs`, `PullParser_proofs`, `Template_proofs`, `Codecs_proofs` | theorems and lemmas about the module they are named for (`Asn1Encoding_proofs`: what `Asn1Data` writes) | |
| `Integers_proofs` | the INTEGER of `Codecs` | |
| `Decode_proofs` | theorems and lemmas about `Decode` and, in its last part, about `PemDecode` | |

Definitions whose names end in a suffix after an underscore and that are marked `mutant` are
plausible bugs of the definition below them. They are used by no specification; exchanging one for
the other shows that a property can fail.

### Asn1Object and Asn1Data

An object is a record with the fields of `krypt_asn1_data_st` and the header and instance
variables it owns: `tag_bytes`, `length_bytes` and `bytes` are the caches, `at_tag`,
`at_tag_class`, `at_inf` and `at_value` the attributes. The identifier octets are one token and so
are the length octets; value octets are tokens of their own. So lengths count tokens, and that the
right header was written is visible without octet arithmetic. A value that was parsed is given as
its tokens and the elements `krypt_asn1_next_object` would cut from them, with `junk` for octets
that no codec accepts and a length that promises more than there is for truncated ones.

`value`, `tag=`, `tag_class=`, `infinite_length=`, `value=` and `new` are one action each: they
run under the interpreter lock and call no Ruby code. Encoding an Array is not: `to_der` calls the
elements one by one and may raise at any of them, so it is `ToDerBegin`, `EncodeElement` or
`EncodeElementFails` per element, and `ToDerEnd`; the header is written and cached before or after
the elements, as in `int_asn1_cons_encode_to`. `ret` is what the program saw last. `hist` is
history for the properties: where an object came from, and the few things that excuse a stale
cache; a fresh excuse is set by exactly the step that the code gets wrong, so that the invariants
say what holds otherwise, and the violation runs of section 3 say what the excuse costs.

An object has one of four codecs: end-of-contents, INTEGER, BIT STRING, or the default. Only the
class BitString has `@unused_bits`; `SetUnusedBits` changes it and nothing else, so an encoding that
is cached keeps its old octet (`hist.bits` is the excuse) and the next decode of a parsed object
overwrites what was set. An object that got the codec by its tag alone has no such variable, and
`NUM2INT` raises through `to_der` (`RaisesTypeError`), which leaves the modified flag set. An
explicit tag writes a new BIT STRING with 0 unused bits, whatever the attribute says
(`UnusedBitsWritten` says when the attribute counts).

What the code does and a reader may not expect, all of it in the model:

- the end of an indefinite length may be written with a length of several octets, which the parser
  accepts; once the value was read it is encoded as 00 00 (`EndsPlainly`);
- a SET behind an explicit tag is sorted on every to_der, whether it was modified or not, and two
  end-of-contents elements in it come after each other either way (`krypt_asn1_cmp_set_of`), so a
  second to_der may return them in the other order (`TwoEocs` in `EncodingStable`);
- the end-of-contents of an indefinite length is added behind an explicit tag unless the wrapped
  object is end-of-contents itself (`WithEoc`), and behind an Array unless its last element is one;
- sorting a SET raises not only when an element does not encode: its elements are parsed again to be
  compared, which fails for a primitive one that was made infinite (`Sortable`);
- an element that is changed inside a SET nobody changed is encoded at its old place: the modified
  flag is that of the element alone (`AllUntouched` in `SetWrittenInOrder`);
- a tag_class= that raises half way leaves header and attributes apart, and an element with an
  empty Array; both are encoded as they are (`hist.retag`).

Not in the model: enumerables other than Array as value, and elements that have elements
themselves. The caches of a deeper tree relate a parent to its elements in the
way the two levels here do.

### ValueStream

`streams` is the stack of streams: 1 is the Instream's own, `streams[i + 1]` reads the value of
the current header of `streams[i]`; `at` is the level that runs. One action per step of a read:
`Element` is `int_read_single_element` up to the call for the value, `ReadValue` this call,
`DefiniteRead` a read of the inner octets, which may return fewer than asked for,
`ChunkedReturns`, `ChunkedEnd` and `DefiniteEnd` the returns. Octets are real octets and the
header parser is `krypt_asn1_next_header` for identifiers of one octet (`HeaderOctets`). `SIZE_MAX` is
a constant; lengths above it are refused. What C leaves undefined (handing out octets of a header that was
never parsed) is the status "crashed", which counts as failed in the refinement.

What an inner stream holds (`JobsAssumption`) is one value, whole or cut, and what follows it.
Where the value ends is told without the streams: by its length, or, if that is indefinite, by
`Extent`, which goes over its elements header by header to its end-of-contents octets. An
element that the code takes for end-of-contents and that is not the two octets 00 00 makes the value
"malformed", and such values are left out: `int_check_done` looks at the tag number and the class
only, so a constructed identifier (`20 ..`), another length (`00 81 00`) and even a value behind it
end the stream as well. X.690 knows no such element, but the code does not refuse it; the actions
have what it does (`IsEndOfContents`), the properties and the theorems do not speak of it.

Not modelled: seek (its chunked form is a TODO), mark, free, tag numbers above 30 (no octet of a
job has all of its five lower bits set), and an error of the stream below (`BINYO_ERR`) other than
its end inside a header or a value, which every function here passes on.

### PullParser

Nothing in the parser or in a header knows where the IO stands, so every call acts on `pos`
wherever an earlier call, of this header or another, has left it. A step is a call: `ParserNext`,
`SkipValue`, `ReadValue` and `ValueAgain` (`Header#value` the first time and later), `ValueIo`, and
`ReadDefinite` and `ReadChunked` on the Instream. What an IO holds is given with the elements it is
an encoding of; `IsStructure` says what that means without a parser (elements lie inside one
another or behind one another, leave no gap, and fit their headers), and is assumed of every input
(`InputsAssumption`). As for `ValueStream`, identifiers have one octet, and the only element of an
indefinite value that the code would take for its end-of-contents is 00 00, at the end of it.
`ParsedHeader` has the fields of
`krypt_asn1_parsed_header` that change. Programs make any calls in any order. The history variable
`orderly` says whether a program has kept to what the comment on `Parser` asks for (skip, consume
or descend into a value before the next header, one way to a value, nothing after an error), and
the properties about the structure are stated for these programs; `OneWayToValue` and
`CachedAnswers` are stated for all.

`skip_value` is a seek: it may go behind the end of the IO without an error, and it does not move
at all for an indefinite length, whose `length` is 0. What `next` then gives are the headers
inside the value: real ones, but not those behind the value that the comment promises.
A chunked stream that loses its header (the
subject of `early_end`) stops the model, and so does one that ends with end-of-contents that has a
value (`EndsHere`). An IO fails only by its end. The comment on `Header#value` says that it returns
nil if the length is 0 (`krypt_asn1_parser.c:282`); the code does so for NULL and end-of-contents
alone and returns an empty string for every other tag (`krypt_asn1_parser.c:308`, `Answer`). The
run has both cases, and `OwnValues` takes either answer for a value without octets. Reading an indefinite value in parts, and `values_only`,
are in `ValueStream`. `encode_to`, `bytes`, `to_s` and the attributes of a header change no state
of it.

### PemDecode

A text is a sequence of lines; a line has a kind (what it begins and ends with), a name, a number
of characters and the octets Base64 makes of it. `Filling` is the guard of the loop of
`int_b64_fill` and each branch of its switch an action; `FillSucceeds` and `FillFails` are what
follows the loop. `Fill`, `int_consume_bytes` and `ReadReturns` are `int_b64_read`, `NextElement`
and `DecodeEnds` the loop of `krypt_pem_decode`. `BufferSize` and `LineSize` stand for 8192 and
256. Not modelled: mark, free, and the block that decode yields to.

`TextFrom` says what a text consists of, for the properties: from any line the next header, the
octets up to the next line with a dash, the footer from there, and so on, without states, buffer
or reads. `DocsAssumption` demands that the elements of a text, and whether it is cut, are what
`TextFrom` makes of its lines, so the elements the run lists by hand are compared with it too.

### TemplateMatch and Template

An object is a number; `Encodings` says its tag, class and flags and the objects its value is cut
into, with `junk` for octets that are no header, and `decodes` for what the codec says. A class is
a `Definition` with its layout. `Match` is the dispatch to the `int_match_*` functions with their
four outcomes; `Fits`, `DescribedBy` and `Unambiguous` define the same declaratively, and the
properties compare the two.

`templates` maps the path of members from the first template to the template there. Its fields are
those of `krypt_asn1_template`, `ivars` the containers of its members; `origin` and `assigned` are
history. A get runs to its end before another call begins. Its loop over a layout may stop at every
member and keeps what it has set before, so `int_parse_cons` is `ParseConsBegins`, one `MatchMember`
per member, and `ParseConsEnds`; `ParseChoice` and `ParseOf` are the other ways to parse, and
`GetReturns` decodes the member and returns. `ParseDer`, `New`, `Set`, `SetTag` (@tag and @type of a
CHOICE, as one) and `ToDer` are one step each.

What the code does and a reader may not expect, all of it in the model:

- a set on a template that is not parsed, or of a member that is not decoded, is lost at the next
  get (`IsKept` is the case in which `SetIsKept` promises something), and so is a set of @tag or
  @type before the first get of a CHOICE;
- a member that does not match is skipped, so the last object that no member matched is dropped
  when the last member is absent (`krypt_asn1_template_parser.c:584`), and an encoding with one
  object more than the layout describes is accepted then; the end-of-contents octets of an
  indefinite SEQUENCE are tried as an object for the members that are left;
- a SEQUENCE with an empty value always fails, even if all members are optional, and so does a
  SEQUENCE OF of indefinite length;
- a mandatory CHOICE behind an explicit tag that has nothing in it is passed over as if it were
  optional (`MayBeAbsent`), and a CHOICE with an implicit tag matches nothing (`OnlyMisfitsFail`
  does not speak of layouts with one);
- the tag around an explicitly tagged CHOICE is not looked at, and the length behind an explicit
  tag is not either;
- the default of a TEMPLATE member whose class is a SEQUENCE OF is set under the name `@value`;
- to_der writes the octets a template was parsed from, after a set as before, and fails as soon as
  the template is parsed.

Not modelled: a CHOICE inside a CHOICE and members of a CHOICE
that are optional or have a default (`LayoutsAssumption`), the elements of a SEQUENCE OF templates
as templates of their own, the classes APPLICATION and PRIVATE, and `<=>` and inspection, which
change nothing.

### Codecs, Asn1Codec, HeaderCodec and TextCodec

The codecs keep no state, so `Codecs` is one program with one value: it makes a value or receives
octets, encodes and decodes, and remembers the value it had first. What must agree is stated by
definitions that do not follow the code: `Meaning` is two's complement, `SubIdMeanings` the numbers
between the dots, `LineByLine` decodes the lines of a text one by one.

TLC has integers of 32 bits, so the C types are scaled: `CHAR_BIT` is 3, an int has 2 octets and a
long 4. What the code depends on is kept: a long has room for an int, for an octet that an int has
no room for and for one that only a long has; and `LONG_MAX = 2047` ends in the digit 7, as 2^63 - 1
does, which is what the limit of `int_get_sub_id` (multiply by ten, add a digit) is about. Headers
need no scaling: `INT_MAX = SIZE_MAX = 2^31 - 1`. The text of an OBJECT IDENTIFIER is the sequence
of its numbers, a time its fields, a Base64 text a sequence of sextets and of the four other kinds
of characters. A shift that C leaves undefined gives any of the results the build can produce, so
`int_asn1_decode_integer` is a set. `Asn1Codec` and `HeaderCodec` model the whole codec of a value
or a header; `Asn1Object` has the same codecs with octets as tokens.

Not modelled: UTF8String, whose conversion is Ruby's, and NULL and OCTET STRING, which are the
default codec of `Asn1Object`.

### Decode

A source is a sequence of tokens: the octets of a DER value one each, a PEM boundary one, and the
Base64 characters of one octet one. `krypt_asn1_decode`, `krypt_asn1_decode_der` and
`krypt_asn1_decode_pem` are one action each (they run under the interpreter lock); `Read` is what a
stream gives after n octets were asked for, and says how far it has gone in the source to do so.
`PemRead` is the scanner of `PemDecode` as a function: it fills a buffer of `FillSize` line by
line. (`Decode_proofs` extends both modules, so their names differ: `DecodeInit`, `FillSize`.) `krypt_error_raise` tells the whole stack, `krypt_asn1_data_get_value` and
`krypt_error_clear` stand for the other users of the stack: one that adds and raises, one that
forgets.

What the code does and a reader may not expect:

- decode tries PEM first and reads an IO to its end for it. What it has read is remembered for the
  one attempt as DER that follows, and lost afterwards: a second decode stands at the end;
- a DER value with a PEM text inside is decoded as the element of that text;
- a PEM text whose element is broken or cut is decoded as DER, its first dash being the identifier
  of UNIVERSAL 13;
- an element that fills the buffer is given before its footer is looked for, so it is accepted
  without one;
- when decode has fallen back, the errors of the attempt as PEM stay on the stack and are told by
  the exception of some later call. `StrayErrors` says how many and until when;
- decode of an object that has `to_pem` but not `to_der` raises a TypeError, although the comment
  above it promises either (`krypt_asn1.c:1507`); decode_pem takes it.

`Source` carries, for the properties, what a reader sees in it: the values and the elements.
`ValuesFrom` and `ElementsFrom` say from the tokens alone, without streams, buffers or the order of
attempts, what these are: each value ends where its length says, each element is the value whose
octets stand between its first line and the next dash. `SourcesAssumption` demands that the lists
of a source are what these make of its tokens, so the sources the run lists by hand are compared
with them too. In a `WellFormed` source every element is closed by its own footer, except for a
last one that is cut, and `to_der` of an object returns no PEM text; all sources of the run are
`WellFormed` but some of `BrokenSources` and `Unfinished`.

Octets are those of a primitive identifier with a tag number up to 30 or of a length of one octet,
and the length 255 that the parser refuses (`OctetValue`); longer headers are in `HeaderCodec`.

## 3. Runs

| Run | Question | Answer |
|---|---|---|
| `asn1data` | do caches, attributes and encodings agree under every sequence of calls? | holds |
| `read_after_write` | does value= followed by value give what was assigned? | no: lost on a parsed object that was not read yet |
| `length_follows_elements` | is the length right after an element changed? | no: the cached one is written |
| `value_stream` | does a stream deliver exactly its value, and does every read return? | holds, for reads of one octet and of more than there is |
| `early_end` | ... when the input ends where a header is due? | no: the last header is read again, without an error |
| `medium_reads` | does a read return at most what was asked for? | no: each inner read may return that many |
| `pem` | do the elements come out, in order, from a bounded buffer, and does decoding end? | holds |
| `pull_parser` | do headers answer once and alike, and do orderly programs get the structure? | holds |
| `template` | do objects go to the members they are for, do only misfits fail, and does what was read or set stay? | holds |
| `codecs` | do values, headers, sets and texts keep their meaning through encoder and decoder? | holds |
| `integers_survive` | ... also the INTEGERs between an int and a long? | no: the decoder shifts an int |
| `decode` | which value does each call answer with, where does it leave an IO, which errors stay? | holds |

The runs that answer "no" quote the sentence of the documentation they contradict, in `findings`.
The passing runs leave out the inputs that are known to go wrong, and only these:

- `value_stream` reads through a chunked stream with sizes 1 and `Big` (only `Big` where headers
  with several length octets are handed out too). Sizes between are the subject of `medium_reads`;
  a header that does not fit into a read is handed out with its first octets repeated
  (`int_read_header_bytes`, `krypt_asn1_in_chunked.c:135`). It has no input that ends where a
  header is due after another one was read, which is `early_end`.
- `pull_parser` stops where `early_end` begins, and neither it nor `value_stream` has end-of-contents
  other than 00 00 or an identifier of more than one octet.
- `codecs` excepts the integers of `integers_survive` (`DecodesRight`), numbers of an OBJECT
  IDENTIFIER that fit no long, and times outside the years the type can express.

Where the code departs from what one would expect and a property can say what it does instead, the
property says so and the passing run has the case: an element without content ends a text and all
that follows is dropped (`ElementsDecoded`, `krypt_pem.c:110`); a footer with a beginning of the
name, even none, ends an element (`FooterReached`, `krypt_io_in_pem.c:247`); a decode that fails
drops the octets of a constructed value, so the object encodes to something else afterwards
(`ParsedEncodingPreserved` excepts it by `hist.lost`, `krypt_asn1.c:805`); one object may be left
over by a layout (`LayoutRespected`); an empty value is an empty string where the comment promises
nil (`OwnValues`, `krypt_asn1_parser.c:308`).

Hazards without a property are those the code does not guard against at all, so that there is
nothing to hold: a second `skip_value`, a set before the first get, an element changed inside a
SET, the object that a layout leaves over, the end-of-contents among absent members, a
sub-identifier above `LONG_MAX`. The note of each says what the nearest property covers.

Bounds, and why they suffice:

- `MaxSets = 2`: setters per behaviour. One setter makes a cache stale, a second one combines with
  it (a class changed after an explicit tag, a value after an infinite length). Reads and
  encodings are unbounded.
- `MaxElems = 2`: two elements are needed to sort a SET, to fail at the second after the first was
  written, and to truncate the last of several. `RootWires` has one encoding per interesting shape
  (BER lengths and integers, a SET out of order, a truncated last element, junk, an indefinite
  length, an undecodable scalar, a BIT STRING with unused bits), `RootNews` one object
  per constructor path (an empty Array, an explicit tag, no default tag, a BIT STRING with an
  implicit tag and one that has only its tag). `NewBits` has a number that a BIT STRING may have and one it may not.
- `MCJobs`: empty, definite, nested indefinite in indefinite, definite constructed in indefinite,
  long length octets, each whole and cut at several places; octets follow the value in some, so
  that reading too far is seen. Three levels of streams occur.
- `MCDocs`: all sequences of up to three of seven blocks (elements of one and of several fills,
  without content, with footers of another name and of a beginning of the name, and lines between
  elements), and all of one block followed by an unfinished element. `BufferSize = LineSize = 8`
  with lines of 4 characters makes elements of
  one, two and three fills, with ends that coincide with a full buffer and ends that do not.
- `MCPullParser`: a definite value with elements, an indefinite one and an empty one, whole and cut
  at several places, and values whose octets look like headers or like end-of-contents (`20 00`), so that a cursor at the wrong place
  finds something there. `MaxHeaders = 4` is all headers of the definite structure and the first
  end-of-contents of the indefinite one; `MaxSkips = 1` bounds seeks, each of which may go on behind the end,
  and `ReadSizes = {1, 3}` reads in parts and at once.
- `MCTemplate`: a SEQUENCE with a mandatory, an optional implicitly tagged and a default member, a
  CHOICE, a SEQUENCE OF, and two classes that hold these as members, explicitly tagged, with a
  default, in a SET and with ANY; 30 documents for them: complete, with members absent, surplus,
  out of order, of the wrong type, empty, indefinite, junk behind the last object, and values that
  do not decode. Three levels of templates occur. `MaxSets = 1`: a set only meets the container it
  replaces, and its number tells it from any other value; gets are unbounded.

- `MCCodecs`: every number up to a little more than `LONG_MAX` and those around every power of two
  up to 22 bits, nearly twice a long; all octet strings of up to three octets and, over the octets
  that decide a branch, of up to five, which is one more than a long; OBJECT IDENTIFIERs of two to
  four numbers on both sides of every limit (39, 40, 63, 511, 2047) and octets of up to eight
  sub-identifier octets; tags and lengths where the number of their octets changes and at the C
  limits; `MaxLongs = 2`, as the longest numbers take two longs; SETs of up to three elements that differ in class, number or content only; octets and
  texts of up to nine, which is three groups of Base64, with every line length that changes a group.
- `MCDecode`: up to two values or elements in one source, `FillSize = 3` so that elements have
  one, two and three fills, cut and broken sources of each kind, a value with an element inside,
  and the four objects with and without `to_der` and `to_pem`. `MaxCalls = 4`: two calls read two
  values, a third stands at the end, and a fourth tells the errors the others left. `TextLength`
  scales the length 45 that a dash has as a length octet.

`CHECK_DEADLOCK FALSE` stands where the system stops: a stream may have failed fatally, decoding a
text ends, a program has made all its calls of a pull parser, of decode or of a codec, and an
encoding may fit no class.
`MCAsn1Data` checks deadlock.

**Fairness.** `ValueStream` and `Template` have weak fairness on `Step`, `PemDecode` on `Next`: a
call that has begun runs on in its thread, and nothing in it waits. No fairness is assumed for
calls a program may or may not make (`Read`, `Get`), and none in `Asn1Data`, `PullParser`,
`Codecs` and `Decode`, which have no liveness property: each of their calls is one step, or, in
`Asn1Data`, may be left at any element by an exception.

**Refinement.** `OrderedSource` is what a program expects of a decoder; its items are octets for
`ValueStream` (`ReadsDeliverTheValue`) and elements for `PemDecode` (`ElementsDecoded`). Its
`AnnounceEnd` demands that everything was handed out and that the input was whole, `Fail` that it
was cut, so both missing octets and spurious errors break the refinement.

## 4. Proofs

All theorems hold for every value of the constants that satisfies the named assumptions, which TLC
evaluates in the runs. Each has the same shape: an inductive invariant that TLC checked first
(`IInv`, `WrittenInv` in `Asn1Data`, `ParseInv` in `Template`), a proof that it holds initially,
one lemma per action that each step keeps it, and consequences. Where a proof needs induction over
octets, elements or members it takes the least counterexample (`FirstOfNumbers`, by the
well-foundedness of inclusion of finite sets), as the induction theorems of the library have an
operator as parameter and the provers cannot instantiate them. A recursive function is defined only
if one that satisfies its equation exists, so this is proved before it is used.

- **Asn1Data_proofs** (`ConstantsAssumption`, `TagsAssumption`: what is parsed is well formed, as
  the header parser guarantees; constructors get what they accept). `TypeCorrect`,
  `TagCacheIsFresh`, `LengthCacheIsFresh`, `AttributesAreMirrored` follow from `IInv`. Freshness
  of the caches alone is not inductive: attributes and header change in different calls and must
  agree in between (`MirrorInv`); encoding an explicit tag sets the constructed bit and so needs
  that no identifier was cached without it (`ExplicitInv`); the length of an object without value
  bytes is reused, so it must be that of the empty value (`LengthInv`); decoding drops the
  value bytes only of constructed objects (`BytesInv`, `ArrayInv`); and only an object that a
  program created, which is never decoded, changes its codec with its tag (`CodecInv`): a cached
  length of no octets stays right only if the codec, unlike that of a BIT STRING, writes none.
  While an Array is encoded the object must stay constructed and without bytes, although its elements change.
  The module begins with the types of all operators on one object and with what each of them does
  to the invariant of one object, and ends with `NodesInv`, which `Asn1Encoding_proofs` needs.
- **Asn1Encoding_proofs** (the same assumptions) proves what `to_der` writes, for any tags, values,
  number of elements and order of calls: `ParsedEncodingsArePreserved`, `ElementsAreComplete`,
  `LengthsAreCorrect`, `SetsAreWrittenInOrder`, `UnusedBitsAlwaysWritten` and `EncodingsAreStable`.
  They follow from `WrittenInv`, which adds to `IInv`
  - for each object (`NodeInv`): a header is one identifier and one length of the right kind
    (`HeaderInv`); a constructed value is its elements and gone once it was read (`ContentInv`);
    which histories fit which flags (`HistoryInv`); the first octet of a cached BIT STRING is the
    attribute (`BitsInv`); a length cached without value octets is that of what is encoded again
    (`WrappedLengthInv`); and an untouched object has the octets it was parsed from (`SourceInv`).
    An element holds no elements (`ElementInv`);
  - `ElementsInv`: the elements of an untouched root were parsed from its octets, and none of them
    is the end-of-contents of an indefinite length, or the encoder would not add that again;
  - `ArrayLengthInv`: a cached length is that of the elements. It needs that the elements have
    cached headers, as an element without one may become longer when it is encoded;
  - `SortedInv`: a SET whose modified flag was reset is in order. The flag is reset when encoding
    fails too, so it must hold after any part of it;
  - `LoopInv`: the Array under way is still that of its object, in order, and what is in the buffer
    is the encoding of the elements visited;
  - `RetInv`: what `to_der` returned last it would return again. Only while a SET behind an explicit
    tag is sorted once more this may fail, when two of its elements are end-of-contents.

  Three facts about sequences carry the proof: `FlattenSeq` element by element (`FlattenAppend`),
  that sorting keeps the number of octets (`SameLength`, by counting places), and that two sorted
  orders of the same elements encode alike (`SortedAgain`), whatever `sort!` makes of ties.
  `LengthsAreCorrect` is an induction of its own above `WrittenInv`: a setter on an element makes
  the cached length stale, but what was returned before is not.
- **ValueStream_proofs** (`SizeAssumption`, `JobsAssumption`: identifiers of one octet, and a value
  that ends at the octets 00 00 if it is indefinite). `StreamsTyped` and
  `ValueStreamsFit` for any depth of nesting. `FitInv` adds to the pairing of header and value
  stream that no stream has read more than its limit, and that a stream that goes on to a value
  has left NEW_HEADER: the identifier is one octet and a read has room for at least one, so no
  stream stops inside PROCESS_TAG (`StreamInv`).
  `PositionsInsideValues`: the streams take the whole value and nothing behind it. A bound on each
  stream does not give this, as a chunked stream has none: what every step keeps is that the
  streams, from where they are, still come to the end of the value (`PositionInv`). The last
  stream comes to the end of what it has left, and each above it from there to its end-of-contents
  octets (`Reaches`). That needs to know when end-of-contents octets were parsed but not yet
  handed out: then the stream is done or about to be, and only an empty value stream may lie above
  it (`EndInv`, `EndsLast`). `Extent` and `Reaches` are recursive functions, so their existence is
  proved first (`ExtentsExist`, from the end of the octets to the front, and `ReachesExist`), and
  that each goes forward.
  `OctetsAreDelivered`: the streams implement `OrderedSource`, under the hypothesis `ReadsFit`,
  which the code needs (findings `early_end` and `medium_reads` are what it does beyond): the value
  is definite, or its octets are read with their headers and are not cut, and the octets of a
  length are read at once. That what was given is a beginning of the value is not inductive, as an
  octet is taken by the last stream and given by the first. What every step keeps is that the
  octets taken are those given, then what each stream holds for its caller, from the first to the
  one at work, then the octets of a header that is parsed but not yet handed on (`Handed`). Each
  step moves some from one of these to the one before (`HandedOnCall`, `HandedOnReturn`) or takes
  them from the source. Around it, `CallInv` says which streams may hold anything at each step
  of a call, and `EndingInv` that the end is announced only by a first stream that has read all of
  its value, and a failure only where the octets are cut.
- **Decode_proofs**, of `PemDecode` (`BufferAssumption`, `DocsAssumption`: Base64 makes at most three octets of
  four characters). `BufferStaysBounded`: the buffer is bounded because the octets of a fill are
  bounded by the characters counted (`FillInv`), and the count stops with the first line beyond
  `BufferSize`. `ElementsEndAtFooters`: an element is only handed out when the scanner stands at a
  footer; this needs that octets have a name (`NameInv`), that a name excludes the header state,
  and that the end flag is set only at a footer or between elements (`DoneInv`).
  `DecoderRefinesSource`: the decoder implements `OrderedSource`, for any texts and sizes. The
  invariant is that what was decoded, and what the rest of the text consists of for a scanner in
  this state, are together what the text consists of (`RestInv`); so every step of the scanner
  either leaves the sum as it is or moves one element from the rest to the program. `Rest` begins
  at the line that is due: a fill that goes on has gotten a line it has not looked at, while one
  that has enough, or stands at a footer, stays on the line it dealt with last (`Due`). That needs that a fill only ends for
  having enough inside content, and that the program never reads while the scanner looks for a
  footer. `ContentFrom` and `TextFrom` are recursive functions, from the end of the text to its
  beginning: that they exist is proved first (`ContentExists`, `TextExists`), and that what lies
  behind a line depends on the lines from there only.
- **PullParser_proofs** (`InputsAssumption`, `ReadSizesAssumption`). For every program, any structure
  of identifiers of one octet with end-of-contents of 00 00 only, whole or cut,
  and any number of headers: `ValuesGoOneWay` and `AnswersAreCached`. `HeadersInv` says which
  combinations of the fields of a header are possible (a cached value excludes an Instream, and
  either means that the header is consumed), that an Instream has given what it has read and no
  more than its limit, and that headers lie in the order they were given, all of them before the
  position of the IO. For programs that keep to the documented order: `HeadersAreOfTheEncoding`,
  `ValuesAreTheirOwn`, `NothingIsMissed` and `WholeEncodingsDoNotFail`. They follow from
  `OrderInv`: each header is an element, with its own value or as much of it as its Instream has
  given (`OwnInv`); the IO stands as far into the value of the last header as this header was
  skipped, consumed or read; and every element that begins before that value was given or lies in
  a value passed (`StandInv`). A call of `next` in order then stands where an element is due
  (`Due`). How far the read of an indefinite value gets is a recursive function: that it exists is
  proved first (`ChunksDefined`, from the end of the octets to the front), and then that from the
  beginning of a value of the structure it comes to the end of this value, or to the end of the
  octets if they are cut (`ListIsRead`). The second is where `FitsHeader` is needed, which says the
  same of an encoding without a parser: between the elements of the value is nothing, and the first
  end-of-contents among them ends it.
- **Template_proofs** (the assumptions of `TemplateMatch` and `Template`: definitions as the Ruby
  code makes them, encodings as the header parser leaves them). `SetsAreKept` and
  `DecodedValuesStay` for all layouts and depths. `IInv` says that a template that is not parsed has
  its object, that a container is decoded or has an object and a codec to decode it, and that a
  template below one that is not parsed is not parsed either (`ParentsParsed`): finding a member
  makes the template there anew, and what was decoded or promised to stay in a parsed one would be
  gone. While a layout is matched, the template of the call stays unparsed (`CallInv`).
  What parsing by a layout gives, in the second half of the module: `LayoutsRespected`,
  `DefaultsAreApplied`, `ChoicesAreFirst` and `MisfitsOnly`, for all classes, encodings and orders
  of gets and sets, also those in which an earlier parse failed half way. One hypothesis is not
  justified by the code: that the members of a class have names of their own (`MembersOwnNames`,
  true of the classes of the run). The Ruby methods that declare members do not refuse a
  second member of the same name, and the two would share one container. The invariant says in the
  middle of the loop of `int_parse_cons` which members have objects, that there are as many as
  `num_parsed` and they are the first of the value, in order, that each member passed over may be
  absent and has its default, and that the object at hand is the next (`LoopInv`); what a failed
  parse leaves is still matched (`MembersInv`); and where the layout describes the value in one way
  only, the loop has followed that description so far (`DescriptionInv`), so it cannot fail.

- **Decode_proofs**, of `Decode` (`DecodeAssumption`, `SourcesAssumption`), for any sources, any size of the
  buffer and any number of calls. `TypeCorrect`, and `ErrorsAreTold`: at most three errors per
  fallback stay on the stack. This counts the calls in `Fallbacks`, which every exception and
  every template call empties, as they empty the stack. `AnswersAreInOrder` and `DecodeTriesBoth` are stated of `WellFormed` sources. Of others
  they are not true for every size of the buffer, as whether the missing footer of an element is
  seen depends on where the buffer was full; the few of the run stay with TLC. A stream is first reduced to the octets it gives (`Gives`):
  however many fills a read takes, it is a beginning of the octets of one element, with an end or
  an error behind them, and after a read an IO stands behind the lines it took. Then each call
  answers with the first of the values or elements from where it stands on, and stands before the
  rest (`DerStep`, and `ElementGiven`). The invariant relates this to all calls made: `Orders` says
  of a program that repeats one call that the answers so far are the first ones of the source, in
  order, and, while there are any to come, that these are what follows from the place of the IO
  on (`DerOrder`, `PemOrder`); for decode, that an IO without elements stands at its
  beginning or, after the first call, at its end (`TextOrder`). Answers alone are not inductive.
  The recursive functions (`Base64Decoded`, the fills of `PemRead`, `ValuesFrom` and
  `ElementsFrom`) exist by induction over the text.
- **Codecs_proofs** (`WidthsAssumption`, `LimitsAssumption`: the limits of the C types are those of
  binary numbers, and a length has less than 127 octets; `ValuesAssumption`, `ReceivedAssumption`
  and `ColumnsAssumption`: what is encoded is a value of its type, what is received consists of
  octets or characters, and a time of twelve or fourteen digits and a letter). The widths of octet,
  int and long, the limits, the values, what is received and the line lengths are free. The
  invariant (`IInv`, `History`) says where the octets and the value came from, which reduces each
  property to the operators: what a value is encoded as, decodes to this value (`Back`), and what
  is decoded from any octets is a value of the type.
  `ValuesAlwaysSurvive` is this for BOOLEAN, BIT STRING and the times, whose digits are read back
  two by two and whose pivot years agree. `TextsAlwaysSurvive` is an induction over the groups of
  three octets: a text `Carries` octets if decoding it gives them as a whole and line by line, and
  a group, a final group with its padding, and a line separator each extend what a text carries;
  the line is followed by the octets that were not decoded yet, which is where a decoder that
  works by the line could lose some. `HeadersAlwaysSurvive` is an induction over the digits of tag
  and length: the number made of them is the one they came from (`DigitsAreNumber`), their
  beginnings stay below the limit the parser looks at before each digit (`DigitsWithin`), and a
  number that passed that limit does not exceed that of its type (`WithinLimitBounds`).
  `SetsAreAlwaysCanonical`: `krypt_asn1_cmp_set_of` orders the elements totally
  (`ElementsAreOrdered`: by their tags, then octet by octet as `memcmp` does, then by length, with
  the end of contents behind everything), any finite array can be sorted by a total order
  (`CanBeSorted`), in one way only (`OneOrder`), and permuting the array first changes nothing
  (`PermutationsCompose`). `ObjectIdsAreExact`: octets cut behind every one that is not marked are
  the pieces they were joined from (`SubIdsOfPieces`), a number is written to octets whose lower
  bits are its digits (`LongIsWritten`), and neither the limit of `int_parse_sub_id`, looked at
  before the last two octets, nor that of `int_get_sub_id` refuses a number that fits a long
  (`ParsedSubIdIs`, `SubIdIsRead`). What octets mean and what is decoded are thus the same
  (`MeaningIsDecoded`), and what is written means what was given (`MeaningOfWritten`).
- **Integers_proofs**, from the assumptions and the invariant of `Codecs_proofs`.
  `IntegersAreExact`: what octets mean is characterised by the range their number is in
  (`MeaningByRange`), and that they are the shortest by that of the number (`NeedsAllOctets`), so
  that each of the ways to write one, `krypt_asn1_encode_integer` with its extra octet of sign
  (`LongIsExact`), the hexadecimal text (`HexIsExact`, `NegativeHex` for its complement) and the
  longs of `rb_big_pack` (`PackedIsExact`), has only to give octets of the right range. In the
  other direction the complement taken octet by octet is the power of two less the number
  (`ComplementIs`), which gives the Bignum (`BignumIsExact`); the long is shifted and or-ed
  together bit by bit, and the bits of a number are those of its octets (`BitsMakeNumber`,
  `ToLongIsExact`). What is decoded from octets of someone else can be encoded again
  (`DecodedIsEncodable`). The numbers that `EncodesRight` and `DecodesRight` leave out are those
  of the findings.

Only model-checked: liveness (`EveryReadReturns`, `DecodeTerminates`, `EveryGetReturns`), which is
out of the prover's reach, and of `ReadsDeliverTheValue` the jobs outside `ReadsFit` that the code
still serves: the values alone of an indefinite length (what they are is data of the run, not
derived from the octets in the model), and cut ones.

## 5. Not modelled

| Part | Why |
|---|---|
| seek of the value streams | its chunked form is a TODO in the code; that a definite stream forgets the offset is a hazard without a property |
| mark, free | memory of C |
| Template: CHOICE inside CHOICE, elements of a SEQUENCE OF templates | see the plan |
| to_der of a template beyond its stub | the encoder writes the cached octets or fails; the rest is not written yet |
| enumerables other than Array as value, deeper trees of ASN1Data | see `Asn1Object and Asn1Data` |
| to_s, inspection, `<=>` | wording, and no state |
| `krypt-core.c`, `extconf.rb` | registration, once |
| `lib/`, `mock/` | loader and mock classes |
| binyo | outside the repository; modelled from its uses; an error of `gets` or `read` itself (`BINYO_ERR`) does not occur, only the end of what there is |
| tag numbers above 30 in streams | the tag of a header is parsed octet by octet in `HeaderCodec`; streams and the pull parser have identifiers of one octet |

## 6. Plan

The parts were modelled in this order, by their importance: `Asn1Object` and `Asn1Data`,
`ValueStream` with `OrderedSource`, `PemDecode`, `PullParser`, `TemplateMatch` and `Template`, the
codecs, `Decode`, and BIT STRING with its unused bits. What is left, in the order of importance:

1. Proofs: `ReadsDeliverTheValue` for the values alone of an indefinite length.
2. `Template`: CHOICE inside CHOICE, and the elements of a SEQUENCE OF templates.
3. `HeaderOctets`: identifiers of several octets (`int_parse_complex_tag`), and with them
   end-of-contents other than 00 00 in the properties of `ValueStream` and `PullParser`.
4. `ValueStream`: seek of a definite stream.
