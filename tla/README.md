# A verification project for pyasn1

pyasn1 turns octets into ASN.1 values and back (BER, CER, DER, and plain Python
objects).  Apart from its debug switches it is a sequential library: nothing in it
blocks or waits.  What is hard about it is of four kinds:

* a recursive state machine over windows of one octet string,
  which guesses (explicit or implicit tag?) and goes back on its guesses;
* values and schemas that are the same mutable Python objects, placed into one
  another by position arithmetic;
* encoders and decoders of three rule sets that share no code and must agree
  at every width, fragment and tag;
* state that is shared although the library looks pure: a module global
  (`_DEBUG`), the loggers' levels, the legacy debug switches, and a trail of
  component names kept per thread and per asyncio task.

This directory holds TLA+ models of those parts, the TLC runs that check them,
and TLAPS proofs.  Paths below are relative to the repository.

## 1. Inventory

| Component | State | Operations | Correct when | Status |
|---|---|---|---|---|
| BER decoder state machine (`codec/ber/decoder.py`, `Decoder.__call__` and the constructed decoders) | the position, the window, the tags and length read so far, the concrete decoder, the components so far — one set per nested call | read identifier, read length, choose a decoder, decode contents, call itself per component, end-of-octets, give up an explicit-tag guess | it reads exactly the encodings of X.690 clause 8.1; every call stays in its window; nesting is bounded; it ends | modelled without a schema: `BerDecoder`; proved to agree with the grammar `BerGrammar` |
| CER and DER decoders (`codec/cer/decoder.py`, `codec/der/decoder.py`) | class attributes | the same machine with canonical length and form rules, and checks of its own on BOOLEAN, INTEGER and strings | a value has one accepted spelling | class attributes and the checks of BOOLEAN, INTEGER and OCTET STRING in `BerDecoder`, proved; the contents of all simple types in `ScalarContents`, `RealContents`, `TimeContents` |
| Schema-guided SEQUENCE and SET (`UniversalConstructedTypeDecoder`, `type/namedtype.py`, `type/tagmap.py`) | index of the next field, positions seen, components placed | choose the candidate schemas, decode, place, check the required fields | each component lands in the field the schema gives it, no message of the schema is refused, failures are PyAsn1Errors | modelled and proved: `ComponentPlacement` |
| Encoders (`codec/*/encoder.py`) | none between calls | tags, lengths, explicit tags, chunks, DEFAULT elision, ordering | what is written is read back; CER and DER write one encoding per value | value objects modelled: `BerEncoder`, composed with the decoder in `RoundTrip` |
| Scalar contents (INTEGER, BOOLEAN, NULL, OBJECT IDENTIFIER, RELATIVE-OID, BIT STRING, OCTET STRING, REAL, times) | none | pure conversions in both directions | inverse of one another at the boundaries; canonical forms are | modelled: `Relay` and the modules it uses; all but REAL proved |
| Types and their derivation (`type/base.py`, `type/tag.py`, `type/constraint.py`) | none (objects are immutable; what matters is the chain of derivations) | declare, `clone()`, `subtype()`, comparison | subtypes narrow, values satisfy what they were derived from, comparisons tell the truth, tags stay readable | modelled and proved: `Subtypes` |
| Constructed values (`type/univ.py`, `type/base.py`) | component list or dictionary, schema or value, the chosen alternative; references between objects | get (which instantiates), set, append, sort, clear, reset, clone | a schema stays a schema, a clone is independent and means the same, reading changes no value | modelled and proved: `ConstructedValue` |
| Debug scope (`debug.py`, `codec/ber/decoder.py`, `codec/native/*.py`) | trail per context, `_DEBUG`, logger levels | push, pop, refresh, snapshot, level changes, task creation, exceptions | push and pop balance | modelled and proved: `ScopeTrail` |
| Legacy debug switches (`debug.py`: `Debug`, `setLogger`, `registerLoggee`) | `_LOG`, saved levels, bridge handler, registered modules, two locks, the default printer | set, restore, register, build the printer | the application's levels are given back; everything agrees with `_LOG`; one handler; no lock is kept | modelled and proved: `LegacySwitches` |
| Named values, open types | none (read-mostly dictionaries) | look-ups | — | not modelled |
| Native codecs (`codec/native/*.py`) | none | map to built-ins | — | only their use of the scope |
| Rendering (`debug.Printer`, `ContextFormatter`, exceptions), examples, benchmarks | — | formatting | — | not modelled: no state, no control |

How they meet: a codec calls itself for every component through `decodeFun` /
`encodeFun`; a concrete decoder calls back into user code through
`substrateFun`; schema objects answer `tagMap` questions and are cloned into
values; assigning a component compares types with `isSuperTypeOf`; all codecs
write to loggers whose handlers are application code that may decode something
else in the same thread, and whose levels `setLogger` moves.

The list of what is hard to test, each item at its line, is `hazards` in
`PROJECT.json`; the properties below are aimed at it.

## 2. Modules

| Module | Models | Refers to |
|---|---|---|
| `BerDecoder` | `Decoder.__call__`, explicit tags, containers, OCTET STRING fragments, BER/CER/DER flags, the canonical checks of contents | `codec/ber/decoder.py`, `codec/cer/decoder.py` |
| `BerGrammar` | the reference grammar, as a chart over the spans of an input | X.690 8.1, 8.7, 9.1, 9.2, 10.1, 11.1 |
| `BerCanonical` | the canonical encoding of a value, in DER and in CER | X.690 10.1, 9.1 |
| `BerNesting` | how deep what is read inside a value lies | `codec/ber/decoder.py` |
| `MCBerDecoder` | input families | |
| `BerGrammarProofs` | inductive invariant and theorems for `BerDecoder`; lemmas about the chart and about the canonical encodings of what is in it | |
| `BerConformanceProofs` | `BerDecoder` decodes the language of `BerGrammar`, in DER and CER one spelling of it, and as deep as the nesting limit says | |
| `BerEncoder` | `Encoder.__call__` and the concrete encoders on value objects, with the overrides of CER and DER | `codec/*/encoder.py` |
| `RoundTrip` | an encoder and a decoder of one rule set: `BerDecoder` runs on what `BerEncoder` wrote | both |
| `MCRoundTrip` | values of every kind | |
| `ComponentPlacement` | the component loops under a SEQUENCE or SET schema; `NamedTypes` | `codec/ber/decoder.py:974-1453`, `type/namedtype.py` |
| `MCComponentPlacement` | all small schemas and wires | |
| `ComponentPlacementProofs` | inductive invariant and theorems for `ComponentPlacement` | |
| `Octets`, `ScalarContents`, `RealContents`, `TimeContents` | contents octets, both directions, three rule sets | `codec/*/encoder.py`, `codec/*/decoder.py`, `type/useful.py` |
| `Channel` | what a codec promises, abstractly | |
| `Relay` | a value on its way through encoders, decoders and datetime conversions; implements `Channel` | the maps of the codecs |
| `MCRelay` | boundary values, octets of a peer | |
| `RelayProofs` | what the contents modules compute; invariants and theorems for `Relay` | |
| `TagSets`, `Constraints` | tags and tagging; constraint objects | `type/tag.py`, `type/constraint.py` |
| `Subtypes` | classes, `clone()`, `subtype()`, comparison of types | `type/base.py` |
| `MCSubtypes` | four kinds with small values | |
| `SubtypesProofs` | inductive invariant and theorems for `Subtypes` | |
| `ConstructedValue` | SEQUENCE OF, SEQUENCE and CHOICE objects on a heap | `type/univ.py`, `type/base.py` |
| `MCConstructedValue` | four types that contain one another | |
| `ConstructedValueProofs` | inductive invariant and theorems for `ConstructedValue` | |
| `ScopeTrail` | scope trail, `_DEBUG`, levels, contexts | `debug.py`, the three codecs that push |
| `MCScopeTrail` | symmetry | |
| `ScopeTrailProofs` | inductive invariant and theorems for `ScopeTrail` | |
| `LegacySwitches` | `setLogger`, `registerLoggee`, `Debug` in threads | `debug.py` |
| `MCLegacySwitches` | two threads, two modules | |
| `LegacySwitchesProofs` | inductive invariant and theorems for `LegacySwitches` | |

### BerDecoder

Python's recursion is an explicit stack: `frames[1..depth]` are the calls in
progress and `_nestingLevel` is `depth - 1`.  Substrates are never copied: the
slices `substrate`, `head` and `tail` are windows `pos .. end - 1` of the one
octet string `input.octets`, so a slice the code hands on becomes the window of
the next frame, and a returned remainder becomes `result.pos`.  One action is one
state of the code's machine (`stDecodeTag` is `DecodeTag`, `stDecodeLength` is
`DecodeLength`, the choice of a concrete decoder is `Codec`) or one call or return
of a concrete decoder.  `parts[i]` is the `components` list of frame `i`.
Octets are numbers and all three uses of an octet (identifier, length, contents)
apply, so every octet string over the alphabet is an input, valid or not.

The rules of an input (`BER`, `CER`, `DER`) are the class attributes of the decoder, and
`canonicalContents`, which says that it has CER's classes for BOOLEAN, INTEGER and
OCTET STRING.  With these an INTEGER is minimal (`MinimalInteger`), a BOOLEAN is 00 or FF,
whatever the format of its tag (`FormatFits`), and a string in fragments is
measured: `SpecOfFragments` tells the calls that go through `recordingDecodeFun` from
the others, `NextFragment` has its refusal of constructed fragments, and
`SizesRefused` is `_verifySizes`, with the constant `FragmentSize` for 1000 octets.
CER's refusal of a constructed string of definite length is already
`requireIndefLengthForConstructed`'s.  Where the decoder meets a universal type whose codec is not in
`TagMap`, or a tag number above 30, the model stops with the status
`unmodelled`, and no property says anything of the rest.

A decoded value is its type, its tags (innermost first, without the format
bit), and its contents octets or components.  What a scalar decoder makes of
its contents is `Relay`'s business.

### BerEncoder and RoundTrip

`Encode(o, v)` is `Encoder.__encode`: it picks the concrete encoder by the type of
`v`, which encodes the contents (`EncodeValue`), and wraps them in one header for
each tag (`WithHeaders`, the loop of `AbstractItemEncoder.encode`, with what it
does and does not reset between tags).  A value object is a record; its slots are
the fields of a SEQUENCE or SET, present or not, or the elements of a list.  What
rules fix (`fixedDefLengthMode`, `fixedChunkSize`) is applied by `Options`.
The real chunk size of CER is the constant `CerChunk`.

`RoundTrip` begins with a message `sent`, whose encoding, followed by a NULL that
belongs to someone else, is the input of `BerDecoder`.  `IsReadAs` compares what
was sent with what came back, forgetting what an encoding cannot say: which field
a component was, and the order of a SET.

### Relay and the contents modules

`ScalarContents`, `RealContents` and `TimeContents` are pure: an encoder maps a
value to contents octets (in fragments, when it cuts), a decoder maps them to the
set of the one value it reads, or the empty set when the code raises.  `Relay`
lets a value go through any number of `Write` (encode), `Read` (decode) and
`Convert` (`fromDateTime(asDateTime)`) steps of one rule set, starting from an
application's value or a peer's octets.  A REAL is kept as mantissa, base and
exponent, a time as the number of its digits, its fraction, mark and zone (the
calendar is carried along unread).

Shifts, `bit_length`, `to_bytes` and `from_bytes` are all one thing in `Octets`: an
integer is taken apart by a base from its last digit on (`Quotients`, `Digits`,
`Width`) and put together from its first (`Positional`).  These are recursive functions on
naturals, so that they can be proved about.  `Objects` and `Substrates` say what the values and
the octets of a type are; the constants `Values` and `Wires` are any sets of them.

`Channel` is the abstract specification: a content is put on the wire and taken
off, and whatever it promises to carry stays what it is.  `Relay` instantiates it
with the meaning of its values (`Reduced` numbers, instants for times) as the
content, and `ContentsAreCarried` is `Channel`'s specification under that mapping.
What it promises is `Fits`.

### Subtypes

`types` lists the objects made so far, each with the object it was derived from and
how.  `Declare` is a class.  `Subtype` takes every combination of value, constraint,
implicit and explicit tag.  `Clone` takes a value, a constraint and a tag set, each of
which replaces what the object had: the tag sets are those the codecs pass
(`Retags`), which are the tags a decoder has read, without a base
(`codec/ber/decoder.py:103`) or with that of the prototype (`:954`), and the base alone,
with which the encoder writes fragments (`codec/ber/encoder.py:273`).  A derivation that
raises is no step.  `Constraints!Admits` is `_testValue` of each class, `Add` the
`+` that `subtype()` uses, `ValueMap` and `IsSuperConstraintOf` what `isSuperTypeOf`
looks in.  Operators on constraints are unfolded by nesting depth instead of being
recursive, so that they can be proved about; `IsArgument` keeps the constraints
that are given within that depth.

### ComponentPlacement

A component on the wire is its tag set, a field is the set of tag sets it
accepts and whether it may be left out; `placed[i]` is the component that field
`i` holds.  One action decodes and places one component, whole: choosing the
candidates (`namedTypes[idx]`, `getTagMapNearPosition`, `tagMapUnique`),
decoding under them, finding the position (`getPositionNearType`,
`getPositionByType`) and `setComponentByPosition`.  The definite and indefinite
loops differ in what they do when the fields have run out, and `UnguidedComponent`
is what the indefinite one does then.  `Fail(...)` names the exception's class.

### ConstructedValue

`heap[o]` is a Python object: its class, whether `_componentValues` is
`noValue` (`isSchema`), the components, and a choice's `_currentIdx` plus one
(`chosen`).  A component that is itself constructed is a reference to another
object, so what is shared and what is copied can be told apart; the first
objects are the schemas that classes hold as `componentType`.  `Get`, `Set`,
`Instantiate`, `Add`, `SortUp`, `Clear`, `Reset` and `CloneValue` are the
methods; `Put` is the setter that the first four end in.  `clone()` is a recursion and
takes a step for every component: `copying` is the stack of its calls, each with the
original, the clone, the last position taken over and the place the clone is for.
`TakeScalar` and `CloneComponent` take a component over, `CloneReturns` puts a
finished clone into its place, `CloneRaises` drops what all calls have made.  Any
other call that raises changes nothing here and is no step.  `given` remembers which objects the application has put
into others.  `Values` says of which objects
`isValue` is True, and `Meanings` is what an encoder makes of them, which is how two states
of a mutable value are compared; `IsValue` and `Meaning` are one object's, given those
of what it holds.  Three answers of an encoder are told apart: an encoding, nothing
(`NoMeaning`, for what is no value), and an exception (`Broken`), be it raised by `isValue`
(`Raises`: of a CHOICE that was reset with an alternative chosen, and of what asks one) or
further down in the encode (`Breaks`).  A DEFAULT is a number or a list of numbers
(`DefaultsAssumption`), of which the encoder's `==` says what equality of meanings does.  No type may
have itself as a component (`TypesAssumption`; the code permits it), and OPTIONAL and
DEFAULT are for fields of a SEQUENCE only, as in X.680 (`SchemasAssumption`).

### ScopeTrail

A context is a thread or a task with its own trail; `calls[c]` is its stack of
codec activations.  The reads the code makes of shared state are separate steps:
`RefreshDebug` is `_DEBUG = LOG.isEnabledFor(DEBUG)` in a top-level call,
`SnapshotDebug` is `debugging = _DEBUG`, and between any two steps another
context may run, a level may move, or a callback may start a new top-level
call.  `Raise` unwinds to the application code that made the innermost
top-level call, and pops nothing, as in the code.  Ghost fields of a call (`at`,
`pushed`, `token`, `clean`) record what the properties talk about.

### LegacySwitches

Each thread has a program counter over the steps of `setLogger`: acquire the lock,
take the bridge down, restore one logger after another, rebind `_LOG`, override one
level after another, put a bridge up, visit the registered modules, release.  Neither
the application nor a default printer asks for the lock before it sets a level, so
every `setLevel()` is a step of its own: `Restore` is `popitem()` and `RaiseLevel` and
`Bridge` save what a logger has; each leaves what has to be set in `due`, and
`ChangeLevel` sets it, perhaps after somebody else has set another level.
`registerLoggee` first writes `LOGGEE_MAP` and reads `_LOG`, each in a step, without
the lock, and then calls `setLogger`; a loop over a map that has grown raises
`RuntimeError` and releases the lock.  `NewDebug` is `Debug()` with the default
printer, under its own lock.  `SetLevel` is the application.  `wanted` is the
one history variable: the level the application chose last.  `setLogger`'s
docstring says that it overrides the application's levels for as long as it is in
effect, and a `setLevel` in that time is lost, so it does not count as a choice.  It is
in effect (`InEffect`) from the moment when a level is saved, though not yet replaced,
to the moment when it is set again, and no longer only popped.

## 3. Runs

| Run | Question | Bounds | Result |
|---|---|---|---|
| `BerGrammar` | does decoding agree with the grammar? | BER: all octet strings, 6 over {0,1,2,4,48,128,160}, 7 over {0,4,36,128,160}, 8 over {0,4,128,160}; CER and DER: 5 over {0,1,2,33,48,128,255}, in DER with 3, an identifier that is not modelled; strings of up to 3 fragments of 6 sorts, in BER and CER, `FragmentSize` 1 | holds, 1.57 M states |
| `BerDepth` | nesting limit, termination | limit 1; 6 octets over {0,5,48,128,160}, 5 over {0,4,48,128,137,160}, 8 over {0,36,128} | holds, 146 k states |
| `Canonical` | one accepted spelling in DER and CER? | 6 octets (DER) and 7 (CER) over 8 resp. 6 octet values, 5 octets with INTEGER and BOOLEAN at the sign boundaries, long strings at 126–130 octets | holds, 2.48 M states |
| `RoundTrip` | is what is written read back, and are equal values written alike? | leaves, tags on tags, all SEQUENCEs of 2 fields of 9 component types, SETs of 3, SET OFs of 3, nests of two levels, contents of 125–130 and 253–258 octets; three rule sets, both length forms, chunks of 0 to 2 | holds, 383 k states |
| `Contents` | do contents octets carry values, and in one spelling? | integers around the 8-, 16- and 24-bit widths, arcs around 7, 14 and 21 bits, bit strings to 50 bits, REALs of 2 bases with exponents to 2^15, times with fractions to 4 digits, marks without digits and offsets of a day; octets of a peer to 4, BIT STRINGs of a peer to 4 over 6 octets; `CerSize` 3, `MaxArcOctets` 2 | holds, 212 k states |
| `Placement` | components land where the schema says; no message of the schema is refused; what raises something else than PyAsn1Error? | schemas of at most 3 fields over 3 tags and a CHOICE, wires of at most 4 components, 3 length forms | holds, 1.03 M states |
| `Lineage` | do derived types narrow, compare and stay tagged? | 3 objects, 4 kinds, up to 6 constraints per kind, 2 tags | holds |
| `Values` | are schemas, clones and values independent, and is reading harmless? | INTEGER 1, lists of 2; an object of any of 4 classes, what reading makes in it and clones of both, 4 objects in all | holds, 21 k states |
| `ScopeBalance` | pushes and pops balance | 2 contexts, 2 tokens, 2 calls in progress per context, trails of 2 | holds |
| `Switches` | are levels, switches, bridge and locks in order under threads? | 2 threads, 3 calls, 1 `setLevel`, 2 modules, 3 loggers, 2 Debug objects | holds |
| `EveryCodecAgrees` | is every value read back, without exception? | as `RoundTrip` | violated: finding |
| `ScopeNative` | native codecs under a moving level | as `ScopeBalance` | violated: finding |

Why the bounds are enough.  Eight octets hold three nested indefinite headers
with both their end-of-octets, or a guess inside a guess and its refutation; the
alphabets hold one octet of each class the decoder tells apart (a primitive
with and without contents, a container, a string fragment, an unknown
constructed tag, zero, and the length forms; for the canonical checks also 127, 128 and
255, where the sign of an octet changes).  The octets' other values only
change the contents.  Three fields are the smallest schema with a run of omissible
fields that does not start at the first and is closed by a required one; four
components are one too many for it.  Two contexts and two nested calls are the
smallest configuration in which one call's level change falls between another's
push and pop and an exception passes a caller that goes on.

Four objects besides the three schemas are the smallest heap that holds a CHOICE with
a SEQUENCE in it and a deep clone of both, or a SEQUENCE whose two fields have been
read; two positions make a list with a gap.  With more than two objects (`MaxWide`)
components are still read, but none is put in, a list grows at its start only and
nothing is cleared: all of that was possible before, clones keep the gaps, and what
a write to one of three could disturb is what is shared, of which `NoHiddenSharing`
says there is none.

Constants stand for limits whose size does not matter: `CerChunk` 2, `FragmentSize` 1 or 2
and `CerSize` 3 for the 1000 octets of a CER fragment (the values are up to three fragments long and
exact multiples of it), `MaxArcOctets` 2 for `MAX_OID_ARC_CONTINUATION_OCTETS`, 20
(arcs on both sides are tried).  Three types are a class and two derivations, or a
derivation of each of two classes, which is where comparisons begin to differ.  Three
calls are one logger replaced by another while a module registers itself.

`DecodesTheGrammar` is stated against a grammar that grants five named liberties, each
at the production that has it, because the decoder accepts more than clause 8.1:
`unclosed`, a container of indefinite length that the substrate ends instead of an
end-of-octets (`decoder.py:933`); `primitive`, the indefinite form under a primitive
string identifier (`decoder.py:518`); `raw`, fragments captured with their headers
(`decoder.py:484`); `foreign`, fragments with a foreign constructed tag
(`decoder.py:150`); and `format`, a BOOLEAN of constructed format in DER
(`codec/cer/decoder.py:193`).  The property says there is nothing else.

### Findings

* `EveryCodecAgrees`: explicitly tagged INTEGER, BOOLEAN and NULL are written with a
  definite length and end-of-octets in CER and with `defMode=False`
  (`encoder.py:193`).  `WrittenIsRead` leaves them out (`Miswritten`).
* `ScopeNative`: the native codecs ask for the level twice.

### Divergences that properties leave out by name

Each was met while modelling, is in the model as the code has it, and is excluded
from a property by a definition of its own, so that nothing else hides behind it.

| Code | What it does | Left out in |
|---|---|---|
| `codec/ber/decoder.py:484` | a constructed fragment of definite length inside a constructed OCTET STRING is taken with its headers | `DecodesTheGrammar`: liberty `raw` |
| `codec/ber/decoder.py:1267` | a SET of indefinite length loses its schema once the last-declared component has come | `AcceptsTheSchema` |
| `codec/ber/decoder.py:1298` | one component too many in the indefinite form raises IndexError | `OnlyExcessEscapes` says that this is all |
| `codec/ber/encoder.py:699` | `omitEmptyOptionals` drops empty elements below an OPTIONAL component, optional or not | `WrittenIsRead`: `HoldsEmptyElement` |
| `type/tag.py:259` | SET components are ordered by their innermost tags first: an explicitly tagged one is out of the order of X.690 10.3, though always in the same place | `OneEncodingPerValue` compares encodings, not with 10.3 |
| `codec/cer/encoder.py:102` | a zero is cut out of a fraction (`.03` becomes `.3`); more than three digits are refused, although the decoder takes them | `ContentsAreCarried`, `OneSpelling`: `TimeFits`, `InnerZero` |
| `codec/cer/decoder.py` | primitive octet and BIT STRINGs of more than 1000 octets, fragments of a BIT STRING of any size, and some REALs that are not canonical are accepted | `OneSpelling`: `Liberties` |
| `type/useful.py:142` | `asDateTime` reads the fraction of a UTCTime, which the type does not have and `fromDateTime` does not write | `MomentsAreKept`: `SubsecondFits` |
| `type/useful.py:178` | an offset of 24 hours or more is refused, but with the ValueError of `datetime.timezone`, which is called outside the `try` | in the model it is refused (`OffsetRefused`), the class of the exception is not told |
| `codec/cer/encoder.py:119` | a mark without digits is dropped and the time written, although `asDateTime` refuses it | `ContentsAreCarried`: `TimeFits` |
| `codec/cer/decoder.py:179` | `BooleanDecoder` does not look at the format, so that DER accepts `21 01 FF` as a second spelling of TRUE; CER refuses it, because a constructed encoding must be of indefinite length (`codec/ber/decoder.py:2134`) | `DecodesTheGrammar`: liberty `format`; `DerIsCanonical`: `HasNoConstructedBoolean` |
| `codec/ber/encoder.py` OBJECT IDENTIFIER | the encoder writes arcs that exceed the decoder's limit | `ContentsAreCarried`: `SubIdsFit` |
| `codec/ber/decoder.py:2053` | a schemaless value has the tags that were read and no base; when the CER encoder then goes back to the base to write a long BIT STRING in fragments (`codec/ber/encoder.py:273`) they have no tag, and the encoding cannot be read | in the model the clone has an empty tag set (`Retags`); `RoundTrip` encodes values that have a schema |
| `type/base.py:587` | `subtype()` unites a single-value or union constraint with the parent's instead of narrowing it | `SubtypesNarrow`: `Widened` |
| `type/constraint.py:94` | `isSuperTypeOf` answers yes where one union shares an operand with another, and for constraints of different classes with equal arguments | `SupertypesAreSound` |
| `type/univ.py:2261` | the clone of an empty SEQUENCE OF, made with its value, is a schema | `ClonesMeanTheSame`: `Clonable` |
| `type/univ.py:2937` | the clone of a SEQUENCE that was reset has an empty list of components, and is a value if no field is required; the clone of a CHOICE that was reset has none chosen, where `isValue` of the original raises | `ClonesMeanTheSame`: `Clonable` |
| `type/univ.py:3131` | reading an absent OPTIONAL SEQUENCE that requires no component puts an empty value there, which is encoded from then on; so does reading a field of a SEQUENCE that was reset, or a field whose schema object is itself a value; reading another alternative of a CHOICE that was reset, or filling the gap of a list in which `isValue` of a component raises, makes the encode around it succeed that raised before | `ReadingMeansNothing`: `ReadsNothing` |
| `type/univ.py:2922` | a CHOICE that is reset keeps the chosen alternative, and then its `isValue` (`:3950`) raises instead of saying no, as does the encode of whatever asks it (`codec/ber/encoder.py:674`) | in the model (`Raises`, `Broken`); `Clonable` leaves out clones of it and of what holds it, `ReadsNothing` reads of it; what reading another object, or cloning, does to what holds it is not left out |
| `debug.py:414` | a module that registers itself reads `_LOG` before it waits for the lock, and may undo a `setLogger` that came in between | `SwitchesAgree` speaks of agreement with the logger installed, whoever did it |

`CerIsCanonical` grants the first liberty of the grammar too, and leaves out inputs with
what reads as a string in fragments.  What CER demands of those (`codec/cer/decoder.py:209`) is
part of `DecodesTheGrammar`; but the decoded value does not say whether it came in
one piece, which CER accepts of any length, or in fragments, nor where the fragments of
a fragment were cut.  `NestingIsBounded` counts the calls that a value takes by what is in
the value; the fragments of a string may nest as deep as they like and leave no
trace in it, so that what is refused may be such a string and take more calls than can be
counted.  Only that half of the property leaves them out: what is accepted never
needs more calls than there may be.  `ReadsNothing`, which says what `ReadingMeansNothing` is about,
also leaves out a SEQUENCE OF that is read past its end, which the code documents as
growing it.

### Fairness

`BerDepth` and `Switches` have liveness properties.  A single thread runs the
decoder, and nothing in it waits, so weak fairness of its next step is what Python
gives; `Terminates` then says that no octet string makes it loop.  In
`LegacySwitches` every thread's next step is weakly fair, because the interpreter
schedules all runnable threads; a thread that waits for a lock is not runnable, and
`CallsReturn` says that it becomes so.  Weak fairness of the acquisition is enough
there because the number of calls is bounded.  Starting calls and setting levels
is not fair: nobody has to.  The other specifications are safety only: nothing makes
an application finish what it began.

## 4. Proofs

`ScopeTrailProofs` proves, for any sets of contexts and tokens and any bounds:

* `Typed`: `SettledSpec => []TypeOK`;
* `CallsKeepTheirTokens`: `SettledSpec => []TokensKept`;
* `ReturnsLeaveNoResidue`: `SettledSpec => []NoResidue`.

`SettledSpec` lets the BER decoder's level move at any time and the native codecs'
levels only while no native codec runs; without that restriction `TokensKept`
fails (`ScopeNative`).  The properties are not inductive: they do not say that a
call pops exactly if it pushed, nor that the pieces of the trail belonging to
the calls of a context follow one another.  `IInv` adds both, as
`Disciplined` (per call: before it has chosen a codec it has not pushed; after,
`pushed` is the snapshot, or for a native codec the level) and `Fits` (per
context: `Stacked`, the extents of the calls are ordered and inside the trail,
above what the task inherited; `Clean`, extents without residue touch).  The
lemmas `Fits...` are facts about sequences, one per kind of step; each
`...Step` lemma maps actions to them; `OneContext` says that a step of one
context leaves the others' part of the invariant alone.

`LegacySwitchesProofs` proves, for any threads, loggers, flags, modules, Debug
objects and number of calls:

* `ApplicationsLevels`: `Spec => []LevelsAreKept`;
* `QuietMeansAgreed`: `Spec => []SwitchesAgree`;
* `OnePrinter`: `Spec => []OneDefaultHandler`.

`SwitchesAgree` says nothing about the middle of a call.  `IInv` adds who holds which
lock where (`Locked`), that a level is about to be changed only under the lock and one
at a time (`Changes`), what holds at each step of the thread with the lock
(`Stages`: the bridge and the overridden loggers are those of `_LOG`, or are just
being taken down or put up), and who will repair what is not yet right (`Agreed`:
a switch that differs from `_LOG` is still to be visited by the loop in progress or
by a call that is on its way; a loop that is going to raise has a `registerLoggee`
behind it).  The last part is what makes the unlocked write harmless.

`SubtypesProofs` proves, for any classes, values, tags and number of derivations, and
for constraints within the nesting bound:

* `TagForms`: `Spec => []TagsKeepTheirForm`;
* `Differences`: `Spec => []DifferenceIsStored`;
* `Narrowing`: `Spec => []SubtypesNarrow`;
* `Fitting`: `Spec => []ValuesFitTheirLineage`;
* `Accepting`: `Spec => []SupertypesAreSound`.

The invariant says that `types` is a list whose parents come before their children
(`IsList`), that every object is well formed (`Proper`, `IsFormed`), and that
each subtype's constraint is what `subtype()` makes of its parent's; a lemma for `Add` shows that what the sum admits both summands admit.
`ValuesFitTheirLineage` follows by taking, among the ancestors, those whose values
include the object's: that set is closed under parents, hence all of the lineage.

`BerGrammarProofs` proves of `BerDecoder`, for any substrate, any rule
set and any nesting limit:

* `Typed`: `Spec => []TypeOK`, and with it that at most `MAX_NESTING_DEPTH + 2` calls
  are in progress;
* `CallsKeepToTheirWindows`: `Spec => []WindowsNested`;
* `SentinelStaysInside`: `Spec => []EooOnlyWhenAsked`.

What the three lack to be inductive is what a call's stage says (`StagesOK`: who
has read an identifier is not too deep, a window is not shortened before its length is
known, who looks for the end of an explicit tag has the value under it), that
all windows lie in the substrate, and that `parts` are sequences without the
sentinel.  A step ends in one of four ways, and the lemmas `RaiseKeeps`, `ReturnKeeps`,
`CallKeeps` and `ContinueKeeps` say what each needs; an action's lemma only checks that.

`BerConformanceProofs` proves, for the same substrates:

* `CallsKnowTheGrammar`: `Spec => []GInv`;
* `DecoderIsTheGrammar`: `Spec => []DecodesTheGrammar`, that is, `decode()` consumes the one
  prefix that encodes a value, returns the one value it encodes, and refuses only
  what no prefix of encodes one.

The grammar is a chart: what a span of the substrate means is computed from shorter
spans.  `BerGrammarProofs` also proves that there is such a function (`ChartUnfolds`, by
induction over the size of spans, as the least counterexample in a set of
naturals; that is also how other inductions over data are done here).  `GInv`
reads the stack as claims about the grammar, one for each call (`Knows`): a call that
is reading its contents knows that the components it has begin every way to read
them (`Progress`), hence, at their end, that there is no other (`Complete`); one that has
given up the guess of an explicit tag knows why no single value is there (`Refuted`).
What a call returns is the only item that starts where the call did, and
`CallsAreAnswered` says that this is still known when the caller takes it.  An error
speaks about all calls at once: that the innermost one finds nothing means that none
of its callers can (`FailureSpreads`, which takes the last call that does not fail).
Each production has a lemma for both answers (`Complete...`, `Hopeless...`), and the
liberties appear in them as cases.

Three more theorems rest on that agreement:

* `DerIsOneSpelling`: `Spec => []DerIsCanonical`;
* `CerIsOneSpelling`: `Spec => []CerIsCanonical`;
* `NestingIsRight`: `Spec => []NestingIsBounded`.

For the first two, the canonical encoding of a value is defined through the generations of the
values inside it (a function on naturals, not a RECURSIVE operator), and `Spelled`
says of a span that it is this encoding.  Every item of the grammar is
spelled so, by induction over the size of spans: `BigEndianUnfolds` and
`LongLengths` give back the length octets, and the runs of components are put
together one by one.  `Iteration` and `Coincidence` say once what these proofs need of functions
defined by recursion: that they exist, and that two that start alike and go on alike are
equal.  The end-of-octets of an indefinite length belong to the
encoding although the window of the call may end with them; `Spelled` settles which.

For the third, `NInv` says that what a frame keeps, and what it was told, still fits
into the calls that are left to it, under the tags it has read (`Fits`, `Left`):
what a call returns to its caller is one call smaller than what the caller had.
That is the bound on accepted values.  On the refusing side, `CallsReachInside` takes
any value that the grammar reads from the start of the substrate and follows it
down the stack: without constructed strings each waiting call is one item further
inside.  When a call is too deep, `MaxNesting + 1` wait for it, the first of them for the
value itself; so every such value has something `MaxNesting` calls inside of it.

`ComponentPlacementProofs` proves, for schemas of any number of fields and any wire:

* `Typed`: `Spec => []TypeOK`;
* `ComponentsArePlaced`: `Spec => []PlacedAsTheSchemaSays`;
* `MessagesAreAccepted`: `Spec => []AcceptsTheSchema`;
* `ErrorsAreKept`: `Spec => []OnlyExcessEscapes`.

The invariant keeps a witness, the assignment of the components read so far to fields
(`Follows`: in a SEQUENCE it is increasing and `idx` is behind its last field; what
`placed` holds is its trace).  For acceptance it adds that no complete assignment
that suits the schema differs from the witness (`Forced`).  The step is
`NextIsCandidate`: where such an assignment wants the next component is among the
fields the decoder tries, since between `idx` and it no field is required; and as the
candidates of a legal schema differ in their tags, it is where the decoder puts it.
`Legal` is exactly what this needs: distinct tags in every run of omissible fields
and the field that ends it.

`ConstructedValueProofs` proves, for any schemas, prototypes and numbers, and all bounds:

* `Typed`: `Spec => []TypeOK`;
* `PrototypesAreUntouched`: `Spec => []PrototypesUntouched`;
* `SharingIsGiven`: `Spec => []NoHiddenSharing`;
* `ClonesAreFaithful`: `Spec => []ClonesMeanTheSame`;
* `ReadingIsHarmless`: `Spec => ReadingMeansNothing`.

The first three are proved together (`IInv`), since each needs the others.  `Safe` says of the heap
that the prototypes are unchanged, that made objects refer to made ones, and that two
places share only what was given.  `CallsOK` says what the calls of `clone()` in
progress rely on: each clone is of its original's type and fits the place it is for, and
each is for the clone of the call below; nobody refers to an unfinished clone; and
nothing made before the first refers to anything made after it, so that
`CloneRaises` may drop all of them and a heap is left.  A step of a clone, of the
application, and the failure of a clone each have a lemma for what they do to
these.

The other two are about `Values`, `Clonables` and `Meanings`, functions on the heap
that are recursive through its references.  They are well-defined because types have
ranks (`TypesAssumption`): `Level` is the rank of an object's type, whatever it needs
is of a lower one (`NeedsLess`), and so a function that satisfies the three
definitions exists (`Unfolded`, by taking the lowest level that has none).  Two lemmas
carry all that follows.  `Matches` says when two objects are alike, and
`ValuesAlike` and `MeaningsAlike` that they then are values, and mean, the same.
`Locality` says that a set of objects that two heaps have in common, with everything these
need, means the same in both.

For clones, `Tracked` says of every call of `clone()` in progress that the clone is what its
original is as far as components have been taken over (`Copies`), the one that is
being cloned above excepted (`Awaits`), and that originals are older than all clones.  A step
works on an unfinished clone, which nobody needs (`Elsewhere`), so by `Locality` it
disturbs nothing else that is tracked.  When nothing is left the copy is complete, and
`CopyIsAlike` gives the theorem (`FaithfulBy`), which is needed one call further down as
well, where the clone is put in.

For reading, `ReadKeeps` says that an object in which something void is put means what
it did (`ReadRecord`, `ReadList`, `ReadChoice`; `Void` is a component that is no
value, or has the DEFAULT's), and so does every object above it
(`ChangeOfNoMeaning`).  That a DEFAULT's clone means what the DEFAULT does is
`FaithfulBy` again; `ForDefault` is what the invariant needs for it: the object that a clone
is for waits for the DEFAULT of the field that was read.  A clone that raises
leaves the objects older than it, and `Locality` applies.

`RelayProofs` proves, for any values and octets of the types, of any size, any
`maxChunkSize`, and any `CerSize` and `MaxArcOctets`:

* `AllButRealAreCarried`: `Spec /\ ~ (job.type = "REAL") => ContentsAreCarried`, the
  refinement of `Channel`;
* `AllButRealOneSpelling`: `Spec /\ ~ (job.type = "REAL") => OneSpelling`;
* `StringsFillTheirFragments`: `Spec => []FragmentsFill`;
* `ReadArcsFit`: `Spec => []ArcLimitHolds`;
* `MomentsStay`: `Spec => MomentsAreKept`.

The properties say what a value was, or a wire, one or two steps ago; the invariant
remembers it.  `Followed` (`RelayIsFollowed`) says that while octets are on the wire they are
what the encoder makes of the value that is held, and while a value is held it is what
the decoder makes of the octets it came from, if it came from any.  `FollowedTime`
(`TimesAreFollowed`) is the same for the times; `Convert` leaves no octets, so it has
nothing to agree with.  Each step of `Relay` then is a step of `Channel`
(`ContentsNext`, `TimeContentsNext`): where the content is promised, the encoder does not
refuse and the decoder returns what was written.

That rests, type by type, on two lemmas: what is written is read (`IntegerIsRead`,
`ArcsAreRead`, `OidIsRead`, `OctetStringIsRead`, `BitStringIsRead`, `FittingIsWritten`), and what is
read under strict rules is written back octet for octet (`...IsWrittenBack`,
`CanonicalIsWritten`).  Below them is a small theory of positional notation: `Reassembled` and
`TakenApart` (digits and number determine each other), `BitLengthIsShortest` (the octets
`bit_length` asks for are the fewest that hold a signed number, in which
`Redundant` is exactly what is not the fewest), `CutJoins` and `PiecesComeApart` (cutting
a string and joining the pieces undo each other if the pieces are full), the decoder's loop over
sub-identifiers as a function of the octets read so far (`AfterOneMore`, `Pending`), and for
times that microseconds are the fraction without the zeros at its end
(`MicrosecondsAreKept`, `ZerosAreDropped`).  The functions of `Octets` are defined by
recursion; that there are such functions (`Recursion`) and induction over them
(`Induction`) are derived here from the well-foundedness of the naturals, for
sets instead of operators.

Model-checked only:

* `Terminates` and `CallsReturn`, which are about fairness;
* the properties of `RoundTrip`: its encoders are RECURSIVE operators over values;
* `ContentsAreCarried` and `OneSpelling` of a REAL: its model has the width of TLC's
  integers built in (`MaxBits`), so that it is not what the code does for all numbers.

## 5. Not modelled

Tag numbers above 30 and the tag cache; the schema-guided
decoding of SEQUENCE OF, CHOICE and ANY; open types; a user's `substrateFun`;
encoding Python values with an `asn1Spec`; character sets; the operators of simple
values; SEQUENCE objects without a schema, and recursive types; `isSubTypeOf`;
named values; the native codecs' mapping; fields of one digit in a time, some of which
`strptime` takes (`type/useful.py:216`) and `AsDateTime` refuses all.
Formatting (debug records, `prettyPrint`, exceptions' texts) is left out for
good: it has no state and decides nothing.

## 6. Plan

1. *Done*: `BerDecoder`, `ComponentPlacement`, `ScopeTrail`, `Subtypes`,
   `LegacySwitches`, `ConstructedValue`, the contents modules and `Relay` with its refinement of
   `Channel`, all with proofs; `BerEncoder` and `RoundTrip`, model-checked.
2. Proofs: REAL in `Relay`, without a bound on mantissas and exponents; that every encoding
   `BerEncoder` writes is in the language of `BerGrammar`, from which, with
   `DecoderIsTheGrammar`, `WrittenIsRead` would follow for every value.
3. An abstract specification of what a SEQUENCE promises ("a record of optional
   components, none shared") with `ConstructedValue` shown to implement it.
4. Schema-guided SEQUENCE OF, CHOICE and ANY, and open types, in
   `ComponentPlacement`; the native codecs as a third pair of encoders for `RoundTrip`.
