# Verification of diametercodec

TLA+ models of the Diameter (RFC 6733) codec library in this repository, the
TLC runs that check them on small instances, and the proofs that hold for every
instance. Paths are relative to the repository; `codec/` and `stack/` stand for
`src/codec`, `src/stack` and their headers under `include/ert/diametercodec`.

## The system

The library is single-threaded C++17. It takes no locks, keeps no files and
calls nobody back. An application fills a dictionary from JSON documents, then
converts messages between octets, C++ objects and JSON. What is hard about it is
sequence rather than concurrency: operations that throw half-way and leave an
object in between, objects used again after what they refer to has changed,
lengths and counters at their width, and three representations of a message that
have to agree.

| Component | State | Operations | Used by |
|---|---|---|---|
| Dictionary (`stack/Dictionary`, `Format`, `Vendor`) | maps of formats, vendors, AVPs, commands; name indexes that point into three of them | `load`, `clear`, construction, `add*`, `get*`, `asJson` | everything below |
| AVP rules (`stack/Avp`, `Command`, `AvpRule`) | per grouped AVP and per command: rules by position, "fixed still allowed", next position | `addAvpRule`, `isChild`, qualifier bounds | Dictionary, `sortByRules` |
| Message (`codec/Message`) | header fields, a vector of Avp | `decode`, `encode`, `getLength`, `toJson`, `fromJson`, `setHeaderToAnswer`, setters, `addAvp` | application |
| AVP codec (`codec/Avp`) | id, flags, a variant, the raw mark | `decode`, `encode`, `getLength`, `toJson`, `fromJson`, `sortByRules`, setters | Message, itself for Grouped |
| MultiRangeExpression (`core`) | a literal and the values it expands to | `setLiteral`, `addLiteral`, `simplifyLiteral`, `contain` | `stack/Avp` enumerations |
| Base dictionary (`json/stacks.hpp`) | none: one JSON document, 107 AVPs and 14 commands | | loaded into a Dictionary |
| JSON schemas (`json/schemas.hpp`) | none: the shape of documents and messages | | callers that validate; no code of the library does |
| defines, trace formatting | none | constants, texts | |

The components meet in four places. The dictionary keeps *pointers*: a name
index points at a map node, and a redefinition changes what is in the node under
the pointer. The codec keeps *no* pointer: every operation on an AVP looks its
format up again, so an object means what the dictionary says when it is used.
The documents keep *names*: a dictionary that writes itself out refers to vendors,
formats and children by the names they have by then. And Grouped AVPs recurse
through all of decode, encode, getLength, toJson and fromJson.

What is hard, and what makes each component correct:

* **Dictionary.** A load of many entries throws at any of them and the tables
  stay as they are by then. Names and ids may cross: one id under a new name, one
  name for a new id. Its second loop finds the AVP to fill by name. Correct means
  that every reference leads somewhere, rules are ordered and without repetition,
  a load changes only what its document defines and puts that in place as defined,
  a command enters whole, loops among grouped AVPs are refused, and a dictionary
  comes back from its own export.
* **Message decode.** Length fields come from the network. Correct means no read
  beyond the buffer, AVPs of a Grouped AVP within its data and exactly filling it,
  recursion bounded by the buffer, an end for any input, and a message that is a
  prefix of one message when a decode fails.
* **Message and AVP objects.** Lengths have three octets, codes are unsigned on
  the wire and signed in an id, the request bit is stored twice, JSON objects have
  no order and no repetition. Correct means that getLength agrees with encode, that
  the octets of a message decode to that message, and that JSON loses nothing; and
  when the dictionary has changed in between, that a value is written as it was or
  not at all.
* **MultiRangeExpression and enumerations.** Two representations of a set have to
  agree after any series of setters; an alias belongs to a number, however spelt.

## The modules

| Module | What it models |
|---|---|
| `Catalogue` | abstract: how the tables of a dictionary may change |
| `RuleLevel` | the rule list that grouped AVPs and commands share, presences and qualifiers, as operators |
| `Dictionary` | the tables and `load`, one step per iteration of its loops |
| `DictionaryExport` | `asJson`, and the dictionary loaded from what it wrote |
| `BaseStack` | `json::stacks::base`, entry by entry, as a document of Dictionary |
| `MessageBody` | abstract: what a decode promises its caller |
| `MessageDecode` | `Message::decode` with its recursion as a stack of loops |
| `AvpCodec` | an Avp in its three representations, as functions on AVPs, octets and JSON |
| `MessageObject` | the life of a `Message`, over `AvpCodec` with a fixed dictionary |
| `CodecSession` | a message while its dictionary changes: `Dictionary` and `AvpCodec` composed |
| `MapOrder` | the iteration of a `std::map`, given the keys before each key |
| `MultiRange` | `MultiRangeExpression` |
| `Enumeration` | the values and aliases of an AVP of the dictionary, over `MultiRange` |
| `DictionaryProofs`, `DictionaryExportProofs`, `MessageDecodeProofs`, `EnumerationProofs`, `MessageObjectProofs`, `CodecSessionProofs` | the theorems |
| `AvpCodecProofs` | recursion over what nests, and what the functions of the codec return |
| `MapOrderProofs` | what they share: induction, loops, the iteration of a map |
| `MC*` | constants for TLC |

How they stand on each other:

    RuleLevel -- Catalogue             MessageBody
        |            : refined by          : refined by
        +------- Dictionary            MessageDecode
                   |   |    \
    DictionaryExport   |   BaseStack   AvpCodec -- MessageObject
                   \   |    /              |
              MCDictionaryExport          CodecSession (with Dictionary)

    MapOrder -- MultiRange -- Enumeration
        +------ DictionaryExport
        +------ AvpCodec

**Dictionary.** Tables are functions. A pointer to a map node is the node's key,
since a node stays where it is: an index maps a name to a code or an id, and who
follows it sees what the slot holds by then. `load` is a machine over `phase`
with its locals `doc`, `at`, `nth`, `target` (the AVP whose rules are added) and
`aux` (the command being built); `ExtractFormat`, `ExtractVendor`, `ExtractAvp`,
`GroupedEntry`, `GroupedRule`, `CheckLoops`, `CommandEntry`, `CommandRule` and
`AddCommand` are its loop bodies in order. `Throw` ends a load and keeps the
tables. Where the code dereferences an end iterator the model allows both
outcomes, an exception and the end of the process (`phase = "dead"`, from which
`Restart` starts anew). Data no step depends on (m-bit, p-bit, application-id,
labels and aliases) are left out, but not the checks on them that throw.

A qualifier is kept as the texts around its asterisks, each the number `atoi`
reads in it, so `"1*"` is `<<1, Blank>>`; `setQual`, `getQualMin` and `getQualMax`
are operators on that.

**Catalogue** is what those who read the tables may rely on: no document, no
loader, no name index and no "fixed still allowed". Formats, vendors, AVPs and
commands are defined one at a time, an AVP without rules and a command with all of
them; a grouped AVP gets its rules one by one at the end, in order; what a
definition refers to is there. `Dictionary` implements it under the mapping
`Published`, which takes a slot to its definition with its rules. A load that fails
half-way is nothing special there, which is the point: it leaves no state that a
series of smaller loads might not have left.

**DictionaryExport.** `AsJson` writes the tables in the order of the maps: formats by
their names, AVPs by vendor and then by code (`lessAvp`), commands by code and the
request before the answer (`lessCommand`). It has a name wherever the document has
one, and leaves out the formats of RFC 6733 and the
generic AVP as the code does. `Export` stands for writing that and for the next
process, which constructs a dictionary and loads it, step by step, so that it can
fail like any load; `saved` remembers what the tables said and `portable` whether a
document can say it: no two entries share a name, vendors have the names their AVPs
were defined with, a generic AVP, which is not written, still has the name a fresh
dictionary gives it, and no format is derived from one a fresh dictionary does not
know. A rule without a presence makes `asText` a null pointer (`AsJsonDefined`).

**BaseStack** has the 107 AVPs and 14 commands of the base dictionary with their
codes, formats, rules and qualifiers, and what must hold once they are in.

**MessageDecode.** The buffer is read once from left to right, so its bytes are
chosen as the decoder reaches them: any header the constants allow, at any point.
`frames` is the call stack of loops; `avps` maps an offset to the object decoded
from there; `reach` is the end of the last read. `header` and `body` record
whether the Message has this decode's header and AVPs or earlier ones, since a
decode that throws early leaves one new and the other old. `MessageBody` is what
the caller sees of it: one AVP after the other, each on the next word.
`MessageDecode` implements it under the mapping `Outside`, in which everything
inside a Grouped AVP is a stutter.

**AvpCodec and MessageObject.** An octet has `Base` values instead of 256;
otherwise octets are counted as in the code. With `Base = 4` a three-octet length
ends at 63, a four-octet number at 255 and a code is negative from 128, so cut
lengths, wrap-around and sign come up in messages TLC can hold. Texts are
sequences of characters, and there are as many characters as octets. The lowest `Digits`
of them are the hexadecimal digits, of which `toHex` writes two for an octet; the highest
(`Separator`) stands between the numbers of an address, so that four or sixteen numbers
with separators between them are what `inet_pton` accepts, whatever the text was written
as. The spellings are fewer than those of the code: a digit has no second case, and an
address one text only, where IPv6 has several. The
variant of an AVP is one kind of value with what that kind holds (`DataWith`): a number
of its width and sign, a text or a list of AVPs. What
the code computes of an AVP by recursion over those within it is a function on `Avps`,
the AVPs nested at most `MaxDepth` deep; `fromJson` and `decode` are functions on JSON
values and on octets. An AVP within another takes eight octets of it at least, so
lengths of three octets leave no room for more levels than `SizeAssumption` asks
`MaxDepth` to allow (seven with `Base = 4`): the bound cuts nothing that octets can
hold. A JSON object is the sequence of its entries in the order of their keys. A key is
a name, `<<name, 0, 0>>`, or that of an unknown AVP, `<<"avp-", code, vendor>>`, ordered
by `KeyRank` and by the numbers; the code orders the digits, which moves AVPs of unknown
names among each other and nothing else.
`MessageObject` makes the operations that change a message actions; `encode`,
`getLength` and `toJson` are const and are operators, and what they return comes
back through `DecodeMessage` and `BuildFromJson`, like a document or a buffer from
elsewhere. `DecodeIntoAvp` is `Avp::decode` on an object that has had another life,
with what a throw leaves behind: new flags, a new id, old data. The setters of the
version, the application and the identifiers store one number nobody reads back
before encode, and are left out; documents give those fields other values.

**CodecSession.** `AvpCodec` over the tables of `Dictionary` as they are at each
moment (`View`), names looked up in the index and not in the slots. A message is
decoded or built between loads, then the dictionary goes on loading, failing and
clearing, and whatever `encode`, `getLength` and `toJson` would return by then is
compared with the octets of the moment the message was made. `hosts` remembers which of its AVPs were addresses at that
moment. The module assumes that
the codes of a document are what an S32 holds, as the loader reads them, and that every
name has a rank; the octets and the JSON that arrive are of any content.

**MultiRange.** A literal is the sequence of texts between its commas, and a
text the sequence of numbers between its dashes, as the tokenizer and `atoi` read
them: an empty text is 0, numbers beyond the second are ignored. `setLiteral` puts
together what the texts say, in whatever order, and is a union; `simplifyLiteral` is a
loop over the values in ascending order with the range so far, written as the function
that has what each turn leaves. `Enumeration` has one either on its own, as an
application may use the class, or inside an AVP, which makes its own calls only
(`setEnums`, `addEnums`, which simplifies at once). Labels are a map ordered by the
number `atoi` reads in their text, so that "1" and "01" are one key, kept in the
spelling that came first. `ExportAndLoad` is `asJson` and the new AVP `extractAvps`
makes of it.

## The runs

| Run | Asks | Bounds |
|---|---|---|
| `dictionary` | do references resolve, names lead, a load change only what its document defines and put it in place as defined; do rule order, whole commands and the check for short loops survive failures and an application that adds rules itself; does it all implement Catalogue | three sets of documents, one chosen at the start: two names over two ids and a vendor in all pairs of six AVP definitions; three AVPs with every choice of one child and rules that fail in every way; two grouped AVPs and commands that fail at a late entry and a late rule. Any number of loads |
| `dictionary_export` | does a dictionary come back from its export; does the base dictionary load to its end, with its requests answered, its rules satisfiable and no loop of any length | between two clears, up to 4 of fifteen small documents, or up to 2 of the base dictionary and four documents that move its names and ids; any number of exports and clears |
| `message_decode` | reads in bounds, nesting, tiling, depth, termination, refinement of MessageBody | buffers to 48 octets (three levels deep), 14 lengths around 8 and 12, on and off words and too long |
| `message_object` | getLength against encode, octets and JSON and back | two AVPs added by hand, ten AVP objects, nine buffers, about twenty documents |
| `codec_session` | the same three when the dictionary has changed since the message was made | seven documents that give four AVPs formats of another width, kind or name; three bodies, three JSON objects. Any number of loads |
| `multi_range` | literal and values agree; additions bring their values; the simplified literal is the shortest; aliases go by number; an enumeration comes back from its export | seven literals, four texts stored, three labels of two numbers, two aliases, three formats |

The dictionary's properties relate few entries to each other (two names, two AVPs
and a vendor), so two or three of each show every way they cross; loads may follow
each other without bound, but for the export, where four documents are enough for
two redefinitions of what two others refer to. Names, whose order decides the order
of an exported document, are given any one-to-one rank (`MCRank`). For decode, offsets
matter modulo 4 and relative to an AVP's own end; the lengths cover both header sizes
exactly, one less, one more, every padding and every level of overrun. For MessageObject every
format of a different treatment has an AVP, and the documents and buffers hold
repeated AVPs, nested ones, each kind of failure, a vendor bit without a vendor and
the reverse, and numbers past their width. For CodecSession every AVP of the message
can get every other kind of format: another width, a text for a number and the
reverse, an address for a text, a single for a grouped, a format of the user's own,
another AVP's name.

Six runs expect a violation. Each shows a place where the code does not do what a
text of the repository says:

| Run | The text | The code |
|---|---|---|
| `long_loop` | Dictionary.cpp:427, a grouped AVP "won't have descendants within its ascendants" | the check compares with direct parents, so a loop of three AVPs loads |
| `stale_name` | Dictionary.cpp:388, "a redefinition could have removed it" | names are never removed, and an old name leads to the redefined AVP |
| `basic_type` | Format.cpp:72, "Only basic diameter format allowed for parent type" | an unknown parent passes, the format itself included, and `getBasicType` does not end |
| `single_grouped` | the schema, schemas.hpp:112, lists Grouped for single AVPs | the second loop reads past the end of such an entry |
| `emptied_literal` | MultiRangeExpression.hpp:59, "align 'data_' and 'literal_'" | an empty literal keeps the values of the one before |
| `unknown_name` | Avp.hpp:126, raw keys are "the same names toJson emits for unknown AVPs" | codes from 2^31 on are named `avp--N`, which fromJson refuses |

Other behaviour worth knowing, which the models have:
`addAvpRule` clears "fixed allowed" even for a rule it then refuses as a duplicate;
`addLiteral` on an empty expression, or behind a comma, also adds the value 0; a
format defined without a parent by an empty text cannot be loaded back from its
export, and one of RFC 6733 that was redefined is not exported; a rule of an unknown
type has no text to be exported with; a message whose AVP was redefined from an
address to a text is encoded to other octets, since an address is kept as the text
`inet_ntop` wrote, and so is one whose text spells an address and was redefined as one,
since `inet_pton` reads any text (`Hosts`); an AVP by the name of `_header` and the
header of the message are one key of its JSON, so that one of them is lost (`KeysDiffer`);
a qualifier of two asterisks has the maximum 0, which no document in the runs has; an AVP of a user-defined format is coded as octets
whatever its parent, the `default` of `codec/Avp`; the schema calls an AVP's vendor
"vendor" where the code reads "vendor-name" (`Dictionary.cpp:283`); `Avp::decode`
never resets the raw mark; an Address of an unknown family decodes to a hex text
that encode refuses; AVP 0 of vendor 0 is named "AVP" by toJson, a name fromJson
knows and refuses for want of a format; lengths beyond three octets are written cut.
The round-trip properties say so in their conditions (`Faithful`, `Portable`).

### Fairness

Only `DecodeEnds` needs any: weak fairness of `Step`, the loops of a decode that
has been called. A called function runs on; nobody has to call one, so `Decode`
has no fairness. No other model has a liveness property: their operations are
single steps or, for `load`, bounded by the document, whose end `BaseLoads` says the
base dictionary gets to.

## The proofs

**DictionaryProofs** proves, for all names, documents and presences allowed by
the assumptions (the literals the code itself registers are names; documents are
of the schema's shape), the type invariant and the invariants and action properties
of the run `dictionary`. The inductive invariant is `TablesInv /\
LoaderInv`. Rule order is not inductive without `FlagMeansAllFixed` (while fixed
rules are allowed all rules are fixed). The second loop's unchecked lookup and
`LoadTouchesOnlyItsAvps` need `Visited`: the entries already seen are in the index,
under ids the document defines, which later entries of the same document keep true
even when they move a name. A step does one of seven things to the tables
(`StepCases`); the table invariant is proved over those seven and the loader's over
the actions, so actions are visited twice and not once per property. The loop
theorem is about what the check does find, loops of one and two; longer ones pass.

DictionaryProofs also proves that `Dictionary` implements `Catalogue`. Each of the seven
things a step may do to the tables is a step of the catalogue or leaves it alone; `Inv`
supplies what the catalogue asks of a definition: its format and vendor exist
(`ReferencesResolve`), its rules lead to AVPs of the dictionary and are in order
(`LevelOK`), and what a command has gathered in `aux` is so too. A refused rule changes
the flag only, which the catalogue does not have.

DictionaryProofs also proves `LoadedAsDefined`: a load that gets to its commands
has put every AVP into its slot, under its name, with its rules in order, and every
command it went past, whatever the tables held. The invariant `LoadProgress` says
what the visited entries have at each point: their slots after the first loop, the
first `nth` rules of the current one in the second, all rules of those before. That
later entries leave earlier ones alone needs their ids and names to be distinct; that
rules and ids mean the same at the end as when they were added (`SameMeaning`) needs
that only the AVP loop moves names of AVPs, and only the vendor loop those of vendors.

**DictionaryExportProofs** proves that a dictionary comes back from its export
(`ExportRestores`), for all dictionaries a document can say, whatever loads, failures
and clears made them. `RestoreInv` says what the second process has at each moment:
at the end of the load its tables are those of `saved`, and until then
`LoadedAsDefined`, from the load's own invariant, has in place what the loops behind
it have visited. What is between the two is that the document says the tables:
`Says` makes each section a listing of its table (`Lists`: every entry is there, none
twice), which holds because the iteration of a map visits its keys in order, each
once (`VisitsInOrder`), and a document that says exportable tables is one a load
takes to its end. `EntriesInv` keeps the facts of the tables that nothing else needs
and an export does, such as that ids, names and vendor names are what a document
could hold. Each action has a lemma that goes back from what the new process holds to
what was saved. The proof did not go through at first, and rightly: a generic AVP
renamed by a document with the format Any is not written, so a rule that refers to it
under its new name cannot be loaded. `FormatsMatch` now excludes it, and the run has
the document that renames one.

**EnumerationProofs** proves all of `multi_range`. A loop is a function of its turns,
which exists (`LoopDefined`) and of which a property is shown turn by turn
(`TurnInduction`, both in **MapOrderProofs**, from induction on the set of turns for
which it holds). So `Expand` is the union of what its texts say
and `addLiteral`, which appends, adds exactly that (`AddingBringsItsValues`, and with
it `AlignedUnlessEmpty`). The invariant of the loop in `simplifyLiteral` is that the
ranges written and the one at hand cover exactly the values passed, each range with a
gap behind it (`Gathered`): the literal says the same values in one text for each
maximal run of them (`SimplifiedSays`, `SimplifiedIsShortest`). An alias is found under
every spelling of its number and changes what is found under no other: keys that compare
equal are one key, which addLabel keeps; and an enumeration comes back from its export.

**MessageDecodeProofs** proves, for all buffer sizes, lengths, codes and
dictionaries, every safety property of `message_decode` and that `MessageDecode`
implements `MessageBody`. The inductive invariant gives each open loop `LoopOK` (it
stands on the word after its last AVP and its AVPs tile what is behind) and relates
each frame to the one around it (`OpenOK`); `ObjectsInv` says that a closed AVP lies
before the innermost position and is completely decoded, so that adding an AVP never
disturbs another; `8 * (k - 2)` octets of header lie before the k-th frame, which
gives the bound on depth, which is the message's length over eight: a bound, but none that
protects the stack. The refinement has one simulation step per action: inside
a Grouped AVP nothing of the outside changes, and the closing of an outermost one is
`TakeAvp`.

**AvpCodecProofs** shows what the functions of the codec return, for every base and
every dictionary, and **MessageObjectProofs** proves the type invariant of
`MessageObject`, that getLength is what encode writes (`LengthIsEncoded`) and that what
encode writes decodes to the same message (`WireReturns`). A
function defined by recursion has to be shown to be there before it can be expanded:
AVPs come in layers by the depth of their nesting, JSON values too, octets by their
number, and where each step makes two functions that agree on one layer agree on the
next, the recursion has one result and no other (`RecursionDefined`, `RecursionUnique`;
`BuildingDefined` for a function made from an AVP's own AVPs). With that, `LengthOf` and
`Encode` agree by the depth of an AVP (`EncodedLength`): what is within a Grouped AVP is
written padded, so its octets are the sum of the padded lengths, and an address has
the four or sixteen octets its text spells. `decode` is shown to return AVPs by the
number of octets: an AVP's data is eight octets shorter than the AVP, which is where
`SizeAssumption` is used and why the levels of AVPs suffice; `toJson` and `fromJson` by
the depth of what they are given. `TypeOK` is then inductive as it stands. What it says
beyond shapes is that no operation, not even a decode that throws half-way or a number
from JSON that is too wide, leaves a field the wire has no room for or an AVP that the
codec cannot take; `LengthAgrees` and `WireRoundTrip` follow from it with no other
invariant.

The wire round trip rests on three things. A number is the number of its octets
(`NumberOfOctets`, turn by turn from the first octet; `CastBack` for the casts), which is
where the type of AVPs says more than shapes: an alternative of the variant holds the
numbers of its width and sign and no others. What is put together from pieces has each
piece in its place (`Grown`, `PartAt`), so the fields of a header and the data between
header and padding are found again (`FramedParts`, `EncodedPieces`). And AVPs come back by
the number of octets they take (`DecodedBack`), since the AVPs within the first and those
behind it take fewer. The message must be one the wire has room for (`Faithful`): no code,
length or vendor that is cut, the request bit the same in both places, no AVP that was
built raw. A text is its characters and says nothing of how it came about, as in the code:
an object that a failed decode left with another id may hold the address text of its former
one, and is written and read as those characters.

MessageObjectProofs also proves that a message comes back from its JSON: `JsonKeeps`
(no AVP is lost, added or altered) and `JsonSettles` (the second time nothing changes at
all). `toJson` groups the AVPs of a level by their names, in the order of a map, and
`fromJson` visits keys and arrays and sorts by the rules. So each of the two is an
arrangement, `i |-> p[i]` with every place taken once, and the proof follows it: the
visit of what was written comes to every AVP once, by name and then by place
(`VisitArranges`), what one AVP each was read from is read from them all (`ItemsBack`),
and `sortByRules` arranges them by rank, keeping that order among equals
(`RebuiltArranges`). Two arrangements of one list are the same AVPs (`SameArranged`), and
a list in that order is the only arrangement of itself in it (`RisingIsTheirs`), which is
why the second trip changes nothing (`RebuiltAsTheyAre`). What one AVP comes back as is
found format by format: numbers survive their casts and a time the change of epoch
(`TypedBack`, `TimeBack`), unknown AVPs come back raw, octets by two
digits each (`ToHexTyped`, `UnnamedBack`, `NamedBack`); and by the depth of AVPs each
settles after one trip (`AvpSettles`). The order of a Grouped AVP's own AVPs changes on the way, so AVPs are
compared by `Likeness`, which counts those within. The header says the same afterwards
because the request bit is read from the flags and set there again (`FlagsStay`), even
if `id` and flags disagreed before. `fromJson` takes the key `_header` for the header and
passes over it among the AVPs (`FromMessage`); where no AVP has that name (`KeysDiffer`),
what it reads is what was written (`ReadAsItems`).

**CodecSessionProofs** proves all three properties of `codec_session`, of a message whose
dictionary goes through whatever `Dictionary` allows. The inductive invariant is
`SessionInv`: the dictionary's own (`Inv`), that the codes in its tables are those an S32
holds (`CodesInv`), and `HeldInv`: the message is AVPs of the codec, and what it was
encoded to is given by the kinds of its values and by `hosts`. The first two make the tables, in every
state and in the middle of a load too, such as the codec assumes a dictionary to be
(`TablesServe`), so what AvpCodecProofs shows under one dictionary holds under each that
the session passes through. `LengthAgrees` is then the length lemma at the moment of
encoding. For `EncodingKept` that is not enough, since it compares two moments with two
dictionaries: `AllByKind` writes an AVP by the kind of the value it holds and by whether it is among
a given set of addresses, and looks at no dictionary. An AVP that can be encoded at all has a format that asks for the value it
holds, and is encoded to just that (`AllEncodedByKind`), whichever dictionary gave the
format. Only addresses have two ways to be written, as the octets of the host and as the
characters that spell it, and so the property asks that the same AVPs are addresses as
when the message was made. `JsonKeepsAvps` is the JSON round trip under the tables as they
are (`MessageReadBack`); that names lead back to ids is not assumed, as in
`MessageObject`, but asked of each AVP of the message (`NamesCurrent`, which also excludes
the name `_header`), since loads may move names. It needs what the finding `unknown_name`
says of codes from 2^31 on.

The assumptions on constants are the shape of documents and literals, the names the
code registers itself, bounds that are naturals, presences that are texts
(`TextsAssumption`) and the order of names being one (`RankAssumption`: no two names
rank the same, as for `std::string`). Those of the codec are what `Dictionary`'s
invariants say of its tables (`DictAssumption`, `DictTyped`), that no name was moved from
one AVP to another and none looks like the key of an unknown AVP, `avp-` and its code
(`IndexAssumption`; without it the name toJson writes may be another AVP's), that two
hexadecimal digits make an octet (`DigitsAssumption`), a base
and a depth of nesting that fit each other (`SizeAssumption`), and that objects,
documents and octets are of their types (`ApplicationAssumption`). `CodecSession`, where
the dictionary is no constant, assumes none of what is said of tables: it is proved.
What is left there is a base with its digits and a depth that fit (`OctetsAssumption`), an order of names
none of which looks like the key of an unknown AVP (`KeysAssumption`), and
codes, octets and JSON of their types (`SessionAssumption`).

Only model-checked: `DecodeEnds`, which is liveness, and what holds of the base
dictionary and the documents loaded beside it in that run (`RequestsAnswered`,
`RulesSatisfiable`, `NoLoopPasses`, `BaseLoads`). They are about what those documents say,
and would be false of others. Every other property of a passing run is a theorem.

## Not modelled

* Floats, whose wire form is that of an integer of their size, and the log trace of
  values.
* m-bit, p-bit, application-id and the dictionary's name, which are stored and
  written and which no step reads; the setters of a message's version, application
  and identifiers, for the same reason; `codec::Message::getAvp`.
* `addFormat`, `addVendor`, `addAvp` and `addCommand` called by an application with
  objects it built itself: they check nothing, so whatever the application does not
  check can be in the tables, and nothing in the repository calls them but `load`.
* Copies of a dictionary; nothing in the repository makes one.
* Validation against the JSON schemas: no code of the library does it. The dictionary
  schema is taken over as the shape of documents; the message schema has no
  counterpart but the documents of `MCMessageObject`.
* The warning about a label out of the enumeration's range, other logs, trace
  formatting and the constants of `defines`, which keep no state; the tests, the
  benchmark and the example, which were read for what they expect.

## Where it stands

Modelled and checked: the dictionary with its export and the base dictionary, decode,
the objects and both round trips, a message under a changing dictionary, the range
expression and enumerations. Proved, for every value of the constants: all of the
dictionary's run, its export and its refinement, all of decode but its end and its
refinement, the range expression and enumerations, the types, lengths and both round
trips of messages, and the three properties of a message under a changing dictionary.
What a change of the code would call for is said in "Not modelled": floats and the
m-bit first, if a step comes to read them.
