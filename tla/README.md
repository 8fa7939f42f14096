# saneyaml in TLA+

saneyaml is a YAML parser, serde (de)serializer and lossless editor written in
Rust (`src/src/`, about 31,000 lines). This directory holds TLA+ modules that
follow its source, TLC configurations that check them on small instances, and
proofs that TLAPS checks for every instance. Line numbers below and in
`PROJECT.json` are those of the source at this commit.

Contents: 1 the system; 2 the modules; 3 how the modules follow the code;
4 the runs, their bounds and what they show; 5 fairness; 6 the proofs;
7 where the code and its documents disagree; 8 what is not modelled; 9 the plan.

## 1. The system

saneyaml is a sequential library. It has no threads, and nothing is persisted
except by `ConfigEditor::finish_to_file`. Its hard behaviours are of another
kind: parsers that are pulled lazily by a client, state that must not outlive a
document, recursion whose bookkeeping must match the tree it builds, the same
algorithm written several times for different representations, limits, and edits
of text that have to mean edits of a tree.

| Component | State it keeps | Operations | Talks to | What is hard | What makes it correct |
|---|---|---|---|---|---|
| Line window (`parse.rs` `LineBuffer`) | lines read, base, end of input | `get`, `push_next`, `discard_before` | pulled by the scanner and the node parsers, which look ahead over blank lines | reclaiming lines that are still wanted | a retained line is the line of the input, and none wanted is gone |
| Document scanner (`Parser::parse_next_document_result`) | position, `DocumentParseState`, pending and active directives, tag handles, merge flag | one arm per kind of line | calls the node parser; fills the event recorder | state that leaks into the next document; content behind a document; null documents | directives reach their document and no other; nothing is dropped |
| Event and document iterators (`EventStream`, `DocumentStream`) | pending items, pending error, finished | `next` | drive the scanner one document at a time | an error after events were recorded | the event protocol; every client reaches the end |
| Anchor registry, properties, recorder metadata | entries with generations, expanded nodes, deferred anchor, pending metadata | `begin`, `finish`, `resolve`, `validate_alias`, `reset_document` | called by the block and the flow parser | an anchor redefined inside its own node; `!t &a` against `&a !t`; budget and depth of copies | an alias means the last anchor, never its own ancestor; copies are charged exactly |
| Block and flow node grammar | position, indentation arguments, seen keys | the `parse_*` family | registry, tracker, recorder | indentation, compact collections, plain scalars of several lines | nodes and spans are those of the indentation |
| Duplicate keys (`key_identity.rs`) | an array of four slots, then a hash map | `insert` | consulted by both mapping parsers and three deserializers | the move from the array to the map | the position of the first occurrence is reported |
| Merge keys (`ast.rs`, `de.rs`, `lossless.rs`) | none between calls; the merge flag of the document | strict and YAML 1.1 expansion, owned and borrowed; `apply_merge`; the lossless view | parser, deserializers, lossless graph | precedence of `<<`, lists, repetition, depth, cycles; five implementations | each key has the value of the nearest binding; the implementations agree |
| Lossless tree (`lossless.rs` `Builder`, paths) | nodes, anchors, aliases, trivia | build, path resolution, merged view | events and spans of the parser | cycles through aliases; spans begin behind tags and anchors | spans nest; views match loading |
| Lossless edits (`LosslessEdit`) | replacements of one batch, with offsets into the unedited source | replace, insert, delete, `finish` | tree; parses its result | overlap, order at one offset, two calls that meet at a comma | untouched bytes stay; the tree is the one the calls asked for |
| Config editor (`ConfigEditor`) | the working source, options, path | `set`, `remove`, `rename`, `insert`, `push`, `insert_item`, `finish_to_file` | reparses before and after every edit | splices of lines that parse as another document | an accepted edit is the edit asked for; comments stay |
| Event-backed deserialization (`event_de/`) | cursor, copies to replay, budget, known anchors, depth | serde calls; `skip_node`, hand-over of a built node | recorded events | aliases in replayed events; look-ahead for merges and duplicates that must not move the cursor | what is delivered is the document with its aliases replaced |
| Value deserializer (`de.rs`) | none between calls | the serde methods, written out for parsed, owned and borrowed nodes and values | nodes and values, visitors | copies that drift apart; tags, merges and nulls handled in each | every copy reads the same; the path of an error leads to what is wrong |
| Serializer (`ser.rs`) | tag, pending key, entries; whether a document was written | the serde callbacks of five serializers | values, writer | a map that may be a tag in disguise; a writer that fails | what is written reads back; the serializers agree |
| `with` helpers (`with.rs`) | which form is wrapped | `singleton_map`, `singleton_map_recursive` | around either side | every kind of content again | an enum in a map reads back |
| Emitter (`emit.rs`) | none between calls | validate, emit in block and flow, quote | node grammar | layout that must parse back; words that look like something else | the text parses as the tree |
| AST and values, schema, errors | data | conversions, equality, path of an error | all | number widths, tags inside tags | conversions lose nothing that is read |

## 2. The modules

| Module | Models | Uses |
|---|---|---|
| `EventProtocol` | abstract: what a client of the event iterator may rely on | |
| `DocumentStream` | line window, document scanner, both iterators | `EventProtocol` (refined) |
| `Anchors`, `MCAnchors` | anchor registry, node properties, pending metadata, depth and budget, over the recursive calls of both node parsers | |
| `DocumentStreamProofs` | theorems about the line window, the event iterator, and what belongs to which document | `DocumentStream`, TLAPS |
| `AnchorsProofs` | theorems about `Anchors`: types, recursion, declarations, metadata, depth; what an alias copies, and what it is charged | `Anchors`, `SumTheorems` |
| `SeenKeys` | abstract: what reporting the keys of a mapping one by one promises | |
| `DuplicateKeys` | `DuplicateKeyTracker` with its array and hash map | `SeenKeys` (refined) |
| `DuplicateKeysProofs` | theorems about `DuplicateKeys` | `DuplicateKeys`, TLAPS |
| `MergeKeys`, `MCMergeKeys` | the mapping parser reporting its keys, and the readings of the mappings it built | `DuplicateKeys` (composed) |
| `ValueMerge` | `Value::apply_merge`, the expansion that works on trees | `MergeKeys` |
| `MergeKeysProofs` | theorems about `MergeKeys` | `MergeKeys`, `DuplicateKeysProofs`, `SumTheorems` |
| `BlockParse` | the block structure the parser reads from the indentation of lines, with the spans of nodes | |
| `Splice` | a batch of replacements: how `LosslessEdit` collects, sorts, validates and splices them | |
| `SpliceProofs` | theorems about `Splice` | `Splice`, TLAPS |
| `ConfigEditor`, `MCConfigEditor` | the editor: paths, splices of lines, reparse | `BlockParse` (composed) |
| `FlowEdit`, `MCFlowEdit` | batches of edits of flow collections, with the flow parser and the spans they rely on | |
| `EventReplay`, `MCEventReplay` | `EventSource`: the cursor, replayed aliases, look-ahead, hand-over | |
| `EventReplayProofs` | theorems about `EventReplay` | `EventReplay`, `SumTheorems` |
| `SumTheorems` | sums over a function's first values, which the measures of `Anchors` and `EventReplay` are | TLAPS |
| `Trees` | nodes and values as trees; merging, equality, tags and numbers | |
| `Deserializers` | what the deserializers share: parts, paths, the access types | `Trees` |
| `EventReaders` | the methods over events, and over nodes built from events | `Deserializers` |
| `TreeReaders` | the methods of the five copies in `de.rs` | `EventReaders` |
| `SingletonMaps` | `with.rs`, reading | `TreeReaders` |
| `Visitors` | what targets make of the call they get | `SingletonMaps` |
| `Samples` | documents and targets | `Visitors` |
| `Decode`, `MCDecode` | one document read in every way | `Visitors`, `Samples` |
| `Serializers` | the five serializers, map keys, numbers, `with.rs` writing | `Trees` |
| `Serialize`, `MCSerialize` | one datum serialized in every way; a stream to a writer that may fail | `Serializers`, `Samples` (to read back) |
| `Tokens` | nodes, strings and tokens of the next two | |
| `Emitter` | `emit.rs`: the tokens a tree is written as | `Tokens` |
| `NodeGrammar` | the node parser over lines of tokens | `Tokens` |
| `EmitRoundTrip`, `MCEmitter` | writing and parsing what was written | `Emitter`, `NodeGrammar` (composed) |

`EventProtocol` and `SeenKeys` are abstract specifications. `DocumentStream` maps
its history of yielded events to the phase of the protocol
(`EventsFollowProtocol`); the tracker maps its array and its hash map to one
function of seen keys (`RemembersFirst`). `SeenKeys` keeps the reported keys too: a step
reports one key, and then the key is either accepted at the next position or refused with the
position of the first, so a tracker that lets a repeated key through takes a step the
specification does not have. A new tracker for the next mapping is a step as well (`Forget`).

## 3. How the modules follow the code

**DocumentStream.** A line is its `LineKind`, directives split by what they
declare and document starts by whether a value follows. Lines are chosen when
`LineBuffer` first reads them, so one behaviour is one input. `Scan` has one
action for each arm of the loop of `parse_next_document_result` (1411-1570): end
of input with directives, with a pending `---` or with nothing; a directive
outside and inside a document; `---` that starts, or that ends a null document;
`...`; content. `parse_node` is abstracted to the lines it consumes, whether it
meets a merge key, and a node or an error. `Iterator` has one action for each
branch of the two `next` functions. `mode` says which iterator drives the parser:
the recorder is on for events only. `content_lines`, `doc`, `merge_docs` and `out`
are histories that only the properties read.

**Anchors.** The recursive calls are a stack of frames, one for each call that
is open: a collection (block or flow), an implicit pair `k: v` of a flow sequence,
an anchor or a tag waiting for its node. An action is a call (a property, a
collection, an alias, a leaf) or a return. A node is abstracted to its size, its depth and the
generations and tags on it, since these are what the registry compares, charges
and copies. Sequences and mappings are both `collection`: they do the same to the
registry. `depth` arguments are kept: a call may be made at any depth the code
passes, which for block calls is up to `Extra` levels above the least (a mapping
value counts two). `loose` marks nodes parsed where no call compares a depth (flow keys,
the null of a flow property without a node, implicit pairs). A complete entry
drops its generation in the code; here it is kept as a history.
`mode = "events"` is the recording parser of `parse_events`, where aliases are
validated and not expanded.

**DuplicateKeys, MergeKeys.** A key is its identity: `key_identity` computes
equal identities for equal keys, and that computation is left out. Every mapping
is built entry by entry (`StartMapping`, `AddEntry`); each key is reported to the
tracker first, as `check_duplicate_key` does, with `InlineLimit` slots before the
hash map. A finished document is read in one step by what its mode selects:
`LoadStrict` and `LoadYaml11` (the loader), `Deserialize` (caller-built nodes, owned and
borrowed), `View` (the effective view of the lossless graph, whose mappings may
refer to any mapping, themselves included). Each implementation is translated
separately: an operator says what it makes of one mapping, given a table of what it makes
of the mappings referred to at the next depth (`StrictEntries`, `Yaml11Entries`,
`BorrowedEntries`, `ViewedEntries`), and a recursive function over mappings and depths, or
mappings and what is on the stack, is that table (`Expanded`, `Effective`). `Add` and
`AddAll` are the three loops the code has for payloads: insert what is missing, replace, and
extend. `Origin` says where a key must come from, whatever the implementation.
`Value::apply_merge` splices payloads unexpanded and goes on in what it spliced, which is no
recursion over the mappings of the document: `ValueMerge` adds it on trees, in one more step
(`DeserializeValues`) behind `Deserialize`.

**BlockParse, ConfigEditor.** A line is `[ind, dashes, key, text, note]`; a dash
and its space are two columns. `Parser(ls)` is a recursive function from the
parser's calls to nodes: `Items` and `Entries` are the loops of `parse_sequence`
and `parse_mapping` and of their inline forms, `NodeBehind`, `PairValue` and
`NestedOrNull` the calls between them, `PlainEnd` the continuation loop of
`parse_plain_scalar`. A node keeps its first and last line and its place on the
first, which is what its span is to the editor. An operation of the editor is one
action: it resolves the path in the parse of the working source, builds the new
lines with the `With...` operator of its `LosslessEdit` call, and `Apply` keeps the
result only if it `Parses`. The editor parses into the lossless stream, which compares no
keys (`check_duplicate_for_schema` returns at once while events are recorded): a
repeated key parses, whether it was there or an insert or rename has brought it. A path is a
sequence of positions, position 0 a key or index that is not there; it leads on only through
keys that their mapping has once (`Found`, `Resolves`), as the lookups by name do. What the
operation *means* is said separately, on values without positions (`Changed`).

**Splice.** Each call that adds a replacement is an action, also the ones that are
refused for their span and leave the batch as it was. `finish` is a state machine:
`Sort` puts the replacements into the one order `sort_by_key` gives,
`Validate` and `SpliceReplacement` are the two loops, one replacement a step, and
`Validated`, `SpliceSuffix` and `Reparse` what follows them. Text is its length, and the
output is the sequence of pieces put out, so that nothing depends on what is in
the source except `Boundaries`, the offsets between characters. The editor
calls `finish` with one replacement at a time, which `ConfigEditor` therefore
takes as a replacement of lines.

**FlowEdit.** A source is a sequence of tokens, an offset the number of tokens in front
of it. Blanks separate tokens, except behind `TightColon`, which is why `{a}` and
`{a:}` differ from `{a: }`. `ParseValue`, `ParseKey`, `SequenceItems` and
`MappingEntries` are the flow parser with the spans `Builder` gives its
nodes: behind the properties, and for a node that is nothing but properties the last of them.
Every call is an action, on any node a path of up to `Depth` segments reaches, and
takes its offsets from the parse of the unedited source, as `LosslessEdit` does. `Finish`
sorts, checks, splices and parses. `Meant` says what the calls of a batch ask
for, on trees without spans. A fragment is checked as the code checks it, in
block context: `n, m` passes as one scalar and is two items once inserted.

**EventReplay.** `pos` and `inject` are the cursor and the stack of copies in front of it;
`open` is the stack of collections being read, each with how its reader takes it:
`visit`, `skip` (`IgnoredAny`), `raw` (handed over as a built node, and passed by
the cursor) or `tuple` (two items and no more). An action is one event, or an alias
replaced by its copy (`ResolveAlias`). `Walk`, `LookForMerge` and `LookForDuplicates`
are the look-ahead walks, which resolve aliases against the anchors known so far
without moving the cursor. `status` is how far the reading has come and `reason` why it was
refused. A replay on the stack is a `Frame` over the events recorded for its anchor, and is
left with its last event. `passed` is a history of what visitors got; `Meaning` is the
document with its aliases replaced, defined on the document alone.

**Decode.** A tree is held in seven ways: `input` (a parsed node and its text), `node_ref`,
`node`, `value_ref`, `value`, `events` and `prepared` (a node built from events). A method
of a deserializer (`deserialize_i64`, `deserialize_seq`, ...) maps a tree to one call of the
visitor with the parts it hands over, each a deserializer with the segment it adds
to the path of an error. `TreeReaders` translates the copies method by method, so
that each says itself when it merges, which tags it takes off and which nulls it reads as
empty collections. `Visitors` is serde's side: targets from scalars to enums with every
kind of content, `Option`, newtypes, structs, maps, `Value` and `Node`. An action
is one of the nine ways to read a document. Numbers are a sign and the narrowest width
that holds them.

**Serialize.** A datum is the tree of calls its `Serialize` makes, down to
`serialize_key` and `serialize_value` in any order and number. `AsValue`,
`AsNested`, `AsRoot`, `AsDocument` and `AsKey` are the five serializers; they make a
`Value` or fail. Reading back uses `Visitors`. `WriteDocument` sends documents to one writer, which
may take any part of the output and then fail (`FailToWrite`, `Remnants`).

**Emitter, NodeGrammar.** A string is a sequence of lines, a line its leading spaces and a
word. The words are examples, one or two of each thing a word may look like: a
number, a null, a comment, an indicator, a document marker, a mapping, a merge key, text that
cannot be printed. `Emitted` gives lines of tokens for every `EmitOptions`;
`Document` is the parser's reading of such lines, with block scalars, explicit keys, tags, flow
collections and nesting counted as the parser counts it, keys compared by `Identity`, and merge
keys applied to what was read (`Expanded`), by either policy. `EmitRoundTrip` composes them.

## 4. The runs

| Run | Instance | Checks |
|---|---|---|
| `document_stream` | 4 lines, `YamlVersionDirective` schema | the five properties of `DocumentStream`, liveness and refinement included |
| `anchors` | 2 names (symmetric), 8 tokens, budget 3, depth limit 2, `Extra` 1 | the seven invariants of `Anchors` |
| `merge_keys` | 2 keys (symmetric) and `<<`, 1 slot, merge depth 2, 4 mappings, 4 entries, graphs of 3 mappings | the four invariants of `MergeKeys` and `ValueMerge`, and `RemembersFirst` |
| `splice` | source of 4 bytes with a character of 2, texts of length 0 and 2, 3 calls | the three invariants of `Splice` |
| `config_editor` | 6 documents, 3 values, 2 new keys, 2 edits | the three properties of `ConfigEditor` |
| `flow_edit` | 18 sources, 5 fragments, 4 entries, paths of 2 segments, batches of 2 calls | `FlowEditsExact` |
| `event_replay` | about 200 documents of up to two anchors, budget 12, depth limit 3 | the three invariants of `EventReplay` and `WorkRunsOut` |
| `decode` | 125 documents, 44 targets, 9 ways | the five properties of `MCDecode` |
| `serialize` | what the same documents read as 46 targets, plus documents and mappings by hand; 3 writes | the five properties of `MCSerialize` |
| `emitter` | 60 leaves and 17 mappings with merge keys or keys that are alike in some 100 places each, lists around the limit, 8 sets of options, depth limit 16 for both | `EmittedReadsBack`, `RefusedUnreadable` |
| `config_editor_indentless`, `config_editor_missing` | one document each | `EditsExact` and `MissingIsRefused`, violated |

What the properties say:

- `DocumentsApart`: the schema, tag handles and merge flag a document is read with are
  its own, although the parser has read on by the time the flag is asked for and although
  directives are read before the document they belong to. `NothingDropped`: every
  marker and every content line belongs to exactly one document. `WindowExact`: what the
  buffer retains is the input from `base` on, and nothing at or behind `pos` has been
  reclaimed. `EventsFollowProtocol`: refinement of `EventProtocol`. `Terminates`: a
  client that keeps calling `next` reaches the end.
- `LastDeclarationWins`: no alias means an earlier anchor of its name, even when
  the later one is nested in the earlier one's node and finishes first.
  `InProgressExactlyWhileOpen`: recursion is refused exactly. `AliasKeepsTag`:
  a copy is the node as it stands in the tree, whichever of tag and anchor came
  first (for nodes whose properties are in one call). `ExpansionWithinBudget`:
  what is charged is exactly what aliases added to the tree. `WithinDepth`: no
  node without a loose part is deeper than the limit, copies included.
  `MetaBelongsToNode`: a recorded anchor is never left for another event.
- `MergePrecedence`, `RefusedExactly`: loading gives each key the value of its
  nearest binding and refuses exactly the payloads that are no mappings, and the
  chains that are too long. `PathsAgree`: owned and borrowed deserializers agree
  entry for entry, order included, and stop at the same depth. `ViewMatchesLoad`: the
  lossless view shows what the strict loader makes. `RemembersFirst`: every
  report of a repeated key is refused, with the position of the first occurrence, and every
  other one accepted, whenever the array spilled.
- `BatchRefusedExactly`: a batch is refused for its spans exactly when two of
  them share a byte or one inserts inside another, whatever the order of the
  calls, and never for splitting a character. `UntouchedSourceKept`: the output is the source with
  each replaced span exchanged, no byte lost or repeated. `CallOrderKept`:
  insertions at one offset keep the order of the calls.
- `PlainEditsExact`: on the layouts `PlainLayout` names, an
  accepted edit yields the document asked for; no edit is accepted by a path over a
  key that its mapping has twice, also when an earlier edit repeated it, and no other is
  refused except for a value that would need more indentation. An insert or rename may repeat a key. `SourceParses`: the
  working source always parses, with spans of children in order inside their
  parent's. `CommentsKept`: for every layout, comments that are not on a replaced
  line stay, in order.
- `FlowEditsExact`: a batch that `finish` accepts has done what its calls asked for, each
  with respect to the source before any of them; one call alone is refused only when
  it takes an anchor from an alias. On plain layouts, which section 7 explains.
- `DeliveredIsExpansion`: whatever mixture of visiting, ignoring and handing over reads a
  document, visitors get the document with its aliases replaced, every event once.
  `AcceptsExactly`: it is refused for a cycle, the budget, depth, a repeated key or a bad
  merge, and for nothing else, although some of these are looked for ahead of the cursor.
  `ReplayWithinBudget`: events taken from copies stay within the budget however
  aliases nest. `WorkRunsOut`: every step uses up a measure of work, so reading ends.
- `CopiesAgree`: the ways to read one parsed text give the same value or the same
  error with the same path, and expanding merges early or late makes no difference.
  `NodesAndValuesAgree`: a node and its value read alike, and as a `Value` nothing
  is lost. `EventsAgree`: reading from events gives what reading the tree gives.
  `TagsTransparent`: a custom tag changes nothing for a typed target. `ErrorPathResolves`: the
  path of an error leads to a part that cannot be read as the target it has there.
- `RoundTrips`: what was read, written and read again is what was read, by way
  of a value and of text, with enums as tags or as mappings. `RepresentationUniform`: what is
  written as mappings is what is written as tags, exchanged everywhere.
  `SerializersAgree`: the five give the same. `MappingAsCalled`: a map has the
  entries it was given whatever its announced length, and a wrong sequence of calls
  fails. `WrittenDocumentsApart`: reading the stream finds the documents whose
  writing was reported, each by itself, unless a failed write has left something behind.
- `EmittedReadsBack`: what is written parses as the tree it was written from, in every place
  and style. `RefusedUnreadable`: a tree that is refused, for
  its depth, a key twice, two tags or a merge key, would not have read back, with one exception
  that is stated exactly: the emitter refuses every `<<`, the loader keeps those inside keys and,
  with the YAML 1.1 schema, those whose payload cannot be merged; a tree with no other fault
  than these would read back.

Why the bounds are enough. *document_stream*: four lines allow a directive, a
start, content or a null document, and a line of a second document; every
state of `DocumentParseState` is entered and left. *anchors*: eight tokens allow
`&a [&a x, *a]`, a tag between two anchors, a second document and an alias of an
alias; budget 3 and limit 2 are both reached and both overrun. *merge_keys*: with
one slot the array spills at the second key; four mappings allow a list of two
payloads, one of which merges a third; merge depth 2 is reached and overrun. It
is even, as the 128 of the code is: `Value::apply_merge` splices every other link
and charges two for it, and the deserializers would stop at different depths at an
odd limit. *splice*: three calls allow an insertion at either end of a span between two
others; the theorems say the same of any number.
*config_editor*: two edits let the editor work on its own output, and the
documents contain every layout that the code treats in its own branch: comments
on lines of their own and behind values, missing values, compact mappings, nested
compact sequences, indentless sequences, scalars of two lines, collections of one
entry, and keys that are repeated, or become so in the first edit. *flow_edit*: two calls meet at a comma, at an empty collection, at one node or
one inside the other; the sources have every property, a trailing comma, missing
values and implicit pairs. *event_replay*: two anchors give an alias inside a copy
and a cycle; the documents cost from 0 to more than 12 replayed events and are up to five
collections deep; `MaxWalk` is more than the events of any document and the
budget together, so no look-ahead is cut short. *decode*, *serialize*: every kind of tree meets every
kind of target at two levels, which is where a copy treats a tag, a merge or a null
itself and then passes on the part. *emitter*: a leaf two places deep meets every
pair of contexts (item, key, value, tag; first, last, only; block and flow). The limit of 16
stands for 128 on both sides: no other tree comes near it, and chains of lists are as deep as
it allows, and deeper.
`CHECK_DEADLOCK FALSE` is set where an input is bounded and then over; elsewhere an
explicit step says that all is done, and deadlock is checked.

Readings chosen in `MergeKeys`: only the last mapping of a document may be
empty. A *caller-built* tree has no spans. `from_value` applies the merge twice,
`Value::deserialize` once. In YAML 1.1 mode of several `<<` the last wins and in the
view the first, which is why `ViewMatchesLoad` speaks of strict documents, where a
second `<<` is a duplicate. A list of no mappings is not among the payloads (it merges
nothing, though it counts as a merge for the depth). A literal `<<` that YAML 1.1 merging inherits is outside
`MergePrecedence`. Lists in lists, the limit on collection items, and tagged
payloads other than a tagged `{}` are left out.

Some configurations are no runs, but show a disagreement that a guard of a property
leaves aside: `MCDecodeBorrowed`, `MCEventReplayRebound`, `MCSerializeOption`,
`MCEmitterDepth`, `MCEmitterSort`. TLC finds the property of each violated (section 7).

## 5. Fairness

Only `document_stream` checks liveness, under `WF_vars(Next)`. The library is
sequential: once `next` is called the loop runs without waiting for anything but
the input, which is finite, and a client that wants the end keeps calling `next`. So
weak fairness of the whole step is what a running program gives. It says nothing of
the choice between actions: which line comes next and what `parse_node`
answers stays open.

`event_replay` shows that reading ends without fairness: `WorkRunsOut` is an action
property that says every step takes away from `WorkLeft`, a natural number. That is
the stronger statement, since it bounds the steps too.

## 6. The proofs

Assumptions are those the modules name: `AnchorsAssumption` (limits are natural
numbers, `NoName` is no name), `DuplicateKeysAssumption` (likewise),
`SpliceAssumption` (the ends of the source are boundaries), `MergeKeysAssumption` (`<<` is a
key, limits are natural numbers), and `EventReplayAssumption` and
`StreamsAssumption` (limits are natural numbers; in a recorded document every node ends). The
theorems hold for any set of names or keys, any limits, any number of slots and any
length of input.

- `TypeCorrect`. Besides types it says that an entry of the registry holds a node
  exactly when it is complete, which every later proof needs of `resolve`.
- `RecursionExact` (`InProgressExactlyWhileOpen`). Not inductive alone: a return
  must know that the frame it pops is the only one with its generation, and that
  its entry is still that generation or was overtaken by a later one.
  `AnchorsInv` adds: frames have distinct generations (`OpenDistinct`), each is
  the entry of its name or older (`OpenKnown`), a frame that defers its finish is
  directly above a tag (`DeferredUnderTag`), a deferred anchor waits only under a
  tag (`PendingUnderTag`), and nothing is open between documents. The two returns
  that finish an anchor have lemmas of their own (`ReturnAnchorKeepsOpenInv`,
  `ReturnTagKeepsOpenInv`); all other steps leave the anchor frames alone
  (`OpenInvKept`).
- `LatestAnchorWins` (`LastDeclarationWins`) is inductive with the types: `finish`
  never changes the generation of an entry (`FinishKeepsGenerations`).
- `MetaNeverLeftOver` (`MetaBelongsToNode`), inductive with the types.
- `DepthLimited` (`WithinDepth`). `DepthInv` adds that in every open frame the
  level of the tree is at most the depth argument that is passed on, that a pair is
  loose, and that what a collection has accumulated stays within the limit.
- `TrackerTypeCorrect`, `TrackerImplementsSeenKeys` (`RemembersFirst`). `TrackerInv`
  says that the array holds no key twice and is empty once spilled. With it each
  step of the tracker is a step of `SeenKeys`: an insertion into the array, the move
  to the hash map together with the insertion that causes it, and an insertion into
  the map.

- `SpliceTypeCorrect`, `RefusedExactlyOnConflict`, `SourceKept`,
  `InsertionsInCallOrder`. `SpliceInv` says that the replacements are the calls
  rearranged (`Rearranged`), that they are sorted once `finish` runs (`Sorted`), that those
  already validated are apart (`ApartUpTo`), where the cursor is (`Advanced`), and what has
  been put out (`PutOutUpTo`). The crux is `StartsBeforeCursor`: the code compares
  neighbours only, and a replacement that starts before the end of its neighbour
  conflicts with it only because equal starts are sorted by their ends.

- `WindowAlwaysExact` (`WindowExact`). A reclaimed line is gone for good, so the proof must
  know where every line that is still wanted stands. `WindowInv` adds to the types what
  `Windowed` says (nothing reclaimed has been asked for; when a document is over, the base is
  the position; what has been read ahead is blank but for its last line) and what `Ordered`
  says of who is finished first, the scanner or its client.
- `EventStreamFollowsProtocol` (`EventsFollowProtocol`) is a refinement: the phase of
  `EventProtocol` is read off the events yielded so far. What the client has been told is
  those, then its pending items, then what the recorder holds: `ToldInv` says that they
  follow each other as the protocol allows (`Follows`), that where the parser stands decides
  which of them was last (`ToldAsFar`: the end of a document whose node is complete is
  still owed), and that an error waits only where one may follow. With it each step of the
  parser and the iterator is a step of the protocol or none at all.
- `DocumentsStayApart` (`DocumentsApart`) and `NothingEverDropped` (`NothingDropped`), from
  one invariant, `ScopeInv`, on top of `ToldInv`. `Declared`: the pending directives are those
  of the lines since the last marker, and every start, told or still owed, has its own.
  `Merged`: the merge flag is down between documents and up exactly when the document being
  parsed has had a merge key. `Reached`: each line behind the position has gone somewhere, a
  directive to a marker or to the pending ones, a marker to the start it opens, and in their
  order. A start that is told now was read a document ago, which is why the properties
  are not inductive: they speak of what has been yielded only.
- `TagsKept` (`AliasKeepsTag`). `CopiesInv` adds that the generations of the nodes placed, of
  the node in hand and of the open anchors are apart (`GensApart`), that the registry holds the
  node in hand as it is (`ValueCopied`), and that no tag that would change it is still to
  come (`TagOutside`, `UndeferredUnderTag`): that is what deferring the finish achieves, and
  what fails where the node went on in another call.
- `ChargedExactly` (`ExpansionWithinBudget`). The property sums over the open frames, so the
  proof needs how such a sum changes when a frame is pushed, popped or changed at the top:
  `SumTheorems`. `SizeInv` adds that a property that is waiting for its node counts none
  (`AnchorsAddNothing`): else its return would add a node that no budget was charged for.
- `NodesAlwaysAgree`, `MergesFollowPrecedence` (`MergePrecedence`) and `RefusesExactly`
  (`RefusedExactly`), for documents with any number of mappings, entries and keys and for any
  `MaxMergeDepth`. What is inductive is `MergeInv`, proved as `MergeInvariant`: references stay
  inside the document and, unless it is a lossless graph, go back (`DocumentInv`); no key that
  was checked is in a mapping twice (`UniqueInv`), because the tracker knows those of the
  mapping being parsed (`TrackedInv`, on top of `TrackerInv`); without the merge flag there is
  no merge key (`FlagInv`), so that passing over the document changes nothing; and what was read is what
  the operators make of it (`ReadInv`). The rest is about the operators. `Expanded`, `Origin`
  and `Longest` are recursive functions over earlier mappings, and exist because a table
  up to one mapping extends to the next (`TablesExist`, `OriginsExist`, `LengthsExist`). Owned
  and borrowed nodes have one table because inserting a payload item by item and inserting it
  expanded are the same (`InsertMissingAssociates`, `StrictIsBorrowed`). For precedence each
  loop is said key by key: inserting takes a key from the first payload that has it
  (`AddAllMissingAt`), replacing from the last (`AddAllUpsertAt`). For refusal, a mapping
  expands at a depth exactly when its longest chain still fits (`StrictDeep`, `StrictShallow`,
  `Yaml11Deep`, `Yaml11Shallow`); the policies differ because YAML 1.1 charges no literal.
- `ViewAlwaysMatches` (`ViewMatchesLoad`), from `MergeInv` too. What the view makes of a mapping
  depends on the mappings on the stack, and in a lossless graph references go anywhere, so the
  induction is on the number of mappings that are not on the stack (`Free`, `ViewsExist`). A
  strict document: loading inserts what is missing of each payload, already expanded, where the
  view puts the payloads one behind the other, unexpanded, and leaves out repeated keys once, at
  the end; the two come to the same because inserting what is shown of some entries is inserting
  the entries (`InsertShown`, `ShownTogether`), hence for every mapping (`ViewsMatch`). A graph:
  what chains of merges lead to is the least closed set (`ReachedLeast`: a round that adds
  nothing is the last, and there are as many rounds as mappings); a mapping that is on the
  stack and one that merges itself stop a view in the same way, so taking one more mapping onto
  the stack changes nothing about which views are refused (`HitIs`, `ViewedFails`), and by
  induction a view is refused exactly where the stack, a cycle or a scalar is reached (`ViewsHit`).
- `CursorTypeCorrect`, `StacksStaySane` (`StackSane`), `ReplaysBounded`
  (`ReplayWithinBudget`) and `ReadingRunsOut` (`WorkRunsOut`). `ReplayInv` adds to the
  types and the sane stack that nothing has happened before the document is entered, and
  that what was taken from copies and what they still hold has been charged
  (`ReplaysCharged`). The budget alone is not inductive: between the charge and the
  reading the events are on the stack, and `Total` counts them there. Every step is one of
  seven (`Steps`); those that take an event leave one less (`TakingStep`), the others as many
  as there were (`OtherStep`). The measure weighs an event three times, because taking it may
  open a collection and let its reader ask for a key again. `StreamsAssumption` says that
  every node of a recorded document ends, which the parser gives by ending every collection it
  began.

Induction. The prover has no induction over data, but a set of natural numbers that is not
empty has a least element (`WFMin` of the library): `SumTheorems` argues from the
least number at which two sums differ, and shows that a recursive function over the natural
numbers exists and is unique. That is enough for `TreeSize` and `HeldUpTo`, and for the loops and
tables of `MergeKeys`, which are recursive functions; it does not carry over to recursion over
trees.

Only model-checked: `Terminates` of `DocumentStream` (liveness is out of the prover's reach,
as is `ENABLED`), and of `EventReplay` what is delivered and what is refused
(`DeliveredIsExpansion`, `AcceptsExactly`), which are said of recursion over the document.
Of merging, what `PathsAgree` says of values: `Value::apply_merge` is a recursion over trees. The editor, edits of flow collections, decoding, serializing and emitting are
recursions over trees throughout, with `RECURSIVE` operators, which the prover does not
take. `SpliceTypeCorrect`, `CursorTypeCorrect`, `StacksStaySane`, `MergeInvariant` and
`NodesAlwaysAgree` (a conjunct of `PathsAgree`) state invariants that no
run lists, because the theorems after them are what they are for.

## 7. Where the code and its documents disagree

Each of these is a run that TLC finds violated; `PROJECT.json` quotes the lines.

1. `config_editor_indentless`: `set` of a mapping on a key whose value is an
   indentless sequence writes siblings of the key and leaves the key null.
2. `config_editor_missing`: `remove` of an absent key or index from a collection of
   one entry empties it.

These are shown by a configuration of section 4, or by putting the property in place of
the properties of the component's configuration:

3. `MalformedNeverYielded` (`MCDocumentStream.cfg`): content behind a blank line after a
   root node is not seen by the trailing-content check (parse.rs:1646) and becomes a second
   document.
4. `DuplicateAnchorRejected`, `TaggedAnchorsPreserved`, `ConstructedDepthLimited`
   (`MCAnchors.cfg`): two anchors on one node are accepted in flow collections and where
   the node continues on the next line (parse.rs:5733); `- !t` with `&a x` on the next line
   registers the untagged node (parse.rs:3098); flow keys, implicit pairs and flow
   properties without a node are not counted, so a document can be deeper than the limit
   (parse.rs:5859).
5. `OwnedValueExpands` (`ValueMerge`, with `MCMergeKeys.cfg`): `Value::deserialize` leaves a nested `<<`,
   `from_value` does not (ast.rs:2742).
6. `NeighboursKept` (`MCFlowEdit.cfg`): spans begin behind tags and anchors.
   Deleting the item of `[!t a]` leaves `[!t ]`; deleting the first of `[a, !t b]` drops
   the tag of `b`; deleting the first of `[&x a, b, *x]` gives its anchor to `b`. The
   documentation of both deletions (lossless.rs:1532, 1830) says that unrelated source bytes
   are preserved.
7. `NeverMisaligned` (`MCEventReplay.cfg`): a tuple leaves the end event of its sequence
   unread (event_de/serde_impl.rs:297), so that tuples cannot be read from events.
   Event-backed reading is not public API except as `__unstable_event_serde`.
8. `MCEventReplayRebound`: when an anchor's name is declared again, an alias inside an
   event sequence replayed later means the new node.
9. `BorrowedNodesMatchValues` (`MCDecodeBorrowed`): merging a borrowed node compares keys
   with their spans (de.rs:597), so an overridden key is read twice.
10. `OptionalEnumsRoundTrip` (`MCSerializeOption`): `Option` targets take off tags, and
    with it the variant of an enum (docs/cookbook.md:92).
11. `DeepReadsBack` (`MCEmitterDepth`): the emitter counts a mapping as one level, the
    parser as two, so that more than 64 nested mappings are written and not read
    (emit.rs:30). So it is with a tagged block string at the limit, whose tag counts twice.
12. `KeysSorted` (`MCEmitterSort`): a mapping behind a dash is written unsorted
    (emit.rs:350, against emit.rs:56).

Guards of properties name the layouts and targets left aside for such reasons. For
the editor: an item below a lone dash, items of nested compact sequences, and a mapping
set on a key behind a dash (`PlainLayout`). For flow collections (`Plainly`): a property
where a splice begins or ends; the only entry with a comma or a question mark beside
it (`[a,]` cannot be emptied, `{? a : b}` becomes `{? }`); a value that is not written
(`{a}`, `{a:}`), which runs together with its key; a fragment that flow collections read
otherwise than blocks do; and, in one batch, two texts where nothing is written (`[]` with
`n` and `m` becomes `[nm]`). For decoding: a merge key inside a key that is a collection, which
`from_str` leaves and other ways expand; paths of errors inside enums, complex keys and
YAML 1.1 collections, which lack a segment; and what events are known to
read differently (`Respelt`, `EventsRefuse`): nulls and booleans lose their spelling, binary and
empty nulls as collections are refused. Documents have no 128-bit methods. For the
emitter: byte-compatible mode leaves plain what the library it imitates does (`LeftPlain`).

## 8. What is not modelled

- The text level: quoted and plain scalars of several lines, escapes, tabs, compact
  collections behind a dash or a question mark within explicit keys, number and boolean
  syntax, the spelling of tags. These are functions of text without a protocol of their
  own. The words of `Tokens` stand for what they distinguish.
- How the identities of numbers and floats are computed.
- In the editor: edits of the root, the document index, a last line without a newline,
  flow collections, and the file, which is read once and written once without a check of
  what it holds by then.
- Batches of several block edits in one `LosslessEdit` (`Splice` shows where their
  texts go, `ConfigEditor` what one means); comments and line ends in flow collections; the
  trivia, documents and lists of anchors of the lossless tree.
- Messages, spans and rendering of errors; setters of options; accessors and iterators of
  the AST.
- Tests, fuzz targets, scripts and examples; they were read for what they say of the
  library.

## 9. The plan

Done, in this order: `DocumentStream` with `EventProtocol`; `Anchors` and its
proofs; `SeenKeys`, `DuplicateKeys` and its proofs; `MergeKeys`; `BlockParse` and
`ConfigEditor`; `Splice` and its proofs; `EventReplay`; decoding; serializing; the emitter
and the node grammar; `FlowEdit`; the proofs about `DocumentStream`, the rest of `Anchors`,
`EventReplay` and `MergeKeys`. Next:

1. Batches of block edits, as `FlowEdit` has them for flow collections.
2. The document index and the file of `ConfigEditor`.
3. Scalars of several lines in `NodeGrammar`, against what the emitter never writes.
