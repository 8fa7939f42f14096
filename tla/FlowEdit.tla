------------------------------- MODULE FlowEdit -------------------------------
(***************************************************************************)
(* Edits of flow collections by LosslessEdit.  A call takes its offsets    *)
(* from the parse of the retained source, which no call of the batch       *)
(* changes; finish sorts the replacements, splices them and parses the     *)
(* result.  Spans are those of nodes, which begin behind the tag and the   *)
(* anchor of a node: what a splice leaves behind or takes along is         *)
(* therefore not obvious from the tree, and Meant says what it ought to    *)
(* be.                                                                     *)
(*                                                                         *)
(* A source is a sequence of tokens with blanks between them; TightColon   *)
(* is a colon with no blank behind it.  An offset is the number of tokens  *)
(* in front of it.                                                         *)
(***************************************************************************)
EXTENDS Integers, Sequences, FiniteSets, SequencesExt

CONSTANTS
  Sources,    \* flow collections an edit may start from
  Fragments,  \* what is inserted into sequences and put in place of nodes
  Entries,    \* what is inserted into mappings
  NewWords,   \* keys asked for besides those of the source
  Depth,      \* how long a path may be
  MaxCalls    \* calls of one batch

VARIABLES
  source,        \* the source the stream retains
  replacements,  \* LosslessEdit::replacements
  calls,         \* history: the calls that made them
  output         \* what finish returned

vars == <<source, replacements, calls, output>>

-----------------------------------------------------------------------------
(* Tokens.                                                                 *)

TightColon == "colon"
Colons  == {":", TightColon}
Tags    == {"!t", "!u"}
Anchors == {"&x"}
Aliases == {"*x"}
AnchorOf(alias) == "&x"

Properties == Tags \union Anchors
Ends       == {",", "]", "}"}

At(ts, p) == IF p < Len(ts) THEN ts[p + 1] ELSE "end"

(* colon_is_mapping_value_indicator                                        *)
IsColon(ts, p) ==
  \/ At(ts, p) = ":"
  \/ /\ At(ts, p) = TightColon
     /\ \/ At(ts, p + 1) \in Ends \union {"end"}
        \/ (p > 0 /\ At(ts, p - 1) \in {"]", "}"})

(* A node of the lossless tree.  The entries of a mapping are its kids in  *)
(* pairs.                                                                  *)
Node(kind, text, from, to, kids) ==
  [kind |-> kind, text |-> text, props |-> {}, from |-> from, to |-> to, kids |-> kids]
Null(from, to) == Node("scalar", <<>>, from, to, <<>>)

Read(node, at) == [ok |-> TRUE, node |-> node, at |-> at]
Refused == [ok |-> FALSE, node |-> Null(0, 0), at |-> 0]

(* A property in front of a node; of two tags the recorder keeps the inner *)
(* one.                                                                    *)
Marked(r, prop) ==
  IF r.ok /\ ~(prop \in Tags /\ r.node.props \intersect Tags # {})
    THEN [r EXCEPT !.node.props = @ \union {prop}] ELSE r

-----------------------------------------------------------------------------
(* FlowParser, and the spans Builder keeps of its events.                  *)

RECURSIVE ParseValue(_, _), ParseKey(_, _), SequenceItems(_, _, _, _),
          MappingEntries(_, _, _, _)

(* Where the plain scalar that begins at p ends.                           *)
RECURSIVE PlainEnd(_, _, _)
PlainEnd(ts, p, isKey) ==
  IF At(ts, p) \in Ends \union {"end"} \/ (isKey /\ IsColon(ts, p)) THEN p
  ELSE PlainEnd(ts, p + 1, isKey)

Plain(ts, p, end) ==
  IF \E q \in p..(end - 1) : IsColon(ts, q) THEN Refused
  ELSE Read(Node("scalar", SubSeq(ts, p + 1, end), p, end, <<>>), end)

(* parse_alias_value and parse_alias_key, while events are recorded        *)
Alias(ts, p) ==
  IF \E q \in 0..(p - 1) : At(ts, q) = AnchorOf(At(ts, p))
    THEN Read(Node("alias", <<At(ts, p)>>, p, p + 1, <<>>), p + 1)
    ELSE Refused

(* parse_anchor_value, parse_tag_value and their forms for keys: a null    *)
(* that is nothing but its properties has the span of the last of them.    *)
Behind(ts, p, isKey) ==
  IF At(ts, p + 1) \in Aliases THEN Refused
  ELSE IF \/ isKey /\ At(ts, p + 1) \in {",", "}", "end"}
          \/ isKey /\ IsColon(ts, p + 1)
          \/ ~isKey /\ At(ts, p + 1) \in Ends \union {"end"}
    THEN Read(Null(p, p + 1), p + 1)
  ELSE IF isKey THEN ParseKey(ts, p + 1) ELSE ParseValue(ts, p + 1)

Collection(ts, p) ==
  IF At(ts, p) = "[" THEN SequenceItems(ts, p, p + 1, <<>>) ELSE MappingEntries(ts, p, p + 1, <<>>)

ParseValue(ts, p) ==
  CASE At(ts, p) \in {"[", "{"}  -> Collection(ts, p)
    [] At(ts, p) \in Properties  -> Marked(Behind(ts, p, FALSE), At(ts, p))
    [] At(ts, p) \in Aliases     -> Alias(ts, p)
    [] At(ts, p) = "end"         -> Refused
    [] OTHER                     -> Plain(ts, p, PlainEnd(ts, p, FALSE))

ParseKey(ts, p) ==
  CASE At(ts, p) \in {"[", "{"}  -> Collection(ts, p)
    [] At(ts, p) \in Properties  -> Marked(Behind(ts, p, TRUE), At(ts, p))
    [] At(ts, p) \in Aliases     -> Alias(ts, p)
    [] At(ts, p) = "end"         -> Refused
    [] OTHER                     -> Plain(ts, p, PlainEnd(ts, p, TRUE))

ParseValueOrNull(ts, p) == IF At(ts, p) \in Ends THEN Read(Null(p, p), p) ELSE ParseValue(ts, p)

(* parse_flow_mapping_entry, and the pairs of sequences: a key, and a      *)
(* value where a colon is.                                                 *)
ValueBehind(ts, p, ends) ==
  IF At(ts, p) \in Colons THEN ParseValueOrNull(ts, p + 1)
  ELSE IF At(ts, p) \in ends THEN Read(Null(p, p), p)
  ELSE Refused

PairOf(key, value) == [ok |-> value.ok, at |-> value.at, pair |-> <<key.node, value.node>>]
Pair(ts, key, ends) == PairOf(key, IF key.ok THEN ValueBehind(ts, key.at, ends) ELSE Refused)

Entry(ts, p) == Pair(ts, ParseKey(ts, IF At(ts, p) = "?" THEN p + 1 ELSE p), {",", "}"})

(* flow_sequence_mapping_col: the colon that makes a pair of an item       *)
RECURSIVE PairColon(_, _, _)
PairColon(ts, p, level) ==
  CASE At(ts, p) = "end"                  -> FALSE
    [] level = 0 /\ At(ts, p) \in {",", "]"} -> FALSE
    [] level = 0 /\ IsColon(ts, p)        -> TRUE
    [] At(ts, p) \in {"[", "{"}           -> PairColon(ts, p + 1, level + 1)
    [] level > 0 /\ At(ts, p) \in {"]", "}"} -> PairColon(ts, p + 1, level - 1)
    [] OTHER                              -> PairColon(ts, p + 1, level)

(* A pair is a mapping from where the item begins to where its value ends. *)
PairItem(from, r) ==
  IF r.ok THEN Read(Node("mapping", <<>>, from, r.pair[2].to, r.pair), r.at) ELSE Refused

NullKey(p) == Read(Null(p, p), p)
Item(ts, p) ==
  IF At(ts, p) = "?"
    THEN PairItem(p, Pair(ts, IF At(ts, p + 1) \in Colons \union {",", "]"} THEN NullKey(p + 1)
                              ELSE ParseKey(ts, p + 1), {",", "]"}))
  ELSE IF PairColon(ts, p, 0)
    THEN PairItem(p, Pair(ts, IF IsColon(ts, p) THEN NullKey(p) ELSE ParseKey(ts, p), {}))
  ELSE ParseValue(ts, p)

(* The loops of parse_sequence and parse_mapping, behind an item and in    *)
(* front of one.                                                           *)
BehindItem(ts, from, kids, r) ==
  IF ~r.ok THEN Refused
  ELSE IF At(ts, r.at) = "," THEN SequenceItems(ts, from, r.at + 1, Append(kids, r.node))
  ELSE IF At(ts, r.at) = "]"
    THEN Read(Node("sequence", <<>>, from, r.at + 1, Append(kids, r.node)), r.at + 1)
  ELSE Refused

SequenceItems(ts, from, p, kids) ==
  IF At(ts, p) = "]" THEN Read(Node("sequence", <<>>, from, p + 1, kids), p + 1)
  ELSE IF At(ts, p) \in {",", "end"} THEN Refused
  ELSE BehindItem(ts, from, kids, Item(ts, p))

BehindEntry(ts, from, kids, r) ==
  IF ~r.ok THEN Refused
  ELSE IF At(ts, r.at) = "," THEN MappingEntries(ts, from, r.at + 1, kids \o r.pair)
  ELSE IF At(ts, r.at) = "}" THEN Read(Node("mapping", <<>>, from, r.at + 1, kids \o r.pair), r.at + 1)
  ELSE Refused

MappingEntries(ts, from, p, kids) ==
  IF At(ts, p) = "}" THEN Read(Node("mapping", <<>>, from, p + 1, kids), p + 1)
  ELSE IF At(ts, p) \in {",", "end"} THEN Refused
  ELSE BehindEntry(ts, from, kids, Entry(ts, p))

(* FlowParser::parse: nothing may stand behind the value.                  *)
Whole(ts, r) == IF r.ok /\ r.at = Len(ts) THEN r ELSE Refused
Parsed(ts) == Whole(ts, ParseValue(ts, 0))


-----------------------------------------------------------------------------
(* Paths (resolve_path): a step into an alias or to a key that is there    *)
(* twice is refused.                                                       *)

KeyOf(n, i)   == n.kids[2 * i - 1]
ValueOf(n, i) == n.kids[2 * i]
Size(n) == IF n.kind = "mapping" THEN Len(n.kids) \div 2 ELSE Len(n.kids)

Key(text) == [key |-> text]
Index(i)  == [index |-> i]

(* unique_mapping_entry_index_by_key, over scalar keys                     *)
Matches(n, text) ==
  {i \in 1..Size(n) : n.kind = "mapping" /\ KeyOf(n, i).kind = "scalar" /\ KeyOf(n, i).text = text}

Unresolved == Node("nothing", <<>>, 0, 0, <<>>)

(* resolve_path_segment                                                    *)
Step(n, segment) ==
  IF segment \in {Key(KeyOf(n, i).text) : i \in {j \in 1..Size(n) : n.kind = "mapping"}}
    THEN IF Cardinality(Matches(n, segment.key)) = 1
           THEN ValueOf(n, CHOOSE i \in Matches(n, segment.key) : TRUE) ELSE Unresolved
  ELSE IF n.kind = "sequence" /\ segment \in {Index(i) : i \in 1..Size(n)} THEN n.kids[segment.index]
  ELSE Unresolved

ResolvePath(root, path) == FoldLeft(Step, root, path)

(* The keys a caller may ask for: those of the source and others.          *)
Words == NewWords \union {<<source[p]>> : p \in {q \in DOMAIN source : source[q] \in {"a", "b"}}}
Segments == {Key(w) : w \in Words} \union {Index(i) : i \in 1..3}
Paths == UNION {[1..n -> Segments] : n \in 0..Depth}

-----------------------------------------------------------------------------
(* What a fragment is to the caller and to the fragment check: a document  *)
(* of its own, in block context, where commas and brackets do not end a    *)
(* scalar.                                                                 *)

FirstColon(ts) ==
  LET colons == {p \in DOMAIN ts : IsColon(ts, p - 1)}
  IN IF colons = {} THEN 0 ELSE CHOOSE p \in colons : \A q \in colons : p <= q

Scalar(ts) == Node("scalar", ts, 0, 0, <<>>)

(* single_fragment_root_with_options                                       *)
RECURSIVE FragmentRoot(_)
FragmentRoot(ts) ==
  IF ts = <<>> THEN Null(0, 0)
  ELSE IF ts[1] \in {"[", "{"} \union Properties THEN Parsed(ts).node
  ELSE IF FirstColon(ts) = 0 THEN Scalar(ts)
  ELSE Node("mapping", <<>>, 0, 0,
            <<Scalar(SubSeq(ts, 1, FirstColon(ts) - 1)), FragmentRoot(SubSeq(ts, FirstColon(ts) + 1, Len(ts)))>>)

(* ensure_single_mapping_entry_fragment                                    *)
IsEntry(ts) == FragmentRoot(ts).kind = "mapping" /\ Size(FragmentRoot(ts)) = 1

-----------------------------------------------------------------------------
(* The calls.                                                              *)

Replacement(from, to, text) == [from |-> from, to |-> to, text |-> text]

Push(call, replacement) ==
  /\ Len(calls) < MaxCalls
  /\ calls' = Append(calls, call)
  /\ replacements' = Append(replacements, replacement)
  /\ UNCHANGED <<source, output>>

Call(op, path, at, text) == [op |-> op, path |-> path, at |-> at, text |-> text]

(* Where an item or an entry is taken out: from its start to the start of  *)
(* the next one, or, for the last, from the end of the one before.  Item i *)
(* lies between first[i] and last[i].                                      *)
Deleted(first, last, i) ==
  IF Len(first) = 1 THEN Replacement(first[i], last[i], <<>>)
  ELSE IF i < Len(first) THEN Replacement(first[i], first[i + 1], <<>>)
  ELSE Replacement(last[i - 1], last[i], <<>>)

Firsts(n) == IF n.kind = "mapping" THEN [i \in 1..Size(n) |-> KeyOf(n, i).from]
             ELSE [i \in 1..Size(n) |-> n.kids[i].from]
Lasts(n)  == IF n.kind = "mapping" THEN [i \in 1..Size(n) |-> ValueOf(n, i).to]
             ELSE [i \in 1..Size(n) |-> n.kids[i].to]

(* replace_mapping_value_source: the replacement is not looked at.         *)
ReplaceMappingValue(n, path) ==
  \E word \in Words, text \in Fragments : \E i \in Matches(n, word) :
    /\ Cardinality(Matches(n, word)) = 1
    /\ Push(Call("replace", path, i, text), Replacement(ValueOf(n, i).from, ValueOf(n, i).to, text))

(* insert_flow_mapping_entry_source                                        *)
EntryInsertion(n, text) ==
  IF n.kids = <<>> THEN Replacement(n.to - 1, n.to - 1, text)
  ELSE Replacement(Last(n.kids).to, Last(n.kids).to, <<",">> \o text)

InsertFlowMappingEntry(n, path) ==
  /\ n.kind = "mapping"
  /\ \E text \in Entries :
       /\ IsEntry(text)
       /\ Push(Call("insert", path, Size(n) + 1, text), EntryInsertion(n, text))

(* delete_flow_mapping_entry_source                                        *)
EntryDeletion(n, i) == Deleted(Firsts(n), Lasts(n), i)
DeleteFlowMappingEntry(n, path) ==
  \E word \in Words : \E i \in Matches(n, word) :
    /\ Cardinality(Matches(n, word)) = 1
    /\ Push(Call("delete", path, i, <<>>), EntryDeletion(n, i))

(* replace_sequence_item_source of a flow sequence                         *)
ReplaceSequenceItem(n, path) ==
  /\ n.kind = "sequence"
  /\ \E i \in 1..Size(n), text \in Fragments :
       Push(Call("replace", path, i, text), Replacement(n.kids[i].from, n.kids[i].to, text))

(* The comma is forgotten when an item is appended.                        *)
ItemInsertionUnseparated(n, i, text) ==
  IF i > Size(n) THEN Replacement(n.to - 1, n.to - 1, text)
  ELSE Replacement(n.kids[i].from, n.kids[i].from, text \o <<",">>)

(* insert_flow_sequence_item_source                                        *)
ItemInsertion(n, i, text) ==
  IF n.kids = <<>> THEN Replacement(n.to - 1, n.to - 1, text)
  ELSE IF i > Size(n) THEN Replacement(Last(n.kids).to, Last(n.kids).to, <<",">> \o text)
  ELSE Replacement(n.kids[i].from, n.kids[i].from, text \o <<",">>)

InsertFlowSequenceItem(n, path) ==
  /\ n.kind = "sequence"
  /\ \E i \in 1..(Size(n) + 1), text \in Fragments :
       Push(Call("insert", path, i, text), ItemInsertion(n, i, text))

(* delete_flow_sequence_item_source                                        *)
ItemDeletion(n, i) == Deleted(Firsts(n), Lasts(n), i)
DeleteFlowSequenceItem(n, path) ==
  /\ n.kind = "sequence"
  /\ \E i \in 1..Size(n) : Push(Call("delete", path, i, <<>>), ItemDeletion(n, i))

-----------------------------------------------------------------------------
(* finish: the replacements in order of start, end and call; none may      *)
(* begin before the end of the one before it.                              *)

Before(i, j) ==
  \/ replacements[i].from < replacements[j].from
  \/ /\ replacements[i].from = replacements[j].from
     /\ replacements[i].to < replacements[j].to \/ (replacements[i].to = replacements[j].to /\ i < j)

InOrder == LET order == SetToSortSeq(DOMAIN replacements, Before)
           IN [i \in DOMAIN order |-> replacements[order[i]]]

Disjoint(rs) == \A i \in 1..(Len(rs) - 1) : rs[i].to <= rs[i + 1].from

Spliced(rs) ==
  FoldLeft(LAMBDA done, r : [text |-> done.text \o SubSeq(source, done.cursor + 1, r.from) \o r.text,
                            cursor |-> r.to],
           [text |-> <<>>, cursor |-> 0], rs)
Closed(done) == done.text \o SubSeq(source, done.cursor + 1, Len(source))

Validated(text) == [state |-> IF Parsed(text).ok THEN "accepted" ELSE "refused", text |-> text]

Finish ==
  /\ calls # <<>>
  /\ output' = IF Disjoint(InOrder) THEN Validated(Closed(Spliced(InOrder)))
               ELSE [state |-> "overlap", text |-> <<>>]
  /\ UNCHANGED <<source, replacements, calls>>

Init ==
  /\ source \in Sources
  /\ replacements = <<>> /\ calls = <<>>
  /\ output = [state |-> "open", text |-> <<>>]

Edit(n, path) ==
  \/ ReplaceMappingValue(n, path)
  \/ InsertFlowMappingEntry(n, path)
  \/ DeleteFlowMappingEntry(n, path)
  \/ ReplaceSequenceItem(n, path)
  \/ InsertFlowSequenceItem(n, path)
  \/ DeleteFlowSequenceItem(n, path)

Next ==
  /\ output.state = "open"
  /\ \/ \E root \in {Parsed(source).node} : \E path \in Paths : Edit(ResolvePath(root, path), path)
     \/ Finish

Spec == Init /\ [][Next]_vars

-----------------------------------------------------------------------------
(* What the calls of a batch ask for, on the tree without its spans.       *)

RECURSIVE Value(_)
Value(n) == [kind |-> n.kind, text |-> n.text, props |-> n.props,
             kids |-> [i \in DOMAIN n.kids |-> Value(n.kids[i])]]

CallsAt(op, path, i) == SelectSeq(calls, LAMBDA c : c.op = op /\ c.path = path /\ c.at = i)

Asked(c) == Value(FragmentRoot(c.text))
InsertedAt(n, path, i) ==
  FlattenSeq([j \in DOMAIN CallsAt("insert", path, i) |->
    IF n.kind = "mapping" THEN Asked(CallsAt("insert", path, i)[j]).kids
    ELSE <<Asked(CallsAt("insert", path, i)[j])>>])

(* A node that is replaced keeps the tag and the anchor in front of it.    *)
RECURSIVE Meant(_, _)
MeantAt(n, path, i, segment) ==
  IF CallsAt("replace", path, i) # <<>>
    THEN [Asked(Last(CallsAt("replace", path, i))) EXCEPT !.props = @ \union n.props]
    ELSE Meant(n, Append(path, segment))

Kept(n, path, i) ==
  IF CallsAt("delete", path, i) # <<>> THEN <<>>
  ELSE IF n.kind = "mapping"
    THEN <<Value(KeyOf(n, i)), MeantAt(ValueOf(n, i), path, i, Key(KeyOf(n, i).text))>>
    ELSE <<MeantAt(n.kids[i], path, i, Index(i))>>

Meant(n, path) ==
  [Value(n) EXCEPT !.kids =
    FlattenSeq([i \in 1..Size(n) |-> InsertedAt(n, path, i) \o Kept(n, path, i)])
      \o InsertedAt(n, path, Size(n) + 1)]

(* Layouts whose spans are all there is of a node, so that a splice is     *)
(* what it seems: no tag or anchor in front of a node where the splice     *)
(* begins or ends, no comma or question mark beside the only entry, a      *)
(* value that is written, and a fragment that flow collections read as     *)
(* blocks do.  A pair in a sequence is no mapping with braces.             *)
Braced(n) == At(source, n.from) \in {"[", "{"}

Bare(n, i) == IF n.kind = "mapping" THEN KeyOf(n, i).props = {} ELSE n.kids[i].props = {}
Alone(n) == /\ At(source, Lasts(n)[1]) # ","
            /\ At(source, Firsts(n)[1] - 1) # "?"

PlainDeletion(n, i) ==
  /\ Braced(n)
  /\ i < Size(n) => Bare(n, i) /\ Bare(n, i + 1)
  /\ Size(n) = 1 => Bare(n, i) /\ Alone(n)

ReadsAs(ts, kids) == Parsed(ts).ok /\ Value(Parsed(ts).node).kids = kids

PlainItem(n, c) ==
  /\ ReadsAs(<<"[">> \o c.text \o <<"]">>, <<Asked(c)>>)
  /\ Braced(n) /\ (c.at <= Size(n) => Bare(n, c.at))
PlainEntry(n, c) ==
  /\ ReadsAs(<<"{">> \o c.text \o <<"}">>, Asked(c).kids)
  /\ Braced(n)

Written(v) == v.kind # "scalar" \/ v.text # <<>> \/ (v.from = v.to /\ At(source, v.from - 1) = ":")
Untagged(v, c) == v.props = {} \/ (Asked(c).props = {} /\ FirstColon(c.text) = 0)
PlainValue(n, c) ==
  /\ ReadsAs(<<"{", "a", ":">> \o c.text \o <<"}">>, <<Value(Scalar(<<"a">>)), Asked(c)>>)
  /\ Written(ValueOf(n, c.at)) /\ Untagged(ValueOf(n, c.at), c)

PlainReplacement(n, c) ==
  IF n.kind = "mapping" THEN PlainValue(n, c)
  ELSE /\ ReadsAs(<<"[">> \o c.text \o <<"]">>, <<Asked(c)>>)
       /\ Written(n.kids[c.at]) /\ Untagged(n.kids[c.at], c)

PlainCall(c) ==
  LET n == ResolvePath(Parsed(source).node, c.path)
  IN CASE c.op = "delete"  -> PlainDeletion(n, c.at)
       [] c.op = "replace" -> PlainReplacement(n, c)
       [] c.op = "insert"  -> IF n.kind = "mapping" THEN PlainEntry(n, c) ELSE PlainItem(n, c)

(* Texts put at one offset meet without a comma, if one is the first of an *)
(* empty collection or takes the place of a value that is not written.     *)
Crowded(i, j) ==
  /\ {replacements[i].to, replacements[j].from, replacements[j].to} = {replacements[i].from}
  /\ \/ calls[i].op = "replace"
     \/ ResolvePath(Parsed(source).node, calls[i].path).kids = <<>>

Plainly ==
  /\ \A j \in DOMAIN calls : PlainCall(calls[j])
  /\ \A i, j \in DOMAIN calls : i # j => ~Crowded(i, j)
Wanted  == Meant(Parsed(source).node, <<>>)

(* The anchors and aliases of a value in order; each alias needs an anchor *)
(* before it.                                                              *)
RECURSIVE Marks(_)
Marks(v) == SetToSeq(v.props \intersect Anchors)
              \o (IF v.kind = "alias" THEN v.text ELSE <<>>)
              \o FlattenSeq([i \in DOMAIN v.kids |-> Marks(v.kids[i])])
AliasesKnown(marks) ==
  \A i \in DOMAIN marks : marks[i] \in Aliases => \E j \in 1..(i - 1) : marks[j] = AnchorOf(marks[i])

-----------------------------------------------------------------------------
Exact == output.state = "accepted" /\ Plainly => Value(Parsed(output.text).node) = Wanted

Accepted == output.state = "refused" /\ Len(calls) = 1 /\ Plainly => ~AliasesKnown(Marks(Wanted))

(* A batch that finish accepts has done what its calls asked for, each     *)
(* with respect to the source before any of them, on plain layouts: no     *)
(* other item moved, vanished or merged with its neighbour, although the   *)
(* offsets of all calls are those of the unedited source.  One plain call  *)
(* alone is refused only when it takes an anchor from an alias.            *)
FlowEditsExact == Exact /\ Accepted

(* The documentation of both deletions in flow collections (lossless.rs    *)
(* 1532 and 1830): the comma is removed and unrelated source bytes are     *)
(* preserved.  MCFlowEditNeighbours refutes it: a deletion ends where the  *)
(* next node begins, behind its tag and its anchor.                        *)
NeighboursKept ==
  output.state = "accepted" /\ Len(calls) = 1 /\ calls[1].op = "delete"
    => Value(Parsed(output.text).node) = Wanted

=============================================================================
