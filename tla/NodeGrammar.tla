----------------------------- MODULE NodeGrammar -----------------------------
(***************************************************************************)
(* The node grammar of the parser over lines of tokens: what its functions *)
(* make of explicit keys, tags, block scalars and flow collections, behind *)
(* the indentation that BlockParse is about.  Compact collections in       *)
(* sequences (a dash or a question mark behind a dash) and scalars of      *)
(* several lines, other than block scalars, are left out: such a node is   *)
(* misread, as is whatever the parser refuses.  Merge keys are applied to  *)
(* what was read (apply_merge_keys_in_node), under the strict policy or,   *)
(* for YAML 1.1, the compatible one; chains of merges stay below their     *)
(* limit, which MergeKeys is about.                                        *)
(***************************************************************************)
EXTENDS Tokens

CONSTANT NestingLimit   \* LoadOptions::selected_max_nesting_depth

Misread == Node("misread", <<>>, <<>>)

Read(node, next) == [node |-> node, next |-> next]

-----------------------------------------------------------------------------
(* What unquoted text is taken for, in a block and in a flow collection    *)
(* (find_mapping_col, comments, and the flow parser's delimiters).         *)

Unreadable == <<Mark("unreadable")>>

InBlock(word) ==
  CASE word \in EndsInColon -> <<Plain("a"), Colon>>
    [] word \in ColonInside -> <<Plain("a"), Colon, Plain("a")>>
    [] word \in HashInside  -> <<Plain("a")>>
    [] word \in OpensFlow   -> <<Mark("["), Plain("a")>>
    [] word \in Dashes      -> <<Dash, Plain("a")>>
    [] word \in Questions   -> <<Ask, Plain("a")>>
    [] word \in Comments \union {""} -> <<>>
    [] word \in Aliases \union Controls \union Markers -> Unreadable
    [] OTHER -> <<Plain(word)>>

InFlow(word) ==
  CASE word \in CommaInside -> <<Plain("a"), Comma, Plain("a")>>
    [] word \in Dashes -> <<Plain(word)>>
    [] word \in HashInside \union Comments \union Questions -> Unreadable
    [] OTHER -> InBlock(word)

IsPlain(t) == t.tok = "scalar" /\ t.style = "plain"

Closes(t) == IF t.tok \in {"[", "{"} THEN 1 ELSE IF t.tok \in {"]", "}"} THEN -1 ELSE 0

(* How many flow collections are open before a token.                      *)
Level(toks, k) == FoldLeft(LAMBDA sum, t : sum + Closes(t), 0, SubSeq(toks, 1, k - 1))

Lexed(toks) ==
  FlattenSeq([k \in DOMAIN toks |->
    IF ~IsPlain(toks[k]) THEN <<toks[k]>>
    ELSE IF Len(toks[k].text) > 1 THEN Unreadable
    ELSE IF Level(toks, k) > 0 THEN InFlow(toks[k].text[1].word)
    ELSE InBlock(toks[k].text[1].word)])

(* preprocess_line: the lines of block scalars are taken as they are.      *)
Prepared(lines) ==
  [i \in DOMAIN lines |-> [ind |-> lines[i].ind, raw |-> lines[i].toks, toks |-> Lexed(lines[i].toks)]]

-----------------------------------------------------------------------------
(* Scalars and flow collections: nodes within the tokens of a line.  The   *)
(* next token is returned.                                                 *)

(* tagged_node; properties may not be repeated (record_tag)                *)
Tagged(name, n) == IF n.kind = "tag" THEN Misread ELSE Node("tag", name, <<n>>)

ScalarNode(t, yaml11) == IF t.style = "plain" THEN Resolved(t.text[1].word, yaml11) ELSE Str(t.text)

(* What has been read, as what is tagged and as the value of an entry.     *)
TaggedRead(name, of) == Read(Tagged(name, of.node), of.next)
EntryRead(key, value) == Read(Entry(key, value.node), value.next)

(* A mapping's keys differ, except that YAML 1.1 does not compare the      *)
(* merge keys (check_duplicate_for_schema).                                *)
MappingNode(entries, yaml11) ==
  LET compared == SelectSeq(entries, LAMBDA e : ~(yaml11 /\ IsMergeKey(Key(e))))
  IN  IF IsInjective([i \in DOMAIN compared |-> Identity(Key(compared[i]))])
      THEN Table(entries) ELSE Misread

At(toks, k) == IF k <= Len(toks) THEN toks[k].tok ELSE "none"

RECURSIVE FlowValue(_, _, _, _), FlowItems(_, _, _, _, _), FlowEntries(_, _, _, _, _), FlowKey(_, _, _, _)

(* FlowParser::parse_value *)
FlowValue(toks, k, d, yaml11) ==
  IF d > NestingLimit THEN Read(Misread, Len(toks) + 1)
  ELSE CASE At(toks, k) = "[" -> FlowItems(toks, k + 1, d, yaml11, <<>>)
         [] At(toks, k) = "{" -> FlowEntries(toks, k + 1, d, yaml11, <<>>)
         [] At(toks, k) = "tag" ->
              TaggedRead(toks[k].text, FlowValue(toks, k + 1, d + 1, yaml11))
         [] At(toks, k) = "scalar" -> Read(ScalarNode(toks[k], yaml11), k + 1)
         [] OTHER -> Read(Misread, Len(toks) + 1)

(* parse_sequence: an item may be a pair (parse_sequence_mapping_item)     *)
FlowItem(toks, d, yaml11, items, item) ==
  CASE At(toks, item.next) = "," -> FlowItems(toks, item.next + 1, d, yaml11, Append(items, item.node))
    [] At(toks, item.next) = "]" -> Read(List(Append(items, item.node)), item.next + 1)
    [] OTHER -> Read(Misread, Len(toks) + 1)

FlowItems(toks, k, d, yaml11, items) ==
  IF At(toks, k) = "]" THEN Read(List(items), k + 1)
  ELSE FlowItem(toks, d, yaml11, items, FlowValue(toks, k, d + 1, yaml11))

(* parse_flow_mapping_entry: a value is two levels below its mapping       *)
FlowEntry(toks, d, yaml11, entries, entry) ==
  LET all == Append(entries, entry.node) IN
  CASE At(toks, entry.next) = "," -> FlowEntries(toks, entry.next + 1, d, yaml11, all)
    [] At(toks, entry.next) = "}" -> Read(MappingNode(all, yaml11), entry.next + 1)
    [] OTHER -> Read(Misread, Len(toks) + 1)

FlowEntryOf(toks, d, yaml11, entries, key) ==
  IF At(toks, key.next) # ":" THEN Read(Misread, Len(toks) + 1)
  ELSE FlowEntry(toks, d, yaml11, entries,
                 EntryRead(key.node, FlowValue(toks, key.next + 1, d + 2, yaml11)))

FlowEntries(toks, k, d, yaml11, entries) ==
  IF At(toks, k) = "}" THEN Read(MappingNode(entries, yaml11), k + 1)
  ELSE FlowEntryOf(toks, d, yaml11, entries, FlowKey(toks, k, d + 1, yaml11))

(* parse_flow_key: the depth of scalars is not compared                    *)
FlowKey(toks, k, d, yaml11) ==
  CASE At(toks, k) \in {"[", "{"} -> FlowValue(toks, k, d, yaml11)
    [] At(toks, k) = "tag" ->
         TaggedRead(toks[k].text, FlowKey(toks, k + 1, d + 1, yaml11))
    [] At(toks, k) = "scalar" -> Read(ScalarNode(toks[k], yaml11), k + 1)
    [] OTHER -> Read(Misread, Len(toks) + 1)

(* A node that ends with the tokens.                                       *)
Ending(next, of) == IF of.next = next THEN of.node ELSE Misread
WholeFlow(toks, d, yaml11) == Ending(Len(toks) + 1, FlowValue(toks, 1, d, yaml11))

-----------------------------------------------------------------------------
(* Lines.                                                                  *)

Rest(ls, i, k) == SubSeq(ls[i].toks, k, Len(ls[i].toks))

(* content_after_blanks *)
NextContent(ls, i) ==
  LET content == {j \in i..Len(ls) : ls[j].toks # <<>>} IN
  IF content = {} THEN Len(ls) + 1 ELSE Min(content)

(* sequence_rest, find_mapping_col, starts_mapping_entry *)
IsItem(toks) == At(toks, 1) = "-"
ColonAt(toks) ==
  SelectInSeq([k \in DOMAIN toks |-> k], LAMBDA k : toks[k].tok = ":" /\ Level(toks, k) = 0)
StartsEntry(toks) == At(toks, 1) \in {"?", "answer"} \/ ColonAt(toks) # 0

(* is_plain_scalar_text, and no more than that scalar *)
IsPlainText(toks) == Len(toks) = 1 /\ IsPlain(toks[1])

-----------------------------------------------------------------------------
(* Block scalars (parse_block_scalar).                                     *)

MoreIndented(l) == l.lead > 0 \/ l.word \in Indented

(* The lines that belong to the scalar, from line i on, and how far they   *)
(* are indented: -1 until a line tells.                                    *)
RECURSIVE BlockLines(_, _, _, _, _, _, _)
BlockLines(ls, i, parent, same, indent, blanks, taken) ==
  IF i > Len(ls) THEN [lines |-> taken, next |-> i, bad |-> FALSE]
  ELSE LET l == ls[i]
           found == IF indent = -1 THEN l.ind ELSE indent
           over  == [lines |-> taken, next |-> i, bad |-> FALSE]
       IN
       CASE l.toks # <<>> /\ (l.ind < parent \/ (l.ind = parent /\ ~same)) -> over
         [] l.toks = <<>> /\ l.raw # <<>> /\ indent # -1 /\ l.ind < indent -> over
         [] l.raw = <<>> ->
              BlockLines(ls, i + 1, parent, same, indent,
                         IF indent = -1 /\ l.ind > blanks THEN l.ind ELSE blanks,
                         Append(taken, IF indent = -1 \/ l.ind <= indent THEN EmptyLine
                                       ELSE TextLine(l.ind - indent, "")))
         [] OTHER ->
              IF blanks > found \/ Len(l.raw) > 1 \/ ~IsPlain(l.raw[1])
              THEN [lines |-> taken, next |-> i, bad |-> TRUE]
              ELSE IF l.ind < found THEN over
              ELSE BlockLines(ls, i + 1, parent, same, found, blanks,
                              Append(taken, TextLine(l.ind - found, l.raw[1].text[1].word)))

(* The line breaks between two lines of a folded scalar that have `blanks` *)
(* empty lines between them; no break at all joins the two lines.          *)
Breaks(before, after, blanks) ==
  LET kept == MoreIndented(before) \/ MoreIndented(after) IN
  IF kept THEN blanks + 1 ELSE blanks

(* Line n and those behind it, folded: empty lines, the line, and so on.   *)
RECURSIVE Folded(_, _, _)
Folded(lines, n, previous) ==
  LET i == SelectInSeq(SubSeq(lines, n, Len(lines)), LAMBDA l : l # EmptyLine)
      blanks == IF i = 0 THEN Len(lines) - n + 1 ELSE i - 1
      breaks == CASE previous = EmptyLine -> blanks
                  [] previous # EmptyLine /\ i = 0 /\ blanks = 0 -> 1
                  [] OTHER -> Breaks(previous, IF i = 0 THEN EmptyLine ELSE lines[n + i - 1], blanks)
  IN  [k \in 1..breaks |-> EmptyLine]
        \o (IF i = 0 THEN <<>> ELSE <<lines[n + i - 1]>> \o Folded(lines, n + i, lines[n + i - 1]))

(* Folded lines as text: every empty line above is a line break.  Two      *)
(* lines without a break between them have been joined.                    *)
RECURSIVE Joined(_, _)
Joined(parts, text) ==
  IF parts = <<>> THEN text
  ELSE IF Head(parts) = EmptyLine THEN Joined(Tail(parts), Append(text, EmptyLine))
  ELSE IF Last(text) = EmptyLine THEN Joined(Tail(parts), Append(Front(text), Head(parts)))
  ELSE Joined(Tail(parts), Append(Front(text), TextLine(Last(text).lead, "joined")))

LastBreaks(text) ==
  LET k == SelectLastInSeq(text, LAMBDA l : l # EmptyLine) IN
  IF k = 0 THEN Len(text) - 1 ELSE Len(text) - k

Chomped(text, lines, chomping) ==
  CASE chomping = "keep"  -> text
    [] chomping = "strip" -> SubSeq(text, 1, Len(text) - LastBreaks(text))
    [] chomping = "clip"  ->
         IF \A i \in DOMAIN lines : lines[i] = EmptyLine THEN <<EmptyLine>>
         ELSE IF LastBreaks(text) > 1 THEN SubSeq(text, 1, Len(text) - LastBreaks(text) + 1)
         ELSE text

Styled(style, lines) ==
  IF style = "literal" THEN Append(lines, EmptyLine)
  ELSE Joined(Folded(lines, 1, EmptyLine), <<EmptyLine>>)

BlockRead(style, block, end) ==
  IF block.bad THEN Read(Misread, end)
  ELSE Read(Str(Chomped(Styled(style[1], block.lines), block.lines, style[2])), block.next)

-----------------------------------------------------------------------------
(* Block nodes.  Token k is the first of the node at line i, d its depth;  *)
(* the next line is returned.                                              *)

RECURSIVE BlockNode(_, _, _, _), InlineValue(_, _, _, _, _, _, _), Nested(_, _, _, _, _),
          PlainOrInline(_, _, _, _, _, _, _), MappingValueOrNull(_, _, _, _, _),
          ValueBehind(_, _, _, _, _, _), ItemBehind(_, _, _, _, _), Items(_, _, _, _, _),
          Entries(_, _, _, _, _, _)

TooDeep(ls, d, read) == IF d > NestingLimit THEN Read(Misread, Len(ls) + 1) ELSE read

(* parse_block_scalar *)
BlockScalar(ls, i, header, parent, same, d) ==
  TooDeep(ls, d,
    BlockRead(header.style,
              BlockLines(ls, i, parent, same, IF header.n = 0 THEN -1 ELSE parent + header.n, 0, <<>>),
              Len(ls) + 1))

(* parse_plain_scalar: a scalar that goes on in the next line is misread   *)
PlainScalar(ls, i, k, parent, same, d, yaml11) ==
  LET below == NextContent(ls, i + 1)
      goes_on == /\ below <= Len(ls)
                 /\ ls[below].ind > parent \/ (ls[below].ind = parent /\ same)
                 /\ ~(ls[below].ind <= parent /\ IsItem(ls[below].toks))
                 /\ ~StartsEntry(ls[below].toks)
  IN  TooDeep(ls, d, IF goes_on THEN Read(Misread, Len(ls) + 1)
                     ELSE Read(ScalarNode(ls[i].toks[k], yaml11), i + 1))

PlainOrInline(ls, i, k, parent, same, d, yaml11) ==
  IF IsPlainText(Rest(ls, i, k)) THEN PlainScalar(ls, i, k, parent, same, d, yaml11)
  ELSE InlineValue(ls, i, k, parent, FALSE, d, yaml11)

(* parse_nested_or_null *)
Nested(ls, i, parent, d, yaml11) ==
  LET below == NextContent(ls, i) IN
  TooDeep(ls, d,
    IF below > Len(ls) \/ ls[below].ind <= parent THEN Read(Null, i)
    ELSE IF IsItem(ls[below].toks) \/ StartsEntry(ls[below].toks) THEN BlockNode(ls, below, d, yaml11)
    ELSE PlainOrInline(ls, below, 1, parent, FALSE, d, yaml11))

(* parse_mapping_value_or_null, also behind a tag: a sequence may have the *)
(* indentation of its key                                                  *)
MappingValueOrNull(ls, i, parent, d, yaml11) ==
  LET below == NextContent(ls, i) IN
  IF below <= Len(ls) /\ ls[below].ind = parent /\ IsItem(ls[below].toks)
  THEN TooDeep(ls, d, Items(ls, below, parent, d, yaml11))
  ELSE Nested(ls, i, parent, d, yaml11)

(* parse_mapping_value_properties *)
MappingValueTagged(ls, i, k, parent, d, yaml11) ==
  TooDeep(ls, d,
    TaggedRead(ls[i].toks[k].text,
               IF Len(ls[i].toks) = k THEN MappingValueOrNull(ls, i + 1, parent, d + 2, yaml11)
               ELSE InlineValue(ls, i, k + 1, parent, FALSE, d + 2, yaml11)))

(* parse_mapping_pair and parse_explicit_block_value, behind the colon     *)
ValueBehind(ls, i, k, parent, d, yaml11) ==
  LET rest == Rest(ls, i, k) IN
  TooDeep(ls, d,
    CASE rest = <<>> -> MappingValueOrNull(ls, i + 1, parent, d + 1, yaml11)
      [] At(rest, 1) = "tag" -> MappingValueTagged(ls, i, k, parent, d + 1, yaml11)
      [] At(rest, 1) = "header" -> BlockScalar(ls, i + 1, rest[1], parent, FALSE, d + 1)
      [] At(rest, 1) \in {"-", "?"} \/ ColonAt(rest) # 0 -> Read(Misread, Len(ls) + 1)
      [] OTHER -> PlainOrInline(ls, i, k, parent, FALSE, d + 1, yaml11))

(* parse_mapping_pair, the entry from token k on, and parse_mapping_key    *)
Pair(ls, i, k, parent, d, yaml11) ==
  LET colon == ColonAt(Rest(ls, i, k)) IN
  EntryRead(WholeFlow(SubSeq(ls[i].toks, k, k + colon - 2), d, yaml11),
            ValueBehind(ls, i, k + colon, parent, d, yaml11))

(* parse_explicit_block_key: it is on one line                             *)
ExplicitKey(ls, i, d, yaml11) ==
  LET rest == Rest(ls, i, 2) IN
  IF rest = <<>> \/ ColonAt(rest) # 0 \/ At(rest, 1) \in {"-", "header"} THEN Misread
  ELSE WholeFlow(rest, d + 1, yaml11)

(* parse_mapping: the entries from line i on, and those before them        *)
EntryAt(ls, i, indent, d, yaml11) ==
  LET toks     == ls[i].toks
      answer   == NextContent(ls, i + 1)
      answered == answer <= Len(ls) /\ ls[answer].ind = indent /\ At(ls[answer].toks, 1) = "answer"
      key == IF At(toks, 1) = "?" THEN ExplicitKey(ls, i, d, yaml11) ELSE Null
  IN  CASE At(toks, 1) = "?" /\ ~answered -> Read(Entry(key, Null), i + 1)
        [] At(toks, 1) = "answer" \/ (At(toks, 1) = "?" /\ answered) ->
             EntryRead(key, ValueBehind(ls, IF At(toks, 1) = "?" THEN answer ELSE i, 2, indent, d, yaml11))
        [] OTHER -> Pair(ls, i, 1, indent, d, yaml11)

EntriesBehind(ls, entry, indent, d, yaml11, entries) ==
  Entries(ls, entry.next, indent, d, yaml11, Append(entries, entry.node))

Entries(ls, i, indent, d, yaml11, entries) ==
  LET j == NextContent(ls, i) IN
  IF j > Len(ls) \/ ls[j].ind # indent \/ IsItem(ls[j].toks) \/ ~StartsEntry(ls[j].toks)
  THEN Read(MappingNode(entries, yaml11), i)
  ELSE EntriesBehind(ls, EntryAt(ls, j, indent, d + 1, yaml11), indent, d, yaml11, entries)

(* parse_inline_mapping_item: an entry behind a dash and those below it,   *)
(* none of them with an explicit key                                       *)
RECURSIVE MoreEntries(_, _, _, _, _, _)
MoreEntries(ls, entry, indent, d, yaml11, entries) ==
  LET i == entry.next
      j == NextContent(ls, i)
      all == Append(entries, entry.node)
  IN
  IF j > Len(ls) \/ ls[j].ind # indent \/ IsItem(ls[j].toks) \/ ColonAt(ls[j].toks) = 0
  THEN Read(MappingNode(all, yaml11), i)
  ELSE MoreEntries(ls, Pair(ls, j, 1, indent, d + 1, yaml11), indent, d, yaml11, all)

InlineMapping(ls, i, indent, d, yaml11) ==
  TooDeep(ls, d, MoreEntries(ls, Pair(ls, i, 2, indent, d + 1, yaml11), indent, d, yaml11, <<>>))

(* parse_sequence, what is behind a dash *)
ItemBehind(ls, i, indent, d, yaml11) ==
  LET rest == Rest(ls, i, 2) IN
  CASE rest = <<>> -> Nested(ls, i + 1, indent, d, yaml11)
    [] At(rest, 1) = "header" -> BlockScalar(ls, i + 1, rest[1], indent, FALSE, d)
    [] At(rest, 1) \in {"-", "?"} -> Read(Misread, Len(ls) + 1)
    [] rest # <<>> /\ At(rest, 1) \notin {"header", "-", "?"} ->
         IF ColonAt(rest) # 0 THEN InlineMapping(ls, i, ls[i].ind + 2, d, yaml11)
         ELSE PlainOrInline(ls, i, 2, indent, FALSE, d, yaml11)

RECURSIVE ItemsFrom(_, _, _, _, _, _)
ItemsBehind(ls, item, indent, d, yaml11, items) ==
  ItemsFrom(ls, item.next, indent, d, yaml11, Append(items, item.node))

ItemsFrom(ls, i, indent, d, yaml11, items) ==
  LET j == NextContent(ls, i) IN
  IF j > Len(ls) \/ ls[j].ind # indent \/ ~IsItem(ls[j].toks) THEN Read(List(items), i)
  ELSE ItemsBehind(ls, ItemBehind(ls, j, indent, d + 1, yaml11), indent, d, yaml11, items)

Items(ls, i, indent, d, yaml11) == TooDeep(ls, d, ItemsFrom(ls, i, indent, d, yaml11, <<>>))

(* parse_inline_value: the root may go on without deeper indentation       *)
InlineValue(ls, i, k, parent, root, d, yaml11) ==
  LET rest == Rest(ls, i, k)
      below == NextContent(ls, i + 1)
      of == CASE Len(rest) > 1 -> InlineValue(ls, i, k + 1, parent, root, d + 1, yaml11)
              [] Len(rest) = 1 /\ root ->
                   IF below > Len(ls) THEN Read(Null, below) ELSE BlockNode(ls, below, d + 1, yaml11)
              [] OTHER -> Nested(ls, i + 1, parent, d + 1, yaml11)
  IN  TooDeep(ls, d,
        CASE At(rest, 1) = "tag" -> TaggedRead(rest[1].text, of)
          [] At(rest, 1) = "header" -> BlockScalar(ls, i + 1, rest[1], parent, FALSE, d + 1)
          [] OTHER -> Read(WholeFlow(rest, d, yaml11), i + 1))

(* parse_node *)
BlockNode(ls, i, d, yaml11) ==
  LET toks == ls[i].toks IN
  TooDeep(ls, d,
    CASE IsItem(toks) -> Items(ls, i, ls[i].ind, d, yaml11)
      [] ~IsItem(toks) /\ StartsEntry(toks) -> Entries(ls, i, ls[i].ind, d, yaml11, <<>>)
      [] At(toks, 1) = "header" -> BlockScalar(ls, i + 1, toks[1], ls[i].ind, ls[i].ind = 0, d + 1)
      [] OTHER -> IF IsPlainText(toks) THEN PlainScalar(ls, i, 1, ls[i].ind, TRUE, d, yaml11)
                  ELSE InlineValue(ls, i, 1, ls[i].ind, ls[i].ind = 0, d, yaml11))

(* A document of one node and nothing behind it; an empty one is null.     *)
Root(ls, i, yaml11) == IF i > Len(ls) THEN Read(Null, i) ELSE BlockNode(ls, i, 1, yaml11)
AllRead(ls, root) == IF NextContent(ls, root.next) > Len(ls) THEN root.node ELSE Misread
ParsedLines(ls, yaml11) == AllRead(ls, Root(ls, NextContent(ls, 1), yaml11))

-----------------------------------------------------------------------------
(* Merge keys.                                                             *)

(* What can be merged: a mapping, or a list of mappings.                   *)
Mergeable(payload) ==
  payload.kind = "map"
    \/ (payload.kind = "seq" /\ \A i \in DOMAIN payload.kids : payload.kids[i].kind = "map")

(* insert_missing_node_entries and upsert_node_entries: of two entries     *)
(* with the same key, which one stays                                      *)
Keeping(entries, entry) ==
  IF \E i \in DOMAIN entries : Identity(Key(entries[i])) = Identity(Key(entry))
  THEN entries ELSE Append(entries, entry)

Replacing(entries, entry) ==
  IF \E i \in DOMAIN entries : Identity(Key(entries[i])) = Identity(Key(entry))
  THEN [i \in DOMAIN entries |->
          IF Identity(Key(entries[i])) = Identity(Key(entry)) THEN entry ELSE entries[i]]
  ELSE Append(entries, entry)

InsertMissing(entries, more) == FoldLeft(Keeping, entries, more)
Upsert(entries, more) == FoldLeft(Replacing, entries, more)

(* The entries of a mapping and those it merges, which come last.  YAML    *)
(* 1.1 keeps the merge keys that cannot be merged; else they are refused.  *)
RECURSIVE MergedEntries(_, _)
PayloadEntries(payload, yaml11) ==
  IF payload.kind = "map" THEN MergedEntries(payload.kids, yaml11)
  ELSE FoldLeft(LAMBDA all, item : InsertMissing(all, MergedEntries(item.kids, yaml11)), <<>>, payload.kids)

MergedEntries(entries, yaml11) ==
  LET Merges(e) == IsMergeKey(Key(e)) /\ (yaml11 => Mergeable(Val(e)))
      merging   == SelectSeq(entries, Merges)
      explicit  == SelectSeq(entries, LAMBDA e : ~Merges(e))
  IN  IF \E i \in DOMAIN merging : ~Mergeable(Val(merging[i])) THEN <<Entry(Misread, Misread)>>
      ELSE InsertMissing(explicit,
             FoldLeft(LAMBDA all, e : Upsert(all, PayloadEntries(Val(e), yaml11)), <<>>, merging))

(* apply_merge_keys_in_node: from the outside in, not within keys          *)
RECURSIVE Expanded(_, _)
Expanded(n, yaml11) ==
  CASE n.kind = "map" ->
         LET merged == MergedEntries(n.kids, yaml11)
         IN  Table([i \in DOMAIN merged |-> Entry(Key(merged[i]), Expanded(Val(merged[i]), yaml11))])
    [] n.kind \in {"seq", "tag"} ->
         [n EXCEPT !.kids = [i \in DOMAIN n.kids |-> Expanded(n.kids[i], yaml11)]]
    [] OTHER -> n

Document(lines, yaml11) == Expanded(ParsedLines(Prepared(lines), yaml11), yaml11)
=============================================================================
