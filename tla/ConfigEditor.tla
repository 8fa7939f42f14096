---------------------------- MODULE ConfigEditor ----------------------------
(***************************************************************************)
(* ConfigEditor: every operation parses the working source, turns the path *)
(* into nodes, turns the edit into a splice of lines, parses the result    *)
(* and keeps it only if it parses.  Nothing looks at whether the result is *)
(* the document that was asked for: that is what the properties are about. *)
(*                                                                         *)
(* A path is the sequence of the positions of its segments.  A segment     *)
(* that is a key is looked up by its name, so that a position behind which *)
(* the name is repeated cannot be reached.  Position zero stands for a key *)
(* or an index that the collection does not have.  A new                   *)
(* value is the fragment of lines it is serialized to, starting at column  *)
(* zero.  Every line ends with a newline.  The file and edits of flow      *)
(* collections are left out.                                               *)
(***************************************************************************)
EXTENDS BlockParse, FiniteSets

CONSTANTS
  Sources,     (* the documents an editor is opened with  *)
  Fragments,   (* the serialized values                   *)
  NewKeys,     (* the keys entries are inserted or renamed to *)
  MaxEdits     (* bound on the operations of one editor   *)

VARIABLES
  source,   (* ConfigEditor.source                                        *)
  last,     (* the operation just tried, with its outcome                 *)
  edits     (* operations tried, at most MaxEdits                         *)

vars == <<source, last, edits>>

-----------------------------------------------------------------------------
(* Nodes and paths. *)

RECURSIVE NodeAt(_, _)
NodeAt(n, path) == IF path = <<>> THEN n ELSE NodeAt(n.kids[Head(path)].node, Tail(path))

RECURSIVE Paths(_)
Paths(n) == {<<>>} \union UNION {{<<i>> \o p : p \in Paths(n.kids[i].node)} : i \in DOMAIN n.kids}

(* Mutant of Found: of several entries with the key, the first is taken.   *)
FoundFirst(n, i) ==
  /\ i \in DOMAIN n.kids
  /\ n.kind = "map" => \A j \in 1 .. i - 1 : n.kids[j].key # n.kids[i].key

(* resolve_mapping_key, resolve_sequence_index, unique_mapping_entry_by_key: *)
(* a key that the mapping has twice is ambiguous.                          *)
Found(n, i) ==
  /\ i \in DOMAIN n.kids
  /\ n.kind = "map" => \A j \in DOMAIN n.kids : n.kids[j].key = n.kids[i].key => j = i

(* resolve_config_path *)
RECURSIVE Resolves(_, _)
Resolves(n, path) ==
  path # <<>> => Found(n, Head(path)) /\ Resolves(n.kids[Head(path)].node, Tail(path))

(* The collections in block style: the empty ones are in flow style. *)
Collections(n, kind) == {p \in Paths(n) : NodeAt(n, p).kind = kind /\ NodeAt(n, p).kids # <<>>}

-----------------------------------------------------------------------------
(* Fragments. *)

(* The lines from first to last, replaced. *)
Replaced(ls, first, end, new) == SubSeq(ls, 1, first - 1) \o new \o SubSeq(ls, end + 1, Len(ls))

(* indent_entry_source *)
Indented(fragment, n) == [i \in DOMAIN fragment |-> [fragment[i] EXCEPT !.ind = @ + n]]

(* format_block_sequence_item_source *)
ItemLines(fragment, n) ==
  <<[Head(fragment) EXCEPT !.ind = n, !.dashes = @ + 1]>> \o Indented(Tail(fragment), n + 2)

(* is_nested_block_value_fragment, or a fragment of several lines *)
Nested(fragment) ==
  Len(fragment) > 1 \/ Head(fragment).dashes > 0 \/ Head(fragment).key # None

(* format_typed_entry_source *)
EntryLines(key, fragment) ==
  IF Nested(fragment)
  THEN <<Line(0, 0, key, None, 0)>> \o Indented(fragment, 2)
  ELSE <<Line(0, 0, key, Head(fragment).text, 0)>>

-----------------------------------------------------------------------------
(* The edits of LosslessEdit: the lines of the edited source. *)

(* replace_node_source by text in one line: what is in front of the node on *)
(* its first line and the comment behind it on its last one stay.           *)
WithNodeText(ls, n, text) ==
  LET l == ls[n.first] IN
  Replaced(ls, n.first, n.last,
    <<IF n.at = BehindKey
      THEN [l EXCEPT !.text = text, !.note = ls[n.last].note]
      ELSE Line(l.ind, n.at, None, text, ls[n.last].note)>>)

(* Mutant of WithBlockValue: the value has the indentation of its key. *)
WithBlockValueFlat(ls, kid, fragment) ==
  Replaced(ls, kid.node.first, kid.node.last,
    (IF kid.node.first = kid.line THEN <<[ls[kid.line] EXCEPT !.text = None]>> ELSE <<>>)
      \o Indented(fragment, ls[kid.node.first].ind))

(* Mutant of WithBlockValue: the comment behind the old value is lost. *)
WithBlockValueUncommented(ls, kid, fragment) ==
  IF kid.node.first = kid.line
  THEN Replaced(ls, kid.line, kid.node.last,
         <<[ls[kid.line] EXCEPT !.text = None, !.note = 0]>>
           \o Indented(fragment, ls[kid.line].ind + 2))
  ELSE Replaced(ls, kid.node.first, kid.node.last, Indented(fragment, ls[kid.node.first].ind))

(* replace_block_mapping_value_source for a value in block style. *)
WithBlockValue(ls, kid, fragment) ==
  LET n == kid.node IN
  IF n.first = kid.line
  THEN Replaced(ls, kid.line, n.last,
         <<[ls[kid.line] EXCEPT !.text = None, !.note = ls[n.last].note]>>
           \o Indented(fragment, ls[kid.line].ind + 2))
  ELSE Replaced(ls, n.first, n.last, Indented(fragment, ls[n.first].ind))

WithValue(ls, kid, fragment) ==
  IF Nested(fragment)
  THEN WithBlockValue(ls, kid, fragment)
  ELSE WithNodeText(ls, kid.node, Head(fragment).text)

(* replace_sequence_item_source *)
WithItem(ls, kid, fragment) ==
  LET n == kid.node IN Replaced(ls, n.first, n.last, ItemLines(fragment, ls[n.first].ind))

(* compact_sequence_mapping_key_prefix: one dash is all there is in front  *)
(* of the key.                                                             *)
Compact(ls, kid) == ls[kid.line].dashes = 1

(* delete_block_mapping_entry_source *)
WithoutEntry(ls, kid) ==
  Replaced(ls, kid.line, kid.node.last,
    IF Compact(ls, kid) THEN <<Line(ls[kid.line].ind, 1, None, None, 0)>> ELSE <<>>)

(* delete_block_sequence_item_source *)
WithoutItem(ls, kid) == Replaced(ls, kid.node.first, kid.node.last, <<>>)

(* insert_block_mapping_entry_source, at the end of the mapping *)
WithEntry(ls, n, key, fragment) ==
  LET first == n.kids[1]
      ind   == ls[first.line].ind + IF Compact(ls, first) THEN 2 ELSE 0
  IN Replaced(ls, n.last + 1, n.last, Indented(EntryLines(key, fragment), ind))

(* insert_block_sequence_item_source *)
WithNewItem(ls, n, index, fragment) ==
  LET ind == ls[n.kids[1].node.first].ind
      at  == IF index > Len(n.kids) THEN n.last + 1 ELSE n.kids[index].node.first
  IN Replaced(ls, at, at - 1, ItemLines(fragment, ind))

-----------------------------------------------------------------------------
(* The operations of the editor. *)

(* Mutant of Finish: the edited source is not parsed. *)
FinishUnparsed(ls) == [ok |-> TRUE, source |-> ls]

(* LosslessEdit::finish: the edited source must parse. *)
Finish(ls) == [ok |-> Parses(ls), source |-> ls]
Refused    == [ok |-> FALSE, source |-> <<>>]

(* set_path_source below the root *)
SetPath(parent, i, fragment) ==
  IF ~Found(parent, i) THEN Refused
  ELSE Finish(IF parent.kind = "map"
              THEN WithValue(source, parent.kids[i], fragment)
              ELSE WithItem(source, parent.kids[i], fragment))

(* remove_path_source: the only entry or item leaves an empty collection   *)
(* of its kind.  The branch is taken before the last segment is looked up. *)
RemovePath(parent, i) ==
  IF Len(parent.kids) = 1
  THEN Finish(WithNodeText(source, parent, IF parent.kind = "map" THEN FlowMap ELSE FlowSeq))
  ELSE IF ~Found(parent, i) THEN Refused
  ELSE Finish(IF parent.kind = "map"
              THEN WithoutEntry(source, parent.kids[i])
              ELSE WithoutItem(source, parent.kids[i]))

(* rename_path_source *)
RenamePath(parent, i, key) ==
  IF ~Found(parent, i) THEN Refused
  ELSE Finish([source EXCEPT ![parent.kids[i].line].key = key])

(* ConfigEditor::apply: the source is replaced only by the result of an    *)
(* edit whose collection was found and whose result parses.                *)
Apply(op, result) ==
  LET ok == Resolves(Root(source), op.path) /\ result.ok IN
  /\ edits < MaxEdits
  /\ source' = IF ok THEN result.source ELSE source
  /\ last' = [op EXCEPT !.accepted = ok]
  /\ edits' = edits + 1

Operation(name, path, i, key, fragment) ==
  [name |-> name, path |-> path, i |-> i, key |-> key, fragment |-> fragment, accepted |-> FALSE]

(* The segments an operation may name below a collection. *)
Segments(n) == 0 .. Len(n.kids)

EditSet ==
  \E kind \in {"map", "seq"}, fragment \in Fragments : \E p \in Collections(Root(source), kind) :
    \E i \in Segments(NodeAt(Root(source), p)) :
      Apply(Operation("set", p, i, None, fragment), SetPath(NodeAt(Root(source), p), i, fragment))

EditRemove ==
  \E kind \in {"map", "seq"} : \E p \in Collections(Root(source), kind) :
    \E i \in Segments(NodeAt(Root(source), p)) :
      Apply(Operation("remove", p, i, None, <<>>), RemovePath(NodeAt(Root(source), p), i))

EditRename ==
  \E key \in NewKeys, p \in Collections(Root(source), "map") :
    \E i \in Segments(NodeAt(Root(source), p)) :
      Apply(Operation("rename", p, i, key, <<>>), RenamePath(NodeAt(Root(source), p), i, key))

EditInsert ==
  \E key \in NewKeys, fragment \in Fragments, p \in Collections(Root(source), "map") :
    Apply(Operation("insert", p, 0, key, fragment),
          Finish(WithEntry(source, NodeAt(Root(source), p), key, fragment)))

(* push is insert_item behind the last item. *)
EditInsertItem ==
  \E fragment \in Fragments, p \in Collections(Root(source), "seq") :
    \E i \in 1 .. Len(NodeAt(Root(source), p).kids) + 1 :
      Apply(Operation("insert_item", p, i, None, fragment),
            Finish(WithNewItem(source, NodeAt(Root(source), p), i, fragment)))

Init ==
  /\ source \in Sources /\ Parses(source)
  /\ last = Operation("open", <<>>, 0, None, <<>>)
  /\ edits = 0

Next == EditSet \/ EditRemove \/ EditRename \/ EditInsert \/ EditInsertItem

Spec == Init /\ [][Next]_vars

-----------------------------------------------------------------------------
(* What an operation asks for, as a change of the value of the document. *)

New(key, fragment) == [key |-> key, value |-> Value(Root(fragment))]

ChangedKids(kids, op) ==
  CASE op.name = "set"         -> [kids EXCEPT ![op.i].value = Value(Root(op.fragment))]
    [] op.name = "remove"      -> RemoveAt(kids, op.i)
    [] op.name = "rename"      -> [kids EXCEPT ![op.i].key = op.key]
    [] op.name = "insert"      -> Append(kids, New(op.key, op.fragment))
    [] op.name = "insert_item" -> InsertAt(kids, op.i, New(None, op.fragment))

RECURSIVE Changed(_, _, _)
Changed(value, path, op) ==
  [value EXCEPT !.kids =
     IF path = <<>> THEN ChangedKids(@, op)
     ELSE [@ EXCEPT ![Head(path)].value = Changed(@, Tail(path), op)]]

Exists(op) == op.name \in {"set", "remove", "rename"} => op.i \in DOMAIN NodeAt(Root(source), op.path).kids

(* The edited source holds the document that was asked for. *)
Exact(op) == Value(Root(source')) = Changed(Value(Root(source)), op.path, op)

-----------------------------------------------------------------------------
(* The layouts the editor handles.  It works on whole lines and measures   *)
(* the indentation of a line, never that of a node behind a dash.          *)

Column(n) == source[n.first].ind + 2 * n.at

(* The item starts on the line of its own dash: that dash is the first on  *)
(* the line, and the item is not below it.                                 *)
OnDashLine(n, kid) == source[kid.node.first].ind = Column(n)

(* The column that replace_block_mapping_value_source gives to a value.    *)
ValueColumn(kid) ==
  IF kid.node.first = kid.line THEN source[kid.line].ind + 2 ELSE source[kid.node.first].ind

Deep(n, column, fragment) ==
  column > Column(n) \/ (column = Column(n) /\ Head(fragment).dashes > 0)

PlainLayout(op) ==
  LET n == NodeAt(Root(source), op.path) IN
  CASE op.name = "set" /\ n.kind = "map" ->
         Nested(op.fragment) => Deep(n, ValueColumn(n.kids[op.i]), op.fragment)
    [] op.name \in {"set", "remove"} /\ n.kind = "seq" -> OnDashLine(n, n.kids[op.i])
    [] op.name = "remove" /\ n.kind = "map" ->
         Len(n.kids) = 1 \/ source[n.kids[op.i].line].dashes <= 1
    [] op.name = "rename" -> TRUE
    [] op.name = "insert" -> source[n.kids[1].line].dashes <= 1
    [] op.name = "insert_item" ->
         /\ OnDashLine(n, n.kids[1])
         /\ op.i \in DOMAIN n.kids => OnDashLine(n, n.kids[op.i])

(* A scalar or an empty collection takes the place of a sequence that has  *)
(* the indentation of its key: it would have to be indented.               *)
Indentless(parent, n) == parent.kind = "map" /\ n.at = 0 /\ Column(n) = Column(parent)

NeedsIndent(op) ==
  LET n == NodeAt(Root(source), op.path) IN
  CASE op.name = "set" ->
         n.kind = "map" /\ ~Nested(op.fragment) /\ Indentless(n, n.kids[op.i].node)
    [] op.name = "remove" ->
         /\ Len(n.kids) = 1 /\ op.path # <<>>
         /\ Indentless(NodeAt(Root(source), Front(op.path)), n)
    [] OTHER -> FALSE

(* A key on the path is in its mapping more than once. *)
Repeated(n, i) ==
  n.kind = "map" /\ Cardinality({j \in DOMAIN n.kids : n.kids[j].key = n.kids[i].key}) > 1

Ambiguous(op) ==
  LET path == IF op.name \in {"insert", "insert_item"} THEN op.path ELSE Append(op.path, op.i)
  IN  \E k \in DOMAIN path : Repeated(NodeAt(Root(source), SubSeq(path, 1, k - 1)), path[k])

-----------------------------------------------------------------------------
(* The comments on the lines that an operation replaces or removes. *)
GoneLines(op) ==
  LET n == NodeAt(Root(source), op.path) IN
  CASE op.name = "set" /\ n.kind = "map" ->
         LET kid == n.kids[op.i] IN
         IF Nested(op.fragment) /\ kid.node.first # kid.line
         THEN kid.node.first .. kid.node.last
         ELSE kid.node.first .. kid.node.last - 1
    [] op.name = "set" /\ n.kind = "seq" -> n.kids[op.i].node.first .. n.kids[op.i].node.last
    [] op.name = "remove" /\ Len(n.kids) = 1 -> n.first .. n.last - 1
    [] op.name = "remove" /\ Len(n.kids) > 1 ->
         (IF n.kind = "map" THEN n.kids[op.i].line ELSE n.kids[op.i].node.first)
           .. n.kids[op.i].node.last
    [] OTHER -> {}

Comments(ls) == SelectSeq([i \in DOMAIN ls |-> ls[i].note], LAMBDA note : note # 0)

-----------------------------------------------------------------------------
(* The spans the edits are computed from: those of the kids are inside     *)
(* that of their node, one after the other, and the last one ends it.      *)
SpansNested ==
  \A p \in Paths(Root(source)) :
    LET n == NodeAt(Root(source), p) IN
    /\ n.first <= n.last
    /\ \A i \in DOMAIN n.kids :
         /\ n.first <= n.kids[i].line /\ n.kids[i].line <= n.kids[i].node.first
         /\ n.kids[i].node.last <= n.last
         /\ i > 1 => n.kids[i - 1].node.last < n.kids[i].line
    /\ n.kids # <<>> => n.last = n.kids[Len(n.kids)].node.last

(* finish never meets an error, whatever was refused: the source parses,   *)
(* to spans that further edits can be computed from (ConfigEditor::apply,  *)
(* LosslessEdit::finish, and the ends of block nodes in parse.rs).         *)
SourceParses == Parses(source) /\ SpansNested

(* An accepted edit of a plain layout changes the document exactly as      *)
(* asked, whichever edits came before (set, remove, rename, insert, push), *)
(* inserts and renames that repeat a key among them.  An edit whose path   *)
(* such a key has made ambiguous is refused, and no other but that of a    *)
(* value that would have to be indented.                                   *)
PlainEditsExact ==
  [][Exists(last') /\ PlainLayout(last') =>
       /\ last'.accepted => Exact(last') /\ ~Ambiguous(last')
       /\ ~Ambiguous(last') /\ ~NeedsIndent(last') => last'.accepted]_vars

(* Every comment that is not on a line of the edited node stays, and the   *)
(* comments keep their order.                                              *)
CommentsKept ==
  [][last'.accepted /\ Exists(last') =>
       LET gone == {source[i].note : i \in GoneLines(last')} IN
       Comments(source') = SelectSeq(Comments(source), LAMBDA note : note \notin gone)]_vars

(* An edit of a key or an index that is not there is refused.              *)
MissingIsRefused == [][last'.accepted => Exists(last')]_vars

(* Every accepted edit changes the document exactly as asked. *)
EditsExact == [][last'.accepted /\ Exists(last') => Exact(last')]_vars
=============================================================================
