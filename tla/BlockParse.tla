----------------------------- MODULE BlockParse -----------------------------
(***************************************************************************)
(* The block structure of a document as the parser reads it from the       *)
(* indentation of its lines.                                               *)
(*                                                                         *)
(* A line is its indentation, the number of dashes in front of its         *)
(* content, a key, the text after the key or dashes, and the number of the *)
(* comment that ends it (zero: none).  A line without dashes, key and text *)
(* is a comment line or a blank line.  Every dash with its space is two    *)
(* columns wide.  A node keeps the lines it covers and the place of its    *)
(* first character on the first of them, which is what a span is to the    *)
(* editor.                                                                 *)
(*                                                                         *)
(* Anchors, tags, quoted and block scalars, explicit keys, tabs and flow   *)
(* collections other than the empty ones are left out.                     *)
(***************************************************************************)
EXTENDS Integers, Sequences, SequencesExt

CONSTANTS
  None,      (* no key, no text              *)
  FlowMap,   (* the text of an empty mapping  *)
  FlowSeq    (* the text of an empty sequence *)

Line(ind, dashes, key, text, note) ==
  [ind |-> ind, dashes |-> dashes, key |-> key, text |-> text, note |-> note]

Blank(l) == l.dashes = 0 /\ l.key = None /\ l.text = None

(* LineBuffer and content_after_blanks: the first line with content from i on. *)
NextContent(ls, i) ==
  LET content == {j \in i .. Len(ls) : ~Blank(ls[j])}
  IN IF content = {} THEN Len(ls) + 1 ELSE Min(content)

(* A node starts after `at` dashes of its first line, or behind the key of *)
(* that line; the kids of a mapping have a key and the line of the key.    *)
BehindKey == -1
Node(kind, first, last, at, texts, kids) ==
  [kind |-> kind, first |-> first, last |-> last, at |-> at, texts |-> texts, kids |-> kids]
Kid(key, line, node) == [key |-> key, line |-> line, node |-> node]

Parsed(node, next) == [node |-> node, next |-> next]

(* Mutant of Collection: the span ends with the first entry. *)
CollectionOfFirst(kind, i, d, kids) ==
  Node(kind, i, kids[1].node.last, d, <<>>, kids)

Collection(kind, i, d, kids) ==
  Node(kind, i, kids[Len(kids)].node.last, d, <<>>, kids)

Null(i, at) == Node("null", i, i, at, <<>>, <<>>)

Flow(i, at, text) ==
  Node(IF text = FlowMap THEN "map" ELSE "seq", i, i, at, <<>>, <<>>)

(* parse_plain_scalar: whether the line carries on the plain scalar of an  *)
(* entry of the given indentation.  A dash deeper than the entry does.     *)
Continues(l, parent, same) ==
  /\ l.ind > parent \/ (l.ind = parent /\ same)
  /\ ~(l.ind <= parent /\ l.dashes > 0)
  /\ l.key = None

(* The line after the last one of the plain scalar that is at line i. *)
RECURSIVE PlainEnd(_, _, _, _)
PlainEnd(ls, i, parent, same) ==
  LET uncommented == {j \in i + 1 .. Len(ls) : ~Blank(ls[j]) \/ ls[j].note # 0}
      j == IF uncommented = {} THEN Len(ls) + 1 ELSE Min(uncommented)
  IN IF /\ ls[i].note = 0 /\ j <= Len(ls)
        /\ ~Blank(ls[j]) /\ Continues(ls[j], parent, same)
     THEN PlainEnd(ls, j, parent, same)
     ELSE i

(* A scalar or an empty flow collection at line i. *)
Leaf(ls, i, at, parent, same) ==
  IF ls[i].text \in {FlowMap, FlowSeq}
  THEN Parsed(Flow(i, at, ls[i].text), i + 1)
  ELSE LET last  == PlainEnd(ls, i, parent, same)
           texts == <<ls[i].text>> \o [k \in 1 .. last - i |-> <<ls[i + k].dashes, ls[i + k].text>>]
       IN Parsed(Node("scalar", i, last, at, texts, <<>>), last + 1)

(* The calls of the parser: what is parsed, from which line, behind how    *)
(* many dashes, and at which column the collection it belongs to is.       *)
Call(what, i, at, col) == [what |-> what, i |-> i, at |-> at, col |-> col]
Calls(ls) ==
  [what : {"items", "entries", "value", "pair", "nested"}, i : DOMAIN ls, at : Int, col : Int]

Starts(ls, i, col)  == i <= Len(ls) /\ ls[i].ind = col
StartsItem(ls, i, col)  == Starts(ls, i, col) /\ ls[i].dashes > 0
StartsEntry(ls, i, col) == Starts(ls, i, col) /\ ls[i].dashes = 0 /\ ls[i].key # None

(* The operators below take the parser itself, a function of its calls. *)

(* parse_sequence, parse_inline_sequence_item: the items from line i on. *)
Items(parse, ls, call) ==
  LET item == parse[Call("value", call.i, call.at + 1, call.col)]
      k    == NextContent(ls, item.next)
      rest == IF StartsItem(ls, k, call.col)
              THEN parse[Call("items", k, 0, call.col)]
              ELSE [kids |-> <<>>, next |-> k]
  IN [kids |-> <<Kid(None, call.i, item.node)>> \o rest.kids, next |-> rest.next]

(* parse_mapping, parse_inline_mapping_item: the entries from line i on. *)
Entries(parse, ls, call) ==
  LET value == parse[Call("pair", call.i, call.at, call.col)]
      k     == NextContent(ls, value.next)
      rest  == IF StartsEntry(ls, k, call.col)
               THEN parse[Call("entries", k, 0, call.col)]
               ELSE [kids |-> <<>>, next |-> k]
  IN [kids |-> <<Kid(ls[call.i].key, call.i, value.node)>> \o rest.kids, next |-> rest.next]

(* A collection that starts behind d dashes of line i. *)
Sequence(parse, i, d, col) ==
  LET all == parse[Call("items", i, d, col)] IN Parsed(Collection("seq", i, d, all.kids), all.next)
Mapping(parse, i, d, col) ==
  LET all == parse[Call("entries", i, d, col)] IN Parsed(Collection("map", i, d, all.kids), all.next)

(* parse_node, parse_sequence_value_from_line: what is behind the dashes.  *)
(* Only the scalar of the root may go on without deeper indentation.       *)
NodeBehind(parse, ls, call) ==
  LET l == ls[call.i]
      column == l.ind + 2 * call.at
  IN IF l.dashes > call.at THEN Sequence(parse, call.i, call.at, column)
     ELSE IF l.key # None THEN Mapping(parse, call.i, call.at, column)
     ELSE IF l.text # None THEN Leaf(ls, call.i, call.at, call.col, call.at = 0)
     ELSE parse[Call("nested", call.i, call.at, call.col)]

(* parse_mapping_pair, parse_mapping_value_or_null: a sequence may have    *)
(* the indentation of its key.                                             *)
PairValue(parse, ls, call) ==
  LET below == NextContent(ls, call.i + 1) IN
  IF ls[call.i].text # None THEN Leaf(ls, call.i, BehindKey, call.col, FALSE)
  ELSE IF StartsItem(ls, below, call.col) THEN Sequence(parse, below, 0, call.col)
  ELSE parse[Call("nested", call.i, BehindKey, call.col)]

(* parse_nested_or_null *)
NestedOrNull(parse, ls, call) ==
  LET below == NextContent(ls, call.i + 1) IN
  IF below > Len(ls) \/ ls[below].ind <= call.col THEN Parsed(Null(call.i, call.at), call.i + 1)
  ELSE IF ls[below].dashes = 0 /\ ls[below].key = None THEN Leaf(ls, below, 0, call.col, FALSE)
  ELSE parse[Call("value", below, 0, ls[below].ind)]

Parser(ls) ==
  LET parse[call \in Calls(ls)] ==
    CASE call.what = "items"   -> Items(parse, ls, call)
      [] call.what = "entries" -> Entries(parse, ls, call)
      [] call.what = "value"   -> NodeBehind(parse, ls, call)
      [] call.what = "pair"    -> PairValue(parse, ls, call)
      [] call.what = "nested"  -> NestedOrNull(parse, ls, call)
  IN parse

Whole(ls) ==
  LET i == NextContent(ls, 1) IN Parser(ls)[Call("value", i, 0, ls[i].ind)]
Root(ls)  == Whole(ls).node

(* The document is one node with nothing behind it.  Keys may be repeated: *)
(* the check for duplicates is off while events are recorded, which is how *)
(* the editor parses (check_duplicate_for_schema).                         *)
Parses(ls) ==
  /\ NextContent(ls, 1) <= Len(ls)
  /\ NextContent(ls, Whole(ls).next) > Len(ls)

(* The value of a node: what remains of it when positions are forgotten. *)
RECURSIVE Value(_)
Value(n) ==
  [kind |-> n.kind, texts |-> n.texts,
   kids |-> [i \in DOMAIN n.kids |-> [key |-> n.kids[i].key, value |-> Value(n.kids[i].node)]]]
=============================================================================
