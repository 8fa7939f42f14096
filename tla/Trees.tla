-------------------------------- MODULE Trees --------------------------------
(***************************************************************************)
(* The trees that are deserialized: Node, with the spelling and the place  *)
(* of its scalars, and Value, without.  A tree is a record of its kind,    *)
(* its text (a string, a tag's name, a number's class), the spelling it    *)
(* was read from, the place it was read at and its children; a mapping's   *)
(* children are its entries, an entry's are a key and a value.             *)
(*                                                                         *)
(* A number is known by the narrowest types that hold it:                  *)
(*                                                                         *)
(*   "low" < i64 <= "neg" < 0 <= "small" <= i64 < "big" <= u64             *)
(*                                  < "huge" <= i128 < "vast" <= u128      *)
(***************************************************************************)
EXTENDS Integers, Sequences, SequencesExt

NoSource == "absent"

Tree(kind, text, src, kids) ==
  [kind |-> kind, text |-> text, src |-> src, span |-> 0, kids |-> kids]

Null(src)   == Tree("null", "", src, <<>>)
Bool(text)  == Tree("bool", text, text, <<>>)
Signed(class)  == Tree("int", class, class, <<>>)      \* Number::Integer
Unsigned(class) == Tree("uint", class, class, <<>>)     \* Number::Unsigned
Float(text) == Tree("float", text, text, <<>>)
Str(text)   == Tree("str", text, NoSource, <<>>)
List(items) == Tree("seq", "", NoSource, items)
Entry(k, v) == Tree("entry", "", NoSource, <<k, v>>)
Table(entries) == Tree("map", "", NoSource, entries)
Tag(name, n)  == Tree("tag", name, NoSource, <<n>>)
Placed(n, at) == [n EXCEPT !.span = at]

Absent == Tree("absent", "", NoSource, <<>>)
Failed == Tree("failed", "", NoSource, <<>>)

Key(entry) == entry.kids[1]
Val(entry) == entry.kids[2]

Numbers == {"int", "uint", "float"}
Plain   == {"null", "bool"} \union Numbers

(* Node::into_value: the spelling and the place are lost                   *)
RECURSIVE ValueOf(_)
ValueOf(n) == [n EXCEPT !.src = NoSource, !.span = 0, !.kids = [i \in DOMAIN @ |-> ValueOf(@[i])]]

(* What Value::eq tells apart: 7 as a u64 and 7 as an i64 are the same.  (A *)
(* mapping inside a key with its entries in another order is not modelled.)*)
RECURSIVE Equated(_)
Equated(n) ==
  [n EXCEPT !.src = NoSource, !.span = 0, !.kind = IF @ = "uint" THEN "int" ELSE @,
            !.kids = [i \in DOMAIN @ |-> Equated(@[i])]]

(* untag_node, untag_value *)
RECURSIVE Untagged(_)
Untagged(n) == IF n.kind = "tag" THEN Untagged(n.kids[1]) ELSE n

(* Mutant of Explicit: a core tag is only looked for outermost.            *)
ExplicitOutermost(n, name) == IF n.kind = "tag" /\ n.text = name THEN n.kids[1] ELSE Absent

(* explicit_core_tagged_node: what the first core tag of a name is put on  *)
RECURSIVE Explicit(_, _)
Explicit(n, name) ==
  CASE n.kind # "tag"   -> Absent
    [] n.text = name    -> n.kids[1]
    [] OTHER            -> Explicit(n.kids[1], name)

-----------------------------------------------------------------------------
(* The texts of explicitly tagged scalars (yaml11.rs): what they stand for *)

ParsedInt(text) ==
  CASE text = "7" -> Signed("small") [] text = "-7" -> Signed("neg") [] OTHER -> Failed

ParsedFloat(text) == IF text = "7" THEN Float("small") ELSE Failed

ParsedBool(text) ==
  CASE text \in {"yes", "true"} -> Bool("true") [] text = "no" -> Bool("false") [] OTHER -> Failed

ParsedNull(text) == IF text \in {"", "~"} THEN Null(NoSource) ELSE Failed

Parsed(name, text) ==
  CASE name = "int"   -> ParsedInt(text)
    [] name = "float" -> ParsedFloat(text)
    [] name = "bool"  -> ParsedBool(text)
    [] name = "null"  -> ParsedNull(text)

(* explicit_core_{int,float,bool,null}_node and _value: a string is parsed *)
(* as its tag says; no tag leaves the scalar as it was resolved.           *)
Resolved(n, name) ==
  LET content == Explicit(n, name) IN
  CASE content = Absent      -> Untagged(n)
    [] content.kind = "str"  -> Parsed(name, content.text)
    [] OTHER                 -> content

-----------------------------------------------------------------------------
(* Merge keys, their payloads well-formed or not; how deep they may nest   *)
(* and the ways their order could differ are in MergeKeys.                 *)

(* node_key_is_merge_key, value_key_is_merge_key *)
IsMergeKey(k) ==
  LET n == IF k.kind = "tag" /\ k.text = "merge" THEN k.kids[1] ELSE k
  IN  n.kind = "str" /\ n.text = "<<"

FirstMerge(entries) == SelectInSeq(entries, LAMBDA e : IsMergeKey(Key(e)))

Refused == <<Failed>>

(* Are two keys the same?  By reference, nodes are compared with all they  *)
(* carry (the derived Node::eq); elsewhere by their values.                *)
SameKey(exact, k, l) == IF exact THEN k = l ELSE Equated(k) = Equated(l)

(* insert_missing_node_ref_entries, insert_missing_value_ref_entries       *)
InsertMissing(exact, entries, merged) ==
  FoldLeft(LAMBDA sofar, e :
             IF \E i \in DOMAIN sofar : SameKey(exact, Key(sofar[i]), Key(e))
             THEN sofar ELSE Append(sofar, e),
           entries, merged)

RECURSIVE MergedEntries(_, _)

Payloads(payload) == IF payload.kind = "seq" THEN payload.kids ELSE <<payload>>

InsertAll(exact, parts) ==
  IF Contains(parts, Refused) THEN Refused
  ELSE FoldLeft(LAMBDA sofar, part : InsertMissing(exact, sofar, part), <<>>, parts)

(* node_ref_merge_entries, value_ref_merge_entries *)
MergePayload(exact, payload) ==
  LET items == Payloads(payload) IN
  InsertAll(exact, [i \in DOMAIN items |->
                      IF items[i].kind = "map" THEN MergedEntries(exact, items[i].kids) ELSE Refused])

MergeInto(exact, entries, merged) ==
  IF merged = Refused THEN Refused ELSE InsertMissing(exact, entries, merged)

(* merged_node_ref_entries, merged_value_ref_entries: the first merge key  *)
MergedEntries(exact, entries) ==
  LET m == FirstMerge(entries) IN
  IF m = 0 THEN entries
  ELSE MergeInto(exact, RemoveAt(entries, m), MergePayload(exact, Val(entries[m])))

(* A tree with other children, unless one of them has failed.              *)
Remade(n, kids) == IF Contains(kids, Failed) THEN Failed ELSE [n EXCEPT !.kids = kids]

(* Node::apply_merge_keys_with_policy (strict): the merge keys of a whole  *)
(* tree, except in keys                                                    *)
RECURSIVE Merged(_)

MergedKids(n, entries) ==
  [i \in DOMAIN entries |->
     IF n.kind = "entry" /\ i = 1 THEN entries[i] ELSE Merged(entries[i])]

Merged(n) ==
  Remade(n, MergedKids(n, IF n.kind = "map" THEN MergedEntries(FALSE, n.kids) ELSE n.kids))

(* Value::apply_merge: the entries of a payload as they stand, so that a   *)
(* merge key of the payload is left over                                   *)
Spliced(entries) ==
  LET m == FirstMerge(entries)
      payload == Val(entries[m])
      items == Payloads(payload)
  IN  CASE m = 0 -> entries
        [] m # 0 /\ \E i \in DOMAIN items : items[i].kind # "map" -> Refused
        [] OTHER -> FoldLeft(LAMBDA sofar, item : InsertMissing(FALSE, sofar, item.kids),
                             RemoveAt(entries, m), items)

RECURSIVE MergedValue(_)

MergedValueKids(n, entries) ==
  [i \in DOMAIN entries |->
     IF n.kind = "entry" /\ i = 1 THEN entries[i] ELSE MergedValue(entries[i])]

MergedValue(n) == Remade(n, MergedValueKids(n, IF n.kind = "map" THEN Spliced(n.kids) ELSE n.kids))

(* Entries with the same key: the last value, at the first place           *)
(* (Mapping::from_deserialized_entries, a map's insert).                   *)
Deduplicated(entries) ==
  FoldLeft(LAMBDA sofar, e :
             LET i == SelectInSeq(sofar, LAMBDA f : Equated(Key(f)) = Equated(Key(e))) IN
             IF i = 0 THEN Append(sofar, e) ELSE [sofar EXCEPT ![i] = Entry(Key(sofar[i]), Val(e))],
           <<>>, entries)
=============================================================================
