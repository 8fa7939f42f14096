----------------------------- MODULE ValueMerge -----------------------------
(***************************************************************************)
(* Value::apply_merge: the third expansion of merge keys, of trees built   *)
(* by a caller.  It splices the entries of a payload as they stand, and    *)
(* expands a `<<` key among them where it has come to stand, as a value;   *)
(* so it has to work on trees, not only on the mappings of the document.   *)
(***************************************************************************)
EXTENDS MergeKeys

VARIABLE values   (* what deserializing each mapping as a Value made of it *)

(* The tree: aliases are copies of their mappings.                         *)
Value(kind, place, entries, items) ==
  [kind |-> kind, place |-> place, entries |-> entries, items |-> items]
Opaque(place) == Value("scalar", place, <<>>, <<>>)

RECURSIVE Tree(_)
Payload(pay, place) ==
  CASE pay.kind = "map" -> Value("map", place, Tree(pay.refs[1]), <<>>)
    [] pay.kind = "seq" ->
         Value("seq", place, <<>>,
               [n \in DOMAIN pay.refs |->
                  IF pay.refs[n] = 0 THEN Opaque(place)
                  ELSE Value("map", place, Tree(pay.refs[n]), <<>>)])
    [] OTHER -> Value(pay.kind, place, <<>>, <<>>)

Tree(i) == [p \in DOMAIN doc[i] |->
              [key |-> doc[i][p].key, val |-> Payload(doc[i][p].pay, <<i, p>>)]]

MergeAt(es) == SelectInSeq(es, LAMBDA e : e.key = MergeKey)

-----------------------------------------------------------------------------
SpliceSource(sofar, val) ==
  IF Fails(sofar) THEN sofar
  ELSE IF val.kind # "map" THEN Err("payload")
  ELSE Ok(InsertMissing(sofar.entries, val.entries))

Splice(es, merge) ==
  CASE merge.kind = "map" -> SpliceSource(Ok(es), merge)
    [] merge.kind = "seq" -> FoldLeft(SpliceSource, Ok(es), merge.items)
    [] OTHER -> Err("payload")

(* push_mapping_values: the depth of the value of a `<<` key left over.    *)
ResidualDepth(depth) == depth + 2

RECURSIVE ApplyMerge(_, _)
ApplyMergeValue(val, depth) ==
  IF val.kind = "map"
  THEN LET r == ApplyMerge(val.entries, depth)
       IN [err |-> r.err, val |-> [val EXCEPT !.entries = r.entries]]
  ELSE LET items  == [n \in DOMAIN val.items |-> ApplyMerge(val.items[n].entries, 0)]
           failed == {n \in DOMAIN items : Fails(items[n])}
       IN [err |-> IF failed = {} THEN "none" ELSE items[Max(failed)].err,
           val |-> [val EXCEPT !.items = [n \in DOMAIN items |->
                      [val.items[n] EXCEPT !.entries = items[n].entries]]]]

ApplyMerge(es, depth) ==
  LET m == MergeAt(es) IN
  IF m = 0 THEN Ok(es)
  ELSE IF TooDeep(depth + 1) THEN Err("depth")
  ELSE LET spliced == Splice(RemoveAt(es, m), es[m].val)
           rest    == MergeAt(spliced.entries)
       IN IF Fails(spliced) \/ rest = 0 THEN spliced
          ELSE LET r == ApplyMergeValue(spliced.entries[rest].val, ResidualDepth(depth))
               IN [err |-> r.err, entries |-> [spliced.entries EXCEPT ![rest].val = r.val]]

(* from_value: once at the entry point, once in deserialize_any            *)
ApplyMergeTwice(es) ==
  LET first == ApplyMerge(es, 0) IN
  IF Fails(first) THEN first ELSE ApplyMerge(first.entries, 0)

-----------------------------------------------------------------------------
(* After the nodes of a document, its values.                              *)

DeserializeValues ==
  /\ mode = "built" /\ at = "read" /\ values = <<>>
  /\ values' = [i \in DOMAIN doc |->
                  [value |-> ApplyMerge(Tree(i), 0), from_value |-> ApplyMergeTwice(Tree(i))]]
  /\ UNCHANGED vars

AllVars == <<vars, values>>
AllInit == Init /\ values = <<>>
AllNext == (Next /\ UNCHANGED values) \/ DeserializeValues
AllSpec == AllInit /\ [][AllNext]_AllVars

-----------------------------------------------------------------------------
Chain == \A i \in DOMAIN doc : \A p \in DOMAIN doc[i] :
           doc[i][p].key = MergeKey => doc[i][p].pay.kind = "map"

(* A caller's tree deserializes the same whether it is given away or       *)
(* borrowed (NodesAgree); and on chains of plain merges every path, those  *)
(* of values included, draws the line at the same depth.                   *)
PathsAgree ==
  /\ NodesAgree
  /\ values # <<>> /\ Chain =>
       \A i \in DOMAIN doc : /\ values[i].value.err = read[i].node.err
                             /\ values[i].from_value.err = read[i].node.err

(* CHANGELOG.md: caller-built values and nodes expand `<<` keys when they  *)
(* are deserialized, "matching `from_value`": a Value both paths accept    *)
(* means the same mapping to both.                                         *)
OwnedValueExpands ==
  \A i \in DOMAIN values :
    ~Fails(values[i].value) /\ ~Fails(values[i].from_value)
      => values[i].value = values[i].from_value
=============================================================================
