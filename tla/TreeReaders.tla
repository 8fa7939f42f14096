------------------------------ MODULE TreeReaders ------------------------------
(***************************************************************************)
(* The five copies of the reading in src/de.rs, method by method as each   *)
(* writes it out.  They differ in when merge keys are expanded (never, in  *)
(* the entries at hand, or in the whole tree first), in what a string is   *)
(* read from and in which nulls are empty collections.                     *)
(***************************************************************************)
EXTENDS EventReaders

Methods == {"any", "bool", "f64", "char", "str", "bytes", "option", "unit", "newtype",
            "seq", "tuple", "map", "enum", "ignored"} \union IntegerMethods

-----------------------------------------------------------------------------
(* What the copies of a node share.                                        *)

IsEmptyNull(n) == n.kind = "null" /\ n.src \in {NoSource, ""}

NodeSequence(path, n) ==
  LET bare == Untagged(n) IN
  CASE SequenceTag(n) # "none" -> TaggedSequence(path, n)
    [] IsEmptyNull(bare)       -> Indexed(path, <<>>)
    [] bare.kind = "seq"       -> Indexed(path, bare.kids)
    [] OTHER -> Fails

NodeMapping(path, n, entries) ==
  LET bare == Untagged(n) IN
  CASE Explicit(n, "omap") # Absent -> TaggedMapping(path, n)
    [] IsEmptyNull(bare)            -> Keyed(path, <<>>)
    [] bare.kind = "map"            -> IF entries = Refused THEN Fails ELSE Keyed(path, entries)
    [] OTHER -> Fails

NodeText(method, n) ==
  CASE method = "f64"   -> ReadFloat(n)
    [] method = "char"  -> ReadChar(n)
    [] method = "str"   -> ReadSpelling(n)
    [] method = "bytes" -> ReadBytes(n)

-----------------------------------------------------------------------------
(* InputNode: the parser has expanded the merge keys there are.            *)

InputAny(n)            == NodeAny("input", n, n.kids)
InputScalar(method, n) == Scalar(method, n)
InputText(method, n)   == NodeText(method, n)

InputContent(method, n) ==
  CASE method = "option"  -> Optional("input", n)
    [] method = "unit"    -> ReadUnit(n)
    [] method = "newtype" -> Newtype("input", n)
    [] method = "seq"     -> NodeSequence("input", n)

InputMapping(method, n) ==
  CASE method = "map"     -> NodeMapping("input", n, Untagged(n).kids)
    [] method = "enum"    -> NodeVariant("input", n)
    [] method = "ignored" -> Pass("unit", "")

-----------------------------------------------------------------------------
(* &Node: the merge key of the entries at hand.                            *)

(* merged_node_ref_entries *)
NodeRefEntries(n) == IF n.kind = "map" THEN MergedEntries(TRUE, n.kids) ELSE <<>>

NodeRefAny(n)            == NodeAny("node_ref", n, NodeRefEntries(n))
NodeRefScalar(method, n) == Scalar(method, n)
NodeRefText(method, n)   == NodeText(method, n)

NodeRefContent(method, n) ==
  CASE method = "option"  -> Optional("node_ref", n)
    [] method = "unit"    -> ReadUnit(n)
    [] method = "newtype" -> Newtype("node_ref", n)
    [] method = "seq"     -> NodeSequence("node_ref", n)

(* Mutant of NodeRefMapping: a map takes the entries as they stand.        *)
NodeRefMappingUnmerged(method, n) ==
  CASE method = "map"     -> NodeMapping("node_ref", n, Untagged(n).kids)
    [] method = "enum"    -> NodeVariant("node_ref", n)
    [] method = "ignored" -> Pass("unit", "")

NodeRefMapping(method, n) ==
  CASE method = "map"     -> NodeMapping("node_ref", n, NodeRefEntries(Untagged(n)))
    [] method = "enum"    -> NodeVariant("node_ref", n)
    [] method = "ignored" -> Pass("unit", "")

-----------------------------------------------------------------------------
(* Node: the merge keys of the whole tree, when anything or a map is asked.*)

NodeOwnedAny(n) ==
  LET merged == Merged(n) IN
  IF merged = Failed THEN Fails ELSE NodeAny("node", merged, merged.kids)

NodeOwnedScalar(method, n) == Scalar(method, n)
NodeOwnedText(method, n)   == NodeText(method, n)

NodeOwnedContent(method, n) ==
  CASE method = "option"  -> Optional("node", n)
    [] method = "unit"    -> ReadUnit(n)
    [] method = "newtype" -> Newtype("node", n)
    [] method = "seq"     -> NodeSequence("node", n)

NodeOwnedMapping(method, n) ==
  LET merged == IF Explicit(n, "omap") # Absent THEN n ELSE Merged(Untagged(n)) IN
  CASE method = "map"     -> IF merged = Failed THEN Fails ELSE NodeMapping("node", merged, merged.kids)
    [] method = "enum"    -> NodeVariant("node", n)
    [] method = "ignored" -> Pass("unit", "")

-----------------------------------------------------------------------------
(* What the copies of a value share.                                       *)

ValueAny(path, n, entries) ==
  IF n.kind = "map" /\ entries = Refused THEN Fails ELSE NodeAny(path, n, entries)

ValueText(method, n) ==
  CASE method = "f64"   -> ReadFloat(n)
    [] method = "char"  -> ReadChar(n)
    [] method = "str"   -> ReadString(n)
    [] method = "bytes" -> ReadBytes(n)

ValueSequence(path, n) ==
  LET bare == Untagged(n) IN
  CASE SequenceTag(n) # "none" -> TaggedSequence(path, n)
    [] bare.kind = "null"      -> Indexed(path, <<>>)
    [] bare.kind = "seq"       -> Indexed(path, bare.kids)
    [] OTHER -> Fails

ValueMapping(path, n, entries) ==
  LET bare == Untagged(n) IN
  CASE Explicit(n, "omap") # Absent -> TaggedMapping(path, n)
    [] bare.kind = "null"           -> Keyed(path, <<>>)
    [] bare.kind = "map"            -> IF entries = Refused THEN Fails ELSE Keyed(path, entries)
    [] OTHER -> Fails

-----------------------------------------------------------------------------
(* Value: apply_default_value_merges on the whole value first.             *)

ValueOwnedAny(n) ==
  LET merged == MergedValue(n) IN
  IF merged = Failed THEN Fails ELSE ValueAny("value", merged, merged.kids)

ValueOwnedScalar(method, n) == Scalar(method, n)
ValueOwnedText(method, n)   == ValueText(method, n)

ValueContent(method, n, merged) ==
  CASE method = "unit"   -> ReadUnit(n)
    [] merged = Failed   -> Fails
    [] method = "option" -> Optional("value", merged)
    [] method = "newtype" -> Newtype("value", merged)
    [] method = "seq"    -> ValueSequence("value", merged)

ValueOwnedContent(method, n) == ValueContent(method, n, MergedValue(n))

ValueMappingOf(method, merged) ==
  CASE method = "ignored" -> Pass("unit", "")
    [] merged = Failed    -> Fails
    [] method = "map"     -> ValueMapping("value", merged, Untagged(merged).kids)
    [] method = "enum"    -> NodeVariant("value", merged)

ValueOwnedMapping(method, n) == ValueMappingOf(method, MergedValue(n))

-----------------------------------------------------------------------------
(* &Value: the merge key of the entries at hand, for an enum too.          *)

(* merged_value_ref_entries *)
ValueRefEntries(n) == IF n.kind = "map" THEN MergedEntries(FALSE, n.kids) ELSE <<>>

ValueRefAny(n)            == ValueAny("value_ref", n, ValueRefEntries(n))
ValueRefScalar(method, n) == Scalar(method, n)
ValueRefText(method, n)   == ValueText(method, n)

ValueRefContent(method, n) ==
  CASE method = "option"  -> Optional("value_ref", n)
    [] method = "unit"    -> ReadUnit(n)
    [] method = "newtype" -> Newtype("value_ref", n)
    [] method = "seq"     -> ValueSequence("value_ref", n)

ValueRefMapping(method, n) ==
  LET entries == ValueRefEntries(n) IN
  CASE method = "map"     -> ValueMapping("value_ref", n, ValueRefEntries(Untagged(n)))
    [] method = "enum"    -> IF n.kind # "map" THEN NodeVariant("value_ref", n)
                             ELSE IF entries # Refused /\ Len(entries) = 1
                                  THEN KeyVariant("value_ref", entries[1]) ELSE Fails
    [] method = "ignored" -> Pass("unit", "")

-----------------------------------------------------------------------------
(* The deserializers by name, and the two that stand before them: a stream *)
(* of documents, read from text ("document") or from a reader ("reader"),  *)
(* which do not forward the 128-bit methods.                               *)

Group(method) ==
  CASE method = "any" -> "any"
    [] method \in {"bool"} \union IntegerMethods -> "scalar"
    [] method \in {"f64", "char", "str", "bytes"} -> "text"
    [] method \in {"option", "unit", "newtype", "seq"} -> "content"
    [] method \in {"map", "enum", "ignored"} -> "mapping"

InputAnswer(method, n) ==
  CASE Group(method) = "any"     -> InputAny(n)
    [] Group(method) = "scalar"  -> InputScalar(method, n)
    [] Group(method) = "text"    -> InputText(method, n)
    [] Group(method) = "content" -> InputContent(method, n)
    [] Group(method) = "mapping" -> InputMapping(method, n)

NodeRefAnswer(method, n) ==
  CASE Group(method) = "any"     -> NodeRefAny(n)
    [] Group(method) = "scalar"  -> NodeRefScalar(method, n)
    [] Group(method) = "text"    -> NodeRefText(method, n)
    [] Group(method) = "content" -> NodeRefContent(method, n)
    [] Group(method) = "mapping" -> NodeRefMapping(method, n)

NodeOwnedAnswer(method, n) ==
  CASE Group(method) = "any"     -> NodeOwnedAny(n)
    [] Group(method) = "scalar"  -> NodeOwnedScalar(method, n)
    [] Group(method) = "text"    -> NodeOwnedText(method, n)
    [] Group(method) = "content" -> NodeOwnedContent(method, n)
    [] Group(method) = "mapping" -> NodeOwnedMapping(method, n)

ValueOwnedAnswer(method, n) ==
  CASE Group(method) = "any"     -> ValueOwnedAny(n)
    [] Group(method) = "scalar"  -> ValueOwnedScalar(method, n)
    [] Group(method) = "text"    -> ValueOwnedText(method, n)
    [] Group(method) = "content" -> ValueOwnedContent(method, n)
    [] Group(method) = "mapping" -> ValueOwnedMapping(method, n)

ValueRefAnswer(method, n) ==
  CASE Group(method) = "any"     -> ValueRefAny(n)
    [] Group(method) = "scalar"  -> ValueRefScalar(method, n)
    [] Group(method) = "text"    -> ValueRefText(method, n)
    [] Group(method) = "content" -> ValueRefContent(method, n)
    [] Group(method) = "mapping" -> ValueRefMapping(method, n)

(* deserialize_tuple is deserialize_seq, but for events                     *)
Ask(path, asked, n) ==
  LET method == IF asked = "tuple" /\ path # "events" THEN "seq" ELSE asked IN
  CASE path = "input"     -> InputAnswer(method, n)
    [] path = "node_ref"  -> NodeRefAnswer(method, n)
    [] path = "node"      -> NodeOwnedAnswer(method, n)
    [] path = "value"     -> ValueOwnedAnswer(method, n)
    [] path = "value_ref" -> ValueRefAnswer(method, n)
    [] path = "events"    -> EventAnswer(method, n)
    [] path = "prepared"  -> PreparedAnswer(method, n)

(* document_forward, impl Deserializer for Document and for &Document      *)
NotForwarded == {"i128", "u128"}

(* The scalars of serde's own deserializers and of a pair.                 *)
Direct(part, method) ==
  CASE part.via \in {"tree", "stream"} ->
         IF part.via = "stream" /\ method \in NotForwarded THEN Fails
         ELSE Ask(part.path, method, part.tree)
    [] part.via = "pair"   -> PairOf(part.path, part.tree)
    [] part.via = "byte"   -> Pass("u64", part.tree.text)
    [] part.via = "name"   -> Pass("str", part.tree.text)
    [] part.via = "broken" -> Fails
=============================================================================
