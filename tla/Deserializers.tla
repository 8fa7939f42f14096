---------------------------- MODULE Deserializers ----------------------------
(***************************************************************************)
(* The serde deserializers of src/de.rs and src/event_de.  One reading is  *)
(* written out seven times, for the ways to hold a tree:                   *)
(*                                                                         *)
(*   "input"      InputNode: a parsed Node with the text it came from      *)
(*   "node_ref"   &Node           "node"      Node                         *)
(*   "value_ref"  &Value          "value"     Value                        *)
(*   "events"     its events      "prepared"  a Node built from events     *)
(*                                                                         *)
(* A deserializer is asked for a value by a method (deserialize_i64 and so *)
(* on) and answers by one call of its visitor: the call's name, the scalar *)
(* it passes, and the deserializers of the parts it hands over, each with  *)
(* the segment it adds to the path of an error.                            *)
(***************************************************************************)
EXTENDS Trees, TLC

Visit(call, text, parts) == [call |-> call, text |-> text, parts |-> parts]
Pass(call, text) == Visit(call, text, <<>>)
Fails == Visit("error", "", <<>>)

NoSegment == Absent
Index(i)  == Tree("index", ToString(i - 1), NoSource, <<>>)

(* node_path_segment, value_path_segment *)
Segment(k) ==
  LET n == Untagged(k) IN
  CASE n.kind = "str"   -> Tree("key", n.text, NoSource, <<>>)
    [] n.kind \in Plain -> Tree("scalar", n.text, NoSource, <<>>)
    [] OTHER            -> Tree("complex", "", NoSource, <<>>)

(* path_segment_for_node, of src/event_de: a tagged key is a complex one   *)
SegmentOf(path, k) ==
  IF path \in {"events", "prepared"} /\ k.kind = "tag" THEN Tree("complex", "", NoSource, <<>>)
  ELSE Segment(k)

(* A deserializer that is handed over: of a tree in one of these ways,     *)
(* or one of serde's own, possibly inside one of SingletonMaps.  An error inside a value or an item gets the     *)
(* segment in front of its path (with_value_path, with_index), one inside  *)
(* a key only when it has no path yet (with_key_path).                     *)
Part(path, via, n, role, segment) ==
  [path |-> path, via |-> via, tree |-> n, role |-> role, segment |-> segment, wrap |-> "none"]
At(path, n, segment)    == Part(path, "tree", n, "value", segment)
AtKey(path, n, segment) == Part(path, "tree", n, "key", segment)
Bare(path, n)           == Part(path, "tree", n, "bare", NoSegment)
Name(text)              == Part("", "name", Str(text), "bare", NoSegment)
Broken                  == Part("", "broken", Absent, "bare", NoSegment)
Nothing                 == Part("", "nothing", Absent, "bare", NoSegment)

-----------------------------------------------------------------------------
(* Numbers (visit_i64_number .. visit_any_number).                         *)

Fits ==
  [i64  |-> {"neg", "small"},
   u64  |-> {"small", "big"},
   i128 |-> {"low", "neg", "small", "big", "huge"},
   u128 |-> {"small", "big", "huge", "vast"}]

IntegerMethods == DOMAIN Fits

VisitInteger(method, n) ==
  IF n.kind \in {"int", "uint"} /\ n.text \in Fits[method] THEN Pass(method, n.text) ELSE Fails

VisitFloat(n) == IF n.kind \in Numbers THEN Pass("f64", n.text) ELSE Fails

(* Mutant of VisitAnyNumber: every unsigned number is passed as u64.       *)
VisitAnyTruncated(n) ==
  CASE n.kind = "float" -> Pass("f64", n.text)
    [] n.kind = "int"   -> Pass(IF n.text \in Fits.i64 THEN "i64" ELSE "i128", n.text)
    [] n.kind = "uint"  -> Pass("u64", IF n.text \in Fits.u64 THEN n.text ELSE "big")

VisitAnyNumber(n) ==
  CASE n.kind = "float" -> Pass("f64", n.text)
    [] n.kind = "int"   -> Pass(IF n.text \in Fits.i64 THEN "i64" ELSE "i128", n.text)
    [] n.kind = "uint"  -> Pass(IF n.text \in Fits.u64 THEN "u64" ELSE "u128", n.text)

-----------------------------------------------------------------------------
(* What the copies share: scalars.                                         *)

ReadBool(n) ==
  LET b == Resolved(n, "bool") IN IF b.kind = "bool" THEN Pass("bool", b.text) ELSE Fails

ReadInteger(method, n) == VisitInteger(method, Resolved(n, "int"))

ReadFloat(n) ==
  VisitFloat(Resolved(n, IF Explicit(n, "float") # Absent THEN "float" ELSE "int"))

ReadUnit(n) == IF Resolved(n, "null").kind = "null" THEN Pass("unit", "") ELSE Fails

ReadChar(n) ==
  LET s == Untagged(n) IN
  IF s.kind = "str" /\ Len(s.text) = 1 THEN Pass("char", s.text) ELSE Fails

(* string_source_for_scalar: a scalar of a node is a string as it is spelt *)
ReadSpelling(n) ==
  LET s == Untagged(n) IN
  CASE s.kind = "str" -> Pass("str", s.text)
    [] s.kind \in Plain /\ s.src # NoSource -> Pass("str", s.src)
    [] OTHER -> Fails

ReadString(n) == LET s == Untagged(n) IN IF s.kind = "str" THEN Pass("str", s.text) ELSE Fails

(* decode_yaml_binary *)
Binary(text) ==
  CASE text = "Bw==" -> <<"small">> [] text = "" -> <<>> [] OTHER -> <<"bad">>

ReadBytes(n) ==
  LET content == Explicit(n, "binary") IN
  IF content.kind = "str" /\ Binary(content.text) # <<"bad">>
  THEN Pass("bytes", ToString(Binary(content.text))) ELSE Fails

Scalar(method, n) ==
  CASE method = "bool" -> ReadBool(n)
    [] method \in IntegerMethods -> ReadInteger(method, n)
    [] method = "f64"  -> ReadFloat(n)

(* The value of an option or a newtype is read without its tags.           *)
Optional(path, n) ==
  CASE Resolved(n, "null").kind = "null" -> Pass("none", "")
    [] Explicit(n, "null") # Absent -> Fails
    [] OTHER -> Visit("some", "", <<Bare(path, Untagged(n))>>)

Newtype(path, n) == Visit("newtype", "", <<Bare(path, Untagged(n))>>)

-----------------------------------------------------------------------------
(* What the copies share: collections and the YAML 1.1 tags on them.       *)

(* Mutant of Indexed: positions are counted from the second item.          *)
IndexedLate(path, items) ==
  Visit("seq", "", [i \in DOMAIN items |-> At(path, items[i], Index(i + 1))])

(* InputSeqDeserializer, SeqDeserializer *)
Indexed(path, items) ==
  Visit("seq", "", [i \in DOMAIN items |-> At(path, items[i], Index(i))])

Alternating(keys, values) ==
  [i \in 1..(2 * Len(keys)) |-> IF i % 2 = 1 THEN keys[(i + 1) \div 2] ELSE values[i \div 2]]

(* InputMapDeserializer, MapDeserializer, MergedMapDeserializer *)
Keyed(path, entries) ==
  Visit("map", "",
        Alternating([i \in DOMAIN entries |-> AtKey(path, Key(entries[i]), SegmentOf(path, Key(entries[i])))],
                    [i \in DOMAIN entries |-> At(path, Val(entries[i]), SegmentOf(path, Key(entries[i])))]))

(* the *SetKeySeqDeserializers and ensure_yaml11_set_null_*                *)
SetKeys(path, entries) ==
  Visit("seq", "",
        [i \in DOMAIN entries |->
           IF Resolved(Val(entries[i]), "null").kind = "null"
           THEN Bare(path, Key(entries[i])) ELSE Broken])

(* yaml11_singleton_pair_node, yaml11_singleton_pair_value *)
Singleton(item) ==
  LET n == Untagged(item) IN IF n.kind = "map" /\ Len(n.kids) = 1 THEN n.kids[1] ELSE Failed

(* the *Yaml11PairSeqDeserializers *)
PairItems(path, items) ==
  Visit("seq", "",
        [i \in DOMAIN items |->
           IF Singleton(items[i]) = Failed THEN Broken
           ELSE Part(path, "pair", Singleton(items[i]), "bare", NoSegment)])

(* the *Yaml11PairDeserializers: whatever is asked, a sequence of two      *)
PairOf(path, entry) ==
  Visit("seq", "", <<Bare(path, Key(entry)), Bare(path, Val(entry))>>)

(* Two keys of an ordered map are the same: nodes as duplicate keys are    *)
(* (key_identity.rs, tags aside), values as values.                        *)
RECURSIVE Bared(_)
Bared(n) == LET b == Untagged(n) IN [b EXCEPT !.kids = [i \in DOMAIN @ |-> Bared(@[i])]]

KeyIdentity(path, k) ==
  Equated(IF path \in {"value", "value_ref"} THEN k ELSE Bared(k))

(* the *Yaml11OmapDeserializers, validate_yaml11_omap_{node,value}_keys    *)
OmapEntries(path, items) ==
  LET pairs == [i \in DOMAIN items |-> Singleton(items[i])]
      keys  == [i \in DOMAIN items |-> KeyIdentity(path, Key(pairs[i]))]
  IN  IF Contains(pairs, Failed) \/ ~IsInjective(keys) THEN Fails
      ELSE Visit("map", "",
                 Alternating([i \in DOMAIN items |-> Bare(path, Key(pairs[i]))],
                             [i \in DOMAIN items |-> Bare(path, Val(pairs[i]))]))

(* ByteBufSeqDeserializer *)
Bytes(text) ==
  IF Binary(text) = <<"bad">> THEN Fails
  ELSE Visit("seq", "", [i \in DOMAIN Binary(text) |->
                           Part("", "byte", Unsigned(Binary(text)[i]), "bare", NoSegment)])

(* explicit_core_binary_bytes_*, yaml11_set_entries_*, yaml11_pair_items_*:*)
(* a sequence that its tag describes                                       *)
SequenceTags == <<"binary", "set", "omap", "pairs">>
SequenceTag(n) ==
  LET i == SelectInSeq(SequenceTags, LAMBDA name : Explicit(n, name) # Absent)
  IN  IF i = 0 THEN "none" ELSE SequenceTags[i]

TaggedAs(path, name, content) ==
  CASE name = "binary" /\ content.kind = "str" -> Bytes(content.text)
    [] name = "set" /\ content.kind = "map" -> SetKeys(path, content.kids)
    [] name \in {"omap", "pairs"} /\ content.kind = "seq" -> PairItems(path, content.kids)
    [] OTHER -> Fails

TaggedSequence(path, n) == TaggedAs(path, SequenceTag(n), Explicit(n, SequenceTag(n)))

TaggedMapping(path, n) ==
  LET content == Explicit(n, "omap") IN
  IF content.kind = "seq" THEN OmapEntries(path, content.kids) ELSE Fails

(* the *TaggedEnumDeserializers, the *EnumDeserializers and the string     *)
(* deserializer of a variant without content                               *)
TaggedVariant(path, n) == Visit("enum", "", <<Name(n.text), Bare(path, n.kids[1])>>)
KeyVariant(path, entry) == Visit("enum", "", <<Bare(path, Key(entry)), Bare(path, Val(entry))>>)
NameVariant(text) == Visit("enum", "", <<Name(text), Nothing>>)

(* The same in all copies: what a node or a merged tree gives when anything*)
(* is asked, and when an enum is.                                          *)
NodeAny(path, n, entries) ==
  CASE n.kind = "null" -> Pass("unit", "")
    [] n.kind = "bool" -> Pass("bool", n.text)
    [] n.kind \in Numbers -> VisitAnyNumber(n)
    [] n.kind = "str"  -> Pass("str", n.text)
    [] n.kind = "seq"  -> Indexed(path, n.kids)
    [] n.kind = "map"  -> IF entries = Refused THEN Fails ELSE Keyed(path, entries)
    [] n.kind = "tag"  -> TaggedVariant(path, n)

NodeVariant(path, n) ==
  CASE n.kind = "str" -> NameVariant(n.text)
    [] n.kind = "map" /\ Len(n.kids) = 1 -> KeyVariant(path, n.kids[1])
    [] n.kind = "tag" -> TaggedVariant(path, n)
    [] OTHER -> Fails
=============================================================================
