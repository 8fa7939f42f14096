----------------------------- MODULE Serializers -----------------------------
(***************************************************************************)
(* The serde serializers of src/ser.rs.  What a Serialize implementation   *)
(* does is a tree of the calls it makes: a datum is a call, its text (the  *)
(* class of a number, the name of a variant or a field, a map's length     *)
(* hint) and the data inside.  Of the calls on a mapping a part is one     *)
(* serialize_key, serialize_value or serialize_entry; of the text that is  *)
(* written by Display a part is one write_str.                             *)
(*                                                                         *)
(* A serializer makes a Value of a datum, or fails.  There are five of     *)
(* them, and a sixth for the payload of a Number:                          *)
(*                                                                         *)
(*   AsValue     ValueSerializer, for to_value                             *)
(*   AsNested    NestedValueSerializer, for to_string                      *)
(*   AsRoot      ByteCompatibleRootSerializer                              *)
(*   AsDocument  Serializer, one document of a stream                      *)
(*   AsKey       TagDetectingKeySerializer, for the key of a mapping that  *)
(*               may be a tagged value in disguise                         *)
(***************************************************************************)
EXTENDS Trees

Datum(call, text, parts) == [call |-> call, text |-> text, parts |-> parts]
Given(call, text) == Datum(call, text, <<>>)
Inner(d) == d.parts[1]

(* EnumRepresentation *)
Representations == {"tag", "singleton_map"}

-----------------------------------------------------------------------------
(* Tags: their spelling, and the tag that a spelling or a variant names.   *)

CoreNames == {"int", "float", "bool", "null", "str", "binary", "set", "omap", "pairs"}

(* impl Display for Tag *)
TagText(name) ==
  CASE name = "!" -> "!" [] name \in CoreNames -> "!!" \o name [] OTHER -> "!" \o name

(* Tag::new *)
TagNamed(text) ==
  CASE SubSeq(text, 1, 2) = "!!" -> SubSeq(text, 3, Len(text))
    [] SubSeq(text, 1, 1) = "!" /\ Len(text) > 1 -> Tail(text)
    [] OTHER -> text

(* DisplayTagState: "!" by itself, then one more write                     *)
Observed(state, text) ==
  CASE text = "" -> IF state = "bang" THEN "tag" ELSE state
    [] state = "empty" /\ text = "!" -> "bang"
    [] state = "bang" -> "tag"
    [] OTHER -> "not_tag"

(* display_text_and_tag *)
IsTagDisplay(d) ==
  FoldLeft(LAMBDA state, piece : Observed(state, piece.text), "empty", d.parts) = "tag"

Displayed(d) == FoldLeft(LAMBDA text, piece : text \o piece.text, "", d.parts)

(* enum_variant_value, behind validate_variant_tag *)
EnumVariantValue(rep, variant, content) ==
  CASE variant = "" \/ content = Failed -> Failed
    [] rep = "tag" -> Tag(TagNamed(variant), content)
    [] rep = "singleton_map" -> Table(<<Entry(Str(variant), content)>>)

-----------------------------------------------------------------------------
(* Scalars.                                                                *)

WithinU64(class) == class \in {"small", "big"}
WithinI64(class) == class \in {"neg", "small"}

(* ValueSerializer::serialize_i128 and serialize_u128: into a u64 or an i64*)
(* if it fits, whole otherwise                                             *)
Narrowed(class) == IF WithinU64(class) THEN Unsigned(class) ELSE Signed(class)
NarrowedUnsigned(class) == Unsigned(class)

ValueScalar(d) ==
  CASE d.call = "bool" -> ValueOf(Bool(d.text))
    [] d.call = "i64"  -> ValueOf(Signed(d.text))
    [] d.call = "u64"  -> ValueOf(Unsigned(d.text))
    [] d.call = "i128" -> ValueOf(Narrowed(d.text))
    [] d.call = "u128" -> ValueOf(NarrowedUnsigned(d.text))
    [] d.call = "f64"  -> ValueOf(Float(d.text))
    [] d.call \in {"char", "str", "unit_variant"} -> Str(d.text)
    [] d.call = "display" -> Str(Displayed(d))
    [] d.call \in {"none", "unit"} -> Null(NoSource)
    [] d.call \in {"bytes", "refused"} -> Failed

NestedScalar(d) == ValueScalar(d)

(* A char is a node that is written in single quotes.                      *)
RootScalar(d) ==
  IF d.call = "char" THEN [Str(d.text) EXCEPT !.src = "'"] ELSE ValueScalar(d)

(* 128-bit integers are not narrowed here.                                 *)
DocumentScalar(d, compat) ==
  CASE d.call = "i128" -> ValueOf(Signed(d.text))
    [] d.call = "u128" -> ValueOf(Unsigned(d.text))
    [] d.call = "char" /\ compat -> [Str(d.text) EXCEPT !.src = "'"]
    [] OTHER -> ValueScalar(d)

(* A key that is shown as a tag is one, until it turns out otherwise.      *)
TagKey(name) == Tree("tag_key", name, NoSource, <<>>)

(* SerializedKey::into_value *)
IntoValue(k) == IF k.kind = "tag_key" THEN Str(TagText(k.text)) ELSE k

KeyScalar(d, reject) ==
  CASE d.call = "bytes" /\ ~reject ->
         List([i \in DOMAIN d.parts |-> ValueOf(Unsigned(d.parts[i].text))])
    [] d.call = "display" /\ IsTagDisplay(d) -> TagKey(TagNamed(Displayed(d)))
    [] OTHER -> ValueScalar(d)

(* Mutant of NumberScalar: integers are narrowed like others.              *)
NumberScalarNarrowed(d) == IF d.call \in {"none", "unit"} THEN Failed ELSE ValueScalar(d)

(* PreserveNumberSerializer: the width stays as it is                      *)
NumberScalar(d) ==
  CASE d.call = "i128" -> ValueOf(Signed(d.text))
    [] d.call = "u128" -> ValueOf(Unsigned(d.text))
    [] d.call \in {"bool", "i64", "u64", "f64", "char", "str", "display"} -> ValueScalar(d)
    [] OTHER -> Failed

-----------------------------------------------------------------------------
(* Collections.  Their serializers are shared; the parts of those of to_value*)
(* are serialized like to_value, all others as in a document.              *)

RECURSIVE AsValue(_), AsNested(_, _, _), AsKey(_, _, _), NestedValue(_, _, _), Collection(_, _, _)

(* serialize_nested_value *)
NestedValue(d, reject, rep) ==
  IF reject \/ rep # "tag" THEN AsNested(d, reject, rep) ELSE AsValue(d)

(* SequenceSerializer *)
WholeList(items) == IF Contains(items, Failed) THEN Failed ELSE List(items)

SequenceOf(parts, reject, rep) ==
  WholeList([i \in DOMAIN parts |-> NestedValue(parts[i], reject, rep)])

(* insert_unique *)
InsertUnique(m, k, v) ==
  IF \E i \in DOMAIN m.entries : SameKey(FALSE, Key(m.entries[i]), k)
  THEN [m EXCEPT !.failed = TRUE]
  ELSE [m EXCEPT !.entries = Append(@, Entry(k, v))]

(* StructSerializer *)
SerializeField(m, name, v) ==
  IF m.failed \/ v = Failed THEN [m EXCEPT !.failed = TRUE] ELSE InsertUnique(m, Str(name), v)

TableOf(m) == IF m.failed THEN Failed ELSE Table(m.entries)

StructOf(fields, reject, rep) ==
  LET add(m, field) == SerializeField(m, field.text, NestedValue(Inner(field), reject, rep))
  IN  TableOf(FoldLeft(add, [entries |-> <<>>, failed |-> FALSE], fields))

(* MappingSerializer: the entries so far, the key that waits for its value *)
(* and the tagged value that may be all there is                           *)
NewMapping(hint) ==
  [entries |-> <<>>, next_key |-> Absent, tagged |-> Absent, detect |-> hint = "one",
   failed |-> FALSE]

ShouldDetectTag(m) == m.detect /\ m.entries = <<>> /\ m.tagged = Absent

(* Mutant of FlushTagged: the tagged value is forgotten.                   *)
FlushTaggedLost(m) == [m EXCEPT !.tagged = Absent]

FlushTagged(m) ==
  IF m.tagged = Absent THEN m
  ELSE InsertUnique([m EXCEPT !.tagged = Absent], Str(TagText(m.tagged.text)), m.tagged.kids[1])

InsertAfter(m, k, v) == IF m.failed THEN m ELSE InsertUnique(m, IntoValue(k), v)

InsertEntry(m, k, v) ==
  CASE k = Failed \/ v = Failed -> [m EXCEPT !.failed = TRUE]
    [] k.kind = "tag_key" /\ ShouldDetectTag(m) -> [m EXCEPT !.tagged = Tag(k.text, v)]
    [] OTHER -> InsertAfter(FlushTagged(m), k, v)

(* serialize_mapping_key *)
MappingKey(m, d, reject, rep) ==
  IF ShouldDetectTag(m) THEN AsKey(d, reject, rep) ELSE NestedValue(d, reject, rep)

KeepKey(m, k) ==
  IF m.next_key # Absent \/ k = Failed THEN [m EXCEPT !.failed = TRUE]
  ELSE [m EXCEPT !.next_key = k]

SerializeKey(m, d, reject, rep) == KeepKey(m, MappingKey(m, d, reject, rep))

SerializeValue(m, d, reject, rep) ==
  IF m.next_key = Absent THEN [m EXCEPT !.failed = TRUE]
  ELSE InsertEntry([m EXCEPT !.next_key = Absent], m.next_key, NestedValue(d, reject, rep))

SerializeEntry(m, d, reject, rep) ==
  InsertEntry(m, MappingKey(m, Inner(d), reject, rep), NestedValue(d.parts[2], reject, rep))

EndMapping(m) ==
  CASE m.failed \/ m.next_key # Absent -> Failed
    [] m.entries = <<>> /\ m.tagged # Absent -> m.tagged
    [] OTHER -> TableOf(FlushTagged(m))

MappingOf(d, reject, rep) ==
  LET call(m, part) ==
        CASE m.failed -> m
          [] part.call = "key"   -> SerializeKey(m, Inner(part), reject, rep)
          [] part.call = "value" -> SerializeValue(m, Inner(part), reject, rep)
          [] part.call = "entry" -> SerializeEntry(m, part, reject, rep)
  IN  EndMapping(FoldLeft(call, NewMapping(d.text), d.parts))

Collections == {"seq", "tuple_variant", "map", "struct", "struct_variant"}

Collection(d, reject, rep) ==
  CASE d.call = "seq" -> SequenceOf(d.parts, reject, rep)
    [] d.call = "map" -> MappingOf(d, reject, rep)
    [] d.call = "struct" -> StructOf(d.parts, reject, rep)
    [] d.call = "tuple_variant" -> EnumVariantValue(rep, d.text, SequenceOf(d.parts, reject, rep))
    [] d.call = "struct_variant" -> EnumVariantValue(rep, d.text, StructOf(d.parts, reject, rep))

-----------------------------------------------------------------------------
(* The serializers.                                                        *)

AsValue(d) ==
  CASE d.call \in {"some", "newtype"} -> AsValue(Inner(d))
    [] d.call = "number" -> NumberScalar(Inner(d))
    [] d.call = "newtype_variant" -> EnumVariantValue("tag", d.text, AsValue(Inner(d)))
    [] d.call \in Collections -> Collection(d, FALSE, "tag")
    [] OTHER -> ValueScalar(d)

AsNested(d, reject, rep) ==
  CASE d.call \in {"some", "newtype"} -> AsNested(Inner(d), reject, rep)
    [] d.call = "number" -> NumberScalar(Inner(d))
    [] d.call = "newtype_variant" -> EnumVariantValue(rep, d.text, AsNested(Inner(d), reject, rep))
    [] d.call \in Collections -> Collection(d, reject, rep)
    [] OTHER -> NestedScalar(d)

(* Mutant of AsKey: an enum in a key is always a tag.                      *)
AsKeyTagged(d, reject, rep) ==
  CASE d.call \in {"some", "newtype"} -> AsKey(Inner(d), reject, rep)
    [] d.call = "number" -> NumberScalar(Inner(d))
    [] d.call = "newtype_variant" ->
         EnumVariantValue("tag", d.text, NestedValue(Inner(d), reject, rep))
    [] d.call \in Collections -> Collection(d, reject, rep)
    [] OTHER -> KeyScalar(d, reject)

AsKey(d, reject, rep) ==
  CASE d.call \in {"some", "newtype"} -> AsKey(Inner(d), reject, rep)
    [] d.call = "number" -> NumberScalar(Inner(d))
    [] d.call = "newtype_variant" ->
         EnumVariantValue(rep, d.text, NestedValue(Inner(d), reject, rep))
    [] d.call \in Collections -> Collection(d, reject, rep)
    [] OTHER -> KeyScalar(d, reject)

RECURSIVE AsRoot(_, _), AsDocument(_, _, _)

AsRoot(d, rep) ==
  CASE d.call \in {"some", "newtype"} -> AsRoot(Inner(d), rep)
    [] d.call = "number" -> NumberScalar(Inner(d))
    [] d.call = "newtype_variant" -> EnumVariantValue(rep, d.text, AsNested(Inner(d), TRUE, rep))
    [] d.call \in Collections -> Collection(d, TRUE, rep)
    [] OTHER -> RootScalar(d)

(* Mutant of AsDocument: the content of a variant has its enums as tags.   *)
AsDocumentTagged(d, compat, rep) ==
  CASE d.call \in {"some", "newtype", "number"} -> AsDocument(Inner(d), compat, rep)
    [] d.call = "newtype_variant" -> EnumVariantValue(rep, d.text, AsNested(Inner(d), TRUE, "tag"))
    [] d.call \in Collections -> Collection(d, TRUE, rep)
    [] OTHER -> DocumentScalar(d, compat)

(* A Number is a newtype like any other here.                              *)
AsDocument(d, compat, rep) ==
  CASE d.call \in {"some", "newtype", "number"} -> AsDocument(Inner(d), compat, rep)
    [] d.call = "newtype_variant" -> EnumVariantValue(rep, d.text, AsNested(Inner(d), TRUE, rep))
    [] d.call \in Collections -> Collection(d, TRUE, rep)
    [] OTHER -> DocumentScalar(d, compat)

-----------------------------------------------------------------------------
(* The Serialize implementations of the crate.                             *)

NumberDatum(n) ==
  Datum("number", "", <<Given(CASE n.kind = "int" -> "i128" [] n.kind = "uint" -> "u128"
                                [] n.kind = "float" -> "f64", n.text)>>)

Hint(entries) == IF Len(entries) = 1 THEN "one" ELSE "other"

RECURSIVE ValueDatum(_), NodeDatum(_)

(* TaggedValue: a mapping of one entry; its key is shown in two writes     *)
TaggedDatum(n) ==
  LET text == TagText(n.text)
      key  == Datum("display", "", <<Given("piece", "!"), Given("piece", Tail(text))>>)
  IN  Datum("map", "one", <<Datum("entry", "", <<key, ValueDatum(n.kids[1])>>)>>)

ValueDatum(n) ==
  CASE n.kind = "null" -> Given("unit", "")
    [] n.kind \in {"bool", "str"} -> Given(n.kind, n.text)
    [] n.kind \in Numbers -> NumberDatum(n)
    [] n.kind = "seq" -> Datum("seq", "", [i \in DOMAIN n.kids |-> ValueDatum(n.kids[i])])
    [] n.kind = "tag" -> TaggedDatum(n)
    [] n.kind = "map" ->
         Datum("map", Hint(n.kids),
               [i \in DOMAIN n.kids |->
                  Datum("entry", "", <<ValueDatum(Key(n.kids[i])), ValueDatum(Val(n.kids[i]))>>)])

(* What is under a tag is turned into a Value first.                       *)
NodeDatum(n) ==
  CASE n.kind = "seq" -> Datum("seq", "", [i \in DOMAIN n.kids |-> NodeDatum(n.kids[i])])
    [] n.kind = "map" ->
         Datum("map", Hint(n.kids),
               [i \in DOMAIN n.kids |->
                  Datum("entry", "", <<NodeDatum(Key(n.kids[i])), NodeDatum(Val(n.kids[i]))>>)])
    [] n.kind = "tag" -> TaggedDatum(ValueOf(n))
    [] OTHER -> ValueDatum(n)

-----------------------------------------------------------------------------
(* The writing side of src/with.rs.                                        *)

(* Tag::serde_variant *)
SerdeVariant(name) == IF name \in CoreNames THEN TagText(name) ELSE name

(* Mutant of SingletonMapped: what is under a tag stays as it is.          *)
RECURSIVE SingletonMappedOnce(_, _)
SingletonMappedOnce(n, recursive) ==
  LET kid(i) == IF recursive THEN SingletonMappedOnce(n.kids[i], TRUE) ELSE n.kids[i] IN
  CASE n.kind = "tag" -> Table(<<Entry(Str(SerdeVariant(n.text)), n.kids[1])>>)
    [] n.kind \in {"seq", "entry"} -> [n EXCEPT !.kids = [i \in DOMAIN @ |-> kid(i)]]
    [] n.kind = "map" -> [n EXCEPT !.kids = Deduplicated([i \in DOMAIN @ |-> kid(i)])]
    [] OTHER -> n

(* tagged_to_singleton_map: keys that become equal leave one entry         *)
RECURSIVE SingletonMapped(_, _)
SingletonMapped(n, recursive) ==
  LET kid(i) == IF recursive THEN SingletonMapped(n.kids[i], TRUE) ELSE n.kids[i] IN
  CASE n.kind = "tag" -> Table(<<Entry(Str(SerdeVariant(n.text)), kid(1))>>)
    [] n.kind \in {"seq", "entry"} -> [n EXCEPT !.kids = [i \in DOMAIN @ |-> kid(i)]]
    [] n.kind = "map" -> [n EXCEPT !.kids = Deduplicated([i \in DOMAIN @ |-> kid(i)])]
    [] OTHER -> n

(* serialize of singleton_map and of singleton_map_recursive               *)
SerializeWith(kind, d) ==
  LET n == AsValue(d) IN
  IF n = Failed THEN Given("refused", "")
  ELSE ValueDatum(SingletonMapped(n, kind = "recursive"))
=============================================================================
