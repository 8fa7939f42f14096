------------------------------- MODULE MCDecode -------------------------------
(***************************************************************************)
(* Documents and targets for Decode, and what the ways of reading owe each *)
(* other and the document.                                                 *)
(***************************************************************************)
EXTENDS Decode, Samples

CONSTANT Instance   \* which documents and targets

(* The same merges with every node at a place of its own, as parsed.       *)
RECURSIVE Spread(_, _)
Spread(n, at) == [n EXCEPT !.span = at, !.kids = [i \in DOMAIN @ |-> Spread(@[i], 3 * at + i)]]

ChosenDocuments ==
  CASE Instance = "all"    -> Plainest \union Yaml11 \union Merging
    [] Instance = "placed" -> {Spread(n, 1) : n \in Merging}

ChosenTargets ==
  CASE Instance = "all"    -> Simple \union Compound \union Enums \union Singletons
    [] Instance = "placed" -> {MapOf(Text, AnyValue)}

-----------------------------------------------------------------------------
(* Trees and targets apart.                                                *)

RECURSIVE Subtrees(_)
Subtrees(n) == {n} \union UNION {Subtrees(n.kids[i]) : i \in DOMAIN n.kids}

Entries(n) == {m \in Subtrees(n) : m.kind = "entry"}

Merges(n) == \E e \in Entries(n) : IsMergeKey(Key(e))

MergesInKeys(n) == \E e \in Entries(n) : Merges(Key(e))

(* as the parser builds them *)
SingleTags(n) == \A m \in Subtrees(n) : m.kind = "tag" => m.kids[1].kind # "tag"

(* nulls and booleans that event_de does not give to a string as spelt     *)
Respelt(n) ==
  \E m \in Subtrees(n) : \/ m.kind = "null" /\ m.src # "null"
                         \/ m.kind = "tag" /\ m.text \in {"null", "bool"}

CoreTags(n) == \E m \in Subtrees(n) : m.kind = "tag" /\ m.text \in CoreScalarTags

ComplexKeyed(n) == \E e \in Entries(n) : Untagged(Key(e)).kind \in {"seq", "map"}

Collections11(n) ==
  \E m \in Subtrees(n) : m.kind = "tag" /\ m.text \in {"set", "omap", "pairs", "binary"}

(* what event_de refuses to read: binary, nothing as a collection, a core   *)
(* tag its scalar does not fit, tuples, and a pair that is not a sequence   *)
EventsRefuse(n) ==
  \/ Materialized(n) = Failed
  \/ \E m \in Subtrees(n) : m.kind = "tag" /\ m.text = "binary"
  \/ Reaches(target, "pair")
  \/ Collections11(n) /\ \E t \in {"newtype", "struct"} : Reaches(target, t)
  \/ \E m \in Subtrees(n) : m.kind = "null"

-----------------------------------------------------------------------------
(* The path of a failure leads from the document, read as its target, to a *)
(* part that cannot be read as the target it has there.                    *)

Fails0(T, n) == Decode(T, Bare("input", n)) = Mismatch

FieldTarget(T, segment) ==
  CASE T.t = "any" -> AnyValue
    [] T.t = "map" -> T.of[2]
    [] T.t = "struct" /\ segment.text = "a" -> T.of[1]
    [] T.t = "struct" /\ segment.text = "b" -> Optionally(T.of[2])
    [] OTHER -> Ignored

KeyTarget(T) == IF T.t = "map" THEN T.of[1] ELSE Identifier

MissingOrTwice(T, n, name) ==
  T.t = "struct" /\ Cardinality({i \in DOMAIN n.kids : Key(n.kids[i]) = Str(name)}) # 1

(* the readings of an enum's content, by the name of its variant           *)
VariantTarget(T, name) ==
  CASE name = "Wrap" -> T [] name = "Many" -> PairTyped(T, T) [] name = "Rec" -> Struct(T, T)
    [] OTHER -> Plainly("unit")

RECURSIVE Located(_, _, _)
Located(T, n, path) ==
  LET bare == Untagged(n) IN
  CASE path = <<>> -> Fails0(T, n)
    [] T.t \in {"option", "newtype"} -> Located(T.of[1], bare, path)
    [] path[1].kind = "field" -> MissingOrTwice(T, bare, path[1].text)
    [] path[1].kind = "index" ->
         \E i \in DOMAIN bare.kids :
           /\ Index(i) = path[1]
           /\ T.t \in {"any", "seq", "pair"} /\ bare.kind = "seq"
           /\ Located(IF T.t = "any" THEN T ELSE T.of[IF T.t = "pair" THEN i ELSE 1],
                      bare.kids[i], Tail(path))
    [] OTHER ->
         /\ bare.kind = "map"
         /\ \E i \in DOMAIN bare.kids :
              /\ Segment(Key(bare.kids[i])) = path[1]
              /\ \/ T.t = "enum" /\ Located(VariantTarget(T.of[1], path[1].text), Val(bare.kids[i]), Tail(path))
                 \/ T.t # "enum" /\ Located(FieldTarget(T, path[1]), Val(bare.kids[i]), Tail(path))
                 \/ Len(path) = 1 /\ IsFailure(Decode(KeyTarget(T), Bare("input", Key(bare.kids[i]))))

-----------------------------------------------------------------------------
(* Properties.                                                             *)

(* Parsed text gives the same, paths of errors included, read at once,     *)
(* from a stream, from a reader and by way of its node; and however and    *)
(* wherever merge keys are expanded, before the reading or in the course   *)
(* of it, a node gives what the text gives and a borrowed value what an    *)
(* owned one gives: the copies of src/de.rs have not drifted.              *)
CopiesAgree ==
  Done /\ ~MergesInKeys(doc) =>
    /\ answers["from_node"] = answers["from_str"]
    /\ target.t \notin {"i128", "u128"} =>
         answers["from_documents"] = answers["from_str"] /\ answers["from_reader"] = answers["from_str"]
    /\ ~Merges(doc) \/ (Merged(doc) # Failed /\ ~Reaches(target, "enum")) =>
         /\ answers["node_ref"] = answers["from_str"]
         /\ answers["node"] = answers["from_str"]
         /\ answers["value_ref"] = answers["from_value"]

(* A node and the value it converts to are read as the same thing whenever *)
(* both can be read, and read as a Value nothing of the tree is lost but   *)
(* the spelling of its scalars.                                            *)
NodesAndValuesAgree ==
  Done /\ ~MergesInKeys(doc) =>
    /\ ~IsFailure(answers["from_str"]) /\ ~IsFailure(answers["from_value"]) =>
         answers["from_str"] = answers["from_value"]
    /\ target = AnyValue /\ Merged(doc) # Failed =>
         answers["from_str"] = ValueOf(Merged(doc)) /\ answers["value_ref"] = ValueOf(Merged(doc))

(* From events: where both read, the same is read.                         *)
EventsAgree ==
  Done /\ SingleTags(doc) /\ ~MergesInKeys(doc)
    /\ (Reaches(target, "str") \/ Reaches(target, "char") => ~Respelt(doc))
    /\ (Reaches(target, "any") => ~CoreTags(doc))
    /\ (IsFailure(answers["from_events"]) => ~EventsRefuse(doc)) /\ ~IsFailure(answers["from_str"]) =>
    answers["from_events"] = answers["from_str"]

(* A custom tag changes nothing for a typed target, whatever it is put on. *)
TagsTransparent ==
  Done /\ target.t \notin {"any", "enum", "once", "recursive"} /\ Merged(doc) # Failed =>
    /\ Decode(target, Bare("input", Tag("foo", Merged(doc)))) = answers["from_str"]
    /\ Decode(target, Bare("value", Tag("foo", ValueOf(Merged(doc))))) = answers["from_value"]

(* The path of a failure leads to what is at fault; not so inside enums,   *)
(* keys that are collections and the YAML 1.1 collections.                 *)
ErrorPathResolves ==
  Done /\ Merged(doc) # Failed /\ IsFailure(answers["from_str"])
    /\ ~Reaches(target, "enum") /\ ~ComplexKeyed(doc) /\ ~Collections11(doc) =>
       Located(target, Merged(doc), answers["from_str"].kids)

-----------------------------------------------------------------------------
(* What the documentation says, and the code does not do.                  *)

(* CHANGELOG.md: borrowed nodes expand merge keys "matching from_value".   *)
BorrowedNodesMatchValues ==
  Done /\ ~IsFailure(answers["from_value"]) => answers["node_ref"] = answers["from_value"]
=============================================================================
