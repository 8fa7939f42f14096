----------------------------- MODULE MCSerialize -----------------------------
(***************************************************************************)
(* Data for Serialize: what derived code writes for everything that can be *)
(* read from the sample documents, the documents themselves as Values and  *)
(* Nodes, and mappings written by every short sequence of calls.           *)
(***************************************************************************)
EXTENDS Serialize, Samples

CONSTANT Instance   \* which targets are read and written

-----------------------------------------------------------------------------
(* What derived code writes for the outcome of a reading.                  *)

RECURSIVE Typed(_, _)

TypedField(T, o, name) == Datum("field", name, <<Typed(T, o)>>)
TypedFields(T, U, o) ==
  <<TypedField(T, Val(o.kids[1]), "a"), TypedField(Optionally(U), Val(o.kids[2]), "b")>>

TypedVariant(T, name, o) ==
  CASE name = "Unit" -> Given("unit_variant", name)
    [] name = "Wrap" -> Datum("newtype_variant", name, <<Typed(T, o)>>)
    [] name = "Many" -> Datum("tuple_variant", name, <<Typed(T, o.kids[1]), Typed(T, o.kids[2])>>)
    [] name = "Rec"  -> Datum("struct_variant", name, TypedFields(T, T, o))

Typed(T, o) ==
  CASE T.t = "any" -> ValueDatum(o)
    [] T.t = "ignored" -> Given("unit", "")
    [] T.t = "option" -> IF o.kind = "null" THEN Given("none", "")
                         ELSE Datum("some", "", <<Typed(T.of[1], o.kids[1])>>)
    [] T.t = "newtype" -> Datum("newtype", "", <<Typed(T.of[1], o)>>)
    [] T.t \in {"seq", "pair"} ->
         Datum("seq", "", [i \in DOMAIN o.kids |-> Typed(T.of[IF T.t = "pair" THEN i ELSE 1], o.kids[i])])
    [] T.t = "map" ->
         Datum("map", Hint(o.kids),
               [i \in DOMAIN o.kids |->
                  Datum("entry", "", <<Typed(T.of[1], Key(o.kids[i])), Typed(T.of[2], Val(o.kids[i]))>>)])
    [] T.t = "struct" -> Datum("struct", "", TypedFields(T.of[1], T.of[2], o))
    [] T.t = "enum"   -> TypedVariant(T.of[1], o.text, o.kids[1])
    [] T.t \in {"once", "recursive"} -> SerializeWith(T.t, Typed(T.of[1], o))
    [] OTHER -> Given(T.t, o.text)

MoreEnums ==
  {Tag("Wrap", Tag("Wrap", one)), Tag("Many", List(<<Str("Unit"), Tag("Wrap", one)>>)),
   Tag("Rec", Table(<<Entry(a, Tag("Wrap", one))>>)),
   Single(Tag("Wrap", one), one), Single(Single(Str("Wrap"), one), one), Single(Str("Unit"), one),
   Table(<<Entry(Tag("Wrap", one), one), Entry(Str("Unit"), one)>>),
   Single(a, Single(Str("Wrap"), one)), Single(Str("Wrap"), Single(Str("Wrap"), one)),
   List(<<Single(Str("Many"), List(<<one, one>>)), Single(Str("Wrap"), one), Str("Unit")>>)}

Documents == Plainest \union MoreEnums

Targets ==
  CASE Instance = "all" -> Simple \union Compound \union {MapOf(Variants(I64), I64), Variants(Variants(I64)),
                            Recursively(MapOf(Variants(I64), I64)), Once(Wrapped(Variants(I64)))} \union
                           (Enums \ {Optionally(Variants(I64))}) \union Singletons
    [] Instance = "optional" -> {Optionally(Variants(I64))}

Read ==
  {[target |-> T, outcome |-> Decode(T, Bare("input", n))] : T \in Targets, n \in Documents}

(* An option of nothing is written as none: those are left aside.          *)
RECURSIVE HoldsNothing(_)
HoldsNothing(d) ==
  \/ d.call = "some" /\ Inner(d).call \in {"unit", "none"}
  \/ \E i \in DOMAIN d.parts : HoldsNothing(d.parts[i])

Written == {[c EXCEPT !.outcome = [of |-> @, as |-> Typed(c.target, @)]] :
              c \in {r \in Read : ~IsFailure(r.outcome)}}

TypedData == {c.outcome.as : c \in Written}

-----------------------------------------------------------------------------
(* Values and nodes.                                                       *)

Values == {ValueOf(n) : n \in Plainest}
Nodes  == Plainest \union {SetOf(a, Null("~")), Ordered("omap", <<Single(a, one)>>)}

-----------------------------------------------------------------------------
(* Mappings by hand.  A key is a string, a tag, or text like a tag's.      *)

Shown(pieces) == Datum("display", "", [i \in DOMAIN pieces |-> Given("piece", pieces[i])])
HandKeys == {Given("str", "a"), Shown(<<"!", "foo">>), Shown(<<"!foo">>), Given("bytes", "")}
HandCalls ==
  {Datum("key", "", <<k>>) : k \in HandKeys}
    \union {Datum("entry", "", <<k, Given("bool", "true")>>) : k \in HandKeys}
    \union {Datum("value", "", <<v>>) : v \in {Given("unit", ""), Given("bytes", "")}}

HandMaps ==
  {Datum("map", hint, calls) : hint \in {"one", "other"},
                               calls \in UNION {[1..n -> HandCalls] : n \in 0..3}}

ChosenStreamed ==
  {Given("char", "a"), Given("bytes", ""), Datum("newtype_variant", "Wrap", <<Given("i128", "small")>>)}

ChosenData ==
  CASE Instance = "all" ->
         TypedData \union {ValueDatum(n) : n \in Values} \union {NodeDatum(n) : n \in Nodes}
           \union HandMaps \union ChosenStreamed
    [] Instance = "optional" -> TypedData

-----------------------------------------------------------------------------
(* The tree that parsing text finds: numbers are signed if they fit, and   *)
(* scalars have a spelling.                                                *)
RECURSIVE Reread(_)
Reread(n) ==
  [n EXCEPT !.kind = IF @ = "uint" /\ n.text # "vast" THEN "int" ELSE @,
            !.src = CASE n.kind \in Numbers \union {"bool"} -> n.text [] n.kind = "null" -> "null"
                      [] OTHER -> NoSource,
            !.kids = [i \in DOMAIN @ |-> Reread(@[i])]]

Unserializable(d) == AsValue(d) = Failed

(* Tags are dropped from what is inside an option or a newtype (Optional,  *)
(* Newtype), and with them the variants of enums; with.rs writes mappings. *)
RECURSIVE DropsTags(_)
DropsTags(T) ==
  CASE T.t \in {"option", "newtype"} -> Reaches(T.of[1], "enum")
    [] T.t = "recursive"             -> FALSE
    [] T.t = "once" /\ T.of[1].t \in {"option", "newtype"} -> DropsTags(T.of[1].of[1])
    [] OTHER -> \E i \in DOMAIN T.of : DropsTags(T.of[i])

(* Read again, the answers are what was read at first.                     *)
RoundTripped(c) ==
  \A way \in {"to_value", "to_string", "with_options"} :
    LET tree == answers[way] IN
    tree # Failed =>
      /\ Equated(Decode(c.target, Bare("input", Reread(tree)))) = Equated(c.outcome.of)
      /\ Equated(Decode(c.target, Bare("value", ValueOf(tree)))) = Equated(c.outcome.of)

(* A Value is itself, to the kind of its numbers, and a Node its value.    *)
ValuesKept ==
  Done =>
    /\ \A n \in Values : ValueDatum(n) = datum =>
         answers["to_value"] = n /\ answers["to_string"] = n /\ ValueOf(answers["with_options"]) = n
    /\ \A n \in Nodes : NodeDatum(n) = datum => answers["to_value"] = ValueOf(n)

(* Nothing is lost by writing: what has been read, written and read again  *)
(* is what has been read, by way of a value and by way of text, with enums *)
(* as tags or as mappings; and what began as a Value stays that value      *)
(* (ser.rs, with.rs, de.rs).                                               *)
RoundTrips ==
  /\ ValuesKept
  /\ Done => \A c \in Written : c.outcome.as = datum /\ ~HoldsNothing(datum) /\ ~DropsTags(c.target)
                                  => RoundTripped(c)

(* The representation of enums is the same everywhere: what is written as  *)
(* mappings is what is written as tags, with a mapping for every tag; and  *)
(* through singleton_map_recursive there are no tags to begin with.        *)
RECURSIVE HasTags(_)
HasTags(n) == n.kind = "tag" \/ \E i \in DOMAIN n.kids : HasTags(n.kids[i])

RECURSIVE AsMappings(_)
AsMappings(n) ==
  LET kids == [i \in DOMAIN n.kids |-> AsMappings(n.kids[i])] IN
  IF n.kind = "tag" THEN Table(<<Entry(Str(n.text), kids[1])>>) ELSE [n EXCEPT !.kids = kids]

RepresentationUniform ==
  Done => \A c \in Written : c.outcome.as = datum /\ ~Reaches(c.target, "any") =>
    /\ ValueOf(answers["with_options"]) =
         ValueOf(IF rep = "tag" THEN answers["to_string"] ELSE AsMappings(answers["to_string"]))
    /\ c.target.t = "recursive" => ~HasTags(answers["to_string"])

(* The serializers give the same value, but for the bytes that to_value    *)
(* takes in a key.                                                         *)
RECURSIVE Calls(_)
Calls(d) == {d.call} \union UNION {Calls(d.parts[i]) : i \in DOMAIN d.parts}

SerializersAgree ==
  Done =>
    /\ "bytes" \in Calls(datum) => answers["to_string"] = Failed /\ answers["with_options"] = Failed
    /\ "bytes" \notin Calls(datum) => Equated(answers["to_value"]) = Equated(answers["to_string"])
    /\ rep = "tag" => ValueOf(answers["with_options"]) = answers["to_string"]
    /\ Equated(AsDocument(datum, compat, rep)) = Equated(answers["with_options"])

(* A mapping has the entries it was given, in the order they were complete,*)
(* whatever the length it was announced with; it is a tagged value only if *)
(* its one key was a tag and it was announced as one entry; and calls that *)
(* do not pair keys with values, or give a key twice, fail.                *)
CallsOf(d, call, n) == {i \in 1..n : d.parts[i].call = call}

Paired(d) ==
  /\ \A n \in DOMAIN d.parts :
       Cardinality(CallsOf(d, "key", n)) - Cardinality(CallsOf(d, "value", n)) \in {0, 1}
  /\ Cardinality(CallsOf(d, "key", Len(d.parts))) = Cardinality(CallsOf(d, "value", Len(d.parts)))

KeyGiven(d, i) ==
  IF d.parts[i].call = "entry" THEN Inner(d.parts[i])
  ELSE Inner(d.parts[CHOOSE j \in CallsOf(d, "key", i) : \A k \in CallsOf(d, "key", i) : k <= j])

ValueGiven(d, i) == IF d.parts[i].call = "entry" THEN d.parts[i].parts[2] ELSE Inner(d.parts[i])

Completing(d) == SelectSeq([i \in DOMAIN d.parts |-> i], LAMBDA i : d.parts[i].call # "key")

MappingGiven(d) ==
  LET at == Completing(d)
      entries == [i \in DOMAIN at |-> Entry(ValueScalar(KeyGiven(d, at[i])), ValueScalar(ValueGiven(d, at[i])))]
      keys    == [i \in DOMAIN at |-> Key(entries[i])]
  IN  CASE ~Paired(d) -> Failed
        [] Paired(d) /\ ("bytes" \in Calls(d) \/ ~IsInjective(keys)) -> Failed
        [] OTHER -> IF d.text = "one" /\ Len(at) = 1 /\ IsTagDisplay(KeyGiven(d, at[1]))
                    THEN Tag("foo", Val(entries[1])) ELSE Table(entries)

MappingAsCalled ==
  Done /\ datum \in HandMaps => answers["to_string"] = MappingGiven(datum)

(* Reading what was written finds the documents that were reported written,*)
(* each by itself, unless a write that failed has left something behind.   *)
Unspoilt ==
  /\ Cut \notin {wire[i] : i \in DOMAIN wire}
  /\ \A i \in DOMAIN wire : wire[i] = Separator => i < Len(wire) /\ wire[i + 1] # Separator

RECURSIVE Found(_, _)
Found(items, sofar) ==
  IF items = <<>> THEN sofar
  ELSE IF Head(items) = Separator THEN Found(Tail(Tail(items)), Append(sofar, items[2]))
  ELSE Found(Tail(items), IF sofar = <<>> THEN <<Head(items)>>
                          ELSE [sofar EXCEPT ![Len(sofar)] = Failed])

WrittenDocumentsApart == Unspoilt => Found(wire, <<>>) = reported

-----------------------------------------------------------------------------
(* docs/cookbook.md: "Data-carrying enums round-trip as YAML tags by       *)
(* default", inside an option as well.                                     *)
OptionalEnumsRoundTrip ==
  Done => \A c \in Written : c.outcome.as = datum => RoundTripped(c)
=============================================================================
