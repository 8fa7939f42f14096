------------------------------- MODULE Visitors -------------------------------
(***************************************************************************)
(* The targets that are deserialized: what the visitors of serde and of    *)
(* its derived code make of the call they get, and those of Value          *)
(* (src/ast.rs).  A target is a record of its name and the targets inside. *)
(* What comes out is a tree again, or a failure with the path it carries.  *)
(***************************************************************************)
EXTENDS SingletonMaps

Of(t, inner) == [t |-> t, of |-> inner]
Plainly(t)   == Of(t, <<>>)

AnyValue    == Plainly("any")
Ignored     == Plainly("ignored")
Identifier  == Plainly("identifier")
Optionally(T) == Of("option", <<T>>)
Wrapped(T)    == Of("newtype", <<T>>)
ListOf(T)     == Of("seq", <<T>>)
PairTyped(T, U) == Of("pair", <<T, U>>)
MapOf(K, V)   == Of("map", <<K, V>>)
Struct(T, U)  == Of("struct", <<T, U>>)       \* { a: T, b: Option<U> }
Variants(T)   == Of("enum", <<T>>)            \* { Unit, Wrap(T), Many(T, T), Rec { a: T } }
Once(T)        == Of("once", <<T>>)            \* with = "saneyaml::with::singleton_map"
Recursively(T) == Of("recursive", <<T>>)       \* with = "..::singleton_map_recursive"

Failure(path) == Tree("error", "", NoSource, path)
IsFailure(o)  == o.kind = "error"
Mismatch      == Failure(<<>>)
Field(name)   == Tree("field", name, NoSource, <<>>)

(* with_value_path, with_index, with_key_path *)
Placing(part, o) ==
  CASE ~IsFailure(o) \/ part.role = "bare" -> o
    [] part.role = "value" -> Failure(<<part.segment>> \o o.kids)
    [] part.role = "key"   -> IF o.kids = <<>> THEN Failure(<<part.segment>>) ELSE o

MethodOf(T) ==
  CASE T.t = "identifier" -> "str"
    [] T.t = "pair"   -> "tuple"
    [] T.t = "items"  -> "seq"
    [] T.t = "struct" -> "map"
    [] OTHER -> T.t

IsInteger(v, type) == v.call \in IntegerMethods /\ v.text \in Fits[type]

FirstFailure(os) == LET i == SelectInSeq(os, IsFailure) IN IF i = 0 THEN Absent ELSE os[i]

(* The first failure there is, or else what is made of the parts.          *)
Unfailed(failure, whole) == IF failure # Absent THEN failure ELSE whole

Listed(os) == Unfailed(FirstFailure(os), List(os))
Named(name, o) == IF IsFailure(o) THEN o ELSE Tag(name, o)

Collected(os) ==
  Unfailed(FirstFailure(os),
           Table(Deduplicated([i \in 1..(Len(os) \div 2) |-> Entry(os[2 * i - 1], os[2 * i])])))

RECURSIVE Decode(_, _), Accept(_, _)

Decode(T, part) ==
  IF T.t \in {"once", "recursive"} THEN Decode(T.of[1], Wrap(T.t, part))
  ELSE Placing(part, Accept(T, Answer(part, MethodOf(T))))

(* ValueVisitor *)
AcceptValue(v) ==
  CASE v.call \in {"unit", "none"} -> Null(NoSource)
    [] v.call = "bool" -> [Bool(v.text) EXCEPT !.src = NoSource]
    [] v.call \in {"i64", "i128"} -> [Signed(v.text) EXCEPT !.src = NoSource]
    [] v.call \in {"u64", "u128"} -> [Unsigned(v.text) EXCEPT !.src = NoSource]
    [] v.call = "f64" -> [Float(v.text) EXCEPT !.src = NoSource]
    [] v.call = "str" -> Str(v.text)
    [] v.call = "seq" ->
         Listed([i \in DOMAIN v.parts |-> Decode(AnyValue, v.parts[i])])
    [] v.call = "map" -> Collected([i \in DOMAIN v.parts |-> Decode(AnyValue, v.parts[i])])
    [] v.call = "enum" -> Named(v.parts[1].tree.text, Decode(AnyValue, v.parts[2]))
    [] OTHER -> Mismatch

Structured(a, b) ==
  Table(<<Entry(Str("a"), a), Entry(Str("b"), IF b = Absent THEN Null(NoSource) ELSE b)>>)

(* A derived struct reads its fields in the order they come.               *)
RECURSIVE Fields(_, _, _)

FieldRead(T, name, o, parts, sofar) ==
  CASE IsFailure(o) -> o
    [] name \in {"a", "b"} -> Fields(T, parts, [sofar EXCEPT ![name] = o])
    [] OTHER -> Fields(T, parts, sofar)

FieldNamed(T, name, parts, sofar) ==
  LET inner == CASE name.text = "a" -> T.of[1] [] name.text = "b" -> Optionally(T.of[2])
                 [] OTHER -> Ignored
  IN CASE IsFailure(name) -> name
       [] name.text \in {"a", "b"} /\ sofar[name.text] # Absent -> Failure(<<Field(name.text)>>)
       [] OTHER -> FieldRead(T, name.text, Decode(inner, parts[2]), Tail(Tail(parts)), sofar)

Fields(T, parts, sofar) ==
  CASE parts # <<>> -> FieldNamed(T, Decode(Identifier, parts[1]), parts, sofar)
    [] parts = <<>> /\ sofar["a"] = Absent -> Failure(<<Field("a")>>)
    [] OTHER -> Structured(sofar["a"], sofar["b"])

BothFields(os) == Unfailed(FirstFailure(os), Structured(os[1], os[2]))

FieldsInOrder(T, parts) ==
  IF Len(parts) < 2 THEN Mismatch
  ELSE BothFields(<<Decode(T.of[1], parts[1]), Decode(Optionally(T.of[2]), parts[2])>>)

TwoOf(T, U, parts) ==
  IF Len(parts) < 2 THEN Mismatch ELSE Listed(<<Decode(T, parts[1]), Decode(U, parts[2])>>)

AcceptStruct(T, v) ==
  CASE v.call = "map" -> Fields(T, v.parts, [a |-> Absent, b |-> Absent])
    [] v.call = "seq" -> FieldsInOrder(T, v.parts)
    [] OTHER -> Mismatch

(* What the content of a variant is read as: "items" are those of a pair.  *)
ContentOf(T, name, pair) ==
  CASE name = "Wrap" -> T [] name = "Many" -> Of(pair, <<T, T>>) [] name = "Rec" -> Struct(T, T)

Contentful == {"Wrap", "Many", "Rec"}

(* unit_variant, newtype_variant_seed, tuple_variant, struct_variant       *)
AcceptVariant(T, name, content) ==
  CASE name = "Unit" ->
         IF content.via = "nothing" \/ content.tree.kind = "null" THEN Tag(name, Null(NoSource))
         ELSE Mismatch
    [] name \in Contentful /\ content.via # "nothing" ->
         Named(name, Decode(ContentOf(T, name, "items"), content))
    [] OTHER -> Mismatch

(* the same of the entry of a mapping, which must be its only one          *)
EntryVariant(name, parts, o) ==
  CASE name = "Unit"  -> Mismatch
    [] IsFailure(o)   -> o
    [] Len(parts) > 2 -> Mismatch
    [] OTHER          -> Tag(name, o)

AcceptEntryVariant(T, name, parts) ==
  EntryVariant(name, parts,
               IF name \in Contentful THEN Decode(ContentOf(T, name, "pair"), parts[2])
               ELSE Placing(parts[2], Mismatch))

AcceptEnum(T, v, name) ==
  CASE IsFailure(name)       -> name
    [] v.call = "entry_enum" -> AcceptEntryVariant(T, name.text, v.parts)
    [] OTHER                 -> AcceptVariant(T, name.text, v.parts[2])

Accept(T, v) ==
  CASE v.call = "error" -> Mismatch
    [] T.t = "any"     -> AcceptValue(v)
    [] T.t = "ignored" -> Null(NoSource)
    [] T.t \in IntegerMethods -> IF IsInteger(v, T.t) THEN Signed(v.text) ELSE Mismatch
    [] T.t = "f64"   -> IF v.call = "f64" \/ v.call \in IntegerMethods THEN Float(v.text) ELSE Mismatch
    [] T.t = "bool"  -> IF v.call = "bool" THEN Bool(v.text) ELSE Mismatch
    [] T.t = "char"  -> IF v.call = "char" THEN Str(v.text) ELSE Mismatch
    [] T.t \in {"str", "identifier"} -> IF v.call = "str" THEN Str(v.text) ELSE Mismatch
    [] T.t = "bytes" -> IF v.call = "bytes" THEN Str(v.text) ELSE Mismatch
    [] T.t = "unit"  -> IF v.call = "unit" THEN Null(NoSource) ELSE Mismatch
    [] T.t = "option" ->
         CASE v.call = "none" -> Null(NoSource)
           [] v.call = "some" -> Listed(<<Decode(T.of[1], v.parts[1])>>)
           [] OTHER -> Mismatch
    [] T.t = "newtype" ->
         IF v.call \in {"newtype", "seq"} /\ v.parts # <<>> THEN Decode(T.of[1], v.parts[1])
         ELSE Mismatch
    [] T.t = "seq" ->
         IF v.call # "seq" THEN Mismatch
         ELSE Listed([i \in DOMAIN v.parts |-> Decode(T.of[1], v.parts[i])])
    [] T.t \in {"pair", "items"} -> IF v.call = "seq" THEN TwoOf(T.of[1], T.of[2], v.parts) ELSE Mismatch
    [] T.t = "map" ->
         IF v.call # "map" THEN Mismatch
         ELSE Collected([i \in DOMAIN v.parts |->
                           Decode(IF i % 2 = 1 THEN T.of[1] ELSE T.of[2], v.parts[i])])
    [] T.t = "struct" -> AcceptStruct(T, v)
    [] T.t = "enum" ->
         IF v.call \notin {"enum", "entry_enum"} THEN Mismatch
         ELSE AcceptEnum(T.of[1], v, Decode(Identifier, v.parts[1]))
=============================================================================
