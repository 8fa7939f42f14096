------------------------------- MODULE Samples -------------------------------
(***************************************************************************)
(* Documents and targets to decode and to serialize.                       *)
(***************************************************************************)
EXTENDS Visitors

-----------------------------------------------------------------------------
(* Documents.                                                              *)

one == Signed("small")
a == Str("a")
b == Str("b")
mergeKey == Str("<<")

Scalars ==
  {Null(""), Null("~"), Bool("true"), one, Signed("neg"), Signed("low"), Signed("big"),
   Signed("huge"), Unsigned("vast"), Unsigned("big"), Float("small"), a, Str("7"), Str("Unit"), Str("ab")}

Few == {one, Signed("huge"), Null(""), Null("~"), a, Float("small")}

CoreTagged ==
  {Tag(name, Str(text)) : name \in {"int", "bool", "float", "null", "str"}, text \in {"7", "yes", "~"}}
    \union {Tag("binary", Str(text)) : text \in {"Bw==", "", "a"}}

Tagged ==
  CoreTagged \union {Tag("foo", n) : n \in Few} \union {Tag("Wrap", n) : n \in Few}
    \union {Tag("foo", Tag("int", Str("7"))), Tag("int", Tag("foo", one)), Tag("Many", List(<<one, one>>)),
            Tag("Rec", Table(<<Entry(a, one)>>)), Tag("Unit", Null("")), Tag("foo", List(<<one, a>>)),
            Tag("foo", Table(<<Entry(a, one)>>))}

Lists ==
  {List(<<>>), List(<<one>>), List(<<one, a>>), List(<<a, one>>), List(<<one, one>>), List(<<one, a, one>>),
   List(<<List(<<one>>), List(<<a>>)>>), List(<<Null(""), one>>), List(<<Tag("foo", one), a>>),
   List(<<Table(<<Entry(a, one)>>), Str("Unit")>>),
   List(<<Table(<<Entry(Str("Wrap"), one)>>), Table(<<Entry(Str("Wrap"), a)>>)>>)}

Tables ==
  {Table(<<>>), Table(<<Entry(a, one)>>), Table(<<Entry(b, one)>>), Table(<<Entry(a, one), Entry(b, a)>>),
   Table(<<Entry(a, List(<<one, a>>))>>), Table(<<Entry(b, a), Entry(a, one), Entry(one, a)>>),
   Table(<<Entry(one, one)>>), Table(<<Entry(Null("~"), one)>>), Table(<<Entry(a, Table(<<Entry(b, a)>>))>>),
   Table(<<Entry(Str("Wrap"), one)>>), Table(<<Entry(Str("Unit"), Null("~"))>>),
   Table(<<Entry(Str("Many"), List(<<one, a>>))>>), Table(<<Entry(Str("Rec"), Table(<<Entry(a, one)>>))>>),
   Table(<<Entry(a, Tag("int", Str("7"))), Entry(b, Tag("foo", Str("ab")))>>)}

SetOf(k, v)  == Tag("set", Table(<<Entry(k, v), Entry(b, Null(""))>>))
Ordered(tag, items) == Tag(tag, List(items))
Single(k, v) == Table(<<Entry(k, v)>>)

Yaml11 ==
  {SetOf(a, Null("")), SetOf(one, Null("~")), SetOf(a, one), Tag("set", List(<<a>>)),
   Tag("foo", SetOf(a, Tag("null", Str("~"))))}
    \union
  {Ordered(tag, items) :
     tag \in {"omap", "pairs"},
     items \in {<<Single(a, one), Single(b, one)>>, <<Single(a, one), Single(a, one)>>, <<Single(a, b), one>>,
                <<Single(one, a), Tag("foo", Single(Unsigned("small"), one))>>,
                <<Single(a, one), Single(Tag("foo", a), one)>>}}
    \union {Tag("omap", one), Tag("pairs", Single(a, one))}

ComplexKeys == {Table(<<Entry(List(<<one>>), one)>>), Table(<<Entry(List(<<a>>), one)>>)}

Base == Single(a, one)
Overlay == Table(<<Entry(a, a), Entry(b, one)>>)

Merging ==
  {Table(<<Entry(mergeKey, payload)>> \o rest) :
     payload \in {Base, Overlay, List(<<Base, Overlay>>), Single(mergeKey, Base), one, List(<<Base, one>>),
                  Tag("foo", Base), Single(Str("Wrap"), one)},
     rest \in {<<>>, <<Entry(a, Str("7"))>>, <<Entry(b, one)>>}}
    \union
  {List(<<Single(mergeKey, Base)>>), Single(a, Single(mergeKey, Base)),
   Tag("foo", Single(mergeKey, Base)), Single(Single(mergeKey, Base), one),
   Table(<<Entry(a, one), Entry(Tag("merge", mergeKey), Overlay)>>)}

Plainest == Scalars \union Tagged \union Lists \union Tables \union ComplexKeys

-----------------------------------------------------------------------------
(* Targets.                                                                *)

I64 == Plainly("i64")
Text == Plainly("str")

Simple == {AnyValue, Ignored, I64, Text} \union
          {Plainly(t) : t \in {"bool", "u64", "i128", "u128", "f64", "char", "bytes", "unit"}}

Compound ==
  {Optionally(I64), Optionally(ListOf(I64)), Wrapped(I64), Wrapped(Optionally(I64)),
   ListOf(I64), ListOf(Plainly("u64")), ListOf(AnyValue), ListOf(Optionally(I64)), PairTyped(I64, Text),
   ListOf(PairTyped(Text, I64)), MapOf(Text, I64), MapOf(Text, Text), MapOf(AnyValue, AnyValue),
   MapOf(Text, ListOf(I64)), MapOf(ListOf(I64), I64), MapOf(Text, MapOf(Text, I64)),
   Struct(I64, Text), Struct(ListOf(I64), AnyValue), ListOf(Struct(I64, Text)), ListOf(Wrapped(I64))}

Enums == {Variants(I64), ListOf(Variants(I64)), MapOf(Text, Variants(I64)), Optionally(Variants(I64))}

(* with src/with.rs *)
Singletons ==
  {Once(Variants(I64)), Once(Optionally(Variants(I64))), MapOf(Text, Once(Variants(I64))),
   Struct(Once(Variants(I64)), Text), Recursively(ListOf(Variants(I64))),
   Recursively(MapOf(Text, Optionally(Variants(I64)))), Recursively(Variants(Variants(I64))),
   Recursively(Struct(Wrapped(Variants(I64)), Text))}

RECURSIVE Reaches(_, _)
Reaches(T, t) == T.t = t \/ \E i \in DOMAIN T.of : Reaches(T.of[i], t)
=============================================================================
