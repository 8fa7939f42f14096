-------------------------------- MODULE Emitter --------------------------------
(***************************************************************************)
(* src/emit.rs: what text a tree is written as, under every EmitOptions:   *)
(*                                                                         *)
(*   compat  EmitFidelity::ByteCompatible     flow    collections in flow  *)
(*   sort    KeyOrder::Sort                   folded  folded block scalars *)
(*   quote   ScalarQuoteStyle                 safe    yaml_1_1_safe_strings*)
(*                                                                         *)
(* Left out: the spelling of tags, and the single quotes that serializing  *)
(* asks for in byte-compatible mode.                                       *)
(***************************************************************************)
EXTENDS Tokens

CONSTANT DepthLimit   \* DEFAULT_MAX_NESTING_DEPTH

(* A word's place in the order of texts.                                   *)
CONSTANT Rank(_)

-----------------------------------------------------------------------------
(* validate_emittable_at                                                   *)

(* Mutant: keys are compared by their text.                                *)
RECURSIVE EmittableByText(_, _)
EmittableByText(n, depth) ==
  /\ depth <= DepthLimit
  /\ n.kind = "map" =>
       /\ \A i \in DOMAIN n.kids : ~IsMergeKey(Key(n.kids[i]))
       /\ IsInjective([i \in DOMAIN n.kids |-> Key(n.kids[i]).text])
  /\ n.kind = "tag" => n.kids[1].kind # "tag"
  /\ \A i \in DOMAIN n.kids : EmittableByText(n.kids[i], IF n.kind = "entry" THEN depth ELSE depth + 1)

(* Mutant: a node at the limit is one too deep.                            *)
RECURSIVE EmittableBelow(_, _)
EmittableBelow(n, depth) ==
  /\ depth < DepthLimit
  /\ n.kind = "map" =>
       /\ \A i \in DOMAIN n.kids : ~IsMergeKey(Key(n.kids[i]))
       /\ IsInjective([i \in DOMAIN n.kids |-> Identity(Key(n.kids[i]))])
  /\ n.kind = "tag" => n.kids[1].kind # "tag"
  /\ \A i \in DOMAIN n.kids : EmittableBelow(n.kids[i], IF n.kind = "entry" THEN depth ELSE depth + 1)

RECURSIVE Emittable(_, _)
Emittable(n, depth) ==
  /\ depth <= DepthLimit
  /\ n.kind = "map" =>
       /\ \A i \in DOMAIN n.kids : ~IsMergeKey(Key(n.kids[i]))
       /\ IsInjective([i \in DOMAIN n.kids |-> Identity(Key(n.kids[i]))])
  /\ n.kind = "tag" => n.kids[1].kind # "tag"
  /\ \A i \in DOMAIN n.kids : Emittable(n.kids[i], IF n.kind = "entry" THEN depth ELSE depth + 1)

-----------------------------------------------------------------------------
(* Quoting.                                                                *)

(* is_structural_plain_safe *)
StructuralPlainSafe(text, safe) ==
  /\ Len(text) = 1 /\ text[1].lead = 0
  /\ text[1].word \notin
       {""} \union Resolvable \union Markers \union Controls \union Indented \union EndsInColon
            \union ColonInside \union CommaInside \union HashInside \union QuoteInside
            \union OpensFlow \union Comments \union Aliases \union Dashes \union LongDashes
            \union Questions
  /\ safe => text[1].word \notin Yaml11Bools

(* is_byte_compatible_plain_safe *)
CompatiblePlainSafe(text) ==
  /\ Len(text) = 1 /\ text[1].lead = 0
  /\ text[1].word \notin
       {""} \union (Resolvable \ {"-.inf"}) \union Markers \union Controls \union Indented
            \union ColonInside \union HashInside \union OpensFlow \union Comments \union Aliases
            \union Dashes \union LongDashes \union Questions

IsControl(text) == Len(text) > 1 \/ text[1].word \in Controls \union Indented

(* single_quote_can_represent; a tab is allowed *)
SingleQuotable(text) == Len(text) = 1 /\ text[1].word \notin Controls \union QuoteInside

(* quote_if_needed *)
StyleOf(text, o) ==
  CASE o.compat /\ CompatiblePlainSafe(text) -> "plain"
    [] o.compat /\ ~CompatiblePlainSafe(text) -> IF IsControl(text) THEN "double" ELSE "single"
    [] ~o.compat /\ o.quote = "plain" ->
         IF StructuralPlainSafe(text, o.safe) THEN "plain" ELSE "double"
    [] ~o.compat /\ o.quote = "single" -> IF SingleQuotable(text) THEN "single" ELSE "double"
    [] ~o.compat /\ o.quote = "double" -> "double"

-----------------------------------------------------------------------------
(* Flow layout.                                                            *)

(* Parts with a token between each two.                                    *)
Separated(mark, parts) ==
  FlattenSeq([i \in DOMAIN parts |-> IF i = 1 THEN parts[i] ELSE <<mark>> \o parts[i]])

RECURSIVE Inline(_, _), Ordered(_, _)

(* ordered_entries: the order of the texts of the keys                     *)
Ordered(entries, o) ==
  IF ~o.sort THEN entries
  ELSE SortSeq(entries, LAMBDA e, f : Rank(Inline(Key(e), o)) < Rank(Inline(Key(f), o)))

(* format_key, write_inline *)
Inline(n, o) ==
  CASE n.kind = "str" -> <<Scalar(n.text, StyleOf(n.text, o))>>
    [] n.kind = "seq" ->
         <<Mark("[")>> \o Separated(Comma, [i \in DOMAIN n.kids |-> Inline(n.kids[i], o)])
           \o <<Mark("]")>>
    [] n.kind = "map" ->
         LET entries == Ordered(n.kids, o) IN
         <<Mark("{")>>
           \o Separated(Comma, [i \in DOMAIN entries |->
                Inline(Key(entries[i]), o) \o <<Colon>> \o Inline(Val(entries[i]), o)])
           \o <<Mark("}")>>
    [] n.kind = "tag" -> <<TagToken(n.text)>> \o Inline(n.kids[1], o)
    [] OTHER -> <<Scalar(n.text, "plain")>>

-----------------------------------------------------------------------------
(* Block scalars.                                                          *)

(* block_string_can_represent_literal_content *)
Literal(text) == \A i \in DOMAIN text : text[i].word \notin Controls

(* should_emit_block_string *)
BlockString(n, o) == n.kind = "str" /\ ~o.flow /\ Len(n.text) > 1 /\ Literal(n.text)

(* the line breaks that end a text *)
Trailing(text) ==
  LET lasts == {k \in 1..(Len(text) - 1) : \A i \in (Len(text) - k + 1)..Len(text) : text[i] = EmptyLine}
  IN  IF lasts = {} THEN 0 ELSE CHOOSE k \in lasts : \A l \in lasts : l <= k

Content(text) == IF Trailing(text) = 0 THEN text ELSE Front(text)

(* needs_explicit_block_indent *)
StartsWithSpace(text) ==
  LET i == SelectInSeq(text, LAMBDA l : l # EmptyLine) IN i # 0 /\ text[i].lead > 0

(* folded_block_can_represent_literal_content *)
Foldable(text) ==
  /\ \A i \in 2..(Len(text) - 1) : text[i] # EmptyLine
  /\ \A i \in 2..Len(Content(text)) :
       LET l == Content(text)[i] IN l = EmptyLine \/ l.lead > 0 \/ l.word \in Indented

(* emit_block_string_indicator_and_content *)
HeaderOf(text, o) ==
  Header(IF o.folded /\ Foldable(text) THEN "folded" ELSE "literal",
         CASE Trailing(text) = 0 -> "strip"
           [] Trailing(text) > 1 \/ Content(text) = <<EmptyLine>> -> "keep"
           [] OTHER -> "clip",
         IF StartsWithSpace(text) THEN 2 ELSE 0)

HeaderAndContent(text, indent, o) ==
  <<HeaderOf(text, o)>> \o
  FlattenSeq([i \in DOMAIN Content(text) |->
    LET l == Content(text)[i] IN
    <<Newline, Pad(indent), Pad(l.lead)>> \o (IF l.word = "" THEN <<>> ELSE <<Plain(l.word)>>)])

-----------------------------------------------------------------------------
(* Block layout.  A context is "root", "value" (of a mapping) or "item".   *)

(* tagged_value_needs_block_indent *)
NeedsBlock(n, o) == NonEmpty(n, "map") \/ NonEmpty(n, "seq") \/ BlockString(n, o)

(* mapping_value_needs_block_indent *)
ValueNeedsBlock(n, o) ==
  NeedsBlock(n, o) \/ (o.compat /\ n.kind = "tag" /\ NeedsBlock(n.kids[1], o))

NeedsExplicitKey(k) == k.kind \in {"seq", "map", "tag"}

RECURSIVE EmitNode(_, _, _, _)

OnLineOfItsOwn(context) == IF context = "root" THEN <<>> ELSE <<Newline>>

(* emit_mapping_value: byte-compatible sequences are not indented          *)
EmitMappingValue(v, indent, o) ==
  EmitNode(v, IF o.compat /\ NonEmpty(v, "seq") THEN indent - 2 ELSE indent, "value", o)

EmitKey(k, indent, o) ==
  IF NeedsExplicitKey(k)
  THEN <<Ask>> \o Inline(k, o) \o <<Newline, Pad(indent), Answer>>
  ELSE Inline(k, o) \o <<Colon>>

EmitMapping(entries, indent, context, o) ==
  LET ordered == Ordered(entries, o) IN
  OnLineOfItsOwn(context)
    \o Separated(Newline, [i \in DOMAIN ordered |->
         <<Pad(indent)>> \o EmitKey(Key(ordered[i]), indent, o)
           \o EmitMappingValue(Val(ordered[i]), indent + 2, o)])

(* The mapping of an item starts behind the dash.                          *)
CompactMapping(item) ==
  NonEmpty(item, "map") /\ \A i \in DOMAIN item.kids : ~NeedsExplicitKey(Key(item.kids[i]))

(* Mutant: the value of the first key is indented from the dash.           *)
EmitCompactFromDash(entries, indent, o) ==
  Separated(Newline, [i \in DOMAIN entries |->
    (IF i = 1 THEN <<>> ELSE <<Pad(indent + 2)>>)
      \o Inline(Key(entries[i]), o) \o <<Colon>>
      \o EmitMappingValue(Val(entries[i]), IF i = 1 THEN indent + 2 ELSE indent + 4, o)])

EmitCompact(entries, indent, o) ==
  Separated(Newline, [i \in DOMAIN entries |->
    (IF i = 1 THEN <<>> ELSE <<Pad(indent + 2)>>)
      \o Inline(Key(entries[i]), o) \o <<Colon>>
      \o EmitMappingValue(Val(entries[i]),
           IF i = 1 /\ ~ValueNeedsBlock(Val(entries[i]), o) THEN indent + 2 ELSE indent + 4, o)])

EmitSequence(items, indent, context, o) ==
  OnLineOfItsOwn(context)
    \o Separated(Newline, [i \in DOMAIN items |->
         <<Pad(indent), Dash>>
           \o (IF CompactMapping(items[i]) THEN EmitCompact(items[i].kids, indent, o)
               ELSE EmitNode(items[i], indent + 2, "item", o))])

(* emit_block_string *)
ContentIndent(indent, context) == IF context = "root" THEN indent + 2 ELSE indent

(* emit_tagged_structured *)
EmitTagged(n, indent, context, o) ==
  LET v == n.kids[1] IN
  <<TagToken(n.text)>> \o
  CASE BlockString(v, o) -> HeaderAndContent(v.text, ContentIndent(indent, context), o)
    [] ~BlockString(v, o) /\ NeedsBlock(v, o) ->
         <<Newline>> \o EmitNode(v, IF v.kind = "seq" /\ context = "value" THEN indent - 2 ELSE indent,
                                 "root", o)
    [] ~BlockString(v, o) /\ ~NeedsBlock(v, o) -> Inline(v, o)

EmitNode(n, indent, context, o) ==
  CASE NonEmpty(n, "map") /\ ~o.flow -> EmitMapping(n.kids, indent, context, o)
    [] NonEmpty(n, "seq") /\ ~o.flow -> EmitSequence(n.kids, indent, context, o)
    [] BlockString(n, o) -> HeaderAndContent(n.text, ContentIndent(indent, context), o)
    [] n.kind = "tag" /\ (o.compat \/ (context # "value" /\ NeedsBlock(n.kids[1], o))) ->
         EmitTagged(n, indent, context, o)
    [] OTHER -> Inline(n, o)

(* to_string_with_options *)
Emitted(n, o) == LinesOf(EmitNode(n, 0, "root", o))
=============================================================================
