----------------------------- MODULE EventReaders -----------------------------
(***************************************************************************)
(* Two more readings, of src/event_de: "events" reads a document from the  *)
(* parser's events, and "prepared" a Node that was built from them where   *)
(* the events alone do not do: merges, tagged collections and enums.  How  *)
(* the cursor moves over the events is in EventReplay; here a document is  *)
(* the tree its events spell, merge keys not expanded.                     *)
(***************************************************************************)
EXTENDS Deserializers

(* scalar_from_event: a core tag is resolved when the event is taken.      *)
CoreScalarTags == {"int", "float", "bool", "null"}

TaggedScalar(name, raw, parsed) ==
  IF parsed = Failed THEN Failed
  ELSE Tag(name, [parsed EXCEPT !.src = IF name \in {"int", "float"} THEN raw ELSE NoSource])

EventScalar(n) ==
  IF n.kind # "tag" \/ n.text \notin CoreScalarTags THEN n
  ELSE TaggedScalar(n.text, n.kids[1].text, Parsed(n.text, n.kids[1].text))

(* materialize_current_node_for_merge *)
IsScalar(n) == Untagged(n).kind \notin {"seq", "map", "entry"}

RECURSIVE Materialized(_)
Materialized(n) ==
  IF IsScalar(n) THEN EventScalar(n)
  ELSE Remade(n, [i \in DOMAIN n.kids |-> Materialized(n.kids[i])])

(* apply_merge_keys_with_policy follows                                    *)
Prepared(n) == Merged(Materialized(n))

(* string_target_text: only a number's spelling is kept                    *)
TargetText(n) ==
  LET s == Untagged(n) IN
  CASE s.kind = "str"  -> s.text
    [] s.kind = "null" -> "null"
    [] s.kind = "bool" -> s.text
    [] s.kind \in Numbers /\ s.src # NoSource -> s.src
    [] OTHER -> "none"

ReadTargetText(method, n) ==
  LET text == TargetText(n) IN
  IF text = "none" \/ (method = "char" /\ Len(text) # 1) THEN Fails ELSE Pass(method, text)

(* A scalar without its tags is what its event made of it.                 *)
ReadTaken(method, n) ==
  LET s == Untagged(n) IN
  CASE method \in {"str", "char"} -> ReadTargetText(method, n)
    [] method = "bool" /\ s.kind = "bool" -> Pass("bool", s.text)
    [] method = "unit" /\ s.kind = "null" -> Pass("unit", "")
    [] method \in IntegerMethods -> VisitInteger(method, s)
    [] method = "f64" -> VisitFloat(s)
    [] OTHER -> Fails

-----------------------------------------------------------------------------
(* PreparedNodeDeserializer: the YAML 1.1 collections are converted whole. *)

PreparedAny(n) == NodeAny("prepared", n, n.kids)
PreparedScalar(method, n) == ReadTaken(method, n)

PreparedOption(n) ==
  IF Untagged(n).kind = "null" THEN Pass("none", "")
  ELSE Visit("some", "", <<Bare("prepared", n)>>)

PreparedNewtype(n) == Visit("newtype", "", <<Bare("prepared", n)>>)

(* yaml11_set_key_nodes, yaml11_pair_sequence_nodes *)
SetKeyNodes(entries) ==
  IF \E i \in DOMAIN entries : Untagged(Val(entries[i])).kind # "null" THEN Refused
  ELSE [i \in DOMAIN entries |-> Key(entries[i])]

PairNodes(items) ==
  LET pairs == [i \in DOMAIN items |-> Singleton(items[i])] IN
  IF Contains(pairs, Failed) THEN Refused
  ELSE [i \in DOMAIN items |-> List(<<Key(pairs[i]), Val(pairs[i])>>)]

PreparedSequence(n) ==
  LET name    == SequenceTag(n)
      content == Explicit(n, name)
      bare    == Untagged(n)
      all(items) == IF items = Refused THEN Fails ELSE Indexed("prepared", items)
  IN CASE name = "set" -> IF content.kind = "map" THEN all(SetKeyNodes(content.kids)) ELSE Fails
       [] name \in {"omap", "pairs"} ->
            IF content.kind = "seq" THEN all(PairNodes(content.kids)) ELSE Fails
       [] OTHER -> IF bare.kind = "seq" THEN all(bare.kids) ELSE Fails

PreparedMapping(n) ==
  LET content == Explicit(n, "omap")
      bare    == Untagged(n)
      pairs   == [i \in DOMAIN content.kids |-> Singleton(content.kids[i])]
  IN CASE content.kind = "seq" ->
            IF OmapEntries("prepared", content.kids) = Fails THEN Fails ELSE Keyed("prepared", pairs)
       [] content = Absent /\ bare.kind = "map" -> Keyed("prepared", bare.kids)
       [] OTHER -> Fails

PreparedVariant(n) == NodeVariant("prepared", n)

PreparedAnswer(method, n) ==
  CASE method = "any"     -> PreparedAny(n)
    [] method = "option"  -> PreparedOption(n)
    [] method = "newtype" -> PreparedNewtype(n)
    [] method = "seq"     -> PreparedSequence(n)
    [] method = "map"     -> PreparedMapping(n)
    [] method = "enum"    -> PreparedVariant(n)
    [] method = "ignored" -> Pass("unit", "")
    [] OTHER              -> PreparedScalar(method, n)

-----------------------------------------------------------------------------
(* EventNodeDeserializer: a scalar is taken, a collection read event by    *)
(* event unless it has to be prepared.                                     *)

UnlessFailed(method, n) == IF n = Failed THEN Fails ELSE PreparedAnswer(method, n)
HandedOver(method, n)   == UnlessFailed(method, Prepared(n))

HasMerge(n) == n.kind = "map" /\ FirstMerge(n.kids) # 0

RECURSIVE MergesInside(_)
MergesInside(n) == HasMerge(n) \/ \E i \in DOMAIN n.kids : MergesInside(n.kids[i])

EventScalars(method, n) ==
  IF ~IsScalar(n) \/ EventScalar(n) = Failed THEN Fails ELSE ReadTaken(method, EventScalar(n))

(* Mutant of EventSequence: the tags of a sequence are not looked at.      *)
EventSequenceUntagged(n) ==
  LET bare == Untagged(n) IN
  IF bare.kind = "seq" THEN Indexed("events", bare.kids) ELSE Fails

(* peek_has_yaml_core_tag *)
IsCoreTagged(n, names) == n.kind = "tag" /\ ~IsScalar(n) /\ n.text \in names

EventSequence(n) ==
  LET bare == Untagged(n) IN
  CASE IsCoreTagged(n, {"set", "omap", "pairs"}) -> HandedOver("seq", n)
    [] bare.kind = "seq" -> Indexed("events", bare.kids)
    [] OTHER -> Fails

(* The visitor of a tuple returns without having asked for the end of the  *)
(* sequence, whose event is then in the way of whatever is read next: the  *)
(* document fails there (EventReplay), if not with this path.              *)
EventTuple(n) ==
  IF IsCoreTagged(n, {"set", "omap", "pairs"}) THEN HandedOver("seq", n) ELSE Fails

(* A key in which mappings merge is refused by the look at the keys.       *)
EventMapping(n) ==
  LET bare == Untagged(n) IN
  CASE IsCoreTagged(n, {"omap"}) \/ HasMerge(bare) -> HandedOver("map", n)
    [] bare.kind # "map" \/ \E i \in DOMAIN bare.kids : MergesInside(Key(bare.kids[i])) -> Fails
    [] OTHER -> Keyed("events", bare.kids)

EventAny(n) ==
  CASE IsScalar(n) -> IF EventScalar(n) = Failed THEN Fails ELSE PreparedAny(EventScalar(n))
    [] n.kind = "tag" -> HandedOver("any", n)
    [] n.kind = "seq" -> EventSequence(n)
    [] n.kind = "map" -> EventMapping(n)

EventOption(n) ==
  CASE ~IsScalar(n)             -> Visit("some", "", <<Bare("events", n)>>)
    [] EventScalar(n) = Failed  -> Fails
    [] Untagged(EventScalar(n)).kind = "null" -> Pass("none", "")
    [] OTHER                    -> Visit("some", "", <<Bare("events", n)>>)

EventNewtype(n) == Visit("newtype", "", <<Bare("events", n)>>)
EventVariant(n) == HandedOver("enum", n)

(* skip_node: what is ignored is still merged *)
RECURSIVE Skipped(_)
Skipped(n) ==
  IF HasMerge(n) THEN Prepared(n) # Failed ELSE \A i \in DOMAIN n.kids : Skipped(n.kids[i])

EventIgnored(n) == IF Skipped(n) THEN Pass("unit", "") ELSE Fails

EventAnswer(method, n) ==
  CASE method = "any"     -> EventAny(n)
    [] method = "option"  -> EventOption(n)
    [] method = "newtype" -> EventNewtype(n)
    [] method = "seq"     -> EventSequence(n)
    [] method = "tuple"   -> EventTuple(n)
    [] method = "map"     -> EventMapping(n)
    [] method = "enum"    -> EventVariant(n)
    [] method = "ignored" -> EventIgnored(n)
    [] OTHER              -> EventScalars(method, n)
=============================================================================
