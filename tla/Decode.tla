-------------------------------- MODULE Decode --------------------------------
(***************************************************************************)
(* One document read in all the ways src/de.rs offers: from its text, from *)
(* a stream over its text or over a reader, from the node it parses to,    *)
(* and, without a parser, from a node or a value a caller has built.       *)
(* The parser is taken at its word: the text is that of the document, and  *)
(* parsing it expands the merge keys or refuses them (MergeKeys).          *)
(***************************************************************************)
EXTENDS Visitors, FiniteSets

CONSTANTS Documents,     \* the trees that are read
          Targets        \* what they are read as

VARIABLES doc, target,
          answers        \* what each way has made of the document

vars == <<doc, target, answers>>

Ways == <<"from_str", "from_documents", "from_reader", "from_events", "from_node",
          "node_ref", "node", "from_value", "value_ref">>

Done == Cardinality(DOMAIN answers) = Len(Ways)

Init == doc \in Documents /\ target \in Targets /\ answers = <<>>

(* Every way is tried once, in the order of Ways.                          *)
Reads(way, outcome) ==
  /\ ~Done
  /\ way = Ways[Cardinality(DOMAIN answers) + 1]
  /\ answers' = answers @@ (way :> outcome)
  /\ UNCHANGED <<doc, target>>

ParsedTree == Merged(doc)

(* What a way makes of the parsed document; a merge key that is refused    *)
(* fails the parse.                                                        *)
Parsing(via, path) ==
  IF ParsedTree = Failed THEN Mismatch
  ELSE Decode(target, Part(path, via, ParsedTree, "bare", NoSegment))

FromStr       == Reads("from_str", Parsing("tree", "input"))
FromDocuments == Reads("from_documents", Parsing("stream", "input"))
FromReader    == Reads("from_reader", Parsing("stream", "node"))
FromEvents    == Reads("from_events", Decode(target, Bare("events", doc)))
FromNode      == Reads("from_node", Parsing("tree", "node_ref"))

NodeRef  == Reads("node_ref", Decode(target, Bare("node_ref", doc)))
NodeOwned == Reads("node", Decode(target, Bare("node", doc)))

FromValue ==
  Reads("from_value", IF MergedValue(ValueOf(doc)) = Failed THEN Mismatch
                      ELSE Decode(target, Bare("value", MergedValue(ValueOf(doc)))))

ValueRef == Reads("value_ref", Decode(target, Bare("value_ref", ValueOf(doc))))

Over == Done /\ UNCHANGED vars

Next == FromStr \/ FromDocuments \/ FromReader \/ FromEvents \/ FromNode
        \/ NodeRef \/ NodeOwned \/ FromValue \/ ValueRef \/ Over

Spec == Init /\ [][Next]_vars
=============================================================================
