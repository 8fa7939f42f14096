---------------------------- MODULE EmitRoundTrip ----------------------------
(***************************************************************************)
(* Writing a tree down (to_string_with_options) and parsing what was       *)
(* written.  A text that was written with safe strings is read with the    *)
(* YAML 1.1 schema, the others with the core schema.                       *)
(***************************************************************************)
EXTENDS Emitter, NodeGrammar

CONSTANTS
  Trees,    \* the nodes that are emitted
  Options   \* the EmitOptions they are emitted with

VARIABLES
  node, options,
  lines,     \* the text
  outcome,   \* the node that was parsed
  status     \* given, emitted, refused, read

vars == <<node, options, lines, outcome, status>>

Init ==
  /\ node \in Trees
  /\ options \in Options
  /\ lines = <<>>
  /\ outcome = Null
  /\ status = "given"

(* validate_emittable *)
Refuse ==
  /\ status = "given"
  /\ ~Emittable(node, 1)
  /\ status' = "refused"
  /\ UNCHANGED <<node, options, lines, outcome>>

Emit ==
  /\ status = "given"
  /\ Emittable(node, 1)
  /\ lines' = Emitted(node, options)
  /\ status' = "emitted"
  /\ UNCHANGED <<node, options, outcome>>

(* parse_document *)
ReadBack ==
  /\ status = "emitted"
  /\ outcome' = Document(lines, options.safe)
  /\ status' = "read"
  /\ UNCHANGED <<node, options, lines>>

Over ==
  /\ status \in {"refused", "read"}
  /\ UNCHANGED vars

Next == Refuse \/ Emit \/ ReadBack \/ Over

Spec == Init /\ [][Next]_vars

-----------------------------------------------------------------------------
(* The same tree, its mappings taken as sets of entries.                   *)
RECURSIVE SameTree(_, _)
SameTree(m, n) ==
  /\ m.kind = n.kind /\ m.text = n.text /\ Len(m.kids) = Len(n.kids)
  /\ IF m.kind = "map"
     THEN \A e \in {m.kids[i] : i \in DOMAIN m.kids} :
            \E f \in {n.kids[i] : i \in DOMAIN n.kids} : SameTree(e, f)
     ELSE \A i \in DOMAIN m.kids : SameTree(m.kids[i], n.kids[i])

SameAs(n) == IF options.sort THEN SameTree(node, n) ELSE node = n

RECURSIVE Words(_)
Words(n) ==
  (IF n.kind = "str" THEN {n.text[i].word : i \in DOMAIN n.text} ELSE {})
    \union UNION {Words(n.kids[i]) : i \in DOMAIN n.kids}

(* Texts that byte-compatible mode, as the library it imitates, leaves     *)
(* plain where they do not read back: a spelling of a number, a colon at   *)
(* the end, and commas in a flow collection.                               *)
LeftPlain == {"-.inf", "a:", "a, a"}

Faithful == options.compat => Words(node) \intersect LeftPlain = {}

(* What was emitted reads back as the tree it was emitted from: whatever   *)
(* the layout and style, the contexts of its nodes, the indentation of a   *)
(* block scalar, its chomping and folding, what its words would be taken   *)
(* for, and the tag in front.  Sorting changes nothing but the order of    *)
(* entries (emit.rs:30, tests/emitter.rs).                                 *)
EmittedReadsBack ==
  status = "read" /\ Faithful => SameAs(outcome)

(* The tree with another key in the place of every `<<` the loader keeps:  *)
(* those within keys, which are not merged, and with the YAML 1.1 schema   *)
(* those whose payload cannot be merged, which are not compared either.    *)
RECURSIVE Renamed(_, _)
Renamed(n, inkey) ==
  LET Kept(e) == IsMergeKey(Key(e)) /\ (inkey \/ (options.safe /\ ~Mergeable(Val(e))))
  IN  IF n.kind # "map"
      THEN [n EXCEPT !.kids = [i \in DOMAIN n.kids |-> Renamed(n.kids[i], inkey)]]
      ELSE Table([i \in DOMAIN n.kids |->
             LET e == n.kids[i] IN
             Entry(IF Kept(e) THEN Str(<<TextLine(IF options.safe THEN i ELSE 1, "<<")>>)
                              ELSE Renamed(Key(e), TRUE),
                   Renamed(Val(e), inkey))])

OnlyKeptMergeKeys == Emittable(Renamed(node, FALSE), 1)

(* Only what could not be read back is refused (validate_emittable_at): a  *)
(* key twice, whatever its tags, two tags on a node, a node below the      *)
(* limit of nesting, and a `<<` that the loader would merge or refuse.     *)
(* The refusal of `<<` goes further, and exactly so far: a tree in which   *)
(* all such keys are kept by the loader would read back.                   *)
RefusedUnreadable ==
  status = "refused" =>
    LET back == Document(Emitted(node, options), options.safe)
    IN  IF OnlyKeptMergeKeys THEN Faithful => SameAs(back) ELSE ~SameAs(back)

(* KeyOrder::Sort: "Sort mapping entries by their emitted key text"        *)
(* (emit.rs:56), of every mapping that was read.                           *)
RECURSIVE InOrder(_)
InOrder(n) ==
  /\ n.kind = "map" =>
       \A i \in 1..(Len(n.kids) - 1) :
         Rank(Inline(Key(n.kids[i]), options)) <= Rank(Inline(Key(n.kids[i + 1]), options))
  /\ \A i \in DOMAIN n.kids : InOrder(n.kids[i])

KeysSorted == status = "read" /\ options.sort => InOrder(outcome)

(* "structural YAML whose parse tree is equivalent to the input tree"      *)
(* (emit.rs:30): also at the limit of nesting.                             *)
DeepReadsBack == status = "read" => outcome = node
=============================================================================
