------------------------------- MODULE Anchors -------------------------------
(***************************************************************************)
(* Anchors and aliases while nodes are parsed: AnchorRegistry, the node    *)
(* properties (`&a`, `!t`) in front of a node, and the event recorder's    *)
(* pending metadata.                                                       *)
(*                                                                         *)
(* The recursive descent of the parser is a stack of frames: an open       *)
(* collection, or a property whose node is still being parsed.  The tokens *)
(* of the input are chosen step by step.  The same registry serves the     *)
(* block parser and FlowParser, which differ in how they look for          *)
(* repeated properties, and the two modes: the semantic loaders, which     *)
(* expand aliases, and the event recorder, which only validates them.      *)
(*                                                                         *)
(* A node is what the checks look at: its count_nodes size, its node_depth *)
(* depth and its tags; and, for the properties, the generations of its     *)
(* anchors and how it was written.  Sequences and mappings are both        *)
(* collections: which child is a key matters only for the depth it counts. *)
(***************************************************************************)
EXTENDS Naturals, Sequences, FiniteSets, TLC

CONSTANTS
  Names,       (* anchor names                                            *)
  Budget,      (* LoadOptions::alias_expansion_budget                     *)
  MaxDepth,    (* LoadOptions::selected_max_nesting_depth                 *)
  Extra,       (* most levels a block call counts beyond the least        *)
  MaxTokens,   (* bound on the tokens of the whole input                  *)
  NoName       (* not a name                                              *)

ASSUME AnchorsAssumption ==
  /\ Budget \in Nat
  /\ MaxDepth \in Nat
  /\ Extra \in Nat
  /\ MaxTokens \in Nat
  /\ NoName \notin Names

VARIABLES
  mode,        (* "semantic" or "events": recording_events()              *)
  stack,       (* the recursive calls in progress                         *)
  value,       (* the node just returned by the innermost call            *)
  entries,     (* AnchorRegistry.entries                                  *)
  generation,  (* AnchorRegistry.generation                               *)
  expanded,    (* AnchorRegistry.expanded_nodes                           *)
  pending,     (* pending_anchor: the deferred finish of `!t &a`          *)
  meta,        (* EventRecorder.pending_meta.anchor                       *)
  at,          (* "document" or "between" documents, or "failed"          *)
  err,         (* the error that ended the stream                         *)
  tokens,      (* tokens read so far                                      *)
  latest,      (* history: generation of the last `&name` of the document *)
  placed,      (* history: every anchored node as it stands in the tree   *)
  made         (* history: nodes of the document written in the source    *)

registry == <<entries, generation, expanded>>
history  == <<latest, placed, made>>
vars     == <<mode, stack, value, registry, pending, meta, at, err, tokens, history>>

PropertyKinds   == {"anchor", "tag"}
CollectionKinds == {"collection", "pair"}

(* split: a property continues in another call; loose: some part of the    *)
(* node was parsed where no call compares its depth.                       *)
Node(size, depth) == [size |-> size, depth |-> depth, gens |-> {}, tags |-> 0,
                      split |-> FALSE, loose |-> FALSE]
NoValue   == Node(0, 0)
NoPending == [name |-> NoName, generation |-> 0]

Absent          == [state |-> "absent", generation |-> 0, node |-> NoValue]
InProgress(g)   == [state |-> "in_progress", generation |-> g, node |-> NoValue]
Complete(g, n)  == [state |-> "complete", generation |-> g, node |-> n]

(* One frame shape for every call: a collection accumulates the size and   *)
(* depth of its children, an anchor holds its name, its generation and     *)
(* whether its finish is deferred to the enclosing tag (anchor_after_tag); *)
(* size is what the call itself adds to the tree.  below is the least      *)
(* depth argument of the calls it makes; level, a history, is the level of *)
(* the tree their nodes stand at, a pair not counted.                      *)
Frame(kind) == [kind |-> kind, flow |-> FALSE, name |-> NoName, generation |-> 0,
                defer |-> FALSE, size |-> 0, depth |-> 0, split |-> FALSE,
                loose |-> FALSE, below |-> 0, level |-> 0]

Top    == stack[Len(stack)]
Below  == IF stack = <<>> THEN 0 ELSE Top.below
Level  == IF stack = <<>> THEN 0 ELSE Top.level
Pop    == SubSeq(stack, 1, Len(stack) - 1)
Push(f) == Append(stack, f)

HasTop(kinds) == stack # <<>> /\ Top.kind \in kinds
InFlow == \E i \in DOMAIN stack : stack[i].flow

(* A node is about to be parsed. *)
Expecting == at = "document" /\ value = NoValue /\ tokens < MaxTokens
Read == tokens' = tokens + 1

(* The depth argument of the call for the next node.  A mapping value      *)
(* counts one level more than its key; the block parser counts further     *)
(* levels between its calls.                                               *)
Depths ==
  Below .. Below + (IF ~InFlow THEN Extra ELSE IF HasTop(PropertyKinds) THEN 0 ELSE 1)

(* check_depth / check_nesting_depth on entry.  Properties and scalars of  *)
(* flow keys, and the null of a flow property or key that has no node, are *)
(* not checked.                                                            *)
Checked(d) == d <= MaxDepth
Admitted(d) == Checked(d) \/ InFlow

Fail(kind) == at' = "failed" /\ err' = kind

-----------------------------------------------------------------------------
(* Documents.                                                              *)

(* reset_document: entries and spent budget go, generations keep counting. *)
ResetDocument ==
  /\ entries' = [n \in Names |-> Absent]
  /\ expanded' = 0
  /\ UNCHANGED generation

BeginDocument ==
  /\ at = "between" /\ tokens < MaxTokens
  /\ at' = "document"
  /\ Read
  /\ ResetDocument
  /\ latest' = [n \in Names |-> 0]
  /\ placed' = <<>>
  /\ made' = 0
  /\ UNCHANGED <<mode, stack, value, pending, meta, err>>

-----------------------------------------------------------------------------
(* Properties.                                                             *)

(* NodePropertyState of the innermost node: the block parser shares it     *)
(* over the properties of one node, but starts afresh where the node goes  *)
(* on in another call (parse_nested_or_null, parse_document_root_or_null,  *)
(* parse_key).  FlowParser keeps none.                                     *)
Recorded(kind) ==
  /\ ~InFlow
  /\ \E i \in DOMAIN stack :
       /\ stack[i].kind = kind
       /\ \A j \in i .. Len(stack) : stack[j].kind \in PropertyKinds /\ ~stack[j].split

(* record_anchor / record_tag *)
DuplicateProperty ==
  /\ Expecting /\ \E d \in Depths : Checked(d)
  /\ \E kind \in PropertyKinds : Recorded(kind)
  /\ Read
  /\ Fail("duplicate_property")
  /\ UNCHANGED <<mode, stack, value, registry, pending, meta, history>>

(* Mutant of AnchorAfterTag: the finish is never deferred. *)
NeverAfterTag == FALSE

(* The block parser defers if the node already has a tag, FlowParser if    *)
(* the anchor directly follows one.                                        *)
AnchorAfterTag == IF InFlow THEN HasTop({"tag"}) ELSE Recorded("tag")

(* AnchorRegistry::begin *)
Begin(name) ==
  /\ generation' = generation + 1
  /\ entries' = [entries EXCEPT ![name] = InProgress(generation + 1)]
  /\ latest' = [latest EXCEPT ![name] = generation + 1]
  /\ UNCHANGED expanded

PushAnchorMeta(name) == meta' = IF mode = "events" THEN name ELSE meta

(* The anchor of a block key, and in flow one right after a tag, counts no *)
(* level of its own.                                                       *)
AnchorBelow(d) == IF InFlow /\ ~HasTop({"tag"}) THEN d + 1 ELSE d

AnchorFrame(name, d) ==
  [Frame("anchor") EXCEPT !.name = name, !.generation = generation + 1,
                          !.defer = AnchorAfterTag, !.below = AnchorBelow(d), !.level = Level]

Anchor ==
  /\ Expecting
  /\ ~Recorded("anchor")
  /\ Read
  /\ \E name \in Names, d \in Depths :
       /\ Admitted(d)
       /\ stack' = Push(AnchorFrame(name, d))
       /\ Begin(name)
       /\ PushAnchorMeta(name)
  /\ UNCHANGED <<mode, value, pending, at, err, placed, made>>

(* tagged_node wraps the node, unless the tag is `!`. *)
TagFrame(wraps, d) ==
  [Frame("tag") EXCEPT !.size = wraps, !.below = d + 1, !.level = Level + wraps]

Tag ==
  /\ Expecting
  /\ ~Recorded("tag")
  /\ Read
  /\ \E d \in Depths, wraps \in {0, 1} :
       /\ Admitted(d)
       /\ stack' = Push(TagFrame(wraps, d))
       /\ made' = made + wraps
  /\ UNCHANGED <<mode, value, registry, pending, meta, at, err, latest, placed>>

(* The node of a block property goes on where the properties start afresh. *)
FreshProperties ==
  /\ Expecting /\ HasTop(PropertyKinds) /\ ~InFlow /\ ~Top.split
  /\ Read
  /\ stack' = [stack EXCEPT ![Len(stack)] = [Top EXCEPT !.split = TRUE]]
  /\ UNCHANGED <<mode, value, registry, pending, meta, at, err, history>>

-----------------------------------------------------------------------------
(* Content.                                                                *)

(* Every event of a node takes the pending metadata; an alias does not.    *)
TakeMeta == meta' = NoName

(* One node without children, in a place that is checked or one that is not. *)
Leaf ==
  \E d \in Depths, loose \in {FALSE, InFlow} :
    /\ loose \/ Checked(d)
    /\ value' = [Node(1, 1) EXCEPT !.loose = loose]

Scalar ==
  /\ Expecting
  /\ Read
  /\ Leaf
  /\ made' = made + 1
  /\ TakeMeta
  /\ UNCHANGED <<mode, stack, registry, pending, at, err, latest, placed>>

CollectionFrame(flow, d) ==
  [Frame("collection") EXCEPT !.flow = flow, !.size = 1, !.depth = 1,
                              !.below = d + 1, !.level = Level + 1]

Open ==
  /\ Expecting
  /\ Read
  /\ \E d \in Depths, flow \in BOOLEAN :
       /\ Checked(d) /\ (InFlow => flow)
       /\ stack' = Push(CollectionFrame(flow, d))
  /\ made' = made + 1
  /\ TakeMeta
  /\ UNCHANGED <<mode, value, registry, pending, at, err, latest, placed>>

(* An item `key: value` of a flow sequence is a mapping of its own, but    *)
(* its key is parsed at the depth of the item.                             *)
PairFrame == [Frame("pair") EXCEPT !.flow = TRUE, !.size = 1, !.depth = 1,
                                   !.loose = TRUE, !.below = Below, !.level = Level]

ImplicitPair ==
  /\ Expecting /\ InFlow /\ HasTop({"collection"})
  /\ Read
  /\ stack' = Push(PairFrame)
  /\ made' = made + 1
  /\ TakeMeta
  /\ UNCHANGED <<mode, value, registry, pending, at, err, latest, placed>>

TooDeep ==
  /\ Expecting /\ \E d \in Depths : ~Checked(d)
  /\ Read
  /\ Fail("depth")
  /\ UNCHANGED <<mode, stack, value, registry, pending, meta, history>>

Close ==
  /\ Expecting /\ HasTop(CollectionKinds)
  /\ Read
  /\ value' = [Node(Top.size, Top.depth) EXCEPT !.loose = Top.loose]
  /\ stack' = Pop
  /\ UNCHANGED <<mode, registry, pending, meta, at, err, history>>

-----------------------------------------------------------------------------
(* Aliases.                                                                *)

(* Mutant of CanAlias: an alias may follow properties. *)
CanAliasAnywhere(d) == Expecting /\ Admitted(d)

CanAlias(d) == Expecting /\ Admitted(d) /\ ~HasTop(PropertyKinds)

(* reject_alias_with_node_properties and its variants *)
AliasWithProperties ==
  /\ Expecting /\ HasTop(PropertyKinds)
  /\ Read
  /\ Fail("alias_with_properties")
  /\ UNCHANGED <<mode, stack, value, registry, pending, meta, history>>

(* validate_alias: the name is enough, its node may still be open.         *)
ValidateAlias ==
  /\ mode = "events" /\ \E d \in Depths : CanAlias(d)
  /\ Read
  /\ \E name \in Names : entries[name].state # "absent"
  /\ Leaf
  /\ made' = made + 1
  /\ UNCHANGED <<mode, stack, registry, pending, meta, at, err, latest, placed>>

(* Mutants: the limit is compared before the node is counted, and without   *)
(* the depth of the place the alias stands at.                              *)
TooManyBefore(node) == expanded > Budget
TooDeepAlone(node, d) == node.depth - 1 > MaxDepth

TooManyNodes(node) == expanded + node.size > Budget
TooDeepHere(node, d) == d + node.depth - 1 > MaxDepth

(* An expansion counts all the nodes it copies. *)
Expand(node) == expanded' = expanded + node.size

(* AnchorRegistry::resolve *)
Resolve ==
  /\ mode = "semantic"
  /\ Read
  /\ \E name \in Names, d \in Depths :
       LET node == entries[name].node IN
       /\ CanAlias(d)
       /\ entries[name].state = "complete"
       /\ ~TooManyNodes(node) /\ ~TooDeepHere(node, d)
       /\ Expand(node)
       /\ value' = Node(node.size, node.depth)
  /\ UNCHANGED <<mode, stack, entries, generation, pending, meta, at, err, history>>

ResolveOverLimit ==
  /\ mode = "semantic"
  /\ Read
  /\ \E name \in Names, d \in Depths :
       LET node == entries[name].node IN
       /\ CanAlias(d)
       /\ entries[name].state = "complete"
       /\ TooManyNodes(node) \/ TooDeepHere(node, d)
       /\ Expand(node)
       /\ Fail(IF TooManyNodes(node) THEN "budget" ELSE "depth")
  /\ UNCHANGED <<mode, stack, value, entries, generation, pending, meta, history>>

UnresolvedAlias ==
  /\ \E d \in Depths : CanAlias(d)
  /\ Read
  /\ \E name \in Names :
       \/ entries[name].state = "absent" /\ Fail("unknown")
       \/ /\ entries[name].state = "in_progress" /\ mode = "semantic"
          /\ Fail("recursive")
  /\ UNCHANGED <<mode, stack, value, registry, pending, meta, history>>

-----------------------------------------------------------------------------
(* A call returns its node to the frame below.                             *)

Returning == at = "document" /\ value # NoValue

(* Mutants of Finish: a finished anchor overwrites whatever is there, the   *)
(* entry stays open, and it is completed without its node.                  *)
FinishAlways(name, gen, node) == entries' = [entries EXCEPT ![name] = Complete(gen, node)]
FinishNever(name, gen, node)  == UNCHANGED entries
FinishEmpty(name, gen, node)  == entries' = [entries EXCEPT ![name].state = "complete"]

(* AnchorRegistry::finish, which a later `&name` may have overtaken *)
Finish(name, gen, node) ==
  entries' = IF entries[name] = InProgress(gen)
             THEN [entries EXCEPT ![name] = Complete(gen, node)]
             ELSE entries

Anchored == [value EXCEPT !.gens = @ \union {Top.generation}, !.split = @ \/ Top.split]

ReturnAnchor ==
  /\ Returning /\ HasTop({"anchor"})
  /\ value' = Anchored
  /\ IF Top.defer
     THEN /\ pending' = [name |-> Top.name, generation |-> Top.generation]
          /\ UNCHANGED entries
     ELSE /\ Finish(Top.name, Top.generation, Anchored)
          /\ UNCHANGED pending
  /\ stack' = Pop
  /\ UNCHANGED <<mode, generation, expanded, meta, at, err, tokens, history>>

(* tagged_node, then finish_deferred_anchor *)
Tagged == [value EXCEPT !.size = @ + Top.size, !.depth = @ + Top.size, !.tags = @ + 1,
                        !.split = @ \/ Top.split]

ReturnTag ==
  /\ Returning /\ HasTop({"tag"})
  /\ value' = Tagged
  /\ IF pending = NoPending THEN UNCHANGED entries
     ELSE Finish(pending.name, pending.generation, Tagged)
  /\ pending' = NoPending
  /\ stack' = Pop
  /\ UNCHANGED <<mode, generation, expanded, meta, at, err, tokens, history>>

MaxNat(a, b) == IF a >= b THEN a ELSE b
Record(node) ==
  placed' = [g \in node.gens \union DOMAIN placed |-> IF g \in node.gens THEN node ELSE placed[g]]

Extended == [Top EXCEPT !.size = @ + value.size, !.depth = MaxNat(@, value.depth + 1),
                        !.loose = @ \/ value.loose]

ReturnItem ==
  /\ Returning /\ HasTop(CollectionKinds)
  /\ stack' = [stack EXCEPT ![Len(stack)] = Extended]
  /\ Record(value)
  /\ value' = NoValue
  /\ UNCHANGED <<mode, registry, pending, meta, at, err, tokens, latest, made>>

ReturnRoot ==
  /\ Returning /\ stack = <<>>
  /\ at' = "between"
  /\ Record(value)
  /\ value' = NoValue
  /\ UNCHANGED <<mode, stack, registry, pending, meta, err, tokens, latest, made>>

Return == ReturnAnchor \/ ReturnTag \/ ReturnItem \/ ReturnRoot

-----------------------------------------------------------------------------
Init ==
  /\ mode \in {"semantic", "events"}
  /\ stack = <<>> /\ value = NoValue
  /\ entries = [n \in Names |-> Absent] /\ generation = 0 /\ expanded = 0
  /\ pending = NoPending /\ meta = NoName
  /\ at = "between" /\ err = "none" /\ tokens = 0
  /\ latest = [n \in Names |-> 0] /\ placed = <<>> /\ made = 0

Next ==
  \/ BeginDocument
  \/ Anchor \/ Tag \/ FreshProperties \/ DuplicateProperty
  \/ Scalar \/ Open \/ ImplicitPair \/ Close \/ TooDeep
  \/ AliasWithProperties \/ ValidateAlias
  \/ Resolve \/ ResolveOverLimit \/ UnresolvedAlias
  \/ Return

Spec == Init /\ [][Next]_vars

-----------------------------------------------------------------------------
(* Properties.                                                             *)

NodeType == [size : Nat, depth : Nat, gens : SUBSET Nat, tags : Nat,
             split : BOOLEAN, loose : BOOLEAN]
EntryType ==
  {e \in [state : {"absent", "in_progress", "complete"}, generation : Nat, node : NodeType] :
     e.state = "complete" <=> e.node # NoValue}
FrameType == [kind : PropertyKinds \union CollectionKinds, flow : BOOLEAN,
              name : Names \union {NoName}, generation : Nat, defer : BOOLEAN,
              size : Nat, depth : Nat, split : BOOLEAN, loose : BOOLEAN,
              below : Nat, level : Nat]
Errors == {"none", "duplicate_property", "alias_with_properties", "unknown",
           "recursive", "budget", "depth"}

TypeOK ==
  /\ mode \in {"semantic", "events"}
  /\ stack \in Seq(FrameType)
  /\ value \in NodeType
  /\ entries \in [Names -> EntryType]
  /\ generation \in Nat
  /\ expanded \in Nat
  /\ pending \in [name : Names \union {NoName}, generation : Nat]
  /\ meta \in Names \union {NoName}
  /\ at \in {"between", "document", "failed"}
  /\ err \in Errors
  /\ tokens \in 0 .. MaxTokens
  /\ latest \in [Names -> Nat]
  /\ made \in Nat

(* An alias means the last `&name` before it in its own document: the      *)
(* registry never falls back to an earlier anchor of the same name, not    *)
(* even when the later one was nested in the earlier one's node, and holds *)
(* nothing of an earlier document.                                         *)
LastDeclarationWins ==
  at # "failed" => \A n \in Names : entries[n].generation = latest[n]

(* An entry is in progress exactly while its node is being parsed.  So no  *)
(* alias resolves to a node that contains it, and, after the node, none is *)
(* refused as recursive.                                                   *)
AnchorOpen(g) == \/ \E i \in DOMAIN stack : stack[i].kind = "anchor" /\ stack[i].generation = g
                 \/ pending # NoPending /\ pending.generation = g
InProgressExactlyWhileOpen ==
  at # "failed" =>
    \A n \in Names : entries[n].state = "in_progress" <=>
       entries[n].generation # 0 /\ AnchorOpen(entries[n].generation)

(* What an alias copies is the anchored node with its tag, in whichever    *)
(* order anchor and tag were written.                                      *)
SameNode(m, n) == m.size = n.size /\ m.depth = n.depth /\ m.tags = n.tags
AliasCopies(n, g) ==
  entries[n].state = "complete" /\ entries[n].generation = g =>
    SameNode(entries[n].node, placed[g])
OneLine(node) == ~node.split /\ node.tags <= 1 /\ Cardinality(node.gens) = 1
AliasKeepsTag ==
  \A n \in Names, g \in DOMAIN placed : OneLine(placed[g]) => AliasCopies(n, g)

(* The tree under construction holds the nodes written in the source plus  *)
(* the expanded ones: what is charged against the budget is exactly what   *)
(* the aliases added, and it stays within the budget.                      *)
TreeSize[n \in Nat] == IF n = 0 THEN 0 ELSE TreeSize[n - 1] + stack[n].size
ExpansionWithinBudget ==
  mode = "semantic" /\ at = "document" =>
    /\ TreeSize[Len(stack)] + value.size = made + expanded
    /\ expanded <= Budget

(* No node, expanded aliases included, reaches deeper than the limit, as   *)
(* long as every part of it stood where a call checks the depth: what the  *)
(* calls count never falls behind the tree they build.                     *)
WithinDepth ==
  at # "failed" /\ value # NoValue /\ ~value.loose => Level + value.depth <= MaxDepth + 1

(* The anchor of an event is the one written before that very node: it is  *)
(* never left over for the next event.                                     *)
MetaBelongsToNode ==
  at # "failed" /\ meta # NoName =>
    /\ value = NoValue
    /\ \E i \in DOMAIN stack :
         /\ stack[i].kind = "anchor" /\ stack[i].name = meta
         /\ \A j \in i .. Len(stack) : stack[j].kind \in PropertyKinds

(* tests/fixtures/yaml-test-suite/manifest.toml: "duplicate anchor         *)
(* property on one node is rejected".                                      *)
DuplicateAnchorRejected ==
  ~ \E i, j \in DOMAIN stack :
      /\ i < j
      /\ stack[i].kind = "anchor" /\ stack[j].kind = "anchor"
      /\ \A k \in i .. j : stack[k].kind \in PropertyKinds

(* tests/compatibility_harness.rs: "tagged_anchor_aliases_preserve_        *)
(* property_wrapped_nodes", for every node with one anchor and one tag.    *)
TaggedAnchorsPreserved ==
  \A n \in Names, g \in DOMAIN placed :
     placed[g].tags <= 1 /\ Cardinality(placed[g].gens) = 1 => AliasCopies(n, g)

(* schema.rs: "Returns options with a maximum constructed YAML nesting     *)
(* depth", the root at depth zero as in check_nesting_depth.               *)
ConstructedDepthLimited ==
  mode = "semantic" /\ at = "document" /\ stack = <<>> /\ value # NoValue =>
    value.depth - 1 <= MaxDepth
=============================================================================
