---------------------------- MODULE MCEventReplay ----------------------------
(***************************************************************************)
(* Documents for EventReplay, what reading them should deliver, and the    *)
(* properties of the reading.                                              *)
(***************************************************************************)
EXTENDS EventReplay

CONSTANT Rebinding  (* may a later anchor take the name of an earlier one  *)

-----------------------------------------------------------------------------
(* Documents: a sequence of anchored nodes and of uses of their anchors.   *)

Event(kind, name, text) == [kind |-> kind, name |-> name, text |-> text]

Text(text)  == <<Event("scalar", NoName, text)>>
Alias(name) == <<Event("alias", name, NoName)>>
Joined(nodes) == FlattenSeq(nodes)
List(nodes) == <<Event("seq", NoName, NoName)>> \o Joined(nodes) \o <<Event("end", NoName, "seq")>>
Table(nodes) == <<Event("map", NoName, NoName)>> \o Joined(nodes) \o <<Event("end", NoName, "map")>>
Anchored(name, node) == <<[node[1] EXCEPT !.name = name]>> \o Tail(node)

a == Text("a")
b == Text("b")
merge == Text(MergeKey)

Simple == {a, List(<<>>), List(<<a>>), Table(<<a, a>>), Table(<<a, a, a, b>>)}

Uses(name) ==
  LET n == Alias(name) IN
  {n, List(<<n>>), List(<<n, n>>), Table(<<a, n>>), Table(<<n, a>>), Table(<<n, a, a, n>>),
   Table(<<n, a, n, b>>), Table(<<merge, n>>), Table(<<merge, n, a, b>>),
   Table(<<merge, List(<<n, n>>)>>), Table(<<merge, n, merge, n>>),
   Table(<<a, Table(<<merge, n>>)>>), Table(<<Table(<<merge, n>>), a>>),
   Table(<<Table(<<a, n>>), a, Table(<<a, n>>), b>>)}

Numbered(events) == [p \in DOMAIN events |->
  [kind |-> events[p].kind, name |-> events[p].name, text |-> events[p].text, at |-> p]]

Anchorable(node) == node[1].kind # "alias"

Acyclic ==
  {List(<<Anchored("x", first), use>>) : first \in Simple, use \in Uses("x")}
    \union
  {List(<<Anchored("x", first), Anchored("y", second), third>>) :
     first \in {a, List(<<>>), Table(<<a, a>>)},
     second \in {use \in Uses("x") : Anchorable(use)},
     third \in {Alias("y"), Table(<<Alias("y"), a>>), Table(<<merge, Alias("y"), a, Alias("x")>>)}}

Cyclic ==
  {List(<<Anchored("x", use)>>) : use \in {u \in Uses("x") : Anchorable(u)}}

Rebound ==
  {List(<<Anchored("x", a), Anchored("y", use), Anchored("x", b), Alias("y")>>) :
     use \in {u \in Uses("x") : Anchorable(u)}}

Documents == {Numbered(d) : d \in IF Rebinding THEN Rebound ELSE Acyclic \union Cyclic}

-----------------------------------------------------------------------------
(* What a document stands for: an alias is the node its name was given to  *)
(* last before the alias, whoever reads it.                                *)

Bound(events, p) ==
  Max({q \in 1..(p - 1) : events[q].name = events[p].name /\ events[q].kind # "alias"})

Encloses(events, q, p) == p < NodeEnd(events, q)

Finite(events) ==
  \A p \in DOMAIN events : events[p].kind = "alias" => ~Encloses(events, Bound(events, p), p)

RECURSIVE Expansion(_, _, _), Cost(_, _, _)

(* the events from one place to another, with every alias replaced *)
Expansion(events, from, to) ==
  IF from = to THEN <<>>
  ELSE (IF events[from].kind = "alias"
        THEN LET q == Bound(events, from) IN Expansion(events, q, NodeEnd(events, q))
        ELSE <<events[from]>>)
       \o Expansion(events, from + 1, to)

(* the number of events its aliases make one replay *)
Cost(events, from, to) ==
  IF from = to THEN 0
  ELSE (IF events[from].kind = "alias"
        THEN LET q == Bound(events, from) IN
             NodeEnd(events, q) - q + Cost(events, q, NodeEnd(events, q))
        ELSE 0)
       + Cost(events, from + 1, to)

Meaning(events) == Expansion(events, 1, Len(events) + 1)

Deepest(events) ==
  LET level[p \in 0..Len(events)] == IF p = 0 THEN 0 ELSE level[p - 1] + Opens(events[p])
  IN  Max({level[p] : p \in 0..Len(events)})

MergeInKey(events) ==
  \E p \in Maps(events) :
    \E i \in DOMAIN Children(events, p) :
      IsKeyIndex(i) /\ HasMergeKey(Subtree(events, Children(events, p)[i]))

Admissible(events) ==
  /\ Finite(events)
  /\ Cost(events, 1, Len(events) + 1) <= Budget
  /\ LET meaning == Meaning(events) IN
     /\ Deepest(meaning) <= MaxDepth
     /\ DistinctKeys(meaning)
     /\ MergesValid(meaning)

-----------------------------------------------------------------------------
(* Properties.                                                             *)

Failed == status = "failed"

(* What has been delivered is a prefix of what the document stands for,    *)
(* and all of it when the reading is done: no visitor that ignores a node, *)
(* is handed one, or reads it in place makes the cursor lose or repeat an  *)
(* event, or binds an alias to another anchor.                             *)
DeliveredIsExpansion ==
  Finite(stream) =>
    /\ status \in {"read", "done"} => IsPrefix(passed, Meaning(stream))
    /\ status = "done" => passed = Meaning(stream)

(* A document is refused only for what is wrong with it, and never read    *)
(* when something is, whatever the visitor reads, ignores or is handed: a  *)
(* cycle, too much to replay, collections too deep, a key twice, a value   *)
(* that cannot be merged.  Only a merge key inside a key is refused for    *)
(* how it is read, and whatever holds a sequence read as a tuple.          *)
AcceptsExactly ==
  /\ status = "done" => Admissible(stream)
  /\ Failed /\ reason \notin {"merge in key", "unexpected"} => ~Admissible(stream)
  /\ reason = "merge in key" => ~Finite(stream) \/ MergeInKey(Meaning(stream))
  /\ reason = "unexpected" => left

(* What an ordinary typed target asks for is read: the visitor of a        *)
(* sequence returns at its end.                                            *)
NeverMisaligned == reason # "unexpected"

=============================================================================
