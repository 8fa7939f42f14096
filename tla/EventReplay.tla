----------------------------- MODULE EventReplay -----------------------------
(***************************************************************************)
(* Event backed deserialization (src/event_de): a cursor over the recorded *)
(* events of one document.  An alias is replaced, when the cursor meets    *)
(* it, by a copy of the events of its anchor, which are read before the    *)
(* rest of the document.  The visitor decides how each node is read:       *)
(*                                                                         *)
(*   "visit"  the node is given to the visitor event by event              *)
(*   "skip"   the visitor ignores the node                                 *)
(*   "raw"    the node was built ahead of the cursor and handed over, and  *)
(*            the cursor only passes its events                            *)
(*                                                                         *)
(* Mappings are looked at ahead of the cursor: for a merge key, which      *)
(* forces the hand-over, and for duplicate keys.                           *)
(*                                                                         *)
(* An event is a record of its kind, the name it defines or refers to, its *)
(* text (a scalar's, and the kind of collection an end closes) and its     *)
(* place in the document.  Keys are compared by their events in order: no  *)
(* mapping key of two entries is in the documents that are read.           *)
(***************************************************************************)
EXTENDS Integers, Sequences, FiniteSets, SequencesExt, FiniteSetsExt

CONSTANTS
  Streams,     (* the events of the documents that are read                 *)
  MergeKey,    (* the text `<<`                                             *)
  Budget,      (* LoadOptions::alias_expansion_budget                       *)
  MaxDepth,    (* LoadOptions::selected_max_nesting_depth                   *)
  MaxWalk,     (* bound on the steps of one look-ahead                      *)
  Tuples       (* may a visitor take two items of a sequence and no more    *)

ASSUME EventReplayAssumption ==
  /\ Budget \in Nat /\ MaxDepth \in Nat /\ MaxWalk \in Nat
  /\ Tuples \in BOOLEAN

VARIABLES
  stream,      (* EventSource.events                                        *)
  pos,         (* EventSource.pos                                           *)
  anchors,     (* EventSource.anchors                                       *)
  inject,      (* EventSource.inject                                        *)
  replayed,    (* EventSource.replayed_events                               *)
  depth,       (* EventSource.depth                                         *)
  open,        (* the collections being read, with how and how far          *)
  passed,      (* history: the events delivered, aliases replaced           *)
  served,      (* history: the number of events taken from copies           *)
  left,        (* history: a tuple's visitor has returned                   *)
  status,      (* "start", "read", "done" or "failed"                       *)
  reason       (* why reading failed                                        *)

cursor  == <<pos, anchors, inject, replayed>>
outcome == <<status, reason>>
vars    == <<stream, cursor, depth, open, passed, served, left, outcome>>

-----------------------------------------------------------------------------
(* Event sequences.                                                        *)

NoName == "none"

Collections == {"seq", "map"}

(* How an event changes the number of open collections.                    *)
Opens(event) ==
  CASE event.kind \in Collections -> 1
    [] event.kind = "end" -> -1
    [] OTHER -> 0

(* skip_node_in: the place behind a node *)
NodeEnd(events, p) ==
  LET skip[q \in Nat, level \in Nat] ==
        IF q > p /\ level = 0 THEN q ELSE skip[q + 1, level + Opens(events[q])]
  IN  skip[p, 0]

(* What is recorded is a sequence of events in which every node ends, and  *)
(* the ends have no names.                                                 *)
ASSUME StreamsAssumption ==
  \A s \in Streams :
    /\ s \in Seq(Range(s))
    /\ \A p \in DOMAIN s :
         IF s[p].kind = "end" THEN s[p].name = NoName
         ELSE NodeEnd(s, p) \in (p + 1) .. (Len(s) + 1)

Subtree(events, p) == SubSeq(events, p, NodeEnd(events, p) - 1)

(* The places of the items of a collection, or of its keys and values.     *)
Children(events, p) ==
  LET from[q \in Nat] ==
        IF events[q].kind = "end" THEN <<>> ELSE <<q>> \o from[NodeEnd(events, q)]
  IN  from[p + 1]

IsKeyIndex(i) == i % 2 = 1

(* What a key is compared by: its events without their places.             *)
Identity(events) ==
  [n \in DOMAIN events |-> <<events[n].kind, events[n].text>>]

KeysOf(events, p) ==
  LET children == Children(events, p) IN
  {Identity(Subtree(events, children[i])) : i \in {j \in DOMAIN children : IsKeyIndex(j)}}

Maps(events) == {p \in DOMAIN events : events[p].kind = "map"}

DistinctKeys(events) ==
  \A p \in Maps(events) : 2 * Cardinality(KeysOf(events, p)) = Len(Children(events, p))

(* node_is_merge_key *)
IsMergeKey(events) == Len(events) = 1 /\ events[1].text = MergeKey

HasMergeKey(events) ==
  \E p \in Maps(events) : <<<<"scalar", MergeKey>>>> \in KeysOf(events, p)

(* record_anchor_at *)
Recorded(table, events, p) ==
  IF events[p].name = NoName \/ events[p].kind = "alias" THEN table
  ELSE [n \in DOMAIN table \union {events[p].name} |->
          IF n = events[p].name THEN Subtree(events, p) ELSE table[n]]

(* scan_anchors_in: a node's anchors, the last one of a name *)
Scanned(table, events, p) ==
  LET named == {q \in p..(NodeEnd(events, p) - 1) :
                  events[q].name # NoName /\ events[q].kind # "alias"}
  IN  [n \in DOMAIN table \union {events[q].name : q \in named} |->
         IF \E q \in named : events[q].name = n
         THEN Subtree(events, CHOOSE q \in named :
                /\ events[q].name = n
                /\ \A r \in named : events[r].name = n => r <= q)
         ELSE table[n]]

-----------------------------------------------------------------------------
(* Looking ahead (node_at_for_key): one node is walked through its aliases *)
(* without moving the cursor.  The walk starts at a place of a sequence of *)
(* events and is over when it has left the node.                           *)

MergePayload(events, p) ==
  \/ events[p].kind = "map"
  \/ /\ events[p].kind = "seq"
     /\ \A i \in DOMAIN Children(events, p) : events[Children(events, p)[i]].kind = "map"

(* apply_merge_keys_with_policy, its errors *)
MergesValid(events) ==
  \A p \in Maps(events) :
    LET children == Children(events, p) IN
    \A i \in DOMAIN children :
      (IsKeyIndex(i) /\ IsMergeKey(Subtree(events, children[i])))
        => MergePayload(events, children[i + 1])

(* A frame reads its events up to a place: a replay all of its anchor's.   *)
Frame(name, events, p, end) == [name |-> name, events |-> events, pos |-> p, end |-> end]
Replay(name, events) == Frame(name, events, 1, Len(events) + 1)

(* A frame is left with its last event, as next_injected_event pops it.    *)
Popped(frames) ==
  LET top == Last(frames) IN
  IF top.pos + 1 = top.end THEN Front(frames)
  ELSE Append(Front(frames), [top EXCEPT !.pos = @ + 1])

WalkAlias(walk, event) ==
  LET target == walk.scan[event.name] IN
  IF \E i \in DOMAIN walk.frames : walk.frames[i].name = event.name
  THEN [walk EXCEPT !.error = "recursive"]
  ELSE IF event.name \notin DOMAIN walk.scan THEN [walk EXCEPT !.error = "unknown"]
  ELSE IF walk.replayed + Len(target) > Budget THEN [walk EXCEPT !.error = "budget"]
  ELSE [walk EXCEPT !.replayed = @ + Len(target),
                    !.frames = Append(Popped(@), Replay(event.name, target))]

WalkEvent(walk, top, event) ==
  IF event.kind # "end" /\ walk.depth > MaxDepth THEN [walk EXCEPT !.error = "depth"]
  ELSE IF event.kind = "alias" THEN WalkAlias(walk, event)
  ELSE [walk EXCEPT !.scan   = Recorded(@, top.events, top.pos),
                    !.frames = Popped(@),
                    !.tokens = Append(@, event),
                    !.depth  = @ + Opens(event)]

WalkOn(walk) ==
  IF walk.error # NoName \/ walk.frames = <<>> THEN walk
  ELSE LET top == Last(walk.frames) IN WalkEvent(walk, top, top.events[top.pos])

(* The only next walk, named by a bound variable: TLC evaluates it once.   *)
WalkStep(n, walk) == CHOOSE next \in {WalkOn(w) : w \in {walk}} : TRUE

Walk(events, p, scan, charged, merges, base) ==
  LET walk == FoldSet(WalkStep,
                [frames |-> <<Frame(NoName, events, p, NodeEnd(events, p))>>, scan |-> scan, replayed |-> charged,
                 depth |-> base, tokens |-> <<>>, error |-> NoName],
                1..MaxWalk)
  IN  IF walk.error # NoName THEN walk
      ELSE IF ~DistinctKeys(walk.tokens) THEN [walk EXCEPT !.error = "duplicate"]
      ELSE IF ~merges /\ HasMergeKey(walk.tokens) THEN [walk EXCEPT !.error = "merge in key"]
      ELSE walk

-----------------------------------------------------------------------------
(* Looking ahead over the keys of one mapping: the keys are walked, the    *)
(* values only scanned for anchors.  Every look has a budget of its own.   *)

NoError(look) == look.error = NoName

(* Mutant: the keys of a mapping are not compared with each other.         *)
LookKeyUnchecked(events, merges, base, look, key, value) ==
  LET walk == Walk(events, key, look.scan, look.replayed, merges, base) IN
  IF walk.error # NoName THEN [look EXCEPT !.error = walk.error]
  ELSE IF IsMergeKey(walk.tokens) THEN [look EXCEPT !.merge = TRUE]
  ELSE [look EXCEPT !.scan = Scanned(walk.scan, events, value), !.replayed = walk.replayed]

LookKey(events, merges, base, look, key, value) ==
  LET walk == Walk(events, key, look.scan, look.replayed, merges, base) IN
  IF walk.error # NoName THEN [look EXCEPT !.error = walk.error]
  ELSE IF IsMergeKey(walk.tokens) THEN [look EXCEPT !.merge = TRUE]
  ELSE IF ~merges /\ Identity(walk.tokens) \in look.seen
       THEN [look EXCEPT !.error = "duplicate"]
  ELSE [look EXCEPT !.scan = Scanned(walk.scan, events, value),
                    !.replayed = walk.replayed,
                    !.seen = @ \union {Identity(walk.tokens)}]

Look(events, p, merges) ==
  LET children == Children(events, p)
      On(look, i) ==
        IF ~NoError(look) \/ look.merge THEN look
        ELSE LookKey(events, merges, depth, look, children[2 * i - 1], children[2 * i])
  IN
  FoldLeft(LAMBDA look, i : CHOOSE next \in {On(l, i) : l \in {look}} : TRUE,
           [scan |-> anchors, replayed |-> 0, seen |-> {}, merge |-> FALSE, error |-> NoName],
           [i \in 1..(Len(children) \div 2) |-> i])

(* next_mapping_has_merge_key, validate_next_mapping_duplicates *)
LookForMerge(events, p)      == Look(events, p, TRUE)
LookForDuplicates(events, p) == Look(events, p, FALSE)

-----------------------------------------------------------------------------
(* The cursor.                                                             *)

Injected == inject # <<>>

(* current_events_and_pos, peek *)
Here  == IF Injected THEN Last(inject).events ELSE stream
At    == IF Injected THEN Last(inject).pos ELSE pos
Ended == ~Injected /\ pos > Len(stream)
Ahead == Here[At]

(* next_raw: anchors are recorded in the document's own events only *)
Advanced ==
  /\ pos' = IF Injected THEN pos ELSE pos + 1
  /\ anchors' = IF Injected THEN anchors ELSE Recorded(anchors, stream, pos)
  /\ inject' = IF Injected THEN Popped(inject) ELSE inject
  /\ served' = IF Injected THEN served + 1 ELSE served

Pass(events) == passed' = passed \o events

Fail(why) ==
  /\ status' = "failed" /\ reason' = why
  /\ UNCHANGED <<stream, cursor, depth, open, passed, served, left>>

-----------------------------------------------------------------------------
(* The collections being read.  A visitor of a mapping looks at a key      *)
(* before it reads it; one that ignores or skips events does not.          *)

Reading == status = "read"

Collection(kind, mode) == [kind |-> kind, mode |-> mode, taken |-> 0, asked |-> FALSE]

OneTaken(collections) ==
  IF collections = <<>> THEN <<>>
  ELSE Append(Front(collections),
              [Last(collections) EXCEPT !.taken = @ + 1, !.asked = FALSE])

Modes ==
  IF open = <<>> THEN {"visit", "skip"}
  ELSE CASE Last(open).mode = "skip" -> {"skip"}
         [] Last(open).mode = "raw" -> {"raw"}
         [] OTHER -> {"visit", "skip"}

(* A node may be read next: a whole document has one, and a tuple two.     *)
NodeNext ==
  /\ Reading
  /\ IF open = <<>> THEN passed = <<>> \/ Injected
     ELSE LET top == Last(open) IN
          /\ (top.mode = "tuple" => top.taken < 2)
          /\ (top.mode = "visit" /\ top.kind = "map" /\ IsKeyIndex(top.taken + 1) => top.asked)

NodeAhead(kinds) == NodeNext /\ ~Ended /\ Ahead.kind \in kinds

-----------------------------------------------------------------------------
(* Actions.                                                                *)

(* enter_document *)
EnterDocument ==
  /\ status = "start"
  /\ status' = "read"
  /\ anchors' = <<>> /\ inject' = <<>> /\ replayed' = 0 /\ depth' = 0
  /\ UNCHANGED <<stream, pos, open, passed, served, left, reason>>

(* Mutant: an alias is charged one event, whatever it is replaced by.      *)
ResolveAliasUncharged ==
  /\ NodeAhead({"alias"})
  /\ replayed < Budget
  /\ replayed' = replayed + 1
  /\ inject' = Append(IF Injected THEN Popped(inject) ELSE inject, Replay(Ahead.name, anchors[Ahead.name]))
  /\ pos' = IF Injected THEN pos ELSE pos + 1
  /\ UNCHANGED <<stream, anchors, depth, open, passed, served, left, outcome>>

(* Mutant: the events of an anchor are read behind those read already.     *)
ResolveAliasBelow ==
  /\ NodeAhead({"alias"})
  /\ LET name  == Ahead.name
         below == IF Injected THEN Popped(inject) ELSE inject
     IN
     /\ \A i \in DOMAIN below : below[i].name # name
     /\ name \in DOMAIN anchors /\ replayed + Len(anchors[name]) <= Budget
     /\ replayed' = replayed + Len(anchors[name])
     /\ inject' = <<Replay(name, anchors[name])>> \o below
     /\ pos' = IF Injected THEN pos ELSE pos + 1
  /\ UNCHANGED <<stream, anchors, depth, open, passed, served, left, outcome>>

(* inject_alias: the alias is passed and the events of its anchor go first *)
ResolveAlias ==
  /\ NodeAhead({"alias"})
  /\ LET name  == Ahead.name
         below == IF Injected THEN Popped(inject) ELSE inject
     IN
     \/ /\ \E i \in DOMAIN below : below[i].name = name
        /\ Fail("recursive")
     \/ /\ \A i \in DOMAIN below : below[i].name # name
        /\ name \notin DOMAIN anchors \/ replayed + Len(anchors[name]) > Budget
        /\ Fail(IF name \notin DOMAIN anchors THEN "unknown" ELSE "budget")
     \/ /\ \A i \in DOMAIN below : below[i].name # name
        /\ name \in DOMAIN anchors /\ replayed + Len(anchors[name]) <= Budget
        /\ replayed' = replayed + Len(anchors[name])
        /\ inject' = Append(below, Replay(name, anchors[name]))
        /\ pos' = IF Injected THEN pos ELSE pos + 1
        /\ UNCHANGED <<stream, anchors, depth, open, passed, served, left, outcome>>

(* next_key_seed: the key is walked for the path of an error *)
AskKey ==
  /\ Reading /\ open # <<>> /\ ~Ended /\ Ahead.kind # "end"
  /\ Last(open).mode = "visit" /\ Last(open).kind = "map"
  /\ IsKeyIndex(Last(open).taken + 1) /\ ~Last(open).asked
  /\ LET walk == Walk(Here, At, anchors, 0, FALSE, depth) IN
     \/ walk.error # NoName /\ Fail(walk.error)
     \/ /\ walk.error = NoName
        /\ open' = Append(Front(open), [Last(open) EXCEPT !.asked = TRUE])
        /\ UNCHANGED <<stream, cursor, depth, passed, served, left, outcome>>

(* take_scalar, and the scalar arms of skip_node and skip_node_raw *)
TakeScalar ==
  /\ NodeAhead({"scalar"})
  /\ Advanced
  /\ open' = OneTaken(open)
  /\ IF "raw" \in Modes THEN UNCHANGED passed ELSE Pass(<<Ahead>>)
  /\ UNCHANGED <<stream, replayed, depth, left, outcome>>

(* enter_depth; skip_node checks before it takes the event and the others  *)
(* behind it, which no one sees: an error ends the reading                 *)
Enter(mode) ==
  \/ depth + 1 > MaxDepth /\ Fail("depth")
  \/ /\ depth + 1 <= MaxDepth
     /\ Advanced
     /\ depth' = depth + 1
     /\ open' = Append(OneTaken(open), Collection(Ahead.kind, mode))
     /\ IF mode = "raw" THEN UNCHANGED passed ELSE Pass(<<Ahead>>)
     /\ UNCHANGED <<stream, replayed, left, outcome>>

(* deserialize_seq, and the sequence arms of skip_node and skip_node_raw   *)
OpenSequence ==
  /\ NodeAhead({"seq"})
  /\ \E mode \in Modes : Enter(mode)

(* a tuple's visitor asks for as many items as it has *)
OpenTuple ==
  /\ Tuples /\ NodeAhead({"seq"}) /\ "visit" \in Modes
  /\ Len(Children(Here, At)) = 2
  /\ Enter("tuple")

(* deserialize_map and the mapping arm of skip_node: both look first for a *)
(* merge key, and without one for duplicates                               *)
OpenMapping ==
  /\ NodeAhead({"map"}) /\ "raw" \notin Modes
  /\ LET merge     == LookForMerge(Here, At)
         duplicate == LookForDuplicates(Here, At)
     IN
     \/ ~NoError(merge) /\ Fail(merge.error)
     \/ NoError(merge) /\ ~merge.merge /\ ~NoError(duplicate) /\ Fail(duplicate.error)
     \/ /\ NoError(merge) /\ ~merge.merge /\ NoError(duplicate)
        /\ \E mode \in Modes : Enter(mode)

(* skip_node_raw, the mapping arm *)
OpenRawMapping ==
  /\ NodeAhead({"map"}) /\ "raw" \in Modes
  /\ Enter("raw")

(* materialize_current_node_for_merge and skip_node_raw: the node is built *)
(* ahead of the cursor, merged and handed over, and its events are passed. *)
(* A mapping with a merge key is always handed over, and so is what the    *)
(* visitor reads as an enum and a tagged collection read generically.      *)
HandOver ==
  /\ NodeAhead({"scalar", "seq", "map"}) /\ "raw" \notin Modes
  /\ \/ "visit" \in Modes
     \/ Ahead.kind = "map" /\ LookForMerge(Here, At).merge
  /\ LET walk == Walk(Here, At, anchors, 0, TRUE, depth) IN
     \/ walk.error # NoName /\ Fail(walk.error)
     \/ walk.error = NoName /\ ~MergesValid(walk.tokens) /\ Fail("merge value")
     \/ /\ walk.error = NoName /\ MergesValid(walk.tokens)
        /\ Ahead.kind \in Collections => depth + 1 <= MaxDepth
        /\ Advanced
        /\ Pass(walk.tokens)
        /\ IF Ahead.kind = "scalar"
           THEN depth' = depth /\ open' = OneTaken(open)
           ELSE depth' = depth + 1
                /\ open' = Append(OneTaken(open), Collection(Ahead.kind, "raw"))
        /\ UNCHANGED <<stream, replayed, left, outcome>>
     \/ /\ walk.error = NoName /\ MergesValid(walk.tokens)
        /\ Ahead.kind \in Collections /\ depth + 1 > MaxDepth
        /\ Fail("depth")

(* next_element_seed and next_key_seed at an end, exit_depth *)
Close ==
  /\ Reading /\ open # <<>> /\ ~Ended /\ Ahead.kind = "end"
  /\ LET top == Last(open) IN
     /\ top.mode # "tuple"
     /\ top.kind = Ahead.text
     /\ top.kind = "map" => IsKeyIndex(top.taken + 1)
     /\ IF top.mode = "raw" THEN UNCHANGED passed ELSE Pass(<<Ahead>>)
  /\ Advanced
  /\ depth' = depth - 1
  /\ open' = Front(open)
  /\ UNCHANGED <<stream, replayed, left, outcome>>

(* a tuple's visitor returns with its last item, and never asks for more *)
LeaveTuple ==
  /\ Reading /\ open # <<>> /\ Last(open).mode = "tuple" /\ Last(open).taken = 2
  /\ depth' = depth - 1
  /\ open' = Front(open)
  /\ left' = TRUE
  /\ UNCHANGED <<stream, cursor, passed, served, outcome>>

(* an event that is not what the reader wants next (unexpected_event) *)
Unexpected ==
  /\ Reading
  /\ IF open = <<>> THEN ~NodeNext /\ ~Ended
     ELSE LET top == Last(open) IN
          /\ top.mode # "tuple" \/ top.taken < 2
          /\ Ended \/ Ahead.kind = "end"
          /\ Ended \/ top.kind # Ahead.text \/ (top.kind = "map" /\ ~IsKeyIndex(top.taken + 1))
  /\ Fail("unexpected")

(* finish_document *)
Finish ==
  /\ Reading /\ open = <<>> /\ ~NodeNext /\ Ended
  /\ status' = "done"
  /\ UNCHANGED <<stream, cursor, depth, open, passed, served, left, reason>>

(* the document has been read or refused *)
Over == status \notin {"start", "read"} /\ UNCHANGED vars

-----------------------------------------------------------------------------
Init ==
  /\ stream \in Streams
  /\ pos = 1 /\ anchors = <<>> /\ inject = <<>> /\ replayed = 0
  /\ depth = 0 /\ open = <<>> /\ passed = <<>> /\ served = 0 /\ left = FALSE
  /\ status = "start" /\ reason = NoName

Next ==
  \/ EnterDocument \/ ResolveAlias \/ AskKey \/ TakeScalar \/ OpenSequence \/ OpenTuple
  \/ OpenMapping \/ OpenRawMapping \/ HandOver \/ Close \/ LeaveTuple \/ Unexpected \/ Finish
  \/ Over

Spec == Init /\ [][Next]_vars

-----------------------------------------------------------------------------
(* Properties.                                                             *)

AllEvents == UNION {Range(s) : s \in Streams}
Names     == {event.name : event \in AllEvents}

(* A replay has events left: the last one takes it off the stack. *)
ReplayFrames ==
  {f \in [name : Names, events : Seq(AllEvents), pos : Nat \ {0}, end : Nat] :
     f.pos < f.end /\ f.end = Len(f.events) + 1}

(* Only a visitor of a mapping asks for keys. *)
OpenCollections ==
  {c \in [kind : Collections, mode : {"visit", "skip", "raw", "tuple"}, taken : Nat, asked : BOOLEAN] :
     c.asked => c.mode = "visit"}

TypeOK ==
  /\ stream \in Streams
  /\ pos \in 1 .. (Len(stream) + 1)
  /\ DOMAIN anchors \subseteq Names
  /\ \A n \in DOMAIN anchors : anchors[n] \in Seq(AllEvents) \ {<<>>}
  /\ inject \in Seq(ReplayFrames)
  /\ replayed \in Nat /\ served \in Nat /\ depth \in Nat
  /\ open \in Seq(OpenCollections)
  /\ left \in BOOLEAN
  /\ status \in {"start", "read", "done", "failed"}

(* The stack of replays never holds an anchor twice, so that a cycle ends; *)
(* and the depth that the limit is checked against is the number of        *)
(* collections that are open, whichever way they are read and wherever     *)
(* their events come from.                                                 *)
StackSane ==
  /\ \A i, j \in DOMAIN inject : inject[i].name = inject[j].name => i = j
  /\ depth = Len(open) /\ depth <= MaxDepth

(* The events that the replays on the stack still hold. *)
HeldUpTo[n \in Nat] == IF n = 0 THEN 0 ELSE HeldUpTo[n - 1] + (inject[n].end - inject[n].pos)
StillInjected == HeldUpTo[Len(inject)]

(* However the aliases nest, the events that are taken from copies for one *)
(* document, with those its stack still holds, are within its budget.      *)
ReplayWithinBudget == served + StillInjected <= Budget

AskLeft  == IF open # <<>> /\ Last(open).asked THEN 0 ELSE 1
PhaseLeft == CASE status = "start" -> 2 [] Reading -> 1 [] OTHER -> 0
WorkLeft ==
  3 * (Len(stream) + 1 - pos + Budget - replayed + StillInjected) + Len(open) + AskLeft + PhaseLeft

(* Every step of the reading uses up some of what its document and its     *)
(* budget allow, the steps that deliver nothing too: reading ends, though  *)
(* the events an alias is replaced by hold aliases themselves.             *)
WorkRunsOut == [][WorkLeft' < WorkLeft /\ WorkLeft' >= 0]_vars

=============================================================================
