---------------------------- MODULE AnchorsProofs ----------------------------
(***************************************************************************)
(* Proofs about Anchors, for any set of names and any limits.              *)
(***************************************************************************)
EXTENDS Anchors, SequenceTheorems, FiniteSetTheorems, SumTheorems, TLAPS

(* The three ways a step changes the stack.                                *)
LEMMA PushedStack ==
  ASSUME TypeOK, NEW f \in FrameType, stack' = Push(f)
  PROVE  /\ stack' \in Seq(FrameType)
         /\ Len(stack') = Len(stack) + 1
         /\ \A i \in 1 .. Len(stack) : stack'[i] = stack[i]
         /\ stack'[Len(stack) + 1] = f
BY AppendProperties DEF TypeOK, Push

(* Popping the recursion drops the top frame and no other.                 *)
LEMMA PoppedStack ==
  ASSUME TypeOK, stack # <<>>, stack' = Pop
  PROVE  /\ stack' \in Seq(FrameType)
         /\ Len(stack) \in Nat \ {0}
         /\ Len(stack') = Len(stack) - 1
         /\ \A i \in 1 .. (Len(stack) - 1) : stack'[i] = stack[i]
<1>1. Len(stack) \in Nat \ {0} /\ \A i \in 1 .. Len(stack) : stack[i] \in FrameType
  BY EmptySeq, ElementOfSeq DEF TypeOK
<1> DEFINE n == Len(stack) - 1
<1>2. n \in Nat /\ \A i \in 1 .. n : stack[i] \in FrameType
  BY <1>1
<1>3. /\ SubSeq(stack, 1, n) \in Seq(FrameType)
      /\ Len(SubSeq(stack, 1, n)) = IF 1 <= n THEN n - 1 + 1 ELSE 0
      /\ \A i \in 1 .. n - 1 + 1 : SubSeq(stack, 1, n)[i] = stack[1 + i - 1]
  BY <1>2, SubSeqProperties
<1>4. Pop = SubSeq(stack, 1, n)
  BY DEF Pop
<1>5. /\ stack' \in Seq(FrameType) /\ Len(stack') = n
      /\ \A i \in 1 .. n : stack'[i] = stack[i]
  <2>1. Len(SubSeq(stack, 1, n)) = n
    <3>1. \A k \in Nat : (IF 1 <= k THEN k - 1 + 1 ELSE 0) = k
      OBVIOUS
    <3> HIDE DEF n
    <3> QED
      BY <1>2, <1>3, <3>1
  <2>2. ASSUME NEW i \in 1 .. n
        PROVE  SubSeq(stack, 1, n)[i] = stack[i]
    <3>1. i \in 1 .. n - 1 + 1 /\ 1 + i - 1 = i
      BY <1>2
    <3> QED
      BY <1>3, <3>1
  <2> QED
    BY <1>3, <1>4, <2>1, <2>2
<1> QED
  BY <1>1, <1>5

(* Rewriting the top frame leaves the frames below it alone.               *)
LEMMA ReplacedTop ==
  ASSUME TypeOK, stack # <<>>, NEW f \in FrameType,
         stack' = [stack EXCEPT ![Len(stack)] = f]
  PROVE  /\ stack' \in Seq(FrameType)
         /\ Len(stack) \in Nat \ {0}
         /\ Len(stack') = Len(stack)
         /\ \A i \in 1 .. (Len(stack) - 1) : stack'[i] = stack[i]
         /\ stack'[Len(stack)] = f
BY EmptySeq, ExceptSeq DEF TypeOK

(* The innermost frame is a frame.                                         *)
LEMMA TopFrame ==
  ASSUME TypeOK, stack # <<>>
  PROVE  /\ Len(stack) \in 1 .. Len(stack) /\ Len(stack) \in Nat \ {0}
         /\ Top \in FrameType
<1>1. Len(stack) \in Nat \ {0}
  BY EmptySeq DEF TypeOK
<1> QED
  BY <1>1, ElementOfSeq DEF TypeOK, Top

-----------------------------------------------------------------------------
(* Every frame a step pushes or puts back is a frame, every node a node.   *)
LEMMA NodesTyped ==
  /\ \A size, depth \in Nat : Node(size, depth) \in NodeType
  /\ NoValue \in NodeType
<1>1. \A size, depth \in Nat : Node(size, depth) \in NodeType
  BY DEF Node, NodeType
<1> QED
  BY <1>1 DEF NoValue

(* The depths a node may be checked at are numbers, none below that of the *)
(* top frame.                                                              *)
LEMMA DepthsTyped ==
  ASSUME TypeOK
  PROVE  /\ Below \in Nat /\ Level \in Nat
         /\ \A d \in Depths : d \in Nat /\ Below <= d
<1>1. Below \in Nat /\ Level \in Nat
  BY TopFrame DEF Below, Level, FrameType
<1>2. Depths \subseteq Below .. Below + (IF ~InFlow THEN Extra ELSE IF HasTop(PropertyKinds) THEN 0 ELSE 1)
  BY DEF Depths
<1> QED
  BY <1>1, <1>2, AnchorsAssumption

(* What each call's frame is, as far as the invariants look at it.         *)
LEMMA AnchorFrameTyped ==
  ASSUME TypeOK, NEW name \in Names, NEW d \in Depths
  PROVE  LET f == AnchorFrame(name, d) IN
         /\ f \in FrameType /\ f.kind = "anchor" /\ f.name = name
         /\ f.generation = generation + 1 /\ f.defer = AnchorAfterTag
         /\ f.level = Level /\ f.below >= d
<1>1. AnchorAfterTag \in BOOLEAN
  BY DEF AnchorAfterTag, HasTop, Recorded
<1>2. generation + 1 \in Nat /\ AnchorBelow(d) \in Nat /\ AnchorBelow(d) >= d /\ Level \in Nat
  BY DepthsTyped DEF TypeOK, AnchorBelow
<1> QED
  BY <1>1, <1>2 DEF AnchorFrame, Frame, FrameType, PropertyKinds

(* The frame of a tag: it adds a level only where the tag wraps the node.  *)
LEMMA TagFrameTyped ==
  ASSUME TypeOK, NEW wraps \in {0, 1}, NEW d \in Depths
  PROVE  LET f == TagFrame(wraps, d) IN
         /\ f \in FrameType /\ f.kind = "tag" /\ f.size = wraps
         /\ f.level = Level + wraps /\ f.below = d + 1
<1>1. wraps \in Nat /\ d + 1 \in Nat /\ Level + wraps \in Nat
  BY DepthsTyped
<1> QED
  BY <1>1 DEF TagFrame, Frame, FrameType, PropertyKinds

(* The frames of a collection and of an implicit pair; only the collection *)
(* adds a level.                                                           *)
LEMMA CollectionFramesTyped ==
  ASSUME TypeOK
  PROVE  /\ PairFrame \in FrameType /\ PairFrame.kind = "pair" /\ PairFrame.loose
         /\ PairFrame.level = Level /\ PairFrame.below = Below
         /\ \A flow \in BOOLEAN, d \in Depths :
              LET f == CollectionFrame(flow, d) IN
              /\ f \in FrameType /\ f.kind = "collection" /\ f.depth = 1
              /\ f.level = Level + 1 /\ f.below = d + 1
<1>1. Below \in Nat /\ Level \in Nat /\ Level + 1 \in Nat /\ \A d \in Depths : d + 1 \in Nat
  BY DepthsTyped
<1> QED
  BY <1>1, ZenonT(60) DEF PairFrame, CollectionFrame, Frame, FrameType, CollectionKinds

(* A child goes into its collection, a property around its node.           *)
LEMMA ReturnsTyped ==
  ASSUME TypeOK, stack # <<>>
  PROVE  /\ Extended \in FrameType /\ Extended.kind = Top.kind /\ Extended.name = Top.name
         /\ Extended.generation = Top.generation /\ Extended.defer = Top.defer
         /\ Extended.below = Top.below /\ Extended.level = Top.level
         /\ Extended.loose = (Top.loose \/ value.loose)
         /\ Extended.depth = MaxNat(Top.depth, value.depth + 1)
         /\ value # NoValue => Anchored \in NodeType \ {NoValue} /\ Tagged \in NodeType \ {NoValue}
         /\ Anchored.depth = value.depth /\ Anchored.loose = value.loose
         /\ Tagged.depth = value.depth + Top.size /\ Tagged.loose = value.loose
<1>1. /\ Top \in FrameType /\ Top.size \in Nat /\ Top.depth \in Nat
      /\ Top.split \in BOOLEAN /\ Top.loose \in BOOLEAN /\ Top.generation \in Nat
  BY TopFrame DEF FrameType
<1>2. /\ value \in NodeType /\ value.size \in Nat /\ value.depth \in Nat /\ value.tags \in Nat
      /\ value.gens \in SUBSET Nat /\ value.split \in BOOLEAN /\ value.loose \in BOOLEAN
  BY DEF TypeOK, NodeType
<1>3. /\ Top.size + value.size \in Nat /\ MaxNat(Top.depth, value.depth + 1) \in Nat
      /\ (Top.loose \/ value.loose) \in BOOLEAN
  BY <1>1, <1>2 DEF MaxNat
<1>4. /\ Extended \in FrameType /\ Extended.kind = Top.kind /\ Extended.name = Top.name
      /\ Extended.generation = Top.generation /\ Extended.defer = Top.defer
      /\ Extended.below = Top.below /\ Extended.level = Top.level
      /\ Extended.loose = (Top.loose \/ value.loose)
      /\ Extended.depth = MaxNat(Top.depth, value.depth + 1)
  BY <1>1, <1>3 DEF Extended, FrameType
<1>5. Anchored \in NodeType /\ (value # NoValue => Anchored # NoValue)
  <2>1. Anchored \in NodeType /\ Anchored.gens = value.gens \union {Top.generation}
    BY <1>1, <1>2 DEF Anchored, NodeType
  <2>2. NoValue.gens = {}
    BY DEF NoValue, Node
  <2> QED
    BY <2>1, <2>2
<1>6. Tagged \in NodeType /\ (value # NoValue => Tagged # NoValue)
  <2>1. /\ value.size + Top.size \in Nat /\ value.depth + Top.size \in Nat
        /\ value.tags + 1 \in Nat /\ value.tags + 1 # 0
    BY <1>1, <1>2, SMTT(30)
  <2>2. Tagged \in NodeType /\ Tagged.tags = value.tags + 1
    BY <1>1, <1>2, <2>1 DEF Tagged, NodeType
  <2>3. NoValue.tags = 0
    BY DEF NoValue, Node
  <2> QED
    BY <2>1, <2>2, <2>3
<1>7. /\ Anchored.depth = value.depth /\ Anchored.loose = value.loose
      /\ Tagged.depth = value.depth + Top.size /\ Tagged.loose = value.loose
  BY <1>2 DEF Anchored, Tagged, NodeType
<1> QED
  BY <1>4, <1>5, <1>6, <1>7

(* A node without children has depth one and was depth-checked unless it   *)
(* is loose.                                                               *)
LEMMA LeafTyped ==
  ASSUME Leaf
  PROVE  /\ value' \in NodeType /\ value'.depth = 1
         /\ ~value'.loose => \E d \in Depths : Checked(d)
<1>1. PICK d \in Depths, loose \in {FALSE, InFlow} :
        /\ loose \/ Checked(d)
        /\ value' = [Node(1, 1) EXCEPT !.loose = loose]
  BY DEF Leaf
<1>2. loose \in BOOLEAN
  BY DEF InFlow
<1> QED
  BY <1>1, <1>2 DEF Node, NodeType

(* The three states of an entry of the registry have its type.             *)
LEMMA EntriesTyped ==
  /\ Absent \in EntryType
  /\ \A g \in Nat : InProgress(g) \in EntryType
  /\ \A g \in Nat, n \in NodeType \ {NoValue} : Complete(g, n) \in EntryType
BY NodesTyped DEF Absent, InProgress, Complete, EntryType

-----------------------------------------------------------------------------
(* Everything the registry, the recorder and the recursive calls hold is   *)
(* of its type; in particular an entry has a node exactly once complete.   *)
LEMMA TypeInit == Init => TypeOK
<1> SUFFICES ASSUME Init PROVE TypeOK
  OBVIOUS
<1>1. stack \in Seq(FrameType)
  BY EmptySeq DEF Init
<1>2. value \in NodeType
  BY NodesTyped DEF Init
<1>3. entries \in [Names -> EntryType]
  BY EntriesTyped DEF Init
<1>4. tokens \in 0 .. MaxTokens
  BY AnchorsAssumption DEF Init
<1> QED
  BY <1>1, <1>2, <1>3, <1>4 DEF Init, TypeOK, NoPending, Errors

(* Every step of the parser keeps the types.                               *)
LEMMA TypeStep == TypeOK /\ [Next]_vars => TypeOK'
<1> SUFFICES ASSUME TypeOK, [Next]_vars PROVE TypeOK'
  OBVIOUS
<1>read. ASSUME tokens < MaxTokens, Read PROVE tokens' \in 0 .. MaxTokens
  BY <1>read, AnchorsAssumption DEF Read, TypeOK
<1>fail. ASSUME Expecting, Read, NEW kind \in Errors, Fail(kind),
                UNCHANGED <<mode, stack, value, registry, pending, meta, history>>
         PROVE  TypeOK'
  BY <1>fail, <1>read DEF Fail, Expecting, TypeOK, registry, history
<1>1. CASE BeginDocument
  <2>1. entries' \in [Names -> EntryType]
    BY <1>1, EntriesTyped DEF BeginDocument, ResetDocument
  <2> QED
    BY <1>1, <1>read, <2>1 DEF BeginDocument, ResetDocument, TypeOK
<1>2. CASE Anchor
  <2>1. PICK name \in Names :
          /\ \E d \in Depths : stack' = Push(AnchorFrame(name, d))
          /\ Begin(name)
          /\ PushAnchorMeta(name)
    BY <1>2 DEF Anchor
  <2>3. generation + 1 \in Nat
    BY DEF TypeOK
  <2>4. stack' \in Seq(FrameType)
    BY <2>1, AnchorFrameTyped, PushedStack
  <2>5. entries' \in [Names -> EntryType] /\ latest' \in [Names -> Nat]
    BY <2>1, <2>3, EntriesTyped DEF Begin, TypeOK
  <2>6. meta' \in Names \union {NoName}
    BY <2>1 DEF PushAnchorMeta, TypeOK
  <2> QED
    BY <1>2, <1>read, <2>1, <2>3, <2>4, <2>5, <2>6 DEF Anchor, Begin, Expecting, TypeOK
<1>3. CASE Tag
  <2>1. PICK d \in Depths, wraps \in {0, 1} :
          stack' = Push(TagFrame(wraps, d)) /\ made' = made + wraps
    BY <1>3 DEF Tag
  <2>2. stack' \in Seq(FrameType)
    BY <2>1, TagFrameTyped, PushedStack
  <2>3. made' \in Nat
    BY <2>1 DEF TypeOK
  <2> QED
    BY <1>3, <1>read, <2>2, <2>3 DEF Tag, Expecting, TypeOK, registry
<1>4. CASE FreshProperties
  <2>1. stack # <<>>
    BY <1>4 DEF FreshProperties, HasTop
  <2>2. stack' = [stack EXCEPT ![Len(stack)] = [Top EXCEPT !.split = TRUE]]
    BY <1>4 DEF FreshProperties
  <2>3. [Top EXCEPT !.split = TRUE] \in FrameType
    BY <2>1, TopFrame DEF FrameType
  <2>4. stack' \in Seq(FrameType)
    BY <2>1, <2>2, <2>3, ReplacedTop
  <2> QED
    BY <1>4, <1>read, <2>4 DEF FreshProperties, Expecting, TypeOK, registry, history
<1>5. CASE DuplicateProperty
  BY <1>5, <1>fail DEF DuplicateProperty, Errors
<1>6. CASE Scalar
  <2>1. value' \in NodeType
    BY <1>6, LeafTyped DEF Scalar
  <2> QED
    BY <1>6, <1>read, <2>1 DEF Scalar, TakeMeta, Expecting, TypeOK, registry
<1>7. CASE Open
  <2>1. stack' \in Seq(FrameType)
    BY <1>7, CollectionFramesTyped, PushedStack DEF Open
  <2> QED
    BY <1>7, <1>read, <2>1 DEF Open, TakeMeta, Expecting, TypeOK, registry
<1>pair. CASE ImplicitPair
  <2>1. stack' \in Seq(FrameType)
    BY <1>pair, CollectionFramesTyped, PushedStack DEF ImplicitPair
  <2> QED
    BY <1>pair, <1>read, <2>1 DEF ImplicitPair, TakeMeta, Expecting, TypeOK, registry
<1>8. CASE Close
  <2>1. stack # <<>>
    BY <1>8 DEF Close, HasTop
  <2>2. stack' \in Seq(FrameType)
    BY <1>8, <2>1, PoppedStack DEF Close
  <2>3. Top.size \in Nat /\ Top.depth \in Nat /\ Top.loose \in BOOLEAN
    BY <2>1, TopFrame DEF FrameType
  <2>4. value' \in NodeType
    BY <1>8, <2>3 DEF Close, Node, NodeType
  <2> QED
    BY <1>8, <1>read, <2>2, <2>4 DEF Close, Expecting, TypeOK, registry, history
<1>9. CASE TooDeep
  BY <1>9, <1>fail DEF TooDeep, Errors
<1>10. CASE AliasWithProperties
  BY <1>10, <1>fail DEF AliasWithProperties, Errors
<1>11. CASE ValidateAlias
  <2>1. value' \in NodeType
    BY <1>11, LeafTyped DEF ValidateAlias
  <2> QED
    BY <1>11, <1>read, <2>1 DEF ValidateAlias, CanAlias, Expecting, TypeOK, registry
<1>node. ASSUME NEW name \in Names
         PROVE  /\ entries[name].node \in NodeType
                /\ entries[name].node.size \in Nat /\ entries[name].node.depth \in Nat
  <2>1. entries[name] \in EntryType
    BY DEF TypeOK
  <2>2. entries[name].node \in NodeType
    BY <2>1 DEF EntryType
  <2> QED
    BY <2>2 DEF NodeType
<1>12. CASE Resolve
  <2>1. PICK name \in Names :
          /\ Expand(entries[name].node)
          /\ value' = Node(entries[name].node.size, entries[name].node.depth)
    BY <1>12 DEF Resolve
  <2> HIDE DEF Node
  <2>2. value' \in NodeType
    BY <1>node, <2>1, NodesTyped
  <2>3. expanded' \in Nat
    BY <1>node, <2>1 DEF Expand, TypeOK
  <2> QED
    BY <1>12, <1>read, <2>2, <2>3 DEF Resolve, CanAlias, Expecting, TypeOK, history
<1>13. CASE ResolveOverLimit
  <2>1. PICK name \in Names :
          /\ Expand(entries[name].node)
          /\ Fail(IF TooManyNodes(entries[name].node) THEN "budget" ELSE "depth")
    BY <1>13 DEF ResolveOverLimit
  <2>2. expanded' \in Nat
    BY <1>node, <2>1 DEF Expand, TypeOK
  <2>3. err' \in Errors /\ at' = "failed"
    BY <2>1 DEF Fail, Errors
  <2> QED
    BY <1>13, <1>read, <2>2, <2>3 DEF ResolveOverLimit, CanAlias, Expecting, TypeOK, history
<1>14. CASE UnresolvedAlias
  <2>1. Fail("unknown") \/ Fail("recursive")
    BY <1>14 DEF UnresolvedAlias
  <2> QED
    BY <1>14, <1>fail, <2>1 DEF UnresolvedAlias, CanAlias, Errors
<1>finish. ASSUME NEW name, NEW g \in Nat, NEW n \in NodeType \ {NoValue}, Finish(name, g, n)
           PROVE  entries' \in [Names -> EntryType]
  BY <1>finish, EntriesTyped DEF Finish, TypeOK
<1>15. CASE ReturnAnchor
  <2>1. stack # <<>> /\ value # NoValue
    BY <1>15 DEF ReturnAnchor, HasTop, Returning
  <2>2. Top \in FrameType /\ stack' \in Seq(FrameType)
    BY <1>15, <2>1, PoppedStack, TopFrame DEF ReturnAnchor
  <2>3. Anchored \in NodeType \ {NoValue}
    BY <2>1, ReturnsTyped
  <2>4. /\ value' = Anchored
        /\ IF Top.defer
           THEN /\ pending' = [name |-> Top.name, generation |-> Top.generation]
                /\ UNCHANGED entries
           ELSE Finish(Top.name, Top.generation, Anchored) /\ UNCHANGED pending
    BY <1>15 DEF ReturnAnchor
  <2>5. entries' \in [Names -> EntryType]
    BY <1>finish, <2>2, <2>3, <2>4 DEF TypeOK, FrameType
  <2>6. pending' \in [name : Names \union {NoName}, generation : Nat]
    BY <2>2, <2>4 DEF TypeOK, FrameType
  <2> QED
    BY <1>15, <2>2, <2>3, <2>4, <2>5, <2>6 DEF ReturnAnchor, TypeOK, history
<1>16. CASE ReturnTag
  <2>1. stack # <<>> /\ value # NoValue
    BY <1>16 DEF ReturnTag, HasTop, Returning
  <2>2. stack' \in Seq(FrameType)
    BY <1>16, <2>1, PoppedStack DEF ReturnTag
  <2>3. Tagged \in NodeType \ {NoValue}
    BY <2>1, ReturnsTyped
  <2>4. /\ value' = Tagged
        /\ IF pending = NoPending THEN UNCHANGED entries
           ELSE Finish(pending.name, pending.generation, Tagged)
    BY <1>16 DEF ReturnTag
  <2>5. entries' \in [Names -> EntryType]
    BY <1>finish, <2>3, <2>4 DEF TypeOK
  <2>6. pending' \in [name : Names \union {NoName}, generation : Nat]
    BY <1>16 DEF ReturnTag, NoPending
  <2> QED
    BY <1>16, <2>2, <2>3, <2>4, <2>5, <2>6 DEF ReturnTag, TypeOK, history
<1>17. CASE ReturnItem
  <2>1. stack # <<>>
    BY <1>17 DEF ReturnItem, HasTop
  <2>2. stack' \in Seq(FrameType)
    BY <1>17, <2>1, ReturnsTyped, ReplacedTop DEF ReturnItem
  <2> QED
    BY <1>17, <2>2, NodesTyped DEF ReturnItem, TypeOK, registry
<1>18. CASE ReturnRoot
  BY <1>18, NodesTyped DEF ReturnRoot, TypeOK, registry
<1>19. CASE UNCHANGED vars
  BY <1>19 DEF vars, registry, history, TypeOK
<1> QED
  BY <1>1, <1>2, <1>3, <1>4, <1>5, <1>6, <1>7, <1>pair, <1>8, <1>9, <1>10, <1>11, <1>12,
     <1>13, <1>14, <1>15, <1>16, <1>17, <1>18, <1>19 DEF Next, Return

(* AnchorRegistry, the recorder and the recursive calls hold values of     *)
(* their types.                                                            *)
THEOREM TypeCorrect == Spec => []TypeOK
BY TypeInit, TypeStep, PTL DEF Spec

-----------------------------------------------------------------------------
(* Which anchors are open, and what the registry says of them.             *)
(*                                                                         *)
(* InProgressExactlyWhileOpen is not inductive: that a finished anchor     *)
(* leaves no entry behind rests on generations belonging to one open       *)
(* anchor and one name, and that a deferred finish is made in time rests   *)
(* on the tag being the very call that the anchor returns to.              *)
AnchorAt(i) == i \in DOMAIN stack /\ stack[i].kind = "anchor"

BetweenEmpty == at = "between" => stack = <<>> /\ value = NoValue

DeferredUnderTag ==
  \A i \in DOMAIN stack : AnchorAt(i) /\ stack[i].defer => i > 1 /\ stack[i - 1].kind = "tag"

PendingUnderTag ==
  pending # NoPending => value # NoValue /\ stack # <<>> /\ Top.kind = "tag"

(* The anchor o, on the stack or deferred, is its entry's only user.       *)
Known(o) ==
  /\ o.name \in Names
  /\ o.generation \in 1 .. generation
  /\ \A n \in Names : entries[n].generation = o.generation => n = o.name

OpenKnown ==
  /\ \A n \in Names : entries[n].generation <= generation
  /\ \A i \in DOMAIN stack : AnchorAt(i) => Known(stack[i])
  /\ pending # NoPending => Known(pending)

OpenDistinct ==
  \A i \in DOMAIN stack : AnchorAt(i) =>
    /\ \A j \in DOMAIN stack : AnchorAt(j) /\ stack[i].generation = stack[j].generation => i = j
    /\ pending # NoPending => stack[i].generation # pending.generation

OpenInv ==
  /\ DeferredUnderTag
  /\ OpenKnown
  /\ OpenDistinct
  /\ InProgressExactlyWhileOpen

AnchorsInv ==
  /\ TypeOK
  /\ at # "failed" => BetweenEmpty /\ PendingUnderTag /\ OpenInv

(* A step that leaves every anchor frame alone, and the registry and the   *)
(* deferred anchor too, keeps what is known of the open anchors.           *)
SameAnchors ==
  /\ \A i \in DOMAIN stack \intersect DOMAIN stack' :
       /\ stack'[i].kind = stack[i].kind
       /\ stack'[i].name = stack[i].name
       /\ stack'[i].generation = stack[i].generation
       /\ stack'[i].defer = stack[i].defer
  /\ \A i \in DOMAIN stack \ DOMAIN stack' : stack[i].kind # "anchor"
  /\ \A i \in DOMAIN stack' \ DOMAIN stack : stack'[i].kind # "anchor"

(* Where the anchor frames are left alone, each position says the same of  *)
(* them.                                                                   *)
LEMMA SameAnchorsAt ==
  ASSUME SameAnchors
  PROVE  \A i : /\ AnchorAt(i)' <=> AnchorAt(i)
                /\ AnchorAt(i) => /\ stack'[i].name = stack[i].name
                                  /\ stack'[i].generation = stack[i].generation
                                  /\ stack'[i].defer = stack[i].defer
BY DEF SameAnchors, AnchorAt

(* A step that leaves the anchor frames alone keeps the invariant of the   *)
(* open anchors.                                                           *)
LEMMA OpenInvKept ==
  ASSUME TypeOK, TypeOK', OpenInv, at # "failed", at' # "failed", SameAnchors,
         UNCHANGED <<pending, entries, generation>>
  PROVE  OpenInv'
<1>1. DeferredUnderTag'
  <2> SUFFICES ASSUME NEW i \in DOMAIN stack', AnchorAt(i)', stack'[i].defer
               PROVE  i > 1 /\ stack'[i - 1].kind = "tag"
    BY DEF DeferredUnderTag
  <2>1. AnchorAt(i) /\ stack[i].defer
    BY SameAnchorsAt
  <2>2. i > 1 /\ stack[i - 1].kind = "tag"
    BY <2>1 DEF OpenInv, DeferredUnderTag, AnchorAt
  <2>3. i - 1 \in DOMAIN stack \intersect DOMAIN stack'
    BY <2>1, <2>2 DEF AnchorAt, TypeOK
  <2> QED
    BY <2>2, <2>3 DEF SameAnchors
<1>2. OpenKnown'
  BY SameAnchorsAt DEF OpenInv, OpenKnown, Known, AnchorAt
<1>3. OpenDistinct'
  BY SameAnchorsAt DEF OpenInv, OpenDistinct, AnchorAt
<1>4. \A g : AnchorOpen(g)' <=> AnchorOpen(g)
  BY SameAnchorsAt DEF AnchorOpen, AnchorAt
<1>5. InProgressExactlyWhileOpen'
  BY <1>4 DEF OpenInv, InProgressExactlyWhileOpen
<1> QED
  BY <1>1, <1>2, <1>3, <1>5 DEF OpenInv

(* The four ways a step leaves the anchor frames alone.                    *)
LEMMA SameAnchorsUnchanged ==
  ASSUME UNCHANGED stack
  PROVE  SameAnchors
BY DEF SameAnchors

(* Starting a collection, a pair or a tag leaves the anchor frames alone.  *)
LEMMA SameAnchorsPushed ==
  ASSUME TypeOK, NEW f \in FrameType, f.kind # "anchor", stack' = Push(f)
  PROVE  SameAnchors
<1>1. /\ DOMAIN stack = 1 .. Len(stack) /\ DOMAIN stack' = 1 .. Len(stack')
      /\ Len(stack) \in Nat /\ Len(stack') = Len(stack) + 1
  BY PushedStack, LenProperties DEF TypeOK
<1>2. \A i \in DOMAIN stack : stack'[i] = stack[i]
  BY <1>1, PushedStack
<1>3. \A i \in DOMAIN stack' \ DOMAIN stack : stack'[i] = f
  <2>1. \A i \in DOMAIN stack' \ DOMAIN stack : i = Len(stack) + 1
    BY <1>1
  <2> QED
    BY <2>1, PushedStack
<1>4. DOMAIN stack \ DOMAIN stack' = {}
  BY <1>1
<1> QED
  BY <1>2, <1>3, <1>4 DEF SameAnchors

(* So does returning from one of them,                                     *)
LEMMA SameAnchorsPopped ==
  ASSUME TypeOK, stack # <<>>, Top.kind # "anchor", stack' = Pop
  PROVE  SameAnchors
<1>1. /\ DOMAIN stack = 1 .. Len(stack) /\ DOMAIN stack' = 1 .. Len(stack')
      /\ Len(stack) \in Nat \ {0} /\ Len(stack') = Len(stack) - 1
  BY PoppedStack, LenProperties DEF TypeOK
<1>2. \A i \in DOMAIN stack' : stack'[i] = stack[i]
  BY <1>1, PoppedStack
<1>3. \A i \in DOMAIN stack \ DOMAIN stack' : stack[i] = Top
  BY <1>1 DEF Top
<1>4. DOMAIN stack' \ DOMAIN stack = {}
  BY <1>1
<1> QED
  BY <1>2, <1>3, <1>4 DEF SameAnchors

(* and so does counting a child in the top frame.                          *)
LEMMA SameAnchorsReplaced ==
  ASSUME TypeOK, stack # <<>>, NEW f \in FrameType,
         stack' = [stack EXCEPT ![Len(stack)] = f],
         f.kind = Top.kind, f.name = Top.name, f.generation = Top.generation,
         f.defer = Top.defer
  PROVE  SameAnchors
<1>1. /\ DOMAIN stack = 1 .. Len(stack) /\ DOMAIN stack' = DOMAIN stack
      /\ Len(stack) \in Nat \ {0}
  BY ReplacedTop, LenProperties DEF TypeOK
<1>2. \A i \in DOMAIN stack : i # Len(stack) => stack'[i] = stack[i]
  BY <1>1, ReplacedTop
<1>3. stack'[Len(stack)] = f
  BY ReplacedTop
<1> QED
  BY <1>1, <1>2, <1>3 DEF SameAnchors, Top

-----------------------------------------------------------------------------
(* The anchor that begins is new, and the only user of its entry.          *)
LEMMA AnchorKeepsOpenInv ==
  ASSUME TypeOK, TypeOK', OpenInv, PendingUnderTag, at # "failed", Anchor
  PROVE  OpenInv' /\ PendingUnderTag'
<1> DEFINE n == Len(stack)
<1>1. PICK name \in Names :
        /\ \E d \in Depths : stack' = Push(AnchorFrame(name, d))
        /\ Begin(name)
  BY DEF Anchor
<1>at. PICK d \in Depths : stack' = Push(AnchorFrame(name, d))
  BY <1>1
<1> DEFINE new == AnchorFrame(name, d)
<1>2. pending = NoPending /\ pending' = NoPending /\ ~Recorded("anchor")
  BY DEF Anchor, Expecting, PendingUnderTag
<1>3. /\ new \in FrameType /\ new.kind = "anchor" /\ new.name = name
      /\ new.generation = generation + 1 /\ new.defer = AnchorAfterTag
      /\ generation \in Nat
  BY AnchorFrameTyped DEF TypeOK
<1>4. /\ n \in Nat /\ DOMAIN stack = 1 .. n /\ DOMAIN stack' = 1 .. n + 1
      /\ \A i \in 1 .. n : stack'[i] = stack[i]
      /\ stack'[n + 1] = new
  <2>1. stack' = Push(new)
    BY <1>at
  <2> HIDE DEF new
  <2>2. /\ Len(stack') = Len(stack) + 1
        /\ \A i \in 1 .. Len(stack) : stack'[i] = stack[i]
        /\ stack'[Len(stack) + 1] = new
    BY <1>3, <2>1, PushedStack
  <2>3. Len(stack) \in Nat /\ DOMAIN stack = 1 .. Len(stack) /\ DOMAIN stack' = 1 .. Len(stack')
    BY LenProperties DEF TypeOK
  <2> QED
    BY <2>2, <2>3
<1> HIDE DEF new
<1>5. AnchorAfterTag => n > 0 /\ stack[n].kind = "tag"
  <2> SUFFICES ASSUME AnchorAfterTag PROVE n > 0 /\ stack[n].kind = "tag"
    OBVIOUS
  <2>1. CASE InFlow
    BY <1>4, <2>1, TopFrame DEF AnchorAfterTag, HasTop, Top
  <2>2. CASE ~InFlow
    <3>1. Recorded("tag")
      BY <2>2 DEF AnchorAfterTag
    <3>2. PICK i \in DOMAIN stack :
            \A j \in i .. Len(stack) : stack[j].kind \in PropertyKinds /\ ~stack[j].split
      BY <3>1 DEF Recorded
    <3>3. n \in i .. Len(stack) /\ n > 0 /\ n \in DOMAIN stack
      BY <1>4, <3>2
    <3>4. stack[n].kind \in PropertyKinds /\ ~stack[n].split
      BY <3>2, <3>3
    <3>5. stack[n].kind # "anchor"
      <4> SUFFICES ASSUME stack[n].kind = "anchor" PROVE FALSE
        OBVIOUS
      <4>1. \A k \in Nat : \A j \in k .. k : j = k
        OBVIOUS
      <4> QED
        BY <1>2, <1>4, <2>2, <3>3, <3>4, <4>1 DEF Recorded
    <3> QED
      BY <3>3, <3>4, <3>5 DEF PropertyKinds
  <2> QED
    BY <2>1, <2>2
<1>6. /\ generation' = generation + 1
      /\ entries' = [entries EXCEPT ![name] = InProgress(generation + 1)]
  BY <1>1 DEF Begin
<1>7. \A m \in Names : entries[m].generation \in Nat /\ entries[m].generation <= generation
  BY DEF OpenInv, OpenKnown, TypeOK, EntryType
<1>8. \A i \in 1 .. n : AnchorAt(i) => stack[i].generation \in 1 .. generation
  BY <1>4 DEF OpenInv, OpenKnown, Known, AnchorAt
<1>9. \A i \in 1 .. n : AnchorAt(i)' <=> AnchorAt(i)
  BY <1>4 DEF AnchorAt
<1>10. DeferredUnderTag'
  <2> SUFFICES ASSUME NEW i \in DOMAIN stack', AnchorAt(i)', stack'[i].defer
               PROVE  i > 1 /\ stack'[i - 1].kind = "tag"
    BY DEF DeferredUnderTag
  <2>1. CASE i \in 1 .. n
    <3>1. i > 1 /\ stack[i - 1].kind = "tag"
      BY <1>4, <1>9, <2>1 DEF OpenInv, DeferredUnderTag
    <3>2. i - 1 \in 1 .. n
      BY <1>4, <2>1, <3>1
    <3> QED
      BY <1>4, <3>1, <3>2
  <2>2. CASE i = n + 1
    <3>1. n > 0 /\ stack[n].kind = "tag"
      BY <1>3, <1>4, <1>5, <2>2
    <3>2. i > 1 /\ i - 1 = n /\ n \in 1 .. n
      BY <1>4, <2>2, <3>1
    <3> QED
      BY <1>4, <3>1, <3>2
  <2> QED
    BY <1>4, <2>1, <2>2
<1>11. OpenKnown'
  <2>1. \A m \in Names : entries'[m] = IF m = name THEN InProgress(generation + 1) ELSE entries[m]
    BY <1>6 DEF TypeOK
  <2>2. \A m \in Names : entries'[m].generation <= generation'
    BY <1>3, <1>6, <1>7, <2>1 DEF InProgress
  <2>3. ASSUME NEW i \in DOMAIN stack', AnchorAt(i)' PROVE Known(stack[i])'
    <3>1. CASE i \in 1 .. n
      <4>1. Known(stack[i]) /\ stack'[i] = stack[i]
        BY <1>4, <1>9, <2>3, <3>1 DEF OpenInv, OpenKnown
      <4>2. stack[i].generation \in 1 .. generation' /\ stack[i].generation # generation + 1
        BY <1>3, <1>6, <4>1 DEF Known
      <4>3. \A m \in Names : entries'[m].generation = stack[i].generation => m = stack[i].name
        BY <2>1, <4>1, <4>2 DEF Known, InProgress
      <4> QED
        BY <4>1, <4>2, <4>3 DEF Known
    <3>2. CASE i = n + 1
      <4>1. stack'[i].name = name /\ stack'[i].generation = generation + 1
        BY <1>3, <1>4, <3>2
      <4>2. generation + 1 \in 1 .. generation'
        BY <1>3, <1>6
      <4>3. \A m \in Names : entries'[m].generation = generation + 1 => m = name
        BY <1>3, <1>7, <2>1
      <4> QED
        BY <4>1, <4>2, <4>3 DEF Known
    <3> QED
      BY <1>4, <2>3, <3>1, <3>2
  <2> QED
    BY <1>2, <2>2, <2>3 DEF OpenKnown
<1>12. OpenDistinct'
  BY <1>2, <1>3, <1>4, <1>8, <1>9 DEF OpenInv, OpenDistinct
<1>13. InProgressExactlyWhileOpen'
  <2>1. \A g \in 0 .. generation : AnchorOpen(g)' <=> AnchorOpen(g)
    BY <1>2, <1>3, <1>4 DEF AnchorOpen
  <2>3. \E i \in DOMAIN stack' : stack'[i].kind = "anchor" /\ stack'[i].generation = generation + 1
    BY <1>3, <1>4
  <2>4. ASSUME NEW m \in Names
        PROVE  entries'[m].state = "in_progress" <=>
                 /\ entries'[m].generation # 0
                 /\ \/ \E i \in DOMAIN stack' : /\ stack'[i].kind = "anchor"
                                                /\ stack'[i].generation = entries'[m].generation
                    \/ pending' # NoPending /\ pending'.generation = entries'[m].generation
    <3>1. CASE m = name
      <4>1. entries'[m] = InProgress(generation + 1)
        BY <1>6, <3>1 DEF TypeOK
      <4>2. entries'[m].state = "in_progress" /\ entries'[m].generation = generation + 1
        BY <4>1 DEF InProgress
      <4> QED
        BY <1>3, <2>3, <4>2
    <3>2. CASE m # name
      <4>1. entries'[m] = entries[m]
        BY <1>6, <3>2 DEF TypeOK
      <4>2. entries[m].generation \in 0 .. generation
        BY <1>3, <1>7
      <4>3. entries[m].state = "in_progress" <=>
              entries[m].generation # 0 /\ AnchorOpen(entries[m].generation)
        BY DEF OpenInv, InProgressExactlyWhileOpen
      <4> QED
        BY <2>1, <4>1, <4>2, <4>3 DEF AnchorOpen
    <3> QED
      BY <3>1, <3>2
  <2> QED
    BY <2>4 DEF InProgressExactlyWhileOpen, AnchorOpen
<1> QED
  BY <1>2, <1>10, <1>11, <1>12, <1>13 DEF OpenInv, PendingUnderTag

(* An open anchor's entry, if it still is its own, is what Finish expects. *)
LEMMA OwnEntryInProgress ==
  ASSUME TypeOK, OpenInv, at # "failed", NEW o, Known(o), AnchorOpen(o.generation),
         NEW m \in Names, entries[m].generation = o.generation
  PROVE  m = o.name /\ entries[m] = InProgress(o.generation)
<1>1. m = o.name /\ o.generation # 0
  BY DEF Known, TypeOK
<1>2. entries[m].state = "in_progress"
  BY <1>1 DEF OpenInv, InProgressExactlyWhileOpen
<1>3. entries[m].node = NoValue
  BY <1>2 DEF TypeOK, EntryType
<1> QED
  BY <1>1, <1>2, <1>3 DEF TypeOK, EntryType, InProgress

(* What Finish changes of the registry.                                    *)
LEMMA FinishedEntries ==
  ASSUME TypeOK, OpenInv, at # "failed", NEW o, Known(o), AnchorOpen(o.generation),
         NEW node, Finish(o.name, o.generation, node), NEW m \in Names
  PROVE  /\ entries'[m].generation = entries[m].generation
         /\ entries'[m].state = IF entries[m].generation = o.generation THEN "complete"
                                                                        ELSE entries[m].state
<1>1. o.name \in Names /\ entries[o.name].generation \in Nat
  BY DEF Known, TypeOK, EntryType
<1>2. CASE entries[m].generation = o.generation
  <2>1. m = o.name /\ entries[m] = InProgress(o.generation)
    BY <1>2, OwnEntryInProgress
  <2>2. entries'[m] = Complete(o.generation, node)
    BY <2>1 DEF Finish, TypeOK
  <2> QED
    BY <1>2, <2>2 DEF Complete
<1>3. CASE entries[m].generation # o.generation
  <2>1. entries'[m] = entries[m]
    BY <1>1, <1>3 DEF Finish, InProgress, TypeOK
  <2> QED
    BY <1>3, <2>1
<1> QED
  BY <1>2, <1>3

(* When the open anchor o leaves the open ones and is finished, the others *)
(* keep their entries.                                                     *)
LEMMA OpenAfterFinish ==
  ASSUME TypeOK, TypeOK', OpenInv, at # "failed", at' # "failed", UNCHANGED generation,
         NEW o, Known(o), AnchorOpen(o.generation),
         NEW node, Finish(o.name, o.generation, node),
         \A g : AnchorOpen(g)' <=> AnchorOpen(g) /\ g # o.generation
  PROVE  /\ InProgressExactlyWhileOpen'
         /\ \A m \in Names : entries'[m].generation <= generation'
         /\ \A p : Known(p) => Known(p)'
<1>1. \A m \in Names : entries'[m].generation = entries[m].generation
  BY FinishedEntries
<1>2. \A m \in Names :
        entries'[m].state = IF entries[m].generation = o.generation THEN "complete"
                                                                    ELSE entries[m].state
  BY FinishedEntries
<1>3. \A m \in Names : entries[m].state = "in_progress" <=>
        entries[m].generation # 0 /\ AnchorOpen(entries[m].generation)
  BY DEF OpenInv, InProgressExactlyWhileOpen
<1>4. \A m \in Names : entries'[m].state = "in_progress" <=>
        /\ entries[m].generation # 0
        /\ AnchorOpen(entries[m].generation) /\ entries[m].generation # o.generation
  BY <1>2, <1>3
<1>5. InProgressExactlyWhileOpen'
  <2> SUFFICES ASSUME NEW m \in Names
               PROVE  entries'[m].state = "in_progress" <=>
                        /\ entries'[m].generation # 0
                        /\ \/ \E i \in DOMAIN stack' :
                                /\ stack'[i].kind = "anchor"
                                /\ stack'[i].generation = entries'[m].generation
                           \/ /\ pending' # NoPending
                              /\ pending'.generation = entries'[m].generation
    BY DEF InProgressExactlyWhileOpen, AnchorOpen
  <2> DEFINE g == entries[m].generation
  <2>1. (\E i \in DOMAIN stack' : stack'[i].kind = "anchor" /\ stack'[i].generation = g)
        \/ (pending' # NoPending /\ pending'.generation = g)
        <=> AnchorOpen(g) /\ g # o.generation
    BY DEF AnchorOpen
  <2> QED
    BY <1>1, <1>4, <2>1
<1>6. \A m \in Names : entries'[m].generation <= generation'
  BY <1>1 DEF OpenInv, OpenKnown
<1>7. \A p : Known(p) => Known(p)'
  BY <1>1 DEF Known
<1> QED
  BY <1>5, <1>6, <1>7

(* Finishing an anchor closes exactly its own entry; a deferred one waits  *)
(* for its tag.                                                            *)
LEMMA ReturnAnchorKeepsOpenInv ==
  ASSUME TypeOK, TypeOK', OpenInv, PendingUnderTag, at # "failed", at' # "failed", ReturnAnchor
  PROVE  OpenInv' /\ PendingUnderTag'
<1> DEFINE n == Len(stack)
           node == Anchored
<1>1. /\ stack # <<>> /\ Top.kind = "anchor" /\ stack' = Pop /\ UNCHANGED generation
      /\ value' = node
      /\ IF Top.defer
         THEN /\ pending' = [name |-> Top.name, generation |-> Top.generation]
              /\ UNCHANGED entries
         ELSE Finish(Top.name, Top.generation, node) /\ UNCHANGED pending
  BY DEF ReturnAnchor, HasTop
<1>2. pending = NoPending
  BY <1>1 DEF PendingUnderTag
<1>3. /\ n \in Nat \ {0} /\ DOMAIN stack = 1 .. n /\ DOMAIN stack' = 1 .. n - 1
      /\ \A i \in 1 .. n - 1 : stack'[i] = stack[i]
      /\ Top = stack[n] /\ Top \in FrameType /\ Len(stack') = n - 1
  BY <1>1, PoppedStack, TopFrame, LenProperties DEF TypeOK, Top
<1> HIDE DEF n, node
<1>4. AnchorAt(n) /\ Known(Top) /\ AnchorOpen(Top.generation)
  BY <1>1, <1>3 DEF AnchorAt, AnchorOpen, OpenInv, OpenKnown
<1>5. \A i \in 1 .. n - 1 : (AnchorAt(i)' <=> AnchorAt(i)) /\ stack[i] = stack'[i]
  BY <1>3 DEF AnchorAt
<1>6. \A i \in 1 .. n - 1 : AnchorAt(i) => stack[i].generation # Top.generation
  BY <1>3, <1>4 DEF OpenInv, OpenDistinct
<1>7. DeferredUnderTag'
  <2> SUFFICES ASSUME NEW i \in DOMAIN stack', AnchorAt(i)', stack'[i].defer
               PROVE  i > 1 /\ stack'[i - 1].kind = "tag"
    BY DEF DeferredUnderTag
  <2>1. i > 1 /\ stack[i - 1].kind = "tag"
    BY <1>3, <1>5 DEF OpenInv, DeferredUnderTag
  <2>2. i - 1 \in 1 .. n - 1
    BY <1>3, <2>1
  <2> QED
    BY <1>3, <2>1, <2>2
<1>8. CASE Top.defer
  <2>1. n > 1 /\ stack[n - 1].kind = "tag"
    BY <1>3, <1>4, <1>8 DEF OpenInv, DeferredUnderTag
  <2>2. /\ pending' = [name |-> Top.name, generation |-> Top.generation]
        /\ pending' # NoPending
    BY <1>1, <1>4, <1>8 DEF NoPending, Known
  <2>3. \A g : AnchorOpen(g)' <=> AnchorOpen(g)
    BY <1>1, <1>2, <1>3, <2>2 DEF AnchorOpen
  <2>4. InProgressExactlyWhileOpen'
    BY <1>1, <1>8, <2>3 DEF OpenInv, InProgressExactlyWhileOpen
  <2>5. \A o : Known(o)' <=> Known(o)
    BY <1>1, <1>8 DEF Known
  <2>6. OpenKnown'
    <3>1. Known(pending)'
      BY <1>1, <1>4, <1>8, <2>2 DEF Known
    <3> QED
      BY <1>1, <1>3, <1>5, <1>8, <2>5, <3>1 DEF OpenInv, OpenKnown
  <2>7. OpenDistinct'
    BY <1>3, <1>5, <1>6, <2>2 DEF OpenInv, OpenDistinct
  <2>8. PendingUnderTag'
    <3>1. value' # NoValue
      BY <1>1, ReturnsTyped DEF node, ReturnAnchor, Returning
    <3>2. n - 1 \in 1 .. n - 1
      BY <1>3, <2>1
    <3>3. stack' # <<>> /\ Top'.kind = "tag"
      BY <1>3, <2>1, <3>2 DEF Top
    <3> QED
      BY <3>1, <3>3 DEF PendingUnderTag
  <2> QED
    BY <1>7, <2>4, <2>6, <2>7, <2>8 DEF OpenInv
<1>9. CASE ~Top.defer
  <2>1. Finish(Top.name, Top.generation, node) /\ pending' = NoPending
    BY <1>1, <1>2, <1>9
  <2>2. \A g : AnchorOpen(g)' <=> AnchorOpen(g) /\ g # Top.generation
    <3>1. \A i \in 1 .. n : i = n \/ i \in 1 .. n - 1
      BY <1>3
    <3> QED
      BY <1>1, <1>2, <1>3, <1>6, <2>1, <3>1 DEF AnchorOpen, AnchorAt
  <2>3. /\ InProgressExactlyWhileOpen'
        /\ \A m \in Names : entries'[m].generation <= generation'
        /\ \A o : Known(o) => Known(o)'
    BY <1>1, <1>4, <2>1, <2>2, OpenAfterFinish
  <2>4. OpenKnown'
    BY <1>3, <1>5, <2>1, <2>3 DEF OpenInv, OpenKnown
  <2>5. OpenDistinct'
    BY <1>3, <1>5, <2>1 DEF OpenInv, OpenDistinct
  <2> QED
    BY <1>7, <2>1, <2>3, <2>4, <2>5 DEF OpenInv, PendingUnderTag
<1> QED
  BY <1>8, <1>9

(* A tag finishes the anchor that was deferred to it, and no other.        *)
LEMMA ReturnTagKeepsOpenInv ==
  ASSUME TypeOK, TypeOK', OpenInv, PendingUnderTag, at # "failed", at' # "failed", ReturnTag
  PROVE  OpenInv' /\ PendingUnderTag'
<1>1. stack # <<>> /\ Top.kind = "tag" /\ stack' = Pop /\ pending' = NoPending /\ UNCHANGED generation
  BY DEF ReturnTag, HasTop
<1>2. SameAnchors
  BY <1>1, SameAnchorsPopped
<1>3. CASE pending = NoPending
  BY <1>1, <1>2, <1>3, OpenInvKept DEF ReturnTag, PendingUnderTag
<1>4. CASE pending # NoPending
  <2>1. PICK node : Finish(pending.name, pending.generation, node)
    BY <1>4 DEF ReturnTag
  <2>2. Known(pending) /\ AnchorOpen(pending.generation)
    BY <1>4 DEF OpenInv, OpenKnown, AnchorOpen
  <2>3. \A g : AnchorOpen(g)' <=> AnchorOpen(g) /\ g # pending.generation
    BY <1>1, <1>2, <1>4, SameAnchorsAt DEF OpenInv, OpenDistinct, AnchorOpen, AnchorAt
  <2>4. /\ InProgressExactlyWhileOpen'
        /\ \A m \in Names : entries'[m].generation <= generation'
        /\ \A o : Known(o) => Known(o)'
    BY <1>1, <2>1, <2>2, <2>3, OpenAfterFinish
  <2>5. DeferredUnderTag'
    <3> SUFFICES ASSUME NEW i \in DOMAIN stack', AnchorAt(i)', stack'[i].defer
                 PROVE  i > 1 /\ stack'[i - 1].kind = "tag"
      BY DEF DeferredUnderTag
    <3>1. AnchorAt(i) /\ i > 1 /\ stack[i - 1].kind = "tag"
      BY <1>2, SameAnchorsAt DEF OpenInv, DeferredUnderTag, AnchorAt
    <3>2. i - 1 \in DOMAIN stack \intersect DOMAIN stack'
      BY <3>1 DEF AnchorAt, TypeOK
    <3> QED
      BY <1>2, <3>1, <3>2 DEF SameAnchors
  <2>6. OpenKnown'
    <3> SUFFICES ASSUME NEW i \in DOMAIN stack', AnchorAt(i)' PROVE Known(stack[i])'
      BY <1>1, <2>4 DEF OpenKnown
    <3>1. /\ AnchorAt(i) /\ Known(stack[i])
          /\ stack'[i].name = stack[i].name /\ stack'[i].generation = stack[i].generation
      BY <1>2, SameAnchorsAt DEF OpenInv, OpenKnown, AnchorAt
    <3> QED
      BY <2>4, <3>1 DEF Known
  <2>7. OpenDistinct'
    BY <1>1, <1>2, SameAnchorsAt DEF OpenInv, OpenDistinct, AnchorAt
  <2> QED
    BY <1>1, <2>4, <2>5, <2>6, <2>7 DEF OpenInv, PendingUnderTag
<1> QED
  BY <1>3, <1>4

(* The invariant holds before the first token.                             *)
LEMMA AnchorsInvInit == Init => AnchorsInv
<1> SUFFICES ASSUME Init PROVE AnchorsInv
  OBVIOUS
<1>1. /\ stack = <<>> /\ value = NoValue /\ pending = NoPending /\ generation = 0
      /\ entries = [n \in Names |-> Absent] /\ DOMAIN stack = {}
  BY DEF Init
<1> QED
  BY <1>1, TypeInit DEF AnchorsInv, BetweenEmpty, PendingUnderTag, OpenInv, DeferredUnderTag,
     OpenKnown, OpenDistinct, InProgressExactlyWhileOpen, AnchorOpen, Absent

(* Every step of the parser keeps the invariant.                           *)
LEMMA AnchorsInvStep == AnchorsInv /\ [Next]_vars => AnchorsInv'
<1> SUFFICES ASSUME AnchorsInv, [Next]_vars PROVE AnchorsInv'
  OBVIOUS
<1>type. TypeOK /\ TypeOK'
  BY TypeStep DEF AnchorsInv
<1>failed. CASE at' = "failed"
  BY <1>type, <1>failed DEF AnchorsInv
<1>stays. ASSUME at # "failed", at' # "failed", SameAnchors,
                 UNCHANGED <<pending, entries, generation>>
          PROVE  OpenInv'
  BY <1>stays, <1>type, OpenInvKept DEF AnchorsInv
<1>node. ASSUME Expecting, at' = at, pending' = pending, OpenInv'
         PROVE  AnchorsInv'
  <2>1. at # "failed" /\ at # "between" /\ pending = NoPending
    BY <1>node DEF Expecting, AnchorsInv, PendingUnderTag
  <2> QED
    BY <1>node, <1>type, <2>1 DEF AnchorsInv, BetweenEmpty, PendingUnderTag
<1>1. CASE BeginDocument
  <2>1. /\ stack = <<>> /\ value = NoValue /\ pending = NoPending
        /\ UNCHANGED <<stack, value, pending, generation>>
        /\ entries' = [n \in Names |-> Absent]
    BY <1>1 DEF BeginDocument, ResetDocument, AnchorsInv, BetweenEmpty, PendingUnderTag
  <2>2. DOMAIN stack' = {} /\ generation \in Nat
    BY <1>type, <2>1 DEF TypeOK
  <2>3. \A n \in Names : entries'[n].generation = 0 /\ entries'[n].state = "absent"
    BY <2>1 DEF Absent
  <2>4. OpenInv'
    BY <2>1, <2>2, <2>3 DEF OpenInv, DeferredUnderTag, OpenKnown, OpenDistinct,
       InProgressExactlyWhileOpen, AnchorOpen
  <2> QED
    BY <1>type, <2>1, <2>4 DEF AnchorsInv, BetweenEmpty, PendingUnderTag
<1>2. CASE Anchor
  <2>1. Expecting /\ at' = at /\ pending' = pending /\ at # "failed"
    BY <1>2 DEF Anchor, Expecting
  <2>2. OpenInv'
    BY <1>2, <1>type, <2>1, AnchorKeepsOpenInv DEF AnchorsInv
  <2> QED
    BY <1>node, <2>1, <2>2
<1>3. CASE Tag
  <2>1. SameAnchors
    <3>1. PICK d \in Depths, wraps \in {0, 1} : stack' = Push(TagFrame(wraps, d))
      BY <1>3 DEF Tag
    <3>2. TagFrame(wraps, d) \in FrameType /\ TagFrame(wraps, d).kind # "anchor"
      BY <1>type, TagFrameTyped
    <3> QED
      BY <1>type, <3>1, <3>2, SameAnchorsPushed
  <2> QED
    BY <1>3, <1>node, <1>stays, <2>1 DEF Tag, Expecting, registry
<1>4. CASE FreshProperties
  <2>1. stack # <<>> /\ stack' = [stack EXCEPT ![Len(stack)] = [Top EXCEPT !.split = TRUE]]
    BY <1>4 DEF FreshProperties, HasTop, Top
  <2>2. SameAnchors
    <3> DEFINE f == [Top EXCEPT !.split = TRUE]
    <3>1. /\ f \in FrameType /\ f.kind = Top.kind /\ f.name = Top.name
          /\ f.generation = Top.generation /\ f.defer = Top.defer
      BY <1>type, <2>1, TopFrame DEF FrameType
    <3>2. stack' = [stack EXCEPT ![Len(stack)] = f]
      BY <2>1
    <3> HIDE DEF f
    <3> QED
      BY <1>type, <2>1, <3>1, <3>2, SameAnchorsReplaced
  <2> QED
    BY <1>4, <1>node, <1>stays, <2>2 DEF FreshProperties, Expecting, registry
<1>5. CASE DuplicateProperty
  BY <1>5, <1>failed DEF DuplicateProperty, Fail
<1>6. CASE Scalar
  BY <1>6, <1>node, <1>stays, SameAnchorsUnchanged DEF Scalar, Expecting, registry
<1>7. CASE Open
  <2>1. PICK flow \in BOOLEAN, d \in Depths : stack' = Push(CollectionFrame(flow, d))
    BY <1>7 DEF Open
  <2>2. CollectionFrame(flow, d) \in FrameType /\ CollectionFrame(flow, d).kind # "anchor"
    BY <1>type, CollectionFramesTyped
  <2>3. SameAnchors
    BY <1>type, <2>1, <2>2, SameAnchorsPushed
  <2> QED
    BY <1>7, <1>node, <1>stays, <2>3 DEF Open, Expecting, registry
<1>pair. CASE ImplicitPair
  <2>1. PairFrame \in FrameType /\ PairFrame.kind # "anchor"
    BY <1>type, CollectionFramesTyped
  <2>2. SameAnchors
    BY <1>pair, <1>type, <2>1, SameAnchorsPushed DEF ImplicitPair
  <2> QED
    BY <1>pair, <1>node, <1>stays, <2>2 DEF ImplicitPair, Expecting, registry
<1>8. CASE Close
  <2>1. stack # <<>> /\ Top.kind # "anchor"
    BY <1>8 DEF Close, HasTop, CollectionKinds
  <2>2. SameAnchors
    BY <1>8, <1>type, <2>1, SameAnchorsPopped DEF Close
  <2> QED
    BY <1>8, <1>node, <1>stays, <2>2 DEF Close, Expecting, registry
<1>9. CASE TooDeep
  BY <1>9, <1>failed DEF TooDeep, Fail
<1>10. CASE AliasWithProperties
  BY <1>10, <1>failed DEF AliasWithProperties, Fail
<1>11. CASE ValidateAlias
  BY <1>11, <1>node, <1>stays, SameAnchorsUnchanged DEF ValidateAlias, CanAlias, Expecting, registry
<1>12. CASE Resolve
  BY <1>12, <1>node, <1>stays, SameAnchorsUnchanged DEF Resolve, CanAlias, Expecting
<1>13. CASE ResolveOverLimit
  BY <1>13, <1>failed DEF ResolveOverLimit, Fail
<1>14. CASE UnresolvedAlias
  BY <1>14, <1>failed DEF UnresolvedAlias, Fail
<1>15. CASE ReturnAnchor
  <2>1. at = "document" /\ at' = at
    BY <1>15 DEF ReturnAnchor, Returning
  <2>2. OpenInv' /\ PendingUnderTag'
    BY <1>15, <1>type, <2>1, ReturnAnchorKeepsOpenInv DEF AnchorsInv
  <2> QED
    BY <1>type, <2>1, <2>2 DEF AnchorsInv, BetweenEmpty
<1>16. CASE ReturnTag
  <2>1. at = "document" /\ at' = at
    BY <1>16 DEF ReturnTag, Returning
  <2>2. OpenInv' /\ PendingUnderTag'
    BY <1>16, <1>type, <2>1, ReturnTagKeepsOpenInv DEF AnchorsInv
  <2> QED
    BY <1>type, <2>1, <2>2 DEF AnchorsInv, BetweenEmpty
<1>17. CASE ReturnItem
  <2>1. /\ stack # <<>> /\ Top.kind \in CollectionKinds
        /\ stack' = [stack EXCEPT ![Len(stack)] = Extended]
    BY <1>17 DEF ReturnItem, HasTop
  <2>4. SameAnchors
    BY <1>type, <2>1, ReturnsTyped, SameAnchorsReplaced
  <2>5. at = "document" /\ at' = at /\ pending = NoPending /\ pending' = NoPending
    BY <1>17, <2>1 DEF ReturnItem, Returning, AnchorsInv, PendingUnderTag, CollectionKinds
  <2>6. OpenInv'
    BY <1>17, <1>stays, <2>4, <2>5 DEF ReturnItem, registry
  <2> QED
    BY <1>type, <2>5, <2>6 DEF AnchorsInv, BetweenEmpty, PendingUnderTag
<1>18. CASE ReturnRoot
  <2>1. /\ stack = <<>> /\ stack' = <<>> /\ value' = NoValue /\ at = "document" /\ at' # "failed"
        /\ pending = NoPending /\ pending' = NoPending
    BY <1>18 DEF ReturnRoot, Returning, AnchorsInv, PendingUnderTag
  <2>2. OpenInv'
    BY <1>18, <1>stays, <2>1, SameAnchorsUnchanged DEF ReturnRoot, registry
  <2> QED
    BY <1>type, <2>1, <2>2 DEF AnchorsInv, BetweenEmpty, PendingUnderTag
<1>19. CASE UNCHANGED vars
  <2>1. UNCHANGED <<at, stack, value, pending, entries, generation>>
    BY <1>19 DEF vars, registry
  <2>2. at # "failed" => OpenInv'
    BY <1>stays, <2>1, SameAnchorsUnchanged
  <2> QED
    BY <1>type, <2>1, <2>2 DEF AnchorsInv, BetweenEmpty, PendingUnderTag, Top
<1> QED
  BY <1>1, <1>2, <1>3, <1>4, <1>5, <1>6, <1>7, <1>pair, <1>8, <1>9, <1>10, <1>11, <1>12,
     <1>13, <1>14, <1>15, <1>16, <1>17, <1>18, <1>19 DEF Next, Return

(* An entry is in progress exactly while its node is being parsed, whatever *)
(* the names, the nesting and the order of anchors and tags: the recursive  *)
(* alias error of AnchorRegistry::resolve is raised for the aliases inside  *)
(* their own node and for no other.                                         *)
THEOREM RecursionExact == Spec => []InProgressExactlyWhileOpen
<1>1. AnchorsInv => InProgressExactlyWhileOpen
  BY DEF AnchorsInv, OpenInv, InProgressExactlyWhileOpen
<1> QED
  BY <1>1, AnchorsInvInit, AnchorsInvStep, PTL DEF Spec

-----------------------------------------------------------------------------
(* Entries are only ever replaced by later declarations of their name.     *)
LEMMA FinishKeepsGenerations ==
  ASSUME TypeOK, NEW name, NEW g, NEW node, Finish(name, g, node), NEW m \in Names
  PROVE  entries'[m].generation = entries[m].generation
BY DEF Finish, TypeOK, InProgress, Complete

(* begin takes a new generation for the name, and nothing puts an old one  *)
(* back.                                                                   *)
LEMMA LatestStep ==
  TypeOK /\ LastDeclarationWins /\ [Next]_vars => LastDeclarationWins'
<1> SUFFICES ASSUME TypeOK, LastDeclarationWins, [Next]_vars, at' # "failed", NEW m \in Names
             PROVE  entries'[m].generation = latest'[m]
  BY DEF LastDeclarationWins
<1>same. ASSUME at # "failed", UNCHANGED latest,
                entries'[m].generation = entries[m].generation
         PROVE  entries'[m].generation = latest'[m]
  BY <1>same DEF LastDeclarationWins
<1>1. CASE BeginDocument
  BY <1>1 DEF BeginDocument, ResetDocument, Absent
<1>2. CASE Anchor
  <2>1. PICK name \in Names : Begin(name)
    BY <1>2 DEF Anchor
  <2>2. at # "failed"
    BY <1>2 DEF Anchor, Expecting
  <2> QED
    BY <2>1, <2>2 DEF Begin, InProgress, TypeOK, LastDeclarationWins
<1>3. CASE Tag \/ FreshProperties \/ Scalar \/ Open \/ ImplicitPair \/ Close \/ ValidateAlias \/ Resolve
  BY <1>3, <1>same DEF Tag, FreshProperties, Scalar, Open, ImplicitPair, Close, ValidateAlias, Resolve,
     CanAlias, Expecting, registry, history
<1>4. CASE DuplicateProperty \/ TooDeep \/ AliasWithProperties \/ ResolveOverLimit \/ UnresolvedAlias
  BY <1>4 DEF DuplicateProperty, TooDeep, AliasWithProperties, ResolveOverLimit,
     UnresolvedAlias, Fail
<1>5. CASE ReturnAnchor
  <2>1. entries'[m].generation = entries[m].generation
    BY <1>5, FinishKeepsGenerations DEF ReturnAnchor
  <2> QED
    BY <1>5, <1>same, <2>1 DEF ReturnAnchor, Returning, history
<1>6. CASE ReturnTag
  <2>1. entries'[m].generation = entries[m].generation
    BY <1>6, FinishKeepsGenerations DEF ReturnTag
  <2> QED
    BY <1>6, <1>same, <2>1 DEF ReturnTag, Returning, history
<1>7. CASE ReturnItem \/ ReturnRoot
  BY <1>7, <1>same DEF ReturnItem, ReturnRoot, Returning, registry
<1>8. CASE UNCHANGED vars
  BY <1>8, <1>same DEF vars, registry, history
<1> QED
  BY <1>1, <1>2, <1>3, <1>4, <1>5, <1>6, <1>7, <1>8 DEF Next, Return

(* An alias never resolves to an earlier anchor of its name, nor to one of *)
(* an earlier document, in any stream: AnchorRegistry::finish never undoes *)
(* a later AnchorRegistry::begin.                                          *)
THEOREM LatestAnchorWins == Spec => []LastDeclarationWins
<1>1. Init => LastDeclarationWins
  BY DEF Init, LastDeclarationWins, Absent
<1> QED
  BY <1>1, LatestStep, TypeInit, TypeStep, PTL DEF Spec

-----------------------------------------------------------------------------
(* Metadata of an anchor that waits for its node stays below that node.    *)
LEMMA MetaStep == TypeOK /\ TypeOK' /\ MetaBelongsToNode /\ [Next]_vars => MetaBelongsToNode'
<1> SUFFICES ASSUME TypeOK, TypeOK', MetaBelongsToNode, [Next]_vars,
                    at' # "failed", meta' # NoName
             PROVE  /\ value' = NoValue
                    /\ \E i \in DOMAIN stack' :
                         /\ stack'[i].kind = "anchor" /\ stack'[i].name = meta'
                         /\ \A j \in i .. Len(stack') : stack'[j].kind \in PropertyKinds
  BY DEF MetaBelongsToNode
<1>top. ASSUME at # "failed", meta # NoName
        PROVE  /\ value = NoValue /\ HasTop(PropertyKinds)
               /\ \E i \in DOMAIN stack :
                    /\ stack[i].kind = "anchor" /\ stack[i].name = meta
                    /\ \A j \in i .. Len(stack) : stack[j].kind \in PropertyKinds
  <2>1. PICK i \in DOMAIN stack :
               /\ stack[i].kind = "anchor" /\ stack[i].name = meta
               /\ \A j \in i .. Len(stack) : stack[j].kind \in PropertyKinds
    BY <1>top DEF MetaBelongsToNode
  <2>2. DOMAIN stack = 1 .. Len(stack) /\ Len(stack) \in Nat
    BY LenProperties DEF TypeOK
  <2>3. Len(stack) \in i .. Len(stack) /\ stack # <<>>
    BY <2>1, <2>2
  <2> QED
    BY <1>top, <2>1, <2>3 DEF HasTop, Top, MetaBelongsToNode
<1>push. ASSUME at # "failed", meta' = meta, value' = value,
                NEW f \in FrameType, f.kind \in PropertyKinds, stack' = Push(f)
         PROVE  MetaBelongsToNode'
  <2>1. PICK i \in DOMAIN stack :
               /\ stack[i].kind = "anchor" /\ stack[i].name = meta
               /\ \A j \in i .. Len(stack) : stack[j].kind \in PropertyKinds
    BY <1>push, <1>top
  <2>2. /\ DOMAIN stack = 1 .. Len(stack) /\ DOMAIN stack' = 1 .. Len(stack')
        /\ Len(stack) \in Nat /\ Len(stack') = Len(stack) + 1
    BY <1>push, PushedStack, LenProperties DEF TypeOK
  <2>3. /\ \A j \in 1 .. Len(stack) : stack'[j] = stack[j]
        /\ stack'[Len(stack) + 1] = f
    BY <1>push, PushedStack
  <2>4. i \in DOMAIN stack' /\ stack'[i] = stack[i]
    BY <2>2, <2>3
  <2>5. \A j \in i .. Len(stack') : stack'[j].kind \in PropertyKinds
    <3>1. \A j \in i .. Len(stack') : j \in i .. Len(stack) \/ j = Len(stack) + 1
      BY <2>2
    <3>2. \A j \in i .. Len(stack) : stack'[j] = stack[j]
      BY <2>2, <2>3
    <3> QED
      BY <1>push, <2>1, <2>3, <3>1, <3>2
  <2> QED
    BY <1>push, <1>top, <2>1, <2>4, <2>5 DEF MetaBelongsToNode
<1>1. CASE BeginDocument
  BY <1>1, <1>top DEF BeginDocument
<1>2. CASE Anchor
  <2>1. PICK name \in Names, d \in Depths :
          stack' = Push(AnchorFrame(name, d)) /\ PushAnchorMeta(name)
    BY <1>2 DEF Anchor
  <2> DEFINE f == AnchorFrame(name, d)
  <2>2. f \in FrameType /\ f.kind = "anchor" /\ f.name = name
    BY AnchorFrameTyped
  <2>3. stack' = Push(f)
    BY <2>1
  <2> HIDE DEF f
  <2>4. at # "failed" /\ value = NoValue /\ value' = value
    BY <1>2 DEF Anchor, Expecting
  <2>5. CASE meta' = meta
    BY <1>push, <2>2, <2>3, <2>4, <2>5 DEF PropertyKinds, MetaBelongsToNode
  <2>6. CASE meta' = name
    <3>1. /\ Len(stack') = Len(stack) + 1 /\ Len(stack) \in Nat
          /\ DOMAIN stack' = 1 .. Len(stack') /\ stack'[Len(stack) + 1] = f
      BY <2>2, <2>3, PushedStack, LenProperties DEF TypeOK
    <3>2. Len(stack') \in DOMAIN stack' /\ stack'[Len(stack')] = f
      BY <3>1
    <3>3. \A j \in Len(stack') .. Len(stack') : j = Len(stack')
      BY <3>1
    <3> QED
      BY <2>2, <2>4, <2>6, <3>2, <3>3 DEF PropertyKinds
  <2> QED
    BY <2>1, <2>5, <2>6 DEF PushAnchorMeta
<1>3. CASE Tag
  <2>1. PICK d \in Depths, wraps \in {0, 1} : stack' = Push(TagFrame(wraps, d))
    BY <1>3 DEF Tag
  <2>2. TagFrame(wraps, d) \in FrameType /\ TagFrame(wraps, d).kind \in PropertyKinds
    BY TagFrameTyped DEF PropertyKinds
  <2> QED
    BY <1>3, <1>push, <2>1, <2>2 DEF Tag, Expecting, MetaBelongsToNode
<1>4. CASE FreshProperties
  <2>1. at # "failed" /\ meta' = meta /\ value' = value /\ stack # <<>>
        /\ stack' = [stack EXCEPT ![Len(stack)] = [Top EXCEPT !.split = TRUE]]
    BY <1>4 DEF FreshProperties, Expecting, HasTop, Top
  <2>2. [Top EXCEPT !.split = TRUE] \in FrameType
    BY <2>1, TopFrame DEF FrameType
  <2>3. DOMAIN stack' = DOMAIN stack /\ Len(stack') = Len(stack) /\ DOMAIN stack = 1 .. Len(stack)
    BY <2>1, <2>2, ReplacedTop, LenProperties DEF TypeOK
  <2>4. \A i \in DOMAIN stack : stack'[i].kind = stack[i].kind /\ stack'[i].name = stack[i].name
    BY <2>1, TopFrame DEF TypeOK, Top, FrameType
  <2>5. PICK i \in DOMAIN stack :
               /\ stack[i].kind = "anchor" /\ stack[i].name = meta
               /\ \A j \in i .. Len(stack) : stack[j].kind \in PropertyKinds
    BY <1>top, <2>1
  <2>6. \A j \in i .. Len(stack) : j \in DOMAIN stack
    BY <2>3
  <2> QED
    BY <1>top, <2>1, <2>3, <2>4, <2>5, <2>6
<1>5. CASE DuplicateProperty \/ TooDeep \/ AliasWithProperties \/ ResolveOverLimit \/ UnresolvedAlias
  BY <1>5 DEF DuplicateProperty, TooDeep, AliasWithProperties, ResolveOverLimit,
     UnresolvedAlias, Fail
<1>6. CASE Scalar \/ Open \/ ImplicitPair
  BY <1>6 DEF Scalar, Open, ImplicitPair, TakeMeta
<1>7. CASE Close \/ ValidateAlias \/ Resolve
  <2>1. at # "failed" /\ meta' = meta /\ ~HasTop(PropertyKinds)
    BY <1>7 DEF Close, ValidateAlias, Resolve, CanAlias, Expecting, HasTop,
       PropertyKinds, CollectionKinds
  <2> QED
    BY <1>top, <2>1
<1>8. CASE Return
  <2>1. at # "failed" /\ meta' = meta /\ value # NoValue
    BY <1>8 DEF Return, ReturnAnchor, ReturnTag, ReturnItem, ReturnRoot, Returning
  <2> QED
    BY <1>top, <2>1
<1>9. CASE UNCHANGED vars
  BY <1>9, <1>top DEF vars
<1> QED
  BY <1>1, <1>2, <1>3, <1>4, <1>5, <1>6, <1>7, <1>8, <1>9 DEF Next

(* The recorder never hangs an anchor on another node's event: pending     *)
(* metadata is always that of an anchor whose node has not begun.          *)
THEOREM MetaNeverLeftOver == Spec => []MetaBelongsToNode
<1>1. Init => MetaBelongsToNode
  BY DEF Init, MetaBelongsToNode
<1> QED
  BY <1>1, MetaStep, TypeInit, TypeStep, PTL DEF Spec

-----------------------------------------------------------------------------
(* What the depth arguments count, against the levels of the tree.         *)
(*                                                                         *)
(* WithinDepth speaks of the node just returned.  It is inductive together *)
(* with this: no call counts less than the levels of the tree above its    *)
(* node, the levels of the frames are those of one path down the tree, and *)
(* every collection that has only checked parts is within the limit with   *)
(* the children it has so far.                                             *)
LevelBefore(i) == IF i = 1 THEN 0 ELSE stack[i - 1].level

OwnLevel(f) == IF f.kind = "collection" THEN 1 ELSE IF f.kind = "tag" THEN f.size ELSE 0

Counted(i) ==
  /\ stack[i].level <= stack[i].below
  /\ stack[i].level = LevelBefore(i) + OwnLevel(stack[i])
  /\ stack[i].kind = "pair" => stack[i].loose
  /\ stack[i].kind = "collection" /\ ~stack[i].loose =>
       LevelBefore(i) + stack[i].depth <= MaxDepth + 1

DepthInv == WithinDepth /\ (at # "failed" => \A i \in DOMAIN stack : Counted(i))

(* A new call's frame has to be counted, the frames below it stay so.      *)
LEMMA PushKeepsCounted ==
  ASSUME TypeOK, \A i \in DOMAIN stack : Counted(i),
         NEW f \in FrameType, stack' = Push(f),
         f.level <= f.below, f.level = Level + OwnLevel(f), f.kind = "pair" => f.loose,
         f.kind = "collection" /\ ~f.loose => Level + f.depth <= MaxDepth + 1
  PROVE  \A i \in DOMAIN stack' : Counted(i)'
<1>0. PICK n \in Nat : n = Len(stack)
  BY LenProperties DEF TypeOK
<1>1. /\ n \in Nat /\ DOMAIN stack = 1 .. n /\ DOMAIN stack' = 1 .. n + 1
      /\ \A i \in 1 .. n : stack'[i] = stack[i]
      /\ stack'[n + 1] = f
  BY <1>0, PushedStack, LenProperties DEF TypeOK
<1>2. ASSUME NEW i \in 1 .. n PROVE Counted(i)'
  <2>1. i = 1 \/ i - 1 \in 1 .. n
    BY <1>1
  <2>2. LevelBefore(i)' = LevelBefore(i)
    BY <1>1, <2>1 DEF LevelBefore
  <2> QED
    BY <1>1, <2>2 DEF Counted
<1>3. Counted(n + 1)'
  <2>1. LevelBefore(n + 1)' = Level
    <3>1. CASE n = 0
      BY <1>0, <1>1, <3>1, EmptySeq DEF LevelBefore, Level, TypeOK
    <3>2. CASE n # 0
      <4>1. n \in 1 .. n /\ n + 1 # 1 /\ n + 1 - 1 = n /\ stack # <<>>
        BY <1>0, <1>1, <3>2, EmptySeq
      <4> QED
        BY <1>0, <1>1, <4>1 DEF LevelBefore, Level, Top
    <3> QED
      BY <3>1, <3>2
  <2> QED
    BY <1>1, <2>1 DEF Counted
<1>4. \A i \in DOMAIN stack' : i \in 1 .. n \/ i = n + 1
  BY <1>1
<1> QED
  BY <1>2, <1>3, <1>4

(* A call that returns uncovers the frame its node goes to.                *)
LEMMA PopKeepsCounted ==
  ASSUME TypeOK, \A i \in DOMAIN stack : Counted(i), stack # <<>>, stack' = Pop
  PROVE  /\ \A i \in DOMAIN stack' : Counted(i)'
         /\ Level' \in Nat /\ Level = Level' + OwnLevel(Top)
         /\ Top.kind = "pair" => Top.loose
         /\ Top.kind = "collection" /\ ~Top.loose => Level' + Top.depth <= MaxDepth + 1
<1>0. PICK n \in Nat : n = Len(stack)
  BY LenProperties DEF TypeOK
<1>1. /\ n \in Nat \ {0} /\ DOMAIN stack = 1 .. n /\ DOMAIN stack' = 1 .. n - 1
      /\ \A i \in 1 .. n - 1 : stack'[i] = stack[i]
      /\ Len(stack') = n - 1 /\ Top = stack[n]
  BY <1>0, PoppedStack, LenProperties DEF TypeOK, Top
<1>2. ASSUME NEW i \in 1 .. n - 1 PROVE Counted(i)'
  <2>1. i \in DOMAIN stack /\ (i = 1 \/ i - 1 \in 1 .. n - 1)
    BY <1>1
  <2>2. LevelBefore(i)' = LevelBefore(i)
    BY <1>1, <2>1 DEF LevelBefore
  <2> QED
    BY <1>1, <2>1, <2>2 DEF Counted
<1>3. Level' = LevelBefore(n) /\ Level' \in Nat
  <2>1. CASE n = 1
    <3>1. stack' = <<>>
      BY <1>1, <2>1, PoppedStack, EmptySeq
    <3> QED
      BY <2>1, <3>1 DEF Level, LevelBefore
  <2>2. CASE n # 1
    <3>1. n - 1 \in 1 .. n - 1 /\ n - 1 \in DOMAIN stack /\ stack' # <<>>
      BY <1>1, <2>2, PoppedStack, EmptySeq
    <3>2. stack[n - 1] \in FrameType
      BY <3>1, <1>1, ElementOfSeq DEF TypeOK
    <3> QED
      BY <1>1, <2>2, <3>1, <3>2 DEF Level, LevelBefore, Top, FrameType
  <2> QED
    BY <2>1, <2>2
<1>4. Counted(n) /\ Level = stack[n].level
  BY <1>0, <1>1 DEF Level, Top
<1> QED
  BY <1>1, <1>2, <1>3, <1>4 DEF Counted

(* Only depth and looseness of the innermost frame change.                 *)
LEMMA ReplaceKeepsCounted ==
  ASSUME TypeOK, \A i \in DOMAIN stack : Counted(i), stack # <<>>,
         NEW f \in FrameType, stack' = [stack EXCEPT ![Len(stack)] = f],
         f.kind = Top.kind, f.level = Top.level, f.below = Top.below,
         f.kind = "tag" => f.size = Top.size,
         Top.loose => f.loose,
         f.kind = "collection" /\ ~f.loose =>
           f.depth = Top.depth \/ Level - 1 + f.depth <= MaxDepth + 1
  PROVE  \A i \in DOMAIN stack' : Counted(i)'
<1>0. PICK n \in Nat : n = Len(stack)
  BY LenProperties DEF TypeOK
<1>1. /\ n \in Nat \ {0} /\ DOMAIN stack = 1 .. n /\ DOMAIN stack' = 1 .. n
      /\ \A i \in 1 .. n - 1 : stack'[i] = stack[i]
      /\ stack'[n] = f /\ Top = stack[n] /\ Level = stack[n].level
  BY <1>0, ReplacedTop, LenProperties DEF TypeOK, Top, Level
<1>2. ASSUME NEW i \in 1 .. n PROVE LevelBefore(i)' = LevelBefore(i)
  <2>1. i = 1 \/ i - 1 \in 1 .. n - 1
    BY <1>1
  <2> QED
    BY <1>1, <2>1 DEF LevelBefore
<1>3. ASSUME NEW i \in 1 .. n - 1 PROVE Counted(i)'
  <2>1. i \in 1 .. n
    BY <1>1
  <2> QED
    BY <1>1, <1>2, <2>1 DEF Counted
<1>4. Counted(n)'
  <2>1. Counted(n) /\ n \in 1 .. n /\ LevelBefore(n)' = LevelBefore(n)
    BY <1>1, <1>2
  <2>2. LevelBefore(n) \in Nat
    <3>1. n = 1 \/ n - 1 \in 1 .. n
      BY <1>1
    <3>2. \A i \in 1 .. n : stack[i] \in FrameType
      BY <1>0, ElementOfSeq DEF TypeOK
    <3> QED
      BY <3>1, <3>2 DEF LevelBefore, FrameType
  <2>3. f.kind = "collection" => Level - 1 = LevelBefore(n)
    BY <1>1, <2>1, <2>2 DEF Counted, OwnLevel
  <2> QED
    BY <1>1, <2>1, <2>3 DEF Counted, OwnLevel
<1>5. \A i \in 1 .. n : i \in 1 .. n - 1 \/ i = n
  BY <1>1
<1> QED
  BY <1>1, <1>3, <1>4, <1>5

(* Every step keeps the depths of the nodes built so far within what was   *)
(* checked.                                                                *)
LEMMA DepthStep == TypeOK /\ TypeOK' /\ DepthInv /\ [Next]_vars => DepthInv'
<1> SUFFICES ASSUME TypeOK, TypeOK', DepthInv, [Next]_vars, at' # "failed"
             PROVE  DepthInv'
  BY DEF DepthInv, WithinDepth
<1>counted. ASSUME at # "failed"
            PROVE  /\ \A i \in DOMAIN stack : Counted(i)
                   /\ Level <= Below /\ Level \in Nat /\ Below \in Nat
                   /\ \A d \in Depths : d \in Nat /\ Level <= d
  <2>1. \A i \in DOMAIN stack : Counted(i)
    BY <1>counted DEF DepthInv
  <2>2. Level <= Below /\ Level \in Nat /\ Below \in Nat
    <3>1. CASE stack = <<>>
      BY <3>1 DEF Level, Below
    <3>2. CASE stack # <<>>
      <4>1. Len(stack) \in DOMAIN stack
        BY <3>2, TopFrame, LenProperties DEF TypeOK
      <4> QED
        BY <2>1, <3>2, <4>1, DepthsTyped DEF Counted, Level, Below, Top
    <3> QED
      BY <3>1, <3>2
  <2> QED
    BY <2>1, <2>2, DepthsTyped
<1>push. ASSUME at # "failed", value' = NoValue, \A i \in DOMAIN stack' : Counted(i)'
         PROVE  DepthInv'
  BY <1>push DEF DepthInv, WithinDepth
<1>leaf. ASSUME at # "failed", Leaf, UNCHANGED stack PROVE DepthInv'
  <2>1. value'.depth = 1 /\ (~value'.loose => \E d \in Depths : Checked(d))
    BY <1>leaf, LeafTyped
  <2>2. Level' = Level /\ \A i \in DOMAIN stack' : Counted(i)'
    BY <1>leaf, <1>counted DEF Level, Top, Counted, LevelBefore
  <2>3. ~value'.loose => Level + 1 <= MaxDepth + 1
    BY <1>leaf, <1>counted, <2>1, AnchorsAssumption DEF Checked
  <2> QED
    BY <2>1, <2>2, <2>3 DEF DepthInv, WithinDepth
<1>1. CASE BeginDocument
  BY <1>1 DEF BeginDocument, DepthInv, WithinDepth, Level, Top, Counted, LevelBefore
<1>2. CASE Anchor
  <2>1. PICK name \in Names, d \in Depths : stack' = Push(AnchorFrame(name, d))
    BY <1>2 DEF Anchor
  <2> DEFINE f == AnchorFrame(name, d)
  <2>2. /\ f \in FrameType /\ f.kind = "anchor" /\ f.level = Level /\ f.below >= d
        /\ f.below \in Nat
    BY AnchorFrameTyped DEF FrameType
  <2>3. at # "failed" /\ value' = NoValue
    BY <1>2 DEF Anchor, Expecting
  <2>4. stack' = Push(f)
    BY <2>1
  <2> HIDE DEF f
  <2>5. f.level <= f.below /\ f.level = Level + OwnLevel(f)
    BY <1>counted, <2>2, <2>3 DEF OwnLevel
  <2>6. \A i \in DOMAIN stack' : Counted(i)'
    BY <1>counted, <2>2, <2>3, <2>4, <2>5, PushKeepsCounted
  <2> QED
    BY <1>push, <2>3, <2>6
<1>3. CASE Tag
  <2>1. PICK d \in Depths, wraps \in {0, 1} : stack' = Push(TagFrame(wraps, d))
    BY <1>3 DEF Tag
  <2> DEFINE f == TagFrame(wraps, d)
  <2>2. /\ f \in FrameType /\ f.kind = "tag" /\ f.size = wraps
        /\ f.level = Level + wraps /\ f.below = d + 1
    BY TagFrameTyped
  <2>3. at # "failed" /\ value' = NoValue
    BY <1>3 DEF Tag, Expecting
  <2>4. stack' = Push(f)
    BY <2>1
  <2> HIDE DEF f
  <2>5. f.level <= f.below /\ f.level = Level + OwnLevel(f)
    BY <1>counted, <2>2, <2>3 DEF OwnLevel
  <2>6. \A i \in DOMAIN stack' : Counted(i)'
    BY <1>counted, <2>2, <2>3, <2>4, <2>5, PushKeepsCounted
  <2> QED
    BY <1>push, <2>3, <2>6
<1>4. CASE FreshProperties
  <2> DEFINE f == [Top EXCEPT !.split = TRUE]
  <2>1. /\ at # "failed" /\ value' = NoValue /\ stack # <<>>
        /\ stack' = [stack EXCEPT ![Len(stack)] = f]
    BY <1>4 DEF FreshProperties, Expecting, HasTop
  <2>2. /\ f \in FrameType /\ f.kind = Top.kind /\ f.level = Top.level /\ f.below = Top.below
        /\ f.size = Top.size /\ f.loose = Top.loose /\ f.depth = Top.depth
    BY <2>1, TopFrame DEF FrameType
  <2> HIDE DEF f
  <2>3. \A i \in DOMAIN stack' : Counted(i)'
    BY <1>counted, <2>1, <2>2, ReplaceKeepsCounted
  <2> QED
    BY <1>push, <2>1, <2>3
<1>5. CASE Scalar \/ ValidateAlias
  BY <1>5, <1>leaf DEF Scalar, ValidateAlias, CanAlias, Expecting
<1>6. CASE Open
  <2>1. PICK flow \in BOOLEAN, d \in Depths : Checked(d) /\ stack' = Push(CollectionFrame(flow, d))
    BY <1>6 DEF Open
  <2> DEFINE f == CollectionFrame(flow, d)
  <2>2. /\ f \in FrameType /\ f.kind = "collection" /\ f.depth = 1
        /\ f.level = Level + 1 /\ f.below = d + 1
    BY CollectionFramesTyped
  <2>3. at # "failed" /\ value' = NoValue
    BY <1>6 DEF Open, Expecting
  <2>4. stack' = Push(f)
    BY <2>1
  <2> HIDE DEF f
  <2>5. /\ f.level <= f.below /\ f.level = Level + OwnLevel(f)
        /\ Level + f.depth <= MaxDepth + 1
    BY <1>counted, <2>1, <2>2, <2>3, AnchorsAssumption DEF OwnLevel, Checked
  <2>6. \A i \in DOMAIN stack' : Counted(i)'
    BY <1>counted, <2>2, <2>3, <2>4, <2>5, PushKeepsCounted
  <2> QED
    BY <1>push, <2>3, <2>6
<1>7. CASE ImplicitPair
  <2>1. at # "failed" /\ value' = NoValue /\ stack' = Push(PairFrame)
    BY <1>7 DEF ImplicitPair, Expecting
  <2>2. /\ PairFrame \in FrameType /\ PairFrame.kind = "pair" /\ PairFrame.loose
        /\ PairFrame.level = Level /\ PairFrame.below = Below
    BY CollectionFramesTyped
  <2>3. /\ PairFrame.level <= PairFrame.below
        /\ PairFrame.level = Level + OwnLevel(PairFrame)
    BY <1>counted, <2>1, <2>2 DEF OwnLevel
  <2>4. \A i \in DOMAIN stack' : Counted(i)'
    BY <1>counted, <2>1, <2>2, <2>3, PushKeepsCounted
  <2> QED
    BY <1>push, <2>1, <2>4
<1>8. CASE Close
  <2>1. /\ at # "failed" /\ stack # <<>> /\ Top.kind \in CollectionKinds /\ stack' = Pop
        /\ value' = [Node(Top.size, Top.depth) EXCEPT !.loose = Top.loose]
    BY <1>8 DEF Close, Expecting, HasTop
  <2>2. value'.depth = Top.depth /\ value'.loose = Top.loose
    BY <2>1 DEF Node
  <2>3. /\ \A i \in DOMAIN stack' : Counted(i)'
        /\ ~Top.loose => Level' + Top.depth <= MaxDepth + 1
    BY <1>counted, <2>1, PopKeepsCounted DEF CollectionKinds
  <2> QED
    BY <2>2, <2>3 DEF DepthInv, WithinDepth
<1>9. CASE Resolve
  <2>1. PICK name \in Names, d \in Depths :
          /\ ~TooDeepHere(entries[name].node, d)
          /\ value' = Node(entries[name].node.size, entries[name].node.depth)
    BY <1>9 DEF Resolve
  <2>2. value'.depth = entries[name].node.depth /\ value'.depth \in Nat
    BY <2>1 DEF Node, TypeOK, NodeType
  <2>3. at # "failed" /\ UNCHANGED stack
    BY <1>9 DEF Resolve, CanAlias, Expecting
  <2>4. ~(d + value'.depth - 1 > MaxDepth)
    BY <2>1, <2>2 DEF TooDeepHere
  <2>5. Level + value'.depth <= MaxDepth + 1
    BY <1>counted, <2>2, <2>3, <2>4, AnchorsAssumption
  <2>6. Level' = Level /\ \A i \in DOMAIN stack' : Counted(i)'
    BY <1>counted, <2>3 DEF Level, Top, Counted, LevelBefore
  <2> QED
    BY <2>5, <2>6 DEF DepthInv, WithinDepth
<1>10. CASE DuplicateProperty \/ TooDeep \/ AliasWithProperties \/ ResolveOverLimit \/ UnresolvedAlias
  BY <1>10 DEF DuplicateProperty, TooDeep, AliasWithProperties, ResolveOverLimit,
     UnresolvedAlias, Fail
<1>11. CASE ReturnAnchor \/ ReturnTag
  <2>1. /\ at # "failed" /\ value # NoValue /\ stack # <<>> /\ stack' = Pop
        /\ \/ Top.kind = "anchor" /\ value' = Anchored
           \/ Top.kind = "tag" /\ value' = Tagged
    BY <1>11 DEF ReturnAnchor, ReturnTag, Returning, HasTop
  <2>2. value.depth \in Nat /\ Top.size \in Nat
    BY <2>1, TopFrame DEF TypeOK, NodeType, FrameType
  <2>3. value'.loose = value.loose /\ value'.depth = value.depth + OwnLevel(Top)
    BY <2>1, <2>2, ReturnsTyped DEF OwnLevel
  <2>4. /\ \A i \in DOMAIN stack' : Counted(i)'
        /\ Level' \in Nat /\ Level = Level' + OwnLevel(Top)
    BY <1>counted, <2>1, PopKeepsCounted
  <2>5. ~value.loose => Level + value.depth <= MaxDepth + 1
    BY <2>1 DEF DepthInv, WithinDepth
  <2>6. OwnLevel(Top) \in Nat
    BY <2>2 DEF OwnLevel
  <2>7. ~value'.loose => Level' + value'.depth <= MaxDepth + 1
    BY <2>2, <2>3, <2>4, <2>5, <2>6, AnchorsAssumption
  <2> QED
    BY <2>4, <2>7 DEF DepthInv, WithinDepth
<1>12. CASE ReturnItem
  <2>1. /\ at # "failed" /\ value # NoValue /\ value' = NoValue /\ stack # <<>>
        /\ stack' = [stack EXCEPT ![Len(stack)] = Extended] /\ Top.kind \in CollectionKinds
    BY <1>12 DEF ReturnItem, Returning, HasTop
  <2>2. /\ Extended \in FrameType /\ Extended.kind = Top.kind
        /\ Extended.level = Top.level /\ Extended.below = Top.below
        /\ Extended.loose = (Top.loose \/ value.loose)
        /\ Extended.depth = MaxNat(Top.depth, value.depth + 1)
    BY <2>1, ReturnsTyped
  <2>3. value.depth \in Nat /\ Top.depth \in Nat /\ Level \in Nat
    BY <2>1, TopFrame, DepthsTyped DEF TypeOK, NodeType, FrameType
  <2>4. ~value.loose => Level + value.depth <= MaxDepth + 1
    BY <2>1 DEF DepthInv, WithinDepth
  <2>5. ~Extended.loose => \/ Extended.depth = Top.depth
                           \/ Level - 1 + Extended.depth <= MaxDepth + 1
    <3>1. ~Extended.loose => ~value.loose
      BY <2>2
    <3> QED
      BY <2>2, <2>3, <2>4, <3>1, AnchorsAssumption DEF MaxNat
  <2>6. \A i \in DOMAIN stack' : Counted(i)'
    BY <1>counted, <2>1, <2>2, <2>5, ReplaceKeepsCounted DEF CollectionKinds
  <2> QED
    BY <1>push, <2>1, <2>6
<1>13. CASE ReturnRoot
  <2>1. at # "failed" /\ value' = NoValue /\ UNCHANGED stack
    BY <1>13 DEF ReturnRoot, Returning
  <2> QED
    BY <1>counted, <1>push, <2>1 DEF Counted, LevelBefore
<1>14. CASE UNCHANGED vars
  BY <1>14 DEF vars, DepthInv, WithinDepth, Level, Top, Counted, LevelBefore
<1> QED
  BY <1>1, <1>2, <1>3, <1>4, <1>5, <1>6, <1>7, <1>8, <1>9, <1>10, <1>11, <1>12, <1>13, <1>14
     DEF Next, Return

(* The nesting limit holds for the tree with its expansions, not only for  *)
(* the source: check_nesting_depth and the depth check of                  *)
(* AnchorRegistry::resolve together keep every node whose parts were all   *)
(* checked within selected_max_nesting_depth.                              *)
THEOREM DepthLimited == Spec => []WithinDepth
<1>1. Init => DepthInv
  BY EmptySeq DEF Init, DepthInv, WithinDepth
<1>2. DepthInv => WithinDepth
  BY DEF DepthInv
<1> QED
  BY <1>1, <1>2, DepthStep, TypeInit, TypeStep, PTL DEF Spec

-----------------------------------------------------------------------------
(* What an alias stands for.                                               *)

(* An anchor whose finish is not deferred stands under a tag only where    *)
(* that tag's node went on in another call.                                *)
UndeferredUnderTag ==
  \A i \in DOMAIN stack :
    AnchorAt(i) /\ ~stack[i].defer /\ i > 1 /\ stack[i - 1].kind = "tag" => stack[i - 1].split

(* The generations of the nodes placed, of the node in hand and of the     *)
(* open anchors are apart.                                                 *)
GensApart ==
  /\ \A g \in DOMAIN placed : g \in Nat /\ g <= generation /\ g \notin value.gens
  /\ \A g \in value.gens : g <= generation
  /\ IsFiniteSet(value.gens)
  /\ \A i \in DOMAIN stack : AnchorAt(i) => /\ stack[i].generation \notin value.gens
                                            /\ stack[i].generation \notin DOMAIN placed
  /\ pending # NoPending => pending.generation \in value.gens

(* What the registry holds of the node in hand is that node, as far as it  *)
(* has one anchor and at most one tag on one line ...                      *)
ValueCopied ==
  OneLine(value) =>
    \A n \in Names : entries[n].state = "complete" /\ entries[n].generation \in value.gens =>
      SameNode(entries[n].node, value)

(* ... and no tag that would change it is still to come.                   *)
TagOutside ==
  /\ value.gens # {} /\ value.tags = 0 /\ HasTop({"tag"}) /\ pending = NoPending => Top.split

CopiesInv ==
  /\ AnchorsInv
  /\ AliasKeepsTag
  /\ at # "failed" => UndeferredUnderTag /\ GensApart /\ ValueCopied /\ TagOutside

-----------------------------------------------------------------------------
(* No step takes the mark off a tag whose node went on in another call.    *)
LEMMA UndeferredKept ==
  ASSUME TypeOK, TypeOK', UndeferredUnderTag,
         \A i \in DOMAIN stack \intersect DOMAIN stack' :
           /\ stack'[i].kind = stack[i].kind /\ stack'[i].defer = stack[i].defer
           /\ stack[i].split => stack'[i].split,
         \A i \in DOMAIN stack' \ DOMAIN stack :
           /\ i = Len(stack) + 1
           /\ stack'[i].kind = "anchor" /\ ~stack'[i].defer /\ HasTop({"tag"}) => Top.split
  PROVE  UndeferredUnderTag'
<1>1. DOMAIN stack = 1 .. Len(stack) /\ Len(stack) \in Nat /\ DOMAIN stack' = 1 .. Len(stack') /\ Len(stack') \in Nat
  BY LenProperties DEF TypeOK
<1> SUFFICES ASSUME NEW i \in DOMAIN stack', AnchorAt(i)', ~stack'[i].defer, i > 1, stack'[i - 1].kind = "tag"
             PROVE  stack'[i - 1].split
  BY DEF UndeferredUnderTag
<1>2. stack'[i].kind = "anchor" /\ i - 1 \in DOMAIN stack'
  BY <1>1 DEF AnchorAt
<1>3. CASE i \in DOMAIN stack
  <2>1. i - 1 \in DOMAIN stack
    BY <1>1, <1>3
  <2> QED
    BY <1>2, <1>3, <2>1 DEF UndeferredUnderTag, AnchorAt
<1>4. CASE i \notin DOMAIN stack
  <2>1. i = Len(stack) + 1 /\ i - 1 = Len(stack) /\ Len(stack) \in DOMAIN stack
    BY <1>1, <1>4
  <2>2. stack # <<>> /\ Top = stack[i - 1]
    BY <1>1, <2>1, EmptySeq DEF Top
  <2> QED
    BY <1>2, <1>4, <2>1, <2>2 DEF HasTop
<1> QED
  BY <1>3, <1>4

LEMMA LastOfRange ==
  \A n \in Nat \ {0} : /\ \A i \in 1 .. n : i = n \/ i \in 1 .. (n - 1)
                       /\ \A i \in 1 .. (n - 1) : i \in 1 .. n /\ i # n
OBVIOUS

LEMMA UndeferredShrinks ==
  ASSUME TypeOK, TypeOK', UndeferredUnderTag, stack' = stack \/ (stack # <<>> /\ stack' = Pop)
  PROVE  UndeferredUnderTag'
<1>1. DOMAIN stack = 1 .. Len(stack) /\ DOMAIN stack' = 1 .. Len(stack')
  BY LenProperties DEF TypeOK
<1>2. DOMAIN stack' \subseteq DOMAIN stack /\ \A i \in DOMAIN stack' : stack'[i] = stack[i]
  <2>1. CASE stack' = stack
    BY <2>1
  <2>2. CASE stack # <<>> /\ stack' = Pop
    BY <1>1, <2>2, PoppedStack
  <2> QED
    BY <2>1, <2>2
<1> QED
  BY <1>2, UndeferredKept

LEMMA UndeferredGrows ==
  ASSUME TypeOK, TypeOK', UndeferredUnderTag, NEW f \in FrameType, stack' = Push(f),
         f.kind = "anchor" /\ ~f.defer /\ HasTop({"tag"}) => Top.split
  PROVE  UndeferredUnderTag'
<1>1. /\ DOMAIN stack = 1 .. Len(stack) /\ DOMAIN stack' = 1 .. Len(stack) + 1 /\ Len(stack) \in Nat
      /\ \A i \in 1 .. Len(stack) : stack'[i] = stack[i]
      /\ stack'[Len(stack) + 1] = f
  BY PushedStack, LenProperties DEF TypeOK
<1>2. \A i \in DOMAIN stack' \ DOMAIN stack : i = Len(stack) + 1
  BY <1>1
<1> QED
  BY <1>1, <1>2, UndeferredKept

LEMMA UndeferredReplaced ==
  ASSUME TypeOK, TypeOK', UndeferredUnderTag, stack # <<>>, NEW f \in FrameType,
         stack' = [stack EXCEPT ![Len(stack)] = f], f.kind = Top.kind, f.defer = Top.defer, Top.split => f.split
  PROVE  UndeferredUnderTag'
<1>1. /\ DOMAIN stack = 1 .. Len(stack) /\ DOMAIN stack' = DOMAIN stack /\ Len(stack) \in Nat \ {0}
      /\ \A i \in 1 .. (Len(stack) - 1) : stack'[i] = stack[i]
      /\ stack'[Len(stack)] = f /\ stack[Len(stack)] = Top
  BY ReplacedTop, LenProperties DEF TypeOK, Top
<1>2. \A i \in DOMAIN stack : i = Len(stack) \/ i \in 1 .. (Len(stack) - 1)
  BY <1>1, LastOfRange
<1> QED
  BY <1>1, <1>2, UndeferredKept

(* Whatever fails, or leaves the registry and the placed nodes alone.      *)
LEMMA CopiesStay ==
  ASSUME AliasKeepsTag, UNCHANGED <<entries, placed>>
  PROVE  AliasKeepsTag'
BY DEF AliasKeepsTag, AliasCopies

(* A step that leaves the anchors and the registry alone, with no anchored *)
(* node in hand after it.                                                  *)
LEMMA FreshValueCopied ==
  ASSUME CopiesInv, AnchorsInv', at # "failed", SameAnchors, UNCHANGED <<entries, generation, placed>>,
         value'.gens = {}, pending' = NoPending, UndeferredUnderTag'
  PROVE  CopiesInv'
<1>1. AliasKeepsTag'
  BY CopiesStay DEF CopiesInv
<1>2. GensApart'
  <2>1. IsFiniteSet(value'.gens)
    BY FS_EmptySet
  <2>2. \A i \in DOMAIN stack' : AnchorAt(i)' => stack'[i].generation \notin DOMAIN placed
    BY SameAnchorsAt DEF CopiesInv, GensApart, AnchorAt
  <2> QED
    BY <2>1, <2>2 DEF CopiesInv, GensApart
<1>3. ValueCopied' /\ TagOutside'
  BY DEF ValueCopied, TagOutside
<1> QED
  BY <1>1, <1>2, <1>3 DEF CopiesInv

(* An anchor that begins has a generation of its own.                      *)
LEMMA AnchorCopied ==
  ASSUME CopiesInv, AnchorsInv', at # "failed", Anchor
  PROVE  CopiesInv'
<1>1. /\ Expecting /\ value = NoValue /\ value' = value /\ UNCHANGED <<pending, placed>>
      /\ generation \in Nat /\ TypeOK /\ TypeOK' /\ pending = NoPending
  BY DEF Anchor, Expecting, CopiesInv, AnchorsInv, TypeOK, PendingUnderTag
<1>2. PICK name \in Names, d \in Depths : stack' = Push(AnchorFrame(name, d)) /\ Begin(name)
  BY DEF Anchor
<1>3. PICK f \in FrameType : /\ f = AnchorFrame(name, d) /\ f.kind = "anchor" /\ f.generation = generation + 1
                             /\ f.defer = AnchorAfterTag
  BY <1>1, AnchorFrameTyped
<1>4. /\ generation' = generation + 1
      /\ \A n \in Names : entries'[n] = IF n = name THEN InProgress(generation + 1) ELSE entries[n]
  BY <1>1, <1>2 DEF Begin, TypeOK
<1>5. AliasKeepsTag'
  <2> SUFFICES ASSUME NEW n \in Names, NEW g \in DOMAIN placed, OneLine(placed[g]),
                      entries'[n].state = "complete", entries'[n].generation = g
               PROVE  SameNode(entries'[n].node, placed[g])
    BY <1>1 DEF AliasKeepsTag, AliasCopies
  <2>1. entries'[n] = entries[n]
    BY <1>4 DEF InProgress
  <2> QED
    BY <2>1 DEF CopiesInv, AliasKeepsTag, AliasCopies
<1>6. UndeferredUnderTag'
  <2>1. HasTop({"tag"}) /\ ~Top.split => AnchorAfterTag
    <3> SUFFICES ASSUME HasTop({"tag"}), ~Top.split, ~InFlow PROVE Recorded("tag")
      BY DEF AnchorAfterTag
    <3>1. Len(stack) \in DOMAIN stack /\ Len(stack) \in Nat /\ Top = stack[Len(stack)] /\ Top.kind = "tag"
      BY <1>1, TopFrame, LenProperties DEF HasTop, Top, TypeOK
    <3>2. \A j \in Len(stack) .. Len(stack) : j = Len(stack)
      BY <3>1
    <3> QED
      BY <3>1, <3>2 DEF Recorded, PropertyKinds
  <2>2. AnchorAfterTag \in BOOLEAN
    BY DEF AnchorAfterTag, HasTop, Recorded
  <2> QED
    BY <1>1, <1>2, <1>3, <2>1, <2>2, UndeferredGrows DEF CopiesInv
<1>7. GensApart'
  <2>1. value.gens = {} /\ IsFiniteSet({})
    BY <1>1, FS_EmptySet DEF NoValue, Node
  <2>2. /\ DOMAIN stack = 1 .. Len(stack) /\ DOMAIN stack' = 1 .. Len(stack) + 1
        /\ \A i \in 1 .. Len(stack) : stack'[i] = stack[i]
        /\ stack'[Len(stack) + 1] = f /\ Len(stack) \in Nat
    BY <1>1, <1>2, <1>3, PushedStack, LenProperties, SMTT(30) DEF TypeOK
  <2>3. \A g \in DOMAIN placed : g \in Nat /\ g <= generation /\ g # generation + 1 /\ g <= generation'
    BY <1>1, <1>4 DEF CopiesInv, GensApart
  <2>4. ASSUME NEW i \in DOMAIN stack', AnchorAt(i)' PROVE stack'[i].generation \notin DOMAIN placed
    <3>1. CASE i \in 1 .. Len(stack)
      BY <2>2, <2>4, <3>1 DEF CopiesInv, GensApart, AnchorAt
    <3>2. CASE i = Len(stack) + 1
      BY <1>3, <2>2, <2>3, <3>2
    <3> QED
      BY <2>2, <3>1, <3>2
  <2> QED
    BY <1>1, <2>1, <2>3, <2>4 DEF GensApart
<1>8. ValueCopied' /\ TagOutside'
  BY <1>1 DEF ValueCopied, TagOutside, NoValue, Node
<1> QED
  BY <1>5, <1>6, <1>7, <1>8 DEF CopiesInv

-----------------------------------------------------------------------------
(* Finishing the open anchor o fills its own entry, if it still has one,   *)
(* and no other.                                                           *)
LEMMA FinishedEntry ==
  ASSUME AnchorsInv, at # "failed", NEW o, Known(o), AnchorOpen(o.generation),
         NEW node, Finish(o.name, o.generation, node), NEW m \in Names
  PROVE  entries'[m] = IF entries[m].generation = o.generation THEN Complete(o.generation, node) ELSE entries[m]
<1>1. TypeOK /\ OpenInv /\ o.name \in Names
  BY DEF AnchorsInv, Known
<1>2. CASE entries[m].generation = o.generation
  <2>1. m = o.name /\ entries[m] = InProgress(o.generation)
    BY <1>1, <1>2, OwnEntryInProgress
  <2> QED
    BY <1>1, <1>2, <2>1 DEF Finish, TypeOK
<1>3. CASE entries[m].generation # o.generation
  BY <1>1, <1>3 DEF Finish, InProgress, TypeOK
<1> QED
  BY <1>2, <1>3

LEMMA SingleMember ==
  ASSUME NEW S, IsFiniteSet(S), Cardinality(S) = 1, NEW x \in S
  PROVE  S = {x}
BY FS_Singleton

(* The innermost anchor is open, and its generation is its own.            *)
LEMMA TopAnchor ==
  ASSUME CopiesInv, at # "failed", HasTop({"anchor"})
  PROVE  /\ Known(Top) /\ AnchorOpen(Top.generation) /\ Top.generation \in Nat /\ Top.generation <= generation
         /\ Top.generation \notin DOMAIN placed
         /\ pending = NoPending
<1>1. TypeOK /\ stack # <<>> /\ Top.kind = "anchor"
  BY DEF CopiesInv, AnchorsInv, HasTop
<1>2. AnchorAt(Len(stack)) /\ Top = stack[Len(stack)] /\ Top \in FrameType
  BY <1>1, TopFrame, LenProperties DEF AnchorAt, Top, TypeOK
<1>3. Known(Top) /\ AnchorOpen(Top.generation)
  BY <1>2 DEF CopiesInv, AnchorsInv, OpenInv, OpenKnown, AnchorAt, AnchorOpen
<1>4. Top.generation \notin DOMAIN placed
  BY <1>2 DEF CopiesInv, GensApart, AnchorAt
<1>5. Top.generation \in Nat /\ Top.generation <= generation /\ generation \in Nat
  BY <1>1, <1>2, <1>3 DEF Known, TypeOK, FrameType
<1> QED
  BY <1>1, <1>3, <1>4, <1>5 DEF CopiesInv, AnchorsInv, PendingUnderTag

LEMMA ReturnAnchorCopied ==
  ASSUME CopiesInv, AnchorsInv', at # "failed", ReturnAnchor
  PROVE  CopiesInv'
<1>1. /\ TypeOK /\ TypeOK' /\ HasTop({"anchor"}) /\ stack # <<>> /\ stack' = Pop /\ value' = Anchored
      /\ UNCHANGED <<generation, placed>> /\ value \in NodeType
      /\ IF Top.defer
         THEN /\ pending' = [name |-> Top.name, generation |-> Top.generation]
              /\ UNCHANGED entries
         ELSE Finish(Top.name, Top.generation, Anchored) /\ UNCHANGED pending
  <2>1. HasTop({"anchor"}) /\ stack # <<>>
    BY DEF ReturnAnchor, HasTop
  <2>2. TypeOK /\ TypeOK' /\ value \in NodeType
    BY DEF CopiesInv, AnchorsInv, TypeOK
  <2> QED
    BY <2>1, <2>2 DEF ReturnAnchor, history
<1>2. /\ Known(Top) /\ AnchorOpen(Top.generation) /\ Top.generation \in Nat /\ Top.generation <= generation
      /\ Top.generation \notin DOMAIN placed
      /\ pending = NoPending
  BY <1>1, TopAnchor
<1>3. /\ value'.gens = value.gens \union {Top.generation} /\ value'.tags = value.tags
      /\ IsFiniteSet(value'.gens)
  <2>1. value'.gens = value.gens \union {Top.generation} /\ value'.tags = value.tags
    BY <1>1 DEF Anchored, NodeType
  <2> QED
    BY <2>1, FS_AddElement DEF CopiesInv, GensApart
<1>4. ASSUME NEW n \in Names
      PROVE  \/ entries'[n] = entries[n] /\ entries[n].generation # Top.generation
             \/ /\ entries[n].generation = Top.generation
                /\ entries'[n].state = "complete" => entries'[n].node = Anchored
  <2>1. CASE Top.defer
    <3>1. entries[n].generation = Top.generation => entries[n] = InProgress(Top.generation)
      BY <1>2, OwnEntryInProgress DEF CopiesInv, AnchorsInv
    <3> QED
      BY <1>1, <2>1, <3>1 DEF InProgress
  <2>2. CASE ~Top.defer
    <3>1. Finish(Top.name, Top.generation, Anchored)
      BY <1>1, <2>2
    <3>2. entries'[n] = IF entries[n].generation = Top.generation THEN Complete(Top.generation, Anchored) ELSE entries[n]
      BY <1>2, <3>1, FinishedEntry DEF CopiesInv
    <3> QED
      BY <3>2 DEF Complete
  <2> QED
    BY <2>1, <2>2
<1>5. AliasKeepsTag'
  <2> SUFFICES ASSUME NEW n \in Names, NEW g \in DOMAIN placed, OneLine(placed[g]),
                      entries'[n].state = "complete", entries'[n].generation = g
               PROVE  SameNode(entries'[n].node, placed[g])
    BY <1>1 DEF AliasKeepsTag, AliasCopies
  <2>1. entries'[n].generation = entries[n].generation
    <3>1. CASE Top.defer
      BY <1>1, <3>1
    <3>2. CASE ~Top.defer
      BY <1>1, <1>2, <3>2, FinishedEntries DEF CopiesInv, AnchorsInv
    <3> QED
      BY <3>1, <3>2
  <2>2. entries'[n] = entries[n]
    BY <1>2, <1>4, <2>1
  <2> QED
    BY <2>2 DEF CopiesInv, AliasKeepsTag, AliasCopies
<1>6. UndeferredUnderTag'
  BY <1>1, UndeferredShrinks DEF CopiesInv
<1>7. /\ DOMAIN stack = 1 .. Len(stack) /\ DOMAIN stack' = 1 .. (Len(stack) - 1) /\ Len(stack) \in Nat \ {0}
      /\ \A i \in DOMAIN stack' : stack'[i] = stack[i] /\ i \in DOMAIN stack /\ i # Len(stack)
      /\ Top = stack[Len(stack)]
  <2>1. /\ DOMAIN stack = 1 .. Len(stack) /\ DOMAIN stack' = 1 .. Len(stack') /\ Len(stack') = Len(stack) - 1
        /\ Len(stack) \in Nat \ {0} /\ \A i \in 1 .. (Len(stack) - 1) : stack'[i] = stack[i]
    BY <1>1, PoppedStack, LenProperties DEF TypeOK
  <2>2. \A i \in 1 .. (Len(stack) - 1) : i \in 1 .. Len(stack) /\ i # Len(stack)
    BY <2>1, LastOfRange
  <2> QED
    BY <2>1, <2>2 DEF Top
<1>8. GensApart'
  <2>1. ASSUME NEW i \in DOMAIN stack', AnchorAt(i)'
        PROVE  stack'[i].generation \notin value'.gens /\ stack'[i].generation \notin DOMAIN placed
    <3>1. AnchorAt(i) /\ AnchorAt(Len(stack))
      BY <1>1, <1>7, <2>1 DEF AnchorAt, HasTop
    <3>2. stack[i].generation # Top.generation
      BY <1>7, <3>1 DEF CopiesInv, AnchorsInv, OpenInv, OpenDistinct
    <3>3. stack[i].generation \notin value.gens /\ stack[i].generation \notin DOMAIN placed
      BY <1>7, <3>1 DEF CopiesInv, GensApart
    <3> QED
      BY <1>3, <1>7, <3>2, <3>3
  <2>2. \A g \in DOMAIN placed : g \in Nat /\ g <= generation /\ g \notin value'.gens
    BY <1>2, <1>3 DEF CopiesInv, GensApart
  <2>3. \A g \in value'.gens : g <= generation
    BY <1>2, <1>3 DEF CopiesInv, GensApart
  <2>4. pending' # NoPending => pending'.generation \in value'.gens
    BY <1>1, <1>2, <1>3
  <2> QED
    BY <1>1, <1>3, <2>1, <2>2, <2>3, <2>4 DEF GensApart
<1>9. ValueCopied'
  <2> SUFFICES ASSUME OneLine(value'), NEW n \in Names, entries'[n].state = "complete",
                      entries'[n].generation \in value'.gens
               PROVE  SameNode(entries'[n].node, value')
    BY DEF ValueCopied
  <2>1. value'.gens = {Top.generation}
    BY <1>3, SingleMember DEF OneLine
  <2>2. entries'[n].node = Anchored
    BY <1>4, <2>1
  <2> QED
    BY <1>1, <2>2 DEF SameNode
<1>10. TagOutside'
  <2> SUFFICES ASSUME HasTop({"tag"})', pending' = NoPending
               PROVE  Top'.split
    BY DEF TagOutside
  <2>1. ~Top.defer
    BY <1>1, <1>2, AnchorsAssumption DEF NoPending, Known
  <2>2. stack' # <<>> /\ Len(stack') = Len(stack) - 1
    BY <1>1, PoppedStack DEF HasTop
  <2>3. Len(stack) - 1 \in DOMAIN stack' /\ Len(stack) > 1
    BY <1>1, <1>7, <2>2, EmptySeq, SMTT(30) DEF TypeOK
  <2>4. Top' = stack[Len(stack) - 1] /\ Top'.kind = "tag"
    BY <1>7, <2>2, <2>3 DEF Top, HasTop
  <2> QED
    BY <1>1, <1>7, <2>1, <2>3, <2>4 DEF CopiesInv, UndeferredUnderTag, AnchorAt, HasTop
<1> QED
  BY <1>5, <1>6, <1>8, <1>9, <1>10 DEF CopiesInv

LEMMA ReturnTagCopied ==
  ASSUME CopiesInv, AnchorsInv', at # "failed", ReturnTag
  PROVE  CopiesInv'
<1>1. /\ TypeOK /\ TypeOK' /\ stack # <<>> /\ stack' = Pop /\ value' = Tagged /\ Top \in FrameType
      /\ UNCHANGED <<generation, placed>> /\ value \in NodeType /\ pending' = NoPending /\ HasTop({"tag"})
      /\ IF pending = NoPending THEN UNCHANGED entries
                                ELSE Finish(pending.name, pending.generation, Tagged)
  <2>1. HasTop({"tag"}) /\ stack # <<>>
    BY DEF ReturnTag, HasTop
  <2>2. TypeOK /\ TypeOK' /\ value \in NodeType
    BY DEF CopiesInv, AnchorsInv, TypeOK
  <2>3. Top \in FrameType
    BY <2>1, <2>2, TopFrame
  <2> QED
    BY <2>1, <2>2, <2>3 DEF ReturnTag, history
<1>2. /\ value'.gens = value.gens /\ value'.tags = value.tags + 1 /\ value.tags \in Nat
      /\ value'.split <=> value.split \/ Top.split
      /\ IsFiniteSet(value.gens)
  BY <1>1 DEF Tagged, NodeType, FrameType, CopiesInv, GensApart
<1>3. pending # NoPending => /\ Known(pending) /\ AnchorOpen(pending.generation)
                             /\ pending.generation \in value.gens
  BY DEF CopiesInv, AnchorsInv, OpenInv, OpenKnown, AnchorOpen, GensApart
<1>4. ASSUME NEW n \in Names
      PROVE  \/ entries'[n] = entries[n] /\ (pending # NoPending => entries[n].generation # pending.generation)
             \/ /\ pending # NoPending /\ entries'[n].generation = pending.generation
                /\ entries'[n].node = Tagged
  <2>1. CASE pending = NoPending
    BY <1>1, <2>1
  <2>2. CASE pending # NoPending
    <3>1. Finish(pending.name, pending.generation, Tagged)
      BY <1>1, <2>2
    <3>2. entries'[n] = IF entries[n].generation = pending.generation
                        THEN Complete(pending.generation, Tagged) ELSE entries[n]
      BY <1>3, <2>2, <3>1, FinishedEntry DEF CopiesInv
    <3> QED
      BY <2>2, <3>2 DEF Complete
  <2> QED
    BY <2>1, <2>2
<1>5. AliasKeepsTag'
  <2> SUFFICES ASSUME NEW n \in Names, NEW g \in DOMAIN placed, OneLine(placed[g]),
                      entries'[n].state = "complete", entries'[n].generation = g
               PROVE  SameNode(entries'[n].node, placed[g])
    BY <1>1 DEF AliasKeepsTag, AliasCopies
  <2>1. pending # NoPending => g # pending.generation
    BY <1>3 DEF CopiesInv, GensApart
  <2>2. entries'[n] = entries[n]
    BY <1>4, <2>1
  <2> QED
    BY <2>2 DEF CopiesInv, AliasKeepsTag, AliasCopies
<1>6. UndeferredUnderTag'
  BY <1>1, UndeferredShrinks DEF CopiesInv
<1>7. GensApart'
  <2>1. SameAnchors
    BY <1>1, SameAnchorsPopped DEF HasTop
  <2>2. ASSUME NEW i \in DOMAIN stack', AnchorAt(i)'
        PROVE  stack'[i].generation \notin value.gens /\ stack'[i].generation \notin DOMAIN placed
    BY <2>1, <2>2, SameAnchorsAt DEF CopiesInv, GensApart, AnchorAt
  <2> QED
    BY <1>1, <1>2, <2>2 DEF CopiesInv, GensApart
<1>8. ValueCopied'
  <2> SUFFICES ASSUME OneLine(value'), NEW n \in Names, entries'[n].state = "complete",
                      entries'[n].generation \in value'.gens
               PROVE  SameNode(entries'[n].node, value')
    BY DEF ValueCopied
  <2>1. value.tags = 0 /\ ~Top.split /\ Cardinality(value.gens) = 1
    BY <1>2 DEF OneLine
  <2>2. pending # NoPending
    BY <1>1, <1>2, <2>1 DEF CopiesInv, TagOutside
  <2>3. value.gens = {pending.generation}
    BY <1>2, <1>3, <2>1, <2>2, SingleMember
  <2>4. entries'[n].node = Tagged
    BY <1>2, <1>4, <2>2, <2>3
  <2> QED
    BY <1>1, <2>4 DEF SameNode
<1>9. TagOutside'
  BY <1>2 DEF TagOutside
<1> QED
  BY <1>5, <1>6, <1>7, <1>8, <1>9 DEF CopiesInv

(* A node that is placed is what the registry holds of its anchors.        *)
LEMMA PlacedCopied ==
  ASSUME CopiesInv, AnchorsInv', at # "failed", SameAnchors, UNCHANGED <<entries, generation>>, Record(value),
         value' = NoValue, pending = NoPending, pending' = NoPending, UndeferredUnderTag'
  PROVE  CopiesInv'
<1>1. /\ DOMAIN placed' = value.gens \union DOMAIN placed
      /\ \A g \in DOMAIN placed' : placed'[g] = IF g \in value.gens THEN value ELSE placed[g]
  BY DEF Record
<1>2. AliasKeepsTag'
  <2> SUFFICES ASSUME NEW n \in Names, NEW g \in DOMAIN placed', OneLine(placed'[g]),
                      entries[n].state = "complete", entries[n].generation = g
               PROVE  SameNode(entries[n].node, placed'[g])
    BY DEF AliasKeepsTag, AliasCopies
  <2>1. CASE g \in value.gens
    BY <1>1, <2>1 DEF CopiesInv, ValueCopied
  <2>2. CASE g \notin value.gens
    BY <1>1, <2>2 DEF CopiesInv, AliasKeepsTag, AliasCopies
  <2> QED
    BY <2>1, <2>2
<1>3. GensApart'
  <2>1. value'.gens = {} /\ IsFiniteSet({}) /\ value.gens \subseteq Nat
    BY FS_EmptySet DEF NoValue, Node, CopiesInv, AnchorsInv, TypeOK, NodeType
  <2>2. \A i \in DOMAIN stack' : AnchorAt(i)' => stack'[i].generation \notin DOMAIN placed'
    BY <1>1, SameAnchorsAt DEF CopiesInv, GensApart, AnchorAt
  <2>3. \A g \in DOMAIN placed' : g \in Nat /\ g <= generation
    BY <1>1, <2>1 DEF CopiesInv, GensApart
  <2> QED
    BY <2>1, <2>2, <2>3 DEF GensApart
<1>4. ValueCopied' /\ TagOutside'
  BY DEF ValueCopied, TagOutside, NoValue, Node
<1> QED
  BY <1>2, <1>3, <1>4 DEF CopiesInv

LEMMA CopiesInit == Init => CopiesInv
<1> SUFFICES ASSUME Init PROVE CopiesInv
  OBVIOUS
<1>1. /\ stack = <<>> /\ value = NoValue /\ pending = NoPending /\ placed = <<>>
      /\ DOMAIN stack = {} /\ DOMAIN placed = {} /\ value.gens = {} /\ IsFiniteSet({})
  BY FS_EmptySet DEF Init, NoValue, Node
<1> QED
  BY <1>1, AnchorsInvInit DEF CopiesInv, AliasKeepsTag, UndeferredUnderTag, GensApart, ValueCopied, TagOutside

LEMMA CopiesStep == CopiesInv /\ [Next]_vars => CopiesInv'
<1> SUFFICES ASSUME CopiesInv, [Next]_vars PROVE CopiesInv'
  OBVIOUS
<1>inv. AnchorsInv /\ AnchorsInv' /\ TypeOK /\ TypeOK'
  BY AnchorsInvStep DEF CopiesInv, AnchorsInv
<1>hand. Expecting => value = NoValue /\ pending = NoPending /\ at # "failed" /\ NoValue.gens = {}
  BY <1>inv DEF Expecting, AnchorsInv, PendingUnderTag, NoValue, Node
<1>tags. at # "failed" => UndeferredUnderTag
  BY DEF CopiesInv
<1>leaf. Leaf => value'.gens = {}
  BY DEF Leaf, Node
<1>1. CASE BeginDocument
  <2>1. /\ placed' = <<>> /\ UNCHANGED <<stack, value, pending, generation>> /\ at # "failed"
        /\ stack = <<>> /\ value = NoValue /\ pending = NoPending
    BY <1>1, <1>inv DEF BeginDocument, ResetDocument, AnchorsInv, BetweenEmpty, PendingUnderTag
  <2>2. /\ DOMAIN placed' = {} /\ DOMAIN stack' = {} /\ value'.gens = {} /\ IsFiniteSet({})
        /\ pending' = NoPending
    BY <2>1, FS_EmptySet DEF NoValue, Node
  <2> QED
    BY <1>inv, <2>2 DEF CopiesInv, AliasKeepsTag, UndeferredUnderTag, GensApart, ValueCopied, TagOutside
<1>2. CASE Anchor
  BY <1>2, <1>inv, <1>hand, AnchorCopied DEF Anchor
<1>3. CASE Tag
  <2>1. PICK d \in Depths, wraps \in {0, 1} : stack' = Push(TagFrame(wraps, d))
    BY <1>3 DEF Tag
  <2>2. PICK f \in FrameType : f = TagFrame(wraps, d) /\ f.kind = "tag"
    BY <1>inv, TagFrameTyped
  <2>3. SameAnchors /\ UndeferredUnderTag'
    BY <1>inv, <2>1, <2>2, SameAnchorsPushed, UndeferredGrows, <1>3, <1>hand, <1>tags DEF Tag
  <2> QED
    BY <1>3, <1>inv, <1>hand, <2>3, FreshValueCopied DEF Tag, registry, history
<1>4. CASE FreshProperties
  <2>1. PICK f : f = [Top EXCEPT !.split = TRUE]
    OBVIOUS
  <2>2. stack # <<>> /\ stack' = [stack EXCEPT ![Len(stack)] = f]
    BY <1>4, <2>1 DEF FreshProperties, HasTop
  <2>3. /\ f \in FrameType /\ f.kind = Top.kind /\ f.name = Top.name /\ f.generation = Top.generation
        /\ f.defer = Top.defer /\ f.split
    BY <1>inv, <2>1, <2>2, TopFrame DEF FrameType
  <2>4. SameAnchors
    BY <1>inv, <2>2, <2>3, SameAnchorsReplaced
  <2>5. UndeferredUnderTag'
    BY <1>4, <1>inv, <1>hand, <1>tags, <2>2, <2>3, UndeferredReplaced DEF FreshProperties
  <2> QED
    BY <1>4, <1>inv, <1>hand, <2>4, <2>5, FreshValueCopied DEF FreshProperties, registry, history
<1>5. CASE Scalar \/ ValidateAlias \/ Resolve
  <2>1. /\ Expecting /\ UNCHANGED <<stack, entries, generation, placed, pending>> /\ value'.gens = {}
    BY <1>5, <1>leaf DEF Scalar, ValidateAlias, Resolve, CanAlias, registry, history, Node
  <2>2. SameAnchors /\ UndeferredUnderTag'
    BY <1>inv, <1>hand, <1>tags, <2>1, SameAnchorsUnchanged, UndeferredShrinks
  <2> QED
    BY <1>inv, <1>hand, <2>1, <2>2, FreshValueCopied
<1>6. CASE Open \/ ImplicitPair
  <2>1. PICK f \in FrameType : f.kind # "anchor" /\ stack' = Push(f)
    <3>1. CASE Open
      BY <1>inv, <3>1, CollectionFramesTyped DEF Open
    <3>2. CASE ImplicitPair
      BY <1>inv, <3>2, CollectionFramesTyped DEF ImplicitPair
    <3> QED
      BY <1>6, <3>1, <3>2
  <2>2. Expecting /\ UNCHANGED <<value, entries, generation, placed, pending>>
    BY <1>6 DEF Open, ImplicitPair, registry, history
  <2>3. SameAnchors /\ UndeferredUnderTag'
    BY <1>inv, <1>hand, <1>tags, <2>1, <2>2, SameAnchorsPushed, UndeferredGrows
  <2> QED
    BY <1>inv, <1>hand, <2>2, <2>3, FreshValueCopied
<1>7. CASE Close
  <2>1. /\ stack # <<>> /\ Top.kind # "anchor" /\ stack' = Pop
        /\ Expecting /\ UNCHANGED <<entries, generation, placed, pending>> /\ value'.gens = {}
    BY <1>7 DEF Close, HasTop, CollectionKinds, registry, history, Node
  <2>2. SameAnchors /\ UndeferredUnderTag'
    BY <1>inv, <1>hand, <1>tags, <2>1, SameAnchorsPopped, UndeferredShrinks
  <2> QED
    BY <1>inv, <1>hand, <2>1, <2>2, FreshValueCopied
<1>8. CASE DuplicateProperty \/ TooDeep \/ AliasWithProperties \/ ResolveOverLimit \/ UnresolvedAlias
  <2>1. at' = "failed" /\ UNCHANGED <<entries, placed>>
    BY <1>8 DEF DuplicateProperty, TooDeep, AliasWithProperties, ResolveOverLimit, UnresolvedAlias, Fail,
                registry, history
  <2> QED
    BY <1>inv, <2>1, CopiesStay DEF CopiesInv
<1>9. CASE ReturnAnchor \/ ReturnTag
  <2>1. at # "failed"
    BY <1>9 DEF ReturnAnchor, ReturnTag, Returning
  <2> QED
    BY <1>9, <1>inv, <2>1, ReturnAnchorCopied, ReturnTagCopied
<1>10. CASE ReturnItem
  <2>1. /\ at # "failed" /\ stack # <<>> /\ Top.kind \in CollectionKinds /\ Record(value) /\ value' = NoValue
        /\ stack' = [stack EXCEPT ![Len(stack)] = Extended] /\ UNCHANGED <<entries, generation, pending>>
    BY <1>10 DEF ReturnItem, Returning, HasTop, registry
  <2>2. /\ Extended \in FrameType /\ Extended.kind = Top.kind /\ Extended.name = Top.name
        /\ Extended.generation = Top.generation /\ Extended.defer = Top.defer
    BY <1>inv, <2>1, ReturnsTyped
  <2>3. Top.split => Extended.split
    BY <1>inv, <2>1, TopFrame DEF Extended, FrameType
  <2>4. SameAnchors
    BY <1>inv, <2>1, <2>2, SameAnchorsReplaced
  <2>5. UndeferredUnderTag'
    BY <1>inv, <2>1, <2>2, <2>3, UndeferredReplaced DEF CopiesInv
  <2>6. pending = NoPending
    BY <1>inv, <2>1 DEF AnchorsInv, PendingUnderTag, CollectionKinds
  <2> QED
    BY <1>inv, <2>1, <2>4, <2>5, <2>6, PlacedCopied
<1>11. CASE ReturnRoot
  <2>1. /\ at # "failed" /\ stack = <<>> /\ Record(value) /\ value' = NoValue
        /\ UNCHANGED <<stack, entries, generation, pending>>
    BY <1>11 DEF ReturnRoot, Returning, registry
  <2>2. SameAnchors /\ UndeferredUnderTag'
    BY <1>inv, <2>1, SameAnchorsUnchanged, UndeferredShrinks DEF CopiesInv
  <2>3. pending = NoPending
    BY <1>inv, <2>1 DEF AnchorsInv, PendingUnderTag
  <2> QED
    BY <1>inv, <2>1, <2>2, <2>3, PlacedCopied
<1>12. CASE UNCHANGED vars
  <2>1. UNCHANGED <<stack, value, entries, generation, pending, at, placed>>
    BY <1>12 DEF vars, registry, history
  <2>2. AliasKeepsTag'
    BY <2>1, CopiesStay DEF CopiesInv
  <2>3. at # "failed" => UndeferredUnderTag' /\ GensApart' /\ ValueCopied' /\ TagOutside'
    BY <2>1 DEF CopiesInv, UndeferredUnderTag, GensApart, ValueCopied, TagOutside, AnchorAt, HasTop, Top
  <2> QED
    BY <1>inv, <2>1, <2>2, <2>3 DEF CopiesInv
<1> QED
  BY <1>1, <1>2, <1>3, <1>4, <1>5, <1>6, <1>7, <1>8, <1>9, <1>10, <1>11, <1>12 DEF Next, Return

(* An alias copies the anchored node with its tag, in whichever order      *)
(* anchor and tag were written (finish_deferred_anchor), for any number of *)
(* names, properties and documents.                                        *)
THEOREM TagsKept == Spec => []AliasKeepsTag
<1>1. CopiesInv => AliasKeepsTag
  BY DEF CopiesInv
<1> QED
  BY <1>1, CopiesInit, CopiesStep, PTL DEF Spec

-----------------------------------------------------------------------------
(* The size of the tree under construction, over the ways a step changes   *)
(* the stack.                                                              *)
Sizes(frames) == [k \in Nat |-> frames[k].size]
OpenSize == TreeSize[Len(stack)]

LEMMA TreeSizes == Sums(Sizes(stack), TreeSize)
<1>1. PICK s : s = stack
  OBVIOUS
<1>2. PICK f : Sums(Sizes(s), f)
  BY SumsExist
<1> DEFINE sum(g, frames) == g = [n \in Nat |-> IF n = 0 THEN 0 ELSE g[n - 1] + frames[n].size]
<1>3. \A g : Sums(Sizes(s), g) <=> sum(g, s)
  BY DEF Sums, Sizes
<1>4. TreeSize = CHOOSE g : sum(g, stack)
  BY DEF TreeSize
<1> HIDE DEF sum
<1>5. sum(TreeSize, s)
  BY <1>1, <1>2, <1>3, <1>4
<1> QED
  BY <1>1, <1>3, <1>5

LEMMA SizesPrimed == Sums(Sizes(stack'), TreeSize')
<1>1. Sums(Sizes(stack), TreeSize)'
  BY TreeSizes, PTL
<1> QED
  BY <1>1 DEF Sums, Sizes

LEMMA SizesTyped ==
  ASSUME TypeOK
  PROVE  /\ OpenSize \in Nat /\ Len(stack) \in Nat /\ TreeSize[0] = 0
         /\ \A k \in 1 .. Len(stack) : stack[k].size \in Nat
<1>1. Len(stack) \in Nat /\ Len(stack) \in 0 .. Len(stack)
  BY LenProperties DEF TypeOK
<1>2. \A k \in 1 .. Len(stack) : stack[k].size \in Nat
  <2>1. \A k \in 1 .. Len(stack) : stack[k] \in FrameType
    BY ElementOfSeq DEF TypeOK
  <2> QED
    BY <2>1 DEF FrameType
<1>3. \A k \in 1 .. Len(stack) : Sizes(stack)[k] \in Nat
  BY <1>1, <1>2 DEF Sizes
<1>4. \A k \in 0 .. Len(stack) : TreeSize[k] \in Nat
  BY <1>1, <1>3, TreeSizes, SumsAreNumbers
<1>5. TreeSize[0] = 0
  BY TreeSizes DEF Sums
<1> QED
  BY <1>1, <1>2, <1>4, <1>5 DEF OpenSize

LEMMA SizesPushed ==
  ASSUME TypeOK, NEW f \in FrameType, stack' = Push(f)
  PROVE  OpenSize' = OpenSize + f.size
<1>1. PICK n, g, h : n = Len(stack) /\ g = TreeSize /\ h = TreeSize'
  OBVIOUS
<1>2. n \in Nat /\ Len(stack') = n + 1 /\ n + 1 \in Nat /\ stack'[n + 1] = f
  BY <1>1, PushedStack, SizesTyped
<1>3. AgreeTo(Sizes(stack), Sizes(stack'), n)
  BY <1>1, <1>2, PushedStack DEF AgreeTo, Sizes
<1>4. Sums(Sizes(stack), g) /\ Sums(Sizes(stack'), h)
  BY <1>1, TreeSizes, SizesPrimed
<1>5. h[n + 1] = g[n] + Sizes(stack')[n + 1]
  BY <1>2, <1>3, <1>4, SumsPushed
<1> QED
  BY <1>1, <1>2, <1>5 DEF OpenSize, Sizes

(* The topmost frame is the one that a step takes off or rewrites.         *)
LEMMA TopIsLast ==
  ASSUME TypeOK, stack # <<>>
  PROVE  \E n \in Nat : Len(stack) = n + 1 /\ n + 1 \in Nat /\ Top = stack[n + 1] /\ (n + 1) - 1 = n
<1>1. PICK n : n = Len(stack) - 1
  OBVIOUS
<1>2. n \in Nat /\ Len(stack) = n + 1 /\ n + 1 \in Nat /\ (n + 1) - 1 = n
  BY <1>1, TopFrame
<1> QED
  BY <1>2 DEF Top

LEMMA SizesPopped ==
  ASSUME TypeOK, stack # <<>>, stack' = Pop
  PROVE  OpenSize = OpenSize' + Top.size
<1>1. PICK n \in Nat : Len(stack) = n + 1 /\ n + 1 \in Nat /\ Top = stack[n + 1] /\ (n + 1) - 1 = n
  BY TopIsLast
<1>2. Len(stack') = n /\ \A i \in 1 .. n : stack'[i] = stack[i]
  BY <1>1, PoppedStack
<1>3. AgreeTo(Sizes(stack'), Sizes(stack), n)
  BY <1>2 DEF AgreeTo, Sizes
<1>4. PICK g, h : g = TreeSize /\ h = TreeSize'
  OBVIOUS
<1>5. Sums(Sizes(stack), g) /\ Sums(Sizes(stack'), h)
  BY <1>4, TreeSizes, SizesPrimed
<1>6. g[n + 1] = h[n] + Sizes(stack)[n + 1]
  BY <1>3, <1>5, SumsPushed
<1> QED
  BY <1>1, <1>2, <1>4, <1>6 DEF OpenSize, Sizes

LEMMA SizesReplaced ==
  ASSUME TypeOK, stack # <<>>, NEW f \in FrameType, stack' = [stack EXCEPT ![Len(stack)] = f],
         NEW more \in Nat, f.size = Top.size + more
  PROVE  OpenSize' = OpenSize + more
<1>1. PICK n \in Nat : Len(stack) = n + 1 /\ n + 1 \in Nat /\ Top = stack[n + 1] /\ (n + 1) - 1 = n
  BY TopIsLast
<1>2. Len(stack') = n + 1 /\ stack'[n + 1] = f /\ \A i \in 1 .. n : stack'[i] = stack[i]
  BY <1>1, ReplacedTop
<1>3. AgreeTo(Sizes(stack), Sizes(stack'), n)
  BY <1>2 DEF AgreeTo, Sizes
<1>4. PICK g, h : g = TreeSize /\ h = TreeSize'
  OBVIOUS
<1>5. Sums(Sizes(stack), g) /\ Sums(Sizes(stack'), h)
  BY <1>4, TreeSizes, SizesPrimed
<1>6. g[n + 1] = g[n] + Sizes(stack)[n + 1] /\ h[n + 1] = g[n] + Sizes(stack')[n + 1]
  BY <1>3, <1>5, SumsReplaced
<1>7. \A k \in 0 .. n + 1 : g[k] \in Nat
  <2>1. \A k \in 1 .. n + 1 : Sizes(stack)[k] \in Nat
    BY <1>1, SizesTyped DEF Sizes
  <2> QED
    BY <1>1, <1>5, <2>1, SumsAreNumbers
<1>8. g[n] \in Nat /\ Top.size \in Nat
  BY <1>1, <1>7, TopFrame DEF FrameType
<1> QED
  BY <1>1, <1>2, <1>4, <1>6, <1>8 DEF OpenSize, Sizes

(* What the frames and the nodes of a step add to the tree.                *)
LEMMA OwnSizes ==
  /\ \A name, d : AnchorFrame(name, d).size = 0
  /\ \A flow, d : CollectionFrame(flow, d).size = 1
  /\ PairFrame.size = 1 /\ NoValue.size = 0
  /\ \A size, depth : Node(size, depth).size = size
BY DEF AnchorFrame, CollectionFrame, PairFrame, Frame, NoValue, Node

(* What is charged is what the aliases add only because a property that    *)
(* adds no node counts none.                                               *)
AnchorsAddNothing == \A i \in DOMAIN stack : stack[i].kind = "anchor" => stack[i].size = 0

SizeInv == AnchorsInv /\ AnchorsAddNothing /\ ExpansionWithinBudget

LEMMA AddNothingPushed ==
  ASSUME TypeOK, TypeOK', AnchorsAddNothing, NEW f \in FrameType, stack' = Push(f),
         f.kind = "anchor" => f.size = 0
  PROVE  AnchorsAddNothing'
<1>1. /\ DOMAIN stack = 1 .. Len(stack) /\ DOMAIN stack' = 1 .. Len(stack) + 1 /\ Len(stack) \in Nat
      /\ \A i \in 1 .. Len(stack) : stack'[i] = stack[i]
      /\ stack'[Len(stack) + 1] = f
  BY PushedStack, LenProperties DEF TypeOK
<1>2. \A i \in DOMAIN stack' : i \in DOMAIN stack \/ i = Len(stack) + 1
  BY <1>1
<1> QED
  BY <1>1, <1>2 DEF AnchorsAddNothing

LEMMA AddNothingPopped ==
  ASSUME TypeOK, TypeOK', AnchorsAddNothing, stack # <<>>, stack' = Pop
  PROVE  AnchorsAddNothing'
<1>1. /\ DOMAIN stack = 1 .. Len(stack) /\ DOMAIN stack' = 1 .. (Len(stack) - 1) /\ Len(stack) \in Nat
      /\ \A i \in 1 .. (Len(stack) - 1) : stack'[i] = stack[i]
  BY PoppedStack, LenProperties DEF TypeOK
<1>2. \A i \in DOMAIN stack' : i \in DOMAIN stack
  BY <1>1
<1> QED
  BY <1>1, <1>2 DEF AnchorsAddNothing

LEMMA AddNothingReplaced ==
  ASSUME TypeOK, TypeOK', AnchorsAddNothing, stack # <<>>, NEW f \in FrameType,
         stack' = [stack EXCEPT ![Len(stack)] = f], f.kind = "anchor" => f.size = 0
  PROVE  AnchorsAddNothing'
<1>1. /\ DOMAIN stack = 1 .. Len(stack) /\ DOMAIN stack' = DOMAIN stack /\ Len(stack) \in Nat \ {0}
      /\ \A i \in 1 .. (Len(stack) - 1) : stack'[i] = stack[i]
      /\ stack'[Len(stack)] = f
  BY ReplacedTop, LenProperties DEF TypeOK
<1>2. \A i \in DOMAIN stack : i = Len(stack) \/ i \in 1 .. (Len(stack) - 1)
  BY <1>1, LastOfRange
<1> QED
  BY <1>1, <1>2 DEF AnchorsAddNothing

(* The nodes that returns make are as large as what they are made of.      *)
LEMMA ReturnedSizes ==
  ASSUME TypeOK, stack # <<>>
  PROVE  /\ Top.size \in Nat /\ value.size \in Nat
         /\ Anchored.size = value.size /\ Tagged.size = value.size + Top.size
         /\ Extended.size = Top.size + value.size
<1>1. Top \in FrameType /\ value \in NodeType
  BY TopFrame DEF TypeOK
<1>2. Top.size \in Nat /\ value.size \in Nat
  BY <1>1 DEF FrameType, NodeType
<1>3. Anchored.size = value.size /\ Tagged.size = value.size + Top.size
  BY <1>1 DEF NodeType, Anchored, Tagged
<1>4. Extended.size = Top.size + value.size
  BY <1>1 DEF FrameType, Extended
<1> QED
  BY <1>2, <1>3, <1>4

LEMMA SizeInit == Init => SizeInv
<1> SUFFICES ASSUME Init PROVE SizeInv
  OBVIOUS
<1>1. DOMAIN stack = {} /\ at = "between"
  BY DEF Init
<1> QED
  BY <1>1, AnchorsInvInit DEF SizeInv, AnchorsAddNothing, ExpansionWithinBudget

LEMMA SizeStep == SizeInv /\ [Next]_vars => SizeInv'
<1> SUFFICES ASSUME SizeInv, [Next]_vars PROVE SizeInv'
  OBVIOUS
<1>inv. AnchorsInv /\ AnchorsInv' /\ TypeOK /\ TypeOK'
  BY AnchorsInvStep DEF SizeInv, AnchorsInv
<1>nat. /\ OpenSize \in Nat /\ value.size \in Nat /\ made \in Nat /\ expanded \in Nat
        /\ OpenSize' \in Nat /\ value'.size \in Nat
  <2>1. OpenSize \in Nat /\ OpenSize' \in Nat
    <3>1. (TypeOK => OpenSize \in Nat)'
      BY SizesTyped, PTL
    <3> QED
      BY <1>inv, <3>1, SizesTyped
  <2> QED
    BY <1>inv, <2>1 DEF TypeOK, NodeType
<1>none. NoValue.size = 0
  BY OwnSizes
<1>old. mode = "semantic" /\ at = "document" =>
          OpenSize + value.size = made + expanded /\ expanded <= Budget
  BY DEF SizeInv, ExpansionWithinBudget, OpenSize
<1>fits. ASSUME at = "document" => OpenSize' + value'.size + made + expanded =
                                     OpenSize + value.size + made' + expanded',
                mode' = mode, at' = at, mode = "semantic" => expanded' = expanded
         PROVE  ExpansionWithinBudget'
  <2>1. SUFFICES ASSUME mode = "semantic", at = "document"
                 PROVE  OpenSize' + value'.size = made' + expanded' /\ expanded' <= Budget
    BY <1>fits DEF ExpansionWithinBudget, OpenSize
  <2>2. made' \in Nat /\ expanded' \in Nat
    BY <1>inv DEF TypeOK
  <2> QED
    BY <1>nat, <1>old, <1>fits, <2>1, <2>2
<1>same. UNCHANGED stack => AnchorsAddNothing' /\ OpenSize' = OpenSize
  BY DEF SizeInv, AnchorsAddNothing, OpenSize, TreeSize
<1>1. CASE BeginDocument
  <2>1. /\ stack = <<>> /\ value = NoValue /\ UNCHANGED <<stack, value>>
        /\ made' = 0 /\ expanded' = 0
    BY <1>1, <1>inv DEF BeginDocument, ResetDocument, AnchorsInv, BetweenEmpty
  <2>2. Len(stack) = 0
    BY <2>1
  <2>3. OpenSize' = 0
    BY <1>inv, <1>same, <2>1, <2>2, SizesTyped DEF OpenSize
  <2>4. ExpansionWithinBudget'
    BY <1>none, <2>1, <2>3, AnchorsAssumption DEF ExpansionWithinBudget, OpenSize
  <2> QED
    BY <1>inv, <1>same, <2>1, <2>4 DEF SizeInv
<1>2. CASE Anchor
  <2>1. PICK name \in Names, d \in Depths : stack' = Push(AnchorFrame(name, d))
    BY <1>2 DEF Anchor
  <2>2. PICK f \in FrameType : f = AnchorFrame(name, d) /\ f.size = 0
    BY <1>inv, AnchorFrameTyped, OwnSizes
  <2>3. AnchorsAddNothing' /\ OpenSize' = OpenSize
    BY <1>inv, <1>nat, <2>1, <2>2, AddNothingPushed, SizesPushed DEF SizeInv
  <2>4. UNCHANGED <<mode, at, value, made, expanded>>
    BY <1>2 DEF Anchor, Begin
  <2>5. ExpansionWithinBudget'
    BY <1>nat, <1>fits, <2>3, <2>4
  <2> QED
    BY <1>inv, <2>3, <2>5 DEF SizeInv
<1>3. CASE Tag
  <2>1. PICK d \in Depths, wraps \in {0, 1} : stack' = Push(TagFrame(wraps, d)) /\ made' = made + wraps
    BY <1>3 DEF Tag
  <2>2. PICK f \in FrameType : f = TagFrame(wraps, d) /\ f.kind = "tag" /\ f.size = wraps
    BY <1>inv, TagFrameTyped
  <2>3. AnchorsAddNothing' /\ OpenSize' = OpenSize + wraps
    BY <1>inv, <2>1, <2>2, AddNothingPushed, SizesPushed DEF SizeInv
  <2>4. UNCHANGED <<mode, at, value, expanded>>
    BY <1>3 DEF Tag, registry
  <2>5. ExpansionWithinBudget'
    BY <1>nat, <1>fits, <2>1, <2>3, <2>4
  <2> QED
    BY <1>inv, <2>3, <2>5 DEF SizeInv
<1>4. CASE FreshProperties
  <2>1. PICK f : f = [Top EXCEPT !.split = TRUE]
    OBVIOUS
  <2>2. stack # <<>> /\ stack' = [stack EXCEPT ![Len(stack)] = f] /\ UNCHANGED <<mode, at, value, made, expanded>>
    BY <1>4, <2>1 DEF FreshProperties, HasTop, registry, history
  <2>3. f \in FrameType /\ f.kind = Top.kind /\ f.size = Top.size /\ Top.size \in Nat
    BY <1>inv, <2>1, <2>2, TopFrame DEF FrameType
  <2>4. f.kind = "anchor" => f.size = 0
    BY <1>inv, <2>2, <2>3, TopFrame, LenProperties DEF SizeInv, AnchorsAddNothing, Top, TypeOK
  <2>5. AnchorsAddNothing'
    BY <1>inv, <2>2, <2>3, <2>4, AddNothingReplaced DEF SizeInv
  <2>6. 0 \in Nat /\ f.size = Top.size + 0 /\ OpenSize + 0 = OpenSize
    BY <1>nat, <2>3
  <2>7. OpenSize' = OpenSize
    BY <1>inv, <2>2, <2>3, <2>6, SizesReplaced
  <2>8. ExpansionWithinBudget'
    BY <1>nat, <1>fits, <2>2, <2>7
  <2> QED
    BY <1>inv, <2>5, <2>8 DEF SizeInv
<1>5. CASE Scalar \/ ValidateAlias
  <2>1. value = NoValue /\ value'.size = 1 /\ made' = made + 1 /\ UNCHANGED <<mode, at, stack, expanded>>
    BY <1>5, OwnSizes DEF Scalar, ValidateAlias, CanAlias, Expecting, Leaf, Node, registry
  <2>2. ExpansionWithinBudget'
    BY <1>nat, <1>none, <1>fits, <1>same, <2>1, SMTT(30)
  <2> QED
    BY <1>inv, <1>same, <2>1, <2>2 DEF SizeInv
<1>6. CASE Open \/ ImplicitPair
  <2>1. PICK f \in FrameType : f.kind # "anchor" /\ f.size = 1 /\ stack' = Push(f)
    <3>1. CASE Open
      BY <1>inv, <3>1, CollectionFramesTyped, OwnSizes DEF Open
    <3>2. CASE ImplicitPair
      BY <1>inv, <3>2, CollectionFramesTyped, OwnSizes DEF ImplicitPair
    <3> QED
      BY <1>6, <3>1, <3>2
  <2>2. made' = made + 1 /\ UNCHANGED <<mode, at, value, expanded>>
    BY <1>6 DEF Open, ImplicitPair, registry
  <2>3. AnchorsAddNothing' /\ OpenSize' = OpenSize + 1
    BY <1>inv, <2>1, AddNothingPushed, SizesPushed DEF SizeInv
  <2>4. ExpansionWithinBudget'
    BY <1>nat, <1>fits, <2>2, <2>3
  <2> QED
    BY <1>inv, <2>3, <2>4 DEF SizeInv
<1>7. CASE Close
  <2>1. /\ stack # <<>> /\ stack' = Pop /\ value = NoValue /\ value'.size = Top.size
        /\ UNCHANGED <<mode, at, made, expanded>>
    BY <1>7 DEF Close, Expecting, HasTop, Node, registry, history
  <2>2. AnchorsAddNothing' /\ OpenSize = OpenSize' + Top.size
    BY <1>inv, <2>1, AddNothingPopped, SizesPopped DEF SizeInv
  <2>3. ExpansionWithinBudget'
    BY <1>nat, <1>none, <1>fits, <2>1, <2>2
  <2> QED
    BY <1>inv, <2>2, <2>3 DEF SizeInv
<1>8. CASE Resolve
  <2>1. PICK name \in Names :
          /\ value = NoValue /\ ~TooManyNodes(entries[name].node) /\ Expand(entries[name].node)
          /\ value' = Node(entries[name].node.size, entries[name].node.depth)
          /\ UNCHANGED <<mode, at, stack, made>>
    BY <1>8 DEF Resolve, CanAlias, Expecting, history
  <2>2. PICK size : size = entries[name].node.size
    OBVIOUS
  <2>3. value'.size = size /\ expanded' = expanded + size /\ ~(expanded + size > Budget)
    BY <2>1, <2>2, OwnSizes DEF Expand, TooManyNodes
  <2>4. size \in Nat /\ Budget \in Nat
    BY <1>nat, <2>3, AnchorsAssumption
  <2>5. ExpansionWithinBudget'
    <3>1. SUFFICES ASSUME mode = "semantic", at = "document"
                   PROVE  OpenSize' + value'.size = made' + expanded' /\ expanded' <= Budget
      BY <2>1 DEF ExpansionWithinBudget, OpenSize
    <3> QED
      BY <1>nat, <1>none, <1>old, <1>same, <2>1, <2>3, <2>4, <3>1
  <2> QED
    BY <1>inv, <1>same, <2>1, <2>5 DEF SizeInv
<1>9. CASE DuplicateProperty \/ TooDeep \/ AliasWithProperties \/ ResolveOverLimit \/ UnresolvedAlias
  <2>1. at' = "failed" /\ UNCHANGED stack
    BY <1>9 DEF DuplicateProperty, TooDeep, AliasWithProperties, ResolveOverLimit, UnresolvedAlias, Fail
  <2> QED
    BY <1>inv, <1>same, <2>1 DEF SizeInv, ExpansionWithinBudget
<1>10. CASE ReturnAnchor \/ ReturnTag
  <2>1. stack # <<>> /\ stack' = Pop /\ UNCHANGED <<mode, at, made, expanded>>
    BY <1>10 DEF ReturnAnchor, ReturnTag, HasTop, history
  <2>2. AnchorsAddNothing' /\ OpenSize = OpenSize' + Top.size
    BY <1>inv, <2>1, AddNothingPopped, SizesPopped DEF SizeInv
  <2>3. value'.size = value.size + Top.size /\ Top.size \in Nat
    <3>1. CASE ReturnAnchor
      <4>1. Top.size = 0
        <5>1. Len(stack) \in DOMAIN stack /\ Top.kind = "anchor"
          BY <1>inv, <2>1, <3>1, TopFrame, LenProperties DEF ReturnAnchor, HasTop, TypeOK
        <5> QED
          BY <5>1 DEF SizeInv, AnchorsAddNothing, Top
      <4> QED
        BY <1>inv, <1>nat, <2>1, <3>1, <4>1, ReturnedSizes DEF ReturnAnchor
    <3>2. CASE ReturnTag
      BY <1>inv, <2>1, <3>2, ReturnedSizes DEF ReturnTag
    <3> QED
      BY <1>10, <3>1, <3>2
  <2>4. ExpansionWithinBudget'
    BY <1>nat, <1>fits, <2>1, <2>2, <2>3, SMTT(30)
  <2> QED
    BY <1>inv, <2>2, <2>4 DEF SizeInv
<1>11. CASE ReturnItem
  <2>1. /\ stack # <<>> /\ Top.kind # "anchor" /\ stack' = [stack EXCEPT ![Len(stack)] = Extended]
        /\ value' = NoValue /\ UNCHANGED <<mode, at, made, expanded>>
    BY <1>11 DEF ReturnItem, HasTop, CollectionKinds, registry
  <2>2. Extended \in FrameType /\ Extended.kind = Top.kind /\ Extended.size = Top.size + value.size
    BY <1>inv, <2>1, ReturnsTyped, ReturnedSizes
  <2>3. AnchorsAddNothing' /\ OpenSize' = OpenSize + value.size
    BY <1>inv, <1>nat, <2>1, <2>2, AddNothingReplaced, SizesReplaced DEF SizeInv
  <2>4. ExpansionWithinBudget'
    BY <1>nat, <1>none, <1>fits, <2>1, <2>3
  <2> QED
    BY <1>inv, <2>3, <2>4 DEF SizeInv
<1>12. CASE ReturnRoot
  <2>1. at' = "between" /\ UNCHANGED stack
    BY <1>12 DEF ReturnRoot
  <2> QED
    BY <1>inv, <1>same, <2>1 DEF SizeInv, ExpansionWithinBudget
<1>13. CASE UNCHANGED vars
  <2>1. UNCHANGED <<mode, at, stack, value, made, expanded>>
    BY <1>13 DEF vars, registry, history
  <2>2. ExpansionWithinBudget'
    BY <1>nat, <1>fits, <1>same, <2>1
  <2> QED
    BY <1>inv, <1>same, <2>1, <2>2 DEF SizeInv
<1> QED
  BY <1>1, <1>2, <1>3, <1>4, <1>5, <1>6, <1>7, <1>8, <1>9, <1>10, <1>11, <1>12, <1>13 DEF Next, Return

(* What is charged against the alias budget is exactly what the aliases    *)
(* added to the tree (AnchorRegistry::resolve), and it stays within the    *)
(* budget, for every budget, nesting limit and number of tokens.           *)
THEOREM ChargedExactly == Spec => []ExpansionWithinBudget
<1>1. SizeInv => ExpansionWithinBudget
  BY DEF SizeInv
<1> QED
  BY <1>1, SizeInit, SizeStep, PTL DEF Spec

=============================================================================
