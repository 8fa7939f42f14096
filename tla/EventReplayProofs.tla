-------------------------- MODULE EventReplayProofs --------------------------
(***************************************************************************)
(* Theorems about EventReplay: for every document, budget and nesting      *)
(* limit, and whatever the visitors do.                                    *)
(***************************************************************************)
EXTENDS EventReplay, SequenceTheorems, SumTheorems

(* Nothing has happened before the document is entered.                    *)
FreshAtStart == status = "start" => pos = 1 /\ inject = <<>> /\ replayed = 0 /\ open = <<>>

(* What was taken from copies, and what they still hold, has been charged. *)
(* The difference are the aliases in copies: charged and never taken.      *)
ReplaysCharged == served + StillInjected <= replayed /\ replayed <= Budget

ReplayInv == TypeOK /\ StackSane /\ FreshAtStart /\ ReplaysCharged

-----------------------------------------------------------------------------
(* Sequences taken apart at their end.                                     *)
LEMMA LastAndFront ==
  ASSUME NEW S, NEW s \in Seq(S), s # <<>>
  PROVE  /\ Last(s) \in S /\ Front(s) \in Seq(S)
         /\ \E n \in Nat : /\ Len(s) = n + 1 /\ n + 1 \in Nat /\ Len(Front(s)) = n
                           /\ Last(s) = s[n + 1]
                           /\ \A i \in 1 .. n : Front(s)[i] = s[i] /\ i \in 1 .. n + 1
<1>1. PICK n : n = Len(s) - 1
  OBVIOUS
<1>2. n \in Nat /\ Len(s) = n + 1 /\ n + 1 \in Nat /\ n + 1 \in 1 .. Len(s) /\ \A i \in 1 .. n : i \in 1 .. Len(s)
  BY <1>1, EmptySeq
<1>3. \A i \in 1 .. n : s[i] \in S
  BY <1>2, ElementOfSeq
<1>4. /\ SubSeq(s, 1, n) \in Seq(S)
      /\ Len(SubSeq(s, 1, n)) = (IF 1 <= n THEN n - 1 + 1 ELSE 0)
      /\ \A i \in 1 .. n - 1 + 1 : SubSeq(s, 1, n)[i] = s[1 + i - 1]
  BY <1>2, <1>3, SubSeqProperties
<1>5. \A m \in Nat : /\ (IF 1 <= m THEN m - 1 + 1 ELSE 0) = m
                     /\ \A i \in 1 .. m : i \in 1 .. m - 1 + 1 /\ 1 + i - 1 = i
  OBVIOUS
<1>6. Len(SubSeq(s, 1, n)) = n /\ \A i \in 1 .. n : SubSeq(s, 1, n)[i] = s[i]
  BY <1>2, <1>4, <1>5
<1>7. Front(s) = SubSeq(s, 1, n) /\ Last(s) = s[n + 1]
  BY <1>1, <1>2 DEF Front, Last
<1> QED
  BY <1>2, <1>4, <1>6, <1>7, ElementOfSeq

-----------------------------------------------------------------------------
(* The stack of replays.                                                   *)
Held(frames)  == [k \in Nat |-> frames[k].end - frames[k].pos]
Total(frames) == SumOf(Held(frames), Len(frames))

LEMMA TotalIsNumber ==
  ASSUME NEW frames \in Seq(ReplayFrames)
  PROVE  Total(frames) \in Nat /\ (frames = <<>> => Total(frames) = 0)
<1>1. Len(frames) \in Nat /\ \A k \in 1 .. Len(frames) : frames[k] \in ReplayFrames /\ k \in Nat
  BY LenProperties, ElementOfSeq
<1>2. \A k \in 1 .. Len(frames) : Held(frames)[k] \in Nat
  BY <1>1, SMTT(30) DEF Held, ReplayFrames
<1>3. frames = <<>> => Len(frames) = 0
  OBVIOUS
<1> QED
  BY <1>1, <1>2, <1>3, SumOfIsNumber, SumOfNone DEF Total

LEMMA TotalAppended ==
  ASSUME NEW frames \in Seq(ReplayFrames), NEW f \in ReplayFrames
  PROVE  /\ Append(frames, f) \in Seq(ReplayFrames)
         /\ Len(Append(frames, f)) = Len(frames) + 1 /\ Len(frames) \in Nat
         /\ \A i \in 1 .. Len(frames) : Append(frames, f)[i] = frames[i]
         /\ Append(frames, f)[Len(frames) + 1] = f
         /\ Total(Append(frames, f)) = Total(frames) + (f.end - f.pos)
<1>1. PICK longer, n : longer = Append(frames, f) /\ n = Len(frames)
  OBVIOUS
<1>2. /\ longer \in Seq(ReplayFrames) /\ n \in Nat /\ n + 1 \in Nat /\ Len(longer) = n + 1
      /\ \A i \in 1 .. n : longer[i] = frames[i]
      /\ longer[n + 1] = f
  BY <1>1, AppendProperties, LenProperties
<1>3. AgreeTo(Held(longer), Held(frames), n)
  BY <1>2 DEF AgreeTo, Held
<1>4. SumOf(Held(longer), n + 1) = SumOf(Held(frames), n) + Held(longer)[n + 1]
  BY <1>2, <1>3, SumOfNext, SumOfAgrees
<1> QED
  BY <1>1, <1>2, <1>4 DEF Total, Held

(* A frame that is read loses one event, and leaves with its last one.     *)
LEMMA PoppedFrames ==
  ASSUME NEW frames \in Seq(ReplayFrames), frames # <<>>
  PROVE  /\ Popped(frames) \in Seq(ReplayFrames)
         /\ \A i \in 1 .. Len(Popped(frames)) : i \in 1 .. Len(frames) /\ Popped(frames)[i].name = frames[i].name
         /\ Total(frames) = Total(Popped(frames)) + 1
<1>1. PICK n \in Nat : /\ Len(frames) = n + 1 /\ n + 1 \in Nat /\ Len(Front(frames)) = n
                       /\ Last(frames) = frames[n + 1]
                       /\ \A i \in 1 .. n : Front(frames)[i] = frames[i] /\ i \in 1 .. n + 1
  BY LastAndFront
<1>2. PICK top, below : top = Last(frames) /\ below = Front(frames)
  OBVIOUS
<1>3. top \in ReplayFrames /\ below \in Seq(ReplayFrames)
  BY <1>2, LastAndFront
<1>4. top.pos \in Nat \ {0} /\ top.end \in Nat /\ top.pos < top.end
  BY <1>3 DEF ReplayFrames
<1>5. Total(frames) = Total(below) + (top.end - top.pos)
  <2>1. AgreeTo(Held(below), Held(frames), n)
    BY <1>1, <1>2 DEF AgreeTo, Held
  <2>2. SumOf(Held(frames), n + 1) = SumOf(Held(below), n) + Held(frames)[n + 1]
    BY <2>1, SumOfNext, SumOfAgrees
  <2> QED
    BY <1>1, <1>2, <2>2 DEF Total, Held
<1>6. CASE top.pos + 1 = top.end
  <2>1. Popped(frames) = below /\ top.end - top.pos = 1
    BY <1>2, <1>4, <1>6 DEF Popped
  <2> QED
    BY <1>1, <1>2, <1>3, <1>5, <2>1
<1>7. CASE top.pos + 1 # top.end
  <2>1. PICK next : next = [top EXCEPT !.pos = @ + 1]
    OBVIOUS
  <2>2. next \in ReplayFrames /\ next.name = top.name /\ top.end - top.pos = (next.end - next.pos) + 1
    <3>1. /\ top \in [name : Names, events : Seq(AllEvents), pos : Nat \ {0}, end : Nat]
          /\ top.end = Len(top.events) + 1
      BY <1>3 DEF ReplayFrames
    <3>2. top.pos + 1 \in Nat \ {0} /\ top.pos + 1 < top.end
      BY <1>4, <1>7
    <3>3. /\ next \in [name : Names, events : Seq(AllEvents), pos : Nat \ {0}, end : Nat]
          /\ next.pos = top.pos + 1 /\ next.end = top.end /\ next.events = top.events /\ next.name = top.name
      BY <2>1, <3>1, <3>2
    <3>4. top.end - top.pos = (top.end - (top.pos + 1)) + 1
      BY <1>4
    <3> QED
      BY <3>1, <3>2, <3>3, <3>4 DEF ReplayFrames
  <2>3. Popped(frames) = Append(below, next)
    BY <1>2, <1>7, <2>1 DEF Popped
  <2>4. /\ Append(below, next) \in Seq(ReplayFrames) /\ Len(Append(below, next)) = n + 1
        /\ \A i \in 1 .. n : Append(below, next)[i] = frames[i]
        /\ Append(below, next)[n + 1] = next
        /\ Total(Append(below, next)) = Total(below) + (next.end - next.pos)
    BY <1>1, <1>2, <1>3, <2>2, TotalAppended
  <2>5. \A i \in 1 .. n + 1 : i \in 1 .. n \/ i = n + 1
    OBVIOUS
  <2>6. Total(below) \in Nat
    BY <1>3, TotalIsNumber
  <2>7. next.pos \in Nat /\ next.end \in Nat
    BY <2>2 DEF ReplayFrames
  <2> QED
    BY <1>1, <1>2, <1>5, <2>2, <2>3, <2>4, <2>5, <2>6, <2>7
<1> QED
  BY <1>6, <1>7

LEMMA StillInjectedIsTotal == TypeOK => StillInjected = Total(inject)
<1> SUFFICES ASSUME TypeOK PROVE StillInjected = Total(inject)
  OBVIOUS
<1>1. PICK frames, n : frames = inject /\ n = Len(inject)
  OBVIOUS
<1> DEFINE sum(g, fs) == g = [k \in Nat |-> IF k = 0 THEN 0 ELSE g[k - 1] + (fs[k].end - fs[k].pos)]
<1>2. PICK f : Sums(Held(frames), f)
  BY SumsExist
<1>3. \A g : Sums(Held(frames), g) <=> sum(g, frames)
  BY DEF Sums, Held
<1>4. HeldUpTo = CHOOSE g : sum(g, inject)
  BY DEF HeldUpTo
<1> HIDE DEF sum
<1>5. Sums(Held(inject), HeldUpTo)
  BY <1>1, <1>2, <1>3, <1>4
<1>6. n \in Nat
  BY <1>1, LenProperties DEF TypeOK
<1>7. HeldUpTo[n] = SumOf(Held(inject), n)
  BY <1>5, <1>6, SumOfEquals
<1> QED
  BY <1>1, <1>7 DEF StillInjected, Total

LEMMA StillInjectedPrimed == TypeOK' => StillInjected' = Total(inject')
<1>1. (TypeOK => StillInjected = Total(inject))'
  BY StillInjectedIsTotal, PTL
<1> QED
  BY <1>1 DEF Total, Held

-----------------------------------------------------------------------------
(* The cursor stands on an event of the document or of a copy.             *)
LEMMA StreamTyped ==
  ASSUME TypeOK
  PROVE  /\ stream \in Seq(AllEvents) /\ Len(stream) \in Nat /\ DOMAIN stream = 1 .. Len(stream)
         /\ \A p \in DOMAIN stream : stream[p] \in AllEvents
<1>1. stream \in Seq(Range(stream)) /\ Range(stream) \subseteq AllEvents
  BY StreamsAssumption DEF TypeOK, AllEvents
<1>2. stream \in Seq(AllEvents)
  BY <1>1, SeqMonotonic
<1> QED
  BY <1>2, LenProperties, ElementOfSeq

LEMMA AheadTyped ==
  ASSUME TypeOK, ~Ended
  PROVE  /\ Ahead \in AllEvents
         /\ ~Injected => pos \in 1 .. Len(stream) /\ Ahead = stream[pos]
<1>1. CASE Injected
  <2>1. PICK top : top = Last(inject) /\ top \in ReplayFrames
    BY <1>1, LastAndFront DEF Injected, TypeOK
  <2>2. /\ top.events \in Seq(AllEvents) /\ top.pos \in Nat \ {0} /\ top.pos < top.end
        /\ top.end = Len(top.events) + 1 /\ Len(top.events) \in Nat
    BY <2>1, LenProperties DEF ReplayFrames
  <2>3. top.pos \in 1 .. Len(top.events)
    BY <2>2
  <2>4. top.events[top.pos] \in AllEvents
    BY <2>2, <2>3, ElementOfSeq
  <2> QED
    BY <1>1, <2>1, <2>4 DEF Ahead, Here, At
<1>2. CASE ~Injected
  <2>1. pos \in 1 .. Len(stream)
    BY <1>2, StreamTyped DEF Ended, TypeOK
  <2> QED
    BY <1>2, <2>1, StreamTyped DEF Ahead, Here, At
<1> QED
  BY <1>1, <1>2

(* An anchor is recorded with the events of its node.                      *)
LEMMA RecordedTyped ==
  ASSUME TypeOK, pos \in 1 .. Len(stream)
  PROVE  LET table == Recorded(anchors, stream, pos) IN
         /\ DOMAIN table \subseteq Names
         /\ \A n \in DOMAIN table : table[n] \in Seq(AllEvents) \ {<<>>}
<1>1. CASE stream[pos].name = NoName \/ stream[pos].kind = "alias"
  BY <1>1 DEF Recorded, TypeOK
<1>2. CASE ~(stream[pos].name = NoName \/ stream[pos].kind = "alias")
  <2>1. PICK node, name, end : /\ node = Subtree(stream, pos) /\ name = stream[pos].name
                               /\ end = NodeEnd(stream, pos)
    OBVIOUS
  <2>2. name \in Names
    BY <2>1, StreamTyped DEF Names
  <2>3. end \in (pos + 1) .. (Len(stream) + 1) /\ pos \in Nat \ {0} /\ Len(stream) \in Nat
    BY <1>2, <2>1, StreamTyped, StreamsAssumption DEF TypeOK
  <2>4. node \in Seq(AllEvents) /\ node # <<>>
    <3>1. PICK m \in Nat : m = end - 1
      BY <2>3
    <3>2. /\ pos \in 1 .. Len(stream) + 1 /\ m \in (pos - 1) .. Len(stream) /\ pos <= m
          /\ \A i \in pos .. m : i \in 1 .. Len(stream)
      BY <2>3, <3>1
    <3>3. \A i \in pos .. m : stream[i] \in AllEvents
      BY <3>2, StreamTyped
    <3>4. SubSeq(stream, pos, m) \in Seq(AllEvents) /\ Len(SubSeq(stream, pos, m)) = m - pos + 1
      BY <2>3, <3>1, <3>2, <3>3, SubSeqProperties
    <3>5. Len(SubSeq(stream, pos, m)) # 0
      BY <2>3, <3>1, <3>2, <3>4
    <3>6. node = SubSeq(stream, pos, m)
      BY <2>1, <3>1 DEF Subtree
    <3> QED
      BY <3>4, <3>5, <3>6, EmptySeq
  <2>5. Recorded(anchors, stream, pos) =
          [n \in DOMAIN anchors \union {name} |-> IF n = name THEN node ELSE anchors[n]]
    BY <1>2, <2>1 DEF Recorded
  <2> QED
    BY <2>2, <2>4, <2>5 DEF TypeOK
<1> QED
  BY <1>1, <1>2

-----------------------------------------------------------------------------
(* One event is taken: what the source and the copies still hold is one    *)
(* event less.                                                             *)
CursorTyped ==
  /\ pos \in 1 .. (Len(stream) + 1)
  /\ DOMAIN anchors \subseteq Names
  /\ \A n \in DOMAIN anchors : anchors[n] \in Seq(AllEvents) \ {<<>>}
  /\ inject \in Seq(ReplayFrames)

ReplaysApart == \A i, j \in DOMAIN inject : inject[i].name = inject[j].name => i = j

LEMMA PoppedApart ==
  ASSUME NEW frames \in Seq(ReplayFrames), frames # <<>>,
         \A i, j \in DOMAIN frames : frames[i].name = frames[j].name => i = j
  PROVE  \A i, j \in DOMAIN Popped(frames) : Popped(frames)[i].name = Popped(frames)[j].name => i = j
<1>1. PICK rest : rest = Popped(frames)
  OBVIOUS
<1>2. /\ rest \in Seq(ReplayFrames)
      /\ \A i \in 1 .. Len(rest) : i \in 1 .. Len(frames) /\ rest[i].name = frames[i].name
  BY <1>1, PoppedFrames
<1>3. DOMAIN rest = 1 .. Len(rest) /\ DOMAIN frames = 1 .. Len(frames)
  BY <1>2, LenProperties
<1> QED
  BY <1>1, <1>2, <1>3

LEMMA EventTaken ==
  ASSUME TypeOK, ReplaysApart, ~Ended, Advanced, stream' = stream
  PROVE  /\ CursorTyped' /\ ReplaysApart' /\ served' \in Nat
         /\ \/ pos' = pos + 1 /\ Total(inject') = Total(inject) /\ served' = served
            \/ pos' = pos /\ Total(inject) = Total(inject') + 1 /\ served' = served + 1
<1>1. CASE Injected
  <2>1. inject \in Seq(ReplayFrames) /\ inject # <<>>
    BY <1>1 DEF Injected, TypeOK
  <2>2. /\ pos' = pos /\ anchors' = anchors /\ served' = served + 1 /\ inject' = Popped(inject)
    BY <1>1 DEF Advanced
  <2>3. inject' \in Seq(ReplayFrames) /\ Total(inject) = Total(inject') + 1
    BY <2>1, <2>2, PoppedFrames
  <2>4. ReplaysApart'
    BY <2>1, <2>2, PoppedApart DEF ReplaysApart
  <2> QED
    BY <2>2, <2>3, <2>4 DEF CursorTyped, TypeOK
<1>2. CASE ~Injected
  <2>1. pos' = pos + 1 /\ anchors' = Recorded(anchors, stream, pos) /\ UNCHANGED <<served, inject>>
    BY <1>2 DEF Advanced
  <2>2. pos \in 1 .. Len(stream) /\ pos' \in 1 .. (Len(stream') + 1)
    BY <1>2, <2>1, AheadTyped, StreamTyped
  <2>3. DOMAIN anchors' \subseteq Names /\ \A n \in DOMAIN anchors' : anchors'[n] \in Seq(AllEvents) \ {<<>>}
    BY <2>1, <2>2, RecordedTyped
  <2> QED
    BY <2>1, <2>2, <2>3 DEF CursorTyped, TypeOK, ReplaysApart
<1> QED
  BY <1>1, <1>2

(* An alias is passed, and the events of its anchor go first.              *)
AliasReplaced ==
  LET below == IF Injected THEN Popped(inject) ELSE inject IN
  /\ Reading /\ ~Ended
  /\ Ahead.name \in DOMAIN anchors
  /\ \A i \in DOMAIN below : below[i].name # Ahead.name
  /\ replayed' = replayed + Len(anchors[Ahead.name])
  /\ replayed + Len(anchors[Ahead.name]) <= Budget
  /\ inject' = Append(below, Replay(Ahead.name, anchors[Ahead.name]))
  /\ pos' = IF Injected THEN pos ELSE pos + 1
  /\ UNCHANGED <<stream, anchors, depth, open, served, left, status>>

LEMMA AliasTaken ==
  ASSUME TypeOK, ReplaysApart, AliasReplaced
  PROVE  /\ CursorTyped' /\ ReplaysApart'
         /\ \E n \in Nat :
              /\ replayed' = replayed + n /\ replayed' <= Budget
              /\ \/ pos' = pos + 1 /\ Total(inject') = Total(inject) + n
                 \/ pos' = pos /\ Total(inject) + n = Total(inject') + 1
<1>1. PICK below : below = IF Injected THEN Popped(inject) ELSE inject
  OBVIOUS
<1>2. PICK name, target : name = Ahead.name /\ target = anchors[name]
  OBVIOUS
<1>3. name \in Names /\ target \in Seq(AllEvents) /\ target # <<>> /\ name \in DOMAIN anchors
  BY <1>2 DEF AliasReplaced, TypeOK
<1>4. PICK n \in Nat \ {0} : n = Len(target)
  BY <1>3, EmptySeq
<1>5. PICK f : f = Replay(name, target)
  OBVIOUS
<1>6. f \in ReplayFrames /\ f.end - f.pos = n /\ f.name = name
  <2>1. f = [name |-> name, events |-> target, pos |-> 1, end |-> n + 1]
    BY <1>4, <1>5 DEF Replay, Frame
  <2>2. n + 1 \in Nat /\ 1 \in Nat \ {0} /\ 1 < n + 1 /\ (n + 1) - 1 = n
    BY <1>4
  <2> QED
    BY <1>3, <1>4, <2>1, <2>2 DEF ReplayFrames
<1>7. /\ below \in Seq(ReplayFrames)
      /\ \A i, j \in DOMAIN below : below[i].name = below[j].name => i = j
      /\ Injected => Total(inject) = Total(below) + 1
      /\ ~Injected => below = inject
  BY <1>1, PoppedFrames, PoppedApart DEF TypeOK, ReplaysApart, Injected
<1>8. inject' = Append(below, f) /\ \A i \in DOMAIN below : below[i].name # name
  BY <1>1, <1>2, <1>5 DEF AliasReplaced
<1>9. PICK after : after = Append(below, f)
  OBVIOUS
<1>10. /\ after \in Seq(ReplayFrames)
       /\ Len(after) = Len(below) + 1 /\ Len(below) \in Nat
       /\ \A i \in 1 .. Len(below) : after[i] = below[i]
       /\ after[Len(below) + 1] = f
       /\ Total(after) = Total(below) + n
  BY <1>6, <1>7, <1>9, TotalAppended
<1>11. ReplaysApart'
  <2>1. DOMAIN after = 1 .. Len(below) + 1 /\ DOMAIN below = 1 .. Len(below)
    BY <1>7, <1>10, LenProperties
  <2>2. \A i \in DOMAIN after : i \in DOMAIN below \/ i = Len(below) + 1
    BY <1>10, <2>1
  <2>3. \A i, j \in DOMAIN after : after[i].name = after[j].name => i = j
    BY <1>6, <1>7, <1>8, <1>10, <2>1, <2>2
  <2> QED
    BY <1>8, <1>9, <2>3 DEF ReplaysApart
<1>12. CursorTyped'
  <2>1. pos' \in 1 .. (Len(stream') + 1)
    <3>1. CASE Injected
      BY <3>1 DEF AliasReplaced, TypeOK
    <3>2. CASE ~Injected
      <4>1. pos \in 1 .. Len(stream) /\ Len(stream) \in Nat /\ pos' = pos + 1 /\ stream' = stream
        BY <3>2, AheadTyped, StreamTyped DEF AliasReplaced
      <4> QED
        BY <4>1
    <3> QED
      BY <3>1, <3>2
  <2>2. inject' \in Seq(ReplayFrames) /\ anchors' = anchors
    BY <1>8, <1>9, <1>10 DEF AliasReplaced
  <2> QED
    BY <2>1, <2>2 DEF CursorTyped, TypeOK
<1>13. replayed' = replayed + n /\ replayed' <= Budget
  BY <1>2, <1>4 DEF AliasReplaced
<1>14. Total(inject') = Total(below) + n /\ Total(below) \in Nat /\ n \in Nat
  BY <1>4, <1>7, <1>8, <1>9, <1>10, TotalIsNumber
<1>15. CASE Injected
  <2>1. pos' = pos /\ Total(inject) + n = Total(inject') + 1
    BY <1>7, <1>14, <1>15 DEF AliasReplaced
  <2> QED
    BY <1>11, <1>12, <1>13, <1>14, <2>1
<1>16. CASE ~Injected
  <2>1. pos' = pos + 1 /\ Total(inject') = Total(inject) + n
    BY <1>7, <1>14, <1>16 DEF AliasReplaced
  <2> QED
    BY <1>11, <1>12, <1>13, <1>14, <2>1
<1> QED
  BY <1>15, <1>16

-----------------------------------------------------------------------------
(* What a step of the reading is: it enters the document, takes an event,  *)
(* replaces an alias, asks for a key, leaves a tuple or stops.             *)
Enters ==
  /\ status = "start" /\ status' = "read"
  /\ pos' = pos /\ anchors' = <<>> /\ inject' = <<>> /\ replayed' = 0 /\ depth' = 0
  /\ UNCHANGED <<stream, open, served, left>>

Takes ==
  /\ Reading /\ ~Ended /\ Advanced
  /\ open' \in Seq(OpenCollections) /\ depth' = Len(open') /\ depth' <= MaxDepth
  /\ Len(open') <= Len(open) + 1
  /\ UNCHANGED <<stream, replayed, left, status>>

Asks ==
  /\ Reading /\ open # <<>>
  /\ ~Last(open).asked /\ Last(open).mode = "visit"
  /\ open' = Append(Front(open), [Last(open) EXCEPT !.asked = TRUE])
  /\ UNCHANGED <<stream, cursor, depth, served, left, status>>

Leaves ==
  /\ Reading /\ open # <<>> /\ Last(open).mode = "tuple"
  /\ open' = Front(open) /\ depth' = depth - 1 /\ left' = TRUE
  /\ UNCHANGED <<stream, cursor, served, status>>

Stops ==
  /\ Reading /\ status' \in {"done", "failed"}
  /\ UNCHANGED <<stream, cursor, depth, open, served, left>>

Rests == UNCHANGED vars

LEMMA OneTakenTyped ==
  ASSUME TypeOK
  PROVE  OneTaken(open) \in Seq(OpenCollections) /\ Len(OneTaken(open)) = Len(open) /\ Len(open) \in Nat
<1>1. CASE open = <<>>
  BY <1>1, EmptySeq DEF OneTaken, TypeOK
<1>2. CASE open # <<>>
  <2>1. PICK top, below : top = Last(open) /\ below = Front(open)
    OBVIOUS
  <2>2. /\ top \in OpenCollections /\ below \in Seq(OpenCollections)
        /\ Len(below) \in Nat /\ Len(open) = Len(below) + 1
    BY <1>2, <2>1, LastAndFront, SMTT(30) DEF TypeOK
  <2>3. PICK next : next = [top EXCEPT !.taken = @ + 1, !.asked = FALSE]
    OBVIOUS
  <2>4. next \in OpenCollections
    <3>1. /\ top \in [kind : Collections, mode : {"visit", "skip", "raw", "tuple"}, taken : Nat, asked : BOOLEAN]
          /\ top.taken + 1 \in Nat /\ FALSE \in BOOLEAN
      BY <2>2 DEF OpenCollections
    <3>2. /\ next \in [kind : Collections, mode : {"visit", "skip", "raw", "tuple"}, taken : Nat, asked : BOOLEAN]
          /\ next.asked = FALSE
      BY <2>3, <3>1
    <3> QED
      BY <3>2 DEF OpenCollections
  <2>5. OneTaken(open) = Append(below, next)
    BY <1>2, <2>1, <2>3 DEF OneTaken
  <2> QED
    BY <2>2, <2>4, <2>5, AppendProperties
<1> QED
  BY <1>1, <1>2

LEMMA OpenedTyped ==
  ASSUME TypeOK, NEW kind \in Collections, NEW mode \in {"visit", "skip", "raw", "tuple"},
         open' = Append(OneTaken(open), Collection(kind, mode))
  PROVE  open' \in Seq(OpenCollections) /\ Len(open') = Len(open) + 1 /\ Len(open) \in Nat
<1>1. PICK c : c = Collection(kind, mode)
  OBVIOUS
<1>2. c \in OpenCollections
  BY <1>1 DEF Collection, OpenCollections
<1> QED
  BY <1>1, <1>2, OneTakenTyped, AppendProperties

LEMMA ModesTyped == Modes \subseteq {"visit", "skip", "raw"}
BY DEF Modes

LEMMA EnterTakesOrStops ==
  ASSUME ReplayInv, NodeAhead(Collections), NEW mode \in {"visit", "skip", "raw", "tuple"}, Enter(mode)
  PROVE  Takes \/ Stops
<1>1. Reading /\ ~Ended /\ Ahead.kind \in Collections /\ TypeOK /\ depth = Len(open)
  BY DEF NodeAhead, NodeNext, ReplayInv, StackSane
<1>2. CASE depth + 1 > MaxDepth /\ Fail("depth")
  BY <1>1, <1>2 DEF Fail, Stops
<1>3. CASE ~(depth + 1 > MaxDepth /\ Fail("depth"))
  <2>1. /\ depth + 1 <= MaxDepth /\ Advanced /\ depth' = depth + 1
        /\ open' = Append(OneTaken(open), Collection(Ahead.kind, mode))
        /\ UNCHANGED <<stream, replayed, left, status>>
    BY <1>3 DEF Enter, outcome
  <2>2. open' \in Seq(OpenCollections) /\ Len(open') = Len(open) + 1 /\ Len(open) \in Nat
    BY <1>1, <2>1, OpenedTyped
  <2> QED
    BY <1>1, <2>1, <2>2 DEF Takes
<1> QED
  BY <1>2, <1>3

LEMMA Steps ==
  ASSUME ReplayInv, [Next]_vars
  PROVE  Enters \/ Takes \/ AliasReplaced \/ Asks \/ Leaves \/ Stops \/ Rests
<1>inv. TypeOK /\ depth = Len(open) /\ depth <= MaxDepth
  BY DEF ReplayInv, StackSane
<1>fail. ASSUME NEW why, Reading, Fail(why) PROVE Stops
  BY <1>fail DEF Fail, Stops
<1>1. CASE EnterDocument
  BY <1>1 DEF EnterDocument, Enters
<1>2. CASE ResolveAlias
  <2>1. PICK name, below : name = Ahead.name /\ below = IF Injected THEN Popped(inject) ELSE inject
    OBVIOUS
  <2>2. Reading /\ ~Ended
    BY <1>2 DEF ResolveAlias, NodeAhead, NodeNext
  <2>3. \/ Fail("recursive")
        \/ Fail(IF name \notin DOMAIN anchors THEN "unknown" ELSE "budget")
        \/ /\ \A i \in DOMAIN below : below[i].name # name
           /\ name \in DOMAIN anchors /\ replayed + Len(anchors[name]) <= Budget
           /\ replayed' = replayed + Len(anchors[name])
           /\ inject' = Append(below, Replay(name, anchors[name]))
           /\ pos' = IF Injected THEN pos ELSE pos + 1
           /\ UNCHANGED <<stream, anchors, depth, open, passed, served, left, outcome>>
    BY <1>2, <2>1 DEF ResolveAlias
  <2> QED
    BY <1>fail, <2>1, <2>2, <2>3 DEF AliasReplaced, outcome
<1>3. CASE AskKey
  <2>1. Reading /\ open # <<>> /\ ~Last(open).asked /\ Last(open).mode = "visit"
    BY <1>3 DEF AskKey
  <2>2. PICK walk : walk = Walk(Here, At, anchors, 0, FALSE, depth)
    OBVIOUS
  <2>3. \/ Fail(walk.error)
        \/ /\ open' = Append(Front(open), [Last(open) EXCEPT !.asked = TRUE])
           /\ UNCHANGED <<stream, cursor, depth, passed, served, left, outcome>>
    BY <1>3, <2>2 DEF AskKey
  <2> QED
    BY <1>fail, <2>1, <2>3 DEF Asks, outcome
<1>4. CASE TakeScalar
  <2>1. /\ Reading /\ ~Ended /\ Advanced /\ open' = OneTaken(open)
        /\ UNCHANGED <<stream, replayed, depth, left, status>>
    BY <1>4 DEF TakeScalar, NodeAhead, NodeNext, outcome
  <2> QED
    BY <1>inv, <2>1, OneTakenTyped DEF Takes
<1>5. CASE OpenSequence \/ OpenTuple \/ OpenMapping \/ OpenRawMapping
  <2>1. NodeAhead({"seq"}) \/ NodeAhead({"map"}) => NodeAhead(Collections)
    BY DEF NodeAhead, Collections
  <2>2. Reading /\ NodeAhead(Collections)
    BY <1>5, <2>1 DEF OpenSequence, OpenTuple, OpenMapping, OpenRawMapping, NodeAhead, NodeNext
  <2>3. (\E why : Fail(why)) \/ \E mode \in {"visit", "skip", "raw", "tuple"} : Enter(mode)
    <3>1. CASE OpenSequence
      BY <3>1, ModesTyped DEF OpenSequence
    <3>2. CASE OpenTuple
      BY <3>2 DEF OpenTuple
    <3>3. CASE OpenMapping
      <4>1. PICK merge, duplicate :
              \/ Fail(merge.error) \/ Fail(duplicate.error) \/ \E mode \in Modes : Enter(mode)
        BY <3>3 DEF OpenMapping
      <4> QED
        BY <4>1, ModesTyped
    <3>4. CASE OpenRawMapping
      BY <3>4 DEF OpenRawMapping
    <3> QED
      BY <1>5, <3>1, <3>2, <3>3, <3>4
  <2> QED
    BY <1>fail, <2>2, <2>3, EnterTakesOrStops
<1>6. CASE HandOver
  <2>1. Reading /\ ~Ended /\ Ahead.kind \in {"scalar", "seq", "map"}
    BY <1>6 DEF HandOver, NodeAhead, NodeNext
  <2>2. \/ \E why : Fail(why)
        \/ /\ Ahead.kind \in Collections => depth + 1 <= MaxDepth
           /\ Advanced
           /\ IF Ahead.kind = "scalar"
              THEN depth' = depth /\ open' = OneTaken(open)
              ELSE depth' = depth + 1
                   /\ open' = Append(OneTaken(open), Collection(Ahead.kind, "raw"))
           /\ UNCHANGED <<stream, replayed, left, outcome>>
    <3>1. PICK walk :
            \/ walk.error # NoName /\ Fail(walk.error)
            \/ Fail("merge value")
            \/ /\ Ahead.kind \in Collections => depth + 1 <= MaxDepth
               /\ Advanced
               /\ IF Ahead.kind = "scalar"
                  THEN depth' = depth /\ open' = OneTaken(open)
                  ELSE depth' = depth + 1
                       /\ open' = Append(OneTaken(open), Collection(Ahead.kind, "raw"))
               /\ UNCHANGED <<stream, replayed, left, outcome>>
            \/ Fail("depth")
      BY <1>6 DEF HandOver
    <3> QED
      BY <3>1
  <2>3. CASE \E why : Fail(why)
    BY <1>fail, <2>1, <2>3
  <2>4. CASE ~ \E why : Fail(why)
    <3>1. CASE Ahead.kind = "scalar"
      BY <1>inv, <2>1, <2>2, <2>4, <3>1, OneTakenTyped DEF Takes, outcome
    <3>2. CASE Ahead.kind # "scalar"
      <4>1. /\ Ahead.kind \in Collections /\ depth' = depth + 1 /\ depth' <= MaxDepth /\ Advanced
            /\ open' = Append(OneTaken(open), Collection(Ahead.kind, "raw"))
            /\ UNCHANGED <<stream, replayed, left, status>>
        BY <2>1, <2>2, <2>4, <3>2 DEF Collections, outcome
      <4>2. open' \in Seq(OpenCollections) /\ Len(open') = Len(open) + 1 /\ Len(open) \in Nat
        BY <1>inv, <4>1, OpenedTyped
      <4> QED
        BY <1>inv, <2>1, <4>1, <4>2 DEF Takes
    <3> QED
      BY <3>1, <3>2
  <2> QED
    BY <2>3, <2>4
<1>7. CASE Close
  <2>1. /\ Reading /\ ~Ended /\ Advanced /\ open # <<>> /\ open' = Front(open) /\ depth' = depth - 1
        /\ UNCHANGED <<stream, replayed, left, status>>
    BY <1>7 DEF Close, outcome
  <2>2. Len(open) \in Nat \ {0} /\ open' \in Seq(OpenCollections) /\ Len(open') = Len(open) - 1
    BY <1>inv, <2>1, LastAndFront DEF TypeOK
  <2>3. Len(open') = depth - 1 /\ depth - 1 <= MaxDepth /\ Len(open') <= Len(open) + 1
    BY <1>inv, <2>2, EventReplayAssumption
  <2> QED
    BY <2>1, <2>2, <2>3 DEF Takes
<1>8. CASE LeaveTuple
  BY <1>8 DEF LeaveTuple, Leaves, outcome
<1>9. CASE Unexpected
  BY <1>9, <1>fail DEF Unexpected
<1>10. CASE Finish
  BY <1>10 DEF Finish, Stops
<1>11. CASE Over \/ UNCHANGED vars
  BY <1>11 DEF Over, Rests
<1> QED
  BY <1>1, <1>2, <1>3, <1>4, <1>5, <1>6, <1>7, <1>8, <1>9, <1>10, <1>11 DEF Next

-----------------------------------------------------------------------------
(* The invariant.                                                          *)
LEMMA ReplayInit == Init => ReplayInv
<1> SUFFICES ASSUME Init PROVE ReplayInv
  OBVIOUS
<1>1. /\ stream \in Streams /\ pos = 1 /\ anchors = <<>> /\ inject = <<>> /\ open = <<>>
      /\ replayed = 0 /\ depth = 0 /\ served = 0 /\ left = FALSE /\ status = "start"
  BY DEF Init
<1>2. /\ DOMAIN anchors = {} /\ DOMAIN inject = {} /\ Len(open) = 0
      /\ inject \in Seq(ReplayFrames) /\ open \in Seq(OpenCollections)
  BY <1>1, EmptySeq
<1>3. Len(stream) \in Nat /\ 1 \in 1 .. (Len(stream) + 1)
  <2>1. Len(stream) \in Nat
    BY <1>1, StreamsAssumption, LenProperties
  <2> QED
    BY <2>1
<1>4. TypeOK
  BY <1>1, <1>2, <1>3 DEF TypeOK
<1>5. StillInjected = 0
  BY <1>1, <1>4, StillInjectedIsTotal, TotalIsNumber DEF TypeOK
<1>6. StackSane
  BY <1>1, <1>2, EventReplayAssumption DEF StackSane
<1> QED
  BY <1>1, <1>4, <1>5, <1>6, EventReplayAssumption DEF ReplayInv, FreshAtStart, ReplaysCharged

(* How far the events and the budget reach. *)
EventsLeft == Len(stream) + 1 - pos + Budget - replayed + StillInjected

(* What the invariant says of its numbers.                                 *)
LEMMA ReplayNumbers ==
  ASSUME ReplayInv
  PROVE  \E events, at, charged, held, taken \in Nat :
           /\ events = Len(stream) /\ at = pos /\ charged = replayed /\ taken = served
           /\ held = StillInjected /\ held = Total(inject)
           /\ at <= events + 1 /\ taken + held <= charged /\ charged <= Budget
           /\ EventsLeft = events + 1 - at + Budget - charged + held
<1>inv. TypeOK /\ ReplaysCharged
  BY DEF ReplayInv
<1>1. StillInjected = Total(inject) /\ Total(inject) \in Nat
  BY <1>inv, StillInjectedIsTotal, TotalIsNumber DEF TypeOK
<1>2. Len(stream) \in Nat /\ pos \in Nat /\ pos <= Len(stream) + 1 /\ replayed \in Nat /\ served \in Nat
  BY <1>inv, StreamTyped DEF TypeOK
<1> QED
  BY <1>inv, <1>1, <1>2 DEF EventsLeft, ReplaysCharged

(* A step that takes an event leaves one less.                             *)
LEMMA TakingStep ==
  ASSUME ReplayInv, Takes \/ AliasReplaced
  PROVE  ReplayInv' /\ EventsLeft' = EventsLeft - 1
<1>inv. TypeOK /\ ReplaysApart /\ depth = Len(open) /\ depth <= MaxDepth
  BY DEF ReplayInv, StackSane, ReplaysApart
<1>1. PICK events, at, charged, held, taken \in Nat :
           /\ events = Len(stream) /\ at = pos /\ charged = replayed /\ taken = served
           /\ held = StillInjected /\ held = Total(inject)
           /\ at <= events + 1 /\ taken + held <= charged /\ charged <= Budget
           /\ EventsLeft = events + 1 - at + Budget - charged + held
  BY ReplayNumbers
<1>2. Budget \in Nat /\ MaxDepth \in Nat
  BY EventReplayAssumption
<1>3. /\ CursorTyped' /\ ReplaysApart' /\ served' \in Nat
      /\ \E n \in Nat :
           /\ replayed' = charged + n /\ replayed' <= Budget
           /\ \/ pos' = at + 1 /\ Total(inject') = held + n /\ served' = taken
              \/ pos' = at /\ held + n = Total(inject') + 1 /\ served' <= taken + 1
  <2>1. CASE Takes
    <3>1. CursorTyped' /\ ReplaysApart' /\ served' \in Nat
      BY <1>inv, <2>1, EventTaken DEF Takes
    <3>2. \/ pos' = at + 1 /\ Total(inject') = held /\ served' = taken
          \/ pos' = at /\ held = Total(inject') + 1 /\ served' = taken + 1
      BY <1>inv, <1>1, <2>1, EventTaken DEF Takes
    <3>3. 0 \in Nat /\ replayed' = charged + 0 /\ replayed' <= Budget /\ held + 0 = held
      BY <1>1, <2>1 DEF Takes
    <3> QED
      BY <1>1, <3>1, <3>2, <3>3
  <2>2. CASE AliasReplaced
    <3>1. served' = taken
      BY <1>1, <2>2 DEF AliasReplaced
    <3> QED
      BY <1>inv, <1>1, <2>2, <3>1, AliasTaken
  <2> QED
    BY <2>1, <2>2
<1>4. /\ open' \in Seq(OpenCollections) /\ depth' = Len(open') /\ depth' <= MaxDepth /\ depth' \in Nat
      /\ status = "read" /\ UNCHANGED <<stream, left, status>>
  <2>1. CASE Takes
    BY <2>1, LenProperties DEF Takes, Reading
  <2>2. CASE AliasReplaced
    BY <1>inv, <2>2 DEF AliasReplaced, Reading, TypeOK
  <2> QED
    BY <2>1, <2>2
<1>5. PICK n \in Nat :
           /\ replayed' = charged + n /\ replayed' <= Budget
           /\ \/ pos' = at + 1 /\ Total(inject') = held + n /\ served' = taken
              \/ pos' = at /\ held + n = Total(inject') + 1 /\ served' <= taken + 1
  BY <1>3
<1>6. TypeOK'
  BY <1>inv, <1>1, <1>3, <1>4, <1>5, SMTT(30) DEF TypeOK, CursorTyped
<1>7. PICK rest \in Nat : rest = Total(inject') /\ StillInjected' = rest
  BY <1>6, StillInjectedPrimed, TotalIsNumber DEF TypeOK
<1>8. PICK spent, next, got \in Nat : spent = charged + n /\ spent = replayed' /\ next = pos' /\ got = served'
  BY <1>3, <1>5
<1>9. /\ spent <= Budget
      /\ \/ next = at + 1 /\ rest = held + n /\ got = taken
         \/ next = at /\ held + n = rest + 1 /\ got <= taken + 1
  BY <1>5, <1>7, <1>8
<1>sums. /\ spent = charged + n /\ taken + held <= charged
         /\ \/ next = at + 1 /\ rest = held + n /\ got = taken
            \/ next = at /\ held + n = rest + 1 /\ got <= taken + 1
  BY <1>1, <1>8, <1>9
<1>10. got + rest <= spent
  BY <1>sums
<1>11. events + 1 - next + Budget - spent + rest = events + 1 - at + Budget - charged + held - 1
  BY <1>2, <1>sums
<1>12. EventsLeft' = events + 1 - next + Budget - spent + rest
  BY <1>1, <1>4, <1>7, <1>8 DEF EventsLeft
<1>left. EventsLeft' = EventsLeft - 1
  <2>1. PICK more \in Int : more = EventsLeft /\ more = events + 1 - at + Budget - charged + held
    BY <1>1, <1>2
  <2>2. more = events + 1 - at + Budget - charged + held
    BY <2>1
  <2>3. more - 1 = events + 1 - next + Budget - spent + rest
    BY <1>2, <1>11, <2>2
  <2> QED
    BY <1>12, <2>1, <2>3
<1>13. ReplaysCharged'
  BY <1>7, <1>8, <1>9, <1>10 DEF ReplaysCharged
<1>14. ReplayInv'
  BY <1>3, <1>4, <1>6, <1>13 DEF ReplayInv, StackSane, ReplaysApart, FreshAtStart
<1> QED
  BY <1>left, <1>14

(* Any other step leaves the events as they are.                           *)
LEMMA OtherStep ==
  ASSUME ReplayInv, Enters \/ Asks \/ Leaves \/ Stops \/ Rests
  PROVE  /\ ReplayInv' /\ EventsLeft' = EventsLeft
         /\ Asks => Len(open') = Len(open)
         /\ Leaves => Len(open') = Len(open) - 1
<1>inv. TypeOK /\ StackSane /\ FreshAtStart /\ ReplaysCharged
  BY DEF ReplayInv
<1>1. PICK events, at, charged, held, taken \in Nat :
           /\ events = Len(stream) /\ at = pos /\ charged = replayed /\ taken = served
           /\ held = StillInjected /\ held = Total(inject)
           /\ at <= events + 1 /\ taken + held <= charged /\ charged <= Budget
           /\ EventsLeft = events + 1 - at + Budget - charged + held
  BY ReplayNumbers
<1>2. Budget \in Nat /\ MaxDepth \in Nat
  BY EventReplayAssumption
<1>3. CASE Enters
  <2>1. /\ pos' = 1 /\ pos = 1 /\ inject' = <<>> /\ inject = <<>> /\ replayed = 0 /\ replayed' = 0
        /\ anchors' = <<>> /\ open = <<>> /\ depth' = 0 /\ status' = "read"
        /\ UNCHANGED <<stream, open, served, left>>
    BY <1>inv, <1>3 DEF Enters, FreshAtStart
  <2>2. DOMAIN anchors' = {} /\ DOMAIN inject' = {} /\ Len(open') = 0
    BY <2>1, EmptySeq
  <2>3. TypeOK'
    BY <1>inv, <2>1, <2>2 DEF TypeOK
  <2>4. StillInjected' = StillInjected
    BY <2>1, <2>3, <1>1, StillInjectedPrimed
  <2>5. StackSane'
    BY <1>2, <2>1, <2>2 DEF StackSane
  <2>6. ReplaysCharged'
    BY <1>inv, <2>1, <2>4 DEF ReplaysCharged
  <2>7. EventsLeft' = EventsLeft
    BY <2>1, <2>4 DEF EventsLeft
  <2>8. ~Asks /\ ~Leaves
    BY <1>3 DEF Enters, Asks, Leaves, Reading
  <2> QED
    BY <2>1, <2>3, <2>5, <2>6, <2>7, <2>8 DEF ReplayInv, FreshAtStart
<1>4. CASE Asks \/ Leaves \/ Stops \/ Rests
  <2>1. UNCHANGED <<stream, cursor, served>>
    BY <1>4 DEF Asks, Leaves, Stops, Rests, vars
  <2>2. /\ open' \in Seq(OpenCollections) /\ depth' \in Nat /\ depth' = Len(open') /\ depth' <= MaxDepth
        /\ Asks => Len(open') = Len(open)
        /\ Leaves => Len(open') = Len(open) - 1
    <3>1. CASE Asks
      <4>1. PICK top, below : top = Last(open) /\ below = Front(open)
        OBVIOUS
      <4>2. /\ top \in OpenCollections /\ below \in Seq(OpenCollections)
            /\ Len(below) \in Nat /\ Len(open) = Len(below) + 1
        BY <1>inv, <3>1, <4>1, LastAndFront DEF TypeOK, Asks
      <4>3. PICK next : next = [top EXCEPT !.asked = TRUE]
        OBVIOUS
      <4>4. next \in OpenCollections
        <5>1. /\ top \in [kind : Collections, mode : {"visit", "skip", "raw", "tuple"}, taken : Nat, asked : BOOLEAN]
              /\ top.mode = "visit" /\ TRUE \in BOOLEAN
          BY <3>1, <4>1, <4>2 DEF OpenCollections, Asks
        <5>2. /\ next \in [kind : Collections, mode : {"visit", "skip", "raw", "tuple"}, taken : Nat, asked : BOOLEAN]
              /\ next.mode = "visit"
          BY <4>3, <5>1
        <5> QED
          BY <5>2 DEF OpenCollections
      <4>5. open' = Append(below, next) /\ depth' = depth
        BY <3>1, <4>1, <4>3 DEF Asks
      <4>6. open' \in Seq(OpenCollections) /\ Len(open') = Len(open)
        BY <4>2, <4>4, <4>5, AppendProperties
      <4>7. ~Leaves
        BY <3>1 DEF Asks, Leaves
      <4> QED
        BY <1>inv, <4>5, <4>6, <4>7 DEF StackSane, TypeOK
    <3>2. CASE Leaves
      <4>1. PICK n \in Nat : Len(open) = n + 1 /\ Len(Front(open)) = n /\ Front(open) \in Seq(OpenCollections)
        BY <1>inv, <3>2, LastAndFront DEF TypeOK, Leaves
      <4>2. PICK d \in Nat : d = depth /\ d = n + 1 /\ d <= MaxDepth
        BY <1>inv, <4>1 DEF TypeOK, StackSane
      <4>3. open' = Front(open) /\ depth' = d - 1 /\ ~Asks
        BY <3>2, <4>2 DEF Leaves, Asks
      <4>4. d - 1 = n /\ n <= MaxDepth
        BY <1>2, <4>2
      <4> QED
        BY <4>1, <4>2, <4>3, <4>4
    <3>3. CASE ~Asks /\ ~Leaves
      BY <1>inv, <1>4, <3>3 DEF Stops, Rests, vars, TypeOK, StackSane
    <3> QED
      BY <3>1, <3>2, <3>3
  <2>3. left' \in BOOLEAN /\ status' \in {"start", "read", "done", "failed"} /\ (status' = "start" => status = "start" /\ open' = open)
    BY <1>inv, <1>4 DEF Asks, Leaves, Stops, Rests, vars, outcome, Reading, TypeOK
  <2>4. TypeOK'
    BY <1>inv, <2>1, <2>2, <2>3 DEF TypeOK, cursor
  <2>5. StillInjected' = StillInjected
    BY <1>1, <2>1, <2>4, StillInjectedPrimed DEF cursor
  <2>6. StackSane'
    BY <1>inv, <2>1, <2>2 DEF StackSane, cursor
  <2>7. ReplaysCharged'
    BY <1>inv, <2>1, <2>5 DEF ReplaysCharged, cursor
  <2>8. EventsLeft' = EventsLeft
    BY <2>1, <2>5 DEF EventsLeft, cursor
  <2>9. FreshAtStart'
    BY <1>inv, <2>1, <2>3 DEF FreshAtStart, cursor
  <2> QED
    BY <2>2, <2>4, <2>6, <2>7, <2>8, <2>9 DEF ReplayInv
<1> QED
  BY <1>3, <1>4

LEMMA ReplayInvariant == Spec => []ReplayInv
<1>1. ReplayInv /\ [Next]_vars => ReplayInv'
  BY Steps, TakingStep, OtherStep
<1> QED
  BY <1>1, ReplayInit, PTL DEF Spec

-----------------------------------------------------------------------------
(* The reading.                                                            *)

(* The types of the cursor, the stack of replays and the collections that  *)
(* are open: a replay always has an event to give, which peek relies on    *)
(* when it indexes the events of the top frame.                            *)
THEOREM CursorTypeCorrect == Spec => []TypeOK
BY ReplayInvariant, PTL DEF ReplayInv

(* enter_depth and exit_depth count the open collections, also those that  *)
(* are read from copies, and inject_alias never replays an anchor inside   *)
(* of itself.                                                              *)
THEOREM StacksStaySane == Spec => []StackSane
BY ReplayInvariant, PTL DEF ReplayInv

(* charge_replay pays for every event that is taken from a copy before it  *)
(* is taken: however the aliases nest, the budget bounds them all.         *)
THEOREM ReplaysBounded == Spec => []ReplayWithinBudget
<1>1. ReplayInv => ReplayWithinBudget
  <2> SUFFICES ASSUME ReplayInv PROVE ReplayWithinBudget
    OBVIOUS
  <2>1. PICK events, at, charged, held, taken \in Nat :
           /\ events = Len(stream) /\ at = pos /\ charged = replayed /\ taken = served
           /\ held = StillInjected /\ held = Total(inject)
           /\ at <= events + 1 /\ taken + held <= charged /\ charged <= Budget
           /\ EventsLeft = events + 1 - at + Budget - charged + held
    BY ReplayNumbers
  <2>2. taken + held <= Budget /\ taken = served /\ held = StillInjected
    BY <2>1, EventReplayAssumption
  <2> QED
    BY <2>2 DEF ReplayWithinBudget
<1> QED
  BY <1>1, ReplayInvariant, PTL

(* The measure of WorkRunsOut, put together from its parts.                *)
WorkParts ==
  \E e, o, a, p \in Nat :
    /\ e = EventsLeft /\ o = Len(open) /\ a = AskLeft /\ p = PhaseLeft
    /\ a <= 1 /\ p <= 2
    /\ WorkLeft = 3 * e + o + a + p

LEMMA WorkIs == ReplayInv => WorkParts
<1> SUFFICES ASSUME ReplayInv PROVE WorkParts
  OBVIOUS
<1>1. PICK events, at, charged, held, taken \in Nat :
           /\ events = Len(stream) /\ at = pos /\ charged = replayed /\ taken = served
           /\ held = StillInjected /\ held = Total(inject)
           /\ at <= events + 1 /\ taken + held <= charged /\ charged <= Budget
           /\ EventsLeft = events + 1 - at + Budget - charged + held
  BY ReplayNumbers
<1>2. at <= events + 1 /\ charged <= Budget /\ Budget \in Nat
  BY <1>1, EventReplayAssumption
<1>3. PICK e \in Nat : e = events + 1 - at + Budget - charged + held
  BY <1>2
<1>4. PICK o \in Nat : o = Len(open)
  BY LenProperties DEF ReplayInv, TypeOK
<1>5. PICK a \in {0, 1} : a = AskLeft
  BY DEF AskLeft
<1>6. PICK p \in {0, 1, 2} : p = PhaseLeft
  BY DEF PhaseLeft
<1>7. e = EventsLeft
  BY <1>1, <1>3
<1>8. WorkLeft = 3 * e + o + a + p
  BY <1>4, <1>5, <1>6, <1>7 DEF WorkLeft, EventsLeft
<1>9. a \in Nat /\ a <= 1 /\ p \in Nat /\ p <= 2
  OBVIOUS
<1> QED
  BY <1>4, <1>5, <1>6, <1>7, <1>8, <1>9 DEF WorkParts

(* Only a visitor of a mapping asks, so that a tuple still may. *)
LEMMA NotAsked ==
  ASSUME TypeOK, open # <<>>, Last(open).mode = "tuple"
  PROVE  AskLeft = 1
<1>1. PICK top : top = Last(open) /\ top \in OpenCollections
  BY LastAndFront DEF TypeOK
<1> QED
  BY <1>1 DEF AskLeft, OpenCollections

(* Each of next_raw, inject_alias, next_key_seed and the end of a tuple    *)
(* uses up some of a measure that is never negative: no document, however  *)
(* its anchors hold aliases, keeps the reader busy for ever.               *)
THEOREM ReadingRunsOut == Spec => WorkRunsOut
<1>1. ASSUME ReplayInv, Next, vars' # vars PROVE WorkLeft' < WorkLeft /\ WorkLeft' >= 0
  <2>1. Enters \/ Takes \/ AliasReplaced \/ Asks \/ Leaves \/ Stops
    BY <1>1, Steps DEF Rests
  <2>2. ReplayInv'
    BY <1>1, <2>1, TakingStep, OtherStep
  <2>3. PICK e, o, a, p \in Nat :
           /\ e = EventsLeft /\ o = Len(open) /\ a = AskLeft /\ p = PhaseLeft
           /\ a <= 1 /\ p <= 2
           /\ WorkLeft = 3 * e + o + a + p
    BY <1>1, WorkIs DEF WorkParts
  <2>4. (ReplayInv => WorkParts)'
    BY WorkIs, PTL
  <2>5. PICK y, x, b, q \in Nat :
           /\ y = EventsLeft' /\ x = Len(open') /\ b = AskLeft' /\ q = PhaseLeft'
           /\ b <= 1 /\ q <= 2
           /\ WorkLeft' = 3 * y + x + b + q
    BY <2>2, <2>4 DEF WorkParts
  <2>6. 3 * y + x + b + q < 3 * e + o + a + p
    <3>1. CASE Takes \/ AliasReplaced
      <4>1. EventsLeft' = EventsLeft - 1 /\ PhaseLeft' = PhaseLeft /\ Len(open') <= Len(open) + 1
        BY <1>1, <3>1, <2>3, TakingStep, SMTT(30) DEF Takes, AliasReplaced, PhaseLeft, Reading
      <4>2. y = e - 1 /\ q = p /\ x <= o + 1 /\ b <= 1
        BY <2>3, <2>5, <4>1
      <4> QED
        BY <4>2
    <3>2. CASE Enters
      <4>1. EventsLeft' = EventsLeft /\ open' = open /\ PhaseLeft' = 1 /\ PhaseLeft = 2 /\ AskLeft' = AskLeft
        BY <1>1, <3>2, OtherStep DEF Enters, PhaseLeft, Reading, AskLeft
      <4>2. y = e /\ x = o /\ b = a /\ q = 1 /\ p = 2
        BY <2>3, <2>5, <4>1
      <4> QED
        BY <4>2
    <3>3. CASE Asks
      <4>1. PICK top, below : top = Last(open) /\ below = Front(open)
        OBVIOUS
      <4>2. below \in Seq(OpenCollections) /\ top \in OpenCollections
        BY <1>1, <3>3, <4>1, LastAndFront DEF ReplayInv, TypeOK, Asks
      <4>3. PICK next : next = [top EXCEPT !.asked = TRUE]
        OBVIOUS
      <4>4. next.asked
        BY <4>2, <4>3 DEF OpenCollections
      <4>5. open' = Append(below, next)
        BY <3>3, <4>1, <4>3 DEF Asks
      <4>6. PICK n \in Nat : n = Len(below)
        BY <4>2, LenProperties
      <4>7. open' # <<>> /\ Last(open') = next
        BY <4>2, <4>5, <4>6, AppendProperties DEF Last
      <4>8. AskLeft' = 0 /\ AskLeft = 1
        BY <3>3, <4>4, <4>7 DEF AskLeft, Asks
      <4>9. EventsLeft' = EventsLeft /\ Len(open') = Len(open) /\ PhaseLeft' = PhaseLeft
        BY <1>1, <3>3, OtherStep DEF Asks, PhaseLeft, Reading
      <4>10. y = e /\ x = o /\ b = 0 /\ a = 1 /\ q = p
        BY <2>3, <2>5, <4>8, <4>9
      <4> QED
        BY <4>10
    <3>4. CASE Leaves
      <4>1. EventsLeft' = EventsLeft /\ Len(open') = Len(open) - 1 /\ PhaseLeft' = PhaseLeft
        BY <1>1, <3>4, OtherStep DEF Leaves, PhaseLeft, Reading
      <4>2. AskLeft = 1
        BY <1>1, <3>4, NotAsked DEF ReplayInv, Leaves
      <4>3. y = e /\ x = o - 1 /\ b <= 1 /\ a = 1 /\ q = p
        BY <2>3, <2>5, <4>1, <4>2
      <4> QED
        BY <4>3
    <3>5. CASE Stops
      <4>1. EventsLeft' = EventsLeft /\ open' = open /\ PhaseLeft = 1 /\ PhaseLeft' = 0 /\ AskLeft' = AskLeft
        BY <1>1, <3>5, OtherStep DEF Stops, PhaseLeft, Reading, AskLeft
      <4>2. y = e /\ x = o /\ b = a /\ q = 0 /\ p = 1
        BY <2>3, <2>5, <4>1
      <4> QED
        BY <4>2
    <3> QED
      BY <2>1, <3>1, <3>2, <3>3, <3>4, <3>5
  <2>7. 3 * y + x + b + q >= 0
    OBVIOUS
  <2> QED
    BY <2>3, <2>5, <2>6, <2>7
<1>2. ReplayInv /\ [Next]_vars => [WorkLeft' < WorkLeft /\ WorkLeft' >= 0]_vars
  BY <1>1
<1> QED
  BY <1>2, ReplayInvariant, PTL DEF Spec, WorkRunsOut

=============================================================================
