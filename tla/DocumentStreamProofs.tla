------------------------ MODULE DocumentStreamProofs ------------------------
(***************************************************************************)
(* The document level of the parser, for inputs of any length.             *)
(***************************************************************************)
EXTENDS DocumentStream, FiniteSetTheorems, SequenceTheorems, TLAPS

Dirs   == [yaml : Versions \union {"none"}, tags : SUBSET {"h"}, any : BOOLEAN]
Starts == [line : Nat, explicit : BOOLEAN, directives : Dirs]

(* What the iterators yield.                                               *)
Marks     == [t : {"StreamStart", "Node", "StreamEnd", "Err", "MergeErr"}, line : Nat]
DocStarts == [t : {"DocStart"}, line : Nat, explicit : BOOLEAN, directives : Dirs]
DocEnds   == [t : {"DocEnd"}, line : Nat, explicit : BOOLEAN]
Docs      == [t : {"Doc"}, line : Nat, schema : Schemas, merge : BOOLEAN]
Items     == Marks \union DocStarts \union DocEnds \union Docs

Typed ==
  /\ TypeOK
  /\ state \in [pending_start : Starts, open_document : BOOLEAN, finished : BOOLEAN]
  /\ doc \in Starts
  /\ client \in [pending : Seq(Items), error : BOOLEAN, finished : BOOLEAN]
  /\ events \in Seq(Items) /\ out \in Seq(Items)

(* Nothing is reclaimed that is still wanted; what has been read ahead is  *)
(* blank but for its last line.                                            *)
Windowed ==
  /\ ret # "reclaimed"
  /\ ret = "doc" \/ (at = "client" /\ ~state.finished) => base = pos
  /\ \A i \in content_lines : i < pos
  /\ \A i \in (pos + 1) .. (Len(lines) - 1) : lines[i] = "blank"

(* Who is finished, and when.                                              *)
Ordered ==
  /\ at = "client" => ret = "none"
  /\ ret = "doc" => ~state.finished
  /\ state.finished => ret \in {"err", "none_left"} \/ client.finished
  /\ client.finished => at = "client" /\ state.finished
  /\ ret \in {"err", "none_left"} => state.finished
  /\ at # "client" => NothingPending

WindowInv == Typed /\ Windowed /\ Ordered

-----------------------------------------------------------------------------
(* Of the larger, and the smaller, of two positions.                       *)
LEMMA MaxMinAre ==
  ASSUME NEW a \in Nat, NEW b \in Nat
  PROVE  /\ Max({a, b}) = IF a >= b THEN a ELSE b
         /\ Min({a, b}) = IF a <= b THEN a ELSE b
BY DEF Max, Min

(* What discard_before leaves retained.                                    *)
LEMMA Discarded ==
  ASSUME TypeOK, NEW p \in pos .. Len(lines), DiscardBefore(p)
  PROVE  base' = p
<1>1. /\ base \in Nat /\ p \in Nat /\ Len(lines) \in Nat
      /\ base <= p /\ p <= Len(lines)
  BY DEF TypeOK
<1>2. Min({p, Len(lines)}) = p
  BY <1>1, MaxMinAre
<1>3. Max({base, p}) = p
  BY <1>1, MaxMinAre
<1> QED
  BY <1>2, <1>3 DEF DiscardBefore

(* The items the parser and the iterators make.                            *)
LEMMA ItemsMade ==
  /\ \A s \in Starts : DocStart(s) \in Items
  /\ \A p \in Nat, b \in BOOLEAN : DocEnd(p, b) \in Items
  /\ \A p \in Nat, t \in {"StreamStart", "Node", "StreamEnd", "Err", "MergeErr"} : Event(t, p) \in Items
BY DEF DocStart, DocEnd, Event, Starts, Items, Marks, DocStarts, DocEnds

LEMMA DocumentMade ==
  ASSUME Typed
  PROVE  DocumentItem \in Items
BY DEF Typed, TypeOK, DocumentItem, Starts, Items, Docs

LEMMA ItemSequences ==
  /\ <<>> \in Seq(Items)
  /\ \A x \in Items : <<x>> \in Seq(Items)
  /\ \A x, y \in Items : <<x, y>> \in Seq(Items)
  /\ \A x, y, z \in Items : <<x, y, z>> \in Seq(Items)
OBVIOUS

(* Emitting keeps the recorder a sequence of items.                        *)
LEMMA Emitted ==
  ASSUME Typed, NEW es \in Seq(Items), Emit(es)
  PROVE  events' \in Seq(Items)
BY DEF Emit, Typed

LEMMA ClosesTyped ==
  ASSUME Typed
  PROVE  CloseOpen \in Seq(Items)
<1>1. pos \in Nat /\ state.open_document \in BOOLEAN
  BY DEF Typed, TypeOK
<1>2. DocEnd(pos, FALSE) \in Items
  BY <1>1, ItemsMade
<1>3. <<DocEnd(pos, FALSE)>> \in Seq(Items) /\ <<>> \in Seq(Items)
  BY <1>2, ItemSequences, Zenon
<1> QED
  BY <1>3, Zenon DEF CloseOpen

(* The record types of what the scanner builds.                            *)
LEMMA Built ==
  ASSUME Typed
  PROVE  /\ NoDirectives \in Dirs /\ NoStart \in Starts
         /\ state.pending_start \in Starts /\ ContentStart \in Starts
         /\ directives \in Dirs
         /\ \A ds \in Dirs : SchemaFor(ds) \in Schemas
         /\ ContentTags \in SUBSET {"h"}
         /\ [line |-> pos, explicit |-> TRUE, directives |-> directives] \in Starts
         /\ pos \in Nat /\ base \in Nat /\ Len(lines) \in Nat /\ base <= pos /\ pos <= Len(lines)
BY DocumentStreamAssumption
   DEF Typed, TypeOK, NoDirectives, NoStart, Dirs, Starts, ContentStart, SchemaFor, Schemas, ContentTags

(* The scanner knows its line once the buffer has it.                      *)
LEMMA AtLine ==
  ASSUME TypeOK, NEW k \in LineKinds, CurrentKind = k
  PROVE  pos < Len(lines) /\ lines[pos + 1] = k /\ pos + 1 \in DOMAIN lines
BY DEF TypeOK, CurrentKind, LineKinds, DirectiveKinds, StartKinds, Versions

LEMMA AtEof ==
  ASSUME TypeOK, CurrentKind = "eof"
  PROVE  pos = Len(lines)
<1>1. lines \in Seq(LineKinds) /\ pos \in Nat /\ pos <= Len(lines) /\ "eof" \notin LineKinds
  BY DEF TypeOK, LineKinds, DirectiveKinds, StartKinds, Versions
<1>2. pos < Len(lines) => lines[pos + 1] \in LineKinds
  BY <1>1
<1> QED
  BY <1>1, <1>2 DEF CurrentKind

-----------------------------------------------------------------------------
(* Every step of the window, the scanner and the iterators keeps the       *)
(* window.                                                                 *)
LEMMA ReadLineKeepsWindow ==
  ASSUME WindowInv, ReadLine
  PROVE  WindowInv'
<1> USE DEF WindowInv, Ordered, NothingPending, buffer, history
<1>1. CASE PushNext
  <2>1. PICK k \in LineKinds, last \in BOOLEAN : lines' = Append(lines, k) /\ exhausted' = last
    BY <1>1 DEF PushNext
  <2>2. /\ lines \in Seq(LineKinds) /\ Len(lines) \in Nat /\ Len(lines) < MaxLines /\ MaxLines \in Nat
        /\ pos \in Nat /\ pos <= Len(lines)
    BY <1>1, DocumentStreamAssumption DEF PushNext, Typed, TypeOK
  <2>3. /\ lines' \in Seq(LineKinds) /\ Len(lines') = Len(lines) + 1
        /\ \A i \in 1 .. Len(lines) : lines'[i] = lines[i]
    BY <2>1, <2>2
  <2>4. Typed'
    BY <1>1, <2>1, <2>2, <2>3 DEF PushNext, Typed, TypeOK
  <2>5. \A i \in (pos + 1) .. Len(lines) : lines[i] = "blank"
    BY <1>1, <2>2 DEF PushNext, WantsLine
  <2>6. Windowed'
    BY <1>1, <2>2, <2>3, <2>5 DEF PushNext, Windowed
  <2> QED
    BY <1>1, <2>4, <2>6 DEF PushNext
<1>2. CASE PushNothing
  BY <1>2 DEF PushNothing, Typed, TypeOK, Windowed
<1>3. CASE LineError
  <2>1. base <= pos
    BY DEF Typed, TypeOK
  <2>2. ret' = "err" /\ at # "client" /\ state' = [state EXCEPT !.finished = TRUE]
    BY <1>3, <2>1 DEF LineError, Stop, Running, Typed, TypeOK
  <2>3. Typed'
    BY <1>3, <2>2 DEF LineError, Typed, TypeOK
  <2>4. Windowed'
    BY <1>3, <2>2 DEF LineError, Windowed
  <2>5. Ordered'
    BY <1>3, <2>2 DEF LineError, Typed
  <2> QED
    BY <2>3, <2>4, <2>5
<1> QED
  BY <1>1, <1>2, <1>3 DEF ReadLine

(* Stopping with an error, and going on to the next line.                  *)
LEMMA RejectKeepsWindow ==
  ASSUME WindowInv, at # "client", ret = "none", Reject
  PROVE  WindowInv'
<1> USE DEF WindowInv, Reject, Stop, buffer, history
<1>1. Typed'
  BY ZenonT(60) DEF Typed, TypeOK
<1>2. Windowed'
  BY DEF Windowed
<1>3. Ordered'
  BY DEF Ordered, Typed, NothingPending
<1> QED
  BY <1>1, <1>2, <1>3

LEMMA LookAheadKept ==
  ASSUME WindowInv, NEW p \in pos .. Len(lines)
  PROVE  /\ \A i \in (p + 1) .. (Len(lines) - 1) : lines[i] = "blank"
         /\ \A i \in content_lines : i < p
BY Built DEF WindowInv, Windowed, Typed, TypeOK

(* A document that is its marker.                                          *)
LEMMA NullDocumentKeepsWindow ==
  ASSUME WindowInv, at = "scan", ret = "none", ~state.finished, has_merge' \in BOOLEAN,
         active' \in [schema : Schemas, tags : SUBSET {"h"}],
         NEW e \in BOOLEAN, NEW l \in Nat, NEW p \in pos .. Len(lines), NullDocument(e, l, p)
  PROVE  WindowInv'
<1> USE DEF WindowInv, NullDocument, FinishParsedDocument, buffer
<1>1. base' = p /\ pos' = p /\ base' \in Nat /\ p <= Len(lines)
  BY Discarded, Built DEF Typed
<1>2. events' \in Seq(Items)
  <2> DEFINE x == DocStart(state.pending_start)
             y == Event("Node", state.pending_start.line)
             z == DocEnd(l, e)
  <2>1. state.pending_start \in Starts /\ state.pending_start.line \in Nat
    BY Built DEF Starts
  <2>2. x \in Items /\ y \in Items /\ z \in Items
    BY <2>1, ItemsMade
  <2>3. Emit(<<x, y, z>>)
    BY Zenon
  <2> QED
    BY <2>2, <2>3, ItemSequences, Emitted
<1>3. Typed'
  <2>1. state' \in [pending_start : Starts, open_document : BOOLEAN, finished : BOOLEAN] /\ doc' \in Starts
    BY Built DEF Typed
  <2>2. ret' = "doc" /\ recorded' \in [schema : Schemas, merge : BOOLEAN] /\ has_merge' \in BOOLEAN
    BY DEF Typed, TypeOK
  <2>3. base' \in 0 .. Len(lines) /\ pos' \in base' .. Len(lines)
    BY <1>1, Built
  <2> QED
    BY <1>2, <2>1, <2>2, <2>3 DEF Typed, TypeOK
<1>4. Windowed'
  BY <1>1, LookAheadKept DEF Windowed
<1>5. Ordered'
  BY DEF Ordered, Typed, NothingPending
<1> QED
  BY <1>3, <1>4, <1>5

(* One line is consumed, and what the parser keeps about documents changes *)
(* only by values of its types.                                            *)
LEMMA AdvanceKeepsWindow ==
  ASSUME WindowInv, at # "client", ret = "none", pos < Len(lines),
         pos' = pos + 1, at' \in {"scan", "node", "trail"},
         UNCHANGED <<mode, lines, exhausted, base, has_merge, recorded, ret, client, out>>,
         state' \in [pending_start : Starts, open_document : BOOLEAN, finished : BOOLEAN],
         ~state'.finished,
         directives' \in Dirs, active' \in [schema : Schemas, tags : SUBSET {"h"}],
         events' \in Seq(Items), doc' \in Starts,
         content_lines' \subseteq content_lines \union {pos}
  PROVE  WindowInv'
<1> USE DEF WindowInv
<1>1. /\ pos \in Nat /\ Len(lines) \in Nat /\ base \in Nat /\ base <= pos /\ Len(lines) <= MaxLines
      /\ MaxLines \in Nat
  BY Built, DocumentStreamAssumption DEF Typed, TypeOK
<1>2. Typed'
  <2>1. pos \in 0 .. (MaxLines - 1) /\ pos + 1 \in base .. Len(lines)
    BY <1>1
  <2>2. content_lines' \subseteq 0 .. (MaxLines - 1)
    BY <2>1 DEF Typed, TypeOK
  <2> QED
    BY <2>1, <2>2 DEF Typed, TypeOK, Dirs
<1>3. Windowed'
  <2>1. \A i \in (pos + 2) .. (Len(lines) - 1) : lines[i] = "blank"
    BY <1>1 DEF Windowed
  <2>2. \A i \in content_lines' : i < pos + 1
    <3>1. \A i \in content_lines : i \in Nat /\ i < pos
      BY DEF Windowed, Typed, TypeOK
    <3> QED
      BY <1>1, <3>1
  <2> QED
    BY <1>1, <2>1, <2>2 DEF Windowed
<1>4. Ordered'
  BY DEF Ordered, NothingPending
<1> QED
  BY <1>2, <1>3, <1>4

LEMMA ScanKeepsWindow ==
  ASSUME WindowInv, Scan
  PROVE  WindowInv'
<1> USE DEF WindowInv, buffer, history
<1>1. ASSUME NEW k, Scanning(k) PROVE at = "scan" /\ ret = "none" /\ CurrentKind = k
  BY <1>1 DEF Scanning
<1>2. ASSUME at = "scan", ret = "none" PROVE ~state.finished
  BY <1>2 DEF Ordered
<1>3. ASSUME NEW k \in LineKinds, Scanning(k) PROVE pos < Len(lines)
  BY <1>1, <1>3, AtLine DEF Typed
<1>4. {"blank", "content", "end"} \subseteq LineKinds /\ StartKinds \subseteq LineKinds
      /\ DirectiveKinds \subseteq LineKinds /\ {"start", "startValue"} \subseteq LineKinds
  BY DEF LineKinds, StartKinds
<1>5. CASE SkipBlank
  <2>1. at = "scan" /\ ret = "none" /\ pos < Len(lines) /\ ~state.finished
    BY <1>1, <1>2, <1>3, <1>4, <1>5 DEF SkipBlank
  <2> QED
    BY <1>5, <2>1, AdvanceKeepsWindow DEF SkipBlank, Typed, TypeOK, Dirs
<1>6. CASE EofAfterDirectives \/ DirectiveInsideDocument \/ DirectiveInvalid
           \/ EndAfterDirectives \/ ContentAfterDirectives
  BY <1>1, <1>6, RejectKeepsWindow
     DEF EofAfterDirectives, DirectiveInsideDocument, DirectiveInvalid, EndAfterDirectives,
         ContentAfterDirectives
<1>7. ASSUME NEW ds \in Dirs, Activate(ds) PROVE active' \in [schema : Schemas, tags : SUBSET {"h"}]
  BY <1>7, Built DEF Activate, Typed, TypeOK
<1>8. state.pending_start.directives \in Dirs /\ state.pending_start.line \in Nat
  BY Built DEF Starts
<1>9. pos \in pos .. Len(lines)
  BY Built
<1>10. CASE EofNullDocument
  <2>1. at = "scan" /\ ret = "none" /\ ~state.finished
    BY <1>1, <1>2, <1>10 DEF EofNullDocument
  <2>2. active' \in [schema : Schemas, tags : SUBSET {"h"}]
    BY <1>7, <1>8, <1>10 DEF EofNullDocument
  <2>3. NullDocument(FALSE, state.pending_start.line, pos) /\ has_merge' \in BOOLEAN
    BY <1>10 DEF EofNullDocument, NullDocument, FinishParsedDocument
  <2> QED
    BY <1>8, <1>9, <2>1, <2>2, <2>3, NullDocumentKeepsWindow
<1>11. CASE StartNullDocument
  <2>1. at = "scan" /\ ret = "none" /\ ~state.finished
    BY <1>1, <1>2, <1>11 DEF StartNullDocument
  <2>2. active' \in [schema : Schemas, tags : SUBSET {"h"}]
    BY <1>11 DEF StartNullDocument, Typed, TypeOK
  <2>3. NullDocument(FALSE, state.pending_start.line, pos) /\ has_merge' \in BOOLEAN
    BY <1>11 DEF StartNullDocument, NullDocument, FinishParsedDocument
  <2> QED
    BY <1>8, <1>9, <2>1, <2>2, <2>3, NullDocumentKeepsWindow
<1>12. CASE EndNullDocument
  <2>1. at = "scan" /\ ret = "none" /\ ~state.finished /\ pos < Len(lines)
    BY <1>1, <1>2, <1>3, <1>4, <1>12 DEF EndNullDocument
  <2>2. active' \in [schema : Schemas, tags : SUBSET {"h"}]
    BY <1>7, <1>8, <1>12 DEF EndNullDocument
  <2>3. NullDocument(TRUE, pos, pos + 1) /\ has_merge' \in BOOLEAN
    BY <1>12 DEF EndNullDocument, NullDocument, FinishParsedDocument
  <2>4. pos \in Nat /\ pos + 1 \in pos .. Len(lines)
    BY <2>1, Built
  <2> QED
    BY <2>1, <2>2, <2>3, <2>4, NullDocumentKeepsWindow
<1>13. CASE EofStreamEnd
  <2>1. at = "scan" /\ ret = "none"
    BY <1>1, <1>13 DEF EofStreamEnd
  <2>2. events' \in Seq(Items)
    BY <1>13, ClosesTyped, Emitted DEF EofStreamEnd
  <2>3. state' = [state EXCEPT !.open_document = FALSE, !.finished = TRUE] /\ ret' = "none_left"
    BY <1>13 DEF EofStreamEnd
  <2>4. Typed'
    BY <1>13, <2>1, <2>2, <2>3 DEF EofStreamEnd, Typed, TypeOK
  <2>5. Windowed'
    BY <1>13, <2>1, <2>3 DEF EofStreamEnd, Windowed
  <2>6. Ordered'
    BY <1>13, <2>1, <2>3 DEF EofStreamEnd, Ordered, Typed, NothingPending
  <2> QED
    BY <2>4, <2>5, <2>6
<1>14. CASE ParseDirective
  <2>1. PICK k \in DirectiveKinds :
          /\ Scanning(k) /\ pos' = pos + 1
          /\ directives' = [yaml |-> IF k \in Versions THEN k ELSE directives.yaml,
                            tags |-> IF k = "tag" THEN {"h"} ELSE directives.tags,
                            any  |-> TRUE]
          /\ UNCHANGED <<mode, buffer, base, at, state, active, has_merge, recorded,
                         events, ret, client, out, history>>
    BY <1>14 DEF ParseDirective
  <2>2. at = "scan" /\ ret = "none" /\ ~state.finished /\ pos < Len(lines)
    BY <1>1, <1>2, <1>3, <1>4, <2>1
  <2>3. directives' \in Dirs
    BY <2>1, Built DEF Dirs
  <2> QED
    BY <2>1, <2>2, <2>3, AdvanceKeepsWindow DEF Typed, TypeOK
<1>15. ASSUME NEW schema \in Schemas, ActivatePending(schema)
       PROVE  directives' \in Dirs /\ active' \in [schema : Schemas, tags : SUBSET {"h"}]
  BY <1>15, Built DEF ActivatePending, Dirs
<1>16. CASE StartMarker
  <2>1. at = "scan" /\ ret = "none" /\ ~state.finished /\ pos < Len(lines)
    BY <1>1, <1>2, <1>3, <1>4, <1>16 DEF StartMarker
  <2>2. events' \in Seq(Items)
    BY <1>16, ClosesTyped, Emitted DEF StartMarker
  <2>3. directives' \in Dirs /\ active' \in [schema : Schemas, tags : SUBSET {"h"}]
    BY <1>15, <1>16 DEF StartMarker, Typed, TypeOK
  <2>4. state' \in [pending_start : Starts, open_document : BOOLEAN, finished : BOOLEAN] /\ ~state'.finished
    BY <1>16, <2>1, Built DEF StartMarker, Typed
  <2> QED
    BY <1>16, <2>1, <2>2, <2>3, <2>4, AdvanceKeepsWindow DEF StartMarker, Typed
<1>17. CASE StartWithValue
  <2> DEFINE start == [line |-> pos, explicit |-> TRUE, directives |-> directives]
  <2>1. at = "scan" /\ ret = "none" /\ ~state.finished /\ pos < Len(lines)
    BY <1>1, <1>2, <1>3, <1>4, <1>17 DEF StartWithValue
  <2>2. start \in Starts
    BY Built
  <2>3. events' \in Seq(Items)
    <3>1. DocStart(start) \in Items
      BY <2>2, ItemsMade
    <3>2. Emit(Append(CloseOpen, DocStart(start)))
      BY <1>17, Zenon DEF StartWithValue
    <3>3. Append(CloseOpen, DocStart(start)) \in Seq(Items)
      BY <3>1, ClosesTyped, AppendProperties
    <3> QED
      BY <3>2, <3>3, Emitted
  <2>4. directives' \in Dirs /\ active' \in [schema : Schemas, tags : SUBSET {"h"}]
    BY <1>15, <1>17, Built DEF StartWithValue
  <2>5. state' \in [pending_start : Starts, open_document : BOOLEAN, finished : BOOLEAN] /\ ~state'.finished
    BY <1>17, <2>1, Built DEF StartWithValue, Typed
  <2> QED
    BY <1>17, <2>1, <2>2, <2>3, <2>4, <2>5, AdvanceKeepsWindow DEF StartWithValue
<1>18. CASE EndMarker
  <2> DEFINE end == IF state.open_document THEN <<DocEnd(pos, TRUE)>> ELSE <<>>
  <2>1. at = "scan" /\ ret = "none" /\ ~state.finished /\ pos < Len(lines)
    BY <1>1, <1>2, <1>3, <1>4, <1>18 DEF EndMarker
  <2>2. events' \in Seq(Items)
    <3>1. DocEnd(pos, TRUE) \in Items
      BY Built, ItemsMade
    <3>2. <<DocEnd(pos, TRUE)>> \in Seq(Items) /\ <<>> \in Seq(Items)
      BY <3>1, ItemSequences, Zenon
    <3>3. end \in Seq(Items)
      BY <3>2, Zenon
    <3>4. Emit(end)
      BY <1>18, Zenon DEF EndMarker
    <3> QED
      BY <3>3, <3>4, Emitted
  <2>3. state' \in [pending_start : Starts, open_document : BOOLEAN, finished : BOOLEAN] /\ ~state'.finished
    BY <1>18, <2>1 DEF EndMarker, Typed
  <2> QED
    BY <1>18, <2>1, <2>2, <2>3, Built, AdvanceKeepsWindow DEF EndMarker, Typed, TypeOK
<1>19. CASE ContentBegin
  <2>1. at = "scan" /\ ret = "none" /\ ~state.finished /\ pos < Len(lines)
    BY <1>1, <1>2, <1>3, <1>4, <1>19 DEF ContentBegin
  <2>2. events' \in Seq(Items)
    <3>1. DocStart(ContentStart) \in Items
      BY Built, ItemsMade
    <3>2. Emit(Append(CloseOpen, DocStart(ContentStart)))
      BY <1>19 DEF ContentBegin
    <3>3. Append(CloseOpen, DocStart(ContentStart)) \in Seq(Items)
      BY <3>1, ClosesTyped, AppendProperties
    <3> QED
      BY <3>2, <3>3, Emitted
  <2>3. active' \in [schema : Schemas, tags : SUBSET {"h"}]
    <3>1. ContentStart.directives \in Dirs
      BY Built DEF Starts
    <3> QED
      BY <1>19, <3>1, Built DEF ContentBegin
  <2>4. state' \in [pending_start : Starts, open_document : BOOLEAN, finished : BOOLEAN] /\ ~state'.finished
    BY <1>19, <2>1, Built DEF ContentBegin, Typed
  <2> QED
    BY <1>19, <2>1, <2>2, <2>3, <2>4, Built, AdvanceKeepsWindow DEF ContentBegin
<1> QED
  BY <1>5, <1>6, <1>10, <1>11, <1>12, <1>13, <1>14, <1>16, <1>17, <1>18, <1>19 DEF Scan

LEMMA NodeKeepsWindow ==
  ASSUME WindowInv, Node
  PROVE  WindowInv'
<1> USE DEF WindowInv, buffer, history
<1>1. ASSUME at # "client", ret = "none" PROVE ~state.finished
  BY <1>1 DEF Ordered
<1>2. {"blank", "content"} \union DirectiveKinds \subseteq LineKinds
  BY DEF LineKinds
<1>3. CASE NodeConsumeLine
  <2>1. at = "node" /\ ret = "none" /\ ~state.finished /\ pos < Len(lines)
    BY <1>1, <1>2, <1>3, AtLine DEF NodeConsumeLine, Typed
  <2> QED
    BY <1>3, <2>1, Built, AdvanceKeepsWindow DEF NodeConsumeLine, Typed, TypeOK
<1>4. CASE NodeMergeKey
  <2>1. Typed'
    BY <1>4 DEF NodeMergeKey, Typed, TypeOK
  <2> QED
    BY <1>4, <2>1 DEF NodeMergeKey, Windowed, Ordered, NothingPending
<1>5. CASE NodeComplete
  <2>1. events' \in Seq(Items)
    <3>1. doc.line \in Nat
      BY DEF Typed, Starts
    <3>2. <<Event("Node", doc.line)>> \in Seq(Items)
      BY <3>1, ItemsMade, ItemSequences
    <3> QED
      BY <1>5, <3>2, Emitted DEF NodeComplete
  <2>2. state' = [state EXCEPT !.open_document = TRUE] /\ at' = "trail" /\ ret = "none"
    BY <1>5 DEF NodeComplete
  <2>3. Typed'
    BY <1>5, <2>1, <2>2 DEF NodeComplete, Typed, TypeOK
  <2>4. Windowed'
    BY <1>5, <2>2 DEF NodeComplete, Windowed
  <2>5. Ordered'
    BY <1>5, <2>2 DEF NodeComplete, Ordered, NothingPending, Typed
  <2> QED
    BY <2>3, <2>4, <2>5
<1>6. CASE NodeError \/ TrailingContent
  BY <1>6, RejectKeepsWindow DEF NodeError, TrailingContent
<1>7. CASE DocumentParsed
  <2>1. at = "trail" /\ ret = "none" /\ ~state.finished
    BY <1>1, <1>7 DEF DocumentParsed
  <2>2. base' = pos
    BY <1>7, Built, Discarded DEF DocumentParsed, FinishParsedDocument, Typed
  <2>3. ret' = "doc" /\ recorded' \in [schema : Schemas, merge : BOOLEAN] /\ has_merge' = FALSE
    BY <1>7 DEF DocumentParsed, FinishParsedDocument, Typed, TypeOK
  <2>4. Typed'
    <3>1. base' \in 0 .. Len(lines) /\ pos \in base' .. Len(lines)
      BY <2>2, Built
    <3> QED
      BY <1>7, <2>3, <3>1 DEF DocumentParsed, Typed, TypeOK
  <2>5. Windowed'
    BY <1>7, <2>2, <2>3 DEF DocumentParsed, Windowed
  <2>6. Ordered'
    BY <1>7, <2>1, <2>3 DEF DocumentParsed, Ordered, NothingPending
  <2> QED
    BY <2>4, <2>5, <2>6
<1> QED
  BY <1>3, <1>4, <1>5, <1>6, <1>7 DEF Node

LEMMA IteratorKeepsWindow ==
  ASSUME WindowInv, Iterator
  PROVE  WindowInv'
<1> USE DEF WindowInv, buffer, history
<1>1. /\ pos \in Nat /\ client.pending \in Seq(Items) /\ out \in Seq(Items) /\ doc.line \in Nat
      /\ events \in Seq(Items)
  BY Built DEF Typed, Starts
<1>2. CASE Call
  <2>1. at = "client" /\ ~client.finished /\ NothingPending /\ ret = "none"
    BY <1>2 DEF Call, Ordered
  <2>2. ~state.finished /\ ret' = "none" /\ at' = "scan"
    BY <1>2, <2>1 DEF Call, Ordered
  <2>3. Typed'
    BY <1>2, <2>2 DEF Call, Typed, TypeOK
  <2> QED
    BY <1>2, <2>1, <2>2, <2>3 DEF Call, Windowed, Ordered, NothingPending
<1>3. CASE NextEvent
  <2>1. Head(client.pending) \in Items /\ Tail(client.pending) \in Seq(Items)
    BY <1>1, <1>3, HeadTailProperties DEF NextEvent
  <2>2. out' \in Seq(Items) /\ client' = [client EXCEPT !.pending = Tail(client.pending)]
    BY <1>1, <1>3, <2>1, AppendProperties DEF NextEvent
  <2>3. Typed'
    BY <1>3, <2>1, <2>2, ZenonT(60) DEF NextEvent, Typed, TypeOK
  <2> QED
    BY <1>3, <2>2, <2>3 DEF NextEvent, Windowed, Ordered, Typed, NothingPending
<1>4. CASE NextPendingError
  <2>1. Event("Err", pos) \in Items
    BY <1>1, ItemsMade
  <2>2. out' \in Seq(Items) /\ client' = [client EXCEPT !.error = FALSE]
    BY <1>1, <1>4, <2>1, AppendProperties DEF NextPendingError
  <2>3. Typed'
    BY <1>4, <2>2, ZenonT(60) DEF NextPendingError, Typed, TypeOK
  <2> QED
    BY <1>4, <2>2, <2>3 DEF NextPendingError, Windowed, Ordered, Typed, NothingPending
<1>5. CASE NextAfterEnd
  BY <1>5 DEF NextAfterEnd, vars, Typed, TypeOK, Windowed, Ordered, NothingPending
<1>6. ASSUME ret # "none"
      PROVE  /\ at # "client" /\ ~client.finished /\ NothingPending
             /\ (ret # "doc") = state.finished
             /\ ret = "doc" => base = pos
             /\ ret \in {"doc", "err", "none_left"}
  BY <1>6 DEF Ordered, Windowed, Typed, TypeOK
<1>7. CASE ReturnToEvents
  <2> DEFINE last == IF ret = "none_left" THEN <<Event("StreamEnd", pos)>> ELSE <<>>
  <2>1. events \o last \in Seq(Items)
    <3>1. Event("StreamEnd", pos) \in Items
      BY <1>1, ItemsMade
    <3>2. last \in Seq(Items)
      BY <3>1, ItemSequences
    <3> QED
      BY <1>1, <3>2, ConcatProperties
  <2>2. /\ client' = [pending |-> events \o last, error |-> Failed, finished |-> ret # "doc"]
        /\ events' = <<>> /\ at' = "client" /\ ret' = "none" /\ ret # "none"
    BY <1>7 DEF ReturnToEvents
  <2>3. Failed \in BOOLEAN /\ <<>> \in Seq(Items)
    BY ItemSequences DEF Failed
  <2>4. client' \in [pending : Seq(Items), error : BOOLEAN, finished : BOOLEAN]
    BY <2>1, <2>2, <2>3
  <2>5. client'.finished = (ret # "doc")
    BY <2>2
  <2>6. Typed'
    BY <1>7, <2>2, <2>3, <2>4 DEF ReturnToEvents, Typed, TypeOK
  <2>7. Windowed'
    BY <1>6, <1>7, <2>2 DEF ReturnToEvents, Windowed
  <2>8. Ordered'
    BY <1>6, <1>7, <2>2, <2>5 DEF ReturnToEvents, Ordered
  <2> QED
    BY <2>6, <2>7, <2>8
<1>8. CASE ReturnToDocuments
  <2>1. client' = [client EXCEPT !.finished = ret # "doc"] /\ at' = "client" /\ ret' = "none" /\ ret # "none"
    BY <1>8 DEF ReturnToDocuments
  <2>2. out' \in Seq(Items)
    <3>1. Event("Err", pos) \in Items /\ DocumentItem \in Items
      BY <1>1, ItemsMade, DocumentMade
    <3>2. ret = "doc" \/ Failed \/ ret = "none_left"
      BY <1>6, <2>1 DEF Failed
    <3>3. ret = "doc" => out' = Append(out, DocumentItem)
      BY <1>8 DEF ReturnToDocuments, Failed
    <3>4. Failed => out' = Append(out, Event("Err", pos))
      BY <1>8 DEF ReturnToDocuments, Failed
    <3>5. ret = "none_left" => out' = out
      BY <1>8 DEF ReturnToDocuments, Failed
    <3>6. \A x \in Items : Append(out, x) \in Seq(Items)
      BY <1>1, AppendProperties
    <3> QED
      BY <1>1, <3>1, <3>2, <3>3, <3>4, <3>5, <3>6, Zenon
  <2>3. Typed'
    BY <1>8, <2>1, <2>2 DEF ReturnToDocuments, Typed, TypeOK
  <2>4. Windowed'
    BY <1>6, <1>8, <2>1 DEF ReturnToDocuments, Windowed
  <2>5. Ordered'
    BY <1>6, <1>8, <2>1 DEF ReturnToDocuments, Ordered, Typed
  <2> QED
    BY <2>3, <2>4, <2>5
<1>9. CASE ReturnMergeError
  <2>1. out' \in Seq(Items)
    <3>1. Event("MergeErr", doc.line) \in Items
      BY <1>1, ItemsMade
    <3>2. out' = Append(out, Event("MergeErr", doc.line))
      BY <1>9, Zenon DEF ReturnMergeError
    <3>3. \A x \in Items : Append(out, x) \in Seq(Items)
      BY <1>1, AppendProperties
    <3> QED
      BY <3>1, <3>2, <3>3, Zenon
  <2>2. at' = "client" /\ ret' = "none" /\ ret = "doc"
    BY <1>9 DEF ReturnMergeError
  <2>3. Typed'
    BY <1>9, <2>1, <2>2 DEF ReturnMergeError, Typed, TypeOK
  <2>4. Windowed'
    BY <1>6, <1>9, <2>2 DEF ReturnMergeError, Windowed
  <2>5. Ordered'
    BY <1>6, <1>9, <2>2 DEF ReturnMergeError, Ordered
  <2> QED
    BY <2>3, <2>4, <2>5
<1> QED
  BY <1>2, <1>3, <1>4, <1>5, <1>7, <1>8, <1>9 DEF Iterator

LEMMA WindowInvInit == Init => WindowInv
<1>1. SUFFICES ASSUME Init PROVE WindowInv
  OBVIOUS
<1>2. <<>> \in Seq(Items) /\ <<Event("StreamStart", 0)>> \in Seq(Items)
  BY ItemsMade, ItemSequences
<1>3. NoDirectives \in Dirs /\ NoStart \in Starts /\ SchemaFor(NoDirectives) \in Schemas
  BY DocumentStreamAssumption DEF NoDirectives, NoStart, Dirs, Starts, SchemaFor, Schemas
<1>4. TypeOK
  <2>1. lines = <<>> /\ base = 0 /\ pos = 0 /\ content_lines = {} /\ MaxLines \in Nat
    BY <1>1, DocumentStreamAssumption DEF Init
  <2>2. /\ lines \in Seq(LineKinds) /\ Len(lines) = 0 /\ Len(lines) <= MaxLines
        /\ base \in 0 .. Len(lines) /\ pos \in base .. Len(lines)
    BY <2>1
  <2>3. active \in [schema : Schemas, tags : SUBSET {"h"}]
    BY <1>1, <1>3 DEF Init
  <2>4. recorded \in [schema : Schemas, merge : BOOLEAN] /\ directives \in Dirs
    BY <1>1, <1>3 DEF Init, Schemas
  <2> QED
    BY <1>1, <2>1, <2>2, <2>3, <2>4 DEF Init, TypeOK, Dirs
<1>5. client \in [pending : Seq(Items), error : BOOLEAN, finished : BOOLEAN]
  BY <1>1, <1>2 DEF Init
<1>6. Typed
  BY <1>1, <1>2, <1>3, <1>4, <1>5 DEF Init, Typed
<1>7. Windowed
  BY <1>1, DocumentStreamAssumption DEF Init, Windowed
<1>8. Ordered
  BY <1>1 DEF Init, Ordered
<1> QED
  BY <1>6, <1>7, <1>8 DEF WindowInv

LEMMA WindowInvNext == WindowInv /\ [Next]_vars => WindowInv'
<1>1. CASE UNCHANGED vars
  BY <1>1 DEF vars, buffer, history, WindowInv, Typed, TypeOK, Windowed, Ordered, NothingPending
<1> QED
  BY <1>1, ReadLineKeepsWindow, ScanKeepsWindow, NodeKeepsWindow, IteratorKeepsWindow DEF Next

(* The window in between documents: nothing of what was handed out, and    *)
(* one line at most that is not blank.                                     *)
LEMMA WindowInvShows == WindowInv => WindowExact
<1>1. SUFFICES ASSUME WindowInv PROVE WindowExact
  OBVIOUS
<1>2. TypeOK /\ ret # "reclaimed"
  BY <1>1 DEF WindowInv, Typed, Windowed
<1>3. ASSUME at = "client", ~state.finished
      PROVE  /\ Retained \intersect {i + 1 : i \in content_lines} = {}
             /\ Cardinality({i \in Retained : lines[i] # "blank"}) <= 1
  <2>1. base = pos /\ Retained = (pos + 1) .. Len(lines) /\ pos \in Nat /\ Len(lines) \in Nat
    BY <1>1, <1>3, Built DEF WindowInv, Windowed, Retained
  <2>2. \A i \in content_lines : i \in Nat /\ i < pos
    BY <1>1 DEF WindowInv, Windowed, Typed, TypeOK
  <2>3. {i \in Retained : lines[i] # "blank"} \subseteq {Len(lines)}
    <3>1. \A i \in Retained : i # Len(lines) => i \in (pos + 1) .. (Len(lines) - 1)
      BY <2>1
    <3> QED
      BY <1>1, <3>1 DEF WindowInv, Windowed
  <2>4. IsFiniteSet({Len(lines)}) /\ Cardinality({Len(lines)}) = 1
    BY FS_Singleton
  <2>5. Cardinality({i \in Retained : lines[i] # "blank"}) <= 1
    BY <2>3, <2>4, FS_Subset
  <2>6. Retained \intersect {i + 1 : i \in content_lines} = {}
    BY <2>1, <2>2
  <2> QED
    BY <2>5, <2>6
<1> QED
  BY <1>2, <1>3 DEF WindowExact

(* The line window, whatever the input: what is retained is within what    *)
(* has been read and what is needed, no discarded line is asked for, and   *)
(* nothing of a document stays retained once it has been handed out.       *)
THEOREM WindowAlwaysExact == Spec => []WindowExact
<1>1. Spec => []WindowInv
  BY WindowInvInit, WindowInvNext, PTL DEF Spec
<1> QED
  BY <1>1, WindowInvShows, PTL

-----------------------------------------------------------------------------
(* The event iterator implements EventProtocol.  What has been told is the *)
(* items yielded, then those pending, then those still in the recorder.    *)
Between   == {"StreamStart", "DocEnd"}
Unclosed  == {"StreamStart", "DocEnd", "DocStart", "Node"}
Successor == {<<"none", "StreamStart">>, <<"DocStart", "Node">>, <<"Node", "DocEnd">>}
             \union (Between \X {"DocStart", "StreamEnd"}) \union (Unclosed \X {"Err"})

(* The items of q, told after one of type s, follow the protocol.          *)
Follows(s, q) ==
  /\ q # <<>> => <<s, q[1].t>> \in Successor
  /\ \A i \in 1 .. (Len(q) - 1) : <<q[i].t, q[i + 1].t>> \in Successor

LastOf(s, q) == IF q = <<>> THEN s ELSE q[Len(q)].t

Promised == LastOf(LastItem, client.pending)
Told     == LastOf(Promised, events)

(* Where the parser stands decides what it has told last: the end of a     *)
(* document whose node is complete is still owed.                          *)
ToldAsFar ==
  /\ at \in {"client", "scan"} /\ ~client.finished =>
        IF state.open_document THEN Told = "Node" ELSE Told \in Between
  /\ at = "node"  => Told = "DocStart"
  /\ at = "trail" => Told = "Node" /\ state.open_document
  /\ client.error => Told \in Unclosed

ToldInv ==
  /\ WindowInv
  /\ PendingStart => ~state.open_document
  /\ at = "node" => ~PendingStart
  /\ ret = "none_left" => at = "scan" /\ ~state.open_document
  /\ ret = "doc" => at # "node"
  /\ client.error => client.finished
  /\ mode = "events" => /\ Follows(LastItem, client.pending) /\ Follows(Promised, events)
                        /\ ToldAsFar
                        /\ at = "client" => events = <<>>

(* Of two stretches told in a row, and of the first item told.             *)
LEMMA FollowsConcat ==
  ASSUME NEW S, NEW q \in Seq(S), NEW r \in Seq(S), NEW s,
         Follows(s, q), Follows(LastOf(s, q), r)
  PROVE  Follows(s, q \o r) /\ LastOf(s, q \o r) = LastOf(LastOf(s, q), r)
<1>1. q = <<>> => q \o r = r
  OBVIOUS
<1>2. r = <<>> => q \o r = q
  OBVIOUS
<1>3. CASE q = <<>> \/ r = <<>>
  BY <1>1, <1>2, <1>3 DEF LastOf
<1>4. CASE q # <<>> /\ r # <<>>
  <2>1. /\ Len(q) \in Nat /\ Len(r) \in Nat /\ Len(q) > 0 /\ Len(r) > 0
        /\ q \o r \in Seq(S) /\ Len(q \o r) = Len(q) + Len(r)
        /\ \A i \in 1 .. Len(q) : (q \o r)[i] = q[i]
        /\ \A i \in (Len(q) + 1) .. (Len(q) + Len(r)) : (q \o r)[i] = r[i - Len(q)]
    BY <1>4
  <2>2. q \o r # <<>>
    BY <2>1
  <2>3. LastOf(s, q \o r) = LastOf(LastOf(s, q), r)
    BY <1>4, <2>1, <2>2 DEF LastOf
  <2>4. <<s, (q \o r)[1].t>> \in Successor
    <3>1. (q \o r)[1] = q[1]
      BY <2>1
    <3>2. <<s, q[1].t>> \in Successor
      BY <1>4 DEF Follows
    <3> QED
      BY <3>1, <3>2
  <2>5. ASSUME NEW i \in 1 .. (Len(q \o r) - 1)
        PROVE  <<(q \o r)[i].t, (q \o r)[i + 1].t>> \in Successor
    <3>1. CASE i < Len(q)
      <4>1. i \in 1 .. (Len(q) - 1) /\ (q \o r)[i] = q[i] /\ (q \o r)[i + 1] = q[i + 1]
        BY <2>1, <3>1
      <4> QED
        BY <4>1 DEF Follows
    <3>2. CASE i = Len(q)
      <4>1. (q \o r)[i] = q[Len(q)] /\ (q \o r)[i + 1] = r[1]
        BY <2>1, <3>2
      <4>2. <<q[Len(q)].t, r[1].t>> \in Successor
        BY <1>4 DEF Follows, LastOf
      <4> QED
        BY <4>1, <4>2
    <3>3. CASE i > Len(q)
      <4> DEFINE j == i - Len(q)
      <4>1. j \in 1 .. (Len(r) - 1) /\ (q \o r)[i] = r[j] /\ (q \o r)[i + 1] = r[j + 1]
        BY <2>1, <3>3
      <4>2. <<r[j].t, r[j + 1].t>> \in Successor
        BY <4>1 DEF Follows
      <4> QED
        BY <4>1, <4>2
    <3>4. i < Len(q) \/ i = Len(q) \/ i > Len(q)
      BY <2>1
    <3> QED
      BY <3>1, <3>2, <3>3, <3>4, Zenon
  <2> QED
    BY <2>2, <2>3, <2>4, <2>5 DEF Follows
<1> QED
  BY <1>3, <1>4

LEMMA FollowsTail ==
  ASSUME NEW S, NEW q \in Seq(S), NEW s, q # <<>>, Follows(s, q)
  PROVE  /\ <<s, Head(q).t>> \in Successor
         /\ Follows(Head(q).t, Tail(q))
         /\ LastOf(Head(q).t, Tail(q)) = LastOf(s, q)
<1>1. /\ Len(q) \in Nat /\ Len(q) > 0 /\ Head(q) = q[1] /\ Tail(q) \in Seq(S)
      /\ Len(Tail(q)) = Len(q) - 1
      /\ \A i \in 1 .. (Len(q) - 1) : Tail(q)[i] = q[i + 1]
  OBVIOUS
<1>2. Follows(Head(q).t, Tail(q))
  <2>1. ASSUME Tail(q) # <<>> PROVE <<Head(q).t, Tail(q)[1].t>> \in Successor
    <3>1. 1 \in 1 .. (Len(q) - 1)
      BY <1>1, <2>1
    <3> QED
      BY <1>1, <3>1 DEF Follows
  <2>2. ASSUME NEW i \in 1 .. (Len(Tail(q)) - 1)
        PROVE  <<Tail(q)[i].t, Tail(q)[i + 1].t>> \in Successor
    <3>1. i + 1 \in 1 .. (Len(q) - 1) /\ Tail(q)[i] = q[i + 1] /\ Tail(q)[i + 1] = q[i + 1 + 1]
      BY <1>1
    <3> QED
      BY <3>1 DEF Follows
  <2> QED
    BY <2>1, <2>2 DEF Follows
<1>3. LastOf(Head(q).t, Tail(q)) = LastOf(s, q)
  <2>1. CASE Tail(q) = <<>>
    BY <1>1, <2>1 DEF LastOf
  <2>2. CASE Tail(q) # <<>>
    <3>1. Len(q) - 1 \in 1 .. (Len(q) - 1) /\ Tail(q)[Len(q) - 1] = q[Len(q)]
      BY <1>1, <2>2
    <3> QED
      BY <1>1, <2>2, <3>1 DEF LastOf
  <2> QED
    BY <2>1, <2>2
<1> QED
  BY <1>1, <1>2, <1>3 DEF Follows

(* What a step of the parser tells is told after everything else.          *)
LEMMA TellsOn ==
  ASSUME ToldInv, mode = "events", NEW es \in Seq(Items), Emit(es), Follows(Told, es),
         UNCHANGED <<client, out>>
  PROVE  /\ Follows(LastItem', client'.pending) /\ Follows(Promised', events')
         /\ Told' = LastOf(Told, es)
<1>1. LastItem' = LastItem /\ Promised' = Promised
  BY DEF LastItem, Promised, LastOf
<1>2. events' = events \o es /\ events \in Seq(Items)
  BY DEF Emit, ToldInv, WindowInv, Typed
<1>3. Follows(LastItem, client.pending) /\ Follows(Promised, events)
  BY DEF ToldInv
<1>4. Follows(Promised, events \o es) /\ LastOf(Promised, events \o es) = LastOf(Told, es)
  BY <1>2, <1>3, FollowsConcat DEF Told
<1> QED
  BY <1>1, <1>2, <1>3, <1>4 DEF Told

LEMMA ToldKept ==
  ASSUME ToldInv, mode = "events", UNCHANGED <<events, client, out>>
  PROVE  /\ Follows(LastItem', client'.pending) /\ Follows(Promised', events')
         /\ Told' = Told
BY DEF ToldInv, Told, Promised, LastItem, LastOf, Follows

(* One item, the owed end, the owed end with a start, a whole null         *)
(* document.                                                               *)
LEMMA FollowsOne ==
  ASSUME NEW s, NEW x \in Items, <<s, x.t>> \in Successor
  PROVE  <<x>> \in Seq(Items) /\ Follows(s, <<x>>) /\ LastOf(s, <<x>>) = x.t
<1>1. <<x>> \in Seq(Items) /\ <<x>> # <<>> /\ Len(<<x>>) = 1 /\ <<x>>[1] = x
  OBVIOUS
<1> QED
  BY <1>1 DEF Follows, LastOf

LEMMA FollowsNone ==
  ASSUME NEW s
  PROVE  <<>> \in Seq(Items) /\ Follows(s, <<>>) /\ LastOf(s, <<>>) = s
BY DEF Follows, LastOf

LEMMA TellsClose ==
  ASSUME ToldInv, mode = "events", at = "scan", ret = "none", NEW b \in BOOLEAN,
         NEW es, es = IF state.open_document THEN <<DocEnd(pos, b)>> ELSE <<>>
  PROVE  es \in Seq(Items) /\ Follows(Told, es) /\ LastOf(Told, es) \in Between
<1>1. ~client.finished /\ pos \in Nat
  BY Built DEF ToldInv, WindowInv, Ordered
<1>2. IF state.open_document THEN Told = "Node" ELSE Told \in Between
  BY <1>1 DEF ToldInv, ToldAsFar
<1>3. CASE state.open_document
  <2>1. DocEnd(pos, b) \in Items /\ DocEnd(pos, b).t = "DocEnd"
    BY <1>1, ItemsMade DEF DocEnd
  <2>2. <<Told, "DocEnd">> \in Successor
    BY <1>2, <1>3 DEF Successor
  <2>3. /\ <<DocEnd(pos, b)>> \in Seq(Items)
        /\ Follows(Told, <<DocEnd(pos, b)>>)
        /\ LastOf(Told, <<DocEnd(pos, b)>>) = "DocEnd"
    BY <2>1, <2>2, FollowsOne
  <2>4. es = <<DocEnd(pos, b)>>
    BY <1>3
  <2> QED
    BY <2>3, <2>4, Zenon DEF Between
<1>4. CASE ~state.open_document
  <2>1. es = <<>>
    BY <1>4
  <2> QED
    BY <1>2, <1>4, <2>1, FollowsNone
<1> QED
  BY <1>3, <1>4

LEMMA TellsStart ==
  ASSUME ToldInv, mode = "events", at = "scan", ret = "none", NEW s \in Starts
  PROVE  /\ Append(CloseOpen, DocStart(s)) \in Seq(Items)
         /\ Follows(Told, Append(CloseOpen, DocStart(s)))
         /\ LastOf(Told, Append(CloseOpen, DocStart(s))) = "DocStart"
<1> DEFINE x == DocStart(s)
<1>1. CloseOpen \in Seq(Items) /\ Follows(Told, CloseOpen) /\ LastOf(Told, CloseOpen) \in Between
  <2>1. FALSE \in BOOLEAN
    OBVIOUS
  <2> QED
    BY <2>1, TellsClose, Zenon DEF CloseOpen
<1>2. x \in Items /\ x.t = "DocStart"
  BY ItemsMade DEF DocStart
<1>3. <<LastOf(Told, CloseOpen), x.t>> \in Successor
  BY <1>1, <1>2 DEF Successor
<1>4. /\ <<x>> \in Seq(Items) /\ Follows(LastOf(Told, CloseOpen), <<x>>)
      /\ LastOf(LastOf(Told, CloseOpen), <<x>>) = "DocStart"
  BY <1>2, <1>3, FollowsOne
<1>5. Append(CloseOpen, x) = CloseOpen \o <<x>> /\ CloseOpen \o <<x>> \in Seq(Items)
  BY <1>1, <1>2
<1>6. /\ Follows(Told, CloseOpen \o <<x>>)
      /\ LastOf(Told, CloseOpen \o <<x>>) = LastOf(LastOf(Told, CloseOpen), <<x>>)
  BY <1>1, <1>4, FollowsConcat
<1> QED
  BY <1>4, <1>5, <1>6, Zenon

LEMMA TellsNull ==
  ASSUME NEW x \in Items, NEW y \in Items, NEW z \in Items, NEW s \in Between,
         x.t = "DocStart", y.t = "Node", z.t = "DocEnd"
  PROVE  /\ <<x, y, z>> \in Seq(Items) /\ Follows(s, <<x, y, z>>)
         /\ LastOf(s, <<x, y, z>>) \in Between
<1> DEFINE q == <<x, y, z>>
<1>1. q \in Seq(Items) /\ Len(q) = 3 /\ q # <<>> /\ q[1] = x /\ q[2] = y /\ q[3] = z
  OBVIOUS
<1>2. <<s, x.t>> \in Successor /\ <<x.t, y.t>> \in Successor /\ <<y.t, z.t>> \in Successor
  BY DEF Successor
<1>3. ASSUME NEW i \in 1 .. (Len(q) - 1) PROVE <<q[i].t, q[i + 1].t>> \in Successor
  <2> HIDE DEF q
  <2>1. (i = 1 /\ i + 1 = 2) \/ (i = 2 /\ i + 1 = 3)
    BY <1>1
  <2> QED
    BY <1>1, <1>2, <2>1
<1> HIDE DEF q
<1>4. Follows(s, q)
  BY <1>1, <1>2, <1>3 DEF Follows
<1>5. LastOf(s, q) \in Between
  BY <1>1 DEF LastOf, Between
<1> QED
  BY <1>1, <1>4, <1>5 DEF q

LEMMA ToldQuiet ==
  ASSUME ToldInv, WindowInv', UNCHANGED <<mode, events, client, out>>,
         state'.open_document = state.open_document,
         state'.pending_start = state.pending_start,
         at' = at \/ (at = "client" /\ at' = "scan"),
         ret' # "none_left", ret' = "doc" => at = "trail"
  PROVE  ToldInv'
<1>1. ASSUME mode' = "events"
      PROVE  /\ Follows(LastItem', client'.pending) /\ Follows(Promised', events')
             /\ ToldAsFar' /\ (at' = "client" => events' = <<>>)
  <2>1. mode = "events"
    BY <1>1
  <2>2. Told' = Told /\ Follows(LastItem', client'.pending) /\ Follows(Promised', events')
    BY <2>1, ToldKept
  <2> QED
    BY <2>1, <2>2 DEF ToldInv, ToldAsFar
<1>2. PendingStart' = PendingStart
  BY DEF PendingStart
<1> QED
  BY <1>1, <1>2 DEF ToldInv

(* A step of the scanner that tells es and moves on.                       *)
LEMMA ToldScan ==
  ASSUME ToldInv, WindowInv', at = "scan", ret = "none",
         NEW es, mode = "events" => es \in Seq(Items) /\ Follows(Told, es), Emit(es),
         UNCHANGED <<mode, client, out>>,
         PendingStart' => ~state'.open_document,
         at' = "node" => ~PendingStart',
         \/ /\ at' = "scan" /\ ~state'.open_document
            /\ mode = "events" => LastOf(Told, es) \in Between
         \/ /\ at' = "node" /\ ret' = "none"
            /\ mode = "events" => LastOf(Told, es) = "DocStart"
  PROVE  ToldInv'
<1>1. ~client.finished /\ ~client.error
  BY DEF ToldInv, WindowInv, Ordered, NothingPending
<1>2. ASSUME mode' = "events"
      PROVE  /\ Follows(LastItem', client'.pending) /\ Follows(Promised', events')
             /\ ToldAsFar' /\ (at' = "client" => events' = <<>>)
  <2>1. mode = "events"
    BY <1>2
  <2>2. /\ Follows(LastItem', client'.pending) /\ Follows(Promised', events')
        /\ Told' = LastOf(Told, es)
    BY <2>1, TellsOn
  <2> QED
    BY <1>1, <2>1, <2>2 DEF ToldAsFar
<1>3. ret' = "none_left" => at' = "scan" /\ ~state'.open_document
  OBVIOUS
<1>4. ret' = "doc" => at' # "node"
  OBVIOUS
<1> QED
  BY <1>1, <1>2, <1>3, <1>4 DEF ToldInv

LEMMA ScanTells ==
  ASSUME ToldInv, WindowInv', Scan
  PROVE  ToldInv'
<1> USE DEF buffer, history
<1>1. at = "scan" /\ ret = "none" /\ WindowInv /\ Typed
  BY DEF Scan, Scanning, SkipBlank, EofAfterDirectives, EofNullDocument, EofStreamEnd,
         DirectiveInsideDocument, ParseDirective, DirectiveInvalid, StartNullDocument, StartMarker,
         StartWithValue, EndAfterDirectives, EndNullDocument, EndMarker, ContentAfterDirectives,
         ContentBegin, ToldInv, WindowInv
<1>2. CASE SkipBlank \/ ParseDirective
  <2>1. UNCHANGED <<mode, events, client, out, state, at, ret>>
    BY <1>2 DEF SkipBlank, ParseDirective
  <2> QED
    BY <1>1, <2>1, ToldQuiet
<1>3. CASE EofAfterDirectives \/ DirectiveInsideDocument \/ DirectiveInvalid
           \/ EndAfterDirectives \/ ContentAfterDirectives
  <2>1. Reject
    BY <1>3 DEF EofAfterDirectives, DirectiveInsideDocument, DirectiveInvalid, EndAfterDirectives,
                ContentAfterDirectives
  <2>2. UNCHANGED <<mode, events, client, out, at>> /\ ret' = "err"
        /\ state' = [state EXCEPT !.finished = TRUE]
    BY <2>1 DEF Reject, Stop
  <2> QED
    BY <1>1, <2>2, ToldQuiet DEF Typed
<1>4. ASSUME NEW e \in BOOLEAN, NEW l \in Nat, NEW p, PendingStart, NullDocument(e, l, p)
      PROVE  ToldInv'
  <2> DEFINE x == DocStart(state.pending_start)
             y == Event("Node", state.pending_start.line)
             z == DocEnd(l, e)
             es == <<x, y, z>>
  <2>1. Emit(es)
    BY <1>4, Zenon DEF NullDocument
  <2>2. x \in Items /\ y \in Items /\ z \in Items /\ x.t = "DocStart" /\ y.t = "Node" /\ z.t = "DocEnd"
    <3>1. state.pending_start \in Starts /\ state.pending_start.line \in Nat
      BY <1>1, Built DEF Starts
    <3>2. x \in Items /\ y \in Items /\ z \in Items
      BY <3>1, ItemsMade
    <3> QED
      BY <3>2 DEF DocStart, Event, DocEnd
  <2>3. ~state.open_document
    BY <1>4 DEF ToldInv
  <2>4. mode = "events" => Told \in Between
    BY <1>1, <2>3 DEF ToldInv, ToldAsFar, WindowInv, Ordered
  <2> HIDE DEF x, y, z
  <2>5. mode = "events" => es \in Seq(Items) /\ Follows(Told, es) /\ LastOf(Told, es) \in Between
    BY <2>2, <2>4, TellsNull
  <2> HIDE DEF es
  <2>6. /\ UNCHANGED <<mode, client, out, at>> /\ state'.pending_start = NoStart
        /\ state'.open_document = state.open_document
    BY <1>1, <1>4 DEF NullDocument, Typed
  <2>7. ~PendingStart'
    BY <2>6 DEF PendingStart, NoStart, NoDirectives
  <2> QED
    BY <1>1, <2>1, <2>3, <2>5, <2>6, <2>7, ToldScan
<1>5. CASE EofNullDocument \/ StartNullDocument \/ EndNullDocument
  <2>1. state.pending_start.line \in Nat /\ pos \in Nat
    BY <1>1, Built DEF Starts
  <2>2. CASE EofNullDocument
    BY <1>4, <2>1, <2>2 DEF EofNullDocument
  <2>3. CASE StartNullDocument
    BY <1>4, <2>1, <2>3 DEF StartNullDocument
  <2>4. CASE EndNullDocument
    BY <1>4, <2>1, <2>4 DEF EndNullDocument
  <2> QED
    BY <1>5, <2>2, <2>3, <2>4
<1>6. mode = "events" => CloseOpen \in Seq(Items) /\ Follows(Told, CloseOpen) /\ LastOf(Told, CloseOpen) \in Between
  <2>1. FALSE \in BOOLEAN
    OBVIOUS
  <2> QED
    BY <1>1, <2>1, TellsClose, Zenon DEF CloseOpen
<1>7. CASE EofStreamEnd
  <2>1. /\ Emit(CloseOpen) /\ UNCHANGED <<mode, client, out, at>> /\ ~PendingStart
        /\ state'.pending_start = state.pending_start /\ ~state'.open_document
    BY <1>1, <1>7 DEF EofStreamEnd, Typed
  <2>2. ~PendingStart'
    BY <2>1 DEF PendingStart
  <2> QED
    BY <1>1, <1>6, <2>1, <2>2, ToldScan
<1>8. CASE StartMarker
  <2>1. /\ Emit(CloseOpen) /\ UNCHANGED <<mode, client, out, at>> /\ ~state'.open_document
    BY <1>1, <1>8 DEF StartMarker, Typed
  <2> QED
    BY <1>1, <1>6, <2>1, ToldScan
<1>9. CASE EndMarker
  <2> DEFINE es == IF state.open_document THEN <<DocEnd(pos, TRUE)>> ELSE <<>>
  <2>1. Emit(es)
    BY <1>9, Zenon DEF EndMarker
  <2>2. mode = "events" => es \in Seq(Items) /\ Follows(Told, es) /\ LastOf(Told, es) \in Between
    <3>1. TRUE \in BOOLEAN
      OBVIOUS
    <3> QED
      BY <1>1, <3>1, TellsClose, Zenon
  <2> HIDE DEF es
  <2>3. /\ UNCHANGED <<mode, client, out, at>> /\ ~PendingStart
        /\ state'.pending_start = state.pending_start /\ ~state'.open_document
    BY <1>1, <1>9 DEF EndMarker, Typed
  <2>4. ~PendingStart'
    BY <2>3 DEF PendingStart
  <2> QED
    BY <1>1, <2>1, <2>2, <2>3, <2>4, ToldScan
<1>10. ASSUME NEW s \in Starts, Emit(Append(CloseOpen, DocStart(s))), at' = "node", ret' = ret,
              UNCHANGED <<mode, client, out>>, ~PendingStart'
       PROVE  ToldInv'
  <2> DEFINE es == Append(CloseOpen, DocStart(s))
  <2>1. mode = "events" => es \in Seq(Items) /\ Follows(Told, es) /\ LastOf(Told, es) = "DocStart"
    BY <1>1, TellsStart
  <2>2. Emit(es)
    BY <1>10
  <2> HIDE DEF es
  <2> QED
    BY <1>1, <1>10, <2>1, <2>2, ToldScan
<1>11. CASE StartWithValue
  <2> DEFINE s == [line |-> pos, explicit |-> TRUE, directives |-> directives]
  <2>1. s \in Starts
    BY <1>1, Built
  <2>2. Emit(Append(CloseOpen, DocStart(s)))
    BY <1>11, Zenon DEF StartWithValue
  <2>3. /\ UNCHANGED <<mode, client, out, ret>> /\ at' = "node" /\ ~PendingStart
        /\ state'.pending_start = state.pending_start
    BY <1>1, <1>11 DEF StartWithValue, Typed
  <2>4. ~PendingStart'
    BY <2>3 DEF PendingStart
  <2> HIDE DEF s
  <2> QED
    BY <1>10, <2>1, <2>2, <2>3, <2>4
<1>12. CASE ContentBegin
  <2>1. ContentStart \in Starts
    BY <1>1, Built
  <2>2. Emit(Append(CloseOpen, DocStart(ContentStart)))
    BY <1>12 DEF ContentBegin
  <2>3. /\ UNCHANGED <<mode, client, out, ret>> /\ at' = "node" /\ state'.pending_start = NoStart
    BY <1>1, <1>12 DEF ContentBegin, Typed
  <2>4. ~PendingStart'
    BY <2>3 DEF PendingStart, NoStart, NoDirectives
  <2> QED
    BY <1>10, <2>1, <2>2, <2>3, <2>4
<1> QED
  BY <1>2, <1>3, <1>5, <1>7, <1>8, <1>9, <1>11, <1>12 DEF Scan

LEMMA ReadLineAndNodeTell ==
  ASSUME ToldInv, WindowInv', ReadLine \/ Node
  PROVE  ToldInv'
<1> USE DEF buffer, history
<1>1. WindowInv /\ Typed
  BY DEF ToldInv, WindowInv
<1>2. CASE PushNext \/ PushNothing \/ NodeConsumeLine \/ NodeMergeKey
  <2>1. UNCHANGED <<mode, events, client, out, state, at, ret>> /\ ret = "none"
    BY <1>2 DEF PushNext, PushNothing, NodeConsumeLine, NodeMergeKey, WantsLine, Running
  <2> QED
    BY <1>1, <2>1, ToldQuiet
<1>3. CASE LineError \/ NodeError \/ TrailingContent
  <2>1. /\ UNCHANGED <<mode, events, client, out, at>> /\ ret' \in {"err", "reclaimed"}
        /\ state' = [state EXCEPT !.finished = TRUE]
    BY <1>3 DEF LineError, NodeError, TrailingContent, Reject, Stop
  <2> QED
    BY <1>1, <2>1, ToldQuiet DEF Typed
<1>4. CASE DocumentParsed
  <2>1. UNCHANGED <<mode, events, client, out, state, at>> /\ ret' = "doc" /\ at = "trail"
    BY <1>4 DEF DocumentParsed, FinishParsedDocument
  <2> QED
    BY <1>1, <2>1, ToldQuiet
<1>5. CASE NodeComplete
  <2> DEFINE x == Event("Node", doc.line)
  <2>1. /\ at = "node" /\ ret = "none" /\ Emit(<<x>>) /\ at' = "trail" /\ UNCHANGED <<mode, client, out, ret>>
        /\ state' = [state EXCEPT !.open_document = TRUE]
    BY <1>5, Zenon DEF NodeComplete
  <2>2. x \in Items /\ x.t = "Node"
    BY <1>1, ItemsMade DEF Typed, Starts, Event
  <2> HIDE DEF x
  <2>3. ~PendingStart' /\ state'.open_document /\ ~client.error
    <3>1. state'.pending_start = state.pending_start /\ state'.open_document
      BY <1>1, <2>1 DEF Typed
    <3> QED
      BY <2>1, <3>1 DEF ToldInv, PendingStart, WindowInv, Ordered, NothingPending
  <2>4. ASSUME mode = "events"
        PROVE  /\ Follows(LastItem', client'.pending) /\ Follows(Promised', events')
               /\ ToldAsFar' /\ (at' = "client" => events' = <<>>)
    <3>1. Told = "DocStart"
      BY <2>1, <2>4 DEF ToldInv, ToldAsFar
    <3>2. <<Told, x.t>> \in Successor
      BY <2>2, <3>1 DEF Successor
    <3>3. <<x>> \in Seq(Items) /\ Follows(Told, <<x>>) /\ LastOf(Told, <<x>>) = "Node"
      BY <2>2, <3>2, FollowsOne
    <3>4. Follows(LastItem', client'.pending) /\ Follows(Promised', events') /\ Told' = "Node"
      BY <2>1, <2>4, <3>3, TellsOn
    <3> QED
      BY <2>1, <2>3, <3>4 DEF ToldAsFar
  <2> QED
    BY <2>1, <2>3, <2>4 DEF ToldInv
<1> QED
  BY <1>2, <1>3, <1>4, <1>5 DEF ReadLine, Node

(* The last item of a history that grows by one.                           *)
LEMMA Yielded ==
  ASSUME out \in Seq(Items), NEW x \in Items, out' = Append(out, x)
  PROVE  LastItem' = x.t
BY DEF LastItem, Last

LEMMA IteratorTells ==
  ASSUME ToldInv, WindowInv', Iterator
  PROVE  ToldInv'
<1> USE DEF buffer, history
<1>1. WindowInv /\ Typed /\ out \in Seq(Items) /\ events \in Seq(Items) /\ client.pending \in Seq(Items)
      /\ client \in [pending : Seq(Items), error : BOOLEAN, finished : BOOLEAN] /\ pos \in Nat
  BY Built DEF ToldInv, WindowInv, Typed
<1>2. CASE Call
  <2>1. UNCHANGED <<mode, events, client, out, state>> /\ at = "client" /\ at' = "scan" /\ ret' = "none"
    <3>1. ~state.finished
      BY <1>1, <1>2 DEF Call, WindowInv, Ordered
    <3> QED
      BY <1>2, <3>1 DEF Call
  <2> QED
    BY <1>1, <2>1, ToldQuiet
<1>3. CASE NextAfterEnd
  BY <1>1, <1>3, ToldQuiet DEF NextAfterEnd, vars, WindowInv, Ordered
<1>4. CASE NextEvent
  <2>1. /\ UNCHANGED <<mode, events, state, at, ret>> /\ at = "client" /\ client.pending # <<>>
        /\ client' = [client EXCEPT !.pending = Tail(client.pending)]
        /\ out' = Append(out, Head(client.pending))
    BY <1>4 DEF NextEvent
  <2>2. Head(client.pending) \in Items /\ LastItem' = Head(client.pending).t
    BY <1>1, <2>1, HeadTailProperties, Yielded
  <2>3. client'.pending = Tail(client.pending) /\ client'.error = client.error
        /\ client'.finished = client.finished
    BY <1>1, <2>1
  <2>4. ASSUME mode = "events"
        PROVE  /\ Follows(LastItem', client'.pending) /\ Follows(Promised', events')
               /\ ToldAsFar' /\ (at' = "client" => events' = <<>>)
    <3>1. /\ Follows(LastItem, client.pending) /\ Follows(Promised, events) /\ ToldAsFar
          /\ events' = <<>>
      BY <2>1, <2>4 DEF ToldInv
    <3>2. /\ Follows(LastItem', client'.pending)
          /\ LastOf(LastItem', client'.pending) = LastOf(LastItem, client.pending)
      BY <1>1, <2>1, <2>2, <2>3, <3>1, FollowsTail
    <3>3. Promised' = Promised /\ Told' = Told
      BY <2>1, <3>2 DEF Promised, Told, LastOf
    <3> QED
      BY <2>1, <2>3, <3>1, <3>2, <3>3 DEF ToldAsFar, Follows
  <2>5. PendingStart' = PendingStart
    BY <2>1 DEF PendingStart
  <2> QED
    BY <2>1, <2>3, <2>4, <2>5 DEF ToldInv
<1>5. CASE NextPendingError
  <2>1. /\ UNCHANGED <<mode, events, state, at, ret>> /\ at = "client" /\ client.pending = <<>> /\ client.error
        /\ client' = [client EXCEPT !.error = FALSE]
        /\ out' = Append(out, Event("Err", pos))
    BY <1>5 DEF NextPendingError
  <2>2. client'.pending = <<>> /\ ~client'.error /\ client'.finished
    BY <1>1, <2>1 DEF ToldInv
  <2>3. ASSUME mode = "events"
        PROVE  /\ Follows(LastItem', client'.pending) /\ Follows(Promised', events')
               /\ ToldAsFar' /\ (at' = "client" => events' = <<>>)
    <3>1. events = <<>>
      BY <1>1, <2>1, <2>3 DEF ToldInv
    <3> QED
      BY <2>1, <2>2, <3>1 DEF Follows, ToldAsFar
  <2>4. PendingStart' = PendingStart
    BY <2>1 DEF PendingStart
  <2> QED
    BY <2>1, <2>2, <2>3, <2>4 DEF ToldInv
<1>6. CASE ReturnToDocuments \/ ReturnMergeError
  <2>1. mode' # "events" /\ at' = "client" /\ ret' = "none" /\ state' = state /\ client.error = client'.error
        /\ at # "client"
    BY <1>1, <1>6 DEF ReturnToDocuments, ReturnMergeError, WindowInv, Ordered
  <2>2. ~client.error /\ PendingStart' = PendingStart
    BY <1>1, <2>1 DEF WindowInv, Ordered, NothingPending, PendingStart
  <2> QED
    BY <2>1, <2>2 DEF ToldInv
<1>7. CASE ReturnToEvents
  <2> DEFINE q == IF ret = "none_left" THEN <<Event("StreamEnd", pos)>> ELSE <<>>
  <2>1. /\ UNCHANGED <<out, state>> /\ ret # "none" /\ ret' = "none" /\ at' = "client" /\ mode = "events"
        /\ client' = [pending |-> events \o q, error |-> Failed, finished |-> ret # "doc"]
        /\ events' = <<>>
    BY <1>7 DEF ReturnToEvents
  <2>2. at # "client" /\ client.pending = <<>> /\ ~client.finished
    BY <1>1, <2>1 DEF WindowInv, Ordered, NothingPending
  <2>3. Promised = LastItem /\ Follows(LastItem, events) /\ Told = LastOf(LastItem, events)
    BY <2>1, <2>2 DEF ToldInv, Promised, Told, LastOf
  <2>4. ret = "none_left" => Told \in Between
    BY <2>1, <2>2 DEF ToldInv, ToldAsFar
  <2>5. q \in Seq(Items) /\ Follows(Told, q)
    <3>1. Event("StreamEnd", pos) \in Items /\ Event("StreamEnd", pos).t = "StreamEnd"
      BY <1>1, ItemsMade DEF Event
    <3>2. ret = "none_left" => <<Told, Event("StreamEnd", pos).t>> \in Successor
      BY <2>4, <3>1 DEF Successor
    <3> QED
      BY <3>1, <3>2, FollowsOne, FollowsNone
  <2>6. ret # "none_left" => LastOf(Told, q) = Told
    BY FollowsNone
  <2> HIDE DEF q
  <2>7. /\ client'.pending = events \o q /\ client'.error = Failed /\ client'.finished = (ret # "doc")
        /\ LastItem' = LastItem
    BY <2>1 DEF LastItem
  <2>8. Follows(LastItem', client'.pending) /\ Promised' = LastOf(Told, q)
    BY <1>1, <2>3, <2>5, <2>7, FollowsConcat DEF Promised
  <2>9. Follows(Promised', events') /\ Told' = Promised'
    BY <2>1 DEF Follows, Told, LastOf
  <2>10. Told \in Unclosed
    BY <1>1, <2>1, <2>2 DEF ToldInv, ToldAsFar, Between, Unclosed, Typed, TypeOK
  <2>11. ToldAsFar'
    <3>1. client'.error => ret # "none_left" /\ Told' \in Unclosed
      BY <2>6, <2>7, <2>8, <2>9, <2>10 DEF Failed
    <3>2. ~client'.finished => ret = "doc" /\ Told' = Told
      BY <2>6, <2>7, <2>8, <2>9
    <3>3. ret = "doc" => at \in {"scan", "trail"}
      BY <1>1, <2>2 DEF ToldInv, Typed, TypeOK
    <3>4. ret = "doc" => IF state.open_document THEN Told = "Node" ELSE Told \in Between
      BY <2>1, <2>2, <3>3 DEF ToldInv, ToldAsFar
    <3> QED
      BY <2>1, <3>1, <3>2, <3>4 DEF ToldAsFar
  <2>12. PendingStart' = PendingStart /\ (client'.error => client'.finished)
    BY <2>1, <2>7 DEF PendingStart, Failed
  <2> QED
    BY <2>1, <2>8, <2>9, <2>11, <2>12 DEF ToldInv
<1> QED
  BY <1>2, <1>3, <1>4, <1>5, <1>6, <1>7 DEF Iterator

LEMMA ToldInvInit == Init => ToldInv
<1>1. SUFFICES ASSUME Init PROVE ToldInv
  OBVIOUS
<1>2. WindowInv
  BY <1>1, WindowInvInit
<1>3. ~PendingStart /\ at = "client" /\ ret = "none" /\ ~state.open_document /\ ~client.error
      /\ events = <<>> /\ LastItem = "none"
  BY <1>1 DEF Init, PendingStart, LastItem
<1>4. ASSUME mode = "events" PROVE Follows(LastItem, client.pending) /\ Promised = "StreamStart"
  <2>1. client.pending = <<Event("StreamStart", 0)>>
    BY <1>1, <1>4 DEF Init
  <2>2. Event("StreamStart", 0) \in Items /\ Event("StreamStart", 0).t = "StreamStart"
    BY ItemsMade DEF Event
  <2>3. <<LastItem, "StreamStart">> \in Successor
    BY <1>3 DEF Successor
  <2> QED
    BY <2>1, <2>2, <2>3, FollowsOne DEF Promised
<1> QED
  BY <1>2, <1>3, <1>4 DEF ToldInv, ToldAsFar, Told, LastOf, Follows, Between

LEMMA ToldInvNext == ToldInv /\ [Next]_vars => ToldInv'
<1>1. SUFFICES ASSUME ToldInv, [Next]_vars PROVE ToldInv'
  OBVIOUS
<1>2. WindowInv'
  BY <1>1, WindowInvNext DEF ToldInv
<1>3. CASE UNCHANGED vars
  BY <1>1, <1>2, <1>3
     DEF vars, buffer, history, ToldInv, PendingStart, Follows, LastItem, Promised, Told, LastOf, ToldAsFar
<1> QED
  BY <1>1, <1>2, <1>3, ScanTells, ReadLineAndNodeTell, IteratorTells DEF Next

(* The phases of two types the protocol allows in a row.                   *)
LEMMA PhaseSteps ==
  ASSUME mode = "events", mode' = mode, <<LastItem, LastItem'>> \in Successor
  PROVE  Protocol!Next
<1>1. \/ LastItem = "none" /\ LastItem' = "StreamStart"
      \/ LastItem \in Between /\ LastItem' \in {"DocStart", "StreamEnd", "Err"}
      \/ LastItem = "DocStart" /\ LastItem' \in {"Node", "Err"}
      \/ LastItem = "Node" /\ LastItem' \in {"DocEnd", "Err"}
  BY DEF Successor, Between, Unclosed
<1> USE DEF Protocol!Next, Protocol!StreamStart, Protocol!DocumentStart, Protocol!Node,
            Protocol!DocumentEnd, Protocol!StreamEnd, Protocol!Error, Phase, Between
<1>2. CASE LastItem = "none" /\ LastItem' = "StreamStart"
  BY <1>2
<1>3. CASE LastItem \in Between /\ LastItem' \in {"DocStart", "StreamEnd", "Err"}
  BY <1>3
<1>4. CASE LastItem = "DocStart" /\ LastItem' \in {"Node", "Err"}
  BY <1>4
<1>5. CASE LastItem = "Node" /\ LastItem' \in {"DocEnd", "Err"}
  BY <1>5
<1> QED
  BY <1>1, <1>2, <1>3, <1>4, <1>5

LEMMA ProtocolStep == ToldInv /\ [Next]_vars => [Protocol!Next]_Phase
<1>1. SUFFICES ASSUME ToldInv, [Next]_vars PROVE [Protocol!Next]_Phase
  OBVIOUS
<1>2. mode' = mode
  BY <1>1 DEF Next, vars, buffer, history, ReadLine, PushNext, PushNothing, LineError, Scan, Node,
     Iterator, Reject, SkipBlank, EofAfterDirectives, EofNullDocument, EofStreamEnd, DirectiveInsideDocument,
     ParseDirective, DirectiveInvalid, StartNullDocument, StartMarker, StartWithValue, EndAfterDirectives,
     EndNullDocument, EndMarker, ContentAfterDirectives, ContentBegin, NodeConsumeLine, NodeMergeKey,
     NodeComplete, NodeError, TrailingContent, DocumentParsed, Call, NextEvent, NextPendingError,
     NextAfterEnd, ReturnToEvents, ReturnToDocuments, ReturnMergeError, NullDocument
<1>3. CASE mode = "documents"
  BY <1>2, <1>3 DEF Phase
<1>4. CASE mode = "events" /\ out' = out
  BY <1>2, <1>4 DEF Phase, LastItem
<1>5. CASE mode = "events" /\ out' # out
  <2>1. NextEvent \/ NextPendingError
    BY <1>1, <1>5 DEF Next, vars, buffer, history, ReadLine, PushNext, PushNothing, LineError, Scan, Node,
       Iterator, Reject, SkipBlank, EofAfterDirectives, EofNullDocument, EofStreamEnd, DirectiveInsideDocument,
       ParseDirective, DirectiveInvalid, StartNullDocument, StartMarker, StartWithValue, EndAfterDirectives,
       EndNullDocument, EndMarker, ContentAfterDirectives, ContentBegin, NodeConsumeLine, NodeMergeKey,
       NodeComplete, NodeError, TrailingContent, DocumentParsed, Call,
       NextAfterEnd, ReturnToEvents, ReturnToDocuments, ReturnMergeError, NullDocument
  <2>2. /\ out \in Seq(Items) /\ client.pending \in Seq(Items) /\ pos \in Nat
        /\ Follows(LastItem, client.pending) /\ Follows(Promised, events) /\ ToldAsFar
        /\ at = "client" => events = <<>>
    BY <1>1, <1>5, Built DEF ToldInv, WindowInv, Typed
  <2>3. CASE NextEvent
    <3>1. client.pending # <<>> /\ out' = Append(out, Head(client.pending))
      BY <2>3 DEF NextEvent
    <3>2. Head(client.pending) \in Items /\ <<LastItem, Head(client.pending).t>> \in Successor
      BY <2>2, <3>1, HeadTailProperties, FollowsTail
    <3>3. LastItem' = Head(client.pending).t
      BY <2>2, <3>1, <3>2, Yielded
    <3> QED
      BY <1>2, <1>5, <3>2, <3>3, PhaseSteps
  <2>4. CASE NextPendingError
    <3>1. at = "client" /\ client.pending = <<>> /\ client.error /\ out' = Append(out, Event("Err", pos))
      BY <2>4 DEF NextPendingError
    <3>2. Event("Err", pos) \in Items /\ Event("Err", pos).t = "Err"
      BY <2>2, ItemsMade DEF Event
    <3>3. LastItem' = "Err"
      BY <2>2, <3>1, <3>2, Yielded
    <3>4. LastItem \in Unclosed
      BY <2>2, <3>1 DEF ToldAsFar, Told, Promised, LastOf
    <3>5. <<LastItem, LastItem'>> \in Successor
      BY <3>3, <3>4 DEF Successor
    <3> QED
      BY <1>2, <1>5, <3>5, PhaseSteps
  <2> QED
    BY <2>1, <2>3, <2>4
<1> QED
  BY <1>1, <1>3, <1>4, <1>5 DEF ToldInv, WindowInv, Typed, TypeOK

(* Whatever the input and however many lines it has, the events a client   *)
(* is given follow EventProtocol: the end of a document, which the parser  *)
(* owes until it is asked for the next one, is never missing, and nothing  *)
(* follows an error or the end of the stream.                              *)
THEOREM EventStreamFollowsProtocol == Spec => EventsFollowProtocol
<1>1. Init => Protocol!Init
  BY DEF Init, Protocol!Init, Phase, LastItem
<1>2. Spec => []ToldInv
  BY ToldInvInit, ToldInvNext, PTL DEF Spec
<1> QED
  BY <1>1, <1>2, ProtocolStep, PTL DEF Spec, EventsFollowProtocol, Protocol!Spec


-----------------------------------------------------------------------------
(* What one document may see of another, and what a stream may drop.       *)

(* Everything told to the client so far, and about to be.                  *)
Yields == out \o client.pending \o events

IsStart(e) == e.t = "DocStart" /\ e.explicit

(* A start carries its own directives, and an explicit one is a marker     *)
(* that has been passed.                                                   *)
Own(s) ==
  /\ s.directives = OwnDirectives(s.line, s.explicit)
  /\ s.explicit => s.line < pos /\ IsLine(s.line, StartKinds)

InNode == at \in {"node", "trail"}

StartsOwn == \A i \in DOMAIN Yields : Yields[i].t = "DocStart" => Own(Yields[i])

(* The pending directives are those of the lines since the last marker;    *)
(* every start has its own; so has the node being parsed.                  *)
Declared ==
  /\ directives = DeclaredBefore(pos)
  /\ Own(doc) /\ Own(state.pending_start)
  /\ StartsOwn
  /\ PendingStart => /\ state.pending_start.explicit /\ ~directives.any
                     /\ active.tags = state.pending_start.directives.tags
  /\ InNode => /\ active = [schema |-> SchemaFor(doc.directives), tags |-> doc.directives.tags]
               /\ doc.line < pos
               /\ IsLine(doc.line, StartKinds) => doc.explicit

(* The policy of a document with a merge key.                              *)
Policy(line) == SchemaFor(OwnDirectives(line, IsLine(line, StartKinds)))

(* A position before everything of the documents still to come, and not    *)
(* after the one being parsed.                                             *)
Before(l) == l < pos /\ (PendingStart => l < state.pending_start.line)

DocOwn(d) ==
  /\ Before(d.line) /\ (InNode => d.line < doc.line)
  /\ d.merge <=> d.line \in merge_docs
  /\ d.merge => d.schema = Policy(d.line)

DocsOwn ==
  /\ merge_docs \subseteq Nat
  /\ \A m \in merge_docs : Before(m) /\ (InNode => m <= doc.line)
  /\ \A i \in DOMAIN out : out[i].t = "Doc" => DocOwn(out[i])

Merged ==
  /\ DocsOwn
  /\ InNode => ~PendingStart
  /\ ret = "doc" \/ at = "scan" \/ (at = "client" /\ ~state.finished) => ~has_merge
  /\ InNode /\ ret # "doc" => (has_merge <=> doc.line \in merge_docs)
  /\ ret = "doc" => /\ doc.line < pos /\ ~PendingStart
                    /\ recorded.merge <=> doc.line \in merge_docs
                    /\ recorded.merge => recorded.schema = Policy(doc.line)

Passed == 0 .. (pos - 1)
AtEnd  == pos = Len(lines) /\ ~directives.any /\ ~PendingStart

(* What has been passed has gone somewhere: content to a node, a directive *)
(* to a marker or to the pending ones, a marker to the start it opens, in  *)
(* their order.                                                            *)
LinesReached ==
  /\ \A i \in Passed : lines[i + 1] = "content" => i \in content_lines
  /\ \A i \in Passed : IsLine(i, DirectiveKinds) =>
        i \in DirectiveLines(pos) \/ \E m \in Passed : IsLine(m, StartKinds) /\ i \in DirectiveLines(m)

Earlier(e, f) == IsStart(e) /\ IsStart(f) => e.line < f.line

StartsReached ==
  /\ \A k, l \in DOMAIN Yields : k < l => Earlier(Yields[k], Yields[l])
  /\ \A k \in DOMAIN Yields : IsStart(Yields[k]) => Before(Yields[k].line)
  /\ \A m \in Passed : IsLine(m, StartKinds) =>
        \/ PendingStart /\ m = state.pending_start.line
        \/ \E k \in DOMAIN Yields : IsStart(Yields[k]) /\ Yields[k].line = m

EndReached ==
  /\ ret = "none_left" => AtEnd
  /\ \A k \in DOMAIN Yields : Yields[k].t = "StreamEnd" => state.finished /\ AtEnd

Reached == LinesReached /\ (mode = "events" => StartsReached) /\ EndReached

(* The document iterator records no events.                                *)
Unrecorded == mode = "documents" => events = <<>> /\ client.pending = <<>>

ScopeInv == ToldInv /\ Unrecorded /\ Declared /\ Merged /\ Reached

-----------------------------------------------------------------------------
(* What every step leaves of the lines that have been passed.              *)
Grows ==
  /\ \A i \in 1 .. Len(lines) : lines'[i] = lines[i]
  /\ content_lines \subseteq content_lines' /\ content_lines' \subseteq content_lines \union {pos}
  /\ pos' \in Nat /\ pos <= pos'

LEMMA LineKept ==
  ASSUME WindowInv, Grows, NEW i \in 0 .. (pos - 1), NEW kinds
  PROVE  IsLine(i, kinds)' <=> IsLine(i, kinds)
BY Built DEF WindowInv, Grows, IsLine

LEMMA DirectiveLinesKept ==
  ASSUME WindowInv, Grows, NEW m \in 0 .. pos
  PROVE  DirectiveLines(m)' = DirectiveLines(m)
<1>1. pos \in Nat
  BY Built DEF WindowInv
<1>2. \A i \in 0 .. (m - 1) : i \in 0 .. (pos - 1)
  BY <1>1
<1>3. \A i \in 0 .. (m - 1) : IsLine(i, DirectiveKinds)' <=> IsLine(i, DirectiveKinds)
  BY <1>2, LineKept
<1>4. \A i \in 0 .. (m - 1) : \A j \in (i + 1) .. (m - 1) :
         IsLine(j, StartKinds \union {"end"})' <=> IsLine(j, StartKinds \union {"end"})
  <2>1. \A i \in 0 .. (m - 1) : \A j \in (i + 1) .. (m - 1) : j \in 0 .. (pos - 1)
    BY <1>1
  <2> QED
    BY <2>1, LineKept
<1> QED
  BY <1>3, <1>4, Zenon DEF DirectiveLines

LEMMA DeclaredKept ==
  ASSUME WindowInv, Grows, NEW m \in 0 .. pos
  PROVE  DeclaredBefore(m)' = DeclaredBefore(m)
<1>1. DirectiveLines(m)' = DirectiveLines(m)
  BY DirectiveLinesKept
<1>2. \A i \in DirectiveLines(m) : lines'[i + 1] = lines[i + 1]
  <2>1. \A i \in 0 .. (m - 1) : i + 1 \in 1 .. Len(lines)
    BY Built DEF WindowInv
  <2> QED
    BY <2>1 DEF DirectiveLines, Grows
<1>3. {lines'[i + 1] : i \in DirectiveLines(m)} = {lines[i + 1] : i \in DirectiveLines(m)}
  BY <1>2
<1> QED
  BY <1>1, <1>3, Zenon DEF DeclaredBefore

LEMMA OwnDirectivesKept ==
  ASSUME WindowInv, Grows, NEW l \in Nat, NEW e \in BOOLEAN, e => l <= pos
  PROVE  OwnDirectives(l, e)' = OwnDirectives(l, e)
<1>1. CASE e
  <2>1. l \in 0 .. pos
    BY <1>1, Built DEF WindowInv
  <2> QED
    BY <1>1, <2>1, DeclaredKept DEF OwnDirectives
<1>2. CASE ~e
  BY <1>2 DEF OwnDirectives, NoDirectives
<1> QED
  BY <1>1, <1>2

LEMMA OwnKept ==
  ASSUME WindowInv, Grows, NEW s, s.line \in Nat, s.explicit \in BOOLEAN, Own(s)
  PROVE  Own(s)'
<1>1. pos \in Nat /\ pos' \in Nat /\ pos <= pos'
  BY Built DEF WindowInv, Grows
<1>2. s.explicit => s.line \in 0 .. (pos - 1) /\ s.line < pos'
  BY <1>1 DEF Own
<1>3. OwnDirectives(s.line, s.explicit)' = OwnDirectives(s.line, s.explicit)
  BY <1>1, <1>2, OwnDirectivesKept
<1>4. s.explicit => IsLine(s.line, StartKinds)'
  BY <1>2, LineKept DEF Own
<1> QED
  BY <1>2, <1>3, <1>4 DEF Own

LEMMA PolicyKept ==
  ASSUME WindowInv, Grows, NEW l \in 0 .. (pos - 1)
  PROVE  Policy(l)' = Policy(l)
<1>1. l \in Nat /\ l <= pos
  BY Built DEF WindowInv
<1>2. IsLine(l, StartKinds)' <=> IsLine(l, StartKinds)
  BY LineKept
<1>3. IsLine(l, StartKinds) \in BOOLEAN
  BY DEF IsLine
<1>4. OwnDirectives(l, IsLine(l, StartKinds))' = OwnDirectives(l, IsLine(l, StartKinds))
  BY <1>1, <1>2, <1>3, OwnDirectivesKept DEF OwnDirectives
<1> QED
  BY <1>4 DEF Policy, SchemaFor

LEMMA StepGrows ==
  ASSUME WindowInv, [Next]_vars
  PROVE  Grows
<1> USE DEF buffer, history
<1>1. pos \in Nat /\ lines \in Seq(LineKinds) /\ base \in Nat
  BY Built DEF WindowInv, Typed, TypeOK
<1>2. CASE UNCHANGED vars
  BY <1>1, <1>2 DEF vars, Grows
<1>3. CASE PushNext
  <2>1. PICK k \in LineKinds : lines' = Append(lines, k)
    BY <1>3 DEF PushNext
  <2>2. \A i \in 1 .. Len(lines) : lines'[i] = lines[i]
    BY <1>1, <2>1
  <2> QED
    BY <1>1, <1>3, <2>2 DEF PushNext, Grows
<1>4. CASE PushNothing \/ LineError
  BY <1>1, <1>4 DEF PushNothing, LineError, Grows
<1>6. CASE Scan
  <2>1. CASE EofNullDocument \/ StartNullDocument \/ EndNullDocument
    <3>1. lines' = lines /\ content_lines' = content_lines /\ (pos' = pos \/ pos' = pos + 1)
      BY <2>1 DEF EofNullDocument, StartNullDocument, EndNullDocument, NullDocument
    <3> QED
      BY <1>1, <3>1 DEF Grows
  <2>2. CASE SkipBlank \/ ParseDirective \/ StartMarker \/ StartWithValue \/ EndMarker \/ ContentBegin
    BY <1>1, <2>2 DEF SkipBlank, ParseDirective, StartMarker, StartWithValue, EndMarker, ContentBegin, Grows
  <2>3. CASE EofStreamEnd \/ EofAfterDirectives \/ DirectiveInsideDocument \/ DirectiveInvalid
             \/ EndAfterDirectives \/ ContentAfterDirectives
    BY <1>1, <2>3
       DEF EofStreamEnd, EofAfterDirectives, DirectiveInsideDocument, DirectiveInvalid, EndAfterDirectives,
           ContentAfterDirectives, Reject, Grows
  <2> QED
    BY <1>6, <2>1, <2>2, <2>3 DEF Scan
<1>7. CASE Node
  BY <1>1, <1>7 DEF Node, NodeConsumeLine, NodeMergeKey, NodeComplete, NodeError, TrailingContent,
                    DocumentParsed, Reject, Grows
<1>8. CASE Iterator
  BY <1>1, <1>8 DEF Iterator, Call, NextEvent, NextPendingError, NextAfterEnd, ReturnToEvents,
                    ReturnToDocuments, ReturnMergeError, Grows, vars
<1> QED
  BY <1>2, <1>3, <1>4, <1>6, <1>7, <1>8 DEF Next, ReadLine

-----------------------------------------------------------------------------
(* What one more line adds to the directives before a position.            *)
PassesLine ==
  \A m \in Nat :
     DirectiveLines(m + 1) =
       IF IsLine(m, StartKinds \union {"end"}) THEN {}
       ELSE DirectiveLines(m) \union {i \in {m} : IsLine(i, DirectiveKinds)}

LEMMA DirectiveLinesAfter == PassesLine
<1> SUFFICES ASSUME NEW n \in Nat
             PROVE  DirectiveLines(n + 1) =
                      IF IsLine(n, StartKinds \union {"end"}) THEN {}
                      ELSE DirectiveLines(n) \union {i \in {n} : IsLine(i, DirectiveKinds)}
  BY DEF PassesLine
<1> DEFINE Stops(j) == IsLine(j, StartKinds \union {"end"})
<1>1. 0 .. (n + 1 - 1) = (0 .. (n - 1)) \union {n}
  OBVIOUS
<1>2. \A i \in 0 .. (n - 1) : (i + 1) .. (n + 1 - 1) = ((i + 1) .. (n - 1)) \union {n}
  OBVIOUS
<1>3. (n + 1) .. (n + 1 - 1) = {} /\ n \notin 0 .. (n - 1)
  OBVIOUS
<1>4. IsLine(n, DirectiveKinds) => ~Stops(n)
  BY DEF IsLine, DirectiveKinds, StartKinds, Versions
<1>5. DirectiveLines(n) = {i \in 0 .. (n - 1) : IsLine(i, DirectiveKinds) /\ \A j \in (i + 1) .. (n - 1) : ~Stops(j)}
  BY DEF DirectiveLines
<1>6. DirectiveLines(n + 1) =
        {i \in 0 .. (n + 1 - 1) : IsLine(i, DirectiveKinds) /\ \A j \in (i + 1) .. (n + 1 - 1) : ~Stops(j)}
  BY DEF DirectiveLines
<1> HIDE DEF Stops
<1>7. CASE Stops(n)
  <2>1. \A i \in 0 .. (n - 1) : ~\A j \in (i + 1) .. (n + 1 - 1) : ~Stops(j)
    BY <1>2, <1>7
  <2>2. DirectiveLines(n + 1) = {}
    BY <1>1, <1>4, <1>6, <1>7, <2>1, Zenon
  <2> QED
    BY <1>7, <2>2 DEF Stops
<1>8. CASE ~Stops(n)
  <2>1. \A i \in 0 .. (n - 1) : (\A j \in (i + 1) .. (n + 1 - 1) : ~Stops(j)) <=> (\A j \in (i + 1) .. (n - 1) : ~Stops(j))
    BY <1>2, <1>8
  <2>2. \A j \in (n + 1) .. (n + 1 - 1) : ~Stops(j)
    BY <1>3
  <2>3. DirectiveLines(n + 1) = DirectiveLines(n) \union {i \in {n} : IsLine(i, DirectiveKinds)}
    BY <1>1, <1>5, <1>6, <2>1, <2>2, Zenon
  <2> QED
    BY <1>8, <2>3 DEF Stops
<1> QED
  BY <1>7, <1>8

(* The directives of a set of kinds of directive lines.                    *)
DeclaredOf(kinds) ==
  [yaml |-> IF kinds \intersect Versions = {} THEN "none" ELSE CHOOSE v \in Versions : v \in kinds,
   tags |-> IF "tag" \in kinds THEN {"h"} ELSE {},
   any  |-> kinds # {}]

KindsBefore(m) == {lines[i + 1] : i \in DirectiveLines(m)}

LEMMA DeclaredOfKinds == \A m : DeclaredBefore(m) = DeclaredOf(KindsBefore(m))
BY Zenon DEF DeclaredBefore, DeclaredOf, KindsBefore

LEMMA DeclaredOfNone == DeclaredOf({}) = NoDirectives
BY DEF DeclaredOf, NoDirectives

LEMMA DeclaredOfMore ==
  ASSUME NEW kinds, NEW k \in DirectiveKinds, k \in Versions => DeclaredOf(kinds).yaml = "none"
  PROVE  DeclaredOf(kinds \union {k}) =
           [yaml |-> IF k \in Versions THEN k ELSE DeclaredOf(kinds).yaml,
            tags |-> IF k = "tag" THEN {"h"} ELSE DeclaredOf(kinds).tags,
            any  |-> TRUE]
<1>1. "none" \notin Versions
  BY DEF Versions
<1>2. k \in Versions => kinds \intersect Versions = {}
  <2>1. kinds \intersect Versions # {} => (CHOOSE v \in Versions : v \in kinds) \in Versions
    OBVIOUS
  <2> QED
    BY <1>1, <2>1 DEF DeclaredOf
<1>3. CASE k \in Versions
  <2>1. (kinds \union {k}) \intersect Versions = {k} /\ k # "tag"
    BY <1>2, <1>3 DEF Versions
  <2>2. (CHOOSE v \in Versions : v \in kinds \union {k}) = k
    BY <1>2, <1>3
  <2> QED
    BY <1>3, <2>1, <2>2 DEF DeclaredOf
<1>4. CASE k \notin Versions
  <2>1. (kinds \union {k}) \intersect Versions = kinds \intersect Versions
    BY <1>4
  <2>2. \A v \in Versions : v \in kinds \union {k} <=> v \in kinds
    BY <1>4
  <2>3. (CHOOSE v \in Versions : v \in kinds \union {k}) = CHOOSE v \in Versions : v \in kinds
    BY <2>2
  <2> QED
    BY <1>4, <2>1, <2>3 DEF DeclaredOf
<1> QED
  BY <1>3, <1>4

(* The same over the step that passes the line at n.                       *)
LEMMA DirectiveLinesStep ==
  ASSUME WindowInv, Grows, NEW n \in Nat, n = pos
  PROVE  /\ IsLine(n, StartKinds \union {"end"})' => DirectiveLines(n + 1)' = {}
         /\ ~IsLine(n, StartKinds \union {"end"})' =>
               DirectiveLines(n + 1)' = DirectiveLines(n) \union {i \in {n} : IsLine(i, DirectiveKinds)'}
<1>1. PassesLine'
  BY DirectiveLinesAfter, PTL
<1>2. n \in 0 .. pos
  OBVIOUS
<1>3. DirectiveLines(n)' = DirectiveLines(n)
  BY <1>2, DirectiveLinesKept
<1> QED
  BY <1>1, <1>3 DEF PassesLine

LEMMA DeclaredStep ==
  ASSUME WindowInv, Grows, NEW n \in Nat, n = pos, pos < Len(lines), directives = DeclaredBefore(pos),
         NEW k \in LineKinds, k = lines[pos + 1]
  PROVE  /\ n \notin content_lines' /\ k \in StartKinds \union {"end"} => DeclaredBefore(n + 1)' = NoDirectives
         /\ n \in content_lines' \/ k \in {"blank", "content"} => DeclaredBefore(n + 1)' = directives
         /\ n \notin content_lines' /\ k \in DirectiveKinds /\ (k \in Versions => directives.yaml = "none") =>
               DeclaredBefore(n + 1)' =
                 [yaml |-> IF k \in Versions THEN k ELSE directives.yaml,
                  tags |-> IF k = "tag" THEN {"h"} ELSE directives.tags,
                  any  |-> TRUE]
<1>1. lines'[n + 1] = k /\ pos \in Nat /\ Len(lines) \in Nat
  BY Built DEF WindowInv, Grows
<1>2. \A kinds : IsLine(n, kinds)' <=> k \in kinds /\ n \notin content_lines'
  BY <1>1 DEF IsLine
<1>3. (\A m : DeclaredBefore(m) = DeclaredOf(KindsBefore(m)))'
  BY DeclaredOfKinds, PTL
<1>4. directives = DeclaredOf(KindsBefore(n))
  BY DeclaredOfKinds
<1>5. \A i \in DirectiveLines(n) : lines'[i + 1] = lines[i + 1]
  BY <1>1 DEF DirectiveLines, Grows
<1>6. DirectiveLines(n + 1)' = {} => KindsBefore(n + 1)' = {}
  BY DEF KindsBefore
<1>7. DirectiveLines(n + 1)' = DirectiveLines(n) => KindsBefore(n + 1)' = KindsBefore(n)
  BY <1>5 DEF KindsBefore
<1>8. DirectiveLines(n + 1)' = DirectiveLines(n) \union {n} => KindsBefore(n + 1)' = KindsBefore(n) \union {k}
  BY <1>1, <1>5 DEF KindsBefore
<1>9. DeclaredBefore(n + 1)' = DeclaredOf(KindsBefore(n + 1)')
  <2>1. DeclaredOf(KindsBefore(n + 1))' = DeclaredOf(KindsBefore(n + 1)')
    BY DEF DeclaredOf
  <2> QED
    BY <1>3, <2>1
<1>10. ASSUME n \notin content_lines', k \in StartKinds \union {"end"}
       PROVE  DeclaredBefore(n + 1)' = NoDirectives
  <2>1. IsLine(n, StartKinds \union {"end"})'
    BY <1>2, <1>10
  <2> QED
    BY <1>6, <1>9, <2>1, DirectiveLinesStep, DeclaredOfNone
<1>11. ASSUME n \in content_lines' \/ k \in {"blank", "content"}
       PROVE  DeclaredBefore(n + 1)' = directives
  <2>1. ~IsLine(n, StartKinds \union {"end"})' /\ ~IsLine(n, DirectiveKinds)'
    BY <1>2, <1>11 DEF StartKinds, DirectiveKinds, Versions
  <2>2. DirectiveLines(n + 1)' = DirectiveLines(n)
    BY <2>1, DirectiveLinesStep, ZenonT(60)
  <2> QED
    BY <1>4, <1>7, <1>9, <2>2
<1>12. ASSUME n \notin content_lines', k \in DirectiveKinds, k \in Versions => directives.yaml = "none"
       PROVE  DeclaredBefore(n + 1)' =
                 [yaml |-> IF k \in Versions THEN k ELSE directives.yaml,
                  tags |-> IF k = "tag" THEN {"h"} ELSE directives.tags,
                  any  |-> TRUE]
  <2>1. ~IsLine(n, StartKinds \union {"end"})' /\ IsLine(n, DirectiveKinds)'
    BY <1>2, <1>12 DEF StartKinds, DirectiveKinds, Versions
  <2>2. DirectiveLines(n + 1)' = DirectiveLines(n) \union {n}
    BY <2>1, DirectiveLinesStep
  <2>3. DeclaredBefore(n + 1)' = DeclaredOf(KindsBefore(n) \union {k})
    BY <1>8, <1>9, <2>2
  <2> QED
    BY <1>4, <1>12, <2>3, DeclaredOfMore
<1> QED
  BY <1>10, <1>11, <1>12

LEMMA NothingDeclared ==
  ASSUME NEW m, ~DeclaredBefore(m).any
  PROVE  DeclaredBefore(m) = NoDirectives
<1>1. DeclaredBefore(m) = DeclaredOf(KindsBefore(m))
  BY DeclaredOfKinds
<1>2. KindsBefore(m) = {}
  <2>1. \A kinds : DeclaredOf(kinds).any <=> kinds # {}
    BY DEF DeclaredOf
  <2> QED
    BY <1>1, <2>1
<1> QED
  BY <1>1, <1>2, DeclaredOfNone

-----------------------------------------------------------------------------
(* What a step adds to what has been told: nothing that starts a document  *)
(* or ends the stream, or one start.                                       *)
Quiet(es) == es \in Seq(Items) /\ \A i \in DOMAIN es : es[i].t \notin {"DocStart", "StreamEnd"}

Opens(es, x) ==
  /\ es \in Seq(Items)
  /\ \E j \in DOMAIN es : es[j] = x /\ \A i \in DOMAIN es : es[i].t \in {"DocStart", "StreamEnd"} => i = j

LEMMA ConcatItems ==
  ASSUME NEW S, NEW q \in Seq(S), NEW r \in Seq(S)
  PROVE  /\ q \o r \in Seq(S) /\ DOMAIN (q \o r) = 1 .. (Len(q) + Len(r))
         /\ DOMAIN q = 1 .. Len(q) /\ DOMAIN r = 1 .. Len(r) /\ Len(q) \in Nat /\ Len(r) \in Nat
         /\ \A i \in DOMAIN q : i \in DOMAIN (q \o r) /\ (q \o r)[i] = q[i]
         /\ \A i \in DOMAIN r : Len(q) + i \in DOMAIN (q \o r) /\ (q \o r)[Len(q) + i] = r[i]
         /\ \A i \in DOMAIN (q \o r) : i \notin DOMAIN q => i - Len(q) \in DOMAIN r /\ i > Len(q)
                                                            /\ (q \o r)[i] = r[i - Len(q)]
OBVIOUS

LEMMA ConcatAssociates ==
  ASSUME NEW S, NEW q \in Seq(S), NEW r \in Seq(S), NEW s \in Seq(S)
  PROVE  (q \o r) \o s = q \o (r \o s)
OBVIOUS

LEMMA ConcatEnds ==
  ASSUME NEW S, NEW q \in Seq(S), NEW r \in Seq(S)
  PROVE  /\ q \o <<>> = q /\ <<>> \o q = q
         /\ \A x \in S : Append(q, x) = q \o <<x>> /\ <<x>> \in Seq(S)
         /\ r # <<>> => Append(q, Head(r)) \o Tail(r) = q \o r
<1>1. q \o <<>> = q /\ <<>> \o q = q
  OBVIOUS
<1>2. \A x \in S : Append(q, x) = q \o <<x>> /\ <<x>> \in Seq(S)
  OBVIOUS
<1>3. ASSUME r # <<>> PROVE Append(q, Head(r)) \o Tail(r) = q \o r
  <2>1. Head(r) \in S /\ Tail(r) \in Seq(S) /\ r = <<Head(r)>> \o Tail(r)
    BY <1>3
  <2>2. Append(q, Head(r)) = q \o <<Head(r)>> /\ <<Head(r)>> \in Seq(S)
    BY <1>2, <2>1
  <2>3. (q \o <<Head(r)>>) \o Tail(r) = q \o (<<Head(r)>> \o Tail(r))
    BY <2>1, <2>2, ConcatAssociates
  <2> QED
    BY <2>1, <2>2, <2>3, Zenon
<1> QED
  BY <1>1, <1>2, <1>3

LEMMA YieldsTyped ==
  ASSUME WindowInv
  PROVE  /\ Yields \in Seq(Items) /\ out \in Seq(Items) /\ client.pending \in Seq(Items) /\ events \in Seq(Items)
         /\ \A i \in DOMAIN Yields : Yields[i].t = "DocStart" =>
               Yields[i].line \in Nat /\ Yields[i].explicit \in BOOLEAN
<1>1. out \in Seq(Items) /\ client.pending \in Seq(Items) /\ events \in Seq(Items)
  BY DEF WindowInv, Typed
<1>2. Yields \in Seq(Items)
  BY <1>1, ConcatProperties DEF Yields
<1>3. \A x \in Items : x.t = "DocStart" => x.line \in Nat /\ x.explicit \in BOOLEAN
  BY DEF Items, Marks, DocStarts, DocEnds, Docs
<1> QED
  BY <1>1, <1>2, <1>3, ElementOfSeq

LEMMA YieldsEmitted ==
  ASSUME WindowInv, NEW es \in Seq(Items), Emit(es), UNCHANGED <<mode, out, client>>
  PROVE  /\ mode = "events" => Yields' = Yields \o es
         /\ mode # "events" => Yields' = Yields
<1>1. Yields' = (out \o client.pending) \o events'
  BY DEF Yields
<1>2. out \o client.pending \in Seq(Items) /\ events \in Seq(Items)
  BY YieldsTyped, ConcatProperties
<1>3. ((out \o client.pending) \o events) \o es = (out \o client.pending) \o (events \o es)
  <2>1. PICK q \in Seq(Items), r \in Seq(Items) : q = out \o client.pending /\ r = events
    BY <1>2
  <2>2. (q \o r) \o es = q \o (r \o es)
    BY ConcatAssociates, SMTT(30)
  <2> QED
    BY <2>1, <2>2
<1>4. mode = "events" => events' = events \o es
  BY DEF Emit
<1>5. mode # "events" => events' = events
  BY DEF Emit
<1> QED
  BY <1>1, <1>3, <1>4, <1>5 DEF Yields

LEMMA NoneQuiet == Quiet(<<>>) /\ \A q \in Seq(Items) : q \o <<>> = q
BY ItemSequences DEF Quiet

LEMMA OneQuiet ==
  ASSUME NEW x \in Items, x.t \notin {"DocStart", "StreamEnd"}
  PROVE  Quiet(<<x>>)
<1>1. <<x>> \in Seq(Items) /\ DOMAIN <<x>> = {1} /\ <<x>>[1] = x
  OBVIOUS
<1> QED
  BY <1>1 DEF Quiet

LEMMA CloseQuiet ==
  ASSUME WindowInv, NEW b \in BOOLEAN
  PROVE  Quiet(IF state.open_document THEN <<DocEnd(pos, b)>> ELSE <<>>)
<1>1. pos \in Nat
  BY Built DEF WindowInv
<1>2. DocEnd(pos, b) \in Items /\ DocEnd(pos, b).t \notin {"DocStart", "StreamEnd"}
  BY <1>1, ItemsMade DEF DocEnd
<1>3. Quiet(<<DocEnd(pos, b)>>) /\ Quiet(<<>>)
  BY <1>2, OneQuiet, NoneQuiet
<1> QED
  BY <1>3, Zenon

LEMMA StartOpens ==
  ASSUME WindowInv, NEW s \in Starts
  PROVE  Opens(Append(CloseOpen, DocStart(s)), DocStart(s))
<1> DEFINE x == DocStart(s)
           es == Append(CloseOpen, x)
<1>1. Quiet(CloseOpen)
  <2>1. FALSE \in BOOLEAN
    OBVIOUS
  <2> QED
    BY <2>1, CloseQuiet, Zenon DEF CloseOpen
<1>2. x \in Items
  BY ItemsMade
<1> HIDE DEF x
<1>3. CloseOpen \in Seq(Items)
  BY <1>1 DEF Quiet
<1>4. /\ es \in Seq(Items) /\ Len(es) = Len(CloseOpen) + 1 /\ Len(CloseOpen) \in Nat
      /\ DOMAIN es = 1 .. Len(es) /\ DOMAIN CloseOpen = 1 .. Len(CloseOpen) /\ es[Len(es)] = x
      /\ \A i \in 1 .. Len(CloseOpen) : es[i] = CloseOpen[i]
  BY <1>2, <1>3, AppendProperties, LenProperties
<1> HIDE DEF es
<1>5. Len(es) \in DOMAIN es /\ \A i \in DOMAIN es : i # Len(es) => i \in DOMAIN CloseOpen
  BY <1>4
<1>6. \A i \in DOMAIN es : es[i].t \in {"DocStart", "StreamEnd"} => i = Len(es)
  BY <1>1, <1>4, <1>5 DEF Quiet
<1>7. Opens(es, x)
  BY <1>4, <1>5, <1>6 DEF Opens
<1> QED
  BY <1>7 DEF es, x

LEMMA NullOpens ==
  ASSUME NEW x \in Items, NEW y \in Items, NEW z \in Items, y.t = "Node", z.t = "DocEnd"
  PROVE  Opens(<<x, y, z>>, x)
<1> DEFINE q == <<x, y, z>>
<1>1. q \in Seq(Items) /\ DOMAIN q = {1, 2, 3} /\ q[1] = x /\ q[2] = y /\ q[3] = z
  OBVIOUS
<1> HIDE DEF q
<1>2. \A i \in DOMAIN q : q[i].t \in {"DocStart", "StreamEnd"} => i = 1
  BY <1>1
<1>3. Opens(q, x)
  BY <1>1, <1>2 DEF Opens
<1> QED
  BY <1>3 DEF q

-----------------------------------------------------------------------------
(* The directives stay scoped over every step.                             *)
LEMMA StartsOwnAfter ==
  ASSUME WindowInv, Grows, StartsOwn, NEW es \in Seq(Items), Yields' = Yields \o es,
         \A i \in DOMAIN es : es[i].t = "DocStart" => Own(es[i])'
  PROVE  StartsOwn'
<1>1. PICK old, y : old = Yields /\ y = old \o es
  OBVIOUS
<1>2. old \in Seq(Items)
  BY <1>1, YieldsTyped
<1>3. ASSUME NEW i \in DOMAIN y, y[i].t = "DocStart" PROVE Own(y[i])'
  <2>1. CASE i \in DOMAIN old
    <3>1. y[i] = old[i]
      BY <1>1, <1>2, <2>1, ConcatItems
    <3>2. Own(old[i]) /\ old[i].line \in Nat /\ old[i].explicit \in BOOLEAN
      BY <1>1, <1>3, <2>1, <3>1, YieldsTyped DEF StartsOwn
    <3> QED
      BY <3>1, <3>2, OwnKept
  <2>2. CASE i \notin DOMAIN old
    <3>1. i - Len(old) \in DOMAIN es /\ y[i] = es[i - Len(old)]
      BY <1>1, <1>2, <2>2, ConcatItems
    <3> QED
      BY <1>3, <3>1
  <2> QED
    BY <2>1, <2>2
<1>4. Yields' = y
  BY <1>1
<1> QED
  BY <1>3, <1>4 DEF StartsOwn

LEMMA StartsOwnQuiet ==
  ASSUME WindowInv, Grows, StartsOwn, NEW es \in Seq(Items), Yields' = Yields \o es,
         \A i \in DOMAIN es : es[i].t # "DocStart"
  PROVE  StartsOwn'
BY StartsOwnAfter

LEMMA StartsOwnSame ==
  ASSUME WindowInv, Grows, StartsOwn, Yields' = Yields
  PROVE  StartsOwn'
<1>1. PICK y : y = Yields
  OBVIOUS
<1>2. ASSUME NEW i \in DOMAIN y, y[i].t = "DocStart" PROVE Own(y[i])'
  <2>1. Own(y[i]) /\ y[i].line \in Nat /\ y[i].explicit \in BOOLEAN
    BY <1>1, <1>2, YieldsTyped DEF StartsOwn
  <2> QED
    BY <2>1, OwnKept
<1>3. Yields' = y
  BY <1>1
<1> QED
  BY <1>2, <1>3 DEF StartsOwn

(* Emitting items that start no document, or one that has its own          *)
(* directives.                                                             *)
LEMMA StartsOwnEmitted ==
  ASSUME WindowInv, Grows, StartsOwn, NEW es, Emit(es), UNCHANGED <<mode, out, client>>,
         Quiet(es) \/ \E x : Opens(es, x) /\ Own(x)'
  PROVE  StartsOwn'
<1>1. es \in Seq(Items) /\ \A i \in DOMAIN es : es[i].t = "DocStart" => Own(es[i])'
  <2>1. CASE Quiet(es)
    BY <2>1 DEF Quiet
  <2>2. ASSUME NEW x, Opens(es, x), Own(x)'
        PROVE  es \in Seq(Items) /\ \A i \in DOMAIN es : es[i].t = "DocStart" => Own(es[i])'
    BY <2>2 DEF Opens
  <2> QED
    BY <2>1, <2>2
<1> QED
  BY <1>1, YieldsEmitted, StartsOwnAfter, StartsOwnSame

LEMMA OwnStart ==
  ASSUME NEW s
  PROVE  Own(DocStart(s))' <=> Own(s)'
BY DEF Own, DocStart

(* A step that passes no line and opens no document.                       *)
LEMMA DeclaredStill ==
  ASSUME ToldInv, Grows, Declared, UNCHANGED <<pos, directives, active, doc>>,
         state'.pending_start = state.pending_start, InNode' => InNode, StartsOwn'
  PROVE  Declared'
<1>1. WindowInv /\ pos \in Nat /\ doc \in Starts /\ state.pending_start \in Starts
  BY Built DEF ToldInv, WindowInv, Typed
<1>2. DeclaredBefore(pos)' = DeclaredBefore(pos)
  <2>1. pos \in 0 .. pos
    BY <1>1
  <2> QED
    BY <1>1, <2>1, DeclaredKept
<1>3. Own(doc)' /\ Own(state.pending_start)'
  BY <1>1, OwnKept DEF Declared, Starts
<1>4. PendingStart' = PendingStart
  BY DEF PendingStart
<1>5. ASSUME InNode' PROVE doc.line < pos /\ (IsLine(doc.line, StartKinds)' => doc.explicit)
  <2>1. doc.line \in 0 .. (pos - 1)
    BY <1>1, <1>5 DEF Declared, Starts
  <2> QED
    BY <1>1, <1>5, <2>1, LineKept DEF Declared
<1> QED
  BY <1>2, <1>3, <1>4, <1>5 DEF Declared

(* The three ways to pass a line or to open a document.                    *)
LEMMA DeclaredPasses ==
  ASSUME ToldInv, Grows, Declared, SkipBlank \/ ParseDirective \/ EndMarker \/ NodeConsumeLine
  PROVE  Declared'
<1> USE DEF buffer, history
<1>1. /\ WindowInv /\ Typed /\ pos \in Nat /\ doc \in Starts /\ state.pending_start \in Starts
      /\ pos \notin content_lines
  BY Built DEF ToldInv, WindowInv, Typed, Windowed
<1>2. PICK n \in Nat : n = pos
  BY <1>1
<1>3. Own(doc)' \/ ~UNCHANGED doc
  BY <1>1, OwnKept DEF Declared, Starts
<1>4. Own(state.pending_start)' \/ state'.pending_start # state.pending_start
  BY <1>1, OwnKept DEF Declared, Starts
<1>5. PICK k \in LineKinds : pos < Len(lines) /\ k = lines[pos + 1] /\ CurrentKind = k
  <2>1. CurrentKind \in LineKinds
    BY DEF SkipBlank, ParseDirective, EndMarker, NodeConsumeLine, Scanning, LineKinds, DirectiveKinds
  <2> QED
    BY <1>1, <2>1, AtLine DEF Typed
<1>6. StartsOwn /\ directives = DeclaredBefore(pos)
  BY DEF Declared
<1>7. CASE SkipBlank
  <2>1. /\ pos' = pos + 1 /\ UNCHANGED <<directives, doc, state, active, at, out, client, events, content_lines>>
        /\ at = "scan" /\ k = "blank"
    BY <1>5, <1>7 DEF SkipBlank, Scanning
  <2>2. DeclaredBefore(n + 1)' = directives
    BY <1>1, <1>2, <1>5, <1>6, <2>1, DeclaredStep
  <2>3. StartsOwn'
    BY <1>1, <1>6, <2>1, StartsOwnSame DEF Yields
  <2> QED
    BY <1>2, <1>3, <1>4, <2>1, <2>2, <2>3 DEF Declared, InNode, PendingStart
<1>8. CASE ParseDirective
  <2>1. /\ pos' = pos + 1 /\ UNCHANGED <<doc, state, active, at, out, client, events, content_lines>>
        /\ at = "scan" /\ k \in DirectiveKinds /\ ~PendingStart /\ ~Repeats(k)
        /\ directives' = [yaml |-> IF k \in Versions THEN k ELSE directives.yaml,
                          tags |-> IF k = "tag" THEN {"h"} ELSE directives.tags,
                          any  |-> TRUE]
    BY <1>5, <1>8 DEF ParseDirective, Scanning
  <2>2. DeclaredBefore(n + 1)' = directives'
    BY <1>1, <1>2, <1>5, <1>6, <2>1, DeclaredStep DEF Repeats
  <2>3. StartsOwn'
    BY <1>1, <1>6, <2>1, StartsOwnSame DEF Yields
  <2> QED
    BY <1>2, <1>3, <1>4, <2>1, <2>2, <2>3 DEF Declared, InNode, PendingStart
<1>9. CASE EndMarker
  <2> DEFINE es == IF state.open_document THEN <<DocEnd(pos, TRUE)>> ELSE <<>>
  <2>1. /\ pos' = pos + 1 /\ UNCHANGED <<doc, directives, active, at, out, client, mode, content_lines>>
        /\ at = "scan" /\ k = "end" /\ ~PendingStart /\ ~directives.any
        /\ state'.pending_start = state.pending_start
    BY <1>1, <1>5, <1>9 DEF EndMarker, Scanning, Typed
  <2>2. Emit(es)
    BY <1>9, Zenon DEF EndMarker
  <2>3. Quiet(es)
    <3>1. TRUE \in BOOLEAN
      OBVIOUS
    <3> QED
      BY <1>1, <3>1, CloseQuiet, Zenon
  <2> HIDE DEF es
  <2>4. directives = NoDirectives
    BY <1>6, <2>1, NothingDeclared
  <2>5. DeclaredBefore(n + 1)' = directives
    BY <1>1, <1>2, <1>5, <1>6, <2>1, <2>4, DeclaredStep
  <2>6. StartsOwn'
    BY <1>1, <1>6, <2>1, <2>2, <2>3, StartsOwnEmitted
  <2> QED
    BY <1>2, <1>3, <1>4, <2>1, <2>5, <2>6 DEF Declared, InNode, PendingStart
<1>10. CASE NodeConsumeLine
  <2>1. /\ pos' = pos + 1 /\ UNCHANGED <<directives, doc, state, active, at, out, client, events>>
        /\ at = "node" /\ pos \in content_lines'
    BY <1>10 DEF NodeConsumeLine
  <2>2. DeclaredBefore(n + 1)' = directives
    BY <1>1, <1>2, <1>5, <1>6, <2>1, DeclaredStep
  <2>3. StartsOwn'
    BY <1>1, <1>6, <2>1, StartsOwnSame DEF Yields
  <2>4. doc.line < pos' /\ (IsLine(doc.line, StartKinds)' => doc.explicit)
    <3>1. doc.line \in 0 .. (pos - 1) /\ InNode
      BY <1>1, <2>1 DEF Declared, Starts, InNode
    <3> QED
      BY <1>1, <2>1, <3>1, LineKept DEF Declared
  <2> QED
    BY <1>2, <1>3, <1>4, <2>1, <2>2, <2>3, <2>4 DEF Declared, InNode, PendingStart
<1> QED
  BY <1>7, <1>8, <1>9, <1>10

LEMMA DeclaredOpens ==
  ASSUME ToldInv, Grows, Declared, StartMarker \/ StartWithValue \/ ContentBegin
  PROVE  Declared'
<1> USE DEF buffer, history
<1>1. /\ WindowInv /\ Typed /\ pos \in Nat /\ doc \in Starts /\ state.pending_start \in Starts
      /\ pos \notin content_lines /\ directives \in Dirs /\ NoStart \in Starts
  BY Built DEF ToldInv, WindowInv, Typed, Windowed
<1>2. PICK n \in Nat : n = pos
  BY <1>1
<1>3. PICK own \in Dirs : own = directives
  BY <1>1
<1>4. PICK k \in LineKinds : pos < Len(lines) /\ k = lines[pos + 1] /\ CurrentKind = k
  <2>1. CurrentKind \in LineKinds
    BY DEF StartMarker, StartWithValue, ContentBegin, Scanning, LineKinds, StartKinds
  <2> QED
    BY <1>1, <2>1, AtLine DEF Typed
<1>5. StartsOwn /\ directives = DeclaredBefore(pos)
  BY DEF Declared
<1>6. pos' = pos + 1 /\ UNCHANGED <<lines, mode, out, client>>
  BY DEF StartMarker, StartWithValue, ContentBegin
<1>7. ASSUME k \in StartKinds, content_lines' = content_lines, NEW s \in Starts,
             s = [line |-> n, explicit |-> TRUE, directives |-> own]
      PROVE  Own(s)' /\ DeclaredBefore(n + 1)' = NoDirectives
  <2>1. DeclaredBefore(n)' = own
    <3>1. n \in 0 .. pos
      BY <1>2
    <3> QED
      BY <1>1, <1>2, <1>3, <1>5, <3>1, DeclaredKept
  <2>2. IsLine(n, StartKinds)' /\ n < pos'
    BY <1>1, <1>2, <1>4, <1>6, <1>7 DEF IsLine
  <2>3. DeclaredBefore(n + 1)' = NoDirectives
    BY <1>1, <1>2, <1>4, <1>5, <1>7, DeclaredStep
  <2> QED
    BY <1>7, <2>1, <2>2, <2>3 DEF Own, OwnDirectives
<1>8. Own(doc)' \/ ~UNCHANGED doc
  BY <1>1, OwnKept DEF Declared, Starts
<1>9. CASE StartMarker
  <2>1. /\ UNCHANGED <<doc, at, content_lines>> /\ at = "scan" /\ k = "start" /\ Emit(CloseOpen)
        /\ directives' = NoDirectives /\ active'.tags = own.tags
        /\ state'.pending_start = [line |-> n, explicit |-> TRUE, directives |-> own]
    BY <1>1, <1>2, <1>3, <1>4, <1>9 DEF StartMarker, Scanning, ActivatePending, Typed
  <2>2. PICK s \in Starts : s = [line |-> n, explicit |-> TRUE, directives |-> own]
    BY DEF Starts
  <2>3. Own(s)' /\ DeclaredBefore(n + 1)' = NoDirectives
    BY <1>7, <2>1, <2>2 DEF StartKinds
  <2>4. Quiet(CloseOpen)
    <3>1. FALSE \in BOOLEAN
      OBVIOUS
    <3> QED
      BY <1>1, <3>1, CloseQuiet, Zenon DEF CloseOpen
  <2>5. StartsOwn'
    BY <1>1, <1>5, <1>6, <2>1, <2>4, StartsOwnEmitted
  <2>6. /\ Own(state.pending_start)' /\ state'.pending_start.explicit
        /\ state'.pending_start.directives.tags = own.tags /\ ~NoDirectives.any
    BY <2>1, <2>2, <2>3 DEF NoDirectives
  <2> QED
    BY <1>2, <1>6, <1>8, <2>1, <2>3, <2>5, <2>6 DEF Declared, InNode
<1>10. CASE StartWithValue
  <2> DEFINE x == [line |-> pos, explicit |-> TRUE, directives |-> directives]
  <2>1. /\ UNCHANGED content_lines /\ at' = "node" /\ k = "startValue" /\ ~PendingStart
        /\ directives' = NoDirectives /\ active' = [schema |-> SchemaFor(directives), tags |-> directives.tags]
        /\ state'.pending_start = state.pending_start /\ doc' = x
    BY <1>1, <1>4, <1>10 DEF StartWithValue, Scanning, ActivatePending, Typed
  <2>2. Emit(Append(CloseOpen, DocStart(x)))
    BY <1>10, Zenon DEF StartWithValue
  <2>3. PICK s \in Starts : s = [line |-> n, explicit |-> TRUE, directives |-> own]
    BY DEF Starts
  <2>4. Own(s)' /\ DeclaredBefore(n + 1)' = NoDirectives
    BY <1>7, <2>1, <2>3 DEF StartKinds
  <2>5. s = x
    BY <1>2, <1>3, <2>3
  <2> HIDE DEF x
  <2>6. Opens(Append(CloseOpen, DocStart(s)), DocStart(s)) /\ Emit(Append(CloseOpen, DocStart(s)))
    BY <1>1, <2>2, <2>5, StartOpens
  <2>7. StartsOwn'
    <3>1. PICK y : y = DocStart(s)
      OBVIOUS
    <3>2. Own(y)'
      BY <2>3, <2>4, <3>1 DEF Own, DocStart
    <3> QED
      BY <1>1, <1>5, <1>6, <2>6, <3>1, <3>2, StartsOwnEmitted
  <2>8. Own(doc)' /\ Own(state.pending_start)'
    <3>1. Own(state.pending_start)'
      BY <1>1, <2>1, OwnKept DEF Declared, Starts
    <3> QED
      BY <2>1, <2>4, <2>5, <3>1
  <2>9. ~PendingStart' /\ doc'.line < pos' /\ doc'.explicit /\ doc'.directives = directives
    BY <1>1, <1>2, <1>3, <1>6, <2>1, <2>3, <2>5 DEF PendingStart
  <2> QED
    BY <1>2, <1>6, <2>1, <2>4, <2>7, <2>8, <2>9 DEF Declared
<1>11. CASE ContentBegin
  <2>1. /\ pos \in content_lines' /\ at' = "node" /\ UNCHANGED directives
        /\ active' = [schema |-> SchemaFor(ContentStart.directives), tags |-> ContentTags]
        /\ state'.pending_start = NoStart /\ doc' = ContentStart /\ Emit(Append(CloseOpen, DocStart(ContentStart)))
    BY <1>1, <1>11 DEF ContentBegin, Typed
  <2>2. PICK s \in Starts : s = ContentStart
    BY <1>1, Built
  <2>3. Own(s)'
    <3>1. CASE PendingStart
      BY <1>1, <2>2, <3>1, OwnKept DEF ContentStart, Declared, Starts
    <3>2. CASE ~PendingStart
      BY <2>2, <3>2 DEF ContentStart, Own, OwnDirectives, NoDirectives
    <3> QED
      BY <3>1, <3>2
  <2>4. DeclaredBefore(n + 1)' = directives
    BY <1>1, <1>2, <1>4, <1>5, <2>1, DeclaredStep
  <2>5. StartsOwn'
    <3>1. PICK y : y = DocStart(s)
      OBVIOUS
    <3>2. Own(y)'
      BY <2>3, <3>1 DEF Own, DocStart
    <3>3. Opens(Append(CloseOpen, DocStart(s)), y) /\ Emit(Append(CloseOpen, DocStart(s)))
      BY <1>1, <2>1, <2>2, <3>1, StartOpens
    <3> QED
      BY <1>1, <1>5, <1>6, <3>2, <3>3, StartsOwnEmitted
  <2>6. Own(state.pending_start)' /\ ~PendingStart'
    BY <2>1 DEF Own, OwnDirectives, NoStart, NoDirectives, PendingStart
  <2>7. active' = [schema |-> SchemaFor(s.directives), tags |-> s.directives.tags]
    <3>1. CASE PendingStart
      BY <2>1, <2>2, <3>1 DEF ContentStart, ContentTags, Declared
    <3>2. CASE ~PendingStart
      BY <2>1, <2>2, <3>2 DEF ContentStart, ContentTags, NoDirectives
    <3> QED
      BY <3>1, <3>2
  <2>8. s.line < pos' /\ (IsLine(s.line, StartKinds)' => s.explicit)
    <3>1. CASE PendingStart
      <4>1. s = state.pending_start /\ s.explicit /\ Own(s)
        BY <2>2, <3>1 DEF ContentStart, Declared
      <4> QED
        BY <1>1, <1>6, <2>2, <4>1 DEF Own, Starts
    <3>2. CASE ~PendingStart
      BY <1>1, <1>6, <2>1, <2>2, <3>2 DEF ContentStart, IsLine
    <3> QED
      BY <3>1, <3>2
  <2> QED
    BY <1>2, <1>5, <1>6, <2>1, <2>2, <2>3, <2>4, <2>5, <2>6, <2>7, <2>8 DEF Declared
<1> QED
  BY <1>9, <1>10, <1>11

LEMMA DeclaredNull ==
  ASSUME ToldInv, Grows, Declared, EofNullDocument \/ StartNullDocument \/ EndNullDocument
  PROVE  Declared'
<1> USE DEF buffer, history
<1>1. /\ WindowInv /\ Typed /\ pos \in Nat /\ doc \in Starts /\ state.pending_start \in Starts
      /\ pos \notin content_lines /\ directives \in Dirs /\ NoStart \in Starts
  BY Built DEF ToldInv, WindowInv, Typed, Windowed
<1>2. PICK n \in Nat : n = pos
  BY <1>1
<1>3. StartsOwn /\ directives = DeclaredBefore(pos) /\ Own(state.pending_start)
  BY DEF Declared
<1>4. /\ PendingStart /\ at = "scan" /\ UNCHANGED <<lines, mode, at, out, client, directives, content_lines>>
      /\ doc' = state.pending_start /\ state'.pending_start = NoStart
  BY <1>1 DEF EofNullDocument, StartNullDocument, EndNullDocument, NullDocument, Typed, Scanning
<1>5. ASSUME NEW e \in BOOLEAN, NEW l \in Nat, NEW p, NullDocument(e, l, p) PROVE StartsOwn'
  <2>1. PICK s \in Starts : s = state.pending_start
    BY <1>1
  <2> DEFINE x == DocStart(s)
             y == Event("Node", s.line)
             z == DocEnd(l, e)
  <2>2. Emit(<<x, y, z>>)
    BY <1>5, <2>1, Zenon DEF NullDocument
  <2>3. x \in Items /\ y \in Items /\ z \in Items /\ y.t = "Node" /\ z.t = "DocEnd"
    <3>1. s.line \in Nat
      BY DEF Starts
    <3>2. x \in Items /\ y \in Items /\ z \in Items
      BY <3>1, ItemsMade
    <3> QED
      BY <3>2 DEF Event, DocEnd
  <2>4. PICK a, b, c : a = x /\ b = y /\ c = z
    OBVIOUS
  <2>5. Own(a)'
    <3>1. Own(s)'
      BY <1>1, <1>3, <2>1, OwnKept DEF Starts
    <3> QED
      BY <2>4, <3>1 DEF Own, DocStart
  <2> HIDE DEF x, y, z
  <2>6. Opens(<<a, b, c>>, a) /\ Emit(<<a, b, c>>)
    BY <2>2, <2>3, <2>4, NullOpens
  <2> QED
    BY <1>1, <1>3, <1>4, <2>5, <2>6, StartsOwnEmitted
<1>6. StartsOwn'
  <2>1. state.pending_start.line \in Nat
    BY <1>1 DEF Starts
  <2>2. CASE EofNullDocument
    BY <1>5, <2>1, <2>2 DEF EofNullDocument
  <2>3. CASE StartNullDocument
    BY <1>5, <2>1, <2>3 DEF StartNullDocument
  <2>4. CASE EndNullDocument
    BY <1>1, <1>5, <2>4 DEF EndNullDocument
  <2> QED
    BY <2>2, <2>3, <2>4
<1>7. DeclaredBefore(pos)' = directives
  <2>1. CASE pos' = pos
    <3>1. pos \in 0 .. pos
      BY <1>1
    <3> QED
      BY <1>1, <1>3, <2>1, <3>1, DeclaredKept
  <2>2. CASE pos' = pos + 1 /\ CurrentKind = "end" /\ ~directives.any
    <3>1. "end" \in LineKinds
      BY DEF LineKinds
    <3>2. pos < Len(lines) /\ lines[pos + 1] = "end"
      BY <1>1, <2>2, <3>1, AtLine DEF Typed
    <3>3. directives = NoDirectives
      BY <1>3, <2>2, NothingDeclared
    <3>4. DeclaredBefore(n + 1)' = NoDirectives
      BY <1>1, <1>2, <1>3, <1>4, <3>1, <3>2, DeclaredStep
    <3> QED
      BY <1>2, <2>2, <3>3, <3>4
  <2>3. (EofNullDocument \/ StartNullDocument) => pos' = pos
    BY DEF EofNullDocument, StartNullDocument, NullDocument
  <2>4. EndNullDocument => pos' = pos + 1 /\ CurrentKind = "end" /\ ~directives.any
    BY DEF EndNullDocument, NullDocument, Scanning
  <2> QED
    BY <2>1, <2>2, <2>3, <2>4
<1>8. Own(doc)' /\ Own(state.pending_start)' /\ ~PendingStart'
  <2>1. Own(doc)'
    BY <1>1, <1>3, <1>4, OwnKept DEF Starts
  <2> QED
    BY <1>4, <2>1 DEF Own, OwnDirectives, NoStart, NoDirectives, PendingStart
<1> QED
  BY <1>4, <1>6, <1>7, <1>8 DEF Declared, InNode

(* What the iterators add to what has been told.                           *)
LEMMA IteratorAdds ==
  ASSUME ToldInv, Unrecorded, Iterator
  PROVE  \E es \in Seq(Items) :
            /\ Yields' = Yields \o es
            /\ \A i \in DOMAIN es : /\ es[i].t # "DocStart"
                                    /\ es[i].t = "StreamEnd" => ret = "none_left"
<1> USE DEF buffer, history
<1>1. /\ WindowInv /\ Typed /\ pos \in Nat /\ Yields \in Seq(Items) /\ doc.line \in Nat
      /\ out \in Seq(Items) /\ client.pending \in Seq(Items) /\ events \in Seq(Items)
      /\ client \in [pending : Seq(Items), error : BOOLEAN, finished : BOOLEAN]
  BY Built, YieldsTyped DEF ToldInv, WindowInv, Typed, Starts
<1>2. at = "client" => events = <<>>
  BY <1>1 DEF ToldInv, Unrecorded, Typed, TypeOK
<1>3. at # "client" => client.pending = <<>>
  BY <1>1 DEF WindowInv, Ordered, NothingPending
<1>4. <<>> \in Seq(Items) /\ Yields \o <<>> = Yields /\ DOMAIN <<>> = {}
  BY <1>1, NoneQuiet, ItemSequences
<1>5. ASSUME Yields' = Yields
      PROVE  \E es \in Seq(Items) :
                /\ Yields' = Yields \o es
                /\ \A i \in DOMAIN es : es[i].t # "DocStart" /\ (es[i].t = "StreamEnd" => ret = "none_left")
  BY <1>4, <1>5
<1>6. ASSUME NEW x \in Items, Yields' = Yields \o <<x>>, x.t # "DocStart", x.t = "StreamEnd" => ret = "none_left"
      PROVE  \E es \in Seq(Items) :
                /\ Yields' = Yields \o es
                /\ \A i \in DOMAIN es : es[i].t # "DocStart" /\ (es[i].t = "StreamEnd" => ret = "none_left")
  <2>1. <<x>> \in Seq(Items) /\ DOMAIN <<x>> = {1} /\ <<x>>[1] = x
    OBVIOUS
  <2> QED
    BY <1>6, <2>1
<1>7. ASSUME NEW x \in Items, out' = Append(out, x), client.pending = <<>>, client'.pending = <<>>,
             events = <<>>, events' = <<>>
      PROVE  Yields' = Yields \o <<x>>
  <2>1. Yields = (out \o <<>>) \o <<>> /\ Yields' = (Append(out, x) \o <<>>) \o <<>>
    BY <1>7 DEF Yields
  <2>2. Append(out, x) \in Seq(Items) /\ out \in Seq(Items)
    BY <1>1, AppendProperties
  <2>3. Yields = out /\ Yields' = Append(out, x)
    BY <2>1, <2>2, ConcatEnds
  <2> QED
    BY <2>2, <2>3, ConcatEnds
<1>8. /\ Event("Err", pos) \in Items /\ Event("Err", pos).t = "Err"
      /\ Event("StreamEnd", pos) \in Items /\ Event("StreamEnd", pos).t = "StreamEnd"
      /\ Event("MergeErr", doc.line) \in Items /\ Event("MergeErr", doc.line).t = "MergeErr"
      /\ DocumentItem \in Items /\ DocumentItem.t = "Doc"
  BY <1>1, ItemsMade, DocumentMade DEF Event, DocumentItem
<1>9. CASE Call \/ NextAfterEnd
  BY <1>5, <1>9 DEF Call, NextAfterEnd, Yields, vars
<1>10. CASE NextEvent
  <2>1. at = "client" /\ client.pending # <<>> /\ out' = Append(out, Head(client.pending)) /\ events' = events
    BY <1>10 DEF NextEvent
  <2>2. client'.pending = Tail(client.pending)
    BY <1>1, <1>10 DEF NextEvent
  <2>3. Append(out, Head(client.pending)) \o Tail(client.pending) = out \o client.pending
    BY <1>1, <2>1, ConcatEnds
  <2>4. Yields' = Yields
    BY <2>1, <2>2, <2>3, Zenon DEF Yields
  <2> QED
    BY <1>5, <2>4
<1>11. CASE NextPendingError
  <2>1. /\ at = "client" /\ client.pending = <<>> /\ out' = Append(out, Event("Err", pos)) /\ events' = events
        /\ client' = [client EXCEPT !.error = FALSE]
    BY <1>11 DEF NextPendingError
  <2>2. client'.pending = <<>>
    BY <1>1, <2>1
  <2> QED
    BY <1>2, <1>6, <1>7, <1>8, <2>1, <2>2
<1>12. CASE ReturnToEvents
  <2>1. /\ out' = out /\ at # "client" /\ events' = <<>>
        /\ client'.pending = events \o (IF ret = "none_left" THEN <<Event("StreamEnd", pos)>> ELSE <<>>)
    BY <1>1, <1>12 DEF ReturnToEvents, WindowInv, Ordered
  <2>2. Yields = out \o events
    <3>1. Yields = (out \o <<>>) \o events
      BY <1>3, <2>1 DEF Yields
    <3> QED
      BY <1>1, <3>1, ConcatEnds
  <2>3. CASE ret = "none_left"
    <3>1. PICK x \in Items : x = Event("StreamEnd", pos)
      BY <1>8
    <3>2. client'.pending = events \o <<x>> /\ <<x>> \in Seq(Items)
      BY <2>1, <2>3, <3>1
    <3>3. Yields' = out \o (events \o <<x>>)
      BY <1>1, <2>1, <3>2, SMTT(30) DEF Yields
    <3>4. Yields' = Yields \o <<x>>
      BY <1>1, <2>2, <3>2, <3>3, ConcatAssociates
    <3> QED
      BY <1>6, <1>8, <2>3, <3>1, <3>4
  <2>4. CASE ret # "none_left"
    <3>1. Yields' = out \o events
      BY <1>1, <2>1, <2>4 DEF Yields
    <3> QED
      BY <1>5, <2>2, <3>1
  <2> QED
    BY <2>3, <2>4
<1>13. CASE ReturnToDocuments \/ ReturnMergeError
  <2>1. at # "client" /\ mode = "documents" /\ events' = events /\ client'.pending = client.pending
    BY <1>1, <1>13 DEF ReturnToDocuments, ReturnMergeError, WindowInv, Ordered
  <2>2. /\ client.pending = <<>> /\ client'.pending = <<>> /\ events = <<>> /\ events' = <<>>
    BY <1>3, <2>1 DEF Unrecorded
  <2>3. \/ out' = out
        \/ out' = Append(out, DocumentItem)
        \/ out' = Append(out, Event("Err", pos))
        \/ out' = Append(out, Event("MergeErr", doc.line))
    <3>1. CASE ReturnMergeError
      BY <3>1, Zenon DEF ReturnMergeError
    <3>2. CASE ReturnToDocuments
      <4>1. ret \in {"doc", "err", "reclaimed", "none_left"}
        BY <1>1, <3>2 DEF ReturnToDocuments, Typed, TypeOK
      <4> QED
        BY <3>2, <4>1 DEF ReturnToDocuments, Failed
    <3> QED
      BY <1>13, <3>1, <3>2
  <2>4. CASE out' = out
    BY <1>5, <2>2, <2>4 DEF Yields
  <2>5. CASE out' = Append(out, DocumentItem)
    BY <1>6, <1>7, <1>8, <2>2, <2>5
  <2>6. CASE out' = Append(out, Event("Err", pos))
    BY <1>6, <1>7, <1>8, <2>2, <2>6
  <2>7. CASE out' = Append(out, Event("MergeErr", doc.line))
    BY <1>6, <1>7, <1>8, <2>2, <2>7
  <2> QED
    BY <2>3, <2>4, <2>5, <2>6, <2>7
<1> QED
  BY <1>9, <1>10, <1>11, <1>12, <1>13 DEF Iterator

LEMMA DeclaredIterates ==
  ASSUME ToldInv, Grows, Declared, Unrecorded, Iterator
  PROVE  Declared'
<1> USE DEF buffer, history
<1>1. StartsOwn'
  <2>1. PICK es \in Seq(Items) : Yields' = Yields \o es /\ \A i \in DOMAIN es : es[i].t # "DocStart"
    BY IteratorAdds
  <2> QED
    BY <2>1, StartsOwnQuiet DEF ToldInv, Declared
<1>2. UNCHANGED <<pos, directives, active, doc, state>> /\ (InNode' => InNode)
  BY DEF Iterator, Call, NextEvent, NextPendingError, NextAfterEnd, ReturnToEvents, ReturnToDocuments,
         ReturnMergeError, InNode, vars
<1> QED
  BY <1>1, <1>2, DeclaredStill

LEMMA DeclaredNext ==
  ASSUME ToldInv, Declared, Unrecorded, [Next]_vars
  PROVE  Declared'
<1> USE DEF buffer, history
<1>1. WindowInv /\ Typed /\ Grows /\ StartsOwn
  BY StepGrows DEF ToldInv, WindowInv, Declared
<1>2. CASE UNCHANGED vars \/ PushNext \/ PushNothing \/ NodeMergeKey \/ DocumentParsed
  <2>1. UNCHANGED <<pos, directives, active, doc, state, at, out, client, events>>
    BY <1>2 DEF vars, PushNext, PushNothing, NodeMergeKey, DocumentParsed
  <2>2. StartsOwn'
    BY <1>1, <2>1, StartsOwnSame DEF Yields
  <2> QED
    BY <1>1, <2>1, <2>2, DeclaredStill DEF InNode
<1>3. CASE LineError \/ NodeError \/ TrailingContent \/ EofAfterDirectives \/ DirectiveInsideDocument
           \/ DirectiveInvalid \/ EndAfterDirectives \/ ContentAfterDirectives
  <2>1. UNCHANGED <<pos, directives, active, doc, at, out, client, events>>
        /\ state' = [state EXCEPT !.finished = TRUE]
    BY <1>3 DEF LineError, NodeError, TrailingContent, EofAfterDirectives, DirectiveInsideDocument,
                DirectiveInvalid, EndAfterDirectives, ContentAfterDirectives, Reject, Stop
  <2>2. StartsOwn'
    BY <1>1, <2>1, StartsOwnSame DEF Yields
  <2>3. state'.pending_start = state.pending_start
    BY <1>1, <2>1 DEF Typed
  <2> QED
    BY <1>1, <2>1, <2>2, <2>3, DeclaredStill DEF InNode
<1>4. CASE EofStreamEnd
  <2>1. UNCHANGED <<pos, directives, active, doc, at, out, client, mode>> /\ Emit(CloseOpen)
        /\ state' = [state EXCEPT !.open_document = FALSE, !.finished = TRUE]
    BY <1>4 DEF EofStreamEnd
  <2>2. Quiet(CloseOpen)
    <3>1. FALSE \in BOOLEAN
      OBVIOUS
    <3> QED
      BY <1>1, <3>1, CloseQuiet, Zenon DEF CloseOpen
  <2>3. StartsOwn'
    BY <1>1, <2>1, <2>2, StartsOwnEmitted
  <2>4. state'.pending_start = state.pending_start
    BY <1>1, <2>1 DEF Typed
  <2> QED
    BY <1>1, <2>1, <2>3, <2>4, DeclaredStill DEF InNode
<1>5. CASE NodeComplete
  <2>1. UNCHANGED <<pos, directives, active, doc, out, client, mode>> /\ at = "node"
        /\ state' = [state EXCEPT !.open_document = TRUE]
    BY <1>5 DEF NodeComplete
  <2>2. PICK x \in Items : x = Event("Node", doc.line)
    BY <1>1, ItemsMade DEF Typed, Starts
  <2>3. Emit(<<x>>) /\ Quiet(<<x>>)
    <3>1. x.t \notin {"DocStart", "StreamEnd"}
      BY <2>2 DEF Event
    <3>2. Emit(<<x>>)
      BY <1>5, <2>2, Zenon DEF NodeComplete
    <3> QED
      BY <3>1, <3>2, OneQuiet
  <2>4. StartsOwn'
    BY <1>1, <2>1, <2>3, StartsOwnEmitted
  <2>5. state'.pending_start = state.pending_start
    BY <1>1, <2>1 DEF Typed
  <2> QED
    BY <1>1, <2>1, <2>4, <2>5, DeclaredStill DEF InNode
<1> QED
  BY <1>1, <1>2, <1>3, <1>4, <1>5, DeclaredPasses, DeclaredOpens, DeclaredNull, DeclaredIterates
     DEF Next, ReadLine, Scan, Node

LEMMA UnrecordedNext ==
  ASSUME ToldInv, Unrecorded, [Next]_vars
  PROVE  Unrecorded'
<1> USE DEF buffer, history
<1>1. client \in [pending : Seq(Items), error : BOOLEAN, finished : BOOLEAN]
  BY DEF ToldInv, WindowInv, Typed
<1>2. CASE UNCHANGED vars \/ ReadLine
  BY <1>2 DEF vars, ReadLine, PushNext, PushNothing, LineError, Unrecorded
<1>3. CASE Scan
  <2>1. client' = client /\ mode' = mode /\ (mode = "documents" => events' = events)
    BY <1>3 DEF Scan, Emit, SkipBlank, EofAfterDirectives, EofNullDocument, EofStreamEnd,
      DirectiveInsideDocument, ParseDirective, DirectiveInvalid, StartNullDocument, StartMarker, StartWithValue,
      EndAfterDirectives, EndNullDocument, EndMarker, ContentAfterDirectives, ContentBegin, NullDocument, Reject
  <2> QED
    BY <2>1 DEF Unrecorded
<1>4. CASE Node
  <2>1. client' = client /\ mode' = mode /\ (mode = "documents" => events' = events)
    BY <1>4 DEF Node, Emit, NodeConsumeLine, NodeMergeKey, NodeComplete, NodeError, TrailingContent,
      DocumentParsed, Reject
  <2> QED
    BY <2>1 DEF Unrecorded
<1>5. CASE Iterator
  <2>1. mode = "documents" => /\ mode' = mode /\ events' = events
                              /\ client'.pending = client.pending
    BY <1>1, <1>5 DEF Iterator, Call, NextEvent, NextPendingError, NextAfterEnd, ReturnToEvents,
      ReturnToDocuments, ReturnMergeError, vars, Unrecorded
  <2>2. mode' = mode
    BY <1>5 DEF Iterator, Call, NextEvent, NextPendingError, NextAfterEnd, ReturnToEvents,
      ReturnToDocuments, ReturnMergeError, vars
  <2> QED
    BY <2>1, <2>2 DEF Unrecorded
<1> QED
  BY <1>2, <1>3, <1>4, <1>5 DEF Next

-----------------------------------------------------------------------------
(* The merge policies stay scoped over every step.                         *)
BeforeKept == \A l \in Nat : Before(l) => Before(l)'
NodeKept   == InNode' => \/ InNode /\ doc' = doc
                         \/ \A l \in Nat : Before(l) => l < doc'.line

LEMMA DocLines ==
  ASSUME WindowInv
  PROVE  /\ out \in Seq(Items)
         /\ \A i \in DOMAIN out : out[i].t = "Doc" => out[i].line \in Nat
         /\ doc.line \in Nat /\ state.pending_start.line \in Nat /\ pos \in Nat
<1>1. out \in Seq(Items)
  BY DEF WindowInv, Typed
<1>2. \A x \in Items : x.t = "Doc" => x.line \in Nat
  BY DEF Items, Marks, DocStarts, DocEnds, Docs
<1>3. \A i \in DOMAIN out : out[i] \in Items
  BY <1>1, ElementOfSeq
<1> QED
  BY <1>1, <1>2, <1>3, Built DEF WindowInv, Typed, Starts

LEMMA DocOwnKept ==
  ASSUME WindowInv, Grows, NEW d, d.line \in Nat, DocOwn(d), BeforeKept, NodeKept,
         d.line \in merge_docs' <=> d.line \in merge_docs
  PROVE  DocOwn(d)'
<1>1. Before(d.line) /\ Before(d.line)'
  BY DEF DocOwn, BeforeKept
<1>2. InNode' => d.line < doc'.line
  BY <1>1 DEF DocOwn, NodeKept
<1>3. d.line \in 0 .. (pos - 1)
  BY <1>1, DocLines DEF Before
<1>4. Policy(d.line)' = Policy(d.line)
  BY <1>3, PolicyKept
<1> QED
  BY <1>1, <1>2, <1>4 DEF DocOwn

LEMMA DocsOwnKept ==
  ASSUME WindowInv, Grows, DocsOwn, BeforeKept, NodeKept, UNCHANGED <<out, merge_docs>>,
         doc'.line \in Nat
  PROVE  DocsOwn'
<1>1. PICK o : o = out
  OBVIOUS
<1>2. ASSUME NEW i \in DOMAIN o, o[i].t = "Doc" PROVE DocOwn(o[i])'
  <2>1. o[i].line \in Nat /\ DocOwn(o[i])
    BY <1>1, <1>2, DocLines DEF DocsOwn
  <2> QED
    BY <2>1, DocOwnKept
<1>3. ASSUME NEW m \in merge_docs PROVE Before(m)' /\ (InNode' => m <= doc'.line)
  <2>1. m \in Nat /\ Before(m) /\ (InNode => m <= doc.line)
    BY DEF DocsOwn
  <2>2. Before(m)'
    BY <2>1 DEF BeforeKept
  <2>3. CASE InNode' /\ InNode /\ doc' = doc
    BY <2>1, <2>2, <2>3
  <2>4. CASE InNode' /\ \A l \in Nat : Before(l) => l < doc'.line
    <3>1. m < doc'.line
      BY <2>1, <2>4
    <3> QED
      BY <2>1, <2>2, <3>1
  <2> QED
    BY <2>2, <2>3, <2>4 DEF NodeKept
<1>4. out' = o
  BY <1>1
<1> QED
  BY <1>2, <1>3, <1>4 DEF DocsOwn

(* Passing a line, or a marker with its own position, brings no earlier    *)
(* position nearer.                                                        *)
LEMMA BeforeKeeps ==
  ASSUME WindowInv, Grows,
         PendingStart' => \/ PendingStart /\ state'.pending_start = state.pending_start
                          \/ state'.pending_start.line = pos
  PROVE  BeforeKept
BY DocLines DEF Grows, Before, BeforeKept

(* A step that opens and finishes no document.                             *)
LEMMA MergedQuiet ==
  ASSUME WindowInv, Grows, Merged, BeforeKept, ret # "doc", ret' # "doc", at' = at \/ (InNode /\ InNode'),
         UNCHANGED <<has_merge, doc, out, merge_docs>>, state'.finished = state.finished \/ state'.finished,
         InNode => ~PendingStart'
  PROVE  Merged'
<1>1. InNode' => InNode
  BY DEF InNode
<1>2. DocsOwn'
  BY <1>1, DocsOwnKept, DocLines DEF Merged, NodeKept
<1> QED
  BY <1>1, <1>2 DEF Merged, InNode

LEMMA MergedOpens ==
  ASSUME WindowInv, Grows, Merged, BeforeKept, at = "scan", at' = "node", ret' # "doc", ~PendingStart',
         UNCHANGED <<has_merge, out, merge_docs>>, doc'.line \in Nat,
         \A l \in Nat : Before(l) => l < doc'.line
  PROVE  Merged'
<1>1. DocsOwn'
  BY DocsOwnKept DEF Merged, NodeKept
<1>2. doc'.line \notin merge_docs' /\ ~has_merge'
  BY DEF Merged, DocsOwn
<1> QED
  BY <1>1, <1>2 DEF Merged, InNode

LEMMA MergedNull ==
  ASSUME ToldInv, Grows, Declared, Merged, EofNullDocument \/ StartNullDocument \/ EndNullDocument
  PROVE  Merged'
<1> USE DEF buffer, history
<1>1. WindowInv /\ state.pending_start.line \in Nat /\ pos \in Nat
  BY DocLines DEF ToldInv
<1>2. /\ at = "scan" /\ at' = "scan" /\ UNCHANGED <<out, merge_docs>> /\ PendingStart /\ ret' = "doc"
      /\ doc' = state.pending_start /\ state'.pending_start = NoStart /\ ~has_merge' /\ recorded'.merge = has_merge
  BY DEF EofNullDocument, StartNullDocument, EndNullDocument, NullDocument, FinishParsedDocument, Scanning,
         ToldInv, WindowInv, Typed
<1>3. ~PendingStart' /\ ~InNode'
  BY <1>2 DEF PendingStart, InNode, NoStart, NoDirectives
<1>4. BeforeKept
  BY <1>1, <1>3, BeforeKeeps
<1>5. DocsOwn'
  BY <1>1, <1>2, <1>3, <1>4, DocsOwnKept DEF Merged, NodeKept
<1>6. doc'.line \notin merge_docs' /\ ~has_merge
  BY <1>1, <1>2 DEF Merged, DocsOwn, Before
<1>7. doc'.line < pos'
  BY <1>1, <1>2 DEF Declared, Own, Grows
<1> QED
  BY <1>2, <1>3, <1>5, <1>6, <1>7 DEF Merged

LEMMA MergedScan ==
  ASSUME ToldInv, ToldInv', Grows, Declared, Merged, Scan
  PROVE  Merged'
<1> USE DEF buffer, history
<1>1. WindowInv /\ Typed /\ state.pending_start.line \in Nat /\ pos \in Nat /\ doc'.line \in Nat
  <2>1. WindowInv'
    BY DEF ToldInv
  <2>2. doc' \in Starts
    BY <2>1 DEF WindowInv, Typed
  <2> QED
    BY <2>2, DocLines DEF ToldInv, WindowInv, Starts
<1>2. at = "scan" /\ ret = "none" /\ ~InNode
  BY DEF Scan, Scanning, SkipBlank, EofAfterDirectives, EofNullDocument, EofStreamEnd,
         DirectiveInsideDocument, ParseDirective, DirectiveInvalid, StartNullDocument, StartMarker,
         StartWithValue, EndAfterDirectives, EndNullDocument, EndMarker, ContentAfterDirectives,
         ContentBegin, InNode
<1>3. CASE SkipBlank \/ ParseDirective \/ EndMarker \/ StartMarker \/ EofStreamEnd
  <2>1. /\ ret' # "doc" /\ UNCHANGED <<at, has_merge, doc, out, merge_docs>>
        /\ state'.finished = state.finished \/ state'.finished
    BY <1>1, <1>2, <1>3 DEF SkipBlank, ParseDirective, EndMarker, StartMarker, EofStreamEnd, Stop, Typed
  <2>2. \/ state'.pending_start = state.pending_start
        \/ state'.pending_start.line = pos
    <3>1. CASE StartMarker
      <4>1. state'.pending_start = [line |-> pos, explicit |-> TRUE, directives |-> directives]
        BY <1>1, <3>1 DEF StartMarker, Typed
      <4> QED
        BY <4>1
    <3>2. CASE SkipBlank \/ ParseDirective \/ EndMarker \/ EofStreamEnd
      BY <1>1, <3>2 DEF SkipBlank, ParseDirective, EndMarker, EofStreamEnd, Typed
    <3> QED
      BY <1>3, <3>1, <3>2
  <2>3. BeforeKept
    BY <1>1, <2>2, BeforeKeeps DEF PendingStart
  <2> QED
    BY <1>1, <1>2, <2>1, <2>3, MergedQuiet
<1>4. CASE EofAfterDirectives \/ DirectiveInsideDocument \/ DirectiveInvalid \/ EndAfterDirectives
           \/ ContentAfterDirectives
  <2>1. /\ ret' = "err" /\ UNCHANGED <<at, has_merge, doc, out, merge_docs>>
        /\ state' = [state EXCEPT !.finished = TRUE]
    BY <1>4 DEF EofAfterDirectives, DirectiveInsideDocument, DirectiveInvalid, EndAfterDirectives,
           ContentAfterDirectives, Reject, Stop
  <2>2. state'.pending_start = state.pending_start /\ state'.finished
    BY <1>1, <2>1 DEF Typed
  <2>3. BeforeKept
    BY <1>1, <2>2, BeforeKeeps DEF PendingStart
  <2> QED
    BY <1>1, <1>2, <2>1, <2>2, <2>3, MergedQuiet
<1>5. CASE StartWithValue
  <2>1. /\ ret' = ret /\ at' = "node" /\ UNCHANGED <<has_merge, out, merge_docs>> /\ ~PendingStart
        /\ doc'.line = pos /\ state'.pending_start = state.pending_start
    BY <1>1, <1>5 DEF StartWithValue, Typed
  <2>2. ~PendingStart'
    BY <2>1 DEF PendingStart
  <2>3. BeforeKept
    BY <1>1, <2>2, BeforeKeeps
  <2>4. \A l \in Nat : Before(l) => l < doc'.line
    BY <2>1 DEF Before
  <2> QED
    BY <1>1, <1>2, <2>1, <2>2, <2>3, <2>4, MergedOpens
<1>6. CASE ContentBegin
  <2>1. /\ ret' = ret /\ at' = "node" /\ UNCHANGED <<has_merge, out, merge_docs>>
        /\ doc'.line = (IF PendingStart THEN state.pending_start.line ELSE pos)
        /\ state'.pending_start = NoStart
    BY <1>1, <1>6 DEF ContentBegin, ContentStart, Typed
  <2>2. ~PendingStart'
    BY <2>1 DEF PendingStart, NoStart, NoDirectives
  <2>3. BeforeKept
    BY <1>1, <2>2, BeforeKeeps
  <2>4. \A l \in Nat : Before(l) => l < doc'.line
    BY <2>1 DEF Before
  <2> QED
    BY <1>1, <1>2, <2>1, <2>2, <2>3, <2>4, MergedOpens
<1> QED
  BY <1>3, <1>4, <1>5, <1>6, MergedNull DEF Scan

LEMMA MergedNode ==
  ASSUME ToldInv, Grows, Declared, Merged, ReadLine \/ Node
  PROVE  Merged'
<1> USE DEF buffer, history
<1>1. WindowInv /\ Typed /\ pos \in Nat /\ doc.line \in Nat
  BY DocLines DEF ToldInv, WindowInv
<1>2. state' = state \/ state' = [state EXCEPT !.finished = TRUE] \/ state' = [state EXCEPT !.open_document = TRUE]
  BY DEF ReadLine, PushNext, PushNothing, LineError, Node, NodeConsumeLine, NodeMergeKey, NodeComplete, NodeError,
         TrailingContent, DocumentParsed, Reject, Stop
<1>3. /\ state'.pending_start = state.pending_start /\ (state'.finished = state.finished \/ state'.finished)
      /\ PendingStart' = PendingStart
  BY <1>1, <1>2 DEF Typed, PendingStart
<1>4. BeforeKept
  BY <1>1, <1>3, BeforeKeeps
<1>5. InNode => ~PendingStart'
  BY <1>3 DEF Merged
<1>6. CASE PushNext \/ PushNothing \/ NodeConsumeLine \/ NodeComplete
  <2>1. /\ ret = "none" /\ ret' = ret /\ UNCHANGED <<has_merge, doc, out, merge_docs>>
        /\ at' = at \/ (InNode /\ InNode')
    BY <1>6 DEF PushNext, PushNothing, NodeConsumeLine, NodeComplete, WantsLine, Running, InNode
  <2> QED
    BY <1>1, <1>3, <1>4, <1>5, <2>1, MergedQuiet
<1>7. CASE LineError \/ NodeError \/ TrailingContent
  <2>1. ret = "none" /\ ret' # "doc" /\ at' = at /\ UNCHANGED <<has_merge, doc, out, merge_docs>>
    BY <1>7 DEF LineError, NodeError, TrailingContent, Reject, Stop, Running
  <2> QED
    BY <1>1, <1>3, <1>4, <1>5, <2>1, MergedQuiet
<1>8. CASE NodeMergeKey
  <2>1. /\ at = "node" /\ at' = "node" /\ ret = "none" /\ ret' = "none" /\ has_merge' /\ UNCHANGED <<doc, out, lines, content_lines, pos>>
        /\ merge_docs' = merge_docs \union {doc.line} /\ InNode /\ InNode' /\ ~PendingStart
    BY <1>8 DEF NodeMergeKey, InNode, ToldInv
  <2>2. NodeKept
    BY <2>1 DEF NodeKept
  <2>3. PICK o : o = out
    OBVIOUS
  <2>4. ASSUME NEW i \in DOMAIN o, o[i].t = "Doc" PROVE DocOwn(o[i])'
    <3>1. o[i].line \in Nat /\ DocOwn(o[i])
      BY <1>1, <2>3, <2>4, DocLines DEF Merged, DocsOwn
    <3>2. o[i].line < doc.line
      BY <2>1, <3>1 DEF DocOwn
    <3>3. o[i].line \in merge_docs' <=> o[i].line \in merge_docs
      BY <1>1, <2>1, <3>1, <3>2
    <3> QED
      BY <1>1, <1>4, <2>2, <3>1, <3>3, DocOwnKept
  <2>5. ASSUME NEW m \in merge_docs' PROVE m \in Nat /\ Before(m)' /\ m <= doc'.line
    <3>1. CASE m \in merge_docs
      BY <1>4, <2>1, <3>1 DEF Merged, DocsOwn, BeforeKept
    <3>2. CASE m = doc.line
      <4>1. Before(doc.line)
        BY <2>1 DEF Declared, Before
      <4> QED
        BY <1>1, <1>4, <2>1, <3>2, <4>1 DEF BeforeKept
    <3> QED
      BY <2>1, <3>1, <3>2
  <2>6. DocsOwn'
    BY <2>1, <2>3, <2>4, <2>5 DEF DocsOwn
  <2>7. doc'.line \in merge_docs' /\ ~PendingStart'
    BY <1>5, <2>1
  <2> QED
    BY <2>1, <2>6, <2>7 DEF Merged
<1>9. CASE DocumentParsed
  <2>1. /\ at = "trail" /\ at' = at /\ ret = "none" /\ ret' = "doc" /\ ~has_merge'
        /\ recorded' = [schema |-> active.schema, merge |-> has_merge]
        /\ UNCHANGED <<doc, out, merge_docs, pos, lines, content_lines>> /\ InNode /\ InNode'
    BY <1>9 DEF DocumentParsed, FinishParsedDocument, InNode
  <2>2. DocsOwn'
    BY <1>1, <1>4, <2>1, DocsOwnKept DEF NodeKept, Merged
  <2>3. doc.line < pos /\ active.schema = SchemaFor(doc.directives) /\ Own(doc)
        /\ (IsLine(doc.line, StartKinds) => doc.explicit)
    BY <2>1 DEF Declared
  <2>4. IsLine(doc.line, StartKinds) <=> doc.explicit
    BY <2>3 DEF Own
  <2>5. active.schema = Policy(doc.line)
    <3>1. doc.explicit \in BOOLEAN /\ IsLine(doc.line, StartKinds) \in BOOLEAN
      BY <1>1 DEF Typed, Starts, IsLine
    <3>2. OwnDirectives(doc.line, IsLine(doc.line, StartKinds)) = OwnDirectives(doc.line, doc.explicit)
      BY <2>4, <3>1 DEF OwnDirectives
    <3> QED
      BY <2>3, <3>2 DEF Own, Policy
  <2>6. Policy(doc.line)' = Policy(doc.line)
    <3>1. PICK l \in 0 .. (pos - 1) : l = doc.line
      BY <1>1, <2>3
    <3>2. Policy(l)' = Policy(l)
      BY <1>1, PolicyKept
    <3> QED
      BY <2>1, <3>1, <3>2
  <2>7. has_merge <=> doc.line \in merge_docs
    BY <2>1 DEF Merged
  <2>8. ~PendingStart'
    BY <1>5, <2>1
  <2>9. /\ recorded'.merge <=> doc'.line \in merge_docs'
        /\ recorded'.schema = Policy(doc.line)'
    BY <2>1, <2>5, <2>6, <2>7
  <2> QED
    BY <2>1, <2>2, <2>3, <2>8, <2>9 DEF Merged
<1> QED
  BY <1>6, <1>7, <1>8, <1>9 DEF ReadLine, Node

LEMMA MergedIterates ==
  ASSUME ToldInv, Unrecorded, Grows, Declared, Merged, Iterator \/ UNCHANGED vars
  PROVE  Merged'
<1> USE DEF buffer, history
<1>1. /\ WindowInv /\ Typed /\ pos \in Nat /\ doc.line \in Nat /\ out \in Seq(Items)
      /\ client.pending \in Seq(Items)
  BY DocLines DEF ToldInv, WindowInv, Typed
<1>2. UNCHANGED <<pos, lines, content_lines, state, doc, merge_docs, has_merge, recorded>>
  BY DEF Iterator, Call, NextEvent, NextPendingError, NextAfterEnd, ReturnToEvents, ReturnToDocuments,
         ReturnMergeError, vars
<1>3. BeforeKept /\ PendingStart' = PendingStart
  <2>1. PendingStart' = PendingStart
    BY <1>2 DEF PendingStart
  <2> QED
    BY <1>1, <1>2, <2>1, BeforeKeeps
<1>4. ~InNode' \/ UNCHANGED vars
  BY DEF Iterator, Call, NextEvent, NextPendingError, NextAfterEnd, ReturnToEvents, ReturnToDocuments,
         ReturnMergeError, InNode
<1>5. CASE UNCHANGED vars
  <2>1. InNode' = InNode
    BY <1>5 DEF vars, InNode
  <2>2. DocsOwn'
    BY <1>1, <1>2, <1>3, <1>5, <2>1, DocsOwnKept DEF NodeKept, Merged, vars
  <2>3. ret # "doc" \/ at # "client"
    BY <1>1 DEF WindowInv, Ordered
  <2>4. ret = "doc" => Policy(doc.line)' = Policy(doc.line)
    <3>1. ASSUME ret = "doc" PROVE Policy(doc.line)' = Policy(doc.line)
      <4>1. PICK l \in 0 .. (pos - 1) : l = doc.line
        BY <1>1, <3>1 DEF Merged
      <4>2. Policy(l)' = Policy(l)
        BY <1>1, PolicyKept
      <4> QED
        BY <1>2, <4>1, <4>2
    <3> QED
      BY <3>1
  <2> QED
    BY <1>2, <1>3, <1>5, <2>1, <2>2, <2>4 DEF Merged, vars
<1>6. CASE Iterator /\ ~InNode'
  <2>1. NodeKept
    BY <1>6 DEF NodeKept
  <2>2. ret' # "doc" /\ (at' = "scan" \/ (at' = "client" /\ ~state'.finished) => ~has_merge')
    <3>1. CASE Call
      BY <1>1, <3>1 DEF Call, Merged, WindowInv, Ordered
    <3>2. CASE NextEvent \/ NextPendingError \/ NextAfterEnd
      BY <1>1, <3>2 DEF NextEvent, NextPendingError, NextAfterEnd, vars, Merged, WindowInv, Ordered
    <3>3. CASE ReturnToEvents \/ ReturnToDocuments \/ ReturnMergeError
      <4>1. ret # "none" /\ at' = "client" /\ ret' = "none" /\ has_merge' = has_merge /\ state' = state
        BY <1>2, <3>3 DEF ReturnToEvents, ReturnToDocuments, ReturnMergeError
      <4>2. ret = "doc" \/ state.finished
        BY <1>1, <4>1 DEF WindowInv, Windowed, Ordered, Typed, TypeOK
      <4> QED
        BY <4>1, <4>2 DEF Merged
    <3> QED
      BY <1>6, <3>1, <3>2, <3>3 DEF Iterator
  <2>3. ASSUME out' = out PROVE DocsOwn'
    BY <1>1, <1>2, <1>3, <2>1, <2>3, DocsOwnKept DEF Merged
  <2>4. ASSUME NEW x \in Items, out' = Append(out, x), x.t = "Doc" => DocOwn(x)'
        PROVE  DocsOwn'
    <3>1. PICK o : o = out
      OBVIOUS
    <3>2. ASSUME NEW i \in DOMAIN o, o[i].t = "Doc" PROVE DocOwn(o[i])'
      <4>1. o[i].line \in Nat /\ DocOwn(o[i])
        BY <1>1, <3>1, <3>2, DocLines DEF Merged, DocsOwn
      <4> QED
        BY <1>1, <1>2, <1>3, <2>1, <4>1, DocOwnKept
    <3>3. PICK y : y = Append(o, x)
      OBVIOUS
    <3>4. \A i \in DOMAIN y : (i \in DOMAIN o /\ y[i] = o[i]) \/ y[i] = x
      BY <1>1, <3>1, <3>3
    <3>5. \A i \in DOMAIN y : y[i].t = "Doc" => DocOwn(y[i])'
      BY <2>4, <3>2, <3>4
    <3>6. out' = y
      BY <2>4, <3>1, <3>3
    <3>7. ASSUME NEW m \in merge_docs PROVE m \in Nat /\ Before(m)'
      BY <1>3 DEF Merged, DocsOwn, BeforeKept
    <3> QED
      BY <1>2, <1>6, <3>5, <3>6, <3>7 DEF DocsOwn
  <2>5. DocsOwn'
    <3>1. CASE Call \/ NextAfterEnd \/ ReturnToEvents
      BY <2>3, <3>1 DEF Call, NextAfterEnd, ReturnToEvents, vars
    <3>2. CASE NextEvent
      <4>1. mode = "events" /\ client.pending # <<>> /\ out' = Append(out, Head(client.pending))
        BY <1>1, <3>2 DEF NextEvent, Unrecorded, Typed, TypeOK
      <4>2. PICK x \in Items : x = Head(client.pending)
        BY <1>1, <4>1, HeadTailProperties
      <4>3. <<LastItem, x.t>> \in Successor
        BY <1>1, <4>1, <4>2, FollowsTail DEF ToldInv
      <4>4. x.t # "Doc"
        BY <4>3 DEF Successor, Between, Unclosed
      <4> QED
        BY <2>4, <4>1, <4>2, <4>4
    <3>3. CASE NextPendingError
      <4>1. PICK x \in Items : x = Event("Err", pos) /\ x.t = "Err"
        BY <1>1, ItemsMade DEF Event
      <4>2. out' = Append(out, x)
        BY <3>3, <4>1 DEF NextPendingError
      <4> QED
        BY <2>4, <4>1, <4>2
    <3>4. CASE ReturnMergeError
      <4>1. PICK x \in Items : x = Event("MergeErr", doc.line) /\ x.t = "MergeErr"
        BY <1>1, ItemsMade DEF Event
      <4>2. out' = Append(out, Event("MergeErr", doc.line))
        BY <3>4, Zenon DEF ReturnMergeError
      <4> QED
        BY <2>4, <4>1, <4>2
    <3>5. CASE ReturnToDocuments
      <4>1. ret \in {"doc", "err", "reclaimed", "none_left"}
        BY <1>1, <3>5 DEF ReturnToDocuments, Typed, TypeOK
      <4>2. CASE ret = "doc"
        <5>1. out' = Append(out, DocumentItem)
          BY <3>5, <4>2 DEF ReturnToDocuments, Failed
        <5>2. PICK x \in Items : x = DocumentItem
          BY <1>1, DocumentMade
        <5>3. x.line = doc.line /\ x.schema = recorded.schema /\ x.merge = recorded.merge
          BY <5>2 DEF DocumentItem
        <5>4. /\ doc.line < pos /\ ~PendingStart
              /\ recorded.merge <=> doc.line \in merge_docs
              /\ recorded.merge => recorded.schema = Policy(doc.line)
          BY <4>2 DEF Merged
        <5>5. Policy(x.line)' = Policy(x.line)
          <6>1. x.line \in 0 .. (pos - 1)
            BY <1>1, <5>3, <5>4
          <6> QED
            BY <1>1, <6>1, PolicyKept
        <5>6. DocOwn(x)'
          BY <1>2, <1>3, <1>6, <5>3, <5>4, <5>5 DEF DocOwn, Before
        <5> QED
          BY <2>4, <5>1, <5>2, <5>6
      <4>3. CASE ret \in {"err", "reclaimed"}
        <5>1. PICK x \in Items : x = Event("Err", pos) /\ x.t = "Err"
          BY <1>1, ItemsMade DEF Event
        <5>2. out' = Append(out, x)
          BY <3>5, <4>3, <5>1 DEF ReturnToDocuments, Failed
        <5> QED
          BY <2>4, <5>1, <5>2
      <4>4. CASE ret = "none_left"
        BY <2>3, <3>5, <4>4 DEF ReturnToDocuments, Failed
      <4> QED
        BY <4>1, <4>2, <4>3, <4>4
    <3> QED
      BY <1>6, <3>1, <3>2, <3>3, <3>4, <3>5 DEF Iterator
  <2> QED
    BY <1>6, <2>2, <2>5 DEF Merged
<1> QED
  BY <1>4, <1>5, <1>6

-----------------------------------------------------------------------------
(* Nothing that has been passed is dropped.                                *)
LEMMA LinesStill ==
  ASSUME WindowInv, Grows, LinesReached, pos' = pos
  PROVE  LinesReached'
<1>1. PICK n \in Nat : n = pos
  BY Built DEF WindowInv
<1>2. Passed = 0 .. (n - 1) /\ Passed' = 0 .. (n - 1)
  BY <1>1 DEF Passed
<1>3. \A i \in 0 .. (n - 1) : lines'[i + 1] = lines[i + 1] /\ (i \in content_lines => i \in content_lines')
  BY <1>1, Built DEF WindowInv, Grows
<1>4. \A i \in 0 .. (n - 1) : \A kinds : IsLine(i, kinds)' <=> IsLine(i, kinds)
  BY <1>1, LineKept
<1>5. \A m \in 0 .. n : DirectiveLines(m)' = DirectiveLines(m)
  BY <1>1, DirectiveLinesKept
<1>6. n \in 0 .. n /\ \A m \in 0 .. (n - 1) : m \in 0 .. n
  OBVIOUS
<1>7. DirectiveLines(pos)' = DirectiveLines(n)
  BY <1>1, <1>5, <1>6
<1>8. ASSUME NEW i \in 0 .. (n - 1), IsLine(i, DirectiveKinds)'
      PROVE  i \in DirectiveLines(n) \/ \E m \in 0 .. (n - 1) : IsLine(m, StartKinds)' /\ i \in DirectiveLines(m)'
  <2>1. i \in DirectiveLines(n) \/ \E m \in 0 .. (n - 1) : IsLine(m, StartKinds) /\ i \in DirectiveLines(m)
    BY <1>1, <1>2, <1>4, <1>8 DEF LinesReached
  <2> QED
    BY <1>4, <1>5, <1>6, <2>1
<1>9. \A i \in 0 .. (n - 1) : lines'[i + 1] = "content" => i \in content_lines'
  BY <1>2, <1>3 DEF LinesReached
<1> QED
  BY <1>2, <1>7, <1>8, <1>9 DEF LinesReached

LEMMA LinesPass ==
  ASSUME WindowInv, Grows, LinesReached, pos' = pos + 1, pos < Len(lines),
         NEW k \in LineKinds, k = lines[pos + 1],
         k = "content" => pos \in content_lines',
         k = "end" => DirectiveLines(pos) = {}
  PROVE  LinesReached'
<1>1. PICK n \in Nat : n = pos
  BY Built DEF WindowInv
<1>2. Passed = 0 .. (n - 1) /\ Passed' = 0 .. n /\ Passed' = (0 .. (n - 1)) \union {n}
  BY <1>1 DEF Passed
<1>3. \A i \in 0 .. (n - 1) : lines'[i + 1] = lines[i + 1] /\ (i \in content_lines => i \in content_lines')
  BY <1>1, Built, SMTT(30) DEF WindowInv, Grows
<1>4. \A i \in 0 .. (n - 1) : \A kinds : IsLine(i, kinds)' <=> IsLine(i, kinds)
  BY <1>1, LineKept
<1>5. \A m \in 0 .. n : DirectiveLines(m)' = DirectiveLines(m)
  BY <1>1, DirectiveLinesKept
<1>6. n \in 0 .. n /\ \A m \in 0 .. (n - 1) : m \in 0 .. n
  OBVIOUS
<1>7. lines'[n + 1] = k
  BY <1>1, Built DEF WindowInv, Grows
<1>8. \A kinds : IsLine(n, kinds)' <=> k \in kinds /\ n \notin content_lines'
  BY <1>7 DEF IsLine
<1>9. /\ IsLine(n, StartKinds \union {"end"})' => DirectiveLines(n + 1)' = {}
      /\ ~IsLine(n, StartKinds \union {"end"})' =>
            DirectiveLines(n + 1)' = DirectiveLines(n) \union {i \in {n} : IsLine(i, DirectiveKinds)'}
  BY <1>1, DirectiveLinesStep
<1>10. ASSUME NEW i \in DirectiveLines(n)
       PROVE  i \in DirectiveLines(n + 1)' \/ \E m \in 0 .. n : IsLine(m, StartKinds)' /\ i \in DirectiveLines(m)'
  <2>1. CASE ~IsLine(n, StartKinds \union {"end"})'
    BY <1>9, <2>1
  <2>2. CASE IsLine(n, StartKinds)'
    BY <1>5, <1>6, <2>2
  <2>3. IsLine(n, StartKinds \union {"end"})' => IsLine(n, StartKinds)'
    BY <1>1, <1>8
  <2> QED
    BY <2>1, <2>2, <2>3
<1>11. ASSUME NEW i \in 0 .. n, IsLine(i, DirectiveKinds)'
       PROVE  i \in DirectiveLines(n + 1)' \/ \E m \in 0 .. n : IsLine(m, StartKinds)' /\ i \in DirectiveLines(m)'
  <2>1. CASE i = n
    <3>1. ~IsLine(n, StartKinds \union {"end"})'
      BY <1>8, <1>11, <2>1 DEF DirectiveKinds, StartKinds, Versions
    <3> QED
      BY <1>9, <1>11, <2>1, <3>1
  <2>2. CASE i \in 0 .. (n - 1)
    <3>1. i \in DirectiveLines(n) \/ \E m \in 0 .. (n - 1) : IsLine(m, StartKinds) /\ i \in DirectiveLines(m)
      BY <1>1, <1>2, <1>4, <1>11, <2>2 DEF LinesReached
    <3> QED
      BY <1>4, <1>5, <1>6, <1>10, <3>1
  <2> QED
    BY <2>1, <2>2
<1>12. \A i \in 0 .. n : lines'[i + 1] = "content" => i \in content_lines'
  <2>1. \A i \in 0 .. (n - 1) : lines'[i + 1] = "content" => i \in content_lines'
    BY <1>2, <1>3 DEF LinesReached
  <2> QED
    BY <1>1, <1>7, <2>1
<1>13. pos' = n + 1
  BY <1>1
<1>14. DirectiveLines(pos)' = DirectiveLines(n + 1)'
  BY <1>13
<1> QED
  BY <1>2, <1>11, <1>12, <1>14 DEF LinesReached

LEMMA RangeSplits ==
  \A p, q \in Nat : \A m \in 0 .. (q - 1) : m \in p .. (q - 1) \/ m \in 0 .. (p - 1)
OBVIOUS

LEMMA StartsReachedAfter ==
  ASSUME WindowInv, Grows, StartsReached, BeforeKept, NEW es \in Seq(Items), Yields' = Yields \o es,
         \A i, j \in DOMAIN es : IsStart(es[i]) /\ IsStart(es[j]) => i = j,
         \A i \in DOMAIN es : IsStart(es[i]) => /\ es[i].line \in Nat /\ es[i].line < pos' /\ ~PendingStart'
                                                /\ \A l \in Nat : Before(l) => l < es[i].line,
         PendingStart => \/ PendingStart' /\ state'.pending_start.line = state.pending_start.line
                         \/ \E i \in DOMAIN es : IsStart(es[i]) /\ es[i].line = state.pending_start.line,
         \A m \in pos .. (pos' - 1) : IsLine(m, StartKinds)' =>
            \/ PendingStart' /\ m = state'.pending_start.line
            \/ \E i \in DOMAIN es : IsStart(es[i]) /\ es[i].line = m
  PROVE  StartsReached'
<1>1. PICK old, y, z : old = Yields /\ y = old \o es /\ z = Len(old)
  OBVIOUS
<1>2. /\ old \in Seq(Items) /\ z \in Nat /\ DOMAIN old = 1 .. z
      /\ \A i \in DOMAIN old : IsStart(old[i]) => old[i].line \in Nat
  BY <1>1, YieldsTyped DEF IsStart
<1>3. /\ \A i \in DOMAIN old : i \in DOMAIN y /\ y[i] = old[i]
      /\ \A i \in DOMAIN es : z + i \in DOMAIN y /\ y[z + i] = es[i]
      /\ \A i \in DOMAIN y : i \notin DOMAIN old => i - z \in DOMAIN es /\ i > z /\ y[i] = es[i - z]
      /\ DOMAIN y \subseteq Nat
  BY <1>1, <1>2, ConcatItems
<1>4. Yields' = y
  BY <1>1
<1>5. \A i \in DOMAIN old : IsStart(old[i]) => Before(old[i].line)
  BY <1>1 DEF StartsReached
<1>6. ASSUME NEW k \in DOMAIN y, NEW l \in DOMAIN y, k < l, IsStart(y[k]), IsStart(y[l])
      PROVE  y[k].line < y[l].line
  <2>1. CASE k \in DOMAIN old /\ l \in DOMAIN old
    BY <1>1, <1>3, <1>6, <2>1 DEF StartsReached, Earlier
  <2>2. CASE k \in DOMAIN old /\ l \notin DOMAIN old
    <3>1. y[l] = es[l - z] /\ l - z \in DOMAIN es /\ y[k] = old[k]
      BY <1>3, <2>2
    <3> QED
      BY <1>2, <1>5, <1>6, <2>2, <3>1
  <2>3. k \notin DOMAIN old => l \notin DOMAIN old
    BY <1>2, <1>3, <1>6
  <2>4. CASE k \notin DOMAIN old /\ l \notin DOMAIN old
    <3>1. y[l] = es[l - z] /\ l - z \in DOMAIN es /\ y[k] = es[k - z] /\ k - z \in DOMAIN es
      BY <1>3, <2>4
    <3>2. k - z = l - z
      BY <1>6, <3>1
    <3> QED
      BY <1>2, <1>3, <1>6, <3>2
  <2> QED
    BY <2>1, <2>2, <2>3, <2>4
<1>7. ASSUME NEW k \in DOMAIN y, IsStart(y[k]) PROVE Before(y[k].line)'
  <2>1. CASE k \in DOMAIN old
    <3>1. PICK a \in Nat : a = y[k].line /\ Before(a)
      BY <1>2, <1>3, <1>5, <1>7, <2>1
    <3>2. Before(a)'
      BY <3>1 DEF BeforeKept
    <3> QED
      BY <3>1, <3>2
  <2>2. CASE k \notin DOMAIN old
    <3>1. y[k] = es[k - z] /\ k - z \in DOMAIN es
      BY <1>3, <2>2
    <3> QED
      BY <1>7, <3>1 DEF Before
  <2> QED
    BY <2>1, <2>2
<1>8. ASSUME NEW m \in Passed', IsLine(m, StartKinds)'
      PROVE  \/ PendingStart' /\ m = state'.pending_start.line
             \/ \E k \in DOMAIN y : IsStart(y[k]) /\ y[k].line = m
  <2>1. pos \in Nat /\ pos' \in Nat
    BY DocLines DEF Grows
  <2>2. ASSUME NEW i \in DOMAIN es, IsStart(es[i]), es[i].line = m
        PROVE  \E k \in DOMAIN y : IsStart(y[k]) /\ y[k].line = m
    BY <1>3, <2>2
  <2>3. CASE m \in pos .. (pos' - 1)
    BY <1>8, <2>2, <2>3
  <2>4. CASE m \in Passed
    <3>1. m \in 0 .. (pos - 1) /\ IsLine(m, StartKinds)
      BY <1>8, <2>4, LineKept DEF Passed
    <3>2. CASE PendingStart /\ m = state.pending_start.line
      BY <2>2, <3>2
    <3>3. CASE \E k \in DOMAIN old : IsStart(old[k]) /\ old[k].line = m
      BY <1>3, <3>3
    <3> QED
      BY <1>1, <2>4, <3>1, <3>2, <3>3 DEF StartsReached
  <2>5. m \in pos .. (pos' - 1) \/ m \in Passed
    <3>1. PICK p \in Nat, q \in Nat : p = pos /\ q = pos'
      BY <2>1
    <3>2. m \in 0 .. (q - 1)
      BY <1>8, <3>1 DEF Passed
    <3>3. m \in p .. (q - 1) \/ m \in 0 .. (p - 1)
      BY <3>1, <3>2, RangeSplits
    <3> QED
      BY <3>1, <3>3 DEF Passed
  <2> QED
    BY <2>3, <2>4, <2>5
<1> QED
  BY <1>4, <1>6, <1>7, <1>8 DEF StartsReached, Earlier

LEMMA StartsQuiet ==
  ASSUME WindowInv, Grows, StartsReached, NEW es \in Seq(Items), Yields' = Yields \o es,
         \A i \in DOMAIN es : es[i].t # "DocStart",
         PendingStart => state'.pending_start = state.pending_start,
         PendingStart' => PendingStart \/ state'.pending_start.line = pos,
         \A m \in pos .. (pos' - 1) : IsLine(m, StartKinds)' => PendingStart' /\ m = state'.pending_start.line
  PROVE  StartsReached'
<1>1. PendingStart => PendingStart'
  BY DEF PendingStart
<1>2. BeforeKept
  BY <1>1, BeforeKeeps
<1>3. \A i \in DOMAIN es : ~IsStart(es[i])
  BY DEF IsStart
<1> QED
  BY <1>1, <1>2, <1>3, StartsReachedAfter

(* A parser step neither follows the stream end nor tells it.              *)
LEMMA EndNotYet ==
  ASSUME ToldInv, EndReached, at # "client", ret = "none",
         NEW es, Yields' = Yields \/ (Yields' = Yields \o es /\ es \in Seq(Items)),
         \A i \in DOMAIN es : es[i].t # "StreamEnd",
         ret' = "none_left" => AtEnd'
  PROVE  EndReached'
<1>1. ~state.finished /\ WindowInv
  BY DEF ToldInv, WindowInv, Ordered
<1>2. PICK old : old = Yields
  OBVIOUS
<1>3. \A k \in DOMAIN old : old[k].t # "StreamEnd"
  BY <1>1, <1>2 DEF EndReached
<1>4. CASE Yields' = old
  BY <1>3, <1>4 DEF EndReached
<1>5. CASE Yields' = old \o es /\ es \in Seq(Items)
  <2>1. old \in Seq(Items)
    BY <1>1, <1>2, YieldsTyped
  <2>2. PICK y : y = old \o es
    OBVIOUS
  <2>3. \A k \in DOMAIN y : (k \in DOMAIN old /\ y[k] = old[k]) \/ \E i \in DOMAIN es : y[k] = es[i]
    BY <1>5, <2>1, <2>2, ConcatItems
  <2>4. \A k \in DOMAIN y : y[k].t # "StreamEnd"
    BY <1>3, <2>3
  <2> QED
    BY <1>5, <2>2, <2>4 DEF EndReached
<1> QED
  BY <1>2, <1>4, <1>5

LEMMA NothingPendingLines ==
  ASSUME NEW m, ~DeclaredBefore(m).any
  PROVE  DirectiveLines(m) = {}
<1>1. DeclaredBefore(m) = DeclaredOf(KindsBefore(m))
  BY DeclaredOfKinds
<1>2. \A kinds : DeclaredOf(kinds).any <=> kinds # {}
  BY DEF DeclaredOf
<1>3. KindsBefore(m) = {}
  BY <1>1, <1>2
<1> QED
  BY <1>3 DEF KindsBefore

(* Scanner steps that tell es and open no document.                        *)
LEMMA ReachedScanQuiet ==
  ASSUME ToldInv, Grows, Declared, Reached, at = "scan", ret = "none", NEW es, Quiet(es), Emit(es),
         UNCHANGED <<mode, out, client, lines>>, ret' = "none_left" => AtEnd',
         PendingStart => state'.pending_start = state.pending_start,
         PendingStart' => PendingStart \/ state'.pending_start.line = pos,
         \/ pos' = pos
         \/ /\ pos' = pos + 1 /\ UNCHANGED content_lines
            /\ CurrentKind \in {"blank", "end"} \union DirectiveKinds
            /\ CurrentKind = "end" => ~directives.any
         \/ /\ pos' = pos + 1 /\ UNCHANGED content_lines
            /\ CurrentKind = "start" /\ PendingStart' /\ state'.pending_start.line = pos
  PROVE  Reached'
<1>1. WindowInv /\ Typed /\ pos \in Nat /\ Yields \in Seq(Items) /\ pos \notin content_lines
  BY DocLines, YieldsTyped DEF ToldInv, WindowInv, Windowed
<1>2. /\ es \in Seq(Items) /\ \A i \in DOMAIN es : es[i].t # "DocStart" /\ es[i].t # "StreamEnd"
  BY DEF Quiet
<1>3. /\ mode = "events" => Yields' = Yields \o es
      /\ mode # "events" => Yields' = Yields
  BY <1>1, <1>2, YieldsEmitted
<1>4. EndReached'
  BY <1>2, <1>3, EndNotYet DEF Reached
<1>5. LinesReached' /\ \A m \in pos .. (pos' - 1) : IsLine(m, StartKinds)' => PendingStart' /\ m = state'.pending_start.line
  <2>1. CASE pos' = pos
    BY <1>1, <2>1, LinesStill DEF Reached
  <2>2. CASE pos' = pos + 1
    <3>1. /\ UNCHANGED content_lines /\ CurrentKind \in LineKinds /\ CurrentKind # "content"
          /\ CurrentKind = "end" => ~directives.any
          /\ CurrentKind \in StartKinds => PendingStart' /\ state'.pending_start.line = pos
      BY <1>1, <2>2 DEF LineKinds, StartKinds, DirectiveKinds, Versions
    <3>2. PICK k \in LineKinds : k = CurrentKind
      BY <3>1
    <3>3. pos < Len(lines) /\ lines[pos + 1] = k
      BY <1>1, <3>2, AtLine DEF Typed
    <3>4. k = "end" => DirectiveLines(pos) = {}
      <4>1. directives = DeclaredBefore(pos)
        BY DEF Declared
      <4> QED
        BY <3>1, <3>2, <4>1, NothingPendingLines
    <3>5. LinesReached'
      BY <1>1, <2>2, <3>1, <3>2, <3>3, <3>4, LinesPass DEF Reached
    <3>6. \A m \in pos .. (pos' - 1) : m = pos
      BY <1>1, <2>2
    <3>7. IsLine(pos, StartKinds) => k \in StartKinds
      BY <3>3 DEF IsLine
    <3>8. \A m \in pos .. (pos' - 1) : IsLine(m, StartKinds)' => k \in StartKinds
      BY <3>1, <3>3, <3>6 DEF IsLine
    <3> QED
      BY <3>1, <3>2, <3>5, <3>6, <3>8
  <2> QED
    BY <2>1, <2>2
<1>6. mode = "events" => StartsReached'
  BY <1>1, <1>2, <1>3, <1>5, StartsQuiet DEF Reached
<1> QED
  BY <1>4, <1>5, <1>6 DEF Reached

(* A scanner step that opens the document of x.                            *)
LEMMA ReachedScanOpens ==
  ASSUME ToldInv, Grows, Declared, Reached, at = "scan", ret = "none",
         NEW es, NEW x, Opens(es, x), Emit(es), x.t = "DocStart", x.line \in Nat,
         UNCHANGED <<mode, out, client, lines>>, ret' # "none_left", ~PendingStart',
         \A l \in Nat : Before(l) => l < x.line,
         x.explicit => x.line < pos',
         PendingStart => x.explicit /\ x.line = state.pending_start.line,
         \/ pos' = pos
         \/ /\ pos' = pos + 1 /\ UNCHANGED content_lines /\ CurrentKind = "startValue"
            /\ x.explicit /\ x.line = pos
         \/ /\ pos' = pos + 1 /\ UNCHANGED content_lines /\ CurrentKind = "end" /\ ~directives.any
         \/ pos' = pos + 1 /\ CurrentKind = "content" /\ pos \in content_lines'
  PROVE  Reached'
<1>1. WindowInv /\ Typed /\ pos \in Nat /\ Yields \in Seq(Items) /\ pos \notin content_lines
  BY DocLines, YieldsTyped DEF ToldInv, WindowInv, Windowed
<1>2. PICK j \in DOMAIN es : es[j] = x /\ \A i \in DOMAIN es : es[i].t \in {"DocStart", "StreamEnd"} => i = j
  BY DEF Opens
<1>3. es \in Seq(Items)
  BY DEF Opens
<1>4. /\ mode = "events" => Yields' = Yields \o es
      /\ mode # "events" => Yields' = Yields
  BY <1>1, <1>3, YieldsEmitted
<1>5. \A i \in DOMAIN es : es[i].t # "StreamEnd"
  BY <1>2
<1>6. EndReached'
  BY <1>3, <1>4, <1>5, EndNotYet DEF Reached
<1>7. LinesReached' /\ \A m \in pos .. (pos' - 1) : IsLine(m, StartKinds)' => x.explicit /\ x.line = m
  <2>1. CASE pos' = pos
    BY <1>1, <2>1, LinesStill DEF Reached
  <2>2. CASE pos' = pos + 1
    <3>1. /\ CurrentKind \in LineKinds
          /\ CurrentKind = "content" => pos \in content_lines'
          /\ CurrentKind = "end" => ~directives.any
          /\ CurrentKind \in StartKinds => x.explicit /\ x.line = pos
      BY <1>1, <2>2 DEF LineKinds, StartKinds, DirectiveKinds, Versions
    <3>2. PICK k \in LineKinds : k = CurrentKind
      BY <3>1
    <3>3. pos < Len(lines) /\ lines[pos + 1] = k
      BY <1>1, <3>2, AtLine DEF Typed
    <3>4. k = "end" => DirectiveLines(pos) = {}
      <4>1. directives = DeclaredBefore(pos)
        BY DEF Declared
      <4> QED
        BY <3>1, <3>2, <4>1, NothingPendingLines
    <3>5. LinesReached'
      BY <1>1, <2>2, <3>1, <3>2, <3>3, <3>4, LinesPass DEF Reached
    <3>6. \A m \in pos .. (pos' - 1) : m = pos
      BY <1>1, <2>2
    <3>7. \A m \in pos .. (pos' - 1) : IsLine(m, StartKinds)' => k \in StartKinds
      BY <3>3, <3>6 DEF IsLine
    <3> QED
      BY <3>1, <3>2, <3>5, <3>6, <3>7
  <2> QED
    BY <2>1, <2>2
<1>8. BeforeKept
  BY <1>1, BeforeKeeps
<1>9. \A i \in DOMAIN es : IsStart(es[i]) => i = j /\ es[i] = x /\ x.explicit
  BY <1>2 DEF IsStart
<1>10. x.explicit => IsStart(es[j])
  BY <1>2 DEF IsStart
<1>11. mode = "events" => StartsReached'
  <2> SUFFICES ASSUME mode = "events" PROVE StartsReached'
    OBVIOUS
  <2>1. Yields' = Yields \o es /\ StartsReached
    BY <1>4 DEF Reached
  <2>2. \A i, k \in DOMAIN es : IsStart(es[i]) /\ IsStart(es[k]) => i = k
    BY <1>9
  <2>3. \A i \in DOMAIN es : IsStart(es[i]) => /\ es[i].line \in Nat /\ es[i].line < pos' /\ ~PendingStart'
                                               /\ \A l \in Nat : Before(l) => l < es[i].line
    BY <1>9
  <2>4. PendingStart => \E i \in DOMAIN es : IsStart(es[i]) /\ es[i].line = state.pending_start.line
    BY <1>2, <1>10
  <2>5. \A m \in pos .. (pos' - 1) : IsLine(m, StartKinds)' => \E i \in DOMAIN es : IsStart(es[i]) /\ es[i].line = m
    BY <1>2, <1>7, <1>10
  <2> QED
    BY <1>1, <1>3, <1>8, <2>1, <2>2, <2>3, <2>4, <2>5, StartsReachedAfter
<1> QED
  BY <1>6, <1>7, <1>11 DEF Reached

LEMMA ReachedScan ==
  ASSUME ToldInv, ToldInv', Grows, Declared, Reached, Scan
  PROVE  Reached'
<1> USE DEF buffer, history
<1>1. /\ WindowInv /\ Typed /\ pos \in Nat /\ state.pending_start \in Starts /\ state.pending_start.line \in Nat
      /\ directives \in Dirs
  BY DocLines, Built DEF ToldInv, WindowInv
<1>2. Quiet(<<>>) /\ Quiet(CloseOpen)
  <2>1. FALSE \in BOOLEAN
    OBVIOUS
  <2> QED
    BY <1>1, <2>1, NoneQuiet, CloseQuiet, Zenon DEF CloseOpen
<1>3. PendingStart => state.pending_start.explicit /\ state.pending_start.line < pos
  BY DEF Declared, Own
<1>4. CASE SkipBlank \/ ParseDirective
  <2>1. /\ at = "scan" /\ ret = "none" /\ UNCHANGED <<mode, out, client, lines, events, state, content_lines, ret>>
        /\ pos' = pos + 1 /\ CurrentKind \in {"blank", "end"} \union DirectiveKinds
        /\ CurrentKind # "end"
    BY <1>4 DEF SkipBlank, ParseDirective, Scanning, DirectiveKinds, Versions
  <2>2. Emit(<<>>)
    <3>1. events \in Seq(Items)
      BY <1>1, YieldsTyped
    <3>2. events \o <<>> = events
      BY <3>1, NoneQuiet
    <3> QED
      BY <2>1, <3>2 DEF Emit
  <2>3. PendingStart' = PendingStart
    BY <2>1 DEF PendingStart
  <2> QED
    BY <1>2, <2>1, <2>2, <2>3, ReachedScanQuiet
<1>5. CASE EofAfterDirectives \/ DirectiveInsideDocument \/ DirectiveInvalid \/ EndAfterDirectives
           \/ ContentAfterDirectives
  <2>1. /\ at = "scan" /\ ret = "none" /\ ret' = "err" /\ pos' = pos
        /\ UNCHANGED <<mode, out, client, lines, events, content_lines>>
        /\ state' = [state EXCEPT !.finished = TRUE]
    BY <1>5 DEF EofAfterDirectives, DirectiveInsideDocument, DirectiveInvalid, EndAfterDirectives,
                ContentAfterDirectives, Scanning, Reject, Stop
  <2>2. Emit(<<>>)
    <3>1. events \in Seq(Items)
      BY <1>1, YieldsTyped
    <3>2. events \o <<>> = events
      BY <3>1, NoneQuiet
    <3> QED
      BY <2>1, <3>2 DEF Emit
  <2>3. state'.pending_start = state.pending_start /\ PendingStart' = PendingStart
    BY <1>1, <2>1 DEF Typed, PendingStart
  <2> QED
    BY <1>2, <2>1, <2>2, <2>3, ReachedScanQuiet
<1>6. CASE EofStreamEnd
  <2>1. /\ at = "scan" /\ ret = "none" /\ pos' = pos /\ ~directives.any /\ ~PendingStart
        /\ UNCHANGED <<mode, out, client, lines, content_lines, directives>> /\ Emit(CloseOpen)
        /\ state' = [state EXCEPT !.open_document = FALSE, !.finished = TRUE] /\ Scanning("eof")
    BY <1>6 DEF EofStreamEnd, Scanning
  <2>2. state'.pending_start = state.pending_start /\ PendingStart' = PendingStart
    BY <1>1, <2>1 DEF Typed, PendingStart
  <2>3. pos = Len(lines)
    BY <1>1, <2>1, AtEof DEF Scanning, Typed
  <2>4. AtEnd'
    BY <2>1, <2>2, <2>3 DEF AtEnd
  <2> QED
    BY <1>2, <2>1, <2>2, <2>4, ReachedScanQuiet
<1>7. CASE EndMarker
  <2>1. /\ at = "scan" /\ ret = "none" /\ pos' = pos + 1 /\ ~directives.any /\ ~PendingStart /\ CurrentKind = "end"
        /\ UNCHANGED <<mode, out, client, lines, content_lines, directives, ret>>
        /\ state' = [state EXCEPT !.open_document = FALSE]
    BY <1>7 DEF EndMarker, Scanning
  <2>2. state'.pending_start = state.pending_start /\ PendingStart' = PendingStart
    BY <1>1, <2>1 DEF Typed, PendingStart
  <2>3. PICK es : es = IF state.open_document THEN <<DocEnd(pos, TRUE)>> ELSE <<>>
    OBVIOUS
  <2>4. Quiet(es)
    <3>1. TRUE \in BOOLEAN
      OBVIOUS
    <3> QED
      BY <1>1, <2>3, <3>1, CloseQuiet, Zenon
  <2>5. Emit(es)
    BY <1>7, <2>3, Zenon DEF EndMarker
  <2> QED
    BY <2>1, <2>2, <2>4, <2>5, ReachedScanQuiet
<1>8. CASE StartMarker
  <2>1. /\ at = "scan" /\ ret = "none" /\ pos' = pos + 1 /\ ~PendingStart /\ CurrentKind = "start"
        /\ UNCHANGED <<mode, out, client, lines, content_lines, ret>> /\ Emit(CloseOpen)
        /\ state' = [state EXCEPT !.open_document = FALSE,
                                  !.pending_start = [line |-> pos, explicit |-> TRUE, directives |-> directives]]
    BY <1>8 DEF StartMarker, Scanning
  <2>2. state'.pending_start = [line |-> pos, explicit |-> TRUE, directives |-> directives]
    BY <1>1, <2>1 DEF Typed
  <2>3. state'.pending_start.line = pos /\ PendingStart'
    BY <2>2 DEF PendingStart, NoStart
  <2> QED
    BY <1>2, <2>1, <2>3, ReachedScanQuiet
<1>9. CASE StartWithValue
  <2>1. PICK x : x = [line |-> pos, explicit |-> TRUE, directives |-> directives]
    OBVIOUS
  <2>2. /\ at = "scan" /\ ret = "none" /\ pos' = pos + 1 /\ ~PendingStart /\ CurrentKind = "startValue"
        /\ UNCHANGED <<mode, out, client, lines, content_lines, ret>>
        /\ state' = [state EXCEPT !.open_document = FALSE]
    BY <1>9 DEF StartWithValue, Scanning
  <2>3. PICK es : es = Append(CloseOpen, DocStart(x))
    OBVIOUS
  <2>4. Emit(es)
    BY <1>9, <2>1, <2>3, Zenon DEF StartWithValue
  <2>5. x \in Starts
    BY <1>1, <2>1 DEF Starts
  <2>6. Opens(es, DocStart(x))
    BY <1>1, <2>3, <2>5, StartOpens
  <2>7. ~PendingStart'
    BY <1>1, <2>2 DEF Typed, PendingStart
  <2>8. DocStart(x).t = "DocStart" /\ DocStart(x).line = pos /\ DocStart(x).explicit
    BY <2>1 DEF DocStart
  <2>9. \A l \in Nat : Before(l) => l < pos
    BY DEF Before
  <2> QED
    BY <1>1, <2>2, <2>4, <2>6, <2>7, <2>8, <2>9, ReachedScanOpens
<1>10. CASE ContentBegin
  <2>1. PICK x : x = ContentStart
    OBVIOUS
  <2>2. /\ at = "scan" /\ ret = "none" /\ pos' = pos + 1 /\ CurrentKind = "content" /\ pos \in content_lines'
        /\ UNCHANGED <<mode, out, client, lines, ret>>
        /\ state' = [state EXCEPT !.open_document = FALSE, !.pending_start = NoStart]
    BY <1>10 DEF ContentBegin, Scanning
  <2>3. PICK es : es = Append(CloseOpen, DocStart(x))
    OBVIOUS
  <2>4. Emit(es)
    BY <1>10, <2>1, <2>3, Zenon DEF ContentBegin
  <2>5. x \in Starts /\ (PendingStart => x = state.pending_start) /\ (~PendingStart => x.line = pos /\ ~x.explicit)
    <3>1. NoDirectives \in Dirs
      BY DEF NoDirectives, Dirs, Versions
    <3> QED
      BY <1>1, <2>1, <3>1 DEF Starts, ContentStart
  <2>6. Opens(es, DocStart(x))
    BY <1>1, <2>3, <2>5, StartOpens
  <2>7. ~PendingStart'
    BY <1>1, <2>2 DEF Typed, PendingStart
  <2>8. DocStart(x).t = "DocStart" /\ DocStart(x).line = x.line /\ DocStart(x).explicit = x.explicit
    BY DEF DocStart
  <2>9. (\A l \in Nat : Before(l) => l < x.line) /\ x.line \in Nat /\ (x.explicit => x.line < pos)
    BY <1>1, <1>3, <2>5 DEF Before
  <2> QED
    BY <1>1, <1>3, <2>2, <2>4, <2>5, <2>6, <2>7, <2>8, <2>9, ReachedScanOpens
<1>11. CASE EofNullDocument \/ StartNullDocument \/ EndNullDocument
  <2>1. PICK x : x = state.pending_start
    OBVIOUS
  <2>2. /\ at = "scan" /\ ret = "none" /\ PendingStart /\ ret' = "doc"
        /\ UNCHANGED <<mode, out, client, lines, content_lines>>
        /\ state' = [state EXCEPT !.pending_start = NoStart]
        /\ pos' = pos \/ (pos' = pos + 1 /\ CurrentKind = "end" /\ ~directives.any)
    BY <1>11 DEF EofNullDocument, StartNullDocument, EndNullDocument, NullDocument, FinishParsedDocument, Scanning
  <2>3. \E b \in BOOLEAN : \E l \in Nat : Emit(<<DocStart(x), Event("Node", x.line), DocEnd(l, b)>>)
    BY <1>1, <1>11, <2>1, Zenon DEF EofNullDocument, StartNullDocument, EndNullDocument, NullDocument
  <2>4. PICK es : Emit(es) /\ Opens(es, DocStart(x))
    <3>1. PICK b \in BOOLEAN, l \in Nat : Emit(<<DocStart(x), Event("Node", x.line), DocEnd(l, b)>>)
      BY <2>3
    <3>2. DocStart(x) \in Items /\ Event("Node", x.line) \in Items /\ DocEnd(l, b) \in Items
      BY <1>1, <2>1, ItemsMade DEF DocEnd
    <3>3. Event("Node", x.line).t = "Node" /\ DocEnd(l, b).t = "DocEnd"
      BY DEF Event, DocEnd
    <3> QED
      BY <3>1, <3>2, <3>3, NullOpens
  <2>5. ~PendingStart'
    BY <1>1, <2>2 DEF Typed, PendingStart
  <2>6. DocStart(x).t = "DocStart" /\ DocStart(x).line = x.line /\ DocStart(x).explicit = x.explicit
    BY DEF DocStart
  <2>7. (\A l \in Nat : Before(l) => l < x.line) /\ x.line \in Nat /\ x.line < pos /\ x.explicit
    BY <1>1, <1>3, <2>1, <2>2 DEF Before
  <2>8. x.line < pos'
    BY <1>1, <2>2, <2>7
  <2> QED
    BY <2>1, <2>2, <2>4, <2>5, <2>6, <2>7, <2>8, ReachedScanOpens
<1> QED
  BY <1>4, <1>5, <1>6, <1>7, <1>8, <1>9, <1>10, <1>11 DEF Scan

(* Steps that move neither the end of the stream nor a marker: they tell   *)
(* at most a node.                                                         *)
LEMMA ReachedStill ==
  ASSUME ToldInv, Grows, Reached, LinesReached', UNCHANGED mode,
         at # "client", ret = "none", ret' # "none_left", state'.pending_start = state.pending_start,
         NEW es \in Seq(Items), mode = "events" => Yields' = Yields \o es, mode # "events" => Yields' = Yields,
         \A i \in DOMAIN es : es[i].t \notin {"DocStart", "StreamEnd"},
         \A m \in pos .. (pos' - 1) : ~IsLine(m, StartKinds)'
  PROVE  Reached'
<1>1. PendingStart' = PendingStart
  BY DEF PendingStart
<1>2. EndReached'
  BY EndNotYet DEF Reached
<1>3. mode = "events" => StartsReached'
  BY <1>1, StartsQuiet DEF Reached, ToldInv
<1> QED
  BY <1>2, <1>3 DEF Reached

LEMMA ReachedNode ==
  ASSUME ToldInv, Grows, Declared, Reached, ReadLine \/ Node
  PROVE  Reached'
<1> USE DEF buffer, history
<1>1. WindowInv /\ Typed /\ pos \in Nat /\ Yields \in Seq(Items) /\ doc.line \in Nat /\ pos \notin content_lines
  BY DocLines, YieldsTyped DEF ToldInv, WindowInv, Windowed
<1>2. state' = state \/ state' = [state EXCEPT !.finished = TRUE] \/ state' = [state EXCEPT !.open_document = TRUE]
  BY DEF ReadLine, PushNext, PushNothing, LineError, Node, NodeConsumeLine, NodeMergeKey, NodeComplete, NodeError,
         TrailingContent, DocumentParsed, Reject, Stop
<1>3. state'.pending_start = state.pending_start
  BY <1>1, <1>2 DEF Typed
<1>4. <<>> \in Seq(Items) /\ Yields \o <<>> = Yields /\ \A i \in DOMAIN <<>> : <<>>[i].t \notin {"DocStart", "StreamEnd"}
  BY <1>1, NoneQuiet DEF Quiet
<1>5. at # "client" /\ ret = "none" /\ ret' # "none_left" /\ mode' = mode
  BY DEF ReadLine, PushNext, PushNothing, LineError, Node, NodeConsumeLine, NodeMergeKey, NodeComplete, NodeError,
         TrailingContent, DocumentParsed, FinishParsedDocument, Reject, Stop, WantsLine, Running
<1>6. ASSUME pos' = pos PROVE LinesReached' /\ \A m \in pos .. (pos' - 1) : ~IsLine(m, StartKinds)'
  BY <1>1, <1>6, LinesStill DEF Reached
<1>7. CASE ReadLine \/ NodeMergeKey \/ NodeError \/ TrailingContent \/ DocumentParsed
  <2>1. pos' = pos /\ UNCHANGED <<out, client, events>>
    BY <1>7 DEF ReadLine, PushNext, PushNothing, LineError, NodeMergeKey, NodeError, TrailingContent, DocumentParsed,
                Reject
  <2>2. Yields' = Yields /\ Yields' = Yields \o <<>>
    BY <1>4, <2>1 DEF Yields
  <2> QED
    BY <1>3, <1>4, <1>5, <1>6, <2>1, <2>2, ReachedStill
<1>8. CASE NodeConsumeLine
  <2>1. /\ pos' = pos + 1 /\ UNCHANGED <<out, client, events, lines>> /\ content_lines' = content_lines \union {pos}
        /\ CurrentKind \in {"blank", "content"} \union DirectiveKinds
    BY <1>8 DEF NodeConsumeLine
  <2>2. Yields' = Yields /\ Yields' = Yields \o <<>>
    BY <1>4, <2>1 DEF Yields
  <2>3. PICK k \in LineKinds : k = CurrentKind /\ k # "end"
    BY <2>1 DEF LineKinds, StartKinds, DirectiveKinds, Versions
  <2>4. pos < Len(lines) /\ lines[pos + 1] = k
    BY <1>1, <2>3, AtLine DEF Typed
  <2>5. pos \in content_lines'
    BY <2>1
  <2>6. LinesReached'
    BY <1>1, <2>1, <2>3, <2>4, <2>5, LinesPass DEF Reached
  <2>7. \A m \in pos .. (pos' - 1) : m = pos
    BY <1>1, <2>1
  <2>8. \A m \in pos .. (pos' - 1) : ~IsLine(m, StartKinds)'
    BY <2>5, <2>7 DEF IsLine
  <2> QED
    BY <1>3, <1>4, <1>5, <2>2, <2>6, <2>8, ReachedStill
<1>9. CASE NodeComplete
  <2>1. pos' = pos /\ UNCHANGED <<out, client, mode>>
    BY <1>9 DEF NodeComplete
  <2>2. PICK x \in Items : x = Event("Node", doc.line)
    BY <1>1, ItemsMade
  <2>3. Emit(<<x>>) /\ Quiet(<<x>>)
    <3>1. x.t \notin {"DocStart", "StreamEnd"}
      BY <2>2 DEF Event
    <3>2. Emit(<<x>>)
      BY <1>9, <2>2, Zenon DEF NodeComplete
    <3> QED
      BY <3>1, <3>2, OneQuiet
  <2>4. PICK es \in Seq(Items) : es = <<x>>
    BY <2>3 DEF Quiet
  <2>5. /\ mode = "events" => Yields' = Yields \o es
        /\ mode # "events" => Yields' = Yields
    BY <1>1, <2>1, <2>3, <2>4, YieldsEmitted
  <2>6. \A i \in DOMAIN es : es[i].t \notin {"DocStart", "StreamEnd"}
    BY <2>3, <2>4 DEF Quiet
  <2> QED
    BY <1>3, <1>5, <1>6, <2>1, <2>5, <2>6, ReachedStill
<1> QED
  BY <1>7, <1>8, <1>9 DEF Node

LEMMA ReachedIterates ==
  ASSUME ToldInv, Unrecorded, Grows, Declared, Reached, Iterator \/ UNCHANGED vars
  PROVE  Reached'
<1> USE DEF buffer, history
<1>1. WindowInv /\ Typed /\ pos \in Nat /\ Yields \in Seq(Items)
  BY DocLines, YieldsTyped DEF ToldInv, WindowInv
<1>2. UNCHANGED <<mode, pos, lines, content_lines, state, directives>>
  BY DEF Iterator, Call, NextEvent, NextPendingError, NextAfterEnd, ReturnToEvents, ReturnToDocuments,
         ReturnMergeError, vars
<1>3. PICK es \in Seq(Items) : /\ Yields' = Yields \o es
                               /\ \A i \in DOMAIN es : /\ es[i].t # "DocStart"
                                                       /\ es[i].t = "StreamEnd" => ret = "none_left"
  <2>1. CASE Iterator
    BY <2>1, IteratorAdds
  <2>2. CASE UNCHANGED vars
    <3>1. Yields' = Yields
      BY <2>2 DEF vars, Yields
    <3>2. <<>> \in Seq(Items) /\ Yields \o <<>> = Yields /\ DOMAIN <<>> = {}
      BY <1>1, NoneQuiet, ItemSequences
    <3> QED
      BY <3>1, <3>2
  <2> QED
    BY <2>1, <2>2
<1>4. LinesReached' /\ \A m \in pos .. (pos' - 1) : FALSE
  BY <1>1, <1>2, LinesStill DEF Reached
<1>5. PendingStart' = PendingStart /\ AtEnd' = AtEnd
  BY <1>2 DEF PendingStart, AtEnd
<1>6. mode = "events" => StartsReached'
  BY <1>1, <1>2, <1>3, <1>4, <1>5, StartsQuiet DEF Reached
<1>7. ret = "none_left" => state.finished /\ AtEnd
  BY <1>1 DEF WindowInv, Ordered, Reached, EndReached
<1>8. ret' = "none_left" => AtEnd'
  <2>1. CASE Iterator
    <3>1. ret' # "none_left"
      BY <1>1, <2>1 DEF WindowInv, Ordered, Iterator, Call, NextEvent, NextPendingError, NextAfterEnd,
                        ReturnToEvents, ReturnToDocuments, ReturnMergeError, vars
    <3> QED
      BY <3>1
  <2>2. CASE UNCHANGED vars
    BY <1>5, <1>7, <2>2 DEF vars
  <2> QED
    BY <2>1, <2>2
<1>9. \A k \in DOMAIN Yields' : Yields'[k].t = "StreamEnd" => state.finished /\ AtEnd
  <2>1. PICK old, y : old = Yields /\ y = old \o es
    OBVIOUS
  <2>2. \A k \in DOMAIN y : (k \in DOMAIN old /\ y[k] = old[k]) \/ \E i \in DOMAIN es : y[k] = es[i]
    BY <1>1, <2>1, ConcatItems
  <2>3. \A k \in DOMAIN old : old[k].t = "StreamEnd" => state.finished /\ AtEnd
    BY <2>1 DEF Reached, EndReached
  <2>4. \A k \in DOMAIN y : y[k].t = "StreamEnd" => state.finished /\ AtEnd
    BY <1>3, <1>7, <2>2, <2>3
  <2> QED
    BY <1>3, <2>1, <2>4
<1> QED
  BY <1>2, <1>4, <1>5, <1>6, <1>8, <1>9 DEF Reached, EndReached

-----------------------------------------------------------------------------
(* The invariant, and what it says of the runs' properties.                *)
LEMMA ScopeInvInit == Init => ScopeInv
<1> SUFFICES ASSUME Init PROVE ScopeInv
  OBVIOUS
<1>1. ToldInv /\ WindowInv
  BY ToldInvInit DEF ToldInv
<1>2. /\ pos = 0 /\ lines = <<>> /\ out = <<>> /\ events = <<>> /\ doc = NoStart /\ directives = NoDirectives
      /\ state.pending_start = NoStart /\ at = "client" /\ ret = "none" /\ ~has_merge /\ merge_docs = {}
  BY DEF Init, buffer, history
<1>3. ~PendingStart /\ ~InNode /\ ~NoStart.explicit /\ NoStart.directives = NoDirectives
  BY <1>2 DEF PendingStart, InNode, NoStart
<1>4. Yields \in Seq(Items) /\ \A i \in DOMAIN Yields : Yields[i].t \notin {"DocStart", "StreamEnd"}
  <2>1. Yields \in Seq(Items)
    BY <1>1, YieldsTyped
  <2>2. PICK q \in Seq(Items) : q = client.pending /\ \A i \in DOMAIN q : q[i].t = "StreamStart"
    <3>1. client.pending = <<>> \/ client.pending = <<Event("StreamStart", 0)>>
      BY DEF Init
    <3>2. Event("StreamStart", 0) \in Items /\ Event("StreamStart", 0).t = "StreamStart"
      <4>1. 0 \in Nat
        OBVIOUS
      <4>2. Event("StreamStart", 0) \in Items
        BY <4>1, ItemsMade
      <4> QED
        BY <4>2 DEF Event
    <3>3. PICK x \in Items : x = Event("StreamStart", 0) /\ x.t = "StreamStart"
      BY <3>2
    <3>4. client.pending = <<>> \/ client.pending = <<x>>
      BY <3>1, <3>3, Zenon
    <3>5. /\ <<>> \in Seq(Items) /\ \A i \in DOMAIN <<>> : <<>>[i].t = "StreamStart"
          /\ <<x>> \in Seq(Items) /\ \A i \in DOMAIN <<x>> : <<x>>[i].t = "StreamStart"
      BY <3>3
    <3> QED
      BY <3>4, <3>5
  <2>3. <<>> \o q = q /\ q \o <<>> = q
    BY ConcatEnds
  <2>4. Yields = q
    BY <1>2, <2>2, <2>3 DEF Yields
  <2> QED
    BY <2>1, <2>2, <2>4
<1>5. Unrecorded
  BY <1>2 DEF Unrecorded, Init
<1>6. Declared
  <2>1. DirectiveLines(0) = {}
    BY DEF DirectiveLines
  <2>2. DeclaredBefore(0) = NoDirectives
    <3>1. KindsBefore(0) = {}
      BY <2>1 DEF KindsBefore
    <3> QED
      BY <3>1, DeclaredOfKinds, DeclaredOfNone
  <2>3. Own(NoStart)
    BY <1>3 DEF Own, OwnDirectives
  <2> QED
    BY <1>2, <1>3, <1>4, <2>2, <2>3 DEF Declared, StartsOwn
<1>7. Merged
  BY <1>2, <1>3 DEF Merged, DocsOwn
<1>8. Reached
  <2>1. Passed = {}
    BY <1>2 DEF Passed
  <2>2. LinesReached
    BY <2>1 DEF LinesReached
  <2>3. StartsReached
    BY <1>4, <2>1 DEF StartsReached, Earlier, IsStart
  <2>4. EndReached
    BY <1>2, <1>4 DEF EndReached
  <2> QED
    BY <2>2, <2>3, <2>4 DEF Reached
<1> QED
  BY <1>1, <1>5, <1>6, <1>7, <1>8 DEF ScopeInv

LEMMA ScopeInvNext == ScopeInv /\ [Next]_vars => ScopeInv'
<1> SUFFICES ASSUME ScopeInv, [Next]_vars PROVE ScopeInv'
  OBVIOUS
<1>1. ToldInv /\ ToldInv' /\ Unrecorded /\ Declared /\ Merged /\ Reached /\ Grows
  BY ToldInvNext, StepGrows DEF ScopeInv, ToldInv
<1>2. Unrecorded' /\ Declared'
  BY <1>1, UnrecordedNext, DeclaredNext
<1>3. CASE ReadLine \/ Node
  BY <1>1, <1>2, <1>3, MergedNode, ReachedNode DEF ScopeInv
<1>4. CASE Scan
  BY <1>1, <1>2, <1>4, MergedScan, ReachedScan DEF ScopeInv
<1>5. CASE Iterator \/ UNCHANGED vars
  BY <1>1, <1>2, <1>5, MergedIterates, ReachedIterates DEF ScopeInv
<1> QED
  BY <1>3, <1>4, <1>5 DEF Next

(* What the client has been given is the beginning of what has been told.  *)
LEMMA OutYielded ==
  ASSUME WindowInv
  PROVE  \A i \in DOMAIN out : i \in DOMAIN Yields /\ Yields[i] = out[i]
<1>1. PICK a \in Seq(Items), b \in Seq(Items), c \in Seq(Items) : a = out /\ b = client.pending /\ c = events
  BY YieldsTyped
<1>2. \A i \in DOMAIN a : i \in DOMAIN (a \o b) /\ (a \o b)[i] = a[i]
  BY ConcatItems
<1>3. a \o b \in Seq(Items)
  BY ConcatItems
<1>4. \A i \in DOMAIN (a \o b) : i \in DOMAIN ((a \o b) \o c) /\ ((a \o b) \o c)[i] = (a \o b)[i]
  <2>1. PICK q \in Seq(Items) : q = a \o b
    BY <1>3
  <2>2. \A i \in DOMAIN q : i \in DOMAIN (q \o c) /\ (q \o c)[i] = q[i]
    BY ConcatItems
  <2> QED
    BY <2>1, <2>2
<1>5. Yields = (a \o b) \o c
  BY <1>1 DEF Yields
<1> QED
  BY <1>1, <1>2, <1>4, <1>5

LEMMA ScopeInvKeepsApart == ScopeInv => DocumentsApart
<1> SUFFICES ASSUME ScopeInv PROVE DocumentsApart
  OBVIOUS
<1>1. WindowInv /\ ToldInv /\ Declared /\ Merged /\ out \in Seq(Items)
  BY YieldsTyped DEF ScopeInv, ToldInv
<1>2. \A e \in ToSet(out) : \E i \in DOMAIN out : e = out[i]
  BY DEF ToSet
<1>3. DirectivesScoped
  <2> SUFFICES ASSUME NEW i \in DOMAIN out, out[i].t = "DocStart"
               PROVE  out[i].directives = OwnDirectives(out[i].line, out[i].explicit)
    BY <1>2 DEF DirectivesScoped
  <2>1. Own(out[i])
    BY <1>1, OutYielded DEF Declared, StartsOwn
  <2> QED
    BY <2>1 DEF Own
<1>4. NodeScope
  <2> SUFFICES ASSUME at = "node"
               PROVE  active = [schema |-> SchemaFor(OwnDirectives(doc.line, doc.explicit)),
                                tags   |-> OwnDirectives(doc.line, doc.explicit).tags]
    BY DEF NodeScope
  <2> QED
    BY <1>1 DEF Declared, Own, InNode
<1>5. MergePolicyOwn
  <2> SUFFICES ASSUME NEW i \in DOMAIN out, out[i].t = "Doc"
               PROVE  /\ out[i].merge <=> out[i].line \in merge_docs
                      /\ out[i].merge => out[i].schema = Policy(out[i].line)
    BY <1>2 DEF MergePolicyOwn, Policy
  <2>1. DocOwn(out[i])
    BY <1>1 DEF Merged, DocsOwn
  <2> QED
    BY <2>1 DEF DocOwn
<1> QED
  BY <1>3, <1>4, <1>5 DEF DocumentsApart

LEMMA ScopeInvDropsNothing == ScopeInv => NothingDropped
<1> SUFFICES ASSUME ScopeInv, mode = "events", Ended, LastItem = "StreamEnd"
             PROVE  /\ \A i \in Positions : lines[i + 1] = "content" => i \in content_lines
                    /\ {out[i].line : i \in StartEvents} = {m \in Positions : IsLine(m, StartKinds)}
                    /\ \A i, j \in StartEvents : out[i].line = out[j].line => i = j
                    /\ \A i \in Positions : IsLine(i, DirectiveKinds) =>
                         \E m \in Positions : IsLine(m, StartKinds) /\ i \in DirectiveLines(m)
  BY DEF NothingDropped
<1>1. WindowInv /\ ToldInv /\ Declared /\ LinesReached /\ StartsReached /\ EndReached /\ out \in Seq(Items)
  BY YieldsTyped DEF ScopeInv, ToldInv, Reached
<1>2. client.pending = <<>> /\ at = "client" /\ events = <<>>
  BY <1>1 DEF Ended, NothingPending, WindowInv, Ordered, ToldInv
<1>3. Yields = out
  BY <1>1, <1>2, NoneQuiet DEF Yields
<1>4. AtEnd
  <2>1. out # <<>> /\ Last(out).t = "StreamEnd"
    BY DEF LastItem
  <2>2. Len(out) \in DOMAIN out /\ out[Len(out)].t = "StreamEnd"
    BY <1>1, <2>1 DEF Last
  <2> QED
    BY <1>1, <1>3, <2>2 DEF EndReached
<1>5. Positions = Passed /\ ~PendingStart /\ ~directives.any
  BY <1>4 DEF AtEnd, Positions, Passed
<1>6. DirectiveLines(pos) = {}
  BY <1>1, <1>5, NothingPendingLines DEF Declared
<1>7. StartEvents = {i \in DOMAIN out : IsStart(out[i])}
  BY DEF StartEvents, IsStart
<1>8. {out[i].line : i \in StartEvents} = {m \in Positions : IsLine(m, StartKinds)}
  <2>1. ASSUME NEW i \in StartEvents
        PROVE  out[i].line \in Passed /\ IsLine(out[i].line, StartKinds)
    <3>1. i \in DOMAIN out /\ out[i].t = "DocStart" /\ out[i].explicit
      BY DEF StartEvents
    <3>2. Own(out[i]) /\ out[i].line \in Nat
      BY <1>1, <1>3, <3>1, YieldsTyped DEF Declared, StartsOwn
    <3> QED
      BY <1>1, <3>1, <3>2, DocLines DEF Own, Passed
  <2>2. ASSUME NEW m \in Passed, IsLine(m, StartKinds)
        PROVE  \E i \in StartEvents : out[i].line = m
    BY <1>1, <1>3, <1>5, <1>7, <2>2 DEF StartsReached
  <2> QED
    BY <1>5, <2>1, <2>2
<1>9. ASSUME NEW i \in StartEvents, NEW j \in StartEvents, out[i].line = out[j].line
      PROVE  i = j
  <2>1. /\ i \in DOMAIN out /\ j \in DOMAIN out /\ IsStart(out[i]) /\ IsStart(out[j])
        /\ i \in Nat /\ j \in Nat
    BY <1>1, <1>7
  <2>2. out[i].line \in Nat /\ out[j].line \in Nat
    BY <1>1, <1>3, <2>1, YieldsTyped DEF IsStart
  <2>3. ~(i < j) /\ ~(j < i)
    BY <1>1, <1>3, <1>9, <2>1, <2>2 DEF StartsReached, Earlier
  <2> QED
    BY <2>1, <2>3
<1> QED
  BY <1>1, <1>5, <1>6, <1>8, <1>9 DEF LinesReached

(* For an input of any length: no document sees anything of another.  The  *)
(* directives of its start event are those written before its own marker,  *)
(* its node is parsed with its own schema and tag handles, and its merge   *)
(* keys are expanded under its own policy (Parser::activate_pending,       *)
(* take_pending_directives and finish_parsed_document).                    *)
THEOREM DocumentsStayApart == Spec => []DocumentsApart
<1>1. Spec => []ScopeInv
  BY ScopeInvInit, ScopeInvNext, PTL DEF Spec
<1> QED
  BY <1>1, ScopeInvKeepsApart, PTL

(* For an input of any length: a stream of events that ends without an     *)
(* error has dropped no content line, no marker and no directive, and has  *)
(* opened each marked document once.                                       *)
THEOREM NothingEverDropped == Spec => []NothingDropped
<1>1. Spec => []ScopeInv
  BY ScopeInvInit, ScopeInvNext, PTL DEF Spec
<1> QED
  BY <1>1, ScopeInvDropsNothing, PTL

=============================================================================
