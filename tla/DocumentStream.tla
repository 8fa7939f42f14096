--------------------------- MODULE DocumentStream ---------------------------
(***************************************************************************)
(* The document level of the YAML parser: the state machine that cuts a    *)
(* stream of classified source lines into documents                        *)
(* (Parser::parse_next_document_result), the window of source lines it     *)
(* reads through (LineBuffer), and the two pull iterators clients see      *)
(* (EventStream and DocumentStream).                                       *)
(*                                                                         *)
(* A line is its LineKind, directives being split by what they declare.    *)
(* parse_node is abstracted to the lines it may consume and to its outcome *)
(* (a node, with or without a merge key, or an error).  Lines are chosen   *)
(* when the lazy LineBuffer first reads them, so that one behaviour is one *)
(* input of at most MaxLines lines.  Positions are 0-based, as in the      *)
(* source: lines[p + 1] is the line at position p.                         *)
(***************************************************************************)
EXTENDS Naturals, Sequences, FiniteSets, FiniteSetsExt, SequencesExt, TLC

CONSTANTS
  MaxLines,   (* bound on the number of lines of the input            *)
  Schema      (* LoadOptions::selected_schema()                       *)

Schemas == {"Yaml12", "LegacySerdeYaml", "YamlVersionDirective"}

ASSUME DocumentStreamAssumption ==
  /\ MaxLines \in Nat
  /\ Schema \in Schemas

Versions       == {"yaml11", "yaml12"}
DirectiveKinds == Versions \union {"tag", "reserved", "malformed"}
StartKinds     == {"start", "startValue"}   \* `---` and `--- value`
LineKinds      == {"blank", "content", "end"} \union DirectiveKinds \union StartKinds

VARIABLES
  mode,           (* which iterator drives the parser: "events" or "documents" *)
  lines,          (* LineBuffer: every line read so far                  *)
  exhausted,      (* LineBuffer: the source has no further line          *)
  base,           (* LineBuffer: lines before this one are reclaimed     *)
  pos,            (* Parser.pos                                          *)
  at,             (* where control is: client, scan loop, node, trailing *)
  state,          (* DocumentParseState                                  *)
  directives,     (* pending directives: read and not yet activated      *)
  active,         (* active_schema and active_tag_handles                *)
  has_merge,      (* current_document_has_merge_key                      *)
  recorded,       (* schema and merge flag of the last parsed document   *)
  events,         (* EventRecorder.events (stays empty in documents mode)*)
  ret,            (* result of next_raw_document not yet handled         *)
  client,         (* pending, pending_error and finished of the iterator *)
  out,            (* history: every item yielded to the client           *)
  content_lines,  (* history: positions consumed by parse_node           *)
  doc,            (* history: marker of the document being parsed        *)
  merge_docs      (* history: documents whose node holds a merge key     *)

history == <<content_lines, doc, merge_docs>>
buffer  == <<lines, exhausted>>
vars    == <<mode, buffer, base, pos, at, state, directives, active, has_merge,
             recorded, events, ret, client, out, history>>

NoDirectives == [yaml |-> "none", tags |-> {}, any |-> FALSE]
NoStart      == [line |-> MaxLines, explicit |-> FALSE, directives |-> NoDirectives]

(* schema_for_directives: only the version directive selects a schema. *)
SchemaFor(ds) ==
  IF Schema # "YamlVersionDirective" THEN Schema
  ELSE IF ds.yaml = "yaml11" THEN "LegacySerdeYaml" ELSE "Yaml12"

Event(t, line) == [t |-> t, line |-> line]
DocStart(s) ==
  [t |-> "DocStart", line |-> s.line, explicit |-> s.explicit, directives |-> s.directives]
DocEnd(line, explicit) == [t |-> "DocEnd", line |-> line, explicit |-> explicit]

Emit(es) == events' = IF mode = "events" THEN events \o es ELSE events

-----------------------------------------------------------------------------
(* The line window.                                                        *)

Running      == at \in {"scan", "node", "trail"} /\ ret = "none"
Retained     == (base + 1) .. Len(lines)
CurrentKind  == IF pos < Len(lines) THEN lines[pos + 1] ELSE "eof"
LineReady    == base <= pos /\ (pos < Len(lines) \/ exhausted)

(* The parser reads past pos only over blank lines, up to the next other   *)
(* line (content_after_blanks, peek_content_from, plain scalars).          *)
WantsLine ==
  /\ Running /\ base <= pos /\ ~exhausted
  /\ IF at = "node" THEN \A i \in (pos + 1) .. Len(lines) : lines[i] = "blank"
                    ELSE pos >= Len(lines)

Stop(result) == ret' = result /\ state' = [state EXCEPT !.finished = TRUE]

PushNext ==
  /\ WantsLine
  /\ Len(lines) < MaxLines
  /\ \E k \in LineKinds, last \in BOOLEAN :
       lines' = Append(lines, k) /\ exhausted' = last
  /\ UNCHANGED <<mode, base, pos, at, state, directives, active, has_merge,
                 recorded, events, ret, client, out, history>>

PushNothing ==
  /\ WantsLine
  /\ exhausted' = TRUE
  /\ UNCHANGED <<mode, lines, base, pos, at, state, directives, active, has_merge,
                 recorded, events, ret, client, out, history>>

(* preprocess_line rejects `... text`; LineBuffer::get rejects a position  *)
(* whose line was discarded.                                               *)
LineError ==
  /\ Running /\ (base <= pos => WantsLine)
  /\ Stop(IF pos < base THEN "reclaimed" ELSE "err")
  /\ UNCHANGED <<mode, buffer, base, pos, at, directives, active, has_merge,
                 recorded, events, client, out, history>>

(* Mutant of DiscardBefore: one line too many.                             *)
DiscardThrough(p) == base' = Max({base, Min({p + 1, Len(lines)})})

(* LineBuffer::discard_before *)
DiscardBefore(p) == base' = Max({base, Min({p, Len(lines)})})

-----------------------------------------------------------------------------
(* parse_next_document_result: one action per arm of the loop.             *)

Scanning(k) == at = "scan" /\ ret = "none" /\ LineReady /\ CurrentKind = k

FinishParsedDocument(p) ==
  /\ ret' = "doc"
  /\ recorded' = [schema |-> active'.schema, merge |-> has_merge]
  /\ has_merge' = FALSE
  /\ DiscardBefore(p)

(* A document that holds only its start marker; the anchors are left alone. *)
NullDocument(endExplicit, endLine, p) ==
  LET start == state.pending_start IN
  /\ Emit(<<DocStart(start), Event("Node", start.line),
            DocEnd(endLine, endExplicit)>>)
  /\ state' = [state EXCEPT !.pending_start = NoStart]
  /\ FinishParsedDocument(p)
  /\ pos' = p
  /\ doc' = start
  /\ UNCHANGED <<mode, buffer, at, directives, client, out, content_lines, merge_docs>>

(* Mutant of PendingStart: the last marker is forgotten at the end of input. *)
PendingExceptAtEof == state.pending_start # NoStart /\ CurrentKind # "eof"

PendingStart == state.pending_start # NoStart

Activate(ds) == active' = [active EXCEPT !.schema = SchemaFor(ds)]

(* Mutant of CloseOpen *)
CloseNothing == <<>>

(* The implicit end of the previous document is reported only now. *)
CloseOpen == IF state.open_document
             THEN <<DocEnd(pos, FALSE)>> ELSE <<>>

(* Mutant of SkipBlank: pos does not advance. *)
SkipBlankStuck == Scanning("blank") /\ UNCHANGED vars

SkipBlank ==
  /\ Scanning("blank")
  /\ pos' = pos + 1
  /\ UNCHANGED <<mode, buffer, base, at, state, directives, active, has_merge,
                 recorded, events, ret, client, out, history>>

Reject ==
  /\ Stop("err")
  /\ UNCHANGED <<mode, buffer, base, pos, at, directives, active, has_merge,
                 recorded, events, client, out, history>>

EofAfterDirectives == Scanning("eof") /\ directives.any /\ Reject

EofNullDocument ==
  /\ Scanning("eof") /\ ~directives.any /\ PendingStart
  /\ Activate(state.pending_start.directives)
  /\ NullDocument(FALSE, state.pending_start.line, pos)

EofStreamEnd ==
  /\ Scanning("eof") /\ ~directives.any /\ ~PendingStart
  /\ Emit(CloseOpen)
  /\ state' = [state EXCEPT !.open_document = FALSE, !.finished = TRUE]
  /\ ret' = "none_left"
  /\ UNCHANGED <<mode, buffer, base, pos, at, directives, active, has_merge,
                 recorded, client, out, history>>

DirectiveInsideDocument ==
  /\ \E k \in DirectiveKinds : Scanning(k)
  /\ PendingStart \/ state.open_document
  /\ Reject

(* The directive line is legal here: a well formed one is added to the     *)
(* pending directives; a malformed or repeated one is an error.            *)
Repeats(k) == \/ k \in Versions /\ directives.yaml # "none"
              \/ k = "tag" /\ "h" \in directives.tags

ParseDirective ==
  \E k \in DirectiveKinds :
    /\ Scanning(k) /\ ~PendingStart /\ ~state.open_document
    /\ k # "malformed" /\ ~Repeats(k)
    /\ directives' = [yaml |-> IF k \in Versions THEN k ELSE directives.yaml,
                      tags |-> IF k = "tag" THEN {"h"} ELSE directives.tags,
                      any  |-> TRUE]
    /\ pos' = pos + 1
    /\ UNCHANGED <<mode, buffer, base, at, state, active, has_merge, recorded,
                   events, ret, client, out, history>>

DirectiveInvalid ==
  \E k \in DirectiveKinds :
    /\ Scanning(k) /\ ~PendingStart /\ ~state.open_document
    /\ k = "malformed" \/ Repeats(k)
    /\ Reject

(* `---` right after `---`: the first marker's document is null.  This arm *)
(* does not consume the line and does not activate the schema.             *)
StartNullDocument ==
  /\ \E k \in StartKinds : Scanning(k)
  /\ PendingStart
  /\ UNCHANGED active
  /\ NullDocument(FALSE, state.pending_start.line, pos)

ActivatePending(schema) ==
  /\ active' = [schema |-> schema, tags |-> directives.tags]
  /\ directives' = NoDirectives

StartMarker ==
  /\ Scanning("start") /\ ~PendingStart
  /\ Emit(CloseOpen)
  /\ ActivatePending(active.schema)
  /\ state' = [state EXCEPT !.open_document = FALSE,
                            !.pending_start = [line |-> pos, explicit |-> TRUE,
                                               directives |-> directives]]
  /\ pos' = pos + 1
  /\ UNCHANGED <<mode, buffer, base, at, has_merge, recorded, ret, client, out, history>>

StartWithValue ==
  LET start == [line |-> pos, explicit |-> TRUE, directives |-> directives] IN
  /\ Scanning("startValue") /\ ~PendingStart
  /\ Emit(Append(CloseOpen, DocStart(start)))
  /\ ActivatePending(SchemaFor(directives))
  /\ state' = [state EXCEPT !.open_document = FALSE]
  /\ pos' = pos + 1
  /\ at' = "node"
  /\ doc' = start
  /\ UNCHANGED <<mode, buffer, base, has_merge, recorded, ret, client, out,
                 content_lines, merge_docs>>

EndAfterDirectives == Scanning("end") /\ directives.any /\ Reject

EndNullDocument ==
  /\ Scanning("end") /\ ~directives.any /\ PendingStart
  /\ Activate(state.pending_start.directives)
  /\ NullDocument(TRUE, pos, pos + 1)

EndMarker ==
  /\ Scanning("end") /\ ~directives.any /\ ~PendingStart
  /\ Emit(IF state.open_document
          THEN <<DocEnd(pos, TRUE)>> ELSE <<>>)
  /\ state' = [state EXCEPT !.open_document = FALSE]
  /\ pos' = pos + 1
  /\ UNCHANGED <<mode, buffer, base, at, directives, active, has_merge, recorded,
                 ret, client, out, history>>

ContentAfterDirectives == Scanning("content") /\ directives.any /\ Reject

(* A document with content starts here: the marker's, or an implicit one,  *)
(* which has no directives.                                                *)
ContentStart == IF PendingStart THEN state.pending_start
                ELSE [line |-> pos, explicit |-> FALSE, directives |-> NoDirectives]
(* Mutant of ContentTags: an implicit document keeps the handles in force. *)
TagsKept == active.tags

ContentTags == IF PendingStart THEN active.tags ELSE {}

ContentBegin ==
  /\ Scanning("content") /\ ~directives.any
  /\ Emit(Append(CloseOpen, DocStart(ContentStart)))
  /\ active' = [schema |-> SchemaFor(ContentStart.directives), tags |-> ContentTags]
  /\ state' = [state EXCEPT !.open_document = FALSE, !.pending_start = NoStart]
  /\ pos' = pos + 1
  /\ content_lines' = content_lines \union {pos}
  /\ at' = "node"
  /\ doc' = ContentStart
  /\ UNCHANGED <<mode, buffer, base, directives, has_merge, recorded, ret, client,
                 out, merge_docs>>

-----------------------------------------------------------------------------
(* parse_node / parse_document_start_value, up to the lines they consume.  *)

(* Blank lines, content, and `%` lines that are text of a scalar; never a  *)
(* document marker.                                                        *)
NodeConsumeLine ==
  /\ at = "node" /\ ret = "none" /\ LineReady
  /\ CurrentKind \in {"blank", "content"} \union DirectiveKinds
  /\ pos' = pos + 1
  /\ content_lines' = content_lines \union {pos}
  /\ UNCHANGED <<mode, buffer, base, at, state, directives, active, has_merge,
                 recorded, events, ret, client, out, doc, merge_docs>>

(* record_merge_key while the node is parsed *)
NodeMergeKey ==
  /\ at = "node" /\ ret = "none" /\ ~has_merge
  /\ has_merge' = TRUE
  /\ merge_docs' = merge_docs \union {doc.line}
  /\ UNCHANGED <<mode, buffer, base, pos, at, state, directives, active, recorded,
                 events, ret, client, out, content_lines, doc>>

NodeComplete ==
  /\ at = "node" /\ ret = "none"
  /\ Emit(<<Event("Node", doc.line)>>)
  /\ state' = [state EXCEPT !.open_document = TRUE]
  /\ at' = "trail"
  /\ UNCHANGED <<mode, buffer, base, pos, directives, active, has_merge, recorded,
                 ret, client, out, history>>

NodeError == at = "node" /\ ret = "none" /\ Reject

(* reject_trailing_content_after_document_node looks at the line at pos    *)
(* only: it does not skip blank lines.                                     *)
TrailingContent ==
  at = "trail" /\ ret = "none" /\ LineReady /\ CurrentKind = "content" /\ Reject

DocumentParsed ==
  /\ at = "trail" /\ ret = "none" /\ LineReady /\ CurrentKind # "content"
  /\ UNCHANGED active
  /\ FinishParsedDocument(pos)
  /\ UNCHANGED <<mode, buffer, pos, at, state, directives, events, client, out, history>>
-----------------------------------------------------------------------------
(* The two iterators: Iterator::next of EventStream and of DocumentStream. *)

NothingPending == client.pending = <<>> /\ ~client.error
Ended          == client.finished /\ NothingPending

Call ==
  /\ at = "client" /\ NothingPending /\ ~client.finished
  /\ at' = "scan"
  /\ ret' = IF state.finished THEN "none_left" ELSE "none"
  /\ UNCHANGED <<mode, buffer, base, pos, state, directives, active, has_merge,
                 recorded, events, client, out, history>>

NextEvent ==
  /\ at = "client" /\ client.pending # <<>>
  /\ out' = Append(out, Head(client.pending))
  /\ client' = [client EXCEPT !.pending = Tail(@)]
  /\ UNCHANGED <<mode, buffer, base, pos, at, state, directives, active, has_merge,
                 recorded, events, ret, history>>

NextPendingError ==
  /\ at = "client" /\ client.pending = <<>> /\ client.error
  /\ out' = Append(out, Event("Err", pos))
  /\ client' = [client EXCEPT !.error = FALSE]
  /\ UNCHANGED <<mode, buffer, base, pos, at, state, directives, active, has_merge,
                 recorded, events, ret, history>>

(* Every later call returns None. *)
NextAfterEnd == at = "client" /\ Ended /\ UNCHANGED vars

Failed == ret \in {"err", "reclaimed"}

ReturnToEvents ==
  /\ mode = "events" /\ ret # "none"
  /\ client' = [pending  |-> events \o (IF ret = "none_left"
                                        THEN <<Event("StreamEnd", pos)>> ELSE <<>>),
                error    |-> Failed,
                finished |-> ret # "doc"]
  /\ events' = <<>>
  /\ at' = "client" /\ ret' = "none"
  /\ UNCHANGED <<mode, buffer, base, pos, state, directives, active, has_merge,
                 recorded, out, history>>

DocumentItem ==
  [t |-> "Doc", line |-> doc.line, schema |-> recorded.schema, merge |-> recorded.merge]

(* A merge error is an item; only a parse error ends the stream. *)
ReturnToDocuments ==
  /\ mode = "documents" /\ ret # "none"
  /\ out' = CASE ret = "doc"       -> Append(out, DocumentItem)
               [] Failed            -> Append(out, Event("Err", pos))
               [] ret = "none_left" -> out
  /\ client' = [client EXCEPT !.finished = ret # "doc"]
  /\ at' = "client" /\ ret' = "none"
  /\ UNCHANGED <<mode, buffer, base, pos, state, directives, active, has_merge,
                 recorded, events, history>>

ReturnMergeError ==
  /\ mode = "documents" /\ ret = "doc" /\ recorded.merge
  /\ out' = Append(out, Event("MergeErr", doc.line))
  /\ at' = "client" /\ ret' = "none"
  /\ UNCHANGED <<mode, buffer, base, pos, state, directives, active, has_merge,
                 recorded, events, client, history>>

-----------------------------------------------------------------------------
Init ==
  /\ mode \in {"events", "documents"}
  /\ lines = <<>> /\ exhausted = FALSE /\ base = 0 /\ pos = 0
  /\ at = "client" /\ ret = "none"
  /\ state = [pending_start |-> NoStart, open_document |-> FALSE, finished |-> FALSE]
  /\ directives = NoDirectives
  /\ active = [schema |-> SchemaFor(NoDirectives), tags |-> {}]
  /\ has_merge = FALSE
  /\ recorded = [schema |-> "Yaml12", merge |-> FALSE]
  /\ events = <<>>
  /\ client = [pending  |-> IF mode = "events" THEN <<Event("StreamStart", 0)>> ELSE <<>>,
               error    |-> FALSE, finished |-> FALSE]
  /\ out = <<>>
  /\ content_lines = {} /\ doc = NoStart /\ merge_docs = {}

ReadLine == PushNext \/ PushNothing \/ LineError
Scan == \/ SkipBlank \/ EofAfterDirectives \/ EofNullDocument \/ EofStreamEnd
        \/ DirectiveInsideDocument \/ ParseDirective \/ DirectiveInvalid
        \/ StartNullDocument \/ StartMarker \/ StartWithValue
        \/ EndAfterDirectives \/ EndNullDocument \/ EndMarker
        \/ ContentAfterDirectives \/ ContentBegin
Node == NodeConsumeLine \/ NodeMergeKey \/ NodeComplete \/ NodeError
        \/ TrailingContent \/ DocumentParsed
Iterator == Call \/ NextEvent \/ NextPendingError \/ NextAfterEnd
            \/ ReturnToEvents \/ ReturnToDocuments \/ ReturnMergeError

Next == ReadLine \/ Scan \/ Node \/ Iterator

Spec == Init /\ [][Next]_vars

(* The library is sequential: a client that keeps calling next() keeps the *)
(* parser running, and the input is finite.                                *)
FairSpec == Spec /\ WF_vars(Next)

-----------------------------------------------------------------------------
(* Properties.                                                             *)

TypeOK ==
  /\ mode \in {"events", "documents"}
  /\ lines \in Seq(LineKinds) /\ Len(lines) <= MaxLines
  /\ exhausted \in BOOLEAN
  /\ base \in 0 .. Len(lines) /\ pos \in base .. Len(lines)
  /\ at \in {"client", "scan", "node", "trail"}
  /\ ret \in {"none", "doc", "err", "reclaimed", "none_left"}
  /\ active \in [schema : Schemas, tags : SUBSET {"h"}]
  /\ directives \in [yaml : Versions \union {"none"}, tags : SUBSET {"h"}, any : BOOLEAN]
  /\ has_merge \in BOOLEAN
  /\ recorded \in [schema : Schemas, merge : BOOLEAN]
  /\ content_lines \subseteq 0 .. (MaxLines - 1)

(* The yielded events follow the protocol: in particular the end of a      *)
(* document, which the parser reports only when it is asked for the next   *)
(* one, is never missing, and nothing follows an error or the stream end.  *)
LastItem == IF out = <<>> THEN "none" ELSE Last(out).t
Phase == CASE mode = "documents" \/ LastItem = "none" -> "new"
           [] LastItem \in {"StreamStart", "DocEnd"}   -> "between"
           [] LastItem = "DocStart"                    -> "opened"
           [] LastItem = "Node"                        -> "rooted"
           [] LastItem = "StreamEnd"                   -> "ended"
           [] LastItem = "Err"                         -> "failed"

Protocol == INSTANCE EventProtocol WITH phase <- Phase
EventsFollowProtocol == Protocol!Spec

(* A position is a marker or directive line of the stream unless a scalar  *)
(* took it as text.                                                        *)
IsLine(i, kinds) == lines[i + 1] \in kinds /\ i \notin content_lines
Positions == 0 .. (Len(lines) - 1)

(* The directive lines that stand between the previous document and m.     *)
DirectiveLines(m) ==
  {i \in 0 .. (m - 1) : /\ IsLine(i, DirectiveKinds)
                        /\ \A j \in (i + 1) .. (m - 1) : ~IsLine(j, StartKinds \union {"end"})}

DeclaredBefore(m) ==
  LET kinds == {lines[i + 1] : i \in DirectiveLines(m)} IN
  [yaml |-> IF kinds \intersect Versions = {} THEN "none"
            ELSE CHOOSE v \in Versions : v \in kinds,
   tags |-> IF "tag" \in kinds THEN {"h"} ELSE {},
   any  |-> kinds # {}]

OwnDirectives(line, explicit) == IF explicit THEN DeclaredBefore(line) ELSE NoDirectives

(* Every document start event carries exactly the directives written       *)
(* between the previous document and its own marker, none of another       *)
(* document's, even when null documents stand in between.                  *)
DirectivesScoped ==
  \A e \in ToSet(out) : e.t = "DocStart" =>
     e.directives = OwnDirectives(e.line, e.explicit)

(* While a node is parsed, the schema and the tag handles in force are     *)
(* those of the node's own document: an implicit document sees no handle.  *)
NodeScope ==
  at = "node" =>
    LET own == OwnDirectives(doc.line, doc.explicit) IN
    active = [schema |-> SchemaFor(own), tags |-> own.tags]

(* DocumentStream expands merge keys exactly in the documents that hold    *)
(* one, under the policy of that document's own directives.                *)
MergePolicyOwn ==
  \A d \in ToSet(out) : d.t = "Doc" =>
    /\ d.merge <=> d.line \in merge_docs
    /\ d.merge => d.schema = SchemaFor(OwnDirectives(d.line, IsLine(d.line, StartKinds)))

(* No document sees anything of another: neither in the directives of its  *)
(* start event, nor in the schema and the tag handles its node is parsed   *)
(* with, nor in the policy its merge keys are expanded under.              *)
DocumentsApart == DirectivesScoped /\ NodeScope /\ MergePolicyOwn

(* A stream that ends without an error has dropped nothing: every content  *)
(* line went to some node, each `---` opened exactly one document, and     *)
(* every directive reached a document.                                     *)
StartEvents == {i \in DOMAIN out : out[i].t = "DocStart" /\ out[i].explicit}
NothingDropped ==
  mode = "events" /\ Ended /\ LastItem = "StreamEnd" =>
    /\ \A i \in Positions : lines[i + 1] = "content" => i \in content_lines
    /\ {out[i].line : i \in StartEvents} = {m \in Positions : IsLine(m, StartKinds)}
    /\ \A i, j \in StartEvents : out[i].line = out[j].line => i = j
    /\ \A i \in Positions : IsLine(i, DirectiveKinds) =>
         \E m \in Positions : IsLine(m, StartKinds) /\ i \in DirectiveLines(m)

(* The reclaimed window is neither too small nor too large: its bounds stay *)
(* within what was read and what is needed (TypeOK), LineBuffer::get        *)
(* is never asked for a discarded line (its internal error is unreachable), *)
(* and once a document has been handed out none of its lines is retained,   *)
(* nor more than one line of what follows that is not blank.                *)
WindowExact ==
  /\ TypeOK
  /\ ret # "reclaimed"
  /\ at = "client" /\ ~state.finished =>
       /\ Retained \intersect {i + 1 : i \in content_lines} = {}
       /\ Cardinality({i \in Retained : lines[i] # "blank"}) <= 1

(* A client that keeps calling next() reaches the end of the stream.       *)
Terminates == <>Ended

(* tests/serde_value_api.rs: a malformed document "must not be yielded as  *)
(* Ok before its error", where malformed is content after the root node    *)
(* that no marker introduces.                                              *)
MalformedNeverYielded ==
  \A d \in ToSet(out) : d.t = "Doc" /\ ~IsLine(d.line, StartKinds) =>
     \A i \in content_lines : i < d.line =>
        \E j \in i .. d.line : IsLine(j, {"end"})

=============================================================================
