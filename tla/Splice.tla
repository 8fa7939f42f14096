------------------------------- MODULE Splice -------------------------------
(***************************************************************************)
(* A batch of edits of LosslessEdit: replacements of spans of the source   *)
(* are collected in the order of the calls; finish sorts them, refuses     *)
(* overlaps, and splices source and replacements together.                 *)
(*                                                                         *)
(* Replacement text is its length; the output is the sequence of pieces    *)
(* push_str is called with.  Whether the result parses is left open.       *)
(***************************************************************************)
EXTENDS Integers, Sequences, Functions

CONSTANTS
  Length,       (* source.len()                            *)
  Boundaries,   (* offsets that start or end a character   *)
  Sizes,        (* lengths of replacement texts            *)
  MaxCalls      (* bound on the replacements of one batch  *)

ASSUME SpliceAssumption ==
  /\ Length \in Nat
  /\ Boundaries \subseteq 0 .. Length /\ {0, Length} \subseteq Boundaries
  /\ Sizes \subseteq Nat
  /\ MaxCalls \in Nat

VARIABLES
  replacements,   (* LosslessEdit.replacements                             *)
  at,             (* "editing", or where finish is                         *)
  next,           (* the replacement whose turn it is                      *)
  cursor,         (* where the source goes on                              *)
  output,         (* pieces put out: source, then a replacement            *)
  err,            (* the error finish returned                             *)
  calls           (* history: the replacements in the order of the calls   *)

finishing == <<next, cursor, output>>
vars      == <<replacements, at, finishing, err, calls>>

-----------------------------------------------------------------------------
(* Building the batch. *)

(* Mutant of Sliceable: spans may split a character or leave the source. *)
SliceableAnywhere(start, end) == start <= end

(* str::get(start..end) is Some. *)
Sliceable(start, end) == start <= end /\ {start, end} \subseteq Boundaries

Replacement(order, start, end, size) ==
  [order |-> order, start |-> start, end |-> end, size |-> size]

PushReplacement(start, end, size) ==
  LET r == Replacement(Len(replacements) + 1, start, end, size) IN
  /\ replacements' = Append(replacements, r)
  /\ calls' = Append(calls, r)
  /\ UNCHANGED <<at, finishing, err>>

(* A span that is not one of the source is refused and the batch goes on.  *)
ReplaceSourceSpan(start, end, size) ==
  /\ at = "editing" /\ Len(replacements) < MaxCalls
  /\ IF Sliceable(start, end) THEN PushReplacement(start, end, size) ELSE UNCHANGED vars

InsertSource(offset, size) == ReplaceSourceSpan(offset, offset, size)

-----------------------------------------------------------------------------
(* finish. *)

Lexically(x, y, rest) == x < y \/ (x = y /\ rest)

(* Mutant of Precedes: the end of a span is not compared. *)
PrecedesByStart(r, s) == Lexically(r.start, s.start, r.order <= s.order)

(* Mutant of Precedes: later calls come first. *)
PrecedesLatestFirst(r, s) ==
  Lexically(r.start, s.start, Lexically(r.end, s.end, r.order >= s.order))

(* sort_by_key *)
Precedes(r, s) == Lexically(r.start, s.start, Lexically(r.end, s.end, r.order <= s.order))

Sort ==
  /\ at = "editing"
  /\ \E p \in Bijection(DOMAIN replacements, DOMAIN replacements) :
       /\ \A i, j \in DOMAIN replacements :
            i < j => Precedes(replacements[p[i]], replacements[p[j]])
       /\ replacements' = [i \in DOMAIN replacements |-> replacements[p[i]]]
  /\ at' = "validating"
  /\ UNCHANGED <<finishing, err, calls>>

Refuse(error) == at' = "refused" /\ err' = error /\ UNCHANGED <<replacements, finishing, calls>>

(* Mutant of Resume: the source goes on where the replacement starts.      *)
ResumeAtStart(r) == r.start

Resume(r) == r.end

(* validate_replacements: the loop, one replacement a step, and its end.   *)
Validate ==
  /\ at = "validating" /\ next <= Len(replacements)
  /\ LET r == replacements[next] IN
     IF r.start < cursor THEN Refuse("overlap")
     ELSE IF ~Sliceable(cursor, r.start) THEN Refuse("boundary")
     ELSE /\ cursor' = Resume(r) /\ next' = next + 1
          /\ UNCHANGED <<replacements, at, output, err, calls>>

Validated ==
  /\ at = "validating" /\ next > Len(replacements)
  /\ IF ~Sliceable(cursor, Length) THEN Refuse("boundary")
     ELSE /\ at' = "splicing" /\ next' = 1 /\ cursor' = 0
          /\ UNCHANGED <<replacements, output, err, calls>>

(* Source from one offset up to another, and then a replacement or none.   *)
Piece(from, to, order, size) == [from |-> from, to |-> to, order |-> order, size |-> size]

SpliceReplacement ==
  /\ at = "splicing" /\ next <= Len(replacements)
  /\ LET r == replacements[next] IN
     IF ~Sliceable(cursor, r.start) THEN Refuse("boundary")
     ELSE /\ output' = Append(output, Piece(cursor, r.start, r.order, r.size))
          /\ cursor' = Resume(r) /\ next' = next + 1
          /\ UNCHANGED <<replacements, at, err, calls>>

SpliceSuffix ==
  /\ at = "splicing" /\ next > Len(replacements)
  /\ IF ~Sliceable(cursor, Length) THEN Refuse("boundary")
     ELSE /\ output' = Append(output, Piece(cursor, Length, 0, 0))
          /\ at' = "parsing"
          /\ UNCHANGED <<replacements, next, cursor, err, calls>>

Reparse ==
  /\ at = "parsing"
  /\ \/ at' = "done" /\ UNCHANGED <<replacements, finishing, err, calls>>
     \/ Refuse("syntax")

Init ==
  /\ replacements = <<>> /\ calls = <<>>
  /\ at = "editing" /\ err = "none"
  /\ next = 1 /\ cursor = 0 /\ output = <<>>

Next ==
  \/ \E start, end \in 0 .. Length + 1, size \in Sizes : ReplaceSourceSpan(start, end, size)
  \/ \E offset \in 0 .. Length + 1, size \in Sizes : InsertSource(offset, size)
  \/ Sort \/ Validate \/ Validated \/ SpliceReplacement \/ SpliceSuffix \/ Reparse

Spec == Init /\ [][Next]_vars

-----------------------------------------------------------------------------
ReplacementType == [order : Nat \ {0}, start : Boundaries, end : Boundaries, size : Nat]

TypeOK ==
  /\ replacements \in Seq(ReplacementType) /\ calls \in Seq(ReplacementType)
  /\ Len(replacements) = Len(calls)
  /\ at \in {"editing", "validating", "splicing", "parsing", "done", "refused"}
  /\ err \in {"none", "overlap", "boundary", "syntax"}
  /\ next \in Nat \ {0} /\ cursor \in Boundaries
  /\ output \in Seq([from : Boundaries, to : Boundaries, order : Nat, size : Nat])

(* finish refuses a batch for its spans exactly when two of them share a   *)
(* byte or one inserts inside the other: touching spans, and insertions at *)
(* either end of a span, are accepted in whatever order they were called.  *)
(* It never splits a character.                                            *)
Shares(r, s) == r.start < s.end /\ s.start < r.end
Conflict     == \E i, j \in DOMAIN calls : i # j /\ Shares(calls[i], calls[j])

BatchRefusedExactly ==
  /\ at \in {"splicing", "parsing", "done"} => ~Conflict
  /\ err = "overlap" => Conflict
  /\ err # "boundary"

(* The output is the source from its start to its end without a byte lost  *)
(* or put out twice, save that the span of every call, and nothing else,   *)
(* has given way to its replacement.                                       *)
Spliced == at \in {"parsing", "done"}

UntouchedSourceKept ==
  Spliced =>
    /\ Len(output) = Len(calls) + 1
    /\ output[1].from = 0
    /\ output[Len(output)].to = Length /\ output[Len(output)].order = 0
    /\ \A i \in DOMAIN calls :
         /\ output[i].order \in DOMAIN calls
         /\ output[i].to = calls[output[i].order].start
         /\ output[i + 1].from = calls[output[i].order].end
    /\ \A i, j \in DOMAIN calls : output[i].order = output[j].order => i = j

(* Insertions at one offset come out in the order of the calls, and before *)
(* a replacement that starts there.                                        *)
CallOrderKept ==
  Spliced =>
    \A i, j \in DOMAIN calls :
      LET r == calls[output[i].order]
          s == calls[output[j].order]
      IN r.start = s.start /\ r.start = r.end /\ (s.start = s.end => r.order < s.order)
           => i < j \/ i = j

=============================================================================
