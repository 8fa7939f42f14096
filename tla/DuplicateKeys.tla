---------------------------- MODULE DuplicateKeys ----------------------------
(***************************************************************************)
(* DuplicateKeyTracker: the keys of one mapping, kept in a small inline    *)
(* array and moved to a hash map when the array is full.                   *)
(*                                                                         *)
(* A key is its DuplicateKey identity; its span is the position of the key *)
(* among the keys of the mapping, counted from one.  The filled slots of   *)
(* the array are a prefix of it, so that the array is a sequence.          *)
(***************************************************************************)
EXTENDS Naturals, Sequences

CONSTANTS
  Keys,          (* key identities                             *)
  InlineLimit,   (* INLINE_LIMIT                               *)
  MaxKeys        (* bound on the keys reported for one mapping *)

ASSUME DuplicateKeysAssumption == InlineLimit \in Nat /\ MaxKeys \in Nat

VARIABLES
  inline,      (* DuplicateKeyTracker.inline: filled slots              *)
  spilled,     (* DuplicateKeyTracker.overflow is Some                  *)
  overflow,    (* the hash map, a function from keys to spans           *)
  verdict,     (* 0, or the span of the previous key of the first error *)
  reported     (* the keys reported so far, in order                    *)

tracker == <<inline, spilled, overflow, verdict, reported>>

Slot(k, at) == [key |-> k, span |-> at]
Empty       == [k \in {} |-> 0]

InlineKeys  == {inline[i].key : i \in DOMAIN inline}
InlineSpan(k) == inline[CHOOSE i \in DOMAIN inline : inline[i].key = k].span

(* insert_into_hashmap *)
With(map, k, at) == [x \in DOMAIN map \union {k} |-> IF x = k THEN at ELSE map[x]]

InsertIntoHashmap(map, k, at) ==
  IF k \in DOMAIN map
  THEN overflow' = map /\ verdict' = map[k]
  ELSE overflow' = With(map, k, at) /\ UNCHANGED verdict

(* Mutant of Moved: the last slot is left behind. *)
MovedButLast == [k \in {inline[i].key : i \in DOMAIN inline \ {Len(inline)}} |-> InlineSpan(k)]

(* The content of the full array, moved to the hash map. *)
Moved == [k \in InlineKeys |-> InlineSpan(k)]

Full == Len(inline) >= InlineLimit

InsertSpilled(k, at) ==
  /\ spilled
  /\ InsertIntoHashmap(overflow, k, at)
  /\ UNCHANGED <<inline, spilled>>

(* Mutant of FoundInline: the key is found, but not reported. *)
FoundInlineSilently(k) ==
  /\ ~spilled /\ k \in InlineKeys
  /\ UNCHANGED <<inline, spilled, overflow, verdict>>

FoundInline(k) ==
  /\ ~spilled /\ k \in InlineKeys
  /\ verdict' = InlineSpan(k)
  /\ UNCHANGED <<inline, spilled, overflow>>

InsertInline(k, at) ==
  /\ ~spilled /\ k \notin InlineKeys /\ ~Full
  /\ inline' = Append(inline, Slot(k, at))
  /\ UNCHANGED <<spilled, overflow, verdict>>

Spill(k, at) ==
  /\ ~spilled /\ k \notin InlineKeys /\ Full
  /\ InsertIntoHashmap(Moved, k, at)
  /\ inline' = <<>>
  /\ spilled' = TRUE

(* DuplicateKeyTracker::insert; parsing ends at the first duplicate. *)
Insert(k) ==
  /\ verdict = 0 /\ Len(reported) < MaxKeys
  /\ reported' = Append(reported, k)
  /\ LET at == Len(reported) + 1 IN
     \/ InsertSpilled(k, at)
     \/ FoundInline(k)
     \/ InsertInline(k, at)
     \/ Spill(k, at)

(* DuplicateKeyTracker::new, for the next mapping *)
Fresh ==
  /\ verdict = 0
  /\ inline' = <<>> /\ spilled' = FALSE /\ overflow' = Empty
  /\ verdict' = 0 /\ reported' = <<>>

InitTracker ==
  /\ inline = <<>> /\ spilled = FALSE /\ overflow = Empty
  /\ verdict = 0 /\ reported = <<>>

NextKey == Fresh \/ \E k \in Keys : Insert(k)

TrackerSpec == InitTracker /\ [][NextKey]_tracker

-----------------------------------------------------------------------------
(* The array is never overfull, and every span is one of a mapping's keys. *)
TrackerTypeOK ==
  /\ inline \in Seq([key : Keys, span : 1 .. MaxKeys])
  /\ Len(inline) <= InlineLimit
  /\ spilled \in BOOLEAN
  /\ \E ks \in SUBSET Keys : overflow \in [ks -> 1 .. MaxKeys]
  /\ verdict \in 0 .. MaxKeys
  /\ reported \in Seq(Keys) /\ Len(reported) <= MaxKeys

(* Array and hash map together are the seen keys of the abstract check,    *)
(* also across the move from one to the other.                             *)
Contents == IF spilled THEN overflow ELSE Moved
Abstract == INSTANCE SeenKeys WITH seen <- Contents

(* Every key that is reported is either remembered with its own position   *)
(* or refused with the position of its first occurrence, the latter        *)
(* exactly if it was reported before in the same mapping; nothing is       *)
(* forgotten until the next mapping begins, whatever the array had to give *)
(* up (DuplicateKeyTracker::insert).                                       *)
RemembersFirst == Abstract!Spec
=============================================================================
