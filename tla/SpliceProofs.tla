---------------------------- MODULE SpliceProofs ----------------------------
(***************************************************************************)
(* A batch of any number of calls on a source of any length is refused for *)
(* its spans exactly when they conflict, and otherwise spliced without     *)
(* losing or repeating a byte.                                             *)
(***************************************************************************)
EXTENDS Splice, SequenceTheorems, TLAPS

(* The calls are numbered, and no span ends before it starts.              *)
Numbered == \A i \in DOMAIN calls : calls[i].order = i /\ calls[i].start <= calls[i].end

(* The replacements are the calls, in another order.                       *)
Rearranged ==
  /\ \A i \in DOMAIN replacements :
       /\ replacements[i].order \in DOMAIN calls
       /\ replacements[i] = calls[replacements[i].order]
  /\ \A i, j \in DOMAIN replacements :
       replacements[i].order = replacements[j].order => i = j
  /\ \A k \in DOMAIN calls : \E i \in DOMAIN replacements : replacements[i] = calls[k]

Sorted == \A i, j \in DOMAIN replacements : i < j => Precedes(replacements[i], replacements[j])

(* The first n replacements do not overlap. *)
ApartUpTo(n) ==
  \A i, j \in DOMAIN replacements : i < j /\ j <= n => replacements[i].end <= replacements[j].start

(* The cursor is behind the replacement that was handled last. *)
Advanced ==
  /\ next <= Len(replacements) + 1
  /\ cursor = IF next = 1 THEN 0 ELSE replacements[next - 1].end

(* The output up to the n-th replacement. *)
PutOutUpTo(n) ==
  \A i \in DOMAIN replacements : i <= n =>
    output[i] = Piece(IF i = 1 THEN 0 ELSE replacements[i - 1].end,
                      replacements[i].start, replacements[i].order, replacements[i].size)

Count == Len(replacements)

SpliceInv ==
  /\ TypeOK /\ Numbered /\ Rearranged
  /\ at = "editing" => replacements = calls /\ next = 1 /\ cursor = 0
  /\ at \in {"editing", "validating"} => output = <<>>
  /\ at # "editing" => Sorted
  /\ at = "validating" => Advanced /\ ApartUpTo(next - 1)
  /\ at \in {"splicing", "parsing", "done"} => ApartUpTo(Count)
  /\ at = "splicing" => Advanced /\ Len(output) = next - 1 /\ PutOutUpTo(next - 1)
  /\ Spliced =>
       /\ Len(output) = Count + 1 /\ PutOutUpTo(Count)
       /\ output[Count + 1] =
            Piece(IF Count = 0 THEN 0 ELSE replacements[Count].end, Length, 0, 0)
  /\ err = "overlap" => Conflict
  /\ err # "boundary"
  /\ at # "refused" => err = "none"

-----------------------------------------------------------------------------
(* The fields of the elements of a sequence of replacements.               *)
LEMMA Elements ==
  ASSUME TypeOK
  PROVE  /\ Len(replacements) \in Nat /\ DOMAIN replacements = 1 .. Len(replacements)
         /\ Len(calls) = Len(replacements) /\ DOMAIN calls = DOMAIN replacements
         /\ \A i \in DOMAIN replacements :
              /\ replacements[i] \in ReplacementType
              /\ replacements[i].order \in Nat \ {0} /\ replacements[i].size \in Nat
              /\ replacements[i].start \in Boundaries /\ replacements[i].end \in Boundaries
              /\ replacements[i].start \in 0 .. Length /\ replacements[i].end \in 0 .. Length
         /\ next \in Nat \ {0} /\ cursor \in Boundaries /\ cursor \in 0 .. Length
         /\ Length \in Nat /\ 0 \in Boundaries /\ Length \in Boundaries
<1>1. /\ Len(replacements) \in Nat /\ DOMAIN replacements = 1 .. Len(replacements)
      /\ Len(calls) = Len(replacements) /\ DOMAIN calls = 1 .. Len(calls)
  BY LenProperties DEF TypeOK
<1>2. \A i \in DOMAIN replacements : replacements[i] \in ReplacementType
  BY <1>1 DEF TypeOK
<1>3. \A b \in Boundaries : b \in 0 .. Length
  BY SpliceAssumption
<1>4. Length \in Nat /\ 0 \in Boundaries /\ Length \in Boundaries
  BY SpliceAssumption
<1>5. next \in Nat \ {0} /\ cursor \in Boundaries
  BY DEF TypeOK
<1> QED
  BY <1>1, <1>2, <1>3, <1>4, <1>5 DEF ReplacementType

(* Spans in the replacements are those of the calls.                       *)
LEMMA Ordered ==
  ASSUME TypeOK, Numbered, Rearranged, NEW i \in DOMAIN replacements
  PROVE  replacements[i].start <= replacements[i].end
BY Elements DEF Numbered, Rearranged

(* Everything that was handled ends at or before the cursor.               *)
LEMMA EndsBehind ==
  ASSUME TypeOK, Numbered, Rearranged, Advanced, ApartUpTo(next - 1),
         NEW i \in DOMAIN replacements, i < next
  PROVE  replacements[i].end <= cursor
<1>1. next - 1 \in DOMAIN replacements /\ next # 1 /\ cursor = replacements[next - 1].end
  BY Elements DEF Advanced
<1>2. CASE i = next - 1
  BY <1>1, <1>2, Elements
<1>3. CASE i # next - 1
  <2>1. replacements[i].end <= replacements[next - 1].start
    BY <1>1, <1>3, Elements DEF ApartUpTo
  <2>2. replacements[next - 1].start <= replacements[next - 1].end
    BY <1>1, Ordered
  <2> QED
    BY <1>1, <2>1, <2>2, Elements
<1> QED
  BY <1>2, <1>3

(* A replacement that starts before the cursor conflicts with the one      *)
(* before it: this is where the order of the ends matters.                 *)
LEMMA StartsBeforeCursor ==
  ASSUME TypeOK, Numbered, Rearranged, Sorted, Advanced,
         next <= Len(replacements), replacements[next].start < cursor
  PROVE  Conflict
<1> DEFINE r == replacements[next - 1]
           s == replacements[next]
<1>1. next \in DOMAIN replacements /\ s.start >= 0
  BY Elements
<1>2. next # 1
  <2>1. s.start \in Nat /\ s.start < cursor
    BY <1>1, Elements
  <2> QED
    BY <2>1 DEF Advanced
<1>3. next - 1 \in DOMAIN replacements /\ cursor = r.end
  BY <1>2, Elements DEF Advanced
<1>4. Precedes(r, s)
  BY <1>1, <1>3, Elements DEF Sorted
<1>5. s.start <= s.end
  BY <1>1, Ordered
<1>6. Shares(r, s)
  <2>1. /\ r.start \in Nat /\ r.end \in Nat /\ s.start \in Nat /\ s.end \in Nat
        /\ s.start < r.end
    BY <1>1, <1>3, Elements
  <2> QED
    BY <2>1, <1>4, <1>5 DEF Shares, Precedes, Lexically
<1>7. /\ r.order \in DOMAIN calls /\ s.order \in DOMAIN calls
      /\ r = calls[r.order] /\ s = calls[s.order] /\ r.order # s.order
  <2>1. next - 1 # next
    BY Elements
  <2> QED
    BY <2>1, <1>1, <1>3 DEF Rearranged
<1> QED
  BY <1>6, <1>7 DEF Conflict

(* Replacements that do not overlap come from calls without a conflict.    *)
LEMMA ApartMeansNoConflict ==
  ASSUME TypeOK, Numbered, Rearranged, ApartUpTo(Count)
  PROVE  ~Conflict
<1> SUFFICES ASSUME NEW k \in DOMAIN calls, NEW l \in DOMAIN calls, k # l,
                    Shares(calls[k], calls[l])
             PROVE  FALSE
  BY DEF Conflict
<1>1. PICK i \in DOMAIN replacements : replacements[i] = calls[k]
  BY DEF Rearranged
<1>2. PICK j \in DOMAIN replacements : replacements[j] = calls[l]
  BY DEF Rearranged
<1>3. i # j
  BY <1>1, <1>2 DEF Numbered
<1>4. i < j \/ j < i
  BY <1>3, Elements
<1>5. replacements[i].end <= replacements[j].start \/ replacements[j].end <= replacements[i].start
  BY <1>4, Elements DEF ApartUpTo, Count
<1> QED
  BY <1>1, <1>2, <1>5, Elements DEF Shares

-----------------------------------------------------------------------------
(* A batch that has not been finished holds well-formed replacements only. *)
LEMMA PushTyped ==
  ASSUME TypeOK, NEW start, NEW end, NEW size \in Sizes, Sliceable(start, end),
         at = "editing", PushReplacement(start, end, size)
  PROVE  /\ TypeOK'
         /\ LET r == Replacement(Len(replacements) + 1, start, end, size) IN
            /\ Len(replacements') = Len(replacements) + 1 /\ Len(calls') = Len(calls) + 1
            /\ replacements' = Append(replacements, r) /\ calls' = Append(calls, r)
            /\ r \in ReplacementType
<1> DEFINE r == Replacement(Len(replacements) + 1, start, end, size)
<1>1. r \in ReplacementType
  BY Elements, SpliceAssumption DEF Replacement, ReplacementType, Sliceable
<1>2. replacements' = Append(replacements, r) /\ calls' = Append(calls, r)
  BY DEF PushReplacement
<1> HIDE DEF r
<1>3. /\ replacements' \in Seq(ReplacementType) /\ Len(replacements') = Len(replacements) + 1
      /\ calls' \in Seq(ReplacementType) /\ Len(calls') = Len(calls) + 1
  BY <1>1, <1>2, AppendProperties DEF TypeOK
<1>4. TypeOK'
  BY <1>3 DEF TypeOK, PushReplacement, finishing
<1> QED
  BY <1>1, <1>2, <1>3, <1>4 DEF r

(* sort_by_key only moves replacements around.                             *)
LEMMA SortTyped ==
  ASSUME TypeOK, NEW p \in Bijection(DOMAIN replacements, DOMAIN replacements),
         replacements' = [i \in DOMAIN replacements |-> replacements[p[i]]]
  PROVE  /\ replacements' \in Seq(ReplacementType)
         /\ Len(replacements') = Len(replacements)
         /\ DOMAIN replacements' = DOMAIN replacements
         /\ \A i \in DOMAIN replacements : /\ p[i] \in DOMAIN replacements
                                          /\ replacements'[i] = replacements[p[i]]
         /\ \A i, j \in DOMAIN replacements : p[i] = p[j] => i = j
         /\ \A j \in DOMAIN replacements : \E i \in DOMAIN replacements : p[i] = j
<1>1. /\ p \in [DOMAIN replacements -> DOMAIN replacements]
      /\ \A i, j \in DOMAIN replacements : p[i] = p[j] => i = j
      /\ \A j \in DOMAIN replacements : \E i \in DOMAIN replacements : p[i] = j
  BY DEF Bijection, Injection, Surjection, IsInjective
<1>2. DOMAIN replacements = 1 .. Len(replacements) /\ Len(replacements) \in Nat
  BY Elements
<1>3. replacements' \in [1 .. Len(replacements) -> ReplacementType]
  BY <1>1, <1>2, Elements
<1>4. replacements' \in Seq(ReplacementType)
  BY <1>2, <1>3
<1>5. Len(replacements') = Len(replacements)
  BY <1>2, <1>3, <1>4, LenProperties
<1> QED
  BY <1>1, <1>4, <1>5

(* What finish puts out is made of offsets of the source.                  *)
LEMMA PieceTyped ==
  ASSUME TypeOK, NEW to \in Boundaries, NEW order \in Nat, NEW size \in Nat,
         output' = Append(output, Piece(cursor, to, order, size))
  PROVE  /\ output' \in Seq([from : Boundaries, to : Boundaries, order : Nat, size : Nat])
         /\ Len(output) \in Nat /\ DOMAIN output = 1 .. Len(output)
         /\ Len(output') = Len(output) + 1
         /\ \A i \in 1 .. Len(output) : output'[i] = output[i]
         /\ output'[Len(output) + 1] = Piece(cursor, to, order, size)
<1>1. Piece(cursor, to, order, size) \in [from : Boundaries, to : Boundaries, order : Nat, size : Nat]
  BY DEF Piece, TypeOK
<1> QED
  BY <1>1, AppendProperties, LenProperties DEF TypeOK

(* Every step of building and finishing a batch keeps the types.           *)
LEMMA TypeStep == TypeOK /\ [Next]_vars => TypeOK'
<1> SUFFICES ASSUME TypeOK, [Next]_vars PROVE TypeOK'
  OBVIOUS
<1>refuse. ASSUME NEW error \in {"overlap", "boundary", "syntax"}, Refuse(error) PROVE TypeOK'
  BY <1>refuse DEF Refuse, TypeOK, finishing
<1>push. ASSUME NEW start, NEW end, NEW size \in Sizes, ReplaceSourceSpan(start, end, size)
         PROVE  TypeOK'
  <2>1. CASE Sliceable(start, end)
    BY <1>push, <2>1, PushTyped DEF ReplaceSourceSpan
  <2>2. CASE ~Sliceable(start, end)
    BY <1>push, <2>2 DEF ReplaceSourceSpan, vars, finishing, TypeOK
  <2> QED
    BY <2>1, <2>2
<1>1. CASE \E start, end \in 0 .. Length + 1, size \in Sizes : ReplaceSourceSpan(start, end, size)
  BY <1>1, <1>push
<1>2. CASE \E offset \in 0 .. Length + 1, size \in Sizes : InsertSource(offset, size)
  BY <1>2, <1>push DEF InsertSource
<1>3. CASE Sort
  <2>1. PICK p \in Bijection(DOMAIN replacements, DOMAIN replacements) :
          replacements' = [i \in DOMAIN replacements |-> replacements[p[i]]]
    BY <1>3 DEF Sort
  <2>2. replacements' \in Seq(ReplacementType) /\ Len(replacements') = Len(replacements)
    BY <2>1, SortTyped
  <2> QED
    BY <1>3, <2>2 DEF Sort, TypeOK, finishing
<1>4. CASE Validate
  <2>1. next \in DOMAIN replacements
    BY <1>4, Elements DEF Validate
  <2>2. CASE /\ cursor' = replacements[next].end /\ next' = next + 1
             /\ UNCHANGED <<replacements, at, output, err, calls>>
    BY <2>1, <2>2, Elements DEF TypeOK
  <2> QED
    BY <1>4, <2>2, <1>refuse DEF Validate, Resume
<1>5. CASE Validated
  BY <1>5, <1>refuse, Elements DEF Validated, TypeOK
<1>6. CASE SpliceReplacement
  <2> DEFINE r == replacements[next]
  <2>1. next \in DOMAIN replacements
    BY <1>6, Elements DEF SpliceReplacement
  <2>2. CASE /\ output' = Append(output, Piece(cursor, r.start, r.order, r.size))
             /\ cursor' = r.end /\ next' = next + 1
             /\ UNCHANGED <<replacements, at, err, calls>>
    <3>1. output' \in Seq([from : Boundaries, to : Boundaries, order : Nat, size : Nat])
      BY <2>1, <2>2, Elements, PieceTyped
    <3> QED
      BY <2>1, <2>2, <3>1, Elements DEF TypeOK
  <2> QED
    BY <1>6, <2>2, <1>refuse DEF SpliceReplacement, Resume
<1>7. CASE SpliceSuffix
  <2>1. CASE /\ output' = Append(output, Piece(cursor, Length, 0, 0))
             /\ at' = "parsing"
             /\ UNCHANGED <<replacements, next, cursor, err, calls>>
    <3>1. output' \in Seq([from : Boundaries, to : Boundaries, order : Nat, size : Nat])
      BY <2>1, Elements, PieceTyped
    <3> QED
      BY <2>1, <3>1 DEF TypeOK
  <2> QED
    BY <1>7, <2>1, <1>refuse DEF SpliceSuffix
<1>8. CASE Reparse
  BY <1>8, <1>refuse DEF Reparse, TypeOK, finishing
<1>9. CASE UNCHANGED vars
  BY <1>9 DEF vars, finishing, TypeOK
<1> QED
  BY <1>1, <1>2, <1>3, <1>4, <1>5, <1>6, <1>7, <1>8, <1>9 DEF Next

(* LosslessEdit holds values of their types, and every span it stores or   *)
(* cuts the source at is one of characters.                                *)
THEOREM SpliceTypeCorrect == Spec => []TypeOK
<1>1. Init => TypeOK
  BY EmptySeq, SpliceAssumption DEF Init, TypeOK
<1> QED
  BY <1>1, TypeStep, PTL DEF Spec

-----------------------------------------------------------------------------
(* A batch that is still being built holds the calls themselves.           *)
LEMMA PushKeepsInv ==
  ASSUME SpliceInv, NEW start, NEW end, NEW size \in Sizes, Sliceable(start, end),
         at = "editing", PushReplacement(start, end, size)
  PROVE  SpliceInv'
<1> DEFINE n == Len(calls)
           r == Replacement(n + 1, start, end, size)
<1>1. TypeOK /\ replacements = calls /\ Numbered
  BY DEF SpliceInv
<1>2. /\ TypeOK' /\ replacements' = calls' /\ Len(calls') = n + 1
      /\ calls' = Append(calls, r) /\ r \in ReplacementType
  BY <1>1, PushTyped
<1>3. n \in Nat /\ DOMAIN calls = 1 .. n /\ DOMAIN calls' = 1 .. n + 1
  BY <1>1, <1>2, LenProperties DEF TypeOK
<1>4. calls'[n + 1] = r /\ \A i \in 1 .. n : calls'[i] = calls[i]
  BY <1>1, <1>2, <1>3, AppendProperties DEF TypeOK
<1>5. r.order = n + 1 /\ r.start <= r.end
  BY DEF Replacement, Sliceable
<1> HIDE DEF r, n
<1>6. Numbered'
  BY <1>1, <1>3, <1>4, <1>5 DEF Numbered
<1>7. Rearranged'
  BY <1>2, <1>6 DEF Numbered, Rearranged
<1>8. /\ at' = "editing" /\ err' = "none" /\ next' = 1 /\ cursor' = 0 /\ output' = <<>>
  BY DEF SpliceInv, PushReplacement, finishing
<1> QED
  BY <1>2, <1>6, <1>7, <1>8 DEF SpliceInv, Spliced

(* Sorting keeps every call and puts them in the order of their spans.     *)
LEMMA SortKeepsInv == SpliceInv /\ Sort => SpliceInv'
<1> SUFFICES ASSUME SpliceInv, Sort PROVE SpliceInv'
  OBVIOUS
<1>1. TypeOK /\ Numbered /\ Rearranged /\ next = 1 /\ cursor = 0 /\ output = <<>> /\ err = "none"
  BY DEF SpliceInv, Sort
<1>2. PICK p \in Bijection(DOMAIN replacements, DOMAIN replacements) :
        /\ \A i, j \in DOMAIN replacements :
             i < j => Precedes(replacements[p[i]], replacements[p[j]])
        /\ replacements' = [i \in DOMAIN replacements |-> replacements[p[i]]]
  BY DEF Sort
<1>3. /\ Len(replacements') = Len(replacements) /\ DOMAIN replacements' = DOMAIN replacements
      /\ \A i \in DOMAIN replacements : /\ p[i] \in DOMAIN replacements
                                       /\ replacements'[i] = replacements[p[i]]
      /\ \A i, j \in DOMAIN replacements : p[i] = p[j] => i = j
      /\ \A j \in DOMAIN replacements : \E i \in DOMAIN replacements : p[i] = j
  BY <1>1, <1>2, SortTyped
<1>4. at' = "validating" /\ UNCHANGED <<next, cursor, output, err, calls>>
  BY DEF Sort, finishing
<1>5. TypeOK'
  BY <1>1, TypeStep DEF Next
<1>6. Numbered'
  BY <1>1, <1>4 DEF Numbered
<1>7. Rearranged'
  <2>1. \A i \in DOMAIN replacements' :
          /\ replacements'[i].order \in DOMAIN calls'
          /\ replacements'[i] = calls'[replacements'[i].order]
    <3> SUFFICES ASSUME NEW i \in DOMAIN replacements
                 PROVE  /\ replacements'[i].order \in DOMAIN calls
                        /\ replacements'[i] = calls[replacements'[i].order]
      BY <1>3, <1>4
    <3>1. replacements'[i] = replacements[p[i]] /\ p[i] \in DOMAIN replacements
      BY <1>3
    <3> QED
      BY <1>1, <3>1 DEF Rearranged
  <2>2. \A i, j \in DOMAIN replacements' :
          replacements'[i].order = replacements'[j].order => i = j
    <3> SUFFICES ASSUME NEW i \in DOMAIN replacements, NEW j \in DOMAIN replacements,
                        replacements[p[i]].order = replacements[p[j]].order
                 PROVE  i = j
      BY <1>3, ZenonT(60)
    <3>1. p[i] \in DOMAIN replacements /\ p[j] \in DOMAIN replacements
      BY <1>3
    <3>2. p[i] = p[j]
      BY <1>1, <3>1 DEF Rearranged
    <3> QED
      BY <1>3, <3>2
  <2>3. \A k \in DOMAIN calls' : \E i \in DOMAIN replacements' : replacements'[i] = calls'[k]
    <3> SUFFICES ASSUME NEW k \in DOMAIN calls
                 PROVE  \E i \in DOMAIN replacements : replacements'[i] = calls[k]
      BY <1>3, <1>4
    <3>1. PICK j \in DOMAIN replacements : replacements[j] = calls[k]
      BY <1>1 DEF Rearranged
    <3>2. PICK i \in DOMAIN replacements : p[i] = j
      BY <1>3
    <3> QED
      BY <1>3, <3>1, <3>2
  <2> QED
    BY <2>1, <2>2, <2>3 DEF Rearranged
<1>8. Sorted'
  <2> SUFFICES ASSUME NEW i \in DOMAIN replacements, NEW j \in DOMAIN replacements, i < j
               PROVE  Precedes(replacements'[i], replacements'[j])
    BY <1>3 DEF Sorted, Precedes, Lexically
  <2>1. Precedes(replacements[p[i]], replacements[p[j]])
    BY <1>2
  <2> QED
    BY <1>3, <2>1
<1>9. Advanced' /\ ApartUpTo(next - 1)'
  <2>1. Len(replacements) \in Nat /\ DOMAIN replacements' = 1 .. Len(replacements)
    BY <1>1, <1>3, Elements
  <2> QED
    BY <1>1, <1>3, <1>4, <2>1 DEF Advanced, ApartUpTo
<1> QED
  BY <1>1, <1>4, <1>5, <1>6, <1>7, <1>8, <1>9 DEF SpliceInv, Spliced

(* What is refused after sorting is refused for a reason.                  *)
LEMMA RefuseKeepsInv ==
  ASSUME SpliceInv, [Next]_vars, at # "editing", NEW error, Refuse(error),
         error = "overlap" => Conflict, error # "boundary"
  PROVE  SpliceInv'
<1>1. TypeOK'
  BY TypeStep DEF SpliceInv
<1> QED
  BY <1>1 DEF SpliceInv, Refuse, finishing, Spliced, Numbered, Rearranged, Sorted, Precedes,
     Lexically, Conflict, Shares

(* Nothing of the batch changes after it has been sorted.                  *)
LEMMA BatchKept ==
  ASSUME UNCHANGED <<replacements, calls>>, Numbered, Rearranged, Sorted
  PROVE  Numbered' /\ Rearranged' /\ Sorted' /\ (Conflict <=> Conflict')
BY DEF Numbered, Rearranged, Sorted, Precedes, Lexically, Conflict, Shares

(* A validated replacement is apart from all those before it.              *)
LEMMA ValidateKeepsInv == SpliceInv /\ Validate => SpliceInv'
<1> SUFFICES ASSUME SpliceInv, Validate PROVE SpliceInv'
  OBVIOUS
<1> DEFINE r == replacements[next]
<1>1. /\ TypeOK /\ Numbered /\ Rearranged /\ Sorted /\ Advanced /\ ApartUpTo(next - 1)
      /\ output = <<>> /\ err = "none" /\ at = "validating"
  BY DEF SpliceInv, Validate
<1>2. [Next]_vars /\ TypeOK'
  BY <1>1, TypeStep DEF Next
<1>3. next \in DOMAIN replacements
  BY <1>1, Elements DEF Validate
<1>4. CASE r.start < cursor
  <2>1. Refuse("overlap")
    BY <1>4 DEF Validate
  <2>2. Conflict
    BY <1>1, <1>4, StartsBeforeCursor DEF Validate
  <2> QED
    BY <1>1, <1>2, <2>1, <2>2, RefuseKeepsInv
<1>5. CASE ~(r.start < cursor)
  <2>1. cursor <= r.start
    BY <1>1, <1>3, <1>5, Elements
  <2>2. Sliceable(cursor, r.start)
    BY <1>1, <1>3, <2>1, Elements DEF Sliceable
  <2>3. /\ cursor' = r.end /\ next' = next + 1
        /\ UNCHANGED <<replacements, at, output, err, calls>>
    BY <1>5, <2>2 DEF Validate, Resume
  <2>4. Advanced'
    BY <1>1, <1>3, <2>3, Elements DEF Advanced
  <2>5. ApartUpTo(next - 1)'
    <3> SUFFICES ASSUME NEW i \in DOMAIN replacements, NEW j \in DOMAIN replacements,
                        i < j, j <= next
                 PROVE  replacements[i].end <= replacements[j].start
      BY <1>1, <2>3, Elements DEF ApartUpTo
    <3>1. CASE j < next
      BY <1>1, <3>1, Elements, SMTT(30) DEF ApartUpTo
    <3>2. CASE j = next
      <4>1. replacements[i].end <= cursor
        BY <1>1, <3>2, EndsBehind
      <4> QED
        BY <1>1, <2>1, <3>2, <4>1, Elements
    <3> QED
      BY <1>1, <3>1, <3>2, Elements
  <2>6. Numbered' /\ Rearranged' /\ Sorted'
    BY <1>1, <2>3, BatchKept
  <2> QED
    BY <1>1, <1>2, <2>3, <2>4, <2>5, <2>6 DEF SpliceInv, Spliced
<1> QED
  BY <1>4, <1>5

(* The end of the loop: no two replacements overlap.                       *)
LEMMA ValidatedKeepsInv == SpliceInv /\ Validated => SpliceInv'
<1> SUFFICES ASSUME SpliceInv, Validated PROVE SpliceInv'
  OBVIOUS
<1>1. /\ TypeOK /\ Numbered /\ Rearranged /\ Sorted /\ Advanced /\ ApartUpTo(next - 1)
      /\ output = <<>> /\ err = "none" /\ at = "validating" /\ next > Len(replacements)
  BY DEF SpliceInv, Validated
<1>2. [Next]_vars /\ TypeOK'
  BY <1>1, TypeStep DEF Next
<1>3. Sliceable(cursor, Length)
  BY <1>1, Elements DEF Sliceable
<1>4. /\ at' = "splicing" /\ next' = 1 /\ cursor' = 0
      /\ UNCHANGED <<replacements, output, err, calls>>
  BY <1>3 DEF Validated
<1>5. Numbered' /\ Rearranged' /\ Sorted'
  BY <1>1, <1>4, BatchKept
<1>6. ApartUpTo(Count)'
  BY <1>1, <1>4, Elements DEF ApartUpTo, Advanced, Count
<1>7. Advanced' /\ Len(output') = next' - 1 /\ PutOutUpTo(next - 1)'
  BY <1>1, <1>4, Elements, EmptySeq DEF Advanced, PutOutUpTo
<1> QED
  BY <1>1, <1>2, <1>4, <1>5, <1>6, <1>7 DEF SpliceInv, Spliced

(* Source up to a replacement and then the replacement.                    *)
LEMMA SpliceKeepsInv == SpliceInv /\ SpliceReplacement => SpliceInv'
<1> SUFFICES ASSUME SpliceInv, SpliceReplacement PROVE SpliceInv'
  OBVIOUS
<1> DEFINE r == replacements[next]
<1>1. /\ TypeOK /\ Numbered /\ Rearranged /\ Sorted /\ Advanced /\ ApartUpTo(Count)
      /\ Len(output) = next - 1 /\ PutOutUpTo(next - 1)
      /\ err = "none" /\ at = "splicing"
  BY DEF SpliceInv, SpliceReplacement
<1>2. [Next]_vars /\ TypeOK'
  BY <1>1, TypeStep DEF Next
<1>3. next \in DOMAIN replacements
  BY <1>1, Elements DEF SpliceReplacement
<1>4. cursor <= r.start
  <2>1. CASE next = 1
    BY <1>1, <1>3, <2>1, Elements DEF Advanced
  <2>2. CASE next # 1
    <3>1. next - 1 \in DOMAIN replacements /\ next - 1 < next /\ next <= Count
      BY <1>1, <1>3, <2>2, Elements DEF Count
    <3>2. replacements[next - 1].end <= r.start
      BY <1>1, <1>3, <3>1 DEF ApartUpTo
    <3> QED
      BY <1>1, <2>2, <3>2 DEF Advanced
  <2> QED
    BY <2>1, <2>2
<1>5. Sliceable(cursor, r.start)
  BY <1>1, <1>3, <1>4, Elements DEF Sliceable
<1>6. /\ output' = Append(output, Piece(cursor, r.start, r.order, r.size))
      /\ cursor' = r.end /\ next' = next + 1
      /\ UNCHANGED <<replacements, at, err, calls>>
  BY <1>5 DEF SpliceReplacement, Resume
<1>7. /\ Len(output') = next
      /\ \A i \in 1 .. next - 1 : output'[i] = output[i]
      /\ output'[next] = Piece(cursor, r.start, r.order, r.size)
  BY <1>1, <1>3, <1>6, Elements, PieceTyped
<1>8. Numbered' /\ Rearranged' /\ Sorted' /\ ApartUpTo(Count)'
  BY <1>1, <1>6, BatchKept DEF ApartUpTo, Count
<1>9. Advanced'
  BY <1>1, <1>3, <1>6, Elements DEF Advanced
<1>10. PutOutUpTo(next - 1)'
  <2> SUFFICES ASSUME NEW i \in DOMAIN replacements, i <= next
               PROVE  output'[i] =
                        Piece(IF i = 1 THEN 0 ELSE replacements[i - 1].end,
                              replacements[i].start, replacements[i].order, replacements[i].size)
    BY <1>1, <1>6, Elements DEF PutOutUpTo
  <2>1. CASE i = next
    BY <1>1, <1>7, <2>1 DEF Advanced
  <2>2. CASE i < next
    BY <1>1, <1>7, <2>2, Elements DEF PutOutUpTo
  <2> QED
    BY <1>1, <2>1, <2>2, Elements
<1>11. Len(output') = next' - 1
  BY <1>1, <1>6, <1>7, Elements
<1> QED
  BY <1>1, <1>2, <1>6, <1>8, <1>9, <1>10, <1>11 DEF SpliceInv, Spliced

(* The source behind the last replacement.                                 *)
LEMMA SuffixKeepsInv == SpliceInv /\ SpliceSuffix => SpliceInv'
<1> SUFFICES ASSUME SpliceInv, SpliceSuffix PROVE SpliceInv'
  OBVIOUS
<1>1. /\ TypeOK /\ Numbered /\ Rearranged /\ Sorted /\ Advanced /\ ApartUpTo(Count)
      /\ Len(output) = next - 1 /\ PutOutUpTo(next - 1)
      /\ err = "none" /\ at = "splicing" /\ next > Len(replacements)
  BY DEF SpliceInv, SpliceSuffix
<1>2. [Next]_vars /\ TypeOK'
  BY <1>1, TypeStep DEF Next
<1>3. Sliceable(cursor, Length)
  BY <1>1, Elements DEF Sliceable
<1>4. /\ output' = Append(output, Piece(cursor, Length, 0, 0)) /\ at' = "parsing"
      /\ UNCHANGED <<replacements, next, cursor, err, calls>>
  BY <1>3 DEF SpliceSuffix
<1>5. /\ Count \in Nat /\ next = Count + 1 /\ DOMAIN replacements = 1 .. Count
      /\ cursor = IF Count = 0 THEN 0 ELSE replacements[Count].end
  BY <1>1, Elements DEF Count, Advanced
<1>6. /\ Len(output') = Count + 1
      /\ \A i \in 1 .. Count : output'[i] = output[i]
      /\ output'[Count + 1] = Piece(cursor, Length, 0, 0)
  BY <1>1, <1>4, <1>5, Elements, PieceTyped
<1>7. Numbered' /\ Rearranged' /\ Sorted' /\ ApartUpTo(Count)'
  BY <1>1, <1>4, BatchKept DEF ApartUpTo, Count
<1>8. PutOutUpTo(Count)'
  BY <1>1, <1>4, <1>5, <1>6 DEF PutOutUpTo, Count
<1> QED
  BY <1>1, <1>2, <1>4, <1>5, <1>6, <1>7, <1>8 DEF SpliceInv, Spliced, Count

(* The whole of the batch, from the first call to the parsed result.       *)
LEMMA InvInit == Init => SpliceInv
<1> SUFFICES ASSUME Init PROVE SpliceInv
  OBVIOUS
<1>1. TypeOK
  BY EmptySeq, SpliceAssumption DEF Init, TypeOK
<1>2. DOMAIN replacements = {} /\ DOMAIN calls = {}
  BY DEF Init
<1> QED
  BY <1>1, <1>2 DEF Init, SpliceInv, Numbered, Rearranged, Spliced

(* Every step of building and finishing a batch keeps the invariant.       *)
LEMMA InvStep == SpliceInv /\ [Next]_vars => SpliceInv'
<1> SUFFICES ASSUME SpliceInv, [Next]_vars PROVE SpliceInv'
  OBVIOUS
<1>same. ASSUME UNCHANGED vars PROVE SpliceInv'
  BY <1>same, SMTT(30) DEF vars, finishing, SpliceInv, TypeOK, Numbered, Rearranged, Sorted, Precedes,
     Lexically, ApartUpTo, Advanced, PutOutUpTo, Count, Spliced, Conflict, Shares
<1>push. ASSUME NEW start, NEW end, NEW size \in Sizes, ReplaceSourceSpan(start, end, size)
         PROVE  SpliceInv'
  BY <1>push, <1>same, PushKeepsInv DEF ReplaceSourceSpan
<1>1. CASE \E start, end \in 0 .. Length + 1, size \in Sizes : ReplaceSourceSpan(start, end, size)
  BY <1>1, <1>push
<1>2. CASE \E offset \in 0 .. Length + 1, size \in Sizes : InsertSource(offset, size)
  BY <1>2, <1>push DEF InsertSource
<1>3. CASE Reparse
  <2>1. CASE Refuse("syntax")
    BY <1>3, <2>1, RefuseKeepsInv DEF Reparse
  <2>2. CASE at' = "done" /\ UNCHANGED <<replacements, finishing, err, calls>>
    <3>1. TypeOK' /\ at = "parsing"
      BY <1>3, TypeStep DEF SpliceInv, Reparse
    <3>2. Numbered' /\ Rearranged' /\ Sorted'
      BY <2>2, <3>1, BatchKept DEF SpliceInv
    <3>3. ApartUpTo(Count)' /\ PutOutUpTo(Count)' /\ (Conflict <=> Conflict')
      BY <2>2, <3>1 DEF SpliceInv, Spliced, ApartUpTo, PutOutUpTo, Count, Conflict, Shares, finishing
    <3> QED
      BY <2>2, <3>1, <3>2, <3>3 DEF SpliceInv, Spliced, Count, finishing
  <2> QED
    BY <1>3, <2>1, <2>2 DEF Reparse
<1> QED
  BY <1>1, <1>2, <1>3, <1>same, SortKeepsInv, ValidateKeepsInv, ValidatedKeepsInv,
     SpliceKeepsInv, SuffixKeepsInv DEF Next

(* The invariant holds throughout.                                         *)
LEMMA InvAlways == Spec => []SpliceInv
BY InvInit, InvStep, PTL DEF Spec

-----------------------------------------------------------------------------
(* validate_replacements refuses a batch exactly when two of its spans     *)
(* share a byte or one inserts inside another, for any calls in any order. *)
THEOREM RefusedExactlyOnConflict == Spec => []BatchRefusedExactly
<1>1. SpliceInv => BatchRefusedExactly
  <2> SUFFICES ASSUME SpliceInv PROVE BatchRefusedExactly
    OBVIOUS
  <2>1. at \in {"splicing", "parsing", "done"} => ~Conflict
    BY ApartMeansNoConflict DEF SpliceInv
  <2> QED
    BY <2>1 DEF SpliceInv, BatchRefusedExactly
<1> QED
  BY <1>1, InvAlways, PTL

(* What was put out, in terms of the calls.                                *)
LEMMA PutOutCalls ==
  ASSUME SpliceInv, Spliced
  PROVE  /\ Count \in Nat /\ DOMAIN calls = 1 .. Count /\ DOMAIN replacements = 1 .. Count
         /\ \A i \in 1 .. Count :
              /\ output[i].order = replacements[i].order /\ output[i].to = replacements[i].start
              /\ output[i].from = IF i = 1 THEN 0 ELSE replacements[i - 1].end
              /\ replacements[i].order \in DOMAIN calls
              /\ calls[output[i].order] = replacements[i]
<1>1. TypeOK /\ Rearranged /\ PutOutUpTo(Count)
  BY DEF SpliceInv
<1>2. /\ Count \in Nat /\ DOMAIN calls = 1 .. Count /\ DOMAIN replacements = 1 .. Count
  BY <1>1, Elements DEF Count
<1>3. \A i \in 1 .. Count :
        output[i] = Piece(IF i = 1 THEN 0 ELSE replacements[i - 1].end,
                          replacements[i].start, replacements[i].order, replacements[i].size)
  BY <1>1, <1>2 DEF PutOutUpTo
<1>4. \A i \in 1 .. Count :
        /\ output[i].order = replacements[i].order /\ output[i].to = replacements[i].start
        /\ output[i].from = IF i = 1 THEN 0 ELSE replacements[i - 1].end
  <2> TAKE i \in 1 .. Count
  <2> DEFINE from == IF i = 1 THEN 0 ELSE replacements[i - 1].end
  <2>1. output[i] = Piece(from, replacements[i].start, replacements[i].order, replacements[i].size)
    BY <1>3
  <2> HIDE DEF from
  <2>2. /\ output[i].order = replacements[i].order /\ output[i].to = replacements[i].start
        /\ output[i].from = from
    BY <2>1 DEF Piece
  <2> QED
    BY <2>2 DEF from
<1> QED
  BY <1>1, <1>2, <1>4 DEF Rearranged

(* finish puts out the source from start to end: every byte outside the    *)
(* spans of the calls once and in its order, every span's replacement once.*)
THEOREM SourceKept == Spec => []UntouchedSourceKept
<1>1. SpliceInv => UntouchedSourceKept
  <2> SUFFICES ASSUME SpliceInv, Spliced
               PROVE  /\ Len(output) = Len(calls) + 1
                      /\ output[1].from = 0
                      /\ output[Len(output)].to = Length /\ output[Len(output)].order = 0
                      /\ \A i \in DOMAIN calls :
                           /\ output[i].order \in DOMAIN calls
                           /\ output[i].to = calls[output[i].order].start
                           /\ output[i + 1].from = calls[output[i].order].end
                      /\ \A i, j \in DOMAIN calls : output[i].order = output[j].order => i = j
    BY DEF UntouchedSourceKept
  <2>1. /\ Len(output) = Count + 1 /\ Len(calls) = Count
        /\ output[Count + 1] = Piece(IF Count = 0 THEN 0 ELSE replacements[Count].end, Length, 0, 0)
    BY DEF SpliceInv, TypeOK, Count
  <2>2. /\ output[Count + 1].from = IF Count = 0 THEN 0 ELSE replacements[Count].end
        /\ output[Count + 1].to = Length /\ output[Count + 1].order = 0
    BY <2>1 DEF Piece
  <2>3. output[1].from = 0
    BY <2>2, PutOutCalls
  <2>4. \A i \in DOMAIN calls : output[i + 1].from = calls[output[i].order].end
    <3> SUFFICES ASSUME NEW i \in 1 .. Count
                 PROVE  output[i + 1].from = replacements[i].end
      BY PutOutCalls
    <3>1. CASE i = Count
      BY <2>2, <3>1, PutOutCalls
    <3>2. CASE i # Count
      <4>1. i + 1 \in 1 .. Count /\ i + 1 # 1 /\ (i + 1) - 1 = i
        BY <3>2, PutOutCalls
      <4> QED
        BY <4>1, PutOutCalls
    <3> QED
      BY <3>1, <3>2
  <2>5. \A i \in DOMAIN calls : /\ output[i].order \in DOMAIN calls
                               /\ output[i].to = calls[output[i].order].start
    BY PutOutCalls
  <2>6. \A i, j \in DOMAIN calls : output[i].order = output[j].order => i = j
    BY PutOutCalls DEF SpliceInv, Rearranged
  <2> QED
    BY <2>1, <2>2, <2>3, <2>4, <2>5, <2>6
<1> QED
  BY <1>1, InvAlways, PTL

(* Insertions at one offset appear in the order they were called in, and   *)
(* before a replacement that starts there.                                 *)
THEOREM InsertionsInCallOrder == Spec => []CallOrderKept
<1>1. SpliceInv => CallOrderKept
  <2> SUFFICES ASSUME SpliceInv, Spliced, NEW i \in DOMAIN calls, NEW j \in DOMAIN calls,
                      calls[output[i].order].start = calls[output[j].order].start,
                      calls[output[i].order].start = calls[output[i].order].end,
                      \/ calls[output[j].order].start # calls[output[j].order].end
                      \/ calls[output[i].order].order < calls[output[j].order].order
               PROVE  i < j \/ i = j
    BY DEF CallOrderKept
  <2> DEFINE r == replacements[i]
             s == replacements[j]
  <2>1. /\ i \in DOMAIN replacements /\ j \in DOMAIN replacements /\ i \in Nat /\ j \in Nat
        /\ calls[output[i].order] = r /\ calls[output[j].order] = s
    BY PutOutCalls
  <2>2. /\ r.start = s.start /\ r.start = r.end
        /\ s.start # s.end \/ r.order < s.order
    BY <2>1
  <2>3. /\ r.start \in Nat /\ r.end \in Nat /\ s.start \in Nat /\ s.end \in Nat
        /\ r.order \in Nat /\ s.order \in Nat
    BY <2>1, Elements, SMTT(30) DEF SpliceInv
  <2>4. s.start <= s.end
    BY <2>1, Ordered DEF SpliceInv
  <2>5. ~(j < i)
    <3> SUFFICES ASSUME j < i PROVE FALSE
      OBVIOUS
    <3>1. Precedes(s, r)
      BY <2>1 DEF SpliceInv, Sorted, Spliced
    <3> HIDE DEF r, s
    <3> QED
      BY <2>2, <2>3, <2>4, <3>1 DEF Precedes, Lexically
  <2> QED
    BY <2>1, <2>5
<1> QED
  BY <1>1, InvAlways, PTL
=============================================================================
