------------------------- MODULE DuplicateKeysProofs -------------------------
(***************************************************************************)
(* The tracker of duplicate keys implements the abstract check: the array  *)
(* and the hash map together are one function from keys to the positions   *)
(* of their first occurrences, for any number of keys and any array size.  *)
(***************************************************************************)
EXTENDS DuplicateKeys, TLAPS

(* What is known of the log of reports. *)
LogOK == reported \in Seq(Keys) /\ Len(reported) <= MaxKeys

(* A new key is remembered at a position. *)
AcceptedAt(k, at) ==
  /\ k \notin DOMAIN Contents
  /\ Contents' = [x \in DOMAIN Contents \union {k} |-> IF x = k THEN at ELSE Contents[x]]
  /\ UNCHANGED verdict

(* No key is in the array twice, and an array that was given up is empty.  *)
(* Both are needed for the array to be a function from keys to positions.  *)
TrackerInv ==
  /\ TrackerTypeOK
  /\ \A i, j \in DOMAIN inline : inline[i].key = inline[j].key => i = j
  /\ spilled => inline = <<>>

(* The elements of a sequence over a set are elements of the set.          *)
LEMMA ElementsOfSeq ==
  ASSUME NEW S, NEW s \in Seq(S)
  PROVE  \A i \in DOMAIN s : s[i] \in S
OBVIOUS

(* The array as a function: the position it gives for the key of a slot is *)
(* that of the slot.                                                       *)
MovedFacts ==
  /\ DOMAIN Moved = InlineKeys
  /\ InlineKeys \subseteq Keys
  /\ \A i \in DOMAIN inline : Moved[inline[i].key] = inline[i].span
  /\ Moved \in [InlineKeys -> 1 .. MaxKeys]

(* Every slot of the array is a key of the moved map, with its own         *)
(* position.                                                               *)
LEMMA MovedIsInline == TrackerInv => MovedFacts
<1> SUFFICES ASSUME TrackerInv PROVE MovedFacts
  OBVIOUS
<1>1. \A i \in DOMAIN inline : InlineSpan(inline[i].key) = inline[i].span
  <2>1. TAKE i \in DOMAIN inline
  <2>2. \A j \in DOMAIN inline : inline[j].key = inline[i].key => j = i
    BY DEF TrackerInv
  <2>3. (CHOOSE j \in DOMAIN inline : inline[j].key = inline[i].key) = i
    BY <2>1, <2>2
  <2>4. QED
    BY <2>3 DEF InlineSpan
<1>2. \A i \in DOMAIN inline : inline[i].key \in Keys /\ inline[i].span \in 1 .. MaxKeys
  <2>1. inline \in Seq([key : Keys, span : 1 .. MaxKeys])
    BY DEF TrackerInv, TrackerTypeOK
  <2>2. \A i \in DOMAIN inline : inline[i] \in [key : Keys, span : 1 .. MaxKeys]
    BY <2>1, ElementsOfSeq
  <2>3. QED
    BY <2>2
<1>3. \A k \in InlineKeys : InlineSpan(k) \in 1 .. MaxKeys
  BY <1>1, <1>2 DEF InlineKeys
<1>4. QED
  BY <1>1, <1>2, <1>3 DEF MovedFacts, Moved, InlineKeys

(* What the hash map does to the seen keys: it accepts or it refuses.      *)
LEMMA HashMapStep ==
  ASSUME NEW ks \in SUBSET Keys, NEW map \in [ks -> 1 .. MaxKeys], verdict \in 0 .. MaxKeys,
         NEW k \in Keys, NEW at \in 1 .. MaxKeys,
         InsertIntoHashmap(map, k, at)
  PROVE  /\ \E ls \in SUBSET Keys : overflow' \in [ls -> 1 .. MaxKeys]
         /\ verdict' \in 0 .. MaxKeys
         /\ \/ /\ k \notin DOMAIN map /\ UNCHANGED verdict
               /\ overflow' = [x \in DOMAIN map \union {k} |-> IF x = k THEN at ELSE map[x]]
            \/ /\ k \in DOMAIN map /\ verdict' = map[k] /\ overflow' = map
<1>1. CASE k \in DOMAIN map
  BY <1>1 DEF InsertIntoHashmap
<1>2. CASE k \notin DOMAIN map
  <2>1. overflow' = [x \in ks \union {k} |-> IF x = k THEN at ELSE map[x]] /\ verdict' = verdict
    BY <1>2 DEF InsertIntoHashmap, With
  <2>2. overflow' \in [ks \union {k} -> 1 .. MaxKeys]
    BY <2>1
  <2>3. ks \union {k} \in SUBSET Keys
    OBVIOUS
  <2>4. QED
    BY <1>2, <2>1, <2>2, <2>3
<1>3. QED
  BY <1>1, <1>2

(* The invariant holds initially and every report and every new mapping    *)
(* keeps it.                                                               *)
LEMMA TrackerInvInit == InitTracker => TrackerInv
<1>1. SUFFICES ASSUME InitTracker PROVE TrackerInv
  OBVIOUS
<1>2. MaxKeys \in Nat /\ InlineLimit \in Nat
  BY DuplicateKeysAssumption
<1>3. overflow \in [{} -> 1 .. MaxKeys]
  BY <1>1 DEF InitTracker, Empty
<1>4. \E ks \in SUBSET Keys : overflow \in [ks -> 1 .. MaxKeys]
  BY <1>3
<1>5. inline = <<>> /\ DOMAIN inline = {} /\ Len(inline) = 0
  BY <1>1 DEF InitTracker
<1>6. inline \in Seq([key : Keys, span : 1 .. MaxKeys]) /\ Len(inline) <= InlineLimit
  BY <1>2, <1>5
<1>7. spilled \in BOOLEAN
  BY <1>1 DEF InitTracker
<1>8. verdict \in 0 .. MaxKeys /\ reported \in Seq(Keys) /\ Len(reported) <= MaxKeys
  BY <1>1, <1>2 DEF InitTracker
<1>9. TrackerTypeOK
  BY <1>4, <1>6, <1>7, <1>8 DEF TrackerTypeOK
<1>10. QED
  BY <1>1, <1>5, <1>9 DEF TrackerInv, InitTracker

(* A new key with room in the array takes the next slot.                  *)
LEMMA InsertInlineStep ==
  ASSUME TrackerInv, NEW k \in Keys, NEW at \in 1 .. MaxKeys, InsertInline(k, at),
         LogOK'
  PROVE  /\ TrackerInv'
         /\ k \notin DOMAIN Contents
         /\ Contents' = [x \in DOMAIN Contents \union {k} |-> IF x = k THEN at ELSE Contents[x]]
<1> DEFINE n == Len(inline)
<1>1. /\ inline \in Seq([key : Keys, span : 1 .. MaxKeys]) /\ n \in Nat
      /\ n <= InlineLimit /\ ~(n >= InlineLimit) /\ InlineLimit \in Nat
      /\ DOMAIN inline = 1 .. n
  BY DuplicateKeysAssumption DEF TrackerInv, TrackerTypeOK, InsertInline, Full
<1>2. Slot(k, at) \in [key : Keys, span : 1 .. MaxKeys]
  BY DEF Slot
<1>3. inline' = Append(inline, Slot(k, at)) /\ UNCHANGED <<spilled, overflow, verdict>> /\ ~spilled
  BY DEF InsertInline
<1>4. /\ inline' \in Seq([key : Keys, span : 1 .. MaxKeys]) /\ Len(inline') = n + 1
      /\ DOMAIN inline' = 1 .. n + 1
      /\ \A i \in 1 .. n : inline'[i] = inline[i]
      /\ inline'[n + 1] = Slot(k, at)
  BY <1>1, <1>2, <1>3
<1>5. Slot(k, at).key = k /\ Slot(k, at).span = at
  BY DEF Slot
<1>6. \A i \in 1 .. n : inline[i].key # k
  BY <1>1 DEF InsertInline, InlineKeys
<1>7. TrackerTypeOK'
  BY <1>1, <1>3, <1>4 DEF TrackerInv, TrackerTypeOK, LogOK
<1>8. \A i, j \in DOMAIN inline' : inline'[i].key = inline'[j].key => i = j
  <2>1. SUFFICES ASSUME NEW i \in 1 .. n + 1, NEW j \in 1 .. n + 1, inline'[i].key = inline'[j].key
                 PROVE  i = j
    BY <1>4
  <2>2. CASE i \in 1 .. n /\ j \in 1 .. n
    BY <2>1, <2>2, <1>1, <1>4 DEF TrackerInv
  <2>3. CASE i \in 1 .. n /\ j = n + 1
    BY <2>1, <2>3, <1>4, <1>5, <1>6
  <2>4. CASE i = n + 1 /\ j \in 1 .. n
    BY <2>1, <2>4, <1>4, <1>5, <1>6
  <2>5. QED
    BY <2>2, <2>3, <2>4, <1>1
<1>9. TrackerInv'
  BY <1>3, <1>7, <1>8 DEF TrackerInv
<1>10. MovedFacts'
  <2>1. TrackerInv' => MovedFacts'
    BY MovedIsInline, PTL
  <2>2. QED
    BY <1>9, <2>1
<1>11. Contents = Moved /\ Contents' = Moved'
  BY <1>3 DEF Contents
<1>12. InlineKeys' = InlineKeys \union {k}
  <2>1. InlineKeys' = {inline'[i].key : i \in 1 .. n + 1}
    BY <1>4 DEF InlineKeys
  <2>2. InlineKeys = {inline[i].key : i \in 1 .. n}
    BY <1>1 DEF InlineKeys
  <2>3. inline'[n + 1].key = k
    BY <1>4, <1>5
  <2>4. ASSUME NEW x \in InlineKeys' PROVE x \in InlineKeys \union {k}
    <3>1. PICK i \in 1 .. n + 1 : x = inline'[i].key
      BY <2>1, <2>4
    <3>2. CASE i = n + 1
      BY <2>3, <3>1, <3>2
    <3>3. CASE i \in 1 .. n
      BY <1>4, <2>2, <3>1, <3>3
    <3>4. QED
      BY <1>1, <3>2, <3>3
  <2>5. ASSUME NEW x \in InlineKeys PROVE x \in InlineKeys'
    <3>1. PICK i \in 1 .. n : x = inline[i].key
      BY <2>2, <2>5
    <3>2. inline'[i].key = x /\ i \in 1 .. n + 1
      BY <1>1, <1>4, <3>1
    <3>3. QED
      BY <2>1, <3>2
  <2>6. k \in InlineKeys'
    <3>1. n + 1 \in 1 .. n + 1
      BY <1>1
    <3>2. QED
      BY <2>1, <2>3, <3>1
  <2>7. QED
    BY <2>4, <2>5, <2>6
<1>13. Moved'[k] = at
  BY <1>1, <1>4, <1>5, <1>10, SMTT(30) DEF MovedFacts
<1>14. \A x \in InlineKeys : Moved'[x] = Moved[x]
  <2>1. MovedFacts
    BY MovedIsInline
  <2>2. SUFFICES ASSUME NEW i \in 1 .. n PROVE Moved'[inline[i].key] = Moved[inline[i].key]
    BY <1>1 DEF InlineKeys
  <2>3. Moved[inline[i].key] = inline[i].span
    BY <1>1, <2>1 DEF MovedFacts
  <2>4. inline'[i] = inline[i] /\ i \in DOMAIN inline'
    BY <1>1, <1>4
  <2>5. Moved'[inline'[i].key] = inline'[i].span
    BY <1>10, <2>4 DEF MovedFacts
  <2>6. QED
    BY <2>3, <2>4, <2>5
<1>15. k \notin DOMAIN Contents
  BY <1>11, MovedIsInline DEF InsertInline, MovedFacts
<1>16. Moved' = [x \in InlineKeys \union {k} |-> IF x = k THEN at ELSE Moved[x]]
  BY <1>10, <1>12, <1>13, <1>14 DEF MovedFacts
<1>17. QED
  BY <1>9, <1>11, <1>15, <1>16, MovedIsInline DEF MovedFacts

(* A report to the hash map.                                               *)
LEMMA InsertSpilledStep ==
  ASSUME TrackerInv, NEW k \in Keys, NEW at \in 1 .. MaxKeys, InsertSpilled(k, at),
         LogOK'
  PROVE  /\ TrackerInv'
         /\ AcceptedAt(k, at) \/ Abstract!Refuse(k)
<1>1. PICK ks \in SUBSET Keys : overflow \in [ks -> 1 .. MaxKeys]
  BY DEF TrackerInv, TrackerTypeOK
<1>2. InsertIntoHashmap(overflow, k, at) /\ UNCHANGED <<inline, spilled>> /\ spilled
  BY DEF InsertSpilled
<1>3. verdict \in 0 .. MaxKeys
  BY DEF TrackerInv, TrackerTypeOK
<1>4. /\ \E ls \in SUBSET Keys : overflow' \in [ls -> 1 .. MaxKeys]
      /\ verdict' \in 0 .. MaxKeys
      /\ \/ /\ k \notin DOMAIN overflow /\ UNCHANGED verdict
            /\ overflow' = [x \in DOMAIN overflow \union {k} |-> IF x = k THEN at ELSE overflow[x]]
         \/ /\ k \in DOMAIN overflow /\ verdict' = overflow[k] /\ overflow' = overflow
  BY <1>1, <1>2, <1>3, HashMapStep
<1>5. Contents = overflow /\ Contents' = overflow'
  BY <1>2 DEF Contents
<1>6. TrackerInv'
  BY <1>2, <1>4 DEF TrackerInv, TrackerTypeOK, LogOK
<1>7. QED
  BY <1>4, <1>5, <1>6 DEF AcceptedAt, Abstract!Refuse

(* The array is full: its keys move to the hash map with the new one.      *)
LEMMA SpillStep ==
  ASSUME TrackerInv, NEW k \in Keys, NEW at \in 1 .. MaxKeys, Spill(k, at),
         LogOK'
  PROVE  /\ TrackerInv'
         /\ AcceptedAt(k, at)
<1>1. MovedFacts
  BY MovedIsInline
<1>2. /\ ~spilled /\ k \notin InlineKeys /\ InsertIntoHashmap(Moved, k, at)
      /\ inline' = <<>> /\ spilled' = TRUE
  BY DEF Spill
<1>3. verdict \in 0 .. MaxKeys /\ InlineLimit \in Nat
  BY DuplicateKeysAssumption DEF TrackerInv, TrackerTypeOK
<1>4. InlineKeys \in SUBSET Keys /\ Moved \in [InlineKeys -> 1 .. MaxKeys] /\ DOMAIN Moved = InlineKeys
  BY <1>1 DEF MovedFacts
<1>5. /\ \E ls \in SUBSET Keys : overflow' \in [ls -> 1 .. MaxKeys]
      /\ verdict' \in 0 .. MaxKeys
      /\ \/ /\ k \notin DOMAIN Moved /\ UNCHANGED verdict
            /\ overflow' = [x \in DOMAIN Moved \union {k} |-> IF x = k THEN at ELSE Moved[x]]
         \/ /\ k \in DOMAIN Moved /\ verdict' = Moved[k] /\ overflow' = Moved
  <2>1. ASSUME NEW map \in [InlineKeys -> 1 .. MaxKeys], InsertIntoHashmap(map, k, at)
        PROVE  /\ \E ls \in SUBSET Keys : overflow' \in [ls -> 1 .. MaxKeys]
               /\ verdict' \in 0 .. MaxKeys
               /\ \/ /\ k \notin DOMAIN map /\ UNCHANGED verdict
                     /\ overflow' = [x \in DOMAIN map \union {k} |-> IF x = k THEN at ELSE map[x]]
                  \/ /\ k \in DOMAIN map /\ verdict' = map[k] /\ overflow' = map
    BY <2>1, <1>3, <1>4, HashMapStep
  <2>2. QED
    BY <1>2, <1>4, <2>1
<1>6. Contents = Moved /\ Contents' = overflow'
  BY <1>2 DEF Contents
<1>7. DOMAIN inline' = {} /\ Len(inline') = 0 /\ inline' \in Seq([key : Keys, span : 1 .. MaxKeys])
  BY <1>2
<1>8. TrackerTypeOK'
  BY <1>2, <1>3, <1>5, <1>7 DEF TrackerTypeOK, LogOK
<1>9. TrackerInv'
  BY <1>2, <1>7, <1>8 DEF TrackerInv
<1>10. QED
  BY <1>2, <1>4, <1>5, <1>6, <1>9 DEF AcceptedAt

(* A key found in the array is refused with the position of its slot.      *)
LEMMA FoundInlineStep ==
  ASSUME TrackerInv, NEW k \in Keys, FoundInline(k), LogOK'
  PROVE  /\ TrackerInv'
         /\ Abstract!Refuse(k)
<1>1. MovedFacts
  BY MovedIsInline
<1>2. ~spilled /\ k \in InlineKeys /\ verdict' = InlineSpan(k) /\ UNCHANGED <<inline, spilled, overflow>>
  BY DEF FoundInline
<1>3. Moved[k] = InlineSpan(k) /\ k \in DOMAIN Moved /\ Moved[k] \in 1 .. MaxKeys
  BY <1>1, <1>2 DEF Moved, MovedFacts
<1>4. Contents = Moved /\ Contents' = Moved'
  BY <1>2 DEF Contents
<1>5. Moved' = Moved
  BY <1>2 DEF Moved, InlineKeys, InlineSpan
<1>6. verdict' \in 0 .. MaxKeys
  BY <1>2, <1>3
<1>7. TrackerInv'
  BY <1>2, <1>6 DEF TrackerInv, TrackerTypeOK, LogOK
<1>8. QED
  BY <1>2, <1>3, <1>4, <1>5, <1>7 DEF Abstract!Refuse

(* The next mapping starts with an empty array.                            *)
LEMMA FreshStep ==
  ASSUME TrackerInv, Fresh
  PROVE  TrackerInv' /\ Abstract!Forget
<1>1. InitTracker'
  BY DEF Fresh, InitTracker
<1>2. InitTracker' => TrackerInv'
  BY TrackerInvInit, PTL
<1>3. Contents' = Abstract!Empty
  <2>1. inline' = <<>> /\ ~spilled' /\ DOMAIN inline' = {}
    BY DEF Fresh
  <2>2. InlineKeys' = {}
    BY <2>1 DEF InlineKeys
  <2>3. QED
    BY <2>1, <2>2 DEF Contents, Moved, Abstract!Empty
<1>4. verdict' = verdict /\ verdict = 0 /\ reported' = <<>>
  BY DEF Fresh
<1>5. QED
  BY <1>1, <1>2, <1>3, <1>4 DEF Abstract!Forget

(* A report: the log grows by the key, and the key is accepted or refused. *)
LEMMA InsertStep ==
  ASSUME TrackerInv, NEW k \in Keys, Insert(k)
  PROVE  TrackerInv' /\ Abstract!Report(k)
<1> DEFINE at == Len(reported) + 1
<1>1. /\ reported \in Seq(Keys) /\ Len(reported) <= MaxKeys /\ MaxKeys \in Nat
      /\ Len(reported) < MaxKeys /\ verdict = 0 /\ reported' = Append(reported, k)
  BY DuplicateKeysAssumption DEF Insert, TrackerInv, TrackerTypeOK
<1>2. at \in 1 .. MaxKeys /\ at = Len(reported) + 1
  BY <1>1
<1>3. LogOK'
  BY <1>1 DEF LogOK
<1>4. InsertSpilled(k, at) \/ FoundInline(k) \/ InsertInline(k, at) \/ Spill(k, at)
  BY DEF Insert
<1> HIDE DEF at
<1>5. TrackerInv' /\ (AcceptedAt(k, at) \/ Abstract!Refuse(k))
  <2>1. CASE InsertSpilled(k, at)
    BY <1>2, <1>3, <2>1, InsertSpilledStep
  <2>2. CASE FoundInline(k)
    BY <1>3, <2>2, FoundInlineStep
  <2>3. CASE InsertInline(k, at)
    <3>1. verdict' = verdict
      BY <2>3 DEF InsertInline
    <3>2. /\ TrackerInv' /\ k \notin DOMAIN Contents
          /\ Contents' = [x \in DOMAIN Contents \union {k} |-> IF x = k THEN at ELSE Contents[x]]
      BY <1>2, <1>3, <2>3, InsertInlineStep
    <3>3. QED
      BY <3>1, <3>2 DEF AcceptedAt
  <2>4. CASE Spill(k, at)
    BY <1>2, <1>3, <2>4, SpillStep
  <2>5. QED
    BY <1>4, <2>1, <2>2, <2>3, <2>4
<1>6. AcceptedAt(k, at) => Abstract!Accept(k)
  BY <1>2 DEF AcceptedAt, Abstract!Accept
<1>7. QED
  BY <1>1, <1>5, <1>6 DEF Abstract!Report

(* Every step of the tracker is a step of the abstract check.              *)
LEMMA TrackerStep ==
  ASSUME TrackerInv, [NextKey]_tracker
  PROVE  TrackerInv' /\ [Abstract!Next]_(Abstract!vars)
<1>1. CASE Fresh
  BY <1>1, FreshStep DEF Abstract!Next
<1>2. ASSUME NEW k \in Keys, Insert(k)
      PROVE  TrackerInv' /\ [Abstract!Next]_(Abstract!vars)
  BY <1>2, InsertStep DEF Abstract!Next
<1>3. CASE UNCHANGED tracker
  <2>1. UNCHANGED <<inline, spilled, overflow, verdict, reported>>
    BY <1>3 DEF tracker
  <2>2. TrackerInv'
    BY <2>1 DEF TrackerInv, TrackerTypeOK
  <2>3. Contents' = Contents
    BY <2>1 DEF Contents, Moved, InlineKeys, InlineSpan
  <2>4. QED
    BY <2>1, <2>2, <2>3 DEF Abstract!vars
<1>4. QED
  BY <1>1, <1>2, <1>3 DEF NextKey

(* The array never holds more than its slots and every remembered position *)
(* is that of a reported key (DuplicateKeyTracker, for every array size).  *)
THEOREM TrackerTypeCorrect == TrackerSpec => []TrackerTypeOK
<1>1. InitTracker => TrackerInv
  BY TrackerInvInit
<1>2. TrackerInv /\ [NextKey]_tracker => TrackerInv'
  BY TrackerStep
<1>3. TrackerInv => TrackerTypeOK
  BY DEF TrackerInv
<1>4. QED
  BY <1>1, <1>2, <1>3, PTL DEF TrackerSpec

(* The tracker implements the abstract check: every reported key is either *)
(* remembered with its own position or refused with that of its first      *)
(* occurrence, before, across and after the move to the hash map.          *)
THEOREM TrackerImplementsSeenKeys == TrackerSpec => RemembersFirst
<1>1. InitTracker => TrackerInv /\ Abstract!Init
  <2>1. SUFFICES ASSUME InitTracker PROVE Abstract!Init
    BY TrackerInvInit
  <2>2. inline = <<>> /\ ~spilled /\ DOMAIN inline = {} /\ verdict = 0 /\ reported = <<>>
    BY <2>1 DEF InitTracker
  <2>3. InlineKeys = {}
    BY <2>2 DEF InlineKeys
  <2>4. QED
    BY <2>2, <2>3 DEF Contents, Moved, Abstract!Init, Abstract!Empty
<1>2. TrackerInv /\ [NextKey]_tracker => TrackerInv' /\ [Abstract!Next]_(Abstract!vars)
  BY TrackerStep
<1>3. QED
  BY <1>1, <1>2, PTL DEF TrackerSpec, RemembersFirst, Abstract!Spec
=============================================================================
