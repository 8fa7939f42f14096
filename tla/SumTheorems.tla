----------------------------- MODULE SumTheorems -----------------------------
(***************************************************************************)
(* Sums of weights over the frames of a stack: that the recursive function *)
(* for them exists, and how it changes with the stack.  Induction on the   *)
(* natural numbers is by their least elements.                             *)
(***************************************************************************)
EXTENDS Integers, WellFoundedInduction, TLAPS

(* A set of natural numbers has a least one.                               *)
LEMMA LeastNumber ==
  ASSUME NEW T \in SUBSET Nat, T # {}
  PROVE  \E m \in T : \A n \in T : m <= n
<1> DEFINE Rel == {p \in Nat \X Nat : p[1] < p[2]}
<1>1. IsWellFoundedOn(Rel, Nat)
  BY NatLessThanWellFounded DEF OpToRel
<1>2. \A m, n \in Nat : <<n, m>> \notin Rel => m <= n
  OBVIOUS
<1> HIDE DEF Rel
<1>3. PICK m \in T : \A n \in T : ~ (<<n, m>> \in Rel)
  BY <1>1, WFMin
<1> QED
  BY <1>2, <1>3

(* A set that holds zero and the successors of its members is all of them. *)
LEMMA FromZeroUp ==
  ASSUME NEW T \in SUBSET Nat, 0 \in T, \A n \in T : n + 1 \in T
  PROVE  T = Nat
<1> SUFFICES ASSUME Nat \ T # {} PROVE FALSE
  OBVIOUS
<1>1. PICK m \in Nat \ T : \A n \in Nat \ T : m <= n
  BY LeastNumber
<1>2. m # 0 /\ m - 1 \in Nat /\ ~(m <= m - 1) /\ (m - 1) + 1 = m
  BY <1>1
<1>3. m - 1 \in T
  BY <1>1, <1>2
<1> QED
  BY <1>1, <1>2, <1>3

-----------------------------------------------------------------------------
(* f sums the weights w up to any place, and up to place n.                *)
Sums(w, f)      == f = [k \in Nat |-> IF k = 0 THEN 0 ELSE f[k - 1] + w[k]]
SumsTo(w, n, f) == f = [k \in 0 .. n |-> IF k = 0 THEN 0 ELSE f[k - 1] + w[k]]

(* Two such functions agree as far as both go, one exists for every n, and *)
(* so does the one for all places.                                         *)
LEMMA SumsToUnique ==
  ASSUME NEW w, NEW n \in Nat, NEW m \in Nat, NEW f, NEW g, SumsTo(w, n, f), SumsTo(w, m, g), n <= m
  PROVE  \A k \in 0 .. n : f[k] = g[k]
<1> DEFINE T == {k \in Nat : k <= n => f[k] = g[k]}
<1>1. 0 \in T
  BY DEF SumsTo
<1>2. ASSUME NEW k \in T PROVE k + 1 \in T
  <2>1. k + 1 <= n => f[k] = g[k] /\ k + 1 \in 0 .. n /\ k + 1 \in 0 .. m /\ k + 1 # 0 /\ (k + 1) - 1 = k
    BY <1>2
  <2>2. k + 1 <= n => f[k + 1] = g[k + 1]
    BY <2>1 DEF SumsTo
  <2> QED
    BY <1>2, <2>2
<1> HIDE DEF T
<1>3. T \in SUBSET Nat
  BY DEF T
<1>4. T = Nat
  BY <1>1, <1>2, <1>3, FromZeroUp
<1> QED
  BY <1>4 DEF T

LEMMA SumsToExist ==
  ASSUME NEW w
  PROVE  \A n \in Nat : \E f : SumsTo(w, n, f)
<1> DEFINE T == {n \in Nat : \E f : SumsTo(w, n, f)}
<1>1. 0 \in T
  <2>1. SumsTo(w, 0, [k \in 0 .. 0 |-> 0])
    BY DEF SumsTo
  <2> QED
    BY <2>1
<1>2. ASSUME NEW n \in T PROVE n + 1 \in T
  <2>1. PICK f : SumsTo(w, n, f)
    BY <1>2
  <2>2. PICK g : g = [k \in 0 .. n + 1 |-> IF k <= n THEN f[k] ELSE f[n] + w[n + 1]]
    OBVIOUS
  <2>3. ASSUME NEW k \in 0 .. n + 1
        PROVE  g[k] = IF k = 0 THEN 0 ELSE g[k - 1] + w[k]
    <3>1. CASE k <= n
      <4>1. k \in 0 .. n /\ (k # 0 => k - 1 \in 0 .. n + 1 /\ k - 1 <= n)
        BY <1>2, <2>3, <3>1
      <4>2. f[k] = IF k = 0 THEN 0 ELSE f[k - 1] + w[k]
        BY <2>1, <4>1 DEF SumsTo
      <4> QED
        BY <2>2, <3>1, <4>1, <4>2
    <3>2. CASE ~(k <= n)
      <4>1. k = n + 1 /\ k # 0 /\ k - 1 = n /\ n \in 0 .. n + 1 /\ n <= n
        BY <1>2, <2>3, <3>2
      <4> QED
        BY <2>2, <3>2, <4>1
    <3> QED
      BY <3>1, <3>2
  <2>4. SumsTo(w, n + 1, g)
    BY <2>2, <2>3 DEF SumsTo
  <2> QED
    BY <1>2, <2>4
<1> HIDE DEF T
<1>3. T \in SUBSET Nat
  BY DEF T
<1>4. T = Nat
  BY <1>1, <1>2, <1>3, FromZeroUp
<1> QED
  BY <1>4 DEF T

LEMMA SumsExist ==
  ASSUME NEW w
  PROVE  \E f : Sums(w, f)
<1> DEFINE upto(n) == CHOOSE f : SumsTo(w, n, f)
           g == [n \in Nat |-> upto(n)[n]]
<1>1. \A n \in Nat : SumsTo(w, n, upto(n))
  BY SumsToExist
<1> HIDE DEF upto
<1>2. ASSUME NEW n \in Nat PROVE g[n] = IF n = 0 THEN 0 ELSE g[n - 1] + w[n]
  <2>1. upto(n)[n] = IF n = 0 THEN 0 ELSE upto(n)[n - 1] + w[n]
    <3>1. n \in 0 .. n
      OBVIOUS
    <3> QED
      BY <1>1, <3>1 DEF SumsTo
  <2>2. CASE n = 0
    BY <2>1, <2>2
  <2>3. CASE n # 0
    <3>1. n - 1 \in Nat /\ n - 1 <= n /\ n - 1 \in 0 .. (n - 1)
      BY <2>3
    <3>2. upto(n - 1)[n - 1] = upto(n)[n - 1]
      BY <1>1, <3>1, SumsToUnique
    <3> QED
      BY <2>1, <2>3, <3>1, <3>2
  <2> QED
    BY <2>2, <2>3
<1>3. Sums(w, g)
  BY <1>2 DEF Sums
<1> QED
  BY <1>3

(* Weights that agree up to a place have the same sums up to there.        *)
AgreeTo(w, v, n) == \A k \in 1 .. n : w[k] = v[k]

LEMMA SumsAgree ==
  ASSUME NEW w, NEW v, NEW n \in Nat, NEW f, NEW g, Sums(w, f), Sums(v, g), AgreeTo(w, v, n)
  PROVE  \A k \in 0 .. n : f[k] = g[k]
<1> DEFINE T == {k \in Nat : k <= n => f[k] = g[k]}
<1>1. 0 \in T
  BY DEF Sums
<1>2. ASSUME NEW k \in T PROVE k + 1 \in T
  <2>1. k + 1 <= n => f[k] = g[k] /\ k + 1 \in 1 .. n /\ k + 1 \in Nat /\ k + 1 # 0 /\ (k + 1) - 1 = k
    BY <1>2
  <2>2. k + 1 <= n => f[k + 1] = g[k + 1]
    BY <2>1 DEF Sums, AgreeTo
  <2> QED
    BY <1>2, <2>2
<1> HIDE DEF T
<1>3. T \in SUBSET Nat
  BY DEF T
<1>4. T = Nat
  BY <1>1, <1>2, <1>3, FromZeroUp
<1> QED
  BY <1>4 DEF T

LEMMA SumsAreNumbers ==
  ASSUME NEW w, NEW n \in Nat, NEW f, Sums(w, f), \A k \in 1 .. n : w[k] \in Nat
  PROVE  \A k \in 0 .. n : f[k] \in Nat
<1> DEFINE T == {k \in Nat : k <= n => f[k] \in Nat}
<1>1. 0 \in T
  BY DEF Sums
<1>2. ASSUME NEW k \in T PROVE k + 1 \in T
  <2>1. k + 1 <= n => f[k] \in Nat /\ k + 1 \in 1 .. n /\ k + 1 \in Nat /\ k + 1 # 0 /\ (k + 1) - 1 = k
    BY <1>2
  <2>2. k + 1 <= n => f[k + 1] \in Nat
    BY <2>1 DEF Sums
  <2> QED
    BY <1>2, <2>2
<1> HIDE DEF T
<1>3. T \in SUBSET Nat
  BY DEF T
<1>4. T = Nat
  BY <1>1, <1>2, <1>3, FromZeroUp
<1> QED
  BY <1>4 DEF T

(* The sums of a stack that grows by a frame, loses its last one, or has   *)
(* it replaced.                                                            *)
LEMMA SumsNext ==
  ASSUME NEW w, NEW n \in Nat, NEW f, Sums(w, f)
  PROVE  f[n + 1] = f[n] + w[n + 1]
<1>1. n + 1 \in Nat /\ n + 1 # 0 /\ (n + 1) - 1 = n
  OBVIOUS
<1> QED
  BY <1>1 DEF Sums

LEMMA SumsAtAgreement ==
  ASSUME NEW w, NEW v, NEW n \in Nat, NEW f, NEW g, Sums(w, f), Sums(v, g), AgreeTo(w, v, n)
  PROVE  f[n] = g[n]
<1>1. n \in 0 .. n
  OBVIOUS
<1> QED
  BY <1>1, SumsAgree

LEMMA SumsPushed ==
  ASSUME NEW w, NEW v, NEW n \in Nat, NEW f, NEW g, Sums(w, f), Sums(v, g), AgreeTo(w, v, n)
  PROVE  g[n + 1] = f[n] + v[n + 1]
BY SumsAtAgreement, SumsNext

LEMMA SumsReplaced ==
  ASSUME NEW w, NEW v, NEW n \in Nat, NEW f, NEW g, Sums(w, f), Sums(v, g), AgreeTo(w, v, n)
  PROVE  f[n + 1] = f[n] + w[n + 1] /\ g[n + 1] = f[n] + v[n + 1]
BY SumsAtAgreement, SumsNext

-----------------------------------------------------------------------------
(* The sum of the first n weights, for any weights.                        *)
SumOf(w, n) == (CHOOSE f : Sums(w, f))[n]

LEMMA SumOfEquals ==
  ASSUME NEW w, NEW n \in Nat, NEW f, Sums(w, f)
  PROVE  f[n] = SumOf(w, n)
<1>1. PICK g : g = CHOOSE h : Sums(w, h)
  OBVIOUS
<1>2. Sums(w, g) /\ g[n] = SumOf(w, n)
  BY <1>1 DEF SumOf
<1>3. AgreeTo(w, w, n)
  BY DEF AgreeTo
<1> QED
  BY <1>2, <1>3, SumsAtAgreement

LEMMA SumOfNone ==
  ASSUME NEW w
  PROVE  SumOf(w, 0) = 0
<1>1. PICK f : Sums(w, f)
  BY SumsExist
<1> QED
  BY <1>1, SumOfEquals DEF Sums

LEMMA SumOfNext ==
  ASSUME NEW w, NEW n \in Nat
  PROVE  SumOf(w, n + 1) = SumOf(w, n) + w[n + 1]
<1>1. PICK f : Sums(w, f)
  BY SumsExist
<1>2. n + 1 \in Nat
  OBVIOUS
<1> QED
  BY <1>1, <1>2, SumOfEquals, SumsNext

LEMMA SumOfAgrees ==
  ASSUME NEW w, NEW v, NEW n \in Nat, AgreeTo(w, v, n)
  PROVE  SumOf(w, n) = SumOf(v, n)
<1>1. PICK f : Sums(w, f)
  BY SumsExist
<1>2. PICK g : Sums(v, g)
  BY SumsExist
<1> QED
  BY <1>1, <1>2, SumOfEquals, SumsAtAgreement

LEMMA SumOfIsNumber ==
  ASSUME NEW w, NEW n \in Nat, \A k \in 1 .. n : w[k] \in Nat
  PROVE  SumOf(w, n) \in Nat
<1>1. PICK f : Sums(w, f)
  BY SumsExist
<1>2. n \in 0 .. n
  OBVIOUS
<1> QED
  BY <1>1, <1>2, SumOfEquals, SumsAreNumbers

=============================================================================
