--------------------------- MODULE MergeKeysProofs ---------------------------
(***************************************************************************)
(* Expanding merge keys, for documents of any size: owned and borrowed     *)
(* nodes agree; every key gets the value that precedence gives it; what is *)
(* refused; and the view of a lossless graph is what loading makes of it.  *)
(* The loops of the code add entries one by one; they are unfolded first,  *)
(* then what they do to sequences of entries is stated once and for all.   *)
(***************************************************************************)
EXTENDS MergeKeys, DuplicateKeysProofs, SequenceTheorems, FiniteSetTheorems, SumTheorems

-----------------------------------------------------------------------------
(* The loops.                                                              *)

(* The loop of Without after each of its rounds; how many rounds there     *)
(* are changes nothing about those they share, and any number will do.     *)
Dropping(drop, items, n, f) ==
  f = [k \in 0 .. n |-> IF k = 0 THEN <<>> ELSE IF k \in drop THEN f[k - 1] ELSE Append(f[k - 1], items[k])]

(* Without: after the rounds that two of its loops share, they agree.      *)
LEMMA DroppingAgree ==
  ASSUME NEW drop, NEW a, NEW b, NEW n \in Nat, NEW m \in Nat, n <= m, NEW f, NEW g,
         Dropping(drop, a, n, f), Dropping(drop, b, m, g), AgreeTo(a, b, n)
  PROVE  \A k \in 0 .. n : f[k] = g[k]
<1> DEFINE T == {k \in Nat : k <= n => f[k] = g[k]}
<1>1. 0 \in T
  BY DEF Dropping
<1>2. ASSUME NEW k \in T PROVE k + 1 \in T
  <2>1. k + 1 <= n => /\ f[k] = g[k] /\ k + 1 \in 1 .. n /\ k + 1 \in 0 .. n /\ k + 1 \in 0 .. m
                      /\ k + 1 # 0 /\ (k + 1) - 1 = k
    BY <1>2
  <2>2. ASSUME k + 1 <= n PROVE f[k + 1] = g[k + 1]
    <3>1. f[k + 1] = IF k + 1 \in drop THEN f[k] ELSE Append(f[k], a[k + 1])
      BY <2>1, <2>2 DEF Dropping
    <3>2. g[k + 1] = IF k + 1 \in drop THEN g[k] ELSE Append(g[k], b[k + 1])
      BY <2>1, <2>2 DEF Dropping
    <3>3. a[k + 1] = b[k + 1]
      BY <2>1, <2>2 DEF AgreeTo
    <3> QED
      BY <2>1, <2>2, <3>1, <3>2, <3>3
  <2> QED
    BY <1>2, <2>2
<1> HIDE DEF T
<1>3. T \in SUBSET Nat
  BY DEF T
<1>4. T = Nat
  BY <1>1, <1>2, <1>3, FromZeroUp
<1>5. \A k \in 0 .. n : k \in T /\ k <= n
  BY <1>4
<1> QED
  BY <1>5 DEF T

(* Without: its loop exists, for any number of rounds.                     *)
LEMMA DroppingExists ==
  ASSUME NEW drop, NEW items
  PROVE  \A n \in Nat : \E f : Dropping(drop, items, n, f)
<1> DEFINE T == {n \in Nat : \E f : Dropping(drop, items, n, f)}
<1>1. 0 \in T
  <2>1. Dropping(drop, items, 0, [k \in 0 .. 0 |-> <<>>])
    BY DEF Dropping
  <2> QED
    BY <2>1
<1>2. ASSUME NEW n \in T PROVE n + 1 \in T
  <2>1. PICK f : Dropping(drop, items, n, f)
    BY <1>2
  <2>2. PICK g : g = [k \in 0 .. n + 1 |-> IF k <= n THEN f[k] ELSE IF n + 1 \in drop THEN f[n] ELSE Append(f[n], items[n + 1])]
    OBVIOUS
  <2>3. ASSUME NEW k \in 0 .. n + 1
        PROVE  g[k] = IF k = 0 THEN <<>> ELSE IF k \in drop THEN g[k - 1] ELSE Append(g[k - 1], items[k])
    <3>1. CASE k <= n
      <4>1. k \in 0 .. n /\ (k # 0 => k - 1 \in 0 .. n + 1 /\ k - 1 <= n)
        BY <1>2, <2>3, <3>1
      <4>2. f[k] = IF k = 0 THEN <<>> ELSE IF k \in drop THEN f[k - 1] ELSE Append(f[k - 1], items[k])
        BY <2>1, <4>1 DEF Dropping
      <4> QED
        BY <2>2, <3>1, <4>1, <4>2
    <3>2. CASE ~(k <= n)
      <4>1. k = n + 1 /\ k # 0 /\ k - 1 = n /\ n \in 0 .. n + 1 /\ n <= n
        BY <1>2, <2>3, <3>2
      <4> QED
        BY <2>2, <3>2, <4>1
    <3> QED
      BY <3>1, <3>2
  <2>4. Dropping(drop, items, n + 1, g)
    BY <2>2, <2>3 DEF Dropping
  <2> QED
    BY <1>2, <2>4
<1> HIDE DEF T
<1>3. T = Nat
  BY <1>1, <1>2, FromZeroUp DEF T
<1> QED
  BY <1>3 DEF T

(* Without: its value is the last of its loop.                             *)
LEMMA WithoutIs ==
  ASSUME NEW drop, NEW S, NEW items \in Seq(S)
  PROVE  \E f : Dropping(drop, items, Len(items), f) /\ Without(items, drop) = f[Len(items)]
<1> DEFINE g == CHOOSE f : Dropping(drop, items, Len(items), f)
<1>1. Len(items) \in Nat
  OBVIOUS
<1>2. Dropping(drop, items, Len(items), g)
  BY <1>1, DroppingExists
<1>3. Without(items, drop) = g[Len(items)]
  BY DEF Without, Dropping
<1> QED
  BY <1>2, <1>3

(* Nothing to do, and one thing more.                                      *)
LEMMA WithoutNone ==
  ASSUME NEW drop
  PROVE  Without(<<>>, drop) = <<>>
<1>1. <<>> \in Seq({}) /\ Len(<<>>) = 0 /\ 0 \in 0 .. 0
  OBVIOUS
<1>2. PICK f : Dropping(drop, <<>>, 0, f) /\ Without(<<>>, drop) = f[0]
  BY <1>1, WithoutIs
<1>3. f[0] = <<>>
  BY <1>1, <1>2 DEF Dropping
<1> QED
  BY <1>2, <1>3

(* Without: one more entry is one more round.                              *)
LEMMA WithoutNext ==
  ASSUME NEW drop, NEW S, NEW items \in Seq(S), NEW e \in S
  PROVE  Without(Append(items, e), drop) = IF Len(items) + 1 \in drop THEN Without(items, drop) ELSE Append(Without(items, drop), e)
<1>1. PICK n, m, more : n = Len(items) /\ m = n + 1 /\ more = Append(items, e)
  OBVIOUS
<1>2. /\ more \in Seq(S) /\ n \in Nat /\ m \in Nat /\ n <= m /\ Len(more) = m /\ more[m] = e
      /\ m # 0 /\ m - 1 = n /\ m \in 0 .. m /\ n \in 0 .. n
  BY <1>1
<1>3. AgreeTo(items, more, n)
  BY <1>1 DEF AgreeTo
<1>4. PICK f : Dropping(drop, items, n, f) /\ Without(items, drop) = f[n]
  BY <1>1, WithoutIs
<1>5. PICK g : Dropping(drop, more, m, g) /\ Without(more, drop) = g[m]
  BY <1>2, WithoutIs
<1>6. \A k \in 0 .. n : f[k] = g[k]
  BY <1>2, <1>3, <1>4, <1>5, DroppingAgree
<1>7. f[n] = g[n]
  BY <1>2, <1>6
<1>8. g[m] = IF m \in drop THEN g[n] ELSE Append(g[n], e)
  BY <1>2, <1>5 DEF Dropping
<1> QED
  BY <1>1, <1>2, <1>4, <1>5, <1>7, <1>8

(* The loop of InsertMissing after each of its rounds; how many rounds there*)
(* are changes nothing about those they share, and any number will do.     *)
Inserting(es, items, n, f) ==
  f = [k \in 0 .. n |-> IF k = 0 THEN es ELSE InsertOne(f[k - 1], items[k])]

(* InsertMissing: the same four facts.                                     *)
LEMMA InsertingAgree ==
  ASSUME NEW es, NEW a, NEW b, NEW n \in Nat, NEW m \in Nat, n <= m, NEW f, NEW g,
         Inserting(es, a, n, f), Inserting(es, b, m, g), AgreeTo(a, b, n)
  PROVE  \A k \in 0 .. n : f[k] = g[k]
<1> DEFINE T == {k \in Nat : k <= n => f[k] = g[k]}
<1>1. 0 \in T
  BY DEF Inserting
<1>2. ASSUME NEW k \in T PROVE k + 1 \in T
  <2>1. k + 1 <= n => /\ f[k] = g[k] /\ k + 1 \in 1 .. n /\ k + 1 \in 0 .. n /\ k + 1 \in 0 .. m
                      /\ k + 1 # 0 /\ (k + 1) - 1 = k
    BY <1>2
  <2>2. ASSUME k + 1 <= n PROVE f[k + 1] = g[k + 1]
    <3>1. f[k + 1] = InsertOne(f[k], a[k + 1])
      BY <2>1, <2>2 DEF Inserting
    <3>2. g[k + 1] = InsertOne(g[k], b[k + 1])
      BY <2>1, <2>2 DEF Inserting
    <3>3. a[k + 1] = b[k + 1]
      BY <2>1, <2>2 DEF AgreeTo
    <3> QED
      BY <2>1, <2>2, <3>1, <3>2, <3>3
  <2> QED
    BY <1>2, <2>2
<1> HIDE DEF T
<1>3. T \in SUBSET Nat
  BY DEF T
<1>4. T = Nat
  BY <1>1, <1>2, <1>3, FromZeroUp
<1>5. \A k \in 0 .. n : k \in T /\ k <= n
  BY <1>4
<1> QED
  BY <1>5 DEF T

(* InsertMissing: its loop exists.                                         *)
LEMMA InsertingExists ==
  ASSUME NEW es, NEW items
  PROVE  \A n \in Nat : \E f : Inserting(es, items, n, f)
<1> DEFINE T == {n \in Nat : \E f : Inserting(es, items, n, f)}
<1>1. 0 \in T
  <2>1. Inserting(es, items, 0, [k \in 0 .. 0 |-> es])
    BY DEF Inserting
  <2> QED
    BY <2>1
<1>2. ASSUME NEW n \in T PROVE n + 1 \in T
  <2>1. PICK f : Inserting(es, items, n, f)
    BY <1>2
  <2>2. PICK g : g = [k \in 0 .. n + 1 |-> IF k <= n THEN f[k] ELSE InsertOne(f[n], items[n + 1])]
    OBVIOUS
  <2>3. ASSUME NEW k \in 0 .. n + 1
        PROVE  g[k] = IF k = 0 THEN es ELSE InsertOne(g[k - 1], items[k])
    <3>1. CASE k <= n
      <4>1. k \in 0 .. n /\ (k # 0 => k - 1 \in 0 .. n + 1 /\ k - 1 <= n)
        BY <1>2, <2>3, <3>1
      <4>2. f[k] = IF k = 0 THEN es ELSE InsertOne(f[k - 1], items[k])
        BY <2>1, <4>1 DEF Inserting
      <4> QED
        BY <2>2, <3>1, <4>1, <4>2
    <3>2. CASE ~(k <= n)
      <4>1. k = n + 1 /\ k # 0 /\ k - 1 = n /\ n \in 0 .. n + 1 /\ n <= n
        BY <1>2, <2>3, <3>2
      <4> QED
        BY <2>2, <3>2, <4>1
    <3> QED
      BY <3>1, <3>2
  <2>4. Inserting(es, items, n + 1, g)
    BY <2>2, <2>3 DEF Inserting
  <2> QED
    BY <1>2, <2>4
<1> HIDE DEF T
<1>3. T = Nat
  BY <1>1, <1>2, FromZeroUp DEF T
<1> QED
  BY <1>3 DEF T

(* InsertMissing: its value is the last of its loop.                       *)
LEMMA InsertMissingIs ==
  ASSUME NEW es, NEW S, NEW items \in Seq(S)
  PROVE  \E f : Inserting(es, items, Len(items), f) /\ InsertMissing(es, items) = f[Len(items)]
<1> DEFINE g == CHOOSE f : Inserting(es, items, Len(items), f)
<1>1. Len(items) \in Nat
  OBVIOUS
<1>2. Inserting(es, items, Len(items), g)
  BY <1>1, InsertingExists
<1>3. InsertMissing(es, items) = g[Len(items)]
  BY DEF InsertMissing, Inserting
<1> QED
  BY <1>2, <1>3

(* Nothing to do, and one thing more.                                      *)
LEMMA InsertMissingNone ==
  ASSUME NEW es
  PROVE  InsertMissing(es, <<>>) = es
<1>1. <<>> \in Seq({}) /\ Len(<<>>) = 0 /\ 0 \in 0 .. 0
  OBVIOUS
<1>2. PICK f : Inserting(es, <<>>, 0, f) /\ InsertMissing(es, <<>>) = f[0]
  BY <1>1, InsertMissingIs
<1>3. f[0] = es
  BY <1>1, <1>2 DEF Inserting
<1> QED
  BY <1>2, <1>3

(* InsertMissing: one more entry is one more round.                        *)
LEMMA InsertMissingNext ==
  ASSUME NEW es, NEW S, NEW items \in Seq(S), NEW e \in S
  PROVE  InsertMissing(es, Append(items, e)) = InsertOne(InsertMissing(es, items), e)
<1>1. PICK n, m, more : n = Len(items) /\ m = n + 1 /\ more = Append(items, e)
  OBVIOUS
<1>2. /\ more \in Seq(S) /\ n \in Nat /\ m \in Nat /\ n <= m /\ Len(more) = m /\ more[m] = e
      /\ m # 0 /\ m - 1 = n /\ m \in 0 .. m /\ n \in 0 .. n
  BY <1>1
<1>3. AgreeTo(items, more, n)
  BY <1>1 DEF AgreeTo
<1>4. PICK f : Inserting(es, items, n, f) /\ InsertMissing(es, items) = f[n]
  BY <1>1, InsertMissingIs
<1>5. PICK g : Inserting(es, more, m, g) /\ InsertMissing(es, more) = g[m]
  BY <1>2, InsertMissingIs
<1>6. \A k \in 0 .. n : f[k] = g[k]
  BY <1>2, <1>3, <1>4, <1>5, InsertingAgree
<1>7. f[n] = g[n]
  BY <1>2, <1>6
<1>8. g[m] = InsertOne(g[n], e)
  BY <1>2, <1>5 DEF Inserting
<1> QED
  BY <1>1, <1>2, <1>4, <1>5, <1>7, <1>8

(* The loop of Upsert after each of its rounds; how many rounds there      *)
(* are changes nothing about those they share, and any number will do.     *)
Upserting(es, items, n, f) ==
  f = [k \in 0 .. n |-> IF k = 0 THEN es ELSE UpsertOne(f[k - 1], items[k])]

(* Upsert: the same four facts.                                            *)
LEMMA UpsertingAgree ==
  ASSUME NEW es, NEW a, NEW b, NEW n \in Nat, NEW m \in Nat, n <= m, NEW f, NEW g,
         Upserting(es, a, n, f), Upserting(es, b, m, g), AgreeTo(a, b, n)
  PROVE  \A k \in 0 .. n : f[k] = g[k]
<1> DEFINE T == {k \in Nat : k <= n => f[k] = g[k]}
<1>1. 0 \in T
  BY DEF Upserting
<1>2. ASSUME NEW k \in T PROVE k + 1 \in T
  <2>1. k + 1 <= n => /\ f[k] = g[k] /\ k + 1 \in 1 .. n /\ k + 1 \in 0 .. n /\ k + 1 \in 0 .. m
                      /\ k + 1 # 0 /\ (k + 1) - 1 = k
    BY <1>2
  <2>2. ASSUME k + 1 <= n PROVE f[k + 1] = g[k + 1]
    <3>1. f[k + 1] = UpsertOne(f[k], a[k + 1])
      BY <2>1, <2>2 DEF Upserting
    <3>2. g[k + 1] = UpsertOne(g[k], b[k + 1])
      BY <2>1, <2>2 DEF Upserting
    <3>3. a[k + 1] = b[k + 1]
      BY <2>1, <2>2 DEF AgreeTo
    <3> QED
      BY <2>1, <2>2, <3>1, <3>2, <3>3
  <2> QED
    BY <1>2, <2>2
<1> HIDE DEF T
<1>3. T \in SUBSET Nat
  BY DEF T
<1>4. T = Nat
  BY <1>1, <1>2, <1>3, FromZeroUp
<1>5. \A k \in 0 .. n : k \in T /\ k <= n
  BY <1>4
<1> QED
  BY <1>5 DEF T

(* Upsert: its loop exists.                                                *)
LEMMA UpsertingExists ==
  ASSUME NEW es, NEW items
  PROVE  \A n \in Nat : \E f : Upserting(es, items, n, f)
<1> DEFINE T == {n \in Nat : \E f : Upserting(es, items, n, f)}
<1>1. 0 \in T
  <2>1. Upserting(es, items, 0, [k \in 0 .. 0 |-> es])
    BY DEF Upserting
  <2> QED
    BY <2>1
<1>2. ASSUME NEW n \in T PROVE n + 1 \in T
  <2>1. PICK f : Upserting(es, items, n, f)
    BY <1>2
  <2>2. PICK g : g = [k \in 0 .. n + 1 |-> IF k <= n THEN f[k] ELSE UpsertOne(f[n], items[n + 1])]
    OBVIOUS
  <2>3. ASSUME NEW k \in 0 .. n + 1
        PROVE  g[k] = IF k = 0 THEN es ELSE UpsertOne(g[k - 1], items[k])
    <3>1. CASE k <= n
      <4>1. k \in 0 .. n /\ (k # 0 => k - 1 \in 0 .. n + 1 /\ k - 1 <= n)
        BY <1>2, <2>3, <3>1
      <4>2. f[k] = IF k = 0 THEN es ELSE UpsertOne(f[k - 1], items[k])
        BY <2>1, <4>1 DEF Upserting
      <4> QED
        BY <2>2, <3>1, <4>1, <4>2
    <3>2. CASE ~(k <= n)
      <4>1. k = n + 1 /\ k # 0 /\ k - 1 = n /\ n \in 0 .. n + 1 /\ n <= n
        BY <1>2, <2>3, <3>2
      <4> QED
        BY <2>2, <3>2, <4>1
    <3> QED
      BY <3>1, <3>2
  <2>4. Upserting(es, items, n + 1, g)
    BY <2>2, <2>3 DEF Upserting
  <2> QED
    BY <1>2, <2>4
<1> HIDE DEF T
<1>3. T = Nat
  BY <1>1, <1>2, FromZeroUp DEF T
<1> QED
  BY <1>3 DEF T

(* Upsert: its value is the last of its loop.                              *)
LEMMA UpsertIs ==
  ASSUME NEW es, NEW S, NEW items \in Seq(S)
  PROVE  \E f : Upserting(es, items, Len(items), f) /\ Upsert(es, items) = f[Len(items)]
<1> DEFINE g == CHOOSE f : Upserting(es, items, Len(items), f)
<1>1. Len(items) \in Nat
  OBVIOUS
<1>2. Upserting(es, items, Len(items), g)
  BY <1>1, UpsertingExists
<1>3. Upsert(es, items) = g[Len(items)]
  BY DEF Upsert, Upserting
<1> QED
  BY <1>2, <1>3

(* Nothing to do, and one thing more.                                      *)
LEMMA UpsertNone ==
  ASSUME NEW es
  PROVE  Upsert(es, <<>>) = es
<1>1. <<>> \in Seq({}) /\ Len(<<>>) = 0 /\ 0 \in 0 .. 0
  OBVIOUS
<1>2. PICK f : Upserting(es, <<>>, 0, f) /\ Upsert(es, <<>>) = f[0]
  BY <1>1, UpsertIs
<1>3. f[0] = es
  BY <1>1, <1>2 DEF Upserting
<1> QED
  BY <1>2, <1>3

(* Upsert: one more entry is one more round.                               *)
LEMMA UpsertNext ==
  ASSUME NEW es, NEW S, NEW items \in Seq(S), NEW e \in S
  PROVE  Upsert(es, Append(items, e)) = UpsertOne(Upsert(es, items), e)
<1>1. PICK n, m, more : n = Len(items) /\ m = n + 1 /\ more = Append(items, e)
  OBVIOUS
<1>2. /\ more \in Seq(S) /\ n \in Nat /\ m \in Nat /\ n <= m /\ Len(more) = m /\ more[m] = e
      /\ m # 0 /\ m - 1 = n /\ m \in 0 .. m /\ n \in 0 .. n
  BY <1>1
<1>3. AgreeTo(items, more, n)
  BY <1>1 DEF AgreeTo
<1>4. PICK f : Upserting(es, items, n, f) /\ Upsert(es, items) = f[n]
  BY <1>1, UpsertIs
<1>5. PICK g : Upserting(es, more, m, g) /\ Upsert(es, more) = g[m]
  BY <1>2, UpsertIs
<1>6. \A k \in 0 .. n : f[k] = g[k]
  BY <1>2, <1>3, <1>4, <1>5, UpsertingAgree
<1>7. f[n] = g[n]
  BY <1>2, <1>6
<1>8. g[m] = UpsertOne(g[n], e)
  BY <1>2, <1>5 DEF Upserting
<1> QED
  BY <1>1, <1>2, <1>4, <1>5, <1>7, <1>8

(* The loop of AddAll after each of its rounds; how many rounds there      *)
(* are changes nothing about those they share, and any number will do.     *)
Adding(how, es, items, n, f) ==
  f = [k \in 0 .. n |-> IF k = 0 THEN Ok(es) ELSE AddResult(how, f[k - 1], items[k])]

(* AddAll: the same four facts.                                            *)
LEMMA AddingAgree ==
  ASSUME NEW how, NEW es, NEW a, NEW b, NEW n \in Nat, NEW m \in Nat, n <= m, NEW f, NEW g,
         Adding(how, es, a, n, f), Adding(how, es, b, m, g), AgreeTo(a, b, n)
  PROVE  \A k \in 0 .. n : f[k] = g[k]
<1> DEFINE T == {k \in Nat : k <= n => f[k] = g[k]}
<1>1. 0 \in T
  BY DEF Adding
<1>2. ASSUME NEW k \in T PROVE k + 1 \in T
  <2>1. k + 1 <= n => /\ f[k] = g[k] /\ k + 1 \in 1 .. n /\ k + 1 \in 0 .. n /\ k + 1 \in 0 .. m
                      /\ k + 1 # 0 /\ (k + 1) - 1 = k
    BY <1>2
  <2>2. ASSUME k + 1 <= n PROVE f[k + 1] = g[k + 1]
    <3>1. f[k + 1] = AddResult(how, f[k], a[k + 1])
      BY <2>1, <2>2 DEF Adding
    <3>2. g[k + 1] = AddResult(how, g[k], b[k + 1])
      BY <2>1, <2>2 DEF Adding
    <3>3. a[k + 1] = b[k + 1]
      BY <2>1, <2>2 DEF AgreeTo
    <3> QED
      BY <2>1, <2>2, <3>1, <3>2, <3>3
  <2> QED
    BY <1>2, <2>2
<1> HIDE DEF T
<1>3. T \in SUBSET Nat
  BY DEF T
<1>4. T = Nat
  BY <1>1, <1>2, <1>3, FromZeroUp
<1>5. \A k \in 0 .. n : k \in T /\ k <= n
  BY <1>4
<1> QED
  BY <1>5 DEF T

(* AddAll: its loop exists.                                                *)
LEMMA AddingExists ==
  ASSUME NEW how, NEW es, NEW items
  PROVE  \A n \in Nat : \E f : Adding(how, es, items, n, f)
<1> DEFINE T == {n \in Nat : \E f : Adding(how, es, items, n, f)}
<1>1. 0 \in T
  <2>1. Adding(how, es, items, 0, [k \in 0 .. 0 |-> Ok(es)])
    BY DEF Adding
  <2> QED
    BY <2>1
<1>2. ASSUME NEW n \in T PROVE n + 1 \in T
  <2>1. PICK f : Adding(how, es, items, n, f)
    BY <1>2
  <2>2. PICK g : g = [k \in 0 .. n + 1 |-> IF k <= n THEN f[k] ELSE AddResult(how, f[n], items[n + 1])]
    OBVIOUS
  <2>3. ASSUME NEW k \in 0 .. n + 1
        PROVE  g[k] = IF k = 0 THEN Ok(es) ELSE AddResult(how, g[k - 1], items[k])
    <3>1. CASE k <= n
      <4>1. k \in 0 .. n /\ (k # 0 => k - 1 \in 0 .. n + 1 /\ k - 1 <= n)
        BY <1>2, <2>3, <3>1
      <4>2. f[k] = IF k = 0 THEN Ok(es) ELSE AddResult(how, f[k - 1], items[k])
        BY <2>1, <4>1 DEF Adding
      <4> QED
        BY <2>2, <3>1, <4>1, <4>2
    <3>2. CASE ~(k <= n)
      <4>1. k = n + 1 /\ k # 0 /\ k - 1 = n /\ n \in 0 .. n + 1 /\ n <= n
        BY <1>2, <2>3, <3>2
      <4> QED
        BY <2>2, <3>2, <4>1
    <3> QED
      BY <3>1, <3>2
  <2>4. Adding(how, es, items, n + 1, g)
    BY <2>2, <2>3 DEF Adding
  <2> QED
    BY <1>2, <2>4
<1> HIDE DEF T
<1>3. T = Nat
  BY <1>1, <1>2, FromZeroUp DEF T
<1> QED
  BY <1>3 DEF T

(* AddAll: its value is the last of its loop.                              *)
LEMMA AddAllIs ==
  ASSUME NEW how, NEW es, NEW S, NEW items \in Seq(S)
  PROVE  \E f : Adding(how, es, items, Len(items), f) /\ AddAll(how, es, items) = f[Len(items)]
<1> DEFINE g == CHOOSE f : Adding(how, es, items, Len(items), f)
<1>1. Len(items) \in Nat
  OBVIOUS
<1>2. Adding(how, es, items, Len(items), g)
  BY <1>1, AddingExists
<1>3. AddAll(how, es, items) = g[Len(items)]
  BY DEF AddAll, Adding
<1> QED
  BY <1>2, <1>3

(* Nothing to do, and one thing more.                                      *)
LEMMA AddAllNone ==
  ASSUME NEW how, NEW es
  PROVE  AddAll(how, es, <<>>) = Ok(es)
<1>1. <<>> \in Seq({}) /\ Len(<<>>) = 0 /\ 0 \in 0 .. 0
  OBVIOUS
<1>2. PICK f : Adding(how, es, <<>>, 0, f) /\ AddAll(how, es, <<>>) = f[0]
  BY <1>1, AddAllIs
<1>3. f[0] = Ok(es)
  BY <1>1, <1>2 DEF Adding
<1> QED
  BY <1>2, <1>3

(* AddAll: one more result is one more round.                              *)
LEMMA AddAllNext ==
  ASSUME NEW how, NEW es, NEW S, NEW items \in Seq(S), NEW e \in S
  PROVE  AddAll(how, es, Append(items, e)) = AddResult(how, AddAll(how, es, items), e)
<1>1. PICK n, m, more : n = Len(items) /\ m = n + 1 /\ more = Append(items, e)
  OBVIOUS
<1>2. /\ more \in Seq(S) /\ n \in Nat /\ m \in Nat /\ n <= m /\ Len(more) = m /\ more[m] = e
      /\ m # 0 /\ m - 1 = n /\ m \in 0 .. m /\ n \in 0 .. n
  BY <1>1
<1>3. AgreeTo(items, more, n)
  BY <1>1 DEF AgreeTo
<1>4. PICK f : Adding(how, es, items, n, f) /\ AddAll(how, es, items) = f[n]
  BY <1>1, AddAllIs
<1>5. PICK g : Adding(how, es, more, m, g) /\ AddAll(how, es, more) = g[m]
  BY <1>2, AddAllIs
<1>6. \A k \in 0 .. n : f[k] = g[k]
  BY <1>2, <1>3, <1>4, <1>5, AddingAgree
<1>7. f[n] = g[n]
  BY <1>2, <1>6
<1>8. g[m] = AddResult(how, g[n], e)
  BY <1>2, <1>5 DEF Adding
<1> QED
  BY <1>1, <1>2, <1>4, <1>5, <1>7, <1>8

-----------------------------------------------------------------------------
(* Sequences of entries.                                                   *)

(* A set that holds the empty sequence and whatever one more item makes of *)
(* a member holds all sequences.                                           *)
LEMMA AllSequences ==
  ASSUME NEW E, NEW T, <<>> \in T, \A s \in Seq(E), e \in E : s \in T => Append(s, e) \in T
  PROVE  \A s \in Seq(E) : s \in T
<1> DEFINE N == {n \in Nat : \A s \in Seq(E) : Len(s) = n => s \in T}
<1>1. 0 \in N
  <2>1. \A s \in Seq(E) : Len(s) = 0 => s = <<>>
    BY EmptySeq
  <2> QED
    BY <2>1
<1>2. ASSUME NEW n \in N PROVE n + 1 \in N
  <2>1. ASSUME NEW s \in Seq(E), Len(s) = n + 1 PROVE s \in T
    <3>1. n \in Nat /\ s # <<>>
      BY <1>2, <2>1
    <3>2. PICK t \in Seq(E), e \in E : s = Append(t, e)
      BY <3>1, SequenceEmptyOrAppend
    <3>3. Len(t) = n
      BY <2>1, <3>1, <3>2, AppendProperties
    <3>4. t \in T
      BY <1>2, <3>2, <3>3
    <3> QED
      BY <3>2, <3>4
  <2> QED
    BY <1>2, <2>1
<1> HIDE DEF N
<1>3. N \in SUBSET Nat
  BY DEF N
<1>4. N = Nat
  BY <1>1, <1>2, <1>3, FromZeroUp
<1> QED
  BY <1>4, LenProperties DEF N

(* One entry, inserted unless its key is there.                            *)
LEMMA HasKeyAppend ==
  ASSUME NEW E, NEW es \in Seq(E), NEW e \in E, NEW k
  PROVE  HasKey(Append(es, e), k) <=> HasKey(es, k) \/ e.key = k
<1>1. /\ Append(es, e) \in Seq(E) /\ Len(Append(es, e)) = Len(es) + 1
      /\ \A n \in 1 .. Len(es) : Append(es, e)[n] = es[n]
      /\ Append(es, e)[Len(es) + 1] = e
  BY AppendProperties
<1>2. Len(es) \in Nat /\ DOMAIN es = 1 .. Len(es) /\ DOMAIN Append(es, e) = 1 .. Len(es) + 1
  BY <1>1, LenProperties
<1>3. HasKey(Append(es, e), k) => HasKey(es, k) \/ e.key = k
  <2>1. ASSUME NEW n \in DOMAIN Append(es, e) PROVE n \in DOMAIN es \/ n = Len(es) + 1
    BY <1>2, <2>1
  <2> QED
    BY <1>1, <1>2, <2>1 DEF HasKey
<1>4. HasKey(es, k) => HasKey(Append(es, e), k)
  <2>1. ASSUME NEW n \in DOMAIN es PROVE n \in DOMAIN Append(es, e) /\ Append(es, e)[n] = es[n]
    BY <1>1, <1>2, <2>1
  <2> QED
    BY <2>1 DEF HasKey
<1>5. Len(es) + 1 \in DOMAIN Append(es, e)
  BY <1>2
<1> QED
  BY <1>1, <1>3, <1>4, <1>5 DEF HasKey

(* Inserting gives entries.                                                *)
LEMMA InsertOneType ==
  ASSUME NEW E, NEW es \in Seq(E), NEW e \in E
  PROVE  InsertOne(es, e) \in Seq(E)
BY AppendProperties DEF InsertOne

(* Inserting adds the key of the entry, and no other.                      *)
LEMMA HasKeyInsertOne ==
  ASSUME NEW E, NEW es \in Seq(E), NEW e \in E, NEW k
  PROVE  HasKey(InsertOne(es, e), k) <=> HasKey(es, k) \/ e.key = k
<1>1. CASE HasKey(es, e.key)
  BY <1>1 DEF InsertOne
<1>2. CASE ~HasKey(es, e.key)
  <2>1. InsertOne(es, e) = Append(es, e)
    BY <1>2 DEF InsertOne
  <2> QED
    BY <2>1, HasKeyAppend
<1> QED
  BY <1>1, <1>2

(* What is missing, inserted: its keys, and in which order it is done.     *)
LEMMA InsertMissingType ==
  ASSUME NEW E, NEW es \in Seq(E)
  PROVE  \A a \in Seq(E) : InsertMissing(es, a) \in Seq(E)
<1> DEFINE T == {a \in Seq(E) : InsertMissing(es, a) \in Seq(E)}
<1>1. <<>> \in T
  BY InsertMissingNone, EmptySeq
<1>2. ASSUME NEW a \in Seq(E), NEW e \in E, a \in T PROVE Append(a, e) \in T
  <2>1. Append(a, e) \in Seq(E)
    BY AppendProperties
  <2>2. InsertMissing(es, Append(a, e)) = InsertOne(InsertMissing(es, a), e)
    BY InsertMissingNext
  <2> QED
    BY <1>2, <2>1, <2>2, InsertOneType
<1> HIDE DEF T
<1>3. \A a \in Seq(E) : a \in T
  BY <1>1, <1>2, AllSequences
<1> QED
  BY <1>3 DEF T

(* Inserting entries adds their keys, and no other.                        *)
LEMMA HasKeyInsertMissing ==
  ASSUME NEW E, NEW es \in Seq(E)
  PROVE  \A a \in Seq(E) : \A k : HasKey(InsertMissing(es, a), k) <=> HasKey(es, k) \/ HasKey(a, k)
<1> DEFINE P(a) == \A k : HasKey(InsertMissing(es, a), k) <=> HasKey(es, k) \/ HasKey(a, k)
           T == {a \in Seq(E) : P(a)}
<1>1. P(<<>>)
  BY InsertMissingNone DEF HasKey
<1>2. <<>> \in T
  BY <1>1, EmptySeq
<1>3. ASSUME NEW a \in Seq(E), NEW e \in E, P(a) PROVE P(Append(a, e))
  <2>1. ASSUME NEW k
        PROVE  HasKey(InsertMissing(es, Append(a, e)), k) <=> HasKey(es, k) \/ HasKey(Append(a, e), k)
    <3>1. InsertMissing(es, Append(a, e)) = InsertOne(InsertMissing(es, a), e)
      BY InsertMissingNext
    <3>2. InsertMissing(es, a) \in Seq(E)
      BY InsertMissingType
    <3>3. HasKey(InsertMissing(es, Append(a, e)), k) <=> HasKey(InsertMissing(es, a), k) \/ e.key = k
      BY <3>1, <3>2, HasKeyInsertOne
    <3>4. HasKey(Append(a, e), k) <=> HasKey(a, k) \/ e.key = k
      BY HasKeyAppend
    <3> QED
      BY <1>3, <3>3, <3>4
  <2> QED
    BY <2>1
<1>4. ASSUME NEW a \in Seq(E), NEW e \in E, a \in T PROVE Append(a, e) \in T
  <2>1. Append(a, e) \in Seq(E)
    BY AppendProperties
  <2> QED
    BY <1>3, <1>4, <2>1
<1>5. \A a \in Seq(E) : a \in T
  <2> HIDE DEF T
  <2> QED
    BY <1>2, <1>4, AllSequences
<1> QED
  BY <1>5

(* Entries inserted one group after the other are inserted as one group.   *)
LEMMA InsertMissingAssociates ==
  ASSUME NEW E, NEW es \in Seq(E), NEW a \in Seq(E)
  PROVE  \A b \in Seq(E) :
           InsertMissing(InsertMissing(es, a), b) = InsertMissing(es, InsertMissing(a, b))
<1> DEFINE T == {b \in Seq(E) :
                   InsertMissing(InsertMissing(es, a), b) = InsertMissing(es, InsertMissing(a, b))}
<1>1. <<>> \in T
  BY InsertMissingNone, EmptySeq
<1>2. ASSUME NEW b \in Seq(E), NEW e \in E, b \in T PROVE Append(b, e) \in T
  <2>1. PICK c : c = InsertMissing(a, b)
    OBVIOUS
  <2>2. c \in Seq(E) /\ InsertMissing(es, c) \in Seq(E) /\ InsertMissing(es, a) \in Seq(E)
    BY <2>1, InsertMissingType
  <2>3. InsertMissing(InsertMissing(es, a), Append(b, e)) = InsertOne(InsertMissing(es, c), e)
    <3>1. InsertMissing(InsertMissing(es, a), Append(b, e))
            = InsertOne(InsertMissing(InsertMissing(es, a), b), e)
      BY <2>2, InsertMissingNext
    <3> QED
      BY <1>2, <2>1, <3>1
  <2>4. InsertMissing(a, Append(b, e)) = InsertOne(c, e)
    BY <2>1, InsertMissingNext
  <2>5. InsertOne(InsertMissing(es, c), e) = InsertMissing(es, InsertOne(c, e))
    <3>1. CASE HasKey(c, e.key)
      <4>1. HasKey(InsertMissing(es, c), e.key)
        BY <2>2, <3>1, HasKeyInsertMissing
      <4> QED
        BY <3>1, <4>1 DEF InsertOne
    <3>2. CASE ~HasKey(c, e.key)
      <4>1. InsertOne(c, e) = Append(c, e)
        BY <3>2 DEF InsertOne
      <4> QED
        BY <2>2, <4>1, InsertMissingNext
    <3> QED
      BY <3>1, <3>2
  <2>6. Append(b, e) \in Seq(E)
    BY AppendProperties
  <2> QED
    BY <2>3, <2>4, <2>5, <2>6
<1> HIDE DEF T
<1>3. \A b \in Seq(E) : b \in T
  BY <1>1, <1>2, AllSequences
<1> QED
  BY <1>3 DEF T

-----------------------------------------------------------------------------
(* The loops over results: what they return, and that a payload expanded   *)
(* apart and inserted is the payload inserted result by result.            *)

Ways       == {"missing", "upsert", "extend"}
Outcomes   == {"none", "depth", "payload", "scalar", "recursive"}
Results(E) == [err : Outcomes, entries : Seq(E)]

(* The first of some places.                                               *)
LEMMA MinIsLeast ==
  ASSUME NEW T \in SUBSET Nat, T # {}
  PROVE  Min(T) \in T /\ \A n \in T : Min(T) <= n
<1>1. PICK m \in T : \A n \in T : m <= n
  BY LeastNumber
<1> QED
  BY <1>1 DEF Min

(* Replacing an entry gives entries.                                       *)
LEMMA UpsertOneType ==
  ASSUME NEW E, NEW es \in Seq(E), NEW e \in E
  PROVE  UpsertOne(es, e) \in Seq(E)
<1>1. CASE HasKey(es, e.key)
  <2> DEFINE P == {n \in DOMAIN es : es[n].key = e.key}
  <2>1. DOMAIN es = 1 .. Len(es) /\ P \in SUBSET Nat /\ P # {}
    BY <1>1, LenProperties DEF HasKey
  <2>2. Min(P) \in P
    BY <2>1, MinIsLeast
  <2>3. Position(es, e.key) \in 1 .. Len(es)
    BY <2>1, <2>2 DEF Position
  <2> QED
    BY <1>1, <2>3, ExceptSeq DEF UpsertOne
<1>2. CASE ~HasKey(es, e.key)
  BY <1>2, AppendProperties DEF UpsertOne
<1> QED
  BY <1>1, <1>2

(* Replacing entries gives entries.                                        *)
LEMMA UpsertType ==
  ASSUME NEW E, NEW es \in Seq(E)
  PROVE  \A a \in Seq(E) : Upsert(es, a) \in Seq(E)
<1> DEFINE T == {a \in Seq(E) : Upsert(es, a) \in Seq(E)}
<1>1. <<>> \in T
  BY UpsertNone, EmptySeq
<1>2. ASSUME NEW a \in Seq(E), NEW e \in E, a \in T PROVE Append(a, e) \in T
  <2>1. Append(a, e) \in Seq(E)
    BY AppendProperties
  <2>2. Upsert(es, Append(a, e)) = UpsertOne(Upsert(es, a), e)
    BY UpsertNext
  <2> QED
    BY <1>2, <2>1, <2>2, UpsertOneType
<1> HIDE DEF T
<1>3. \A a \in Seq(E) : a \in T
  BY <1>1, <1>2, AllSequences
<1> QED
  BY <1>3 DEF T

(* One round of a loop over payloads gives a result.                       *)
LEMMA AddResultType ==
  ASSUME NEW E, NEW how \in Ways, NEW s \in Results(E), NEW r \in Results(E)
  PROVE  AddResult(how, s, r) \in Results(E)
<1>1. s.entries \in Seq(E) /\ r.entries \in Seq(E)
  BY DEF Results
<1>2. InsertMissing(s.entries, r.entries) \in Seq(E)
  BY <1>1, InsertMissingType
<1>3. Upsert(s.entries, r.entries) \in Seq(E)
  BY <1>1, UpsertType
<1>4. s.entries \o r.entries \in Seq(E)
  BY <1>1, ConcatProperties
<1>5. Add(how, s.entries, r.entries) \in Seq(E)
  BY <1>2, <1>3, <1>4 DEF Ways, Add
<1> QED
  BY <1>5 DEF AddResult, Ok, Results, Outcomes

(* A loop over payloads gives a result.                                    *)
LEMMA AddAllType ==
  ASSUME NEW E, NEW how \in Ways, NEW es \in Seq(E)
  PROVE  \A R \in Seq(Results(E)) : AddAll(how, es, R) \in Results(E)
<1> DEFINE T == {R \in Seq(Results(E)) : AddAll(how, es, R) \in Results(E)}
<1>1. <<>> \in T
  <2>1. AddAll(how, es, <<>>) = Ok(es) /\ <<>> \in Seq(Results(E))
    BY AddAllNone, EmptySeq
  <2>2. Ok(es) \in Results(E)
    BY DEF Ok, Results, Outcomes
  <2> QED
    BY <2>1, <2>2
<1>2. ASSUME NEW R \in Seq(Results(E)), NEW r \in Results(E), R \in T PROVE Append(R, r) \in T
  <2>1. Append(R, r) \in Seq(Results(E))
    BY AppendProperties
  <2>2. AddAll(how, es, Append(R, r)) = AddResult(how, AddAll(how, es, R), r)
    BY AddAllNext
  <2> QED
    BY <1>2, <2>1, <2>2, AddResultType
<1> HIDE DEF T
<1>3. \A R \in Seq(Results(E)) : R \in T
  BY <1>1, <1>2, AllSequences
<1> QED
  BY <1>3 DEF T

(* A loop over one payload.                                                *)
LEMMA AddAllOne ==
  ASSUME NEW how, NEW es, NEW S, NEW r \in S
  PROVE  AddAll(how, es, <<r>>) = AddResult(how, Ok(es), r)
<1>1. PICK none : none = <<>>
  OBVIOUS
<1>2. Append(none, r) = <<r>>
  BY <1>1
<1>3. none \in Seq(S)
  BY <1>1
<1>4. AddAll(how, es, Append(none, r)) = AddResult(how, AddAll(how, es, none), r)
  BY <1>3, AddAllNext
<1>5. AddAll(how, es, none) = Ok(es)
  BY <1>1, AddAllNone
<1> QED
  BY <1>2, <1>4, <1>5

(* Inserting into some entries what is made of the results by themselves.  *)
Inserted(es, a) == IF Fails(a) THEN a ELSE Ok(InsertMissing(es, a.entries))

(* Inserting a payload into entries, or expanding it apart and inserting it*)
(* afterwards: one round.                                                  *)
LEMMA AddResultInserted ==
  ASSUME NEW E, NEW es \in Seq(E), NEW a \in Results(E), NEW r \in Results(E)
  PROVE  AddResult("missing", Inserted(es, a), r) = Inserted(es, AddResult("missing", a, r))
<1>1. a.entries \in Seq(E) /\ r.entries \in Seq(E)
  BY DEF Results
<1>2. CASE Fails(a)
  BY <1>2 DEF AddResult, Inserted
<1>3. CASE ~Fails(a) /\ Fails(r)
  BY <1>3 DEF AddResult, Inserted, Ok, Fails
<1>4. CASE ~Fails(a) /\ ~Fails(r)
  <2>1. InsertMissing(InsertMissing(es, a.entries), r.entries)
          = InsertMissing(es, InsertMissing(a.entries, r.entries))
    BY <1>1, InsertMissingAssociates
  <2> QED
    BY <1>4, <2>1 DEF AddResult, Inserted, Ok, Fails, Add
<1> QED
  BY <1>2, <1>3, <1>4

(* The same for the whole loop.                                            *)
LEMMA AddAllInserted ==
  ASSUME NEW E, NEW es \in Seq(E)
  PROVE  \A R \in Seq(Results(E)) :
           AddAll("missing", es, R) = Inserted(es, AddAll("missing", <<>>, R))
<1> DEFINE T == {R \in Seq(Results(E)) :
                   AddAll("missing", es, R) = Inserted(es, AddAll("missing", <<>>, R))}
<1>1. <<>> \in T
  <2>1. AddAll("missing", es, <<>>) = Ok(es) /\ AddAll("missing", <<>>, <<>>) = Ok(<<>>)
    BY AddAllNone
  <2>2. Inserted(es, Ok(<<>>)) = Ok(es)
    BY InsertMissingNone DEF Inserted, Ok, Fails
  <2> QED
    BY <2>1, <2>2, EmptySeq
<1>2. ASSUME NEW R \in Seq(Results(E)), NEW r \in Results(E), R \in T PROVE Append(R, r) \in T
  <2>1. Append(R, r) \in Seq(Results(E))
    BY AppendProperties
  <2>2. PICK a : a = AddAll("missing", <<>>, R)
    OBVIOUS
  <2>3. a \in Results(E)
    BY <2>2, AddAllType, EmptySeq DEF Ways
  <2>4. AddAll("missing", es, Append(R, r)) = AddResult("missing", AddAll("missing", es, R), r)
    BY AddAllNext
  <2>5. AddAll("missing", <<>>, Append(R, r)) = AddResult("missing", a, r)
    BY <2>2, AddAllNext
  <2>6. AddAll("missing", es, R) = Inserted(es, a)
    BY <1>2, <2>2
  <2> QED
    BY <2>1, <2>3, <2>4, <2>5, <2>6, AddResultInserted
<1> HIDE DEF T
<1>3. \A R \in Seq(Results(E)) : R \in T
  BY <1>1, <1>2, AllSequences
<1> QED
  BY <1>3 DEF T

-----------------------------------------------------------------------------
(* Documents that have been loaded: a mapping refers to earlier ones.      *)

Kinds    == {"map", "seq", "scalar", "tagged"}
Shapes   == {pay \in [kind : Kinds, refs : Seq(Nat)] :
               /\ pay.kind = "map" => Len(pay.refs) = 1 /\ pay.refs[1] # 0
               /\ pay.kind = "seq" => Len(pay.refs) # 0}
Written  == [key : Keys, pay : Shapes]
Placed   == [key : Keys, place : Nat \X Nat]
Result   == Results(Placed)
Document(d)    == d \in Seq(Seq(Written))
Below(pay, i)  == \A n \in DOMAIN pay.refs : pay.refs[n] < i
Backward(d)    == \A i \in DOMAIN d : \A p \in DOMAIN d[i] : Below(d[i][p].pay, i)
Depths         == 0 .. MaxMergeDepth

(* Tables that are of the same mind about the mappings before one.         *)
SameBelow(t, u, i) == \A j \in Nat : 0 < j /\ j < i => \A depth \in Depths : t[<<j, depth>>] = u[<<j, depth>>]

(* An entry of a document has a key and a payload.                         *)
LEMMA EntryOfDocument ==
  ASSUME NEW d, Document(d), NEW i \in DOMAIN d
  PROVE  /\ i \in Nat /\ i # 0 /\ Len(d) \in Nat /\ DOMAIN d = 1 .. Len(d)
         /\ d[i] \in Seq(Written) /\ Len(d[i]) \in Nat /\ DOMAIN d[i] = 1 .. Len(d[i])
         /\ \A p \in DOMAIN d[i] : d[i][p] \in Written
<1>1. DOMAIN d = 1 .. Len(d) /\ Len(d) \in Nat
  BY LenProperties DEF Document
<1>2. d[i] \in Seq(Written)
  BY <1>1, ElementOfSeq DEF Document
<1>3. Len(d[i]) \in Nat /\ DOMAIN d[i] = 1 .. Len(d[i])
  BY <1>2, LenProperties
<1>4. \A p \in DOMAIN d[i] : d[i][p] \in Written
  BY <1>2, <1>3, ElementOfSeq
<1> QED
  BY <1>1, <1>2, <1>3, <1>4

(* The first merge key is one of the mapping's.                            *)
LEMMA FirstMergeIn ==
  ASSUME NEW d, Document(d), NEW i \in DOMAIN d, Merges(d, i) # {}
  PROVE  FirstMerge(d, i) \in Merges(d, i) /\ FirstMerge(d, i) \in DOMAIN d[i]
<1>1. Merges(d, i) \in SUBSET Nat /\ Merges(d, i) \in SUBSET DOMAIN d[i]
  BY EntryOfDocument DEF Merges
<1> QED
  BY <1>1, MinIsLeast DEF FirstMerge

(* Its payload.                                                            *)
LEMMA PayloadOfDocument ==
  ASSUME NEW d, Document(d), NEW i \in DOMAIN d, NEW p \in DOMAIN d[i]
  PROVE  d[i][p].pay \in Shapes /\ d[i][p].key \in Keys
BY EntryOfDocument DEF Written

(* What a payload may look like.                                           *)
LEMMA ShapeFacts ==
  ASSUME NEW pay \in Shapes
  PROVE  /\ pay.kind \in Kinds /\ pay.refs \in Seq(Nat) /\ Len(pay.refs) \in Nat
         /\ DOMAIN pay.refs = 1 .. Len(pay.refs)
         /\ \A n \in DOMAIN pay.refs : pay.refs[n] \in Nat
         /\ pay.kind = "map" => /\ pay.refs = <<pay.refs[1]>> /\ pay.refs[1] # 0
                               /\ DOMAIN pay.refs = {1} /\ 1 \in DOMAIN pay.refs
<1>1. pay.kind \in Kinds /\ pay.refs \in Seq(Nat)
  BY DEF Shapes
<1>2. Len(pay.refs) \in Nat /\ DOMAIN pay.refs = 1 .. Len(pay.refs)
  BY <1>1, LenProperties
<1>3. \A n \in DOMAIN pay.refs : pay.refs[n] \in Nat
  BY <1>1, <1>2, ElementOfSeq
<1>4. pay.kind = "map" => Len(pay.refs) = 1 /\ pay.refs[1] # 0
  BY DEF Shapes
<1>5. ASSUME pay.kind = "map" PROVE pay.refs = <<pay.refs[1]>>
  <2>1. <<pay.refs[1]>> \in Seq(Nat) /\ Len(<<pay.refs[1]>>) = 1 /\ <<pay.refs[1]>>[1] = pay.refs[1]
    BY <1>2, <1>3, <1>4, <1>5
  <2> QED
    BY <1>1, <1>4, <1>5, <2>1, SeqEqual
<1>6. pay.kind = "map" => DOMAIN pay.refs = {1} /\ 1 \in DOMAIN pay.refs
  <2>1. 1 .. 1 = {1}
    OBVIOUS
  <2> QED
    BY <1>2, <1>4, <2>1
<1> QED
  BY <1>1, <1>2, <1>3, <1>4, <1>5, <1>6

(* A payload that can be merged refers to something.                       *)
LEMMA ShapeFilled ==
  ASSUME NEW pay \in Shapes, pay.kind \in {"map", "seq"}
  PROVE  1 \in DOMAIN pay.refs
<1>1. pay.kind = "seq" => Len(pay.refs) # 0
  BY DEF Shapes
<1> QED
  BY <1>1, ShapeFacts

(* The entries of a mapping, with their places.                            *)
LEMMA EntriesType ==
  ASSUME NEW d, Document(d), NEW i \in DOMAIN d
  PROVE  Entries(d, i) \in Seq(Placed) /\ Len(Entries(d, i)) = Len(d[i])
<1>1. /\ i \in Nat /\ Len(d[i]) \in Nat /\ DOMAIN d[i] = 1 .. Len(d[i])
      /\ \A p \in DOMAIN d[i] : d[i][p] \in Written
  BY EntryOfDocument
<1>2. \A p \in 1 .. Len(d[i]) : Own(d, i, p) \in Placed
  BY <1>1 DEF Own, Placed, Written
<1>3. Entries(d, i) = [p \in 1 .. Len(d[i]) |-> Own(d, i, p)]
  BY <1>1 DEF Entries
<1> QED
  BY <1>1, <1>2, <1>3

(* Leaving out entries leaves entries.                                     *)
LEMMA WithoutType ==
  ASSUME NEW E, NEW drop
  PROVE  \A es \in Seq(E) : Without(es, drop) \in Seq(E)
<1> DEFINE T == {es \in Seq(E) : Without(es, drop) \in Seq(E)}
<1>1. <<>> \in T
  BY WithoutNone, EmptySeq
<1>2. ASSUME NEW es \in Seq(E), NEW e \in E, es \in T PROVE Append(es, e) \in T
  <2>1. Append(es, e) \in Seq(E)
    BY AppendProperties
  <2>2. Without(Append(es, e), drop)
          = IF Len(es) + 1 \in drop THEN Without(es, drop) ELSE Append(Without(es, drop), e)
    BY WithoutNext
  <2> QED
    BY <1>2, <2>1, <2>2, AppendProperties
<1> HIDE DEF T
<1>3. \A es \in Seq(E) : es \in T
  BY <1>1, <1>2, AllSequences
<1> QED
  BY <1>3 DEF T

(* An error is a result.                                                   *)
LEMMA ErrType ==
  \A E : \A kind \in Outcomes : Err(kind) \in Results(E)
BY EmptySeq DEF Err, Results

(* What is made of a mapping depends on what is made of the mappings       *)
(* before it, and is a result.                                             *)
LEMMA SourcesAgree ==
  ASSUME NEW t, NEW u, NEW i \in Nat, SameBelow(t, u, i), NEW pay \in Shapes, Below(pay, i),
         NEW depth \in Depths
  PROVE  /\ MergeSources(t, pay, depth) = MergeSources(u, pay, depth)
         /\ \A n \in DOMAIN pay.refs : pay.refs[n] # 0 => t[<<pay.refs[n], depth>>] = u[<<pay.refs[n], depth>>]
<1>1. \A n \in DOMAIN pay.refs : pay.refs[n] \in Nat /\ pay.refs[n] < i
  BY ShapeFacts DEF Below
<1>2. \A n \in DOMAIN pay.refs : pay.refs[n] # 0 => t[<<pay.refs[n], depth>>] = u[<<pay.refs[n], depth>>]
  BY <1>1 DEF SameBelow
<1>3. \A n \in DOMAIN pay.refs : MergeSource(t, pay.refs[n], depth) = MergeSource(u, pay.refs[n], depth)
  BY <1>2 DEF MergeSource
<1> QED
  BY <1>2, <1>3 DEF MergeSources

(* ... hence the same strict expansion of it ...                           *)
LEMMA StrictAgrees ==
  ASSUME NEW d, Document(d), Backward(d), NEW i \in DOMAIN d, NEW depth \in Depths,
         NEW t, NEW u, SameBelow(t, u, i)
  PROVE  StrictEntries(t, d, i, depth) = StrictEntries(u, d, i, depth)
<1>1. CASE Merges(d, i) = {}
  BY <1>1 DEF StrictEntries
<1>2. CASE Merges(d, i) # {}
  <2>1. PICK m : m = FirstMerge(d, i)
    OBVIOUS
  <2>2. m \in DOMAIN d[i] /\ i \in Nat
    BY <1>2, <2>1, FirstMergeIn, EntryOfDocument
  <2>3. d[i][m].pay \in Shapes /\ Below(d[i][m].pay, i)
    BY <2>2, PayloadOfDocument DEF Backward
  <2>4. CASE TooDeep(depth + 1)
    BY <1>2, <2>4 DEF StrictEntries, MergeNodeMapping
  <2>5. CASE ~TooDeep(depth + 1)
    <3>1. depth + 1 \in Depths
      BY <2>5, MergeKeysAssumption DEF TooDeep, Depths
    <3>2. MergeSources(t, d[i][m].pay, depth + 1) = MergeSources(u, d[i][m].pay, depth + 1)
      BY <2>2, <2>3, <3>1, SourcesAgree
    <3> QED
      BY <1>2, <2>1, <3>2 DEF StrictEntries, MergeNodeMapping
  <2> QED
    BY <2>4, <2>5
<1> QED
  BY <1>1, <1>2

(* ... the same sources by reference ...                                   *)
LEMMA BorrowedSources ==
  ASSUME NEW t, NEW d, NEW pay \in Shapes, NEW depth, pay.kind \in {"map", "seq"}
  PROVE  RefMergeEntries(t, d, pay, depth)
           = IF TooDeep(depth) THEN Err("depth")
             ELSE IF pay.kind = "map" THEN MergeSource(t, pay.refs[1], depth)
             ELSE AddAll("missing", <<>>, MergeSources(t, pay, depth))
<1>1. \A n : BorrowedSource(t, d, pay.refs[n], depth) = MergeSource(t, pay.refs[n], depth)
  BY DEF BorrowedSource, MergeSource
<1>2. [n \in DOMAIN pay.refs |-> BorrowedSource(t, d, pay.refs[n], depth)] = MergeSources(t, pay, depth)
  BY <1>1 DEF MergeSources
<1>3. CASE pay.kind = "map"
  BY <1>1, <1>3 DEF RefMergeEntries
<1>4. CASE pay.kind = "seq"
  BY <1>2, <1>4 DEF RefMergeEntries
<1> QED
  BY <1>3, <1>4

(* ... the same expansion by reference ...                                 *)
LEMMA BorrowedAgrees ==
  ASSUME NEW d, Document(d), Backward(d), NEW i \in DOMAIN d, NEW depth \in Depths,
         NEW t, NEW u, SameBelow(t, u, i)
  PROVE  BorrowedEntries(t, d, i, depth) = BorrowedEntries(u, d, i, depth)
<1>1. CASE Merges(d, i) = {}
  BY <1>1 DEF BorrowedEntries
<1>2. CASE Merges(d, i) # {}
  <2>1. PICK m, pay : m = FirstMerge(d, i) /\ pay = d[i][m].pay
    OBVIOUS
  <2>2. m \in DOMAIN d[i] /\ i \in Nat
    BY <1>2, <2>1, FirstMergeIn, EntryOfDocument
  <2>3. pay \in Shapes /\ Below(pay, i)
    BY <2>1, <2>2, PayloadOfDocument DEF Backward
  <2>4. RefMergeEntries(t, d, pay, depth + 1) = RefMergeEntries(u, d, pay, depth + 1)
    <3>1. CASE TooDeep(depth + 1)
      BY <3>1 DEF RefMergeEntries
    <3>2. CASE pay.kind \notin {"map", "seq"}
      BY <3>2 DEF RefMergeEntries
    <3>3. CASE ~TooDeep(depth + 1) /\ pay.kind \in {"map", "seq"}
      <4>1. depth + 1 \in Depths
        BY <3>3, MergeKeysAssumption DEF TooDeep, Depths
      <4>2. /\ MergeSources(t, pay, depth + 1) = MergeSources(u, pay, depth + 1)
            /\ \A n \in DOMAIN pay.refs :
                 pay.refs[n] # 0 => t[<<pay.refs[n], depth + 1>>] = u[<<pay.refs[n], depth + 1>>]
        BY <2>2, <2>3, <4>1, SourcesAgree
      <4>3. pay.kind = "map" => MergeSource(t, pay.refs[1], depth + 1) = MergeSource(u, pay.refs[1], depth + 1)
        BY <2>3, <4>2, ShapeFacts DEF MergeSource
      <4> QED
        BY <2>3, <3>3, <4>2, <4>3, BorrowedSources
    <3> QED
      BY <3>1, <3>2, <3>3
  <2> QED
    BY <1>2, <2>1, <2>4 DEF BorrowedEntries
<1> QED
  BY <1>1, <1>2

(* ... and the same expansion under YAML 1.1.                              *)
LEMMA Yaml11Agrees ==
  ASSUME NEW d, Document(d), Backward(d), NEW i \in DOMAIN d, NEW depth \in Depths,
         NEW t, NEW u, SameBelow(t, u, i)
  PROVE  Yaml11Entries(t, d, i, depth) = Yaml11Entries(u, d, i, depth)
<1>1. ASSUME NEW p \in DOMAIN d[i]
      PROVE  Yaml11Merged(t, d[i][p], depth + 1) = Yaml11Merged(u, d[i][p], depth + 1)
  <2>1. PICK pay : pay = d[i][p].pay
    OBVIOUS
  <2>2. pay \in Shapes /\ Below(pay, i) /\ i \in Nat
    BY <2>1, PayloadOfDocument, EntryOfDocument DEF Backward
  <2>3. CASE ~MergesIn(d[i][p])
    BY <2>3 DEF Yaml11Merged
  <2>4. CASE TooDeep(depth + 1)
    BY <2>4 DEF Yaml11Merged, Yaml11MergeEntries
  <2>5. CASE MergesIn(d[i][p]) /\ ~TooDeep(depth + 1)
    <3>1. depth + 1 \in Depths
      BY <2>5, MergeKeysAssumption DEF TooDeep, Depths
    <3>2. \A n \in DOMAIN pay.refs : pay.refs[n] # 0
      BY <2>1, <2>5 DEF MergesIn, Mergeable
    <3>3. \A n \in DOMAIN pay.refs : t[<<pay.refs[n], depth + 1>>] = u[<<pay.refs[n], depth + 1>>]
      BY <2>2, <3>1, <3>2, SourcesAgree
    <3>4. [n \in DOMAIN pay.refs |-> t[<<pay.refs[n], depth + 1>>]]
            = [n \in DOMAIN pay.refs |-> u[<<pay.refs[n], depth + 1>>]]
      BY <3>3
    <3>5. pay.kind = "map" => t[<<pay.refs[1], depth + 1>>] = u[<<pay.refs[1], depth + 1>>]
      BY <2>2, <3>3, ShapeFacts
    <3>6. Yaml11MergeEntries(t, pay, depth + 1) = Yaml11MergeEntries(u, pay, depth + 1)
      BY <3>4, <3>5 DEF Yaml11MergeEntries
    <3> QED
      BY <2>1, <3>6 DEF Yaml11Merged
  <2> QED
    BY <2>3, <2>4, <2>5
<1>2. [p \in DOMAIN d[i] |-> Yaml11Merged(t, d[i][p], depth + 1)]
        = [p \in DOMAIN d[i] |-> Yaml11Merged(u, d[i][p], depth + 1)]
  BY <1>1
<1> QED
  BY <1>2 DEF Yaml11Entries

(* So every way of expanding a mapping depends on those before it only.    *)
LEMMA ExpandedAgrees ==
  ASSUME NEW way \in {"strict", "yaml11", "borrowed"},
         NEW d, Document(d), Backward(d), NEW i \in DOMAIN d, NEW depth \in Depths,
         NEW t, NEW u, SameBelow(t, u, i)
  PROVE  ExpandedEntries(way, t, d, i, depth) = ExpandedEntries(way, u, d, i, depth)
<1>1. StrictEntries(t, d, i, depth) = StrictEntries(u, d, i, depth)
  BY StrictAgrees
<1>2. Yaml11Entries(t, d, i, depth) = Yaml11Entries(u, d, i, depth)
  BY Yaml11Agrees
<1>3. BorrowedEntries(t, d, i, depth) = BorrowedEntries(u, d, i, depth)
  BY BorrowedAgrees
<1> QED
  BY <1>1, <1>2, <1>3 DEF ExpandedEntries

(* Tables there are, and Expanded reads one off.                           *)
Tables(way, d, t) ==
  t = [x \in (DOMAIN d) \X (0 .. MaxMergeDepth) |-> ExpandedEntries(way, t, d, x[1], x[2])]

TableUpTo(way, d, n, t) ==
  \A i \in DOMAIN d : \A depth \in Depths : i <= n => t[<<i, depth>>] = ExpandedEntries(way, t, d, i, depth)

(* The table of expansions exists for the first mappings of a document, by *)
(* induction on their number ...                                           *)
LEMMA TablesUpTo ==
  ASSUME NEW way \in {"strict", "yaml11", "borrowed"}, NEW d, Document(d), Backward(d)
  PROVE  \A n \in Nat : \E t : TableUpTo(way, d, n, t)
<1> DEFINE T == {n \in Nat : \E t : TableUpTo(way, d, n, t)}
<1>1. 0 \in T
  <2>1. \A t : TableUpTo(way, d, 0, t)
    BY EntryOfDocument DEF TableUpTo
  <2> QED
    BY <2>1
<1>2. ASSUME NEW n \in T PROVE n + 1 \in T
  <2>1. PICK t : TableUpTo(way, d, n, t)
    BY <1>2
  <2>2. PICK u : u = [x \in (DOMAIN d) \X Depths |->
                        IF x[1] = n + 1 THEN ExpandedEntries(way, t, d, x[1], x[2]) ELSE t[x]]
    OBVIOUS
  <2>3. \A i \in DOMAIN d : \A depth \in Depths :
          u[<<i, depth>>] = IF i = n + 1 THEN ExpandedEntries(way, t, d, i, depth) ELSE t[<<i, depth>>]
    BY <2>2
  <2>4. ASSUME NEW i \in DOMAIN d, NEW depth \in Depths, i <= n + 1
        PROVE  u[<<i, depth>>] = ExpandedEntries(way, u, d, i, depth)
    <3>1. i \in Nat /\ n \in Nat /\ DOMAIN d = 1 .. Len(d) /\ Len(d) \in Nat
      BY <1>2, EntryOfDocument
    <3>2. \A j \in Nat : 0 < j /\ j < i => j \in DOMAIN d /\ j # n + 1
      BY <2>4, <3>1
    <3>3. SameBelow(t, u, i)
      BY <2>3, <3>2 DEF SameBelow
    <3>4. ExpandedEntries(way, t, d, i, depth) = ExpandedEntries(way, u, d, i, depth)
      BY <3>3, ExpandedAgrees
    <3>5. i # n + 1 => t[<<i, depth>>] = ExpandedEntries(way, t, d, i, depth)
      BY <2>1, <2>4, <3>1 DEF TableUpTo
    <3> QED
      BY <2>3, <3>4, <3>5
  <2>5. TableUpTo(way, d, n + 1, u)
    BY <2>4 DEF TableUpTo
  <2> QED
    BY <1>2, <2>5
<1> HIDE DEF T
<1>3. T \in SUBSET Nat
  BY DEF T
<1>4. T = Nat
  BY <1>1, <1>2, <1>3, FromZeroUp
<1> QED
  BY <1>4 DEF T

(* ... hence for all of them,                                              *)
LEMMA TablesExist ==
  ASSUME NEW way \in {"strict", "yaml11", "borrowed"}, NEW d, Document(d), Backward(d)
  PROVE  \E t : Tables(way, d, t)
<1>1. Len(d) \in Nat /\ DOMAIN d = 1 .. Len(d)
  BY LenProperties DEF Document
<1>2. PICK t : TableUpTo(way, d, Len(d), t)
  BY <1>1, TablesUpTo
<1>3. PICK u : u = [x \in (DOMAIN d) \X (0 .. MaxMergeDepth) |-> t[x]]
  OBVIOUS
<1>4. \A i \in DOMAIN d : \A depth \in Depths : u[<<i, depth>>] = t[<<i, depth>>]
  BY <1>3 DEF Depths
<1>5. ASSUME NEW i \in DOMAIN d, NEW depth \in Depths
      PROVE  t[<<i, depth>>] = ExpandedEntries(way, u, d, i, depth)
  <2>1. i <= Len(d) /\ i \in Nat
    BY <1>1
  <2>2. \A j \in Nat : 0 < j /\ j < i => j \in DOMAIN d
    BY <1>1, <2>1
  <2>3. SameBelow(t, u, i)
    BY <1>4, <2>2 DEF SameBelow
  <2> QED
    BY <1>2, <2>1, <2>3, ExpandedAgrees DEF TableUpTo
<1>6. \A x \in (DOMAIN d) \X (0 .. MaxMergeDepth) : t[x] = ExpandedEntries(way, u, d, x[1], x[2])
  <2>1. ASSUME NEW x \in (DOMAIN d) \X (0 .. MaxMergeDepth)
        PROVE  t[x] = ExpandedEntries(way, u, d, x[1], x[2])
    <3>1. x = <<x[1], x[2]>> /\ x[1] \in DOMAIN d /\ x[2] \in Depths
      BY <2>1 DEF Depths
    <3> QED
      BY <1>5, <3>1
  <2> QED
    BY <2>1
<1>7. Tables(way, d, u)
  BY <1>3, <1>6 DEF Tables
<1> QED
  BY <1>7

(* and Expanded is what that table says.                                   *)
LEMMA ExpandedIs ==
  ASSUME NEW way \in {"strict", "yaml11", "borrowed"}, NEW d, Document(d), Backward(d)
  PROVE  \E t : /\ \A i \in DOMAIN d : \A depth \in Depths : t[<<i, depth>>] = ExpandedEntries(way, t, d, i, depth)
                /\ Expanded(way, d) = [i \in DOMAIN d |-> t[<<i, 0>>]]
<1> DEFINE g == CHOOSE t : Tables(way, d, t)
<1>1. Tables(way, d, g)
  BY TablesExist
<1>2. Expanded(way, d) = [i \in DOMAIN d |-> g[<<i, 0>>]]
  BY DEF Expanded, Tables
<1> HIDE DEF g
<1>3. ASSUME NEW i \in DOMAIN d, NEW depth \in Depths
      PROVE  g[<<i, depth>>] = ExpandedEntries(way, g, d, i, depth)
  BY <1>1 DEF Tables, Depths
<1> QED
  BY <1>2, <1>3

(* What is made of a mapping is a result.                                  *)
TypedBelow(t, i) == \A j \in Nat : 0 < j /\ j < i => \A depth \in Depths : t[<<j, depth>>] \in Result

(* The sources of a payload are results.                                   *)
LEMMA SourcesType ==
  ASSUME NEW t, NEW i \in Nat, TypedBelow(t, i), NEW pay \in Shapes, Below(pay, i), NEW depth \in Depths
  PROVE  /\ MergeSources(t, pay, depth) \in Seq(Result)
         /\ Len(MergeSources(t, pay, depth)) = Len(pay.refs)
         /\ \A n \in DOMAIN pay.refs : MergeSources(t, pay, depth)[n] = MergeSource(t, pay.refs[n], depth)
         /\ \A n \in DOMAIN pay.refs : MergeSource(t, pay.refs[n], depth) \in Result
         /\ \A n \in DOMAIN pay.refs : pay.refs[n] # 0 => t[<<pay.refs[n], depth>>] \in Result
<1>1. /\ Len(pay.refs) \in Nat /\ DOMAIN pay.refs = 1 .. Len(pay.refs)
      /\ \A n \in DOMAIN pay.refs : pay.refs[n] \in Nat /\ pay.refs[n] < i
  BY ShapeFacts DEF Below
<1>2. \A n \in DOMAIN pay.refs : pay.refs[n] # 0 => t[<<pay.refs[n], depth>>] \in Result
  BY <1>1 DEF TypedBelow
<1>3. Err("payload") \in Result
  BY ErrType DEF Result, Outcomes
<1>4. \A n \in DOMAIN pay.refs : MergeSource(t, pay.refs[n], depth) \in Result
  BY <1>2, <1>3 DEF MergeSource
<1>5. MergeSources(t, pay, depth) = [n \in 1 .. Len(pay.refs) |-> MergeSource(t, pay.refs[n], depth)]
  BY <1>1 DEF MergeSources
<1>6. MergeSources(t, pay, depth) \in Seq(Result) /\ Len(MergeSources(t, pay, depth)) = Len(pay.refs)
  BY <1>1, <1>4, <1>5
<1> QED
  BY <1>1, <1>2, <1>4, <1>5, <1>6

(* What a result is.                                                       *)
LEMMA ResultFacts ==
  ASSUME NEW es \in Seq(Placed)
  PROVE  Ok(es) \in Result
BY DEF Ok, Result, Results, Outcomes

(* The entries of a mapping but some.                                      *)
LEMMA EntriesWithoutType ==
  ASSUME NEW d, Document(d), NEW i \in DOMAIN d, NEW drop
  PROVE  Without(Entries(d, i), drop) \in Seq(Placed)
BY EntriesType, WithoutType

(* Strict expansion gives a result.                                        *)
LEMMA StrictType ==
  ASSUME NEW d, Document(d), Backward(d), NEW i \in DOMAIN d, NEW depth \in Depths,
         NEW t, TypedBelow(t, i)
  PROVE  StrictEntries(t, d, i, depth) \in Result
<1>1. CASE Merges(d, i) = {}
  BY <1>1, EntriesType, ResultFacts DEF StrictEntries
<1>2. CASE Merges(d, i) # {}
  <2>1. PICK m, pay : m = FirstMerge(d, i) /\ pay = d[i][m].pay
    OBVIOUS
  <2>2. m \in DOMAIN d[i] /\ i \in Nat
    BY <1>2, <2>1, FirstMergeIn, EntryOfDocument
  <2>3. pay \in Shapes /\ Below(pay, i)
    BY <2>1, <2>2, PayloadOfDocument DEF Backward
  <2>4. Without(Entries(d, i), {m}) \in Seq(Placed)
    BY EntriesWithoutType
  <2>5. Err("depth") \in Result /\ Err("payload") \in Result
    BY ErrType DEF Result, Outcomes
  <2>6. CASE TooDeep(depth + 1) \/ pay.kind \notin {"map", "seq"}
    BY <1>2, <2>1, <2>5, <2>6 DEF StrictEntries, MergeNodeMapping
  <2>7. CASE ~TooDeep(depth + 1) /\ pay.kind \in {"map", "seq"}
    <3>1. depth + 1 \in Depths
      BY <2>7, MergeKeysAssumption DEF TooDeep, Depths
    <3>2. MergeSources(t, pay, depth + 1) \in Seq(Result)
      BY <2>2, <2>3, <3>1, SourcesType
    <3>3. AddAll("missing", Without(Entries(d, i), {m}), MergeSources(t, pay, depth + 1)) \in Result
      BY <2>4, <3>2, AddAllType DEF Ways, Result
    <3> QED
      BY <1>2, <2>1, <2>7, <3>3 DEF StrictEntries, MergeNodeMapping
  <2> QED
    BY <2>6, <2>7
<1> QED
  BY <1>1, <1>2

(* So does a merge key under YAML 1.1,                                     *)
LEMMA Yaml11MergedType ==
  ASSUME NEW d, Document(d), Backward(d), NEW i \in DOMAIN d, NEW depth \in Depths,
         NEW t, TypedBelow(t, i), NEW p \in DOMAIN d[i]
  PROVE  Yaml11Merged(t, d[i][p], depth + 1) \in Result
<1>1. PICK pay : pay = d[i][p].pay
  OBVIOUS
<1>2. pay \in Shapes /\ Below(pay, i) /\ i \in Nat
  BY <1>1, PayloadOfDocument, EntryOfDocument DEF Backward
<1>3. CASE ~MergesIn(d[i][p])
  BY <1>3, ResultFacts, EmptySeq DEF Yaml11Merged
<1>4. CASE MergesIn(d[i][p]) /\ TooDeep(depth + 1)
  BY <1>4, ErrType DEF Yaml11Merged, Yaml11MergeEntries, Result, Outcomes
<1>5. CASE MergesIn(d[i][p]) /\ ~TooDeep(depth + 1)
  <2>1. depth + 1 \in Depths
    BY <1>5, MergeKeysAssumption DEF TooDeep, Depths
  <2>2. \A n \in DOMAIN pay.refs : pay.refs[n] # 0
    BY <1>1, <1>5 DEF MergesIn, Mergeable
  <2>3. /\ MergeSources(t, pay, depth + 1) \in Seq(Result)
        /\ \A n \in DOMAIN pay.refs : t[<<pay.refs[n], depth + 1>>] \in Result
    BY <1>2, <2>1, <2>2, SourcesType
  <2>4. [n \in DOMAIN pay.refs |-> t[<<pay.refs[n], depth + 1>>]] = MergeSources(t, pay, depth + 1)
    BY <2>2 DEF MergeSources, MergeSource
  <2>5. AddAll("missing", <<>>, [n \in DOMAIN pay.refs |-> t[<<pay.refs[n], depth + 1>>]]) \in Result
    <3>1. AddAll("missing", <<>>, MergeSources(t, pay, depth + 1)) \in Result
      BY <2>3, AddAllType, EmptySeq DEF Ways, Result
    <3> QED
      BY <2>4, <3>1
  <2>6. pay.kind = "map" => t[<<pay.refs[1], depth + 1>>] \in Result
    BY <1>2, <2>3, ShapeFacts
  <2> QED
    BY <1>1, <1>5, <2>5, <2>6 DEF Yaml11Merged, Yaml11MergeEntries
<1> QED
  BY <1>3, <1>4, <1>5

(* all of them,                                                            *)
LEMMA Yaml11MergesType ==
  ASSUME NEW d, Document(d), Backward(d), NEW i \in DOMAIN d, NEW depth \in Depths,
         NEW t, TypedBelow(t, i), NEW merges, merges = [p \in DOMAIN d[i] |-> Yaml11Merged(t, d[i][p], depth + 1)]
  PROVE  merges \in Seq(Result) /\ Len(merges) = Len(d[i]) /\ AddAll("upsert", <<>>, merges) \in Result
<1>1. DOMAIN d[i] = 1 .. Len(d[i]) /\ Len(d[i]) \in Nat
  BY EntryOfDocument
<1>2. \A p \in DOMAIN d[i] : Yaml11Merged(t, d[i][p], depth + 1) \in Result
  BY Yaml11MergedType
<1>3. merges \in Seq(Result) /\ Len(merges) = Len(d[i])
  BY <1>1, <1>2
<1> QED
  BY <1>3, AddAllType, EmptySeq DEF Ways, Result

(* and the whole mapping.                                                  *)
LEMMA Yaml11Type ==
  ASSUME NEW d, Document(d), Backward(d), NEW i \in DOMAIN d, NEW depth \in Depths,
         NEW t, TypedBelow(t, i)
  PROVE  Yaml11Entries(t, d, i, depth) \in Result
<1>1. PICK merges : merges = [p \in DOMAIN d[i] |-> Yaml11Merged(t, d[i][p], depth + 1)]
  OBVIOUS
<1>2. PICK merged : merged = AddAll("upsert", <<>>, merges)
  OBVIOUS
<1>3. merged \in Result
  BY <1>1, <1>2, Yaml11MergesType
<1>4. PICK explicit : explicit = Without(Entries(d, i), {p \in DOMAIN d[i] : MergesIn(d[i][p])})
  OBVIOUS
<1>5. explicit \in Seq(Placed)
  BY <1>4, EntriesWithoutType
<1>6. InsertMissing(explicit, merged.entries) \in Seq(Placed)
  BY <1>3, <1>5, InsertMissingType DEF Result, Results
<1>7. Yaml11Entries(t, d, i, depth) = IF Fails(merged) THEN merged ELSE Ok(InsertMissing(explicit, merged.entries))
  BY <1>1, <1>2, <1>4 DEF Yaml11Entries
<1> QED
  BY <1>3, <1>6, <1>7, ResultFacts

(* The owned expansion puts the items of a payload into the mapping one by *)
(* one, the borrowed one collects them first: it comes to the same.        *)
LEMMA StrictIsBorrowed ==
  ASSUME NEW d, Document(d), Backward(d), NEW i \in DOMAIN d, NEW depth \in Depths,
         NEW t, TypedBelow(t, i)
  PROVE  StrictEntries(t, d, i, depth) = BorrowedEntries(t, d, i, depth)
<1>1. CASE Merges(d, i) = {}
  BY <1>1 DEF StrictEntries, BorrowedEntries
<1>2. CASE Merges(d, i) # {}
  <2>1. PICK m, pay, es : m = FirstMerge(d, i) /\ pay = d[i][m].pay /\ es = Without(Entries(d, i), {m})
    OBVIOUS
  <2>2. m \in DOMAIN d[i] /\ i \in Nat
    BY <1>2, <2>1, FirstMergeIn, EntryOfDocument
  <2>3. pay \in Shapes /\ Below(pay, i)
    BY <2>1, <2>2, PayloadOfDocument DEF Backward
  <2>4. es \in Seq(Placed)
    BY <2>1, EntriesWithoutType
  <2>5. StrictEntries(t, d, i, depth) = MergeNodeMapping(t, es, pay, depth + 1)
    BY <1>2, <2>1 DEF StrictEntries
  <2>6. BorrowedEntries(t, d, i, depth) = Inserted(es, RefMergeEntries(t, d, pay, depth + 1))
    BY <1>2, <2>1 DEF BorrowedEntries, Inserted
  <2>7. CASE TooDeep(depth + 1)
    BY <2>5, <2>6, <2>7 DEF MergeNodeMapping, RefMergeEntries, Inserted, Fails, Err
  <2>8. CASE ~TooDeep(depth + 1) /\ pay.kind \notin {"map", "seq"}
    BY <2>5, <2>6, <2>8 DEF MergeNodeMapping, RefMergeEntries, Inserted, Fails, Err
  <2>9. CASE ~TooDeep(depth + 1) /\ pay.kind \in {"map", "seq"}
    <3>1. depth + 1 \in Depths
      BY <2>9, MergeKeysAssumption DEF TooDeep, Depths
    <3>2. PICK R : R = MergeSources(t, pay, depth + 1)
      OBVIOUS
    <3>3. /\ R \in Seq(Result) /\ Len(R) = Len(pay.refs)
          /\ \A n \in DOMAIN pay.refs : R[n] = MergeSource(t, pay.refs[n], depth + 1)
          /\ \A n \in DOMAIN pay.refs : MergeSource(t, pay.refs[n], depth + 1) \in Result
      BY <2>2, <2>3, <3>1, <3>2, SourcesType
    <3>4. StrictEntries(t, d, i, depth) = AddAll("missing", es, R)
      BY <2>5, <2>9, <3>2 DEF MergeNodeMapping
    <3>5. RefMergeEntries(t, d, pay, depth + 1)
            = IF pay.kind = "map" THEN MergeSource(t, pay.refs[1], depth + 1) ELSE AddAll("missing", <<>>, R)
      BY <2>3, <2>9, <3>2, BorrowedSources
    <3>6. CASE pay.kind = "seq"
      <4>1. AddAll("missing", es, R) = Inserted(es, AddAll("missing", <<>>, R))
        BY <2>4, <3>3, AddAllInserted DEF Result
      <4> QED
        BY <2>6, <3>4, <3>5, <3>6, <4>1
    <3>7. CASE pay.kind = "map"
      <4>1. PICK r : r = MergeSource(t, pay.refs[1], depth + 1)
        OBVIOUS
      <4>2. /\ r \in Result /\ Len(R) = 1 /\ R[1] = r
        BY <2>3, <3>3, <3>7, <4>1, ShapeFacts DEF Shapes
      <4>3. R = <<r>>
        <5>1. <<r>> \in Seq(Result) /\ Len(<<r>>) = 1 /\ <<r>>[1] = r
          BY <4>2
        <5> QED
          BY <3>3, <4>2, <5>1, SeqEqual
      <4>4. AddAll("missing", es, R) = AddResult("missing", Ok(es), r)
        BY <4>2, <4>3, AddAllOne
      <4>5. AddResult("missing", Ok(es), r) = Inserted(es, r)
        BY DEF AddResult, Inserted, Ok, Fails, Add
      <4> QED
        BY <2>6, <3>4, <3>5, <3>7, <4>1, <4>4, <4>5
    <3> QED
      BY <2>9, <3>6, <3>7
  <2> QED
    BY <2>7, <2>8, <2>9
<1> QED
  BY <1>1, <1>2

(* All of a table is results, and the owned and the borrowed one are one.  *)
Solves(way, d, t) ==
  \A i \in DOMAIN d : \A depth \in Depths : t[<<i, depth>>] = ExpandedEntries(way, t, d, i, depth)

(* A table of expansions holds results.                                    *)
LEMMA SolutionType ==
  ASSUME NEW way \in {"strict", "yaml11"}, NEW d, Document(d), Backward(d), NEW t, Solves(way, d, t)
  PROVE  \A i \in DOMAIN d : TypedBelow(t, i) /\ \A depth \in Depths : t[<<i, depth>>] \in Result
<1> DEFINE T == {n \in Nat : \A i \in DOMAIN d : i <= n => \A depth \in Depths : t[<<i, depth>>] \in Result}
<1>1. 0 \in T
  BY EntryOfDocument
<1>2. ASSUME NEW n \in T PROVE n + 1 \in T
  <2>1. ASSUME NEW i \in DOMAIN d, i <= n + 1, NEW depth \in Depths PROVE t[<<i, depth>>] \in Result
    <3>1. i \in Nat /\ n \in Nat /\ DOMAIN d = 1 .. Len(d) /\ Len(d) \in Nat
      BY <1>2, EntryOfDocument
    <3>2. \A j \in Nat : 0 < j /\ j < i => j \in DOMAIN d /\ j <= n
      BY <2>1, <3>1
    <3>3. TypedBelow(t, i)
      BY <1>2, <3>2 DEF TypedBelow
    <3>4. way = "strict" => StrictEntries(t, d, i, depth) \in Result
      BY <3>3, StrictType
    <3>5. way = "yaml11" => Yaml11Entries(t, d, i, depth) \in Result
      BY <3>3, Yaml11Type
    <3>6. t[<<i, depth>>] = ExpandedEntries(way, t, d, i, depth)
      BY DEF Solves
    <3> QED
      BY <3>4, <3>5, <3>6 DEF ExpandedEntries
  <2> QED
    BY <1>2, <2>1
<1> HIDE DEF T
<1>3. T \in SUBSET Nat
  BY DEF T
<1>4. T = Nat
  BY <1>1, <1>2, <1>3, FromZeroUp
<1>5. \A i \in DOMAIN d : \A depth \in Depths : t[<<i, depth>>] \in Result
  <2>1. ASSUME NEW i \in DOMAIN d PROVE i \in T /\ i <= i
    BY <1>4, EntryOfDocument
  <2> QED
    BY <2>1 DEF T
<1>6. ASSUME NEW i \in DOMAIN d PROVE TypedBelow(t, i)
  <2>1. \A j \in Nat : 0 < j /\ j < i => j \in DOMAIN d
    BY EntryOfDocument
  <2> QED
    BY <1>5, <2>1 DEF TypedBelow
<1> QED
  BY <1>5, <1>6

SameTables(d, t, u) == \A i \in DOMAIN d : \A depth \in Depths : t[<<i, depth>>] = u[<<i, depth>>]

(* Owned and borrowed nodes have the same table ...                        *)
LEMMA SolutionsAgree ==
  ASSUME NEW d, Document(d), Backward(d), NEW t, NEW u, Solves("strict", d, t), Solves("borrowed", d, u)
  PROVE  SameTables(d, t, u)
<1> DEFINE T == {n \in Nat : \A i \in DOMAIN d : i <= n => \A depth \in Depths : t[<<i, depth>>] = u[<<i, depth>>]}
<1>1. 0 \in T
  BY EntryOfDocument
<1>2. ASSUME NEW n \in T PROVE n + 1 \in T
  <2>1. ASSUME NEW i \in DOMAIN d, i <= n + 1, NEW depth \in Depths PROVE t[<<i, depth>>] = u[<<i, depth>>]
    <3>1. i \in Nat /\ n \in Nat /\ DOMAIN d = 1 .. Len(d) /\ Len(d) \in Nat
      BY <1>2, EntryOfDocument
    <3>2. \A j \in Nat : 0 < j /\ j < i => j \in DOMAIN d /\ j <= n
      BY <2>1, <3>1
    <3>3. SameBelow(t, u, i)
      BY <1>2, <3>2 DEF SameBelow
    <3>4. TypedBelow(t, i)
      BY SolutionType
    <3>5. t[<<i, depth>>] = StrictEntries(t, d, i, depth)
      BY DEF Solves, ExpandedEntries
    <3>6. u[<<i, depth>>] = BorrowedEntries(u, d, i, depth)
      BY DEF Solves, ExpandedEntries
    <3>7. StrictEntries(t, d, i, depth) = BorrowedEntries(t, d, i, depth)
      BY <3>4, StrictIsBorrowed
    <3>8. BorrowedEntries(t, d, i, depth) = BorrowedEntries(u, d, i, depth)
      BY <3>3, BorrowedAgrees
    <3> QED
      BY <3>5, <3>6, <3>7, <3>8
  <2> QED
    BY <1>2, <2>1
<1> HIDE DEF T
<1>3. T \in SUBSET Nat
  BY DEF T
<1>4. T = Nat
  BY <1>1, <1>2, <1>3, FromZeroUp
<1>5. ASSUME NEW i \in DOMAIN d PROVE i \in T /\ i <= i
  BY <1>4, EntryOfDocument
<1> QED
  BY <1>5 DEF T, SameTables

(* ... so they are expanded the same.                                      *)
LEMMA OwnedIsBorrowed ==
  ASSUME NEW d, Document(d), Backward(d)
  PROVE  Expanded("strict", d) = Expanded("borrowed", d)
<1>1. PICK t : Solves("strict", d, t) /\ Expanded("strict", d) = [i \in DOMAIN d |-> t[<<i, 0>>]]
  BY ExpandedIs DEF Solves
<1>2. PICK u : Solves("borrowed", d, u) /\ Expanded("borrowed", d) = [i \in DOMAIN d |-> u[<<i, 0>>]]
  BY ExpandedIs DEF Solves
<1>3. 0 \in Depths
  BY MergeKeysAssumption DEF Depths
<1>4. SameTables(d, t, u)
  BY <1>1, <1>2, SolutionsAgree
<1>5. \A i \in DOMAIN d : t[<<i, 0>>] = u[<<i, 0>>]
  BY <1>3, <1>4 DEF SameTables
<1> QED
  BY <1>1, <1>2, <1>5

-----------------------------------------------------------------------------
(* What the loops do to one key: whether it is there, where its value      *)
(* comes from, and that it is there once.                                  *)

At(es, k)   == IF HasKey(es, k) THEN es[Position(es, k)].place ELSE NoPlace
Once(es, k) == \A n, m \in DOMAIN es : es[n].key = k /\ es[m].key = k => n = m

(* The position of a key is that of its first entry.                       *)
LEMMA PositionFacts ==
  ASSUME NEW E, NEW es \in Seq(E), NEW k, HasKey(es, k)
  PROVE  /\ Position(es, k) \in DOMAIN es /\ Position(es, k) \in 1 .. Len(es) /\ es[Position(es, k)].key = k
         /\ \A n \in DOMAIN es : es[n].key = k => Position(es, k) <= n
<1> DEFINE P == {n \in DOMAIN es : es[n].key = k}
<1>1. DOMAIN es = 1 .. Len(es) /\ P \in SUBSET Nat /\ P # {}
  BY LenProperties DEF HasKey
<1>2. Min(P) \in P /\ \A n \in P : Min(P) <= n
  BY <1>1, MinIsLeast
<1> QED
  BY <1>1, <1>2 DEF Position

(* A first entry is at the position of its key.                            *)
LEMMA PositionIs ==
  ASSUME NEW E, NEW es \in Seq(E), NEW k, NEW n \in DOMAIN es, es[n].key = k,
         \A m \in DOMAIN es : es[m].key = k => n <= m
  PROVE  HasKey(es, k) /\ Position(es, k) = n
<1>1. HasKey(es, k)
  BY DEF HasKey
<1>2. Position(es, k) <= n /\ n <= Position(es, k)
  BY <1>1, PositionFacts
<1>3. n \in Int /\ Position(es, k) \in Int
  BY <1>1, PositionFacts, LenProperties
<1> QED
  BY <1>1, <1>2, <1>3

(* Appending an entry.                                                     *)
LEMMA AppendFacts ==
  ASSUME NEW E, NEW es \in Seq(E), NEW e \in E, NEW more, more = Append(es, e)
  PROVE  /\ more \in Seq(E) /\ Len(es) \in Nat /\ Len(more) = Len(es) + 1
         /\ DOMAIN es = 1 .. Len(es) /\ DOMAIN more = 1 .. Len(es) + 1
         /\ \A n \in DOMAIN es : n \in DOMAIN more /\ more[n] = es[n]
         /\ Len(es) + 1 \in DOMAIN more /\ Len(es) + 1 \notin DOMAIN es /\ more[Len(es) + 1] = e
         /\ \A n \in DOMAIN more : n \in DOMAIN es \/ n = Len(es) + 1
<1>1. /\ more \in Seq(E) /\ Len(more) = Len(es) + 1
      /\ \A n \in 1 .. Len(es) : more[n] = es[n]
      /\ more[Len(es) + 1] = e
  BY AppendProperties
<1>2. Len(es) \in Nat /\ DOMAIN es = 1 .. Len(es) /\ DOMAIN more = 1 .. Len(es) + 1
  BY <1>1, LenProperties
<1>3. \A n \in DOMAIN es : n \in DOMAIN more
  BY <1>2
<1>4. Len(es) + 1 \in DOMAIN more /\ Len(es) + 1 \notin DOMAIN es
  BY <1>2
<1>5. \A n \in DOMAIN more : n \in DOMAIN es \/ n = Len(es) + 1
  BY <1>2
<1> QED
  BY <1>1, <1>2, <1>3, <1>4, <1>5

(* Where the keys of a mapping come from when an entry is appended.        *)
LEMMA AtAppend ==
  ASSUME NEW E, NEW es \in Seq(E), NEW e \in E, NEW k
  PROVE  /\ HasKey(Append(es, e), k) <=> HasKey(es, k) \/ e.key = k
         /\ At(Append(es, e), k) = IF HasKey(es, k) THEN At(es, k) ELSE IF e.key = k THEN e.place ELSE NoPlace
         /\ Once(Append(es, e), k) <=> Once(es, k) /\ ~(HasKey(es, k) /\ e.key = k)
<1>1. PICK more : more = Append(es, e)
  OBVIOUS
<1>2. /\ more \in Seq(E) /\ Len(es) \in Nat /\ Len(more) = Len(es) + 1
      /\ DOMAIN es = 1 .. Len(es) /\ DOMAIN more = 1 .. Len(es) + 1
      /\ \A n \in DOMAIN es : n \in DOMAIN more /\ more[n] = es[n]
      /\ Len(es) + 1 \in DOMAIN more /\ Len(es) + 1 \notin DOMAIN es /\ more[Len(es) + 1] = e
      /\ \A n \in DOMAIN more : n \in DOMAIN es \/ n = Len(es) + 1
  BY <1>1, AppendFacts
<1>3. HasKey(more, k) <=> HasKey(es, k) \/ e.key = k
  BY <1>1, HasKeyAppend
<1>4. At(more, k) = IF HasKey(es, k) THEN At(es, k) ELSE IF e.key = k THEN e.place ELSE NoPlace
  <2>1. CASE HasKey(es, k)
    <3>1. PICK n : n = Position(es, k)
      OBVIOUS
    <3>2. n \in DOMAIN es /\ n \in Nat /\ n <= Len(es) /\ es[n].key = k /\ \A m \in DOMAIN es : es[m].key = k => n <= m
      BY <1>2, <2>1, <3>1, PositionFacts
    <3>3. \A m \in DOMAIN more : more[m].key = k => n <= m
      BY <1>2, <3>2
    <3>4. n \in DOMAIN more /\ more[n].key = k /\ more[n] = es[n]
      BY <1>2, <3>2
    <3>5. Position(more, k) = n
      BY <1>2, <3>3, <3>4, PositionIs
    <3> QED
      BY <1>3, <2>1, <3>1, <3>4, <3>5 DEF At
  <2>2. CASE ~HasKey(es, k) /\ e.key = k
    <3>1. \A m \in DOMAIN more : more[m].key = k => Len(es) + 1 <= m
      BY <1>2, <2>2 DEF HasKey
    <3>2. HasKey(more, k) /\ Position(more, k) = Len(es) + 1
      BY <1>2, <2>2, <3>1, PositionIs
    <3> QED
      BY <1>2, <2>2, <3>2 DEF At
  <2>3. CASE ~HasKey(es, k) /\ e.key # k
    BY <1>3, <2>3 DEF At
  <2> QED
    BY <2>1, <2>2, <2>3
<1>5. Once(more, k) <=> Once(es, k) /\ ~(HasKey(es, k) /\ e.key = k)
  <2>1. ASSUME Once(more, k) PROVE Once(es, k) /\ ~(HasKey(es, k) /\ e.key = k)
    <3>1. Once(es, k)
      BY <1>2, <2>1 DEF Once
    <3>2. ASSUME HasKey(es, k), e.key = k PROVE FALSE
      <4>1. PICK n \in DOMAIN es : es[n].key = k
        BY <3>2 DEF HasKey
      <4>2. n = Len(es) + 1
        BY <1>2, <2>1, <3>2, <4>1 DEF Once
      <4> QED
        BY <1>2, <4>1, <4>2
    <3> QED
      BY <3>1, <3>2
  <2>2. ASSUME Once(es, k), ~(HasKey(es, k) /\ e.key = k) PROVE Once(more, k)
    <3>1. ASSUME NEW n \in DOMAIN more, NEW m \in DOMAIN more, more[n].key = k, more[m].key = k PROVE n = m
      <4>1. CASE e.key = k
        <5>1. \A x \in DOMAIN es : es[x].key # k
          BY <2>2, <4>1 DEF HasKey
        <5> QED
          BY <1>2, <3>1, <5>1
      <4>2. CASE e.key # k
        <5>1. n \in DOMAIN es /\ m \in DOMAIN es
          BY <1>2, <3>1, <4>2
        <5> QED
          BY <1>2, <2>2, <3>1, <5>1 DEF Once
      <4> QED
        BY <4>1, <4>2
    <3> QED
      BY <3>1 DEF Once
  <2> QED
    BY <2>1, <2>2
<1> QED
  BY <1>1, <1>3, <1>4, <1>5

(* A key that is not there comes from nowhere.                             *)
LEMMA AtNone ==
  ASSUME NEW k
  PROVE  ~HasKey(<<>>, k) /\ At(<<>>, k) = NoPlace /\ Once(<<>>, k)
BY DEF HasKey, At, Once

(* The value of a key that is there comes from somewhere.                  *)
LEMMA AtSomewhere ==
  ASSUME NEW es \in Seq(Placed), NEW k
  PROVE  (At(es, k) # NoPlace <=> HasKey(es, k))
<1>1. CASE HasKey(es, k)
  <2>1. es[Position(es, k)] \in Placed
    BY <1>1, PositionFacts, ElementOfSeq
  <2>2. es[Position(es, k)].place \in Nat \X Nat
    BY <2>1 DEF Placed
  <2>3. es[Position(es, k)].place # <<>>
    <3>1. PICK q : q = es[Position(es, k)].place
      OBVIOUS
    <3>2. q = <<q[1], q[2]>>
      BY <2>2, <3>1
    <3>3. Len(q) = 2 /\ Len(<<>>) = 0
      BY <3>2
    <3>4. q # <<>>
      BY <3>3
    <3> QED
      BY <3>1, <3>4
  <2> QED
    BY <1>1, <2>3 DEF At, NoPlace
<1>2. CASE ~HasKey(es, k)
  BY <1>2 DEF At
<1> QED
  BY <1>1, <1>2

(* Inserting what is missing keeps what is there; upserting replaces it.   *)
InsertedAt(es, a, k) ==
  /\ HasKey(InsertMissing(es, a), k) <=> HasKey(es, k) \/ HasKey(a, k)
  /\ At(InsertMissing(es, a), k) = IF HasKey(es, k) THEN At(es, k) ELSE At(a, k)
  /\ Once(es, k) => Once(InsertMissing(es, a), k)

(* Inserting leaves a key where it was, and takes a new one from what is   *)
(* inserted.                                                               *)
LEMMA InsertMissingAt ==
  ASSUME NEW E, NEW es \in Seq(E), NEW k
  PROVE  \A a \in Seq(E) : InsertedAt(es, a, k)
<1> DEFINE T == {a \in Seq(E) : InsertedAt(es, a, k)}
<1>1. <<>> \in T
  BY InsertMissingNone, EmptySeq, AtNone DEF InsertedAt, At
<1>2. ASSUME NEW a \in Seq(E), NEW e \in E, a \in T PROVE Append(a, e) \in T
  <2>1. Append(a, e) \in Seq(E)
    BY AppendProperties
  <2>2. PICK c : c = InsertMissing(es, a)
    OBVIOUS
  <2>3. c \in Seq(E)
    BY <2>2, InsertMissingType
  <2>4. InsertMissing(es, Append(a, e)) = InsertOne(c, e)
    BY <2>2, InsertMissingNext
  <2>5. /\ HasKey(Append(a, e), k) <=> HasKey(a, k) \/ e.key = k
        /\ At(Append(a, e), k) = IF HasKey(a, k) THEN At(a, k) ELSE IF e.key = k THEN e.place ELSE NoPlace
    BY AtAppend
  <2>6. /\ HasKey(c, k) <=> HasKey(es, k) \/ HasKey(a, k)
        /\ At(c, k) = IF HasKey(es, k) THEN At(es, k) ELSE At(a, k)
        /\ Once(es, k) => Once(c, k)
    BY <1>2, <2>2 DEF InsertedAt
  <2>7. CASE HasKey(c, e.key)
    <3>1. InsertOne(c, e) = c
      BY <2>7 DEF InsertOne
    <3>2. e.key = k => HasKey(c, k)
      BY <2>7
    <3>3. ~HasKey(es, k) => At(c, k) = At(Append(a, e), k)
      BY <2>5, <2>6, <3>2 DEF At
    <3>4. InsertedAt(es, Append(a, e), k)
      BY <2>4, <2>5, <2>6, <3>1, <3>2, <3>3 DEF InsertedAt
    <3> QED
      BY <2>1, <3>4
  <2>8. CASE ~HasKey(c, e.key)
    <3>1. InsertOne(c, e) = Append(c, e)
      BY <2>8 DEF InsertOne
    <3>2. /\ HasKey(Append(c, e), k) <=> HasKey(c, k) \/ e.key = k
          /\ At(Append(c, e), k) = IF HasKey(c, k) THEN At(c, k) ELSE IF e.key = k THEN e.place ELSE NoPlace
          /\ Once(Append(c, e), k) <=> Once(c, k) /\ ~(HasKey(c, k) /\ e.key = k)
      BY <2>3, AtAppend
    <3>3. ~(HasKey(c, k) /\ e.key = k)
      BY <2>8
    <3>4. InsertedAt(es, Append(a, e), k)
      BY <2>4, <2>5, <2>6, <3>1, <3>2, <3>3 DEF InsertedAt
    <3> QED
      BY <2>1, <3>4
  <2> QED
    BY <2>7, <2>8
<1> HIDE DEF T
<1>3. \A a \in Seq(E) : a \in T
  BY <1>1, <1>2, AllSequences
<1> QED
  BY <1>3 DEF T

(* Replacing takes the key from the new entry.                             *)
LEMMA UpsertOneAt ==
  ASSUME NEW E, NEW es \in Seq(E), NEW e \in E, NEW k, NEW r, r = UpsertOne(es, e)
  PROVE  /\ HasKey(r, k) <=> HasKey(es, k) \/ e.key = k
         /\ At(r, k) = IF e.key = k THEN e.place ELSE At(es, k)
         /\ Once(es, k) => Once(r, k)
<1>1. CASE ~HasKey(es, e.key)
  <2>1. r = Append(es, e)
    BY <1>1 DEF UpsertOne
  <2>2. /\ HasKey(r, k) <=> HasKey(es, k) \/ e.key = k
        /\ At(r, k) = IF HasKey(es, k) THEN At(es, k) ELSE IF e.key = k THEN e.place ELSE NoPlace
        /\ Once(r, k) <=> Once(es, k) /\ ~(HasKey(es, k) /\ e.key = k)
    BY <2>1, AtAppend
  <2> QED
    BY <1>1, <2>2 DEF At
<1>2. CASE HasKey(es, e.key)
  <2>1. PICK at1 : at1 = Position(es, e.key)
    OBVIOUS
  <2>2. r = [es EXCEPT ![at1] = e]
    BY <1>2, <2>1 DEF UpsertOne
  <2>3. at1 \in DOMAIN es /\ at1 \in 1 .. Len(es) /\ es[at1].key = e.key
    BY <1>2, <2>1, PositionFacts
  <2>4. r \in Seq(E) /\ DOMAIN r = DOMAIN es
    BY <2>2, <2>3, ExceptSeq
  <2>5. r[at1] = e /\ \A n \in DOMAIN es : n # at1 => r[n] = es[n]
    BY <2>2, <2>3
  <2>6. \A n \in DOMAIN es : r[n].key = es[n].key
    BY <2>3, <2>5
  <2>7. HasKey(r, k) <=> HasKey(es, k)
    BY <2>4, <2>6 DEF HasKey
  <2>8. Once(es, k) => Once(r, k)
    BY <2>4, <2>6 DEF Once
  <2>9. e.key = k => HasKey(es, k)
    BY <1>2
  <2>10. ASSUME HasKey(es, k) PROVE Position(r, k) = Position(es, k)
    <3>1. Position(es, k) \in DOMAIN es /\ es[Position(es, k)].key = k
      BY <2>10, PositionFacts
    <3>2. \A n \in DOMAIN es : es[n].key = k => Position(es, k) <= n
      BY <2>10, PositionFacts
    <3> QED
      BY <2>4, <2>6, <3>1, <3>2, PositionIs
  <2>11. At(r, k) = IF e.key = k THEN e.place ELSE At(es, k)
    <3>1. CASE e.key = k
      BY <2>1, <2>5, <2>7, <2>9, <2>10, <3>1 DEF At
    <3>2. CASE e.key # k /\ HasKey(es, k)
      <4>1. Position(es, k) \in DOMAIN es /\ es[Position(es, k)].key = k
        BY <3>2, PositionFacts
      <4>2. r[Position(es, k)] = es[Position(es, k)]
        BY <2>3, <2>5, <3>2, <4>1
      <4> QED
        BY <2>7, <2>10, <3>2, <4>2 DEF At
    <3>3. CASE e.key # k /\ ~HasKey(es, k)
      BY <2>7, <3>3 DEF At
    <3> QED
      BY <3>1, <3>2, <3>3
  <2> QED
    BY <2>7, <2>8, <2>9, <2>11
<1> QED
  BY <1>1, <1>2

UpsertedAt(es, a, k) ==
  /\ HasKey(Upsert(es, a), k) <=> HasKey(es, k) \/ HasKey(a, k)
  /\ Once(a, k) => At(Upsert(es, a), k) = IF HasKey(a, k) THEN At(a, k) ELSE At(es, k)
  /\ Once(es, k) => Once(Upsert(es, a), k)

(* Replacing by entries takes a key from them if they have it.             *)
LEMMA UpsertAt ==
  ASSUME NEW E, NEW es \in Seq(E), NEW k
  PROVE  \A a \in Seq(E) : UpsertedAt(es, a, k)
<1> DEFINE T == {a \in Seq(E) : UpsertedAt(es, a, k)}
<1>1. <<>> \in T
  BY UpsertNone, EmptySeq, AtNone DEF UpsertedAt
<1>2. ASSUME NEW a \in Seq(E), NEW e \in E, a \in T PROVE Append(a, e) \in T
  <2>1. Append(a, e) \in Seq(E)
    BY AppendProperties
  <2>2. PICK c, r : c = Upsert(es, a) /\ r = UpsertOne(c, e)
    OBVIOUS
  <2>3. c \in Seq(E)
    BY <2>2, UpsertType
  <2>4. Upsert(es, Append(a, e)) = r
    BY <2>2, UpsertNext
  <2>5. /\ HasKey(Append(a, e), k) <=> HasKey(a, k) \/ e.key = k
        /\ At(Append(a, e), k) = IF HasKey(a, k) THEN At(a, k) ELSE IF e.key = k THEN e.place ELSE NoPlace
        /\ Once(Append(a, e), k) <=> Once(a, k) /\ ~(HasKey(a, k) /\ e.key = k)
    BY AtAppend
  <2>6. /\ HasKey(c, k) <=> HasKey(es, k) \/ HasKey(a, k)
        /\ Once(a, k) => At(c, k) = IF HasKey(a, k) THEN At(a, k) ELSE At(es, k)
        /\ Once(es, k) => Once(c, k)
    BY <1>2, <2>2 DEF UpsertedAt
  <2>7. /\ HasKey(r, k) <=> HasKey(c, k) \/ e.key = k
        /\ At(r, k) = IF e.key = k THEN e.place ELSE At(c, k)
        /\ Once(c, k) => Once(r, k)
    BY <2>2, <2>3, UpsertOneAt
  <2>8. UpsertedAt(es, Append(a, e), k)
    BY <2>4, <2>5, <2>6, <2>7 DEF UpsertedAt
  <2> QED
    BY <2>1, <2>8
<1> HIDE DEF T
<1>3. \A a \in Seq(E) : a \in T
  BY <1>1, <1>2, AllSequences
<1> QED
  BY <1>3 DEF T

(* Entries left out, none of them under a key; and which keys are left.    *)
KeptAt(es, drop, k) ==
  (\A n \in DOMAIN es : n \in drop => es[n].key # k) =>
    /\ HasKey(Without(es, drop), k) <=> HasKey(es, k)
    /\ At(Without(es, drop), k) = At(es, k)
    /\ Once(Without(es, drop), k) <=> Once(es, k)
LeftAt(es, drop, k) ==
  HasKey(Without(es, drop), k) <=> \E n \in DOMAIN es : n \notin drop /\ es[n].key = k

(* Leaving out all of a key's entries, or none.                            *)
LEMMA WithoutAt ==
  ASSUME NEW E, NEW drop, NEW k
  PROVE  \A es \in Seq(E) : KeptAt(es, drop, k) /\ LeftAt(es, drop, k)
<1> DEFINE T == {es \in Seq(E) : KeptAt(es, drop, k) /\ LeftAt(es, drop, k)}
<1>1. <<>> \in T
  BY WithoutNone, EmptySeq, AtNone DEF KeptAt, LeftAt
<1>2. ASSUME NEW es \in Seq(E), NEW e \in E, es \in T PROVE Append(es, e) \in T
  <2>1. PICK more, c : more = Append(es, e) /\ c = Without(es, drop)
    OBVIOUS
  <2>2. /\ more \in Seq(E) /\ Len(es) \in Nat /\ Len(more) = Len(es) + 1
        /\ DOMAIN es = 1 .. Len(es) /\ DOMAIN more = 1 .. Len(es) + 1
        /\ \A n \in DOMAIN es : n \in DOMAIN more /\ more[n] = es[n]
        /\ Len(es) + 1 \in DOMAIN more /\ Len(es) + 1 \notin DOMAIN es /\ more[Len(es) + 1] = e
        /\ \A n \in DOMAIN more : n \in DOMAIN es \/ n = Len(es) + 1
    BY <2>1, AppendFacts
  <2>3. c \in Seq(E)
    BY <2>1, WithoutType
  <2>4. Without(more, drop) = IF Len(es) + 1 \in drop THEN c ELSE Append(c, e)
    BY <2>1, WithoutNext
  <2>5. /\ HasKey(more, k) <=> HasKey(es, k) \/ e.key = k
        /\ At(more, k) = IF HasKey(es, k) THEN At(es, k) ELSE IF e.key = k THEN e.place ELSE NoPlace
        /\ Once(more, k) <=> Once(es, k) /\ ~(HasKey(es, k) /\ e.key = k)
    BY <2>1, AtAppend
  <2>6. /\ HasKey(Append(c, e), k) <=> HasKey(c, k) \/ e.key = k
        /\ At(Append(c, e), k) = IF HasKey(c, k) THEN At(c, k) ELSE IF e.key = k THEN e.place ELSE NoPlace
        /\ Once(Append(c, e), k) <=> Once(c, k) /\ ~(HasKey(c, k) /\ e.key = k)
    BY <2>3, AtAppend
  <2>7. ASSUME \A n \in DOMAIN more : n \in drop => more[n].key # k
        PROVE  /\ HasKey(Without(more, drop), k) <=> HasKey(more, k)
               /\ At(Without(more, drop), k) = At(more, k)
               /\ Once(Without(more, drop), k) <=> Once(more, k)
    <3>1. \A n \in DOMAIN es : n \in drop => es[n].key # k
      BY <2>2, <2>7
    <3>2. /\ HasKey(c, k) <=> HasKey(es, k)
          /\ At(c, k) = At(es, k)
          /\ Once(c, k) <=> Once(es, k)
      BY <1>2, <2>1, <3>1 DEF KeptAt
    <3>3. Len(es) + 1 \in drop => e.key # k
      BY <2>2, <2>7
    <3>4. ~HasKey(es, k) => At(es, k) = NoPlace
      BY DEF At
    <3> QED
      BY <2>4, <2>5, <2>6, <3>2, <3>3, <3>4
  <2>8. LeftAt(more, drop, k)
    <3>1. HasKey(c, k) <=> \E n \in DOMAIN es : n \notin drop /\ es[n].key = k
      BY <1>2, <2>1 DEF LeftAt
    <3>2. (\E n \in DOMAIN more : n \notin drop /\ more[n].key = k)
            <=> HasKey(c, k) \/ (Len(es) + 1 \notin drop /\ e.key = k)
      BY <2>2, <3>1
    <3> QED
      BY <2>4, <2>6, <3>2 DEF LeftAt
  <2>9. KeptAt(more, drop, k)
    BY <2>7 DEF KeptAt
  <2> QED
    BY <2>1, <2>2, <2>8, <2>9
<1> HIDE DEF T
<1>3. \A es \in Seq(E) : es \in T
  BY <1>1, <1>2, AllSequences
<1> QED
  BY <1>3 DEF T

(* The loops over results fail when one of them has failed.                *)
LEMMA OkIs ==
  ASSUME NEW E, NEW r \in Results(E), ~Fails(r)
  PROVE  r = Ok(r.entries) /\ r.entries \in Seq(E)
BY DEF Results, Fails, Ok

AllOk(R) == \A n \in DOMAIN R : ~Fails(R[n])

(* A loop of successes and one more.                                       *)
LEMMA AllOkAppend ==
  ASSUME NEW S, NEW R \in Seq(S), NEW r \in S
  PROVE  AllOk(Append(R, r)) <=> AllOk(R) /\ ~Fails(r)
<1>1. PICK more : more = Append(R, r)
  OBVIOUS
<1>2. /\ \A n \in DOMAIN R : n \in DOMAIN more /\ more[n] = R[n]
      /\ Len(R) + 1 \in DOMAIN more /\ more[Len(R) + 1] = r
      /\ \A n \in DOMAIN more : n \in DOMAIN R \/ n = Len(R) + 1
  BY <1>1, AppendFacts
<1>3. AllOk(more) <=> AllOk(R) /\ ~Fails(r)
  BY <1>2 DEF AllOk
<1> QED
  BY <1>1, <1>3

(* A loop over payloads fails exactly if one of them does.                 *)
LEMMA AddAllFails ==
  ASSUME NEW E, NEW how, NEW es
  PROVE  \A R \in Seq(Results(E)) : Fails(AddAll(how, es, R)) <=> ~AllOk(R)
<1> DEFINE T == {R \in Seq(Results(E)) : Fails(AddAll(how, es, R)) <=> ~AllOk(R)}
<1>1. <<>> \in T
  <2>1. AddAll(how, es, <<>>) = Ok(es) /\ <<>> \in Seq(Results(E))
    BY AddAllNone, EmptySeq
  <2>2. ~Fails(Ok(es))
    BY DEF Fails, Ok
  <2>3. AllOk(<<>>)
    BY DEF AllOk
  <2> QED
    BY <2>1, <2>2, <2>3
<1>2. ASSUME NEW R \in Seq(Results(E)), NEW r \in Results(E), R \in T PROVE Append(R, r) \in T
  <2>1. Append(R, r) \in Seq(Results(E))
    BY AppendProperties
  <2>2. AddAll(how, es, Append(R, r)) = AddResult(how, AddAll(how, es, R), r)
    BY AddAllNext
  <2>3. Fails(AddResult(how, AddAll(how, es, R), r)) <=> Fails(AddAll(how, es, R)) \/ Fails(r)
    BY DEF AddResult, Fails, Ok
  <2>4. AllOk(Append(R, r)) <=> AllOk(R) /\ ~Fails(r)
    BY AllOkAppend
  <2> QED
    BY <1>2, <2>1, <2>2, <2>3, <2>4
<1> HIDE DEF T
<1>3. \A R \in Seq(Results(E)) : R \in T
  BY <1>1, <1>2, AllSequences
<1> QED
  BY <1>3 DEF T

(* Under a key, inserting results keeps the first that has the key, and    *)
(* upserting them the last.                                                *)
HasKeyIn(R, k)   == \E n \in DOMAIN R : HasKey(R[n].entries, k)
FirstIn(R, k, n) == HasKey(R[n].entries, k) /\ \A m \in DOMAIN R : m < n => ~HasKey(R[m].entries, k)
LastIn(R, k, n)  == HasKey(R[n].entries, k) /\ \A m \in DOMAIN R : n < m => ~HasKey(R[m].entries, k)

MissingAt(es, R, k) ==
  LET x == AddAll("missing", es, R).entries IN
  AllOk(R) =>
    /\ HasKey(x, k) <=> HasKey(es, k) \/ HasKeyIn(R, k)
    /\ HasKey(es, k) => At(x, k) = At(es, k)
    /\ ~HasKey(es, k) => \A n \in DOMAIN R : FirstIn(R, k, n) => At(x, k) = At(R[n].entries, k)
    /\ Once(es, k) => Once(x, k)

UpsertsAt(R, k) ==
  LET x == AddAll("upsert", <<>>, R).entries IN
  AllOk(R) =>
    /\ HasKey(x, k) <=> HasKeyIn(R, k)
    /\ Once(x, k)
    /\ \A n \in DOMAIN R : LastIn(R, k, n) /\ Once(R[n].entries, k) => At(x, k) = At(R[n].entries, k)

(* Who of one more has a key.                                              *)
LEMMA HasKeyInAppend ==
  ASSUME NEW E, NEW R \in Seq(Results(E)), NEW r \in Results(E), NEW k, NEW more, more = Append(R, r)
  PROVE  /\ HasKeyIn(more, k) <=> HasKeyIn(R, k) \/ HasKey(r.entries, k)
         /\ \A n \in DOMAIN more : \/ n \in DOMAIN R /\ more[n] = R[n]
                                   \/ n = Len(R) + 1 /\ more[n] = r
         /\ \A n \in DOMAIN R : FirstIn(more, k, n) => FirstIn(R, k, n)
         /\ \A n \in DOMAIN R : LastIn(more, k, n) => LastIn(R, k, n) /\ ~HasKey(r.entries, k)
         /\ FirstIn(more, k, Len(R) + 1) => HasKey(r.entries, k) /\ ~HasKeyIn(R, k)
         /\ LastIn(more, k, Len(R) + 1) => HasKey(r.entries, k)
<1>1. /\ Len(R) \in Nat /\ DOMAIN R = 1 .. Len(R)
      /\ \A n \in DOMAIN R : n \in DOMAIN more /\ more[n] = R[n]
      /\ Len(R) + 1 \in DOMAIN more /\ more[Len(R) + 1] = r
      /\ \A n \in DOMAIN more : n \in DOMAIN R \/ n = Len(R) + 1
  BY AppendFacts
<1>2. \A n \in DOMAIN R : n < Len(R) + 1
  BY <1>1
<1>3. HasKeyIn(more, k) <=> HasKeyIn(R, k) \/ HasKey(r.entries, k)
  BY <1>1 DEF HasKeyIn
<1>4. \A n \in DOMAIN R : FirstIn(more, k, n) => FirstIn(R, k, n)
  BY <1>1 DEF FirstIn
<1>5. \A n \in DOMAIN R : LastIn(more, k, n) => LastIn(R, k, n) /\ ~HasKey(r.entries, k)
  BY <1>1, <1>2 DEF LastIn
<1>6. FirstIn(more, k, Len(R) + 1) => HasKey(r.entries, k) /\ ~HasKeyIn(R, k)
  BY <1>1, <1>2 DEF FirstIn, HasKeyIn
<1>7. LastIn(more, k, Len(R) + 1) => HasKey(r.entries, k)
  BY <1>1 DEF LastIn
<1> QED
  BY <1>1, <1>3, <1>4, <1>5, <1>6, <1>7

(* Inserting payload after payload takes a key from the first that has it. *)
LEMMA AddAllMissingAt ==
  ASSUME NEW E, NEW es \in Seq(E), NEW k
  PROVE  \A R \in Seq(Results(E)) : MissingAt(es, R, k)
<1> DEFINE T == {R \in Seq(Results(E)) : MissingAt(es, R, k)}
<1>1. <<>> \in T
  <2>1. AddAll("missing", es, <<>>).entries = es
    BY AddAllNone DEF Ok
  <2>2. ~HasKeyIn(<<>>, k) /\ DOMAIN <<>> = {}
    BY DEF HasKeyIn
  <2>3. MissingAt(es, <<>>, k)
    BY <2>1, <2>2 DEF MissingAt
  <2> QED
    BY <2>3, EmptySeq
<1>2. ASSUME NEW R \in Seq(Results(E)), NEW r \in Results(E), R \in T PROVE Append(R, r) \in T
  <2>1. PICK more : more = Append(R, r)
    OBVIOUS
  <2>2. more \in Seq(Results(E))
    BY <2>1, AppendProperties
  <2>3. ASSUME AllOk(more) PROVE MissingAt(es, more, k)
    <3>1. AllOk(R) /\ ~Fails(r)
      BY <2>1, <2>3, AllOkAppend
    <3>2. PICK c, x : c = AddAll("missing", es, R).entries /\ x = AddAll("missing", es, more).entries
      OBVIOUS
    <3>3. AddAll("missing", es, R) \in Results(E) /\ ~Fails(AddAll("missing", es, R))
      BY <3>1, AddAllType, AddAllFails DEF Ways
    <3>4. AddAll("missing", es, R) = Ok(c) /\ c \in Seq(E)
      BY <3>2, <3>3, OkIs
    <3>5. r = Ok(r.entries) /\ r.entries \in Seq(E)
      BY <3>1, OkIs
    <3>6. AddAll("missing", es, more) = AddResult("missing", Ok(c), r)
      BY <2>1, <3>4, AddAllNext
    <3>7. x = InsertMissing(c, r.entries)
      BY <3>1, <3>2, <3>6 DEF AddResult, Add, Ok, Fails
    <3>8. InsertedAt(c, r.entries, k)
      BY <3>4, <3>5, InsertMissingAt
    <3>9. /\ HasKey(x, k) <=> HasKey(c, k) \/ HasKey(r.entries, k)
          /\ At(x, k) = IF HasKey(c, k) THEN At(c, k) ELSE At(r.entries, k)
          /\ Once(c, k) => Once(x, k)
      BY <3>7, <3>8 DEF InsertedAt
    <3>10. /\ HasKey(c, k) <=> HasKey(es, k) \/ HasKeyIn(R, k)
           /\ HasKey(es, k) => At(c, k) = At(es, k)
           /\ ~HasKey(es, k) => \A n \in DOMAIN R : FirstIn(R, k, n) => At(c, k) = At(R[n].entries, k)
           /\ Once(es, k) => Once(c, k)
      BY <1>2, <3>1, <3>2 DEF MissingAt
    <3>11. HasKeyIn(more, k) <=> HasKeyIn(R, k) \/ HasKey(r.entries, k)
      BY <2>1, HasKeyInAppend
    <3>12. ASSUME ~HasKey(es, k), NEW n \in DOMAIN more, FirstIn(more, k, n)
           PROVE  At(x, k) = At(more[n].entries, k)
      <4>1. CASE n \in DOMAIN R /\ more[n] = R[n]
        <5>1. FirstIn(R, k, n)
          BY <2>1, <3>12, <4>1, HasKeyInAppend
        <5>2. HasKey(c, k)
          BY <3>10, <4>1, <5>1 DEF FirstIn, HasKeyIn
        <5> QED
          BY <3>9, <3>10, <3>12, <4>1, <5>1, <5>2
      <4>2. CASE n = Len(R) + 1 /\ more[n] = r
        <5>1. HasKey(r.entries, k) /\ ~HasKeyIn(R, k)
          BY <2>1, <3>12, <4>2, HasKeyInAppend
        <5> QED
          BY <3>9, <3>10, <3>12, <4>2, <5>1
      <4> QED
        BY <2>1, <4>1, <4>2, HasKeyInAppend
    <3>13. HasKey(x, k) <=> HasKey(es, k) \/ HasKeyIn(more, k)
      BY <3>9, <3>10, <3>11
    <3>14. HasKey(es, k) => At(x, k) = At(es, k)
      BY <3>9, <3>10
    <3>15. Once(es, k) => Once(x, k)
      BY <3>9, <3>10
    <3> QED
      BY <3>2, <3>12, <3>13, <3>14, <3>15 DEF MissingAt
  <2>4. MissingAt(es, more, k)
    BY <2>3 DEF MissingAt
  <2> QED
    BY <2>1, <2>2, <2>4
<1> HIDE DEF T
<1>3. \A R \in Seq(Results(E)) : R \in T
  BY <1>1, <1>2, AllSequences
<1> QED
  BY <1>3 DEF T

(* Replacing payload after payload takes it from the last.                 *)
LEMMA AddAllUpsertAt ==
  ASSUME NEW E, NEW k
  PROVE  \A R \in Seq(Results(E)) : UpsertsAt(R, k)
<1> DEFINE T == {R \in Seq(Results(E)) : UpsertsAt(R, k)}
<1>1. <<>> \in T
  <2>1. AddAll("upsert", <<>>, <<>>).entries = <<>>
    BY AddAllNone DEF Ok
  <2>2. ~HasKeyIn(<<>>, k) /\ DOMAIN <<>> = {}
    BY DEF HasKeyIn
  <2>3. UpsertsAt(<<>>, k)
    BY <2>1, <2>2, AtNone DEF UpsertsAt
  <2> QED
    BY <2>3, EmptySeq
<1>2. ASSUME NEW R \in Seq(Results(E)), NEW r \in Results(E), R \in T PROVE Append(R, r) \in T
  <2>1. PICK more : more = Append(R, r)
    OBVIOUS
  <2>2. more \in Seq(Results(E))
    BY <2>1, AppendProperties
  <2>3. ASSUME AllOk(more) PROVE UpsertsAt(more, k)
    <3>1. AllOk(R) /\ ~Fails(r)
      BY <2>1, <2>3, AllOkAppend
    <3>2. PICK c, x : c = AddAll("upsert", <<>>, R).entries /\ x = AddAll("upsert", <<>>, more).entries
      OBVIOUS
    <3>3. AddAll("upsert", <<>>, R) \in Results(E) /\ ~Fails(AddAll("upsert", <<>>, R))
      BY <3>1, AddAllType, AddAllFails, EmptySeq DEF Ways
    <3>4. AddAll("upsert", <<>>, R) = Ok(c) /\ c \in Seq(E)
      BY <3>2, <3>3, OkIs
    <3>5. r = Ok(r.entries) /\ r.entries \in Seq(E)
      BY <3>1, OkIs
    <3>6. AddAll("upsert", <<>>, more) = AddResult("upsert", Ok(c), r)
      BY <2>1, <3>4, AddAllNext
    <3>7. x = Upsert(c, r.entries)
      BY <3>1, <3>2, <3>6 DEF AddResult, Add, Ok, Fails
    <3>8. UpsertedAt(c, r.entries, k)
      BY <3>4, <3>5, UpsertAt
    <3>9. /\ HasKey(x, k) <=> HasKey(c, k) \/ HasKey(r.entries, k)
          /\ Once(r.entries, k) => At(x, k) = IF HasKey(r.entries, k) THEN At(r.entries, k) ELSE At(c, k)
          /\ ~HasKey(r.entries, k) => Once(r.entries, k)
          /\ Once(c, k) => Once(x, k)
      BY <3>7, <3>8 DEF UpsertedAt, Once, HasKey
    <3>10. /\ HasKey(c, k) <=> HasKeyIn(R, k)
           /\ Once(c, k)
           /\ \A n \in DOMAIN R : LastIn(R, k, n) /\ Once(R[n].entries, k) => At(c, k) = At(R[n].entries, k)
      BY <1>2, <3>1, <3>2 DEF UpsertsAt
    <3>11. HasKeyIn(more, k) <=> HasKeyIn(R, k) \/ HasKey(r.entries, k)
      BY <2>1, HasKeyInAppend
    <3>12. ASSUME NEW n \in DOMAIN more, LastIn(more, k, n), Once(more[n].entries, k)
           PROVE  At(x, k) = At(more[n].entries, k)
      <4>1. CASE n \in DOMAIN R /\ more[n] = R[n]
        <5>1. LastIn(R, k, n) /\ ~HasKey(r.entries, k)
          BY <2>1, <3>12, <4>1, HasKeyInAppend
        <5> QED
          BY <3>9, <3>10, <3>12, <4>1, <5>1
      <4>2. CASE n = Len(R) + 1 /\ more[n] = r
        <5>1. HasKey(r.entries, k)
          BY <2>1, <3>12, <4>2, HasKeyInAppend
        <5> QED
          BY <3>9, <3>12, <4>2, <5>1
      <4> QED
        BY <2>1, <4>1, <4>2, HasKeyInAppend
    <3>13. HasKey(x, k) <=> HasKeyIn(more, k)
      BY <3>9, <3>10, <3>11
    <3> QED
      BY <3>2, <3>9, <3>10, <3>12, <3>13 DEF UpsertsAt
  <2>4. UpsertsAt(more, k)
    BY <2>3 DEF UpsertsAt
  <2> QED
    BY <2>1, <2>2, <2>4
<1> HIDE DEF T
<1>3. \A R \in Seq(Results(E)) : R \in T
  BY <1>1, <1>2, AllSequences
<1> QED
  BY <1>3 DEF T

(* Only the places that a sequence has matter.                             *)
LEMMA WithoutSame ==
  ASSUME NEW E, NEW drop, NEW none
  PROVE  \A es \in Seq(E) : (\A n \in DOMAIN es : n \in drop <=> n \in none) => Without(es, drop) = Without(es, none)
<1> DEFINE Same(es) == \A n \in DOMAIN es : n \in drop <=> n \in none
           T == {es \in Seq(E) : Same(es) => Without(es, drop) = Without(es, none)}
<1>1. <<>> \in T
  BY WithoutNone, EmptySeq
<1>2. ASSUME NEW es \in Seq(E), NEW e \in E, es \in T PROVE Append(es, e) \in T
  <2>1. PICK more : more = Append(es, e)
    OBVIOUS
  <2>2. /\ more \in Seq(E)
        /\ \A n \in DOMAIN es : n \in DOMAIN more
        /\ Len(es) + 1 \in DOMAIN more
    BY <2>1, AppendFacts
  <2>3. Without(more, drop) = IF Len(es) + 1 \in drop THEN Without(es, drop) ELSE Append(Without(es, drop), e)
    BY <2>1, WithoutNext
  <2>4. Without(more, none) = IF Len(es) + 1 \in none THEN Without(es, none) ELSE Append(Without(es, none), e)
    BY <2>1, WithoutNext
  <2>5. ASSUME Same(more) PROVE Without(more, drop) = Without(more, none)
    <3>1. Same(es) /\ (Len(es) + 1 \in drop <=> Len(es) + 1 \in none)
      BY <2>2, <2>5
    <3> QED
      BY <1>2, <2>3, <2>4, <3>1
  <2> QED
    BY <2>1, <2>2, <2>5
<1> HIDE DEF T
<1>3. \A es \in Seq(E) : es \in T
  BY <1>1, <1>2, AllSequences
<1> QED
  BY <1>3 DEF T

-----------------------------------------------------------------------------
(* Where keys come from: the table of origins, and what it says of the     *)
(* entries of a mapping and of a payload.                                  *)

(* The greatest of some of the numbers up to another.                      *)
LEMMA MaxIsGreatest ==
  ASSUME NEW T \in SUBSET Nat, T # {}, NEW b \in Nat, \A x \in T : x <= b
  PROVE  Max(T) \in T /\ \A n \in T : n <= Max(T)
<1> DEFINE B == {m \in Nat : \A x \in T : x <= m}
<1>1. B \in SUBSET Nat /\ b \in B
  OBVIOUS
<1>2. PICK m \in B : \A n \in B : m <= n
  BY <1>1, LeastNumber
<1>3. m \in Nat /\ \A x \in T : x <= m
  BY <1>2
<1>4. m \in T
  <2>1. SUFFICES ASSUME m \notin T PROVE FALSE
    OBVIOUS
  <2>2. \A x \in T : x <= m /\ x # m /\ x \in Nat
    BY <1>3, <2>1
  <2>3. m # 0
    <3>1. PICK x \in T : TRUE
      OBVIOUS
    <3>2. x <= m /\ x # m /\ x \in Nat
      BY <2>2
    <3> QED
      BY <1>3, <3>2
  <2>4. m - 1 \in Nat /\ ~(m <= m - 1)
    BY <1>3, <2>3
  <2>5. \A x \in T : x <= m - 1
    BY <1>3, <2>2, <2>4
  <2>6. m - 1 \in B
    BY <2>4, <2>5
  <2> QED
    BY <1>2, <2>4, <2>6
<1>5. \A y \in T : m >= y
  BY <1>3
<1>6. Max(T) \in T /\ \A y \in T : Max(T) >= y
  BY <1>4, <1>5 DEF Max
<1> QED
  BY <1>6

SameOrigins(t, u, i) == \A j \in Nat : 0 < j /\ j < i => \A k \in Keys : t[<<j, k>>] = u[<<j, k>>]

Having(t, pay, k) == {n \in DOMAIN pay.refs : pay.refs[n] # 0 /\ t[<<pay.refs[n], k>>] # NoPlace}

(* The origin of a key in a payload is that of the first item having it.   *)
LEMMA OriginInIs ==
  ASSUME NEW t, NEW pay \in Shapes, NEW k
  PROVE  /\ Having(t, pay, k) = {} => OriginIn(t, pay, k) = NoPlace
         /\ Having(t, pay, k) # {} =>
              \E n \in Having(t, pay, k) : /\ OriginIn(t, pay, k) = t[<<pay.refs[n], k>>]
                                           /\ \A m \in Having(t, pay, k) : n <= m
<1>1. Having(t, pay, k) \in SUBSET Nat
  BY ShapeFacts DEF Having
<1>2. OriginIn(t, pay, k) = IF Having(t, pay, k) = {} THEN NoPlace ELSE t[<<pay.refs[Min(Having(t, pay, k))], k>>]
  BY DEF OriginIn, Having
<1>3. Having(t, pay, k) # {} =>
        Min(Having(t, pay, k)) \in Having(t, pay, k) /\ \A m \in Having(t, pay, k) : Min(Having(t, pay, k)) <= m
  BY <1>1, MinIsLeast
<1> QED
  BY <1>2, <1>3

(* Origins in a payload depend on the mappings before only.                *)
LEMMA OriginInAgrees ==
  ASSUME NEW t, NEW u, NEW i \in Nat, SameOrigins(t, u, i), NEW pay \in Shapes, Below(pay, i), NEW k \in Keys
  PROVE  OriginIn(t, pay, k) = OriginIn(u, pay, k)
<1>1. \A n \in DOMAIN pay.refs : pay.refs[n] \in Nat /\ pay.refs[n] < i
  BY ShapeFacts DEF Below
<1>2. \A n \in DOMAIN pay.refs : pay.refs[n] # 0 => t[<<pay.refs[n], k>>] = u[<<pay.refs[n], k>>]
  BY <1>1 DEF SameOrigins
<1>3. PICK having : having = Having(t, pay, k)
  OBVIOUS
<1>4. having = Having(u, pay, k)
  BY <1>2, <1>3 DEF Having
<1>5. having \in SUBSET Nat
  BY <1>3, ShapeFacts DEF Having
<1>6. having # {} => Min(having) \in having
  BY <1>5, MinIsLeast
<1>7. having # {} => t[<<pay.refs[Min(having)], k>>] = u[<<pay.refs[Min(having)], k>>]
  BY <1>2, <1>3, <1>6 DEF Having
<1> QED
  BY <1>3, <1>4, <1>7 DEF OriginIn, Having

(* The `<<` keys of a mapping that have a key to give.                     *)
Giving(t, policy, d, i, k) ==
  {p \in DOMAIN d[i] : Merging(policy, d[i][p]) /\ OriginIn(t, d[i][p].pay, k) # NoPlace}
Owning(policy, d, i, k) == {p \in DOMAIN d[i] : d[i][p].key = k /\ ~Merging(policy, d[i][p])}

OriginRule(t, policy, d, i, k) ==
  /\ Owning(policy, d, i, k) # {} =>
       \E p \in Owning(policy, d, i, k) : /\ OriginOf(t, policy, d, i, k) = <<i, p>>
                                          /\ \A q \in Owning(policy, d, i, k) : p <= q
  /\ Owning(policy, d, i, k) = {} /\ Giving(t, policy, d, i, k) = {} => OriginOf(t, policy, d, i, k) = NoPlace
  /\ Owning(policy, d, i, k) = {} /\ Giving(t, policy, d, i, k) # {} =>
       \E p \in Giving(t, policy, d, i, k) :
         /\ OriginOf(t, policy, d, i, k) = OriginIn(t, d[i][p].pay, k)
         /\ \A q \in Giving(t, policy, d, i, k) : IF policy = "yaml11" THEN q <= p ELSE p <= q

(* The rule of precedence, by cases.                                       *)
LEMMA OriginOfIs ==
  ASSUME NEW t, NEW policy, NEW d, Document(d), NEW i \in DOMAIN d, NEW k
  PROVE  OriginRule(t, policy, d, i, k)
<1>1. PICK own, merged : own = Owning(policy, d, i, k) /\ merged = Giving(t, policy, d, i, k)
  OBVIOUS
<1>2. DOMAIN d[i] = 1 .. Len(d[i]) /\ Len(d[i]) \in Nat
  BY EntryOfDocument
<1>3. own \in SUBSET Nat /\ merged \in SUBSET Nat /\ \A x \in merged : x <= Len(d[i])
  BY <1>1, <1>2 DEF Owning, Giving
<1>4. own # {} => Min(own) \in own /\ \A q \in own : Min(own) <= q
  BY <1>3, MinIsLeast
<1>5. merged # {} => Min(merged) \in merged /\ \A q \in merged : Min(merged) <= q
  BY <1>3, MinIsLeast
<1>6. merged # {} => Max(merged) \in merged /\ \A q \in merged : q <= Max(merged)
  BY <1>2, <1>3, MaxIsGreatest
<1>7. OriginOf(t, policy, d, i, k)
        = IF own # {} THEN <<i, Min(own)>>
          ELSE IF merged = {} THEN NoPlace
          ELSE OriginIn(t, d[i][IF policy = "yaml11" THEN Max(merged) ELSE Min(merged)].pay, k)
  BY <1>1 DEF OriginOf, Owning, Giving
<1>8. CASE own # {}
  BY <1>1, <1>4, <1>7, <1>8 DEF OriginRule
<1>9. CASE own = {} /\ merged = {}
  BY <1>1, <1>7, <1>9 DEF OriginRule
<1>10. CASE own = {} /\ merged # {} /\ policy = "yaml11"
  BY <1>1, <1>6, <1>7, <1>10 DEF OriginRule
<1>11. CASE own = {} /\ merged # {} /\ policy # "yaml11"
  BY <1>1, <1>5, <1>7, <1>11 DEF OriginRule
<1> QED
  BY <1>8, <1>9, <1>10, <1>11

(* The origins of a mapping's keys depend on the mappings before only.     *)
LEMMA OriginOfAgrees ==
  ASSUME NEW policy, NEW d, Document(d), Backward(d), NEW i \in DOMAIN d, NEW k \in Keys,
         NEW t, NEW u, SameOrigins(t, u, i)
  PROVE  OriginOf(t, policy, d, i, k) = OriginOf(u, policy, d, i, k)
<1>1. \A p \in DOMAIN d[i] : OriginIn(t, d[i][p].pay, k) = OriginIn(u, d[i][p].pay, k)
  <2>1. ASSUME NEW p \in DOMAIN d[i] PROVE OriginIn(t, d[i][p].pay, k) = OriginIn(u, d[i][p].pay, k)
    <3>1. d[i][p].pay \in Shapes /\ Below(d[i][p].pay, i) /\ i \in Nat
      BY PayloadOfDocument, EntryOfDocument DEF Backward
    <3> QED
      BY <3>1, OriginInAgrees
  <2> QED
    BY <2>1
<1>2. PICK own, merged : own = Owning(policy, d, i, k) /\ merged = Giving(t, policy, d, i, k)
  OBVIOUS
<1>3. merged = Giving(u, policy, d, i, k)
  BY <1>1, <1>2 DEF Giving
<1>4. DOMAIN d[i] = 1 .. Len(d[i]) /\ Len(d[i]) \in Nat
  BY EntryOfDocument
<1>5. merged \in SUBSET Nat /\ merged \subseteq DOMAIN d[i] /\ \A x \in merged : x <= Len(d[i])
  BY <1>2, <1>4 DEF Giving
<1>6. merged # {} => Min(merged) \in DOMAIN d[i]
  BY <1>5, MinIsLeast
<1>7. merged # {} => Max(merged) \in DOMAIN d[i]
  BY <1>4, <1>5, MaxIsGreatest
<1>8. PICK p : p = IF policy = "yaml11" THEN Max(merged) ELSE Min(merged)
  OBVIOUS
<1>9. OriginOf(t, policy, d, i, k)
        = IF own # {} THEN <<i, Min(own)>> ELSE IF merged = {} THEN NoPlace ELSE OriginIn(t, d[i][p].pay, k)
  BY <1>2, <1>8 DEF OriginOf, Owning, Giving
<1>10. OriginOf(u, policy, d, i, k)
        = IF own # {} THEN <<i, Min(own)>> ELSE IF merged = {} THEN NoPlace ELSE OriginIn(u, d[i][p].pay, k)
  BY <1>2, <1>3, <1>8 DEF OriginOf, Owning, Giving
<1>11. merged # {} => p \in DOMAIN d[i]
  BY <1>6, <1>7, <1>8
<1> QED
  BY <1>1, <1>9, <1>10, <1>11

OriginsUpTo(policy, d, n, t) ==
  \A i \in DOMAIN d : \A k \in Keys : i <= n => t[<<i, k>>] = OriginOf(t, policy, d, i, k)

(* The table of origins exists for the first mappings ...                  *)
LEMMA OriginsUpToExist ==
  ASSUME NEW policy, NEW d, Document(d), Backward(d)
  PROVE  \A n \in Nat : \E t : OriginsUpTo(policy, d, n, t)
<1> DEFINE T == {n \in Nat : \E t : OriginsUpTo(policy, d, n, t)}
<1>1. 0 \in T
  <2>1. \A t : OriginsUpTo(policy, d, 0, t)
    BY EntryOfDocument DEF OriginsUpTo
  <2> QED
    BY <2>1
<1>2. ASSUME NEW n \in T PROVE n + 1 \in T
  <2>1. PICK t : OriginsUpTo(policy, d, n, t)
    BY <1>2
  <2>2. PICK u : u = [x \in (DOMAIN d) \X Keys |->
                        IF x[1] = n + 1 THEN OriginOf(t, policy, d, x[1], x[2]) ELSE t[x]]
    OBVIOUS
  <2>3. \A i \in DOMAIN d : \A k \in Keys :
          u[<<i, k>>] = IF i = n + 1 THEN OriginOf(t, policy, d, i, k) ELSE t[<<i, k>>]
    BY <2>2
  <2>4. ASSUME NEW i \in DOMAIN d, NEW k \in Keys, i <= n + 1
        PROVE  u[<<i, k>>] = OriginOf(u, policy, d, i, k)
    <3>1. i \in Nat /\ n \in Nat /\ DOMAIN d = 1 .. Len(d) /\ Len(d) \in Nat
      BY <1>2, EntryOfDocument
    <3>2. \A j \in Nat : 0 < j /\ j < i => j \in DOMAIN d /\ j # n + 1
      BY <2>4, <3>1
    <3>3. SameOrigins(t, u, i)
      BY <2>3, <3>2 DEF SameOrigins
    <3>4. OriginOf(t, policy, d, i, k) = OriginOf(u, policy, d, i, k)
      BY <3>3, OriginOfAgrees
    <3>5. i # n + 1 => t[<<i, k>>] = OriginOf(t, policy, d, i, k)
      BY <2>1, <2>4, <3>1 DEF OriginsUpTo
    <3> QED
      BY <2>3, <3>4, <3>5
  <2>5. OriginsUpTo(policy, d, n + 1, u)
    BY <2>4 DEF OriginsUpTo
  <2> QED
    BY <1>2, <2>5
<1> HIDE DEF T
<1>3. T \in SUBSET Nat
  BY DEF T
<1>4. T = Nat
  BY <1>1, <1>2, <1>3, FromZeroUp
<1> QED
  BY <1>4 DEF T

Origins(policy, d, t) == t = [x \in (DOMAIN d) \X Keys |-> OriginOf(t, policy, d, x[1], x[2])]
Traced(policy, d, t)  == \A i \in DOMAIN d : \A k \in Keys : t[<<i, k>>] = OriginOf(t, policy, d, i, k)

(* ... hence for all of them,                                              *)
LEMMA OriginsExist ==
  ASSUME NEW policy, NEW d, Document(d), Backward(d)
  PROVE  \E t : Origins(policy, d, t)
<1>1. Len(d) \in Nat /\ DOMAIN d = 1 .. Len(d)
  BY LenProperties DEF Document
<1>2. PICK t : OriginsUpTo(policy, d, Len(d), t)
  BY <1>1, OriginsUpToExist
<1>3. PICK u : u = [x \in (DOMAIN d) \X Keys |-> t[x]]
  OBVIOUS
<1>4. \A i \in DOMAIN d : \A k \in Keys : u[<<i, k>>] = t[<<i, k>>]
  BY <1>3
<1>5. ASSUME NEW i \in DOMAIN d, NEW k \in Keys
      PROVE  t[<<i, k>>] = OriginOf(u, policy, d, i, k)
  <2>1. i <= Len(d) /\ i \in Nat
    BY <1>1
  <2>2. \A j \in Nat : 0 < j /\ j < i => j \in DOMAIN d
    BY <1>1, <2>1
  <2>3. SameOrigins(t, u, i)
    BY <1>4, <2>2 DEF SameOrigins
  <2> QED
    BY <1>2, <2>1, <2>3, OriginOfAgrees DEF OriginsUpTo
<1>6. \A x \in (DOMAIN d) \X Keys : t[x] = OriginOf(u, policy, d, x[1], x[2])
  <2>1. ASSUME NEW x \in (DOMAIN d) \X Keys PROVE t[x] = OriginOf(u, policy, d, x[1], x[2])
    <3>1. x = <<x[1], x[2]>> /\ x[1] \in DOMAIN d /\ x[2] \in Keys
      BY <2>1
    <3> QED
      BY <1>5, <3>1
  <2> QED
    BY <2>1
<1>7. Origins(policy, d, u)
  BY <1>3, <1>6 DEF Origins
<1> QED
  BY <1>7

(* and Origin follows the rule of precedence.                              *)
LEMMA OriginIs ==
  ASSUME NEW policy, NEW d, Document(d), Backward(d)
  PROVE  Traced(policy, d, Origin(policy, d))
<1> DEFINE g == CHOOSE t : Origins(policy, d, t)
<1>1. Origins(policy, d, g)
  BY OriginsExist
<1>2. Origin(policy, d) = g
  BY DEF Origin, Origins
<1> HIDE DEF g
<1>3. Traced(policy, d, g)
  BY <1>1 DEF Origins, Traced
<1> QED
  BY <1>2, <1>3

-----------------------------------------------------------------------------
(* Precedence.  Entries are right for a mapping under a key when the value *)
(* is the one the table of origins gives, and there is only one.           *)
Right(o, i, es, k) == At(es, k) = o[<<i, k>>] /\ Once(es, k)
RightBelow(t, o, i) ==
  \A j \in Nat : 0 < j /\ j < i => \A depth \in Depths : ~Fails(t[<<j, depth>>]) =>
    \A k \in Keys \ {MergeKey} : Right(o, j, t[<<j, depth>>].entries, k)
Unique(policy, d) ==
  \A i \in DOMAIN d : \A n, m \in DOMAIN d[i] :
    d[i][n].key = d[i][m].key /\ (policy = "strict" \/ d[i][n].key # MergeKey) => n = m

(* Where the keys of the entries of a mapping come from.                   *)
LEMMA EntriesAt ==
  ASSUME NEW d, Document(d), NEW i \in DOMAIN d, NEW k
  PROVE  /\ HasKey(Entries(d, i), k) <=> \E p \in DOMAIN d[i] : d[i][p].key = k
         /\ Once(Entries(d, i), k) <=> \A n, m \in DOMAIN d[i] : d[i][n].key = k /\ d[i][m].key = k => n = m
         /\ \A p \in DOMAIN d[i] :
              d[i][p].key = k /\ (\A q \in DOMAIN d[i] : d[i][q].key = k => p <= q) => At(Entries(d, i), k) = <<i, p>>
         /\ DOMAIN Entries(d, i) = DOMAIN d[i]
         /\ \A p \in DOMAIN d[i] : Entries(d, i)[p].key = d[i][p].key
<1>1. PICK es : es = Entries(d, i)
  OBVIOUS
<1>2. es \in Seq(Placed)
  BY <1>1, EntriesType
<1>3. DOMAIN es = DOMAIN d[i] /\ \A p \in DOMAIN d[i] : es[p].key = d[i][p].key /\ es[p].place = <<i, p>>
  BY <1>1 DEF Entries, Own
<1>4. HasKey(es, k) <=> \E p \in DOMAIN d[i] : d[i][p].key = k
  BY <1>3 DEF HasKey
<1>5. Once(es, k) <=> \A n, m \in DOMAIN d[i] : d[i][n].key = k /\ d[i][m].key = k => n = m
  BY <1>3 DEF Once
<1>6. ASSUME NEW p \in DOMAIN d[i], d[i][p].key = k, \A q \in DOMAIN d[i] : d[i][q].key = k => p <= q
      PROVE  At(es, k) = <<i, p>>
  <2>1. HasKey(es, k) /\ Position(es, k) = p
    BY <1>2, <1>3, <1>6, PositionIs
  <2> QED
    BY <1>3, <2>1 DEF At
<1> QED
  BY <1>1, <1>3, <1>4, <1>5, <1>6

(* What a payload has under a key is what its table of origins says.       *)
LEMMA PayloadAt ==
  ASSUME NEW t, NEW o, NEW i \in Nat, TypedBelow(t, i), RightBelow(t, o, i),
         NEW pay \in Shapes, Below(pay, i), NEW depth \in Depths, NEW k \in Keys \ {MergeKey},
         NEW R, R = MergeSources(t, pay, depth), AllOk(R)
  PROVE  /\ HasKeyIn(R, k) <=> OriginIn(o, pay, k) # NoPlace
         /\ HasKeyIn(R, k) => \E n \in DOMAIN R : FirstIn(R, k, n) /\ At(R[n].entries, k) = OriginIn(o, pay, k)
         /\ \A n \in DOMAIN R : Once(R[n].entries, k)
<1>1. /\ R \in Seq(Result) /\ Len(R) = Len(pay.refs) /\ DOMAIN R = DOMAIN pay.refs
      /\ \A n \in DOMAIN pay.refs : R[n] = MergeSource(t, pay.refs[n], depth)
      /\ \A n \in DOMAIN pay.refs : pay.refs[n] # 0 => t[<<pay.refs[n], depth>>] \in Result
  <2>1. /\ R \in Seq(Result) /\ Len(R) = Len(pay.refs)
        /\ \A n \in DOMAIN pay.refs : R[n] = MergeSource(t, pay.refs[n], depth)
        /\ \A n \in DOMAIN pay.refs : pay.refs[n] # 0 => t[<<pay.refs[n], depth>>] \in Result
    BY SourcesType
  <2>2. DOMAIN pay.refs = 1 .. Len(pay.refs) /\ DOMAIN R = 1 .. Len(R)
    BY <2>1, ShapeFacts, LenProperties
  <2> QED
    BY <2>1, <2>2
<1>2. ASSUME NEW n \in DOMAIN R
      PROVE  /\ pay.refs[n] # 0 /\ At(R[n].entries, k) = o[<<pay.refs[n], k>>] /\ Once(R[n].entries, k)
             /\ HasKey(R[n].entries, k) <=> o[<<pay.refs[n], k>>] # NoPlace
  <2>1. ~Fails(R[n]) /\ R[n] = MergeSource(t, pay.refs[n], depth)
    BY <1>1 DEF AllOk
  <2>2. pay.refs[n] # 0
    BY <2>1 DEF MergeSource, Err, Fails
  <2>3. R[n] = t[<<pay.refs[n], depth>>] /\ R[n] \in Result
    BY <1>1, <2>1, <2>2 DEF MergeSource
  <2>4. pay.refs[n] \in Nat /\ 0 < pay.refs[n] /\ pay.refs[n] < i
    BY <1>1, <2>2, ShapeFacts DEF Below
  <2>5. Right(o, pay.refs[n], R[n].entries, k)
    BY <2>1, <2>3, <2>4 DEF RightBelow
  <2>6. R[n].entries \in Seq(Placed)
    BY <2>3 DEF Result, Results
  <2> QED
    BY <2>2, <2>5, <2>6, AtSomewhere DEF Right
<1>3. HasKeyIn(R, k) <=> Having(o, pay, k) # {}
  BY <1>1, <1>2 DEF HasKeyIn, Having
<1>4. ASSUME HasKeyIn(R, k)
      PROVE  /\ OriginIn(o, pay, k) # NoPlace
             /\ \E n \in DOMAIN R : FirstIn(R, k, n) /\ At(R[n].entries, k) = OriginIn(o, pay, k)
  <2>1. PICK n \in Having(o, pay, k) : /\ OriginIn(o, pay, k) = o[<<pay.refs[n], k>>]
                                       /\ \A m \in Having(o, pay, k) : n <= m
    BY <1>3, <1>4, OriginInIs
  <2>2. n \in DOMAIN R /\ o[<<pay.refs[n], k>>] # NoPlace
    BY <1>1, <2>1 DEF Having
  <2>3. \A m \in DOMAIN R : m < n => ~HasKey(R[m].entries, k)
    <3>1. \A m \in DOMAIN R : HasKey(R[m].entries, k) => m \in Having(o, pay, k)
      BY <1>1, <1>2 DEF Having
    <3>2. \A m \in DOMAIN R : m \in Int
      BY <1>1, LenProperties
    <3> QED
      BY <2>1, <2>2, <3>1, <3>2
  <2> QED
    BY <1>2, <2>1, <2>2, <2>3 DEF FirstIn
<1>5. ~HasKeyIn(R, k) => OriginIn(o, pay, k) = NoPlace
  BY <1>3, OriginInIs
<1> QED
  BY <1>2, <1>4, <1>5

MergelessBelow(t, i) ==
  \A j \in Nat : 0 < j /\ j < i => \A depth \in Depths : ~Fails(t[<<j, depth>>]) =>
    ~HasKey(t[<<j, depth>>].entries, MergeKey)

(* No merge key comes out of a payload that was expanded.                  *)
LEMMA PayloadMergeless ==
  ASSUME NEW t, NEW i \in Nat, TypedBelow(t, i), MergelessBelow(t, i),
         NEW pay \in Shapes, Below(pay, i), NEW depth \in Depths,
         NEW R, R = MergeSources(t, pay, depth), AllOk(R)
  PROVE  ~HasKeyIn(R, MergeKey)
<1>1. DOMAIN R = DOMAIN pay.refs /\ \A n \in DOMAIN R : R[n] = MergeSource(t, pay.refs[n], depth)
  BY DEF MergeSources
<1>2. ASSUME NEW n \in DOMAIN R PROVE ~HasKey(R[n].entries, MergeKey)
  <2>1. ~Fails(R[n]) /\ R[n] = MergeSource(t, pay.refs[n], depth)
    BY <1>1 DEF AllOk
  <2>2. pay.refs[n] # 0
    BY <2>1 DEF MergeSource, Err, Fails
  <2>3. R[n] = t[<<pay.refs[n], depth>>]
    BY <2>1, <2>2 DEF MergeSource
  <2>4. pay.refs[n] \in Nat /\ 0 < pay.refs[n] /\ pay.refs[n] < i
    BY <1>1, <2>2, ShapeFacts DEF Below
  <2> QED
    BY <2>1, <2>3, <2>4 DEF MergelessBelow
<1> QED
  BY <1>2 DEF HasKeyIn

(* What the strict policy does with a `<<` key when nothing fails.         *)
LEMMA StrictMerges ==
  ASSUME NEW d, Document(d), Backward(d), NEW i \in DOMAIN d, NEW depth \in Depths,
         NEW t, TypedBelow(t, i), NEW r, r = StrictEntries(t, d, i, depth), ~Fails(r), Merges(d, i) # {},
         NEW m, m = FirstMerge(d, i), NEW pay, pay = d[i][m].pay, NEW w, w = Without(Entries(d, i), {m}),
         NEW R, R = MergeSources(t, pay, depth + 1)
  PROVE  /\ m \in DOMAIN d[i] /\ d[i][m].key = MergeKey /\ pay \in Shapes /\ Below(pay, i)
         /\ pay.kind \in {"map", "seq"} /\ depth + 1 \in Depths /\ w \in Seq(Placed)
         /\ R \in Seq(Result) /\ AllOk(R) /\ r = AddAll("missing", w, R)
<1>1. m \in DOMAIN d[i] /\ d[i][m].key = MergeKey
  BY FirstMergeIn DEF Merges
<1>2. pay \in Shapes /\ Below(pay, i)
  BY <1>1, PayloadOfDocument DEF Backward
<1>3. r = MergeNodeMapping(t, w, pay, depth + 1)
  BY DEF StrictEntries
<1>4. ~TooDeep(depth + 1) /\ pay.kind \in {"map", "seq"} /\ r = AddAll("missing", w, R)
  BY <1>3 DEF MergeNodeMapping, Fails, Err
<1>5. depth + 1 \in Depths
  BY <1>4, MergeKeysAssumption DEF TooDeep, Depths
<1>6. R \in Seq(Result)
  BY <1>2, <1>5, SourcesType, EntryOfDocument
<1>7. AllOk(R)
  BY <1>4, <1>6, AddAllFails DEF Result
<1>8. w \in Seq(Placed)
  BY EntriesWithoutType
<1> QED
  BY <1>1, <1>2, <1>4, <1>5, <1>6, <1>7, <1>8

(* No merge key is left by strict expansion.                               *)
LEMMA StrictMergeless ==
  ASSUME NEW d, Document(d), Backward(d), Unique("strict", d), NEW i \in DOMAIN d, NEW depth \in Depths,
         NEW t, TypedBelow(t, i), MergelessBelow(t, i),
         NEW r, r = StrictEntries(t, d, i, depth), ~Fails(r)
  PROVE  ~HasKey(r.entries, MergeKey)
<1>1. CASE Merges(d, i) = {}
  <2>1. r.entries = Entries(d, i)
    BY <1>1 DEF StrictEntries, Ok
  <2> QED
    BY <1>1, <2>1, EntriesAt DEF Merges
<1>2. CASE Merges(d, i) # {}
  <2>1. PICK es, m, pay, w, R : /\ es = Entries(d, i) /\ m = FirstMerge(d, i) /\ pay = d[i][m].pay
                                /\ w = Without(es, {m}) /\ R = MergeSources(t, pay, depth + 1)
    OBVIOUS
  <2>2. /\ m \in DOMAIN d[i] /\ d[i][m].key = MergeKey /\ pay \in Shapes /\ Below(pay, i)
        /\ depth + 1 \in Depths /\ w \in Seq(Placed) /\ R \in Seq(Result) /\ AllOk(R)
        /\ r = AddAll("missing", w, R)
    BY <1>2, <2>1, StrictMerges
  <2>3. \A p \in DOMAIN d[i] : d[i][p].key = MergeKey => p = m
    BY <2>2 DEF Unique
  <2>4. ~HasKey(w, MergeKey)
    <3>1. LeftAt(es, {m}, MergeKey)
      BY <2>1, WithoutAt, EntriesType
    <3>2. ~\E n \in DOMAIN es : n \notin {m} /\ es[n].key = MergeKey
      BY <2>1, <2>3, EntriesAt
    <3> QED
      BY <2>1, <3>1, <3>2 DEF LeftAt
  <2>5. MissingAt(w, R, MergeKey)
    BY <2>2, AddAllMissingAt DEF Result
  <2>6. ~HasKeyIn(R, MergeKey)
    BY <2>1, <2>2, PayloadMergeless, EntryOfDocument
  <2> QED
    BY <2>2, <2>4, <2>5, <2>6 DEF MissingAt
<1> QED
  BY <1>1, <1>2

(* Strict expansion follows precedence, if it does so for the mappings     *)
(* before ...                                                              *)
LEMMA StrictRight ==
  ASSUME NEW d, Document(d), Backward(d), Unique("strict", d), NEW i \in DOMAIN d, NEW depth \in Depths,
         NEW t, TypedBelow(t, i), NEW o, RightBelow(t, o, i), Traced("strict", d, o),
         NEW r, r = StrictEntries(t, d, i, depth), ~Fails(r), NEW k \in Keys \ {MergeKey}
  PROVE  Right(o, i, r.entries, k)
<1>1. PICK es, own : es = Entries(d, i) /\ own = Owning("strict", d, i, k)
  OBVIOUS
<1>2. es \in Seq(Placed) /\ i \in Nat /\ OriginRule(o, "strict", d, i, k)
  BY <1>1, EntriesType, EntryOfDocument, OriginOfIs
<1>3. own = {p \in DOMAIN d[i] : d[i][p].key = k}
  BY <1>1 DEF Owning, Merging
<1>4. Once(es, k)
  BY <1>1, EntriesAt DEF Unique
<1>5. own # {} => At(es, k) = o[<<i, k>>] /\ HasKey(es, k)
  <2>1. ASSUME own # {} PROVE At(es, k) = o[<<i, k>>] /\ HasKey(es, k)
    <3>1. PICK p \in own : OriginOf(o, "strict", d, i, k) = <<i, p>> /\ \A q \in own : p <= q
      BY <1>1, <1>2, <2>1 DEF OriginRule
    <3>2. At(es, k) = <<i, p>> /\ HasKey(es, k)
      BY <1>1, <1>3, <3>1, EntriesAt
    <3> QED
      BY <3>1, <3>2 DEF Traced
  <2> QED
    BY <2>1
<1>6. own = {} => ~HasKey(es, k)
  BY <1>1, <1>3, EntriesAt
<1>7. CASE Merges(d, i) = {}
  <2>1. r.entries = es
    BY <1>1, <1>7 DEF StrictEntries, Ok
  <2>2. ASSUME own = {} PROVE At(es, k) = o[<<i, k>>]
    <3>1. Giving(o, "strict", d, i, k) = {}
      BY <1>7 DEF Giving, Merging, Merges
    <3>2. OriginOf(o, "strict", d, i, k) = NoPlace
      BY <1>1, <1>2, <2>2, <3>1 DEF OriginRule
    <3>3. At(es, k) = NoPlace
      BY <1>6, <2>2 DEF At
    <3> QED
      BY <3>2, <3>3 DEF Traced
  <2> QED
    BY <1>4, <1>5, <2>1, <2>2 DEF Right
<1>8. CASE Merges(d, i) # {}
  <2>1. PICK m, pay, w, R : /\ m = FirstMerge(d, i) /\ pay = d[i][m].pay /\ w = Without(es, {m})
                            /\ R = MergeSources(t, pay, depth + 1)
    OBVIOUS
  <2>2. /\ m \in DOMAIN d[i] /\ d[i][m].key = MergeKey /\ pay \in Shapes /\ Below(pay, i)
        /\ depth + 1 \in Depths /\ w \in Seq(Placed) /\ R \in Seq(Result) /\ AllOk(R)
        /\ r = AddAll("missing", w, R)
    BY <1>1, <1>8, <2>1, StrictMerges
  <2>3. \A p \in DOMAIN d[i] : d[i][p].key = MergeKey => p = m
    BY <2>2 DEF Unique
  <2>4. (HasKey(w, k) <=> HasKey(es, k)) /\ At(w, k) = At(es, k) /\ (Once(w, k) <=> Once(es, k))
    <3>1. \A n \in DOMAIN es : n \in {m} => es[n].key # k
      BY <1>1, <2>2, EntriesAt
    <3>2. KeptAt(es, {m}, k)
      BY <1>2, WithoutAt
    <3> QED
      BY <2>1, <3>1, <3>2 DEF KeptAt
  <2>5. /\ HasKey(w, k) => At(r.entries, k) = At(w, k)
        /\ ~HasKey(w, k) => \A n \in DOMAIN R : FirstIn(R, k, n) => At(r.entries, k) = At(R[n].entries, k)
        /\ HasKey(r.entries, k) <=> HasKey(w, k) \/ HasKeyIn(R, k)
        /\ Once(w, k) => Once(r.entries, k)
    <3>1. MissingAt(w, R, k)
      BY <2>2, AddAllMissingAt DEF Result
    <3> QED
      BY <2>2, <3>1 DEF MissingAt
  <2>6. own = {} => At(r.entries, k) = o[<<i, k>>]
    <3>1. SUFFICES ASSUME own = {} PROVE At(r.entries, k) = o[<<i, k>>]
      OBVIOUS
    <3>2. ~HasKey(w, k)
      BY <1>6, <2>4, <3>1
    <3>3. /\ HasKeyIn(R, k) <=> OriginIn(o, pay, k) # NoPlace
          /\ HasKeyIn(R, k) => \E n \in DOMAIN R : FirstIn(R, k, n) /\ At(R[n].entries, k) = OriginIn(o, pay, k)
      BY <1>2, <2>1, <2>2, PayloadAt
    <3>4. o[<<i, k>>] = OriginIn(o, pay, k)
      <4>1. Giving(o, "strict", d, i, k) \subseteq {m}
        BY <2>3 DEF Giving, Merging
      <4>2. m \in Giving(o, "strict", d, i, k) <=> OriginIn(o, pay, k) # NoPlace
        BY <2>1, <2>2 DEF Giving, Merging
      <4>3. PICK giving : giving = Giving(o, "strict", d, i, k)
        OBVIOUS
      <4>4. CASE giving = {}
        <5>1. OriginOf(o, "strict", d, i, k) = NoPlace
          BY <1>1, <1>2, <3>1, <4>3, <4>4 DEF OriginRule
        <5> QED
          BY <4>2, <4>3, <4>4, <5>1 DEF Traced
      <4>5. CASE giving # {}
        <5>1. Owning("strict", d, i, k) = {} /\ Giving(o, "strict", d, i, k) # {}
          BY <1>1, <3>1, <4>3, <4>5
        <5>2. PICK p \in Giving(o, "strict", d, i, k) : OriginOf(o, "strict", d, i, k) = OriginIn(o, d[i][p].pay, k)
          BY <1>2, <5>1 DEF OriginRule
        <5>3. p = m
          BY <4>1, <5>2
        <5> QED
          BY <2>1, <5>2, <5>3 DEF Traced
      <4> QED
        BY <4>4, <4>5
    <3>5. CASE HasKeyIn(R, k)
      BY <2>5, <3>2, <3>3, <3>4, <3>5
    <3>6. CASE ~HasKeyIn(R, k)
      BY <2>5, <3>2, <3>3, <3>4, <3>6 DEF At
    <3> QED
      BY <3>5, <3>6
  <2>7. own # {} => At(r.entries, k) = o[<<i, k>>]
    BY <1>5, <2>4, <2>5
  <2> QED
    BY <1>4, <2>4, <2>5, <2>6, <2>7 DEF Right
<1> QED
  BY <1>7, <1>8

RightAll(policy, t, o, i) ==
  \A depth \in Depths : ~Fails(t[<<i, depth>>]) =>
    /\ \A k \in Keys \ {MergeKey} : Right(o, i, t[<<i, depth>>].entries, k)
    /\ policy = "strict" => ~HasKey(t[<<i, depth>>].entries, MergeKey)

(* ... hence for all.                                                      *)
LEMMA StrictAllRight ==
  ASSUME NEW d, Document(d), Backward(d), Unique("strict", d),
         NEW t, Solves("strict", d, t), NEW o, Traced("strict", d, o)
  PROVE  \A i \in DOMAIN d : RightAll("strict", t, o, i)
<1> DEFINE T == {n \in Nat : \A i \in DOMAIN d : i <= n => RightAll("strict", t, o, i)}
<1>1. 0 \in T
  BY EntryOfDocument
<1>2. ASSUME NEW n \in T PROVE n + 1 \in T
  <2>1. ASSUME NEW i \in DOMAIN d, i <= n + 1 PROVE RightAll("strict", t, o, i)
    <3>1. i \in Nat /\ n \in Nat /\ DOMAIN d = 1 .. Len(d) /\ Len(d) \in Nat
      BY <1>2, EntryOfDocument
    <3>2. \A j \in Nat : 0 < j /\ j < i => j \in DOMAIN d /\ j <= n
      BY <2>1, <3>1
    <3>3. \A j \in Nat : 0 < j /\ j < i => RightAll("strict", t, o, j)
      BY <1>2, <3>2
    <3>4. RightBelow(t, o, i)
      BY <3>3 DEF RightBelow, RightAll
    <3>5. MergelessBelow(t, i)
      BY <3>3 DEF MergelessBelow, RightAll
    <3>6. TypedBelow(t, i)
      BY SolutionType
    <3>7. ASSUME NEW depth \in Depths, ~Fails(t[<<i, depth>>])
          PROVE  /\ \A k \in Keys \ {MergeKey} : Right(o, i, t[<<i, depth>>].entries, k)
                 /\ ~HasKey(t[<<i, depth>>].entries, MergeKey)
      <4>1. PICK r : r = t[<<i, depth>>]
        OBVIOUS
      <4>2. r = StrictEntries(t, d, i, depth)
        BY <4>1 DEF Solves, ExpandedEntries
      <4>3. ASSUME NEW k \in Keys \ {MergeKey} PROVE Right(o, i, r.entries, k)
        BY <3>4, <3>6, <3>7, <4>1, <4>2, StrictRight
      <4>4. ~HasKey(r.entries, MergeKey)
        BY <3>5, <3>6, <3>7, <4>1, <4>2, StrictMergeless
      <4> QED
        BY <4>1, <4>3, <4>4
    <3> QED
      BY <3>7 DEF RightAll
  <2> QED
    BY <1>2, <2>1
<1> HIDE DEF T
<1>3. T \in SUBSET Nat
  BY DEF T
<1>4. T = Nat
  BY <1>1, <1>2, <1>3, FromZeroUp
<1>5. ASSUME NEW i \in DOMAIN d PROVE i \in T /\ i <= i
  BY <1>4, EntryOfDocument
<1> QED
  BY <1>5 DEF T

(* The same under YAML 1.1: what a `<<` key gives, and what all give.      *)
LEMMA Yaml11MergedAt ==
  ASSUME NEW d, Document(d), Backward(d), NEW i \in DOMAIN d, NEW depth \in Depths,
         NEW t, TypedBelow(t, i), NEW o, RightBelow(t, o, i), NEW p \in DOMAIN d[i],
         NEW r, r = Yaml11Merged(t, d[i][p], depth + 1), ~Fails(r), NEW k \in Keys \ {MergeKey}
  PROVE  /\ HasKey(r.entries, k) <=> p \in Giving(o, "yaml11", d, i, k)
         /\ HasKey(r.entries, k) => At(r.entries, k) = OriginIn(o, d[i][p].pay, k)
         /\ Once(r.entries, k)
<1>1. CASE ~MergesIn(d[i][p])
  <2>1. r.entries = <<>>
    BY <1>1 DEF Yaml11Merged, Ok
  <2>2. p \notin Giving(o, "yaml11", d, i, k)
    BY <1>1 DEF Giving, Merging
  <2> QED
    BY <2>1, <2>2, AtNone
<1>2. CASE MergesIn(d[i][p])
  <2>1. PICK pay, R : pay = d[i][p].pay /\ R = MergeSources(t, pay, depth + 1)
    OBVIOUS
  <2>2. pay \in Shapes /\ Below(pay, i) /\ i \in Nat
    BY <2>1, PayloadOfDocument, EntryOfDocument DEF Backward
  <2>3. r = Yaml11MergeEntries(t, pay, depth + 1)
    BY <1>2, <2>1 DEF Yaml11Merged
  <2>4. ~TooDeep(depth + 1)
    BY <2>3 DEF Yaml11MergeEntries, Fails, Err
  <2>5. depth + 1 \in Depths
    BY <2>4, MergeKeysAssumption DEF TooDeep, Depths
  <2>6. \A n \in DOMAIN pay.refs : pay.refs[n] # 0
    BY <1>2, <2>1 DEF MergesIn, Mergeable
  <2>7. R = [n \in DOMAIN pay.refs |-> t[<<pay.refs[n], depth + 1>>]]
    BY <2>1, <2>6 DEF MergeSources, MergeSource
  <2>8. R \in Seq(Result)
    BY <2>1, <2>2, <2>5, SourcesType
  <2>9. p \in Giving(o, "yaml11", d, i, k) <=> OriginIn(o, pay, k) # NoPlace
    BY <1>2, <2>1 DEF Giving, Merging
  <2>10. CASE pay.kind = "map"
    <3>1. r = R[1] /\ DOMAIN R = {1}
      BY <2>2, <2>3, <2>4, <2>7, <2>10, ShapeFacts DEF Yaml11MergeEntries
    <3>2. AllOk(R)
      BY <3>1 DEF AllOk
    <3>3. /\ HasKeyIn(R, k) <=> OriginIn(o, pay, k) # NoPlace
          /\ HasKeyIn(R, k) => \E n \in DOMAIN R : FirstIn(R, k, n) /\ At(R[n].entries, k) = OriginIn(o, pay, k)
          /\ \A n \in DOMAIN R : Once(R[n].entries, k)
      BY <2>1, <2>2, <2>5, <3>2, PayloadAt
    <3>4. HasKeyIn(R, k) <=> HasKey(r.entries, k)
      BY <3>1 DEF HasKeyIn
    <3> QED
      BY <2>1, <2>9, <3>1, <3>3, <3>4
  <2>11. CASE pay.kind # "map"
    <3>1. r = AddAll("missing", <<>>, R)
      BY <2>3, <2>4, <2>7, <2>11 DEF Yaml11MergeEntries
    <3>2. AllOk(R)
      BY <2>8, <3>1, AddAllFails DEF Result
    <3>3. /\ HasKeyIn(R, k) <=> OriginIn(o, pay, k) # NoPlace
          /\ HasKeyIn(R, k) => \E n \in DOMAIN R : FirstIn(R, k, n) /\ At(R[n].entries, k) = OriginIn(o, pay, k)
      BY <2>1, <2>2, <2>5, <3>2, PayloadAt
    <3>4. MissingAt(<<>>, R, k)
      BY <2>8, AddAllMissingAt, EmptySeq DEF Result
    <3>5. /\ HasKey(r.entries, k) <=> HasKeyIn(R, k)
          /\ \A n \in DOMAIN R : FirstIn(R, k, n) => At(r.entries, k) = At(R[n].entries, k)
          /\ Once(r.entries, k)
      BY <3>1, <3>2, <3>4, AtNone DEF MissingAt
    <3> QED
      BY <2>1, <2>9, <3>3, <3>5
  <2> QED
    BY <2>10, <2>11
<1> QED
  BY <1>1, <1>2

(* What the YAML 1.1 policy makes of a mapping when nothing fails.         *)
LEMMA Yaml11Merges ==
  ASSUME NEW d, Document(d), Backward(d), NEW i \in DOMAIN d, NEW depth \in Depths,
         NEW t, TypedBelow(t, i), NEW r, r = Yaml11Entries(t, d, i, depth), ~Fails(r),
         NEW merges, merges = [p \in DOMAIN d[i] |-> Yaml11Merged(t, d[i][p], depth + 1)],
         NEW merged, merged = AddAll("upsert", <<>>, merges),
         NEW explicit, explicit = Without(Entries(d, i), {p \in DOMAIN d[i] : MergesIn(d[i][p])})
  PROVE  /\ merges \in Seq(Result) /\ AllOk(merges) /\ merged \in Result /\ explicit \in Seq(Placed)
         /\ r.entries = InsertMissing(explicit, merged.entries) /\ merged.entries \in Seq(Placed)
<1>1. merges \in Seq(Result) /\ merged \in Result
  BY Yaml11MergesType
<1>2. r = IF Fails(merged) THEN merged ELSE Ok(InsertMissing(explicit, merged.entries))
  BY DEF Yaml11Entries
<1>3. ~Fails(merged)
  BY <1>2
<1>4. AllOk(merges)
  BY <1>1, <1>3, AddAllFails DEF Result
<1>5. r.entries = InsertMissing(explicit, merged.entries)
  BY <1>2, <1>3 DEF Ok
<1>6. explicit \in Seq(Placed)
  BY EntriesWithoutType
<1>7. merged.entries \in Seq(Placed)
  BY <1>1 DEF Result, Results
<1> QED
  BY <1>1, <1>4, <1>5, <1>6, <1>7

(* YAML 1.1 expansion follows precedence, if it does so for the mappings   *)
(* before ...                                                              *)
LEMMA Yaml11Right ==
  ASSUME NEW d, Document(d), Backward(d), Unique("yaml11", d), NEW i \in DOMAIN d, NEW depth \in Depths,
         NEW t, TypedBelow(t, i), NEW o, RightBelow(t, o, i), Traced("yaml11", d, o),
         NEW r, r = Yaml11Entries(t, d, i, depth), ~Fails(r), NEW k \in Keys \ {MergeKey}
  PROVE  Right(o, i, r.entries, k)
<1>1. PICK es, own, giving : /\ es = Entries(d, i) /\ own = Owning("yaml11", d, i, k)
                             /\ giving = Giving(o, "yaml11", d, i, k)
  OBVIOUS
<1>2. es \in Seq(Placed) /\ i \in Nat /\ OriginRule(o, "yaml11", d, i, k)
  BY <1>1, EntriesType, EntryOfDocument, OriginOfIs
<1>3. own = {p \in DOMAIN d[i] : d[i][p].key = k}
  BY <1>1 DEF Owning, Merging, MergesIn
<1>4. Once(es, k)
  <2>1. \A n, m \in DOMAIN d[i] : d[i][n].key = k /\ d[i][m].key = k => n = m
    BY DEF Unique
  <2> QED
    BY <1>1, <2>1, EntriesAt
<1>5. ASSUME own # {} PROVE At(es, k) = o[<<i, k>>] /\ HasKey(es, k)
  <2>1. PICK p \in own : OriginOf(o, "yaml11", d, i, k) = <<i, p>> /\ \A q \in own : p <= q
    BY <1>1, <1>2, <1>5 DEF OriginRule
  <2>2. At(es, k) = <<i, p>> /\ HasKey(es, k)
    BY <1>1, <1>3, <2>1, EntriesAt
  <2> QED
    BY <2>1, <2>2 DEF Traced
<1>6. own = {} => ~HasKey(es, k)
  BY <1>1, <1>3, EntriesAt
<1>7. PICK drop, merges, merged, explicit :
        /\ drop = {p \in DOMAIN d[i] : MergesIn(d[i][p])}
        /\ merges = [p \in DOMAIN d[i] |-> Yaml11Merged(t, d[i][p], depth + 1)]
        /\ merged = AddAll("upsert", <<>>, merges) /\ explicit = Without(es, drop)
  OBVIOUS
<1>8. /\ merges \in Seq(Result) /\ AllOk(merges) /\ merged \in Result /\ explicit \in Seq(Placed)
      /\ r.entries = InsertMissing(explicit, merged.entries) /\ merged.entries \in Seq(Placed)
  BY <1>1, <1>7, Yaml11Merges
<1>9. (HasKey(explicit, k) <=> HasKey(es, k)) /\ At(explicit, k) = At(es, k) /\ (Once(explicit, k) <=> Once(es, k))
  <2>1. \A n \in DOMAIN es : n \in drop => es[n].key # k
    BY <1>1, <1>7, EntriesAt DEF MergesIn
  <2>2. KeptAt(es, drop, k)
    BY <1>2, WithoutAt
  <2> QED
    BY <1>7, <2>1, <2>2 DEF KeptAt
<1>10. InsertedAt(explicit, merged.entries, k)
  BY <1>8, InsertMissingAt
<1>11. /\ At(r.entries, k) = IF HasKey(explicit, k) THEN At(explicit, k) ELSE At(merged.entries, k)
       /\ Once(r.entries, k)
  BY <1>4, <1>8, <1>9, <1>10 DEF InsertedAt
<1>12. CASE own # {}
  BY <1>5, <1>9, <1>11, <1>12 DEF Right
<1>13. CASE own = {}
  <2>1. At(r.entries, k) = At(merged.entries, k)
    BY <1>6, <1>9, <1>11, <1>13
  <2>2. UpsertsAt(merges, k)
    BY <1>8, AddAllUpsertAt DEF Result
  <2>3. /\ HasKey(merged.entries, k) <=> HasKeyIn(merges, k)
        /\ \A n \in DOMAIN merges :
             LastIn(merges, k, n) /\ Once(merges[n].entries, k) => At(merged.entries, k) = At(merges[n].entries, k)
    BY <1>7, <1>8, <2>2 DEF UpsertsAt
  <2>4. DOMAIN merges = DOMAIN d[i]
    BY <1>7
  <2>5. \A p \in DOMAIN merges :
          /\ HasKey(merges[p].entries, k) <=> p \in giving
          /\ HasKey(merges[p].entries, k) => At(merges[p].entries, k) = OriginIn(o, d[i][p].pay, k)
          /\ Once(merges[p].entries, k)
    <3>1. ASSUME NEW p \in DOMAIN merges
          PROVE  /\ HasKey(merges[p].entries, k) <=> p \in giving
                 /\ HasKey(merges[p].entries, k) => At(merges[p].entries, k) = OriginIn(o, d[i][p].pay, k)
                 /\ Once(merges[p].entries, k)
      <4>1. PICK q : q = merges[p]
        OBVIOUS
      <4>2. p \in DOMAIN d[i] /\ ~Fails(q) /\ q = Yaml11Merged(t, d[i][p], depth + 1)
        BY <1>7, <1>8, <3>1, <4>1 DEF AllOk
      <4> QED
        BY <1>1, <4>1, <4>2, Yaml11MergedAt
    <3> QED
      BY <3>1
  <2>6. giving \subseteq DOMAIN merges
    BY <1>1, <2>4 DEF Giving
  <2>7. CASE giving = {}
    <3>1. ~HasKey(merged.entries, k)
      BY <2>3, <2>5, <2>7 DEF HasKeyIn
    <3>2. At(merged.entries, k) = NoPlace
      BY <3>1 DEF At
    <3>3. o[<<i, k>>] = NoPlace
      BY <1>1, <1>2, <1>13, <2>7 DEF OriginRule, Traced
    <3> QED
      BY <1>11, <2>1, <3>2, <3>3 DEF Right
  <2>8. CASE giving # {}
    <3>1. PICK p \in giving : /\ OriginOf(o, "yaml11", d, i, k) = OriginIn(o, d[i][p].pay, k)
                              /\ \A q \in giving : q <= p
      BY <1>1, <1>2, <1>13, <2>8 DEF OriginRule
    <3>2. \A q \in DOMAIN merges : q \in Int
      BY <1>8, LenProperties
    <3>3. LastIn(merges, k, p)
      BY <2>5, <2>6, <3>1, <3>2 DEF LastIn
    <3>4. At(merged.entries, k) = OriginIn(o, d[i][p].pay, k)
      BY <2>3, <2>5, <2>6, <3>1, <3>3
    <3> QED
      BY <1>11, <2>1, <3>1, <3>4 DEF Right, Traced
  <2> QED
    BY <2>7, <2>8
<1> QED
  BY <1>12, <1>13

(* ... hence for all.                                                      *)
LEMMA Yaml11AllRight ==
  ASSUME NEW d, Document(d), Backward(d), Unique("yaml11", d),
         NEW t, Solves("yaml11", d, t), NEW o, Traced("yaml11", d, o)
  PROVE  \A i \in DOMAIN d : RightAll("yaml11", t, o, i)
<1> DEFINE T == {n \in Nat : \A i \in DOMAIN d : i <= n => RightAll("yaml11", t, o, i)}
<1>1. 0 \in T
  BY EntryOfDocument
<1>2. ASSUME NEW n \in T PROVE n + 1 \in T
  <2>1. ASSUME NEW i \in DOMAIN d, i <= n + 1 PROVE RightAll("yaml11", t, o, i)
    <3>1. i \in Nat /\ n \in Nat /\ DOMAIN d = 1 .. Len(d) /\ Len(d) \in Nat
      BY <1>2, EntryOfDocument
    <3>2. \A j \in Nat : 0 < j /\ j < i => j \in DOMAIN d /\ j <= n
      BY <2>1, <3>1
    <3>3. \A j \in Nat : 0 < j /\ j < i => RightAll("yaml11", t, o, j)
      BY <1>2, <3>2
    <3>4. RightBelow(t, o, i)
      BY <3>3 DEF RightBelow, RightAll
    <3>5. TypedBelow(t, i)
      BY SolutionType
    <3>6. ASSUME NEW depth \in Depths, ~Fails(t[<<i, depth>>])
          PROVE  \A k \in Keys \ {MergeKey} : Right(o, i, t[<<i, depth>>].entries, k)
      <4>1. PICK r : r = t[<<i, depth>>]
        OBVIOUS
      <4>2. r = Yaml11Entries(t, d, i, depth)
        BY <4>1 DEF Solves, ExpandedEntries
      <4>3. ASSUME NEW k \in Keys \ {MergeKey} PROVE Right(o, i, r.entries, k)
        BY <3>4, <3>5, <3>6, <4>1, <4>2, Yaml11Right
      <4> QED
        BY <4>1, <4>3
    <3> QED
      BY <3>6 DEF RightAll
  <2> QED
    BY <1>2, <2>1
<1> HIDE DEF T
<1>3. T \in SUBSET Nat
  BY DEF T
<1>4. T = Nat
  BY <1>1, <1>2, <1>3, FromZeroUp
<1>5. ASSUME NEW i \in DOMAIN d PROVE i \in T /\ i <= i
  BY <1>4, EntryOfDocument
<1> QED
  BY <1>5 DEF T

-----------------------------------------------------------------------------
(* The `<<` keys that are kept.                                            *)

(* Leaving out nothing.                                                    *)
LEMMA WithoutNothing ==
  ASSUME NEW E, NEW drop
  PROVE  \A es \in Seq(E) : (\A n \in DOMAIN es : n \notin drop) => Without(es, drop) = es
<1> DEFINE Off(es) == \A n \in DOMAIN es : n \notin drop
           T == {es \in Seq(E) : Off(es) => Without(es, drop) = es}
<1>1. <<>> \in T
  BY WithoutNone, EmptySeq
<1>2. ASSUME NEW es \in Seq(E), NEW e \in E, es \in T PROVE Append(es, e) \in T
  <2>1. PICK more : more = Append(es, e)
    OBVIOUS
  <2>2. /\ more \in Seq(E)
        /\ \A n \in DOMAIN es : n \in DOMAIN more
        /\ Len(es) + 1 \in DOMAIN more
    BY <2>1, AppendFacts
  <2>3. Without(more, drop) = IF Len(es) + 1 \in drop THEN Without(es, drop) ELSE Append(Without(es, drop), e)
    BY <2>1, WithoutNext
  <2>4. ASSUME Off(more) PROVE Without(more, drop) = more
    <3>1. Off(es) /\ Len(es) + 1 \notin drop
      BY <2>2, <2>4
    <3> QED
      BY <1>2, <2>1, <2>3, <3>1
  <2> QED
    BY <2>1, <2>2, <2>4
<1> HIDE DEF T
<1>3. \A es \in Seq(E) : es \in T
  BY <1>1, <1>2, AllSequences
<1> QED
  BY <1>3 DEF T

(* The merge keys left in a mapping, one entry more.                       *)
LEMMA LiteralsAppend ==
  ASSUME NEW E, NEW es \in Seq(E), NEW e \in E
  PROVE  Literals(Append(es, e)) = IF e.key = MergeKey THEN Append(Literals(es), e) ELSE Literals(es)
<1>1. PICK more, drop, drop1 : /\ more = Append(es, e) /\ drop = {n \in DOMAIN es : es[n].key # MergeKey}
                               /\ drop1 = {n \in DOMAIN more : more[n].key # MergeKey}
  OBVIOUS
<1>2. /\ \A n \in DOMAIN es : n \in DOMAIN more /\ more[n] = es[n]
      /\ Len(es) + 1 \in DOMAIN more /\ more[Len(es) + 1] = e
  BY <1>1, AppendFacts
<1>3. Literals(more) = Without(more, drop1) /\ Literals(es) = Without(es, drop)
  BY <1>1 DEF Literals
<1>4. Without(more, drop1)
        = IF Len(es) + 1 \in drop1 THEN Without(es, drop1) ELSE Append(Without(es, drop1), e)
  <2>1. more = Append(es, e)
    BY <1>1
  <2>2. Without(Append(es, e), drop1)
          = IF Len(es) + 1 \in drop1 THEN Without(es, drop1) ELSE Append(Without(es, drop1), e)
    BY WithoutNext
  <2> QED
    BY <2>1, <2>2
<1>5. \A n \in DOMAIN es : n \in drop1 <=> n \in drop
  BY <1>1, <1>2
<1>6. Without(es, drop1) = Without(es, drop)
  BY <1>5, WithoutSame
<1>7. Len(es) + 1 \in drop1 <=> e.key # MergeKey
  BY <1>1, <1>2
<1> QED
  BY <1>1, <1>3, <1>4, <1>6, <1>7

(* A mapping without merge keys has none left.                             *)
LEMMA LiteralsNone ==
  ASSUME NEW E, NEW es \in Seq(E), ~HasKey(es, MergeKey)
  PROVE  Literals(es) = <<>>
<1>1. PICK drop, left : drop = {n \in DOMAIN es : es[n].key # MergeKey} /\ left = Without(es, drop)
  OBVIOUS
<1>2. left \in Seq(E) /\ DOMAIN left = 1 .. Len(left)
  BY <1>1, WithoutType, LenProperties
<1>3. \A n \in DOMAIN es : n \in drop
  BY <1>1 DEF HasKey
<1>4. \A k : ~HasKey(left, k)
  BY <1>1, <1>3, WithoutAt DEF LeftAt
<1>5. ASSUME left # <<>> PROVE FALSE
  <2>1. 1 \in DOMAIN left
    BY <1>2, <1>5, EmptySeq
  <2> QED
    BY <1>4, <2>1 DEF HasKey
<1> QED
  BY <1>1, <1>5 DEF Literals

(* Nothing that is inserted changes them when there are some.              *)
LEMMA LiteralsKept ==
  ASSUME NEW E, NEW es \in Seq(E), HasKey(es, MergeKey)
  PROVE  \A a \in Seq(E) : Literals(InsertMissing(es, a)) = Literals(es)
<1> DEFINE T == {a \in Seq(E) : Literals(InsertMissing(es, a)) = Literals(es)}
<1>1. <<>> \in T
  BY InsertMissingNone, EmptySeq
<1>2. ASSUME NEW a \in Seq(E), NEW e \in E, a \in T PROVE Append(a, e) \in T
  <2>1. Append(a, e) \in Seq(E)
    BY AppendProperties
  <2>2. PICK c : c = InsertMissing(es, a)
    OBVIOUS
  <2>3. c \in Seq(E) /\ HasKey(c, MergeKey)
    BY <2>2, InsertMissingType, HasKeyInsertMissing
  <2>4. InsertMissing(es, Append(a, e)) = InsertOne(c, e)
    BY <2>2, InsertMissingNext
  <2>5. CASE HasKey(c, e.key)
    BY <1>2, <2>1, <2>2, <2>4, <2>5 DEF InsertOne
  <2>6. CASE ~HasKey(c, e.key)
    <3>1. InsertOne(c, e) = Append(c, e) /\ e.key # MergeKey
      BY <2>3, <2>6 DEF InsertOne
    <3>2. Literals(Append(c, e)) = Literals(c)
      BY <2>3, <3>1, LiteralsAppend
    <3> QED
      BY <1>2, <2>1, <2>2, <2>4, <3>1, <3>2
  <2> QED
    BY <2>5, <2>6
<1> HIDE DEF T
<1>3. \A a \in Seq(E) : a \in T
  BY <1>1, <1>2, AllSequences
<1> QED
  BY <1>3 DEF T

(* One place of every key, or none.                                        *)
LEMMA PlacesAre ==
  ASSUME NEW es \in Seq(Placed), NEW k, Once(es, k)
  PROVE  Places(es, k) = {At(es, k)} \ {NoPlace}
<1>1. CASE HasKey(es, k)
  <2>1. PICK q : q = Position(es, k)
    OBVIOUS
  <2>2. q \in DOMAIN es /\ es[q].key = k
    BY <1>1, <2>1, PositionFacts
  <2>3. {m \in DOMAIN es : es[m].key = k} = {q}
    BY <2>2 DEF Once
  <2>4. Places(es, k) = {es[q].place}
    BY <2>3 DEF Places
  <2>5. At(es, k) = es[q].place
    BY <1>1, <2>1 DEF At
  <2>6. At(es, k) # NoPlace
    BY <1>1, AtSomewhere
  <2> QED
    BY <2>4, <2>5, <2>6
<1>2. CASE ~HasKey(es, k)
  <2>1. {m \in DOMAIN es : es[m].key = k} = {}
    BY <1>2 DEF HasKey
  <2>2. Places(es, k) = {}
    BY <2>1 DEF Places
  <2> QED
    BY <1>2, <2>2 DEF At
<1> QED
  BY <1>1, <1>2

(* Precedence, of what was made of one mapping.                            *)
Kept(policy, d, i) == Literals(Without(Entries(d, i), {p \in DOMAIN d[i] : Merging(policy, d[i][p])}))

Preceded(policy, d, origin, i, es) ==
  /\ \A k \in Keys \ {MergeKey} : Places(es, k) = {origin[<<i, k>>]} \ {NoPlace}
  /\ \A n, m \in DOMAIN es : es[n].key = es[m].key /\ es[n].key # MergeKey => n = m
  /\ Kept(policy, d, i) # <<>> \/ policy = "strict" => Literals(es) = Kept(policy, d, i)

(* Right for every key is what MergePrecedence says of ordinary ones.      *)
LEMMA RightPreceded ==
  ASSUME NEW o, NEW i, NEW es \in Seq(Placed), \A k \in Keys \ {MergeKey} : Right(o, i, es, k)
  PROVE  /\ \A k \in Keys \ {MergeKey} : Places(es, k) = {o[<<i, k>>]} \ {NoPlace}
         /\ \A n, m \in DOMAIN es : es[n].key = es[m].key /\ es[n].key # MergeKey => n = m
<1>1. ASSUME NEW k \in Keys \ {MergeKey} PROVE Places(es, k) = {o[<<i, k>>]} \ {NoPlace}
  BY PlacesAre DEF Right
<1>2. ASSUME NEW n \in DOMAIN es, NEW m \in DOMAIN es, es[n].key = es[m].key, es[n].key # MergeKey
      PROVE  n = m
  <2>1. es[n] \in Placed
    BY ElementOfSeq, LenProperties
  <2>2. es[n].key \in Keys \ {MergeKey}
    BY <1>2, <2>1 DEF Placed
  <2>3. Once(es, es[n].key)
    BY <2>2 DEF Right
  <2> QED
    BY <1>2, <2>3 DEF Once
<1> QED
  BY <1>1, <1>2

(* Strict loading follows precedence.                                      *)
LEMMA StrictPrecedence ==
  ASSUME NEW d, Document(d), Backward(d), Unique("strict", d), NEW i \in DOMAIN d,
         NEW r, r = Expanded("strict", d)[i], ~Fails(r)
  PROVE  Preceded("strict", d, Origin("strict", d), i, r.entries)
<1>1. PICK t : Solves("strict", d, t) /\ Expanded("strict", d) = [j \in DOMAIN d |-> t[<<j, 0>>]]
  BY ExpandedIs DEF Solves
<1>2. PICK o : o = Origin("strict", d)
  OBVIOUS
<1>3. Traced("strict", d, o)
  BY <1>2, OriginIs
<1>4. 0 \in Depths
  BY MergeKeysAssumption DEF Depths
<1>5. r = t[<<i, 0>>]
  BY <1>1
<1>6. RightAll("strict", t, o, i)
  BY <1>1, <1>3, StrictAllRight
<1>7. (\A k \in Keys \ {MergeKey} : Right(o, i, r.entries, k)) /\ ~HasKey(r.entries, MergeKey)
  BY <1>4, <1>5, <1>6 DEF RightAll
<1>8. \A depth \in Depths : t[<<i, depth>>] \in Result
  BY <1>1, SolutionType
<1>9. r.entries \in Seq(Placed)
  BY <1>4, <1>5, <1>8 DEF Result, Results
<1>10. Literals(r.entries) = <<>>
  BY <1>7, <1>9, LiteralsNone
<1>11. Kept("strict", d, i) = <<>>
  <2>1. PICK drop : drop = {p \in DOMAIN d[i] : Merging("strict", d[i][p])}
    OBVIOUS
  <2>2. LeftAt(Entries(d, i), drop, MergeKey)
    BY EntriesType, WithoutAt
  <2>3. \A p \in DOMAIN Entries(d, i) : Entries(d, i)[p].key = MergeKey => p \in drop
    BY <2>1, EntriesAt DEF Merging
  <2>4. ~HasKey(Without(Entries(d, i), drop), MergeKey)
    BY <2>2, <2>3 DEF LeftAt
  <2>5. Without(Entries(d, i), drop) \in Seq(Placed)
    BY EntriesWithoutType
  <2> QED
    BY <2>1, <2>4, <2>5, LiteralsNone DEF Kept
<1>12. /\ \A k \in Keys \ {MergeKey} : Places(r.entries, k) = {o[<<i, k>>]} \ {NoPlace}
       /\ \A n, m \in DOMAIN r.entries : r.entries[n].key = r.entries[m].key /\ r.entries[n].key # MergeKey => n = m
  BY <1>7, <1>9, RightPreceded
<1> QED
  BY <1>2, <1>10, <1>11, <1>12 DEF Preceded

(* YAML 1.1 loading follows precedence.                                    *)
LEMMA Yaml11Precedence ==
  ASSUME NEW d, Document(d), Backward(d), Unique("yaml11", d), NEW i \in DOMAIN d,
         NEW r, r = Expanded("yaml11", d)[i], ~Fails(r)
  PROVE  Preceded("yaml11", d, Origin("yaml11", d), i, r.entries)
<1>1. PICK t : Solves("yaml11", d, t) /\ Expanded("yaml11", d) = [j \in DOMAIN d |-> t[<<j, 0>>]]
  BY ExpandedIs DEF Solves
<1>2. PICK o : o = Origin("yaml11", d)
  OBVIOUS
<1>3. Traced("yaml11", d, o)
  BY <1>2, OriginIs
<1>4. 0 \in Depths
  BY MergeKeysAssumption DEF Depths
<1>5. r = t[<<i, 0>>]
  BY <1>1
<1>6. RightAll("yaml11", t, o, i)
  BY <1>1, <1>3, Yaml11AllRight
<1>7. \A k \in Keys \ {MergeKey} : Right(o, i, r.entries, k)
  BY <1>4, <1>5, <1>6 DEF RightAll
<1>8. TypedBelow(t, i) /\ \A depth \in Depths : t[<<i, depth>>] \in Result
  BY <1>1, SolutionType
<1>9. r.entries \in Seq(Placed)
  BY <1>4, <1>5, <1>8 DEF Result, Results
<1>10. /\ \A k \in Keys \ {MergeKey} : Places(r.entries, k) = {o[<<i, k>>]} \ {NoPlace}
       /\ \A n, m \in DOMAIN r.entries : r.entries[n].key = r.entries[m].key /\ r.entries[n].key # MergeKey => n = m
  BY <1>7, <1>9, RightPreceded
<1>11. r = Yaml11Entries(t, d, i, 0)
  BY <1>1, <1>4, <1>5 DEF Solves, ExpandedEntries
<1>12. PICK merges, merged, explicit :
         /\ merges = [p \in DOMAIN d[i] |-> Yaml11Merged(t, d[i][p], 0 + 1)]
         /\ merged = AddAll("upsert", <<>>, merges)
         /\ explicit = Without(Entries(d, i), {p \in DOMAIN d[i] : MergesIn(d[i][p])})
  OBVIOUS
<1>13. /\ explicit \in Seq(Placed) /\ merged.entries \in Seq(Placed)
       /\ r.entries = InsertMissing(explicit, merged.entries)
  BY <1>4, <1>8, <1>11, <1>12, Yaml11Merges
<1>14. Kept("yaml11", d, i) = Literals(explicit)
  BY <1>12 DEF Kept, Merging
<1>15. ASSUME Kept("yaml11", d, i) # <<>> PROVE Literals(r.entries) = Kept("yaml11", d, i)
  <2>1. HasKey(explicit, MergeKey)
    BY <1>13, <1>14, <1>15, LiteralsNone
  <2> QED
    BY <1>13, <1>14, <2>1, LiteralsKept
<1> QED
  BY <1>2, <1>10, <1>15 DEF Preceded

-----------------------------------------------------------------------------
(* A document without `<<` keys: expanding it and leaving it alone are the *)
(* same, so that the flag of the parser only saves work.                   *)
Plain(d) == \A i \in DOMAIN d : \A p \in DOMAIN d[i] : d[i][p].key # MergeKey

(* No payloads, nothing to insert.                                         *)
LEMMA NothingUpserted ==
  ASSUME NEW E
  PROVE  \A R \in Seq(Results(E)) :
           (\A n \in DOMAIN R : R[n] = Ok(<<>>)) => AddAll("upsert", <<>>, R) = Ok(<<>>)
<1> DEFINE Idle(R) == \A n \in DOMAIN R : R[n] = Ok(<<>>)
           T == {R \in Seq(Results(E)) : Idle(R) => AddAll("upsert", <<>>, R) = Ok(<<>>)}
<1>1. <<>> \in T
  BY AddAllNone, EmptySeq
<1>2. ASSUME NEW R \in Seq(Results(E)), NEW r \in Results(E), R \in T PROVE Append(R, r) \in T
  <2>1. PICK more : more = Append(R, r)
    OBVIOUS
  <2>2. /\ more \in Seq(Results(E)) /\ Len(R) + 1 \in DOMAIN more /\ more[Len(R) + 1] = r
        /\ \A n \in DOMAIN R : n \in DOMAIN more /\ more[n] = R[n]
    BY <2>1, AppendFacts
  <2>3. ASSUME Idle(more) PROVE AddAll("upsert", <<>>, more) = Ok(<<>>)
    <3>1. Idle(R) /\ r = Ok(<<>>)
      BY <2>2, <2>3
    <3>2. AddAll("upsert", <<>>, R) = Ok(<<>>)
      BY <1>2, <3>1
    <3>3. AddAll("upsert", <<>>, Append(R, r)) = AddResult("upsert", AddAll("upsert", <<>>, R), r)
      BY AddAllNext
    <3>4. ~Fails(Ok(<<>>)) /\ Ok(<<>>).entries = <<>>
      BY DEF Ok, Fails
    <3>5. AddResult("upsert", Ok(<<>>), Ok(<<>>)) = Ok(Upsert(<<>>, <<>>))
      BY <3>4 DEF AddResult, Add
    <3>6. Upsert(<<>>, <<>>) = <<>>
      BY UpsertNone
    <3> QED
      BY <2>1, <3>1, <3>2, <3>3, <3>5, <3>6
  <2> QED
    BY <2>1, <2>2, <2>3
<1> HIDE DEF T
<1>3. \A R \in Seq(Results(E)) : R \in T
  BY <1>1, <1>2, AllSequences
<1> QED
  BY <1>3 DEF T

(* A mapping without merge keys has nothing to merge.                      *)
LEMMA PlainMerges ==
  ASSUME NEW d, Document(d), Plain(d), NEW i \in DOMAIN d, NEW t
  PROVE  /\ StrictEntries(t, d, i, 0) = Ok(Entries(d, i))
         /\ Yaml11Entries(t, d, i, 0) = Ok(Entries(d, i))
<1>1. Merges(d, i) = {}
  BY DEF Plain, Merges
<1>2. StrictEntries(t, d, i, 0) = Ok(Entries(d, i))
  BY <1>1 DEF StrictEntries
<1>3. PICK merges, drop : /\ merges = [p \in DOMAIN d[i] |-> Yaml11Merged(t, d[i][p], 0 + 1)]
                          /\ drop = {p \in DOMAIN d[i] : MergesIn(d[i][p])}
  OBVIOUS
<1>4. \A p \in DOMAIN d[i] : merges[p] = Ok(<<>>)
  BY <1>3 DEF Plain, MergesIn, Yaml11Merged
<1>5. Ok(<<>>) \in Result
  BY ResultFacts, EmptySeq
<1>6. merges \in Seq(Result) /\ DOMAIN merges = DOMAIN d[i]
  <2>1. Len(d[i]) \in Nat /\ DOMAIN d[i] = 1 .. Len(d[i])
    BY EntryOfDocument
  <2>2. merges = [p \in 1 .. Len(d[i]) |-> Yaml11Merged(t, d[i][p], 0 + 1)]
    BY <1>3, <2>1
  <2>3. \A p \in 1 .. Len(d[i]) : Yaml11Merged(t, d[i][p], 0 + 1) \in Result
    BY <1>3, <1>4, <1>5, <2>1
  <2> QED
    BY <2>1, <2>2, <2>3, IsASeq
<1>7. AddAll("upsert", <<>>, merges) = Ok(<<>>)
  BY <1>4, <1>6, NothingUpserted DEF Result
<1>8. Without(Entries(d, i), drop) = Entries(d, i)
  <2>1. drop = {}
    BY <1>3 DEF Plain, MergesIn
  <2>2. \A n \in DOMAIN Entries(d, i) : n \notin drop
    BY <2>1
  <2> QED
    BY <2>2, EntriesType, WithoutNothing
<1>9. InsertMissing(Entries(d, i), <<>>) = Entries(d, i)
  BY InsertMissingNone
<1>10. ~Fails(Ok(<<>>)) /\ Ok(<<>>).entries = <<>>
  BY DEF Ok, Fails
<1>11. Yaml11Entries(t, d, i, 0)
         = IF Fails(AddAll("upsert", <<>>, merges)) THEN AddAll("upsert", <<>>, merges)
           ELSE Ok(InsertMissing(Without(Entries(d, i), drop), AddAll("upsert", <<>>, merges).entries))
  BY <1>3 DEF Yaml11Entries
<1>12. Yaml11Entries(t, d, i, 0) = Ok(Entries(d, i))
  BY <1>7, <1>8, <1>9, <1>10, <1>11
<1> QED
  BY <1>2, <1>12

(* Passing over a document without merge keys is expanding it.             *)
LEMMA LoadedIsExpanded ==
  ASSUME NEW way \in {"strict", "yaml11"}, NEW d, Document(d), Backward(d),
         NEW expands \in BOOLEAN, ~expands => Plain(d)
  PROVE  Loaded(way, d, expands) = Expanded(way, d)
<1>1. PICK t : Solves(way, d, t) /\ Expanded(way, d) = [j \in DOMAIN d |-> t[<<j, 0>>]]
  BY ExpandedIs DEF Solves
<1>2. 0 \in Depths
  BY MergeKeysAssumption DEF Depths
<1>3. ASSUME NEW i \in DOMAIN d, ~expands PROVE t[<<i, 0>>] = Ok(Entries(d, i))
  <2>1. t[<<i, 0>>] = ExpandedEntries(way, t, d, i, 0)
    BY <1>1, <1>2 DEF Solves
  <2>2. /\ way = "strict" => ExpandedEntries(way, t, d, i, 0) = StrictEntries(t, d, i, 0)
        /\ way = "yaml11" => ExpandedEntries(way, t, d, i, 0) = Yaml11Entries(t, d, i, 0)
    BY DEF ExpandedEntries
  <2> QED
    BY <1>3, <2>1, <2>2, PlainMerges
<1>4. PICK x : x = Expanded(way, d)
  OBVIOUS
<1>5. Loaded(way, d, expands) = [i \in DOMAIN d |-> IF expands THEN x[i] ELSE Ok(Entries(d, i))]
  BY <1>4 DEF Loaded
<1> QED
  BY <1>1, <1>3, <1>4, <1>5

-----------------------------------------------------------------------------
(* The invariant.  The document is one of the program's, its aliases go    *)
(* back, the keys that are checked are in the tracker while their mapping  *)
(* is the last, the flag is set when there is a `<<` key; and what was     *)
(* read is what reading the document gives.                                *)
Parsed         == mode \in {"strict", "yaml11"}
Checked(k)     == mode = "strict" \/ k # MergeKey
Within(pay, d) == \A n \in DOMAIN pay.refs : pay.refs[n] = 0 \/ pay.refs[n] \in DOMAIN d
Inside(d)      == \A i \in DOMAIN d : \A p \in DOMAIN d[i] : Within(d[i][p].pay, d)
DocumentInv    == Document(doc) /\ Inside(doc) /\ (mode # "events" => Backward(doc))
UniqueInv      == Parsed => Unique(mode, doc)
TrackedInv     == Parsed /\ at = "building" /\ doc # <<>> =>
                    \A p \in DOMAIN doc[Len(doc)] :
                      Checked(doc[Len(doc)][p].key) => doc[Len(doc)][p].key \in DOMAIN Contents
FlagInv        == has_merge \in BOOLEAN /\ (Parsed /\ ~has_merge => Plain(doc))
ReadInv ==
  /\ mode = "strict" /\ at \in {"read", "failed"} => read = StrictReading(doc, has_merge) /\ at = Outcome(read)
  /\ mode = "yaml11" /\ at \in {"read", "failed"} => read = Yaml11Reading(doc, has_merge) /\ at = Outcome(read)
  /\ mode = "built" /\ at = "read" => read = BuiltReading(doc)
  /\ mode = "events" /\ at = "read" => read = ViewReading(doc)

MergeInv ==
  /\ TrackerInv /\ mode \in Modes
  /\ DocumentInv /\ UniqueInv /\ TrackedInv /\ FlagInv /\ ReadInv

(* One key reported to the tracker, and accepted.                          *)
LEMMA InsertAccepted ==
  ASSUME TrackerInv, NEW k \in Keys, Insert(k)
  PROVE  /\ TrackerInv'
         /\ verdict' = 0 => /\ k \notin DOMAIN Contents
                            /\ DOMAIN Contents' = DOMAIN Contents \union {k}
<1>1. TrackerInv' /\ (Abstract!Accept(k) \/ Abstract!Refuse(k))
  BY InsertStep DEF Abstract!Report
<1>2. CASE Abstract!Accept(k)
  BY <1>1, <1>2 DEF Abstract!Accept
<1>3. CASE Abstract!Refuse(k)
  <2>1. k \in DOMAIN Contents /\ verdict' = Contents[k]
    BY <1>3 DEF Abstract!Refuse
  <2>2. \A x \in DOMAIN Contents : Contents[x] \in 1 .. MaxKeys
    <3>1. CASE spilled
      BY <3>1 DEF Contents, TrackerInv, TrackerTypeOK
    <3>2. CASE ~spilled
      BY <3>2, MovedIsInline DEF Contents, MovedFacts
    <3> QED
      BY <3>1, <3>2
  <2>3. verdict' # 0
    BY <2>1, <2>2
  <2> QED
    BY <1>1, <2>3
<1> QED
  BY <1>1, <1>2, <1>3

(* A payload that may be written refers to what it may refer to.           *)
LEMMA PayloadsAre ==
  ASSUME NEW ids, ids \subseteq Nat \ {0}, NEW pay \in Payloads(ids)
  PROVE  pay \in Shapes /\ \A n \in DOMAIN pay.refs : pay.refs[n] = 0 \/ pay.refs[n] \in ids
<1>1. CASE pay \in {Scalar, Tagged}
  <2>1. pay.kind \in {"scalar", "tagged"} /\ pay.refs = <<>> /\ pay = [kind |-> pay.kind, refs |-> <<>>]
    BY <1>1 DEF Scalar, Tagged
  <2>2. <<>> \in Seq(Nat) /\ DOMAIN <<>> = {}
    OBVIOUS
  <2> QED
    BY <2>1, <2>2 DEF Shapes, Kinds
<1>2. CASE \E i \in ids : pay = AliasOf(i)
  <2>1. PICK i \in ids : pay = AliasOf(i)
    BY <1>2
  <2> QED
    BY <2>1 DEF AliasOf, Shapes, Kinds
<1>3. CASE \E i, j \in ids : pay = ListOf(<<i, j>>)
  <2>1. PICK i \in ids, j \in ids : pay = ListOf(<<i, j>>)
    BY <1>3
  <2>2. <<i, j>> \in Seq(Nat) /\ DOMAIN <<i, j>> = {1, 2} /\ <<i, j>>[1] = i /\ <<i, j>>[2] = j
    OBVIOUS
  <2> QED
    BY <2>1, <2>2 DEF ListOf, Shapes, Kinds
<1>4. CASE \E i \in ids : pay = ListOf(<<i, 0>>)
  <2>1. PICK i \in ids : pay = ListOf(<<i, 0>>)
    BY <1>4
  <2>2. <<i, 0>> \in Seq(Nat) /\ DOMAIN <<i, 0>> = {1, 2} /\ <<i, 0>>[1] = i /\ <<i, 0>>[2] = 0
    OBVIOUS
  <2> QED
    BY <2>1, <2>2 DEF ListOf, Shapes, Kinds
<1> QED
  BY <1>1, <1>2, <1>3, <1>4 DEF Payloads

(* An entry that may be written.                                           *)
Writable(i, e) ==
  /\ e \in Written /\ Within(e.pay, doc)
  /\ mode # "events" => Below(e.pay, i)

(* What AddEntry may write.                                                *)
LEMMA EntryWritable ==
  ASSUME DocumentInv, NEW i \in Sites, NEW k \in Keys, NEW pay \in PayloadsOf(i, k)
  PROVE  i \in DOMAIN doc /\ (mode # "events" => i = Len(doc)) /\ Writable(i, Entry(k, pay))
<1>1. i \in DOMAIN doc /\ (mode # "events" => i = Len(doc))
  BY DEF Sites
<1>2. i \in Nat /\ i # 0 /\ DOMAIN doc = 1 .. Len(doc) /\ Len(doc) \in Nat
  BY <1>1, EntryOfDocument DEF DocumentInv
<1>3. /\ Ids(i) \subseteq Nat \ {0} /\ Ids(i) \subseteq DOMAIN doc
      /\ mode # "events" => \A j \in Ids(i) : j < i
  BY <1>1, <1>2 DEF Ids
<1>4. pay \in Payloads(Ids(i))
  BY DEF PayloadsOf, Payloads
<1>5. pay \in Shapes /\ \A n \in DOMAIN pay.refs : pay.refs[n] = 0 \/ pay.refs[n] \in Ids(i)
  BY <1>3, <1>4, PayloadsAre
<1>6. mode # "events" => Below(pay, i)
  BY <1>2, <1>3, <1>5 DEF Below
<1>7. Within(pay, doc)
  BY <1>3, <1>5 DEF Within
<1> QED
  BY <1>1, <1>5, <1>6, <1>7 DEF Writable, Entry, Written

(* Writing it keeps the document one of the program's.                     *)
LEMMA WrittenDocument ==
  ASSUME DocumentInv, NEW i \in DOMAIN doc, NEW e, Writable(i, e), Append1(i, e), UNCHANGED mode
  PROVE  /\ DocumentInv'
         /\ Len(doc') = Len(doc) /\ DOMAIN doc' = DOMAIN doc /\ doc' # <<>>
         /\ doc'[i] = Append(doc[i], e) /\ \A j \in DOMAIN doc : j # i => doc'[j] = doc[j]
         /\ DOMAIN doc'[i] = DOMAIN doc[i] \union {Len(doc[i]) + 1}
         /\ Len(doc[i]) + 1 \notin DOMAIN doc[i]
         /\ doc'[i][Len(doc[i]) + 1] = e /\ \A p \in DOMAIN doc[i] : doc'[i][p] = doc[i][p]
<1>1. /\ doc \in Seq(Seq(Written)) /\ doc[i] \in Seq(Written) /\ e \in Written
      /\ Len(doc) \in Nat /\ DOMAIN doc = 1 .. Len(doc)
  BY EntryOfDocument DEF DocumentInv, Document, Writable
<1>2. PICK more : more = Append(doc[i], e)
  OBVIOUS
<1>3. /\ more \in Seq(Written)
      /\ DOMAIN doc[i] = 1 .. Len(doc[i]) /\ DOMAIN more = 1 .. Len(doc[i]) + 1 /\ Len(doc[i]) \in Nat
      /\ \A p \in DOMAIN doc[i] : more[p] = doc[i][p]
      /\ more[Len(doc[i]) + 1] = e
      /\ \A p \in DOMAIN more : p \in DOMAIN doc[i] \/ p = Len(doc[i]) + 1
  BY <1>1, <1>2, AppendFacts
<1>4. doc' = [doc EXCEPT ![i] = more]
  BY <1>2 DEF Append1
<1>5. /\ doc' \in Seq(Seq(Written)) /\ Len(doc') = Len(doc) /\ DOMAIN doc' = DOMAIN doc
      /\ doc'[i] = more /\ \A j \in DOMAIN doc : j # i => doc'[j] = doc[j]
  BY <1>1, <1>3, <1>4, ExceptSeq
<1>6. doc' # <<>>
  BY <1>5, EmptySeq
<1>7. ASSUME mode' # "events" PROVE Backward(doc')
  <2>1. SUFFICES ASSUME NEW j \in DOMAIN doc', NEW p \in DOMAIN doc'[j] PROVE Below(doc'[j][p].pay, j)
    BY DEF Backward
  <2>2. CASE j # i
    BY <1>5, <1>7, <2>1, <2>2 DEF DocumentInv, Backward
  <2>3. CASE j = i
    <3>1. CASE p \in DOMAIN doc[i]
      BY <1>3, <1>5, <1>7, <2>3, <3>1 DEF DocumentInv, Backward
    <3>2. CASE p = Len(doc[i]) + 1
      BY <1>3, <1>5, <1>7, <2>3, <3>2 DEF Writable
    <3> QED
      BY <1>3, <1>5, <2>1, <2>3, <3>1, <3>2
  <2> QED
    BY <2>2, <2>3
<1>8. Inside(doc')
  <2>1. SUFFICES ASSUME NEW j \in DOMAIN doc', NEW p \in DOMAIN doc'[j] PROVE Within(doc'[j][p].pay, doc')
    BY DEF Inside
  <2>2. \A pay : Within(pay, doc) => Within(pay, doc')
    BY <1>5 DEF Within
  <2>3. CASE j # i
    BY <1>5, <2>1, <2>2, <2>3 DEF DocumentInv, Inside
  <2>4. CASE j = i
    <3>1. CASE p \in DOMAIN doc[i]
      BY <1>3, <1>5, <2>2, <2>4, <3>1 DEF DocumentInv, Inside
    <3>2. CASE p = Len(doc[i]) + 1
      BY <1>3, <1>5, <2>2, <2>4, <3>2 DEF Writable
    <3> QED
      BY <1>3, <1>5, <2>1, <2>4, <3>1, <3>2
  <2> QED
    BY <2>3, <2>4
<1>9. DocumentInv'
  BY <1>5, <1>7, <1>8 DEF DocumentInv, Document
<1> QED
  BY <1>2, <1>3, <1>5, <1>6, <1>9


(* Every step keeps the invariant: the ones that write an entry.           *)
LEMMA AddStep ==
  ASSUME MergeInv, NEW i \in Sites, NEW k \in Keys, NEW pay \in PayloadsOf(i, k), at = "building",
         AddChecked(i, k, pay) \/ AddUnchecked(i, k, pay) \/ AddBuilt(i, k, pay), UNCHANGED <<mode, read>>
  PROVE  MergeInv'
<1> DEFINE e == Entry(k, pay)
<1>1. /\ TrackerInv /\ mode \in Modes /\ DocumentInv /\ UniqueInv /\ TrackedInv /\ FlagInv
      /\ mode' = mode /\ read' = read
  BY DEF MergeInv
<1>2. e.key = k /\ i \in DOMAIN doc /\ (mode # "events" => i = Len(doc)) /\ Writable(i, e)
  BY <1>1, EntryWritable DEF Entry
<1> HIDE DEF e
<1>3. doc # <<>>
  BY <1>2
(* The keys are unique when a checked one is new.                          *)
<1>4. ASSUME Append1(i, e), Parsed, Checked(k) => \A p \in DOMAIN doc[i] : doc[i][p].key # k
      PROVE  Unique(mode, doc')
  <2>1. SUFFICES ASSUME NEW j \in DOMAIN doc', NEW n \in DOMAIN doc'[j], NEW m \in DOMAIN doc'[j],
                        doc'[j][n].key = doc'[j][m].key, mode = "strict" \/ doc'[j][n].key # MergeKey
                 PROVE  n = m
    BY DEF Unique
  <2>2. Unique(mode, doc)
    BY <1>1, <1>4 DEF UniqueInv
  <2>3. CASE j # i
    <3>1. doc'[j] = doc[j] /\ j \in DOMAIN doc
      BY <1>1, <1>2, <1>4, <2>3, WrittenDocument
    <3> QED
      BY <2>1, <2>2, <3>1 DEF Unique
  <2>4. CASE j = i
    <3>1. /\ DOMAIN doc'[i] = DOMAIN doc[i] \union {Len(doc[i]) + 1}
          /\ doc'[i][Len(doc[i]) + 1] = e /\ \A p \in DOMAIN doc[i] : doc'[i][p] = doc[i][p]
      BY <1>1, <1>2, <1>4, WrittenDocument
    <3>2. CASE n \in DOMAIN doc[i] /\ m \in DOMAIN doc[i]
      BY <1>2, <2>1, <2>2, <2>4, <3>1, <3>2 DEF Unique
    <3>3. CASE n = Len(doc[i]) + 1 /\ m = Len(doc[i]) + 1
      BY <3>3
    <3>4. CASE n = Len(doc[i]) + 1 /\ m \in DOMAIN doc[i]
      <4>1. doc[i][m].key = k /\ Checked(k)
        BY <1>2, <2>1, <2>4, <3>1, <3>4 DEF Checked
      <4> QED
        BY <1>4, <3>4, <4>1
    <3>5. CASE m = Len(doc[i]) + 1 /\ n \in DOMAIN doc[i]
      <4>1. doc[i][n].key = k /\ Checked(k)
        BY <1>2, <2>1, <2>4, <3>1, <3>5 DEF Checked
      <4> QED
        BY <1>4, <3>5, <4>1
    <3> QED
      BY <2>1, <2>4, <3>1, <3>2, <3>3, <3>4, <3>5
  <2> QED
    BY <2>3, <2>4
(* The tracker holds the checked keys of the last mapping when it holds    *)
(* what it held and the new key.                                           *)
<1>5. ASSUME Append1(i, e), Parsed, DOMAIN Contents \subseteq DOMAIN Contents',
             Checked(k) => k \in DOMAIN Contents'
      PROVE  \A p \in DOMAIN doc'[Len(doc')] :
               Checked(doc'[Len(doc')][p].key) => doc'[Len(doc')][p].key \in DOMAIN Contents'
  <2>1. i = Len(doc)
    BY <1>2, <1>5 DEF Parsed
  <2>2. /\ Len(doc') = Len(doc)
        /\ DOMAIN doc'[i] = DOMAIN doc[i] \union {Len(doc[i]) + 1}
        /\ doc'[i][Len(doc[i]) + 1] = e /\ \A p \in DOMAIN doc[i] : doc'[i][p] = doc[i][p]
    BY <1>1, <1>2, <1>5, WrittenDocument
  <2>3. \A p \in DOMAIN doc[i] : Checked(doc[i][p].key) => doc[i][p].key \in DOMAIN Contents
    BY <1>1, <1>3, <1>5, <2>1 DEF TrackedInv
  <2> QED
    BY <1>2, <1>5, <2>1, <2>2, <2>3
<1>6. ASSUME Append1(i, e), has_merge' = Recorded(k) PROVE FlagInv'
  <2>1. has_merge' \in BOOLEAN
    BY <1>1, <1>6 DEF Recorded, FlagInv
  <2>2. ASSUME Parsed, ~has_merge' PROVE Plain(doc')
    <3>1. ~has_merge /\ k # MergeKey
      BY <1>1, <1>6, <2>2 DEF Recorded, FlagInv
    <3>2. Plain(doc)
      BY <1>1, <2>2, <3>1 DEF FlagInv
    <3>3. \A j \in DOMAIN doc' : \A p \in DOMAIN doc'[j] : doc'[j][p].key # MergeKey
      <4>1. SUFFICES ASSUME NEW j \in DOMAIN doc', NEW p \in DOMAIN doc'[j] PROVE doc'[j][p].key # MergeKey
        OBVIOUS
      <4>2. /\ DOMAIN doc' = DOMAIN doc /\ \A x \in DOMAIN doc : x # i => doc'[x] = doc[x]
            /\ DOMAIN doc'[i] = DOMAIN doc[i] \union {Len(doc[i]) + 1}
            /\ doc'[i][Len(doc[i]) + 1] = e /\ \A x \in DOMAIN doc[i] : doc'[i][x] = doc[i][x]
        BY <1>1, <1>2, <1>6, WrittenDocument
      <4>3. CASE j # i
        BY <3>2, <4>1, <4>2, <4>3 DEF Plain
      <4>4. CASE j = i
        BY <1>2, <3>1, <3>2, <4>1, <4>2, <4>4 DEF Plain
      <4> QED
        BY <4>3, <4>4
    <3> QED
      BY <3>3 DEF Plain
  <2> QED
    BY <1>1, <2>1, <2>2 DEF FlagInv, Parsed
<1>7. CASE AddChecked(i, k, pay)
  <2>1. Parsed /\ Insert(k) /\ has_merge' = Recorded(k) /\ TrackerInv'
    BY <1>1, <1>7, InsertAccepted DEF AddChecked, Parsed
  <2>2. CASE verdict' # 0
    <3>1. at' = "duplicate" /\ doc' = doc
      BY <1>7, <2>2 DEF AddChecked
    <3>2. DocumentInv' /\ UniqueInv' /\ TrackedInv' /\ ReadInv'
      BY <1>1, <3>1 DEF DocumentInv, UniqueInv, TrackedInv, ReadInv, Parsed
    <3>3. FlagInv'
      BY <1>1, <2>1, <3>1 DEF FlagInv, Recorded, Parsed
    <3> QED
      BY <1>1, <2>1, <3>2, <3>3 DEF MergeInv
  <2>3. CASE verdict' = 0
    <3>1. Append1(i, e) /\ at' = at
      BY <1>7, <2>3 DEF AddChecked, e
    <3>2. k \notin DOMAIN Contents /\ DOMAIN Contents' = DOMAIN Contents \union {k}
      BY <1>1, <2>1, <2>3, InsertAccepted
    <3>3. Checked(k) => \A p \in DOMAIN doc[i] : doc[i][p].key # k
      <4>1. i = Len(doc)
        BY <1>2, <2>1 DEF Parsed
      <4>2. \A p \in DOMAIN doc[i] : Checked(doc[i][p].key) => doc[i][p].key \in DOMAIN Contents
        BY <1>1, <1>3, <2>1, <4>1 DEF TrackedInv
      <4> QED
        BY <3>2, <4>2
    <3>4. DocumentInv'
      BY <1>1, <1>2, <3>1, WrittenDocument
    <3>5. UniqueInv'
      BY <1>1, <1>4, <2>1, <3>1, <3>3 DEF UniqueInv
    <3>6. TrackedInv'
      BY <1>1, <1>5, <2>1, <3>1, <3>2 DEF TrackedInv, Checked
    <3>7. FlagInv'
      BY <1>6, <2>1, <3>1
    <3>8. ReadInv'
      BY <3>1 DEF ReadInv
    <3> QED
      BY <1>1, <2>1, <3>4, <3>5, <3>6, <3>7, <3>8 DEF MergeInv
  <2> QED
    BY <2>2, <2>3
<1>8. CASE AddUnchecked(i, k, pay)
  <2>1. Append1(i, e) /\ at' = at /\ has_merge' = Recorded(k) /\ UNCHANGED tracker
    BY <1>8 DEF AddUnchecked, e
  <2>2. Contents' = Contents /\ TrackerInv'
    BY <1>1, <2>1, TrackerStep DEF tracker, Contents, Moved, InlineKeys, InlineSpan
  <2>3. Parsed => ~Checked(k)
    BY <1>8 DEF AddUnchecked, Unchecked, Parsed, Checked
  <2>4. DocumentInv'
    BY <1>1, <1>2, <2>1, WrittenDocument
  <2>5. UniqueInv'
    BY <1>1, <1>4, <2>1, <2>3 DEF UniqueInv, Parsed
  <2>6. TrackedInv'
    BY <1>1, <1>5, <2>1, <2>2, <2>3 DEF TrackedInv, Checked, Parsed
  <2>7. FlagInv'
    BY <1>6, <2>1
  <2>8. ReadInv'
    BY <2>1 DEF ReadInv
  <2> QED
    BY <1>1, <2>2, <2>4, <2>5, <2>6, <2>7, <2>8 DEF MergeInv
<1>9. CASE AddBuilt(i, k, pay)
  <2>1. Append1(i, e) /\ at' = at /\ has_merge' = has_merge /\ UNCHANGED tracker /\ mode = "built"
    BY <1>9 DEF AddBuilt, e
  <2>2. TrackerInv'
    BY <1>1, <2>1, TrackerStep
  <2>3. DocumentInv'
    BY <1>1, <1>2, <2>1, WrittenDocument
  <2>4. UniqueInv' /\ TrackedInv' /\ FlagInv'
    BY <1>1, <2>1 DEF UniqueInv, TrackedInv, FlagInv, Parsed
  <2>5. ReadInv'
    BY <2>1 DEF ReadInv
  <2> QED
    BY <1>1, <2>2, <2>3, <2>4, <2>5 DEF MergeInv
<1> QED
  BY <1>7, <1>8, <1>9


(* A new mapping: the tracker is emptied, the document gets an empty one.  *)
LEMMA StartStep ==
  ASSUME MergeInv, StartMapping
  PROVE  MergeInv'
<1>1. /\ TrackerInv /\ mode \in Modes /\ DocumentInv /\ UniqueInv /\ FlagInv
      /\ mode' = mode /\ has_merge' = has_merge /\ at' = at /\ read' = read /\ at = "building"
      /\ doc' = Append(doc, <<>>) /\ Fresh
  BY DEF MergeInv, StartMapping
<1>2. TrackerInv'
  BY <1>1, TrackerStep DEF NextKey
<1>3. doc \in Seq(Seq(Written)) /\ <<>> \in Seq(Written) /\ DOMAIN <<>> = {}
  BY <1>1, EmptySeq DEF DocumentInv, Document
<1>4. /\ doc' \in Seq(Seq(Written)) /\ Len(doc') = Len(doc) + 1 /\ doc'[Len(doc) + 1] = <<>>
      /\ \A i \in DOMAIN doc : doc'[i] = doc[i]
      /\ \A i \in DOMAIN doc' : i \in DOMAIN doc \/ i = Len(doc) + 1
  BY <1>1, <1>3, AppendFacts
<1>5. \A i \in DOMAIN doc' : \/ i \in DOMAIN doc /\ doc'[i] = doc[i]
                            \/ DOMAIN doc'[i] = {}
  BY <1>3, <1>4
<1>6. DocumentInv'
  <2>1. \A pay : Within(pay, doc) => Within(pay, doc')
    <3>1. DOMAIN doc \subseteq DOMAIN doc'
      BY <1>1, <1>3, AppendFacts
    <3> QED
      BY <3>1 DEF Within
  <2>2. Inside(doc')
    BY <1>1, <1>5, <2>1 DEF DocumentInv, Inside
  <2> QED
    BY <1>1, <1>4, <1>5, <2>2 DEF DocumentInv, Document, Backward
<1>7. UniqueInv'
  BY <1>1, <1>5 DEF UniqueInv, Unique, Parsed
<1>8. TrackedInv'
  BY <1>3, <1>4 DEF TrackedInv
<1>9. FlagInv'
  BY <1>1, <1>5 DEF FlagInv, Plain, Parsed
<1>10. ReadInv'
  BY <1>1 DEF ReadInv
<1> QED
  BY <1>1, <1>2, <1>6, <1>7, <1>8, <1>9, <1>10 DEF MergeInv

(* Reading the document leaves it as it is.                                *)
LEMMA ReadStep ==
  ASSUME MergeInv, LoadStrict \/ LoadYaml11 \/ Deserialize \/ View
  PROVE  MergeInv'
<1>1. /\ TrackerInv /\ mode \in Modes /\ DocumentInv /\ UniqueInv /\ FlagInv
      /\ mode' = mode /\ has_merge' = has_merge /\ doc' = doc /\ UNCHANGED tracker
      /\ at' = "read" \/ at' = Outcome(read')
  BY DEF MergeInv, LoadStrict, LoadYaml11, Deserialize, View, Complete
<1>2. TrackerInv'
  BY <1>1, TrackerStep
<1>3. DocumentInv' /\ UniqueInv' /\ FlagInv'
  BY <1>1 DEF DocumentInv, UniqueInv, FlagInv, Parsed
<1>4. at' \in {"read", "failed"}
  BY <1>1 DEF Outcome
<1>5. TrackedInv'
  BY <1>4 DEF TrackedInv
<1>6. ReadInv'
  <2>1. CASE LoadStrict
    BY <1>1, <2>1 DEF LoadStrict, Complete, ReadInv
  <2>2. CASE LoadYaml11
    BY <1>1, <2>2 DEF LoadYaml11, Complete, ReadInv
  <2>3. CASE Deserialize
    BY <1>1, <2>3 DEF Deserialize, Complete, ReadInv
  <2>4. CASE View
    BY <1>1, <2>4 DEF View, Complete, ReadInv
  <2> QED
    BY <2>1, <2>2, <2>3, <2>4
<1> QED
  BY <1>1, <1>2, <1>3, <1>5, <1>6 DEF MergeInv

(* The invariant holds initially ...                                       *)
LEMMA MergeInvInit == Init => MergeInv
<1> SUFFICES ASSUME Init PROVE MergeInv
  OBVIOUS
<1>1. TrackerInv
  BY TrackerInvInit DEF Init
<1>2. mode \in Modes /\ doc = <<>> /\ has_merge = FALSE /\ at = "building"
  BY DEF Init
<1>3. doc \in Seq(Seq(Written)) /\ DOMAIN doc = {}
  BY <1>2
<1>4. DocumentInv /\ UniqueInv /\ TrackedInv /\ FlagInv /\ ReadInv
  BY <1>2, <1>3 DEF DocumentInv, Document, Inside, Backward, UniqueInv, Unique, TrackedInv, FlagInv, Plain, ReadInv
<1> QED
  BY <1>1, <1>2, <1>4 DEF MergeInv

(* ... and every step preserves it.                                        *)
LEMMA MergeInvStep ==
  ASSUME MergeInv, [Next]_vars
  PROVE  MergeInv'
<1>1. CASE StartMapping
  BY <1>1, StartStep
<1>2. CASE AddEntry
  <2>1. PICK i \in Sites, k \in Keys : \E pay \in PayloadsOf(i, k) :
          AddChecked(i, k, pay) \/ AddUnchecked(i, k, pay) \/ AddBuilt(i, k, pay)
    BY <1>2 DEF AddEntry
  <2>2. PICK pay \in PayloadsOf(i, k) :
          AddChecked(i, k, pay) \/ AddUnchecked(i, k, pay) \/ AddBuilt(i, k, pay)
    BY <2>1
  <2>3. at = "building" /\ UNCHANGED <<mode, read>>
    BY <1>2 DEF AddEntry
  <2>4. CASE AddChecked(i, k, pay)
    BY <2>3, <2>4, AddStep
  <2>5. CASE AddUnchecked(i, k, pay)
    BY <2>3, <2>5, AddStep
  <2>6. CASE AddBuilt(i, k, pay)
    BY <2>3, <2>6, AddStep
  <2> QED
    BY <2>2, <2>4, <2>5, <2>6
<1>3. CASE LoadStrict \/ LoadYaml11 \/ Deserialize \/ View
  BY <1>3, ReadStep
<1>4. CASE UNCHANGED vars
  <2>1. /\ UNCHANGED tracker /\ mode' = mode /\ doc' = doc /\ has_merge' = has_merge
        /\ at' = at /\ read' = read
    BY <1>4 DEF vars
  <2>2. TrackerInv' /\ Contents' = Contents
    BY <2>1, TrackerStep DEF MergeInv, tracker, Contents, Moved, InlineKeys, InlineSpan
  <2>3. /\ TrackerInv /\ mode \in Modes
        /\ DocumentInv /\ UniqueInv /\ TrackedInv /\ FlagInv /\ ReadInv
    BY DEF MergeInv
  <2>4. DocumentInv' /\ UniqueInv' /\ FlagInv'
    BY <2>1, <2>3 DEF DocumentInv, UniqueInv, FlagInv, Parsed
  <2>5. TrackedInv'
    BY <2>1, <2>2, <2>3 DEF TrackedInv, Parsed, Checked
  <2>6. ReadInv'
    BY <2>1, <2>3 DEF ReadInv
  <2> QED
    BY <2>1, <2>2, <2>3, <2>4, <2>5, <2>6 DEF MergeInv
<1> QED
  BY <1>1, <1>2, <1>3, <1>4 DEF Next

(* While a document is built (parsed, or put together by the caller) its   *)
(* mappings refer to mappings of the document, of a loaded document to     *)
(* earlier ones; no key the tracker checks is there twice, the tracker and *)
(* the merge flag know those that are; and what reading made of it is what *)
(* the functions of the code make of its mappings.                         *)
THEOREM MergeInvariant == Spec => []MergeInv
<1>1. Init => MergeInv
  BY MergeInvInit
<1>2. MergeInv /\ [Next]_vars => MergeInv'
  BY MergeInvStep
<1> QED
  BY <1>1, <1>2, PTL DEF Spec

-----------------------------------------------------------------------------
(* What reading comes to.                                                  *)

(* A tree built by the caller deserializes to the same entries, or to the  *)
(* same error, whether the node is given away                              *)
(* (Node::apply_merge_keys_with_policy) or borrowed                        *)
(* (node_ref_merge_entries): for trees of any size and any limit of depth. *)
THEOREM NodesAlwaysAgree == Spec => []NodesAgree
<1>1. MergeInv => NodesAgree
  <2>1. SUFFICES ASSUME MergeInv, mode = "built", at = "read", NEW i \in DOMAIN doc
                 PROVE  read[i].node = read[i].borrowed
    BY DEF NodesAgree
  <2>2. Document(doc) /\ Backward(doc) /\ read = BuiltReading(doc)
    BY <2>1 DEF MergeInv, DocumentInv, ReadInv
  <2>3. PICK owned : owned = Expanded("strict", doc)
    OBVIOUS
  <2>4. Expanded("borrowed", doc) = owned
    BY <2>2, <2>3, OwnedIsBorrowed
  <2>5. BuiltReading(doc) = [j \in DOMAIN doc |-> [node |-> owned[j], borrowed |-> owned[j]]]
    BY <2>3, <2>4 DEF BuiltReading
  <2> QED
    BY <2>2, <2>5
<1> QED
  BY <1>1, MergeInvariant, PTL

(* What loading a document has made of its mappings.                       *)
LEMMA LoadOf ==
  ASSUME MergeInv, Parsed, at \in {"read", "failed"}
  PROVE  /\ Document(doc) /\ Backward(doc) /\ Unique(mode, doc) /\ at = Outcome(read)
         /\ DOMAIN read = DOMAIN doc
         /\ \A i \in DOMAIN doc : read[i].load = Expanded(mode, doc)[i]
<1>1. /\ Document(doc) /\ Backward(doc) /\ Unique(mode, doc) /\ at = Outcome(read)
      /\ has_merge \in BOOLEAN /\ (~has_merge => Plain(doc))
  BY DEF MergeInv, DocumentInv, UniqueInv, FlagInv, ReadInv, Parsed
<1>2. PICK loaded : loaded = Loaded(mode, doc, has_merge)
  OBVIOUS
<1>3. loaded = Expanded(mode, doc)
  BY <1>1, <1>2, LoadedIsExpanded DEF Parsed
<1>4. CASE mode = "strict"
  <2>1. PICK viewed : viewed = Effective(doc)
    OBVIOUS
  <2>2. read = [i \in DOMAIN doc |-> [load |-> loaded[i], view |-> viewed[i]]]
    BY <1>2, <1>4, <2>1 DEF MergeInv, ReadInv, StrictReading
  <2> QED
    BY <1>1, <1>3, <2>2
<1>5. CASE mode = "yaml11"
  <2>1. read = [i \in DOMAIN doc |-> [load |-> loaded[i]]]
    BY <1>2, <1>5 DEF MergeInv, ReadInv, Yaml11Reading
  <2> QED
    BY <1>1, <1>3, <2>1
<1> QED
  BY <1>4, <1>5 DEF Parsed

(* Loading (apply_strict_merge_entries, apply_yaml11_merge_entries) leaves *)
(* every ordinary key once, with the value that precedence gives it, and of*)
(* `<<` keys those that cannot be merged: for documents of any size.       *)
THEOREM MergesFollowPrecedence == Spec => []MergePrecedence
<1>1. MergeInv => MergePrecedence
  <2>1. SUFFICES ASSUME MergeInv, Parsed, at = "read" PROVE MergePrecedence
    BY DEF MergePrecedence, Parsed
  <2>2. /\ Document(doc) /\ Backward(doc) /\ Unique(mode, doc) /\ at = Outcome(read)
        /\ DOMAIN read = DOMAIN doc
        /\ \A i \in DOMAIN doc : read[i].load = Expanded(mode, doc)[i]
    BY <2>1, LoadOf
  <2>3. PICK origin : origin = Origin(mode, doc)
    OBVIOUS
  <2>4. ASSUME NEW i \in DOMAIN doc
        PROVE  Preceded(mode, doc, origin, i, read[i].load.entries)
    <3>1. ~Fails(read[i].load)
      BY <2>1, <2>2 DEF Outcome
    <3>2. mode \in {"strict", "yaml11"}
      BY <2>1 DEF Parsed
    <3>3. CASE mode = "strict"
      BY <2>2, <2>3, <3>1, <3>3, StrictPrecedence
    <3>4. CASE mode = "yaml11"
      BY <2>2, <2>3, <3>1, <3>4, Yaml11Precedence
    <3> QED
      BY <3>2, <3>3, <3>4
  <2> QED
    BY <2>3, <2>4 DEF MergePrecedence, Preceded, Kept
<1> QED
  BY <1>1, MergeInvariant, PTL

-----------------------------------------------------------------------------
(* What is refused.  First the longest chains.                             *)
Going(links, i) == {l \in links : l[1] = i}
SameLengths(t, u, i) == \A j \in Nat : 0 < j /\ j < i => t[j] = u[j]
LengthsBelow(t, i)   == \A j \in Nat : 0 < j /\ j < i => t[j] \in Nat /\ t[j] <= j
LengthRule(t, links, i) ==
  /\ t[i] \in Nat /\ t[i] <= i
  /\ \A l \in Going(links, i) : t[l[2]] \in Nat /\ 1 + t[l[2]] <= t[i]
  /\ t[i] # 0 => \E l \in Going(links, i) : t[i] = 1 + t[l[2]]

(* A loaded mapping merges mappings before it.                             *)
LEMMA LinksGoBack ==
  ASSUME NEW policy, NEW d, Document(d), Backward(d), NEW i \in DOMAIN d, NEW l \in Going(Links(policy, d), i)
  PROVE  l[2] \in DOMAIN d /\ l[2] \in Nat /\ 0 < l[2] /\ l[2] < i
<1>1. /\ l \in Links(policy, d) /\ l[1] = i /\ l[2] \in DOMAIN d
  BY DEF Going, Links
<1>2. PICK p \in DOMAIN d[i] : Refers(d[i][p].pay, l[2])
  BY <1>1 DEF Links
<1>3. Below(d[i][p].pay, i)
  BY DEF Backward
<1>4. l[2] < i
  BY <1>2, <1>3 DEF Refers, Below
<1>5. l[2] \in Nat /\ l[2] # 0
  BY <1>1, EntryOfDocument
<1> QED
  BY <1>1, <1>4, <1>5

(* The longest chain from a mapping depends on the mappings before only.   *)
LEMMA LengthsAgree ==
  ASSUME NEW policy, NEW d, Document(d), Backward(d), NEW i \in DOMAIN d, NEW t, NEW u, SameLengths(t, u, i)
  PROVE  LongestOf(t, Links(policy, d), i) = LongestOf(u, Links(policy, d), i)
<1>1. PICK going : going = Going(Links(policy, d), i)
  OBVIOUS
<1>2. \A l \in going : t[l[2]] = u[l[2]]
  BY <1>1, LinksGoBack DEF SameLengths
<1>3. PICK a, b : a = {t[l[2]] : l \in going} /\ b = {u[l[2]] : l \in going}
  OBVIOUS
<1>4. a = b
  BY <1>2, <1>3
<1>5. LongestOf(t, Links(policy, d), i) = IF going = {} THEN 0 ELSE 1 + Max(a)
  BY <1>1, <1>3 DEF LongestOf, Going
<1>6. LongestOf(u, Links(policy, d), i) = IF going = {} THEN 0 ELSE 1 + Max(b)
  BY <1>1, <1>3 DEF LongestOf, Going
<1> QED
  BY <1>4, <1>5, <1>6

(* It is one more than the longest from a mapping it merges, and no longer *)
(* than the mappings before.                                               *)
LEMMA LengthOf ==
  ASSUME NEW policy, NEW d, Document(d), Backward(d), NEW i \in DOMAIN d, NEW t, LengthsBelow(t, i),
         t[i] = LongestOf(t, Links(policy, d), i)
  PROVE  LengthRule(t, Links(policy, d), i)
<1>1. PICK going, lengths : going = Going(Links(policy, d), i) /\ lengths = {t[l[2]] : l \in going}
  OBVIOUS
<1>2. i \in Nat /\ i # 0
  BY EntryOfDocument
<1>3. \A l \in going : t[l[2]] \in Nat /\ t[l[2]] <= i - 1
  <2>1. ASSUME NEW l \in going PROVE t[l[2]] \in Nat /\ t[l[2]] <= i - 1
    <3>1. l[2] \in Nat /\ 0 < l[2] /\ l[2] < i
      BY <1>1, LinksGoBack
    <3>2. t[l[2]] \in Nat /\ t[l[2]] <= l[2]
      BY <3>1 DEF LengthsBelow
    <3> QED
      BY <1>2, <3>1, <3>2
  <2> QED
    BY <2>1
<1>4. lengths \in SUBSET Nat /\ \A x \in lengths : x <= i - 1
  BY <1>1, <1>3
<1>5. lengths # {} => Max(lengths) \in lengths /\ \A x \in lengths : x <= Max(lengths)
  <2>1. PICK b : b = i - 1
    OBVIOUS
  <2>2. b \in Nat /\ lengths \in SUBSET Nat /\ \A x \in lengths : x <= b
    BY <1>2, <1>4, <2>1
  <2> QED
    BY <2>2, MaxIsGreatest
<1>6. t[i] = IF going = {} THEN 0 ELSE 1 + Max(lengths)
  BY <1>1 DEF LongestOf, Going
<1>7. CASE going = {}
  BY <1>1, <1>2, <1>6, <1>7 DEF LengthRule
<1>8. CASE going # {}
  <2>1. lengths # {}
    BY <1>1, <1>8
  <2>2. PICK max : max = Max(lengths)
    OBVIOUS
  <2>3. max \in Nat /\ max <= i - 1 /\ t[i] = 1 + max
    BY <1>4, <1>5, <1>6, <1>8, <2>1, <2>2
  <2>4. PICK l \in going : max = t[l[2]]
    BY <1>1, <1>5, <2>1, <2>2
  <2>5. \A x \in going : t[x[2]] <= max
    BY <1>1, <1>5, <2>1, <2>2
  <2>6. t[i] \in Nat /\ t[i] <= i
    BY <1>2, <2>3
  <2>7. \A x \in going : t[x[2]] \in Nat /\ 1 + t[x[2]] <= t[i]
    BY <1>3, <2>3, <2>5
  <2> QED
    BY <1>1, <2>3, <2>4, <2>6, <2>7 DEF LengthRule
<1> QED
  BY <1>7, <1>8

LengthsUpTo(policy, d, n, t) ==
  \A i \in DOMAIN d : i <= n => t[i] = LongestOf(t, Links(policy, d), i)

(* The table of lengths exists for the first mappings ...                  *)
LEMMA LengthsUpToExist ==
  ASSUME NEW policy, NEW d, Document(d), Backward(d)
  PROVE  \A n \in Nat : \E t : LengthsUpTo(policy, d, n, t)
<1> DEFINE T == {n \in Nat : \E t : LengthsUpTo(policy, d, n, t)}
<1>1. 0 \in T
  <2>1. \A t : LengthsUpTo(policy, d, 0, t)
    BY EntryOfDocument DEF LengthsUpTo
  <2> QED
    BY <2>1
<1>2. ASSUME NEW n \in T PROVE n + 1 \in T
  <2>1. PICK t : LengthsUpTo(policy, d, n, t)
    BY <1>2
  <2>2. PICK u : u = [i \in DOMAIN d |-> IF i = n + 1 THEN LongestOf(t, Links(policy, d), i) ELSE t[i]]
    OBVIOUS
  <2>3. ASSUME NEW i \in DOMAIN d, i <= n + 1 PROVE u[i] = LongestOf(u, Links(policy, d), i)
    <3>1. i \in Nat /\ n \in Nat /\ DOMAIN d = 1 .. Len(d) /\ Len(d) \in Nat
      BY <1>2, EntryOfDocument
    <3>2. \A j \in Nat : 0 < j /\ j < i => j \in DOMAIN d /\ j # n + 1
      BY <2>3, <3>1
    <3>3. SameLengths(t, u, i)
      BY <2>2, <3>2 DEF SameLengths
    <3>4. LongestOf(t, Links(policy, d), i) = LongestOf(u, Links(policy, d), i)
      BY <3>3, LengthsAgree
    <3>5. i # n + 1 => t[i] = LongestOf(t, Links(policy, d), i)
      BY <2>1, <2>3, <3>1 DEF LengthsUpTo
    <3> QED
      BY <2>2, <3>4, <3>5
  <2>4. LengthsUpTo(policy, d, n + 1, u)
    BY <2>3 DEF LengthsUpTo
  <2> QED
    BY <1>2, <2>4
<1> HIDE DEF T
<1>3. T \in SUBSET Nat
  BY DEF T
<1>4. T = Nat
  BY <1>1, <1>2, <1>3, FromZeroUp
<1> QED
  BY <1>4 DEF T

Lengths(policy, d, t) == t = [i \in DOMAIN d |-> LongestOf(t, Links(policy, d), i)]

(* ... hence for all of them,                                              *)
LEMMA LengthsExist ==
  ASSUME NEW policy, NEW d, Document(d), Backward(d)
  PROVE  \E t : Lengths(policy, d, t)
<1>1. Len(d) \in Nat /\ DOMAIN d = 1 .. Len(d)
  BY LenProperties DEF Document
<1>2. PICK t : LengthsUpTo(policy, d, Len(d), t)
  BY <1>1, LengthsUpToExist
<1>3. PICK u : u = [i \in DOMAIN d |-> t[i]]
  OBVIOUS
<1>4. ASSUME NEW i \in DOMAIN d PROVE t[i] = LongestOf(u, Links(policy, d), i)
  <2>1. i <= Len(d) /\ i \in Nat
    BY <1>1
  <2>2. \A j \in Nat : 0 < j /\ j < i => j \in DOMAIN d
    BY <1>1, <2>1
  <2>3. SameLengths(t, u, i)
    BY <1>3, <2>2 DEF SameLengths
  <2> QED
    BY <1>2, <2>1, <2>3, LengthsAgree DEF LengthsUpTo
<1>5. Lengths(policy, d, u)
  BY <1>3, <1>4 DEF Lengths
<1> QED
  BY <1>5

(* and Longest is what that table says.                                    *)
LEMMA LongestIs ==
  ASSUME NEW policy, NEW d, Document(d), Backward(d)
  PROVE  \A i \in DOMAIN d : LengthRule(Longest(policy, d), Links(policy, d), i)
<1> DEFINE g == CHOOSE t : Lengths(policy, d, t)
<1>1. Lengths(policy, d, g)
  BY LengthsExist
<1>2. Longest(policy, d) = g
  BY DEF Longest, Lengths
<1> HIDE DEF g
<1>3. \A i \in DOMAIN d : g[i] = LongestOf(g, Links(policy, d), i)
  BY <1>1 DEF Lengths
<1> DEFINE T == {n \in Nat : \A i \in DOMAIN d : i <= n => g[i] \in Nat /\ g[i] <= i}
<1>4. 0 \in T
  BY EntryOfDocument
<1>5. ASSUME NEW n \in T PROVE n + 1 \in T
  <2>1. ASSUME NEW i \in DOMAIN d, i <= n + 1 PROVE g[i] \in Nat /\ g[i] <= i
    <3>1. i \in Nat /\ n \in Nat /\ DOMAIN d = 1 .. Len(d) /\ Len(d) \in Nat
      BY <1>5, EntryOfDocument
    <3>2. \A j \in Nat : 0 < j /\ j < i => j \in DOMAIN d /\ j <= n
      BY <2>1, <3>1
    <3>3. LengthsBelow(g, i)
      BY <1>5, <3>2 DEF LengthsBelow
    <3>4. LengthRule(g, Links(policy, d), i)
      BY <1>3, <3>3, LengthOf
    <3> QED
      BY <3>4 DEF LengthRule
  <2> QED
    BY <1>5, <2>1
<1> HIDE DEF T
<1>6. T \in SUBSET Nat
  BY DEF T
<1>7. T = Nat
  BY <1>4, <1>5, <1>6, FromZeroUp
<1>8. \A i \in DOMAIN d : g[i] \in Nat /\ g[i] <= i
  <2>1. ASSUME NEW i \in DOMAIN d PROVE i \in T /\ i <= i
    BY <1>7, EntryOfDocument
  <2> QED
    BY <2>1 DEF T
<1>9. ASSUME NEW i \in DOMAIN d PROVE LengthRule(g, Links(policy, d), i)
  <2>1. \A j \in Nat : 0 < j /\ j < i => j \in DOMAIN d
    BY EntryOfDocument
  <2>2. LengthsBelow(g, i)
    BY <1>8, <2>1 DEF LengthsBelow
  <2> QED
    BY <1>3, <2>2, LengthOf
<1> QED
  BY <1>2, <1>9

-----------------------------------------------------------------------------
(* Loading fails where the chain is too long for the depth it began at,    *)
(* and nowhere else unless a payload is bad.                               *)
Deep(t, l, i)    == \A depth \in Depths : depth + l[i] > MaxMergeDepth => Fails(t[<<i, depth>>])
Shallow(t, l, i) == \A depth \in Depths : depth + l[i] <= MaxMergeDepth => ~Fails(t[<<i, depth>>])
DeepBelow(t, l, i)    == \A j \in Nat : 0 < j /\ j < i => Deep(t, l, j)
ShallowBelow(t, l, i) == \A j \in Nat : 0 < j /\ j < i => Shallow(t, l, j)

(* A payload that was expanded refers to mappings on short chains.         *)
LEMMA ExpandedPayload ==
  ASSUME NEW t, NEW l, NEW i \in Nat, DeepBelow(t, l, i), \A j \in Nat : 0 < j /\ j < i => l[j] \in Nat,
         NEW pay \in Shapes, Below(pay, i), NEW depth \in Depths, NEW R, R = MergeSources(t, pay, depth), AllOk(R)
  PROVE  \A n \in DOMAIN pay.refs : pay.refs[n] # 0 /\ depth + l[pay.refs[n]] <= MaxMergeDepth
<1>1. DOMAIN R = DOMAIN pay.refs /\ \A n \in DOMAIN R : R[n] = MergeSource(t, pay.refs[n], depth)
  BY DEF MergeSources
<1>2. ASSUME NEW n \in DOMAIN pay.refs
      PROVE  pay.refs[n] # 0 /\ depth + l[pay.refs[n]] <= MaxMergeDepth
  <2>1. ~Fails(MergeSource(t, pay.refs[n], depth))
    BY <1>1 DEF AllOk
  <2>2. pay.refs[n] # 0
    BY <2>1 DEF MergeSource, Err, Fails
  <2>3. ~Fails(t[<<pay.refs[n], depth>>])
    BY <2>1, <2>2 DEF MergeSource
  <2>4. pay.refs[n] \in Nat /\ 0 < pay.refs[n] /\ pay.refs[n] < i
    BY <2>2, ShapeFacts DEF Below
  <2>5. Deep(t, l, pay.refs[n]) /\ l[pay.refs[n]] \in Nat
    BY <2>4 DEF DeepBelow
  <2>6. depth \in Nat /\ MaxMergeDepth \in Nat
    BY MergeKeysAssumption DEF Depths
  <2>7. ~(depth + l[pay.refs[n]] > MaxMergeDepth)
    BY <2>3, <2>5 DEF Deep
  <2> QED
    BY <2>2, <2>5, <2>6, <2>7
<1> QED
  BY <1>2

(* Merging a payload succeeds if it can be merged, above the limit, and its*)
(* items expand.                                                           *)
LEMMA PayloadExpands ==
  ASSUME NEW t, NEW l, NEW i \in Nat, ShallowBelow(t, l, i),
         NEW pay \in Shapes, Below(pay, i), NEW depth \in Depths, NEW R, R = MergeSources(t, pay, depth),
         \A n \in DOMAIN pay.refs : pay.refs[n] # 0 /\ depth + l[pay.refs[n]] <= MaxMergeDepth
  PROVE  AllOk(R)
<1>1. DOMAIN R = DOMAIN pay.refs /\ \A n \in DOMAIN R : R[n] = MergeSource(t, pay.refs[n], depth)
  BY DEF MergeSources
<1>2. ASSUME NEW n \in DOMAIN R PROVE ~Fails(R[n])
  <2>1. pay.refs[n] # 0 /\ R[n] = t[<<pay.refs[n], depth>>]
    BY <1>1 DEF MergeSource
  <2>2. pay.refs[n] \in Nat /\ 0 < pay.refs[n] /\ pay.refs[n] < i
    BY <1>1, <2>1, ShapeFacts DEF Below
  <2> QED
    BY <1>1, <2>1, <2>2 DEF ShallowBelow, Shallow
<1> QED
  BY <1>2 DEF AllOk

(* The links of a mapping are the references of its merges.                *)
LEMMA ReferenceIsLink ==
  ASSUME NEW policy, NEW d, Document(d), Backward(d), NEW i \in DOMAIN d, NEW p \in DOMAIN d[i],
         Merging(policy, d[i][p]), NEW n \in DOMAIN d[i][p].pay.refs, d[i][p].pay.refs[n] # 0
  PROVE  <<i, d[i][p].pay.refs[n]>> \in Going(Links(policy, d), i)
<1>1. PICK pay, j : pay = d[i][p].pay /\ j = pay.refs[n]
  OBVIOUS
<1>2. pay \in Shapes /\ Below(pay, i)
  BY <1>1, PayloadOfDocument DEF Backward
<1>3. j \in Nat /\ 0 < j /\ j < i
  BY <1>1, <1>2, ShapeFacts DEF Below
<1>4. j \in DOMAIN d
  BY <1>3, EntryOfDocument
<1>5. Refers(d[i][p].pay, j)
  BY <1>1 DEF Refers
<1>6. PICK x : x = <<i, j>>
  OBVIOUS
<1>7. x \in (DOMAIN d) \X (DOMAIN d) /\ x[1] = i /\ x[2] = j
  BY <1>4, <1>6
<1>8. x \in Links(policy, d)
  BY <1>5, <1>7 DEF Links
<1> QED
  BY <1>1, <1>6, <1>7, <1>8 DEF Going

(* A link is a payload that refers to the mapping.                         *)
LEMMA LinkIsReference ==
  ASSUME NEW policy, NEW d, NEW i, NEW x \in Going(Links(policy, d), i)
  PROVE  \E p \in DOMAIN d[i] : /\ Merging(policy, d[i][p])
                                /\ \E n \in DOMAIN d[i][p].pay.refs : d[i][p].pay.refs[n] = x[2]
<1>1. x \in Links(policy, d) /\ x[1] = i
  BY DEF Going
<1> QED
  BY <1>1 DEF Links, Refers

(* The strict policy.                                                      *)
LEMMA StrictDeep ==
  ASSUME NEW d, Document(d), Backward(d), Unique("strict", d), NEW i \in DOMAIN d, NEW depth \in Depths,
         NEW t, TypedBelow(t, i), NEW l, LengthRule(l, Links("strict", d), i),
         \A j \in Nat : 0 < j /\ j < i => l[j] \in Nat, DeepBelow(t, l, i),
         NEW r, r = StrictEntries(t, d, i, depth), ~Fails(r)
  PROVE  depth + l[i] <= MaxMergeDepth /\ ~BadPayload(d, i)
<1>1. depth \in Nat /\ depth <= MaxMergeDepth /\ MaxMergeDepth \in Nat /\ l[i] \in Nat /\ i \in Nat
  BY MergeKeysAssumption, EntryOfDocument DEF Depths, LengthRule
<1>2. CASE Merges(d, i) = {}
  <2>1. ~BadPayload(d, i)
    BY <1>2 DEF BadPayload
  <2>2. Going(Links("strict", d), i) = {}
    BY <1>2, LinkIsReference DEF Merging, Merges
  <2>3. l[i] = 0
    BY <2>2 DEF LengthRule
  <2> QED
    BY <1>1, <2>1, <2>3
<1>3. CASE Merges(d, i) # {}
  <2>1. PICK m, pay, w, R : /\ m = FirstMerge(d, i) /\ pay = d[i][m].pay /\ w = Without(Entries(d, i), {m})
                            /\ R = MergeSources(t, pay, depth + 1)
    OBVIOUS
  <2>2. /\ m \in DOMAIN d[i] /\ d[i][m].key = MergeKey /\ pay \in Shapes /\ Below(pay, i)
        /\ pay.kind \in {"map", "seq"} /\ depth + 1 \in Depths /\ AllOk(R)
    BY <1>3, <2>1, StrictMerges
  <2>3. \A p \in DOMAIN d[i] : d[i][p].key = MergeKey => p = m
    BY <2>2 DEF Unique
  <2>4. \A n \in DOMAIN pay.refs : pay.refs[n] # 0 /\ (depth + 1) + l[pay.refs[n]] <= MaxMergeDepth
    BY <1>1, <2>1, <2>2, ExpandedPayload
  <2>5. Mergeable(pay)
    BY <2>2, <2>4 DEF Mergeable
  <2>6. ~BadPayload(d, i)
    BY <2>1, <2>3, <2>5 DEF BadPayload, Merges
  <2>7. ASSUME l[i] # 0 PROVE depth + l[i] <= MaxMergeDepth
    <3>1. PICK x \in Going(Links("strict", d), i) : l[i] = 1 + l[x[2]]
      BY <2>7 DEF LengthRule
    <3>2. PICK n \in DOMAIN pay.refs : pay.refs[n] = x[2]
      BY <2>1, <2>3, LinkIsReference DEF Merging
    <3>3. (depth + 1) + l[x[2]] <= MaxMergeDepth /\ l[x[2]] \in Nat
      BY <2>4, <3>1, <3>2 DEF LengthRule
    <3> QED
      BY <1>1, <3>1, <3>3
  <2> QED
    BY <1>1, <2>6, <2>7
<1> QED
  BY <1>2, <1>3

(* Short chains of mergeable payloads expand under the strict policy.      *)
LEMMA StrictShallow ==
  ASSUME NEW d, Document(d), Backward(d), NEW i \in DOMAIN d, NEW depth \in Depths,
         NEW t, TypedBelow(t, i), NEW l, LengthRule(l, Links("strict", d), i), ShallowBelow(t, l, i),
         ~BadPayload(d, i), depth + l[i] <= MaxMergeDepth,
         NEW r, r = StrictEntries(t, d, i, depth)
  PROVE  ~Fails(r)
<1>1. depth \in Nat /\ MaxMergeDepth \in Nat /\ l[i] \in Nat /\ i \in Nat
  BY MergeKeysAssumption, EntryOfDocument DEF Depths, LengthRule
<1>2. CASE Merges(d, i) = {}
  BY <1>2 DEF StrictEntries, Ok, Fails
<1>3. CASE Merges(d, i) # {}
  <2>1. PICK m, pay, w, R : /\ m = FirstMerge(d, i) /\ pay = d[i][m].pay /\ w = Without(Entries(d, i), {m})
                            /\ R = MergeSources(t, pay, depth + 1)
    OBVIOUS
  <2>2. m \in Merges(d, i) /\ m \in DOMAIN d[i] /\ d[i][m].key = MergeKey
    BY <1>3, <2>1, FirstMergeIn DEF Merges
  <2>3. pay \in Shapes /\ Below(pay, i) /\ Mergeable(pay)
    BY <2>1, <2>2, PayloadOfDocument DEF Backward, BadPayload
  <2>4. pay.kind \in {"map", "seq"} /\ \A n \in DOMAIN pay.refs : pay.refs[n] # 0
    BY <2>3 DEF Mergeable
  <2>5. \A n \in DOMAIN pay.refs : l[pay.refs[n]] \in Nat /\ 1 + l[pay.refs[n]] <= l[i]
    <3>1. ASSUME NEW n \in DOMAIN pay.refs PROVE l[pay.refs[n]] \in Nat /\ 1 + l[pay.refs[n]] <= l[i]
      <4>1. PICK x : x = <<i, pay.refs[n]>>
        OBVIOUS
      <4>2. x \in Going(Links("strict", d), i) /\ x[2] = pay.refs[n]
        BY <2>1, <2>2, <2>4, <4>1, ReferenceIsLink DEF Merging
      <4> QED
        BY <4>2 DEF LengthRule
    <3> QED
      BY <3>1
  <2>6. 1 \in DOMAIN pay.refs
    BY <2>3, <2>4, ShapeFilled
  <2>7. depth + 1 \in Depths
    BY <1>1, <2>5, <2>6 DEF Depths
  <2>8. \A n \in DOMAIN pay.refs : pay.refs[n] # 0 /\ (depth + 1) + l[pay.refs[n]] <= MaxMergeDepth
    BY <1>1, <2>4, <2>5
  <2>9. AllOk(R)
    BY <1>1, <2>1, <2>3, <2>7, <2>8, PayloadExpands
  <2>10. R \in Seq(Result)
    BY <1>1, <2>1, <2>3, <2>7, SourcesType
  <2>11. ~Fails(AddAll("missing", w, R))
    BY <2>9, <2>10, AddAllFails DEF Result
  <2>12. ~TooDeep(depth + 1)
    BY <1>1, <2>7 DEF TooDeep, Depths
  <2> QED
    BY <1>3, <2>1, <2>4, <2>11, <2>12 DEF StrictEntries, MergeNodeMapping
<1> QED
  BY <1>2, <1>3

(* YAML 1.1.                                                               *)
LEMMA Yaml11Deep ==
  ASSUME NEW d, Document(d), Backward(d), NEW i \in DOMAIN d, NEW depth \in Depths,
         NEW t, TypedBelow(t, i), NEW l, LengthRule(l, Links("yaml11", d), i),
         \A j \in Nat : 0 < j /\ j < i => l[j] \in Nat, DeepBelow(t, l, i),
         NEW r, r = Yaml11Entries(t, d, i, depth), ~Fails(r)
  PROVE  depth + l[i] <= MaxMergeDepth
<1>1. depth \in Nat /\ depth <= MaxMergeDepth /\ MaxMergeDepth \in Nat /\ l[i] \in Nat /\ i \in Nat
  BY MergeKeysAssumption, EntryOfDocument DEF Depths, LengthRule
<1>2. CASE l[i] = 0
  BY <1>1, <1>2
<1>3. CASE l[i] # 0
  <2>1. PICK x \in Going(Links("yaml11", d), i) : l[i] = 1 + l[x[2]]
    BY <1>3 DEF LengthRule
  <2>2. PICK p \in DOMAIN d[i] : /\ MergesIn(d[i][p])
                                 /\ \E n \in DOMAIN d[i][p].pay.refs : d[i][p].pay.refs[n] = x[2]
    BY <2>1, LinkIsReference DEF Merging
  <2>3. PICK pay, R, merges, merged, explicit :
          /\ pay = d[i][p].pay /\ R = MergeSources(t, pay, depth + 1)
          /\ merges = [q \in DOMAIN d[i] |-> Yaml11Merged(t, d[i][q], depth + 1)]
          /\ merged = AddAll("upsert", <<>>, merges)
          /\ explicit = Without(Entries(d, i), {q \in DOMAIN d[i] : MergesIn(d[i][q])})
    OBVIOUS
  <2>4. AllOk(merges)
    BY <2>3, Yaml11Merges
  <2>5. ~Fails(Yaml11MergeEntries(t, pay, depth + 1))
    BY <2>2, <2>3, <2>4 DEF AllOk, Yaml11Merged
  <2>6. ~TooDeep(depth + 1)
    BY <2>5 DEF Yaml11MergeEntries, Fails, Err
  <2>7. depth + 1 \in Depths
    BY <1>1, <2>6 DEF TooDeep, Depths
  <2>8. pay \in Shapes /\ Below(pay, i) /\ \A n \in DOMAIN pay.refs : pay.refs[n] # 0
    BY <2>2, <2>3, PayloadOfDocument DEF Backward, MergesIn, Mergeable
  <2>9. R = [n \in DOMAIN pay.refs |-> t[<<pay.refs[n], depth + 1>>]] /\ R \in Seq(Result)
    <3>1. R = [n \in DOMAIN pay.refs |-> t[<<pay.refs[n], depth + 1>>]]
      BY <2>3, <2>8 DEF MergeSources, MergeSource
    <3>2. R \in Seq(Result)
      BY <1>1, <2>3, <2>7, <2>8, SourcesType
    <3> QED
      BY <3>1, <3>2
  <2>10. AllOk(R)
    <3>1. CASE pay.kind = "map"
      <4>1. ~Fails(t[<<pay.refs[1], depth + 1>>])
        BY <2>5, <2>6, <3>1 DEF Yaml11MergeEntries
      <4>2. DOMAIN pay.refs = {1}
        BY <2>8, <3>1, ShapeFacts
      <4> QED
        BY <2>9, <4>1, <4>2 DEF AllOk
    <3>2. CASE pay.kind # "map"
      <4>1. ~Fails(AddAll("missing", <<>>, R))
        BY <2>5, <2>6, <2>9, <3>2 DEF Yaml11MergeEntries
      <4> QED
        BY <2>9, <4>1, AddAllFails DEF Result
    <3> QED
      BY <3>1, <3>2
  <2>11. \A n \in DOMAIN pay.refs : pay.refs[n] # 0 /\ (depth + 1) + l[pay.refs[n]] <= MaxMergeDepth
    BY <1>1, <2>3, <2>7, <2>8, <2>10, ExpandedPayload
  <2>12. (depth + 1) + l[x[2]] <= MaxMergeDepth /\ l[x[2]] \in Nat
    BY <2>1, <2>2, <2>3, <2>11 DEF LengthRule
  <2> QED
    BY <1>1, <2>1, <2>12
<1> QED
  BY <1>2, <1>3

(* Short chains expand under YAML 1.1.                                     *)
LEMMA Yaml11Shallow ==
  ASSUME NEW d, Document(d), Backward(d), NEW i \in DOMAIN d, NEW depth \in Depths,
         NEW t, TypedBelow(t, i), NEW l, LengthRule(l, Links("yaml11", d), i), ShallowBelow(t, l, i),
         depth + l[i] <= MaxMergeDepth,
         NEW r, r = Yaml11Entries(t, d, i, depth)
  PROVE  ~Fails(r)
<1>1. depth \in Nat /\ MaxMergeDepth \in Nat /\ l[i] \in Nat /\ i \in Nat
  BY MergeKeysAssumption, EntryOfDocument DEF Depths, LengthRule
<1>2. PICK merges, merged, explicit :
        /\ merges = [q \in DOMAIN d[i] |-> Yaml11Merged(t, d[i][q], depth + 1)]
        /\ merged = AddAll("upsert", <<>>, merges)
        /\ explicit = Without(Entries(d, i), {q \in DOMAIN d[i] : MergesIn(d[i][q])})
  OBVIOUS
<1>3. merges \in Seq(Result)
  BY <1>2, Yaml11MergesType
<1>4. ASSUME NEW p \in DOMAIN d[i] PROVE ~Fails(Yaml11Merged(t, d[i][p], depth + 1))
  <2>1. CASE ~MergesIn(d[i][p])
    BY <2>1 DEF Yaml11Merged, Ok, Fails
  <2>2. CASE MergesIn(d[i][p])
    <3>1. PICK pay, R : pay = d[i][p].pay /\ R = MergeSources(t, pay, depth + 1)
      OBVIOUS
    <3>2. /\ pay \in Shapes /\ Below(pay, i) /\ pay.kind \in {"map", "seq"}
          /\ \A n \in DOMAIN pay.refs : pay.refs[n] # 0
      BY <2>2, <3>1, PayloadOfDocument DEF Backward, MergesIn, Mergeable
    <3>3. \A n \in DOMAIN pay.refs : l[pay.refs[n]] \in Nat /\ 1 + l[pay.refs[n]] <= l[i]
      <4>1. ASSUME NEW n \in DOMAIN pay.refs PROVE l[pay.refs[n]] \in Nat /\ 1 + l[pay.refs[n]] <= l[i]
        <5>1. PICK x : x = <<i, pay.refs[n]>>
          OBVIOUS
        <5>2. x \in Going(Links("yaml11", d), i) /\ x[2] = pay.refs[n]
          BY <2>2, <3>1, <3>2, <5>1, ReferenceIsLink DEF Merging
        <5> QED
          BY <5>2 DEF LengthRule
      <4> QED
        BY <4>1
    <3>4. 1 \in DOMAIN pay.refs
      BY <3>2, ShapeFilled
    <3>5. depth + 1 \in Depths
      BY <1>1, <3>3, <3>4 DEF Depths
    <3>6. \A n \in DOMAIN pay.refs : pay.refs[n] # 0 /\ (depth + 1) + l[pay.refs[n]] <= MaxMergeDepth
      BY <1>1, <3>2, <3>3
    <3>7. AllOk(R)
      BY <1>1, <3>1, <3>2, <3>5, <3>6, PayloadExpands
    <3>8. R = [n \in DOMAIN pay.refs |-> t[<<pay.refs[n], depth + 1>>]]
      BY <3>1, <3>2 DEF MergeSources, MergeSource
    <3>9. R \in Seq(Result)
      BY <1>1, <3>1, <3>2, <3>5, SourcesType
    <3>10. ~TooDeep(depth + 1)
      BY <1>1, <3>5 DEF TooDeep, Depths
    <3>11. Yaml11Merged(t, d[i][p], depth + 1) = Yaml11MergeEntries(t, pay, depth + 1)
      BY <2>2, <3>1 DEF Yaml11Merged
    <3>12. CASE pay.kind = "map"
      <4>1. ~Fails(t[<<pay.refs[1], depth + 1>>])
        BY <3>4, <3>7, <3>8 DEF AllOk
      <4> QED
        BY <3>10, <3>11, <3>12, <4>1 DEF Yaml11MergeEntries
    <3>13. CASE pay.kind # "map"
      <4>1. ~Fails(AddAll("missing", <<>>, R))
        BY <3>7, <3>9, AddAllFails DEF Result
      <4> QED
        BY <3>8, <3>10, <3>11, <3>13, <4>1 DEF Yaml11MergeEntries
    <3> QED
      BY <3>12, <3>13
  <2> QED
    BY <2>1, <2>2
<1>5. AllOk(merges)
  BY <1>2, <1>4 DEF AllOk
<1>6. ~Fails(merged)
  BY <1>2, <1>3, <1>5, AddAllFails DEF Result
<1>7. r = IF Fails(merged) THEN merged ELSE Ok(InsertMissing(explicit, merged.entries))
  BY <1>2 DEF Yaml11Entries
<1> QED
  BY <1>6, <1>7 DEF Ok, Fails

(* Both, of all mappings.                                                  *)
Bad(policy, d) == policy = "strict" /\ \E i \in DOMAIN d : BadPayload(d, i)

(* Expanding some mapping fails exactly on a long chain or, when strict, a *)
(* bad payload.                                                            *)
LEMMA RefusalIs ==
  ASSUME NEW policy \in {"strict", "yaml11"}, NEW d, Document(d), Backward(d), Unique(policy, d),
         NEW t, Solves(policy, d, t), NEW l, l = Longest(policy, d)
  PROVE  \A i \in DOMAIN d : /\ Deep(t, l, i)
                             /\ ~Bad(policy, d) => Shallow(t, l, i)
                             /\ policy = "strict" /\ BadPayload(d, i) => Fails(t[<<i, 0>>])
<1>1. \A i \in DOMAIN d : LengthRule(l, Links(policy, d), i)
  BY LongestIs
<1>2. \A i \in DOMAIN d : TypedBelow(t, i)
  BY SolutionType
<1> DEFINE T == {n \in Nat : \A i \in DOMAIN d : i <= n => Deep(t, l, i) /\ (~Bad(policy, d) => Shallow(t, l, i))}
<1>3. 0 \in T
  BY EntryOfDocument
<1>4. ASSUME NEW i \in DOMAIN d, \A j \in Nat : 0 < j /\ j < i => Deep(t, l, j),
             NEW depth \in Depths, ~Fails(t[<<i, depth>>])
      PROVE  depth + l[i] <= MaxMergeDepth /\ (policy = "strict" => ~BadPayload(d, i))
  <2>1. DeepBelow(t, l, i)
    BY <1>4 DEF DeepBelow
  <2>2. \A j \in Nat : 0 < j /\ j < i => l[j] \in Nat
    <3>1. \A j \in Nat : 0 < j /\ j < i => j \in DOMAIN d
      BY EntryOfDocument
    <3> QED
      BY <1>1, <3>1 DEF LengthRule
  <2>3. PICK r : r = t[<<i, depth>>]
    OBVIOUS
  <2>4. CASE policy = "strict"
    <3>1. r = StrictEntries(t, d, i, depth)
      BY <2>3, <2>4 DEF Solves, ExpandedEntries
    <3>2. LengthRule(l, Links("strict", d), i) /\ Unique("strict", d) /\ TypedBelow(t, i) /\ ~Fails(r)
      BY <1>1, <1>2, <1>4, <2>3, <2>4
    <3> QED
      BY <2>1, <2>2, <3>1, <3>2, StrictDeep
  <2>5. CASE policy = "yaml11"
    <3>1. r = Yaml11Entries(t, d, i, depth)
      BY <2>3, <2>5 DEF Solves, ExpandedEntries
    <3>2. LengthRule(l, Links("yaml11", d), i) /\ TypedBelow(t, i) /\ ~Fails(r)
      BY <1>1, <1>2, <1>4, <2>3, <2>5
    <3>3. depth + l[i] <= MaxMergeDepth
      BY <2>1, <2>2, <3>1, <3>2, Yaml11Deep
    <3> QED
      BY <2>5, <3>3
  <2> QED
    BY <2>4, <2>5
<1>5. ASSUME NEW i \in DOMAIN d, \A j \in Nat : 0 < j /\ j < i => Shallow(t, l, j), ~Bad(policy, d),
             NEW depth \in Depths, depth + l[i] <= MaxMergeDepth
      PROVE  ~Fails(t[<<i, depth>>])
  <2>1. ShallowBelow(t, l, i)
    BY <1>5 DEF ShallowBelow
  <2>2. PICK r : r = t[<<i, depth>>]
    OBVIOUS
  <2>3. CASE policy = "strict"
    <3>1. r = StrictEntries(t, d, i, depth)
      BY <2>2, <2>3 DEF Solves, ExpandedEntries
    <3>2. LengthRule(l, Links("strict", d), i) /\ TypedBelow(t, i) /\ ~BadPayload(d, i)
      BY <1>1, <1>2, <1>5, <2>3 DEF Bad
    <3>3. ~Fails(r)
      BY <1>5, <2>1, <3>1, <3>2, StrictShallow
    <3> QED
      BY <2>2, <3>3
  <2>4. CASE policy = "yaml11"
    <3>1. r = Yaml11Entries(t, d, i, depth)
      BY <2>2, <2>4 DEF Solves, ExpandedEntries
    <3>2. LengthRule(l, Links("yaml11", d), i) /\ TypedBelow(t, i)
      BY <1>1, <1>2, <2>4
    <3>3. ~Fails(r)
      BY <1>5, <2>1, <3>1, <3>2, Yaml11Shallow
    <3> QED
      BY <2>2, <3>3
  <2> QED
    BY <2>3, <2>4
<1>6. ASSUME NEW n \in T PROVE n + 1 \in T
  <2>1. ASSUME NEW i \in DOMAIN d, i <= n + 1 PROVE Deep(t, l, i) /\ (~Bad(policy, d) => Shallow(t, l, i))
    <3>1. i \in Nat /\ n \in Nat /\ DOMAIN d = 1 .. Len(d) /\ Len(d) \in Nat
      BY <1>6, EntryOfDocument
    <3>2. \A j \in Nat : 0 < j /\ j < i => j \in DOMAIN d /\ j <= n
      BY <2>1, <3>1
    <3>3. \A j \in Nat : 0 < j /\ j < i => Deep(t, l, j) /\ (~Bad(policy, d) => Shallow(t, l, j))
      BY <1>6, <3>2
    <3>4. l[i] \in Nat /\ MaxMergeDepth \in Nat /\ Depths \subseteq Nat
      BY <1>1, MergeKeysAssumption DEF LengthRule, Depths
    <3>5. Deep(t, l, i)
      <4>1. \A depth \in Depths : ~Fails(t[<<i, depth>>]) => depth + l[i] <= MaxMergeDepth
        BY <1>4, <3>3
      <4>2. \A depth \in Depths : depth + l[i] > MaxMergeDepth => ~(depth + l[i] <= MaxMergeDepth)
        BY <3>4
      <4> QED
        BY <4>1, <4>2 DEF Deep
    <3>6. ~Bad(policy, d) => Shallow(t, l, i)
      BY <1>5, <3>3 DEF Shallow
    <3> QED
      BY <3>5, <3>6
  <2> QED
    BY <1>6, <2>1
<1> HIDE DEF T
<1>7. T \in SUBSET Nat
  BY DEF T
<1>8. T = Nat
  BY <1>3, <1>6, <1>7, FromZeroUp
<1>9. \A i \in DOMAIN d : Deep(t, l, i) /\ (~Bad(policy, d) => Shallow(t, l, i))
  <2>1. ASSUME NEW i \in DOMAIN d PROVE i \in T /\ i <= i
    BY <1>8, EntryOfDocument
  <2> QED
    BY <2>1 DEF T
<1>10. ASSUME NEW i \in DOMAIN d, policy = "strict", BadPayload(d, i) PROVE Fails(t[<<i, 0>>])
  <2>1. \A j \in Nat : 0 < j /\ j < i => j \in DOMAIN d
    BY EntryOfDocument
  <2>2. 0 \in Depths
    BY MergeKeysAssumption DEF Depths
  <2> QED
    BY <1>4, <1>9, <1>10, <2>1, <2>2
<1> QED
  BY <1>9, <1>10

(* Loading fails exactly on a chain of merges longer than MAX_MERGE_DEPTH  *)
(* (merge_node_mapping, yaml11_merge_entries) and, under the strict policy,*)
(* on a payload that is no mapping: for documents of any size.             *)
THEOREM RefusesExactly == Spec => []RefusedExactly
<1>1. MergeInv => RefusedExactly
  <2>1. SUFFICES ASSUME MergeInv, Parsed, at \in {"read", "failed"} PROVE RefusedExactly
    BY DEF RefusedExactly, Parsed
  <2>2. /\ Document(doc) /\ Backward(doc) /\ Unique(mode, doc) /\ at = Outcome(read)
        /\ DOMAIN read = DOMAIN doc
        /\ \A i \in DOMAIN doc : read[i].load = Expanded(mode, doc)[i]
    BY <2>1, LoadOf
  <2>3. mode \in {"strict", "yaml11"}
    BY <2>1 DEF Parsed
  <2>4. PICK t : Solves(mode, doc, t) /\ Expanded(mode, doc) = [i \in DOMAIN doc |-> t[<<i, 0>>]]
    BY <2>2, <2>3, ExpandedIs DEF Solves
  <2>5. PICK l : l = Longest(mode, doc)
    OBVIOUS
  <2>6. \A i \in DOMAIN doc : /\ Deep(t, l, i)
                              /\ ~Bad(mode, doc) => Shallow(t, l, i)
                              /\ mode = "strict" /\ BadPayload(doc, i) => Fails(t[<<i, 0>>])
    BY <2>2, <2>3, <2>4, <2>5, RefusalIs
  <2>7. \A i \in DOMAIN doc : l[i] \in Nat
    BY <2>2, <2>5, LongestIs DEF LengthRule
  <2>8. \A i \in DOMAIN doc : Fails(read[i].load) <=> Fails(t[<<i, 0>>])
    BY <2>2, <2>4
  <2>9. 0 \in Depths /\ MaxMergeDepth \in Nat
    BY MergeKeysAssumption DEF Depths
  <2>10. at = "failed" <=> \E i \in DOMAIN doc : Fails(t[<<i, 0>>])
    BY <2>2, <2>8 DEF Outcome
  <2>11. ASSUME NEW i \in DOMAIN doc
         PROVE  /\ l[i] > MaxMergeDepth => Fails(t[<<i, 0>>])
                /\ ~Bad(mode, doc) /\ Fails(t[<<i, 0>>]) => l[i] > MaxMergeDepth
    <3>1. l[i] \in Nat /\ 0 + l[i] = l[i] /\ (~(l[i] <= MaxMergeDepth) => l[i] > MaxMergeDepth)
      BY <2>7, <2>9
    <3>2. 0 + l[i] > MaxMergeDepth => Fails(t[<<i, 0>>])
      BY <2>6, <2>9 DEF Deep
    <3>3. ~Bad(mode, doc) /\ 0 + l[i] <= MaxMergeDepth => ~Fails(t[<<i, 0>>])
      BY <2>6, <2>9 DEF Shallow
    <3> QED
      BY <3>1, <3>2, <3>3
  <2>12. at = "failed" <=> \E i \in DOMAIN doc : \/ l[i] > MaxMergeDepth
                                                 \/ mode = "strict" /\ BadPayload(doc, i)
    BY <2>6, <2>10, <2>11 DEF Bad
  <2> QED
    BY <2>5, <2>12 DEF RefusedExactly
<1> QED
  BY <1>1, MergeInvariant, PTL

-----------------------------------------------------------------------------
(* The effective view.  What is made of a mapping depends on what is on    *)
(* the stack; the table of views exists by induction on the number of      *)
(* mappings that are not on it.                                            *)
Free(d, open) == Cardinality((DOMAIN d) \ open)

(* One mapping more on the stack is one fewer that is not.                 *)
LEMMA FreeFacts ==
  ASSUME NEW d, Document(d), NEW open \in SUBSET DOMAIN d
  PROVE  /\ Free(d, open) \in Nat
         /\ Free(d, open) = 0 => open = DOMAIN d
         /\ \A i \in DOMAIN d : i \notin open => /\ Free(d, open \union {i}) = Free(d, open) - 1
                                                 /\ Free(d, open) # 0
                                                 /\ open \union {i} \in SUBSET DOMAIN d
<1>1. Len(d) \in Nat /\ DOMAIN d = 1 .. Len(d)
  BY LenProperties DEF Document
<1>2. IsFiniteSet(DOMAIN d)
  BY <1>1, FS_Interval
<1>3. PICK rest : rest = (DOMAIN d) \ open
  OBVIOUS
<1>4. IsFiniteSet(rest)
  BY <1>2, <1>3, FS_Subset
<1>5. Cardinality(rest) \in Nat /\ (Cardinality(rest) = 0 => rest = {})
  BY <1>4, FS_CardinalityType, FS_EmptySet
<1>6. ASSUME NEW i \in DOMAIN d, i \notin open
      PROVE  Cardinality((DOMAIN d) \ (open \union {i})) = Cardinality(rest) - 1 /\ Cardinality(rest) # 0
  <2>1. i \in rest /\ rest \ {i} = (DOMAIN d) \ (open \union {i})
    BY <1>3, <1>6
  <2>2. Cardinality(rest \ {i}) = Cardinality(rest) - 1
    BY <1>4, <2>1, FS_RemoveElement
  <2>3. Cardinality(rest) # 0
    BY <1>5, <2>1
  <2> QED
    BY <2>1, <2>2, <2>3
<1> QED
  BY <1>3, <1>5, <1>6 DEF Free

SameBeside(t, u, d, open) == \A j \in DOMAIN d : t[<<open, j>>] = u[<<open, j>>]

(* The view of a mapping depends on the views with it on the stack only.   *)
LEMMA ViewedAgrees ==
  ASSUME NEW d, Document(d), Inside(d), NEW i \in DOMAIN d, NEW open, NEW t, NEW u,
         i \notin open => SameBeside(t, u, d, open \union {i})
  PROVE  ViewedEntries(t, d, i, open) = ViewedEntries(u, d, i, open)
<1>1. CASE i \in open
  BY <1>1 DEF ViewedEntries
<1>2. CASE i \notin open
  <2>1. PICK on : on = open \union {i}
    OBVIOUS
  <2>2. ASSUME NEW p \in DOMAIN d[i]
        PROVE  ViewedMerge(t, d[i][p], on) = ViewedMerge(u, d[i][p], on)
    <3>1. PICK pay : pay = d[i][p].pay
      OBVIOUS
    <3>2. \A n \in DOMAIN pay.refs : pay.refs[n] = 0 \/ pay.refs[n] \in DOMAIN d
      BY <2>2, <3>1 DEF Inside, Within
    <3>3. \A n \in DOMAIN pay.refs : ViewedItem(t, pay.refs[n], on) = ViewedItem(u, pay.refs[n], on)
      BY <1>2, <2>1, <3>2 DEF ViewedItem, SameBeside
    <3>4. [n \in DOMAIN pay.refs |-> ViewedItem(t, pay.refs[n], on)]
            = [n \in DOMAIN pay.refs |-> ViewedItem(u, pay.refs[n], on)]
      BY <3>3
    <3> QED
      BY <3>1, <3>4 DEF ViewedMerge
  <2>3. [p \in DOMAIN d[i] |-> ViewedMerge(t, d[i][p], on)]
          = [p \in DOMAIN d[i] |-> ViewedMerge(u, d[i][p], on)]
    BY <2>2
  <2> QED
    BY <1>2, <2>1, <2>3 DEF ViewedEntries
<1> QED
  BY <1>1, <1>2

ViewsUpTo(d, n, t) ==
  \A open \in SUBSET DOMAIN d : Free(d, open) <= n =>
    \A i \in DOMAIN d : t[<<open, i>>] = ViewedEntries(t, d, i, open)

(* The table of views exists for stacks that leave few mappings ...        *)
LEMMA ViewsUpToExist ==
  ASSUME NEW d, Document(d), Inside(d)
  PROVE  \A n \in Nat : \E t : ViewsUpTo(d, n, t)
<1> DEFINE T == {n \in Nat : \E t : ViewsUpTo(d, n, t)}
<1>1. 0 \in T
  <2>1. PICK t : t = [x \in (SUBSET DOMAIN d) \X (DOMAIN d) |-> Err("recursive")]
    OBVIOUS
  <2>2. ASSUME NEW open \in SUBSET DOMAIN d, Free(d, open) <= 0, NEW i \in DOMAIN d
        PROVE  t[<<open, i>>] = ViewedEntries(t, d, i, open)
    <3>1. i \in open
      BY <2>2, FreeFacts
    <3> QED
      BY <2>1, <3>1 DEF ViewedEntries
  <2>3. ViewsUpTo(d, 0, t)
    BY <2>2 DEF ViewsUpTo
  <2> QED
    BY <2>3
<1>2. ASSUME NEW n \in T PROVE n + 1 \in T
  <2>1. PICK t : ViewsUpTo(d, n, t)
    BY <1>2
  <2>2. PICK u : u = [x \in (SUBSET DOMAIN d) \X (DOMAIN d) |->
                        IF Free(d, x[1]) = n + 1 THEN ViewedEntries(t, d, x[2], x[1]) ELSE t[x]]
    OBVIOUS
  <2>3. \A open \in SUBSET DOMAIN d : \A i \in DOMAIN d :
          u[<<open, i>>] = IF Free(d, open) = n + 1 THEN ViewedEntries(t, d, i, open) ELSE t[<<open, i>>]
    BY <2>2
  <2>4. ASSUME NEW open \in SUBSET DOMAIN d, Free(d, open) <= n + 1, NEW i \in DOMAIN d
        PROVE  u[<<open, i>>] = ViewedEntries(u, d, i, open)
    <3>1. n \in Nat /\ Free(d, open) \in Nat
      BY <1>2, FreeFacts
    <3>2. ASSUME i \notin open PROVE SameBeside(t, u, d, open \union {i})
      <4>1. open \union {i} \in SUBSET DOMAIN d /\ Free(d, open \union {i}) # n + 1
        BY <2>4, <3>1, <3>2, FreeFacts
      <4> QED
        BY <2>3, <4>1 DEF SameBeside
    <3>3. ViewedEntries(t, d, i, open) = ViewedEntries(u, d, i, open)
      BY <3>2, ViewedAgrees
    <3>4. Free(d, open) # n + 1 => t[<<open, i>>] = ViewedEntries(t, d, i, open)
      BY <2>1, <2>4, <3>1 DEF ViewsUpTo
    <3> QED
      BY <2>3, <3>3, <3>4
  <2>5. ViewsUpTo(d, n + 1, u)
    BY <2>4 DEF ViewsUpTo
  <2> QED
    BY <1>2, <2>5
<1> HIDE DEF T
<1>3. T \in SUBSET Nat
  BY DEF T
<1>4. T = Nat
  BY <1>1, <1>2, <1>3, FromZeroUp
<1> QED
  BY <1>4 DEF T

Views(d, v)      == \A open \in SUBSET DOMAIN d : \A i \in DOMAIN d : v[<<open, i>>] = ViewedEntries(v, d, i, open)
ViewTables(d, t) == t = [x \in (SUBSET DOMAIN d) \X (DOMAIN d) |-> ViewedEntries(t, d, x[2], x[1])]

(* ... hence for all of them,                                              *)
LEMMA ViewsExist ==
  ASSUME NEW d, Document(d), Inside(d)
  PROVE  \E t : ViewTables(d, t)
<1>1. {} \in SUBSET DOMAIN d
  OBVIOUS
<1>2. PICK most \in Nat : \A open \in SUBSET DOMAIN d : Free(d, open) <= most
  <2>1. Free(d, {}) \in Nat
    BY <1>1, FreeFacts
  <2>2. ASSUME NEW open \in SUBSET DOMAIN d PROVE Free(d, open) <= Free(d, {})
    <3>1. IsFiniteSet((DOMAIN d) \ {})
      <4>1. Len(d) \in Nat /\ DOMAIN d = 1 .. Len(d)
        BY LenProperties DEF Document
      <4> QED
        BY <4>1, FS_Interval
    <3>2. (DOMAIN d) \ open \in SUBSET ((DOMAIN d) \ {})
      OBVIOUS
    <3> QED
      BY <3>1, <3>2, FS_Subset DEF Free
  <2> QED
    BY <2>1, <2>2
<1>3. PICK t : ViewsUpTo(d, most, t)
  BY ViewsUpToExist
<1>4. PICK u : u = [x \in (SUBSET DOMAIN d) \X (DOMAIN d) |-> t[x]]
  OBVIOUS
<1>5. \A open \in SUBSET DOMAIN d : \A i \in DOMAIN d : u[<<open, i>>] = t[<<open, i>>]
  BY <1>4
<1>6. ASSUME NEW open \in SUBSET DOMAIN d, NEW i \in DOMAIN d
      PROVE  t[<<open, i>>] = ViewedEntries(u, d, i, open)
  <2>1. i \notin open => SameBeside(t, u, d, open \union {i})
    BY <1>5 DEF SameBeside
  <2>2. ViewedEntries(t, d, i, open) = ViewedEntries(u, d, i, open)
    BY <2>1, ViewedAgrees
  <2> QED
    BY <1>2, <1>3, <2>2 DEF ViewsUpTo
<1>7. ASSUME NEW x \in (SUBSET DOMAIN d) \X (DOMAIN d)
      PROVE  t[x] = ViewedEntries(u, d, x[2], x[1])
  <2>1. x = <<x[1], x[2]>> /\ x[1] \in SUBSET DOMAIN d /\ x[2] \in DOMAIN d
    BY <1>7
  <2> QED
    BY <1>6, <2>1
<1>8. ViewTables(d, u)
  BY <1>4, <1>7 DEF ViewTables
<1> QED
  BY <1>8

(* and Effective reads one off.                                            *)
LEMMA EffectiveIs ==
  ASSUME NEW d, Document(d), Inside(d)
  PROVE  \E v : Views(d, v) /\ Effective(d) = [i \in DOMAIN d |-> v[<<{}, i>>]]
<1> DEFINE g == CHOOSE t : ViewTables(d, t)
<1>1. ViewTables(d, g)
  BY ViewsExist
<1>2. Effective(d) = [i \in DOMAIN d |-> g[<<{}, i>>]]
  BY DEF Effective, ViewTables
<1> HIDE DEF g
<1>3. Views(d, g)
  BY <1>1 DEF ViewTables, Views
<1> QED
  BY <1>2, <1>3

-----------------------------------------------------------------------------
(* What is shown of entries is what inserting them one by one leaves.      *)
Distinct(es) == \A n, m \in DOMAIN es : es[n].key = es[m].key => n = m

(* A sequence appended to another.                                         *)
LEMMA ConcatNext ==
  ASSUME NEW E, NEW a \in Seq(E), NEW b \in Seq(E), NEW e \in E
  PROVE  a \o Append(b, e) = Append(a \o b, e) /\ a \o b \in Seq(E) /\ a \o <<>> = a
<1>1. a \o b \in Seq(E) /\ a \o <<>> = a
  BY ConcatProperties, ConcatEmptySeq
<1>2. PICK one : one = <<e>>
  OBVIOUS
<1>3. one \in Seq(E) /\ Append(b, e) = b \o one /\ Append(a \o b, e) = (a \o b) \o one
  <2>1. Append(b, e) = b \o <<e>> /\ <<e>> \in Seq(E)
    BY AppendIsConcat
  <2>2. Append(a \o b, e) = (a \o b) \o <<e>>
    BY <1>1, AppendIsConcat
  <2> QED
    BY <1>2, <2>1, <2>2
<1>4. a \o (b \o one) = (a \o b) \o one
  BY <1>3, ConcatAssociative
<1> QED
  BY <1>1, <1>3, <1>4

(* Inserting one sequence after the other.                                 *)
LEMMA InsertMissingConcat ==
  ASSUME NEW E, NEW es \in Seq(E), NEW a \in Seq(E)
  PROVE  \A b \in Seq(E) : InsertMissing(es, a \o b) = InsertMissing(InsertMissing(es, a), b)
<1> DEFINE T == {b \in Seq(E) : InsertMissing(es, a \o b) = InsertMissing(InsertMissing(es, a), b)}
<1>1. <<>> \in T
  <2>1. <<>> \in Seq(E)
    BY EmptySeq
  <2>2. a \o <<>> = a
    BY ConcatEmptySeq
  <2>3. InsertMissing(InsertMissing(es, a), <<>>) = InsertMissing(es, a)
    BY InsertMissingNone
  <2> QED
    BY <2>1, <2>2, <2>3
<1>2. ASSUME NEW b \in Seq(E), NEW e \in E, b \in T PROVE Append(b, e) \in T
  <2>1. Append(b, e) \in Seq(E)
    BY AppendProperties
  <2>2. a \o Append(b, e) = Append(a \o b, e) /\ a \o b \in Seq(E)
    BY ConcatNext
  <2>3. PICK ab : ab = a \o b
    OBVIOUS
  <2>4. ab \in Seq(E) /\ a \o Append(b, e) = Append(ab, e)
    BY <2>2, <2>3
  <2>5. InsertMissing(es, Append(ab, e)) = InsertOne(InsertMissing(es, ab), e)
    BY <2>4, InsertMissingNext
  <2>6. InsertMissing(InsertMissing(es, a), Append(b, e)) = InsertOne(InsertMissing(InsertMissing(es, a), b), e)
    BY InsertMissingNext
  <2>7. InsertMissing(es, ab) = InsertMissing(InsertMissing(es, a), b)
    BY <1>2, <2>3
  <2> QED
    BY <2>1, <2>4, <2>5, <2>6, <2>7
<1> HIDE DEF T
<1>3. \A b \in Seq(E) : b \in T
  BY <1>1, <1>2, AllSequences
<1> QED
  BY <1>3 DEF T

(* The entries that come too late, of one entry more.                      *)
LEMMA OverriddenAppend ==
  ASSUME NEW E, NEW es \in Seq(E), NEW e \in E
  PROVE  /\ \A n \in DOMAIN es : Overridden(Append(es, e), n) <=> Overridden(es, n)
         /\ Overridden(Append(es, e), Len(es) + 1) <=> HasKey(es, e.key)
<1>1. PICK more : more = Append(es, e)
  OBVIOUS
<1>2. /\ Len(es) \in Nat /\ DOMAIN es = 1 .. Len(es)
      /\ \A n \in DOMAIN es : more[n] = es[n]
      /\ more[Len(es) + 1] = e
  BY <1>1, AppendProperties, LenProperties
<1>3. ASSUME NEW n \in DOMAIN es PROVE Overridden(more, n) <=> Overridden(es, n)
  <2>1. \A m \in 1 .. n - 1 : m \in DOMAIN es /\ more[m] = es[m]
    BY <1>2
  <2>2. more[n] = es[n]
    BY <1>2
  <2> QED
    BY <2>1, <2>2 DEF Overridden
<1>4. Overridden(more, Len(es) + 1) <=> HasKey(es, e.key)
  <2>1. (Len(es) + 1) - 1 = Len(es)
    BY <1>2
  <2>2. \A m \in 1 .. Len(es) : more[m] = es[m]
    BY <1>2
  <2>3. Overridden(more, Len(es) + 1) <=> \E m \in 1 .. Len(es) : es[m].key = e.key
    BY <1>2, <2>1, <2>2 DEF Overridden
  <2> QED
    BY <1>2, <2>3 DEF HasKey
<1> QED
  BY <1>1, <1>3, <1>4

(* What is shown is what is inserted.                                      *)
LEMMA ShownIs ==
  ASSUME NEW E
  PROVE  \A es \in Seq(E) : Shown(es) = InsertMissing(<<>>, es)
<1> DEFINE T == {es \in Seq(E) : Shown(es) = InsertMissing(<<>>, es)}
<1>0. <<>> \in Seq(E)
  BY EmptySeq
<1>1. <<>> \in T
  <2>1. InsertMissing(<<>>, <<>>) = <<>>
    BY InsertMissingNone
  <2>2. Shown(<<>>) = <<>>
    BY WithoutNone DEF Shown
  <2> QED
    BY <1>0, <2>1, <2>2
<1>2. ASSUME NEW es \in Seq(E), NEW e \in E, es \in T PROVE Append(es, e) \in T
  <2>1. PICK more : more = Append(es, e)
    OBVIOUS
  <2>2. /\ more \in Seq(E) /\ Len(es) + 1 \in DOMAIN more
        /\ \A n \in DOMAIN es : n \in DOMAIN more
    BY <2>1, AppendFacts
  <2>3. PICK late : late = {n \in DOMAIN more : Overridden(more, n)}
    OBVIOUS
  <2>4. PICK before : before = {n \in DOMAIN es : Overridden(es, n)}
    OBVIOUS
  <2>5. \A n \in DOMAIN es : Overridden(more, n) <=> Overridden(es, n)
    BY <2>1, OverriddenAppend
  <2>6. \A n \in DOMAIN es : n \in late <=> n \in before
    BY <2>2, <2>3, <2>4, <2>5
  <2>7. Len(es) + 1 \in late <=> HasKey(es, e.key)
    BY <2>1, <2>2, <2>3, OverriddenAppend
  <2>8. Without(es, late) = Without(es, before)
    BY <2>6, WithoutSame
  <2>9. Without(es, before) = InsertMissing(<<>>, es)
    BY <1>2, <2>4 DEF Shown
  <2>10. Without(more, late) = IF Len(es) + 1 \in late THEN Without(es, late) ELSE Append(Without(es, late), e)
    BY <2>1, WithoutNext
  <2>11. InsertMissing(<<>>, more) = InsertOne(InsertMissing(<<>>, es), e)
    BY <2>1, InsertMissingNext
  <2>12. HasKey(InsertMissing(<<>>, es), e.key) <=> HasKey(es, e.key)
    <3>1. HasKey(InsertMissing(<<>>, es), e.key) <=> HasKey(<<>>, e.key) \/ HasKey(es, e.key)
      BY <1>0, HasKeyInsertMissing
    <3>2. ~HasKey(<<>>, e.key)
      BY DEF HasKey
    <3> QED
      BY <3>1, <3>2
  <2>13. Without(more, late) = InsertMissing(<<>>, more)
    BY <2>7, <2>8, <2>9, <2>10, <2>11, <2>12 DEF InsertOne
  <2> QED
    BY <2>1, <2>2, <2>3, <2>13 DEF Shown
<1> HIDE DEF T
<1>3. \A es \in Seq(E) : es \in T
  BY <1>1, <1>2, AllSequences
<1> QED
  BY <1>3 DEF T

(* All of entries that have each their own key.                            *)
LEMMA ShownDistinct ==
  ASSUME NEW E, NEW es \in Seq(E), Distinct(es)
  PROVE  Shown(es) = es /\ InsertMissing(<<>>, es) = es
<1>1. PICK late : late = {n \in DOMAIN es : Overridden(es, n)}
  OBVIOUS
<1>2. ASSUME NEW n \in DOMAIN es PROVE ~Overridden(es, n)
  <2>1. DOMAIN es = 1 .. Len(es) /\ Len(es) \in Nat
    BY LenProperties
  <2>2. \A m \in 1 .. n - 1 : m \in DOMAIN es /\ m # n
    BY <2>1
  <2> QED
    BY <1>2, <2>2 DEF Overridden, Distinct
<1>3. \A n \in DOMAIN es : n \notin late
  BY <1>1, <1>2
<1>4. Without(es, late) = es
  BY <1>3, WithoutNothing
<1> QED
  BY <1>1, <1>4, ShownIs DEF Shown

-----------------------------------------------------------------------------
(* Loading inserts what is missing of each payload, expanded; the view     *)
(* puts them one behind the other, unexpanded, and leaves out at the end.  *)
Showing(V) == [n \in DOMAIN V |-> Ok(Shown(V[n].entries))]

(* Leaving out entries of a result.                                        *)
LEMMA ShownType ==
  ASSUME NEW E, NEW es \in Seq(E)
  PROVE  Shown(es) \in Seq(E)
<1>1. InsertMissing(<<>>, es) \in Seq(E)
  <2>1. <<>> \in Seq(E)
    BY EmptySeq
  <2> QED
    BY <2>1, InsertMissingType
<1> QED
  BY <1>1, ShownIs

(* Inserting what is shown of entries is inserting the entries.            *)
LEMMA InsertShown ==
  ASSUME NEW E, NEW es \in Seq(E), NEW a \in Seq(E)
  PROVE  InsertMissing(es, Shown(a)) = InsertMissing(es, a)
<1>1. PICK none : none = <<>>
  OBVIOUS
<1>2. none \in Seq(E)
  BY <1>1, EmptySeq
<1>3. \A b \in Seq(E) : InsertMissing(InsertMissing(es, none), b) = InsertMissing(es, InsertMissing(none, b))
  BY <1>2, InsertMissingAssociates
<1>4. InsertMissing(es, <<>>) = es
  BY InsertMissingNone
<1>5. Shown(a) = InsertMissing(<<>>, a)
  BY ShownIs
<1> QED
  BY <1>1, <1>3, <1>4, <1>5

(* One behind the other, none fails.                                       *)
LEMMA ExtendNext ==
  ASSUME NEW E, NEW V \in Seq(Results(E)), NEW v \in Results(E), AllOk(V), ~Fails(v)
  PROVE  LET x == AddAll("extend", <<>>, V).entries IN
         /\ x \in Seq(E)
         /\ AddAll("extend", <<>>, V) = Ok(x)
         /\ AddAll("extend", <<>>, Append(V, v)) = Ok(x \o v.entries)
<1>1. PICK r : r = AddAll("extend", <<>>, V)
  OBVIOUS
<1>2. <<>> \in Seq(E) /\ "extend" \in Ways
  BY EmptySeq DEF Ways
<1>3. r \in Results(E)
  BY <1>1, <1>2, AddAllType
<1>4. ~Fails(r)
  BY <1>1, AddAllFails
<1>5. r = Ok(r.entries) /\ r.entries \in Seq(E)
  BY <1>3, <1>4, OkIs
<1>6. AddAll("extend", <<>>, Append(V, v)) = AddResult("extend", r, v)
  BY <1>1, AddAllNext
<1>7. AddResult("extend", r, v) = Ok(r.entries \o v.entries)
  BY <1>4 DEF AddResult, Add
<1> QED
  BY <1>1, <1>5, <1>6, <1>7

(* What is shown of one result more.                                       *)
LEMMA ShowingAppend ==
  ASSUME NEW E, NEW V \in Seq(Results(E)), NEW v \in Results(E)
  PROVE  /\ Showing(V) \in Seq(Results(E)) /\ Showing(Append(V, v)) = Append(Showing(V), Ok(Shown(v.entries)))
         /\ Ok(Shown(v.entries)) \in Results(E)
<1>1. \A r \in Results(E) : r.entries \in Seq(E)
  BY DEF Results
<1>2. \A r \in Results(E) : Shown(r.entries) \in Seq(E)
  BY <1>1, ShownType
<1>3. \A r \in Results(E) : Ok(Shown(r.entries)) \in Results(E)
  BY <1>2 DEF Results, Outcomes, Ok
<1>4. /\ Len(V) \in Nat /\ DOMAIN V = 1 .. Len(V)
      /\ \A n \in DOMAIN V : V[n] \in Results(E)
  BY LenProperties, ElementOfSeq
<1>5. PICK s : s = Showing(V)
  OBVIOUS
<1>6. s = [n \in 1 .. Len(V) |-> Ok(Shown(V[n].entries))]
  BY <1>4, <1>5 DEF Showing
<1>7. s \in Seq(Results(E)) /\ Len(s) = Len(V)
  <2>1. \A n \in 1 .. Len(V) : Ok(Shown(V[n].entries)) \in Results(E)
    BY <1>3, <1>4
  <2> QED
    BY <1>4, <1>6, <2>1, IsASeq, LenProperties
<1>8. PICK o : o = Ok(Shown(v.entries))
  OBVIOUS
<1>9. PICK more : more = Append(V, v)
  OBVIOUS
<1>10. /\ DOMAIN more = 1 .. Len(V) + 1 /\ more[Len(V) + 1] = v
       /\ \A n \in 1 .. Len(V) : more[n] = V[n]
  BY <1>4, <1>9, AppendProperties
<1>11. Showing(more) = [n \in 1 .. Len(V) + 1 |-> Ok(Shown(more[n].entries))]
  BY <1>10 DEF Showing
<1>12. o \in Results(E)
  BY <1>3, <1>8
<1>13. /\ Append(s, o) \in Seq(Results(E)) /\ DOMAIN Append(s, o) = 1 .. Len(V) + 1
       /\ Append(s, o)[Len(V) + 1] = o
       /\ \A n \in 1 .. Len(V) : Append(s, o)[n] = s[n]
  <2>1. /\ Append(s, o) \in Seq(Results(E)) /\ Len(Append(s, o)) = Len(s) + 1
        /\ Append(s, o)[Len(s) + 1] = o
        /\ \A n \in 1 .. Len(s) : Append(s, o)[n] = s[n]
    BY <1>7, <1>12, AppendProperties
  <2> QED
    BY <1>7, <2>1, LenProperties
<1>14. \A n \in 1 .. Len(V) + 1 : Ok(Shown(more[n].entries)) = Append(s, o)[n]
  <2>1. ASSUME NEW n \in 1 .. Len(V) + 1 PROVE Ok(Shown(more[n].entries)) = Append(s, o)[n]
    <3>1. CASE n = Len(V) + 1
      BY <1>8, <1>10, <1>13, <3>1
    <3>2. CASE n # Len(V) + 1
      <4>1. n \in 1 .. Len(V)
        BY <1>4, <3>2
      <4> QED
        BY <1>6, <1>10, <1>13, <4>1
    <3> QED
      BY <3>1, <3>2
  <2> QED
    BY <2>1
<1>15. Append(s, o) = [n \in 1 .. Len(V) + 1 |-> Append(s, o)[n]]
  BY <1>13, LenProperties
<1>16. Showing(more) = Append(s, o)
  BY <1>11, <1>14, <1>15
<1> QED
  BY <1>5, <1>7, <1>8, <1>9, <1>12, <1>16

(* The two come to the same.                                               *)
LEMMA ShownTogether ==
  ASSUME NEW E, NEW w \in Seq(E)
  PROVE  \A V \in Seq(Results(E)) : AllOk(V) =>
           AddAll("missing", w, Showing(V)) = Ok(InsertMissing(w, AddAll("extend", <<>>, V).entries))
<1> DEFINE Together(V) == AddAll("missing", w, Showing(V)) = Ok(InsertMissing(w, AddAll("extend", <<>>, V).entries))
           T == {V \in Seq(Results(E)) : AllOk(V) => Together(V)}
<1>1. <<>> \in T
  <2>1. <<>> \in Seq(Results(E))
    BY EmptySeq
  <2>2. Showing(<<>>) = <<>>
    BY DEF Showing
  <2>3. AddAll("missing", w, <<>>) = Ok(w) /\ AddAll("extend", <<>>, <<>>) = Ok(<<>>)
    BY AddAllNone
  <2>4. InsertMissing(w, <<>>) = w
    BY InsertMissingNone
  <2> QED
    BY <2>1, <2>2, <2>3, <2>4 DEF Ok
<1>2. ASSUME NEW V \in Seq(Results(E)), NEW v \in Results(E), V \in T PROVE Append(V, v) \in T
  <2>1. PICK more : more = Append(V, v)
    OBVIOUS
  <2>2. more \in Seq(Results(E))
    BY <2>1, AppendProperties
  <2>3. ASSUME AllOk(more) PROVE Together(more)
    <3>1. AllOk(V) /\ ~Fails(v)
      BY <2>1, <2>3, AllOkAppend
    <3>2. PICK x : x = AddAll("extend", <<>>, V).entries
      OBVIOUS
    <3>3. x \in Seq(E) /\ AddAll("extend", <<>>, more) = Ok(x \o v.entries)
      BY <2>1, <3>1, <3>2, ExtendNext
    <3>4. v.entries \in Seq(E)
      BY DEF Results
    <3>5. PICK o : o = Ok(Shown(v.entries))
      OBVIOUS
    <3>6. Showing(V) \in Seq(Results(E)) /\ Showing(more) = Append(Showing(V), o) /\ o \in Results(E)
      BY <2>1, <3>5, ShowingAppend
    <3>7. AddAll("missing", w, Append(Showing(V), o)) = AddResult("missing", AddAll("missing", w, Showing(V)), o)
      BY <3>6, AddAllNext
    <3>8. AddAll("missing", w, Showing(V)) = Ok(InsertMissing(w, x))
      BY <1>2, <3>1, <3>2
    <3>9. AddResult("missing", Ok(InsertMissing(w, x)), o) = Ok(InsertMissing(InsertMissing(w, x), Shown(v.entries)))
      BY <3>5 DEF AddResult, Add, Ok, Fails
    <3>10. InsertMissing(w, x) \in Seq(E)
      BY <3>3, InsertMissingType
    <3>11. InsertMissing(InsertMissing(w, x), Shown(v.entries)) = InsertMissing(InsertMissing(w, x), v.entries)
      BY <3>4, <3>10, InsertShown
    <3>12. InsertMissing(w, x \o v.entries) = InsertMissing(InsertMissing(w, x), v.entries)
      BY <3>3, <3>4, InsertMissingConcat
    <3>13. AddAll("extend", <<>>, more).entries = x \o v.entries
      BY <3>3 DEF Ok
    <3> QED
      BY <3>6, <3>7, <3>8, <3>9, <3>11, <3>12, <3>13
  <2> QED
    BY <2>1, <2>2, <2>3
<1> HIDE DEF T
<1>3. \A V \in Seq(Results(E)) : V \in T
  BY <1>1, <1>2, AllSequences
<1> QED
  BY <1>3 DEF T

(* One result among others that add nothing.                               *)
LEMMA OneExtended ==
  ASSUME NEW E, NEW x \in Seq(E), NEW m
  PROVE  \A R \in Seq(Results(E)) :
           (\A n \in DOMAIN R : R[n] = IF n = m THEN Ok(x) ELSE Ok(<<>>))
             => AddAll("extend", <<>>, R) = IF m \in DOMAIN R THEN Ok(x) ELSE Ok(<<>>)
<1> DEFINE Only(R) == \A n \in DOMAIN R : R[n] = IF n = m THEN Ok(x) ELSE Ok(<<>>)
           Adds(R) == AddAll("extend", <<>>, R) = IF m \in DOMAIN R THEN Ok(x) ELSE Ok(<<>>)
           T == {R \in Seq(Results(E)) : Only(R) => Adds(R)}
<1>1. <<>> \in T
  <2>1. <<>> \in Seq(Results(E))
    BY EmptySeq
  <2>2. AddAll("extend", <<>>, <<>>) = Ok(<<>>)
    BY AddAllNone
  <2>3. m \notin DOMAIN <<>>
    OBVIOUS
  <2> QED
    BY <2>1, <2>2, <2>3
<1>2. ASSUME NEW R \in Seq(Results(E)), NEW r \in Results(E), R \in T PROVE Append(R, r) \in T
  <2>1. PICK more : more = Append(R, r)
    OBVIOUS
  <2>2. /\ more \in Seq(Results(E)) /\ Len(R) \in Nat /\ DOMAIN R = 1 .. Len(R) /\ DOMAIN more = 1 .. Len(R) + 1
        /\ \A n \in DOMAIN R : more[n] = R[n]
        /\ more[Len(R) + 1] = r
    BY <2>1, AppendProperties, LenProperties
  <2>3. ASSUME Only(more) PROVE Adds(more)
    <3>1. Only(R)
      BY <2>2, <2>3
    <3>2. AddAll("extend", <<>>, R) = IF m \in DOMAIN R THEN Ok(x) ELSE Ok(<<>>)
      BY <1>2, <3>1
    <3>3. r = IF Len(R) + 1 = m THEN Ok(x) ELSE Ok(<<>>)
      BY <2>2, <2>3
    <3>4. AddAll("extend", <<>>, more) = AddResult("extend", AddAll("extend", <<>>, R), r)
      BY <2>1, AddAllNext
    <3>5. x \o <<>> = x /\ <<>> \o x = x /\ <<>> \o <<>> = <<>>
      BY ConcatEmptySeq
    <3>6. CASE m \in DOMAIN R
      <4>1. Len(R) + 1 # m /\ m \in DOMAIN more
        BY <2>2, <3>6
      <4>2. AddResult("extend", Ok(x), Ok(<<>>)) = Ok(x)
        BY <3>5 DEF AddResult, Add, Ok, Fails
      <4> QED
        BY <3>2, <3>3, <3>4, <3>6, <4>1, <4>2
    <3>7. CASE Len(R) + 1 = m
      <4>1. m \notin DOMAIN R /\ m \in DOMAIN more
        BY <2>2, <3>7
      <4>2. AddResult("extend", Ok(<<>>), Ok(x)) = Ok(x)
        BY <3>5 DEF AddResult, Add, Ok, Fails
      <4> QED
        BY <3>2, <3>3, <3>4, <3>7, <4>1, <4>2
    <3>8. CASE m \notin DOMAIN R /\ Len(R) + 1 # m
      <4>1. m \notin DOMAIN more
        BY <2>2, <3>8
      <4>2. AddResult("extend", Ok(<<>>), Ok(<<>>)) = Ok(<<>>)
        BY <3>5 DEF AddResult, Add, Ok, Fails
      <4> QED
        BY <3>2, <3>3, <3>4, <3>8, <4>1, <4>2
    <3> QED
      BY <3>6, <3>7, <3>8
  <2> QED
    BY <2>1, <2>2, <2>3
<1> HIDE DEF T
<1>3. \A R \in Seq(Results(E)) : R \in T
  BY <1>1, <1>2, AllSequences
<1> QED
  BY <1>3 DEF T

-----------------------------------------------------------------------------
(* What the view makes of a mapping is a result, and when it is an error.  *)
ViewTyped(v, d, on) == \A j \in DOMAIN d : v[<<on, j>>] \in Result
Items(v, pay, on)   == [n \in DOMAIN pay.refs |-> ViewedItem(v, pay.refs[n], on)]
Merged(v, d, i, on) == [p \in DOMAIN d[i] |-> ViewedMerge(v, d[i][p], on)]

(* The items of a payload.                                                 *)
LEMMA ItemsType ==
  ASSUME NEW d, NEW v, NEW on, ViewTyped(v, d, on), NEW pay \in Shapes, Within(pay, d)
  PROVE  /\ Items(v, pay, on) \in Seq(Result) /\ DOMAIN Items(v, pay, on) = DOMAIN pay.refs
         /\ \A n \in DOMAIN pay.refs : Items(v, pay, on)[n] = ViewedItem(v, pay.refs[n], on)
<1>1. DOMAIN pay.refs = 1 .. Len(pay.refs) /\ Len(pay.refs) \in Nat
  BY ShapeFacts
<1>2. Err("scalar") \in Result
  BY ErrType DEF Result, Outcomes
<1>3. \A n \in DOMAIN pay.refs : ViewedItem(v, pay.refs[n], on) \in Result
  BY <1>2 DEF ViewedItem, ViewTyped, Within
<1>4. PICK s : s = Items(v, pay, on)
  OBVIOUS
<1>5. s = [n \in 1 .. Len(pay.refs) |-> ViewedItem(v, pay.refs[n], on)]
  BY <1>1, <1>4 DEF Items
<1>6. s \in Seq(Result)
  BY <1>1, <1>3, <1>5, IsASeq
<1> QED
  BY <1>1, <1>4, <1>5, <1>6

(* The entries behind a `<<` key, or nothing behind another.               *)
LEMMA ViewedMergeType ==
  ASSUME NEW d, Document(d), Inside(d), NEW i \in DOMAIN d, NEW p \in DOMAIN d[i],
         NEW v, NEW on, ViewTyped(v, d, on), NEW pay, pay = d[i][p].pay
  PROVE  /\ ViewedMerge(v, d[i][p], on) \in Result
         /\ Fails(ViewedMerge(v, d[i][p], on)) <=>
              d[i][p].key = MergeKey /\ (pay.kind = "scalar" \/ ~AllOk(Items(v, pay, on)))
<1>1. pay \in Shapes /\ Within(pay, d)
  BY PayloadOfDocument DEF Inside
<1>2. PICK s : s = Items(v, pay, on)
  OBVIOUS
<1>3. s \in Seq(Results(Placed))
  BY <1>1, <1>2, ItemsType DEF Result
<1>4. PICK r : r = AddAll("extend", <<>>, s)
  OBVIOUS
<1>5. PICK none : none = <<>>
  OBVIOUS
<1>6. none \in Seq(Placed) /\ "extend" \in Ways
  BY <1>5, EmptySeq DEF Ways
<1>7. AddAll("extend", none, s) \in Results(Placed)
  BY <1>3, <1>6, AddAllType
<1>8. Fails(AddAll("extend", none, s)) <=> ~AllOk(s)
  BY <1>3, AddAllFails
<1>9. Err("scalar") \in Result /\ Ok(none) \in Result
  BY <1>6, ErrType, ResultFacts DEF Result, Outcomes
<1>10. ViewedMerge(v, d[i][p], on)
         = IF d[i][p].key # MergeKey THEN Ok(<<>>) ELSE IF pay.kind = "scalar" THEN Err("scalar") ELSE r
  BY <1>2, <1>4 DEF ViewedMerge, Items
<1>11. Fails(Err("scalar")) /\ ~Fails(Ok(<<>>))
  BY DEF Fails, Err, Ok
<1> QED
  BY <1>2, <1>4, <1>5, <1>7, <1>8, <1>9, <1>10, <1>11 DEF Result

(* All of them.                                                            *)
LEMMA MergedType ==
  ASSUME NEW d, Document(d), Inside(d), NEW i \in DOMAIN d, NEW v, NEW on, ViewTyped(v, d, on)
  PROVE  /\ Merged(v, d, i, on) \in Seq(Result) /\ DOMAIN Merged(v, d, i, on) = DOMAIN d[i]
         /\ \A p \in DOMAIN d[i] : Merged(v, d, i, on)[p] = ViewedMerge(v, d[i][p], on)
<1>1. DOMAIN d[i] = 1 .. Len(d[i]) /\ Len(d[i]) \in Nat
  BY EntryOfDocument
<1>2. \A p \in DOMAIN d[i] : ViewedMerge(v, d[i][p], on) \in Result
  BY ViewedMergeType
<1>3. PICK s : s = Merged(v, d, i, on)
  OBVIOUS
<1>4. s = [p \in 1 .. Len(d[i]) |-> ViewedMerge(v, d[i][p], on)]
  BY <1>1, <1>3 DEF Merged
<1>5. s \in Seq(Result)
  BY <1>1, <1>2, <1>4, IsASeq
<1> QED
  BY <1>1, <1>3, <1>4, <1>5

(* The mapping.                                                            *)
LEMMA ViewedType ==
  ASSUME NEW d, Document(d), Inside(d), NEW i \in DOMAIN d, NEW v, NEW open,
         i \notin open => ViewTyped(v, d, open \union {i})
  PROVE  /\ ViewedEntries(v, d, i, open) \in Result
         /\ Fails(ViewedEntries(v, d, i, open)) <=>
              \/ i \in open
              \/ \E p \in DOMAIN d[i] : Fails(ViewedMerge(v, d[i][p], open \union {i}))
<1>1. CASE i \in open
  <2>1. Err("recursive") \in Result /\ Fails(Err("recursive"))
    BY ErrType DEF Result, Outcomes, Fails, Err
  <2> QED
    BY <1>1, <2>1 DEF ViewedEntries
<1>2. CASE i \notin open
  <2>1. PICK on : on = open \union {i}
    OBVIOUS
  <2>2. ViewTyped(v, d, on)
    BY <1>2, <2>1
  <2>3. PICK ms : ms = Merged(v, d, i, on)
    OBVIOUS
  <2>4. ms \in Seq(Results(Placed)) /\ DOMAIN ms = DOMAIN d[i]
        /\ \A p \in DOMAIN d[i] : ms[p] = ViewedMerge(v, d[i][p], on)
    BY <2>2, <2>3, MergedType DEF Result
  <2>5. PICK none : none = <<>>
    OBVIOUS
  <2>6. none \in Seq(Placed) /\ "extend" \in Ways
    BY <2>5, EmptySeq DEF Ways
  <2>7. PICK merged : merged = AddAll("extend", none, ms)
    OBVIOUS
  <2>8. merged \in Results(Placed)
    BY <2>4, <2>6, <2>7, AddAllType
  <2>9. Fails(merged) <=> ~AllOk(ms)
    BY <2>4, <2>7, AddAllFails
  <2>10. PICK w : w = Without(Entries(d, i), Merges(d, i))
    OBVIOUS
  <2>11. w \in Seq(Placed)
    BY <2>10, EntriesWithoutType
  <2>12. ViewedEntries(v, d, i, open) = IF Fails(merged) THEN merged ELSE Ok(w \o merged.entries)
    BY <1>2, <2>1, <2>3, <2>5, <2>7, <2>10 DEF ViewedEntries, Merged
  <2>13. merged.entries \in Seq(Placed)
    BY <2>8 DEF Results
  <2>14. w \o merged.entries \in Seq(Placed)
    BY <2>11, <2>13, ConcatProperties
  <2>15. Ok(w \o merged.entries) \in Result
    BY <2>14, ResultFacts
  <2>16. ~Fails(Ok(w \o merged.entries))
    BY DEF Fails, Ok
  <2>17. ~AllOk(ms) <=> \E p \in DOMAIN d[i] : Fails(ViewedMerge(v, d[i][p], on))
    BY <2>4 DEF AllOk
  <2> QED
    BY <1>2, <2>1, <2>8, <2>9, <2>12, <2>15, <2>16, <2>17 DEF Result
<1> QED
  BY <1>1, <1>2

(* By induction on the mappings that are not on the stack.                 *)
LEMMA ViewsType ==
  ASSUME NEW d, Document(d), Inside(d), NEW v, Views(d, v)
  PROVE  \A open \in SUBSET DOMAIN d : ViewTyped(v, d, open)
<1> DEFINE T == {n \in Nat : \A open \in SUBSET DOMAIN d : Free(d, open) <= n => ViewTyped(v, d, open)}
<1>1. 0 \in T
  <2>1. ASSUME NEW open \in SUBSET DOMAIN d, Free(d, open) <= 0, NEW i \in DOMAIN d
        PROVE  v[<<open, i>>] \in Result
    <3>1. i \in open
      BY <2>1, FreeFacts
    <3>2. ViewedEntries(v, d, i, open) \in Result
      BY <3>1, ViewedType
    <3> QED
      BY <3>2 DEF Views
  <2> QED
    BY <2>1 DEF ViewTyped
<1>2. ASSUME NEW n \in T PROVE n + 1 \in T
  <2>1. ASSUME NEW open \in SUBSET DOMAIN d, Free(d, open) <= n + 1, NEW i \in DOMAIN d
        PROVE  v[<<open, i>>] \in Result
    <3>1. n \in Nat /\ Free(d, open) \in Nat
      BY <1>2, FreeFacts
    <3>2. ASSUME i \notin open PROVE ViewTyped(v, d, open \union {i})
      <4>1. open \union {i} \in SUBSET DOMAIN d /\ Free(d, open \union {i}) <= n
        BY <2>1, <3>1, <3>2, FreeFacts
      <4> QED
        BY <1>2, <4>1
    <3>3. ViewedEntries(v, d, i, open) \in Result
      BY <3>2, ViewedType
    <3> QED
      BY <3>3 DEF Views
  <2> QED
    BY <1>2, <2>1 DEF ViewTyped
<1> HIDE DEF T
<1>3. T \in SUBSET Nat
  BY DEF T
<1>4. T = Nat
  BY <1>1, <1>2, <1>3, FromZeroUp
<1>5. \A open \in SUBSET DOMAIN d : Free(d, open) \in T
  BY <1>4, FreeFacts
<1>6. ASSUME NEW open \in SUBSET DOMAIN d PROVE ViewTyped(v, d, open)
  <2>1. Free(d, open) \in T /\ Free(d, open) <= Free(d, open)
    BY <1>5, FreeFacts
  <2> QED
    BY <2>1 DEF T
<1> QED
  BY <1>6

-----------------------------------------------------------------------------
(* A strict document: the view shows what loading makes.                   *)
Matches(q, r) == ~Fails(q) /\ Shown(q.entries) = r.entries
MatchesBelow(v, t, i, on) ==
  \A j \in Nat : 0 < j /\ j < i => \A depth \in Depths : ~Fails(t[<<j, depth>>]) => Matches(v[<<on, j>>], t[<<j, depth>>])

(* The keys of a strict mapping are distinct, also when some are left out. *)
LEMMA WithoutDistinct ==
  ASSUME NEW E, NEW drop
  PROVE  \A es \in Seq(E) : Distinct(es) =>
           Distinct(Without(es, drop)) /\ \A k : HasKey(Without(es, drop), k) => HasKey(es, k)
<1> DEFINE Keeps(es) == /\ Distinct(Without(es, drop))
                        /\ \A k : HasKey(Without(es, drop), k) => HasKey(es, k)
           T == {es \in Seq(E) : Distinct(es) => Keeps(es)}
<1>1. <<>> \in T
  <2>1. <<>> \in Seq(E)
    BY EmptySeq
  <2>2. Without(<<>>, drop) = <<>>
    BY WithoutNone
  <2>3. Distinct(<<>>) /\ \A k : ~HasKey(<<>>, k)
    BY DEF Distinct, HasKey
  <2> QED
    BY <2>1, <2>2, <2>3
<1>2. ASSUME NEW es \in Seq(E), NEW e \in E, es \in T PROVE Append(es, e) \in T
  <2>1. PICK more : more = Append(es, e)
    OBVIOUS
  <2>2. /\ more \in Seq(E) /\ Len(es) \in Nat /\ DOMAIN es = 1 .. Len(es) /\ DOMAIN more = 1 .. Len(es) + 1
        /\ \A n \in DOMAIN es : more[n] = es[n]
        /\ more[Len(es) + 1] = e
    BY <2>1, AppendProperties, LenProperties
  <2>3. ASSUME Distinct(more) PROVE Keeps(more)
    <3>1. Distinct(es)
      BY <2>2, <2>3 DEF Distinct
    <3>2. ~HasKey(es, e.key)
      BY <2>2, <2>3 DEF Distinct, HasKey
    <3>3. PICK w : w = Without(es, drop)
      OBVIOUS
    <3>4. w \in Seq(E) /\ Distinct(w) /\ \A k : HasKey(w, k) => HasKey(es, k)
      BY <1>2, <3>1, <3>3, WithoutType
    <3>5. Without(more, drop) = IF Len(es) + 1 \in drop THEN w ELSE Append(w, e)
      BY <2>1, <3>3, WithoutNext
    <3>6. \A k : HasKey(es, k) => HasKey(more, k)
      BY <2>1, HasKeyAppend
    <3>7. HasKey(more, e.key)
      BY <2>1, HasKeyAppend
    <3>8. PICK x : x = Append(w, e)
      OBVIOUS
    <3>9. /\ Len(w) \in Nat /\ DOMAIN w = 1 .. Len(w) /\ DOMAIN x = 1 .. Len(w) + 1
          /\ \A n \in DOMAIN w : x[n] = w[n]
          /\ x[Len(w) + 1] = e
      BY <3>4, <3>8, AppendProperties, LenProperties
    <3>10. \A n \in DOMAIN w : w[n].key # e.key
      BY <3>2, <3>4 DEF HasKey
    <3>11. Distinct(x)
      BY <3>4, <3>9, <3>10 DEF Distinct
    <3>12. \A k : HasKey(x, k) => HasKey(w, k) \/ k = e.key
      BY <3>4, <3>8, HasKeyAppend
    <3>13. CASE Len(es) + 1 \in drop
      BY <3>4, <3>5, <3>6, <3>13
    <3>14. CASE Len(es) + 1 \notin drop
      <4>1. Without(more, drop) = x
        BY <3>5, <3>8, <3>14
      <4>2. \A k : HasKey(x, k) => HasKey(more, k)
        BY <3>4, <3>6, <3>7, <3>12
      <4> QED
        BY <3>11, <4>1, <4>2
    <3> QED
      BY <3>13, <3>14
  <2> QED
    BY <2>1, <2>2, <2>3
<1> HIDE DEF T
<1>3. \A es \in Seq(E) : es \in T
  BY <1>1, <1>2, AllSequences
<1> QED
  BY <1>3 DEF T

(* Of a mapping without repeated keys, some entries left out.              *)
LEMMA StrictDistinct ==
  ASSUME NEW d, Document(d), Unique("strict", d), NEW i \in DOMAIN d, NEW drop
  PROVE  LET w == Without(Entries(d, i), drop) IN
         w \in Seq(Placed) /\ Distinct(w) /\ Shown(w) = w /\ InsertMissing(<<>>, w) = w
<1>1. PICK es : es = Entries(d, i)
  OBVIOUS
<1>2. es \in Seq(Placed) /\ DOMAIN es = DOMAIN d[i] /\ \A p \in DOMAIN d[i] : es[p].key = d[i][p].key
  <2>1. Entries(d, i) \in Seq(Placed)
    BY EntriesType
  <2> QED
    BY <1>1, <2>1 DEF Entries, Own
<1>3. Distinct(es)
  BY <1>2 DEF Distinct, Unique
<1>4. PICK w : w = Without(es, drop)
  OBVIOUS
<1>5. w \in Seq(Placed)
  BY <1>2, <1>4, WithoutType
<1>6. Distinct(w)
  BY <1>2, <1>3, <1>4, WithoutDistinct
<1>7. Shown(w) = w /\ InsertMissing(<<>>, w) = w
  BY <1>5, <1>6, ShownDistinct
<1> QED
  BY <1>1, <1>4, <1>5, <1>6, <1>7

(* One key of the mapping gives entries, the others none.                  *)
MergesOnly(v, d, i, on, m, x) ==
  \A p \in DOMAIN d[i] : ViewedMerge(v, d[i][p], on) = IF p = m THEN Ok(x) ELSE Ok(<<>>)

(* The view of a mapping and what is merged into it.                       *)
LEMMA MergedIs ==
  ASSUME NEW d, Document(d), Inside(d), NEW i \in DOMAIN d, NEW v, NEW on, ViewTyped(v, d, on),
         NEW x \in Seq(Placed), NEW m, MergesOnly(v, d, i, on, m, x)
  PROVE  AddAll("extend", <<>>, Merged(v, d, i, on)) = Ok(IF m \in DOMAIN d[i] THEN x ELSE <<>>)
<1>1. PICK ms : ms = Merged(v, d, i, on)
  OBVIOUS
<1>2. ms \in Seq(Result) /\ DOMAIN ms = DOMAIN d[i]
      /\ \A p \in DOMAIN d[i] : ms[p] = ViewedMerge(v, d[i][p], on)
  BY <1>1, MergedType
<1>3. ms \in Seq(Results(Placed))
  BY <1>2 DEF Result
<1>4. \A p \in DOMAIN ms : ms[p] = IF p = m THEN Ok(x) ELSE Ok(<<>>)
  BY <1>2 DEF MergesOnly
<1>5. AddAll("extend", <<>>, ms) = IF m \in DOMAIN ms THEN Ok(x) ELSE Ok(<<>>)
  BY <1>3, <1>4, OneExtended
<1> QED
  BY <1>1, <1>2, <1>5

(* Its view: its own entries, and those.                                   *)
LEMMA ViewIs ==
  ASSUME NEW d, Document(d), Inside(d), NEW i \in DOMAIN d, NEW v, NEW open, i \notin open,
         NEW on, on = open \union {i}, ViewTyped(v, d, on), NEW x \in Seq(Placed), NEW m, MergesOnly(v, d, i, on, m, x)
  PROVE  ViewedEntries(v, d, i, open)
           = Ok(Without(Entries(d, i), Merges(d, i)) \o (IF m \in DOMAIN d[i] THEN x ELSE <<>>))
<1>1. PICK y : y = IF m \in DOMAIN d[i] THEN x ELSE <<>>
  OBVIOUS
<1>2. AddAll("extend", <<>>, Merged(v, d, i, on)) = Ok(y)
  BY <1>1, MergedIs
<1>3. ~Fails(Ok(y)) /\ Ok(y).entries = y
  BY DEF Fails, Ok
<1>4. ViewedEntries(v, d, i, open)
        = IF Fails(Ok(y)) THEN Ok(y) ELSE Ok(Without(Entries(d, i), Merges(d, i)) \o Ok(y).entries)
  BY <1>2 DEF ViewedEntries, Merged
<1> QED
  BY <1>1, <1>3, <1>4

(* What is shown of a mapping and of what is merged into it.               *)
LEMMA ShownConcat ==
  ASSUME NEW E, NEW w \in Seq(E), NEW x \in Seq(E), InsertMissing(<<>>, w) = w
  PROVE  Shown(w \o x) = InsertMissing(w, x)
<1>1. PICK none : none = <<>>
  OBVIOUS
<1>2. none \in Seq(E)
  BY <1>1, EmptySeq
<1>3. InsertMissing(none, w \o x) = InsertMissing(InsertMissing(none, w), x)
  BY <1>2, InsertMissingConcat
<1>4. w \o x \in Seq(E)
  BY ConcatProperties
<1>5. Shown(w \o x) = InsertMissing(<<>>, w \o x)
  BY <1>4, ShownIs
<1> QED
  BY <1>1, <1>3, <1>5

(* The items of a payload that loading accepted.                           *)
LEMMA PayloadMatches ==
  ASSUME NEW d, NEW i \in Nat, NEW t, NEW v, NEW on, ViewTyped(v, d, on), MatchesBelow(v, t, i, on),
         NEW depth \in Depths, NEW pay \in Shapes, Within(pay, d), Below(pay, i),
         NEW R, R = MergeSources(t, pay, depth), R \in Seq(Result), AllOk(R), NEW V, V = Items(v, pay, on)
  PROVE  V \in Seq(Results(Placed)) /\ AllOk(V) /\ Showing(V) = R
<1>1. V \in Seq(Result) /\ DOMAIN V = DOMAIN pay.refs
      /\ \A n \in DOMAIN pay.refs : V[n] = ViewedItem(v, pay.refs[n], on)
  BY ItemsType
<1>2. DOMAIN R = DOMAIN pay.refs
      /\ \A n \in DOMAIN pay.refs : R[n] = MergeSource(t, pay.refs[n], depth)
  BY DEF MergeSources
<1>3. ASSUME NEW n \in DOMAIN pay.refs
      PROVE  Matches(V[n], R[n])
  <2>1. R[n] = MergeSource(t, pay.refs[n], depth) /\ ~Fails(R[n])
    BY <1>2 DEF AllOk
  <2>2. PICK j : j = pay.refs[n]
    OBVIOUS
  <2>3. j # 0
    BY <2>1, <2>2 DEF MergeSource, Fails, Err
  <2>4. j \in Nat /\ 0 < j /\ j < i
    <3>1. j \in Nat
      BY <2>2, ShapeFacts
    <3> QED
      BY <2>2, <2>3, <3>1 DEF Below
  <2>5. R[n] = t[<<j, depth>>] /\ V[n] = v[<<on, j>>]
    BY <1>1, <2>1, <2>2, <2>3 DEF MergeSource, ViewedItem
  <2> QED
    BY <2>1, <2>4, <2>5 DEF MatchesBelow
<1>4. AllOk(V)
  BY <1>1, <1>3 DEF AllOk, Matches
<1>5. Showing(V) = R
  <2>1. DOMAIN R = DOMAIN V /\ R = [n \in DOMAIN V |-> R[n]]
    BY <1>1, <1>2 DEF MergeSources
  <2>2. \A n \in DOMAIN R : R[n] \in Results(Placed)
    <3>1. \A n \in DOMAIN R : R[n] \in Result
      BY ElementOfSeq, LenProperties
    <3> QED
      BY <3>1 DEF Result
  <2>3. \A n \in DOMAIN V : R[n] = Ok(R[n].entries)
    BY <2>1, <2>2, OkIs DEF AllOk
  <2>4. \A n \in DOMAIN V : R[n] = Ok(Shown(V[n].entries))
    BY <1>1, <1>3, <2>3 DEF Matches
  <2> QED
    BY <2>1, <2>4 DEF Showing
<1> QED
  BY <1>1, <1>4, <1>5 DEF Result

(* The view of one mapping, where those before it are right.               *)
LEMMA ViewMatches ==
  ASSUME NEW d, Document(d), Inside(d), Backward(d), Unique("strict", d), NEW i \in DOMAIN d, NEW depth \in Depths,
         NEW t, TypedBelow(t, i), NEW r, r = StrictEntries(t, d, i, depth), ~Fails(r),
         NEW v, NEW open, i \notin open, NEW on, on = open \union {i}, ViewTyped(v, d, on), MatchesBelow(v, t, i, on)
  PROVE  Matches(ViewedEntries(v, d, i, open), r)
<1>1. PICK w : w = Without(Entries(d, i), Merges(d, i))
  OBVIOUS
<1>2. w \in Seq(Placed) /\ Shown(w) = w /\ InsertMissing(<<>>, w) = w
  BY <1>1, StrictDistinct
<1>3. CASE Merges(d, i) = {}
  <2>1. PICK none : none = <<>>
    OBVIOUS
  <2>2. none \in Seq(Placed)
    BY <2>1, EmptySeq
  <2>3. PICK m : m = Len(d[i]) + 1
    OBVIOUS
  <2>4. m \notin DOMAIN d[i]
    <3>1. DOMAIN d[i] = 1 .. Len(d[i]) /\ Len(d[i]) \in Nat
      BY EntryOfDocument
    <3> QED
      BY <2>3, <3>1
  <2>5. MergesOnly(v, d, i, on, m, none)
    <3>1. \A p \in DOMAIN d[i] : d[i][p].key # MergeKey
      BY <1>3 DEF Merges
    <3>2. \A p \in DOMAIN d[i] : ViewedMerge(v, d[i][p], on) = Ok(<<>>)
      BY <3>1 DEF ViewedMerge
    <3> QED
      BY <2>1, <3>2 DEF MergesOnly
  <2>6. ViewedEntries(v, d, i, open) = Ok(w \o (IF m \in DOMAIN d[i] THEN none ELSE <<>>))
    BY <1>1, <2>2, <2>5, ViewIs
  <2>7. w \o <<>> = w
    BY <1>2, ConcatEmptySeq
  <2>8. ViewedEntries(v, d, i, open) = Ok(w)
    BY <2>4, <2>6, <2>7
  <2>9. w = Entries(d, i)
    <3>1. Entries(d, i) \in Seq(Placed)
      BY EntriesType
    <3>2. \A n \in DOMAIN Entries(d, i) : n \notin Merges(d, i)
      BY <1>3
    <3> QED
      BY <1>1, <3>1, <3>2, WithoutNothing
  <2>10. r = Ok(w)
    BY <1>3, <2>9 DEF StrictEntries
  <2> QED
    BY <1>2, <2>8, <2>10 DEF Matches, Ok, Fails
<1>4. CASE Merges(d, i) # {}
  <2>1. PICK m : m = FirstMerge(d, i)
    OBVIOUS
  <2>2. PICK pay : pay = d[i][m].pay
    OBVIOUS
  <2>3. PICK R : R = MergeSources(t, pay, depth + 1)
    OBVIOUS
  <2>4. PICK one : one = Without(Entries(d, i), {m})
    OBVIOUS
  <2>5. /\ m \in DOMAIN d[i] /\ d[i][m].key = MergeKey /\ pay \in Shapes /\ Below(pay, i)
        /\ pay.kind \in {"map", "seq"} /\ depth + 1 \in Depths
        /\ R \in Seq(Result) /\ AllOk(R) /\ r = AddAll("missing", one, R)
    BY <1>4, <2>1, <2>2, <2>3, <2>4, StrictMerges
  <2>6. Merges(d, i) = {m}
    BY <2>5 DEF Merges, Unique
  <2>7. r = AddAll("missing", w, R)
    BY <1>1, <2>4, <2>5, <2>6
  <2>8. Within(pay, d)
    BY <2>2, <2>5 DEF Inside
  <2>9. PICK V : V = Items(v, pay, on)
    OBVIOUS
  <2>10. V \in Seq(Results(Placed)) /\ AllOk(V) /\ Showing(V) = R
    <3>1. i \in Nat
      BY EntryOfDocument
    <3> QED
      BY <2>3, <2>5, <2>8, <2>9, <3>1, PayloadMatches
  <2>11. PICK x : x = AddAll("extend", <<>>, V).entries
    OBVIOUS
  <2>12. r = Ok(InsertMissing(w, x))
    BY <1>2, <2>7, <2>10, <2>11, ShownTogether
  <2>13. AddAll("extend", <<>>, V) = Ok(x) /\ x \in Seq(Placed)
    <3>1. PICK none : none = <<>>
      OBVIOUS
    <3>2. none \in Seq(Placed) /\ "extend" \in Ways
      BY <3>1, EmptySeq DEF Ways
    <3>3. PICK e : e = AddAll("extend", none, V)
      OBVIOUS
    <3>4. e \in Results(Placed)
      BY <2>10, <3>2, <3>3, AddAllType
    <3>5. ~Fails(e)
      BY <2>10, <3>3, AddAllFails
    <3>6. e = Ok(e.entries) /\ e.entries \in Seq(Placed)
      BY <3>4, <3>5, OkIs
    <3> QED
      BY <2>11, <3>1, <3>3, <3>6
  <2>14. MergesOnly(v, d, i, on, m, x)
    <3>1. ViewedMerge(v, d[i][m], on) = Ok(x)
      BY <2>2, <2>5, <2>9, <2>13 DEF ViewedMerge, Items
    <3>2. \A p \in DOMAIN d[i] : p # m => d[i][p].key # MergeKey
      BY <2>6 DEF Merges
    <3>3. \A p \in DOMAIN d[i] : p # m => ViewedMerge(v, d[i][p], on) = Ok(<<>>)
      BY <3>2 DEF ViewedMerge
    <3> QED
      BY <3>1, <3>3 DEF MergesOnly
  <2>15. ViewedEntries(v, d, i, open) = Ok(w \o (IF m \in DOMAIN d[i] THEN x ELSE <<>>))
    BY <1>1, <2>13, <2>14, ViewIs
  <2>16. ViewedEntries(v, d, i, open) = Ok(w \o x)
    BY <2>5, <2>15
  <2>17. Shown(w \o x) = InsertMissing(w, x)
    BY <1>2, <2>13, ShownConcat
  <2> QED
    BY <2>12, <2>16, <2>17 DEF Matches, Ok, Fails
<1> QED
  BY <1>3, <1>4

(* Hence of every mapping.                                                 *)
Ahead(open, i) == \A j \in open : i < j
MatchesUpTo(d, v, t, n) ==
  \A i \in DOMAIN d : i <= n => \A depth \in Depths : ~Fails(t[<<i, depth>>]) =>
    \A open \in SUBSET DOMAIN d : Ahead(open, i) => Matches(v[<<open, i>>], t[<<i, depth>>])

(* By induction on the mappings, with those after them on the stack.       *)
LEMMA ViewsMatch ==
  ASSUME NEW d, Document(d), Inside(d), Backward(d), Unique("strict", d), NEW t, Solves("strict", d, t),
         NEW v, Views(d, v)
  PROVE  \A i \in DOMAIN d : ~Fails(t[<<i, 0>>]) => Matches(v[<<{}, i>>], t[<<i, 0>>])
<1> DEFINE T == {n \in Nat : MatchesUpTo(d, v, t, n)}
<1>1. 0 \in T
  BY EntryOfDocument DEF MatchesUpTo
<1>2. ASSUME NEW n \in T PROVE n + 1 \in T
  <2>1. ASSUME NEW i \in DOMAIN d, i <= n + 1, NEW depth \in Depths, ~Fails(t[<<i, depth>>]),
               NEW open \in SUBSET DOMAIN d, Ahead(open, i)
        PROVE  Matches(v[<<open, i>>], t[<<i, depth>>])
    <3>1. i \in Nat /\ n \in Nat /\ DOMAIN d = 1 .. Len(d) /\ Len(d) \in Nat
      BY <1>2, EntryOfDocument
    <3>2. i \notin open
      BY <2>1, <3>1 DEF Ahead
    <3>3. PICK on : on = open \union {i}
      OBVIOUS
    <3>4. on \in SUBSET DOMAIN d
      BY <3>3
    <3>5. ViewTyped(v, d, on)
      BY <3>4, ViewsType
    <3>6. TypedBelow(t, i)
      BY SolutionType
    <3>7. ASSUME NEW j \in Nat, 0 < j, j < i, NEW deep \in Depths, ~Fails(t[<<j, deep>>])
          PROVE  Matches(v[<<on, j>>], t[<<j, deep>>])
      <4>1. j \in DOMAIN d /\ j <= n
        BY <2>1, <3>1, <3>7
      <4>2. \A k \in on : k \in Nat /\ i <= k
        BY <2>1, <3>1, <3>3 DEF Ahead
      <4>3. Ahead(on, j)
        BY <3>1, <3>7, <4>2 DEF Ahead
      <4> QED
        BY <1>2, <3>4, <3>7, <4>1, <4>3 DEF MatchesUpTo
    <3>8. MatchesBelow(v, t, i, on)
      BY <3>7 DEF MatchesBelow
    <3>9. t[<<i, depth>>] = StrictEntries(t, d, i, depth)
      BY DEF Solves, ExpandedEntries
    <3>10. v[<<open, i>>] = ViewedEntries(v, d, i, open)
      BY DEF Views
    <3> QED
      BY <2>1, <3>2, <3>3, <3>5, <3>6, <3>8, <3>9, <3>10, ViewMatches
  <2> QED
    BY <1>2, <2>1 DEF MatchesUpTo
<1> HIDE DEF T
<1>3. T \in SUBSET Nat
  BY DEF T
<1>4. T = Nat
  BY <1>1, <1>2, <1>3, FromZeroUp
<1>5. ASSUME NEW i \in DOMAIN d, ~Fails(t[<<i, 0>>]) PROVE Matches(v[<<{}, i>>], t[<<i, 0>>])
  <2>1. i \in T /\ i <= i
    BY <1>4, EntryOfDocument
  <2>2. MatchesUpTo(d, v, t, i)
    BY <2>1 DEF T
  <2>3. 0 \in Depths
    BY MergeKeysAssumption DEF Depths
  <2>4. {} \in SUBSET DOMAIN d /\ Ahead({}, i)
    BY DEF Ahead
  <2> QED
    BY <1>5, <2>1, <2>2, <2>3, <2>4 DEF MatchesUpTo
<1> QED
  BY <1>5

-----------------------------------------------------------------------------
(* What chains of merges lead to: the least set that has some mappings and *)
(* with each mapping those it merges.                                      *)
Growing(links, ids, n, f) == f = [k \in 0 .. n |-> IF k = 0 THEN ids ELSE Further(links, f[k - 1])]
Closed(links, C) == \A l \in links : l[1] \in C => l[2] \in C

(* The loop of Reached exists, for any number of rounds.                   *)
LEMMA GrowingExists ==
  ASSUME NEW links, NEW ids
  PROVE  \A n \in Nat : \E f : Growing(links, ids, n, f)
<1> DEFINE T == {n \in Nat : \E f : Growing(links, ids, n, f)}
<1>1. 0 \in T
  <2>1. Growing(links, ids, 0, [k \in 0 .. 0 |-> ids])
    BY DEF Growing
  <2> QED
    BY <2>1
<1>2. ASSUME NEW n \in T PROVE n + 1 \in T
  <2>1. PICK f : Growing(links, ids, n, f)
    BY <1>2
  <2>2. PICK g : g = [k \in 0 .. n + 1 |-> IF k <= n THEN f[k] ELSE Further(links, f[n])]
    OBVIOUS
  <2>3. ASSUME NEW k \in 0 .. n + 1
        PROVE  g[k] = IF k = 0 THEN ids ELSE Further(links, g[k - 1])
    <3>1. CASE k <= n
      <4>1. k \in 0 .. n /\ (k # 0 => k - 1 \in 0 .. n + 1 /\ k - 1 <= n)
        BY <1>2, <2>3, <3>1
      <4>2. f[k] = IF k = 0 THEN ids ELSE Further(links, f[k - 1])
        BY <2>1, <4>1 DEF Growing
      <4> QED
        BY <2>2, <3>1, <4>1, <4>2
    <3>2. CASE ~(k <= n)
      <4>1. k = n + 1 /\ k # 0 /\ k - 1 = n /\ n \in 0 .. n + 1 /\ n <= n
        BY <1>2, <2>3, <3>2
      <4> QED
        BY <2>2, <3>2, <4>1
    <3> QED
      BY <3>1, <3>2
  <2>4. Growing(links, ids, n + 1, g)
    BY <2>2, <2>3 DEF Growing
  <2> QED
    BY <1>2, <2>4
<1> HIDE DEF T
<1>3. T = Nat
  BY <1>1, <1>2, FromZeroUp DEF T
<1> QED
  BY <1>3 DEF T

(* Reached is the last round of its loop, one for every mapping.           *)
LEMMA ReachedIs ==
  ASSUME NEW d, Document(d), NEW links, NEW ids
  PROVE  \E f : /\ Reached(d, links, ids) = f[Len(d)]
                /\ f[0] = ids
                /\ \A k \in Nat : k < Len(d) => f[k + 1] = Further(links, f[k])
<1> DEFINE g == CHOOSE f : Growing(links, ids, Len(d), f)
<1>1. Len(d) \in Nat
  BY LenProperties DEF Document
<1>2. Growing(links, ids, Len(d), g)
  BY <1>1, GrowingExists
<1>3. Reached(d, links, ids) = g[Len(d)]
  BY DEF Reached, Growing
<1> HIDE DEF g
<1>4. g[0] = ids
  BY <1>1, <1>2 DEF Growing
<1>5. ASSUME NEW k \in Nat, k < Len(d) PROVE g[k + 1] = Further(links, g[k])
  <2>1. k + 1 \in 0 .. Len(d) /\ k + 1 # 0 /\ (k + 1) - 1 = k
    BY <1>1, <1>5
  <2> QED
    BY <1>2, <2>1 DEF Growing
<1> QED
  BY <1>3, <1>4, <1>5

(* One round more adds nothing to a closed set, and leads out of no closed *)
(* set.                                                                    *)
LEMMA FurtherFacts ==
  ASSUME NEW links, NEW ids
  PROVE  /\ ids \subseteq Further(links, ids)
         /\ Further(links, ids) = ids => Closed(links, ids)
         /\ Closed(links, ids) => Further(links, ids) = ids
         /\ \A C : Closed(links, C) /\ ids \subseteq C => Further(links, ids) \subseteq C
BY DEF Further, Closed

Grown(d, links, f, k) ==
  /\ f[0] \subseteq f[k] /\ f[k] \subseteq DOMAIN d
  /\ Closed(links, f[k]) \/ Cardinality(f[k]) >= k

(* A round that is not closed has as many mappings as rounds went by.      *)
LEMMA RoundsGrow ==
  ASSUME NEW d, Document(d), NEW links, links \subseteq (DOMAIN d) \X (DOMAIN d),
         NEW f, f[0] \subseteq DOMAIN d,
         \A k \in Nat : k < Len(d) => f[k + 1] = Further(links, f[k])
  PROVE  \A k \in Nat : k <= Len(d) => Grown(d, links, f, k)
<1> DEFINE T == {k \in Nat : k <= Len(d) => Grown(d, links, f, k)}
<1>1. Len(d) \in Nat /\ DOMAIN d = 1 .. Len(d)
  BY LenProperties DEF Document
<1>2. IsFiniteSet(DOMAIN d)
  BY <1>1, FS_Interval
<1>3. \A C \in SUBSET DOMAIN d : IsFiniteSet(C) /\ Cardinality(C) \in Nat
  BY <1>2, FS_Subset, FS_CardinalityType
<1>4. 0 \in T
  <2>1. Cardinality(f[0]) >= 0
    BY <1>3
  <2> QED
    BY <2>1 DEF Grown
<1>5. ASSUME NEW k \in T PROVE k + 1 \in T
  <2>1. SUFFICES ASSUME k + 1 <= Len(d) PROVE Grown(d, links, f, k + 1)
    BY <1>5
  <2>2. k \in Nat /\ k < Len(d) /\ Grown(d, links, f, k)
    BY <1>1, <1>5, <2>1
  <2>3. f[0] \subseteq f[k] /\ f[k] \subseteq DOMAIN d /\ (Closed(links, f[k]) \/ Cardinality(f[k]) >= k)
    BY <2>2 DEF Grown
  <2>4. f[k + 1] = Further(links, f[k])
    BY <2>2
  <2>5. Closed(links, DOMAIN d)
    BY DEF Closed
  <2>6. f[k] \subseteq f[k + 1] /\ f[k + 1] \subseteq DOMAIN d
    BY <2>4, <2>5, <2>3, FurtherFacts
  <2>7. CASE f[k + 1] = f[k]
    <3>1. Closed(links, f[k + 1])
      BY <2>4, <2>7, FurtherFacts
    <3> QED
      BY <2>6, <2>3, <3>1 DEF Grown
  <2>8. CASE f[k + 1] # f[k]
    <3>1. ~Closed(links, f[k])
      BY <2>4, <2>8, FurtherFacts
    <3>2. Cardinality(f[k]) >= k
      BY <2>3, <3>1
    <3>3. Cardinality(f[k]) # Cardinality(f[k + 1]) /\ Cardinality(f[k]) <= Cardinality(f[k + 1])
      BY <1>2, <1>3, <2>6, <2>8, FS_Subset
    <3>4. Cardinality(f[k + 1]) >= k + 1
      BY <1>3, <2>2, <2>6, <2>3, <3>2, <3>3
    <3> QED
      BY <2>6, <2>3, <3>4 DEF Grown
  <2> QED
    BY <2>7, <2>8
<1> HIDE DEF T
<1>6. T \in SUBSET Nat
  BY DEF T
<1>7. T = Nat
  BY <1>4, <1>5, <1>6, FromZeroUp
<1> QED
  BY <1>7 DEF T

(* Rounds lead out of no closed set.                                       *)
LEMMA RoundsStay ==
  ASSUME NEW n \in Nat, NEW links, NEW f, \A k \in Nat : k < n => f[k + 1] = Further(links, f[k]),
         NEW C, f[0] \subseteq C, Closed(links, C)
  PROVE  f[n] \subseteq C
<1> DEFINE T == {k \in Nat : k <= n => f[k] \subseteq C}
<1>1. 0 \in T
  OBVIOUS
<1>2. ASSUME NEW k \in T PROVE k + 1 \in T
  <2>1. SUFFICES ASSUME k + 1 <= n PROVE f[k + 1] \subseteq C
    BY <1>2
  <2>2. k \in Nat /\ k < n /\ f[k] \subseteq C
    BY <1>2, <2>1
  <2> QED
    BY <2>2, FurtherFacts
<1> HIDE DEF T
<1>3. T \in SUBSET Nat
  BY DEF T
<1>4. T = Nat
  BY <1>1, <1>2, <1>3, FromZeroUp
<1>5. n \in T /\ n <= n
  BY <1>4
<1> QED
  BY <1>5 DEF T

(* Reached is the least closed set; after as many rounds as there are      *)
(* mappings there is nothing left to add.                                  *)
LEMMA ReachedLeast ==
  ASSUME NEW d, Document(d), NEW links, links \subseteq (DOMAIN d) \X (DOMAIN d),
         NEW ids, ids \subseteq DOMAIN d
  PROVE  /\ ids \subseteq Reached(d, links, ids)
         /\ Reached(d, links, ids) \subseteq DOMAIN d
         /\ Closed(links, Reached(d, links, ids))
         /\ \A C : ids \subseteq C /\ Closed(links, C) => Reached(d, links, ids) \subseteq C
<1>1. Len(d) \in Nat /\ DOMAIN d = 1 .. Len(d)
  BY LenProperties DEF Document
<1>2. PICK f : /\ Reached(d, links, ids) = f[Len(d)]
               /\ f[0] = ids
               /\ \A k \in Nat : k < Len(d) => f[k + 1] = Further(links, f[k])
  BY ReachedIs
<1>3. PICK last : last = f[Len(d)]
  OBVIOUS
<1>4. /\ f[0] \subseteq last /\ last \subseteq DOMAIN d
      /\ Closed(links, last) \/ Cardinality(last) >= Len(d)
  <2>1. f[0] \subseteq DOMAIN d
    BY <1>2
  <2>2. \A k \in Nat : k < Len(d) => f[k + 1] = Further(links, f[k])
    BY <1>2
  <2>3. \A k \in Nat : k <= Len(d) => Grown(d, links, f, k)
    BY <2>1, <2>2, RoundsGrow
  <2>4. Grown(d, links, f, Len(d))
    BY <1>1, <2>3
  <2>5. /\ f[0] \subseteq f[Len(d)] /\ f[Len(d)] \subseteq DOMAIN d
        /\ Closed(links, f[Len(d)]) \/ Cardinality(f[Len(d)]) >= Len(d)
    BY <2>4 DEF Grown
  <2> QED
    BY <1>3, <2>5, Zenon
<1>5. Closed(links, last)
  <2>1. SUFFICES ASSUME Cardinality(last) >= Len(d) PROVE Closed(links, last)
    BY <1>4
  <2>2. IsFiniteSet(DOMAIN d) /\ Cardinality(DOMAIN d) = Len(d)
    <3>1. \A n \in Nat : IsFiniteSet(1 .. n) /\ Cardinality(1 .. n) = n
      BY FS_Interval
    <3> QED
      BY <1>1, <3>1
  <2>3. Cardinality(last) <= Cardinality(DOMAIN d) /\ Cardinality(last) \in Nat
    BY <1>4, <2>2, FS_Subset, FS_CardinalityType
  <2>4. Cardinality(last) = Cardinality(DOMAIN d)
    BY <1>1, <2>1, <2>2, <2>3
  <2>5. last = DOMAIN d
    BY <1>4, <2>2, <2>4, FS_Subset
  <2> QED
    BY <2>5 DEF Closed
<1>6. \A C : ids \subseteq C /\ Closed(links, C) => last \subseteq C
  BY <1>1, <1>2, <1>3, RoundsStay
<1> QED
  BY <1>2, <1>3, <1>4, <1>5, <1>6

From(d, links, i) == Reached(d, links, {i})
After(links, i)   == {l[2] : l \in {x \in links : x[1] = i}}

(* A mapping leads to itself and to what those it merges lead to.          *)
LEMMA ChainsGoOn ==
  ASSUME NEW d, Document(d), NEW links, links \subseteq (DOMAIN d) \X (DOMAIN d), NEW i \in DOMAIN d
  PROVE  /\ i \in From(d, links, i)
         /\ \A j \in After(links, i) : /\ j \in DOMAIN d
                                       /\ From(d, links, j) \subseteq From(d, links, i)
                                       /\ From(d, links, j) \subseteq Reached(d, links, After(links, i))
         /\ \A x \in From(d, links, i) : x = i \/ \E j \in After(links, i) : x \in From(d, links, j)
         /\ \A x \in Reached(d, links, After(links, i)) : \E j \in After(links, i) : x \in From(d, links, j)
<1>1. PICK next : next = After(links, i)
  OBVIOUS
<1>2. \A j \in next : <<i, j>> \in links /\ j \in DOMAIN d
  <2>1. ASSUME NEW j \in next PROVE <<i, j>> \in links /\ j \in DOMAIN d
    <3>1. PICK l \in links : l[1] = i /\ l[2] = j
      BY <1>1, <2>1 DEF After
    <3>2. l \in (DOMAIN d) \X (DOMAIN d)
      OBVIOUS
    <3>3. l = <<l[1], l[2]>> /\ l[2] \in DOMAIN d
      BY <3>2
    <3> QED
      BY <3>1, <3>3
  <2> QED
    BY <2>1
<1>3. PICK R : R = [j \in DOMAIN d |-> From(d, links, j)]
  OBVIOUS
<1>4. \A j \in DOMAIN d : j \in R[j] /\ Closed(links, R[j])
  BY <1>3, ReachedLeast DEF From
<1>5. \A j \in DOMAIN d : \A C : j \in C /\ Closed(links, C) => R[j] \subseteq C
  BY <1>3, ReachedLeast DEF From
<1>6. PICK all : all = Reached(d, links, next)
  OBVIOUS
<1>7. next \subseteq all /\ Closed(links, all) /\ \A C : next \subseteq C /\ Closed(links, C) => all \subseteq C
  BY <1>2, <1>6, ReachedLeast
<1>8. \A j \in next : j \in R[i]
  <2>1. ASSUME NEW j \in next PROVE j \in R[i]
    <3>1. <<i, j>> \in links /\ <<i, j>>[1] \in R[i]
      BY <1>2, <1>4, <2>1
    <3>2. <<i, j>>[2] \in R[i]
      BY <1>4, <3>1 DEF Closed
    <3> QED
      BY <3>2
  <2> QED
    BY <2>1
<1>9. \A j \in next : R[j] \subseteq R[i] /\ R[j] \subseteq all
  BY <1>2, <1>4, <1>5, <1>7, <1>8
<1>10. PICK union : union = {x \in DOMAIN d : \E j \in next : x \in R[j]}
  OBVIOUS
<1>11. \A j \in next : R[j] \subseteq union
  <2>1. Closed(links, DOMAIN d)
    BY DEF Closed
  <2>2. \A j \in DOMAIN d : R[j] \subseteq DOMAIN d
    BY <1>5, <2>1
  <2> QED
    BY <1>2, <1>10, <2>2
<1>12. Closed(links, union)
  <2>1. ASSUME NEW l \in links, l[1] \in union PROVE l[2] \in union
    <3>1. PICK j \in next : l[1] \in R[j]
      BY <1>10, <2>1
    <3>2. l[2] \in R[j]
      BY <1>2, <1>4, <2>1, <3>1 DEF Closed
    <3> QED
      BY <1>11, <3>1, <3>2
  <2> QED
    BY <2>1 DEF Closed
<1>13. next \subseteq union
  BY <1>2, <1>4, <1>11
<1>14. all \subseteq union
  BY <1>7, <1>12, <1>13
<1>15. Closed(links, union \union {i})
  <2>1. ASSUME NEW l \in links, l[1] \in union \union {i} PROVE l[2] \in union \union {i}
    <3>1. CASE l[1] = i
      <4>1. l[2] \in next
        BY <1>1, <2>1, <3>1 DEF After
      <4> QED
        BY <1>13, <4>1
    <3>2. CASE l[1] # i
      BY <1>12, <2>1, <3>2 DEF Closed
    <3> QED
      BY <3>1, <3>2
  <2> QED
    BY <2>1 DEF Closed
<1>16. R[i] \subseteq union \union {i}
  BY <1>5, <1>15
<1>17. \A x \in union : \E j \in next : x \in R[j]
  BY <1>10
<1>18. \A j \in DOMAIN d : R[j] = From(d, links, j)
  BY <1>3
<1>19. \A j \in next : j \in DOMAIN d /\ R[j] = From(d, links, j)
  BY <1>2, <1>18
<1>20. /\ i \in R[i]
       /\ \A j \in next : j \in DOMAIN d /\ From(d, links, j) \subseteq R[i] /\ From(d, links, j) \subseteq all
       /\ \A x \in R[i] : x = i \/ \E j \in next : x \in From(d, links, j)
       /\ \A x \in all : \E j \in next : x \in From(d, links, j)
  BY <1>4, <1>9, <1>14, <1>16, <1>17, <1>19
<1> QED
  BY <1>1, <1>6, <1>18, <1>20

-----------------------------------------------------------------------------
(* A view is refused where the merges lead to a scalar, or back.           *)
ViewLinks(d)   == Links("events", d)
Stops(d)       == Unviewable(d, ViewLinks(d))
Hit(d, open, i) == \E x \in From(d, ViewLinks(d), i) : x \in open \/ x \in Stops(d)

(* The mappings a mapping merges.                                          *)
LEMMA AfterIs ==
  ASSUME NEW d, NEW i \in DOMAIN d
  PROVE  /\ ViewLinks(d) \subseteq (DOMAIN d) \X (DOMAIN d)
         /\ \A j : j \in After(ViewLinks(d), i) <=>
              j \in DOMAIN d /\ \E p \in DOMAIN d[i] : d[i][p].key = MergeKey /\ Refers(d[i][p].pay, j)
<1>1. PICK links : links = ViewLinks(d)
  OBVIOUS
<1>2. links = {l \in (DOMAIN d) \X (DOMAIN d) :
                 \E p \in DOMAIN d[l[1]] : d[l[1]][p].key = MergeKey /\ Refers(d[l[1]][p].pay, l[2])}
  BY <1>1 DEF ViewLinks, Links, Merging
<1>3. ASSUME NEW j
      PROVE  j \in After(links, i) <=>
               j \in DOMAIN d /\ \E p \in DOMAIN d[i] : d[i][p].key = MergeKey /\ Refers(d[i][p].pay, j)
  <2>1. ASSUME j \in After(links, i)
        PROVE  j \in DOMAIN d /\ \E p \in DOMAIN d[i] : d[i][p].key = MergeKey /\ Refers(d[i][p].pay, j)
    <3>1. PICK l \in links : l[1] = i /\ l[2] = j
      BY <2>1 DEF After
    <3> QED
      BY <1>2, <3>1
  <2>2. ASSUME j \in DOMAIN d, NEW p \in DOMAIN d[i], d[i][p].key = MergeKey, Refers(d[i][p].pay, j)
        PROVE  j \in After(links, i)
    <3>1. PICK l : l = <<i, j>>
      OBVIOUS
    <3>2. l \in (DOMAIN d) \X (DOMAIN d) /\ l[1] = i /\ l[2] = j
      BY <2>2, <3>1
    <3>3. l \in links
      BY <1>2, <2>2, <3>2
    <3> QED
      BY <3>2, <3>3 DEF After
  <2> QED
    BY <2>1, <2>2
<1>4. links \subseteq (DOMAIN d) \X (DOMAIN d)
  BY <1>2
<1> QED
  BY <1>1, <1>3, <1>4

(* With a mapping on the stack, a cycle is met when it comes round.        *)
LEMMA HitIs ==
  ASSUME NEW d, Document(d), NEW i \in DOMAIN d, NEW open, i \notin open
  PROVE  Hit(d, open, i) <=> \/ MergesScalar(d, i)
                             \/ \E j \in After(ViewLinks(d), i) : Hit(d, open \union {i}, j)
<1>1. PICK links : links = ViewLinks(d)
  OBVIOUS
<1>2. links \subseteq (DOMAIN d) \X (DOMAIN d)
  BY <1>1, AfterIs
<1>3. PICK next : next = After(links, i)
  OBVIOUS
<1>4. PICK on : on = open \union {i}
  OBVIOUS
<1>5. PICK all : all = Reached(d, links, next)
  OBVIOUS
<1>6. PICK R : R = [j \in DOMAIN d |-> From(d, links, j)]
  OBVIOUS
<1>7. /\ i \in From(d, links, i)
      /\ \A j \in next : j \in DOMAIN d /\ From(d, links, j) \subseteq From(d, links, i)
                                        /\ From(d, links, j) \subseteq all
      /\ \A x \in From(d, links, i) : x = i \/ \E j \in next : x \in From(d, links, j)
      /\ \A x \in all : \E j \in next : x \in From(d, links, j)
  BY <1>2, <1>3, <1>5, ChainsGoOn
<1>8. \A j \in next : j \in DOMAIN d /\ R[j] = From(d, links, j)
  BY <1>6, <1>7
<1>9. /\ i \in R[i]
      /\ \A j \in next : R[j] \subseteq R[i] /\ R[j] \subseteq all
      /\ \A x \in R[i] : x = i \/ \E j \in next : x \in R[j]
      /\ \A x \in all : \E j \in next : x \in R[j]
  BY <1>6, <1>7, <1>8
<1>10. PICK stops : stops = Stops(d)
  OBVIOUS
<1>11. i \in stops <=> i \in all \/ MergesScalar(d, i)
  BY <1>1, <1>3, <1>5, <1>10 DEF Stops, Unviewable, Cyclic, After
<1>12. Hit(d, open, i) <=> \E x \in R[i] : x \in open \/ x \in stops
  BY <1>1, <1>6, <1>10 DEF Hit
<1>13. \A j \in next : Hit(d, on, j) <=> \E x \in R[j] : x \in on \/ x \in stops
  BY <1>1, <1>8, <1>10 DEF Hit
<1>14. ASSUME Hit(d, open, i), ~MergesScalar(d, i) PROVE \E j \in next : Hit(d, on, j)
  <2>1. PICK x \in R[i] : x \in open \/ x \in stops
    BY <1>12, <1>14
  <2>2. PICK j \in next : x \in R[j]
    <3>1. CASE x = i
      <4>1. i \in all
        BY <1>11, <1>14, <2>1, <3>1
      <4> QED
        BY <1>9, <3>1, <4>1
    <3>2. CASE x # i
      BY <1>9, <3>2
    <3> QED
      BY <3>1, <3>2
  <2>3. x \in on \/ x \in stops
    BY <1>4, <2>1
  <2> QED
    BY <1>13, <2>2, <2>3
<1>15. ASSUME NEW j \in next, Hit(d, on, j) PROVE Hit(d, open, i)
  <2>1. PICK x \in R[j] : x \in on \/ x \in stops
    BY <1>13, <1>15
  <2>2. x \in R[i] /\ x \in all
    BY <1>9, <2>1
  <2>3. x \in open \/ x \in stops
    BY <1>4, <1>11, <2>1, <2>2
  <2> QED
    BY <1>12, <2>2, <2>3
<1>16. MergesScalar(d, i) => Hit(d, open, i)
  BY <1>9, <1>11, <1>12
<1>17. Hit(d, open, i) <=> MergesScalar(d, i) \/ \E j \in next : Hit(d, on, j)
  BY <1>14, <1>15, <1>16
<1> QED
  BY <1>1, <1>3, <1>4, <1>17

(* The view of a mapping that is not on the stack fails so too.            *)
LEMMA ViewedFails ==
  ASSUME NEW d, Document(d), Inside(d), NEW v, Views(d, v), NEW open \in SUBSET DOMAIN d,
         NEW i \in DOMAIN d, i \notin open
  PROVE  Fails(v[<<open, i>>]) <=>
           \/ MergesScalar(d, i)
           \/ \E j \in After(ViewLinks(d), i) : Fails(v[<<open \union {i}, j>>])
<1>1. PICK on : on = open \union {i}
  OBVIOUS
<1>2. PICK next : next = After(ViewLinks(d), i)
  OBVIOUS
<1>3. ViewTyped(v, d, on)
  BY <1>1, ViewsType
<1>4. Fails(v[<<open, i>>]) <=> \E p \in DOMAIN d[i] : Fails(ViewedMerge(v, d[i][p], on))
  <2>1. v[<<open, i>>] = ViewedEntries(v, d, i, open)
    BY DEF Views
  <2>2. i \notin open => ViewTyped(v, d, open \union {i})
    BY <1>1, <1>3
  <2>3. Fails(ViewedEntries(v, d, i, open)) <=>
          i \in open \/ \E p \in DOMAIN d[i] : Fails(ViewedMerge(v, d[i][p], open \union {i}))
    BY <2>2, ViewedType
  <2> QED
    BY <1>1, <2>1, <2>3
<1>5. \A j : j \in next <=>
        j \in DOMAIN d /\ \E p \in DOMAIN d[i] : d[i][p].key = MergeKey /\ Refers(d[i][p].pay, j)
  BY <1>2, AfterIs
<1>6. ASSUME NEW p \in DOMAIN d[i]
      PROVE  Fails(ViewedMerge(v, d[i][p], on)) <=>
               /\ d[i][p].key = MergeKey
               /\ \/ d[i][p].pay.kind = "scalar"
                  \/ \E n \in DOMAIN d[i][p].pay.refs :
                       \/ d[i][p].pay.refs[n] = 0
                       \/ d[i][p].pay.refs[n] \in DOMAIN d /\ Fails(v[<<on, d[i][p].pay.refs[n]>>])
  <2>1. PICK pay : pay = d[i][p].pay
    OBVIOUS
  <2>2. pay \in Shapes /\ Within(pay, d)
    BY <2>1, PayloadOfDocument DEF Inside
  <2>3. PICK V : V = Items(v, pay, on)
    OBVIOUS
  <2>4. Fails(ViewedMerge(v, d[i][p], on)) <=> d[i][p].key = MergeKey /\ (pay.kind = "scalar" \/ ~AllOk(V))
    BY <1>3, <2>1, <2>3, ViewedMergeType
  <2>5. DOMAIN V = DOMAIN pay.refs /\ \A n \in DOMAIN pay.refs : V[n] = ViewedItem(v, pay.refs[n], on)
    BY <1>3, <2>2, <2>3, ItemsType
  <2>6. 0 \notin DOMAIN d
    BY EntryOfDocument
  <2>7. Fails(Err("scalar"))
    BY DEF Fails, Err
  <2>8. ASSUME NEW n \in DOMAIN pay.refs
        PROVE  Fails(V[n]) <=> pay.refs[n] = 0 \/ (pay.refs[n] \in DOMAIN d /\ Fails(v[<<on, pay.refs[n]>>]))
    <3>1. CASE pay.refs[n] = 0
      BY <2>5, <2>7, <3>1 DEF ViewedItem
    <3>2. CASE pay.refs[n] # 0
      <4>1. pay.refs[n] \in DOMAIN d
        BY <2>2, <3>2 DEF Within
      <4>2. V[n] = v[<<on, pay.refs[n]>>]
        BY <2>5, <3>2 DEF ViewedItem
      <4> QED
        BY <3>2, <4>1, <4>2
    <3> QED
      BY <3>1, <3>2
  <2>9. ~AllOk(V) <=> \E n \in DOMAIN pay.refs :
                        pay.refs[n] = 0 \/ (pay.refs[n] \in DOMAIN d /\ Fails(v[<<on, pay.refs[n]>>]))
    BY <2>5, <2>8 DEF AllOk
  <2> QED
    BY <2>1, <2>4, <2>9
<1>7. ASSUME NEW p \in DOMAIN d[i], Fails(ViewedMerge(v, d[i][p], on)), ~MergesScalar(d, i)
      PROVE  \E j \in next : Fails(v[<<on, j>>])
  <2>1. PICK n \in DOMAIN d[i][p].pay.refs :
          d[i][p].pay.refs[n] \in DOMAIN d /\ Fails(v[<<on, d[i][p].pay.refs[n]>>])
    BY <1>6, <1>7 DEF MergesScalar, Merges, Refers
  <2>2. PICK j : j = d[i][p].pay.refs[n]
    OBVIOUS
  <2>3. j \in DOMAIN d /\ Fails(v[<<on, j>>])
    BY <2>1, <2>2
  <2>4. d[i][p].key = MergeKey
    BY <1>6, <1>7
  <2>5. Refers(d[i][p].pay, j)
    BY <2>2 DEF Refers
  <2> QED
    BY <1>5, <2>3, <2>4, <2>5
<1>8. ASSUME NEW j \in next, Fails(v[<<on, j>>])
      PROVE  \E p \in DOMAIN d[i] : Fails(ViewedMerge(v, d[i][p], on))
  <2>1. j \in DOMAIN d
    BY <1>5
  <2>2. PICK p \in DOMAIN d[i] : d[i][p].key = MergeKey /\ Refers(d[i][p].pay, j)
    BY <1>5
  <2>3. PICK n \in DOMAIN d[i][p].pay.refs : d[i][p].pay.refs[n] = j
    BY <2>2 DEF Refers
  <2>4. d[i][p].pay.refs[n] \in DOMAIN d /\ Fails(v[<<on, d[i][p].pay.refs[n]>>])
    BY <1>8, <2>1, <2>3
  <2> QED
    BY <1>6, <2>2, <2>4
<1>9. ASSUME MergesScalar(d, i) PROVE \E p \in DOMAIN d[i] : Fails(ViewedMerge(v, d[i][p], on))
  <2>1. PICK p \in DOMAIN d[i] : /\ d[i][p].key = MergeKey
                                 /\ d[i][p].pay.kind = "scalar" \/ Refers(d[i][p].pay, 0)
    BY <1>9 DEF MergesScalar, Merges
  <2> QED
    BY <1>6, <2>1 DEF Refers
<1>10. Fails(v[<<open, i>>]) <=> MergesScalar(d, i) \/ \E j \in next : Fails(v[<<on, j>>])
  BY <1>4, <1>7, <1>8, <1>9
<1> QED
  BY <1>1, <1>2, <1>10

HitsUpTo(d, v, n) ==
  \A open \in SUBSET DOMAIN d : Free(d, open) <= n => \A i \in DOMAIN d : Fails(v[<<open, i>>]) <=> Hit(d, open, i)

(* By induction on the mappings that are not on the stack.                 *)
LEMMA ViewsHit ==
  ASSUME NEW d, Document(d), Inside(d), NEW v, Views(d, v)
  PROVE  \A i \in DOMAIN d : Fails(v[<<{}, i>>]) <=> Hit(d, {}, i)
<1> DEFINE T == {n \in Nat : HitsUpTo(d, v, n)}
<1>1. ASSUME NEW open \in SUBSET DOMAIN d, NEW i \in DOMAIN d, i \in open
      PROVE  Fails(v[<<open, i>>]) <=> Hit(d, open, i)
  <2>1. Fails(v[<<open, i>>])
    <3>1. v[<<open, i>>] = ViewedEntries(v, d, i, open)
      BY DEF Views
    <3>2. ViewedEntries(v, d, i, open) = Err("recursive")
      BY <1>1 DEF ViewedEntries
    <3> QED
      BY <3>1, <3>2 DEF Fails, Err
  <2>2. i \in From(d, ViewLinks(d), i)
    BY AfterIs, ChainsGoOn
  <2> QED
    BY <1>1, <2>1, <2>2 DEF Hit
<1>2. 0 \in T
  <2>1. ASSUME NEW open \in SUBSET DOMAIN d, Free(d, open) <= 0, NEW i \in DOMAIN d
        PROVE  Fails(v[<<open, i>>]) <=> Hit(d, open, i)
    <3>1. i \in open
      BY <2>1, FreeFacts
    <3> QED
      BY <1>1, <3>1
  <2> QED
    BY <2>1 DEF HitsUpTo
<1>3. ASSUME NEW n \in T PROVE n + 1 \in T
  <2>1. ASSUME NEW open \in SUBSET DOMAIN d, Free(d, open) <= n + 1, NEW i \in DOMAIN d, i \notin open
        PROVE  Fails(v[<<open, i>>]) <=> Hit(d, open, i)
    <3>1. n \in Nat /\ Free(d, open) \in Nat
      BY <1>3, FreeFacts
    <3>2. PICK on : on = open \union {i}
      OBVIOUS
    <3>3. on \in SUBSET DOMAIN d /\ Free(d, on) <= n
      BY <2>1, <3>1, <3>2, FreeFacts
    <3>4. \A j \in DOMAIN d : Fails(v[<<on, j>>]) <=> Hit(d, on, j)
      BY <1>3, <3>3 DEF HitsUpTo
    <3>5. PICK next : next = After(ViewLinks(d), i)
      OBVIOUS
    <3>6. \A j \in next : j \in DOMAIN d
      BY <3>5, AfterIs
    <3>7. Fails(v[<<open, i>>]) <=> MergesScalar(d, i) \/ \E j \in next : Fails(v[<<open \union {i}, j>>])
      BY <2>1, <3>5, ViewedFails
    <3>8. Hit(d, open, i) <=> MergesScalar(d, i) \/ \E j \in next : Hit(d, open \union {i}, j)
      BY <2>1, <3>5, HitIs
    <3>9. \A j \in next : Fails(v[<<open \union {i}, j>>]) <=> Hit(d, open \union {i}, j)
      BY <3>2, <3>4, <3>6
    <3> QED
      BY <3>7, <3>8, <3>9
  <2>2. HitsUpTo(d, v, n + 1)
    BY <1>1, <2>1 DEF HitsUpTo
  <2> QED
    BY <1>3, <2>2
<1> HIDE DEF T
<1>4. T \in SUBSET Nat
  BY DEF T
<1>5. T = Nat
  BY <1>2, <1>3, <1>4, FromZeroUp
<1>6. {} \in SUBSET DOMAIN d /\ Free(d, {}) \in Nat
  BY FreeFacts
<1>7. Free(d, {}) \in T /\ Free(d, {}) <= Free(d, {})
  BY <1>5, <1>6
<1>8. HitsUpTo(d, v, Free(d, {}))
  BY <1>7 DEF T
<1> QED
  BY <1>6, <1>7, <1>8 DEF HitsUpTo

(* The effective view of the lossless graph (effective_mapping_entries)    *)
(* shows, its overridden entries left out, the mapping the strict loader   *)
(* makes of the same text; and it is refused exactly when merges lead to a *)
(* scalar or back to a mapping on the way: for documents and graphs of any *)
(* size.                                                                   *)
THEOREM ViewAlwaysMatches == Spec => []ViewMatchesLoad
<1>1. MergeInv => ViewMatchesLoad
  <2>1. SUFFICES ASSUME MergeInv PROVE ViewMatchesLoad
    OBVIOUS
  <2>2. Document(doc) /\ Inside(doc)
    BY <2>1 DEF MergeInv, DocumentInv
  <2>3. PICK v : Views(doc, v) /\ Effective(doc) = [i \in DOMAIN doc |-> v[<<{}, i>>]]
    BY <2>2, EffectiveIs
  <2>4. PICK viewed : viewed = Effective(doc)
    OBVIOUS
  <2>5. \A i \in DOMAIN doc : viewed[i] = v[<<{}, i>>]
    BY <2>3, <2>4
  <2>6. ASSUME mode = "strict", at = "read", NEW i \in DOMAIN doc
        PROVE  ~Fails(read[i].view) /\ Shown(read[i].view.entries) = read[i].load.entries
    <3>1. Parsed /\ at \in {"read", "failed"}
      BY <2>6 DEF Parsed
    <3>2. /\ Backward(doc) /\ Unique("strict", doc) /\ at = Outcome(read)
          /\ DOMAIN read = DOMAIN doc
          /\ \A j \in DOMAIN doc : read[j].load = Expanded("strict", doc)[j]
      BY <2>1, <2>6, <3>1, LoadOf
    <3>3. PICK t : Solves("strict", doc, t) /\ Expanded("strict", doc) = [j \in DOMAIN doc |-> t[<<j, 0>>]]
      BY <2>2, <3>2, ExpandedIs DEF Solves
    <3>4. read[i].load = t[<<i, 0>>]
      BY <3>2, <3>3
    <3>5. ~Fails(t[<<i, 0>>])
      BY <2>6, <3>2, <3>4 DEF Outcome
    <3>6. Matches(v[<<{}, i>>], t[<<i, 0>>])
      BY <2>2, <2>3, <3>2, <3>3, <3>5, ViewsMatch
    <3>7. read[i].view = v[<<{}, i>>]
      <4>1. PICK loaded : loaded = Loaded("strict", doc, has_merge)
        OBVIOUS
      <4>2. read = [j \in DOMAIN doc |-> [load |-> loaded[j], view |-> viewed[j]]]
        BY <2>1, <2>4, <2>6, <4>1 DEF MergeInv, ReadInv, StrictReading
      <4> QED
        BY <2>5, <4>2
    <3> QED
      BY <3>4, <3>6, <3>7 DEF Matches
  <2>7. PICK links : links = Links("events", doc)
    OBVIOUS
  <2>8. ASSUME mode = "events", at = "read", NEW i \in DOMAIN doc
        PROVE  Fails(read[i].view) <=> Reached(doc, links, {i}) \cap Unviewable(doc, links) # {}
    <3>1. read = [j \in DOMAIN doc |-> [view |-> viewed[j]]]
      BY <2>1, <2>4, <2>8 DEF MergeInv, ReadInv, ViewReading
    <3>2. read[i].view = v[<<{}, i>>]
      BY <2>5, <3>1
    <3>3. Fails(v[<<{}, i>>]) <=> Hit(doc, {}, i)
      BY <2>2, <2>3, ViewsHit
    <3>4. Hit(doc, {}, i) <=> Reached(doc, links, {i}) \cap Unviewable(doc, links) # {}
      BY <2>7 DEF Hit, From, ViewLinks, Stops
    <3> QED
      BY <3>2, <3>3, <3>4
  <2> QED
    BY <2>6, <2>7, <2>8 DEF ViewMatchesLoad
<1> QED
  BY <1>1, MergeInvariant, PTL

=============================================================================
