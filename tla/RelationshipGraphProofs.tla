---------------------- MODULE RelationshipGraphProofs ----------------------
(***************************************************************************)
(* Proofs that RelationshipGraph has its invariants for every set of       *)
(* resources, relationships and batches, after what the recursive          *)
(* definitions of StoreDB compute, proved by induction.                    *)
(***************************************************************************)
EXTENDS RelationshipGraph, FiniteSetTheorems, TLAPS

-----------------------------------------------------------------------------
(* Induction over the natural numbers, about sets rather than predicates.  *)

(* A nonempty set of natural numbers has a least element.                  *)
LEMMA NatMinimum ==
  ASSUME NEW T, T \subseteq Nat, T # {}
  PROVE  \E x \in T : \A y \in T : x <= y
<1> DEFINE R == OpToRel(<, Nat)
<1>1. IsWellFoundedOn(R, Nat)
  BY NatLessThanWellFounded, Zenon
<1>2. \A x, y \in Nat : y < x => <<y, x>> \in R
  BY Zenon DEF OpToRel
<1> HIDE DEF R
<1>3. PICK x \in T : \A y \in T : ~(<<y, x>> \in R)
  BY <1>1, WFMin, Zenon
<1>4. \A y \in T : ~(y < x)
  BY <1>2, <1>3, Zenon
<1> QED
  BY <1>4

(* A set that holds 0 and the successor of each of its members up to a     *)
(* bound holds every number up to that bound.                              *)
LEMMA BoundedInduction ==
  ASSUME NEW S, NEW N \in Nat, 0 \in S,
         \A n \in 0..(N - 1) : n \in S => n + 1 \in S
  PROVE  \A n \in 0..N : n \in S
<1> DEFINE T == (0..N) \ S
<1> SUFFICES ASSUME T # {} PROVE FALSE
  BY Zenon
<1>1. PICK x \in T : \A y \in T : x <= y
  <2>1. T \subseteq Nat
    OBVIOUS
  <2> HIDE DEF T
  <2> QED BY <2>1, NatMinimum, Zenon
<1>2. x # 0 /\ x - 1 \in 0..(N - 1)
  OBVIOUS
<1>3. x - 1 \in S
  BY <1>1, <1>2
<1> QED
  BY <1>2, <1>3

(* f[0] is a, and f[n] is what the step function G makes of f[n - 1].      *)
Recursion(f, a, N, G) == f[0] = a /\ \A n \in 1..N : f[n] = G[<<f[n - 1], n>>]

(* A value and a step function define a function on 0..N by recursion.     *)
LEMMA RecursionExists ==
  ASSUME NEW T, NEW a \in T, NEW N \in Nat, NEW G \in [T \X (1..N) -> T]
  PROVE  \E f \in [0..N -> T] : Recursion(f, a, N, G)
<1> DEFINE P(f, k) == f[0] = a /\ \A n \in 1..k : f[n] = G[<<f[n - 1], n>>]
           S == {k \in 0..N : \E f \in [0..k -> T] : P(f, k)}
<1>1. 0 \in S
  <2> DEFINE f == [i \in 0..0 |-> a]
  <2>1. f \in [0..0 -> T] /\ P(f, 0)
    OBVIOUS
  <2> HIDE DEF f
  <2> QED BY <2>1
<1>2. ASSUME NEW k \in 0..(N - 1), k \in S PROVE k + 1 \in S
  <2>1. PICK f \in [0..k -> T] : P(f, k)
    BY <1>2, Zenon
  <2> DEFINE g == [i \in 0..(k + 1) |-> IF i = k + 1 THEN G[<<f[k], k + 1>>] ELSE f[i]]
  <2>2. k \in 0..k /\ k + 1 \in 1..N /\ f[k] \in T
    OBVIOUS
  <2>3. g \in [0..(k + 1) -> T]
    <3>1. G[<<f[k], k + 1>>] \in T
      BY <2>2, Zenon
    <3> QED BY <3>1
  <2>4. g[0] = a
    BY <2>1
  <2>5. ASSUME NEW n \in 1..(k + 1) PROVE g[n] = G[<<g[n - 1], n>>]
    <3>1. CASE n = k + 1
      BY <3>1, <2>2, SMTT(30)
    <3>2. CASE n # k + 1
      <4>1. n \in 1..k /\ n - 1 \in 0..k
        BY <3>2
      <4>2. g[n] = f[n] /\ g[n - 1] = f[n - 1]
        BY <4>1
      <4> QED BY <2>1, <4>1, <4>2, Zenon
    <3> QED BY <3>1, <3>2, Zenon
  <2> HIDE DEF g
  <2>6. k + 1 \in 0..N
    OBVIOUS
  <2> QED BY <2>3, <2>4, <2>5, <2>6, Zenon
<1> HIDE DEF S
<1>3. N \in S
  BY <1>1, <1>2, BoundedInduction
<1> QED
  BY <1>3, Zenon DEF S, Recursion

-----------------------------------------------------------------------------
(* The operators of StoreDB. *)

(* A relationship has a subject, an object and a predicate.                *)
LEMMA RelsType ==
  ASSUME NEW x \in Rels
  PROVE  x.subj \in Refs /\ x.obj \in Refs /\ x.pred \in Preds
<1>1. PICK i \in DOMAIN HashOrder : x = HashOrder[i]
  BY Zenon DEF Rels, Range
<1>2. HashOrder[i] \in [subj : Refs, pred : Preds, obj : Refs]
  <2> DEFINE R == [subj : Refs, pred : Preds, obj : Refs]
  <2>1. HashOrder \in Seq(R)
    BY HashOrderAssumption, Zenon
  <2> HIDE DEF R
  <2>2. HashOrder[i] \in R
    BY <2>1
  <2> QED BY <2>2, Zenon DEF R
<1> QED
  BY <1>1, <1>2, Zenon

(* The stored form of an index value holds only keys that occur in it.     *)
LEMMA LayoutType ==
  ASSUME NEW idx \in Index
  PROVE  Layout(idx) \in Seq({x \in Rels : idx[x] > 0})
<1> DEFINE A == {x \in Rels : idx[x] > 0}
           N == Len(HashOrder)
           part(i) == [k \in 1..idx[HashOrder[i]] |-> HashOrder[i]]
           F(f) == f = [i \in 0..N |-> IF i = 0 THEN << >> ELSE f[i - 1] \o part(i)]
           G == [p \in Seq(A) \X (1..N) |-> p[1] \o part(p[2])]
<1>1. DOMAIN HashOrder = 1..N /\ N \in Nat
  BY HashOrderAssumption
<1>2. ASSUME NEW i \in 1..N PROVE part(i) \in Seq(A)
  <2>1. HashOrder[i] \in Rels
    BY <1>1, Zenon DEF Rels, Range
  <2>2. idx[HashOrder[i]] \in Nat
    BY <2>1, Zenon DEF Index
  <2>3. \A k \in 1..idx[HashOrder[i]] : HashOrder[i] \in A
    BY <2>1, <2>2
  <2> QED BY <2>2, <2>3
<1> HIDE DEF A, N, part
<1>3. G \in [Seq(A) \X (1..N) -> Seq(A)]
  BY <1>2
<1>4. \A s \in Seq(A) : \A i \in 1..N : G[<<s, i>>] = s \o part(i)
  BY Zenon
<1> HIDE DEF G
<1>5. PICK g \in [0..N -> Seq(A)] : Recursion(g, << >>, N, G)
  <2>1. << >> \in Seq(A)
    OBVIOUS
  <2> QED BY <1>1, <1>3, <2>1, RecursionExists, Zenon
<1>6. g[0] = << >> /\ \A i \in 1..N : g[i] = G[<<g[i - 1], i>>]
  BY <1>5, Zenon DEF Recursion
<1>7. ASSUME NEW i \in 0..N PROVE g[i] = IF i = 0 THEN << >> ELSE g[i - 1] \o part(i)
  <2>1. CASE i = 0
    BY <1>6, <2>1, Zenon
  <2>2. CASE i # 0
    <3>1. i \in 1..N /\ i - 1 \in 0..N
      BY <1>1, <2>2
    <3>2. g[i - 1] \in Seq(A)
      BY <3>1, Zenon
    <3> QED BY <1>4, <1>6, <2>2, <3>1, <3>2, Zenon
  <2> QED BY <2>1, <2>2, Zenon
<1>8. F(g)
  BY <1>7, Zenon
<1>9. PICK f : F(f) /\ Layout(idx) = f[N]
  BY <1>8, Zenon DEF Layout, N, part
<1> DEFINE S == {i \in 0..N : f[i] \in Seq(A)}
<1>10. 0 \in S
  BY <1>1, <1>9
<1>11. ASSUME NEW i \in 0..(N - 1), i \in S PROVE i + 1 \in S
  <2>1. i + 1 \in 1..N /\ i + 1 \in 0..N /\ i + 1 # 0 /\ (i + 1) - 1 = i
    BY <1>1
  <2>2. f[i + 1] = f[i] \o part(i + 1)
    BY <1>9, <2>1, Zenon
  <2>3. f[i] \in Seq(A) /\ part(i + 1) \in Seq(A)
    BY <1>2, <1>11, <2>1, Zenon
  <2>4. f[i] \o part(i + 1) \in Seq(A)
    BY <2>3
  <2> QED BY <2>1, <2>2, <2>4, Zenon
<1> HIDE DEF S, F
<1>12. N \in S
  <2>1. \A i \in 0..(N - 1) : i \in S => i + 1 \in S
    BY <1>11, Zenon
  <2>2. N \in 0..N
    BY <1>1
  <2> QED BY <1>1, <1>10, <2>1, <2>2, BoundedInduction, Zenon
<1>13. Layout(idx) \in Seq(A)
  BY <1>9, <1>12, Zenon DEF S
<1> QED
  BY <1>13, Zenon DEF A

(* Pos is the rank of a relationship in the order of the object keys.      *)
LEMMA PosType ==
  ASSUME NEW x \in Rels
  PROVE  Pos(x) \in Nat /\ HashOrder[Pos(x)] = x
<1>1. \E i \in DOMAIN HashOrder : HashOrder[i] = x
  BY Zenon DEF Rels, Range
<1>2. DOMAIN HashOrder \subseteq Nat
  BY HashOrderAssumption
<1> QED
  BY <1>1, <1>2, Zenon DEF Pos

(* The loop ends, finds the key in the middle of the interval, or goes on  *)
(* with a strictly smaller interval.                                       *)
LEMMA SearchStepCases ==
  ASSUME NEW keys \in Seq(Rels), NEW x \in Rels,
         NEW l \in 0..Len(keys), NEW h \in (-1)..Len(keys)
  PROVE  \/ l >= h /\ \A s : SearchStep(keys, x, s, l, h) = 0
         \/ \E m \in 0..(Len(keys) - 1) : keys[m + 1] = x
                /\ \A s : SearchStep(keys, x, s, l, h) = m + 1
         \/ \E i \in 0..Len(keys), j \in (-1)..Len(keys) :
                j - i < h - l /\ \A s : SearchStep(keys, x, s, l, h) = s[<<i, j>>]
<1> DEFINE m == (l + h) \div 2
<1>1. CASE l >= h
  BY <1>1, Zenon DEF SearchStep
<1>2. CASE l < h
  <2>1. l <= m /\ m < h /\ m \in 0..(Len(keys) - 1)
    BY <1>2
  <2>2. keys[m + 1] \in Rels
    BY <2>1
  <2> HIDE DEF m
  <2>3. Pos(keys[m + 1]) \in Nat /\ Pos(x) \in Nat
    BY <2>2, PosType, Zenon
  <2>4. CASE keys[m + 1] = x
    <3>1. ASSUME NEW s PROVE SearchStep(keys, x, s, l, h) = m + 1
      BY <1>2, <2>3, <2>4 DEF SearchStep, m
    <3> QED BY <2>1, <2>4, <3>1, Zenon
  <2>5. CASE keys[m + 1] # x
    <3>1. Pos(keys[m + 1]) # Pos(x)
      BY <2>2, <2>5, PosType, Zenon
    <3>2. CASE Pos(keys[m + 1]) < Pos(x)
      <4>1. ASSUME NEW s PROVE SearchStep(keys, x, s, l, h) = s[<<m + 1, h>>]
        BY <1>2, <2>3, <2>5, <3>2 DEF SearchStep, m
      <4>2. m + 1 \in 0..Len(keys) /\ h - (m + 1) < h - l
        BY <2>1
      <4> QED BY <4>1, <4>2, Zenon
    <3>3. CASE Pos(keys[m + 1]) > Pos(x)
      <4>1. ASSUME NEW s PROVE SearchStep(keys, x, s, l, h) = s[<<l, m - 1>>]
        BY <1>2, <2>3, <2>5, <3>3 DEF SearchStep, m
      <4>2. m - 1 \in (-1)..Len(keys) /\ (m - 1) - l < h - l
        BY <2>1
      <4> QED BY <4>1, <4>2, Zenon
    <3> QED BY <2>3, <3>1, <3>2, <3>3
  <2> QED BY <2>4, <2>5, Zenon
<1>3. l >= h \/ l < h
  OBVIOUS
<1> QED
  BY <1>1, <1>2, <1>3, Zenon

(* The possible outcomes of a pass.                                        *)
SearchResult(keys, x, s, l, h) ==
  \/ SearchStep(keys, x, s, l, h) = 0
  \/ \E m \in 0..(Len(keys) - 1) :
       keys[m + 1] = x /\ SearchStep(keys, x, s, l, h) = m + 1
  \/ \E i \in 0..Len(keys), j \in (-1)..Len(keys) :
       j - i < h - l /\ SearchStep(keys, x, s, l, h) = s[<<i, j>>]

(* Every pass has one of these outcomes.                                   *)
LEMMA SearchStepResult ==
  ASSUME NEW keys \in Seq(Rels), NEW x \in Rels, NEW s,
         NEW l \in 0..Len(keys), NEW h \in (-1)..Len(keys)
  PROVE  SearchResult(keys, x, s, l, h)
<1>1. CASE \A t : SearchStep(keys, x, t, l, h) = 0
  BY <1>1, Zenon DEF SearchResult
<1>2. CASE \E m \in 0..(Len(keys) - 1) : keys[m + 1] = x
              /\ \A t : SearchStep(keys, x, t, l, h) = m + 1
  BY <1>2, Zenon DEF SearchResult
<1>3. CASE \E i \in 0..Len(keys), j \in (-1)..Len(keys) :
              j - i < h - l /\ \A t : SearchStep(keys, x, t, l, h) = t[<<i, j>>]
  BY <1>3, Zenon DEF SearchResult
<1> QED
  BY <1>1, <1>2, <1>3, SearchStepCases, Zenon

(* The search loop ends: its result is defined for every interval.         *)
LEMMA SearchExists ==
  ASSUME NEW keys \in Seq(Rels), NEW x \in Rels
  PROVE  \E s : s = [i \in (0..Len(keys)) \X ((-1)..Len(keys)) |->
                      SearchStep(keys, x, s, i[1], i[2])]
<1> DEFINE N == Len(keys)
           D == (0..N) \X ((-1)..N)
           T == [D -> 0..N]
           step(s) == [i \in D |-> SearchStep(keys, x, s, i[1], i[2])]
           zero == [i \in D |-> 0]
           G == [p \in T \X (1..(N + 1)) |-> step(p[1])]
<1>1. N \in Nat /\ N + 1 \in Nat
  OBVIOUS
<1>2. ASSUME NEW s \in T PROVE step(s) \in T
  <2> SUFFICES ASSUME NEW l \in 0..N, NEW h \in (-1)..N
               PROVE  SearchStep(keys, x, s, l, h) \in 0..N
    BY Zenon
  <2>1. \A i \in 0..N, j \in (-1)..N : s[<<i, j>>] \in 0..N
    BY Zenon
  <2>2. CASE SearchStep(keys, x, s, l, h) = 0
    BY <1>1, <2>2
  <2>3. CASE \E m \in 0..(N - 1) : SearchStep(keys, x, s, l, h) = m + 1
    BY <1>1, <2>3
  <2>4. CASE \E i \in 0..N, j \in (-1)..N : SearchStep(keys, x, s, l, h) = s[<<i, j>>]
    BY <2>1, <2>4, Zenon
  <2>5. SearchResult(keys, x, s, l, h)
    BY SearchStepResult, Zenon
  <2> QED BY <2>2, <2>3, <2>4, <2>5, Zenon DEF SearchResult
<1>3. zero \in T
  BY <1>1
<1>4. G \in [T \X (1..(N + 1)) -> T]
  BY <1>2, Zenon
<1>5. \A s \in T : \A k \in 1..(N + 1) : G[<<s, k>>] = step(s)
  BY Zenon
<1> HIDE DEF T, G, zero
<1>6. PICK f \in [0..(N + 1) -> T] : Recursion(f, zero, N + 1, G)
  BY <1>1, <1>3, <1>4, RecursionExists, Zenon
<1>7. f[0] = zero /\ \A k \in 0..N : f[k] \in T /\ f[k + 1] = step(f[k])
  <2>1. f[0] = zero /\ \A k \in 1..(N + 1) : f[k] = G[<<f[k - 1], k>>]
    BY <1>6, Zenon DEF Recursion
  <2>2. ASSUME NEW k \in 0..N PROVE f[k] \in T /\ f[k + 1] = step(f[k])
    <3>1. k + 1 \in 1..(N + 1) /\ (k + 1) - 1 = k /\ k \in 0..(N + 1)
      BY <1>1
    <3>2. f[k] \in T
      BY <3>1, Zenon
    <3>3. f[k + 1] = G[<<f[k], k + 1>>]
      BY <2>1, <3>1, Zenon
    <3> QED BY <1>5, <3>1, <3>2, <3>3, Zenon
  <2> QED BY <2>1, <2>2, Zenon
(* After k unfoldings the result is final for intervals up to width k. *)
<1> DEFINE Final(k) == \A l \in 0..N, h \in (-1)..N :
                         h - l <= k => f[k + 1][<<l, h>>] = f[k][<<l, h>>]
           S == {k \in 0..N : Final(k)}
<1>8. \A k \in 0..N : \A l \in 0..N, h \in (-1)..N :
        f[k + 1][<<l, h>>] = SearchStep(keys, x, f[k], l, h)
  BY <1>7, Zenon
<1>9. 0 \in S
  <2> SUFFICES ASSUME NEW l \in 0..N, NEW h \in (-1)..N, h - l <= 0
               PROVE  f[0 + 1][<<l, h>>] = f[0][<<l, h>>]
    BY <1>1, SMTT(30)
  <2>1. f[0 + 1][<<l, h>>] = SearchStep(keys, x, f[0], l, h)
    BY <1>1, <1>8
  <2>2. SearchStep(keys, x, f[0], l, h) = 0
    BY <1>1 DEF SearchStep
  <2>3. f[0][<<l, h>>] = 0
    BY <1>7, Zenon DEF zero
  <2> QED BY <2>1, <2>2, <2>3, Zenon
<1>10. ASSUME NEW k \in 0..(N - 1), k \in S PROVE k + 1 \in S
  <2> SUFFICES ASSUME NEW l \in 0..N, NEW h \in (-1)..N, h - l <= k + 1
               PROVE  f[(k + 1) + 1][<<l, h>>] = f[k + 1][<<l, h>>]
    BY <1>1
  <2>1. k \in 0..N /\ k + 1 \in 0..N
    BY <1>1
  <2>2. /\ f[(k + 1) + 1][<<l, h>>] = SearchStep(keys, x, f[k + 1], l, h)
        /\ f[k + 1][<<l, h>>] = SearchStep(keys, x, f[k], l, h)
    BY <1>8, <2>1, Zenon
  <2>3. \A i \in 0..N, j \in (-1)..N :
           j - i < h - l => f[k + 1][<<i, j>>] = f[k][<<i, j>>]
    BY <1>1, <1>10, <2>1
  <2>4. SearchStep(keys, x, f[k + 1], l, h) = SearchStep(keys, x, f[k], l, h)
    <3>1. CASE \A s : SearchStep(keys, x, s, l, h) = 0
      BY <3>1, Zenon
    <3>2. CASE \E m : \A s : SearchStep(keys, x, s, l, h) = m + 1
      BY <3>2, Zenon
    <3>3. CASE \E i \in 0..N, j \in (-1)..N :
                 j - i < h - l /\ \A s : SearchStep(keys, x, s, l, h) = s[<<i, j>>]
      BY <2>3, <3>3, Zenon
    <3> QED BY <3>1, <3>2, <3>3, SearchStepCases, Zenon
  <2> QED BY <2>2, <2>4, Zenon
<1> HIDE DEF S
<1>11. N \in S
  <2>1. \A k \in 0..(N - 1) : k \in S => k + 1 \in S
    BY <1>10, Zenon
  <2>2. N \in 0..N
    BY <1>1
  <2> QED BY <1>1, <1>9, <2>1, <2>2, BoundedInduction, Zenon
<1>12. f[N + 1] = step(f[N + 1])
  <2>1. N \in 0..N /\ N + 1 \in 0..(N + 1)
    BY <1>1
  <2>2. f[N] \in T /\ f[N + 1] \in T
    BY <2>1, <1>7, Zenon
  <2>3. \A l \in 0..N, h \in (-1)..N : h - l <= N
    BY <1>1
  <2>4. \A l \in 0..N, h \in (-1)..N : f[N + 1][<<l, h>>] = f[N][<<l, h>>]
    BY <1>11, <2>3, Zenon DEF S
  <2>5. f[N + 1] = f[N]
    BY <2>2, <2>4, SMTT(30) DEF T
  <2> QED BY <1>7, <2>1, <2>5, Zenon
<1> QED
  BY <1>12, Zenon

(* A search that ends at a position has found the key there.               *)
LEMMA SearchIndexFinds ==
  ASSUME NEW keys \in Seq(Rels), NEW x \in Rels, SearchIndex(keys, x) # 0
  PROVE  SearchIndex(keys, x) \in 1..Len(keys) /\ keys[SearchIndex(keys, x)] = x
<1> DEFINE N == Len(keys)
           F(s) == s = [i \in (0..N) \X ((-1)..N) |-> SearchStep(keys, x, s, i[1], i[2])]
<1>1. PICK s : F(s) /\ SearchIndex(keys, x) = s[<<0, N>>]
  BY SearchExists, Zenon DEF SearchIndex
<1>2. N \in Nat
  OBVIOUS
<1>3. \A l \in 0..N, h \in (-1)..N : s[<<l, h>>] = SearchStep(keys, x, s, l, h)
  BY <1>1, Zenon
<1> DEFINE Sound(l, h) == s[<<l, h>>] # 0 => s[<<l, h>>] \in 1..N /\ keys[s[<<l, h>>]] = x
           S == {k \in 0..N : \A l \in 0..N, h \in (-1)..N : h - l <= k => Sound(l, h)}
<1>4. 0 \in S
  <2> SUFFICES ASSUME NEW l \in 0..N, NEW h \in (-1)..N, h - l <= 0
               PROVE  Sound(l, h)
    BY <1>2
  <2>1. SearchStep(keys, x, s, l, h) = 0
    BY <1>2 DEF SearchStep
  <2> QED BY <1>3, <2>1, Zenon
<1>5. ASSUME NEW k \in 0..(N - 1), k \in S PROVE k + 1 \in S
  <2> SUFFICES ASSUME NEW l \in 0..N, NEW h \in (-1)..N, h - l <= k + 1
               PROVE  Sound(l, h)
    BY <1>2
  <2>1. s[<<l, h>>] = SearchStep(keys, x, s, l, h)
    BY <1>3, Zenon
  <2>2. \A i \in 0..N, j \in (-1)..N : j - i < h - l => Sound(i, j)
    <3> SUFFICES ASSUME NEW i \in 0..N, NEW j \in (-1)..N, j - i < h - l
                 PROVE  Sound(i, j)
      BY Zenon
    <3>1. j - i <= k
      BY <1>2
    <3>2. \A a \in 0..N, b \in (-1)..N : b - a <= k => Sound(a, b)
      BY <1>5, Zenon
    <3> HIDE DEF Sound
    <3> QED BY <3>1, <3>2, Zenon
  <2>3. CASE SearchStep(keys, x, s, l, h) = 0
    BY <2>1, <2>3, Zenon
  <2>4. CASE \E m \in 0..(N - 1) : keys[m + 1] = x /\ SearchStep(keys, x, s, l, h) = m + 1
    BY <1>2, <2>1, <2>4
  <2>5. CASE \E i \in 0..N, j \in (-1)..N :
               j - i < h - l /\ SearchStep(keys, x, s, l, h) = s[<<i, j>>]
    BY <2>1, <2>2, <2>5, Zenon
  <2>6. SearchResult(keys, x, s, l, h)
    BY SearchStepResult, Zenon
  <2> QED BY <2>3, <2>4, <2>5, <2>6, Zenon DEF SearchResult
<1> HIDE DEF S
<1>6. N \in S
  <2>1. \A k \in 0..(N - 1) : k \in S => k + 1 \in S
    BY <1>5, Zenon
  <2>2. N \in 0..N
    BY <1>2
  <2> QED BY <1>2, <1>4, <2>1, <2>2, BoundedInduction, Zenon
<1>7. Sound(0, N)
  BY <1>2, <1>6 DEF S
<1> QED
  BY <1>1, <1>7, Zenon

(* deleteObjKeyFromIndex yields an index value, without a negative count,  *)
(* increases no count and changes the count of no other key.               *)
LEMMA DeleteObjKeyType ==
  ASSUME NEW idx \in Index, NEW x \in Rels
  PROVE  /\ DeleteObjKeyFromIndex(idx, x) \in Index
         /\ \A y \in Rels : y # x => DeleteObjKeyFromIndex(idx, x)[y] = idx[y]
         /\ \A y \in Rels : DeleteObjKeyFromIndex(idx, x)[y] <= idx[y]
<1> DEFINE keys == Layout(idx)
<1>1. CASE SearchIndex(keys, x) = 0
  BY <1>1 DEF DeleteObjKeyFromIndex, Index
<1>2. CASE SearchIndex(keys, x) # 0
  <2>1. keys \in Seq({y \in Rels : idx[y] > 0})
    BY LayoutType, Zenon
  <2>2. keys \in Seq(Rels)
    BY <2>1
  <2> HIDE DEF keys
  <2>3. SearchIndex(keys, x) \in 1..Len(keys) /\ keys[SearchIndex(keys, x)] = x
    BY <1>2, <2>2, SearchIndexFinds, Zenon
  <2>4. idx[x] > 0
    BY <2>1, <2>3
  <2>5. DeleteObjKeyFromIndex(idx, x) = [idx EXCEPT ![x] = @ - 1]
    BY <1>2, Zenon DEF DeleteObjKeyFromIndex, keys
  <2> QED BY <2>4, <2>5 DEF Index
<1> QED
  BY <1>1, <1>2, Zenon

(* Deleting keys one after the other yields an index value, increases no   *)
(* count and changes the count of no key that is not among them.           *)
LEMMA DeleteObjKeysType ==
  ASSUME NEW idx \in Index, NEW K \in SUBSET Rels, NEW keys \in Seq(K)
  PROVE  /\ DeleteObjKeysFromIndex(idx, keys) \in Index
         /\ \A y \in Rels \ K : DeleteObjKeysFromIndex(idx, keys)[y] = idx[y]
         /\ \A y \in Rels : DeleteObjKeysFromIndex(idx, keys)[y] <= idx[y]
<1> DEFINE N == Len(keys)
           G == [p \in Index \X (1..N) |-> DeleteObjKeyFromIndex(p[1], keys[p[2]])]
           F(f) == f = [n \in 0..N |-> IF n = 0 THEN idx
                                       ELSE DeleteObjKeyFromIndex(f[n - 1], keys[n])]
<1>1. N \in Nat /\ \A n \in 1..N : keys[n] \in K /\ keys[n] \in Rels
  OBVIOUS
<1> HIDE DEF N
<1>2. \A i \in Index : \A n \in 1..N : DeleteObjKeyFromIndex(i, keys[n]) \in Index
  BY <1>1, DeleteObjKeyType, Zenon
<1>3. G \in [Index \X (1..N) -> Index]
  BY <1>2, Zenon
<1>4. \A i \in Index : \A n \in 1..N : G[<<i, n>>] = DeleteObjKeyFromIndex(i, keys[n])
  BY Zenon
<1> HIDE DEF G
<1>5. PICK g \in [0..N -> Index] : Recursion(g, idx, N, G)
  BY <1>1, <1>3, RecursionExists, Zenon
<1>6. F(g)
  <2>1. g[0] = idx /\ \A n \in 1..N : g[n] = G[<<g[n - 1], n>>]
    BY <1>5, Zenon DEF Recursion
  <2>2. ASSUME NEW n \in 0..N
        PROVE  g[n] = IF n = 0 THEN idx ELSE DeleteObjKeyFromIndex(g[n - 1], keys[n])
    <3>1. CASE n = 0
      BY <2>1, <3>1, Zenon
    <3>2. CASE n # 0
      <4>1. n \in 1..N /\ n - 1 \in 0..N
        BY <1>1, <3>2
      <4> QED BY <1>4, <2>1, <3>2, <4>1, Zenon
    <3> QED BY <3>1, <3>2, Zenon
  <2> QED BY <2>2, Zenon
<1>7. PICK f : F(f) /\ DeleteObjKeysFromIndex(idx, keys) = f[N]
  BY <1>6, Zenon DEF DeleteObjKeysFromIndex, N
<1> DEFINE S == {n \in 0..N : /\ f[n] \in Index
                              /\ \A y \in Rels \ K : f[n][y] = idx[y]
                              /\ \A y \in Rels : f[n][y] <= idx[y]}
<1>8. 0 \in S
  BY <1>1, <1>7 DEF Index
<1>9. \A n \in 0..(N - 1) : n \in S => n + 1 \in S
  <2> SUFFICES ASSUME NEW n \in 0..(N - 1), n \in S PROVE n + 1 \in S
    BY Zenon
  <2>1. n + 1 \in 1..N /\ n + 1 \in 0..N /\ (n + 1) - 1 = n /\ n + 1 # 0
    BY <1>1
  <2>2. f[n + 1] = DeleteObjKeyFromIndex(f[n], keys[n + 1])
    BY <1>7, <2>1, Zenon
  <2>3. keys[n + 1] \in K /\ keys[n + 1] \in Rels /\ f[n] \in Index
    BY <1>1, <2>1, Zenon
  <2>4. /\ f[n + 1] \in Index
        /\ \A y \in Rels : y # keys[n + 1] => f[n + 1][y] = f[n][y]
        /\ \A y \in Rels : f[n + 1][y] <= f[n][y]
    <3> DEFINE d == DeleteObjKeyFromIndex(f[n], keys[n + 1])
    <3>1. /\ d \in Index
          /\ \A y \in Rels : y # keys[n + 1] => d[y] = f[n][y]
          /\ \A y \in Rels : d[y] <= f[n][y]
      BY <2>3, DeleteObjKeyType, Zenon
    <3> HIDE DEF d
    <3> QED BY <2>2, <3>1, Zenon DEF d
  <2>5. \A y \in Rels \ K : f[n + 1][y] = idx[y]
    BY <2>3, <2>4, Zenon
  <2>6. \A y \in Rels : f[n + 1][y] <= idx[y]
    BY <2>3, <2>4 DEF Index
  <2> QED BY <2>1, <2>4, <2>5, <2>6, Zenon
<1> HIDE DEF S
<1>10. N \in S
  <2>1. N \in 0..N
    BY <1>1
  <2> QED BY <1>1, <1>8, <1>9, <2>1, BoundedInduction, Zenon
<1> QED
  BY <1>7, <1>10, Zenon DEF S

(* An index value holds only keys of relationships that belong there.      *)
IndexesOwnKeys ==
  \A x \in Rels : /\ \A r \in Refs : db.subj[r][x] > 0 => x.subj = r
                  /\ \A r \in Refs : db.obj[r][x] > 0 => x.obj = r
                  /\ \A p \in Preds : db.pred[p][x] > 0 => x.pred = p

(* The inductive invariant.  LiveIffIndexedAtBothEnds is not inductive by  *)
(* itself: DeleteResource removes whatever the deleted resource's indexes  *)
(* list, and only IndexesOwnKeys says that these are its relationships.    *)
GraphInv ==
  /\ TypeOK
  /\ IndexesOwnKeys
  /\ LiveIffIndexedAtBothEnds
  /\ PredicateIndexComplete

-----------------------------------------------------------------------------

(* A batch of AddRelationships puts a key into an index as often as the    *)
(* relationship occurs in it: at least once exactly for its members.       *)
LEMMA OccurrencesPositive ==
  ASSUME NEW batch \in Seq(Rels), NEW x
  PROVE  /\ Occurrences(batch, x) \in Nat
         /\ Occurrences(batch, x) > 0 <=> x \in Range(batch)
<1> DEFINE at == {i \in DOMAIN batch : batch[i] = x}
<1>1. IsFiniteSet(DOMAIN batch)
  <2>1. DOMAIN batch = 1..Len(batch) /\ Len(batch) \in Nat
    OBVIOUS
  <2> QED BY <2>1, FS_Interval
<1>2. IsFiniteSet(at) /\ Cardinality(at) \in Nat /\ (Cardinality(at) = 0 <=> at = {})
  BY <1>1, FS_Subset, FS_CardinalityType, FS_EmptySet, Zenon
<1>3. at # {} <=> x \in Range(batch)
  BY Zenon DEF Range
<1> QED
  BY <1>2, <1>3 DEF Occurrences

(* addObjKeyToIndex turns an index value into one with the counts of the   *)
(* batch added for the members of the index.                               *)
LEMMA AddObjKeysType ==
  ASSUME NEW idx \in Index, NEW batch \in Seq(Rels), NEW M
  PROVE  /\ AddObjKeysToIndex(idx, batch, M) \in Index
         /\ \A x \in Rels :
              AddObjKeysToIndex(idx, batch, M)[x] > 0
                <=> idx[x] > 0 \/ (x \in M /\ x \in Range(batch))
<1>1. \A x \in Rels : Occurrences(batch, x) \in Nat
                      /\ (Occurrences(batch, x) > 0 <=> x \in Range(batch))
  BY OccurrencesPositive, Zenon
<1>2. \A x \in Rels : idx[x] \in Nat
  BY Zenon DEF Index
<1> QED
  BY <1>1, <1>2 DEF AddObjKeysToIndex, Index

(* The new database is empty, so the invariant holds.                      *)
LEMMA InitInv ==
  Init => GraphInv
<1> SUFFICES ASSUME Init PROVE GraphInv
  BY Zenon
<1>1. EmptyIndex \in Index /\ \A x \in Rels : EmptyIndex[x] = 0
  BY Zenon DEF EmptyIndex, Index
<1>2. TypeOK
  BY <1>1, Zenon DEF Init, EmptyDB, TypeOK, DB
<1>3. db.rel = {} /\ \A x \in Rels : /\ \A r \in Refs : db.subj[r][x] = 0 /\ db.obj[r][x] = 0
                                     /\ \A p \in Preds : db.pred[p][x] = 0
  BY <1>1, Zenon DEF Init, EmptyDB
<1> QED
  BY <1>2, <1>3, RelsType DEF GraphInv, IndexesOwnKeys, LiveIffIndexedAtBothEnds, PredicateIndexComplete

(* The parts of the invariant that mention the indexes and the relations   *)
(* depend on nothing else in the database.                                 *)
LEMMA RsrcInv ==
  ASSUME GraphInv, NEW v \in [Refs -> Resource \cup {None}],
         db' = [db EXCEPT !.rsrc = v]
  PROVE  GraphInv'
<1>1. TypeOK'
  BY Zenon DEF GraphInv, TypeOK, DB
<1>2. db'.rel = db.rel /\ db'.subj = db.subj /\ db'.obj = db.obj /\ db'.pred = db.pred
  BY Zenon DEF GraphInv, TypeOK, DB
<1> QED
  BY <1>1, <1>2, Zenon DEF GraphInv, IndexesOwnKeys, LiveIffIndexedAtBothEnds, PredicateIndexComplete

(* AddResource writes one resource.                                        *)
LEMMA AddResourceInv ==
  ASSUME GraphInv, NEW r \in Refs, AddResource(r)
  PROVE  GraphInv'
<1>1. PICK now \in Times : db' = AddResourceTxn(db, r, now)
  BY Zenon DEF AddResource
<1> DEFINE v == [db.rsrc EXCEPT ![r] = [created |-> now, updated |-> now]]
<1>2. v \in [Refs -> Resource \cup {None}]
  BY GraphAssumption, Zenon DEF GraphInv, TypeOK, DB, Resource
<1>3. db' = [db EXCEPT !.rsrc = v]
  BY <1>1, Zenon DEF GraphInv, TypeOK, DB, AddResourceTxn
<1> HIDE DEF v
<1> QED
  BY <1>2, <1>3, RsrcInv, Zenon

(* So does UpdateResource, which keeps the time of creation.               *)
LEMMA UpdateResourceInv ==
  ASSUME GraphInv, NEW r \in Refs, UpdateResource(r)
  PROVE  GraphInv'
<1>1. PICK now \in Times : db' = UpdateResourceTxn(db, r, now)
  BY Zenon DEF UpdateResource
<1> DEFINE old == db.rsrc[r]
           new == [created |-> IF old = None THEN now ELSE old.created, updated |-> now]
           v == [db.rsrc EXCEPT ![r] = new]
<1>2. old \in Resource \cup {None} /\ now \in Nat
  BY GraphAssumption, Zenon DEF GraphInv, TypeOK, DB
<1>3. new \in Resource
  BY <1>2, Zenon DEF Resource
<1>4. v \in [Refs -> Resource \cup {None}]
  BY <1>3, Zenon DEF GraphInv, TypeOK, DB
<1>5. db' = [db EXCEPT !.rsrc = v]
  BY <1>1, Zenon DEF GraphInv, TypeOK, DB, UpdateResourceTxn
<1> HIDE DEF v
<1> QED
  BY <1>4, <1>5, RsrcInv, Zenon

(* AddRelationships writes the objects and their keys into all three       *)
(* indexes in one transaction.                                             *)
LEMMA AddRelationshipsInv ==
  ASSUME GraphInv, NEW b \in Batches, AddRelationships(b)
  PROVE  GraphInv'
<1> DEFINE subjM(r) == {x \in Rels : x.subj = r}
           objM(r) == {x \in Rels : x.obj = r}
           predM(p) == {x \in Rels : x.pred = p}
           S(r) == AddObjKeysToIndex(db.subj[r], b, subjM(r))
           O(r) == AddObjKeysToIndex(db.obj[r], b, objM(r))
           P(p) == AddObjKeysToIndex(db.pred[p], b, predM(p))
<1>1. b \in Seq(Rels) /\ Range(b) \subseteq Rels
  BY GraphAssumption DEF Range
<1>2. /\ db.rsrc \in [Refs -> Resource \cup {None}] /\ db.rel \in SUBSET Rels
      /\ db.subj \in [Refs -> Index] /\ db.obj \in [Refs -> Index] /\ db.pred \in [Preds -> Index]
  BY Zenon DEF GraphInv, TypeOK, DB
<1>3. /\ db'.rsrc = db.rsrc /\ db'.rel = db.rel \cup Range(b)
      /\ db'.subj = [r \in Refs |-> S(r)] /\ db'.obj = [r \in Refs |-> O(r)]
      /\ db'.pred = [p \in Preds |-> P(p)]
      /\ db' = [rsrc |-> db'.rsrc, rel |-> db'.rel, subj |-> db'.subj, obj |-> db'.obj, pred |-> db'.pred]
  BY Zenon DEF AddRelationships, AddRelationshipsTxn
<1>4. \A r \in Refs : /\ S(r) \in Index
                      /\ \A x \in Rels : S(r)[x] > 0 <=> db.subj[r][x] > 0 \/ (x.subj = r /\ x \in Range(b))
  BY <1>1, <1>2, AddObjKeysType
<1>5. \A r \in Refs : /\ O(r) \in Index
                      /\ \A x \in Rels : O(r)[x] > 0 <=> db.obj[r][x] > 0 \/ (x.obj = r /\ x \in Range(b))
  BY <1>1, <1>2, AddObjKeysType
<1>6. \A p \in Preds : /\ P(p) \in Index
                       /\ \A x \in Rels : P(p)[x] > 0 <=> db.pred[p][x] > 0 \/ (x.pred = p /\ x \in Range(b))
  BY <1>1, <1>2, AddObjKeysType
<1> HIDE DEF S, O, P
<1>7. TypeOK'
  BY <1>1, <1>2, <1>3, <1>4, <1>5, <1>6 DEF TypeOK, DB
<1>8. IndexesOwnKeys'
  BY <1>3, <1>4, <1>5, <1>6 DEF GraphInv, IndexesOwnKeys
<1>9. LiveIffIndexedAtBothEnds'
  <2> SUFFICES ASSUME NEW x \in Rels
               PROVE  x \in db'.rel <=> db'.subj[x.subj][x] > 0 /\ db'.obj[x.obj][x] > 0
    BY Zenon DEF LiveIffIndexedAtBothEnds
  <2>1. x.subj \in Refs /\ x.obj \in Refs
    BY RelsType, Zenon
  <2>2. /\ db'.subj[x.subj][x] > 0 <=> db.subj[x.subj][x] > 0 \/ x \in Range(b)
        /\ db'.obj[x.obj][x] > 0 <=> db.obj[x.obj][x] > 0 \/ x \in Range(b)
    BY <1>3, <1>4, <1>5, <2>1
  <2>3. x \in db.rel <=> db.subj[x.subj][x] > 0 /\ db.obj[x.obj][x] > 0
    BY Zenon DEF GraphInv, LiveIffIndexedAtBothEnds
  <2> QED BY <1>3, <2>2, <2>3, Zenon
<1>10. PredicateIndexComplete'
  <2> SUFFICES ASSUME NEW x \in db'.rel PROVE db'.pred[x.pred][x] > 0
    BY Zenon DEF PredicateIndexComplete
  <2>1. x \in Rels /\ x.pred \in Preds
    BY <1>1, <1>2, <1>3, RelsType, Zenon
  <2>2. db'.pred[x.pred][x] > 0 <=> db.pred[x.pred][x] > 0 \/ x \in Range(b)
    BY <1>3, <1>6, <2>1
  <2> QED BY <1>3, <2>2, Zenon DEF GraphInv, PredicateIndexComplete
<1> QED
  BY <1>7, <1>8, <1>9, <1>10, Zenon DEF GraphInv

(* DeleteResource removes from the relationships what its own two indexes  *)
(* list, which are by IndexesOwnKeys the relationships with the resource   *)
(* at an end, and by LiveIffIndexedAtBothEnds all of those that exist.     *)
LEMMA DeleteResourceInv ==
  ASSUME GraphInv, NEW r \in Refs, DeleteResource(r)
  PROVE  /\ GraphInv'
         /\ \A x \in db'.rel : x.subj # r /\ x.obj # r
<1> DEFINE gone == IndexedObjects(db, r)
           keys == Layout(db.subj[r]) \o Layout(db.obj[r])
           P(p) == DeleteObjKeysFromIndex(db.pred[p], keys)
<1>1. /\ db.rsrc \in [Refs -> Resource \cup {None}] /\ db.rel \in SUBSET Rels
      /\ db.subj \in [Refs -> Index] /\ db.obj \in [Refs -> Index] /\ db.pred \in [Preds -> Index]
  BY Zenon DEF GraphInv, TypeOK, DB
<1>2. /\ db'.rsrc = [db.rsrc EXCEPT ![r] = None] /\ db'.rel = db.rel \ gone
      /\ db'.subj = [db.subj EXCEPT ![r] = EmptyIndex] /\ db'.obj = [db.obj EXCEPT ![r] = EmptyIndex]
      /\ db'.pred = [p \in Preds |-> P(p)]
      /\ db' = [rsrc |-> db'.rsrc, rel |-> db'.rel, subj |-> db'.subj, obj |-> db'.obj, pred |-> db'.pred]
  BY Zenon DEF DeleteResource, DeleteResourceTxn
<1>3. EmptyIndex \in Index /\ \A x \in Rels : EmptyIndex[x] = 0
  BY Zenon DEF EmptyIndex, Index
<1>4. gone \in SUBSET Rels /\ \A x \in Rels : x \in gone <=> db.subj[r][x] > 0 \/ db.obj[r][x] > 0
  BY Zenon DEF IndexedObjects
<1>5. keys \in Seq(gone)
  <2> DEFINE s == Layout(db.subj[r])
             o == Layout(db.obj[r])
  <2>1. s \in Seq({x \in Rels : db.subj[r][x] > 0}) /\ o \in Seq({x \in Rels : db.obj[r][x] > 0})
    BY <1>1, LayoutType, Zenon
  <2>2. {x \in Rels : db.subj[r][x] > 0} \subseteq gone /\ {x \in Rels : db.obj[r][x] > 0} \subseteq gone
    BY <1>4, Zenon
  <2> HIDE DEF s, o, gone
  <2>3. s \in Seq(gone) /\ o \in Seq(gone)
    BY <2>1, <2>2
  <2>4. s \o o \in Seq(gone)
    BY <2>3
  <2> QED BY <2>4, Zenon DEF s, o
<1> HIDE DEF gone, keys
<1>6. \A p \in Preds : /\ P(p) \in Index
                       /\ \A x \in Rels \ gone : P(p)[x] = db.pred[p][x]
                       /\ \A x \in Rels : P(p)[x] <= db.pred[p][x]
  BY <1>1, <1>4, <1>5, DeleteObjKeysType, Zenon
<1> HIDE DEF P
<1>7. TypeOK'
  BY <1>1, <1>2, <1>3, <1>6 DEF TypeOK, DB
<1>8. IndexesOwnKeys'
  <2> SUFFICES ASSUME NEW x \in Rels
               PROVE  /\ \A q \in Refs : db'.subj[q][x] > 0 => x.subj = q
                      /\ \A q \in Refs : db'.obj[q][x] > 0 => x.obj = q
                      /\ \A p \in Preds : db'.pred[p][x] > 0 => x.pred = p
    BY Zenon DEF IndexesOwnKeys
  <2>1. ASSUME NEW q \in Refs
        PROVE  (db'.subj[q][x] > 0 => x.subj = q) /\ (db'.obj[q][x] > 0 => x.obj = q)
    BY <1>1, <1>2, <1>3 DEF GraphInv, IndexesOwnKeys
  <2>2. ASSUME NEW p \in Preds, db'.pred[p][x] > 0 PROVE x.pred = p
    <3>1. db.pred[p][x] \in Nat /\ P(p)[x] \in Nat
      BY <1>1, <1>6, Zenon DEF Index
    <3>2. db.pred[p][x] > 0
      BY <1>2, <1>6, <2>2, <3>1
    <3> QED BY <3>2, Zenon DEF GraphInv, IndexesOwnKeys
  <2> QED BY <2>1, <2>2, Zenon
<1>9. LiveIffIndexedAtBothEnds' /\ \A x \in db'.rel : x.subj # r /\ x.obj # r
  <2>1. ASSUME NEW x \in Rels
        PROVE  /\ x \in db'.rel <=> db'.subj[x.subj][x] > 0 /\ db'.obj[x.obj][x] > 0
               /\ x \in db'.rel => x.subj # r /\ x.obj # r
    <3>1. x.subj \in Refs /\ x.obj \in Refs
      BY RelsType, Zenon
    <3>2. x \in db.rel <=> db.subj[x.subj][x] > 0 /\ db.obj[x.obj][x] > 0
      BY Zenon DEF GraphInv, LiveIffIndexedAtBothEnds
    <3>3. CASE x.subj = r \/ x.obj = r
      <4>1. ~(db'.subj[x.subj][x] > 0 /\ db'.obj[x.obj][x] > 0)
        BY <1>1, <1>2, <1>3, <3>1, <3>3
      <4>2. x \in db.rel => x \in gone
        BY <1>4, <3>2, <3>3, Zenon
      <4> QED BY <1>2, <4>1, <4>2, Zenon
    <3>4. CASE x.subj # r /\ x.obj # r
      <4>1. x \notin gone
        BY <1>4, <3>4, Zenon DEF GraphInv, IndexesOwnKeys
      <4>2. db'.subj[x.subj] = db.subj[x.subj] /\ db'.obj[x.obj] = db.obj[x.obj]
        BY <1>1, <1>2, <3>1, <3>4, Zenon
      <4> QED BY <1>2, <3>2, <3>4, <4>1, <4>2, Zenon
    <3> QED BY <3>3, <3>4, Zenon
  <2> QED BY <1>1, <1>2, <2>1, Zenon DEF LiveIffIndexedAtBothEnds
<1>10. PredicateIndexComplete'
  <2> SUFFICES ASSUME NEW x \in db'.rel PROVE db'.pred[x.pred][x] > 0
    BY Zenon DEF PredicateIndexComplete
  <2>1. x \in Rels /\ x \in db.rel /\ x \notin gone /\ x.pred \in Preds
    BY <1>1, <1>2, RelsType, Zenon
  <2>2. db'.pred[x.pred][x] = db.pred[x.pred][x]
    BY <1>2, <1>6, <2>1
  <2> QED BY <2>1, <2>2, Zenon DEF GraphInv, PredicateIndexComplete
<1> QED
  BY <1>7, <1>8, <1>9, <1>10, Zenon DEF GraphInv

-----------------------------------------------------------------------------

(* GraphInv holds in every reachable state.                                *)
THEOREM Invariance == Spec => []GraphInv
<1>1. Init => GraphInv
  BY InitInv, Zenon
<1>2. GraphInv /\ [Next]_db => GraphInv'
  <2> SUFFICES ASSUME GraphInv, [Next]_db PROVE GraphInv'
    BY Zenon
  <2>1. ASSUME NEW r \in Refs, AddResource(r) PROVE GraphInv'
    BY <2>1, AddResourceInv, Zenon
  <2>2. ASSUME NEW r \in Refs, UpdateResource(r) PROVE GraphInv'
    BY <2>2, UpdateResourceInv, Zenon
  <2>3. ASSUME NEW r \in Refs, DeleteResource(r) PROVE GraphInv'
    BY <2>3, DeleteResourceInv, Zenon
  <2>4. ASSUME NEW b \in Batches, AddRelationships(b) PROVE GraphInv'
    BY <2>4, AddRelationshipsInv, Zenon
  <2>5. CASE UNCHANGED db
    BY <2>5, Zenon DEF GraphInv, TypeOK, IndexesOwnKeys, LiveIffIndexedAtBothEnds, PredicateIndexComplete
  <2> QED BY <2>1, <2>2, <2>3, <2>4, <2>5, Zenon DEF Next
<1> QED
  BY <1>1, <1>2, PTL DEF Spec

(* The database keeps its type: no sequence of operations drives a count   *)
(* of object keys below zero.                                              *)
THEOREM TypeCorrect == Spec => []TypeOK
<1>1. GraphInv => TypeOK
  BY Zenon DEF GraphInv
<1> QED
  BY <1>1, Invariance, PTL

(* A relationship exists exactly when both its ends' indexes hold its key. *)
THEOREM LiveCorrect == Spec => []LiveIffIndexedAtBothEnds
<1>1. GraphInv => LiveIffIndexedAtBothEnds
  BY Zenon DEF GraphInv
<1> QED
  BY <1>1, Invariance, PTL

(* No relationship ever drops out of its predicate's index.                *)
THEOREM PredicateCorrect == Spec => []PredicateIndexComplete
<1>1. GraphInv => PredicateIndexComplete
  BY Zenon DEF GraphInv
<1> QED
  BY <1>1, Invariance, PTL

(* What the indexes of a query hold: keys of all the relationships that    *)
(* match it, and of no others that exist.                                  *)
LEMMA ObjKeysMatch ==
  ASSUME GraphInv, NEW q \in Query
  PROVE  /\ ObjKeys(db, q) \cap db.rel \subseteq Matching(db, q)
         /\ Matching(db, q) \subseteq ObjKeys(db, q)
         /\ {"subj", "obj"} \subseteq Filters(q) => ObjKeys(db, q) = Matching(db, q)
<1>1. /\ q.subj # None => q.subj \in Refs
      /\ q.obj # None => q.obj \in Refs
      /\ q.pred # None => q.pred \in Preds
  BY Zenon DEF Query
<1>2. ASSUME NEW x \in ObjKeys(db, q), NEW f \in Filters(q) PROVE x \in Rels /\ x[f] = q[f]
  <2>1. x \in Rels /\ db[f][q[f]][x] > 0 /\ q[f] # None
    BY Zenon DEF ObjKeys, Filters
  <2>2. CASE f = "subj"
    BY <1>1, <2>1, <2>2, Zenon DEF GraphInv, IndexesOwnKeys
  <2>3. CASE f = "obj"
    BY <1>1, <2>1, <2>3, Zenon DEF GraphInv, IndexesOwnKeys
  <2>4. CASE f = "pred"
    BY <1>1, <2>1, <2>4, Zenon DEF GraphInv, IndexesOwnKeys
  <2> QED BY <2>1, <2>2, <2>3, <2>4, Zenon DEF Filters
<1>3. ObjKeys(db, q) \cap db.rel \subseteq Matching(db, q)
  BY <1>2, Zenon DEF Matching
<1>4. ASSUME NEW x \in Matching(db, q) PROVE x \in ObjKeys(db, q)
  <2>1. x \in db.rel /\ x \in Rels /\ \A f \in Filters(q) : x[f] = q[f]
    BY Zenon DEF Matching, GraphInv, TypeOK, DB
  <2>2. db.subj[x.subj][x] > 0 /\ db.obj[x.obj][x] > 0 /\ db.pred[x.pred][x] > 0
    BY <2>1, Zenon DEF GraphInv, LiveIffIndexedAtBothEnds, PredicateIndexComplete
  <2>3. ASSUME NEW f \in Filters(q) PROVE db[f][q[f]][x] > 0
    <3>1. q[f] = x[f]
      BY <2>1, Zenon
    <3>2. f = "subj" \/ f = "obj" \/ f = "pred"
      BY Zenon DEF Filters
    <3> QED BY <2>2, <3>1, <3>2, Zenon
  <2> QED BY <2>1, <2>3, Zenon DEF ObjKeys
<1>5. ASSUME {"subj", "obj"} \subseteq Filters(q) PROVE ObjKeys(db, q) = Matching(db, q)
  <2>1. ASSUME NEW x \in ObjKeys(db, q) PROVE x \in db.rel
    <3>1. x \in Rels /\ x.subj = q.subj /\ x.obj = q.obj
      BY <1>2, <1>5, Zenon
    <3>2. db.subj[q.subj][x] > 0 /\ db.obj[q.obj][x] > 0
      BY <1>5, Zenon DEF ObjKeys
    <3> QED BY <3>1, <3>2, Zenon DEF GraphInv, LiveIffIndexedAtBothEnds
  <2> QED BY <1>3, <1>4, <2>1, Zenon
<1> QED
  BY <1>3, <1>4, <1>5, Zenon

(* GetRelationships returns a nil error when it found something and did    *)
(* not fail.                                                               *)
LEMMA AnswerSays ==
  \A found, failed : /\ Answer(found, failed).found = found
                     /\ Answer(found, failed).err = "nil" => found # {} /\ ~failed
<1> SUFFICES ASSUME NEW found, NEW failed
             PROVE  /\ Answer(found, failed).found = found
                    /\ Answer(found, failed).err = "nil" => found # {} /\ ~failed
  OBVIOUS
<1>1. /\ Answer(found, failed).found = found
      /\ Answer(found, failed).err = IF found = {} THEN "not found" ELSE IF failed THEN "failed" ELSE "nil"
  BY Zenon DEF Answer
<1>2. "nil" # "not found" /\ "nil" # "failed"
  OBVIOUS
<1> QED
  BY <1>1, <1>2, Zenon

(* Whatever GetRelationships returns exists and matches the query, and a   *)
(* nil error means that it is all that does.                               *)
THEOREM QueriesSoundCorrect == Spec => []QueriesSound
<1>1. GraphInv => QueriesSound
  <2> SUFFICES ASSUME GraphInv, NEW q \in Query, NEW answer \in GetRelationships(db, q)
               PROVE  /\ answer.found \subseteq Matching(db, q)
                      /\ answer.err = "nil" => answer.found = Matching(db, q)
    BY Zenon DEF QueriesSound
  <2> DEFINE keys == ObjKeys(db, q)
             prefix == {x \in keys : \A y \in keys : Pos(y) <= Pos(x) => y \in db.rel}
             stale == ~(keys \subseteq db.rel)
  <2>1. PICK found : /\ \/ found = {}
                        \/ found = prefix
                        \/ found \subseteq keys \cap db.rel /\ (stale \/ found = keys)
                     /\ answer = Answer(found, stale) \/ (found = {} /\ answer = Answer(found, TRUE))
    <3>1. CASE Filters(q) = {}
      BY <3>1, Zenon DEF GetRelationships
    <3>2. CASE Filters(q) # {} /\ Filters(q) \in {{"subj"}, {"obj"}, {"pred"}}
      <4>1. answer = Answer(prefix, stale)
        BY <3>2, Zenon DEF GetRelationships
      <4> QED BY <4>1, Zenon
    <3>3. CASE Filters(q) # {} /\ Filters(q) \notin {{"subj"}, {"obj"}, {"pred"}}
      <4>1. answer \in {Answer(found, stale) : found \in IF stale THEN SUBSET (keys \cap db.rel) ELSE {keys}}
        BY <3>3, Zenon DEF GetRelationships
      <4>2. PICK found \in IF stale THEN SUBSET (keys \cap db.rel) ELSE {keys} : answer = Answer(found, stale)
        BY <4>1, Zenon
      <4>3. found \subseteq keys \cap db.rel /\ (stale \/ found = keys)
        BY <4>2, Zenon
      <4> QED BY <4>2, <4>3, Zenon
    <3> QED BY <3>1, <3>2, <3>3, Zenon
  <2>2. /\ answer.found = found
        /\ answer.err = "nil" => found # {} /\ ~stale
    BY <2>1, AnswerSays, Zenon
  <2>3. keys \cap db.rel \subseteq Matching(db, q) /\ Matching(db, q) \subseteq keys
    BY ObjKeysMatch, Zenon
  <2>4. prefix \subseteq keys \cap db.rel
    <3>1. ASSUME NEW x \in keys PROVE Pos(x) <= Pos(x)
      <4>1. x \in Rels
        BY Zenon DEF ObjKeys
      <4> QED BY <4>1, PosType
    <3> QED BY <3>1, Zenon
  <2>5. ~stale => prefix = keys
    BY Zenon
  <2> HIDE DEF prefix
  <2> QED BY <2>1, <2>2, <2>3, <2>4, <2>5, Zenon
<1> QED
  BY <1>1, Invariance, PTL

(* A query by subject and object returns exactly what it should, whatever  *)
(* deletions have left behind in the indexes.                              *)
THEOREM EndpointQueriesCorrect == Spec => []EndpointQueriesExact
<1>1. GraphInv => EndpointQueriesExact
  <2> SUFFICES ASSUME GraphInv, NEW q \in Query, {"subj", "obj"} \subseteq Filters(q)
               PROVE  GetRelationships(db, q) = {Answer(Matching(db, q), FALSE)}
    BY Zenon DEF EndpointQueriesExact
  <2>1. ObjKeys(db, q) = Matching(db, q)
    BY ObjKeysMatch, Zenon
  <2>2. Matching(db, q) \subseteq db.rel
    BY Zenon DEF Matching
  <2>3. Filters(q) # {} /\ Filters(q) \notin {{"subj"}, {"obj"}, {"pred"}}
    BY Zenon
  <2> QED BY <2>1, <2>2, <2>3, Zenon DEF GetRelationships
<1> QED
  BY <1>1, Invariance, PTL

(* A resource never goes while a relationship with it at an end stays.     *)
THEOREM CascadeCorrect == Spec => CascadeDelete
<1> DEFINE Cascade == \A r \in Refs : db.rsrc[r] # None /\ db'.rsrc[r] = None
                        => \A x \in db'.rel : x.subj # r /\ x.obj # r
<1>1. GraphInv /\ [Next]_db => [Cascade]_db
  <2> SUFFICES ASSUME GraphInv, Next, NEW r \in Refs, db.rsrc[r] # None, db'.rsrc[r] = None
               PROVE  \A x \in db'.rel : x.subj # r /\ x.obj # r
    BY Zenon
  <2>1. db \in DB
    BY Zenon DEF GraphInv, TypeOK
  <2>2. ASSUME NEW s \in Refs, AddResource(s) PROVE FALSE
    <3>1. PICK now \in Times : db' = AddResourceTxn(db, s, now)
      BY <2>2, Zenon DEF AddResource
    <3>2. [created |-> now, updated |-> now] \in Resource
      BY GraphAssumption, Zenon DEF Resource
    <3>3. db'.rsrc[r] = IF r = s THEN [created |-> now, updated |-> now] ELSE db.rsrc[r]
      BY <2>1, <3>1, Zenon DEF AddResourceTxn, DB
    <3> QED BY <3>2, <3>3, NoneAssumption, Zenon
  <2>3. ASSUME NEW s \in Refs, UpdateResource(s) PROVE FALSE
    <3>1. PICK now \in Times : db' = UpdateResourceTxn(db, s, now)
      BY <2>3, Zenon DEF UpdateResource
    <3> DEFINE old == db.rsrc[s]
               new == [created |-> IF old = None THEN now ELSE old.created, updated |-> now]
    <3>2. new \in Resource
      <4>1. old \in Resource \cup {None} /\ now \in Nat
        BY <2>1, GraphAssumption, Zenon DEF DB
      <4> QED BY <4>1, Zenon DEF Resource
    <3>3. db'.rsrc[r] = IF r = s THEN new ELSE db.rsrc[r]
      BY <2>1, <3>1, Zenon DEF UpdateResourceTxn, DB
    <3> HIDE DEF new
    <3> QED BY <3>2, <3>3, NoneAssumption, Zenon
  <2>4. ASSUME NEW s \in Refs, DeleteResource(s)
        PROVE  \A x \in db'.rel : x.subj # r /\ x.obj # r
    <3>1. r = s
      BY <2>1, <2>4 DEF DeleteResource, DeleteResourceTxn, DB
    <3> QED BY <2>4, <3>1, DeleteResourceInv, Zenon
  <2>5. ASSUME NEW b \in Batches, AddRelationships(b) PROVE FALSE
    BY <2>5, Zenon DEF AddRelationships, AddRelationshipsTxn
  <2> QED BY <2>2, <2>3, <2>4, <2>5, Zenon DEF Next
<1> QED
  BY <1>1, Invariance, PTL DEF Spec, CascadeDelete

=============================================================================
