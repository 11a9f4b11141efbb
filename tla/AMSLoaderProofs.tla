-------------------------- MODULE AMSLoaderProofs --------------------------
(***************************************************************************)
(* Proofs about the AMS configuration loader, for every set of keys,       *)
(* objects, responses and watchers: the algorithms of container/heap keep  *)
(* the heap a heap, every step of the cache keeps heap and cache in step,  *)
(* versions in the cache never decrease, what was acknowledged is cached,  *)
(* and every subscriber is sent what is cached.                            *)
(***************************************************************************)
EXTENDS AMSLoader, WellFoundedInduction, TLAPS


-----------------------------------------------------------------------------
(* Sequences.                                                              *)

(* A sequence is a function on the positions up to its length.             *)
LEMMA SequenceFacts ==
  ASSUME NEW S, NEW q \in Seq(S)
  PROVE  Len(q) \in Nat /\ DOMAIN q = 1..Len(q) /\ q \in [1..Len(q) -> S]
OBVIOUS

(* The empty sequence is the one of length 0.                              *)
LEMMA EmptyFacts ==
  ASSUME NEW S
  PROVE  <<>> \in Seq(S) /\ Len(<<>>) = 0 /\ \A q \in Seq(S) : q = <<>> <=> Len(q) = 0
OBVIOUS

(* Append adds one position and keeps the others.                          *)
LEMMA AppendFacts ==
  ASSUME NEW S, NEW q \in Seq(S), NEW e \in S
  PROVE  /\ Append(q, e) \in Seq(S) /\ Len(Append(q, e)) = Len(q) + 1
         /\ Append(q, e)[Len(q) + 1] = e
         /\ \A i \in 1..Len(q) : Append(q, e)[i] = q[i]
OBVIOUS

(* Tail shifts the positions by one.                                       *)
LEMMA TailFacts ==
  ASSUME NEW S, NEW q \in Seq(S), q # <<>>
  PROVE  /\ Head(q) \in S /\ Head(q) = q[1]
         /\ Tail(q) \in Seq(S) /\ Len(Tail(q)) = Len(q) - 1
         /\ \A i \in 1..Len(Tail(q)) : Tail(q)[i] = q[i + 1]
OBVIOUS

-----------------------------------------------------------------------------
(* Induction and iteration up to a bound.                                  *)

(* A set that holds 0 and the successor of each of its members up to a     *)
(* bound holds that bound.                                                 *)
LEMMA InductionUpTo ==
  ASSUME NEW S, NEW N \in Nat, 0 \in S,
         \A n \in 0..(N - 1) : n \in S => n + 1 \in S
  PROVE  N \in S
<1> DEFINE T == (0..N) \ S
           R == OpToRel(<, Nat)
<1> SUFFICES ASSUME T # {} PROVE FALSE
  OBVIOUS
<1>1. IsWellFoundedOn(R, Nat)
  BY NatLessThanWellFounded, Zenon
<1>2. \A x, y \in Nat : y < x => <<y, x>> \in R
  BY Zenon DEF OpToRel
<1>3. T \subseteq Nat
  OBVIOUS
<1> HIDE DEF R
<1>4. PICK x \in T : \A y \in T : ~(<<y, x>> \in R)
  <2> HIDE DEF T
  <2> QED BY <1>1, <1>3, WFMin, Zenon
<1>5. x # 0 /\ x - 1 \in 0..(N - 1) /\ (x - 1) + 1 = x
  OBVIOUS
<1>6. x - 1 \in S
  <2>1. x - 1 \in Nat /\ x \in Nat /\ x - 1 < x /\ x - 1 \in 0..N
    BY <1>5
  <2>2. <<x - 1, x>> \in R
    BY <1>2, <2>1, Zenon
  <2>3. x - 1 \notin T
    BY <1>4, <2>2, Zenon
  <2> QED BY <2>1, <2>3, Zenon
<1> QED
  BY <1>5, <1>6, Zenon

(* f[0] is a, and f[n] is what the step function G makes of f[n - 1].      *)
Iterates(f, a, N, G) == f[0] = a /\ \A n \in 1..N : f[n] = G[f[n - 1]]

(* A first value and a step function can be iterated N times.              *)
LEMMA IterationExists ==
  ASSUME NEW T, NEW a \in T, NEW N \in Nat, NEW G \in [T -> T]
  PROVE  \E f \in [0..N -> T] : Iterates(f, a, N, G)
<1> DEFINE P(f, k) == f[0] = a /\ \A n \in 1..k : f[n] = G[f[n - 1]]
           S == {k \in 0..N : \E f \in [0..k -> T] : P(f, k)}
<1>1. 0 \in S
  <2> DEFINE f == [n \in 0..0 |-> a]
  <2>1. f \in [0..0 -> T] /\ P(f, 0)
    OBVIOUS
  <2> HIDE DEF f, P
  <2> QED BY <2>1
<1>2. \A k \in 0..(N - 1) : k \in S => k + 1 \in S
  <2> SUFFICES ASSUME NEW k \in 0..(N - 1), k \in S PROVE k + 1 \in S
    BY Zenon
  <2>1. PICK f \in [0..k -> T] : P(f, k)
    BY Zenon
  <2> DEFINE g == [n \in 0..(k + 1) |-> IF n <= k THEN f[n] ELSE G[f[k]]]
  <2>2. g \in [0..(k + 1) -> T]
    <3>1. f[k] \in T
      OBVIOUS
    <3> QED BY <3>1
  <2>3. P(g, k + 1)
    <3>1. g[0] = a
      BY <2>1
    <3>2. ASSUME NEW n \in 1..(k + 1) PROVE g[n] = G[g[n - 1]]
      <4>1. CASE n <= k
        <5>1. n \in 1..k /\ n \in 0..(k + 1) /\ n - 1 \in 0..(k + 1) /\ n - 1 <= k
          BY <4>1
        <5> QED BY <2>1, <4>1, <5>1, Zenon
      <4>2. CASE n = k + 1
        <5>1. n \in 0..(k + 1) /\ ~(n <= k) /\ n - 1 = k /\ k \in 0..(k + 1)
          BY <4>2
        <5> QED BY <5>1
      <4> QED BY <4>1, <4>2
    <3> QED BY <3>1, <3>2, Zenon
  <2> QED
    <3>1. k + 1 \in 0..N
      OBVIOUS
    <3> HIDE DEF g, P
    <3> QED BY <2>2, <2>3, <3>1, Zenon
<1> HIDE DEF S
<1>3. N \in S
  BY <1>1, <1>2, InductionUpTo, Zenon
<1> QED
  BY <1>3, Zenon DEF S, Iterates

-----------------------------------------------------------------------------
(* The order of a heap, about the times t[1], t[2], ... of its nodes.      *)

Parent(j) == j \div 2

(* The first n nodes are in order but for those at i and below i, and i's  *)
(* children are not less than i's parent.                                  *)
OrderAround(t, i, n) ==
  /\ \A j \in 2..n : j # i /\ Parent(j) # i => t[Parent(j)] <= t[j]
  /\ \A j \in 2..n : Parent(j) = i /\ i > 1 => t[Parent(i)] <= t[j]

ChildrenOrdered(t, i, n) == \A j \in 2..n : Parent(j) = i => t[i] <= t[j]

ParentOrdered(t, i) == i > 1 => t[Parent(i)] <= t[i]

Ordered(t, n) == \A j \in 2..n : t[Parent(j)] <= t[j]

Swapped(t, i, j) == [t EXCEPT ![i] = t[j], ![j] = t[i]]

(* Parents come first.                                                     *)
LEMMA ParentBelow ==
  /\ \A j \in Nat : j >= 2 => Parent(j) \in Nat /\ Parent(j) >= 1 /\ Parent(j) < j
  /\ \A j \in Nat : Parent(j) >= 1 => j >= 2
BY DEF Parent

(* Children by their positions.                                            *)
LEMMA ChildPositions ==
  /\ \A i \in Nat : Parent(2 * i) = i /\ Parent(2 * i + 1) = i
  /\ \A i, j \in Nat : Parent(j) = i => j = 2 * i \/ j = 2 * i + 1
BY DEF Parent

(* Order around a node, above it and below it is order.                    *)
LEMMA OrderEverywhere ==
  ASSUME NEW N \in Nat, NEW n \in 0..N, NEW t \in [1..N -> Nat], NEW i \in 1..N,
         OrderAround(t, i, n), ChildrenOrdered(t, i, n), ParentOrdered(t, i)
  PROVE  Ordered(t, n)
BY DEF OrderAround, ChildrenOrdered, ParentOrdered, Ordered

(* A node that is less than its parent changes places with it: the order   *)
(* is now disturbed only above it.                                         *)
LEMMA RiseKeepsOrder ==
  ASSUME NEW N \in Nat, NEW n \in 0..N, NEW t \in [1..N -> Nat], NEW i \in 1..n,
         OrderAround(t, i, n), ChildrenOrdered(t, i, n),
         Parent(i) >= 1, t[i] < t[Parent(i)]
  PROVE  LET u == Swapped(t, Parent(i), i)
         IN  OrderAround(u, Parent(i), n) /\ ChildrenOrdered(u, Parent(i), n)
<1>1. PICK p : p = Parent(i)
  BY Zenon
<1>2. p \in 1..n /\ p < i /\ i >= 2
  <2>1. i \in Nat /\ i >= 2
    BY ParentBelow
  <2>2. p \in Nat /\ p >= 1 /\ p < i
    BY <1>1, <2>1, ParentBelow, Zenon
  <2> QED BY <2>1, <2>2
<1>3. PICK u : u = Swapped(t, p, i)
  BY Zenon
<1>4. /\ u \in [1..N -> Nat] /\ u[p] = t[i] /\ u[i] = t[p]
      /\ \A j \in 1..N : j # p /\ j # i => u[j] = t[j]
  BY <1>2, <1>3, SMTT(30) DEF Swapped
<1>5. \A j \in 2..n : Parent(j) \in 1..n /\ Parent(j) < j
  BY ParentBelow
<1>6. /\ \A j \in 2..n : j # i /\ Parent(j) # i => t[Parent(j)] <= t[j]
      /\ \A j \in 2..n : Parent(j) = i => t[p] <= t[j]
      /\ \A j \in 2..n : Parent(j) = i => t[i] <= t[j]
  BY <1>1, <1>2 DEF OrderAround, ChildrenOrdered
<1>7. ASSUME NEW j \in 2..n, j # p, Parent(j) # p PROVE u[Parent(j)] <= u[j]
  <2>1. j # i /\ Parent(j) \in 1..n /\ Parent(j) < j
    BY <1>1, <1>5, <1>7, Zenon
  <2>2. CASE Parent(j) = i
    BY <1>4, <1>6, <1>7, <2>1, <2>2
  <2>3. CASE Parent(j) # i
    <3>1. u[j] = t[j] /\ u[Parent(j)] = t[Parent(j)]
      BY <1>4, <1>7, <2>1, <2>3, SMTT(30)
    <3> QED BY <1>6, <2>1, <2>3, <3>1, Zenon
  <2> QED BY <2>2, <2>3, Zenon
<1>8. ASSUME NEW j \in 2..n, Parent(j) = p PROVE t[i] <= u[j] /\ t[p] <= u[j]
  <2>1. CASE j = i
    BY <1>1, <1>2, <1>4, <2>1
  <2>2. CASE j # i
    <3>1. u[j] = t[j] /\ p # i
      BY <1>2, <1>4, <1>5, <1>8, <2>2, SMTT(30)
    <3>2. t[p] <= t[j]
      BY <1>6, <1>8, <2>2, <3>1, Zenon
    <3> QED BY <1>1, <1>2, <3>1, <3>2
  <2> QED BY <2>1, <2>2, Zenon
<1>9. ASSUME NEW j \in 2..n, Parent(j) = p, p > 1 PROVE u[Parent(p)] <= u[j]
  <2>1. p \in 2..n /\ Parent(p) \in 1..n /\ Parent(p) < p
    BY <1>2, <1>5, <1>9
  <2>2. u[Parent(p)] = t[Parent(p)]
    BY <1>2, <1>4, <2>1
  <2>3. t[Parent(p)] <= t[p]
    <3>1. p # i /\ Parent(p) # i
      BY <1>2, <2>1
    <3> QED BY <1>6, <2>1, <3>1, Zenon
  <2>4. t[p] <= u[j]
    BY <1>8, <1>9, Zenon
  <2>5. t[Parent(p)] \in Nat /\ t[p] \in Nat /\ u[j] \in Nat
    BY <1>2, <1>4, <2>1, SMTT(30)
  <2> QED BY <2>2, <2>3, <2>4, <2>5
<1>10. OrderAround(u, p, n) /\ ChildrenOrdered(u, p, n)
  BY <1>4, <1>7, <1>8, <1>9, Zenon DEF OrderAround, ChildrenOrdered
<1> QED
  BY <1>1, <1>3, <1>10, Zenon

(* A node that is greater than its least child changes places with it: the *)
(* order is now disturbed only below it.                                   *)
LEMMA SinkKeepsOrder ==
  ASSUME NEW N \in Nat, NEW n \in 0..N, NEW t \in [1..N -> Nat], NEW i \in 1..n,
         OrderAround(t, i, n), NEW c \in 2..n, Parent(c) = i, t[c] < t[i],
         \A j \in 2..n : Parent(j) = i => t[c] <= t[j]
  PROVE  LET u == Swapped(t, i, c)
         IN  OrderAround(u, c, n) /\ ParentOrdered(u, c)
<1>1. PICK u : u = Swapped(t, i, c)
  BY Zenon
<1>2. i < c
  BY ParentBelow
<1>3. /\ u \in [1..N -> Nat] /\ u[i] = t[c] /\ u[c] = t[i]
      /\ \A j \in 1..N : j # c /\ j # i => u[j] = t[j]
  BY <1>1, <1>2, SMTT(30) DEF Swapped
<1>4. \A j \in 2..n : Parent(j) \in 1..n /\ Parent(j) < j
  BY ParentBelow, SMTT(30)
<1>5. /\ \A j \in 2..n : j # i /\ Parent(j) # i => t[Parent(j)] <= t[j]
      /\ i > 1 => t[Parent(i)] <= t[c]
  BY Zenon DEF OrderAround
<1>6. ASSUME NEW j \in 2..n, j # c, Parent(j) # c PROVE u[Parent(j)] <= u[j]
  <2>1. Parent(j) \in 1..n /\ Parent(j) < j
    BY <1>4, Zenon
  <2>2. CASE j = i
    <3>1. u[Parent(j)] = t[Parent(j)]
      BY <1>3, <1>6, <2>1, <2>2, SMTT(30)
    <3> QED BY <1>3, <1>5, <2>2, <3>1
  <2>3. CASE j # i /\ Parent(j) = i
    BY <1>3, <1>6, <2>3, SMTT(30)
  <2>4. CASE j # i /\ Parent(j) # i
    <3>1. u[j] = t[j] /\ u[Parent(j)] = t[Parent(j)]
      BY <1>3, <1>6, <2>1, <2>4, SMTT(30)
    <3> QED BY <1>5, <2>4, <3>1, Zenon
  <2> QED BY <2>2, <2>3, <2>4, Zenon
<1>7. ASSUME NEW j \in 2..n, Parent(j) = c PROVE u[Parent(c)] <= u[j]
  <2>1. j # i /\ j # c /\ c # i
    BY <1>2, <1>4, <1>7
  <2>2. t[c] <= t[j]
    BY <1>5, <1>7, <2>1, Zenon
  <2>3. u[j] = t[j]
    BY <1>3, <2>1
  <2> QED BY <1>3, <2>2, <2>3, Zenon
<1>8. OrderAround(u, c, n)
  BY <1>6, <1>7, Zenon DEF OrderAround
<1>9. ParentOrdered(u, c)
  BY <1>3 DEF ParentOrdered
<1> QED
  BY <1>1, <1>8, <1>9, Zenon

-----------------------------------------------------------------------------
(* The loops of container/heap.                                            *)

Nodes == [key : Keys, ttl : Nat]

Times(h) == [j \in DOMAIN h |-> h[j].ttl]

(* The N nodes of h in another order. *)
Rearranged(N, g, h) ==
  \E p \in [1..N -> 1..N] :
    /\ \A i, j \in 1..N : p[i] = p[j] => i = j
    /\ \A j \in 1..N : \E i \in 1..N : p[i] = j
    /\ g = [i \in 1..N |-> h[p[i]]]

(* A heap with a position in it, as the loops keep it. *)
Places(N) == [h : [1..N -> Nodes], i : 1..N]

(* A heap is a rearrangement of itself.                                   *)
LEMMA RearrangedSelf ==
  ASSUME NEW N \in Nat, NEW h \in [1..N -> Nodes]
  PROVE  Rearranged(N, h, h)
<1> DEFINE p == [i \in 1..N |-> i]
<1>1. /\ p \in [1..N -> 1..N]
      /\ \A i, j \in 1..N : p[i] = p[j] => i = j
      /\ \A j \in 1..N : p[j] = j
      /\ h = [i \in 1..N |-> h[p[i]]]
  BY Zenon
<1> HIDE DEF p
<1> QED
  BY <1>1, Zenon DEF Rearranged

(* What a swap leaves at each position.                                    *)
LEMMA SwapFacts ==
  ASSUME NEW N \in Nat, NEW h \in [1..N -> Nodes], NEW i \in 1..N, NEW j \in 1..N
  PROVE  /\ Swap(h, i, j) \in [1..N -> Nodes]
         /\ Times(h) \in [1..N -> Nat]
         /\ Times(Swap(h, i, j)) = Swapped(Times(h), i, j)
         /\ \A k \in 1..N : k # i /\ k # j => Swap(h, i, j)[k] = h[k]
         /\ Swap(h, i, j)[i] = h[j] /\ Swap(h, i, j)[j] = h[i]
<1>1. \A k \in 1..N : h[k] \in Nodes /\ h[k].ttl \in Nat
  BY Zenon DEF Nodes
<1>2. PICK g : g = Swap(h, i, j)
  BY Zenon
<1>3. g \in [1..N -> Nodes]
  BY <1>1, <1>2, Zenon DEF Swap
<1>4. \A k \in 1..N : g[k] = IF k = j THEN h[i] ELSE IF k = i THEN h[j] ELSE h[k]
  BY <1>2, Zenon DEF Swap
<1>5. Times(h) \in [1..N -> Nat]
  BY <1>1, Zenon DEF Times
<1>6. Times(g) = Swapped(Times(h), i, j)
  BY <1>3, <1>4, Zenon DEF Times, Swapped
<1> QED
  BY <1>2, <1>3, <1>4, <1>5, <1>6, Zenon

(* Two nodes change places.                                                *)
LEMMA SwapRearranges ==
  ASSUME NEW N \in Nat, NEW h \in [1..N -> Nodes], NEW g \in [1..N -> Nodes],
         Rearranged(N, g, h), NEW i \in 1..N, NEW j \in 1..N
  PROVE  Rearranged(N, Swap(g, i, j), h)
<1>1. PICK p \in [1..N -> 1..N] : /\ \A a, b \in 1..N : p[a] = p[b] => a = b
                                  /\ \A b \in 1..N : \E a \in 1..N : p[a] = b
                                  /\ g = [a \in 1..N |-> h[p[a]]]
  BY Zenon DEF Rearranged
<1>2. PICK q : q = [a \in 1..N |-> IF a = j THEN p[i] ELSE IF a = i THEN p[j] ELSE p[a]]
  BY Zenon
<1>3. q \in [1..N -> 1..N]
  BY <1>2, Zenon
<1>4. \A a, b \in 1..N : q[a] = q[b] => a = b
  BY <1>1, <1>2, Zenon
<1>5. ASSUME NEW b \in 1..N PROVE \E a \in 1..N : q[a] = b
  <2>1. PICK a \in 1..N : p[a] = b
    BY <1>1, Zenon
  <2>2. q[i] = p[j] /\ q[j] = p[i] /\ (a # i /\ a # j => q[a] = p[a])
    BY <1>2, Zenon
  <2> QED BY <2>1, <2>2, Zenon
<1>6. Swap(g, i, j) = [a \in 1..N |-> h[q[a]]]
  BY <1>1, <1>2, Zenon DEF Swap
<1> QED
  BY <1>3, <1>4, <1>5, <1>6, Zenon DEF Rearranged

(* An iteration of heap.up.                                                *)
LEMMA UpStepFacts ==
  ASSUME NEW N \in Nat, NEW h \in [1..N -> Nodes], NEW s \in Places(N)
  PROVE  /\ UpStep(s) \in Places(N)
         /\ Rearranged(N, s.h, h) => Rearranged(N, UpStep(s).h, h)
         /\ \/ UpStep(s) = s /\ ParentOrdered(Times(s.h), s.i)
            \/ /\ UpStep(s).i < s.i
               /\ \A n \in 0..N :
                    s.i <= n /\ OrderAround(Times(s.h), s.i, n) /\ ChildrenOrdered(Times(s.h), s.i, n)
                    => /\ OrderAround(Times(UpStep(s).h), UpStep(s).i, n)
                       /\ ChildrenOrdered(Times(UpStep(s).h), UpStep(s).i, n)
<1>1. s.h \in [1..N -> Nodes] /\ s.i \in 1..N
  BY Zenon DEF Places
<1>2. PICK p : p = Parent(s.i)
  BY Zenon
<1>3. p \in Nat /\ p < s.i
  BY <1>1, <1>2 DEF Parent
<1>4. Times(s.h) \in [1..N -> Nat]
  BY <1>1, SwapFacts, Zenon
<1>5. CASE p >= 1 /\ Less(s.h, s.i, p)
  <2>1. UpStep(s) = [h |-> Swap(s.h, p, s.i), i |-> p]
    BY <1>2, <1>5, Zenon DEF UpStep, Parent
  <2>2. p \in 1..N
    BY <1>1, <1>3, <1>5
  <2>3. /\ Swap(s.h, p, s.i) \in [1..N -> Nodes]
        /\ Times(Swap(s.h, p, s.i)) = Swapped(Times(s.h), p, s.i)
    BY <1>1, <2>2, SwapFacts, SMTT(30)
  <2>4. UpStep(s) \in Places(N) /\ UpStep(s).h = Swap(s.h, p, s.i) /\ UpStep(s).i = p
    BY <2>1, <2>2, <2>3 DEF Places
  <2>5. Rearranged(N, s.h, h) => Rearranged(N, UpStep(s).h, h)
    BY <1>1, <2>2, <2>4, SwapRearranges, Zenon
  <2>6. Times(s.h)[s.i] < Times(s.h)[p]
    BY <1>1, <1>5, <2>2, Zenon DEF Less, Times
  <2>7. ASSUME NEW n \in 0..N, s.i <= n, OrderAround(Times(s.h), s.i, n),
               ChildrenOrdered(Times(s.h), s.i, n)
        PROVE  /\ OrderAround(Swapped(Times(s.h), p, s.i), p, n)
               /\ ChildrenOrdered(Swapped(Times(s.h), p, s.i), p, n)
    <3>1. s.i \in 1..n
      BY <1>1, <2>7
    <3> QED BY <1>2, <1>4, <1>5, <2>6, <2>7, <3>1, RiseKeepsOrder, SMTT(30)
  <2> QED BY <1>3, <2>3, <2>4, <2>5, <2>7, Zenon
<1>6. CASE ~(p >= 1 /\ Less(s.h, s.i, p))
  <2>1. UpStep(s) = s
    BY <1>2, <1>6, Zenon DEF UpStep, Parent
  <2>2. ParentOrdered(Times(s.h), s.i)
    <3> SUFFICES ASSUME s.i > 1 PROVE Times(s.h)[p] <= Times(s.h)[s.i]
      BY <1>2, Zenon DEF ParentOrdered
    <3>1. p \in 1..N
      BY <1>1, <1>2, <1>3, ParentBelow
    <3>2. ~(s.h[s.i].ttl < s.h[p].ttl)
      BY <1>6, <3>1 DEF Less
    <3>3. Times(s.h)[p] = s.h[p].ttl /\ Times(s.h)[s.i] = s.h[s.i].ttl
      BY <1>1, <3>1, SMTT(30), Zenon DEF Times
    <3> QED BY <1>1, <1>4, <3>1, <3>2, <3>3, SMTT(30)
  <2> QED BY <2>1, <2>2, Zenon
<1> QED
  BY <1>5, <1>6, Zenon

(* heap.up: if only the node at i may be less than its parent, it ends     *)
(* with all nodes in order.                                                *)
LEMMA UpFacts ==
  ASSUME NEW N \in Nat, NEW h \in [1..N -> Nodes], Len(h) = N, NEW n \in 0..N, NEW i \in 1..n,
         OrderAround(Times(h), i, n), ChildrenOrdered(Times(h), i, n)
  PROVE  /\ Up(h, i) \in [1..N -> Nodes]
         /\ Rearranged(N, Up(h, i), h)
         /\ Ordered(Times(Up(h, i)), n)
<1> DEFINE a == [h |-> h, i |-> i]
           G == [s \in Places(N) |-> UpStep(s)]
           F(f) == f = [k \in 0..N |-> IF k = 0 THEN a ELSE UpStep(f[k - 1])]
<1>1. a \in Places(N) /\ a.h = h /\ a.i = i
  BY DEF Places
<1>2. G \in [Places(N) -> Places(N)] /\ \A s \in Places(N) : G[s] = UpStep(s)
  BY UpStepFacts, Zenon
<1> HIDE DEF G, a
<1>3. PICK g \in [0..N -> Places(N)] : Iterates(g, a, N, G)
  BY <1>1, <1>2, IterationExists
<1>4. F(g)
  <2>1. ASSUME NEW k \in 0..N, k # 0 PROVE g[k] = UpStep(g[k - 1])
    <3>1. k \in 1..N /\ k - 1 \in 0..N
      BY <2>1
    <3> QED BY <1>2, <1>3, <3>1, Zenon DEF Iterates
  <2> QED BY <1>3, <2>1, Zenon DEF Iterates
<1>5. PICK f : F(f) /\ Up(h, i) = f[N].h
  BY <1>4, Zenon DEF Up, a
<1> DEFINE S == {k \in 0..N :
                   /\ f[k] \in Places(N) /\ f[k].i <= n
                   /\ Rearranged(N, f[k].h, h)
                   /\ OrderAround(Times(f[k].h), f[k].i, n)
                   /\ ChildrenOrdered(Times(f[k].h), f[k].i, n)
                   /\ f[k].i <= N - k \/ UpStep(f[k]) = f[k]}
<1>6. 0 \in S
  <2>1. f[0] = a /\ 0 \in 0..N
    BY <1>5, SMTT(30), Zenon
  <2> QED BY <1>1, <2>1, RearrangedSelf
<1>7. \A k \in 0..(N - 1) : k \in S => k + 1 \in S
  <2> SUFFICES ASSUME NEW k \in 0..(N - 1), k \in S PROVE k + 1 \in S
    BY Zenon
  <2>1. k + 1 \in 0..N /\ k + 1 # 0 /\ (k + 1) - 1 = k
    OBVIOUS
  <2>2. f[k + 1] = UpStep(f[k])
    BY <1>5, <2>1, Zenon
  <2>3. PICK s : s = f[k]
    BY Zenon
  <2>4. /\ s \in Places(N) /\ s.i <= n
        /\ Rearranged(N, s.h, h)
        /\ OrderAround(Times(s.h), s.i, n)
        /\ ChildrenOrdered(Times(s.h), s.i, n)
        /\ s.i <= N - k \/ UpStep(s) = s
    BY <2>3, SMTT(30), Zenon
  <2>5. s.i \in 1..N /\ UpStep(s).i \in 1..N
    BY <2>4, UpStepFacts, Zenon DEF Places
  <2>6. /\ UpStep(s) \in Places(N)
        /\ Rearranged(N, UpStep(s).h, h)
    BY <2>4, UpStepFacts, ZenonT(30)
  <2>7. CASE UpStep(s) = s /\ ParentOrdered(Times(s.h), s.i)
    BY <2>1, <2>2, <2>3, <2>4, <2>7, Zenon
  <2>8. CASE /\ UpStep(s).i < s.i
             /\ OrderAround(Times(UpStep(s).h), UpStep(s).i, n)
             /\ ChildrenOrdered(Times(UpStep(s).h), UpStep(s).i, n)
    <3>1. UpStep(s).i <= n
      BY <2>4, <2>5, <2>8, SMTT(30), Zenon
    <3>2. CASE s.i <= N - k
      <4>1. UpStep(s).i <= N - (k + 1)
        BY <2>5, <2>8, <3>2
      <4> QED BY <2>1, <2>2, <2>3, <2>6, <2>8, <3>1, <4>1, SMTT(30), Zenon
    <3>3. CASE UpStep(s) = s
      BY <2>5, <2>8, <3>3
    <3> QED BY <2>4, <3>2, <3>3, Zenon
  <2> QED BY <2>4, <2>7, <2>8, UpStepFacts, Zenon
<1> HIDE DEF S
<1>8. N \in S
  BY <1>6, <1>7, InductionUpTo, Zenon
<1>9. /\ f[N] \in Places(N)
      /\ Rearranged(N, f[N].h, h)
      /\ OrderAround(Times(f[N].h), f[N].i, n)
      /\ ChildrenOrdered(Times(f[N].h), f[N].i, n)
      /\ f[N].i <= N - N \/ UpStep(f[N]) = f[N]
  BY <1>8, Zenon DEF S
<1>10. f[N].h \in [1..N -> Nodes] /\ f[N].i \in 1..N
  BY <1>9, Zenon DEF Places
<1>11. ParentOrdered(Times(f[N].h), f[N].i)
  <2>1. UpStep(f[N]) = f[N] /\ ~(f[N].i < f[N].i)
    BY <1>9, <1>10
  <2> QED BY <1>9, <2>1, UpStepFacts, Zenon
<1>12. Times(f[N].h) \in [1..N -> Nat]
  BY <1>10, SwapFacts, Zenon
<1>13. Ordered(Times(f[N].h), n)
  BY <1>9, <1>10, <1>11, <1>12, OrderEverywhere, SMTT(30)
<1> QED
  BY <1>5, <1>9, <1>10, <1>13, Zenon

(* An iteration of heap.down.                                              *)
LEMMA DownStepFacts ==
  ASSUME NEW N \in Nat, NEW h \in [1..N -> Nodes], NEW n \in 0..N, NEW s \in Places(N)
  PROVE  /\ DownStep(s, n) \in Places(N)
         /\ Rearranged(N, s.h, h) => Rearranged(N, DownStep(s, n).h, h)
         /\ \A k \in (n + 1)..N : DownStep(s, n).h[k] = s.h[k]
         /\ \/ DownStep(s, n) = s /\ ChildrenOrdered(Times(s.h), s.i, n)
            \/ /\ DownStep(s, n).i > s.i
               /\ OrderAround(Times(s.h), s.i, n)
                  => /\ OrderAround(Times(DownStep(s, n).h), DownStep(s, n).i, n)
                     /\ ParentOrdered(Times(DownStep(s, n).h), DownStep(s, n).i)
<1>1. s.h \in [1..N -> Nodes] /\ s.i \in 1..N
  BY Zenon DEF Places
<1>2. PICK t : t = Times(s.h)
  BY Zenon
<1>3. t \in [1..N -> Nat] /\ \A a, b \in 1..N : Less(s.h, a, b) <=> t[a] < t[b]
  BY <1>1, <1>2, SwapFacts, Zenon DEF Times, Less
<1>4. PICK i : i = s.i
  BY Zenon
<1>5. PICK c : c = SmallestChild(s.h, i, n)
  BY Zenon
<1>6. ASSUME 2 * i <= n
      PROVE  /\ c \in 2..n /\ c > i /\ Parent(c) = i
             /\ \A j \in 2..n : Parent(j) = i => t[c] <= t[j]
  <2>1. i \in Nat /\ i >= 1 /\ 2 * i \in 2..n /\ n \in Nat
    BY <1>1, <1>4, <1>6
  <2>2. Parent(2 * i) = i /\ Parent(2 * i + 1) = i
    BY <2>1, ChildPositions, Zenon
  <2>3. ASSUME NEW j \in 2..n, Parent(j) = i
        PROVE  j = 2 * i \/ (j = 2 * i + 1 /\ 2 * i + 1 <= n)
    <3>1. j = 2 * i \/ j = 2 * i + 1
      BY <2>1, <2>3, ChildPositions
    <3> QED BY <3>1
  <2>4. t[2 * i] \in Nat
    BY <1>3, <2>1
  <2>5. CASE 2 * i + 1 <= n /\ Less(s.h, 2 * i + 1, 2 * i)
    <3>1. c = 2 * i + 1 /\ 2 * i + 1 \in 2..n
      BY <1>5, <2>1, <2>5 DEF SmallestChild
    <3>2. t[2 * i + 1] < t[2 * i] /\ t[2 * i + 1] \in Nat
      BY <1>3, <2>1, <2>5, <3>1
    <3> QED BY <2>1, <2>2, <2>3, <2>4, <3>1, <3>2
  <2>6. CASE ~(2 * i + 1 <= n /\ Less(s.h, 2 * i + 1, 2 * i))
    <3>1. c = 2 * i
      BY <1>5, <2>6, Zenon DEF SmallestChild
    <3>2. 2 * i + 1 <= n => t[2 * i] <= t[2 * i + 1]
      <4> SUFFICES ASSUME 2 * i + 1 <= n PROVE t[2 * i] <= t[2 * i + 1]
        BY Zenon
      <4>1. 2 * i + 1 \in 1..N /\ 2 * i \in 1..N
        BY <2>1
      <4>2. ~(t[2 * i + 1] < t[2 * i]) /\ t[2 * i + 1] \in Nat
        BY <1>3, <2>6, <4>1, SMTT(30), Zenon
      <4> QED BY <2>4, <4>2
    <3> QED BY <2>1, <2>2, <2>3, <2>4, <3>1, <3>2
  <2> QED BY <2>5, <2>6, Zenon
<1>7. CASE 2 * i <= n /\ Less(s.h, c, i)
  <2>1. DownStep(s, n) = [h |-> Swap(s.h, i, c), i |-> c]
    BY <1>4, <1>5, <1>7, Zenon DEF DownStep
  <2>2. c \in 2..n /\ c > i /\ c \in 1..N /\ i \in 1..N /\ i \in 1..n
    BY <1>1, <1>4, <1>6, <1>7
  <2>3. /\ Swap(s.h, i, c) \in [1..N -> Nodes]
        /\ Times(Swap(s.h, i, c)) = Swapped(t, i, c)
        /\ \A k \in 1..N : k # i /\ k # c => Swap(s.h, i, c)[k] = s.h[k]
    <3>1. \A g \in [1..N -> Nodes] :
            /\ Swap(g, i, c) \in [1..N -> Nodes]
            /\ Times(Swap(g, i, c)) = Swapped(Times(g), i, c)
            /\ \A k \in 1..N : k # i /\ k # c => Swap(g, i, c)[k] = g[k]
      BY <2>2, SwapFacts, ZenonT(30)
    <3> QED BY <1>1, <1>2, <3>1, Zenon
  <2>4. DownStep(s, n) \in Places(N) /\ DownStep(s, n).h = Swap(s.h, i, c) /\ DownStep(s, n).i = c
    BY <2>1, <2>2, <2>3 DEF Places
  <2>5. Rearranged(N, s.h, h) => Rearranged(N, DownStep(s, n).h, h)
    BY <1>1, <2>2, <2>4, SwapRearranges, Zenon
  <2>6. \A k \in (n + 1)..N : DownStep(s, n).h[k] = s.h[k]
    BY <2>2, <2>3, <2>4
  <2>7. t[c] < t[i]
    BY <1>3, <1>7, <2>2, Zenon
  <2>8. OrderAround(t, i, n) => /\ OrderAround(Swapped(t, i, c), c, n)
                                /\ ParentOrdered(Swapped(t, i, c), c)
    BY <1>3, <1>6, <1>7, <2>2, <2>7, SinkKeepsOrder, Zenon
  <2> QED BY <1>2, <1>4, <2>2, <2>3, <2>4, <2>5, <2>6, <2>8, Zenon
<1>8. CASE ~(2 * i <= n /\ Less(s.h, c, i))
  <2>1. DownStep(s, n) = s
    BY <1>4, <1>5, <1>8, Zenon DEF DownStep
  <2>2. ChildrenOrdered(t, i, n)
    <3> SUFFICES ASSUME NEW j \in 2..n, Parent(j) = i PROVE t[i] <= t[j]
      BY Zenon DEF ChildrenOrdered
    <3>1. 2 * i <= n
      <4>1. i \in Nat /\ j \in Nat
        BY <1>1, <1>4
      <4>2. j = 2 * i \/ j = 2 * i + 1
        BY <4>1, ChildPositions, Zenon
      <4> QED BY <4>1, <4>2
    <3>2. c \in 1..N /\ i \in 1..N /\ t[c] <= t[j]
      BY <1>1, <1>4, <1>6, <3>1
    <3>3. ~(t[c] < t[i])
      BY <1>3, <1>8, <3>1, <3>2, Zenon
    <3>4. t[c] \in Nat /\ t[i] \in Nat /\ t[j] \in Nat
      BY <1>3, <3>2, SMTT(30), Zenon
    <3> QED BY <3>2, <3>3, <3>4
  <2> QED BY <1>2, <1>4, <2>1, <2>2, Zenon
<1> QED
  BY <1>7, <1>8, Zenon

(* heap.down within the first n nodes: the later ones stay, the node that  *)
(* was at i ends no greater than its children and, if it moved at all, no  *)
(* less than its parent.                                                   *)
LEMMA DownFacts ==
  ASSUME NEW N \in Nat, NEW h \in [1..N -> Nodes], Len(h) = N, NEW n \in 0..N, NEW i \in 1..N,
         OrderAround(Times(h), i, n)
  PROVE  /\ Down(h, i, n) \in Places(N)
         /\ Rearranged(N, Down(h, i, n).h, h)
         /\ \A k \in (n + 1)..N : Down(h, i, n).h[k] = h[k]
         /\ OrderAround(Times(Down(h, i, n).h), Down(h, i, n).i, n)
         /\ ChildrenOrdered(Times(Down(h, i, n).h), Down(h, i, n).i, n)
         /\ \/ Down(h, i, n) = [h |-> h, i |-> i]
            \/ /\ Down(h, i, n).i > i
               /\ ParentOrdered(Times(Down(h, i, n).h), Down(h, i, n).i)
<1> DEFINE a == [h |-> h, i |-> i]
           G == [s \in Places(N) |-> DownStep(s, n)]
           F(f) == f = [k \in 0..N |-> IF k = 0 THEN a ELSE DownStep(f[k - 1], n)]
<1>1. a \in Places(N) /\ a.h = h /\ a.i = i
  BY Zenon DEF Places
<1>2. G \in [Places(N) -> Places(N)] /\ \A s \in Places(N) : G[s] = DownStep(s, n)
  BY DownStepFacts, Zenon
<1> HIDE DEF G, a
<1>3. PICK g \in [0..N -> Places(N)] : Iterates(g, a, N, G)
  BY <1>1, <1>2, IterationExists, SMTT(30)
<1>4. F(g)
  <2>1. ASSUME NEW k \in 0..N, k # 0 PROVE g[k] = DownStep(g[k - 1], n)
    <3>1. k \in 1..N /\ k - 1 \in 0..N
      BY <2>1
    <3> QED BY <1>2, <1>3, <3>1, Zenon DEF Iterates
  <2> QED BY <1>3, <2>1, Zenon DEF Iterates
<1>5. PICK f : F(f) /\ Down(h, i, n) = f[N]
  BY <1>4, Zenon DEF Down, a
<1> DEFINE Sunk(s) ==
             /\ s \in Places(N)
             /\ Rearranged(N, s.h, h)
             /\ \A k \in (n + 1)..N : s.h[k] = h[k]
             /\ OrderAround(Times(s.h), s.i, n)
             /\ s = a \/ (s.i > i /\ ParentOrdered(Times(s.h), s.i))
           S == {k \in 0..N : Sunk(f[k]) /\ (f[k].i > k \/ DownStep(f[k], n) = f[k])}
<1>6. 0 \in S
  <2>1. f[0] = a /\ 0 \in 0..N
    BY <1>5, SMTT(30), Zenon
  <2>2. Sunk(a)
    BY <1>1, RearrangedSelf, SMTT(30), Zenon
  <2> QED BY <1>1, <2>1, <2>2
<1>7. \A k \in 0..(N - 1) : k \in S => k + 1 \in S
  <2> SUFFICES ASSUME NEW k \in 0..(N - 1), k \in S PROVE k + 1 \in S
    BY Zenon
  <2>1. k + 1 \in 0..N /\ k + 1 # 0 /\ (k + 1) - 1 = k
    OBVIOUS
  <2>2. f[k + 1] = DownStep(f[k], n)
    BY <1>5, <2>1, Zenon
  <2>3. PICK s : s = f[k]
    BY Zenon
  <2>4. Sunk(s) /\ (s.i > k \/ DownStep(s, n) = s)
    BY <2>3, Zenon
  <2>5. PICK d : d = DownStep(s, n)
    BY Zenon
  <2>6. CASE d = s
    BY <2>1, <2>2, <2>3, <2>4, <2>5, <2>6, Zenon
  <2>7. CASE d # s
    <3>1. /\ d \in Places(N)
          /\ Rearranged(N, d.h, h)
          /\ \A j \in (n + 1)..N : d.h[j] = s.h[j]
          /\ d.i > s.i
          /\ OrderAround(Times(d.h), d.i, n) /\ ParentOrdered(Times(d.h), d.i)
      BY <2>4, <2>5, <2>7, DownStepFacts, ZenonT(30)
    <3>2. d.i \in 1..N /\ s.i \in 1..N
      BY <2>4, <3>1, Zenon DEF Places
    <3>3. d.i > i
      BY <1>1, <2>4, <3>1, <3>2, SMTT(30), Zenon
    <3>4. Sunk(d)
      BY <2>4, <3>1, <3>3, SMTT(30), Zenon
    <3>5. d.i > k + 1
      BY <2>4, <2>5, <2>7, <3>1, <3>2
    <3> QED BY <2>1, <2>2, <2>3, <2>5, <3>4, <3>5, Zenon
  <2> QED BY <2>6, <2>7, Zenon
<1> HIDE DEF S
<1>8. N \in S
  BY <1>6, <1>7, InductionUpTo, SMTT(30), Zenon
<1>9. Sunk(f[N]) /\ (f[N].i > N \/ DownStep(f[N], n) = f[N])
  BY <1>8, SMTT(30), Zenon DEF S
<1>10. f[N].i \in 1..N
  BY <1>9, Zenon DEF Places
<1>11. DownStep(f[N], n) = f[N] /\ ~(f[N].i > f[N].i)
  BY <1>9, <1>10, SMTT(30), Zenon
<1>12. ChildrenOrdered(Times(f[N].h), f[N].i, n)
  BY <1>9, <1>11, DownStepFacts, SMTT(30), Zenon
<1> QED
  BY <1>5, <1>9, <1>12, Zenon DEF a

(* heap.Fix and heap.Remove sink a node and let it rise if it did not sink.*)
LEMMA SettleFacts ==
  ASSUME NEW N \in Nat, NEW h \in [1..N -> Nodes], Len(h) = N, NEW n \in 0..N, NEW i \in 1..n,
         OrderAround(Times(h), i, n)
  PROVE  /\ Settle(h, i, n) \in [1..N -> Nodes]
         /\ Rearranged(N, Settle(h, i, n), h)
         /\ Ordered(Times(Settle(h, i, n)), n)
<1>1. PICK d : d = Down(h, i, n)
  BY Zenon
<1>2. i \in 1..N
  OBVIOUS
<1>3. /\ d \in Places(N)
      /\ Rearranged(N, d.h, h)
      /\ OrderAround(Times(d.h), d.i, n) /\ ChildrenOrdered(Times(d.h), d.i, n)
      /\ d = [h |-> h, i |-> i] \/ (d.i > i /\ ParentOrdered(Times(d.h), d.i))
  BY <1>1, <1>2, DownFacts, Zenon
<1>4. d.h \in [1..N -> Nodes] /\ d.i \in 1..N
  BY <1>3, Zenon DEF Places
<1>5. CASE d.i > i
  <2>1. Settle(h, i, n) = d.h
    BY <1>1, <1>5, Zenon DEF Settle
  <2>2. ParentOrdered(Times(d.h), d.i)
    BY <1>2, <1>3, <1>5
  <2>3. Times(d.h) \in [1..N -> Nat]
    BY <1>4, SwapFacts, Zenon
  <2>4. Ordered(Times(d.h), n)
    BY <1>3, <1>4, <2>2, <2>3, OrderEverywhere, Zenon
  <2> QED BY <1>3, <1>4, <2>1, <2>4, Zenon
<1>6. CASE ~(d.i > i)
  <2>1. d.h = h /\ d.i = i
    BY <1>3, <1>6
  <2>2. Settle(h, i, n) = Up(h, i)
    BY <1>1, <1>6, <2>1, Zenon DEF Settle
  <2>3. ChildrenOrdered(Times(h), i, n)
    BY <1>3, <2>1, Zenon
  <2> QED BY <2>2, <2>3, UpFacts
<1> QED
  BY <1>5, <1>6, Zenon

-----------------------------------------------------------------------------
(* The operations of container/heap, on sequences of nodes.                *)

KeysOf(h) == {h[i].key : i \in DOMAIN h}

OneNodePerKey(h) == \A i, j \in DOMAIN h : h[i].key = h[j].key => i = j

(* A function on 1..N is a sequence of length N.                           *)
LEMMA FunctionIsSequence ==
  ASSUME NEW N \in Nat, NEW h \in [1..N -> Nodes]
  PROVE  h \in Seq(Nodes) /\ Len(h) = N
<1>1. h \in Seq(Nodes)
  OBVIOUS
<1>2. Len(h) \in Nat /\ DOMAIN h = 1..Len(h) /\ DOMAIN h = 1..N
  BY <1>1, SequenceFacts, Zenon
<1> QED
  BY <1>1, <1>2

(* IsHeap in terms of the times.                                           *)
LEMMA HeapIsOrdered ==
  ASSUME NEW h \in Seq(Nodes)
  PROVE  IsHeap(h) <=> Ordered(Times(h), Len(h))
<1>1. Len(h) \in Nat /\ DOMAIN h = 1..Len(h) /\ h \in [1..Len(h) -> Nodes]
  BY SequenceFacts, Zenon
<1>2. ASSUME NEW j \in 2..Len(h)
      PROVE  ~Less(h, j, j \div 2) <=> Times(h)[Parent(j)] <= Times(h)[j]
  <2>1. j \in 1..Len(h) /\ j \div 2 \in 1..Len(h)
    BY <1>1
  <2>2. h[j].ttl \in Nat /\ h[j \div 2].ttl \in Nat
    BY <1>1, <2>1, SMTT(30) DEF Nodes
  <2>3. Times(h)[j \div 2] = h[j \div 2].ttl /\ Times(h)[j] = h[j].ttl
    BY <1>1, <2>1, Zenon DEF Times
  <2> QED BY <2>2, <2>3 DEF Parent, Less
<1>3. \A j \in DOMAIN h : j > 1 <=> j \in 2..Len(h)
  BY <1>1
<1>4. \A j \in 2..Len(h) : j \in DOMAIN h
  BY <1>1
<1> QED
  BY <1>2, <1>3, <1>4, Zenon DEF IsHeap, Ordered

(* A rearrangement has the same keys, each as often.                       *)
LEMMA RearrangedKeys ==
  ASSUME NEW N \in Nat, NEW h \in [1..N -> Nodes], NEW g \in [1..N -> Nodes], Rearranged(N, g, h)
  PROVE  KeysOf(g) = KeysOf(h) /\ (OneNodePerKey(h) => OneNodePerKey(g))
<1>1. PICK p \in [1..N -> 1..N] : /\ \A i, j \in 1..N : p[i] = p[j] => i = j
                                  /\ \A j \in 1..N : \E i \in 1..N : p[i] = j
                                  /\ g = [i \in 1..N |-> h[p[i]]]
  BY Zenon DEF Rearranged
<1>2. \A i \in 1..N : p[i] \in 1..N /\ g[i] = h[p[i]]
  BY <1>1, Zenon
<1>3. DOMAIN g = 1..N /\ DOMAIN h = 1..N
  BY Zenon
<1>4. KeysOf(g) \subseteq KeysOf(h)
  BY <1>2, <1>3 DEF KeysOf
<1>5. KeysOf(h) \subseteq KeysOf(g)
  <2> SUFFICES ASSUME NEW j \in 1..N PROVE \E i \in 1..N : g[i].key = h[j].key
    BY <1>3, ZenonT(30) DEF KeysOf
  <2>1. PICK i \in 1..N : p[i] = j
    BY <1>1, Zenon
  <2> QED BY <1>2, <2>1, Zenon
<1>6. OneNodePerKey(h) => OneNodePerKey(g)
  BY <1>1, <1>2, <1>3 DEF OneNodePerKey
<1> QED
  BY <1>4, <1>5, <1>6, Zenon

(* The heap without its last node.                                         *)
LEMMA PopFacts ==
  ASSUME NEW N \in Nat, N >= 1, NEW g \in [1..N -> Nodes], Ordered(Times(g), N - 1)
  PROVE  /\ Pop(g) \in Seq(Nodes) /\ IsHeap(Pop(g))
         /\ KeysOf(Pop(g)) \subseteq KeysOf(g)
         /\ OneNodePerKey(g) => OneNodePerKey(Pop(g)) /\ g[N].key \notin KeysOf(Pop(g))
<1>1. Len(g) = N
  BY FunctionIsSequence, Zenon
<1>2. PICK f : f = Pop(g)
  BY Zenon
<1>3. f \in Seq(Nodes) /\ Len(f) = N - 1 /\ \A i \in 1..(N - 1) : f[i] = g[i]
  <2>1. \A i \in 1..(N - 1) : g[i] \in Nodes
    OBVIOUS
  <2>2. f = SubSeq(g, 1, N - 1)
    BY <1>1, <1>2, Zenon DEF Pop
  <2> QED BY <1>1, <2>1, <2>2, FunctionIsSequence
<1>4. DOMAIN f = 1..(N - 1) /\ DOMAIN g = 1..N
  BY <1>3, SequenceFacts, Zenon
<1>5. Ordered(Times(f), Len(f))
  <2> SUFFICES ASSUME NEW j \in 2..(N - 1) PROVE Times(f)[Parent(j)] <= Times(f)[j]
    BY <1>3, Zenon DEF Ordered
  <2>1. j \in 1..(N - 1) /\ Parent(j) \in 1..(N - 1) /\ j \in 1..N /\ Parent(j) \in 1..N
    BY ParentBelow
  <2>2. Times(g)[Parent(j)] <= Times(g)[j]
    BY Zenon DEF Ordered
  <2> QED BY <1>3, <1>4, <2>1, <2>2, Zenon DEF Times
<1>6. IsHeap(f)
  BY <1>3, <1>5, HeapIsOrdered, Zenon
<1>7. KeysOf(f) \subseteq KeysOf(g)
  BY <1>3, <1>4 DEF KeysOf
<1>8. OneNodePerKey(g) => OneNodePerKey(f) /\ g[N].key \notin KeysOf(f)
  BY <1>3, <1>4 DEF OneNodePerKey, KeysOf
<1> QED
  BY <1>2, <1>3, <1>6, <1>7, <1>8, Zenon

(* heap.Push adds the node to the heap.                                    *)
LEMMA HeapPushFacts ==
  ASSUME NEW h \in Seq(Nodes), IsHeap(h), NEW node \in Nodes
  PROVE  /\ HeapPush(h, node) \in Seq(Nodes) /\ IsHeap(HeapPush(h, node))
         /\ KeysOf(HeapPush(h, node)) = KeysOf(h) \cup {node.key}
         /\ OneNodePerKey(h) /\ node.key \notin KeysOf(h) => OneNodePerKey(HeapPush(h, node))
<1>1. PICK N : N = Len(h) + 1
  BY Zenon
<1>2. PICK a : a = Append(h, node)
  BY Zenon
<1>3. Len(h) \in Nat /\ DOMAIN h = 1..Len(h) /\ h \in [1..Len(h) -> Nodes]
  BY SequenceFacts, Zenon
<1>4. N \in Nat /\ N >= 1 /\ Len(h) = N - 1
  BY <1>1, <1>3
<1>5. /\ a \in Seq(Nodes) /\ Len(a) = N /\ a[N] = node
      /\ \A i \in 1..(N - 1) : a[i] = h[i]
  BY <1>1, <1>2, <1>4, AppendFacts
<1>6. a \in [1..N -> Nodes] /\ DOMAIN a = 1..N
  BY <1>5, SequenceFacts, Zenon
<1>7. \A j \in 2..N : Parent(j) \in 1..(N - 1)
  BY <1>4, ParentBelow
<1>8. OrderAround(Times(a), N, N) /\ ChildrenOrdered(Times(a), N, N)
  <2>1. Ordered(Times(h), N - 1)
    BY <1>4, HeapIsOrdered, Zenon
  <2>2. ASSUME NEW j \in 2..N, j # N PROVE Times(a)[Parent(j)] <= Times(a)[j]
    <3>1. j \in 2..(N - 1) /\ j \in 1..(N - 1) /\ Parent(j) \in 1..(N - 1)
      BY <1>4, <1>7, <2>2
    <3>2. Times(h)[Parent(j)] <= Times(h)[j]
      BY <2>1, <3>1, Zenon DEF Ordered
    <3> QED BY <1>3, <1>4, <1>5, <1>6, <3>1, <3>2 DEF Times
  <2>3. \A j \in 2..N : Parent(j) # N
    BY <1>4, <1>7
  <2> QED BY <2>2, <2>3, Zenon DEF OrderAround, ChildrenOrdered
<1>9. HeapPush(h, node) = Up(a, N)
  BY <1>1, <1>2, Zenon DEF HeapPush
<1>10. PICK g : g = Up(a, N)
  BY Zenon
<1>11. g \in [1..N -> Nodes] /\ Rearranged(N, g, a) /\ Ordered(Times(g), N)
  <2>1. N \in 0..N /\ N \in 1..N
    BY <1>4
  <2> QED BY <1>4, <1>5, <1>6, <1>8, <1>10, <2>1, UpFacts, Zenon
<1>12. g \in Seq(Nodes) /\ Len(g) = N
  BY <1>4, <1>11, FunctionIsSequence, Zenon
<1>13. IsHeap(g)
  BY <1>11, <1>12, HeapIsOrdered, Zenon
<1>14. KeysOf(g) = KeysOf(a) /\ (OneNodePerKey(a) => OneNodePerKey(g))
  BY <1>4, <1>6, <1>11, RearrangedKeys, Zenon
<1>15. KeysOf(a) = KeysOf(h) \cup {node.key}
  <2>1. \A i \in 1..N : i = N \/ i \in 1..(N - 1)
    BY <1>4
  <2>2. \A i \in 1..(N - 1) : i \in 1..N
    BY <1>4
  <2>3. N \in 1..N
    BY <1>4
  <2> QED BY <1>3, <1>4, <1>5, <1>6, <2>1, <2>2, <2>3, Zenon DEF KeysOf
<1>16. ASSUME OneNodePerKey(h), node.key \notin KeysOf(h)
       PROVE  OneNodePerKey(a)
  <2>1. \A i \in 1..N : i = N \/ i \in 1..(N - 1)
    BY <1>4
  <2>2. \A i \in 1..(N - 1) : a[i].key # node.key
    BY <1>3, <1>4, <1>5, <1>16, Zenon DEF KeysOf
  <2>3. \A i, j \in 1..(N - 1) : a[i].key = a[j].key => i = j
    BY <1>3, <1>4, <1>5, <1>16, Zenon DEF OneNodePerKey
  <2> QED BY <1>5, <1>6, <2>1, <2>2, <2>3, Zenon DEF OneNodePerKey
<1> QED
  BY <1>9, <1>10, <1>12, <1>13, <1>14, <1>15, <1>16, Zenon

(* In a heap whose node at i is replaced the order is disturbed around i.  *)
LEMMA ReplaceDisturbs ==
  ASSUME NEW N \in Nat, NEW h \in [1..N -> Nodes], NEW g \in [1..N -> Nodes],
         NEW n \in 0..N, NEW i \in 1..N, Ordered(Times(h), N),
         \A j \in 1..n : j # i => g[j] = h[j]
  PROVE  OrderAround(Times(g), i, n)
<1>1. Times(h) \in [1..N -> Nat] /\ Times(g) \in [1..N -> Nat]
  BY SwapFacts, Zenon
<1>2. \A j \in 2..n : Parent(j) \in 1..n /\ j \in 1..n /\ j \in 2..N
  BY ParentBelow
<1>3. \A j \in 1..n : j \in 1..N /\ (j # i => Times(g)[j] = Times(h)[j])
  BY DEF Times
<1>4. \A j \in 2..N : Times(h)[Parent(j)] <= Times(h)[j]
  BY Zenon DEF Ordered
<1>5. ASSUME NEW j \in 2..n, j # i, Parent(j) # i PROVE Times(g)[Parent(j)] <= Times(g)[j]
  BY <1>2, <1>3, <1>4, <1>5, SMTT(30), Zenon
<1>6. ASSUME NEW j \in 2..n, Parent(j) = i, i > 1 PROVE Times(g)[Parent(i)] <= Times(g)[j]
  <2>1. i \in 2..N /\ i \in 2..n /\ j # i
    <3>1. Parent(j) \in 1..n /\ Parent(j) < j
      BY <1>2, ParentBelow
    <3> QED BY <1>6, <3>1
  <2>2. Parent(i) \in 1..n /\ Parent(i) # i
    BY <2>1, ParentBelow
  <2>3. Times(h)[Parent(i)] <= Times(h)[i] /\ Times(h)[i] <= Times(h)[j]
    BY <1>2, <1>4, <1>6, <2>1, Zenon
  <2>4. Times(g)[Parent(i)] = Times(h)[Parent(i)] /\ Times(g)[j] = Times(h)[j]
    BY <1>2, <1>3, <2>1, <2>2, Zenon
  <2>5. Times(h)[Parent(i)] \in Nat /\ Times(h)[i] \in Nat /\ Times(h)[j] \in Nat
    BY <1>1, <1>2, <1>3, <2>2, Zenon
  <2> QED BY <2>3, <2>4, <2>5
<1> QED
  BY <1>5, <1>6, Zenon DEF OrderAround

(* heap.Fix after the time of any one node has changed.                    *)
LEMMA HeapFixFacts ==
  ASSUME NEW h \in Seq(Nodes), IsHeap(h), NEW i \in 1..Len(h), NEW time \in Nat
  PROVE  LET g == HeapFix([h EXCEPT ![i].ttl = time], i)
         IN  /\ g \in Seq(Nodes) /\ IsHeap(g)
             /\ KeysOf(g) = KeysOf(h)
             /\ OneNodePerKey(h) => OneNodePerKey(g)
<1>1. PICK N : N = Len(h)
  BY Zenon
<1>2. N \in Nat /\ i \in 1..N /\ DOMAIN h = 1..N /\ h \in [1..N -> Nodes]
  BY <1>1, SequenceFacts, Zenon
<1>3. PICK a : a = [h EXCEPT ![i].ttl = time]
  BY Zenon
<1>4. a \in [1..N -> Nodes]
  BY <1>2, <1>3, Zenon DEF Nodes
<1>5. \A j \in 1..N : (j # i => a[j] = h[j]) /\ a[j].key = h[j].key
  BY <1>2, <1>3, Zenon DEF Nodes
<1>6. a \in Seq(Nodes) /\ Len(a) = N /\ DOMAIN a = 1..N
  BY <1>2, <1>4, FunctionIsSequence, Zenon
<1>7. KeysOf(a) = KeysOf(h) /\ (OneNodePerKey(h) => OneNodePerKey(a))
  BY <1>2, <1>5, <1>6 DEF KeysOf, OneNodePerKey
<1>8. OrderAround(Times(a), i, N)
  <2>1. Ordered(Times(h), N) /\ N \in 0..N
    BY <1>1, <1>2, HeapIsOrdered
  <2> QED BY <1>2, <1>4, <1>5, <2>1, ReplaceDisturbs, Zenon
<1>9. PICK g : g = Settle(a, i, N)
  BY Zenon
<1>10. g \in [1..N -> Nodes] /\ Rearranged(N, g, a) /\ Ordered(Times(g), N)
  <2>1. N \in 0..N
    BY <1>2
  <2> QED BY <1>2, <1>4, <1>6, <1>8, <1>9, <2>1, SettleFacts, Zenon
<1>11. g \in Seq(Nodes) /\ Len(g) = N
  BY <1>2, <1>10, FunctionIsSequence, Zenon
<1>12. IsHeap(g)
  BY <1>10, <1>11, HeapIsOrdered, Zenon
<1>13. KeysOf(g) = KeysOf(a) /\ (OneNodePerKey(a) => OneNodePerKey(g))
  BY <1>2, <1>4, <1>10, RearrangedKeys, Zenon
<1>14. HeapFix([h EXCEPT ![i].ttl = time], i) = g
  BY <1>3, <1>6, <1>9, Zenon DEF HeapFix
<1> QED
  BY <1>7, <1>11, <1>12, <1>13, <1>14, Zenon

(* heap.Remove of the node at any position.                                *)
LEMMA HeapRemoveFacts ==
  ASSUME NEW h \in Seq(Nodes), IsHeap(h), NEW i \in 1..Len(h)
  PROVE  LET g == HeapRemove(h, i)
         IN  /\ g \in Seq(Nodes) /\ IsHeap(g)
             /\ KeysOf(g) \subseteq KeysOf(h)
             /\ OneNodePerKey(h) => OneNodePerKey(g)
<1>1. PICK N : N = Len(h)
  BY Zenon
<1>2. /\ N \in Nat /\ N >= 1 /\ i \in 1..N /\ DOMAIN h = 1..N /\ h \in [1..N -> Nodes]
      /\ N - 1 \in 0..N /\ N \in 1..N
  BY <1>1, SequenceFacts
<1>3. Ordered(Times(h), N)
  BY <1>1, HeapIsOrdered, Zenon
<1>4. CASE i = N
  <2>1. Ordered(Times(h), N - 1)
    BY <1>2, <1>3 DEF Ordered
  <2>2. HeapRemove(h, i) = Pop(h)
    BY <1>1, <1>4, Zenon DEF HeapRemove
  <2> QED BY <1>2, <2>1, <2>2, PopFacts, Zenon
<1>5. CASE i # N
  <2>1. PICK a : a = Swap(h, i, N)
    BY Zenon
  <2>2. a \in [1..N -> Nodes] /\ \A j \in 1..N : j # i /\ j # N => a[j] = h[j]
    BY <1>2, <2>1, SwapFacts, SMTT(30)
  <2>3. Len(a) = N
    BY <1>2, <2>2, FunctionIsSequence, Zenon
  <2>4. Rearranged(N, a, h)
    BY <1>2, <2>1, RearrangedSelf, SwapRearranges, Zenon
  <2>5. OrderAround(Times(a), i, N - 1)
    <3>1. \A j \in 1..(N - 1) : j # i => a[j] = h[j]
      BY <1>2, <2>2
    <3> QED BY <1>2, <1>3, <2>2, <3>1, ReplaceDisturbs, Zenon
  <2>6. i \in 1..(N - 1)
    BY <1>2, <1>5
  <2>7. PICK g : g = Settle(a, i, N - 1)
    BY Zenon
  <2>8. g \in [1..N -> Nodes] /\ Rearranged(N, g, a) /\ Ordered(Times(g), N - 1)
    BY <1>2, <2>2, <2>3, <2>5, <2>6, <2>7, SettleFacts, Zenon
  <2>9. KeysOf(g) = KeysOf(h) /\ (OneNodePerKey(h) => OneNodePerKey(g))
    BY <1>2, <2>2, <2>4, <2>8, RearrangedKeys
  <2>10. HeapRemove(h, i) = Pop(g)
    BY <1>1, <1>5, <2>1, <2>7, SMTT(30), Zenon DEF HeapRemove
  <2> QED BY <1>2, <2>8, <2>9, <2>10, PopFacts
<1> QED
  BY <1>4, <1>5, Zenon

(* heap.Pop removes the first node.                                        *)
LEMMA HeapPopFacts ==
  ASSUME NEW h \in Seq(Nodes), IsHeap(h), h # <<>>
  PROVE  /\ HeapPop(h) \in Seq(Nodes) /\ IsHeap(HeapPop(h))
         /\ KeysOf(HeapPop(h)) \subseteq KeysOf(h)
         /\ h[1] \in Nodes /\ h[1].key \in KeysOf(h)
         /\ OneNodePerKey(h) => OneNodePerKey(HeapPop(h)) /\ h[1].key \notin KeysOf(HeapPop(h))
<1>1. PICK N : N = Len(h)
  BY Zenon
<1>2. /\ N \in Nat /\ N >= 1 /\ DOMAIN h = 1..N /\ h \in [1..N -> Nodes]
      /\ N - 1 \in 0..N /\ N \in 1..N /\ 1 \in 1..N
  <2>1. Len(h) \in Nat /\ Len(h) # 0
    BY EmptyFacts, SequenceFacts, Zenon
  <2> QED BY <1>1, <2>1, SequenceFacts
<1>3. Ordered(Times(h), N)
  BY <1>1, HeapIsOrdered, Zenon
<1>4. PICK a : a = Swap(h, 1, N)
  BY Zenon
<1>5. /\ a \in [1..N -> Nodes] /\ \A j \in 1..N : j # 1 /\ j # N => a[j] = h[j]
      /\ a[N] = h[1]
  BY <1>2, <1>4, SwapFacts
<1>6. Len(a) = N
  BY <1>2, <1>5, FunctionIsSequence, Zenon
<1>7. Rearranged(N, a, h)
  BY <1>2, <1>4, RearrangedSelf, SwapRearranges, Zenon
<1>8. OrderAround(Times(a), 1, N - 1)
  <2>1. \A j \in 1..(N - 1) : j # 1 => a[j] = h[j]
    BY <1>2, <1>5
  <2> QED BY <1>2, <1>3, <1>5, <2>1, ReplaceDisturbs, Zenon
<1>9. PICK d : d = Down(a, 1, N - 1)
  BY Zenon
<1>10. /\ d \in Places(N) /\ Rearranged(N, d.h, a)
       /\ \A k \in ((N - 1) + 1)..N : d.h[k] = a[k]
       /\ OrderAround(Times(d.h), d.i, N - 1) /\ ChildrenOrdered(Times(d.h), d.i, N - 1)
       /\ d = [h |-> a, i |-> 1] \/ (d.i > 1 /\ ParentOrdered(Times(d.h), d.i))
  BY <1>2, <1>5, <1>6, <1>8, <1>9, DownFacts, SMTT(30), Zenon
<1>11. d.h \in [1..N -> Nodes] /\ d.i \in 1..N /\ d.h[N] = h[1]
  <2>1. N \in ((N - 1) + 1)..N
    BY <1>2
  <2> QED BY <1>5, <1>10, <2>1, Zenon DEF Places
<1>12. ParentOrdered(Times(d.h), d.i)
  <2>1. CASE d = [h |-> a, i |-> 1]
    BY <2>1 DEF ParentOrdered
  <2> QED BY <1>10, <2>1, Zenon
<1>13. Ordered(Times(d.h), N - 1)
  <2>1. Times(d.h) \in [1..N -> Nat]
    BY <1>2, <1>11, SwapFacts, Zenon
  <2> QED BY <1>2, <1>10, <1>11, <1>12, <2>1, OrderEverywhere, SMTT(30), Zenon
<1>14. KeysOf(d.h) = KeysOf(h) /\ (OneNodePerKey(h) => OneNodePerKey(d.h))
  BY <1>2, <1>5, <1>7, <1>10, <1>11, RearrangedKeys
<1>15. HeapPop(h) = Pop(d.h)
  BY <1>1, <1>4, <1>9, Zenon DEF HeapPop
<1>16. h[1] \in Nodes /\ h[1].key \in KeysOf(h)
  BY <1>2, Zenon DEF KeysOf
<1> QED
  BY <1>2, <1>11, <1>13, <1>14, <1>15, <1>16, PopFacts, ZenonT(30)

-----------------------------------------------------------------------------
(* The cache.                                                              *)

Entries == [version : Int, ok : BOOLEAN, idx : Nat]

(* The inductive invariant of the cache: what is popped is still cached.   *)
CacheInv ==
  /\ CacheTypeOK
  /\ HeapSound
  /\ popped # None => cache[popped] # None

(* What processConfig stores is a number, no lower than the version it     *)
(* replaces, and valid if that was.                                        *)
LEMMA StoredFacts ==
  ASSUME CacheTypeOK, NEW obj \in Objects, IsStored(obj)
  PROVE  /\ obj.key \in Keys /\ obj.ttl \in Nat
         /\ \A i \in Nat : Entry(obj, i) \in Entries /\ Entry(obj, i) # None
         /\ cache[obj.key] # None => /\ obj.version >= cache[obj.key].version
                                     /\ cache[obj.key].ok => obj.valid
<1>1. /\ obj.key \in Keys /\ obj.ttl \in Nat /\ obj.valid \in BOOLEAN
      /\ obj.version \in Int \cup {BadVersion}
  BY CacheAssumption, Zenon
<1>2. obj.version \in Int
  BY <1>1, CacheAssumption, Zenon DEF IsStored, CompareVersions
<1>3. \A i \in Nat : Entry(obj, i) \in Entries /\ Entry(obj, i) # None
  BY <1>1, <1>2, CacheAssumption DEF Entry, Entries
<1>4. ASSUME cache[obj.key] # None
      PROVE  obj.version >= cache[obj.key].version /\ (cache[obj.key].ok => obj.valid)
  <2>1. cache[obj.key].version \in Int /\ cache[obj.key].version # None
    BY <1>1, <1>4, CacheAssumption, Zenon DEF CacheTypeOK
  <2>2. CachedVersion(obj.key) = cache[obj.key].version
    BY <1>4, Zenon DEF CachedVersion
  <2>3. obj.version # BadVersion
    BY <1>2, CacheAssumption, Zenon
  <2>4. obj.version >= cache[obj.key].version
    BY <1>2, <2>1, <2>2, <2>3 DEF IsStored, CompareVersions
  <2>5. cache[obj.key].ok => obj.valid
    BY <1>4, Zenon DEF IsStored
  <2> QED BY <2>4, <2>5, Zenon
<1> QED
  BY <1>1, <1>3, <1>4, Zenon

(* processConfig keeps the cache typed and the heap sound, and changes the *)
(* cache only by storing the object.                                       *)
LEMMA ProcessConfigFacts ==
  ASSUME CacheInv, NEW obj \in Objects, ProcessConfig(obj)
  PROVE  /\ CacheInv'
         /\ \/ cache' = cache /\ (IsStored(obj) => crashed')
            \/ IsStored(obj) /\ \E i \in Nat : cache' = [cache EXCEPT ![obj.key] = Entry(obj, i)]
<1>1. /\ cache \in [Keys -> Entries \cup {None}]
      /\ heap \in Seq(Nodes) /\ clock \in 0..MaxClock
      /\ popped \in Keys \cup {None} /\ crashed \in BOOLEAN
  BY Zenon DEF CacheInv, CacheTypeOK, Entries, Nodes
<1>2. /\ IsHeap(heap) /\ OneNodePerKey(heap)
      /\ \A k \in KeysOf(heap) : cache[k] # None /\ k # popped
      /\ popped # None => cache[popped] # None
  BY Zenon DEF CacheInv, HeapSound, OneNodePerKey, KeysOf
<1>3. clock' = clock /\ popped' = popped
  BY Zenon DEF ProcessConfig
<1>4. ASSUME heap' \in Seq(Nodes), IsHeap(heap'), OneNodePerKey(heap'),
             \A k \in KeysOf(heap') : cache'[k] # None /\ k # popped,
             crashed' \in BOOLEAN, cache' \in [Keys -> Entries \cup {None}],
             popped # None => cache'[popped] # None
      PROVE  CacheInv'
  <2>1. CacheTypeOK'
    BY <1>1, <1>3, <1>4, Zenon DEF CacheTypeOK, Entries, Nodes
  <2>2. \A i \in DOMAIN heap' : heap'[i].key \in KeysOf(heap')
    BY Zenon DEF KeysOf
  <2>3. HeapSound'
    BY <1>3, <1>4, <2>2, Zenon DEF HeapSound, OneNodePerKey
  <2> QED BY <1>3, <1>4, <2>1, <2>3, Zenon DEF CacheInv
<1>5. CASE UNCHANGED <<cache, heap>> /\ crashed' \in BOOLEAN /\ (IsStored(obj) => crashed')
  BY <1>1, <1>2, <1>4, <1>5, Zenon
<1>6. CASE /\ IsStored(obj) /\ ~IndexOutOfRange(obj) /\ crashed' = crashed
  <2>1. /\ obj.key \in Keys /\ obj.ttl \in Nat
        /\ \A i \in Nat : Entry(obj, i) \in Entries /\ Entry(obj, i) # None
    BY <1>6, StoredFacts, Zenon DEF CacheInv
  <2>2. PICK node : node = [key |-> obj.key, ttl |-> clock + obj.ttl]
    BY ZenonT(30)
  <2>3. node \in Nodes /\ node.key = obj.key /\ node.ttl \in Nat
    BY <1>1, <2>1, <2>2, CacheAssumption DEF Nodes
  <2>4. ASSUME NEW i \in Nat, cache' = [cache EXCEPT ![obj.key] = Entry(obj, i)],
               heap' \in Seq(Nodes), IsHeap(heap'), OneNodePerKey(heap'),
               KeysOf(heap') \subseteq KeysOf(heap) \cup {obj.key},
               obj.key \in KeysOf(heap') => obj.key # popped
        PROVE  /\ CacheInv'
               /\ \E j \in Nat : cache' = [cache EXCEPT ![obj.key] = Entry(obj, j)]
    <3>1. cache' \in [Keys -> Entries \cup {None}]
      BY <1>1, <2>1, <2>4, SMTT(30), Zenon
    <3>2. ASSUME NEW k \in KeysOf(heap') PROVE cache'[k] # None /\ k # popped
      <4>1. CASE k = obj.key
        BY <1>1, <2>1, <2>4, <4>1, Zenon
      <4>2. CASE k # obj.key
        <5>1. k \in KeysOf(heap)
          BY <2>4, <4>2, Zenon
        <5>2. cache'[k] = cache[k]
          BY <1>1, <2>4, <4>2
        <5> QED BY <1>2, <5>1, <5>2, Zenon
      <4> QED BY <4>1, <4>2, Zenon
    <3>3. popped # None => cache'[popped] # None
      BY <1>1, <1>2, <2>1, <2>4, Zenon
    <3> QED BY <1>1, <1>4, <1>6, <2>4, <3>1, <3>2, <3>3, Zenon
  <2>5. CASE cache[obj.key] = None
    <3>1. obj.key \notin KeysOf(heap) /\ obj.key # popped
      BY <1>2, <2>1, <2>5, CacheAssumption, SMTT(30), Zenon
    <3>2. CASE obj.ttl = 0
      <4>1. cache' = [cache EXCEPT ![obj.key] = Entry(obj, 0)] /\ heap' = heap
        BY <1>6, <2>5, <3>2 DEF ProcessConfig
      <4> QED BY <1>1, <1>2, <1>6, <2>4, <3>1, <4>1, Zenon
    <3>3. CASE obj.ttl > 0
      <4>0. obj.ttl # 0
        BY <2>1, <3>3
      <4>1. AddCfgToTTLHeap(obj, [key |-> obj.key, ttl |-> clock + obj.ttl])
        BY <1>6, <2>5, <3>3, <4>0, Zenon DEF ProcessConfig
      <4>2. PICK h : h = HeapPush(heap, node)
        BY Zenon
      <4>3. /\ h \in Seq(Nodes) /\ IsHeap(h) /\ OneNodePerKey(h)
            /\ KeysOf(h) = KeysOf(heap) \cup {obj.key}
        BY <1>1, <1>2, <2>3, <3>1, <4>2, HeapPushFacts, Zenon
      <4>4. PICK i : i = CHOOSE j \in DOMAIN h : h[j].key = obj.key
        BY Zenon
      <4>5. i \in Nat
        <5>1. \E j \in DOMAIN h : h[j].key = obj.key
          BY <4>3, Zenon DEF KeysOf
        <5>2. i \in DOMAIN h
          BY <4>4, <5>1, Zenon
        <5>3. DOMAIN h \subseteq Nat
          BY <4>3, SequenceFacts
        <5> QED BY <5>2, <5>3, Zenon
      <4>6. heap' = h /\ cache' = [cache EXCEPT ![obj.key] = Entry(obj, i)]
        BY <2>2, <4>1, <4>2, <4>4, Zenon DEF AddCfgToTTLHeap
      <4> QED BY <1>6, <2>4, <3>1, <4>3, <4>5, <4>6, Zenon
    <3> QED BY <2>1, <3>2, <3>3, SMTT(30), Zenon
  <2>6. CASE cache[obj.key] # None
    <3>1. PICK i : i = cache[obj.key].idx
      BY Zenon
    <3>2. i \in Nat /\ (i # 0 => i \in 1..Len(heap))
      <4>1. cache[obj.key] \in Entries /\ Len(heap) \in Nat
        BY <1>1, <2>1, <2>6, SequenceFacts, SMTT(30), Zenon
      <4> QED BY <1>6, <2>6, <3>1, <4>1 DEF Entries, IndexOutOfRange
    <3>3. obj.key \in KeysOf(heap) => obj.key # popped
      BY <1>2, Zenon
    <3>4. CASE obj.ttl = 0
      <4>1. RemoveCfgFromTTLHeap(obj)
        BY <1>6, <2>6, <3>4 DEF ProcessConfig
      <4>2. /\ heap' = IF i = 0 THEN heap ELSE HeapRemove(heap, i)
            /\ cache' = [cache EXCEPT ![obj.key] = Entry(obj, 0)]
        BY <3>1, <4>1, Zenon DEF RemoveCfgFromTTLHeap
      <4>3. /\ heap' \in Seq(Nodes) /\ IsHeap(heap') /\ OneNodePerKey(heap')
            /\ KeysOf(heap') \subseteq KeysOf(heap)
        BY <1>1, <1>2, <3>2, <4>2, HeapRemoveFacts, Zenon
      <4> QED BY <1>6, <2>4, <3>3, <4>2, <4>3, ZenonT(30)
    <3>5. CASE obj.ttl > 0
      <4>0. obj.ttl # 0
        BY <2>1, <3>5
      <4>1. UpdateCfgInTTLHeap(obj, [key |-> obj.key, ttl |-> clock + obj.ttl])
        BY <1>6, <2>6, <3>5, <4>0, Zenon DEF ProcessConfig
      <4>2. /\ heap' = IF i = 0 THEN heap ELSE HeapFix([heap EXCEPT ![i].ttl = node.ttl], i)
            /\ cache' = [cache EXCEPT ![obj.key] = Entry(obj, i)]
        BY <2>2, <3>1, <4>1, Zenon DEF UpdateCfgInTTLHeap
      <4>3. /\ heap' \in Seq(Nodes) /\ IsHeap(heap') /\ OneNodePerKey(heap')
            /\ KeysOf(heap') = KeysOf(heap)
        BY <1>1, <1>2, <2>3, <3>2, <4>2, HeapFixFacts, Zenon
      <4> QED BY <1>6, <2>4, <3>2, <3>3, <4>2, <4>3, Zenon
    <3> QED BY <2>1, <3>4, <3>5
  <2> QED BY <1>6, <2>5, <2>6, SMTT(30), Zenon
<1> QED
  BY <1>1, <1>5, <1>6, ZenonT(30) DEF ProcessConfig

(* The lifecycle goroutine and the clock keep the invariant of the cache.  *)
LEMMA CacheStepFacts ==
  ASSUME CacheInv
  PROVE  PopExpired \/ DeletePopped \/ Tick => CacheInv'
<1>1. /\ cache \in [Keys -> Entries \cup {None}]
      /\ heap \in Seq(Nodes) /\ clock \in 0..MaxClock
      /\ popped \in Keys \cup {None} /\ crashed \in BOOLEAN
  BY Zenon DEF CacheInv, CacheTypeOK, Entries, Nodes
<1>2. /\ IsHeap(heap) /\ OneNodePerKey(heap)
      /\ \A k \in KeysOf(heap) : cache[k] # None /\ k # popped
      /\ popped # None => cache[popped] # None
  BY Zenon DEF CacheInv, HeapSound, OneNodePerKey, KeysOf
<1>3. ASSUME heap' \in Seq(Nodes), IsHeap(heap'), OneNodePerKey(heap'),
             \A k \in KeysOf(heap') : cache'[k] # None /\ k # popped',
             crashed' = crashed, clock' \in 0..MaxClock, popped' \in Keys \cup {None},
             cache' \in [Keys -> Entries \cup {None}],
             popped' # None => cache'[popped'] # None
      PROVE  CacheInv'
  <2>1. CacheTypeOK'
    BY <1>1, <1>3, Zenon DEF CacheTypeOK, Entries, Nodes
  <2>2. \A i \in DOMAIN heap' : heap'[i].key \in KeysOf(heap')
    BY Zenon DEF KeysOf
  <2>3. HeapSound'
    BY <1>3, <2>2, Zenon DEF HeapSound, OneNodePerKey
  <2> QED BY <1>3, <2>1, <2>3, Zenon DEF CacheInv
<1>4. ASSUME PopExpired PROVE CacheInv'
  <2>1. /\ heap # <<>> /\ popped' = heap[1].key /\ heap' = HeapPop(heap)
        /\ cache' = cache /\ clock' = clock /\ crashed' = crashed
    BY <1>4, Zenon DEF PopExpired
  <2>2. /\ heap' \in Seq(Nodes) /\ IsHeap(heap') /\ OneNodePerKey(heap')
        /\ KeysOf(heap') \subseteq KeysOf(heap)
        /\ popped' \in KeysOf(heap) /\ popped' \in Keys /\ popped' \notin KeysOf(heap')
    BY <1>1, <1>2, <2>1, HeapPopFacts, Zenon DEF Nodes
  <2> QED BY <1>1, <1>2, <1>3, <2>1, <2>2, Zenon
<1>5. ASSUME DeletePopped PROVE CacheInv'
  <2>1. /\ popped \in Keys /\ popped' = None /\ cache' = [cache EXCEPT ![popped] = None]
        /\ heap' = heap /\ clock' = clock /\ crashed' = crashed
    BY <1>1, <1>5, Zenon DEF DeletePopped
  <2>2. cache' \in [Keys -> Entries \cup {None}]
    BY <1>1, <2>1, Zenon
  <2>3. KeysOf(heap) \subseteq Keys
    <3>1. \A i \in DOMAIN heap : heap[i] \in Nodes
      BY <1>1, SequenceFacts
    <3>2. \A i \in DOMAIN heap : heap[i].key \in Keys
      BY <3>1, SMTT(30), Zenon DEF Nodes
    <3> QED BY <3>2, Zenon DEF KeysOf
  <2>4. \A k \in KeysOf(heap) : cache'[k] # None /\ k # None
    BY <1>1, <1>2, <2>1, <2>3, CacheAssumption, SMTT(30), Zenon
  <2> QED BY <1>1, <1>2, <1>3, <2>1, <2>2, <2>4, Zenon
<1>6. ASSUME Tick PROVE CacheInv'
  BY <1>1, <1>2, <1>3, <1>6, CacheAssumption DEF Tick
<1> QED
  BY <1>4, <1>5, <1>6, Zenon


-----------------------------------------------------------------------------
(* Type correctness and control of the loader.                             *)

(* Close waits for the goroutines that send before it closes the channels, *)
(* the stream goroutine has objects to process while it processes, and the *)
(* lifecycle goroutine sends only expired instances.                       *)
Control ==
  /\ stream = "process" => configs # <<>>
  /\ stream = "ack" => configs = <<>>
  /\ closing \in {"waited", "closed"} => stream = "done" /\ lifecycle = "done"
  /\ subsClosed => closing = "closed"
  /\ lifecycle = "send" => expired \in InstanceRecord /\ expired.expired = TRUE
  /\ stream \in {"processed", "send"} => instance \in InstanceRecord

LoaderInv == TypeOK /\ CacheInv /\ Control

(* The loader starts in its invariant.                                     *)
LEMMA LoaderInit == Init => LoaderInv
<1> SUFFICES ASSUME Init PROVE LoaderInv
  BY Zenon
<1> USE DEF Init, CacheInit, SubsInit
<1>1. CacheTypeOK
  <2>1. heap \in Seq([key : Keys, ttl : Nat])
    BY EmptyFacts, Zenon
  <2>2. clock \in 0..MaxClock
    BY CacheAssumption, SMTT(30)
  <2> QED BY <2>1, <2>2, ZenonT(30) DEF CacheTypeOK
<1>2. HeapSound
  BY DEF HeapSound, IsHeap
<1>3. CacheInv
  BY <1>1, <1>2, SMTT(30), Zenon DEF CacheInv
<1>4. TypeOK
  <2>1. <<>> \in Seq(Objects) /\ <<>> \in Seq(Watchers)
    BY EmptyFacts, Zenon
  <2>2. nresp \in 0..MaxResponses
    BY LoaderAssumption
  <2>3. queued \in [Watchers -> 0..ChanCap]
    BY SubscriptionsAssumption
  <2>4. /\ pending \in [Watchers -> SUBSET InstanceRecord]
        /\ sent \in [Watchers -> SUBSET InstanceRecord]
    BY Zenon
  <2> QED BY <1>1, <2>1, <2>2, <2>3, <2>4, Zenon DEF TypeOK
<1>5. Control
  BY Zenon DEF Control
<1> QED
  BY <1>3, <1>4, <1>5, Zenon DEF LoaderInv

(* A step that does not touch the cache keeps its invariant.               *)
LEMMA CacheUnchanged ==
  ASSUME CacheInv, UNCHANGED cacheVars
  PROVE  CacheInv'
<1>1. CacheTypeOK'
  BY Zenon DEF CacheInv, CacheTypeOK, cacheVars
<1>2. HeapSound'
  BY Zenon DEF CacheInv, HeapSound, cacheVars
<1> QED
  BY <1>1, <1>2, Zenon DEF CacheInv, cacheVars

(* The types of the instances the goroutines send.                         *)
LEMMA InstanceTypes ==
  ASSUME TypeOK
  PROVE  /\ \A k \in Keys : cache[k] # None => Cached(k) \in InstanceRecord
         /\ \A obj \in Objects :
              Instance(obj.key, obj.version, IsAccepted(obj), FALSE) \in InstanceRecord
<1>1. \A k \in Keys : cache[k] # None => cache[k] \in [version : Int, ok : BOOLEAN, idx : Nat]
  BY Zenon DEF TypeOK, CacheTypeOK
<1>2. \A k \in Keys : cache[k] # None => Cached(k) \in InstanceRecord
  BY <1>1, Zenon DEF Cached, Instance, InstanceRecord
<1>3. \A obj \in Objects : IsAccepted(obj) \in BOOLEAN
  BY Zenon DEF IsAccepted
<1>4. \A obj \in Objects : obj.key \in Keys /\ obj.version \in Int \cup {BadVersion}
  BY CacheAssumption, Zenon
<1>5. ASSUME NEW obj \in Objects, NEW b \in BOOLEAN
      PROVE  Instance(obj.key, obj.version, b, FALSE) \in InstanceRecord
  BY <1>4, Zenon DEF Instance, InstanceRecord
<1> QED
  BY <1>2, <1>3, <1>5, Zenon

(* One send to a subscriber.                                               *)
LEMMA SendTypes ==
  ASSUME TypeOK, NEW w \in Watchers, NEW inst \in InstanceRecord,
         SendOn(w, inst) \/ UNCHANGED chanVars
  PROVE  /\ queued' \in [Watchers -> 0..ChanCap]
         /\ left' \subseteq Watchers
         /\ sent' \in [Watchers -> SUBSET InstanceRecord]
<1>1. /\ queued \in [Watchers -> 0..ChanCap] /\ sent \in [Watchers -> SUBSET InstanceRecord]
      /\ left \subseteq Watchers /\ ChanCap \in Nat
  BY SubscriptionsAssumption, Zenon DEF TypeOK
<1>2. CASE SendOn(w, inst)
  <2>1. queued[w] + 1 \in 0..ChanCap
    BY <1>1, <1>2 DEF SendOn
  <2> QED BY <1>1, <1>2, <2>1, Zenon DEF SendOn
<1>3. CASE UNCHANGED chanVars
  BY <1>1, <1>3, Zenon DEF chanVars
<1> QED
  BY <1>2, <1>3, SMTT(30), Zenon

(* Heads and tails of sequences.                                           *)
LEMMA HeadTail ==
  ASSUME NEW S, NEW q \in Seq(S), q # <<>>
  PROVE  Head(q) \in S /\ Tail(q) \in Seq(S)
BY TailFacts, Zenon

(* The stream goroutine keeps the invariant of the loader.                 *)
LEMMA StreamStep == ASSUME LoaderInv, StreamNext PROVE LoaderInv'
<1> USE DEF vars, cacheVars, streamVars, others, respVars, sendVars, lifeVars,
                 watchVars, chanVars, closeVars
<1>1. TypeOK /\ CacheInv /\ Control
  BY Zenon DEF LoaderInv
<1>2. ASSUME UNCHANGED cacheVars PROVE CacheInv' /\ CacheTypeOK'
  BY <1>1, <1>2, CacheUnchanged, Zenon DEF CacheInv
<1>3. CASE ManageStream
  <2>1. CacheInv' /\ CacheTypeOK'
    BY <1>2, <1>3, SMTT(30), Zenon DEF ManageStream
  <2>2. TypeOK'
    BY <1>1, <1>3, <2>1, Zenon DEF ManageStream, TypeOK
  <2>3. Control'
    BY <1>1, <1>3, Zenon DEF ManageStream, Control, TypeOK
  <2> QED BY <2>1, <2>2, <2>3, Zenon DEF LoaderInv
<1>4. CASE Connect
  <2>1. CacheInv' /\ CacheTypeOK'
    BY <1>2, <1>4, SMTT(30), Zenon DEF Connect
  <2>2. TypeOK'
    BY <1>1, <1>4, <2>1, Zenon DEF Connect, TypeOK
  <2>3. Control'
    BY <1>1, <1>4, Zenon DEF Connect, Control, TypeOK
  <2> QED BY <2>1, <2>2, <2>3, Zenon DEF LoaderInv
<1>5. CASE GiveUpConnecting
  <2>1. CacheInv' /\ CacheTypeOK'
    BY <1>2, <1>5, SMTT(30), Zenon DEF GiveUpConnecting
  <2>2. TypeOK'
    BY <1>1, <1>5, <2>1, SMTT(30), Zenon DEF GiveUpConnecting, TypeOK
  <2>3. Control'
    BY <1>1, <1>5, Zenon DEF GiveUpConnecting, Control, TypeOK
  <2> QED BY <2>1, <2>2, <2>3, Zenon DEF LoaderInv
<1>6. CASE SendInitialRequest
  <2>1. CacheInv' /\ CacheTypeOK'
    BY <1>2, <1>6, SMTT(30), Zenon DEF SendInitialRequest
  <2>2. TypeOK'
    BY <1>1, <1>6, <2>1, Zenon DEF SendInitialRequest, TypeOK
  <2>3. Control'
    BY <1>1, <1>6, Zenon DEF SendInitialRequest, Control, TypeOK
  <2> QED BY <2>1, <2>2, <2>3, Zenon DEF LoaderInv
<1>7. CASE StreamEnds
  <2>1. CacheInv' /\ CacheTypeOK'
    BY <1>2, <1>7, SMTT(30), Zenon DEF StreamEnds
  <2>2. TypeOK'
    BY <1>1, <1>7, <2>1, Zenon DEF StreamEnds, TypeOK
  <2>3. Control'
    BY <1>1, <1>7, Zenon DEF StreamEnds, Control, TypeOK
  <2> QED BY <2>1, <2>2, <2>3, Zenon DEF LoaderInv
<1>8. ASSUME NEW resp \in Responses, Recv(resp) PROVE LoaderInv'
  <2>1. CacheInv' /\ CacheTypeOK'
    BY <1>2, <1>8, SMTT(30), Zenon DEF Recv
  <2>2. resp \in Seq(Objects) /\ nresp + 1 \in 0..MaxResponses
    BY <1>1, <1>8, LoaderAssumption, SMTT(30), Zenon DEF Recv, TypeOK
  <2>3. TypeOK'
    BY <1>1, <1>8, <2>1, <2>2, Zenon DEF Recv, TypeOK
  <2>4. Control'
    BY <1>1, <1>8, Zenon DEF Recv, Control, TypeOK
  <2> QED BY <2>1, <2>3, <2>4, Zenon DEF LoaderInv
<1>9. CASE StreamProcess
  <2>1. PICK obj : obj = Head(configs)
    BY Zenon
  <2>2. configs # <<>> /\ configs \in Seq(Objects)
    BY <1>1, <1>9, Zenon DEF StreamProcess, Control, TypeOK
  <2>3. obj \in Objects /\ Tail(configs) \in Seq(Objects)
    BY <2>1, <2>2, HeadTail, SMTT(30), Zenon
  <2>4. /\ ProcessConfig(obj)
        /\ instance' = Instance(obj.key, obj.version, IsAccepted(obj), FALSE)
        /\ rejected' = (rejected \/ ~IsAccepted(obj))
    BY <1>9, <2>1, Zenon DEF StreamProcess
  <2>5. CacheInv' /\ CacheTypeOK'
    BY <1>1, <2>3, <2>4, ProcessConfigFacts, Zenon DEF CacheInv
  <2>6. instance' \in InstanceRecord
    BY <1>1, <2>3, <2>4, InstanceTypes, Zenon
  <2>7. rejected' \in BOOLEAN
    BY <2>4, Zenon
  <2>8. TypeOK'
    BY <1>1, <1>9, <2>3, <2>5, <2>6, <2>7, Zenon DEF StreamProcess, TypeOK
  <2>9. Control'
    BY <1>1, <1>9, <2>6, Zenon DEF StreamProcess, Control, TypeOK
  <2> QED BY <2>5, <2>8, <2>9, Zenon DEF LoaderInv
<1>10. CASE StreamSendBegins
  <2>1. CacheInv' /\ CacheTypeOK'
    BY <1>2, <1>10, Zenon DEF StreamSendBegins
  <2>2. SendTodo \in Seq(Watchers)
    BY <1>1, EmptyFacts, SMTT(30), Zenon DEF SendTodo, TypeOK
  <2>3. TypeOK'
    BY <1>1, <1>10, <2>1, <2>2, Zenon DEF StreamSendBegins, TypeOK
  <2>4. Control'
    BY <1>1, <1>10, Zenon DEF StreamSendBegins, Control, TypeOK
  <2> QED BY <2>1, <2>3, <2>4, Zenon DEF LoaderInv
<1>11. CASE StreamSend
  <2>1. CacheInv' /\ CacheTypeOK'
    BY <1>2, <1>11, SMTT(30), Zenon DEF StreamSend
  <2>2. streamTodo # <<>> /\ streamTodo \in Seq(Watchers)
    BY <1>1, <1>11, Zenon DEF StreamSend, TypeOK
  <2>3. Head(streamTodo) \in Watchers /\ Tail(streamTodo) \in Seq(Watchers)
    BY <2>2, HeadTail, Zenon
  <2>4. SendTo(Head(streamTodo), instance) /\ instance \in InstanceRecord
    BY <1>1, <1>11, Zenon DEF StreamSend, Control
  <2>5. /\ queued' \in [Watchers -> 0..ChanCap] /\ left' \subseteq Watchers
        /\ sent' \in [Watchers -> SUBSET InstanceRecord]
    BY <1>1, <2>3, <2>4, SendTypes, SMTT(30), Zenon DEF SendTo
  <2>6. TypeOK'
    BY <1>1, <1>11, <2>1, <2>3, <2>5, Zenon DEF StreamSend, TypeOK
  <2>7. Control'
    BY <1>1, <1>11, Zenon DEF StreamSend, Control, TypeOK
  <2> QED BY <2>1, <2>6, <2>7, Zenon DEF LoaderInv
<1>12. CASE StreamSendEnds
  <2>1. CacheInv' /\ CacheTypeOK'
    BY <1>2, <1>12, SMTT(30), Zenon DEF StreamSendEnds
  <2>2. TypeOK'
    BY <1>1, <1>12, <2>1, Zenon DEF StreamSendEnds, TypeOK
  <2>3. Control'
    BY <1>1, <1>12, Zenon DEF StreamSendEnds, Control, TypeOK
  <2> QED BY <2>1, <2>2, <2>3, Zenon DEF LoaderInv
<1>13. CASE Ack
  <2>1. CacheInv' /\ CacheTypeOK'
    BY <1>2, <1>13, SMTT(30), Zenon DEF Ack
  <2>2. Range(response) \subseteq Objects
    BY <1>1, SequenceFacts, SMTT(30), Zenon DEF TypeOK, Range
  <2>3. <<>> \in Seq(Objects) /\ acked' \subseteq Objects
    BY <1>1, <1>13, <2>2, EmptyFacts, SMTT(30), Zenon DEF Ack, TypeOK
  <2>4. TypeOK'
    BY <1>1, <1>13, <2>1, <2>3, Zenon DEF Ack, TypeOK
  <2>5. Control'
    BY <1>1, <1>13, Zenon DEF Ack, Control, TypeOK
  <2> QED BY <2>1, <2>4, <2>5, Zenon DEF LoaderInv
<1> QED
  BY <1>3, <1>4, <1>5, <1>6, <1>7, <1>8, <1>9, <1>10, <1>11, <1>12, <1>13, Zenon DEF StreamNext

(* The lifecycle goroutine keeps the invariant of the loader.              *)
LEMMA LifecycleStep == ASSUME LoaderInv, LifecycleNext PROVE LoaderInv'
<1> USE DEF vars, cacheVars, streamVars, others, respVars, sendVars, lifeVars,
                 watchVars, chanVars, closeVars
<1>1. TypeOK /\ CacheInv /\ Control
  BY Zenon DEF LoaderInv
<1>2. ASSUME UNCHANGED cacheVars PROVE CacheInv' /\ CacheTypeOK'
  BY <1>1, <1>2, CacheUnchanged, Zenon DEF CacheInv
<1>3. CASE LifecyclePop
  <2>1. CacheInv' /\ CacheTypeOK'
    BY <1>1, <1>3, CacheStepFacts, SMTT(30), Zenon DEF LifecyclePop, CacheInv
  <2>2. TypeOK'
    BY <1>1, <1>3, <2>1, Zenon DEF LifecyclePop, TypeOK
  <2>3. Control'
    BY <1>1, <1>3, Zenon DEF LifecyclePop, Control, TypeOK
  <2> QED BY <2>1, <2>2, <2>3, SMTT(30), Zenon DEF LoaderInv
<1>4. CASE LifecycleDelete
  <2>1. CacheInv' /\ CacheTypeOK'
    BY <1>1, <1>4, CacheStepFacts, Zenon DEF LifecycleDelete, CacheInv
  <2>2. popped \in Keys /\ cache[popped] # None
    BY <1>1, <1>4, Zenon DEF LifecycleDelete, DeletePopped, CacheInv, CacheTypeOK
  <2>3. /\ lifecycle' = "send" /\ lifeTodo' = SendTodo /\ gone' = gone \cup {expired'}
        /\ expired' = [Cached(popped) EXCEPT !.expired = TRUE]
    BY <1>4, <2>2, Zenon DEF LifecycleDelete
  <2>4. expired' \in InstanceRecord /\ expired'.expired = TRUE
    <3>1. Cached(popped) \in InstanceRecord
      BY <1>1, <2>2, InstanceTypes, Zenon
    <3>2. PICK inst : inst = Cached(popped)
      BY Zenon
    <3>3. [inst EXCEPT !.expired = TRUE] \in InstanceRecord
      BY <3>1, <3>2, Zenon DEF InstanceRecord
    <3>4. [inst EXCEPT !.expired = TRUE].expired = TRUE
      BY <3>1, <3>2, Zenon DEF InstanceRecord
    <3> QED BY <2>3, <3>2, <3>3, <3>4, Zenon
  <2>5. SendTodo \in Seq(Watchers)
    BY <1>1, EmptyFacts, Zenon DEF SendTodo, TypeOK
  <2>6. TypeOK'
    BY <1>1, <1>4, <2>1, <2>3, <2>4, <2>5, Zenon DEF LifecycleDelete, TypeOK
  <2>7. Control'
    BY <1>1, <1>4, <2>3, <2>4, Zenon DEF LifecycleDelete, Control, TypeOK
  <2> QED BY <2>1, <2>6, <2>7, Zenon DEF LoaderInv
<1>5. CASE LifecycleSend
  <2>1. CacheInv' /\ CacheTypeOK'
    BY <1>2, <1>5, SMTT(30), Zenon DEF LifecycleSend
  <2>2. lifeTodo # <<>> /\ lifeTodo \in Seq(Watchers)
    BY <1>1, <1>5, Zenon DEF LifecycleSend, TypeOK
  <2>3. Head(lifeTodo) \in Watchers /\ Tail(lifeTodo) \in Seq(Watchers)
    BY <2>2, HeadTail, Zenon
  <2>4. SendTo(Head(lifeTodo), expired) /\ expired \in InstanceRecord
    BY <1>1, <1>5, Zenon DEF LifecycleSend, Control
  <2>5. /\ queued' \in [Watchers -> 0..ChanCap] /\ left' \subseteq Watchers
        /\ sent' \in [Watchers -> SUBSET InstanceRecord]
    BY <1>1, <2>3, <2>4, SendTypes, SMTT(30), Zenon DEF SendTo
  <2>6. TypeOK'
    BY <1>1, <1>5, <2>1, <2>3, <2>5, Zenon DEF LifecycleSend, TypeOK
  <2>7. Control'
    BY <1>1, <1>5, Zenon DEF LifecycleSend, Control, TypeOK
  <2> QED BY <2>1, <2>6, <2>7, Zenon DEF LoaderInv
<1>6. CASE LifecycleSendEnds
  <2>1. CacheInv' /\ CacheTypeOK'
    BY <1>2, <1>6, SMTT(30), Zenon DEF LifecycleSendEnds
  <2>2. TypeOK'
    BY <1>1, <1>6, <2>1, Zenon DEF LifecycleSendEnds, TypeOK
  <2>3. Control'
    BY <1>1, <1>6, Zenon DEF LifecycleSendEnds, Control, TypeOK
  <2> QED BY <2>1, <2>2, <2>3, Zenon DEF LoaderInv
<1>7. CASE LifecycleStops
  <2>1. CacheInv' /\ CacheTypeOK'
    BY <1>2, <1>7, SMTT(30), Zenon DEF LifecycleStops
  <2>2. TypeOK'
    BY <1>1, <1>7, <2>1, Zenon DEF LifecycleStops, TypeOK
  <2>3. Control'
    BY <1>1, <1>7, Zenon DEF LifecycleStops, Control, TypeOK
  <2> QED BY <2>1, <2>2, <2>3, Zenon DEF LoaderInv
<1> QED
  BY <1>3, <1>4, <1>5, <1>6, <1>7, Zenon DEF LifecycleNext

(* Watch and the subscriber keep the invariant of the loader.              *)
LEMMA WatchStep ==
  ASSUME LoaderInv, NEW w \in Watchers, WatchAdd(w) \/ WatchNext(w) \/ WatchReceive(w) \/ WatchLeave(w)
  PROVE  LoaderInv'
<1> USE DEF vars, cacheVars, streamVars, others, respVars, sendVars, lifeVars,
                 watchVars, chanVars, closeVars
<1>1. TypeOK /\ CacheInv /\ Control
  BY Zenon DEF LoaderInv
<1>2. ASSUME UNCHANGED cacheVars PROVE CacheInv' /\ CacheTypeOK'
  BY <1>1, <1>2, CacheUnchanged, Zenon DEF CacheInv
<1>3. CASE WatchAdd(w)
  <2>1. CacheInv' /\ CacheTypeOK'
    BY <1>2, <1>3, SMTT(30), Zenon DEF WatchAdd
  <2>2. Append(subs, w) \in Seq(Watchers)
    BY <1>1, AppendFacts, Zenon DEF TypeOK
  <2>3. TypeOK'
    BY <1>1, <1>3, <2>1, <2>2, ZenonT(30) DEF WatchAdd, TypeOK
  <2>4. Control'
    BY <1>1, <1>3, Zenon DEF WatchAdd, Control, TypeOK
  <2> QED BY <2>1, <2>3, <2>4, SMTT(30), Zenon DEF LoaderInv
<1>4. CASE WatchStart(w)
  <2>1. CacheInv' /\ CacheTypeOK'
    BY <1>2, <1>4, SMTT(30), Zenon DEF WatchStart
  <2>2. TypeOK'
    BY <1>1, <1>4, <2>1, ZenonT(30) DEF WatchStart, TypeOK
  <2>3. Control'
    BY <1>1, <1>4, Zenon DEF WatchStart, Control, TypeOK
  <2> QED BY <2>1, <2>2, <2>3, Zenon DEF LoaderInv
<1>5. CASE WatchList(w)
  <2>1. CacheInv' /\ CacheTypeOK'
    BY <1>2, <1>5, Zenon DEF WatchList
  <2>2. ListConfigs(Filter[w]) \subseteq InstanceRecord
    BY <1>1, InstanceTypes, SMTT(30), Zenon DEF ListConfigs
  <2>3. TypeOK'
    BY <1>1, <1>5, <2>1, <2>2, ZenonT(30) DEF WatchList, TypeOK
  <2>4. Control'
    BY <1>1, <1>5, Zenon DEF WatchList, Control, TypeOK
  <2> QED BY <2>1, <2>3, <2>4, SMTT(30), Zenon DEF LoaderInv
<1>6. CASE WatchSend(w)
  <2>1. CacheInv' /\ CacheTypeOK'
    BY <1>2, <1>6, SMTT(30), Zenon DEF WatchSend
  <2>2. PICK inst \in pending[w] :
          IF subsClosed
          THEN panicked' = TRUE /\ UNCHANGED <<chanVars, pending>>
          ELSE /\ SendOn(w, inst)
               /\ pending' = [pending EXCEPT ![w] = @ \ {inst}]
               /\ panicked' = panicked
    BY <1>6, SMTT(30), Zenon DEF WatchSend
  <2>3. inst \in InstanceRecord
    BY <1>1, Zenon DEF TypeOK
  <2>4. /\ queued' \in [Watchers -> 0..ChanCap] /\ left' \subseteq Watchers
        /\ sent' \in [Watchers -> SUBSET InstanceRecord]
    BY <1>1, <2>2, <2>3, SendTypes, SMTT(30), Zenon
  <2>5. pending' \in [Watchers -> SUBSET InstanceRecord] /\ panicked' \in BOOLEAN
    BY <1>1, <2>2, Zenon DEF TypeOK
  <2>6. TypeOK'
    BY <1>1, <1>6, <2>1, <2>4, <2>5, ZenonT(30) DEF WatchSend, TypeOK
  <2>7. Control'
    BY <1>1, <1>6, Zenon DEF WatchSend, Control, TypeOK
  <2> QED BY <2>1, <2>6, <2>7, SMTT(30), Zenon DEF LoaderInv
<1>7. CASE WatchDone(w)
  <2>1. CacheInv' /\ CacheTypeOK'
    BY <1>2, <1>7, Zenon DEF WatchDone
  <2>2. TypeOK'
    BY <1>1, <1>7, <2>1, ZenonT(30) DEF WatchDone, TypeOK
  <2>3. Control'
    BY <1>1, <1>7, Zenon DEF WatchDone, Control, TypeOK
  <2> QED BY <2>1, <2>2, <2>3, SMTT(30), Zenon DEF LoaderInv
<1>8. CASE WatchReceive(w)
  <2>1. CacheInv' /\ CacheTypeOK'
    BY <1>2, <1>8, SMTT(30), Zenon DEF WatchReceive
  <2>2. queued' \in [Watchers -> 0..ChanCap]
    BY <1>1, <1>8, SubscriptionsAssumption, SMTT(30), Zenon DEF WatchReceive, Receive, TypeOK
  <2>3. TypeOK'
    BY <1>1, <1>8, <2>1, <2>2, ZenonT(30) DEF WatchReceive, TypeOK
  <2>4. Control'
    BY <1>1, <1>8, Zenon DEF WatchReceive, Control, TypeOK
  <2> QED BY <2>1, <2>3, <2>4, SMTT(30), Zenon DEF LoaderInv
<1>9. CASE WatchLeave(w)
  <2>1. CacheInv' /\ CacheTypeOK'
    BY <1>2, <1>9, Zenon DEF WatchLeave
  <2>2. left' \subseteq Watchers
    BY <1>1, <1>9, Zenon DEF WatchLeave, Leave, TypeOK
  <2>3. TypeOK'
    BY <1>1, <1>9, <2>1, <2>2, ZenonT(30) DEF WatchLeave, TypeOK
  <2>4. Control'
    BY <1>1, <1>9, Zenon DEF WatchLeave, Control, TypeOK
  <2> QED BY <2>1, <2>3, <2>4, Zenon DEF LoaderInv
<1> QED
  BY <1>3, <1>4, <1>5, <1>6, <1>7, <1>8, <1>9, Zenon DEF WatchNext

(* Every step keeps the invariant of the loader.                           *)
LEMMA LoaderStep == ASSUME LoaderInv, [Next]_vars PROVE LoaderInv'
<1> USE DEF vars, cacheVars, streamVars, others, respVars, sendVars, lifeVars,
                 watchVars, chanVars, closeVars
<1>1. TypeOK /\ CacheInv /\ Control
  BY Zenon DEF LoaderInv
<1>2. ASSUME UNCHANGED cacheVars PROVE CacheInv' /\ CacheTypeOK'
  BY <1>1, <1>2, CacheUnchanged, SMTT(30), Zenon DEF CacheInv
<1>3. CASE Close
  <2>1. CacheInv' /\ CacheTypeOK'
    BY <1>2, <1>3, SMTT(30), Zenon DEF Close
  <2>2. TypeOK'
    BY <1>1, <1>3, <2>1, Zenon DEF Close, TypeOK
  <2>3. Control'
    BY <1>1, <1>3, Zenon DEF Close, Control, TypeOK
  <2> QED BY <2>1, <2>2, <2>3, SMTT(30), Zenon DEF LoaderInv
<1>4. CASE CloseWait
  <2>1. CacheInv' /\ CacheTypeOK'
    BY <1>2, <1>4, SMTT(30), Zenon DEF CloseWait
  <2>2. TypeOK'
    BY <1>1, <1>4, <2>1, Zenon DEF CloseWait, TypeOK
  <2>3. Control'
    BY <1>1, <1>4, Zenon DEF CloseWait, Control, TypeOK
  <2> QED BY <2>1, <2>2, <2>3, SMTT(30), Zenon DEF LoaderInv
<1>5. CASE CloseSubs
  <2>1. CacheInv' /\ CacheTypeOK'
    BY <1>2, <1>5, SMTT(30), Zenon DEF CloseSubs
  <2>2. TypeOK'
    BY <1>1, <1>5, <2>1, Zenon DEF CloseSubs, TypeOK
  <2>3. Control'
    BY <1>1, <1>5, Zenon DEF CloseSubs, Control, TypeOK
  <2> QED BY <2>1, <2>2, <2>3, SMTT(30), Zenon DEF LoaderInv
<1>6. CASE ClockTick
  <2>1. CacheInv' /\ CacheTypeOK'
    BY <1>1, <1>6, CacheStepFacts, Zenon DEF ClockTick, CacheInv
  <2>2. TypeOK'
    BY <1>1, <1>6, <2>1, ZenonT(30) DEF ClockTick, TypeOK
  <2>3. Control'
    BY <1>1, <1>6, Zenon DEF ClockTick, Control, TypeOK
  <2> QED BY <2>1, <2>2, <2>3, SMTT(30), Zenon DEF LoaderInv
<1>7. CASE StreamAges
  <2>1. CacheInv' /\ CacheTypeOK'
    BY <1>2, <1>7, SMTT(30), Zenon DEF StreamAges
  <2>2. TypeOK'
    BY <1>1, <1>7, <2>1, Zenon DEF StreamAges, TypeOK
  <2>3. Control'
    BY <1>1, <1>7, Zenon DEF StreamAges, Control, TypeOK
  <2> QED BY <2>1, <2>2, <2>3, SMTT(30), Zenon DEF LoaderInv
<1>8. CASE UNCHANGED vars
  <2>1. CacheInv' /\ CacheTypeOK'
    BY <1>2, <1>8, SMTT(30), Zenon
  <2>2. TypeOK'
    BY <1>1, <1>8, <2>1, Zenon DEF TypeOK
  <2>3. Control'
    BY <1>1, <1>8, Zenon DEF Control
  <2> QED BY <2>1, <2>2, <2>3, SMTT(30), Zenon DEF LoaderInv
<1> QED
  BY <1>3, <1>4, <1>5, <1>6, <1>7, <1>8, StreamStep, LifecycleStep, WatchStep, SMTT(30), Zenon DEF Next, CloseNext

(* Type correctness: every variable of the AMS loader keeps its type; in   *)
(* particular processConfig stores only numeric versions.                  *)
THEOREM TypeCorrect == Spec => []TypeOK
<1>1. LoaderInv /\ [Next]_vars => LoaderInv'
  BY LoaderStep, Zenon
<1>2. LoaderInv => TypeOK
  BY Zenon DEF LoaderInv
<1> QED
  BY <1>1, <1>2, LoaderInit, PTL DEF Spec

(* The expiry heap stays a heap with at most one node per cached key,      *)
(* although heap.Fix and heap.Remove are given positions that are out of   *)
(* date, under every interleaving of the goroutines and every number of    *)
(* configurations.                                                         *)
THEOREM HeapStaysSound == Spec => []HeapSound
<1>1. LoaderInv /\ [Next]_vars => LoaderInv'
  BY LoaderStep, Zenon
<1>2. LoaderInv => HeapSound
  BY Zenon DEF LoaderInv, CacheInv
<1> QED
  BY <1>1, <1>2, LoaderInit, PTL DEF Spec

-----------------------------------------------------------------------------
(* Versions in the cache.                                                  *)

(* What processing the next object does to the cache.                      *)
LEMMA StreamProcessFacts ==
  ASSUME LoaderInv, StreamProcess
  PROVE  \E obj \in Objects :
           /\ configs \in Seq(Objects) /\ configs # <<>> /\ obj = Head(configs)
           /\ obj.key \in Keys
           /\ ProcessConfig(obj)
           /\ instance' = Instance(obj.key, obj.version, IsAccepted(obj), FALSE)
           /\ rejected' = (rejected \/ ~IsAccepted(obj))
           /\ \/ cache' = cache /\ (IsStored(obj) => crashed')
              \/ /\ IsStored(obj)
                 /\ \E i \in Nat : cache' = [cache EXCEPT ![obj.key] = Entry(obj, i)]
<1>1. configs # <<>> /\ configs \in Seq(Objects)
  BY Zenon DEF LoaderInv, StreamProcess, Control, TypeOK
<1>2. PICK obj \in Objects : obj = Head(configs)
  BY <1>1, HeadTail, SMTT(30), Zenon
<1>3. /\ ProcessConfig(obj)
      /\ instance' = Instance(obj.key, obj.version, IsAccepted(obj), FALSE)
      /\ rejected' = (rejected \/ ~IsAccepted(obj))
  BY <1>2, Zenon DEF StreamProcess
<1>4. CacheInv
  BY Zenon DEF LoaderInv
<1>5. \/ cache' = cache /\ (IsStored(obj) => crashed')
      \/ /\ IsStored(obj)
         /\ \E i \in Nat : cache' = [cache EXCEPT ![obj.key] = Entry(obj, i)]
  BY <1>3, <1>4, ProcessConfigFacts, Zenon
<1>6. obj.key \in Keys
  BY CacheAssumption, Zenon
<1> QED
  BY <1>1, <1>2, <1>3, <1>5, <1>6, Zenon

(* Only the stream goroutine stores in the cache, and only the lifecycle   *)
(* goroutine deletes from it.                                              *)
LEMMA CacheChanges ==
  ASSUME [Next]_vars
  PROVE  cache' = cache \/ StreamProcess \/ LifecycleDelete
<1> USE DEF vars, cacheVars
<1>1. CASE StreamNext
  BY <1>1, Zenon DEF StreamNext, ManageStream, Connect, GiveUpConnecting, SendInitialRequest, StreamEnds,
              Recv, StreamSendBegins, StreamSend, StreamSendEnds, Ack
<1>2. CASE LifecycleNext
  BY <1>2, Zenon DEF LifecycleNext, LifecyclePop, PopExpired, LifecycleSend, LifecycleSendEnds,
              LifecycleStops
<1>3. ASSUME NEW w \in Watchers, WatchAdd(w) \/ WatchNext(w) \/ WatchReceive(w) \/ WatchLeave(w)
      PROVE  cache' = cache
  BY <1>3, Zenon DEF WatchAdd, WatchNext, WatchStart, WatchList, WatchSend, WatchDone, WatchReceive, WatchLeave
<1>4. CASE Close \/ CloseNext \/ ClockTick \/ StreamAges
  BY <1>4, Zenon DEF Close, CloseNext, CloseWait, CloseSubs, ClockTick, Tick, StreamAges
<1>5. CASE UNCHANGED vars
  BY <1>5, SMTT(30), Zenon
<1> QED
  BY <1>1, <1>2, <1>3, <1>4, <1>5, SMTT(30), Zenon DEF Next

(* An entry that stays keeps its version or gets a higher one, and stays   *)
(* valid.                                                                  *)
LEMMA EntriesImprove ==
  ASSUME LoaderInv, [Next]_vars, NEW k \in Keys, cache[k] # None, cache'[k] # None
  PROVE  /\ cache'[k].version >= cache[k].version
         /\ cache[k].ok => cache'[k].ok
<1>1. cache \in [Keys -> Entries \cup {None}] /\ CacheTypeOK
  BY Zenon DEF LoaderInv, TypeOK, CacheTypeOK, Entries
<1>2. cache[k].version \in Int
  BY <1>1, Zenon DEF Entries
<1>3. CASE cache'[k] = cache[k]
  BY <1>2, <1>3, SMTT(30), Zenon
<1>4. CASE StreamProcess
  <2>1. PICK obj \in Objects :
          /\ obj.key \in Keys
          /\ \/ cache' = cache
             \/ /\ IsStored(obj)
                /\ \E i \in Nat : cache' = [cache EXCEPT ![obj.key] = Entry(obj, i)]
    BY <1>4, StreamProcessFacts, Zenon
  <2>2. CASE IsStored(obj) /\ obj.key = k /\ cache' # cache
    <3>1. PICK i \in Nat : cache' = [cache EXCEPT ![obj.key] = Entry(obj, i)]
      BY <2>1, <2>2, Zenon
    <3>2. cache'[k].version = obj.version /\ cache'[k].ok = obj.valid
      BY <1>1, <2>2, <3>1, SMTT(30), Zenon DEF Entry
    <3>3. obj.version >= cache[k].version /\ (cache[k].ok => obj.valid)
      BY <1>1, <2>2, StoredFacts, Zenon
    <3> QED BY <3>2, <3>3, Zenon
  <2>3. CASE ~(IsStored(obj) /\ obj.key = k /\ cache' # cache)
    <3>1. cache'[k] = cache[k]
      BY <1>1, <2>1, <2>3, SMTT(30), Zenon
    <3> QED BY <1>3, <3>1, SMTT(30), Zenon
  <2> QED BY <2>2, <2>3, Zenon
<1>5. CASE LifecycleDelete
  <2>1. cache'[k] = None \/ cache'[k] = cache[k]
    BY <1>1, <1>5, Zenon DEF LifecycleDelete, DeletePopped
  <2> QED BY <1>3, <2>1, Zenon
<1> QED
  BY <1>3, <1>4, <1>5, CacheChanges, Zenon

(* While a configuration stays cached its version never decreases and a    *)
(* valid one never gives way to an invalid one, whatever the service sends.*)
THEOREM VersionsImprove == Spec => CacheImproves
<1>1. LoaderInv /\ [Next]_vars => LoaderInv'
  BY LoaderStep, Zenon
<1>2. LoaderInv /\ [Next]_vars
      => [\A k \in Keys : cache[k] # None /\ cache'[k] # None =>
            /\ cache'[k].version >= cache[k].version
            /\ cache[k].ok => cache'[k].ok]_cacheVars
  BY EntriesImprove, SMTT(30), Zenon
<1> QED
  BY <1>1, <1>2, LoaderInit, PTL DEF Spec, CacheImproves

-----------------------------------------------------------------------------
(* Acknowledgements.                                                       *)

(* The object, or a later version of it, is cached and valid or was until  *)
(* it expired.                                                             *)
Kept(obj) ==
  /\ obj.version # BadVersion
  /\ \/ cache[obj.key] # None /\ cache[obj.key].ok /\ cache[obj.key].version >= obj.version
     \/ \E inst \in gone : inst.key = obj.key /\ inst.ok /\ inst.version >= obj.version

(* The objects still to be processed are the last ones of the response, and*)
(* those before them are kept unless one was rejected.                     *)
AckInv ==
  /\ \A obj \in acked : Kept(obj)
  /\ Len(configs) <= Len(response)
  /\ \A i \in 1..Len(configs) : configs[i] = response[(Len(response) - Len(configs)) + i]
  /\ Alive /\ ~rejected => \A i \in 1..(Len(response) - Len(configs)) : Kept(response[i])

(* What is kept stays kept: an entry that is deleted is one that expired.  *)
LEMMA KeptStays ==
  ASSUME LoaderInv, [Next]_vars, NEW obj \in Objects, Kept(obj)
  PROVE  Kept(obj)'
<1>1. /\ cache \in [Keys -> Entries \cup {None}] /\ obj.key \in Keys
      /\ obj.version \in Int
  BY CacheAssumption, Zenon DEF LoaderInv, TypeOK, CacheTypeOK, Entries, Kept
<1>2. gone \subseteq gone'
  <2> USE DEF vars, others, lifeVars
  <2>1. CASE StreamNext
    BY <2>1, Zenon DEF StreamNext, ManageStream, Connect, GiveUpConnecting, SendInitialRequest, StreamEnds,
                Recv, StreamProcess, StreamSendBegins, StreamSend, StreamSendEnds, Ack
  <2>2. CASE LifecycleNext
    BY <2>2, SMTT(30), Zenon DEF LifecycleNext, LifecyclePop, LifecycleDelete, LifecycleSend, LifecycleSendEnds,
                LifecycleStops
  <2>3. ASSUME NEW w \in Watchers, WatchAdd(w) \/ WatchNext(w) \/ WatchReceive(w) \/ WatchLeave(w)
        PROVE  gone' = gone
    BY <2>3, Zenon DEF WatchAdd, WatchNext, WatchStart, WatchList, WatchSend, WatchDone, WatchReceive, WatchLeave
  <2>4. CASE Close \/ CloseNext \/ ClockTick \/ StreamAges
    BY <2>4, Zenon DEF Close, CloseNext, CloseWait, CloseSubs, ClockTick, StreamAges
  <2>5. CASE UNCHANGED vars
    BY <2>5, SMTT(30), Zenon
  <2> QED BY <2>1, <2>2, <2>3, <2>4, <2>5, SMTT(30), Zenon DEF Next
<1>3. CASE \E inst \in gone : inst.key = obj.key /\ inst.ok /\ inst.version >= obj.version
  BY <1>2, <1>3, Zenon DEF Kept
<1>4. CASE cache[obj.key] # None /\ cache[obj.key].ok /\ cache[obj.key].version >= obj.version
  <2>1. cache[obj.key].version \in Int
    BY <1>1, <1>4, SMTT(30), Zenon DEF Entries
  <2>2. CASE cache'[obj.key] # None
    <3>1. cache'[obj.key].version >= cache[obj.key].version /\ cache'[obj.key].ok
      BY <1>1, <1>4, <2>2, EntriesImprove, Zenon
    <3>2. cache'[obj.key].version \in Int
      <4>1. CacheTypeOK'
        BY LoaderStep, Zenon DEF LoaderInv, TypeOK
      <4> QED BY <1>1, <2>2, <4>1, SMTT(30), Zenon DEF CacheTypeOK
    <3>3. cache'[obj.key].version >= obj.version
      BY <1>1, <1>4, <2>1, <3>1, <3>2, SMTT(30), Zenon
    <3> QED BY <2>2, <3>1, <3>3, SMTT(30), Zenon DEF Kept
  <2>3. CASE cache'[obj.key] = None
    <3>1. LifecycleDelete
      <4>1. ASSUME StreamProcess PROVE cache'[obj.key] # None
        <5>1. PICK o \in Objects :
                /\ o.key \in Keys
                /\ \/ cache' = cache
                   \/ /\ IsStored(o)
                      /\ \E i \in Nat : cache' = [cache EXCEPT ![o.key] = Entry(o, i)]
          BY <4>1, StreamProcessFacts, ZenonT(30)
        <5>2. CASE cache' = cache
          BY <1>4, <5>2, Zenon
        <5>3. ASSUME NEW i \in Nat, IsStored(o), cache' = [cache EXCEPT ![o.key] = Entry(o, i)]
              PROVE  cache'[obj.key] # None
          <6>1. Entry(o, i) # None
            BY <5>3, StoredFacts, Zenon DEF LoaderInv, TypeOK
          <6> QED BY <1>1, <1>4, <5>1, <5>3, <6>1, Zenon
        <5> QED BY <5>1, <5>2, <5>3, Zenon
      <4> QED BY <1>4, <2>3, <4>1, CacheChanges, Zenon
    <3>2. popped = obj.key /\ cache[popped] # None
      BY <1>1, <1>4, <2>3, <3>1, Zenon DEF LifecycleDelete, DeletePopped
    <3>3. gone' = gone \cup {expired'} /\ expired' = [Cached(popped) EXCEPT !.expired = TRUE]
      BY <3>1, <3>2, Zenon DEF LifecycleDelete
    <3>4. /\ expired'.key = obj.key /\ expired'.ok = cache[obj.key].ok
          /\ expired'.version = cache[obj.key].version
      BY <3>2, <3>3, SMTT(30), Zenon DEF Cached, Instance
    <3> QED BY <1>4, <3>3, <3>4, Zenon DEF Kept
  <2> QED BY <2>2, <2>3, Zenon
<1> QED
  BY <1>3, <1>4, Zenon DEF Kept

(* Which steps concern a response.                                         *)
LEMMA ResponseChanges ==
  ASSUME [Next]_vars
  PROVE  /\ Alive' => Alive
         /\ \/ UNCHANGED <<response, configs, rejected, acked>>
            \/ \E resp \in Responses : Recv(resp)
            \/ StreamProcess
            \/ Ack
<1> USE DEF vars, streamVars, respVars
<1>1. CASE StreamNext
  BY <1>1, Zenon DEF StreamNext, ManageStream, Connect, GiveUpConnecting, SendInitialRequest, StreamEnds,
              Recv, StreamProcess, StreamSendBegins, StreamSend, StreamSendEnds, Ack
<1>2. CASE LifecycleNext
  BY <1>2, SMTT(30), Zenon DEF LifecycleNext, LifecyclePop, LifecycleDelete, LifecycleSend, LifecycleSendEnds,
              LifecycleStops
<1>3. ASSUME NEW w \in Watchers, WatchAdd(w) \/ WatchNext(w) \/ WatchReceive(w) \/ WatchLeave(w)
      PROVE  Alive /\ UNCHANGED <<response, configs, rejected, acked>>
  BY <1>3, Zenon DEF WatchAdd, WatchNext, WatchStart, WatchList, WatchSend, WatchDone, WatchReceive, WatchLeave
<1>4. CASE Close \/ CloseNext \/ ClockTick \/ StreamAges
  BY <1>4, SMTT(30), Zenon DEF Close, CloseNext, CloseWait, CloseSubs, ClockTick, StreamAges
<1>5. CASE UNCHANGED vars
  BY <1>5, SMTT(30), Zenon DEF Alive, cacheVars, others, closeVars
<1> QED
  BY <1>1, <1>2, <1>3, <1>4, <1>5, SMTT(30), Zenon DEF Next

(* An accepted object is kept once it has been processed, unless the       *)
(* process died.                                                           *)
LEMMA AcceptedIsKept ==
  ASSUME LoaderInv, NEW obj \in Objects, ProcessConfig(obj), IsAccepted(obj), ~crashed'
  PROVE  Kept(obj)'
<1>1. cache \in [Keys -> Entries \cup {None}] /\ CacheTypeOK /\ CacheInv
  BY Zenon DEF LoaderInv, TypeOK, CacheTypeOK, Entries
<1>2. IsStored(obj) /\ obj.valid
  BY Zenon DEF IsAccepted, IsStored
<1>3. PICK i \in Nat : cache' = [cache EXCEPT ![obj.key] = Entry(obj, i)]
  BY <1>1, <1>2, ProcessConfigFacts, Zenon
<1>4. obj.key \in Keys /\ Entry(obj, i) \in Entries /\ Entry(obj, i) # None
  BY <1>1, <1>2, StoredFacts, Zenon
<1>5. cache'[obj.key] = Entry(obj, i)
  BY <1>1, <1>3, <1>4, SMTT(30), Zenon
<1>6. obj.version \in Int /\ obj.version # BadVersion /\ obj.version >= obj.version
  <2>1. obj.version \in Int
    BY <1>4, SMTT(30), Zenon DEF Entry, Entries
  <2> QED BY <2>1, CacheAssumption, SMTT(30), Zenon
<1>7. cache'[obj.key].ok /\ cache'[obj.key].version = obj.version /\ cache'[obj.key] # None
  BY <1>2, <1>4, <1>5 DEF Entry
<1> QED
  BY <1>6, <1>7, Zenon DEF Kept

(* Every step keeps the invariant of the acknowledgements.                 *)
LEMMA AckStep == ASSUME LoaderInv, AckInv, [Next]_vars PROVE AckInv'
<1>1. response \in Seq(Objects) /\ configs \in Seq(Objects) /\ acked \subseteq Objects
  BY Zenon DEF LoaderInv, TypeOK
<1>2. Len(response) \in Nat /\ Len(configs) \in Nat /\ Len(configs) <= Len(response)
  BY <1>1, SequenceFacts, Zenon DEF AckInv
<1>3. \A i \in 1..Len(response) : response[i] \in Objects
  BY <1>1, SequenceFacts, Zenon
<1>4. \A obj \in acked : Kept(obj)'
  BY <1>1, KeptStays, Zenon DEF AckInv
<1>5. ASSUME Alive, ~rejected, NEW i \in 1..(Len(response) - Len(configs))
      PROVE  response[i] \in Objects /\ Kept(response[i])
  <2>1. i \in 1..Len(response)
    BY <1>2
  <2> QED BY <1>3, <1>5, <2>1, Zenon DEF AckInv
<1>6. ASSUME Alive, ~rejected, NEW i \in 1..(Len(response) - Len(configs)),
             NEW obj, obj = response[i]
      PROVE  Kept(obj)'
  BY <1>5, <1>6, KeptStays, SMTT(30), Zenon
<1>7. CASE UNCHANGED <<response, configs, rejected, acked>>
  <2>1. Alive' => Alive
    BY ResponseChanges, SMTT(30), Zenon
  <2>2. ASSUME Alive', ~rejected', NEW i \in 1..(Len(response) - Len(configs))
        PROVE  Kept(response[i])'
    <3>1. PICK obj : obj = response[i]
      BY Zenon
    <3>2. Kept(obj)'
      BY <1>6, <1>7, <2>1, <2>2, <3>1, Zenon
    <3>3. obj = response'[i]
      BY <1>7, <3>1, SMTT(30), Zenon
    <3> QED BY <3>2, <3>3, Zenon DEF Kept
  <2> QED BY <1>4, <1>7, <2>2, Zenon DEF AckInv
<1>8. ASSUME NEW resp \in Responses, Recv(resp) PROVE AckInv'
  <2>1. /\ response' = resp /\ configs' = resp /\ acked' = acked
        /\ resp \in Seq(Objects) /\ Len(resp) \in Nat
    BY <1>8, LoaderAssumption, SequenceFacts, Zenon DEF Recv
  <2>2. Len(resp) - Len(resp) = 0 /\ \A i \in 1..Len(resp) : (Len(resp) - Len(resp)) + i = i
    BY <2>1, SMTT(30), Zenon
  <2> QED BY <1>4, <2>1, <2>2 DEF AckInv
<1>9. CASE StreamProcess
  <2>1. PICK obj \in Objects :
          /\ configs # <<>> /\ obj = Head(configs)
          /\ ProcessConfig(obj)
          /\ rejected' = (rejected \/ ~IsAccepted(obj))
    BY <1>9, StreamProcessFacts, ZenonT(30)
  <2>2. configs' = Tail(configs) /\ response' = response /\ acked' = acked /\ Alive
    BY <1>9, Zenon DEF StreamProcess
  <2>3. PICK d : d = Len(response) - Len(configs)
    BY Zenon
  <2>4. /\ Len(configs) >= 1 /\ Len(configs') = Len(configs) - 1
        /\ \A i \in 1..Len(configs') : configs'[i] = configs[i + 1]
        /\ obj = configs[1]
    BY <1>1, <1>2, <2>1, <2>2
  <2>5. d \in Nat /\ Len(response) - Len(configs') = d + 1
    BY <1>2, <2>3, <2>4, SMTT(30), Zenon
  <2>6. obj = response[d + 1]
    BY <1>2, <2>3, <2>4, <2>5, SMTT(30), Zenon DEF AckInv
  <2>7. ASSUME NEW i \in 1..Len(configs') PROVE configs'[i] = response[(d + 1) + i]
    <3>1. i + 1 \in 1..Len(configs) /\ d + (i + 1) = (d + 1) + i
      BY <1>2, <2>4, <2>5, SMTT(30)
    <3>2. configs[i + 1] = response[d + (i + 1)]
      BY <2>3, <3>1, Zenon DEF AckInv
    <3> QED BY <2>4, <3>1, <3>2, Zenon
  <2>8. ASSUME Alive', ~rejected', NEW i \in 1..(d + 1) PROVE Kept(response[i])'
    <3>1. ~crashed' /\ ~rejected /\ IsAccepted(obj)
      BY <2>1, <2>8, ZenonT(30) DEF Alive
    <3>2. PICK o : o = response[i]
      BY Zenon
    <3>3. CASE i = d + 1
      <4>1. Kept(obj)'
        BY <2>1, <3>1, AcceptedIsKept, Zenon
      <4>2. obj = response'[i]
        BY <2>2, <2>6, <3>3, SMTT(30), Zenon
      <4> QED BY <4>1, <4>2, Zenon DEF Kept
    <3>4. CASE i # d + 1
      <4>1. i \in 1..d
        BY <2>5, <3>4
      <4>2. Kept(o)'
        BY <1>6, <2>2, <2>3, <3>1, <3>2, <4>1, Zenon
      <4>3. o = response'[i]
        BY <2>2, <3>2, Zenon
      <4> QED BY <4>2, <4>3, Zenon DEF Kept
    <3> QED BY <3>3, <3>4, Zenon
  <2>9. Len(configs') <= Len(response')
    BY <1>2, <2>2, <2>4
  <2>10. Len(response') - Len(configs') = d + 1
    BY <2>2, <2>5, Zenon
  <2> QED BY <1>4, <2>2, <2>7, <2>8, <2>9, <2>10, Zenon DEF AckInv
<1>10. CASE Ack
  <2>1. configs = <<>> /\ Len(configs) = 0
    BY <1>10, Zenon DEF Ack, LoaderInv, Control
  <2>2. /\ configs' = configs /\ response' = <<>> /\ Alive
        /\ acked' = acked \/ (~rejected /\ acked' = acked \cup Range(response))
    BY <1>10, Zenon DEF Ack
  <2>3. ASSUME ~rejected, NEW obj \in Range(response) PROVE Kept(obj)'
    <3>1. PICK i \in 1..Len(response) : obj = response[i]
      BY <1>1, SequenceFacts, Zenon DEF Range
    <3>2. i \in 1..(Len(response) - Len(configs))
      BY <1>2, <2>1, <3>1
    <3> QED BY <1>6, <2>2, <2>3, <3>1, <3>2, Zenon
  <2>4. \A obj \in acked' : Kept(obj)'
    BY <1>4, <2>2, <2>3, Zenon
  <2>5. Len(response') = 0 /\ Len(configs') = 0
    BY <2>1, <2>2, Zenon
  <2> QED BY <2>4, <2>5 DEF AckInv
<1> QED
  BY <1>7, <1>8, <1>9, <1>10, ResponseChanges, SMTT(30), Zenon

(* Every object of an acknowledged response is cached and valid, in that   *)
(* version or a later one, or was deleted by the lifecycle goroutine: for  *)
(* all responses of any length.                                            *)
THEOREM AckedStaysCached == Spec => []AckedIsCached
<1>1. Init => AckInv
  BY DEF Init, AckInv
<1>2. LoaderInv /\ AckInv /\ [Next]_vars => LoaderInv' /\ AckInv'
  BY LoaderStep, AckStep, SMTT(30), Zenon
<1>3. AckInv => AckedIsCached
  BY Zenon DEF AckInv, AckedIsCached, Kept
<1> QED
  BY <1>1, <1>2, <1>3, LoaderInit, PTL DEF Spec

-----------------------------------------------------------------------------
(* Delivery to subscribers.                                                *)

(* The filter of the list that Watch sends lets pass what the filter of    *)
(* the subscription does.                                                  *)
LEMMA ListMatches ==
  ASSUME NEW w \in Watchers, NEW inst, Matches(inst, SubFilter(w))
  PROVE  Matches(inst, Filter[w])
<1>1. Filter[w] \in [types : SUBSET STRING, status : SUBSET BOOLEAN]
  BY SubscriptionsAssumption, SMTT(30), Zenon
<1>2. CASE Filter[w].status = {}
  <2>1. SubFilter(w).types = Filter[w].types
    BY <1>1, <1>2, Zenon DEF SubFilter
  <2> QED BY <1>2, <2>1, Zenon DEF Matches
<1>3. CASE Filter[w].status # {}
  BY <1>3, SMTT(30), Zenon DEF SubFilter
<1> QED
  BY <1>2, <1>3, SMTT(30), Zenon

(* What was sent, was sent.                                                *)
LEMMA SentGrows ==
  ASSUME LoaderInv, [Next]_vars, NEW w \in Watchers
  PROVE  sent[w] \subseteq sent'[w]
<1>1. sent \in [Watchers -> SUBSET InstanceRecord]
  BY Zenon DEF LoaderInv, TypeOK
<1>2. ASSUME NEW v, NEW inst, SendOn(v, inst) \/ UNCHANGED chanVars PROVE sent[w] \subseteq sent'[w]
  <2>1. CASE SendOn(v, inst)
    <3>1. CASE v = w
      BY <1>1, <2>1, <3>1, Zenon DEF SendOn
    <3>2. CASE v # w
      BY <1>1, <2>1, <3>2, SMTT(30), Zenon DEF SendOn
    <3> QED BY <3>1, <3>2, Zenon
  <2>2. CASE UNCHANGED chanVars
    BY <2>2, SMTT(30), Zenon DEF chanVars
  <2> QED BY <1>2, <2>1, <2>2, SMTT(30), Zenon
<1>3. CASE StreamSend
  BY <1>2, <1>3, ZenonT(30) DEF StreamSend, SendTo
<1>4. CASE LifecycleSend
  BY <1>2, <1>4, SMTT(30), Zenon DEF LifecycleSend, SendTo
<1>5. ASSUME NEW v \in Watchers, WatchSend(v) PROVE sent[w] \subseteq sent'[w]
  <2>1. PICK inst : SendOn(v, inst) \/ UNCHANGED chanVars
    BY <1>5, SMTT(30), Zenon DEF WatchSend
  <2> QED BY <1>2, <2>1, SMTT(30), Zenon
<1> USE DEF vars, others, chanVars
<1>6. CASE StreamNext
  BY <1>3, <1>6, Zenon DEF StreamNext, ManageStream, Connect, GiveUpConnecting, SendInitialRequest,
              StreamEnds, Recv, StreamProcess, StreamSendBegins, StreamSendEnds, Ack
<1>7. CASE LifecycleNext
  BY <1>4, <1>7, SMTT(30), Zenon DEF LifecycleNext, LifecyclePop, LifecycleDelete, LifecycleSendEnds, LifecycleStops
<1>8. ASSUME NEW v \in Watchers, WatchAdd(v) \/ WatchNext(v) \/ WatchReceive(v) \/ WatchLeave(v)
      PROVE  sent[w] \subseteq sent'[w]
  BY <1>5, <1>8, Zenon DEF WatchAdd, WatchNext, WatchStart, WatchList, WatchDone, WatchReceive, WatchLeave
<1>9. CASE Close \/ CloseNext \/ ClockTick \/ StreamAges
  BY <1>9, Zenon DEF Close, CloseNext, CloseWait, CloseSubs, ClockTick, StreamAges
<1>10. CASE UNCHANGED vars
  BY <1>10, SMTT(30), Zenon
<1> QED
  BY <1>6, <1>7, <1>8, <1>9, <1>10, Zenon DEF Next

(* An instance that Watch listed stays to be sent or is sent.              *)
LEMMA PendingSent ==
  ASSUME LoaderInv, [Next]_vars, NEW w \in Watchers, watch[w] # "list", Alive',
         NEW inst \in pending[w]
  PROVE  inst \in pending'[w] \/ inst \in sent'[w]
<1>1. /\ sent \in [Watchers -> SUBSET InstanceRecord]
      /\ pending \in [Watchers -> SUBSET InstanceRecord]
  BY Zenon DEF LoaderInv, TypeOK
<1>2. ASSUME NEW v \in Watchers, WatchSend(v)
      PROVE  inst \in pending'[w] \/ inst \in sent'[w]
  <2>1. PICK i \in pending[v] : /\ SendOn(v, i)
                                /\ pending' = [pending EXCEPT ![v] = @ \ {i}]
    BY <1>2, Zenon DEF WatchSend, Alive
  <2>2. CASE v = w /\ i = inst
    <3>1. inst \in sent'[w]
      BY <1>1, <2>1, <2>2, SMTT(30), Zenon DEF SendOn
    <3> QED BY <3>1, Zenon
  <2>3. CASE v = w /\ i # inst
    <3>1. inst \in pending'[w]
      BY <1>1, <2>1, <2>3, SMTT(30), Zenon
    <3> QED BY <3>1, Zenon
  <2>4. CASE v # w
    <3>1. inst \in pending'[w]
      BY <1>1, <2>1, <2>4, SMTT(30), Zenon
    <3> QED BY <3>1, Zenon
  <2> QED BY <2>2, <2>3, <2>4, Zenon
<1>3. ASSUME NEW v \in Watchers, WatchList(v) PROVE inst \in pending'[w]
  BY <1>1, <1>3, SMTT(30), Zenon DEF WatchList
<1> USE DEF vars, others, watchVars
<1>4. CASE StreamNext
  BY <1>4, Zenon DEF StreamNext, ManageStream, Connect, GiveUpConnecting, SendInitialRequest,
              StreamEnds, Recv, StreamProcess, StreamSendBegins, StreamSend, StreamSendEnds, Ack
<1>5. CASE LifecycleNext
  BY <1>5, SMTT(30), Zenon DEF LifecycleNext, LifecyclePop, LifecycleDelete, LifecycleSend, LifecycleSendEnds,
              LifecycleStops
<1>6. ASSUME NEW v \in Watchers, WatchAdd(v) \/ WatchNext(v) \/ WatchReceive(v) \/ WatchLeave(v)
      PROVE  inst \in pending'[w] \/ inst \in sent'[w]
  BY <1>2, <1>3, <1>6, Zenon DEF WatchAdd, WatchNext, WatchStart, WatchDone, WatchReceive, WatchLeave
<1>7. CASE Close \/ CloseNext \/ ClockTick \/ StreamAges
  BY <1>7, ZenonT(30) DEF Close, CloseNext, CloseWait, CloseSubs, ClockTick, StreamAges
<1>8. CASE UNCHANGED vars
  BY <1>8, SMTT(30), Zenon
<1> QED
  BY <1>4, <1>5, <1>6, <1>7, <1>8, Zenon DEF Next

(* The stream goroutine is going to send the instance to w. *)
InStream(inst, w) ==
  /\ instance = inst
  /\ stream = "processed" \/ (stream = "send" /\ w \in Range(streamTodo))

(* An instance the stream goroutine is going to send to a subscriber that  *)
(* wants it stays so or is sent.                                           *)
LEMMA StreamCarries ==
  ASSUME LoaderInv, [Next]_vars, NEW w \in Range(subs), w \in Watchers, NEW inst,
         Matches(inst, SubFilter(w)), InStream(inst, w)
  PROVE  InStream(inst, w)' \/ inst \in sent'[w]
<1>1. /\ sent \in [Watchers -> SUBSET InstanceRecord] /\ streamTodo \in Seq(Watchers)
      /\ Control
  BY Zenon DEF LoaderInv, TypeOK
<1>2. instance = inst /\ (stream = "processed" \/ (stream = "send" /\ w \in Range(streamTodo)))
  BY Zenon DEF InStream
<1>3. ASSUME UNCHANGED <<instance, stream, streamTodo>> PROVE InStream(inst, w)'
  BY <1>2, <1>3, SMTT(30), Zenon DEF InStream
<1>4. CASE StreamSendBegins
  <2>1. ~subsClosed
    BY <1>1, <1>4, Zenon DEF Control, StreamSendBegins
  <2>2. stream' = "send" /\ streamTodo' = subs /\ instance' = inst
    BY <1>2, <1>4, <2>1, SMTT(30), Zenon DEF StreamSendBegins, SendTodo
  <2> QED BY <2>2, Zenon DEF InStream
<1>5. CASE StreamSend
  <2>1. /\ streamTodo # <<>> /\ streamTodo' = Tail(streamTodo) /\ stream' = stream
        /\ stream = "send" /\ instance' = inst /\ w \in Range(streamTodo)
        /\ SendTo(Head(streamTodo), inst)
    BY <1>2, <1>5, Zenon DEF StreamSend
  <2>2. w = Head(streamTodo) \/ w \in Range(Tail(streamTodo))
    <3>1. PICK i \in 1..Len(streamTodo) : w = streamTodo[i]
      BY <1>1, <2>1, SequenceFacts, Zenon DEF Range
    <3>2. CASE i = 1
      BY <1>1, <2>1, <3>1, <3>2, TailFacts, SMTT(30), Zenon
    <3>3. CASE i # 1
      <4>1. /\ Len(Tail(streamTodo)) = Len(streamTodo) - 1 /\ Len(streamTodo) \in Nat
            /\ \A j \in 1..Len(Tail(streamTodo)) : Tail(streamTodo)[j] = streamTodo[j + 1]
            /\ Tail(streamTodo) \in Seq(Watchers)
        BY <1>1, <2>1, TailFacts, SequenceFacts, Zenon
      <4>2. i - 1 \in 1..Len(Tail(streamTodo)) /\ (i - 1) + 1 = i
        BY <3>3, <4>1, SMTT(30)
      <4>3. Tail(streamTodo)[i - 1] = w /\ i - 1 \in DOMAIN Tail(streamTodo)
        BY <3>1, <4>1, <4>2, SequenceFacts, SMTT(30), Zenon
      <4> QED BY <4>3, ZenonT(30) DEF Range
    <3> QED BY <3>2, <3>3, SMTT(30), Zenon
  <2>3. CASE w = Head(streamTodo)
    <3>1. SendOn(w, inst)
      BY <2>1, <2>3, Zenon DEF SendTo
    <3>2. inst \in sent'[w]
      BY <1>1, <3>1, SMTT(30), Zenon DEF SendOn
    <3> QED BY <3>2, Zenon
  <2>4. CASE w \in Range(Tail(streamTodo))
    BY <2>1, <2>4, Zenon DEF InStream
  <2> QED BY <2>2, <2>3, <2>4, Zenon
<1>6. CASE StreamSendEnds
  <2>1. stream = "send" /\ streamTodo = <<>> /\ w \in Range(streamTodo)
    BY <1>2, <1>6, SMTT(30), Zenon DEF StreamSendEnds
  <2>2. FALSE
    BY <2>1, SMTT(30), Zenon DEF Range
  <2> QED BY <2>2, Zenon
<1> USE DEF vars, streamVars, sendVars
<1>7. CASE StreamNext
  BY <1>2, <1>4, <1>5, <1>6, <1>7, ZenonT(30) DEF StreamNext, ManageStream, Connect, GiveUpConnecting,
       SendInitialRequest, StreamEnds, Recv, StreamProcess, Ack
<1>8. CASE LifecycleNext
  BY <1>3, <1>8, SMTT(30), Zenon DEF LifecycleNext, LifecyclePop, LifecycleDelete, LifecycleSend, LifecycleSendEnds,
              LifecycleStops
<1>9. ASSUME NEW v \in Watchers, WatchAdd(v) \/ WatchNext(v) \/ WatchReceive(v) \/ WatchLeave(v)
      PROVE  UNCHANGED <<instance, stream, streamTodo>>
  BY <1>9, Zenon DEF WatchAdd, WatchNext, WatchStart, WatchList, WatchSend, WatchDone, WatchReceive, WatchLeave
<1>10. CASE Close \/ CloseNext \/ ClockTick \/ StreamAges
  BY <1>3, <1>10, Zenon DEF Close, CloseNext, CloseWait, CloseSubs, ClockTick, StreamAges
<1>11. CASE UNCHANGED vars
  BY <1>3, <1>11, Zenon
<1> QED
  BY <1>3, <1>7, <1>8, <1>9, <1>10, <1>11, Zenon DEF Next

(* Which steps make a subscriber one that AtLeastOnce is about.            *)
LEMMA Subscribed ==
  ASSUME LoaderInv, [Next]_vars, NEW w \in Range(subs'), watch'[w] \notin {"added", "list"}
  PROVE  /\ w \in Range(subs) /\ w \in Watchers
         /\ \/ watch[w] \notin {"added", "list"}
            \/ WatchList(w)
<1>1. subs \in Seq(Watchers) /\ watch \in [Watchers -> {"none", "nil", "added", "list", "send", "done"}]
  BY Zenon DEF LoaderInv, TypeOK
<1>2. \A v \in Range(subs) : v \in Watchers
  <2>1. DOMAIN subs = 1..Len(subs) /\ subs \in [1..Len(subs) -> Watchers]
    BY <1>1, SequenceFacts, Zenon
  <2>2. QED
    BY <2>1, Zenon DEF Range
<1>3. ASSUME UNCHANGED <<subs, watch>>
      PROVE  w \in Range(subs) /\ w \in Watchers /\ watch[w] \notin {"added", "list"}
  BY <1>2, <1>3, Zenon
<1>4. ASSUME NEW v \in Watchers, WatchAdd(v)
      PROVE  w \in Range(subs) /\ watch[w] \notin {"added", "list"}
  <2>1. CASE subsClosed
    BY <1>1, <1>2, <1>4, <2>1, Zenon DEF WatchAdd
  <2>2. CASE ~subsClosed
    <3>1. subs' = Append(subs, v) /\ watch' = [watch EXCEPT ![v] = "added"]
      BY <1>4, <2>2, Zenon DEF WatchAdd
    <3>2. w # v
      BY <1>1, <3>1, SMTT(30), Zenon
    <3>3. w \in Range(subs)
      <4>1. PICK i \in DOMAIN subs' : w = subs'[i]
        BY Zenon DEF Range
      <4>2. /\ DOMAIN subs' = 1..(Len(subs) + 1) /\ subs'[Len(subs) + 1] = v
            /\ \A j \in 1..Len(subs) : subs'[j] = subs[j]
            /\ DOMAIN subs = 1..Len(subs) /\ Len(subs) \in Nat
        BY <1>1, <3>1, AppendFacts, SequenceFacts, SMTT(30), Zenon
      <4>3. i \in 1..Len(subs)
        BY <3>2, <4>1, <4>2, SMTT(30), Zenon
      <4> QED BY <4>1, <4>2, <4>3, SMTT(30), Zenon DEF Range
    <3> QED BY <1>1, <1>2, <3>1, <3>2, <3>3, Zenon
  <2> QED BY <2>1, <2>2, Zenon
<1>5. ASSUME NEW v \in Watchers, WatchList(v)
      PROVE  w \in Range(subs) /\ (watch[w] \notin {"added", "list"} \/ v = w)
  BY <1>1, <1>2, <1>5, Zenon DEF WatchList
<1>6. ASSUME NEW v \in Watchers, WatchStart(v)
      PROVE  w \in Range(subs) /\ watch[w] \notin {"added", "list"}
  BY <1>1, <1>2, <1>6, SMTT(30), Zenon DEF WatchStart
<1>7. ASSUME NEW v \in Watchers, WatchDone(v)
      PROVE  w \in Range(subs) /\ watch[w] \notin {"added", "list"}
  BY <1>1, <1>2, <1>7, SMTT(30), Zenon DEF WatchDone
<1>8. ASSUME NEW v \in Watchers, WatchSend(v) \/ WatchReceive(v) \/ WatchLeave(v)
      PROVE  UNCHANGED <<subs, watch>>
  BY <1>8, SMTT(30), Zenon DEF WatchSend, WatchReceive, WatchLeave, watchVars
<1> USE DEF vars, others, watchVars
<1>9. CASE StreamNext
  BY <1>3, <1>9, Zenon DEF StreamNext, ManageStream, Connect, GiveUpConnecting, SendInitialRequest,
              StreamEnds, Recv, StreamProcess, StreamSendBegins, StreamSend, StreamSendEnds, Ack
<1>10. CASE LifecycleNext
  BY <1>3, <1>10, SMTT(30), Zenon DEF LifecycleNext, LifecyclePop, LifecycleDelete, LifecycleSend, LifecycleSendEnds,
              LifecycleStops
<1>11. ASSUME NEW v \in Watchers, WatchAdd(v) \/ WatchNext(v) \/ WatchReceive(v) \/ WatchLeave(v)
       PROVE  w \in Range(subs) /\ (watch[w] \notin {"added", "list"} \/ WatchList(w))
  BY <1>3, <1>4, <1>5, <1>6, <1>7, <1>8, <1>11, SMTT(30), Zenon DEF WatchNext
<1>12. CASE Close \/ CloseNext \/ ClockTick \/ StreamAges
  BY <1>3, <1>12, Zenon DEF Close, CloseNext, CloseWait, CloseSubs, ClockTick, StreamAges
<1>13. CASE UNCHANGED vars
  BY <1>3, <1>13, SMTT(30), Zenon
<1> QED
  BY <1>2, <1>9, <1>10, <1>11, <1>12, <1>13, SMTT(30), Zenon DEF Next

(* Every step keeps the delivery of what is cached: the goroutine that     *)
(* changes the cache sends what it stored, and what was cached before a    *)
(* subscriber was added is in the list that Watch makes after adding it.   *)
LEMMA DeliveryStep == ASSUME LoaderInv, AtLeastOnce, [Next]_vars PROVE AtLeastOnce'
<1> SUFFICES ASSUME NEW w \in Range(subs'), watch'[w] \notin {"added", "list"}, Alive',
                    NEW k \in Keys, cache'[k] # None, Matches(Cached(k)', SubFilter(w))
             PROVE  Delivered(Cached(k), w)'
  BY Zenon DEF AtLeastOnce
<1>1. /\ w \in Range(subs) /\ w \in Watchers
      /\ watch[w] \notin {"added", "list"} \/ WatchList(w)
  BY Subscribed, Zenon
<1>2. cache \in [Keys -> Entries \cup {None}] /\ TypeOK /\ Control
  BY Zenon DEF LoaderInv, TypeOK, CacheTypeOK, Entries
<1>3. Alive
  BY ResponseChanges, Zenon
<1>4. PICK inst : inst = Cached(k)'
  BY Zenon
<1>5. Matches(inst, SubFilter(w))
  BY <1>4, SMTT(30), Zenon
<1>6. SUFFICES inst \in sent'[w] \/ inst \in pending'[w] \/ InStream(inst, w)'
  BY <1>4, Zenon DEF Delivered, OnItsWay, InStream
<1>7. CASE cache'[k] = cache[k] /\ watch[w] \notin {"added", "list"}
  <2>1. inst = Cached(k) /\ cache[k] # None
    BY <1>4, <1>7, Zenon DEF Cached
  <2>2. Delivered(inst, w)
    BY <1>1, <1>3, <1>5, <1>7, <2>1, ZenonT(30) DEF AtLeastOnce
  <2>3. ~(lifecycle = "send" /\ expired = inst)
    BY <1>2, <2>1, SMTT(30), Zenon DEF Control, Cached, Instance
  <2>4. CASE inst \in sent[w]
    BY <1>1, <2>4, SentGrows, Zenon
  <2>5. CASE inst \in pending[w]
    BY <1>1, <1>7, <2>5, PendingSent, Zenon
  <2>6. CASE InStream(inst, w)
    BY <1>1, <1>5, <2>6, StreamCarries, Zenon
  <2> QED BY <2>2, <2>3, <2>4, <2>5, <2>6, Zenon DEF Delivered, OnItsWay, InStream
<1>8. CASE WatchList(w)
  <2>1. /\ UNCHANGED cache
        /\ pending' = [pending EXCEPT ![w] = ListConfigs(Filter[w])]
    BY <1>8, Zenon DEF WatchList, cacheVars
  <2>2. inst = Cached(k) /\ cache[k] # None
    BY <1>4, <2>1, Zenon DEF Cached
  <2>3. Matches(inst, Filter[w])
    BY <1>1, <1>5, ListMatches, Zenon
  <2>4. inst \in ListConfigs(Filter[w])
    BY <2>2, <2>3, SMTT(30), Zenon DEF ListConfigs
  <2>5. inst \in pending'[w]
    BY <1>1, <1>2, <2>1, <2>4, Zenon DEF TypeOK
  <2> QED BY <2>5, Zenon
<1>9. CASE cache'[k] # cache[k]
  <2>1. StreamProcess
    BY <1>2, <1>9, CacheChanges, SMTT(30), Zenon DEF LifecycleDelete, DeletePopped
  <2>2. PICK obj \in Objects :
          /\ obj.key \in Keys
          /\ instance' = Instance(obj.key, obj.version, IsAccepted(obj), FALSE)
          /\ \/ cache' = cache /\ (IsStored(obj) => crashed')
             \/ IsStored(obj) /\ \E i \in Nat : cache' = [cache EXCEPT ![obj.key] = Entry(obj, i)]
    BY <2>1, StreamProcessFacts, Zenon
  <2>3. PICK i \in Nat : IsStored(obj) /\ cache' = [cache EXCEPT ![obj.key] = Entry(obj, i)]
    BY <1>9, <2>2, Zenon
  <2>4. obj.key = k /\ cache'[k] = Entry(obj, i)
    BY <1>2, <1>9, <2>2, <2>3, Zenon
  <2>5. IsAccepted(obj) = obj.valid
    <3>1. IsAccepted(obj) <=> obj.valid
      BY <2>3, SMTT(30), Zenon DEF IsAccepted, IsStored
    <3>2. obj.valid \in BOOLEAN /\ IsAccepted(obj) \in BOOLEAN
      BY CacheAssumption, Zenon DEF IsAccepted
    <3> QED BY <3>1, <3>2, SMTT(30), Zenon
  <2>6. inst = Instance(k, obj.version, obj.valid, FALSE)
    <3>1. Cached(k)' = Instance(k, cache'[k].version, cache'[k].ok, FALSE)
      BY Zenon DEF Cached
    <3>2. Entry(obj, i).version = obj.version /\ Entry(obj, i).ok = obj.valid
      BY Zenon DEF Entry
    <3> QED BY <1>4, <2>4, <3>1, <3>2, Zenon
  <2>7. instance' = inst /\ stream' = "processed"
    BY <2>1, <2>2, <2>4, <2>5, <2>6, Zenon DEF StreamProcess
  <2> QED BY <2>7, Zenon DEF InStream
<1> QED
  BY <1>1, <1>7, <1>8, <1>9, Zenon

(* Whatever is cached has been sent to every subscriber whose filter it    *)
(* matches or is on its way, for every number of watchers, configurations  *)
(* and responses.                                                          *)
THEOREM CachedIsDelivered == Spec => []AtLeastOnce
<1>1. Init => AtLeastOnce
  BY DEF Init, SubsInit, AtLeastOnce, Range
<1>2. LoaderInv /\ AtLeastOnce /\ [Next]_vars => LoaderInv' /\ AtLeastOnce'
  BY LoaderStep, DeliveryStep, Zenon
<1> QED
  BY <1>1, <1>2, LoaderInit, PTL DEF Spec

=============================================================================
