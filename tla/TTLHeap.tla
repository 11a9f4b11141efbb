------------------------------ MODULE TTLHeap ------------------------------
(***************************************************************************)
(* The expiry heap of the configuration loader: the methods of ttlHeap in  *)
(* internal/config/ams.go under the algorithms of Go's container/heap.     *)
(*                                                                         *)
(* A heap is a sequence of nodes, each a cache key and a time.  Positions  *)
(* count from 1 (from 0 in the code), so that the parent of i is i \div 2. *)
(* A loop of container/heap is the iteration of a step that changes        *)
(* nothing once the loop has ended.                                        *)
(***************************************************************************)
EXTENDS Integers, Sequences

Less(h, i, j) == h[i].ttl < h[j].ttl

Swap(h, i, j) == [h EXCEPT ![i] = h[j], ![j] = h[i]]

-----------------------------------------------------------------------------

(* heap.up: the node at s.i rises while it is less than its parent. *)
UpStep(s) ==
  LET parent == s.i \div 2
  IN  IF parent >= 1 /\ Less(s.h, s.i, parent)
      THEN [h |-> Swap(s.h, parent, s.i), i |-> parent]
      ELSE s

Up(h, i) ==
  LET s[n \in 0..Len(h)] == IF n = 0 THEN [h |-> h, i |-> i] ELSE UpStep(s[n - 1])
  IN  s[Len(h)].h

(* heap.down within the first n nodes: the node at s.i sinks while one of  *)
(* its children is less than it.                                           *)
SmallestChild(h, i, n) ==
  IF 2 * i + 1 <= n /\ Less(h, 2 * i + 1, 2 * i) THEN 2 * i + 1 ELSE 2 * i

DownStep(s, n) ==
  LET child == SmallestChild(s.h, s.i, n)
  IN  IF 2 * s.i <= n /\ Less(s.h, child, s.i)
      THEN [h |-> Swap(s.h, s.i, child), i |-> child]
      ELSE s

Down(h, i, n) ==
  LET s[k \in 0..Len(h)] == IF k = 0 THEN [h |-> h, i |-> i] ELSE DownStep(s[k - 1], n)
  IN  s[Len(h)]

(* Sink the node at i and, if it did not move, let it rise. *)
Settle(h, i, n) ==
  LET down == Down(h, i, n)
  IN  IF down.i > i THEN down.h ELSE Up(down.h, i)

-----------------------------------------------------------------------------

(* Pop drops the last node. *)
Pop(h) == SubSeq(h, 1, Len(h) - 1)

HeapPush(h, node) == Up(Append(h, node), Len(h) + 1)

(* The heap that heap.Pop leaves; the node it returns is Head(h). *)
HeapPop(h) == Pop(Down(Swap(h, 1, Len(h)), 1, Len(h) - 1).h)

HeapFix(h, i) == Settle(h, i, Len(h))

HeapRemove(h, i) ==
  IF i = Len(h) THEN Pop(h) ELSE Pop(Settle(Swap(h, i, Len(h)), i, Len(h) - 1))

(* No node is less than its parent. *)
IsHeap(h) == \A i \in DOMAIN h : i > 1 => ~Less(h, i, i \div 2)

=============================================================================
