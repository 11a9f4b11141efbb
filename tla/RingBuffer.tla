---------------------------- MODULE RingBuffer ----------------------------
(***************************************************************************)
(* The circular buffer of pkg/ringbuffer/ringbuffer.go: an array, the next *)
(* position to write and the number of elements.                           *)
(***************************************************************************)
EXTENDS Integers, Sequences

CONSTANTS
  Cap,    \* capacity
  Zero    \* the zero value of the element type

(* New returns an error otherwise. *)
ASSUME CapAssumption == Cap \in Nat \ {0}

RingNew == [data |-> [i \in 0..(Cap - 1) |-> Zero], head |-> 0, size |-> 0]

(* Mutant: the position wraps around one element too late. *)
RingPushLate(r, x) ==
  [data |-> [r.data EXCEPT ![r.head] = x],
   head |-> IF r.head + 1 > Cap - 1 /\ r.size = Cap THEN r.head ELSE (r.head + 1) % Cap,
   size |-> IF r.size < Cap THEN r.size + 1 ELSE r.size]

RingPush(r, x) ==
  [data |-> [r.data EXCEPT ![r.head] = x],
   head |-> (r.head + 1) % Cap,
   size |-> IF r.size < Cap THEN r.size + 1 ELSE r.size]

(* The elements from the oldest to the newest: a buffer that is not full   *)
(* starts at 0, a full one at head, from where it is copied in two pieces. *)
GetAll(r) ==
  [i \in 1..r.size |->
     IF r.size < Cap THEN r.data[i - 1]
     ELSE IF i <= Cap - r.head THEN r.data[r.head + i - 1]
     ELSE r.data[i - (Cap - r.head) - 1]]

RingClear(r) == RingNew

(* The buffers of elements of S: within the capacity, and filled from      *)
(* position 0 up to the next one to write unless full.                     *)
Ring(S) ==
  {r \in [data : [0..(Cap - 1) -> S \cup {Zero}], head : 0..(Cap - 1), size : 0..Cap] :
     /\ r.size < Cap => r.head = r.size
     /\ \A i \in 0..(r.size - 1) : r.data[i] \in S}

=============================================================================
