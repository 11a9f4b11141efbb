---------------------------- MODULE EventQueue ----------------------------
(***************************************************************************)
(* What the metrics buffer promises: a queue that keeps the latest Cap     *)
(* events ("automatically overwrites the oldest events when capacity is    *)
(* reached", buffer.go:17) and gives up all of them, in order, when it is  *)
(* drained.                                                                *)
(***************************************************************************)
EXTENDS Integers, Sequences

CONSTANTS
  Cap,     \* how many events are kept
  Events   \* the events

VARIABLES
  queue,   \* the events kept, oldest first
  taken    \* everything drained so far

Init ==
  /\ queue = <<>>
  /\ taken = <<>>

Latest(q, x) == IF Len(q) = Cap THEN Append(Tail(q), x) ELSE Append(q, x)

Push(x) ==
  /\ queue' = Latest(queue, x)
  /\ UNCHANGED taken

Drain ==
  /\ taken' = taken \o queue
  /\ queue' = <<>>

Next == Drain \/ \E x \in Events : Push(x)

Spec == Init /\ [][Next]_<<queue, taken>>

=============================================================================
