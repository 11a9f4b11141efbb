------------------------------- MODULE Merger -------------------------------
(***************************************************************************)
(* The merger of channels (pkg/channel/merger.go): one goroutine selects   *)
(* over the input channels, the channel on which Add passes new inputs and *)
(* the one that Close closes, and copies what it receives to one output.   *)
(*                                                                         *)
(* An item is named by its channel and its number on it.  PerfManager puts *)
(* the merger between the agent's collectors and the goroutine that        *)
(* publishes their samples.  As there, NewMerger is called without inputs, *)
(* so the output channel is unbuffered.                                    *)
(***************************************************************************)
EXTENDS Integers, Sequences

CONSTANTS
  Chans,     \* input channels
  InCap,     \* their capacity
  MaxItems   \* bound on the items sent on a channel

ASSUME MergerAssumption ==
  /\ InCap \in Nat \ {0}
  /\ MaxItems \in Nat

VARIABLES
  inbuf,         \* items waiting in each input channel
  inclosed,      \* input channels that are closed
  nput,          \* history: items sent on each channel
  cases,         \* the input channels the merger selects on
  adding,        \* input channels whose Add has not returned
  merger,        \* where the merger's goroutine is
  held,          \* the item it is about to send, if any
  mergerClosed,  \* Close was called
  got            \* history: items of each channel received from the output

inVars == <<inbuf, inclosed, nput>>
mergerVars == <<cases, merger, held>>
chanVars == <<inVars, mergerVars, adding, mergerClosed, got>>

Item == [ch : Chans, n : 1..MaxItems]

MergerInit ==
  /\ inbuf = [c \in Chans |-> <<>>]
  /\ inclosed = {}
  /\ nput = [c \in Chans |-> 0]
  /\ cases = {}
  /\ adding = {}
  /\ merger = "select"
  /\ held = <<>>
  /\ mergerClosed = FALSE
  /\ got = [c \in Chans |-> <<>>]

-----------------------------------------------------------------------------
(* One pass of the loop in run. *)

MergerTake(c) ==
  /\ merger = "select"
  /\ c \in cases
  /\ inbuf[c] # <<>>
  /\ inbuf' = [inbuf EXCEPT ![c] = Tail(@)]
  /\ merger' = "send"
  /\ held' = <<[ch |-> c, n |-> Head(inbuf[c])]>>
  /\ UNCHANGED <<inclosed, nput, cases, adding, mergerClosed, got>>

MergerAdds(c) ==
  /\ merger = "select"
  /\ ~mergerClosed
  /\ c \in adding
  /\ adding' = adding \ {c}
  /\ cases' = cases \cup {c}
  /\ UNCHANGED <<inVars, merger, held, mergerClosed, got>>

(* Mutant: a closed channel is dropped with what it still holds.           *)
MergerDropsUndrained(c) ==
  /\ merger = "select"
  /\ c \in cases \cap inclosed
  /\ cases' = cases \ {c}
  /\ UNCHANGED <<inVars, adding, merger, held, mergerClosed, got>>

MergerDrops(c) ==
  /\ merger = "select"
  /\ c \in cases
  /\ inbuf[c] = <<>> /\ c \in inclosed
  /\ cases' = cases \ {c}
  /\ UNCHANGED <<inVars, adding, merger, held, mergerClosed, got>>

(* The goroutine returns and closes the output channel. *)
MergerReturns ==
  /\ merger = "select"
  /\ mergerClosed
  /\ merger' = "done"
  /\ UNCHANGED <<inVars, cases, held, adding, mergerClosed, got>>

-----------------------------------------------------------------------------
(* The interface. *)

Deliver(item) == got' = [got EXCEPT ![item.ch] = Append(@, item.n)]

(* A receive from Out(): the merger hands its item over. *)
Receive ==
  /\ merger = "send"
  /\ Deliver(Head(held))
  /\ held' = <<>>
  /\ merger' = "select"
  /\ UNCHANGED <<inVars, cases, adding, mergerClosed>>

(* Add waits until the merger takes the channel.  One that is called or    *)
(* still waits after Close panics, which TypeOK of PerfManager excludes.   *)
Add(c) == adding' = adding \cup {c}

CloseMerger ==
  /\ mergerClosed' = TRUE
  /\ UNCHANGED <<inVars, mergerVars, adding, got>>

Put(c) ==
  /\ c \notin inclosed
  /\ nput[c] < MaxItems
  /\ Len(inbuf[c]) < InCap
  /\ nput' = [nput EXCEPT ![c] = @ + 1]
  /\ inbuf' = [inbuf EXCEPT ![c] = Append(@, nput[c] + 1)]
  /\ UNCHANGED <<inclosed, mergerVars, adding, mergerClosed, got>>

CloseInput(c) ==
  /\ c \notin inclosed
  /\ inclosed' = inclosed \cup {c}
  /\ UNCHANGED <<inbuf, nput, mergerVars, adding, mergerClosed, got>>

-----------------------------------------------------------------------------

(* The state has its type, and the merger holds an item exactly while it   *)
(* sends one.                                                              *)
MergerTypeOK ==
  /\ inbuf \in [Chans -> Seq(1..MaxItems)]
  /\ inclosed \subseteq Chans
  /\ nput \in [Chans -> 0..MaxItems]
  /\ cases \subseteq Chans /\ adding \subseteq Chans
  /\ merger \in {"select", "send", "done"}
  /\ held \in Seq(Item) /\ Len(held) = (IF merger = "send" THEN 1 ELSE 0)
  /\ mergerClosed \in BOOLEAN
  /\ got \in [Chans -> Seq(1..MaxItems)]

=============================================================================
