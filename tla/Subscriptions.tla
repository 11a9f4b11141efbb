--------------------------- MODULE Subscriptions ---------------------------
(***************************************************************************)
(* The subscriptions to configuration changes that both loaders keep       *)
(* (internal/config/subscription.go).  Each call of Watch adds a buffered  *)
(* channel; a loader sends to all of them, one after the other, holding a  *)
(* read lock.                                                              *)
(***************************************************************************)
EXTENDS Integers, Sequences

CONSTANTS
  Watchers,  \* calls of Watch
  Filter,    \* the filters each passes: types and statuses, empty for unset
  TypeOf,    \* the type of each configuration
  ChanCap    \* capacity of a subscriber's channel (10 in the code)

ASSUME SubscriptionsAssumption ==
  /\ \A w \in Watchers : Filter[w] \in [types : SUBSET STRING, status : SUBSET BOOLEAN]
  /\ ChanCap \in Nat \ {0}

VARIABLES
  subs,        \* subscriptions.subs
  subsClosed,  \* subscriptions.closed, and every channel in subs
  queued,      \* the number of instances in each channel
  left,        \* the subscribers that no longer receive
  sent         \* history: what was ever sent on each channel

chanVars == <<queued, left, sent>>

SubsInit ==
  /\ subs = <<>>
  /\ subsClosed = FALSE
  /\ queued = [w \in Watchers |-> 0]
  /\ left = {}
  /\ sent = [w \in Watchers |-> {}]

(* A configuration as subscribers see it; ok stands for StatusOK. *)
Instance(k, version, ok, isExpired) ==
  [key |-> k, version |-> version, ok |-> ok, expired |-> isExpired]

Matches(inst, f) ==
  /\ f.status # {} => inst.ok \in f.status
  /\ f.types # {} => TypeOf[inst.key] \in f.types

(* add sets an unset status filter to StatusOK. *)
SubFilter(w) ==
  IF Filter[w].status = {} THEN [Filter[w] EXCEPT !.status = {TRUE}] ELSE Filter[w]

SendOn(w, inst) ==
  /\ queued[w] < ChanCap
  /\ queued' = [queued EXCEPT ![w] = @ + 1]
  /\ sent' = [sent EXCEPT ![w] = @ \cup {inst}]
  /\ left' = left

(* One iteration of the loop in send; it blocks while the channel is full. *)
SendTo(w, inst) == IF Matches(inst, SubFilter(w)) THEN SendOn(w, inst) ELSE UNCHANGED chanVars

(* The subscribers that send visits. *)
SendTodo == IF subsClosed THEN <<>> ELSE subs

Receive(w) ==
  /\ w \notin left
  /\ queued[w] > 0
  /\ queued' = [queued EXCEPT ![w] = @ - 1]

(* The subscriber sees the end of the agent's context and receives no      *)
(* more.  The same end makes the manager close the loader; it may come at  *)
(* any time, and Close may come before or after.                           *)
Leave(w) ==
  /\ w \notin left
  /\ left' = left \cup {w}

(* A send of the instance to the subscriber never returns. *)
Unreceived(w, inst) == w \in left /\ queued[w] = ChanCap /\ Matches(inst, SubFilter(w))

=============================================================================
