---------------------------- MODULE PerfManager ----------------------------
(***************************************************************************)
(* The performance manager (internal/perf/manager/manager.go) with the     *)
(* collectors it starts (pkg/performance/collector.go) and the merger that *)
(* joins their channels.  One goroutine starts, replaces and stops         *)
(* collectors as configurations arrive; another publishes what the merger  *)
(* puts out.                                                               *)
(*                                                                         *)
(* Collectors are numbered in the order they are started, and channel i of *)
(* the merger is the one of collector i.  A sample is its number.          *)
(***************************************************************************)
EXTENDS Merger

CONSTANTS
  Names,       \* names of configurations
  Versions,    \* their versions
  None,        \* no running collector
  MaxStarts    \* bound on the collectors started

VARIABLES
  ctxDone,   \* the manager's context is done
  evc,       \* where eventCollector is
  mgr,       \* where collectorManager is
  running,   \* runningCollectors: the number of the one of each name
  coll,      \* the collectors started
  returned   \* Start has returned

ASSUME PerfAssumption == MaxStarts \in Nat /\ Chans = 1..MaxStarts /\ None \notin Chans

manVars == <<ctxDone, evc, mgr, running, coll, returned>>
vars == <<chanVars, manVars>>

Init ==
  /\ MergerInit
  /\ ctxDone = FALSE
  /\ evc = "select"
  /\ mgr = "select"
  /\ running = [k \in Names |-> None]
  /\ coll = <<>>
  /\ returned = FALSE

CtxCancel ==
  /\ ~ctxDone
  /\ ctxDone' = TRUE
  /\ UNCHANGED <<chanVars, evc, mgr, running, coll, returned>>

-----------------------------------------------------------------------------
(* collectorManager. *)

CancelOf(k) ==
  IF running[k] = None THEN coll ELSE [coll EXCEPT ![running[k]].cancelled = TRUE]

HandleExpiredConfig(k) ==
  /\ mgr = "select"
  /\ coll' = CancelOf(k)
  /\ running' = [running EXCEPT ![k] = None]
  /\ UNCHANGED <<chanVars, ctxDone, evc, mgr, returned>>

IsUpdate(k, v) == running[k] # None => coll[running[k]].version # v

(* The new collector does not start; the one it was to replace is stopped. *)
StartFails(k, v) ==
  /\ mgr = "select"
  /\ IsUpdate(k, v)
  /\ coll' = CancelOf(k)
  /\ running' = [running EXCEPT ![k] = None]
  /\ UNCHANGED <<chanVars, ctxDone, evc, mgr, returned>>

(* Mutant: the collector that is replaced is not cancelled.                *)
StartsBeside(k, v, pc) ==
  /\ mgr = "select"
  /\ IsUpdate(k, v)
  /\ Len(coll) < MaxStarts
  /\ coll' = Append(coll, [name |-> k, version |-> v, cancelled |-> FALSE, pc |-> pc])
  /\ running' = [running EXCEPT ![k] = None]
  /\ Add(Len(coll) + 1)
  /\ mgr' = "add"

Starts(k, v, pc) ==
  /\ mgr = "select"
  /\ IsUpdate(k, v)
  /\ Len(coll) < MaxStarts
  /\ coll' = Append(CancelOf(k), [name |-> k, version |-> v, cancelled |-> FALSE, pc |-> pc])
  /\ running' = [running EXCEPT ![k] = None]
  /\ Add(Len(coll) + 1)
  /\ mgr' = "add"

(* A ContinuousPointCollector: its goroutine waits for the first tick. *)
StartContinuous(k, v) ==
  /\ Starts(k, v, "select")
  /\ UNCHANGED <<inVars, mergerVars, mergerClosed, got, ctxDone, evc, returned>>

(* A OnceContinuousCollector: Start collects, sends the result if there is *)
(* one, and closes the channel.                                            *)
StartOnce(k, v) ==
  /\ Starts(k, v, "ended")
  /\ LET i == Len(coll) + 1
     IN  /\ inclosed' = inclosed \cup {i}
         /\ \/ UNCHANGED <<inbuf, nput>>
            \/ /\ inbuf' = [inbuf EXCEPT ![i] = <<1>>]
               /\ nput' = [nput EXCEPT ![i] = 1]
  /\ UNCHANGED <<mergerVars, mergerClosed, got, ctxDone, evc, returned>>

(* perfEvents.Add returns when the merger takes the channel. *)
CollectorAdded ==
  /\ mgr = "add"
  /\ \E i \in adding :
       /\ MergerAdds(i)
       /\ running' = [running EXCEPT ![coll[i].name] = i]
  /\ mgr' = "select"
  /\ UNCHANGED <<ctxDone, evc, coll, returned>>

StopAllCollectors ==
  /\ mgr = "select"
  /\ ctxDone
  /\ mgr' = "done"
  /\ coll' = [i \in DOMAIN coll |->
                [coll[i] EXCEPT !.cancelled = @ \/ \E k \in Names : running[k] = i]]
  /\ running' = [k \in Names |-> None]
  /\ UNCHANGED <<chanVars, ctxDone, evc, returned>>

ManagerNext == CollectorAdded \/ StopAllCollectors

-----------------------------------------------------------------------------
(* eventCollector and Start. *)

Publish ==
  /\ evc = "select"
  /\ Receive
  /\ UNCHANGED manVars

EventCollectorStops ==
  /\ evc = "select"
  /\ ctxDone
  /\ evc' = "done"
  /\ UNCHANGED <<chanVars, ctxDone, mgr, running, coll, returned>>

(* Mutant: Start also waits for the collectors.                            *)
StartAwaitsCollectors ==
  /\ mgr = "done" /\ evc = "done"
  /\ \A i \in DOMAIN coll : coll[i].pc = "ended"
  /\ ~returned
  /\ CloseMerger
  /\ returned' = TRUE
  /\ UNCHANGED <<ctxDone, evc, mgr, running, coll>>

StartReturns ==
  /\ mgr = "done" /\ evc = "done"
  /\ ~returned
  /\ CloseMerger
  /\ returned' = TRUE
  /\ UNCHANGED <<ctxDone, evc, mgr, running, coll>>

MergerStep ==
  /\ \/ \E i \in Chans : MergerTake(i) \/ MergerDrops(i)
     \/ MergerReturns
  /\ UNCHANGED manVars

-----------------------------------------------------------------------------
(* The goroutine of a ContinuousPointCollector. *)

(* The ticker fires and a sample is taken.  One that fails is skipped,     *)
(* which is a stuttering step.                                             *)
Collect(i) ==
  /\ coll[i].pc = "select"
  /\ nput[i] < MaxItems
  /\ coll' = [coll EXCEPT ![i].pc = "send"]
  /\ UNCHANGED <<chanVars, ctxDone, evc, mgr, running, returned>>

SendSample(i) ==
  /\ coll[i].pc = "send"
  /\ Put(i)
  /\ coll' = [coll EXCEPT ![i].pc = "select"]
  /\ UNCHANGED <<ctxDone, evc, mgr, running, returned>>

(* Mutant: the collector runs under the manager's context.                 *)
CollectorStopsLate(i) ==
  /\ coll[i].pc = "select"
  /\ ctxDone
  /\ CloseInput(i)
  /\ coll' = [coll EXCEPT ![i].pc = "ended"]
  /\ UNCHANGED <<ctxDone, evc, mgr, running, returned>>

CollectorStops(i) ==
  /\ coll[i].pc = "select"
  /\ coll[i].cancelled \/ ctxDone
  /\ CloseInput(i)
  /\ coll' = [coll EXCEPT ![i].pc = "ended"]
  /\ UNCHANGED <<ctxDone, evc, mgr, running, returned>>

Next ==
  \/ CtxCancel
  \/ \E k \in Names :
       \/ HandleExpiredConfig(k)
       \/ \E v \in Versions : StartFails(k, v) \/ StartContinuous(k, v) \/ StartOnce(k, v)
  \/ ManagerNext
  \/ Publish
  \/ EventCollectorStops
  \/ StartReturns
  \/ MergerStep
  \/ \E i \in DOMAIN coll : Collect(i) \/ SendSample(i) \/ CollectorStops(i)

Spec == Init /\ [][Next]_vars

-----------------------------------------------------------------------------

(* The state has its type, and so has the merger's; Add is never pending   *)
(* on a merger that was closed, which would panic.                         *)
TypeOK ==
  /\ MergerTypeOK
  /\ {ctxDone, returned} \subseteq BOOLEAN
  /\ evc \in {"select", "done"}
  /\ mgr \in {"select", "add", "done"} /\ (mgr = "add" <=> adding # {})
  /\ running \in [Names -> Chans \cup {None}]
  /\ coll \in Seq([name : Names, version : Versions, cancelled : BOOLEAN,
                   pc : {"select", "send", "ended"}])
  /\ mergerClosed => adding = {}

(* A collector that has not been cancelled is the one that                 *)
(* runningCollectors holds under its name, or is just being added: none is *)
(* left running where nothing could stop it, and no name has two.          *)
NoStrayCollector ==
  \A i \in DOMAIN coll : ~coll[i].cancelled <=> (running[coll[i].name] = i \/ i \in adding)

-----------------------------------------------------------------------------

(* Goroutines that can run do, and no ready case of a select is neglected  *)
(* for ever.  Nothing is assumed of configurations and of the context.     *)
Fairness ==
  /\ WF_vars(ManagerNext) /\ SF_vars(StopAllCollectors) /\ SF_vars(CollectorAdded)
  /\ WF_vars(Publish) /\ SF_vars(EventCollectorStops)
  /\ WF_vars(StartReturns)
  /\ WF_vars(MergerStep) /\ SF_vars(MergerReturns /\ UNCHANGED manVars)
  /\ \A i \in Chans :
       /\ SF_vars(MergerTake(i) /\ UNCHANGED manVars)
       /\ WF_vars(i \in DOMAIN coll /\ SendSample(i))
       /\ SF_vars(i \in DOMAIN coll /\ CollectorStops(i))

FairSpec == Spec /\ Fairness

(* "The collector must clean up when the context is cancelled"             *)
(* (collector.go:40): one that was stopped by an update or an expiry ends, *)
(* although its channel may be full, as long as the manager runs.          *)
CancelledEnd ==
  \A i \in Chans :
    (i \in DOMAIN coll /\ coll[i].cancelled) ~>
      (ctxDone \/ (i \in DOMAIN coll /\ coll[i].pc = "ended"))

(* Whatever a collector sent is published, in the order it was sent        *)
(* ("Message delivery order is guaranteed within a single input channel",  *)
(* merger.go:14) and without gaps, also when the collector is stopped      *)
(* first, as long as the manager runs.                                     *)
SamplesPublished ==
  \A i \in Chans : \A n \in 1..MaxItems :
    (nput[i] >= n) ~> (ctxDone \/ \A k \in 1..n : k \in DOMAIN got[i] /\ got[i][k] = k)

(* Start returns once the context is done, whatever the collectors and the *)
(* merger are still busy with ("Cancel and wait for manager to stop",      *)
(* manager_test.go:147), unless collectorManager began to add one more     *)
(* collector and eventCollector, which would have made the merger take it, *)
(* left first: then Add waits for ever.                                    *)
ShutsDown == ctxDone ~> (returned \/ (evc = "done" /\ mgr = "add"))

=============================================================================
