------------------------- MODULE PerfManagerProofs -------------------------
(***************************************************************************)
(* Proofs about the performance manager, for all names and versions of     *)
(* configurations and any number of collectors and samples.                *)
(***************************************************************************)
EXTENDS PerfManager, SequenceTheorems, TLAPS

CollectorSet == [name : Names, version : Versions, cancelled : BOOLEAN, pc : {"select", "send", "ended"}]

CollTypeOK ==
  /\ coll \in Seq(CollectorSet)
  /\ running \in [Names -> Nat \cup {None}]
  /\ mgr \in {"select", "add", "done"}
  /\ Len(coll) <= MaxStarts

(* runningCollectors holds a started collector under its own name. *)
RunningOwn == \A k \in Names : running[k] # None => running[k] \in 1..Len(coll) /\ coll[running[k]].name = k

(* Add waits only for the collector started last, and while it waits the   *)
(* manager does nothing else; no collector runs under that one's name.     *)
AddingLast ==
  /\ mgr # "add" => adding = {}
  /\ mgr = "add" => /\ coll # <<>> /\ adding = {Len(coll)}
                    /\ running[coll[Len(coll)].name] = None

ManagerInv == CollTypeOK /\ RunningOwn /\ AddingLast /\ NoStrayCollector

-----------------------------------------------------------------------------

(* None is not the number of a collector. *)
LEMMA NotNone == CollTypeOK => None \notin 1..Len(coll)
<1> SUFFICES ASSUME CollTypeOK PROVE None \notin 1..Len(coll)
  BY Zenon
<1>1. Len(coll) \in Nat /\ Len(coll) <= MaxStarts
  BY DEF CollTypeOK
<1>2. 1..Len(coll) \subseteq 1..MaxStarts
  BY <1>1, PerfAssumption
<1>3. QED
  BY <1>2, PerfAssumption, Zenon

(* Every collector has one of the names. *)
LEMMA Named == ASSUME CollTypeOK, NEW i \in 1..Len(coll) PROVE coll[i].name \in Names
<1>1. coll[i] \in CollectorSet
  BY DEF CollTypeOK
<1>2. QED
  BY <1>1, Zenon DEF CollectorSet

(* The cancellation of a name's collector changes nothing else             *)
(* (stopCollector, manager.go).                                            *)
LEMMA CancelOfOnly ==
  ASSUME CollTypeOK, RunningOwn, NEW k \in Names
  PROVE  /\ CancelOf(k) \in Seq(CollectorSet) /\ Len(CancelOf(k)) = Len(coll)
         /\ \A i \in 1..Len(coll) : /\ CancelOf(k)[i].name = coll[i].name
                                    /\ CancelOf(k)[i].cancelled <=> coll[i].cancelled \/ running[k] = i
<1> USE DEF CollTypeOK
<1>1. CASE running[k] = None
  BY <1>1, NotNone, Zenon DEF CancelOf
<1>2. CASE running[k] # None
  <2>1. running[k] \in 1..Len(coll)
    BY <1>2, Zenon DEF RunningOwn
  <2>2. CancelOf(k) = [coll EXCEPT ![running[k]].cancelled = TRUE]
    BY <1>2, Zenon DEF CancelOf
  <2>3. [coll[running[k]] EXCEPT !.cancelled = TRUE] \in CollectorSet
    <3>1. coll[running[k]] \in CollectorSet
      BY <2>1
    <3>2. QED
      BY <3>1, Zenon DEF CollectorSet
  <2>4. CancelOf(k) \in Seq(CollectorSet) /\ Len(CancelOf(k)) = Len(coll)
    BY <2>1, <2>2, <2>3, ExceptSeq
  <2>5. ASSUME NEW i \in 1..Len(coll)
        PROVE  /\ CancelOf(k)[i].name = coll[i].name
               /\ CancelOf(k)[i].cancelled <=> coll[i].cancelled \/ running[k] = i
    <3>1. coll[i] \in CollectorSet
      OBVIOUS
    <3>2. QED
      BY <2>1, <2>2, <3>1 DEF CollectorSet
  <2>6. QED
    BY <2>4, <2>5, Zenon
<1>3. QED
  BY <1>1, <1>2, Zenon

(* An expired configuration, or one whose collector does not start: the    *)
(* name's collector is stopped and forgotten.                              *)
LEMMA CancelKeeps ==
  ASSUME ManagerInv, NEW k \in Names, mgr = "select", UNCHANGED <<mgr, adding>>,
         coll' = CancelOf(k), running' = [running EXCEPT ![k] = None]
  PROVE  ManagerInv'
<1> USE DEF ManagerInv
<1>1. /\ coll' \in Seq(CollectorSet) /\ Len(coll') = Len(coll)
      /\ \A i \in 1..Len(coll) : /\ coll'[i].name = coll[i].name
                                 /\ coll'[i].cancelled <=> coll[i].cancelled \/ running[k] = i
  BY CancelOfOnly
<1>2. CollTypeOK'
  BY <1>1, Zenon DEF CollTypeOK
<1>3. RunningOwn'
  BY <1>1, Zenon DEF RunningOwn, CollTypeOK
<1>4. AddingLast'
  BY Zenon DEF AddingLast
<1>5. NoStrayCollector'
  <2>1. adding = {} /\ adding' = {}
    BY Zenon DEF AddingLast
  <2>2. SUFFICES ASSUME NEW i \in 1..Len(coll)
                 PROVE  ~coll'[i].cancelled <=> running'[coll'[i].name] = i
    BY <1>1, <2>1 DEF NoStrayCollector
  <2>3. ~coll[i].cancelled <=> running[coll[i].name] = i
    BY <2>1 DEF NoStrayCollector, CollTypeOK
  <2>4. coll[i].name \in Names
    BY Named, Zenon
  <2>5. CASE coll[i].name = k
    BY <1>1, <2>3, <2>5, NotNone, Zenon DEF CollTypeOK
  <2>6. CASE coll[i].name # k
    BY <1>1, <2>3, <2>4, <2>6, NotNone DEF CollTypeOK, RunningOwn
  <2>7. QED
    BY <2>5, <2>6, Zenon
<1>6. QED
  BY <1>2, <1>3, <1>4, <1>5, Zenon

(* A new collector takes its name's place when Add returns; until then     *)
(* none runs under the name.                                               *)
LEMMA StartsKeeps ==
  ASSUME ManagerInv, NEW k \in Names, NEW v \in Versions, NEW pc \in {"select", "send", "ended"},
         Starts(k, v, pc)
  PROVE  ManagerInv'
<1> DEFINE new == [name |-> k, version |-> v, cancelled |-> FALSE, pc |-> pc]
           rest == CancelOf(k)
           n == Len(coll)
<1> USE DEF ManagerInv
<1>1. /\ rest \in Seq(CollectorSet) /\ Len(rest) = n
      /\ \A i \in 1..n : /\ rest[i].name = coll[i].name
                         /\ rest[i].cancelled <=> coll[i].cancelled \/ running[k] = i
  BY CancelOfOnly, Zenon
<1>2. /\ coll' = Append(rest, new) /\ running' = [running EXCEPT ![k] = None]
      /\ mgr = "select" /\ mgr' = "add" /\ adding = {} /\ adding' = {n + 1} /\ n < MaxStarts
  BY Zenon DEF Starts, Add, AddingLast
<1>3. new \in CollectorSet
  BY Zenon DEF CollectorSet
<1>4. n \in Nat /\ running \in [Names -> Nat \cup {None}]
  BY DEF CollTypeOK
<1> HIDE DEF new, rest
<1>5. /\ coll' \in Seq(CollectorSet) /\ Len(coll') = n + 1
      /\ coll'[n + 1] = new /\ \A i \in 1..n : coll'[i] = rest[i]
  BY <1>1, <1>2, <1>3
<1>6. new.name = k /\ new.cancelled = FALSE
  BY Zenon DEF new
<1>7. CollTypeOK'
  BY <1>2, <1>4, <1>5, PerfAssumption DEF CollTypeOK
<1>8. RunningOwn'
  BY <1>1, <1>2, <1>4, <1>5 DEF RunningOwn
<1>9. AddingLast'
  BY <1>2, <1>4, <1>5, <1>6 DEF AddingLast
<1>10. NoStrayCollector'
  <2>1. SUFFICES ASSUME NEW i \in 1..(n + 1)
                 PROVE  ~coll'[i].cancelled <=> (running'[coll'[i].name] = i \/ i = n + 1)
    BY <1>2, <1>5 DEF NoStrayCollector
  <2>2. CASE i = n + 1
    BY <1>5, <1>6, <2>2, Zenon
  <2>3. CASE i \in 1..n
    <3>1. ~coll[i].cancelled <=> running[coll[i].name] = i
      BY <1>2, <2>3 DEF NoStrayCollector, CollTypeOK
    <3>2. coll[i].name \in Names /\ i # None /\ i # n + 1
      BY <1>4, <2>3, Named, NotNone
    <3>3. running[k] = i => coll[i].name = k
      BY <2>3, <3>2, Zenon DEF RunningOwn
    <3>4. QED
      BY <1>1, <1>2, <1>4, <1>5, <2>3, <3>1, <3>2, <3>3
  <2>4. QED
    BY <1>4, <2>2, <2>3
<1>11. QED
  BY <1>7, <1>8, <1>9, <1>10, Zenon

(* The goroutine of a collector does not touch the manager's state. *)
LEMMA CollectorKeeps ==
  ASSUME ManagerInv, NEW i \in DOMAIN coll, NEW pc \in {"select", "send", "ended"},
         coll' = [coll EXCEPT ![i].pc = pc], UNCHANGED <<running, mgr, adding>>
  PROVE  ManagerInv'
<1> USE DEF ManagerInv
<1>1. coll \in Seq(CollectorSet) /\ i \in 1..Len(coll)
  BY DEF CollTypeOK
<1>2. coll[i] \in CollectorSet
  BY <1>1
<1>3. [coll[i] EXCEPT !.pc = pc] \in CollectorSet
  BY <1>2, Zenon DEF CollectorSet
<1>4. coll' \in Seq(CollectorSet) /\ Len(coll') = Len(coll)
  BY <1>1, <1>3, ExceptSeq
<1>5. \A j \in 1..Len(coll) : coll'[j].name = coll[j].name /\ coll'[j].cancelled = coll[j].cancelled
  <2>1. TAKE j \in 1..Len(coll)
  <2>2. coll[j] \in CollectorSet
    BY <1>1
  <2>3. QED
    BY <1>1, <2>2 DEF CollectorSet
<1>6. CollTypeOK' /\ RunningOwn'
  BY <1>4, <1>5, Zenon DEF CollTypeOK, RunningOwn
<1>7. AddingLast'
  BY <1>1, <1>4, <1>5 DEF AddingLast
<1>8. NoStrayCollector'
  BY <1>1, <1>4, <1>5 DEF NoStrayCollector
<1>9. QED
  BY <1>6, <1>7, <1>8, Zenon

(* Add returns, and the collector is the one of its name. *)
LEMMA AddedKeeps == ASSUME ManagerInv, CollectorAdded PROVE ManagerInv'
<1> DEFINE n == Len(coll)
           k == coll[n].name
<1> USE DEF ManagerInv
<1>1. /\ mgr = "add" /\ mgr' = "select" /\ UNCHANGED coll
      /\ adding = {n} /\ coll # <<>> /\ running[k] = None
  BY Zenon DEF CollectorAdded, AddingLast
<1>2. running' = [running EXCEPT ![k] = n] /\ adding' = {}
  BY <1>1, Zenon DEF CollectorAdded, MergerAdds
<1>3. coll \in Seq(CollectorSet) /\ n \in Nat /\ n \in 1..n /\ running \in [Names -> Nat \cup {None}]
  BY <1>1 DEF CollTypeOK
<1>4. k \in Names
  BY <1>3, Named, Zenon
<1>5. CollTypeOK' /\ AddingLast'
  BY <1>1, <1>2, <1>3, <1>4, Zenon DEF CollTypeOK, AddingLast
<1>6. RunningOwn'
  BY <1>1, <1>2, <1>3, <1>4, Zenon DEF RunningOwn
<1>7. NoStrayCollector'
  <2>1. SUFFICES ASSUME NEW i \in 1..n
                 PROVE  ~coll[i].cancelled <=> running'[coll[i].name] = i
    BY <1>1, <1>2, <1>3 DEF NoStrayCollector
  <2>2. ~coll[i].cancelled <=> (running[coll[i].name] = i \/ i = n)
    BY <1>1, <1>3 DEF NoStrayCollector
  <2>3. coll[i].name \in Names /\ i # None
    BY Named, NotNone, Zenon
  <2>4. QED
    BY <1>1, <1>2, <1>3, <1>4, <2>2, <2>3, Zenon
<1>8. QED
  BY <1>5, <1>6, <1>7, Zenon

(* At shutdown every running collector is cancelled. *)
LEMMA StopAllKeeps == ASSUME ManagerInv, StopAllCollectors PROVE ManagerInv'
<1> USE DEF ManagerInv
<1> DEFINE n == Len(coll)
           stopped(i) == [coll[i] EXCEPT !.cancelled = @ \/ \E k \in Names : running[k] = i]
<1>1. /\ mgr' = "done" /\ adding = {} /\ adding' = {}
      /\ coll' = [i \in 1..n |-> stopped(i)] /\ running' = [k \in Names |-> None]
  BY DEF StopAllCollectors, AddingLast, chanVars, CollTypeOK
<1>2. coll \in Seq(CollectorSet) /\ n \in Nat
  BY DEF CollTypeOK
<1>3. ASSUME NEW i \in 1..n
      PROVE  /\ stopped(i) \in CollectorSet /\ stopped(i).name = coll[i].name
             /\ stopped(i).cancelled <=> (coll[i].cancelled \/ \E k \in Names : running[k] = i)
  <2>1. coll[i] \in CollectorSet
    BY <1>2
  <2>2. (coll[i].cancelled \/ \E k \in Names : running[k] = i) \in BOOLEAN
    BY <2>1, Zenon DEF CollectorSet
  <2>3. QED
    BY <2>1, <2>2, Zenon DEF CollectorSet
<1> HIDE DEF stopped
<1>4. coll' \in Seq(CollectorSet) /\ Len(coll') = n
  BY <1>1, <1>2, <1>3
<1>5. CollTypeOK' /\ RunningOwn' /\ AddingLast'
  BY <1>1, <1>4, Zenon DEF CollTypeOK, RunningOwn, AddingLast
<1>6. NoStrayCollector'
  <2>1. SUFFICES ASSUME NEW i \in 1..n
                 PROVE  stopped(i).cancelled /\ running'[stopped(i).name] # i
    BY <1>1, <1>2, <1>4 DEF NoStrayCollector
  <2>2. ~coll[i].cancelled <=> running[coll[i].name] = i
    BY <1>1, <1>2 DEF NoStrayCollector
  <2>3. coll[i].name \in Names /\ i # None
    BY Named, NotNone, Zenon
  <2>4. QED
    BY <1>1, <1>3, <2>2, <2>3, Zenon
<1>7. QED
  BY <1>5, <1>6, Zenon

(* Every step keeps the manager's invariant. *)
LEMMA NextManagerInv == ManagerInv /\ [Next]_vars => ManagerInv'
<1> SUFFICES ASSUME ManagerInv, [Next]_vars PROVE ManagerInv'
  BY Zenon
<1>1. CASE UNCHANGED <<coll, running, mgr, adding>>
  BY <1>1, Zenon DEF ManagerInv, CollTypeOK, RunningOwn, AddingLast, NoStrayCollector
<1>2. CASE CtxCancel \/ Publish \/ EventCollectorStops \/ StartReturns \/ MergerStep \/ UNCHANGED vars
  <2>1. UNCHANGED <<coll, running, mgr, adding>>
    BY <1>2, Zenon DEF CtxCancel, Publish, EventCollectorStops, StartReturns, MergerStep, Receive, CloseMerger,
                MergerTake, MergerDrops, MergerReturns, vars, manVars, chanVars
  <2>2. QED
    BY <1>1, <2>1, Zenon
<1>3. ASSUME NEW k \in Names, HandleExpiredConfig(k) \/ \E v \in Versions : StartFails(k, v)
      PROVE  ManagerInv'
  BY <1>3, CancelKeeps, Zenon DEF HandleExpiredConfig, StartFails, chanVars
<1>4. ASSUME NEW k \in Names, NEW v \in Versions, StartContinuous(k, v) \/ StartOnce(k, v)
      PROVE  ManagerInv'
  BY <1>4, StartsKeeps, Zenon DEF StartContinuous, StartOnce
<1>5. CASE ManagerNext
  BY <1>5, AddedKeeps, StopAllKeeps, Zenon DEF ManagerNext
<1>6. ASSUME NEW i \in DOMAIN coll, Collect(i) \/ SendSample(i) \/ CollectorStops(i)
      PROVE  ManagerInv'
  <2>1. PICK pc \in {"select", "send", "ended"} : coll' = [coll EXCEPT ![i].pc = pc]
    BY <1>6, Zenon DEF Collect, SendSample, CollectorStops
  <2>2. UNCHANGED <<running, mgr, adding>>
    BY <1>6, Zenon DEF Collect, SendSample, CollectorStops, Put, CloseInput, chanVars
  <2>3. QED
    BY <2>1, <2>2, CollectorKeeps, Zenon
<1>7. QED
  BY <1>2, <1>3, <1>4, <1>5, <1>6, Zenon DEF Next

(* At the start nothing runs. *)
LEMMA InitManagerInv == Init => ManagerInv
<1> SUFFICES ASSUME Init PROVE ManagerInv
  BY Zenon
<1>1. CollTypeOK
  BY PerfAssumption DEF Init, CollTypeOK
<1>2. QED
  BY <1>1 DEF Init, MergerInit, ManagerInv, RunningOwn, AddingLast, NoStrayCollector

(* However configurations come, change and expire: the collectors that     *)
(* have not been cancelled are those in runningCollectors and the one that *)
(* is being added (collectorManager, manager.go).                          *)
THEOREM NoCollectorStrays == Spec => []NoStrayCollector
<1>1. ManagerInv => NoStrayCollector
  BY Zenon DEF ManagerInv
<1>2. QED
  BY <1>1, InitManagerInv, NextManagerInv, PTL DEF Spec

-----------------------------------------------------------------------------
(* The order of samples. *)

FlowTypeOK ==
  /\ inbuf \in [Chans -> Seq(Nat)] /\ nput \in [Chans -> Nat] /\ got \in [Chans -> Seq(Nat)]
  /\ merger = "send" => Len(held) = 1 /\ held \in Seq([ch : Chans, n : Nat])

(* Whether the merger holds a sample of a channel. *)
Held(c) == IF merger = "send" /\ Head(held).ch = c THEN 1 ELSE 0

(* The samples of a channel, published, held by the merger and waiting in  *)
(* that order, are all that were sent.                                     *)
FlowOf(c) ==
  /\ Len(got[c]) + Held(c) + Len(inbuf[c]) = nput[c]
  /\ \A k \in 1..Len(got[c]) : got[c][k] = k
  /\ Held(c) = 1 => Head(held).n = Len(got[c]) + 1
  /\ \A k \in 1..Len(inbuf[c]) : inbuf[c][k] = Len(got[c]) + Held(c) + k

Unstarted == \A c \in Chans : c > Len(coll) => nput[c] = 0

FlowInv == FlowTypeOK /\ Unstarted /\ \A c \in Chans : FlowOf(c)

(* The samples published of a collector are the first it sent, in order    *)
(* and without gaps, whatever happened to it and to the manager.           *)
PublishedInOrder ==
  \A c \in Chans : Len(got[c]) <= nput[c] /\ \A k \in 1..Len(got[c]) : got[c][k] = k

(* The merger takes a sample. *)
LEMMA TakeKeeps == ASSUME FlowInv, NEW c \in Chans, MergerTake(c), UNCHANGED coll PROVE FlowInv'
<1> USE DEF FlowInv
<1>1. /\ merger = "select" /\ merger' = "send" /\ UNCHANGED <<nput, got>> /\ inbuf[c] # <<>>
      /\ inbuf' = [inbuf EXCEPT ![c] = Tail(@)] /\ held' = <<[ch |-> c, n |-> Head(inbuf[c])]>>
  BY Zenon DEF MergerTake
<1>2. inbuf[c] \in Seq(Nat) /\ Head(inbuf[c]) \in Nat /\ Tail(inbuf[c]) \in Seq(Nat) /\ got[c] \in Seq(Nat)
  BY <1>1 DEF FlowTypeOK
<1>3. FlowTypeOK' /\ Unstarted'
  BY <1>1, <1>2 DEF FlowTypeOK, Unstarted
<1>4. \A e \in Chans : Held(e) = 0 /\ Held(e)' = IF e = c THEN 1 ELSE 0
  BY <1>1 DEF Held
<1>5. FlowOf(c)'
  <2>1. inbuf'[c] = Tail(inbuf[c]) /\ Len(Tail(inbuf[c])) = Len(inbuf[c]) - 1 /\ Len(inbuf[c]) \in Nat \ {0}
    BY <1>1, <1>2 DEF FlowTypeOK
  <2>2. \A k \in 1..Len(Tail(inbuf[c])) : Tail(inbuf[c])[k] = inbuf[c][k + 1]
    BY <1>1, <1>2
  <2>3. Head(inbuf[c]) = inbuf[c][1] /\ Head(held').n = Head(inbuf[c])
    BY <1>1, <1>2
  <2>4. FlowOf(c) /\ Held(c) = 0 /\ Held(c)' = 1 /\ got' = got /\ nput' = nput
    BY <1>1, <1>4, Zenon
  <2> DEFINE g == Len(got[c])
             b == Len(inbuf[c])
  <2>n. g \in Nat /\ b \in Nat /\ nput[c] \in Nat
    BY <1>2 DEF FlowTypeOK
  <2> HIDE DEF g, b
  <2>5. Head(held').n = Len(got[c]) + 1
    BY <2>1, <2>3, <2>4 DEF FlowOf
  <2>6. ASSUME NEW k \in 1..(Len(inbuf[c]) - 1) PROVE Tail(inbuf[c])[k] = Len(got[c]) + 1 + k
    <3>1. k + 1 \in 1..Len(inbuf[c]) /\ k \in Nat
      BY <2>1
    <3>2. inbuf[c][k + 1] = g + 0 + (k + 1)
      BY <2>4, <3>1, Zenon DEF FlowOf, g
    <3>3. k \in 1..Len(Tail(inbuf[c]))
      BY <2>1, Zenon
    <3>4. Tail(inbuf[c])[k] = inbuf[c][k + 1]
      BY <2>2, <3>3, Zenon
    <3>5. inbuf[c][k + 1] = g + 1 + k
      BY <2>n, <3>1, <3>2
    <3>6. QED
      BY <3>4, <3>5, Zenon DEF g
  <2>7. Len(got[c]) + 0 + Len(inbuf[c]) = nput[c] /\ \A k \in 1..Len(got[c]) : got[c][k] = k
    BY <2>4, Zenon DEF FlowOf
  <2>8. Len(got'[c]) + Held(c)' + Len(inbuf'[c]) = nput'[c]
    <3>1. Held(c)' = 1 /\ got'[c] = got[c] /\ nput'[c] = nput[c] /\ Len(inbuf'[c]) = Len(inbuf[c]) - 1
      BY <2>1, <2>4, Zenon
    <3>2. g + 0 + b = nput[c]
      BY <2>7, Zenon DEF g, b
    <3>3. g + 1 + (b - 1) = nput[c]
      BY <2>n, <3>2
    <3>4. QED
      BY <3>1, <3>3, Zenon DEF g, b
  <2>9. \A k \in 1..Len(inbuf'[c]) : inbuf'[c][k] = Len(got'[c]) + Held(c)' + k
    BY <2>1, <2>4, <2>6, Zenon
  <2>10. QED
    BY <2>4, <2>5, <2>7, <2>8, <2>9, Zenon DEF FlowOf
<1>6. \A e \in Chans \ {c} : FlowOf(e)'
  BY <1>1, <1>4, SMTT(30) DEF FlowOf, FlowTypeOK
<1>7. QED
  BY <1>3, <1>5, <1>6, Zenon

(* The merger hands its sample over. *)
LEMMA ReceiveKeeps == ASSUME FlowInv, Receive, UNCHANGED coll PROVE FlowInv'
<1> USE DEF FlowInv
<1>0. merger = "send" /\ Head(held) \in [ch : Chans, n : Nat]
  <2>1. merger = "send"
    BY Zenon DEF Receive
  <2>2. held \in Seq([ch : Chans, n : Nat]) /\ Len(held) = 1
    BY <2>1, Zenon DEF FlowTypeOK
  <2> DEFINE S == [ch : Chans, n : Nat]
  <2> HIDE DEF S
  <2>3. held \in Seq(S) /\ Len(held) = 1
    BY <2>2, Zenon DEF S
  <2>4. Head(held) \in S
    BY <2>3
  <2>5. QED
    BY <2>1, <2>4, Zenon DEF S
<1> PICK c \in Chans, n \in Nat : c = Head(held).ch /\ n = Head(held).n
  BY <1>0, Zenon
<1>1. /\ merger' = "select" /\ UNCHANGED <<inbuf, nput>>
      /\ got' = [got EXCEPT ![c] = Append(@, n)]
  BY Zenon DEF Receive, Deliver, inVars
<1>2. c \in Chans /\ n \in Nat
  BY Zenon
<1>3. \A e \in Chans : Held(e)' = 0 /\ Held(e) = IF e = c THEN 1 ELSE 0
  BY <1>0, <1>1, Zenon DEF Held
<1>4. Held(c) = 1 /\ n = Len(got[c]) + 1
  BY <1>3, Zenon DEF FlowOf
<1>5. FlowTypeOK' /\ Unstarted'
  BY <1>1, <1>2, SMTT(30), Zenon DEF FlowTypeOK, Unstarted
<1>6. FlowOf(c)'
  <2>1. /\ got[c] \in Seq(Nat) /\ got'[c] = Append(got[c], n) /\ Len(inbuf[c]) \in Nat /\ nput[c] \in Nat
        /\ inbuf' = inbuf /\ nput' = nput
    BY <1>1, <1>2, SMTT(30), Zenon DEF FlowTypeOK
  <2>2. Len(got'[c]) = Len(got[c]) + 1 /\ Len(got[c]) \in Nat
    BY <1>2, <2>1
  <2>3. FlowOf(c) /\ Held(c)' = 0
    BY <1>2, <1>3, SMTT(30)
  <2>4. ASSUME NEW k \in 1..Len(got'[c]) PROVE got'[c][k] = k
    BY <1>2, <1>4, <2>1, <2>2, <2>3, SMTT(30) DEF FlowOf
  <2>5. Len(got'[c]) + Held(c)' + Len(inbuf'[c]) = nput'[c]
    <3>1. Len(got[c]) + Held(c) + Len(inbuf[c]) = nput[c]
      BY <2>3, SMTT(30), Zenon DEF FlowOf
    <3>2. QED
      BY <1>4, <2>1, <2>2, <2>3, <3>1
  <2>6. \A k \in 1..Len(inbuf'[c]) : inbuf'[c][k] = Len(got'[c]) + Held(c)' + k
    <3>1. \A k \in 1..Len(inbuf[c]) : inbuf[c][k] = Len(got[c]) + Held(c) + k
      BY <2>3, Zenon DEF FlowOf
    <3>2. QED
      BY <1>4, <2>1, <2>2, <2>3, <3>1, SMTT(30), Zenon
  <2>7. ~ (Held(c)' = 1)
    BY <2>3
  <2>8. QED
    BY <2>4, <2>5, <2>6, <2>7, Zenon DEF FlowOf
<1>7. \A e \in Chans \ {c} : FlowOf(e)'
  BY <1>1, <1>2, <1>3, SMTT(30) DEF FlowOf, FlowTypeOK
<1>8. QED
  BY <1>2, <1>5, <1>6, <1>7, Zenon

(* A collector sends a sample into a channel that is not full. *)
LEMMA PutKeeps == ASSUME FlowInv, NEW c \in Chans, Put(c), Len(coll') = Len(coll), c <= Len(coll) PROVE FlowInv'
<1> USE DEF FlowInv
<1> DEFINE b == Len(inbuf[c])
           g == Len(got[c]) + Held(c)
<1>1. /\ UNCHANGED <<merger, held, got>>
      /\ nput' = [nput EXCEPT ![c] = @ + 1] /\ inbuf' = [inbuf EXCEPT ![c] = Append(@, nput[c] + 1)]
  BY Zenon DEF Put, mergerVars
<1>2. inbuf[c] \in Seq(Nat) /\ nput[c] \in Nat /\ b \in Nat /\ Len(got[c]) \in Nat
  BY DEF FlowTypeOK
<1>3. \A e \in Chans : Held(e)' = Held(e) /\ Held(e) \in {0, 1}
  BY <1>1, Zenon DEF Held
<1>4. g \in Nat
  BY <1>2, <1>3
<1>5. FlowTypeOK' /\ Unstarted'
  BY <1>1, <1>2, PerfAssumption, SMTT(30) DEF FlowTypeOK, Unstarted
<1>6. FlowOf(c)'
  <2>1. /\ inbuf'[c] = Append(inbuf[c], nput[c] + 1) /\ nput'[c] = nput[c] + 1
        /\ got'[c] = got[c] /\ Held(c)' = Held(c)
    BY <1>1, <1>3, Zenon DEF FlowTypeOK
  <2>2. Len(inbuf'[c]) = b + 1 /\ inbuf'[c][b + 1] = nput[c] + 1 /\ \A k \in 1..b : inbuf'[c][k] = inbuf[c][k]
    BY <1>2, <2>1
  <2>3. g + b = nput[c] /\ \A k \in 1..b : inbuf[c][k] = g + k
    BY Zenon DEF FlowOf
  <2>b. b \in Nat
    BY <1>2, Zenon
  <2> HIDE DEF b, g
  <2>4. g + (b + 1) = nput[c] + 1 /\ \A k \in 1..(b + 1) : inbuf'[c][k] = g + k
    <3>1. g + (b + 1) = nput[c] + 1
      BY <1>2, <1>4, <2>b, <2>3
    <3>2. ASSUME NEW k \in 1..(b + 1) PROVE inbuf'[c][k] = g + k
      <4>1. CASE k \in 1..b
        BY <2>2, <2>3, <4>1, Zenon
      <4>2. CASE k = b + 1
        BY <2>2, <3>1, <4>2, Zenon
      <4>3. QED
        BY <2>b, <4>1, <4>2
    <3>3. QED
      BY <3>1, <3>2, Zenon
  <2>5. /\ \A k \in 1..Len(got[c]) : got[c][k] = k
        /\ Held(c) = 1 => Head(held).n = Len(got[c]) + 1
    BY Zenon DEF FlowOf
  <2>6. QED
    BY <1>1, <2>1, <2>2, <2>4, <2>5, Zenon DEF FlowOf, g
<1>7. \A e \in Chans \ {c} : FlowOf(e)'
  BY <1>1, <1>3 DEF FlowOf, FlowTypeOK
<1>8. QED
  BY <1>5, <1>6, <1>7, Zenon

(* A collector that runs once is started with its only sample sent. *)
LEMMA StartOnceKeeps ==
  ASSUME FlowInv, ManagerInv, NEW k \in Names, NEW v \in Versions, StartOnce(k, v)
  PROVE  FlowInv'
<1> USE DEF FlowInv
<1> PICK i \in Chans : i = Len(coll) + 1
  BY PerfAssumption DEF StartOnce, Starts, ManagerInv, CollTypeOK
<1>1. /\ UNCHANGED <<merger, held, got>>
      /\ \/ UNCHANGED <<inbuf, nput>>
         \/ inbuf' = [inbuf EXCEPT ![i] = <<1>>] /\ nput' = [nput EXCEPT ![i] = 1]
  BY Zenon DEF StartOnce, mergerVars
<1>2. Len(coll) \in Nat /\ Len(coll') = Len(coll) + 1
  <2>1. Len(CancelOf(k)) = Len(coll) /\ CancelOf(k) \in Seq(CollectorSet)
    BY CancelOfOnly, Zenon DEF ManagerInv
  <2>2. QED
    BY <2>1 DEF StartOnce, Starts
<1>3. \A e \in Chans : Held(e)' = Held(e) /\ Held(e) \in {0, 1}
  BY <1>1, Zenon DEF Held
<1>4. \A e \in Chans : e \in Nat
  BY PerfAssumption
<1>5. nput[i] = 0
  BY <1>2, <1>4 DEF Unstarted
<1>6. FlowTypeOK' /\ Unstarted'
  <2>1. <<1>> \in Seq(Nat)
    OBVIOUS
  <2>2. inbuf' \in [Chans -> Seq(Nat)] /\ nput' \in [Chans -> Nat]
    <3>1. CASE UNCHANGED <<inbuf, nput>>
      BY <3>1, Zenon DEF FlowTypeOK
    <3>2. CASE inbuf' = [inbuf EXCEPT ![i] = <<1>>] /\ nput' = [nput EXCEPT ![i] = 1]
      BY <2>1, <3>2, Zenon DEF FlowTypeOK
    <3>3. QED
      BY <1>1, <3>1, <3>2, Zenon
  <2>3. FlowTypeOK'
    BY <1>1, <2>2, Zenon DEF FlowTypeOK
  <2>4. Unstarted'
    BY <1>1, <1>2, <1>4 DEF FlowTypeOK, Unstarted
  <2>5. QED
    BY <2>3, <2>4, Zenon
<1>7. \A e \in Chans \ {i} : FlowOf(e)'
  BY <1>1, <1>3, SMTT(30) DEF FlowOf, FlowTypeOK
<1>8. Len(got[i]) = 0 /\ Held(i) = 0 /\ Len(inbuf[i]) = 0
  <2>1. Len(got[i]) \in Nat /\ Len(inbuf[i]) \in Nat /\ Len(got[i]) + Held(i) + Len(inbuf[i]) = 0
    BY <1>5 DEF FlowOf, FlowTypeOK
  <2>2. QED
    BY <1>3, <2>1
<1>9. FlowOf(i)'
  <2>1. CASE UNCHANGED <<inbuf, nput>>
    BY <1>1, <1>3, <2>1 DEF FlowOf
  <2>2. CASE inbuf' = [inbuf EXCEPT ![i] = <<1>>] /\ nput' = [nput EXCEPT ![i] = 1]
    <3>1. inbuf'[i] = <<1>> /\ nput'[i] = 1 /\ got'[i] = got[i] /\ Held(i)' = 0
      BY <1>1, <1>3, <1>8, <2>2, Zenon DEF FlowTypeOK
    <3>2. QED
      BY <1>8, <3>1 DEF FlowOf
  <2>3. QED
    BY <1>1, <2>1, <2>2, Zenon
<1>10. QED
  BY <1>6, <1>7, <1>9, Zenon

(* Steps that leave samples alone. *)
LEMMA FlowUnchanged ==
  ASSUME FlowInv, UNCHANGED <<inbuf, nput, got, merger, held>>, Len(coll') \in Nat, Len(coll) \in Nat,
         Len(coll) <= Len(coll')
  PROVE  FlowInv'
<1> USE DEF FlowInv
<1>1. FlowTypeOK'
  BY Zenon DEF FlowTypeOK
<1>2. \A c \in Chans : FlowOf(c)'
  BY Zenon DEF FlowOf, Held
<1>3. Unstarted'
  BY PerfAssumption DEF Unstarted
<1>4. QED
  BY <1>1, <1>2, <1>3, Zenon

(* Every step keeps the order. *)
LEMMA NextFlowInv == ManagerInv /\ ManagerInv' /\ FlowInv /\ [Next]_vars => FlowInv'
<1> SUFFICES ASSUME ManagerInv, ManagerInv', FlowInv, [Next]_vars PROVE FlowInv'
  BY Zenon
<1>1. coll \in Seq(CollectorSet) /\ coll' \in Seq(CollectorSet) /\ Len(coll) \in Nat /\ Len(coll') \in Nat
  BY DEF ManagerInv, CollTypeOK
<1>2. CASE CtxCancel \/ EventCollectorStops \/ StartReturns \/ UNCHANGED vars
  BY <1>1, <1>2, FlowUnchanged
     DEF CtxCancel, EventCollectorStops, StartReturns, CloseMerger, vars, manVars, chanVars, inVars, mergerVars
<1>3. ASSUME NEW k \in Names, HandleExpiredConfig(k) \/ \E v \in Versions : StartFails(k, v)
      PROVE  FlowInv'
  <2>1. Len(coll') = Len(coll)
    BY <1>3, CancelOfOnly DEF HandleExpiredConfig, StartFails, ManagerInv
  <2>2. UNCHANGED <<inbuf, nput, got, merger, held>>
    BY <1>3, Zenon DEF HandleExpiredConfig, StartFails, chanVars, inVars, mergerVars
  <2>3. QED
    BY <1>1, <2>1, <2>2, FlowUnchanged
<1>4. ASSUME NEW k \in Names, NEW v \in Versions, StartContinuous(k, v)
      PROVE  FlowInv'
  <2>1. Len(CancelOf(k)) = Len(coll) /\ CancelOf(k) \in Seq(CollectorSet)
    BY CancelOfOnly, Zenon DEF ManagerInv
  <2>2. Len(coll') = Len(coll) + 1
    BY <1>4, <2>1 DEF StartContinuous, Starts
  <2>3. UNCHANGED <<inbuf, nput, got, merger, held>>
    BY <1>4, Zenon DEF StartContinuous, inVars, mergerVars
  <2>4. QED
    BY <1>1, <2>2, <2>3, FlowUnchanged
<1>5. ASSUME NEW k \in Names, NEW v \in Versions, StartOnce(k, v)
      PROVE  FlowInv'
  BY <1>5, StartOnceKeeps, Zenon
<1>6. CASE ManagerNext
  <2>1. Len(coll') = Len(coll)
    BY <1>1, <1>6 DEF ManagerNext, CollectorAdded, StopAllCollectors
  <2>2. UNCHANGED <<inbuf, nput, got, merger, held>>
    BY <1>6, Zenon DEF ManagerNext, CollectorAdded, StopAllCollectors, MergerAdds, chanVars, inVars, mergerVars
  <2>3. QED
    BY <1>1, <2>1, <2>2, FlowUnchanged
<1>7. CASE Publish
  BY <1>7, ReceiveKeeps, Zenon DEF Publish, manVars
<1>8. CASE MergerStep
  <2>1. UNCHANGED coll
    BY <1>8, Zenon DEF MergerStep, manVars
  <2>2. ASSUME NEW c \in Chans, MergerTake(c) PROVE FlowInv'
    BY <2>1, <2>2, TakeKeeps, Zenon
  <2>3. CASE MergerReturns \/ \E c \in Chans : MergerDrops(c)
    <3>1. UNCHANGED <<inbuf, nput, got, held>> /\ merger = "select" /\ merger' \in {"select", "done"}
      BY <2>3, Zenon DEF MergerReturns, MergerDrops, inVars
    <3>2. \A c \in Chans : Held(c)' = Held(c)
      BY <3>1, Zenon DEF Held
    <3>3. \A c \in Chans : FlowOf(c)'
      BY <3>1, <3>2, Zenon DEF FlowInv, FlowOf
    <3>4. QED
      BY <2>1, <3>1, <3>3, Zenon DEF FlowInv, FlowTypeOK, Unstarted
  <2>4. QED
    BY <1>8, <2>2, <2>3, Zenon DEF MergerStep
<1>9. ASSUME NEW i \in DOMAIN coll, Collect(i) \/ SendSample(i) \/ CollectorStops(i)
      PROVE  FlowInv'
  <2>1. i \in 1..Len(coll) /\ i \in Chans /\ i <= Len(coll)
    BY <1>1, PerfAssumption DEF ManagerInv, CollTypeOK
  <2>2. Len(coll') = Len(coll)
    BY <1>1, <1>9 DEF Collect, SendSample, CollectorStops
  <2>3. CASE SendSample(i)
    BY <2>1, <2>2, <2>3, PutKeeps, Zenon DEF SendSample
  <2>4. CASE Collect(i) \/ CollectorStops(i)
    BY <1>1, <2>2, <2>4, FlowUnchanged
       DEF Collect, CollectorStops, CloseInput, chanVars, inVars, mergerVars
  <2>5. QED
    BY <1>9, <2>3, <2>4, Zenon
<1>10. QED
  BY <1>2, <1>3, <1>4, <1>5, <1>6, <1>7, <1>8, <1>9, Zenon DEF Next

(* "Message delivery order is guaranteed within a single input channel"    *)
(* (merger.go:14): for any number of collectors and samples, what is       *)
(* published of a collector is the beginning of what it sent.              *)
THEOREM OrderKept == Spec => []PublishedInOrder
<1>1. Init => FlowInv
  BY DEF Init, MergerInit, FlowInv, FlowTypeOK, FlowOf, Held, Unstarted
<1>2. FlowInv => PublishedInOrder
  <2> SUFFICES ASSUME FlowInv, NEW c \in Chans
               PROVE  Len(got[c]) <= nput[c] /\ \A k \in 1..Len(got[c]) : got[c][k] = k
    BY Zenon DEF PublishedInOrder
  <2>1. FlowOf(c) /\ Len(got[c]) \in Nat /\ Len(inbuf[c]) \in Nat /\ Held(c) \in {0, 1}
    BY DEF FlowInv, FlowTypeOK, Held
  <2>2. QED
    BY <2>1 DEF FlowOf
<1>3. QED
  BY <1>1, <1>2, InitManagerInv, NextManagerInv, NextFlowInv, PTL DEF Spec

=============================================================================
