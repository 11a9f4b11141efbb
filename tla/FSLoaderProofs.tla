-------------------------- MODULE FSLoaderProofs --------------------------
(***************************************************************************)
(* Proofs about the loader of configuration files, for any files, keys,    *)
(* contents, watchers and capacities, and any number of changes.           *)
(***************************************************************************)
EXTENDS FSLoader, TLAPS

Notification == [file : Files, op : {"write", "remove", "rename"}]

(* TypeOK, what there is to send once a file is loaded, and that each file *)
(* holds its own contents.                                                 *)
TypeInv ==
  /\ TypeOK
  /\ pc \in {"loaded", "send"} => instance \in InstanceRecord
  /\ \A f \in Files : disk[f] \in Contents[f] \cup {Absent}

-----------------------------------------------------------------------------
(* The notifications that wait to be handled. *)

(* A notification in q is about f. *)
About(q, f) == \E i \in 1..Len(q) : q[i].file = f

(* The last notification in q about f says op. *)
LastSays(q, f, op) ==
  \E i \in 1..Len(q) : q[i].file = f /\ q[i].op = op /\ \A j \in (i + 1)..Len(q) : q[j].file # f

(* A new notification about f is the last one, and leaves those about      *)
(* others alone.                                                           *)
LEMMA NotifyFacts ==
  ASSUME NEW q \in Seq(Notification), NEW e \in Notification, NEW f, NEW op
  PROVE  /\ e.file = f => LastSays(Append(q, e), f, e.op)
         /\ e.file # f => /\ About(Append(q, e), f) <=> About(q, f)
                          /\ LastSays(q, f, op) => LastSays(Append(q, e), f, op)
<1>1. /\ Len(q) \in Nat /\ Len(Append(q, e)) = Len(q) + 1
      /\ Append(q, e)[Len(q) + 1] = e
      /\ \A i \in 1..Len(q) : Append(q, e)[i] = q[i]
  OBVIOUS
<1>2. PICK p : p = Append(q, e)
  BY Zenon
<1>3. ASSUME e.file = f PROVE LastSays(p, f, e.op)
  <2>1. Len(q) + 1 \in 1..Len(p) /\ ~ \E j : j \in (Len(q) + 1 + 1)..Len(p)
    BY <1>1, <1>2
  <2>2. QED
    BY <1>1, <1>2, <1>3, <2>1, Zenon DEF LastSays
<1>4. ASSUME e.file # f PROVE About(p, f) <=> About(q, f)
  <2>1. \A i \in 1..Len(p) : i \in 1..Len(q) \/ i = Len(q) + 1
    BY <1>1, <1>2
  <2>2. \A i \in 1..Len(q) : i \in 1..Len(p)
    BY <1>1, <1>2
  <2>3. QED
    BY <1>1, <1>2, <1>4, <2>1, <2>2, Zenon DEF About
<1>5. ASSUME e.file # f, LastSays(q, f, op) PROVE LastSays(p, f, op)
  <2>1. PICK i \in 1..Len(q) : q[i].file = f /\ q[i].op = op /\ \A j \in (i + 1)..Len(q) : q[j].file # f
    BY <1>5, Zenon DEF LastSays
  <2>2. i \in 1..Len(p) /\ \A j \in (i + 1)..Len(p) : j = Len(q) + 1 \/ (j \in (i + 1)..Len(q) /\ j \in 1..Len(q))
    BY <1>1, <1>2
  <2>3. \A j \in (i + 1)..Len(p) : p[j].file # f
    BY <1>1, <1>2, <1>5, <2>1, <2>2, Zenon
  <2>4. QED
    BY <1>1, <1>2, <2>1, <2>2, <2>3, Zenon DEF LastSays
<1>6. QED
  BY <1>2, <1>3, <1>4, <1>5, Zenon

(* The first notification is handled. *)
LEMMA HandleFacts ==
  ASSUME NEW q \in Seq(Notification), q # <<>>, NEW f, NEW op
  PROVE  /\ Head(q) \in Notification /\ Tail(q) \in Seq(Notification)
         /\ About(Tail(q), f) => About(q, f)
         /\ LastSays(q, f, op) =>
              \/ LastSays(Tail(q), f, op)
              \/ Head(q).file = f /\ Head(q).op = op /\ ~About(Tail(q), f)
<1>1. /\ Len(q) \in Nat \ {0} /\ Len(Tail(q)) = Len(q) - 1 /\ Head(q) = q[1]
      /\ \A i \in 1..(Len(q) - 1) : Tail(q)[i] = q[i + 1]
      /\ Head(q) \in Notification /\ Tail(q) \in Seq(Notification)
  OBVIOUS
<1>2. PICK t : t = Tail(q)
  BY Zenon
<1>3. \A i \in 1..Len(t) : i + 1 \in 1..Len(q) /\ t[i] = q[i + 1]
  BY <1>1, <1>2
<1>4. About(t, f) => About(q, f)
  BY <1>3, Zenon DEF About
<1>5. ASSUME LastSays(q, f, op)
      PROVE  LastSays(t, f, op) \/ (Head(q).file = f /\ Head(q).op = op /\ ~About(t, f))
  <2>1. PICK i \in 1..Len(q) : q[i].file = f /\ q[i].op = op /\ \A j \in (i + 1)..Len(q) : q[j].file # f
    BY <1>5, Zenon DEF LastSays
  <2>2. CASE i = 1
    <3>1. \A j \in 1..Len(t) : j + 1 \in (i + 1)..Len(q)
      BY <1>1, <1>2, <2>2
    <3>2. ~About(t, f)
      BY <1>3, <2>1, <3>1, Zenon DEF About
    <3>3. QED
      BY <1>1, <2>1, <2>2, <3>2, Zenon
  <2>3. CASE i # 1
    <3>1. /\ i - 1 \in 1..Len(t) /\ (i - 1) + 1 = i
          /\ \A j \in ((i - 1) + 1)..Len(t) : j \in 1..Len(t) /\ j + 1 \in (i + 1)..Len(q)
      BY <1>1, <1>2, <2>3
    <3>2. t[i - 1] = q[i]
      BY <1>3, <3>1, Zenon
    <3>3. \A j \in ((i - 1) + 1)..Len(t) : t[j].file # f
      BY <1>3, <2>1, <3>1, Zenon
    <3>4. LastSays(t, f, op)
      BY <2>1, <3>1, <3>2, <3>3, Zenon DEF LastSays
    <3>5. QED
      BY <3>4, Zenon
  <2>4. QED
    BY <2>2, <2>3, Zenon
<1>6. QED
  BY <1>1, <1>2, <1>4, <1>5, Zenon

-----------------------------------------------------------------------------
(* The state keeps its type. *)

(* A configuration has a key, a version and a validity. *)
LEMMA ConfigFacts ==
  ASSUME NEW c \in Config
  PROVE  /\ c.key \in Keys /\ c.version \in Nat /\ c.valid \in BOOLEAN
         /\ c # Garbage /\ c # Absent /\ c # None
<1>1. PICK f \in Files : c \in Contents[f] /\ c # Garbage
  BY Zenon DEF Config
<1>2. Contents[f] \subseteq [key : Keys, version : Nat, valid : BOOLEAN] \cup {Garbage}
  BY FSAssumption, Zenon
<1>3. c \in [key : Keys, version : Nat, valid : BOOLEAN]
  BY <1>1, <1>2, Zenon
<1>4. c.key \in Keys /\ c.version \in Nat /\ c.valid \in BOOLEAN
  BY <1>3, Zenon
<1>5. QED
  BY <1>3, <1>4, MarkerAssumption, Zenon

(* What a file holds is a configuration, nonsense or nothing. *)
LEMMA DiskFacts ==
  ASSUME TypeInv, NEW f \in Files
  PROVE  IsConfig(disk[f]) => disk[f] \in Config /\ disk[f] \in Contents[f] \ {Garbage}
BY Zenon DEF TypeInv, TypeOK, IsConfig

(* An instance made of a key, a version and two flags is one. *)
LEMMA InstanceFacts ==
  ASSUME NEW k \in Keys \cup {None}, NEW n \in Nat, NEW b \in BOOLEAN, NEW x \in BOOLEAN
  PROVE  Instance(k, n, b, x) \in InstanceRecord
BY Zenon DEF Instance, InstanceRecord

(* loadConfigFile stores the configuration in the file or nothing. *)
LEMMA LoadFacts ==
  ASSUME TypeInv, NEW f \in Files, LoadConfigFile(f)
  PROVE  /\ cache' \in [Keys -> Config \cup {None}] /\ files' \in [Files -> Keys \cup {None}]
         /\ instance' \in InstanceRecord
         /\ \/ UNCHANGED <<cache, files>> /\ ~(IsConfig(disk[f]) /\ disk[f].valid)
            \/ /\ disk[f] \in Config /\ disk[f] \in Contents[f] \ {Garbage}
               /\ cache' = [cache EXCEPT ![disk[f].key] = disk[f]]
               /\ files' = [files EXCEPT ![f] = disk[f].key]
               /\ instance' = Instance(disk[f].key, disk[f].version, disk[f].valid, FALSE)
<1>1. cache \in [Keys -> Config \cup {None}] /\ files \in [Files -> Keys \cup {None}]
  BY Zenon DEF TypeInv, TypeOK
<1>2. Instance(None, 0, FALSE, FALSE) \in InstanceRecord
  BY InstanceFacts, Zenon
<1>3. IsConfig(disk[f]) => /\ disk[f].key \in Keys
                           /\ Instance(disk[f].key, disk[f].version, disk[f].valid, FALSE) \in InstanceRecord
  BY DiskFacts, ConfigFacts, InstanceFacts, Zenon
<1>4. instance' \in InstanceRecord
  BY <1>2, <1>3, Zenon DEF LoadConfigFile
<1>5. CASE IsStored(disk[f])
  <2>1. /\ IsConfig(disk[f])
        /\ cache' = [cache EXCEPT ![disk[f].key] = disk[f]]
        /\ files' = [files EXCEPT ![f] = disk[f].key]
        /\ instance' = Instance(disk[f].key, disk[f].version, disk[f].valid, FALSE)
    BY <1>5, Zenon DEF LoadConfigFile, IsStored
  <2>2. disk[f] \in Config /\ disk[f] \in Contents[f] \ {Garbage} /\ disk[f].key \in Keys
    BY <1>3, <2>1, DiskFacts, Zenon
  <2>3. cache' \in [Keys -> Config \cup {None}] /\ files' \in [Files -> Keys \cup {None}]
    BY <1>1, <2>1, <2>2, Zenon
  <2>4. QED
    BY <1>4, <2>1, <2>2, <2>3, Zenon
<1>6. CASE ~IsStored(disk[f])
  BY <1>1, <1>4, <1>6, Zenon DEF LoadConfigFile, IsStored
<1>7. QED
  BY <1>5, <1>6, Zenon

(* What a file held is dropped. *)
LEMMA RemoveFacts ==
  ASSUME TypeInv, HandleRemove
  PROVE  LET f == Head(events).file
             k == files[f]
         IN  \/ UNCHANGED <<cache, files, instance, pc, locked, todo>> /\ (k = None \/ cache[k] = None)
             \/ /\ k \in Keys /\ cache[k] # None
                /\ cache' = [cache EXCEPT ![k] = None] /\ files' = [files EXCEPT ![f] = None]
                /\ instance' \in InstanceRecord
                /\ pc' = "send" /\ locked' = TRUE /\ todo' = SendTodo
<1>1. PICK f : f = Head(events).file
  BY Zenon
<1>2. PICK k : k = files[f]
  BY Zenon
<1>3. events \in Seq(Notification) /\ events # <<>>
  BY Zenon DEF TypeInv, TypeOK, Notification, HandleRemove, NextEvent
<1>4. f \in Files
  BY <1>1, <1>3, HandleFacts, Zenon DEF Notification
<1>5. k \in Keys \cup {None} /\ (k \in Keys => cache[k] \in Config \cup {None})
  BY <1>2, <1>4, Zenon DEF TypeInv, TypeOK
<1>6. CASE k = None \/ cache[k] = None
  BY <1>1, <1>2, <1>6, Zenon DEF HandleRemove
<1>7. CASE ~(k = None \/ cache[k] = None)
  <2>1. k \in Keys /\ cache[k] \in Config
    BY <1>5, <1>7, Zenon
  <2>2. Instance(k, cache[k].version, cache[k].valid, TRUE) \in InstanceRecord
    BY <2>1, ConfigFacts, InstanceFacts, Zenon
  <2>3. QED
    BY <1>1, <1>2, <1>7, <2>1, <2>2, Zenon DEF HandleRemove
<1>8. QED
  BY <1>6, <1>7, Zenon

(* A send on a channel that has room. *)
LEMMA SendType ==
  ASSUME TypeInv, NEW w \in Watchers, NEW inst \in InstanceRecord, SendOn(w, inst)
  PROVE  /\ queued' \in [Watchers -> 0..ChanCap] /\ left' = left
         /\ sent' \in [Watchers -> SUBSET InstanceRecord]
<1>1. queued \in [Watchers -> 0..ChanCap] /\ sent \in [Watchers -> SUBSET InstanceRecord]
  BY Zenon DEF TypeInv, TypeOK
<1>2. queued' \in [Watchers -> 0..ChanCap]
  BY <1>1, SubscriptionsAssumption DEF SendOn
<1>3. QED
  BY <1>1, <1>2, Zenon DEF SendOn

(* Whoever is to be sent an instance is a watcher. *)
LEMMA TodoType ==
  ASSUME TypeInv
  PROVE  SendTodo \in Seq(Watchers)
<1>1. subs \in Seq(Watchers)
  BY Zenon DEF TypeInv, TypeOK
<1>2. QED
  BY <1>1 DEF SendTodo

(* The loader starts with its types. *)
LEMMA InitTypeInv == Init => TypeInv
<1> SUFFICES ASSUME Init PROVE TypeInv
  BY Zenon
<1>1. disk \in [Files -> Config \cup {Garbage, Absent}]
  BY Zenon DEF Init, Config
<1>2. events \in Seq(Notification) /\ todo \in Seq(Watchers) /\ subs \in Seq(Watchers)
  BY DEF Init, SubsInit
<1>3. nops \in 0..MaxOps /\ queued \in [Watchers -> 0..ChanCap]
  BY FSAssumption, SubscriptionsAssumption DEF Init, SubsInit
<1>4. QED
  BY <1>1, <1>2, <1>3, Zenon DEF Init, SubsInit, TypeInv, TypeOK, Notification

(* The directory changes. *)
LEMMA ChangeType ==
  ASSUME TypeInv, NEW f \in Files, WriteFile(f) \/ RemoveFile(f) \/ RenameFile(f)
  PROVE  TypeInv'
<1>1. PICK c \in Contents[f] \cup {Absent}, op \in {"write", "remove", "rename"} : Change(f, c, op)
  BY Zenon DEF WriteFile, RemoveFile, RenameFile
<1>2. renamed' \subseteq Files
  BY Zenon DEF WriteFile, RemoveFile, RenameFile, TypeInv, TypeOK
<1>3. nops' \in 0..MaxOps
  BY <1>1, FSAssumption DEF Change, TypeInv, TypeOK
<1>4. [file |-> f, op |-> op] \in Notification
  BY Zenon DEF Notification
<1>5. events \in Seq(Notification)
  BY Zenon DEF TypeInv, TypeOK, Notification
<1>6. events' \in Seq(Notification)
  <2>1. Append(events, [file |-> f, op |-> op]) \in Seq(Notification)
    BY <1>4, <1>5
  <2>2. QED
    BY <1>1, <2>1, Zenon DEF Change
<1>7. c \in Config \cup {Garbage, Absent}
  BY Zenon DEF Config
<1>8. /\ disk' \in [Files -> Config \cup {Garbage, Absent}]
      /\ \A g \in Files : disk'[g] \in Contents[g] \cup {Absent}
  BY <1>1, <1>7, Zenon DEF Change, TypeInv, TypeOK
<1>9. UNCHANGED <<loadVars, watchVars, chanVars, closeVars>>
  BY <1>1, Zenon DEF Change
<1>10. QED
  BY <1>2, <1>3, <1>6, <1>8, <1>9, Zenon
     DEF TypeInv, TypeOK, Notification, loadVars, watchVars, chanVars, closeVars

(* The loader's goroutine takes a step. *)
LEMMA LoaderType == ASSUME TypeInv, LoaderNext PROVE TypeInv'
<1>1. ASSUME NEW f \in Files, ScanFile(f) PROVE TypeInv'
  <2>1. /\ cache' \in [Keys -> Config \cup {None}] /\ files' \in [Files -> Keys \cup {None}]
        /\ instance' \in InstanceRecord
    BY <1>1, LoadFacts, Zenon DEF ScanFile
  <2>2. QED
    BY <1>1, <2>1, Zenon DEF ScanFile, TypeInv, TypeOK, diskVars, watchVars, chanVars, closeVars
<1>2. ASSUME NEW op, NextEvent(op)
      PROVE  /\ events \in Seq(Notification) /\ events # <<>> /\ events' \in Seq(Notification)
             /\ Head(events).file \in Files
  <2>1. events \in Seq(Notification) /\ events # <<>> /\ events' = Tail(events)
    BY <1>2, Zenon DEF NextEvent, TypeInv, TypeOK, Notification
  <2>2. QED
    BY <2>1, HandleFacts, Zenon DEF Notification
<1>3. CASE HandleWrite
  <2>1. events' \in Seq(Notification) /\ Head(events).file \in Files
    BY <1>2, <1>3, Zenon DEF HandleWrite
  <2>2. /\ cache' \in [Keys -> Config \cup {None}] /\ files' \in [Files -> Keys \cup {None}]
        /\ instance' \in InstanceRecord
    BY <1>3, <2>1, LoadFacts, Zenon DEF HandleWrite
  <2>3. QED
    BY <1>3, <2>1, <2>2, Zenon
       DEF HandleWrite, NextEvent, TypeInv, TypeOK, Notification, watchVars, chanVars, closeVars
<1>4. CASE HandleRemove
  <2>1. events' \in Seq(Notification) /\ Head(events).file \in Files
    BY <1>2, <1>4, Zenon DEF HandleRemove
  <2>2. /\ cache \in [Keys -> Config \cup {None}] /\ files \in [Files -> Keys \cup {None}]
        /\ SendTodo \in Seq(Watchers)
    BY TodoType, Zenon DEF TypeInv, TypeOK
  <2>3. NextEvent("remove")
    BY <1>4, Zenon DEF HandleRemove
  <2>4. CASE UNCHANGED <<cache, files, instance, pc, locked, todo>>
    BY <2>1, <2>3, <2>4, Zenon DEF NextEvent, TypeInv, TypeOK, Notification, watchVars, chanVars, closeVars
  <2>5. ASSUME NEW f \in Files, NEW k \in Keys, cache' = [cache EXCEPT ![k] = None],
               files' = [files EXCEPT ![f] = None], instance' \in InstanceRecord, pc' = "send", locked' = TRUE,
               todo' = SendTodo
        PROVE  TypeInv'
    <3>1. cache' \in [Keys -> Config \cup {None}] /\ files' \in [Files -> Keys \cup {None}]
      BY <2>2, <2>5, Zenon
    <3>2. QED
      BY <2>1, <2>2, <2>3, <2>5, <3>1, Zenon
         DEF NextEvent, TypeInv, TypeOK, Notification, watchVars, chanVars, closeVars
  <2>6. QED
    BY <1>4, <2>1, <2>4, <2>5, RemoveFacts, Zenon
<1>5. CASE HandleRename
  <2>1. events' \in Seq(Notification)
    BY <1>2, <1>5, Zenon DEF HandleRename
  <2>2. QED
    BY <1>5, <2>1, Zenon
       DEF HandleRename, NextEvent, TypeInv, TypeOK, Notification, watchVars, chanVars, closeVars
<1>6. CASE SendBegins
  <2>1. SendTodo \in Seq(Watchers)
    BY TodoType, Zenon
  <2>2. QED
    BY <1>6, <2>1, Zenon DEF SendBegins, TypeInv, TypeOK, diskVars, watchVars, chanVars, closeVars
<1>7. CASE Send
  <2>1. todo \in Seq(Watchers) /\ todo # <<>> /\ instance \in InstanceRecord
    BY <1>7, Zenon DEF Send, TypeInv, TypeOK
  <2>2. Head(todo) \in Watchers /\ Tail(todo) \in Seq(Watchers)
    BY <2>1
  <2>3. /\ queued' \in [Watchers -> 0..ChanCap] /\ left' = left
        /\ sent' \in [Watchers -> SUBSET InstanceRecord]
    BY <1>7, <2>1, <2>2, SendType, Zenon DEF Send, SendTo, chanVars, TypeInv, TypeOK
  <2>4. QED
    BY <1>7, <2>2, <2>3, Zenon DEF Send, TypeInv, TypeOK, diskVars, watchVars, closeVars
<1>8. CASE ScanEnds
  BY <1>8, Zenon DEF ScanEnds, TypeInv, TypeOK, diskVars, watchVars, chanVars, closeVars
<1>9. CASE SendEnds
  BY <1>9, Zenon DEF SendEnds, TypeInv, TypeOK, diskVars, watchVars, chanVars, closeVars
<1>10. CASE Stop
  BY <1>10, Zenon DEF Stop, TypeInv, TypeOK, diskVars, watchVars, chanVars, closeVars
<1>11. QED
  BY <1>1, <1>3, <1>4, <1>5, <1>6, <1>7, <1>8, <1>9, <1>10, Zenon DEF LoaderNext

(* A call of Watch takes a step. *)
LEMMA WatchType ==
  ASSUME TypeInv, NEW w \in Watchers, WatchAdd(w) \/ WatchNext(w) \/ WatchReceive(w) \/ WatchLeave(w)
  PROVE  TypeInv'
<1>1. CASE WatchAdd(w)
  <2>1. subs \in Seq(Watchers)
    BY Zenon DEF TypeInv, TypeOK
  <2>2. Append(subs, w) \in Seq(Watchers)
    BY <2>1
  <2>3. QED
    BY <1>1, <2>2, Zenon DEF WatchAdd, TypeInv, TypeOK, diskVars, loadVars, chanVars, closeVars
<1>2. CASE WatchStart(w)
  BY <1>2, Zenon DEF WatchStart, TypeInv, TypeOK, diskVars, loadVars, chanVars, closeVars
<1>3. CASE WatchList(w)
  <2>1. ASSUME NEW k \in Keys, cache[k] # None PROVE Cached(k) \in InstanceRecord
    <3>1. cache[k] \in Config
      BY <2>1, Zenon DEF TypeInv, TypeOK
    <3>2. QED
      BY <3>1, ConfigFacts, InstanceFacts, Zenon DEF Cached
  <2>2. ListConfigs(Filter[w]) \subseteq InstanceRecord
    BY <2>1, Zenon DEF ListConfigs
  <2>3. QED
    BY <1>3, <2>2, Zenon DEF WatchList, TypeInv, TypeOK, diskVars, loadVars, chanVars, closeVars
<1>4. CASE WatchSend(w)
  <2>1. PICK inst \in pending[w] :
          IF subsClosed
          THEN panicked' = TRUE /\ UNCHANGED <<chanVars, pending>>
          ELSE /\ SendOn(w, inst)
               /\ pending' = [pending EXCEPT ![w] = @ \ {inst}]
               /\ panicked' = panicked
    BY <1>4, Zenon DEF WatchSend
  <2>2. inst \in InstanceRecord /\ pending \in [Watchers -> SUBSET InstanceRecord]
    BY Zenon DEF TypeInv, TypeOK
  <2>3. CASE subsClosed
    <3>1. panicked' = TRUE /\ UNCHANGED <<chanVars, pending>>
      BY <2>1, <2>3, Zenon
    <3>2. QED
      BY <1>4, <3>1, Zenon DEF WatchSend, TypeInv, TypeOK, diskVars, loadVars, chanVars
  <2>4. CASE ~subsClosed
    <3>1. SendOn(w, inst) /\ pending' = [pending EXCEPT ![w] = @ \ {inst}] /\ panicked' = panicked
      BY <2>1, <2>4, Zenon
    <3>2. /\ queued' \in [Watchers -> 0..ChanCap] /\ left' = left
          /\ sent' \in [Watchers -> SUBSET InstanceRecord]
      BY <2>2, <3>1, SendType, Zenon
    <3>3. pending' \in [Watchers -> SUBSET InstanceRecord]
      BY <2>2, <3>1, Zenon
    <3>4. QED
      BY <1>4, <3>1, <3>2, <3>3, Zenon DEF WatchSend, TypeInv, TypeOK, diskVars, loadVars
  <2>5. QED
    BY <2>3, <2>4, Zenon
<1>5. CASE WatchReceive(w)
  <2>1. queued \in [Watchers -> 0..ChanCap]
    BY Zenon DEF TypeInv, TypeOK
  <2>2. queued' \in [Watchers -> 0..ChanCap]
    BY <1>5, <2>1, SubscriptionsAssumption DEF WatchReceive, Receive
  <2>3. QED
    BY <1>5, <2>2, Zenon DEF WatchReceive, TypeInv, TypeOK, diskVars, loadVars, watchVars, closeVars
<1>6. CASE WatchDone(w)
  BY <1>6, Zenon DEF WatchDone, TypeInv, TypeOK, diskVars, loadVars, chanVars, closeVars
<1>7. CASE WatchLeave(w)
  <2>1. left' \subseteq Watchers
    BY <1>7, Zenon DEF WatchLeave, Leave, TypeInv, TypeOK
  <2>2. QED
    BY <1>7, <2>1, Zenon DEF WatchLeave, TypeInv, TypeOK, diskVars, loadVars, watchVars, closeVars
<1>8. QED
  BY <1>1, <1>2, <1>3, <1>4, <1>5, <1>6, <1>7, Zenon DEF WatchNext

(* Every step keeps the types. *)
LEMMA NextTypeInv == TypeInv /\ [Next]_vars => TypeInv'
<1> SUFFICES ASSUME TypeInv, [Next]_vars PROVE TypeInv'
  BY Zenon
<1>1. ASSUME UNCHANGED <<diskVars, loadVars, watchVars, chanVars>>,
             closing' \in {"wait", "waited", "closed"} \/ closing' = closing,
             subsClosed' = TRUE \/ subsClosed' = subsClosed, panicked' = TRUE \/ panicked' = panicked
      PROVE  TypeInv'
  BY <1>1, Zenon DEF TypeInv, TypeOK, diskVars, loadVars, watchVars, chanVars
<1>2. CASE UNCHANGED vars
  BY <1>2, Zenon DEF vars, TypeInv, TypeOK, diskVars, loadVars, watchVars, chanVars, closeVars
<1>3. QED
  BY <1>1, <1>2, ChangeType, LoaderType, WatchType, Zenon
     DEF Next, Close, CloseNext, CloseWait, CloseSubs, CloseAgain

(* The variables of the loader in fs.go keep their types, the lock is held *)
(* only while a deletion is sent, and no channel holds more than its       *)
(* capacity.                                                               *)
THEOREM Types == Spec => []TypeOK
<1>1. TypeInv => TypeOK
  BY Zenon DEF TypeInv
<1>2. QED
  BY <1>1, InitTypeInv, NextTypeInv, PTL DEF Spec

-----------------------------------------------------------------------------
(* The cache follows the files. *)

KeysOf(f) == {c.key : c \in Contents[f] \ {Garbage}}

(* Files keep to a key of their own. *)
OwnKeys == \A f, g \in Files : \A k \in KeysOf(f), l \in KeysOf(g) : k = l <=> f = g

(* The scan is over before notifications are handled. *)
ScanFirst == pc # "scan" => toLoad = {}

(* What the cache holds under the key of a file came from the file, and    *)
(* the loader knows it did.                                                *)
Attributed ==
  /\ \A f \in Files : files[f] # None => files[f] \in KeysOf(f)
  /\ \A f \in Files : \A k \in KeysOf(f) : cache[k] # None => files[f] = k

(* A valid configuration on disk is cached, or will be.                    *)
WrittenCached ==
  \A f \in Files : IsConfig(disk[f]) /\ disk[f].valid =>
    \/ LastSays(events, f, "write")
    \/ ~About(events, f) /\ (f \in toLoad \/ cache[disk[f].key] = disk[f])

(* What a removed file held is dropped, or will be.                        *)
RemovedDropped ==
  \A f \in Files : disk[f] = Absent /\ f \notin renamed =>
    \/ LastSays(events, f, "remove")
    \/ ~About(events, f) /\ \A k \in KeysOf(f) : cache[k] = None

CacheInv == ScanFirst /\ Attributed /\ WrittenCached /\ RemovedDropped

(* What a file holds has one of its keys. *)
LEMMA OwnKey ==
  ASSUME TypeInv, NEW f \in Files, IsConfig(disk[f])
  PROVE  disk[f].key \in KeysOf(f) /\ disk[f].key \in Keys /\ disk[f] # None
BY DiskFacts, ConfigFacts, Zenon DEF KeysOf

(* The keys of a file are keys of the cache. *)
LEMMA KeysAreKeys ==
  ASSUME NEW f \in Files, NEW k \in KeysOf(f)
  PROVE  k \in Keys
<1>1. PICK c \in Contents[f] \ {Garbage} : k = c.key
  BY Zenon DEF KeysOf
<1>2. c \in Config
  BY Zenon DEF Config
<1>3. QED
  BY <1>1, <1>2, ConfigFacts, Zenon

(* A file has one key, and no other file has it. *)
LEMMA OneKey ==
  ASSUME OwnKeys, NEW f \in Files, NEW k \in KeysOf(f), NEW l \in KeysOf(f)
  PROVE  k = l
BY SMT DEF OwnKeys

(* Two files have no key in common. *)
LEMMA OtherKey ==
  ASSUME OwnKeys, NEW f \in Files, NEW k \in KeysOf(f), NEW g \in Files, NEW l \in KeysOf(g), f # g
  PROVE  k # l
BY SMT DEF OwnKeys

(* Before the scan every file that is there is still to be loaded. *)
LEMMA InitCacheInv == Init => CacheInv
<1> SUFFICES ASSUME Init PROVE CacheInv
  BY Zenon
<1>1. /\ events = <<>> /\ pc = "scan" /\ toLoad = {f \in Files : disk[f] # Absent}
      /\ cache = [k \in Keys |-> None] /\ files = [f \in Files |-> None]
  BY Zenon DEF Init
<1>2. \A f \in Files : ~About(events, f)
  BY <1>1 DEF About
<1>3. \A f \in Files : \A k \in KeysOf(f) : cache[k] = None
  BY <1>1, KeysAreKeys, Zenon
<1>4. \A f \in Files : IsConfig(disk[f]) => f \in toLoad
  BY <1>1, Zenon DEF IsConfig
<1>5. QED
  BY <1>1, <1>2, <1>3, <1>4, Zenon DEF CacheInv, ScanFirst, Attributed, WrittenCached, RemovedDropped

(* A change of the directory is notified. *)
LEMMA ChangeCacheInv ==
  ASSUME TypeInv, CacheInv, NEW f \in Files, WriteFile(f) \/ RemoveFile(f) \/ RenameFile(f)
  PROVE  CacheInv'
<1>1. PICK c \in Contents[f] \cup {Absent}, op \in {"write", "remove", "rename"} :
        /\ Change(f, c, op)
        /\ \/ op = "write" /\ c \in Contents[f] /\ renamed' = renamed \ {f}
           \/ op = "remove" /\ c = Absent /\ renamed' = renamed
           \/ op = "rename" /\ c = Absent /\ renamed' = renamed \cup {f}
  BY Zenon DEF WriteFile, RemoveFile, RenameFile
<1>2. PICK e : e = [file |-> f, op |-> op]
  BY Zenon
<1>3. e \in Notification /\ e.file = f /\ e.op = op /\ events \in Seq(Notification)
  BY <1>2, Zenon DEF Notification, TypeInv, TypeOK
<1>4. /\ events' = Append(events, e) /\ disk' = [disk EXCEPT ![f] = c]
      /\ UNCHANGED <<pc, toLoad, cache, files>>
  BY <1>1, <1>2, Zenon DEF Change, loadVars
<1>5. disk \in [Files -> Config \cup {Garbage, Absent}]
  BY Zenon DEF TypeInv, TypeOK
<1>6. LastSays(events', f, op)
  BY <1>3, <1>4, NotifyFacts, Zenon
<1>7. ASSUME NEW g \in Files, g # f, NEW o
      PROVE  (About(events', g) <=> About(events, g)) /\ (LastSays(events, g, o) => LastSays(events', g, o))
  BY <1>3, <1>4, <1>7, NotifyFacts, Zenon
<1>8. ASSUME NEW g \in Files, g # f PROVE disk'[g] = disk[g] /\ (g \in renamed' <=> g \in renamed)
  BY <1>1, <1>4, <1>5, <1>8, Zenon
<1>9. disk'[f] = c
  BY <1>4, <1>5, Zenon
<1>10. WrittenCached'
  <2>1. ASSUME NEW g \in Files, IsConfig(disk'[g]), disk'[g].valid
        PROVE  LastSays(events', g, "write") \/ (~About(events', g) /\ (g \in toLoad' \/ cache'[disk'[g].key] = disk'[g]))
    <3>1. CASE g = f
      BY <1>1, <1>6, <1>9, <2>1, <3>1, Zenon DEF IsConfig
    <3>2. CASE g # f
      BY <1>4, <1>7, <1>8, <2>1, <3>2, Zenon DEF CacheInv, WrittenCached
    <3>3. QED
      BY <3>1, <3>2, Zenon
  <2>2. QED
    BY <2>1, Zenon DEF WrittenCached, IsConfig
<1>11. RemovedDropped'
  <2>1. ASSUME NEW g \in Files, disk'[g] = Absent, g \notin renamed'
        PROVE  LastSays(events', g, "remove") \/ (~About(events', g) /\ \A k \in KeysOf(g) : cache'[k] = None)
    <3>1. CASE g = f
      <4>1. Absent \notin Contents[f]
        BY FSAssumption, MarkerAssumption, Zenon
      <4>2. QED
        BY <1>1, <1>6, <1>9, <2>1, <3>1, <4>1, Zenon
    <3>2. CASE g # f
      BY <1>4, <1>7, <1>8, <2>1, <3>2, Zenon DEF CacheInv, RemovedDropped
    <3>3. QED
      BY <3>1, <3>2, Zenon
  <2>2. QED
    BY <2>1, Zenon DEF RemovedDropped
<1>12. QED
  BY <1>4, <1>10, <1>11, Zenon DEF CacheInv, ScanFirst, Attributed

(* A file is loaded. *)
LEMMA LoadCacheInv ==
  ASSUME OwnKeys, TypeInv, CacheInv, NEW f \in Files, LoadConfigFile(f)
  PROVE  /\ Attributed'
         /\ IsConfig(disk[f]) /\ disk[f].valid => cache'[disk[f].key] = disk[f]
         /\ disk[f] = Absent => UNCHANGED cache
         /\ \A g \in Files : g # f => \A k \in KeysOf(g) : cache'[k] = cache[k]
<1>1. cache \in [Keys -> Config \cup {None}] /\ files \in [Files -> Keys \cup {None}]
  BY Zenon DEF TypeInv, TypeOK
<1>2. CASE UNCHANGED <<cache, files>> /\ ~(IsConfig(disk[f]) /\ disk[f].valid)
  BY <1>2, Zenon DEF CacheInv, Attributed
<1>3. CASE /\ disk[f] \in Config /\ disk[f] \in Contents[f] \ {Garbage}
           /\ cache' = [cache EXCEPT ![disk[f].key] = disk[f]]
           /\ files' = [files EXCEPT ![f] = disk[f].key]
  <2>1. /\ disk[f].key \in KeysOf(f) /\ disk[f].key \in Keys /\ disk[f] # Absent
        /\ disk[f] # None
    BY <1>3, ConfigFacts, Zenon DEF KeysOf
  <2>2. /\ cache'[disk[f].key] = disk[f] /\ files'[f] = disk[f].key
        /\ \A g \in Files : g # f => files'[g] = files[g]
    BY <1>1, <1>3, <2>1, Zenon
  <2>3. ASSUME NEW g \in Files, g # f, NEW k \in KeysOf(g) PROVE cache'[k] = cache[k]
    <3>1. k # disk[f].key /\ k \in Keys
      BY <2>1, <2>3, OtherKey, KeysAreKeys, Zenon
    <3>2. QED
      BY <1>1, <1>3, <2>1, <3>1, Zenon
  <2>4. ASSUME NEW k \in KeysOf(f) PROVE k = disk[f].key
    BY <2>1, OneKey, Zenon
  <2>5. \A g \in Files : files'[g] # None => files'[g] \in KeysOf(g)
    BY <2>1, <2>2, Zenon DEF CacheInv, Attributed
  <2>6. ASSUME NEW g \in Files, NEW k \in KeysOf(g), cache'[k] # None PROVE files'[g] = k
    <3>1. CASE g = f
      BY <2>2, <2>4, <3>1, Zenon
    <3>2. CASE g # f
      BY <2>2, <2>3, <2>6, <3>2, Zenon DEF CacheInv, Attributed
    <3>3. QED
      BY <3>1, <3>2, Zenon
  <2>7. QED
    BY <2>1, <2>2, <2>3, <2>5, <2>6, Zenon DEF Attributed
<1>4. QED
  BY <1>2, <1>3, LoadFacts, Zenon

(* The scan loads a file. *)
LEMMA ScanCacheInv ==
  ASSUME OwnKeys, TypeInv, CacheInv, NEW f \in Files, ScanFile(f)
  PROVE  CacheInv'
<1>1. /\ LoadConfigFile(f) /\ pc = "scan" /\ toLoad' = toLoad \ {f}
      /\ UNCHANGED <<disk, events, renamed, pc>>
  BY Zenon DEF ScanFile, diskVars
<1>2. /\ Attributed'
      /\ IsConfig(disk[f]) /\ disk[f].valid => cache'[disk[f].key] = disk[f]
      /\ disk[f] = Absent => UNCHANGED cache
      /\ \A g \in Files : g # f => \A k \in KeysOf(g) : cache'[k] = cache[k]
  BY <1>1, LoadCacheInv, Zenon
<1>3. WrittenCached'
  <2>1. ASSUME NEW g \in Files, IsConfig(disk[g]), disk[g].valid
        PROVE  LastSays(events, g, "write") \/ (~About(events, g) /\ (g \in toLoad' \/ cache'[disk[g].key] = disk[g]))
    <3>1. CASE g = f
      BY <1>2, <2>1, <3>1, Zenon DEF CacheInv, WrittenCached
    <3>2. CASE g # f
      BY <1>1, <1>2, <2>1, <3>2, OwnKey, Zenon DEF CacheInv, WrittenCached
    <3>3. QED
      BY <3>1, <3>2, Zenon
  <2>2. QED
    BY <1>1, <2>1, Zenon DEF WrittenCached, IsConfig
<1>4. RemovedDropped'
  <2>1. ASSUME NEW g \in Files, disk[g] = Absent, NEW k \in KeysOf(g) PROVE cache'[k] = cache[k]
    BY <1>2, <2>1, Zenon
  <2>2. QED
    BY <1>1, <2>1, Zenon DEF CacheInv, RemovedDropped
<1>5. QED
  BY <1>1, <1>2, <1>3, <1>4, Zenon DEF CacheInv, ScanFirst

(* What taking the first notification does to those of a file. *)
LEMMA TakeFacts ==
  ASSUME TypeInv, CacheInv, NEW op, NextEvent(op)
  PROVE  /\ Head(events).file \in Files /\ Head(events).op = op
         /\ toLoad = {} /\ UNCHANGED <<disk, renamed, toLoad>>
         /\ \A g \in Files : /\ About(events', g) => About(events, g)
                             /\ Head(events).file = g => About(events, g)
                             /\ \A o : LastSays(events, g, o) =>
                                  \/ LastSays(events', g, o)
                                  \/ Head(events).file = g /\ op = o /\ ~About(events', g)
<1>1. /\ events \in Seq(Notification) /\ events # <<>> /\ events' = Tail(events) /\ Head(events).op = op
      /\ UNCHANGED <<disk, renamed, toLoad>> /\ pc = "select"
  BY Zenon DEF NextEvent, TypeInv, TypeOK, Notification
<1>2. Head(events).file \in Files
  BY <1>1, HandleFacts, Zenon DEF Notification
<1>3. toLoad = {}
  BY <1>1, Zenon DEF CacheInv, ScanFirst
<1>4. ASSUME NEW g \in Files, Head(events).file = g PROVE About(events, g)
  <2>1. 1 \in 1..Len(events) /\ events[1] = Head(events)
    BY <1>1
  <2>2. QED
    BY <1>4, <2>1, Zenon DEF About
<1>5. ASSUME NEW g \in Files
      PROVE  /\ About(events', g) => About(events, g)
             /\ \A o : LastSays(events, g, o) =>
                  \/ LastSays(events', g, o)
                  \/ Head(events).file = g /\ op = o /\ ~About(events', g)
  BY <1>1, HandleFacts, Zenon
<1>6. QED
  BY <1>1, <1>2, <1>3, <1>4, <1>5, Zenon

(* A notification of a write or a creation is handled. *)
LEMMA WriteCacheInv == ASSUME OwnKeys, TypeInv, CacheInv, HandleWrite PROVE CacheInv'
<1>1. PICK f : f = Head(events).file
  BY Zenon
<1>2. /\ f \in Files /\ toLoad = {} /\ UNCHANGED <<disk, renamed, toLoad>>
      /\ \A g \in Files : /\ About(events', g) => About(events, g)
                          /\ f = g => About(events, g)
                          /\ \A o : LastSays(events, g, o) =>
                               LastSays(events', g, o) \/ (f = g /\ "write" = o /\ ~About(events', g))
  BY <1>1, TakeFacts, Zenon DEF HandleWrite
<1>3. /\ Attributed'
      /\ IsConfig(disk[f]) /\ disk[f].valid => cache'[disk[f].key] = disk[f]
      /\ disk[f] = Absent => UNCHANGED cache
      /\ \A g \in Files : g # f => \A k \in KeysOf(g) : cache'[k] = cache[k]
  BY <1>1, <1>2, LoadCacheInv, Zenon DEF HandleWrite
<1>4. WrittenCached'
  <2>1. ASSUME NEW g \in Files, IsConfig(disk[g]), disk[g].valid
        PROVE  LastSays(events', g, "write") \/ (~About(events', g) /\ cache'[disk[g].key] = disk[g])
    <3>1. \/ LastSays(events, g, "write")
          \/ ~About(events, g) /\ cache[disk[g].key] = disk[g]
      BY <1>2, <2>1, Zenon DEF CacheInv, WrittenCached
    <3>2. CASE g = f
      BY <1>2, <1>3, <2>1, <3>1, <3>2, Zenon
    <3>3. CASE g # f
      <4>1. cache'[disk[g].key] = cache[disk[g].key]
        BY <1>3, <2>1, <3>3, OwnKey, Zenon
      <4>2. QED
        BY <1>2, <3>1, <3>3, <4>1, Zenon
    <3>4. QED
      BY <3>2, <3>3, Zenon
  <2>2. QED
    BY <1>2, <2>1, Zenon DEF WrittenCached, IsConfig
<1>5. RemovedDropped'
  <2>1. ASSUME NEW g \in Files, disk[g] = Absent, g \notin renamed
        PROVE  LastSays(events', g, "remove") \/ (~About(events', g) /\ \A k \in KeysOf(g) : cache'[k] = None)
    <3>1. \A k \in KeysOf(g) : cache'[k] = cache[k]
      BY <1>3, <2>1, Zenon
    <3>2. LastSays(events, g, "remove") \/ (~About(events, g) /\ \A k \in KeysOf(g) : cache[k] = None)
      BY <2>1, Zenon DEF CacheInv, RemovedDropped
    <3>3. LastSays(events, g, "remove") => LastSays(events', g, "remove")
      <4>1. "write" # "remove"
        OBVIOUS
      <4>2. QED
        BY <1>2, <4>1
    <3>4. QED
      BY <1>2, <3>1, <3>2, <3>3, Zenon
  <2>2. QED
    BY <1>2, <2>1, Zenon DEF RemovedDropped
<1>6. QED
  BY <1>2, <1>3, <1>4, <1>5, Zenon DEF CacheInv, ScanFirst

(* A notification of a removal is handled. *)
LEMMA RemoveCacheInv == ASSUME OwnKeys, TypeInv, CacheInv, HandleRemove PROVE CacheInv'
<1>1. PICK f : f = Head(events).file
  BY Zenon
<1>2. PICK k : k = files[f]
  BY Zenon
<1>3. "remove" # "write"
  OBVIOUS
<1>4. /\ f \in Files /\ toLoad = {} /\ UNCHANGED <<disk, renamed, toLoad>>
      /\ \A g \in Files : /\ About(events', g) => About(events, g)
                          /\ f = g => About(events, g)
                          /\ \A o : LastSays(events, g, o) =>
                               LastSays(events', g, o) \/ (f = g /\ "remove" = o /\ ~About(events', g))
  BY <1>1, TakeFacts, Zenon DEF HandleRemove
<1>5. cache \in [Keys -> Config \cup {None}] /\ files \in [Files -> Keys \cup {None}]
  BY Zenon DEF TypeInv, TypeOK
<1>6. /\ \A g \in Files : files'[g] # None => files'[g] = files[g]
      /\ \A g \in Files : g # f => files'[g] = files[g]
      /\ \A g \in Files : \A j \in KeysOf(g) : cache'[j] # None => cache'[j] = cache[j] /\ (g = f => FALSE)
      /\ \A g \in Files : g # f => \A j \in KeysOf(g) : cache'[j] = cache[j]
  <2>1. CASE k = None \/ cache[k] = None
    <3>1. UNCHANGED <<cache, files>>
      BY <1>1, <1>2, <2>1, Zenon DEF HandleRemove
    <3>2. ASSUME NEW j \in KeysOf(f) PROVE cache[j] = None
      <4>1. SUFFICES ASSUME cache[j] # None PROVE FALSE
        BY Zenon
      <4>2. files[f] = j /\ j \in Keys
        BY <1>4, <4>1, KeysAreKeys, Zenon DEF CacheInv, Attributed
      <4>3. QED
        BY <1>2, <2>1, <4>1, <4>2, MarkerAssumption, Zenon
    <3>3. QED
      BY <3>1, <3>2, Zenon
  <2>2. CASE ~(k = None \/ cache[k] = None)
    <3>1. cache' = [cache EXCEPT ![k] = None] /\ files' = [files EXCEPT ![f] = None]
      BY <1>1, <1>2, <2>2, Zenon DEF HandleRemove
    <3>2. k \in Keys /\ k \in KeysOf(f)
      BY <1>2, <1>4, <1>5, <2>2, Zenon DEF CacheInv, Attributed
    <3>3. ASSUME NEW g \in Files, g # f, NEW j \in KeysOf(g) PROVE cache'[j] = cache[j]
      <4>1. j # k /\ j \in Keys
        BY <1>4, <3>2, <3>3, OtherKey, KeysAreKeys, Zenon
      <4>2. QED
        BY <1>5, <3>1, <4>1, Zenon
    <3>4. ASSUME NEW j \in KeysOf(f) PROVE cache'[j] = None
      <4>1. j = k
        BY <1>4, <3>2, OneKey, Zenon
      <4>2. QED
        BY <1>5, <3>1, <3>2, <4>1, Zenon
    <3>5. files'[f] = None /\ \A g \in Files : g # f => files'[g] = files[g]
      BY <1>4, <1>5, <3>1, Zenon
    <3>6. QED
      BY <3>3, <3>4, <3>5, Zenon
  <2>3. QED
    BY <2>1, <2>2, Zenon
<1>7. Attributed'
  <2>1. \A g \in Files : files'[g] # None => files'[g] \in KeysOf(g)
    BY <1>6, Zenon DEF CacheInv, Attributed
  <2>2. ASSUME NEW g \in Files, NEW j \in KeysOf(g), cache'[j] # None PROVE files'[g] = j
    BY <1>6, <2>2, Zenon DEF CacheInv, Attributed
  <2>3. QED
    BY <2>1, <2>2, Zenon DEF Attributed
<1>8. WrittenCached'
  <2>1. ASSUME NEW g \in Files, IsConfig(disk[g]), disk[g].valid
        PROVE  LastSays(events', g, "write") \/ (~About(events', g) /\ cache'[disk[g].key] = disk[g])
    <3>1. LastSays(events, g, "write") \/ (~About(events, g) /\ cache[disk[g].key] = disk[g])
      BY <1>4, <2>1, Zenon DEF CacheInv, WrittenCached
    <3>2. CASE LastSays(events, g, "write")
      BY <1>3, <1>4, <3>2
    <3>3. CASE ~About(events, g) /\ cache[disk[g].key] = disk[g]
      <4>1. g # f /\ ~About(events', g)
        BY <1>4, <3>3, Zenon
      <4>2. cache'[disk[g].key] = cache[disk[g].key]
        BY <1>6, <2>1, <4>1, OwnKey, Zenon
      <4>3. QED
        BY <3>3, <4>1, <4>2, Zenon
    <3>4. QED
      BY <3>1, <3>2, <3>3, Zenon
  <2>2. QED
    BY <1>4, <2>1, Zenon DEF WrittenCached, IsConfig
<1>9. RemovedDropped'
  <2>1. ASSUME NEW g \in Files, disk[g] = Absent, g \notin renamed
        PROVE  LastSays(events', g, "remove") \/ (~About(events', g) /\ \A j \in KeysOf(g) : cache'[j] = None)
    <3>1. LastSays(events, g, "remove") \/ (~About(events, g) /\ \A j \in KeysOf(g) : cache[j] = None)
      BY <2>1, Zenon DEF CacheInv, RemovedDropped
    <3>2. CASE g = f
      BY <1>4, <1>6, <3>1, <3>2, Zenon
    <3>3. CASE g # f
      BY <1>4, <1>6, <3>1, <3>3, Zenon
    <3>4. QED
      BY <3>2, <3>3, Zenon
  <2>2. QED
    BY <1>4, <2>1, Zenon DEF RemovedDropped
<1>10. QED
  BY <1>4, <1>7, <1>8, <1>9, Zenon DEF CacheInv, ScanFirst

(* A notification of a renaming is dropped. *)
LEMMA RenameCacheInv == ASSUME TypeInv, CacheInv, HandleRename PROVE CacheInv'
<1>1. "rename" # "write" /\ "rename" # "remove"
  OBVIOUS
<1>2. /\ toLoad = {} /\ UNCHANGED <<disk, renamed, toLoad>>
      /\ \A g \in Files : /\ About(events', g) => About(events, g)
                          /\ \A o : LastSays(events, g, o) => LastSays(events', g, o) \/ "rename" = o
  BY TakeFacts, Zenon DEF HandleRename
<1>3. UNCHANGED <<cache, files, pc>>
  BY Zenon DEF HandleRename
<1>4. /\ \A g \in Files : LastSays(events, g, "write") => LastSays(events', g, "write")
      /\ \A g \in Files : LastSays(events, g, "remove") => LastSays(events', g, "remove")
  BY <1>1, <1>2, Zenon
<1>5. QED
  BY <1>2, <1>3, <1>4, Zenon DEF CacheInv, ScanFirst, Attributed, WrittenCached, RemovedDropped

(* Every step keeps the invariant. *)
LEMMA NextCacheInv == ASSUME OwnKeys, TypeInv, CacheInv, [Next]_vars PROVE CacheInv'
<1>1. ASSUME UNCHANGED <<disk, events, renamed, cache, files, toLoad>>, pc = "scan" => pc' = "scan"
      PROVE  CacheInv'
  BY <1>1, Zenon DEF CacheInv, ScanFirst, Attributed, WrittenCached, RemovedDropped
<1>2. CASE ScanEnds
  BY <1>2, Zenon DEF ScanEnds, diskVars, CacheInv, ScanFirst, Attributed, WrittenCached, RemovedDropped
<1>3. CASE SendBegins \/ Send \/ SendEnds \/ Stop
  BY <1>1, <1>3, Zenon DEF SendBegins, Send, SendEnds, Stop, diskVars, CacheInv, ScanFirst
<1>4. CASE LoaderNext
  BY <1>2, <1>3, <1>4, ScanCacheInv, WriteCacheInv, RemoveCacheInv, RenameCacheInv, Zenon DEF LoaderNext
<1>5. ASSUME NEW w \in Watchers, WatchAdd(w) \/ WatchNext(w) \/ WatchReceive(w) \/ WatchLeave(w) PROVE CacheInv'
  BY <1>1, <1>5, Zenon
     DEF WatchAdd, WatchNext, WatchStart, WatchList, WatchSend, WatchDone, WatchReceive, WatchLeave, diskVars, loadVars
<1>6. CASE UNCHANGED <<diskVars, loadVars>>
  BY <1>1, <1>6, Zenon DEF diskVars, loadVars
<1>7. CASE Close \/ CloseNext \/ CloseAgain \/ UNCHANGED vars
  BY <1>6, <1>7, Zenon DEF Close, CloseNext, CloseWait, CloseSubs, CloseAgain, vars
<1>8. QED
  BY <1>4, <1>5, <1>7, ChangeCacheInv, Zenon DEF Next

(* Once the loader in fs.go has handled every notification, its cache      *)
(* holds what the files hold and nothing of a removed file, although each  *)
(* is handled by reading a file that may have changed since: for any files *)
(* that keep to a key of their own.                                        *)
THEOREM CacheFollows ==
  ASSUME OwnKeys
  PROVE  Spec => []CacheFollowsDisk
<1>1. ASSUME TypeInv, CacheInv PROVE CacheFollowsDisk
  <2> SUFFICES ASSUME pc = "select", events = <<>>, NEW f \in Files, NEW k \in KeysOf(f)
               PROVE  /\ IsConfig(disk[f]) /\ disk[f].valid => cache[k] = disk[f]
                      /\ disk[f] = Absent /\ f \notin renamed => cache[k] = None
    BY Zenon DEF CacheFollowsDisk, KeysOf
  <2>1. ~About(events, f) /\ ~LastSays(events, f, "write") /\ ~LastSays(events, f, "remove")
    BY DEF About, LastSays
  <2>2. f \notin toLoad
    BY <1>1, Zenon DEF CacheInv, ScanFirst
  <2>3. ASSUME IsConfig(disk[f]), disk[f].valid PROVE cache[k] = disk[f]
    <3>1. k = disk[f].key
      BY <1>1, <2>3, OneKey, OwnKey, Zenon
    <3>2. QED
      BY <1>1, <2>1, <2>2, <2>3, <3>1, Zenon DEF CacheInv, WrittenCached
  <2>4. ASSUME disk[f] = Absent, f \notin renamed PROVE cache[k] = None
    BY <1>1, <2>1, <2>4, Zenon DEF CacheInv, RemovedDropped
  <2>5. QED
    BY <2>3, <2>4, Zenon
<1>2. Spec => [](TypeInv /\ CacheInv)
  <2>1. Init => TypeInv /\ CacheInv
    BY InitTypeInv, InitCacheInv, Zenon
  <2>2. TypeInv /\ CacheInv /\ [Next]_vars => (TypeInv /\ CacheInv)'
    BY NextTypeInv, NextCacheInv, Zenon
  <2>3. QED
    BY <2>1, <2>2, PTL DEF Spec
<1>3. QED
  BY <1>1, <1>2, PTL

-----------------------------------------------------------------------------
(* Subscribers miss nothing. *)

Range(q) == {q[i] : i \in DOMAIN q}

(* Subscribers come after the scan, are known to send, and stay so while   *)
(* the loader is open.                                                     *)
WatchersKnown ==
  /\ pc = "scan" => \A w \in Watchers : watch[w] = "none"
  /\ \A w \in Watchers : watch[w] \in {"added", "list", "send", "done"} => w \in Range(subs)
  /\ subsClosed => Done

(* The instance being sent is on its way to w. *)
OnItsWay(w, inst) ==
  instance = inst /\ (pc = "loaded" \/ (pc = "send" /\ w \in Range(todo)))

(* Whatever is cached has been sent to a subscriber that has listed the    *)
(* cache, is among what it listed, or is being sent.                       *)
ListedSent ==
  ~Done /\ ~panicked =>
    \A w \in Watchers : \A k \in Keys :
      watch[w] \in {"send", "done"} /\ cache[k] # None /\ Matches(Cached(k), SubFilter(w)) =>
        \/ Cached(k) \in sent[w]
        \/ Cached(k) \in pending[w] /\ watch[w] = "send"
        \/ OnItsWay(w, Cached(k))

SentInv == WatchersKnown /\ ListedSent

(* Before the scan no one watches. *)
LEMMA InitSentInv == Init => SentInv
<1> SUFFICES ASSUME Init PROVE SentInv
  BY Zenon
<1>1. \A w \in Watchers : watch[w] = "none"
  BY Zenon DEF Init
<1>2. subsClosed = FALSE
  BY Zenon DEF Init, SubsInit
<1>3. QED
  BY <1>1, <1>2, Zenon DEF SentInv, WatchersKnown, ListedSent

(* The filter that add stores asks for no more than the caller's. *)
LEMMA SubFilterNarrows ==
  ASSUME NEW w \in Watchers, NEW inst, Matches(inst, SubFilter(w))
  PROVE  Matches(inst, Filter[w])
<1>1. Filter[w] \in [types : SUBSET STRING, status : SUBSET BOOLEAN]
  BY SubscriptionsAssumption, Zenon
<1>2. CASE Filter[w].status = {}
  <2>1. SubFilter(w) = [Filter[w] EXCEPT !.status = {TRUE}]
    BY <1>2, Zenon DEF SubFilter
  <2>2. SubFilter(w).types = Filter[w].types
    BY <1>1, <2>1, Zenon
  <2>3. QED
    BY <1>2, <2>2, Zenon DEF Matches
<1>3. CASE Filter[w].status # {}
  BY <1>3, Zenon DEF SubFilter
<1>4. QED
  BY <1>2, <1>3, Zenon

(* A step that leaves the cache, the loader and the channels alone, and    *)
(* no watcher behind.                                                      *)
LEMMA SentInvStutter ==
  ASSUME SentInv, UNCHANGED <<cache, pc, instance, todo, sent, subs, watch, pending>>,
         subsClosed' => subsClosed \/ Done, Done => closing' # "open", panicked => panicked'
  PROVE  SentInv'
<1>1. Done => Done'
  BY Zenon DEF Done
<1>2. WatchersKnown'
  BY <1>1, Zenon DEF SentInv, WatchersKnown
<1>3. ListedSent'
  BY <1>1, Zenon DEF SentInv, ListedSent, OnItsWay, Cached
<1>4. QED
  BY <1>2, <1>3, Zenon DEF SentInv

(* The loader takes a notification, or the next file of its scan. *)
LEMMA LoadSentInv ==
  ASSUME TypeInv, SentInv, NEW f \in Files, LoadConfigFile(f),
         (pc = "scan" /\ pc' = "scan") \/ (pc = "select" /\ pc' = "loaded"),
         UNCHANGED <<sent, subs, watch, pending, subsClosed, closing, panicked>>
  PROVE  SentInv'
<1>1. Done' <=> Done
  BY Zenon DEF Done
<1>2. WatchersKnown'
  BY <1>1, Zenon DEF SentInv, WatchersKnown
<1>3. ASSUME NEW w \in Watchers, NEW k \in Keys, ~Done, ~panicked, watch[w] \in {"send", "done"},
             cache'[k] # None, Matches(Cached(k)', SubFilter(w))
      PROVE  \/ Cached(k)' \in sent[w]
             \/ Cached(k)' \in pending[w] /\ watch[w] = "send"
             \/ OnItsWay(w, Cached(k))'
  <2>1. pc = "select" /\ pc' = "loaded"
    BY <1>3, Zenon DEF SentInv, WatchersKnown
  <2>2. CASE cache'[k] = cache[k]
    <3>1. Cached(k)' = Cached(k)
      BY <2>2, Zenon DEF Cached
    <3>2. ~OnItsWay(w, Cached(k))
      BY <2>1, Zenon DEF OnItsWay
    <3>3. QED
      BY <1>3, <2>2, <3>1, <3>2, Zenon DEF SentInv, ListedSent
  <2>3. CASE cache'[k] # cache[k]
    <3>1. /\ disk[f] \in Config
          /\ cache' = [cache EXCEPT ![disk[f].key] = disk[f]]
          /\ instance' = Instance(disk[f].key, disk[f].version, disk[f].valid, FALSE)
      BY <2>3, LoadFacts, Zenon
    <3>2. cache \in [Keys -> Config \cup {None}]
      BY Zenon DEF TypeInv, TypeOK
    <3>3. k = disk[f].key /\ cache'[k] = disk[f]
      BY <2>3, <3>1, <3>2, Zenon
    <3>4. instance' = Cached(k)'
      BY <3>1, <3>3, Zenon DEF Cached
    <3>5. QED
      BY <2>1, <3>4, Zenon DEF OnItsWay
  <2>4. QED
    BY <2>2, <2>3, Zenon
<1>4. ListedSent'
  BY <1>1, <1>3, Zenon DEF ListedSent
<1>5. QED
  BY <1>2, <1>4, Zenon DEF SentInv

(* What is in a sequence is its head or in its tail. *)
LEMMA RangeHeadTail ==
  ASSUME NEW T, NEW q \in Seq(T), q # <<>>, NEW x \in Range(q)
  PROVE  x = Head(q) \/ x \in Range(Tail(q))
<1>1. PICK i \in 1..Len(q) : x = q[i]
  BY DEF Range
<1>2. CASE i = 1
  BY <1>1, <1>2
<1>3. CASE i # 1
  <2>1. i - 1 \in DOMAIN Tail(q) /\ Tail(q)[i - 1] = q[i]
    BY <1>1, <1>3
  <2>2. QED
    BY <1>1, <2>1, Zenon DEF Range
<1>4. QED
  BY <1>2, <1>3, Zenon

(* Append keeps what is in a sequence and adds the new element. *)
LEMMA RangeAppend ==
  ASSUME NEW T, NEW q \in Seq(T), NEW e \in T
  PROVE  Range(q) \subseteq Range(Append(q, e)) /\ e \in Range(Append(q, e))
<1>1. /\ DOMAIN Append(q, e) = 1..(Len(q) + 1) /\ DOMAIN q = 1..Len(q) /\ Len(q) \in Nat
      /\ Append(q, e)[Len(q) + 1] = e
      /\ \A i \in 1..Len(q) : Append(q, e)[i] = q[i]
  OBVIOUS
<1>2. Len(q) + 1 \in 1..(Len(q) + 1) /\ \A i \in 1..Len(q) : i \in 1..(Len(q) + 1)
  BY <1>1
<1>3. QED
  BY <1>1, <1>2, Zenon DEF Range

(* What a removed file held is dropped. *)
LEMMA RemoveSentInv == ASSUME TypeInv, SentInv, HandleRemove PROVE SentInv'
<1>1. /\ pc = "select" /\ pc' \in {"select", "send"}
      /\ UNCHANGED <<sent, subs, watch, pending, subsClosed, closing, panicked>>
  BY Zenon DEF HandleRemove, NextEvent, watchVars, chanVars, closeVars
<1>2. Done' <=> Done
  BY <1>1, Zenon DEF Done
<1>3. WatchersKnown'
  BY <1>1, <1>2, Zenon DEF SentInv, WatchersKnown
<1>4. ASSUME NEW k \in Keys, cache'[k] # None PROVE cache'[k] = cache[k]
  <2>1. cache \in [Keys -> Config \cup {None}]
    BY Zenon DEF TypeInv, TypeOK
  <2>2. QED
    BY <1>4, <2>1, RemoveFacts, Zenon
<1>5. ASSUME NEW w \in Watchers, NEW k \in Keys, ~Done, ~panicked, watch[w] \in {"send", "done"},
             cache'[k] # None, Matches(Cached(k)', SubFilter(w))
      PROVE  Cached(k)' \in sent[w] \/ (Cached(k)' \in pending[w] /\ watch[w] = "send")
  <2>1. Cached(k)' = Cached(k) /\ cache[k] # None
    BY <1>4, <1>5, Zenon DEF Cached
  <2>2. ~OnItsWay(w, Cached(k))
    BY <1>1, Zenon DEF OnItsWay
  <2>3. QED
    BY <1>5, <2>1, <2>2, Zenon DEF SentInv, ListedSent
<1>6. ListedSent'
  BY <1>1, <1>2, <1>5, Zenon DEF ListedSent
<1>7. QED
  BY <1>3, <1>6, Zenon DEF SentInv

(* An instance is sent: to all subscribers there are when send begins, and *)
(* to one after the other.                                                 *)
LEMMA SendSentInv == ASSUME TypeInv, SentInv, SendBegins \/ Send \/ SendEnds PROVE SentInv'
<1>1. /\ pc # "scan" /\ pc' # "scan"
      /\ UNCHANGED <<cache, instance, subs, watch, pending, subsClosed, closing, panicked>>
  BY Zenon DEF SendBegins, Send, SendEnds, watchVars, closeVars
<1>2. Done' <=> Done
  BY <1>1, Zenon DEF Done
<1>3. WatchersKnown'
  BY <1>1, <1>2, Zenon DEF SentInv, WatchersKnown
<1>4. \A k : Cached(k)' = Cached(k)
  BY <1>1, Zenon DEF Cached
<1>5. todo \in Seq(Watchers) /\ sent \in [Watchers -> SUBSET InstanceRecord]
  BY Zenon DEF TypeInv, TypeOK
<1>6. ASSUME NEW w \in Watchers, NEW k \in Keys, ~Done, ~panicked, watch[w] \in {"send", "done"},
             cache[k] # None, Matches(Cached(k), SubFilter(w))
      PROVE  \/ Cached(k) \in sent'[w]
             \/ Cached(k) \in pending[w] /\ watch[w] = "send"
             \/ OnItsWay(w, Cached(k))'
  <2>1. \/ Cached(k) \in sent[w]
        \/ Cached(k) \in pending[w] /\ watch[w] = "send"
        \/ OnItsWay(w, Cached(k))
    BY <1>6, Zenon DEF SentInv, ListedSent
  <2>2. sent[w] \subseteq sent'[w]
    <3>1. CASE Send
      <4>1. Head(todo) \in Watchers
        BY <1>5, <3>1 DEF Send
      <4>2. QED
        BY <1>5, <3>1, <4>1, Zenon DEF Send, SendTo, SendOn, chanVars
    <3>2. CASE SendBegins \/ SendEnds
      BY <3>2, Zenon DEF SendBegins, SendEnds, chanVars
    <3>3. QED
      BY <3>1, <3>2, Zenon
  <2>3. CASE OnItsWay(w, Cached(k))
    <3>1. CASE SendBegins
      <4>1. w \in Range(subs) /\ ~subsClosed
        BY <1>6, Zenon DEF SentInv, WatchersKnown
      <4>2. todo' = subs /\ pc' = "send" /\ instance' = Cached(k)
        BY <1>1, <2>3, <3>1, <4>1, Zenon DEF SendBegins, SendTodo, OnItsWay
      <4>3. QED
        BY <1>4, <4>1, <4>2, Zenon DEF OnItsWay
    <3>2. CASE Send
      <4>1. /\ instance = Cached(k) /\ w \in Range(todo) /\ todo # <<>> /\ todo' = Tail(todo) /\ pc' = "send"
            /\ pc = "send" /\ UNCHANGED instance
        BY <2>3, <3>2, Zenon DEF Send, OnItsWay
      <4>2. w = Head(todo) \/ w \in Range(Tail(todo))
        BY <1>5, <4>1, RangeHeadTail, Zenon
      <4>3. CASE w = Head(todo)
        <5>1. sent' = [sent EXCEPT ![w] = @ \cup {instance}]
          BY <1>6, <3>2, <4>1, <4>3, Zenon DEF Send, SendTo, SendOn
        <5>2. QED
          BY <1>5, <4>1, <5>1, Zenon
      <4>4. CASE w \in Range(Tail(todo))
        BY <1>4, <4>1, <4>4, Zenon DEF OnItsWay
      <4>5. QED
        BY <4>2, <4>3, <4>4, Zenon
    <3>3. CASE SendEnds
      <4>1. w \in Range(<<>>)
        BY <2>3, <3>3, Zenon DEF SendEnds, OnItsWay
      <4>2. QED
        BY <4>1 DEF Range
    <3>4. QED
      BY <3>1, <3>2, <3>3, Zenon
  <2>4. QED
    BY <2>1, <2>2, <2>3, Zenon
<1>7. ListedSent'
  BY <1>1, <1>2, <1>4, <1>6, Zenon DEF ListedSent
<1>8. QED
  BY <1>3, <1>7, Zenon DEF SentInv

(* The loader's goroutine takes a step. *)
LEMMA LoaderSentInv == ASSUME TypeInv, SentInv, LoaderNext PROVE SentInv'
<1>1. ASSUME NEW f \in Files, ScanFile(f) PROVE SentInv'
  BY <1>1, LoadSentInv, Zenon DEF ScanFile, watchVars, chanVars, closeVars
<1>2. CASE HandleWrite
  <2>1. Head(events).file \in Files
    <3>1. events \in Seq(Notification) /\ events # <<>>
      BY <1>2, Zenon DEF HandleWrite, NextEvent, TypeInv, TypeOK, Notification
    <3>2. QED
      BY <3>1, HandleFacts, Zenon DEF Notification
  <2>2. QED
    BY <1>2, <2>1, LoadSentInv, Zenon DEF HandleWrite, NextEvent, watchVars, chanVars, closeVars
<1>3. CASE HandleRename
  BY <1>3, SentInvStutter, Zenon DEF HandleRename, NextEvent, watchVars, chanVars, closeVars, Done
<1>4. CASE ScanEnds
  BY <1>4, Zenon DEF ScanEnds, watchVars, chanVars, closeVars, SentInv, WatchersKnown, ListedSent, Done
<1>5. CASE Stop
  BY <1>5, Zenon DEF Stop, watchVars, chanVars, closeVars, SentInv, WatchersKnown, ListedSent, Done
<1>6. QED
  BY <1>1, <1>2, <1>3, <1>4, <1>5, RemoveSentInv, SendSentInv, Zenon DEF LoaderNext

(* A call of Watch takes a step. *)
LEMMA WatchSentInv ==
  ASSUME TypeInv, SentInv, NEW w \in Watchers, WatchAdd(w) \/ WatchNext(w) \/ WatchReceive(w) \/ WatchLeave(w)
  PROVE  SentInv'
<1>1. /\ subs \in Seq(Watchers) /\ pending \in [Watchers -> SUBSET InstanceRecord]
      /\ watch \in [Watchers -> {"none", "nil", "added", "list", "send", "done"}]
      /\ sent \in [Watchers -> SUBSET InstanceRecord]
  BY Zenon DEF TypeInv, TypeOK
<1>2. /\ UNCHANGED <<cache, pc, instance, todo, subsClosed, closing>>
      /\ panicked' = panicked \/ (WatchSend(w) /\ panicked')
  BY Zenon DEF WatchAdd, WatchNext, WatchStart, WatchList, WatchSend, WatchDone, WatchReceive, WatchLeave, loadVars, closeVars
<1>3. (Done' <=> Done) /\ \A k : Cached(k)' = Cached(k)
  BY <1>2, Zenon DEF Done, Cached
<1>4. \A v, inst : OnItsWay(v, inst)' <=> OnItsWay(v, inst)
  BY <1>2, Zenon DEF OnItsWay
<1>5. ASSUME \A v \in Watchers : watch'[v] # watch[v] =>
               v = w /\ watch[v] # "none" /\ watch'[v] \in {"list", "send", "done"},
             subs' = subs
      PROVE  WatchersKnown'
  <2>1. watch[w] # "none" => pc # "scan"
    BY Zenon DEF SentInv, WatchersKnown
  <2>2. watch[w] = "nil" => watch'[w] = "nil"
    BY <1>1, <1>5, Zenon DEF WatchAdd, WatchNext, WatchStart, WatchList, WatchSend, WatchDone, WatchReceive, WatchLeave, watchVars
  <2>3. QED
    BY <1>1, <1>2, <1>3, <1>5, <2>1, <2>2, Zenon DEF SentInv, WatchersKnown
<1>6. CASE WatchAdd(w)
  <2>1. /\ pc # "scan" /\ UNCHANGED <<pending, sent>>
        /\ \A v \in Watchers : watch'[v] # watch[v] => v = w /\ watch'[v] \in {"nil", "added"}
    BY <1>1, <1>6, Zenon DEF WatchAdd, chanVars
  <2>2. Range(subs) \subseteq Range(subs') /\ (watch'[w] = "added" => w \in Range(subs'))
    <3>1. CASE subsClosed
      BY <1>1, <1>6, <3>1, Zenon DEF WatchAdd
    <3>2. CASE ~subsClosed
      BY <1>1, <1>6, <3>2, RangeAppend, Zenon DEF WatchAdd
    <3>3. QED
      BY <3>1, <3>2, Zenon
  <2>3. WatchersKnown'
    BY <1>2, <1>3, <2>1, <2>2, Zenon DEF SentInv, WatchersKnown
  <2>4. \A v \in Watchers : watch'[v] \in {"send", "done"} => watch'[v] = watch[v]
    BY <2>1, Zenon
  <2>5. ListedSent'
    BY <1>2, <1>3, <1>4, <2>1, <2>4, Zenon DEF SentInv, ListedSent
  <2>6. QED
    BY <2>3, <2>5, Zenon DEF SentInv
<1>7. CASE WatchStart(w)
  <2>1. /\ UNCHANGED <<pending, sent, subs>> /\ watch[w] = "added" /\ watch' = [watch EXCEPT ![w] = "list"]
    BY <1>7, Zenon DEF WatchStart, chanVars
  <2>2. WatchersKnown'
    BY <1>1, <1>5, <2>1, Zenon
  <2>3. \A v \in Watchers : watch'[v] \in {"send", "done"} => watch'[v] = watch[v]
    BY <1>1, <2>1, Zenon
  <2>4. ListedSent'
    BY <1>2, <1>3, <1>4, <2>1, <2>3, Zenon DEF SentInv, ListedSent
  <2>5. QED
    BY <2>2, <2>4, Zenon DEF SentInv
<1>8. CASE WatchList(w)
  <2>1. /\ UNCHANGED <<sent, subs>> /\ watch[w] = "list" /\ watch' = [watch EXCEPT ![w] = "send"]
        /\ pending' = [pending EXCEPT ![w] = ListConfigs(Filter[w])]
    BY <1>8, Zenon DEF WatchList, chanVars
  <2>2. WatchersKnown'
    BY <1>1, <1>5, <2>1, Zenon
  <2>3. /\ watch'[w] = "send" /\ pending'[w] = ListConfigs(Filter[w])
        /\ \A v \in Watchers : v # w => watch'[v] = watch[v] /\ pending'[v] = pending[v]
    BY <1>1, <2>1, Zenon
  <2>4. ASSUME NEW k \in Keys, cache[k] # None, Matches(Cached(k), SubFilter(w))
        PROVE  Cached(k) \in pending'[w]
    BY <2>3, <2>4, SubFilterNarrows, Zenon DEF ListConfigs
  <2>5. ListedSent'
    BY <1>2, <1>3, <1>4, <2>1, <2>3, <2>4, Zenon DEF SentInv, ListedSent
  <2>6. QED
    BY <2>2, <2>5, Zenon DEF SentInv
<1>9. CASE WatchSend(w)
  <2>1. WatchersKnown'
    BY <1>5, <1>9, Zenon DEF WatchSend
  <2>2. CASE panicked'
    BY <2>1, <2>2, Zenon DEF SentInv, ListedSent
  <2>3. CASE ~panicked'
    <3>1. ~panicked
      BY <1>9, Zenon DEF WatchSend
    <3>2. PICK inst \in pending[w] : SendOn(w, inst) /\ pending' = [pending EXCEPT ![w] = @ \ {inst}]
      BY <1>9, <2>3, Zenon DEF WatchSend
    <3>3. /\ sent'[w] = sent[w] \cup {inst} /\ pending'[w] = pending[w] \ {inst} /\ UNCHANGED watch
          /\ \A v \in Watchers : v # w => sent'[v] = sent[v] /\ pending'[v] = pending[v]
      BY <1>1, <1>9, <3>2, Zenon DEF SendOn, WatchSend
    <3>4. \A v \in Watchers : sent[v] \subseteq sent'[v] /\ pending[v] \subseteq pending'[v] \cup sent'[v]
      BY <3>3, Zenon
    <3>5. ListedSent'
      BY <1>2, <1>3, <1>4, <3>1, <3>3, <3>4, Zenon DEF SentInv, ListedSent
    <3>6. QED
      BY <2>1, <3>5, Zenon DEF SentInv
  <2>4. QED
    BY <2>2, <2>3, Zenon
<1>10. CASE WatchDone(w)
  <2>1. /\ UNCHANGED <<sent, subs>> /\ watch[w] = "send" /\ watch' = [watch EXCEPT ![w] = "done"]
        /\ pending[w] = {} \/ Done
    BY <1>10, Zenon DEF WatchDone, chanVars
  <2>2. WatchersKnown'
    BY <1>1, <1>5, <2>1, Zenon
  <2>3. \A v \in Watchers : /\ v # w => watch'[v] = watch[v]
                            /\ watch'[v] \in {"send", "done"} => watch[v] \in {"send", "done"}
    BY <1>1, <2>1, Zenon
  <2>4. \A v \in Watchers : v # w => pending'[v] = pending[v]
    BY <1>1, <1>10, Zenon DEF WatchDone
  <2>5. CASE Done
    BY <1>3, <2>2, <2>5, Zenon DEF SentInv, ListedSent
  <2>6. CASE ~Done
    <3>1. pending[w] = {}
      BY <2>1, <2>6, Zenon
    <3>2. ListedSent'
      BY <1>2, <1>3, <1>4, <2>1, <2>3, <2>4, <3>1, Zenon DEF SentInv, ListedSent
    <3>3. QED
      BY <2>2, <3>2, Zenon DEF SentInv
  <2>7. QED
    BY <2>5, <2>6, Zenon
<1>11. CASE WatchReceive(w) \/ WatchLeave(w)
  <2>1. UNCHANGED <<loadVars, watchVars, sent, closeVars>>
    BY <1>11, Zenon DEF WatchReceive, WatchLeave
  <2>2. QED
    BY <2>1, SentInvStutter, Zenon DEF loadVars, watchVars, closeVars, Done
<1>12. QED
  BY <1>6, <1>7, <1>8, <1>9, <1>10, <1>11, Zenon DEF WatchNext

(* Every step keeps what subscribers are owed. *)
LEMMA NextSentInv == ASSUME TypeInv, SentInv, [Next]_vars PROVE SentInv'
<1>1. ASSUME NEW f \in Files, WriteFile(f) \/ RemoveFile(f) \/ RenameFile(f) PROVE SentInv'
  <2>1. UNCHANGED <<loadVars, watchVars, chanVars, closeVars>>
    BY <1>1, Zenon DEF WriteFile, RemoveFile, RenameFile, Change
  <2>2. QED
    BY <2>1, SentInvStutter, Zenon DEF loadVars, watchVars, chanVars, closeVars, Done
<1>2. CASE Close \/ CloseNext \/ CloseAgain
  <2>1. /\ UNCHANGED <<loadVars, watchVars, chanVars>> /\ (Done => closing' # "open")
        /\ subsClosed' => subsClosed \/ Done
        /\ panicked => panicked'
    <3>1. "wait" # "open" /\ "waited" # "open" /\ "closed" # "open"
      OBVIOUS
    <3>2. CASE Close
      BY <3>1, <3>2, Zenon DEF Close, Done
    <3>3. CASE CloseWait
      BY <3>1, <3>3, Zenon DEF CloseWait, Done
    <3>4. CASE CloseSubs
      BY <3>1, <3>4, SMT DEF CloseSubs, Done
    <3>5. CASE CloseAgain
      BY <3>5, Zenon DEF CloseAgain, Done
    <3>6. QED
      BY <1>2, <3>2, <3>3, <3>4, <3>5, Zenon DEF CloseNext
  <2>2. QED
    BY <2>1, SentInvStutter, Zenon DEF loadVars, watchVars, chanVars
<1>3. CASE UNCHANGED vars
  BY <1>3, SentInvStutter, Zenon DEF vars, loadVars, watchVars, chanVars, closeVars, Done
<1>4. QED
  BY <1>1, <1>2, <1>3, LoaderSentInv, WatchSentInv, Zenon DEF Next

(* "AT LEAST ONCE" for the loader in fs.go: whatever is cached has been    *)
(* sent to every subscriber whose filter it matches, or is on its way, for *)
(* any number of watchers, although Watch adds a subscriber and lists the  *)
(* cache in two steps.                                                     *)
THEOREM SentAtLeastOnce == Spec => []AtLeastOnce
<1>1. ASSUME SentInv PROVE AtLeastOnce
  <2> SUFFICES ASSUME ~Done, ~panicked, NEW w \in Watchers, NEW k \in Keys, cache[k] # None, watch[w] = "done",
                      Matches(Cached(k), SubFilter(w))
               PROVE  \/ Cached(k) \in sent[w]
                      \/ pc = "loaded" /\ instance = Cached(k)
                      \/ pc = "send" /\ instance = Cached(k) /\ \E i \in DOMAIN todo : todo[i] = w
    BY Zenon DEF AtLeastOnce
  <2>1. Cached(k) \in sent[w] \/ OnItsWay(w, Cached(k))
    BY <1>1, Zenon DEF SentInv, ListedSent
  <2>2. QED
    BY <2>1, Zenon DEF OnItsWay, Range
<1>2. Spec => [](TypeInv /\ SentInv)
  <2>1. Init => TypeInv /\ SentInv
    BY InitTypeInv, InitSentInv, Zenon
  <2>2. TypeInv /\ SentInv /\ [Next]_vars => (TypeInv /\ SentInv)'
    BY NextTypeInv, NextSentInv, Zenon
  <2>3. QED
    BY <2>1, <2>2, PTL DEF Spec
<1>3. QED
  BY <1>1, <1>2, PTL

=============================================================================
